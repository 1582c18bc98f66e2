------------------------------- MODULE MCTurn -------------------------------
(* Small instances of Turn for TLC.                                         *)
EXTENDS Turn

(* Every round uses the same two ids.                                       *)
TwoCalls == {<<"a", "b">>}
=============================================================================
