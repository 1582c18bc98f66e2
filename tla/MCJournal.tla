----------------------------- MODULE MCJournal -----------------------------
(* Small instances of Journal for TLC.                                      *)
EXTENDS Journal

(* A token delta, and a permission event: larger, and flushed.              *)
MCKinds == {[size |-> 1, sync |-> FALSE], [size |-> 2, sync |-> TRUE]}

None == [a \in Accidents |-> 0]

(* The accidents of each run: of a file, of a journal in memory, which has  *)
(* no disk that could fail, and of a Close after a crash.                   *)
Each     == [None EXCEPT !.disk = 1, !.close = 1, !.crash = 1, !.power = 1]
Drops    == [None EXCEPT !.drop = 1, !.close = 1, !.disk = 1]
Reclosed == [None EXCEPT !.crash = 1, !.close = 1]
=============================================================================
