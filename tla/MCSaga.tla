------------------------------- MODULE MCSaga -------------------------------
(* Small instances of Saga for TLC: one file the repository has, one path   *)
(* where there is none, two chapters, three wakes.                          *)
EXTENDS Saga

MCTracked == {"a"}
MCOthers  == {"n"}
Anything  == FaultKinds
=============================================================================
