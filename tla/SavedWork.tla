----------------------------- MODULE SavedWork -----------------------------
(***************************************************************************)
(* What a session store promises, whatever its files are: work that was    *)
(* saved at a boundary is never lost, and what a reopened session starts   *)
(* from is a state it was really in.  Specification, not code: the         *)
(* contract of Save and SaveRecovery in internal/session.                  *)
(***************************************************************************)
EXTENDS Integers

VARIABLES
    now,    \* the newest state of the session in memory
    safe    \* the newest state a boundary has promised

Init == now = 0 /\ safe = 0

Work   == now' > now /\ safe' = safe
Save   == safe' \in safe..now /\ now' = now
Reopen == now' \in safe..now /\ safe' = safe

Next == Work \/ Save \/ Reopen

Spec == Init /\ [][Next]_<<now, safe>>
=============================================================================
