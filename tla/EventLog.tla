------------------------------ MODULE EventLog ------------------------------
(***************************************************************************)
(* What a session's journal promises its readers, with no window, file,    *)
(* queue or mutex: a log that grows at its end, and readers that read it   *)
(* one event after the other.  A reader may start over, and a crash may    *)
(* take the end of the log; neither lets a reader skip an event of the log *)
(* or read one twice.  Nothing is promised once a write of the disk below  *)
(* has failed.                                                             *)
(***************************************************************************)
EXTENDS Integers, Sequences

CONSTANTS
    Readers,
    Nothing    \* what a reader that has read nothing has read last

VARIABLES
    log,       \* log[n].seq = n
    last,      \* the last event each reader has read
    held       \* whether every write has succeeded so far

vars == <<log, last, held>>

Init == held = TRUE /\ log = <<>> /\ last = [r \in Readers |-> Nothing]

Grow ==
    /\ Len(log') = Len(log) + 1
    /\ SubSeq(log', 1, Len(log)) = log
    /\ log'[Len(log')].seq = Len(log')
    /\ UNCHANGED last

Read(r) ==
    /\ last[r].seq < Len(log)
    /\ last' = [last EXCEPT ![r] = log[last[r].seq + 1]]
    /\ UNCHANGED log

StartOver(r) ==
    /\ last' = [last EXCEPT ![r] = Nothing]
    /\ UNCHANGED log

Lose ==
    /\ \E n \in 0..Len(log) : log' = SubSeq(log, 1, n)
    /\ UNCHANGED last

Step ==
    \/ Grow
    \/ \E r \in Readers : Read(r) \/ StartOver(r)
    \/ Lose

Next == (Step /\ UNCHANGED held) \/ held' = FALSE

Spec == Init /\ [][Next]_vars
=============================================================================
