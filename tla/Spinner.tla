------------------------------ MODULE Spinner ------------------------------
(***************************************************************************)
(* The activity row of internal/tui's Runtime: a row that several workers  *)
(* share, and the one goroutine that animates it.                          *)
(*                                                                         *)
(* The first activity starts the animator, which retires when it finds     *)
(* none left; a start that comes at that moment starts another.  The stop  *)
(* of an activity that was the last waits until the animator is gone, or   *)
(* until somebody else's activity owns the row.                            *)
(*                                                                         *)
(* Animators have the number of their start.  A step between two holdings  *)
(* of the mutex is one step; what is drawn is left out.                    *)
(***************************************************************************)
EXTENDS Integers, Sequences

CONSTANTS
    Activities,   \* the workers that use the row, each one activity at a time
    MaxStarts     \* bound of the model: activities started

ASSUME SpinnerAssumption == Activities # {} /\ MaxStarts \in Nat

VARIABLES
    quit,       \* the Runtime is closed
    row,        \* activities
    animator,   \* the animators in the order of their starts: where each is, its idle channel
    animating,  \* Runtime.animating
    waiters,    \* animRejoined: its number, whether it is there; the closed ones
    act,        \* for each worker where its activity is, its animator, its channel
    starts      \* bound of the model

spinnerVars == <<quit, row, animator, animating, waiters, act, starts>>

Newest == Len(animator)
Resting == [at |-> "none", anim |-> 0, joined |-> 0]

-----------------------------------------------------------------------------
(* startActivityDetail *)

(* Mutant: nobody is told that the row has a new owner.                     *)
TellsNobody == UNCHANGED waiters

TellsWaiters == waiters' = [waiters EXCEPT !.there = FALSE,
                                           !.closed = @ \cup (IF waiters.there THEN {waiters.n} ELSE {})]

StartActivity(a) ==
    /\ act[a].at = "none" /\ starts < MaxStarts
    /\ starts' = starts + 1
    /\ row' = row \cup {a}
    /\ animating' = TRUE
    /\ animator' = IF animating THEN animator
                   ELSE Append(animator, [at |-> "waits", idle |-> FALSE])
    /\ act' = [act EXCEPT ![a] = [Resting EXCEPT !.at = "runs",
                                    !.anim = IF animating THEN Newest ELSE Newest + 1]]
    /\ TellsWaiters
    /\ UNCHANGED quit

-----------------------------------------------------------------------------
(* The end of an activity: its context ends or its stop is called, which    *)
(* ends it.                                                                 *)

(* Mutant: the animator is not woken.                                       *)
WakesNobody == UNCHANGED animator

Wakes == animator' = IF row' = {} THEN [animator EXCEPT ![Newest].idle = TRUE] ELSE animator

FinishActivity(a) ==
    /\ act[a].at = "runs"
    /\ row' = row \ {a} /\ Wakes
    /\ act' = [act EXCEPT ![a].at = "finished"]
    /\ UNCHANGED <<quit, animating, waiters, starts>>

(* The stop looks whether it was the last.                                  *)
StopLooks(a) ==
    /\ act[a].at = "finished"
    /\ IF row # {}
       THEN act' = [act EXCEPT ![a] = Resting] /\ UNCHANGED waiters
       ELSE LET n == IF waiters.there THEN waiters.n ELSE waiters.n + 1 IN
            /\ waiters' = [waiters EXCEPT !.n = n, !.there = TRUE]
            /\ act' = [act EXCEPT ![a].at = "stops", ![a].joined = n]
    /\ UNCHANGED <<quit, row, animator, animating, starts>>

StopReturns(a) ==
    /\ act[a].at = "stops"
    /\ animator[act[a].anim].at = "gone" \/ act[a].joined \in waiters.closed
    /\ act' = [act EXCEPT ![a] = Resting]
    /\ UNCHANGED <<quit, row, animator, animating, waiters, starts>>

-----------------------------------------------------------------------------
(* animateActivities *)

Goes(g, from, to) == animator[g].at = from /\ animator' = [animator EXCEPT ![g].at = to]

Ticks(g) == Goes(g, "waits", "looks") /\ UNCHANGED <<quit, row, animating, waiters, act, starts>>

Woken(g) ==
    /\ animator[g].at = "waits" /\ animator[g].idle
    /\ animator' = [animator EXCEPT ![g] = [at |-> "looks", idle |-> FALSE]]
    /\ UNCHANGED <<quit, row, animating, waiters, act, starts>>

(* Mutant: the list is trusted to be empty still.                           *)
Retires == TRUE

(* retireIfIdle *)
NothingLeft == row = {}

Looks(g) ==
    /\ IF NothingLeft THEN Goes(g, "looks", "retired") /\ animating' = FALSE
       ELSE Goes(g, "looks", "waits") /\ UNCHANGED animating
    /\ UNCHANGED <<quit, row, waiters, act, starts>>

HearsQuit(g) ==
    /\ quit /\ Goes(g, "waits", "retired") /\ animating' = FALSE
    /\ UNCHANGED <<quit, row, waiters, act, starts>>

Gone(g) ==
    /\ Goes(g, "retired", "gone")
    /\ UNCHANGED <<quit, row, animating, waiters, act, starts>>

Quit ==
    /\ ~quit /\ quit' = TRUE
    /\ UNCHANGED <<row, animator, animating, waiters, act, starts>>

-----------------------------------------------------------------------------
SpinnerInit ==
    /\ quit = FALSE /\ row = {} /\ animator = <<>> /\ animating = FALSE
    /\ waiters = [n |-> 0, there |-> FALSE, closed |-> {}]
    /\ act = [a \in Activities |-> Resting] /\ starts = 0

Animates(g) == Woken(g) \/ Looks(g) \/ HearsQuit(g) \/ Gone(g)
StopSteps(a) == StopLooks(a) \/ StopReturns(a)

SpinnerNext ==
    \/ \E a \in Activities : StartActivity(a) \/ FinishActivity(a) \/ StopSteps(a)
    \/ \E g \in 1..Newest : Ticks(g) \/ Animates(g)
    \/ Quit

SpinnerSpec == SpinnerInit /\ [][SpinnerNext]_spinnerVars

(* Go schedules the goroutines; no tick of the clock is counted on.         *)
SpinnerFairness ==
    /\ \A a \in Activities : WF_spinnerVars(StopSteps(a))
    /\ \A g \in 1..MaxStarts : WF_spinnerVars(g <= Newest /\ Animates(g))

-----------------------------------------------------------------------------
(* While anything is going on the row is animated: the animator that serves *)
(* it is there and has not decided to leave, whatever start raced with its  *)
(* retirement, and there is never a second one.                             *)
Serves(g) == animator[g].at \in {"waits", "looks"}

RowAlive ==
    /\ row # {} /\ ~quit => \E g \in 1..Newest : Serves(g)
    /\ \A g, h \in 1..Newest : Serves(g) /\ Serves(h) => g = h

(* What ends: the stop of an activity waits neither for a tick nor for the  *)
(* work of another agent that took the row over.                            *)
Stopping == \E a \in Activities : act[a].at \in {"finished", "stops"}
=============================================================================
