----------------------------- MODULE Delegation -----------------------------
(***************************************************************************)
(* The delegation of a plan to subagents: runTasks and runOneTask of       *)
(* internal/engine/orchestrator.go, with the pause gate                    *)
(* (execution_pause.go), the run's spending (spend.go), the recovery       *)
(* boundary (save.go, recovery_resume.go), the ends of RunTurn that save   *)
(* it, and the windows of the checkpoint store (task_snapshot.go).         *)
(*                                                                         *)
(* One goroutine schedules: it sweeps the plan for tasks that can start,   *)
(* launches each in a goroutine of its own up to a limit, and waits for    *)
(* one to report.  A subagent takes the tree it works in, opens its        *)
(* provider, calls it round after round, lands what it did and reports.    *)
(* A usage limit stops every subagent at its next provider or tool         *)
(* boundary and the run is saved as a pause; an error lets the others      *)
(* finish and saves a recovery point before anything else starts.  A saved *)
(* point is resumed by the same process or by the next one.                *)
(*                                                                         *)
(* A subagent's conversation is abstracted to the rounds it has done and   *)
(* what comes next in it; a tree to whose it is; a plan is given.          *)
(***************************************************************************)
EXTENDS Integers, Sequences, SequencesExt, FiniteSets

CONSTANTS
    Setups,       \* what a run is given: [plan, isolating, ceiling, costs, faults]
    Limit,        \* MaxConcurrentTasks
    MaxRounds,    \* MaxRoundsFor: provider rounds of one task
    MaxAttempts   \* bound of the model: turns that work on the run

FaultKinds == {"limit", "fail", "tool", "open", "isolate", "land", "save",
               "cancel", "crash"}

ASSUME SizesAssumption ==
    Limit \in Nat \ {0} /\ MaxRounds \in Nat /\ MaxAttempts \in Nat
(* resolveNeeds keeps only the needs that name an earlier task.             *)
ASSUME PlansAssumption ==
    \A s \in Setups :
        /\ s.plan \in Seq([writes : BOOLEAN, vendor : BOOLEAN, needs : SUBSET Nat])
        /\ \A i \in DOMAIN s.plan : s.plan[i].needs \subseteq 1..(i - 1)
ASSUME MoneyAssumption == \A s \in Setups : s.ceiling \in Nat /\ s.costs \subseteq Nat
ASSUME FaultsAssumption ==
    \A s \in Setups : s.isolating \in BOOLEAN /\ s.faults \subseteq FaultKinds

VARIABLES
    setup,      \* the run's tasks and its surroundings, which do not change
    attempt,    \* turns begun on this run
    at,         \* where the scheduler is
    ret,        \* how the delegation ended, "" while it goes on
    journal,    \* execution.Tasks: what is recorded of each task
    started,    \* started
    writing,    \* writing: a writer holds the shared tree
    unavailable,\* retainedStop is set
    overBudget, \* budgetLimit
    gate,       \* executionPause: [stopped, recovery]
    spend,      \* runSpend: [usd, calls, worst]
    child,      \* the subagents' goroutines: [at, errs]
    lock,       \* who holds the mutex over the user's tree, 0 for nobody
    finished,   \* the channel of reports
    cancelled,  \* the turn's context is done
    resumable,  \* execution.Recovery or LastPause is set
    disk,       \* the resumable point on disk: {} or one [journal, spend]
    did,        \* how far each task's work has really gone
    windows,    \* the checkpoint store's tasks: [task, open]
    trees,      \* tasks whose worktree exists
    landed      \* history: tasks whose worktree has landed

plan      == setup.plan       \* tasks: a sequence of [writes, needs, vendor]
Isolating == setup.isolating  \* whether the agent has an Isolator
Ceiling   == setup.ceiling    \* MaxRunCostUSD, 0 for none
Faults    == setup.faults     \* bound of the model: what may go wrong
Task      == DOMAIN plan

schedule == <<at, ret, started, writing, unavailable, overBudget>>
world    == <<did, windows, trees, landed>>
saved    == <<resumable, disk>>
vars == <<setup, attempt, schedule, journal, gate, spend, child, lock, finished,
          cancelled, saved, world>>

-----------------------------------------------------------------------------
(* The plan and the outcomes.                                               *)

Fresh == [status |-> "", rounds |-> 0, next |-> "call", talks |-> FALSE,
          isolated |-> FALSE, window |-> 0]
NoChild == [at |-> "none", errs |-> {}]

Resolved(i) == journal[i].status # ""
Running == {i \in Task : child[i].at # "none"}

(* dependenciesResolved, blockedBy.                                         *)
Ready(i)     == i \notin started /\ \A n \in plan[i].needs : Resolved(n)
BlockedBy(i) == \E n \in plan[i].needs :
                    journal[n].status \in {"failed", "blocked", "over budget"}

(* classify: an error that says the rounds ran out keeps the result,        *)
(* whatever else it says.                                                   *)
Classify(errs) == IF "rounds" \in errs THEN "incomplete"
                  ELSE IF errs # {} THEN "failed" ELSE "done"

SharesTree(i) == ~Isolating /\ plan[i].writes

(* exhausted, wouldCrossInFlight.                                           *)
Exhausted == Ceiling > 0 /\ spend.usd >= Ceiling
WouldCross ==
    /\ Ceiling > 0 /\ Running # {}
    /\ spend.calls = 0 \/ spend.usd + Cardinality(Running) * spend.worst >= Ceiling

Spent(cost) == [usd   |-> spend.usd + cost,
                calls |-> spend.calls + 1,
                worst |-> IF cost > spend.worst THEN cost ELSE spend.worst]

-----------------------------------------------------------------------------
(* The recovery boundary.                                                   *)

Point == [journal |-> journal, spend |-> spend]

(* saveRecovery: the point is on disk, or nothing claims that it is.        *)
SaveBoundary == resumable' = TRUE /\ disk' = {Point}
LoseBoundary == "save" \in Faults /\ UNCHANGED saved

(* Mutant: the point is retired in memory and stays on disk.                *)
RetireInMemory == resumable' = FALSE /\ UNCHANGED disk

(* retireRecovery: no work begins while a saved point could replay it.  A   *)
(* retirement that fails leaves the point and admits nothing.               *)
Retire       == resumable' = FALSE /\ disk' = IF resumable THEN {} ELSE disk
RetireFails  == resumable /\ LoseBoundary

-----------------------------------------------------------------------------
(* The checkpoint store: BeginTask and EndTask, whose git commands fail     *)
(* once the turn is cancelled.                                              *)

BeginTask(i) == windows' = IF cancelled THEN windows
                           ELSE Append(windows, [task |-> i, open |-> TRUE])
EndTask(w)   == windows' = IF cancelled \/ w = 0 THEN windows
                           ELSE [windows EXCEPT ![w].open = FALSE]
OpenWindow(i) == LET opens == {w \in 1..Len(windows) :
                                  windows[w].task = i /\ windows[w].open}
                 IN  IF opens = {} THEN 0 ELSE CHOOSE w \in opens : \A v \in opens : v <= w

-----------------------------------------------------------------------------
(* The scheduler.                                                           *)

Return(why) == at' = "over" /\ ret' = why

(* The head of the loop.                                                    *)
Top ==
    /\ at = "top"
    /\ \/ Running # {} /\ at' = "admit" /\ UNCHANGED <<ret, saved>>
       \/ Running = {} /\ cancelled /\ Return("cancelled") /\ UNCHANGED saved
       \/ Running = {} /\ ~cancelled /\ Retire /\ at' = "admit" /\ UNCHANGED ret
       \/ Running = {} /\ ~cancelled /\ RetireFails /\ Return("unsaved")
    /\ UNCHANGED <<setup, attempt, started, writing, unavailable, overBudget,
                   journal, gate, spend, child, lock, finished, cancelled, world>>

(* The condition of the sweep, and nextRunnable's first one.                *)
Open == /\ Cardinality(Running) < Limit
        /\ ~gate.stopped /\ ~gate.recovery /\ ~unavailable
        /\ ~WouldCross

Admit ==
    /\ at = "admit"
    /\ at' = IF Open THEN "pick" ELSE "wait"
    /\ UNCHANGED <<setup, attempt, ret, started, writing, unavailable, overBudget,
                   journal, gate, spend, child, lock, finished, cancelled, saved, world>>

(* Mutant: nobody waits for the writer of the shared tree.                  *)
EveryoneReady == {i \in Task : Ready(i)}

(* The task nextRunnable answers: the first in plan order that is ready and *)
(* need not wait for the writer of the shared tree.                         *)
Candidates == {i \in Task : /\ Ready(i)
                            /\ BlockedBy(i) \/ Exhausted \/ ~(writing /\ plan[i].writes)}
IsNext(i) == i \in Candidates /\ \A k \in Candidates : i <= k

Settle(i, status) == journal' = [journal EXCEPT ![i].status = status]

(* A task that is resolved where it stands: nothing can come of it, or      *)
(* nothing is left to pay it with.                                          *)
Skip(i) ==
    /\ at = "pick" /\ IsNext(i)
    /\ BlockedBy(i) \/ Exhausted
    /\ Settle(i, IF BlockedBy(i) THEN "blocked" ELSE "over budget")
    /\ started' = started \cup {i}
    /\ overBudget' = (overBudget \/ ~BlockedBy(i))
    /\ at' = "admit"
    /\ UNCHANGED <<setup, attempt, ret, writing, unavailable, gate, spend, child,
                   lock, finished, cancelled, saved, world>>

Launch(i) ==
    /\ at = "pick" /\ IsNext(i)
    /\ ~BlockedBy(i) /\ ~Exhausted
    /\ started' = started \cup {i}
    /\ writing' = (writing \/ SharesTree(i))
    /\ child' = [child EXCEPT ![i].at = "start"]
    /\ at' = "admit"
    /\ UNCHANGED <<setup, attempt, ret, unavailable, overBudget, journal, gate, spend,
                   lock, finished, cancelled, saved, world>>

SweptOut ==
    /\ at = "pick" /\ Candidates = {}
    /\ at' = "wait"
    /\ UNCHANGED <<setup, attempt, ret, started, writing, unavailable, overBudget,
                   journal, gate, spend, child, lock, finished, cancelled, saved, world>>

(* Nothing runs: the turn was cancelled, or an error or the budget asks for *)
(* a recovery point before the plan goes on, or the delegation is over.  A  *)
(* pause that has closed the gate is saved by the end of the turn instead.  *)
Pending == gate.recovery \/ overBudget

(* Mutant: the request for a recovery point outlives the point.             *)
BoundaryForever ==
    /\ at = "wait" /\ Running = {} /\ ~cancelled /\ Pending
    /\ IF gate.stopped THEN UNCHANGED saved ELSE SaveBoundary
    /\ at' = "top"
    /\ UNCHANGED <<setup, attempt, ret, started, writing, unavailable, overBudget, journal,
                   gate, spend, child, lock, finished, cancelled, world>>

Boundary ==
    /\ at = "wait" /\ Running = {} /\ ~cancelled /\ Pending
    /\ \/ /\ IF gate.stopped THEN UNCHANGED saved ELSE SaveBoundary
          /\ gate' = [gate EXCEPT !.recovery = FALSE]
          /\ overBudget' = FALSE
          /\ at' = "top" /\ UNCHANGED ret
       \/ /\ ~gate.stopped /\ LoseBoundary
          /\ Return("unsaved")
          /\ UNCHANGED <<gate, overBudget>>
    /\ UNCHANGED <<setup, attempt, started, writing, unavailable, journal, spend,
                   child, lock, finished, cancelled, world>>

Finish ==
    /\ at = "wait" /\ Running = {}
    /\ cancelled \/ ~Pending
    /\ Return(IF cancelled THEN "cancelled" ELSE IF gate.stopped THEN "paused"
              ELSE IF unavailable THEN "retained" ELSE "done")
    /\ UNCHANGED <<setup, attempt, started, writing, unavailable, overBudget, journal,
                   gate, spend, child, lock, finished, cancelled, saved, world>>

(* A report is taken from the channel.                                      *)
Held(errs) == errs \cap {"limit", "unavailable"} # {}

Receive ==
    /\ at = "wait" /\ finished # <<>>
    /\ LET i    == Head(finished)
           errs == child[i].errs
       IN  /\ child' = [child EXCEPT ![i] = NoChild]
           /\ IF cancelled
              THEN at' = "drain" /\ UNCHANGED <<writing, unavailable, journal, gate>>
              ELSE /\ at' = "top"
                   /\ writing' = (writing /\ ~SharesTree(i))
                   /\ unavailable' = (unavailable \/ "unavailable" \in errs)
                   /\ IF Held(errs) THEN UNCHANGED journal
                      ELSE Settle(i, Classify(errs))
                   /\ gate' = [stopped  |-> gate.stopped \/ "limit" \in errs,
                               recovery |-> gate.recovery \/ (errs # {} /\ ~Held(errs))]
    /\ finished' = Tail(finished)
    /\ UNCHANGED <<setup, attempt, ret, started, overBudget, spend, lock, cancelled,
                   saved, world>>

(* Mutant: a cancelled run returns at the first report.                     *)
DrainNobody ==
    /\ at = "drain" /\ Return("cancelled")
    /\ UNCHANGED <<setup, attempt, started, writing, unavailable, overBudget, journal,
                   gate, spend, child, lock, finished, cancelled, saved, world>>

(* A cancelled run keeps nothing, and is not over until all have stopped.   *)
Drain ==
    /\ at = "drain"
    /\ \/ /\ Running = {} /\ Return("cancelled") /\ UNCHANGED <<child, finished>>
       \/ /\ finished # <<>>
          /\ child' = [child EXCEPT ![Head(finished)] = NoChild]
          /\ finished' = Tail(finished)
          /\ UNCHANGED <<at, ret>>
    /\ UNCHANGED <<setup, attempt, started, writing, unavailable, overBudget, journal,
                   gate, spend, lock, cancelled, saved, world>>

-----------------------------------------------------------------------------
(* A subagent.                                                              *)

Goes(i, where)     == child' = [child EXCEPT ![i].at = where]
Ends(i, errs)      == child' = [child EXCEPT ![i].at = "end", ![i].errs = errs]
Continues(i)       == IF did[i].next = "done" THEN "end" ELSE did[i].next
Isolated(i)        == journal[i].isolated

(* The tree it works in: the worktree it was paused in, one of its own, the *)
(* shared tree under the run's mutex when it cannot have one, or the shared *)
(* tree the scheduler has kept free for it.                                 *)
TakeWorktree(i) ==
    /\ child[i].at = "start" /\ Isolating
    /\ Isolated(i) \/ (plan[i].writes /\ ~cancelled)
    /\ Goes(i, "open")
    /\ journal' = [journal EXCEPT ![i].isolated = TRUE]
    /\ trees' = trees \cup {i}
    /\ UNCHANGED <<setup, attempt, schedule, gate, spend, lock, finished, cancelled,
                   saved, did, windows, landed>>

RefuseWorktree(i) ==
    /\ child[i].at = "start" /\ Isolating /\ plan[i].writes /\ ~Isolated(i)
    /\ cancelled \/ "isolate" \in Faults
    /\ Goes(i, "lock")
    /\ UNCHANGED <<setup, attempt, schedule, journal, gate, spend, lock, finished,
                   cancelled, saved, world>>

(* Mutant: a task that goes on takes a new window.                          *)
OpensAnother(i) ==
    /\ BeginTask(i)
    /\ journal' = [journal EXCEPT ![i].window = IF cancelled THEN 0 ELSE Len(windows) + 1]

(* BeginTask, or the window that was open when the task was paused.         *)
OpensWindow(i) ==
    IF journal[i].window # 0 THEN UNCHANGED <<windows, journal>>
    ELSE /\ BeginTask(i)
         /\ journal' = [journal EXCEPT ![i].window = IF cancelled THEN 0 ELSE Len(windows) + 1]

TakeSharedTree(i) ==
    /\ \/ /\ child[i].at = "lock" /\ lock = 0
          /\ lock' = i
       \/ /\ child[i].at = "start" /\ ~Isolating /\ plan[i].writes
          /\ UNCHANGED lock
    /\ OpensWindow(i)
    /\ Goes(i, "open")
    /\ UNCHANGED <<setup, attempt, schedule, gate, spend, finished, cancelled, saved,
                   did, trees, landed>>

TakeNoTree(i) ==
    /\ child[i].at = "start" /\ ~plan[i].writes
    /\ Goes(i, "open")
    /\ UNCHANGED <<setup, attempt, schedule, journal, gate, spend, lock, finished,
                   cancelled, saved, world>>

(* The provider: a saved conversation opens on its own model or not at all; *)
(* anything else has fallen back to the session's model before it fails.    *)
OpenBackend(i) ==
    /\ child[i].at = "open"
    /\ \/ Goes(i, Continues(i))
       \/ "open" \in Faults /\ Ends(i, {IF journal[i].talks THEN "unavailable" ELSE "failed"})
    /\ UNCHANGED <<setup, attempt, schedule, journal, gate, spend, lock, finished,
                   cancelled, saved, world>>

(* The head of the round: out of rounds, stopped at the gate, or a call.    *)
Send(i) ==
    /\ child[i].at = "call"
    /\ IF did[i].rounds >= MaxRounds THEN Ends(i, {"rounds"}) /\ UNCHANGED did
       ELSE IF gate.stopped THEN Ends(i, {"limit"}) /\ UNCHANGED did
       ELSE Goes(i, "flight") /\ did' = [did EXCEPT ![i].talks = plan[i].vendor]
    /\ UNCHANGED <<setup, attempt, schedule, journal, gate, spend, lock, finished,
                   cancelled, saved, windows, trees, landed>>

(* The call returns: an answer, tools to run, or an error.                  *)
Reply(i) ==
    /\ child[i].at = "flight"
    /\ \E cost \in setup.costs, next \in {"done", "tools"} :
          /\ spend' = Spent(cost)
          /\ did' = [did EXCEPT ![i].rounds = @ + 1, ![i].next = next]
          /\ Goes(i, IF next = "done" THEN "end" ELSE "tools")
    /\ UNCHANGED <<setup, attempt, schedule, journal, gate, lock, finished, cancelled,
                   saved, windows, trees, landed>>

HitLimit(i) ==
    /\ child[i].at = "flight" /\ "limit" \in Faults
    /\ gate' = [gate EXCEPT !.stopped = TRUE]
    /\ Ends(i, {"limit"})
    /\ UNCHANGED <<setup, attempt, schedule, journal, spend, lock, finished, cancelled,
                   saved, world>>

CallFails(i) ==
    /\ child[i].at = "flight" /\ ("fail" \in Faults \/ cancelled)
    /\ Ends(i, {"failed"})
    /\ UNCHANGED <<setup, attempt, schedule, journal, gate, spend, lock, finished,
                   cancelled, saved, world>>

(* Its tools run unless the gate has closed meanwhile; one that fails asks  *)
(* for a recovery point and the subagent goes on.                           *)
RunTools(i) ==
    /\ child[i].at = "tools"
    /\ IF gate.stopped
       THEN Ends(i, {"limit"}) /\ UNCHANGED <<did, gate>>
       ELSE /\ did' = [did EXCEPT ![i].next = "call"]
            /\ Goes(i, "call")
            /\ \/ UNCHANGED gate
               \/ "tool" \in Faults /\ gate' = [gate EXCEPT !.recovery = TRUE]
    /\ UNCHANGED <<setup, attempt, schedule, journal, spend, lock, finished, cancelled,
                   saved, windows, trees, landed>>

(* Its conversation is recorded.  An error closes admission, a limit stops  *)
(* the run, and a subagent in a worktree stops with it.  One that is held   *)
(* keeps its worktree and its window; any other window is closed.           *)
WindUp(i) ==
    LET errs    == child[i].errs
        stopped == gate.stopped \/ "limit" \in errs
        ends    == IF ~Held(errs) /\ Isolated(i) /\ stopped THEN {"limit"} ELSE errs
    IN  /\ child[i].at = "end"
        /\ journal' = [journal EXCEPT ![i].rounds = did[i].rounds, ![i].next = did[i].next,
                                      ![i].talks = did[i].talks]
        /\ gate' = [stopped  |-> stopped,
                    recovery |-> gate.recovery \/ errs \ {"unavailable"} # {}]
        /\ child' = [child EXCEPT ![i].errs = ends,
                        ![i].at = IF Isolated(i) /\ ~Held(ends) /\ ~cancelled
                                  THEN "land" ELSE "report"]
        /\ IF Isolated(i) \/ Held(ends) THEN UNCHANGED windows
           ELSE EndTask(journal[i].window)
        /\ UNCHANGED <<setup, attempt, schedule, spend, lock, finished, cancelled, saved,
                       did, trees, landed>>

(* landTask: under the mutex, in a window of its own.                       *)
LandBegin(i) ==
    /\ child[i].at = "land" /\ lock = 0
    /\ lock' = i
    /\ BeginTask(i)
    /\ Goes(i, "landing")
    /\ UNCHANGED <<setup, attempt, schedule, journal, gate, spend, finished, cancelled,
                   saved, did, trees, landed>>

(* Mutant: a patch that does not fit is not the task's error.               *)
LandQuietly(i) ==
    /\ child[i].at = "landing"
    /\ lock' = 0
    /\ EndTask(OpenWindow(i))
    /\ Goes(i, "report")
    /\ \/ landed' = landed \cup {i} /\ UNCHANGED gate
       \/ UNCHANGED landed /\ gate' = [gate EXCEPT !.recovery = TRUE]
    /\ UNCHANGED <<setup, attempt, schedule, journal, spend, finished, cancelled, saved,
                   did, trees>>

LandEnd(i) ==
    /\ child[i].at = "landing"
    /\ lock' = 0
    /\ EndTask(OpenWindow(i))
    /\ \/ /\ ~cancelled
          /\ landed' = landed \cup {i}
          /\ Goes(i, "report")
          /\ UNCHANGED gate
       \/ /\ cancelled \/ "land" \in Faults
          /\ child' = [child EXCEPT ![i].at = "report", ![i].errs = @ \cup {"land"}]
          /\ gate' = [gate EXCEPT !.recovery = TRUE]
          /\ UNCHANGED landed
    /\ UNCHANGED <<setup, attempt, schedule, journal, spend, finished, cancelled, saved,
                   did, trees>>

(* Mutant: the worktree is released on every path out.                      *)
ReportForgets(i) ==
    /\ child[i].at = "report"
    /\ Goes(i, "sent")
    /\ trees' = trees \ {i}
    /\ finished' = Append(finished, i)
    /\ lock' = IF lock = i THEN 0 ELSE lock
    /\ UNCHANGED <<setup, attempt, schedule, journal, gate, spend, cancelled, saved,
                   did, windows, landed>>

(* It releases its worktree unless it is held, reports, and leaves the      *)
(* shared tree.                                                             *)
Report(i) ==
    /\ child[i].at = "report"
    /\ Goes(i, "sent")
    /\ trees' = IF Isolated(i) /\ (cancelled \/ ~Held(child[i].errs)) THEN trees \ {i} ELSE trees
    /\ finished' = Append(finished, i)
    /\ lock' = IF lock = i THEN 0 ELSE lock
    /\ UNCHANGED <<setup, attempt, schedule, journal, gate, spend, cancelled, saved,
                   did, windows, landed>>

Subagent(i) ==
    \/ TakeWorktree(i) \/ RefuseWorktree(i) \/ TakeSharedTree(i) \/ TakeNoTree(i)
    \/ OpenBackend(i) \/ Send(i) \/ Reply(i) \/ HitLimit(i) \/ CallFails(i)
    \/ RunTools(i) \/ WindUp(i) \/ LandBegin(i) \/ LandEnd(i) \/ Report(i)

-----------------------------------------------------------------------------
(* The turn around the delegation.                                          *)

(* A run that stopped at a limit or at a conversation that cannot open is   *)
(* saved; a cancelled one is over and its journal says so.                  *)
EndTurn ==
    /\ at = "over"
    /\ at' = "closed"
    /\ CASE ret \in {"paused", "retained"} /\ ~cancelled -> SaveBoundary \/ LoseBoundary
         [] ret = "cancelled" \/ cancelled -> resumable' = FALSE /\ disk' \in {{}, disk}
         [] OTHER -> UNCHANGED saved
    /\ UNCHANGED <<setup, attempt, ret, started, writing, unavailable, overBudget, journal,
                   gate, spend, child, lock, finished, cancelled, world>>

(* restoreExecution and the turn's own retirement, then runTasks from the   *)
(* saved tasks: only from a saved point, and only with the worktrees of the *)
(* unfinished tasks in place.                                               *)
Resume ==
    /\ at = "closed" /\ resumable /\ attempt < MaxAttempts
    /\ \A i \in Task : ~Resolved(i) /\ Isolated(i) => i \in trees
    /\ Retire
    /\ attempt' = attempt + 1
    /\ at' = "top" /\ ret' = ""
    /\ started' = {i \in Task : Resolved(i)}
    /\ writing' = FALSE /\ unavailable' = FALSE /\ overBudget' = FALSE
    /\ gate' = [stopped |-> FALSE, recovery |-> FALSE]
    /\ cancelled' = FALSE
    /\ UNCHANGED <<setup, journal, spend, child, lock, finished, world>>

(* The user cancels the turn.                                               *)
Cancel ==
    /\ "cancel" \in Faults /\ at # "closed" /\ ~cancelled
    /\ cancelled' = TRUE
    /\ UNCHANGED <<setup, attempt, schedule, journal, gate, spend, child, lock, finished,
                   saved, world>>

(* The process dies; the next one finds what is on disk.                    *)
Crash ==
    /\ "crash" \in Faults /\ (at # "closed" \/ resumable)
    /\ at' = "closed" /\ ret' = "crashed"
    /\ resumable' = (disk # {})
    /\ \E p \in disk \cup {Point} :
          /\ disk # {} => p \in disk
          /\ journal' = p.journal /\ spend' = p.spend
    /\ child' = [i \in Task |-> NoChild]
    /\ lock' = 0 /\ finished' = <<>>
    /\ UNCHANGED <<setup, attempt, started, writing, unavailable, overBudget, gate,
                   cancelled, disk, world>>

Closed == at = "closed" /\ UNCHANGED vars

Init ==
    /\ setup \in Setups
    /\ attempt = 1
    /\ at = "top" /\ ret = ""
    /\ journal = [i \in Task |-> Fresh]
    /\ started = {} /\ writing = FALSE /\ unavailable = FALSE /\ overBudget = FALSE
    /\ gate = [stopped |-> FALSE, recovery |-> FALSE]
    /\ spend = [usd |-> 0, calls |-> 0, worst |-> 0]
    /\ child = [i \in Task |-> NoChild]
    /\ lock = 0 /\ finished = <<>> /\ cancelled = FALSE
    /\ resumable = FALSE /\ disk = {}
    /\ did = [i \in Task |-> [rounds |-> 0, next |-> "call", talks |-> FALSE]]
    /\ windows = <<>> /\ trees = {} /\ landed = {}

Scheduler == Top \/ Admit \/ SweptOut \/ Boundary \/ Finish \/ Receive \/ Drain
             \/ \E i \in Task : Skip(i) \/ Launch(i)

Next ==
    \/ Scheduler \/ EndTurn
    \/ \E i \in Task : Subagent(i)
    \/ Resume \/ Cancel \/ Crash
    \/ Closed

Spec == Init /\ [][Next]_vars

(* Goroutines run, calls return and the turn ends.  Nobody has to resume.   *)
Fairness ==
    /\ WF_vars(Scheduler) /\ WF_vars(EndTurn)
    /\ \A i \in UNION {DOMAIN s.plan : s \in Setups} :
          WF_vars(i \in Task /\ Subagent(i))

FairSpec == Spec /\ Fairness

-----------------------------------------------------------------------------
(* Properties.                                                              *)

(* The type invariant.                                                      *)
TypeOK ==
    /\ setup \in Setups /\ attempt \in 1..(MaxAttempts + 1)
    /\ at \in {"top", "admit", "pick", "wait", "drain", "over", "closed"}
    /\ ret \in {"", "done", "paused", "retained", "cancelled", "unsaved", "crashed"}
    /\ \A i \in Task :
          /\ journal[i].status \in {"", "done", "incomplete", "failed", "blocked", "over budget"}
          /\ journal[i].rounds \in 0..MaxRounds
          /\ journal[i].window \in 0..Len(windows)
          /\ child[i].errs \subseteq {"limit", "unavailable", "failed", "rounds", "land"}
    /\ started \subseteq Task /\ trees \subseteq Task /\ landed \subseteq Task
    /\ lock \in Task \cup {0} /\ finished \in Seq(Task) /\ Len(finished) <= Len(plan)
    /\ disk = {} \/ Cardinality(disk) = 1
    /\ spend.usd \in Nat

(* Who may be changing the user's tree: a writer in it, or a landing.       *)
InUserTree(i) ==
    \/ child[i].at \in {"open", "call", "flight", "tools", "end"} /\ plan[i].writes /\ ~Isolated(i)
    \/ child[i].at = "landing"

(* "One working tree. Two agents editing it at once is how a run produces a *)
(* state neither of them intended."                                         *)
OneInUserTree == \A i, j \in Task : InUserTree(i) /\ InUserTree(j) => i = j

(* "The run is not over until every one of them has stopped": when the      *)
(* delegation has returned no subagent works, reports or holds the tree.    *)
NobodyLeftBehind == at \in {"over", "closed"} => Running = {} /\ lock = 0

(* The person's tree is one writer's at a time, and theirs again when the   *)
(* delegation is over.                                                      *)
TreeIsOnes == OneInUserTree /\ NobodyLeftBehind

(* What a resume would start from is exactly what has been done: no round   *)
(* is repeated, none is forgotten, nor the money, and nobody is at work.    *)
PointIsTheWork ==
    \A p \in disk :
        /\ Running = {}
        /\ p.spend = spend
        /\ \A i \in Task : /\ p.journal[i].rounds = did[i].rounds
                           /\ p.journal[i].next = did[i].next

(* A run saved to be resumed has the worktree of every unfinished task.     *)
WorktreesKept ==
    \A p \in disk : \A i \in Task :
        p.journal[i].status = "" /\ p.journal[i].isolated => i \in trees

(* A resumption can go on from where the work is: the point says so, and    *)
(* the trees that hold it are still there.                                  *)
ResumesFromWork == PointIsTheWork /\ WorktreesKept

(* "Closed on every path out.  A task that died half-way is exactly the one *)
(* that leaves a tree nobody asked for, and it is the one worth rewinding": *)
(* a task that has an outcome has its window closed, so that what it        *)
(* changed can be taken back.                                               *)
ClosedOnEveryPath ==
    \A w \in 1..Len(windows) : windows[w].open => ~Resolved(windows[w].task)

(* So it is where nothing costs money, and no task that could not have a    *)
(* worktree is paused in the shared tree: one that comes back may be over   *)
(* the budget, or get a worktree this time, and its window stays open.      *)
OutcomeClosesWindow ==
    Ceiling = 0 /\ ~(Isolating /\ {"isolate", "limit"} \subseteq Faults)
        => ClosedOnEveryPath

(* The delegation returns, whatever fails and whoever waits for whom.       *)
RunEnds == at = "top" ~> at = "closed"

(* A task whose worktree was taken back counts as done only if it landed.   *)
DoneHasLanded ==
    \A i \in Task : journal[i].status = "done" /\ journal[i].isolated => i \in landed

(* What is said to have an outcome has it in the tree and in the store.     *)
OutcomeStands == OutcomeClosesWindow /\ DoneHasLanded
=============================================================================
