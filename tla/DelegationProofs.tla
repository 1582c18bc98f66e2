-------------------------- MODULE DelegationProofs --------------------------
(***************************************************************************)
(* TreeIsOnes, ResumesFromWork and OutcomeStands of Delegation for any     *)
(* plans, any number of subagents, rounds and attempts, and any faults.    *)
(*                                                                         *)
(* A run that is cancelled while no point is on the disk, or whose turn    *)
(* has ended without one, is doomed: nothing of it is resumed.  Until then *)
(* what is recorded of a task is what it has done, unless it is at it;     *)
(* a worktree is there while its task has no outcome; and a window is      *)
(* open while its task works in the shared tree, is held there, or lands.  *)
(***************************************************************************)
EXTENDS Delegation, TLAPS, SequenceTheorems

Places == {"none", "start", "lock", "open", "call", "flight", "tools", "end", "land",
           "landing", "report", "sent"}
Working == {"open", "call", "flight", "tools", "end"}
Errors == {"limit", "unavailable", "failed", "rounds", "land"}
Statuses == {"", "done", "incomplete", "failed", "blocked", "over budget"}
Nexts == {"call", "tools", "done"}

Doomed == disk = {} /\ (cancelled \/ at = "closed")

Shapes ==
    /\ setup \in Setups
    /\ at \in {"top", "admit", "pick", "wait", "drain", "over", "closed"}
    /\ journal \in [Task -> [status : Statuses, rounds : Nat, next : Nexts, talks : BOOLEAN,
                             isolated : BOOLEAN, window : Nat]]
    /\ did \in [Task -> [rounds : Nat, next : Nexts, talks : BOOLEAN]]
    /\ child \in [Task -> [at : Places, errs : SUBSET Errors]]
    /\ windows \in Seq([task : Task, open : BOOLEAN])
    /\ gate \in [stopped : BOOLEAN, recovery : BOOLEAN]
    /\ writing \in BOOLEAN /\ cancelled \in BOOLEAN /\ resumable \in BOOLEAN
    /\ finished \in Seq(Task)
    /\ started \subseteq Task /\ lock \in Task \cup {0}

(* While a point is on the disk nothing runs and nothing is recorded.       *)
PointStands ==
    /\ disk \subseteq {Point}
    /\ resumable => disk # {}
    /\ disk # {} => at \in {"top", "over", "closed"} /\ (resumable \/ at = "closed")

Reports ==
    /\ \A k \in DOMAIN finished : child[finished[k]].at = "sent"
    /\ \A k, l \in DOMAIN finished : finished[k] = finished[l] => k = l

(* Nobody is at work when the delegation is over, or can be saved.          *)
Quiet ==
    /\ at \in {"over", "closed"} \/ disk # {} => Running = {}
    /\ at = "drain" => cancelled
    /\ lock # 0 => child[lock].at \notin {"none", "sent"}

(* In trees of their own whoever changes the person's tree holds the mutex; *)
(* in one tree a writer runs alone, and the scheduler knows of it.          *)
Apart ==
    /\ \A i \in Task : Isolated(i) \/ child[i].at \in {"lock", "land", "landing"} => Isolating
    /\ Isolating => \A i \in Task : InUserTree(i) => lock = i
    /\ ~Isolating =>
         /\ \A i, j \in Running : plan[i].writes /\ plan[j].writes => i = j
         /\ at \notin {"drain", "over", "closed"} =>
              \A i \in Running : plan[i].writes => writing

Tried(i) == /\ \A n \in plan[i].needs : Resolved(n)
            /\ ~BlockedBy(i)

(* A task with an outcome is not started again, and one that has run, or    *)
(* whose window is open, had nothing against it.                            *)
StartedOnce ==
    /\ at # "closed" => \A i \in Task : Resolved(i) \/ i \in Running => i \in started
    /\ \A i \in Running : ~Resolved(i) /\ Tried(i)
    /\ \A w \in DOMAIN windows : windows[w].open => Tried(windows[w].task)

Recorded == \A i \in Task : child[i].at \notin {"call", "flight", "tools", "end"} =>
    journal[i].rounds = did[i].rounds /\ journal[i].next = did[i].next

TreesStand == \A i \in Task : ~Resolved(i) /\ Isolated(i) =>
    i \in trees \/ (child[i].at = "sent" /\ ~Held(child[i].errs))

LandedOK == \A i \in Task :
    child[i].at \in {"report", "sent"} /\ child[i].errs = {} /\ Isolated(i) => i \in landed

(* Where no limit is hit no task comes back.                                *)
Unlimited == "limit" \notin Faults =>
    /\ ~gate.stopped
    /\ \A i \in Task :
         /\ ~Held(child[i].errs)
         /\ journal[i].talks => Resolved(i) \/ child[i].at \in {"land", "landing", "report", "sent"}

(* Where no worktree is refused no writer works outside one.                *)
Refused == \A i \in Task :
    /\ Isolating /\ plan[i].writes /\ ~Isolated(i) /\ child[i].at \in Working \cup {"lock"}
         => "isolate" \in Faults
    /\ Isolated(i) => plan[i].writes
    /\ child[i].at = "lock" => plan[i].writes /\ ~Isolated(i)
    /\ child[i].at \in {"land", "landing"} => Isolated(i)

Reach == Ceiling = 0 /\ ~(Isolating /\ {"isolate", "limit"} \subseteq Faults)

WindowsStand == \A w \in DOMAIN windows : windows[w].open =>
    LET i == windows[w].task IN
    /\ plan[i].writes
    /\ child[i].at # "landing" => journal[i].window = w
    /\ \A v \in DOMAIN windows : windows[v].open /\ windows[v].task = i => v = w
    /\ Isolating => child[i].at = "landing" \/ (child[i].at \in Working /\ ~Isolated(i))
    /\ child[i].at \in {"report", "sent"} => Held(child[i].errs)

Hopeful == Recorded /\ TreesStand /\ LandedOK /\ Unlimited /\ Refused /\ (Reach => WindowsStand)

DelegationInv ==
    /\ Shapes /\ PointStands /\ Reports /\ Quiet /\ Apart /\ StartedOnce
    /\ ~Doomed => Hopeful
    /\ OutcomeStands

-----------------------------------------------------------------------------
LEMMA PlanShape ==
    ASSUME setup \in Setups
    PROVE  /\ plan \in Seq([writes : BOOLEAN, vendor : BOOLEAN, needs : SUBSET Nat])
           /\ Task = 1..Len(plan) /\ 0 \notin Task /\ Len(plan) \in Nat
           /\ \A i \in Task : /\ plan[i].writes \in BOOLEAN /\ plan[i].vendor \in BOOLEAN
                              /\ plan[i].needs \subseteq Task
<1>1. /\ plan \in Seq([writes : BOOLEAN, vendor : BOOLEAN, needs : SUBSET Nat])
      /\ \A i \in DOMAIN plan : plan[i].needs \subseteq 1..(i - 1)
  BY PlansAssumption DEF plan
<1>2. Task = 1..Len(plan) /\ 0 \notin Task /\ Len(plan) \in Nat
  BY <1>1 DEF Task
<1>3. ASSUME NEW i \in Task
      PROVE  /\ plan[i].writes \in BOOLEAN /\ plan[i].vendor \in BOOLEAN
             /\ plan[i].needs \subseteq Task
  <2> DEFINE R == [writes : BOOLEAN, vendor : BOOLEAN, needs : SUBSET Nat]
  <2>0. plan \in Seq(R)
    BY <1>1
  <2>1. plan[i] \in R
    <3> HIDE DEF R
    <3> QED BY <2>0, <1>2
  <2>2. plan[i].needs \subseteq 1..(i - 1) /\ i \in 1..Len(plan)
    BY <1>1, <1>2 DEF Task
  <2> QED BY <2>1, <2>2, <1>2
<1> QED BY <1>1, <1>2, <1>3

(* What a step leaves alone.                                                *)
LEMMA SetupStays == Next => setup' = setup
BY DEF Next, Scheduler, Top, Admit, SweptOut, Boundary, Finish, Receive, Drain, Skip, Launch,
       EndTurn, Resume, Cancel, Crash, Closed, vars, Subagent, TakeWorktree, RefuseWorktree,
       TakeSharedTree, TakeNoTree, OpenBackend, Send, Reply, HitLimit, CallFails, RunTools,
       WindUp, LandBegin, LandEnd, Report

(* A step of a subagent leaves the scheduler, the point and the other       *)
(* subagents alone.                                                         *)
SubagentOnly(i) ==
    /\ UNCHANGED <<setup, attempt, schedule, cancelled, resumable, disk>>
    /\ child[i].at \notin {"none", "sent"}

ChildIs(i, c) ==
    /\ c \in [at : Places, errs : SUBSET Errors] /\ c.at # "none"
    /\ child' = [child EXCEPT ![i] = c]

LEMMA SubagentAlone ==
    ASSUME Shapes, NEW i \in Task, Subagent(i)
    PROVE  SubagentOnly(i) /\ \E c : ChildIs(i, c)
<1>0. /\ child \in [Task -> [at : Places, errs : SUBSET Errors]]
      /\ journal[i].next \in Nexts /\ did[i].next \in Nexts
  BY DEF Shapes
<1>1. ASSUME TakeWorktree(i) PROVE SubagentOnly(i) /\ ChildIs(i, [child[i] EXCEPT !.at = "open"])
  BY <1>0, <1>1 DEF TakeWorktree, Goes, Ends, SubagentOnly, ChildIs, schedule, saved, world,
     Places, Errors
<1>2. ASSUME RefuseWorktree(i) PROVE SubagentOnly(i) /\ ChildIs(i, [child[i] EXCEPT !.at = "lock"])
  BY <1>0, <1>2 DEF RefuseWorktree, Goes, Ends, SubagentOnly, ChildIs, schedule, saved, world,
     Places, Errors
<1>3. ASSUME TakeSharedTree(i) PROVE SubagentOnly(i) /\ ChildIs(i, [child[i] EXCEPT !.at = "open"])
  BY <1>0, <1>3 DEF TakeSharedTree, Goes, Ends, SubagentOnly, ChildIs, schedule, saved, world,
     Places, Errors
<1>4. ASSUME TakeNoTree(i) PROVE SubagentOnly(i) /\ ChildIs(i, [child[i] EXCEPT !.at = "open"])
  BY <1>0, <1>4 DEF TakeNoTree, Goes, Ends, SubagentOnly, ChildIs, schedule, saved, world, Places,
     Errors
<1>5. ASSUME OpenBackend(i)
      PROVE  /\ SubagentOnly(i)
             /\ \/ ChildIs(i, [child[i] EXCEPT !.at = Continues(i)])
                \/ \E e \in {{"unavailable"}, {"failed"}} :
                       ChildIs(i, [child[i] EXCEPT !.at = "end", !.errs = e])
  <2>1. SubagentOnly(i)
    BY <1>5 DEF OpenBackend, SubagentOnly, schedule, saved, world
  <2>2. CASE Goes(i, Continues(i))
    BY <1>0, <2>1, <2>2 DEF Goes, Continues, ChildIs, Places, Nexts
  <2>3. CASE Ends(i, {IF journal[i].talks THEN "unavailable" ELSE "failed"})
    <3>1. PICK e \in {{"unavailable"}, {"failed"}} : Ends(i, e)
      BY <2>3
    <3> QED BY <1>0, <2>1, <3>1 DEF Ends, ChildIs, Places, Errors
  <2> QED BY <1>5, <2>2, <2>3 DEF OpenBackend
<1>6. ASSUME Send(i)
      PROVE  /\ SubagentOnly(i)
             /\ \/ \E e \in {{"rounds"}, {"limit"}} : ChildIs(i, [child[i] EXCEPT !.at = "end", !.errs = e])
                \/ ChildIs(i, [child[i] EXCEPT !.at = "flight"])
  BY <1>0, <1>6 DEF Send, Goes, Ends, SubagentOnly, ChildIs, schedule, saved, world, Places, Errors
<1>7. ASSUME Reply(i)
      PROVE  /\ SubagentOnly(i)
             /\ \E w \in {"end", "tools"} : ChildIs(i, [child[i] EXCEPT !.at = w])
  BY <1>0, <1>7 DEF Reply, Goes, SubagentOnly, ChildIs, schedule, saved, world, Places
<1>8. ASSUME HitLimit(i)
      PROVE  SubagentOnly(i) /\ ChildIs(i, [child[i] EXCEPT !.at = "end", !.errs = {"limit"}])
  BY <1>0, <1>8 DEF HitLimit, Goes, Ends, SubagentOnly, ChildIs, schedule, saved, world, Places,
     Errors
<1>9. ASSUME CallFails(i)
      PROVE  SubagentOnly(i) /\ ChildIs(i, [child[i] EXCEPT !.at = "end", !.errs = {"failed"}])
  BY <1>0, <1>9 DEF CallFails, Goes, Ends, SubagentOnly, ChildIs, schedule, saved, world, Places,
     Errors
<1>10. ASSUME RunTools(i)
      PROVE  /\ SubagentOnly(i)
             /\ \/ ChildIs(i, [child[i] EXCEPT !.at = "end", !.errs = {"limit"}])
                \/ ChildIs(i, [child[i] EXCEPT !.at = "call"])
  BY <1>0, <1>10 DEF RunTools, Goes, Ends, SubagentOnly, ChildIs, schedule, saved, world, Places,
     Errors, Nexts
<1>11. ASSUME WindUp(i)
      PROVE  /\ SubagentOnly(i)
             /\ \E e \in SUBSET Errors, w \in {"land", "report"} :
                  ChildIs(i, [child[i] EXCEPT !.errs = e, !.at = w])
  <2>1. SubagentOnly(i)
    BY <1>11 DEF WindUp, SubagentOnly, schedule, saved, world
  <2> DEFINE stopped == gate.stopped \/ "limit" \in child[i].errs
             ends == IF ~Held(child[i].errs) /\ Isolated(i) /\ stopped THEN {"limit"}
                     ELSE child[i].errs
             where == IF Isolated(i) /\ ~Held(ends) /\ ~cancelled THEN "land" ELSE "report"
  <2>2. child' = [child EXCEPT ![i].errs = ends, ![i].at = where]
    BY <1>11 DEF WindUp
  <2>3. ends \in SUBSET Errors /\ where \in {"land", "report"}
    BY <1>0 DEF Errors
  <2> HIDE DEF ends, where
  <2>4. ChildIs(i, [child[i] EXCEPT !.errs = ends, !.at = where])
    BY <1>0, <2>2, <2>3 DEF ChildIs, Places
  <2> QED BY <2>1, <2>3, <2>4
<1>12. ASSUME LandBegin(i) PROVE SubagentOnly(i) /\ ChildIs(i, [child[i] EXCEPT !.at = "landing"])
  BY <1>0, <1>12 DEF LandBegin, Goes, Ends, SubagentOnly, ChildIs, schedule, saved, world, Places,
     Errors
<1>13. ASSUME LandEnd(i)
      PROVE  /\ SubagentOnly(i)
             /\ \/ ChildIs(i, [child[i] EXCEPT !.at = "report"])
                \/ ChildIs(i, [child[i] EXCEPT !.at = "report", !.errs = @ \cup {"land"}])
  BY <1>0, <1>13 DEF LandEnd, Goes, Ends, SubagentOnly, ChildIs, schedule, saved, world, Places,
     Errors, Nexts
<1>14. ASSUME Report(i) PROVE SubagentOnly(i) /\ ChildIs(i, [child[i] EXCEPT !.at = "sent"])
  BY <1>0, <1>14 DEF Report, Goes, Ends, SubagentOnly, ChildIs, schedule, saved, world, Places,
     Errors
<1> QED BY <1>1, <1>2, <1>3, <1>4, <1>5, <1>6, <1>7, <1>8, <1>9, <1>10, <1>11, <1>12, <1>13, <1>14
   DEF Subagent

Journal == [status : Statuses, rounds : Nat, next : Nexts, talks : BOOLEAN,
            isolated : BOOLEAN, window : Nat]
Done == [rounds : Nat, next : Nexts, talks : BOOLEAN]

(* No step of its own gives a task an outcome.                              *)
JournalIs(i, r) ==
    r \in Journal /\ r.status = journal[i].status /\ journal' = [journal EXCEPT ![i] = r]

LEMMA SubagentRecords ==
    ASSUME Shapes, NEW i \in Task, Subagent(i)
    PROVE  (\E r : JournalIs(i, r)) /\ \E r \in Done : did' = [did EXCEPT ![i] = r]
<1>0. /\ journal \in [Task -> Journal] /\ did \in [Task -> Done]
      /\ journal[i] \in Journal /\ did[i] \in Done /\ Len(windows) \in Nat
  BY DEF Shapes, Journal, Done
<1> DEFINE Same == UNCHANGED <<journal, did>>
<1>1. ASSUME Same PROVE JournalIs(i, journal[i]) /\ did' = [did EXCEPT ![i] = did[i]]
  BY <1>0, <1>1 DEF JournalIs
<1>2. ASSUME UNCHANGED journal PROVE JournalIs(i, journal[i])
  BY <1>0, <1>2 DEF JournalIs
<1>3. ASSUME UNCHANGED did PROVE did' = [did EXCEPT ![i] = did[i]]
  BY <1>0, <1>3
<1>a. ASSUME TakeWorktree(i)
      PROVE  JournalIs(i, [journal[i] EXCEPT !.isolated = TRUE]) /\ UNCHANGED did
  BY <1>0, <1>a DEF TakeWorktree, JournalIs, Journal
<1>b. ASSUME RefuseWorktree(i) \/ TakeNoTree(i) \/ OpenBackend(i) \/ HitLimit(i) \/ CallFails(i)
             \/ LandBegin(i) \/ LandEnd(i) \/ Report(i)
      PROVE  Same
  BY <1>b DEF RefuseWorktree, TakeNoTree, OpenBackend, HitLimit, CallFails, LandBegin, LandEnd,
              Report, world
<1>c. ASSUME TakeSharedTree(i)
      PROVE  UNCHANGED did /\ \E n \in Nat : JournalIs(i, [journal[i] EXCEPT !.window = n])
  <2>1. CASE journal[i].window # 0
    BY <1>0, <1>c, <2>1 DEF TakeSharedTree, OpensWindow, JournalIs, Journal
  <2>2. CASE journal[i].window = 0
    <3> DEFINE n == IF cancelled THEN 0 ELSE Len(windows) + 1
    <3>1. n \in Nat
      BY <1>0
    <3>2. journal' = [journal EXCEPT ![i].window = n] /\ UNCHANGED did
      BY <1>c, <2>2 DEF TakeSharedTree, OpensWindow
    <3> HIDE DEF n
    <3> QED BY <1>0, <3>1, <3>2 DEF JournalIs, Journal
  <2> QED BY <2>1, <2>2
<1>d. ASSUME Send(i)
      PROVE  UNCHANGED journal /\ (UNCHANGED did \/ did' = [did EXCEPT ![i].talks = plan[i].vendor])
  BY <1>d DEF Send
<1>e. plan[i].vendor \in BOOLEAN
  BY PlanShape DEF Shapes
<1>f. ASSUME Reply(i) \/ RunTools(i)
      PROVE  UNCHANGED journal /\ \E r \in Done : did' = [did EXCEPT ![i] = r]
  <2>1. ASSUME Reply(i)
        PROVE  UNCHANGED journal /\ \E r \in Done : did' = [did EXCEPT ![i] = r]
    <3>1. PICK next \in {"done", "tools"} :
            did' = [did EXCEPT ![i].rounds = @ + 1, ![i].next = next]
      BY <2>1 DEF Reply
    <3>2. did' = [did EXCEPT ![i] = [did[i] EXCEPT !.rounds = did[i].rounds + 1, !.next = next]]
      BY <1>0, <3>1
    <3>3. [did[i] EXCEPT !.rounds = did[i].rounds + 1, !.next = next] \in Done
      <4>1. did[i].rounds + 1 \in Nat /\ next \in Nexts
        BY <1>0 DEF Done, Nexts
      <4> QED BY <1>0, <4>1 DEF Done
    <3> QED BY <2>1, <3>2, <3>3 DEF Reply
  <2>2. ASSUME RunTools(i)
        PROVE  UNCHANGED journal /\ \E r \in Done : did' = [did EXCEPT ![i] = r]
    <3>1. UNCHANGED did \/ did' = [did EXCEPT ![i] = [did[i] EXCEPT !.next = "call"]]
      BY <2>2 DEF RunTools
    <3>2. [did[i] EXCEPT !.next = "call"] \in Done
      BY <1>0 DEF Done, Nexts
    <3> QED BY <1>0, <1>3, <2>2, <3>1, <3>2 DEF RunTools
  <2> QED BY <1>f, <2>1, <2>2
<1>g. ASSUME WindUp(i)
      PROVE  UNCHANGED did /\ JournalIs(i, [journal[i] EXCEPT !.rounds = did[i].rounds,
                                               !.next = did[i].next, !.talks = did[i].talks])
  BY <1>0, <1>g DEF WindUp, JournalIs, Journal, Done
<1>h. ASSUME Send(i) PROVE \E r \in Done : did' = [did EXCEPT ![i] = r]
  <2>1. CASE UNCHANGED did
    BY <1>0, <1>3, <2>1
  <2>2. CASE did' = [did EXCEPT ![i].talks = plan[i].vendor]
    <3>1. did' = [did EXCEPT ![i] = [did[i] EXCEPT !.talks = plan[i].vendor]]
      BY <1>0, <2>2
    <3>2. [did[i] EXCEPT !.talks = plan[i].vendor] \in Done
      BY <1>0, <1>e DEF Done
    <3> QED BY <3>1, <3>2
  <2> QED BY <1>d, <1>h, <2>1, <2>2
<1> HIDE DEF Same
<1>4. ASSUME UNCHANGED did PROVE \E r \in Done : did' = [did EXCEPT ![i] = r]
  BY <1>0, <1>3, <1>4
<1>5. ASSUME Same PROVE (\E r : JournalIs(i, r)) /\ \E r \in Done : did' = [did EXCEPT ![i] = r]
  BY <1>0, <1>1, <1>5
<1> QED BY <1>2, <1>4, <1>5, <1>a, <1>b, <1>c, <1>d, <1>f, <1>g, <1>h DEF Subagent

Windows == [task : Task, open : BOOLEAN]

(* Windows are opened at the end of the list, and closed.                   *)
WindowsOnly(i) ==
    /\ windows' \in Seq(Windows)
    /\ DOMAIN windows \subseteq DOMAIN windows'
    /\ \A w \in DOMAIN windows' : windows'[w].open =>
          \/ w \in DOMAIN windows /\ windows[w] = windows'[w]
          \/ w = Len(windows) + 1 /\ windows'[w].task = i
    /\ cancelled => windows' = windows

LEMMA BeginsWindow ==
    ASSUME Shapes, NEW i \in Task, BeginTask(i)
    PROVE  WindowsOnly(i)
<1> DEFINE new == [task |-> i, open |-> TRUE]
<1>1. /\ windows \in Seq(Windows) /\ new \in Windows /\ cancelled \in BOOLEAN /\ new.task = i
      /\ Len(windows) \in Nat /\ DOMAIN windows = 1..Len(windows)
  BY DEF Shapes, Windows
<1>2. windows' = IF cancelled THEN windows ELSE Append(windows, new)
  BY DEF BeginTask
<1> HIDE DEF new
<1>4. CASE cancelled
  <2>1. windows' = windows
    BY <1>2, <1>4
  <2> QED BY <1>1, <2>1 DEF WindowsOnly
<1>5. CASE ~cancelled
  <2>1. /\ DOMAIN windows' = 1..Len(windows) + 1
        /\ \A w \in DOMAIN windows' : windows'[w] = IF w = Len(windows) + 1 THEN new ELSE windows[w]
    BY <1>1, <1>2, <1>5
  <2>2. \A w \in 1..Len(windows) + 1 : w # Len(windows) + 1 => w \in 1..Len(windows)
    BY <1>1
  <2>3. 1..Len(windows) \subseteq 1..Len(windows) + 1
    BY <1>1
  <2>4. windows' \in Seq(Windows)
    BY <1>1, <1>2, <1>5
  <2> QED BY <1>1, <1>5, <2>1, <2>2, <2>3, <2>4 DEF WindowsOnly
<1> QED BY <1>4, <1>5

LEMMA EndsWindow ==
    ASSUME Shapes, NEW i \in Task, NEW n, EndTask(n)
    PROVE  WindowsOnly(i)
<1>1. /\ windows \in Seq(Windows) /\ cancelled \in BOOLEAN
      /\ Len(windows) \in Nat /\ DOMAIN windows = 1..Len(windows)
  BY DEF Shapes, Windows
<1>2. windows' = windows \/ (windows' = [windows EXCEPT ![n].open = FALSE] /\ ~cancelled)
  BY <1>1 DEF EndTask
<1>3. CASE windows' = windows
  BY <1>1, <1>3 DEF WindowsOnly
<1>4. CASE windows' = [windows EXCEPT ![n].open = FALSE] /\ ~cancelled
  <2>1. \A w \in DOMAIN windows : windows[w] \in Windows
    BY <1>1
  <2>2. windows' = [w \in DOMAIN windows |-> IF w = n THEN [windows[w] EXCEPT !.open = FALSE] ELSE windows[w]]
    BY <1>1, <1>4
  <2>3. ASSUME NEW w \in DOMAIN windows
        PROVE  /\ windows'[w] \in Windows
               /\ windows'[w].open => windows'[w] = windows[w]
    BY <2>1, <2>2 DEF Windows
  <2>4. windows' \in Seq(Windows) /\ DOMAIN windows' = DOMAIN windows
    <3>1. DOMAIN windows' = 1..Len(windows) /\ \A w \in 1..Len(windows) : windows'[w] \in Windows
      BY <1>1, <2>2, <2>3
    <3>2. windows' \in [1..Len(windows) -> Windows]
      BY <2>2, <3>1
    <3> QED BY <1>1, <3>1, <3>2
  <2> QED BY <1>1, <1>4, <2>3, <2>4 DEF WindowsOnly
<1> QED BY <1>2, <1>3, <1>4

LEMMA SubagentWindows ==
    ASSUME Shapes, NEW i \in Task, Subagent(i)
    PROVE  WindowsOnly(i)
<1>1. ASSUME UNCHANGED windows PROVE WindowsOnly(i)
  <2>1. /\ windows \in Seq(Windows) /\ Len(windows) \in Nat
        /\ DOMAIN windows = 1..Len(windows)
    BY DEF Shapes, Windows
  <2> QED BY <1>1, <2>1 DEF WindowsOnly
<1>2. ASSUME \/ TakeWorktree(i) \/ RefuseWorktree(i) \/ TakeNoTree(i) \/ OpenBackend(i) \/ Send(i)
             \/ Reply(i) \/ HitLimit(i) \/ CallFails(i) \/ RunTools(i) \/ Report(i)
      PROVE  UNCHANGED windows
  BY <1>2 DEF TakeWorktree, RefuseWorktree, TakeNoTree, OpenBackend, Send, Reply, HitLimit,
              CallFails, RunTools, Report, world
<1>3. ASSUME TakeSharedTree(i) PROVE UNCHANGED windows \/ BeginTask(i)
  BY <1>3 DEF TakeSharedTree, OpensWindow
<1>4. ASSUME WindUp(i) PROVE UNCHANGED windows \/ EndTask(journal[i].window)
  BY <1>4 DEF WindUp
<1>5. ASSUME LandBegin(i) PROVE BeginTask(i)
  BY <1>5 DEF LandBegin
<1>6. ASSUME LandEnd(i) PROVE EndTask(OpenWindow(i))
  BY <1>6 DEF LandEnd
<1>7. ASSUME NEW n, EndTask(n) PROVE WindowsOnly(i)
  BY <1>7, EndsWindow
<1> QED BY <1>1, <1>2, <1>3, <1>4, <1>5, <1>6, <1>7, BeginsWindow DEF Subagent

LEMMA SubagentRest ==
    ASSUME Shapes, NEW i \in Task, Subagent(i)
    PROVE  /\ gate' \in [stopped : BOOLEAN, recovery : BOOLEAN]
           /\ (finished' = finished /\ child'[i].at # "sent")
                \/ (finished' = Append(finished, i) /\ child'[i].at = "sent")
           /\ \/ lock' = lock /\ (lock = i => child'[i].at # "sent")
              \/ lock' = i /\ lock = 0 /\ child[i].at \in {"lock", "land"}
              \/ lock' = 0 /\ (lock = i \/ child[i].at = "landing")
<1>0. /\ gate \in [stopped : BOOLEAN, recovery : BOOLEAN]
      /\ child \in [Task -> [at : Places, errs : SUBSET Errors]]
      /\ child[i] \in [at : Places, errs : SUBSET Errors] /\ did[i].next \in Nexts
      /\ journal[i].next \in Nexts
  BY DEF Shapes
<1> DEFINE G == gate' \in [stopped : BOOLEAN, recovery : BOOLEAN]
           F == (finished' = finished /\ child'[i].at # "sent")
                \/ (finished' = Append(finished, i) /\ child'[i].at = "sent")
           L == \/ lock' = lock /\ (lock = i => child'[i].at # "sent")
                \/ lock' = i /\ lock = 0 /\ child[i].at \in {"lock", "land"}
                \/ lock' = 0 /\ (lock = i \/ child[i].at = "landing")
<1>1. ASSUME TakeWorktree(i) PROVE G /\ F /\ L
  BY <1>0, <1>1 DEF TakeWorktree, Goes
<1>2. ASSUME RefuseWorktree(i) PROVE G /\ F /\ L
  BY <1>0, <1>2 DEF RefuseWorktree, Goes
<1>3. ASSUME TakeSharedTree(i) PROVE G /\ F /\ L
  BY <1>0, <1>3 DEF TakeSharedTree, Goes
<1>4. ASSUME TakeNoTree(i) PROVE G /\ F /\ L
  BY <1>0, <1>4 DEF TakeNoTree, Goes
<1>5. ASSUME OpenBackend(i) PROVE G /\ F /\ L
  BY <1>0, <1>5 DEF OpenBackend, Goes, Ends, Continues, Nexts
<1>6. ASSUME Send(i) PROVE G /\ F /\ L
  BY <1>0, <1>6 DEF Send, Goes, Ends
<1>7. ASSUME Reply(i) PROVE G /\ F /\ L
  BY <1>0, <1>7 DEF Reply, Goes
<1>8. ASSUME HitLimit(i) PROVE G /\ F /\ L
  BY <1>0, <1>8 DEF HitLimit, Ends
<1>9. ASSUME CallFails(i) PROVE G /\ F /\ L
  BY <1>0, <1>9 DEF CallFails, Ends
<1>10. ASSUME RunTools(i) PROVE G /\ F /\ L
  <2>1. gate' = gate \/ gate' = [gate EXCEPT !.recovery = TRUE]
    BY <1>10 DEF RunTools
  <2>2. child'[i].at \in {"end", "call"} /\ UNCHANGED <<finished, lock>>
    BY <1>0, <1>10 DEF RunTools, Goes, Ends
  <2> QED BY <1>0, <2>1, <2>2
<1>11. ASSUME WindUp(i) PROVE G /\ F /\ L
  <2>1. G
    BY <1>0, <1>11 DEF WindUp
  <2>2. child'[i].at \in {"land", "report"} /\ UNCHANGED <<finished, lock>>
    BY <1>0, <1>11 DEF WindUp
  <2> QED BY <2>1, <2>2
<1>12. ASSUME LandBegin(i) PROVE G /\ F /\ L
  BY <1>0, <1>12 DEF LandBegin, Goes
<1>13. ASSUME LandEnd(i) PROVE G /\ F /\ L
  <2>1. G /\ lock' = 0 /\ child[i].at = "landing" /\ UNCHANGED finished
    BY <1>0, <1>13 DEF LandEnd
  <2>2. child'[i].at = "report"
    BY <1>0, <1>13 DEF LandEnd, Goes
  <2> QED BY <2>1, <2>2
<1>14. ASSUME Report(i) PROVE G /\ F /\ L
  BY <1>0, <1>14 DEF Report, Goes
<1> HIDE DEF G, F, L
<1>15. G /\ F /\ L
  BY <1>1, <1>2, <1>3, <1>4, <1>5, <1>6, <1>7, <1>8, <1>9, <1>10, <1>11, <1>12, <1>13, <1>14
     DEF Subagent
<1> QED BY <1>15 DEF G, F, L

-----------------------------------------------------------------------------
LEMMA ShapesKept == ASSUME DelegationInv, Next PROVE Shapes'
<1>0. /\ Shapes /\ PointStands
      /\ Task' = Task /\ setup' = setup /\ setup \in Setups /\ plan' = plan
  BY SetupStays DEF DelegationInv, Shapes, Task, plan
<1> DEFINE J == [Task -> [status : Statuses, rounds : Nat, next : Nexts, talks : BOOLEAN,
                          isolated : BOOLEAN, window : Nat]]
           D == [Task -> [rounds : Nat, next : Nexts, talks : BOOLEAN]]
           C == [Task -> [at : Places, errs : SUBSET Errors]]
           W == Seq([task : Task, open : BOOLEAN])
           G == [stopped : BOOLEAN, recovery : BOOLEAN]
           Ats == {"top", "admit", "pick", "wait", "drain", "over", "closed"}
<1>1. /\ at \in Ats /\ journal \in J /\ did \in D /\ child \in C /\ windows \in W /\ gate \in G
      /\ writing \in BOOLEAN /\ cancelled \in BOOLEAN /\ resumable \in BOOLEAN
      /\ finished \in Seq(Task) /\ started \subseteq Task /\ lock \in Task \cup {0}
  BY <1>0 DEF Shapes
<1> DEFINE Goal == /\ at' \in Ats /\ journal' \in J /\ did' \in D /\ child' \in C /\ windows' \in W
                   /\ gate' \in G
                   /\ writing' \in BOOLEAN /\ cancelled' \in BOOLEAN /\ resumable' \in BOOLEAN
                   /\ finished' \in Seq(Task) /\ started' \subseteq Task /\ lock' \in Task \cup {0}
<1>2. ASSUME Goal PROVE Shapes'
  BY <1>0, <1>2 DEF Shapes
<1> HIDE DEF J, D, W
<1>3. ASSUME Top PROVE Goal
  BY <1>1, <1>3 DEF Top, Return, Retire, RetireFails, LoseBoundary, saved, world
<1>4. ASSUME Admit \/ SweptOut PROVE Goal
  BY <1>1, <1>4 DEF Admit, SweptOut, saved, world
<1>5. ASSUME Boundary PROVE Goal
  BY <1>1, <1>5 DEF Boundary, Return, SaveBoundary, LoseBoundary, saved, world
<1>6. ASSUME Finish PROVE Goal
  BY <1>1, <1>6 DEF Finish, Return, saved, world
<1>7. ASSUME NEW s \in Statuses, NEW i \in Task, Settle(i, s) PROVE journal' \in J
  <2>1. journal[i] \in [status : Statuses, rounds : Nat, next : Nexts, talks : BOOLEAN,
                        isolated : BOOLEAN, window : Nat]
    BY <1>1 DEF J
  <2>2. journal' = [journal EXCEPT ![i] = [journal[i] EXCEPT !.status = s]]
    BY <1>1, <1>7 DEF Settle, J
  <2>3. [journal[i] EXCEPT !.status = s] \in [status : Statuses, rounds : Nat, next : Nexts,
            talks : BOOLEAN, isolated : BOOLEAN, window : Nat]
    BY <2>1
  <2> QED BY <1>1, <2>2, <2>3 DEF J
<1>8. ASSUME Receive PROVE Goal
  <2> DEFINE i == Head(finished)
  <2>1. i \in Task /\ finished' \in Seq(Task)
    BY <1>1, <1>8 DEF Receive
  <2>2. child' \in C /\ at' \in Ats /\ UNCHANGED <<did, windows, cancelled, resumable, started, lock>>
    BY <1>1, <1>8, <2>1 DEF Receive, NoChild, Places, Errors, saved, world
  <2> DEFINE stop == gate.stopped \/ "limit" \in child[i].errs
             recover == gate.recovery \/ (child[i].errs # {} /\ ~Held(child[i].errs))
  <2>8. gate' = gate \/ gate' = [stopped |-> stop, recovery |-> recover]
    BY <1>8 DEF Receive
  <2>9. stop \in BOOLEAN /\ recover \in BOOLEAN
    OBVIOUS
  <2>3. gate' \in G
    <3> HIDE DEF stop, recover
    <3> QED BY <1>1, <2>8, <2>9
  <2>6. writing' = writing \/ writing' = (writing /\ ~SharesTree(i))
    BY <1>8 DEF Receive
  <2>7. writing' \in BOOLEAN
    BY <1>1, <2>6
  <2>4. UNCHANGED journal \/ Settle(i, Classify(child[i].errs))
    BY <1>8 DEF Receive
  <2>5. Classify(child[i].errs) \in Statuses
    BY DEF Classify, Statuses
  <2> HIDE DEF C, Ats, G, i
  <2> QED BY <1>1, <1>7, <2>1, <2>2, <2>3, <2>4, <2>5, <2>7
<1>9. ASSUME Drain PROVE Goal
  <2>1. finished # <<>> => Head(finished) \in Task /\ Tail(finished) \in Seq(Task)
    BY <1>1
  <2>4. \/ UNCHANGED <<child, finished>>
        \/ /\ finished # <<>> /\ finished' = Tail(finished)
           /\ child' = [child EXCEPT ![Head(finished)] = NoChild]
    BY <1>9 DEF Drain
  <2>5. NoChild \in [at : Places, errs : SUBSET Errors]
    BY DEF NoChild, Places
  <2>2. child' \in C /\ finished' \in Seq(Task)
    BY <1>1, <2>1, <2>4, <2>5
  <2>3. at' \in Ats
    BY <1>1, <1>9 DEF Drain, Return
  <2> HIDE DEF C, Ats
  <2> QED BY <1>1, <1>9, <2>2, <2>3 DEF Drain, saved, world
<1>10. ASSUME NEW i \in Task, Skip(i) PROVE Goal
  <2>1. (IF BlockedBy(i) THEN "blocked" ELSE "over budget") \in Statuses
    BY DEF Statuses
  <2> QED BY <1>1, <1>7, <1>10, <2>1 DEF Skip, saved, world
<1>11. ASSUME NEW i \in Task, Launch(i) PROVE Goal
  <2>1. plan[i].writes \in BOOLEAN /\ setup.isolating \in BOOLEAN
    BY <1>0, PlanShape, FaultsAssumption
  <2>2. child' \in C
    BY <1>1, <1>11 DEF Launch, Places
  <2>3. writing' \in BOOLEAN
    BY <1>1, <1>11 DEF Launch, SharesTree
  <2> HIDE DEF C
  <2> QED BY <1>1, <1>11, <2>2, <2>3 DEF Launch, saved, world
<1>12. ASSUME EndTurn PROVE Goal
  BY <1>1, <1>12 DEF EndTurn, SaveBoundary, LoseBoundary, saved, world
<1>13. ASSUME NEW i \in Task, Subagent(i) PROVE Goal
  <2>1. UNCHANGED <<at, started, writing, cancelled, resumable>>
    BY <1>0, <1>13, SubagentAlone DEF SubagentOnly, schedule
  <2>2. PICK c : ChildIs(i, c)
    BY <1>0, <1>13, SubagentAlone
  <2>3. child' \in C
    BY <1>1, <2>2 DEF ChildIs
  <2>4. PICK r : JournalIs(i, r)
    BY <1>0, <1>13, SubagentRecords
  <2>5. journal' \in J
    BY <1>1, <2>4 DEF JournalIs, J, Journal
  <2>6. PICK d \in Done : did' = [did EXCEPT ![i] = d]
    BY <1>0, <1>13, SubagentRecords
  <2>7. did' \in D
    BY <1>1, <2>6 DEF D, Done
  <2>8. windows' \in W
    BY <1>0, <1>13, SubagentWindows DEF WindowsOnly, W, Windows
  <2>9. /\ gate' \in G /\ lock' \in Task \cup {0}
        /\ finished' = finished \/ finished' = Append(finished, i)
    BY <1>0, <1>1, <1>13, SubagentRest
  <2>10. finished' \in Seq(Task)
    BY <1>1, <2>9
  <2> QED BY <1>1, <2>1, <2>3, <2>5, <2>7, <2>8, <2>9, <2>10
<1>14. ASSUME Resume PROVE Goal
  BY <1>1, <1>14 DEF Resume, Retire, world
<1>15. ASSUME Cancel PROVE Goal
  BY <1>1, <1>15 DEF Cancel, schedule, saved, world
<1>16. ASSUME Crash PROVE Goal
  <2>1. journal' = journal
    BY <1>0, <1>16 DEF Crash, PointStands, Point
  <2>2. child' \in C
    BY <1>0, <1>16 DEF Crash, NoChild, Places
  <2> HIDE DEF C
  <2> QED BY <1>1, <1>16, <2>1, <2>2 DEF Crash, world
<1>17. ASSUME Closed PROVE Goal
  BY <1>1, <1>17 DEF Closed, vars, schedule, saved, world
<1> HIDE DEF Goal
<1> QED BY <1>2, <1>3, <1>4, <1>5, <1>6, <1>8, <1>9, <1>10, <1>11, <1>12, <1>13, <1>14, <1>15,
           <1>16, <1>17 DEF Next, Scheduler

LEMMA PointKept == ASSUME DelegationInv, Next PROVE PointStands'
<1>0. Shapes /\ PointStands /\ Quiet
  BY DEF DelegationInv
<1>1. /\ disk \subseteq {Point} /\ (resumable => disk # {})
      /\ disk # {} => at \in {"top", "over", "closed"} /\ (resumable \/ at = "closed")
      /\ disk # {} => Running = {}
  BY <1>0 DEF PointStands, Quiet
<1>2. ASSUME UNCHANGED <<journal, spend>> PROVE Point' = Point
  BY <1>2 DEF Point
<1>3. ASSUME Top PROVE PointStands'
  <2>1. Point' = Point
    BY <1>2, <1>3 DEF Top
  <2> QED BY <1>1, <1>3, <2>1 DEF Top, Return, Retire, RetireFails, LoseBoundary, saved, PointStands
<1>4. ASSUME Admit \/ SweptOut PROVE PointStands'
  BY <1>1, <1>2, <1>4 DEF Admit, SweptOut, saved, PointStands
<1>5. ASSUME Boundary PROVE PointStands'
  <2>1. Point' = Point
    BY <1>2, <1>5 DEF Boundary
  <2> QED BY <1>1, <1>5, <2>1 DEF Boundary, Return, SaveBoundary, LoseBoundary, saved, PointStands
<1>6. ASSUME Finish PROVE PointStands'
  BY <1>1, <1>2, <1>6 DEF Finish, Return, saved, PointStands
<1>7. ASSUME Receive \/ Drain \/ \E i \in Task : Skip(i) \/ Launch(i) PROVE PointStands'
  <2>1. disk = {} /\ ~resumable /\ UNCHANGED saved
    BY <1>1, <1>7 DEF Receive, Drain, Skip, Launch
  <2> QED BY <2>1 DEF saved, PointStands
<1>8. ASSUME EndTurn PROVE PointStands'
  <2>1. Point' = Point /\ at' = "closed"
    BY <1>2, <1>8 DEF EndTurn
  <2>2. SaveBoundary \/ (resumable' = FALSE /\ disk' \in {{}, disk}) \/ UNCHANGED saved
    BY <1>8 DEF EndTurn, LoseBoundary
  <2> QED BY <1>1, <2>1, <2>2 DEF SaveBoundary, saved, PointStands
<1>9. ASSUME NEW i \in Task, Subagent(i) PROVE PointStands'
  <2>1. i \in Running /\ UNCHANGED <<at, resumable, disk>>
    BY <1>0, <1>9, SubagentAlone DEF SubagentOnly, schedule, Running
  <2>2. disk = {} /\ ~resumable
    BY <1>1, <2>1
  <2> QED BY <2>1, <2>2 DEF PointStands
<1>10. ASSUME Resume PROVE PointStands'
  BY <1>1, <1>10 DEF Resume, Retire, PointStands
<1>11. ASSUME Cancel \/ Closed PROVE PointStands'
  BY <1>1, <1>2, <1>11 DEF Cancel, Closed, vars, schedule, saved, PointStands
<1>12. ASSUME Crash PROVE PointStands'
  <2>1. journal' = journal /\ spend' = spend
    BY <1>1, <1>12 DEF Crash, Point
  <2>2. Point' = Point /\ disk' = disk /\ at' = "closed" /\ resumable' = (disk # {})
    BY <1>2, <1>12, <2>1 DEF Crash
  <2> QED BY <1>1, <2>2 DEF PointStands
<1> QED BY <1>3, <1>4, <1>5, <1>6, <1>7, <1>8, <1>9, <1>10, <1>11, <1>12 DEF Next, Scheduler

LEMMA ReportsKept == ASSUME DelegationInv, Next PROVE Reports'
<1>0. Shapes /\ Reports /\ Task' = Task
  BY SetupStays DEF DelegationInv, Task, plan
<1>1. /\ finished \in Seq(Task) /\ child \in [Task -> [at : Places, errs : SUBSET Errors]]
      /\ \A k \in DOMAIN finished : child[finished[k]].at = "sent"
      /\ \A k, l \in DOMAIN finished : finished[k] = finished[l] => k = l
      /\ Len(finished) \in Nat /\ DOMAIN finished = 1..Len(finished)
  BY <1>0 DEF Shapes, Reports
<1>2. ASSUME UNCHANGED <<finished, child>> PROVE Reports'
  BY <1>1, <1>2 DEF Reports
<1>3. ASSUME \/ Top \/ Admit \/ SweptOut \/ Boundary \/ Finish \/ EndTurn \/ Resume \/ Cancel \/ Closed
             \/ \E i \in Task : Skip(i)
      PROVE  Reports'
  BY <1>2, <1>3 DEF Top, Admit, SweptOut, Boundary, Finish, EndTurn, Resume, Cancel, Closed, vars,
     Skip
<1>4. ASSUME finished # <<>>, finished' = Tail(finished),
             child' = [child EXCEPT ![Head(finished)] = NoChild]
      PROVE  Reports'
  <2>1. /\ Len(finished') = Len(finished) - 1 /\ Len(finished) > 0
        /\ DOMAIN finished' = 1..(Len(finished) - 1)
        /\ \A k \in 1..(Len(finished) - 1) : finished'[k] = finished[k + 1]
        /\ Head(finished) = finished[1]
    BY <1>1, <1>4
  <2>2. \A k \in 1..(Len(finished) - 1) : k + 1 \in 1..Len(finished) /\ k + 1 # 1 /\ 1 \in 1..Len(finished)
    BY <1>1
  <2>3. \A k, l \in 1..(Len(finished) - 1) : k + 1 = l + 1 => k = l
    OBVIOUS
  <2>4. \A k \in DOMAIN finished' : finished'[k] # Head(finished) /\ finished'[k] \in Task
                                     /\ child[finished'[k]].at = "sent"
    BY <1>1, <2>1, <2>2
  <2>5. \A k \in DOMAIN finished' : child'[finished'[k]].at = "sent"
    BY <1>1, <1>4, <2>4
  <2>6. ASSUME NEW k \in DOMAIN finished', NEW l \in DOMAIN finished', finished'[k] = finished'[l]
        PROVE  k = l
    <3>1. k + 1 \in DOMAIN finished /\ l + 1 \in DOMAIN finished /\ finished[k + 1] = finished[l + 1]
      BY <1>1, <2>1, <2>2, <2>6
    <3>2. k + 1 = l + 1
      BY <1>1, <3>1
    <3> QED BY <2>1, <2>3, <3>2
  <2> QED BY <2>5, <2>6 DEF Reports
<1>5. ASSUME Receive PROVE Reports'
  BY <1>4, <1>5 DEF Receive
<1>6. ASSUME Drain PROVE Reports'
  BY <1>2, <1>4, <1>6 DEF Drain
<1>7. ASSUME NEW i \in Task, Launch(i) PROVE Reports'
  <2>1. child[i].at = "none"
    <3>1. i \notin started /\ at = "pick"
      BY <1>7 DEF Launch, IsNext, Candidates, Ready
    <3> QED BY <3>1 DEF DelegationInv, StartedOnce, Running
  <2>2. \A k \in DOMAIN finished : finished[k] # i
    BY <1>1, <2>1
  <2> QED BY <1>1, <1>7, <2>2 DEF Launch, Reports
<1>8. ASSUME NEW i \in Task, Subagent(i) PROVE Reports'
  <2>1. PICK c : ChildIs(i, c)
    BY <1>0, <1>8, SubagentAlone
  <2>2. child[i].at # "sent"
    BY <1>0, <1>8, SubagentAlone DEF SubagentOnly
  <2>3. \A k \in DOMAIN finished : finished[k] # i /\ child'[finished[k]].at = "sent"
    BY <1>1, <2>1, <2>2 DEF ChildIs
  <2>4. (finished' = finished /\ child'[i].at # "sent")
          \/ (finished' = Append(finished, i) /\ child'[i].at = "sent")
    BY <1>0, <1>8, SubagentRest
  <2>5. CASE finished' = finished
    BY <1>1, <2>3, <2>5 DEF Reports
  <2>6. CASE finished' = Append(finished, i) /\ child'[i].at = "sent"
    <3>1. /\ DOMAIN finished' = 1..(Len(finished) + 1)
          /\ \A k \in 1..Len(finished) : finished'[k] = finished[k]
          /\ finished'[Len(finished) + 1] = i
      BY <1>1, <2>6
    <3>2. \A k \in 1..(Len(finished) + 1) : k \in 1..Len(finished) \/ k = Len(finished) + 1
      BY <1>1
    <3>3. \A k \in DOMAIN finished' : child'[finished'[k]].at = "sent"
      BY <1>1, <2>3, <2>6, <3>1, <3>2
    <3>4. \A k, l \in DOMAIN finished' : finished'[k] = finished'[l] => k = l
      BY <1>1, <2>3, <3>1, <3>2
    <3> QED BY <3>3, <3>4 DEF Reports
  <2> QED BY <2>4, <2>5, <2>6
<1>9. ASSUME Crash PROVE Reports'
  BY <1>9 DEF Crash, Reports
<1> QED BY <1>3, <1>5, <1>6, <1>7, <1>8, <1>9 DEF Next, Scheduler

(* What the scheduler picks has not been started.                           *)
LEMMA PickedIdle ==
    ASSUME DelegationInv, NEW i \in Task, at = "pick", IsNext(i)
    PROVE  child[i].at = "none" /\ ~Resolved(i) /\ i \notin Running
           /\ \A n \in plan[i].needs : Resolved(n)
<1>1. i \notin started /\ \A n \in plan[i].needs : Resolved(n)
  BY DEF IsNext, Candidates, Ready
<1>2. \A k \in Task : Resolved(k) \/ k \in Running => k \in started
  BY DEF DelegationInv, StartedOnce
<1> QED BY <1>1, <1>2 DEF Running

LEMMA SubagentRuns ==
    ASSUME Shapes, NEW i \in Task, Subagent(i)
    PROVE  Running' = Running /\ i \in Running
<1>1. Task' = Task /\ child \in [Task -> [at : Places, errs : SUBSET Errors]]
  BY SubagentAlone DEF Task, plan, SubagentOnly, Shapes
<1>2. PICK c : ChildIs(i, c)
  BY SubagentAlone
<1>3. child[i].at # "none" /\ child'[i].at # "none" /\ \A k \in Task \ {i} : child'[k] = child[k]
  BY <1>1, <1>2, SubagentAlone DEF ChildIs, SubagentOnly
<1> QED BY <1>1, <1>3 DEF Running

LEMMA SameRunning == ASSUME Task' = Task, UNCHANGED child PROVE Running' = Running
BY DEF Running

LEMMA QuietKept == ASSUME DelegationInv, Next PROVE Quiet'
<1>0. Shapes /\ PointStands /\ Reports /\ Quiet /\ Task' = Task
  BY SetupStays DEF DelegationInv, Task, plan
<1>1. /\ at \in {"over", "closed"} \/ disk # {} => Running = {}
      /\ at = "drain" => cancelled
      /\ lock # 0 => child[lock].at \notin {"none", "sent"}
      /\ lock \in Task \cup {0} /\ child \in [Task -> [at : Places, errs : SUBSET Errors]]
  BY <1>0 DEF Quiet, Shapes
<1>2. disk # {} => at \in {"top", "over", "closed"} /\ (resumable \/ at = "closed")
  BY <1>0 DEF PointStands
<1>3. ASSUME Top PROVE Quiet'
  <2>1. Running' = Running
    BY <1>0, <1>3, SameRunning DEF Top
  <2> QED BY <1>1, <1>3, <2>1 DEF Top, Return, Retire, RetireFails, LoseBoundary, saved, Quiet
<1>4. ASSUME Admit \/ SweptOut PROVE Quiet'
  <2>1. Running' = Running
    BY <1>0, <1>4, SameRunning DEF Admit, SweptOut
  <2> QED BY <1>1, <1>4, <2>1 DEF Admit, SweptOut, saved, Quiet
<1>5. ASSUME Boundary PROVE Quiet'
  <2>1. Running' = Running
    BY <1>0, <1>5, SameRunning DEF Boundary
  <2> QED BY <1>1, <1>5, <2>1 DEF Boundary, Return, SaveBoundary, LoseBoundary, saved, Quiet
<1>6. ASSUME Finish PROVE Quiet'
  <2>1. Running' = Running
    BY <1>0, <1>6, SameRunning DEF Finish
  <2> QED BY <1>1, <1>6, <2>1 DEF Finish, Return, saved, Quiet
<1>7. ASSUME finished # <<>>, child' = [child EXCEPT ![Head(finished)] = NoChild], lock' = lock
      PROVE  lock' # 0 => child'[lock'].at \notin {"none", "sent"}
  <2>1. child[Head(finished)].at = "sent"
    BY <1>0, <1>7 DEF Reports, Shapes
  <2>2. lock # Head(finished) \/ lock = 0
    BY <1>1, <2>1
  <2>3. lock # 0 => child'[lock] = child[lock]
    BY <1>1, <1>7, <2>2
  <2> QED BY <1>1, <1>7, <2>3
<1>8. ASSUME Receive PROVE Quiet'
  <2>1. disk' = {} /\ at' \in {"drain", "top"} /\ (at' = "drain" => cancelled')
    BY <1>2, <1>8 DEF Receive, saved
  <2>2. lock' # 0 => child'[lock'].at \notin {"none", "sent"}
    BY <1>7, <1>8 DEF Receive
  <2> QED BY <2>1, <2>2 DEF Quiet
<1>9. ASSUME Drain PROVE Quiet'
  <2>1. disk' = {} /\ cancelled' = cancelled /\ cancelled
    BY <1>1, <1>2, <1>9 DEF Drain, saved
  <2>2. CASE Running = {} /\ Return("cancelled") /\ UNCHANGED <<child, finished>>
    <3>1. Running' = Running /\ lock' = lock /\ at' = "over"
      BY <1>0, <1>9, <2>2, SameRunning DEF Drain, Return
    <3> QED BY <1>1, <2>1, <2>2, <3>1 DEF Quiet
  <2>3. CASE /\ finished # <<>> /\ child' = [child EXCEPT ![Head(finished)] = NoChild]
             /\ UNCHANGED <<at, ret>>
    <3>1. lock' # 0 => child'[lock'].at \notin {"none", "sent"}
      BY <1>7, <1>9, <2>3 DEF Drain
    <3>2. at' = "drain"
      BY <1>9, <2>3 DEF Drain
    <3> QED BY <2>1, <3>1, <3>2 DEF Quiet
  <2> QED BY <1>9, <2>2, <2>3 DEF Drain
<1>10. ASSUME NEW i \in Task, Skip(i) PROVE Quiet'
  BY <1>1, <1>2, <1>10 DEF Skip, saved, Quiet
<1>11. ASSUME NEW i \in Task, Launch(i) PROVE Quiet'
  <2>1. child[i].at = "none"
    BY <1>11, PickedIdle DEF Launch
  <2>2. lock' # 0 => child'[lock'].at \notin {"none", "sent"}
    BY <1>1, <1>11, <2>1 DEF Launch
  <2> QED BY <1>2, <1>11, <2>2 DEF Launch, saved, Quiet
<1>12. ASSUME EndTurn PROVE Quiet'
  <2>1. Running' = Running
    BY <1>0, <1>12, SameRunning DEF EndTurn
  <2> QED BY <1>1, <1>12, <2>1 DEF EndTurn, Quiet
<1>13. ASSUME NEW i \in Task, Subagent(i) PROVE Quiet'
  <2>1. Running' = Running /\ i \in Running
    BY <1>0, <1>13, SubagentRuns
  <2>2. UNCHANGED <<at, cancelled, disk>>
    BY <1>0, <1>13, SubagentAlone DEF SubagentOnly, schedule
  <2>3. PICK c : ChildIs(i, c)
    BY <1>0, <1>13, SubagentAlone
  <2>4. child'[i].at # "none" /\ \A k \in Task \ {i} : child'[k] = child[k]
    BY <1>1, <2>3 DEF ChildIs
  <2>5. lock' # 0 => child'[lock'].at \notin {"none", "sent"}
    <3>1. CASE lock' = lock /\ (lock = i => child'[i].at # "sent")
      BY <1>1, <2>4, <3>1
    <3>2. CASE lock' = i /\ lock = 0 /\ child[i].at \in {"lock", "land"}
      <4>1. child'[i].at # "sent"
        BY <1>13, <1>1, <3>2 DEF Subagent, TakeWorktree, RefuseWorktree, TakeSharedTree, TakeNoTree,
           OpenBackend, Send, Reply, HitLimit, CallFails, RunTools, WindUp, LandBegin, LandEnd, Report,
           Goes
      <4> QED BY <2>4, <3>2, <4>1
    <3>3. CASE lock' = 0
      BY <3>3
    <3> QED BY <1>0, <1>13, <3>1, <3>2, <3>3, SubagentRest
  <2> QED BY <1>1, <2>1, <2>2, <2>5 DEF Quiet
<1>14. ASSUME Resume PROVE Quiet'
  <2>1. Running' = Running
    BY <1>0, <1>14, SameRunning DEF Resume
  <2> QED BY <1>1, <1>14, <2>1 DEF Resume, Retire, Quiet
<1>15. ASSUME Cancel \/ Closed PROVE Quiet'
  <2>1. Running' = Running
    BY <1>0, <1>15, SameRunning DEF Cancel, Closed, vars
  <2> QED BY <1>1, <1>15, <2>1 DEF Cancel, Closed, vars, schedule, saved, Quiet
<1>16. ASSUME Crash PROVE Quiet'
  <2>1. Running' = {}
    BY <1>0, <1>16 DEF Crash, Running, NoChild
  <2> QED BY <1>16, <2>1 DEF Crash, Quiet
<1> QED BY <1>3, <1>4, <1>5, <1>6, <1>8, <1>9, <1>10, <1>11, <1>12, <1>13, <1>14, <1>15, <1>16
       DEF Next, Scheduler

(* Only at its start is a task given a worktree.                            *)
LEMMA IsolatedStays ==
    ASSUME Shapes, NEW i \in Task, Subagent(i)
    PROVE  /\ \/ TakeWorktree(i) /\ Isolating /\ child[i].at = "start" /\ child'[i].at = "open"
              \/ journal'[i].isolated = journal[i].isolated
           /\ \A k \in Task \ {i} : journal'[k] = journal[k] /\ child'[k] = child[k]
<1>0. /\ child \in [Task -> [at : Places, errs : SUBSET Errors]]
      /\ journal \in [Task -> Journal] /\ Len(windows) \in Nat
  BY DEF Shapes, Journal
<1>1. \A k \in Task \ {i} : journal'[k] = journal[k] /\ child'[k] = child[k]
  BY <1>0, SubagentAlone, SubagentRecords DEF ChildIs, JournalIs
<1>2. ASSUME TakeWorktree(i)
      PROVE  TakeWorktree(i) /\ Isolating /\ child[i].at = "start" /\ child'[i].at = "open"
  BY <1>0, <1>2 DEF TakeWorktree, Goes
<1>3. ASSUME \/ RefuseWorktree(i) \/ TakeNoTree(i) \/ OpenBackend(i) \/ Send(i) \/ Reply(i)
             \/ HitLimit(i) \/ CallFails(i) \/ RunTools(i) \/ LandBegin(i) \/ LandEnd(i) \/ Report(i)
      PROVE  journal'[i].isolated = journal[i].isolated
  BY <1>3 DEF RefuseWorktree, TakeNoTree, OpenBackend, Send, Reply, HitLimit, CallFails, RunTools,
              LandBegin, LandEnd, Report
<1>4. ASSUME TakeSharedTree(i) PROVE journal'[i].isolated = journal[i].isolated
  BY <1>0, <1>4 DEF TakeSharedTree, OpensWindow, Journal
<1>5. ASSUME WindUp(i) PROVE journal'[i].isolated = journal[i].isolated
  BY <1>0, <1>5 DEF WindUp, Journal
<1> QED BY <1>1, <1>2, <1>3, <1>4, <1>5 DEF Subagent

LEMMA ApartKept == ASSUME DelegationInv, Next PROVE Apart'
<1>0. Shapes /\ PointStands /\ Reports /\ Quiet /\ Apart
      /\ Task' = Task /\ setup' = setup /\ plan' = plan /\ setup \in Setups
  BY SetupStays DEF DelegationInv, Task, plan, Shapes
<1>1. /\ \A i \in Task : Isolated(i) \/ child[i].at \in {"lock", "land", "landing"} => Isolating
      /\ Isolating => \A i \in Task : InUserTree(i) => lock = i
      /\ ~Isolating => \A i, j \in Running : plan[i].writes /\ plan[j].writes => i = j
      /\ ~Isolating /\ at \notin {"drain", "over", "closed"} =>
           \A i \in Running : plan[i].writes => writing
      /\ 0 \notin Task
  BY <1>0, PlanShape DEF Apart
<1>2. /\ child \in [Task -> [at : Places, errs : SUBSET Errors]]
      /\ journal \in [Task -> Journal] /\ finished \in Seq(Task)
  BY <1>0 DEF Shapes, Journal
<1>3. Isolating' = Isolating
  BY <1>0 DEF Isolating
<1> DEFINE Lone == /\ ~Isolating => \A i, j \in Running' : plan[i].writes /\ plan[j].writes => i = j
                   /\ ~Isolating /\ at' \notin {"drain", "over", "closed"} =>
                        \A i \in Running' : plan[i].writes => writing'
           Tree == /\ \A i \in Task : Isolated(i)' \/ child'[i].at \in {"lock", "land", "landing"} => Isolating
                   /\ Isolating => \A i \in Task : InUserTree(i)' => lock' = i
<1>4. ASSUME Lone, Tree PROVE Apart'
  BY <1>0, <1>3, <1>4 DEF Apart
<1>5. ASSUME UNCHANGED <<child, journal, lock>> PROVE Tree /\ Running' = Running
  BY <1>0, <1>1, <1>5 DEF InUserTree, Isolated, Running
<1>6. ASSUME UNCHANGED <<child, journal, lock, writing>>, 
             at' \in {"drain", "over", "closed"} \/ at \notin {"drain", "over", "closed"}
      PROVE  Lone /\ Tree
  BY <1>1, <1>5, <1>6
<1>7. ASSUME Top \/ Admit \/ SweptOut \/ Boundary \/ Finish \/ EndTurn \/ Cancel \/ Closed
      PROVE  Lone /\ Tree
  BY <1>6, <1>7 DEF Top, Admit, SweptOut, Boundary, Finish, EndTurn, Cancel, Closed, Return, vars,
     schedule
<1>8. ASSUME NEW i \in Task, Skip(i) PROVE Lone /\ Tree
  <2>1. \A k \in Task : Isolated(k)' = Isolated(k)
    BY <1>2, <1>8 DEF Skip, Settle, Isolated, Journal
  <2>2. Running' = Running /\ UNCHANGED <<child, lock, writing>> /\ at = "pick"
    BY <1>0, <1>8, SameRunning DEF Skip
  <2>3. Tree
    BY <1>0, <1>1, <2>1, <2>2 DEF InUserTree
  <2>4. Lone
    BY <1>1, <2>2
  <2> QED BY <2>3, <2>4
<1>9. ASSUME NEW i \in Task, Launch(i) PROVE Lone /\ Tree
  <2>1. child[i].at = "none" /\ i \notin Running /\ at = "pick" /\ at' = "admit"
        /\ (~writing \/ ~plan[i].writes)
    BY <1>9, PickedIdle DEF Launch, IsNext, Candidates
  <2>2. Running' = Running \cup {i} /\ UNCHANGED <<journal, lock>>
    BY <1>0, <1>2, <1>9 DEF Launch, Running
  <2>3. /\ child'[i].at = "start"
        /\ \A k \in Task : k # i => child'[k] = child[k]
    BY <1>2, <1>9 DEF Launch
  <2>4. Tree
    BY <1>0, <1>1, <2>2, <2>3 DEF InUserTree, Isolated
  <2>5. ~Isolating /\ plan[i].writes => writing'
    BY <1>9 DEF Launch, SharesTree
  <2>6. writing => writing'
    BY <1>9 DEF Launch
  <2>7. Lone
    BY <1>1, <2>1, <2>2, <2>5, <2>6
  <2> QED BY <2>4, <2>7
<1>10. ASSUME NEW i \in Task, child' = [child EXCEPT ![i] = NoChild]
       PROVE  /\ Running' = Running \ {i}
              /\ \A k \in Task : k # i => child'[k] = child[k]
              /\ child'[i].at = "none"
  BY <1>0, <1>2, <1>10 DEF Running, NoChild
<1>11. ASSUME Receive PROVE Lone /\ Tree
  <2> DEFINE i == Head(finished)
  <2>1. i \in Task /\ child' = [child EXCEPT ![i] = NoChild] /\ lock' = lock /\ at = "wait"
        /\ i \in Running
    BY <1>0, <1>2, <1>11 DEF Receive, Reports, Running
  <2>2. \A k \in Task : Isolated(k)' = Isolated(k)
    <3>1. UNCHANGED journal \/ \E s : Settle(i, s)
      BY <1>11 DEF Receive
    <3> HIDE DEF i
    <3>2. ASSUME NEW s, Settle(i, s) PROVE \A k \in Task : journal'[k].isolated = journal[k].isolated
      BY <1>2, <2>1, <3>2 DEF Settle, Journal
    <3> QED BY <3>1, <3>2 DEF Isolated
  <2>3. Tree
    BY <1>0, <1>1, <1>10, <2>1, <2>2 DEF InUserTree
  <2>4. at' = "drain" \/ writing' = (writing /\ ~SharesTree(i))
    BY <1>11 DEF Receive
  <2>5. Running' = Running \ {i}
    BY <1>10, <2>1
  <2> HIDE DEF i
  <2>6. Lone
    BY <1>1, <2>1, <2>4, <2>5 DEF SharesTree
  <2> QED BY <2>3, <2>6
<1>12. ASSUME Drain PROVE Lone /\ Tree
  <2>1. UNCHANGED <<journal, lock, writing>> /\ at = "drain" /\ at' \in {"drain", "over"}
    BY <1>12 DEF Drain, Return
  <2>2. CASE UNCHANGED child
    BY <1>6, <2>1, <2>2
  <2>3. CASE finished # <<>> /\ child' = [child EXCEPT ![Head(finished)] = NoChild]
    <3>1. Head(finished) \in Task
      BY <1>2, <2>3
    <3>2. Tree
      BY <1>0, <1>1, <1>10, <2>1, <2>3, <3>1 DEF InUserTree, Isolated
    <3>3. Lone
      BY <1>1, <1>10, <2>1, <2>3, <3>1
    <3> QED BY <3>2, <3>3
  <2> QED BY <1>12, <2>2, <2>3 DEF Drain
<1>13. ASSUME NEW i \in Task, Subagent(i) PROVE Lone /\ Tree
  <2>1. Running' = Running /\ UNCHANGED <<at, writing>>
    BY <1>0, <1>13, SubagentRuns, SubagentAlone DEF SubagentOnly, schedule
  <2>2. Lone
    BY <1>1, <2>1
  <2>3. \A k \in Task \ {i} : (InUserTree(k)' <=> InUserTree(k)) /\ Isolated(k)' = Isolated(k)
    BY <1>0, <1>13, IsolatedStays DEF InUserTree, Isolated
  <2>4. /\ \/ TakeWorktree(i) /\ Isolating /\ child'[i].at = "open"
           \/ Isolated(i)' = Isolated(i)
        /\ \A k \in Task \ {i} : child'[k] = child[k]
    BY <1>0, <1>13, IsolatedStays DEF Isolated
  <2>5. child'[i].at \in {"lock", "land", "landing"} => Isolating
    <3>0. child[i] \in [at : Places, errs : SUBSET Errors] /\ did[i].next \in Nexts
      BY <1>0, <1>2 DEF Shapes
    <3>1. CASE RefuseWorktree(i) \/ LandBegin(i)
      BY <1>1, <3>1 DEF RefuseWorktree, LandBegin
    <3>2. CASE \/ TakeWorktree(i) \/ TakeSharedTree(i) \/ TakeNoTree(i) \/ OpenBackend(i)
               \/ Send(i) \/ Reply(i) \/ HitLimit(i) \/ CallFails(i)
      BY <1>2, <3>0, <3>2 DEF TakeWorktree, TakeSharedTree, TakeNoTree, OpenBackend, Send, Reply,
         HitLimit, CallFails, Goes, Ends, Continues, Nexts
    <3>3. CASE RunTools(i) \/ Report(i) \/ LandEnd(i)
      <4>1. child'[i].at \in {"end", "call", "sent", "report"}
        BY <1>2, <3>0, <3>3 DEF RunTools, Report, LandEnd, Goes, Ends
      <4> QED BY <4>1
    <3>4. CASE WindUp(i)
      <4>1. child'[i].at = "land" => Isolated(i)
        BY <1>2, <3>0, <3>4 DEF WindUp
      <4>2. child'[i].at \in {"land", "report"}
        BY <1>2, <3>0, <3>4 DEF WindUp
      <4> QED BY <1>1, <4>1, <4>2
    <3> QED BY <1>13, <3>1, <3>2, <3>3, <3>4 DEF Subagent
  <2>6. ASSUME Isolating, InUserTree(i)' PROVE lock' = i
    <3>0. /\ child[i] \in [at : Places, errs : SUBSET Errors] /\ journal[i] \in Journal
          /\ (InUserTree(i) => lock = i)
      BY <1>1, <1>2, <2>6
    <3>1. /\ child'[i].at = "landing" \/ (child'[i].at \in Working /\ plan[i].writes /\ ~Isolated(i)')
      BY <1>0, <2>6 DEF InUserTree, Working
    <3>2. ASSUME TakeWorktree(i) PROVE FALSE
      BY <1>2, <3>1, <3>2 DEF TakeWorktree, Goes, Isolated, Journal
    <3>3. ASSUME RefuseWorktree(i) \/ TakeNoTree(i) \/ WindUp(i) \/ LandEnd(i) \/ Report(i)
          PROVE  FALSE
      <4>1. CASE RefuseWorktree(i) \/ TakeNoTree(i) \/ Report(i)
        BY <1>2, <3>0, <3>1, <4>1 DEF RefuseWorktree, TakeNoTree, Report, Goes, Working
      <4>2. CASE WindUp(i) \/ LandEnd(i)
        <5>1. child'[i].at \in {"land", "report"}
          BY <1>2, <3>0, <4>2 DEF WindUp, LandEnd, Goes
        <5> QED BY <3>1, <5>1 DEF Working
      <4> QED BY <3>3, <4>1, <4>2
    <3>4. ASSUME TakeSharedTree(i) \/ LandBegin(i) PROVE lock' = i
      BY <2>6, <3>4 DEF TakeSharedTree, LandBegin
    <3>5. ASSUME \/ OpenBackend(i) \/ Send(i) \/ Reply(i) \/ HitLimit(i) \/ CallFails(i) \/ RunTools(i)
          PROVE  lock' = i
      <4>1. child[i].at \in Working /\ lock' = lock /\ UNCHANGED journal
        BY <3>5 DEF OpenBackend, Send, Reply, HitLimit, CallFails, RunTools, Working
      <4>2. child'[i].at # "landing"
        <5>1. did[i].next \in Nexts
          BY <1>0 DEF Shapes
        <5> QED BY <1>2, <3>0, <3>5, <5>1 DEF OpenBackend, Send, Reply, HitLimit, CallFails,
           RunTools,
                    Goes, Ends, Continues, Nexts
      <4> QED BY <3>0, <3>1, <4>1, <4>2 DEF InUserTree, Working, Isolated
    <3> QED BY <1>13, <3>2, <3>3, <3>4, <3>5 DEF Subagent
  <2>7. ASSUME Isolating, NEW k \in Task \ {i}, InUserTree(k)' PROVE lock' = k
    <3>1. lock = k /\ k # 0 /\ k # i
      BY <1>1, <2>3, <2>7
    <3>2. ~(child[i].at = "landing")
      BY <1>1, <2>7, <3>1 DEF InUserTree
    <3> QED BY <1>0, <1>13, <3>1, <3>2, SubagentRest
  <2>8. Tree
    BY <1>1, <2>3, <2>4, <2>5, <2>6, <2>7
  <2> QED BY <2>2, <2>8
<1>14. ASSUME Resume PROVE Lone /\ Tree
  <2>1. Running = {} /\ UNCHANGED <<child, journal, lock>>
    BY <1>0, <1>14 DEF Resume, Quiet
  <2> QED BY <1>5, <2>1
<1>15. ASSUME Crash PROVE Lone /\ Tree
  <2>1. journal' = journal
    BY <1>0, <1>15 DEF Crash, PointStands, Point
  <2>2. \A k \in Task : child'[k].at = "none"
    BY <1>15 DEF Crash, NoChild
  <2>3. Running' = {}
    BY <1>0, <2>2 DEF Running
  <2>4. Tree
    BY <1>0, <1>1, <2>1, <2>2 DEF InUserTree, Isolated
  <2> QED BY <2>3, <2>4
<1> HIDE DEF Lone, Tree
<1> QED BY <1>4, <1>7, <1>8, <1>9, <1>11, <1>12, <1>13, <1>14, <1>15 DEF Next, Scheduler

(* An outcome, once recorded, stands, and so does what stood in a task's    *)
(* way or did not.                                                          *)
LEMMA ReceivedTask ==
    ASSUME Shapes, Reports, finished # <<>>
    PROVE  Head(finished) \in Task /\ child[Head(finished)].at = "sent" /\ Head(finished) \in Running
BY DEF Shapes, Reports, Running

LEMMA Settles ==
    ASSUME Shapes, NEW i \in Task, NEW s, Settle(i, s)
    PROVE  /\ journal'[i].status = s
           /\ \A k \in Task : k # i => journal'[k].status = journal[k].status
           /\ \A k \in Task : /\ journal'[k].isolated = journal[k].isolated
                              /\ journal'[k].rounds = journal[k].rounds
                              /\ journal'[k].next = journal[k].next
                              /\ journal'[k].talks = journal[k].talks
                              /\ journal'[k].window = journal[k].window
<1>1. journal \in [Task -> Journal]
  BY DEF Shapes, Journal
<1>2. journal' = [journal EXCEPT ![i].status = s]
  BY DEF Settle
<1> QED BY <1>1, <1>2 DEF Journal

LEMMA StatusStands ==
    ASSUME DelegationInv, Next, NEW k \in Task, Resolved(k)
    PROVE  journal'[k].status = journal[k].status
<1>0. /\ Shapes /\ Reports /\ PointStands
      /\ \A i \in Running : ~Resolved(i)
  BY DEF DelegationInv, StartedOnce
<1>1. ASSUME \/ Top \/ Admit \/ SweptOut \/ Boundary \/ Finish \/ EndTurn \/ Resume \/ Cancel \/ Closed
             \/ Drain \/ \E i \in Task : Launch(i)
      PROVE  journal' = journal
  BY <1>1 DEF Top, Admit, SweptOut, Boundary, Finish, EndTurn, Resume, Cancel, Closed, vars, Drain,
     Launch
<1>2. ASSUME NEW i \in Task, Skip(i) PROVE journal'[k].status = journal[k].status
  <2>1. k # i /\ \E s : Settle(i, s)
    BY <1>2, PickedIdle DEF Skip
  <2> QED BY <1>0, <2>1, Settles
<1>3. ASSUME Receive PROVE journal'[k].status = journal[k].status
  <2> DEFINE i == Head(finished)
  <2>1. UNCHANGED journal \/ \E s : Settle(i, s)
    BY <1>3 DEF Receive
  <2>2. i \in Task /\ i # k
    BY <1>0, <1>3, ReceivedTask DEF Receive
  <2> HIDE DEF i
  <2> QED BY <1>0, <2>1, <2>2, Settles
<1>4. ASSUME NEW i \in Task, Subagent(i) PROVE journal'[k].status = journal[k].status
  <2>1. PICK r : JournalIs(i, r)
    BY <1>0, <1>4, SubagentRecords
  <2> QED BY <1>0, <2>1 DEF JournalIs, Shapes
<1>5. ASSUME Crash PROVE journal' = journal
  BY <1>0, <1>5 DEF Crash, PointStands, Point
<1> QED BY <1>1, <1>2, <1>3, <1>4, <1>5 DEF Next, Scheduler

LEMMA SameOutcome ==
    ASSUME NEW k, journal'[k].status = journal[k].status
    PROVE  Resolved(k)' <=> Resolved(k)
BY Zenon DEF Resolved

LEMMA TriedStands ==
    ASSUME DelegationInv, Next, NEW i \in Task, Tried(i)
    PROVE  Tried(i)'
<1>1. plan' = plan /\ plan[i].needs \subseteq Task
  BY SetupStays, PlanShape DEF plan, DelegationInv, Shapes
<1>2. ASSUME NEW n \in plan[i].needs
      PROVE  journal'[n].status = journal[n].status /\ Resolved(n)
  BY <1>1, <1>2, StatusStands DEF Tried
<1>3. \A n \in plan[i].needs : Resolved(n)'
  BY <1>1, <1>2, SameOutcome
<1>4. ~BlockedBy(i)'
  BY <1>1, <1>2 DEF Tried, BlockedBy
<1> QED BY <1>1, <1>3, <1>4 DEF Tried

LEMMA StartedOnceKept == ASSUME DelegationInv, Next PROVE StartedOnce'
<1>0. /\ Shapes /\ PointStands /\ Reports /\ Quiet /\ StartedOnce
      /\ Task' = Task /\ setup' = setup /\ plan' = plan /\ setup \in Setups
  BY SetupStays DEF DelegationInv, Task, plan, Shapes
<1>1. /\ at # "closed" => \A i \in Task : Resolved(i) \/ i \in Running => i \in started
      /\ \A i \in Running : ~Resolved(i) /\ Tried(i)
      /\ \A w \in DOMAIN windows : windows[w].open => Tried(windows[w].task)
      /\ Running \subseteq Task
  BY <1>0 DEF StartedOnce, Running
<1>2. \A i \in Task : Tried(i) => Tried(i)'
  BY TriedStands
<1>3. /\ child \in [Task -> [at : Places, errs : SUBSET Errors]]
      /\ journal \in [Task -> Journal] /\ finished \in Seq(Task)
      /\ windows \in Seq(Windows) /\ DOMAIN windows = 1..Len(windows)
      /\ \A w \in DOMAIN windows : windows[w].task \in Task
  <2>1. windows \in Seq(Windows)
    BY <1>0 DEF Shapes, Windows
  <2>2. \A w \in DOMAIN windows : windows[w] \in Windows
    BY <2>1
  <2> QED BY <1>0, <2>1, <2>2 DEF Shapes, Journal, Windows
<1> DEFINE Begun  == at' # "closed" => \A i \in Task : Resolved(i)' \/ i \in Running' => i \in started'
           Going  == \A i \in Running' : ~Resolved(i)' /\ Tried(i)'
           Opened == \A w \in DOMAIN windows' : windows'[w].open =>
                         \E i \in Task : i = windows'[w].task /\ Tried(i)'
<1>4. ASSUME Begun, Going, Opened
      PROVE  StartedOnce'
  BY <1>0, <1>4 DEF StartedOnce
<1>5. ASSUME UNCHANGED windows
      PROVE  Opened
  BY <1>1, <1>2, <1>3, <1>5
<1>6. ASSUME UNCHANGED windows, Begun, Going PROVE StartedOnce'
  BY <1>4, <1>5, <1>6
<1>7. ASSUME NEW k, UNCHANGED journal PROVE Resolved(k)' <=> Resolved(k)
  BY <1>7, SameOutcome
<1>8. ASSUME UNCHANGED journal, Running' = Running, started' = started, at' = "closed" \/ at # "closed",
             UNCHANGED windows
      PROVE  StartedOnce'
  <2>1. Begun
    BY <1>1, <1>7, <1>8
  <2>2. Going
    BY <1>1, <1>2, <1>7, <1>8
  <2> QED BY <1>6, <1>8, <2>1, <2>2
<1>9. ASSUME Top \/ Admit \/ SweptOut \/ Boundary \/ Finish \/ EndTurn \/ Cancel \/ Closed
      PROVE  StartedOnce'
  <2>1. Running' = Running
    BY <1>0, <1>9, SameRunning DEF Top, Admit, SweptOut, Boundary, Finish, EndTurn, Cancel,
       Closed, vars
  <2>2. UNCHANGED <<journal, started, windows>> /\ (at' = "closed" \/ at # "closed")
    BY <1>9 DEF Top, Admit, SweptOut, Boundary, Finish, EndTurn, Cancel, Closed, vars, schedule,
       world
  <2> QED BY <1>8, <2>1, <2>2
<1>10. ASSUME NEW i \in Task, Skip(i) PROVE StartedOnce'
  <2>1. i \notin Running /\ at # "closed"
    BY <1>10, PickedIdle DEF Skip
  <2>2. Running' = Running /\ started' = started \cup {i} /\ UNCHANGED windows
    BY <1>0, <1>10, SameRunning DEF Skip, world
  <2>3. \A k \in Task \ {i} : Resolved(k)' <=> Resolved(k)
    <3>1. \E s : Settle(i, s)
      BY <1>10 DEF Skip
    <3>2. \A k \in Task \ {i} : journal'[k].status = journal[k].status
      BY <1>0, <3>1, Settles
    <3> QED BY <3>2, SameOutcome
  <2>4. Begun
    BY <1>1, <2>1, <2>2, <2>3
  <2>5. Going
    BY <1>1, <1>2, <2>1, <2>2, <2>3
  <2> QED BY <1>6, <2>2, <2>4, <2>5
<1>11. ASSUME NEW i \in Task, Launch(i) PROVE StartedOnce'
  <2>1. at # "closed" /\ started' = started \cup {i} /\ UNCHANGED <<journal, windows>>
    BY <1>11 DEF Launch, world
  <2>2. Running' = Running \cup {i}
    BY <1>0, <1>3, <1>11 DEF Launch, Running
  <2>3. Tried(i) /\ ~Resolved(i)
    <3>1. (\A n \in plan[i].needs : Resolved(n)) /\ ~Resolved(i)
      BY <1>11, PickedIdle DEF Launch
    <3>2. ~BlockedBy(i)
      BY <1>11 DEF Launch
    <3> QED BY <3>1, <3>2 DEF Tried
  <2>4. Begun
    BY <1>1, <1>7, <2>1, <2>2
  <2>5. Going
    BY <1>1, <1>2, <1>7, <2>1, <2>2, <2>3
  <2> QED BY <1>6, <2>1, <2>4, <2>5
<1>12. ASSUME NEW i \in Task, child' = [child EXCEPT ![i] = NoChild]
       PROVE  Running' = Running \ {i}
  BY <1>0, <1>3, <1>12 DEF Running, NoChild
<1>13. ASSUME Receive PROVE StartedOnce'
  <2> DEFINE i == Head(finished)
  <2>1. i \in Task /\ i \in Running
    BY <1>0, <1>13, ReceivedTask DEF Receive
  <2>2. /\ child' = [child EXCEPT ![i] = NoChild] /\ at # "closed" /\ started' = started
        /\ UNCHANGED windows
    BY <1>13 DEF Receive, world
  <2>3. UNCHANGED journal \/ \E s : Settle(i, s)
    BY <1>13 DEF Receive
  <2> HIDE DEF i
  <2>4. Running' = Running \ {i}
    BY <1>12, <2>1, <2>2
  <2>5. \A k \in Task \ {i} : Resolved(k)' <=> Resolved(k)
    <3>1. \A k \in Task \ {i} : journal'[k].status = journal[k].status
      BY <1>0, <2>1, <2>3, Settles
    <3> QED BY <3>1, SameOutcome
  <2>6. Begun
    BY <1>1, <2>1, <2>2, <2>4, <2>5
  <2>7. Going
    BY <1>1, <1>2, <2>4, <2>5
  <2> QED BY <1>6, <2>2, <2>6, <2>7
<1>14. ASSUME Drain PROVE StartedOnce'
  <2>1. at # "closed" /\ UNCHANGED <<started, journal, windows>>
    BY <1>14 DEF Drain, world
  <2>2. Running' \subseteq Running
    <3>1. CASE UNCHANGED child
      BY <1>0, <3>1, SameRunning
    <3>2. CASE finished # <<>> /\ child' = [child EXCEPT ![Head(finished)] = NoChild]
      BY <1>0, <1>12, <3>2, ReceivedTask
    <3> QED BY <1>14, <3>1, <3>2 DEF Drain
  <2>3. Begun
    BY <1>1, <1>7, <2>1, <2>2
  <2>4. Going
    BY <1>1, <1>2, <1>7, <2>1, <2>2
  <2> QED BY <1>6, <2>1, <2>3, <2>4
<1>15. ASSUME NEW i \in Task, Subagent(i) PROVE StartedOnce'
  <2>1. Running' = Running /\ UNCHANGED <<at, started>> /\ i \in Running
    BY <1>0, <1>15, SubagentRuns, SubagentAlone DEF SubagentOnly, schedule
  <2>2. \A k \in Task : Resolved(k)' <=> Resolved(k)
    <3>1. PICK r : JournalIs(i, r)
      BY <1>0, <1>15, SubagentRecords
    <3>2. \A k \in Task : journal'[k].status = journal[k].status
      BY <1>3, <3>1 DEF JournalIs
    <3> QED BY <3>2, SameOutcome
  <2>3. Begun
    BY <1>1, <2>1, <2>2
  <2>4. Going
    BY <1>1, <1>2, <2>1, <2>2
  <2>5. ASSUME NEW w \in DOMAIN windows', windows'[w].open
        PROVE  \E k \in Task : k = windows'[w].task /\ Tried(k)'
    <3>1. \/ w \in DOMAIN windows /\ windows[w] = windows'[w]
          \/ windows'[w].task = i
      BY <1>0, <1>15, <2>5, SubagentWindows DEF WindowsOnly
    <3>2. Tried(i)'
      BY <1>1, <1>2, <2>1
    <3>3. CASE windows'[w].task = i
      BY <3>2, <3>3
    <3>4. CASE w \in DOMAIN windows /\ windows[w] = windows'[w]
      <4>1. windows[w].task \in Task /\ Tried(windows[w].task)
        BY <1>1, <1>3, <2>5, <3>4
      <4> QED BY <1>2, <3>4, <4>1
    <3> QED BY <3>1, <3>3, <3>4
  <2> QED BY <1>4, <2>3, <2>4, <2>5
<1>16. ASSUME Resume PROVE StartedOnce'
  <2>1. Running' = {} /\ UNCHANGED <<journal, windows>>
    BY <1>0, <1>16, SameRunning DEF Resume, Quiet, world
  <2>2. started' = {i \in Task : Resolved(i)}
    BY <1>16 DEF Resume
  <2>3. Begun
    BY <1>7, <2>1, <2>2
  <2> QED BY <1>6, <2>1, <2>3
<1>17. ASSUME Crash PROVE StartedOnce'
  <2>1. Running' = {} /\ UNCHANGED windows /\ at' = "closed"
    BY <1>0, <1>17 DEF Crash, Running, NoChild, world
  <2> QED BY <1>6, <2>1
<1> QED BY <1>9, <1>10, <1>11, <1>13, <1>14, <1>15, <1>16, <1>17 DEF Next, Scheduler

-----------------------------------------------------------------------------
(* What each step of a subagent does to its own records, while the turn is  *)
(* not cancelled.                                                           *)
Moves(i, from, to) == child[i].at \in from /\ child'[i].at \in to
SameErrs(i) == child'[i].errs = child[i].errs
SameNotes(i) ==
    /\ journal'[i].rounds = journal[i].rounds /\ journal'[i].next = journal[i].next
    /\ journal'[i].talks = journal[i].talks

Steps(i) ==
    /\ TakeWorktree(i) =>
         /\ Moves(i, {"start"}, {"open"}) /\ SameErrs(i) /\ SameNotes(i)
         /\ journal'[i].isolated /\ journal'[i].window = journal[i].window
    /\ TakeSharedTree(i) => Moves(i, {"start", "lock"}, {"open"}) /\ SameErrs(i) /\ SameNotes(i)
    /\ RefuseWorktree(i) => Moves(i, {"start"}, {"lock"}) /\ SameErrs(i)
    /\ TakeNoTree(i) => Moves(i, {"start"}, {"open"}) /\ SameErrs(i)
    /\ OpenBackend(i) => /\ Moves(i, {"open"}, {"call", "tools", "end"})
                         /\ \/ SameErrs(i) \/ child'[i].errs = {"failed"}
                            \/ journal[i].talks /\ child'[i].errs = {"unavailable"}
    /\ Send(i) => /\ Moves(i, {"call"}, {"end", "flight"})
                  /\ \/ SameErrs(i) \/ child'[i].errs = {"rounds"}
                     \/ gate.stopped /\ child'[i].errs = {"limit"}
    /\ Reply(i) => Moves(i, {"flight"}, {"end", "tools"}) /\ SameErrs(i)
    /\ HitLimit(i) => Moves(i, {"flight"}, {"end"})
    /\ CallFails(i) => Moves(i, {"flight"}, {"end"}) /\ child'[i].errs = {"failed"}
    /\ RunTools(i) => /\ Moves(i, {"tools"}, {"end", "call"})
                      /\ SameErrs(i) \/ (gate.stopped /\ child'[i].errs = {"limit"})
    /\ WindUp(i) =>
         /\ Moves(i, {"end"}, {"land", "report"})
         /\ SameErrs(i) \/ ((gate.stopped \/ "limit" \in child[i].errs) /\ child'[i].errs = {"limit"})
         /\ child'[i].at = "land" <=> Isolated(i) /\ ~Held(child'[i].errs) /\ ~cancelled
         /\ journal'[i].rounds = did[i].rounds /\ journal'[i].next = did[i].next
         /\ journal'[i].window = journal[i].window
    /\ LandBegin(i) => Moves(i, {"land"}, {"landing"}) /\ SameErrs(i)
    /\ LandEnd(i) => /\ Moves(i, {"landing"}, {"report"})
                     /\ \/ SameErrs(i) /\ i \in landed'
                        \/ child'[i].errs = child[i].errs \cup {"land"}
    /\ Report(i) => Moves(i, {"report"}, {"sent"}) /\ SameErrs(i)

LEMMA StepsDone == ASSUME Shapes, NEW i \in Task PROVE Steps(i)
<1>0. /\ child \in [Task -> [at : Places, errs : SUBSET Errors]]
      /\ child[i] \in [at : Places, errs : SUBSET Errors]
      /\ journal \in [Task -> Journal] /\ journal[i] \in Journal
      /\ did[i].next \in Nexts /\ cancelled \in BOOLEAN
  BY DEF Shapes, Journal
<1> USE DEF Moves, SameErrs, SameNotes
<1>1. ASSUME TakeWorktree(i)
      PROVE  /\ Moves(i, {"start"}, {"open"}) /\ SameErrs(i) /\ SameNotes(i)
             /\ journal'[i].isolated /\ journal'[i].window = journal[i].window
  BY <1>0, <1>1 DEF TakeWorktree, Goes, Journal
<1>2. ASSUME TakeSharedTree(i)
      PROVE  Moves(i, {"start", "lock"}, {"open"}) /\ SameErrs(i) /\ SameNotes(i)
  <2>1. journal' = journal \/ \E n : journal' = [journal EXCEPT ![i].window = n]
    BY <1>2 DEF TakeSharedTree, OpensWindow
  <2>2. SameNotes(i)
    BY <1>0, <2>1 DEF Journal
  <2> QED BY <1>0, <1>2, <2>2 DEF TakeSharedTree, Goes
<1>3. ASSUME RefuseWorktree(i) PROVE Moves(i, {"start"}, {"lock"}) /\ SameErrs(i)
  BY <1>0, <1>3 DEF RefuseWorktree, Goes
<1>4. ASSUME TakeNoTree(i) PROVE Moves(i, {"start"}, {"open"}) /\ SameErrs(i)
  BY <1>0, <1>4 DEF TakeNoTree, Goes
<1>5. ASSUME OpenBackend(i)
      PROVE  /\ Moves(i, {"open"}, {"call", "tools", "end"})
             /\ \/ SameErrs(i) \/ child'[i].errs = {"failed"}
                \/ journal[i].talks /\ child'[i].errs = {"unavailable"}
  <2>1. CASE Goes(i, Continues(i))
    BY <1>0, <1>5, <2>1 DEF OpenBackend, Goes, Continues, Nexts
  <2>2. CASE Ends(i, {IF journal[i].talks THEN "unavailable" ELSE "failed"})
    BY <1>0, <1>5, <2>2 DEF OpenBackend, Ends
  <2> QED BY <1>5, <2>1, <2>2 DEF OpenBackend
<1>6. ASSUME Send(i)
      PROVE  /\ Moves(i, {"call"}, {"end", "flight"})
             /\ \/ SameErrs(i) \/ child'[i].errs = {"rounds"}
                \/ gate.stopped /\ child'[i].errs = {"limit"}
  BY <1>0, <1>6 DEF Send, Goes, Ends
<1>7. ASSUME Reply(i) PROVE Moves(i, {"flight"}, {"end", "tools"}) /\ SameErrs(i)
  BY <1>0, <1>7 DEF Reply, Goes
<1>8. ASSUME HitLimit(i) PROVE Moves(i, {"flight"}, {"end"})
  BY <1>0, <1>8 DEF HitLimit, Ends
<1>9. ASSUME CallFails(i) PROVE Moves(i, {"flight"}, {"end"}) /\ child'[i].errs = {"failed"}
  BY <1>0, <1>9 DEF CallFails, Ends
<1>10. ASSUME RunTools(i)
      PROVE  /\ Moves(i, {"tools"}, {"end", "call"})
             /\ SameErrs(i) \/ (gate.stopped /\ child'[i].errs = {"limit"})
  BY <1>0, <1>10 DEF RunTools, Goes, Ends
<1>11. ASSUME WindUp(i)
      PROVE  /\ Moves(i, {"end"}, {"land", "report"})
             /\ SameErrs(i) \/ ((gate.stopped \/ "limit" \in child[i].errs) /\ child'[i].errs = {"limit"})
             /\ child'[i].at = "land" <=> Isolated(i) /\ ~Held(child'[i].errs) /\ ~cancelled
             /\ journal'[i].rounds = did[i].rounds /\ journal'[i].next = did[i].next
             /\ journal'[i].window = journal[i].window
  <2> DEFINE stopped == gate.stopped \/ "limit" \in child[i].errs
             ends == IF ~Held(child[i].errs) /\ Isolated(i) /\ stopped THEN {"limit"} ELSE child[i].errs
             where == IF Isolated(i) /\ ~Held(ends) /\ ~cancelled THEN "land" ELSE "report"
  <2>1. /\ child[i].at = "end"
        /\ child' = [child EXCEPT ![i].errs = ends, ![i].at = where]
        /\ journal' = [journal EXCEPT ![i].rounds = did[i].rounds, ![i].next = did[i].next,
                                      ![i].talks = did[i].talks]
    BY <1>11 DEF WindUp
  <2>2. /\ where \in {"land", "report"}
        /\ where = "land" <=> Isolated(i) /\ ~Held(ends) /\ ~cancelled
        /\ ends = child[i].errs \/ (stopped /\ ends = {"limit"})
    OBVIOUS
  <2> HIDE DEF ends, where
  <2>3. child'[i].errs = ends /\ child'[i].at = where
    BY <1>0, <2>1
  <2>4. /\ journal'[i].rounds = did[i].rounds /\ journal'[i].next = did[i].next
        /\ journal'[i].window = journal[i].window
    BY <1>0, <2>1 DEF Journal
  <2> QED BY <2>1, <2>2, <2>3, <2>4
<1>12. ASSUME LandBegin(i) PROVE Moves(i, {"land"}, {"landing"}) /\ SameErrs(i)
  BY <1>0, <1>12 DEF LandBegin, Goes
<1>13. ASSUME LandEnd(i)
      PROVE  /\ Moves(i, {"landing"}, {"report"})
             /\ \/ SameErrs(i) /\ i \in landed'
                \/ child'[i].errs = child[i].errs \cup {"land"}
  BY <1>0, <1>13 DEF LandEnd, Goes
<1>14. ASSUME Report(i) PROVE Moves(i, {"report"}, {"sent"}) /\ SameErrs(i)
  BY <1>0, <1>14 DEF Report, Goes
<1> QED BY <1>1, <1>2, <1>3, <1>4, <1>5, <1>6, <1>7, <1>8, <1>9, <1>10, <1>11, <1>12, <1>13, <1>14
        DEF Steps

(* A doomed run stays so: until then it is not cancelled while it works.    *)
LEMMA Undoomed ==
    ASSUME DelegationInv, Next, ~Doomed'
    PROVE  /\ Hopeful
           /\ disk = {} => ~cancelled /\ at # "closed"
           /\ (Receive \/ Drain \/ \E i \in Task : Skip(i) \/ Launch(i) \/ Subagent(i)) =>
                 ~cancelled /\ disk = {}
           /\ ~Drain
           /\ Crash => Running = {} /\ UNCHANGED journal
<1>0. Shapes /\ PointStands /\ Quiet /\ (~Doomed => Hopeful)
  BY DEF DelegationInv
<1>1. /\ disk # {} => at \in {"top", "over", "closed"}
      /\ resumable => disk # {}
      /\ disk # {} => Running = {}
      /\ at = "drain" => cancelled
  BY <1>0 DEF PointStands, Quiet
<1>2. Doomed => Doomed'
  <2>1. ASSUME Doomed, Top \/ Boundary PROVE Doomed'
    BY <1>1, <2>1 DEF Doomed, Top, Boundary, Return, Retire, RetireFails, LoseBoundary, saved
  <2>2. ASSUME Doomed, EndTurn PROVE Doomed'
    BY <1>1, <2>2 DEF Doomed, EndTurn, LoseBoundary, saved
  <2>3. ASSUME Doomed, \/ Admit \/ SweptOut \/ Finish \/ Receive \/ Drain
                       \/ \E i \in Task : Skip(i) \/ Launch(i)
        PROVE  Doomed'
    <3>1. UNCHANGED <<cancelled, disk>> /\ at # "closed"
      BY <2>3 DEF Admit, SweptOut, Finish, Receive, Drain, Skip, Launch, saved
    <3> QED BY <2>3, <3>1 DEF Doomed
  <2>4. ASSUME Doomed, NEW i \in Task, Subagent(i) PROVE Doomed'
    BY <1>0, <2>4, SubagentAlone DEF Doomed, SubagentOnly, schedule
  <2>5. ASSUME Doomed, Resume \/ Cancel \/ Crash \/ Closed PROVE Doomed'
    BY <1>1, <2>5 DEF Doomed, Resume, Cancel, Crash, Closed, vars, schedule, saved
  <2> QED BY <2>1, <2>2, <2>3, <2>4, <2>5 DEF Next, Scheduler
<1>3. ~Doomed
  BY <1>2
<1>4. (Receive \/ Drain \/ \E i \in Task : Skip(i) \/ Launch(i)) => disk = {}
  BY <1>1 DEF Receive, Drain, Skip, Launch
<1>5. (\E i \in Task : Subagent(i)) => disk = {}
  BY <1>0, <1>1, SubagentRuns
<1>6. ~Drain
  BY <1>1, <1>3, <1>4 DEF Drain, Doomed
<1>7. Crash => Running = {} /\ UNCHANGED journal
  <2>1. ASSUME Crash PROVE disk # {}
    BY <2>1 DEF Crash, Doomed
  <2>2. ASSUME Crash PROVE UNCHANGED journal
    BY <1>0, <2>2 DEF Crash, PointStands, Point
  <2> QED BY <1>1, <2>1, <2>2
<1> QED BY <1>0, <1>3, <1>4, <1>5, <1>6, <1>7 DEF Doomed

(* What the others leave as it was.                                         *)
LEMMA OthersStay ==
    ASSUME Shapes, NEW i \in Task, Subagent(i), NEW k \in Task \ {i}
    PROVE  child'[k] = child[k] /\ journal'[k] = journal[k] /\ did'[k] = did[k]
<1>1. PICK c : ChildIs(i, c)
  BY SubagentAlone
<1>2. PICK r : JournalIs(i, r)
  BY SubagentRecords
<1>3. PICK d \in Done : did' = [did EXCEPT ![i] = d]
  BY SubagentRecords
<1> QED BY <1>1, <1>2, <1>3 DEF ChildIs, JournalIs, Shapes

LEMMA TaskStays == ASSUME Next PROVE Task' = Task /\ plan' = plan /\ Isolating' = Isolating
                                     /\ Faults' = Faults /\ Ceiling' = Ceiling
BY SetupStays DEF Task, plan, Isolating, Faults, Ceiling

(* The scheduler and the turn move no subagent but to launch it, or to take *)
(* its report.                                                              *)
LEMMA Around ==
    ASSUME DelegationInv, Next, ~Doomed', ~Receive, ~\E i \in Task : Subagent(i)
    PROVE  /\ UNCHANGED world
           /\ \A k \in Task : \/ child'[k] = child[k]
                              \/ (child[k].at = "none" /\ child'[k].at \in {"none", "start"}
                                  /\ child'[k].errs \in {{}, child[k].errs})
           /\ \A k \in Task : /\ Resolved(k) => Resolved(k)'
                              /\ journal'[k].isolated = journal[k].isolated
                              /\ journal'[k].window = journal[k].window /\ SameNotes(k)
<1>0. Shapes
  BY DEF DelegationInv
<1>1. \A k \in Task : Resolved(k) => Resolved(k)'
  BY StatusStands, SameOutcome
<1>2. ~Drain /\ (Crash => Running = {} /\ UNCHANGED journal)
  BY Undoomed
<1> DEFINE Kids == \A k \in Task : \/ child'[k] = child[k]
                              \/ (child[k].at = "none" /\ child'[k].at \in {"none", "start"}
                                  /\ child'[k].errs \in {{}, child[k].errs})
           Notes == \A k \in Task : /\ journal'[k].isolated = journal[k].isolated
                                    /\ journal'[k].window = journal[k].window /\ SameNotes(k)
<1>3. ASSUME UNCHANGED journal PROVE Notes
  BY <1>3 DEF SameNotes
<1>4. ASSUME \/ Top \/ Admit \/ SweptOut \/ Boundary \/ Finish \/ EndTurn \/ Resume \/ Cancel \/ Closed
      PROVE  UNCHANGED <<world, child, journal>>
  BY <1>4 DEF Top, Admit, SweptOut, Boundary, Finish, EndTurn, Resume, Cancel, Closed, vars
<1>5. ASSUME NEW i \in Task, Skip(i) PROVE UNCHANGED <<world, child>> /\ Notes
  BY <1>0, <1>5, Settles DEF Skip, SameNotes
<1>6. ASSUME NEW i \in Task, Launch(i) PROVE UNCHANGED <<world, journal>> /\ Kids
  <2>1. child[i].at = "none"
    BY <1>6, PickedIdle DEF Launch
  <2> QED BY <1>0, <1>6, <2>1 DEF Launch, Shapes
<1>7. ASSUME Crash PROVE UNCHANGED <<world, journal>> /\ Kids
  BY <1>2, <1>7 DEF Crash, NoChild, Running
<1>8. ASSUME UNCHANGED child PROVE Kids
  BY <1>8
<1>9. UNCHANGED world /\ Kids /\ Notes
  <2> HIDE DEF Kids, Notes
  <2> QED BY <1>2, <1>3, <1>4, <1>5, <1>6, <1>7, <1>8 DEF Next, Scheduler
<1> QED BY <1>1, <1>9

(* A report is taken while the turn is not cancelled.                       *)
LEMMA Received ==
    ASSUME DelegationInv, Next, ~Doomed', Receive, NEW i, i = Head(finished)
    PROVE  /\ i \in Task /\ child[i].at = "sent" /\ child'[i].at = "none" /\ child'[i].errs = {}
           /\ UNCHANGED world
           /\ \A k \in Task \ {i} : child'[k] = child[k]
           /\ \A k \in Task : /\ Resolved(k) => Resolved(k)'
                              /\ journal'[k].isolated = journal[k].isolated
                              /\ journal'[k].window = journal[k].window /\ SameNotes(k)
           /\ \A k \in Task \ {i} : journal'[k].status = journal[k].status
           /\ IF Held(child[i].errs) THEN UNCHANGED journal
              ELSE Resolved(i)' /\ journal'[i].status = Classify(child[i].errs)
           /\ gate'.stopped <=> gate.stopped \/ "limit" \in child[i].errs
<1>0. Shapes /\ Reports /\ ~cancelled
  BY Undoomed DEF DelegationInv
<1>1. i \in Task /\ child[i].at = "sent" /\ child' = [child EXCEPT ![i] = NoChild] /\ UNCHANGED world
  BY <1>0, ReceivedTask DEF Receive
<1>2. /\ IF Held(child[i].errs) THEN UNCHANGED journal ELSE Settle(i, Classify(child[i].errs))
      /\ gate' = [stopped  |-> gate.stopped \/ "limit" \in child[i].errs,
                  recovery |-> gate.recovery \/ (child[i].errs # {} /\ ~Held(child[i].errs))]
  BY <1>0 DEF Receive
<1>3. gate'.stopped <=> gate.stopped \/ "limit" \in child[i].errs
  <2> DEFINE st == gate.stopped \/ "limit" \in child[i].errs
             re == gate.recovery \/ (child[i].errs # {} /\ ~Held(child[i].errs))
  <2>1. gate' = [stopped |-> st, recovery |-> re]
    BY <1>2
  <2>2. gate'.stopped = st
    <3> HIDE DEF st, re
    <3> QED BY <2>1
  <2> QED BY <2>2
<1>4. /\ child'[i].at = "none" /\ child'[i].errs = {}
      /\ \A k \in Task \ {i} : child'[k] = child[k]
  BY <1>0, <1>1 DEF Shapes, NoChild
<1>5. \A k \in Task : Resolved(k) => Resolved(k)'
  BY StatusStands, SameOutcome
<1>6. \A k \in Task : /\ journal'[k].isolated = journal[k].isolated
                      /\ journal'[k].window = journal[k].window /\ SameNotes(k)
  BY <1>0, <1>1, <1>2, Settles DEF SameNotes
<1>7. \A k \in Task \ {i} : journal'[k].status = journal[k].status
  BY <1>0, <1>1, <1>2, Settles
<1>8. ASSUME ~Held(child[i].errs)
      PROVE  Resolved(i)' /\ journal'[i].status = Classify(child[i].errs)
  <2>1. journal'[i].status = Classify(child[i].errs)
    BY <1>0, <1>1, <1>2, <1>8, Settles
  <2>2. \A e : Classify(e) \in {"incomplete", "failed", "done"}
    BY DEF Classify
  <2>3. journal'[i].status \in {"incomplete", "failed", "done"}
    BY <2>1, <2>2
  <2>4. Resolved(i)'
    BY <2>3, Zenon DEF Resolved
  <2> QED BY <2>1, <2>4
<1> QED BY <1>1, <1>2, <1>3, <1>4, <1>5, <1>6, <1>7, <1>8

Exempt == {"call", "flight", "tools", "end"}

LEMMA RecordedKept == ASSUME DelegationInv, Next, ~Doomed' PROVE Recorded'
<1>0. Shapes /\ Task' = Task
  BY TaskStays DEF DelegationInv
<1>1. \A k \in Task : child[k].at \notin Exempt =>
        journal[k].rounds = did[k].rounds /\ journal[k].next = did[k].next
  BY Undoomed DEF Hopeful, Recorded, Exempt
<1>2. SUFFICES ASSUME NEW k \in Task, child'[k].at \notin Exempt
               PROVE  journal'[k].rounds = did'[k].rounds /\ journal'[k].next = did'[k].next
  BY <1>0 DEF Recorded, Exempt
<1>3. CASE Receive
  BY <1>1, <1>2, <1>3, Received DEF world, SameNotes, Exempt
<1>4. ASSUME NEW i \in Task, Subagent(i), k # i
      PROVE  journal'[k].rounds = did'[k].rounds /\ journal'[k].next = did'[k].next
  BY <1>0, <1>1, <1>2, <1>4, OthersStay
<1>5. ASSUME Subagent(k)
      PROVE  journal'[k].rounds = did'[k].rounds /\ journal'[k].next = did'[k].next
  <2>1. Steps(k)
    BY <1>0, StepsDone
  <2>2. CASE TakeWorktree(k) \/ TakeSharedTree(k)
    <3>1. UNCHANGED did
      BY <2>2 DEF TakeWorktree, TakeSharedTree
    <3> QED BY <1>1, <2>1, <2>2, <3>1 DEF Steps, Moves, SameNotes, Exempt
  <2>3. CASE RefuseWorktree(k) \/ TakeNoTree(k) \/ LandBegin(k) \/ LandEnd(k) \/ Report(k)
    <3>1. UNCHANGED <<did, journal>>
      BY <2>3 DEF RefuseWorktree, TakeNoTree, LandBegin, LandEnd, Report, world
    <3>2. child[k].at \notin Exempt
      BY <2>1, <2>3 DEF Steps, Moves, Exempt
    <3> QED BY <1>1, <3>1, <3>2
  <2>4. CASE OpenBackend(k) \/ Send(k) \/ Reply(k) \/ HitLimit(k) \/ CallFails(k) \/ RunTools(k)
    <3>1. child'[k].at \in Exempt
      BY <2>1, <2>4 DEF Steps, Moves, Exempt
    <3> QED BY <1>2, <3>1
  <2>5. CASE WindUp(k)
    <3>1. UNCHANGED did
      BY <2>5 DEF WindUp
    <3> QED BY <2>1, <2>5, <3>1 DEF Steps
  <2> QED BY <1>5, <2>2, <2>3, <2>4, <2>5 DEF Subagent
<1>6. CASE ~Receive /\ ~\E i \in Task : Subagent(i)
  <2>1. /\ UNCHANGED did /\ SameNotes(k)
        /\ child[k].at \notin Exempt
    BY <1>2, <1>6, Around DEF world, Exempt
  <2> QED BY <1>1, <2>1 DEF SameNotes
<1> QED BY <1>3, <1>4, <1>5, <1>6

LEMMA TreesStandKept == ASSUME DelegationInv, Next, ~Doomed' PROVE TreesStand'
<1>0. Shapes /\ Task' = Task
  BY TaskStays DEF DelegationInv
<1>1. \A k \in Task : ~Resolved(k) /\ Isolated(k) =>
         k \in trees \/ (child[k].at = "sent" /\ ~Held(child[k].errs))
  BY Undoomed DEF Hopeful, TreesStand
<1>2. SUFFICES ASSUME NEW k \in Task, ~Resolved(k)', journal'[k].isolated
               PROVE  k \in trees' \/ (child'[k].at = "sent" /\ ~Held(child'[k].errs))
  BY <1>0 DEF TreesStand, Isolated, Held
<1>a. ~Resolved(k)
  BY <1>2, StatusStands, SameOutcome
<1>3. CASE Receive
  <2>1. PICK i : i = Head(finished)
    OBVIOUS
  <2>2. /\ trees' = trees /\ journal[k].isolated
        /\ i # k => child'[k] = child[k]
        /\ Resolved(i)' \/ Held(child[i].errs)
    BY <1>2, <1>3, <2>1, Received DEF world
  <2> QED BY <1>1, <1>2, <1>a, <2>2 DEF Isolated
<1>4. ASSUME NEW i \in Task, Subagent(i), k # i
      PROVE  k \in trees' \/ (child'[k].at = "sent" /\ ~Held(child'[k].errs))
  <2>1. child'[k] = child[k] /\ journal'[k] = journal[k]
    BY <1>0, <1>4, OthersStay
  <2>2. trees' = trees \/ trees' = trees \cup {i} \/ trees' = trees \ {i}
    BY <1>4 DEF Subagent, TakeWorktree, RefuseWorktree, TakeSharedTree, TakeNoTree,
       OpenBackend, Send, Reply, HitLimit, CallFails, RunTools, WindUp, LandBegin, LandEnd, Report, world
  <2> QED BY <1>1, <1>2, <1>4, <1>a, <2>1, <2>2 DEF Isolated
<1>5. ASSUME Subagent(k)
      PROVE  k \in trees' \/ (child'[k].at = "sent" /\ ~Held(child'[k].errs))
  <2>1. Steps(k) /\ child[k].at # "sent" /\ ~cancelled
    BY <1>0, <1>5, StepsDone, SubagentAlone, Undoomed DEF SubagentOnly
  <2>2. CASE TakeWorktree(k)
    BY <2>2 DEF TakeWorktree
  <2>3. CASE ~TakeWorktree(k)
    <3>1. journal[k].isolated
      BY <1>0, <1>2, <1>5, <2>3, IsolatedStays
    <3>2. k \in trees
      BY <1>1, <1>a, <2>1, <3>1 DEF Isolated
    <3>3. CASE Report(k)
      <4>1. trees' = trees \/ ~Held(child[k].errs)
        BY <2>1, <3>3 DEF Report
      <4>2. child'[k].at = "sent" /\ child'[k].errs = child[k].errs
        BY <2>1, <3>3 DEF Steps, Moves, SameErrs
      <4> QED BY <3>2, <4>1, <4>2
    <3>4. CASE ~Report(k)
      <4>1. trees' = trees
        BY <1>5, <2>3, <3>4 DEF Subagent, RefuseWorktree, TakeSharedTree, TakeNoTree,
           OpenBackend, Send, Reply, HitLimit, CallFails, RunTools, WindUp, LandBegin, LandEnd, world
      <4> QED BY <3>2, <4>1
    <3> QED BY <3>3, <3>4
  <2> QED BY <2>2, <2>3
<1>6. CASE ~Receive /\ ~\E i \in Task : Subagent(i)
  <2>1. /\ trees' = trees /\ journal[k].isolated
        /\ child'[k] = child[k] \/ child[k].at = "none"
    BY <1>2, <1>6, Around DEF world
  <2> QED BY <1>1, <1>a, <2>1 DEF Isolated
<1> QED BY <1>3, <1>4, <1>5, <1>6

LEMMA LandedOKKept == ASSUME DelegationInv, Next, ~Doomed' PROVE LandedOK'
<1>0. Shapes /\ Task' = Task
  BY TaskStays DEF DelegationInv
<1>1. \A k \in Task : child[k].at \in {"report", "sent"} /\ child[k].errs = {} /\ Isolated(k) =>
         k \in landed
  BY Undoomed DEF Hopeful, LandedOK
<1>2. SUFFICES ASSUME NEW k \in Task, child'[k].at \in {"report", "sent"}, child'[k].errs = {},
                      journal'[k].isolated
               PROVE  k \in landed'
  BY <1>0 DEF LandedOK, Isolated
<1>3. CASE Receive
  <2>1. PICK i : i = Head(finished)
    OBVIOUS
  <2>2. landed' = landed /\ journal[k].isolated /\ child'[k] = child[k]
    BY <1>2, <1>3, <2>1, Received DEF world
  <2> QED BY <1>1, <1>2, <2>2 DEF Isolated
<1>a. ASSUME NEW i \in Task, Subagent(i) PROVE landed \subseteq landed'
  BY <1>a DEF Subagent, TakeWorktree, RefuseWorktree, TakeSharedTree, TakeNoTree,
     OpenBackend, Send, Reply, HitLimit, CallFails, RunTools, WindUp, LandBegin, LandEnd, Report, world
<1>4. ASSUME NEW i \in Task, Subagent(i), k # i PROVE k \in landed'
  BY <1>0, <1>1, <1>2, <1>4, <1>a, OthersStay DEF Isolated
<1>5. ASSUME Subagent(k) PROVE k \in landed'
  <2>1. Steps(k) /\ ~cancelled
    BY <1>0, <1>5, StepsDone, Undoomed
  <2>2. ~TakeWorktree(k)
    BY <1>2, <2>1 DEF Steps, Moves
  <2>3. journal[k].isolated
    BY <1>0, <1>2, <1>5, <2>2, IsolatedStays
  <2>4. CASE Report(k)
    BY <1>1, <1>2, <1>5, <1>a, <2>1, <2>3, <2>4 DEF Steps, Moves, SameErrs, Isolated
  <2>5. CASE LandEnd(k)
    BY <1>2, <2>1, <2>5 DEF Steps
  <2>6. CASE WindUp(k)
    BY <1>2, <2>1, <2>3, <2>6 DEF Steps, Moves, Isolated, Held
  <2>7. ~(RefuseWorktree(k) \/ TakeSharedTree(k) \/ TakeNoTree(k) \/ OpenBackend(k) \/ Send(k)
          \/ Reply(k) \/ HitLimit(k) \/ CallFails(k) \/ RunTools(k) \/ LandBegin(k))
    BY <1>2, <2>1 DEF Steps, Moves
  <2> QED BY <1>5, <2>2, <2>4, <2>5, <2>6, <2>7 DEF Subagent
<1>6. CASE ~Receive /\ ~\E i \in Task : Subagent(i)
  <2>1. landed' = landed /\ journal[k].isolated /\ child'[k] = child[k]
    BY <1>2, <1>6, Around DEF world
  <2> QED BY <1>1, <1>2, <2>1 DEF Isolated
<1> QED BY <1>3, <1>4, <1>5, <1>6

LEMMA GateStays ==
    ASSUME DelegationInv, Next, ~Doomed', "limit" \notin Faults
    PROVE  ~gate'.stopped
<1>0. Shapes /\ gate \in [stopped : BOOLEAN, recovery : BOOLEAN]
  BY DEF DelegationInv, Shapes
<1>1. ~gate.stopped /\ \A k \in Task : ~Held(child[k].errs)
  BY Undoomed DEF Hopeful, Unlimited
<1>2. \A k \in Task : "limit" \notin child[k].errs
  BY <1>1 DEF Held
<1>3. CASE Receive
  BY <1>1, <1>2, <1>3, Received
<1>4. CASE Boundary
  <2>1. gate' = gate \/ gate' = [gate EXCEPT !.recovery = FALSE]
    BY <1>4 DEF Boundary
  <2> QED BY <1>0, <1>1, <2>1
<1>5. CASE Resume
  BY <1>5 DEF Resume
<1>6. CASE \/ Top \/ Admit \/ SweptOut \/ Finish \/ Drain \/ EndTurn \/ Cancel \/ Crash \/ Closed
           \/ \E i \in Task : Skip(i) \/ Launch(i)
  <2>1. gate' = gate
    BY <1>6 DEF Top, Admit, SweptOut, Finish, Drain, EndTurn, Cancel, Crash, Closed, vars, Skip,
       Launch
  <2> QED BY <1>1, <2>1
<1>7. ASSUME NEW i \in Task, Subagent(i) PROVE ~gate'.stopped
  <2>1. CASE WindUp(i)
    <3> DEFINE st == gate.stopped \/ "limit" \in child[i].errs
               re == gate.recovery \/ child[i].errs \ {"unavailable"} # {}
    <3>1. gate' = [stopped |-> st, recovery |-> re]
      BY <2>1 DEF WindUp
    <3>2. ~st
      BY <1>1, <1>2, <1>7
    <3> HIDE DEF st, re
    <3> QED BY <3>1, <3>2
  <2>2. CASE RunTools(i) \/ LandEnd(i)
    <3>1. gate' = gate \/ gate' = [gate EXCEPT !.recovery = TRUE]
      BY <2>2 DEF RunTools, LandEnd
    <3> QED BY <1>0, <1>1, <3>1
  <2>3. ~HitLimit(i)
    BY DEF HitLimit
  <2>4. CASE ~WindUp(i) /\ ~RunTools(i) /\ ~LandEnd(i)
    <3>1. gate' = gate
      BY <1>7, <2>3, <2>4 DEF Subagent, TakeWorktree, RefuseWorktree, TakeSharedTree, TakeNoTree,
         OpenBackend, Send, Reply, CallFails, LandBegin, Report
    <3> QED BY <1>1, <3>1
  <2> QED BY <2>1, <2>2, <2>4
<1> QED BY <1>3, <1>4, <1>5, <1>6, <1>7 DEF Next, Scheduler

After == {"land", "landing", "report", "sent"}

LEMMA UnlimitedKept == ASSUME DelegationInv, Next, ~Doomed' PROVE Unlimited'
<1>0. Shapes /\ Task' = Task /\ Faults' = Faults /\ \A i \in Running : ~Resolved(i)
  BY TaskStays DEF DelegationInv, StartedOnce
<1>1. SUFFICES ASSUME "limit" \notin Faults, NEW k \in Task
               PROVE  /\ ~Held(child'[k].errs)
                      /\ journal'[k].talks => Resolved(k)' \/ child'[k].at \in After
  BY <1>0, GateStays DEF Unlimited, After, Held
<1>2. /\ ~gate.stopped
      /\ \A i \in Task : /\ ~Held(child[i].errs)
                         /\ journal[i].talks => Resolved(i) \/ child[i].at \in After
  BY <1>1, Undoomed DEF Hopeful, Unlimited, After
<1>3. Resolved(k) => Resolved(k)'
  BY StatusStands, SameOutcome
<1>a. ~Held({})
  BY DEF Held
<1> DEFINE Goal == /\ ~Held(child'[k].errs)
                   /\ journal'[k].talks => Resolved(k)' \/ child'[k].at \in After
<1>4. CASE Receive
  <2>1. PICK i : i = Head(finished)
    OBVIOUS
  <2>2. CASE i = k
    BY <1>2, <1>4, <1>a, <2>1, <2>2, Received
  <2>3. CASE i # k
    BY <1>2, <1>3, <1>4, <2>1, <2>3, Received DEF SameNotes
  <2> QED BY <2>2, <2>3
<1>5. ASSUME NEW i \in Task, Subagent(i), k # i PROVE Goal
  BY <1>0, <1>2, <1>3, <1>5, OthersStay
<1>6. ASSUME Subagent(k) PROVE Goal
  <2>1. Steps(k) /\ ~Resolved(k)
    BY <1>0, <1>6, StepsDone, SubagentRuns
  <2>2. child[k].at \notin After => ~journal[k].talks
    BY <1>2, <2>1
  <2>3. CASE HitLimit(k)
    BY <1>1, <2>3 DEF HitLimit
  <2>4. CASE TakeWorktree(k) \/ TakeSharedTree(k)
    BY <1>2, <2>1, <2>2, <2>4 DEF Steps, Moves, SameErrs, SameNotes, After
  <2>5. CASE RefuseWorktree(k) \/ TakeNoTree(k) \/ OpenBackend(k) \/ Send(k) \/ Reply(k)
             \/ CallFails(k) \/ RunTools(k)
    <3>1. UNCHANGED journal
      BY <2>5 DEF RefuseWorktree, TakeNoTree, OpenBackend, Send, Reply, CallFails, RunTools
    <3>2. child[k].at \notin After
      BY <2>1, <2>5 DEF Steps, Moves, After
    <3>3. ~journal[k].talks
      BY <2>2, <3>2
    <3>4. SameErrs(k) \/ child'[k].errs \in {{"failed"}, {"rounds"}}
      BY <1>2, <2>1, <2>5, <3>3 DEF Steps
    <3>5. ~Held(child'[k].errs)
      BY <1>2, <3>4 DEF SameErrs, Held
    <3> QED BY <3>1, <3>3, <3>5
  <2>6. CASE WindUp(k)
    <3>1. "limit" \notin child[k].errs
      BY <1>2 DEF Held
    <3>2. SameErrs(k) /\ child'[k].at \in After
      BY <1>2, <2>1, <2>6, <3>1 DEF Steps, Moves, After
    <3> QED BY <1>2, <3>2 DEF SameErrs
  <2>7. CASE LandBegin(k) \/ LandEnd(k) \/ Report(k)
    <3>1. child'[k].at \in After
      BY <2>1, <2>7 DEF Steps, Moves, After
    <3>2. SameErrs(k) \/ child'[k].errs = child[k].errs \cup {"land"}
      BY <2>1, <2>7 DEF Steps
    <3>3. ~Held(child'[k].errs)
      BY <1>2, <3>2 DEF SameErrs, Held
    <3> QED BY <3>1, <3>3
  <2> QED BY <1>6, <2>3, <2>4, <2>5, <2>6, <2>7 DEF Subagent
<1>7. CASE ~Receive /\ ~\E i \in Task : Subagent(i)
  <2>1. /\ child'[k] = child[k] \/ (child[k].at = "none" /\ child'[k].errs \in {{}, child[k].errs})
        /\ journal'[k].talks = journal[k].talks
    BY <1>7, Around DEF SameNotes
  <2>2. ~Held(child'[k].errs)
    BY <1>2, <1>a, <2>1
  <2>3. child[k].at = "none" => child[k].at \notin After
    BY DEF After
  <2> QED BY <1>2, <1>3, <2>1, <2>2, <2>3
<1> QED BY <1>4, <1>5, <1>6, <1>7

LEMMA RefusedKept == ASSUME DelegationInv, Next, ~Doomed' PROVE Refused'
<1>0. Shapes /\ Task' = Task /\ plan' = plan /\ Isolating' = Isolating /\ Faults' = Faults
  BY TaskStays DEF DelegationInv
<1> DEFINE R(k, c, t) ==
             /\ Isolating /\ plan[k].writes /\ ~t /\ c \in Working \cup {"lock"} => "isolate" \in Faults
             /\ t => plan[k].writes
             /\ c = "lock" => plan[k].writes /\ ~t
             /\ c \in {"land", "landing"} => t
<1>1. \A k \in Task : R(k, child[k].at, journal[k].isolated)
  BY Undoomed DEF Hopeful, Refused, Isolated
<1>2. ASSUME \A k \in Task : R(k, child'[k].at, journal'[k].isolated) PROVE Refused'
  BY <1>0, <1>2 DEF Refused, Isolated, Working
<1> SUFFICES ASSUME NEW k \in Task PROVE R(k, child'[k].at, journal'[k].isolated)
  BY <1>2
<1>3. CASE Receive
  <2>1. PICK i : i = Head(finished)
    OBVIOUS
  <2>2. (child'[k] = child[k] \/ child'[k].at = "none") /\ journal'[k].isolated = journal[k].isolated
    BY <1>3, <2>1, Received
  <2> QED BY <1>1, <2>2 DEF Working
<1>4. ASSUME NEW i \in Task, Subagent(i), k # i PROVE R(k, child'[k].at, journal'[k].isolated)
  BY <1>0, <1>1, <1>4, OthersStay
<1>5. ASSUME Subagent(k) PROVE R(k, child'[k].at, journal'[k].isolated)
  <2>1. Steps(k) /\ ~cancelled
    BY <1>0, <1>5, StepsDone, Undoomed
  <2>2. CASE TakeWorktree(k)
    <3>1. plan[k].writes
      BY <1>1, <2>2 DEF TakeWorktree, Isolated
    <3> QED BY <2>1, <2>2, <3>1 DEF Steps, Moves
  <2>3. CASE ~TakeWorktree(k)
    <3>1. journal'[k].isolated = journal[k].isolated
      BY <1>0, <1>5, <2>3, IsolatedStays
    <3>2. CASE RefuseWorktree(k)
      <4>1. "isolate" \in Faults /\ plan[k].writes /\ ~journal[k].isolated /\ child'[k].at = "lock"
        BY <2>1, <3>2 DEF RefuseWorktree, Steps, Moves, Isolated
      <4> QED BY <3>1, <4>1
    <3>3. CASE TakeSharedTree(k)
      <4>1. child[k].at = "lock" \/ ~Isolating
        BY <3>3 DEF TakeSharedTree
      <4>2. child'[k].at = "open"
        BY <2>1, <3>3 DEF Steps, Moves
      <4> QED BY <1>1, <3>1, <4>1, <4>2
    <3>4. CASE TakeNoTree(k)
      <4>1. ~plan[k].writes /\ child'[k].at = "open"
        BY <2>1, <3>4 DEF TakeNoTree, Steps, Moves
      <4> QED BY <1>1, <3>1, <4>1
    <3>5. CASE OpenBackend(k) \/ Send(k) \/ Reply(k) \/ HitLimit(k) \/ CallFails(k) \/ RunTools(k)
      <4>1. child[k].at \in Working /\ child'[k].at \in Working
        BY <2>1, <3>5 DEF Steps, Moves, Working
      <4>2. child'[k].at \notin {"lock", "land", "landing"}
        BY <4>1 DEF Working
      <4> QED BY <1>1, <3>1, <4>1, <4>2
    <3>6. CASE WindUp(k)
      <4>1. child'[k].at \in {"land", "report"} /\ (child'[k].at = "land" => journal[k].isolated)
        BY <2>1, <3>6 DEF Steps, Moves, Isolated
      <4> QED BY <1>1, <3>1, <4>1 DEF Working
    <3>7. CASE LandBegin(k) \/ LandEnd(k) \/ Report(k)
      <4>1. /\ child'[k].at \in {"landing", "report", "sent"}
            /\ child'[k].at = "landing" => child[k].at = "land"
        BY <2>1, <3>7 DEF Steps, Moves
      <4> QED BY <1>1, <3>1, <4>1 DEF Working
    <3> QED BY <1>5, <2>3, <3>2, <3>3, <3>4, <3>5, <3>6, <3>7 DEF Subagent
  <2> QED BY <2>2, <2>3
<1>6. CASE ~Receive /\ ~\E i \in Task : Subagent(i)
  <2>1. /\ child'[k] = child[k] \/ child'[k].at \in {"none", "start"}
        /\ journal'[k].isolated = journal[k].isolated
    BY <1>6, Around
  <2> QED BY <1>1, <2>1 DEF Working
<1> QED BY <1>3, <1>4, <1>5, <1>6

LEMMA EndsOne ==
    ASSUME Shapes, NEW n, EndTask(n), ~cancelled, NEW w \in DOMAIN windows', windows'[w].open
    PROVE  w \in DOMAIN windows /\ windows[w] = windows'[w] /\ w # n
<1>1. /\ windows \in Seq(Windows) /\ Len(windows) \in Nat /\ DOMAIN windows = 1..Len(windows)
      /\ \A v \in DOMAIN windows : windows[v] \in Windows
  <2>1. windows \in Seq(Windows)
    BY DEF Shapes, Windows
  <2>2. \A v \in DOMAIN windows : windows[v] \in Windows
    BY <2>1
  <2> QED BY <2>1, <2>2
<1>2. windows' = IF n = 0 THEN windows ELSE [windows EXCEPT ![n].open = FALSE]
  BY DEF EndTask
<1>3. CASE n = 0
  BY <1>1, <1>2, <1>3
<1>4. CASE n # 0
  <2>1. windows' = [windows EXCEPT ![n].open = FALSE]
    BY <1>2, <1>4
  <2>2. w \in DOMAIN windows
    BY <2>1
  <2>3. w # n
    BY <1>1, <2>1, <2>2 DEF Windows
  <2> QED BY <2>1, <2>2, <2>3
<1> QED BY <1>3, <1>4

LEMMA TheOpenWindow ==
    ASSUME Shapes, NEW k \in Task, NEW w \in DOMAIN windows, windows[w].open, windows[w].task = k,
           \A v \in DOMAIN windows : windows[v].open /\ windows[v].task = k => v = w
    PROVE  OpenWindow(k) = w
<1>1. Len(windows) \in Nat /\ DOMAIN windows = 1..Len(windows)
  BY DEF Shapes
<1>2. {v \in 1..Len(windows) : windows[v].task = k /\ windows[v].open} = {w}
  BY <1>1
<1>3. (CHOOSE u \in {w} : \A v \in {w} : v <= u) = w
  BY <1>1
<1> QED BY <1>2, <1>3 DEF OpenWindow

LEMMA WindUpWindow ==
    ASSUME Shapes, NEW k \in Task, WindUp(k)
    PROVE  IF Isolated(k) \/ Held(child'[k].errs) THEN UNCHANGED windows
           ELSE EndTask(journal[k].window)
<1> DEFINE stopped == gate.stopped \/ "limit" \in child[k].errs
           ends == IF ~Held(child[k].errs) /\ Isolated(k) /\ stopped THEN {"limit"} ELSE child[k].errs
           where == IF Isolated(k) /\ ~Held(ends) /\ ~cancelled THEN "land" ELSE "report"
<1>1. /\ child' = [child EXCEPT ![k].errs = ends, ![k].at = where]
      /\ IF Isolated(k) \/ Held(ends) THEN UNCHANGED windows ELSE EndTask(journal[k].window)
  BY DEF WindUp
<1> HIDE DEF ends, where
<1>2. child'[k].errs = ends
  BY <1>1 DEF Shapes
<1> QED BY <1>1, <1>2

LEMMA WindowsStandKept ==
    ASSUME DelegationInv, Next, ~Doomed', Reach'
    PROVE  WindowsStand'
<1>0. /\ Shapes /\ Apart /\ Task' = Task /\ plan' = plan /\ Isolating' = Isolating /\ Faults' = Faults
      /\ Ceiling' = Ceiling
  BY TaskStays DEF DelegationInv
<1>1. Reach
  BY <1>0 DEF Reach
<1> DEFINE Holds(w, i) ==
             /\ plan[i].writes
             /\ child[i].at # "landing" => journal[i].window = w
             /\ \A v \in DOMAIN windows : windows[v].open /\ windows[v].task = i => v = w
             /\ Isolating => child[i].at = "landing" \/ (child[i].at \in Working /\ ~Isolated(i))
             /\ child[i].at \in {"report", "sent"} => Held(child[i].errs)
           Goal(w, i) ==
             /\ plan[i].writes
             /\ child'[i].at # "landing" => journal'[i].window = w
             /\ \A v \in DOMAIN windows' : windows'[v].open /\ windows'[v].task = i => v = w
             /\ Isolating => child'[i].at = "landing" \/ (child'[i].at \in Working /\ ~journal'[i].isolated)
             /\ child'[i].at \in {"report", "sent"} => Held(child'[i].errs)
<1>2. \A w \in DOMAIN windows : windows[w].open => Holds(w, windows[w].task)
  BY <1>1, Undoomed DEF Hopeful, WindowsStand
<1>3. ASSUME \A w \in DOMAIN windows' : windows'[w].open => Goal(w, windows'[w].task)
      PROVE  WindowsStand'
  BY <1>0, <1>3 DEF WindowsStand, Isolated, Held, Working
<1>4. /\ windows \in Seq(Windows) /\ windows' \in Seq(Windows) /\ Len(windows) \in Nat
      /\ DOMAIN windows = 1..Len(windows)
      /\ \A w \in DOMAIN windows' : windows'[w].task \in Task
      /\ 0 \notin DOMAIN windows
  <2>1. windows \in Seq(Windows) /\ windows' \in Seq(Windows)
    BY <1>0, ShapesKept DEF Shapes, Windows
  <2>2. \A w \in DOMAIN windows' : windows'[w] \in Windows
    BY <2>1
  <2> QED BY <2>1, <2>2 DEF Windows
<1> SUFFICES ASSUME NEW w \in DOMAIN windows', windows'[w].open, NEW k \in Task, k = windows'[w].task
             PROVE  Goal(w, k)
  BY <1>3, <1>4
<1> DEFINE Old == w \in DOMAIN windows /\ windows[w] = windows'[w]
<1>5. Old => Holds(w, k)
  BY <1>2
<1>6. ASSUME windows' = windows PROVE Holds(w, k) /\ Old
  BY <1>5, <1>6
<1>7. CASE Receive
  <2>1. PICK i : i = Head(finished)
    OBVIOUS
  <2>2. windows' = windows /\ journal'[k].window = journal[k].window
        /\ journal'[k].isolated = journal[k].isolated
    BY <1>7, <2>1, Received DEF world
  <2>3. CASE i # k
    <3>1. child'[k] = child[k]
      BY <1>7, <2>1, <2>3, Received
    <3> QED BY <1>6, <2>2, <3>1 DEF Isolated
  <2>4. CASE i = k
    <3>1. child[k].at = "sent" /\ child'[k].at = "none"
      BY <1>7, <2>1, <2>4, Received
    <3>2. ~Isolating
      BY <1>6, <2>2, <3>1 DEF Working
    <3> QED BY <1>6, <2>2, <3>1, <3>2
  <2> QED BY <2>3, <2>4
<1>8. CASE ~Receive /\ ~\E i \in Task : Subagent(i)
  <2>1. /\ windows' = windows /\ journal'[k].window = journal[k].window
        /\ journal'[k].isolated = journal[k].isolated
        /\ child'[k] = child[k] \/ (child[k].at = "none" /\ child'[k].at \in {"none", "start"})
    BY <1>8, Around DEF world
  <2>2. CASE child'[k] = child[k]
    BY <1>6, <2>1, <2>2 DEF Isolated
  <2>3. CASE child[k].at = "none" /\ child'[k].at \in {"none", "start"}
    <3>1. ~Isolating
      BY <1>6, <2>1, <2>3 DEF Working
    <3> QED BY <1>6, <2>1, <2>3, <3>1
  <2> QED BY <2>1, <2>2, <2>3
<1>9. ASSUME NEW i \in Task, Subagent(i), k # i PROVE Goal(w, k)
  <2>1. \A v \in DOMAIN windows' : windows'[v].open /\ windows'[v].task = k =>
           v \in DOMAIN windows /\ windows[v] = windows'[v]
    BY <1>0, <1>9, SubagentWindows DEF WindowsOnly
  <2>2. Holds(w, k)
    BY <1>5, <2>1
  <2>3. child'[k] = child[k] /\ journal'[k] = journal[k]
    BY <1>0, <1>9, OthersStay
  <2> QED BY <2>1, <2>2, <2>3 DEF Isolated
<1>10. ASSUME Subagent(k) PROVE Goal(w, k)
  <2>0. /\ Steps(k) /\ ~cancelled
        /\ Isolated(k) \/ child[k].at \in {"lock", "land", "landing"} => Isolating
        /\ 0 \notin Task
    BY <1>0, <1>10, StepsDone, Undoomed, PlanShape DEF Apart, Shapes
  <2>r. /\ Isolating /\ plan[k].writes /\ ~Isolated(k) /\ child[k].at \in Working => "isolate" \in Faults
        /\ Isolated(k) => plan[k].writes
        /\ child[k].at = "lock" => plan[k].writes /\ ~Isolated(k)
        /\ child[k].at \in {"land", "landing"} => Isolated(k)
    BY Undoomed DEF Hopeful, Refused
  <2>w. \A v \in DOMAIN windows' : windows'[v].open /\ windows'[v].task = k =>
          \/ v \in DOMAIN windows /\ windows[v] = windows'[v]
          \/ v = Len(windows) + 1
    BY <1>0, <1>10, SubagentWindows DEF WindowsOnly
  <2>1. ASSUME TakeWorktree(k) \/ RefuseWorktree(k) PROVE FALSE
    <3>1. windows' = windows /\ Isolating /\ child[k].at = "start"
      BY <2>1 DEF TakeWorktree, RefuseWorktree, world
    <3> QED BY <1>6, <3>1 DEF Working
  <2>2. ASSUME TakeNoTree(k) PROVE FALSE
    BY <1>6, <2>2 DEF TakeNoTree, world
  <2>3. ASSUME OpenBackend(k) \/ Send(k) \/ Reply(k) \/ HitLimit(k) \/ CallFails(k) \/ RunTools(k)
        PROVE  Goal(w, k)
    <3>1. UNCHANGED <<windows, journal>>
      BY <2>3 DEF OpenBackend, Send, Reply, HitLimit, CallFails, RunTools, world
    <3>2. child[k].at \in Working /\ child'[k].at \in Working
      BY <2>0, <2>3 DEF Steps, Moves, Working
    <3>3. child'[k].at \notin {"landing", "report", "sent"} /\ child[k].at # "landing"
      BY <3>2 DEF Working
    <3> QED BY <1>6, <3>1, <3>2, <3>3 DEF Isolated
  <2>4. ASSUME Report(k) PROVE Goal(w, k)
    <3>1. UNCHANGED <<windows, journal>>
      BY <2>4 DEF Report
    <3>2. child[k].at = "report" /\ child'[k].at = "sent" /\ child'[k].errs = child[k].errs
      BY <2>0, <2>4 DEF Steps, Moves, SameErrs
    <3>3. ~Isolating
      BY <1>6, <3>1, <3>2 DEF Working
    <3> QED BY <1>6, <3>1, <3>2, <3>3
  <2>5. ASSUME TakeSharedTree(k) PROVE Goal(w, k)
    <3>1. /\ child[k].at \in {"start", "lock"} /\ child'[k].at = "open"
          /\ child[k].at = "start" => ~Isolating /\ plan[k].writes
      BY <2>0, <2>5 DEF Steps, Moves, TakeSharedTree
    <3>2. child[k].at = "lock" => plan[k].writes /\ ~Isolated(k)
      BY <2>r
    <3>3. journal'[k].isolated = journal[k].isolated
      <4>1. ~TakeWorktree(k)
        BY <2>1
      <4> QED BY <1>0, <1>10, <4>1, IsolatedStays
    <3>4. CASE journal[k].window # 0
      <4>1. windows' = windows /\ journal' = journal
        BY <2>5, <3>4 DEF TakeSharedTree, OpensWindow
      <4>2. ~Isolating
        BY <1>6, <3>1, <4>1 DEF Working
      <4> QED BY <1>6, <3>1, <4>1, <4>2
    <3>5. CASE journal[k].window = 0
      <4>1. \A v \in DOMAIN windows : windows[v].open => windows[v].task # k
        BY <1>2, <1>4, <3>1, <3>5
      <4>2. \A v \in DOMAIN windows' : windows'[v].open /\ windows'[v].task = k => v = Len(windows) + 1
        BY <2>w, <4>1
      <4>3. journal'[k].window = Len(windows) + 1
        BY <1>0, <2>0, <2>5, <3>5 DEF TakeSharedTree, OpensWindow, Shapes
      <4> QED BY <3>1, <3>2, <3>3, <4>2, <4>3 DEF Working, Isolated
    <3> QED BY <3>4, <3>5
  <2>6. ASSUME WindUp(k) PROVE Goal(w, k)
    <3>1. /\ child[k].at = "end" /\ child'[k].at \in {"land", "report"}
          /\ child'[k].at = "land" => Isolated(k)
          /\ journal'[k].window = journal[k].window
      BY <2>0, <2>6 DEF Steps, Moves
    <3>2. CASE Isolated(k) \/ Held(child'[k].errs)
      <4>1. windows' = windows
        BY <1>0, <2>6, <3>2, WindUpWindow
      <4>2. Holds(w, k)
        BY <1>6, <4>1
      <4>3. ASSUME Isolating PROVE FALSE
        <5>1. ~Isolated(k) /\ plan[k].writes
          BY <3>1, <4>2, <4>3
        <5>2. "limit" \notin Faults
          BY <1>1, <2>r, <3>1, <4>3, <5>1 DEF Reach, Working
        <5>3. ~Held(child'[k].errs)
          BY <1>0, <5>2, UnlimitedKept DEF Unlimited, Held
        <5> QED BY <3>2, <5>1, <5>3
      <4>4. ~Isolated(k) /\ Held(child'[k].errs)
        BY <2>0, <3>2, <4>3
      <4> QED BY <3>1, <4>1, <4>2, <4>3, <4>4
    <3>3. CASE ~(Isolated(k) \/ Held(child'[k].errs))
      <4>1. EndTask(journal[k].window)
        BY <1>0, <2>6, <3>3, WindUpWindow
      <4>2. Old /\ w # journal[k].window
        BY <1>0, <2>0, <4>1, EndsOne
      <4> QED BY <1>5, <3>1, <4>2
    <3> QED BY <3>2, <3>3
  <2>7. ASSUME LandBegin(k) PROVE Goal(w, k)
    <3>1. child[k].at = "land" /\ child'[k].at = "landing" /\ Isolating /\ plan[k].writes
      BY <2>0, <2>7, <2>r DEF Steps, Moves
    <3>2. \A v \in DOMAIN windows : windows[v].open => windows[v].task # k
      BY <1>2, <3>1 DEF Working
    <3>3. \A v \in DOMAIN windows' : windows'[v].open /\ windows'[v].task = k => v = Len(windows) + 1
      BY <2>w, <3>2
    <3> QED BY <3>1, <3>3
  <2>8. ASSUME LandEnd(k) PROVE FALSE
    <3>1. EndTask(OpenWindow(k))
      BY <2>8 DEF LandEnd
    <3>2. Old /\ w # OpenWindow(k)
      BY <1>0, <2>0, <3>1, EndsOne
    <3>3. OpenWindow(k) = w
      BY <1>0, <1>5, <3>2, TheOpenWindow
    <3> QED BY <3>2, <3>3
  <2> HIDE DEF Goal
  <2> QED BY <1>10, <2>1, <2>2, <2>3, <2>4, <2>5, <2>6, <2>7, <2>8 DEF Subagent
<1> HIDE DEF Goal
<1> QED BY <1>7, <1>8, <1>9, <1>10

-----------------------------------------------------------------------------
(* Only the scheduler gives a task an outcome: one it passes over, or one   *)
(* whose report it takes in a turn that is not cancelled.                   *)
LEMMA OutcomesGiven ==
    ASSUME DelegationInv, Next, NEW k \in Task, Resolved(k)', ~Resolved(k)
    PROVE  \/ /\ Skip(k) /\ journal'[k].status \in {"blocked", "over budget"}
           \/ /\ Receive /\ k = Head(finished) /\ ~Held(child[k].errs)
              /\ ~Doomed /\ journal'[k].status = Classify(child[k].errs)
<1>0. /\ Shapes /\ PointStands /\ Reports
  BY DEF DelegationInv
<1>1. journal'[k].status # journal[k].status
  BY SameOutcome
<1>2. ASSUME \/ Top \/ Admit \/ SweptOut \/ Boundary \/ Finish \/ EndTurn \/ Resume \/ Cancel \/ Closed
             \/ Drain \/ \E i \in Task : Launch(i)
      PROVE  journal' = journal
  BY <1>2 DEF Top, Admit, SweptOut, Boundary, Finish, EndTurn, Resume, Cancel, Closed, vars, Drain,
     Launch
<1>3. Crash => journal' = journal
  BY <1>0 DEF Crash, PointStands, Point
<1>4. ASSUME NEW i \in Task, Subagent(i) PROVE FALSE
  <2>1. PICK r : JournalIs(i, r)
    BY <1>0, <1>4, SubagentRecords
  <2> QED BY <1>0, <1>1, <2>1 DEF JournalIs, Shapes
<1>5. ASSUME NEW i \in Task, Skip(i)
      PROVE  Skip(k) /\ journal'[k].status \in {"blocked", "over budget"}
  <2>1. Settle(i, IF BlockedBy(i) THEN "blocked" ELSE "over budget")
    BY <1>5 DEF Skip
  <2>2. i = k
    BY <1>0, <1>1, <2>1, Settles
  <2>3. journal'[k].status = IF BlockedBy(i) THEN "blocked" ELSE "over budget"
    BY <1>0, <2>1, <2>2, Settles
  <2> QED BY <1>5, <2>2, <2>3
<1>6. ASSUME Receive
      PROVE  /\ k = Head(finished) /\ ~Held(child[k].errs)
             /\ ~Doomed /\ journal'[k].status = Classify(child[k].errs)
  <2>1. PICK i : i = Head(finished)
    OBVIOUS
  <2>2. ~cancelled /\ ~Held(child[i].errs) /\ Settle(i, Classify(child[i].errs)) /\ at = "wait"
    BY <1>1, <1>6, <2>1 DEF Receive
  <2>3. i = k
    BY <1>0, <1>1, <1>6, <2>1, <2>2, ReceivedTask, Settles DEF Receive
  <2>4. journal'[k].status = Classify(child[k].errs)
    BY <1>0, <2>2, <2>3, Settles
  <2>5. ~Doomed
    BY <2>2 DEF Doomed
  <2> QED BY <2>1, <2>2, <2>3, <2>4, <2>5
<1> QED BY <1>1, <1>2, <1>3, <1>4, <1>5, <1>6 DEF Next, Scheduler

LEMMA WindowsClosedKept == ASSUME DelegationInv, Next PROVE OutcomeClosesWindow'
<1>0. /\ Shapes /\ Reports /\ Task' = Task /\ plan' = plan /\ Isolating' = Isolating
      /\ Faults' = Faults /\ Ceiling' = Ceiling
      /\ windows \in Seq(Windows) /\ windows' \in Seq(Windows)
  BY TaskStays, ShapesKept DEF DelegationInv, Shapes, Windows
<1>3. \A w \in DOMAIN windows' : windows'[w].task \in Task
  <2>1. \A w \in DOMAIN windows' : windows'[w] \in Windows
    BY <1>0
  <2> QED BY <2>1 DEF Windows
<1>d. DOMAIN windows' = 1..Len(windows')
  BY <1>0
<1>1. SUFFICES ASSUME Reach, NEW w \in DOMAIN windows', windows'[w].open,
                      NEW k \in Task, k = windows'[w].task
               PROVE  journal'[k].status = ""
  <2>2. SUFFICES ASSUME Reach, NEW w \in 1..Len(windows'), windows'[w].open
                 PROVE  journal'[windows'[w].task].status = ""
    <3>1. Reach <=> Reach'
      BY <1>0 DEF Reach
    <3>2. OutcomeClosesWindow' <=> (Reach' => ClosedOnEveryPath')
      BY DEF OutcomeClosesWindow, Reach
    <3>3. ClosedOnEveryPath' <=>
            \A w \in 1..Len(windows') : windows'[w].open => journal'[windows'[w].task].status = ""
      BY Zenon DEF ClosedOnEveryPath, Resolved
    <3> QED BY <3>1, <3>2, <3>3, Zenon
  <2> QED BY <1>d, <1>3, <2>2, Zenon
<1>2. k = windows'[w].task
  BY <1>1
<1>4. /\ \A v \in DOMAIN windows : windows[v].open =>
            ~Resolved(windows[v].task) /\ Tried(windows[v].task)
      /\ \A i \in Running : ~Resolved(i) /\ Tried(i)
  BY <1>0, <1>1 DEF DelegationInv, OutcomeStands, OutcomeClosesWindow, ClosedOnEveryPath, Reach,
     StartedOnce
<1>5. (w \in DOMAIN windows /\ windows[w] = windows'[w]) \/ (Subagent(k) /\ k \in Running)
  <2>1. CASE \E i \in Task : Subagent(i)
    <3>1. PICK i \in Task : Subagent(i)
      BY <2>1
    <3>2. (w \in DOMAIN windows /\ windows[w] = windows'[w]) \/ windows'[w].task = i
      BY <1>0, <1>1, <3>1, SubagentWindows DEF WindowsOnly
    <3>3. i \in Running
      BY <1>0, <3>1, SubagentRuns
    <3> QED BY <1>2, <3>1, <3>2, <3>3
  <2>2. CASE ~\E i \in Task : Subagent(i)
    <3>1. windows' = windows
      BY <2>2 DEF Next, Scheduler, Top, Admit, SweptOut, Boundary, Finish, Receive, Drain, Skip,
         Launch,
         EndTurn, Resume, Cancel, Crash, Closed, vars, world
    <3> QED BY <1>1, <3>1
  <2> QED BY <2>1, <2>2
<1>6. ~Resolved(k) /\ Tried(k)
  BY <1>1, <1>2, <1>4, <1>5
<1>7. ASSUME Resolved(k)' PROVE FALSE
  <2>1. CASE Skip(k)
    <3>1. ~BlockedBy(k) /\ Exhausted
      BY <1>6, <2>1 DEF Skip, Tried
    <3> QED BY <1>1, <3>1 DEF Exhausted, Reach
  <2>2. CASE Receive /\ k = Head(finished) /\ ~Held(child[k].errs) /\ ~Doomed
    <3>1. w \in DOMAIN windows /\ windows[w].open /\ windows[w].task = k
      <4>1. windows' = windows
        BY <2>2 DEF Receive, world
      <4> QED BY <1>1, <1>2, <4>1
    <3>2. child[k].at = "sent"
      BY <1>0, <2>2, ReceivedTask DEF Receive
    <3>3. WindowsStand
      BY <1>1, <2>2 DEF DelegationInv, Hopeful
    <3>4. Held(child[k].errs)
      BY <3>1, <3>2, <3>3 DEF WindowsStand
    <3> QED BY <2>2, <3>4
  <2>3. Skip(k) \/ (Receive /\ k = Head(finished) /\ ~Held(child[k].errs) /\ ~Doomed)
    BY <1>6, <1>7, OutcomesGiven
  <2> QED BY <2>1, <2>2, <2>3
<1> QED BY <1>7, Zenon DEF Resolved

LEMMA DoneKept == ASSUME DelegationInv, Next PROVE DoneHasLanded'
<1>0. /\ Shapes /\ Reports /\ Task' = Task /\ DoneHasLanded /\ (~Doomed => Hopeful)
      /\ \A i \in Running : ~Resolved(i)
  BY TaskStays DEF DelegationInv, OutcomeStands, StartedOnce
<1>1. SUFFICES ASSUME NEW k \in Task, journal'[k].status = "done", journal'[k].isolated
               PROVE  k \in landed'
  BY <1>0 DEF DoneHasLanded
<1>2. Resolved(k)'
  BY <1>1, Zenon DEF Resolved
<1>3. landed \subseteq landed'
  BY DEF Next, Scheduler, Top, Admit, SweptOut, Boundary, Finish, Receive, Drain, Skip, Launch,
     EndTurn, Resume, Cancel, Crash, Closed, vars, world, Subagent, TakeWorktree, RefuseWorktree,
     TakeSharedTree, TakeNoTree, OpenBackend, Send, Reply, HitLimit, CallFails, RunTools, WindUp,
     LandBegin, LandEnd, Report
<1>4. ASSUME ~Resolved(k) PROVE k \in landed'
  <2>1. PICK e : e = child[k].errs
    OBVIOUS
  <2>2. /\ Receive /\ k = Head(finished) /\ ~Held(e) /\ ~Doomed /\ Classify(e) = "done"
    BY <1>1, <1>2, <1>4, <2>1, OutcomesGiven
  <2>3. e = {}
    BY <2>2 DEF Classify
  <2>4. child[k].at = "sent"
    BY <1>0, <2>2, ReceivedTask DEF Receive
  <2>5. journal[k].isolated
    <3>1. Settle(k, Classify(e)) \/ UNCHANGED journal
      BY <2>1, <2>2 DEF Receive
    <3> QED BY <1>0, <1>1, <3>1, Settles
  <2>6. LandedOK
    BY <1>0, <2>2 DEF Hopeful
  <2> QED BY <1>3, <2>1, <2>3, <2>4, <2>5, <2>6 DEF LandedOK, Isolated
<1>5. ASSUME Resolved(k) PROVE k \in landed'
  <2>1. journal[k].status = "done"
    BY <1>1, <1>5, StatusStands
  <2>2. journal[k].isolated
    <3>1. ASSUME NEW i \in Task, Subagent(i) PROVE journal[k].isolated
      <4>1. i # k
        BY <1>0, <1>5, <3>1, SubagentRuns
      <4> QED BY <1>0, <1>1, <3>1, <4>1, OthersStay
    <3>2. ASSUME NEW i \in Task, Skip(i) PROVE journal[k].isolated
      BY <1>0, <1>1, <3>2, Settles DEF Skip
    <3>3. ASSUME Receive PROVE journal[k].isolated
      <4>1. PICK i : i = Head(finished)
        OBVIOUS
      <4>2. i \in Task
        BY <1>0, <3>3, <4>1, ReceivedTask DEF Receive
      <4>3. UNCHANGED journal \/ \E s : Settle(i, s)
        BY <3>3, <4>1 DEF Receive
      <4> QED BY <1>0, <1>1, <4>2, <4>3, Settles
    <3>4. ASSUME Crash PROVE journal[k].isolated
      <4>1. journal' = journal
        BY <3>4 DEF Crash, DelegationInv, PointStands, Point
      <4> QED BY <1>1, <4>1
    <3>5. ASSUME \/ Top \/ Admit \/ SweptOut \/ Boundary \/ Finish \/ EndTurn \/ Resume \/ Cancel
                 \/ Closed \/ Drain \/ \E i \in Task : Launch(i)
          PROVE  journal[k].isolated
      <4>1. journal' = journal
        BY <3>5 DEF Top, Admit, SweptOut, Boundary, Finish, EndTurn, Resume, Cancel, Closed, vars,
           Drain, Launch
      <4> QED BY <1>1, <4>1
    <3> QED BY <3>1, <3>2, <3>3, <3>4, <3>5 DEF Next, Scheduler
  <2> QED BY <1>0, <1>3, <2>1, <2>2 DEF DoneHasLanded
<1> QED BY <1>4, <1>5

-----------------------------------------------------------------------------
LEMMA DelegationInit == Init => DelegationInv
<1> SUFFICES ASSUME Init PROVE DelegationInv
  OBVIOUS
<1>0. /\ setup \in Setups /\ at = "top" /\ started = {} /\ writing = FALSE
      /\ gate = [stopped |-> FALSE, recovery |-> FALSE] /\ child = [i \in Task |-> NoChild]
      /\ lock = 0 /\ finished = <<>> /\ cancelled = FALSE /\ resumable = FALSE /\ disk = {}
      /\ did = [i \in Task |-> [rounds |-> 0, next |-> "call", talks |-> FALSE]]
      /\ windows = <<>> /\ landed = {}
  BY Zenon DEF Init
<1>1. /\ \A k \in Task : /\ child[k].at = "none" /\ child[k].errs = {}
                         /\ ~Isolated(k) /\ ~journal[k].talks
                         /\ journal[k].rounds = did[k].rounds /\ journal[k].next = did[k].next
      /\ Running = {}
  BY DEF Init, NoChild, Fresh, Isolated, Running
<1>2. \A k \in Task : ~Resolved(k)
  BY Zenon DEF Init, Fresh, Resolved
<1>3. Shapes
  <2>1. [status |-> "", rounds |-> 0, next |-> "call", talks |-> FALSE, isolated |-> FALSE,
         window |-> 0] \in [status : Statuses, rounds : Nat, next : Nexts, talks : BOOLEAN,
                            isolated : BOOLEAN, window : Nat]
    <3>1. "" \in Statuses
      BY Zenon DEF Statuses
    <3>2. "call" \in Nexts /\ 0 \in Nat
      BY DEF Nexts
    <3> HIDE DEF Statuses
    <3>3. ASSUME NEW s \in Statuses
          PROVE  [status |-> s, rounds |-> 0, next |-> "call", talks |-> FALSE, isolated |-> FALSE,
                  window |-> 0] \in [status : Statuses, rounds : Nat, next : Nexts, talks : BOOLEAN,
                                     isolated : BOOLEAN, window : Nat]
      BY <3>2
    <3> QED BY <3>1, <3>3, Zenon
  <2>2. journal \in [Task -> [status : Statuses, rounds : Nat, next : Nexts, talks : BOOLEAN,
                              isolated : BOOLEAN, window : Nat]]
    BY <2>1, Zenon DEF Init, Fresh
  <2>3. did \in [Task -> [rounds : Nat, next : Nexts, talks : BOOLEAN]]
    BY <1>0 DEF Nexts
  <2>4. child \in [Task -> [at : Places, errs : SUBSET Errors]]
    BY <1>0 DEF NoChild, Places
  <2>5. windows \in Seq([task : Task, open : BOOLEAN]) /\ finished \in Seq(Task)
    BY <1>0
  <2> QED BY <1>0, <2>2, <2>3, <2>4, <2>5 DEF Shapes
<1>4. PointStands /\ Reports /\ Quiet
  BY <1>0, <1>1 DEF PointStands, Reports, Quiet
<1>5. Apart
  BY <1>1 DEF Apart, InUserTree
<1>6. DOMAIN windows = {}
  BY <1>0
<1>7. StartedOnce
  BY <1>1, <1>2, <1>6 DEF StartedOnce
<1>8. Recorded /\ LandedOK /\ WindowsStand /\ TreesStand
  BY <1>1, <1>6 DEF Recorded, LandedOK, WindowsStand, TreesStand
<1>9. Unlimited
  BY <1>0, <1>1 DEF Unlimited, Held
<1>10. Refused
  BY <1>1 DEF Refused, Working
<1>11. OutcomeStands
  <2>1. ClosedOnEveryPath
    BY <1>0 DEF ClosedOnEveryPath
  <2>2. DoneHasLanded
    BY <1>1 DEF DoneHasLanded, Isolated
  <2> QED BY <2>1, <2>2 DEF OutcomeStands, OutcomeClosesWindow
<1> QED BY <1>3, <1>4, <1>5, <1>7, <1>8, <1>9, <1>10, <1>11 DEF DelegationInv, Hopeful

LEMMA DelegationStep == DelegationInv /\ [Next]_vars => DelegationInv'
<1> SUFFICES ASSUME DelegationInv, [Next]_vars PROVE DelegationInv'
  OBVIOUS
<1>0. Shapes /\ PointStands /\ Reports /\ Quiet /\ Apart /\ StartedOnce /\ (~Doomed => Hopeful)
      /\ OutcomeStands
  BY DEF DelegationInv
<1>1. CASE Next
  <2>1. ASSUME ~Doomed' PROVE Hopeful'
    BY <1>1, <2>1, RecordedKept, TreesStandKept, LandedOKKept, UnlimitedKept, RefusedKept,
       WindowsStandKept DEF Hopeful
  <2>2. OutcomeStands'
    BY <1>1, WindowsClosedKept, DoneKept DEF OutcomeStands
  <2> QED BY <1>1, <2>1, <2>2, ShapesKept, PointKept, ReportsKept, QuietKept, ApartKept, StartedOnceKept
          DEF DelegationInv
<1>2. CASE UNCHANGED vars
  <2>1. UNCHANGED <<setup, attempt, at, ret, journal, started, writing, unavailable, overBudget, gate,
                    spend, child, lock, finished, cancelled, resumable, disk, did, windows, trees, landed>>
    BY <1>2 DEF vars, schedule, saved, world
  <2>2. \A k : Resolved(k)' <=> Resolved(k)
    BY <2>1, SameOutcome
  <2>3. /\ Task' = Task /\ plan' = plan /\ Isolating' = Isolating /\ Faults' = Faults
        /\ Ceiling' = Ceiling /\ Running' = Running /\ Point' = Point /\ (Doomed' <=> Doomed)
    BY <2>1 DEF Task, plan, Isolating, Faults, Ceiling, Running, Point, Doomed
  <2>4. (Shapes /\ PointStands /\ Reports /\ Quiet)'
    <3>1. Shapes'
      BY <1>0, <2>1, <2>3 DEF Shapes
    <3>2. PointStands' /\ Reports'
      BY <1>0, <2>1, <2>3 DEF PointStands, Reports
    <3>3. Quiet'
      BY <1>0, <2>1, <2>3 DEF Quiet
    <3> QED BY <3>1, <3>2, <3>3
  <2>5. (Apart /\ StartedOnce)'
    <3>1. \A k : (Isolated(k)' <=> Isolated(k)) /\ (InUserTree(k)' <=> InUserTree(k))
      BY <2>1, <2>3 DEF InUserTree, Isolated
    <3>2. Apart'
      BY <1>0, <2>1, <2>3, <3>1 DEF Apart
    <3>3. \A k : BlockedBy(k)' <=> BlockedBy(k)
      BY <2>1, <2>3 DEF BlockedBy
    <3>4. \A k : Tried(k)' <=> Tried(k)
      BY <2>2, <2>3, <3>3 DEF Tried
    <3>5. StartedOnce'
      BY <1>0, <2>1, <2>2, <2>3, <3>4 DEF StartedOnce
    <3> QED BY <3>2, <3>5
  <2>6. Hopeful => Hopeful'
    <3>1. (Recorded => Recorded') /\ (TreesStand => TreesStand') /\ (LandedOK => LandedOK')
      BY <2>1, <2>2, <2>3 DEF Recorded, TreesStand, LandedOK, Isolated, Held
    <3>2. (Unlimited => Unlimited') /\ (Refused => Refused')
      BY <2>1, <2>2, <2>3 DEF Unlimited, Refused, Isolated, Held
    <3>3. WindowsStand => WindowsStand'
      <4>1. \A k : Isolated(k)' <=> Isolated(k)
        BY <2>1 DEF Isolated
      <4> QED BY <2>1, <2>3, <4>1 DEF WindowsStand, Held
    <3>4. Reach' => Reach
      BY <2>3 DEF Reach
    <3> QED BY <3>1, <3>2, <3>3, <3>4 DEF Hopeful
  <2>7. OutcomeStands'
    <3>1. DoneHasLanded'
      BY <1>0, <2>1, <2>3 DEF OutcomeStands, DoneHasLanded, Isolated
    <3>2. ClosedOnEveryPath => ClosedOnEveryPath'
      BY <2>1, <2>2 DEF ClosedOnEveryPath
    <3>3. OutcomeClosesWindow'
      BY <1>0, <2>3, <3>2 DEF OutcomeStands, OutcomeClosesWindow
    <3> QED BY <3>1, <3>3 DEF OutcomeStands
  <2> QED BY <1>0, <2>3, <2>4, <2>5, <2>6, <2>7 DEF DelegationInv
<1> QED BY <1>1, <1>2

THEOREM DelegationInvariant == Spec => []DelegationInv
BY DelegationInit, DelegationStep, PTL DEF Spec

(* "One working tree. Two agents editing it at once is how a run produces a *)
(* state neither of them intended": never are two subagents in the user's   *)
(* tree, and when the delegation has returned nobody is, whatever failed or *)
(* was cancelled on the way.                                                *)
THEOREM DelegationTreeIsOnes == Spec => []TreeIsOnes
<1>1. ASSUME DelegationInv PROVE TreeIsOnes
  <2>0. Shapes /\ Quiet /\ Apart
    BY <1>1 DEF DelegationInv
  <2>1. OneInUserTree
    <3> SUFFICES ASSUME NEW i \in Task, NEW j \in Task, InUserTree(i), InUserTree(j) PROVE i = j
      BY DEF OneInUserTree
    <3>1. CASE Isolating
      BY <2>0, <3>1 DEF Apart
    <3>2. CASE ~Isolating
      <4>1. child[i].at # "landing" /\ child[j].at # "landing"
        BY <2>0, <3>2 DEF Apart
      <4>2. plan[i].writes /\ plan[j].writes /\ i \in Running /\ j \in Running
        BY <4>1 DEF InUserTree, Running
      <4> QED BY <2>0, <3>2, <4>2 DEF Apart
    <3> QED BY <3>1, <3>2
  <2>2. NobodyLeftBehind
    BY <2>0 DEF Quiet, NobodyLeftBehind, Running, Shapes
  <2> QED BY <2>1, <2>2 DEF TreeIsOnes
<1> QED BY <1>1, DelegationInvariant, PTL

(* A saved run starts again from exactly the rounds its tasks have done and *)
(* the money they have cost, with nobody at work, and with the worktree of  *)
(* every task that has no outcome.                                          *)
THEOREM DelegationResumesFromWork == Spec => []ResumesFromWork
<1>1. ASSUME DelegationInv PROVE ResumesFromWork
  <2>1. SUFFICES ASSUME NEW p \in disk
                 PROVE  /\ Running = {} /\ p.spend = spend
                        /\ \A i \in Task : /\ p.journal[i].rounds = did[i].rounds
                                           /\ p.journal[i].next = did[i].next
                        /\ \A i \in Task : ~Resolved(i) /\ p.journal[i].isolated => i \in trees
    <3>1. \A q \in disk : q.journal = journal
      BY <1>1 DEF DelegationInv, PointStands, Point
    <3>2. PointIsTheWork
      BY <2>1 DEF PointIsTheWork
    <3>3. WorktreesKept
      BY <2>1, <3>1, Zenon DEF WorktreesKept, Resolved
    <3> QED BY <3>2, <3>3 DEF ResumesFromWork
  <2>2. p.journal = journal /\ p.spend = spend /\ Running = {} /\ ~Doomed
    BY <1>1 DEF DelegationInv, PointStands, Point, Quiet, Doomed
  <2>3. \A i \in Task : child[i].at = "none"
    BY <2>2 DEF Running
  <2>4. Recorded /\ TreesStand
    BY <1>1, <2>2 DEF DelegationInv, Hopeful
  <2> QED BY <2>2, <2>3, <2>4 DEF Recorded, TreesStand, Isolated
<1> QED BY <1>1, DelegationInvariant, PTL

(* "Closed on every path out": a task with an outcome has its window        *)
(* closed, so that what it changed can be taken back, where nothing costs   *)
(* money and no task that was refused a worktree is paused; and one that    *)
(* counts as done, and whose worktree was taken back, has landed.           *)
THEOREM DelegationOutcomeStands == Spec => []OutcomeStands
<1>1. DelegationInv => OutcomeStands
  BY DEF DelegationInv
<1> QED BY <1>1, DelegationInvariant, PTL

=============================================================================
