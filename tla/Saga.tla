-------------------------------- MODULE Saga --------------------------------
(***************************************************************************)
(* A saga: a goal worked chapter by chapter, one bounded wake at a time    *)
(* (internal/engine/saga_executor.go, saga_lifecycle.go,                   *)
(* chapter_verify.go, saga_ports.go, saga_artifact.go).                    *)
(*                                                                         *)
(* A wake reads SAGA.md, takes the first unfinished chapter or plans one,  *)
(* marks the tree, records that the chapter is executing, lets the worker  *)
(* change files, runs the quality gates, and commits the chapter or rolls  *)
(* the tree back to the mark.  Everything it decides is in memory until    *)
(* SAGA.md is written, and SAGA.md is itself a file of the repository: it  *)
(* rides with every chapter's commit.                                      *)
(*                                                                         *)
(* The repository is git's three trees.  The content of a file is the set  *)
(* of those who have changed it (the original, the user, the worker of each *)
(* wake), and the content of SAGA.md the state it holds.  The money and    *)
(* the clock of the budget are abstracted to whether they have run out,    *)
(* the planner to what it answers, the gates to what they say.             *)
(***************************************************************************)
EXTENDS Integers, Sequences, SequencesExt, FiniteSets

CONSTANTS
    Tracked,      \* files of the repository when the saga starts
    Others,       \* paths where there is no file yet
    MaxChapters,  \* SagaState.MaxChapters
    MaxStrikes,   \* SagaState.MaxStrikes
    Faults,       \* bound of the model: what may go wrong
    UserMoves,    \* bound of the model: what the user does between wakes
    MaxFaults,    \* bound of the model: how many kinds of fault a behaviour has
    MaxKinds,     \* bound of the model: and how many faults and moves together
    MaxWakes      \* bound of the model: wakes

Files == Tracked \cup Others
Artifact == "SAGA.md"
Path == Files \cup {Artifact}

FaultKinds == {"crash", "cancel", "work", "gates", "git", "mark", "save"}

ASSUME PathsAssumption == Tracked \cap Others = {} /\ Artifact \notin Files
ASSUME BudgetAssumption ==
    MaxChapters \in Nat /\ MaxStrikes \in Nat \ {0} /\ MaxWakes \in Nat
ASSUME FaultsAssumption ==
    Faults \subseteq FaultKinds /\ UserMoves \subseteq {"edit", "commit"}

VARIABLES
    world,      \* which of Faults and UserMoves this behaviour has
    head,       \* the files of HEAD
    revision,   \* which commit HEAD is
    index,      \* the files of git's index
    tree,       \* the files of the worktree; tree[Artifact] is SAGA.md on disk
    objects,    \* the snapshots git stash create has made
    mem,        \* the SagaState of the running wake
    active,     \* the index of its chapter
    at,         \* where the wake is
    after,      \* what its rollback is for: retry or fail
    cancelled,  \* the wake's context is done
    wakes,      \* history: wakes begun, which is the name of each wake's work
    commits,    \* history: the chapters' commits, [wake, added]
    touched,    \* history: the files the user has changed
    undone      \* history: the trees have been taken back to a mark

trees   == <<head, revision, index, tree, objects>>
running == <<mem, active, at, after, cancelled>>
history == <<wakes, commits, touched, undone>>
vars    == <<world, trees, running, history>>

-----------------------------------------------------------------------------
(* What git says of the three trees.                                        *)

Original == 0
User     == -1
None     == {}

InIndex   == {p \in Path : index[p] # None}
Untracked == {p \in Path : index[p] = None /\ tree[p] # None}

(* The worktree's content of the files git tracks.                          *)
Worktree == [p \in Path |-> IF p \in InIndex THEN tree[p] ELSE None]

NoMark == [taken |-> FALSE, snapshot |-> 0, untracked |-> {}, head |-> 0]

(* What a mark restores and compares with: its snapshot, or HEAD.           *)
BaseOf(mark) == IF mark.snapshot = 0 THEN head ELSE objects[mark.snapshot]

OverDirtyTree(mark) == mark.snapshot # 0 \/ mark.untracked # {}

ChapterPaths(mark) ==
    {p \in Path : Worktree[p] # BaseOf(mark)[p]} \cup (Untracked \ mark.untracked)

-----------------------------------------------------------------------------
(* The saga's state.                                                        *)

Planned == [status |-> "pending", mark |-> NoMark]
Fresh   == [status |-> "in-progress", strikes |-> 0, chapters |-> <<>>]

Saved == CHOOSE s \in tree[Artifact] : TRUE
Terminal(s) == s.status \in {"completed", "blocked"}

Unfinished(s)  == {i \in 1..Len(s.chapters) : s.chapters[i].status # "completed"}
NextChapter(s) == CHOOSE i \in Unfinished(s) : \A j \in Unfinished(s) : i <= j

Chapter == mem.chapters[active]
Mark    == Chapter.mark

InStatus(status) == [mem EXCEPT !.chapters[active].status = status]

(* RecordGateFailure and RecordChapterSuccess.                              *)
Failed == [InStatus("failed") EXCEPT
              !.strikes = @ + 1,
              !.status  = IF mem.strikes + 1 >= MaxStrikes THEN "blocked" ELSE @]
Done   == [InStatus("completed") EXCEPT !.strikes = 0]

Fault(kind) == kind \in world
GitMayFail  == Fault("git") \/ cancelled

Goes(where) == at' = where
Ends == at' = "idle" /\ mem' = Fresh /\ active' = 0 /\ after' = "" /\ cancelled' = FALSE

(* What a failure of the chapter comes to: a strike, or nothing when it was *)
(* the user who stopped it.                                                 *)
Fails == Goes("record") /\ mem' = IF cancelled THEN InStatus("executing") ELSE Failed

-----------------------------------------------------------------------------
(* A wake takes up a chapter.                                               *)

(* openSaga: SAGA.md as it is, or a new one.                                *)
Wake ==
    /\ at = "idle" /\ wakes < MaxWakes
    /\ \/ tree[Artifact] = None /\ mem' = Fresh /\ tree' = [tree EXCEPT ![Artifact] = {Fresh}]
       \/ tree[Artifact] # None /\ ~Terminal(Saved) /\ mem' = Saved /\ UNCHANGED tree
    /\ Goes("choose")
    /\ wakes' = wakes + 1
    /\ UNCHANGED <<head, revision, index, objects, active, after, cancelled, commits, touched, undone>>

(* The user, the budget or a planner that fails stops it before any work.   *)
Stop ==
    /\ at = "choose" /\ Ends
    /\ UNCHANGED <<trees, history>>

MayWork == at = "choose" /\ ~cancelled /\ Len(mem.chapters) < MaxChapters

TakeUp ==
    /\ MayWork /\ Unfinished(mem) # {}
    /\ active' = NextChapter(mem)
    /\ Goes("start")
    /\ UNCHANGED <<trees, mem, after, cancelled, history>>

Plan ==
    /\ MayWork /\ Unfinished(mem) = {}
    /\ mem' = [mem EXCEPT !.chapters = Append(@, Planned)]
    /\ active' = Len(mem.chapters) + 1
    /\ Goes("start")
    /\ UNCHANGED <<trees, after, cancelled, history>>

GoalMet ==
    /\ MayWork /\ Unfinished(mem) = {}
    /\ \/ tree' = [tree EXCEPT ![Artifact] = {[mem EXCEPT !.status = "completed"]}]
       \/ Fault("save") /\ UNCHANGED tree
    /\ Ends
    /\ UNCHANGED <<head, revision, index, objects, history>>

(* Mutant: a commit whose record was lost is not noticed.                   *)
HeadStands == FALSE

HeadMoved == Mark.taken /\ Mark.head # revision

(* A chapter found executing goes back to its mark, unless it has been      *)
(* committed and only the record of it was lost.                            *)
Start ==
    /\ at = "start"
    /\ IF Chapter.status = "executing" /\ ~HeadMoved
       THEN Goes("checkout") /\ after' = "retry"
       ELSE Goes("mark") /\ UNCHANGED after
    /\ UNCHANGED <<trees, mem, active, cancelled, history>>

(* HEAD cannot be read.                                                     *)
StartFails ==
    /\ at = "start" /\ Chapter.status = "executing" /\ Mark.taken /\ GitMayFail
    /\ Ends
    /\ UNCHANGED <<trees, history>>

(* Mutant: the user's own files are not in the mark.                        *)
MarkNothing == [taken |-> TRUE, snapshot |-> 0, untracked |-> {}, head |-> revision]

TakenMark ==
    [taken     |-> TRUE,
     snapshot  |-> IF Worktree = head /\ index = head THEN 0 ELSE Len(objects'),
     untracked |-> Untracked,
     head      |-> revision]

(* advanceToExecuting and MarkChapter.  A mark that cannot be taken leaves  *)
(* the one the chapter had.                                                 *)
MarkTree ==
    /\ at = "mark"
    /\ \/ /\ ~cancelled
          /\ objects' = IF Worktree = head /\ index = head THEN objects ELSE Append(objects, Worktree)
          /\ mem' = [InStatus("executing") EXCEPT !.chapters[active].mark = TakenMark]
       \/ /\ Fault("mark") \/ cancelled
          /\ mem' = InStatus("executing")
          /\ UNCHANGED objects
    /\ Goes("save")
    /\ UNCHANGED <<head, revision, index, tree, active, after, cancelled, history>>

(* Mutant: the worker starts although it could not be saved.                *)
StartUnsaved ==
    /\ at = "save"
    /\ Goes("work")
    /\ UNCHANGED <<trees, mem, active, after, cancelled, history>>

(* The worker starts only once SAGA.md says that the chapter is executing.  *)
SaveStart ==
    /\ at = "save"
    /\ tree' = [tree EXCEPT ![Artifact] = {mem}]
    /\ Goes("work")
    /\ UNCHANGED <<head, revision, index, objects, mem, active, after, cancelled, history>>

SaveFails ==
    /\ at = "save" /\ Fault("save") /\ Ends
    /\ UNCHANGED <<trees, history>>

-----------------------------------------------------------------------------
(* The worker and the gates.                                                *)

(* The worker, or its repair turn, changes a file.                          *)
Edit(p) ==
    /\ at \in {"work", "repair"} /\ ~cancelled
    /\ wakes \notin tree[p]
    /\ tree' = [tree EXCEPT ![p] = @ \cup {wakes}]
    /\ UNCHANGED <<head, revision, index, objects, running, history>>

(* A turn that is cancelled, or whose error is a deadline, leaves its       *)
(* chapter executing; one that failed is a strike and is not verified.      *)
Worked ==
    /\ at = "work"
    /\ \/ ~cancelled /\ Goes("verify") /\ UNCHANGED mem
       \/ (cancelled \/ Fault("work")) /\ Fails
       \/ Fault("work") /\ Goes("record") /\ mem' = InStatus("executing")
    /\ UNCHANGED <<trees, active, after, cancelled, history>>

HasChanges ==
    IF OverDirtyTree(Mark) THEN ChapterPaths(Mark) # {}
    ELSE index # head \/ tree # index

Verify ==
    /\ at = "verify"
    /\ \/ ~cancelled /\ HasChanges /\ Goes("gates") /\ UNCHANGED mem
       \/ ~cancelled /\ ~HasChanges /\ Goes("record") /\ mem' = Done
       \/ GitMayFail /\ Fails
    /\ UNCHANGED <<trees, active, after, cancelled, history>>

(* One repair turn answers gates that fail, and the gates run again.        *)
RunGates ==
    /\ at = "gates"
    /\ \/ ~cancelled /\ Goes("commit") /\ UNCHANGED mem
       \/ ~cancelled /\ Fault("gates") /\ Goes("repair") /\ UNCHANGED mem
       \/ cancelled /\ Fails
    /\ UNCHANGED <<trees, active, after, cancelled, history>>

Repaired ==
    /\ at = "repair"
    /\ \/ ~cancelled /\ Goes("commit") /\ UNCHANGED <<mem, after>>
       \/ ~cancelled /\ Goes("checkout") /\ after' = "fail" /\ UNCHANGED mem
       \/ cancelled /\ Fails /\ UNCHANGED after
    /\ UNCHANGED <<trees, active, cancelled, history>>

-----------------------------------------------------------------------------
(* CommitChapter: git add and git commit.                                   *)

(* Mutant: everything in the tree is the chapter's.                         *)
OwnsAll == Path

Owned == IF OverDirtyTree(Mark) THEN ChapterPaths(Mark) \cup {Artifact} ELSE Path

Stage ==
    /\ at = "commit"
    /\ \/ /\ ~cancelled
          /\ index' = [p \in Path |-> IF p \in Owned THEN tree[p] ELSE index[p]]
          /\ Goes("stage") /\ UNCHANGED mem
       \/ GitMayFail /\ Fails /\ UNCHANGED index
    /\ UNCHANGED <<head, revision, tree, objects, active, after, cancelled, history>>

Commit ==
    /\ at = "stage" /\ ~cancelled /\ index # head
    /\ head' = index /\ revision' = revision + 1
    /\ commits' = Append(commits, [wake |-> wakes, added |-> [p \in Files |-> index[p] \ head[p]]])
    /\ Goes("committed")
    /\ UNCHANGED <<index, tree, objects, mem, active, after, cancelled, wakes, touched, undone>>

(* The commit is made; its name may still not be had.                       *)
Committed ==
    /\ at = "committed"
    /\ \/ ~cancelled /\ Goes("record") /\ mem' = Done
       \/ GitMayFail /\ Fails
    /\ UNCHANGED <<trees, active, after, cancelled, history>>

CommitFails ==
    /\ at = "stage" /\ (GitMayFail \/ index = head)
    /\ Fails
    /\ UNCHANGED <<trees, active, after, cancelled, history>>

-----------------------------------------------------------------------------
(* RollbackChapter, command by command.                                     *)

RolledBack ==
    IF after = "retry" THEN Goes("mark") /\ UNCHANGED mem
    ELSE Goes("record") /\ mem' = Failed

(* git checkout <base> -- . : worktree and index, SAGA.md included.         *)
Restored(now, base) == [p \in Path |-> IF base[p] # None THEN base[p] ELSE now[p]]

Checkout ==
    /\ at = "checkout" /\ ~cancelled
    /\ LET base == BaseOf(Mark)
       IN  tree' = Restored(tree, base) /\ index' = Restored(index, base)
    /\ undone' = TRUE
    /\ IF Mark.taken THEN Goes("unstage") /\ UNCHANGED mem ELSE RolledBack
    /\ UNCHANGED <<head, revision, objects, active, after, cancelled, wakes, commits, touched>>

Without(files, gone) == [p \in Path |-> IF p \in gone THEN None ELSE files[p]]

(* git rm --cached and rm of what the chapter added to the index.           *)
Unstage ==
    /\ at = "unstage" /\ ~cancelled
    /\ LET added == {p \in InIndex : BaseOf(Mark)[p] = None} \ {Artifact}
       IN  tree' = Without(tree, added) /\ index' = Without(index, added)
    /\ Goes("clean")
    /\ UNCHANGED <<head, revision, objects, mem, active, after, cancelled, history>>

Created == (Untracked \ Mark.untracked) \ {Artifact}

(* rm of the untracked files that were not there at the mark.               *)
Clean ==
    /\ at = "clean" /\ ~cancelled
    /\ tree' = Without(tree, Created)
    /\ RolledBack
    /\ UNCHANGED <<head, revision, index, objects, active, after, cancelled, history>>

RollbackFails ==
    /\ at \in {"checkout", "unstage", "clean"} /\ GitMayFail
    /\ IF after = "retry" THEN Ends
       ELSE Fails /\ UNCHANGED <<active, after, cancelled>>
    /\ UNCHANGED <<trees, history>>

-----------------------------------------------------------------------------
(* The end of the wake, the user between two wakes, and the end of the      *)
(* process.                                                                 *)

Record ==
    /\ at = "record"
    /\ \/ tree' = [tree EXCEPT ![Artifact] = {mem}]
       \/ Fault("save") /\ UNCHANGED tree
    /\ Ends
    /\ UNCHANGED <<head, revision, index, objects, history>>

Cancel ==
    /\ Fault("cancel") /\ at # "idle" /\ ~cancelled
    /\ cancelled' = TRUE
    /\ UNCHANGED <<trees, mem, active, at, after, history>>

Crash ==
    /\ Fault("crash") /\ at # "idle" /\ Ends
    /\ UNCHANGED <<trees, history>>

InFlight ==
    /\ tree[Artifact] # None
    /\ \E i \in 1..Len(Saved.chapters) : Saved.chapters[i].status = "executing"

(* Bound of the model: the user leaves the tree alone while a stopped       *)
(* chapter waits for its retry, whose rollback goes back to before that.    *)
UserEdits(p) ==
    /\ "edit" \in world /\ at = "idle" /\ p \notin touched
    /\ ~InFlight
    /\ tree' = [tree EXCEPT ![p] = @ \cup {User}]
    /\ touched' = touched \cup {p}
    /\ UNCHANGED <<head, revision, index, objects, running, wakes, commits, undone>>

(* git commit -a, by the user.                                              *)
UserCommits ==
    /\ "commit" \in world /\ at = "idle"
    /\ Worktree # head
    /\ index' = Worktree /\ head' = Worktree
    /\ revision' = revision + 1
    /\ UNCHANGED <<tree, objects, running, history>>

Idle == at = "idle" /\ UNCHANGED vars

Init ==
    /\ world \in {W \in SUBSET (Faults \cup UserMoves) :
                     Cardinality(W \cap Faults) <= MaxFaults /\ Cardinality(W) <= MaxKinds}
    /\ head = [p \in Path |-> IF p \in Tracked THEN {Original} ELSE None]
    /\ index = head /\ tree = head
    /\ revision = 1 /\ objects = <<>>
    /\ mem = Fresh /\ active = 0 /\ at = "idle" /\ after = "" /\ cancelled = FALSE
    /\ wakes = 0 /\ commits = <<>> /\ touched = {} /\ undone = FALSE

Runner ==
    \/ Stop \/ TakeUp \/ Plan \/ GoalMet \/ Start \/ StartFails \/ MarkTree \/ SaveStart \/ SaveFails
    \/ Worked \/ Verify \/ RunGates \/ Repaired \/ Stage \/ Commit \/ Committed \/ CommitFails
    \/ Checkout \/ Unstage \/ Clean \/ RollbackFails \/ Record

Next ==
    /\ \/ Wake \/ Runner
       \/ \E p \in Files : Edit(p) \/ UserEdits(p)
       \/ UserCommits \/ Cancel \/ Crash
       \/ Idle
    /\ UNCHANGED world

Spec == Init /\ [][Next]_vars

-----------------------------------------------------------------------------
(* Properties.                                                              *)

(* The type invariant.                                                      *)
TypeOK ==
    /\ at \in {"idle", "choose", "start", "mark", "save", "work", "verify", "gates", "repair",
              "commit", "stage", "committed", "checkout", "unstage", "clean", "record"}
    /\ after \in {"", "retry", "fail"}
    /\ \A p \in Files : head[p] \cup index[p] \cup tree[p] \subseteq {User} \cup 0..wakes
    /\ Cardinality(tree[Artifact]) <= 1
    /\ mem.strikes \in 0..MaxStrikes
    /\ Len(mem.chapters) <= MaxChapters /\ active \in 0..Len(mem.chapters)
    /\ \A i \in 1..Len(mem.chapters) :
          /\ mem.chapters[i].status \in {"pending", "executing", "failed", "completed"}
          /\ mem.chapters[i].mark.snapshot \in 0..Len(objects)

(* RollbackChapter "does the one thing that cannot destroy the user's       *)
(* files": what the user has changed is in the worktree, whatever wakes,    *)
(* rollbacks, stops and commits came since.                                 *)
EditsSurvive == \A p \in touched : User \in tree[p]

(* "so the user's own uncommitted work survives it": the same, when every   *)
(* chapter could be marked as it began.                                     *)
UserWorkKept == world \cap {"mark", "cancel"} = {} => EditsSurvive

(* "a resume whose HEAD moved does not revert committed work": what has     *)
(* been committed, by a chapter or by the user, is in the worktree.         *)
CommittedStands == "mark" \notin world => \A p \in Files : head[p] \subseteq tree[p]

(* "no abandoned work in any later commit": a chapter's commit holds the    *)
(* work of the wake it was made in and of no other.  (A worker or a git     *)
(* command that fails leaves its work in the tree, and the next mark takes  *)
(* it for the user's.)                                                      *)
AbandonedNeverCommitted ==
    world \cap {"mark", "work", "git"} = {} =>
        \A n \in 1..Len(commits) : \A p \in Files :
            commits[n].added[p] \cap 1..wakes \subseteq {commits[n].wake}

(* No file with the user's changes is in it that the chapter did not change.*)
(* (A rollback, or a commit that fails, leaves the user's changes in the    *)
(* index, and the next commit takes them along.)                            *)
UserNeverCommitted ==
    world \cap {"mark", "git"} = {} /\ ~undone =>
        \A n \in 1..Len(commits) : \A p \in Files :
            User \in commits[n].added[p] => commits[n].wake \in commits[n].added[p]

(* "A chapter commit holds only the chapter's changes and the artifact."    *)
OnlyTheChapter == AbandonedNeverCommitted /\ UserNeverCommitted
=============================================================================
