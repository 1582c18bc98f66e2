-------------------------------- MODULE Undo --------------------------------
(***************************************************************************)
(* Taking work back: internal/checkpoint, /undo and /undo task.            *)
(*                                                                         *)
(* A session captures a turn in one of two ways: a copy of each file before*)
(* a file tool writes it, or a snapshot of the whole tree, in a git store  *)
(* of its own, at the start of the turn and of each task that writes.  The *)
(* index of both is the manifest.  /undo puts the files of the last        *)
(* captured turn back and removes the last thing the person said and all   *)
(* that follows it; /undo task puts back the files of one task.            *)
(*                                                                         *)
(* The contents of a file are who wrote it, in order: each write is on top *)
(* of the earlier ones, and a file that nobody wrote is absent.            *)
(***************************************************************************)
EXTENDS Integers, Sequences, FiniteSets, FiniteSetsExt, SequencesExt

CONSTANTS
    Files,     \* the files of the project
    MaxTurns,  \* bound of the model: turns
    MaxTasks,  \* bound of the model: tasks that write
    MaxPauses, \* bound of the model: pauses
    MaxWrites, \* bound of the model: writes of file tools
    Faults,    \* bound of the model: what may go wrong
    MaxFaults  \* bound of the model: faults of a behaviour

Mishaps == {"snapshot", "git", "disk", "restart", "crash", "link", "outside"}

ASSUME BoundsAssumption == {MaxTurns, MaxTasks, MaxPauses, MaxWrites, MaxFaults} \subseteq Nat
ASSUME FaultsAssumption == Faults \subseteq Mishaps
ASSUME FilesAssumption == IsFiniteSet(Files) /\ Files # {}

VARIABLES
    tree,     \* the files of the project
    linked,   \* the files whose path is a link, for now
    git,      \* the project is a repository and git runs
    store,    \* Store: turn, seq, entries, snapshots and tasks
    shadow,   \* Store.shadow is attached
    manifest, \* the store as manifest.json has it
    backups,  \* the backup files: by number, the contents
    conv,     \* what the person said, and the notes of /undo task
    at,       \* where the session is: idle, begun, turn
    open,     \* the last request is unfinished
    task,     \* the task that writes now, by its handle
    parked,   \* the tasks that were paused
    now,      \* history: the number of the turn
    pauses,   \* bound of the model: pauses so far
    wrote,    \* bound of the model: writes of file tools so far
    faults    \* bound of the model: faults so far

capture == <<store, shadow, manifest, backups>>
vars == <<tree, linked, git, capture, conv, at, open, task, parked, now, pauses, wrote, faults>>
world == <<linked, git>>
talk == <<conv, at, open>>
tasking == <<task, parked>>
count == <<now, pauses, wrote>>

-----------------------------------------------------------------------------
None == 0
Mark(turn, h) == [turn |-> turn, task |-> h]
Outsider == Mark(0, None)

Entry(seq, turn, f) == [seq |-> seq, turn |-> turn, by |-> now, path |-> f, existed |-> tree[f] # <<>>]
TaskSnapshot(turn) == [turn |-> turn, commit |-> tree, paths |-> {}, consumed |-> FALSE]
Blank == [turn |-> 0, seq |-> 0, entries |-> <<>>, snapshots |-> <<>>, tasks |-> <<>>]

(* snapshots is a map from turns; here a sequence of <<turn, commit>>.      *)
SnapshotOf(turn) == SelectSeq(store.snapshots, LAMBDA p : p.turn = turn)
Without(turn)    == SelectSeq(store.snapshots, LAMBDA p : p.turn # turn)

Fault(kind) == kind \in Faults /\ faults < MaxFaults /\ faults' = faults + 1

(* saveManifest: atomic, or it fails and the old one stays.                 *)
Saved(s)  == store' = s /\ manifest' = s /\ UNCHANGED faults
Unsaved(s) == store' = s /\ Fault("disk") /\ UNCHANGED manifest

-----------------------------------------------------------------------------
(* A turn.                                                                  *)

(* BeginTurn.  A snapshot that cannot be taken, or whose index cannot be    *)
(* written, costs the session its snapshots; without them the number of the *)
(* turn is saved with its first record.                                     *)
BeginTurn ==
    /\ at = "idle" /\ ~open /\ now < MaxTurns
    /\ now' = now + 1 /\ UNCHANGED <<pauses, wrote>>
    /\ LET begun == [store EXCEPT !.turn = @ + 1]
           taken == [begun EXCEPT !.snapshots =
                        Append(@, [turn |-> begun.turn, by |-> now', commit |-> tree])] IN
       \/ ~shadow /\ store' = begun /\ UNCHANGED <<shadow, manifest, faults>>
       \/ shadow /\ Saved(taken) /\ UNCHANGED shadow
       \/ shadow /\ Fault("snapshot") /\ store' = begun /\ shadow' = FALSE /\ UNCHANGED manifest
    /\ at' = "begun" /\ open' = TRUE
    /\ UNCHANGED <<tree, world, backups, conv, tasking>>

Say ==
    /\ at = "begun"
    /\ conv' = Append(conv, now) /\ at' = "turn"
    /\ UNCHANGED <<tree, world, capture, open, tasking, count, faults>>

Resume ==
    /\ at = "idle" /\ open
    /\ at' = "turn"
    /\ UNCHANGED <<tree, world, capture, conv, open, tasking, count, faults>>

Discard ==
    /\ at = "idle" /\ open
    /\ open' = FALSE /\ parked' = {}
    /\ UNCHANGED <<tree, world, capture, conv, at, task, count, faults>>

(* A file tool: Record, and then the write.  Under snapshots nothing is     *)
(* recorded; a record that fails refuses the write.                         *)
Writes(f) == tree' = [tree EXCEPT ![f] = Append(@, Mark(now, task))]
Backup(f, seq) ==
    IF tree[f] = <<>> THEN UNCHANGED backups ELSE backups' = (seq :> tree[f]) @@ backups

Record(f, seq) ==
    LET counted == [store EXCEPT !.seq = seq]
        noted   == [counted EXCEPT !.entries = Append(@, Entry(seq, store.turn, f))] IN
    \/ Backup(f, seq) /\ Saved(noted) /\ Writes(f)
    \/ Backup(f, seq) /\ Unsaved(noted) /\ UNCHANGED tree
    \/ /\ tree[f] # <<>> /\ Unsaved(counted)
       /\ UNCHANGED <<tree, backups>>

Write(f) ==
    /\ at = "turn" /\ f \notin linked /\ wrote < MaxWrites
    /\ wrote' = wrote + 1
    /\ IF shadow THEN Writes(f) /\ UNCHANGED <<store, manifest, backups, faults>>
       ELSE Record(f, store.seq + 1)
    /\ UNCHANGED <<world, shadow, talk, tasking, now, pauses>>

(* What nobody records: the person's editor, and the commands of bash.      *)
WriteOutside(f) ==
    /\ Fault("outside")
    /\ tree' = [tree EXCEPT ![f] = Append(@, Outsider)]
    /\ UNCHANGED <<world, capture, talk, tasking, count>>

Link(f) ==
    /\ \/ f \notin linked /\ Fault("link") /\ linked' = linked \cup {f}
       \/ f \in linked /\ linked' = linked \ {f} /\ UNCHANGED faults
    /\ UNCHANGED <<tree, git, capture, talk, tasking, count>>

TurnEnds ==
    /\ at = "turn" /\ task = None /\ parked = {}
    /\ at' = "idle" /\ open' = FALSE
    /\ UNCHANGED <<tree, world, capture, conv, tasking, count, faults>>

(* A limit: the turn stops where it is, and a task keeps its snapshot open. *)
Pause ==
    /\ at = "turn" /\ pauses < MaxPauses
    /\ pauses' = pauses + 1
    /\ at' = "idle" /\ parked' = parked \cup ({task} \ {None}) /\ task' = None
    /\ UNCHANGED <<tree, world, capture, conv, open, now, wrote, faults>>

-----------------------------------------------------------------------------
(* Tasks.  One writes the tree at a time.                                   *)

BeginTask ==
    /\ at = "turn" /\ task = None /\ shadow /\ Len(store.tasks) < MaxTasks
    /\ LET begun == [store EXCEPT !.tasks = Append(@, TaskSnapshot(store.turn))] IN
       /\ Saved(begun) \/ Unsaved(begun)
       /\ task' = Len(begun.tasks)
    /\ UNCHANGED <<tree, world, shadow, backups, talk, parked, count>>

ContinueTask(h) ==
    /\ at = "turn" /\ task = None
    /\ task' = h /\ parked' = parked \ {h}
    /\ UNCHANGED <<tree, world, capture, talk, count, faults>>

(* EndTask: what differs from the snapshot now.                             *)
WithPaths(h) ==
    [store EXCEPT !.tasks[h].paths = {f \in Files : tree[f] # store.tasks[h].commit[f]}]

EndTask ==
    /\ at = "turn" /\ task # None
    /\ \/ /\ ~shadow \/ task > Len(store.tasks)
          /\ UNCHANGED <<store, manifest, faults>>
       \/ /\ shadow /\ task <= Len(store.tasks)
          /\ \/ Saved(WithPaths(task)) \/ Unsaved(WithPaths(task))
             \/ Fault("git") /\ UNCHANGED <<store, manifest>>
    /\ task' = None
    /\ UNCHANGED <<tree, world, shadow, backups, talk, parked, count>>

-----------------------------------------------------------------------------
(* /undo.                                                                   *)

LastCaptured == Max({-1} \cup {store.entries[k].turn : k \in DOMAIN store.entries}
                        \cup {store.snapshots[k].turn : k \in DOMAIN store.snapshots})

(* trimLastTurn: the last user message and all after it.                    *)
Trimmed == IF conv = <<>> THEN conv ELSE Front(conv)

UndoNothing ==
    /\ at = "idle" /\ LastCaptured = -1
    /\ conv' = Trimmed
    /\ UNCHANGED <<tree, world, capture, at, open, tasking, count, faults>>

(* rewindSnapshot: the whole tree.                                          *)
UndoSnapshot ==
    /\ at = "idle" /\ shadow /\ LastCaptured # -1
    /\ SnapshotOf(LastCaptured) # <<>>
    /\ tree' = SnapshotOf(LastCaptured)[1].commit
    /\ LET kept == [store EXCEPT !.snapshots = Without(LastCaptured)] IN
       \/ Saved(kept) /\ conv' = Trimmed
       \/ Unsaved(kept) /\ UNCHANGED conv
    /\ UNCHANGED <<world, shadow, backups, at, open, tasking, count>>

(* The entries of the turn, newest first.  One that had a file is refused   *)
(* when its path is a link now, or when its backup is gone.                 *)
Undone == Reverse(SelectSeq(store.entries, LAMBDA e : e.turn = LastCaptured))
Refused(e) == e.existed /\ (e.path \in linked \/ e.seq \notin DOMAIN backups)
Before(es) == LET bad == SelectInSeq(es, Refused) IN
              IF bad = 0 THEN es ELSE SubSeq(es, 1, bad - 1)

(* Mutant: the oldest entry first.                                          *)
PutBackOldest(es) ==
    [f \in Files |->
        LET k == SelectInSeq(es, LAMBDA e : e.path = f) IN
        IF k = 0 THEN tree[f]
        ELSE IF es[k].existed THEN backups[es[k].seq] ELSE <<>>]

(* What the files hold once es are put back, and the backups that are left. *)
PutBack(es) ==
    [f \in Files |->
        LET k == SelectLastInSeq(es, LAMBDA e : e.path = f) IN
        IF k = 0 THEN tree[f]
        ELSE IF es[k].existed THEN backups[es[k].seq] ELSE <<>>]
Left(es) == [n \in DOMAIN backups \ {es[k].seq : k \in DOMAIN es} |-> backups[n]]

CopiesUndone ==
    /\ at = "idle" /\ LastCaptured # -1 /\ SnapshotOf(LastCaptured) = <<>>

UndoCopies ==
    /\ CopiesUndone
    /\ Before(Undone) = Undone
    /\ tree' = PutBack(Undone) /\ backups' = Left(Undone)
    /\ LET kept == [store EXCEPT !.entries = SelectSeq(@, LAMBDA e : e.turn # LastCaptured)] IN
       \/ Saved(kept) /\ conv' = Trimmed
       \/ Unsaved(kept) /\ UNCHANGED conv
    /\ UNCHANGED <<world, shadow, at, open, tasking, count>>

(* A refused entry ends the rewind: what came before it is back already.    *)
UndoRefused ==
    /\ CopiesUndone
    /\ Before(Undone) # Undone
    /\ tree' = PutBack(Before(Undone)) /\ backups' = Left(Before(Undone))
    /\ UNCHANGED <<world, store, shadow, manifest, talk, tasking, count, faults>>

-----------------------------------------------------------------------------
(* /undo task.                                                              *)

(* Mutant: the later tasks are not looked at.                               *)
LaterNone(n) == {}

(* The paths of later tasks that were not taken back.                       *)
Later(n) == UNION {store.tasks[m].paths :
                   m \in {k \in n + 1 .. Len(store.tasks) : ~store.tasks[k].consumed}}

UndoTask(n) ==
    /\ at = "idle" /\ shadow /\ ~store.tasks[n].consumed
    /\ LET back == store.tasks[n].paths \ Later(n)
           spent == [store EXCEPT !.tasks[n].consumed = TRUE] IN
       /\ tree' = [f \in Files |-> IF f \in back THEN store.tasks[n].commit[f] ELSE tree[f]]
       /\ \/ Saved(spent) /\ conv' = IF back = {} THEN conv ELSE Append(conv, 0)
          \/ Unsaved(spent) /\ UNCHANGED conv
    /\ UNCHANGED <<world, shadow, backups, at, open, tasking, count>>

(* git fails part-way: some of the files are back, and the task is not spent. *)
UndoTaskFails(n) ==
    /\ at = "idle" /\ shadow /\ ~store.tasks[n].consumed /\ Fault("git")
    /\ \E back \in SUBSET (store.tasks[n].paths \ Later(n)) :
          tree' = [f \in Files |-> IF f \in back THEN store.tasks[n].commit[f] ELSE tree[f]]
    /\ UNCHANGED <<world, capture, talk, tasking, count>>

-----------------------------------------------------------------------------
(* The process.                                                             *)

Reopened ==
    /\ store' = manifest /\ shadow' = git /\ at' = "idle" /\ task' = None
    /\ UNCHANGED <<world, manifest, count, parked>>

Restart ==
    /\ at = "idle" /\ Fault("restart")
    /\ Reopened
    /\ UNCHANGED <<tree, backups, conv, open>>

Crash ==
    /\ Fault("crash")
    /\ Reopened
    /\ open' = (at = "turn" \/ (open /\ at = "idle"))
    /\ UNCHANGED <<tree, backups, conv>>

(* The process dies in a /undo, before the manifest has it.                 *)
UndoDies ==
    /\ CopiesUndone /\ Fault("crash")
    /\ \E k \in DOMAIN Before(Undone) :
        LET back == SubSeq(Before(Undone), 1, k) IN
        tree' = PutBack(back) /\ backups' = Left(back)
    /\ Reopened
    /\ UNCHANGED <<conv, open>>

-----------------------------------------------------------------------------
Init ==
    /\ tree \in [Files -> {<<>>, <<Outsider>>}]
    /\ linked = {} /\ git \in BOOLEAN
    /\ store = Blank /\ shadow = git /\ manifest = Blank /\ backups = <<>>
    /\ conv = <<>> /\ at = "idle" /\ open = FALSE
    /\ task = None /\ parked = {} /\ now = 0 /\ pauses = 0 /\ wrote = 0 /\ faults = 0

Next ==
    \/ BeginTurn \/ Say \/ Resume \/ Discard \/ TurnEnds \/ Pause
    \/ \E f \in Files : Write(f) \/ WriteOutside(f) \/ Link(f)
    \/ BeginTask \/ EndTask \/ \E h \in parked : ContinueTask(h)
    \/ UndoNothing \/ UndoSnapshot \/ UndoCopies \/ UndoRefused
    \/ \E n \in DOMAIN store.tasks : UndoTask(n) \/ UndoTaskFails(n)
    \/ Restart \/ Crash \/ UndoDies

Spec == Init /\ [][Next]_vars

-----------------------------------------------------------------------------
(* Properties.                                                              *)

Marks(t) == UNION {{<<f, t[f][k]>> : k \in DOMAIN t[f]} : f \in Files}
Gone == Marks(tree) \ Marks(tree')
Dropped == Len(conv') < Len(conv)

(* When a /undo takes back the turn whose message it removes, it takes back *)
(* all that the tools of that turn wrote.                                   *)
Captured(turn) ==
    \E taken \in Range(SnapshotOf(LastCaptured)) \cup Range(Undone) : taken.by = turn
TurnTakenWhole ==
    [][Dropped /\ Captured(Last(conv)) =>
        \A m \in Marks(tree') : m[2].turn # Last(conv)]_vars

(* Taking back one task leaves the work of every later task that finished   *)
(* and was not taken back itself.                                           *)
TakenBack(n) == ~store.tasks[n].consumed /\ store'.tasks[n].consumed
Stands(m)    == m \in DOMAIN store.tasks /\ ~store.tasks[m].consumed /\ store.tasks[m].paths # {}
LaterWorkStands ==
    [][\A n \in DOMAIN store.tasks \cap DOMAIN store'.tasks :
        TakenBack(n) => \A g \in Gone : g[2].task > n => ~Stands(g[2].task)]_vars
=============================================================================
