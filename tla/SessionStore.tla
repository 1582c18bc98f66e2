---------------------------- MODULE SessionStore ----------------------------
(***************************************************************************)
(* A session on disk: Save, SaveInterim, SaveRecovery and Load of          *)
(* internal/session, over internal/atomicfile, and the coalescing of saves *)
(* in internal/engine/save.go that decides which of them runs when.        *)
(*                                                                         *)
(* The transcript is one JSON file; a recovery point is a compressed file  *)
(* beside it, and a copy of the same state in the JSON.  Superseded runs   *)
(* and conversations from before a compaction are moved to archives in     *)
(* directories of their own.  A header repeats what a listing shows.       *)
(*                                                                         *)
(* Goroutines of one process save through the session's writeMu; whoever   *)
(* takes the pending flag writes.  A write is a rename that others see at  *)
(* once and that the next sync of the directory makes last: a crash keeps  *)
(* what is visible, a power cut brings back an earlier state of the        *)
(* directory.  The contents of a session are abstracted to a number that   *)
(* no two states share.                                                    *)
(***************************************************************************)
EXTENDS Integers, FiniteSets, FiniteSetsExt

CONSTANTS
    Procs,      \* kolk processes that open the session
    Savers,     \* goroutines of a process that save: "turn" and others
    Faults,     \* bound of the model: what may go wrong
    MaxVer,     \* bound of the model: states of the session
    MaxRuns,    \* bound of the model: requests of the session
    MaxFaults   \* bound of the model: faults of a behaviour

Kinds == {"save", "interim", "recovery", "retire", "compaction"}

ASSUME SaversAssumption == "turn" \in Savers
ASSUME BoundsAssumption == MaxVer \in Nat /\ MaxRuns \in Nat /\ MaxFaults \in Nat
ASSUME FaultsAssumption == Faults \subseteq {"write", "sync", "crash", "power"}

VARIABLES
    mem,        \* mem[p]: the Session in p's memory
    older,      \* older[p]: Executions before the last, not archived yet
    up,         \* the processes that have the session open
    co,         \* co[p]: saveState
    saver,      \* saver[p][g]: what goroutine g is saving
    disk,       \* the session's directory as everyone sees it
    platter,    \* what a power cut leaves of it
    made,       \* history: states the session has been in
    promised,   \* history: the newest state a boundary has saved
    landed,     \* history: recovery points that were written
    retired,    \* history: recovery points work was begun from
    faults      \* bound of the model: faults so far

vars == <<mem, older, up, co, saver, disk, platter, made, promised, landed, retired, faults>>
history == <<made, promised, landed, retired>>

-----------------------------------------------------------------------------
(* The files.                                                               *)

None == [rev |-> 0, ver |-> 0, run |-> 0, rec |-> 0, refs |-> {}, strict |-> FALSE]
NoPoint == [state |-> None, execs |-> {}, convs |-> {}]
Empty == [json |-> None, point |-> NoPoint, meta |-> 0, execs |-> {}, convs |-> {},
          dirs |-> {}]

(* The directories of the archives are entries of the session's directory:  *)
(* without the entry nothing in them is found.                              *)
Archive(d, which) == IF which \in d.dirs THEN d[which] ELSE {}

(* Every conversation a state refers to has to be in an archive.            *)
Closed(s, convs) == s.refs \subseteq convs

(* Load: the newer of the two records; two that differ at one revision are  *)
(* refused, and so is a state whose archives are gone.                      *)
Newer(d) ==
    IF d.point.state.rev > d.json.rev THEN d.point.state ELSE d.json
Conflict(d) ==
    d.json # None /\ d.point.state.rev = d.json.rev /\ d.point.state # d.json
Restored(d) ==
    [d EXCEPT !.execs = @ \cup d.point.execs, !.convs = @ \cup d.point.convs,
              !.dirs = @ \cup (IF d.point.execs = {} THEN {} ELSE {"execs"})
                         \cup (IF d.point.convs = {} THEN {} ELSE {"convs"})]
Loads(d) ==
    /\ ~Conflict(d)
    /\ Newer(d).strict => Closed(Newer(d), Archive(Restored(d), "convs"))

-----------------------------------------------------------------------------
(* Writing.                                                                 *)

Idle == [at |-> "idle", kind |-> "save", snap |-> None, prior |-> 0]

Fails(kind) == kind \in Faults /\ faults < MaxFaults /\ faults' = faults + 1

At(p, g, at)  == p \in up /\ saver[p][g].at = at
Writing(p)    == {g \in Savers : saver[p][g].at \notin {"idle", "lock"}}
Goes(p, g, at) == saver' = [saver EXCEPT ![p][g].at = at]

(* Mutant: an ordinary save skips the sync as the interval's does.          *)
OrdinarySkips(kind) == kind \notin {"interim", "save"}

(* SkipDirSync is for the interval's save only.                             *)
SyncsDir(kind) == kind # "interim"

(* WriteWith: the old file, the new one, or the new one with a directory    *)
(* that could not be synced, which is reported as a failure.                *)
Replace(new, kind, p, g, next, failed) ==
    \/ /\ disk' = new
       /\ platter' = IF SyncsDir(kind) THEN new ELSE platter
       /\ Goes(p, g, next)
       /\ UNCHANGED faults
    \/ /\ Fails("write")
       /\ Goes(p, g, failed)
       /\ UNCHANGED <<disk, platter>>
    \/ /\ SyncsDir(kind) /\ Fails("sync")
       /\ disk' = new
       /\ Goes(p, g, failed)
       /\ UNCHANGED platter

Lock(p, g) ==
    /\ At(p, g, "lock") /\ Writing(p) = {}
    /\ Goes(p, g, "archive")
    /\ UNCHANGED <<mem, older, up, co, disk, platter, history, faults>>

(* archiveExecutionsLocked: every superseded run is in the archive, and     *)
(* synced there, before it leaves the session.                              *)
Archived(p, runs) ==
    IF older[p] = {} THEN UNCHANGED <<disk, platter>>
    ELSE /\ disk' = [disk EXCEPT !.execs = @ \cup runs, !.dirs = @ \cup {"execs"}]
         /\ platter' = [platter EXCEPT !.execs = disk'.execs]

(* Mutant: the session forgets the runs it could not archive.               *)
ForgetAndGo(p, g) ==
    /\ older' = [older EXCEPT ![p] = {}]
    /\ Goes(p, g, "failed") /\ UNCHANGED mem

NotArchived(p, g) == Goes(p, g, "failed") /\ UNCHANGED <<mem, older>>

(* The snapshot is taken under messagesMu with the archives written.  A     *)
(* recovery point also reads them all back and refuses an incomplete one.   *)
Snapshot(p, g) ==
    LET point == saver[p][g].kind = "recovery"
        s     == [mem[p] EXCEPT !.rev = @ + 1, !.strict = @ \/ point]
    IN  /\ mem' = [mem EXCEPT ![p] = s]
        /\ older' = [older EXCEPT ![p] = {}]
        /\ saver' = [saver EXCEPT ![p][g].snap = s, ![p][g].at =
              IF ~point THEN "json"
              ELSE IF Closed(s, Archive(disk', "convs")) THEN "point" ELSE "failed"]

Freeze(p, g) ==
    /\ At(p, g, "archive")
    /\ \/ Archived(p, older[p]) /\ Snapshot(p, g) /\ UNCHANGED faults
       \/ /\ older[p] # {} /\ Fails("write")
          /\ \E some \in SUBSET older[p] : Archived(p, some)
          /\ NotArchived(p, g)
    /\ UNCHANGED <<up, co, history>>

(* SaveRecovery writes the point first and the JSON after it.               *)
WritePoint(p, g) ==
    LET new == [disk EXCEPT !.point = [state |-> saver[p][g].snap,
                                       execs |-> Archive(disk, "execs"),
                                       convs |-> Archive(disk, "convs")]]
    IN  /\ At(p, g, "point")
        /\ Replace(new, "recovery", p, g, "json", "failed")
        /\ landed' = IF disk' = new THEN landed \cup {saver[p][g].snap.rec} ELSE landed
        /\ UNCHANGED <<mem, older, up, co, made, promised, retired>>

(* A mirror that fails behind a recovery point that landed is a warning.    *)
WriteJSON(p, g) ==
    LET kind == saver[p][g].kind
    IN  /\ At(p, g, "json")
        /\ Replace([disk EXCEPT !.json = saver[p][g].snap], kind, p, g, "meta",
                   IF kind = "recovery" THEN "done" ELSE "failed")
        /\ UNCHANGED <<mem, older, up, co, history>>

(* writeMeta: after the transcript it describes, synced by nobody.          *)
WriteMeta(p, g) ==
    /\ At(p, g, "meta")
    /\ Goes(p, g, "done")
    /\ \/ disk' = [disk EXCEPT !.meta = saver[p][g].snap.ver] /\ UNCHANGED faults
       \/ Fails("write") /\ UNCHANGED disk
    /\ UNCHANGED <<mem, older, up, co, platter, history>>

(* Mutant: the flag is cleared by the write, not before its snapshot.       *)
DoneClears(p, g) ==
    /\ At(p, g, "done")
    /\ co' = [co EXCEPT ![p].pending = FALSE]
    /\ saver' = [saver EXCEPT ![p][g] = Idle]
    /\ UNCHANGED <<mem, older, up, disk, platter, history, faults>>

(* The writer returns: writeSession keeps quiet about what it saved.        *)
Done(p, g) ==
    LET s == saver[p][g]
    IN  /\ At(p, g, "done")
        /\ promised' = IF s.kind = "interim" THEN promised ELSE Max({promised, s.snap.ver})
        /\ retired' = IF s.kind = "retire" THEN retired \cup {s.prior} ELSE retired
        /\ saver' = [saver EXCEPT ![p][g] = Idle]
        /\ UNCHANGED <<mem, older, up, co, disk, platter, made, landed, faults>>

(* Mutant: the point that was not written stays in the session.             *)
KeepsPoint(p, prior) == UNCHANGED mem

(* saveRecovery and retireRecovery put back what they had changed: a later  *)
(* ordinary save must not give a failed recovery write provenance.          *)
PutBack(p, prior) == mem' = [mem EXCEPT ![p].rec = prior]

Failed(p, g) ==
    LET s == saver[p][g]
    IN  /\ At(p, g, "failed")
        /\ saver' = [saver EXCEPT ![p][g] = Idle]
        /\ IF s.kind \in {"recovery", "retire"}
           THEN /\ PutBack(p, s.prior)
                /\ co' = [co EXCEPT ![p].pending = FALSE, ![p].lost = TRUE]
           ELSE UNCHANGED <<mem, co>>
        /\ UNCHANGED <<older, up, disk, platter, history, faults>>

-----------------------------------------------------------------------------
(* What asks for a save.                                                    *)

(* A subagent saves only while the delegation runs, and a recovery point is *)
(* written or retired only when none does.                                  *)
Pointing(p) == saver[p]["turn"].at # "idle" /\ saver[p]["turn"].kind \in {"recovery", "retire"}
Alone(p)    == \A g \in Savers : saver[p][g].at = "idle"

Free(p, g) == At(p, g, "idle") /\ (g # "turn" => ~Pointing(p))
Wants(p, g, kind) ==
    saver' = [saver EXCEPT ![p][g] = [Idle EXCEPT !.at = "lock", !.kind = kind,
                                                  !.prior = mem[p].rec]]

Dirty(c)   == [c EXCEPT !.pending = @ \/ ~c.lost]
Claimed(c) == [c EXCEPT !.pending = FALSE, !.wrote = FALSE]

(* The session changes in memory and is marked dirty.                       *)
Changed(p, s) ==
    /\ made < MaxVer
    /\ made' = made + 1
    /\ mem' = [mem EXCEPT ![p] = [s EXCEPT !.ver = made + 1]]

Mutate(p, g) ==
    /\ Free(p, g)
    /\ Changed(p, mem[p])
    /\ co' = [co EXCEPT ![p] = Dirty(@)]
    /\ UNCHANGED <<older, up, saver, disk, platter, promised, landed, retired, faults>>

(* SetRunState of a new request: the last one waits to be archived.         *)
BeginRun(p) ==
    /\ Free(p, "turn") /\ mem[p].run < MaxRuns
    /\ Changed(p, [mem[p] EXCEPT !.run = @ + 1, !.rec = 0])
    /\ older' = [older EXCEPT ![p] = IF mem[p].run = 0 THEN @ ELSE @ \cup {mem[p].run}]
    /\ co' = [co EXCEPT ![p] = Dirty(@)]
    /\ UNCHANGED <<up, saver, disk, platter, promised, landed, retired, faults>>

(* flush at a boundary: whoever finds the flag set writes.                  *)
Boundary(p, g) ==
    /\ Free(p, g) /\ co[p].pending
    /\ co' = [co EXCEPT ![p] = Claimed(@)]
    /\ Wants(p, g, "save")
    /\ UNCHANGED <<mem, older, up, disk, platter, history, faults>>

(* noteFileWrite, behind the flush of preWrite.                             *)
NoteFileWrite(p) ==
    /\ Free(p, "turn") /\ ~co[p].pending /\ ~co[p].wrote
    /\ co' = [co EXCEPT ![p].wrote = TRUE]
    /\ UNCHANGED <<mem, older, up, saver, disk, platter, history, faults>>

(* saveInterim, when the interval has passed: a round that changed files is *)
(* saved as a boundary is.                                                  *)
Interim(p) ==
    /\ Free(p, "turn") /\ co[p].pending
    /\ co' = [co EXCEPT ![p].pending = FALSE, ![p].wrote = FALSE]
    /\ Wants(p, "turn", IF co[p].wrote THEN "save" ELSE "interim")
    /\ UNCHANGED <<mem, older, up, disk, platter, history, faults>>

(* saveRecovery: the point is marked in the run, then written.              *)
SaveRecovery(p) ==
    /\ p \in up /\ Alone(p) /\ mem[p].run # 0
    /\ Changed(p, [mem[p] EXCEPT !.rec = made + 1])
    /\ co' = [co EXCEPT ![p] = Claimed(@)]
    /\ Wants(p, "turn", "recovery")
    /\ UNCHANGED <<older, up, disk, platter, promised, landed, retired, faults>>

(* retireRecovery: no work begins before the point is gone from the disk.   *)
Retire(p) ==
    /\ p \in up /\ Alone(p) /\ mem[p].rec # 0
    /\ Changed(p, [mem[p] EXCEPT !.rec = 0])
    /\ co' = [co EXCEPT ![p] = Claimed(@)]
    /\ Wants(p, "turn", "retire")
    /\ UNCHANGED <<older, up, disk, platter, promised, landed, retired, faults>>

(* A compaction: ArchiveMessages, the reference to it, and a save of both   *)
(* before the context shrinks.                                              *)
Compact(p, g) ==
    /\ Free(p, g) /\ Writing(p) = {} /\ mem[p].run # 0 /\ mem[p].refs = {}
    /\ \/ /\ disk' = [disk EXCEPT !.convs = @ \cup {made}, !.dirs = @ \cup {"convs"}]
          /\ platter' = [platter EXCEPT !.convs = disk'.convs]
          /\ Changed(p, [mem[p] EXCEPT !.refs = @ \cup {made}])
          /\ co' = [co EXCEPT ![p] = Dirty(@)]
          /\ Wants(p, g, "compaction")
          /\ UNCHANGED faults
       \/ /\ Fails("write")
          /\ disk' = [disk EXCEPT !.dirs = @ \cup {"convs"}]
          /\ UNCHANGED <<mem, co, saver, platter, made>>
    /\ UNCHANGED <<older, up, promised, landed, retired>>

(* endRecoveryHold: the turn whose recovery write failed has unwound.       *)
EndHold(p) ==
    /\ Free(p, "turn") /\ co[p].lost
    /\ co' = [co EXCEPT ![p].lost = FALSE]
    /\ UNCHANGED <<mem, older, up, saver, disk, platter, history, faults>>

-----------------------------------------------------------------------------
(* Processes come and go.                                                   *)

Fresh == [pending |-> FALSE, wrote |-> FALSE, lost |-> FALSE]

(* Load, and the archives a recovery point brings along.                    *)
Open(p) ==
    /\ p \notin up /\ Loads(disk)
    /\ up' = up \cup {p}
    /\ mem' = [mem EXCEPT ![p] = Newer(disk)]
    /\ disk' = Restored(disk)
    /\ platter' = [platter EXCEPT !.execs = @ \cup disk.point.execs,
                                  !.convs = @ \cup disk.point.convs]
    /\ UNCHANGED <<older, co, saver, history, faults>>

Dies(ps) ==
    /\ up' = up \ ps
    /\ saver' = [p \in Procs |-> IF p \in ps THEN [g \in Savers |-> Idle] ELSE saver[p]]
    /\ co' = [p \in Procs |-> IF p \in ps THEN Fresh ELSE co[p]]
    /\ older' = [p \in Procs |-> IF p \in ps THEN {} ELSE older[p]]
    /\ mem' = [p \in Procs |-> IF p \in ps THEN [None EXCEPT !.ver = mem[p].ver] ELSE mem[p]]

(* Close flushes, so that it is a Boundary; then the process is gone.       *)
Exit(p) ==
    /\ p \in up /\ ~co[p].pending /\ Alone(p)
    /\ Dies({p})
    /\ UNCHANGED <<disk, platter, history, faults>>

Crash(p) ==
    /\ p \in up /\ Fails("crash")
    /\ Dies({p})
    /\ UNCHANGED <<disk, platter, history>>

(* The system writes the directory back when it likes.                      *)
WriteBack ==
    /\ platter # disk
    /\ platter' = disk
    /\ UNCHANGED <<mem, older, up, co, saver, disk, history, faults>>

(* A header that was never synced may be there without its bytes, which     *)
(* readMeta takes for no header.                                            *)
PowerCut ==
    /\ Fails("power")
    /\ Dies(up)
    /\ \E meta \in {platter.meta, 0} : disk' = [platter EXCEPT !.meta = meta]
    /\ platter' = disk'
    /\ UNCHANGED history

Init ==
    /\ mem = [p \in Procs |-> None]
    /\ older = [p \in Procs |-> {}]
    /\ up = {}
    /\ co = [p \in Procs |-> Fresh]
    /\ saver = [p \in Procs |-> [g \in Savers |-> Idle]]
    /\ disk = Empty /\ platter = Empty
    /\ made = 0 /\ promised = 0 /\ landed = {} /\ retired = {}
    /\ faults = 0

Writes(p, g) ==
    \/ Lock(p, g) \/ Freeze(p, g) \/ WritePoint(p, g) \/ WriteJSON(p, g)
    \/ WriteMeta(p, g) \/ Done(p, g) \/ Failed(p, g)

Next ==
    \/ \E p \in Procs :
          \/ \E g \in Savers :
                Writes(p, g) \/ Mutate(p, g) \/ Boundary(p, g) \/ Compact(p, g)
          \/ BeginRun(p) \/ NoteFileWrite(p) \/ Interim(p) \/ SaveRecovery(p) \/ Retire(p)
          \/ EndHold(p) \/ Open(p) \/ Exit(p) \/ Crash(p)
    \/ WriteBack \/ PowerCut

Spec == Init /\ [][Next]_vars

-----------------------------------------------------------------------------
(* Properties.                                                              *)

Conversations == 0..MaxVer
States == [rev : Nat, ver : 0..MaxVer, run : 0..MaxRuns, rec : 0..MaxVer,
           refs : SUBSET Conversations, strict : BOOLEAN]

(* The type invariant: and one goroutine of a process writes at a time.     *)
TypeOK ==
    /\ made \in 0..MaxVer /\ promised \in 0..made
    /\ up \subseteq Procs
    /\ \A p \in Procs :
          /\ mem[p] \in States /\ older[p] \subseteq 1..MaxRuns
          /\ co[p] \in [pending : BOOLEAN, wrote : BOOLEAN, lost : BOOLEAN]
          /\ Cardinality(Writing(p)) <= 1
    /\ \A d \in {disk, platter} :
          /\ d.json \in States /\ d.point.state \in States
          /\ d.meta \in 0..MaxVer /\ d.execs \subseteq 1..MaxRuns
          /\ d.dirs \subseteq {"execs", "convs"}

(* What may be found after a crash, or after the power has gone.            *)
Finds == {disk, platter}

(* Whatever was interrupted, the session can be opened.                     *)
Loadable == \A d \in Finds : Loads(d)

(* "Superseded requests leave the frequently rewritten session only after   *)
(* their complete records are durable": no request is lost between the      *)
(* session and its archive.                                                 *)
HistoryWhole ==
    \A d \in Finds : 1..(Newer(d).run - 1) \subseteq Archive(Restored(d), "execs")

(* "A listing may be one save behind, and must never be one save ahead of   *)
(* what the transcript says."                                               *)
HeaderBehind == \A d \in Finds : d.meta <= Newer(d).ver

(* "A crash after this write is an uncertain interruption, not permission   *)
(* to replay the older snapshot": a point that work was begun from is never *)
(* found again.                                                             *)
RetiredStays == \A d \in Finds : Newer(d).rec \notin retired

(* A session claims a recovery point only if that point was written.        *)
PointsLanded == \A d \in Finds : Newer(d).rec # 0 => Newer(d).rec \in landed

SessionWhole == Loadable /\ HistoryWhole /\ HeaderBehind /\ RetiredStays /\ PointsLanded

(* The pending flag loses nothing: while no write has failed and nobody     *)
(* writes, either the session is marked or everyone sees its newest state.  *)
NothingForgotten ==
    faults = 0 =>
        \A p \in up : \/ co[p].pending
                      \/ ~Alone(p)
                      \/ Newer(disk).ver = mem[p].ver

(* With one process, the session keeps the promise of SavedWork.            *)
Kept == INSTANCE SavedWork WITH now  <- Max({0} \cup {mem[p].ver : p \in Procs}),
                                safe <- promised
Promise == Kept!Spec
=============================================================================
