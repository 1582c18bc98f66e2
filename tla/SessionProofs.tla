--------------------------- MODULE SessionProofs ---------------------------
(***************************************************************************)
(* For one process that has the session open, and any number of goroutines *)
(* that save, of states, requests, failures, crashes and power cuts: what  *)
(* is found stands whole, nothing is forgotten, and the files keep the     *)
(* promise of SavedWork.  Two processes that resume one session number     *)
(* their records alike, and then none of it holds.                         *)
(*                                                                         *)
(* SessionInv says of both directories that could be found what Load needs *)
(* of them; of the memory that what it refers to is in the archives or     *)
(* waits to be; of the goroutine that writes how far it has come, which    *)
(* record is the newer one then and where; and that what is marked, under  *)
(* way or visible is the newest state.                                     *)
(***************************************************************************)
EXTENDS SessionStore, TLAPS

OneProcess == \E p : Procs = {p}

StatesTo(m) == [rev : Nat, ver : 0..m, run : Nat, rec : 0..m,
                refs : SUBSET Nat, strict : BOOLEAN]
Points(m) == [state : StatesTo(m), execs : SUBSET Nat, convs : SUBSET Nat]
Directories(m) == [json : StatesTo(m), point : Points(m), meta : Nat,
                   execs : SUBSET Nat, convs : SUBSET Nat, dirs : SUBSET {"execs", "convs"}]
Jobs(m) == [at : {"idle", "lock", "archive", "point", "json", "meta", "done", "failed"},
            kind : Kinds, snap : StatesTo(m), prior : 0..m]
Coalescing == [pending : BOOLEAN, wrote : BOOLEAN, lost : BOOLEAN]

ShapesOK ==
    /\ made \in Nat /\ promised \in Nat /\ faults \in Nat
    /\ landed \subseteq Nat /\ retired \subseteq 1..made
    /\ mem \in [Procs -> StatesTo(made)]
    /\ older \in [Procs -> SUBSET Nat]
    /\ up \subseteq Procs
    /\ co \in [Procs -> Coalescing]
    /\ saver \in [Procs -> [Savers -> Jobs(made)]]
    /\ disk \in Directories(made) /\ platter \in Directories(made)

-----------------------------------------------------------------------------
(* What is true of every directory that may be found.                       *)
Good(d) ==
    /\ d.json.rev = d.point.state.rev => d.json = d.point.state
    /\ Closed(Newer(d), Archive(Restored(d), "convs"))
    /\ 1..(Newer(d).run - 1) \subseteq Archive(Restored(d), "execs")
    /\ d.meta <= Newer(d).ver

Recorded(s, l, r) == s.rec \in l \cup {0} /\ s.rec \notin r

Stands(d, l, r, safe) == Good(d) /\ Recorded(Newer(d), l, r) /\ safe <= Newer(d).ver

FilesOK(seen, lasts, l, r, safe) ==
    /\ Stands(seen, l, r, safe) /\ Stands(lasts, l, r, safe)
    /\ lasts.execs \subseteq seen.execs /\ lasts.convs \subseteq seen.convs
    /\ Newer(lasts).ver <= Newer(seen).ver

-----------------------------------------------------------------------------
(* What a state in memory refers to is in the archives, or waits to be.     *)
Backed(s, d, waits) ==
    /\ Closed(s, Archive(d, "convs"))
    /\ 1..(s.run - 1) \subseteq Archive(d, "execs") \cup waits

Above(s, d) == d.json.rev < s.rev /\ d.point.state.rev < s.rev

OfPoint(j) == j.at # "idle" /\ j.kind \in {"recovery", "retire"}

(* A recovery point that the session claims and that is not written yet.    *)
Claiming(j) == j.kind = "recovery" /\ j.at \in {"lock", "archive", "point", "failed"}

MemoryOK(m, waits, on, turn, seen, l, r) ==
    /\ Newer(seen).ver <= m.ver
    /\ Backed(m, seen, waits)
    /\ m.rec \notin r
    /\ m.rec \in l \cup {0} \/ Claiming(turn)
    /\ on => seen.json.rev <= m.rev /\ seen.point.state.rev <= m.rev

Frozen == {"point", "json", "meta", "done"}

SnapOK(j, m, seen, lasts, l, r) ==
    /\ Newer(seen).ver <= j.snap.ver /\ j.snap.ver <= m.ver /\ j.snap.rev <= m.rev
    /\ Backed(j.snap, seen, {})
    /\ j.snap.rec \notin r
    /\ j.snap.rec \in l \cup {0} \/ j.at = "point"
    /\ OfPoint(j) => j.snap.rec = m.rec
    /\ j.at = "point" => j.kind = "recovery" /\ Above(j.snap, seen)
    /\ j.at = "json" =>
         IF j.kind = "recovery"
         THEN seen.json.rev < j.snap.rev /\ seen.point.state = j.snap /\ Newer(lasts) = j.snap
         ELSE Above(j.snap, seen)
    /\ j.at \in {"meta", "done"} =>
         Newer(seen) = j.snap /\ (j.kind # "interim" => Newer(lasts) = j.snap)

JobOK(j, m, seen, lasts, l, r) ==
    /\ OfPoint(j) => j.prior \in l \cup {0} /\ j.prior \notin r
    /\ OfPoint(j) /\ j.kind = "retire" => j.prior # 0 /\ m.rec = 0
    /\ j.at \in Frozen => SnapOK(j, m, seen, lasts, l, r)

-----------------------------------------------------------------------------
(* One goroutine writes, and beside a point's nobody saves at all.          *)
Ordered(jobs) ==
    /\ \A g, h \in Savers :
         jobs[g].at \notin {"idle", "lock"} /\ jobs[h].at \notin {"idle", "lock"} => g = h
    /\ \A g \in Savers : OfPoint(jobs[g]) =>
         g = "turn" /\ \A h \in Savers \ {g} : jobs[h].at = "idle"

AllIdle(jobs) == \A g \in Savers : jobs[g].at = "idle"

(* A save that is under way will write, or has in hand, the newest state.   *)
Carried(jobs, m) == \E g \in Savers :
    \/ jobs[g].at \in {"lock", "archive"}
    \/ jobs[g].at \in {"point", "json"} /\ jobs[g].snap.ver = m.ver

Remembered(c, jobs, m, seen) ==
    /\ ~c.lost /\ \A g \in Savers : jobs[g].at # "failed"
    /\ c.pending \/ Carried(jobs, m) \/ Newer(seen).ver = m.ver

(* A process that is gone holds nothing of the session.                     *)
Gone(m) == m.run = 0 /\ m.refs = {} /\ m.rec = 0

ProcessOK(p) ==
    /\ MemoryOK(mem[p], older[p], p \in up, saver[p]["turn"], disk, landed, retired)
    /\ \A g \in Savers : JobOK(saver[p][g], mem[p], disk, platter, landed, retired)
    /\ Ordered(saver[p])
    /\ p \notin up => older[p] = {} /\ AllIdle(saver[p]) /\ ~co[p].lost /\ Gone(mem[p])
    /\ faults = 0 /\ p \in up => Remembered(co[p], saver[p], mem[p], disk)

SessionInv ==
    /\ ShapesOK
    /\ FilesOK(disk, platter, landed, retired, promised)
    /\ \A p \in Procs : ProcessOK(p)

-----------------------------------------------------------------------------
(* Sets that grow with the number of states.                                *)

LEMMA StatesGrow ==
    ASSUME NEW m \in Nat, NEW n \in Nat, m <= n
    PROVE  StatesTo(m) \subseteq StatesTo(n)
BY DEF StatesTo

LEMMA PointsGrow ==
    ASSUME NEW m \in Nat, NEW n \in Nat, m <= n
    PROVE  Points(m) \subseteq Points(n)
BY StatesGrow DEF Points

LEMMA DirectoriesGrow ==
    ASSUME NEW m \in Nat, NEW n \in Nat, m <= n
    PROVE  Directories(m) \subseteq Directories(n)
BY StatesGrow, PointsGrow DEF Directories

LEMMA JobsGrow ==
    ASSUME NEW m \in Nat, NEW n \in Nat, m <= n
    PROVE  Jobs(m) \subseteq Jobs(n)
BY StatesGrow DEF Jobs

-----------------------------------------------------------------------------
(* Directories.                                                             *)

LEMMA NewerType ==
    ASSUME NEW m \in Nat, NEW d \in Directories(m)
    PROVE  Newer(d) \in StatesTo(m)
BY DEF Newer, Directories, Points

(* More archives, and the same records: nothing that was good is not.       *)
LEMMA Grown ==
    ASSUME NEW d, NEW e, e.json = d.json, e.point = d.point,
           d.execs \subseteq e.execs, d.convs \subseteq e.convs, d.dirs \subseteq e.dirs
    PROVE  /\ Newer(e) = Newer(d)
           /\ Archive(d, "execs") \subseteq Archive(e, "execs")
           /\ Archive(d, "convs") \subseteq Archive(e, "convs")
BY DEF Newer, Archive

LEMMA RestoredType ==
    ASSUME NEW m \in Nat, NEW d \in Directories(m)
    PROVE  /\ Restored(d) \in Directories(m)
           /\ Restored(d).json = d.json /\ Restored(d).point = d.point
           /\ Restored(d).meta = d.meta
           /\ Restored(d).execs = d.execs \cup d.point.execs
           /\ Restored(d).convs = d.convs \cup d.point.convs
           /\ Restored(d).dirs = d.dirs \cup (IF d.point.execs = {} THEN {} ELSE {"execs"})
                                 \cup (IF d.point.convs = {} THEN {} ELSE {"convs"})
BY DEF Restored, Directories, Points

(* What an archive has, it has when the point's copy is put beside it.      *)
LEMMA RestoredArchives ==
    ASSUME NEW m \in Nat, NEW d \in Directories(m)
    PROVE  /\ Archive(Restored(d), "execs") =
                IF "execs" \in d.dirs \/ d.point.execs # {} THEN d.execs \cup d.point.execs ELSE {}
           /\ Archive(Restored(d), "convs") =
                IF "convs" \in d.dirs \/ d.point.convs # {} THEN d.convs \cup d.point.convs ELSE {}
<1>1. /\ Restored(d).execs = d.execs \cup d.point.execs
      /\ Restored(d).convs = d.convs \cup d.point.convs
  BY RestoredType
<1>2. /\ "execs" \in Restored(d).dirs <=> "execs" \in d.dirs \/ d.point.execs # {}
      /\ "convs" \in Restored(d).dirs <=> "convs" \in d.dirs \/ d.point.convs # {}
  BY RestoredType
<1>3. Archive(Restored(d), "execs") = IF "execs" \in Restored(d).dirs
                                      THEN Restored(d).execs ELSE {}
  BY DEF Archive
<1>4. Archive(Restored(d), "convs") = IF "convs" \in Restored(d).dirs
                                      THEN Restored(d).convs ELSE {}
  BY DEF Archive
<1>5. Archive(Restored(d), "execs") =
        IF "execs" \in d.dirs \/ d.point.execs # {} THEN d.execs \cup d.point.execs ELSE {}
  BY <1>1, <1>2, <1>3
<1>6. Archive(Restored(d), "convs") =
        IF "convs" \in d.dirs \/ d.point.convs # {} THEN d.convs \cup d.point.convs ELSE {}
  BY <1>1, <1>2, <1>4
<1> QED
  BY <1>5, <1>6

LEMMA GoodGrown ==
    ASSUME NEW m \in Nat, NEW d \in Directories(m), NEW e \in Directories(m),
           e.json = d.json, e.point = d.point,
           d.execs \subseteq e.execs, d.convs \subseteq e.convs, d.dirs \subseteq e.dirs,
           e.meta <= Newer(d).ver, Good(d)
    PROVE  Good(e)
<1>1. Newer(e) = Newer(d)
  BY DEF Newer
<1>2. Archive(Restored(d), "execs") \subseteq Archive(Restored(e), "execs")
  BY RestoredArchives
<1>3. Archive(Restored(d), "convs") \subseteq Archive(Restored(e), "convs")
  BY RestoredArchives
<1> QED BY <1>1, <1>2, <1>3 DEF Good, Closed

PointIn(d, s) == [d EXCEPT !.point = [state |-> s, execs |-> Archive(d, "execs"),
                                      convs |-> Archive(d, "convs")]]
JsonIn(d, s) == [d EXCEPT !.json = s]

LEMMA ArchiveType ==
    ASSUME NEW m \in Nat, NEW d \in Directories(m)
    PROVE  /\ Archive(d, "execs") = IF "execs" \in d.dirs THEN d.execs ELSE {}
           /\ Archive(d, "convs") = IF "convs" \in d.dirs THEN d.convs ELSE {}
           /\ Archive(d, "execs") \in SUBSET Nat /\ Archive(d, "convs") \in SUBSET Nat
<1>1. /\ Archive(d, "execs") = IF "execs" \in d.dirs THEN d.execs ELSE {}
      /\ Archive(d, "convs") = IF "convs" \in d.dirs THEN d.convs ELSE {}
  BY DEF Archive
<1>2. d.execs \in SUBSET Nat /\ d.convs \in SUBSET Nat
  BY DEF Directories
<1> QED BY <1>1, <1>2

LEMMA PointWritten ==
    ASSUME NEW m \in Nat, NEW d \in Directories(m), NEW s \in StatesTo(m),
           Good(d), Above(s, d), Backed(s, d, {}), Newer(d).ver <= s.ver
    PROVE  /\ PointIn(d, s) \in Directories(m)
           /\ PointIn(d, s).json = d.json /\ PointIn(d, s).point.state = s
           /\ PointIn(d, s).execs = d.execs /\ PointIn(d, s).convs = d.convs
           /\ PointIn(d, s).dirs = d.dirs /\ PointIn(d, s).meta = d.meta
           /\ Newer(PointIn(d, s)) = s
           /\ Good(PointIn(d, s))
<1> DEFINE e == PointIn(d, s)
           pt == [state |-> s, execs |-> Archive(d, "execs"), convs |-> Archive(d, "convs")]
<1>1. pt \in Points(m) /\ pt.state = s
  BY ArchiveType DEF Points
<1>2. /\ e \in Directories(m) /\ e.json = d.json /\ e.point = pt /\ e.execs = d.execs
      /\ e.convs = d.convs /\ e.dirs = d.dirs /\ e.meta = d.meta
  <2> HIDE DEF pt
  <2> QED BY <1>1 DEF Directories, PointIn, pt
<1> HIDE DEF e
<1>3. e.point.state = s /\ e.point.execs = Archive(d, "execs") /\ e.point.convs = Archive(d, "convs")
  BY <1>2
<1>4. d.json.rev \in Int /\ s.rev \in Int
  BY DEF Directories, StatesTo
<1>5. Newer(e) = s
  BY <1>2, <1>3, <1>4 DEF Newer, Above
<1>6. /\ Archive(d, "execs") \subseteq Archive(Restored(e), "execs")
      /\ Archive(d, "convs") \subseteq Archive(Restored(e), "convs")
  BY <1>2, <1>3, ArchiveType, RestoredArchives
<1>7. d.meta <= Newer(d).ver /\ d.meta \in Int /\ s.ver \in Int /\ Newer(d).ver \in Int
  BY NewerType DEF Good, Directories, StatesTo
<1>8. Good(e)
  BY <1>2, <1>3, <1>4, <1>5, <1>6, <1>7 DEF Good, Above, Backed, Closed
<1> QED BY <1>2, <1>3, <1>5, <1>8 DEF e

LEMMA JsonWritten ==
    ASSUME NEW m \in Nat, NEW d \in Directories(m), NEW s \in StatesTo(m),
           Good(d), Backed(s, d, {}), Newer(d).ver <= s.ver,
           d.json.rev < s.rev, d.point.state.rev < s.rev \/ d.point.state = s
    PROVE  /\ JsonIn(d, s) \in Directories(m)
           /\ JsonIn(d, s).json = s /\ JsonIn(d, s).point = d.point
           /\ JsonIn(d, s).execs = d.execs /\ JsonIn(d, s).convs = d.convs
           /\ JsonIn(d, s).dirs = d.dirs /\ JsonIn(d, s).meta = d.meta
           /\ Newer(JsonIn(d, s)) = s
           /\ Good(JsonIn(d, s))
<1> DEFINE e == JsonIn(d, s)
<1>2. /\ e \in Directories(m) /\ e.json = s /\ e.point = d.point /\ e.execs = d.execs
      /\ e.convs = d.convs /\ e.dirs = d.dirs /\ e.meta = d.meta
  BY DEF Directories, JsonIn
<1> HIDE DEF e
<1>4. d.point.state.rev \in Int /\ s.rev \in Int
  BY DEF Directories, Points, StatesTo
<1>5. Newer(e) = s
  BY <1>2, <1>4 DEF Newer
<1>6. /\ Archive(d, "execs") \subseteq Archive(Restored(e), "execs")
      /\ Archive(d, "convs") \subseteq Archive(Restored(e), "convs")
  BY <1>2, ArchiveType, RestoredArchives
<1>7. d.meta <= Newer(d).ver /\ d.meta \in Int /\ s.ver \in Int /\ Newer(d).ver \in Int
  BY NewerType DEF Good, Directories, StatesTo
<1>8. Good(e)
  BY <1>2, <1>4, <1>5, <1>6, <1>7 DEF Good, Backed, Closed
<1> QED BY <1>2, <1>5, <1>8 DEF e

-----------------------------------------------------------------------------
(* What a job and the memory of a process need survives growth.             *)

LEMMA JobAlong ==
    ASSUME NEW k \in Nat, NEW j \in Jobs(k), NEW m \in StatesTo(k), NEW n \in StatesTo(k),
           NEW seen, NEW lasts, NEW l, NEW r,
           JobOK(j, m, seen, lasts, l, r),
           m.ver <= n.ver, m.rev <= n.rev, OfPoint(j) => n.rec = m.rec
    PROVE  JobOK(j, n, seen, lasts, l, r)
<1>1. m.ver \in Int /\ n.ver \in Int /\ m.rev \in Int /\ n.rev \in Int
      /\ j.snap.ver \in Int /\ j.snap.rev \in Int
  BY DEF StatesTo, Jobs
<1>2. CASE j.at \in Frozen
  <2>1. SnapOK(j, m, seen, lasts, l, r)
    BY <1>2 DEF JobOK
  <2>2. SnapOK(j, n, seen, lasts, l, r)
    BY <1>1, <2>1 DEF SnapOK
  <2> QED BY <2>2 DEF JobOK
<1>3. CASE j.at \notin Frozen
  BY <1>3 DEF JobOK
<1> QED BY <1>2, <1>3

LEMMA NewerGrown ==
    ASSUME NEW d, NEW e, e.json = d.json, e.point = d.point
    PROVE  Newer(e) = Newer(d)
BY DEF Newer

(* The archives of both sides only get more entries.                        *)
LEMMA BackedGrown ==
    ASSUME NEW s, NEW d, NEW e, NEW waits, Backed(s, d, waits),
           Archive(d, "execs") \subseteq Archive(e, "execs"),
           Archive(d, "convs") \subseteq Archive(e, "convs")
    PROVE  Backed(s, e, waits)
BY DEF Backed, Closed

LEMMA JobGrown ==
    ASSUME NEW j, NEW m, NEW seen, NEW lasts, NEW l, NEW r, NEW seen2, NEW lasts2,
           JobOK(j, m, seen, lasts, l, r),
           seen2.json = seen.json, seen2.point = seen.point,
           lasts2.json = lasts.json, lasts2.point = lasts.point,
           Archive(seen, "execs") \subseteq Archive(seen2, "execs"),
           Archive(seen, "convs") \subseteq Archive(seen2, "convs")
    PROVE  JobOK(j, m, seen2, lasts2, l, r)
<1>1. Newer(seen2) = Newer(seen) /\ Newer(lasts2) = Newer(lasts)
  BY NewerGrown
<1>2. CASE j.at \in Frozen
  <2>1. SnapOK(j, m, seen, lasts, l, r)
    BY <1>2 DEF JobOK
  <2>2. Backed(j.snap, seen2, {})
    BY <2>1, BackedGrown DEF SnapOK
  <2>3. SnapOK(j, m, seen2, lasts2, l, r)
    BY <1>1, <2>1, <2>2 DEF SnapOK, Above
  <2> QED BY <2>3 DEF JobOK
<1>3. CASE j.at \notin Frozen
  BY <1>3 DEF JobOK
<1> QED BY <1>2, <1>3

LEMMA MemoryGrown ==
    ASSUME NEW m, NEW waits, NEW on, NEW turn, NEW seen, NEW l, NEW r, NEW seen2,
           MemoryOK(m, waits, on, turn, seen, l, r),
           seen2.json = seen.json, seen2.point = seen.point,
           Archive(seen, "execs") \subseteq Archive(seen2, "execs"),
           Archive(seen, "convs") \subseteq Archive(seen2, "convs")
    PROVE  MemoryOK(m, waits, on, turn, seen2, l, r)
<1>1. Newer(seen2) = Newer(seen)
  BY NewerGrown
<1>2. Backed(m, seen2, waits)
  BY BackedGrown DEF MemoryOK
<1> QED BY <1>1, <1>2 DEF MemoryOK

(* Only the at of a job matters for the order of jobs, and its kind.        *)
LEMMA SetJob ==
    ASSUME NEW n \in Nat, NEW p \in Procs, NEW g \in Savers, NEW j \in Jobs(n),
           NEW all \in [Procs -> [Savers -> Jobs(n)]]
    PROVE  /\ [all EXCEPT ![p][g] = j] \in [Procs -> [Savers -> Jobs(n)]]
           /\ [all EXCEPT ![p][g] = j][p][g] = j
           /\ \A h \in Savers \ {g} : [all EXCEPT ![p][g] = j][p][h] = all[p][h]
OBVIOUS

JobAt(j, at) == [j EXCEPT !.at = at]

LEMMA JobAtType ==
    ASSUME NEW n \in Nat, NEW j \in Jobs(n),
           NEW at \in {"idle", "lock", "archive", "point", "json", "meta", "done", "failed"}
    PROVE  /\ JobAt(j, at) \in Jobs(n) /\ JobAt(j, at).at = at /\ JobAt(j, at).kind = j.kind
           /\ JobAt(j, at).snap = j.snap /\ JobAt(j, at).prior = j.prior
BY DEF JobAt, Jobs

LEMMA GoesOn ==
    ASSUME NEW p \in Procs, NEW g \in Savers, ShapesOK,
           NEW at \in {"idle", "lock", "archive", "point", "json", "meta", "done", "failed"},
           Goes(p, g, at)
    PROVE  /\ saver' \in [Procs -> [Savers -> Jobs(made)]]
           /\ saver'[p][g] = JobAt(saver[p][g], at)
           /\ \A h \in Savers \ {g} : saver'[p][h] = saver[p][h]
<1>1. saver' = [saver EXCEPT ![p][g] = JobAt(saver[p][g], at)]
  BY DEF Goes, JobAt, ShapesOK
<1>2. saver[p][g] \in Jobs(made) /\ made \in Nat /\ saver \in [Procs -> [Savers -> Jobs(made)]]
  BY DEF ShapesOK
<1> QED BY <1>1, <1>2, SetJob, JobAtType

-----------------------------------------------------------------------------
(* The steps.  First those that change the flags alone.                     *)

LEMMA FlagStep ==
    ASSUME NEW p, Procs = {p}, SessionInv,
           co' \in [Procs -> Coalescing],
           UNCHANGED <<mem, older, up, saver, disk, platter, history, faults>>,
           co'[p].lost => co[p].lost, co[p].pending => co'[p].pending
    PROVE  SessionInv'
<1>1. ShapesOK'
  BY DEF SessionInv, ShapesOK, history
<1>2. FilesOK(disk, platter, landed, retired, promised)'
  BY DEF SessionInv, history
<1>3. ProcessOK(p)
  BY DEF SessionInv
<1>4. ProcessOK(p)'
  BY <1>3 DEF ProcessOK, Remembered, history
<1> QED BY <1>1, <1>2, <1>4 DEF SessionInv

LEMMA NoteFileWriteStep ==
    ASSUME NEW p, Procs = {p}, SessionInv, NoteFileWrite(p)
    PROVE  SessionInv'
<1>1. /\ co' \in [Procs -> Coalescing] /\ co'[p].lost = co[p].lost
      /\ co'[p].pending = co[p].pending
  BY DEF SessionInv, ShapesOK, NoteFileWrite, Coalescing
<1> QED BY <1>1, FlagStep DEF NoteFileWrite

LEMMA EndHoldStep ==
    ASSUME NEW p, Procs = {p}, SessionInv, EndHold(p)
    PROVE  SessionInv'
<1>1. /\ co' \in [Procs -> Coalescing] /\ co'[p].lost = FALSE
      /\ co'[p].pending = co[p].pending
  BY DEF SessionInv, ShapesOK, EndHold, Coalescing
<1> QED BY <1>1, FlagStep DEF EndHold

-----------------------------------------------------------------------------
(* The session changes in memory.                                           *)

LEMMA ChangedShapes ==
    ASSUME NEW p \in Procs, ShapesOK, NEW s \in StatesTo(made + 1), Changed(p, s)
    PROVE  /\ made' = made + 1 /\ made' \in Nat
           /\ mem' \in [Procs -> StatesTo(made')]
           /\ mem'[p] = [s EXCEPT !.ver = made + 1] /\ mem'[p] \in StatesTo(made')
           /\ mem'[p].ver = made + 1 /\ mem'[p].rev = s.rev /\ mem'[p].run = s.run
           /\ mem'[p].rec = s.rec /\ mem'[p].refs = s.refs
           /\ saver \in [Procs -> [Savers -> Jobs(made')]]
           /\ disk \in Directories(made') /\ platter \in Directories(made')
           /\ retired \subseteq 1..made'
           /\ mem[p].ver <= mem'[p].ver
<1> DEFINE t == [s EXCEPT !.ver = made + 1]
<1>1. made \in Nat /\ made' = made + 1 /\ made' \in Nat /\ made <= made'
  BY DEF Changed, ShapesOK
<1>2. /\ t \in StatesTo(made') /\ t.ver = made + 1 /\ t.rev = s.rev /\ t.run = s.run
      /\ t.rec = s.rec /\ t.refs = s.refs
  BY <1>1 DEF StatesTo
<1>3. mem \in [Procs -> StatesTo(made')]
  BY <1>1, StatesGrow DEF ShapesOK
<1>4. mem' = [mem EXCEPT ![p] = t]
  BY DEF Changed
<1>5. saver \in [Procs -> [Savers -> Jobs(made')]]
  BY <1>1, JobsGrow DEF ShapesOK
<1>6. disk \in Directories(made') /\ platter \in Directories(made')
  BY <1>1, DirectoriesGrow DEF ShapesOK
<1>7. retired \subseteq 1..made'
  BY <1>1 DEF ShapesOK
<1>8. mem[p].ver <= made /\ mem[p].ver \in Int
  BY <1>1 DEF ShapesOK, StatesTo
<1> HIDE DEF t
<1>9. mem'[p] = t /\ mem' \in [Procs -> StatesTo(made')]
  BY <1>2, <1>3, <1>4
<1> QED BY <1>1, <1>2, <1>5, <1>6, <1>7, <1>8, <1>9 DEF t

LEMMA MemoryStep ==
    ASSUME NEW p, Procs = {p}, SessionInv, p \in up,
           NEW s \in StatesTo(made + 1), Changed(p, s),
           s.rev = mem[p].rev, s.refs = mem[p].refs,
           s.rec = mem[p].rec \/ (s.rec = 0 /\ saver[p]["turn"].at = "idle"),
           1..(s.run - 1) \subseteq Archive(disk, "execs") \cup older'[p],
           older' \in [Procs -> SUBSET Nat],
           co' = [co EXCEPT ![p] = Dirty(@)],
           UNCHANGED <<up, saver, disk, platter, promised, landed, retired, faults>>
    PROVE  SessionInv'
<1>0. ShapesOK /\ ProcessOK(p) /\ p \in Procs /\ mem[p] \in StatesTo(made) /\ made \in Nat
  BY DEF SessionInv, ShapesOK
<1>1. /\ made' = made + 1 /\ made' \in Nat
      /\ mem' \in [Procs -> StatesTo(made')] /\ mem'[p] \in StatesTo(made')
      /\ mem'[p].ver = made + 1 /\ mem'[p].rev = s.rev /\ mem'[p].run = s.run
      /\ mem'[p].rec = s.rec /\ mem'[p].refs = s.refs
      /\ saver \in [Procs -> [Savers -> Jobs(made')]]
      /\ disk \in Directories(made') /\ platter \in Directories(made')
      /\ retired \subseteq 1..made' /\ mem[p].ver <= mem'[p].ver
  BY <1>0, ChangedShapes
<1>2. co' \in [Procs -> Coalescing] /\ co'[p].lost = co[p].lost
      /\ (~co[p].lost => co'[p].pending)
  BY <1>0 DEF ShapesOK, Dirty, Coalescing
<1>3. ShapesOK'
  BY <1>0, <1>1, <1>2 DEF ShapesOK
<1>4. FilesOK(disk, platter, landed, retired, promised)'
  BY DEF SessionInv
<1>5. MemoryOK(mem'[p], older'[p], p \in up, saver[p]["turn"], disk, landed, retired)
  <2>1. MemoryOK(mem[p], older[p], p \in up, saver[p]["turn"], disk, landed, retired)
    BY <1>0 DEF ProcessOK
  <2>2. Newer(disk).ver \in Int /\ mem[p].ver \in Int /\ mem'[p].ver \in Int
    BY <1>0, <1>1, NewerType DEF ShapesOK, StatesTo
  <2>3. Backed(mem'[p], disk, older'[p])
    BY <1>1, <2>1 DEF MemoryOK, Backed, Closed
  <2>4. 0 \notin retired
    BY <1>0 DEF ShapesOK
  <2> QED BY <1>1, <2>1, <2>2, <2>3, <2>4 DEF MemoryOK
<1>6. ASSUME NEW g \in Savers
      PROVE  JobOK(saver[p][g], mem'[p], disk, platter, landed, retired)
  <2>1. JobOK(saver[p][g], mem[p], disk, platter, landed, retired)
    BY <1>0 DEF ProcessOK
  <2>2. OfPoint(saver[p][g]) => s.rec = mem[p].rec
    BY <1>0 DEF ProcessOK, Ordered, OfPoint
  <2>3. mem[p] \in StatesTo(made') /\ saver[p][g] \in Jobs(made')
    BY <1>0, <1>1, StatesGrow
  <2>4. mem[p].rev \in Int
    BY <1>0 DEF StatesTo
  <2> QED BY <1>1, <2>1, <2>2, <2>3, <2>4, JobAlong
<1>7. ProcessOK(p)'
  BY <1>0, <1>2, <1>5, <1>6 DEF ProcessOK, Remembered
<1> QED BY <1>3, <1>4, <1>7 DEF SessionInv

LEMMA MutateStep ==
    ASSUME NEW p, Procs = {p}, SessionInv, NEW g \in Savers, Mutate(p, g)
    PROVE  SessionInv'
<1>1. mem[p] \in StatesTo(made + 1) /\ older' \in [Procs -> SUBSET Nat]
  <2>1. mem[p] \in StatesTo(made) /\ made \in Nat /\ older \in [Procs -> SUBSET Nat]
    BY DEF SessionInv, ShapesOK
  <2> QED BY <2>1, StatesGrow DEF Mutate
<1>2. 1..(mem[p].run - 1) \subseteq Archive(disk, "execs") \cup older'[p]
  BY DEF SessionInv, ProcessOK, MemoryOK, Backed, Mutate
<1> QED BY <1>1, <1>2, MemoryStep DEF Mutate, Free, At

LEMMA RunBegun ==
    ASSUME NEW n \in Nat, NEW m \in StatesTo(n)
    PROVE  LET t == [m EXCEPT !.run = @ + 1, !.rec = 0] IN
           /\ t \in StatesTo(n) /\ t.rev = m.rev /\ t.refs = m.refs
           /\ t.rec = 0 /\ t.run = m.run + 1 /\ m.run \in Nat
<1>1. 0 \in 0..n
  OBVIOUS
<1>2. m.run \in Nat /\ m.run + 1 \in Nat
  BY DEF StatesTo
<1> QED BY <1>1, <1>2 DEF StatesTo

LEMMA BeginRunStep ==
    ASSUME NEW p, Procs = {p}, SessionInv, BeginRun(p)
    PROVE  SessionInv'
<1> DEFINE s == [mem[p] EXCEPT !.run = @ + 1, !.rec = 0]
<1>0. mem[p] \in StatesTo(made) /\ made \in Nat /\ older \in [Procs -> SUBSET Nat]
      /\ mem[p] \in StatesTo(made + 1) /\ p \in Procs
  BY StatesGrow DEF SessionInv, ShapesOK
<1>1. /\ s \in StatesTo(made + 1) /\ s.rev = mem[p].rev /\ s.refs = mem[p].refs
      /\ s.rec = 0 /\ s.run = mem[p].run + 1 /\ mem[p].run \in Nat
  <2>1. made + 1 \in Nat
    BY <1>0
  <2> QED BY <1>0, <2>1, RunBegun
<1> HIDE DEF s
<1>2. /\ older' \in [Procs -> SUBSET Nat]
      /\ older'[p] = IF mem[p].run = 0 THEN older[p] ELSE older[p] \cup {mem[p].run}
  BY <1>0, <1>1 DEF BeginRun
<1>3. 1..(mem[p].run - 1) \subseteq Archive(disk, "execs") \cup older[p]
  BY DEF SessionInv, ProcessOK, MemoryOK, Backed
<1>4. 1..(s.run - 1) \subseteq Archive(disk, "execs") \cup older'[p]
  BY <1>1, <1>2, <1>3
<1>5. Changed(p, s) /\ p \in up /\ saver[p]["turn"].at = "idle"
  BY DEF BeginRun, Free, At, s
<1> QED BY <1>1, <1>2, <1>4, <1>5, MemoryStep DEF BeginRun

-----------------------------------------------------------------------------
(* A save is asked for.                                                     *)

LEMMA NoneType == ASSUME NEW n \in Nat PROVE None \in StatesTo(n)
<1>1. 0 \in 0..n
  OBVIOUS
<1> QED BY <1>1 DEF None, StatesTo

LEMMA WantsJob ==
    ASSUME NEW n \in Nat, NEW p \in Procs, NEW g \in Savers, NEW kind \in Kinds,
           saver \in [Procs -> [Savers -> Jobs(n)]], mem[p].rec \in 0..n, Wants(p, g, kind)
    PROVE  /\ saver' \in [Procs -> [Savers -> Jobs(n)]]
           /\ saver'[p][g] \in Jobs(n)
           /\ saver'[p][g].at = "lock" /\ saver'[p][g].kind = kind
           /\ saver'[p][g].prior = mem[p].rec
           /\ \A h \in Savers \ {g} : saver'[p][h] = saver[p][h]
<1> DEFINE j == [Idle EXCEPT !.at = "lock", !.kind = kind, !.prior = mem[p].rec]
<1>1. j \in Jobs(n) /\ j.at = "lock" /\ j.kind = kind /\ j.prior = mem[p].rec
  BY NoneType DEF Idle, Jobs
<1>2. saver' = [saver EXCEPT ![p][g] = j]
  BY DEF Wants
<1> HIDE DEF j
<1> QED BY <1>1, <1>2, SetJob

LEMMA NobodyPoints ==
    ASSUME NEW p \in Procs, NEW g \in Savers, Free(p, g), Ordered(saver[p])
    PROVE  \A h \in Savers : ~OfPoint(saver[p][h])
BY SaversAssumption DEF Free, At, Pointing, Ordered, OfPoint

(* The flag is taken and a save goes for the writer's lock.                 *)
LEMMA AskStep ==
    ASSUME NEW p, Procs = {p}, SessionInv, NEW g \in Savers, Free(p, g),
           NEW kind \in Kinds \ {"recovery", "retire"}, Wants(p, g, kind),
           co' \in [Procs -> Coalescing], co'[p].lost = co[p].lost,
           UNCHANGED <<mem, older, up, disk, platter, history, faults>>
    PROVE  SessionInv'
<1>0. ShapesOK /\ ProcessOK(p) /\ p \in Procs /\ mem[p] \in StatesTo(made) /\ made \in Nat
      /\ p \in up
  BY DEF SessionInv, ShapesOK, Free, At
<1>1. mem[p].rec \in 0..made
  BY <1>0 DEF StatesTo
<1>2. /\ saver' \in [Procs -> [Savers -> Jobs(made)]]
      /\ saver'[p][g].at = "lock" /\ saver'[p][g].kind = kind
      /\ \A h \in Savers \ {g} : saver'[p][h] = saver[p][h]
  BY <1>0, <1>1, WantsJob DEF ShapesOK
<1>3. \A h \in Savers : ~OfPoint(saver[p][h]) /\ ~OfPoint(saver'[p][h])
  <2>1. \A h \in Savers : ~OfPoint(saver[p][h])
    BY <1>0, NobodyPoints DEF ProcessOK
  <2>2. ~OfPoint(saver'[p][g])
    BY <1>2 DEF OfPoint
  <2> QED BY <1>2, <2>1, <2>2
<1>4. ShapesOK'
  BY <1>0, <1>2 DEF ShapesOK, history
<1>5. FilesOK(disk, platter, landed, retired, promised)'
  BY DEF SessionInv, history
<1>6. MemoryOK(mem[p], older[p], p \in up, saver'[p]["turn"], disk, landed, retired)
  <2>1. MemoryOK(mem[p], older[p], p \in up, saver[p]["turn"], disk, landed, retired)
    BY <1>0 DEF ProcessOK
  <2>2. ~Claiming(saver[p]["turn"])
    BY <1>3, SaversAssumption DEF OfPoint, Claiming
  <2> QED BY <2>1, <2>2 DEF MemoryOK
<1>7. ASSUME NEW h \in Savers
      PROVE  JobOK(saver'[p][h], mem[p], disk, platter, landed, retired)
  <2>1. CASE h = g
    BY <1>2, <1>3, <2>1 DEF JobOK, Frozen
  <2>2. CASE h # g
    BY <1>0, <1>2, <2>2 DEF ProcessOK
  <2> QED BY <2>1, <2>2
<1>8. Ordered(saver'[p])
  BY <1>0, <1>2, <1>3 DEF ProcessOK, Ordered
<1>9. faults = 0 => Remembered(co'[p], saver'[p], mem[p], disk)
  <2>1. Carried(saver'[p], mem[p])
    BY <1>2 DEF Carried
  <2> QED BY <1>0, <1>2, <2>1 DEF ProcessOK, Remembered
<1>10. ProcessOK(p)'
  BY <1>0, <1>6, <1>7, <1>8, <1>9 DEF ProcessOK, history
<1> QED BY <1>4, <1>5, <1>10 DEF SessionInv

LEMMA ClaimedFlag ==
    ASSUME NEW p \in Procs, ShapesOK, co' = [co EXCEPT ![p] = Claimed(@)]
    PROVE  co' \in [Procs -> Coalescing] /\ co'[p].lost = co[p].lost
BY DEF ShapesOK, Claimed, Coalescing

LEMMA BoundaryStep ==
    ASSUME NEW p, Procs = {p}, SessionInv, NEW g \in Savers, Boundary(p, g)
    PROVE  SessionInv'
<1>1. co' \in [Procs -> Coalescing] /\ co'[p].lost = co[p].lost
  BY ClaimedFlag DEF SessionInv, Boundary
<1> QED BY <1>1, AskStep DEF Boundary, Kinds

LEMMA InterimStep ==
    ASSUME NEW p, Procs = {p}, SessionInv, Interim(p)
    PROVE  SessionInv'
<1>1. co' \in [Procs -> Coalescing] /\ co'[p].lost = co[p].lost
  BY DEF SessionInv, ShapesOK, Coalescing, Interim
<1>2. CASE co[p].wrote
  <2>1. Wants(p, "turn", "save")
    BY <1>2 DEF Interim
  <2> QED BY <1>1, <2>1, SaversAssumption, AskStep DEF Interim, Kinds
<1>3. CASE ~co[p].wrote
  <2>1. Wants(p, "turn", "interim")
    BY <1>3 DEF Interim
  <2> QED BY <1>1, <2>1, SaversAssumption, AskStep DEF Interim, Kinds
<1> QED BY <1>2, <1>3

(* A recovery point is claimed, or given up: nobody saves beside it.        *)
LEMMA PointStep ==
    ASSUME NEW p, Procs = {p}, SessionInv, p \in up, Alone(p),
           NEW s \in StatesTo(made + 1), Changed(p, s),
           s.rev = mem[p].rev, s.refs = mem[p].refs, s.run = mem[p].run,
           NEW kind \in {"recovery", "retire"}, Wants(p, "turn", kind),
           kind = "recovery" => s.rec = made + 1,
           kind = "retire" => s.rec = 0 /\ mem[p].rec # 0,
           co' = [co EXCEPT ![p] = Claimed(@)],
           UNCHANGED <<older, up, disk, platter, promised, landed, retired, faults>>
    PROVE  SessionInv'
<1>0. ShapesOK /\ ProcessOK(p) /\ p \in Procs /\ mem[p] \in StatesTo(made) /\ made \in Nat
      /\ retired \subseteq 1..made
  BY DEF SessionInv, ShapesOK
<1>1. /\ made' = made + 1 /\ made' \in Nat
      /\ mem' \in [Procs -> StatesTo(made')] /\ mem'[p] \in StatesTo(made')
      /\ mem'[p].ver = made + 1 /\ mem'[p].rev = s.rev /\ mem'[p].run = s.run
      /\ mem'[p].rec = s.rec /\ mem'[p].refs = s.refs
      /\ saver \in [Procs -> [Savers -> Jobs(made')]]
      /\ disk \in Directories(made') /\ platter \in Directories(made')
      /\ retired \subseteq 1..made' /\ mem[p].ver <= mem'[p].ver
  BY <1>0, ChangedShapes
<1>2. co' \in [Procs -> Coalescing] /\ co'[p].lost = co[p].lost
  BY <1>0, ClaimedFlag
<1>3. /\ saver' \in [Procs -> [Savers -> Jobs(made')]]
      /\ saver'[p]["turn"].at = "lock" /\ saver'[p]["turn"].kind = kind
      /\ saver'[p]["turn"].prior = mem[p].rec
      /\ \A h \in Savers \ {"turn"} : saver'[p][h].at = "idle"
  <2>1. mem[p].rec \in 0..made'
    BY <1>0, <1>1 DEF StatesTo
  <2>2. kind \in Kinds
    BY DEF Kinds
  <2>3. /\ saver' \in [Procs -> [Savers -> Jobs(made')]]
        /\ saver'[p]["turn"].at = "lock" /\ saver'[p]["turn"].kind = kind
        /\ saver'[p]["turn"].prior = mem[p].rec
        /\ \A h \in Savers \ {"turn"} : saver'[p][h] = saver[p][h]
    BY <1>0, <1>1, <2>1, <2>2, SaversAssumption, WantsJob
  <2> QED BY <2>3 DEF Alone
<1>4. ShapesOK'
  BY <1>0, <1>1, <1>2, <1>3 DEF ShapesOK
<1>5. FilesOK(disk, platter, landed, retired, promised)'
  BY DEF SessionInv
<1>6. mem[p].rec \in landed \cup {0} /\ mem[p].rec \notin retired
  BY <1>0, SaversAssumption DEF ProcessOK, MemoryOK, Alone, Claiming
<1>7. MemoryOK(mem'[p], older[p], p \in up, saver'[p]["turn"], disk, landed, retired)
  <2>1. MemoryOK(mem[p], older[p], p \in up, saver[p]["turn"], disk, landed, retired)
    BY <1>0 DEF ProcessOK
  <2>2. Newer(disk).ver \in Int /\ mem[p].ver \in Int /\ mem'[p].ver \in Int
    BY <1>0, <1>1, NewerType DEF ShapesOK, StatesTo
  <2>3. Backed(mem'[p], disk, older[p])
    BY <1>1, <2>1 DEF MemoryOK, Backed, Closed
  <2>4. mem'[p].rec \notin retired
    BY <1>0, <1>1
  <2>5. mem'[p].rec \in landed \cup {0} \/ Claiming(saver'[p]["turn"])
    BY <1>1, <1>3 DEF Claiming
  <2> QED BY <1>1, <2>1, <2>2, <2>3, <2>4, <2>5 DEF MemoryOK
<1>8. ASSUME NEW h \in Savers
      PROVE  JobOK(saver'[p][h], mem'[p], disk, platter, landed, retired)
  <2>1. CASE h = "turn"
    BY <1>1, <1>3, <1>6, <2>1 DEF JobOK, Frozen
  <2>2. CASE h # "turn"
    BY <1>3, <2>2 DEF JobOK, Frozen, OfPoint
  <2> QED BY <2>1, <2>2
<1>9. Ordered(saver'[p])
  BY <1>3 DEF Ordered, OfPoint
<1>10. faults = 0 => Remembered(co'[p], saver'[p], mem'[p], disk)
  <2>1. Carried(saver'[p], mem'[p])
    BY <1>3, SaversAssumption DEF Carried
  <2>2. \A h \in Savers : saver'[p][h].at # "failed"
    BY <1>3
  <2> QED BY <1>0, <1>2, <2>1, <2>2 DEF ProcessOK, Remembered
<1>11. ProcessOK(p)'
  BY <1>0, <1>7, <1>8, <1>9, <1>10 DEF ProcessOK
<1> QED BY <1>4, <1>5, <1>11 DEF SessionInv

LEMMA RecMarked ==
    ASSUME NEW n \in Nat, NEW m \in StatesTo(n), NEW r \in 0..n
    PROVE  LET t == [m EXCEPT !.rec = r] IN
           /\ t \in StatesTo(n) /\ t.rev = m.rev /\ t.refs = m.refs
           /\ t.rec = r /\ t.run = m.run
BY DEF StatesTo

LEMMA SaveRecoveryStep ==
    ASSUME NEW p, Procs = {p}, SessionInv, SaveRecovery(p)
    PROVE  SessionInv'
<1> DEFINE s == [mem[p] EXCEPT !.rec = made + 1]
<1>1. made + 1 \in Nat /\ made + 1 \in 0..(made + 1) /\ mem[p] \in StatesTo(made + 1)
  BY StatesGrow DEF SessionInv, ShapesOK
<1>2. /\ s \in StatesTo(made + 1) /\ s.rev = mem[p].rev /\ s.refs = mem[p].refs
      /\ s.rec = made + 1 /\ s.run = mem[p].run
  BY <1>1, RecMarked
<1>3. Changed(p, s)
  BY DEF SaveRecovery
<1> HIDE DEF s
<1> QED BY <1>2, <1>3, PointStep DEF SaveRecovery

LEMMA RetireStep ==
    ASSUME NEW p, Procs = {p}, SessionInv, Retire(p)
    PROVE  SessionInv'
<1> DEFINE s == [mem[p] EXCEPT !.rec = 0]
<1>1. made + 1 \in Nat /\ 0 \in 0..(made + 1) /\ mem[p] \in StatesTo(made + 1)
  BY StatesGrow DEF SessionInv, ShapesOK
<1>2. /\ s \in StatesTo(made + 1) /\ s.rev = mem[p].rev /\ s.refs = mem[p].refs
      /\ s.rec = 0 /\ s.run = mem[p].run
  BY <1>1, RecMarked
<1>3. Changed(p, s)
  BY DEF Retire
<1> HIDE DEF s
<1> QED BY <1>2, <1>3, PointStep DEF Retire

-----------------------------------------------------------------------------
(* The archives get more entries, and nothing else on the disk changes.     *)

More(d, e) ==
    /\ e.json = d.json /\ e.point = d.point /\ e.meta = d.meta
    /\ d.execs \subseteq e.execs /\ d.convs \subseteq e.convs /\ d.dirs \subseteq e.dirs

LEMMA StandsMore ==
    ASSUME NEW n \in Nat, NEW d \in Directories(n), NEW e \in Directories(n),
           NEW l, NEW r, NEW safe, Stands(d, l, r, safe), More(d, e)
    PROVE  Stands(e, l, r, safe)
<1>1. Newer(e) = Newer(d)
  BY NewerGrown DEF More
<1>2. Good(e)
  BY GoodGrown DEF More, Stands, Good
<1> QED BY <1>1, <1>2 DEF Stands

LEMMA ArchivesMore ==
    ASSUME NEW d, NEW e, More(d, e)
    PROVE  /\ Newer(e) = Newer(d)
           /\ Archive(d, "execs") \subseteq Archive(e, "execs")
           /\ Archive(d, "convs") \subseteq Archive(e, "convs")
BY Grown DEF More

LEMMA FilesMore ==
    ASSUME NEW n \in Nat, NEW seen \in Directories(n), NEW seen2 \in Directories(n),
           NEW lasts \in Directories(n), NEW lasts2 \in Directories(n),
           NEW l, NEW r, NEW safe,
           FilesOK(seen, lasts, l, r, safe), More(seen, seen2), More(lasts, lasts2),
           lasts2.execs \subseteq seen2.execs, lasts2.convs \subseteq seen2.convs
    PROVE  FilesOK(seen2, lasts2, l, r, safe)
<1>1. Stands(seen2, l, r, safe) /\ Stands(lasts2, l, r, safe)
  BY StandsMore DEF FilesOK
<1>2. Newer(seen2) = Newer(seen) /\ Newer(lasts2) = Newer(lasts)
  BY ArchivesMore
<1> QED BY <1>1, <1>2 DEF FilesOK

LEMMA NobodyWrites ==
    ASSUME NEW p \in Procs, Writing(p) = {}, NEW h \in Savers
    PROVE  saver[p][h].at \in {"idle", "lock"}
BY DEF Writing

LEMMA CompactStep ==
    ASSUME NEW p, Procs = {p}, SessionInv, NEW g \in Savers, Compact(p, g)
    PROVE  SessionInv'
<1>0. /\ ShapesOK /\ ProcessOK(p) /\ p \in Procs /\ mem[p] \in StatesTo(made) /\ made \in Nat
      /\ disk \in Directories(made) /\ platter \in Directories(made)
      /\ p \in up /\ Free(p, g) /\ mem[p].refs = {}
      /\ FilesOK(disk, platter, landed, retired, promised)
  BY DEF SessionInv, ShapesOK, Compact, Free, At
<1>1. \A h \in Savers : saver[p][h].at \in {"idle", "lock"} /\ ~OfPoint(saver[p][h])
  BY <1>0, NobodyWrites, NobodyPoints DEF Compact, ProcessOK
<1>2. CASE /\ disk' = [disk EXCEPT !.convs = @ \cup {made}, !.dirs = @ \cup {"convs"}]
           /\ platter' = [platter EXCEPT !.convs = disk'.convs]
           /\ Changed(p, [mem[p] EXCEPT !.refs = @ \cup {made}])
           /\ co' = [co EXCEPT ![p] = Dirty(@)]
           /\ Wants(p, g, "compaction")
           /\ UNCHANGED faults
  <2> DEFINE s == [mem[p] EXCEPT !.refs = @ \cup {made}]
  <2>0. UNCHANGED <<older, up, promised, landed, retired>>
    BY DEF Compact
  <2>1. /\ s \in StatesTo(made + 1) /\ s.rev = mem[p].rev /\ s.refs = {made}
        /\ s.rec = mem[p].rec /\ s.run = mem[p].run
    <3>1. mem[p] \in StatesTo(made + 1) /\ made + 1 \in Nat
      BY <1>0, StatesGrow
    <3>2. mem[p].refs \cup {made} \in SUBSET Nat
      BY <1>0
    <3> QED BY <1>0, <3>1, <3>2 DEF StatesTo
  <2>2. Changed(p, s)
    BY <1>2
  <2> HIDE DEF s
  <2>3. /\ made' = made + 1 /\ made' \in Nat
        /\ mem' \in [Procs -> StatesTo(made')] /\ mem'[p] \in StatesTo(made')
        /\ mem'[p].ver = made + 1 /\ mem'[p].rev = s.rev /\ mem'[p].run = s.run
        /\ mem'[p].rec = s.rec /\ mem'[p].refs = s.refs
        /\ saver \in [Procs -> [Savers -> Jobs(made')]]
        /\ disk \in Directories(made') /\ platter \in Directories(made')
        /\ retired \subseteq 1..made' /\ mem[p].ver <= mem'[p].ver
    BY <1>0, <2>1, <2>2, ChangedShapes
  <2>4. /\ disk' \in Directories(made') /\ More(disk, disk')
        /\ disk'.convs = disk.convs \cup {made} /\ disk'.dirs = disk.dirs \cup {"convs"}
        /\ disk'.execs = disk.execs
    BY <1>0, <1>2, <2>3 DEF Directories, More
  <2>5. /\ platter' \in Directories(made') /\ More(platter, platter')
        /\ platter'.convs = disk'.convs /\ platter'.execs = platter.execs
    <3>1. platter.convs \subseteq disk'.convs /\ disk'.convs \in SUBSET Nat
      BY <1>0, <2>4 DEF FilesOK, Directories
    <3> QED BY <1>2, <2>3, <3>1 DEF Directories, More
  <2>6. FilesOK(disk', platter', landed, retired, promised)
    BY <1>0, <2>3, <2>4, <2>5, FilesMore DEF FilesOK
  <2>7. co' \in [Procs -> Coalescing] /\ co'[p].lost = co[p].lost
    BY <1>0, <1>2 DEF ShapesOK, Dirty, Coalescing
  <2>8. /\ saver' \in [Procs -> [Savers -> Jobs(made')]]
        /\ saver'[p][g].at = "lock" /\ saver'[p][g].kind = "compaction"
        /\ \A h \in Savers \ {g} : saver'[p][h] = saver[p][h]
    <3>1. mem[p].rec \in 0..made' /\ "compaction" \in Kinds
      BY <1>0, <2>3 DEF StatesTo, Kinds
    <3> QED BY <1>0, <1>2, <2>3, <3>1, WantsJob
  <2>9. \A h \in Savers : saver'[p][h].at \in {"idle", "lock"} /\ ~OfPoint(saver'[p][h])
    BY <1>1, <2>8 DEF OfPoint
  <2>10. ShapesOK'
    BY <1>0, <1>2, <2>0, <2>3, <2>4, <2>5, <2>7, <2>8 DEF ShapesOK
  <2>11. MemoryOK(mem'[p], older[p], p \in up, saver'[p]["turn"], disk', landed, retired)
    <3>1. MemoryOK(mem[p], older[p], p \in up, saver[p]["turn"], disk', landed, retired)
      BY <1>0, <2>4, ArchivesMore, MemoryGrown DEF ProcessOK, More
    <3>2. Newer(disk').ver \in Int /\ mem[p].ver \in Int /\ mem'[p].ver \in Int
      BY <1>0, <2>3, <2>4, NewerType DEF StatesTo
    <3>3. Archive(disk', "convs") = disk'.convs
      BY <2>4 DEF Archive
    <3>4. Backed(mem'[p], disk', older[p])
      BY <2>1, <2>3, <2>4, <3>1, <3>3 DEF MemoryOK, Backed, Closed
    <3>5. ~Claiming(saver[p]["turn"])
      BY <1>1, SaversAssumption DEF Claiming, OfPoint
    <3> QED BY <2>1, <2>3, <3>1, <3>2, <3>4, <3>5 DEF MemoryOK
  <2>12. \A h \in Savers : JobOK(saver'[p][h], mem'[p], disk', platter', landed, retired)
    BY <2>9 DEF JobOK, Frozen
  <2>13. Ordered(saver'[p])
    BY <2>9 DEF Ordered
  <2>14. faults = 0 => Remembered(co'[p], saver'[p], mem'[p], disk')
    <3>1. Carried(saver'[p], mem'[p])
      BY <2>8 DEF Carried
    <3> QED BY <1>0, <2>7, <2>9, <3>1 DEF ProcessOK, Remembered
  <2>15. ProcessOK(p)'
    BY <1>0, <1>2, <2>0, <2>11, <2>12, <2>13, <2>14 DEF ProcessOK
  <2> QED BY <2>0, <2>6, <2>10, <2>15 DEF SessionInv
<1>3. CASE /\ Fails("write")
           /\ disk' = [disk EXCEPT !.dirs = @ \cup {"convs"}]
           /\ UNCHANGED <<mem, co, saver, platter, made>>
  <2>0. UNCHANGED <<older, up, promised, landed, retired>> /\ faults' # 0 /\ faults' \in Nat
    BY <1>0, <1>3 DEF Compact, Fails, ShapesOK
  <2>1. disk' \in Directories(made) /\ More(disk, disk')
    BY <1>0, <1>3 DEF Directories, More
  <2>2. More(platter, platter)
    BY DEF More
  <2>3. FilesOK(disk', platter, landed, retired, promised)
    BY <1>0, <2>1, <2>2, FilesMore DEF FilesOK, More
  <2>4. ShapesOK'
    BY <1>0, <1>3, <2>0, <2>1 DEF ShapesOK
  <2>5. MemoryOK(mem[p], older[p], p \in up, saver[p]["turn"], disk', landed, retired)
    BY <1>0, <2>1, ArchivesMore, MemoryGrown DEF ProcessOK, More
  <2>6. \A h \in Savers : JobOK(saver[p][h], mem[p], disk', platter, landed, retired)
    BY <1>1 DEF JobOK, Frozen
  <2>7. ProcessOK(p)'
    BY <1>0, <1>3, <2>0, <2>5, <2>6 DEF ProcessOK
  <2> QED BY <1>3, <2>0, <2>3, <2>4, <2>7 DEF SessionInv
<1> QED BY <1>2, <1>3 DEF Compact

-----------------------------------------------------------------------------
(* The writer: its lock, the archives, and the snapshot.                    *)

LEMMA LockStep ==
    ASSUME NEW p, Procs = {p}, SessionInv, NEW g \in Savers, Lock(p, g)
    PROVE  SessionInv'
<1>0. /\ ShapesOK /\ ProcessOK(p) /\ p \in Procs /\ p \in up /\ saver[p][g].at = "lock"
      /\ made \in Nat /\ saver[p][g] \in Jobs(made)
      /\ UNCHANGED <<mem, older, up, co, disk, platter, history, faults>>
  BY DEF SessionInv, ShapesOK, Lock, At
<1>1. \A h \in Savers : saver[p][h].at \in {"idle", "lock"}
  BY <1>0, NobodyWrites DEF Lock
<1>2. /\ saver' \in [Procs -> [Savers -> Jobs(made)]]
      /\ saver'[p][g].at = "archive" /\ saver'[p][g].kind = saver[p][g].kind
      /\ saver'[p][g].prior = saver[p][g].prior
      /\ \A h \in Savers \ {g} : saver'[p][h] = saver[p][h]
  <2>1. Goes(p, g, "archive")
    BY DEF Lock
  <2>2. /\ saver' \in [Procs -> [Savers -> Jobs(made)]]
        /\ saver'[p][g] = JobAt(saver[p][g], "archive")
        /\ \A h \in Savers \ {g} : saver'[p][h] = saver[p][h]
    BY <1>0, <2>1, GoesOn
  <2> QED BY <1>0, <2>2, JobAtType
<1>3. \A h \in Savers : OfPoint(saver'[p][h]) <=> OfPoint(saver[p][h])
  BY <1>0, <1>2 DEF OfPoint
<1>4. ShapesOK'
  BY <1>0, <1>2 DEF ShapesOK, history
<1>5. FilesOK(disk, platter, landed, retired, promised)'
  BY <1>0 DEF SessionInv, history
<1>6. MemoryOK(mem[p], older[p], p \in up, saver'[p]["turn"], disk, landed, retired)
  <2>1. Claiming(saver[p]["turn"]) => Claiming(saver'[p]["turn"])
    BY <1>0, <1>2, SaversAssumption DEF Claiming
  <2> QED BY <1>0, <2>1 DEF ProcessOK, MemoryOK
<1>7. ASSUME NEW h \in Savers
      PROVE  JobOK(saver'[p][h], mem[p], disk, platter, landed, retired)
  <2>1. JobOK(saver[p][h], mem[p], disk, platter, landed, retired)
    BY <1>0 DEF ProcessOK
  <2>2. CASE h = g
    BY <1>2, <1>3, <2>1, <2>2 DEF JobOK, Frozen
  <2> QED BY <1>2, <2>1, <2>2
<1>8. Ordered(saver'[p])
  <2>1. \A h \in Savers \ {g} : saver'[p][h].at \in {"idle", "lock"}
    BY <1>1, <1>2
  <2>2. ASSUME NEW h \in Savers, OfPoint(saver'[p][h])
        PROVE  h = "turn" /\ \A k \in Savers \ {h} : saver'[p][k].at = "idle"
    <3>1. h = "turn" /\ \A k \in Savers \ {h} : saver[p][k].at = "idle"
      BY <1>0, <1>3, <2>2 DEF ProcessOK, Ordered
    <3>2. h = g
      BY <1>0, <3>1
    <3> QED BY <1>2, <3>1, <3>2
  <2> QED BY <2>1, <2>2 DEF Ordered
<1>9. faults = 0 => Remembered(co[p], saver'[p], mem[p], disk)
  <2>1. Carried(saver'[p], mem[p])
    BY <1>2 DEF Carried
  <2>2. \A h \in Savers : saver'[p][h].at # "failed"
    BY <1>1, <1>2
  <2> QED BY <1>0, <2>1, <2>2 DEF ProcessOK, Remembered
<1>10. ProcessOK(p)'
  BY <1>0, <1>6, <1>7, <1>8, <1>9 DEF ProcessOK, history
<1> QED BY <1>4, <1>5, <1>10 DEF SessionInv

LEMMA ArchivedRuns ==
    ASSUME NEW p \in Procs, NEW runs \in SUBSET older[p], ShapesOK,
           FilesOK(disk, platter, landed, retired, promised), Archived(p, runs)
    PROVE  /\ disk' \in Directories(made) /\ platter' \in Directories(made)
           /\ More(disk, disk') /\ More(platter, platter')
           /\ platter'.execs \subseteq disk'.execs /\ platter'.convs \subseteq disk'.convs
           /\ FilesOK(disk', platter', landed, retired, promised)
           /\ Archive(disk, "execs") \cup runs \subseteq Archive(disk', "execs")
<1>f. FilesOK(disk, platter, landed, retired, promised)
  OBVIOUS
<1>0. /\ disk \in Directories(made) /\ platter \in Directories(made) /\ made \in Nat
      /\ runs \in SUBSET Nat
      /\ platter.execs \subseteq disk.execs /\ platter.convs \subseteq disk.convs
  BY DEF ShapesOK, FilesOK
<1>1. CASE older[p] = {}
  <2>1. disk' = disk /\ platter' = platter /\ runs = {}
    BY <1>1 DEF Archived
  <2>2. More(disk, disk) /\ More(platter, platter)
    BY DEF More
  <2> QED BY <1>0, <1>f, <2>1, <2>2
<1>2. CASE older[p] # {}
  <2>1. /\ disk' = [disk EXCEPT !.execs = @ \cup runs, !.dirs = @ \cup {"execs"}]
        /\ platter' = [platter EXCEPT !.execs = disk'.execs]
    BY <1>2 DEF Archived
  <2>2. /\ disk' \in Directories(made) /\ More(disk, disk')
        /\ disk'.execs = disk.execs \cup runs /\ "execs" \in disk'.dirs
        /\ disk'.convs = disk.convs
    BY <1>0, <2>1 DEF Directories, More
  <2>3. /\ platter' \in Directories(made) /\ More(platter, platter')
        /\ platter'.execs = disk'.execs /\ platter'.convs = platter.convs
    <3>1. disk'.execs \in SUBSET Nat /\ platter.execs \subseteq disk'.execs
      BY <1>0, <2>2 DEF Directories
    <3> QED BY <1>0, <2>1, <3>1 DEF Directories, More
  <2>4. platter'.execs \subseteq disk'.execs /\ platter'.convs \subseteq disk'.convs
    BY <1>0, <2>2, <2>3
  <2>5. Archive(disk', "execs") = disk'.execs /\ Archive(disk, "execs") \subseteq disk.execs
    BY <1>0, <2>2, ArchiveType DEF Archive
  <2> QED BY <1>0, <2>2, <2>3, <2>4, <2>5, FilesMore
<1> QED BY <1>1, <1>2

LEMMA JobGoes ==
    ASSUME NEW p \in Procs, NEW g \in Savers, ShapesOK,
           NEW at \in {"idle", "lock", "archive", "point", "json", "meta", "done", "failed"},
           Goes(p, g, at)
    PROVE  /\ saver' \in [Procs -> [Savers -> Jobs(made)]]
           /\ saver'[p][g].at = at /\ saver'[p][g].kind = saver[p][g].kind
           /\ saver'[p][g].snap = saver[p][g].snap /\ saver'[p][g].prior = saver[p][g].prior
           /\ \A h \in Savers \ {g} : saver'[p][h] = saver[p][h]
<1>1. /\ saver' \in [Procs -> [Savers -> Jobs(made)]]
      /\ saver'[p][g] = JobAt(saver[p][g], at)
      /\ \A h \in Savers \ {g} : saver'[p][h] = saver[p][h]
  BY GoesOn
<1>2. saver[p][g] \in Jobs(made) /\ made \in Nat
  BY DEF ShapesOK
<1> QED BY <1>1, <1>2, JobAtType

(* The one that writes, and those beside it.                                *)
LEMMA Beside ==
    ASSUME NEW jobs, NEW g \in Savers, Ordered(jobs), jobs[g].at \notin {"idle", "lock"}
    PROVE  /\ \A h \in Savers \ {g} : jobs[h].at \in {"idle", "lock"} /\ ~OfPoint(jobs[h])
           /\ OfPoint(jobs[g]) => g = "turn" /\ \A h \in Savers \ {g} : jobs[h].at = "idle"
BY DEF Ordered

LEMMA OrderStays ==
    ASSUME NEW jobs, NEW next, NEW g \in Savers, Ordered(jobs),
           jobs[g].at \notin {"idle", "lock"}, OfPoint(next[g]) => OfPoint(jobs[g]),
           \A h \in Savers \ {g} : next[h] = jobs[h]
    PROVE  Ordered(next)
<1>1. \A h \in Savers \ {g} : next[h].at \in {"idle", "lock"} /\ ~OfPoint(next[h])
  BY Beside
<1>2. OfPoint(next[g]) => g = "turn" /\ \A h \in Savers \ {g} : next[h].at = "idle"
  BY Beside
<1> QED BY <1>1, <1>2 DEF Ordered

(* What is beside the writer needs little.                                  *)
LEMMA JobBeside ==
    ASSUME NEW j, NEW m, NEW seen, NEW lasts, NEW l, NEW r,
           j.at \in {"idle", "lock"}, ~OfPoint(j)
    PROVE  JobOK(j, m, seen, lasts, l, r)
BY DEF JobOK, Frozen

SnapshotOf(m, point) == [m EXCEPT !.rev = @ + 1, !.strict = @ \/ point]

LEMMA SnapshotType ==
    ASSUME NEW n \in Nat, NEW m \in StatesTo(n), NEW point \in BOOLEAN
    PROVE  LET s == SnapshotOf(m, point) IN
           /\ s \in StatesTo(n) /\ s.rev = m.rev + 1 /\ s.ver = m.ver /\ s.run = m.run
           /\ s.rec = m.rec /\ s.refs = m.refs
<1> DEFINE b == m.strict \/ point
<1>1. b \in BOOLEAN
  OBVIOUS
<1>2. SnapshotOf(m, point) = [m EXCEPT !.rev = m.rev + 1, !.strict = b]
  BY DEF SnapshotOf
<1> HIDE DEF b
<1>3. m.rev + 1 \in Nat
  BY DEF StatesTo
<1> QED BY <1>1, <1>2, <1>3 DEF StatesTo

LEMMA FreezeStep ==
    ASSUME NEW p, Procs = {p}, SessionInv, NEW g \in Savers, Freeze(p, g)
    PROVE  SessionInv'
<1> DEFINE j == saver[p][g]
<1>0. /\ ShapesOK /\ ProcessOK(p) /\ p \in Procs /\ p \in up /\ j.at = "archive"
      /\ made \in Nat /\ j \in Jobs(made) /\ mem[p] \in StatesTo(made)
      /\ disk \in Directories(made) /\ platter \in Directories(made)
      /\ FilesOK(disk, platter, landed, retired, promised)
      /\ Ordered(saver[p]) /\ saver \in [Procs -> [Savers -> Jobs(made)]]
      /\ UNCHANGED <<up, co, history>>
  BY DEF SessionInv, ShapesOK, Freeze, At, ProcessOK
<1>1. /\ \A h \in Savers \ {g} : saver[p][h].at \in {"idle", "lock"} /\ ~OfPoint(saver[p][h])
      /\ OfPoint(j) => g = "turn"
  BY <1>0, Beside
<1>2. MemoryOK(mem[p], older[p], p \in up, saver[p]["turn"], disk, landed, retired)
  BY <1>0 DEF ProcessOK
<1>3. JobOK(j, mem[p], disk, platter, landed, retired)
  BY <1>0 DEF ProcessOK
<1>4. CASE Archived(p, older[p]) /\ Snapshot(p, g) /\ UNCHANGED faults
  <2> DEFINE point == j.kind = "recovery"
             s == SnapshotOf(mem[p], point)
  <2>1. /\ disk' \in Directories(made) /\ platter' \in Directories(made)
        /\ More(disk, disk') /\ More(platter, platter')
        /\ FilesOK(disk', platter', landed, retired, promised)
        /\ Archive(disk, "execs") \cup older[p] \subseteq Archive(disk', "execs")
    BY <1>0, <1>4, ArchivedRuns
  <2>2. /\ s \in StatesTo(made) /\ s.rev = mem[p].rev + 1 /\ s.ver = mem[p].ver
        /\ s.run = mem[p].run /\ s.rec = mem[p].rec /\ s.refs = mem[p].refs
    BY <1>0, SnapshotType
  <2>3. MemoryOK(mem[p], older[p], p \in up, saver[p]["turn"], disk', landed, retired)
    BY <1>2, <2>1, ArchivesMore, MemoryGrown DEF More
  <2>4. Backed(s, disk', {})
    BY <1>2, <2>1, <2>2, <2>3 DEF MemoryOK, Backed, Closed
  <2>5. Closed(s, Archive(disk', "convs"))
    BY <2>4 DEF Backed
  <2>6. mem' = [mem EXCEPT ![p] = s] /\ older' = [older EXCEPT ![p] = {}]
    BY <1>4 DEF Snapshot, SnapshotOf
  <2> DEFINE k == [j EXCEPT !.snap = s, !.at = IF point THEN "point" ELSE "json"]
  <2>7. saver' = [saver EXCEPT ![p][g] = k]
    <3>1. saver' = [saver EXCEPT ![p][g].snap = s, ![p][g].at =
              IF ~point THEN "json"
              ELSE IF Closed(s, Archive(disk', "convs")) THEN "point" ELSE "failed"]
      BY <1>4 DEF Snapshot, SnapshotOf
    <3> HIDE DEF s, point
    <3>2. saver' = [saver EXCEPT ![p][g].snap = s, ![p][g].at = IF point THEN "point" ELSE "json"]
      BY <2>5, <3>1
    <3> QED BY <1>0, <3>2
  <2>8. /\ k \in Jobs(made) /\ k.snap = s /\ k.kind = j.kind /\ k.prior = j.prior
        /\ k.at = IF point THEN "point" ELSE "json"
    <3> HIDE DEF s, point
    <3> QED BY <1>0, <2>2 DEF Jobs
  <2> HIDE DEF s, k
  <2>9. /\ saver' \in [Procs -> [Savers -> Jobs(made)]] /\ saver'[p][g] = k
        /\ \A h \in Savers \ {g} : saver'[p][h] = saver[p][h]
    BY <1>0, <2>7, <2>8, SetJob
  <2>10. /\ mem' \in [Procs -> StatesTo(made)] /\ mem'[p] = s
         /\ older' \in [Procs -> SUBSET Nat] /\ older'[p] = {}
    BY <1>0, <2>2, <2>6 DEF ShapesOK
  <2>11. ShapesOK'
    BY <1>0, <1>4, <2>1, <2>9, <2>10 DEF ShapesOK, history
  <2>12. FilesOK(disk, platter, landed, retired, promised)'
    BY <1>0, <2>1 DEF history
  <2>13. Newer(disk') = Newer(disk) /\ disk'.json = disk.json /\ disk'.point = disk.point
    BY <2>1, ArchivesMore DEF More
  <2>14. /\ mem[p].rev \in Int /\ mem[p].ver \in Int /\ disk.json.rev \in Int
         /\ disk.point.state.rev \in Int
    BY <1>0 DEF Directories, Points, StatesTo
  <2>15. MemoryOK(s, {}, p \in up, saver'[p]["turn"], disk', landed, retired)
    <3>1. Claiming(saver[p]["turn"]) => Claiming(saver'[p]["turn"])
      <4>1. CASE g = "turn"
        BY <1>0, <2>8, <2>9, <4>1 DEF Claiming
      <4>2. CASE g # "turn"
        BY <2>9, <4>2, SaversAssumption
      <4> QED BY <4>1, <4>2
    <3> QED BY <2>2, <2>3, <2>4, <2>13, <2>14, <3>1 DEF MemoryOK
  <2>16. JobOK(k, s, disk', platter', landed, retired)
    <3>1. Above(s, disk')
      BY <1>0, <1>2, <2>2, <2>13, <2>14 DEF MemoryOK, Above
    <3>2. OfPoint(k) <=> OfPoint(j)
      BY <1>0, <2>8 DEF OfPoint
    <3>3. ~point => s.rec \in landed \cup {0}
      <4>1. Claiming(saver[p]["turn"]) => point
        <5>1. Claiming(saver[p]["turn"]) => OfPoint(saver[p]["turn"])
          BY DEF Claiming, OfPoint
        <5> QED BY <1>1, <5>1, SaversAssumption DEF Claiming
      <4> QED BY <1>2, <2>2, <4>1 DEF MemoryOK
    <3>4. SnapOK(k, s, disk', platter', landed, retired)
      BY <1>2, <2>2, <2>4, <2>8, <2>13, <2>14, <3>1, <3>3 DEF SnapOK, MemoryOK
    <3>5. OfPoint(j) /\ j.kind = "retire" => s.rec = 0
      BY <1>3, <2>2 DEF JobOK
    <3> QED BY <1>3, <2>8, <3>2, <3>4, <3>5 DEF JobOK
  <2>17. ASSUME NEW h \in Savers
         PROVE  JobOK(saver'[p][h], s, disk', platter', landed, retired)
    <3>1. CASE h = g
      BY <2>9, <2>16, <3>1
    <3>2. CASE h # g
      BY <1>1, <2>9, <3>2, JobBeside
    <3> QED BY <3>1, <3>2
  <2>18. Ordered(saver'[p])
    <3>1. OfPoint(saver'[p][g]) => OfPoint(saver[p][g])
      BY <1>0, <2>8, <2>9 DEF OfPoint
    <3> QED BY <1>0, <2>9, <3>1, OrderStays
  <2>19. faults = 0 => Remembered(co[p], saver'[p], s, disk')
    <3>1. Carried(saver'[p], s)
      BY <2>8, <2>9 DEF Carried
    <3>2. \A h \in Savers : saver'[p][h].at # "failed"
      BY <1>1, <2>8, <2>9
    <3> QED BY <1>0, <3>1, <3>2 DEF ProcessOK, Remembered
  <2>20. ProcessOK(p)'
    BY <1>0, <1>4, <2>10, <2>15, <2>17, <2>18, <2>19 DEF ProcessOK, history
  <2> QED BY <2>11, <2>12, <2>20 DEF SessionInv
<1>5. ASSUME Fails("write"), NEW some \in SUBSET older[p], Archived(p, some), NotArchived(p, g)
      PROVE  SessionInv'
  <2>1. /\ disk' \in Directories(made) /\ platter' \in Directories(made)
        /\ More(disk, disk') /\ More(platter, platter')
        /\ FilesOK(disk', platter', landed, retired, promised)
    BY <1>0, <1>5, ArchivedRuns
  <2>2. UNCHANGED <<mem, older>> /\ faults' \in Nat /\ faults' # 0
    BY <1>0, <1>5 DEF NotArchived, Fails, ShapesOK
  <2>3. /\ saver' \in [Procs -> [Savers -> Jobs(made)]]
        /\ saver'[p][g].at = "failed" /\ saver'[p][g].kind = j.kind
        /\ saver'[p][g].prior = j.prior
        /\ \A h \in Savers \ {g} : saver'[p][h] = saver[p][h]
    BY <1>0, <1>5, JobGoes DEF NotArchived
  <2>4. ShapesOK'
    BY <1>0, <2>1, <2>2, <2>3 DEF ShapesOK, history
  <2>5. MemoryOK(mem[p], older[p], p \in up, saver'[p]["turn"], disk', landed, retired)
    <3>1. MemoryOK(mem[p], older[p], p \in up, saver[p]["turn"], disk', landed, retired)
      BY <1>2, <2>1, ArchivesMore, MemoryGrown DEF More
    <3>2. Claiming(saver[p]["turn"]) => Claiming(saver'[p]["turn"])
      <4>1. CASE g = "turn"
        BY <2>3, <4>1 DEF Claiming
      <4>2. CASE g # "turn"
        BY <2>3, <4>2, SaversAssumption
      <4> QED BY <4>1, <4>2
    <3> QED BY <3>1, <3>2 DEF MemoryOK
  <2>6. ASSUME NEW h \in Savers
        PROVE  JobOK(saver'[p][h], mem[p], disk', platter', landed, retired)
    <3>1. CASE h = g
      <4>1. OfPoint(saver'[p][g]) <=> OfPoint(j)
        BY <1>0, <2>3 DEF OfPoint
      <4> QED BY <1>3, <2>3, <3>1, <4>1 DEF JobOK, Frozen
    <3>2. CASE h # g
      BY <1>1, <2>3, <3>2, JobBeside
    <3> QED BY <3>1, <3>2
  <2>7. Ordered(saver'[p])
    <3>1. OfPoint(saver'[p][g]) => OfPoint(saver[p][g])
      BY <1>0, <2>3 DEF OfPoint
    <3> QED BY <1>0, <2>3, <3>1, OrderStays
  <2>8. ProcessOK(p)'
    BY <1>0, <2>2, <2>5, <2>6, <2>7 DEF ProcessOK, history
  <2> QED BY <1>0, <2>1, <2>4, <2>8 DEF SessionInv, history
<1> QED BY <1>4, <1>5 DEF Freeze

-----------------------------------------------------------------------------
(* The files of a session.                                                  *)

LEMMA WrittenStep ==
    ASSUME NEW p, Procs = {p}, SessionInv, NEW g \in Savers, p \in up,
           saver[p][g].at \in {"point", "json"},
           NEW at \in {"json", "meta", "done", "failed"}, Goes(p, g, at),
           disk' \in Directories(made), Good(disk'), Newer(disk') = saver[p][g].snap,
           disk'.execs = disk.execs, disk'.convs = disk.convs, disk'.dirs = disk.dirs,
           disk'.json.rev <= mem[p].rev, disk'.point.state.rev <= mem[p].rev,
           platter' \in {disk', platter},
           landed' \subseteq Nat, landed \subseteq landed',
           saver[p][g].snap.rec \in landed' \cup {0},
           JobOK(saver'[p][g], mem[p], disk', platter', landed', retired),
           g = "turn" /\ Claiming(saver[p][g]) =>
               Claiming(saver'[p][g]) \/ mem[p].rec \in landed',
           at = "failed" => faults' # 0,
           faults' \in Nat, faults' = 0 => faults = 0,
           UNCHANGED <<mem, older, up, co, made, promised, retired>>
    PROVE  SessionInv'
<1> DEFINE j == saver[p][g]
<1>0. /\ ShapesOK /\ ProcessOK(p) /\ p \in Procs
      /\ made \in Nat /\ j \in Jobs(made) /\ mem[p] \in StatesTo(made)
      /\ disk \in Directories(made) /\ platter \in Directories(made)
      /\ FilesOK(disk, platter, landed, retired, promised) /\ promised \in Nat
      /\ Ordered(saver[p]) /\ j.snap \in StatesTo(made)
  BY DEF SessionInv, ShapesOK, ProcessOK, Jobs
<1>1. /\ \A h \in Savers \ {g} : saver[p][h].at \in {"idle", "lock"} /\ ~OfPoint(saver[p][h])
      /\ OfPoint(j) => g = "turn"
  BY <1>0, Beside
<1>2. MemoryOK(mem[p], older[p], p \in up, saver[p]["turn"], disk, landed, retired)
  BY <1>0 DEF ProcessOK
<1>3. SnapOK(j, mem[p], disk, platter, landed, retired)
  BY <1>0 DEF ProcessOK, JobOK, Frozen
<1>4. /\ saver' \in [Procs -> [Savers -> Jobs(made)]]
      /\ saver'[p][g].at = at /\ saver'[p][g].kind = j.kind
      /\ saver'[p][g].snap = j.snap /\ saver'[p][g].prior = j.prior
      /\ \A h \in Savers \ {g} : saver'[p][h] = saver[p][h]
  BY ZenonT(60), <1>0, JobGoes
<1>5. ShapesOK'
  BY <1>0, <1>4 DEF ShapesOK
<1>6. FilesOK(disk', platter', landed', retired, promised)
  <2>1. Recorded(j.snap, landed', retired) /\ Newer(disk).ver <= j.snap.ver
    BY <1>3 DEF Recorded, SnapOK
  <2>2. /\ disk' \in Directories(made) /\ Good(disk') /\ Newer(disk') = j.snap
        /\ disk'.execs = disk.execs /\ disk'.convs = disk.convs
        /\ platter' \in {disk', platter} /\ landed \subseteq landed'
    OBVIOUS
  <2> HIDE DEF j
  <2>3. Newer(disk).ver \in Int /\ Newer(platter).ver \in Int /\ j.snap.ver \in Int
    BY <1>0, NewerType DEF StatesTo
  <2>4. Stands(disk', landed', retired, promised)
    BY <1>0, <2>1, <2>2, <2>3 DEF FilesOK, Stands
  <2>5. Stands(platter, landed', retired, promised)
    BY <1>0, <2>2 DEF FilesOK, Stands, Recorded
  <2>6. CASE platter' = disk'
    <3>1. Newer(platter').ver <= Newer(disk').ver
      BY <2>2, <2>3, <2>6
    <3>2. Stands(platter', landed', retired, promised)
      BY <2>4, <2>6
    <3>3. platter'.execs \subseteq disk'.execs /\ platter'.convs \subseteq disk'.convs
      BY <2>6
    <3> QED BY <2>4, <3>1, <3>2, <3>3 DEF FilesOK
  <2>7. CASE platter' = platter
    <3>1. platter'.execs \subseteq disk'.execs /\ platter'.convs \subseteq disk'.convs
      BY <1>0, <2>2, <2>7 DEF FilesOK
    <3>2. Newer(platter').ver <= Newer(disk').ver
      BY <1>0, <2>1, <2>2, <2>3, <2>7 DEF FilesOK
    <3>3. Stands(platter', landed', retired, promised)
      BY <2>5, <2>7
    <3> QED BY <2>4, <3>1, <3>2, <3>3 DEF FilesOK
  <2> QED BY <2>2, <2>6, <2>7
<1>7. Archive(disk', "execs") = Archive(disk, "execs")
      /\ Archive(disk', "convs") = Archive(disk, "convs")
  BY DEF Archive
<1>8. MemoryOK(mem[p], older[p], p \in up, saver'[p]["turn"], disk', landed', retired)
  <2>1. Newer(disk').ver <= mem[p].ver
    BY <1>3 DEF SnapOK
  <2>2. Backed(mem[p], disk', older[p])
    BY <1>2, <1>7 DEF MemoryOK, Backed, Closed
  <2>3. mem[p].rec \in landed' \cup {0} \/ Claiming(saver'[p]["turn"])
    <3>1. CASE g = "turn"
      BY <1>2, <3>1 DEF MemoryOK
    <3>2. CASE g # "turn"
      BY <1>2, <1>4, <3>2, SaversAssumption DEF MemoryOK
    <3> QED BY <3>1, <3>2
  <2> QED BY <1>2, <2>1, <2>2, <2>3 DEF MemoryOK
<1>9. ASSUME NEW h \in Savers
      PROVE  JobOK(saver'[p][h], mem[p], disk', platter', landed', retired)
  <2>1. CASE h # g
    BY <1>1, <1>4, <2>1, JobBeside
  <2> QED BY <2>1
<1>10. Ordered(saver'[p])
  <2>1. OfPoint(saver'[p][g]) => OfPoint(saver[p][g])
    BY <1>4 DEF OfPoint
  <2> QED BY <1>0, <1>4, <2>1, OrderStays
<1>11. faults' = 0 => Remembered(co[p], saver'[p], mem[p], disk')
  <2> SUFFICES ASSUME faults' = 0 PROVE Remembered(co[p], saver'[p], mem[p], disk')
    OBVIOUS
  <2>1. Remembered(co[p], saver[p], mem[p], disk)
    BY <1>0 DEF ProcessOK
  <2>2. \A h \in Savers : saver'[p][h].at # "failed"
    BY <1>1, <1>4
  <2>3. Newer(disk).ver \in Int /\ mem[p].ver \in Int /\ j.snap.ver \in Int
    BY <1>0, NewerType DEF StatesTo
  <2>4. CASE Newer(disk).ver = mem[p].ver
    BY <1>3, <2>1, <2>2, <2>3, <2>4 DEF SnapOK, Remembered
  <2>5. ASSUME NEW h \in Savers, saver[p][h].at \in {"lock", "archive"}
        PROVE  Carried(saver'[p], mem[p])
    <3>1. saver'[p][h].at = saver[p][h].at
      BY <1>4, <2>5
    <3> QED BY <2>5, <3>1 DEF Carried
  <2>6. ASSUME NEW h \in Savers, saver[p][h].at \in {"point", "json"},
               saver[p][h].snap.ver = mem[p].ver
        PROVE  Newer(disk').ver = mem[p].ver
    BY <1>1, <2>6
  <2>7. CASE co[p].pending
    BY <2>1, <2>2, <2>7 DEF Remembered
  <2> QED BY <2>1, <2>2, <2>4, <2>5, <2>6, <2>7 DEF Remembered, Carried
<1>12. ProcessOK(p)'
  BY <1>0, <1>8, <1>9, <1>10, <1>11 DEF ProcessOK
<1> QED BY <1>5, <1>6, <1>12 DEF SessionInv
(* No record is written: a write that failed, or the header's.              *)
LEMMA UnwrittenStep ==
    ASSUME NEW p, Procs = {p}, SessionInv, NEW g \in Savers, p \in up,
           saver[p][g].at \in Frozen,
           NEW at \in {"done", "failed"}, Goes(p, g, at),
           disk' \in Directories(made), disk'.json = disk.json, disk'.point = disk.point,
           disk'.execs = disk.execs, disk'.convs = disk.convs, disk'.dirs = disk.dirs,
           disk'.meta <= Newer(disk).ver,
           JobOK(saver'[p][g], mem[p], disk', platter, landed, retired),
           Claiming(saver[p][g]) => Claiming(saver'[p][g]),
           at = "failed" => faults' # 0,
           faults' \in Nat, faults' = 0 => faults = 0 /\ saver[p][g].at = "meta",
           UNCHANGED <<mem, older, up, co, platter, made, promised, landed, retired>>
    PROVE  SessionInv'
<1> DEFINE j == saver[p][g]
<1>0. /\ ShapesOK /\ ProcessOK(p) /\ p \in Procs
      /\ made \in Nat /\ j \in Jobs(made) /\ mem[p] \in StatesTo(made)
      /\ disk \in Directories(made) /\ platter \in Directories(made)
      /\ FilesOK(disk, platter, landed, retired, promised) /\ promised \in Nat
      /\ Ordered(saver[p]) /\ j.at \in Frozen
  BY DEF SessionInv, ShapesOK, ProcessOK
<1>1. /\ \A h \in Savers \ {g} : saver[p][h].at \in {"idle", "lock"} /\ ~OfPoint(saver[p][h])
      /\ OfPoint(j) => g = "turn"
  BY <1>0, Beside DEF Frozen
<1>2. MemoryOK(mem[p], older[p], p \in up, saver[p]["turn"], disk, landed, retired)
  BY <1>0 DEF ProcessOK
<1>3. /\ saver' \in [Procs -> [Savers -> Jobs(made)]]
      /\ saver'[p][g].at = at /\ saver'[p][g].kind = j.kind
      /\ saver'[p][g].snap = j.snap /\ saver'[p][g].prior = j.prior
      /\ \A h \in Savers \ {g} : saver'[p][h] = saver[p][h]
  BY <1>0, JobGoes
<1>4. ShapesOK'
  BY <1>0, <1>3 DEF ShapesOK
<1>5. Newer(disk') = Newer(disk)
  BY NewerGrown
<1>6. FilesOK(disk', platter, landed, retired, promised)
  <2>1. Good(disk')
    BY <1>0, GoodGrown DEF FilesOK, Stands
  <2> QED BY <1>0, <1>5, <2>1 DEF FilesOK, Stands
<1>7. Archive(disk', "execs") = Archive(disk, "execs")
      /\ Archive(disk', "convs") = Archive(disk, "convs")
  BY DEF Archive
<1>8. MemoryOK(mem[p], older[p], p \in up, saver'[p]["turn"], disk', landed, retired)
  <2>1. MemoryOK(mem[p], older[p], p \in up, saver[p]["turn"], disk', landed, retired)
    BY <1>2, <1>7, MemoryGrown
  <2>2. Claiming(saver[p]["turn"]) => Claiming(saver'[p]["turn"])
    <3>1. CASE g = "turn"
      BY <3>1
    <3>2. CASE g # "turn"
      BY <1>3, <3>2, SaversAssumption
    <3> QED BY <3>1, <3>2
  <2> QED BY <2>1, <2>2 DEF MemoryOK
<1>9. ASSUME NEW h \in Savers
      PROVE  JobOK(saver'[p][h], mem[p], disk', platter, landed, retired)
  <2>1. CASE h # g
    BY <1>1, <1>3, <2>1, JobBeside
  <2> QED BY <2>1
<1>10. Ordered(saver'[p])
  <2>1. OfPoint(saver'[p][g]) => OfPoint(saver[p][g])
    BY <1>0, <1>3 DEF OfPoint, Frozen
  <2>2. saver[p][g].at \notin {"idle", "lock"}
    BY <1>0 DEF Frozen
  <2> QED BY <1>0, <1>3, <2>1, <2>2, OrderStays
<1>11. faults' = 0 => Remembered(co[p], saver'[p], mem[p], disk')
  <2> SUFFICES ASSUME faults' = 0 PROVE Remembered(co[p], saver'[p], mem[p], disk')
    OBVIOUS
  <2>1. Remembered(co[p], saver[p], mem[p], disk) /\ j.at = "meta"
    BY <1>0 DEF ProcessOK
  <2>2. \A h \in Savers : saver'[p][h].at # "failed"
    BY <1>1, <1>3
  <2>3. ASSUME NEW h \in Savers, saver[p][h].at \in {"lock", "archive", "point", "json"}
        PROVE  saver'[p][h] = saver[p][h]
    BY <1>3, <2>1, <2>3
  <2>4. Carried(saver[p], mem[p]) => Carried(saver'[p], mem[p])
    BY <2>3 DEF Carried
  <2> QED BY <1>5, <2>1, <2>2, <2>4 DEF Remembered
<1>12. ProcessOK(p)'
  BY <1>0, <1>8, <1>9, <1>10, <1>11 DEF ProcessOK
<1> QED BY <1>4, <1>6, <1>12 DEF SessionInv

LEMMA WritePointStep ==
    ASSUME NEW p, Procs = {p}, SessionInv, NEW g \in Savers, WritePoint(p, g)
    PROVE  SessionInv'
<1> DEFINE j == saver[p][g]
           s == j.snap
           new == PointIn(disk, s)
<1>0. /\ ShapesOK /\ ProcessOK(p) /\ p \in Procs /\ p \in up /\ j.at = "point"
      /\ made \in Nat /\ j \in Jobs(made) /\ mem[p] \in StatesTo(made)
      /\ s \in StatesTo(made) /\ landed \subseteq Nat /\ faults \in Nat
      /\ disk \in Directories(made) /\ platter \in Directories(made)
      /\ Good(disk) /\ j.at \in Frozen
      /\ UNCHANGED <<mem, older, up, co, made, promised, retired>>
  BY DEF SessionInv, ShapesOK, WritePoint, At, FilesOK, Stands, Jobs, Frozen
<1>1. /\ SnapOK(j, mem[p], disk, platter, landed, retired)
      /\ JobOK(j, mem[p], disk, platter, landed, retired)
  BY <1>0 DEF ProcessOK, JobOK
<1>2. /\ j.kind = "recovery" /\ OfPoint(j) /\ Claiming(j)
      /\ Above(s, disk) /\ Backed(s, disk, {}) /\ Newer(disk).ver <= s.ver
      /\ s.rec = mem[p].rec /\ s.rec \notin retired /\ s.rev <= mem[p].rev /\ s.ver <= mem[p].ver
      /\ j.prior \in landed \cup {0} /\ j.prior \notin retired
  BY <1>0, <1>1 DEF SnapOK, JobOK, OfPoint, Claiming
<1>3. /\ disk.json.rev <= mem[p].rev /\ disk.point.state.rev <= mem[p].rev
  BY <1>0 DEF ProcessOK, MemoryOK
<1>4. /\ new \in Directories(made)
      /\ new.json = disk.json /\ new.point.state = s
      /\ new.execs = disk.execs /\ new.convs = disk.convs
      /\ new.dirs = disk.dirs /\ new.meta = disk.meta
      /\ Newer(new) = s /\ Good(new)
  BY <1>0, <1>2, PointWritten
<1>5. /\ Replace(new, "recovery", p, g, "json", "failed")
      /\ landed' = IF disk' = new THEN landed \cup {s.rec} ELSE landed
  BY DEF WritePoint, PointIn
<1>6. s.rec \in Nat /\ s.ver \in Int /\ s.rev \in Int
  BY <1>0 DEF StatesTo
<1>n. disk # new
  <2>1. disk.point.state.rev # s.rev
    BY <1>0, <1>2, <1>6 DEF Above, Directories, Points, StatesTo
  <2> QED BY <1>4, <2>1
<1> HIDE DEF new, s
<1>7. CASE disk' = new
  <2>1. landed' = landed \cup {s.rec} /\ landed' \subseteq Nat
    BY <1>0, <1>5, <1>6, <1>7
  <2>2. platter' \in {disk', platter}
    BY <1>5, <1>7 DEF Replace
  <2>3. Backed(s, disk', {})
    BY <1>2, <1>4, <1>7 DEF Backed, Archive
  <2>4. ASSUME NEW at \in {"json", "failed"}, Goes(p, g, at),
               faults' \in Nat, faults' = 0 => faults = 0, at = "failed" => faults' # 0,
               at = "json" => platter' = new
        PROVE  SessionInv'
    <3>1. /\ saver'[p][g].at = at /\ saver'[p][g].kind = j.kind
          /\ saver'[p][g].snap = s /\ saver'[p][g].prior = j.prior
      BY <1>0, <2>4, JobGoes DEF s
    <3>2. JobOK(saver'[p][g], mem[p], disk', platter', landed', retired)
      <4>1. CASE at = "failed"
        BY <1>2, <2>1, <3>1, <4>1 DEF JobOK, OfPoint, Frozen
      <4>2. CASE at = "json"
        <5>1. disk'.json.rev < s.rev /\ disk'.point.state = s /\ Newer(platter') = s
          BY <1>2, <1>4, <1>7, <2>4, <4>2 DEF Above
        <5>2. Newer(disk').ver <= s.ver
          BY <1>4, <1>6, <1>7
        <5>3. SnapOK(saver'[p][g], mem[p], disk', platter', landed', retired)
          BY <1>2, <2>1, <2>3, <3>1, <4>2, <5>1, <5>2 DEF SnapOK
        <5> QED BY <1>2, <2>1, <3>1, <4>2, <5>3 DEF JobOK, OfPoint
      <4> QED BY <4>1, <4>2
    <3>3. mem[p].rec \in landed' /\ s.rec \in landed' \cup {0} /\ landed \subseteq landed'
      BY <1>2, <2>1
    <3>4. disk'.json.rev <= mem[p].rev /\ disk'.point.state.rev <= mem[p].rev
      BY <1>2, <1>3, <1>4, <1>7
    <3>5. disk' \in Directories(made) /\ Good(disk') /\ Newer(disk') = saver[p][g].snap
          /\ disk'.execs = disk.execs /\ disk'.convs = disk.convs /\ disk'.dirs = disk.dirs
      BY <1>4, <1>7 DEF s
    <3>6. saver[p][g].snap.rec \in landed' \cup {0} /\ saver[p][g].at \in {"point", "json"}
      BY <1>0, <3>3 DEF s
    <3>7. at \in {"json", "meta", "done", "failed"}
      OBVIOUS
    <3> HIDE DEF j
    <3> QED BY <1>0, <2>1, <2>2, <2>4, <3>2, <3>3, <3>4, <3>5, <3>6, <3>7, WrittenStep
  <2>5. CASE Goes(p, g, "json") /\ UNCHANGED faults /\ platter' = new
    BY <1>0, <2>4, <2>5
  <2>6. CASE Fails("sync") /\ Goes(p, g, "failed")
    BY <1>0, <2>4, <2>6 DEF Fails
  <2> QED BY <1>5, <1>7, <1>n, <2>5, <2>6 DEF Replace, SyncsDir
<1>8. CASE disk' # new
  <2>1. Fails("write") /\ Goes(p, g, "failed") /\ UNCHANGED <<disk, platter>>
    BY <1>5, <1>8 DEF Replace
  <2>2. landed' = landed /\ faults' \in Nat /\ faults' # 0
    BY <1>0, <1>5, <1>8, <2>1 DEF Fails
  <2>3. /\ saver'[p][g].at = "failed" /\ saver'[p][g].kind = j.kind
        /\ saver'[p][g].prior = j.prior
    BY <1>0, <2>1, JobGoes
  <2>4. JobOK(saver'[p][g], mem[p], disk', platter, landed, retired)
    BY <1>2, <2>3 DEF JobOK, OfPoint, Frozen
  <2>5. Claiming(saver'[p][g])
    BY <1>2, <2>3 DEF Claiming
  <2>6. disk'.meta <= Newer(disk).ver
    BY <1>0, <2>1 DEF Good
  <2> HIDE DEF j
  <2> QED BY <1>0, <2>1, <2>2, <2>4, <2>5, <2>6, UnwrittenStep DEF j
<1> QED BY <1>7, <1>8
LEMMA WriteJSONStep ==
    ASSUME NEW p, Procs = {p}, SessionInv, NEW g \in Savers, WriteJSON(p, g)
    PROVE  SessionInv'
<1> DEFINE j == saver[p][g]
           s == j.snap
           new == JsonIn(disk, s)
           point == j.kind = "recovery"
           failed == IF point THEN "done" ELSE "failed"
<1>0. /\ ShapesOK /\ ProcessOK(p) /\ p \in Procs /\ p \in up /\ j.at = "json"
      /\ made \in Nat /\ j \in Jobs(made) /\ mem[p] \in StatesTo(made)
      /\ s \in StatesTo(made) /\ landed \subseteq Nat /\ faults \in Nat
      /\ disk \in Directories(made) /\ platter \in Directories(made)
      /\ Good(disk) /\ j.at \in Frozen
      /\ UNCHANGED <<mem, older, up, co, made, promised, landed, retired>>
  BY DEF SessionInv, ShapesOK, WriteJSON, At, FilesOK, Stands, Jobs, Frozen, history
<1>1. /\ SnapOK(j, mem[p], disk, platter, landed, retired)
      /\ JobOK(j, mem[p], disk, platter, landed, retired)
  BY <1>0 DEF ProcessOK, JobOK
<1>2. /\ Backed(s, disk, {}) /\ Newer(disk).ver <= s.ver
      /\ s.rec \notin retired /\ s.rev <= mem[p].rev /\ s.ver <= mem[p].ver
      /\ s.rec \in landed \cup {0} /\ (OfPoint(j) => s.rec = mem[p].rec)
      /\ (OfPoint(j) => j.prior \in landed \cup {0} /\ j.prior \notin retired)
      /\ (OfPoint(j) /\ j.kind = "retire" => j.prior # 0 /\ mem[p].rec = 0)
      /\ ~Claiming(j)
  BY <1>0, <1>1 DEF SnapOK, JobOK, Claiming
<1>3. /\ disk.json.rev <= mem[p].rev /\ disk.point.state.rev <= mem[p].rev
  BY <1>0 DEF ProcessOK, MemoryOK
<1>4. /\ disk.json.rev < s.rev /\ (disk.point.state.rev < s.rev \/ disk.point.state = s)
      /\ (point => disk.point.state = s /\ Newer(platter) = s)
  BY <1>0, <1>1 DEF SnapOK, Above
<1>5. /\ new \in Directories(made)
      /\ new.json = s /\ new.point = disk.point
      /\ new.execs = disk.execs /\ new.convs = disk.convs
      /\ new.dirs = disk.dirs /\ new.meta = disk.meta
      /\ Newer(new) = s /\ Good(new)
  BY <1>0, <1>2, <1>4, JsonWritten
<1>6. s.ver \in Int /\ s.rev \in Int
  BY <1>0 DEF StatesTo
<1>n. disk # new
  <2>1. disk.json.rev # s.rev
    BY <1>0, <1>4, <1>6 DEF Directories, StatesTo
  <2> QED BY <1>5, <2>1
<1>7. Replace(new, j.kind, p, g, "meta", failed)
  BY DEF WriteJSON, JsonIn
<1>8. failed \in {"done", "failed"} /\ (failed = "done" => point) /\ (failed = "failed" => ~point)
  OBVIOUS
<1>9. OfPoint(j) <=> j.kind \in {"recovery", "retire"}
  BY <1>0 DEF OfPoint
<1>10. point => j.kind = "recovery" /\ j.kind # "interim"
  OBVIOUS
<1> HIDE DEF new, s, failed, point
<1>11. CASE disk' = new
  <2>2. platter' \in {disk', platter} /\ (point => Newer(platter') = s)
    BY <1>4, <1>5, <1>7, <1>11 DEF Replace
  <2>3. Backed(s, disk', {})
    BY <1>2, <1>5, <1>11 DEF Backed, Archive
  <2>4. ASSUME NEW at \in {"meta", "done", "failed"}, Goes(p, g, at),
               faults' \in Nat, faults' = 0 => faults = 0, at = "failed" => faults' # 0,
               at # "failed" => (j.kind # "interim" => Newer(platter') = s)
        PROVE  SessionInv'
    <3>1. /\ saver'[p][g].at = at /\ saver'[p][g].kind = j.kind
          /\ saver'[p][g].snap = s /\ saver'[p][g].prior = j.prior
      BY <1>0, <2>4, JobGoes DEF s
    <3>2. OfPoint(saver'[p][g]) <=> OfPoint(j)
      BY <1>9, <3>1 DEF OfPoint
    <3>3. JobOK(saver'[p][g], mem[p], disk', platter', landed, retired)
      <4>1. CASE at = "failed"
        BY <1>2, <3>1, <3>2, <4>1 DEF JobOK, Frozen
      <4>2. CASE at \in {"meta", "done"}
        <5>2. Newer(disk').ver <= s.ver /\ Newer(disk') = s
          BY <1>5, <1>6, <1>11
        <5>3. SnapOK(saver'[p][g], mem[p], disk', platter', landed, retired)
          BY <1>2, <2>3, <2>4, <3>1, <3>2, <4>2, <5>2 DEF SnapOK
        <5> QED BY <1>2, <3>1, <3>2, <4>2, <5>3 DEF JobOK
      <4> QED BY <4>1, <4>2
    <3>4. disk'.json.rev <= mem[p].rev /\ disk'.point.state.rev <= mem[p].rev
      BY <1>2, <1>3, <1>5, <1>11
    <3>5. disk' \in Directories(made) /\ Good(disk') /\ Newer(disk') = saver[p][g].snap
          /\ disk'.execs = disk.execs /\ disk'.convs = disk.convs /\ disk'.dirs = disk.dirs
      BY <1>5, <1>11 DEF s
    <3>6. saver[p][g].snap.rec \in landed \cup {0} /\ saver[p][g].at \in {"point", "json"}
      BY <1>0, <1>2 DEF s
    <3>7. at \in {"json", "meta", "done", "failed"} /\ landed' = landed /\ ~Claiming(saver[p][g])
      BY <1>0, <1>2
    <3> HIDE DEF j
    <3> QED BY <1>0, <2>2, <2>4, <3>3, <3>4, <3>5, <3>6, <3>7, WrittenStep
  <2>5. CASE Goes(p, g, "meta") /\ UNCHANGED faults
             /\ platter' = IF SyncsDir(j.kind) THEN new ELSE platter
    <3>1. j.kind # "interim" => Newer(platter') = s
      BY <1>5, <2>5 DEF SyncsDir
    <3> QED BY <1>0, <2>4, <2>5, <3>1
  <2>6. CASE Fails("sync") /\ Goes(p, g, failed)
    <3>1. faults' \in Nat /\ faults' # 0
      BY <1>0, <2>6 DEF Fails
    <3>2. CASE failed = "failed"
      BY <2>4, <2>6, <3>1, <3>2
    <3>3. CASE failed = "done"
      BY <1>8, <2>2, <2>4, <2>6, <3>1, <3>3
    <3> QED BY <1>8, <3>2, <3>3
  <2> QED BY <1>7, <1>11, <1>n, <2>5, <2>6 DEF Replace
<1>12. CASE disk' # new
  <2>1. Fails("write") /\ Goes(p, g, failed) /\ UNCHANGED <<disk, platter>>
    BY <1>7, <1>12 DEF Replace
  <2>2. faults' \in Nat /\ faults' # 0
    BY <1>0, <2>1 DEF Fails
  <2>3. /\ saver'[p][g].at = failed /\ saver'[p][g].kind = j.kind
        /\ saver'[p][g].snap = s /\ saver'[p][g].prior = j.prior
    BY <1>0, <1>8, <2>1, JobGoes DEF s
  <2>4. OfPoint(saver'[p][g]) <=> OfPoint(j)
    BY <1>8, <1>9, <2>3 DEF OfPoint
  <2>5. JobOK(saver'[p][g], mem[p], disk, platter, landed, retired)
    <3>1. CASE failed = "failed"
      BY <1>2, <2>3, <2>4, <3>1 DEF JobOK, Frozen
    <3>2. CASE failed = "done"
      <4>1. Newer(disk) = s /\ Newer(platter) = s
        BY <1>4, <1>8, <3>2 DEF Newer
      <4>2. SnapOK(saver'[p][g], mem[p], disk, platter, landed, retired)
        BY <1>2, <2>3, <2>4, <3>2, <4>1 DEF SnapOK
      <4> QED BY <1>2, <2>3, <2>4, <3>2, <4>2 DEF JobOK
    <3> QED BY <1>8, <3>1, <3>2
  <2>6. disk'.meta <= Newer(disk).ver
    BY <1>0, <2>1 DEF Good
  <2>7. ~Claiming(saver[p][g]) /\ saver[p][g].at \in Frozen
    BY <1>0, <1>2
  <2> HIDE DEF j
  <2> QED BY <1>0, <1>8, <2>1, <2>2, <2>5, <2>6, <2>7, UnwrittenStep
<1> QED BY <1>11, <1>12

LEMMA WriteMetaStep ==
    ASSUME NEW p, Procs = {p}, SessionInv, NEW g \in Savers, WriteMeta(p, g)
    PROVE  SessionInv'
<1> DEFINE j == saver[p][g]
<1>0. /\ ShapesOK /\ ProcessOK(p) /\ p \in Procs /\ p \in up /\ j.at = "meta"
      /\ made \in Nat /\ j \in Jobs(made) /\ faults \in Nat /\ j.snap \in StatesTo(made)
      /\ disk \in Directories(made) /\ platter \in Directories(made)
      /\ Good(disk) /\ j.at \in Frozen /\ Goes(p, g, "done")
      /\ UNCHANGED <<mem, older, up, co, platter, made, promised, landed, retired>>
  BY DEF SessionInv, ShapesOK, WriteMeta, At, FilesOK, Stands, Jobs, Frozen, history
<1>1. /\ SnapOK(j, mem[p], disk, platter, landed, retired)
      /\ JobOK(j, mem[p], disk, platter, landed, retired)
  BY <1>0 DEF ProcessOK, JobOK
<1>2. \/ (disk' = [disk EXCEPT !.meta = j.snap.ver] /\ UNCHANGED faults)
      \/ (disk' = disk /\ faults' \in Nat /\ faults' # 0)
  BY <1>0 DEF WriteMeta, Fails
<1>3. /\ faults' \in Nat /\ (faults' = 0 => faults = 0)
  BY <1>0, <1>2
<1>4. Newer(disk) = j.snap /\ j.snap.ver \in Nat
  BY <1>0, <1>1 DEF SnapOK, StatesTo
<1>5. /\ disk' \in Directories(made) /\ disk'.json = disk.json /\ disk'.point = disk.point
      /\ disk'.execs = disk.execs /\ disk'.convs = disk.convs /\ disk'.dirs = disk.dirs
      /\ disk'.meta <= Newer(disk).ver
  <2>1. CASE disk' = disk
    BY <1>0, <2>1 DEF Good
  <2>2. CASE disk' = [disk EXCEPT !.meta = j.snap.ver]
    <3> HIDE DEF j
    <3> QED BY <1>0, <1>4, <2>2 DEF Directories
  <2> QED BY <1>2, <2>1, <2>2
<1>6. /\ saver'[p][g].at = "done" /\ saver'[p][g].kind = j.kind
      /\ saver'[p][g].snap = j.snap /\ saver'[p][g].prior = j.prior
  BY <1>0, JobGoes
<1>7. JobOK(saver'[p][g], mem[p], disk', platter, landed, retired)
  <2>1. Archive(disk', "execs") = Archive(disk, "execs")
        /\ Archive(disk', "convs") = Archive(disk, "convs")
    BY <1>5 DEF Archive
  <2>2. JobOK(j, mem[p], disk', platter, landed, retired)
    BY <1>1, <1>5, <2>1, JobGrown
  <2>3. OfPoint(saver'[p][g]) <=> OfPoint(j)
    BY <1>0, <1>6 DEF OfPoint
  <2>4. SnapOK(j, mem[p], disk', platter, landed, retired)
    BY <1>0, <2>2 DEF JobOK
  <2>5. SnapOK(saver'[p][g], mem[p], disk', platter, landed, retired)
    BY <1>0, <1>6, <2>3, <2>4 DEF SnapOK
  <2> QED BY <1>6, <2>2, <2>3, <2>5 DEF JobOK
<1>8. ~Claiming(saver[p][g]) /\ saver[p][g].at \in Frozen
  BY <1>0 DEF Claiming
<1>9. saver[p][g].at = "meta"
  BY <1>0
<1>10. /\ p \in up /\ Goes(p, g, "done")
       /\ UNCHANGED <<mem, older, up, co, platter, made, promised, landed, retired>>
  BY <1>0
<1> HIDE DEF j
<1>11. ASSUME NEW at, at = "done" PROVE SessionInv'
  <2>1. /\ at \in {"done", "failed"} /\ Goes(p, g, at) /\ (at = "failed" => faults' # 0)
    BY <1>10, <1>11
  <2> QED BY <1>3, <1>5, <1>7, <1>8, <1>9, <1>10, <2>1, UnwrittenStep
<1> QED BY <1>11
-----------------------------------------------------------------------------
(* The writer returns.                                                      *)

LEMMA IdleType == ASSUME NEW n \in Nat PROVE Idle \in Jobs(n) /\ Idle.at = "idle"
BY NoneType DEF Idle, Jobs, Kinds

LEMMA MaxOfTwo ==
    ASSUME NEW a \in Nat, NEW b \in Nat
    PROVE  Max({a, b}) = IF a >= b THEN a ELSE b
<1>1. \E x \in {a, b} : \A y \in {a, b} : x >= y
  OBVIOUS
<1>2. Max({a, b}) \in {a, b} /\ \A y \in {a, b} : Max({a, b}) >= y
  BY <1>1 DEF Max
<1> QED BY <1>2

LEMMA EndedStep ==
    ASSUME NEW p, Procs = {p}, SessionInv, NEW g \in Savers, p \in up,
           saver[p][g].at \notin {"idle", "lock"},
           saver' = [saver EXCEPT ![p][g] = Idle],
           mem' \in [Procs -> StatesTo(made)], co' \in [Procs -> Coalescing],
           mem[p].rec \in landed \cup {0} \/ OfPoint(saver[p][g]) =>
               mem'[p].rec \in landed \cup {0},
           mem'[p].rec \notin retired', mem'[p].ver = mem[p].ver,
           mem'[p].rev = mem[p].rev, mem'[p].run = mem[p].run, mem'[p].refs = mem[p].refs,
           FilesOK(disk, platter, landed, retired', promised'),
           promised' \in Nat, retired' \subseteq 1..made,
           OfPoint(saver[p][g]) \/ (mem' = mem /\ retired' = retired),
           faults = 0 => co' = co /\ mem' = mem /\ saver[p][g].at = "done",
           UNCHANGED <<older, up, disk, platter, made, landed, faults>>
    PROVE  SessionInv'
<1> DEFINE j == saver[p][g]
<1>0. /\ ShapesOK /\ ProcessOK(p) /\ p \in Procs
      /\ made \in Nat /\ saver \in [Procs -> [Savers -> Jobs(made)]]
      /\ Ordered(saver[p])
  BY DEF SessionInv, ShapesOK, ProcessOK
<1>1. /\ \A h \in Savers \ {g} : saver[p][h].at \in {"idle", "lock"} /\ ~OfPoint(saver[p][h])
      /\ (OfPoint(j) => g = "turn")
  BY <1>0, Beside
<1>2. MemoryOK(mem[p], older[p], p \in up, saver[p]["turn"], disk, landed, retired)
  BY <1>0 DEF ProcessOK
<1>3. /\ saver' \in [Procs -> [Savers -> Jobs(made)]]
      /\ saver'[p][g] = Idle /\ saver'[p][g].at = "idle"
      /\ \A h \in Savers \ {g} : saver'[p][h] = saver[p][h]
  BY <1>0, IdleType, SetJob
<1>4. ShapesOK'
  BY <1>0, <1>3 DEF ShapesOK
<1>5. \A h \in Savers : saver'[p][h].at \in {"idle", "lock"} /\ ~OfPoint(saver'[p][h])
  BY <1>1, <1>3 DEF OfPoint
<1>6. MemoryOK(mem'[p], older[p], p \in up, saver'[p]["turn"], disk, landed, retired')
  <2>1. Backed(mem'[p], disk, older[p])
    BY <1>2 DEF MemoryOK, Backed, Closed
  <2>2. Claiming(saver[p]["turn"]) => OfPoint(saver[p]["turn"])
    BY DEF Claiming, OfPoint
  <2>3. Claiming(saver[p]["turn"]) => g = "turn" /\ OfPoint(j)
    BY <1>1, <2>2, SaversAssumption
  <2>4. mem'[p].rec \in landed \cup {0}
    BY <1>2, <2>3 DEF MemoryOK
  <2> QED BY <1>2, <2>1, <2>4 DEF MemoryOK
<1>7. \A h \in Savers : JobOK(saver'[p][h], mem'[p], disk, platter, landed, retired')
  BY <1>5, JobBeside
<1>8. Ordered(saver'[p])
  BY <1>5 DEF Ordered
<1>9. faults = 0 => Remembered(co'[p], saver'[p], mem'[p], disk)
  <2> SUFFICES ASSUME faults = 0 PROVE Remembered(co'[p], saver'[p], mem'[p], disk)
    OBVIOUS
  <2>1. Remembered(co[p], saver[p], mem[p], disk) /\ j.at = "done"
    BY <1>0 DEF ProcessOK
  <2>2. \A h \in Savers : saver'[p][h].at # "failed"
    BY <1>5
  <2>3. ASSUME NEW h \in Savers, saver[p][h].at \in {"lock", "archive", "point", "json"}
        PROVE  saver'[p][h] = saver[p][h]
    BY <1>3, <2>1, <2>3
  <2>4. Carried(saver[p], mem[p]) => Carried(saver'[p], mem[p])
    BY <2>3 DEF Carried
  <2> QED BY <2>1, <2>2, <2>4 DEF Remembered
<1>10. ProcessOK(p)'
  BY <1>0, <1>6, <1>7, <1>8, <1>9 DEF ProcessOK
<1>11. FilesOK(disk, platter, landed, retired, promised)'
  OBVIOUS
<1> QED BY <1>4, <1>10, <1>11 DEF SessionInv

LEMMA DoneStep ==
    ASSUME NEW p, Procs = {p}, SessionInv, NEW g \in Savers, Done(p, g)
    PROVE  SessionInv'
<1> DEFINE j == saver[p][g]
<1>0. /\ ShapesOK /\ ProcessOK(p) /\ p \in Procs /\ p \in up /\ j.at = "done"
      /\ made \in Nat /\ j \in Jobs(made) /\ mem[p] \in StatesTo(made)
      /\ promised \in Nat /\ j.snap \in StatesTo(made) /\ retired \subseteq 1..made
      /\ mem \in [Procs -> StatesTo(made)] /\ co \in [Procs -> Coalescing]
      /\ disk \in Directories(made) /\ platter \in Directories(made)
      /\ FilesOK(disk, platter, landed, retired, promised)
      /\ UNCHANGED <<mem, older, up, co, disk, platter, made, landed, faults>>
      /\ saver' = [saver EXCEPT ![p][g] = Idle]
  BY DEF SessionInv, ShapesOK, Done, At, Jobs
<1>1. /\ SnapOK(j, mem[p], disk, platter, landed, retired)
      /\ JobOK(j, mem[p], disk, platter, landed, retired)
  BY <1>0 DEF ProcessOK, JobOK, Frozen
<1>2. /\ Newer(disk) = j.snap /\ (j.kind # "interim" => Newer(platter) = j.snap)
      /\ (OfPoint(j) => j.snap.rec = mem[p].rec)
      /\ (OfPoint(j) /\ j.kind = "retire" => j.prior # 0 /\ mem[p].rec = 0)
  BY <1>0, <1>1 DEF SnapOK, JobOK
<1>3. /\ promised' = IF j.kind = "interim" THEN promised ELSE Max({promised, j.snap.ver})
      /\ retired' = IF j.kind = "retire" THEN retired \cup {j.prior} ELSE retired
  BY DEF Done
<1>4. j.snap.ver \in Nat /\ j.prior \in 0..made
  BY <1>0 DEF StatesTo, Jobs
<1>5. /\ promised' \in Nat
      /\ (promised' = promised \/ (j.kind # "interim" /\ promised' = j.snap.ver))
  <2>1. Max({promised, j.snap.ver}) = IF promised >= j.snap.ver THEN promised ELSE j.snap.ver
    BY <1>0, <1>4, MaxOfTwo
  <2> QED BY <1>0, <1>3, <1>4, <2>1
<1>6. OfPoint(j) <=> j.kind \in {"recovery", "retire"}
  BY <1>0 DEF OfPoint
<1>7. /\ retired' \subseteq 1..made
      /\ (OfPoint(j) \/ retired' = retired)
      /\ (retired' = retired \/ (mem[p].rec = 0 /\ j.snap.rec = 0 /\ j.kind = "retire"))
  BY <1>0, <1>2, <1>3, <1>4, <1>6
<1>8. mem[p].rec \notin retired'
  <2>1. mem[p].rec \notin retired
    BY <1>0 DEF ProcessOK, MemoryOK
  <2>2. 0 \notin retired'
    BY <1>7
  <2> QED BY <1>7, <2>1, <2>2
<1>9. FilesOK(disk, platter, landed, retired', promised')
  <2>1. Newer(disk).ver \in Int /\ Newer(platter).ver \in Int
    BY <1>0, NewerType DEF StatesTo
  <2>2. promised' <= Newer(disk).ver /\ promised' <= Newer(platter).ver
    BY <1>0, <1>2, <1>4, <1>5 DEF FilesOK, Stands
  <2>3. 0 \notin retired'
    BY <1>7
  <2>4. Newer(disk).rec \notin retired' /\ Newer(platter).rec \notin retired'
    <3>1. CASE retired' = retired
      BY <1>0, <3>1 DEF FilesOK, Stands, Recorded
    <3>2. CASE j.snap.rec = 0 /\ j.kind = "retire"
      BY <1>2, <2>3, <3>2
    <3> QED BY <1>7, <3>1, <3>2
  <2> QED BY <1>0, <2>2, <2>4 DEF FilesOK, Stands, Recorded
<1>10. mem[p].rec \in landed \cup {0} \/ OfPoint(j) => mem[p].rec \in landed \cup {0}
  BY <1>0, <1>1, <1>2 DEF SnapOK
<1>11. j.at \notin {"idle", "lock"}
  BY <1>0
<1> QED BY <1>0, <1>5, <1>7, <1>8, <1>9, <1>10, <1>11, EndedStep

LEMMA FailedStep ==
    ASSUME NEW p, Procs = {p}, SessionInv, NEW g \in Savers, Failed(p, g)
    PROVE  SessionInv'
<1> DEFINE j == saver[p][g]
<1>0. /\ ShapesOK /\ ProcessOK(p) /\ p \in Procs /\ p \in up /\ j.at = "failed"
      /\ made \in Nat /\ j \in Jobs(made) /\ mem[p] \in StatesTo(made)
      /\ promised \in Nat /\ retired \subseteq 1..made /\ j.prior \in 0..made
      /\ mem \in [Procs -> StatesTo(made)] /\ co \in [Procs -> Coalescing]
      /\ FilesOK(disk, platter, landed, retired, promised)
      /\ UNCHANGED <<older, up, disk, platter, made, landed, promised, retired, faults>>
      /\ saver' = [saver EXCEPT ![p][g] = Idle]
  BY DEF SessionInv, ShapesOK, Failed, At, Jobs, history
<1>1. faults # 0
  BY <1>0 DEF ProcessOK, Remembered
<1>2. MemoryOK(mem[p], older[p], p \in up, saver[p]["turn"], disk, landed, retired)
  BY <1>0 DEF ProcessOK
<1>3. OfPoint(j) <=> j.kind \in {"recovery", "retire"}
  BY <1>0 DEF OfPoint
<1>4. j.at \notin {"idle", "lock"}
  BY <1>0
<1>5. CASE OfPoint(j)
  <2>1. /\ mem' = [mem EXCEPT ![p].rec = j.prior]
        /\ co' = [co EXCEPT ![p].pending = FALSE, ![p].lost = TRUE]
    BY <1>3, <1>5 DEF Failed, PutBack
  <2>2. /\ mem' \in [Procs -> StatesTo(made)]
        /\ mem'[p].rec = j.prior /\ mem'[p].ver = mem[p].ver /\ mem'[p].rev = mem[p].rev
        /\ mem'[p].run = mem[p].run /\ mem'[p].refs = mem[p].refs
    <3> DEFINE m == [mem[p] EXCEPT !.rec = j.prior]
    <3>1. /\ m \in StatesTo(made) /\ m.rec = j.prior /\ m.ver = mem[p].ver
          /\ m.rev = mem[p].rev /\ m.run = mem[p].run /\ m.refs = mem[p].refs
      <4> HIDE DEF j
      <4> QED BY <1>0 DEF StatesTo
    <3>2. mem' = [mem EXCEPT ![p] = m]
      BY <2>1
    <3> HIDE DEF m
    <3> QED BY <1>0, <3>1, <3>2
  <2>3. co' \in [Procs -> Coalescing]
    BY <1>0, <2>1 DEF Coalescing
  <2>4. j.prior \in landed \cup {0} /\ j.prior \notin retired
    BY <1>0, <1>5 DEF ProcessOK, JobOK
  <2> QED BY <1>0, <1>1, <1>4, <1>5, <2>2, <2>3, <2>4, EndedStep
<1>6. CASE ~OfPoint(j)
  <2>1. mem' = mem /\ co' = co
    BY <1>3, <1>6 DEF Failed
  <2>2. mem[p].rec \notin retired
    BY <1>2 DEF MemoryOK
  <2> QED BY <1>0, <1>1, <1>4, <1>6, <2>1, <2>2, EndedStep
<1> QED BY <1>5, <1>6
-----------------------------------------------------------------------------
(* Processes come and go.                                                   *)

LEMMA OpenStep ==
    ASSUME NEW p, Procs = {p}, SessionInv, Open(p)
    PROVE  SessionInv'
<1>0. /\ ShapesOK /\ ProcessOK(p) /\ p \in Procs /\ p \notin up
      /\ made \in Nat /\ mem \in [Procs -> StatesTo(made)]
      /\ disk \in Directories(made) /\ platter \in Directories(made)
      /\ FilesOK(disk, platter, landed, retired, promised)
      /\ older[p] = {} /\ AllIdle(saver[p]) /\ ~co[p].lost
      /\ UNCHANGED <<older, co, saver, made, promised, landed, retired, faults>>
      /\ mem' = [mem EXCEPT ![p] = Newer(disk)] /\ disk' = Restored(disk)
      /\ up' = up \cup {p}
  BY DEF SessionInv, ShapesOK, ProcessOK, Open, history
<1>1. /\ disk' \in Directories(made) /\ More(disk, disk')
      /\ disk'.execs = disk.execs \cup disk.point.execs
      /\ disk'.convs = disk.convs \cup disk.point.convs
  BY <1>0, RestoredType DEF More
<1>2. /\ platter' \in Directories(made) /\ More(platter, platter')
      /\ platter'.execs = platter.execs \cup disk.point.execs
      /\ platter'.convs = platter.convs \cup disk.point.convs
  <2>1. platter' = [platter EXCEPT !.execs = @ \cup disk.point.execs,
                                   !.convs = @ \cup disk.point.convs]
    BY DEF Open
  <2>2. disk.point.execs \in SUBSET Nat /\ disk.point.convs \in SUBSET Nat
    BY <1>0 DEF Directories, Points
  <2> QED BY <1>0, <2>1, <2>2 DEF Directories, More
<1>3. FilesOK(disk', platter', landed, retired, promised)
  <2>1. platter'.execs \subseteq disk'.execs /\ platter'.convs \subseteq disk'.convs
    BY <1>0, <1>1, <1>2 DEF FilesOK
  <2> QED BY <1>0, <1>1, <1>2, <2>1, FilesMore
<1>4. mem' \in [Procs -> StatesTo(made)] /\ mem'[p] = Newer(disk)
  BY <1>0, NewerType
<1>5. Newer(disk') = Newer(disk) /\ disk'.json = disk.json /\ disk'.point = disk.point
  BY <1>1, ArchivesMore DEF More
<1>6. ShapesOK'
  BY <1>0, <1>1, <1>2, <1>4 DEF ShapesOK
<1>7. MemoryOK(mem'[p], {}, TRUE, saver[p]["turn"], disk', landed, retired)
  <2>1. Backed(Newer(disk), disk', {})
    BY <1>0 DEF FilesOK, Stands, Good, Backed
  <2>2. Newer(disk).rec \in landed \cup {0} /\ Newer(disk).rec \notin retired
    BY <1>0 DEF FilesOK, Stands, Recorded
  <2>3. disk.json.rev \in Int /\ disk.point.state.rev \in Int /\ Newer(disk).ver \in Int
    BY <1>0, NewerType DEF Directories, Points, StatesTo
  <2>4. disk.json.rev <= Newer(disk).rev /\ disk.point.state.rev <= Newer(disk).rev
    BY <2>3 DEF Newer
  <2> QED BY <1>4, <1>5, <2>1, <2>2, <2>3, <2>4 DEF MemoryOK
<1>8. \A g \in Savers : JobOK(saver[p][g], mem'[p], disk', platter', landed, retired)
  BY <1>0 DEF AllIdle, JobOK, Frozen, OfPoint
<1>9. Remembered(co[p], saver[p], mem'[p], disk')
  BY <1>0, <1>4, <1>5 DEF Remembered, AllIdle
<1>10. ProcessOK(p)'
  <2>1. p \in up' /\ older'[p] = {}
    BY <1>0
  <2> QED BY <1>0, <1>7, <1>8, <1>9, <2>1 DEF ProcessOK
<1> QED BY <1>0, <1>3, <1>6, <1>10 DEF SessionInv

(* The processes are gone, and the disk is as it was or as it was last.     *)
LEMMA GoneStep ==
    ASSUME NEW p, Procs = {p}, SessionInv, NEW ps, up \subseteq ps, Dies(ps),
           disk' \in Directories(made), platter' \in Directories(made),
           FilesOK(disk', platter', landed, retired, promised),
           Newer(disk').ver <= Newer(disk).ver,
           faults' \in Nat, UNCHANGED <<made, promised, landed, retired>>
    PROVE  SessionInv'
<1>0. /\ ShapesOK /\ ProcessOK(p) /\ p \in Procs /\ made \in Nat
      /\ mem[p] \in StatesTo(made) /\ retired \subseteq 1..made
      /\ disk \in Directories(made) /\ up \subseteq Procs
      /\ older[p] \in SUBSET Nat /\ co[p] \in Coalescing
      /\ saver[p] \in [Savers -> Jobs(made)]
  BY DEF SessionInv, ShapesOK
<1> DEFINE m == IF p \in ps THEN [None EXCEPT !.ver = mem[p].ver] ELSE mem[p]
           o == IF p \in ps THEN {} ELSE older[p]
           c == IF p \in ps THEN Fresh ELSE co[p]
           jobs == IF p \in ps THEN [g \in Savers |-> Idle] ELSE saver[p]
<1>1. /\ up' = {} /\ mem' = [q \in Procs |-> m] /\ older' = [q \in Procs |-> o]
      /\ co' = [q \in Procs |-> c] /\ saver' = [q \in Procs |-> jobs]
  BY <1>0 DEF Dies
<1>2. m \in StatesTo(made) /\ m.ver = mem[p].ver /\ Gone(m)
  <2>1. CASE p \in ps
    <3>1. None.ver = 0 /\ mem[p].ver \in 0..made /\ None \in StatesTo(made)
      BY <1>0, NoneType DEF None, StatesTo
    <3> QED BY <2>1, <3>1 DEF StatesTo, Gone, None
  <2>2. CASE p \notin ps
    BY <1>0, <2>2 DEF ProcessOK
  <2> QED BY <2>1, <2>2
<1>3. o = {}
  BY <1>0 DEF ProcessOK
<1>4. c \in Coalescing /\ ~c.lost
  <2>1. CASE p \in ps
    BY <2>1 DEF Fresh, Coalescing
  <2>2. CASE p \notin ps
    BY <1>0, <2>2 DEF ProcessOK
  <2> QED BY <2>1, <2>2
<1>5. jobs \in [Savers -> Jobs(made)] /\ AllIdle(jobs)
  <2>1. CASE p \in ps
    BY <1>0, <2>1, IdleType DEF AllIdle
  <2>2. CASE p \notin ps
    BY <1>0, <2>2 DEF ProcessOK
  <2> QED BY <2>1, <2>2
<1> HIDE DEF m, o, c, jobs
<1>6. ShapesOK'
  <2>1. /\ mem' \in [Procs -> StatesTo(made)] /\ older' \in [Procs -> SUBSET Nat]
        /\ co' \in [Procs -> Coalescing] /\ saver' \in [Procs -> [Savers -> Jobs(made)]]
    BY <1>1, <1>2, <1>3, <1>4, <1>5
  <2>2. up' \subseteq Procs
    BY <1>1
  <2> QED BY <1>0, <2>1, <2>2 DEF ShapesOK
<1>7. mem'[p] = m /\ older'[p] = {} /\ co'[p] = c /\ saver'[p] = jobs /\ p \notin up'
  BY <1>0, <1>1, <1>3
<1>8. MemoryOK(m, {}, p \in up', jobs["turn"], disk', landed, retired)
  <2>1. Newer(disk').ver <= m.ver
    <3>1. Newer(disk).ver <= mem[p].ver
      BY <1>0 DEF ProcessOK, MemoryOK
    <3>2. Newer(disk).ver \in Int /\ Newer(disk').ver \in Int /\ m.ver \in Int
      BY <1>0, <1>2, NewerType DEF StatesTo
    <3> QED BY <1>2, <3>1, <3>2
  <2>2. Backed(m, disk', {})
    BY <1>2 DEF Gone, Backed, Closed
  <2>3. m.rec \notin retired
    BY <1>0, <1>2 DEF Gone
  <2> QED BY <1>2, <1>7, <2>1, <2>2, <2>3 DEF MemoryOK, Gone
<1>9. \A g \in Savers : JobOK(jobs[g], m, disk', platter', landed, retired)
  BY <1>5 DEF AllIdle, JobOK, Frozen, OfPoint
<1>10. Ordered(jobs)
  BY <1>5 DEF AllIdle, Ordered, OfPoint
<1>11. ProcessOK(p)'
  BY <1>2, <1>4, <1>5, <1>7, <1>8, <1>9, <1>10 DEF ProcessOK
<1>12. FilesOK(disk, platter, landed, retired, promised)'
  OBVIOUS
<1> QED BY <1>6, <1>11, <1>12 DEF SessionInv

LEMMA StopStep ==
    ASSUME NEW p, Procs = {p}, SessionInv, Exit(p) \/ Crash(p)
    PROVE  SessionInv'
<1>1. /\ disk \in Directories(made) /\ platter \in Directories(made) /\ made \in Nat
      /\ FilesOK(disk, platter, landed, retired, promised) /\ up \subseteq {p} /\ faults \in Nat
  BY DEF SessionInv, ShapesOK
<1>2. Dies({p}) /\ UNCHANGED <<disk, platter, made, promised, landed, retired>> /\ faults' \in Nat
  BY <1>1 DEF Exit, Crash, Fails, history
<1>3. Newer(disk).ver <= Newer(disk).ver
  BY <1>1, NewerType DEF StatesTo
<1> QED BY <1>1, <1>2, <1>3, GoneStep

LEMMA PowerCutStep ==
    ASSUME NEW p, Procs = {p}, SessionInv, PowerCut
    PROVE  SessionInv'
<1>0. /\ disk \in Directories(made) /\ platter \in Directories(made) /\ made \in Nat
      /\ FilesOK(disk, platter, landed, retired, promised) /\ faults \in Nat
  BY DEF SessionInv, ShapesOK
<1>1. PICK meta \in {platter.meta, 0} : disk' = [platter EXCEPT !.meta = meta]
  BY DEF PowerCut
<1>2. /\ Dies(up) /\ platter' = disk' /\ faults' \in Nat
      /\ UNCHANGED <<made, promised, landed, retired>>
  BY <1>0 DEF PowerCut, Fails, history
<1>3. /\ disk' \in Directories(made) /\ disk'.json = platter.json /\ disk'.point = platter.point
      /\ disk'.execs = platter.execs /\ disk'.convs = platter.convs
      /\ disk'.dirs = platter.dirs /\ disk'.meta = meta
  BY <1>0, <1>1 DEF Directories
<1>4. Newer(disk') = Newer(platter) /\ Newer(platter).ver \in Nat /\ Newer(disk).ver \in Nat
  BY <1>0, <1>3, NewerGrown, NewerType DEF StatesTo
<1>5. Stands(platter, landed, retired, promised)
  BY <1>0 DEF FilesOK
<1>6. Good(disk')
  <2>1. disk'.meta <= Newer(platter).ver
    BY <1>3, <1>4, <1>5 DEF Stands, Good
  <2> QED BY <1>0, <1>3, <1>5, <2>1, GoodGrown DEF Stands
<1>7. Stands(disk', landed, retired, promised)
  BY <1>4, <1>5, <1>6 DEF Stands
<1>8. FilesOK(disk', platter', landed, retired, promised)
  BY <1>2, <1>4, <1>7 DEF FilesOK
<1>9. Newer(disk').ver <= Newer(disk).ver
  BY <1>0, <1>4 DEF FilesOK
<1>10. platter' \in Directories(made) /\ up \subseteq up
  BY <1>2, <1>3
<1> QED BY <1>2, <1>3, <1>8, <1>9, <1>10, GoneStep

LEMMA WriteBackStep ==
    ASSUME NEW p, Procs = {p}, SessionInv, WriteBack
    PROVE  SessionInv'
<1>0. /\ ShapesOK /\ ProcessOK(p) /\ p \in Procs /\ made \in Nat
      /\ saver[p] \in [Savers -> Jobs(made)] /\ disk \in Directories(made)
      /\ FilesOK(disk, platter, landed, retired, promised) /\ platter' = disk
      /\ UNCHANGED <<mem, older, up, co, saver, disk, made, promised, landed, retired, faults>>
  BY DEF SessionInv, ShapesOK, WriteBack, history
<1>1. ShapesOK'
  BY <1>0 DEF ShapesOK
<1>2. FilesOK(disk, disk, landed, retired, promised)
  BY <1>0, NewerType DEF FilesOK, StatesTo
<1>3. ASSUME NEW g \in Savers
      PROVE  JobOK(saver[p][g], mem[p], disk, disk, landed, retired)
  <2> DEFINE j == saver[p][g]
  <2>1. JobOK(j, mem[p], disk, platter, landed, retired)
    BY <1>0 DEF ProcessOK
  <2>2. CASE j.at \in Frozen
    <3>1. SnapOK(j, mem[p], disk, platter, landed, retired)
      BY <2>1, <2>2 DEF JobOK
    <3>2. j.at = "json" /\ j.kind = "recovery" => Newer(disk) = j.snap
      BY <3>1 DEF SnapOK, Newer
    <3>3. SnapOK(j, mem[p], disk, disk, landed, retired)
      BY <3>1, <3>2 DEF SnapOK
    <3> QED BY <2>1, <3>3 DEF JobOK
  <2>3. CASE j.at \notin Frozen
    BY <2>1, <2>3 DEF JobOK
  <2> QED BY <2>2, <2>3
<1>4. ProcessOK(p)'
  BY <1>0, <1>3 DEF ProcessOK
<1>5. FilesOK(disk, platter, landed, retired, promised)'
  BY <1>0, <1>2
<1> QED BY <1>1, <1>4, <1>5 DEF SessionInv

LEMMA SessionStarts ==
    ASSUME NEW p, Procs = {p}, Init
    PROVE  SessionInv
<1>1. /\ None.rev = 0 /\ None.ver = 0 /\ None.run = 0 /\ None.rec = 0 /\ None.refs = {}
      /\ None \in StatesTo(0) /\ 0 \in Nat
  BY NoneType DEF None
<1>2. /\ NoPoint \in Points(0) /\ NoPoint.state = None
  BY <1>1 DEF NoPoint, Points
<1>3. /\ Empty \in Directories(0) /\ Empty.json = None /\ Empty.point = NoPoint
      /\ Empty.meta = 0
  BY <1>1, <1>2 DEF Empty, Directories
<1>4. Newer(Empty) = None
  BY <1>1, <1>2, <1>3 DEF Newer
<1>5. Good(Empty)
  BY <1>1, <1>2, <1>3, <1>4 DEF Good, Closed
<1>6. FilesOK(Empty, Empty, {}, {}, 0)
  BY <1>1, <1>4, <1>5 DEF FilesOK, Stands, Recorded
<1>7. Fresh \in Coalescing /\ ~Fresh.lost
  BY DEF Fresh, Coalescing
<1>8. Idle \in Jobs(0) /\ Idle.at = "idle"
  BY <1>1, IdleType
<1>9. ShapesOK
  BY <1>1, <1>3, <1>7, <1>8 DEF Init, ShapesOK
<1>10. /\ mem[p] = None /\ older[p] = {} /\ co[p] = Fresh /\ p \notin up
       /\ \A g \in Savers : saver[p][g] = Idle
       /\ disk = Empty /\ landed = {} /\ retired = {}
  BY DEF Init
<1>11. MemoryOK(None, {}, p \in up, saver[p]["turn"], Empty, {}, {})
  BY <1>1, <1>4, <1>10 DEF MemoryOK, Backed, Closed
<1>12. ProcessOK(p)
  BY <1>1, <1>7, <1>8, <1>10, <1>11
  DEF ProcessOK, JobOK, Ordered, AllIdle, Gone, OfPoint, Frozen
<1> QED BY <1>6, <1>9, <1>12 DEF SessionInv, Init
-----------------------------------------------------------------------------
(* Every step of a specification with one process.                          *)

LEMMA SessionKept ==
    ASSUME NEW p, Procs = {p}, SessionInv, [Next]_vars
    PROVE  SessionInv'
<1>1. CASE UNCHANGED vars
  <2>1. UNCHANGED <<mem, older, up, co, saver, disk, platter, history, faults>>
    BY <1>1 DEF vars, history
  <2>2. co[p].lost = co'[p].lost /\ co[p].pending = co'[p].pending /\ co' \in [Procs -> Coalescing]
    BY <2>1 DEF SessionInv, ShapesOK
  <2> QED BY <2>1, <2>2, FlagStep
<1>2. ASSUME NEW g \in Savers, Writes(p, g) PROVE SessionInv'
  BY <1>2, LockStep, FreezeStep, WritePointStep, WriteJSONStep, WriteMetaStep,
     DoneStep, FailedStep DEF Writes
<1>3. ASSUME NEW g \in Savers, Mutate(p, g) \/ Boundary(p, g) \/ Compact(p, g)
      PROVE  SessionInv'
  BY <1>3, MutateStep, BoundaryStep, CompactStep
<1>4. ASSUME \/ BeginRun(p) \/ NoteFileWrite(p) \/ Interim(p) \/ SaveRecovery(p)
             \/ Retire(p) \/ EndHold(p) \/ Open(p) \/ Exit(p) \/ Crash(p)
      PROVE  SessionInv'
  BY <1>4, BeginRunStep, NoteFileWriteStep, InterimStep, SaveRecoveryStep, RetireStep,
     EndHoldStep, OpenStep, StopStep
<1>5. ASSUME WriteBack \/ PowerCut PROVE SessionInv'
  BY <1>5, WriteBackStep, PowerCutStep
<1> QED BY <1>1, <1>2, <1>3, <1>4, <1>5 DEF Next

(* The invariant, for one process and any of the bounds.                    *)
THEOREM SessionInvariant ==
    ASSUME OneProcess
    PROVE  Spec => []SessionInv
<1> PICK p : Procs = {p}
  BY DEF OneProcess
<1>1. Init => SessionInv
  BY SessionStarts
<1>2. SessionInv /\ [Next]_vars => SessionInv'
  BY SessionKept
<1> QED BY <1>1, <1>2, PTL DEF Spec

-----------------------------------------------------------------------------
(* What follows.                                                            *)

LEMMA FoundWhole ==
    ASSUME NEW p, Procs = {p}, SessionInv
    PROVE  SessionWhole
<1>1. ASSUME NEW d \in Finds
      PROVE  Stands(d, landed, retired, promised) /\ d \in Directories(made)
  BY DEF SessionInv, ShapesOK, FilesOK, Finds
<1>2. Loadable
  BY <1>1 DEF Loadable, Loads, Conflict, Stands, Good
<1>3. HistoryWhole /\ HeaderBehind
  BY <1>1 DEF HistoryWhole, HeaderBehind, Stands, Good
<1>4. RetiredStays /\ PointsLanded
  BY <1>1 DEF RetiredStays, PointsLanded, Stands, Recorded
<1> QED BY <1>2, <1>3, <1>4 DEF SessionWhole

LEMMA FlagsRemember ==
    ASSUME NEW p, Procs = {p}, SessionInv
    PROVE  NothingForgotten
<1> SUFFICES ASSUME faults = 0, p \in up
             PROVE  co[p].pending \/ ~Alone(p) \/ Newer(disk).ver = mem[p].ver
  BY DEF NothingForgotten, SessionInv, ShapesOK
<1>1. Remembered(co[p], saver[p], mem[p], disk)
  BY DEF SessionInv, ProcessOK
<1>2. Carried(saver[p], mem[p]) => ~Alone(p)
  BY DEF Carried, Alone
<1> QED BY <1>1, <1>2 DEF Remembered

(* Whatever is found after a crash or a power cut, in every interleaving of *)
(* the goroutines and with every write and sync that may fail: the session  *)
(* loads, its superseded requests are in the archive, the header is not     *)
(* ahead of it, no point that work was begun from comes back, and none is   *)
(* claimed that was not written.                                            *)
THEOREM SessionStandsWhole ==
    ASSUME OneProcess
    PROVE  Spec => []SessionWhole
<1> PICK p : Procs = {p}
  BY DEF OneProcess
<1>1. SessionInv => SessionWhole
  BY FoundWhole
<1>2. Spec => []SessionInv
  BY SessionInvariant
<1> QED BY <1>1, <1>2, PTL

(* While no write fails, the newest state is on the disk, or marked, or in  *)
(* the hands of a goroutine that saves.                                     *)
THEOREM SessionForgetsNothing ==
    ASSUME OneProcess
    PROVE  Spec => []NothingForgotten
<1> PICK p : Procs = {p}
  BY DEF OneProcess
<1>1. SessionInv => NothingForgotten
  BY FlagsRemember
<1>2. Spec => []SessionInv
  BY SessionInvariant
<1> QED BY <1>1, <1>2, PTL

-----------------------------------------------------------------------------
(* The promise of SavedWork.                                                *)

Newest == Max({0} \cup {mem[p].ver : p \in Procs})

LEMMA NewestOf ==
    ASSUME NEW p, Procs = {p}, NEW f, f[p].ver \in Nat
    PROVE  Max({0} \cup {f[q].ver : q \in Procs}) = f[p].ver
<1>1. {0} \cup {f[q].ver : q \in Procs} = {f[p].ver, 0}
  OBVIOUS
<1>2. Max({f[p].ver, 0}) = f[p].ver
  BY MaxOfTwo
<1> QED BY <1>1, <1>2

(* What was promised is what the disk has, or older.                        *)
LEMMA PromiseStands ==
    ASSUME NEW p, Procs = {p}, SessionInv
    PROVE  /\ promised \in Nat /\ Newer(disk).ver \in Nat /\ mem[p].ver \in Nat
           /\ promised <= Newer(disk).ver /\ Newer(disk).ver <= mem[p].ver
<1>1. /\ promised \in Nat /\ disk \in Directories(made) /\ made \in Nat
      /\ mem[p] \in StatesTo(made) /\ Stands(disk, landed, retired, promised)
  BY DEF SessionInv, ShapesOK, FilesOK
<1>2. Newer(disk).ver <= mem[p].ver
  BY DEF SessionInv, ProcessOK, MemoryOK
<1> QED BY <1>1, <1>2, NewerType DEF Stands, StatesTo

Idles(p)   == promised' = promised /\ mem'[p].ver = mem[p].ver
Works(p)   == promised' = promised /\ mem'[p].ver > mem[p].ver
Saves(p)   == promised' >= promised /\ mem'[p].ver = mem[p].ver
Reopens(p) == promised' = promised /\ mem'[p].ver = Newer(disk).ver

LEMMA ChangeWorks ==
    ASSUME NEW p \in Procs, ShapesOK, NEW s \in StatesTo(made + 1), Changed(p, s),
           UNCHANGED promised
    PROVE  Works(p)
<1>1. mem'[p].ver = made + 1
  BY ChangedShapes
<1>2. mem[p].ver \in 0..made /\ made \in Nat
  BY DEF ShapesOK, StatesTo
<1> QED BY <1>1, <1>2 DEF Works

LEMMA StepsOf ==
    ASSUME NEW p, Procs = {p}, SessionInv, [Next]_vars
    PROVE  Idles(p) \/ Works(p) \/ Saves(p) \/ Reopens(p)
<1>0. /\ ShapesOK /\ made \in Nat /\ mem \in [Procs -> StatesTo(made)]
      /\ saver \in [Procs -> [Savers -> Jobs(made)]] /\ promised \in Nat /\ p \in Procs
      /\ mem[p] \in StatesTo(made) /\ mem[p] \in StatesTo(made + 1) /\ made + 1 \in Nat
  BY StatesGrow DEF SessionInv, ShapesOK
<1>1. UNCHANGED <<mem, promised>> => Idles(p)
  BY DEF Idles
<1>2. UNCHANGED vars => Idles(p)
  BY <1>1 DEF vars
<1>3. ASSUME NEW g \in Savers, Writes(p, g) PROVE Idles(p) \/ Saves(p)
  <2>1. CASE Lock(p, g) \/ WritePoint(p, g) \/ WriteJSON(p, g) \/ WriteMeta(p, g)
    BY <1>1, <2>1 DEF Lock, WritePoint, WriteJSON, WriteMeta, history
  <2>2. CASE Freeze(p, g)
    <3>1. promised' = promised
      BY <2>2 DEF Freeze, history
    <3>2. CASE Snapshot(p, g)
      <4> DEFINE point == saver[p][g].kind = "recovery"
                 s == SnapshotOf(mem[p], point)
      <4>1. mem' = [mem EXCEPT ![p] = s]
        BY <3>2 DEF Snapshot, SnapshotOf
      <4>2. s.ver = mem[p].ver
        BY <1>0, SnapshotType
      <4> HIDE DEF s
      <4> QED BY <1>0, <3>1, <4>1, <4>2 DEF Idles
    <3>3. CASE NotArchived(p, g)
      BY <1>1, <3>1, <3>3 DEF NotArchived
    <3> QED BY <2>2, <3>2, <3>3 DEF Freeze
  <2>3. CASE Done(p, g)
    <3>1. promised' \in {promised, Max({promised, saver[p][g].snap.ver})} /\ mem' = mem
      BY <2>3 DEF Done
    <3>2. saver[p][g].snap.ver \in Nat
      BY <1>0 DEF Jobs, StatesTo
    <3>3. promised' >= promised
      BY <1>0, <3>1, <3>2, MaxOfTwo
    <3> QED BY <3>1, <3>3 DEF Saves
  <2>4. CASE Failed(p, g)
    <3>1. promised' = promised
      BY <2>4 DEF Failed, history
    <3>2. mem' = mem \/ mem' = [mem EXCEPT ![p].rec = saver[p][g].prior]
      BY <2>4 DEF Failed, PutBack
    <3>3. mem'[p].ver = mem[p].ver
      BY <1>0, <3>2 DEF StatesTo
    <3> QED BY <3>1, <3>3 DEF Idles
  <2> QED BY <1>3, <2>1, <2>2, <2>3, <2>4 DEF Writes
<1>4. ASSUME NEW g \in Savers, Mutate(p, g) \/ Boundary(p, g) \/ Compact(p, g)
      PROVE  Idles(p) \/ Works(p)
  <2>1. CASE Mutate(p, g)
    BY <1>0, <2>1, ChangeWorks DEF Mutate
  <2>2. CASE Boundary(p, g)
    BY <1>1, <2>2 DEF Boundary, history
  <2>3. CASE Compact(p, g)
    <3>1. CASE Changed(p, [mem[p] EXCEPT !.refs = @ \cup {made}])
      <4>1. [mem[p] EXCEPT !.refs = @ \cup {made}] \in StatesTo(made + 1)
        <5>1. mem[p].refs \cup {made} \in SUBSET Nat
          BY <1>0 DEF StatesTo
        <5> QED BY <1>0, <5>1 DEF StatesTo
      <4> QED BY <1>0, <2>3, <3>1, <4>1, ChangeWorks DEF Compact
    <3>2. CASE UNCHANGED mem
      BY <1>1, <2>3, <3>2 DEF Compact
    <3> QED BY <2>3, <3>1, <3>2 DEF Compact
  <2> QED BY <1>4, <2>1, <2>2, <2>3
<1>5. ASSUME BeginRun(p) \/ SaveRecovery(p) \/ Retire(p)
      PROVE  Works(p)
  <2>1. CASE BeginRun(p)
    <3> DEFINE s == [mem[p] EXCEPT !.run = @ + 1, !.rec = 0]
    <3>1. s \in StatesTo(made + 1)
      BY <1>0, RunBegun
    <3>2. Changed(p, s) /\ UNCHANGED promised
      BY <2>1 DEF BeginRun
    <3> HIDE DEF s
    <3> QED BY <1>0, <3>1, <3>2, ChangeWorks
  <2>2. ASSUME NEW r \in 0..(made + 1), Changed(p, [mem[p] EXCEPT !.rec = r]),
               UNCHANGED promised
        PROVE  Works(p)
    <3>1. [mem[p] EXCEPT !.rec = r] \in StatesTo(made + 1)
      BY <1>0, RecMarked
    <3> QED BY <1>0, <2>2, <3>1, ChangeWorks
  <2>3. 0 \in 0..(made + 1) /\ made + 1 \in 0..(made + 1)
    BY <1>0
  <2>4. CASE SaveRecovery(p)
    BY <2>2, <2>3, <2>4 DEF SaveRecovery
  <2>5. CASE Retire(p)
    BY <2>2, <2>3, <2>5 DEF Retire
  <2> QED BY <1>5, <2>1, <2>4, <2>5
<1>6. ASSUME NoteFileWrite(p) \/ Interim(p) \/ EndHold(p) \/ WriteBack
      PROVE  Idles(p)
  BY <1>1, <1>6 DEF NoteFileWrite, Interim, EndHold, WriteBack, history
<1>7. ASSUME Open(p) PROVE Reopens(p)
  BY <1>0, <1>7 DEF Open, Reopens, history
<1>8. ASSUME NEW ps, Dies(ps), UNCHANGED promised PROVE Idles(p)
  <2>1. mem'[p] = IF p \in ps THEN [None EXCEPT !.ver = mem[p].ver] ELSE mem[p]
    BY <1>0, <1>8 DEF Dies
  <2> QED BY <1>8, <2>1 DEF Idles, None
<1>9. ASSUME Exit(p) \/ Crash(p) \/ PowerCut PROVE Idles(p)
  BY <1>8, <1>9 DEF Exit, Crash, PowerCut, history
<1> QED BY <1>2, <1>3, <1>4, <1>5, <1>6, <1>7, <1>9 DEF Next

LEMMA KeptStarts ==
    ASSUME NEW p, Procs = {p}, Init
    PROVE  Kept!Init
<1>1. mem[p].ver = 0 /\ promised = 0
  BY DEF Init, None
<1>2. Newest = 0
  BY <1>1, NewestOf DEF Newest
<1> QED BY <1>1, <1>2 DEF Newest, Kept!Init

LEMMA KeptSteps ==
    ASSUME NEW p, Procs = {p}, SessionInv, [Next]_vars
    PROVE  [Kept!Next]_<<Newest, promised>>
<1>1. SessionInv'
  BY SessionKept
<1>2. /\ promised \in Nat /\ Newer(disk).ver \in Nat /\ mem[p].ver \in Nat
      /\ promised <= Newer(disk).ver /\ Newer(disk).ver <= mem[p].ver
  BY PromiseStands
<1>3. promised' \in Nat /\ mem'[p].ver \in Nat /\ promised' <= mem'[p].ver
  <2>1. /\ promised' \in Nat /\ disk' \in Directories(made') /\ made' \in Nat
        /\ mem'[p] \in StatesTo(made') /\ promised' <= Newer(disk').ver
    BY <1>1 DEF SessionInv, ShapesOK, FilesOK, Stands
  <2>2. Newer(disk').ver <= mem'[p].ver
    BY <1>1 DEF SessionInv, ProcessOK, MemoryOK
  <2>3. Newer(disk').ver \in Int /\ mem'[p].ver \in Nat
    BY <2>1, NewerType DEF StatesTo
  <2> QED BY <2>1, <2>2, <2>3
<1>4. Newest = mem[p].ver
  BY <1>2, NewestOf DEF Newest
<1>5. Newest' = mem'[p].ver
  BY <1>3, NewestOf DEF Newest
<1>6. CASE Idles(p)
  BY <1>4, <1>5, <1>6 DEF Idles
<1>7. CASE Works(p)
  <2>1. Newest' > Newest /\ promised' = promised
    BY <1>4, <1>5, <1>7 DEF Works
  <2> QED BY <2>1 DEF Newest, Kept!Next, Kept!Work
<1>8. CASE Saves(p)
  <2>1. promised' \in promised..Newest /\ Newest' = Newest
    BY <1>2, <1>3, <1>4, <1>5, <1>8 DEF Saves
  <2> QED BY <2>1 DEF Newest, Kept!Next, Kept!Save
<1>9. CASE Reopens(p)
  <2>1. Newest' \in promised..Newest /\ promised' = promised
    BY <1>2, <1>3, <1>4, <1>5, <1>9 DEF Reopens
  <2> QED BY <2>1 DEF Newest, Kept!Next, Kept!Reopen
<1> QED BY <1>6, <1>7, <1>8, <1>9, StepsOf

(* The files keep the promise of SavedWork: what a boundary has saved is    *)
(* never lost, by any failure, crash or power cut, and what is reopened is  *)
(* a state the session was really in, no older than the promise.            *)
THEOREM SessionKeepsPromise ==
    ASSUME OneProcess
    PROVE  Spec => Promise
<1> PICK p : Procs = {p}
  BY DEF OneProcess
<1>1. Init => Kept!Init
  BY KeptStarts
<1>2. SessionInv /\ [Next]_vars => [Kept!Next]_<<Newest, promised>>
  BY KeptSteps
<1>3. Spec => []SessionInv
  BY SessionInvariant
<1> QED BY <1>1, <1>2, <1>3, PTL DEF Spec, Promise, Kept!Spec, Newest
=============================================================================
