---------------------------- MODULE LocalInstall ----------------------------
(***************************************************************************)
(* Setting up the runtime that serves local models: internal/local,        *)
(* RuntimeInstaller.                                                       *)
(*                                                                         *)
(* A setup fetches the latest release, and the companion bundle that the   *)
(* machine's accelerator needs, into a staging directory, builds a tree    *)
(* there, renames it to a name of its own, never to one in use, and points *)
(* the current record at it.  Setups of several processes take one lock.   *)
(* A setup that fails, that is cancelled or that a crash or a power cut    *)
(* ends must leave the runtime that works.                                 *)
(*                                                                         *)
(* disk is what the storage directory's entries were since it was last     *)
(* synced, the last being what is seen: a power cut leaves one of them, as *)
(* the file system orders changes of one directory.  A tree whose own      *)
(* files were not flushed when it is renamed does not survive one whole.   *)
(***************************************************************************)
EXTENDS Naturals, Sequences, FiniteSets

CONSTANTS
    Setups,       \* processes that may set the runtime up
    MaxReleases,  \* releases there will be
    MaxSlips      \* bound of the model: failures, crashes, cancellations

ASSUME SetupsAssumption == "unlocked" \notin Setups
ASSUME InstallBoundsAssumption == MaxReleases \in Nat \ {0} /\ MaxSlips \in Nat

VARIABLES
    wanted,    \* the machine needs the companion, and CPU was not chosen
    latest,    \* the latest release: its number, and whether it has a companion
    disk,      \* the trees there are and the current record
    staged,    \* setups whose staging directory exists
    marks,     \* remembered failures: trees that could not be built
    installer, \* the setup that has install.lock, or Unlocked
    setup,     \* setup[s]: what s is doing
    inUse,     \* history: trees that were handed out to be run
    safe,      \* history: a runtime was handed out whose record lasts
    strays,    \* history: staging directories a crash left
    slips      \* bound of the model: slips so far

installVars == <<wanted, latest, disk, staged, marks, installer, setup, inUse, safe,
                 strays, slips>>

Unlocked == "unlocked"
NoTree   == [rel |-> 0, with |-> FALSE]
Trees    == [rel : 1..MaxReleases, with : BOOLEAN]

Now == disk[Len(disk)]

(* up: there is a runtime that works; tree: what is being built; holds:     *)
(* what the bundle in staging has so far, and whether it was flushed.       *)
Rest == [at |-> "rest", need |-> FALSE, up |-> FALSE, tree |-> NoTree,
         holds |-> "nothing", flushed |-> FALSE]

Slip == slips < MaxSlips /\ slips' = slips + 1

-----------------------------------------------------------------------------
(* How a setup ends.                                                        *)

HandsOut(t) == /\ inUse' = inUse \cup {t}
               /\ safe' = (safe \/ disk'[1].current # NoTree)

Lets(s) ==
    /\ setup' = [setup EXCEPT ![s] = Rest]
    /\ staged' = staged \ {s} /\ strays' = strays \ {s}
    /\ installer' = Unlocked

(* Whether a failure is remembered: one of what was downloaded, when there  *)
(* is a runtime that works.  Of the machine's failures none is.             *)
Remembered(s, why) == IF setup[s].up /\ why = "content" THEN {setup[s].tree} ELSE {}

(* A setup that fails keeps the runtime there was and hands it out, unless  *)
(* it was cancelled.                                                        *)
FailsFor(s, why) ==
    /\ marks' = marks \cup Remembered(s, why)
    /\ Lets(s)
    /\ IF setup[s].up /\ why # "cancel" THEN HandsOut(Now.current) ELSE UNCHANGED <<inUse, safe>>

Why == {"fetch", "content", "machine", "cancel"}

(* A step fails, for one of these reasons.                                  *)
Breaks(s, reasons) ==
    /\ Slip /\ UNCHANGED disk
    /\ \E why \in reasons : FailsFor(s, why)

Proceeds(s, j) ==
    /\ setup' = [setup EXCEPT ![s] = j]
    /\ UNCHANGED <<disk, staged, marks, installer, inUse, safe, strays, slips>>

(* dropCompanion: a first runtime is installed without the bundle that      *)
(* failed.                                                                  *)
Plain(j) == [j EXCEPT !.tree.with = FALSE]

Drops(s, j) ==
    /\ ~setup[s].up /\ setup[s].tree.with /\ Slip
    /\ setup' = [setup EXCEPT ![s] = Plain(j)]
    /\ UNCHANGED <<disk, staged, marks, installer, inUse, safe, strays>>

-----------------------------------------------------------------------------
(* Ensure, under the lock: what an earlier setup left is swept, a runtime   *)
(* that has what is needed is handed out, offline.                          *)
Swept == staged' = {} /\ strays' = {}

Ensures(s) ==
    LET have == Now.current IN
    /\ setup[s] = Rest /\ installer = Unlocked
    /\ UNCHANGED disk
    /\ IF have # NoTree /\ (~wanted \/ have.with)
       THEN HandsOut(have) /\ UNCHANGED <<setup, installer>>
       ELSE /\ setup' = [setup EXCEPT ![s] = [Rest EXCEPT !.at = "check", !.need = wanted,
                                                         !.up = have # NoTree]]
            /\ installer' = s
            /\ UNCHANGED <<inUse, safe>>
    /\ Swept
    /\ UNCHANGED <<wanted, latest, marks, slips>>

(* releaseFor: a release without the companion is an error for an upgrade,  *)
(* and a first runtime goes without.  A tree that was published before, and *)
(* not pointed at, is taken as it is.                                       *)
Offered(s, t) ==
    /\ t.rel = latest.rel
    /\ \/ t.with = setup[s].need /\ (t.with => latest.companion) /\ UNCHANGED slips
       \/ setup[s].need /\ ~setup[s].up /\ ~t.with
          /\ IF latest.companion THEN Slip ELSE UNCHANGED slips

Checks(s) ==
    LET j == setup[s] IN
    /\ j.at = "check" /\ UNCHANGED disk
    /\ \/ \E t \in Trees :
             /\ Offered(s, t)
             /\ \/ /\ Now.trees[t] # "none"
                   /\ setup' = [setup EXCEPT ![s] = [j EXCEPT !.tree = t, !.at = "point"]]
                   /\ UNCHANGED <<staged, marks, installer, inUse, safe, strays>>
                \/ /\ Now.trees[t] = "none" /\ ~(j.up /\ t \in marks)
                   /\ setup' = [setup EXCEPT ![s] = [j EXCEPT !.tree = t, !.at = "fetch"]]
                   /\ staged' = staged \cup {s}
                   /\ UNCHANGED <<marks, installer, inUse, safe, strays>>
                \/ Now.trees[t] = "none" /\ j.up /\ t \in marks /\ FailsFor(s, "marked")
       \/ j.up /\ ~latest.companion /\ FailsFor(s, "fetch") /\ UNCHANGED slips
       \/ Slip /\ \E why \in {"fetch", "machine", "cancel"} : FailsFor(s, why)
    /\ UNCHANGED <<wanted, latest>>

Fetches(s) ==
    /\ setup[s].at = "fetch"
    /\ \/ Proceeds(s, [setup[s] EXCEPT !.at = IF setup[s].tree.with
                                               THEN "fetch companion" ELSE "extract"])
       \/ Breaks(s, Why)
    /\ UNCHANGED <<wanted, latest>>

FetchesCompanion(s) ==
    /\ setup[s].at = "fetch companion"
    /\ \/ Proceeds(s, [setup[s] EXCEPT !.at = "extract"])
       \/ Drops(s, [setup[s] EXCEPT !.at = "extract"])
       \/ Breaks(s, IF setup[s].up THEN Why ELSE {"cancel"})
    /\ UNCHANGED <<wanted, latest>>

(* extractStandard: into an empty directory, flushed when it returns.       *)
Extracts(s) ==
    LET j == setup[s] IN
    /\ j.at = "extract"
    /\ \/ Proceeds(s, [j EXCEPT !.holds = "plain", !.flushed = TRUE,
                            !.at = IF j.tree.with THEN "merge" ELSE "publish"])
       \/ Breaks(s, Why)
    /\ UNCHANGED <<wanted, latest>>

(* Mutant: the merged tree is not flushed.                                  *)
Unflushed(j) == [j EXCEPT !.holds = "both", !.flushed = FALSE, !.at = "publish"]

(* addCompanion: extracted, merged and flushed again.                       *)
Merged(j) == [j EXCEPT !.holds = "both", !.flushed = TRUE, !.at = "publish"]

(* Mutant: after a failed merge the bundle is taken as it is.               *)
TakenAsIs(j) == [j EXCEPT !.holds = "mixed", !.at = "publish"]

(* After a failed merge the tree is built again.                            *)
Rebuilt(j) == [j EXCEPT !.holds = "mixed", !.at = "extract"]

Merges(s) ==
    LET j == setup[s] IN
    /\ j.at = "merge"
    /\ \/ Proceeds(s, Merged(j))
       \/ Drops(s, Rebuilt(j))
       \/ Breaks(s, IF j.up THEN Why ELSE {"cancel"})
    /\ UNCHANGED <<wanted, latest>>

Content(j) ==
    IF j.holds # (IF j.tree.with THEN "both" ELSE "plain") THEN "broken"
    ELSE IF j.flushed THEN "whole" ELSE "loose"

(* The completion record, then the rename to the tree's own name, unless a  *)
(* tree has that name: then that one is taken, and nothing replaced.        *)
PublishesTree(s) ==
    LET j == setup[s] IN
    /\ j.at = "publish"
    /\ \/ /\ disk' = IF Now.trees[j.tree] # "none" THEN disk
                   ELSE Append(disk, [Now EXCEPT !.trees[j.tree] = Content(j)])
          /\ setup' = [setup EXCEPT ![s].at = "point"]
          /\ UNCHANGED <<staged, marks, installer, inUse, safe, strays, slips>>
       \/ Breaks(s, {"machine", "cancel"})
    /\ UNCHANGED <<wanted, latest>>

(* The current record, replaced whole.  The sync of the directory makes all *)
(* its entries last; when it fails the record is seen and may not.          *)
Points(s) ==
    LET j == setup[s]
        new == [Now EXCEPT !.current = j.tree] IN
    /\ j.at = "point"
    /\ \/ /\ disk' = <<new>> /\ Lets(s) /\ HandsOut(j.tree)
          /\ UNCHANGED <<marks, slips>>
       \/ /\ Slip /\ disk' = Append(disk, new)
          /\ Lets(s) /\ UNCHANGED marks
          /\ IF j.up THEN HandsOut(Now.current) ELSE UNCHANGED <<inUse, safe>>
       \/ Breaks(s, {"machine", "cancel"})
    /\ UNCHANGED <<wanted, latest>>

(* SweepStale, at a start: only if the lock is free.                        *)
SweepsStale ==
    /\ installer = Unlocked /\ staged # {}
    /\ Swept
    /\ UNCHANGED <<wanted, latest, disk, marks, installer, setup, inUse, safe, slips>>

(* ForgetFailures, by an explicit setup.                                    *)
Forgets ==
    /\ installer = Unlocked /\ marks # {}
    /\ marks' = {}
    /\ UNCHANGED <<wanted, latest, disk, staged, installer, setup, inUse, safe, strays, slips>>

-----------------------------------------------------------------------------
(* Around setups.                                                           *)

Release(companion) ==
    /\ latest.rel < MaxReleases
    /\ latest' = [rel |-> latest.rel + 1, companion |-> companion]
    /\ UNCHANGED <<wanted, disk, staged, marks, installer, setup, inUse, safe, strays, slips>>

ChoosesCPU ==
    /\ Slip /\ wanted' = ~wanted
    /\ UNCHANGED <<latest, disk, staged, marks, installer, setup, inUse, safe, strays>>

SetupDies(s) ==
    /\ setup[s] # Rest /\ Slip
    /\ setup' = [setup EXCEPT ![s] = Rest]
    /\ installer' = Unlocked /\ strays' = strays \cup (staged \cap {s})
    /\ UNCHANGED <<wanted, latest, disk, staged, marks, inUse, safe>>

LosesPower ==
    /\ Slip
    /\ \E n \in 1..Len(disk) :
          disk' = <<[disk[n] EXCEPT !.trees =
                        [t \in Trees |-> IF @[t] = "loose" THEN "broken" ELSE @[t]]]>>
    /\ setup' = [s \in Setups |-> Rest] /\ installer' = Unlocked
    /\ strays' = staged /\ inUse' = {}
    /\ UNCHANGED <<wanted, latest, staged, marks, safe>>

InstallInit ==
    /\ wanted \in BOOLEAN
    /\ latest \in [rel : {1}, companion : BOOLEAN]
    /\ disk = <<[trees |-> [t \in Trees |-> "none"], current |-> NoTree]>>
    /\ staged = {} /\ marks = {} /\ installer = Unlocked
    /\ setup = [s \in Setups |-> Rest]
    /\ inUse = {} /\ safe = FALSE /\ strays = {} /\ slips = 0

InstallNext ==
    \/ \E s \in Setups :
          \/ Ensures(s) \/ Checks(s) \/ Fetches(s) \/ FetchesCompanion(s) \/ Extracts(s)
          \/ Merges(s) \/ PublishesTree(s) \/ Points(s) \/ SetupDies(s)
    \/ SweepsStale \/ Forgets \/ ChoosesCPU \/ LosesPower
    \/ \E companion \in BOOLEAN : Release(companion)

InstallSpec == InstallInit /\ [][InstallNext]_installVars

-----------------------------------------------------------------------------
(* Whatever fails, is cancelled, crashes or loses power: no tree is ever    *)
(* there in part under its name, the current record names one that is       *)
(* whole, and so is every tree a runtime may be running from; a runtime     *)
(* that was handed out once, from a record that lasts, stays; and staging   *)
(* directories are those of setups at work and of crashes not yet swept.    *)
InstallStands ==
    /\ \A t \in Trees : Now.trees[t] \in {"none", "whole"}
    /\ \A t \in inUse \cup ({Now.current} \ {NoTree}) : Now.trees[t] = "whole"
    /\ safe => Now.current # NoTree
    /\ \A s \in Setups :
          /\ setup[s].at \in {"fetch", "fetch companion", "extract", "merge", "publish"}
                => s \in staged
          /\ s \in staged => setup[s] # Rest \/ s \in strays
=============================================================================
