------------------------------ MODULE KeyStore ------------------------------
(***************************************************************************)
(* Where API keys are kept: internal/keystore, with the commands that      *)
(* write it, `kolk key`, `kolk key --backend` and the settings.            *)
(*                                                                         *)
(* One manifest, a file replaced whole, has a row per provider: the key    *)
(* itself, or that the keychain has it.  Commands of several processes     *)
(* read, change and write the manifest, most of them under a file lock.    *)
(* A key may still be in the settings, where the first versions kept it;   *)
(* commands that write settings take it over first.                        *)
(*                                                                         *)
(* A replaced file is seen at once and lasts when its directory has been   *)
(* synced.  The keychain is another program: a call of it that times out   *)
(* may have been carried out.  A key is a number that is never given       *)
(* again.  Environment variables, which come before the store, are left    *)
(* out, and a deletion, which no command asks for.                         *)
(***************************************************************************)
EXTENDS Integers

CONSTANTS
    Procs,       \* kolk processes
    Providers,   \* rows of the manifest; the settings' key belongs to "openrouter"
    MaxCommands, \* bound of the model: commands begun
    MaxFaults    \* bound of the model: faults of a behaviour

ASSUME ProcsAssumption == "free" \notin Procs
ASSUME ProvidersAssumption == "openrouter" \in Providers
ASSUME KeyBoundsAssumption == {MaxCommands, MaxFaults} \subseteq Nat

VARIABLES
    manifest,   \* credentials.json: what is seen of it, and what a power cut leaves
    settings,   \* config.json, in the same way: the key it still has, or 0
    keychain,   \* its items, 0 for none
    lock,       \* the process that has credentials.json.lock, or Free
    cmd,        \* cmd[p]: what process p is doing
    known,      \* history: known[r], the keys that r may be said to have
    excused,    \* history: what KeyKept does not cover has happened
    bounds      \* bound of the model: keys, commands and faults so far

keyVars == <<manifest, settings, keychain, lock, cmd, known, excused, bounds>>
files   == <<manifest, settings>>
history == <<known, excused>>

Free   == "free"
Legacy == 1     \* the key the first versions kept
Count(b) == bounds' = [bounds EXCEPT ![b] = @ + 1]
Fault == bounds.faults < MaxFaults /\ Count("faults")

NoRow   == [backend |-> "none", key |-> 0]
File(k) == [backend |-> "file", key |-> k]
Routed  == [backend |-> "keychain", key |-> 0]

(* Obtain: what the store answers, when the keychain does.                  *)
Obtain(r) ==
    LET row == manifest.seen[r] IN IF row = Routed THEN keychain[r] ELSE row.key

-----------------------------------------------------------------------------
(* Commands.  at: what comes next; then: what comes after the settings have *)
(* given up their key, or after the row has been saved.                     *)

Quiet == [at |-> "idle", for |-> "openrouter", key |-> 0, then |-> "end",
          copy |-> [r \in Providers |-> NoRow]]

Moves(c) == c.at \in {"add", "prove", "route", "routing", "delete"} \/ c.then = "back"

Start(p, c) ==
    /\ cmd[p].at = "idle" /\ bounds.commands < MaxCommands
    /\ cmd' = [cmd EXCEPT ![p] = c]
    /\ excused' = (excused \/ \E q \in Procs \ {p} :
                      cmd[q].at # "idle" /\ (Moves(c) \/ Moves(cmd[q])))

Goes(p, at) == cmd' = [cmd EXCEPT ![p].at = at]
Ends(p)     == cmd' = [cmd EXCEPT ![p] = Quiet]
Unlocks(p)  == lock' = IF lock = p THEN Free ELSE lock

EnterKey(p, r) ==
    /\ Start(p, [Quiet EXCEPT !.at = "legacy", !.for = r,
                              !.key = bounds.commands + 3, !.then = "set"])
    /\ Count("commands")
    /\ UNCHANGED <<files, keychain, lock, known>>

ChangeSetting(p) ==
    /\ Start(p, [Quiet EXCEPT !.at = "legacy", !.then = "store"])
    /\ Count("commands")
    /\ UNCHANGED <<files, keychain, lock, known>>

(* /mcp, /localia and the start of a session save settings at once.         *)
StoreAtOnce(p) ==
    /\ Start(p, [Quiet EXCEPT !.at = "store"])
    /\ Count("commands")
    /\ UNCHANGED <<files, keychain, lock, known>>

(* --backend: the key is read where it is, and goes to the other backend.   *)
Move(p, r) ==
    /\ manifest.seen[r] # NoRow /\ Obtain(r) # 0
    /\ Start(p, [Quiet EXCEPT !.for = r, !.key = Obtain(r),
          !.at   = IF manifest.seen[r] = Routed THEN "set" ELSE "add",
          !.then = IF manifest.seen[r] = Routed THEN "back" ELSE "end"])
    /\ Count("commands")
    /\ UNCHANGED <<files, keychain, lock, known>>

-----------------------------------------------------------------------------
(* Files.  A write fails, or is seen and lasts, or is seen and may not last *)
(* (DurabilityError): then it is reported as failed.                        *)

Outcomes == {"written", "failed", "volatile"}

Write(file, contents, o) ==
    /\ o # "written" => bounds.faults < MaxFaults
    /\ bounds' = IF o = "written" THEN bounds ELSE [bounds EXCEPT !.faults = @ + 1]
    /\ file' = IF o = "failed" THEN file
               ELSE [seen |-> contents, lasts |-> IF o = "written" THEN contents ELSE file.lasts]

(* Mutant: a DurabilityError is ignored.                                    *)
IgnoresSync(o) == o # "failed"

Succeeds(o) == o = "written"

Save(p, row, o) ==
    Write(manifest, [cmd[p].copy EXCEPT ![cmd[p].for] = row], o)

(* Acquire, and load.                                                       *)
Acquire(p) ==
    /\ cmd[p].at \in {"migrate", "set"} /\ lock = Free
    /\ lock' = p
    /\ cmd' = [cmd EXCEPT ![p].copy = manifest.seen,
                          ![p].at = IF @ = "migrate" THEN "migrating" ELSE "setting"]
    /\ UNCHANGED <<files, keychain, history, bounds>>

-----------------------------------------------------------------------------
(* MigrateLegacyConfig.                                                     *)

ReadSettings(p) ==
    /\ cmd[p].at = "legacy"
    /\ Goes(p, IF settings.seen = 0 THEN cmd[p].then ELSE "migrate")
    /\ UNCHANGED <<files, keychain, lock, history, bounds>>

(* A different key in the manifest, or one it cannot see, is not guessed at.*)
Conflict(p) ==
    /\ cmd[p].at = "migrating" /\ cmd[p].copy["openrouter"] \notin {NoRow, File(Legacy)}
    /\ Ends(p) /\ Unlocks(p)
    /\ UNCHANGED <<files, keychain, history, bounds>>

AlreadyCopied(p) ==
    /\ cmd[p].at = "migrating" /\ cmd[p].copy["openrouter"] = File(Legacy)
    /\ Goes(p, "clean")
    /\ excused' = (excused \/ manifest.lasts["openrouter"] = NoRow)
    /\ UNCHANGED <<files, keychain, lock, known, bounds>>

CopyKey(p, o) ==
    /\ cmd[p].at = "migrating" /\ cmd[p].copy["openrouter"] = NoRow
    /\ Write(manifest, [cmd[p].copy EXCEPT !["openrouter"] = File(Legacy)], o)
    /\ IF Succeeds(o) THEN Goes(p, "clean") /\ UNCHANGED lock ELSE Ends(p) /\ Unlocks(p)
    /\ UNCHANGED <<settings, keychain, history>>

Clean(p, o) ==
    /\ cmd[p].at = "clean"
    /\ Write(settings, 0, o)
    /\ IF Succeeds(o) THEN Goes(p, cmd[p].then) ELSE Ends(p)
    /\ Unlocks(p)
    /\ UNCHANGED <<manifest, keychain, history>>

(* Settings are saved without a field for a key.                            *)
StoreSetting(p, o) ==
    /\ cmd[p].at = "store"
    /\ Write(settings, 0, o)
    /\ Ends(p)
    /\ excused' = (excused \/ settings.seen # 0)
    /\ UNCHANGED <<manifest, keychain, lock, known>>

-----------------------------------------------------------------------------
(* FileStore.Set, for a key that was entered and for one that comes back.   *)

SetRow(p, o) ==
    LET c == cmd[p] IN
    /\ c.at = "setting"
    /\ Save(p, File(c.key), o)
    /\ known' = IF c.then = "back" \/ o = "failed" THEN known
                ELSE [known EXCEPT ![c.for] = {c.key} \cup (IF Succeeds(o) THEN {} ELSE @)]
    /\ IF Succeeds(o) /\ c.then = "back" THEN Goes(p, "delete") ELSE Ends(p)
    /\ Unlocks(p)
    /\ UNCHANGED <<settings, keychain, excused>>

(* Read back; then the keychain's copy is deleted, or a warning says that   *)
(* it is still there.                                                       *)
DeleteItem(p, done) ==
    LET c == cmd[p] IN
    /\ c.at = "delete"
    /\ keychain' = IF done /\ manifest.seen[c.for] = File(c.key)
                   THEN [keychain EXCEPT ![c.for] = 0] ELSE keychain
    /\ Ends(p)
    /\ UNCHANGED <<files, lock, history, bounds>>

-----------------------------------------------------------------------------
(* KeychainStore.Set: the item, the proof of it, and the row last.          *)

AddItem(p, done, answered) ==
    LET c == cmd[p] IN
    /\ c.at = "add"
    /\ IF done THEN keychain' = [keychain EXCEPT ![c.for] = c.key] ELSE UNCHANGED keychain
    /\ IF answered THEN done /\ Goes(p, "prove") /\ UNCHANGED bounds ELSE Fault /\ Ends(p)
    /\ UNCHANGED <<files, lock, history>>

Prove(p) ==
    /\ cmd[p].at = "prove"
    /\ IF keychain[cmd[p].for] = cmd[p].key THEN Goes(p, "route") ELSE Ends(p)
    /\ UNCHANGED <<files, keychain, lock, history, bounds>>

(* SetRouted loads and saves, and does not take the lock.                   *)
LoadRows(p) ==
    /\ cmd[p].at = "route"
    /\ cmd' = [cmd EXCEPT ![p].at = "routing", ![p].copy = manifest.seen]
    /\ UNCHANGED <<files, keychain, lock, history, bounds>>

SetRouted(p, o) ==
    /\ cmd[p].at = "routing"
    /\ Save(p, Routed, o)
    /\ Ends(p)
    /\ UNCHANGED <<settings, keychain, lock, history>>

-----------------------------------------------------------------------------
(* Faults.  The lock of a process that is gone is free.                     *)

Crash(p) ==
    /\ cmd[p].at # "idle" /\ Fault
    /\ Ends(p) /\ Unlocks(p)
    /\ UNCHANGED <<files, keychain, history>>

PowerCut ==
    /\ Fault
    /\ manifest' = [manifest EXCEPT !.seen = manifest.lasts]
    /\ settings' = [settings EXCEPT !.seen = settings.lasts]
    /\ cmd' = [p \in Procs |-> Quiet] /\ lock' = Free
    /\ UNCHANGED <<keychain, history>>

-----------------------------------------------------------------------------
(* A key in the settings, in the manifest or the keychain, in both, copied  *)
(* by a migration that did not finish, or nowhere.                          *)
KeysInit ==
    /\ settings \in {[seen |-> k, lasts |-> k] : k \in {0, Legacy}}
    /\ keychain \in {[r \in Providers |-> k] : k \in {0, 2}}
    /\ \E row \in {NoRow, File(Legacy), File(2), Routed} :
         LET rows == [r \in Providers |-> IF r = "openrouter" THEN row ELSE NoRow] IN
         /\ row = Routed => keychain["openrouter"] # 0
         /\ manifest = [seen |-> rows, lasts |-> rows]
         /\ known = [r \in Providers |->
              IF r # "openrouter" THEN {0}
              ELSE IF row = NoRow THEN {settings.seen}
              ELSE IF row = Routed THEN {2} ELSE {row.key}]
    /\ lock = Free /\ cmd = [p \in Procs |-> Quiet] /\ excused = FALSE
    /\ bounds = [commands |-> 0, faults |-> 0]

KeysNext ==
    \/ \E p \in Procs :
         \/ ChangeSetting(p) \/ StoreAtOnce(p) \/ ReadSettings(p) \/ Conflict(p) \/ AlreadyCopied(p)
         \/ Acquire(p) \/ Prove(p) \/ LoadRows(p) \/ Crash(p)
         \/ \E r \in Providers : EnterKey(p, r) \/ Move(p, r)
         \/ \E o \in Outcomes : CopyKey(p, o) \/ Clean(p, o) \/ StoreSetting(p, o)
                                \/ SetRow(p, o) \/ SetRouted(p, o)
         \/ \E done \in BOOLEAN : DeleteItem(p, done) \/ AddItem(p, done, TRUE)
                                  \/ AddItem(p, done, FALSE)
    \/ PowerCut

KeysSpec == KeysInit /\ [][KeysNext]_keyVars

-----------------------------------------------------------------------------
(* A provider's key is the last one that was entered for it, or, if that    *)
(* could not be reported as saved, that one or the one before: no           *)
(* migration, no move between backends, no setting and no other provider's  *)
(* command loses it, brings an older one back or leaves a row that points   *)
(* at nothing, whatever fails.  Three things the code does are excepted: a  *)
(* move overlaps another command (SetRouted does not lock); settings are    *)
(* saved that still hold the key (StoreAtOnce, StoreSetting); a copy that   *)
(* may not last is taken for one that does (AlreadyCopied).                 *)
Has(r) ==
    IF r = "openrouter" /\ manifest.seen[r] = NoRow THEN settings.seen ELSE Obtain(r)

KeyKept == ~excused => \A r \in Providers : Has(r) \in known[r]
=============================================================================
