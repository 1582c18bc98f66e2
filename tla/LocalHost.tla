----------------------------- MODULE LocalHost ------------------------------
(***************************************************************************)
(* The server that runs local models: internal/local, HostStarter, with    *)
(* the processes of internal/shell.                                        *)
(*                                                                         *)
(* Each session of a project has a starter.  Asked for an address, it      *)
(* adopts the user's own server, or the runtime the project's record       *)
(* names, or starts one: its own, which ends with it, or a detached one,   *)
(* which it writes into the record for later sessions.  All of a starter's *)
(* calls hold its mutex; writers of the record hold a file lock as well.   *)
(*                                                                         *)
(* A server is named by its identity, the process id and its start, which  *)
(* is never given again, though the process id may be: `strangers` are     *)
(* servers that are gone and whose process id somebody else's process has. *)
(* The recheck of the identity and the signal after it are one step: the   *)
(* time between them is the one no program can close.  Installing a        *)
(* runtime is module LocalInstall.                                         *)
(***************************************************************************)
EXTENDS Naturals, FiniteSets

CONSTANTS
    Sessions,    \* sessions of one project, each with a starter
    Ports,       \* loopback ports the kernel gives, the usual one not among them
    MaxServers,  \* bound of the model: servers started
    MaxTroubles  \* bound of the model: servers that hang, crashes, and the like

ASSUME SessionsAssumption == "nobody" \notin Sessions
ASSUME PortsAssumption == {"none", "usual"} \cap Ports = {}
ASSUME HostBoundsAssumption == {MaxServers, MaxTroubles} \subseteq Nat

VARIABLES
    usual,      \* the user's own server answers at the default address
    server,     \* server[n]: the n-th server started
    strangers,  \* servers that are gone and whose process id is in use again
    record,     \* the server the project's record names, or 0
    registry,   \* the session that has the record's lock, or Nobody
    host,       \* host[s]: the starter of session s
    left,       \* history: servers nobody answers for, by a crash or a failed look
    harmed,     \* history: a process that is not kolk's was signalled
    crossed,    \* history: a session was sent to another session's own server
    raced,      \* history: a port was given that somebody was about to use
    troubles    \* bound of the model: mishaps so far

hostVars == <<usual, server, strangers, record, registry, host, left, harmed,
              crossed, raced, troubles>>

Nobody  == "nobody"
Servers == 1..MaxServers

NoServer == [at |-> "none", port |-> "none", detached |-> FALSE, by |-> "none"]

(* at: the step that comes next; for: the call that looks at the record;    *)
(* addr, process, managed, kept: the starter's fields; mine, port: the      *)
(* server that is being started, and the port that is in hand.              *)
Starter(persistent) ==
    [at |-> "idle", for |-> "none", persistent |-> persistent, addr |-> "none",
     process |-> 0, managed |-> FALSE, kept |-> FALSE, mine |-> 0, port |-> "none"]

Live(n)  == server[n].at \in {"starting", "serving", "hung"}
Bound(p) == {n \in Servers : server[n].at \in {"serving", "hung"} /\ server[n].port = p}

(* Mutant: a process id that is in use is taken for the process.            *)
PidInUse(n) == Live(n) \/ n \in strangers

(* ProcessIdentity: the process is still the one that was started.          *)
Identity(n) == Live(n)

(* probeHost: something answers as Ollama.                                  *)
Answers(p) == \/ p = "usual" /\ usual
              \/ \E n \in Bound(p) : server[n].at = "serving"

Trouble == troubles < MaxTroubles /\ troubles' = troubles + 1

-----------------------------------------------------------------------------
(* Steps of a starter.                                                      *)

Keeps(s, h)    == host' = [host EXCEPT ![s] = h]
Releases(s)    == registry' = IF registry = s THEN Nobody ELSE registry
Stopped(n)     == [server EXCEPT ![n].at = IF Live(n) THEN "gone" ELSE @]
Hands(h)       == [h EXCEPT !.at = "idle", !.for = "none", !.mine = 0, !.port = "none"]

(* The call ends with an address.                                           *)
Returns(s, h) ==
    /\ Keeps(s, Hands(h))
    /\ Releases(s)
    /\ crossed' = (crossed \/ \E n \in Bound(h.addr) :
                       ~server[n].detached /\ server[n].by # s)

Fails(s) ==
    /\ Keeps(s, Hands(host[s])) /\ Releases(s)
    /\ UNCHANGED crossed

(* An owned process that has exited is forgotten.                           *)
ForgetExited(h) ==
    IF h.process # 0 /\ ~Live(h.process)
    THEN [h EXCEPT !.process = 0, !.addr = "none", !.managed = FALSE] ELSE h

(* The address is not known: the user's own server, or the record.          *)
Discovers(s, h) ==
    IF usual
    THEN Returns(s, [h EXCEPT !.addr = "usual", !.managed = FALSE, !.kept = FALSE])
    ELSE /\ Keeps(s, [h EXCEPT !.at = IF h.persistent THEN "lock" ELSE "judge", !.port = "none",
                               !.for = "first"])
         /\ UNCHANGED <<registry, crossed>>

(* Ensure.                                                                  *)
Asks(s) ==
    LET h == ForgetExited(host[s])
        shared == (h.persistent \/ h.kept) /\ h.managed /\ h.process = 0 IN
    /\ host[s].at = "idle"
    /\ \/ h.addr # "none" /\ ~shared /\ Returns(s, h)
       \/ /\ h.addr # "none" /\ shared
          /\ Keeps(s, [h EXCEPT !.at = "judge", !.for = "again"])
          /\ UNCHANGED <<registry, crossed>>
       \/ h.addr = "none" /\ Discovers(s, h)
    /\ UNCHANGED <<usual, server, strangers, record, left, harmed, raced, troubles>>

(* Mutant: the record's lock is not waited for.                             *)
NotExclusive == TRUE

Exclusive == registry = Nobody

LocksRegistry(s) ==
    /\ host[s].at = "lock" /\ Exclusive
    /\ registry' = s
    /\ Keeps(s, [host[s] EXCEPT !.at = "judge"])
    /\ UNCHANGED <<usual, server, strangers, record, left, harmed, crossed, raced, troubles>>

(* No runtime can be reused: the call goes on, to find or to start another. *)
NoneToReuse(s) ==
    LET h == host[s] IN
    IF h.for = "again" THEN Discovers(s, [h EXCEPT !.addr = "none", !.kept = FALSE])
    ELSE Keeps(s, [h EXCEPT !.at = "start", !.port = "none"]) /\ UNCHANGED <<registry, crossed>>

(* reusable: the record, and whether its process is the one it names.       *)
Judges(s) ==
    /\ host[s].at = "judge"
    /\ IF record # 0 /\ Identity(record)
       THEN /\ Keeps(s, [host[s] EXCEPT !.at = "probe", !.port = server[record].port])
            /\ UNCHANGED <<registry, crossed>>
       ELSE NoneToReuse(s)
    /\ UNCHANGED <<usual, server, strangers, record, left, harmed, raced, troubles>>

(* The identity cannot be read for once: the record counts as nobody's.     *)
Misjudges(s) ==
    /\ host[s].at = "judge" /\ record # 0 /\ Identity(record)
    /\ NoneToReuse(s) /\ Trouble
    /\ left' = left \cup {record}
    /\ UNCHANGED <<usual, server, strangers, record, harmed, raced>>

(* reusable: whether the address answers.  A runtime that does not answer   *)
(* is an error for a persistent session, and another leaves it alone.       *)
Probes(s) ==
    LET h == host[s] IN
    /\ h.at = "probe"
    /\ \/ /\ Answers(h.port)
          /\ Returns(s, [h EXCEPT !.addr = h.port, !.managed = TRUE,
                                  !.kept = @ \/ ~h.persistent])
       \/ ~Answers(h.port) /\ h.persistent /\ Fails(s)
       \/ ~Answers(h.port) /\ ~h.persistent /\ NoneToReuse(s)
    /\ UNCHANGED <<usual, server, strangers, record, left, harmed, raced, troubles>>

(* choosePort: free when the kernel was asked; nobody holds it afterwards,  *)
(* so that somebody else may be given it, or be about to bind it.           *)
InHand(s, p) == \/ \E t \in Sessions \ {s} : host[t].port = p
                \/ \E n \in Servers : server[n].at = "starting" /\ server[n].port = p

Starts(s, p) ==
    LET h == host[s] IN
    /\ h.at = "start" /\ Bound(p) = {}
    /\ IF InHand(s, p) THEN Trouble /\ raced' = TRUE ELSE UNCHANGED <<raced, troubles>>
    /\ \E n \in Servers :
          /\ server[n] = NoServer /\ \A m \in 1..(n - 1) : server[m] # NoServer
          /\ server' = [server EXCEPT ![n] = [at |-> "starting", port |-> p,
                                              detached |-> h.persistent, by |-> s]]
          /\ Keeps(s, [h EXCEPT !.at = "wait", !.mine = n, !.port = p])
    /\ UNCHANGED <<usual, strangers, record, registry, left, harmed, crossed>>

(* waitReady asks the address, not the process.                             *)
Ready(s) ==
    LET h == host[s] IN
    /\ h.at = "wait" /\ Answers(h.port)
    /\ IF h.persistent
       THEN Keeps(s, [h EXCEPT !.at = "publish"]) /\ UNCHANGED <<registry, crossed>>
       ELSE Returns(s, [h EXCEPT !.process = h.mine, !.addr = h.port, !.managed = TRUE])
    /\ UNCHANGED <<usual, server, strangers, record, left, harmed, raced, troubles>>

(* Mutant: a server that was started in vain is left running.               *)
LeavesIt(s) == UNCHANGED server /\ Fails(s)

(* It is closed.                                                            *)
RollsBack(s) == server' = Stopped(host[s].mine) /\ Fails(s)

GivesUp(s) ==
    /\ host[s].at = "wait" /\ RollsBack(s)
    /\ UNCHANGED <<usual, strangers, record, left, harmed, raced, troubles>>

(* publish: a record of the server as it is now.  A write that may not last *)
(* is seen and reported as failed.                                          *)
Publishes(s) ==
    LET h == host[s] IN
    /\ h.at = "publish"
    /\ \/ /\ Identity(h.mine)
          /\ record' = h.mine
          /\ Returns(s, [h EXCEPT !.process = h.mine, !.addr = h.port, !.managed = TRUE])
          /\ UNCHANGED <<server, troubles>>
       \/ /\ ~Identity(h.mine) /\ RollsBack(s)
          /\ UNCHANGED <<record, troubles>>
       \/ /\ Trouble /\ RollsBack(s)
          /\ record' \in {record} \cup (IF Identity(h.mine) THEN {h.mine} ELSE {})
    /\ UNCHANGED <<usual, strangers, left, harmed, raced>>

(* An error, or the caller's end: of the wait for the lock, of the look at  *)
(* the record, or of a start.                                               *)
Errs(s) ==
    /\ host[s].at \in {"lock", "judge", "start"} /\ Fails(s)
    /\ UNCHANGED <<usual, server, strangers, record, left, harmed, raced, troubles>>

-----------------------------------------------------------------------------
(* StopKept: the only way a kept runtime is stopped.                        *)

(* The recorded process itself has the listener that answers.               *)
OwnsEndpoint(n) == server[n].at = "serving"

StopsKept(s) ==
    /\ host[s].at = "idle" /\ Exclusive
    /\ record # 0 /\ Identity(record) /\ OwnsEndpoint(record)
    /\ registry' = s
    /\ Keeps(s, [host[s] EXCEPT !.at = "signal", !.mine = record])
    /\ UNCHANGED <<usual, server, strangers, record, left, harmed, crossed, raced, troubles>>

Signals(s) ==
    LET n == host[s].mine IN
    /\ host[s].at = "signal"
    /\ IF Identity(n)
       THEN /\ server' = Stopped(n)
            /\ harmed' = (harmed \/ n \in strangers)
            /\ Keeps(s, [host[s] EXCEPT !.at = "remove"])
            /\ UNCHANGED <<registry, crossed>>
       ELSE Fails(s) /\ UNCHANGED <<server, harmed>>
    /\ UNCHANGED <<usual, strangers, record, left, raced, troubles>>

(* The signal cannot be sent: the server and its record stay.               *)
SignalFails(s) ==
    /\ host[s].at = "signal" /\ Trouble /\ Fails(s)
    /\ UNCHANGED <<usual, server, strangers, record, left, harmed, raced>>

RemovesRecord(s) ==
    LET h == host[s] IN
    /\ h.at = "remove"
    /\ \/ /\ record' = 0 /\ UNCHANGED troubles
          /\ Keeps(s, Hands(IF h.addr = server[h.mine].port
                            THEN [h EXCEPT !.process = 0, !.addr = "none",
                                           !.managed = FALSE, !.kept = FALSE]
                            ELSE h))
          /\ Releases(s) /\ UNCHANGED crossed
       \/ Trouble /\ Fails(s) /\ UNCHANGED record
    /\ UNCHANGED <<usual, server, strangers, left, harmed, raced>>

(* Close: the session's own server, unless it has been reaped already.      *)
Closes(s) ==
    LET h == host[s] IN
    /\ h.at = "idle"
    /\ Keeps(s, [Starter(h.persistent) EXCEPT !.at = "closed"])
    /\ server' = IF h.process # 0 /\ ~h.persistent THEN Stopped(h.process) ELSE server
    /\ UNCHANGED <<usual, strangers, record, registry, left, harmed, crossed, raced, troubles>>

-----------------------------------------------------------------------------
(* Around the starters: kolk dies, and outside Linux its own server may     *)
(* live on; a later session; servers, the user's, and other processes.      *)

Dies(s) ==
    /\ host[s].at # "closed" /\ Trouble
    /\ Keeps(s, [Starter(host[s].persistent) EXCEPT !.at = "closed"]) /\ Releases(s)
    /\ LET own == {n \in Servers : Live(n) /\ server[n].by = s /\ ~server[n].detached}
           unsaid == {n \in Servers : Live(n) /\ server[n].by = s /\ n # record} IN
       \E lost \in {{}, own} :
          /\ server' = [n \in Servers |-> IF n \in lost THEN Stopped(n)[n] ELSE server[n]]
          /\ left' = left \cup (unsaid \ lost)
    /\ UNCHANGED <<usual, strangers, record, harmed, crossed, raced>>

Opens(s, persistent) ==
    /\ host[s].at = "closed" /\ Keeps(s, Starter(persistent))
    /\ UNCHANGED <<usual, server, strangers, record, registry, left, harmed, crossed,
                   raced, troubles>>

(* A server that finds its port taken exits.                                *)
Binds(n) ==
    /\ server[n].at = "starting"
    /\ server' = [server EXCEPT ![n].at = IF Bound(server[n].port) = {} THEN "serving" ELSE "gone"]
    /\ UNCHANGED <<usual, strangers, record, registry, host, left, harmed, crossed, raced, troubles>>

ServerFails(n) ==
    /\ Live(n) /\ Trouble
    /\ \E at \in {"gone", "hung"} \ {server[n].at} :
          /\ server[n].at = "starting" => at = "gone"
          /\ server' = [server EXCEPT ![n].at = at]
    /\ UNCHANGED <<usual, strangers, record, registry, host, left, harmed, crossed, raced>>

Recovers(n) ==
    /\ server[n].at = "hung"
    /\ server' = [server EXCEPT ![n].at = "serving"]
    /\ UNCHANGED <<usual, strangers, record, registry, host, left, harmed, crossed, raced, troubles>>

StrangerComes(n) ==
    /\ server[n].at = "gone" /\ n \notin strangers
    /\ strangers' = strangers \cup {n}
    /\ UNCHANGED <<usual, server, record, registry, host, left, harmed, crossed, raced, troubles>>

UserSwitches ==
    /\ Trouble /\ usual' = ~usual
    /\ UNCHANGED <<server, strangers, record, registry, host, left, harmed, crossed, raced>>

HostInit ==
    /\ usual = FALSE /\ server = [n \in Servers |-> NoServer] /\ strangers = {}
    /\ record = 0 /\ registry = Nobody
    /\ host \in [Sessions -> {Starter(TRUE), Starter(FALSE)}]
    /\ left = {} /\ harmed = FALSE /\ crossed = FALSE /\ raced = FALSE /\ troubles = 0

HostNext ==
    \/ \E s \in Sessions :
          \/ Asks(s) \/ LocksRegistry(s) \/ Judges(s) \/ Misjudges(s) \/ Probes(s)
          \/ Ready(s) \/ GivesUp(s) \/ Publishes(s) \/ Errs(s)
          \/ StopsKept(s) \/ Signals(s) \/ SignalFails(s) \/ RemovesRecord(s) \/ Closes(s) \/ Dies(s)
          \/ \E p \in Ports : Starts(s, p)
          \/ \E persistent \in BOOLEAN : Opens(s, persistent)
    \/ \E n \in Servers : Binds(n) \/ ServerFails(n) \/ Recovers(n) \/ StrangerComes(n)
    \/ UserSwitches

HostSpec == HostInit /\ [][HostNext]_hostVars

-----------------------------------------------------------------------------
(* A detached server is the one the record names, or is being started.      *)
Expected(n) ==
    \/ server[n].detached /\ record = n
    \/ \E s \in Sessions : host[s].mine = n /\ host[s].at \in {"wait", "publish"}
    \/ ~server[n].detached /\ \E s \in Sessions : host[s].process = n

(* However many sessions ask at once, and whichever servers exit or hang:   *)
(* every server that runs is answered for, recorded, in the hands of the    *)
(* session that starts it, or owned by an open one; a project has one       *)
(* detached runtime; and no session is sent to another session's own        *)
(* server.  Left out are servers a crash left and those whose identity      *)
(* could not be read, and what follows when a port was given twice at the   *)
(* same time.  No process is ever signalled that is not kolk's, though      *)
(* process ids come back.                                                   *)
RuntimesKept ==
    /\ ~raced =>
          /\ \A n \in Servers : Live(n) => Expected(n) \/ n \in left
          /\ \A m, n \in Servers : Live(m) /\ Live(n) /\ server[m].detached /\ server[n].detached
                                   /\ {m, n} \cap left = {} => m = n
          /\ ~crossed
    /\ ~harmed
=============================================================================
