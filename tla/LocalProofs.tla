---------------------------- MODULE LocalProofs -----------------------------
(***************************************************************************)
(* Local models for any number of sessions, servers, setups and releases:  *)
(* RuntimesKept of LocalHost, InstallStands of LocalInstall.               *)
(*                                                                         *)
(* That every server is answered for rests on the registry's lock: between *)
(* the look at the record and the writing of it nobody else writes it, so  *)
(* that the server it then names is gone, or was given up (Replaced).      *)
(* That no session is sent to another's own server rests on the ports: a   *)
(* port in somebody's hand has no server but his (PortsApart).             *)
(***************************************************************************)
EXTENDS LocalHost, LocalInstall, TLAPS

Places == {"idle", "lock", "judge", "probe", "start", "wait", "publish", "signal", "remove",
           "closed"}
Here == Ports \cup {"none", "usual"}

ServersOK ==
    /\ server \in [Servers -> [at : {"none", "starting", "serving", "hung", "gone"},
                               port : Ports \cup {"none"}, detached : BOOLEAN,
                               by : Sessions \cup {"none"}]]
    /\ \A n \in Servers : IF server[n].at = "none" THEN server[n] = NoServer
                          ELSE server[n].port \in Ports /\ server[n].by \in Sessions

Starters == [at : Places, for : {"none", "first", "again"}, persistent : BOOLEAN, addr : Here,
             process : Servers \cup {0}, managed : BOOLEAN, kept : BOOLEAN,
             mine : Servers \cup {0}, port : Ports \cup {"none"}]

StartersOK == host \in [Sessions -> Starters]

RestOK ==
    /\ usual \in BOOLEAN /\ strangers \subseteq Servers /\ left \subseteq Servers
    /\ record \in Servers \cup {0} /\ registry \in Sessions \cup {Nobody}
    /\ harmed \in BOOLEAN /\ crossed \in BOOLEAN /\ raced \in BOOLEAN /\ troubles \in Nat

(* Nobody's process id is a server's that is still there.                   *)
StrangersApart == ~harmed /\ \A n \in strangers : server[n].at = "gone"

(* What a starter knows of the server it has started, or owns.              *)
OwnServer(s) ==
    LET h == host[s] IN
    /\ h.at \in {"wait", "publish"} =>
          /\ h.mine # 0 /\ server[h.mine].at # "none"
          /\ server[h.mine].port = h.port /\ server[h.mine].by = s
          /\ server[h.mine].detached = h.persistent
    /\ h.process # 0 =>
          /\ server[h.process].at # "none"
          /\ server[h.process].port = h.addr /\ server[h.process].by = s
          /\ server[h.process].detached = h.persistent
          /\ h.at \in {"idle", "signal", "remove"}
    /\ h.addr \in Ports /\ h.process = 0 => h.managed /\ (h.persistent \/ h.kept)
    /\ h.at = "publish" => h.persistent

(* Steps that are taken under the registry's lock.                          *)
Locked(h) ==
    \/ h.persistent /\ h.at \in {"judge", "probe"} /\ h.for # "again"
    \/ h.persistent /\ h.at \in {"start", "wait", "publish"}
    \/ h.at \in {"signal", "remove"}

Given(n) == n = 0 \/ ~Live(n) \/ n \in left

(* What the record names while a starter replaces or stops it.              *)
Replaced(s) ==
    LET h == host[s] IN
    /\ Locked(h) => registry = s
    /\ h.persistent /\ h.at \in {"start", "wait", "publish"} => Given(record)
    /\ h.at \in {"signal", "remove"} => record = h.mine /\ record # 0
    /\ h.at = "remove" => ~Live(record)

RecordDetached == record # 0 => server[record].detached

(* Who may be at the port a starter has in hand.                            *)
PortApart(s) ==
    LET h == host[s] IN
    /\ h.at \in {"wait", "publish"} =>
          \A n \in Servers : Live(n) /\ server[n].port = h.port => n = h.mine
    /\ h.at = "probe" =>
          \A n \in Servers : Live(n) /\ server[n].port = h.port => server[n].detached
    /\ h.at \in {"signal", "remove"} /\ h.process # 0 /\ ~h.persistent =>
          ~Live(h.process) \/ h.addr # server[h.mine].port

PortsApart ==
    /\ \A m, n \in Servers : Live(m) /\ Live(n) /\ server[m].port = server[n].port => m = n
    /\ \A s \in Sessions : PortApart(s)

Accounted == \A n \in Servers : Live(n) => Expected(n) \/ n \in left

HostInv ==
    /\ ServersOK /\ StartersOK /\ RestOK /\ StrangersApart /\ RecordDetached
    /\ \A s \in Sessions : OwnServer(s) /\ Replaced(s)
    /\ ~raced => PortsApart /\ Accounted /\ ~crossed

-----------------------------------------------------------------------------
LEMMA NoZero == 0 \notin Servers
BY HostBoundsAssumption DEF Servers

LEMMA HostStarts == HostInit => HostInv
<1> SUFFICES ASSUME HostInit PROVE HostInv
  OBVIOUS
<1>1. ServersOK /\ RecordDetached /\ StrangersApart
  BY DEF HostInit, ServersOK, NoServer, RecordDetached, StrangersApart
<1>2. StartersOK
  <2>1. Starter(TRUE) \in Starters /\ Starter(FALSE) \in Starters
    BY DEF Starter, Starters, Places, Here
  <2> QED
    BY <2>1 DEF HostInit, StartersOK
<1>3. RestOK
  BY DEF HostInit, RestOK
<1>4. ASSUME NEW n \in Servers PROVE ~Live(n)
  BY DEF HostInit, NoServer, Live
<1>5. ASSUME NEW s \in Sessions PROVE OwnServer(s) /\ Replaced(s) /\ PortApart(s)
  BY PortsAssumption
     DEF HostInit, Starter, OwnServer, Replaced, PortApart, Locked
<1> QED
  BY <1>1, <1>2, <1>3, <1>4, <1>5 DEF HostInv, PortsApart, Accounted, HostInit

(* Servers go, and none comes.                                              *)
Falls ==
    /\ ServersOK'
    /\ \A n \in Servers :
          /\ server'[n].port = server[n].port /\ server'[n].by = server[n].by
          /\ server'[n].detached = server[n].detached
          /\ server'[n].at = "none" <=> server[n].at = "none"
          /\ Live(n)' => Live(n)

(* What one starter, or none, does to the invariant.                        *)
LEMMA HostMoves ==
    ASSUME HostInv, NEW M \in SUBSET Sessions, Falls,
           StartersOK', RestOK', StrangersApart', RecordDetached',
           raced' = raced, left \subseteq left',
           \A t \in Sessions \ M : /\ host'[t] = host[t]
                                   /\ registry = t => registry' = t
                                   /\ record' = record \/ registry # t,
           \A s \in M : OwnServer(s)' /\ Replaced(s)' /\ (~raced => PortApart(s)'),
           ~raced => ~crossed',
           \A n \in Servers : Live(n)' /\ record = n => record' = n \/ n \in left',
           ~raced => \A n \in Servers, s \in M :
              Live(n)' /\ (\/ host[s].mine = n /\ host[s].at \in {"wait", "publish"}
                           \/ ~server[n].detached /\ host[s].process = n)
              => Expected(n)' \/ n \in left'
    PROVE  HostInv'
<1>1. ASSUME NEW t \in Sessions \ M PROVE OwnServer(t)'
  <2>1. host'[t] = host[t] /\ host[t] \in Starters /\ OwnServer(t)
    BY DEF HostInv, StartersOK
  <2>2. host[t].mine # 0 => server'[host[t].mine].at # "none" <=> server[host[t].mine].at # "none"
    BY <2>1 DEF Falls, Starters
  <2> QED
    BY <2>1, <2>2 DEF OwnServer, Falls, Starters
<1>2. ASSUME NEW t \in Sessions \ M PROVE Replaced(t)'
  <2>1. host'[t] = host[t] /\ host[t] \in Starters /\ Replaced(t) /\ record \in Servers \cup {0}
    BY DEF HostInv, StartersOK, RestOK
  <2>2. CASE Locked(host[t])
    <3>1. registry = t /\ registry' = t /\ record' = record
      BY <2>1, <2>2 DEF Replaced
    <3>2. Given(record) => Given(record)'
      BY <2>1, <3>1 DEF Given, Falls
    <3>3. record # 0 /\ ~Live(record) => ~Live(record)'
      BY <2>1, <3>1 DEF Falls
    <3> QED
      BY <2>1, <3>1, <3>2, <3>3 DEF Replaced
  <2>3. CASE ~Locked(host[t])
    BY <2>1, <2>3 DEF Replaced, Locked
  <2> QED
    BY <2>2, <2>3
<1>3. ASSUME ~raced, NEW t \in Sessions \ M PROVE PortApart(t)'
  <2>1. host'[t] = host[t] /\ host[t] \in Starters /\ PortApart(t)
    BY <1>3 DEF HostInv, StartersOK, PortsApart
  <2>2. Replaced(t)
    BY DEF HostInv
  <2> QED
    BY <2>1, <2>2 DEF PortApart, Falls, Starters, Replaced
<1>4. ASSUME ~raced PROVE Accounted'
  <2> SUFFICES ASSUME NEW n \in Servers, Live(n)', n \notin left' PROVE Expected(n)'
    BY DEF Accounted
  <2>1. Expected(n)
    BY <1>4 DEF HostInv, Accounted, Falls
  <2>2. CASE server[n].detached /\ record = n
    BY <2>2 DEF Falls, Expected
  <2>3. CASE \E s \in Sessions : host[s].mine = n /\ host[s].at \in {"wait", "publish"}
    <3>1. PICK s \in Sessions : host[s].mine = n /\ host[s].at \in {"wait", "publish"}
      BY <2>3
    <3>2. CASE s \in M
      BY <1>4, <3>1, <3>2
    <3>3. CASE s \notin M
      BY <3>1, <3>3 DEF Expected
    <3> QED
      BY <3>2, <3>3
  <2>4. CASE ~server[n].detached /\ \E s \in Sessions : host[s].process = n
    <3>1. PICK s \in Sessions : host[s].process = n
      BY <2>4
    <3>2. CASE s \in M
      BY <1>4, <2>4, <3>1, <3>2
    <3>3. CASE s \notin M
      BY <2>4, <3>1, <3>3 DEF Expected, Falls
    <3> QED
      BY <3>2, <3>3
  <2> QED
    BY <2>1, <2>2, <2>3, <2>4 DEF Expected
<1>5. ASSUME ~raced PROVE PortsApart'
  <2>1. \A m, n \in Servers : Live(m)' /\ Live(n)' /\ server'[m].port = server'[n].port => m = n
    BY <1>5 DEF HostInv, PortsApart, Falls
  <2>2. \A t \in Sessions : PortApart(t)'
    BY <1>3, <1>5
  <2> QED
    BY <2>1, <2>2 DEF PortsApart
<1> QED
  BY <1>1, <1>2, <1>4, <1>5 DEF HostInv, Falls

(* A starter that moves, and leaves the servers and the record alone.       *)
LEMMA StarterMoves ==
    ASSUME HostInv, NEW s \in Sessions, NEW h \in Starters, Keeps(s, h),
           UNCHANGED <<server, strangers, record, harmed, raced>>, RestOK',
           left \subseteq left', \A t \in Sessions \ {s} : registry = t => registry' = t,
           OwnServer(s)', Replaced(s)', ~raced => PortApart(s)', ~raced => ~crossed',
           ~raced => \A n \in Servers :
              Live(n) /\ (\/ host[s].mine = n /\ host[s].at \in {"wait", "publish"}
                          \/ ~server[n].detached /\ host[s].process = n)
              => Expected(n)' \/ n \in left'
    PROVE  HostInv'
<1>1. Falls
  BY DEF HostInv, ServersOK, Falls, Live
<1>2. StartersOK' /\ \A t \in Sessions \ {s} : host'[t] = host[t]
  BY DEF HostInv, StartersOK, Keeps
<1>3. StrangersApart' /\ RecordDetached'
  BY DEF HostInv, StrangersApart, RecordDetached
<1>4. \A n \in Servers : Live(n)' => Live(n)
  BY <1>1 DEF Falls
<1>5. \A t \in {s} : OwnServer(t)' /\ Replaced(t)' /\ (~raced => PortApart(t)')
  OBVIOUS
<1>6. ~raced => \A n \in Servers, t \in {s} :
         Live(n)' /\ (\/ host[t].mine = n /\ host[t].at \in {"wait", "publish"}
                      \/ ~server[n].detached /\ host[t].process = n)
         => Expected(n)' \/ n \in left'
  BY <1>4
<1> HIDE DEF Keeps
<1> QED
  BY <1>1, <1>2, <1>3, <1>5, <1>6, HostMoves
-----------------------------------------------------------------------------
(* A call: nothing but its starter, the lock and what is told of it changes.*)
Around ==
    /\ UNCHANGED <<usual, server, strangers, record, harmed, raced>>
    /\ left \subseteq left' /\ left' \subseteq Servers /\ troubles' \in Nat

(* The starter h may be kept: what it owns is its own.                      *)
Owns(s, h) ==
    /\ h.process # 0 =>
          /\ server[h.process].at # "none"
          /\ server[h.process].port = h.addr /\ server[h.process].by = s
          /\ server[h.process].detached = h.persistent
    /\ h.addr \in Ports /\ h.process = 0 => h.managed /\ (h.persistent \/ h.kept)

LEMMA StarterReturns ==
    ASSUME HostInv, NEW s \in Sessions, NEW h \in Starters, Returns(s, h), Around, Owns(s, h),
           ~raced => \A n \in Servers :
              Live(n) /\ server[n].port = h.addr => server[n].detached \/ server[n].by = s,
           ~raced => \A n \in Servers :
              Live(n) /\ (\/ host[s].mine = n /\ host[s].at \in {"wait", "publish"}
                          \/ ~server[n].detached /\ host[s].process = n)
              => \/ server[n].detached /\ record = n
                 \/ ~server[n].detached /\ h.process = n
                 \/ n \in left
    PROVE  HostInv'
<1> DEFINE k == Hands(h)
<1>1. /\ k \in Starters /\ k.at = "idle" /\ k.process = h.process /\ k.addr = h.addr
      /\ k.managed = h.managed /\ k.kept = h.kept /\ k.persistent = h.persistent
  BY DEF Hands, Starters, Places
<1>2. Keeps(s, k) /\ Releases(s)
  BY DEF Returns
<1>3. host'[s] = k
  BY <1>2 DEF Keeps, HostInv, StartersOK
<1>4. ~raced => ~crossed'
  BY DEF Returns, Bound, Live, HostInv
<1>5. crossed' \in BOOLEAN
  BY DEF Returns, HostInv, RestOK
<1>6. RestOK' /\ \A t \in Sessions \ {s} : registry = t => registry' = t
  BY <1>2, <1>5 DEF Releases, Around, HostInv, RestOK
<1>7. OwnServer(s)' /\ Replaced(s)' /\ PortApart(s)'
  BY <1>1, <1>3 DEF OwnServer, Owns, Replaced, Locked, PortApart, Around
<1>8. ASSUME ~raced, NEW n \in Servers, Live(n),
             \/ host[s].mine = n /\ host[s].at \in {"wait", "publish"}
             \/ ~server[n].detached /\ host[s].process = n
      PROVE  Expected(n)' \/ n \in left'
  BY <1>1, <1>3, <1>8 DEF Expected, Around
<1> HIDE DEF k
<1> QED
  BY <1>1, <1>2, <1>4, <1>6, <1>7, <1>8, StarterMoves DEF Around

LEMMA StarterFails ==
    ASSUME HostInv, NEW s \in Sessions, Fails(s), Around, host[s].at \notin {"wait", "publish"}
    PROVE  HostInv'
<1> DEFINE k == Hands(host[s])
<1>1. /\ k \in Starters /\ k.at = "idle" /\ k.process = host[s].process
      /\ k.addr = host[s].addr /\ k.managed = host[s].managed /\ k.kept = host[s].kept
      /\ k.persistent = host[s].persistent
  BY ZenonT(60) DEF Hands, Starters, Places, HostInv, StartersOK
<1>2. Keeps(s, k) /\ Releases(s) /\ crossed' = crossed
  BY DEF Fails
<1>3. host'[s] = k
  BY <1>2 DEF Keeps, HostInv, StartersOK
<1>4. RestOK' /\ \A t \in Sessions \ {s} : registry = t => registry' = t
  BY <1>2 DEF Releases, Around, HostInv, RestOK
<1>5. OwnServer(s)' /\ Replaced(s)' /\ PortApart(s)'
  BY <1>1, <1>3 DEF HostInv, OwnServer, Replaced, Locked, PortApart, Around
<1>6. ASSUME NEW n \in Servers, ~server[n].detached /\ host[s].process = n
      PROVE  Expected(n)'
  BY <1>1, <1>3, <1>6 DEF Expected, Around
<1>7. ~raced => ~crossed'
  BY <1>2 DEF HostInv
<1> HIDE DEF k
<1> QED
  BY <1>1, <1>2, <1>4, <1>5, <1>6, <1>7, StarterMoves DEF Around

(* A step within a call.                                                    *)
LEMMA StarterGoesOn ==
    ASSUME HostInv, NEW s \in Sessions, NEW h \in Starters, Keeps(s, h), Around,
           UNCHANGED <<registry, crossed>> \/ (registry = Nobody /\ registry' = s
                                               /\ UNCHANGED crossed),
           OwnServer(s)', Replaced(s)', ~raced => PortApart(s)',
           ~raced => \A n \in Servers :
              Live(n) /\ (\/ host[s].mine = n /\ host[s].at \in {"wait", "publish"}
                          \/ ~server[n].detached /\ host[s].process = n)
              => Expected(n)' \/ n \in left'
    PROVE  HostInv'
<1>1. RestOK' /\ (~raced => ~crossed')
  BY DEF Around, HostInv, RestOK
<1>2. \A t \in Sessions \ {s} : registry = t => registry' = t
  BY SessionsAssumption DEF Nobody
<1> QED
  BY <1>1, <1>2, StarterMoves DEF Around

(* The address is not known.                                                *)
LEMMA StarterDiscovers ==
    ASSUME HostInv, NEW s \in Sessions, NEW h \in Starters, Discovers(s, h), Around,
           h.process = 0, h.addr = "none", host[s].at \in {"idle", "judge", "probe"},
           host[s].process # 0 => ~Live(host[s].process)
    PROVE  HostInv'
<1>1. \A n \in Servers :
         ~(Live(n) /\ (\/ host[s].mine = n /\ host[s].at \in {"wait", "publish"}
                       \/ ~server[n].detached /\ host[s].process = n))
  BY NoZero DEF HostInv, StartersOK, Starters
<1>2. CASE usual
  <2> DEFINE k == [h EXCEPT !.addr = "usual", !.managed = FALSE, !.kept = FALSE]
  <2>1. k \in Starters /\ k.addr = "usual" /\ k.process = 0
    BY DEF Starters, Here
  <2>2. Returns(s, k)
    BY <1>2 DEF Discovers
  <2>3. Owns(s, k)
    BY <2>1, PortsAssumption DEF Owns
  <2>4. \A n \in Servers : Live(n) => server[n].port # k.addr
    BY <2>1, PortsAssumption DEF HostInv, ServersOK, Live
  <2> HIDE DEF k
  <2> QED
    BY <1>1, <2>1, <2>2, <2>3, <2>4, StarterReturns
<1>3. CASE ~usual
  <2> DEFINE k == [h EXCEPT !.at = IF h.persistent THEN "lock" ELSE "judge", !.port = "none",
                            !.for = "first"]
  <2>1. k \in Starters /\ k.process = 0 /\ k.addr = "none"
        /\ k.at \in {"lock", "judge"} /\ (k.persistent => k.at = "lock")
    BY DEF Starters, Places
  <2>2. Keeps(s, k) /\ UNCHANGED <<registry, crossed>>
    BY <1>3 DEF Discovers
  <2>3. host'[s] = k
    BY <2>2 DEF Keeps, HostInv, StartersOK
  <2>4. OwnServer(s)' /\ Replaced(s)' /\ PortApart(s)'
    BY <2>1, <2>3, PortsAssumption DEF OwnServer, Replaced, Locked, PortApart
  <2> HIDE DEF k
  <2> QED
    BY <1>1, <2>1, <2>2, <2>4, StarterGoesOn
<1> QED
  BY <1>2, <1>3

LEMMA StarterFindsNone ==
    ASSUME HostInv, NEW s \in Sessions, NoneToReuse(s), Around,
           \/ host[s].at = "judge" /\ Given(record)'
           \/ host[s].at = "probe" /\ ~host[s].persistent
    PROVE  HostInv'
<1>1. host[s] \in Starters /\ host[s].process = 0
  BY DEF HostInv, StartersOK, OwnServer
<1>2. CASE host[s].for = "again"
  <2> DEFINE k == [host[s] EXCEPT !.addr = "none", !.kept = FALSE]
  <2>1. k \in Starters /\ k.process = 0 /\ k.addr = "none"
    BY <1>1 DEF Starters, Here
  <2>2. Discovers(s, k)
    BY <1>2 DEF NoneToReuse
  <2> HIDE DEF k
  <2> QED
    BY <1>1, <2>1, <2>2, StarterDiscovers
<1>3. CASE host[s].for # "again"
  <2> DEFINE k == [host[s] EXCEPT !.at = "start", !.port = "none"]
  <2>1. /\ k \in Starters /\ k.at = "start" /\ k.process = 0
        /\ k.persistent = host[s].persistent /\ k.addr = host[s].addr
        /\ k.managed = host[s].managed /\ k.kept = host[s].kept
    BY <1>1 DEF Starters, Places
  <2>2. Keeps(s, k) /\ UNCHANGED <<registry, crossed>>
    BY <1>3 DEF NoneToReuse
  <2>3. host'[s] = k
    BY <2>2 DEF Keeps, HostInv, StartersOK
  <2>4. host[s].persistent => registry = s
    BY <1>3 DEF HostInv, Replaced, Locked
  <2>5. OwnServer(s)' /\ PortApart(s)'
    BY <2>1, <2>3 DEF HostInv, OwnServer, PortApart, Around
  <2>6. Replaced(s)'
    BY <2>1, <2>2, <2>3, <2>4 DEF Replaced, Locked
  <2>7. \A n \in Servers :
         ~(\/ host[s].mine = n /\ host[s].at \in {"wait", "publish"}
           \/ ~server[n].detached /\ host[s].process = n)
    BY <1>1, NoZero DEF Starters
  <2> HIDE DEF k
  <2> QED
    BY <2>1, <2>2, <2>5, <2>6, <2>7, StarterGoesOn
<1> QED
  BY <1>2, <1>3
-----------------------------------------------------------------------------
LEMMA AsksKeeps == ASSUME HostInv, NEW s \in Sessions, Asks(s) PROVE HostInv'
<1> DEFINE h == ForgetExited(host[s])
           shared == (h.persistent \/ h.kept) /\ h.managed /\ h.process = 0
<1>1. host[s] \in Starters /\ OwnServer(s) /\ host[s].at = "idle"
  BY DEF HostInv, StartersOK, Asks
<1>2. /\ h \in Starters /\ h.at = "idle" /\ h.persistent = host[s].persistent
      /\ h.process # 0 => h = host[s] /\ Live(h.process)
      /\ h.process = 0 => host[s].process = 0 \/ ~Live(host[s].process)
      /\ h.addr # "none" => h = host[s]
  BY <1>1 DEF ForgetExited, Starters, Here
<1>3. Around
  BY DEF Asks, Around, HostInv, RestOK
<1>4. CASE h.addr # "none" /\ ~shared /\ Returns(s, h)
  <2>1. Owns(s, h)
    BY <1>1, <1>2, <1>4 DEF Owns, OwnServer
  <2>2. ASSUME ~raced, NEW n \in Servers, Live(n), server[n].port = h.addr
        PROVE  server[n].by = s
    <3>1. h.addr \in Ports
      BY <2>2 DEF HostInv, ServersOK, Live
    <3>2. h.process # 0
      BY <2>1, <3>1, <1>4 DEF Owns
    <3>3. h.process \in Servers /\ Live(h.process) /\ server[h.process].port = h.addr
          /\ server[h.process].by = s
      BY <1>2, <2>1, <3>2 DEF Owns, Starters
    <3> QED
      BY <2>2, <3>3 DEF HostInv, PortsApart
  <2> HIDE DEF h, shared
  <2>3. h = host[s]
    BY <1>2, <1>4
  <2> QED
    BY <1>1, <1>2, <1>3, <1>4, <2>1, <2>2, <2>3, StarterReturns DEF shared
<1>5. CASE h.addr # "none" /\ shared /\ UNCHANGED <<registry, crossed>>
           /\ Keeps(s, [h EXCEPT !.at = "judge", !.for = "again"])
  <2> DEFINE k == [h EXCEPT !.at = "judge", !.for = "again"]
  <2>1. /\ k \in Starters /\ k.at = "judge" /\ k.for = "again" /\ k.process = 0
        /\ k.managed /\ (k.persistent \/ k.kept)
    BY <1>2, <1>5 DEF Starters, Places
  <2>2. host'[s] = k
    BY <1>5 DEF Keeps, HostInv, StartersOK
  <2>3. OwnServer(s)' /\ Replaced(s)' /\ PortApart(s)'
    BY <2>1, <2>2 DEF OwnServer, Replaced, Locked, PortApart
  <2>4. \A n \in Servers : Live(n) => host[s].process # n
    BY <1>2, <1>5, NoZero
  <2>5. Keeps(s, k)
    BY <1>5
  <2> HIDE DEF k, h, shared
  <2> QED
    BY <1>1, <1>3, <1>5, <2>1, <2>3, <2>4, <2>5, StarterGoesOn
<1>6. CASE h.addr = "none" /\ Discovers(s, h)
  <2>1. h.process = 0
    <3>1. h.process # 0 => server[h.process].port = "none" /\ h.process \in Servers
                           /\ Live(h.process)
      BY <1>1, <1>2, <1>6 DEF OwnServer, Starters
    <3> QED
      BY <3>1, PortsAssumption DEF HostInv, ServersOK, Live
  <2> HIDE DEF h
  <2> QED
    BY <1>1, <1>2, <1>3, <1>6, <2>1, StarterDiscovers
<1> QED
  BY <1>4, <1>5, <1>6 DEF Asks

LEMMA LocksRegistryKeeps ==
    ASSUME HostInv, NEW s \in Sessions, LocksRegistry(s) PROVE HostInv'
<1> DEFINE k == [host[s] EXCEPT !.at = "judge"]
<1>1. /\ host[s] \in Starters /\ host[s].at = "lock" /\ host[s].process = 0
      /\ OwnServer(s)
  BY DEF HostInv, StartersOK, LocksRegistry, OwnServer
<1>2. /\ k \in Starters /\ k.at = "judge" /\ k.process = 0 /\ k.addr = host[s].addr
      /\ k.managed = host[s].managed /\ k.kept = host[s].kept
      /\ k.persistent = host[s].persistent
  BY <1>1 DEF Starters, Places
<1>3. Keeps(s, k) /\ registry = Nobody /\ registry' = s /\ UNCHANGED crossed
  BY DEF LocksRegistry, Exclusive
<1>4. host'[s] = k
  BY <1>3 DEF Keeps, HostInv, StartersOK
<1>5. OwnServer(s)' /\ Replaced(s)' /\ PortApart(s)'
  BY <1>1, <1>2, <1>3, <1>4 DEF OwnServer, Replaced, Locked, PortApart
<1>6. Around
  BY DEF LocksRegistry, Around, HostInv, RestOK
<1> HIDE DEF k
<1> QED
  BY <1>1, <1>2, <1>3, <1>5, <1>6, NoZero, StarterGoesOn

LEMMA JudgesKeeps == ASSUME HostInv, NEW s \in Sessions, Judges(s) PROVE HostInv'
<1>1. host[s] \in Starters /\ host[s].at = "judge" /\ host[s].process = 0 /\ OwnServer(s)
  BY DEF HostInv, StartersOK, Judges, OwnServer
<1>2. Around
  BY DEF Judges, Around, HostInv, RestOK
<1>3. CASE record # 0 /\ Identity(record)
  <2> DEFINE k == [host[s] EXCEPT !.at = "probe", !.port = server[record].port]
  <2>1. record \in Servers /\ Live(record) /\ server[record].detached
        /\ server[record].port \in Ports
    BY <1>3 DEF HostInv, RestOK, RecordDetached, Identity, ServersOK, Live
  <2>2. /\ k \in Starters /\ k.at = "probe" /\ k.process = 0 /\ k.addr = host[s].addr
        /\ k.managed = host[s].managed /\ k.kept = host[s].kept /\ k.for = host[s].for
        /\ k.persistent = host[s].persistent /\ k.port = server[record].port
    BY <1>1, <2>1 DEF Starters, Places
  <2>3. Keeps(s, k) /\ UNCHANGED <<registry, crossed>>
    BY <1>3 DEF Judges
  <2>4. host'[s] = k
    BY <2>3 DEF Keeps, HostInv, StartersOK
  <2>5. OwnServer(s)'
    BY <1>1, <2>2, <2>4 DEF OwnServer
  <2>6. Replaced(s)'
    BY <1>1, <2>2, <2>3, <2>4 DEF HostInv, Replaced, Locked
  <2>7. ~raced => PortApart(s)'
    BY <1>2, <2>1, <2>2, <2>4 DEF HostInv, PortsApart, PortApart, Around, Live
  <2> HIDE DEF k
  <2> QED
    BY <1>1, <1>2, <2>2, <2>3, <2>5, <2>6, <2>7, NoZero, StarterGoesOn
<1>4. CASE ~(record # 0 /\ Identity(record))
  <2>1. NoneToReuse(s)
    BY <1>4 DEF Judges
  <2>2. Given(record)'
    BY <1>2, <1>4 DEF Given, Identity, Around, Live
  <2> QED
    BY <1>1, <1>2, <2>1, <2>2, StarterFindsNone
<1> QED
  BY <1>3, <1>4

LEMMA MisjudgesKeeps == ASSUME HostInv, NEW s \in Sessions, Misjudges(s) PROVE HostInv'
<1>1. record \in Servers /\ left' = left \cup {record} /\ record' = record
  BY DEF HostInv, RestOK, Misjudges
<1>2. Around
  BY <1>1 DEF Misjudges, Trouble, Around, HostInv, RestOK
<1>3. Given(record)'
  BY <1>1 DEF Given
<1> QED
  BY <1>2, <1>3, StarterFindsNone DEF Misjudges

LEMMA ProbesKeeps == ASSUME HostInv, NEW s \in Sessions, Probes(s) PROVE HostInv'
<1>1. host[s] \in Starters /\ host[s].at = "probe" /\ host[s].process = 0 /\ OwnServer(s)
  BY DEF HostInv, StartersOK, Probes, OwnServer
<1>2. Around
  BY DEF Probes, Around, HostInv, RestOK
<1> DEFINE k == [host[s] EXCEPT !.addr = host[s].port, !.managed = TRUE,
                                !.kept = @ \/ ~host[s].persistent]
<1>3. CASE Returns(s, k)
  <2>1. /\ k \in Starters /\ k.process = 0 /\ k.addr = host[s].port
        /\ k.managed /\ (k.persistent \/ k.kept)
    BY <1>1 DEF Starters, Here
  <2>2. Owns(s, k)
    BY <2>1 DEF Owns
  <2>3. ~raced => \A n \in Servers : Live(n) /\ server[n].port = k.addr => server[n].detached
    BY <1>1, <2>1 DEF HostInv, PortsApart, PortApart
  <2> HIDE DEF k
  <2> QED
    BY <1>1, <1>2, <1>3, <2>1, <2>2, <2>3, NoZero, StarterReturns
<1>4. CASE Fails(s)
  BY <1>1, <1>2, <1>4, StarterFails
<1>5. CASE ~host[s].persistent /\ NoneToReuse(s)
  BY <1>1, <1>2, <1>5, StarterFindsNone
<1> QED
  BY <1>3, <1>4, <1>5 DEF Probes

LEMMA ErrsKeeps == ASSUME HostInv, NEW s \in Sessions, Errs(s) PROVE HostInv'
<1>1. Around /\ Fails(s) /\ host[s].at \notin {"wait", "publish"}
  BY DEF Errs, Around, HostInv, RestOK
<1> QED
  BY <1>1, StarterFails

LEMMA SignalFailsKeeps == ASSUME HostInv, NEW s \in Sessions, SignalFails(s) PROVE HostInv'
<1>1. Around /\ Fails(s) /\ host[s].at \notin {"wait", "publish"}
  BY DEF SignalFails, Trouble, Around, HostInv, RestOK
<1> QED
  BY <1>1, StarterFails

LEMMA ReadyKeeps == ASSUME HostInv, NEW s \in Sessions, Ready(s) PROVE HostInv'
<1>1. host[s] \in Starters /\ host[s].at = "wait" /\ host[s].process = 0 /\ OwnServer(s)
  BY DEF HostInv, StartersOK, Ready, OwnServer
<1>2. Around
  BY DEF Ready, Around, HostInv, RestOK
<1>3. /\ host[s].mine \in Servers /\ server[host[s].mine].at # "none"
      /\ server[host[s].mine].port = host[s].port /\ server[host[s].mine].by = s
      /\ server[host[s].mine].detached = host[s].persistent
  BY <1>1 DEF OwnServer, Starters
<1>4. CASE host[s].persistent
  <2> DEFINE k == [host[s] EXCEPT !.at = "publish"]
  <2>1. /\ k \in Starters /\ k.at = "publish" /\ k.process = 0 /\ k.addr = host[s].addr
        /\ k.managed = host[s].managed /\ k.kept = host[s].kept /\ k.persistent
        /\ k.mine = host[s].mine /\ k.port = host[s].port
    BY <1>1, <1>4 DEF Starters, Places
  <2>2. Keeps(s, k) /\ UNCHANGED <<registry, crossed>>
    BY <1>4 DEF Ready
  <2>3. host'[s] = k
    BY <2>2 DEF Keeps, HostInv, StartersOK
  <2>4. OwnServer(s)'
    BY ZenonT(60), <1>1, <1>2, <1>3, <1>4, <2>1, <2>3 DEF OwnServer, Around
  <2>5. Replaced(s)'
    BY <1>1, <1>2, <1>4, <2>1, <2>2, <2>3
       DEF HostInv, Replaced, Locked, Given, Around, Live
  <2>6. ~raced => PortApart(s)'
    BY <1>1, <1>2, <2>1, <2>3 DEF HostInv, PortsApart, PortApart, Around, Live
  <2>7. \A n \in Servers : host[s].mine = n => Expected(n)'
    BY <2>1, <2>3 DEF Expected
  <2> HIDE DEF k
  <2> QED
    BY <1>1, <1>2, <2>1, <2>2, <2>4, <2>5, <2>6, <2>7, NoZero, StarterGoesOn
<1>5. CASE ~host[s].persistent
  <2> DEFINE k == [host[s] EXCEPT !.process = host[s].mine, !.addr = host[s].port,
                                  !.managed = TRUE]
  <2>1. /\ k \in Starters /\ k.process = host[s].mine /\ k.addr = host[s].port
        /\ k.persistent = host[s].persistent
    BY <1>1, <1>3 DEF Starters, Here
  <2>2. Returns(s, k)
    BY <1>5 DEF Ready
  <2>3. Owns(s, k)
    BY <1>3, <2>1, NoZero DEF Owns
  <2>4. ~raced => \A n \in Servers : Live(n) /\ server[n].port = k.addr => server[n].by = s
    BY <1>1, <1>3, <2>1 DEF HostInv, PortsApart, PortApart
  <2>5. \A n \in Servers : host[s].mine = n => ~server[n].detached /\ k.process = n
    BY <1>3, <1>5, <2>1
  <2> HIDE DEF k
  <2> QED
    BY <1>1, <1>2, <2>1, <2>2, <2>3, <2>4, <2>5, NoZero, StarterReturns
<1> QED
  BY <1>4, <1>5
-----------------------------------------------------------------------------
LEMMA StoppedFalls ==
    ASSUME HostInv, NEW n \in Servers, server' = Stopped(n)
    PROVE  /\ Falls /\ ~Live(n)'
           /\ \A m \in Servers : server[m].at = "gone" => server'[m].at = "gone"
<1>1. ServersOK
  BY DEF HostInv
<1>2. \A m \in Servers : m # n => server'[m] = server[m]
  BY <1>1 DEF Stopped, ServersOK
<1>3. server'[n] = IF Live(n) THEN [server[n] EXCEPT !.at = "gone"] ELSE server[n]
  BY <1>1 DEF Stopped, ServersOK
<1>4. server'[n].port = server[n].port /\ server'[n].by = server[n].by
      /\ server'[n].detached = server[n].detached
      /\ server'[n].at = (IF Live(n) THEN "gone" ELSE server[n].at)
  BY <1>1, <1>3 DEF ServersOK
<1>5. ServersOK'
  <2>1. server' \in [Servers -> [at : {"none", "starting", "serving", "hung", "gone"},
                                 port : Ports \cup {"none"}, detached : BOOLEAN,
                                 by : Sessions \cup {"none"}]]
    BY <1>1 DEF Stopped, ServersOK
  <2>2. server'[n].at = "none" => server'[n] = server[n] /\ server[n].at = "none"
    BY <1>1, <1>3, <1>4 DEF Live
  <2>3. server'[n].at # "none" => server[n].at # "none"
    BY <1>4 DEF Live
  <2> QED
    BY <1>1, <1>2, <1>4, <2>1, <2>2, <2>3 DEF ServersOK
<1>6. ~Live(n)' /\ \A m \in Servers : m # n => (Live(m)' <=> Live(m))
  BY <1>2, <1>4 DEF Live
<1>7. \A m \in Servers : server'[m].at = "none" <=> server[m].at = "none"
  BY <1>2, <1>4 DEF Live
<1>8. \A m \in Servers : server[m].at = "gone" => server'[m].at = "gone"
  BY <1>2, <1>4 DEF Live
<1> QED
  BY <1>2, <1>4, <1>5, <1>6, <1>7, <1>8 DEF Falls

LEMMA NoServerFalls == ASSUME HostInv, UNCHANGED server PROVE Falls
BY DEF HostInv, ServersOK, Falls, Live

LEMMA RollsBackKeeps ==
    ASSUME HostInv, NEW s \in Sessions, host[s].at \in {"wait", "publish"}, RollsBack(s),
           UNCHANGED <<usual, strangers, left, harmed, raced>>, troubles' \in Nat,
           record' = record \/ (host[s].persistent /\ record' = host[s].mine)
    PROVE  HostInv'
<1> DEFINE k == Hands(host[s])
<1>1. host[s] \in Starters /\ OwnServer(s) /\ host[s].mine \in Servers /\ host[s].process = 0
  BY DEF HostInv, StartersOK, OwnServer, Starters
<1>2. /\ k \in Starters /\ k.at = "idle" /\ k.process = 0
      /\ k.addr = host[s].addr /\ k.managed = host[s].managed /\ k.kept = host[s].kept
      /\ k.persistent = host[s].persistent
  BY <1>1 DEF Hands, Starters, Places
<1>3. Keeps(s, k) /\ Releases(s) /\ crossed' = crossed /\ server' = Stopped(host[s].mine)
  BY DEF Fails, RollsBack
<1>4. /\ host'[s] = k /\ StartersOK'
      /\ \A t \in Sessions \ {s} : host'[t] = host[t]
  BY <1>2, <1>3 DEF Keeps, HostInv, StartersOK
<1> PICK mine \in Servers : mine = host[s].mine
  BY <1>1
<1>5. Falls /\ ~Live(mine)' /\ StrangersApart'
  <2>1. Falls /\ ~Live(mine)'
        /\ \A m \in Servers : server[m].at = "gone" => server'[m].at = "gone"
    BY <1>3, StoppedFalls
  <2> QED
    BY <2>1 DEF HostInv, StrangersApart, RestOK
<1>6. RestOK' /\ \A t \in Sessions \ {s} : registry = t => registry' = t
  BY <1>1, <1>3 DEF Releases, HostInv, RestOK
<1>7. OwnServer(s)' /\ Replaced(s)' /\ PortApart(s)'
  BY <1>1, <1>2, <1>4 DEF OwnServer, Replaced, Locked, PortApart
<1>8. RecordDetached'
  BY <1>1, <1>5 DEF HostInv, RecordDetached, OwnServer, Falls, RestOK
<1>9. host[s].persistent => registry = s /\ Given(record)
  BY DEF HostInv, Replaced, Locked
<1>10. \A n \in Servers : Live(n)' /\ record = n => record' = n \/ n \in left'
  BY <1>5, <1>9, NoZero DEF Given, Falls
<1>11. \A t \in Sessions \ {s} : record' = record \/ registry # t
  BY <1>9
<1>12. \A n \in Servers, t \in {s} :
         ~(Live(n)' /\ (\/ host[t].mine = n /\ host[t].at \in {"wait", "publish"}
                        \/ ~server[n].detached /\ host[t].process = n))
  BY <1>1, <1>5, NoZero
<1>13. ~raced => ~crossed'
  BY <1>3 DEF HostInv
<1> HIDE DEF k
<1>14. \A t \in Sessions \ {s} : /\ host'[t] = host[t]
                                 /\ registry = t => registry' = t
                                 /\ record' = record \/ registry # t
  BY <1>4, <1>6, <1>11
<1>15. \A t \in {s} : OwnServer(t)' /\ Replaced(t)' /\ (~raced => PortApart(t)')
  BY <1>7
<1> QED
  BY ZenonT(60), <1>4, <1>5, <1>6, <1>8, <1>10, <1>12, <1>13, <1>14, <1>15, HostMoves

LEMMA GivesUpKeeps == ASSUME HostInv, NEW s \in Sessions, GivesUp(s) PROVE HostInv'
BY RollsBackKeeps DEF GivesUp, HostInv, RestOK

LEMMA PublishesKeeps == ASSUME HostInv, NEW s \in Sessions, Publishes(s) PROVE HostInv'
<1>1. host[s] \in Starters /\ OwnServer(s) /\ host[s].at = "publish" /\ host[s].persistent
      /\ host[s].mine \in Servers /\ host[s].process = 0
  BY DEF HostInv, StartersOK, OwnServer, Publishes, Starters
<1>2. /\ server[host[s].mine].at # "none" /\ server[host[s].mine].port = host[s].port
      /\ server[host[s].mine].by = s /\ server[host[s].mine].detached
  BY <1>1 DEF OwnServer
<1>3. registry = s /\ Given(record)
  BY <1>1 DEF HostInv, Replaced, Locked
<1> DEFINE h == [host[s] EXCEPT !.process = host[s].mine, !.addr = host[s].port, !.managed = TRUE]
<1>4. CASE record' = host[s].mine /\ Returns(s, h) /\ UNCHANGED <<server, troubles>>
  <2> DEFINE k == Hands(h)
  <2>1. /\ k \in Starters /\ k.at = "idle" /\ k.process = host[s].mine
        /\ k.addr = host[s].port /\ k.managed = TRUE /\ k.persistent
    BY <1>1 DEF Hands, Starters, Places, Here
  <2>2. Keeps(s, k) /\ Releases(s)
    BY <1>4 DEF Returns
  <2>3. /\ host'[s] = k /\ StartersOK'
        /\ \A t \in Sessions \ {s} : host'[t] = host[t]
    BY <2>1, <2>2 DEF Keeps, HostInv, StartersOK
  <2>4. Falls /\ UNCHANGED <<usual, strangers, left, harmed, raced>>
    BY <1>4, NoServerFalls DEF Publishes
  <2>5. StrangersApart' /\ RecordDetached'
    BY <1>2, <1>4, <2>4 DEF HostInv, StrangersApart, RecordDetached
  <2>6. crossed' \in BOOLEAN
    BY <1>4 DEF Returns, HostInv, RestOK
  <2>7. RestOK' /\ \A t \in Sessions \ {s} : registry = t => registry' = t
    BY <1>1, <1>4, <2>2, <2>4, <2>6 DEF Releases, HostInv, RestOK
  <2>8. OwnServer(s)' /\ Replaced(s)' /\ PortApart(s)'
    <3> HIDE DEF k
    <3>1. server' = server
      BY <1>4
    <3> QED
      BY <1>1, <1>2, <2>1, <2>3, <3>1, NoZero DEF OwnServer, Replaced, Locked, PortApart
  <2>9. ~raced => ~crossed'
    <3>1. h.addr = host[s].port
      BY <1>1 DEF Starters
    <3>2. ~raced => \A n \in Bound(h.addr) : server[n].by = s
      BY <1>1, <1>2, <3>1 DEF HostInv, PortsApart, PortApart, Bound, Live
    <3> HIDE DEF h
    <3> QED
      BY <1>4, <3>2 DEF Returns, HostInv
  <2>10. \A n \in Servers : Live(n)' /\ record = n => record' = n \/ n \in left'
    BY <1>3, <2>4, NoZero DEF Given, Falls
  <2>11. \A n \in Servers : host[s].mine = n => Expected(n)'
    BY <1>2, <1>4 DEF Expected
  <2>12. \A n \in Servers, t \in {s} :
           Live(n)' /\ (\/ host[t].mine = n /\ host[t].at \in {"wait", "publish"}
                        \/ ~server[n].detached /\ host[t].process = n)
           => Expected(n)' \/ n \in left'
    BY <1>1, <2>11, NoZero
  <2>13. \A t \in Sessions \ {s} : /\ host'[t] = host[t]
                                   /\ registry = t => registry' = t
                                   /\ record' = record \/ registry # t
    BY <1>3, <2>3, <2>7
  <2>14. \A t \in {s} : OwnServer(t)' /\ Replaced(t)' /\ (~raced => PortApart(t)')
    BY <2>8
  <2> HIDE DEF k, h
  <2> QED
    BY <2>3, <2>4, <2>5, <2>7, <2>9, <2>10, <2>12, <2>13, <2>14, HostMoves
<1>5. CASE RollsBack(s) /\ UNCHANGED troubles /\ UNCHANGED record
  BY <1>1, <1>5, RollsBackKeeps DEF Publishes, HostInv, RestOK
<1>6. CASE RollsBack(s) /\ Trouble /\ record' \in {record, host[s].mine}
  BY <1>1, <1>6, RollsBackKeeps DEF Publishes, Trouble, HostInv, RestOK
<1> QED
  BY <1>4, <1>5, <1>6 DEF Publishes
-----------------------------------------------------------------------------
LEMMA StopsKeptKeeps == ASSUME HostInv, NEW s \in Sessions, StopsKept(s) PROVE HostInv'
<1> DEFINE k == [host[s] EXCEPT !.at = "signal", !.mine = record]
<1>1. /\ host[s] \in Starters /\ OwnServer(s) /\ host[s].at = "idle"
      /\ record \in Servers /\ Live(record) /\ server[record].detached
  BY DEF HostInv, StartersOK, StopsKept, RestOK, RecordDetached, Identity
<1>2. /\ k \in Starters /\ k.at = "signal" /\ k.mine = record /\ k.process = host[s].process
      /\ k.addr = host[s].addr /\ k.managed = host[s].managed /\ k.kept = host[s].kept
      /\ k.persistent = host[s].persistent
  BY <1>1 DEF Starters, Places
<1>3. Keeps(s, k) /\ registry = Nobody /\ registry' = s /\ UNCHANGED crossed
  BY DEF StopsKept, Exclusive
<1>4. host'[s] = k
  BY <1>3 DEF Keeps, HostInv, StartersOK
<1>5. Around
  BY DEF StopsKept, Around, HostInv, RestOK
<1> HIDE DEF k
<1>6. OwnServer(s)' /\ Replaced(s)'
  BY <1>1, <1>2, <1>3, <1>4, <1>5, NoZero DEF OwnServer, Replaced, Locked, Around
<1>7. ASSUME ~raced PROVE PortApart(s)'
  <2>1. \A n \in Servers : Live(n) /\ server[n].port = server[record].port => n = record
    BY <1>1, <1>7 DEF HostInv, PortsApart
  <2> QED
    BY <1>1, <1>2, <1>4, <1>5, <2>1 DEF PortApart, OwnServer, Around, Live, Starters
<1>8. \A n \in Servers : host[s].process = n /\ ~server[n].detached => Expected(n)'
  BY <1>2, <1>4, <1>5 DEF Expected, Around
<1> QED
  BY <1>1, <1>2, <1>3, <1>5, <1>6, <1>7, <1>8, StarterGoesOn

LEMMA SignalsKeeps == ASSUME HostInv, NEW s \in Sessions, Signals(s) PROVE HostInv'
<1>1. /\ host[s] \in Starters /\ OwnServer(s) /\ Replaced(s) /\ host[s].at = "signal"
      /\ registry = s /\ record = host[s].mine /\ record \in Servers
      /\ server[record].detached
  BY DEF HostInv, StartersOK, Signals, RestOK, RecordDetached, Replaced, Locked
<1>2. CASE Identity(record)
  <2> DEFINE k == [host[s] EXCEPT !.at = "remove"]
  <2>1. /\ k \in Starters /\ k.at = "remove" /\ k.process = host[s].process
        /\ k.mine = host[s].mine
        /\ k.addr = host[s].addr /\ k.managed = host[s].managed /\ k.kept = host[s].kept
        /\ k.persistent = host[s].persistent
    BY <1>1 DEF Starters, Places
  <2>2. /\ Keeps(s, k) /\ server' = Stopped(record) /\ record' = record
        /\ harmed' = (harmed \/ record \in strangers)
        /\ UNCHANGED <<usual, strangers, left, raced, troubles, registry, crossed>>
    BY <1>1, <1>2 DEF Signals
  <2>3. /\ host'[s] = k /\ StartersOK' /\ \A t \in Sessions \ {s} : host'[t] = host[t]
    BY <2>1, <2>2 DEF Keeps, HostInv, StartersOK
  <2> PICK n \in Servers : n = record
    BY <1>1
  <2>4. Falls /\ ~Live(n)'
        /\ \A m \in Servers : server[m].at = "gone" => server'[m].at = "gone"
    BY <2>2, StoppedFalls
  <2>5. StrangersApart'
    <3>1. n \notin strangers
      BY <1>2 DEF HostInv, StrangersApart, Identity, Live
    <3> QED
      BY <2>2, <2>4, <3>1 DEF HostInv, StrangersApart, RestOK
  <2>6. RestOK'
    BY <2>2 DEF HostInv, RestOK
  <2>7. RecordDetached'
    BY <1>1, <2>2, <2>4 DEF RecordDetached, Falls
  <2> HIDE DEF k
  <2>8. OwnServer(s)' /\ Replaced(s)'
    <3>1. ~Live(record)'
      BY <2>2, <2>4 DEF Live
    <3>2. OwnServer(s)'
      BY <1>1, <2>1, <2>3, <2>4 DEF OwnServer, Falls, Starters
    <3>3. Replaced(s)'
      BY <1>1, <2>1, <2>2, <2>3, <3>1, NoZero DEF Replaced, Locked
    <3> QED
      BY <3>2, <3>3
  <2>9. ~raced => PortApart(s)'
    BY <1>1, <2>1, <2>3, <2>4 DEF HostInv, PortsApart, PortApart, Falls, Starters
  <2>10. \A m \in Servers : host[s].process = m /\ ~server[m].detached => Expected(m)'
    BY <2>1, <2>3, <2>4 DEF Expected, Falls
  <2>11. \A t \in Sessions \ {s} : /\ host'[t] = host[t]
                                   /\ registry = t => registry' = t
                                   /\ record' = record \/ registry # t
    BY <2>2, <2>3
  <2>12. \A t \in {s} : OwnServer(t)' /\ Replaced(t)' /\ (~raced => PortApart(t)')
    BY <2>8, <2>9
  <2>13. \A m \in Servers, t \in {s} :
           Live(m)' /\ (\/ host[t].mine = m /\ host[t].at \in {"wait", "publish"}
                        \/ ~server[m].detached /\ host[t].process = m)
           => Expected(m)' \/ m \in left'
    BY <1>1, <2>10
  <2>14. ~raced => ~crossed'
    BY <2>2 DEF HostInv
  <2>15. \A m \in Servers : Live(m)' /\ record = m => record' = m \/ m \in left'
    BY <2>2
  <2>16. raced' = raced /\ left \subseteq left'
    BY <2>2
  <2> QED
    BY <2>3, <2>4, <2>5, <2>6, <2>7, <2>11, <2>12, <2>13, <2>14, <2>15, <2>16, HostMoves
<1>3. CASE ~Identity(record)
  <2>1. Fails(s) /\ Around
    BY <1>1, <1>3 DEF Signals, Around, HostInv, RestOK
  <2> QED
    BY <1>1, <2>1, StarterFails
<1> QED
  BY <1>2, <1>3

LEMMA RemovesRecordKeeps ==
    ASSUME HostInv, NEW s \in Sessions, RemovesRecord(s) PROVE HostInv'
<1>1. /\ host[s] \in Starters /\ OwnServer(s) /\ Replaced(s) /\ host[s].at = "remove"
      /\ registry = s /\ record = host[s].mine /\ record \in Servers /\ ~Live(record)
  BY DEF HostInv, StartersOK, RemovesRecord, RestOK, Replaced, Locked
<1> DEFINE h == IF host[s].addr = server[host[s].mine].port
                THEN [host[s] EXCEPT !.process = 0, !.addr = "none", !.managed = FALSE,
                                     !.kept = FALSE]
                ELSE host[s]
           k == Hands(h)
<1>2. CASE record' = 0 /\ UNCHANGED troubles /\ Keeps(s, k) /\ Releases(s) /\ UNCHANGED crossed
  <2>1. /\ k \in Starters /\ k.at = "idle"
        /\ k.persistent = host[s].persistent
        /\ host[s].addr # server[record].port =>
              /\ k.process = host[s].process /\ k.addr = host[s].addr
              /\ k.managed = host[s].managed /\ k.kept = host[s].kept
        /\ host[s].addr = server[record].port => k.process = 0 /\ k.addr = "none"
    BY <1>1 DEF Hands, Starters, Places, Here
  <2>2. /\ host'[s] = k /\ StartersOK' /\ \A t \in Sessions \ {s} : host'[t] = host[t]
    BY <1>2, <2>1 DEF Keeps, HostInv, StartersOK
  <2>3. Falls /\ UNCHANGED <<usual, server, strangers, left, harmed, raced>>
    BY NoServerFalls DEF RemovesRecord
  <2>4. StrangersApart' /\ RecordDetached'
    BY <1>2, <2>3 DEF HostInv, StrangersApart, RecordDetached
  <2>5. RestOK'
    BY <1>2, <2>3 DEF Releases, HostInv, RestOK
  <2> HIDE DEF k, h
  <2>6. OwnServer(s)' /\ Replaced(s)' /\ PortApart(s)'
    BY <1>1, <2>1, <2>2, <2>3, PortsAssumption DEF OwnServer, Replaced, Locked, PortApart
  <2>7. ASSUME ~raced, NEW n \in Servers, Live(n)', ~server[n].detached, host[s].process = n
        PROVE  Expected(n)'
    <3>1. Live(n) /\ ~host[s].persistent /\ host[s].process # 0
      BY <1>1, <2>3, <2>7, NoZero DEF OwnServer, Live
    <3>2. host[s].addr # server[record].port
      BY <1>1, <2>7, <3>1 DEF HostInv, PortsApart, PortApart
    <3> QED
      BY <2>1, <2>2, <2>3, <2>7, <3>2 DEF Expected
  <2>8. \A t \in Sessions \ {s} : /\ host'[t] = host[t]
                                  /\ registry = t => registry' = t
                                  /\ record' = record \/ registry # t
    BY <1>1, <1>2, <2>2 DEF Releases
  <2>9. \A n \in Servers : Live(n)' /\ record = n => record' = n \/ n \in left'
    BY <1>1, <2>3 DEF Falls
  <2>10. ~raced => ~crossed'
    BY <1>2 DEF HostInv
  <2>11. ~raced => \A n \in Servers, t \in {s} :
           Live(n)' /\ (\/ host[t].mine = n /\ host[t].at \in {"wait", "publish"}
                        \/ ~server[n].detached /\ host[t].process = n)
           => Expected(n)' \/ n \in left'
    BY <1>1, <2>7
  <2>12. \A t \in {s} : OwnServer(t)' /\ Replaced(t)' /\ (~raced => PortApart(t)')
    BY <2>6
  <2> QED
    BY <2>2, <2>3, <2>4, <2>5, <2>8, <2>9, <2>10, <2>11, <2>12, HostMoves
<1>3. CASE Trouble /\ Fails(s) /\ UNCHANGED record
  <2>1. Around
    BY <1>3 DEF RemovesRecord, Around, Trouble, HostInv, RestOK
  <2> QED
    BY <1>1, <1>3, <2>1, StarterFails
<1> QED
  BY <1>2, <1>3 DEF RemovesRecord

LEMMA ClosesKeeps == ASSUME HostInv, NEW s \in Sessions, Closes(s) PROVE HostInv'
<1> DEFINE k == [Starter(host[s].persistent) EXCEPT !.at = "closed"]
<1>1. host[s] \in Starters /\ OwnServer(s) /\ host[s].at = "idle"
  BY DEF HostInv, StartersOK, Closes
<1>2. k \in Starters /\ k.at = "closed" /\ k.process = 0 /\ k.addr = "none"
  BY <1>1 DEF Starter, Starters, Places, Here
<1>3. /\ Keeps(s, k)
      /\ server' = IF host[s].process # 0 /\ ~host[s].persistent
                   THEN Stopped(host[s].process) ELSE server
      /\ UNCHANGED <<usual, strangers, record, registry, left, harmed, crossed, raced, troubles>>
  BY DEF Closes
<1>4. /\ host'[s] = k /\ StartersOK' /\ \A t \in Sessions \ {s} : host'[t] = host[t]
  BY <1>2, <1>3 DEF Keeps, HostInv, StartersOK
<1> HIDE DEF k
<1>5. /\ Falls /\ \A m \in Servers : server[m].at = "gone" => server'[m].at = "gone"
      /\ \A m \in Servers : host[s].process = m /\ ~server[m].detached => ~Live(m)'
  <2>1. CASE host[s].process # 0 /\ ~host[s].persistent
    <3> PICK n \in Servers : n = host[s].process
      BY <1>1, <2>1 DEF Starters
    <3>1. server' = Stopped(n)
      BY <1>3, <2>1
    <3> QED
      BY <3>1, StoppedFalls
  <2>2. CASE ~(host[s].process # 0 /\ ~host[s].persistent)
    BY <1>1, <1>3, <2>2, NoServerFalls, NoZero DEF OwnServer
  <2> QED
    BY <2>1, <2>2
<1>6. StrangersApart' /\ RecordDetached' /\ RestOK'
  BY <1>3, <1>5 DEF HostInv, StrangersApart, RecordDetached, RestOK, Falls
<1>7. OwnServer(s)' /\ Replaced(s)' /\ PortApart(s)'
  BY <1>2, <1>4, PortsAssumption DEF OwnServer, Replaced, Locked, PortApart
<1>8. \A n \in Servers, t \in {s} :
         ~(Live(n)' /\ (\/ host[t].mine = n /\ host[t].at \in {"wait", "publish"}
                        \/ ~server[n].detached /\ host[t].process = n))
  BY <1>1, <1>5
<1>9. \A t \in Sessions \ {s} : /\ host'[t] = host[t]
                                /\ registry = t => registry' = t
                                /\ record' = record \/ registry # t
  BY <1>3, <1>4
<1>10. \A n \in Servers : Live(n)' /\ record = n => record' = n \/ n \in left'
  BY <1>3
<1>11. \A t \in {s} : OwnServer(t)' /\ Replaced(t)' /\ (~raced => PortApart(t)')
  BY <1>7
<1>12. ~raced => ~crossed'
  BY <1>3 DEF HostInv
<1>13. raced' = raced /\ left \subseteq left'
  BY <1>3
<1> QED
  BY ZenonT(60), <1>4, <1>5, <1>6, <1>8, <1>9, <1>10, <1>11, <1>12, <1>13, HostMoves

LEMMA DiesKeeps == ASSUME HostInv, NEW s \in Sessions, Dies(s) PROVE HostInv'
<1> DEFINE k == [Starter(host[s].persistent) EXCEPT !.at = "closed"]
           own == {n \in Servers : Live(n) /\ server[n].by = s /\ ~server[n].detached}
           unsaid == {n \in Servers : Live(n) /\ server[n].by = s /\ n # record}
<1>1. host[s] \in Starters /\ OwnServer(s)
  BY DEF HostInv, StartersOK
<1>2. k \in Starters /\ k.at = "closed" /\ k.process = 0 /\ k.addr = "none"
  BY <1>1 DEF Starter, Starters, Places, Here
<1>3. /\ Keeps(s, k) /\ Releases(s) /\ Trouble
      /\ UNCHANGED <<usual, strangers, record, harmed, crossed, raced>>
  BY DEF Dies
<1>4. PICK lost \in {{}, own} :
         /\ server' = [n \in Servers |-> IF n \in lost THEN Stopped(n)[n] ELSE server[n]]
         /\ left' = left \cup (unsaid \ lost)
  BY DEF Dies
<1>5. /\ host'[s] = k /\ StartersOK' /\ \A t \in Sessions \ {s} : host'[t] = host[t]
  BY <1>2, <1>3 DEF Keeps, HostInv, StartersOK
<1> HIDE DEF k
<1>6. \A n \in Servers : Stopped(n)[n] = IF Live(n) THEN [server[n] EXCEPT !.at = "gone"]
                                         ELSE server[n]
  BY DEF Stopped, HostInv, ServersOK
<1>7. \A n \in Servers : server'[n] = IF n \in lost THEN [server[n] EXCEPT !.at = "gone"]
                                      ELSE server[n]
  BY <1>4, <1>6
<1>8. Falls /\ \A n \in lost : ~Live(n)'
  <2> DEFINE Row == [at : {"none", "starting", "serving", "hung", "gone"},
                     port : Ports \cup {"none"}, detached : BOOLEAN,
                     by : Sessions \cup {"none"}]
  <2>0. server \in [Servers -> Row]
    BY DEF HostInv, ServersOK
  <2>1. ASSUME NEW n \in Servers
        PROVE  /\ server'[n].port = server[n].port /\ server'[n].by = server[n].by
               /\ server'[n].detached = server[n].detached
               /\ server'[n].at = (IF n \in lost THEN "gone" ELSE server[n].at)
               /\ server'[n] \in Row
    <3>1. server[n] \in Row
      BY <2>0
    <3>2. server'[n] = IF n \in lost THEN [server[n] EXCEPT !.at = "gone"] ELSE server[n]
      BY <1>7
    <3> QED
      BY <3>1, <3>2
  <2>2. \A n \in lost : n \in Servers /\ Live(n)
    BY <1>4
  <2>3. server' \in [Servers -> Row]
    <3> HIDE DEF Row, own
    <3> QED
      BY <1>4, <2>1
  <2>4. \A n \in Servers : IF server'[n].at = "none" THEN server'[n] = NoServer
                           ELSE server'[n].port \in Ports /\ server'[n].by \in Sessions
    BY <1>7, <2>1, <2>2 DEF HostInv, ServersOK, Live
  <2> HIDE DEF own
  <2> QED
    BY <2>1, <2>2, <2>3, <2>4 DEF Falls, ServersOK, Live
<1>9. StrangersApart' /\ RecordDetached'
  <2>1. \A n \in Servers : server[n].at = "gone" => server'[n].at = "gone"
    BY <1>7, <1>8 DEF HostInv, ServersOK
  <2> QED
    BY <1>3, <1>8, <2>1 DEF HostInv, StrangersApart, RecordDetached, RestOK, Falls
<1>10. RestOK' /\ left \subseteq left'
  BY <1>3, <1>4 DEF Trouble, Releases, HostInv, RestOK
<1>11. OwnServer(s)' /\ Replaced(s)' /\ PortApart(s)'
  BY <1>2, <1>5, PortsAssumption DEF OwnServer, Replaced, Locked, PortApart
<1>12. ASSUME NEW n \in Servers, Live(n)',
              \/ host[s].mine = n /\ host[s].at \in {"wait", "publish"}
              \/ ~server[n].detached /\ host[s].process = n
       PROVE  Expected(n)' \/ n \in left'
  <2>1. Live(n) /\ n \notin lost /\ server[n].by = s
    BY <1>1, <1>8, <1>12, NoZero DEF OwnServer, Falls
  <2>2. CASE n = record
    BY <1>3, <1>8, <2>2, NoZero DEF Expected, HostInv, RecordDetached, Falls
  <2>3. CASE n # record
    BY <1>4, <2>1, <2>3
  <2> QED
    BY <2>2, <2>3
<1>13. \A t \in Sessions \ {s} : /\ host'[t] = host[t]
                                 /\ registry = t => registry' = t
                                 /\ record' = record \/ registry # t
  BY <1>3, <1>5 DEF Releases
<1>14. \A t \in {s} : OwnServer(t)' /\ Replaced(t)' /\ (~raced => PortApart(t)')
  BY <1>11
<1>15. (~raced => ~crossed')
       /\ \A n \in Servers : Live(n)' /\ record = n => record' = n \/ n \in left'
  BY <1>3 DEF HostInv
<1>16. ~raced => \A n \in Servers, t \in {s} :
          Live(n)' /\ (\/ host[t].mine = n /\ host[t].at \in {"wait", "publish"}
                       \/ ~server[n].detached /\ host[t].process = n)
          => Expected(n)' \/ n \in left'
  BY <1>12
<1> HIDE DEF own, unsaid
<1> QED
  BY <1>3, <1>5, <1>8, <1>9, <1>10, <1>13, <1>14, <1>15, <1>16, HostMoves

LEMMA OpensKeeps ==
    ASSUME HostInv, NEW s \in Sessions, NEW persistent \in BOOLEAN, Opens(s, persistent)
    PROVE  HostInv'
<1> DEFINE k == Starter(persistent)
<1>1. host[s] \in Starters /\ host[s].at = "closed" /\ host[s].process = 0
  BY DEF HostInv, StartersOK, Opens, OwnServer
<1>2. k \in Starters /\ k.at = "idle" /\ k.process = 0 /\ k.addr = "none"
  BY DEF Starter, Starters, Places, Here
<1>3. Keeps(s, k) /\ Around /\ UNCHANGED <<registry, crossed>>
  BY DEF Opens, Around, HostInv, RestOK
<1>4. host'[s] = k
  BY <1>3 DEF Keeps, HostInv, StartersOK
<1> HIDE DEF k
<1>5. OwnServer(s)' /\ Replaced(s)' /\ PortApart(s)'
  BY <1>2, <1>4, PortsAssumption DEF OwnServer, Replaced, Locked, PortApart
<1> QED
  BY <1>1, <1>2, <1>3, <1>5, NoZero, StarterGoesOn
-----------------------------------------------------------------------------
(* What goes on around the starters.                                        *)
LEMMA HostStands ==
    ASSUME HostInv, Falls, UNCHANGED <<record, registry, host, left, harmed, crossed, raced>>,
           usual' \in BOOLEAN, strangers' \subseteq Servers, troubles' \in Nat,
           \A n \in strangers' : server'[n].at = "gone"
    PROVE  HostInv'
<1>1. StartersOK' /\ RestOK' /\ StrangersApart' /\ RecordDetached'
  BY DEF HostInv, StartersOK, RestOK, StrangersApart, RecordDetached, Falls
<1>2. \A t \in Sessions \ {} : /\ host'[t] = host[t]
                               /\ registry = t => registry' = t
                               /\ record' = record \/ registry # t
  OBVIOUS
<1>3. (~raced => ~crossed') /\ raced' = raced /\ left \subseteq left'
      /\ \A n \in Servers : Live(n)' /\ record = n => record' = n \/ n \in left'
  BY DEF HostInv
<1>4. \A s \in {} : OwnServer(s)' /\ Replaced(s)' /\ (~raced => PortApart(s)')
  OBVIOUS
<1>5. ~raced => \A n \in Servers, s \in {} :
         Live(n)' /\ (\/ host[s].mine = n /\ host[s].at \in {"wait", "publish"}
                      \/ ~server[n].detached /\ host[s].process = n)
         => Expected(n)' \/ n \in left'
  OBVIOUS
<1>6. {} \in SUBSET Sessions
  OBVIOUS
<1> QED
  BY <1>1, <1>2, <1>3, <1>4, <1>5, <1>6, HostMoves

LEMMA ServerMoves ==
    ASSUME HostInv, NEW n \in Servers, Live(n),
           NEW at \in {"serving", "hung", "gone"}, server' = [server EXCEPT ![n].at = at]
    PROVE  Falls /\ \A m \in Servers : server[m].at = "gone" => server'[m].at = "gone"
<1>1. server[n].at # "none" /\ server[n].at # "gone"
  BY DEF Live
<1>2. \A m \in Servers : /\ server'[m].port = server[m].port /\ server'[m].by = server[m].by
                         /\ server'[m].detached = server[m].detached
                         /\ server'[m].at = IF m = n THEN at ELSE server[m].at
                         /\ m # n => server'[m] = server[m]
  BY DEF HostInv, ServersOK
<1>3. ServersOK'
  <2>1. server' \in [Servers -> [at : {"none", "starting", "serving", "hung", "gone"},
                                 port : Ports \cup {"none"}, detached : BOOLEAN,
                                 by : Sessions \cup {"none"}]]
    BY DEF HostInv, ServersOK
  <2> QED
    BY <1>1, <1>2, <2>1 DEF HostInv, ServersOK
<1> QED
  BY <1>1, <1>2, <1>3 DEF Falls, Live

LEMMA ServersKeep ==
    ASSUME HostInv, NEW n \in Servers,
           Binds(n) \/ ServerFails(n) \/ Recovers(n) \/ StrangerComes(n)
    PROVE  HostInv'
<1>1. CASE Binds(n) \/ ServerFails(n) \/ Recovers(n)
  <2>1. Live(n) /\ \E at \in {"serving", "hung", "gone"} : server' = [server EXCEPT ![n].at = at]
    BY <1>1 DEF Binds, ServerFails, Recovers, Live
  <2>2. Falls /\ \A m \in Servers : server[m].at = "gone" => server'[m].at = "gone"
    BY <2>1, ServerMoves
  <2>3. UNCHANGED <<usual, strangers, record, registry, host, left, harmed, crossed, raced>>
    BY <1>1 DEF Binds, ServerFails, Recovers
  <2>4. troubles' \in Nat
    BY <1>1 DEF Binds, ServerFails, Recovers, Trouble, HostInv, RestOK
  <2> QED
    BY <2>2, <2>3, <2>4, HostStands DEF HostInv, RestOK, StrangersApart
<1>2. CASE StrangerComes(n)
  <2>1. Falls
    BY <1>2, NoServerFalls DEF StrangerComes
  <2> QED
    BY <1>2, <2>1, HostStands DEF StrangerComes, HostInv, RestOK, StrangersApart
<1> QED
  BY <1>1, <1>2

LEMMA UserSwitchesKeeps == ASSUME HostInv, UserSwitches PROVE HostInv'
<1>1. Falls
  BY NoServerFalls DEF UserSwitches
<1> QED
  BY <1>1, HostStands DEF UserSwitches, Trouble, HostInv, RestOK, StrangersApart

LEMMA StartsKeeps ==
    ASSUME HostInv, NEW s \in Sessions, NEW p \in Ports, Starts(s, p) PROVE HostInv'
<1>1. /\ host[s] \in Starters /\ OwnServer(s) /\ Replaced(s)
      /\ host[s].at = "start" /\ host[s].process = 0
  BY DEF HostInv, StartersOK, OwnServer, Starts
<1> PICK n \in Servers :
       /\ server[n] = NoServer
       /\ server' = [server EXCEPT ![n] = [at |-> "starting", port |-> p,
                                           detached |-> host[s].persistent, by |-> s]]
       /\ Keeps(s, [host[s] EXCEPT !.at = "wait", !.mine = n, !.port = p])
  BY DEF Starts
<1> DEFINE k == [host[s] EXCEPT !.at = "wait", !.mine = n, !.port = p]
<1>2. /\ k \in Starters /\ k.at = "wait" /\ k.process = 0 /\ k.mine = n /\ k.port = p
      /\ k.addr = host[s].addr /\ k.managed = host[s].managed /\ k.kept = host[s].kept
      /\ k.persistent = host[s].persistent
  BY <1>1 DEF Starters, Places
<1>3. /\ host'[s] = k /\ StartersOK' /\ \A t \in Sessions \ {s} : host'[t] = host[t]
  BY <1>2 DEF Keeps, HostInv, StartersOK
<1> HIDE DEF k
<1>4. /\ server[n].at = "none" /\ ~server[n].detached
      /\ server'[n].at = "starting" /\ server'[n].port = p /\ server'[n].by = s
      /\ server'[n].detached = host[s].persistent
      /\ \A m \in Servers \ {n} : server'[m] = server[m]
  BY DEF HostInv, ServersOK, NoServer
<1>5. ServersOK'
  <2>1. [at |-> "starting", port |-> p, detached |-> host[s].persistent, by |-> s]
        \in [at : {"none", "starting", "serving", "hung", "gone"},
             port : Ports \cup {"none"}, detached : BOOLEAN, by : Sessions \cup {"none"}]
    BY <1>1 DEF Starters
  <2>2. server' \in [Servers -> [at : {"none", "starting", "serving", "hung", "gone"},
                                 port : Ports \cup {"none"}, detached : BOOLEAN,
                                 by : Sessions \cup {"none"}]]
    BY <2>1 DEF HostInv, ServersOK
  <2> QED
    BY <1>4, <2>2 DEF HostInv, ServersOK
<1>6. /\ UNCHANGED <<usual, strangers, record, registry, left, harmed, crossed>>
      /\ raced' \in BOOLEAN /\ troubles' \in Nat
  <2>1. UNCHANGED <<usual, strangers, record, registry, left, harmed, crossed>>
    BY DEF Starts
  <2>2. CASE InHand(s, p)
    BY <2>2 DEF Starts, Trouble, HostInv, RestOK
  <2>3. CASE ~InHand(s, p)
    BY <2>3 DEF Starts, HostInv, RestOK
  <2> QED
    BY <2>1, <2>2, <2>3
<1>7. RestOK' /\ StrangersApart'
  BY <1>4, <1>6 DEF HostInv, RestOK, StrangersApart
<1>8. record # 0 => record # n /\ server'[record] = server[record] /\ record \in Servers
  BY <1>4, <1>6 DEF HostInv, RecordDetached, RestOK
<1>9. RecordDetached'
  BY <1>6, <1>8 DEF HostInv, RecordDetached
<1>10. OwnServer(s)' /\ Replaced(s)'
  <2>1. Given(record) => Given(record)'
    BY <1>6, <1>8 DEF Given, Live
  <2> QED
    BY <1>1, <1>2, <1>3, <1>4, <1>6, <2>1, NoZero DEF OwnServer, Replaced, Locked
<1>11. ASSUME NEW t \in Sessions \ {s} PROVE OwnServer(t)' /\ Replaced(t)'
  <2>1. host'[t] = host[t] /\ host[t] \in Starters /\ OwnServer(t) /\ Replaced(t)
    BY <1>3 DEF HostInv, StartersOK
  <2>2. OwnServer(t)'
    BY <1>4, <2>1 DEF OwnServer, Starters
  <2>3. Given(record) => Given(record)'
    BY <1>6, <1>8 DEF Given, Live
  <2>4. record # 0 /\ ~Live(record) => ~Live(record)'
    BY <1>6, <1>8 DEF Live
  <2>5. Replaced(t)'
    BY <1>6, <2>1, <2>3, <2>4 DEF Replaced
  <2> QED
    BY <2>2, <2>5
<1>12. ASSUME ~raced' PROVE PortsApart' /\ Accounted' /\ ~crossed'
  <2>1. ~raced /\ ~InHand(s, p) /\ Bound(p) = {}
    BY <1>12 DEF Starts, HostInv, RestOK
  <2>2. \A m \in Servers : Live(m) => server[m].port # p
    BY <2>1 DEF InHand, Bound, Live
  <2>3. \A m \in Servers : Live(m)' => m = n \/ (Live(m) /\ server'[m] = server[m])
    BY <1>4 DEF Live
  <2>4. \A t \in Sessions \ {s} : host[t].port # p
    BY <2>1 DEF InHand
  <2>5. \A m, o \in Servers : Live(m)' /\ Live(o)' /\ server'[m].port = server'[o].port => m = o
    BY <1>4, <2>1, <2>2, <2>3 DEF HostInv, PortsApart
  <2>6. PortApart(s)'
    BY <1>2, <1>3, <1>4, <2>2, <2>3 DEF PortApart
  <2>7. ASSUME NEW t \in Sessions \ {s} PROVE PortApart(t)'
    <3>1. host'[t] = host[t] /\ host[t] \in Starters /\ OwnServer(t) /\ Replaced(t)
          /\ PortApart(t)
      BY <1>3, <2>1 DEF HostInv, StartersOK, PortsApart
    <3>2. host[t].process # n
      BY <1>4, <3>1, NoZero DEF OwnServer
    <3>3. host[t].at \in {"signal", "remove"} => host[t].mine # n /\ host[t].mine \in Servers
      BY <1>8, <3>1 DEF Replaced, Starters
    <3>4. /\ host[t].at \in {"wait", "publish"} =>
                \A m \in Servers : Live(m)' /\ server'[m].port = host[t].port => m = host[t].mine
          /\ host[t].at = "probe" =>
                \A m \in Servers : Live(m)' /\ server'[m].port = host[t].port
                                   => server'[m].detached
      BY <1>4, <2>3, <2>4, <3>1 DEF PortApart
    <3>5. /\ host[t].process # 0 => server'[host[t].process] = server[host[t].process]
          /\ host[t].at \in {"signal", "remove"} =>
                server'[host[t].mine] = server[host[t].mine]
      BY <1>4, <3>1, <3>2, <3>3 DEF Starters
    <3> QED
      BY <3>1, <3>4, <3>5 DEF PortApart, Live
  <2>8. Accounted'
    <3> SUFFICES ASSUME NEW m \in Servers, Live(m)', m \notin left' PROVE Expected(m)'
      BY DEF Accounted
    <3>1. CASE m = n
      BY <1>2, <1>3, <3>1 DEF Expected
    <3>2. CASE m # n
      <4>1. Expected(m) /\ server'[m] = server[m]
        BY <1>4, <1>6, <2>1, <2>3, <3>2 DEF HostInv, Accounted
      <4>2. \A t \in Sessions : host[t].mine = m /\ host[t].at \in {"wait", "publish"}
                                => t # s
        BY <1>1
      <4>3. \A t \in Sessions : host[t].process = m => t # s
        BY <1>1, NoZero
      <4> QED
        BY <1>3, <1>6, <4>1, <4>2, <4>3 DEF Expected
    <3> QED
      BY <3>1, <3>2
  <2> QED
    BY <1>6, <2>1, <2>5, <2>6, <2>7, <2>8 DEF PortsApart, HostInv
<1> QED
  BY <1>3, <1>5, <1>7, <1>9, <1>10, <1>11, <1>12 DEF HostInv

LEMMA HostStutters == ASSUME HostInv, UNCHANGED hostVars PROVE HostInv'
<1>1. Falls
  BY NoServerFalls DEF hostVars
<1> QED
  BY <1>1, HostStands DEF hostVars, HostInv, RestOK, StrangersApart

LEMMA HostInductive == HostInv /\ [HostNext]_hostVars => HostInv'
<1> SUFFICES ASSUME HostInv, [HostNext]_hostVars PROVE HostInv'
  OBVIOUS
<1>1. ASSUME NEW s \in Sessions,
             \/ Asks(s) \/ LocksRegistry(s) \/ Judges(s) \/ Misjudges(s) \/ Probes(s)
             \/ Ready(s) \/ GivesUp(s) \/ Publishes(s) \/ Errs(s)
      PROVE  HostInv'
  BY <1>1, AsksKeeps, LocksRegistryKeeps, JudgesKeeps, MisjudgesKeeps, ProbesKeeps,
     ReadyKeeps, GivesUpKeeps, PublishesKeeps, ErrsKeeps
<1>2. ASSUME NEW s \in Sessions,
             \/ StopsKept(s) \/ Signals(s) \/ SignalFails(s) \/ RemovesRecord(s)
             \/ Closes(s) \/ Dies(s)
      PROVE  HostInv'
  BY <1>2, StopsKeptKeeps, SignalsKeeps, SignalFailsKeeps, RemovesRecordKeeps,
     ClosesKeeps, DiesKeeps
<1>3. ASSUME NEW s \in Sessions, \E p \in Ports : Starts(s, p) PROVE HostInv'
  BY <1>3, StartsKeeps
<1>4. ASSUME NEW s \in Sessions, \E persistent \in BOOLEAN : Opens(s, persistent)
      PROVE  HostInv'
  BY <1>4, OpensKeeps
<1>5. ASSUME NEW n \in Servers, Binds(n) \/ ServerFails(n) \/ Recovers(n) \/ StrangerComes(n)
      PROVE  HostInv'
  BY <1>5, ServersKeep
<1>6. CASE UserSwitches
  BY <1>6, UserSwitchesKeeps
<1>7. CASE UNCHANGED hostVars
  BY <1>7, HostStutters
<1> QED
  BY <1>1, <1>2, <1>3, <1>4, <1>5, <1>6, <1>7 DEF HostNext

(* One detached runtime: two of them would both be the record's, or one the *)
(* record's and one in the hands of the session that has the lock, which    *)
(* the record's is not then.                                                *)
LEMMA OneRuntime ==
    ASSUME HostInv, ~raced, NEW m \in Servers, NEW n \in Servers, Live(m), Live(n),
           server[m].detached, server[n].detached, {m, n} \cap left = {}
    PROVE  m = n
<1>1. Expected(m) /\ Expected(n)
  BY DEF HostInv, Accounted
<1>2. ASSUME NEW s \in Sessions, host[s].at \in {"wait", "publish"},
             server[host[s].mine].detached
      PROVE  registry = s /\ Given(record)
  BY <1>2 DEF HostInv, OwnServer, Replaced, Locked
<1>3. ASSUME NEW o \in {m, n}
      PROVE  \/ record = o
             \/ \E s \in Sessions : host[s].mine = o /\ registry = s /\ Given(record)
  BY <1>1, <1>2 DEF Expected
<1>4. ~Given(m) /\ ~Given(n)
  BY NoZero DEF Given
<1> QED
  BY <1>3, <1>4

LEMMA HostInvSuffices == HostInv => RuntimesKept
<1> SUFFICES ASSUME HostInv PROVE RuntimesKept
  OBVIOUS
<1>1. ~raced => \A m, n \in Servers : Live(m) /\ Live(n) /\ server[m].detached
                    /\ server[n].detached /\ {m, n} \cap left = {} => m = n
  BY OneRuntime
<1> QED
  BY <1>1 DEF RuntimesKept, HostInv, Accounted, StrangersApart

(* The servers of any number of sessions, with any number of mishaps.       *)
THEOREM LocalRuntimesKept == HostSpec => []RuntimesKept
<1>1. HostSpec => []HostInv
  BY HostStarts, HostInductive, PTL DEF HostSpec
<1> QED
  BY <1>1, HostInvSuffices, PTL
-----------------------------------------------------------------------------
(* The runtime's installation.  That a power cut leaves a runtime that      *)
(* works rests on what has been true of every state of the directory since  *)
(* it was last synced (DiskStands): no tree is there in part, a record      *)
(* names a tree that is there, and once there is a record there is one in   *)
(* every state that may be left.                                            *)
Entries == [trees : [Trees -> {"none", "whole"}], current : Trees \cup {NoTree}]

Jobs == [at : {"rest", "check", "fetch", "fetch companion", "extract", "merge", "publish",
               "point"},
         need : BOOLEAN, up : BOOLEAN, tree : Trees \cup {NoTree},
         holds : {"nothing", "plain", "both", "mixed"}, flushed : BOOLEAN]

InstallOK ==
    /\ wanted \in BOOLEAN /\ latest \in [rel : 1..MaxReleases, companion : BOOLEAN]
    /\ disk \in Seq(Entries) /\ disk # <<>> /\ setup \in [Setups -> Jobs]
    /\ staged \subseteq Setups /\ strays \subseteq Setups
    /\ installer \in Setups \cup {Unlocked}
    /\ inUse \subseteq Trees /\ safe \in BOOLEAN /\ slips \in Nat

DiskStands ==
    /\ \A i \in 1..Len(disk) : /\ disk[i].current # NoTree => disk[i].trees[disk[i].current] = "whole"
                               /\ disk[1].current # NoTree \/ safe => disk[i].current # NoTree
    /\ \A t \in inUse : Now.trees[t] = "whole"

Building == {"fetch", "fetch companion", "extract", "merge", "publish"}

JobStands(s) ==
    LET j == setup[s] IN
    /\ IF j.at = "rest" THEN j = Rest ELSE installer = s
    /\ j.at \notin {"rest", "check"} => j.tree \in Trees
    /\ j.at = "merge" => j.tree.with /\ j.holds = "plain" /\ j.flushed
    /\ j.at = "publish" => Content(j) = "whole"
    /\ j.at = "point" => Now.trees[j.tree] = "whole"
    /\ j.up => Now.current # NoTree
    /\ j.at \in Building => s \in staged
    /\ s \in staged => j.at # "rest" \/ s \in strays

InstallInv == InstallOK /\ DiskStands /\ \A s \in Setups : JobStands(s)

LEMMA NoTreeApart == NoTree \notin Trees
BY DEF NoTree, Trees

LEMMA RestIsJob == Rest \in Jobs /\ Rest.at = "rest" /\ ~Rest.up /\ Rest.at \notin Building
BY DEF Rest, Jobs, Building

LEMMA NowIsEntry == ASSUME disk \in Seq(Entries), disk # <<>>
                    PROVE  Len(disk) \in 1..Len(disk) /\ 1 \in 1..Len(disk) /\ Now \in Entries
BY DEF Now

LEMMA OneEntry ==
    ASSUME NEW e \in Entries
    PROVE  <<e>> \in Seq(Entries) /\ <<e>> # <<>> /\ Len(<<e>>) = 1 /\ <<e>>[1] = e
OBVIOUS

LEMMA InstallStarts == InstallInit => InstallInv
<1> SUFFICES ASSUME InstallInit PROVE InstallInv
  OBVIOUS
<1>1. PICK e \in Entries : e.current = NoTree /\ disk = <<e>>
  <2> DEFINE d == [trees |-> [t \in Trees |-> "none"], current |-> NoTree]
  <2>1. d \in Entries /\ d.current = NoTree
    BY DEF Entries
  <2>2. disk = <<d>>
    BY DEF InstallInit
  <2> HIDE DEF d
  <2> QED
    BY <2>1, <2>2
<1>2. <<e>> \in Seq(Entries) /\ <<e>> # <<>> /\ Len(<<e>>) = 1 /\ <<e>>[1] = e
  BY OneEntry
<1>3. disk \in Seq(Entries) /\ disk # <<>> /\ Len(disk) = 1 /\ disk[1] = e
  BY <1>1, <1>2
<1>4. InstallOK
  <2>1. latest \in [rel : 1..MaxReleases, companion : BOOLEAN]
    BY InstallBoundsAssumption DEF InstallInit
  <2>2. setup \in [Setups -> Jobs]
    BY RestIsJob DEF InstallInit
  <2>3. /\ wanted \in BOOLEAN /\ staged = {} /\ strays = {} /\ installer = Unlocked
        /\ inUse = {} /\ safe = FALSE /\ slips = 0
    BY DEF InstallInit
  <2> QED
    BY <1>3, <2>1, <2>2, <2>3 DEF InstallOK
<1>5. DiskStands
  BY <1>1, <1>3 DEF InstallInit, DiskStands
<1>6. ASSUME NEW s \in Setups PROVE JobStands(s)
  BY RestIsJob DEF InstallInit, JobStands
<1> QED
  BY <1>4, <1>5, <1>6 DEF InstallInv

(* All other setups rest while one has the lock.                            *)
LEMMA OthersRest ==
    ASSUME InstallInv, NEW s \in Setups, installer \in {s, Unlocked}, NEW t \in Setups \ {s}
    PROVE  setup[t] = Rest /\ (t \in staged => t \in strays)
BY SetupsAssumption, RestIsJob DEF InstallInv, JobStands, Unlocked

LEMMA SetupMoves ==
    ASSUME InstallInv, NEW s \in Setups, installer \in {s, Unlocked}, NEW j \in Jobs,
           setup' = [setup EXCEPT ![s] = j], InstallOK', DiskStands', JobStands(s)',
           \A t \in Setups \ {s} : t \in staged' => t \in strays'
    PROVE  InstallInv'
<1>1. ASSUME NEW t \in Setups \ {s} PROVE JobStands(t)'
  <2>1. setup'[t] = Rest
    BY OthersRest DEF InstallInv, InstallOK
  <2> QED
    BY <2>1, RestIsJob DEF JobStands
<1> QED
  BY <1>1 DEF InstallInv

(* The step of a setup that works on.                                       *)
LEMMA SetupGoesOn ==
    ASSUME InstallInv, NEW s \in Setups, setup[s].at # "rest", NEW j \in Jobs,
           setup' = [setup EXCEPT ![s] = j],
           UNCHANGED <<wanted, latest, disk, staged, installer, inUse, safe, strays>>,
           slips' \in Nat, JobStands(s)'
    PROVE  InstallInv'
<1>1. installer = s
  BY DEF InstallInv, JobStands
<1>2. InstallOK' /\ DiskStands'
  BY DEF InstallInv, InstallOK, DiskStands, Now
<1>3. \A t \in Setups \ {s} : t \in staged' => t \in strays'
  BY <1>1, OthersRest
<1> QED
  BY <1>1, <1>2, <1>3, SetupMoves

(* The end of a setup, whatever became of it.                               *)
LEMMA SetupEnds ==
    ASSUME InstallInv, NEW s \in Setups, setup[s].at # "rest", Lets(s),
           UNCHANGED <<wanted, latest>>, slips' \in Nat, inUse' \subseteq Trees,
           safe' \in BOOLEAN, disk' \in Seq(Entries), disk' # <<>>, DiskStands'
    PROVE  InstallInv'
<1>1. /\ installer = s /\ setup' = [setup EXCEPT ![s] = Rest] /\ installer' = Unlocked
      /\ staged' = staged \ {s} /\ strays' = strays \ {s}
  BY DEF InstallInv, JobStands, Lets
<1>2. InstallOK' /\ setup'[s] = Rest
  BY <1>1, RestIsJob DEF InstallInv, InstallOK
<1>3. JobStands(s)'
  BY <1>1, <1>2, RestIsJob DEF JobStands
<1>4. \A t \in Setups \ {s} : t \in staged' => t \in strays'
  BY <1>1, OthersRest
<1> QED
  BY <1>1, <1>2, <1>3, <1>4, RestIsJob, SetupMoves

LEMMA InstalledIsWhole ==
    ASSUME InstallInv
    PROVE  Now.current \in Trees \cup {NoTree}
           /\ (Now.current # NoTree => Now.trees[Now.current] = "whole")
BY NowIsEntry DEF InstallInv, InstallOK, DiskStands, Entries, Now

(* A tree that is whole is handed out.                                      *)
LEMMA HandedOut ==
    ASSUME InstallInv, NEW t \in Trees, Now.trees[t] = "whole", HandsOut(t), UNCHANGED disk
    PROVE  inUse' \subseteq Trees /\ safe' \in BOOLEAN /\ DiskStands'
<1>1. inUse' = inUse \cup {t} /\ safe' = (safe \/ disk[1].current # NoTree)
  BY DEF HandsOut
<1> QED
  BY <1>1 DEF InstallInv, InstallOK, DiskStands, Now

LEMMA FailsForKeeps ==
    ASSUME InstallInv, NEW s \in Setups, setup[s].at # "rest", NEW why, FailsFor(s, why),
           UNCHANGED <<wanted, latest, disk>>, slips' \in Nat
    PROVE  InstallInv'
<1>1. Lets(s)
  BY DEF FailsFor
<1>2. inUse' \subseteq Trees /\ safe' \in BOOLEAN /\ DiskStands'
  <2>1. CASE setup[s].up /\ why # "cancel"
    <3>1. Now.current \in Trees /\ Now.trees[Now.current] = "whole"
      BY <2>1, InstalledIsWhole DEF InstallInv, JobStands
    <3> QED
      BY <2>1, <3>1, HandedOut DEF FailsFor
  <2>2. CASE ~(setup[s].up /\ why # "cancel")
    BY <2>2 DEF FailsFor, InstallInv, InstallOK, DiskStands, Now
  <2> QED
    BY <2>1, <2>2
<1> QED
  BY <1>1, <1>2, SetupEnds DEF InstallInv, InstallOK

LEMMA BreaksKeeps ==
    ASSUME InstallInv, NEW s \in Setups, setup[s].at # "rest", NEW reasons, Breaks(s, reasons),
           UNCHANGED <<wanted, latest>>
    PROVE  InstallInv'
<1>1. PICK why \in reasons : FailsFor(s, why)
  BY DEF Breaks
<1>2. UNCHANGED disk /\ slips' \in Nat
  BY DEF Breaks, Slip, InstallInv, InstallOK
<1> QED
  BY <1>1, <1>2, FailsForKeeps

LEMMA ProceedsKeeps ==
    ASSUME InstallInv, NEW s \in Setups, setup[s].at # "rest", NEW j \in Jobs,
           Proceeds(s, j), UNCHANGED <<wanted, latest>>,
           j.at # "rest", j.up = setup[s].up, j.at \in Building => s \in staged,
           j.at \notin {"rest", "check"} => j.tree \in Trees,
           j.at = "merge" => j.tree.with /\ j.holds = "plain" /\ j.flushed,
           j.at = "publish" => Content(j) = "whole", j.at # "point"
    PROVE  InstallInv'
<1>1. /\ setup' = [setup EXCEPT ![s] = j] /\ slips' \in Nat
      /\ UNCHANGED <<wanted, latest, disk, staged, installer, inUse, safe, strays>>
  BY DEF Proceeds, InstallInv, InstallOK
<1>2. setup'[s] = j
  BY <1>1 DEF InstallInv, InstallOK
<1>3. JobStands(s)'
  BY <1>1, <1>2 DEF InstallInv, JobStands, Now
<1> QED
  BY <1>1, <1>3, SetupGoesOn

(* A bundle that could not be had is left out.                              *)
LEMMA DropsKeeps ==
    ASSUME InstallInv, NEW s \in Setups, NEW j \in Jobs, Drops(s, j), s \in staged,
           setup[s].at # "rest", j.at = "extract", j.tree \in Trees, j.up = setup[s].up,
           UNCHANGED <<wanted, latest>>
    PROVE  InstallInv'
<1> DEFINE k == Plain(j)
<1>1. /\ k \in Jobs /\ k.at = "extract" /\ k.tree \in Trees /\ k.up = setup[s].up
  BY DEF Plain, Jobs, Trees
<1>2. /\ setup' = [setup EXCEPT ![s] = k] /\ slips' \in Nat
      /\ UNCHANGED <<wanted, latest, disk, staged, installer, inUse, safe, strays>>
  BY DEF Drops, Slip, InstallInv, InstallOK
<1> HIDE DEF k
<1>3. setup'[s] = k
  BY <1>2 DEF InstallInv, InstallOK
<1>4. JobStands(s)'
  BY <1>1, <1>2, <1>3 DEF InstallInv, JobStands, Now
<1> QED
  BY <1>1, <1>2, <1>4, SetupGoesOn

LEMMA FetchesKeeps == ASSUME InstallInv, NEW s \in Setups, Fetches(s) PROVE InstallInv'
<1>1. setup[s] \in Jobs /\ setup[s].at = "fetch" /\ JobStands(s)
  BY DEF InstallInv, InstallOK, Fetches
<1> DEFINE j == [setup[s] EXCEPT !.at = IF setup[s].tree.with
                                        THEN "fetch companion" ELSE "extract"]
<1>2. /\ j \in Jobs /\ j.at \in {"fetch companion", "extract"} /\ j.up = setup[s].up
      /\ j.tree = setup[s].tree
  BY <1>1 DEF Jobs
<1>3. s \in staged /\ setup[s].tree \in Trees
  BY <1>1 DEF JobStands, Building
<1>4. CASE Proceeds(s, j)
  <2> HIDE DEF j
  <2> QED
    BY <1>1, <1>2, <1>3, <1>4, ProceedsKeeps DEF Fetches
<1>5. CASE Breaks(s, Why)
  BY <1>1, <1>5, BreaksKeeps DEF Fetches
<1> QED
  BY <1>4, <1>5 DEF Fetches

LEMMA FetchesCompanionKeeps ==
    ASSUME InstallInv, NEW s \in Setups, FetchesCompanion(s) PROVE InstallInv'
<1>1. setup[s] \in Jobs /\ setup[s].at = "fetch companion" /\ JobStands(s)
  BY DEF InstallInv, InstallOK, FetchesCompanion
<1> DEFINE j == [setup[s] EXCEPT !.at = "extract"]
<1>2. j \in Jobs /\ j.at = "extract" /\ j.up = setup[s].up /\ j.tree = setup[s].tree
  BY <1>1 DEF Jobs
<1>3. s \in staged /\ setup[s].tree \in Trees
  BY <1>1 DEF JobStands, Building
<1>4. CASE Proceeds(s, j) \/ Drops(s, j)
  <2> HIDE DEF j
  <2> QED
    BY <1>1, <1>2, <1>3, <1>4, ProceedsKeeps, DropsKeeps DEF FetchesCompanion
<1>5. CASE Breaks(s, IF setup[s].up THEN Why ELSE {"cancel"})
  BY <1>1, <1>5, BreaksKeeps DEF FetchesCompanion
<1> QED
  BY <1>4, <1>5 DEF FetchesCompanion

LEMMA ExtractsKeeps == ASSUME InstallInv, NEW s \in Setups, Extracts(s) PROVE InstallInv'
<1>1. setup[s] \in Jobs /\ setup[s].at = "extract" /\ JobStands(s)
  BY DEF InstallInv, InstallOK, Extracts
<1> DEFINE j == [setup[s] EXCEPT !.holds = "plain", !.flushed = TRUE,
                                 !.at = IF setup[s].tree.with THEN "merge" ELSE "publish"]
<1>2. s \in staged /\ setup[s].tree \in Trees
  BY <1>1 DEF JobStands, Building
<1>3. /\ j \in Jobs /\ j.at = (IF setup[s].tree.with THEN "merge" ELSE "publish")
      /\ j.up = setup[s].up /\ j.tree = setup[s].tree /\ j.holds = "plain" /\ j.flushed = TRUE
  BY <1>1 DEF Jobs
<1>4. CASE Proceeds(s, j)
  <2> HIDE DEF j
  <2>1. j.at = "publish" => Content(j) = "whole"
    BY <1>3 DEF Content
  <2> QED
    BY <1>1, <1>2, <1>3, <1>4, <2>1, ProceedsKeeps DEF Extracts
<1>5. CASE Breaks(s, Why)
  BY <1>1, <1>5, BreaksKeeps DEF Extracts
<1> QED
  BY <1>4, <1>5 DEF Extracts

LEMMA MergesKeeps == ASSUME InstallInv, NEW s \in Setups, Merges(s) PROVE InstallInv'
<1>1. setup[s] \in Jobs /\ setup[s].at = "merge" /\ JobStands(s)
  BY DEF InstallInv, InstallOK, Merges
<1>2. s \in staged /\ setup[s].tree \in Trees /\ setup[s].tree.with
  BY <1>1 DEF JobStands, Building
<1>3. CASE Proceeds(s, Merged(setup[s]))
  <2> DEFINE j == Merged(setup[s])
  <2>1. /\ j \in Jobs /\ j.at = "publish" /\ j.up = setup[s].up /\ j.tree = setup[s].tree
        /\ j.holds = "both" /\ j.flushed = TRUE
    BY <1>1 DEF Merged, Jobs
  <2> HIDE DEF j
  <2>2. Content(j) = "whole"
    BY <1>2, <2>1 DEF Content
  <2>3. Proceeds(s, j)
    BY <1>3 DEF j
  <2> QED
    BY <1>1, <1>2, <2>1, <2>2, <2>3, ProceedsKeeps DEF Merges
<1>4. CASE Drops(s, Rebuilt(setup[s]))
  <2> DEFINE j == Rebuilt(setup[s])
  <2>1. /\ j \in Jobs /\ j.at = "extract" /\ j.up = setup[s].up /\ j.tree = setup[s].tree
    BY <1>1 DEF Rebuilt, Jobs
  <2>2. Drops(s, j)
    BY <1>4
  <2> HIDE DEF j
  <2> QED
    BY <1>1, <1>2, <2>1, <2>2, DropsKeeps DEF Merges
<1>5. CASE Breaks(s, IF setup[s].up THEN Why ELSE {"cancel"})
  BY <1>1, <1>5, BreaksKeeps DEF Merges
<1> QED
  BY <1>3, <1>4, <1>5 DEF Merges
-----------------------------------------------------------------------------
(* One more change of the directory, which may not last.                    *)
LEMMA DiskGrows ==
    ASSUME InstallInv, NEW e \in Entries, disk' = Append(disk, e),
           e.current # NoTree => e.trees[e.current] = "whole",
           Now.current # NoTree => e.current # NoTree,
           \A t \in inUse' : e.trees[t] = "whole",
           safe' => safe \/ disk[1].current # NoTree
    PROVE  disk' \in Seq(Entries) /\ disk' # <<>> /\ DiskStands' /\ Now' = e
<1>1. /\ disk \in Seq(Entries) /\ Len(disk) \in Nat \ {0}
  BY DEF InstallInv, InstallOK
<1>2. /\ disk' \in Seq(Entries) /\ Len(disk') = Len(disk) + 1
      /\ disk'[Len(disk) + 1] = e /\ \A i \in 1..Len(disk) : disk'[i] = disk[i]
  BY <1>1
<1>3. disk' # <<>> /\ Now' = e
  BY <1>1, <1>2 DEF Now
<1>4. disk[1].current # NoTree \/ safe => Now.current # NoTree
  BY <1>1 DEF InstallInv, DiskStands, Now
<1>5. \A i \in 1..Len(disk') : i = Len(disk) + 1 \/ i \in 1..Len(disk)
  BY <1>1, <1>2
<1>6. 1 \in 1..Len(disk)
  BY <1>1
<1>7. ASSUME NEW i \in 1..Len(disk')
      PROVE  /\ disk'[i].current # NoTree => disk'[i].trees[disk'[i].current] = "whole"
             /\ disk'[1].current # NoTree \/ safe' => disk'[i].current # NoTree
  <2>1. CASE i = Len(disk) + 1
    BY <1>2, <1>4, <1>6, <2>1
  <2>2. CASE i \in 1..Len(disk)
    BY <1>2, <1>6, <2>2 DEF InstallInv, DiskStands
  <2> QED
    BY <1>5, <2>1, <2>2
<1> QED
  BY <1>2, <1>3, <1>7 DEF DiskStands

LEMMA PublishesTreeKeeps ==
    ASSUME InstallInv, NEW s \in Setups, PublishesTree(s) PROVE InstallInv'
<1> DEFINE j == setup[s]
           k == [j EXCEPT !.at = "point"]
<1>1. j \in Jobs /\ j.at = "publish" /\ JobStands(s) /\ installer = s
  BY DEF InstallInv, InstallOK, PublishesTree, JobStands
<1>2. j.tree \in Trees /\ Content(j) = "whole"
  BY <1>1 DEF JobStands
<1>3. /\ k \in Jobs /\ k.at = "point" /\ k.tree = j.tree /\ k.up = j.up
  BY <1>1 DEF Jobs
<1>4. CASE /\ disk' = IF Now.trees[j.tree] # "none" THEN disk
                      ELSE Append(disk, [Now EXCEPT !.trees[j.tree] = Content(j)])
           /\ setup' = [setup EXCEPT ![s].at = "point"]
           /\ UNCHANGED <<staged, marks, installer, inUse, safe, strays, slips>>
  <2>1. setup' = [setup EXCEPT ![s] = k] /\ setup'[s] = k
    BY <1>4 DEF InstallInv, InstallOK
  <2>2. Now \in Entries
    BY NowIsEntry DEF InstallInv, InstallOK
  <2>3. /\ disk' \in Seq(Entries) /\ disk' # <<>> /\ DiskStands'
        /\ Now'.trees[j.tree] = "whole" /\ (Now.current # NoTree => Now'.current # NoTree)
    <3>1. CASE Now.trees[j.tree] # "none"
      <4>1. disk' = disk /\ Now' = Now
        BY <1>4, <3>1 DEF Now
      <4>2. Now.trees[j.tree] = "whole"
        BY <1>2, <2>2, <3>1 DEF Entries
      <4> QED
        BY <1>4, <4>1, <4>2 DEF InstallInv, InstallOK, DiskStands
    <3>2. CASE Now.trees[j.tree] = "none"
      <4> DEFINE e == [Now EXCEPT !.trees[j.tree] = "whole"]
      <4>1. /\ e \in Entries /\ e.current = Now.current /\ e.trees[j.tree] = "whole"
            /\ \A t \in Trees : Now.trees[t] = "whole" => e.trees[t] = "whole"
        BY <1>2, <2>2 DEF Entries
      <4>2. disk' = Append(disk, e)
        BY <1>2, <1>4, <3>2
      <4> HIDE DEF e
      <4>3. \A t \in inUse' : e.trees[t] = "whole"
        BY <1>4, <4>1 DEF InstallInv, InstallOK, DiskStands
      <4>4. e.current # NoTree => e.trees[e.current] = "whole"
        BY <4>1, InstalledIsWhole
      <4>5. safe' = safe
        BY <1>4
      <4> HIDE DEF j, k
      <4> QED
        BY <4>1, <4>2, <4>3, <4>4, <4>5, DiskGrows
    <3> QED
      BY <3>1, <3>2
  <2>4. InstallOK'
    BY <1>3, <1>4, <2>1, <2>3 DEF PublishesTree, InstallInv, InstallOK
  <2>5. JobStands(s)'
    BY <1>1, <1>2, <1>3, <1>4, <2>1, <2>3 DEF JobStands, Building
  <2>6. \A t \in Setups \ {s} : t \in staged' => t \in strays'
    BY <1>1, <1>4, OthersRest
  <2> HIDE DEF k
  <2> QED
    BY <1>1, <1>3, <2>1, <2>3, <2>4, <2>5, <2>6, SetupMoves
<1>5. CASE Breaks(s, {"machine", "cancel"})
  BY <1>1, <1>5, BreaksKeeps DEF PublishesTree
<1> QED
  BY <1>4, <1>5 DEF PublishesTree

LEMMA PointsKeeps == ASSUME InstallInv, NEW s \in Setups, Points(s) PROVE InstallInv'
<1>1. setup[s] \in Jobs /\ setup[s].at = "point" /\ JobStands(s) /\ setup[s].at # "rest"
  BY DEF InstallInv, InstallOK, Points
<1> PICK tree \in Trees : tree = setup[s].tree
  BY <1>1 DEF JobStands
<1> DEFINE new == [Now EXCEPT !.current = tree]
<1>2. Now \in Entries /\ Now.trees[tree] = "whole"
  BY <1>1, NowIsEntry DEF InstallInv, InstallOK, JobStands
<1>3. new \in Entries /\ new.current = tree /\ new.trees = Now.trees
  BY <1>2 DEF Entries
<1>4. \A t \in inUse : new.trees[t] = "whole"
  BY <1>3 DEF InstallInv, DiskStands
<1>5. CASE disk' = <<new>> /\ Lets(s) /\ HandsOut(tree) /\ UNCHANGED <<marks, slips>>
  <2> HIDE DEF new
  <2> PICK e \in Entries : e = new
    BY <1>3
  <2>1. <<e>> \in Seq(Entries) /\ <<e>> # <<>> /\ Len(<<e>>) = 1 /\ <<e>>[1] = e
    BY OneEntry
  <2>2. disk' \in Seq(Entries) /\ disk' # <<>> /\ Len(disk') = 1 /\ disk'[1] = e /\ Now' = e
    BY <1>5, <2>1 DEF Now
  <2>3. inUse' = inUse \cup {tree} /\ inUse' \subseteq Trees /\ safe' \in BOOLEAN
    BY <1>5 DEF HandsOut, InstallInv, InstallOK
  <2>4. DiskStands'
    BY <1>2, <1>3, <1>4, <2>2, <2>3, NoTreeApart DEF DiskStands
  <2>5. UNCHANGED <<wanted, latest>> /\ slips' \in Nat
    BY <1>5 DEF Points, InstallInv, InstallOK
  <2> QED
    BY <1>1, <1>5, <2>2, <2>3, <2>4, <2>5, SetupEnds
<1>6. CASE /\ Slip /\ disk' = Append(disk, new) /\ Lets(s) /\ UNCHANGED marks
           /\ IF setup[s].up THEN HandsOut(Now.current) ELSE UNCHANGED <<inUse, safe>>
  <2> HIDE DEF new
  <2>1. UNCHANGED <<wanted, latest>> /\ slips' \in Nat
    BY <1>6 DEF Points, Slip, InstallInv, InstallOK
  <2>2. setup[s].up => Now.current \in Trees /\ Now.trees[Now.current] = "whole"
    BY <1>1, InstalledIsWhole DEF JobStands
  <2>3. disk'[1] = disk[1]
    BY <1>3, <1>6 DEF InstallInv, InstallOK
  <2>4. /\ inUse' \subseteq Trees /\ safe' \in BOOLEAN
        /\ safe' => safe \/ disk[1].current # NoTree
        /\ \A t \in inUse' : new.trees[t] = "whole"
    BY <1>3, <1>4, <1>6, <2>2, <2>3 DEF HandsOut, InstallInv, InstallOK
  <2>5. disk' \in Seq(Entries) /\ disk' # <<>> /\ DiskStands'
    <3> PICK e \in Entries : e = new
      BY <1>3
    <3> QED
      BY <1>2, <1>3, <1>6, <2>4, NoTreeApart, DiskGrows
  <2> QED
    BY <1>1, <1>6, <2>1, <2>4, <2>5, SetupEnds
<1>7. CASE Breaks(s, {"machine", "cancel"})
  BY <1>1, <1>7, BreaksKeeps DEF Points
<1> QED
  BY <1>5, <1>6, <1>7 DEF Points
-----------------------------------------------------------------------------
(* Every setup rests while the lock is free.                                *)
LEMMA AllRest ==
    ASSUME InstallInv, installer = Unlocked, NEW s \in Setups
    PROVE  setup[s] = Rest /\ (s \in staged => s \in strays)
BY SetupsAssumption, RestIsJob DEF InstallInv, JobStands, Unlocked

LEMMA EnsuresKeeps == ASSUME InstallInv, NEW s \in Setups, Ensures(s) PROVE InstallInv'
<1> DEFINE have == Now.current
           j == [Rest EXCEPT !.at = "check", !.need = wanted, !.up = have # NoTree]
<1>1. /\ setup[s] = Rest /\ installer = Unlocked /\ disk' = disk
      /\ UNCHANGED <<wanted, latest, marks, slips>> /\ staged' = {} /\ strays' = {}
  BY DEF Ensures, Swept
<1>2. \A t \in Setups \ {s} : t \in staged' => t \in strays'
  BY <1>1
<1>3. CASE have # NoTree /\ (~wanted \/ have.with)
  <2>1. HandsOut(have) /\ UNCHANGED <<setup, installer>>
    BY <1>3 DEF Ensures
  <2>2. have \in Trees /\ Now.trees[have] = "whole"
    BY <1>3, InstalledIsWhole
  <2>3. inUse' \subseteq Trees /\ safe' \in BOOLEAN /\ DiskStands'
    BY <1>1, <2>1, <2>2, HandedOut
  <2>4. InstallOK'
    BY <1>1, <2>1, <2>3 DEF InstallInv, InstallOK
  <2>5. setup' = [setup EXCEPT ![s] = Rest] /\ setup'[s] = Rest
    BY <1>1, <2>1 DEF InstallInv, InstallOK
  <2>6. JobStands(s)'
    BY <1>1, <2>5, RestIsJob DEF JobStands
  <2> QED
    BY <1>1, <1>2, <2>3, <2>4, <2>5, <2>6, RestIsJob, SetupMoves
<1>4. CASE ~(have # NoTree /\ (~wanted \/ have.with))
  <2>1. /\ setup' = [setup EXCEPT ![s] = j] /\ installer' = s
        /\ UNCHANGED <<inUse, safe>>
    BY <1>4 DEF Ensures
  <2>2. j \in Jobs /\ j.at = "check" /\ (j.up => have # NoTree)
    BY DEF InstallInv, InstallOK, Rest, Jobs
  <2> HIDE DEF j
  <2>3. InstallOK' /\ setup'[s] = j
    BY <1>1, <2>1, <2>2 DEF InstallInv, InstallOK
  <2>4. DiskStands'
    BY <1>1, <2>1 DEF InstallInv, DiskStands, Now
  <2>5. JobStands(s)'
    BY <1>1, <2>1, <2>2, <2>3 DEF JobStands, Building, Now
  <2> QED
    BY <1>1, <1>2, <2>1, <2>2, <2>3, <2>4, <2>5, SetupMoves
<1> QED
  BY <1>3, <1>4

LEMMA ChecksKeeps == ASSUME InstallInv, NEW s \in Setups, Checks(s) PROVE InstallInv'
<1>1. /\ setup[s] \in Jobs /\ setup[s].at = "check" /\ setup[s].at # "rest" /\ JobStands(s)
      /\ UNCHANGED <<wanted, latest, disk>> /\ installer = s
  BY DEF Checks, InstallInv, InstallOK, JobStands
<1>2. ASSUME NEW t \in Trees, Offered(s, t), Now.trees[t] # "none",
             setup' = [setup EXCEPT ![s] = [setup[s] EXCEPT !.tree = t, !.at = "point"]],
             UNCHANGED <<staged, marks, installer, inUse, safe, strays>>
      PROVE  InstallInv'
  <2> DEFINE k == [setup[s] EXCEPT !.tree = t, !.at = "point"]
  <2>1. k \in Jobs /\ k.at = "point" /\ k.tree = t /\ k.up = setup[s].up
    BY <1>1 DEF Jobs
  <2>2. Now.trees[t] = "whole"
    BY <1>2, NowIsEntry DEF InstallInv, InstallOK, Entries
  <2>3. slips' \in Nat /\ setup' = [setup EXCEPT ![s] = k]
    BY <1>2 DEF Offered, Slip, InstallInv, InstallOK
  <2> HIDE DEF k
  <2>4. setup'[s] = k
    BY <2>3 DEF InstallInv, InstallOK
  <2>5. JobStands(s)'
    BY <1>1, <1>2, <2>1, <2>2, <2>4 DEF JobStands, Building, Now
  <2> QED
    BY <1>1, <1>2, <2>1, <2>3, <2>5, SetupGoesOn
<1>3. ASSUME NEW t \in Trees, Offered(s, t),
             setup' = [setup EXCEPT ![s] = [setup[s] EXCEPT !.tree = t, !.at = "fetch"]],
             staged' = staged \cup {s},
             UNCHANGED <<marks, installer, inUse, safe, strays>>
      PROVE  InstallInv'
  <2> DEFINE k == [setup[s] EXCEPT !.tree = t, !.at = "fetch"]
  <2>1. k \in Jobs /\ k.at = "fetch" /\ k.tree = t /\ k.up = setup[s].up
    BY <1>1 DEF Jobs
  <2>2. slips' \in Nat /\ setup' = [setup EXCEPT ![s] = k]
    BY <1>3 DEF Offered, Slip, InstallInv, InstallOK
  <2> HIDE DEF k
  <2>3. setup'[s] = k /\ InstallOK'
    BY <1>1, <1>3, <2>1, <2>2 DEF InstallInv, InstallOK
  <2>4. DiskStands'
    BY <1>1, <1>3 DEF InstallInv, DiskStands, Now
  <2>5. JobStands(s)'
    BY <1>1, <1>3, <2>1, <2>3 DEF JobStands, Building, Now
  <2>6. \A u \in Setups \ {s} : u \in staged' => u \in strays'
    BY <1>1, <1>3, OthersRest
  <2> QED
    BY <1>1, <2>1, <2>2, <2>3, <2>4, <2>5, <2>6, SetupMoves
<1>4. ASSUME NEW why, FailsFor(s, why), slips' \in Nat PROVE InstallInv'
  BY <1>1, <1>4, FailsForKeeps
<1>5. slips \in Nat /\ (Slip => slips' \in Nat) /\ (UNCHANGED slips => slips' \in Nat)
  BY DEF Slip, InstallInv, InstallOK
<1>6. CASE \E t \in Trees :
             /\ Offered(s, t)
             /\ \/ /\ Now.trees[t] # "none"
                   /\ setup' = [setup EXCEPT ![s] = [setup[s] EXCEPT !.tree = t, !.at = "point"]]
                   /\ UNCHANGED <<staged, marks, installer, inUse, safe, strays>>
                \/ /\ Now.trees[t] = "none" /\ ~(setup[s].up /\ t \in marks)
                   /\ setup' = [setup EXCEPT ![s] = [setup[s] EXCEPT !.tree = t, !.at = "fetch"]]
                   /\ staged' = staged \cup {s}
                   /\ UNCHANGED <<marks, installer, inUse, safe, strays>>
                \/ Now.trees[t] = "none" /\ setup[s].up /\ t \in marks /\ FailsFor(s, "marked")
  <2> PICK t \in Trees :
             /\ Offered(s, t)
             /\ \/ /\ Now.trees[t] # "none"
                   /\ setup' = [setup EXCEPT ![s] = [setup[s] EXCEPT !.tree = t, !.at = "point"]]
                   /\ UNCHANGED <<staged, marks, installer, inUse, safe, strays>>
                \/ /\ setup' = [setup EXCEPT ![s] = [setup[s] EXCEPT !.tree = t, !.at = "fetch"]]
                   /\ staged' = staged \cup {s}
                   /\ UNCHANGED <<marks, installer, inUse, safe, strays>>
                \/ FailsFor(s, "marked")
    BY <1>6
  <2>1. Offered(s, t) => slips' \in Nat
    BY <1>5 DEF Offered
  <2> QED
    BY <1>2, <1>3, <1>4, <2>1
<1>7. CASE FailsFor(s, "fetch") /\ UNCHANGED slips
  BY <1>4, <1>5, <1>7
<1>8. CASE Slip /\ \E why \in {"fetch", "machine", "cancel"} : FailsFor(s, why)
  BY <1>4, <1>5, <1>8
<1> QED
  BY <1>6, <1>7, <1>8 DEF Checks

LEMMA SweepsStaleKeeps == ASSUME InstallInv, SweepsStale PROVE InstallInv'
<1>1. /\ UNCHANGED <<wanted, latest, disk, installer, setup, inUse, safe, slips>>
      /\ staged' = {} /\ strays' = {} /\ installer = Unlocked
  BY DEF SweepsStale, Swept
<1>2. InstallOK' /\ DiskStands'
  BY <1>1 DEF InstallInv, InstallOK, DiskStands, Now
<1>3. ASSUME NEW s \in Setups PROVE JobStands(s)'
  BY <1>1, AllRest, RestIsJob DEF JobStands
<1> QED
  BY <1>2, <1>3 DEF InstallInv

(* What changes nothing but what the machine and the release site offer,    *)
(* and what is remembered of failures.                                      *)
LEMMA InstallUnmoved ==
    ASSUME InstallInv, UNCHANGED <<disk, staged, setup, installer, inUse, safe, strays>>,
           wanted' \in BOOLEAN, slips' \in Nat,
           latest' \in [rel : 1..MaxReleases, companion : BOOLEAN]
    PROVE  InstallInv'
<1>1. InstallOK' /\ DiskStands'
  BY DEF InstallInv, InstallOK, DiskStands, Now
<1>2. ASSUME NEW s \in Setups PROVE JobStands(s)'
  BY DEF InstallInv, JobStands, Now
<1> QED
  BY <1>1, <1>2 DEF InstallInv

LEMMA ForgetsKeeps == ASSUME InstallInv, Forgets PROVE InstallInv'
BY InstallUnmoved DEF Forgets, InstallInv, InstallOK

LEMMA ChoosesCPUKeeps == ASSUME InstallInv, ChoosesCPU PROVE InstallInv'
BY InstallUnmoved DEF ChoosesCPU, Slip, InstallInv, InstallOK

LEMMA ReleaseKeeps ==
    ASSUME InstallInv, NEW companion \in BOOLEAN, Release(companion) PROVE InstallInv'
<1>1. latest' \in [rel : 1..MaxReleases, companion : BOOLEAN]
  BY InstallBoundsAssumption DEF Release, InstallInv, InstallOK
<1> QED
  BY <1>1, InstallUnmoved DEF Release, InstallInv, InstallOK

(* A setup that dies holds the lock, or nothing.                            *)
LEMMA SetupDiesKeeps ==
    ASSUME InstallInv, NEW s \in Setups, SetupDies(s) PROVE InstallInv'
<1>1. installer = s /\ staged \subseteq Setups
  BY DEF InstallInv, InstallOK, JobStands, SetupDies
<1>2. /\ setup' = [setup EXCEPT ![s] = Rest] /\ installer' = Unlocked
      /\ strays' = strays \cup (staged \cap {s}) /\ slips' \in Nat
      /\ UNCHANGED <<wanted, latest, disk, staged, inUse, safe>>
  BY DEF SetupDies, Slip, InstallInv, InstallOK
<1>3. InstallOK' /\ setup'[s] = Rest
  BY <1>1, <1>2, RestIsJob DEF InstallInv, InstallOK
<1>4. DiskStands'
  BY <1>2 DEF InstallInv, DiskStands, Now
<1>5. JobStands(s)'
  BY <1>2, <1>3, RestIsJob DEF JobStands
<1>6. \A t \in Setups \ {s} : t \in staged' => t \in strays'
  BY <1>1, <1>2, OthersRest
<1> QED
  BY <1>1, <1>2, <1>3, <1>4, <1>5, <1>6, RestIsJob, SetupMoves

(* A power cut: no tree that was there had files still to flush.            *)
LEMMA LosesPowerKeeps == ASSUME InstallInv, LosesPower PROVE InstallInv'
<1>1. PICK n \in 1..Len(disk) :
          disk' = <<[disk[n] EXCEPT !.trees =
                        [t \in Trees |-> IF @[t] = "loose" THEN "broken" ELSE @[t]]]>>
  BY DEF LosesPower
<1>2. /\ setup' = [s \in Setups |-> Rest] /\ installer' = Unlocked /\ staged' = staged
      /\ strays' = staged /\ inUse' = {} /\ slips' \in Nat /\ safe' = safe
      /\ UNCHANGED <<wanted, latest>>
  BY DEF LosesPower, Slip, InstallInv, InstallOK
<1>3. PICK e \in Entries : e = disk[n]
  BY DEF InstallInv, InstallOK
<1>4. [e EXCEPT !.trees = [t \in Trees |-> IF @[t] = "loose" THEN "broken" ELSE @[t]]] = e
  <2>1. [t \in Trees |-> IF e.trees[t] = "loose" THEN "broken" ELSE e.trees[t]] = e.trees
    BY <1>3 DEF Entries
  <2> QED
    BY <1>3, <2>1 DEF Entries
<1>5. disk' = <<e>>
  BY <1>1, <1>3, <1>4
<1>6. disk' \in Seq(Entries) /\ disk' # <<>> /\ Len(disk') = 1 /\ disk'[1] = e /\ Now' = e
  BY <1>5, OneEntry DEF Now
<1>7. /\ e.current # NoTree => e.trees[e.current] = "whole"
      /\ safe => e.current # NoTree
  BY <1>3 DEF InstallInv, DiskStands
<1>8. DiskStands'
  BY <1>2, <1>6, <1>7 DEF DiskStands
<1>9. InstallOK'
  BY <1>2, <1>6, RestIsJob DEF InstallInv, InstallOK
<1>10. ASSUME NEW s \in Setups PROVE JobStands(s)'
  BY <1>2, RestIsJob DEF JobStands
<1> QED
  BY <1>8, <1>9, <1>10 DEF InstallInv

LEMMA InstallStutters == ASSUME InstallInv, UNCHANGED installVars PROVE InstallInv'
BY InstallUnmoved DEF installVars, InstallInv, InstallOK

LEMMA InstallInductive == InstallInv /\ [InstallNext]_installVars => InstallInv'
<1> SUFFICES ASSUME InstallInv, [InstallNext]_installVars PROVE InstallInv'
  OBVIOUS
<1>1. ASSUME NEW s \in Setups,
             \/ Ensures(s) \/ Checks(s) \/ Fetches(s) \/ FetchesCompanion(s) \/ Extracts(s)
             \/ Merges(s) \/ PublishesTree(s) \/ Points(s) \/ SetupDies(s)
      PROVE  InstallInv'
  BY <1>1, EnsuresKeeps, ChecksKeeps, FetchesKeeps, FetchesCompanionKeeps, ExtractsKeeps,
     MergesKeeps, PublishesTreeKeeps, PointsKeeps, SetupDiesKeeps
<1>2. CASE SweepsStale \/ Forgets \/ ChoosesCPU \/ LosesPower
  BY <1>2, SweepsStaleKeeps, ForgetsKeeps, ChoosesCPUKeeps, LosesPowerKeeps
<1>3. ASSUME NEW companion \in BOOLEAN, Release(companion) PROVE InstallInv'
  BY <1>3, ReleaseKeeps
<1>4. CASE UNCHANGED installVars
  BY <1>4, InstallStutters
<1> QED
  BY <1>1, <1>2, <1>3, <1>4 DEF InstallNext

LEMMA InstallInvSuffices == InstallInv => InstallStands
<1> SUFFICES ASSUME InstallInv PROVE InstallStands
  OBVIOUS
<1>1. Now \in Entries
  BY NowIsEntry DEF InstallInv, InstallOK
<1>2. \A t \in Trees : Now.trees[t] \in {"none", "whole"}
  BY <1>1 DEF Entries
<1>3. ASSUME NEW t \in inUse \cup ({Now.current} \ {NoTree}) PROVE Now.trees[t] = "whole"
  BY InstalledIsWhole DEF InstallInv, DiskStands
<1>4. safe => Now.current # NoTree
  BY NowIsEntry DEF InstallInv, InstallOK, DiskStands, Now
<1>5. ASSUME NEW s \in Setups
      PROVE  /\ setup[s].at \in {"fetch", "fetch companion", "extract", "merge", "publish"}
                  => s \in staged
             /\ s \in staged => setup[s] # Rest \/ s \in strays
  BY RestIsJob DEF InstallInv, JobStands, Building
<1> QED
  BY <1>2, <1>3, <1>4, <1>5 DEF InstallStands

(* Whatever fails, is cancelled, crashes or loses power while a runtime is  *)
(* set up, for any number of setups and of releases: no tree is there in    *)
(* part under its name, what is current and what may be running is whole,   *)
(* and a runtime once handed out from a record that lasts stays.            *)
THEOREM LocalInstallStands == InstallSpec => []InstallStands
<1>1. InstallSpec => []InstallInv
  BY InstallStarts, InstallInductive, PTL DEF InstallSpec
<1> QED
  BY <1>1, InstallInvSuffices, PTL
=============================================================================
