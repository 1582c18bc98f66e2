------------------------------ MODULE Journal ------------------------------
(***************************************************************************)
(* The ordered event journal of one session: internal/bus, with the HTTP   *)
(* and in-process readers that consume it (internal/serve/sse.go,          *)
(* internal/cli/stream_turn.go).                                           *)
(*                                                                         *)
(* A publisher gives every event the next sequence number, keeps it in a   *)
(* bounded window in memory, hands its frame to the writer goroutine of    *)
(* the spill file and fans it out to the live subscribers; all of that     *)
(* under the journal's mutex.  A subscriber states the last event it has   *)
(* consumed and gets, under the same mutex, a replay of what followed      *)
(* (from memory, or from the file once the writer has drained its queue)   *)
(* and a bounded channel of what comes next.  The writer never takes the   *)
(* mutex, so it can fail, lag and finish between any two other steps.      *)
(*                                                                         *)
(* An event is abstracted to its sequence number, the life of the process  *)
(* that published it, its size and whether its type makes the writer fsync.*)
(***************************************************************************)
EXTENDS Integers, Sequences, FiniteSets

CONSTANTS
    Clients,      \* the readers, each with a cursor it keeps across connections
    Kinds,        \* what may be published: [size, sync] records
    MaxEvents,    \* Options.MaxEvents
    MaxBytes,     \* Options.MaxBytes
    SubBuffer,    \* Options.SubscriberBuffer
    Spill,        \* whether Options.SpillPath is set
    MaxSpill,     \* Options.MaxSpillBytes
    QueueDepth,   \* spillQueueDepth, with the op in the writer's hands
    LatePublish,  \* whether a producer may publish after Close
    MaxSeq,       \* bound of the model: events of one journal
    Budget        \* bound of the model: how often each accident happens

Accidents == {"crash", "power", "disk", "drop", "close"}

ASSUME ClientsAssumption == IsFiniteSet(Clients)
ASSUME KindsAssumption ==
    Kinds \subseteq [size : Nat \ {0}, sync : BOOLEAN]
ASSUME LimitsAssumption ==
    /\ MaxEvents \in Nat \ {0} /\ MaxBytes \in Nat \ {0}
    /\ SubBuffer \in Nat \ {0} /\ MaxSpill \in Nat \ {0}
    /\ QueueDepth \in Nat \ {0} /\ MaxSeq \in Nat
ASSUME SwitchesAssumption == Spill \in BOOLEAN /\ LatePublish \in BOOLEAN
ASSUME BudgetAssumption == Budget \in [Accidents -> Nat]

(* Who may hold the journal's mutex, besides a client.                      *)
Free      == "free"
Publisher == "publisher"
Closer    == "closer"

ASSUME HoldersAssumption == Clients \cap {Free, Publisher, Closer} = {}

VARIABLES
    mode,        \* open, closed, down (the process is gone) or refused (New failed)
    holder,      \* who holds b.mu
    stage,       \* how far a client reading the file has come: barrier, wait, flushed
    log,         \* history: log[n] is event n of this journal; Len(log) is b.latest
    life,        \* history: how many times the process has started
    retained,    \* b.retained, the window
    spillBytes,  \* b.spillBytes, the size the file will have
    queue,       \* w.ops, whose head is the op the writer works on
    failed,      \* w.err # nil
    dirty,       \* run()'s dirty
    file,        \* the frames of the spill file, as the process reads it back
    synced,      \* how many of them a power cut cannot take
    torn,        \* whether the file holds a line that does not decode
    shadow,      \* contents a power cut may give back, the rename being undone
    sub,         \* each client's connection
    last,        \* the last event each client consumed, which is its cursor
    budget       \* accidents left

window == <<log, life, retained>>
writer == <<queue, failed, dirty>>
disk   == <<file, synced, torn, shadow>>
vars   == <<mode, holder, stage, window, spillBytes, writer, disk, sub, last, budget>>

-----------------------------------------------------------------------------
(* Events, windows and the operations handed to the writer.                 *)

Event == [seq : Nat \ {0}, life : Nat, size : 1..MaxBytes, sync : BOOLEAN]

NoEvent == [seq |-> 0, life |-> 0, size |-> 0, sync |-> FALSE]

(* One pair for every byte: the sum of the sizes, without a recursion.      *)
Bytes(s) == Cardinality({b \in (1..Len(s)) \X (1..MaxBytes) : b[2] <= s[b[1]].size})

From(s, k) == SubSeq(s, k, Len(s))

First(s, n) == IF n <= Len(s) THEN SubSeq(s, 1, n) ELSE s

Fits(s) == Len(s) <= MaxEvents /\ Bytes(s) <= MaxBytes

(* trim drops the oldest event until what is left fits: it keeps the events *)
(* from the k-th.                                                           *)
IsTrim(s, k) ==
    /\ Fits(From(s, k))
    /\ \A j \in 1..(k - 1) : ~Fits(From(s, j))

(* The events of s after sequence number n are those from the k-th.         *)
IsAfter(s, n, k) ==
    /\ \A i \in 1..(k - 1) : s[i].seq <= n
    /\ \A i \in k..Len(s) : s[i].seq > n

Cuts(s) == 1..(Len(s) + 1)

Op(kind, frames, sync) == [kind |-> kind, frames |-> frames, sync |-> sync]

Detached == [state |-> "detached", replay |-> <<>>, chan |-> <<>>]

Spend(accident) ==
    /\ budget[accident] > 0
    /\ budget' = [budget EXCEPT ![accident] = @ - 1]

(* History: the accident has not happened yet.                              *)
Unspent(accident) == budget[accident] = Budget[accident]

Running == mode \in {"open", "closed"}

(* b.spill # nil: Close sets it to nil before it waits for the writer.      *)
SpillOpen == Spill /\ mode = "open" /\ holder # Closer

Init ==
    /\ mode = "open" /\ holder = Free /\ stage = "idle"
    /\ log = <<>> /\ life = 0 /\ retained = <<>> /\ spillBytes = 0
    /\ queue = <<>> /\ failed = FALSE /\ dirty = FALSE
    /\ file = <<>> /\ synced = 0 /\ torn = FALSE /\ shadow = {}
    /\ sub = [c \in Clients |-> Detached]
    /\ last = [c \in Clients |-> NoEvent]
    /\ budget = Budget

-----------------------------------------------------------------------------
(* Publish, in two steps: it may block between them, on a full queue, with  *)
(* the mutex held.                                                          *)

Publish(k) ==
    /\ Running /\ holder = Free
    /\ mode = "closed" => LatePublish
    /\ ~(SpillOpen /\ failed)
    /\ Len(log) < MaxSeq
    /\ k.size <= MaxBytes
    /\ LET e == [seq |-> Len(log) + 1, life |-> life, size |-> k.size, sync |-> k.sync]
           grown == Append(retained, e)
       IN  /\ log' = Append(log, e)
           /\ \E n \in Cuts(grown) : IsTrim(grown, n) /\ retained' = From(grown, n)
    /\ holder' = Publisher
    /\ UNCHANGED <<mode, stage, life, spillBytes, writer, disk, sub, last, budget>>

(* The file is rebuilt from the window when it would outgrow its cap and    *)
(* the window is smaller than what it would become.                         *)
Rewrites(e) ==
    /\ spillBytes + e.size > MaxSpill
    /\ Bytes(retained) < spillBytes + e.size

Room == Len(queue) < QueueDepth

(* Mutant: the file is rebuilt from the window before the event.            *)
StaleWindow == SubSeq(retained, 1, Len(retained) - 1)

RewriteFrames == retained

enqueueSpill(e) ==
    /\ Room
    /\ IF Rewrites(e)
       THEN /\ queue' = Append(queue, Op("rewrite", RewriteFrames, e.sync))
            /\ spillBytes' = Bytes(retained)
       ELSE /\ queue' = Append(queue, Op("append", <<e>>, e.sync))
            /\ spillBytes' = spillBytes + e.size

(* Mutant: a channel without a bound.                                       *)
AlwaysBuffered(s) == TRUE

Buffered(s) == Len(s.chan) < SubBuffer

(* A live subscriber whose channel is full is dropped with the error.       *)
Offered(s, e) ==
    IF s.state # "live" THEN s
    ELSE IF Buffered(s)
         THEN [s EXCEPT !.chan = Append(@, e)]
         ELSE [s EXCEPT !.state = "slow"]

FanOut ==
    /\ holder = Publisher
    /\ LET e == log[Len(log)]
       IN  /\ IF SpillOpen THEN enqueueSpill(e) ELSE UNCHANGED <<queue, spillBytes>>
           /\ sub' = [c \in Clients |-> Offered(sub[c], e)]
    /\ holder' = Free
    /\ UNCHANGED <<mode, stage, window, failed, dirty, disk, last, budget>>

-----------------------------------------------------------------------------
(* Subscribe.  A cursor ahead of the journal is refused and nothing changes.*)

Cursor(c) == last[c].seq

InWindow(n) ==
    IF retained = <<>> THEN n = Len(log) ELSE n >= retained[1].seq - 1

Attach(c, replay) ==
    sub' = [sub EXCEPT ![c] = [state |-> "live", replay |-> replay, chan |-> <<>>]]

CanSubscribe(c) ==
    /\ Running /\ holder = Free
    /\ sub[c].state = "detached"
    /\ Cursor(c) <= Len(log)

SubscribeFromMemory(c) ==
    /\ CanSubscribe(c)
    /\ InWindow(Cursor(c))
    /\ \E k \in Cuts(retained) :
          /\ IsAfter(retained, Cursor(c), k)
          /\ Attach(c, From(retained, k))
    /\ UNCHANGED <<mode, holder, stage, window, spillBytes, writer, disk, last, budget>>

(* Without a file a cursor older than the window has expired.               *)
SubscribeExpired(c) ==
    /\ CanSubscribe(c)
    /\ ~InWindow(Cursor(c)) /\ ~Spill
    /\ sub' = [sub EXCEPT ![c].state = "expired"]
    /\ UNCHANGED <<mode, holder, stage, window, spillBytes, writer, disk, last, budget>>

FirstStage == IF SpillOpen THEN "barrier" ELSE "flushed"

(* With one, readSpillAfter waits for the writer, the mutex held.  After    *)
(* Close there is no writer and the file is read at once.                   *)
SubscribeFromDisk(c) ==
    /\ CanSubscribe(c)
    /\ ~InWindow(Cursor(c)) /\ Spill
    /\ holder' = c
    /\ stage' = FirstStage
    /\ UNCHANGED <<mode, window, spillBytes, writer, disk, sub, last, budget>>

SendBarrier(c) ==
    /\ holder = c /\ stage = "barrier"
    /\ Room
    /\ queue' = Append(queue, Op("barrier", <<>>, FALSE))
    /\ stage' = "wait"
    /\ UNCHANGED <<mode, holder, window, spillBytes, failed, dirty, disk, sub, last, budget>>

ReadFails == torn \/ (SpillOpen /\ failed)

(* Mutants: the first event on disk is taken for one too late, or never is. *)
GapAlways(n, k) == k <= Len(file) /\ file[k].seq > n

GapNever(n, k) == FALSE

Gap(n, k) == k <= Len(file) /\ file[k].seq > n + 1

(* The replay is the file's events after the cursor, if the first of them   *)
(* is the next one; an error leaves the client detached.                    *)
FinishRead(c) ==
    /\ holder = c /\ stage = "flushed"
    /\ IF ReadFails
       THEN UNCHANGED sub
       ELSE \E k \in Cuts(file) :
               /\ IsAfter(file, Cursor(c), k)
               /\ IF Gap(Cursor(c), k)
                  THEN sub' = [sub EXCEPT ![c].state = "expired"]
                  ELSE Attach(c, From(file, k))
    /\ holder' = Free
    /\ stage' = "idle"
    /\ UNCHANGED <<mode, window, spillBytes, writer, disk, last, budget>>

-----------------------------------------------------------------------------
(* The reader: the replay first, then the channel.                          *)

Attached(c) == sub[c].state \in {"live", "slow", "ended"}

(* Mutant: the channel is read without the replay.                          *)
NoReplay(c) == TRUE

ReplayRead(c) == sub[c].replay = <<>>

ConsumeReplay(c) ==
    /\ Attached(c) /\ sub[c].replay # <<>>
    /\ last' = [last EXCEPT ![c] = Head(sub[c].replay)]
    /\ sub' = [sub EXCEPT ![c].replay = Tail(@)]
    /\ UNCHANGED <<mode, holder, stage, window, spillBytes, writer, disk, budget>>

ConsumeLive(c) ==
    /\ Attached(c) /\ ReplayRead(c) /\ sub[c].chan # <<>>
    /\ last' = [last EXCEPT ![c] = Head(sub[c].chan)]
    /\ sub' = [sub EXCEPT ![c].chan = Tail(@)]
    /\ UNCHANGED <<mode, holder, stage, window, spillBytes, writer, disk, budget>>

(* Mutant: a slow reader is never told that its channel was closed.         *)
NotSlow == {"ended"}

ChannelClosed == {"slow", "ended"}

(* A drained channel that was closed ends the connection; the client may    *)
(* come back with the cursor it has reached.                                *)
SeeClosed(c) ==
    /\ sub[c].state \in ChannelClosed
    /\ sub[c].replay = <<>> /\ sub[c].chan = <<>>
    /\ holder = Free
    /\ sub' = [sub EXCEPT ![c] = Detached]
    /\ UNCHANGED <<mode, holder, stage, window, spillBytes, writer, disk, last, budget>>

(* The connection breaks: the handler's deferred Close takes the mutex.     *)
Disconnect(c) ==
    /\ Spend("drop")
    /\ Attached(c) /\ holder = Free
    /\ sub' = [sub EXCEPT ![c] = Detached]
    /\ UNCHANGED <<mode, holder, stage, window, spillBytes, writer, disk, last>>

(* What the 410 answer tells a client to do: come back without a cursor.    *)
StartOver(c) ==
    /\ sub[c].state = "expired" /\ last[c] # NoEvent
    /\ last' = [last EXCEPT ![c] = NoEvent]
    /\ sub' = [sub EXCEPT ![c] = Detached]
    /\ UNCHANGED <<mode, holder, stage, window, spillBytes, writer, disk, budget>>

-----------------------------------------------------------------------------
(* The writer goroutine.  It never takes the mutex.  An op that asks for a  *)
(* sync leaves one behind it; a sync with nothing dirty does nothing.       *)

WriterHas(kind) == queue # <<>> /\ Head(queue).kind = kind

Rest == IF Head(queue).sync
        THEN <<Op("sync", <<>>, FALSE)>> \o Tail(queue)
        ELSE Tail(queue)

untouched == <<mode, holder, window, spillBytes, sub, last>>

WriteFrame ==
    /\ WriterHas("append")
    /\ file' = file \o Head(queue).frames
    /\ dirty' = TRUE
    /\ queue' = Rest
    /\ UNCHANGED <<untouched, stage, failed, synced, torn, shadow, budget>>

(* A failing write leaves nothing of the frame, or a part of its line.      *)
FailFrame ==
    /\ WriterHas("append") /\ Spend("disk")
    /\ failed' = TRUE
    /\ torn' \in {torn, TRUE}
    /\ queue' = Rest
    /\ UNCHANGED <<untouched, stage, dirty, file, synced, shadow>>

(* rewriteFrom fsyncs the new file and renames it over the old one, whose   *)
(* directory entry it does not fsync.                                       *)
Rewrite ==
    /\ WriterHas("rewrite")
    /\ file' = Head(queue).frames
    /\ synced' = Len(file')
    /\ torn' = FALSE
    /\ shadow' = IF shadow = {} THEN {SubSeq(file, 1, synced)} ELSE shadow
    /\ dirty' = FALSE
    /\ queue' = Tail(queue)
    /\ UNCHANGED <<untouched, stage, failed, budget>>

FailRewrite ==
    /\ WriterHas("rewrite") /\ Spend("disk")
    /\ failed' = TRUE
    /\ queue' = Rest
    /\ UNCHANGED <<untouched, stage, dirty, disk>>

(* Mutant: nothing reaches the platter.                                     *)
NotFlushed == synced

Flushed == IF dirty THEN Len(file) ELSE synced

Sync ==
    /\ WriterHas("sync")
    /\ synced' = Flushed
    /\ dirty' = FALSE
    /\ queue' = Tail(queue)
    /\ UNCHANGED <<untouched, stage, failed, file, torn, shadow, budget>>

FailSync ==
    /\ WriterHas("sync") /\ dirty /\ Spend("disk")
    /\ failed' = TRUE
    /\ dirty' = FALSE
    /\ queue' = Tail(queue)
    /\ UNCHANGED <<untouched, stage, disk>>

Done == "flushed"

ReachBarrier ==
    /\ WriterHas("barrier")
    /\ queue' = Tail(queue)
    /\ stage' = Done
    /\ UNCHANGED <<untouched, failed, dirty, disk, budget>>

Writer ==
    \/ WriteFrame \/ FailFrame
    \/ Rewrite \/ FailRewrite
    \/ Sync \/ FailSync
    \/ ReachBarrier

-----------------------------------------------------------------------------
(* Close ends the subscriptions, and waits with the mutex held until the    *)
(* writer has drained its queue and flushed the file.                       *)

Ended(s) == IF s.state = "live" THEN [s EXCEPT !.state = "ended"] ELSE s

Close ==
    /\ Spend("close")
    /\ Running /\ holder = Free
    /\ sub' = [c \in Clients |-> Ended(sub[c])]
    /\ IF SpillOpen
       THEN holder' = Closer /\ UNCHANGED mode
       ELSE mode' = "closed" /\ UNCHANGED holder
    /\ UNCHANGED <<stage, window, spillBytes, writer, disk, last>>

WriterExit ==
    /\ holder = Closer /\ queue = <<>>
    /\ synced' = Flushed
    /\ dirty' = FALSE
    /\ mode' = "closed"
    /\ holder' = Free
    /\ UNCHANGED <<stage, window, spillBytes, queue, failed, file, torn, shadow, sub, last, budget>>

FailExit ==
    /\ holder = Closer /\ queue = <<>> /\ Spend("disk")
    /\ failed' = TRUE
    /\ dirty' = FALSE
    /\ mode' = "closed"
    /\ holder' = Free
    /\ UNCHANGED <<stage, window, spillBytes, queue, disk, sub, last>>

-----------------------------------------------------------------------------
(* The end of the process, and New on what it left.  A client keeps its     *)
(* cursor and loses its connection.                                         *)

Gone ==
    /\ mode' = "down" /\ holder' = Free /\ stage' = "idle"
    /\ queue' = <<>> /\ dirty' = FALSE
    /\ retained' = <<>> /\ spillBytes' = 0
    /\ sub' = [c \in Clients |-> Detached]
    /\ UNCHANGED <<log, life, failed, last>>

Crash ==
    /\ Running /\ Spend("crash")
    /\ Gone
    /\ UNCHANGED disk

(* A power cut keeps the synced frames, and any part of what follows them,  *)
(* down to a part of a line; or it undoes the last renames.                 *)
PowerCut ==
    /\ Running /\ Spend("power")
    /\ Gone
    /\ \/ \E n \in synced..Len(file) :
             /\ file' = SubSeq(file, 1, n)
             /\ synced' = n
             /\ torn' \in {torn, torn \/ n < Len(file)}
       \/ \E before \in shadow :
             /\ file' = before
             /\ synced' = Len(before)
             /\ torn' = FALSE
    /\ shadow' = {}

(* Mutant: the sequence resumes after the number of events in the file.     *)
RecoveredCount == Len(file)

Recovered == IF file = <<>> THEN 0 ELSE file[Len(file)].seq

FileSize == Bytes(file)

Reopen ==
    /\ mode = "down"
    /\ ~torn
    /\ mode' = "open"
    /\ life' = life + 1
    /\ log' = First(log, Recovered)
    /\ \E n \in Cuts(file) : IsTrim(file, n) /\ retained' = From(file, n)
    /\ spillBytes' = FileSize
    /\ failed' = FALSE
    /\ UNCHANGED <<holder, stage, queue, dirty, disk, sub, last, budget>>

(* New fails on a line that does not decode, and the session goes on        *)
(* without a journal.                                                       *)
Refuse ==
    /\ mode = "down"
    /\ torn
    /\ mode' = "refused"
    /\ UNCHANGED <<holder, stage, window, spillBytes, writer, disk, sub, last, budget>>

-----------------------------------------------------------------------------
Subscriber(c) ==
    \/ SubscribeFromMemory(c) \/ SubscribeExpired(c) \/ SubscribeFromDisk(c)
    \/ SendBarrier(c) \/ FinishRead(c)
    \/ ConsumeReplay(c) \/ ConsumeLive(c) \/ SeeClosed(c) \/ StartOver(c)

(* Nobody is inside the journal: it may stay that way.                      *)
Idle == holder = Free /\ queue = <<>> /\ UNCHANGED vars

Next ==
    \/ \E k \in Kinds : Publish(k)
    \/ FanOut
    \/ \E c \in Clients : Subscriber(c) \/ Disconnect(c)
    \/ Writer
    \/ Close \/ WriterExit \/ FailExit
    \/ Crash \/ PowerCut \/ Reopen \/ Refuse
    \/ Idle

Spec == Init /\ [][Next]_vars

(* The writer runs while its queue is not empty, a goroutine inside the     *)
(* journal goes on when it can, and a reader reconnects and reads on.       *)
(* Nobody has to publish, close, or fail.                                   *)
Fairness ==
    /\ WF_vars(Writer)
    /\ WF_vars(FanOut)
    /\ WF_vars(WriterExit \/ FailExit)
    /\ WF_vars(Reopen \/ Refuse)
    /\ \A c \in Clients : WF_vars(Subscriber(c))

FairSpec == Spec /\ Fairness

-----------------------------------------------------------------------------
(* Properties.                                                              *)

Ops ==
    [kind   : {"append", "rewrite", "sync", "barrier"},
     frames : Seq(Event),
     sync   : BOOLEAN]

Connections ==
    [state  : {"detached", "live", "slow", "ended", "expired"},
     replay : Seq(Event),
     chan   : Seq(Event)]

(* The type invariant: every variable keeps the shape its comment gives.    *)
TypeOK ==
    /\ mode \in {"open", "closed", "down", "refused"}
    /\ holder \in {Free, Publisher, Closer} \cup Clients
    /\ stage \in {"idle", "barrier", "wait", "flushed"}
    /\ log \in Seq(Event) /\ life \in Nat
    /\ retained \in Seq(Event) /\ spillBytes \in Nat
    /\ queue \in Seq(Ops) /\ Len(queue) <= QueueDepth
    /\ failed \in BOOLEAN /\ dirty \in BOOLEAN
    /\ file \in Seq(Event) /\ synced \in 0..Len(file)
    /\ torn \in BOOLEAN /\ shadow \subseteq Seq(Event)
    /\ sub \in [Clients -> Connections]
    /\ \A c \in Clients : Len(sub[c].chan) <= SubBuffer
    /\ last \in [Clients -> Event \cup {NoEvent}]
    /\ budget \in [Accidents -> Nat]

(* Publish has given the last event its number and not fanned it out yet.   *)
FannedOut == IF holder = Publisher THEN Len(log) - 1 ELSE Len(log)

(* A subscription holds exactly what its reader is owed: the events that    *)
(* follow its cursor, in order, each once, none missing between the replay  *)
(* and the live channel, and, while it is live, up to the last event fanned *)
(* out ("Replay and live envelopes never overlap"; "nothing is missed and   *)
(* nothing arrives twice"), until a write fails: its frame is a hole in the *)
(* file that the next process takes for the journal.                        *)
Owed(c) ==
    LET got == sub[c].replay \o sub[c].chan
    IN  /\ Cursor(c) + Len(got) <= FannedOut
        /\ sub[c].state = "live" => Cursor(c) + Len(got) = FannedOut
        /\ \A i \in 1..Len(got) : got[i] = log[Cursor(c) + i]

OwedInFull == Unspent("disk") => \A c \in Clients : Attached(c) => Owed(c)

(* The window is the newest part of the journal, whole: no trim, no replay  *)
(* of the file into it and no restart leaves a hole in it or loses its end, *)
(* until a write has left one in the file.                                  *)
IsSuffix(s, t) == Len(s) <= Len(t) /\ s = From(t, Len(t) - Len(s) + 1)

WindowIsSuffix == Unspent("disk") /\ Running => IsSuffix(retained, log)

(* Whenever the writer has caught up the file is the newest part of the     *)
(* journal and covers the window, whatever rewrites and appends made it, so *)
(* that a replay promised by one can be served from the other.              *)
FileCoversWindow ==
    SpillOpen /\ ~failed /\ queue = <<>> /\ holder # Publisher =>
        IsSuffix(file, log) /\ Len(file) >= Len(retained)

(* A reader is told its cursor expired only when the event it needs is      *)
(* neither in the window nor in the file.                                   *)
ExpiredHonestly ==
    [][\A c \in Clients :
          sub'[c].state = "expired" /\ sub[c].state # "expired" =>
             /\ \A i \in 1..Len(retained) : retained[i].seq # Cursor(c) + 1
             /\ \A i \in 1..Len(file) : file[i].seq # Cursor(c) + 1]_vars

(* SyncOnTurnBoundary: a frame this process wrote and whose type makes the  *)
(* writer flush is beyond the reach of a power cut before the writer takes  *)
(* the next op.                                                             *)
BoundarySynced ==
    mode = "open" /\ ~failed =>
        \A i \in (synced + 1)..Len(file) :
            file[i].sync /\ file[i].life = life =>
                i = Len(file) /\ WriterHas("sync") /\ dirty

(* The file stands: it covers the window when the writer has caught up, and *)
(* what a flush has been asked for is out of a power cut's reach, until a   *)
(* write fails.                                                             *)
FileStands == Unspent("disk") => FileCoversWindow /\ BoundarySynced

(* "Whatever the policy, the journal is on the platter when Close returns": *)
(* every event ever published is in the file's reach and all of it synced.  *)
CloseDrains ==
    Spill /\ mode = "closed" /\ ~failed =>
        synced = Len(file) /\ IsSuffix(file, log) /\ (log # <<>> => file # <<>>)

(* Every reader ends up with everything that was published (one that read   *)
(* what a crash then took is ahead, and is refused as that), or has been    *)
(* told that it cannot, or there is no journal any more, or a write failed. *)
CaughtUp ==
    \A c \in Clients :
        <>[](\/ Running /\ Cursor(c) >= Len(log)
             \/ sub[c].state = "expired"
             \/ mode = "refused"
             \/ ~Unspent("disk"))

-----------------------------------------------------------------------------
(* What the journal promises, with the history variable as the abstract log *)
(* and the readers' cursors as the abstract readers, until a write fails.   *)
EventLog == INSTANCE EventLog WITH Readers <- Clients, Nothing <- NoEvent,
                                   held <- Unspent("disk")

Promise == EventLog!Spec
=============================================================================
