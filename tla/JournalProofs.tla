--------------------------- MODULE JournalProofs ---------------------------
(***************************************************************************)
(* Proofs about Journal, for every value of its constants: its type        *)
(* invariant, that a reader is never served a hole, that the window and the*)
(* file are the newest part of the journal, what a flush and Close leave on*)
(* the disk, and that the journal implements EventLog; and of MCKept, whose*)
(* journal is kept in a file or in memory.                                 *)
(*                                                                         *)
(* The argument.  The file, the window and every window handed to the      *)
(* writer are blocks of the log: consecutive events of it.  The writer's   *)
(* queue carries the log on from where the file ends, one event an op, so  *)
(* that a reader who has waited for its barrier, with the mutex held, finds*)
(* a file that ends where the log ends.  A replay, from memory or from the *)
(* file, then runs from the reader's cursor to the end of the log, and the *)
(* fan-out continues it.  A restart cuts the log where the file ends.      *)
(***************************************************************************)
EXTENDS MCKept, TLAPS, SequenceTheorems, FiniteSetTheorems

-----------------------------------------------------------------------------
(* The bytes of a sequence of events are a number.                          *)
LEMMA BytesNat == \A s \in Seq(Event) : Bytes(s) \in Nat
<1> TAKE s \in Seq(Event)
<1>1. IsFiniteSet(1..Len(s)) /\ IsFiniteSet(1..MaxBytes)
  BY FS_Interval, LimitsAssumption
<1>2. IsFiniteSet((1..Len(s)) \X (1..MaxBytes))
  BY <1>1, FS_Product
<1>3. IsFiniteSet({b \in (1..Len(s)) \X (1..MaxBytes) : b[2] <= s[b[1]].size})
  BY <1>2, FS_Subset
<1> QED
  BY <1>3, FS_CardinalityType DEF Bytes

(* The events of a sequence from one of its cuts on, and its first events.  *)
LEMMA FromProperties ==
    ASSUME NEW S, NEW s \in Seq(S), NEW k \in Cuts(s)
    PROVE  /\ From(s, k) \in Seq(S)
           /\ Len(From(s, k)) = Len(s) - k + 1
           /\ \A i \in 1..Len(From(s, k)) : From(s, k)[i] = s[k + i - 1]
<1>1. k \in Int /\ Len(s) \in Int /\ \A i \in k..Len(s) : s[i] \in S
  BY DEF Cuts
<1> QED
  BY <1>1, SubSeqProperties DEF From, Cuts

LEMMA FirstProperties ==
    ASSUME NEW S, NEW s \in Seq(S), NEW n \in Nat
    PROVE  /\ First(s, n) \in Seq(S)
           /\ n <= Len(s) => Len(First(s, n)) = n
           /\ \A i \in 1..Len(First(s, n)) : First(s, n)[i] = s[i]
<1>1. CASE n <= Len(s)
  <2>1. \A i \in 1..n : s[i] \in S
    BY <1>1
  <2> QED
    BY <1>1, <2>1, SubSeqProperties DEF First
<1>2. CASE ~(n <= Len(s))
  BY <1>2 DEF First
<1> QED
  BY <1>1, <1>2

LEMMA RecoveredNat == file \in Seq(Event) => Recovered \in Nat
<1> SUFFICES ASSUME file \in Seq(Event) PROVE Recovered \in Nat
  OBVIOUS
<1>1. CASE file = <<>>
  BY <1>1 DEF Recovered
<1>2. CASE file # <<>>
  <2>1. file[Len(file)] \in Event
    BY <1>2, EmptySeq, ElementOfSeq
  <2> QED
    BY <1>2, <2>1 DEF Recovered, Event
<1> QED
  BY <1>1, <1>2

(* What is left of the queue once its head has been written.                *)
LEMMA RestProperties ==
    ASSUME queue \in Seq(Ops), queue # <<>>
    PROVE  /\ Rest \in Seq(Ops)
           /\ Len(Rest) <= Len(queue)
           /\ Tail(queue) \in Seq(Ops)
           /\ Len(Tail(queue)) = Len(queue) - 1
           /\ Head(queue) \in Ops
<1>1. /\ Tail(queue) \in Seq(Ops)
      /\ Len(Tail(queue)) = Len(queue) - 1
      /\ Head(queue) \in Ops
  BY HeadTailProperties
<1> DEFINE sync == <<Op("sync", <<>>, FALSE)>>
<1>2. sync \in Seq(Ops) /\ Len(sync) = 1
  BY DEF Op, Ops
<1> HIDE DEF sync
<1>3. /\ sync \o Tail(queue) \in Seq(Ops)
      /\ Len(sync \o Tail(queue)) = Len(sync) + Len(Tail(queue))
  BY <1>1, <1>2, ConcatProperties
<1>4. Len(queue) \in Nat
  BY LenProperties
<1>5. CASE Head(queue).sync
  <2>1. Rest = sync \o Tail(queue)
    BY <1>5 DEF Rest, sync
  <2>2. Len(Rest) = Len(queue)
    BY <2>1, <1>1, <1>2, <1>3, <1>4
  <2> QED
    BY <2>1, <2>2, <1>1, <1>3, <1>4
<1>6. CASE ~Head(queue).sync
  <2>1. Rest = Tail(queue)
    BY <1>6 DEF Rest
  <2> QED
    BY <2>1, <1>1, <1>4
<1> QED
  BY <1>5, <1>6

-----------------------------------------------------------------------------
(* FanOut reads the last event of the log, so the type invariant needs      *)
(* that a publisher holding the mutex has put one there.                    *)
TypeInv ==
    /\ TypeOK
    /\ holder = Publisher => log # <<>>
    /\ mode = "down" => holder = Free

LEMMA TypeInit == Init => TypeInv
<1> SUFFICES ASSUME Init PROVE TypeInv
  OBVIOUS
<1>1. Detached \in Connections
  BY DEF Detached, Connections
<1>2. \A c \in Clients : Len(sub[c].chan) <= SubBuffer
  BY LimitsAssumption DEF Init, Detached
<1>3. /\ sub \in [Clients -> Connections]
      /\ last \in [Clients -> Event \cup {NoEvent}]
      /\ budget \in [Accidents -> Nat]
  BY <1>1, BudgetAssumption DEF Init
<1>4. /\ log \in Seq(Event) /\ retained \in Seq(Event) /\ file \in Seq(Event)
      /\ queue \in Seq(Ops) /\ Len(queue) <= QueueDepth
      /\ synced \in 0..Len(file) /\ shadow \subseteq Seq(Event)
  BY LimitsAssumption, EmptySeq DEF Init
<1>5. holder # Publisher
  BY DEF Init, Free, Publisher
<1> QED
  BY <1>2, <1>3, <1>4, <1>5 DEF Init, TypeInv, TypeOK

(* Each action keeps it.                                                    *)
LEMMA TypePublish == ASSUME TypeInv, NEW k \in Kinds, Publish(k) PROVE TypeInv'
<1> DEFINE e == [seq |-> Len(log) + 1, life |-> life, size |-> k.size, sync |-> k.sync]
<1>1. e \in Event
  <2>1. k.size \in Nat \ {0} /\ k.sync \in BOOLEAN /\ k.size <= MaxBytes
    BY KindsAssumption DEF Publish
  <2>2. k.size \in 1..MaxBytes
    BY <2>1, LimitsAssumption
  <2>3. Len(log) \in Nat /\ life \in Nat
    BY LenProperties DEF TypeInv, TypeOK
  <2> QED
    BY <2>1, <2>2, <2>3 DEF Event
<1> DEFINE grown == Append(retained, e)
<1>2. /\ log' = Append(log, e)
      /\ \E n \in Cuts(grown) : retained' = From(grown, n)
  BY DEF Publish
<1> HIDE DEF e
<1>3. log' \in Seq(Event) /\ log' # <<>> /\ grown \in Seq(Event)
  BY <1>1, <1>2, AppendProperties DEF TypeInv, TypeOK
<1> HIDE DEF grown
<1>4. retained' \in Seq(Event)
  BY <1>2, <1>3, FromProperties
<1>5. /\ holder' = Publisher /\ mode # "down"
      /\ UNCHANGED <<mode, stage, life, spillBytes, writer, disk, sub, last, budget>>
  BY DEF Publish, Running
<1> QED
  BY <1>3, <1>4, <1>5 DEF TypeInv, TypeOK, writer, disk

LEMMA TypeFanOut == ASSUME TypeInv, FanOut PROVE TypeInv'
<1> DEFINE e == log[Len(log)]
<1>1. e \in Event
  BY EmptySeq, ElementOfSeq DEF TypeInv, TypeOK, FanOut
<1> HIDE DEF e
<1>2. queue' \in Seq(Ops) /\ Len(queue') <= QueueDepth /\ spillBytes' \in Nat
  <2>1. CASE enqueueSpill(e)
    <3>1. <<e>> \in Seq(Event) /\ retained \in Seq(Event) /\ e.sync \in BOOLEAN
      BY <1>1 DEF Event, TypeInv, TypeOK
    <3>2. /\ Op("rewrite", retained, e.sync) \in Ops
          /\ Op("append", <<e>>, e.sync) \in Ops
      BY <3>1 DEF Op, Ops
    <3>3. Bytes(retained) \in Nat /\ spillBytes + e.size \in Nat
      <4>1. e.size \in 1..MaxBytes
        BY <1>1 DEF Event
      <4>2. e.size \in Nat
        BY <4>1, LimitsAssumption
      <4>3. spillBytes \in Nat /\ retained \in Seq(Event)
        BY DEF TypeInv, TypeOK
      <4> QED
        BY <4>2, <4>3, BytesNat
    <3>4. queue \in Seq(Ops) /\ Len(queue) < QueueDepth /\ QueueDepth \in Nat
      BY <2>1, LimitsAssumption DEF enqueueSpill, Room, TypeInv, TypeOK
    <3>5. \/ queue' = Append(queue, Op("rewrite", retained, e.sync))
          \/ queue' = Append(queue, Op("append", <<e>>, e.sync))
      BY <2>1 DEF enqueueSpill, RewriteFrames
    <3>6. queue' \in Seq(Ops) /\ Len(queue') = Len(queue) + 1
      BY <3>2, <3>4, <3>5, AppendProperties
    <3>7. spillBytes' \in Nat
      BY <2>1, <3>3 DEF enqueueSpill
    <3> QED
      BY <3>4, <3>6, <3>7
  <2>2. CASE UNCHANGED <<queue, spillBytes>>
    BY <2>2 DEF TypeInv, TypeOK
  <2> QED
    BY <2>1, <2>2 DEF FanOut, e
<1>3. \A c \in Clients : sub'[c] = Offered(sub[c], e)
  BY DEF FanOut, e
<1>4. /\ sub' \in [Clients -> Connections]
      /\ \A c \in Clients : Len(sub'[c].chan) <= SubBuffer
  <2>1. ASSUME NEW c \in Clients
        PROVE  /\ Offered(sub[c], e) \in
                    Connections
               /\ Len(Offered(sub[c], e).chan) <= SubBuffer
    <3>1. sub[c].chan \in Seq(Event) /\ Len(sub[c].chan) <= SubBuffer
      BY DEF TypeInv, TypeOK, Connections
    <3>2. /\ Append(sub[c].chan, e) \in Seq(Event)
          /\ Len(Append(sub[c].chan, e)) = Len(sub[c].chan) + 1
      BY <3>1, <1>1, AppendProperties
    <3>3. sub[c] \in Connections
      BY DEF TypeInv, TypeOK
    <3>4. CASE sub[c].state # "live"
      BY <3>1, <3>3, <3>4 DEF Offered, Buffered, Connections
    <3>5. CASE sub[c].state = "live" /\ Len(sub[c].chan) < SubBuffer
      <4>1. Offered(sub[c], e) = [sub[c] EXCEPT !.chan = Append(sub[c].chan, e)]
        BY <3>5 DEF Offered, Buffered, Connections
      <4>2. Offered(sub[c], e).chan = Append(sub[c].chan, e)
        BY <4>1, <3>3 DEF Connections
      <4>3. Len(sub[c].chan) \in Nat /\ SubBuffer \in Nat
        BY <3>1, LimitsAssumption
      <4>4. Len(Offered(sub[c], e).chan) <= SubBuffer
        BY <4>2, <4>3, <3>2, <3>5
      <4> QED
        BY <4>1, <4>4, <3>2, <3>3 DEF Connections
    <3>6. CASE sub[c].state = "live" /\ ~(Len(sub[c].chan) < SubBuffer)
      BY <3>1, <3>3, <3>6 DEF Offered, Buffered, Connections
    <3> QED
      BY <3>4, <3>5, <3>6
  <2>2. sub' = [c \in Clients |-> Offered(sub[c], e)]
    BY DEF FanOut, e
  <2> QED
    BY <2>1, <2>2
<1>5. /\ holder' = Free
      /\ UNCHANGED <<mode, stage, window, failed, dirty, disk, last, budget>>
  BY DEF FanOut
<1>6. holder' # Publisher
  BY <1>5 DEF Free, Publisher
<1> QED
  BY <1>2, <1>4, <1>5, <1>6 DEF TypeInv, TypeOK, window, disk

(* Actions that change only a connection, a cursor or the mutex.            *)
LEMMA TypeAttach ==
    ASSUME TypeInv, NEW c \in Clients, NEW replay \in Seq(Event), Attach(c, replay)
    PROVE  /\ sub' \in [Clients -> Connections]
           /\ \A d \in Clients : Len(sub'[d].chan) <= SubBuffer
<1>1. [state |-> "live", replay |-> replay, chan |-> <<>>] \in Connections
  BY DEF Connections
<1> QED
  BY <1>1, LimitsAssumption DEF Attach, TypeInv, TypeOK

LEMMA TypeState ==
    ASSUME TypeInv, NEW c \in Clients,
           \/ sub' = [sub EXCEPT ![c].state = "expired"]
           \/ sub' = [sub EXCEPT ![c] = Detached]
    PROVE  /\ sub' \in [Clients -> Connections]
           /\ \A d \in Clients : Len(sub'[d].chan) <= SubBuffer
<1>1. Detached \in Connections /\ Len(Detached.chan) <= SubBuffer
  BY LimitsAssumption DEF Detached, Connections
<1>2. sub \in [Clients -> Connections]
  BY DEF TypeInv, TypeOK
<1>3. CASE sub' = [sub EXCEPT ![c].state = "expired"]
  <2>1. sub' \in [Clients -> Connections]
    BY <1>2, <1>3 DEF Connections
  <2>2. \A d \in Clients : sub'[d].chan = sub[d].chan
    BY <1>2, <1>3 DEF Connections
  <2> QED
    BY <2>1, <2>2 DEF TypeInv, TypeOK
<1>4. CASE sub' = [sub EXCEPT ![c] = Detached]
  BY <1>1, <1>2, <1>4 DEF TypeInv, TypeOK
<1> QED
  BY <1>3, <1>4

LEMMA TypeSubscriber ==
    ASSUME TypeInv, NEW c \in Clients, Subscriber(c) \/ Disconnect(c)
    PROVE  TypeInv'
<1> USE DEF TypeInv, TypeOK, window, writer, disk
<1>0. c \notin {Free, Publisher, Closer}
  BY HoldersAssumption
<1>1. CASE SubscribeFromMemory(c)
  <2>1. /\ \E k \in Cuts(retained) : Attach(c, From(retained, k))
        /\ UNCHANGED <<mode, holder, stage, window, spillBytes, writer, disk, last, budget>>
    BY <1>1 DEF SubscribeFromMemory
  <2>2. \A k \in Cuts(retained) : From(retained, k) \in Seq(Event)
    BY FromProperties
  <2>3. /\ sub' \in [Clients -> Connections]
        /\ \A d \in Clients : Len(sub'[d].chan) <= SubBuffer
    BY <2>1, <2>2, TypeAttach
  <2> QED
    BY <2>1, <2>3
<1>2. CASE SubscribeExpired(c)
  <2>1. /\ sub' \in [Clients -> Connections]
        /\ \A d \in Clients : Len(sub'[d].chan) <= SubBuffer
    BY <1>2, TypeState DEF SubscribeExpired
  <2> QED
    BY <1>2, <2>1 DEF SubscribeExpired
<1>3. CASE SubscribeFromDisk(c)
  BY <1>0, <1>3 DEF SubscribeFromDisk, FirstStage, CanSubscribe, Running
<1>4. CASE SendBarrier(c)
  <2>1. Op("barrier", <<>>, FALSE) \in Ops
    BY DEF Op, Ops
  <2>2. queue' \in Seq(Ops) /\ Len(queue') = Len(queue) + 1
    BY <1>4, <2>1, AppendProperties DEF SendBarrier
  <2>3. Len(queue') <= QueueDepth
    BY <1>4, <2>2, LimitsAssumption, LenProperties DEF SendBarrier, Room
  <2> QED
    BY <1>4, <2>2, <2>3 DEF SendBarrier
<1>5. CASE FinishRead(c)
  <2>1. \/ UNCHANGED sub
        \/ sub' = [sub EXCEPT ![c].state = "expired"]
        \/ \E k \in Cuts(file) : Attach(c, From(file, k))
    BY <1>5 DEF FinishRead
  <2>2. \A k \in Cuts(file) : From(file, k) \in Seq(Event)
    BY FromProperties
  <2>3. /\ sub' \in [Clients -> Connections]
        /\ \A d \in Clients : Len(sub'[d].chan) <= SubBuffer
    <3>1. CASE UNCHANGED sub
      BY <3>1
    <3>2. CASE sub' = [sub EXCEPT ![c].state = "expired"]
      BY <3>2, TypeState
    <3>3. CASE \E k \in Cuts(file) : Attach(c, From(file, k))
      BY <3>3, <2>2, TypeAttach
    <3> QED
      BY <2>1, <3>1, <3>2, <3>3
  <2>4. holder' = Free /\ holder' # Publisher /\ stage' = "idle"
    BY <1>5 DEF FinishRead, Free, Publisher
  <2> QED
    BY <1>5, <2>3, <2>4 DEF FinishRead
<1>6. CASE ConsumeReplay(c)
  <2> DEFINE s == sub[c]
  <2>1. /\ s.replay \in Seq(Event) /\ s.replay # <<>> /\ s \in Connections
    BY <1>6 DEF ConsumeReplay, Connections
  <2>2. Head(s.replay) \in Event /\ Tail(s.replay) \in Seq(Event)
    BY <2>1, HeadTailProperties
  <2>3. sub' = [sub EXCEPT ![c] = [s EXCEPT !.replay = Tail(s.replay)]]
    BY <1>6 DEF ConsumeReplay
  <2>4. /\ [s EXCEPT !.replay = Tail(s.replay)] \in Connections
        /\ [s EXCEPT !.replay = Tail(s.replay)].chan = s.chan
    BY <2>1, <2>2 DEF Connections
  <2>5. last' \in [Clients -> Event \cup {NoEvent}]
    BY <1>6, <2>2 DEF ConsumeReplay
  <2> QED
    BY <1>6, <2>3, <2>4, <2>5 DEF ConsumeReplay
<1>7. CASE ConsumeLive(c)
  <2> DEFINE s == sub[c]
  <2>1. /\ s.chan \in Seq(Event) /\ s.chan # <<>> /\ s \in Connections
    BY <1>7 DEF ConsumeLive, Connections
  <2>2. /\ Head(s.chan) \in Event /\ Tail(s.chan) \in Seq(Event)
        /\ Len(Tail(s.chan)) = Len(s.chan) - 1
    BY <2>1, HeadTailProperties
  <2>3. sub' = [sub EXCEPT ![c] = [s EXCEPT !.chan = Tail(s.chan)]]
    BY <1>7 DEF ConsumeLive
  <2>4. /\ [s EXCEPT !.chan = Tail(s.chan)] \in Connections
        /\ [s EXCEPT !.chan = Tail(s.chan)].chan = Tail(s.chan)
    BY <2>1, <2>2 DEF Connections
  <2>5. last' \in [Clients -> Event \cup {NoEvent}]
    BY <1>7, <2>2 DEF ConsumeLive
  <2>6. Len(Tail(s.chan)) <= SubBuffer
    BY <2>1, <2>2, LimitsAssumption, LenProperties
  <2> QED
    BY <1>7, <2>3, <2>4, <2>5, <2>6 DEF ConsumeLive
<1>8. CASE SeeClosed(c) \/ Disconnect(c)
  <2>1. /\ sub' \in [Clients -> Connections]
        /\ \A d \in Clients : Len(sub'[d].chan) <= SubBuffer
    BY <1>8, TypeState DEF SeeClosed, Disconnect
  <2>2. budget' \in [Accidents -> Nat]
    BY <1>8 DEF SeeClosed, Disconnect, Spend, Accidents
  <2> QED
    BY <1>8, <2>1, <2>2 DEF SeeClosed, Disconnect
<1>9. CASE StartOver(c)
  <2>1. /\ sub' \in [Clients -> Connections]
        /\ \A d \in Clients : Len(sub'[d].chan) <= SubBuffer
    BY <1>9, TypeState DEF StartOver
  <2>2. last' \in [Clients -> Event \cup {NoEvent}]
    BY <1>9 DEF StartOver
  <2> QED
    BY <1>9, <2>1, <2>2 DEF StartOver
<1> QED
  BY <1>1, <1>2, <1>3, <1>4, <1>5, <1>6, <1>7, <1>8, <1>9 DEF Subscriber

LEMMA TypeWriter == ASSUME TypeInv, Writer PROVE TypeInv'
<1> USE DEF TypeInv, TypeOK, window, disk, untouched
<1>1. queue \in Seq(Ops) /\ queue # <<>>
  BY DEF Writer, WriteFrame, FailFrame, Rewrite, FailRewrite, Sync, FailSync,
         ReachBarrier, WriterHas
<1>2. /\ Rest \in Seq(Ops) /\ Len(Rest) <= Len(queue)
      /\ Tail(queue) \in Seq(Ops) /\ Len(Tail(queue)) = Len(queue) - 1
      /\ Head(queue) \in Ops
  BY <1>1, RestProperties
<1>3. Head(queue).frames \in Seq(Event)
  BY <1>2 DEF Ops
<1>4. /\ Len(Rest) <= QueueDepth
      /\ Len(Tail(queue)) <= QueueDepth
  BY <1>1, <1>2, LimitsAssumption, LenProperties
<1>5. Len(file) \in Nat
  BY LenProperties
<1>6. CASE WriteFrame
  <2>1. /\ file' \in Seq(Event)
        /\ Len(file') = Len(file) + Len(Head(queue).frames)
    BY <1>3, <1>6, ConcatProperties DEF WriteFrame
  <2>2. Len(Head(queue).frames) \in Nat
    BY <1>3, LenProperties
  <2>3. synced' \in 0..Len(file')
    BY <1>5, <1>6, <2>1, <2>2 DEF WriteFrame
  <2> QED
    BY <1>2, <1>4, <1>6, <2>1, <2>3 DEF WriteFrame
<1>7. CASE FailFrame
  <2>1. budget' \in [Accidents -> Nat]
    BY <1>7 DEF FailFrame, Spend, Accidents
  <2> QED
    BY <1>2, <1>4, <1>7, <2>1 DEF FailFrame
<1>8. CASE Rewrite
  <2>1. /\ file' \in Seq(Event) /\ synced' = Len(file')
    BY <1>3, <1>8 DEF Rewrite
  <2>2. synced' \in 0..Len(file')
    BY <2>1, LenProperties
  <2>3. SubSeq(file, 1, synced) \in Seq(Event)
    BY <1>5, SubSeqProperties
  <2>4. shadow' \subseteq Seq(Event)
    BY <1>8, <2>3 DEF Rewrite
  <2> QED
    BY <1>2, <1>4, <1>8, <2>1, <2>2, <2>4 DEF Rewrite
<1>9. CASE FailRewrite
  <2>1. budget' \in [Accidents -> Nat]
    BY <1>9 DEF FailRewrite, Spend, Accidents
  <2> QED
    BY <1>2, <1>4, <1>9, <2>1 DEF FailRewrite
<1>10. CASE Sync
  <2>1. synced' \in 0..Len(file')
    BY <1>5, <1>10 DEF Sync, Flushed
  <2> QED
    BY <1>2, <1>4, <1>10, <2>1 DEF Sync
<1>11. CASE FailSync
  <2>1. budget' \in [Accidents -> Nat]
    BY <1>11 DEF FailSync, Spend, Accidents
  <2> QED
    BY <1>2, <1>4, <1>11, <2>1 DEF FailSync
<1>12. CASE ReachBarrier
  BY <1>2, <1>4, <1>12 DEF ReachBarrier, Done
<1> QED
  BY <1>6, <1>7, <1>8, <1>9, <1>10, <1>11, <1>12 DEF Writer

LEMMA TypeClose == ASSUME TypeInv, Close \/ WriterExit \/ FailExit PROVE TypeInv'
<1> USE DEF TypeInv, TypeOK, window, writer, disk
<1>0. Closer # Publisher /\ Free # Publisher
  BY DEF Closer, Publisher, Free
<1>1. CASE Close
  <2>1. \A c \in Clients : Ended(sub[c]) \in Connections /\ Ended(sub[c]).chan = sub[c].chan
    BY DEF Ended, Connections
  <2>2. /\ sub' \in [Clients -> Connections]
        /\ \A c \in Clients : Len(sub'[c].chan) <= SubBuffer
    BY <1>1, <2>1 DEF Close
  <2>3. budget' \in [Accidents -> Nat]
    BY <1>1 DEF Close, Spend, Accidents
  <2>4. \/ holder' = Closer /\ mode' = mode
        \/ holder' = holder /\ mode' = "closed"
    BY <1>1 DEF Close
  <2> QED
    BY <1>0, <1>1, <2>2, <2>3, <2>4 DEF Close, Running
<1>2. CASE WriterExit
  <2>1. synced' \in 0..Len(file')
    BY <1>2, LenProperties DEF WriterExit, Flushed
  <2> QED
    BY <1>0, <1>2, <2>1 DEF WriterExit
<1>3. CASE FailExit
  <2>1. budget' \in [Accidents -> Nat]
    BY <1>3 DEF FailExit, Spend, Accidents
  <2> QED
    BY <1>0, <1>3, <2>1 DEF FailExit
<1> QED
  BY <1>1, <1>2, <1>3

LEMMA TypeRestart ==
    ASSUME TypeInv, Crash \/ PowerCut \/ Reopen \/ Refuse
    PROVE  TypeInv'
<1> USE DEF TypeInv, TypeOK
<1>1. ASSUME Gone, budget' \in [Accidents -> Nat],
             file' \in Seq(Event), synced' \in 0..Len(file'),
             torn' \in BOOLEAN, shadow' \subseteq Seq(Event)
      PROVE  TypeInv'
  <2>1. Detached \in Connections /\ Len(Detached.chan) <= SubBuffer
    BY LimitsAssumption DEF Detached, Connections
  <2>2. Free # Publisher
    BY DEF Free, Publisher
  <2>3. <<>> \in Seq(Event) /\ <<>> \in Seq(Ops) /\ Len(<<>>) <= QueueDepth
    BY LimitsAssumption
  <2> QED
    BY <1>1, <2>1, <2>2, <2>3 DEF Gone
<1>2. Crash \/ PowerCut => Gone /\ budget' \in [Accidents -> Nat]
  BY DEF Crash, PowerCut, Spend, Accidents
<1>3. CASE Crash
  BY <1>1, <1>2, <1>3 DEF Crash, disk
<1>4. CASE PowerCut
  <2>1. /\ file' \in Seq(Event) /\ synced' \in 0..Len(file') /\ torn' \in BOOLEAN
    <3>1. ASSUME NEW n \in synced..Len(file),
                 file' = SubSeq(file, 1, n), synced' = n,
                 torn' \in {torn, torn \/ n < Len(file)}
          PROVE  file' \in Seq(Event) /\ synced' \in 0..Len(file') /\ torn' \in BOOLEAN
      <4>1. Len(file) \in Nat /\ n \in Nat /\ n <= Len(file)
        BY LenProperties
      <4>2. \A i \in 1..n : file[i] \in Event
        BY <4>1
      <4>3. file' \in Seq(Event) /\ Len(file') = n
        BY <3>1, <4>1, <4>2, SubSeqProperties
      <4>4. torn' \in BOOLEAN
        <5>1. torn \in BOOLEAN
          OBVIOUS
        <5> QED
          BY <3>1, <5>1, Zenon
      <4> QED
        BY <3>1, <4>1, <4>3, <4>4
    <3>2. ASSUME NEW before \in shadow,
                 file' = before, synced' = Len(before), torn' = FALSE
          PROVE  file' \in Seq(Event) /\ synced' \in 0..Len(file') /\ torn' \in BOOLEAN
      <4>1. before \in Seq(Event)
        OBVIOUS
      <4>2. Len(before) \in Nat
        BY <4>1, LenProperties
      <4>3. file' \in Seq(Event) /\ synced' \in 0..Len(file')
        BY <3>2, <4>1, <4>2
      <4>4. torn' \in BOOLEAN
        BY <3>2, Zenon
      <4> QED
        BY <4>3, <4>4
    <3> QED
      BY <1>4, <3>1, <3>2 DEF PowerCut
  <2> QED
    BY <1>1, <1>2, <1>4, <2>1 DEF PowerCut
<1>5. CASE Reopen
  <2>1. log' \in Seq(Event)
    BY <1>5, RecoveredNat, FirstProperties DEF Reopen
  <2>2. retained' \in Seq(Event)
    BY <1>5, FromProperties DEF Reopen
  <2>3. spillBytes' \in Nat
    BY <1>5, BytesNat DEF Reopen, FileSize
  <2>4. holder' # Publisher
    BY <1>5 DEF Reopen, Free, Publisher
  <2>5. /\ mode' = "open" /\ life' = life + 1 /\ failed' = FALSE
        /\ UNCHANGED <<holder, stage, queue, dirty, disk, sub, last, budget>>
    BY <1>5 DEF Reopen
  <2>6. UNCHANGED <<file, synced, torn, shadow>>
    BY <2>5 DEF disk
  <2>7. life' \in Nat /\ failed' \in BOOLEAN /\ dirty' \in BOOLEAN /\ torn' \in BOOLEAN
    <3>1. life' \in Nat
      BY <2>5
    <3>2. failed' \in BOOLEAN
      BY <2>5, Zenon
    <3> QED
      BY <3>1, <3>2, <2>5, <2>6
  <2>8. synced' \in 0..Len(file') /\ file' \in Seq(Event) /\ shadow' \subseteq Seq(Event)
    BY <2>6
  <2> QED
    BY <2>1, <2>2, <2>3, <2>4, <2>5, <2>7, <2>8
<1>6. CASE Refuse
  BY <1>6 DEF Refuse, window, writer, disk
<1> QED
  BY <1>3, <1>4, <1>5, <1>6

LEMMA TypeNext == ASSUME TypeInv, [Next]_vars PROVE TypeInv'
<1>1. ASSUME NEW k \in Kinds, Publish(k) PROVE TypeInv'
  BY <1>1, TypePublish
<1>2. CASE FanOut
  BY <1>2, TypeFanOut
<1>3. ASSUME NEW c \in Clients, Subscriber(c) \/ Disconnect(c) PROVE TypeInv'
  BY <1>3, TypeSubscriber
<1>4. CASE Writer
  BY <1>4, TypeWriter
<1>5. CASE Close \/ WriterExit \/ FailExit
  BY <1>5, TypeClose
<1>6. CASE Crash \/ PowerCut \/ Reopen \/ Refuse
  BY <1>6, TypeRestart
<1>7. CASE UNCHANGED vars
  BY <1>7 DEF TypeInv, TypeOK, vars, window, writer, disk
<1> QED
  BY <1>1, <1>2, <1>3, <1>4, <1>5, <1>6, <1>7 DEF Next, Idle

(* Every variable of the journal keeps its type, whatever the limits, the   *)
(* number of readers and the accidents: the queue never outgrows its depth, *)
(* nor a live channel its buffer.                                           *)
THEOREM JournalTypeOK == Spec => []TypeOK
<1>1. Init => TypeInv
  BY TypeInit
<1>2. TypeInv /\ [Next]_vars => TypeInv'
  BY TypeNext
<1>3. TypeInv => TypeOK
  BY DEF TypeInv
<1> QED
  BY <1>1, <1>2, <1>3, PTL DEF Spec

-----------------------------------------------------------------------------
(* Delivery, while the disk does not fail.                                  *)

(* Nobody publishes to a file that has been closed.                         *)
Orderly == LatePublish => ~Spill

(* s is a run of consecutive events of the log l.                           *)
BlockOf(s, l) ==
    \A i \in 1..Len(s) :
        /\ s[i].seq = s[1].seq + i - 1
        /\ s[i].seq \in 1..Len(l)
        /\ s[i] = l[s[i].seq]

End(s) == IF s = <<>> THEN 0 ELSE s[Len(s)].seq

Numbered == \A i \in 1..Len(log) : log[i].seq = i

(* No write has failed, so the writer's error is nil.                       *)
NoFailure == failed = FALSE

(* Who may hold the mutex, when, and what a client that holds it waits for. *)
Held ==
    /\ mode = "down" \/ mode = "refused" => holder = Free /\ queue = <<>>
    /\ mode = "closed" => queue = <<>>
    /\ holder = Closer => mode = "open" /\ Spill
    /\ holder = Publisher => retained # <<>> /\ (Spill => mode = "open")
    /\ stage = "idle" <=> holder \notin Clients
    /\ stage \in {"barrier", "wait"} => mode = "open" /\ Spill
    /\ stage = "flushed" => queue = <<>>
    /\ \A c \in Clients :
          holder = c => Spill /\ sub[c].state = "detached" /\ Cursor(c) <= Len(log)

WindowBlock ==
    Running => BlockOf(retained, log) /\ (retained # <<>> => End(retained) = Len(log))

(* What the disk holds, and what it may still give back.                    *)
FileBlock ==
    /\ BlockOf(file, log)
    /\ \A s \in shadow : BlockOf(s, log) /\ End(s) <= End(file)

(* A sync is the rest of an op the writer has begun; a barrier is the last  *)
(* op; every other op carries the log one event further.                    *)
Begun == IF queue # <<>> /\ queue[1].kind = "sync" THEN 1 ELSE 0

Waiting == IF stage = "wait" THEN 1 ELSE 0

QueueCarries ==
    /\ ~Spill => queue = <<>> /\ file = <<>> /\ shadow = {}
    /\ \A i \in 1..Len(queue) :
          /\ queue[i].kind = "sync" => i = 1
          /\ queue[i].kind = "barrier" <=> (stage = "wait" /\ i = Len(queue))
          /\ queue[i].kind \in {"append", "rewrite"} =>
                /\ BlockOf(queue[i].frames, log)
                /\ queue[i].frames # <<>>
                /\ End(queue[i].frames) = End(file) + i - Begun
          /\ queue[i].kind = "append" => Len(queue[i].frames) = 1
    /\ stage = "wait" => queue # <<>>
    /\ Spill /\ Running => End(file) + Len(queue) - Begun - Waiting = FannedOut

Deliveries ==
    \A c \in Clients : Attached(c) => Running /\ Owed(c)

IInv ==
    /\ TypeInv /\ Numbered /\ NoFailure /\ Held
    /\ WindowBlock /\ FileBlock /\ QueueCarries /\ Deliveries

-----------------------------------------------------------------------------
(* Blocks of a log.                                                         *)

LEMMA BlockSeqs ==
    ASSUME NEW s \in Seq(Event), NEW l \in Seq(Event), BlockOf(s, l)
    PROVE  /\ Len(s) \in Nat /\ Len(l) \in Nat
           /\ \A i \in 1..Len(s) : s[i].seq \in Nat \ {0} /\ s[i].seq <= Len(l)
           /\ s # <<>> => /\ Len(s) > 0
                          /\ End(s) = s[1].seq + Len(s) - 1
                          /\ End(s) \in 1..Len(l)
           /\ \A i \in 1..Len(s) : s[i].seq <= End(s)
           /\ End(s) \in 0..Len(l)
<1>1. Len(s) \in Nat /\ Len(l) \in Nat
  BY LenProperties
<1>2. ASSUME NEW i \in 1..Len(s)
      PROVE  /\ s[i].seq \in 1..Len(l) /\ s[i].seq = s[1].seq + i - 1
  BY DEF BlockOf
<1>3. CASE s = <<>>
  BY <1>1, <1>3 DEF End
<1>4. CASE s # <<>>
  <2>1. Len(s) > 0
    BY <1>1, <1>4, EmptySeq
  <2>2. Len(s) \in 1..Len(s) /\ 1 \in 1..Len(s)
    BY <1>1, <2>1
  <2>3. End(s) = s[1].seq + Len(s) - 1 /\ End(s) \in 1..Len(l)
    BY <1>2, <1>4, <2>2 DEF End
  <2>4. s[1].seq \in Nat
    BY <1>1, <1>2, <2>2
  <2>5. \A i \in 1..Len(s) : s[i].seq <= End(s)
    BY <1>1, <1>2, <2>3, <2>4
  <2> QED
    BY <1>1, <1>2, <2>1, <2>3, <2>5
<1> QED
  BY <1>3, <1>4

LEMMA BlockFrom ==
    ASSUME NEW s \in Seq(Event), NEW l \in Seq(Event), BlockOf(s, l), NEW k \in Cuts(s)
    PROVE  /\ BlockOf(From(s, k), l)
           /\ From(s, k) # <<>> => End(From(s, k)) = End(s)
<1> DEFINE r == From(s, k)
<1>1. /\ r \in Seq(Event) /\ Len(r) = Len(s) - k + 1
      /\ \A i \in 1..Len(r) : r[i] = s[k + i - 1]
  BY FromProperties
<1>2. Len(s) \in Nat /\ k \in 1..(Len(s) + 1) /\ Len(r) \in Nat
  BY <1>1, LenProperties DEF Cuts
<1>3. \A i \in 1..Len(s) : s[i].seq \in Nat /\ s[1].seq \in Nat
  BY <1>2, BlockSeqs
<1> HIDE DEF r
<1>4. ASSUME NEW i \in 1..Len(r)
      PROVE  r[i].seq = r[1].seq + i - 1 /\ r[i].seq \in 1..Len(l) /\ r[i] = l[r[i].seq]
  <2>1. 1 \in 1..Len(r) /\ k + i - 1 \in 1..Len(s) /\ k \in 1..Len(s)
    BY <1>1, <1>2
  <2>2. r[i] = s[k + i - 1] /\ r[1] = s[k]
    <3>1. r[i] = s[k + i - 1] /\ r[1] = s[k + 1 - 1]
      BY ONLY <1>1, <2>1, ZenonT(20)
    <3>2. k + 1 - 1 = k
      BY <1>2
    <3> QED
      BY <3>1, <3>2, ZenonT(20)
  <2>3. s[k + i - 1].seq = s[1].seq + (k + i - 1) - 1 /\ s[k].seq = s[1].seq + k - 1
    BY <2>1 DEF BlockOf
  <2>4. s[k + i - 1].seq \in 1..Len(l) /\ s[k + i - 1] = l[s[k + i - 1].seq]
    BY <2>1 DEF BlockOf
  <2> DEFINE a == s[1].seq
  <2>5. a \in Nat /\ k \in Int /\ i \in Int
    BY <1>2, <1>3, <2>1
  <2>6. r[i].seq = a + (k + i - 1) - 1 /\ r[1].seq = a + k - 1
    BY <2>2, <2>3
  <2> HIDE DEF a
  <2>7. r[i].seq = r[1].seq + i - 1
    BY <2>5, <2>6
  <2> QED
    BY <2>2, <2>4, <2>7
<1>5. ASSUME r # <<>> PROVE End(r) = End(s)
  <2>1. Len(r) > 0
    BY <1>1, <1>2, <1>5, EmptySeq
  <2>2. r[Len(r)] = s[Len(s)] /\ Len(s) > 0
    BY <1>1, <1>2, <2>1
  <2>3. s # <<>>
    BY <2>2, EmptySeq
  <2> QED
    BY <1>5, <2>2, <2>3 DEF End
<1> QED
  BY <1>4, <1>5 DEF BlockOf, r

LEMMA BlockExtend ==
    ASSUME NEW s \in Seq(Event), NEW l \in Seq(Event), NEW e \in Event, BlockOf(s, l)
    PROVE  BlockOf(s, Append(l, e))
<1>1. /\ Len(Append(l, e)) = Len(l) + 1 /\ Len(l) \in Nat
      /\ \A i \in 1..Len(l) : Append(l, e)[i] = l[i]
  BY AppendProperties, LenProperties
<1> QED
  BY <1>1 DEF BlockOf

(* A block followed by the next event of the log.                           *)
LEMMA BlockConcat ==
    ASSUME NEW s \in Seq(Event), NEW l \in Seq(Event), NEW t \in Seq(Event),
           BlockOf(s, l), BlockOf(t, l), Len(t) = 1,
           s # <<>> => End(t) = End(s) + 1
    PROVE  /\ BlockOf(s \o t, l)
           /\ s \o t # <<>> /\ End(s \o t) = End(t)
<1> DEFINE r == s \o t
<1>1. /\ r \in Seq(Event) /\ Len(r) = Len(s) + 1 /\ Len(s) \in Nat
      /\ \A i \in 1..Len(r) : r[i] = IF i <= Len(s) THEN s[i] ELSE t[i - Len(s)]
  <2>1. Len(s) \in Nat
    BY LenProperties
  <2>2. r \in Seq(Event) /\ Len(r) = Len(s) + Len(t)
    BY ConcatProperties
  <2>3. \A i \in 1..(Len(s) + Len(t)) : r[i] = IF i <= Len(s) THEN s[i] ELSE t[i - Len(s)]
    BY ConcatProperties
  <2> QED
    BY <2>1, <2>2, <2>3
<1>2. r[Len(r)] = t[1] /\ \A i \in 1..Len(s) : r[i] = s[i]
  <2>1. Len(r) \in 1..Len(r) /\ ~(Len(r) <= Len(s)) /\ Len(r) - Len(s) = 1
    BY <1>1
  <2>2. r[Len(r)] = t[1]
    BY <1>1, <2>1
  <2>3. \A i \in 1..Len(s) : i \in 1..Len(r) /\ i <= Len(s)
    BY <1>1
  <2> QED
    BY <1>1, <2>2, <2>3
<1>3. t # <<>> /\ End(t) = t[1].seq
  <2>1. t # <<>>
    <3>1. t = <<>> <=> Len(t) = 0
      BY EmptySeq
    <3> QED
      BY <3>1
  <2> QED
    BY <2>1 DEF End
<1>4. r # <<>> /\ End(r) = t[1].seq
  BY <1>1, <1>2, EmptySeq DEF End
<1>5. t[1].seq \in 1..Len(l) /\ t[1] = l[t[1].seq]
  BY DEF BlockOf
<1> HIDE DEF r
<1>6. ASSUME NEW i \in 1..Len(r)
      PROVE  r[i].seq = r[1].seq + i - 1 /\ r[i].seq \in 1..Len(l) /\ r[i] = l[r[i].seq]
  <2>1. CASE i \in 1..Len(s)
    <3>1. 1 \in 1..Len(s)
      BY <1>1, <2>1
    <3> QED
      BY <1>2, <2>1, <3>1 DEF BlockOf
  <2>2. CASE i = Len(r) /\ s # <<>>
    <3>1. Len(s) > 0 /\ 1 \in 1..Len(s)
      BY <1>1, <2>2, EmptySeq
    <3>2. End(s) = s[1].seq + Len(s) - 1 /\ s[1].seq \in Nat
      BY <2>2, <3>1, BlockSeqs
    <3>3. r[1] = s[1] /\ r[i] = t[1] /\ t[1].seq = End(s) + 1
      BY <1>2, <1>3, <2>2, <3>1
    <3> QED
      BY <1>1, <1>5, <2>2, <3>2, <3>3
  <2>3. CASE i = Len(r) /\ s = <<>>
    <3>1. Len(r) = 1 /\ r[1] = t[1]
      BY <1>1, <1>2, <2>3
    <3>2. t[1].seq \in Int
      BY <1>5, LenProperties
    <3> QED
      BY <1>5, <2>3, <3>1, <3>2
  <2> QED
    BY <1>1, <2>1, <2>2, <2>3
<1> QED
  BY <1>3, <1>4, <1>6 DEF BlockOf, r

LEMMA BlockPrefix ==
    ASSUME NEW s \in Seq(Event), NEW l \in Seq(Event), BlockOf(s, l), NEW n \in 0..Len(s)
    PROVE  /\ SubSeq(s, 1, n) \in Seq(Event)
           /\ BlockOf(SubSeq(s, 1, n), l)
           /\ End(SubSeq(s, 1, n)) <= End(s)
<1> DEFINE r == SubSeq(s, 1, n)
<1>1. Len(s) \in Nat /\ n \in Int /\ n <= Len(s) /\ \A i \in 1..n : s[i] \in Event
  BY LenProperties, ElementOfSeq
<1>2. r \in Seq(Event) /\ Len(r) = n /\ \A i \in 1..n : r[i] = s[i]
  BY <1>1, SubSeqProperties
<1> HIDE DEF r
<1>3. ASSUME NEW i \in 1..Len(r)
      PROVE  r[i].seq = r[1].seq + i - 1 /\ r[i].seq \in 1..Len(l) /\ r[i] = l[r[i].seq]
  <2>1. i \in 1..Len(s) /\ 1 \in 1..n /\ r[i] = s[i] /\ r[1] = s[1]
    BY <1>1, <1>2
  <2> QED
    BY <2>1 DEF BlockOf
<1>4. End(r) <= End(s)
  <2>1. CASE r = <<>>
    BY <2>1, BlockSeqs DEF End
  <2>2. CASE r # <<>>
    <3>1. Len(r) \in 1..Len(r)
      BY <1>2, <2>2, EmptySeq
    <3>2. Len(r) \in 1..Len(s) /\ r[Len(r)] = s[Len(r)]
      BY <1>1, <1>2, <3>1
    <3> QED
      BY <2>2, <3>2, BlockSeqs DEF End
  <2> QED
    BY <2>1, <2>2
<1> QED
  BY <1>2, <1>3, <1>4 DEF BlockOf, r

(* A block is one of the log a restart has cut, if it ends before the cut.  *)
LEMMA BlockFirst ==
    ASSUME NEW s \in Seq(Event), NEW l \in Seq(Event), BlockOf(s, l),
           NEW n \in Nat, n <= Len(l), End(s) <= n
    PROVE  BlockOf(s, First(l, n))
<1>1. /\ Len(First(l, n)) = n
      /\ \A i \in 1..n : First(l, n)[i] = l[i]
  BY FirstProperties
<1>2. \A i \in 1..Len(s) : s[i].seq \in 1..n
  BY BlockSeqs
<1> QED
  BY <1>1, <1>2 DEF BlockOf

(* The replay of a block that ends where the log ends, from a cursor with   *)
(* no gap after it.                                                         *)
LEMMA AfterCursor ==
    ASSUME NEW s \in Seq(Event), NEW l \in Seq(Event), BlockOf(s, l),
           NEW n \in Nat, n <= Len(l), NEW k \in Cuts(s), IsAfter(s, n, k),
           IF s = <<>> THEN n = Len(l) ELSE End(s) = Len(l),
           k <= Len(s) => s[k].seq <= n + 1
    PROVE  /\ n + Len(From(s, k)) = Len(l)
           /\ \A i \in 1..Len(From(s, k)) : From(s, k)[i] = l[n + i]
<1> DEFINE r == From(s, k)
<1>1. Len(r) = Len(s) - k + 1 /\ \A i \in 1..Len(r) : r[i] = s[k + i - 1]
  BY FromProperties
<1>2. Len(s) \in Nat /\ Len(l) \in Nat /\ k \in 1..(Len(s) + 1)
  BY LenProperties DEF Cuts
<1> HIDE DEF r
<1>3. CASE s = <<>>
  <2>1. Len(s) = 0
    BY <1>3, EmptySeq
  <2> QED
    BY <1>1, <1>2, <1>3, <2>1 DEF r
<1>4. CASE s # <<>> /\ k = Len(s) + 1
  <2>1. Len(s) > 0 /\ s[Len(s)].seq = Len(l)
    BY <1>2, <1>4, EmptySeq DEF End
  <2>2. s[Len(s)].seq <= n
    BY <1>2, <1>4, <2>1 DEF IsAfter
  <2> QED
    BY <1>1, <1>2, <1>4, <2>1, <2>2 DEF r
<1>5. CASE s # <<>> /\ k <= Len(s)
  <2> DEFINE a == s[1].seq
  <2>1. 1 \in 1..Len(s) /\ k \in 1..Len(s)
    BY <1>2, <1>5
  <2>2. a \in Nat /\ k \in Int /\ s[k].seq = a + k - 1
    BY <1>2, <2>1, BlockSeqs DEF BlockOf
  <2>3. a + Len(s) - 1 = Len(l)
    BY <1>5, BlockSeqs
  <2>4. s[k].seq > n
    BY <1>2, <1>5 DEF IsAfter
  <2> HIDE DEF a
  <2>5. a + k - 1 = n + 1
    BY <2>2, <2>4, <1>5
  <2>6. ASSUME NEW i \in 1..Len(r) PROVE r[i] = l[n + i]
    <3>1. k + i - 1 \in 1..Len(s)
      BY <1>1, <1>2, <1>5
    <3>2. s[k + i - 1].seq = a + (k + i - 1) - 1
      BY <3>1 DEF BlockOf, a
    <3>3. s[k + i - 1] = l[s[k + i - 1].seq] /\ r[i] = s[k + i - 1]
      BY <1>1, <3>1 DEF BlockOf
    <3>4. a + (k + i - 1) - 1 = n + i
      BY <1>1, <1>2, <2>2, <2>5
    <3> QED
      BY <3>2, <3>3, <3>4
  <2>7. n + Len(r) = Len(l)
    <3>1. k = n + 2 - a
      BY <2>2, <2>5
    <3>2. Len(r) = Len(s) - k + 1
      BY <1>1
    <3> QED
      BY <1>2, <2>2, <2>3, <3>1, <3>2
  <2> QED
    BY <2>6, <2>7 DEF r
<1> QED
  BY <1>2, <1>3, <1>4, <1>5

(* trim keeps the last event: it fits alone, every event being within       *)
(* MaxBytes.                                                                *)
LEMMA TrimKeeps ==
    ASSUME NEW s \in Seq(Event), s # <<>>, NEW k \in Cuts(s), IsTrim(s, k)
    PROVE  From(s, k) # <<>>
<1>1. Len(s) \in Nat \ {0} /\ k \in 1..(Len(s) + 1)
  BY EmptySeq, LenProperties DEF Cuts
<1> DEFINE n == Len(s)
<1>2. n \in Cuts(s)
  BY <1>1 DEF Cuts
<1> HIDE DEF n
<1>3. From(s, n) \in Seq(Event) /\ Len(From(s, n)) = 1
  <2>1. From(s, n) \in Seq(Event) /\ Len(From(s, n)) = Len(s) - n + 1
    BY <1>2, FromProperties
  <2> QED
    BY <1>1, <2>1 DEF n
<1>4. Fits(From(s, n))
  <2> DEFINE pairs == (1..1) \X (1..MaxBytes)
             short == {b \in pairs : b[2] <= From(s, n)[b[1]].size}
  <2>1. IsFiniteSet(1..1) /\ Cardinality(1..1) = 1
    <3>1. 1..1 = {1}
      OBVIOUS
    <3> QED
      BY <3>1, FS_Singleton
  <2>2. IsFiniteSet(1..MaxBytes) /\ Cardinality(1..MaxBytes) = MaxBytes
    <3>1. 1 \in Int /\ MaxBytes \in Int /\ ~(1 > MaxBytes) /\ MaxBytes - 1 + 1 = MaxBytes
      BY LimitsAssumption
    <3> QED
      BY <3>1, FS_Interval
  <2>3. IsFiniteSet(pairs) /\ Cardinality(pairs) = Cardinality(1..1) * Cardinality(1..MaxBytes)
    BY <2>1, <2>2, FS_Product
  <2>4. Cardinality(pairs) = MaxBytes
    BY <2>1, <2>2, <2>3, LimitsAssumption
  <2>5. short \in SUBSET pairs
    OBVIOUS
  <2> HIDE DEF pairs
  <2>6. Cardinality(short) <= MaxBytes
    BY <2>3, <2>4, <2>5, FS_Subset
  <2>7. Bytes(From(s, n)) <= MaxBytes
    BY <1>3, <2>6 DEF Bytes, pairs
  <2> QED
    BY <1>3, <2>7, LimitsAssumption DEF Fits
<1>5. k # n + 1
  <2>1. n \in Nat \ {0}
    BY <1>1 DEF n
  <2> QED
    BY <1>4, <2>1 DEF IsTrim
<1>6. Len(From(s, k)) = Len(s) - k + 1
  BY FromProperties
<1>7. Len(From(s, k)) > 0
  BY <1>1, <1>5, <1>6 DEF n
<1> QED
  BY <1>7, EmptySeq

-----------------------------------------------------------------------------
(* What the type invariant says of each variable, in the form the steps     *)
(* below use it.                                                            *)
LEMMA Typed ==
    ASSUME TypeInv
    PROVE  /\ log \in Seq(Event) /\ Len(log) \in Nat
           /\ retained \in Seq(Event) /\ file \in Seq(Event)
           /\ queue \in Seq(Ops) /\ Len(queue) \in Nat
           /\ \A s \in shadow : s \in Seq(Event)
           /\ budget \in [Accidents -> Nat]
<1>1. log \in Seq(Event) /\ queue \in Seq(Ops)
  BY DEF TypeInv, TypeOK
<1>2. Len(log) \in Nat /\ Len(queue) \in Nat
  BY <1>1, LenProperties
<1> QED
  BY <1>1, <1>2 DEF TypeInv, TypeOK

LEMMA TypedReader ==
    ASSUME TypeInv, NEW c \in Clients
    PROVE  /\ Cursor(c) \in Nat
           /\ sub[c] \in Connections
           /\ sub[c].replay \in Seq(Event) /\ sub[c].chan \in Seq(Event)
<1>1. sub[c] \in Connections /\ last[c] \in Event \cup {NoEvent}
  BY DEF TypeInv, TypeOK
<1>2. Cursor(c) \in Nat
  BY <1>1 DEF Cursor, Event, NoEvent
<1> QED
  BY <1>1, <1>2 DEF Connections

(* A step of a reader that does not hold the mutex, and leaves it alone.    *)
LEMMA ReaderFrame ==
    ASSUME IInv, TypeInv', NEW c \in Clients, holder # c,
           UNCHANGED <<mode, holder, stage, log, retained, queue, failed, file, shadow>>,
           \A d \in Clients \ {c} : sub'[d] = sub[d] /\ last'[d] = last[d],
           Attached(c)' => Running /\ Owed(c)'
    PROVE  IInv'
<1>1. Numbered' /\ NoFailure'
  BY DEF IInv, Numbered, NoFailure
<1>2. Held'
  <2>1. \A d \in Clients : holder' = d => sub'[d] = sub[d] /\ last'[d] = last[d]
    OBVIOUS
  <2> QED
    BY <2>1 DEF IInv, Held, Cursor
<1>3. WindowBlock' /\ FileBlock'
  BY DEF IInv, WindowBlock, FileBlock, Running, BlockOf, End
<1>4. QueueCarries'
  BY DEF IInv, QueueCarries, Running, BlockOf, End, FannedOut, Begun, Waiting
<1>5. Deliveries'
  <2>1. ASSUME NEW d \in Clients, Attached(d)' PROVE Running' /\ Owed(d)'
    <3>1. CASE d = c
      BY <2>1, <3>1 DEF Running
    <3>2. CASE d # c
      <4>1. Attached(d) /\ sub'[d] = sub[d] /\ last'[d] = last[d]
        BY <2>1, <3>2 DEF Attached
      <4>2. Running /\ Owed(d)
        BY <4>1 DEF IInv, Deliveries
      <4> QED
        BY <4>1, <4>2 DEF Running, Owed, Cursor, FannedOut
    <3> QED
      BY <3>1, <3>2
  <2> QED
    BY <2>1 DEF Deliveries
<1> QED
  BY <1>1, <1>2, <1>3, <1>4, <1>5 DEF IInv

LEMMA DeliveryInit == ASSUME Init PROVE IInv
<1>1. TypeInv
  BY TypeInit
<1>2. Len(log) = 0 /\ Len(queue) = 0 /\ Len(retained) = 0 /\ Len(file) = 0
  BY EmptySeq DEF Init
<1>3. Numbered /\ NoFailure
  BY <1>2 DEF Init, Numbered, NoFailure
<1>4. Held
  BY HoldersAssumption DEF Init, Held, Free, Publisher, Closer
<1>5. WindowBlock /\ FileBlock
  BY <1>2 DEF Init, WindowBlock, FileBlock, BlockOf
<1>6. QueueCarries
  BY <1>2 DEF Init, QueueCarries, Begun, Waiting, FannedOut, End, Free, Publisher
<1>7. Deliveries
  BY DEF Init, Deliveries, Attached, Detached
<1> QED
  BY <1>1, <1>3, <1>4, <1>5, <1>6, <1>7 DEF IInv

-----------------------------------------------------------------------------
(* The steps of the readers.                                                *)

(* A replay that carries the cursor to the last event fanned out.           *)
LEMMA AttachOwed ==
    ASSUME TypeInv, NEW c \in Clients, NEW s \in Seq(Event), Attach(c, s),
           UNCHANGED <<log, last>>, holder' # Publisher,
           Cursor(c) + Len(s) = Len(log),
           \A i \in 1..Len(s) : s[i] = log[Cursor(c) + i]
    PROVE  Owed(c)'
<1>1. sub'[c] = [state |-> "live", replay |-> s, chan |-> <<>>]
  BY DEF Attach, TypeInv, TypeOK
<1>2. s \o <<>> = s
  BY ConcatEmptySeq
<1>3. Cursor(c)' = Cursor(c) /\ FannedOut' = Len(log) /\ log' = log
  BY DEF Cursor, FannedOut
<1>4. sub'[c].replay \o sub'[c].chan = s
  BY <1>1, <1>2
<1>5. Len(log) <= Len(log)
  BY Typed
<1> QED
  BY <1>3, <1>4, <1>5 DEF Owed

(* A window that serves a cursor has no gap after it.                       *)
LEMMA WindowServes ==
    ASSUME IInv, Running, NEW n \in Nat, n <= Len(log), InWindow(n),
           NEW k \in Cuts(retained), IsAfter(retained, n, k)
    PROVE  /\ n + Len(From(retained, k)) = Len(log)
           /\ \A i \in 1..Len(From(retained, k)) : From(retained, k)[i] = log[n + i]
<1>1. log \in Seq(Event) /\ retained \in Seq(Event) /\ BlockOf(retained, log)
  BY Typed DEF IInv, WindowBlock
<1>2. IF retained = <<>> THEN n = Len(log) ELSE End(retained) = Len(log)
  BY DEF IInv, WindowBlock, InWindow
<1>3. ASSUME k <= Len(retained) PROVE retained[k].seq <= n + 1
  <2>1. Len(retained) \in Nat /\ k \in 1..Len(retained) /\ 1 \in 1..Len(retained)
    BY <1>1, <1>3, LenProperties DEF Cuts
  <2>2. retained # <<>>
    BY <2>1, EmptySeq
  <2> DEFINE a == retained[1].seq
  <2>3. a \in Nat /\ n >= a - 1
    BY <1>1, <2>1, <2>2, BlockSeqs DEF InWindow
  <2>4. retained[k].seq = a + k - 1
    BY <1>1, <2>1 DEF BlockOf
  <2>5. CASE k = 1
    <3>1. retained[k].seq = a
      BY <2>5
    <3> HIDE DEF a
    <3> QED
      BY <2>3, <3>1
  <2>6. CASE k # 1
    <3>1. k - 1 \in 1..(k - 1) /\ k - 1 \in 1..Len(retained)
      BY <2>1, <2>6
    <3>2. retained[k - 1].seq = a + (k - 1) - 1 /\ retained[k - 1].seq <= n
      BY <1>1, <3>1 DEF BlockOf, IsAfter
    <3> HIDE DEF a
    <3> QED
      BY <2>1, <2>3, <2>4, <3>2
  <2> QED
    BY <2>5, <2>6
<1> QED
  BY <1>1, <1>2, <1>3, AfterCursor

LEMMA DeliverMemory ==
    ASSUME IInv, TypeInv', NEW c \in Clients, SubscribeFromMemory(c)
    PROVE  IInv'
<1>1. /\ Running /\ holder = Free
      /\ Cursor(c) <= Len(log) /\ InWindow(Cursor(c))
      /\ UNCHANGED <<mode, holder, stage, log, life, retained, queue, failed, dirty,
                     file, synced, torn, shadow, last, budget>>
  BY DEF SubscribeFromMemory, CanSubscribe, window, writer, disk
<1>2. PICK k \in Cuts(retained) :
          IsAfter(retained, Cursor(c), k) /\ Attach(c, From(retained, k))
  BY DEF SubscribeFromMemory
<1>3. TypeInv /\ Cursor(c) \in Nat /\ retained \in Seq(Event)
  BY Typed, TypedReader DEF IInv
<1>4. From(retained, k) \in Seq(Event)
  BY <1>3, FromProperties
<1>5. /\ Cursor(c) + Len(From(retained, k)) = Len(log)
      /\ \A i \in 1..Len(From(retained, k)) : From(retained, k)[i] = log[Cursor(c) + i]
  BY <1>1, <1>2, <1>3, WindowServes
<1>6. Owed(c)'
  <2>1. holder' # Publisher
    BY <1>1 DEF Free, Publisher
  <2> QED
    BY <1>1, <1>2, <1>3, <1>4, <1>5, <2>1, AttachOwed
<1>7. holder # c
  BY <1>1, HoldersAssumption
<1>8. \A d \in Clients \ {c} : sub'[d] = sub[d] /\ last'[d] = last[d]
  BY <1>1, <1>2, <1>3 DEF Attach, TypeInv, TypeOK
<1> QED
  BY <1>1, <1>6, <1>7, <1>8, ReaderFrame

(* A connection that ends, or is refused, is owed nothing.                  *)
LEMMA DeliverNothing ==
    ASSUME IInv, TypeInv', NEW c \in Clients,
           SubscribeExpired(c) \/ SeeClosed(c) \/ StartOver(c) \/ Disconnect(c)
    PROVE  IInv'
<1>1. TypeInv /\ sub \in [Clients -> Connections] /\ last \in [Clients -> Event \cup {NoEvent}]
  BY DEF IInv, TypeInv, TypeOK
<1>2. UNCHANGED <<mode, holder, stage, log, life, retained, queue, failed, dirty,
                  file, synced, torn, shadow>>
  BY DEF SubscribeExpired, SeeClosed, StartOver, Disconnect, window, writer, disk
<1>3. /\ sub' = [sub EXCEPT ![c].state = "expired"] \/ sub' = [sub EXCEPT ![c] = Detached]
      /\ last' = last \/ last' = [last EXCEPT ![c] = NoEvent]
  BY DEF SubscribeExpired, SeeClosed, StartOver, Disconnect
<1>4. \A d \in Clients \ {c} : sub'[d] = sub[d] /\ last'[d] = last[d]
  BY <1>1, <1>3
<1>5. sub'[c].state \in {"expired", "detached"}
  BY <1>1, <1>3 DEF Detached, Connections
<1>6. ~Attached(c)'
  BY <1>5 DEF Attached
<1>7. holder # c
  <2>1. holder = c => sub[c].state = "detached"
    BY DEF IInv, Held
  <2>2. holder = Free \/ sub[c].state = "expired"
    BY DEF SubscribeExpired, CanSubscribe, SeeClosed, StartOver, Disconnect
  <2> QED
    BY <2>1, <2>2, HoldersAssumption
<1> QED
  BY <1>2, <1>4, <1>6, <1>7, ReaderFrame

(* The first of two sequences gives the head.                               *)
LEMMA HeadTailConcat ==
    ASSUME NEW S, NEW r \in Seq(S), NEW h \in Seq(S), r # <<>>
    PROVE  r \o h # <<>> /\ Head(r \o h) = Head(r) /\ Tail(r \o h) = Tail(r) \o h
<1>1. Len(r) \in Nat \ {0} /\ Len(h) \in Nat
  BY EmptySeq, LenProperties
<1> DEFINE g == r \o h
<1>2. g \in Seq(S) /\ Len(g) = Len(r) + Len(h)
  BY ConcatProperties
<1>3. \A i \in 1..(Len(r) + Len(h)) : g[i] = IF i <= Len(r) THEN r[i] ELSE h[i - Len(r)]
  BY ConcatProperties
<1>4. Tail(r) \in Seq(S) /\ Len(Tail(r)) = Len(r) - 1
      /\ \A i \in 1..Len(Tail(r)) : Tail(r)[i] = r[i + 1]
  BY HeadTailProperties
<1> DEFINE u == Tail(r) \o h
<1>5. u \in Seq(S) /\ Len(u) = Len(Tail(r)) + Len(h)
  BY <1>4, ConcatProperties
<1>6. \A i \in 1..(Len(Tail(r)) + Len(h)) :
          u[i] = IF i <= Len(Tail(r)) THEN Tail(r)[i] ELSE h[i - Len(Tail(r))]
  BY <1>4, ConcatProperties
<1> HIDE DEF g, u
<1>7. g # <<>>
  <2>1. Len(g) > 0
    BY <1>1, <1>2
  <2> QED
    BY <2>1, EmptySeq
<1>8. Tail(g) \in Seq(S) /\ Len(Tail(g)) = Len(g) - 1
      /\ \A i \in 1..Len(Tail(g)) : Tail(g)[i] = g[i + 1]
  BY <1>2, <1>7, HeadTailProperties
<1>9. Len(Tail(g)) = Len(u) /\ Len(u) = Len(r) + Len(h) - 1
  BY <1>1, <1>2, <1>4, <1>5, <1>8
<1>10. ASSUME NEW i \in 1..Len(Tail(g)) PROVE Tail(g)[i] = u[i]
  <2>1. Tail(g)[i] = g[i + 1] /\ i + 1 \in 1..(Len(r) + Len(h))
    BY <1>1, <1>8, <1>9
  <2>2. i \in 1..(Len(Tail(r)) + Len(h))
    BY <1>5, <1>9
  <2>3. CASE i + 1 <= Len(r)
    <3>1. i \in 1..Len(Tail(r)) /\ i <= Len(Tail(r))
      BY <1>1, <1>4, <2>1, <2>3
    <3> QED
      BY <1>3, <1>4, <1>6, <2>1, <2>2, <2>3, <3>1
  <2>4. CASE ~(i + 1 <= Len(r))
    <3>1. ~(i <= Len(Tail(r))) /\ i - Len(Tail(r)) = i + 1 - Len(r)
      BY <1>1, <1>4, <2>1, <2>4
    <3> QED
      BY <1>3, <1>6, <2>1, <2>2, <2>4, <3>1
  <2> QED
    BY <2>3, <2>4
<1>11. Tail(g) = u
  BY <1>5, <1>8, <1>9, <1>10, SeqEqual
<1>12. Head(g) = Head(r)
  <2>1. 1 \in 1..(Len(r) + Len(h)) /\ 1 <= Len(r)
    BY <1>1
  <2>2. g[1] = r[1]
    BY <1>3, <2>1
  <2> QED
    BY <2>2
<1> QED
  BY <1>7, <1>11, <1>12 DEF g, u

(* The first of the events that follow position n of the log moves the      *)
(* position by one.                                                         *)
LEMMA TailFollows ==
    ASSUME NEW l \in Seq(Event), \A i \in 1..Len(l) : l[i].seq = i,
           NEW got \in Seq(Event), got # <<>>, NEW n \in Nat, n + Len(got) <= Len(l),
           \A i \in 1..Len(got) : got[i] = l[n + i]
    PROVE  /\ Head(got).seq = n + 1
           /\ (n + 1) + Len(Tail(got)) = n + Len(got)
           /\ \A i \in 1..Len(Tail(got)) : Tail(got)[i] = l[(n + 1) + i]
<1>1. Len(got) \in Nat \ {0} /\ Len(l) \in Nat
  BY EmptySeq, LenProperties
<1> DEFINE t == Tail(got)
<1>2. Len(t) = Len(got) - 1 /\ \A i \in 1..Len(t) : t[i] = got[i + 1]
  BY HeadTailProperties
<1>3. Head(got).seq = n + 1
  <2>1. n + 1 \in 1..Len(l) /\ 1 \in 1..Len(got)
    BY <1>1
  <2>2. got[1] = l[n + 1]
    BY <2>1
  <2>3. Head(got) = got[1]
    OBVIOUS
  <2> QED
    BY <2>1, <2>2, <2>3
<1> HIDE DEF t
<1>4. (n + 1) + Len(t) = n + Len(got)
  BY <1>1, <1>2
<1>5. ASSUME NEW i \in 1..Len(t) PROVE t[i] = l[(n + 1) + i]
  <2>1. i + 1 \in 1..Len(got) /\ n + (i + 1) = (n + 1) + i
    BY <1>1, <1>2
  <2>2. got[i + 1] = l[n + (i + 1)]
    BY <2>1
  <2> QED
    BY <1>2, <2>1, <2>2
<1> QED
  BY <1>3, <1>4, <1>5 DEF t

(* The first of the events a reader is owed moves its cursor by one.        *)
LEMMA ConsumeOwed ==
    ASSUME IInv, NEW c \in Clients, Attached(c),
           NEW got \in Seq(Event), got = sub[c].replay \o sub[c].chan, got # <<>>,
           sub'[c].replay \o sub'[c].chan = Tail(got), sub'[c].state = sub[c].state,
           last'[c] = Head(got), UNCHANGED <<mode, log, holder>>
    PROVE  Attached(c)' => Running /\ Owed(c)'
<1> DEFINE n == Cursor(c)
<1>1. TypeInv /\ n \in Nat /\ log \in Seq(Event) /\ Len(log) \in Nat
  BY Typed, TypedReader DEF IInv
<1>2. Running /\ Owed(c)
  BY DEF IInv, Deliveries
<1>3. /\ n + Len(got) <= FannedOut
      /\ sub[c].state = "live" => n + Len(got) = FannedOut
      /\ \A i \in 1..Len(got) : got[i] = log[n + i]
  BY <1>2 DEF Owed
<1>4. FannedOut <= Len(log) /\ FannedOut \in Int /\ FannedOut' = FannedOut
  BY <1>1 DEF FannedOut
<1>5. \A i \in 1..Len(log) : log[i].seq = i
  BY DEF IInv, Numbered
<1> HIDE DEF n
<1>6. n + Len(got) <= Len(log)
  <2>1. Len(got) \in Nat
    BY LenProperties
  <2>2. \A m \in Nat : n + m <= FannedOut => n + m <= Len(log)
    BY <1>1, <1>4
  <2> QED
    BY <1>3, <2>1, <2>2
<1>7. /\ Head(got).seq = n + 1
      /\ (n + 1) + Len(Tail(got)) = n + Len(got)
      /\ \A i \in 1..Len(Tail(got)) : Tail(got)[i] = log[(n + 1) + i]
  BY <1>1, <1>3, <1>5, <1>6, TailFollows
<1>8. Cursor(c)' = n + 1
  BY <1>7 DEF Cursor
<1> QED
  BY <1>2, <1>3, <1>4, <1>7, <1>8 DEF Owed

LEMMA DeliverConsume ==
    ASSUME IInv, TypeInv', NEW c \in Clients, ConsumeReplay(c) \/ ConsumeLive(c)
    PROVE  IInv'
<1>1. /\ TypeInv
      /\ sub \in [Clients -> Connections] /\ last \in [Clients -> Event \cup {NoEvent}]
      /\ sub[c].replay \in Seq(Event) /\ sub[c].chan \in Seq(Event)
  BY TypedReader DEF IInv, TypeInv, TypeOK
<1>2. /\ Attached(c)
      /\ UNCHANGED <<mode, holder, stage, log, life, retained, queue, failed, dirty,
                     file, synced, torn, shadow, budget>>
  BY DEF ConsumeReplay, ConsumeLive, window, writer, disk
<1>3. /\ \A d \in Clients \ {c} : sub'[d] = sub[d] /\ last'[d] = last[d]
      /\ sub'[c].state = sub[c].state
  BY <1>1 DEF ConsumeReplay, ConsumeLive, Connections
<1> DEFINE got == sub[c].replay \o sub[c].chan
<1>4. got \in Seq(Event)
  BY <1>1, ConcatProperties
<1>5. /\ got # <<>> /\ last'[c] = Head(got)
      /\ sub'[c].replay \o sub'[c].chan = Tail(got)
  <2>1. CASE ConsumeReplay(c)
    <3> DEFINE r == sub[c].replay
               h == sub[c].chan
    <3>1. r # <<>> /\ last'[c] = Head(r) /\ sub'[c].replay = Tail(r) /\ sub'[c].chan = h
      BY <1>1, <2>1 DEF ConsumeReplay, Connections
    <3>2. r \in Seq(Event) /\ h \in Seq(Event)
      BY <1>1
    <3> HIDE DEF r, h
    <3>3. r \o h # <<>> /\ Head(r \o h) = Head(r) /\ Tail(r \o h) = Tail(r) \o h
      BY <3>1, <3>2, HeadTailConcat
    <3> QED
      BY <3>1, <3>3 DEF r, h
  <2>2. CASE ConsumeLive(c)
    <3> DEFINE r == sub[c].replay
               h == sub[c].chan
    <3>1. /\ r = <<>> /\ h # <<>> /\ last'[c] = Head(h)
          /\ sub'[c].replay = r /\ sub'[c].chan = Tail(h)
      BY <1>1, <2>2 DEF ConsumeLive, ReplayRead, Connections
    <3>2. h \in Seq(Event) /\ Tail(h) \in Seq(Event)
      BY <1>1, <3>1, HeadTailProperties
    <3> HIDE DEF r, h
    <3>3. r \o h = h /\ r \o Tail(h) = Tail(h)
      BY <3>1, <3>2, ConcatEmptySeq
    <3> QED
      BY <3>1, <3>3 DEF r, h
  <2> QED
    BY <2>1, <2>2
<1> HIDE DEF got
<1>6. Attached(c)' => Running /\ Owed(c)'
  BY <1>2, <1>3, <1>4, <1>5, ConsumeOwed DEF got
<1>7. holder # c
  BY <1>2 DEF IInv, Held, Attached
<1> QED
  BY <1>2, <1>3, <1>6, <1>7, ReaderFrame

-----------------------------------------------------------------------------
(* The steps that take the mutex, hold it and let it go.                    *)

(* A step that leaves the readers alone owes them what it owed them.        *)
LEMMA SameOwed ==
    ASSUME IInv, UNCHANGED <<log, sub, last>>, FannedOut' = FannedOut, Running'
    PROVE  Deliveries'
BY DEF IInv, Deliveries, Attached, Owed, Cursor

LEMMA DeliverReading ==
    ASSUME IInv, TypeInv', NEW c \in Clients, SubscribeFromDisk(c)
    PROVE  IInv'
<1>1. /\ Running /\ holder = Free /\ sub[c].state = "detached"
      /\ Cursor(c) <= Len(log) /\ Spill /\ holder' = c /\ stage' = FirstStage
      /\ UNCHANGED <<mode, log, life, retained, queue, failed, dirty,
                     file, synced, torn, shadow, sub, last, budget>>
  BY DEF SubscribeFromDisk, CanSubscribe, window, writer, disk
<1>2. c \notin {Free, Publisher, Closer} /\ Free \notin Clients
  BY HoldersAssumption
<1>3. Numbered' /\ NoFailure' /\ WindowBlock' /\ FileBlock'
  BY <1>1 DEF IInv, Numbered, NoFailure, WindowBlock, FileBlock, Running, BlockOf, End
<1>4. stage = "idle" /\ stage' \in {"barrier", "flushed"}
  BY <1>1, <1>2 DEF IInv, Held, FirstStage
<1>5. stage' = "barrier" => mode = "open"
  BY <1>1 DEF FirstStage, SpillOpen
<1>6. stage' = "flushed" => queue = <<>>
  <2>1. mode # "open" => mode = "closed"
    BY <1>1 DEF Running
  <2>2. stage' = "flushed" => mode # "open"
    BY <1>1 DEF FirstStage, SpillOpen, Free, Closer
  <2> QED
    BY <2>1, <2>2 DEF IInv, Held
<1>7. Held'
  BY <1>1, <1>2, <1>4, <1>5, <1>6 DEF IInv, Held, Running, Cursor
<1>8. FannedOut' = FannedOut
  BY <1>1, <1>2 DEF FannedOut, Free, Publisher
<1>9. QueueCarries'
  BY <1>1, <1>4, <1>8 DEF IInv, QueueCarries, Running, BlockOf, End, Begun, Waiting
<1>10. Deliveries'
  BY <1>1, <1>8, SameOwed DEF Running
<1> QED
  BY <1>3, <1>7, <1>9, <1>10 DEF IInv

(* An op more in the queue.                                                 *)
LEMMA Queued ==
    ASSUME TypeInv, NEW o \in Ops, queue' = Append(queue, o), o.kind # "sync"
    PROVE  /\ queue' # <<>> /\ Len(queue') = Len(queue) + 1 /\ Len(queue) \in Nat
           /\ \A i \in 1..Len(queue) : queue'[i] = queue[i]
           /\ queue'[Len(queue')] = o
           /\ \A i \in 1..Len(queue') : i \in 1..Len(queue) \/ i = Len(queue')
           /\ Begun' = Begun
<1>1. queue \in Seq(Ops) /\ Len(queue) \in Nat
  BY Typed
<1>2. /\ queue' \in Seq(Ops) /\ Len(queue') = Len(queue) + 1
      /\ \A i \in 1..Len(queue) : queue'[i] = queue[i]
      /\ queue'[Len(queue) + 1] = o
  BY <1>1, AppendProperties
<1>3. queue' # <<>>
  <2>1. Len(queue') # 0
    BY <1>1, <1>2
  <2> QED
    BY <2>1, EmptySeq
<1>4. \A i \in 1..Len(queue') : i \in 1..Len(queue) \/ i = Len(queue')
  BY <1>1, <1>2
<1>5. Begun' = Begun
  <2>1. CASE queue = <<>>
    <3>1. Len(queue) = 0
      BY <2>1, EmptySeq
    <3>2. queue'[1] = o
      BY <1>2, <3>1
    <3> QED
      BY <2>1, <3>2 DEF Begun
  <2>2. CASE queue # <<>>
    <3>1. 1 \in 1..Len(queue)
      BY <1>1, <2>2, EmptySeq
    <3> QED
      BY <1>2, <1>3, <2>2, <3>1 DEF Begun
  <2> QED
    BY <2>1, <2>2
<1> QED
  BY <1>1, <1>2, <1>3, <1>4, <1>5

LEMMA DeliverBarrier ==
    ASSUME IInv, TypeInv', NEW c \in Clients, SendBarrier(c)
    PROVE  IInv'
<1> DEFINE o == Op("barrier", <<>>, FALSE)
<1>1. /\ holder = c /\ stage = "barrier" /\ stage' = "wait"
      /\ queue' = Append(queue, o)
      /\ UNCHANGED <<mode, holder, log, life, retained, failed, dirty,
                     file, synced, torn, shadow, sub, last, budget>>
  BY DEF SendBarrier, window, disk
<1>2. o \in Ops /\ o.kind = "barrier"
  BY DEF Op, Ops
<1> HIDE DEF o
<1>3. TypeInv
  BY DEF IInv
<1>4. /\ queue' # <<>> /\ Len(queue') = Len(queue) + 1 /\ Len(queue) \in Nat
      /\ \A i \in 1..Len(queue) : queue'[i] = queue[i]
      /\ queue'[Len(queue')] = o
      /\ \A i \in 1..Len(queue') : i \in 1..Len(queue) \/ i = Len(queue')
      /\ Begun' = Begun
  BY <1>1, <1>2, <1>3, Queued
<1>5. Numbered' /\ NoFailure' /\ WindowBlock' /\ FileBlock'
  BY <1>1 DEF IInv, Numbered, NoFailure, WindowBlock, FileBlock, Running, BlockOf, End
<1>6. mode = "open" /\ Spill
  BY <1>1 DEF IInv, Held
<1>7. Held'
  BY <1>1, <1>6 DEF IInv, Held, Cursor
<1>8. FannedOut' = FannedOut /\ Running /\ Running'
  BY <1>1, <1>6 DEF FannedOut, Running
<1>9. QueueCarries'
  <2>1. ASSUME NEW i \in 1..Len(queue'), i \in 1..Len(queue)
        PROVE  /\ queue'[i].kind = "sync" => i = 1
               /\ queue'[i].kind # "barrier" /\ i # Len(queue')
               /\ queue'[i].kind \in {"append", "rewrite"} =>
                      /\ BlockOf(queue'[i].frames, log')
                      /\ queue'[i].frames # <<>>
                      /\ End(queue'[i].frames) = End(file') + i - Begun'
               /\ queue'[i].kind = "append" => Len(queue'[i].frames) = 1
    <3>1. queue'[i] = queue[i] /\ i # Len(queue')
      BY <1>4, <2>1
    <3> QED
      BY <1>1, <1>4, <2>1, <3>1 DEF IInv, QueueCarries
  <2>2. Spill /\ Running' => End(file') + Len(queue') - Begun' - Waiting' = FannedOut'
    <3>1. End(file) + Len(queue) - Begun - 0 = FannedOut
      BY <1>1, <1>6, <1>8 DEF IInv, QueueCarries, Waiting
    <3>2. End(file) \in Nat /\ Begun \in Nat
      <4>1. End(file) \in 0..Len(log)
        BY <1>3, Typed, BlockSeqs DEF IInv, FileBlock
      <4> QED
        BY <1>3, <4>1, Typed DEF Begun
    <3>3. End(file') = End(file) /\ Waiting' = 1
      BY <1>1 DEF Waiting
    <3> QED
      BY <1>4, <1>8, <3>1, <3>2, <3>3
  <2>3. \A i \in 1..Len(queue') :
            /\ queue'[i].kind = "sync" => i = 1
            /\ queue'[i].kind = "barrier" <=> (stage' = "wait" /\ i = Len(queue'))
            /\ queue'[i].kind \in {"append", "rewrite"} =>
                  /\ BlockOf(queue'[i].frames, log')
                  /\ queue'[i].frames # <<>>
                  /\ End(queue'[i].frames) = End(file') + i - Begun'
            /\ queue'[i].kind = "append" => Len(queue'[i].frames) = 1
    BY <1>1, <1>2, <1>4, <2>1
  <2> QED
    BY <1>4, <1>6, <2>2, <2>3 DEF QueueCarries
<1>10. Deliveries'
  BY <1>1, <1>8, SameOwed
<1> QED
  BY <1>5, <1>7, <1>9, <1>10 DEF IInv

(* The reader that has waited for its barrier finds a file that ends where  *)
(* the log ends.                                                            *)
LEMMA FileServes ==
    ASSUME IInv, NEW c \in Clients, holder = c, stage = "flushed",
           NEW k \in Cuts(file), IsAfter(file, Cursor(c), k), ~Gap(Cursor(c), k)
    PROVE  /\ Cursor(c) + Len(From(file, k)) = Len(log)
           /\ \A i \in 1..Len(From(file, k)) : From(file, k)[i] = log[Cursor(c) + i]
<1> DEFINE n == Cursor(c)
<1>1. TypeInv /\ n \in Nat /\ log \in Seq(Event) /\ file \in Seq(Event) /\ Len(log) \in Nat
  BY Typed, TypedReader DEF IInv
<1>2. Spill /\ n <= Len(log) /\ queue = <<>> /\ BlockOf(file, log)
  BY DEF IInv, Held, FileBlock
<1>3. Running
  <2>1. mode \notin {"down", "refused"}
    BY HoldersAssumption DEF IInv, Held
  <2> QED
    BY <1>1, <2>1 DEF Running, TypeInv, TypeOK
<1>4. FannedOut = Len(log)
  BY HoldersAssumption DEF FannedOut
<1>5. End(file) = Len(log)
  <2>1. End(file) + Len(queue) - Begun - Waiting = Len(log)
    BY <1>2, <1>3, <1>4 DEF IInv, QueueCarries
  <2>2. Begun = 0 /\ Waiting = 0 /\ Len(queue) = 0
    BY <1>2, EmptySeq DEF Begun, Waiting
  <2>3. End(file) \in 0..Len(log)
    BY <1>1, <1>2, BlockSeqs
  <2> QED
    BY <1>1, <2>1, <2>2, <2>3
<1>6. IF file = <<>> THEN n = Len(log) ELSE End(file) = Len(log)
  BY <1>1, <1>2, <1>5 DEF End
<1>7. k <= Len(file) => file[k].seq <= n + 1
  <2> HAVE k <= Len(file)
  <2>1. ~(file[k].seq > n + 1)
    BY DEF Gap
  <2>2. file[k].seq \in Nat
    <3>1. k \in 1..Len(file)
      BY <1>1, LenProperties DEF Cuts
    <3> QED
      BY <1>1, <1>2, <3>1, BlockSeqs
  <2> HIDE DEF n
  <2> QED
    BY <1>1, <2>1, <2>2
<1> HIDE DEF n
<1>8. IsAfter(file, n, k)
  BY DEF n
<1> QED
  BY <1>1, <1>2, <1>6, <1>7, <1>8, AfterCursor DEF n

LEMMA DeliverDisk ==
    ASSUME IInv, TypeInv', NEW c \in Clients, FinishRead(c)
    PROVE  IInv'
<1>1. /\ holder = c /\ stage = "flushed" /\ holder' = Free /\ stage' = "idle"
      /\ UNCHANGED <<mode, log, life, retained, queue, failed, dirty,
                     file, synced, torn, shadow, last, budget>>
  BY DEF FinishRead, window, writer, disk
<1>2. /\ TypeInv /\ sub \in [Clients -> Connections]
      /\ c \notin {Free, Publisher, Closer} /\ Free \notin Clients
  BY HoldersAssumption DEF IInv, TypeInv, TypeOK
<1>3. sub[c].state = "detached"
  BY <1>1 DEF IInv, Held
<1>4. Running /\ FannedOut' = FannedOut /\ FannedOut = Len(log)
  <2>1. mode \notin {"down", "refused"}
    BY <1>1, <1>2 DEF IInv, Held
  <2> QED
    BY <1>1, <1>2, <2>1 DEF Running, TypeInv, TypeOK, FannedOut, Free, Publisher
<1>5. Numbered' /\ NoFailure' /\ WindowBlock' /\ FileBlock'
  BY <1>1 DEF IInv, Numbered, NoFailure, WindowBlock, FileBlock, Running, BlockOf, End
<1>6. Held'
  BY <1>1, <1>2 DEF IInv, Held, Cursor, Free, Publisher, Closer
<1>7. QueueCarries'
  BY <1>1, <1>4 DEF IInv, QueueCarries, Running, BlockOf, End, Begun, Waiting
<1>8. Deliveries'
  <2>1. ASSUME NEW d \in Clients, d # c, Attached(d)' PROVE Owed(d)'
    <3>1. sub'[d] = sub[d] /\ last'[d] = last[d]
      BY <1>1, <1>2, <2>1 DEF FinishRead, Attach
    <3>2. Attached(d) /\ Owed(d)
      BY <2>1, <3>1 DEF Attached, IInv, Deliveries
    <3> QED
      BY <1>1, <1>4, <3>1, <3>2 DEF Owed, Cursor
  <2>2. ASSUME Attached(c)' PROVE Owed(c)'
    <3>1. sub'[c].state # "detached" /\ sub'[c].state # "expired"
      BY <2>2 DEF Attached
    <3>2. PICK k \in Cuts(file) :
              /\ IsAfter(file, Cursor(c), k)
              /\ ~Gap(Cursor(c), k)
              /\ Attach(c, From(file, k))
      BY <1>2, <1>3, <3>1 DEF FinishRead, Connections
    <3>3. file \in Seq(Event)
      BY <1>2, Typed
    <3>4. From(file, k) \in Seq(Event)
      BY <3>3, FromProperties
    <3>5. /\ Cursor(c) + Len(From(file, k)) = Len(log)
          /\ \A i \in 1..Len(From(file, k)) : From(file, k)[i] = log[Cursor(c) + i]
      BY <1>1, <3>2, FileServes
    <3>6. holder' # Publisher
      BY <1>1 DEF Free, Publisher
    <3> QED
      BY <1>1, <1>2, <3>2, <3>4, <3>5, <3>6, AttachOwed
  <2> QED
    BY <1>1, <1>4, <2>1, <2>2 DEF Deliveries, Running
<1> QED
  BY <1>5, <1>6, <1>7, <1>8 DEF IInv

LEMMA DeliverPublish ==
    ASSUME Orderly, IInv, TypeInv', NEW k \in Kinds, Publish(k)
    PROVE  IInv'
<1> DEFINE e == [seq |-> Len(log) + 1, life |-> life, size |-> k.size, sync |-> k.sync]
           grown == Append(retained, e)
<1>1. /\ Running /\ holder = Free /\ (mode = "closed" => LatePublish)
      /\ log' = Append(log, e) /\ holder' = Publisher
      /\ UNCHANGED <<mode, stage, queue, failed, dirty, file, synced, torn, shadow,
                     sub, last, budget>>
  BY DEF Publish, writer, disk
<1>2. PICK n \in Cuts(grown) : IsTrim(grown, n) /\ retained' = From(grown, n)
  BY DEF Publish
<1>3. /\ TypeInv /\ log \in Seq(Event) /\ retained \in Seq(Event) /\ Len(log) \in Nat
      /\ log' \in Seq(Event)
  BY Typed DEF IInv, TypeInv, TypeOK
<1>4. e \in Event /\ e.seq = Len(log) + 1
  <2>1. log'[Len(log) + 1] = e /\ Len(log) + 1 \in 1..Len(log')
    BY <1>1, <1>3, AppendProperties
  <2>2. log'[Len(log) + 1] \in Event
    BY <1>3, <2>1, ElementOfSeq
  <2> QED
    BY <2>1, <2>2
<1> HIDE DEF e
<1>5. /\ Len(log') = Len(log) + 1 /\ log'[Len(log) + 1] = e
      /\ \A i \in 1..Len(log) : log'[i] = log[i]
  BY <1>1, <1>3, <1>4, AppendProperties
<1>6. \A s \in Seq(Event) : BlockOf(s, log) => BlockOf(s, log')
  BY <1>1, <1>3, <1>4, BlockExtend
<1>7. Numbered'
  BY <1>3, <1>4, <1>5 DEF IInv, Numbered
<1>8. NoFailure' /\ FileBlock'
  BY <1>1, <1>3, <1>6, Typed DEF IInv, NoFailure, FileBlock
<1>9. retained' # <<>> /\ WindowBlock'
  <2>1. <<e>> \in Seq(Event) /\ Len(<<e>>) = 1 /\ <<e>>[1] = e
    BY <1>4
  <2>2. BlockOf(<<e>>, log') /\ End(<<e>>) = Len(log')
    <3>1. e.seq \in 1..Len(log') /\ e = log'[e.seq]
      BY <1>3, <1>4, <1>5
    <3>2. \A i \in 1..1 : i = 1
      OBVIOUS
    <3>3. BlockOf(<<e>>, log')
      BY <2>1, <3>1, <3>2, <1>4, <1>3 DEF BlockOf
    <3>4. <<e>> # <<>>
      OBVIOUS
    <3> QED
      BY <1>4, <1>5, <2>1, <3>3, <3>4 DEF End
  <2>3. BlockOf(retained, log') /\ (retained # <<>> => End(retained) = Len(log))
    BY <1>1, <1>3, <1>6 DEF IInv, WindowBlock
  <2>4. grown = retained \o <<e>>
    BY <1>3, <1>4, AppendIsConcat
  <2> DEFINE one == <<e>>
  <2>5. one \in Seq(Event) /\ Len(one) = 1 /\ BlockOf(one, log') /\ End(one) = Len(log')
    BY <2>1, <2>2
  <2>6. grown \in Seq(Event) /\ grown = retained \o one
    BY <1>3, <1>4, <2>4, AppendProperties
  <2> HIDE DEF one, grown
  <2>7. retained # <<>> => End(one) = End(retained) + 1
    BY <1>5, <2>3, <2>5
  <2>8. BlockOf(grown, log') /\ grown # <<>> /\ End(grown) = Len(log')
    BY <1>3, <2>3, <2>5, <2>6, <2>7, BlockConcat
  <2>9. /\ From(grown, n) # <<>> /\ BlockOf(From(grown, n), log')
        /\ End(From(grown, n)) = Len(log')
    BY <1>2, <1>3, <2>6, <2>8, TrimKeeps, BlockFrom
  <2> QED
    BY <1>2, <2>9 DEF WindowBlock, grown
<1>10. Held'
  <2>1. Spill => mode = "open"
    BY <1>1 DEF Orderly, Running
  <2>2. Publisher \notin Clients /\ Free \notin Clients
    BY HoldersAssumption
  <2>3. stage = "idle"
    BY <1>1, <2>2 DEF IInv, Held
  <2> QED
    BY <1>1, <1>9, <2>1, <2>2, <2>3 DEF IInv, Held, Running, Free, Publisher, Closer
<1>11. FannedOut' = FannedOut /\ FannedOut = Len(log)
  BY <1>1, <1>3, <1>5 DEF FannedOut, Free, Publisher
<1>12. QueueCarries'
  <2>1. \A i \in 1..Len(queue) : queue[i].frames \in Seq(Event)
    <3>1. \A i \in 1..Len(queue) : queue[i] \in Ops
      BY <1>3, Typed, ElementOfSeq
    <3> QED
      BY <3>1 DEF Ops
  <2> QED
    BY <1>1, <1>6, <1>11, <2>1 DEF IInv, QueueCarries, Running, Begun, Waiting
<1>13. Deliveries'
  <2>1. ASSUME NEW c \in Clients, Attached(c)' PROVE Running' /\ Owed(c)'
    <3>1. Attached(c) /\ sub'[c] = sub[c] /\ Cursor(c)' = Cursor(c)
      BY <1>1, <2>1 DEF Attached, Cursor
    <3> DEFINE got == sub[c].replay \o sub[c].chan
               m == Cursor(c)
    <3>2. Running /\ Owed(c) /\ m \in Nat /\ got \in Seq(Event)
      BY <1>3, <3>1, TypedReader, ConcatProperties DEF IInv, Deliveries
    <3>3. /\ m + Len(got) <= FannedOut
          /\ sub[c].state = "live" => m + Len(got) = FannedOut
          /\ \A i \in 1..Len(got) : got[i] = log[m + i]
      BY <3>2 DEF Owed
    <3>4. got = sub'[c].replay \o sub'[c].chan
      BY <3>1
    <3> HIDE DEF got, m
    <3>5. Len(got) \in Nat
      BY <3>2, LenProperties
    <3>6. \A i \in 1..Len(got) : m + i \in 1..Len(log)
      BY <1>3, <1>11, <3>2, <3>3, <3>5
    <3>7. \A i \in 1..Len(got) : got[i] = log'[m + i]
      BY <1>5, <3>3, <3>6
    <3>8. Cursor(c)' = m /\ sub'[c].state = sub[c].state
      BY <3>1 DEF m
    <3> QED
      BY <1>1, <1>11, <3>2, <3>3, <3>4, <3>7, <3>8 DEF Owed, Running
  <2> QED
    BY <2>1 DEF Deliveries
<1> QED
  BY <1>7, <1>8, <1>9, <1>10, <1>12, <1>13 DEF IInv

LEMMA ConcatAppend ==
    ASSUME NEW S, NEW r \in Seq(S), NEW h \in Seq(S), NEW e \in S
    PROVE  r \o Append(h, e) = Append(r \o h, e)
<1> DEFINE one == <<e>>
           g == r \o h
<1>1. one \in Seq(S) /\ Append(h, e) = h \o one
  BY AppendIsConcat
<1>2. g \in Seq(S)
  BY ConcatProperties
<1>3. Append(g, e) = g \o one
  BY <1>2, AppendIsConcat
<1> HIDE DEF one
<1>4. (r \o h) \o one = r \o (h \o one)
  BY <1>1, ConcatAssociative
<1> QED
  BY <1>1, <1>3, <1>4

(* Fanning the last event out gives it to the writer and to the readers.    *)
LEMMA FanOutOp ==
    ASSUME IInv, FanOut, SpillOpen
    PROVE  \E o \in Ops :
              /\ queue' = Append(queue, o)
              /\ o.kind \in {"append", "rewrite"}
              /\ o.kind = "append" => Len(o.frames) = 1
              /\ o.frames # <<>> /\ BlockOf(o.frames, log) /\ End(o.frames) = Len(log)
<1> DEFINE e == log[Len(log)]
<1>1. /\ TypeInv /\ log \in Seq(Event) /\ retained \in Seq(Event) /\ log # <<>>
      /\ holder = Publisher
  BY Typed DEF IInv, FanOut, TypeInv
<1>2. Len(log) \in 1..Len(log) /\ e \in Event
  BY <1>1, EmptySeq, ElementOfSeq
<1>3. e.seq = Len(log) /\ e = log[e.seq]
  BY <1>2 DEF IInv, Numbered
<1>4. enqueueSpill(e)
  BY DEF FanOut
<1> DEFINE one == <<e>>
<1>5. /\ one \in Seq(Event) /\ Len(one) = 1 /\ one # <<>>
      /\ BlockOf(one, log) /\ End(one) = Len(log)
  <2>1. one \in Seq(Event) /\ Len(one) = 1 /\ one[1] = e /\ one # <<>>
    BY <1>2
  <2>2. \A i \in 1..1 : i = 1
    OBVIOUS
  <2>3. e.seq \in 1..Len(log) /\ e.seq \in Int
    BY <1>2, <1>3
  <2> HIDE DEF one, e
  <2>4. BlockOf(one, log)
    BY <1>3, <2>1, <2>2, <2>3 DEF BlockOf
  <2> QED
    BY <1>3, <2>1, <2>4 DEF End
<1>6. /\ retained # <<>> /\ BlockOf(retained, log) /\ End(retained) = Len(log)
  BY <1>1 DEF IInv, Held, WindowBlock, SpillOpen, Running
<1>7. e.sync \in BOOLEAN
  BY <1>2 DEF Event
<1> HIDE DEF one
<1>8. /\ Op("append", one, e.sync) \in Ops /\ Op("rewrite", retained, e.sync) \in Ops
  BY <1>1, <1>5, <1>7 DEF Op, Ops
<1>9. \/ queue' = Append(queue, Op("append", one, e.sync))
      \/ queue' = Append(queue, Op("rewrite", retained, e.sync))
  BY <1>4 DEF enqueueSpill, RewriteFrames, one
<1>10. /\ Op("append", one, e.sync).kind = "append"
       /\ Op("append", one, e.sync).frames = one
       /\ Op("rewrite", retained, e.sync).kind = "rewrite"
       /\ Op("rewrite", retained, e.sync).frames = retained
  BY DEF Op
<1> QED
  BY <1>5, <1>6, <1>8, <1>9, <1>10

LEMMA OfferedOwed ==
    ASSUME IInv, TypeInv', FanOut, NEW c \in Clients, Attached(c)'
    PROVE  Running' /\ Owed(c)'
<1> DEFINE e == log[Len(log)]
           s == sub[c]
           got == s.replay \o s.chan
           m == Cursor(c)
<1>1. /\ TypeInv /\ log \in Seq(Event) /\ holder = Publisher /\ holder' = Free
      /\ m \in Nat /\ s \in Connections /\ s.replay \in Seq(Event) /\ s.chan \in Seq(Event)
      /\ UNCHANGED <<mode, log, last>>
  BY Typed, TypedReader DEF IInv, FanOut, window
<1>2. sub'[c] = Offered(s, e)
  BY DEF FanOut
<1>3. Attached(c)
  BY <1>1, <1>2 DEF Attached, Offered, Connections
<1>4. Running /\ Owed(c)
  BY <1>3 DEF IInv, Deliveries
<1>5. Len(log) \in Nat \ {0} /\ e \in Event
  <2>1. Len(log) \in Nat \ {0}
    BY <1>1, EmptySeq DEF TypeInv
  <2> QED
    BY <1>1, <2>1, ElementOfSeq
<1>6. FannedOut = Len(log) - 1 /\ FannedOut' = Len(log)
  BY <1>1 DEF FannedOut, Free, Publisher
<1>7. got \in Seq(Event) /\ Len(got) \in Nat
  BY <1>1, ConcatProperties, LenProperties
<1>8. /\ m + Len(got) <= Len(log) - 1
      /\ s.state = "live" => m + Len(got) = Len(log) - 1
      /\ \A i \in 1..Len(got) : got[i] = log[m + i]
  BY <1>4, <1>6 DEF Owed
<1>9. CASE sub'[c].replay = s.replay /\ sub'[c].chan = s.chan /\ sub'[c].state # "live"
  <2>1. sub'[c].replay \o sub'[c].chan = got /\ Cursor(c)' = m
    BY <1>1, <1>9 DEF Cursor
  <2> HIDE DEF got, m, s
  <2>2. m + Len(got) <= Len(log)
    BY <1>1, <1>5, <1>7, <1>8
  <2> QED
    BY <1>1, <1>4, <1>6, <1>8, <1>9, <2>1, <2>2 DEF Owed, Running
<1>10. CASE s.state = "live" /\ sub'[c].replay = s.replay /\ sub'[c].chan = Append(s.chan, e)
  <2> DEFINE more == Append(got, e)
  <2>1. sub'[c].replay \o sub'[c].chan = s.replay \o Append(s.chan, e) /\ Cursor(c)' = m
    BY <1>1, <1>10 DEF Cursor
  <2>2. s.replay \o Append(s.chan, e) = more
    <3> DEFINE r == s.replay
               h == s.chan
    <3>1. r \in Seq(Event) /\ h \in Seq(Event) /\ e \in Event
      BY <1>1, <1>5
    <3> HIDE DEF r, h, e
    <3>2. r \o Append(h, e) = Append(r \o h, e)
      BY <3>1, ConcatAppend
    <3> QED
      BY <3>2 DEF r, h
  <2> HIDE DEF got, m, s, e
  <2>3. /\ Len(more) = Len(got) + 1 /\ more[Len(got) + 1] = e
        /\ \A i \in 1..Len(got) : more[i] = got[i]
    BY <1>5, <1>7, AppendProperties
  <2> HIDE DEF more
  <2>4. m + Len(more) = Len(log) /\ m + (Len(got) + 1) = Len(log)
    BY <1>1, <1>5, <1>7, <1>8, <1>10, <2>3
  <2>5. ASSUME NEW i \in 1..Len(more) PROVE more[i] = log[m + i]
    <3>1. i \in 1..Len(got) \/ i = Len(got) + 1
      BY <1>7, <2>3
    <3>2. e = log[Len(log)]
      BY DEF e
    <3> QED
      BY <1>8, <2>3, <2>4, <3>1, <3>2
  <2>6. m + Len(more) <= Len(log)
    BY <1>5, <2>4
  <2> QED
    BY <1>1, <1>4, <1>6, <2>1, <2>2, <2>4, <2>5, <2>6 DEF Owed, Running
<1> QED
  BY <1>1, <1>2, <1>9, <1>10 DEF Offered, Connections

LEMMA DeliverFanOut ==
    ASSUME IInv, TypeInv', FanOut
    PROVE  IInv'
<1>1. /\ holder = Publisher /\ holder' = Free
      /\ UNCHANGED <<mode, stage, log, life, retained, failed, dirty, file, synced,
                     torn, shadow, last, budget>>
  BY DEF FanOut, window, disk
<1>2. TypeInv /\ Publisher \notin Clients /\ Free \notin Clients
  BY HoldersAssumption DEF IInv
<1>3. stage = "idle" /\ (Spill => mode = "open") /\ mode \notin {"down", "refused"}
  BY <1>1, <1>2 DEF IInv, Held, Free, Publisher
<1>4. Numbered' /\ NoFailure' /\ WindowBlock' /\ FileBlock'
  BY <1>1 DEF IInv, Numbered, NoFailure, WindowBlock, FileBlock, Running, BlockOf, End
<1>5. Running /\ Running' /\ FannedOut = Len(log) - 1 /\ FannedOut' = Len(log)
  BY <1>1, <1>2, <1>3 DEF FannedOut, Free, Publisher, Running, TypeInv, TypeOK
<1>6. CASE SpillOpen
  <2>1. PICK o \in Ops :
              /\ queue' = Append(queue, o)
              /\ o.kind \in {"append", "rewrite"}
              /\ o.kind = "append" => Len(o.frames) = 1
              /\ o.frames # <<>> /\ BlockOf(o.frames, log) /\ End(o.frames) = Len(log)
    BY <1>6, FanOutOp
  <2>2. /\ queue' # <<>> /\ Len(queue') = Len(queue) + 1 /\ Len(queue) \in Nat
        /\ \A i \in 1..Len(queue) : queue'[i] = queue[i]
        /\ queue'[Len(queue')] = o
        /\ \A i \in 1..Len(queue') : i \in 1..Len(queue) \/ i = Len(queue')
        /\ Begun' = Begun
    BY <1>2, <2>1, Queued
  <2>3. Held'
    BY <1>1, <1>2, <1>3, <1>6 DEF Held, Free, Publisher, Closer, SpillOpen
  <2>4. /\ End(file) + Len(queue) - Begun = Len(log) - 1
        /\ End(file) \in Nat /\ Begun \in Nat /\ Len(log) \in Nat
    <3>1. End(file) + Len(queue) - Begun - 0 = Len(log) - 1
      BY <1>3, <1>5, <1>6 DEF IInv, QueueCarries, Waiting, SpillOpen
    <3>2. Len(log) \in Nat /\ Begun \in Nat
      BY <1>2, Typed DEF Begun
    <3>3. End(file) \in 0..Len(log)
      BY <1>2, Typed, BlockSeqs DEF IInv, FileBlock
    <3> QED
      BY <2>2, <3>1, <3>2, <3>3
  <2>5. \A i \in 1..Len(queue') :
            /\ queue'[i].kind = "sync" => i = 1
            /\ queue'[i].kind # "barrier"
            /\ queue'[i].kind \in {"append", "rewrite"} =>
                  /\ BlockOf(queue'[i].frames, log')
                  /\ queue'[i].frames # <<>>
                  /\ End(queue'[i].frames) = End(file') + i - Begun'
            /\ queue'[i].kind = "append" => Len(queue'[i].frames) = 1
    <3> TAKE i \in 1..Len(queue')
    <3>1. CASE i \in 1..Len(queue)
      <4>1. queue'[i] = queue[i]
        BY <2>2, <3>1
      <4> QED
        BY <1>1, <1>3, <2>2, <3>1, <4>1 DEF IInv, QueueCarries
    <3>2. CASE i = Len(queue')
      <4>1. queue'[i] = o /\ Len(log) = End(file) + i - Begun
        BY <2>2, <2>4, <3>2
      <4> QED
        BY <1>1, <2>1, <2>2, <4>1
    <3> QED
      BY <2>2, <3>1, <3>2
  <2>6. End(file') + Len(queue') - Begun' - Waiting' = FannedOut'
    <3>1. Waiting' = 0 /\ End(file') = End(file)
      BY <1>1, <1>3 DEF Waiting
    <3> QED
      BY <1>5, <2>2, <2>4, <3>1
  <2>7. QueueCarries'
    BY <1>1, <1>3, <1>6, <2>2, <2>5, <2>6 DEF QueueCarries, SpillOpen
  <2> QED
    BY <2>3, <2>7, <1>4, OfferedOwed DEF IInv, Deliveries
<1>7. CASE ~SpillOpen
  <2>1. ~Spill
    BY <1>1, <1>3, <1>7 DEF SpillOpen, Publisher, Closer
  <2>2. UNCHANGED queue
    BY <1>7 DEF FanOut
  <2>3. Held'
    BY <1>1, <1>2, <1>3, <2>1, <2>2 DEF IInv, Held, Free, Publisher, Closer
  <2>4. QueueCarries'
    <3>1. queue' = <<>> /\ file' = <<>> /\ shadow' = {} /\ stage' # "wait"
      BY <1>1, <1>3, <2>1, <2>2 DEF IInv, QueueCarries
    <3>2. Len(queue') = 0
      BY <3>1, EmptySeq
    <3> QED
      BY <2>1, <3>1, <3>2 DEF QueueCarries
  <2> QED
    BY <2>3, <2>4, <1>4, OfferedOwed DEF IInv, Deliveries
<1> QED
  BY <1>6, <1>7

-----------------------------------------------------------------------------
(* The steps of the writer.                                                 *)

LEMMA TailEmpty ==
    ASSUME NEW S, NEW q \in Seq(S), q # <<>>, Tail(q) = <<>>
    PROVE  Len(q) = 1
<1> DEFINE t == Tail(q)
<1>1. Len(q) \in Nat /\ Len(t) = Len(q) - 1
  BY LenProperties, HeadTailProperties
<1>2. Len(t) = 0
  BY EmptySeq
<1> HIDE DEF t
<1> QED
  BY <1>1, <1>2

(* A sequence whose head is replaced.                                       *)
LEMMA HeadReplaced ==
    ASSUME NEW S, NEW q \in Seq(S), q # <<>>, NEW o \in S
    PROVE  /\ Len(<<o>> \o Tail(q)) = Len(q)
           /\ (<<o>> \o Tail(q))[1] = o
           /\ \A i \in 1..Len(q) : i # 1 => (<<o>> \o Tail(q))[i] = q[i]
<1> DEFINE one == <<o>>
           t == Tail(q)
           p == one \o t
<1>1. /\ Len(q) \in Nat \ {0} /\ t \in Seq(S) /\ Len(t) = Len(q) - 1
      /\ \A i \in 1..Len(t) : t[i] = q[i + 1]
  BY EmptySeq, HeadTailProperties
<1>2. one \in Seq(S) /\ Len(one) = 1 /\ one[1] = o
  OBVIOUS
<1> HIDE DEF one, t
<1>3. /\ Len(p) = Len(one) + Len(t)
      /\ \A i \in 1..(Len(one) + Len(t)) :
            p[i] = IF i <= Len(one) THEN one[i] ELSE t[i - Len(one)]
  BY <1>1, <1>2, ConcatProperties
<1> HIDE DEF p
<1>4. Len(p) = Len(q) /\ Len(one) + Len(t) = Len(q)
  BY <1>1, <1>2, <1>3
<1>5. p[1] = o
  <2>1. 1 \in 1..(Len(one) + Len(t)) /\ 1 <= Len(one)
    BY <1>1, <1>2
  <2> QED
    BY <1>2, <1>3, <2>1
<1>6. ASSUME NEW i \in 1..Len(q), i # 1 PROVE p[i] = q[i]
  <2>1. /\ i \in 1..(Len(one) + Len(t)) /\ ~(i <= Len(one))
        /\ i - Len(one) \in 1..Len(t) /\ (i - Len(one)) + 1 = i
    BY <1>1, <1>2, <1>4, <1>6
  <2>2. p[i] = t[i - Len(one)]
    BY <1>3, <2>1
  <2>3. t[i - Len(one)] = q[(i - Len(one)) + 1]
    BY <1>1, <2>1
  <2> QED
    BY <2>1, <2>2, <2>3
<1> QED
  BY <1>4, <1>5, <1>6 DEF p, one, t

(* What the invariant says of one op at a place of the queue.               *)
Place(q, i, f, begun, st) ==
    /\ q[i].kind = "sync" => i = 1
    /\ q[i].kind = "barrier" <=> (st = "wait" /\ i = Len(q))
    /\ q[i].kind \in {"append", "rewrite"} =>
          /\ BlockOf(q[i].frames, log)
          /\ q[i].frames # <<>>
          /\ End(q[i].frames) = End(f) + i - begun
    /\ q[i].kind = "append" => Len(q[i].frames) = 1

(* The op at the head is done: what follows moves up.                       *)
LEMMA Dequeued ==
    ASSUME IInv, queue # <<>>, queue' = Tail(queue), UNCHANGED log,
           End(file') = End(file) + 1 - Begun, queue[1].kind # "barrier", UNCHANGED stage
    PROVE  /\ Len(queue') = Len(queue) - 1 /\ Begun' = 0
           /\ stage = "wait" => queue' # <<>>
           /\ \A i \in 1..Len(queue') : Place(queue', i, file', Begun', stage')
<1>1. /\ queue \in Seq(Ops) /\ Len(queue) \in Nat \ {0} /\ TypeInv
  BY Typed, EmptySeq DEF IInv
<1>2. /\ Len(queue') = Len(queue) - 1 /\ queue' \in Seq(Ops)
      /\ \A i \in 1..Len(queue') : queue'[i] = queue[i + 1]
  BY <1>1, HeadTailProperties
<1>3. \A i \in 1..Len(queue) : Place(queue, i, file, Begun, stage)
  BY DEF IInv, QueueCarries, Place
<1>4. End(file) \in Nat /\ Begun \in Nat
  <2>1. End(file) \in 0..Len(log) /\ Len(log) \in Nat
    BY <1>1, Typed, BlockSeqs DEF IInv, FileBlock
  <2> QED
    BY <2>1 DEF Begun
<1>5. Begun' = 0
  <2>1. CASE queue' # <<>>
    <3>1. Len(queue') # 0
      BY <1>2, <2>1, EmptySeq
    <3>2. 1 \in 1..Len(queue') /\ 2 \in 1..Len(queue)
      BY <1>1, <1>2, <3>1
    <3>3. queue'[1] = queue[2]
      BY <1>2, <3>2
    <3>4. queue[2].kind # "sync"
      BY <1>3, <3>2 DEF Place
    <3> QED
      BY <3>3, <3>4 DEF Begun
  <2> QED
    BY <2>1 DEF Begun
<1>6. stage = "wait" => queue' # <<>>
  <2>1. Len(queue) = 1 => stage # "wait"
    <3>1. 1 \in 1..Len(queue)
      BY <1>1
    <3> QED
      BY <1>3, <3>1 DEF Place
  <2>2. queue' = <<>> => Len(queue) = 1
    BY <1>1, TailEmpty
  <2> QED
    BY <2>1, <2>2
<1>7. ASSUME NEW i \in 1..Len(queue')
      PROVE  Place(queue', i, file', 0, stage')
  <2>1. i + 1 \in 1..Len(queue) /\ queue'[i] = queue[i + 1]
    BY <1>1, <1>2
  <2>2. Place(queue, i + 1, file, Begun, stage)
    BY <1>3, <2>1
  <2>3. i + 1 # 1 /\ (i = Len(queue') <=> i + 1 = Len(queue))
    BY <1>1, <1>2
  <2>4. End(file) + (i + 1) - Begun = End(file') + i - 0
    BY <1>4
  <2> QED
    BY <2>1, <2>2, <2>3, <2>4 DEF Place
<1> QED
  BY <1>2, <1>5, <1>6, <1>7

(* The frame is written and its sync takes its place at the head.           *)
LEMMA SyncLeft ==
    ASSUME IInv, queue # <<>>, queue' = <<Op("sync", <<>>, FALSE)>> \o Tail(queue),
           End(file') = End(file) + 1, queue[1].kind \in {"append", "rewrite"},
           UNCHANGED <<stage, log>>
    PROVE  /\ Len(queue') = Len(queue) /\ Begun' = 1 /\ Begun = 0 /\ queue' # <<>>
           /\ \A i \in 1..Len(queue') : Place(queue', i, file', Begun', stage')
<1> DEFINE o == Op("sync", <<>>, FALSE)
<1>1. /\ queue \in Seq(Ops) /\ Len(queue) \in Nat \ {0} /\ TypeInv
  BY Typed, EmptySeq DEF IInv
<1>3. o \in Ops /\ o.kind = "sync"
  BY DEF Op, Ops
<1> HIDE DEF o
<1> DEFINE p == <<o>> \o Tail(queue)
<1>5. Len(p) = Len(queue) /\ p[1] = o /\ \A i \in 1..Len(queue) : i # 1 => p[i] = queue[i]
  BY <1>1, <1>3, HeadReplaced
<1>6. queue' = p
  BY DEF o
<1> HIDE DEF p
<1>7. Len(queue') = Len(queue) /\ queue'[1] = o
  BY <1>5, <1>6
<1>8. ASSUME NEW i \in 1..Len(queue'), i # 1 PROVE queue'[i] = queue[i]
  BY <1>5, <1>6, <1>8
<1>9. queue' # <<>>
  <2>1. Len(queue') # 0
    BY <1>1, <1>7
  <2> QED
    BY <2>1, EmptySeq
<1>10. Begun' = 1 /\ Begun = 0
  BY <1>3, <1>7, <1>9 DEF Begun
<1>11. \A i \in 1..Len(queue) : Place(queue, i, file, Begun, stage)
  BY DEF IInv, QueueCarries, Place
<1>12. End(file) \in Nat
  <2>1. End(file) \in 0..Len(log) /\ Len(log) \in Nat
    BY <1>1, Typed, BlockSeqs DEF IInv, FileBlock
  <2> QED
    BY <2>1
<1>13. ASSUME NEW i \in 1..Len(queue')
       PROVE  Place(queue', i, file', 1, stage')
  <2>1. CASE i = 1
    <3>1. 1 \in 1..Len(queue)
      BY <1>1
    <3>2. queue[1].kind # "barrier" /\ Place(queue, 1, file, Begun, stage)
      BY <1>11, <3>1
    <3>3. ~(stage = "wait" /\ 1 = Len(queue))
      BY <3>2 DEF Place
    <3> QED
      BY <1>3, <1>7, <2>1, <3>3 DEF Place
  <2>2. CASE i # 1
    <3>1. Place(queue, i, file, 0, stage) /\ queue'[i] = queue[i]
      BY <1>7, <1>8, <1>10, <1>11, <2>2
    <3>2. End(file) + i - 0 = End(file') + i - 1
      BY <1>1, <1>7, <1>12
    <3> QED
      BY <1>7, <2>2, <3>1, <3>2 DEF Place
  <2> QED
    BY <2>1, <2>2
<1> QED
  BY <1>7, <1>9, <1>10, <1>13

(* A step of the writer that is not a barrier.                              *)
LEMMA WriterFrame ==
    ASSUME IInv, TypeInv', queue # <<>>, queue[1].kind # "barrier",
           UNCHANGED <<mode, holder, stage, log, retained, failed, sub, last, budget>>,
           BlockOf(file', log), End(file) <= End(file'),
           \A s \in shadow' : BlockOf(s, log) /\ End(s) <= End(file'),
           ~Spill => file' = <<>> /\ shadow' = {},
           \/ queue' = Tail(queue) /\ End(file') = End(file) + 1 - Begun
           \/ /\ queue' = <<Op("sync", <<>>, FALSE)>> \o Tail(queue)
              /\ End(file') = End(file) + 1
              /\ queue[1].kind \in {"append", "rewrite"}
    PROVE  IInv'
<1>1. /\ TypeInv /\ mode = "open" /\ Spill /\ stage # "flushed"
  BY DEF IInv, Held, QueueCarries, TypeInv, TypeOK
<1>2. Numbered' /\ NoFailure' /\ WindowBlock' /\ FileBlock'
  BY DEF IInv, Numbered, NoFailure, WindowBlock, FileBlock, Running, BlockOf, End
<1>3. Held'
  BY <1>1 DEF IInv, Held, Cursor
<1>4. Running /\ Running' /\ FannedOut' = FannedOut /\ Waiting' = Waiting
  BY <1>1 DEF Running, FannedOut, Waiting
<1>5. End(file) \in Nat /\ Begun \in Nat /\ Len(queue) \in Nat /\ Waiting \in Nat
  <2>1. End(file) \in 0..Len(log) /\ Len(log) \in Nat /\ Len(queue) \in Nat
    BY <1>1, Typed, BlockSeqs DEF IInv, FileBlock
  <2> QED
    BY <2>1 DEF Begun, Waiting
<1>6. End(file) + Len(queue) - Begun - Waiting = FannedOut
  BY <1>1, <1>4 DEF IInv, QueueCarries
<1>7. /\ stage = "wait" => queue' # <<>>
      /\ \A i \in 1..Len(queue') : Place(queue', i, file', Begun', stage')
      /\ End(file') + Len(queue') - Begun' - Waiting = FannedOut
  <2>1. CASE queue' = Tail(queue) /\ End(file') = End(file) + 1 - Begun
    <3>1. /\ Len(queue') = Len(queue) - 1 /\ Begun' = 0
          /\ stage = "wait" => queue' # <<>>
          /\ \A i \in 1..Len(queue') : Place(queue', i, file', Begun', stage')
      BY <2>1, Dequeued
    <3> DEFINE m == Len(queue')
               f == End(file')
    <3>2. m = Len(queue) - 1 /\ f = End(file) + 1 - Begun
      BY <2>1, <3>1
    <3> HIDE DEF m, f
    <3>3. f + m - 0 - Waiting = FannedOut
      BY <1>5, <1>6, <3>2
    <3> QED
      BY <3>1, <3>3 DEF m, f
  <2>2. CASE /\ queue' = <<Op("sync", <<>>, FALSE)>> \o Tail(queue)
             /\ End(file') = End(file) + 1
             /\ queue[1].kind \in {"append", "rewrite"}
    <3>1. /\ Len(queue') = Len(queue) /\ Begun' = 1 /\ Begun = 0 /\ queue' # <<>>
          /\ \A i \in 1..Len(queue') : Place(queue', i, file', Begun', stage')
      BY <2>2, SyncLeft
    <3> DEFINE m == Len(queue')
               f == End(file')
    <3>2. m = Len(queue) /\ f = End(file) + 1 /\ Begun = 0
      BY <2>2, <3>1
    <3> HIDE DEF m, f
    <3>3. f + m - 1 - Waiting = FannedOut
      BY <1>5, <1>6, <3>2
    <3> QED
      BY <3>1, <3>3 DEF m, f
  <2> QED
    BY <2>1, <2>2
<1>8. QueueCarries'
  BY <1>1, <1>4, <1>7 DEF QueueCarries, Place
<1>9. Deliveries'
  BY <1>4, SameOwed
<1> QED
  BY <1>2, <1>3, <1>8, <1>9 DEF IInv

LEMMA DeliverWriter ==
    ASSUME IInv, TypeInv', Writer, NoFailure'
    PROVE  IInv'
<1>1. /\ TypeInv /\ log \in Seq(Event) /\ file \in Seq(Event) /\ queue \in Seq(Ops)
      /\ BlockOf(file, log) /\ queue # <<>> /\ Spill
      /\ \A s \in shadow : BlockOf(s, log) /\ End(s) <= End(file)
  <2>1. queue # <<>>
    BY DEF Writer, WriteFrame, FailFrame, Rewrite, FailRewrite, Sync, FailSync,
           ReachBarrier, WriterHas
  <2> QED
    BY <2>1, Typed DEF IInv, FileBlock, QueueCarries
<1>2. /\ Len(queue) \in Nat /\ 1 \in 1..Len(queue) /\ Head(queue) = queue[1]
      /\ queue[1].frames \in Seq(Event)
  <2>1. Len(queue) \in Nat /\ 1 \in 1..Len(queue)
    BY <1>1, EmptySeq
  <2>2. queue[1] \in Ops
    BY <1>1, <2>1, ElementOfSeq
  <2> QED
    BY <2>1, <2>2 DEF Ops
<1>3. Place(queue, 1, file, Begun, stage)
  BY <1>2 DEF IInv, QueueCarries, Place
<1>4. End(file) \in Nat
  <2>1. End(file) \in 0..Len(log) /\ Len(log) \in Nat
    BY <1>1, Typed, BlockSeqs
  <2> QED
    BY <2>1
<1>5. CASE WriteFrame
  <2>1. /\ queue[1].kind = "append" /\ file' = file \o queue[1].frames /\ queue' = Rest
        /\ UNCHANGED <<mode, holder, stage, log, retained, failed, shadow, sub, last, budget>>
    BY <1>2, <1>5 DEF WriteFrame, WriterHas, untouched, window
  <2> DEFINE t == queue[1].frames
  <2>2. /\ t \in Seq(Event) /\ Len(t) = 1 /\ BlockOf(t, log)
        /\ End(t) = End(file) + 1 /\ Begun = 0
    <3>1. Begun = 0
      BY <1>1, <2>1 DEF Begun
    <3>2. End(t) = End(file) + 1 - Begun /\ Len(t) = 1 /\ BlockOf(t, log)
      BY <1>3, <2>1 DEF Place
    <3> QED
      BY <1>2, <1>4, <3>1, <3>2
  <2> HIDE DEF t
  <2>3. BlockOf(file \o t, log) /\ End(file \o t) = End(t)
    BY <1>1, <2>2, BlockConcat
  <2>4. file' = file \o t
    BY <2>1 DEF t
  <2>5. BlockOf(file', log) /\ End(file') = End(file) + 1
    BY <2>2, <2>3, <2>4
  <2>6. \A s \in shadow' : BlockOf(s, log) /\ End(s) <= End(file')
    <3> TAKE s \in shadow'
    <3>1. BlockOf(s, log) /\ End(s) <= End(file) /\ s \in Seq(Event)
      BY <1>1, <2>1, Typed
    <3>2. End(s) \in 0..Len(log) /\ Len(log) \in Nat
      BY <1>1, <3>1, BlockSeqs, Typed
    <3> QED
      BY <1>4, <2>5, <3>1, <3>2
  <2>7. End(file) <= End(file') /\ End(file') = End(file) + 1 - Begun
    BY <1>4, <2>2, <2>5
  <2>8. \/ queue' = Tail(queue) /\ End(file') = End(file) + 1 - Begun
        \/ /\ queue' = <<Op("sync", <<>>, FALSE)>> \o Tail(queue)
           /\ End(file') = End(file) + 1
           /\ queue[1].kind \in {"append", "rewrite"}
    BY <2>1, <2>5, <2>7 DEF Rest
  <2> QED
    BY <1>1, <2>1, <2>5, <2>6, <2>7, <2>8, WriterFrame
<1>6. CASE Rewrite
  <2>1. /\ queue[1].kind = "rewrite" /\ file' = queue[1].frames /\ queue' = Tail(queue)
        /\ shadow' = IF shadow = {} THEN {SubSeq(file, 1, synced)} ELSE shadow
        /\ UNCHANGED <<mode, holder, stage, log, retained, failed, sub, last, budget>>
    BY <1>2, <1>6 DEF Rewrite, WriterHas, untouched, window
  <2>2. BlockOf(file', log) /\ End(file') = End(file) + 1 /\ Begun = 0
    <3>1. Begun = 0
      BY <1>1, <2>1 DEF Begun
    <3>2. End(file') = End(file) + 1 - Begun /\ BlockOf(file', log)
      BY <1>3, <2>1 DEF Place
    <3> QED
      BY <1>4, <3>1, <3>2
  <2>3. synced \in 0..Len(file)
    BY <1>1 DEF TypeInv, TypeOK
  <2>4. /\ BlockOf(SubSeq(file, 1, synced), log)
        /\ End(SubSeq(file, 1, synced)) <= End(file)
        /\ SubSeq(file, 1, synced) \in Seq(Event)
    BY <1>1, <2>3, BlockPrefix
  <2>5. \A s \in shadow' : BlockOf(s, log) /\ End(s) <= End(file')
    <3> TAKE s \in shadow'
    <3>1. BlockOf(s, log) /\ End(s) <= End(file) /\ s \in Seq(Event)
      BY <1>1, <2>1, <2>4, Typed
    <3>2. End(s) \in 0..Len(log) /\ Len(log) \in Nat
      BY <1>1, <3>1, BlockSeqs, Typed
    <3> QED
      BY <1>4, <2>2, <3>1, <3>2
  <2>6. End(file) <= End(file') /\ End(file') = End(file) + 1 - Begun
    BY <1>4, <2>2
  <2> QED
    BY <1>1, <2>1, <2>2, <2>5, <2>6, WriterFrame
<1>7. CASE Sync
  <2>1. /\ queue[1].kind = "sync" /\ queue' = Tail(queue)
        /\ UNCHANGED <<mode, holder, stage, log, retained, failed, sub, last, budget,
                       file, shadow>>
    BY <1>2, <1>7 DEF Sync, WriterHas, untouched, window
  <2>2. Begun = 1
    BY <1>1, <2>1 DEF Begun
  <2>3. End(file') = End(file) + 1 - Begun /\ End(file) <= End(file')
    BY <1>4, <2>1, <2>2
  <2> QED
    BY <1>1, <2>1, <2>3, WriterFrame
<1>8. CASE ReachBarrier
  <2>1. /\ queue[1].kind = "barrier" /\ queue' = Tail(queue) /\ stage' = "flushed"
        /\ UNCHANGED <<mode, holder, log, retained, failed, sub, last, budget, file, shadow>>
    BY <1>2, <1>8 DEF ReachBarrier, WriterHas, untouched, window, Done, disk
  <2>2. stage = "wait" /\ Len(queue) = 1
    BY <1>3, <2>1 DEF Place
  <2>3. queue' = <<>>
    <3> DEFINE t == Tail(queue)
    <3>1. t \in Seq(Ops) /\ Len(t) = Len(queue) - 1
      BY <1>1, HeadTailProperties
    <3> HIDE DEF t
    <3>2. t = <<>>
      BY <2>2, <3>1, EmptySeq
    <3> QED
      BY <2>1, <3>2 DEF t
  <2>4. mode = "open"
    BY <1>1, <2>2 DEF IInv, Held
  <2>5. Numbered' /\ NoFailure' /\ WindowBlock' /\ FileBlock'
    BY <2>1 DEF IInv, Numbered, NoFailure, WindowBlock, FileBlock, Running, BlockOf, End
  <2>6. Held'
    BY <2>1, <2>2, <2>3, <2>4 DEF IInv, Held, Cursor
  <2>7. Running /\ Running' /\ FannedOut' = FannedOut
    BY <2>1, <2>4 DEF Running, FannedOut
  <2>8. QueueCarries'
    <3>1. End(file) + 1 - 0 - 1 = FannedOut
      <4>1. Begun = 0 /\ Waiting = 1
        BY <1>1, <2>1, <2>2 DEF Begun, Waiting
      <4> QED
        BY <1>1, <2>2, <2>7, <4>1 DEF IInv, QueueCarries
    <3>2. Len(queue') = 0 /\ Begun' = 0 /\ Waiting' = 0
      BY <2>1, <2>3, EmptySeq DEF Begun, Waiting
    <3>3. End(file') + 0 - 0 - 0 = FannedOut'
      BY <1>4, <2>1, <2>7, <3>1
    <3> QED
      BY <1>1, <2>1, <3>2, <3>3 DEF QueueCarries
  <2>9. Deliveries'
    BY <2>1, <2>7, SameOwed
  <2> QED
    BY <2>5, <2>6, <2>8, <2>9 DEF IInv
<1> QED
  BY <1>5, <1>6, <1>7, <1>8 DEF Writer, FailFrame, FailRewrite, FailSync, NoFailure

-----------------------------------------------------------------------------
(* Close, and the end of the process.                                       *)

LEMMA DeliverClose ==
    ASSUME IInv, TypeInv', Close
    PROVE  IInv'
<1>1. /\ Running /\ holder = Free /\ TypeInv
      /\ UNCHANGED <<stage, log, life, retained, queue, failed, dirty, file, synced,
                     torn, shadow, last>>
  BY DEF Close, window, writer, disk, IInv
<1>2. /\ SpillOpen => holder' = Closer /\ mode' = mode
      /\ ~SpillOpen => mode' = "closed" /\ holder' = holder
  BY DEF Close
<1>3. Free \notin Clients /\ Closer \notin Clients /\ Publisher \notin Clients
  BY HoldersAssumption
<1>4. stage = "idle" /\ (~SpillOpen => queue = <<>>)
  <2>1. SpillOpen \/ ~Spill \/ mode = "closed"
    BY <1>1 DEF SpillOpen, Running, Free, Closer
  <2> QED
    BY <1>1, <1>3, <2>1 DEF IInv, Held, QueueCarries
<1>5. Numbered' /\ NoFailure' /\ WindowBlock' /\ FileBlock'
  <2>1. Running'
    BY <1>1, <1>2 DEF Running
  <2> QED
    BY <1>1, <2>1 DEF IInv, Numbered, NoFailure, WindowBlock, FileBlock, BlockOf, End
<1>6. Held'
  <2>1. CASE SpillOpen
    BY <1>1, <1>2, <1>3, <1>4, <2>1 DEF Held, SpillOpen, Free, Closer, Publisher
  <2>2. CASE ~SpillOpen
    BY <1>1, <1>2, <1>3, <1>4, <2>2 DEF Held, Free, Closer, Publisher
  <2> QED
    BY <2>1, <2>2
<1>7. Running' /\ FannedOut' = FannedOut
  BY <1>1, <1>2 DEF Running, FannedOut, Free, Closer, Publisher
<1>8. QueueCarries'
  BY <1>1, <1>7 DEF IInv, QueueCarries, BlockOf, End, Begun, Waiting
<1>9. Deliveries'
  <2>1. ASSUME NEW c \in Clients, Attached(c)' PROVE Running' /\ Owed(c)'
    <3>1. sub'[c] = Ended(sub[c]) /\ sub[c] \in Connections
      BY <1>1 DEF Close, TypeInv, TypeOK
    <3>2. /\ sub'[c].replay = sub[c].replay /\ sub'[c].chan = sub[c].chan
          /\ sub'[c].state # "live" /\ Attached(c)
      BY <2>1, <3>1 DEF Ended, Attached, Connections
    <3>3. Owed(c) /\ Cursor(c)' = Cursor(c)
      BY <1>1, <3>2 DEF IInv, Deliveries, Cursor
    <3>4. sub'[c].replay \o sub'[c].chan = sub[c].replay \o sub[c].chan
      BY <3>2
    <3> QED
      BY <1>1, <1>7, <3>2, <3>3, <3>4 DEF Owed
  <2> QED
    BY <2>1 DEF Deliveries
<1> QED
  BY <1>5, <1>6, <1>8, <1>9 DEF IInv

LEMMA DeliverExit ==
    ASSUME IInv, TypeInv', WriterExit \/ FailExit, NoFailure'
    PROVE  IInv'
<1>1. /\ holder = Closer /\ queue = <<>> /\ mode' = "closed" /\ holder' = Free
      /\ UNCHANGED <<stage, log, life, retained, queue, failed, file, torn, shadow,
                     sub, last>>
  BY DEF WriterExit, FailExit, IInv, NoFailure, window
<1>2. Free \notin Clients /\ Closer \notin Clients /\ Publisher \notin Clients
  BY HoldersAssumption
<1>3. stage = "idle" /\ Running /\ Running'
  BY <1>1, <1>2 DEF IInv, Held, Running
<1>4. Numbered' /\ NoFailure' /\ WindowBlock' /\ FileBlock'
  BY <1>1, <1>3 DEF IInv, Numbered, NoFailure, WindowBlock, FileBlock, BlockOf, End
<1>5. Held'
  BY <1>1, <1>2, <1>3 DEF Held, Free, Publisher, Closer
<1>6. FannedOut' = FannedOut
  BY <1>1 DEF FannedOut, Free, Closer, Publisher
<1>7. QueueCarries'
  BY <1>1, <1>3, <1>6 DEF IInv, QueueCarries, BlockOf, End, Begun, Waiting
<1>8. Deliveries'
  BY <1>1, <1>3, <1>6, SameOwed
<1> QED
  BY <1>4, <1>5, <1>7, <1>8 DEF IInv

(* The process is gone, and what the disk gives back is a block of the log. *)
LEMMA DeliverGone ==
    ASSUME IInv, TypeInv', Crash \/ PowerCut
    PROVE  IInv'
<1>1. TypeInv /\ Gone
  BY DEF Crash, PowerCut, IInv
<1>2. /\ mode' = "down" /\ holder' = Free /\ stage' = "idle" /\ queue' = <<>>
      /\ sub' = [c \in Clients |-> Detached] /\ UNCHANGED <<log, failed, last>>
  BY <1>1 DEF Gone
<1>3. Free \notin Clients
  BY HoldersAssumption
<1>4. log \in Seq(Event) /\ file \in Seq(Event) /\ BlockOf(file, log)
  BY <1>1, Typed DEF IInv, FileBlock
<1>5. BlockOf(file', log) /\ \A s \in shadow' : BlockOf(s, log) /\ End(s) <= End(file')
  <2>1. CASE Crash
    BY <2>1 DEF Crash, disk, IInv, FileBlock
  <2>2. CASE PowerCut
    <3>1. shadow' = {}
      BY <2>2 DEF PowerCut
    <3>2. \/ \E n \in synced..Len(file) : file' = SubSeq(file, 1, n)
          \/ file' \in shadow
      BY <2>2 DEF PowerCut
    <3>3. CASE \E n \in synced..Len(file) : file' = SubSeq(file, 1, n)
      <4>1. PICK n \in synced..Len(file) : file' = SubSeq(file, 1, n)
        BY <3>3
      <4>2. n \in 0..Len(file)
        BY <1>1, <1>4, LenProperties DEF TypeInv, TypeOK
      <4>3. BlockOf(SubSeq(file, 1, n), log)
        BY <1>4, <4>2, BlockPrefix
      <4> QED
        BY <3>1, <4>1, <4>3
    <3>4. CASE file' \in shadow
      BY <3>1, <3>4 DEF IInv, FileBlock
    <3> QED
      BY <3>2, <3>3, <3>4
  <2> QED
    BY <2>1, <2>2
<1>6. ~Spill => file' = <<>> /\ shadow' = {}
  <2> SUFFICES ASSUME ~Spill PROVE file' = <<>> /\ shadow' = {}
    OBVIOUS
  <2>1. file = <<>> /\ shadow = {}
    BY DEF IInv, QueueCarries
  <2>2. CASE Crash
    BY <2>1, <2>2 DEF Crash, disk
  <2>3. CASE PowerCut
    <3>1. PICK n \in synced..Len(file) : file' = SubSeq(file, 1, n)
      BY <2>1, <2>3 DEF PowerCut
    <3>2. n \in 0..Len(file) /\ Len(file) = 0
      BY <1>1, <1>4, <2>1, EmptySeq DEF TypeInv, TypeOK
    <3>3. n = 0
      BY <3>2
    <3>4. file' = <<>>
      BY <3>1, <3>3, SubSeqEmpty
    <3> QED
      BY <2>3, <3>4 DEF PowerCut
  <2> QED
    BY <2>2, <2>3
<1>7. ~Running'
  BY <1>2 DEF Running
<1>8. Numbered' /\ NoFailure' /\ WindowBlock' /\ FileBlock'
  BY <1>1, <1>2, <1>5, <1>7 DEF IInv, Numbered, NoFailure, WindowBlock, FileBlock, BlockOf
<1>9. Held'
  BY <1>2, <1>3 DEF Held, Free, Publisher, Closer
<1>10. QueueCarries'
  <2>1. Len(queue') = 0
    BY <1>2, EmptySeq
  <2> QED
    BY <1>2, <1>6, <1>7, <2>1 DEF QueueCarries
<1>11. Deliveries'
  BY <1>2 DEF Deliveries, Attached, Detached
<1> QED
  BY <1>8, <1>9, <1>10, <1>11 DEF IInv

(* New takes up the sequence where the file ends.                           *)
LEMMA DeliverReopen ==
    ASSUME IInv, TypeInv', Reopen
    PROVE  IInv'
<1>1. /\ mode = "down" /\ mode' = "open" /\ log' = First(log, Recovered) /\ failed' = FALSE
      /\ UNCHANGED <<holder, stage, queue, dirty, file, synced, torn, shadow, sub, last, budget>>
  BY DEF Reopen, disk
<1>2. PICK n \in Cuts(file) : retained' = From(file, n)
  BY DEF Reopen
<1>3. /\ TypeInv /\ log \in Seq(Event) /\ file \in Seq(Event) /\ Len(log) \in Nat
      /\ BlockOf(file, log) /\ log' \in Seq(Event)
      /\ \A s \in shadow : s \in Seq(Event) /\ BlockOf(s, log) /\ End(s) <= End(file)
  BY Typed DEF IInv, FileBlock, TypeInv, TypeOK
<1>4. Recovered = End(file) /\ End(file) \in 0..Len(log)
  BY <1>3, BlockSeqs DEF Recovered, End
<1> DEFINE m == End(file)
<1>5. m \in Nat /\ m <= Len(log) /\ log' = First(log, m)
  BY <1>1, <1>3, <1>4
<1>6. Len(log') = m /\ \A i \in 1..m : log'[i] = log[i]
  BY <1>3, <1>5, FirstProperties
<1>7. BlockOf(file, log') /\ \A s \in shadow : BlockOf(s, log')
  <2>1. End(file) <= m
    BY <1>5
  <2>2. BlockOf(file, log')
    BY <1>3, <1>5, <2>1, BlockFirst
  <2>3. ASSUME NEW s \in shadow PROVE BlockOf(s, log')
    BY <1>3, <1>5, BlockFirst
  <2> QED
    BY <2>2, <2>3
<1>8. holder = Free /\ queue = <<>> /\ Free \notin Clients
  BY <1>1, HoldersAssumption DEF IInv, Held
<1>9. Numbered' /\ NoFailure' /\ FileBlock'
  <2>1. \A i \in 1..Len(log') : log'[i].seq = i
    <3>1. \A i \in 1..Len(log') : i \in 1..Len(log) /\ i \in 1..m
      BY <1>3, <1>5, <1>6
    <3> QED
      BY <1>6, <3>1 DEF IInv, Numbered
  <2> QED
    BY <1>1, <1>3, <1>7, <2>1 DEF IInv, Numbered, NoFailure, FileBlock
<1>10. WindowBlock'
  <2>1. BlockOf(From(file, n), log') /\ (From(file, n) # <<>> => End(From(file, n)) = m)
    BY <1>3, <1>7, BlockFrom
  <2> QED
    BY <1>2, <1>6, <2>1 DEF WindowBlock
<1>11. stage = "idle"
  BY <1>8 DEF IInv, Held
<1>12. Held'
  BY <1>1, <1>8, <1>11 DEF Held, Free, Publisher, Closer
<1>13. QueueCarries'
  <2>1. Len(queue') = 0 /\ Begun' = 0 /\ Waiting' = 0
    BY <1>1, <1>8, <1>11, EmptySeq DEF Begun, Waiting
  <2>2. FannedOut' = m
    BY <1>1, <1>6, <1>8 DEF FannedOut, Free, Publisher
  <2>3. m + 0 - 0 - 0 = m
    BY <1>5
  <2> HIDE DEF m
  <2>4. End(file') = m
    BY <1>1 DEF m
  <2> QED
    BY <1>1, <1>8, <1>11, <2>1, <2>2, <2>3, <2>4 DEF IInv, QueueCarries
<1>14. Deliveries'
  <2>1. \A c \in Clients : ~Attached(c)
    BY <1>1 DEF IInv, Deliveries, Running
  <2> QED
    BY <1>1, <2>1 DEF Deliveries, Attached
<1> QED
  BY <1>9, <1>10, <1>12, <1>13, <1>14 DEF IInv

LEMMA DeliverRefuse ==
    ASSUME IInv, TypeInv', Refuse
    PROVE  IInv'
<1>1. /\ mode = "down" /\ mode' = "refused"
      /\ UNCHANGED <<holder, stage, log, life, retained, queue, failed, dirty, file, synced,
                     torn, shadow, sub, last, budget>>
  BY DEF Refuse, window, writer, disk
<1>2. holder = Free /\ queue = <<>> /\ Free \notin Clients
  BY <1>1, HoldersAssumption DEF IInv, Held
<1>3. Numbered' /\ NoFailure' /\ WindowBlock' /\ FileBlock'
  BY <1>1 DEF IInv, Numbered, NoFailure, WindowBlock, FileBlock, Running, BlockOf, End
<1>4. stage = "idle"
  BY <1>2 DEF IInv, Held
<1>5. Held'
  BY <1>1, <1>2, <1>4 DEF Held, Free, Publisher, Closer
<1>6. QueueCarries'
  BY <1>1 DEF IInv, QueueCarries, Running, BlockOf, End, Begun, Waiting
<1>7. Deliveries'
  BY <1>1 DEF IInv, Deliveries, Attached, Running
<1> QED
  BY <1>3, <1>5, <1>6, <1>7 DEF IInv

-----------------------------------------------------------------------------
(* A step in which no write fails.                                          *)
LEMMA DeliveryNext == ASSUME Orderly, IInv, [Next]_vars, NoFailure' PROVE IInv'
<1>1. TypeInv'
  BY TypeNext DEF IInv
<1>2. ASSUME NEW k \in Kinds, Publish(k) PROVE IInv'
  BY <1>1, <1>2, DeliverPublish
<1>3. CASE FanOut
  BY <1>1, <1>3, DeliverFanOut
<1>4. ASSUME NEW c \in Clients, Subscriber(c) \/ Disconnect(c) PROVE IInv'
  BY <1>1, <1>4, DeliverMemory, DeliverNothing, DeliverReading, DeliverBarrier,
     DeliverDisk, DeliverConsume DEF Subscriber
<1>5. CASE Writer
  BY <1>1, <1>5, DeliverWriter
<1>6. CASE Close \/ WriterExit \/ FailExit
  BY <1>1, <1>6, DeliverClose, DeliverExit
<1>7. CASE Crash \/ PowerCut \/ Reopen \/ Refuse
  BY <1>1, <1>7, DeliverGone, DeliverReopen, DeliverRefuse
<1>8. CASE UNCHANGED vars
  <2>1. Numbered' /\ NoFailure' /\ Held'
    BY <1>8 DEF vars, window, writer, disk, IInv, Numbered, NoFailure, Held, Cursor
  <2>0. /\ mode' = mode /\ holder' = holder /\ stage' = stage /\ log' = log
        /\ retained' = retained /\ queue' = queue /\ file' = file /\ shadow' = shadow
    BY <1>8 DEF vars, window, writer, disk
  <2>2. WindowBlock' /\ FileBlock'
    <3>1. WindowBlock'
      BY <2>0 DEF IInv, WindowBlock, Running, BlockOf, End
    <3>2. FileBlock'
      BY <2>0 DEF IInv, FileBlock, BlockOf, End
    <3> QED
      BY <3>1, <3>2
  <2>4. QueueCarries'
    <3>1. Begun' = Begun /\ Waiting' = Waiting /\ FannedOut' = FannedOut
      BY <2>0 DEF Begun, Waiting, FannedOut
    <3>2. End(file)' = End(file) /\ (Running' <=> Running)
      BY <2>0 DEF End, Running
    <3> HIDE DEF Begun, Waiting, FannedOut
    <3>3. \A i \in 1..Len(queue) :
             /\ BlockOf(queue[i].frames, log)' <=> BlockOf(queue[i].frames, log)
             /\ End(queue[i].frames)' = End(queue[i].frames)
      BY <2>0 DEF BlockOf, End
    <3> QED
      BY <2>0, <3>1, <3>2, <3>3 DEF IInv, QueueCarries
  <2>3. Deliveries'
    BY <1>8 DEF vars, window, IInv, Deliveries, Attached, Owed, Cursor, FannedOut, Running
  <2> QED
    BY <1>1, <2>1, <2>2, <2>3, <2>4 DEF IInv
<1> QED
  BY <1>2, <1>3, <1>4, <1>5, <1>6, <1>7, <1>8 DEF Next, Idle

(* No step gives a budget back, and only a failed write, which is counted,  *)
(* makes the writer fail.                                                   *)
LEMMA Accident ==
    ASSUME TypeInv, [Next]_vars
    PROVE  /\ \A a \in Accidents : budget'[a] <= budget[a]
           /\ \/ failed' = failed
              \/ failed' = FALSE /\ mode = "down"
              \/ budget'["disk"] < budget["disk"]
<1>1. budget \in [Accidents -> Nat]
  BY Typed
<1>2. budget' = budget => \A a \in Accidents : budget'[a] <= budget[a]
  BY <1>1
<1>3. ASSUME NEW a \in Accidents, Spend(a)
      PROVE  budget'[a] < budget[a] /\ \A b \in Accidents : budget'[b] <= budget[b]
  BY <1>1, <1>3 DEF Spend
<1>4. ASSUME NEW k \in Kinds, Publish(k)
      PROVE  failed' = failed /\ budget' = budget
  BY <1>4 DEF Publish, writer
<1>5. CASE FanOut
  BY <1>5, <1>2 DEF FanOut, writer
<1>6. ASSUME NEW c \in Clients, Subscriber(c)
      PROVE  failed' = failed /\ budget' = budget
  BY <1>6 DEF Subscriber, SubscribeFromMemory, SubscribeExpired, SubscribeFromDisk,
     SendBarrier, FinishRead, ConsumeReplay, ConsumeLive, SeeClosed, StartOver, writer
<1>7. ASSUME NEW c \in Clients, Disconnect(c)
      PROVE  failed' = failed /\ Spend("drop")
  BY <1>7 DEF Disconnect, writer
<1>8. CASE Writer
  <2>1. /\ (budget' = budget /\ failed' = failed) \/ Spend("disk")
       
    BY <1>8 DEF Writer, WriteFrame, FailFrame, Rewrite, FailRewrite, Sync, FailSync,
       ReachBarrier, untouched
  <2> QED
    BY <1>3, <1>2, <2>1 DEF Accidents
<1>9. CASE Close
  <2>1. Spend("close") /\ failed' = failed
    BY <1>9 DEF Close, writer
  <2> QED
    BY <1>3, <1>2, <2>1 DEF Accidents
<1>10. CASE WriterExit \/ FailExit
  <2>1. (budget' = budget /\ failed' = failed) \/ Spend("disk")
    BY <1>10 DEF WriterExit, FailExit
  <2> QED
    BY <1>3, <1>2, <2>1 DEF Accidents
<1>11. CASE Crash \/ PowerCut
  <2>1. (Spend("crash") \/ Spend("power")) /\ failed' = failed
    BY <1>11 DEF Crash, PowerCut, Gone
  <2> QED
    BY <1>3, <1>2, <2>1 DEF Accidents
<1>12. CASE Reopen
  BY <1>12, <1>2 DEF Reopen
<1>13. CASE Refuse \/ UNCHANGED vars
  BY <1>13, <1>2 DEF Refuse, vars, writer
<1> QED
  BY <1>3, <1>4, <1>5, <1>6, <1>7, <1>8, <1>9, <1>10, <1>11, <1>12, <1>13, <1>2
  DEF Next, Idle, Accidents

(* The inductive invariant: the budgets only shrink, and until a write has  *)
(* failed delivery is sound.                                                *)
Sound ==
    /\ TypeInv
    /\ \A a \in Accidents : budget[a] <= Budget[a]
    /\ Unspent("disk") => IInv

LEMMA SoundInit == ASSUME Init PROVE Sound
<1>1. TypeInv /\ IInv
  BY TypeInit, DeliveryInit
<1> QED
  BY <1>1, BudgetAssumption DEF Sound, Init

(* What has not happened after a step had not happened before it.           *)
LEMMA StillUnspent ==
    ASSUME Sound, [Next]_vars, NEW a \in Accidents, Unspent(a)'
    PROVE  Unspent(a)
<1>1. budget \in [Accidents -> Nat] /\ budget' \in [Accidents -> Nat]
  BY Typed, TypeNext DEF Sound, TypeInv, TypeOK
<1>2. budget'[a] <= budget[a] /\ budget[a] <= Budget[a] /\ Budget[a] \in Nat
  BY Accident, BudgetAssumption DEF Sound
<1> QED
  BY <1>1, <1>2 DEF Unspent

LEMMA SoundStep ==
    ASSUME Orderly, Sound, [Next]_vars, Unspent("disk")'
    PROVE  Unspent("disk") /\ IInv /\ IInv'
<1>1. Unspent("disk") /\ IInv
  BY StillUnspent DEF Sound, Accidents
<1>2. budget \in [Accidents -> Nat] /\ "disk" \in Accidents
  BY Typed DEF Sound, Accidents
<1>3. ~(budget'["disk"] < budget["disk"])
  BY <1>1, <1>2 DEF Unspent
<1>4. NoFailure'
  BY <1>1, <1>3, Accident DEF Sound, IInv, NoFailure
<1> QED
  BY <1>1, <1>4, DeliveryNext

LEMMA SoundNext == ASSUME Orderly, Sound, [Next]_vars PROVE Sound'
<1>1. TypeInv' /\ budget \in [Accidents -> Nat] /\ budget' \in [Accidents -> Nat]
  BY TypeNext, Typed DEF Sound, TypeInv, TypeOK
<1>2. \A a \in Accidents : budget'[a] <= Budget[a]
  <2> TAKE a \in Accidents
  <2>1. budget'[a] <= budget[a] /\ budget[a] <= Budget[a]
    BY Accident DEF Sound
  <2>2. budget[a] \in Nat /\ budget'[a] \in Nat /\ Budget[a] \in Nat
    BY <1>1, BudgetAssumption
  <2> QED
    BY <2>1, <2>2
<1>3. Unspent("disk")' => IInv'
  BY SoundStep
<1> QED
  BY <1>1, <1>2, <1>3 DEF Sound

LEMMA AlwaysSound == ASSUME Orderly PROVE Spec => []Sound
<1>1. Init => Sound
  BY SoundInit
<1>2. Sound /\ [Next]_vars => Sound'
  BY SoundNext
<1> QED
  BY <1>1, <1>2, PTL DEF Spec

(* A reader, wherever it subscribed and whatever then happened to it, holds *)
(* the events that follow its cursor in order, each once, with none missing *)
(* between the file, the window and its channel, and while it is live up to *)
(* the last event fanned out: for every number of readers, size of window,  *)
(* buffer, queue and file, over crashes, power cuts and Close, until a write*)
(* fails, when nobody publishes to a closed file.                           *)
THEOREM JournalOwedInFull == ASSUME Orderly PROVE Spec => []OwedInFull
<1>1. Sound => OwedInFull
  BY DEF Sound, IInv, Deliveries, OwedInFull
<1> QED
  BY <1>1, AlwaysSound, PTL

(* A block that ends where the log ends is the newest part of it.           *)
LEMMA BlockSuffix ==
    ASSUME NEW s \in Seq(Event), NEW l \in Seq(Event), BlockOf(s, l),
           s # <<>> => End(s) = Len(l)
    PROVE  IsSuffix(s, l)
<1> DEFINE k == Len(l) - Len(s) + 1
           r == From(l, k)
<1>1. Len(s) \in Nat /\ Len(l) \in Nat
  BY LenProperties
<1>2. Len(s) <= Len(l) /\ \A i \in 1..Len(s) : s[i] = l[k + i - 1]
  <2>1. CASE s = <<>>
    <3>1. Len(s) = 0
      BY <2>1, EmptySeq
    <3> QED
      BY <1>1, <3>1
  <2>2. CASE s # <<>>
    <3> DEFINE a == s[1].seq
    <3>1. 1 \in 1..Len(s) /\ a + Len(s) - 1 = Len(l)
      BY <1>1, <2>2, BlockSeqs
    <3>2. a \in Nat \ {0}
      BY <3>1, BlockSeqs
    <3>3. \A i \in 1..Len(s) : s[i] = l[a + i - 1]
      BY DEF BlockOf
    <3> HIDE DEF a
    <3>4. a = k /\ Len(s) <= Len(l)
      BY <1>1, <3>1, <3>2
    <3> QED
      BY <3>3, <3>4
  <2> QED
    BY <2>1, <2>2
<1>3. k \in Cuts(l)
  BY <1>1, <1>2 DEF Cuts
<1>4. r \in Seq(Event) /\ Len(r) = Len(l) - k + 1 /\ \A i \in 1..Len(r) : r[i] = l[k + i - 1]
  BY <1>3, FromProperties
<1>5. Len(r) = Len(s)
  BY <1>1, <1>4
<1> HIDE DEF r
<1>6. s = r
  BY <1>2, <1>4, <1>5, SeqEqual
<1> QED
  BY <1>2, <1>6 DEF IsSuffix, r

(* The window is the newest part of the journal, whole, whatever was        *)
(* trimmed, replayed into it from the file or cut by a crash.               *)
THEOREM JournalWindowIsSuffix == ASSUME Orderly PROVE Spec => []WindowIsSuffix
<1>1. Sound => WindowIsSuffix
  BY Typed, BlockSuffix DEF Sound, IInv, WindowBlock, WindowIsSuffix
<1> QED
  BY <1>1, AlwaysSound, PTL

-----------------------------------------------------------------------------
(* The file stands.                                                         *)

(* No event is of a life to come.                                           *)
Lives == \A i \in 1..Len(log) : log[i].life <= life

(* A rewrite carries a window, and the window only moves on; an append asks *)
(* for the flush its frame needs.                                           *)
OpFine(o) ==
    /\ o.kind = "rewrite" /\ retained # <<>> => o.frames[1].seq <= retained[1].seq
    /\ o.kind = "append" => o.sync = o.frames[1].sync

OpsOf(q) == {q[i] : i \in 1..Len(q)}

(* The file reaches as far back as the window.                              *)
Reaches == file # <<>> /\ retained # <<>> => file[1].seq <= retained[1].seq

(* BoundarySynced, and what makes it inductive.                             *)
Boundary ==
    mode = "open" =>
        \A i \in (synced + 1)..Len(file) :
            file[i].sync /\ file[i].life = life =>
                i = Len(file) /\ WriterHas("sync") /\ dirty

FileInv ==
    /\ Lives /\ Reaches /\ Boundary
    /\ \A o \in OpsOf(queue) : OpFine(o)

LEMMA OpsAppend ==
    ASSUME NEW q \in Seq(Ops), NEW o \in Ops
    PROVE  OpsOf(Append(q, o)) = OpsOf(q) \cup {o}
<1> DEFINE r == Append(q, o)
<1>1. /\ Len(r) = Len(q) + 1 /\ Len(q) \in Nat /\ r[Len(q) + 1] = o
      /\ \A i \in 1..Len(q) : r[i] = q[i]
  BY AppendProperties, LenProperties
<1> HIDE DEF r
<1>2. \A i \in 1..Len(r) : i \in 1..Len(q) \/ i = Len(q) + 1
  BY <1>1
<1>3. \A i \in 1..Len(q) : i \in 1..Len(r)
  BY <1>1
<1>4. Len(q) + 1 \in 1..Len(r)
  BY <1>1
<1>5. OpsOf(r) \subseteq OpsOf(q) \cup {o}
  BY <1>1, <1>2 DEF OpsOf
<1>6. OpsOf(q) \cup {o} \subseteq OpsOf(r)
  BY <1>1, <1>3, <1>4 DEF OpsOf
<1> QED
  BY <1>5, <1>6 DEF r

LEMMA OpsTail ==
    ASSUME NEW q \in Seq(Ops), q # <<>>
    PROVE  OpsOf(Tail(q)) \subseteq OpsOf(q)
<1> DEFINE t == Tail(q)
<1>1. /\ Len(t) = Len(q) - 1 /\ Len(q) \in Nat
      /\ \A i \in 1..Len(t) : t[i] = q[i + 1]
  BY HeadTailProperties, LenProperties
<1> HIDE DEF t
<1>2. \A i \in 1..Len(t) : i + 1 \in 1..Len(q)
  BY <1>1
<1> QED
  BY <1>1, <1>2 DEF OpsOf, t

(* What is left of the queue when its head has been written.                *)
LEMMA OpsRest ==
    ASSUME queue \in Seq(Ops), queue # <<>>
    PROVE  /\ OpsOf(Rest) \subseteq OpsOf(queue) \cup {Op("sync", <<>>, FALSE)}
           /\ Head(queue).sync => Rest # <<>> /\ Head(Rest) = Op("sync", <<>>, FALSE)
<1>1. OpsOf(Tail(queue)) \subseteq OpsOf(queue)
  BY OpsTail
<1> DEFINE o == Op("sync", <<>>, FALSE)
           r == <<o>> \o Tail(queue)
<1>2. o \in Ops
  BY DEF Op, Ops
<1> HIDE DEF o
<1>3. Tail(queue) \in Seq(Ops) /\ <<o>> \in Seq(Ops) /\ Len(<<o>>) = 1
  BY <1>2, HeadTailProperties
<1>4. /\ r \in Seq(Ops) /\ Len(r) = 1 + Len(Tail(queue)) /\ Len(Tail(queue)) \in Nat
      /\ \A i \in 1..(1 + Len(Tail(queue))) :
             r[i] = IF i <= 1 THEN <<o>>[i] ELSE Tail(queue)[i - 1]
  <2> DEFINE one == <<o>>
  <2>1. one \in Seq(Ops) /\ Len(one) = 1
    BY <1>3
  <2> HIDE DEF one
  <2>2. /\ one \o Tail(queue) \in Seq(Ops)
        /\ Len(one \o Tail(queue)) = Len(one) + Len(Tail(queue))
        /\ \A i \in 1..(Len(one) + Len(Tail(queue))) :
               (one \o Tail(queue))[i] = IF i <= Len(one) THEN one[i] ELSE Tail(queue)[i - Len(one)]
    BY <1>3, <2>1, ConcatProperties
  <2> QED
    BY <1>3, <2>1, <2>2, LenProperties DEF one
<1> HIDE DEF r
<1>5. r[1] = o
  BY <1>4
<1>6. ASSUME NEW i \in 1..Len(r), i # 1
      PROVE  r[i] = Tail(queue)[i - 1] /\ i - 1 \in 1..Len(Tail(queue))
  BY <1>4, <1>6
<1>7. OpsOf(r) \subseteq OpsOf(Tail(queue)) \cup {o}
  BY <1>5, <1>6 DEF OpsOf
<1>8. r # <<>> /\ Head(r) = o
  BY <1>4, <1>5, EmptySeq
<1>9. Rest = IF Head(queue).sync THEN r ELSE Tail(queue)
  BY DEF Rest, r, o
<1> QED
  BY <1>1, <1>7, <1>8, <1>9 DEF o

LEMMA FileInit == ASSUME Init PROVE FileInv
<1>1. Len(log) = 0 /\ Len(file) = 0 /\ Len(queue) = 0
  BY EmptySeq DEF Init
<1>2. synced = 0 /\ file = <<>>
  BY DEF Init
<1> QED
  BY <1>1, <1>2 DEF FileInv, Lives, Reaches, Boundary, OpsOf

(* A step that touches neither the log nor the file nor the writer's work.  *)
LEMMA FileFrame ==
    ASSUME FileInv, UNCHANGED <<log, life, retained, queue, file, synced, dirty>>,
           mode' = mode \/ mode' # "open"
    PROVE  FileInv'
BY DEF FileInv, Lives, Reaches, Boundary, OpFine, OpsOf, WriterHas

LEMMA FilePublish ==
    ASSUME IInv, FileInv, IInv', NEW k \in Kinds, Publish(k)
    PROVE  FileInv'
<1> DEFINE e == [seq |-> Len(log) + 1, life |-> life, size |-> k.size, sync |-> k.sync]
           grown == Append(retained, e)
<1>1. /\ log' = Append(log, e)
      /\ UNCHANGED <<mode, life, queue, dirty, file, synced>>
  BY DEF Publish, writer, disk
<1>2. PICK n \in Cuts(grown) : retained' = From(grown, n)
  BY DEF Publish
<1>3. /\ TypeInv /\ log \in Seq(Event) /\ retained \in Seq(Event) /\ file \in Seq(Event)
      /\ Len(log) \in Nat /\ log' \in Seq(Event) /\ life \in Nat
      /\ queue \in Seq(Ops) /\ Running
  BY Typed DEF IInv, TypeInv, TypeOK, Publish
<1>4. e.seq = Len(log) + 1 /\ e.life = life
  OBVIOUS
<1> HIDE DEF e
<1>5. /\ Len(log') = Len(log) + 1 /\ log'[Len(log) + 1] = e
      /\ \A i \in 1..Len(log) : log'[i] = log[i]
  BY <1>1, <1>3, AppendProperties
<1>6. e \in Event
  <2>1. Len(log) + 1 \in 1..Len(log')
    BY <1>3, <1>5
  <2> QED
    BY <1>3, <1>5, <2>1, ElementOfSeq
<1>7. Lives'
  <2>1. ASSUME NEW i \in 1..Len(log') PROVE log'[i].life <= life
    <3>1. CASE i \in 1..Len(log)
      BY <1>5, <3>1 DEF FileInv, Lives
    <3>2. CASE i = Len(log) + 1
      BY <1>3, <1>4, <1>5, <3>2
    <3> QED
      BY <1>3, <1>5, <3>1, <3>2
  <2> QED
    BY <1>1, <2>1 DEF Lives
<1>8. BlockOf(retained, log)
  BY <1>3 DEF IInv, WindowBlock
<1>9. ASSUME retained' # <<>>
      PROVE  /\ retained'[1].seq \in Nat
             /\ IF retained = <<>> THEN retained'[1].seq = Len(log) + 1
                ELSE retained[1].seq \in Nat /\ retained[1].seq <= retained'[1].seq
  <2>1. /\ grown \in Seq(Event) /\ Len(grown) = Len(retained) + 1 /\ Len(retained) \in Nat
        /\ \A i \in 1..Len(retained) : grown[i] = retained[i]
        /\ grown[Len(retained) + 1] = e
    BY <1>3, <1>6, AppendProperties, LenProperties
  <2> HIDE DEF grown
  <2>2. /\ retained' \in Seq(Event) /\ Len(retained') = Len(grown) - n + 1
        /\ \A i \in 1..Len(retained') : retained'[i] = grown[n + i - 1]
        /\ n \in 1..(Len(grown) + 1)
    BY <1>2, <2>1, FromProperties DEF Cuts
  <2>3. Len(retained') \in Nat \ {0}
    BY <1>9, <2>2, EmptySeq, LenProperties
  <2>4. 1 \in 1..Len(retained') /\ n + 1 - 1 = n /\ n <= Len(grown)
    BY <2>1, <2>2, <2>3
  <2>5. retained'[1] = grown[n]
    BY <2>2, <2>4, ZenonT(20)
  <2>6. CASE n = Len(retained) + 1
    <3>1. retained'[1].seq = Len(log) + 1
      BY <1>4, <2>1, <2>5, <2>6
    <3>2. ASSUME retained # <<>>
          PROVE  retained[1].seq \in Nat /\ retained[1].seq <= Len(log)
      <4>1. 1 \in 1..Len(retained)
        BY <2>1, <3>2, EmptySeq
      <4> QED
        BY <1>3, <1>8, <4>1, BlockSeqs
    <3> QED
      BY <1>3, <3>1, <3>2
  <2>7. CASE n # Len(retained) + 1
    <3>1. n \in 1..Len(retained) /\ 1 \in 1..Len(retained)
      BY <2>1, <2>2, <2>4, <2>7
    <3>2. retained # <<>>
      BY <3>1, EmptySeq
    <3>3. /\ retained[n].seq = retained[1].seq + n - 1
          /\ retained[n].seq \in Nat /\ retained[1].seq \in Nat
      BY <1>3, <1>8, <3>1, BlockSeqs DEF BlockOf
    <3>4. retained'[1] = retained[n]
      BY <2>1, <2>5, <3>1
    <3> DEFINE a == retained[1].seq
               b == retained[n].seq
    <3>5. a \in Nat /\ b = a + n - 1
      BY <3>3
    <3> HIDE DEF a, b
    <3>6. a <= b
      BY <3>1, <3>5
    <3> QED
      BY <3>2, <3>3, <3>4, <3>6 DEF a, b
  <2> QED
    BY <2>6, <2>7
<1>10. ASSUME NEW s \in Seq(Event), s # <<>>, BlockOf(s, log)
       PROVE  s[1].seq \in Nat /\ s[1].seq <= Len(log)
  <2>1. 1 \in 1..Len(s)
    BY <1>10, EmptySeq, LenProperties
  <2> QED
    BY <1>3, <1>10, <2>1, BlockSeqs
<1>11. Reaches'
  <2> SUFFICES ASSUME file # <<>>, retained' # <<>> PROVE file[1].seq <= retained'[1].seq
    BY <1>1 DEF Reaches
  <2>1. file[1].seq \in Nat /\ file[1].seq <= Len(log)
    BY <1>3, <1>10 DEF IInv, FileBlock
  <2>2. retained # <<>> => file[1].seq <= retained[1].seq
    BY DEF FileInv, Reaches
  <2> QED
    BY <1>3, <1>9, <2>1, <2>2
<1>12. \A o \in OpsOf(queue') : OpFine(o)'
  <2> SUFFICES ASSUME NEW o \in OpsOf(queue) PROVE OpFine(o)'
    BY <1>1
  <2>1. OpFine(o)
    BY DEF FileInv
  <2>2. ASSUME o.kind = "rewrite", retained' # <<>>
        PROVE  o.frames[1].seq <= retained'[1].seq
    <3>1. PICK i \in 1..Len(queue) : o = queue[i]
      BY DEF OpsOf
    <3>2. o \in Ops
      BY <1>3, <3>1, ElementOfSeq
    <3>3. o.frames \in Seq(Event) /\ o.frames # <<>> /\ BlockOf(o.frames, log)
      BY <2>2, <3>1, <3>2 DEF Ops, IInv, QueueCarries
    <3>4. o.frames[1].seq \in Nat /\ o.frames[1].seq <= Len(log)
      BY <1>10, <3>3
    <3>5. retained # <<>> => o.frames[1].seq <= retained[1].seq
      BY <2>1, <2>2 DEF OpFine
    <3> QED
      BY <1>3, <1>9, <2>2, <3>4, <3>5
  <2> QED
    BY <2>1, <2>2 DEF OpFine
<1>13. Boundary'
  BY <1>1 DEF FileInv, Boundary, WriterHas
<1> QED
  BY <1>7, <1>11, <1>12, <1>13 DEF FileInv

(* An op more in the queue does not change what the writer works on.        *)
LEMMA FileQueued ==
    ASSUME IInv, FileInv, NEW o \in Ops, queue' = Append(queue, o), OpFine(o),
           UNCHANGED <<mode, log, life, retained, file, synced, dirty>>
    PROVE  FileInv'
<1>1. queue \in Seq(Ops)
  BY Typed DEF IInv
<1>2. \A x \in OpsOf(queue') : OpFine(x)'
  BY <1>1, OpsAppend DEF FileInv, OpFine
<1>3. WriterHas("sync") => WriterHas("sync")'
  <2> SUFFICES ASSUME WriterHas("sync") PROVE WriterHas("sync")'
    OBVIOUS
  <2>1. queue # <<>> /\ Head(queue).kind = "sync"
    BY DEF WriterHas
  <2>2. /\ Len(queue) \in Nat \ {0} /\ Len(queue') = Len(queue) + 1 /\ queue' \in Seq(Ops)
        /\ \A i \in 1..Len(queue) : queue'[i] = queue[i]
    BY <1>1, <2>1, EmptySeq, LenProperties, AppendProperties
  <2>3. queue'[1] = queue[1] /\ queue' # <<>>
    BY <2>2, EmptySeq
  <2> QED
    BY <2>1, <2>3 DEF WriterHas
<1>4. Boundary'
  BY <1>3 DEF FileInv, Boundary
<1>5. Lives' /\ Reaches'
  BY DEF FileInv, Lives, Reaches
<1> QED
  BY <1>2, <1>4, <1>5 DEF FileInv

LEMMA FileFanOut ==
    ASSUME IInv, FileInv, FanOut
    PROVE  FileInv'
<1>1. UNCHANGED <<mode, log, life, retained, file, synced, dirty>>
  BY DEF FanOut, window, disk
<1>2. CASE ~SpillOpen
  BY <1>1, <1>2, FileFrame DEF FanOut
<1>3. CASE SpillOpen
  <2> DEFINE e == log[Len(log)]
  <2>1. log \in Seq(Event) /\ retained \in Seq(Event) /\ log # <<>>
    BY Typed DEF IInv, FanOut, TypeInv
  <2>2. e \in Event
    BY <2>1, EmptySeq, ElementOfSeq, LenProperties
  <2>3. enqueueSpill(e)
    BY <1>3 DEF FanOut
  <2> HIDE DEF e
  <2>4. \/ queue' = Append(queue, Op("append", <<e>>, e.sync))
        \/ queue' = Append(queue, Op("rewrite", retained, e.sync))
    BY <2>3 DEF enqueueSpill, RewriteFrames
  <2>5. <<e>> \in Seq(Event) /\ e.sync \in BOOLEAN
    BY <2>2 DEF Event
  <2>6. CASE queue' = Append(queue, Op("append", <<e>>, e.sync))
    <3> DEFINE o == Op("append", <<e>>, e.sync)
    <3>1. o \in Ops /\ o.kind = "append" /\ o.frames = <<e>> /\ o.sync = e.sync
      BY <2>5 DEF Op, Ops
    <3> HIDE DEF o
    <3>2. OpFine(o)
      BY <3>1 DEF OpFine
    <3> QED
      BY <1>1, <2>6, <3>1, <3>2, FileQueued DEF o
  <2>7. CASE queue' = Append(queue, Op("rewrite", retained, e.sync))
    <3> DEFINE o == Op("rewrite", retained, e.sync)
    <3>1. o \in Ops /\ o.kind = "rewrite" /\ o.frames = retained
      BY <2>1, <2>5 DEF Op, Ops
    <3> HIDE DEF o
    <3>2. OpFine(o)
      <4>1. ASSUME retained # <<>> PROVE retained[1].seq <= retained[1].seq
        <5>1. 1 \in 1..Len(retained)
          BY <2>1, <4>1, EmptySeq, LenProperties
        <5>2. retained[1] \in Event
          BY <2>1, <5>1, ElementOfSeq
        <5> QED
          BY <5>2 DEF Event
      <4> QED
        BY <3>1, <4>1 DEF OpFine
    <3> QED
      BY <1>1, <2>7, <3>1, <3>2, FileQueued DEF o
  <2> QED
    BY <2>4, <2>6, <2>7
<1> QED
  BY <1>2, <1>3

LEMMA FileBarrier ==
    ASSUME IInv, FileInv, NEW c \in Clients, SendBarrier(c)
    PROVE  FileInv'
<1> DEFINE o == Op("barrier", <<>>, FALSE)
<1>1. o \in Ops /\ o.kind = "barrier"
  BY DEF Op, Ops
<1>2. queue' = Append(queue, o)
      /\ UNCHANGED <<mode, log, life, retained, file, synced, dirty>>
  BY DEF SendBarrier, window, disk
<1> HIDE DEF o
<1> QED
  BY <1>1, <1>2, FileQueued DEF OpFine

(* The writer's step: what it leaves behind.                                *)
LEMMA FileWritten ==
    ASSUME IInv, FileInv, UNCHANGED <<mode, log, life, retained>>,
           \A o \in OpsOf(queue') : o \in OpsOf(queue) \/ o.kind = "sync",
           Reaches', Boundary'
    PROVE  FileInv'
<1>1. \A o \in OpsOf(queue') : OpFine(o)'
  BY DEF FileInv, OpFine
<1> QED
  BY <1>1 DEF FileInv, Lives

(* The first event of a file that starts with a frame is number one.        *)
LEMMA FileWriter ==
    ASSUME IInv, FileInv, IInv', Writer
    PROVE  FileInv'
<1>1. /\ TypeInv /\ log \in Seq(Event) /\ file \in Seq(Event) /\ queue \in Seq(Ops)
      /\ retained \in Seq(Event) /\ BlockOf(file, log) /\ synced \in 0..Len(file)
      /\ queue # <<>> /\ file' \in Seq(Event)
  <2>1. queue # <<>>
    BY DEF Writer, WriteFrame, FailFrame, Rewrite, FailRewrite, Sync, FailSync,
           ReachBarrier, WriterHas
  <2> QED
    BY <2>1, Typed DEF IInv, FileBlock, TypeInv, TypeOK
<1>2. /\ Len(queue) \in Nat /\ 1 \in 1..Len(queue) /\ Head(queue) = queue[1]
      /\ queue[1] \in Ops /\ Head(queue) \in OpsOf(queue)
      /\ queue[1].frames \in Seq(Event)
  <2>1. Len(queue) \in Nat /\ 1 \in 1..Len(queue)
    BY <1>1, EmptySeq, LenProperties
  <2>2. queue[1] \in Ops
    BY <1>1, <2>1, ElementOfSeq
  <2> QED
    BY <2>1, <2>2 DEF Ops, OpsOf
<1>3. /\ Place(queue, 1, file, Begun, stage)
      /\ OpFine(Head(queue)) /\ End(file) \in Nat
  <2>1. End(file) \in 0..Len(log) /\ Len(log) \in Nat
    BY <1>1, Typed, BlockSeqs
  <2>2. Place(queue, 1, file, Begun, stage)
    BY <1>2 DEF IInv, QueueCarries, Place
  <2>3. OpFine(Head(queue))
    BY <1>2 DEF FileInv
  <2>4. End(file) \in Nat
    BY <2>1
  <2> QED
    BY <2>2, <2>3, <2>4
<1>4. /\ OpsOf(Tail(queue)) \subseteq OpsOf(queue)
      /\ \A o \in OpsOf(Rest) : o \in OpsOf(queue) \/ o.kind = "sync"
      /\ Head(queue).sync => Rest # <<>> /\ Head(Rest).kind = "sync"
  BY <1>1, OpsTail, OpsRest DEF Op
<1>5. /\ Len(file) \in Nat /\ synced \in Int
      /\ ~WriterHas("sync") => 
            (mode = "open" => \A i \in (synced + 1)..Len(file) :
                                  ~(file[i].sync /\ file[i].life = life))
  BY <1>1, LenProperties DEF FileInv, Boundary
<1>6. CASE WriteFrame
  <2> DEFINE t == queue[1].frames
  <2>1. /\ queue[1].kind = "append" /\ file' = file \o t /\ queue' = Rest /\ dirty' = TRUE
        /\ UNCHANGED <<mode, log, life, retained, synced>> /\ ~WriterHas("sync")
    BY <1>2, <1>6 DEF WriteFrame, WriterHas, untouched, window
  <2>2. /\ t \in Seq(Event) /\ Len(t) = 1 /\ End(t) = End(file) + 1 - Begun /\ Begun = 0
        /\ queue[1].sync = t[1].sync
    BY <1>1, <1>2, <1>3, <2>1 DEF Place, Begun, OpFine
  <2> HIDE DEF t
  <2>3. /\ Len(file') = Len(file) + 1
        /\ \A i \in 1..Len(file) : file'[i] = file[i]
        /\ file'[Len(file) + 1] = t[1]
    <3>1. /\ Len(file \o t) = Len(file) + Len(t)
          /\ \A i \in 1..(Len(file) + Len(t)) :
                 (file \o t)[i] = IF i <= Len(file) THEN file[i] ELSE t[i - Len(file)]
      BY <1>1, <2>2, ConcatProperties
    <3>2. Len(file') = Len(file) + 1
      BY <2>1, <2>2, <3>1
    <3>3. ASSUME NEW i \in 1..Len(file) PROVE file'[i] = file[i]
      BY <1>5, <2>1, <2>2, <3>1
    <3>4. file'[Len(file) + 1] = t[1]
      <4>1. Len(file) + 1 - Len(file) = 1 /\ ~(Len(file) + 1 <= Len(file))
            /\ Len(file) + 1 \in 1..(Len(file) + Len(t))
        BY <1>5, <2>2
      <4> QED
        BY <2>1, <3>1, <4>1
    <3> QED
      BY <3>2, <3>3, <3>4
  <2>4. Reaches'
    <3> SUFFICES ASSUME retained # <<>> PROVE file'[1].seq <= retained[1].seq
      BY <2>1 DEF Reaches
    <3>1. CASE file # <<>>
      <4>1. 1 \in 1..Len(file)
        BY <1>1, <1>5, <3>1, EmptySeq
      <4> QED
        BY <2>3, <3>1, <4>1 DEF FileInv, Reaches
    <3>2. CASE file = <<>>
      <4>1. Len(file) = 0 /\ End(file) = 0
        BY <1>1, <3>2, EmptySeq DEF End
      <4>2. t # <<>>
        <5>1. t = <<>> <=> Len(t) = 0
          BY <2>2, EmptySeq
        <5> QED
          BY <2>2, <5>1
      <4>3. t[1].seq = 1
        BY <2>2, <4>1, <4>2 DEF End
      <4>4. file'[1].seq = 1
        BY <2>3, <4>1, <4>3
      <4>5. mode = "open" /\ Running
        BY <1>1 DEF IInv, Held, TypeInv, TypeOK, Running
      <4>6. 1 \in 1..Len(retained)
        BY <1>1, EmptySeq, LenProperties
      <4>7. retained[1].seq \in 1..Len(log)
        BY <4>5, <4>6 DEF IInv, WindowBlock, BlockOf
      <4> QED
        BY <4>4, <4>7
    <3> QED
      BY <3>1, <3>2
  <2>5. Boundary'
    <3> SUFFICES ASSUME mode = "open", NEW i \in (synced + 1)..Len(file'),
                        file'[i].sync, file'[i].life = life
                 PROVE  i = Len(file') /\ WriterHas("sync")'
      BY <2>1 DEF Boundary
    <3>1. CASE i <= Len(file)
      <4>1. i \in 1..Len(file) /\ i \in (synced + 1)..Len(file)
        BY <1>1, <1>5, <3>1
      <4> QED
        BY <1>5, <2>1, <2>3, <4>1
    <3>2. CASE ~(i <= Len(file))
      <4>1. i = Len(file) + 1
        BY <1>5, <2>3, <3>2
      <4>2. queue[1].sync
        BY <2>2, <2>3, <4>1
      <4> QED
        BY <1>2, <1>4, <2>1, <2>3, <4>1, <4>2 DEF WriterHas
    <3> QED
      BY <3>1, <3>2
  <2> QED
    BY <1>4, <2>1, <2>4, <2>5, FileWritten
<1>7. CASE Rewrite
  <2>1. /\ queue[1].kind = "rewrite" /\ file' = queue[1].frames /\ queue' = Tail(queue)
        /\ synced' = Len(file') /\ UNCHANGED <<mode, log, life, retained>>
    BY <1>2, <1>7 DEF Rewrite, WriterHas, untouched, window
  <2>2. Reaches'
    BY <1>2, <1>3, <2>1 DEF Reaches, OpFine
  <2>3. Boundary'
    <3>1. Len(file') \in Nat
      BY <1>1, LenProperties
    <3>2. \A i \in (synced' + 1)..Len(file') : FALSE
      BY <2>1, <3>1
    <3> QED
      BY <3>2 DEF Boundary
  <2> QED
    BY <1>4, <2>1, <2>2, <2>3, FileWritten
<1>8. CASE Sync
  <2>1. /\ queue[1].kind = "sync" /\ queue' = Tail(queue)
        /\ synced' = (IF dirty THEN Len(file) ELSE synced)
        /\ UNCHANGED <<mode, log, life, retained, file>>
    BY <1>2, <1>8 DEF Sync, WriterHas, untouched, window, Flushed
  <2>2. Reaches'
    BY <2>1 DEF FileInv, Reaches
  <2>3. Boundary'
    <3>1. CASE dirty
      <4>1. \A i \in (synced' + 1)..Len(file') : FALSE
        BY <1>5, <2>1, <3>1
      <4> QED
        BY <4>1 DEF Boundary
    <3>2. CASE ~dirty
      BY <2>1, <3>2 DEF FileInv, Boundary
    <3> QED
      BY <3>1, <3>2
  <2> QED
    BY <1>4, <2>1, <2>2, <2>3, FileWritten
<1>9. CASE ReachBarrier
  <2>1. /\ queue[1].kind = "barrier" /\ queue' = Tail(queue)
        /\ UNCHANGED <<mode, log, life, retained, file, synced, dirty>> /\ ~WriterHas("sync")
    BY <1>2, <1>9 DEF ReachBarrier, WriterHas, untouched, window, disk
  <2>2. Reaches' /\ Boundary'
    BY <1>5, <2>1 DEF FileInv, Reaches, Boundary
  <2> QED
    BY <1>4, <2>1, <2>2, FileWritten
<1>10. ~(FailFrame \/ FailRewrite \/ FailSync)
  BY DEF FailFrame, FailRewrite, FailSync, IInv, NoFailure
<1> QED
  BY <1>6, <1>7, <1>8, <1>9, <1>10 DEF Writer

LEMMA FileReopen ==
    ASSUME IInv, FileInv, Reopen
    PROVE  FileInv'
<1>1. /\ log \in Seq(Event) /\ file \in Seq(Event) /\ BlockOf(file, log) /\ life \in Nat
      /\ Len(log) \in Nat /\ Len(file) \in Nat /\ queue = <<>>
  BY Typed, LenProperties DEF IInv, FileBlock, TypeInv, TypeOK, Reopen, Held
<1>2. /\ life' = life + 1 /\ log' = First(log, Recovered)
      /\ UNCHANGED <<queue, dirty, file, synced>>
  BY DEF Reopen, disk
<1>3. PICK n \in Cuts(file) : retained' = From(file, n)
  BY DEF Reopen
<1>4. Recovered = End(file) /\ End(file) \in 0..Len(log)
  BY <1>1, BlockSeqs DEF Recovered, End
<1> DEFINE m == End(file)
<1>5. m \in Nat /\ m <= Len(log) /\ log' = First(log, m)
  BY <1>1, <1>2, <1>4
<1> HIDE DEF m
<1>6. Len(log') = m /\ \A i \in 1..m : log'[i] = log[i]
  BY <1>1, <1>5, FirstProperties
<1>7. \A i \in 1..Len(log) : log[i].life \in Nat /\ log[i].life <= life
  <2>1. \A i \in 1..Len(log) : log[i] \in Event
    BY <1>1, ElementOfSeq
  <2> QED
    BY <2>1 DEF Event, FileInv, Lives
<1>8. Lives'
  <2>1. ASSUME NEW i \in 1..Len(log') PROVE log'[i].life <= life + 1
    <3>1. i \in 1..Len(log) /\ log'[i] = log[i]
      BY <1>1, <1>5, <1>6
    <3> QED
      BY <1>1, <1>7, <3>1
  <2> QED
    BY <1>2, <2>1 DEF Lives
<1>9. Reaches'
  <2> SUFFICES ASSUME retained' # <<>> PROVE file[1].seq <= retained'[1].seq
    BY <1>2 DEF Reaches
  <2>1. /\ retained' \in Seq(Event) /\ Len(retained') = Len(file) - n + 1
        /\ \A i \in 1..Len(retained') : retained'[i] = file[n + i - 1]
        /\ n \in 1..(Len(file) + 1)
    BY <1>1, <1>3, FromProperties DEF Cuts
  <2>2. Len(retained') \in Nat \ {0}
    BY <2>1, EmptySeq, LenProperties
  <2>3. 1 \in 1..Len(retained') /\ n + 1 - 1 = n /\ n \in 1..Len(file) /\ 1 \in 1..Len(file)
    BY <1>1, <2>1, <2>2
  <2>4. retained'[1] = file[n]
    BY <2>1, <2>3, ZenonT(20)
  <2> DEFINE a == file[1].seq
             b == file[n].seq
  <2>5. a \in Nat /\ b = a + n - 1
    BY <1>1, <2>3, BlockSeqs DEF BlockOf
  <2> HIDE DEF a, b
  <2>6. a <= b
    BY <2>3, <2>5
  <2> QED
    BY <2>4, <2>6 DEF a, b
<1>10. Boundary'
  <2>1. ASSUME NEW i \in (synced + 1)..Len(file) PROVE file[i].life # life + 1
    <3>1. synced \in Nat
      BY DEF IInv, TypeInv, TypeOK
    <3>2. i \in 1..Len(file)
      BY <1>1, <3>1
    <3>3. file[i] = log[file[i].seq] /\ file[i].seq \in 1..Len(log)
      BY <1>1, <3>2 DEF BlockOf
    <3>4. file[i].life \in Nat /\ file[i].life <= life
      BY <1>7, <3>3
    <3> QED
      BY <1>1, <3>4
  <2> QED
    BY <1>2, <2>1 DEF Boundary
<1>11. OpsOf(queue') = {}
  <2>1. Len(queue') = 0
    BY <1>1, <1>2, EmptySeq
  <2> QED
    BY <2>1 DEF OpsOf
<1> QED
  BY <1>8, <1>9, <1>10, <1>11 DEF FileInv

LEMMA FileNext == ASSUME IInv, FileInv, IInv', [Next]_vars PROVE FileInv'
<1>1. ASSUME NEW k \in Kinds, Publish(k) PROVE FileInv'
  BY <1>1, FilePublish
<1>2. CASE FanOut
  BY <1>2, FileFanOut
<1>3. ASSUME NEW c \in Clients, SendBarrier(c) PROVE FileInv'
  BY <1>3, FileBarrier
<1>4. ASSUME NEW c \in Clients, Subscriber(c) \/ Disconnect(c), ~SendBarrier(c) PROVE FileInv'
  <2>1. UNCHANGED <<mode, log, life, retained, queue, file, synced, dirty>>
    BY <1>4 DEF Subscriber, SubscribeFromMemory, SubscribeExpired, SubscribeFromDisk,
       FinishRead, ConsumeReplay, ConsumeLive, SeeClosed, StartOver, Disconnect,
       window, writer, disk
  <2> QED
    BY <2>1, FileFrame
<1>5. CASE Writer
  BY <1>5, FileWriter
<1>6. CASE Close \/ Refuse \/ UNCHANGED vars
  <2>1. /\ UNCHANGED <<log, life, retained, queue, file, synced, dirty>>
        /\ mode' = mode \/ mode' # "open"
    BY <1>6 DEF Close, Refuse, vars, window, writer, disk
  <2> QED
    BY <2>1, FileFrame
<1>7. CASE WriterExit \/ FailExit
  <2>1. UNCHANGED <<log, life, retained, queue, file>> /\ mode' = "closed"
    BY <1>7 DEF WriterExit, FailExit, window, disk
  <2>2. Boundary'
    BY <2>1 DEF Boundary
  <2> QED
    BY <2>1, <2>2 DEF FileInv, Lives, Reaches, OpFine
<1>8. CASE Crash \/ PowerCut
  <2>1. UNCHANGED <<log, life>> /\ mode' = "down" /\ retained' = <<>> /\ queue' = <<>>
    BY <1>8 DEF Crash, PowerCut, Gone
  <2>2. OpsOf(queue') = {}
    <3>1. Len(queue') = 0
      BY <2>1, EmptySeq
    <3> QED
      BY <3>1 DEF OpsOf
  <2>3. Boundary' /\ Reaches'
    BY <2>1 DEF Boundary, Reaches
  <2> QED
    BY <2>1, <2>2, <2>3 DEF FileInv, Lives
<1>9. CASE Reopen
  BY <1>9, FileReopen
<1> QED
  BY <1>1, <1>2, <1>3, <1>4, <1>5, <1>6, <1>7, <1>8, <1>9 DEF Next, Idle, Subscriber

(* When the writer has caught up, the file ends where the log ends.         *)
LEMMA FileEnds ==
    ASSUME IInv, Spill, Running, queue = <<>>, holder # Publisher
    PROVE  IsSuffix(file, log) /\ End(file) = Len(log)
<1>1. log \in Seq(Event) /\ file \in Seq(Event) /\ BlockOf(file, log) /\ Len(log) \in Nat
  BY Typed DEF IInv, FileBlock
<1>2. Begun = 0 /\ Waiting = 0 /\ Len(queue) = 0
  BY EmptySeq DEF Begun, Waiting, IInv, QueueCarries
<1>3. End(file) + Len(queue) - Begun - Waiting = Len(log)
  BY DEF IInv, QueueCarries, FannedOut
<1>4. End(file) \in 0..Len(log)
  BY <1>1, BlockSeqs
<1>5. End(file) = Len(log)
  BY <1>1, <1>2, <1>3, <1>4
<1> QED
  BY <1>1, <1>5, BlockSuffix

LEMMA CoversWindow == ASSUME IInv, FileInv PROVE FileCoversWindow
<1> SUFFICES ASSUME SpillOpen, queue = <<>>, holder # Publisher
             PROVE  IsSuffix(file, log) /\ Len(file) >= Len(retained)
  BY DEF FileCoversWindow
<1>1. Spill /\ Running
  BY DEF SpillOpen, Running
<1>2. IsSuffix(file, log) /\ End(file) = Len(log)
  BY <1>1, FileEnds
<1>3. /\ log \in Seq(Event) /\ file \in Seq(Event) /\ retained \in Seq(Event)
      /\ BlockOf(file, log) /\ BlockOf(retained, log)
      /\ Len(log) \in Nat /\ Len(file) \in Nat /\ Len(retained) \in Nat
  BY <1>1, Typed, LenProperties DEF IInv, FileBlock, WindowBlock
<1>4. Len(file) >= Len(retained)
  <2>1. CASE retained = <<>>
    <3>1. Len(retained) = 0
      BY <2>1, EmptySeq
    <3> QED
      BY <1>3, <3>1
  <2>2. CASE retained # <<>>
    <3> DEFINE a == file[1].seq
               b == retained[1].seq
    <3>1. b + Len(retained) - 1 = Len(log) /\ 1 \in 1..Len(retained) /\ Len(log) # 0
      <4>1. End(retained) = Len(log)
        BY <1>1, <2>2 DEF IInv, WindowBlock
      <4>2. Len(retained) > 0 /\ End(retained) = b + Len(retained) - 1 /\ End(retained) \in 1..Len(log)
        BY <1>3, <2>2, BlockSeqs
      <4> QED
        BY <1>3, <4>1, <4>2
    <3>2. file # <<>>
      BY <1>2, <3>1 DEF End
    <3>3. a + Len(file) - 1 = Len(log) /\ 1 \in 1..Len(file)
      BY <1>2, <1>3, <3>2, BlockSeqs
    <3>4. a \in Nat /\ b \in Nat
      BY <1>3, <3>1, <3>3, BlockSeqs
    <3>5. a <= b
      BY <2>2, <3>2 DEF FileInv, Reaches
    <3> HIDE DEF a, b
    <3> QED
      BY <1>3, <3>1, <3>3, <3>4, <3>5
  <2> QED
    BY <2>1, <2>2
<1> QED
  BY <1>2, <1>4

(* The inductive invariant, with the file.                                  *)
FileSound == Sound /\ (Unspent("disk") => FileInv)

LEMMA FileSoundInit == ASSUME Init PROVE FileSound
BY SoundInit, FileInit DEF FileSound

LEMMA FileSoundNext == ASSUME Orderly, FileSound, [Next]_vars PROVE FileSound'
<1>1. Sound /\ Sound'
  BY SoundNext DEF FileSound
<1>2. ASSUME Unspent("disk")' PROVE FileInv'
  <2>1. IInv /\ IInv' /\ FileInv
    BY <1>1, <1>2, SoundStep DEF FileSound
  <2> QED
    BY <2>1, FileNext
<1> QED
  BY <1>1, <1>2 DEF FileSound

LEMMA AlwaysFileSound == ASSUME Orderly PROVE Spec => []FileSound
<1>1. Init => FileSound
  BY FileSoundInit
<1>2. FileSound /\ [Next]_vars => FileSound'
  BY FileSoundNext
<1> QED
  BY <1>1, <1>2, PTL DEF Spec

LEMMA FileSoundStands == FileSound => FileStands
BY CoversWindow DEF FileSound, Sound, FileInv, Boundary, FileStands, BoundarySynced

(* The file stands, whatever rewrites, appends, flushes, restarts and power *)
(* cuts made it: when the writer has caught up it is the newest part of the *)
(* journal and covers the window, and a frame whose type asks for a flush is*)
(* flushed before the writer takes another op.                              *)
THEOREM JournalFileStands == ASSUME Orderly PROVE Spec => []FileStands
BY AlwaysFileSound, FileSoundStands, PTL

-----------------------------------------------------------------------------
(* Close leaves the file whole and flushed.                                 *)

(* What is not flushed is known to the writer.                              *)
Flushing ==
    /\ dirty \/ synced = Len(file)
    /\ Spill /\ mode = "closed" => synced = Len(file)

(* What Close promises is lost by a process that dies, since the next does  *)
(* not flush what it left, and by a failed write: it stops the promise while*)
(* the process lives, and leaves a hole in what the next one finds.         *)
Drainable ==
    /\ Unspent("crash")
    /\ Unspent("disk") \/ life = 0

Draining == Sound /\ (Drainable /\ NoFailure => IInv /\ Flushing)

LEMMA FlushingNext ==
    ASSUME IInv, IInv', Flushing, [Next]_vars, ~Crash
    PROVE  Flushing'
<1>1. ASSUME UNCHANGED <<dirty, synced, file>>,
             Spill /\ mode' = "closed" => mode = "closed" \/ ~dirty
      PROVE  Flushing'
  BY <1>1 DEF Flushing
<1>2. ASSUME NEW k \in Kinds, Publish(k) PROVE Flushing'
  BY <1>1, <1>2 DEF Publish, writer, disk
<1>3. CASE FanOut
  BY <1>1, <1>3 DEF FanOut, disk
<1>4. ASSUME NEW c \in Clients, Subscriber(c) \/ Disconnect(c) PROVE Flushing'
  BY <1>1, <1>4 DEF Subscriber, SubscribeFromMemory, SubscribeExpired, SubscribeFromDisk,
     SendBarrier, FinishRead, ConsumeReplay, ConsumeLive, SeeClosed, StartOver, Disconnect,
     writer, disk
<1>5. CASE Writer
  <2>1. mode' = mode /\ mode # "closed"
    <3>1. queue # <<>>
      BY <1>5 DEF Writer, WriteFrame, FailFrame, Rewrite, FailRewrite, Sync, FailSync,
         ReachBarrier, WriterHas
    <3> QED
      BY <1>5, <3>1 DEF IInv, Held, Writer, WriteFrame, FailFrame, Rewrite, FailRewrite, Sync,
         FailSync, ReachBarrier, untouched
  <2>2. dirty' \/ synced' = Len(file')
    <3>1. ~(FailFrame \/ FailRewrite \/ FailSync)
      BY DEF FailFrame, FailRewrite, FailSync, IInv, NoFailure
    <3>2. CASE WriteFrame
      BY <3>2 DEF WriteFrame
    <3>3. CASE Rewrite
      BY <3>3 DEF Rewrite
    <3>4. CASE Sync
      BY <3>4 DEF Sync, Flushed, Flushing
    <3>5. CASE ReachBarrier
      BY <3>5 DEF ReachBarrier, Flushing, disk
    <3> QED
      BY <1>5, <3>1, <3>2, <3>3, <3>4, <3>5 DEF Writer
  <2> QED
    BY <2>1, <2>2 DEF Flushing
<1>6. CASE Close
  <2>1. UNCHANGED <<dirty, synced, file>> /\ holder = Free /\ mode \in {"open", "closed"}
    BY <1>6 DEF Close, writer, disk, Running
  <2>2. Spill /\ mode' = "closed" => mode = "closed"
    BY <1>6, <2>1 DEF Close, SpillOpen, Free, Closer
  <2> QED
    BY <1>1, <2>1, <2>2
<1>7. CASE WriterExit \/ FailExit
  <2>1. WriterExit
    BY <1>7 DEF FailExit, IInv, NoFailure
  <2>2. synced' = Len(file) /\ file' = file
    BY <2>1 DEF WriterExit, Flushed, Flushing
  <2> QED
    BY <2>2 DEF Flushing
<1>8. CASE PowerCut
  <2>1. mode' = "down"
    BY <1>8 DEF PowerCut, Gone
  <2>2. synced' = Len(file')
    <3>1. CASE \E n \in synced..Len(file) : file' = SubSeq(file, 1, n) /\ synced' = n
      <4>1. PICK n \in synced..Len(file) : file' = SubSeq(file, 1, n) /\ synced' = n
        BY <3>1
      <4>2. file \in Seq(Event) /\ Len(file) \in Nat /\ synced \in 0..Len(file)
        BY Typed, LenProperties DEF IInv, TypeInv, TypeOK
      <4>3. n \in 0..Len(file) /\ \A i \in 1..n : file[i] \in Event
        BY <4>2, ElementOfSeq
      <4>4. Len(SubSeq(file, 1, n)) = n
        BY <4>2, <4>3, SubSeqProperties
      <4> QED
        BY <4>1, <4>4
    <3>2. CASE \E before \in shadow : file' = before /\ synced' = Len(before)
      BY <3>2
    <3> QED
      BY <1>8, <3>1, <3>2 DEF PowerCut
  <2> QED
    BY <2>1, <2>2 DEF Flushing
<1>9. CASE Reopen
  BY <1>1, <1>9 DEF Reopen, disk
<1>10. CASE Refuse \/ UNCHANGED vars
  BY <1>1, <1>10 DEF Refuse, vars, writer, disk
<1> QED
  BY <1>2, <1>3, <1>4, <1>5, <1>6, <1>7, <1>8, <1>9, <1>10 DEF Next, Idle

LEMMA DrainingInit == ASSUME Init PROVE Draining
<1>1. IInv /\ Len(file) = 0
  BY DeliveryInit, EmptySeq DEF Init
<1>2. Flushing
  BY <1>1 DEF Init, Flushing
<1> QED
  BY <1>1, <1>2, SoundInit DEF Draining

(* Only a restart begins a life and forgets a failure.                      *)
LEMMA StillFailed ==
    ASSUME TypeInv, [Next]_vars, life' = 0
    PROVE  life = 0 /\ (NoFailure' => NoFailure)
<1>1. failed \in BOOLEAN /\ life \in Nat
  BY DEF TypeInv, TypeOK
<1>2. ~Reopen
  BY <1>1 DEF Reopen
<1>3. life' = life /\ (failed' = failed \/ failed' = TRUE)
  <2>1. ASSUME NEW k \in Kinds, Publish(k) PROVE life' = life /\ failed' = failed
    BY <2>1 DEF Publish, writer
  <2>2. ASSUME NEW c \in Clients, Subscriber(c) \/ Disconnect(c)
        PROVE  life' = life /\ failed' = failed
    BY <2>2 DEF window, Subscriber, SubscribeFromMemory, SubscribeExpired, SubscribeFromDisk,
       SendBarrier, FinishRead, ConsumeReplay, ConsumeLive, SeeClosed, StartOver,
       Disconnect, writer
  <2>3. CASE Writer
    BY <2>3 DEF window, untouched, Writer, WriteFrame, FailFrame, Rewrite, FailRewrite, Sync, FailSync,
       ReachBarrier
  <2>4. CASE FanOut \/ Close \/ WriterExit \/ FailExit
    BY <2>4 DEF window, FanOut, Close, WriterExit, FailExit, writer
  <2>5. CASE Crash \/ PowerCut \/ Refuse \/ UNCHANGED vars
    BY <2>5 DEF window, Crash, PowerCut, Gone, Refuse, vars, writer
  <2> QED
    BY <1>2, <2>1, <2>2, <2>3, <2>4, <2>5 DEF Next, Idle
<1> QED
  BY <1>1, <1>3 DEF NoFailure

LEMMA DrainingNext == ASSUME Orderly, Draining, [Next]_vars PROVE Draining'
<1>1. Sound /\ Sound' /\ TypeInv
  BY SoundNext DEF Draining, Sound
<1>2. ASSUME Drainable', NoFailure' PROVE IInv' /\ Flushing'
  <2>1. Unspent("crash") /\ budget \in [Accidents -> Nat]
    BY <1>1, <1>2, StillUnspent, Typed DEF Drainable, Accidents
  <2>2. ~Crash
    BY <1>2, <2>1 DEF Crash, Spend, Unspent, Drainable, Accidents
  <2>3. IInv /\ Flushing
    <3>1. CASE Unspent("disk")'
      <4>1. Unspent("disk") /\ IInv
        BY <1>1, <3>1, SoundStep
      <4> QED
        BY <2>1, <4>1 DEF Draining, Drainable, IInv
    <3>2. CASE life' = 0
      <4>1. life = 0 /\ NoFailure
        BY <1>1, <1>2, <3>2, StillFailed
      <4> QED
        BY <2>1, <4>1 DEF Draining, Drainable
    <3> QED
      BY <1>2, <3>1, <3>2 DEF Drainable
  <2>4. IInv'
    BY <1>2, <2>3, DeliveryNext
  <2> QED
    BY <2>2, <2>3, <2>4, FlushingNext
<1> QED
  BY <1>1, <1>2 DEF Draining

LEMMA DrainingDrains == Draining /\ Drainable => CloseDrains
<1> SUFFICES ASSUME Draining, Drainable, Spill, mode = "closed", ~failed
             PROVE  synced = Len(file) /\ IsSuffix(file, log) /\ (log # <<>> => file # <<>>)
  BY DEF CloseDrains
<1>1. IInv /\ Flushing
  BY DEF Draining, Sound, NoFailure, TypeInv, TypeOK
<1>2. queue = <<>> /\ holder # Publisher /\ Running
  BY <1>1 DEF IInv, Held, Running
<1>3. IsSuffix(file, log) /\ End(file) = Len(log)
  BY <1>1, <1>2, FileEnds
<1>4. log # <<>> => file # <<>>
  <2> SUFFICES ASSUME file = <<>> PROVE log = <<>>
    OBVIOUS
  <2>1. Len(log) = 0
    BY <1>3 DEF End
  <2> QED
    BY <1>1, <2>1, Typed, EmptySeq DEF IInv
<1> QED
  BY <1>1, <1>3, <1>4 DEF Flushing

LEMMA AlwaysDraining == ASSUME Orderly PROVE Spec => []Draining
<1>1. Init => Draining
  BY DrainingInit
<1>2. Draining /\ [Next]_vars => Draining'
  BY DrainingNext
<1> QED
  BY <1>1, <1>2, PTL DEF Spec

(* "Whatever the policy, the journal is on the platter when Close returns": *)
(* when it returns no error, the file is the newest part of the journal,    *)
(* holds its last event and has been flushed, until a process has crashed:  *)
(* what it left unflushed, Close does not flush.                            *)
THEOREM JournalCloseDrains == ASSUME Orderly PROVE Spec => [](Drainable => CloseDrains)
BY AlwaysDraining, DrainingDrains, PTL

-----------------------------------------------------------------------------
(* The journal implements EventLog.                                         *)

(* What a reader reads next is the event of the log after its cursor.       *)
LEMMA ReadsNext ==
    ASSUME IInv, NEW c \in Clients, ConsumeReplay(c) \/ ConsumeLive(c)
    PROVE  EventLog!Read(c)
<1>1. /\ TypeInv /\ sub[c].replay \in Seq(Event) /\ sub[c].chan \in Seq(Event)
      /\ Cursor(c) \in Nat /\ Len(log) \in Nat
  BY Typed, TypedReader DEF IInv
<1> DEFINE r == sub[c].replay
           h == sub[c].chan
           n == Cursor(c)
<1>2. Owed(c) /\ UNCHANGED log
  BY DEF ConsumeReplay, ConsumeLive, IInv, Deliveries, window
<1>3. /\ n + Len(r \o h) <= FannedOut
      /\ \A i \in 1..Len(r \o h) : (r \o h)[i] = log[n + i]
  BY <1>2 DEF Owed
<1>4. r \o h # <<>> /\ last' = [last EXCEPT ![c] = Head(r \o h)]
  <2>1. CASE ConsumeReplay(c)
    <3>1. r # <<>> /\ last' = [last EXCEPT ![c] = Head(r)]
      BY <2>1 DEF ConsumeReplay
    <3>2. r \o h # <<>> /\ Head(r \o h) = Head(r)
      BY <1>1, <3>1, HeadTailConcat
    <3> QED
      BY <3>1, <3>2
  <2>2. CASE ConsumeLive(c)
    <3>1. r = <<>> /\ h # <<>> /\ last' = [last EXCEPT ![c] = Head(h)]
      BY <2>2 DEF ConsumeLive, ReplayRead
    <3>2. r \o h = h
      BY <1>1, <3>1, ConcatEmptySeq
    <3> QED
      BY <3>1, <3>2
  <2> QED
    BY <2>1, <2>2
<1> DEFINE got == r \o h
<1>5. got \in Seq(Event)
  BY <1>1, ConcatProperties
<1> HIDE DEF got, n
<1>6. Len(got) \in Nat \ {0} /\ 1 \in 1..Len(got) /\ Head(got) = got[1]
  <2>1. got # <<>>
    BY <1>4 DEF got
  <2>2. Len(got) \in Nat \ {0}
    BY <1>5, <2>1, EmptySeq, LenProperties
  <2>3. Head(got) = got[1]
    OBVIOUS
  <2> QED
    BY <2>2, <2>3
<1>7. Head(got) = log[n + 1]
  BY <1>3, <1>6 DEF got
<1>8. FannedOut <= Len(log) /\ FannedOut \in Int
  BY <1>1 DEF FannedOut
<1>9. n + Len(got) <= FannedOut
  BY <1>3 DEF got
<1>10. n < Len(log)
  BY <1>1, <1>6, <1>8, <1>9 DEF n
<1> QED
  BY <1>2, <1>4, <1>7, <1>10 DEF EventLog!Read, got, n, Cursor

(* A publisher adds one event at the end.                                   *)
LEMMA PublishGrows ==
    ASSUME IInv, NEW k \in Kinds, Publish(k)
    PROVE  EventLog!Grow
<1> DEFINE e == [seq |-> Len(log) + 1, life |-> life, size |-> k.size, sync |-> k.sync]
<1>1. log \in Seq(Event) /\ Len(log) \in Nat /\ log' = Append(log, e) /\ last' = last
  BY Typed DEF Publish, IInv
<1>2. log' \in Seq(Event)
  BY <1>1, TypePublish DEF IInv, TypeInv, TypeOK
<1>3. e.seq = Len(log) + 1
  OBVIOUS
<1> HIDE DEF e
<1>4. /\ Len(log') = Len(log) + 1 /\ log'[Len(log) + 1] = e
      /\ \A i \in 1..Len(log) : log'[i] = log[i]
  BY <1>1, AppendProperties
<1> DEFINE t == SubSeq(log', 1, Len(log))
<1>5. /\ t \in Seq(Event) /\ Len(t) = Len(log)
      /\ \A i \in 1..Len(log) : t[i] = log'[i]
  <2>1. \A i \in 1..Len(log) : log'[i] \in Event
    BY <1>1, <1>2, <1>4
  <2> QED
    BY <1>1, <1>2, <1>4, <2>1, SubSeqProperties
<1> HIDE DEF t
<1>6. t = log
  BY <1>1, <1>4, <1>5, SeqEqual
<1> QED
  BY <1>1, <1>3, <1>4, <1>6 DEF EventLog!Grow, t

(* A restart takes away what the file did not keep.                         *)
LEMMA ReopenLoses ==
    ASSUME IInv, Reopen
    PROVE  EventLog!Lose
<1>1. log \in Seq(Event) /\ Len(log) \in Nat /\ file \in Seq(Event) /\ BlockOf(file, log)
  BY Typed DEF IInv, FileBlock
<1>2. Recovered = End(file) /\ End(file) \in 0..Len(log)
  BY <1>1, BlockSeqs DEF Recovered, End
<1>3. log' = First(log, Recovered) /\ UNCHANGED last
  BY DEF Reopen
<1> HIDE DEF Recovered
<1>4. log' = SubSeq(log, 1, Recovered)
  BY <1>1, <1>2, <1>3 DEF First
<1> QED
  BY <1>2, <1>3, <1>4 DEF EventLog!Lose

LEMMA StepKeepsPromise ==
    ASSUME IInv, [Next]_vars
    PROVE  [EventLog!Step]_<<log, last>>
<1>1. ASSUME NEW k \in Kinds, Publish(k) PROVE EventLog!Step
  BY <1>1, PublishGrows DEF EventLog!Step
<1>2. CASE FanOut
  BY <1>2 DEF FanOut, window
<1>3. ASSUME NEW c \in Clients, ConsumeReplay(c) \/ ConsumeLive(c) PROVE EventLog!Step
  BY <1>3, ReadsNext DEF EventLog!Step
<1>4. ASSUME NEW c \in Clients, StartOver(c) PROVE EventLog!Step
  BY <1>4 DEF StartOver, window, EventLog!Step, EventLog!StartOver
<1>5. ASSUME NEW c \in Clients,
             \/ SubscribeFromMemory(c) \/ SubscribeExpired(c) \/ SubscribeFromDisk(c)
             \/ SendBarrier(c) \/ FinishRead(c) \/ SeeClosed(c) \/ Disconnect(c)
      PROVE  UNCHANGED <<log, last>>
  BY <1>5 DEF SubscribeFromMemory, SubscribeExpired, SubscribeFromDisk, SendBarrier, FinishRead,
     SeeClosed, Disconnect, window
<1>6. CASE Writer
  BY <1>6 DEF Writer, WriteFrame, FailFrame, Rewrite, FailRewrite, Sync, FailSync,
     ReachBarrier, untouched, window
<1>7. CASE Close \/ WriterExit \/ FailExit
  BY <1>7 DEF Close, WriterExit, FailExit, window
<1>8. CASE Crash \/ PowerCut
  BY <1>8 DEF Crash, PowerCut, Gone
<1>9. CASE Reopen
  BY <1>9, ReopenLoses DEF EventLog!Step
<1>10. CASE Refuse \/ UNCHANGED vars
  BY <1>10 DEF Refuse, vars, window
<1> QED
  BY <1>1, <1>2, <1>3, <1>4, <1>5, <1>6, <1>7, <1>8, <1>9, <1>10 DEF Next, Idle, Subscriber

(* The journal implements EventLog: the log grows at its end and is cut at  *)
(* its end, and every reader reads the next event of it or starts over,     *)
(* whatever the window, the file, the writer's queue and the channels did,  *)
(* until a write fails.                                                     *)
THEOREM JournalKeepsPromise == ASSUME Orderly PROVE Spec => Promise
<1>1. Init => EventLog!Init
  BY DEF Init, EventLog!Init, Unspent
<1>2. Sound /\ [Next]_vars => [EventLog!Next]_<<log, last, Unspent("disk")>>
  <2> SUFFICES ASSUME Sound, [Next]_vars
               PROVE  [EventLog!Next]_<<log, last, Unspent("disk")>>
    OBVIOUS
  <2>1. CASE Unspent("disk")'
    <3>1. Unspent("disk") /\ IInv
      BY <2>1, SoundStep
    <3>2. [EventLog!Step]_<<log, last>>
      BY <3>1, StepKeepsPromise
    <3> QED
      BY <2>1, <3>1, <3>2 DEF EventLog!Next
  <2>2. CASE ~Unspent("disk")'
    BY <2>2 DEF EventLog!Next
  <2> QED
    BY <2>1, <2>2
<1> QED
  BY <1>1, <1>2, AlwaysSound, PTL DEF Spec, Promise, EventLog!Spec, EventLog!vars

-----------------------------------------------------------------------------
(* A reader is refused honestly, whether or not the disk fails: a file with *)
(* holes, or a log that a restart cut, still climbs.                        *)

(* s holds events numbered up to n, each with a higher number than those    *)
(* before it.                                                               *)
Climbs(s, n) ==
    \A i \in 1..Len(s) :
        /\ s[i].seq \in 1..n
        /\ \A j \in 1..(i - 1) : s[j].seq < s[i].seq

Carries(o) == o.kind \in {"append", "rewrite"}

(* Every op that carries frames takes a file that ends at f further.        *)
Ordered(q, f, n) ==
    \A i \in 1..Len(q) : Carries(q[i]) =>
        /\ q[i].frames # <<>> /\ Climbs(q[i].frames, n)
        /\ q[i].kind = "append" => Len(q[i].frames) = 1
        /\ f < End(q[i].frames)
        /\ \A j \in 1..(i - 1) : Carries(q[j]) => End(q[j].frames) < End(q[i].frames)

Piles ==
    /\ Climbs(retained, Len(log))
    /\ Climbs(file, FannedOut)
    /\ \A s \in shadow : Climbs(s, FannedOut) /\ End(s) <= End(file)
    /\ Ordered(queue, End(file), FannedOut)
    /\ ~Spill => queue = <<>> /\ file = <<>> /\ shadow = {}

(* A reader that holds the mutex found its cursor older than the window.    *)
Reading ==
    /\ mode = "down" => queue = <<>>
    /\ holder = Publisher => retained # <<>> /\ End(retained) = Len(log)
    /\ \A c \in Clients :
          holder = c => Spill /\ sub[c].state = "detached" /\ ~InWindow(Cursor(c))

Ascends == TypeInv /\ Numbered /\ Piles /\ Reading

LEMMA ClimbsEnd ==
    ASSUME NEW s \in Seq(Event), NEW n \in Nat, Climbs(s, n)
    PROVE  /\ Len(s) \in Nat
           /\ \A i \in 1..Len(s) : s[i].seq \in Nat \ {0} /\ s[i].seq <= End(s)
           /\ End(s) \in 0..n
           /\ s # <<>> => Len(s) \in 1..Len(s) /\ End(s) = s[Len(s)].seq
           /\ Climbs(s, End(s))
           /\ \A m \in Nat : n <= m => Climbs(s, m)
<1>1. Len(s) \in Nat /\ \A i \in 1..Len(s) : s[i].seq \in Nat \ {0} /\ s[i].seq <= n
  BY LenProperties DEF Climbs
<1>2. s # <<>> => Len(s) \in 1..Len(s) /\ End(s) = s[Len(s)].seq
  BY <1>1, EmptySeq DEF End
<1>3. ASSUME NEW i \in 1..Len(s) PROVE s[i].seq <= End(s)
  <2>1. Len(s) \in 1..Len(s) /\ End(s) = s[Len(s)].seq
    BY <1>1, <1>2, EmptySeq
  <2>2. CASE i = Len(s)
    BY <1>1, <2>1, <2>2
  <2>3. CASE i # Len(s)
    <3>1. i \in 1..(Len(s) - 1)
      BY <1>1, <2>3
    <3>2. s[i].seq < s[Len(s)].seq
      BY <2>1, <3>1 DEF Climbs
    <3> QED
      BY <1>1, <2>1, <3>2
  <2> QED
    BY <2>2, <2>3
<1>4. End(s) \in 0..n
  BY <1>1, <1>2 DEF End
<1>5. Climbs(s, End(s))
  BY <1>1, <1>3, <1>4 DEF Climbs
<1>6. ASSUME NEW m \in Nat, n <= m PROVE Climbs(s, m)
  BY <1>1, <1>6 DEF Climbs
<1> QED
  BY <1>1, <1>2, <1>3, <1>4, <1>5, <1>6

LEMMA ClimbsFrom ==
    ASSUME NEW s \in Seq(Event), NEW n \in Nat, Climbs(s, n), NEW k \in Cuts(s)
    PROVE  /\ Climbs(From(s, k), n)
           /\ From(s, k) # <<>> => End(From(s, k)) = End(s)
<1> DEFINE r == From(s, k)
<1>1. /\ r \in Seq(Event) /\ Len(r) = Len(s) - k + 1
      /\ \A i \in 1..Len(r) : r[i] = s[k + i - 1]
  BY FromProperties
<1>2. Len(s) \in Nat /\ k \in 1..(Len(s) + 1) /\ Len(r) \in Nat
  BY <1>1, LenProperties DEF Cuts
<1> HIDE DEF r
<1>3. ASSUME NEW i \in 1..Len(r)
      PROVE  r[i].seq \in 1..n /\ \A j \in 1..(i - 1) : r[j].seq < r[i].seq
  <2>1. k + i - 1 \in 1..Len(s) /\ r[i] = s[k + i - 1]
    BY <1>1, <1>2
  <2>2. ASSUME NEW j \in 1..(i - 1) PROVE r[j].seq < r[i].seq
    <3>1. j \in 1..Len(r)
      BY <1>2
    <3>2. r[j] = s[k + j - 1]
      BY <1>1, <3>1
    <3>3. PICK a \in 1..Len(s) : a = k + i - 1
      BY <2>1
    <3>4. PICK b \in 1..(a - 1) : b = k + j - 1
      BY <1>2, <3>3
    <3>5. s[b].seq < s[a].seq
      BY <3>3, <3>4 DEF Climbs
    <3> QED
      BY <2>1, <3>2, <3>3, <3>4, <3>5
  <2> QED
    BY <2>1, <2>2 DEF Climbs
<1>4. ASSUME r # <<>> PROVE End(r) = End(s)
  <2>1. Len(r) > 0
    BY <1>1, <1>2, <1>4, EmptySeq
  <2>2. r[Len(r)] = s[Len(s)] /\ Len(s) > 0
    BY <1>1, <1>2, <2>1
  <2>3. s # <<>>
    BY <2>2, EmptySeq
  <2> QED
    BY <1>4, <2>2, <2>3 DEF End
<1> QED
  BY <1>3, <1>4 DEF Climbs, r

LEMMA ClimbsPrefix ==
    ASSUME NEW s \in Seq(Event), NEW n \in Nat, Climbs(s, n), NEW k \in 0..Len(s)
    PROVE  /\ SubSeq(s, 1, k) \in Seq(Event) /\ Climbs(SubSeq(s, 1, k), n)
           /\ End(SubSeq(s, 1, k)) <= End(s)
<1> DEFINE r == SubSeq(s, 1, k)
<1>1. Len(s) \in Nat /\ k \in Int /\ k <= Len(s) /\ \A i \in 1..k : s[i] \in Event
  BY LenProperties, ElementOfSeq
<1>2. r \in Seq(Event) /\ Len(r) = k /\ \A i \in 1..k : r[i] = s[i]
  BY <1>1, SubSeqProperties
<1> HIDE DEF r
<1>3. Climbs(r, n)
  <2>1. ASSUME NEW i \in 1..Len(r)
        PROVE  r[i].seq \in 1..n /\ \A j \in 1..(i - 1) : r[j].seq < r[i].seq
    <3>1. i \in 1..Len(s) /\ i \in 1..k /\ \A j \in 1..(i - 1) : j \in 1..k
      BY <1>1, <1>2
    <3> QED
      BY <1>2, <3>1 DEF Climbs
  <2> QED
    BY <2>1 DEF Climbs
<1>4. End(r) <= End(s)
  <2>1. End(s) \in Nat
    BY ClimbsEnd
  <2>2. CASE r = <<>>
    BY <2>1, <2>2 DEF End
  <2>3. CASE r # <<>>
    <3>1. Len(r) \in 1..Len(r) /\ End(r) = r[Len(r)].seq
      BY <1>2, <1>3, <2>3, ClimbsEnd
    <3>2. Len(r) \in 1..Len(s) /\ r[Len(r)] = s[Len(r)]
      BY <1>1, <1>2, <3>1
    <3> QED
      BY <3>1, <3>2, ClimbsEnd
  <2> QED
    BY <2>2, <2>3
<1> QED
  BY <1>2, <1>3, <1>4 DEF r

(* One event more, numbered higher than the last.                           *)
LEMMA ClimbsAppend ==
    ASSUME NEW s \in Seq(Event), NEW n \in Nat, NEW m \in Nat, Climbs(s, n), n <= m,
           NEW e \in Event, End(s) < e.seq, e.seq <= m
    PROVE  /\ Climbs(Append(s, e), m)
           /\ Append(s, e) # <<>> /\ End(Append(s, e)) = e.seq
<1> DEFINE r == Append(s, e)
<1>1. /\ r \in Seq(Event) /\ Len(r) = Len(s) + 1 /\ Len(s) \in Nat
      /\ \A i \in 1..Len(s) : r[i] = s[i]
      /\ r[Len(s) + 1] = e
  BY AppendProperties, LenProperties
<1> HIDE DEF r
<1>2. /\ End(s) \in Nat /\ e.seq \in Nat \ {0}
      /\ \A i \in 1..Len(s) : s[i].seq \in Nat \ {0} /\ s[i].seq <= End(s)
  <2>1. End(s) \in 0..n /\ \A i \in 1..Len(s) : s[i].seq \in Nat \ {0} /\ s[i].seq <= End(s)
    BY ClimbsEnd
  <2>2. e.seq \in Nat \ {0}
    BY DEF Event
  <2> QED
    BY <2>1, <2>2
<1>3. ASSUME NEW i \in 1..Len(r)
      PROVE  r[i].seq \in 1..m /\ \A j \in 1..(i - 1) : r[j].seq < r[i].seq
  <2>1. CASE i \in 1..Len(s)
    <3>1. \A j \in 1..(i - 1) : j \in 1..Len(s)
      BY <1>1, <2>1
    <3>2. s[i].seq \in 1..n /\ \A j \in 1..(i - 1) : s[j].seq < s[i].seq
      BY <2>1 DEF Climbs
    <3> QED
      BY <1>1, <2>1, <3>1, <3>2
  <2>2. CASE i = Len(s) + 1
    <3>1. r[i] = e /\ \A j \in 1..(i - 1) : j \in 1..Len(s)
      BY <1>1, <2>2
    <3>2. \A j \in 1..(i - 1) : r[j].seq < e.seq
      BY <1>1, <1>2, <3>1
    <3> QED
      BY <1>2, <3>1, <3>2
  <2> QED
    BY <1>1, <2>1, <2>2
<1>4. r # <<>> /\ End(r) = e.seq
  BY <1>1, EmptySeq DEF End
<1> QED
  BY <1>3, <1>4 DEF Climbs, r

(* The head leaves the queue, and the file ends where it did or where the   *)
(* head's frames do.                                                        *)
LEMMA OrderedRest ==
    ASSUME NEW q \in Seq(Ops), q # <<>>, NEW f \in Nat, NEW g \in Nat, NEW n \in Nat,
           Ordered(q, f, n), g = f \/ (Carries(q[1]) /\ g = End(q[1].frames))
    PROVE  /\ Ordered(Tail(q), g, n)
           /\ Ordered(<<Op("sync", <<>>, FALSE)>> \o Tail(q), g, n)
<1> DEFINE t == Tail(q)
           o == Op("sync", <<>>, FALSE)
           one == <<o>>
           r == one \o t
<1>1. /\ t \in Seq(Ops) /\ Len(t) = Len(q) - 1 /\ Len(q) \in Nat /\ Len(t) \in Nat
      /\ \A i \in 1..Len(t) : t[i] = q[i + 1]
  BY HeadTailProperties, LenProperties
<1>2. o \in Ops /\ ~Carries(o)
  BY DEF Op, Ops, Carries
<1> HIDE DEF t, o
<1>3. one \in Seq(Ops) /\ Len(one) = 1 /\ one[1] = o
  BY <1>2
<1> HIDE DEF one
<1>10. /\ one \o t \in Seq(Ops) /\ Len(one \o t) = Len(one) + Len(t)
      /\ \A i \in 1..(Len(one) + Len(t)) :
             (one \o t)[i] = IF i <= Len(one) THEN one[i] ELSE t[i - Len(one)]
  <2>1. t \in Seq(Ops) /\ one \in Seq(Ops)
    BY <1>1, <1>3
  <2> QED
    BY ONLY <2>1, ConcatProperties, Zenon
<1> HIDE DEF r
<1>4. /\ Len(r) = Len(one) + Len(t)
      /\ \A i \in 1..(Len(one) + Len(t)) :
             r[i] = IF i <= Len(one) THEN one[i] ELSE t[i - Len(one)]
  BY ONLY <1>10 DEF r
<1>5. /\ Len(r) = Len(q) /\ r[1] = o
      /\ \A i \in 1..Len(r) : i # 1 => r[i] = q[i]
  <2>1. Len(r) = Len(q) /\ r[1] = o
    BY <1>1, <1>3, <1>4
  <2>2. ASSUME NEW i \in 1..Len(r), i # 1 PROVE r[i] = q[i]
    <3>1. i \in 1..(Len(one) + Len(t)) /\ ~(i <= Len(one)) /\ i - Len(one) = i - 1
          /\ i - 1 \in 1..Len(t) /\ (i - 1) + 1 = i
      BY <1>1, <1>3, <1>4, <2>1, <2>2
    <3>2. r[i] = t[i - 1]
      BY <1>4, <3>1
    <3>3. t[i - 1] = q[(i - 1) + 1]
      BY <1>1, <3>1
    <3> QED
      BY <3>1, <3>2, <3>3
  <2> QED
    BY <2>1, <2>2
<1>6. ASSUME NEW i \in 1..Len(q), i # 1, Carries(q[i])
      PROVE  /\ q[i].frames # <<>> /\ Climbs(q[i].frames, n)
             /\ q[i].kind = "append" => Len(q[i].frames) = 1
             /\ g < End(q[i].frames)
             /\ \A j \in 1..(i - 1) : Carries(q[j]) => End(q[j].frames) < End(q[i].frames)
  <2>1. 1 \in 1..(i - 1)
    BY <1>1, <1>6
  <2> QED
    BY <1>6, <2>1 DEF Ordered
<1>7. Ordered(t, g, n)
  <2> SUFFICES ASSUME NEW i \in 1..Len(t), Carries(t[i])
               PROVE  /\ t[i].frames # <<>> /\ Climbs(t[i].frames, n)
                      /\ t[i].kind = "append" => Len(t[i].frames) = 1
                      /\ g < End(t[i].frames)
                      /\ \A j \in 1..(i - 1) : Carries(t[j]) => End(t[j].frames) < End(t[i].frames)
    BY DEF Ordered
  <2>1. i + 1 \in 1..Len(q) /\ i + 1 # 1 /\ t[i] = q[i + 1]
    BY <1>1
  <2>2. ASSUME NEW j \in 1..(i - 1), Carries(t[j]) PROVE End(t[j].frames) < End(t[i].frames)
    <3>1. j \in 1..Len(t) /\ j + 1 \in 1..((i + 1) - 1)
      BY <1>1
    <3>2. t[j] = q[j + 1]
      BY <1>1, <3>1
    <3> QED
      BY <1>6, <2>1, <2>2, <3>1, <3>2
  <2> QED
    BY <1>6, <2>1, <2>2
<1>8. Ordered(r, g, n)
  <2> SUFFICES ASSUME NEW i \in 1..Len(r), Carries(r[i])
               PROVE  /\ r[i].frames # <<>> /\ Climbs(r[i].frames, n)
                      /\ r[i].kind = "append" => Len(r[i].frames) = 1
                      /\ g < End(r[i].frames)
                      /\ \A j \in 1..(i - 1) : Carries(r[j]) => End(r[j].frames) < End(r[i].frames)
    BY DEF Ordered
  <2>1. i # 1 /\ i \in 1..Len(q) /\ r[i] = q[i]
    BY <1>2, <1>5
  <2>2. ASSUME NEW j \in 1..(i - 1), Carries(r[j]) PROVE End(r[j].frames) < End(r[i].frames)
    <3>1. j # 1 /\ j \in 1..Len(r)
      BY <1>2, <1>5, <2>2
    <3>2. r[j] = q[j]
      BY <1>5, <3>1
    <3> QED
      BY <1>6, <2>1, <2>2, <3>2
  <2> QED
    BY <1>6, <2>1, <2>2
<1> QED
  BY <1>7, <1>8 DEF t, r, one, o

LEMMA OrderedAppend ==
    ASSUME NEW q \in Seq(Ops), NEW o \in Ops, NEW f \in Nat, NEW n \in Nat, NEW m \in Nat,
           Ordered(q, f, n), n <= m,
           Carries(o) => /\ o.frames # <<>> /\ Climbs(o.frames, m)
                         /\ o.kind = "append" => Len(o.frames) = 1
                         /\ f < End(o.frames) /\ n < End(o.frames)
    PROVE  Ordered(Append(q, o), f, m)
<1> DEFINE r == Append(q, o)
<1>1. /\ Len(r) = Len(q) + 1 /\ Len(q) \in Nat /\ r[Len(q) + 1] = o
      /\ \A i \in 1..Len(q) : r[i] = q[i]
  BY AppendProperties, LenProperties
<1> HIDE DEF r
<1>2. ASSUME NEW i \in 1..Len(q), Carries(q[i])
      PROVE  Climbs(q[i].frames, m) /\ End(q[i].frames) <= n /\ End(q[i].frames) \in Nat
  <2>1. q[i].frames \in Seq(Event)
    <3>1. q[i] \in Ops
      BY ElementOfSeq
    <3> QED
      BY <3>1 DEF Ops
  <2>2. Climbs(q[i].frames, n)
    BY <1>2 DEF Ordered
  <2> QED
    BY <2>1, <2>2, ClimbsEnd
<1> SUFFICES ASSUME NEW i \in 1..Len(r), Carries(r[i])
             PROVE  /\ r[i].frames # <<>> /\ Climbs(r[i].frames, m)
                    /\ r[i].kind = "append" => Len(r[i].frames) = 1
                    /\ f < End(r[i].frames)
                    /\ \A j \in 1..(i - 1) : Carries(r[j]) => End(r[j].frames) < End(r[i].frames)
  BY DEF Ordered, r
<1>3. CASE i \in 1..Len(q)
  <2>1. r[i] = q[i] /\ \A j \in 1..(i - 1) : j \in 1..Len(q)
    BY <1>1, <1>3
  <2>2. \A j \in 1..(i - 1) : r[j] = q[j]
    BY <1>1, <2>1
  <2> QED
    BY <1>2, <1>3, <2>1, <2>2 DEF Ordered
<1>4. CASE i = Len(q) + 1
  <2>1. r[i] = o /\ \A j \in 1..(i - 1) : j \in 1..Len(q)
    BY <1>1, <1>4
  <2>2. ASSUME NEW j \in 1..(i - 1), Carries(r[j]) PROVE End(r[j].frames) < End(o.frames)
    <3>1. r[j] = q[j] /\ j \in 1..Len(q)
      BY <1>1, <2>1
    <3>2. End(q[j].frames) <= n /\ End(q[j].frames) \in Nat
      BY <1>2, <2>2, <3>1
    <3>3. o.frames \in Seq(Event)
      BY DEF Ops
    <3>4. End(o.frames) \in Nat /\ n < End(o.frames)
      BY <1>4, <2>1, <3>3, ClimbsEnd
    <3> QED
      BY <3>1, <3>2, <3>4
  <2> QED
    BY <1>4, <2>1, <2>2
<1> QED
  BY <1>1, <1>3, <1>4

LEMMA AscendsInit == ASSUME Init PROVE Ascends
<1>1. /\ Len(log) = 0 /\ Len(retained) = 0 /\ Len(file) = 0 /\ Len(queue) = 0
      /\ queue = <<>> /\ file = <<>> /\ shadow = {} /\ holder = Free
  BY EmptySeq DEF Init
<1>2. Free # Publisher /\ Free \notin Clients
  BY HoldersAssumption DEF Free, Publisher
<1>3. Piles
  BY <1>1 DEF Piles, Climbs, Ordered
<1>4. Reading
  BY <1>1, <1>2 DEF Reading
<1> QED
  BY <1>1, <1>3, <1>4, TypeInit DEF Ascends, Numbered

(* The numbers in use, and that what climbs to one climbs to a higher one.  *)
LEMMA AscendsTyped ==
    ASSUME Ascends
    PROVE  /\ TypeInv /\ Len(log) \in Nat /\ FannedOut \in Nat /\ FannedOut <= Len(log)
           /\ End(file) \in Nat /\ End(file) <= FannedOut
           /\ \A s \in Seq(Event), m \in Nat : Climbs(s, FannedOut) /\ FannedOut <= m => Climbs(s, m)
<1>1. TypeInv /\ Len(log) \in Nat /\ log \in Seq(Event) /\ file \in Seq(Event)
  BY Typed DEF Ascends
<1>2. FannedOut \in Nat /\ FannedOut <= Len(log)
  <2>1. holder = Publisher => Len(log) > 0
    BY <1>1, EmptySeq DEF TypeInv
  <2> QED
    BY <1>1, <2>1 DEF FannedOut
<1>3. End(file) \in Nat /\ End(file) <= FannedOut
  <2>1. Climbs(file, FannedOut)
    BY DEF Ascends, Piles
  <2> QED
    BY <1>1, <1>2, <2>1, ClimbsEnd
<1>4. ASSUME NEW s \in Seq(Event), NEW m \in Nat, Climbs(s, FannedOut), FannedOut <= m
      PROVE  Climbs(s, m)
  BY <1>2, <1>4, ClimbsEnd
<1> QED
  BY <1>1, <1>2, <1>3, <1>4

(* A reader that holds the mutex stays as it is when it takes no step.      *)
LEMMA ReadingKept ==
    ASSUME Ascends, UNCHANGED <<mode, holder, log, retained>>,
           mode = "down" => queue' = <<>>,
           \A c \in Clients : holder = c => sub'[c] = sub[c] /\ last'[c] = last[c]
    PROVE  Reading'
<1>1. ASSUME NEW c \in Clients, holder' = c
      PROVE  Spill /\ sub'[c].state = "detached" /\ ~InWindow(Cursor(c))'
  BY <1>1 DEF Ascends, Reading, InWindow, Cursor
<1> QED
  BY <1>1 DEF Ascends, Reading, End

(* Steps that leave the events where they are.                              *)
LEMMA AscendsKept ==
    ASSUME Ascends, TypeInv', UNCHANGED <<log, retained, queue, file, shadow>>,
           holder' = Publisher <=> holder = Publisher, Reading'
    PROVE  Ascends'
<1>1. FannedOut' = FannedOut
  BY DEF FannedOut
<1>2. Piles'
  BY <1>1 DEF Ascends, Piles, Climbs, Ordered, End
<1> QED
  BY <1>2 DEF Ascends, Numbered

LEMMA AscendsReader ==
    ASSUME Ascends, TypeInv', NEW c \in Clients, Subscriber(c) \/ Disconnect(c), ~SendBarrier(c)
    PROVE  Ascends'
<1>1. c # Free /\ c # Publisher /\ Free \notin Clients /\ Publisher \notin Clients /\ Free # Publisher
  BY HoldersAssumption DEF Free, Publisher
<1>2. /\ UNCHANGED <<mode, log, retained, queue, file, shadow>>
      /\ mode = "down" => queue = <<>>
  BY DEF Subscriber, SubscribeFromMemory, SubscribeExpired, SubscribeFromDisk, FinishRead,
     ConsumeReplay, ConsumeLive, SeeClosed, StartOver, Disconnect, window, writer, disk,
     Ascends, Reading
<1>3. sub \in [Clients -> Connections] /\ last \in [Clients -> Event \cup {NoEvent}]
  BY DEF Ascends, TypeInv, TypeOK
<1>4. CASE SubscribeFromDisk(c)
  <2>1. /\ holder' = c /\ holder = Free /\ mode # "down" /\ UNCHANGED <<sub, last>>
        /\ Spill /\ sub[c].state = "detached" /\ ~InWindow(Cursor(c))
    BY <1>4 DEF SubscribeFromDisk, CanSubscribe, Running
  <2>2. ~InWindow(Cursor(c))'
    BY <1>2, <2>1 DEF InWindow, Cursor
  <2>3. Reading'
    BY <1>1, <1>2, <2>1, <2>2 DEF Reading
  <2> QED
    BY <1>1, <1>2, <2>1, <2>3, AscendsKept
<1>5. CASE FinishRead(c)
  <2>1. holder' = Free /\ holder = c
    BY <1>5 DEF FinishRead
  <2>2. Reading'
    BY <1>1, <1>2, <2>1 DEF Reading
  <2> QED
    BY <1>1, <1>2, <2>1, <2>2, AscendsKept
<1>6. CASE ~SubscribeFromDisk(c) /\ ~FinishRead(c)
  <2>1. /\ UNCHANGED holder
        /\ sub' = [sub EXCEPT ![c] = sub'[c]] /\ last' = [last EXCEPT ![c] = last'[c]]
    BY <1>3, <1>6 DEF Subscriber, SubscribeFromMemory, SubscribeExpired, Attach,
       ConsumeReplay, ConsumeLive, SeeClosed, StartOver, Disconnect
  <2>2. holder = c => sub[c].state = "detached"
    BY DEF Ascends, Reading
  <2>3. holder # c
    BY <1>1, <1>6, <2>2 DEF Subscriber, SubscribeFromMemory, SubscribeExpired, CanSubscribe,
       ConsumeReplay, ConsumeLive, SeeClosed, StartOver, Disconnect, Attached, ChannelClosed
  <2>4. \A d \in Clients : holder = d => sub'[d] = sub[d] /\ last'[d] = last[d]
    BY <1>3, <2>1, <2>3
  <2>5. Reading'
    BY <1>2, <2>1, <2>4, ReadingKept
  <2> QED
    BY <1>2, <2>1, <2>5, AscendsKept
<1> QED
  BY <1>4, <1>5, <1>6

(* An op more in the queue.                                                 *)
LEMMA AscendsQueued ==
    ASSUME Ascends, TypeInv', NEW o \in Ops, queue' = Append(queue, o),
           UNCHANGED <<log, retained, file, shadow>>, FannedOut <= FannedOut',
           Carries(o) => /\ Spill /\ o.frames # <<>> /\ Climbs(o.frames, FannedOut')
                         /\ o.kind = "append" => Len(o.frames) = 1
                         /\ FannedOut < End(o.frames),
           Spill, Reading'
    PROVE  Ascends'
<1>1. /\ queue \in Seq(Ops) /\ file \in Seq(Event) /\ \A s \in shadow : s \in Seq(Event)
      /\ FannedOut \in Nat /\ End(file) \in Nat /\ End(file) <= FannedOut /\ Len(log) \in Nat
      /\ \A s \in Seq(Event), m \in Nat : Climbs(s, FannedOut) /\ FannedOut <= m => Climbs(s, m)
  BY AscendsTyped, Typed DEF Ascends
<1> DEFINE n == FannedOut
<1>2. PICK m : m = FannedOut'
  OBVIOUS
<1>3. m \in Nat /\ n <= m
  <2>1. FannedOut' \in Int
    BY <1>1 DEF FannedOut
  <2> QED
    BY <1>1, <1>2, <2>1
<1>4. Ordered(queue, End(file), n)
  BY DEF Ascends, Piles
<1> HIDE DEF n
<1>5. Carries(o) => o.frames \in Seq(Event) /\ Climbs(o.frames, m) /\ n < End(o.frames)
  BY <1>2 DEF n, Ops
<1>6. Carries(o) => End(file) < End(o.frames)
  <2> SUFFICES ASSUME Carries(o) PROVE End(file) < End(o.frames)
    OBVIOUS
  <2>1. End(o.frames) \in Nat
    BY <1>3, <1>5, ClimbsEnd
  <2> QED
    BY <1>1, <1>5, <2>1 DEF n
<1>7. Ordered(Append(queue, o), End(file), m)
  BY <1>1, <1>3, <1>4, <1>5, <1>6, OrderedAppend DEF n
<1>8. Climbs(file, m) /\ \A s \in shadow : Climbs(s, m) /\ End(s) <= End(file)
  <2>1. Climbs(file, n) /\ \A s \in shadow : Climbs(s, n) /\ End(s) <= End(file)
    BY DEF Ascends, Piles, n
  <2> QED
    BY <1>1, <1>3, <2>1 DEF n
<1>9. Ordered(queue', End(file'), m)
  BY <1>7 DEF End
<1>10. Climbs(file', m) /\ \A s \in shadow' : Climbs(s, m) /\ End(s) <= End(file')
  BY <1>8 DEF End
<1>11. Climbs(retained', Len(log'))
  BY DEF Ascends, Piles
<1>12. Piles'
  BY <1>2, <1>9, <1>10, <1>11 DEF Piles
<1> QED
  BY <1>12 DEF Ascends, Numbered

LEMMA AscendsPublish ==
    ASSUME Ascends, TypeInv', NEW k \in Kinds, Publish(k)
    PROVE  Ascends'
<1> DEFINE e == [seq |-> Len(log) + 1, life |-> life, size |-> k.size, sync |-> k.sync]
           grown == Append(retained, e)
<1>1. /\ log' = Append(log, e) /\ holder = Free /\ holder' = Publisher /\ mode' = mode
      /\ mode # "down" /\ UNCHANGED <<queue, file, shadow>>
  BY DEF Publish, Running, writer, disk
<1>2. PICK n \in Cuts(grown) : IsTrim(grown, n) /\ retained' = From(grown, n)
  BY DEF Publish
<1>3. /\ log \in Seq(Event) /\ retained \in Seq(Event) /\ Len(log) \in Nat /\ log' \in Seq(Event)
      /\ Publisher \notin Clients /\ Free # Publisher
  BY Typed, HoldersAssumption DEF Ascends, TypeInv, TypeOK, Free, Publisher
<1>4. e \in Event /\ e.seq = Len(log) + 1
  <2>1. log'[Len(log) + 1] = e /\ Len(log) + 1 \in 1..Len(log')
    BY <1>1, <1>3, AppendProperties
  <2>2. log'[Len(log) + 1] \in Event
    BY <1>3, <2>1, ElementOfSeq
  <2> QED
    BY <2>1, <2>2
<1> HIDE DEF e
<1>5. /\ Len(log') = Len(log) + 1 /\ log'[Len(log) + 1] = e
      /\ \A i \in 1..Len(log) : log'[i] = log[i]
  BY <1>1, <1>3, <1>4, AppendProperties
<1>6. Numbered'
  BY <1>3, <1>4, <1>5 DEF Ascends, Numbered
<1>7. grown \in Seq(Event) /\ Climbs(grown, Len(log) + 1) /\ grown # <<>> /\ End(grown) = Len(log) + 1
  <2>1. Climbs(retained, Len(log))
    BY DEF Ascends, Piles
  <2>2. End(retained) \in 0..Len(log)
    BY <1>3, <2>1, ClimbsEnd
  <2>3. End(retained) < e.seq /\ e.seq <= Len(log) + 1
    BY <1>3, <1>4, <2>2
  <2>4. Len(log) + 1 \in Nat /\ Len(log) <= Len(log) + 1
    BY <1>3
  <2> QED
    BY <1>3, <1>4, <2>1, <2>3, <2>4, ClimbsAppend, AppendProperties
<1> HIDE DEF grown
<1>8. retained' # <<>> /\ Climbs(retained', Len(log')) /\ End(retained') = Len(log')
  <2>1. Len(log) + 1 \in Nat
    BY <1>3
  <2> QED
    BY <1>2, <1>5, <1>7, <2>1, TrimKeeps, ClimbsFrom
<1>9. FannedOut' = FannedOut
  BY <1>1, <1>3, <1>5 DEF FannedOut
<1>10. Piles'
  BY <1>1, <1>8, <1>9 DEF Ascends, Piles, Climbs, Ordered, End
<1>11. Reading'
  BY <1>1, <1>3, <1>8 DEF Reading, End
<1> QED
  BY <1>6, <1>10, <1>11 DEF Ascends

LEMMA AscendsFanOut ==
    ASSUME Ascends, TypeInv', FanOut
    PROVE  Ascends'
<1> DEFINE e == log[Len(log)]
           one == <<e>>
<1>1. /\ log \in Seq(Event) /\ Len(log) \in Nat \ {0} /\ retained \in Seq(Event)
      /\ queue \in Seq(Ops) /\ file \in Seq(Event) /\ \A s \in shadow : s \in Seq(Event)
      /\ holder = Publisher /\ mode # "down"
  <2>1. log # <<>> /\ Publisher # Free
    BY DEF FanOut, Ascends, TypeInv, Free, Publisher
  <2>2. mode # "down"
    BY <2>1 DEF FanOut, Ascends, TypeInv
  <2> QED
    BY <2>1, <2>2, Typed, EmptySeq DEF FanOut, Ascends
<1>2. /\ UNCHANGED <<mode, log, retained, file, shadow, last>>
      /\ holder' = Free /\ Free # Publisher /\ Free \notin Clients
  BY HoldersAssumption DEF FanOut, window, disk, Free, Publisher
<1>3. FannedOut = Len(log) - 1 /\ FannedOut' = Len(log)
  BY <1>1, <1>2 DEF FannedOut
<1>4. Reading'
  BY <1>1, <1>2 DEF Reading
<1>5. e \in Event /\ e.seq = Len(log)
  <2>1. Len(log) \in 1..Len(log)
    BY <1>1
  <2> QED
    BY <1>1, <2>1, ElementOfSeq DEF Ascends, Numbered
<1>6. CASE ~SpillOpen
  <2>1. queue' = queue
    BY <1>6 DEF FanOut
  <2>2. /\ Climbs(file, FannedOut) /\ \A s \in shadow : Climbs(s, FannedOut) /\ End(s) <= End(file)
        /\ Ordered(queue, End(file), FannedOut) /\ Climbs(retained, Len(log))
        /\ ~Spill => queue = <<>> /\ file = <<>> /\ shadow = {}
    BY DEF Ascends, Piles
  <2>3. FannedOut \in Nat /\ End(file) \in Nat /\ FannedOut <= Len(log)
        /\ \A s \in Seq(Event), m \in Nat : Climbs(s, FannedOut) /\ FannedOut <= m => Climbs(s, m)
    BY AscendsTyped
  <2>4. Climbs(file, Len(log)) /\ \A s \in shadow : Climbs(s, Len(log)) /\ End(s) <= End(file)
    BY <1>1, <2>2, <2>3
  <2>5. Ordered(queue, End(file), Len(log))
    <3>1. ASSUME NEW i \in 1..Len(queue), Carries(queue[i])
          PROVE  Climbs(queue[i].frames, Len(log))
      <4>1. queue[i] \in Ops
        BY <1>1, ElementOfSeq
      <4>2. queue[i].frames \in Seq(Event) /\ Climbs(queue[i].frames, FannedOut)
        BY <2>2, <3>1, <4>1 DEF Ordered, Ops
      <4> QED
        BY <1>1, <2>3, <4>2
    <3> QED
      BY <2>2, <3>1 DEF Ordered
  <2>6. Piles'
    BY <1>2, <1>3, <2>1, <2>2, <2>4, <2>5 DEF Piles, Climbs, Ordered, End
  <2> QED
    BY <1>2, <1>4, <2>6 DEF Ascends, Numbered
<1>7. CASE SpillOpen
  <2>1. enqueueSpill(e) /\ Spill
    BY <1>7 DEF FanOut, SpillOpen
  <2> HIDE DEF e
  <2>2. one \in Seq(Event) /\ Len(one) = 1 /\ one[1] = e /\ one # <<>>
    BY <1>5
  <2>3. \/ queue' = Append(queue, Op("append", one, e.sync))
        \/ queue' = Append(queue, Op("rewrite", retained, e.sync))
    BY <2>1 DEF enqueueSpill, RewriteFrames
  <2> HIDE DEF one
  <2>4. Climbs(one, Len(log)) /\ End(one) = Len(log)
    <3>1. one[Len(one)].seq = Len(log) /\ Len(log) \in 1..Len(log)
      BY <1>1, <1>5, <2>2
    <3>2. \A i \in 1..Len(one) : one[i].seq = Len(log) /\ ~ \E j \in 1..(i - 1) : TRUE
      <4>1. \A i \in 1..Len(one) : i = 1
        BY <2>2
      <4> QED
        BY <1>5, <2>2, <4>1
    <3> QED
      BY <2>2, <3>1, <3>2 DEF Climbs, End
  <2>5. retained # <<>> /\ Climbs(retained, Len(log)) /\ End(retained) = Len(log)
    BY <1>1 DEF Ascends, Piles, Reading
  <2>6. PICK o \in Ops :
           /\ queue' = Append(queue, o) /\ o.frames \in {one, retained}
           /\ o.kind = "append" => o.frames = one
    <3>1. Op("append", one, e.sync) \in Ops /\ Op("rewrite", retained, e.sync) \in Ops
      <4>1. e.sync \in BOOLEAN
        BY <1>5 DEF Event
      <4> QED
        BY <1>1, <2>2, <4>1 DEF Op, Ops
    <3>2. /\ Op("append", one, e.sync).frames = one
          /\ Op("rewrite", retained, e.sync).frames = retained
          /\ Op("rewrite", retained, e.sync).kind # "append"
      BY DEF Op
    <3> QED
      BY <2>3, <3>1, <3>2
  <2>7. /\ o.frames # <<>> /\ Climbs(o.frames, FannedOut')
        /\ o.kind = "append" => Len(o.frames) = 1
        /\ FannedOut < End(o.frames)
    BY <1>1, <1>3, <2>2, <2>4, <2>5, <2>6
  <2>8. FannedOut <= FannedOut'
    BY <1>1, <1>3
  <2> QED
    BY <1>2, <1>4, <2>1, <2>6, <2>7, <2>8, AscendsQueued
<1> QED
  BY <1>6, <1>7

LEMMA AscendsBarrier ==
    ASSUME Ascends, TypeInv', NEW c \in Clients, SendBarrier(c)
    PROVE  Ascends'
<1> DEFINE o == Op("barrier", <<>>, FALSE)
<1>1. o \in Ops /\ ~Carries(o)
  BY DEF Op, Ops, Carries
<1>2. /\ queue' = Append(queue, o) /\ holder = c /\ holder # Free /\ holder # Publisher
      /\ UNCHANGED <<mode, holder, log, retained, file, shadow, sub, last>>
  BY HoldersAssumption DEF SendBarrier, window, disk
<1>3. mode # "down"
  BY <1>2 DEF Ascends, TypeInv
<1> HIDE DEF o
<1>4. Reading' /\ Spill
  BY <1>2, <1>3, ReadingKept DEF Ascends, Reading
<1>5. FannedOut' = FannedOut /\ FannedOut \in Nat /\ FannedOut <= FannedOut'
  <2>1. FannedOut' = FannedOut
    BY <1>2 DEF FannedOut
  <2> QED
    BY <2>1, AscendsTyped
<1> QED
  BY <1>1, <1>2, <1>4, <1>5, AscendsQueued

(* The writer takes the head of its queue.                                  *)
LEMMA AscendsTaken ==
    ASSUME Ascends, TypeInv', queue # <<>>, queue' = Tail(queue) \/ queue' = Rest,
           UNCHANGED <<mode, holder, log, retained, sub, last>>,
           Climbs(file', FannedOut),
           \A s \in shadow' : Climbs(s, FannedOut) /\ End(s) <= End(file'),
           End(file') = End(file) \/ (Carries(queue[1]) /\ End(file') = End(queue[1].frames))
    PROVE  Ascends'
<1>1. /\ queue \in Seq(Ops) /\ FannedOut \in Nat /\ End(file) \in Nat
      /\ file' \in Seq(Event) /\ mode # "down" /\ Spill
  BY AscendsTyped, Typed DEF Ascends, Reading, Piles, TypeInv, TypeOK
<1>2. PICK n \in Nat : n = FannedOut
  BY <1>1
<1>3. PICK g : g = End(file')
  OBVIOUS
<1>4. g \in Nat
  BY <1>1, <1>2, <1>3, ClimbsEnd
<1>5. Ordered(queue, End(file), n)
  BY <1>2 DEF Ascends, Piles
<1>6. /\ Ordered(Tail(queue), g, n)
      /\ Ordered(<<Op("sync", <<>>, FALSE)>> \o Tail(queue), g, n)
  BY <1>1, <1>3, <1>4, <1>5, OrderedRest
<1>7. Ordered(queue', g, n)
  BY <1>6 DEF Rest
<1>8. FannedOut' = n
  BY <1>2 DEF FannedOut
<1>9. Climbs(retained', Len(log'))
  BY DEF Ascends, Piles
<1>10. Ordered(queue', End(file'), n)
  BY <1>3, <1>7
<1>11. Piles'
  BY <1>1, <1>2, <1>8, <1>9, <1>10 DEF Piles
<1>12. Reading'
  BY <1>1, ReadingKept
<1> QED
  BY <1>11, <1>12 DEF Ascends, Numbered

LEMMA AscendsWriter ==
    ASSUME Ascends, TypeInv', Writer
    PROVE  Ascends'
<1>1. /\ queue # <<>> /\ UNCHANGED <<mode, holder, log, retained, sub, last>>
      /\ queue' = Tail(queue) \/ queue' = Rest
  BY DEF Writer, WriteFrame, FailFrame, Rewrite, FailRewrite, Sync, FailSync, ReachBarrier,
         WriterHas, untouched, window
<1>2. /\ queue \in Seq(Ops) /\ FannedOut \in Nat /\ End(file) \in Nat /\ file \in Seq(Event)
      /\ synced \in 0..Len(file) /\ \A s \in shadow : s \in Seq(Event)
  BY AscendsTyped, Typed DEF Ascends, TypeInv, TypeOK
<1>3. /\ 1 \in 1..Len(queue) /\ queue[1] \in Ops /\ queue[1].frames \in Seq(Event)
      /\ Head(queue) = queue[1]
  <2>1. 1 \in 1..Len(queue)
    BY <1>1, <1>2, EmptySeq, LenProperties
  <2>2. queue[1] \in Ops
    BY <1>2, <2>1, ElementOfSeq
  <2> QED
    BY <2>1, <2>2 DEF Ops
<1>4. /\ Climbs(file, FannedOut) /\ Ordered(queue, End(file), FannedOut)
      /\ \A s \in shadow : Climbs(s, FannedOut) /\ End(s) <= End(file)
  BY DEF Ascends, Piles
<1>5. Carries(queue[1]) =>
         /\ queue[1].frames # <<>> /\ Climbs(queue[1].frames, FannedOut)
         /\ queue[1].kind = "append" => Len(queue[1].frames) = 1
         /\ End(file) < End(queue[1].frames) /\ End(queue[1].frames) \in Nat
  <2> SUFFICES ASSUME Carries(queue[1])
               PROVE  /\ queue[1].frames # <<>> /\ Climbs(queue[1].frames, FannedOut)
                      /\ queue[1].kind = "append" => Len(queue[1].frames) = 1
                      /\ End(file) < End(queue[1].frames) /\ End(queue[1].frames) \in Nat
    OBVIOUS
  <2>1. Climbs(queue[1].frames, FannedOut)
    BY <1>3, <1>4 DEF Ordered
  <2>2. End(queue[1].frames) \in Nat
    BY <1>2, <1>3, <2>1, ClimbsEnd
  <2> QED
    BY <1>3, <1>4, <2>1, <2>2 DEF Ordered
<1>6. CASE WriteFrame
  <2> DEFINE t == queue[1].frames
  <2>1. /\ file' = file \o t /\ shadow' = shadow /\ Carries(queue[1]) /\ queue[1].kind = "append"
    BY <1>3, <1>6 DEF WriteFrame, WriterHas, Carries
  <2>2. /\ t \in Seq(Event) /\ t # <<>> /\ Climbs(t, FannedOut) /\ Len(t) = 1 /\ End(file) < End(t)
        /\ End(t) \in Nat
    BY <1>3, <1>5, <2>1
  <2> HIDE DEF t
  <2>3. t[1] \in Event /\ End(t) = t[1].seq /\ t[1].seq <= FannedOut
    <3>1. 1 \in 1..Len(t)
      BY <2>2
    <3>2. t[1] \in Event
      BY <2>2, <3>1, ElementOfSeq
    <3>3. t[1].seq \in 1..FannedOut
      BY <2>2, <3>1 DEF Climbs
    <3> QED
      BY <1>2, <2>2, <3>2, <3>3 DEF End
  <2>4. file \o t = Append(file, t[1])
    <3>1. PICK one : one = <<t[1]>>
      OBVIOUS
    <3>2. one \in Seq(Event) /\ Len(one) = 1 /\ one[1] = t[1]
      BY <2>3, <3>1
    <3>3. t = one
      BY <2>2, <3>2, SeqEqual
    <3>4. Append(file, t[1]) = file \o <<t[1]>>
      BY <1>2, <2>3, AppendIsConcat
    <3> QED
      BY <3>1, <3>3, <3>4
  <2>5. Climbs(file', FannedOut) /\ End(file') = End(t)
    BY <1>2, <1>4, <2>1, <2>2, <2>3, <2>4, ClimbsAppend
  <2>6. \A s \in shadow : Climbs(s, FannedOut) /\ End(s) \in Nat /\ End(s) <= End(file)
    BY <1>2, <1>4, ClimbsEnd
  <2>7. \A s \in shadow' : Climbs(s, FannedOut) /\ End(s) <= End(file')
    BY <1>2, <2>1, <2>2, <2>5, <2>6
  <2> QED
    BY <1>1, <2>1, <2>5, <2>7, AscendsTaken DEF t
<1>7. CASE Rewrite
  <2>1. /\ file' = queue[1].frames /\ Carries(queue[1])
        /\ shadow' = IF shadow = {} THEN {SubSeq(file, 1, synced)} ELSE shadow
    BY <1>3, <1>7 DEF Rewrite, WriterHas, Carries
  <2>2. Climbs(file', FannedOut) /\ End(file) < End(file') /\ End(file') \in Nat
    BY <1>5, <2>1
  <2>3. /\ Climbs(SubSeq(file, 1, synced), FannedOut) /\ End(SubSeq(file, 1, synced)) <= End(file)
        /\ SubSeq(file, 1, synced) \in Seq(Event)
    BY <1>2, <1>4, ClimbsPrefix
  <2>4. \A s \in shadow' : s \in Seq(Event) /\ Climbs(s, FannedOut) /\ End(s) <= End(file)
    BY <1>2, <1>4, <2>1, <2>3
  <2>5. \A s \in shadow' : End(s) \in Nat
    BY <1>2, <2>4, ClimbsEnd
  <2>6. \A s \in shadow' : Climbs(s, FannedOut) /\ End(s) <= End(file')
    BY <1>2, <2>2, <2>4, <2>5
  <2>7. End(file') = End(queue[1].frames)
    BY <2>1
  <2> QED
    BY <1>1, <2>1, <2>2, <2>6, <2>7, AscendsTaken
<1>8. CASE FailFrame \/ FailRewrite \/ Sync \/ FailSync \/ ReachBarrier
  <2>1. UNCHANGED <<file, shadow>>
    BY <1>8 DEF FailFrame, FailRewrite, Sync, FailSync, ReachBarrier, disk
  <2> QED
    BY <1>1, <1>4, <2>1, AscendsTaken DEF End
<1> QED
  BY <1>6, <1>7, <1>8 DEF Writer

LEMMA AscendsClose ==
    ASSUME Ascends, TypeInv', Close \/ WriterExit \/ FailExit \/ Refuse \/ UNCHANGED vars
    PROVE  Ascends'
<1>1. /\ UNCHANGED <<log, retained, queue, file, shadow>>
      /\ mode' = "down" => mode = "down"
  BY DEF Close, WriterExit, FailExit, Refuse, vars, window, writer, disk, Running
<1>2. CASE Refuse \/ UNCHANGED vars
  <2>1. UNCHANGED <<holder, sub, last>>
    BY <1>2 DEF Refuse, vars
  <2>2. \A c \in Clients : holder' = c => Spill /\ sub'[c].state = "detached" /\ ~InWindow(Cursor(c))'
    BY <1>1, <2>1 DEF Ascends, Reading, InWindow, Cursor
  <2>3. Reading'
    BY <1>1, <2>1, <2>2 DEF Ascends, Reading, End
  <2> QED
    BY <1>1, <2>1, <2>3, AscendsKept
<1>3. CASE Close \/ WriterExit \/ FailExit
  <2>1. holder \in {Free, Closer} /\ holder' \in {Free, Closer}
    BY <1>3 DEF Close, WriterExit, FailExit
  <2>2. {Free, Closer} \cap Clients = {} /\ Publisher \notin {Free, Closer}
    BY HoldersAssumption DEF Free, Closer, Publisher
  <2>3. Reading'
    BY <1>1, <2>1, <2>2 DEF Ascends, Reading
  <2> QED
    BY <1>1, <2>1, <2>2, <2>3, AscendsKept
<1> QED
  BY <1>2, <1>3

(* The process ends; a power cut leaves a part of the file, or an older one.*)
LEMMA AscendsGone ==
    ASSUME Ascends, TypeInv', Crash \/ PowerCut
    PROVE  Ascends'
<1>1. /\ mode' = "down" /\ holder' = Free /\ queue' = <<>> /\ retained' = <<>> /\ log' = log
      /\ Free # Publisher /\ Free \notin Clients
  BY HoldersAssumption DEF Crash, PowerCut, Gone, Free, Publisher
<1>2. /\ Len(log) \in Nat /\ FannedOut \in Nat /\ FannedOut <= Len(log) /\ FannedOut' = Len(log)
      /\ file \in Seq(Event) /\ synced \in 0..Len(file) /\ \A s \in shadow : s \in Seq(Event)
      /\ \A s \in Seq(Event), m \in Nat : Climbs(s, FannedOut) /\ FannedOut <= m => Climbs(s, m)
  <2>1. FannedOut' = Len(log)
    BY <1>1 DEF FannedOut
  <2> QED
    BY <2>1, AscendsTyped, Typed DEF Ascends, TypeInv, TypeOK
<1>3. /\ Climbs(file, FannedOut)
      /\ \A s \in shadow : Climbs(s, FannedOut) /\ End(s) <= End(file)
      /\ ~Spill => file = <<>> /\ shadow = {}
  BY DEF Ascends, Piles
<1>4. Len(retained') = 0 /\ Len(queue') = 0
  BY <1>1, EmptySeq
<1>5. /\ Climbs(file', FannedOut)
      /\ \A s \in shadow' : Climbs(s, FannedOut) /\ s \in Seq(Event) /\ End(s) <= End(file')
      /\ ~Spill => file' = <<>> /\ shadow' = {}
  <2>1. CASE Crash
    BY <1>2, <1>3, <2>1 DEF Crash, disk, End
  <2>2. CASE PowerCut
    <3>1. shadow' = {}
      BY <2>2 DEF PowerCut
    <3>2. \/ \E n \in synced..Len(file) : file' = SubSeq(file, 1, n)
          \/ file' \in shadow
      BY <2>2 DEF PowerCut
    <3>3. CASE \E n \in synced..Len(file) : file' = SubSeq(file, 1, n)
      <4>1. PICK n \in synced..Len(file) : file' = SubSeq(file, 1, n)
        BY <3>3
      <4>2. n \in 0..Len(file)
        BY <1>2, LenProperties
      <4>3. Climbs(SubSeq(file, 1, n), FannedOut)
        BY <1>2, <1>3, <4>2, ClimbsPrefix
      <4>4. ~Spill => file' = <<>>
        <5>1. ~Spill => n = 0
          BY <1>3, <4>2, EmptySeq
        <5> QED
          BY <4>1, <5>1, SubSeqEmpty
      <4> QED
        BY <3>1, <4>1, <4>3, <4>4
    <3>4. CASE file' \in shadow
      BY <1>3, <3>1, <3>4
    <3> QED
      BY <3>2, <3>3, <3>4
  <2> QED
    BY <2>1, <2>2
<1>6. Climbs(file', Len(log)) /\ \A s \in shadow' : Climbs(s, Len(log)) /\ End(s) <= End(file')
  <2>1. file' \in Seq(Event)
    BY DEF TypeInv, TypeOK
  <2> QED
    BY <1>2, <1>5, <2>1
<1>7. Ordered(queue', End(file'), Len(log)) /\ Climbs(retained', Len(log))
  BY <1>4 DEF Ordered, Climbs
<1>8. Piles'
  BY <1>1, <1>2, <1>5, <1>6, <1>7 DEF Piles
<1>9. Reading'
  BY <1>1 DEF Reading
<1> QED
  BY <1>1, <1>8, <1>9 DEF Ascends, Numbered

(* New takes up the numbers where the file ends.                            *)
LEMMA AscendsReopen ==
    ASSUME Ascends, TypeInv', Reopen
    PROVE  Ascends'
<1>1. /\ mode = "down" /\ mode' = "open" /\ UNCHANGED <<holder, queue, file, shadow, sub, last>>
      /\ log' = First(log, Recovered) /\ holder = Free /\ queue = <<>>
      /\ Free # Publisher /\ Free \notin Clients
  BY HoldersAssumption DEF Reopen, disk, Ascends, TypeInv, Reading, Free, Publisher
<1>2. PICK n \in Cuts(file) : retained' = From(file, n)
  BY DEF Reopen
<1>3. /\ log \in Seq(Event) /\ file \in Seq(Event) /\ \A s \in shadow : s \in Seq(Event)
      /\ Len(log) \in Nat /\ FannedOut = Len(log)
  BY <1>1, Typed DEF Ascends, FannedOut
<1>4. /\ Climbs(file, Len(log)) /\ \A s \in shadow : Climbs(s, Len(log)) /\ End(s) <= End(file)
      /\ ~Spill => file = <<>> /\ shadow = {}
  BY <1>3 DEF Ascends, Piles
<1> DEFINE n0 == End(file)
<1>5. n0 \in 0..Len(log) /\ Climbs(file, n0)
  BY <1>3, <1>4, ClimbsEnd
<1>6. Recovered = n0
  BY DEF Recovered, End
<1> HIDE DEF n0
<1>7. /\ Len(log') = n0 /\ \A i \in 1..n0 : log'[i] = log[i]
  <2>1. n0 \in Nat /\ n0 <= Len(log) /\ log' = First(log, n0)
    BY <1>1, <1>5, <1>6, <1>3
  <2> QED
    BY <1>3, <2>1, FirstProperties
<1>8. Numbered'
  BY <1>3, <1>5, <1>7 DEF Ascends, Numbered
<1>9. \A s \in shadow : Climbs(s, n0)
  <2> SUFFICES ASSUME NEW s \in shadow PROVE Climbs(s, n0)
    OBVIOUS
  <2>1. s \in Seq(Event) /\ Climbs(s, Len(log)) /\ End(s) <= n0 /\ n0 \in Nat
    BY <1>3, <1>4, <1>5 DEF n0
  <2>2. Climbs(s, End(s)) /\ End(s) \in Nat
    BY <1>3, <2>1, ClimbsEnd
  <2> QED
    BY <2>1, <2>2, ClimbsEnd
<1>10. Climbs(retained', n0)
  <2>1. n0 \in Nat
    BY <1>3, <1>5
  <2> QED
    BY <1>2, <1>3, <1>5, <2>1, ClimbsFrom
<1>11. FannedOut' = n0
  BY <1>1, <1>7 DEF FannedOut
<1>12. Len(queue') = 0
  BY <1>1, EmptySeq
<1>13. Piles'
  <2>1. Ordered(queue', End(file'), n0)
    BY <1>12 DEF Ordered
  <2>2. Climbs(file', n0) /\ \A s \in shadow' : Climbs(s, n0) /\ End(s) <= End(file')
    BY <1>1, <1>4, <1>5, <1>9 DEF End
  <2> QED
    BY <1>1, <1>4, <1>7, <1>10, <1>11, <2>1, <2>2 DEF Piles
<1>14. Reading'
  BY <1>1 DEF Reading
<1> QED
  BY <1>8, <1>13, <1>14 DEF Ascends

LEMMA AscendsNext == ASSUME Ascends, [Next]_vars PROVE Ascends'
<1>1. TypeInv'
  BY TypeNext DEF Ascends
<1>2. ASSUME NEW k \in Kinds, Publish(k) PROVE Ascends'
  BY <1>1, <1>2, AscendsPublish
<1>3. CASE FanOut
  BY <1>1, <1>3, AscendsFanOut
<1>4. ASSUME NEW c \in Clients, Subscriber(c) \/ Disconnect(c) PROVE Ascends'
  BY <1>1, <1>4, AscendsBarrier, AscendsReader
<1>5. CASE Writer
  BY <1>1, <1>5, AscendsWriter
<1>6. CASE Close \/ WriterExit \/ FailExit \/ Refuse \/ UNCHANGED vars
  BY <1>1, <1>6, AscendsClose
<1>7. CASE Crash \/ PowerCut
  BY <1>1, <1>7, AscendsGone
<1>8. CASE Reopen
  BY <1>1, <1>8, AscendsReopen
<1> QED
  BY <1>2, <1>3, <1>4, <1>5, <1>6, <1>7, <1>8 DEF Next, Idle

(* What climbs and starts after a number does not hold it.                  *)
LEMMA ClimbsPast ==
    ASSUME NEW s \in Seq(Event), NEW n \in Nat, Climbs(s, n), NEW k \in 1..Len(s),
           NEW x \in Nat, x < s[k].seq, \A i \in 1..(k - 1) : s[i].seq < x
    PROVE  \A i \in 1..Len(s) : s[i].seq # x
<1>1. Len(s) \in Nat /\ \A i \in 1..Len(s) : s[i].seq \in Nat \ {0}
  BY ClimbsEnd
<1> TAKE i \in 1..Len(s)
<1>2. CASE i < k
  <2>1. i \in 1..(k - 1)
    BY <1>1, <1>2
  <2> QED
    BY <1>1, <2>1
<1>3. CASE i = k
  BY <1>1, <1>3
<1>4. CASE k < i
  <2>1. k \in 1..(i - 1)
    BY <1>1, <1>4
  <2>2. s[k].seq < s[i].seq
    BY <2>1 DEF Climbs
  <2> QED
    BY <1>1, <2>2
<1> QED
  BY <1>1, <1>2, <1>3, <1>4

(* A cursor older than the window: the event after it is not there.         *)
LEMMA WindowPast ==
    ASSUME Ascends, NEW c \in Clients, ~InWindow(Cursor(c))
    PROVE  \A i \in 1..Len(retained) : retained[i].seq # Cursor(c) + 1
<1>1. retained \in Seq(Event) /\ Len(retained) \in Nat /\ Cursor(c) \in Nat /\ Len(log) \in Nat
  BY Typed, TypedReader, LenProperties DEF Ascends
<1>2. Climbs(retained, Len(log))
  BY DEF Ascends, Piles
<1>3. CASE retained = <<>>
  BY <1>3, EmptySeq
<1>4. CASE retained # <<>>
  <2>1. 1 \in 1..Len(retained)
    BY <1>1, <1>4, EmptySeq
  <2>2. retained[1].seq \in Nat
    BY <1>1, <1>2, <2>1, ClimbsEnd
  <2>3. Cursor(c) + 1 \in Nat /\ Cursor(c) + 1 < retained[1].seq
    BY <1>1, <1>4, <2>2 DEF InWindow
  <2>4. \A i \in 1..(1 - 1) : retained[i].seq < Cursor(c) + 1
    OBVIOUS
  <2> QED
    BY <1>1, <1>2, <2>1, <2>3, <2>4, ClimbsPast
<1> QED
  BY <1>3, <1>4

LEMMA FilePast ==
    ASSUME Ascends, NEW c \in Clients, NEW k \in Cuts(file),
           IsAfter(file, Cursor(c), k), Gap(Cursor(c), k)
    PROVE  \A i \in 1..Len(file) : file[i].seq # Cursor(c) + 1
<1> DEFINE x == Cursor(c) + 1
<1>1. file \in Seq(Event) /\ Len(file) \in Nat /\ Cursor(c) \in Nat /\ FannedOut \in Nat
  BY Typed, TypedReader, LenProperties, AscendsTyped DEF Ascends
<1>2. Climbs(file, FannedOut)
  BY DEF Ascends, Piles
<1>3. k \in 1..Len(file) /\ file[k].seq > x
  BY <1>1 DEF Cuts, Gap
<1>4. \A i \in 1..Len(file) : file[i].seq \in Nat
  BY <1>1, <1>2, ClimbsEnd
<1>5. \A i \in 1..(k - 1) : file[i].seq <= Cursor(c) /\ file[i].seq \in Nat
  BY <1>1, <1>3, <1>4 DEF IsAfter
<1>6. \A i \in 1..(k - 1) : file[i].seq < x
  BY <1>1, <1>5
<1>7. x \in Nat /\ x < file[k].seq
  BY <1>1, <1>3, <1>4
<1> HIDE DEF x
<1>8. \A i \in 1..Len(file) : file[i].seq # x
  BY <1>1, <1>2, <1>3, <1>6, <1>7, ClimbsPast
<1> QED
  BY <1>8 DEF x

(* Only a reader whose event is gone is told so.                            *)
LEMMA ExpiryHonest ==
    ASSUME Ascends, [Next]_vars, NEW c \in Clients,
           sub'[c].state = "expired", sub[c].state # "expired"
    PROVE  /\ \A i \in 1..Len(retained) : retained[i].seq # Cursor(c) + 1
           /\ \A i \in 1..Len(file) : file[i].seq # Cursor(c) + 1
<1>1. sub \in [Clients -> Connections]
  BY DEF Ascends, TypeInv, TypeOK
<1>2. CASE SubscribeExpired(c)
  <2>1. ~InWindow(Cursor(c)) /\ ~Spill
    BY <1>2 DEF SubscribeExpired
  <2>2. Len(file) = 0
    BY <2>1, EmptySeq DEF Ascends, Piles
  <2> QED
    BY <2>1, <2>2, WindowPast
<1>3. CASE FinishRead(c)
  <2>1. ~InWindow(Cursor(c))
    BY <1>3 DEF FinishRead, Ascends, Reading
  <2>2. PICK k \in Cuts(file) : IsAfter(file, Cursor(c), k) /\ Gap(Cursor(c), k)
    <3>1. \A k \in Cuts(file) : ~Attach(c, From(file, k))
      BY <1>1 DEF Attach
    <3>2. sub' # sub
      OBVIOUS
    <3> QED
      BY <1>3, <3>1, <3>2 DEF FinishRead
  <2> QED
    BY <2>1, <2>2, WindowPast, FilePast
<1>4. CASE ~SubscribeExpired(c) /\ ~FinishRead(c)
  <2>1. sub'[c].state # "expired"
    <3>1. ASSUME NEW d \in Clients, Subscriber(d) \/ Disconnect(d) PROVE sub'[c].state # "expired"
      <4>1. CASE d = c
        <5>1. CASE SubscribeFromMemory(c)
          BY <1>1, <5>1 DEF SubscribeFromMemory, Attach
        <5>2. CASE SubscribeFromDisk(c) \/ SendBarrier(c)
          BY <5>2 DEF SubscribeFromDisk, SendBarrier
        <5>3. CASE ConsumeReplay(c) \/ ConsumeLive(c)
          <6>1. sub'[c].state = sub[c].state
            BY <1>1, <5>3 DEF ConsumeReplay, ConsumeLive, Connections
          <6> QED
            BY <6>1
        <5>4. CASE SeeClosed(c) \/ StartOver(c) \/ Disconnect(c)
          BY <1>1, <5>4 DEF SeeClosed, StartOver, Disconnect, Detached
        <5> QED
          BY <1>4, <3>1, <4>1, <5>1, <5>2, <5>3, <5>4 DEF Subscriber
      <4>2. CASE d # c
        <5>1. sub'[c] = sub[c]
          BY <1>1, <3>1, <4>2 DEF Subscriber, SubscribeFromMemory, SubscribeExpired,
             SubscribeFromDisk, SendBarrier, FinishRead, ConsumeReplay, ConsumeLive, SeeClosed,
             StartOver, Disconnect, Attach
        <5> QED
          BY <5>1
      <4> QED
        BY <4>1, <4>2
    <3>2. CASE FanOut
      <4>1. sub'[c] = Offered(sub[c], log[Len(log)])
        BY <3>2 DEF FanOut
      <4> QED
        BY <1>1, <4>1 DEF Offered, Connections
    <3>3. CASE Close
      BY <1>1, <3>3 DEF Close, Ended, Connections
    <3>4. CASE Crash \/ PowerCut
      BY <3>4 DEF Crash, PowerCut, Gone, Detached
    <3>5. ASSUME NEW k \in Kinds, Publish(k) PROVE sub'[c].state # "expired"
      BY <3>5 DEF Publish
    <3>6. CASE Writer \/ WriterExit \/ FailExit \/ Reopen \/ Refuse \/ UNCHANGED vars
      BY <3>6 DEF Writer, WriteFrame, FailFrame, Rewrite, FailRewrite, Sync, FailSync,
         ReachBarrier, untouched, WriterExit, FailExit, Reopen, Refuse, vars
    <3> QED
      BY <3>1, <3>2, <3>3, <3>4, <3>5, <3>6 DEF Next, Idle
  <2> QED
    BY <2>1
<1> QED
  BY <1>2, <1>3, <1>4

(* A reader is told that its cursor has expired only when the event it needs*)
(* is neither in the window nor in the file: whatever fails, and however    *)
(* often the process ends.                                                  *)
THEOREM JournalExpiredHonestly == Spec => ExpiredHonestly
<1>1. Init => Ascends
  BY AscendsInit
<1>2. Ascends /\ [Next]_vars => Ascends'
  BY AscendsNext
<1>3. Ascends /\ [Next]_vars =>
         [\A c \in Clients :
             sub'[c].state = "expired" /\ sub[c].state # "expired" =>
                /\ \A i \in 1..Len(retained) : retained[i].seq # Cursor(c) + 1
                /\ \A i \in 1..Len(file) : file[i].seq # Cursor(c) + 1]_vars
  BY ExpiryHonest
<1> QED
  BY <1>1, <1>2, <1>3, PTL DEF Spec, ExpiredHonestly

-----------------------------------------------------------------------------
(* The journal of MCKept, which is in a file or in memory and stays there:  *)
(* what holds of Journal holds of it while it is in a file.                 *)

LEMMA KeptStep ==
    ASSUME [Either(Next, Memory!Next)]_<<kept, vars>>, kept' = "file"
    PROVE  kept = "file" /\ [Next]_vars
BY DEF Either

(* Where there is a file it stands, until a write fails.                    *)
THEOREM KeptFileHolds == ASSUME Orderly PROVE EitherSpec => []FileHolds
<1> DEFINE Kept == kept = "file" => FileSound
<1>1. EitherInit => Kept
  BY FileSoundInit DEF EitherInit
<1>2. Kept /\ [Either(Next, Memory!Next)]_<<kept, vars>> => Kept'
  BY KeptStep, FileSoundNext
<1>3. Kept => FileHolds
  BY FileSoundStands DEF FileHolds
<1> QED
  BY <1>1, <1>2, <1>3, PTL DEF EitherSpec

(* Where there is a file, Close leaves it whole and flushed.                *)
THEOREM KeptFileDrained == ASSUME Orderly PROVE EitherSpec => []FileDrained
<1> DEFINE Kept == kept = "file" => Draining
<1>1. EitherInit => Kept
  BY DrainingInit DEF EitherInit
<1>2. Kept /\ [Either(Next, Memory!Next)]_<<kept, vars>> => Kept'
  BY KeptStep, DrainingNext
<1>3. Kept => FileDrained
  BY DrainingDrains DEF FileDrained, Drainable
<1> QED
  BY <1>1, <1>2, <1>3, PTL DEF EitherSpec
=============================================================================
