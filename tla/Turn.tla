-------------------------------- MODULE Turn --------------------------------
(***************************************************************************)
(* One request of a session: RunTurn and runLoop of internal/engine.       *)
(*                                                                         *)
(* A turn asks the model, runs the tools of the reply one after another,   *)
(* gives their results back and asks again, until a reply has no calls.    *)
(* It can stop at a limit, an error, a failed tool, a repeated call, the   *)
(* bound of its rounds, or because the person cancels.  Where it stopped   *)
(* at a boundary it saved, it can be resumed, by the same process or by    *)
(* the next one; anywhere else it is refused and can only be discarded.    *)
(*                                                                         *)
(* A message is what the code reads of it: its role, its calls and the     *)
(* call it answers.  A call is an id, which a provider may give again in   *)
(* a later round, and the number of its round, which the code cannot see.  *)
(* A save is atomic here (SessionStore has its steps), and which model     *)
(* answers is left out: Asking has the attempts of one call.               *)
(***************************************************************************)
EXTENDS Integers, Sequences, FiniteSets, SequencesExt

CONSTANTS
    Rounds,     \* the calls a reply may make: sequences of ids
    MaxRounds,  \* MaxRoundsFor
    MaxTurns,   \* bound of the model: requests typed
    MaxReplies, \* bound of the model: replies with calls
    Faults,     \* bound of the model: what may go wrong
    MaxFaults   \* bound of the model: faults of a behaviour

Mishaps == {"disk", "crash", "cancel", "tool", "limit", "error", "vendor"}

ASSUME BoundsAssumption == MaxRounds \in Nat /\ {MaxTurns, MaxReplies, MaxFaults} \subseteq Nat
ASSUME RoundsAssumption ==
    \A ids \in Rounds : ids \in Seq(STRING) /\ ids # <<>> /\ IsInjective(ids)
ASSUME FaultsAssumption == Faults \subseteq Mishaps

VARIABLES
    conv,       \* the messages of the session
    run,        \* the journal of the last request
    dirty,      \* saveState.pending
    held,       \* saveState.recoveryLost
    disk,       \* the session as it was last saved
    turn,       \* the turn that runs: RunTurn's and runLoop's locals
    cancelled,  \* the turn's context is done
    typed,      \* requests typed so far
    asked,      \* replies with calls so far, which numbers their calls
    ran,        \* history: calls a tool has begun to run for
    again,      \* history: those of them for which one began twice
    open,       \* history: turn.started without an end, as a subscriber counts
    faults      \* bound of the model: faults so far

vars == <<conv, run, dirty, held, disk, turn, cancelled, typed, asked, ran, again,
          open, faults>>
saved == <<run, dirty, held, disk, faults>>
history == <<ran, again>>
person == <<cancelled, typed>>

-----------------------------------------------------------------------------
(* Messages.                                                                *)

User        == [role |-> "user", calls |-> <<>>, id |-> ""]
Reply(cs)   == [role |-> "assistant", calls |-> cs, id |-> ""]
Result(c)   == [role |-> "tool", calls |-> <<>>, id |-> c.id]

IsReply(m)    == m.role = "assistant"
HasCalls(m)   == m.calls # <<>>
LastReply(ms) == SelectLastInSeq(ms, IsReply)

(* What follows the last reply, when that is results and nothing else.      *)
After(ms, i)    == SubSeq(ms, i + 1, Len(ms))
OnlyResults(ms) == \A k \in DOMAIN ms : ms[k].role = "tool"
Ids(ms)         == {ms[k].id : k \in DOMAIN ms}

(* The elements of a sequence that are in a set, in their order: SelectSeq  *)
(* as a recursive function, which a proof can unfold.                       *)
Those(s, S) ==
    LET upto[k \in 0 .. Len(s)] ==
          IF k = 0 THEN <<>>
          ELSE IF s[k] \in S THEN Append(upto[k - 1], s[k]) ELSE upto[k - 1]
    IN upto[Len(s)]
Unanswered(calls, ids) == Those(calls, {c \in Range(calls) : c.id \notin ids})

(* Mutant: every result of the conversation answers, not the round's own.   *)
PendingAnywhere(ms) ==
    LET i == LastReply(ms) IN
    IF i = 0 \/ ~OnlyResults(After(ms, i)) THEN <<>>
    ELSE Unanswered(ms[i].calls, Ids(ms))

(* pendingToolCalls: earlier rounds may have had the same ids.              *)
Pending(ms) ==
    LET i == LastReply(ms) IN
    IF i = 0 \/ ~OnlyResults(After(ms, i)) THEN <<>>
    ELSE Unanswered(ms[i].calls, Ids(After(ms, i)))

(* repairDanglingToolCalls: a call without a result gets a synthetic one.   *)
Repaired(ms) == ms \o [k \in DOMAIN Pending(ms) |-> Result(Pending(ms)[k])]

(* A provider takes a conversation in which the calls of every reply are    *)
(* answered, each once and in order, before anything else is said.          *)
Answered(ms, i) ==
    /\ i + Len(ms[i].calls) <= Len(ms)
    /\ \A k \in DOMAIN ms[i].calls : ms[i + k] = Result(ms[i].calls[k])
WellFormed(ms) ==
    /\ \A i \in DOMAIN ms : Answered(ms, i)
    /\ \A i \in DOMAIN ms : ms[i].role = "tool" =>
        \E j \in 1 .. i - 1 : i <= j + Len(ms[j].calls)

(* CompactMessages leaves a conversation with an unanswered call alone, and *)
(* replaces whole rounds, the oldest first, by one line each.  How many it  *)
(* replaces depends on their lengths: any prefix.                           *)
NotTool(m)   == m.role # "tool"
Line(m)      == [m EXCEPT !.calls = <<>>]
RoundEnd(ms, i) ==
    CHOOSE k \in i .. Len(ms) :
        /\ OnlyResults(SubSeq(ms, i + 1, k))
        /\ k = Len(ms) \/ NotTool(ms[k + 1])
Collapsed(ms, i) ==
    LET last == RoundEnd(ms, i)
        kept == Those(SubSeq(ms, 1, last), {m \in Range(ms) : NotTool(m)})
    IN [k \in DOMAIN kept |-> Line(kept[k])] \o After(ms, last)

Compacted(ms) ==
    IF \A i \in DOMAIN ms : Answered(ms, i)
    THEN {Collapsed(ms, i) : i \in {k \in DOMAIN ms : HasCalls(ms[k])}}
    ELSE {}

-----------------------------------------------------------------------------
(* The journal, and saving it.                                              *)

NoRun == [phase |-> "none", input |-> 0, recovery |-> "", rounds |-> 0,
          seen |-> 0, committed |-> FALSE]
NoTurn == [at |-> "idle", then |-> "open", resumed |-> FALSE, todo |-> <<>>,
           req |-> <<>>, rounds |-> 0, seen |-> 0, empties |-> 0, over |-> FALSE,
           err |-> "ok"]

Finished(r) == r.phase \in {"none", "done", "stopped"}

Fault(kind) == kind \in Faults /\ faults < MaxFaults /\ faults' = faults + 1

At(where)  == turn.at = where
Goes(where) == turn' = [turn EXCEPT !.at = where]
StopsAt(where, err) == [turn EXCEPT !.at = where, !.err = err]
Stops(err) == StopsAt("ending", err)

(* A write of the session that reached the disk, and one that did not.  The *)
(* flag is cleared before either.                                           *)
Written(c, r) == disk' = [conv |-> c, run |-> r] /\ UNCHANGED faults
Unwritten     == Fault("disk") /\ UNCHANGED disk
Flushed(c, r) ==
    IF dirty THEN dirty' = FALSE /\ (Written(c, r) \/ Unwritten)
    ELSE UNCHANGED <<dirty, disk, faults>>

Marked == dirty' = (dirty \/ ~held)

(* recoveryWriteFailed: ordinary writes wait until the turn has unwound.    *)
Lost == Unwritten /\ dirty' = FALSE /\ held' = TRUE

(* Mutant: the point is retired in memory and on the disk at some later     *)
(* save.                                                                    *)
RetireInMemory(next, where) ==
    \/ /\ cancelled
       /\ turn' = StopsAt(where, "cancel") /\ UNCHANGED saved
    \/ /\ ~cancelled
       /\ run' = [run EXCEPT !.recovery = ""]
       /\ Marked /\ turn' = next /\ UNCHANGED <<disk, held, faults>>

(* retireRecovery: the point work would be resumed from is taken back, on   *)
(* the disk, before the next action can begin.                              *)
Retire(next, where) ==
    \/ /\ cancelled
       /\ turn' = StopsAt(where, "cancel") /\ UNCHANGED saved
    \/ /\ ~cancelled /\ run.recovery = ""
       /\ turn' = next /\ UNCHANGED saved
    \/ /\ ~cancelled /\ run.recovery # ""
       /\ run' = [run EXCEPT !.recovery = ""]
       /\ dirty' = FALSE /\ Written(conv, run')
       /\ turn' = next /\ UNCHANGED held
    \/ /\ ~cancelled /\ run.recovery # ""
       /\ Lost /\ turn' = StopsAt(where, "lost") /\ UNCHANGED run

(* saveRecovery: what c and r hold becomes a point to resume from, or a     *)
(* failed write that later writes must not turn into one.                   *)
SaveRecovery(c, r, reason, next, failed) ==
    \/ /\ run' = [r EXCEPT !.recovery = reason]
       /\ dirty' = FALSE /\ Written(c, run')
       /\ turn' = next /\ UNCHANGED held
    \/ /\ run' = r /\ Lost /\ turn' = failed

-----------------------------------------------------------------------------
(* The beginning of a turn.                                                 *)

(* A new request, when none is unfinished.  An unfinished one refuses it.   *)
NewTurn ==
    /\ At("idle") /\ Finished(run) /\ typed < MaxTurns
    /\ typed' = typed + 1
    /\ conv' = Repaired(conv)
    /\ turn' = [NoTurn EXCEPT !.at = "compact"]
    /\ UNCHANGED <<saved, cancelled, asked, history, open>>

(* restoreExecution admits the unfinished request at a boundary it saved,   *)
(* and nothing of it begins before that boundary is retired.                *)
Resume ==
    /\ At("idle") /\ ~Finished(run) /\ run.recovery # ""
    /\ turn' = [NoTurn EXCEPT !.at = "retire", !.resumed = TRUE]
    /\ UNCHANGED <<conv, saved, person, asked, history, open>>

RetireResumed ==
    /\ At("retire")
    /\ Retire([turn EXCEPT !.at = "compact"], "finish")
    /\ UNCHANGED <<conv, person, asked, history, open>>

(* compactIfNeeded, before a turn and after a round: what it replaces is    *)
(* saved at once, or stays.                                                 *)
Compact ==
    /\ At("compact")
    /\ \/ UNCHANGED <<conv, disk, faults>>
       \/ \E shorter \in Compacted(conv) :
            conv' = shorter /\ Written(shorter, run)
    /\ turn' = [turn EXCEPT !.at = turn.then, !.req = conv']
    /\ UNCHANGED <<run, dirty, held, person, asked, history, open>>

(* beginExecution, turn.started and the top of runLoop.  A reply that was   *)
(* committed is shown and not asked for again.                              *)
Shown == run.committed /\ conv # <<>> /\ IsReply(Last(conv)) /\ ~HasCalls(Last(conv))

OpenNew ==
    /\ At("open") /\ ~turn.resumed
    /\ conv' = Append(conv, User)
    /\ run' = [NoRun EXCEPT !.phase = "direct", !.input = typed]
    /\ Marked
    /\ turn' = [turn EXCEPT !.at = "loop", !.then = "loop", !.req = conv']
    /\ open' = open + 1
    /\ UNCHANGED <<held, disk, faults, person, asked, history>>

OpenResumed ==
    /\ At("open") /\ turn.resumed
    /\ turn' = [turn EXCEPT !.at = IF Shown THEN "ending" ELSE "loop",
                            !.then = "loop", !.req = conv,
                            !.rounds = run.rounds, !.seen = run.seen]
    /\ open' = open + 1
    /\ UNCHANGED <<conv, saved, person, asked, history>>

-----------------------------------------------------------------------------
(* Asking the model.                                                        *)

(* The calls the last reply left, or another question.                      *)
NextOf(req) ==
    IF Pending(req) = <<>>         THEN [turn EXCEPT !.at = "ask"]
    ELSE IF turn.rounds > MaxRounds THEN Stops("error")
    ELSE                                [turn EXCEPT !.at = "tools", !.todo = Pending(req)]

Loop ==
    /\ At("loop")
    /\ Retire(NextOf(turn.req), "ending")
    /\ UNCHANGED <<conv, person, asked, history, open>>

(* While a call is in flight no reply is committed.                         *)
InFlight == run' = [run EXCEPT !.committed = FALSE]

Refused ==
    /\ At("ask")
    /\ \/ cancelled /\ turn' = Stops("cancel") /\ UNCHANGED faults
       \/ \E kind \in {"limit", "error"} : Fault(kind) /\ turn' = Stops(kind)
    /\ InFlight
    /\ UNCHANGED <<conv, dirty, held, disk, person, asked, history, open>>

(* Mutant: every refusal for length is answered by another compaction, or   *)
(* by the same request.                                                     *)
TooLongAgain ==
    /\ At("ask")
    /\ turn' = [turn EXCEPT !.at = "loop", !.req = conv]
    /\ InFlight
    /\ UNCHANGED <<conv, dirty, held, disk, faults, person, asked, history, open>>

(* recoverFromOverflow: once per answered request, and only if compacting   *)
(* changed something.                                                       *)
TooLong ==
    /\ At("ask")
    /\ \/ /\ turn' = [Stops("error") EXCEPT !.over = TRUE]
          /\ UNCHANGED <<conv, disk, faults>>
       \/ /\ ~turn.over
          /\ \E shorter \in Compacted(conv) :
                conv' = shorter /\ Written(shorter, run)
          /\ turn' = [turn EXCEPT !.at = "loop", !.over = TRUE, !.req = conv']
    /\ InFlight
    /\ UNCHANGED <<dirty, held, person, asked, history, open>>

(* An empty reply is asked for once more, with a message the session does   *)
(* not keep.                                                                *)
Empty ==
    /\ At("ask")
    /\ turn' = IF turn.empties = 1 THEN Stops("error")
               ELSE [turn EXCEPT !.at = "loop", !.empties = 1, !.over = FALSE,
                                 !.req = Append(conv, User)]
    /\ InFlight
    /\ UNCHANGED <<conv, dirty, held, disk, faults, person, asked, history, open>>

(* The last reply of the turn.  A tool the vendor ran itself and reported   *)
(* as failed makes its commitment a point to resume from.                   *)
Final ==
    /\ At("ask")
    /\ conv' = Append(conv, Reply(<<>>))
    /\ \/ /\ run' = [run EXCEPT !.committed = TRUE]
          /\ Marked /\ turn' = Stops("ok") /\ UNCHANGED <<held, disk, faults>>
       \/ /\ "vendor" \in Faults /\ ~cancelled
          /\ SaveRecovery(conv', [run EXCEPT !.committed = TRUE], "error",
                          Stops("ok"), Stops("lost"))
    /\ UNCHANGED <<person, asked, history, open>>

WithCalls ==
    /\ At("ask") /\ asked < MaxReplies
    /\ asked' = asked + 1
    /\ \E ids \in Rounds :
        LET calls == [k \in DOMAIN ids |-> [no |-> asked', id |-> ids[k]]] IN
        /\ conv' = Append(conv, Reply(calls))
        /\ LET next == [turn EXCEPT !.empties = 0, !.over = FALSE, !.rounds = @ + 1] IN
           turn' = IF next.rounds > MaxRounds
                   THEN [next EXCEPT !.at = "ending", !.err = "error"]
                   ELSE [next EXCEPT !.at = "tools", !.todo = calls]
    /\ run' = [run EXCEPT !.committed = TRUE]
    /\ Marked
    /\ UNCHANGED <<held, disk, faults, person, history, open>>

-----------------------------------------------------------------------------
(* Running the tools of a reply.                                            *)

NextTool ==
    /\ At("tools") /\ turn.todo # <<>>
    /\ Retire([turn EXCEPT !.at = "run"], "ending")
    /\ UNCHANGED <<conv, person, asked, history, open>>

(* answerDoomLoop: a call that two settled ones already match is made again *)
(* only if the person says so.                                              *)
Repeats ==
    /\ At("run") /\ turn.seen = 2
    /\ turn' = Stops("error")
    /\ UNCHANGED <<conv, saved, person, asked, history, open>>

(* A tool that writes first saves what the session holds, its call          *)
(* included.                                                                *)
Run ==
    /\ At("run")
    /\ \/ Flushed(conv, run)
       \/ UNCHANGED <<dirty, disk, faults>>
    /\ ran' = ran \cup {Head(turn.todo)}
    /\ again' = again \cup (ran \cap {Head(turn.todo)})
    /\ Goes("answer")
    /\ UNCHANGED <<conv, run, held, person, asked, open>>

Settled == [turn EXCEPT !.at = "tools", !.todo = Tail(@),
                        !.seen = IF @ = 2 THEN 1 ELSE @ + 1]

(* The result of a tool that failed is a point to resume the rest of the    *)
(* round from; after a cancel the turn only stops.                          *)
Failed ==
    /\ At("answer")
    /\ conv' = Append(conv, Result(Head(turn.todo)))
    /\ \/ /\ cancelled
          /\ turn' = [Settled EXCEPT !.at = "ending", !.err = "cancel"]
          /\ Marked /\ UNCHANGED <<run, held, disk, faults>>
       \/ /\ ~cancelled /\ "tool" \in Faults
          /\ SaveRecovery(conv', [run EXCEPT !.committed = FALSE, !.rounds = turn.rounds,
                                             !.seen = Settled.seen],
                          "error", Settled,
                          [Settled EXCEPT !.at = "ending", !.err = "lost"])
    /\ UNCHANGED <<person, asked, history, open>>

Ran ==
    /\ At("answer")
    /\ conv' = Append(conv, Result(Head(turn.todo)))
    /\ turn' = Settled
    /\ Marked
    /\ UNCHANGED <<run, held, disk, faults, person, asked, history, open>>

(* The round is answered: the interval's save, when it is due.              *)
RoundEnds ==
    /\ At("tools") /\ turn.todo = <<>>
    /\ run' = [run EXCEPT !.committed = FALSE]
    /\ \/ dirty' = FALSE /\ (Written(conv, run') \/ Unwritten)
       \/ Marked /\ UNCHANGED <<disk, faults>>
    /\ Goes("compact")
    /\ UNCHANGED <<conv, held, person, asked, history, open>>

-----------------------------------------------------------------------------
(* The end of a turn.                                                       *)

Kept == [run EXCEPT !.rounds = turn.rounds, !.seen = turn.seen]
Ended == open' = open - 1

(* pauseIfWaitingHelps: a limit becomes a pause, which has its own event,   *)
(* when the point it is resumed from is saved.                              *)
Paused(next) ==
    /\ turn.err = "limit" /\ ~cancelled
    /\ SaveRecovery(conv, Kept, "pause", next, [turn EXCEPT !.at = "told", !.err = "lost"])
    /\ open' = IF turn'.err = "lost" THEN open ELSE open - 1

(* Mutant: a pause goes on to the event of a failure.                       *)
EndsTwice ==
    /\ At("ending")
    /\ \/ Paused([turn EXCEPT !.at = "told", !.err = "paused"])
       \/ /\ turn.err = "error" /\ ~cancelled
          /\ SaveRecovery(conv, Kept, "error", [turn EXCEPT !.at = "told"],
                          [turn EXCEPT !.at = "told", !.err = "lost"])
          /\ UNCHANGED open
       \/ /\ turn.err \in {"ok", "lost", "cancel"} \/ cancelled
          /\ run' = Kept /\ Goes("told")
          /\ UNCHANGED <<dirty, held, disk, faults, open>>
    /\ UNCHANGED <<conv, person, asked, history>>

Ends ==
    /\ At("ending")
    /\ \/ Paused([turn EXCEPT !.at = "finish", !.err = "paused"])
       \/ /\ turn.err = "error" /\ ~cancelled
          /\ SaveRecovery(conv, Kept, "error", [turn EXCEPT !.at = "told"],
                          [turn EXCEPT !.at = "told", !.err = "lost"])
          /\ UNCHANGED open
       \/ /\ turn.err \in {"ok", "lost", "cancel"} \/ cancelled
          /\ run' = Kept /\ Goes("told")
          /\ UNCHANGED <<dirty, held, disk, faults, open>>
    /\ UNCHANGED <<conv, person, asked, history>>

(* turn.finished or turn.cancelled.                                         *)
Told ==
    /\ At("told")
    /\ Ended /\ Goes("finish")
    /\ UNCHANGED <<conv, saved, person, asked, history>>

(* finishExecution and the save of the turn's end.  A request whose point   *)
(* was lost keeps its journal as it is; one that was cancelled is stopped.  *)
Closed ==
    CASE turn.err = "ok" -> [run EXCEPT !.phase = "done"]
      [] turn.err = "cancel" \/ (cancelled /\ turn.err \notin {"ok", "lost", "paused"})
                         -> [run EXCEPT !.phase = "stopped"]
      [] OTHER           -> run

Finish ==
    /\ At("finish")
    /\ run' = Closed
    /\ IF held THEN UNCHANGED <<disk, faults>> ELSE Written(conv, run') \/ Unwritten
    /\ dirty' = FALSE /\ held' = FALSE
    /\ turn' = NoTurn /\ cancelled' = FALSE
    /\ UNCHANGED <<conv, typed, asked, history, open>>

-----------------------------------------------------------------------------
(* The person, and the machine.                                             *)

Cancel ==
    /\ ~At("idle") /\ ~cancelled /\ Fault("cancel")
    /\ cancelled' = TRUE
    /\ UNCHANGED <<conv, run, dirty, held, disk, turn, typed, asked, history, open>>

(* DiscardPending: the request is over, its calls will not be run.          *)
Discard ==
    /\ At("idle") /\ ~Finished(run)
    /\ run' = [run EXCEPT !.phase = "stopped"]
    /\ Written(conv, run') \/ Unwritten
    /\ dirty' = FALSE
    /\ UNCHANGED <<conv, held, turn, person, asked, history, open>>

Crash ==
    /\ Fault("crash")
    /\ conv' = disk.conv /\ run' = disk.run
    /\ dirty' = FALSE /\ held' = FALSE /\ turn' = NoTurn /\ cancelled' = FALSE
    /\ open' = 0
    /\ UNCHANGED <<disk, typed, asked, history>>

-----------------------------------------------------------------------------
Init ==
    /\ conv = <<>> /\ run = NoRun /\ dirty = FALSE /\ held = FALSE
    /\ disk = [conv |-> <<>>, run |-> NoRun]
    /\ turn = NoTurn /\ cancelled = FALSE
    /\ typed = 0 /\ asked = 0 /\ ran = {} /\ again = {} /\ open = 0 /\ faults = 0

Works ==
    \/ RetireResumed \/ Compact \/ OpenNew \/ OpenResumed
    \/ Loop \/ Refused \/ TooLong \/ Empty \/ Final \/ WithCalls
    \/ NextTool \/ Repeats \/ Run \/ Failed \/ Ran \/ RoundEnds
    \/ Ends \/ Told \/ Finish

Next == NewTurn \/ Resume \/ Works \/ Cancel \/ Discard \/ Crash

Spec == Init /\ [][Next]_vars

(* A turn that runs goes on: providers answer or fail, tools return.        *)
FairSpec == Spec /\ WF_vars(Works)

-----------------------------------------------------------------------------
(* Properties.                                                              *)

(* No tool call of a reply is begun twice, whatever stops the turn and      *)
(* however often it is resumed, by this process or by the next: a boundary  *)
(* is only resumed from as long as nothing after it has begun.              *)
CallsOnce == again = {}

(* Every conversation that is sent answers all the calls of every reply,    *)
(* each once and in its place, after failed tools, cancelled rounds,        *)
(* resumes, discards, compactions and crashes alike.                        *)
RequestsAnswered == At("ask") => WellFormed(turn.req)

(* A subscriber sees exactly one end for every turn.started.                *)
OneEnding ==
    /\ open \in {0, 1}
    /\ At("idle") => open = 0

(* A turn that began ends, on whatever the provider and the tools answer.   *)
TurnEnds == ~At("idle") ~> At("idle")
=============================================================================
