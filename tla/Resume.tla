------------------------------- MODULE Resume -------------------------------
(***************************************************************************)
(* How a request that a limit stopped comes back: the pause on the         *)
(* session, the monitor that watches it, the claim that hands the saved    *)
(* run to one turn, and the commands that lift, move or abandon it         *)
(* (internal/engine: resume.go, pause.go, chain.go, auto_continue.go,      *)
(* new_session.go, the entry and the exits of RunTurn in agent.go, and     *)
(* the restoring and closing of a run in execution.go), together with the  *)
(* two surfaces that run the turns: the line REPL, where a delivery waits  *)
(* for the turn lock (cli/repl.go), and the screen, which declines one     *)
(* while it is busy (tui/runtime.go).                                      *)
(*                                                                         *)
(* The goroutines are the user's, with the turn that runs in it, and the   *)
(* monitors; the steps of a goroutine are what another can see between     *)
(* two acquisitions of resumeMu or two reads of the session.  A boundary   *)
(* is a point the run was saved at; boundaries are numbered as they are    *)
(* made, and one that is a pause is named in the session's Paused too.     *)
(* The claim counter is abstracted to what it is compared for: whether a   *)
(* holder's ticket is still the last one given.                            *)
(***************************************************************************)
EXTENDS Naturals, FiniteSets

CONSTANTS
    Configs,    \* what a session may be like: its surface, its policy, what is
                \* typed at it and what goes wrong
    Slots,      \* bound of the model: monitors alive at once
    MaxPoints,  \* bound of the model: boundaries made
    MaxInputs,  \* bound of the model: different requests typed
    MaxLives    \* bound of the model: processes that open the session

Faults == {"save", "refuse", "cancel", "crash", "legacy"}
Commands == {"prompt", "same", "resume", "discard", "continue", "new", "exit"}

ASSUME ConfigsAssumption ==
    Configs \subseteq [surface : {"line", "screen"}, policy : {"auto", "manual"},
                       typed : SUBSET Commands, faults : SUBSET Faults]
ASSUME BoundsAssumption ==
    /\ MaxPoints \in Nat \ {0} /\ MaxInputs \in Nat \ {0} /\ MaxLives \in Nat
    /\ Slots \in Nat \ {0}

Slot  == 1..Slots
Point == 1..MaxPoints

VARIABLES
    config,   \* what the session is like, of Configs
    lives,    \* processes that opened it, the current one included
    on,       \* a process has it open
    paused,   \* Sess.Paused: the pause's boundary, 0 for nil
    run,      \* Sess.RunState: [phase, input, at, limit]
    disk,     \* what of the two is on disk
    claim,    \* resumeClaim: "none", the session's run, or a run that is gone
    closed,   \* resumeClosed
    live,     \* resumeBase is there and not cancelled
    watch,    \* a.resume: the slot of the monitor in charge, 0 for nil
    mon,      \* the monitors' goroutines
    turn,     \* the turn in progress
    user,     \* the goroutine that reads the user
    points,   \* boundaries made so far
    inputOf,  \* what each boundary's request was
    inputs,   \* requests typed so far
    begun,    \* history: how often work has begun from each boundary
    dropped,  \* history: boundaries of requests that were abandoned
    left      \* history: boundaries of sessions that /new has replaced

store   == <<paused, run, disk>>
watcher == <<claim, closed, live, watch, mon>>
past    == <<begun, dropped, left>>
made    == <<points, inputOf, inputs>>
vars == <<config, lives, on, store, watcher, turn, user, made, past>>

-----------------------------------------------------------------------------
(* Runs, monitors and turns.                                                *)

NoRun == [phase |-> "none", input |-> 0, at |-> 0, limit |-> FALSE]
NewRun(input) == [NoRun EXCEPT !.phase = "live", !.input = input]
Live(r)  == r.phase = "live"
Saved(r) == Live(r) /\ r.at # 0

NoMonitor == [at |-> "gone", pause |-> 0, ready |-> FALSE, stopped |-> FALSE, discarded |-> FALSE,
              ticket |-> "none", retry |-> FALSE]
NoTurn == [at |-> "idle", by |-> 0, input |-> 0, point |-> 0, join |-> 0, ticket |-> "none",
           resumed |-> FALSE, mine |-> FALSE, nested |-> FALSE,
           cancelled |-> FALSE, out |-> ""]
Idle == [at |-> "idle", cmd |-> "none", join |-> 0, point |-> 0]

(* A monitor whose done is closed, and one that has left its delivery.      *)
Done(m) == mon[m].at \notin {"wait", "moving", "decide"}
Left(m) == mon[m].at \notin {"deliver", "offer", "running", "declined", "returned"}

(* The turn lock of the line REPL; the screen's one turn at a time.         *)
Busy == turn.at # "idle" \/ user.at \in {"join", "body", "switched", "again", "quiet"}

Now(p, r) == [paused |-> p, run |-> r]
SaveNow == disk' = Now(paused', run')

(* claimRunLocked: every ticket given before this one is stale.             *)
Stale(t) == IF t = "current" THEN "stale" ELSE t
Outdated == [m \in Slot |-> [mon[m] EXCEPT !.ticket = Stale(@)]]

(* armResume, in a step that leaves p as the pause and ms as the monitors.  *)
Arm(p, ms) ==
    IF /\ config.policy = "auto" /\ ~closed /\ watch = 0 /\ live /\ p # 0
    THEN LET free == {m \in Slot : ms[m].at = "gone" /\ m \notin {user.join, turn.join}}
             slot == CHOOSE m \in free : \A n \in free : m <= n
         IN  /\ free # {}
             /\ mon' = [ms EXCEPT ![slot] = [NoMonitor EXCEPT !.at = "wait", !.pause = p]]
             /\ watch' = slot
    ELSE mon' = ms /\ UNCHANGED watch

(* ensureResumeJournal: a pause without an unfinished run gets one.         *)
Journaled(p) == IF Live(run) THEN run
                ELSE [NewRun(inputOf[p]) EXCEPT !.at = p, !.limit = TRUE]

-----------------------------------------------------------------------------
(* A monitor.                                                               *)

Goes(m, to) == mon' = [mon EXCEPT ![m].at = to]
Ready(m) == mon' = [mon EXCEPT ![m].at = "decide", ![m].ready = TRUE]

(* No wait and probe end in the instant between a command's stop of the     *)
(* monitor and its lock, or between a monitor's look at the pause and its   *)
(* write: a pause that comes back waits for 30 seconds.                     *)
Instant == \/ user.at \in {"join", "again"} \/ turn.at = "switched"
           \/ user.at = "body" /\ user.cmd # "continue"
           \/ \E m \in Slot : mon[m].at = "moving"

(* watchPause after a wait and a probe: the limit has lifted, or is to be   *)
(* asked about again, and the pause may not be this monitor's any more.     *)
Probe(m) ==
    /\ mon[m].at = "wait" /\ ~mon[m].stopped /\ ~Instant
    /\ \/ paused = mon[m].pause /\ (Ready(m) \/ Goes(m, "moving"))
       \/ paused # mon[m].pause /\ Goes(m, "decide")
    /\ UNCHANGED <<config, lives, on, store, claim, closed, live, watch, turn, user, made, past>>

Lifted(m) == Probe(m) /\ mon'[m].at = "decide"

(* The wait or the probe of a monitor whose context has ended.              *)
Cancelled(m) ==
    /\ mon[m].at = "wait" /\ mon[m].stopped
    /\ Goes(m, "decide")
    /\ UNCHANGED <<config, lives, on, store, claim, closed, live, watch, turn, user, made, past>>

(* The pause with its next check is put back and saved.                     *)
Move(m) ==
    /\ mon[m].at = "moving"
    /\ Goes(m, "wait")
    /\ paused' = mon[m].pause /\ UNCHANGED run /\ SaveNow
    /\ UNCHANGED <<config, lives, on, claim, closed, live, watch, turn, user, made, past>>

(* What a monitor that is ready decides under the lock: whether the pause   *)
(* is still its own to deliver.  A delivery claims the run.                 *)
Delivers(m) ==
    /\ watch = m /\ mon[m].ready /\ ~closed /\ ~mon[m].stopped
    /\ paused = mon[m].pause

Decide(m) ==
    /\ mon[m].at = "decide"
    /\ watch' = IF watch = m THEN 0 ELSE watch
    /\ IF Delivers(m)
       THEN /\ run' = Journaled(paused)
            /\ paused' = 0
            /\ claim' = "run"
            /\ mon' = [Outdated EXCEPT ![m].at = "deliver", ![m].ticket = "current"]
            /\ turn' = [turn EXCEPT !.mine = FALSE, !.ticket = Stale(@)]
       ELSE /\ mon' = IF mon[m].stopped THEN [mon EXCEPT ![m] = NoMonitor]
                      ELSE [mon EXCEPT ![m].at = "left"]
            /\ UNCHANGED <<paused, run, claim, turn>>
    /\ UNCHANGED <<config, lives, on, disk, closed, live, user, made, past>>

(* saveFor(saveResume), outside the lock.                                   *)
SaveDelivery(m) ==
    /\ mon[m].at = "deliver"
    /\ Goes(m, "offer")
    /\ UNCHANGED <<paused, run>> /\ SaveNow
    /\ UNCHANGED <<config, lives, on, claim, closed, live, watch, turn, user, made, past>>

(* A turn that is handed a saved boundary, or a request just typed.         *)
Hand(by, point, ticket) ==
    turn' = [NoTurn EXCEPT !.at = "begin", !.by = by, !.point = point,
                           !.input = inputOf[point], !.ticket = ticket]
Send(input) == turn' = [NoTurn EXCEPT !.at = "begin", !.input = input]

(* The line REPL's callback: it waits for the turn lock, and runs the turn  *)
(* in the monitor's goroutine.                                              *)
OfferLine(m) ==
    /\ config.surface = "line" /\ mon[m].at = "offer" /\ ~Busy
    /\ IF mon[m].stopped THEN Goes(m, "declined") /\ UNCHANGED turn
       ELSE Goes(m, "running") /\ Hand(m, mon[m].pause, mon[m].ticket)
    /\ UNCHANGED <<config, lives, on, store, claim, closed, live, watch, user, made, past>>

(* The screen's: it takes the turn if it is idle.  The turn lives with the  *)
(* session, not with the monitor.                                           *)
OfferScreen(m) ==
    /\ config.surface = "screen" /\ mon[m].at = "offer"
    /\ IF mon[m].stopped \/ Busy \/ user.at \in {"leaving", "closing"}
       THEN Goes(m, "declined") /\ UNCHANGED turn
       ELSE Goes(m, "left") /\ Hand(0, mon[m].pause, mon[m].ticket)
    /\ UNCHANGED <<config, lives, on, store, claim, closed, live, watch, user, made, past>>

(* Mutant: whether the request has been abandoned is not asked.             *)
ReturnsAlways(m) == paused = 0

(* A delivery that was declined: the pause comes back, unless there is a    *)
(* newer one or the request has been abandoned.                             *)
Returns(m) == /\ paused = 0 /\ ~mon[m].discarded
              /\ ~(run.phase = "stopped" /\ run.input = inputOf[mon[m].pause])

Decline(m) ==
    /\ mon[m].at = "declined"
    /\ IF Returns(m)
       THEN /\ claim' = "none" /\ paused' = mon[m].pause
            /\ mon' = [mon EXCEPT ![m].at = "returned",
                                  ![m].retry = ~closed /\ ~mon[m].stopped]
       ELSE Goes(m, "returned") /\ UNCHANGED <<claim, paused>>
    /\ UNCHANGED <<config, lives, on, run, disk, closed, live, watch, turn, user, made, past>>

SaveReturn(m) ==
    /\ mon[m].at = "returned"
    /\ Goes(m, "left")
    /\ UNCHANGED <<paused, run>> /\ SaveNow
    /\ UNCHANGED <<config, lives, on, claim, closed, live, watch, turn, user, made, past>>

(* Mutant: a delivery that was declined is not tried again.                 *)
NewerOnly(m) == paused # 0 /\ paused # mon[m].pause

(* The end of the goroutine: a newer pause is watched in its turn, and one  *)
(* that the surface was too busy for is watched again.                      *)
Again(m) == paused # 0 /\ (mon[m].retry \/ paused # mon[m].pause)

Leave(m) ==
    /\ mon[m].at = "left"
    /\ LET gone == [mon EXCEPT ![m] = NoMonitor]
       IN  IF ~mon[m].stopped /\ Again(m)
           THEN Arm(paused, gone)
           ELSE mon' = gone /\ UNCHANGED watch
    /\ UNCHANGED <<config, lives, on, store, claim, closed, live, turn, user, made, past>>

-----------------------------------------------------------------------------
(* The turn: RunTurn.                                                       *)

Turn(to) == turn' = [turn EXCEPT !.at = to]

(* A nested attempt returns to the frame of the turn that hopped.           *)
Over == IF turn.nested THEN Turn("release") /\ UNCHANGED mon
        ELSE /\ turn' = NoTurn
             /\ mon' = IF turn.by = 0 THEN mon ELSE [mon EXCEPT ![turn.by].at = "left"]

(* Mutant: a delivered turn runs whatever has become of its claim.          *)
NeverStale == FALSE

(* deliveryStale.                                                           *)
DeliveryStale == turn.ticket # "none" /\ (claim = "none" \/ turn.ticket = "stale")

(* A turn whose context is done already gives its claim back, and the pause *)
(* that was lifted for it: retainUnstartedResume.                           *)
Retain == IF Saved(run) /\ run.input = turn.input
          THEN /\ claim' = "none"
               /\ paused' = IF run.limit /\ paused = 0 THEN run.at ELSE paused
               /\ UNCHANGED run /\ SaveNow
          ELSE UNCHANGED <<store, claim>>

Begin ==
    /\ turn.at = "begin"
    /\ \/ turn.cancelled /\ Over /\ Retain
       \/ ~turn.cancelled /\ DeliveryStale /\ Over /\ UNCHANGED <<store, claim>>
       \/ /\ ~turn.cancelled /\ ~DeliveryStale
          /\ turn' = [turn EXCEPT !.at = "paused", !.ticket = "none"]
          /\ UNCHANGED <<store, claim, mon>>
    /\ UNCHANGED <<config, lives, on, closed, live, watch, user, made, past>>

CheckPaused ==
    /\ turn.at = "paused"
    /\ IF paused # 0 THEN Over ELSE Turn("restore") /\ UNCHANGED mon
    /\ UNCHANGED <<config, lives, on, store, claim, closed, live, watch, user, made, past>>

(* restoreExecution: the saved run is this turn's, or it is refused, or     *)
(* there is none and the turn is a new request.                             *)
Refused == \/ Live(run) /\ (run.at = 0 \/ run.input # turn.input)
           \/ Live(run) /\ "refuse" \in config.faults

Restore ==
    /\ turn.at = "restore"
    /\ \/ /\ ~Live(run) /\ Turn("fresh") /\ UNCHANGED claim
       \/ /\ Refused /\ Turn(IF turn.nested THEN "release" ELSE "rearm")
          /\ claim' = IF run.input = turn.input THEN "none" ELSE claim
       \/ /\ Saved(run) /\ run.input = turn.input
          /\ turn' = [turn EXCEPT !.at = "retire", !.resumed = TRUE,
                                  !.mine = claim = "run"]
          /\ UNCHANGED claim
    /\ UNCHANGED <<config, lives, on, store, closed, live, watch, mon, user, made, past>>

(* beginExecution.                                                          *)
Fresh ==
    /\ turn.at = "fresh"
    /\ run' = NewRun(turn.input)
    /\ claim' = IF claim = "run" THEN "old" ELSE claim
    /\ begun' = [b \in Point |-> begun[b] + IF b = turn.point THEN 1 ELSE 0]
    /\ Turn("work")
    /\ UNCHANGED <<config, lives, on, paused, disk, closed, live, watch, mon, user, made,
                   dropped, left>>

(* retireRecovery: the boundary is off the disk before anything is done     *)
(* from it.                                                                 *)
Retire ==
    /\ turn.at = "retire"
    /\ \/ /\ turn.cancelled /\ turn' = [turn EXCEPT !.at = "finish", !.out = "cancelled"]
          /\ UNCHANGED <<run, disk, begun>>
       \/ /\ ~turn.cancelled
          /\ run' = [run EXCEPT !.at = 0, !.limit = FALSE] /\ disk' = Now(paused, run')
          /\ begun' = [begun EXCEPT ![run.at] = @ + 1]
          /\ Turn("work")
       \/ /\ ~turn.cancelled /\ "save" \in config.faults
          /\ turn' = [turn EXCEPT !.at = "finish", !.out = "lost"]
          /\ UNCHANGED <<run, disk, begun>>
    /\ UNCHANGED <<config, lives, on, paused, claim, closed, live, watch, mon, user, made,
                   dropped, left>>

Ends(out) == turn' = [turn EXCEPT !.at = "finish", !.out = out]

NewPoint == /\ points < MaxPoints /\ points' = points + 1
            /\ inputOf' = [inputOf EXCEPT ![points'] = run.input] /\ UNCHANGED inputs

(* The work ends: with an answer, on the user's cancellation, with an error *)
(* saved as a recovery point, or on a limit.                                *)
Work ==
    /\ turn.at = "work"
    /\ \/ /\ Ends(IF turn.cancelled THEN "cancelled" ELSE "done")
          /\ UNCHANGED <<paused, run, disk, made>>
       \/ /\ ~turn.cancelled /\ Ends("error") /\ NewPoint
          /\ run' = [run EXCEPT !.at = points', !.limit = FALSE]
          /\ UNCHANGED paused /\ SaveNow
       \/ /\ ~turn.cancelled /\ "save" \in config.faults /\ Ends("lost")
          /\ UNCHANGED <<paused, run, disk, made>>
       \/ /\ ~turn.cancelled /\ Turn("limit") /\ NewPoint
          /\ run' = [run EXCEPT !.at = points', !.limit = TRUE]
          /\ paused' = points' /\ UNCHANGED disk
    /\ UNCHANGED <<config, lives, on, claim, closed, live, watch, mon, user, past>>

(* pauseIfWaitingHelps: the pause is saved, or there is none.               *)
Pause ==
    /\ turn.at = "limit"
    /\ \/ Turn("hop") /\ UNCHANGED <<paused, run>> /\ SaveNow
       \/ /\ "save" \in config.faults /\ Ends("lost")
          /\ paused' = 0 /\ run' = [run EXCEPT !.at = 0, !.limit = FALSE]
          /\ UNCHANGED disk
    /\ UNCHANGED <<config, lives, on, claim, closed, live, watch, mon, user, made, past>>

(* autoContinue: the chain is walked in the turn itself.  A switch that     *)
(* takes runs the request there; none leaves the pause, watched already     *)
(* while the turn is still on its way out.                                  *)
Stand == turn.at = "hop" /\ Ends("paused")
         /\ UNCHANGED <<config, lives, on, store, watcher, user, made, past>>

(* stopResumeMonitor: the monitor in charge is cancelled; its done is then  *)
(* waited for.                                                              *)
Stopped == IF watch = 0 THEN mon ELSE [mon EXCEPT ![watch].stopped = TRUE]
StopMonitor == watch' = 0 /\ mon' = Stopped

HopStops ==
    /\ turn.at = "hop" /\ ~turn.cancelled /\ StopMonitor
    /\ turn' = [turn EXCEPT !.at = "switch", !.join = watch]
    /\ UNCHANGED <<config, lives, on, store, claim, closed, live, user, made, past>>

TurnJoined == turn.join # 0 => Done(turn.join)

Hop ==
    /\ turn.at = "switch" /\ TurnJoined
    /\ \/ /\ turn' = [turn EXCEPT !.at = "finish", !.out = "paused", !.join = 0]
          /\ Arm(paused, mon)
       \/ /\ paused # 0 /\ ~turn.cancelled /\ StopMonitor
          /\ turn' = [turn EXCEPT !.at = "switched", !.point = paused, !.join = watch]
    /\ UNCHANGED <<config, lives, on, store, claim, closed, live, user, made, past>>

HopTakes ==
    /\ turn.at = "switched" /\ TurnJoined
    /\ paused' = 0 /\ UNCHANGED run /\ SaveNow
    /\ turn' = [turn EXCEPT !.at = "begin", !.nested = TRUE, !.join = 0]
    /\ UNCHANGED <<config, lives, on, watcher, user, made, past>>

(* finishExecution, then the release of the claim the turn was given.       *)
Finish ==
    /\ turn.at = "finish"
    /\ run' = CASE turn.out = "done"      -> [run EXCEPT !.phase = "done"]
                [] turn.out = "cancelled" -> [run EXCEPT !.phase = "stopped"]
                [] OTHER                  -> run
    /\ Turn(IF turn.resumed THEN "release" ELSE "rearm")
    /\ UNCHANGED <<config, lives, on, paused, disk, watcher, user, made, past>>

(* Mutant: the claim is kept by a turn that has ended.                      *)
KeepClaim == turn.at = "release" /\ Turn("rearm")
             /\ UNCHANGED <<config, lives, on, store, watcher, user, made, past>>

Release ==
    /\ turn.at = "release"
    /\ claim' = IF turn.mine THEN "none" ELSE claim
    /\ Turn("rearm")
    /\ UNCHANGED <<config, lives, on, store, closed, live, watch, mon, user, made, past>>

(* The last defer: what is pending is flushed, and the pause, if there is   *)
(* one now, is watched.                                                     *)
Rearm ==
    /\ turn.at = "rearm"
    /\ turn' = NoTurn
    /\ disk' = IF turn.out = "lost" THEN disk ELSE Now(paused, run)
    /\ Arm(paused, IF turn.by = 0 THEN mon ELSE [mon EXCEPT ![turn.by].at = "left"])
    /\ UNCHANGED <<config, lives, on, paused, run, claim, closed, live, user, made, past>>

(* Ctrl+C, or Esc on the screen.                                            *)
Interrupt ==
    /\ "cancel" \in config.faults /\ turn.at # "idle" /\ ~turn.cancelled
    /\ turn' = [turn EXCEPT !.cancelled = TRUE]
    /\ UNCHANGED <<config, lives, on, store, watcher, user, made, past>>

-----------------------------------------------------------------------------
(* The user.                                                                *)

User(to) == user' = [user EXCEPT !.at = to]

(* The line REPL ends the deliveries before it takes the turn lock for a    *)
(* command that waits for them; the screen cancels its turn as it closes.   *)
MayType(cmd) == \/ user.at = "idle"
                \/ user.at = "turn" /\ cmd = "exit" /\ config.surface = "screen"

(* Mutant: the deliveries are waited for with the turn lock held.           *)
Takes(cmd) == IF cmd = "exit" THEN "leaving" ELSE "typed"

Starts(cmd) == CASE cmd = "exit" -> "leaving"
                 [] cmd = "new" /\ config.surface = "line" -> "quiesce"
                 [] OTHER -> "typed"

Type(cmd) ==
    /\ on /\ MayType(cmd) /\ cmd \in config.typed
    /\ cmd = "prompt" => inputs < MaxInputs
    /\ cmd = "same" => run.input # 0
    /\ user' = [Idle EXCEPT !.cmd = cmd, !.at = Starts(cmd)]
    /\ turn' = IF cmd = "exit" /\ config.surface = "screen" /\ turn.at # "idle"
               THEN [turn EXCEPT !.cancelled = TRUE] ELSE turn
    /\ UNCHANGED <<config, lives, on, store, watcher, made, past>>

(* A generation ends: QuiesceResume, and closeResume.                       *)
CancelAll == [m \in Slot |-> IF mon[m].at = "gone" THEN mon[m]
                             ELSE [mon[m] EXCEPT !.stopped = TRUE]]
CancelDelivered == turn' = [turn EXCEPT !.cancelled = @ \/ turn.by # 0]

Quiesce ==
    /\ user.at \in {"quiesce", "quiet"} /\ live
    /\ live' = FALSE /\ mon' = CancelAll /\ CancelDelivered
    /\ UNCHANGED <<config, lives, on, store, claim, closed, watch, user, made, past>>

(* Mutant: only the deliveries are waited for, not the goroutines.          *)
AllLeft == \A m \in Slot : Left(m)
AllGone == \A m \in Slot : mon[m].at = "gone"

Quieted ==
    /\ user.at = "quiesce" /\ ~live /\ AllGone
    /\ live' = TRUE
    /\ User("typed")
    /\ UNCHANGED <<config, lives, on, store, claim, closed, watch, mon, turn, made, past>>

(* The command gets the turn lock, or the screen's turn.                    *)
Take ==
    /\ user.at = "typed" /\ ~Busy
    /\ \/ /\ user.cmd = "prompt" /\ Send(inputs + 1) /\ User("turn")
          /\ inputs' = inputs + 1 /\ UNCHANGED <<watch, mon, points, inputOf>>
       \/ /\ user.cmd = "same" /\ Send(run.input) /\ User("turn")
          /\ UNCHANGED <<watch, mon, made>>
       \/ /\ user.cmd \in {"resume", "discard", "continue"} /\ StopMonitor
          /\ user' = [user EXCEPT !.at = "join", !.join = watch]
          /\ UNCHANGED <<turn, made>>
       \/ /\ user.cmd = "new" /\ User("quiet") /\ UNCHANGED <<watch, mon, turn, made>>
    /\ UNCHANGED <<config, lives, on, store, claim, closed, live, past>>

Joined == user.join # 0 => Done(user.join)

Join ==
    /\ user.at = "join" /\ Joined
    /\ user' = [user EXCEPT !.at = "body", !.join = 0]
    /\ UNCHANGED <<config, lives, on, store, watcher, turn, made, past>>

TurnEnds == user.at = "turn" /\ turn.at = "idle" /\ user' = Idle
            /\ UNCHANGED <<config, lives, on, store, watcher, turn, made, past>>

(* Resume.                                                                  *)
LiftPause ==
    /\ user.at = "body" /\ user.cmd = "resume"
    /\ \/ /\ paused # 0
          /\ run' = Journaled(paused) /\ paused' = 0 /\ SaveNow
          /\ claim' = "run" /\ mon' = Outdated
          /\ Hand(0, paused, "none") /\ User("turn")
       \/ /\ paused = 0 /\ Saved(run) /\ claim # "run"
          /\ claim' = "run" /\ mon' = Outdated
          /\ Hand(0, run.at, "none") /\ User("turn")
          /\ UNCHANGED store
       \/ /\ paused = 0 /\ ~(Saved(run) /\ claim # "run")
          /\ user' = Idle /\ UNCHANGED <<store, claim, mon, turn>>
    /\ UNCHANGED <<config, lives, on, closed, live, watch, made, past>>

(* DiscardPending.                                                          *)
DiscardPending ==
    /\ user.at = "body" /\ user.cmd = "discard"
    /\ user' = Idle
    /\ IF ~Live(run) /\ paused = 0
       THEN UNCHANGED <<store, claim, mon, dropped>>
       ELSE /\ run' = [(IF Live(run) THEN run ELSE NewRun(inputOf[paused]))
                          EXCEPT !.phase = "stopped"]
            /\ paused' = 0 /\ SaveNow
            /\ claim' = "run"
            /\ mon' = [m \in Slot |-> IF Done(m) /\ ~Left(m)
                                      THEN [Outdated[m] EXCEPT !.stopped = TRUE, !.discarded = TRUE]
                                      ELSE Outdated[m]]
            /\ dropped' = dropped \cup ({paused, run.at} \ {0})
    /\ UNCHANGED <<config, lives, on, closed, live, watch, turn, made, begun, left>>

(* ContinueOn: a switch may take long; the monitor is stopped once more     *)
(* when one has taken.  The request goes to RunTurn without a claim.        *)
Switch ==
    /\ user.at = "body" /\ user.cmd = "continue"
    /\ \/ paused = 0 /\ user' = Idle /\ UNCHANGED <<watch, mon>>
       \/ paused # 0 /\ user' = Idle /\ Arm(paused, mon)
       \/ paused # 0 /\ StopMonitor
          /\ user' = [user EXCEPT !.at = "again", !.join = watch, !.point = paused]
    /\ UNCHANGED <<config, lives, on, store, claim, closed, live, turn, made, past>>

Switched ==
    /\ user.at = "again" /\ Joined
    /\ paused' = 0 /\ UNCHANGED run /\ SaveNow
    /\ Hand(0, user.point, "none")
    /\ user' = [Idle EXCEPT !.at = "turn"]
    /\ UNCHANGED <<config, lives, on, watcher, made, past>>

(* ReplaceSession.                                                          *)
New ==
    /\ user.at = "quiet" /\ ~live /\ AllGone
    /\ paused' = 0 /\ run' = NoRun /\ disk' = Now(0, NoRun)
    /\ claim' = "none" /\ live' = ~closed
    /\ left' = 1..points
    /\ user' = Idle
    /\ UNCHANGED <<config, lives, on, closed, watch, mon, turn, made, begun, dropped>>

(* The surface ends: closeResume, and Agent.Close.                          *)
Close ==
    /\ user.at = "leaving" /\ (config.surface = "screen" => turn.at = "idle")
    /\ closed' = TRUE /\ live' = FALSE /\ watch' = 0 /\ mon' = CancelAll /\ CancelDelivered
    /\ user' = [user EXCEPT !.at = "closing", !.join = watch]
    /\ UNCHANGED <<config, lives, on, store, claim, made, past>>

Off == /\ on' = FALSE
       /\ claim' = "none" /\ closed' = FALSE /\ live' = FALSE /\ watch' = 0
       /\ mon' = [m \in Slot |-> NoMonitor] /\ turn' = NoTurn /\ user' = Idle
       /\ UNCHANGED <<config, lives, paused, run, made, past>>

Exit ==
    /\ user.at = "closing" /\ Joined /\ turn.at = "idle"
    /\ \A m \in Slot : Left(m)
    /\ disk' = Now(paused, run)
    /\ Off

Crash ==
    /\ "crash" \in config.faults /\ on
    /\ UNCHANGED disk
    /\ Off

(* The session is opened again: WatchPauses.  A run that was handed over    *)
(* and never started is paused again.                                       *)
Open ==
    /\ ~on /\ lives < MaxLives
    /\ on' = TRUE /\ lives' = lives + 1 /\ live' = TRUE
    /\ run' = disk.run
    /\ paused' = IF disk.paused = 0 /\ Saved(run') /\ run'.limit THEN run'.at ELSE disk.paused
    /\ disk' = Now(paused', run')
    /\ IF config.policy = "auto" /\ paused' # 0
       THEN watch' = 1 /\ mon' = [mon EXCEPT ![1] = [NoMonitor EXCEPT !.at = "wait", !.pause = paused']]
       ELSE UNCHANGED <<watch, mon>>
    /\ UNCHANGED <<config, claim, closed, turn, user, made, past>>

-----------------------------------------------------------------------------

(* A session nothing has been asked of, or one of before there were runs,   *)
(* paused on a request.                                                     *)
Old == IF "legacy" \in config.faults THEN {0, 1} ELSE {0}

Init ==
    /\ config \in Configs
    /\ lives = 0 /\ on = FALSE
    /\ points \in Old /\ inputs = points
    /\ inputOf = [b \in {0} \cup Point |-> IF b = 1 THEN points ELSE 0]
    /\ paused = 0 /\ run = NoRun /\ disk = Now(points, NoRun)
    /\ claim = "none" /\ closed = FALSE /\ live = FALSE /\ watch = 0
    /\ mon = [m \in Slot |-> NoMonitor] /\ turn = NoTurn /\ user = Idle
    /\ begun = [b \in Point |-> 0] /\ dropped = {} /\ left = {}

MonitorNext(m) ==
    \/ Probe(m) \/ Cancelled(m) \/ Move(m) \/ Decide(m) \/ SaveDelivery(m)
    \/ OfferLine(m) \/ OfferScreen(m) \/ Decline(m) \/ SaveReturn(m) \/ Leave(m)

TurnNext ==
    \/ Begin \/ CheckPaused \/ Restore \/ Fresh \/ Retire \/ Work \/ Pause
    \/ Stand \/ HopStops \/ Hop \/ HopTakes \/ Finish \/ Release \/ Rearm

Serves ==
    \/ Quiesce \/ Quieted \/ Take \/ Join \/ TurnEnds \/ LiftPause \/ DiscardPending
    \/ Switch \/ Switched \/ New \/ Close \/ Exit

Next ==
    \/ \E m \in Slot : MonitorNext(m)
    \/ TurnNext \/ Interrupt
    \/ \E cmd \in Commands : Type(cmd)
    \/ Serves \/ Crash \/ Open

Spec == Init /\ [][Next]_vars

(* Every goroutine goes on, a call that takes long returns, and a limit     *)
(* that is asked about again and again lifts.  Fairness is strong where a   *)
(* step may have to wait for a lock, which a mutex of Go hands over in the  *)
(* end, and for a slot of the model.  Nothing says that the user types,     *)
(* interrupts or opens the session.                                         *)
Fairness ==
    /\ \A m \in Slot : WF_vars(MonitorNext(m)) /\ SF_vars(Lifted(m))
    /\ SF_vars(TurnNext) /\ SF_vars(Serves)

FairSpec == Spec /\ Fairness

-----------------------------------------------------------------------------
(* Properties.                                                              *)

(* Every variable has its type, and the monitor in charge is one that still *)
(* waits: there is one watch at a time (armResume, resume.go:74-80).        *)
TypeOK ==
    /\ config \in Configs /\ lives \in 0..MaxLives /\ on \in BOOLEAN
    /\ paused \in 0..MaxPoints
    /\ claim \in {"none", "run", "old"} /\ closed \in BOOLEAN /\ live \in BOOLEAN
    /\ watch \in 0..Slots /\ points \in 0..MaxPoints /\ inputs \in 0..MaxInputs
    /\ run.at \in 0..points /\ run.phase \in {"none", "live", "done", "stopped"}
    /\ dropped \subseteq 1..points /\ left \subseteq 1..points
    /\ watch # 0 => ~Done(watch) /\ (live => ~mon[watch].stopped)

(* Work starts from a saved boundary once: however a delivery, a typed      *)
(* request and the commands that resume race for it, its request is not     *)
(* sent to the model again (agent.go:1484-1486, resume.go:226-228).         *)
SentOnce == \A b \in Point : begun[b] <= 1

(* An unfinished run that nobody delivers or runs can be had: it is paused, *)
(* or /resume finds its claim free.                                         *)
Abandoned == /\ on /\ Saved(run) /\ turn.at = "idle" /\ user.at = "idle"
             /\ \A m \in Slot : mon[m].at \notin {"deliver", "offer", "running", "declined"}
StillReachable == Abandoned => paused # 0 \/ claim # "run"

(* A request that was abandoned is not paused again, and nothing of it runs *)
(* (resume.go:275-281).                                                     *)
DiscardStands == [][paused' \notin dropped /\ \A b \in dropped : begun'[b] = begun[b]]_vars

(* /new leaves nothing behind: neither the pause, the run nor a monitor is  *)
(* of a session that it replaced (new_session.go:16-19).                    *)
OfThisSession ==
    /\ paused \notin left /\ run.at \notin left
    /\ \A m \in Slot : mon[m].at # "gone" => mon[m].pause \notin left

(* What the user put an end to stays ended.                                 *)
StaysEnded == DiscardStands /\ []OfThisSession

(* What the user asked for ends: a command does not wait for ever for the   *)
(* deliveries it has stopped, nor they for it (resume.go:31-34).            *)
CommandsEnd == user.at # "idle" ~> user.at = "idle" \/ ~on

(* Under the policy auto a pause ends by itself: it is watched, and handed  *)
(* to the surface until a turn runs, unless the session ends, the user is   *)
(* busy with it or has cancelled a turn before it began, which leaves its   *)
(* pause to /resume (resume.go:27-30, 145-155; execution.go:22-24).         *)
ComesBack == (/\ on /\ paused # 0 /\ config.policy = "auto" /\ "cancel" \notin config.faults)
             ~> turn.at # "idle" \/ user.at # "idle" \/ ~live

(* Whoever waits, the user for a command or a pause for its turn, does not  *)
(* wait for ever.                                                           *)
NobodyStuck == CommandsEnd /\ ComesBack
=============================================================================
