----------------------------- MODULE TalkProofs -----------------------------
(***************************************************************************)
(* SentOnConsent, OverlaysAsked, RequestsStand, RowAlive and AnswersOwn:   *)
(* the theorems about what MCTalk checks side by side.                     *)
(***************************************************************************)
EXTENDS Asking, Screen, Spinner, McpPool, TLAPS, FiniteSetTheorems, SequenceTheorems

-----------------------------------------------------------------------------
(***************************************************************************)
(* SentOnConsent for every set of models, every setting and any number of  *)
(* rounds and refusals.                                                    *)
(*                                                                         *)
(* What a session moves to is a free model, or the metered one: after a    *)
(* yes, which is the agreement; by a setting, which the person wrote; or   *)
(* because the limit was settled before, and then for a model that had     *)
(* been agreed to at that time.  And what a vendor may have acted on ends  *)
(* the turn.                                                               *)
(***************************************************************************)

Sessions == [backend : {"plan", "gateway"}, model : Models, pinned : BOOLEAN]

(* The setting that allows it is an agreement to the metered model.         *)
Allowed == setup.onLimit = "switch" \/ setup.onFree = "paid" => setup.metered \in agreed

(* What was settled was agreed to.                                          *)
SettledAgreed == fallback \in Models \cup {""} /\ (fallback # "" => fallback \in agreed)

ConsentInv ==
    /\ setup \in Setups /\ session \in Sessions
    /\ BilledOnConsent
    /\ at # "idle" => ~acted
    /\ at = "prompt" => Metered # ""
    /\ Allowed
    /\ SettledAgreed

-----------------------------------------------------------------------------
LEMMA MeteredModel == setup \in Setups => Metered \in Models \cup {""}
BY SetupsAssumption DEF Metered, Models

LEMMA ConsentStarts == Init => ConsentInv
<1> SUFFICES ASSUME Init PROVE ConsentInv
  OBVIOUS
<1>1. setup \in Setups /\ setup.start \in Models /\ setup.pinned \in BOOLEAN
  BY SetupsAssumption DEF Init
<1>2. session = [backend |-> BackendOf(setup.start), model |-> setup.start,
                 pinned |-> setup.pinned]
      /\ BackendOf(setup.start) \in {"plan", "gateway"}
  BY DEF Init, BackendOf
<1>3. session \in Sessions /\ session.model = setup.start
  BY <1>1, <1>2 DEF Sessions
<1>4. setup.start \in agreed /\ Allowed
  BY DEF Init, Allowed
<1> QED
  BY <1>1, <1>3, <1>4 DEF Init, ConsentInv, BilledOnConsent, SettledAgreed

-----------------------------------------------------------------------------
(* Steps that stay on the session's model.                                  *)
LEMMA ConsentRests ==
    ASSUME ConsentInv, agreed \subseteq agreed', SettledAgreed',
           at' # "idle" => ~acted', at' = "prompt" => Metered' # "",
           UNCHANGED <<setup, session>>
    PROVE  ConsentInv'
BY DEF ConsentInv, BilledOnConsent, Allowed

(* A move to a model that is free or was agreed to.                         *)
LEMMA ConsentMoves ==
    ASSUME ConsentInv, NEW m \in Models, m \notin Billed \/ m \in agreed',
           session' \in Sessions, session'.model = m,
           agreed \subseteq agreed', SettledAgreed',
           at' # "idle" => ~acted', at' = "prompt" => Metered' # "", setup' = setup
    PROVE  ConsentInv'
BY DEF ConsentInv, BilledOnConsent, Allowed

(* moveToMetered, for a model that was agreed to.                           *)
LEMMA ConsentMoveTo ==
    ASSUME ConsentInv, at # "idle", NEW m \in Models, m \in agreed', MoveTo(m),
           agreed \subseteq agreed', SettledAgreed', UNCHANGED <<setup, acted>>
    PROVE  ConsentInv'
<1>1. session' = [session EXCEPT !.model = m,
                                 !.backend = IF setup.client THEN "gateway" ELSE @]
  BY DEF MoveTo
<1>2. session' \in Sessions /\ session'.model = m /\ at' = "attempt"
  BY <1>1 DEF MoveTo, ConsentInv, Sessions
<1> QED
  BY <1>2, ConsentMoves DEF ConsentInv

-----------------------------------------------------------------------------
(* The person: a turn, /model, /new, and the registry.                      *)
LEMMA ConsentPerson ==
    ASSUME ConsentInv, Begin \/ NewSession \/ (\E m \in Models : PickModel(m) \/ Lift(m))
    PROVE  ConsentInv'
<1>1. CASE Begin
  BY <1>1, ConsentRests DEF Begin, ConsentInv, SettledAgreed, limit
<1>2. CASE NewSession
  BY <1>2, ConsentRests DEF NewSession, ConsentInv, SettledAgreed
<1>3. ASSUME NEW m \in Models, PickModel(m) PROVE ConsentInv'
  <2>1. session' \in Sessions /\ session'.model = m
    BY <1>3 DEF PickModel, BackendOf, Sessions
  <2> QED
    BY <1>3, <2>1, ConsentMoves DEF PickModel, ConsentInv, SettledAgreed, limit
<1>4. ASSUME NEW m \in Models, Lift(m) PROVE ConsentInv'
  <2>1. UNCHANGED <<setup, session, fallback, at, call, acted, agreed>>
    BY <1>4 DEF Lift, limit
  <2>2. Metered' = Metered /\ SettledAgreed'
    BY <2>1 DEF Metered, SettledAgreed, ConsentInv
  <2> QED
    BY <2>1, <2>2, ConsentRests DEF ConsentInv
<1> QED
  BY <1>1, <1>2, <1>3, <1>4

(* The attempts.  A vendor's turn that may have been acted on is over.      *)
LEMMA ConsentAttempts ==
    ASSUME ConsentInv,
           Ask \/ Attempt \/ Answered \/ WithCalls \/ (\E why, proof : Refused(why, proof))
    PROVE  ConsentInv'
<1>1. CASE Ask \/ Attempt \/ Answered \/ WithCalls
  <2>1. /\ at # "idle" /\ at' # "prompt"
        /\ UNCHANGED <<setup, session, fallback, acted, agreed>>
    BY <1>1 DEF Ask, Attempt, Answered, WithCalls, limit
  <2> QED
    BY <2>1, ConsentRests DEF ConsentInv, SettledAgreed
<1>2. ASSUME NEW why, NEW proof, Refused(why, proof) PROVE ConsentInv'
  <2>1. (at' # "idle" => ~acted') /\ at' # "prompt"
    BY <1>2 DEF Refused, Refusals, Heard, ConsentInv
  <2>2. SettledAgreed' /\ agreed' = agreed /\ UNCHANGED <<setup, session>>
    BY <1>2 DEF Refused, Heard, ConsentInv, SettledAgreed, limit
  <2> QED
    BY <2>1, <2>2, ConsentRests
<1> QED
  BY <1>1, <1>2

(* An allowance that ran out.                                               *)
LEMMA ConsentAllowance ==
    ASSUME ConsentInv, Settled \/ Forbidden \/ Switch \/ Prompt \/ Yes \/ No
    PROVE  ConsentInv'
<1>1. CASE Settled /\ fallback \in {"", call.model}
  BY <1>1, ConsentRests DEF Settled, Stop, ConsentInv, SettledAgreed, limit
<1>2. CASE Settled /\ fallback \notin {"", call.model}
  BY <1>2, ConsentMoveTo DEF Settled, ConsentInv, SettledAgreed, limit
<1>3. CASE Forbidden \/ No
  BY <1>3, ConsentRests DEF Forbidden, No, Settle, Stop, ConsentInv, SettledAgreed
<1>4. CASE Prompt
  BY <1>4, ConsentRests DEF Prompt, ConsentInv, SettledAgreed, Metered, limit
<1>5. CASE Switch
  <2>1. Metered \in Models /\ Metered = setup.metered /\ Metered \in agreed
    BY <1>5, MeteredModel DEF Switch, Metered, ConsentInv, Allowed
  <2>2. fallback' = Metered /\ MoveTo(Metered) /\ agreed' = agreed /\ at # "idle"
        /\ UNCHANGED <<setup, acted>>
    BY <1>5 DEF Switch, Settle
  <2>3. SettledAgreed'
    BY <2>1, <2>2 DEF SettledAgreed
  <2> QED
    BY <2>1, <2>2, <2>3, ConsentMoveTo
<1>6. CASE Yes
  <2>1. fallback' = Metered /\ MoveTo(Metered) /\ agreed' = agreed \cup {Metered}
        /\ at # "idle" /\ UNCHANGED <<setup, acted>>
    BY <1>6 DEF Yes, Settle
  <2>2. Metered \in Models
    BY <1>6, MeteredModel DEF Yes, ConsentInv
  <2>3. SettledAgreed'
    BY <2>1, <2>2 DEF SettledAgreed
  <2> QED
    BY <2>1, <2>2, <2>3, ConsentMoveTo
<1> QED
  BY <1>1, <1>2, <1>3, <1>4, <1>5, <1>6

(* A rate limit: another free model, the metered one by the setting, or     *)
(* none.                                                                    *)
LEMMA ConsentLimits ==
    ASSUME ConsentInv,
           NothingSubstituted \/ Rotate \/ Exhausted \/ TooLong \/ Retry \/ GiveUp
    PROVE  ConsentInv'
<1>1. CASE NothingSubstituted \/ TooLong \/ Retry \/ GiveUp
  <2>1. /\ acted' = acted /\ at # "idle" /\ agreed' = agreed /\ at' \in {"idle", "attempt"}
        /\ UNCHANGED <<setup, session, fallback>>
    BY <1>1 DEF NothingSubstituted, TooLong, Retry, GiveUp, Stop, Rests, Limited, Waits, limit
  <2> QED
    BY <2>1, ConsentRests DEF ConsentInv, SettledAgreed
<1>2. CASE Rotate
  <2>1. PICK i \in Candidates : session' = [session EXCEPT !.model = setup.free[i]]
    BY <1>2 DEF Rotate
  <2>2. setup.free[i] \in Free
    <3>1. i \in DOMAIN setup.free
      BY <2>1 DEF Candidates
    <3>2. setup.free \in Seq(Free)
      BY SetupsAssumption DEF ConsentInv
    <3> QED
      BY <3>1, <3>2
  <2>3. setup.free[i] \in Models /\ setup.free[i] \notin Billed
    BY <2>2, ModelsAssumption DEF Models
  <2>4. session' \in Sessions /\ session'.model = setup.free[i]
    BY <2>1, <2>3 DEF ConsentInv, Sessions
  <2>5. /\ at' = "attempt" /\ acted' = acted /\ at # "idle" /\ agreed' = agreed
        /\ setup' = setup /\ fallback' = fallback
    BY <1>2 DEF Rotate, Limited, Rests, limit
  <2> QED
    BY <2>3, <2>4, <2>5, ConsentMoves DEF ConsentInv, SettledAgreed
<1>3. CASE Exhausted
  <2>1. /\ acted' = acted /\ at # "idle" /\ agreed' = agreed
        /\ setup' = setup /\ fallback' = fallback /\ SettledAgreed'
    BY <1>3 DEF Exhausted, Spent, Limited, Rests, limit, ConsentInv, SettledAgreed
  <2>2. CASE MayPay
    <3>1. Metered \in Models /\ Metered = setup.metered /\ Metered \in agreed
      BY <2>2, MeteredModel DEF MayPay, Metered, ConsentInv, Allowed
    <3>2. MoveTo(Metered)
      BY <1>3, <2>2 DEF Exhausted
    <3> QED
      BY <2>1, <3>1, <3>2, ConsentMoveTo
  <2>3. CASE ~MayPay
    <3>1. at' = "idle" /\ session' = session
      BY <1>3, <2>3 DEF Exhausted, Stop
    <3> QED
      BY <2>1, <3>1, ConsentRests
  <2> QED
    BY <2>2, <2>3
<1> QED
  BY <1>1, <1>2, <1>3

LEMMA ConsentStep == ConsentInv /\ [Next]_vars => ConsentInv'
<1> SUFFICES ASSUME ConsentInv, [Next]_vars PROVE ConsentInv'
  OBVIOUS
<1>1. CASE Works
  BY <1>1, ConsentAttempts, ConsentAllowance, ConsentLimits DEF Works
<1>2. CASE UNCHANGED vars
  BY <1>2, ConsentRests DEF vars, ConsentInv, SettledAgreed, Metered
<1> QED
  BY <1>1, <1>2, ConsentPerson DEF Next

(* No billed model without the person's consent, and nothing sent again     *)
(* that a vendor may have acted on.                                         *)
THEOREM AskingSentOnConsent == Spec => []SentOnConsent
<1>1. ConsentInv => SentOnConsent
  BY DEF ConsentInv, SentOnConsent, NeverReplayed
<1> QED
  BY <1>1, ConsentStarts, ConsentStep, PTL DEF Spec

-----------------------------------------------------------------------------
(***************************************************************************)
(* OverlaysAsked and RequestsStand for any set of workers and any number   *)
(* of requests and of questions, and RowAlive for any number of workers    *)
(* and of activities.                                                      *)
(*                                                                         *)
(* The guard of a new overlay lets one open over the masked line, so that  *)
(* one overlay at a time rests on who may ask: only a command's own        *)
(* goroutine has the masked line, and it is the one that waits.  That      *)
(* again rests on the turn not changing under a worker that waits, which   *)
(* is why the composer must be busy exactly while a turn runs.             *)
(*                                                                         *)
(* The requests that were typed are those that were sent, the one that     *)
(* waits and those given up, and no two of these have one in common.       *)
(*                                                                         *)
(* An animator serves the row exactly while `animating` says so and it is  *)
(* the newest: that is what a start relies on when it starts no other, and *)
(* what retireIfIdle keeps by leaving and clearing the flag in one holding *)
(* of the mutex.                                                           *)
(***************************************************************************)

Lives == {"", "ready", "failed", "exit", "interrupted"}

Turns == [n : Nat, kind : Kinds \cup {""}, stopped : BOOLEAN, life : Lives]
Lines == [busy : BOOLEAN, queued : Nat, armed : BOOLEAN]

Shapes == going \in Turns /\ line \in Lines /\ typed \in Nat

PeopleShapes ==
    /\ worker \in [Workers -> [at : {"away", "waits", "told"}, on : Overlays \cup {"", "child"}]]
    /\ slot \in [Overlays -> Workers \cup {NoOne}]
    /\ shown \in [Overlays -> BOOLEAN]
    /\ attached \in Workers \cup {NoOne}

BusyTurn == line.busy <=> going.n # 0

ChildAttached ==
    \A w \in Workers : attached = w <=> (worker[w].at = "waits" /\ worker[w].on = "child")

SecretOfCommand == slot["secret"] # NoOne => slot["secret"] = "main" /\ going.kind = "command"

WorkersOfTurn == going.n = 0 \/ going.life # "" => \A w \in Workers : worker[w].at = "away"

PeopleInv == PeopleShapes /\ OverlaysAsked /\ ChildAttached

ScreenInv == Shapes /\ BusyTurn /\ PeopleInv /\ SecretOfCommand /\ WorkersOfTurn

SameTurn == going'.n = going.n /\ going'.kind = going.kind /\ going'.life = going.life

-----------------------------------------------------------------------------
LEMMA ScreenStarts == ScreenInit => ScreenInv
<1> SUFFICES ASSUME ScreenInit PROVE ScreenInv
  OBVIOUS
<1>1. Shapes /\ BusyTurn
  BY DEF ScreenInit, Shapes, BusyTurn, NoTurn, Turns, Lines, Lives
<1>2. PeopleShapes
  BY DEF ScreenInit, PeopleShapes, Overlays
<1>3. OverlaysAsked /\ ChildAttached /\ SecretOfCommand /\ WorkersOfTurn
  BY WorkersAssumption
     DEF ScreenInit, OverlaysAsked, ChildAttached, SecretOfCommand, WorkersOfTurn, Overlays, NoOne
<1> QED
  BY <1>1, <1>2, <1>3 DEF ScreenInv, PeopleInv

(* What the people wait for does not change.                                *)
LEMMA PeopleRest == ASSUME PeopleInv, UNCHANGED people PROVE PeopleInv'
<1>1. UNCHANGED <<slot, shown, attached, worker>>
  BY DEF people
<1>2. PeopleShapes'
  BY <1>1 DEF PeopleInv, PeopleShapes
<1>3. OverlaysAsked'
  <2>1. \A o \in Overlays : shown'[o] <=> slot'[o] # NoOne
    BY <1>1 DEF PeopleInv, OverlaysAsked
  <2>2. \A o \in Overlays, w \in Workers :
            slot'[o] = w <=> (worker'[w].at = "waits" /\ worker'[w].on = o)
    BY <1>1 DEF PeopleInv, OverlaysAsked
  <2>3. \A o, p \in Overlays : shown'[o] /\ shown'[p] => o = p
    BY <1>1 DEF PeopleInv, OverlaysAsked
  <2>4. attached' # NoOne => \A o \in Overlays : ~shown'[o]
    BY <1>1 DEF PeopleInv, OverlaysAsked
  <2> QED
    BY <2>1, <2>2, <2>3, <2>4 DEF OverlaysAsked
<1>4. ChildAttached'
  BY <1>1 DEF PeopleInv, ChildAttached
<1> QED
  BY <1>2, <1>3, <1>4 DEF PeopleInv

(* With the same turn nothing depends on the rest.                          *)
LEMMA ScreenRests ==
    ASSUME ScreenInv, UNCHANGED people, SameTurn, Shapes', line'.busy = line.busy
    PROVE  ScreenInv'
<1>1. PeopleInv'
  BY PeopleRest DEF ScreenInv
<1> QED
  BY <1>1 DEF ScreenInv, SameTurn, BusyTurn, SecretOfCommand, WorkersOfTurn, people

(* The turn changes, which it does with nobody away from it.                *)
LEMMA ScreenTurns ==
    ASSUME ScreenInv, UNCHANGED people, \A w \in Workers : worker[w].at = "away",
           Shapes', BusyTurn'
    PROVE  ScreenInv'
<1>1. PeopleInv'
  BY PeopleRest DEF ScreenInv
<1>2. slot["secret"] = NoOne
  BY DEF ScreenInv, PeopleInv, PeopleShapes, OverlaysAsked, Overlays
<1> QED
  BY <1>1, <1>2 DEF ScreenInv, SecretOfCommand, WorkersOfTurn, people

(* The people move, under the same turn.                                    *)
LEMMA ScreenPeople ==
    ASSUME ScreenInv, SameTurn, Shapes', line' = line, PeopleInv',
           SecretOfCommand', WorkersOfTurn'
    PROVE  ScreenInv'
BY DEF ScreenInv, SameTurn, BusyTurn

LEMMA StopsSameTurn == ASSUME Shapes, Stops PROVE SameTurn /\ going' \in Turns
BY DEF Shapes, Stops, SameTurn, Turns

LEMMA StartsTurn ==
    ASSUME NEW n \in Nat \ {0}, NEW r, NEW after \in Lines, after.busy, Starts(n, r, after),
           typed' \in Nat
    PROVE  Shapes' /\ BusyTurn'
<1>1. PICK k \in Kinds : going' = [NoTurn EXCEPT !.n = n, !.kind = k]
  BY DEF Starts
<1>2. going' = [n |-> n, kind |-> k, stopped |-> FALSE, life |-> ""]
  BY <1>1 DEF NoTurn
<1>3. going' \in Turns /\ going'.n # 0
  BY <1>2 DEF Turns, Lives
<1> QED
  BY <1>3 DEF Starts, Shapes, BusyTurn

LEMMA NoTurnShape == NoTurn \in Turns /\ NoTurn.n = 0
BY DEF NoTurn, Turns, Lives

LEMMA LineShapes ==
    ASSUME NEW l \in Lines, NEW q \in Nat
    PROVE  /\ Begun(l) \in Lines /\ Begun(l).busy
           /\ [l EXCEPT !.queued = q] \in Lines /\ [l EXCEPT !.queued = q].busy = l.busy
           /\ [l EXCEPT !.armed = FALSE] \in Lines /\ [l EXCEPT !.armed = FALSE].busy = l.busy
           /\ [l EXCEPT !.armed = TRUE] \in Lines /\ [l EXCEPT !.armed = TRUE].busy = l.busy
           /\ [l EXCEPT !.busy = FALSE] \in Lines /\ ~[l EXCEPT !.busy = FALSE].busy
BY DEF Begun, Lines

LEMMA DisarmedShape ==
    ASSUME Shapes PROVE Disarmed \in Lines /\ Disarmed.busy = line.busy
BY LineShapes DEF Disarmed, Shapes

-----------------------------------------------------------------------------
(* The turn, and the surface.                                               *)
LEMMA ScreenTurn ==
    ASSUME ScreenInv,
           (\E life \in {"ready", "failed", "exit"} : TurnReturns(life))
             \/ TurnFinishes \/ HearsExit \/ ShutsDown \/ Closes \/ Delivers
    PROVE  ScreenInv'
<1>1. ASSUME NEW life \in {"ready", "failed", "exit"}, TurnReturns(life) PROVE ScreenInv'
  <2>1. Shapes' /\ BusyTurn'
    BY <1>1 DEF TurnReturns, ScreenInv, Shapes, BusyTurn, Turns, Lives
  <2> QED
    BY <1>1, <2>1, ScreenTurns DEF TurnReturns
<1>2. CASE TurnFinishes
  <2>1. UNCHANGED people /\ typed' = typed /\ \A w \in Workers : worker[w].at = "away"
    BY <1>2 DEF TurnFinishes, ScreenInv, WorkersOfTurn
  <2>2. Shapes' /\ BusyTurn'
    <3> DEFINE emptied == [line EXCEPT !.queued = 0]
    <3>1. line \in Lines /\ typed' \in Nat /\ line.queued \in Nat
      BY <2>1 DEF ScreenInv, Shapes, Lines
    <3>2. Begun(emptied) \in Lines /\ Begun(emptied).busy
      BY <3>1, LineShapes
    <3>3. CASE Sends /\ surface # "closing" /\ line.queued # 0
      <4>1. Starts(line.queued, Cleared(runs), Begun(emptied))
        BY <1>2, <3>3 DEF TurnFinishes
      <4> QED
        BY <3>1, <3>2, <3>3, <4>1, StartsTurn
    <3>4. CASE ~(Sends /\ surface # "closing" /\ line.queued # 0)
      <4>1. going' = NoTurn /\ line' = [line EXCEPT !.busy = FALSE]
        BY <1>2, <3>4 DEF TurnFinishes
      <4>2. line' \in Lines /\ ~line'.busy
        BY <3>1, <4>1, LineShapes
      <4> QED
        BY <3>1, <4>1, <4>2, NoTurnShape DEF Shapes, BusyTurn
    <3> QED
      BY <3>3, <3>4
  <2> QED
    BY <2>1, <2>2, ScreenTurns
<1>3. CASE HearsExit \/ Closes
  BY <1>3, ScreenRests DEF HearsExit, Closes, ScreenInv, Shapes, SameTurn
<1>4. CASE ShutsDown
  BY <1>4, ScreenRests, StopsSameTurn DEF ShutsDown, ScreenInv, Shapes
<1>5. CASE Delivers
  <2>1. UNCHANGED people /\ \A w \in Workers : worker[w].at = "away"
    BY <1>5 DEF Delivers, ScreenInv, WorkersOfTurn
  <2>2. Shapes' /\ BusyTurn'
    <3>1. typed + 1 \in Nat \ {0} /\ typed' = typed + 1
          /\ Starts(typed + 1, Cleared(runs), Begun(line))
      BY <1>5 DEF Delivers, ScreenInv, Shapes
    <3> QED
      BY <3>1, StartsTurn, LineShapes DEF ScreenInv, Shapes
  <2> QED
    BY <2>1, <2>2, ScreenTurns
<1> QED
  BY <1>1, <1>2, <1>3, <1>4, <1>5

(* Keys to the composer and the view, and what the agents show.             *)
LEMMA ScreenKeys ==
    ASSUME ScreenInv,
           Submits \/ Interrupts \/ Quits \/ Types \/ Views \/ LeavesView
             \/ AgentWorks \/ WindowCloses
    PROVE  ScreenInv'
<1>1. CASE Submits /\ line.busy
  <2>1. typed + 1 \in Nat /\ typed' = typed + 1 /\ UNCHANGED <<people, going>>
        /\ line' = [Disarmed EXCEPT !.queued = typed + 1]
    BY <1>1 DEF Submits, ScreenInv, Shapes
  <2>2. line' \in Lines /\ line'.busy = line.busy
    BY <2>1, DisarmedShape, LineShapes DEF ScreenInv
  <2> QED
    BY <2>1, <2>2, ScreenRests DEF ScreenInv, Shapes, SameTurn
<1>2. CASE Submits /\ ~line.busy
  <2>1. UNCHANGED people /\ \A w \in Workers : worker[w].at = "away"
    BY <1>2 DEF Submits, ScreenInv, BusyTurn, WorkersOfTurn
  <2>2. Shapes' /\ BusyTurn'
    <3>1. typed + 1 \in Nat \ {0} /\ typed' = typed + 1
          /\ Starts(typed + 1, runs, Begun(Disarmed))
      BY <1>2 DEF Submits, ScreenInv, Shapes
    <3> QED
      BY <3>1, StartsTurn, DisarmedShape, LineShapes DEF ScreenInv
  <2> QED
    BY <2>1, <2>2, ScreenTurns
<1>3. CASE Interrupts
  <2>1. UNCHANGED people /\ SameTurn /\ Shapes' /\ line'.busy = line.busy
    <3>1. line \in Lines /\ 0 \in Nat
      BY DEF ScreenInv, Shapes
    <3>2. line' \in Lines /\ line'.busy = line.busy
      <4>1. line' = line \/ line' = [line EXCEPT !.queued = 0] \/ line' = [line EXCEPT !.armed = TRUE]
        BY <1>3 DEF Interrupts
      <4> QED
        BY <3>1, <4>1 DEF Lines
    <3>3. SameTurn /\ going' \in Turns
      BY <1>3, StopsSameTurn DEF Interrupts, ScreenInv, Shapes, SameTurn
    <3>4. UNCHANGED people /\ typed' = typed
      BY <1>3 DEF Interrupts
    <3> QED
      BY <3>2, <3>3, <3>4 DEF ScreenInv, Shapes
  <2> QED
    BY <2>1, ScreenRests
<1>4. CASE Quits \/ Types
  BY <1>4, ScreenRests, DisarmedShape DEF Quits, Types, ScreenInv, Shapes, SameTurn
<1>5. CASE Views \/ LeavesView \/ AgentWorks \/ WindowCloses
  BY <1>5, ScreenRests DEF Views, LeavesView, AgentWorks, WindowCloses, ScreenInv, Shapes, SameTurn
<1> QED
  BY <1>1, <1>2, <1>3, <1>4, <1>5

-----------------------------------------------------------------------------
(* What an answer, a question and a child do to the people: each time one   *)
(* worker changes its place, and what it waits on with it.                  *)

WorkerPlaces == [at : {"away", "waits", "told"}, on : Overlays \cup {"", "child"}]

(* An overlay is closed, and whoever waits on it does not any more.         *)
LEMMA OverlayCloses ==
    ASSUME PeopleInv, NEW o \in Overlays,
           shown' = [shown EXCEPT ![o] = FALSE], slot' = [slot EXCEPT ![o] = NoOne],
           attached' = attached, worker' \in [Workers -> WorkerPlaces],
           \A v \in Workers : /\ slot[o] = v => worker'[v].at # "waits"
                              /\ slot[o] # v => worker'[v] = worker[v]
    PROVE  PeopleInv'
<1>1. /\ slot \in [Overlays -> Workers \cup {NoOne}] /\ shown \in [Overlays -> BOOLEAN]
      /\ attached \in Workers \cup {NoOne} /\ NoOne \notin Workers
  BY WorkersAssumption DEF PeopleInv, PeopleShapes, NoOne
<1>2. PeopleShapes'
  BY <1>1 DEF PeopleShapes, WorkerPlaces
<1>3. /\ ~shown'[o] /\ slot'[o] = NoOne
      /\ \A p \in Overlays : p # o => (shown'[p] <=> shown[p]) /\ slot'[p] = slot[p]
  BY <1>1
<1>4. \A p \in Overlays : shown'[p] <=> slot'[p] # NoOne
  <2> TAKE p \in Overlays
  <2>1. CASE p = o
    BY <1>3, <2>1
  <2>2. CASE p # o
    BY <1>3, <2>2 DEF PeopleInv, OverlaysAsked
  <2> QED
    BY <2>1, <2>2
<1>5. \A p \in Overlays, w \in Workers :
          slot'[p] = w <=> (worker'[w].at = "waits" /\ worker'[w].on = p)
  <2> TAKE p \in Overlays, w \in Workers
  <2>1. slot[p] = w <=> (worker[w].at = "waits" /\ worker[w].on = p)
    BY DEF PeopleInv, OverlaysAsked
  <2>2. slot[o] = w => (worker[w].at = "waits" /\ worker[w].on = o)
    BY DEF PeopleInv, OverlaysAsked
  <2>3. CASE p = o
    BY <1>1, <1>3, <2>1, <2>3
  <2>4. CASE p # o
    BY <1>3, <2>1, <2>2, <2>4
  <2> QED
    BY <2>3, <2>4
<1>6. \A p, q \in Overlays : shown'[p] /\ shown'[q] => p = q
  BY <1>3 DEF PeopleInv, OverlaysAsked
<1>7. attached' # NoOne => \A p \in Overlays : ~shown'[p]
  BY <1>3 DEF PeopleInv, OverlaysAsked
<1>8. ChildAttached'
  <2> SUFFICES ASSUME NEW w \in Workers
               PROVE  attached = w <=> (worker'[w].at = "waits" /\ worker'[w].on = "child")
    BY DEF ChildAttached
  <2>1. attached = w <=> (worker[w].at = "waits" /\ worker[w].on = "child")
    BY DEF PeopleInv, ChildAttached
  <2>2. slot[o] = w => worker[w].on = o /\ o # "child"
    BY DEF PeopleInv, OverlaysAsked, Overlays
  <2> QED
    BY <2>1, <2>2
<1> QED
  BY <1>2, <1>4, <1>5, <1>6, <1>7, <1>8 DEF PeopleInv, OverlaysAsked

(* An answer: the worker is told.                                           *)
LEMMA RepliesPeople ==
    ASSUME PeopleInv, NEW o \in Overlays, Replies(o)
    PROVE  PeopleInv'
<1>1. /\ shown' = [shown EXCEPT ![o] = FALSE] /\ slot' = [slot EXCEPT ![o] = NoOne]
      /\ worker' = [w \in Workers |-> IF slot[o] = w THEN [worker[w] EXCEPT !.at = "told"]
                                                     ELSE worker[w]]
      /\ attached' = attached
  BY DEF Replies, Closed
<1>2. worker \in [Workers -> WorkerPlaces]
  BY DEF PeopleInv, PeopleShapes, WorkerPlaces
<1>3. \A w \in Workers : /\ slot[o] = w => worker'[w] \in WorkerPlaces /\ worker'[w].at # "waits"
                         /\ slot[o] # w => worker'[w] = worker[w]
  BY <1>1, <1>2 DEF WorkerPlaces
<1>4. worker' \in [Workers -> WorkerPlaces]
  BY <1>1, <1>2 DEF WorkerPlaces
<1> QED
  BY <1>1, <1>3, <1>4, OverlayCloses

(* The one overlay that is open has the keys.                               *)
LEMMA TopIsOpen ==
    ASSUME PeopleInv, NEW o \in Overlays, shown[o]
    PROVE  Top(KeyOrder) = o
<1>1. PICK k \in 1..4 : KeyOrder[k] = o
  BY DEF KeyOrder, Overlays
<1>2. DOMAIN KeyOrder = 1..5 /\ \A i \in 1..4 : KeyOrder[i] \in Overlays
  BY DEF KeyOrder, Overlays
<1>3. \A i \in 1..4 : Open(KeyOrder[i]) => KeyOrder[i] = o
  BY <1>2 DEF Open, Overlays, PeopleInv, OverlaysAsked
<1>4. Open(KeyOrder[k])
  BY <1>1 DEF Open, Overlays
<1> DEFINE First(i) == Open(KeyOrder[i]) /\ \A j \in 1..i - 1 : ~Open(KeyOrder[j])
<1>5. First(k)
  <2>1. \A j \in 1..k - 1 : j \in 1..4 /\ KeyOrder[j] # KeyOrder[k]
    BY <1>1 DEF KeyOrder
  <2> QED
    BY <1>1, <1>3, <1>4, <2>1
<1>6. \A i \in 1..5 : First(i) => KeyOrder[i] = o
  <2> SUFFICES ASSUME NEW i \in 1..5, First(i) PROVE KeyOrder[i] = o
    OBVIOUS
  <2>1. CASE i = 5
    BY <1>4, <2>1
  <2> QED
    BY <1>3, <2>1
<1> HIDE DEF First
<1>7. (CHOOSE i \in DOMAIN KeyOrder : First(i)) \in 1..5 /\ First(CHOOSE i \in DOMAIN KeyOrder : First(i))
  BY <1>2, <1>5
<1>8. KeyOrder[CHOOSE i \in DOMAIN KeyOrder : First(i)] = o
  BY <1>6, <1>7
<1>9. \E i \in DOMAIN KeyOrder : Open(KeyOrder[i])
  BY <1>2, <1>4
<1> QED
  BY <1>8, <1>9 DEF Top, First

(* The context of a worker that waits ends.                                 *)
LEMMA TakesDownPeople ==
    ASSUME PeopleInv, NEW w \in Workers, TakesDown(w)
    PROVE  PeopleInv'
<1> DEFINE o == worker[w].on
<1>1. o \in Overlays /\ worker[w].at = "waits"
  BY DEF TakesDown
<1>2. slot[o] = w /\ shown[o]
  BY <1>1, WorkersAssumption DEF PeopleInv, OverlaysAsked, NoOne
<1>3. Top(KeyOrder) = o
  BY <1>1, <1>2, TopIsOpen
<1>4. /\ shown' = [shown EXCEPT ![o] = FALSE] /\ slot' = [slot EXCEPT ![o] = NoOne]
      /\ attached' = attached /\ worker' = [worker EXCEPT ![w] = [at |-> "away", on |-> ""]]
  BY <1>1, <1>3 DEF TakesDown, Closed
<1>5. worker \in [Workers -> WorkerPlaces] /\ [at |-> "away", on |-> ""] \in WorkerPlaces
  BY DEF PeopleInv, PeopleShapes, WorkerPlaces
<1>6. \A v \in Workers : /\ slot[o] = v => worker'[v].at # "waits"
                         /\ slot[o] # v => worker'[v] = worker[v]
  BY <1>2, <1>4, <1>5
<1>7. worker' \in [Workers -> WorkerPlaces]
  BY <1>4, <1>5
<1> HIDE DEF o
<1> QED
  BY <1>1, <1>4, <1>6, <1>7, OverlayCloses

(* A worker comes and goes that neither waits nor will wait on an overlay,  *)
(* and a child is attached with it.                                         *)
LEMMA WorkerMoves ==
    ASSUME PeopleInv, NEW w \in Workers, NEW place \in WorkerPlaces,
           worker' = [worker EXCEPT ![w] = place], UNCHANGED <<slot, shown>>,
           worker[w].at = "waits" => worker[w].on = "child",
           place.at = "waits" => place.on = "child",
           attached' \in Workers \cup {NoOne},
           attached' # NoOne => \A o \in Overlays : slot[o] = NoOne,
           \A v \in Workers : attached' = v <=> (worker'[v].at = "waits" /\ worker'[v].on = "child")
    PROVE  PeopleInv'
<1>1. worker \in [Workers -> WorkerPlaces] /\ "child" \notin Overlays
  BY DEF PeopleInv, PeopleShapes, WorkerPlaces, Overlays
<1>2. worker' \in [Workers -> WorkerPlaces]
      /\ worker'[w] = place /\ \A v \in Workers : v # w => worker'[v] = worker[v]
  BY <1>1
<1>3. PeopleShapes'
  BY <1>2 DEF PeopleInv, PeopleShapes, WorkerPlaces
<1>4. \A p \in Overlays, v \in Workers :
          slot[p] = v <=> (worker'[v].at = "waits" /\ worker'[v].on = p)
  <2> TAKE p \in Overlays, v \in Workers
  <2>1. slot[p] = v <=> (worker[v].at = "waits" /\ worker[v].on = p)
    BY DEF PeopleInv, OverlaysAsked
  <2>2. CASE v = w
    BY <1>1, <1>2, <2>1, <2>2
  <2>3. CASE v # w
    BY <1>2, <2>1, <2>3
  <2> QED
    BY <2>2, <2>3
<1>5. \A p \in Overlays : shown'[p] <=> slot'[p] # NoOne
  BY DEF PeopleInv, OverlaysAsked
<1>6. \A p, q \in Overlays : shown'[p] /\ shown'[q] => p = q
  BY DEF PeopleInv, OverlaysAsked
<1>7. attached' # NoOne => \A p \in Overlays : ~shown'[p]
  BY <1>5
<1>8. ChildAttached'
  BY DEF ChildAttached
<1>9. \A p \in Overlays, v \in Workers :
          slot'[p] = v <=> (worker'[v].at = "waits" /\ worker'[v].on = p)
  BY <1>4
<1> QED
  BY <1>3, <1>5, <1>6, <1>7, <1>8, <1>9 DEF PeopleInv, OverlaysAsked

(* An overlay is opened when no other is.                                   *)
LEMMA RequestsPeople ==
    ASSUME PeopleInv, NEW w \in Workers, NEW o \in Overlays, Requests(w, o),
           \A p \in Overlays : slot[p] = NoOne
    PROVE  PeopleInv'
<1>1. /\ shown' = [shown EXCEPT ![o] = TRUE] /\ slot' = [slot EXCEPT ![o] = w]
      /\ worker' = [worker EXCEPT ![w] = [at |-> "waits", on |-> o]]
      /\ attached' = attached /\ attached = NoOne /\ worker[w].at = "away"
  BY DEF Requests, MayAsk, MayOpen
<1>2. /\ worker \in [Workers -> [at : {"away", "waits", "told"}, on : Overlays \cup {"", "child"}]]
      /\ slot \in [Overlays -> Workers \cup {NoOne}] /\ shown \in [Overlays -> BOOLEAN]
      /\ attached \in Workers \cup {NoOne} /\ NoOne \notin Workers
  BY WorkersAssumption DEF PeopleInv, PeopleShapes, NoOne
<1>3. PeopleShapes'
  BY <1>1, <1>2 DEF PeopleShapes
<1>4. \A p \in Overlays : ~shown[p]
  BY DEF PeopleInv, OverlaysAsked
<1>5. \A p \in Overlays : shown'[p] <=> slot'[p] # NoOne
  BY <1>1, <1>2, <1>4
<1>6. \A v \in Workers : v # w => worker'[v] = worker[v]
  BY <1>1, <1>2
<1>7. worker'[w].at = "waits" /\ worker'[w].on = o
  BY <1>1, <1>2
<1>8. \A p \in Overlays, v \in Workers :
          slot'[p] = v <=> (worker'[v].at = "waits" /\ worker'[v].on = p)
  <2> TAKE p \in Overlays, v \in Workers
  <2>1. slot[p] = v <=> (worker[v].at = "waits" /\ worker[v].on = p)
    BY DEF PeopleInv, OverlaysAsked
  <2>2. ~(worker[v].at = "waits" /\ worker[v].on = p)
    BY <1>2, <2>1
  <2>3. slot'[o] = w /\ (p # o => slot'[p] = NoOne)
    BY <1>1, <1>2
  <2>4. CASE v = w
    BY <1>2, <1>7, <2>3, <2>4
  <2>5. CASE v # w
    BY <1>2, <1>6, <2>2, <2>3, <2>5
  <2> QED
    BY <2>4, <2>5
<1>9. \A p, q \in Overlays : shown'[p] /\ shown'[q] => p = q
  BY <1>1, <1>2, <1>4
<1>10. ChildAttached'
  BY <1>1, <1>2, <1>6, <1>7 DEF PeopleInv, ChildAttached, Overlays
<1> QED
  BY <1>1, <1>3, <1>5, <1>8, <1>9, <1>10 DEF PeopleInv, OverlaysAsked

-----------------------------------------------------------------------------
(* The keys that answer an overlay.                                         *)
LEMMA ScreenAnswers ==
    ASSUME ScreenInv, NEW o \in Overlays, Answers(o) \/ AnswersStop(o) \/ AnswersExit(o)
    PROVE  ScreenInv'
<1>1. Replies(o) /\ line' = line /\ typed' = typed /\ (Stops \/ going' = going)
  BY DEF Answers, AnswersStop, AnswersExit
<1>2. SameTurn /\ Shapes'
  BY <1>1, StopsSameTurn DEF ScreenInv, Shapes, SameTurn
<1>3. PeopleInv'
  BY <1>1, RepliesPeople DEF ScreenInv
<1>4. slot'["secret"] # NoOne => slot'["secret"] = slot["secret"]
  BY <1>1 DEF Replies, ScreenInv, PeopleInv, PeopleShapes, Overlays
<1>5. SecretOfCommand'
  BY <1>2, <1>4 DEF ScreenInv, SecretOfCommand, SameTurn
<1>6. \A w \in Workers : worker[w].at = "away" => worker'[w].at = "away"
  <2> SUFFICES ASSUME NEW w \in Workers, worker[w].at = "away" PROVE worker'[w].at = "away"
    OBVIOUS
  <2>1. slot[o] # w
    BY DEF ScreenInv, PeopleInv, OverlaysAsked
  <2> QED
    BY <1>1, <2>1 DEF Replies
<1>7. WorkersOfTurn'
  BY <1>2, <1>6 DEF ScreenInv, WorkersOfTurn, SameTurn
<1> QED
  BY <1>1, <1>2, <1>3, <1>5, <1>7, ScreenPeople

(* A worker asks, or gives the terminal to a child.  The one that has the   *)
(* masked line waits, and in its turn no other may ask.                     *)
LEMMA ScreenAsks ==
    ASSUME ScreenInv, NEW w \in Workers,
           (\E o \in Overlays : Requests(w, o)) \/ Attaches(w)
    PROVE  ScreenInv'
<1>1. \A p \in Overlays : slot[p] = w => worker[w].at = "waits"
  BY DEF ScreenInv, PeopleInv, OverlaysAsked
<1>2. ASSUME NEW o \in Overlays, Requests(w, o) PROVE ScreenInv'
  <2>1. SameTurn /\ line' = line /\ Shapes' /\ worker[w].at = "away"
        /\ going.n # 0 /\ going.life = ""
    BY <1>2 DEF Requests, MayAsk, SameTurn, ScreenInv, Shapes
  <2>2. slot["secret"] = NoOne
    BY <1>1, <1>2, <2>1 DEF Requests, CanAsk, ScreenInv, SecretOfCommand, Overlays
  <2>3. \A p \in Overlays : slot[p] = NoOne
    BY <1>2, <2>2 DEF Requests, MayOpen
  <2>4. PeopleInv'
    BY <1>2, <2>3, RequestsPeople DEF ScreenInv
  <2>5. SecretOfCommand'
    <3>1. slot' = [slot EXCEPT ![o] = w] /\ (o = "secret" => w = "main" /\ going.kind = "command")
      BY <1>2 DEF Requests, CanAsk
    <3>2. slot'["secret"] # NoOne => o = "secret" /\ slot'["secret"] = w
      BY <2>2, <3>1 DEF ScreenInv, PeopleInv, PeopleShapes, Overlays
    <3> QED
      BY <2>1, <3>1, <3>2 DEF SecretOfCommand, SameTurn
  <2>6. WorkersOfTurn'
    BY <2>1 DEF WorkersOfTurn, SameTurn
  <2> QED
    BY <2>1, <2>4, <2>5, <2>6, ScreenPeople
<1>3. CASE Attaches(w)
  <2> DEFINE place == [at |-> "waits", on |-> "child"]
  <2>1. SameTurn /\ line' = line /\ Shapes' /\ worker[w].at = "away"
        /\ going.n # 0 /\ going.life = "" /\ w = "main" /\ attached = NoOne /\ attached' = w
        /\ worker' = [worker EXCEPT ![w] = place] /\ UNCHANGED <<slot, shown>>
        /\ \A p \in Overlays \ {"secret"} : slot[p] = NoOne
    BY <1>3 DEF Attaches, MayAsk, SameTurn, ScreenInv, Shapes
  <2>2. slot["secret"] = NoOne
    BY <1>1, <2>1 DEF ScreenInv, SecretOfCommand, Overlays
  <2>3. worker \in [Workers -> WorkerPlaces] /\ place \in WorkerPlaces
    BY DEF ScreenInv, PeopleInv, PeopleShapes, WorkerPlaces
  <2>4. \A v \in Workers : attached' = v <=> (worker'[v].at = "waits" /\ worker'[v].on = "child")
    BY <2>1, <2>3, WorkersAssumption DEF ScreenInv, PeopleInv, ChildAttached, NoOne
  <2> HIDE DEF place
  <2>5. PeopleInv'
    BY <2>1, <2>2, <2>3, <2>4, WorkerMoves DEF ScreenInv, place
  <2>6. SecretOfCommand' /\ WorkersOfTurn'
    BY <2>1, <2>2 DEF SecretOfCommand, WorkersOfTurn, SameTurn
  <2> QED
    BY <2>1, <2>5, <2>6, ScreenPeople
<1> QED
  BY <1>2, <1>3

(* A worker goes on.                                                        *)
LEMMA ScreenWorkers ==
    ASSUME ScreenInv, NEW w \in Workers, WorkerSteps(w)
    PROVE  ScreenInv'
<1> DEFINE away == [at |-> "away", on |-> ""]
<1>1. SameTurn /\ line' = line /\ Shapes' /\ worker' = [worker EXCEPT ![w] = away]
  BY DEF WorkerSteps, Hears, TakesDown, Detaches, SameTurn, ScreenInv, Shapes
<1>2. worker \in [Workers -> WorkerPlaces] /\ away \in WorkerPlaces
  BY DEF ScreenInv, PeopleInv, PeopleShapes, WorkerPlaces
<1>3. \A v \in Workers : worker[v].at = "away" => worker'[v].at = "away"
  BY <1>1, <1>2
<1>4. WorkersOfTurn'
  BY <1>1, <1>3 DEF ScreenInv, WorkersOfTurn, SameTurn
<1>5. slot'["secret"] # NoOne => slot'["secret"] = slot["secret"]
  BY DEF WorkerSteps, Hears, TakesDown, Detaches, ScreenInv, PeopleInv, PeopleShapes, Overlays
<1>6. SecretOfCommand'
  BY <1>1, <1>5 DEF ScreenInv, SecretOfCommand, SameTurn
<1>7. CASE TakesDown(w)
  BY <1>1, <1>4, <1>6, <1>7, TakesDownPeople, ScreenPeople DEF ScreenInv
<1>8. CASE Hears(w) \/ Detaches(w)
  <2>1. UNCHANGED <<slot, shown>> /\ (worker[w].at = "waits" => worker[w].on = "child")
        /\ ((attached' = attached /\ attached # w) \/ (attached' = NoOne /\ attached = w))
    BY <1>8 DEF Hears, Detaches, ScreenInv, PeopleInv, ChildAttached
  <2>2. \A v \in Workers : attached = v <=> (worker[v].at = "waits" /\ worker[v].on = "child")
    BY DEF ScreenInv, PeopleInv, ChildAttached
  <2>3. worker'[w].at # "waits" /\ \A v \in Workers : v # w => worker'[v] = worker[v]
    BY <1>1, <1>2
  <2>4. \A v \in Workers : attached' = v <=> (worker'[v].at = "waits" /\ worker'[v].on = "child")
    BY <2>1, <2>2, <2>3, WorkersAssumption DEF NoOne
  <2>5. attached' \in Workers \cup {NoOne}
        /\ (attached' # NoOne => \A o \in Overlays : slot[o] = NoOne)
    BY <2>1 DEF ScreenInv, PeopleInv, PeopleShapes, OverlaysAsked
  <2>6. away.at # "waits"
    OBVIOUS
  <2> HIDE DEF away
  <2>7. PeopleInv'
    BY <1>1, <1>2, <2>1, <2>4, <2>5, <2>6, WorkerMoves DEF ScreenInv
  <2> QED
    BY <1>1, <1>4, <1>6, <2>7, ScreenPeople
<1> QED
  BY <1>7, <1>8 DEF WorkerSteps

-----------------------------------------------------------------------------
LEMMA ScreenStep == ScreenInv /\ [ScreenNext]_screenVars => ScreenInv'
<1> SUFFICES ASSUME ScreenInv, [ScreenNext]_screenVars PROVE ScreenInv'
  OBVIOUS
<1>1. CASE UNCHANGED screenVars
  BY <1>1, ScreenRests DEF screenVars, people, SameTurn, ScreenInv, Shapes
<1>2. CASE ScreenNext
  BY <1>2, ScreenTurn, ScreenKeys, ScreenAnswers, ScreenAsks, ScreenWorkers DEF ScreenNext
<1> QED
  BY <1>1, <1>2

(* Who waits has its overlay, every overlay has somebody who waits, there   *)
(* is one at a time, and none under a child.                                *)
THEOREM ScreenOverlaysAsked == ScreenSpec => []OverlaysAsked
<1>1. ScreenInv => OverlaysAsked
  BY DEF ScreenInv, PeopleInv
<1> QED
  BY <1>1, ScreenStarts, ScreenStep, PTL DEF ScreenSpec

-----------------------------------------------------------------------------
(* The requests: q waits, t were typed, s ran and g were given up.          *)
One(q) == IF q # 0 THEN {q} ELSE {}

Accounted(q, t, s, g) ==
    q \in Nat /\ t \in Nat /\ 1..t = s \cup g \cup One(q) /\ s \cap g = {} /\ q \notin s \cup g

LEMMA OneMore == ASSUME NEW t \in Nat PROVE 1..(t + 1) = (1..t) \cup {t + 1} /\ t + 1 \notin 1..t
OBVIOUS

LEMMA AskedRuns ==
    ASSUME NEW q, NEW t, NEW s, NEW g, Accounted(q, t, s, g)
    PROVE  Accounted(q, t + 1, s \cup {t + 1}, g)
<1>1. t + 1 \notin s \cup g \cup One(q) /\ q # t + 1
  BY OneMore DEF Accounted, One
<1> QED
  BY <1>1, OneMore DEF Accounted

LEMMA WaitingRuns ==
    ASSUME NEW q, NEW t, NEW s, NEW g, Accounted(q, t, s, g), q # 0
    PROVE  Accounted(0, t, s \cup {q}, g)
BY DEF Accounted, One

LEMMA WaitingGoes ==
    ASSUME NEW q, NEW t, NEW s, NEW g, Accounted(q, t, s, g)
    PROVE  Accounted(0, t, s, g \cup One(q))
<1>1. 0 \notin 1..t /\ 0 \notin One(q)
  BY DEF Accounted, One
<1>2. 1..t = s \cup (g \cup One(q)) \cup One(0)
  BY DEF Accounted, One
<1> QED
  BY <1>1, <1>2 DEF Accounted, One

LEMMA AskedWaits ==
    ASSUME NEW q, NEW t, NEW s, NEW g, Accounted(q, t, s, g)
    PROVE  Accounted(t + 1, t + 1, s, g \cup One(q))
<1>1. t + 1 \notin s \cup g \cup One(q) /\ t + 1 # 0
  BY OneMore DEF Accounted, One
<1>2. One(t + 1) = {t + 1}
  BY <1>1 DEF One
<1>3. 1..(t + 1) = s \cup (g \cup One(q)) \cup One(t + 1)
  BY <1>2, OneMore DEF Accounted
<1> QED
  BY <1>1, <1>3 DEF Accounted, One

RequestsAccounted == Accounted(line.queued, typed, sent, gone)

LEMMA RequestsRest ==
    ASSUME RequestsAccounted, line'.queued = line.queued, UNCHANGED <<typed, sent, gone>>
    PROVE  RequestsAccounted'
BY DEF RequestsAccounted, Accounted, One

LEMMA LineKeepsQueued ==
    ASSUME NEW l \in Lines, NEW q \in Nat
    PROVE  /\ Begun(l).queued = l.queued /\ [l EXCEPT !.armed = FALSE].queued = l.queued
           /\ [l EXCEPT !.armed = TRUE].queued = l.queued
           /\ [l EXCEPT !.busy = FALSE].queued = l.queued
           /\ [l EXCEPT !.queued = q].queued = q
BY DEF Begun, Lines

LEMMA DisarmedKeepsQueued == ASSUME ScreenInv PROVE Disarmed.queued = line.queued
BY LineKeepsQueued DEF Disarmed, ScreenInv, Shapes

LEMMA RequestsStep ==
    ASSUME ScreenInv, RequestsAccounted, [ScreenNext]_screenVars PROVE RequestsAccounted'
<1>1. line \in Lines /\ typed \in Nat /\ line.queued \in Nat
  BY DEF ScreenInv, Shapes, Lines
<1>2. CASE TurnFinishes
  <2>1. CASE Sends /\ surface # "closing" /\ line.queued # 0
    <3>1. line' = Begun([line EXCEPT !.queued = 0]) /\ sent' = sent \cup {line.queued}
          /\ UNCHANGED <<typed, gone>>
      BY <1>2, <2>1 DEF TurnFinishes, Starts
    <3> DEFINE emptied == [line EXCEPT !.queued = 0]
    <3>2. emptied \in Lines /\ emptied.queued = 0 /\ line' = Begun(emptied)
      BY <1>1, <3>1 DEF Lines
    <3> HIDE DEF emptied
    <3>3. line'.queued = 0
      BY <3>2, LineKeepsQueued
    <3> QED
      BY <3>3, <2>1, <3>1, <3>2, WaitingRuns DEF RequestsAccounted
  <2>2. CASE ~(Sends /\ surface # "closing" /\ line.queued # 0)
    <3>1. line' = [line EXCEPT !.busy = FALSE] /\ UNCHANGED <<typed, sent, gone>>
      BY <1>2, <2>2 DEF TurnFinishes
    <3> QED
      BY <1>1, <3>1, LineKeepsQueued, RequestsRest
  <2> QED
    BY <2>1, <2>2
<1>3. CASE Delivers
  <2>1. line' = Begun(line) /\ typed' = typed + 1 /\ sent' = sent \cup {typed + 1} /\ gone' = gone
    BY <1>3 DEF Delivers, Starts
  <2>2. line'.queued = line.queued
    BY <1>1, <2>1, LineKeepsQueued
  <2> QED
    BY <2>1, <2>2, AskedRuns DEF RequestsAccounted
<1>4. CASE Submits
  <2>1. CASE line.busy
    <3>1. line' = [Disarmed EXCEPT !.queued = typed + 1] /\ typed' = typed + 1 /\ sent' = sent
          /\ gone' = gone \cup One(line.queued)
      BY <1>4, <2>1 DEF Submits, One
    <3>2. line'.queued = typed + 1
      BY <1>1, <3>1, DisarmedShape, LineKeepsQueued DEF ScreenInv
    <3> QED
      BY <3>1, <3>2, AskedWaits DEF RequestsAccounted
  <2>2. CASE ~line.busy
    <3>1. line' = Begun(Disarmed) /\ typed' = typed + 1 /\ sent' = sent \cup {typed + 1}
          /\ gone' = gone
      BY <1>4, <2>2 DEF Submits, Starts
    <3>2. line'.queued = line.queued
      BY <3>1, DisarmedShape, DisarmedKeepsQueued, LineKeepsQueued DEF ScreenInv
    <3> QED
      BY <3>1, <3>2, AskedRuns DEF RequestsAccounted
  <2> QED
    BY <2>1, <2>2
<1>5. CASE Interrupts
  <2>1. CASE line.busy
    <3>1. line' = [line EXCEPT !.queued = 0] /\ UNCHANGED <<typed, sent>>
          /\ gone' = gone \cup One(line.queued)
      BY <1>5, <2>1 DEF Interrupts, One
    <3>2. line'.queued = 0
      BY <1>1, <3>1, LineKeepsQueued
    <3> QED
      BY <3>1, <3>2, WaitingGoes DEF RequestsAccounted
  <2>2. CASE ~line.busy
    <3>1. (line' = line \/ line' = [line EXCEPT !.armed = TRUE]) /\ UNCHANGED <<typed, sent, gone>>
      BY <1>5, <2>2 DEF Interrupts
    <3> QED
      BY <1>1, <3>1, LineKeepsQueued, RequestsRest
  <2> QED
    BY <2>1, <2>2
<1>6. CASE Quits \/ Types
  <2>1. line' = Disarmed /\ UNCHANGED <<typed, sent, gone>>
    BY <1>6 DEF Quits, Types
  <2> QED
    BY <2>1, DisarmedKeepsQueued, RequestsRest
<1>7. CASE HearsExit \/ ShutsDown \/ Closes \/ Views \/ LeavesView \/ AgentWorks \/ WindowCloses
  BY <1>7, RequestsRest DEF HearsExit, ShutsDown, Closes, Views, LeavesView, AgentWorks,
     WindowCloses
<1>8. ASSUME NEW life, TurnReturns(life) PROVE RequestsAccounted'
  BY <1>8, RequestsRest DEF TurnReturns
<1>9. ASSUME NEW w, NEW o,
             \/ Answers(o) \/ AnswersStop(o) \/ AnswersExit(o)
             \/ Requests(w, o) \/ Attaches(w) \/ WorkerSteps(w)
      PROVE  RequestsAccounted'
  BY <1>9, RequestsRest DEF Answers, AnswersStop, AnswersExit, Requests, Attaches, WorkerSteps,
     Hears, TakesDown, Detaches
<1>10. CASE UNCHANGED screenVars
  BY <1>10, RequestsRest DEF screenVars
<1>11. CASE ScreenNext
  BY <1>2, <1>3, <1>4, <1>5, <1>6, <1>7, <1>8, <1>9, <1>11 DEF ScreenNext
<1> QED
  BY <1>10, <1>11

(* A request runs, waits or was given up, one of the three, what was given  *)
(* up never runs, and the composer is busy exactly while a turn runs: for   *)
(* any number of requests, and whatever stops or leaves.                    *)
THEOREM ScreenRequestsStand == ScreenSpec => []RequestsStand
<1>1. ScreenInit => RequestsAccounted
  <2>1. 1..0 = {} /\ Accounted(0, 0, {}, {})
    BY DEF Accounted, One
  <2>2. ASSUME ScreenInit PROVE line.queued = 0 /\ typed = 0 /\ sent = {} /\ gone = {}
    BY <2>2 DEF ScreenInit
  <2> QED
    BY <2>1, <2>2 DEF RequestsAccounted
<1>2. ScreenInv /\ RequestsAccounted /\ [ScreenNext]_screenVars => RequestsAccounted'
  BY RequestsStep
<1>3. ScreenInv /\ RequestsAccounted => RequestsStand
  BY DEF ScreenInv, BusyTurn, RequestsAccounted, Accounted, One, RequestsStand
<1> QED
  BY <1>1, <1>2, <1>3, ScreenStarts, ScreenStep, PTL DEF ScreenSpec

-----------------------------------------------------------------------------
(* The row of the spinner.                                                  *)

Animators == [at : {"waits", "looks", "retired", "gone"}, idle : BOOLEAN]

OnlyNewest == \A g \in 1..Newest : Serves(g) <=> animating /\ g = Newest

SpinnerInv ==
    /\ quit \in BOOLEAN /\ animating \in BOOLEAN
    /\ animator \in Seq(Animators)
    /\ OnlyNewest
    /\ animating => Newest >= 1
    /\ row # {} /\ ~quit => animating

-----------------------------------------------------------------------------
LEMMA SpinnerStarts == SpinnerInit => SpinnerInv
<1> SUFFICES ASSUME SpinnerInit PROVE SpinnerInv
  OBVIOUS
<1>1. animator = <<>> /\ Newest = 0 /\ 1..Newest = {}
  BY DEF SpinnerInit, Newest
<1>2. OnlyNewest
  BY <1>1 DEF OnlyNewest
<1>3. animator \in Seq(Animators)
  BY <1>1
<1> QED
  BY <1>2, <1>3 DEF SpinnerInit, SpinnerInv

(* Steps that leave the animators' places and the flag alone.               *)
LEMMA SpinnerRests ==
    ASSUME SpinnerInv, quit' \in BOOLEAN, animating' = animating,
           animator' \in Seq(Animators), Len(animator') = Len(animator),
           \A g \in 1..Len(animator) : animator'[g].at = animator[g].at,
           row' # {} /\ ~quit' => animating
    PROVE  SpinnerInv'
BY DEF SpinnerInv, OnlyNewest, Newest, Serves

(* An animator moves on, and serves before and after, or neither.           *)
LEMMA SpinnerMoves ==
    ASSUME SpinnerInv, NEW g \in 1..Newest, NEW a \in Animators,
           animator' = [animator EXCEPT ![g] = a],
           a.at \in {"waits", "looks"} <=> Serves(g),
           UNCHANGED <<quit, row, animating>>
    PROVE  SpinnerInv'
<1>1. animator' \in Seq(Animators) /\ Len(animator') = Len(animator)
  BY DEF SpinnerInv, Newest
<1>2. \A h \in 1..Newest : Serves(h)' <=> Serves(h)
  BY DEF SpinnerInv, Newest, Serves
<1> QED
  BY <1>1, <1>2 DEF SpinnerInv, OnlyNewest, Newest

(* It retires, and clears the flag.                                         *)
LEMMA SpinnerRetires ==
    ASSUME SpinnerInv, NEW g \in 1..Newest, NEW a \in Animators,
           animator' = [animator EXCEPT ![g] = a],
           Serves(g), a.at = "retired", animating' = FALSE,
           row = {} \/ quit, UNCHANGED <<quit, row>>
    PROVE  SpinnerInv'
<1>1. animator' \in Seq(Animators) /\ Len(animator') = Len(animator)
  BY DEF SpinnerInv, Newest
<1>2. g = Newest
  BY DEF SpinnerInv, OnlyNewest
<1>3. \A h \in 1..Newest : ~Serves(h)'
  BY <1>2 DEF SpinnerInv, OnlyNewest, Newest, Serves
<1> QED
  BY <1>1, <1>3 DEF SpinnerInv, OnlyNewest, Newest

LEMMA SpinnerStartActivity ==
    ASSUME SpinnerInv, NEW a \in Activities, StartActivity(a)
    PROVE  SpinnerInv'
<1>1. CASE animating
  BY <1>1, SpinnerRests DEF StartActivity, SpinnerInv
<1>2. CASE ~animating
  <2> DEFINE new == [at |-> "waits", idle |-> FALSE]
  <2>1. animator' = Append(animator, new) /\ animating' = TRUE /\ quit' = quit
    BY <1>2 DEF StartActivity
  <2>2. new \in Animators
    BY DEF Animators
  <2>3. /\ animator' \in Seq(Animators) /\ Newest' = Newest + 1 /\ Newest \in Nat
        /\ animator'[Newest + 1] = new
        /\ \A h \in 1..Newest : animator'[h] = animator[h]
    BY <2>1, <2>2 DEF SpinnerInv, Newest
  <2>4. \A h \in 1..Newest' : Serves(h)' <=> h = Newest'
    BY <1>2, <2>3 DEF SpinnerInv, OnlyNewest, Serves
  <2> QED
    BY <2>1, <2>3, <2>4 DEF SpinnerInv, OnlyNewest
<1> QED
  BY <1>1, <1>2

LEMMA SpinnerFinishActivity ==
    ASSUME SpinnerInv, NEW a \in Activities, FinishActivity(a)
    PROVE  SpinnerInv'
<1>1. /\ animator' \in Seq(Animators) /\ Len(animator') = Len(animator)
      /\ \A g \in 1..Len(animator) : animator'[g].at = animator[g].at
  <2> DEFINE woken == [animator EXCEPT ![Newest].idle = TRUE]
  <2>1. CASE Newest = 0
    <3>1. animator = <<>>
      BY <2>1, LenProperties DEF Newest, SpinnerInv
    <3>2. woken = [i \in 1..0 |-> woken[i]]
      BY <3>1
    <3>3. \A f, g : f = [i \in 1..0 |-> f[i]] /\ g = [i \in 1..0 |-> g[i]] => f = g
      OBVIOUS
    <3>4. animator = [i \in 1..0 |-> animator[i]]
      BY <3>1
    <3>5. woken = animator
      BY <3>2, <3>3, <3>4
    <3> QED
      BY <3>5 DEF FinishActivity, Wakes, SpinnerInv
  <2>2. CASE Newest # 0
    <3>1. Newest \in 1..Len(animator) /\ animator[Newest] \in Animators
      BY <2>2 DEF Newest, SpinnerInv
    <3>2. [animator[Newest] EXCEPT !.idle = TRUE] \in Animators
          /\ [animator[Newest] EXCEPT !.idle = TRUE].at = animator[Newest].at
      BY <3>1 DEF Animators
    <3>3. woken \in Seq(Animators) /\ Len(woken) = Len(animator)
      BY <3>1, <3>2 DEF SpinnerInv
    <3>4. \A g \in 1..Len(animator) : woken[g].at = animator[g].at
      BY <3>1, <3>2 DEF SpinnerInv
    <3> QED
      BY <3>3, <3>4 DEF FinishActivity, Wakes, SpinnerInv
  <2> QED
    BY <2>1, <2>2
<1>2. /\ quit' = quit /\ animating' = animating
      /\ row' # {} => row # {}
  BY DEF FinishActivity
<1> QED
  BY <1>1, <1>2, SpinnerRests DEF SpinnerInv

LEMMA SpinnerAnimates ==
    ASSUME SpinnerInv, NEW g \in 1..Newest, Ticks(g) \/ Animates(g)
    PROVE  SpinnerInv'
<1>1. animator[g] \in Animators
  BY DEF SpinnerInv, Newest
<1> DEFINE moved(to) == [animator[g] EXCEPT !.at = to]
<1>2. moved("looks") \in Animators /\ moved("waits") \in Animators
      /\ moved("retired") \in Animators /\ moved("gone") \in Animators
  BY <1>1 DEF Animators
<1>3. \A to : moved(to).at = to
  BY <1>1 DEF Animators
<1>4. CASE Ticks(g)
  BY <1>2, <1>3, <1>4, SpinnerMoves DEF Ticks, Goes, Serves
<1>5. CASE Woken(g)
  <2>1. [at |-> "looks", idle |-> FALSE] \in Animators
    BY DEF Animators
  <2> QED
    BY <1>5, <2>1, SpinnerMoves DEF Woken, Serves
<1>6. CASE Looks(g) /\ NothingLeft
  BY <1>2, <1>3, <1>6, SpinnerRetires DEF Looks, Goes, Serves, NothingLeft
<1>7. CASE Looks(g) /\ ~NothingLeft
  BY <1>2, <1>3, <1>7, SpinnerMoves DEF Looks, Goes, Serves
<1>8. CASE HearsQuit(g)
  BY <1>2, <1>3, <1>8, SpinnerRetires DEF HearsQuit, Goes, Serves
<1>9. CASE Gone(g)
  BY <1>2, <1>3, <1>9, SpinnerMoves DEF Gone, Goes, Serves
<1> QED
  BY <1>4, <1>5, <1>6, <1>7, <1>8, <1>9 DEF Animates

LEMMA SpinnerStep == SpinnerInv /\ [SpinnerNext]_spinnerVars => SpinnerInv'
<1> SUFFICES ASSUME SpinnerInv, [SpinnerNext]_spinnerVars PROVE SpinnerInv'
  OBVIOUS
<1>1. ASSUME NEW a \in Activities, StopSteps(a) PROVE SpinnerInv'
  BY <1>1, SpinnerRests DEF StopSteps, StopLooks, StopReturns, SpinnerInv
<1>2. CASE Quit
  BY <1>2, SpinnerRests DEF Quit, SpinnerInv
<1>3. CASE UNCHANGED spinnerVars
  BY <1>3, SpinnerRests DEF spinnerVars, SpinnerInv
<1> QED
  BY <1>1, <1>2, <1>3, SpinnerStartActivity, SpinnerFinishActivity, SpinnerAnimates
     DEF SpinnerNext

(* While anything is going on the row is animated, by one animator.         *)
THEOREM SpinnerRowAlive == SpinnerSpec => []RowAlive
<1>1. SpinnerInv => RowAlive
  BY DEF SpinnerInv, OnlyNewest, RowAlive, Newest
<1> QED
  BY <1>1, SpinnerStarts, SpinnerStep, PTL DEF SpinnerSpec

-----------------------------------------------------------------------------
(***************************************************************************)
(* AnswersOwn, for any number of agents, calls and turns, with a server    *)
(* that sends no requests of its own.                                      *)
(*                                                                         *)
(* Numbers grow under the mutex, so that a number is given to one request; *)
(* whatever is still on its way under it, in the server or in the output   *)
(* nobody has read, is of that request.  A call that was given up leaves   *)
(* its number behind, and the next call has a larger one.                  *)
(***************************************************************************)

Calls == [at : {"away", "queued", "waits"},
          for : {"", "initialize", "tools/list", "tools/call"}, id : Nat, of : Nat]
Requested == [id : Nat, of : Nat]
Outputs == [id : Nat, of : Int, ok : BOOLEAN]

McpTypes ==
    /\ client \in [holder : Agents \cup {Nobody}, next : Nat]
    /\ agent \in [Agents -> Calls]
    /\ inbox \subseteq Requested /\ lines \in Seq(Outputs)
    /\ IsFiniteSet(answered)

(* No number is ahead of the client's count.                                *)
Counted ==
    /\ \A r \in inbox : r.id <= client.next
    /\ \A i \in 1..Len(lines) : lines[i].id <= client.next
    /\ \A a \in Agents : agent[a].at = "waits" => agent[a].id \in 1..client.next

(* What has the number of a call that waits is of that call.                *)
OwnNumbers ==
    \A a \in Agents : agent[a].at = "waits" =>
        /\ \A r \in inbox : r.id = agent[a].id => r.of = agent[a].of
        /\ \A i \in 1..Len(lines) : lines[i].id = agent[a].id => lines[i].of = agent[a].of

McpInv == McpTypes /\ Counted /\ OwnNumbers /\ AnswersOwn

-----------------------------------------------------------------------------
LEMMA NumberedNat == McpTypes => Numbered \in Nat
<1> SUFFICES ASSUME McpTypes PROVE Numbered \in Nat
  OBVIOUS
<1>1. IsFiniteSet({r.of : r \in answered})
  <2> DEFINE image == {r.of : r \in answered}
             f == [r \in answered |-> r.of]
  <2>1. f \in Surjection(answered, image)
    BY DEF Surjection
  <2> QED
    BY <2>1, FS_Surjection DEF McpTypes
<1>2. IsFiniteSet({a \in Agents : agent[a].of # 0})
  BY FS_Subset, AgentsAssumption
<1> QED
  BY <1>1, <1>2, FS_CardinalityType DEF Numbered

LEMMA McpStarts == McpInit => McpInv
<1> SUFFICES ASSUME McpInit PROVE McpInv
  OBVIOUS
<1>1. McpTypes
  <2>1. client \in [holder : Agents \cup {Nobody}, next : Nat]
    BY DEF McpInit
  <2>2. agent \in [Agents -> Calls]
    BY DEF McpInit, NotCalling, Calls
  <2>3. inbox \subseteq Requested /\ lines \in Seq(Outputs)
    BY DEF McpInit
  <2>4. IsFiniteSet(answered)
    BY FS_EmptySet DEF McpInit
  <2> QED
    BY <2>1, <2>2, <2>3, <2>4 DEF McpTypes
<1>2. lines = <<>> /\ inbox = {} /\ answered = {} /\ \A a \in Agents : agent[a].at = "away"
  BY DEF McpInit, NotCalling
<1> QED
  BY <1>1, <1>2 DEF McpInv, Counted, OwnNumbers, AnswersOwn

(* Nobody's call begins to wait, and nothing new is on its way.             *)
LEMMA McpQuiet ==
    ASSUME McpInv, McpTypes', client'.next = client.next,
           inbox' \subseteq inbox,
           \A i \in 1..Len(lines') : \E j \in 1..Len(lines) : lines'[i] = lines[j],
           \A a \in Agents : agent'[a].at = "waits" => agent'[a] = agent[a],
           AnswersOwn'
    PROVE  McpInv'
<1>1. Counted'
  BY DEF McpInv, Counted
<1>2. OwnNumbers'
  <2> SUFFICES ASSUME NEW a \in Agents, agent'[a].at = "waits"
               PROVE  /\ \A r \in inbox' : r.id = agent'[a].id => r.of = agent'[a].of
                      /\ \A i \in 1..Len(lines') : lines'[i].id = agent'[a].id =>
                                                      lines'[i].of = agent'[a].of
    BY DEF OwnNumbers
  <2>1. /\ agent'[a] = agent[a] /\ agent[a].at = "waits"
    OBVIOUS
  <2>2. /\ \A r \in inbox : r.id = agent[a].id => r.of = agent[a].of
        /\ \A i \in 1..Len(lines) : lines[i].id = agent[a].id => lines[i].of = agent[a].of
    BY <2>1 DEF McpInv, OwnNumbers
  <2> QED
    BY <2>1, <2>2
<1> QED
  BY <1>1, <1>2 DEF McpInv

(* An agent's call is over, or queued: a new call, or none.                 *)
LEMMA NoLongerWaits ==
    ASSUME McpTypes, NEW a \in Agents,
           NEW what \in {"initialize", "tools/list", "tools/call"},
           CallsFor(a, what) \/ agent' = [agent EXCEPT ![a] = NotCalling]
    PROVE  agent' \in [Agents -> Calls]
           /\ \A b \in Agents : agent'[b].at = "waits" => agent'[b] = agent[b]
<1> DEFINE called == [NotCalling EXCEPT !.at = "queued", !.for = what]
<1>1. called \in Calls /\ called.at # "waits" /\ NotCalling \in Calls /\ NotCalling.at # "waits"
  BY DEF NotCalling, Calls
<1>2. agent' = [agent EXCEPT ![a] = called] \/ agent' = [agent EXCEPT ![a] = NotCalling]
  BY DEF CallsFor
<1> HIDE DEF called
<1> QED
  BY <1>1, <1>2 DEF McpTypes

LEMMA LoadsAgents ==
    ASSUME McpTypes, NEW a \in Agents, NEW ok, Loads(a, ok)
    PROVE  agent' \in [Agents -> Calls]
           /\ \A b \in Agents : agent'[b].at = "waits" => agent'[b] = agent[b]
<1>1. CallsFor(a, "tools/list") \/ agent' = [agent EXCEPT ![a] = NotCalling]
  BY DEF Loads
<1> QED
  BY <1>1, NoLongerWaits

-----------------------------------------------------------------------------
(* Turns, loading, and what ends the server.                                *)
LEMMA McpTurns ==
    ASSUME McpInv, TurnStarts \/ TurnStopped \/ TurnOver \/ ServerExits
    PROVE  McpInv'
<1>1. McpTypes' /\ client' = client /\ lines' = lines /\ agent' = agent /\ answered' = answered
      /\ inbox' \subseteq inbox
  BY DEF TurnStarts, TurnStopped, TurnOver, ServerExits, ServerUnchanged, McpInv, McpTypes
<1> QED
  BY <1>1, McpQuiet DEF McpInv, AnswersOwn

LEMMA McpKilled ==
    ASSUME McpInv, NEW n \in 0..Len(lines), Killed(n)
    PROVE  McpInv'
<1>1. lines' = SubSeq(lines, 1, n) /\ inbox' = {} /\ UNCHANGED <<client, agent, answered>>
  BY DEF Killed, ServerUnchanged
<1>2. \A i \in 1..n : lines[i] \in Outputs
  BY DEF McpInv, McpTypes
<1>3. lines' \in Seq(Outputs) /\ Len(lines') = n /\ \A i \in 1..n : lines'[i] = lines[i]
  BY <1>1, <1>2, SubSeqProperties DEF McpInv, McpTypes
<1>4. McpTypes'
  BY <1>1, <1>3 DEF McpInv, McpTypes
<1> QED
  BY <1>1, <1>3, <1>4, McpQuiet DEF McpInv, AnswersOwn

LEMMA McpLoads ==
    ASSUME McpInv, NEW a \in Agents, Load(a) \/ Execute(a)
    PROVE  McpInv'
<1>1. agent' = agent \/ CallsFor(a, "initialize") \/ CallsFor(a, "tools/call")
  BY DEF Load, Execute
<1>2. agent' \in [Agents -> Calls]
      /\ \A b \in Agents : agent'[b].at = "waits" => agent'[b] = agent[b]
  BY <1>1, NoLongerWaits DEF McpInv, McpTypes
<1>3. UNCHANGED <<client, inbox, lines, answered>>
  BY DEF Load, Execute
<1>4. McpTypes'
  BY <1>2, <1>3 DEF McpInv, McpTypes
<1> QED
  BY <1>2, <1>3, <1>4, McpQuiet DEF McpInv, AnswersOwn

-----------------------------------------------------------------------------
(* A call is sent under a number nothing has.                               *)
LEMMA McpSend ==
    ASSUME McpInv, NEW a \in Agents, Send(a)
    PROVE  McpInv'
<1> DEFINE n == client.next + 1
           request == [id |-> n, of |-> Numbered + 1]
<1>1. Numbered + 1 \in Nat /\ n \in Nat /\ client.next \in Nat
  BY NumberedNat DEF McpInv, McpTypes
<1>2. /\ client' = [holder |-> a, next |-> n]
      /\ agent' = [agent EXCEPT ![a].at = "waits", ![a].id = n, ![a].of = Numbered + 1]
      /\ inbox' \subseteq inbox \cup {request} /\ UNCHANGED <<lines, answered>>
  BY DEF Send
<1> HIDE DEF n
<1>3. McpTypes'
  <2>1. agent' \in [Agents -> Calls]
    <3>1. agent \in [Agents -> Calls]
      BY DEF McpInv, McpTypes
    <3>2. [agent[a] EXCEPT !.at = "waits", !.id = n, !.of = Numbered + 1] \in Calls
      BY <1>1, <3>1 DEF Calls
    <3>3. agent' = [agent EXCEPT ![a] = [agent[a] EXCEPT !.at = "waits", !.id = n,
                                                         !.of = Numbered + 1]]
      BY <1>2, <3>1
    <3> QED
      BY <3>1, <3>2, <3>3
  <2>2. request \in Requested
    BY <1>1 DEF Requested
  <2> QED
    BY <1>1, <1>2, <2>1, <2>2 DEF McpInv, McpTypes
<1>4. /\ agent'[a].at = "waits" /\ agent'[a].id = n /\ agent'[a].of = Numbered + 1
      /\ \A b \in Agents : b # a => agent'[b] = agent[b]
  BY <1>2 DEF McpInv, McpTypes, Calls
<1>5. client'.next = n /\ n = client.next + 1
  BY <1>2 DEF n
<1>6. /\ \A r \in inbox : r.id <= client.next /\ r.id \in Nat
      /\ \A i \in 1..Len(lines) : lines[i].id <= client.next /\ lines[i].id \in Nat
      /\ \A b \in Agents : agent[b].at = "waits" => agent[b].id \in 1..client.next
  <2>1. \A r \in inbox : r.id <= client.next /\ r.id \in Nat
    BY DEF McpInv, Counted, McpTypes, Requested
  <2>2. \A i \in 1..Len(lines) : lines[i].id <= client.next /\ lines[i].id \in Nat
    <3> SUFFICES ASSUME NEW i \in 1..Len(lines)
                 PROVE  lines[i].id <= client.next /\ lines[i].id \in Nat
      OBVIOUS
    <3>1. lines \in Seq(Outputs)
      BY DEF McpInv, McpTypes
    <3>2. lines[i] \in Outputs
      BY <3>1
    <3>3. lines[i].id <= client.next
      BY DEF McpInv, Counted
    <3> QED
      BY <3>2, <3>3 DEF Outputs
  <2>3. \A b \in Agents : agent[b].at = "waits" => agent[b].id \in 1..client.next
    BY DEF McpInv, Counted
  <2> QED
    BY <2>1, <2>2, <2>3
<1>7. Counted'
  <2>1. \A r \in inbox' : r.id <= n
    BY <1>1, <1>2, <1>5, <1>6
  <2>2. \A i \in 1..Len(lines') : lines'[i].id <= n
    BY <1>1, <1>2, <1>5, <1>6
  <2>3. \A b \in Agents : agent'[b].at = "waits" => agent'[b].id \in 1..n
    BY <1>1, <1>4, <1>5, <1>6
  <2> QED
    BY <1>5, <2>1, <2>2, <2>3 DEF Counted
<1>8. OwnNumbers'
  <2> SUFFICES ASSUME NEW b \in Agents, agent'[b].at = "waits"
               PROVE  /\ \A r \in inbox' : r.id = agent'[b].id => r.of = agent'[b].of
                      /\ \A i \in 1..Len(lines') : lines'[i].id = agent'[b].id =>
                                                      lines'[i].of = agent'[b].of
    BY DEF OwnNumbers
  <2> DEFINE fresh == Numbered + 1
  <2>1. \A r \in inbox' : r \in inbox \/ (r.id = n /\ r.of = fresh)
    BY <1>2
  <2>2. lines' = lines
    BY <1>2
  <2> HIDE DEF request, fresh
  <2>3. CASE b = a
    <3>1. agent'[b].id = n /\ agent'[b].of = fresh
      BY <1>4, <2>3 DEF fresh
    <3>2. \A r \in inbox : r.id # n
      BY <1>1, <1>5, <1>6
    <3>3. \A i \in 1..Len(lines) : lines[i].id # n
      BY <1>1, <1>5, <1>6
    <3> QED
      BY <2>1, <2>2, <3>1, <3>2, <3>3
  <2>4. CASE b # a
    <3>1. agent'[b] = agent[b] /\ agent[b].at = "waits"
      BY <1>4, <2>4
    <3>2. agent[b].id # n
      BY <1>1, <1>5, <1>6, <3>1
    <3>3. /\ \A r \in inbox : r.id = agent[b].id => r.of = agent[b].of
          /\ \A i \in 1..Len(lines) : lines[i].id = agent[b].id => lines[i].of = agent[b].of
      BY <3>1 DEF McpInv, OwnNumbers
    <3> QED
      BY <2>1, <2>2, <3>1, <3>2, <3>3
  <2> QED
    BY <2>3, <2>4
<1> QED
  BY <1>2, <1>3, <1>7, <1>8 DEF McpInv, AnswersOwn

(* The line under a call's number is the answer to it.                      *)
LEMMA McpTake ==
    ASSUME McpInv, NEW a \in Agents, Take(a)
    PROVE  McpInv'
<1>1. lines \in Seq(Outputs) /\ lines # <<>> /\ lines' = Tail(lines) /\ inbox' = inbox
      /\ agent[a].at = "waits"
  BY DEF Take, McpInv, McpTypes
<1>2. /\ lines' \in Seq(Outputs)
      /\ \A i \in 1..Len(lines') : i + 1 \in 1..Len(lines) /\ lines'[i] = lines[i + 1]
  BY <1>1, HeadTailProperties
<1>3. Head(lines) = lines[1] /\ 1 \in 1..Len(lines)
  BY <1>1
<1>4. CASE Matches(a, Head(lines))
  <2>1. /\ answered' = answered \cup {[of |-> agent[a].of, by |-> lines[1].of]}
        /\ Releases /\ Loads(a, Head(lines).ok)
    BY <1>3, <1>4 DEF Take
  <2>2. lines[1].of = agent[a].of
    BY <1>1, <1>3, <1>4 DEF Matches, McpInv, OwnNumbers
  <2>3. AnswersOwn'
    BY <2>1, <2>2 DEF McpInv, AnswersOwn
  <2>4. agent' \in [Agents -> Calls]
        /\ \A b \in Agents : agent'[b].at = "waits" => agent'[b] = agent[b]
    BY <2>1, LoadsAgents DEF McpInv
  <2>5. IsFiniteSet(answered')
    BY <2>1, FS_AddElement DEF McpInv, McpTypes
  <2>6. client'.next = client.next /\ client' \in [holder : Agents \cup {Nobody}, next : Nat]
    BY <2>1 DEF Releases, McpInv, McpTypes
  <2>7. McpTypes'
    BY <1>1, <1>2, <2>4, <2>5, <2>6 DEF McpInv, McpTypes
  <2> QED
    BY <1>1, <1>2, <2>3, <2>4, <2>6, <2>7, McpQuiet
<1>5. CASE ~Matches(a, Head(lines))
  <2>1. UNCHANGED <<answered, client, agent>>
    BY <1>5 DEF Take
  <2>2. McpTypes' /\ AnswersOwn'
    BY <1>1, <1>2, <2>1 DEF McpInv, McpTypes, AnswersOwn
  <2> QED
    BY <1>1, <1>2, <2>1, <2>2, McpQuiet
<1> QED
  BY <1>4, <1>5

LEMMA McpFruitless ==
    ASSUME McpInv, NEW a \in Agents, Fruitless(a)
    PROVE  McpInv'
<1>1. /\ answered' = answered \cup {[of |-> agent[a].of, by |-> 0]}
      /\ Releases /\ Loads(a, FALSE) /\ UNCHANGED <<inbox, lines>>
  BY DEF Fruitless
<1>2. AnswersOwn'
  BY <1>1 DEF McpInv, AnswersOwn
<1>6. IsFiniteSet(answered')
  BY <1>1, FS_AddElement DEF McpInv, McpTypes
<1>3. agent' \in [Agents -> Calls]
      /\ \A b \in Agents : agent'[b].at = "waits" => agent'[b] = agent[b]
  BY <1>1, LoadsAgents DEF McpInv
<1>4. client'.next = client.next /\ client' \in [holder : Agents \cup {Nobody}, next : Nat]
  BY <1>1 DEF Releases, McpInv, McpTypes
<1>5. McpTypes'
  BY <1>1, <1>3, <1>4, <1>6 DEF McpInv, McpTypes
<1> QED
  BY <1>1, <1>2, <1>3, <1>4, <1>5, McpQuiet

-----------------------------------------------------------------------------
(* The server's lines: an answer keeps its number, a word of its own has    *)
(* none.                                                                    *)
LEMMA McpLine ==
    ASSUME McpInv, NEW said \in Outputs, lines' = Append(lines, said), inbox' \subseteq inbox,
           UNCHANGED <<client, agent, answered>>, said.id <= client.next,
           \A a \in Agents : agent[a].at = "waits" /\ said.id = agent[a].id =>
                                 said.of = agent[a].of
    PROVE  McpInv'
<1>1. /\ lines' \in Seq(Outputs) /\ Len(lines') = Len(lines) + 1
      /\ \A i \in 1..Len(lines) : lines'[i] = lines[i]
      /\ lines'[Len(lines) + 1] = said
  BY AppendProperties DEF McpInv, McpTypes
<1>2. Len(lines) \in Nat
  BY DEF McpInv, McpTypes
<1>3. \A i \in 1..Len(lines') : i \in 1..Len(lines) \/ lines'[i] = said
  BY <1>1, <1>2
<1>4. McpTypes' /\ AnswersOwn'
  BY <1>1 DEF McpInv, McpTypes, AnswersOwn
<1>5. Counted'
  BY <1>1, <1>3 DEF McpInv, Counted
<1>6. OwnNumbers'
  <2> SUFFICES ASSUME NEW a \in Agents, agent[a].at = "waits"
               PROVE  /\ \A r \in inbox' : r.id = agent[a].id => r.of = agent[a].of
                      /\ \A i \in 1..Len(lines') : lines'[i].id = agent[a].id =>
                                                      lines'[i].of = agent[a].of
    BY DEF OwnNumbers
  <2> QED
    BY <1>1, <1>3 DEF McpInv, OwnNumbers
<1> QED
  BY <1>4, <1>5, <1>6 DEF McpInv

LEMMA McpServer ==
    ASSUME McpInv, ~ServerAsks,
           (\E r \in inbox, ok \in BOOLEAN : Answer(r, ok))
             \/ (\E id \in 0..client.next + 1 : Speaks(id))
    PROVE  McpInv'
<1>1. ASSUME NEW r \in inbox, NEW ok \in BOOLEAN, Answer(r, ok) PROVE McpInv'
  <2> DEFINE said == [id |-> r.id, of |-> r.of, ok |-> ok]
  <2>1. lines' = Append(lines, said) /\ inbox' \subseteq inbox /\ UNCHANGED <<client, agent, answered>>
    BY <1>1 DEF Answer, ServerUnchanged
  <2>2. said \in Outputs /\ said.id <= client.next
    BY DEF McpInv, McpTypes, Counted, Requested, Outputs
  <2>3. \A a \in Agents : agent[a].at = "waits" /\ said.id = agent[a].id =>
                              said.of = agent[a].of
    BY DEF McpInv, OwnNumbers
  <2> HIDE DEF said
  <2> QED
    BY <2>1, <2>2, <2>3, McpLine
<1>2. ASSUME NEW id \in 0..client.next + 1, Speaks(id) PROVE McpInv'
  <2> DEFINE said == [id |-> 0, of |-> -1, ok |-> TRUE]
  <2>1. lines' = Append(lines, said) /\ inbox' = inbox /\ UNCHANGED <<client, agent, answered>>
    BY <1>2 DEF Speaks, ServerUnchanged
  <2>2. said \in Outputs /\ said.id <= client.next
    BY DEF McpInv, McpTypes, Outputs
  <2>3. \A a \in Agents : agent[a].at = "waits" => said.id # agent[a].id
    BY DEF McpInv, Counted, McpTypes
  <2> HIDE DEF said
  <2> QED
    BY <2>1, <2>2, <2>3, McpLine
<1> QED
  BY <1>1, <1>2

LEMMA McpStep == ~ServerAsks /\ McpInv /\ [McpNext]_mcpVars => McpInv'
<1> SUFFICES ASSUME ~ServerAsks, McpInv, [McpNext]_mcpVars PROVE McpInv'
  OBVIOUS
<1>1. CASE UNCHANGED mcpVars
  BY <1>1 DEF mcpVars, McpInv, McpTypes, Counted, OwnNumbers, AnswersOwn
<1>2. ASSUME NEW a \in Agents, AgentSteps(a) PROVE McpInv'
  BY <1>2, McpSend, McpTake, McpFruitless DEF AgentSteps, Ends, GivesUp
<1> QED
  BY <1>1, <1>2, McpTurns, McpKilled, McpLoads, McpServer DEF McpNext

(* The answer of a call is the server's answer to that call.                *)
THEOREM McpAnswersOwn == ASSUME ~ServerAsks PROVE McpSpec => []AnswersOwn
<1>1. McpInv => AnswersOwn
  BY DEF McpInv
<1>2. McpInv /\ [McpNext]_mcpVars => McpInv'
  BY McpStep
<1> QED
  BY <1>1, <1>2, McpStarts, PTL DEF McpSpec
=============================================================================
