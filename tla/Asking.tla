------------------------------- MODULE Asking -------------------------------
(***************************************************************************)
(* One call of the model, and what a refusal of it may turn into:          *)
(* streamChatOnObserved of internal/engine, under the rounds of a turn.    *)
(*                                                                         *)
(* A session asks a plan, through its vendor's own program, or a gateway,  *)
(* where a model is free or billed per token.  A plan out of allowance may *)
(* be followed by a billed model, if the settings or the person say so,    *)
(* once for the session; free models that are rate-limited follow each     *)
(* other; a short limit is waited for.  A request the vendor may have      *)
(* acted on is never sent again.                                           *)
(*                                                                         *)
(* These are the policies of chat and code mode.  A delegation pauses at   *)
(* the limits instead (Delegation).  The user's own Ollama, whose refusals *)
(* are final, and models fixed per effort are left out.                    *)
(***************************************************************************)
EXTENDS Integers, Sequences, SequencesExt

CONSTANTS
    Free,       \* the models for which ModelIsFree
    Billed,     \* the other models of the gateway
    Plan,       \* the model of the plan
    Setups,     \* settings and starts of a session
    Retries,    \* len(rateLimitRetryDelays)
    MaxRounds,  \* bound of the model: calls of one turn
    MaxTurns    \* bound of the model: turns, /model and /new together

Models == Free \cup Billed \cup {Plan}

ASSUME ModelsAssumption ==
    Plan \notin Free \cup Billed /\ Free \cap Billed = {} /\ "" \notin Models
ASSUME SetupsAssumption ==
    \A s \in Setups : /\ s.onLimit \in {"ask", "switch", "stop"}
                      /\ s.onFree \in {"free", "paid", "stop"}
                      /\ {s.somebody, s.client, s.pinned} \subseteq BOOLEAN
                      /\ s.free \in Seq(Free)
                      /\ s.metered \in Free \cup Billed \cup {""}
                      /\ s.start \in Models
ASSUME BoundsAssumption == {Retries, MaxRounds, MaxTurns} \subseteq Nat

VARIABLES
    setup,      \* one of Setups
    session,    \* Agent.Backend, Agent.Model, Agent.PinnedModel
    decided,    \* limitDecided
    fallback,   \* limitModel
    cooling,    \* models in the registry of cooldowns
    at,         \* where the turn is
    loop,       \* runLoop's model
    call,       \* streamChatOnObserved's model, tried, retry
    rounds,     \* calls of this turn
    turns,      \* bound of the model
    acted,      \* history: a vendor may have acted on what this turn sent
    agreed      \* history: models the person chose or agreed to pay for

vars == <<setup, session, decided, fallback, cooling, at, loop, call, rounds, turns,
          acted, agreed>>
limit == <<decided, fallback>>
turn == <<loop, rounds, turns>>

BackendOf(m)  == IF m = Plan THEN "plan" ELSE "gateway"
OutOfTurn     == [model |-> Plan, tried |-> {}, retry |-> 0]

-----------------------------------------------------------------------------
(* A turn, and between turns the person.                                    *)

Begin ==
    /\ at = "idle" /\ turns < MaxTurns
    /\ turns' = turns + 1
    /\ loop' = session.model /\ rounds' = 0
    /\ at' = "round" /\ acted' = FALSE
    /\ UNCHANGED <<setup, session, limit, cooling, call, agreed>>

(* /model: the person's choice is pinned, and paid for as it is.            *)
PickModel(m) ==
    /\ at = "idle" /\ turns < MaxTurns
    /\ setup.client \/ m = Plan
    /\ turns' = turns + 1
    /\ session' = [backend |-> BackendOf(m), model |-> m, pinned |-> TRUE]
    /\ agreed' = agreed \cup {m}
    /\ UNCHANGED <<setup, limit, cooling, at, loop, call, rounds, acted>>

(* /new: what was settled about the limit belonged to the old session.      *)
NewSession ==
    /\ at = "idle" /\ turns < MaxTurns
    /\ turns' = turns + 1
    /\ decided' = FALSE /\ fallback' = ""
    /\ UNCHANGED <<setup, session, cooling, at, loop, call, rounds, acted, agreed>>

Lift(m) ==
    /\ m \in cooling
    /\ cooling' = cooling \ {m}
    /\ UNCHANGED <<setup, session, limit, at, turn, call, acted, agreed>>

-----------------------------------------------------------------------------
(* Attempts.                                                                *)

(* Each round asks the model the turn began with.                           *)
Ask ==
    /\ at = "round"
    /\ rounds' = rounds + 1
    /\ call' = [model |-> loop, tried |-> {loop}, retry |-> 0]
    /\ at' = "attempt"
    /\ UNCHANGED <<setup, session, limit, cooling, loop, turns, acted, agreed>>

Attempt ==
    /\ at = "attempt"
    /\ at' = "sent"
    /\ UNCHANGED <<setup, session, limit, cooling, turn, call, acted, agreed>>

(* A vendor runs its own tools: its reply is the last of the turn.          *)
Answered ==
    /\ at = "sent"
    /\ at' = "idle"
    /\ UNCHANGED <<setup, session, limit, cooling, turn, call, acted, agreed>>
WithCalls ==
    /\ at = "sent" /\ session.backend = "gateway" /\ rounds < MaxRounds
    /\ at' = "round"
    /\ UNCHANGED <<setup, session, limit, cooling, turn, call, acted, agreed>>

(* What refuses a call: an allowance that ran out, a rate limit for a short *)
(* or a long time, anything else.  A vendor's words can say only the first  *)
(* and the last.  proof: it never started, or closed the turn itself, and   *)
(* no tool was reported.                                                    *)
Refusals == IF session.backend = "plan" THEN {"allowance", "error"}
            ELSE {"allowance", "rate", "long", "error"}

Heard(why, proof) ==
    /\ cooling' = IF why \in {"rate", "long"} THEN cooling \cup {call.model} ELSE cooling
    /\ acted' = (acted \/ (session.backend = "plan" /\ ~proof))
    /\ UNCHANGED <<setup, session, limit, turn, call, agreed>>

(* Mutant: an exhausted plan is looked at before what the vendor did.       *)
AllowanceFirst(why, proof) ==
    /\ at = "sent" /\ why \in Refusals
    /\ at' = IF why = "error" THEN "idle" ELSE why
    /\ Heard(why, proof)

Refused(why, proof) ==
    /\ at = "sent" /\ why \in Refusals
    /\ at' = IF why = "error" \/ (session.backend = "plan" /\ ~proof) THEN "idle" ELSE why
    /\ Heard(why, proof)

Stop == at' = "idle" /\ UNCHANGED <<session, call>>

-----------------------------------------------------------------------------
(* An allowance that ran out.                                               *)

(* moveToMetered, and the attempt that follows it.                          *)
MoveTo(m) ==
    /\ session' = [session EXCEPT !.model = m,
                                  !.backend = IF setup.client THEN "gateway" ELSE @]
    /\ call' = [model |-> m, tried |-> call.tried \cup {m}, retry |-> 0]
    /\ at' = "attempt"

Metered == IF setup.metered = call.model THEN "" ELSE setup.metered

Settle(m) == decided' = TRUE /\ fallback' = m

(* Mutant: the model it moved to is moved to again.                         *)
SettledAgain ==
    /\ at = "allowance" /\ decided
    /\ IF fallback = "" THEN Stop ELSE MoveTo(fallback)
    /\ UNCHANGED <<setup, limit, cooling, turn, acted, agreed>>

Settled ==
    /\ at = "allowance" /\ decided
    /\ IF fallback \in {"", call.model} THEN Stop ELSE MoveTo(fallback)
    /\ UNCHANGED <<setup, limit, cooling, turn, acted, agreed>>

Forbidden ==
    /\ at = "allowance" /\ ~decided
    /\ Metered = "" \/ setup.onLimit = "stop" \/ (setup.onLimit = "ask" /\ ~setup.somebody)
    /\ Settle("") /\ Stop
    /\ UNCHANGED <<setup, cooling, turn, acted, agreed>>

Switch ==
    /\ at = "allowance" /\ ~decided /\ Metered # "" /\ setup.onLimit = "switch"
    /\ Settle(Metered) /\ MoveTo(Metered)
    /\ UNCHANGED <<setup, cooling, turn, acted, agreed>>

Prompt ==
    /\ at = "allowance" /\ ~decided /\ Metered # ""
    /\ setup.onLimit = "ask" /\ setup.somebody
    /\ at' = "prompt"
    /\ UNCHANGED <<setup, session, limit, cooling, call, turn, acted, agreed>>

Yes ==
    /\ at = "prompt"
    /\ Settle(Metered) /\ MoveTo(Metered)
    /\ agreed' = agreed \cup {Metered}
    /\ UNCHANGED <<setup, cooling, turn, acted>>

No ==
    /\ at = "prompt"
    /\ Settle("") /\ Stop
    /\ UNCHANGED <<setup, cooling, turn, acted, agreed>>

-----------------------------------------------------------------------------
(* A rate limit.                                                            *)

IsFree == call.model \in Free

Substitutes == ~(setup.onFree = "stop" /\ IsFree)

Candidates ==
    IF session.pinned \/ ~IsFree \/ Len(setup.free) <= 1 THEN {}
    ELSE {i \in DOMAIN setup.free : setup.free[i] \notin call.tried \cup cooling}

(* allFreeModelsTried *)
AllTried == setup.free # <<>> /\ ToSet(setup.free) \subseteq call.tried

Limited == at \in {"rate", "long"}
Rests   == UNCHANGED <<setup, limit, cooling, turn, acted, agreed>>

NothingSubstituted == Limited /\ ~Substitutes /\ Stop /\ Rests

Rotate ==
    /\ Limited /\ Substitutes
    /\ \E i \in Candidates :
        /\ \A j \in Candidates : i <= j
        /\ session' = [session EXCEPT !.model = setup.free[i]]
        /\ call' = [model |-> setup.free[i], tried |-> call.tried \cup {setup.free[i]}, retry |-> 0]
    /\ at' = "attempt"
    /\ Rests

(* No other free model is left, and the waits are used up.                  *)
Spent == Limited /\ Substitutes /\ Candidates = {} /\ call.retry >= Retries

(* Mutant: the setting is not asked.                                        *)
PaidAnyway == IsFree /\ AllTried /\ Metered # ""

MayPay == IsFree /\ AllTried /\ setup.onFree = "paid" /\ Metered # ""

Exhausted == Spent /\ (IF MayPay THEN MoveTo(Metered) ELSE Stop) /\ Rests

Waits == Limited /\ Substitutes /\ Candidates = {} /\ call.retry < Retries

TooLong == Waits /\ at = "long" /\ Stop /\ Rests

Retry ==
    /\ Waits /\ at = "rate"
    /\ call' = [call EXCEPT !.retry = @ + 1]
    /\ at' = "attempt" /\ UNCHANGED session
    /\ Rests

(* Cancelled during the wait.                                               *)
GiveUp == Waits /\ at = "rate" /\ Stop /\ Rests

-----------------------------------------------------------------------------
(* A setting is an agreement, of the person who wrote it.                   *)
Init ==
    /\ setup \in Setups
    /\ session = [backend |-> BackendOf(setup.start), model |-> setup.start,
                  pinned |-> setup.pinned]
    /\ decided = FALSE /\ fallback = "" /\ cooling = {}
    /\ at = "idle" /\ loop = setup.start /\ call = OutOfTurn
    /\ rounds = 0 /\ turns = 0
    /\ acted = FALSE
    /\ agreed = {setup.start} \cup
                (IF setup.onLimit = "switch" \/ setup.onFree = "paid"
                 THEN {setup.metered} ELSE {})

Works ==
    \/ Ask \/ Attempt \/ Settled \/ Forbidden \/ Switch \/ Prompt \/ Yes \/ No
    \/ NothingSubstituted \/ Rotate \/ Exhausted \/ TooLong \/ Retry \/ GiveUp
    \/ Answered \/ WithCalls
    \/ \E why \in {"allowance", "rate", "long", "error"}, proof \in BOOLEAN : Refused(why, proof)

Next ==
    \/ Works \/ Begin \/ NewSession
    \/ \E m \in Models : PickModel(m) \/ Lift(m)

Spec == Init /\ [][Next]_vars

(* The turn's goroutine runs; a provider answers or refuses; a person who   *)
(* is asked answers.                                                        *)
FairSpec == Spec /\ WF_vars(Works)

-----------------------------------------------------------------------------
(* "The default never bills": whatever the refusals and their order, a      *)
(* session is on a billed model only if the person chose it, answered yes   *)
(* for it, or wrote the setting that allows it.                             *)
BilledOnConsent ==
    session.backend = "gateway" /\ session.model \in Billed => session.model \in agreed

(* A turn that a vendor may have acted on sends nothing more: no retry, no  *)
(* other model and no yes of the person sends it again.                     *)
NeverReplayed == at \in {"prompt", "attempt", "sent"} => ~acted

SentOnConsent == BilledOnConsent /\ NeverReplayed

(* What ends: the switches, rotations and waits of a turn's calls do not go *)
(* in a circle, even if every call is refused for ever.                     *)
Answering == at # "idle"

(* What the gateway is asked for, and bills, is what the person agreed to.  *)
AskedAsAgreed ==
    at = "sent" /\ session.backend = "gateway" /\ call.model \notin Free =>
        call.model \in agreed \ {Plan}
=============================================================================
