------------------------------- MODULE Screen -------------------------------
(***************************************************************************)
(* The terminal's event loop, internal/tui's Runtime and Controller: one   *)
(* goroutine reads the keys, one runs the turn, and subagents have theirs; *)
(* what they share is behind one mutex.                                    *)
(*                                                                         *)
(* A worker that needs the person opens an overlay and blocks on its       *)
(* reply; the next keys are the answer.  A request typed while a turn runs *)
(* waits in a queue of one.  Ctrl+C stops a turn, a child may be given the *)
(* whole terminal, and the agents of a run are shown in a window that      *)
(* outlives the turn by a moment and in a view of its own.                 *)
(*                                                                         *)
(* A key is what it does in the state it meets; drafts, completion, the    *)
(* transcript and painting are left out.  A turn has the number of its     *)
(* request.  Every step holds the mutex: the two ends of a wait are two    *)
(* steps.                                                                  *)
(***************************************************************************)
EXTENDS Integers, Sequences

CONSTANTS
    Workers,      \* the goroutines of a turn that may ask
    MaxTyped,     \* bound of the model: requests
    MaxAsks       \* bound of the model: questions of workers

ASSUME WorkersAssumption == Workers # {} /\ "free" \notin Workers
ASSUME ScreenBoundsAssumption == {MaxTyped, MaxAsks} \subseteq Nat

(* /model's picker and /config's are one kind here.                         *)
Overlays == {"secret", "approval", "pick", "question"}
NoOne   == "free"

VARIABLES
    surface,    \* "open"; "exit": told to leave; "left": nobody reads the keys;
                \* "closing"; "closed"
    going,      \* the turn that runs (activeID, activeStop)
    line,       \* the Controller's busy, queued, interruptArmed
    slot,       \* the Runtime's reply channels: whose each is
    shown,      \* the Controller's overlays that are open
    attached,   \* who has given the terminal to a child
    worker,     \* where each worker is
    runs,       \* the agents shown, the last run remembered, the view of them
    timers,     \* windows to be closed in a moment
    typed, sent, gone,   \* requests so far; those that ran; those dropped or replaced
    asks        \* bound of the model

screenVars == <<surface, going, line, slot, shown, attached, worker, runs, timers,
                typed, sent, gone, asks>>
people == <<slot, shown, attached, worker, asks>>

NoTurn == [n |-> 0, kind |-> "", stopped |-> FALSE, life |-> ""]
Kinds  == {"command", "prompt", "agents"}

(* HandleKey gives a key to the first of these that is open, renderView     *)
(* draws the first of those.                                                *)
KeyOrder  == <<"secret", "approval", "pick", "question", "view">>
DrawOrder == <<"secret", "pick", "view", "question", "approval">>

Open(o) == IF o = "view" THEN runs.view ELSE shown[o]
Top(order) ==
    IF \E i \in DOMAIN order : Open(order[i])
    THEN order[CHOOSE i \in DOMAIN order : Open(order[i]) /\ \A j \in 1..i - 1 : ~Open(order[j])]
    ELSE "composer"

Keyed == surface \in {"open", "exit"} /\ attached = NoOne
At(place) == Keyed /\ Top(KeyOrder) = place

-----------------------------------------------------------------------------
(* Starting a turn and ending one.                                          *)

(* CloseAgentWindow *)
Remembered(r) == [r EXCEPT !.last = IF r.now # 0 THEN r.now ELSE @, !.now = 0]

(* startTurnContextLocked *)
Starts(n, r, lines) ==
    /\ \E k \in Kinds : going' = [NoTurn EXCEPT !.n = n, !.kind = k]
    /\ line' = lines
    /\ sent' = sent \cup {n}
    /\ runs' = Remembered(r)

(* BeginTurn, for a turn that was not typed just now.                       *)
Cleared(r) == [r EXCEPT !.now = 0]

(* Mutant: a turn that comes by itself does not mark the composer busy.     *)
BegunIdle(lines) == lines

Begun(lines) == [lines EXCEPT !.busy = TRUE]

Stops == going' = IF going.n # 0 THEN [going EXCEPT !.stopped = TRUE] ELSE going

(* The turn's function has returned; the lock is not taken yet.             *)
TurnReturns(life) ==
    /\ going.n # 0 /\ going.life = "" /\ \A w \in Workers : worker[w].at = "away"
    /\ going' = [going EXCEPT !.life = IF going.stopped /\ life # "exit" THEN "interrupted" ELSE life]
    /\ UNCHANGED <<surface, line, people, runs, timers, typed, sent, gone>>

Sends == going.life = "ready"

TurnFinishes ==
    /\ going.life # ""
    /\ timers' = IF runs.now # 0 THEN timers + 1 ELSE timers
    /\ IF Sends /\ surface # "closing" /\ line.queued # 0
       THEN Starts(line.queued, Cleared(runs), Begun([line EXCEPT !.queued = 0]))
       ELSE /\ going' = NoTurn
            /\ line' = [line EXCEPT !.busy = FALSE]
            /\ UNCHANGED <<sent, runs>>
    /\ surface' = IF going.life = "exit" /\ surface = "open" THEN "exit" ELSE surface
    /\ UNCHANGED <<people, typed, gone>>

(* The read loop hears of /exit, or has ended on a key; then Run shuts down. *)
Leaves == surface' = "left"

HearsExit ==
    /\ surface = "exit" /\ Leaves
    /\ UNCHANGED <<going, line, people, runs, timers, typed, sent, gone>>

(* Mutant: the turn is waited for and not stopped.                          *)
ShutsDownSoftly ==
    /\ surface = "left" /\ surface' = "closing"
    /\ UNCHANGED <<going, line, people, runs, timers, typed, sent, gone>>

ShutsDown ==
    /\ surface = "left" /\ surface' = "closing" /\ Stops
    /\ UNCHANGED <<line, people, runs, timers, typed, sent, gone>>

Closes ==
    /\ surface = "closing" /\ going.n = 0
    /\ surface' = "closed"
    /\ UNCHANGED <<going, line, people, runs, timers, typed, sent, gone>>

(* submitWhenIdle, from the monitor of a pause.                             *)
Delivers ==
    /\ surface \in {"open", "exit", "left"} /\ going.n = 0 /\ typed < MaxTyped
    /\ typed' = typed + 1
    /\ Starts(typed + 1, Cleared(runs), Begun(line))
    /\ UNCHANGED <<surface, people, timers, gone>>

-----------------------------------------------------------------------------
(* Keys to the composer.                                                    *)

Disarmed == [line EXCEPT !.armed = FALSE]

(* A request and Enter.                                                     *)
Submits ==
    /\ At("composer") /\ typed < MaxTyped
    /\ typed' = typed + 1
    /\ IF line.busy
       THEN /\ line' = [Disarmed EXCEPT !.queued = typed + 1]
            /\ gone' = IF line.queued # 0 THEN gone \cup {line.queued} ELSE gone
            /\ UNCHANGED <<going, sent, runs>>
       ELSE Starts(typed + 1, runs, Begun(Disarmed)) /\ UNCHANGED gone
    /\ UNCHANGED <<surface, people, timers>>

(* Ctrl+C, and Esc while a turn runs.                                       *)
Interrupts ==
    /\ At("composer")
    /\ IF line.busy
       THEN /\ line' = [line EXCEPT !.queued = 0]
            /\ gone' = IF line.queued # 0 THEN gone \cup {line.queued} ELSE gone
            /\ Stops /\ UNCHANGED surface
       ELSE /\ UNCHANGED gone
            /\ IF line.armed THEN Leaves /\ UNCHANGED line
               ELSE line' = [line EXCEPT !.armed = TRUE] /\ UNCHANGED surface
            /\ UNCHANGED going
    /\ UNCHANGED <<people, runs, timers, typed, sent>>

(* Ctrl+D on an empty draft.                                                *)
Quits ==
    /\ At("composer") /\ Leaves /\ line' = Disarmed
    /\ UNCHANGED <<going, people, runs, timers, typed, sent, gone>>

(* Any other key.                                                           *)
Types ==
    /\ At("composer") /\ line.armed
    /\ line' = Disarmed
    /\ UNCHANGED <<surface, going, people, runs, timers, typed, sent, gone>>

(* The left arrow on an empty draft, and the keys that close the view.      *)
Views ==
    /\ At("composer") /\ (runs.now # 0 \/ runs.last # 0)
    /\ runs' = [runs EXCEPT !.view = TRUE]
    /\ UNCHANGED <<surface, going, line, people, timers, typed, sent, gone>>

LeavesView ==
    /\ At("view")
    /\ runs' = [runs EXCEPT !.view = FALSE]
    /\ UNCHANGED <<surface, going, line, people, timers, typed, sent, gone>>

-----------------------------------------------------------------------------
(* Overlays.                                                                *)

Closed(o) == shown' = [shown EXCEPT ![o] = FALSE]

(* What HandleKey does with the effect of a key that closes one.            *)
Replies(o) ==
    /\ Closed(o)
    /\ slot' = [slot EXCEPT ![o] = NoOne]
    /\ worker' = [w \in Workers |-> IF slot[o] = w THEN [worker[w] EXCEPT !.at = "told"] ELSE worker[w]]
    /\ UNCHANGED <<attached, asks>>

(* Yes, no, Enter or Esc.                                                   *)
Answers(o) ==
    /\ At(o) /\ o \in Overlays /\ Replies(o)
    /\ UNCHANGED <<surface, going, line, runs, timers, typed, sent, gone>>

(* Ctrl+C on an overlay: a no, and for some of them the end of the turn.    *)
AnswersStop(o) ==
    /\ At(o) /\ o \in {"secret", "approval"} /\ Replies(o)
    /\ Stops
    /\ UNCHANGED <<surface, line, runs, timers, typed, sent, gone>>

(* Ctrl+D on an overlay: a no, and for some of them the end of the session. *)
AnswersExit(o) ==
    /\ At(o) /\ o \in {"approval", "question"} /\ Replies(o)
    /\ Leaves
    /\ UNCHANGED <<going, line, runs, timers, typed, sent, gone>>

(* Who may ask what: the commands have the pickers and the masked line, the *)
(* conversation asks about actions and asks questions, and a subagent's     *)
(* action may be asked about.                                               *)
CanAsk(w, o) ==
    \/ going.kind = "command" /\ w = "main" /\ o # "approval"
    \/ going.kind = "prompt" /\ w = "main" /\ o \in {"approval", "question"}
    \/ going.kind = "agents" /\ o = "approval"

(* Mutant: an overlay that is open is replaced.                             *)
MayOpenOver(o) == attached = NoOne

MayOpen(o) ==
    /\ attached = NoOne
    /\ \A p \in Overlays : slot[p] = NoOne \/ (p = "secret" /\ o \notin {"approval", "secret"})

MayAsk(w) == going.n # 0 /\ going.life = "" /\ worker[w].at = "away" /\ asks < MaxAsks

(* Decide, Ask, AskModel, AskConfig, ReadSecret.  What is refused returns   *)
(* at once.                                                                 *)
Requests(w, o) ==
    /\ MayAsk(w) /\ CanAsk(w, o) /\ MayOpen(o)
    /\ asks' = asks + 1
    /\ slot' = [slot EXCEPT ![o] = w]
    /\ shown' = [shown EXCEPT ![o] = TRUE]
    /\ worker' = [worker EXCEPT ![w] = [at |-> "waits", on |-> o]]
    /\ UNCHANGED <<surface, going, line, attached, runs, timers, typed, sent, gone>>

Hears(w) ==
    /\ worker[w].at = "told"
    /\ worker' = [worker EXCEPT ![w] = [at |-> "away", on |-> ""]]
    /\ UNCHANGED <<surface, going, line, slot, shown, attached, asks, runs, timers, typed, sent, gone>>

(* Mutant: an overlay is left where it is.                                  *)
LeavesUp(w) ==
    /\ worker[w].at = "waits" /\ worker[w].on \in Overlays /\ going.stopped
    /\ worker' = [worker EXCEPT ![w] = [at |-> "away", on |-> ""]]
    /\ UNCHANGED <<surface, going, line, slot, shown, attached, asks, runs, timers, typed, sent, gone>>

(* The context ends: the overlay is taken down as Ctrl+C would, which goes  *)
(* to whatever is on top.                                                   *)
TakesDown(w) ==
    LET top == Top(KeyOrder) IN
    /\ worker[w].at = "waits" /\ worker[w].on \in Overlays /\ going.stopped
    /\ slot' = [slot EXCEPT ![worker[w].on] = NoOne]
    /\ IF top \in Overlays THEN Closed(top) ELSE UNCHANGED shown
    /\ runs' = IF top = "view" THEN [runs EXCEPT !.view = FALSE] ELSE runs
    /\ worker' = [worker EXCEPT ![w] = [at |-> "away", on |-> ""]]
    /\ UNCHANGED <<surface, going, line, attached, asks, timers, typed, sent, gone>>

-----------------------------------------------------------------------------
(* RunAttached.  The child has the keys until it ends.                      *)

Attaches(w) ==
    /\ MayAsk(w) /\ going.kind = "command" /\ w = "main"
    /\ attached = NoOne /\ \A o \in Overlays \ {"secret"} : slot[o] = NoOne
    /\ attached' = w /\ asks' = asks + 1
    /\ worker' = [worker EXCEPT ![w] = [at |-> "waits", on |-> "child"]]
    /\ UNCHANGED <<surface, going, line, slot, shown, runs, timers, typed, sent, gone>>

Detaches(w) ==
    /\ attached = w
    /\ attached' = NoOne
    /\ worker' = [worker EXCEPT ![w] = [at |-> "away", on |-> ""]]
    /\ UNCHANGED <<surface, going, line, slot, shown, asks, runs, timers, typed, sent, gone>>

-----------------------------------------------------------------------------
(* The agents of a run.                                                     *)

(* SetAgentStatus: the first of a run forgets the one before.               *)
AgentWorks ==
    /\ going.kind = "agents" /\ going.life = "" /\ runs.now # going.n
    /\ runs' = [runs EXCEPT !.now = going.n, !.last = 0]
    /\ UNCHANGED <<surface, going, line, people, timers, typed, sent, gone>>

WindowCloses ==
    /\ timers > 0
    /\ timers' = timers - 1
    /\ runs' = Remembered(runs)
    /\ UNCHANGED <<surface, going, line, people, typed, sent, gone>>

-----------------------------------------------------------------------------
ScreenInit ==
    /\ surface = "open" /\ going = NoTurn
    /\ line = [busy |-> FALSE, queued |-> 0, armed |-> FALSE]
    /\ slot = [o \in Overlays |-> NoOne] /\ shown = [o \in Overlays |-> FALSE]
    /\ attached = NoOne /\ worker = [w \in Workers |-> [at |-> "away", on |-> ""]]
    /\ runs = [now |-> 0, last |-> 0, view |-> FALSE]
    /\ timers = 0 /\ typed = 0 /\ sent = {} /\ gone = {} /\ asks = 0

WorkerSteps(w) == Hears(w) \/ TakesDown(w) \/ Detaches(w)

ScreenNext ==
    \/ \E life \in {"ready", "failed", "exit"} : TurnReturns(life)
    \/ TurnFinishes \/ HearsExit \/ ShutsDown \/ Closes \/ Delivers
    \/ Submits \/ Interrupts \/ Quits \/ Types \/ Views \/ LeavesView
    \/ \E o \in Overlays : Answers(o) \/ AnswersStop(o) \/ AnswersExit(o)
    \/ \E w \in Workers : \/ \E o \in Overlays : Requests(w, o)
                          \/ Attaches(w) \/ WorkerSteps(w)
    \/ AgentWorks \/ WindowCloses

ScreenSpec == ScreenInit /\ [][ScreenNext]_screenVars

(* The goroutines run; a turn whose context has ended comes to an end, and  *)
(* so does a child of it.                                                   *)
ScreenFairness ==
    /\ WF_screenVars(going.stopped /\ TurnReturns("ready"))
    /\ WF_screenVars(TurnFinishes) /\ WF_screenVars(HearsExit)
    /\ WF_screenVars(ShutsDown) /\ WF_screenVars(Closes)
    /\ \A w \in Workers : /\ WF_screenVars(Hears(w)) /\ WF_screenVars(TakesDown(w))
                          /\ WF_screenVars(going.stopped /\ Detaches(w))

-----------------------------------------------------------------------------
(* Whoever waits for the person has an overlay open, the one it waits on,   *)
(* and every overlay has somebody waiting: no question without an asker, no *)
(* answer that reaches another, one at a time, and none under a child's     *)
(* output.                                                                  *)
OverlaysAsked ==
    /\ \A o \in Overlays : shown[o] <=> slot[o] # NoOne
    /\ \A o \in Overlays, w \in Workers :
        slot[o] = w <=> (worker[w].at = "waits" /\ worker[w].on = o)
    /\ \A o, p \in Overlays : shown[o] /\ shown[p] => o = p
    /\ attached # NoOne => \A o \in Overlays : ~shown[o]

(* The composer is busy exactly while a turn runs: "two turns cannot run at *)
(* once".  A request runs, waits, or was given up, one of the three, and    *)
(* what was given up never runs.                                            *)
RequestsStand ==
    /\ line.busy <=> going.n # 0
    /\ 1..typed = sent \cup gone \cup (IF line.queued # 0 THEN {line.queued} ELSE {})
    /\ sent \cap gone = {} /\ line.queued \notin sent \cup gone

(* What ends: a turn that was stopped, and a surface that is left is        *)
(* closed, whatever was open at that moment.                                *)
Leaving == going.stopped \/ surface \in {"exit", "left", "closing"}

(* "what is on screen is a question, and the next key is its answer"        *)
(* (controller.go): the keys go to what is drawn.                           *)
KeysGoToDrawn == Keyed => Top(KeyOrder) = Top(DrawOrder)

(* "What they did is not ephemeral" (agent_report.go): the newest run can   *)
(* be read.                                                                 *)
RunKept == [][runs.now # 0 /\ runs'.now = 0 => runs'.last = runs.now]_screenVars
=============================================================================
