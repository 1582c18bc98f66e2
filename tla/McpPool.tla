------------------------------- MODULE McpPool -------------------------------
(***************************************************************************)
(* A server of the Model Context Protocol and the agents that call its     *)
(* tools: Pool and Client of internal/mcp, over the process of             *)
(* internal/shell that cli.mcpStarter starts.                              *)
(*                                                                         *)
(* The first turn that needs tools loads them: it starts the server,       *)
(* greets it and asks for its list, once for the session.  Calls then go   *)
(* one at a time, each under a number, and the answer is the reply with    *)
(* that number.  An interrupted call leaves its answer to come; the next   *)
(* one meets it.  The process belongs to the context it was started with,  *)
(* which is the turn's.                                                    *)
(*                                                                         *)
(* One server: servers share nothing but the schema budget, which is left  *)
(* out.  A reply is its number and the request it answers.                 *)
(***************************************************************************)
EXTENDS Integers, Sequences, FiniteSets

CONSTANTS
    Agents,        \* the conversations of a turn that call tools
    ServerAsks,    \* whether the server sends requests of its own
    MaxVisits,     \* bound of the model: turns
    MaxRequests,   \* bound of the model: requests
    MaxNoise,      \* bound of the model: lines that answer nothing
    MaxFailures    \* bound of the model: a start, an answer, a server that fails

ASSUME AgentsAssumption == IsFiniteSet(Agents) /\ "nobody" \notin Agents
ASSUME ServerAsksAssumption == ServerAsks \in BOOLEAN
ASSUME McpBoundsAssumption == {MaxVisits, MaxRequests, MaxNoise, MaxFailures} \subseteq Nat

VARIABLES
    visit,      \* the turn: its number, and "idle", "running" or "stopped"
    pool,       \* Pool.loaded and Pool.clients: "no", "loading", "ready", "without"
    client,     \* Client: who holds its mutex, the last number it gave
    server,     \* the process: whether it runs, the turn whose context it has
    inbox,      \* requests it has not answered
    lines,      \* its output, not read yet
    agent,      \* for each agent what its call is, and where
    answered,   \* history: the requests with the answer each was given
    noise, failures   \* bounds of the model

mcpVars == <<visit, pool, client, server, inbox, lines, agent, answered, noise, failures>>

Nobody == "nobody"
NotCalling == [at |-> "away", for |-> "", id |-> 0, of |-> 0]
NoServer == [runs |-> FALSE, of |-> 0, failed |-> FALSE]

Numbered == Cardinality({r.of : r \in answered}) + Cardinality({a \in Agents : agent[a].of # 0})

(* A turn's context is over when the turn was stopped, and when it ended.   *)
Over(n) == n # visit.n \/ visit.at # "running"

Fails == failures < MaxFailures /\ failures' = failures + 1

-----------------------------------------------------------------------------
(* The turn.                                                                *)

TurnStarts ==
    /\ visit.at = "idle" /\ visit.n < MaxVisits
    /\ visit' = [n |-> visit.n + 1, at |-> "running"]
    /\ UNCHANGED <<pool, client, server, inbox, lines, agent, answered, noise, failures>>

TurnStopped ==
    /\ visit.at = "running"
    /\ visit' = [visit EXCEPT !.at = "stopped"]
    /\ UNCHANGED <<pool, client, server, inbox, lines, agent, answered, noise, failures>>

TurnOver ==
    /\ visit.at # "idle" /\ \A a \in Agents : agent[a].at = "away"
    /\ visit' = [visit EXCEPT !.at = "idle"]
    /\ UNCHANGED <<pool, client, server, inbox, lines, agent, answered, noise, failures>>

-----------------------------------------------------------------------------
(* Load, by whichever agent comes first; the others wait for it.            *)

CallsFor(a, what) == agent' = [agent EXCEPT ![a] = [NotCalling EXCEPT !.at = "queued", !.for = what]]

Load(a) ==
    /\ visit.at # "idle" /\ pool = "no"
    /\ \/ /\ ~Over(visit.n)
          /\ server' = [NoServer EXCEPT !.runs = TRUE, !.of = visit.n]
          /\ pool' = "loading" /\ CallsFor(a, "initialize")
          /\ UNCHANGED failures
       \/ /\ IF Over(visit.n) THEN UNCHANGED failures ELSE Fails
          /\ pool' = "without"
          /\ UNCHANGED <<server, agent>>
    /\ UNCHANGED <<visit, client, inbox, lines, answered, noise>>

(* What loading does with an answer, and with none: the server is closed.   *)
Loads(a, ok) ==
    CASE agent[a].for = "initialize" /\ ok -> CallsFor(a, "tools/list") /\ UNCHANGED <<pool, server>>
      [] agent[a].for = "tools/list" /\ ok ->
            /\ pool' = "ready" /\ agent' = [agent EXCEPT ![a] = NotCalling]
            /\ UNCHANGED server
      [] agent[a].for = "tools/call" ->
            /\ agent' = [agent EXCEPT ![a] = NotCalling]
            /\ UNCHANGED <<pool, server>>
      [] OTHER ->
            /\ pool' = "without" /\ agent' = [agent EXCEPT ![a] = NotCalling]
            /\ server' = [server EXCEPT !.runs = FALSE, !.failed = TRUE]

-----------------------------------------------------------------------------
(* Client.call.                                                             *)

Execute(a) ==
    /\ visit.at = "running" /\ pool = "ready" /\ agent[a].at = "away"
    /\ Numbered < MaxRequests
    /\ CallsFor(a, "tools/call")
    /\ UNCHANGED <<visit, pool, client, server, inbox, lines, answered, noise, failures>>

(* The mutex does not know the context: a call that waited for it is sent   *)
(* even if the turn has been stopped.  A line for a process that is gone is *)
(* dropped.                                                                 *)
Send(a) ==
    /\ agent[a].at = "queued" /\ client.holder = Nobody
    /\ client' = [holder |-> a, next |-> client.next + 1]
    /\ agent' = [agent EXCEPT ![a].at = "waits", ![a].id = client.next + 1, ![a].of = Numbered + 1]
    /\ inbox' = IF server.runs THEN inbox \cup {[id |-> client.next + 1, of |-> Numbered + 1]} ELSE inbox
    /\ UNCHANGED <<visit, pool, server, lines, answered, noise, failures>>

(* Mutant: the number is not looked at.                                     *)
AnyReply(a, line) == line.id # 0

Matches(a, line) == line.id = agent[a].id

Releases == client' = [client EXCEPT !.holder = Nobody]

Take(a) ==
    /\ agent[a].at = "waits" /\ lines # <<>>
    /\ lines' = Tail(lines)
    /\ IF Matches(a, Head(lines))
       THEN /\ answered' = answered \cup {[of |-> agent[a].of, by |-> Head(lines).of]}
            /\ Releases /\ Loads(a, Head(lines).ok)
       ELSE UNCHANGED <<answered, client, agent, pool, server>>
    /\ UNCHANGED <<visit, inbox, noise, failures>>

Fruitless(a) ==
    /\ answered' = answered \cup {[of |-> agent[a].of, by |-> 0]}
    /\ Releases /\ Loads(a, FALSE)
    /\ UNCHANGED <<visit, inbox, lines, noise, failures>>

(* The process is gone and its output read.                                 *)
Ends(a) == agent[a].at = "waits" /\ ~server.runs /\ lines = <<>> /\ Fruitless(a)

(* Mutant: the answer is waited for, whatever happens to the turn.          *)
KeepsWaiting(a) == agent[a].at = "waits" /\ visit.at = "stopped" /\ ~server.runs /\ Fruitless(a)

GivesUp(a) == agent[a].at = "waits" /\ visit.at = "stopped" /\ Fruitless(a)

-----------------------------------------------------------------------------
(* The server: it answers in any order, says what nobody asked, and may     *)
(* fail.                                                                    *)

ServerUnchanged == UNCHANGED <<visit, pool, client, agent, answered>>

Answer(r, ok) ==
    /\ server.runs /\ r \in inbox
    /\ IF ok THEN UNCHANGED failures ELSE Fails
    /\ inbox' = inbox \ {r}
    /\ lines' = Append(lines, [id |-> r.id, of |-> r.of, ok |-> ok])
    /\ ServerUnchanged /\ UNCHANGED <<server, noise>>

(* A notification has no number; a request of the server's has one of its   *)
(* own count.                                                               *)
Speaks(id) ==
    /\ server.runs /\ noise < MaxNoise /\ (id = 0 \/ ServerAsks)
    /\ noise' = noise + 1
    /\ lines' = Append(lines, [id |-> id, of |-> -1, ok |-> TRUE])
    /\ ServerUnchanged /\ UNCHANGED <<server, inbox, failures>>

ServerExits ==
    /\ server.runs /\ Fails
    /\ server' = [server EXCEPT !.runs = FALSE, !.failed = TRUE]
    /\ inbox' = {}
    /\ ServerUnchanged /\ UNCHANGED <<lines, noise>>

(* exec.CommandContext: the end of the context ends the process.  The       *)
(* reader leaves what it cannot hand over.                                  *)
Killed(n) ==
    /\ server.runs /\ Over(server.of) /\ n \in 0..Len(lines)
    /\ server' = [server EXCEPT !.runs = FALSE]
    /\ inbox' = {} /\ lines' = SubSeq(lines, 1, n)
    /\ ServerUnchanged /\ UNCHANGED <<noise, failures>>

-----------------------------------------------------------------------------
McpInit ==
    /\ visit = [n |-> 0, at |-> "idle"] /\ pool = "no"
    /\ client = [holder |-> Nobody, next |-> 0]
    /\ server = NoServer /\ inbox = {} /\ lines = <<>>
    /\ agent = [a \in Agents |-> NotCalling]
    /\ answered = {} /\ noise = 0 /\ failures = 0

AgentSteps(a) == Send(a) \/ Take(a) \/ Ends(a) \/ GivesUp(a)

McpNext ==
    \/ TurnStarts \/ TurnStopped \/ TurnOver \/ ServerExits
    \/ \E a \in Agents : Load(a) \/ Execute(a) \/ AgentSteps(a)
    \/ \E r \in inbox, ok \in BOOLEAN : Answer(r, ok)
    \/ \E id \in 0..client.next + 1 : Speaks(id)
    \/ \E n \in 0..Len(lines) : Killed(n)

(* Go schedules the agents' goroutines; nothing is asked of the server.     *)
McpFairness == WF_mcpVars(TurnOver /\ visit.at = "stopped")
               /\ \A a \in Agents : WF_mcpVars(AgentSteps(a)) /\ WF_mcpVars(GivesUp(a))

McpSpec == McpInit /\ [][McpNext]_mcpVars

-----------------------------------------------------------------------------
(* The answer a call returns is the server's answer to that call: not the   *)
(* late answer to one that was given up, not something the server said on   *)
(* its own.                                                                 *)
AnswersOwn == \A r \in answered : r.by \in {0, r.of}

(* What ends: an interrupted turn gets all its agents back, the one that    *)
(* waits for an answer and those that wait for the mutex behind it, though  *)
(* the server never says another word.                                      *)
Interrupted == visit.at = "stopped"

(* "This process lives for the whole session" (lines_process.go): a server  *)
(* whose tools are offered runs, unless it failed.                          *)
ServesSession == pool = "ready" => server.runs \/ server.failed
=============================================================================
