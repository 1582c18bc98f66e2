------------------------------- MODULE MCTalk -------------------------------
(* What a turn deals with, four parts that share no state here: the model   *)
(* it asks, the person at the screen, the row that shows it is at work, and *)
(* a server of tools.  A behaviour of all is one of each, so which of them  *)
(* moves is chosen at the start.                                            *)
EXTENDS Asking, Screen, Spinner, McpPool

VARIABLE moves

talkVars == <<moves, vars, screenVars, spinnerVars, mcpVars>>

TalkInit ==
    /\ moves \in {"asking", "screen", "row", "server"}
    /\ Init /\ ScreenInit /\ SpinnerInit /\ McpInit
    /\ moves # "asking" => setup = CHOOSE s \in Setups : TRUE

TalkNext ==
    /\ \/ moves = "asking" /\ Next /\ UNCHANGED <<screenVars, spinnerVars, mcpVars>>
       \/ moves = "screen" /\ ScreenNext /\ UNCHANGED <<vars, spinnerVars, mcpVars>>
       \/ moves = "row" /\ SpinnerNext /\ UNCHANGED <<vars, screenVars, mcpVars>>
       \/ moves = "server" /\ McpNext /\ UNCHANGED <<vars, screenVars, spinnerVars>>
    /\ UNCHANGED moves

(* A part that does not move stays where none of these is enabled.          *)
TalkSpec == TalkInit /\ [][TalkNext]_talkVars
            /\ WF_vars(Works) /\ ScreenFairness /\ SpinnerFairness /\ McpFairness

(* Whatever was stopped ends: a refused call of the model, a turn that was  *)
(* interrupted at the screen, a call of a server that never answers, the    *)
(* stop of an activity.  One part moves, so it is the one that ends.        *)
Pending == Answering \/ Leaving \/ Interrupted \/ Stopping
EverythingEnds == Pending ~> ~Pending

-----------------------------------------------------------------------------
(* A session on a plan, with somebody to ask and with nobody, with and      *)
(* without a gateway; one on free models.  What it falls back on is billed, *)
(* free, or nothing.                                                        *)
Start(model, metered, free) ==
    {[start |-> model, metered |-> metered, free |-> free, onLimit |-> l, onFree |-> f,
      somebody |-> b, client |-> TRUE, pinned |-> FALSE] :
        l \in {"ask", "switch", "stop"}, f \in {"free", "paid", "stop"}, b \in BOOLEAN}
Alone(s)  == [s EXCEPT !.client = FALSE]

Every ==
    LET plans == Start(Plan, "paid", <<"f1", "f2">>) IN
    plans \cup {Alone(s) : s \in plans} \cup Start(Plan, "f1", <<"f1", "f2">>)
          \cup Start("f1", "", <<"f1", "f2">>) \cup Start("f1", "paid", <<"f1">>)
          \cup Start("f1", "paid", <<"f1", "f2">>)
=============================================================================
