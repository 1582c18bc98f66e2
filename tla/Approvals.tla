----------------------------- MODULE Approvals -----------------------------
(***************************************************************************)
(* What an action of a tool needs: the floor, the person's rules, the tier *)
(* of the session, and the question that is left; what an "always" keeps,  *)
(* and what becomes of it when /permissions, plan mode or /new put the     *)
(* rules in effect anew.                                                   *)
(*                                                                         *)
(* A command is a program and its words, a file its path, a server's tool  *)
(* its name.  A rule is a family and a pattern: words, exact or with more  *)
(* after them.  Lines that join several commands, globs with a star        *)
(* elsewhere, and which commands are the floor's, are left out.            *)
(***************************************************************************)
EXTENDS Integers, Sequences, SequencesExt, FiniteSets

CONSTANTS
    Actions,     \* what tools do: [family, words, shape, outside, floor]
    Written,     \* rules the person may write: [decision, family, prefix, star]
    MaxEdits,    \* bound of the model: edits of rules, plan mode and /new
    MaxAlways    \* bound of the model: actions the person says "always" to

Families == {"bash", "read", "write", "server", "any"}

(* shape: a program with subcommands, one without, and what is never        *)
(* generalised: a destructive command, a file at the top of the project.    *)
ASSUME ActionsAssumption ==
    \A a \in Actions : /\ a.family \in Families \ {"any"}
                       /\ a.shape \in {"driver", "plain", "exact"}
                       /\ a.words \in Seq(ToSet(a.words)) \ {<<>>}
                       /\ {a.outside, a.floor} \subseteq BOOLEAN

(* What it says of itself is all there is to an action, and whether a       *)
(* command is generalised depends on its program.                           *)
ASSUME WordsAssumption ==
    \A a, b \in Actions : a.family = b.family =>
        /\ a.words = b.words => a = b
        /\ a.family = "bash" /\ a.words[1] = b.words[1] =>
             (a.shape = "exact" <=> b.shape = "exact")
ASSUME WrittenAssumption ==
    \A r \in Written : /\ r.decision \in {"allow", "ask", "deny"} /\ r.family \in Families
                       /\ r.star \in BOOLEAN /\ r.prefix \in Seq(ToSet(r.prefix))
ASSUME ApprovalsBoundsAssumption == {MaxEdits, MaxAlways} \subseteq Nat

VARIABLES
    tier,      \* Agent.Permission
    rules,     \* Agent.Rules
    stored,    \* the rule file
    own,       \* app.sessionRules
    planOn,    \* app.planOn
    inTurn,    \* whether a turn runs
    sub,       \* the action a subagent has judged once
    asking,    \* the action that is asked about
    always,    \* history: what the person answered "always" to in this session
    edits      \* bound of the model

approvalVars == <<tier, rules, stored, own, planOn, inTurn, sub, asking, always, edits>>

NoAction == [family |-> "none"]
Rule(decision, family, prefix, star) ==
    [decision |-> decision, family |-> family, prefix |-> prefix, star |-> star]

-----------------------------------------------------------------------------
(* Rules.Match and judgeWith.                                               *)

Covers(r, a) ==
    /\ r.family \in {a.family, "any"}
    /\ IF r.star THEN IsStrictPrefix(r.prefix, a.words) ELSE r.prefix = a.words

Matching(rs, a) == {i \in DOMAIN rs : Covers(rs[i], a)}

ByTier(a) ==
    CASE a.outside \/ a.family = "server" -> IF tier = "full-auto" THEN "allow" ELSE "ask"
      [] a.family = "read" /\ ~a.outside  -> "allow"
      [] a.family = "write" /\ ~a.outside -> IF tier = "ask" THEN "ask" ELSE "allow"
      [] OTHER -> IF tier = "full-auto" THEN "allow" ELSE "ask"

Judge(a) ==
    IF a.floor THEN "deny"
    ELSE IF Matching(rules, a) # {}
         THEN rules[CHOOSE i \in Matching(rules, a) : \A j \in Matching(rules, a) : j <= i].decision
         ELSE ByTier(a)

(* suggestRule.  What has no command and is no write is taken for a read;   *)
(* a server's tool has no path either.                                      *)
(* Mutant: a destructive command is generalised like any other.             *)
GeneralisedAll(a) ==
    CASE a.family = "server" \/ Len(a.words) = 1 -> [prefix |-> IF a.family = "server" THEN <<>> ELSE a.words,
                                                     star |-> a.family = "server"]
      [] OTHER -> [prefix |-> <<a.words[1]>>, star |-> TRUE]

Generalised(a) ==
    CASE a.family = "server" -> [prefix |-> <<>>, star |-> TRUE]
      [] a.family # "server" /\ (a.shape = "exact" \/ Len(a.words) = 1) ->
            [prefix |-> a.words, star |-> FALSE]
      [] a.family = "bash" /\ Len(a.words) > 1 /\ a.shape # "exact" ->
            [prefix |-> SubSeq(a.words, 1, IF a.shape = "driver" THEN 2 ELSE 1), star |-> TRUE]
      [] OTHER -> [prefix |-> Front(a.words), star |-> TRUE]

Suggested(a) ==
    Rule("allow", IF a.family = "server" THEN "read" ELSE a.family,
         Generalised(a).prefix, Generalised(a).star)

-----------------------------------------------------------------------------
(* activeRules and applyRules: the file's, the session's, plan mode's.      *)

PlanRules == <<Rule("deny", "write", <<>>, TRUE), Rule("deny", "bash", <<>>, TRUE)>>

(* Mutant: plan mode's come first, where any other beats them.              *)
PlanFirst(file, session, on) == (IF on THEN PlanRules ELSE <<>>) \o file \o session

ActiveRules(file, session, on) == file \o session \o (IF on THEN PlanRules ELSE <<>>)

Applied == rules' = ActiveRules(stored', own', planOn')

Edits == /\ ~inTurn /\ edits < MaxEdits /\ edits' = edits + 1
         /\ Applied
         /\ UNCHANGED <<tier, inTurn, sub, asking>>

AddRule(r) ==
    /\ \/ own' = Append(own, r) /\ UNCHANGED stored
       \/ /\ stored' = IF r \in ToSet(stored) THEN stored ELSE Append(stored, r)
          /\ UNCHANGED own
    /\ UNCHANGED <<planOn, always>>
    /\ Edits

(* A rule goes wherever it stands.                                          *)
Without(rs, r) ==
    LET kept[n \in 0..Len(rs)] ==
          IF n = 0 THEN <<>> ELSE IF rs[n] # r THEN Append(kept[n - 1], rs[n]) ELSE kept[n - 1]
    IN  kept[Len(rs)]

ForgetRule(r) ==
    /\ \/ r \in ToSet(own) /\ own' = Without(own, r) /\ UNCHANGED stored
       \/ r \in ToSet(stored) /\ stored' = Without(stored, r) /\ UNCHANGED own
    /\ UNCHANGED <<planOn, always>>
    /\ Edits

PlanMode ==
    /\ planOn' = ~planOn
    /\ UNCHANGED <<stored, own, always>>
    /\ Edits

RulesOfNew ==
    /\ own' = <<>> /\ always' = {}
    /\ UNCHANGED <<stored, planOn>>
    /\ Edits

-----------------------------------------------------------------------------
(* Turns, and the tier: /permissions between them, Shift+Tab also in one,   *)
(* as long as nothing is asked.                                             *)

TurnBegins ==
    /\ ~inTurn /\ inTurn' = TRUE
    /\ UNCHANGED <<tier, rules, stored, own, planOn, sub, asking, always, edits>>

TurnEnds ==
    /\ inTurn /\ asking = NoAction /\ sub = NoAction
    /\ inTurn' = FALSE
    /\ UNCHANGED <<tier, rules, stored, own, planOn, sub, asking, always, edits>>

Tier(t) ==
    /\ asking = NoAction /\ t # tier
    /\ inTurn => <<tier, t>> \in {<<"ask", "auto-approve">>, <<"auto-approve", "full-auto">>,
                                  <<"full-auto", "ask">>}
    /\ tier' = t
    /\ UNCHANGED <<rules, stored, own, planOn, inTurn, sub, asking, always, edits>>

(* guard: what is allowed runs, what is denied does not, and neither        *)
(* changes anything here.                                                   *)
Guard(a) ==
    /\ inTurn /\ asking = NoAction /\ Judge(a) = "ask"
    /\ asking' = a
    /\ UNCHANGED <<tier, rules, stored, own, planOn, inTurn, sub, always, edits>>

AnswerOnce ==
    /\ asking # NoAction /\ asking' = NoAction
    /\ UNCHANGED <<tier, rules, stored, own, planOn, inTurn, sub, always, edits>>

(* keepRule: "always" to what was proposed.                                 *)
AnswerAlways ==
    /\ asking # NoAction /\ asking' = NoAction /\ Cardinality(always) < MaxAlways
    /\ rules' = IF Suggested(asking) \in ToSet(rules) THEN rules
                ELSE Append(rules, Suggested(asking))
    /\ always' = always \cup {asking}
    /\ UNCHANGED <<tier, stored, own, planOn, inTurn, sub, edits>>

(* subagentGuard judges, and guard judges again.                            *)
SubGuard(a) ==
    /\ inTurn /\ sub = NoAction /\ Judge(a) # "ask"
    /\ sub' = a
    /\ UNCHANGED <<tier, rules, stored, own, planOn, inTurn, asking, always, edits>>

SubGuarded ==
    /\ sub # NoAction /\ asking = NoAction
    /\ sub' = NoAction
    /\ asking' = IF Judge(sub) = "ask" THEN sub ELSE asking
    /\ UNCHANGED <<tier, rules, stored, own, planOn, inTurn, always, edits>>

-----------------------------------------------------------------------------
ApprovalsInit ==
    /\ tier = "ask" /\ planOn = FALSE /\ inTurn = FALSE
    /\ stored \in {<<>>} \cup {<<r>> : r \in Written} /\ rules = stored /\ own = <<>>
    /\ sub = NoAction /\ asking = NoAction /\ always = {} /\ edits = 0

ApprovalsNext ==
    \/ \E r \in Written : AddRule(r) \/ ForgetRule(r)
    \/ PlanMode \/ RulesOfNew \/ TurnBegins \/ TurnEnds
    \/ \E t \in {"ask", "auto-approve", "full-auto"} : Tier(t)
    \/ \E a \in Actions : Guard(a) \/ SubGuard(a)
    \/ AnswerOnce \/ AnswerAlways \/ SubGuarded

ApprovalsSpec == ApprovalsInit /\ [][ApprovalsNext]_approvalVars

-----------------------------------------------------------------------------
(* In plan mode nothing is written and nothing is run, and nobody is asked  *)
(* to agree to it: whatever the tier, whatever rules the person has, and    *)
(* whatever was kept before and during plan mode.                           *)
PlanHolds ==
    planOn => \A a \in Actions : a.family \in {"write", "bash"} => Judge(a) = "deny"

(* Below full-auto an action that cannot be taken back runs unasked only if *)
(* the person wrote a rule for it, or said "always" to that very action:    *)
(* no other answer ever stands for it.                                      *)
OnlyAsAgreed ==
    \A a \in Actions :
        Judge(a) = "allow" /\ a.family = "bash" /\ a.shape = "exact" /\ tier # "full-auto" =>
            \/ a \in always
            \/ \E r \in ToSet(stored \o own) : r.decision = "allow" /\ Covers(r, a)

RulesHold == PlanHolds /\ OnlyAsAgreed

(* "kept for this session" (agent.go): what the person said "always" to is  *)
(* not asked again in this session, unless a rule of theirs says so.        *)
KeptForSession ==
    \A a \in always :
        Judge(a) = "ask" => \E r \in ToSet(stored \o own) : r.decision = "ask" /\ Covers(r, a)
=============================================================================
