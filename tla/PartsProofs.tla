---------------------------- MODULE PartsProofs ----------------------------
(***************************************************************************)
(* Theorems about the parts that MCParts checks side by side.  Approvals:  *)
(* ApprovalsRulesHold.  KeyStore: KeyStoreKeepsKeys.  VendorSession:       *)
(* VendorOwnResult, VendorConversationsWhole.  Ratings: RatingsAreTrue.    *)
(* Each part has its inductive invariant, stated before its lemmas.        *)
(***************************************************************************)
EXTENDS KeyStore, Ratings, VendorSession, Approvals, TLAPS, SequenceTheorems,
        WellFoundedInduction

-----------------------------------------------------------------------------
(* Sets of naturals, by which the inductions go.                            *)

LEMMA LeastOf ==
    ASSUME NEW T \in SUBSET Nat, T # {}
    PROVE  \E x \in T : \A y \in T : x <= y
<1> DEFINE Below == {ss \in Nat \X Nat : ss[1] < ss[2]}
<1>1. IsWellFoundedOn(Below, Nat)
  BY NatLessThanWellFounded DEF OpToRel
<1>2. PICK x \in T : \A y \in T : <<y, x>> \notin Below
  BY <1>1, WFMin
<1>3. \A y \in T : y \in Nat /\ x \in Nat
  OBVIOUS
<1>4. \A y \in T : y < x => <<y, x>> \in Below
  BY <1>3
<1> HIDE DEF Below
<1>5. \A y \in T : ~(y < x)
  BY <1>2, <1>4
<1>6. \A y \in T : x <= y
  BY <1>3, <1>5
<1> QED BY <1>6

LEMMA GreatestOf ==
    ASSUME NEW n \in Nat, NEW T \in SUBSET (0..n), T # {}
    PROVE  \E x \in T : \A y \in T : y <= x
<1> DEFINE U == {n - x : x \in T}
<1>1. \A x \in T : x \in Nat /\ n - x \in U /\ n - x \in Nat
  OBVIOUS
<1>2. PICK u \in U : \A y \in U : u <= y
  BY <1>1, LeastOf
<1>3. PICK x \in T : u = n - x
  BY <1>2
<1> HIDE DEF U
<1>4. \A y \in T : n - x <= n - y
  BY <1>1, <1>2, <1>3
<1> QED BY <1>1, <1>4

-----------------------------------------------------------------------------
(***************************************************************************)
(* RulesHold, for all actions and rules, and any number of edits and       *)
(* answers.                                                                *)
(*                                                                         *)
(* The rules in effect are the file's, the session's and plan mode's, in   *)
(* that order, and after them only what was proposed for an action that    *)
(* the person said "always" to.  In plan mode that was no write and no     *)
(* command: none is ever asked about then, and a question does not outlive *)
(* the turn in which plan mode was off.  So plan mode's two are the last   *)
(* that cover a write or a command, and what is proposed for a command     *)
(* covers one that cannot be taken back only if it is that very command.   *)
(***************************************************************************)

Standing == ActiveRules(stored, own, planOn)

(* What may be asked about, and agreed to, as things are.                   *)
Askable(a) == a \in Actions /\ (planOn => a.family \notin {"write", "bash"})

InEffect ==
    /\ Len(Standing) <= Len(rules)
    /\ \A k \in 1..Len(Standing) : rules[k] = Standing[k]
    /\ \A k \in 1..Len(rules) : k > Len(Standing) =>
          \E b \in always : Askable(b) /\ rules[k] = Suggested(b)

Proposals == {Suggested(a) : a \in Actions}

RulesShapes ==
    /\ stored \in Seq(Written) /\ own \in Seq(Written)
    /\ rules \in Seq(Written \cup Proposals \cup {PlanRules[1], PlanRules[2]})
    /\ {planOn, inTurn} \subseteq BOOLEAN
    /\ always \subseteq Actions
    /\ \A a \in {asking, sub} : a # NoAction => a \in Actions

RulesInv ==
    /\ RulesShapes
    /\ InEffect
    /\ asking # NoAction => Askable(asking)
    /\ asking # NoAction \/ sub # NoAction => inTurn

-----------------------------------------------------------------------------
(* The last rule that covers an action decides.                             *)
LEMMA LastDecides ==
    ASSUME NEW M, rules \in Seq(M), NEW a, ~a.floor, Matching(rules, a) # {}
    PROVE  \E i \in DOMAIN rules :
              /\ Covers(rules[i], a) /\ Judge(a) = rules[i].decision
              /\ \A j \in DOMAIN rules : Covers(rules[j], a) => j <= i
<1> DEFINE T == Matching(rules, a)
           Deciding == CHOOSE i \in T : \A j \in T : j <= i
<1>1. T \in SUBSET (0..Len(rules)) /\ Len(rules) \in Nat
  BY DEF Matching
<1>2. \A j : j \in T <=> j \in DOMAIN rules /\ Covers(rules[j], a)
  BY DEF Matching
<1>3. Judge(a) = rules[Deciding].decision
  BY DEF Judge
<1> HIDE DEF T
<1>4. \E i \in T : \A j \in T : j <= i
  BY <1>1, GreatestOf DEF T
<1>5. Deciding \in T /\ \A j \in T : j <= Deciding
  BY <1>4
<1> HIDE DEF Deciding
<1> QED BY <1>2, <1>3, <1>5

LEMMA StandingIs ==
    ASSUME RulesShapes
    PROVE  /\ Standing = stored \o own \o (IF planOn THEN PlanRules ELSE <<>>)
           /\ Standing \in Seq(Written \cup {PlanRules[1], PlanRules[2]})
           /\ Len(Standing) = Len(stored) + Len(own) + (IF planOn THEN 2 ELSE 0)
           /\ planOn => /\ Standing[Len(Standing) - 1] = PlanRules[1]
                        /\ Standing[Len(Standing)] = PlanRules[2]
           /\ \A k \in 1..Len(Standing) :
                 \/ Standing[k] \in ToSet(stored \o own)
                 \/ planOn /\ Standing[k] \in {PlanRules[1], PlanRules[2]}
<1> DEFINE plan == IF planOn THEN PlanRules ELSE <<>>
           both == stored \o own
<1>1. Standing = both \o plan
  BY DEF Standing, ActiveRules
<1>2. /\ plan \in Seq({PlanRules[1], PlanRules[2]})
      /\ Len(plan) = IF planOn THEN 2 ELSE 0
      /\ planOn => plan[1] = PlanRules[1] /\ plan[2] = PlanRules[2]
  <2>1. PlanRules \in Seq({PlanRules[1], PlanRules[2]}) /\ Len(PlanRules) = 2
    BY DEF PlanRules
  <2>2. << >> \in Seq({PlanRules[1], PlanRules[2]}) /\ Len(<< >>) = 0
    OBVIOUS
  <2> HIDE DEF plan
  <2>3. CASE planOn
    BY <2>1, <2>3 DEF plan
  <2>4. CASE ~planOn
    BY <2>2, <2>4 DEF plan
  <2> QED BY <2>3, <2>4
<1>3. both \in Seq(Written) /\ Len(both) = Len(stored) + Len(own)
      /\ Len(stored) \in Nat /\ Len(own) \in Nat
  BY DEF RulesShapes
<1> HIDE DEF plan, both
<1>4. Standing \in Seq(Written \cup {PlanRules[1], PlanRules[2]})
  BY <1>1, <1>2, <1>3
<1>5. Len(Standing) = Len(both) + Len(plan)
  <2> DEFINE W == Written \cup {PlanRules[1], PlanRules[2]}
  <2>1. both \in Seq(W) /\ plan \in Seq(W)
    BY <1>2, <1>3
  <2> HIDE DEF W
  <2> QED BY <1>1, <2>1, ConcatProperties
<1>6. \A k \in 1..Len(Standing) :
         Standing[k] = IF k <= Len(both) THEN both[k] ELSE plan[k - Len(both)]
  BY <1>1, <1>2, <1>3
<1>7. \A k \in 1..Len(both) : both[k] \in ToSet(both)
  BY <1>3 DEF ToSet
<1>8. \A k \in 1..Len(plan) : planOn /\ plan[k] \in {PlanRules[1], PlanRules[2]}
  BY <1>2
<1>9. \A k \in 1..Len(Standing) : k > Len(both) => k - Len(both) \in 1..Len(plan)
  BY <1>2, <1>3, <1>5
<1>10. \A k \in 1..Len(Standing) :
         \/ Standing[k] \in ToSet(both)
         \/ planOn /\ Standing[k] \in {PlanRules[1], PlanRules[2]}
  BY <1>3, <1>6, <1>7, <1>8, <1>9
<1>11. planOn => /\ Standing[Len(Standing) - 1] = PlanRules[1]
                 /\ Standing[Len(Standing)] = PlanRules[2]
  <2> SUFFICES ASSUME planOn PROVE /\ Standing[Len(Standing) - 1] = PlanRules[1]
                                   /\ Standing[Len(Standing)] = PlanRules[2]
    OBVIOUS
  <2>1. Len(Standing) = Len(both) + 2 /\ Len(both) \in Nat
    BY <1>2, <1>3, <1>5
  <2>2. Standing[Len(both) + 1] = plan[1] /\ Standing[Len(both) + 2] = plan[2]
    BY <1>6, <2>1
  <2> QED BY <1>2, <2>1, <2>2
<1> QED BY <1>1, <1>2, <1>3, <1>4, <1>5, <1>10, <1>11 DEF plan, both

-----------------------------------------------------------------------------
(* What a rule covers.                                                      *)

LEMMA WordsAre ==
    ASSUME NEW a \in Actions
    PROVE  a.words \in Seq(ToSet(a.words)) /\ Len(a.words) \in Nat /\ Len(a.words) > 0
BY ActionsAssumption

(* Plan mode's rules cover every write and every command.                   *)
LEMMA PlanCovers ==
    ASSUME NEW a \in Actions
    PROVE  /\ a.family = "write" => Covers(PlanRules[1], a)
           /\ a.family = "bash" => Covers(PlanRules[2], a)
           /\ PlanRules[1].decision = "deny" /\ PlanRules[2].decision = "deny"
<1>1. IsStrictPrefix(<<>>, a.words)
  <2>1. a.words # <<>> /\ Len(a.words) \in Nat /\ a.words \in Seq(ToSet(a.words))
    BY WordsAre
  <2>2. SubSeq(<<>>, 1, 0) = <<>> /\ SubSeq(a.words, 1, 0) = <<>>
    BY <2>1
  <2> QED BY <2>1, <2>2 DEF IsStrictPrefix, IsPrefix
<1>2. /\ PlanRules[1] = Rule("deny", "write", <<>>, TRUE)
      /\ PlanRules[2] = Rule("deny", "bash", <<>>, TRUE)
  BY DEF PlanRules
<1> QED BY <1>1, <1>2 DEF Covers, Rule

(* What is proposed for a read or a server's tool covers neither.           *)
LEMMA ReadsCoverReads ==
    ASSUME NEW a \in Actions, NEW b \in Actions, a.family \in {"write", "bash"},
           b.family \notin {"write", "bash"}
    PROVE  ~Covers(Suggested(b), a)
<1>1. b.family \in {"read", "server"}
  BY ActionsAssumption DEF Families
<1>2. Suggested(b).family = "read"
  BY <1>1 DEF Suggested, Rule
<1> QED BY <1>2 DEF Covers

(* What is proposed for a command covers one that cannot be taken back only *)
(* if it is that one.                                                       *)
LEMMA OnlyThatCommand ==
    ASSUME NEW a \in Actions, NEW b \in Actions, a.family = "bash", a.shape = "exact",
           Covers(Suggested(b), a)
    PROVE  a = b
<1>1. b.family = "bash"
  <2>1. Suggested(b).family = IF b.family = "server" THEN "read" ELSE b.family
    BY DEF Suggested, Rule
  <2>2. b.family # "any"
    BY ActionsAssumption
  <2>3. Suggested(b).family \in {"bash", "any"}
    BY DEF Covers
  <2> QED BY <2>1, <2>2, <2>3
<1>2. /\ Suggested(b).prefix = Generalised(b).prefix
      /\ Suggested(b).star = Generalised(b).star
  BY DEF Suggested, Rule
<1>3. CASE b.shape = "exact" \/ Len(b.words) = 1
  <2>1. Generalised(b) = [prefix |-> b.words, star |-> FALSE]
    BY <1>1, <1>3, WordsAre DEF Generalised
  <2>2. b.words = a.words
    BY <1>2, <2>1 DEF Covers
  <2> QED BY <1>1, <2>2, WordsAssumption
<1>4. CASE b.shape # "exact" /\ Len(b.words) # 1
  <2> DEFINE n == IF b.shape = "driver" THEN 2 ELSE 1
  <2>0. b.words \in Seq(ToSet(b.words)) /\ Len(b.words) \in Nat /\ Len(b.words) > 0
    BY WordsAre
  <2>1. Len(b.words) > 1 /\ n \in 1..Len(b.words) /\ b.words \in Seq(ToSet(b.words))
    <3> DEFINE many == Len(b.words)
    <3>1. many \in Nat /\ many > 0 /\ many # 1
      BY <1>4, <2>0
    <3> HIDE DEF many
    <3>2. many > 1
      BY <3>1
    <3>3. Len(b.words) \in Nat /\ Len(b.words) > 1
      BY <3>1, <3>2 DEF many
    <3>4. 1 \in 1..Len(b.words) /\ 2 \in 1..Len(b.words)
      BY <3>3
    <3> QED BY <2>0, <3>3, <3>4
  <2>2. Generalised(b) = [prefix |-> SubSeq(b.words, 1, n), star |-> TRUE]
    BY <1>1, <1>4, <2>1 DEF Generalised
  <2>3. Generalised(b).prefix = SubSeq(b.words, 1, n) /\ Generalised(b).star = TRUE
    BY <2>2
  <2>4. IsStrictPrefix(SubSeq(b.words, 1, n), a.words)
    BY <1>2, <2>3 DEF Covers
  <2> HIDE DEF n
  <2> DEFINE s == SubSeq(b.words, 1, n)
  <2>5. s \in Seq(ToSet(b.words)) /\ Len(s) = n /\ s[1] = b.words[1]
    BY <2>1
  <2>6. Len(s) <= Len(a.words) /\ SubSeq(s, 1, Len(s)) = SubSeq(a.words, 1, Len(s))
    BY <2>4 DEF IsStrictPrefix, IsPrefix
  <2> HIDE DEF s
  <2>7. SubSeq(s, 1, n)[1] = s[1] /\ SubSeq(a.words, 1, n)[1] = a.words[1]
    BY <2>1, <2>5, <2>6, WordsAre
  <2>8. a.words[1] = b.words[1]
    BY <2>5, <2>6, <2>7
  <2> QED BY <1>1, <1>4, <2>8, WordsAssumption
<1> QED BY <1>3, <1>4

-----------------------------------------------------------------------------
(* The invariant is what RulesHold needs.                                   *)

LEMMA PlanHoldsFrom ==
    ASSUME RulesInv
    PROVE  PlanHolds
<1> SUFFICES ASSUME planOn, NEW a \in Actions, a.family \in {"write", "bash"}
             PROVE  Judge(a) = "deny"
  BY DEF PlanHolds
<1> USE DEF RulesInv
<1> DEFINE n == Len(Standing)
           at == IF a.family = "write" THEN n - 1 ELSE n
<1>1. /\ n \in Nat /\ n >= 2 /\ n <= Len(rules) /\ Len(rules) \in Nat
      /\ DOMAIN rules = 1..Len(rules)
      /\ rules[n - 1] = PlanRules[1] /\ rules[n] = PlanRules[2]
  <2>1. /\ n \in Nat /\ n = Len(stored) + Len(own) + 2 /\ Len(stored) \in Nat /\ Len(own) \in Nat
        /\ Standing[n - 1] = PlanRules[1] /\ Standing[n] = PlanRules[2]
    BY StandingIs DEF RulesShapes
  <2>2. n <= Len(rules) /\ \A k \in 1..n : rules[k] = Standing[k]
    BY DEF InEffect
  <2>3. Len(rules) \in Nat /\ DOMAIN rules = 1..Len(rules)
    BY DEF RulesShapes
  <2> HIDE DEF n
  <2> QED BY <2>1, <2>2, <2>3
<1>2. \A k \in 1..Len(rules) : k > n => ~Covers(rules[k], a)
  BY ReadsCoverReads DEF InEffect, Askable
<1>3. CASE a.floor
  BY <1>3 DEF Judge
<1>4. CASE ~a.floor
  <2> HIDE DEF n
  <2>1. n - 1 \in DOMAIN rules /\ n \in DOMAIN rules
    BY <1>1
  <2>2. Covers(rules[at], a) /\ at \in DOMAIN rules
    BY <1>1, <2>1, PlanCovers
  <2>3. Matching(rules, a) # {}
    BY <2>2 DEF Matching
  <2>4. PICK i \in DOMAIN rules :
             /\ Covers(rules[i], a) /\ Judge(a) = rules[i].decision
             /\ \A j \in DOMAIN rules : Covers(rules[j], a) => j <= i
    BY <1>4, <2>3, LastDecides DEF RulesShapes
  <2>5. at <= i /\ i <= n
    BY <1>1, <1>2, <2>2, <2>4
  <2>6. i \in {n - 1, n}
    BY <1>1, <2>4, <2>5
  <2> QED BY <1>1, <2>4, <2>6, PlanCovers
<1> QED BY <1>3, <1>4

LEMMA OnlyAsAgreedFrom ==
    ASSUME RulesInv
    PROVE  OnlyAsAgreed
<1> SUFFICES ASSUME NEW a \in Actions, Judge(a) = "allow", a.family = "bash",
                    a.shape = "exact", tier # "full-auto"
             PROVE  \/ a \in always
                    \/ \E r \in ToSet(stored \o own) : r.decision = "allow" /\ Covers(r, a)
  BY DEF OnlyAsAgreed
<1> USE DEF RulesInv
<1>1. ~a.floor
  BY DEF Judge
<1>2. Matching(rules, a) # {}
  <2> SUFFICES ASSUME Matching(rules, a) = {} PROVE FALSE
    OBVIOUS
  <2>1. Judge(a) = ByTier(a)
    BY <1>1 DEF Judge
  <2>2. ByTier(a) = "ask"
    BY DEF ByTier
  <2> QED BY <2>1, <2>2
<1>3. PICK i \in DOMAIN rules : Covers(rules[i], a) /\ Judge(a) = rules[i].decision
  BY <1>1, <1>2, LastDecides DEF RulesShapes
<1>4. i \in 1..Len(rules) /\ Len(Standing) \in Nat
  BY StandingIs DEF RulesShapes
<1>5. CASE i > Len(Standing)
  <2>1. PICK b \in always : rules[i] = Suggested(b)
    BY <1>4, <1>5 DEF InEffect
  <2>2. b \in Actions
    BY DEF RulesShapes
  <2> QED BY <1>3, <2>1, <2>2, OnlyThatCommand
<1>6. CASE i <= Len(Standing)
  <2>1. i \in 1..Len(Standing) /\ rules[i] = Standing[i]
    BY <1>4, <1>6 DEF InEffect
  <2>2. rules[i].decision # "deny"
    BY <1>3
  <2>3. rules[i] \in ToSet(stored \o own)
    BY <2>1, <2>2, StandingIs, PlanCovers
  <2> QED BY <1>3, <2>3
<1> QED BY <1>4, <1>5, <1>6

-----------------------------------------------------------------------------
(* Without, whose recursion is well defined and keeps a sequence one.       *)

Keeps(f, s, r, n) ==
    f = [k \in 0..n |->
           IF k = 0 THEN <<>> ELSE IF s[k] # r THEN Append(f[k - 1], s[k]) ELSE f[k - 1]]

LEMMA KeepsFurther ==
    ASSUME NEW s, NEW r, NEW n \in Nat, NEW f, Keeps(f, s, r, n)
    PROVE  \E g : Keeps(g, s, r, n + 1)
<1> DEFINE last == IF s[n + 1] # r THEN Append(f[n], s[n + 1]) ELSE f[n]
           g == [k \in 0..n + 1 |-> IF k = n + 1 THEN last ELSE f[k]]
<1>1. \A k \in 0..n : f[k] = IF k = 0 THEN <<>> ELSE IF s[k] # r THEN Append(f[k - 1], s[k]) ELSE f[k - 1]
  BY DEF Keeps
<1>2. \A k \in 0..n + 1 : g[k] = IF k = n + 1 THEN last ELSE f[k]
  OBVIOUS
<1> HIDE DEF last
<1>3. g[n] = f[n]
  BY <1>2
<1>4. ASSUME NEW k \in 0..n + 1
      PROVE  g[k] = IF k = 0 THEN <<>> ELSE IF s[k] # r THEN Append(g[k - 1], s[k]) ELSE g[k - 1]
  <2> HIDE DEF g
  <2>1. CASE k = n + 1
    BY <1>2, <1>3, <2>1 DEF last
  <2>2. CASE k \in 0..n
    <3>1. g[k] = f[k] /\ (k # 0 => g[k - 1] = f[k - 1])
      BY <1>2, <2>2
    <3> QED BY <1>1, <2>2, <3>1
  <2> QED BY <2>1, <2>2
<1>5. g = [k \in 0..n + 1 |-> g[k]]
  OBVIOUS
<1> HIDE DEF g
<1>6. Keeps(g, s, r, n + 1)
  BY <1>4, <1>5 DEF Keeps
<1> QED BY <1>6

LEMMA KeepsAll ==
    ASSUME NEW s, NEW r, NEW n \in Nat
    PROVE  \E f : Keeps(f, s, r, n)
<1> DEFINE T == {k \in Nat : ~\E f : Keeps(f, s, r, k)}
<1>1. ASSUME T # {} PROVE FALSE
  <2>1. PICK k \in T : \A y \in T : k <= y
    BY <1>1, LeastOf
  <2>2. k # 0
    <3> DEFINE f == [i \in 0..0 |-> <<>>]
    <3>1. f = [i \in 0..0 |-> IF i = 0 THEN <<>>
                              ELSE IF s[i] # r THEN Append(f[i - 1], s[i]) ELSE f[i - 1]]
      OBVIOUS
    <3> HIDE DEF f
    <3>2. Keeps(f, s, r, 0)
      BY <3>1 DEF Keeps
    <3>3. 0 \notin T
      BY <3>2
    <3> QED BY <2>1, <3>3
  <2>3. k - 1 \in Nat /\ k - 1 \notin T
    BY <2>1, <2>2
  <2>4. PICK f : Keeps(f, s, r, k - 1)
    BY <2>3
  <2>5. \E g : Keeps(g, s, r, (k - 1) + 1)
    BY <2>3, <2>4, KeepsFurther
  <2>6. (k - 1) + 1 = k
    BY <2>1
  <2> QED BY <2>1, <2>5, <2>6
<1> QED BY <1>1

LEMMA WithoutType ==
    ASSUME NEW M, NEW s \in Seq(M), NEW r
    PROVE  Without(s, r) \in Seq(M)
<1> DEFINE f == CHOOSE f : Keeps(f, s, r, Len(s))
<1>1. Keeps(f, s, r, Len(s))
  BY KeepsAll
<1>2. Without(s, r) = f[Len(s)]
  BY DEF Without, Keeps
<1> HIDE DEF f
<1>3. \A k \in 0..Len(s) : f[k] = IF k = 0 THEN <<>> ELSE IF s[k] # r THEN Append(f[k - 1], s[k]) ELSE f[k - 1]
  BY <1>1 DEF Keeps
<1> DEFINE T == {k \in 0..Len(s) : f[k] \notin Seq(M)}
<1>4. T \in SUBSET Nat /\ \A k : k \in T <=> k \in 0..Len(s) /\ f[k] \notin Seq(M)
  OBVIOUS
<1> HIDE DEF T
<1>5. ASSUME T # {} PROVE FALSE
  <2>1. PICK k \in T : \A y \in T : k <= y
    BY <1>4, <1>5, LeastOf
  <2>2. k \in 0..Len(s) /\ k # 0
    <3>1. f[0] = <<>>
      BY <1>3
    <3>2. f[0] \in Seq(M)
      BY <3>1, EmptySeq
    <3> QED BY <1>4, <2>1, <3>2
  <2>3. k - 1 \in 0..Len(s) /\ k - 1 \notin T /\ s[k] \in M
    BY <1>4, <2>1, <2>2
  <2>4. f[k - 1] \in Seq(M)
    BY <1>4, <2>3
  <2>5. f[k] = IF s[k] # r THEN Append(f[k - 1], s[k]) ELSE f[k - 1]
    BY <1>3, <2>2
  <2>6. f[k] \in Seq(M)
    BY <2>3, <2>4, <2>5
  <2> QED BY <1>4, <2>1, <2>6
<1> QED BY <1>2, <1>4, <1>5

-----------------------------------------------------------------------------
(* Steps.                                                                   *)

LEMMA RulesStart == ApprovalsInit => RulesInv
<1> SUFFICES ASSUME ApprovalsInit PROVE RulesInv
  OBVIOUS
<1>0. /\ stored \in {<<>>} \cup {<<r>> : r \in Written} /\ rules = stored
      /\ own = <<>> /\ planOn = FALSE /\ inTurn = FALSE
      /\ sub = NoAction /\ asking = NoAction /\ always = {}
  BY DEF ApprovalsInit
<1>1. stored \in Seq(Written) /\ own \in Seq(Written)
  <2>1. << >> \in Seq(Written) /\ \A r \in Written : << r >> \in Seq(Written)
    OBVIOUS
  <2> QED BY <1>0, <2>1
<1>2. Standing = stored
  BY <1>0, <1>1 DEF Standing, ActiveRules
<1>3. InEffect
  BY <1>0, <1>1, <1>2 DEF InEffect
<1>4. RulesShapes
  <2>1. rules \in Seq(Written \cup Proposals \cup {PlanRules[1], PlanRules[2]})
    BY <1>0, <1>1
  <2> QED BY <1>0, <1>1, <2>1 DEF RulesShapes
<1> QED BY <1>0, <1>3, <1>4 DEF RulesInv

(* An edit puts the rules in effect anew.                                   *)
LEMMA EditsKeep ==
    ASSUME RulesInv, Edits, planOn' \in BOOLEAN, stored' \in Seq(Written), own' \in Seq(Written),
           always' \subseteq always
    PROVE  RulesInv'
<1> USE DEF RulesInv
<1>1. rules' = Standing'
  BY DEF Edits, Applied, Standing
<1>2. asking' = NoAction /\ sub' = NoAction /\ inTurn' = inTurn
  BY DEF Edits
<1>3. Standing' \in Seq(Written \cup {PlanRules[1], PlanRules[2]})
  <2> DEFINE plan == IF planOn' THEN PlanRules ELSE <<>>
             both == stored' \o own'
             W == Written \cup {PlanRules[1], PlanRules[2]}
  <2>1. Standing' = both \o plan
    BY DEF Standing, ActiveRules
  <2>2. PlanRules \in Seq(W) /\ << >> \in Seq(W)
    BY DEF PlanRules
  <2>3. both \in Seq(W)
    OBVIOUS
  <2> HIDE DEF both, W
  <2>4. plan \in Seq(W)
    BY <2>2
  <2> HIDE DEF plan
  <2> QED BY <2>1, <2>3, <2>4, ConcatProperties DEF W
<1>4. RulesShapes'
  BY <1>1, <1>2, <1>3 DEF RulesShapes
<1>5. InEffect'
  BY <1>1, <1>3 DEF InEffect
<1> QED BY <1>2, <1>4, <1>5

(* Steps that leave the rules and what was agreed to.                       *)
LEMMA RulesRest ==
    ASSUME RulesInv, UNCHANGED <<rules, stored, own, planOn, always>>, inTurn' \in BOOLEAN,
           asking' # NoAction => Askable(asking'), sub' # NoAction => sub' \in Actions,
           asking' # NoAction \/ sub' # NoAction => inTurn'
    PROVE  RulesInv'
<1>1. Standing' = Standing /\ \A a : Askable(a)' <=> Askable(a)
  BY DEF Standing, ActiveRules, Askable
<1>2. InEffect'
  BY <1>1 DEF RulesInv, InEffect, Askable
<1>3. RulesShapes'
  BY DEF RulesInv, RulesShapes, Askable
<1> QED BY <1>1, <1>2, <1>3 DEF RulesInv, Askable

LEMMA AskedIsAskable ==
    ASSUME RulesInv, NEW a \in Actions, Judge(a) = "ask"
    PROVE  Askable(a)
BY PlanHoldsFrom DEF PlanHolds, Askable

(* What was proposed goes after all other rules, if it is not there.        *)
LEMMA AlwaysKeeps ==
    ASSUME RulesInv, AnswerAlways
    PROVE  RulesInv'
<1> USE DEF RulesInv, AnswerAlways
<1>1. Askable(asking) /\ asking \in Actions /\ inTurn
  BY DEF Askable
<1>2. Standing' = Standing /\ \A a : Askable(a)' <=> Askable(a)
  BY DEF Standing, ActiveRules, Askable
<1> DEFINE M == Written \cup Proposals \cup {PlanRules[1], PlanRules[2]}
<1>3. rules \in Seq(M) /\ Suggested(asking) \in M
  BY <1>1 DEF RulesShapes, Proposals
<1> HIDE DEF M
<1>4. /\ Len(rules') \in Nat /\ Len(rules) \in Nat /\ rules' \in Seq(M)
      /\ Len(rules) <= Len(rules')
      /\ \A k \in 1..Len(rules) : rules'[k] = rules[k]
      /\ \A k \in 1..Len(rules') : k > Len(rules) => rules'[k] = Suggested(asking)
  <2>1. CASE Suggested(asking) \in ToSet(rules)
    BY <1>3, <2>1
  <2>2. CASE Suggested(asking) \notin ToSet(rules)
    <3>1. rules' = Append(rules, Suggested(asking))
      BY <2>2
    <3> QED BY <1>3, <3>1
  <2> QED BY <2>1, <2>2
<1>5. Len(Standing) \in Nat /\ Len(Standing) <= Len(rules)
  BY StandingIs DEF RulesShapes, InEffect
<1>6. InEffect'
  <2>1. ASSUME NEW k \in 1..Len(rules'), k > Len(Standing)
        PROVE  \E b \in always' : Askable(b) /\ rules'[k] = Suggested(b)
    <3>1. CASE k <= Len(rules)
      <4>1. k \in 1..Len(rules)
        BY <1>4, <3>1
      <4>2. PICK b \in always : Askable(b) /\ rules[k] = Suggested(b)
        BY <2>1, <4>1 DEF InEffect
      <4> QED BY <1>4, <4>1, <4>2
    <3>2. CASE k > Len(rules)
      <4>1. rules'[k] = Suggested(asking) /\ asking \in always'
        BY <1>4, <3>2
      <4> QED BY <1>1, <4>1
    <3> QED BY <1>4, <3>1, <3>2
  <2>2. \A k \in 1..Len(Standing) : rules'[k] = Standing[k]
    BY <1>4, <1>5 DEF InEffect
  <2>3. Len(Standing) <= Len(rules')
    BY <1>4, <1>5
  <2> QED BY <1>2, <2>1, <2>2, <2>3 DEF InEffect
<1>7. RulesShapes'
  BY <1>1, <1>4 DEF RulesShapes, M, Proposals
<1> QED BY <1>1, <1>6, <1>7

LEMMA RulesKept == RulesInv /\ [ApprovalsNext]_approvalVars => RulesInv'
<1> SUFFICES ASSUME RulesInv, [ApprovalsNext]_approvalVars PROVE RulesInv'
  OBVIOUS
<1>0. /\ stored \in Seq(Written) /\ own \in Seq(Written) /\ planOn \in BOOLEAN /\ inTurn \in BOOLEAN
      /\ asking # NoAction => Askable(asking) /\ inTurn
      /\ sub # NoAction => sub \in Actions /\ inTurn
  BY DEF RulesInv, RulesShapes
<1>1. ASSUME NEW r \in Written, AddRule(r) PROVE RulesInv'
  <2>1. Append(own, r) \in Seq(Written) /\ Append(stored, r) \in Seq(Written)
    BY <1>0
  <2>2. own' \in Seq(Written) /\ stored' \in Seq(Written)
    BY <1>0, <1>1, <2>1 DEF AddRule
  <2>3. planOn' = planOn /\ always' = always /\ Edits
    BY <1>1 DEF AddRule
  <2> QED BY <1>0, <2>2, <2>3, EditsKeep
<1>2. ASSUME NEW r \in Written, ForgetRule(r) PROVE RulesInv'
  <2>1. Without(own, r) \in Seq(Written) /\ Without(stored, r) \in Seq(Written)
    BY <1>0, WithoutType
  <2>2. own' \in Seq(Written) /\ stored' \in Seq(Written)
    BY <1>0, <1>2, <2>1 DEF ForgetRule
  <2>3. planOn' = planOn /\ always' = always /\ Edits
    BY <1>2 DEF ForgetRule
  <2> QED BY <1>0, <2>2, <2>3, EditsKeep
<1>3. CASE PlanMode
  BY <1>0, <1>3, EditsKeep DEF PlanMode
<1>4. CASE RulesOfNew
  <2>1. own' \in Seq(Written) /\ always' \subseteq always
    BY <1>4 DEF RulesOfNew
  <2> QED BY <1>0, <1>4, <2>1, EditsKeep DEF RulesOfNew
<1>5. CASE TurnBegins
  BY <1>0, <1>5, RulesRest DEF TurnBegins
<1>6. CASE TurnEnds
  BY <1>0, <1>6, RulesRest DEF TurnEnds
<1>7. ASSUME NEW t, Tier(t) PROVE RulesInv'
  BY <1>0, <1>7, RulesRest DEF Tier
<1>8. ASSUME NEW a \in Actions, Guard(a) PROVE RulesInv'
  BY <1>0, <1>8, AskedIsAskable, RulesRest DEF Guard
<1>9. ASSUME NEW a \in Actions, SubGuard(a) PROVE RulesInv'
  BY <1>0, <1>9, RulesRest DEF SubGuard
<1>10. CASE AnswerOnce
  BY <1>0, <1>10, RulesRest DEF AnswerOnce
<1>11. CASE SubGuarded
  <2>1. asking' # NoAction => Askable(asking')
    BY <1>0, <1>11, AskedIsAskable DEF SubGuarded
  <2>2. inTurn' = inTurn /\ inTurn
    BY <1>0, <1>11 DEF SubGuarded
  <2> QED BY <1>0, <1>11, <2>1, <2>2, RulesRest DEF SubGuarded
<1>12. CASE UNCHANGED approvalVars
  BY <1>0, <1>12, RulesRest DEF approvalVars
<1> QED BY <1>1, <1>2, <1>3, <1>4, <1>5, <1>6, <1>7, <1>8, <1>9, <1>10, <1>11, <1>12,
           AlwaysKeeps DEF ApprovalsNext

LEMMA RulesInvariant == ApprovalsSpec => []RulesInv
BY RulesStart, RulesKept, PTL DEF ApprovalsSpec

(* Nothing is written or run in plan mode, and below full-auto a command    *)
(* that cannot be taken back runs unasked only as the person agreed to it.  *)
THEOREM ApprovalsRulesHold == ApprovalsSpec => []RulesHold
<1>1. RulesInv => RulesHold
  BY PlanHoldsFrom, OnlyAsAgreedFrom DEF RulesHold
<1> QED BY <1>1, RulesInvariant, PTL

-----------------------------------------------------------------------------
(***************************************************************************)
(* KeyKept, for any processes and providers, and any number of commands    *)
(* and faults.                                                             *)
(*                                                                         *)
(* Unless one of the three exceptions has happened, what is seen of the    *)
(* files and what a power cut leaves of them both answer with a key that   *)
(* the provider may be said to have.  A row that lasts is seen, and none   *)
(* goes away; where the settings that are seen and those that last differ, *)
(* a row that lasts stands for them.  A command that saves the manifest    *)
(* has read it as it is: it has the lock, or it is a move, and then nobody *)
(* else is at work.  And each command knows, at each place, what its next  *)
(* write relies on (CmdOK).                                                *)
(***************************************************************************)

Active(c)  == c.at # "idle"
Holding(c) == c.at \in {"migrating", "setting", "clean"}
Mover(c)   == Active(c) /\ Moves(c)

Rows  == [backend : {"none", "file", "keychain"}, key : Nat]
Table == [Providers -> Rows]

Cmds ==
    [at : {"idle", "legacy", "migrate", "migrating", "clean", "store", "set", "setting",
           "add", "prove", "route", "routing", "delete", "end", "back"},
     for : Providers, key : Nat, then : {"end", "set", "store", "back"}, copy : Table]

KeyShapes ==
    /\ manifest \in [seen : Table, lasts : Table]
    /\ settings \in [seen : {0, Legacy}, lasts : {0, Legacy}]
    /\ keychain \in [Providers -> Nat] /\ known \in [Providers -> SUBSET Nat]
    /\ cmd \in [Procs -> Cmds] /\ lock \in Procs \cup {Free}
    /\ excused \in BOOLEAN /\ bounds \in [commands : Nat, faults : Nat]

(* What a row answers, where the settings have the key s.                   *)
Answers(r, row, s) ==
    IF r = "openrouter" /\ row = NoRow THEN s
    ELSE IF row = Routed THEN keychain[r] ELSE row.key

AnswersRight(r) ==
    /\ Answers(r, manifest.seen[r], settings.seen) \in known[r]
    /\ Answers(r, manifest.lasts[r], settings.lasts) \in known[r]

FilesRight ==
    /\ \A r \in Providers : AnswersRight(r)
    /\ \A r \in Providers : manifest.lasts[r] # NoRow => manifest.seen[r] # NoRow
    /\ settings.seen # settings.lasts => manifest.lasts["openrouter"] # NoRow

CmdOK(c) ==
    /\ c.at \in {"migrating", "setting", "routing"} => c.copy = manifest.seen
    /\ c.at \in {"migrate", "migrating"} =>
          settings.seen = Legacy \/ manifest.seen["openrouter"] # NoRow
    /\ c.at = "clean" => manifest.lasts["openrouter"] # NoRow
    /\ c.at \in {"add", "prove", "route", "routing"} => c.key \in known[c.for]
    /\ c.at \in {"route", "routing"} => keychain[c.for] = c.key
    /\ c.at \in {"set", "setting"} /\ c.then = "back" =>
          keychain[c.for] = c.key /\ c.key \in known[c.for]
    /\ c.at = "delete" => manifest.lasts[c.for] = File(c.key)

MoversAlone == \A p, q \in Procs : Mover(cmd[p]) /\ p # q => ~Active(cmd[q])

KeysInv ==
    /\ KeyShapes
    /\ \A p \in Procs : Holding(cmd[p]) => lock = p
    /\ ~excused => FilesRight /\ MoversAlone /\ \A p \in Procs : CmdOK(cmd[p])

-----------------------------------------------------------------------------
(* Every step but a power cut is one process's.                             *)
LEMMA KeysStep ==
    ASSUME KeysInv, KeyShapes', NEW p \in Procs, NEW c \in Cmds, cmd' = [cmd EXCEPT ![p] = c],
           Holding(c) => lock' = p,
           \A q \in Procs \ {p} : lock = q => lock' = q,
           excused => excused',
           ~excused' => FilesRight' /\ CmdOK(c)',
           ~excused' => \A q \in Procs \ {p} :
              /\ ~Mover(cmd[q]) /\ (Mover(c) => ~Active(cmd[q]))
              /\ Holding(cmd[q]) => manifest'.seen = manifest.seen,
           ~excused' => \A r \in Providers :
              /\ manifest.seen[r] # NoRow => manifest'.seen[r] # NoRow
              /\ manifest.lasts[r] # NoRow => manifest'.lasts[r] # NoRow,
           ~excused' => settings'.seen = settings.seen \/ manifest'.seen["openrouter"] # NoRow
    PROVE  KeysInv'
<1>1. /\ cmd \in [Procs -> Cmds] /\ cmd'[p] = c
      /\ \A q \in Procs \ {p} : cmd'[q] = cmd[q]
  BY DEF KeysInv, KeyShapes
<1>2. \A q \in Procs : Holding(cmd'[q]) => lock' = q
  BY <1>1 DEF KeysInv
<1>3. ASSUME ~excused' PROVE MoversAlone' /\ \A q \in Procs : CmdOK(cmd[q])'
  <2>1. MoversAlone'
    <3> SUFFICES ASSUME NEW q \in Procs, NEW r \in Procs, Mover(cmd'[q]), q # r
                 PROVE  ~Active(cmd'[r])
      BY DEF MoversAlone
    <3>1. q = p
      BY <1>1, <1>3
    <3> QED BY <1>1, <1>3, <3>1
  <2>2. ASSUME NEW q \in Procs, q # p PROVE CmdOK(cmd[q])'
    <3>1. CmdOK(cmd[q]) /\ ~Mover(cmd[q]) /\ cmd'[q] = cmd[q]
      BY <1>1, <1>3, <2>2 DEF KeysInv
    <3>2. Holding(cmd[q]) => manifest'.seen = manifest.seen
      BY <1>3, <2>2
    <3>3. cmd[q].at \notin {"add", "prove", "route", "routing", "delete"}
          /\ (cmd[q].at \in {"set", "setting"} => cmd[q].then # "back")
      BY <3>1 DEF Mover, Moves, Active
    <3>4. "openrouter" \in Providers
      BY ProvidersAssumption
    <3> QED BY <1>3, <3>1, <3>2, <3>3, <3>4 DEF CmdOK, Holding
  <2>3. CmdOK(cmd[p])'
    BY <1>1, <1>3
  <2> QED BY <2>1, <2>2, <2>3
<1> QED BY <1>2, <1>3 DEF KeysInv

(* A process that is at work is no mover's neighbour.                       *)
LEMMA AtWork ==
    ASSUME KeysInv, NEW p \in Procs, NEW q \in Procs \ {p}, ~excused
    PROVE  /\ Active(cmd[p]) => ~Mover(cmd[q])
           /\ Mover(cmd[p]) => ~Active(cmd[q])
BY DEF KeysInv, MoversAlone, Mover

LEMMA NoOtherHolds ==
    ASSUME KeysInv, NEW p \in Procs, NEW q \in Procs \ {p}, lock = p \/ lock = Free
    PROVE  ~Holding(cmd[q])
BY ProcsAssumption DEF KeysInv, Free

(* A step that writes no file and no item.                                  *)
LEMMA KeysRead ==
    ASSUME KeysInv, NEW p \in Procs, NEW c \in Cmds, cmd' = [cmd EXCEPT ![p] = c],
           UNCHANGED <<files, keychain, known>>, KeyShapes',
           Holding(c) => lock' = p,
           \A q \in Procs \ {p} : lock = q => lock' = q,
           excused => excused',
           ~excused' => CmdOK(c)',
           ~excused' => \A q \in Procs \ {p} : ~Mover(cmd[q]) /\ (Mover(c) => ~Active(cmd[q]))
    PROVE  KeysInv'
<1>1. ~excused' => FilesRight'
  BY DEF KeysInv, FilesRight, AnswersRight, Answers, files
<1>2. /\ manifest' = manifest /\ settings' = settings
      /\ manifest'.seen = manifest.seen /\ manifest'.lasts = manifest.lasts
      /\ settings'.seen = settings.seen
  BY DEF files
<1> QED BY <1>1, <1>2, KeysStep

LEMMA QuietIs ==
    ASSUME KeyShapes
    PROVE  Quiet \in Cmds /\ ~Active(Quiet) /\ ~Holding(Quiet) /\ ~Mover(Quiet) /\ CmdOK(Quiet)'
<1>1. "openrouter" \in Providers
  BY ProvidersAssumption
<1>2. NoRow \in Rows
  BY DEF NoRow, Rows
<1>3. Quiet \in Cmds
  BY <1>1, <1>2 DEF Quiet, Cmds, Table
<1>4. Quiet.at = "idle"
  BY DEF Quiet
<1> QED BY <1>3, <1>4 DEF Active, Holding, Mover, CmdOK

-----------------------------------------------------------------------------
(* The start of a command.                                                  *)
LEMMA KeysBegin ==
    ASSUME KeysInv, NEW p \in Procs, NEW c \in Cmds, Start(p, c), Count("commands"),
           UNCHANGED <<files, keychain, lock, known>>, ~Holding(c), ~excused' => CmdOK(c)'
    PROVE  KeysInv'
<1>1. cmd' = [cmd EXCEPT ![p] = c] /\ excused \in BOOLEAN /\ excused' \in BOOLEAN
  BY DEF Start, KeysInv, KeyShapes
<1>2. excused => excused'
  BY DEF Start
<1>3. ~excused' => \A q \in Procs \ {p} : ~Active(cmd[q]) \/ ~(Moves(c) \/ Moves(cmd[q]))
  BY DEF Start, Active
<1>4. bounds' \in [commands : Nat, faults : Nat]
  BY DEF Count, KeysInv, KeyShapes
<1>5. KeyShapes'
  BY <1>1, <1>4 DEF KeysInv, KeyShapes, files
<1>6. ~excused' => \A q \in Procs \ {p} : ~Mover(cmd[q]) /\ (Mover(c) => ~Active(cmd[q]))
  BY <1>3 DEF Mover
<1> QED BY <1>1, <1>2, <1>5, <1>6, KeysRead

LEMMA EnterKeyKeeps ==
    ASSUME KeysInv, NEW p \in Procs, NEW r \in Providers, EnterKey(p, r)
    PROVE  KeysInv'
<1>1. Quiet \in Cmds /\ bounds.commands + 3 \in Nat
  BY QuietIs DEF KeysInv, KeyShapes
<1>0. PICK c : c = [Quiet EXCEPT !.at = "legacy", !.for = r, !.key = bounds.commands + 3,
                                 !.then = "set"]
  OBVIOUS
<1>2. c \in Cmds /\ c.at = "legacy"
  BY <1>0, <1>1 DEF Cmds
<1>3. Start(p, c) /\ Count("commands") /\ UNCHANGED <<files, keychain, lock, known>>
  BY <1>0 DEF EnterKey
<1>4. ~Holding(c) /\ CmdOK(c)'
  BY <1>2 DEF Holding, CmdOK
<1> QED BY <1>2, <1>3, <1>4, KeysBegin

LEMMA ChangeSettingKeeps ==
    ASSUME KeysInv, NEW p \in Procs, ChangeSetting(p) \/ StoreAtOnce(p)
    PROVE  KeysInv'
<1>1. Quiet \in Cmds
  BY QuietIs DEF KeysInv
<1>2. PICK c \in Cmds : c.at \in {"legacy", "store"} /\ Start(p, c)
  <2>1. /\ [Quiet EXCEPT !.at = "legacy", !.then = "store"] \in Cmds
        /\ [Quiet EXCEPT !.at = "legacy", !.then = "store"].at = "legacy"
        /\ [Quiet EXCEPT !.at = "store"] \in Cmds /\ [Quiet EXCEPT !.at = "store"].at = "store"
    BY <1>1 DEF Cmds
  <2> QED BY <2>1 DEF ChangeSetting, StoreAtOnce
<1>3. Count("commands") /\ UNCHANGED <<files, keychain, lock, known>>
  BY DEF ChangeSetting, StoreAtOnce
<1>4. ~Holding(c) /\ CmdOK(c)'
  BY <1>2 DEF Holding, CmdOK
<1> QED BY <1>2, <1>3, <1>4, KeysBegin

(* A move has the key that the provider has.                                *)
LEMMA MoveKeeps ==
    ASSUME KeysInv, NEW p \in Procs, NEW r \in Providers, Move(p, r)
    PROVE  KeysInv'
<1> DEFINE routed == manifest.seen[r] = Routed
<1>1. Quiet \in Cmds /\ Obtain(r) \in Nat
  <2>1. manifest.seen[r] \in Rows /\ keychain[r] \in Nat
    BY DEF KeysInv, KeyShapes, Table
  <2> QED BY <2>1, QuietIs DEF KeysInv, Obtain, Rows
<1>0. PICK c : c = [Quiet EXCEPT !.for = r, !.key = Obtain(r),
                                 !.at = IF routed THEN "set" ELSE "add",
                                 !.then = IF routed THEN "back" ELSE "end"]
  OBVIOUS
<1>2. /\ c \in Cmds /\ c.for = r /\ c.key = Obtain(r)
      /\ c.at = (IF routed THEN "set" ELSE "add")
      /\ c.then = (IF routed THEN "back" ELSE "end")
  BY <1>0, <1>1 DEF Cmds
<1>3. /\ Start(p, c) /\ Count("commands") /\ UNCHANGED <<files, keychain, lock, known>>
      /\ manifest.seen[r] # NoRow
  BY <1>0 DEF Move
<1>4. excused => excused'
  BY <1>3 DEF Start
<1>5. ~excused' => Obtain(r) \in known[r]
  BY <1>3, <1>4 DEF KeysInv, FilesRight, AnswersRight, Answers, Obtain
<1>6. routed => Obtain(r) = keychain[r]
  BY DEF Obtain
<1>7. ~Holding(c)
  BY <1>2 DEF Holding
<1>8. ~excused' => CmdOK(c)'
  <2>1. keychain' = keychain /\ known' = known
    BY <1>3
  <2>2. c.at \in {"set", "add"} /\ (c.at = "set" => routed)
    BY <1>2
  <2> HIDE DEF routed
  <2> QED BY <1>2, <1>5, <1>6, <2>1, <2>2 DEF CmdOK
<1> QED BY <1>2, <1>3, <1>7, <1>8, KeysBegin

-----------------------------------------------------------------------------
(* Steps of a command that write nothing.                                   *)

LEMMA AcquireKeeps ==
    ASSUME KeysInv, NEW p \in Procs, Acquire(p)
    PROVE  KeysInv'
<1>1. cmd[p] \in Cmds /\ manifest.seen \in Table /\ cmd[p].at \in {"migrate", "set"}
  BY DEF KeysInv, KeyShapes, Acquire
<1>0. PICK c : c = [cmd[p] EXCEPT !.copy = manifest.seen,
                                  !.at = IF @ = "migrate" THEN "migrating" ELSE "setting"]
  OBVIOUS
<1>2. /\ c \in Cmds /\ c.copy = manifest.seen
      /\ c.for = cmd[p].for /\ c.key = cmd[p].key /\ c.then = cmd[p].then
      /\ c.at = (IF cmd[p].at = "migrate" THEN "migrating" ELSE "setting")
  BY <1>0, <1>1 DEF Cmds
<1>3. /\ cmd' = [cmd EXCEPT ![p] = c] /\ lock = Free /\ lock' = p
      /\ UNCHANGED <<files, keychain, known>> /\ UNCHANGED <<excused, bounds>>
  BY <1>0 DEF Acquire, history
<1>4. KeyShapes'
  BY <1>2, <1>3 DEF KeysInv, KeyShapes, files
<1>5. \A q \in Procs \ {p} : lock # q
  BY <1>3, ProcsAssumption DEF Free
<1>6. Mover(c) => Mover(cmd[p])
  BY <1>1, <1>2 DEF Mover, Moves, Active
<1>7. Active(cmd[p])
  BY <1>1 DEF Active
<1>8. ~excused' => CmdOK(c)'
  <2> SUFFICES ASSUME ~excused' PROVE CmdOK(c)'
    OBVIOUS
  <2>1. CmdOK(cmd[p])
    BY <1>3 DEF KeysInv
  <2>2. manifest' = manifest /\ settings' = settings /\ keychain' = keychain /\ known' = known
    BY <1>3 DEF files
  <2> QED BY <1>1, <1>2, <2>1, <2>2 DEF CmdOK
<1>9. ~excused' => \A q \in Procs \ {p} : ~Mover(cmd[q]) /\ (Mover(c) => ~Active(cmd[q]))
  BY <1>3, <1>6, <1>7, AtWork
<1> QED BY <1>2, <1>3, <1>4, <1>5, <1>8, <1>9, KeysRead

(* A process at work goes on, or ends, keeping the lock if it has it.       *)
LEMMA KeysGo ==
    ASSUME KeysInv, NEW p \in Procs, NEW c \in Cmds, Active(cmd[p]), cmd' = [cmd EXCEPT ![p] = c],
           UNCHANGED <<files, keychain, known>>, bounds' \in [commands : Nat, faults : Nat],
           lock' = lock \/ (lock = p /\ lock' = Free),
           Holding(c) => Holding(cmd[p]) /\ lock' = lock,
           excused' \in BOOLEAN, excused => excused',
           Mover(c) => Mover(cmd[p]),
           ~excused' => CmdOK(c)'
    PROVE  KeysInv'
<1>1. KeyShapes'
  BY DEF KeysInv, KeyShapes, files
<1>2. Holding(c) => lock' = p
  BY DEF KeysInv
<1>3. \A q \in Procs \ {p} : lock = q => lock' = q
  OBVIOUS
<1>4. ~excused' => \A q \in Procs \ {p} : ~Mover(cmd[q]) /\ (Mover(c) => ~Active(cmd[q]))
  BY AtWork
<1> QED BY <1>1, <1>2, <1>3, <1>4, KeysRead

LEMMA ReadSettingsKeeps ==
    ASSUME KeysInv, NEW p \in Procs, ReadSettings(p)
    PROVE  KeysInv'
<1> DEFINE at == IF settings.seen = 0 THEN cmd[p].then ELSE "migrate"
<1>1. cmd[p] \in Cmds /\ cmd[p].at = "legacy"
  BY DEF KeysInv, KeyShapes, ReadSettings
<1>0. PICK c : c = [cmd[p] EXCEPT !.at = at]
  OBVIOUS
<1>2. c \in Cmds /\ c.at = at /\ c.then = cmd[p].then
  BY <1>0, <1>1 DEF Cmds
<1>3. /\ cmd' = [cmd EXCEPT ![p] = c]
      /\ UNCHANGED <<files, keychain, known>> /\ UNCHANGED <<excused, bounds, lock>>
  BY <1>0 DEF ReadSettings, Goes, history
<1>4. at \in {"end", "set", "store", "back", "migrate"}
      /\ (at = "set" => c.then = "set") /\ (at = "migrate" => settings.seen = Legacy)
  BY <1>1, <1>2 DEF KeysInv, KeyShapes, Cmds
<1>5. bounds \in [commands : Nat, faults : Nat] /\ excused \in BOOLEAN
  BY DEF KeysInv, KeyShapes
<1> HIDE DEF at
<1>6. settings' = settings
  BY <1>3 DEF files
<1>7. CmdOK(c)'
  BY <1>2, <1>4, <1>6 DEF CmdOK
<1>8. Active(cmd[p]) /\ ~Holding(c) /\ (Mover(c) => Mover(cmd[p]))
  BY <1>1, <1>2, <1>4 DEF Active, Holding, Mover, Moves
<1> QED BY <1>2, <1>3, <1>5, <1>7, <1>8, KeysGo

(* A command that ends writes nothing more and lets the lock go.            *)
LEMMA KeysEnd ==
    ASSUME KeysInv, NEW p \in Procs, Active(cmd[p]), Ends(p),
           Unlocks(p) \/ UNCHANGED lock, UNCHANGED <<files, keychain, known>>,
           bounds' \in [commands : Nat, faults : Nat], excused' \in BOOLEAN, excused => excused'
    PROVE  KeysInv'
<1>1. KeyShapes
  BY DEF KeysInv
<1>2. Quiet \in Cmds /\ ~Holding(Quiet) /\ ~Mover(Quiet) /\ CmdOK(Quiet)'
  BY <1>1, QuietIs
<1>3. lock' = lock \/ (lock = p /\ lock' = Free)
  BY DEF Unlocks
<1>4. cmd' = [cmd EXCEPT ![p] = Quiet]
  BY DEF Ends
<1> QED BY <1>2, <1>3, <1>4, KeysGo

LEMMA ConflictKeeps ==
    ASSUME KeysInv, NEW p \in Procs, Conflict(p)
    PROVE  KeysInv'
<1>1. Active(cmd[p])
  BY DEF Conflict, Active
<1>2. bounds' \in [commands : Nat, faults : Nat] /\ excused' \in BOOLEAN /\ excused' = excused
      /\ UNCHANGED <<files, keychain, known>> /\ Ends(p) /\ Unlocks(p)
  BY DEF Conflict, KeysInv, KeyShapes, history
<1> QED BY <1>1, <1>2, KeysEnd

LEMMA CrashKeeps ==
    ASSUME KeysInv, NEW p \in Procs, Crash(p)
    PROVE  KeysInv'
<1>1. Active(cmd[p])
  BY DEF Crash, Active
<1>2. bounds' \in [commands : Nat, faults : Nat] /\ excused' \in BOOLEAN /\ excused' = excused
      /\ UNCHANGED <<files, keychain, known>> /\ Ends(p) /\ Unlocks(p)
  BY DEF Crash, Fault, Count, KeysInv, KeyShapes, history
<1> QED BY <1>1, <1>2, KeysEnd

(* A process at work that only goes on to another place.                    *)
LEMMA KeysGoes ==
    ASSUME KeysInv, NEW p \in Procs, Active(cmd[p]), NEW at, Goes(p, at),
           [cmd[p] EXCEPT !.at = at] \in Cmds,
           UNCHANGED <<files, keychain, known, lock, bounds>>,
           at \in {"migrating", "setting", "clean"} => Holding(cmd[p]),
           excused' \in BOOLEAN, excused => excused',
           at \in {"add", "prove", "route", "routing", "delete"} => Mover(cmd[p]),
           ~excused' => \A c \in Cmds : c = [cmd[p] EXCEPT !.at = at] => CmdOK(c)'
    PROVE  KeysInv'
<1>1. PICK c : c = [cmd[p] EXCEPT !.at = at]
  OBVIOUS
<1>2. c \in Cmds /\ cmd' = [cmd EXCEPT ![p] = c] /\ cmd[p] \in Cmds
  BY <1>1 DEF Goes, KeysInv, KeyShapes
<1>3. c.at = at /\ c.then = cmd[p].then
  BY <1>1, <1>2 DEF Cmds
<1>4. Holding(c) => Holding(cmd[p])
  BY <1>3 DEF Holding
<1>5. Mover(c) => Mover(cmd[p])
  BY <1>3 DEF Mover, Moves, Active
<1>6. bounds' \in [commands : Nat, faults : Nat]
  BY DEF KeysInv, KeyShapes
<1>7. ~excused' => CmdOK(c)'
  BY <1>1, <1>2
<1> QED BY <1>2, <1>4, <1>5, <1>6, <1>7, KeysGo

LEMMA AlreadyCopiedKeeps ==
    ASSUME KeysInv, NEW p \in Procs, AlreadyCopied(p)
    PROVE  KeysInv'
<1>1. cmd[p] \in Cmds /\ cmd[p].at = "migrating" /\ excused \in BOOLEAN
  BY DEF AlreadyCopied, KeysInv, KeyShapes
<1>2. /\ UNCHANGED <<files, keychain, known, lock, bounds>> /\ Goes(p, "clean")
      /\ excused' = (excused \/ manifest.lasts["openrouter"] = NoRow)
  BY DEF AlreadyCopied
<1>3. [cmd[p] EXCEPT !.at = "clean"] \in Cmds
  BY <1>1 DEF Cmds
<1>4. ASSUME ~excused', NEW c \in Cmds, c = [cmd[p] EXCEPT !.at = "clean"] PROVE CmdOK(c)'
  <2>1. c.at = "clean"
    BY <1>1, <1>4 DEF Cmds
  <2>2. manifest'.lasts["openrouter"] # NoRow
    BY <1>2, <1>4 DEF files
  <2> QED BY <2>1, <2>2 DEF CmdOK
<1>5. Active(cmd[p]) /\ Holding(cmd[p])
  BY <1>1 DEF Active, Holding
<1>6. excused' \in BOOLEAN /\ (excused => excused')
  BY <1>1, <1>2
<1> QED BY <1>2, <1>3, <1>4, <1>5, <1>6, KeysGoes

LEMMA ProveKeeps ==
    ASSUME KeysInv, NEW p \in Procs, Prove(p)
    PROVE  KeysInv'
<1>1. cmd[p] \in Cmds /\ cmd[p].at = "prove"
  BY DEF Prove, KeysInv, KeyShapes
<1>2. Active(cmd[p]) /\ Mover(cmd[p])
  BY <1>1 DEF Active, Mover, Moves
<1>3. /\ UNCHANGED <<files, keychain, known, lock, bounds>>
      /\ excused' = excused /\ excused \in BOOLEAN /\ bounds \in [commands : Nat, faults : Nat]
  BY DEF Prove, history, KeysInv, KeyShapes
<1>4. CASE keychain[cmd[p].for] = cmd[p].key
  <2>1. Goes(p, "route") /\ [cmd[p] EXCEPT !.at = "route"] \in Cmds
    BY <1>1, <1>4 DEF Prove, Cmds
  <2>2. ASSUME ~excused', NEW c \in Cmds, c = [cmd[p] EXCEPT !.at = "route"] PROVE CmdOK(c)'
    <3>1. c.at = "route" /\ c.for = cmd[p].for /\ c.key = cmd[p].key
      BY <1>1, <2>2 DEF Cmds
    <3>2. CmdOK(cmd[p])
      BY <1>3, <2>2 DEF KeysInv
    <3> QED BY <1>1, <1>3, <1>4, <3>1, <3>2 DEF CmdOK
  <2> QED BY <1>2, <1>3, <2>1, <2>2, KeysGoes
<1>5. CASE keychain[cmd[p].for] # cmd[p].key
  <2>1. Ends(p)
    BY <1>5 DEF Prove
  <2> QED BY <1>2, <1>3, <2>1, KeysEnd
<1> QED BY <1>4, <1>5

LEMMA LoadRowsKeeps ==
    ASSUME KeysInv, NEW p \in Procs, LoadRows(p)
    PROVE  KeysInv'
<1>1. cmd[p] \in Cmds /\ cmd[p].at = "route" /\ manifest.seen \in Table
  BY DEF LoadRows, KeysInv, KeyShapes
<1>2. PICK c : c = [cmd[p] EXCEPT !.at = "routing", !.copy = manifest.seen]
  OBVIOUS
<1>3. /\ c \in Cmds /\ c.at = "routing" /\ c.copy = manifest.seen
      /\ c.for = cmd[p].for /\ c.key = cmd[p].key
  BY <1>1, <1>2 DEF Cmds
<1>4. cmd' = [cmd EXCEPT ![p] = c]
  BY <1>2 DEF LoadRows
<1>5. /\ UNCHANGED <<files, keychain, known>> /\ lock' = lock /\ bounds' = bounds
      /\ manifest' = manifest
      /\ excused' = excused /\ excused \in BOOLEAN /\ bounds \in [commands : Nat, faults : Nat]
  BY DEF LoadRows, history, KeysInv, KeyShapes, files
<1>6. Active(cmd[p]) /\ Mover(cmd[p]) /\ ~Holding(c)
  BY <1>1, <1>3 DEF Active, Mover, Moves, Holding
<1>7. ~excused' => CmdOK(c)'
  <2>1. ~excused => CmdOK(cmd[p])
    BY DEF KeysInv
  <2> QED BY <1>1, <1>3, <1>5, <2>1 DEF CmdOK
<1> QED BY <1>3, <1>4, <1>5, <1>6, <1>7, KeysGo

-----------------------------------------------------------------------------
(* Steps that write the manifest: one row of it, as it is.                  *)

LEMMA RowSaved ==
    ASSUME KeyShapes, NEW f \in Providers, NEW row \in Rows, row # NoRow, NEW o \in Outcomes,
           Write(manifest, [manifest.seen EXCEPT ![f] = row], o)
    PROVE  /\ manifest' \in [seen : Table, lasts : Table]
           /\ bounds' \in [commands : Nat, faults : Nat]
           /\ \A r \in Providers \ {f} :
                 /\ manifest'.seen[r] = manifest.seen[r]
                 /\ manifest'.lasts[r] = IF o = "written" THEN manifest.seen[r] ELSE manifest.lasts[r]
           /\ manifest'.seen[f] = IF o = "failed" THEN manifest.seen[f] ELSE row
           /\ manifest'.lasts[f] = IF o = "written" THEN row ELSE manifest.lasts[f]
<1> DEFINE rows == [manifest.seen EXCEPT ![f] = row]
<1>1. manifest \in [seen : Table, lasts : Table] /\ bounds \in [commands : Nat, faults : Nat]
  BY DEF KeyShapes
<1>2. rows \in Table /\ rows[f] = row /\ \A r \in Providers \ {f} : rows[r] = manifest.seen[r]
  BY <1>1 DEF Table
<1>3. manifest' = IF o = "failed" THEN manifest
                  ELSE [seen |-> rows, lasts |-> IF o = "written" THEN rows ELSE manifest.lasts]
  BY DEF Write
<1>4. bounds' \in [commands : Nat, faults : Nat]
  BY <1>1 DEF Write
<1> HIDE DEF rows
<1>5. CASE o = "written"
  <2>1. manifest' = [seen |-> rows, lasts |-> rows]
    BY <1>3, <1>5
  <2> QED BY <1>2, <1>4, <1>5, <2>1
<1>6. CASE o = "volatile"
  <2>1. manifest' = [seen |-> rows, lasts |-> manifest.lasts]
    BY <1>3, <1>6
  <2> QED BY <1>1, <1>2, <1>4, <1>6, <2>1
<1>7. CASE o = "failed"
  <2>1. manifest' = manifest
    BY <1>3, <1>7
  <2> QED BY <1>1, <1>4, <1>7, <2>1
<1> QED BY <1>5, <1>6, <1>7 DEF Outcomes

LEMMA RowRight ==
    ASSUME KeyShapes, FilesRight, NEW f \in Providers, NEW row \in Rows, row # NoRow,
           NEW o \in Outcomes, Write(manifest, [manifest.seen EXCEPT ![f] = row], o),
           UNCHANGED <<settings, keychain>>,
           \A r \in Providers \ {f} : known'[r] = known[r],
           o # "written" => known[f] \subseteq known'[f],
           o # "failed" => (IF row = Routed THEN keychain[f] ELSE row.key) \in known'[f]
    PROVE  /\ FilesRight'
           /\ \A r \in Providers : /\ manifest.seen[r] # NoRow => manifest'.seen[r] # NoRow
                                   /\ manifest.lasts[r] # NoRow => manifest'.lasts[r] # NoRow
<1> DEFINE lasting == o = "written"
<1>1. /\ \A r \in Providers \ {f} :
            /\ manifest'.seen[r] = manifest.seen[r]
            /\ manifest'.lasts[r] = IF lasting THEN manifest.seen[r] ELSE manifest.lasts[r]
      /\ manifest'.seen[f] = IF o = "failed" THEN manifest.seen[f] ELSE row
      /\ manifest'.lasts[f] = IF lasting THEN row ELSE manifest.lasts[f]
      /\ settings' = settings /\ keychain' = keychain
  BY RowSaved
<1>2. \A r \in Providers : manifest.lasts[r] # NoRow => manifest.seen[r] # NoRow
  BY DEF FilesRight
<1>3. "openrouter" \in Providers
  BY ProvidersAssumption
<1>4. \A r \in Providers : /\ manifest.seen[r] # NoRow => manifest'.seen[r] # NoRow
                           /\ manifest.lasts[r] # NoRow => manifest'.lasts[r] # NoRow
                           /\ manifest'.lasts[r] # NoRow => manifest'.seen[r] # NoRow
  BY <1>1, <1>2
<1>5. settings'.seen # settings'.lasts => manifest'.lasts["openrouter"] # NoRow
  BY <1>1, <1>3, <1>4 DEF FilesRight
<1>6. ASSUME NEW r \in Providers, r # f PROVE AnswersRight(r)'
  <2>1. AnswersRight(r) /\ known'[r] = known[r]
    BY <1>6 DEF FilesRight
  <2>2. Answers(r, manifest.seen[r], settings.lasts) \in known[r]
    <3>1. CASE r = "openrouter" /\ manifest.seen[r] = NoRow
      <4>1. manifest.lasts[r] = NoRow
        BY <1>2, <3>1
      <4> QED BY <2>1, <3>1, <4>1 DEF AnswersRight, Answers
    <3>2. CASE ~(r = "openrouter" /\ manifest.seen[r] = NoRow)
      BY <2>1, <3>2 DEF AnswersRight, Answers
    <3> QED BY <3>1, <3>2
  <2> QED BY <1>1, <1>6, <2>1, <2>2 DEF AnswersRight, Answers
<1>7. AnswersRight(f)'
  <2>1. AnswersRight(f)
    BY DEF FilesRight
  <2> QED BY <1>1, <2>1 DEF AnswersRight, Answers
<1>8. \A r \in Providers : AnswersRight(r)'
  BY <1>6, <1>7
<1> QED BY <1>4, <1>5, <1>8 DEF FilesRight

(* The process that saves has the lock, or is a mover.                      *)
LEMMA KeysSave ==
    ASSUME KeysInv, NEW p \in Procs, NEW c \in Cmds, cmd' = [cmd EXCEPT ![p] = c],
           NEW f \in Providers, NEW row \in Rows, row # NoRow, NEW o \in Outcomes,
           Write(manifest, [cmd[p].copy EXCEPT ![f] = row], o),
           cmd[p].at \in {"migrating", "setting", "routing"},
           UNCHANGED <<settings, keychain, excused>>,
           known' \in [Providers -> SUBSET Nat],
           \A r \in Providers \ {f} : known'[r] = known[r],
           o # "written" => known[f] \subseteq known'[f],
           ~excused /\ o # "failed" =>
              (IF row = Routed THEN keychain[f] ELSE row.key) \in known'[f],
           lock' = lock \/ (lock = p /\ lock' = Free),
           Holding(c) => Holding(cmd[p]) /\ lock' = lock,
           Mover(c) => Mover(cmd[p]),
           ~excused => CmdOK(c)'
    PROVE  KeysInv'
<1>1. KeyShapes /\ (~excused => FilesRight /\ CmdOK(cmd[p]))
  BY DEF KeysInv
<1>2. cmd[p] \in Cmds /\ cmd[p].copy \in Table /\ cmd \in [Procs -> Cmds]
  BY <1>1 DEF KeyShapes, Cmds
<1>3. manifest' \in [seen : Table, lasts : Table] /\ bounds' \in [commands : Nat, faults : Nat]
  <2> DEFINE rows == [cmd[p].copy EXCEPT ![f] = row]
  <2>1. rows \in Table /\ Write(manifest, rows, o)
    BY <1>2 DEF Table
  <2>2. manifest \in [seen : Table, lasts : Table] /\ bounds \in [commands : Nat, faults : Nat]
    BY <1>1 DEF KeyShapes
  <2> HIDE DEF rows
  <2> QED BY <2>1, <2>2 DEF Write
<1>4. KeyShapes'
  BY <1>1, <1>2, <1>3 DEF KeyShapes
<1>5. Active(cmd[p]) /\ (Holding(cmd[p]) \/ Mover(cmd[p]))
  BY DEF Active, Holding, Mover, Moves
<1>6. ASSUME ~excused
      PROVE  /\ FilesRight'
             /\ \A r \in Providers : /\ manifest.seen[r] # NoRow => manifest'.seen[r] # NoRow
                                     /\ manifest.lasts[r] # NoRow => manifest'.lasts[r] # NoRow
  <2>1. cmd[p].copy = manifest.seen
    BY <1>1, <1>6 DEF CmdOK
  <2> QED BY <1>1, <1>6, <2>1, RowRight
<1>7. Holding(c) => lock' = p
  BY DEF KeysInv
<1>8. \A q \in Procs \ {p} : lock = q => lock' = q
  OBVIOUS
<1>9. ASSUME ~excused, NEW q \in Procs \ {p}
      PROVE  /\ ~Mover(cmd[q]) /\ (Mover(c) => ~Active(cmd[q]))
             /\ Holding(cmd[q]) => manifest'.seen = manifest.seen
  <2>1. ~Mover(cmd[q]) /\ (Mover(c) => ~Active(cmd[q]))
    BY <1>5, <1>9, AtWork
  <2>2. ~Holding(cmd[q])
    <3>1. CASE Holding(cmd[p])
      BY <3>1, NoOtherHolds DEF KeysInv
    <3>2. CASE Mover(cmd[p])
      BY <1>9, <3>2, AtWork DEF Active, Holding
    <3> QED BY <1>5, <3>1, <3>2
  <2> QED BY <2>1, <2>2
<1>10. ~excused' => FilesRight' /\ CmdOK(c)'
  BY <1>6
<1>11. ~excused' => \A q \in Procs \ {p} :
          /\ ~Mover(cmd[q]) /\ (Mover(c) => ~Active(cmd[q]))
          /\ Holding(cmd[q]) => manifest'.seen = manifest.seen
  BY <1>9
<1>12. ~excused' => \A r \in Providers :
          /\ manifest.seen[r] # NoRow => manifest'.seen[r] # NoRow
          /\ manifest.lasts[r] # NoRow => manifest'.lasts[r] # NoRow
  BY <1>6
<1>13. settings'.seen = settings.seen /\ (excused => excused')
  OBVIOUS
<1> QED BY <1>4, <1>7, <1>8, <1>10, <1>11, <1>12, <1>13, KeysStep

LEMMA RowsAre ==
    /\ Routed \in Rows /\ Routed # NoRow
    /\ \A k \in Nat : /\ File(k) \in Rows /\ File(k) # NoRow /\ File(k) # Routed
                      /\ File(k).key = k
BY DEF Routed, NoRow, File, Rows

LEMMA CopyKeyKeeps ==
    ASSUME KeysInv, NEW p \in Procs, NEW o \in Outcomes, CopyKey(p, o)
    PROVE  KeysInv'
<1>1. /\ KeyShapes /\ cmd[p] \in Cmds /\ cmd[p].at = "migrating" /\ known \in [Providers -> SUBSET Nat]
      /\ cmd[p].copy["openrouter"] = NoRow /\ "openrouter" \in Providers
  BY ProvidersAssumption DEF KeysInv, KeyShapes, CopyKey
<1>2. /\ Write(manifest, [cmd[p].copy EXCEPT !["openrouter"] = File(Legacy)], o)
      /\ UNCHANGED <<settings, keychain, excused>> /\ known' = known
  BY DEF CopyKey, history
<1>3. File(Legacy) \in Rows /\ File(Legacy) # NoRow /\ File(Legacy) # Routed
      /\ File(Legacy).key = Legacy
  BY RowsAre DEF Legacy
<1>4. ~excused => Legacy \in known["openrouter"]
  <2> SUFFICES ASSUME ~excused PROVE Legacy \in known["openrouter"]
    OBVIOUS
  <2>1. CmdOK(cmd[p]) /\ AnswersRight("openrouter")
    BY <1>1 DEF KeysInv, FilesRight
  <2>2. manifest.seen["openrouter"] = NoRow /\ settings.seen = Legacy
    BY <1>1, <2>1 DEF CmdOK
  <2> QED BY <2>1, <2>2 DEF AnswersRight, Answers
<1>5. CASE o = "written"
  <2>1. PICK c : c = [cmd[p] EXCEPT !.at = "clean"]
    OBVIOUS
  <2>2. c \in Cmds /\ c.at = "clean" /\ c.then = cmd[p].then
    BY <1>1, <2>1 DEF Cmds
  <2>3. cmd' = [cmd EXCEPT ![p] = c] /\ lock' = lock
    BY <1>5, <2>1 DEF CopyKey, Succeeds, Goes
  <2>4. Holding(cmd[p]) /\ (Mover(c) => Mover(cmd[p]))
    BY <1>1, <2>2 DEF Holding, Mover, Moves, Active
  <2>5. ~excused => CmdOK(c)'
    <3> SUFFICES ASSUME ~excused PROVE CmdOK(c)'
      OBVIOUS
    <3>1. cmd[p].copy = manifest.seen
      BY <1>1 DEF KeysInv, CmdOK
    <3>2. manifest'.lasts["openrouter"] # NoRow
      BY <1>1, <1>2, <1>3, <1>5, <3>1, RowSaved
    <3> QED BY <2>2, <3>2 DEF CmdOK
  <2> QED BY <1>1, <1>2, <1>3, <1>4, <2>2, <2>3, <2>4, <2>5, KeysSave
<1>6. CASE o # "written"
  <2>1. cmd' = [cmd EXCEPT ![p] = Quiet] /\ (lock' = lock \/ (lock = p /\ lock' = Free))
    BY <1>6 DEF CopyKey, Succeeds, Ends, Unlocks
  <2>2. Quiet \in Cmds /\ ~Holding(Quiet) /\ ~Mover(Quiet) /\ CmdOK(Quiet)'
    BY <1>1, QuietIs
  <2> QED BY <1>1, <1>2, <1>3, <1>4, <2>1, <2>2, KeysSave
<1> QED BY <1>5, <1>6

LEMMA SetRowKeeps ==
    ASSUME KeysInv, NEW p \in Procs, NEW o \in Outcomes, SetRow(p, o)
    PROVE  KeysInv'
<1> DEFINE f == cmd[p].for
           k == cmd[p].key
           back == cmd[p].then = "back"
<1>1. /\ KeyShapes /\ cmd[p] \in Cmds /\ cmd[p].at = "setting" /\ known \in [Providers -> SUBSET Nat]
      /\ f \in Providers /\ k \in Nat
  BY DEF KeysInv, KeyShapes, SetRow, Cmds
<1>2. /\ Write(manifest, [cmd[p].copy EXCEPT ![f] = File(k)], o)
      /\ UNCHANGED <<settings, keychain, excused>>
      /\ known' = IF back \/ o = "failed" THEN known
                  ELSE [known EXCEPT ![f] = {k} \cup (IF o = "written" THEN {} ELSE @)]
      /\ lock' = lock \/ (lock = p /\ lock' = Free)
  BY DEF SetRow, Save, Succeeds, Unlocks
<1>3. File(k) \in Rows /\ File(k) # NoRow /\ File(k) # Routed /\ File(k).key = k
  BY <1>1, RowsAre
<1>4. back /\ ~excused => k \in known[f]
  BY <1>1 DEF KeysInv, CmdOK
<1>5. /\ known' \in [Providers -> SUBSET Nat]
      /\ \A r \in Providers \ {f} : known'[r] = known[r]
      /\ o # "written" => known[f] \subseteq known'[f]
      /\ ~excused /\ o # "failed" => k \in known'[f]
  <2>1. CASE back \/ o = "failed"
    BY <1>1, <1>2, <1>4, <2>1
  <2>2. CASE ~(back \/ o = "failed")
    <3>1. known' = [known EXCEPT ![f] = {k} \cup (IF o = "written" THEN {} ELSE @)]
      BY <1>2, <2>2
    <3> HIDE DEF f, k
    <3>2. known'[f] = {k} \cup (IF o = "written" THEN {} ELSE known[f])
      BY <1>1, <3>1
    <3>3. {k} \cup (IF o = "written" THEN {} ELSE known[f]) \in SUBSET Nat
      BY <1>1
    <3>4. known' \in [Providers -> SUBSET Nat] /\ \A r \in Providers \ {f} : known'[r] = known[r]
      BY <1>1, <3>1, <3>3
    <3> QED BY <3>2, <3>4
  <2> QED BY <2>1, <2>2
<1>6. CASE o = "written" /\ back
  <2>1. PICK c : c = [cmd[p] EXCEPT !.at = "delete"]
    OBVIOUS
  <2>2. c \in Cmds /\ c.at = "delete" /\ c.for = f /\ c.key = k /\ Mover(cmd[p]) /\ ~Holding(c)
    BY <1>1, <1>6, <2>1 DEF Cmds, Mover, Moves, Active, Holding
  <2>3. cmd' = [cmd EXCEPT ![p] = c]
    BY <1>6, <2>1 DEF SetRow, Succeeds, Goes
  <2>4. ~excused => CmdOK(c)'
    <3> SUFFICES ASSUME ~excused PROVE CmdOK(c)'
      OBVIOUS
    <3>1. cmd[p].copy = manifest.seen
      BY <1>1 DEF KeysInv, CmdOK
    <3>2. manifest'.lasts[f] = File(k)
      BY <1>1, <1>2, <1>3, <1>6, <3>1, RowSaved
    <3> QED BY <2>2, <3>2 DEF CmdOK
  <2> HIDE DEF f, k
  <2>5. PICK row : row = File(k)
    OBVIOUS
  <2>6. /\ row \in Rows /\ row # NoRow
        /\ Write(manifest, [cmd[p].copy EXCEPT ![f] = row], o)
        /\ ~excused /\ o # "failed" =>
             (IF row = Routed THEN keychain[f] ELSE row.key) \in known'[f]
    BY <1>2, <1>3, <1>5, <2>5
  <2>7. (Holding(c) => Holding(cmd[p]) /\ lock' = lock) /\ (Mover(c) => Mover(cmd[p]))
    BY <2>2
  <2> QED BY <1>1, <1>2, <1>5, <2>2, <2>3, <2>4, <2>6, <2>7, KeysSave, ZenonT(60)
<1>7. CASE ~(o = "written" /\ back)
  <2>1. cmd' = [cmd EXCEPT ![p] = Quiet]
    BY <1>7 DEF SetRow, Succeeds, Ends
  <2>2. Quiet \in Cmds /\ ~Holding(Quiet) /\ ~Mover(Quiet) /\ CmdOK(Quiet)'
    BY <1>1, QuietIs
  <2> HIDE DEF f, k
  <2> QED BY <1>1, <1>2, <1>3, <1>5, <2>1, <2>2, KeysSave
<1> QED BY <1>6, <1>7

LEMMA SetRoutedKeeps ==
    ASSUME KeysInv, NEW p \in Procs, NEW o \in Outcomes, SetRouted(p, o)
    PROVE  KeysInv'
<1> DEFINE f == cmd[p].for
<1>1. /\ KeyShapes /\ cmd[p] \in Cmds /\ cmd[p].at = "routing" /\ known \in [Providers -> SUBSET Nat]
      /\ f \in Providers
  BY DEF KeysInv, KeyShapes, SetRouted, Cmds
<1>2. /\ Write(manifest, [cmd[p].copy EXCEPT ![f] = Routed], o)
      /\ UNCHANGED <<settings, keychain, excused>> /\ known' = known /\ lock' = lock
      /\ cmd' = [cmd EXCEPT ![p] = Quiet]
  BY DEF SetRouted, Save, Ends, history
<1>3. ~excused => keychain[f] \in known[f]
  BY <1>1 DEF KeysInv, CmdOK
<1>4. Quiet \in Cmds /\ ~Holding(Quiet) /\ ~Mover(Quiet) /\ CmdOK(Quiet)'
  BY <1>1, QuietIs
<1> HIDE DEF f
<1> QED BY <1>1, <1>2, <1>3, <1>4, RowsAre, KeysSave

-----------------------------------------------------------------------------
(* Steps that write the settings.                                           *)

LEMMA SettingsSaved ==
    ASSUME KeyShapes, NEW o \in Outcomes, Write(settings, 0, o)
    PROVE  /\ settings' \in [seen : {0, Legacy}, lasts : {0, Legacy}]
           /\ bounds' \in [commands : Nat, faults : Nat]
           /\ settings'.seen = IF o = "failed" THEN settings.seen ELSE 0
           /\ settings'.lasts = IF o = "written" THEN 0 ELSE settings.lasts
<1>1. /\ settings \in [seen : {0, Legacy}, lasts : {0, Legacy}]
      /\ bounds \in [commands : Nat, faults : Nat]
  BY DEF KeyShapes
<1>2. settings' = IF o = "failed" THEN settings
                  ELSE [seen |-> 0, lasts |-> IF o = "written" THEN 0 ELSE settings.lasts]
  BY DEF Write
<1>3. bounds' \in [commands : Nat, faults : Nat]
  BY <1>1 DEF Write
<1> QED BY <1>1, <1>2, <1>3 DEF Outcomes

(* The key goes from the settings only where a row that lasts stands for    *)
(* it, or where it is not seen any more.                                    *)
LEMMA KeysUnset ==
    ASSUME KeysInv, NEW p \in Procs, NEW c \in Cmds, cmd' = [cmd EXCEPT ![p] = c],
           NEW o \in Outcomes, Write(settings, 0, o), Active(cmd[p]), ~Holding(c),
           UNCHANGED <<manifest, keychain, known>>,
           excused' \in BOOLEAN, excused => excused',
           ~excused' => settings.seen = 0 \/ manifest.lasts["openrouter"] # NoRow,
           lock' = lock \/ (lock = p /\ lock' = Free), Mover(c) => Mover(cmd[p]),
           ~excused' => CmdOK(c)'
    PROVE  KeysInv'
<1>1. KeyShapes /\ "openrouter" \in Providers
  BY ProvidersAssumption DEF KeysInv
<1>2. /\ settings' \in [seen : {0, Legacy}, lasts : {0, Legacy}]
      /\ bounds' \in [commands : Nat, faults : Nat]
      /\ settings'.seen = IF o = "failed" THEN settings.seen ELSE 0
      /\ settings'.lasts = IF o = "written" THEN 0 ELSE settings.lasts
  BY <1>1, SettingsSaved
<1>3. KeyShapes'
  BY <1>1, <1>2 DEF KeyShapes
<1>4. ASSUME ~excused'
      PROVE  /\ FilesRight'
             /\ settings'.seen = settings.seen \/ manifest'.seen["openrouter"] # NoRow
  <2>1. FilesRight /\ (settings.seen # settings.lasts => manifest.lasts["openrouter"] # NoRow)
    BY <1>4 DEF KeysInv, FilesRight
  <2>2. CASE manifest.lasts["openrouter"] # NoRow
    <3>1. manifest.seen["openrouter"] # NoRow
      BY <1>1, <2>1, <2>2 DEF FilesRight
    <3>2. \A r \in Providers : AnswersRight(r)'
      BY <2>1, <2>2, <3>1 DEF FilesRight, AnswersRight, Answers
    <3> QED BY <2>1, <2>2, <3>1, <3>2 DEF FilesRight
  <2>3. CASE manifest.lasts["openrouter"] = NoRow
    <3>1. settings.seen = 0 /\ settings.lasts = 0
      BY <1>4, <2>1, <2>3
    <3>2. settings'.seen = settings.seen /\ settings'.lasts = settings.lasts
      BY <1>2, <3>1
    <3> QED BY <2>1, <3>2 DEF FilesRight, AnswersRight, Answers
  <2> QED BY <2>2, <2>3
<1>5. ~excused' => \A q \in Procs \ {p} :
         /\ ~Mover(cmd[q]) /\ (Mover(c) => ~Active(cmd[q]))
         /\ Holding(cmd[q]) => manifest'.seen = manifest.seen
  BY AtWork
<1>6. \A q \in Procs \ {p} : lock = q => lock' = q
  OBVIOUS
<1> QED BY <1>3, <1>4, <1>5, <1>6, KeysStep

LEMMA CleanKeeps ==
    ASSUME KeysInv, NEW p \in Procs, NEW o \in Outcomes, Clean(p, o)
    PROVE  KeysInv'
<1>1. KeyShapes /\ cmd[p] \in Cmds /\ cmd[p].at = "clean" /\ excused \in BOOLEAN
  BY DEF KeysInv, KeyShapes, Clean
<1>2. /\ Write(settings, 0, o) /\ UNCHANGED <<manifest, keychain, known>> /\ excused' = excused
      /\ lock' = lock \/ (lock = p /\ lock' = Free)
  BY DEF Clean, Unlocks, history
<1>3. ~excused => manifest.lasts["openrouter"] # NoRow
  BY <1>1 DEF KeysInv, CmdOK
<1>4. Active(cmd[p])
  BY <1>1 DEF Active
<1>5. CASE o = "written"
  <2>1. PICK c : c = [cmd[p] EXCEPT !.at = cmd[p].then]
    OBVIOUS
  <2>2. c \in Cmds /\ c.at = c.then /\ c.then = cmd[p].then
        /\ c.then \in {"end", "set", "store", "back"}
    BY <1>1, <2>1 DEF Cmds
  <2>3. cmd' = [cmd EXCEPT ![p] = c]
    BY <1>5, <2>1 DEF Clean, Succeeds, Goes
  <2>4. ~Holding(c) /\ (Mover(c) => Mover(cmd[p])) /\ CmdOK(c)'
    BY <1>1, <2>2 DEF Holding, Mover, Moves, Active, CmdOK
  <2> QED BY <1>1, <1>2, <1>3, <1>4, <2>2, <2>3, <2>4, KeysUnset
<1>6. CASE o # "written"
  <2>1. cmd' = [cmd EXCEPT ![p] = Quiet]
    BY <1>6 DEF Clean, Succeeds, Ends
  <2>2. Quiet \in Cmds /\ ~Holding(Quiet) /\ ~Mover(Quiet) /\ CmdOK(Quiet)'
    BY <1>1, QuietIs
  <2> QED BY <1>1, <1>2, <1>3, <1>4, <2>1, <2>2, KeysUnset
<1> QED BY <1>5, <1>6

LEMMA StoreSettingKeeps ==
    ASSUME KeysInv, NEW p \in Procs, NEW o \in Outcomes, StoreSetting(p, o)
    PROVE  KeysInv'
<1>1. KeyShapes /\ cmd[p] \in Cmds /\ cmd[p].at = "store" /\ excused \in BOOLEAN
  BY DEF KeysInv, KeyShapes, StoreSetting
<1>2. /\ Write(settings, 0, o) /\ UNCHANGED <<manifest, keychain, known>>
      /\ excused' = (excused \/ settings.seen # 0) /\ lock' = lock
      /\ cmd' = [cmd EXCEPT ![p] = Quiet]
  BY DEF StoreSetting, Ends
<1>3. Active(cmd[p])
  BY <1>1 DEF Active
<1>4. Quiet \in Cmds /\ ~Holding(Quiet) /\ ~Mover(Quiet) /\ CmdOK(Quiet)'
  BY <1>1, QuietIs
<1>5. excused' \in BOOLEAN /\ (excused => excused') /\ (~excused' => settings.seen = 0)
  BY <1>1, <1>2
<1> QED BY <1>1, <1>2, <1>3, <1>4, <1>5, KeysUnset

-----------------------------------------------------------------------------
(* Steps of the keychain: one item, of a process that moves.                *)

LEMMA KeysItem ==
    ASSUME KeysInv, NEW p \in Procs, NEW c \in Cmds, cmd' = [cmd EXCEPT ![p] = c],
           NEW f \in Providers, NEW k \in Nat,
           keychain' = keychain \/ keychain' = [keychain EXCEPT ![f] = k],
           ~excused /\ keychain' # keychain =>
              k \in known[f] \/ Routed \notin {manifest.seen[f], manifest.lasts[f]},
           Mover(cmd[p]), ~Holding(c), UNCHANGED <<files, known, lock, excused>>,
           bounds' \in [commands : Nat, faults : Nat], ~excused => CmdOK(c)'
    PROVE  KeysInv'
<1>1. KeyShapes /\ keychain \in [Providers -> Nat]
  BY DEF KeysInv, KeyShapes
<1>2. keychain' \in [Providers -> Nat]
      /\ \A r \in Providers : keychain'[r] = keychain[r] \/ (r = f /\ keychain'[r] = k)
  BY <1>1
<1>3. manifest' = manifest /\ settings' = settings
  BY DEF files
<1>4. KeyShapes'
  BY <1>1, <1>2, <1>3 DEF KeyShapes
<1>5. ASSUME ~excused PROVE FilesRight'
  <2>1. FilesRight
    BY <1>5 DEF KeysInv
  <2>2. ASSUME NEW r \in Providers PROVE AnswersRight(r)'
    <3>1. AnswersRight(r)
      BY <2>1 DEF FilesRight
    <3>2. CASE keychain'[r] = keychain[r]
      BY <1>3, <3>1, <3>2 DEF AnswersRight, Answers
    <3>3. CASE r = f /\ keychain'[r] = k /\ keychain' # keychain
      BY <1>3, <1>5, <3>1, <3>3 DEF AnswersRight, Answers
    <3> QED BY <1>2, <3>2, <3>3
  <2> QED BY <1>3, <2>1, <2>2 DEF FilesRight
<1>6. ASSUME ~excused, NEW q \in Procs \ {p}
      PROVE  ~Active(cmd[q]) /\ ~Mover(cmd[q])
  BY <1>6, AtWork DEF Mover
<1>7. ~excused' => FilesRight' /\ CmdOK(c)'
  BY <1>5
<1>8. ~excused' => \A q \in Procs \ {p} :
         /\ ~Mover(cmd[q]) /\ (Mover(c) => ~Active(cmd[q]))
         /\ Holding(cmd[q]) => manifest'.seen = manifest.seen
  BY <1>3, <1>6
<1>9. manifest'.seen = manifest.seen /\ manifest'.lasts = manifest.lasts
      /\ settings'.seen = settings.seen /\ lock' = lock /\ (excused => excused')
  BY <1>3
<1> QED BY <1>4, <1>7, <1>8, <1>9, KeysStep

LEMMA DeleteItemKeeps ==
    ASSUME KeysInv, NEW p \in Procs, NEW done \in BOOLEAN, DeleteItem(p, done)
    PROVE  KeysInv'
<1> DEFINE f == cmd[p].for
<1>1. KeyShapes /\ cmd[p] \in Cmds /\ cmd[p].at = "delete" /\ f \in Providers /\ cmd[p].key \in Nat
  BY DEF KeysInv, KeyShapes, DeleteItem, Cmds
<1>2. /\ UNCHANGED <<files, lock, known, excused>> /\ bounds' = bounds
      /\ cmd' = [cmd EXCEPT ![p] = Quiet]
      /\ \/ keychain' = keychain
         \/ keychain' = [keychain EXCEPT ![f] = 0] /\ manifest.seen[f] = File(cmd[p].key)
  BY DEF DeleteItem, Ends, history
<1>3. ~excused => manifest.lasts[f] = File(cmd[p].key)
  BY <1>1 DEF KeysInv, CmdOK
<1>4. Mover(cmd[p])
  BY <1>1 DEF Mover, Moves, Active
<1>5. Quiet \in Cmds /\ ~Holding(Quiet) /\ CmdOK(Quiet)'
  BY <1>1, QuietIs
<1>6. bounds' \in [commands : Nat, faults : Nat]
  BY <1>1, <1>2 DEF KeyShapes
<1>7. File(cmd[p].key) # Routed
  BY <1>1, RowsAre
<1> HIDE DEF f
<1> QED BY <1>1, <1>2, <1>3, <1>4, <1>5, <1>6, <1>7, KeysItem

LEMMA AddItemKeeps ==
    ASSUME KeysInv, NEW p \in Procs, NEW done \in BOOLEAN, NEW answered \in BOOLEAN,
           AddItem(p, done, answered)
    PROVE  KeysInv'
<1> DEFINE f == cmd[p].for
           k == cmd[p].key
<1>1. KeyShapes /\ cmd[p] \in Cmds /\ cmd[p].at = "add" /\ f \in Providers /\ k \in Nat
  BY DEF KeysInv, KeyShapes, AddItem, Cmds
<1>2. /\ UNCHANGED <<files, lock, known, excused>>
      /\ keychain' = keychain \/ keychain' = [keychain EXCEPT ![f] = k]
      /\ bounds' \in [commands : Nat, faults : Nat]
  BY <1>1 DEF AddItem, Fault, Count, history, KeyShapes
<1>3. ~excused => k \in known[f]
  BY <1>1 DEF KeysInv, CmdOK
<1>4. Mover(cmd[p])
  BY <1>1 DEF Mover, Moves, Active
<1>5. CASE answered
  <2>1. PICK c : c = [cmd[p] EXCEPT !.at = "prove"]
    OBVIOUS
  <2>2. c \in Cmds /\ c.at = "prove" /\ c.for = f /\ c.key = k
    BY <1>1, <2>1 DEF Cmds
  <2>3. cmd' = [cmd EXCEPT ![p] = c]
    BY <1>5, <2>1 DEF AddItem, Goes
  <2>4. ~Holding(c) /\ (~excused => CmdOK(c)')
    BY <1>2, <1>3, <2>2 DEF Holding, CmdOK
  <2> HIDE DEF f, k
  <2> QED BY <1>1, <1>2, <1>3, <1>4, <2>2, <2>3, <2>4, KeysItem
<1>6. CASE ~answered
  <2>1. cmd' = [cmd EXCEPT ![p] = Quiet]
    BY <1>6 DEF AddItem, Ends
  <2>2. Quiet \in Cmds /\ ~Holding(Quiet) /\ CmdOK(Quiet)'
    BY <1>1, QuietIs
  <2> HIDE DEF f, k
  <2> QED BY <1>1, <1>2, <1>3, <1>4, <2>1, <2>2, KeysItem
<1> QED BY <1>5, <1>6

-----------------------------------------------------------------------------
(* What lasts is right too, and no command outlives a power cut.            *)
LEMMA PowerCutKeeps ==
    ASSUME KeysInv, PowerCut
    PROVE  KeysInv'
<1>1. KeyShapes /\ bounds' \in [commands : Nat, faults : Nat]
  BY DEF KeysInv, KeyShapes, PowerCut, Fault, Count
<1>2. /\ manifest' = [manifest EXCEPT !.seen = manifest.lasts]
      /\ settings' = [settings EXCEPT !.seen = settings.lasts]
      /\ cmd' = [p \in Procs |-> Quiet] /\ lock' = Free
      /\ keychain' = keychain /\ known' = known /\ excused' = excused
  BY DEF PowerCut, history
<1>3. /\ manifest \in [seen : Table, lasts : Table]
      /\ settings \in [seen : {0, Legacy}, lasts : {0, Legacy}]
  BY <1>1 DEF KeyShapes
<1>4. /\ manifest' \in [seen : Table, lasts : Table]
      /\ manifest'.seen = manifest.lasts /\ manifest'.lasts = manifest.lasts
      /\ settings' \in [seen : {0, Legacy}, lasts : {0, Legacy}]
      /\ settings'.seen = settings.lasts /\ settings'.lasts = settings.lasts
  BY <1>2, <1>3
<1>5. Quiet \in Cmds /\ ~Active(Quiet) /\ ~Holding(Quiet) /\ ~Mover(Quiet) /\ CmdOK(Quiet)'
  BY <1>1, QuietIs
<1>6. \A p \in Procs : cmd'[p] = Quiet
  BY <1>2
<1>7. KeyShapes'
  BY <1>1, <1>2, <1>4, <1>5 DEF KeyShapes
<1>8. ~excused => FilesRight'
  BY <1>2, <1>4 DEF KeysInv, FilesRight, AnswersRight, Answers
<1>9. MoversAlone' /\ \A p \in Procs : CmdOK(cmd[p])'
  <2>1. MoversAlone'
    BY <1>5, <1>6 DEF MoversAlone
  <2>2. ASSUME NEW p \in Procs PROVE CmdOK(cmd[p])'
    BY <1>5, <1>6 DEF CmdOK
  <2> QED BY <2>1, <2>2
<1>10. \A p \in Procs : ~Holding(cmd'[p])
  BY <1>5, <1>6
<1> QED BY <1>2, <1>7, <1>8, <1>9, <1>10 DEF KeysInv

LEMMA KeysStart == KeysInit => KeysInv
<1> SUFFICES ASSUME KeysInit PROVE KeysInv
  OBVIOUS
<1>1. /\ settings \in {[seen |-> k, lasts |-> k] : k \in {0, Legacy}}
      /\ keychain \in {[r \in Providers |-> k] : k \in {0, 2}}
      /\ lock = Free /\ cmd = [p \in Procs |-> Quiet] /\ excused = FALSE
      /\ bounds = [commands |-> 0, faults |-> 0]
  BY DEF KeysInit
<1>2. PICK row \in {NoRow, File(Legacy), File(2), Routed} :
         LET rows == [r \in Providers |-> IF r = "openrouter" THEN row ELSE NoRow] IN
         /\ row = Routed => keychain["openrouter"] # 0
         /\ manifest = [seen |-> rows, lasts |-> rows]
         /\ known = [r \in Providers |->
              IF r # "openrouter" THEN {0}
              ELSE IF row = NoRow THEN {settings.seen}
              ELSE IF row = Routed THEN {2} ELSE {row.key}]
  BY DEF KeysInit
<1> DEFINE rows == [r \in Providers |-> IF r = "openrouter" THEN row ELSE NoRow]
<1>3. row \in Rows /\ NoRow \in Rows /\ Legacy \in Nat
  BY RowsAre DEF Legacy, NoRow, Rows
<1>4. rows \in Table /\ \A r \in Providers : rows[r] = IF r = "openrouter" THEN row ELSE NoRow
  BY <1>3 DEF Table
<1>5. /\ settings \in [seen : {0, Legacy}, lasts : {0, Legacy}] /\ settings.seen = settings.lasts
      /\ keychain \in [Providers -> Nat] /\ \A r \in Providers : keychain[r] \in {0, 2}
  BY <1>1
<1>6. manifest = [seen |-> rows, lasts |-> rows]
  BY <1>2
<1>7. manifest \in [seen : Table, lasts : Table] /\ manifest.seen = rows /\ manifest.lasts = rows
  BY <1>4, <1>6
<1>8. /\ known \in [Providers -> SUBSET Nat]
      /\ \A r \in Providers : known[r] =
              IF r # "openrouter" THEN {0}
              ELSE IF row = NoRow THEN {settings.seen}
              ELSE IF row = Routed THEN {2} ELSE {row.key}
  <2>1. settings.seen \in Nat /\ row.key \in Nat
    BY <1>3, <1>5 DEF Rows
  <2>2. known = [r \in Providers |->
              IF r # "openrouter" THEN {0}
              ELSE IF row = NoRow THEN {settings.seen}
              ELSE IF row = Routed THEN {2} ELSE {row.key}]
    BY <1>2
  <2> QED BY <2>1, <2>2
<1> HIDE DEF rows
<1>9. KeyShapes
  <2>1. cmd \in [Procs -> Cmds]
    <3>1. Quiet \in Cmds
      BY <1>3, ProvidersAssumption DEF Quiet, Cmds, Table
    <3> QED BY <1>1, <3>1
  <2>2. bounds \in [commands : Nat, faults : Nat]
    BY <1>1
  <2> QED BY <1>1, <1>5, <1>7, <1>8, <2>1, <2>2 DEF KeyShapes
<1>10. FilesRight
  <2>1. ASSUME NEW r \in Providers PROVE AnswersRight(r)
    <3>1. CASE r # "openrouter"
      <4>1. rows[r] = NoRow /\ known[r] = {0}
        BY <1>4, <1>8, <3>1
      <4>2. NoRow # Routed /\ NoRow.key = 0
        BY DEF NoRow, Routed
      <4> QED BY <1>7, <3>1, <4>1, <4>2 DEF AnswersRight, Answers
    <3>2. CASE r = "openrouter"
      <4>1. rows[r] = row
        BY <1>4, <3>2
      <4>2. row = Routed => keychain[r] = 2
        BY <1>2, <1>5, <3>2
      <4>3. CASE row = NoRow
        BY <1>5, <1>7, <1>8, <3>2, <4>1, <4>3 DEF AnswersRight, Answers
      <4>4. CASE row = Routed
        BY <1>7, <1>8, <3>2, <4>1, <4>2, <4>4, RowsAre DEF AnswersRight, Answers
      <4>5. CASE row # NoRow /\ row # Routed
        BY <1>7, <1>8, <3>2, <4>1, <4>5 DEF AnswersRight, Answers
      <4> QED BY <4>3, <4>4, <4>5
    <3> QED BY <3>1, <3>2
  <2> QED BY <1>5, <1>7, <2>1 DEF FilesRight
<1>11. \A p \in Procs : cmd[p] = Quiet
  BY <1>1
<1>12. Quiet.at = "idle"
  BY DEF Quiet
<1>13. \A p \in Procs : ~Active(cmd[p]) /\ ~Holding(cmd[p]) /\ CmdOK(cmd[p])
  BY <1>11, <1>12 DEF Active, Holding, CmdOK
<1> QED BY <1>9, <1>10, <1>13 DEF KeysInv, MoversAlone

LEMMA KeysKept == KeysInv /\ [KeysNext]_keyVars => KeysInv'
<1> SUFFICES ASSUME KeysInv, [KeysNext]_keyVars PROVE KeysInv'
  OBVIOUS
<1>1. CASE UNCHANGED keyVars
  BY <1>1 DEF keyVars, files, KeysInv, KeyShapes, FilesRight, AnswersRight, Answers,
              MoversAlone, CmdOK
<1>2. CASE PowerCut
  BY <1>2, PowerCutKeeps
<1>3. ASSUME NEW p \in Procs,
             \/ ChangeSetting(p) \/ StoreAtOnce(p) \/ ReadSettings(p) \/ Conflict(p)
             \/ AlreadyCopied(p) \/ Acquire(p) \/ Prove(p) \/ LoadRows(p) \/ Crash(p)
      PROVE  KeysInv'
  BY <1>3, ChangeSettingKeeps, ReadSettingsKeeps, ConflictKeeps, AlreadyCopiedKeeps,
     AcquireKeeps, ProveKeeps, LoadRowsKeeps, CrashKeeps
<1>4. ASSUME NEW p \in Procs, NEW r \in Providers, EnterKey(p, r) \/ Move(p, r) PROVE KeysInv'
  BY <1>4, EnterKeyKeeps, MoveKeeps
<1>5. ASSUME NEW p \in Procs, NEW o \in Outcomes,
             CopyKey(p, o) \/ Clean(p, o) \/ StoreSetting(p, o) \/ SetRow(p, o) \/ SetRouted(p, o)
      PROVE  KeysInv'
  BY <1>5, CopyKeyKeeps, CleanKeeps, StoreSettingKeeps, SetRowKeeps, SetRoutedKeeps
<1>6. ASSUME NEW p \in Procs, NEW done \in BOOLEAN,
             DeleteItem(p, done) \/ AddItem(p, done, TRUE) \/ AddItem(p, done, FALSE)
      PROVE  KeysInv'
  BY <1>6, DeleteItemKeeps, AddItemKeeps
<1> QED BY <1>1, <1>2, <1>3, <1>4, <1>5, <1>6 DEF KeysNext

LEMMA KeysInvariant == KeysSpec => []KeysInv
BY KeysStart, KeysKept, PTL DEF KeysSpec

(* No command, no fault and no order of them loses the key a provider has   *)
(* or brings an older one back, but for the three exceptions.               *)
THEOREM KeyStoreKeepsKeys == KeysSpec => []KeyKept
<1>1. KeysInv => KeyKept
  BY DEF KeysInv, KeyKept, FilesRight, AnswersRight, Answers, Has, Obtain
<1> QED BY <1>1, KeysInvariant, PTL

-----------------------------------------------------------------------------
(***************************************************************************)
(* OwnResult and ConversationsWhole, for any number of turns,              *)
(* conversations and mishaps.                                              *)
(*                                                                         *)
(* Three things carry them.  Between two turns, and when a turn has had    *)
(* its result, the pipe is quiet: the process works on no prompt and no    *)
(* result is left in the pipe (InStep).  What a result says of the turn is *)
(* on its way to told, place by place (Heard).  And a conversation that a  *)
(* kill left open, or that the vendor has refused, is out of everybody's   *)
(* hands for good, unless its turn has not ended yet: then the process     *)
(* that left it so is the one that is about to be judged (Handled).        *)
(***************************************************************************)

Frames == [kind : {"init", "work", "garbage", "result", "trail"},
           of : 0..MaxTurns, conv : 0..MaxHandles, total : Nat]

Places == {"idle", "start", "send", "read", "drain", "note", "drop", "judge", "finish", "settle"}

Conversations == [kept : BOOLEAN, open : 0..MaxTurns]
Processes ==
    [state : {"none", "running", "gone"}, conv : 0..MaxHandles, prompt : 0..MaxTurns,
     turn : 0..MaxTurns, worked : BOOLEAN, out : Seq(Frames), total : Nat, hard : BOOLEAN,
     resumes : BOOLEAN]
Backends ==
    [handle : 0..MaxHandles, resume : BOOLEAN, started : BOOLEAN, confirmed : 0..MaxHandles,
     retired : BOOLEAN, delivered : BOOLEAN, closed : BOOLEAN]
Sessions ==
    [on : BOOLEAN, resumed : BOOLEAN, unusable : BOOLEAN, delivered : BOOLEAN, closed : BOOLEAN,
     ever : BOOLEAN, named : 0..MaxHandles, spent : Nat]
Calls ==
    [at : Places, prompt : 0..MaxTurns, retried : BOOLEAN, cancelled : BOOLEAN, ok : BOOLEAN,
     answer : 0..MaxTurns, charge : Nat, refused : SUBSET Handles]
Endings ==
    [ended : BOOLEAN, ok : BOOLEAN, answer : 0..MaxTurns, charge : Nat, delivered : BOOLEAN,
     closed : BOOLEAN]

VendorShapes ==
    /\ conv \in [Handles -> Conversations] /\ child \in Processes
    /\ backend \in Backends /\ sess \in Sessions /\ turn \in Calls
    /\ saved \in 0..MaxHandles /\ minted \in 0..MaxHandles
    /\ told \in [Prompts -> Endings] /\ ran \in [Prompts -> [times : Nat, closed : BOOLEAN]]
    /\ again \in SUBSET Prompts /\ dead \in [Handles -> Nat] /\ mishaps \in Nat

Result(i) == child.out[i].kind = "result"
NoResult  == \A i \in DOMAIN child.out : ~Result(i)
Drained   == child.prompt = None /\ child.turn = None /\ NoResult

(* Where the turn is, there is a session or none, and one that can be used. *)
InPlace ==
    /\ turn.at \in {"send", "read", "drain", "note", "drop"} => sess.on
    /\ turn.at \in {"judge", "finish"} => ~sess.on
    /\ sess.on /\ sess.unusable => turn.at \in {"note", "drop"}
    /\ turn.at = "drop" => sess.unusable
    /\ turn.at = "note" => sess.unusable \/ sess.ever
    /\ turn.at \in {"note", "drop"} /\ turn.ok => ~sess.unusable
    /\ turn.at \in {"idle", "start", "settle"} /\ sess.on => sess.ever
    /\ turn.at # "idle" => Latest \in Prompts

InStep ==
    /\ Running => sess.on /\ child.conv \in 1..minted
    /\ ~Running => child.prompt = None /\ child.turn = None
    /\ child.prompt \in {None, Latest} /\ child.turn \in {None, Latest}
    /\ child.prompt = None \/ child.turn = None
    /\ sess.on /\ ~sess.unusable => turn.at \in {"read", "drain"} \/ Drained
    /\ sess.on /\ ~sess.unusable /\ Running /\ NoResult => child.total = sess.spent
    /\ turn.at \in {"read", "drain"} => \A i \in DOMAIN child.out : Result(i) =>
          /\ child.out[i].of = Latest /\ child.out[i].total = sess.spent + 1
          /\ child.prompt = None /\ child.turn = None
          /\ Running => child.total = sess.spent + 1
          /\ ran[Latest].closed
          /\ \A j \in DOMAIN child.out : Result(j) => j = i

Costs(closed) == turn.charge = IF closed THEN 1 ELSE 0
Answered(closed) ==
    /\ Costs(closed) /\ (turn.ok => closed /\ turn.answer = Latest)
    /\ closed => ran[Latest].closed

Heard ==
    /\ turn.at \in {"start", "send", "read", "drain"} =>
          turn.charge = 0 /\ ~turn.ok /\ ~backend.closed
    /\ turn.at \in {"read", "drain"} => ~sess.closed /\ (~sess.delivered => Reaped)
    /\ turn.at = "note" => Answered(sess.closed) /\ (~sess.delivered => ~sess.closed)
    /\ turn.at \in {"drop", "judge", "finish", "settle"} => Answered(backend.closed)
    /\ turn.at \in {"drop", "judge"} => (~sess.delivered => ~backend.closed)

(* What has not been handed to a process has not been run.                  *)
Unrun ==
    \/ turn.at \in {"start", "send"}
    \/ turn.at \in {"read", "drain", "note", "drop", "judge"} /\ ~sess.delivered
    \/ turn.at \in {"drop", "judge", "finish", "settle"} /\ ~backend.delivered

RunOnce ==
    /\ \A p \in Prompts : p > Latest => ran[p].times = 0 /\ ~told[p].ended
    /\ turn.at # "idle" => ~told[Latest].ended
    /\ child.prompt # None \/ Unrun => ran[Latest].times = 0
    /\ Unrun => child.prompt = None
    /\ turn.at \in {"note", "drop", "judge"} /\ ~sess.delivered => ~Running
    /\ turn.at \in {"drop", "judge"} /\ sess.delivered => backend.delivered

(* Nobody will go on with conversation h again.                             *)
OutOfHand(h) ==
    /\ h <= minted /\ backend.handle # h /\ saved # h
    /\ sess.on => sess.named # h
    /\ sess.on => \A i \in DOMAIN child.out : child.out[i].conv # h
    /\ Running => child.conv # h

(* The handle is gone from the backend and will be gone from the file.      *)
Forgotten == backend.handle = None /\ backend.retired /\ ~sess.on

(* The turn left h open, and it will be seen.                               *)
ToBeJudged(h) ==
    /\ ~Running
    /\ \/ /\ turn.at \in {"read", "drain", "note", "drop", "judge"}
          /\ child.conv = h /\ child.hard /\ sess.delivered
          /\ turn.at \in {"read", "drain"} => NoResult
          /\ turn.at = "note" => sess.unusable
       \/ turn.at \in {"finish", "settle"} /\ Forgotten

(* What the vendor refused is the handle that was asked for, and nothing    *)
(* was ever heard of it.                                                    *)
Silent(h) ==
    /\ sess.resumed /\ ~sess.ever /\ sess.named = None /\ child.conv = h /\ child.out = <<>>
    /\ backend.handle = h /\ ~conv[h].kept
    /\ backend.started \/ backend.resume
    /\ Running => child.resumes

Handled ==
    /\ \A h \in Handles : conv[h].open # None /\ "term" \notin Mishaps =>
          /\ h <= minted /\ conv[h].open <= Latest
          /\ turn.at # "idle" /\ conv[h].open = Latest => ToBeJudged(h)
          /\ told[conv[h].open].ended => OutOfHand(h)
    /\ Running /\ child.resumes =>
          /\ sess.resumed /\ ~sess.ever /\ sess.named = None /\ child.out = <<>>
          /\ backend.handle = child.conv /\ (backend.started \/ backend.resume)
          /\ child.turn = None /\ child.total = 0
    /\ \A h \in Handles : dead[h] # 0 => dead[h] = 1 /\ OutOfHand(h)
    /\ turn.at # "idle" => \A h \in turn.refused :
          /\ h <= minted /\ dead[h] = 0 /\ ~turn.ok
          /\ turn.at \in {"start", "send", "read", "drain", "note", "drop", "judge"} => Silent(h)
          /\ turn.at = "finish" =>
                Forgotten \/ (sess.resumed /\ ~sess.ever /\ turn.refused = {h})
          /\ turn.at = "settle" => Forgotten
          /\ turn.at = "start" => turn.retried /\ ~sess.on

(* ConversationsWhole, as far as it goes where a signal may end the vendor. *)
Remembered ==
    ProofsHold /\ DeadOnce /\ ("term" \notin Mishaps => UnfinishedStays)

VendorInv ==
    /\ VendorShapes /\ InPlace /\ InStep /\ Heard /\ RunOnce /\ Handled
    /\ OwnResult /\ Remembered

-----------------------------------------------------------------------------
(* Pipes.                                                                   *)

LEMMA PipePuts ==
    ASSUME NEW s \in Seq(Frames), NEW f \in Frames
    PROVE  /\ Append(s, f) \in Seq(Frames) /\ Len(s) \in Nat
           /\ DOMAIN Append(s, f) = 1..(Len(s) + 1) /\ DOMAIN s = 1..Len(s)
           /\ \A i \in DOMAIN s : Append(s, f)[i] = s[i]
           /\ Append(s, f)[Len(s) + 1] = f
OBVIOUS

LEMMA PipeReads ==
    ASSUME NEW s \in Seq(Frames), s # <<>>
    PROVE  /\ Tail(s) \in Seq(Frames) /\ Head(s) \in Frames /\ Head(s) = s[1] /\ 1 \in DOMAIN s
           /\ \A i \in DOMAIN Tail(s) : Tail(s)[i] = s[i + 1] /\ i + 1 \in DOMAIN s /\ i + 1 # 1
<1>1. Len(s) \in Nat /\ Len(s) # 0 /\ DOMAIN s = 1..Len(s) /\ Tail(s) \in Seq(Frames)
      /\ Len(Tail(s)) = Len(s) - 1 /\ DOMAIN Tail(s) = 1..Len(Tail(s)) /\ Head(s) = s[1]
  OBVIOUS
<1>2. 1 \in DOMAIN s /\ s[1] \in Frames
  BY <1>1
<1>3. \A i \in 1..(Len(s) - 1) : Tail(s)[i] = s[i + 1] /\ i + 1 \in 1..Len(s) /\ i + 1 # 1
  BY <1>1
<1> QED BY <1>1, <1>2, <1>3

LEMMA PipeCut ==
    ASSUME NEW s \in Seq(Frames), NEW n \in 0..Len(s)
    PROVE  /\ SubSeq(s, 1, n) \in Seq(Frames)
           /\ \A i \in DOMAIN SubSeq(s, 1, n) : i \in DOMAIN s /\ SubSeq(s, 1, n)[i] = s[i]
<1>1. Len(s) \in Nat /\ n \in Nat /\ n <= Len(s) /\ DOMAIN s = 1..Len(s)
  OBVIOUS
<1>2. \A i \in 1..n : s[i] \in Frames
  BY <1>1
<1>3. SubSeq(s, 1, n) \in Seq(Frames) /\ Len(SubSeq(s, 1, n)) = n
      /\ \A i \in 1..n : SubSeq(s, 1, n)[i] = s[i]
  BY <1>1, <1>2, SubSeqProperties
<1> QED BY <1>1, <1>3

LEMMA VendorBounds ==
    /\ MaxTurns \in Nat /\ MaxHandles \in Nat /\ None = 0
    /\ 0 \in 0..MaxTurns /\ 0 \in 0..MaxHandles
    /\ \A p \in Prompts : p \in Nat /\ p # 0 /\ p \in 0..MaxTurns
    /\ \A h \in Handles : h \in Nat /\ h # 0 /\ h \in 0..MaxHandles
BY VendorBoundsAssumption DEF None, Prompts, Handles

LEMMA LeftOpenIs ==
    ASSUME VendorShapes, child.conv \in Handles, NEW how
    PROVE  /\ LeftOpen(how) \in [Handles -> Conversations]
           /\ \A h \in Handles :
                 /\ LeftOpen(how)[h].kept = conv[h].kept
                 /\ \/ LeftOpen(how)[h].open = conv[h].open
                    \/ /\ h = child.conv /\ child.turn # None /\ how # "exit"
                       /\ LeftOpen(how)[h].open = child.turn
<1>1. CASE how = "exit" \/ child.turn = None
  BY <1>1 DEF LeftOpen, VendorShapes
<1>2. CASE ~(how = "exit" \/ child.turn = None)
  <2>1. LeftOpen(how) = [conv EXCEPT ![child.conv] = [conv[child.conv] EXCEPT !.open = child.turn]]
    BY <1>2 DEF LeftOpen
  <2>2. conv[child.conv] \in Conversations /\ child.turn \in 0..MaxTurns
    BY DEF VendorShapes, Conversations, Processes
  <2>3. [conv[child.conv] EXCEPT !.open = child.turn] \in Conversations
    BY <2>2 DEF Conversations
  <2> QED BY <1>2, <2>1, <2>2, <2>3 DEF VendorShapes
<1> QED BY <1>1, <1>2

(* CloseProcess leaves no process, and at most its turn in its conversation. *)
LEMMA CloseIs ==
    ASSUME VendorShapes, Running => child.conv \in Handles, CloseProcess,
           ~Running => child.prompt = None /\ child.turn = None
    PROVE  /\ ~(Running')
           /\ child' \in Processes
           /\ conv' \in [Handles -> Conversations]
           /\ child'.prompt = None /\ child'.turn = None /\ child'.conv = child.conv
           /\ child'.out = child.out /\ child'.resumes = child.resumes
           /\ ~Running => child' = child
           /\ \A h \in Handles :
                 /\ conv'[h].kept = conv[h].kept
                 /\ \/ conv'[h].open = conv[h].open
                    \/ /\ Running /\ h = child.conv /\ child.turn # None /\ child'.hard
                       /\ conv'[h].open = child.turn
<1> PICK how \in {"exit", "kill"} :
        IF Running THEN child' = Ended(how) /\ conv' = LeftOpen(how)
        ELSE how = "exit" /\ UNCHANGED <<child, conv>>
  BY DEF CloseProcess
<1>1. CASE ~Running
  BY <1>1 DEF VendorShapes, Running
<1>2. CASE Running
  <2>1. child' = Ended(how) /\ conv' = LeftOpen(how) /\ child.conv \in Handles
    BY <1>2
  <2>2. /\ child'.state = "gone" /\ child'.turn = None /\ child'.prompt = None
        /\ child'.hard = (how = "kill") /\ child'.out = child.out /\ child'.conv = child.conv
        /\ child'.resumes = child.resumes
    BY <2>1 DEF Ended, VendorShapes, Processes
  <2>3. child' \in Processes
    BY <2>1, VendorBounds DEF Ended, VendorShapes, Processes
  <2> QED BY <1>2, <2>1, <2>2, <2>3, LeftOpenIs DEF Running
<1> QED BY <1>1, <1>2

-----------------------------------------------------------------------------
(* The turn, and its session.                                               *)

LEMMA BeginKeeps == VendorInv /\ Begin => VendorInv'
<1> SUFFICES ASSUME VendorInv, Begin PROVE VendorInv'
  OBVIOUS
<1> USE DEF VendorInv
<1>1. /\ turn.at = "idle" /\ Latest \in Nat /\ Latest + 1 \in Prompts
      /\ turn' = [Between EXCEPT !.at = "start", !.prompt = Latest + 1]
      /\ backend' = [backend EXCEPT !.delivered = FALSE, !.closed = FALSE]
      /\ conv' = conv /\ child' = child /\ sess' = sess /\ minted' = minted /\ mishaps' = mishaps
      /\ saved' = saved /\ told' = told /\ ran' = ran /\ again' = again /\ dead' = dead
  BY VendorBounds DEF Begin, BackendUnchanged, VendorShapes, Calls, Latest, Prompts
<1>2. /\ turn'.at = "start" /\ turn'.prompt = Latest + 1 /\ turn'.charge = 0 /\ ~turn'.ok
      /\ turn'.refused = {} /\ Latest' = Latest + 1
  BY <1>1 DEF Between, Latest
<1>3. /\ backend'.handle = backend.handle /\ backend'.resume = backend.resume
      /\ backend'.started = backend.started /\ backend'.retired = backend.retired
      /\ ~backend'.closed /\ ~backend'.delivered
  BY <1>1 DEF VendorShapes, Backends
<1>4. VendorShapes'
  <2>1. turn' \in Calls
    BY <1>1, VendorBounds DEF Between, Places, Calls
  <2>2. backend' \in Backends
    BY <1>1 DEF VendorShapes, Backends
  <2> QED BY <1>1, <2>1, <2>2 DEF VendorShapes
<1>5. InPlace'
  BY <1>1, <1>2 DEF InPlace
<1>6. InStep'
  BY <1>1, <1>2 DEF InPlace, InStep, Running, Drained, NoResult, Result, None, Prompts
<1>7. Heard' 
  BY <1>1, <1>2, <1>3 DEF Heard
<1>8. RunOnce'
  BY <1>1, <1>2, <1>3 DEF RunOnce, Unrun, InPlace, InStep, Drained, Running, Prompts
<1>9. Handled'
  <2>1. \A h : OutOfHand(h) => OutOfHand(h)'
    BY <1>1, <1>3 DEF OutOfHand, Running
  <2>2. \A h \in Handles : conv[h].open # None /\ "term" \notin Mishaps =>
          h <= minted /\ conv[h].open <= Latest /\ conv[h].open \in Nat
          /\ (told[conv[h].open].ended => OutOfHand(h))
    BY VendorBounds DEF Handled, VendorShapes, Conversations
  <2>3. \A h \in Handles : conv'[h].open # None /\ "term" \notin Mishaps =>
          /\ h <= minted' /\ conv'[h].open <= Latest' /\ conv'[h].open # Latest'
          /\ (told'[conv'[h].open].ended => OutOfHand(h)')
    BY <1>1, <1>2, <2>1, <2>2
  <2> QED BY <1>1, <1>2, <1>3, <2>1, <2>3 DEF Handled, Running
<1>10. (OwnResult /\ Remembered)'
  BY <1>1 DEF OwnResult, Remembered, ProofsHold, UnfinishedStays, DeadOnce
<1> QED BY <1>4, <1>5, <1>6, <1>7, <1>8, <1>9, <1>10

(* What only moves the turn on, keeps who is out of hand.                   *)
LEMMA KeepSessionKeeps == VendorInv /\ KeepSession => VendorInv'
<1> SUFFICES ASSUME VendorInv, KeepSession PROVE VendorInv'
  OBVIOUS
<1> USE DEF VendorInv
<1>1. /\ turn.at = "start" /\ sess.on /\ turn' = [turn EXCEPT !.at = "send"]
      /\ conv' = conv /\ child' = child /\ backend' = backend /\ sess' = sess
      /\ minted' = minted /\ mishaps' = mishaps
      /\ saved' = saved /\ told' = told /\ ran' = ran /\ again' = again /\ dead' = dead
  BY DEF KeepSession, BackendUnchanged, Reach
<1>2. /\ turn'.at = "send" /\ turn'.prompt = turn.prompt /\ turn'.charge = turn.charge
      /\ turn'.ok = turn.ok /\ turn'.refused = turn.refused /\ Latest' = Latest
      /\ turn' \in Calls
  BY <1>1 DEF VendorShapes, Calls, Places, Latest
<1>3. VendorShapes'
  BY <1>1, <1>2 DEF VendorShapes
<1>4. InPlace'
  BY <1>1, <1>2 DEF InPlace
<1>5. InStep'
  BY <1>1, <1>2 DEF InPlace, InStep, Running, Drained, NoResult, Result
<1>6. Heard'
  BY <1>1, <1>2 DEF Heard
<1>7. RunOnce'
  BY <1>1, <1>2 DEF RunOnce, Unrun, Running
<1>8. Handled'
  <2>1. \A h : OutOfHand(h) => OutOfHand(h)'
    BY <1>1 DEF OutOfHand, Running
  <2>2. turn.refused = {}
    BY <1>1 DEF Handled
  <2> QED BY <1>1, <1>2, <2>1, <2>2 DEF Handled, ToBeJudged, Running
<1>9. (OwnResult /\ Remembered)'
  BY <1>1 DEF OwnResult, Remembered, ProofsHold, UnfinishedStays, DeadOnce
<1> QED BY <1>3, <1>4, <1>5, <1>6, <1>7, <1>8, <1>9

LEMMA StartSessionKeeps == VendorInv /\ StartSession => VendorInv'
<1> SUFFICES ASSUME VendorInv, StartSession PROVE VendorInv'
  OBVIOUS
<1> USE DEF VendorInv
<1> DEFINE resume == backend.started \/ backend.resume
<1>1. /\ turn.at = "start" /\ ~sess.on /\ turn' = [turn EXCEPT !.at = "send"]
      /\ minted' = (IF Fresh > minted THEN Fresh ELSE minted) /\ Fresh <= MaxHandles
      /\ backend' = [Named(Fresh) EXCEPT !.started = TRUE]
      /\ child' = [NoChild EXCEPT !.state = "running", !.conv = Fresh, !.resumes = resume]
      /\ sess' = [NoSession EXCEPT !.on = TRUE, !.resumed = resume]
      /\ conv' = conv /\ mishaps' = mishaps
      /\ saved' = saved /\ told' = told /\ ran' = ran /\ again' = again /\ dead' = dead
  BY DEF StartSession, BackendUnchanged, Reach
<1>2. /\ turn'.at = "send" /\ turn'.prompt = turn.prompt /\ turn'.charge = turn.charge
      /\ turn'.ok = turn.ok /\ turn'.refused = turn.refused /\ Latest' = Latest
      /\ turn' \in Calls
  BY <1>1 DEF VendorShapes, Calls, Places, Latest
<1>3. /\ minted \in Nat /\ Fresh \in Nat /\ Fresh \in Handles /\ Fresh \in 0..MaxHandles
      /\ minted' \in 0..MaxHandles /\ Fresh <= minted' /\ minted <= minted'
      /\ backend.handle = None => Fresh = minted + 1
      /\ backend.handle # None => Fresh = backend.handle
  BY <1>1, VendorBounds DEF VendorShapes, Backends, Fresh, Handles
<1> HIDE DEF resume
<1>4. /\ backend' \in Backends /\ backend'.handle = Fresh /\ backend'.started
      /\ backend'.closed = backend.closed /\ backend'.delivered = backend.delivered
  BY <1>1, <1>3, VendorBounds DEF VendorShapes, Backends, Named
<1>5. resume \in BOOLEAN /\ << >> \in Seq(Frames) /\ Len(<< >>) = 0 /\ DOMAIN << >> = {}
  BY DEF VendorShapes, Backends, resume
<1>6. /\ child'.state = "running" /\ child'.conv = Fresh /\ child'.prompt = None
      /\ child'.turn = None /\ child'.out = <<>> /\ child'.total = 0 /\ child'.resumes = resume
      /\ child' \in Processes
  BY <1>1, <1>3, <1>5, VendorBounds DEF NoChild, Processes
<1>7. /\ sess'.on /\ sess'.resumed = resume /\ ~sess'.unusable /\ ~sess'.delivered /\ ~sess'.closed
      /\ ~sess'.ever /\ sess'.named = None /\ sess'.spent = 0 /\ sess' \in Sessions
  BY <1>1, <1>5, VendorBounds DEF NoSession, Sessions
<1>8. VendorShapes'
  BY <1>1, <1>2, <1>3, <1>4, <1>6, <1>7 DEF VendorShapes
<1>9. InPlace'
  BY <1>2, <1>7, <1>1 DEF InPlace
<1>10. InStep'
  BY <1>2, <1>3, <1>5, <1>6, <1>7, VendorBounds DEF InStep, Running, Drained, NoResult, Result
<1>11. Heard'
  BY <1>1, <1>2, <1>4 DEF Heard
<1>12. RunOnce'
  BY <1>1, <1>2, <1>4, <1>6 DEF RunOnce, Unrun, Running
<1>13. Handled'
  <2>1. \A h \in Handles : OutOfHand(h) => OutOfHand(h)'
    BY <1>1, <1>3, <1>4, <1>5, <1>6, <1>7, VendorBounds DEF OutOfHand, Running
  <2>2. \A h \in turn.refused : h \in Handles /\ Silent(h) /\ turn.retried
    BY <1>1 DEF Handled, VendorShapes, Calls
  <2>3. \A h \in turn.refused : Silent(h)'
    <3> TAKE h \in turn.refused
    <3>1. backend.handle = h /\ ~conv[h].kept /\ resume
      BY <2>2 DEF Silent, resume
    <3>2. Fresh = h
      BY <1>3, <2>2, <3>1, VendorBounds
    <3> QED BY <1>1, <1>4, <1>6, <1>7, <3>1, <3>2 DEF Silent, Running
  <2>4. \A h \in Handles : h <= minted => h <= minted'
    BY <1>3, VendorBounds
  <2>5. \A h \in Handles : ~ToBeJudged(h)
    BY <1>1 DEF ToBeJudged
  <2> QED BY <1>1, <1>2, <1>4, <1>6, <1>7, <2>1, <2>2, <2>3, <2>4, <2>5 DEF Handled, Running, VendorShapes, Calls
<1>14. (OwnResult /\ Remembered)'
  BY <1>1 DEF OwnResult, Remembered, ProofsHold, UnfinishedStays, DeadOnce
<1> QED BY <1>8, <1>9, <1>10, <1>11, <1>12, <1>13, <1>14

LEMMA NotStartedKeeps == VendorInv /\ NotStarted => VendorInv'
<1> SUFFICES ASSUME VendorInv, NotStarted PROVE VendorInv'
  OBVIOUS
<1> USE DEF VendorInv
<1>1. /\ turn.at = "start" /\ ~sess.on
      /\ turn' = [turn EXCEPT !.at = IF turn.retried THEN "finish" ELSE "settle"]
      /\ minted' = (IF Fresh > minted THEN Fresh ELSE minted) /\ Fresh <= MaxHandles
      /\ backend' = Named(Fresh) /\ mishaps' = mishaps + 1
      /\ child' = child /\ sess' = sess /\ conv' = conv
      /\ saved' = saved /\ told' = told /\ ran' = ran /\ again' = again /\ dead' = dead
  BY DEF NotStarted, BackendUnchanged, Reach, Happens
<1>2. /\ turn'.at = (IF turn.retried THEN "finish" ELSE "settle")
      /\ turn'.prompt = turn.prompt /\ turn'.charge = turn.charge
      /\ turn'.ok = turn.ok /\ turn'.refused = turn.refused /\ Latest' = Latest
      /\ turn' \in Calls
  BY <1>1 DEF VendorShapes, Calls, Places, Latest
<1>3. /\ minted \in Nat /\ Fresh \in Nat /\ Fresh \in Handles /\ Fresh \in 0..MaxHandles
      /\ minted' \in 0..MaxHandles /\ Fresh <= minted' /\ minted <= minted'
      /\ backend.handle = None => Fresh = minted + 1
      /\ backend.handle # None => Fresh = backend.handle
  BY <1>1, VendorBounds DEF VendorShapes, Backends, Fresh, Handles
<1>4. /\ backend' \in Backends /\ backend'.handle = Fresh
      /\ backend'.closed = backend.closed /\ backend'.delivered = backend.delivered
  BY <1>1, <1>3, VendorBounds DEF VendorShapes, Backends, Named
<1>5. VendorShapes'
  BY <1>1, <1>2, <1>3, <1>4 DEF VendorShapes
<1>6. InPlace'
  BY <1>1, <1>2 DEF InPlace
<1>7. InStep'
  BY <1>1, <1>2, <1>3, VendorBounds DEF InStep, InPlace, Running, Drained, NoResult, Result
<1>8. Heard'
  BY <1>1, <1>2, <1>4 DEF Heard, Answered, Costs
<1>9. RunOnce'
  BY <1>1, <1>2, <1>4 DEF RunOnce, Unrun, Running
<1>10. Handled'
  <2>1. \A h \in Handles : OutOfHand(h) => OutOfHand(h)'
    BY <1>1, <1>3, <1>4, VendorBounds DEF OutOfHand, Running
  <2>2. \A h \in turn.refused : h \in Handles /\ Silent(h) /\ turn.retried /\ turn.refused = {h}
    BY <1>1 DEF Handled, Silent, VendorShapes, Calls
  <2>3. \A h \in Handles : h <= minted => h <= minted'
    BY <1>3, VendorBounds
  <2>4. \A h \in Handles : ~ToBeJudged(h)
    BY <1>1 DEF ToBeJudged
  <2>5. ~Running /\ ~Running'
    BY <1>1 DEF InStep, Running
  <2> QED BY <1>1, <1>2, <1>4, <2>1, <2>2, <2>3, <2>4, <2>5 DEF Handled, Silent, VendorShapes
<1>11. (OwnResult /\ Remembered)'
  BY <1>1 DEF OwnResult, Remembered, ProofsHold, UnfinishedStays, DeadOnce
<1> QED BY <1>5, <1>6, <1>7, <1>8, <1>9, <1>10, <1>11

LEMMA SendKeeps == VendorInv /\ Send => VendorInv'
<1> SUFFICES ASSUME VendorInv, Send PROVE VendorInv'
  OBVIOUS
<1> USE DEF VendorInv
<1>1. /\ turn.at = "send" /\ turn' = [turn EXCEPT !.at = "read"]
      /\ sess' = [sess EXCEPT !.delivered = Queued, !.closed = FALSE]
      /\ child' = (IF Running THEN [child EXCEPT !.prompt = Latest] ELSE child)
      /\ conv' = conv /\ backend' = backend /\ minted' = minted /\ mishaps' = mishaps
      /\ saved' = saved /\ told' = told /\ ran' = ran /\ again' = again /\ dead' = dead
  BY DEF Send, BackendUnchanged, Reach
<1>2. /\ turn'.at = "read" /\ turn'.prompt = turn.prompt /\ turn'.charge = turn.charge
      /\ turn'.ok = turn.ok /\ turn'.refused = turn.refused /\ Latest' = Latest
      /\ turn' \in Calls
  BY <1>1 DEF VendorShapes, Calls, Places, Latest
<1>3. /\ sess' \in Sessions /\ sess'.on = sess.on /\ sess'.unusable = sess.unusable
      /\ sess'.ever = sess.ever /\ sess'.named = sess.named /\ sess'.spent = sess.spent
      /\ sess'.resumed = sess.resumed /\ sess'.delivered = Queued /\ ~sess'.closed
  BY <1>1 DEF VendorShapes, Sessions, Queued, Reaped
<1>4. /\ child' \in Processes /\ child'.state = child.state /\ child'.conv = child.conv
      /\ child'.turn = child.turn /\ child'.out = child.out /\ child'.total = child.total
      /\ child'.hard = child.hard /\ child'.resumes = child.resumes
      /\ child'.prompt = IF Running THEN Latest ELSE child.prompt
  BY <1>1 DEF VendorShapes, Processes, Calls, Latest
<1>5. /\ Drained /\ sess.on /\ ~sess.unusable /\ Latest \in Prompts /\ ran[Latest].times = 0
      /\ child.prompt = None /\ child.turn = None /\ NoResult
  BY <1>1 DEF InStep, InPlace, Drained, RunOnce, Unrun
<1>6. VendorShapes'
  BY <1>1, <1>2, <1>3, <1>4 DEF VendorShapes
<1>7. InPlace'
  BY <1>1, <1>2, <1>3 DEF InPlace
<1>8. InStep'
  BY <1>1, <1>2, <1>3, <1>4, <1>5, VendorBounds DEF InStep, Running, Drained, NoResult, Result
<1>9. Heard'
  BY <1>1, <1>2, <1>3, <1>4 DEF Heard, Queued, Reaped
<1>10. RunOnce'
  BY <1>1, <1>2, <1>3, <1>4, <1>5 DEF RunOnce, Unrun, Running, Queued, Reaped
<1>11. Handled'
  <2>1. \A h \in Handles : OutOfHand(h) => OutOfHand(h)'
    BY <1>1, <1>3, <1>4 DEF OutOfHand, Running
  <2>2. \A h \in turn.refused : Silent(h) => Silent(h)'
    BY <1>1, <1>3, <1>4 DEF Silent, Running
  <2>3. \A h \in Handles : ~ToBeJudged(h)
    BY <1>1 DEF ToBeJudged
  <2> QED BY <1>1, <1>2, <1>3, <1>4, <2>1, <2>2, <2>3 DEF Handled, Running
<1>12. (OwnResult /\ Remembered)'
  BY <1>1 DEF OwnResult, Remembered, ProofsHold, UnfinishedStays, DeadOnce
<1> QED BY <1>6, <1>7, <1>8, <1>9, <1>10, <1>11, <1>12

LEMMA StopsReading == VendorInv /\ (ReadEnd \/ DrainExpires) => VendorInv'
<1> SUFFICES ASSUME VendorInv, ReadEnd \/ DrainExpires PROVE VendorInv'
  OBVIOUS
<1> USE DEF VendorInv
<1>1. /\ turn.at \in {"read", "drain"} /\ turn' = [turn EXCEPT !.at = "note"]
      /\ sess' = [sess EXCEPT !.unusable = TRUE]
      /\ conv' = conv /\ child' = child /\ backend' = backend /\ minted' = minted
      /\ mishaps' = mishaps
      /\ saved' = saved /\ told' = told /\ ran' = ran /\ again' = again /\ dead' = dead
  BY DEF ReadEnd, DrainExpires, BackendUnchanged, Reach
<1>2. /\ turn'.at = "note" /\ turn'.prompt = turn.prompt /\ turn'.charge = turn.charge
      /\ turn'.ok = turn.ok /\ turn'.refused = turn.refused /\ Latest' = Latest
      /\ turn' \in Calls
  BY <1>1 DEF VendorShapes, Calls, Places, Latest
<1>3. /\ sess' \in Sessions /\ sess'.on = sess.on /\ sess'.unusable
      /\ sess'.ever = sess.ever /\ sess'.named = sess.named /\ sess'.spent = sess.spent
      /\ sess'.resumed = sess.resumed /\ sess'.delivered = sess.delivered
      /\ sess'.closed = sess.closed
  BY <1>1 DEF VendorShapes, Sessions
<1>4. VendorShapes'
  BY <1>1, <1>2, <1>3 DEF VendorShapes
<1>5. InPlace'
  BY <1>1, <1>2, <1>3 DEF InPlace, Heard
<1>6. InStep'
  BY <1>1, <1>2, <1>3 DEF InStep, Running, Drained, NoResult, Result
<1>7. Heard'
  BY <1>1, <1>2, <1>3 DEF Heard, Answered, Costs
<1>8. RunOnce'
  BY <1>1, <1>2, <1>3 DEF RunOnce, Unrun, Running, Heard, Reaped
<1>9. Handled'
  <2>1. \A h \in Handles : OutOfHand(h) => OutOfHand(h)'
    BY <1>1, <1>3 DEF OutOfHand, Running
  <2>2. \A h \in turn.refused : Silent(h) => Silent(h)'
    BY <1>1, <1>3 DEF Silent, Running
  <2>3. \A h \in Handles : ToBeJudged(h) => ToBeJudged(h)'
    BY <1>1, <1>2, <1>3 DEF ToBeJudged, Running
  <2> QED BY <1>1, <1>2, <1>3, <2>1, <2>2, <2>3 DEF Handled, Running
<1>10. (OwnResult /\ Remembered)'
  BY <1>1 DEF OwnResult, Remembered, ProofsHold, UnfinishedStays, DeadOnce
<1> QED BY <1>4, <1>5, <1>6, <1>7, <1>8, <1>9, <1>10

LEMMA CancelKeeps == VendorInv /\ Cancel => VendorInv'
<1> SUFFICES ASSUME VendorInv, Cancel PROVE VendorInv'
  OBVIOUS
<1> USE DEF VendorInv
<1>1. /\ turn.at = "read" /\ turn' = [Abandoned EXCEPT !.cancelled = TRUE]
      /\ mishaps' = mishaps + 1 /\ sess' = sess
      /\ conv' = conv /\ child' = child /\ backend' = backend /\ minted' = minted
      /\ saved' = saved /\ told' = told /\ ran' = ran /\ again' = again /\ dead' = dead
  BY DEF Cancel, BackendUnchanged, Happens
<1>2. /\ turn'.at = "drain" /\ turn'.prompt = turn.prompt /\ turn'.charge = turn.charge
      /\ turn'.ok = turn.ok /\ turn'.refused = turn.refused /\ Latest' = Latest
      /\ turn' \in Calls
  BY <1>1 DEF VendorShapes, Calls, Places, Latest, Abandoned
<1>3. VendorShapes'
  BY <1>1, <1>2 DEF VendorShapes
<1>4. InPlace'
  BY <1>1, <1>2 DEF InPlace
<1>5. InStep'
  BY <1>1, <1>2 DEF InStep, Running, Drained, NoResult, Result
<1>6. Heard'
  BY <1>1, <1>2 DEF Heard, Answered, Costs, Reaped
<1>7. RunOnce'
  BY <1>1, <1>2 DEF RunOnce, Unrun, Running
<1>8. Handled'
  <2>1. \A h \in Handles : OutOfHand(h) => OutOfHand(h)'
    BY <1>1 DEF OutOfHand, Running
  <2>2. \A h \in turn.refused : Silent(h) => Silent(h)'
    BY <1>1 DEF Silent, Running
  <2>3. \A h \in Handles : ToBeJudged(h) => ToBeJudged(h)'
    BY <1>1, <1>2 DEF ToBeJudged, Running, NoResult, Result
  <2> QED BY <1>1, <1>2, <2>1, <2>2, <2>3 DEF Handled, Running
<1>9. (OwnResult /\ Remembered)'
  BY <1>1 DEF OwnResult, Remembered, ProofsHold, UnfinishedStays, DeadOnce
<1> QED BY <1>3, <1>4, <1>5, <1>6, <1>7, <1>8, <1>9

(* A frame that is read: a result is this turn's and costs one, and after   *)
(* it there is none.                                                        *)
LEMMA FramesRead ==
    ASSUME VendorInv, turn.at \in {"read", "drain"}, child.out # <<>>
    PROVE  LET f == Head(child.out) IN
           /\ f \in Frames
           /\ Seen(f) \in Sessions /\ Seen(f).on = sess.on /\ Seen(f).unusable = sess.unusable
           /\ Seen(f).resumed = sess.resumed /\ Seen(f).delivered = sess.delivered /\ Seen(f).ever
           /\ Seen(f).named = IF f.conv # None THEN f.conv ELSE sess.named
           /\ Seen(f).closed = (f.kind = "result")
           /\ Seen(f).spent = IF f.kind = "result" THEN sess.spent + 1 ELSE sess.spent
           /\ \A h : OutOfHand(h) => f.conv # h
           /\ f.kind = "result" =>
                 /\ f.of = Latest /\ Charge(f) = 1 /\ ran[Latest].closed
                 /\ child.prompt = None /\ child.turn = None /\ sess.delivered
                 /\ \A i \in DOMAIN Tail(child.out) : Tail(child.out)[i].kind # "result"
                 /\ Running => child.total = sess.spent + 1
<1> DEFINE f == Head(child.out)
<1> USE DEF VendorInv
<1>1. /\ child.out \in Seq(Frames) /\ sess \in Sessions
  BY DEF VendorShapes, Processes
<1>2. f \in Frames /\ 1 \in DOMAIN child.out /\ f = child.out[1]
      /\ \A i \in DOMAIN Tail(child.out) : Tail(child.out)[i] = child.out[i + 1]
             /\ i + 1 \in DOMAIN child.out /\ i + 1 # 1
  BY <1>1, PipeReads
<1> HIDE DEF f
<1>3. /\ ~sess.closed /\ (~sess.delivered => Reaped) /\ sess.on
  BY DEF Heard, InPlace
<1>4. sess.delivered
  BY <1>3 DEF Reaped
<1>5. /\ f.total \in Nat /\ f.conv \in 0..MaxHandles /\ sess.spent \in Nat
  BY <1>1, <1>2 DEF Frames, Sessions
<1>6. f.kind = "result" =>
         /\ f.of = Latest /\ f.total = sess.spent + 1 /\ ran[Latest].closed
         /\ child.prompt = None /\ child.turn = None
         /\ Running => child.total = sess.spent + 1
         /\ \A j \in DOMAIN child.out : Result(j) => j = 1
  BY <1>2 DEF InStep, Result
<1>7. f.kind = "result" =>
         Charge(f) = 1 /\ \A i \in DOMAIN Tail(child.out) : Tail(child.out)[i].kind # "result"
  BY <1>2, <1>5, <1>6 DEF Charge, Result
<1>8. /\ Seen(f) \in Sessions /\ Seen(f).on = sess.on /\ Seen(f).unusable = sess.unusable
      /\ Seen(f).resumed = sess.resumed /\ Seen(f).delivered = sess.delivered /\ Seen(f).ever
      /\ Seen(f).named = (IF f.conv # None THEN f.conv ELSE sess.named)
      /\ Seen(f).closed = (f.kind = "result")
      /\ Seen(f).spent = IF f.kind = "result" THEN f.total ELSE sess.spent
  BY <1>1, <1>3, <1>5 DEF Seen, Sessions
<1>9. \A h : OutOfHand(h) => f.conv # h
  BY <1>2, <1>3 DEF OutOfHand
<1> QED BY <1>2, <1>4, <1>6, <1>7, <1>8, <1>9 DEF f

LEMMA FrameKeeps ==
    ASSUME VendorInv, turn.at \in {"read", "drain"}, child.out # <<>>,
           sess' = Seen(Head(child.out)), child' = [child EXCEPT !.out = Tail(@)],
           turn' \in Calls, turn'.prompt = turn.prompt, turn'.refused = turn.refused,
           IF Head(child.out).kind = "result"
             THEN turn'.at = "note" /\ turn'.charge = 1 /\ (turn'.ok => turn'.answer = Latest)
             ELSE turn'.at \in {"read", "drain"} /\ turn'.charge = turn.charge
                  /\ turn'.ok = turn.ok,
           UNCHANGED <<conv, backend, minted, mishaps>>, BackendUnchanged
    PROVE  VendorInv'
<1> USE DEF VendorInv
<1> DEFINE f == Head(child.out)
<1>1. /\ conv' = conv /\ backend' = backend /\ minted' = minted /\ mishaps' = mishaps
      /\ saved' = saved /\ told' = told /\ ran' = ran /\ again' = again /\ dead' = dead
      /\ Latest' = Latest
  BY DEF BackendUnchanged, Latest
<1>2. /\ child.out \in Seq(Frames) /\ child \in Processes /\ Tail(child.out) \in Seq(Frames)
      /\ \A i \in DOMAIN Tail(child.out) : Tail(child.out)[i] = child.out[i + 1]
             /\ i + 1 \in DOMAIN child.out
  BY PipeReads DEF VendorShapes, Processes
<1>3. /\ child' \in Processes /\ child'.state = child.state /\ child'.conv = child.conv
      /\ child'.prompt = child.prompt /\ child'.turn = child.turn /\ child'.total = child.total
      /\ child'.hard = child.hard /\ child'.resumes = child.resumes
      /\ child'.out = Tail(child.out)
  BY <1>2 DEF Processes
<1>4. \A i \in DOMAIN child'.out :
         child'.out[i] = child.out[i + 1] /\ i + 1 \in DOMAIN child.out
  BY <1>2, <1>3
<1>5. /\ f \in Frames
      /\ sess' \in Sessions /\ sess'.on = sess.on /\ sess'.unusable = sess.unusable
      /\ sess'.resumed = sess.resumed /\ sess'.delivered = sess.delivered /\ sess'.ever
      /\ sess'.named = (IF f.conv # None THEN f.conv ELSE sess.named)
      /\ sess'.closed = (f.kind = "result")
      /\ sess'.spent = (IF f.kind = "result" THEN sess.spent + 1 ELSE sess.spent)
      /\ \A h : OutOfHand(h) => f.conv # h
  BY FramesRead
<1>6. f.kind = "result" =>
         /\ f.of = Latest /\ ran[Latest].closed
         /\ child.prompt = None /\ child.turn = None /\ sess.delivered
         /\ \A i \in DOMAIN child'.out : child'.out[i].kind # "result"
         /\ Running => child.total = sess.spent + 1
  BY <1>3, FramesRead
<1>7. 1 \in DOMAIN child.out /\ f = child.out[1] /\ DOMAIN child.out = 1..Len(child.out)
      /\ Len(child.out) \in Nat
  BY <1>2, PipeReads
<1>8. /\ sess.on /\ ~sess.unusable /\ Latest \in Prompts /\ ~sess.closed
      /\ turn.charge = 0 /\ ~turn.ok /\ ~backend.closed
  BY DEF InPlace, Heard
<1>9. /\ f.kind = "result" =>
            turn'.at = "note" /\ turn'.charge = 1 /\ (turn'.ok => turn'.answer = Latest)
      /\ f.kind # "result" =>
            turn'.at \in {"read", "drain"} /\ turn'.charge = 0 /\ ~turn'.ok
  BY <1>8
<1>10. f.kind # "result" => (NoResult' => NoResult)
  <2> SUFFICES ASSUME f.kind # "result", NoResult', NEW i \in DOMAIN child.out
               PROVE  child.out[i].kind # "result"
    BY DEF NoResult, Result
  <2>1. CASE i = 1
    BY <2>1, <1>7
  <2>2. CASE i # 1
    <3>1. i - 1 \in DOMAIN child'.out /\ child'.out[i - 1] = child.out[i]
      BY <1>2, <1>3, <1>7, <2>2
    <3> QED BY <3>1 DEF NoResult, Result
  <2> QED BY <2>1, <2>2
<1>11. NoResult => NoResult'
  BY <1>4 DEF NoResult, Result
<1>12. ~sess.delivered => child.out = <<>>
  BY DEF Heard, Reaped
<1> HIDE DEF f
<1>13. VendorShapes'
  BY <1>1, <1>3, <1>5 DEF VendorShapes
<1>14. InPlace'
  BY <1>1, <1>5, <1>8, <1>9 DEF InPlace
<1>15. InStep'
  <2>1. Running' = Running /\ (f.kind = "result" => NoResult' /\ Drained')
    BY <1>3, <1>6 DEF Running, NoResult, Result, Drained
  <2>2. f.kind # "result" =>
           \A i \in DOMAIN child'.out : Result(i)' =>
              /\ child'.out[i].of = Latest' /\ child'.out[i].total = sess'.spent + 1
              /\ child'.prompt = None /\ child'.turn = None
              /\ Running' => child'.total = sess'.spent + 1
              /\ ran'[Latest'].closed
              /\ \A j \in DOMAIN child'.out : Result(j)' => j = i
    BY <1>1, <1>3, <1>4, <1>5, <1>7, <1>2 DEF InStep, Result, Running
  <2>3. Running' => sess'.on /\ child'.conv \in 1..minted'
    BY <1>1, <1>3, <1>5 DEF InStep, Running
  <2>4. sess'.on /\ ~sess'.unusable /\ Running' /\ NoResult' => child'.total = sess'.spent
    BY <1>3, <1>5, <1>6, <1>8, <1>10, <2>1 DEF InStep
  <2> QED BY <1>1, <1>3, <1>9, <2>1, <2>2, <2>3, <2>4 DEF InStep
<1>16. Heard'
  BY <1>1, <1>5, <1>6, <1>8, <1>9, <1>12 DEF Heard, Answered, Costs
<1>17. RunOnce'
  BY <1>1, <1>3, <1>5, <1>6, <1>8, <1>9, <1>12 DEF RunOnce, Unrun, Running
<1>18. Handled'
  <2>1. \A h \in Handles : OutOfHand(h) => OutOfHand(h)'
    BY <1>1, <1>3, <1>4, <1>5 DEF OutOfHand, Running
  <2>2. turn.refused = {}
    BY DEF Handled, Silent
  <2>3. \A h \in Handles : ToBeJudged(h) => ToBeJudged(h)'
    BY <1>1, <1>3, <1>5, <1>7, <1>9, <1>11 DEF ToBeJudged, Running, NoResult, Result
  <2>4. ~(Running /\ child.resumes) /\ ~(Running' /\ child'.resumes)
    BY <1>3 DEF Handled, Running
  <2> QED BY <1>1, <1>9, <2>1, <2>2, <2>3, <2>4 DEF Handled
<1>19. (OwnResult /\ Remembered)'
  BY <1>1 DEF OwnResult, Remembered, ProofsHold, UnfinishedStays, DeadOnce
<1> QED BY <1>13, <1>14, <1>15, <1>16, <1>17, <1>18, <1>19

LEMMA ReadKeeps == VendorInv /\ (ReadFrame \/ DrainFrame) => VendorInv'
<1> SUFFICES ASSUME VendorInv, ReadFrame \/ DrainFrame PROVE VendorInv'
  OBVIOUS
<1>1. turn.at \in {"read", "drain"} /\ child.out # <<>>
  BY DEF ReadFrame, DrainFrame
<1>2. Head(child.out) \in Frames /\ turn \in Calls /\ Latest = turn.prompt
      /\ (Head(child.out).kind = "result" => Charge(Head(child.out)) = 1
                                             /\ Head(child.out).of = Latest)
  BY <1>1, FramesRead DEF VendorInv, VendorShapes, Latest
<1>3. /\ sess' = Seen(Head(child.out)) /\ child' = [child EXCEPT !.out = Tail(@)]
      /\ UNCHANGED <<conv, backend, minted, mishaps>> /\ BackendUnchanged
  BY DEF ReadFrame, DrainFrame
<1>4. CASE ReadFrame
  <2>1. CASE Head(child.out).kind = "result"
    <3>1. turn' = [turn EXCEPT !.at = "note", !.ok = TRUE, !.answer = Head(child.out).of,
                               !.charge = Charge(Head(child.out))]
      BY <1>4, <2>1 DEF ReadFrame
    <3>2. turn' = [turn EXCEPT !.at = "note", !.ok = TRUE, !.answer = turn.prompt, !.charge = 1]
      BY <1>2, <2>1, <3>1
    <3>3. turn' \in Calls /\ turn'.prompt = turn.prompt /\ turn'.refused = turn.refused
          /\ turn'.at = "note" /\ turn'.charge = 1 /\ turn'.answer = turn.prompt
      BY <1>2, <3>2 DEF Calls, Places
    <3> QED BY <1>1, <1>2, <1>3, <2>1, <3>3, FrameKeeps
  <2>2. CASE Head(child.out).kind = "garbage"
    <3>1. turn' = Abandoned
      BY <1>4, <2>2 DEF ReadFrame
    <3>2. turn' \in Calls /\ turn'.prompt = turn.prompt /\ turn'.refused = turn.refused
          /\ turn'.at = "drain" /\ turn'.charge = turn.charge /\ turn'.ok = turn.ok
      BY <1>2, <3>1 DEF Calls, Places, Abandoned
    <3> QED BY <1>1, <1>3, <2>2, <3>2, FrameKeeps
  <2>3. CASE Head(child.out).kind \notin {"result", "garbage"}
    <3>1. turn' = turn
      BY <1>4, <2>3 DEF ReadFrame
    <3> QED BY <1>1, <1>2, <1>3, <2>3, <3>1, FrameKeeps
  <2> QED BY <2>1, <2>2, <2>3
<1>5. CASE DrainFrame
  <2>1. CASE Head(child.out).kind = "result"
    <3>1. turn' = [turn EXCEPT !.at = "note", !.charge = Charge(Head(child.out))]
      BY <1>5, <2>1 DEF DrainFrame
    <3>2. ~turn.ok
      BY <1>1 DEF VendorInv, Heard
    <3>3. turn' = [turn EXCEPT !.at = "note", !.charge = 1]
      BY <1>2, <2>1, <3>1
    <3>4. turn' \in Calls /\ turn'.prompt = turn.prompt /\ turn'.refused = turn.refused
          /\ turn'.at = "note" /\ turn'.charge = 1 /\ ~turn'.ok
      BY <1>2, <3>2, <3>3 DEF Calls, Places
    <3> QED BY <1>1, <1>3, <2>1, <3>4, FrameKeeps
  <2>2. CASE Head(child.out).kind # "result"
    <3>1. turn' = turn
      BY <1>5, <2>2 DEF DrainFrame
    <3> QED BY <1>1, <1>2, <1>3, <2>2, <3>1, FrameKeeps
  <2> QED BY <2>1, <2>2
<1> QED BY <1>4, <1>5

-----------------------------------------------------------------------------
(* After the session's turn.                                                *)

LEMMA NoteTurnKeeps == VendorInv /\ NoteTurn => VendorInv'
<1> SUFFICES ASSUME VendorInv, NoteTurn PROVE VendorInv'
  OBVIOUS
<1> USE DEF VendorInv
<1>1. /\ turn.at = "note"
      /\ turn' = [turn EXCEPT !.at = IF sess.unusable THEN "drop" ELSE "settle"]
      /\ backend' = [backend EXCEPT
            !.delivered = @ \/ sess.delivered, !.closed = sess.closed,
            !.handle    = IF sess.named # None THEN sess.named ELSE @,
            !.confirmed = IF sess.named # None THEN sess.named ELSE @]
      /\ conv' = conv /\ child' = child /\ sess' = sess /\ minted' = minted /\ mishaps' = mishaps
      /\ saved' = saved /\ told' = told /\ ran' = ran /\ again' = again /\ dead' = dead
  BY DEF NoteTurn, BackendUnchanged, Reach
<1>2. /\ turn'.at = (IF sess.unusable THEN "drop" ELSE "settle")
      /\ turn'.prompt = turn.prompt /\ turn'.charge = turn.charge /\ turn'.answer = turn.answer
      /\ turn'.ok = turn.ok /\ turn'.refused = turn.refused /\ Latest' = Latest
      /\ turn' \in Calls
  BY <1>1 DEF VendorShapes, Calls, Places, Latest
<1>3. /\ backend' \in Backends /\ backend'.closed = sess.closed
      /\ backend'.delivered = (backend.delivered \/ sess.delivered)
      /\ backend'.handle = (IF sess.named # None THEN sess.named ELSE backend.handle)
      /\ backend'.started = backend.started /\ backend'.resume = backend.resume
  BY <1>1 DEF VendorShapes, Backends, Sessions
<1>4. VendorShapes'
  BY <1>1, <1>2, <1>3 DEF VendorShapes
<1>5. InPlace'
  BY <1>1, <1>2 DEF InPlace
<1>6. InStep'
  BY <1>1, <1>2 DEF InStep, InPlace, Running, Drained, NoResult, Result
<1>7. Heard'
  BY <1>1, <1>2, <1>3 DEF Heard, Answered, Costs
<1>8. RunOnce'
  <2>1. sess.delivered => backend'.delivered
    BY <1>3
  <2>2. Unrun' => Unrun
    BY <1>1, <1>2, <2>1 DEF Unrun
  <2> QED BY <1>1, <1>2, <2>1, <2>2 DEF RunOnce, Running
<1>9. Handled'
  <2>1. \A h \in Handles : OutOfHand(h) => OutOfHand(h)'
    BY <1>1, <1>3 DEF OutOfHand, Running, InPlace
  <2>2. \A h \in turn.refused : Silent(h) => Silent(h)' /\ sess.unusable
    BY <1>1, <1>3 DEF Silent, Running, InPlace
  <2>3. \A h \in Handles : ToBeJudged(h) => ToBeJudged(h)'
    BY <1>1, <1>2 DEF ToBeJudged, Running
  <2>4. Running /\ child.resumes => backend'.handle = backend.handle
    BY <1>3 DEF Handled
  <2> QED BY <1>1, <1>2, <1>3, <2>1, <2>2, <2>3, <2>4 DEF Handled, Running
<1>10. (OwnResult /\ Remembered)'
  BY <1>1 DEF OwnResult, Remembered, ProofsHold, UnfinishedStays, DeadOnce
<1> QED BY <1>4, <1>5, <1>6, <1>7, <1>8, <1>9, <1>10

LEMMA DropSessionKeeps == VendorInv /\ DropSession => VendorInv'
<1> SUFFICES ASSUME VendorInv, DropSession PROVE VendorInv'
  OBVIOUS
<1> USE DEF VendorInv
<1>1. /\ turn.at = "drop" /\ turn' = [turn EXCEPT !.at = "judge"]
      /\ sess' = [sess EXCEPT !.on = FALSE] /\ CloseProcess
      /\ backend' = backend /\ minted' = minted /\ mishaps' = mishaps
      /\ saved' = saved /\ told' = told /\ ran' = ran /\ again' = again /\ dead' = dead
  BY DEF DropSession, BackendUnchanged, Reach
<1>2. /\ turn'.at = "judge" /\ turn'.prompt = turn.prompt /\ turn'.charge = turn.charge
      /\ turn'.answer = turn.answer
      /\ turn'.ok = turn.ok /\ turn'.refused = turn.refused /\ Latest' = Latest
      /\ turn' \in Calls
  BY <1>1 DEF VendorShapes, Calls, Places, Latest
<1>3. /\ sess' \in Sessions /\ ~sess'.on /\ sess'.ever = sess.ever /\ sess'.named = sess.named
      /\ sess'.resumed = sess.resumed /\ sess'.delivered = sess.delivered
  BY <1>1 DEF VendorShapes, Sessions
<1>4. /\ Running => child.conv \in Handles /\ child.conv <= minted
      /\ ~Running => child.prompt = None /\ child.turn = None
      /\ child.turn \in {None, Latest} /\ Latest \in Prompts
  BY <1>1, VendorBounds DEF InStep, InPlace, VendorShapes, Handles
<1>5. /\ ~(Running') /\ child' \in Processes /\ conv' \in [Handles -> Conversations]
      /\ child'.prompt = None /\ child'.turn = None /\ child'.conv = child.conv
      /\ child'.out = child.out /\ child'.resumes = child.resumes
      /\ ~Running => child' = child
      /\ \A h \in Handles :
            /\ conv'[h].kept = conv[h].kept
            /\ \/ conv'[h].open = conv[h].open
               \/ /\ Running /\ h = child.conv /\ child.turn # None /\ child'.hard
                  /\ conv'[h].open = child.turn
  BY <1>1, <1>4, CloseIs
<1>6. VendorShapes'
  BY <1>1, <1>2, <1>3, <1>5 DEF VendorShapes
<1>7. InPlace'
  BY <1>1, <1>2, <1>3 DEF InPlace
<1>8. InStep'
  BY <1>1, <1>2, <1>3, <1>5 DEF InStep
<1>9. Heard'
  BY <1>1, <1>2, <1>3 DEF Heard, Answered, Costs
<1>10. RunOnce'
  BY <1>1, <1>2, <1>3, <1>5 DEF RunOnce, Unrun
<1>11. Handled'
  <2>1. \A h \in Handles : OutOfHand(h) => OutOfHand(h)'
    BY <1>1, <1>3, <1>5 DEF OutOfHand
  <2>2. \A h \in turn.refused : Silent(h) => Silent(h)'
    BY <1>1, <1>2, <1>3, <1>5 DEF Silent, VendorShapes, Calls
  <2>3. \A h \in Handles : ToBeJudged(h) => ToBeJudged(h)'
    BY <1>1, <1>2, <1>3, <1>5 DEF ToBeJudged
  <2>4. \A h \in Handles : conv[h].open # None /\ "term" \notin Mishaps =>
          /\ h <= minted /\ conv[h].open <= Latest
          /\ conv[h].open = Latest => ToBeJudged(h)
          /\ told[conv[h].open].ended => OutOfHand(h)
    BY <1>1 DEF Handled
  <2>5. ~told[Latest].ended /\ Latest <= Latest /\ (Running => sess.delivered)
    BY <1>1, <1>4, VendorBounds DEF RunOnce
  <2>6. \A h \in Handles : conv'[h].open # None /\ "term" \notin Mishaps =>
          /\ h <= minted' /\ conv'[h].open <= Latest'
          /\ conv'[h].open = Latest' => ToBeJudged(h)'
          /\ told'[conv'[h].open].ended => OutOfHand(h)'
    <3> SUFFICES ASSUME NEW h \in Handles, conv'[h].open # None, "term" \notin Mishaps
                 PROVE  /\ h <= minted /\ conv'[h].open <= Latest
                        /\ conv'[h].open = Latest => ToBeJudged(h)'
                        /\ told[conv'[h].open].ended => OutOfHand(h)'
      BY <1>1, <1>2
    <3>1. CASE conv'[h].open = conv[h].open
      BY <3>1, <2>1, <2>3, <2>4
    <3>2. CASE /\ Running /\ h = child.conv /\ child.turn # None /\ child'.hard
               /\ conv'[h].open = child.turn
      <4>1. child.turn = Latest /\ ToBeJudged(h)'
        BY <1>2, <1>3, <1>4, <1>5, <2>5, <3>2 DEF ToBeJudged
      <4> QED BY <1>4, <2>5, <3>2, <4>1
    <3> QED BY <1>5, <3>1, <3>2
  <2> QED BY <1>1, <1>2, <1>3, <1>5, <2>1, <2>2, <2>6 DEF Handled, VendorShapes, Calls
<1>12. (OwnResult /\ Remembered)'
  BY <1>1 DEF OwnResult, Remembered, ProofsHold, UnfinishedStays, DeadOnce
<1> QED BY <1>6, <1>7, <1>8, <1>9, <1>10, <1>11, <1>12

LEMMA ForgetIs ==
    ASSUME backend \in Backends
    PROVE  /\ ForgetHandle(backend) \in Backends
           /\ ForgetHandle(backend).handle = None /\ ForgetHandle(backend).retired
           /\ ForgetHandle(backend).closed = backend.closed
           /\ ForgetHandle(backend).delivered = backend.delivered
BY VendorBounds DEF ForgetHandle, Backends

LEMMA RetireIfKilledKeeps == VendorInv /\ RetireIfKilled => VendorInv'
<1> SUFFICES ASSUME VendorInv, RetireIfKilled PROVE VendorInv'
  OBVIOUS
<1> USE DEF VendorInv
<1>1. /\ turn.at = "judge" /\ backend' = (IF Killed THEN ForgetHandle(backend) ELSE backend)
      /\ turn' = (IF Retries THEN [turn EXCEPT !.at = "start", !.retried = TRUE]
                  ELSE [turn EXCEPT !.at = "finish"])
      /\ conv' = conv /\ child' = child /\ sess' = sess /\ minted' = minted /\ mishaps' = mishaps
      /\ saved' = saved /\ told' = told /\ ran' = ran /\ again' = again /\ dead' = dead
  BY DEF RetireIfKilled, BackendUnchanged
<1>2. /\ turn'.at \in {"start", "finish"}
      /\ turn'.at = "start" => turn'.retried /\ ~sess.delivered
      /\ turn'.prompt = turn.prompt /\ turn'.charge = turn.charge /\ turn'.answer = turn.answer
      /\ turn'.ok = turn.ok /\ turn'.refused = turn.refused /\ Latest' = Latest
      /\ turn' \in Calls
  BY <1>1 DEF VendorShapes, Calls, Places, Latest, Retries
<1>3. /\ backend' \in Backends /\ backend'.closed = backend.closed
      /\ backend'.delivered = backend.delivered
      /\ backend'.handle # None => backend'.handle = backend.handle
      /\ Killed => backend'.handle = None /\ backend'.retired
      /\ ~Killed => backend' = backend
  BY <1>1, ForgetIs DEF VendorShapes
<1>4. ~sess.on /\ ~Running
  BY <1>1 DEF InPlace, InStep
<1>5. VendorShapes'
  BY <1>1, <1>2, <1>3 DEF VendorShapes
<1>6. InPlace'
  BY <1>1, <1>2 DEF InPlace
<1>7. InStep'
  BY <1>1, <1>2, <1>4 DEF InStep, Running
<1>8. Heard'
  BY <1>1, <1>2, <1>3 DEF Heard, Answered, Costs
<1>9. RunOnce'
  <2>1. Unrun' => Unrun
    BY <1>1, <1>2, <1>3 DEF Unrun
  <2> QED BY <1>1, <1>2, <2>1 DEF RunOnce, Running
<1>10. Handled'
  <2>1. \A h \in Handles : OutOfHand(h) => OutOfHand(h)'
    BY <1>1, <1>3, VendorBounds DEF OutOfHand, Running
  <2>2. \A h \in turn.refused :
           /\ h \in Handles /\ Silent(h) /\ turn.refused = {h}
           /\ turn'.at = "start" => Silent(h)'
           /\ turn'.at = "finish" => Forgotten' \/ (sess.resumed /\ ~sess.ever)
    BY <1>1, <1>2, <1>3, <1>4 DEF Handled, Silent, Running, Killed, Forgotten, VendorShapes, Calls
  <2>3. \A h \in Handles : ToBeJudged(h) => ToBeJudged(h)'
    BY <1>1, <1>2, <1>3, <1>4 DEF ToBeJudged, Running, Killed, Forgotten
  <2>4. ~Running'
    BY <1>1, <1>4 DEF Running
  <2> QED BY <1>1, <1>2, <1>3, <1>4, <2>1, <2>2, <2>3, <2>4 DEF Handled
<1>11. (OwnResult /\ Remembered)'
  BY <1>1 DEF OwnResult, Remembered, ProofsHold, UnfinishedStays, DeadOnce
<1> QED BY <1>5, <1>6, <1>7, <1>8, <1>9, <1>10, <1>11

LEMMA FinishKeeps == VendorInv /\ Finish => VendorInv'
<1> SUFFICES ASSUME VendorInv, Finish PROVE VendorInv'
  OBVIOUS
<1> USE DEF VendorInv
<1>1. /\ turn.at = "finish" /\ backend' = (IF DeadResume THEN ForgetHandle(backend) ELSE backend)
      /\ turn' = [turn EXCEPT !.at = "settle"]
      /\ conv' = conv /\ child' = child /\ sess' = sess /\ minted' = minted /\ mishaps' = mishaps
      /\ saved' = saved /\ told' = told /\ ran' = ran /\ again' = again /\ dead' = dead
  BY DEF Finish, BackendUnchanged, Reach
<1>2. /\ turn'.at = "settle"
      /\ turn'.prompt = turn.prompt /\ turn'.charge = turn.charge /\ turn'.answer = turn.answer
      /\ turn'.ok = turn.ok /\ turn'.refused = turn.refused /\ Latest' = Latest
      /\ turn' \in Calls
  BY <1>1 DEF VendorShapes, Calls, Places, Latest
<1>3. /\ backend' \in Backends /\ backend'.closed = backend.closed
      /\ backend'.delivered = backend.delivered
      /\ backend'.handle # None => backend'.handle = backend.handle
      /\ DeadResume => backend'.handle = None /\ backend'.retired
      /\ ~DeadResume => backend' = backend
  BY <1>1, ForgetIs DEF VendorShapes
<1>4. ~sess.on /\ ~Running
  BY <1>1 DEF InPlace, InStep
<1>5. VendorShapes'
  BY <1>1, <1>2, <1>3 DEF VendorShapes
<1>6. InPlace'
  BY <1>1, <1>2, <1>4 DEF InPlace
<1>7. InStep'
  BY <1>1, <1>2, <1>4 DEF InStep, Running
<1>8. Heard'
  BY <1>1, <1>2, <1>3 DEF Heard, Answered, Costs
<1>9. RunOnce'
  BY <1>1, <1>2, <1>3 DEF RunOnce, Unrun, Running
<1>10. Handled'
  <2>1. \A h \in Handles : OutOfHand(h) => OutOfHand(h)'
    BY <1>1, <1>3, VendorBounds DEF OutOfHand, Running
  <2>2. Forgotten => Forgotten'
    BY <1>1, <1>3 DEF Forgotten
  <2>3. turn.refused # {} => Forgotten'
    BY <1>1, <1>3, <1>4 DEF Handled, DeadResume, Forgotten
  <2>4. \A h \in Handles : ToBeJudged(h) => ToBeJudged(h)'
    BY <1>1, <1>2, <2>2 DEF ToBeJudged, Running
  <2>5. ~Running'
    BY <1>1, <1>4 DEF Running
  <2> QED BY <1>1, <1>2, <1>4, <2>1, <2>3, <2>4, <2>5 DEF Handled
<1>11. (OwnResult /\ Remembered)'
  BY <1>1 DEF OwnResult, Remembered, ProofsHold, UnfinishedStays, DeadOnce
<1> QED BY <1>5, <1>6, <1>7, <1>8, <1>9, <1>10, <1>11

LEMMA SettleKeeps == VendorInv /\ Settle => VendorInv'
<1> SUFFICES ASSUME VendorInv, Settle PROVE VendorInv'
  OBVIOUS
<1> USE DEF VendorInv
<1> DEFINE ending == [ended |-> TRUE, ok |-> turn.ok, answer |-> turn.answer,
                      charge |-> turn.charge, delivered |-> backend.delivered,
                      closed |-> backend.closed]
<1>1. /\ turn.at = "settle" /\ turn' = [turn EXCEPT !.at = "idle"]
      /\ told' = [told EXCEPT ![Latest] = ending]
      /\ dead' = [h \in Handles |->
                    IF h \in turn.refused /\ ~turn.ok THEN dead[h] + 1 ELSE dead[h]]
      /\ conv' = conv /\ child' = child /\ backend' = backend /\ sess' = sess
      /\ minted' = minted /\ mishaps' = mishaps /\ ran' = ran /\ again' = again
  BY DEF Settle, Reach
<1>2. /\ turn'.at = "idle" /\ turn'.prompt = turn.prompt /\ turn'.refused = turn.refused
      /\ Latest' = Latest /\ turn' \in Calls
  BY <1>1 DEF VendorShapes, Calls, Places, Latest
<1>3. /\ saved' \in {ProviderHandle, None, saved}
      /\ ProviderHandle = None /\ backend.retired => saved' = None
  BY DEF Settle
<1>4. ProviderHandle = IF sess.on /\ sess.named # None THEN sess.named ELSE backend.handle
  BY DEF ProviderHandle
<1>5. ProviderHandle \in 0..MaxHandles
  BY <1>4 DEF VendorShapes, Sessions, Backends
<1>6. ending \in Endings /\ ending.ended /\ ending.ok = turn.ok /\ ending.answer = turn.answer
      /\ ending.charge = turn.charge /\ ending.delivered = backend.delivered
      /\ ending.closed = backend.closed
  BY DEF VendorShapes, Endings, Calls, Backends
<1> HIDE DEF ending
<1>7. /\ Latest \in Prompts /\ told'[Latest] = ending
      /\ \A p \in Prompts : p # Latest => told'[p] = told[p]
      /\ told' \in [Prompts -> Endings]
  BY <1>1, <1>6 DEF InPlace, VendorShapes
<1>8. /\ \A h \in Handles : h \in turn.refused => dead[h] = 0 /\ ~turn.ok /\ Forgotten /\ h <= minted
      /\ \A h \in Handles : h \in turn.refused => dead'[h] = 1
      /\ \A h \in Handles : h \notin turn.refused => dead'[h] = dead[h]
      /\ dead' \in [Handles -> Nat]
  <2>1. \A h \in Handles : h \in turn.refused => dead[h] = 0 /\ ~turn.ok /\ Forgotten /\ h <= minted
    BY <1>1 DEF Handled
  <2>2. \A h \in Handles : dead[h] \in Nat
    BY DEF VendorShapes
  <2> QED BY <1>1, <2>1, <2>2
<1>9. VendorShapes'
  BY <1>1, <1>2, <1>3, <1>5, <1>7, <1>8, VendorBounds DEF VendorShapes
<1>10. InPlace'
  BY <1>1, <1>2 DEF InPlace
<1>11. InStep'
  BY <1>1, <1>2 DEF InStep, InPlace, Running, Drained, NoResult, Result
<1>12. Heard'
  BY <1>2 DEF Heard
<1>13. RunOnce'
  BY <1>1, <1>2, <1>7, VendorBounds DEF RunOnce, Unrun, Running
<1>14. Handled'
  <2>1. \A h \in Handles : OutOfHand(h) => OutOfHand(h)'
    BY <1>1, <1>3, <1>4, VendorBounds DEF OutOfHand, Running
  <2>2. Forgotten => \A h \in Handles : h <= minted => OutOfHand(h)'
    BY <1>1, <1>3, <1>4, VendorBounds DEF OutOfHand, Running, Forgotten, InStep
  <2>3. ASSUME NEW h \in Handles, conv[h].open # None, "term" \notin Mishaps
        PROVE  /\ h <= minted /\ conv[h].open <= Latest
               /\ told'[conv[h].open].ended => OutOfHand(h)'
    <3>1. h <= minted /\ conv[h].open <= Latest /\ conv[h].open \in Prompts
      BY <2>3, VendorBounds DEF Handled, VendorShapes, Conversations, Prompts
    <3>2. CASE conv[h].open = Latest
      <4>1. ToBeJudged(h)
        BY <1>1, <2>3, <3>2 DEF Handled
      <4> QED BY <1>1, <2>2, <3>1, <4>1 DEF ToBeJudged
    <3>3. CASE conv[h].open # Latest
      <4>1. told'[conv[h].open] = told[conv[h].open]
        BY <1>7, <3>1, <3>3
      <4> QED BY <2>1, <2>3, <3>1, <4>1 DEF Handled
    <3> QED BY <3>2, <3>3, <3>1
  <2>4. \A h \in Handles : dead'[h] # 0 => dead'[h] = 1 /\ OutOfHand(h)'
    BY <1>8, <2>1, <2>2 DEF Handled
  <2> QED BY <1>1, <1>2, <2>3, <2>4 DEF Handled, Running
<1>15. OwnResult'
  BY <1>1, <1>6, <1>7 DEF OwnResult, Heard, Answered, Costs
<1>16. Remembered'
  <2>1. ProofsHold'
    BY <1>1, <1>6, <1>7 DEF Remembered, ProofsHold, RunOnce, Unrun, Heard, Answered
  <2>2. DeadOnce'
    BY <1>8 DEF Remembered, DeadOnce
  <2> QED BY <1>1, <2>1, <2>2 DEF Remembered, UnfinishedStays
<1> QED BY <1>9, <1>10, <1>11, <1>12, <1>13, <1>14, <1>15, <1>16

-----------------------------------------------------------------------------
(* kolk goes, or starts over.                                               *)

LEMMA StartsOver ==
    ASSUME VendorInv, CloseProcess, backend' \in Backends,
           backend'.handle \in {None, saved}, saved' \in {None, saved},
           sess' = NoSession, turn' \in Calls, turn'.at = "idle", turn'.prompt = turn.prompt,
           mishaps' \in Nat, UNCHANGED <<minted, told, ran, again, dead>>
    PROVE  VendorInv'
<1> USE DEF VendorInv
<1>1. /\ minted' = minted /\ told' = told /\ ran' = ran /\ again' = again /\ dead' = dead
      /\ Latest' = Latest
  BY DEF Latest
<1>2. sess' \in Sessions /\ ~sess'.on
  BY VendorBounds DEF NoSession, Sessions
<1>3. /\ Running => child.conv \in Handles /\ child.conv <= minted
      /\ ~Running => child.prompt = None /\ child.turn = None
      /\ child.turn \in {None, Latest}
  BY VendorBounds DEF InStep, VendorShapes, Handles
<1>4. /\ ~(Running') /\ child' \in Processes /\ conv' \in [Handles -> Conversations]
      /\ child'.prompt = None /\ child'.turn = None
      /\ \A h \in Handles :
            \/ conv'[h].open = conv[h].open
            \/ /\ Running /\ h = child.conv /\ child.turn # None
               /\ conv'[h].open = child.turn
  BY <1>3, CloseIs
<1>5. Running /\ child.turn # None =>
         child.turn = Latest /\ Latest \in Prompts /\ ~told[Latest].ended
  <2> SUFFICES ASSUME Running, child.turn # None
               PROVE  child.turn = Latest /\ Latest \in Prompts /\ ~told[Latest].ended
    OBVIOUS
  <2>1. turn.at # "idle"
    BY DEF InStep, InPlace, Drained
  <2> QED BY <1>3, <2>1 DEF InPlace, RunOnce
<1>6. VendorShapes'
  BY <1>1, <1>2, <1>4, VendorBounds DEF VendorShapes
<1>7. InPlace'
  BY <1>2 DEF InPlace
<1>8. InStep'
  BY <1>1, <1>2, <1>4, VendorBounds DEF InStep
<1>9. Heard'
  BY DEF Heard
<1>10. RunOnce'
  BY <1>1, <1>4 DEF RunOnce, Unrun
<1>11. Handled'
  <2>1. \A h \in Handles : OutOfHand(h) => OutOfHand(h)'
    BY <1>1, <1>2, <1>4, VendorBounds DEF OutOfHand
  <2>2. ASSUME NEW h \in Handles, conv'[h].open # None, "term" \notin Mishaps
        PROVE  /\ h <= minted /\ conv'[h].open <= Latest
               /\ told[conv'[h].open].ended => OutOfHand(h)'
    <3>1. CASE conv'[h].open = conv[h].open
      BY <2>1, <2>2, <3>1 DEF Handled
    <3>2. CASE /\ Running /\ h = child.conv /\ child.turn # None
               /\ conv'[h].open = child.turn
      BY <1>3, <1>5, <3>2, VendorBounds
    <3> QED BY <1>4, <3>1, <3>2
  <2>3. \A h \in Handles : dead'[h] # 0 => dead'[h] = 1 /\ OutOfHand(h)'
    BY <1>1, <2>1 DEF Handled
  <2> QED BY <1>1, <1>4, <2>2, <2>3 DEF Handled
<1>12. (OwnResult /\ Remembered)'
  BY <1>1 DEF OwnResult, Remembered, ProofsHold, UnfinishedStays, DeadOnce
<1> QED BY <1>6, <1>7, <1>8, <1>9, <1>10, <1>11, <1>12

LEMMA StartsOverKeeps == VendorInv /\ (Restart \/ NewSession \/ KolkDies) => VendorInv'
<1> SUFFICES ASSUME VendorInv, Restart \/ NewSession \/ KolkDies PROVE VendorInv'
  OBVIOUS
<1>1. /\ turn \in Calls /\ saved \in 0..MaxHandles /\ backend \in Backends /\ mishaps \in Nat
      /\ turn.prompt \in 0..MaxTurns
  BY DEF VendorInv, VendorShapes, Calls
<1>2. /\ CloseProcess /\ sess' = NoSession /\ mishaps' = mishaps + 1
      /\ UNCHANGED <<minted, told, ran, again, dead>>
  BY DEF Restart, NewSession, KolkDies, Happens
<1>3. backend' \in {Backend(saved), ForgetHandle(backend)} /\ saved' \in {None, saved}
  BY DEF Restart, NewSession, KolkDies
<1>4. backend' \in Backends /\ backend'.handle \in {None, saved}
  <2>1. Backend(saved) \in Backends /\ Backend(saved).handle = saved
    BY <1>1, VendorBounds DEF Backend, Backends
  <2> QED BY <1>1, <1>3, <2>1, ForgetIs
<1>5. turn' \in Calls /\ turn'.at = "idle" /\ turn'.prompt = turn.prompt
  <2>1. CASE KolkDies
    <3>1. turn' = [Between EXCEPT !.prompt = turn.prompt]
      BY <2>1 DEF KolkDies, Latest
    <3> QED BY <1>1, <3>1, VendorBounds DEF Between, Calls, Places
  <2>2. CASE Restart \/ NewSession
    BY <1>1, <2>2 DEF Restart, NewSession
  <2> QED BY <2>1, <2>2
<1> QED BY <1>1, <1>2, <1>3, <1>4, <1>5, StartsOver

-----------------------------------------------------------------------------
(* The vendor and its process.                                              *)

LEMMA VendorRefusesKeeps == VendorInv /\ VendorRefuses => VendorInv'
<1> SUFFICES ASSUME VendorInv, VendorRefuses PROVE VendorInv'
  OBVIOUS
<1> USE DEF VendorInv
<1>1. /\ Running /\ child.resumes /\ ~conv[child.conv].kept /\ child.turn = None
      /\ child' = [child EXCEPT !.state = "gone", !.prompt = None]
      /\ turn' = [turn EXCEPT !.refused = @ \cup {child.conv}]
      /\ conv' = conv /\ backend' = backend /\ sess' = sess /\ minted' = minted
      /\ mishaps' = mishaps
      /\ saved' = saved /\ told' = told /\ ran' = ran /\ again' = again /\ dead' = dead
  BY DEF VendorRefuses
<1>2. /\ child.conv \in Handles /\ child.conv <= minted /\ sess.on /\ sess.resumed /\ ~sess.ever
      /\ sess.named = None /\ child.out = <<>> /\ backend.handle = child.conv
      /\ backend.started \/ backend.resume
  BY <1>1, VendorBounds DEF InStep, Handled, VendorShapes, Handles
<1>3. /\ turn'.at = turn.at /\ turn'.prompt = turn.prompt /\ turn'.charge = turn.charge
      /\ turn'.answer = turn.answer /\ turn'.ok = turn.ok /\ turn'.retried = turn.retried
      /\ turn'.refused = turn.refused \cup {child.conv} /\ Latest' = Latest /\ turn' \in Calls
  BY <1>1, <1>2 DEF VendorShapes, Calls, Latest
<1>4. /\ child' \in Processes /\ child'.state = "gone" /\ child'.conv = child.conv
      /\ child'.prompt = None /\ child'.turn = None /\ child'.total = child.total
      /\ child'.hard = child.hard /\ child'.resumes = child.resumes
      /\ child'.out = child.out
  BY <1>1, VendorBounds DEF VendorShapes, Processes
<1>5. turn.at \notin {"judge", "finish"} /\ (turn.at = "settle" => ~sess.unusable)
  BY <1>2 DEF InPlace
<1>6. VendorShapes'
  BY <1>1, <1>3, <1>4 DEF VendorShapes
<1>7. InPlace'
  BY <1>1, <1>3 DEF InPlace
<1>8. InStep'
  BY <1>1, <1>2, <1>3, <1>4 DEF InStep, Running, Drained, NoResult, Result
<1>9. Heard'
  BY <1>1, <1>2, <1>3, <1>4 DEF Heard, Answered, Costs, Reaped
<1>10. RunOnce'
  BY <1>1, <1>3, <1>4 DEF RunOnce, Unrun, Running
<1>11. Handled'
  <2>1. \A h \in Handles : OutOfHand(h) => OutOfHand(h)'
    BY <1>1, <1>4 DEF OutOfHand, Running
  <2>2. turn.at # "idle" => turn.at \in {"send", "read", "drain", "note", "drop"} /\ ~turn.ok
    BY <1>1, <1>2 DEF InPlace, Heard, VendorShapes, Calls, Places
  <2>3. Silent(child.conv)'
    BY <1>1, <1>2, <1>4 DEF Silent, Running
  <2>4. dead[child.conv] = 0
    BY <1>2 DEF Handled, OutOfHand
  <2>5. turn.at # "idle" => \A h \in turn.refused : h = child.conv
    BY <2>2 DEF Handled, Silent
  <2>6. \A h \in Handles : ~ToBeJudged(h)
    BY <1>1 DEF ToBeJudged
  <2>7. ~Running'
    BY <1>4 DEF Running
  <2>8. ASSUME turn'.at # "idle", NEW h \in turn'.refused
        PROVE  /\ h <= minted' /\ dead'[h] = 0 /\ ~turn'.ok /\ Silent(h)'
               /\ turn'.at \notin {"start", "finish", "settle"}
    <3>1. h = child.conv
      BY <1>3, <2>5, <2>8
    <3> QED BY <1>1, <1>2, <1>3, <2>2, <2>3, <2>4, <2>8, <3>1
  <2> QED BY <1>1, <1>3, <2>1, <2>6, <2>7, <2>8 DEF Handled
<1>12. (OwnResult /\ Remembered)'
  BY <1>1 DEF OwnResult, Remembered, ProofsHold, UnfinishedStays, DeadOnce
<1> QED BY <1>6, <1>7, <1>8, <1>9, <1>10, <1>11, <1>12

(* A process at work: nothing was refused, and what it works on is handed   *)
(* to it.                                                                   *)
LEMMA WorkingIs ==
    ASSUME VendorInv, Running
    PROVE  /\ sess.on /\ child.conv \in Handles /\ child.conv <= minted
           /\ ~child.resumes /\ turn.at # "idle" => turn.refused = {}
           /\ child.prompt # None \/ child.turn # None =>
                 /\ turn.at \in {"read", "drain", "note", "drop"}
                 /\ turn.at \in {"note", "drop"} => sess.unusable
                 /\ sess.delivered /\ ~told[Latest].ended /\ Latest \in Prompts /\ ~Unrun
           /\ child.prompt # None \/ child.turn # None =>
                 (turn.at \in {"read", "drain"} => NoResult)
           /\ \A h \in Handles : ~ToBeJudged(h) /\ (OutOfHand(h) => h # child.conv)
           /\ turn.at \in {"read", "drain"} => sess.delivered
<1> USE DEF VendorInv
<1>1. sess.on /\ child.conv \in Handles /\ child.conv <= minted
  BY VendorBounds DEF InStep, VendorShapes, Handles
<1>2. ASSUME ~child.resumes, turn.at # "idle" PROVE turn.refused = {}
  BY <1>1, <1>2 DEF Handled, Silent, Forgotten, InPlace, VendorShapes, Calls, Places
<1>3. turn.at \in {"read", "drain"} => sess.delivered
  BY DEF Heard, Reaped, Running
<1>4. ASSUME child.prompt # None \/ child.turn # None
      PROVE  /\ turn.at \in {"read", "drain", "note", "drop"}
             /\ turn.at \in {"note", "drop"} => sess.unusable
             /\ sess.delivered /\ ~told[Latest].ended /\ Latest \in Prompts /\ ~Unrun
             /\ turn.at \in {"read", "drain"} => NoResult
  <2>1. /\ turn.at \in {"read", "drain", "note", "drop"}
        /\ turn.at \in {"note", "drop"} => sess.unusable
    BY <1>1, <1>4 DEF InStep, InPlace, Drained
  <2>2. sess.delivered
    BY <1>3, <2>1 DEF RunOnce
  <2>3. ~told[Latest].ended /\ Latest \in Prompts
    BY <2>1 DEF RunOnce, InPlace
  <2>4. turn.at \in {"drop"} => backend.delivered
    BY <2>2 DEF RunOnce
  <2>5. turn.at \in {"read", "drain"} => NoResult
    BY <1>4 DEF InStep, NoResult
  <2> QED BY <2>1, <2>2, <2>3, <2>4, <2>5 DEF Unrun
<1>5. \A h \in Handles : ~ToBeJudged(h) /\ (OutOfHand(h) => h # child.conv)
  BY DEF ToBeJudged, OutOfHand
<1> QED BY <1>1, <1>2, <1>3, <1>4, <1>5

(* A frame that is no result: it only makes the pipe longer.                *)
LEMMA PutsKeeps ==
    ASSUME VendorInv, Running, NEW f \in Frames, f.kind # "result", f.conv = None,
           child.turn # None \/ child.total > 0,
           child' \in Processes, child'.state = child.state, child'.conv = child.conv,
           child'.prompt = child.prompt, child'.turn = child.turn, child'.total = child.total,
           child'.resumes = child.resumes, child'.out = Append(child.out, f), mishaps' \in Nat,
           UNCHANGED <<conv, ran, again>>, VendorUnchanged
    PROVE  VendorInv'
<1> USE DEF VendorInv
<1>1. /\ conv' = conv /\ ran' = ran /\ again' = again /\ backend' = backend /\ sess' = sess
      /\ turn' = turn /\ saved' = saved /\ minted' = minted /\ told' = told /\ dead' = dead
      /\ Latest' = Latest
  BY DEF VendorUnchanged, Latest
<1>2. /\ child.out \in Seq(Frames) /\ Len(child.out) \in Nat /\ DOMAIN child.out = 1..Len(child.out)
      /\ DOMAIN child'.out = 1..(Len(child.out) + 1)
      /\ \A i \in DOMAIN child.out : child'.out[i] = child.out[i]
      /\ child'.out[Len(child.out) + 1] = f
  BY PipePuts DEF VendorShapes, Processes
<1>3. \A i \in DOMAIN child'.out :
         \/ i \in DOMAIN child.out /\ child'.out[i] = child.out[i]
         \/ child'.out[i] = f
  BY <1>2
<1>4. \A i \in DOMAIN child.out : i \in DOMAIN child'.out
  BY <1>2
<1>5. /\ \A i \in DOMAIN child'.out : Result(i)' =>
             i \in DOMAIN child.out /\ child'.out[i] = child.out[i] /\ Result(i)
      /\ NoResult' <=> NoResult
      /\ Running' = Running
  BY <1>2, <1>3, <1>4 DEF Result, NoResult, Running
<1>6. ~child.resumes
  BY DEF Handled, VendorShapes, Processes
<1>7. VendorShapes'
  BY <1>1 DEF VendorShapes
<1>8. InPlace'
  BY <1>1 DEF InPlace
<1>9. InStep'
  <2>1. Drained' <=> Drained
    BY <1>5 DEF Drained
  <2> QED BY <1>1, <1>5, <2>1 DEF InStep
<1>10. Heard'
  BY <1>1, WorkingIs DEF Heard, Answered, Costs
<1>11. RunOnce'
  BY <1>1, <1>5 DEF RunOnce, Unrun
<1>12. Handled'
  <2>1. \A h \in Handles : OutOfHand(h) => OutOfHand(h)'
    BY <1>1, <1>3, <1>5, VendorBounds DEF OutOfHand
  <2> QED BY <1>1, <1>5, <1>6, <2>1, WorkingIs DEF Handled
<1>13. (OwnResult /\ Remembered)'
  BY <1>1 DEF OwnResult, Remembered, ProofsHold, UnfinishedStays, DeadOnce
<1> QED BY <1>7, <1>8, <1>9, <1>10, <1>11, <1>12, <1>13

LEMMA VendorPuts == VendorInv /\ (VendorWorks \/ VendorGarbles \/ VendorTrails) => VendorInv'
<1> SUFFICES ASSUME VendorInv, VendorWorks \/ VendorGarbles \/ VendorTrails PROVE VendorInv'
  OBVIOUS
<1>1. /\ child \in Processes /\ child.out \in Seq(Frames) /\ mishaps \in Nat
      /\ child.turn \in 0..MaxTurns
  BY DEF VendorInv, VendorShapes, Processes
<1>2. Running /\ UNCHANGED <<conv, ran, again>> /\ VendorUnchanged
  BY DEF VendorWorks, VendorGarbles, VendorTrails
<1>3. \A f \in Frames : Append(child.out, f) \in Seq(Frames)
  BY <1>1, PipePuts
<1>4. CASE VendorWorks
  <2> PICK f : f = Frame("work", child.turn, None, 0)
    OBVIOUS
  <2>1. f \in Frames /\ f.kind = "work" /\ f.conv = None
    BY <1>1, VendorBounds DEF Frame, Frames
  <2>2. child' = [child EXCEPT !.worked = TRUE, !.out = Append(child.out, f)]
        /\ child.turn # None /\ mishaps' = mishaps
    BY <1>4 DEF VendorWorks, Puts
  <2>3. /\ child' \in Processes /\ child'.state = child.state /\ child'.conv = child.conv
        /\ child'.prompt = child.prompt /\ child'.turn = child.turn /\ child'.total = child.total
        /\ child'.resumes = child.resumes /\ child'.out = Append(child.out, f)
    BY <1>1, <1>3, <2>1, <2>2 DEF Processes
  <2> QED BY <1>1, <1>2, <2>1, <2>2, <2>3, PutsKeeps
<1>5. CASE VendorGarbles \/ VendorTrails
  <2> PICK f : f = IF VendorGarbles THEN Frame("garbage", child.turn, None, 0)
                   ELSE Frame("trail", None, None, 0)
    OBVIOUS
  <2>1. f \in Frames /\ f.kind # "result" /\ f.conv = None
    BY <1>1, VendorBounds DEF Frame, Frames
  <2>2. child' = [child EXCEPT !.out = Append(child.out, f)]
        /\ (child.turn # None \/ child.total > 0) /\ mishaps' \in Nat
    BY <1>1, <1>5 DEF VendorGarbles, VendorTrails, Puts, Happens
  <2>3. /\ child' \in Processes /\ child'.state = child.state /\ child'.conv = child.conv
        /\ child'.prompt = child.prompt /\ child'.turn = child.turn /\ child'.total = child.total
        /\ child'.resumes = child.resumes /\ child'.out = Append(child.out, f)
    BY <1>1, <1>3, <2>1, <2>2 DEF Processes
  <2> QED BY <1>1, <1>2, <2>1, <2>2, <2>3, PutsKeeps
<1> QED BY <1>4, <1>5

LEMMA VendorClosesKeeps == VendorInv /\ VendorCloses => VendorInv'
<1> SUFFICES ASSUME VendorInv, VendorCloses PROVE VendorInv'
  OBVIOUS
<1> USE DEF VendorInv
<1> PICK f : f = Frame("result", child.turn, child.conv, child.total + 1)
  OBVIOUS
<1>1. /\ Running /\ child.turn # None
      /\ child' = [child EXCEPT !.turn = None, !.total = @ + 1, !.out = Append(child.out, f)]
      /\ ran' = [ran EXCEPT ![child.turn].closed = TRUE]
      /\ conv' = conv /\ again' = again /\ backend' = backend /\ sess' = sess /\ turn' = turn
      /\ saved' = saved /\ minted' = minted /\ told' = told /\ dead' = dead /\ mishaps' = mishaps
      /\ Latest' = Latest
  BY DEF VendorCloses, VendorUnchanged, Puts, Latest
<1>2. /\ sess.on /\ child.conv \in Handles /\ ~child.resumes
      /\ turn.at # "idle" => turn.refused = {}
      /\ turn.at \in {"read", "drain", "note", "drop"}
      /\ turn.at \in {"note", "drop"} => sess.unusable
      /\ sess.delivered /\ Latest \in Prompts
      /\ turn.at \in {"read", "drain"} => NoResult
      /\ \A h \in Handles : ~ToBeJudged(h) /\ (OutOfHand(h) => h # child.conv)
  <2>1. ~child.resumes
    BY <1>1 DEF Handled
  <2> QED BY <1>1, <2>1, WorkingIs
<1>3. child.turn = Latest /\ child.prompt = None
  BY <1>1 DEF InStep
<1>4. /\ child \in Processes /\ child.out \in Seq(Frames) /\ child.total \in Nat
      /\ sess.spent \in Nat
  BY DEF VendorShapes, Processes, Sessions
<1>5. /\ f \in Frames /\ f.kind = "result" /\ f.of = Latest /\ f.conv = child.conv
      /\ f.total = child.total + 1
  BY <1>2, <1>3, <1>4, VendorBounds DEF Frame, Frames
<1>6. /\ DOMAIN child.out = 1..Len(child.out) /\ Len(child.out) \in Nat
      /\ DOMAIN Append(child.out, f) = 1..(Len(child.out) + 1)
      /\ \A i \in DOMAIN child.out : Append(child.out, f)[i] = child.out[i]
      /\ Append(child.out, f)[Len(child.out) + 1] = f
      /\ Append(child.out, f) \in Seq(Frames)
  BY <1>4, <1>5, PipePuts
<1>7. /\ child' \in Processes /\ child'.state = child.state /\ child'.conv = child.conv
      /\ child'.prompt = None /\ child'.turn = None /\ child'.total = child.total + 1
      /\ child'.resumes = child.resumes /\ child'.out = Append(child.out, f)
  <2>1. child' = [child EXCEPT !.turn = None, !.total = child.total + 1,
                               !.out = Append(child.out, f)]
    BY <1>1
  <2>2. child.total + 1 \in Nat /\ None \in 0..MaxTurns
    BY <1>4, VendorBounds
  <2> QED BY <1>3, <1>4, <1>6, <2>1, <2>2 DEF Processes
<1>8. /\ ran' \in [Prompts -> [times : Nat, closed : BOOLEAN]]
      /\ ran'[Latest].closed
      /\ \A p \in Prompts : ran'[p].times = ran[p].times /\ (ran[p].closed => ran'[p].closed)
  <2>1. ran \in [Prompts -> [times : Nat, closed : BOOLEAN]] /\ child.turn \in Prompts
    BY <1>2, <1>3 DEF VendorShapes
  <2>2. ran' = [ran EXCEPT ![Latest] = [ran[Latest] EXCEPT !.closed = TRUE]]
    BY <1>1, <1>3
  <2>3. /\ [ran[Latest] EXCEPT !.closed = TRUE] \in [times : Nat, closed : BOOLEAN]
        /\ [ran[Latest] EXCEPT !.closed = TRUE].closed
        /\ [ran[Latest] EXCEPT !.closed = TRUE].times = ran[Latest].times
    BY <1>2, <2>1
  <2> QED BY <1>2, <2>1, <2>2, <2>3
<1>9. \A i \in DOMAIN child'.out :
         \/ i \in DOMAIN child.out /\ child'.out[i] = child.out[i]
         \/ i = Len(child.out) + 1 /\ child'.out[i] = f
  BY <1>6, <1>7
<1>10. Running' = Running /\ Len(child.out) + 1 \in DOMAIN child'.out
       /\ child'.out[Len(child.out) + 1] = f
  BY <1>6, <1>7 DEF Running
<1>11. VendorShapes'
  BY <1>1, <1>7, <1>8 DEF VendorShapes
<1>12. InPlace'
  BY <1>1 DEF InPlace
<1>13. InStep'
  <2>1. turn.at \in {"read", "drain"} => ~sess.unusable /\ child.total = sess.spent
    BY <1>1, <1>2 DEF InStep, InPlace
  <2>2. ~NoResult'
    BY <1>5, <1>10 DEF NoResult, Result
  <2>3. turn.at \in {"read", "drain"} => \A i \in DOMAIN child'.out : Result(i)' =>
          /\ child'.out[i].of = Latest /\ child'.out[i].total = sess.spent + 1
          /\ i = Len(child.out) + 1
    BY <1>2, <1>5, <1>9, <2>1 DEF NoResult, Result
  <2> QED BY <1>1, <1>2, <1>7, <1>8, <1>10, <2>1, <2>2, <2>3 DEF InStep
<1>14. Heard'
  BY <1>1, <1>2, <1>8 DEF Heard, Answered, Costs
<1>15. RunOnce'
  BY <1>1, <1>2, <1>3, <1>7, <1>8, <1>10, WorkingIs DEF RunOnce, Unrun
<1>16. Handled'
  <2>1. \A h \in Handles : OutOfHand(h) => OutOfHand(h)'
    BY <1>1, <1>2, <1>5, <1>7, <1>9, <1>10 DEF OutOfHand
  <2> QED BY <1>1, <1>2, <1>7, <2>1 DEF Handled
<1>17. (OwnResult /\ Remembered)'
  BY <1>1, <1>8 DEF OwnResult, Remembered, ProofsHold, UnfinishedStays,
                    DeadOnce
<1> QED BY <1>11, <1>12, <1>13, <1>14, <1>15, <1>16, <1>17

LEMMA VendorTakesKeeps == ASSUME NEW h \in Handles, VendorInv, VendorTakes(h) PROVE VendorInv'
<1> USE DEF VendorInv
<1> DEFINE c == conv[child.conv]
<1> PICK f : f = Frame("init", child.prompt, h, 0)
  OBVIOUS
<1>1. /\ Running /\ child.turn = None /\ child.prompt # None
      /\ c.kept \/ ~child.resumes
      /\ child' = [child EXCEPT !.conv = h, !.turn = child.prompt, !.prompt = None,
                                !.out = Append(child.out, f), !.resumes = FALSE, !.worked = FALSE]
      /\ conv' = [conv EXCEPT ![h] = [kept |-> TRUE, open |-> None]]
      /\ again' = again \cup ({c.open} \cap {p \in Prompts : told[p].ended})
      /\ ran' = [ran EXCEPT ![child.prompt].times = @ + 1]
      /\ backend' = backend /\ sess' = sess /\ turn' = turn
      /\ saved' = saved /\ told' = told /\ dead' = dead
      /\ Latest' = Latest
  BY DEF VendorTakes, Puts, Latest
<1>2. /\ sess.on /\ child.conv \in Handles /\ child.conv <= minted
      /\ turn.at \in {"read", "drain", "note", "drop"}
      /\ turn.at \in {"note", "drop"} => sess.unusable
      /\ sess.delivered /\ ~told[Latest].ended /\ Latest \in Prompts /\ ~Unrun
      /\ turn.at \in {"read", "drain"} => NoResult
      /\ \A g \in Handles : ~ToBeJudged(g) /\ (OutOfHand(g) => g # child.conv)
  BY <1>1, WorkingIs
<1>3. turn.refused = {}
  <2>1. CASE ~child.resumes
    BY <1>1, <1>2, <2>1, WorkingIs
  <2>2. CASE c.kept
    BY <1>2, <2>2 DEF Handled, Silent
  <2> QED BY <1>1, <2>1, <2>2
<1>4. child.prompt = Latest /\ ran[Latest].times = 0
  BY <1>1 DEF InStep, RunOnce
<1>5. /\ minted \in Nat /\ minted' \in Nat /\ minted' \in 0..MaxHandles /\ mishaps' \in Nat
      /\ minted <= minted' /\ h <= minted' /\ h # 0
      /\ \A g \in Handles : OutOfHand(g) => g # h
  <2>1. minted \in Nat /\ minted \in 0..MaxHandles /\ mishaps \in Nat
    BY VendorBounds DEF VendorShapes
  <2>2. CASE h = child.conv /\ UNCHANGED <<minted, mishaps>>
    BY <1>2, <2>1, <2>2, VendorBounds
  <2>3. CASE h = minted + 1 /\ minted' = h /\ mishaps' = mishaps + 1
    BY <2>1, <2>3, VendorBounds DEF OutOfHand
  <2> QED BY <2>2, <2>3 DEF VendorTakes, Happens
<1>6. /\ child \in Processes /\ child.out \in Seq(Frames)
      /\ h \in 0..MaxHandles /\ Latest \in 0..MaxTurns
  BY <1>2, VendorBounds DEF VendorShapes, Processes
<1>7. /\ f \in Frames /\ f.kind = "init" /\ f.conv = h
  BY <1>4, <1>6, VendorBounds DEF Frame, Frames
<1>8. /\ DOMAIN child.out = 1..Len(child.out) /\ Len(child.out) \in Nat
      /\ DOMAIN Append(child.out, f) = 1..(Len(child.out) + 1)
      /\ \A i \in DOMAIN child.out : Append(child.out, f)[i] = child.out[i]
      /\ Append(child.out, f)[Len(child.out) + 1] = f
      /\ Append(child.out, f) \in Seq(Frames)
  BY <1>6, <1>7, PipePuts
<1>9. /\ child' \in Processes /\ child'.state = child.state /\ child'.conv = h
      /\ child'.prompt = None /\ child'.turn = Latest /\ child'.total = child.total
      /\ ~child'.resumes /\ child'.out = Append(child.out, f)
  BY <1>1, <1>4, <1>6, <1>8, VendorBounds DEF Processes
<1>10. \A i \in DOMAIN child'.out :
         \/ i \in DOMAIN child.out /\ child'.out[i] = child.out[i]
         \/ child'.out[i] = f
  BY <1>8, <1>9
<1>11. /\ \A i \in DOMAIN child'.out : Result(i)' =>
             i \in DOMAIN child.out /\ child'.out[i] = child.out[i] /\ Result(i)
       /\ NoResult' <=> NoResult
       /\ Running' = Running
  <2>1. \A i \in DOMAIN child.out : i \in DOMAIN child'.out /\ child'.out[i] = child.out[i]
    BY <1>8, <1>9
  <2> QED BY <1>7, <1>9, <1>10, <2>1 DEF Result, NoResult, Running
<1>12. /\ ran' \in [Prompts -> [times : Nat, closed : BOOLEAN]]
       /\ ran'[Latest].times = 1
       /\ \A p \in Prompts : p # Latest => ran'[p].times = ran[p].times
       /\ \A p \in Prompts : ran'[p].closed = ran[p].closed
  <2>1. ran \in [Prompts -> [times : Nat, closed : BOOLEAN]]
    BY DEF VendorShapes
  <2>2. ran' = [ran EXCEPT ![Latest] = [ran[Latest] EXCEPT !.times = ran[Latest].times + 1]]
    BY <1>1, <1>4
  <2>3. /\ [ran[Latest] EXCEPT !.times = ran[Latest].times + 1] \in [times : Nat, closed : BOOLEAN]
        /\ [ran[Latest] EXCEPT !.times = ran[Latest].times + 1].times = 1
        /\ [ran[Latest] EXCEPT !.times = ran[Latest].times + 1].closed = ran[Latest].closed
    BY <1>2, <1>4, <2>1
  <2> QED BY <1>2, <2>1, <2>2, <2>3
<1>13. /\ conv' \in [Handles -> Conversations] /\ conv'[h].open = None
       /\ \A g \in Handles : g # h => conv'[g] = conv[g]
  <2>1. [kept |-> TRUE, open |-> None] \in Conversations
    BY VendorBounds DEF Conversations
  <2> QED BY <1>1, <2>1 DEF VendorShapes
<1>14. again' \in SUBSET Prompts /\ ("term" \notin Mishaps => again' = again)
  BY <1>1, <1>2 DEF Handled, VendorShapes, None, Prompts
<1> HIDE DEF c
<1>15. VendorShapes'
  BY <1>1, <1>5, <1>9, <1>12, <1>13, <1>14 DEF VendorShapes
<1>16. InPlace'
  BY <1>1 DEF InPlace
<1>17. InStep'
  BY <1>1, <1>2, <1>4, <1>5, <1>9, <1>11, <1>12, VendorBounds DEF InStep, InPlace, NoResult
<1>18. Heard'
  BY <1>1, <1>2, <1>12 DEF Heard, Answered, Costs
<1>19. RunOnce'
  <2>1. ~Unrun'
    BY <1>1, <1>2 DEF Unrun
  <2>2. \A p \in Prompts : p > Latest => ran'[p].times = 0 /\ ~told[p].ended
    BY <1>2, <1>12, VendorBounds DEF RunOnce
  <2> QED BY <1>1, <1>2, <1>9, <2>1, <2>2 DEF RunOnce
<1>20. Handled'
  <2>1. \A g \in Handles : OutOfHand(g) => OutOfHand(g)'
    BY <1>1, <1>5, <1>7, <1>9, <1>10, <1>11, VendorBounds DEF OutOfHand
  <2>2. ASSUME NEW g \in Handles, conv'[g].open # None, "term" \notin Mishaps
        PROVE  /\ g <= minted' /\ conv'[g].open <= Latest'
               /\ turn'.at # "idle" /\ conv'[g].open = Latest' => ToBeJudged(g)'
               /\ told'[conv'[g].open].ended => OutOfHand(g)'
    <3>1. g # h /\ conv'[g] = conv[g]
      BY <1>13, <2>2
    <3>2. /\ g <= minted /\ conv[g].open <= Latest
          /\ conv[g].open # Latest
          /\ told[conv[g].open].ended => OutOfHand(g)
      BY <1>2, <2>2, <3>1 DEF Handled
    <3> QED BY <1>1, <1>5, <2>1, <3>1, <3>2, VendorBounds
  <2> QED BY <1>1, <1>3, <1>9, <2>1, <2>2 DEF Handled
<1>21. (OwnResult /\ Remembered)'
  <2>1. ProofsHold'
    BY <1>1, <1>2, <1>12 DEF Remembered, ProofsHold
  <2> QED BY <1>1, <1>14, <2>1 DEF OwnResult, Remembered,
                                   UnfinishedStays, DeadOnce
<1> QED BY <1>15, <1>16, <1>17, <1>18, <1>19, <1>20, <1>21

LEMMA VendorForgetsKeeps == ASSUME NEW h \in Handles, VendorInv, VendorForgets(h) PROVE VendorInv'
<1> USE DEF VendorInv
<1>1. /\ conv' = [conv EXCEPT ![h].kept = FALSE] /\ mishaps' = mishaps + 1
      /\ child' = child /\ ran' = ran /\ again' = again /\ backend' = backend /\ sess' = sess
      /\ turn' = turn /\ saved' = saved /\ minted' = minted /\ told' = told /\ dead' = dead
      /\ Latest' = Latest
  BY DEF VendorForgets, VendorUnchanged, Happens, Latest
<1>2. /\ conv' \in [Handles -> Conversations]
      /\ \A g \in Handles : conv'[g].open = conv[g].open /\ (~conv[g].kept => ~conv'[g].kept)
  <2>1. conv' = [conv EXCEPT ![h] = [conv[h] EXCEPT !.kept = FALSE]]
    BY <1>1
  <2>2. /\ [conv[h] EXCEPT !.kept = FALSE] \in Conversations
        /\ [conv[h] EXCEPT !.kept = FALSE].open = conv[h].open
        /\ ~[conv[h] EXCEPT !.kept = FALSE].kept
    BY DEF VendorShapes, Conversations
  <2> QED BY <2>1, <2>2 DEF VendorShapes
<1>3. VendorShapes'
  BY <1>1, <1>2 DEF VendorShapes
<1>4. InPlace' /\ InStep' /\ Heard' /\ RunOnce'
  BY <1>1 DEF InPlace, InStep, Heard, RunOnce, Unrun, Running, Reaped, Drained, NoResult, Result,
              Answered, Costs
<1>5. Handled'
  <2>1. \A g \in Handles : OutOfHand(g) => OutOfHand(g)'
    BY <1>1 DEF OutOfHand, Running
  <2>2. \A g \in Handles : ToBeJudged(g) => ToBeJudged(g)'
    BY <1>1 DEF ToBeJudged, Running, NoResult, Result, Forgotten
  <2>3. \A g \in turn.refused : g \in Handles /\ (Silent(g) => Silent(g)')
    BY <1>1, <1>2 DEF Silent, Running, VendorShapes, Calls
  <2>4. Forgotten' = Forgotten /\ Running' = Running
    BY <1>1 DEF Forgotten, Running
  <2>5. \A g \in Handles : conv'[g].open # None /\ "term" \notin Mishaps =>
          /\ g <= minted' /\ conv'[g].open <= Latest'
          /\ turn'.at # "idle" /\ conv'[g].open = Latest' => ToBeJudged(g)'
          /\ told'[conv'[g].open].ended => OutOfHand(g)'
    BY <1>1, <1>2, <2>1, <2>2 DEF Handled
  <2> QED BY <1>1, <2>1, <2>3, <2>4, <2>5 DEF Handled
<1>6. (OwnResult /\ Remembered)'
  BY <1>1 DEF OwnResult, Remembered, ProofsHold, UnfinishedStays, DeadOnce
<1> QED BY <1>3, <1>4, <1>5, <1>6

LEMMA VendorDiesKeeps ==
    ASSUME NEW how \in {"exit", "kill", "term"}, VendorInv, VendorDies(how)
    PROVE  VendorInv'
<1> USE DEF VendorInv
<1>1. /\ Running /\ ("term" \notin Mishaps => how \in {"exit", "kill"}) /\ mishaps' = mishaps + 1
      /\ conv' = LeftOpen(how)
      /\ ran' = ran /\ again' = again /\ backend' = backend /\ sess' = sess
      /\ turn' = turn /\ saved' = saved /\ minted' = minted /\ told' = told /\ dead' = dead
      /\ Latest' = Latest
  BY DEF VendorDies, VendorUnchanged, Happens, Latest
<1>2. PICK n \in 0..Len(child.out) : child' = [Ended(how) EXCEPT !.out = SubSeq(child.out, 1, n)]
  BY DEF VendorDies
<1>3. /\ child \in Processes /\ child.out \in Seq(Frames)
  BY DEF VendorShapes, Processes
<1>4. /\ SubSeq(child.out, 1, n) \in Seq(Frames)
      /\ \A i \in DOMAIN SubSeq(child.out, 1, n) :
            i \in DOMAIN child.out /\ SubSeq(child.out, 1, n)[i] = child.out[i]
      /\ child.out = <<>> => SubSeq(child.out, 1, n) = <<>>
  BY <1>3, PipeCut
<1>5. /\ child' \in Processes /\ child'.state = "gone" /\ child'.conv = child.conv
      /\ child'.prompt = None /\ child'.turn = None /\ child'.total = child.total
      /\ child'.hard = (how = "kill") /\ child'.resumes = child.resumes
      /\ child'.out = SubSeq(child.out, 1, n)
  BY <1>2, <1>3, <1>4, VendorBounds DEF Ended, Processes
<1>6. \A i \in DOMAIN child'.out : i \in DOMAIN child.out /\ child'.out[i] = child.out[i]
  BY <1>4, <1>5
<1>7. /\ sess.on /\ child.conv \in Handles /\ child.conv <= minted
      /\ child.turn # None =>
            /\ turn.at \in {"read", "drain", "note", "drop"}
            /\ turn.at \in {"note", "drop"} => sess.unusable
            /\ sess.delivered /\ ~told[Latest].ended /\ Latest \in Prompts
            /\ turn.at \in {"read", "drain"} => NoResult
      /\ \A h \in Handles : ~ToBeJudged(h)
      /\ turn.at \in {"read", "drain"} => sess.delivered
      /\ child.turn \in {None, Latest}
  BY <1>1, WorkingIs DEF InStep
<1>8. /\ conv' \in [Handles -> Conversations]
      /\ \A h \in Handles :
            /\ conv'[h].kept = conv[h].kept
            /\ \/ conv'[h].open = conv[h].open
               \/ /\ h = child.conv /\ child.turn # None /\ how # "exit"
                  /\ conv'[h].open = child.turn
  BY <1>1, <1>7, LeftOpenIs
<1>9. ~Running'
  BY <1>5 DEF Running
<1>10. NoResult => NoResult'
  BY <1>6 DEF NoResult, Result
<1>11. VendorShapes'
  BY <1>1, <1>5, <1>8 DEF VendorShapes
<1>12. InPlace'
  BY <1>1 DEF InPlace
<1>13. InStep'
  <2>1. Drained => Drained'
    BY <1>5, <1>10 DEF Drained
  <2>2. \A i \in DOMAIN child'.out : Result(i)' =>
           i \in DOMAIN child.out /\ child'.out[i] = child.out[i] /\ Result(i)
    BY <1>6 DEF Result
  <2> QED BY <1>1, <1>5, <1>9, <2>1, <2>2 DEF InStep
<1>14. Heard'
  BY <1>1, <1>7 DEF Heard, Answered, Costs
<1>15. RunOnce'
  BY <1>1, <1>5, <1>9 DEF RunOnce, Unrun
<1>16. Handled'
  <2>1. \A h \in Handles : OutOfHand(h) => OutOfHand(h)'
    BY <1>1, <1>6, <1>9 DEF OutOfHand
  <2>2. \A h \in turn.refused : h \in Handles /\ (Silent(h) => Silent(h)')
    BY <1>1, <1>4, <1>5, <1>8, <1>9 DEF Silent, VendorShapes, Calls
  <2>3. ASSUME NEW h \in Handles, conv'[h].open # None, "term" \notin Mishaps
        PROVE  /\ h <= minted /\ conv'[h].open <= Latest
               /\ turn.at # "idle" /\ conv'[h].open = Latest => ToBeJudged(h)'
               /\ told[conv'[h].open].ended => OutOfHand(h)'
    <3>1. CASE conv'[h].open = conv[h].open
      BY <1>7, <2>1, <2>3, <3>1 DEF Handled
    <3>2. CASE /\ h = child.conv /\ child.turn # None /\ how # "exit"
               /\ conv'[h].open = child.turn
      <4>1. ToBeJudged(h)'
        BY <1>1, <1>5, <1>7, <1>9, <1>10, <2>3, <3>2 DEF ToBeJudged
      <4> QED BY <1>7, <3>2, <4>1, VendorBounds
    <3> QED BY <1>8, <3>1, <3>2
  <2>4. Forgotten' = Forgotten
    BY <1>1 DEF Forgotten
  <2> QED BY <1>1, <1>9, <2>1, <2>2, <2>3, <2>4 DEF Handled
<1>17. (OwnResult /\ Remembered)'
  BY <1>1 DEF OwnResult, Remembered, ProofsHold, UnfinishedStays, DeadOnce
<1> QED BY <1>11, <1>12, <1>13, <1>14, <1>15, <1>16, <1>17

LEMMA VendorStarts == VendorInit => VendorInv
<1> SUFFICES ASSUME VendorInit PROVE VendorInv
  OBVIOUS
<1>1. /\ conv = [h \in Handles |-> [kept |-> FALSE, open |-> None]]
      /\ child = NoChild /\ backend = Backend(None) /\ sess = NoSession /\ turn = Between
      /\ saved = None /\ minted = 0 /\ again = {} /\ dead = [h \in Handles |-> 0] /\ mishaps = 0
      /\ told = [p \in Prompts |-> [ended |-> FALSE, ok |-> FALSE, answer |-> None, charge |-> 0,
                                    delivered |-> FALSE, closed |-> FALSE]]
      /\ ran = [p \in Prompts |-> [times |-> 0, closed |-> FALSE]]
  BY DEF VendorInit
<1>2. << >> \in Seq(Frames)
  OBVIOUS
<1>3. child \in Processes /\ ~Running /\ child.prompt = None /\ child.turn = None
      /\ child.out = <<>>
  BY <1>1, <1>2, VendorBounds DEF NoChild, Processes, Running
<1>4. backend \in Backends /\ sess \in Sessions /\ ~sess.on
  BY <1>1, VendorBounds DEF Backend, Backends, NoSession, Sessions
<1>5. turn \in Calls /\ turn.at = "idle" /\ Latest = 0
  BY <1>1, VendorBounds DEF Between, Calls, Places, Latest
<1>6. /\ conv \in [Handles -> Conversations] /\ told \in [Prompts -> Endings]
      /\ ran \in [Prompts -> [times : Nat, closed : BOOLEAN]] /\ dead \in [Handles -> Nat]
      /\ \A h \in Handles : conv[h].open = None /\ dead[h] = 0
      /\ \A p \in Prompts : ~told[p].ended /\ ~told[p].closed /\ ran[p].times = 0
  BY <1>1, VendorBounds DEF Conversations, Endings
<1>7. VendorShapes
  BY <1>1, <1>3, <1>4, <1>5, <1>6, VendorBounds DEF VendorShapes
<1>8. InPlace /\ InStep /\ Heard
  BY <1>3, <1>4, <1>5, VendorBounds DEF InPlace, InStep, Heard
<1>9. RunOnce /\ Handled
  BY <1>3, <1>5, <1>6 DEF RunOnce, Unrun, Handled
<1>10. OwnResult /\ Remembered
  BY <1>1, <1>6 DEF OwnResult, Remembered, ProofsHold, UnfinishedStays,
                    DeadOnce
<1> QED BY <1>7, <1>8, <1>9, <1>10 DEF VendorInv

LEMMA VendorKept == VendorInv /\ [VendorNext]_vendorVars => VendorInv'
<1> SUFFICES ASSUME VendorInv, [VendorNext]_vendorVars PROVE VendorInv'
  OBVIOUS
<1>1. CASE UNCHANGED vendorVars
  <2>1. /\ conv' = conv /\ child' = child /\ backend' = backend /\ sess' = sess /\ turn' = turn
        /\ saved' = saved /\ minted' = minted /\ told' = told /\ ran' = ran /\ again' = again
        /\ dead' = dead /\ mishaps' = mishaps
    BY <1>1 DEF vendorVars
  <2> QED BY <2>1 DEF VendorInv, VendorShapes, InPlace, InStep, Heard, RunOnce, Handled, OwnResult,
                      Remembered, ProofsHold, UnfinishedStays, DeadOnce,
                      Running, Reaped, Latest, Drained, NoResult, Result, Answered, Costs, Unrun,
                      OutOfHand, ToBeJudged, Forgotten, Silent
<1>2. CASE VendorRefuses \/ VendorWorks \/ VendorGarbles \/ VendorCloses \/ VendorTrails
  BY <1>2, VendorRefusesKeeps, VendorPuts, VendorClosesKeeps
<1>3. ASSUME NEW h \in Handles, VendorTakes(h) \/ VendorForgets(h) PROVE VendorInv'
  BY <1>3, VendorTakesKeeps, VendorForgetsKeeps
<1>4. ASSUME NEW how \in {"exit", "kill", "term"}, VendorDies(how) PROVE VendorInv'
  BY <1>4, VendorDiesKeeps
<1>5. CASE Begin \/ KeepSession \/ StartSession \/ NotStarted \/ Send
  BY <1>5, BeginKeeps, KeepSessionKeeps, StartSessionKeeps, NotStartedKeeps, SendKeeps
<1>6. CASE ReadFrame \/ ReadEnd \/ Cancel \/ DrainFrame \/ DrainExpires
  BY <1>6, ReadKeeps, StopsReading, CancelKeeps
<1>7. CASE NoteTurn \/ DropSession \/ RetireIfKilled \/ Finish \/ Settle
  BY <1>7, NoteTurnKeeps, DropSessionKeeps, RetireIfKilledKeeps, FinishKeeps, SettleKeeps
<1>8. CASE Restart \/ NewSession \/ KolkDies
  BY <1>8, StartsOverKeeps
<1> QED BY <1>1, <1>2, <1>3, <1>4, <1>5, <1>6, <1>7, <1>8 DEF VendorNext

LEMMA VendorInvariant == VendorSpec => []VendorInv
BY VendorStarts, VendorKept, PTL DEF VendorSpec

(* No turn gets another's frames or pays for another's, for any number of   *)
(* turns, whatever was interrupted, garbled, killed, renamed or forgotten   *)
(* before it.                                                               *)
THEOREM VendorOwnResult == VendorSpec => []OwnResult
<1>1. VendorInv => OwnResult
  BY DEF VendorInv
<1> QED BY <1>1, VendorInvariant, PTL

(* What is said of a delivery and of an end is so, no vendor goes on with a *)
(* turn that has ended, and a conversation the vendor does not keep costs   *)
(* one turn, for any number of turns and mishaps; but no vendor is ended by *)
(* SIGTERM, which it answers as if it had ended by itself.                  *)
THEOREM VendorConversationsWhole ==
    ASSUME "term" \notin Mishaps PROVE VendorSpec => []ConversationsWhole
<1>1. VendorInv => ConversationsWhole
  BY DEF VendorInv, Remembered, ConversationsWhole, ResumesWhole
<1> QED BY <1>1, VendorInvariant, PTL

-----------------------------------------------------------------------------
(***************************************************************************)
(* RatingsTrue, for any processes, turns and stars, and any number of      *)
(* records, folds and deletions.                                           *)
(*                                                                         *)
(* Unless astray, a cache of this log ends where no record is being cut in *)
(* two (Uncut), and answers as some longer beginning of the log does: what *)
(* is read from its place on holds every record it has not counted, and    *)
(* perhaps some that it has.  A fold of this log has heard the answer of   *)
(* every beginning that is at least as long as the log was when the fold   *)
(* began.  So if no record from the place on changes the answer, the       *)
(* cache's is today's; and a cache whose place is the size the fold began  *)
(* with was right at some moment since, even if the log has been deleted   *)
(* meanwhile: that is why CacheOK speaks of the folds of the cache's log.  *)
(***************************************************************************)

Halves == [record : Records, half : {1, 2}]

IsCache(c) ==
    /\ c = [offset |-> c.offset, size |-> c.size, born |-> c.born, answer |-> c.answer]
    /\ c.offset \in Int /\ c.born \in Nat

IsDoing(d) ==
    /\ d = [at |-> d.at, record |-> d.record, size |-> d.size, born |-> d.born,
            cache |-> d.cache]
    /\ d.size \in Nat /\ d.born \in Nat /\ IsCache(d.cache)
    /\ d.at \in {"rest", "writing", "drop", "cached", "extend", "rebuild", "save", "told"}
    /\ d.at = "writing" => d.record \in Records

RatingShapes ==
    /\ stats \in Seq(Halves) /\ born \in Nat /\ IsCache(cache)
    /\ doing = [k \in Kolks |-> doing[k]] /\ \A k \in Kolks : IsDoing(doing[k])
    /\ truth = [k \in Kolks |-> truth[k]] /\ astray \in BOOLEAN

NoneWrites == \A k \in Kolks : doing[k].at # "writing"

(* Whoever writes has written the last half there is.                       *)
OneWrites ==
    /\ \A k \in Kolks : doing[k].at = "writing" =>
          stats # <<>> /\ stats[Len(stats)] = First(doing[k].record)
    /\ \A j, k \in Kolks : doing[j].at = "writing" /\ doing[k].at = "writing" => j = k

(* The answer of the first m halves.                                        *)
Says(s, m) == Answer(SubSeq(s, 1, m))

(* No record begins before the place n and ends behind it.                  *)
Uncut(s, idle, n) ==
    /\ n \in 1..Len(s)
    /\ \/ s[n].half = 2
       \/ n < Len(s) /\ s[n + 1].half = 1
       \/ n = Len(s) /\ idle

FoldOK(k) == Folding(k) =>
    /\ doing[k].born <= born /\ Answer(stats) \in truth[k]
    /\ doing[k].at # "told" => doing[k].size # 0
    /\ doing[k].born = born =>
          /\ doing[k].size <= Len(stats)
          /\ \A m \in doing[k].size..Len(stats) : Says(stats, m) \in truth[k]

Reaches(c) == c.born = born =>
    /\ Uncut(stats, NoneWrites, c.offset)
    /\ \E m \in c.offset..Len(stats) : c.answer = Says(stats, m)

KnownTo(c, k) ==
    Folding(k) /\ c.born = doing[k].born /\ c.offset >= doing[k].size => c.answer \in truth[k]

CacheOK(c) == c # NoCache =>
    /\ c.offset > 0 /\ c.born <= born
    /\ ~astray => Reaches(c) /\ \A k \in Kolks : KnownTo(c, k)

RatingsInv ==
    /\ RatingShapes /\ OneWrites
    /\ \A k \in Kolks : FoldOK(k)
    /\ CacheOK(cache)
    /\ \A k \in Kolks : doing[k].at \in {"extend", "save"} =>
          doing[k].cache # NoCache /\ CacheOK(doing[k].cache)
    /\ \A k \in Kolks : doing[k].at \in {"save", "told"} /\ ~astray =>
          doing[k].cache.answer \in truth[k]

-----------------------------------------------------------------------------
(* What a beginning of the log says.                                        *)

LEMMA BeginningIs ==
    ASSUME NEW s \in Seq(Halves), NEW m \in 0..Len(s)
    PROVE  /\ SubSeq(s, 1, m) \in Seq(Halves) /\ Len(SubSeq(s, 1, m)) = m
           /\ \A i \in 1..m : SubSeq(s, 1, m)[i] = s[i]
<1>1. \A i \in 1..m : s[i] \in Halves
  OBVIOUS
<1>2. m \in Int /\ m >= 0
  OBVIOUS
<1> QED BY <1>1, <1>2, SubSeqProperties

LEMMA SameBeginning ==
    ASSUME NEW s \in Seq(Halves), NEW t \in Seq(Halves), Len(s) <= Len(t),
           \A i \in 1..Len(s) : t[i] = s[i], NEW m \in 0..Len(s)
    PROVE  SubSeq(t, 1, m) = SubSeq(s, 1, m)
<1>1. m \in 0..Len(t)
  OBVIOUS
<1>2. /\ SubSeq(s, 1, m) \in Seq(Halves) /\ Len(SubSeq(s, 1, m)) = m
      /\ SubSeq(t, 1, m) \in Seq(Halves) /\ Len(SubSeq(t, 1, m)) = m
  BY <1>1, BeginningIs
<1>3. \A i \in 1..m : SubSeq(t, 1, m)[i] = SubSeq(s, 1, m)[i]
  <2> TAKE i \in 1..m
  <2>1. SubSeq(s, 1, m)[i] = s[i] /\ SubSeq(t, 1, m)[i] = t[i]
    BY <1>1, BeginningIs
  <2> QED BY <2>1
<1> QED BY <1>2, <1>3, SeqEqual

LEMMA WholeIs ==
    ASSUME NEW s, NEW n \in Nat, NEW i, Len(s) \in Nat
    PROVE  i \in Whole(s, n) <=>
               /\ i \in (n + 1)..(Len(s) - 1) /\ s[i].half = 1 /\ s[i + 1].half = 2
               /\ i = n + 1 \/ s[i - 1].half = 2
BY DEF Whole

LEMMA WholeInBeginning ==
    ASSUME NEW s \in Seq(Halves), NEW p \in Seq(Halves), Len(p) <= Len(s),
           \A i \in 1..Len(p) : p[i] = s[i]
    PROVE  Whole(p, 0) = {i \in Whole(s, 0) : i < Len(p)}
<1>1. Len(p) \in Nat /\ Len(s) \in Nat
  OBVIOUS
<1>2. ASSUME NEW i
      PROVE  i \in Whole(p, 0) <=> i \in Whole(s, 0) /\ i < Len(p)
  <2>1. CASE i \in 1..(Len(p) - 1)
    <3>1. p[i] = s[i] /\ p[i + 1] = s[i + 1] /\ i \in 1..(Len(s) - 1) /\ i < Len(p)
      BY <1>1, <2>1
    <3>2. i = 1 \/ p[i - 1] = s[i - 1]
      BY <1>1, <2>1
    <3> QED BY <1>1, <2>1, <3>1, <3>2, WholeIs
  <2>2. CASE i \notin 1..(Len(p) - 1)
    <3>1. i \notin Whole(p, 0)
      BY <1>1, <2>2, WholeIs
    <3>2. ~(i \in Whole(s, 0) /\ i < Len(p))
      BY <1>1, <2>2, WholeIs
    <3> QED BY <3>1, <3>2
  <2> QED BY <2>1, <2>2
<1> QED BY <1>2

(* What has been appended cannot have changed the answer.                   *)
LEMMA AnswerStays ==
    ASSUME NEW s \in Seq(Halves), NEW p \in Seq(Halves), Len(p) <= Len(s),
           \A i \in 1..Len(p) : p[i] = s[i],
           \A i \in Whole(s, 0) : i >= Len(p) =>
               s[i].record.kind # "rating" /\ s[i].record.turn \notin Rated(p)
    PROVE  Answer(s) = Answer(p)
<1>1. Len(p) \in Nat /\ Len(s) \in Nat
  OBVIOUS
<1>2. Whole(p, 0) = {i \in Whole(s, 0) : i < Len(p)}
  BY WholeInBeginning
<1>3. \A i \in Whole(s, 0) : i \in 1..Len(s)
  BY <1>1, WholeIs
<1>4. \A i \in Whole(p, 0) : p[i] = s[i]
  BY <1>1, <1>2, <1>3
<1>5. \A i \in Whole(s, 0) : i \notin Whole(p, 0) => i >= Len(p)
  BY <1>1, <1>2, <1>3
<1>6. \A t : Of(s, "rating", t) = Of(p, "rating", t)
  BY <1>2, <1>4, <1>5 DEF Of
<1>7. \A t \in Rated(p) : Of(s, "call", t) = Of(p, "call", t)
  BY <1>2, <1>4, <1>5 DEF Of
<1>8. Rated(s) = Rated(p)
  BY <1>6 DEF Rated
<1>9. ASSUME NEW t \in Rated(p)
      PROVE  s[Max(Of(s, "rating", t))] = p[Max(Of(p, "rating", t))]
  <2>1. Of(p, "rating", t) # {}
    BY <1>9 DEF Rated
  <2>2. Of(p, "rating", t) \in SUBSET (0..Len(s))
    BY <1>1, <1>2, <1>3 DEF Of
  <2>3. PICK x \in Of(p, "rating", t) : \A y \in Of(p, "rating", t) : y <= x
    BY <1>1, <2>1, <2>2, GreatestOf
  <2>4. \A y \in Of(p, "rating", t) : y \in Int
    BY <2>2, <1>1
  <2>5. \A y \in Of(p, "rating", t) : x >= y
    BY <2>3, <2>4
  <2>6. Max(Of(p, "rating", t)) \in Of(p, "rating", t)
    BY <2>5 DEF Max
  <2>7. Max(Of(p, "rating", t)) \in Whole(p, 0)
    BY <2>6 DEF Of
  <2>8. s[Max(Of(p, "rating", t))] = p[Max(Of(p, "rating", t))]
    BY <2>7, <1>4
  <2> QED BY <2>8, <1>6
<1> QED BY <1>6, <1>7, <1>8, <1>9, Zenon DEF Answer

LEMMA WholeSays ==
    ASSUME NEW s \in Seq(Halves)
    PROVE  Says(s, Len(s)) = Answer(s)
BY SubSeqFull DEF Says

LEMMA SaysStays ==
    ASSUME NEW s \in Seq(Halves), NEW t \in Seq(Halves), Len(s) <= Len(t),
           \A i \in 1..Len(s) : t[i] = s[i], NEW m \in 0..Len(s)
    PROVE  Says(t, m) = Says(s, m)
BY SameBeginning, Zenon DEF Says

-----------------------------------------------------------------------------
(* What is read from a place on.                                            *)

LEMMA ConsumedIs ==
    ASSUME NEW s \in Seq(Halves), NEW n \in Nat
    PROVE  /\ Consumed(s, n) \in Nat /\ Consumed(s, n) >= n
           /\ \/ Consumed(s, n) = n
              \/ Consumed(s, n) \in 1..Len(s) /\ s[Consumed(s, n)].half = 2
<1> DEFINE T == {n} \cup {i \in (n + 1)..Len(s) : s[i].half = 2}
<1>1. Len(s) \in Nat
  OBVIOUS
<1>2. T \in SUBSET (0..(n + Len(s))) /\ T # {} /\ n \in T /\ n + Len(s) \in Nat
  BY <1>1
<1>3. \A i \in T :
          \/ i = n
          \/ i \in 1..Len(s) /\ s[i].half = 2
  BY <1>1
<1>4. Consumed(s, n) = Max(T)
  BY DEF Consumed
<1> HIDE DEF T
<1>5. PICK x \in T : \A y \in T : y <= x
  BY <1>2, GreatestOf
<1>6. \A y \in T : y \in Nat
  BY <1>2
<1>7. \A y \in T : x >= y
  BY <1>5, <1>6
<1>8. Max(T) \in T /\ \A y \in T : Max(T) >= y
  BY <1>7 DEF Max
<1> QED BY <1>2, <1>3, <1>4, <1>6, <1>8

(* A reader from a place that cuts no record in two finds all that follow.  *)
LEMMA NoneIsMissed ==
    ASSUME NEW s \in Seq(Halves), NEW idle, NEW n \in Nat, Uncut(s, idle, n),
           NEW i \in Whole(s, 0), i >= n
    PROVE  i \in Whole(s, n)
<1>1. Len(s) \in Nat /\ n \in 1..Len(s)
  BY DEF Uncut
<1>2. i \in 1..(Len(s) - 1) /\ s[i].half = 1 /\ s[i + 1].half = 2 /\ (i = 1 \/ s[i - 1].half = 2)
  BY <1>1, WholeIs
<1>3. i # n
  BY <1>1, <1>2 DEF Uncut
<1>4. i \in (n + 1)..(Len(s) - 1) /\ i # 1
  BY <1>1, <1>2, <1>3
<1> QED BY <1>1, <1>2, <1>4, WholeIs

LEMMA NothingChanged ==
    ASSUME NEW s \in Seq(Halves), NEW idle, NEW n \in Nat, Uncut(s, idle, n),
           NEW m \in n..Len(s),
           \A i \in Whole(s, n) :
               s[i].record.kind # "rating" /\ s[i].record.turn \notin DOMAIN Says(s, m)
    PROVE  Answer(s) = Says(s, m)
<1> DEFINE p == SubSeq(s, 1, m)
<1>1. m \in 0..Len(s) /\ Len(s) \in Nat
  OBVIOUS
<1>2. p \in Seq(Halves) /\ Len(p) = m /\ \A i \in 1..m : p[i] = s[i]
  BY <1>1, BeginningIs
<1>3. Says(s, m) = Answer(p) /\ DOMAIN Says(s, m) = Rated(p)
  BY DEF Says, Answer
<1>4. \A i \in Whole(s, 0) : i \in 1..Len(s)
  BY <1>1, WholeIs
<1> HIDE DEF p
<1>5. ASSUME NEW i \in Whole(s, 0), i >= Len(p)
      PROVE  s[i].record.kind # "rating" /\ s[i].record.turn \notin Rated(p)
  <2>1. i >= n
    BY <1>1, <1>2, <1>4, <1>5
  <2>2. i \in Whole(s, n)
    BY <2>1, NoneIsMissed
  <2> QED BY <2>2, <1>3
<1>6. Answer(s) = Answer(p)
  BY <1>1, <1>2, <1>5, AnswerStays
<1> QED BY <1>3, <1>6

(* What Rebuild found not to be in the middle of a record is not.           *)
LEMMA NotWritten ==
    ASSUME stats \in Seq(Halves), NEW n \in 1..Len(stats), ~StillWritten(n)
    PROVE  Uncut(stats, NoneWrites, n)
<1>1. stats[n] \in Halves
  OBVIOUS
<1>2. stats[n].half \in {1, 2}
  BY <1>1 DEF Halves
<1>3. CASE stats[n].half = 2
  BY <1>3 DEF Uncut
<1>4. CASE stats[n].half = 1 /\ n = Len(stats)
  BY <1>4 DEF Uncut, StillWritten, NoneWrites
<1>5. CASE stats[n].half = 1 /\ n # Len(stats)
  <2>1. stats[n + 1] \in Halves /\ n < Len(stats)
    BY <1>5
  <2>2. stats[n + 1].half \in {1, 2} /\ stats[n + 1].half # 2
    BY <1>5, <2>1 DEF Halves, StillWritten
  <2> QED BY <2>1, <2>2 DEF Uncut
<1> QED BY <1>2, <1>3, <1>4, <1>5

-----------------------------------------------------------------------------
(* Steps.                                                                   *)

LEMMA RatingsStart == RatingsInit => RatingsInv
<1> SUFFICES ASSUME RatingsInit PROVE RatingsInv
  OBVIOUS
<1>1. /\ stats = <<>> /\ born = 0 /\ cache = NoCache /\ astray = FALSE
      /\ doing = [k \in Kolks |-> AtRest] /\ truth = [k \in Kolks |-> {}]
  BY DEF RatingsInit
<1>2. \A k \in Kolks : doing[k] = AtRest
  BY <1>1
<1>3. IsCache(NoCache)
  BY DEF IsCache, NoCache
<1>4. IsDoing(AtRest) /\ AtRest.at = "rest"
  BY <1>3 DEF IsDoing, AtRest
<1>5. RatingShapes
  <2>1. stats \in Seq(Halves)
    BY <1>1
  <2>5. born \in Nat
    BY <1>1
  <2>6. astray \in BOOLEAN
    BY <1>1
  <2>2. IsCache(cache) /\ \A k \in Kolks : IsDoing(doing[k])
    BY <1>1, <1>2, <1>3, <1>4
  <2>3. doing = [k \in Kolks |-> doing[k]]
    BY <1>1
  <2>4. truth = [k \in Kolks |-> truth[k]]
    BY <1>1
  <2> QED BY <2>1, <2>2, <2>3, <2>4, <2>5, <2>6 DEF RatingShapes
<1>6. OneWrites
  BY <1>2, <1>4 DEF OneWrites
<1>7. \A k \in Kolks : FoldOK(k)
  BY <1>2, <1>4 DEF FoldOK, Folding
<1>8. CacheOK(cache)
  BY <1>1 DEF CacheOK
<1>9. \A k \in Kolks : doing[k].at \notin {"extend", "save", "told"}
  BY <1>2, <1>4
<1> QED BY <1>5, <1>6, <1>7, <1>8, <1>9 DEF RatingsInv

LEMMA RatingTypes ==
    ASSUME RatingsInv
    PROVE  /\ stats \in Seq(Halves) /\ Len(stats) \in Nat /\ born \in Nat
           /\ astray \in BOOLEAN /\ IsCache(cache)
           /\ \A k \in Kolks : IsDoing(doing[k]) /\ doing[k].size \in Nat /\ doing[k].born \in Nat
BY DEF RatingsInv, RatingShapes, IsDoing

(* The log is as it was, or something has been appended.                    *)
Grows ==
    /\ stats' \in Seq(Halves) /\ Len(stats) <= Len(stats')
    /\ \A i \in 1..Len(stats) : stats'[i] = stats[i]
    /\ born' = born
    /\ \A n \in Nat : Uncut(stats, NoneWrites, n) => Uncut(stats', NoneWrites', n)

(* k is where it was in its fold, and has heard what has become right.      *)
Follows(k) == Folding(k)' =>
    /\ Folding(k) /\ doing'[k].size = doing[k].size /\ doing'[k].born = doing[k].born
    /\ doing'[k].at = "told" \/ doing[k].at # "told"
    /\ truth[k] \subseteq truth'[k]

Told(k) == Folding(k)' =>
    /\ Answer(stats') \in truth'[k]
    /\ \A m \in (Len(stats) + 1)..Len(stats') : Says(stats', m) \in truth'[k]

LEMMA CacheStays ==
    ASSUME RatingsInv, Grows, astray => astray',
           NEW c, IsCache(c), CacheOK(c),
           \A k \in Kolks : \/ Follows(k)
                            \/ ~astray /\ Reaches(c) => KnownTo(c, k)'
    PROVE  CacheOK(c)'
<1> SUFFICES ASSUME c # NoCache PROVE CacheOK(c)'
  BY DEF CacheOK
<1>1. stats \in Seq(Halves) /\ Len(stats) \in Nat /\ astray \in BOOLEAN
  BY RatingTypes
<1>2. c.offset > 0 /\ c.born <= born /\ c.offset \in Int /\ born' = born
  BY DEF CacheOK, Grows, IsCache
<1>3. ASSUME ~astray'
      PROVE  Reaches(c)' /\ \A k \in Kolks : KnownTo(c, k)'
  <2>1. Reaches(c) /\ (\A k \in Kolks : KnownTo(c, k)) /\ ~astray
    BY <1>3, <1>1 DEF CacheOK
  <2>2. ASSUME c.born = born
        PROVE  Uncut(stats', NoneWrites', c.offset)
    BY <2>1, <2>2, <1>2 DEF Reaches, Grows
  <2>3. ASSUME c.born = born
        PROVE  \E m \in c.offset..Len(stats') : c.answer = Says(stats', m)
    <3>1. PICK m \in c.offset..Len(stats) : c.answer = Says(stats, m)
      BY <2>1, <2>3 DEF Reaches
    <3>2. m \in 0..Len(stats) /\ m \in c.offset..Len(stats')
      BY <1>1, <1>2, <3>1 DEF Grows
    <3>3. Says(stats', m) = Says(stats, m)
      BY <1>1, <3>2, SaysStays DEF Grows
    <3> QED BY <3>1, <3>2, <3>3
  <2>4. Reaches(c)'
    BY <1>2, <2>2, <2>3 DEF Reaches
  <2>5. ASSUME NEW k \in Kolks PROVE KnownTo(c, k)'
    <3>1. CASE Follows(k)
      BY <2>1, <3>1 DEF Follows, KnownTo
    <3>2. CASE ~Follows(k)
      BY <2>1, <3>2
    <3> QED BY <3>1, <3>2
  <2> QED BY <2>4, <2>5
<1> QED BY <1>2, <1>3 DEF CacheOK

LEMMA FoldStays ==
    ASSUME RatingsInv, Grows, NEW k \in Kolks, Follows(k), Told(k)
    PROVE  FoldOK(k)'
<1> SUFFICES ASSUME Folding(k)' PROVE FoldOK(k)'
  BY DEF FoldOK
<1>1. stats \in Seq(Halves) /\ Len(stats) \in Nat /\ Len(stats') \in Nat /\ doing[k].size \in Nat
  BY RatingTypes DEF Grows
<1>2. FoldOK(k) /\ Folding(k)
  BY DEF RatingsInv, Follows
<1>3. doing'[k].born <= born' /\ Answer(stats') \in truth'[k] /\ doing'[k].size = doing[k].size
  BY <1>2 DEF FoldOK, Follows, Grows, Told
<1>4. doing'[k].at # "told" => doing'[k].size # 0
  BY <1>2 DEF FoldOK, Follows
<1>5. ASSUME doing'[k].born = born', NEW m \in doing'[k].size..Len(stats')
      PROVE  Says(stats', m) \in truth'[k]
  <2>1. CASE m <= Len(stats)
    <3>1. m \in doing[k].size..Len(stats) /\ m \in 0..Len(stats)
      BY <1>1, <1>3, <2>1
    <3>2. Says(stats, m) \in truth[k]
      BY <1>2, <1>5, <3>1 DEF FoldOK, Follows, Grows
    <3>3. Says(stats', m) = Says(stats, m)
      BY <1>1, <3>1, SaysStays DEF Grows
    <3> QED BY <3>2, <3>3 DEF Follows
  <2>2. CASE m > Len(stats)
    BY <1>1, <2>2, <1>3 DEF Told
  <2> QED BY <2>1, <2>2, <1>1, <1>3
<1>6. doing'[k].born = born' => doing'[k].size <= Len(stats')
  BY <1>1, <1>2, <1>3 DEF FoldOK, Follows, Grows
<1> QED BY <1>3, <1>4, <1>5, <1>6 DEF FoldOK

LEMMA LogSame ==
    ASSUME RatingsInv, stats' = stats, born' = born, NoneWrites => NoneWrites'
    PROVE  Grows
<1>1. stats \in Seq(Halves) /\ Len(stats) \in Nat
  BY RatingTypes
<1>2. ASSUME NEW n \in Nat, Uncut(stats, NoneWrites, n) PROVE Uncut(stats', NoneWrites', n)
  BY <1>2 DEF Uncut
<1> QED BY <1>1, <1>2 DEF Grows

LEMMA LogAppended ==
    ASSUME RatingsInv, NEW h \in Halves, stats' = Append(stats, h), born' = born,
           NoneWrites => h.half = 1, Right
    PROVE  /\ Grows
           /\ \A j \in Kolks : Folding(j) => truth[j] \subseteq truth'[j]
           /\ \A j \in Kolks : (Folding(j)' => Folding(j)) => Told(j)
<1>1. stats \in Seq(Halves) /\ Len(stats) \in Nat
  BY RatingTypes
<1>2. /\ stats' \in Seq(Halves) /\ Len(stats') = Len(stats) + 1
      /\ \A i \in 1..Len(stats) : stats'[i] = stats[i]
      /\ stats'[Len(stats) + 1] = h
  BY <1>1, AppendProperties
<1>3. ASSUME NEW n \in Nat, Uncut(stats, NoneWrites, n) PROVE Uncut(stats', NoneWrites', n)
  <2>1. n \in 1..Len(stats) /\ n \in 1..Len(stats') /\ n < Len(stats') /\ stats'[n] = stats[n]
    BY <1>1, <1>2, <1>3 DEF Uncut
  <2>2. CASE stats[n].half = 2
    BY <2>1, <2>2 DEF Uncut
  <2>3. CASE n < Len(stats) /\ stats[n + 1].half = 1
    <3>1. stats'[n + 1] = stats[n + 1]
      BY <1>1, <1>2, <2>1, <2>3
    <3> QED BY <2>1, <2>3, <3>1 DEF Uncut
  <2>4. CASE n = Len(stats) /\ NoneWrites
    <3>1. stats'[n + 1].half = 1
      BY <1>2, <2>4
    <3> QED BY <2>1, <3>1 DEF Uncut
  <2> QED BY <1>3, <2>2, <2>3, <2>4 DEF Uncut
<1>4. Grows
  BY <1>1, <1>2, <1>3 DEF Grows
<1>5. \A j \in Kolks : Folding(j) => truth'[j] = truth[j] \cup {Answer(stats')}
  BY DEF Right
<1>6. Says(stats', Len(stats) + 1) = Answer(stats')
  BY <1>2, WholeSays
<1>7. ASSUME NEW j \in Kolks, Folding(j)' => Folding(j) PROVE Told(j)
  <2> SUFFICES ASSUME Folding(j)' PROVE Told(j)
    BY DEF Told
  <2>1. Answer(stats') \in truth'[j]
    BY <1>5, <1>7
  <2>2. \A m \in (Len(stats) + 1)..Len(stats') : m = Len(stats) + 1
    BY <1>1, <1>2
  <2> QED BY <1>6, <2>1, <2>2 DEF Told
<1> QED BY <1>4, <1>5, <1>7

LEMMA OthersStay ==
    ASSUME RatingsInv, RatingShapes', OneWrites', Grows, astray' = astray,
           cache' = cache \/ cache' = NoCache,
           \A j \in Kolks : Folding(j)' => Folding(j) /\ doing'[j] = doing[j]
                                           /\ truth[j] \subseteq truth'[j],
           \A j \in Kolks : Told(j)
    PROVE  RatingsInv'
<1>1. \A j \in Kolks : Follows(j)
  BY DEF Follows
<1>2. \A j \in Kolks : FoldOK(j)'
  BY <1>1, FoldStays
<1>3. IsCache(cache) /\ CacheOK(cache) /\ \A j \in Kolks : IsDoing(doing[j])
  BY RatingTypes DEF RatingsInv
<1>4. CacheOK(cache)'
  <2>1. CASE cache' = cache
    <3>1. PICK c : c = cache
      OBVIOUS
    <3>2. CacheOK(c)'
      BY <1>1, <1>3, <3>1, CacheStays
    <3> QED BY <2>1, <3>1, <3>2 DEF CacheOK, Reaches, KnownTo
  <2>2. CASE cache' = NoCache
    BY <2>2 DEF CacheOK
  <2> QED BY <2>1, <2>2
<1>5. ASSUME NEW j \in Kolks, doing'[j].at \in {"extend", "save"}
      PROVE  doing'[j].cache # NoCache /\ CacheOK(doing[j].cache)'
  <2>1. doing'[j] = doing[j]
    BY <1>5 DEF Folding
  <2>2. PICK c : c = doing[j].cache
    OBVIOUS
  <2>3. IsCache(c) /\ CacheOK(c) /\ c # NoCache
    BY <1>3, <1>5, <2>1, <2>2 DEF RatingsInv, IsDoing
  <2>4. CacheOK(c)'
    BY <1>1, <2>3, CacheStays
  <2> QED BY <2>1, <2>2, <2>3, <2>4 DEF CacheOK, Reaches, KnownTo
<1>6. ASSUME NEW j \in Kolks, doing'[j].at \in {"save", "told"}, ~astray'
      PROVE  doing'[j].cache.answer \in truth'[j]
  <2>1. doing'[j] = doing[j] /\ truth[j] \subseteq truth'[j]
    BY <1>6 DEF Folding
  <2> QED BY <1>6, <2>1 DEF RatingsInv
<1> QED BY <1>2, <1>4, <1>5, <1>6 DEF RatingsInv

LEMMA DoingIs ==
    ASSUME RatingsInv, NEW k \in Kolks, NEW d, IsDoing(d), doing' = [doing EXCEPT ![k] = d]
    PROVE  /\ doing' = [j \in Kolks |-> doing'[j]] /\ \A j \in Kolks : IsDoing(doing'[j])
           /\ doing'[k] = d /\ \A j \in Kolks : j # k => doing'[j] = doing[j]
<1>1. doing = [j \in Kolks |-> doing[j]] /\ \A j \in Kolks : IsDoing(doing[j])
  BY DEF RatingsInv, RatingShapes
<1>2. doing' = [j \in Kolks |-> IF j = k THEN d ELSE doing[j]]
  BY <1>1
<1>3. doing' = [j \in Kolks |-> doing'[j]]
  BY <1>2
<1>4. doing'[k] = d /\ \A j \in Kolks : j # k => doing'[j] = doing[j]
  BY <1>2
<1> QED BY <1>1, <1>3, <1>4

LEMMA RestIs ==
    /\ IsCache(NoCache) /\ NoCache.offset = -1
    /\ IsDoing(AtRest) /\ AtRest.at = "rest" /\ AtRest.cache = NoCache
    /\ AtRest = [at |-> "rest", record |-> <<>>, size |-> 0, born |-> 0, cache |-> NoCache]
<1>1. IsCache(NoCache) /\ NoCache.offset = -1
  BY DEF IsCache, NoCache
<1> QED BY <1>1 DEF IsDoing, AtRest

LEMMA WritingIs ==
    ASSUME NEW r
    PROVE  [AtRest EXCEPT !.at = "writing", !.record = r] =
           [at |-> "writing", record |-> r, size |-> 0, born |-> 0, cache |-> NoCache]
<1>1. [AtRest EXCEPT !.at = "writing", !.record = r] =
      [[AtRest EXCEPT !.at = "writing"] EXCEPT !.record = r]
  OBVIOUS
<1>2. [AtRest EXCEPT !.at = "writing"] =
      [at |-> "writing", record |-> <<>>, size |-> 0, born |-> 0, cache |-> NoCache]
  BY DEF AtRest
<1>3. [[at |-> "writing", record |-> <<>>, size |-> 0, born |-> 0, cache |-> NoCache]
          EXCEPT !.record = r] =
      [at |-> "writing", record |-> r, size |-> 0, born |-> 0, cache |-> NoCache]
  OBVIOUS
<1> QED BY <1>1, <1>2, <1>3

LEMMA BegunIs ==
    ASSUME NEW a, NEW n, NEW b
    PROVE  [AtRest EXCEPT !.at = a, !.size = n, !.born = b] =
           [at |-> a, record |-> <<>>, size |-> n, born |-> b, cache |-> NoCache]
<1>1. [AtRest EXCEPT !.at = a, !.size = n, !.born = b] =
      [[[AtRest EXCEPT !.at = a] EXCEPT !.size = n] EXCEPT !.born = b]
  OBVIOUS
<1>2. [AtRest EXCEPT !.at = a] =
      [at |-> a, record |-> <<>>, size |-> 0, born |-> 0, cache |-> NoCache]
  BY DEF AtRest
<1>3. [[at |-> a, record |-> <<>>, size |-> 0, born |-> 0, cache |-> NoCache]
          EXCEPT !.size = n] =
      [at |-> a, record |-> <<>>, size |-> n, born |-> 0, cache |-> NoCache]
  OBVIOUS
<1>4. [[at |-> a, record |-> <<>>, size |-> n, born |-> 0, cache |-> NoCache]
          EXCEPT !.born = b] =
      [at |-> a, record |-> <<>>, size |-> n, born |-> b, cache |-> NoCache]
  OBVIOUS
<1> QED BY <1>1, <1>2, <1>3, <1>4

LEMMA ExtendedIs ==
    ASSUME NEW c, IsCache(c), NEW n, NEW m, NEW b
    PROVE  [c EXCEPT !.offset = n, !.size = m, !.born = b] =
           [offset |-> n, size |-> m, born |-> b, answer |-> c.answer]
<1>1. [c EXCEPT !.offset = n, !.size = m, !.born = b] =
      [[[c EXCEPT !.offset = n] EXCEPT !.size = m] EXCEPT !.born = b]
  OBVIOUS
<1>2. c = [offset |-> c.offset, size |-> c.size, born |-> c.born, answer |-> c.answer]
  BY DEF IsCache
<1>3. [c EXCEPT !.offset = n] =
      [offset |-> n, size |-> c.size, born |-> c.born, answer |-> c.answer]
  BY <1>2
<1>4. [[offset |-> n, size |-> c.size, born |-> c.born, answer |-> c.answer]
          EXCEPT !.size = m] =
      [offset |-> n, size |-> m, born |-> c.born, answer |-> c.answer]
  OBVIOUS
<1>5. [[offset |-> n, size |-> m, born |-> c.born, answer |-> c.answer]
          EXCEPT !.born = b] =
      [offset |-> n, size |-> m, born |-> b, answer |-> c.answer]
  OBVIOUS
<1> QED BY <1>1, <1>3, <1>4, <1>5

LEMMA HalvesAre ==
    ASSUME NEW r \in Records
    PROVE  First(r) \in Halves /\ Second(r) \in Halves /\ First(r).half = 1 /\ Second(r).half = 2
BY DEF First, Second, Halves

LEMMA RightIs ==
    ASSUME Right
    PROVE  truth' = [k \in Kolks |-> truth'[k]]
BY DEF Right

LEMMA BeginsKeeps ==
    ASSUME RatingsInv, NEW k \in Kolks, NEW r \in Records, Begins(k, r)
    PROVE  RatingsInv'
<1> DEFINE d == [at |-> "writing", record |-> r, size |-> 0, born |-> 0, cache |-> NoCache]
<1>1. /\ stats' = Append(stats, First(r)) /\ born' = born /\ cache' = cache /\ astray' = astray
      /\ Right /\ NoneWrites
  BY DEF Begins, NoneWrites
<1>2. [AtRest EXCEPT !.at = "writing", !.record = r] = d
  BY WritingIs
<1>3. doing' = [doing EXCEPT ![k] = d]
  BY <1>2 DEF Begins
<1>4. IsDoing(d) /\ d.at = "writing" /\ d.record = r
  BY RestIs DEF IsDoing
<1> HIDE DEF d
<1>5. /\ doing' = [j \in Kolks |-> doing'[j]] /\ \A j \in Kolks : IsDoing(doing'[j])
      /\ doing'[k] = d /\ \A j \in Kolks : j # k => doing'[j] = doing[j]
  BY <1>3, <1>4, DoingIs
<1>6. ~Folding(k)' /\ \A j \in Kolks : j # k => (Folding(j)' <=> Folding(j))
  BY <1>4, <1>5 DEF Folding
<1>7. /\ Grows /\ \A j \in Kolks : Folding(j) => truth[j] \subseteq truth'[j]
      /\ \A j \in Kolks : Told(j)
  BY <1>1, <1>6, LogAppended, HalvesAre
<1>8. RatingShapes'
  BY <1>1, <1>5, <1>7, RightIs, RatingTypes DEF RatingShapes, Grows
<1>9. OneWrites'
  <2>1. stats' # <<>> /\ stats'[Len(stats')] = First(r)
    BY <1>1, HalvesAre, RatingTypes, AppendProperties
  <2>2. \A j \in Kolks : doing'[j].at = "writing" => j = k /\ doing'[j].record = r
    BY <1>1, <1>4, <1>5 DEF NoneWrites
  <2> QED BY <2>1, <2>2 DEF OneWrites
<1>10. \A j \in Kolks : Folding(j)' => Folding(j) /\ doing'[j] = doing[j] /\ truth[j] \subseteq truth'[j]
  BY <1>5, <1>6, <1>7
<1> QED BY <1>1, <1>7, <1>8, <1>9, <1>10, OthersStay

LEMMA CompletesKeeps ==
    ASSUME RatingsInv, NEW k \in Kolks, Completes(k)
    PROVE  RatingsInv'
<1> DEFINE r == doing[k].record
           d == IF r.kind = "rating" THEN [doing[k] EXCEPT !.at = "drop"] ELSE AtRest
<1>1. /\ stats' = Append(stats, Second(r)) /\ born' = born /\ cache' = cache /\ astray' = astray
      /\ Right /\ doing[k].at = "writing" /\ ~NoneWrites
  BY DEF Completes, NoneWrites
<1>2. doing' = [doing EXCEPT ![k] = d]
  BY DEF Completes
<1>3. IsDoing(doing[k]) /\ r \in Records
  BY <1>1 DEF RatingsInv, RatingShapes, IsDoing
<1>4. IsDoing(d) /\ d.at \in {"drop", "rest"}
  <2>1. IsDoing([doing[k] EXCEPT !.at = "drop"]) /\ [doing[k] EXCEPT !.at = "drop"].at = "drop"
    BY <1>3 DEF IsDoing
  <2> QED BY <2>1, RestIs
<1> HIDE DEF d, r
<1>5. /\ doing' = [j \in Kolks |-> doing'[j]] /\ \A j \in Kolks : IsDoing(doing'[j])
      /\ doing'[k] = d /\ \A j \in Kolks : j # k => doing'[j] = doing[j]
  BY <1>2, <1>4, DoingIs
<1>6. ~Folding(k)' /\ \A j \in Kolks : j # k => (Folding(j)' <=> Folding(j))
  BY <1>4, <1>5 DEF Folding
<1>7. /\ Grows /\ \A j \in Kolks : Folding(j) => truth[j] \subseteq truth'[j]
      /\ \A j \in Kolks : Told(j)
  BY <1>1, <1>3, <1>6, LogAppended, HalvesAre
<1>8. RatingShapes'
  BY <1>1, <1>5, <1>7, RightIs, RatingTypes DEF RatingShapes, Grows
<1>9. OneWrites'
  <2>1. \A j \in Kolks : doing'[j].at # "writing"
    BY <1>1, <1>4, <1>5 DEF RatingsInv, OneWrites
  <2> QED BY <2>1 DEF OneWrites
<1>10. \A j \in Kolks : Folding(j)' => Folding(j) /\ doing'[j] = doing[j] /\ truth[j] \subseteq truth'[j]
  BY <1>5, <1>6, <1>7
<1> QED BY <1>1, <1>7, <1>8, <1>9, <1>10, OthersStay

(* Tears, Drop and Leave put k to rest and leave the log alone.             *)
LEMMA RestsKeeps ==
    ASSUME RatingsInv, NEW k \in Kolks, Tears(k) \/ Drop(k) \/ Leave(k)
    PROVE  RatingsInv'
<1>1. /\ stats' = stats /\ born' = born /\ (cache' = cache \/ cache' = NoCache) /\ astray' = astray
      /\ doing' = [doing EXCEPT ![k] = AtRest]
      /\ truth' = truth \/ truth' = [truth EXCEPT ![k] = {}]
  BY DEF Tears, Drop, Leave
<1>2. /\ doing' = [j \in Kolks |-> doing'[j]] /\ \A j \in Kolks : IsDoing(doing'[j])
      /\ doing'[k] = AtRest /\ \A j \in Kolks : j # k => doing'[j] = doing[j]
  BY <1>1, RestIs, DoingIs
<1>3. truth = [j \in Kolks |-> truth[j]]
  BY DEF RatingsInv, RatingShapes
<1>4. truth' = [j \in Kolks |-> truth'[j]] /\ \A j \in Kolks : j # k => truth'[j] = truth[j]
  BY <1>1, <1>3
<1>5. \A j \in Kolks : doing'[j].at = "writing" => doing[j].at = "writing" /\ doing'[j] = doing[j]
  BY <1>2, RestIs
<1>6. NoneWrites => NoneWrites'
  BY <1>5 DEF NoneWrites
<1>7. Grows
  BY <1>1, <1>6, LogSame
<1>8. RatingShapes'
  BY <1>1, <1>2, <1>4, RatingTypes, RestIs DEF RatingShapes
<1>9. OneWrites'
  BY <1>1, <1>5 DEF RatingsInv, OneWrites
<1>10. \A j \in Kolks : Folding(j)' => Folding(j) /\ doing'[j] = doing[j] /\ truth[j] \subseteq truth'[j]
  BY <1>2, <1>4, RestIs DEF Folding
<1>11. \A j \in Kolks : Told(j)
  <2> SUFFICES ASSUME NEW j \in Kolks, Folding(j)' PROVE Told(j)
    BY DEF Told
  <2>1. Answer(stats) \in truth[j]
    BY <1>10 DEF RatingsInv, FoldOK
  <2>2. \A m \in (Len(stats) + 1)..Len(stats') : FALSE
    BY <1>1, RatingTypes
  <2> QED BY <1>1, <1>10, <2>1, <2>2 DEF Told
<1> QED BY <1>1, <1>7, <1>8, <1>9, <1>10, <1>11, OthersStay

LEMMA DeleteKeeps ==
    ASSUME RatingsInv, Delete
    PROVE  RatingsInv'
<1>1. /\ stats' = <<>> /\ born' = born + 1 /\ cache' = cache /\ doing' = doing
      /\ astray' = astray /\ Right /\ NoneWrites
  BY DEF Delete, NoneWrites
<1>2. /\ born \in Nat /\ \A k \in Kolks : IsDoing(doing[k]) /\ doing[k].born \in Nat
  BY RatingTypes
<1>3. \A k \in Kolks : Folding(k)' <=> Folding(k)
  BY <1>1 DEF Folding
<1>4. \A k \in Kolks : Folding(k) => truth'[k] = truth[k] \cup {Answer(stats')}
  BY <1>1 DEF Right
<1>5. \A k \in Kolks : ~Folding(k) => truth'[k] = truth[k]
  BY <1>1 DEF Right
<1>6. RatingShapes'
  <2>1. stats' \in Seq(Halves)
    BY <1>1
  <2>2. born' \in Nat
    BY <1>1, <1>2
  <2>3. truth' = [k \in Kolks |-> truth'[k]]
    BY <1>1, RightIs
  <2>4. IsCache(cache') /\ astray' \in BOOLEAN /\ doing' = [k \in Kolks |-> doing'[k]]
        /\ \A k \in Kolks : IsDoing(doing'[k])
    BY <1>1 DEF RatingsInv, RatingShapes
  <2> QED BY <2>1, <2>2, <2>3, <2>4 DEF RatingShapes
<1>7. OneWrites'
  BY <1>1 DEF OneWrites, NoneWrites
<1>8. ASSUME NEW k \in Kolks PROVE FoldOK(k)'
  <2> SUFFICES ASSUME Folding(k) PROVE FoldOK(k)'
    BY <1>3 DEF FoldOK
  <2>1. FoldOK(k)
    BY DEF RatingsInv
  <2>2. doing[k].born <= born /\ (doing[k].at # "told" => doing[k].size # 0)
    BY <2>1 DEF FoldOK
  <2>3. Answer(stats') \in truth'[k]
    BY <1>4
  <2>4. doing'[k].born <= born' /\ doing'[k].born # born'
    BY <1>1, <1>2, <2>2
  <2>5. doing'[k].at # "told" => doing'[k].size # 0
    BY <1>1, <2>2
  <2> QED BY <2>3, <2>4, <2>5 DEF FoldOK
<1>9. ASSUME NEW c, IsCache(c), CacheOK(c) PROVE CacheOK(c)'
  <2> SUFFICES ASSUME c # NoCache PROVE CacheOK(c)'
    BY DEF CacheOK
  <2>1. c.offset > 0 /\ c.born <= born /\ c.born \in Nat
    BY <1>9 DEF CacheOK, IsCache
  <2>2. c.born <= born' /\ c.born # born'
    BY <1>1, <1>2, <2>1
  <2>3. ASSUME ~astray', NEW k \in Kolks PROVE KnownTo(c, k)'
    <3>1. KnownTo(c, k)
      BY <1>1, <1>9, <2>3 DEF CacheOK
    <3> QED BY <1>1, <1>3, <1>4, <3>1 DEF KnownTo
  <2>4. Reaches(c)'
    BY <2>2 DEF Reaches
  <2> QED BY <2>1, <2>2, <2>3, <2>4 DEF CacheOK
<1>10. CacheOK(cache)'
  <2>1. PICK c : c = cache
    OBVIOUS
  <2>2. CacheOK(c)'
    BY <1>9, <2>1, RatingTypes DEF RatingsInv
  <2> QED BY <1>1, <2>1, <2>2 DEF CacheOK, Reaches, KnownTo
<1>11. ASSUME NEW k \in Kolks, doing'[k].at \in {"extend", "save"}
       PROVE  doing'[k].cache # NoCache /\ CacheOK(doing[k].cache)'
  <2>1. PICK c : c = doing[k].cache
    OBVIOUS
  <2>2. c # NoCache /\ CacheOK(c) /\ IsCache(c)
    BY <1>1, <1>2, <1>11, <2>1 DEF RatingsInv, IsDoing
  <2>3. CacheOK(c)'
    BY <1>9, <2>2
  <2> QED BY <1>1, <2>1, <2>2, <2>3 DEF CacheOK, Reaches, KnownTo
<1>12. ASSUME NEW k \in Kolks, doing'[k].at \in {"save", "told"}, ~astray'
       PROVE  doing'[k].cache.answer \in truth'[k]
  <2>1. doing[k].cache.answer \in truth[k]
    BY <1>1, <1>12 DEF RatingsInv
  <2> QED BY <1>1, <1>4, <1>5, <2>1
<1> QED BY <1>6, <1>7, <1>8, <1>10, <1>11, <1>12 DEF RatingsInv

LEMMA EmptySays == Answer(<<>>) = <<>>
<1>1. Whole(<<>>, 0) = {}
  BY DEF Whole
<1>2. Rated(<<>>) = {}
  BY <1>1 DEF Rated, Of
<1>3. DOMAIN Answer(<<>>) = {}
  BY <1>2 DEF Answer
<1>4. Answer(<<>>) = [t \in {} |-> t]
  BY <1>2, <1>3, Zenon DEF Answer
<1>5. <<>> = [t \in {} |-> t]
  BY SMT
<1> QED BY <1>4, <1>5, Zenon

LEMMA StatKeeps ==
    ASSUME RatingsInv, NEW k \in Kolks, Stat(k)
    PROVE  RatingsInv'
<1> DEFINE d == [at |-> IF stats = <<>> THEN "told" ELSE "cached", record |-> <<>>,
                 size |-> Len(stats), born |-> born, cache |-> NoCache]
<1>1. /\ stats' = stats /\ born' = born /\ cache' = cache /\ astray' = astray
      /\ truth' = [truth EXCEPT ![k] = {Answer(stats)}] /\ doing[k].at = "rest"
  BY DEF Stat
<1>2. doing' = [doing EXCEPT ![k] = d]
  <2>1. PICK a : a = IF stats = <<>> THEN "told" ELSE "cached"
    OBVIOUS
  <2>2. doing' = [doing EXCEPT ![k] = [AtRest EXCEPT !.at = a, !.size = Len(stats), !.born = born]]
    BY <2>1 DEF Stat
  <2>3. [AtRest EXCEPT !.at = a, !.size = Len(stats), !.born = born] =
        [at |-> a, record |-> <<>>, size |-> Len(stats), born |-> born, cache |-> NoCache]
    BY BegunIs
  <2> QED BY <2>1, <2>2, <2>3
<1>3. stats \in Seq(Halves) /\ Len(stats) \in Nat /\ born \in Nat /\ astray \in BOOLEAN
  BY RatingTypes
<1>4. /\ IsDoing(d) /\ d.size = Len(stats) /\ d.born = born /\ d.cache = NoCache
      /\ d.at \in {"told", "cached"} /\ (d.at = "told" <=> stats = <<>>)
  BY <1>3, RestIs DEF IsDoing
<1> HIDE DEF d
<1>5. /\ doing' = [j \in Kolks |-> doing'[j]] /\ \A j \in Kolks : IsDoing(doing'[j])
      /\ doing'[k] = d /\ \A j \in Kolks : j # k => doing'[j] = doing[j]
  BY <1>2, <1>4, DoingIs
<1>6. truth = [j \in Kolks |-> truth[j]]
  BY DEF RatingsInv, RatingShapes
<1>7. /\ truth' = [j \in Kolks |-> truth'[j]] /\ truth'[k] = {Answer(stats)}
      /\ \A j \in Kolks : j # k => truth'[j] = truth[j]
  BY <1>1, <1>6
<1>8. \A j \in Kolks : doing'[j].at = "writing" => doing[j].at = "writing" /\ doing'[j] = doing[j]
  BY <1>4, <1>5
<1>9. Grows
  <2>1. NoneWrites => NoneWrites'
    BY <1>8 DEF NoneWrites
  <2> QED BY <1>1, <2>1, LogSame
<1>10. RatingShapes'
  BY <1>1, <1>3, <1>5, <1>7, RatingTypes DEF RatingShapes
<1>11. OneWrites'
  BY <1>1, <1>8 DEF RatingsInv, OneWrites
<1>12. \A j \in Kolks : j # k => Follows(j)
  BY <1>5, <1>7 DEF Follows, Folding
<1>13. \A j \in Kolks : j # k => Told(j)
  <2> SUFFICES ASSUME NEW j \in Kolks, j # k, Folding(j)' PROVE Told(j)
    BY DEF Told
  <2>1. Answer(stats) \in truth[j]
    BY <1>12 DEF RatingsInv, FoldOK, Follows
  <2>2. \A m \in (Len(stats) + 1)..Len(stats') : FALSE
    BY <1>1, <1>3
  <2> QED BY <1>1, <1>7, <2>1, <2>2 DEF Told
<1>14. Says(stats, Len(stats)) = Answer(stats)
  BY <1>3, WholeSays
<1>15. ASSUME NEW j \in Kolks PROVE FoldOK(j)'
  <2>1. CASE j # k
    BY <2>1, <1>9, <1>12, <1>13, FoldStays
  <2>2. CASE j = k
    <3>1. d.at # "told" => Len(stats) # 0
      BY <1>3, <1>4
    <3>2. \A m \in Len(stats)..Len(stats) : m = Len(stats)
      BY <1>3
    <3>3. \A m \in Len(stats)..Len(stats) : Says(stats, m) \in {Answer(stats)}
      BY <1>14, <3>2
    <3> QED BY <1>1, <1>3, <1>4, <1>5, <1>7, <2>2, <3>1, <3>3 DEF FoldOK
  <2> QED BY <2>1, <2>2
<1>16. ASSUME NEW c, IsCache(c), CacheOK(c) PROVE CacheOK(c)'
  <2>1. ASSUME ~astray, Reaches(c) PROVE KnownTo(c, k)'
    <3> SUFFICES ASSUME c.born = born, c.offset >= Len(stats) PROVE c.answer = Answer(stats)
      BY <1>1, <1>4, <1>5, <1>7 DEF KnownTo
    <3>1. PICK m \in c.offset..Len(stats) : c.answer = Says(stats, m)
      BY <2>1 DEF Reaches
    <3>2. m = Len(stats)
      BY <1>3, <1>16, <3>1 DEF IsCache
    <3> QED BY <1>14, <3>1, <3>2
  <2>2. \A j \in Kolks : \/ Follows(j)
                         \/ ~astray /\ Reaches(c) => KnownTo(c, j)'
    BY <1>12, <2>1
  <2> QED BY <1>1, <1>9, <1>16, <2>2, CacheStays
<1>17. CacheOK(cache)'
  <2>1. PICK c : c = cache
    OBVIOUS
  <2>2. CacheOK(c)'
    BY <1>16, <2>1, RatingTypes DEF RatingsInv
  <2> QED BY <1>1, <2>1, <2>2 DEF CacheOK, Reaches, KnownTo
<1>18. ASSUME NEW j \in Kolks, doing'[j].at \in {"extend", "save"}
       PROVE  doing'[j].cache # NoCache /\ CacheOK(doing[j].cache)'
  <2>1. j # k /\ doing'[j] = doing[j]
    BY <1>4, <1>5, <1>18
  <2>2. PICK c : c = doing[j].cache
    OBVIOUS
  <2>3. c # NoCache /\ CacheOK(c) /\ IsCache(c)
    BY <1>18, <2>1, <2>2, RatingTypes DEF RatingsInv, IsDoing
  <2>4. CacheOK(c)'
    BY <1>16, <2>3
  <2> QED BY <2>1, <2>2, <2>3, <2>4 DEF CacheOK, Reaches, KnownTo
<1>19. ASSUME NEW j \in Kolks, doing'[j].at \in {"save", "told"}, ~astray'
       PROVE  doing'[j].cache.answer \in truth'[j]
  <2>1. CASE j # k
    BY <1>1, <1>5, <1>7, <1>19, <2>1 DEF RatingsInv
  <2>2. CASE j = k
    <3>1. stats = <<>> /\ NoCache.answer = <<>>
      BY <1>4, <1>5, <1>19, <2>2 DEF NoCache
    <3> QED BY <1>4, <1>5, <1>7, <2>2, <3>1, EmptySays
  <2> QED BY <2>1, <2>2
<1> QED BY <1>10, <1>11, <1>15, <1>17, <1>18, <1>19 DEF RatingsInv

Loaded(k, c, a)   == [doing EXCEPT ![k].cache = c, ![k].at = a]
Refreshed(k, a, c) == [doing EXCEPT ![k].at = a, ![k].cache = c]

Put(k, a, c) == [doing EXCEPT ![k] = [at |-> a, record |-> doing[k].record, size |-> doing[k].size,
                                      born |-> doing[k].born, cache |-> c]]

LEMMA MovesTo ==
    ASSUME RatingsInv, NEW k \in Kolks, NEW a
    PROVE  [doing EXCEPT ![k].at = a] = Put(k, a, doing[k].cache)
<1> DEFINE e == doing[k]
           eA == [at |-> a, record |-> e.record, size |-> e.size, born |-> e.born, cache |-> e.cache]
<1>1. doing = [j \in Kolks |-> doing[j]]
  BY DEF RatingsInv, RatingShapes
<1>2. e = [at |-> e.at, record |-> e.record, size |-> e.size, born |-> e.born, cache |-> e.cache]
  BY DEF RatingsInv, RatingShapes, IsDoing
<1>3. [e EXCEPT !.at = a] = eA
  BY <1>2
<1> QED BY <1>1, <1>3 DEF Put

LEMMA MovesBoth ==
    ASSUME RatingsInv, NEW k \in Kolks, NEW a, NEW c
    PROVE  Loaded(k, c, a) = Put(k, a, c) /\ Refreshed(k, a, c) = Put(k, a, c)
<1> DEFINE e == doing[k]
           eC == [at |-> e.at, record |-> e.record, size |-> e.size, born |-> e.born, cache |-> c]
           eA == [at |-> a, record |-> e.record, size |-> e.size, born |-> e.born, cache |-> e.cache]
           d  == [at |-> a, record |-> e.record, size |-> e.size, born |-> e.born, cache |-> c]
<1>1. doing = [j \in Kolks |-> doing[j]]
  BY DEF RatingsInv, RatingShapes
<1>2. e = [at |-> e.at, record |-> e.record, size |-> e.size, born |-> e.born, cache |-> e.cache]
  BY DEF RatingsInv, RatingShapes, IsDoing
<1>3. [e EXCEPT !.cache = c] = eC /\ [e EXCEPT !.at = a] = eA
  BY <1>2
<1>4. [eC EXCEPT !.at = a] = d /\ [eA EXCEPT !.cache = c] = d
  OBVIOUS
<1>5. [doing EXCEPT ![k].cache = c] = [j \in Kolks |-> IF j = k THEN eC ELSE doing[j]]
  BY <1>1, <1>3
<1>6. [doing EXCEPT ![k].at = a] = [j \in Kolks |-> IF j = k THEN eA ELSE doing[j]]
  BY <1>1, <1>3
<1> DEFINE fC == [j \in Kolks |-> IF j = k THEN eC ELSE doing[j]]
           fA == [j \in Kolks |-> IF j = k THEN eA ELSE doing[j]]
           f  == [j \in Kolks |-> IF j = k THEN d ELSE doing[j]]
<1>7. Put(k, a, c) = f
  BY <1>1 DEF Put
<1> HIDE DEF eC, eA, d
<1>8. [fC EXCEPT ![k].at = a] = f
  BY <1>4
<1>9. [fA EXCEPT ![k].cache = c] = f
  BY <1>4
<1> HIDE DEF fC, fA, f
<1>10. Loaded(k, c, a) = [[doing EXCEPT ![k].cache = c] EXCEPT ![k].at = a]
  BY DEF Loaded
<1>11. Refreshed(k, a, c) = [[doing EXCEPT ![k].at = a] EXCEPT ![k].cache = c]
  BY DEF Refreshed
<1>12. [doing EXCEPT ![k].cache = c] = fC /\ [doing EXCEPT ![k].at = a] = fA
  BY <1>5, <1>6 DEF fC, fA
<1> QED BY <1>7, <1>8, <1>9, <1>10, <1>11, <1>12

(* A step of k's fold.                                                      *)
Takes(k, d) ==
    /\ Folding(k) /\ doing[k].at # "told"
    /\ IsDoing(d) /\ d.at \in {"extend", "rebuild", "save", "told"}
    /\ d.size = doing[k].size /\ d.born = doing[k].born
    /\ doing' = [doing EXCEPT ![k] = d]
    /\ stats' = stats /\ born' = born /\ truth' = truth
    /\ astray' \in BOOLEAN /\ (astray => astray')
    /\ \/ cache' = cache
       \/ cache' = doing[k].cache /\ doing[k].at = "save"

LEMMA MoveLeaves ==
    ASSUME RatingsInv, NEW k \in Kolks, NEW d, Takes(k, d)
    PROVE  /\ doing'[k] = d /\ \A j \in Kolks : j # k => doing'[j] = doing[j]
           /\ RatingShapes' /\ OneWrites' /\ \A j \in Kolks : FoldOK(j)'
           /\ \A c : IsCache(c) /\ CacheOK(c) => CacheOK(c)'
<1>1. /\ doing' = [j \in Kolks |-> doing'[j]] /\ \A j \in Kolks : IsDoing(doing'[j])
      /\ doing'[k] = d /\ \A j \in Kolks : j # k => doing'[j] = doing[j]
  BY DoingIs DEF Takes
<1>2. \A j \in Kolks : doing'[j].at = "writing" => doing[j].at = "writing" /\ doing'[j] = doing[j]
  BY <1>1 DEF Takes
<1>3. Grows
  <2>1. NoneWrites => NoneWrites'
    BY <1>2 DEF NoneWrites
  <2> QED BY <2>1, LogSame DEF Takes
<1>4. RatingShapes'
  <2>1. IsCache(cache) /\ IsCache(doing[k].cache)
    BY RatingTypes DEF IsDoing
  <2>2. IsCache(cache')
    BY <2>1 DEF Takes
  <2> QED BY <1>1, <2>2 DEF RatingsInv, RatingShapes, Takes
<1>5. OneWrites'
  BY <1>2 DEF RatingsInv, OneWrites, Takes
<1>6. ASSUME NEW j \in Kolks PROVE Follows(j)
  <2>1. CASE j = k
    BY <1>1, <2>1 DEF Follows, Takes
  <2>2. CASE j # k
    BY <1>1, <2>2 DEF Follows, Takes, Folding
  <2> QED BY <2>1, <2>2
<1>7. ASSUME NEW j \in Kolks PROVE Told(j)
  <2> SUFFICES ASSUME Folding(j)' PROVE Told(j)
    BY DEF Told
  <2>1. Answer(stats) \in truth[j]
    BY <1>6 DEF RatingsInv, FoldOK, Follows
  <2>2. \A m \in (Len(stats) + 1)..Len(stats') : FALSE
    BY RatingTypes DEF Takes
  <2> QED BY <2>1, <2>2 DEF Told, Takes
<1>8. \A j \in Kolks : FoldOK(j)'
  BY <1>3, <1>6, <1>7, FoldStays
<1>9. \A c : IsCache(c) /\ CacheOK(c) => CacheOK(c)'
  BY <1>3, <1>6, CacheStays DEF Takes
<1> QED BY <1>1, <1>4, <1>5, <1>8, <1>9

LEMMA MoveKeepsTrue ==
    ASSUME RatingsInv, NEW k \in Kolks, NEW d, Takes(k, d),
           d.at \in {"extend", "save"} => d.cache # NoCache /\ CacheOK(d.cache)',
           d.at \in {"save", "told"} /\ ~astray' => d.cache.answer \in truth[k]
    PROVE  RatingsInv'
<1>1. /\ doing'[k] = d /\ \A j \in Kolks : j # k => doing'[j] = doing[j]
      /\ RatingShapes' /\ OneWrites' /\ \A j \in Kolks : FoldOK(j)'
      /\ \A c : IsCache(c) /\ CacheOK(c) => CacheOK(c)'
  BY MoveLeaves
<1>2. CacheOK(cache)'
  <2>1. PICK c : c = cache'
    OBVIOUS
  <2>2. IsCache(c) /\ CacheOK(c)
    <3>1. CASE cache' = cache
      BY <2>1, <3>1, RatingTypes DEF RatingsInv
    <3>2. CASE cache' = doing[k].cache /\ doing[k].at = "save"
      BY <2>1, <3>2, RatingTypes DEF RatingsInv, IsDoing
    <3> QED BY <3>1, <3>2 DEF Takes
  <2>3. CacheOK(c)'
    BY <1>1, <2>2
  <2> QED BY <2>1, <2>3 DEF CacheOK, Reaches, KnownTo
<1>3. ASSUME NEW j \in Kolks, doing'[j].at \in {"extend", "save"}
      PROVE  doing'[j].cache # NoCache /\ CacheOK(doing[j].cache)'
  <2>1. PICK c : c = doing'[j].cache
    OBVIOUS
  <2>2. c # NoCache /\ CacheOK(c)'
    <3>1. CASE j = k
      BY <1>1, <1>3, <2>1, <3>1
    <3>2. CASE j # k
      <4>1. c = doing[j].cache /\ doing[j].at \in {"extend", "save"}
        BY <1>1, <1>3, <2>1, <3>2
      <4>2. IsCache(c) /\ CacheOK(c) /\ c # NoCache
        BY <4>1, RatingTypes DEF RatingsInv, IsDoing
      <4> QED BY <1>1, <4>2
    <3> QED BY <3>1, <3>2
  <2> QED BY <2>1, <2>2 DEF CacheOK, Reaches, KnownTo
<1>4. ASSUME NEW j \in Kolks, doing'[j].at \in {"save", "told"}, ~astray'
      PROVE  doing'[j].cache.answer \in truth'[j]
  BY <1>1, <1>4 DEF RatingsInv, Takes
<1> QED BY <1>1, <1>2, <1>3, <1>4 DEF RatingsInv

LEMMA LoadCacheKeeps ==
    ASSUME RatingsInv, NEW k \in Kolks, LoadCache(k)
    PROVE  RatingsInv'
<1>1. PICK c : c = cache
  OBVIOUS
<1>2. PICK a : a = IF Matches(k, c) THEN "told" ELSE IF CanExtend(k, c) THEN "extend" ELSE "rebuild"
  OBVIOUS
<1>3. PICK d : d = [at |-> a, record |-> doing[k].record, size |-> doing[k].size,
                    born |-> doing[k].born, cache |-> c]
  OBVIOUS
<1>4. doing[k].at = "cached" /\ stats' = stats /\ born' = born /\ truth' = truth
      /\ astray' = astray /\ cache' = cache
  BY DEF LoadCache
<1>5. doing' = [doing EXCEPT ![k] = d]
  <2>1. doing' = Loaded(k, c, a)
    <3>1. doing' = [doing EXCEPT
              ![k].cache = cache,
              ![k].at = IF Matches(k, cache) THEN "told"
                        ELSE IF CanExtend(k, cache) THEN "extend" ELSE "rebuild"]
      BY Zenon DEF LoadCache
    <3>2. a = IF Matches(k, cache) THEN "told" ELSE IF CanExtend(k, cache) THEN "extend" ELSE "rebuild"
      BY <1>1, <1>2, Zenon
    <3> QED BY <1>1, <3>1, <3>2, Zenon DEF Loaded
  <2>2. doing' = Put(k, a, c)
    BY <2>1, MovesBoth
  <2> QED BY <1>3, <2>2, Zenon DEF Put
<1>6. IsCache(c) /\ astray \in BOOLEAN /\ IsDoing(doing[k])
  BY <1>1, RatingTypes
<1>7. a \in {"told", "extend", "rebuild"}
  BY <1>2
<1>8. d.at = a /\ d.size = doing[k].size /\ d.born = doing[k].born /\ d.cache = c
  BY <1>3
<1>9. IsDoing(d)
  BY <1>3, <1>6, <1>7 DEF IsDoing
<1>10. Takes(k, d)
  BY <1>4, <1>5, <1>6, <1>7, <1>8, <1>9 DEF Takes, Folding
<1>11. a = "extend" => c # NoCache
  BY <1>2, RestIs DEF CanExtend
<1>12. CacheOK(c)'
  BY <1>1, <1>6, <1>10, MoveLeaves DEF RatingsInv
<1>13. CacheOK(d.cache)'
  BY <1>8, <1>12
<1>14. ASSUME a = "told", ~astray PROVE c.answer \in truth[k]
  <2>1. Matches(k, c)
    BY <1>2, <1>14
  <2>2. c.offset = doing[k].size /\ c.born = doing[k].born /\ doing[k].size \in Nat
    BY <2>1, <1>6 DEF Matches, IsDoing
  <2>3. c # NoCache
    BY <2>2, RestIs
  <2>4. CacheOK(c)
    BY <1>1 DEF RatingsInv
  <2>5. KnownTo(c, k)
    BY <1>14, <2>3, <2>4 DEF CacheOK
  <2>6. c.offset >= doing[k].size
    BY <2>2
  <2> QED BY <1>4, <2>2, <2>5, <2>6 DEF KnownTo, Folding
<1> QED BY <1>4, <1>7, <1>8, <1>10, <1>11, <1>13, <1>14, MoveKeepsTrue

LEMMA RebuildKeeps ==
    ASSUME RatingsInv, NEW k \in Kolks, Rebuild(k)
    PROVE  RatingsInv'
<1>1. PICK n : n = doing[k].size
  OBVIOUS
<1>2. PICK b : b = doing[k].born
  OBVIOUS
<1>3. PICK c : c = [offset |-> n, size |-> n, born |-> b, answer |-> Answer(stats)]
  OBVIOUS
<1>4. PICK d : d = [at |-> "save", record |-> doing[k].record, size |-> n, born |-> b, cache |-> c]
  OBVIOUS
<1>5. doing[k].at = "rebuild" /\ stats' = stats /\ born' = born /\ truth' = truth
      /\ cache' = cache /\ astray' = (astray \/ StillWritten(n))
  BY <1>1 DEF Rebuild, Place
<1>6. doing' = [doing EXCEPT ![k] = d]
  <2>1. doing' = Refreshed(k, "save", c)
    <3>1. doing' = [doing EXCEPT
              ![k].at = "save",
              ![k].cache = [offset |-> doing[k].size, size |-> doing[k].size,
                            born |-> doing[k].born, answer |-> Answer(stats)]]
      BY Zenon DEF Rebuild, Place
    <3>2. c = [offset |-> doing[k].size, size |-> doing[k].size,
               born |-> doing[k].born, answer |-> Answer(stats)]
      BY <1>1, <1>2, <1>3, Zenon
    <3> QED BY <3>1, <3>2, Zenon DEF Refreshed
  <2>2. doing' = Put(k, "save", c)
    BY <2>1, MovesBoth
  <2>3. d = [at |-> "save", record |-> doing[k].record, size |-> doing[k].size,
             born |-> doing[k].born, cache |-> c]
    BY <1>1, <1>2, <1>4
  <2> QED BY <2>2, <2>3, Zenon DEF Put
<1>7. /\ stats \in Seq(Halves) /\ Len(stats) \in Nat /\ IsDoing(doing[k]) /\ astray \in BOOLEAN
      /\ n \in Nat /\ b \in Nat /\ born \in Nat
  BY <1>1, <1>2, RatingTypes
<1>8. c.offset = n /\ c.born = b /\ c.answer = Answer(stats) /\ IsCache(c)
  BY <1>3, <1>7 DEF IsCache
<1>9. d.at = "save" /\ d.size = n /\ d.born = b /\ d.cache = c /\ IsDoing(d)
  BY <1>4, <1>7, <1>8 DEF IsDoing
<1>10. Takes(k, d)
  BY <1>1, <1>2, <1>5, <1>6, <1>7, <1>9 DEF Takes, Folding
<1>11. FoldOK(k) /\ Folding(k)
  BY <1>5 DEF RatingsInv, Folding
<1>12. n # 0 /\ b <= born /\ c # NoCache
  <2>1. n # 0 /\ b <= born
    BY <1>1, <1>2, <1>5, <1>11 DEF FoldOK
  <2> QED BY <1>7, <1>8, <2>1, RestIs
<1>13. \A j \in Kolks : Folding(j)' => c.answer \in truth'[j]
  BY <1>5, <1>8, <1>10, MoveLeaves DEF FoldOK
<1>14. CacheOK(c)'
  <2>1. c.offset > 0 /\ c.born <= born'
    BY <1>5, <1>7, <1>8, <1>12
  <2>2. ASSUME ~astray', c.born = born'
        PROVE  /\ Uncut(stats', NoneWrites', c.offset)
               /\ \E m \in c.offset..Len(stats') : c.answer = Says(stats', m)
    <3>1. n \in 1..Len(stats)
      BY <1>1, <1>2, <1>5, <1>7, <1>8, <1>11, <1>12, <2>2 DEF FoldOK
    <3>2. Uncut(stats, NoneWrites, n)
      BY <1>5, <1>7, <2>2, <3>1, NotWritten
    <3>3. NoneWrites => NoneWrites'
      BY <1>9, <1>10, MoveLeaves DEF NoneWrites
    <3>4. Uncut(stats', NoneWrites', n)
      BY <1>5, <3>2, <3>3 DEF Uncut
    <3>5. Says(stats, Len(stats)) = Answer(stats) /\ Len(stats) \in n..Len(stats)
      BY <1>7, <3>1, WholeSays
    <3> QED BY <1>5, <1>8, <3>4, <3>5
  <2>3. \A j \in Kolks : KnownTo(c, j)'
    BY <1>13 DEF KnownTo
  <2>4. ~astray' => Reaches(c)'
    BY <2>2 DEF Reaches
  <2> QED BY <2>1, <2>3, <2>4 DEF CacheOK
<1>15. CacheOK(d.cache)'
  BY <1>9, <1>14
<1>16. d.cache.answer \in truth[k]
  BY <1>8, <1>9, <1>11 DEF FoldOK
<1> QED BY <1>9, <1>10, <1>12, <1>15, <1>16, MoveKeepsTrue

LEMMA SaveCacheKeeps ==
    ASSUME RatingsInv, NEW k \in Kolks, NEW written \in BOOLEAN, SaveCache(k, written)
    PROVE  RatingsInv'
<1>1. PICK d : d = [at |-> "told", record |-> doing[k].record, size |-> doing[k].size,
                    born |-> doing[k].born, cache |-> doing[k].cache]
  OBVIOUS
<1>2. doing[k].at = "save" /\ stats' = stats /\ born' = born /\ truth' = truth
      /\ astray' = astray /\ (cache' = cache \/ cache' = doing[k].cache)
  BY DEF SaveCache
<1>3. doing' = [doing EXCEPT ![k] = d]
  <2>1. doing' = Put(k, "told", doing[k].cache)
    BY MovesTo DEF SaveCache, To
  <2> QED BY <1>1, <2>1, Zenon DEF Put
<1>4. IsDoing(doing[k]) /\ astray \in BOOLEAN
  BY RatingTypes
<1>5. d.at = "told" /\ d.size = doing[k].size /\ d.born = doing[k].born
      /\ d.cache = doing[k].cache /\ IsDoing(d)
  BY <1>1, <1>4 DEF IsDoing
<1>6. Takes(k, d)
  BY <1>2, <1>3, <1>4, <1>5 DEF Takes, Folding
<1>7. ~astray => d.cache.answer \in truth[k]
  BY <1>2, <1>5 DEF RatingsInv
<1> QED BY <1>2, <1>5, <1>6, <1>7, MoveKeepsTrue

(* What it read changes nothing, so what it had is what the log says.       *)
LEMMA ReadNothingNew ==
    ASSUME RatingsInv, NEW c, CacheOK(c), IsCache(c), c # NoCache, ~astray, c.born = born,
           \A i \in Whole(stats, c.offset) : ~Changes(c, stats[i].record)
    PROVE  c.answer = Answer(stats)
<1>1. stats \in Seq(Halves) /\ Len(stats) \in Nat
  BY RatingTypes
<1>2. Reaches(c) /\ c.offset > 0 /\ c.offset \in Int
  BY DEF CacheOK, IsCache
<1>3. c.offset \in Nat /\ Uncut(stats, NoneWrites, c.offset)
  BY <1>2 DEF Reaches
<1>4. PICK m \in c.offset..Len(stats) : c.answer = Says(stats, m)
  BY <1>2 DEF Reaches
<1>5. \A i \in Whole(stats, c.offset) :
          stats[i].record.kind # "rating" /\ stats[i].record.turn \notin DOMAIN Says(stats, m)
  BY <1>4 DEF Changes
<1> QED BY <1>1, <1>3, <1>4, <1>5, NothingChanged

LEMMA ExtendKeeps ==
    ASSUME RatingsInv, NEW k \in Kolks, Extend(k)
    PROVE  RatingsInv'
<1>1. PICK o : o = doing[k].cache
  OBVIOUS
<1>2. doing[k].at = "extend" /\ stats' = stats /\ born' = born /\ truth' = truth /\ cache' = cache
  BY DEF Extend
<1>3. /\ stats \in Seq(Halves) /\ Len(stats) \in Nat /\ IsDoing(doing[k]) /\ astray \in BOOLEAN
      /\ doing[k].size \in Nat /\ doing[k].born \in Nat /\ born \in Nat
  BY RatingTypes
<1>4. IsCache(o) /\ o # NoCache /\ CacheOK(o)
  BY <1>1, <1>2, <1>3 DEF RatingsInv, IsDoing
<1>5. o.offset > 0 /\ o.offset \in Nat
  BY <1>4 DEF CacheOK, IsCache
<1>6. FoldOK(k) /\ Folding(k)
  BY <1>2 DEF RatingsInv, Folding
<1>7. CASE doing' = [doing EXCEPT ![k].at = "rebuild"] /\ astray' = astray
  <2>1. PICK d : d = [at |-> "rebuild", record |-> doing[k].record, size |-> doing[k].size,
                      born |-> doing[k].born, cache |-> doing[k].cache]
    OBVIOUS
  <2>2. doing' = [doing EXCEPT ![k] = d]
    <3>1. doing' = Put(k, "rebuild", doing[k].cache)
      BY <1>7, MovesTo
    <3> QED BY <2>1, <3>1, Zenon DEF Put
  <2>3. d.at = "rebuild" /\ d.size = doing[k].size /\ d.born = doing[k].born /\ IsDoing(d)
    BY <1>3, <2>1 DEF IsDoing
  <2>4. Takes(k, d)
    BY <1>2, <1>3, <1>7, <2>2, <2>3 DEF Takes, Folding
  <2> QED BY <2>3, <2>4, MoveKeepsTrue
<1>8. ASSUME \A i \in Whole(stats, o.offset) : ~Changes(o, stats[i].record),
             doing' = [doing EXCEPT
                 ![k].at = "save",
                 ![k].cache = [o EXCEPT !.offset = Consumed(stats, o.offset),
                                        !.size = doing[k].size, !.born = doing[k].born]],
             astray' = (astray \/ o.born # born)
      PROVE  RatingsInv'
  <2>1. PICK n : n = Consumed(stats, o.offset)
    OBVIOUS
  <2>2. PICK b : b = doing[k].born
    OBVIOUS
  <2>3. PICK c : c = [offset |-> n, size |-> doing[k].size, born |-> b, answer |-> o.answer]
    OBVIOUS
  <2>4. PICK d : d = [at |-> "save", record |-> doing[k].record, size |-> doing[k].size,
                      born |-> b, cache |-> c]
    OBVIOUS
  <2>5. n \in Nat /\ n > 0 /\ (n = o.offset \/ (n \in 1..Len(stats) /\ stats[n].half = 2))
    <3>1. /\ Consumed(stats, o.offset) \in Nat /\ Consumed(stats, o.offset) >= o.offset
          /\ \/ Consumed(stats, o.offset) = o.offset
             \/ /\ Consumed(stats, o.offset) \in 1..Len(stats)
                /\ stats[Consumed(stats, o.offset)].half = 2
      BY <1>3, <1>5, ConsumedIs
    <3>2. n \in Nat /\ n >= o.offset
      BY <2>1, <3>1
    <3>3. n > 0
      BY <1>5, <3>2
    <3>4. n = o.offset \/ (n \in 1..Len(stats) /\ stats[n].half = 2)
      BY <2>1, <3>1
    <3> QED BY <3>2, <3>3, <3>4
  <2>6. c.offset = n /\ c.born = b /\ c.answer = o.answer /\ IsCache(c)
    BY <1>3, <2>2, <2>3, <2>5 DEF IsCache
  <2>7. d.at = "save" /\ d.size = doing[k].size /\ d.born = b /\ d.cache = c /\ IsDoing(d)
    BY <1>3, <2>2, <2>4, <2>6 DEF IsDoing
  <2>8. doing' = [doing EXCEPT ![k] = d]
    <3>1. [o EXCEPT !.offset = n, !.size = doing[k].size, !.born = b] = c
      BY <1>4, <2>3, ExtendedIs
    <3>2. doing' = Refreshed(k, "save", c)
      BY <1>8, <2>1, <2>2, <3>1, Zenon DEF Refreshed
    <3>3. doing' = Put(k, "save", c)
      BY <3>2, MovesBoth
    <3>4. d = [at |-> "save", record |-> doing[k].record, size |-> doing[k].size,
               born |-> doing[k].born, cache |-> c]
      BY <2>2, <2>4
    <3> QED BY <3>3, <3>4, Zenon DEF Put
  <2>9. Takes(k, d)
    BY <1>2, <1>3, <1>8, <2>2, <2>7, <2>8 DEF Takes, Folding
  <2>10. b <= born /\ c # NoCache
    <3>1. b <= born
      BY <1>6, <2>2 DEF FoldOK
    <3> QED BY <2>5, <2>6, <3>1, RestIs
  <2>11. ~astray' => c.answer = Answer(stats)
    BY <1>4, <1>8, <2>6, ReadNothingNew
  <2>12. \A j \in Kolks : Folding(j)' => Answer(stats) \in truth'[j]
    BY <1>2, <2>9, MoveLeaves DEF FoldOK
  <2>13. CacheOK(c)'
    <3>1. c.offset > 0 /\ c.born <= born'
      BY <1>2, <2>5, <2>6, <2>10
    <3>2. ASSUME ~astray'
          PROVE  /\ Uncut(stats', NoneWrites', c.offset)
                 /\ \E m \in c.offset..Len(stats') : c.answer = Says(stats', m)
      <4>1. Uncut(stats, NoneWrites, o.offset)
        BY <1>4, <1>8, <3>2 DEF CacheOK, Reaches
      <4>2. n \in 1..Len(stats) /\ Uncut(stats, NoneWrites, n)
        BY <2>5, <4>1 DEF Uncut
      <4>3. NoneWrites => NoneWrites'
        BY <2>7, <2>9, MoveLeaves DEF NoneWrites
      <4>4. Uncut(stats', NoneWrites', n)
        BY <1>2, <4>2, <4>3 DEF Uncut
      <4>5. Says(stats, Len(stats)) = Answer(stats) /\ Len(stats) \in n..Len(stats)
        BY <1>3, <4>2, WholeSays
      <4> QED BY <1>2, <2>6, <2>11, <3>2, <4>4, <4>5
    <3>3. ~astray' => \A j \in Kolks : KnownTo(c, j)'
      BY <2>11, <2>12 DEF KnownTo
    <3>4. ~astray' => Reaches(c)'
      BY <3>2 DEF Reaches
    <3> QED BY <3>1, <3>3, <3>4 DEF CacheOK
  <2>14. CacheOK(d.cache)'
    BY <2>7, <2>13
  <2>15. ~astray' => d.cache.answer \in truth[k]
    BY <1>6, <2>7, <2>11 DEF FoldOK
  <2> QED BY <2>7, <2>9, <2>10, <2>14, <2>15, MoveKeepsTrue
<1>9. CASE stats = <<>> \/ \E i \in Whole(stats, o.offset) : Changes(o, stats[i].record)
  BY <1>1, <1>7, <1>9, Zenon DEF Extend, To
<1>10. CASE ~(stats = <<>> \/ \E i \in Whole(stats, o.offset) : Changes(o, stats[i].record))
  BY <1>1, <1>8, <1>10, Zenon DEF Extend
<1> QED BY <1>9, <1>10

-----------------------------------------------------------------------------

LEMMA RatingsKept == RatingsInv /\ [RatingsNext]_ratingVars => RatingsInv'
<1> SUFFICES ASSUME RatingsInv, [RatingsNext]_ratingVars PROVE RatingsInv'
  OBVIOUS
<1>1. CASE UNCHANGED ratingVars
  <2>1. /\ stats' = stats /\ born' = born /\ cache' = cache /\ doing' = doing
        /\ truth' = truth /\ astray' = astray
    BY <1>1 DEF ratingVars
  <2> QED BY <2>1 DEF RatingsInv, RatingShapes, OneWrites, FoldOK, CacheOK, Reaches, KnownTo,
                      NoneWrites, Folding
<1>2. ASSUME NEW k \in Kolks,
             \/ Completes(k) \/ Tears(k) \/ Drop(k)
             \/ Stat(k) \/ LoadCache(k) \/ Extend(k) \/ Rebuild(k) \/ Leave(k)
             \/ \E r \in Records : Begins(k, r)
             \/ \E written \in BOOLEAN : SaveCache(k, written)
      PROVE  RatingsInv'
  BY <1>2, CompletesKeeps, RestsKeeps, StatKeeps, LoadCacheKeeps, ExtendKeeps, RebuildKeeps,
     BeginsKeeps, SaveCacheKeeps
<1> QED BY <1>1, <1>2, DeleteKeeps DEF RatingsNext

LEMMA RatingsInvariant == RatingsSpec => []RatingsInv
<1> QED BY RatingsStart, RatingsKept, PTL DEF RatingsSpec

(* What a fold tells was true of the whole log at some moment since it      *)
(* began, whatever others appended, dropped, deleted or saved meanwhile.    *)
THEOREM RatingsAreTrue == RatingsSpec => []RatingsTrue
<1>1. RatingsInv => RatingsTrue
  BY DEF RatingsInv, RatingsTrue
<1> QED BY <1>1, RatingsInvariant, PTL

=============================================================================
