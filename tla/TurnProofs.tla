----------------------------- MODULE TurnProofs -----------------------------
(***************************************************************************)
(* CallsOnce, RequestsAnswered and OneEnding for any replies, any bounds   *)
(* and any faults.                                                         *)
(*                                                                         *)
(* What is pending in a conversation is exactly what it lacks: with those  *)
(* results appended it would be well formed (Owing).  Every step keeps     *)
(* that: a reply owes its calls, a result pays the first, a repair pays    *)
(* all, a compaction touches a conversation that owes nothing.             *)
(*                                                                         *)
(* No call runs twice because what may still be run has not begun (Fresh), *)
(* in memory and in the point on the disk: while a turn that took its own  *)
(* point back runs, a point that is left on the disk belongs to calls of   *)
(* another reply (Apart).                                                  *)
(***************************************************************************)
EXTENDS Turn, TLAPS, SequenceTheorems, WellFoundedInduction

-----------------------------------------------------------------------------
(* A set of naturals has a least element, an initial part of them that has  *)
(* a member a greatest.  The induction below is by these.                   *)

LEMMA LeastOf ==
    ASSUME NEW T \in SUBSET Nat, T # {}
    PROVE  \E x \in T : \A y \in T : x <= y
<1> DEFINE R == {ss \in Nat \X Nat : ss[1] < ss[2]}
<1>1. IsWellFoundedOn(R, Nat)
  BY NatLessThanWellFounded DEF OpToRel
<1>2. PICK x \in T : \A y \in T : ~ (<<y, x>> \in R)
  BY <1>1, WFMin
<1>3. \A y \in T : y \in Nat /\ x \in Nat
  OBVIOUS
<1>4. \A y \in T : y < x => <<y, x>> \in R
  BY <1>3
<1> HIDE DEF R
<1>5. \A y \in T : ~(y < x)
  BY <1>2, <1>4
<1>6. \A y \in T : x <= y
  BY <1>3, <1>5
<1> QED BY <1>6

LEMMA GreatestOf ==
    ASSUME NEW n \in Nat, NEW T \in SUBSET (0..n), T # {}
    PROVE  \E x \in T : \A y \in T : y <= x
<1> DEFINE U == {n - x : x \in T}
<1>0. \A x \in T : x \in Nat /\ n - x \in Nat
  OBVIOUS
<1>1. U \in SUBSET Nat /\ U # {}
  BY <1>0
<1>2. PICK u \in U : \A y \in U : u <= y
  BY <1>1, LeastOf
<1>3. PICK x \in T : u = n - x
  BY <1>2
<1>4. \A y \in T : n - y \in U
  OBVIOUS
<1> HIDE DEF U
<1>5. \A y \in T : n - x <= n - y
  BY <1>2, <1>3, <1>4
<1> QED BY <1>0, <1>5

-----------------------------------------------------------------------------
(* Those.                                                                   *)

Unfolds(f, s, S, n) ==
    f = [k \in 0..n |-> IF k = 0 THEN <<>>
                        ELSE IF s[k] \in S THEN Append(f[k - 1], s[k]) ELSE f[k - 1]]

LEMMA UnfoldsFrom ==
    ASSUME NEW s, NEW S, NEW n \in Nat, NEW f, Unfolds(f, s, S, n)
    PROVE  \E g : Unfolds(g, s, S, n + 1)
<1> DEFINE last == IF s[n + 1] \in S THEN Append(f[n], s[n + 1]) ELSE f[n]
           g == [k \in 0..n + 1 |-> IF k = n + 1 THEN last ELSE f[k]]
<1>1. \A k \in 0..n : f[k] = IF k = 0 THEN <<>> ELSE IF s[k] \in S THEN Append(f[k - 1], s[k]) ELSE f[k - 1]
  BY DEF Unfolds
<1>2. \A k \in 0..n : k - 1 \in 0..n \/ k = 0
  OBVIOUS
<1>3. \A k \in 0..n + 1 : g[k] = IF k = n + 1 THEN last ELSE f[k]
  OBVIOUS
<1> HIDE DEF last
<1>4. g[n] = f[n]
  BY <1>3
<1>5. \A k \in 0..n + 1 :
        g[k] = IF k = 0 THEN <<>> ELSE IF s[k] \in S THEN Append(g[k - 1], s[k]) ELSE g[k - 1]
  <2> SUFFICES ASSUME NEW k \in 0..n + 1
               PROVE  g[k] = IF k = 0 THEN <<>> ELSE IF s[k] \in S THEN Append(g[k - 1], s[k])
                             ELSE g[k - 1]
    OBVIOUS
  <2> HIDE DEF g
  <2>1. CASE k = n + 1
    BY <1>3, <1>4, <2>1 DEF last
  <2>2. CASE k \in 0..n
    <3>1. g[k] = f[k]
      BY <1>3, <2>2
    <3>2. k # 0 => g[k - 1] = f[k - 1]
      BY <1>3, <2>2
    <3> QED BY <1>1, <2>2, <3>1, <3>2
  <2> QED BY <2>1, <2>2
<1>6. g = [k \in 0..n + 1 |-> g[k]]
  OBVIOUS
<1> HIDE DEF g
<1>7. Unfolds(g, s, S, n + 1)
  BY <1>5, <1>6 DEF Unfolds
<1> QED BY <1>7

LEMMA UnfoldsAll ==
    ASSUME NEW s, NEW S, NEW n \in Nat
    PROVE  \E f : Unfolds(f, s, S, n)
<1> DEFINE T == {k \in Nat : ~\E f : Unfolds(f, s, S, k)}
<1>1. ASSUME T # {} PROVE FALSE
  <2>1. PICK k \in T : \A y \in T : k <= y
    BY <1>1, LeastOf
  <2>2. k # 0
    <3> DEFINE f == [i \in 0..0 |-> <<>>]
    <3>1. f = [i \in 0..0 |-> IF i = 0 THEN <<>>
                              ELSE IF s[i] \in S THEN Append(f[i - 1], s[i]) ELSE f[i - 1]]
      OBVIOUS
    <3> HIDE DEF f
    <3>2. Unfolds(f, s, S, 0)
      BY <3>1 DEF Unfolds
    <3>3. 0 \notin T
      BY <3>2
    <3> QED BY <2>1, <3>3
  <2>3. k - 1 \in Nat /\ k - 1 \notin T
    BY <2>1, <2>2
  <2>4. PICK f : Unfolds(f, s, S, k - 1)
    BY <2>3
  <2>5. \E g : Unfolds(g, s, S, (k - 1) + 1)
    BY <2>3, <2>4, UnfoldsFrom
  <2>6. (k - 1) + 1 = k
    BY <2>1
  <2> QED BY <2>1, <2>5, <2>6
<1> QED BY <1>1

LEMMA ThoseUnfolds ==
    ASSUME NEW s, NEW S, Len(s) \in Nat
    PROVE  \E f : Unfolds(f, s, S, Len(s)) /\ Those(s, S) = f[Len(s)]
<1> DEFINE f == CHOOSE f : Unfolds(f, s, S, Len(s))
<1>1. Unfolds(f, s, S, Len(s))
  BY UnfoldsAll
<1>2. Those(s, S) = f[Len(s)]
  BY DEF Those, Unfolds
<1> HIDE DEF f
<1> QED BY <1>1, <1>2

(* A sequence whose first n elements are not in the set and the others are. *)
LEMMA ThoseTail ==
    ASSUME NEW M, NEW s \in Seq(M), NEW S, NEW n \in 0..Len(s),
           \A k \in 1..n : s[k] \notin S, \A k \in n + 1..Len(s) : s[k] \in S
    PROVE  Those(s, S) = SubSeq(s, n + 1, Len(s))
<1>1. PICK f : Unfolds(f, s, S, Len(s)) /\ Those(s, S) = f[Len(s)]
  BY ThoseUnfolds
<1>2. \A k \in 0..Len(s) : f[k] = IF k = 0 THEN <<>> ELSE IF s[k] \in S THEN Append(f[k - 1], s[k]) ELSE f[k - 1]
  BY <1>1 DEF Unfolds
<1> DEFINE T == {k \in 0..Len(s) : f[k] # SubSeq(s, n + 1, k)}
<1>4. T \in SUBSET Nat /\ Len(s) \in Nat /\ n \in Nat
  OBVIOUS
<1>5. \A k : k \in T <=> k \in 0..Len(s) /\ f[k] # SubSeq(s, n + 1, k)
  OBVIOUS
<1> HIDE DEF T
<1>3. ASSUME T # {} PROVE FALSE
  <2>1. PICK k \in T : \A y \in T : k <= y
    BY <1>3, <1>4, LeastOf
  <2>2. k \in 0..Len(s) /\ f[k] # SubSeq(s, n + 1, k)
    BY <1>5, <2>1
  <2>3. CASE k <= n
    <3>1. SubSeq(s, n + 1, k) = <<>>
      BY <1>4, <2>2, <2>3, SubSeqEmpty
    <3>2. k # 0
      BY <1>2, <2>2, <3>1
    <3>3. k - 1 \in 0..Len(s) /\ k - 1 \notin T
      BY <2>1, <2>2, <3>2
    <3>4. f[k - 1] = SubSeq(s, n + 1, k - 1)
      BY <1>5, <3>3
    <3>5. SubSeq(s, n + 1, k - 1) = <<>>
      BY <1>4, <2>2, <2>3, SubSeqEmpty
    <3>6. s[k] \notin S
      BY <2>2, <2>3, <3>2
    <3> QED BY <1>2, <2>2, <3>1, <3>2, <3>4, <3>5, <3>6
  <2>4. CASE k > n
    <3>1. k - 1 \in 0..Len(s) /\ k - 1 \notin T /\ k # 0 /\ n \in 0..Len(s)
      BY <2>1, <2>2, <2>4
    <3>2. f[k - 1] = SubSeq(s, n + 1, k - 1)
      BY <1>5, <3>1
    <3>3. s[k] \in S
      BY <2>2, <2>4
    <3>4. f[k] = Append(SubSeq(s, n + 1, k - 1), s[k])
      BY <1>2, <2>2, <3>1, <3>2, <3>3
    <3>5. SubSeq(s, n + 1, k) = SubSeq(s, n + 1, k - 1) \o << s[k] >>
      BY <2>2, <2>4, <3>1, SubSeqRecursiveSecond
    <3>6. SubSeq(s, n + 1, k - 1) \in Seq(M)
      BY <3>1
    <3>7. s[k] \in M
      BY <2>2, <2>4, <3>1
    <3>8. Append(SubSeq(s, n + 1, k - 1), s[k]) = SubSeq(s, n + 1, k - 1) \o << s[k] >>
      BY <3>6, <3>7, AppendIsConcat
    <3> QED BY <2>2, <3>4, <3>5, <3>8
  <2> QED BY <2>2, <2>3, <2>4
<1> QED BY <1>1, <1>3, <1>4, <1>5

LEMMA ThoseIn ==
    ASSUME NEW M, NEW s \in Seq(M), NEW S, NEW N, \A m \in M : m \in S => m \in N
    PROVE  Those(s, S) \in Seq(N)
<1>1. PICK f : Unfolds(f, s, S, Len(s)) /\ Those(s, S) = f[Len(s)]
  BY ThoseUnfolds
<1>2. \A k \in 0..Len(s) : f[k] = IF k = 0 THEN <<>> ELSE IF s[k] \in S THEN Append(f[k - 1], s[k]) ELSE f[k - 1]
  BY <1>1 DEF Unfolds
<1> DEFINE T == {k \in 0..Len(s) : f[k] \notin Seq(N)}
<1>3. T \in SUBSET Nat /\ Len(s) \in Nat
  OBVIOUS
<1>4. \A k : k \in T <=> k \in 0..Len(s) /\ f[k] \notin Seq(N)
  OBVIOUS
<1> HIDE DEF T
<1>5. ASSUME T # {} PROVE FALSE
  <2>1. PICK k \in T : \A y \in T : k <= y
    BY <1>3, <1>5, LeastOf
  <2>2. k # 0
    <3>1. f[0] = <<>>
      BY <1>2, <1>3
    <3>2. f[0] \in Seq(N)
      BY <3>1, EmptySeq
    <3> QED BY <1>4, <2>1, <3>2
  <2>3. k - 1 \in 0..Len(s) /\ k - 1 \notin T /\ k \in 1..Len(s)
    BY <1>3, <1>4, <2>1, <2>2
  <2>4. f[k - 1] \in Seq(N)
    BY <1>4, <2>3
  <2>5. s[k] \in M
    BY <2>3
  <2>6. f[k] = IF s[k] \in S THEN Append(f[k - 1], s[k]) ELSE f[k - 1]
    BY <1>2, <2>2, <2>3
  <2>7. f[k] \in Seq(N)
    BY <2>4, <2>5, <2>6
  <2> QED BY <1>4, <2>1, <2>7
<1> QED BY <1>1, <1>3, <1>4, <1>5

-----------------------------------------------------------------------------
(* Conversations.  What a conversation owes, Pending, is what would make it *)
(* well formed; the last reply made those calls, and its others are         *)
(* answered.                                                                *)

Calls == [no : Nat, id : STRING]
CallSeqs == {cs \in Seq(Calls) : \A a, b \in DOMAIN cs : cs[a].id = cs[b].id => a = b}
Messages == [role : {"user", "assistant", "tool"}, calls : CallSeqs, id : STRING \cup {""}]
Conversations ==
    {ms \in Seq(Messages) : \A i \in DOMAIN ms : ms[i].calls # <<>> => ms[i].role = "assistant"}

Results(cs) == [k \in DOMAIN cs |-> Result(cs[k])]

(* The last calls of message i of ms, those without a result, are cs.       *)
Leaves(ms, i, cs) ==
    /\ ms[i].role = "assistant"
    /\ Len(ms) - i >= 0 /\ Len(ms) - i <= Len(ms[i].calls)
    /\ cs = SubSeq(ms[i].calls, Len(ms) - i + 1, Len(ms[i].calls))
Owing(ms, cs) ==
    /\ WellFormed(ms \o Results(cs))
    /\ cs # <<>> => \E i \in DOMAIN ms : Leaves(ms, i, cs)

Sound(ms) ==
    /\ ms \in Conversations
    /\ Pending(ms) \in CallSeqs
    /\ Owing(ms, Pending(ms))

LEMMA Facts ==
    ASSUME NEW ms \in Conversations
    PROVE  /\ ms \in Seq(Messages) /\ Len(ms) \in Nat /\ DOMAIN ms = 1..Len(ms)
           /\ \A i \in 1..Len(ms) :
                /\ ms[i] \in Messages
                /\ ms[i].calls \in Seq(Calls) /\ Len(ms[i].calls) \in Nat
                /\ DOMAIN ms[i].calls = 1..Len(ms[i].calls)
                /\ ms[i].calls # <<>> => ms[i].role = "assistant"
                /\ \A a, b \in 1..Len(ms[i].calls) :
                      ms[i].calls[a].id = ms[i].calls[b].id => a = b
<1>1. ms \in Seq(Messages) /\ Len(ms) \in Nat /\ DOMAIN ms = 1..Len(ms)
  BY DEF Conversations
<1>2. ASSUME NEW i \in 1..Len(ms)
      PROVE  /\ ms[i] \in Messages
             /\ ms[i].calls \in Seq(Calls) /\ Len(ms[i].calls) \in Nat
             /\ DOMAIN ms[i].calls = 1..Len(ms[i].calls)
             /\ ms[i].calls # <<>> => ms[i].role = "assistant"
             /\ \A a, b \in 1..Len(ms[i].calls) :
                   ms[i].calls[a].id = ms[i].calls[b].id => a = b
  <2>1. ms[i] \in Messages
    BY <1>1, <1>2
  <2>2. ms[i].calls \in CallSeqs
    BY <2>1 DEF Messages
  <2>3. ms[i].calls \in Seq(Calls)
    BY <2>2 DEF CallSeqs
  <2>4. Len(ms[i].calls) \in Nat /\ DOMAIN ms[i].calls = 1..Len(ms[i].calls)
    BY <2>3
  <2>5. \A a, b \in 1..Len(ms[i].calls) : ms[i].calls[a].id = ms[i].calls[b].id => a = b
    BY <2>2, <2>4 DEF CallSeqs
  <2>6. ms[i].calls # <<>> => ms[i].role = "assistant"
    BY <1>1, <1>2 DEF Conversations
  <2> QED BY <2>1, <2>3, <2>4, <2>5, <2>6
<1> QED BY <1>1, <1>2

LEMMA LastReplyIs ==
    ASSUME NEW ms \in Seq(Messages), NEW i \in 1..Len(ms), IsReply(ms[i]),
           \A j \in i + 1..Len(ms) : ~IsReply(ms[j])
    PROVE  LastReply(ms) = i
<1> DEFINE I == {j \in 1..Len(ms) : IsReply(ms[j])}
<1>1. i \in I /\ \A j \in I : i >= j
  OBVIOUS
<1>2. \A x \in I : (\A j \in I : x >= j) => x = i
  BY <1>1
<1>3. LastReply(ms) = IF I # {} THEN Max(I) ELSE 0
  BY DEF LastReply, SelectLastInSeq
<1>4. I # {}
  BY <1>1
<1> HIDE DEF I
<1>5. Max(I) = i
  BY <1>1, <1>2 DEF Max
<1> QED BY <1>3, <1>4, <1>5

LEMMA LastReplyFound ==
    ASSUME NEW ms \in Seq(Messages)
    PROVE  \/ LastReply(ms) = 0 /\ \A j \in 1..Len(ms) : ~IsReply(ms[j])
           \/ /\ LastReply(ms) \in 1..Len(ms) /\ IsReply(ms[LastReply(ms)])
              /\ \A j \in LastReply(ms) + 1..Len(ms) : ~IsReply(ms[j])
<1> DEFINE I == {j \in 1..Len(ms) : IsReply(ms[j])}
<1>1. LastReply(ms) = IF I # {} THEN Max(I) ELSE 0
  BY DEF LastReply, SelectLastInSeq
<1>2. CASE I = {}
  BY <1>1, <1>2
<1>3. CASE I # {}
  <2>1. I \in SUBSET (0..Len(ms)) /\ Len(ms) \in Nat
    OBVIOUS
  <2>2. \A j : j \in I <=> j \in 1..Len(ms) /\ IsReply(ms[j])
    OBVIOUS
  <2> HIDE DEF I
  <2>3. PICK x \in I : \A y \in I : y <= x
    BY <1>3, <2>1, GreatestOf
  <2>4. /\ x \in 1..Len(ms) /\ IsReply(ms[x])
        /\ \A j \in x + 1..Len(ms) : ~IsReply(ms[j])
    BY <2>1, <2>2, <2>3
  <2>5. LastReply(ms) = x
    BY <2>4, LastReplyIs
  <2> QED BY <2>4, <2>5
<1> QED BY <1>2, <1>3

LEMMA AfterIs ==
    ASSUME NEW ms \in Seq(Messages), NEW i \in 0..Len(ms)
    PROVE  /\ After(ms, i) \in Seq(Messages) /\ Len(After(ms, i)) = Len(ms) - i
           /\ DOMAIN After(ms, i) = 1..Len(ms) - i
           /\ \A k \in 1..Len(ms) - i : After(ms, i)[k] = ms[i + k]
BY DEF After

(* The last reply has been answered as far as its first n calls.            *)
LEMMA PendingIs ==
    ASSUME NEW ms \in Conversations, NEW i \in 1..Len(ms), IsReply(ms[i]),
           \A j \in i + 1..Len(ms) : ms[j].role = "tool",
           NEW n \in 0..Len(ms[i].calls),
           \A k \in 1..n : \E j \in i + 1..Len(ms) : ms[j].id = ms[i].calls[k].id,
           \A k \in n + 1..Len(ms[i].calls) :
              \A j \in i + 1..Len(ms) : ms[j].id # ms[i].calls[k].id
    PROVE  Pending(ms) = SubSeq(ms[i].calls, n + 1, Len(ms[i].calls))
<1> DEFINE calls == ms[i].calls
           ids == Ids(After(ms, i))
           S == {c \in Range(calls) : c.id \notin ids}
<1>1. ms \in Seq(Messages) /\ Len(ms) \in Nat /\ i \in 0..Len(ms) /\ i \in 1..Len(ms)
  BY Facts
<1>2. calls \in Seq(Calls) /\ Len(calls) \in Nat /\ n \in 0..Len(calls)
  BY <1>1, Facts
<1>3. LastReply(ms) = i
  BY <1>1, LastReplyIs DEF IsReply
<1>4. /\ Len(After(ms, i)) = Len(ms) - i /\ DOMAIN After(ms, i) = 1..Len(ms) - i
      /\ \A k \in 1..Len(ms) - i : After(ms, i)[k] = ms[i + k]
  BY <1>1, AfterIs
<1>5. OnlyResults(After(ms, i))
  <2>1. \A k \in 1..Len(ms) - i : i + k \in i + 1..Len(ms)
    BY <1>1
  <2> QED BY <1>4, <2>1 DEF OnlyResults
<1>6. \A x : x \in ids <=> \E j \in i + 1..Len(ms) : ms[j].id = x
  <2>1. \A j \in i + 1..Len(ms) : j - i \in 1..Len(ms) - i /\ i + (j - i) = j
    BY <1>1
  <2>2. \A k \in 1..Len(ms) - i : i + k \in i + 1..Len(ms)
    BY <1>1
  <2>3. \A x : x \in ids <=> \E k \in 1..Len(ms) - i : After(ms, i)[k].id = x
    BY <1>4 DEF Ids
  <2>4. ASSUME NEW x, x \in ids PROVE \E j \in i + 1..Len(ms) : ms[j].id = x
    BY <1>4, <2>2, <2>3, <2>4
  <2>5. ASSUME NEW j \in i + 1..Len(ms) PROVE ms[j].id \in ids
    <3>1. After(ms, i)[j - i] = ms[j]
      BY <1>4, <2>1
    <3> QED BY <2>1, <2>3, <3>1
  <2> HIDE DEF ids
  <2> QED BY <2>4, <2>5
<1>7. Pending(ms) = Those(calls, S)
  BY <1>1, <1>3, <1>5 DEF Pending, Unanswered
<1> HIDE DEF ids
<1>8. \A k \in 1..Len(calls) : calls[k] \in S <=> calls[k].id \notin ids
  BY <1>2 DEF Range
<1> HIDE DEF S
<1>9. ASSUME NEW k \in 1..n PROVE calls[k] \notin S
  <2>1. k \in 1..Len(calls)
    BY <1>2
  <2>2. \E j \in i + 1..Len(ms) : ms[j].id = calls[k].id
    OBVIOUS
  <2> QED BY <1>6, <1>8, <2>1, <2>2
<1>10. ASSUME NEW k \in n + 1..Len(calls) PROVE calls[k] \in S
  <2>1. k \in 1..Len(calls)
    BY <1>2
  <2>2. \A j \in i + 1..Len(ms) : ms[j].id # calls[k].id
    OBVIOUS
  <2> QED BY <1>6, <1>8, <2>1, <2>2
<1> QED BY <1>2, <1>7, <1>9, <1>10, ThoseTail

LEMMA PendingNone ==
    ASSUME NEW ms \in Conversations, WellFormed(ms)
    PROVE  Pending(ms) = <<>>
<1> DEFINE i == LastReply(ms)
<1>0. ms \in Seq(Messages) /\ Len(ms) \in Nat
  BY Facts
<1>1. CASE i = 0 \/ ~OnlyResults(After(ms, i))
  BY <1>1 DEF Pending
<1>2. CASE i # 0 /\ OnlyResults(After(ms, i))
  <2>1. i \in 1..Len(ms) /\ IsReply(ms[i])
    BY <1>0, <1>2, LastReplyFound
  <2>2. i \in 0..Len(ms)
    BY <1>0, <2>1
  <2> HIDE DEF i
  <2>7. /\ Len(After(ms, i)) = Len(ms) - i /\ DOMAIN After(ms, i) = 1..Len(ms) - i
        /\ \A k \in 1..Len(ms) - i : After(ms, i)[k] = ms[i + k]
    BY <1>0, <2>2, AfterIs
  <2>3. \A j \in i + 1..Len(ms) : ms[j].role = "tool"
    <3>1. \A j \in i + 1..Len(ms) : j - i \in 1..Len(ms) - i /\ i + (j - i) = j
      BY <2>1
    <3> QED BY <1>2, <2>7, <3>1 DEF OnlyResults
  <2> DEFINE calls == ms[i].calls
  <2>4. calls \in Seq(Calls) /\ Len(calls) \in Nat /\ DOMAIN calls = 1..Len(calls)
    BY <2>1, Facts
  <2>5. /\ i + Len(calls) <= Len(ms)
        /\ \A k \in 1..Len(calls) : ms[i + k].id = calls[k].id
    <3>1. Answered(ms, i)
      BY <2>1, Facts DEF WellFormed
    <3>2. \A k \in 1..Len(calls) : ms[i + k] = Result(calls[k])
      BY <2>4, <3>1 DEF Answered
    <3>3. \A k \in 1..Len(calls) : Result(calls[k]).id = calls[k].id
      BY DEF Result
    <3>4. i + Len(calls) <= Len(ms)
      BY <3>1 DEF Answered
    <3> QED BY <3>2, <3>3, <3>4
  <2>6. Pending(ms) = SubSeq(calls, Len(calls) + 1, Len(calls))
    <3>1. \A k \in 1..Len(calls) : i + k \in i + 1..Len(ms)
      BY <2>1, <2>4, <2>5
    <3>2. \A k \in 1..Len(calls) : \E j \in i + 1..Len(ms) : ms[j].id = calls[k].id
      BY <2>5, <3>1
    <3>3. Len(calls) \in 0..Len(calls) /\ Len(calls) + 1..Len(calls) = {}
      BY <2>4
    <3> QED BY <2>1, <2>3, <2>4, <3>2, <3>3, PendingIs
  <2>8. SubSeq(calls, Len(calls) + 1, Len(calls)) = <<>>
    BY <2>4, SubSeqEmpty
  <2> QED BY <2>6, <2>8
<1> QED BY <1>1, <1>2

LEMMA WellFormedIs ==
    ASSUME NEW ms \in Conversations
    PROVE  WellFormed(ms) <=>
             /\ \A i \in 1..Len(ms) : /\ i + Len(ms[i].calls) <= Len(ms)
                                      /\ \A k \in 1..Len(ms[i].calls) :
                                            ms[i + k] = Result(ms[i].calls[k])
             /\ \A i \in 1..Len(ms) : ms[i].role = "tool" =>
                   \E j \in 1..i - 1 : i <= j + Len(ms[j].calls)
<1>1. ASSUME NEW i \in 1..Len(ms)
      PROVE  Answered(ms, i) <=>
                /\ i + Len(ms[i].calls) <= Len(ms)
                /\ \A k \in 1..Len(ms[i].calls) : ms[i + k] = Result(ms[i].calls[k])
  <2>1. DOMAIN ms[i].calls = 1..Len(ms[i].calls)
    BY Facts
  <2> QED BY <2>1 DEF Answered
<1>2. DOMAIN ms = 1..Len(ms)
  BY Facts
<1> QED BY <1>1, <1>2 DEF WellFormed

LEMMA ResultsAre ==
    ASSUME NEW cs \in CallSeqs
    PROVE  /\ Results(cs) \in Conversations /\ Len(Results(cs)) = Len(cs) /\ Len(cs) \in Nat
           /\ \A k \in 1..Len(cs) : Results(cs)[k] = Result(cs[k])
           /\ \A k \in 1..Len(cs) : /\ Result(cs[k]) \in Messages
                                    /\ Result(cs[k]).calls = <<>>
                                    /\ Result(cs[k]).role = "tool"
                                    /\ Result(cs[k]).id = cs[k].id
<1>1. cs \in Seq(Calls) /\ Len(cs) \in Nat /\ DOMAIN cs = 1..Len(cs)
  BY DEF CallSeqs
<1>2. <<>> \in CallSeqs
  BY DEF CallSeqs
<1>3. ASSUME NEW k \in 1..Len(cs)
      PROVE  /\ Result(cs[k]) \in Messages
             /\ Result(cs[k]).calls = <<>>
             /\ Result(cs[k]).role = "tool"
             /\ Result(cs[k]).id = cs[k].id
  <2>0. cs[k] \in Calls
    BY <1>1
  <2>1. cs[k].id \in STRING
    BY <2>0 DEF Calls
  <2> QED BY <1>2, <2>1 DEF Result, Messages
<1>4. Results(cs) = [k \in 1..Len(cs) |-> Result(cs[k])]
  BY <1>1 DEF Results
<1>5. /\ Results(cs) \in Seq(Messages) /\ Len(Results(cs)) = Len(cs)
      /\ DOMAIN Results(cs) = 1..Len(cs)
      /\ \A k \in 1..Len(cs) : Results(cs)[k] = Result(cs[k])
  BY <1>1, <1>3, <1>4
<1>6. Results(cs) \in Conversations
  BY <1>3, <1>5 DEF Conversations
<1> QED BY <1>1, <1>3, <1>5, <1>6

LEMMA JoinIs ==
    ASSUME NEW ms \in Conversations, NEW rs \in Conversations
    PROVE  /\ ms \o rs \in Conversations /\ Len(ms \o rs) = Len(ms) + Len(rs)
           /\ \A i \in 1..Len(ms) : (ms \o rs)[i] = ms[i]
           /\ \A k \in 1..Len(rs) : (ms \o rs)[Len(ms) + k] = rs[k]
<1>1. /\ ms \in Seq(Messages) /\ rs \in Seq(Messages) /\ Len(ms) \in Nat /\ Len(rs) \in Nat
  BY Facts
<1>2. /\ ms \o rs \in Seq(Messages) /\ Len(ms \o rs) = Len(ms) + Len(rs)
      /\ DOMAIN (ms \o rs) = 1..Len(ms) + Len(rs)
      /\ \A i \in 1..Len(ms) : (ms \o rs)[i] = ms[i]
      /\ \A k \in 1..Len(rs) : (ms \o rs)[Len(ms) + k] = rs[k]
  BY <1>1
<1>3. ASSUME NEW i \in 1..Len(ms) + Len(rs), (ms \o rs)[i].calls # <<>>
      PROVE  (ms \o rs)[i].role = "assistant"
  <2>1. CASE i \in 1..Len(ms)
    BY <1>2, <1>3, <2>1, Facts
  <2>2. CASE i \in Len(ms) + 1..Len(ms) + Len(rs)
    <3>1. i - Len(ms) \in 1..Len(rs) /\ Len(ms) + (i - Len(ms)) = i
      BY <1>1, <2>2
    <3>2. (ms \o rs)[i] = rs[i - Len(ms)]
      BY <1>2, <3>1
    <3> QED BY <1>3, <3>1, <3>2, Facts
  <2> QED BY <1>1, <2>1, <2>2
<1> QED BY <1>2, <1>3 DEF Conversations

LEMMA AppendIs ==
    ASSUME NEW ms \in Conversations, NEW m \in Messages, m.calls # <<>> => m.role = "assistant"
    PROVE  /\ Append(ms, m) \in Conversations /\ Len(Append(ms, m)) = Len(ms) + 1
           /\ \A i \in 1..Len(ms) : Append(ms, m)[i] = ms[i]
           /\ Append(ms, m)[Len(ms) + 1] = m
<1>1. ms \in Seq(Messages) /\ Len(ms) \in Nat
  BY Facts
<1>2. /\ Append(ms, m) \in Seq(Messages) /\ Len(Append(ms, m)) = Len(ms) + 1
      /\ DOMAIN Append(ms, m) = 1..Len(ms) + 1
      /\ \A i \in 1..Len(ms) : Append(ms, m)[i] = ms[i]
      /\ Append(ms, m)[Len(ms) + 1] = m
  BY <1>1
<1>3. \A i \in 1..Len(ms) + 1 : Append(ms, m)[i].calls # <<>> =>
                                   Append(ms, m)[i].role = "assistant"
  <2>1. \A i \in 1..Len(ms) + 1 : i \in 1..Len(ms) \/ i = Len(ms) + 1
    BY <1>1
  <2> QED BY <1>2, <2>1, Facts
<1> QED BY <1>2, <1>3 DEF Conversations

LEMMA NothingOwed ==
    ASSUME NEW ms \in Conversations
    PROVE  /\ ms \o Results(<<>>) = ms /\ <<>> \in CallSeqs
           /\ WellFormed(ms) => Sound(ms) /\ Pending(ms) = <<>>
           /\ Sound(ms) /\ Pending(ms) = <<>> => WellFormed(ms)
<1>1. <<>> \in CallSeqs
  BY DEF CallSeqs
<1>2. Results(<<>>) \in Seq(Messages) /\ Len(Results(<<>>)) = 0
  BY <1>1, ResultsAre, Facts
<1>3. Results(<<>>) = <<>>
  BY <1>2
<1>4. ms \o Results(<<>>) = ms
  BY <1>3, Facts
<1>5. WellFormed(ms) => Sound(ms) /\ Pending(ms) = <<>>
  BY <1>1, <1>4, PendingNone DEF Sound, Owing
<1>6. Sound(ms) /\ Pending(ms) = <<>> => WellFormed(ms)
  BY <1>4 DEF Sound, Owing
<1> QED BY <1>1, <1>4, <1>5, <1>6

(* The results that are there are those of the first calls.                 *)
LEMMA LeavesAnswered ==
    ASSUME NEW ms \in Conversations, NEW cs \in CallSeqs, NEW i \in 1..Len(ms),
           Leaves(ms, i, cs), WellFormed(ms \o Results(cs))
    PROVE  /\ Len(ms) - i \in 0..Len(ms[i].calls)
           /\ \A k \in 1..Len(ms) - i : ms[i + k] = Result(ms[i].calls[k])
<1> DEFINE w == ms \o Results(cs)
<1>1. /\ Len(ms) \in Nat /\ Len(ms[i].calls) \in Nat
      /\ Len(ms) - i \in 0..Len(ms[i].calls)
  BY Facts DEF Leaves
<1>2. /\ w \in Conversations /\ Len(w) = Len(ms) + Len(cs) /\ Len(cs) \in Nat
      /\ \A j \in 1..Len(ms) : w[j] = ms[j]
  <2>1. Results(cs) \in Conversations /\ Len(Results(cs)) = Len(cs) /\ Len(cs) \in Nat
    BY ResultsAre
  <2> QED BY <2>1, JoinIs
<1> HIDE DEF w
<1>3. i \in 1..Len(w) /\ w[i] = ms[i]
  BY <1>1, <1>2
<1>4. WellFormed(w)
  BY DEF w
<1>5. \A k \in 1..Len(ms[i].calls) : w[i + k] = Result(ms[i].calls[k])
  <2>1. \A j \in 1..Len(w) : \A k \in 1..Len(w[j].calls) : w[j + k] = Result(w[j].calls[k])
    BY <1>2, <1>4, WellFormedIs
  <2> QED BY <1>3, <2>1
<1>6. \A k \in 1..Len(ms) - i : k \in 1..Len(ms[i].calls) /\ i + k \in 1..Len(ms)
  BY <1>1
<1> QED BY <1>1, <1>2, <1>5, <1>6

LEMMA PendingOf ==
    ASSUME NEW ms \in Conversations, NEW cs \in CallSeqs, Owing(ms, cs)
    PROVE  Sound(ms) /\ Pending(ms) = cs
<1>1. CASE cs = <<>>
  <2>1. WellFormed(ms)
    BY <1>1, NothingOwed DEF Owing
  <2> QED BY <1>1, <2>1, NothingOwed
<1>2. CASE cs # <<>>
  <2>1. PICK i \in 1..Len(ms) : Leaves(ms, i, cs)
    BY <1>2, Facts DEF Owing
  <2> DEFINE calls == ms[i].calls
             n == Len(ms) - i
  <2>2. /\ n \in 0..Len(calls)
        /\ \A k \in 1..n : ms[i + k] = Result(calls[k])
    BY <2>1, LeavesAnswered DEF Owing
  <2>3. /\ Len(ms) \in Nat /\ calls \in CallSeqs /\ Len(calls) \in Nat
        /\ \A a, b \in 1..Len(calls) : calls[a].id = calls[b].id => a = b
    BY Facts DEF Messages
  <2> HIDE DEF n, calls
  <2>4. \A k \in 1..n : /\ i + k \in i + 1..Len(ms)
                        /\ ms[i + k].role = "tool" /\ ms[i + k].id = calls[k].id
    <3>1. ASSUME NEW k \in 1..n PROVE ms[i + k].role = "tool" /\ ms[i + k].id = calls[k].id
      <4>1. ms[i + k] = Result(calls[k])
        BY <2>2
      <4>2. Result(calls[k]).role = "tool" /\ Result(calls[k]).id = calls[k].id
        BY DEF Result
      <4> QED BY <4>1, <4>2
    <3>2. \A k \in 1..n : i + k \in i + 1..Len(ms)
      BY <2>2, <2>3 DEF n
    <3> QED BY <3>1, <3>2
  <2>5. \A j \in i + 1..Len(ms) : j - i \in 1..n /\ i + (j - i) = j
    BY <2>3 DEF n
  <2>6. \A j \in i + 1..Len(ms) : ms[j].role = "tool" /\ ms[j].id = calls[j - i].id
    BY <2>4, <2>5
  <2>7. \A k \in 1..n : \E j \in i + 1..Len(ms) : ms[j].id = calls[k].id
    BY <2>4
  <2>8. ASSUME NEW k \in n + 1..Len(calls), NEW j \in i + 1..Len(ms)
        PROVE  ms[j].id # calls[k].id
    <3>1. j - i \in 1..Len(calls) /\ k \in 1..Len(calls) /\ j - i # k
      BY <2>2, <2>3, <2>5
    <3> QED BY <2>3, <2>6, <3>1
  <2>9. IsReply(ms[i]) /\ cs = SubSeq(calls, n + 1, Len(calls))
    BY <2>1 DEF Leaves, IsReply, n, calls
  <2>10. Pending(ms) = SubSeq(calls, n + 1, Len(calls))
    BY <2>2, <2>6, <2>7, <2>8, <2>9, PendingIs DEF calls
  <2> QED BY <2>9, <2>10 DEF Sound
<1> QED BY <1>1, <1>2

(* Something is said, that makes no calls and answers none.                 *)
LEMMA SpeaksOn ==
    ASSUME NEW ms \in Conversations, WellFormed(ms),
           NEW m \in Messages, m.calls = <<>>, m.role # "tool"
    PROVE  Append(ms, m) \in Conversations /\ WellFormed(Append(ms, m))
<1> DEFINE a == Append(ms, m)
<1>1. /\ a \in Conversations /\ Len(a) = Len(ms) + 1 /\ Len(ms) \in Nat
      /\ \A i \in 1..Len(ms) : a[i] = ms[i]
      /\ a[Len(ms) + 1] = m
  BY AppendIs, Facts
<1> HIDE DEF a
<1>2. ASSUME NEW i \in 1..Len(a)
      PROVE  /\ i + Len(a[i].calls) <= Len(a)
             /\ \A k \in 1..Len(a[i].calls) : a[i + k] = Result(a[i].calls[k])
             /\ a[i].role = "tool" => \E j \in 1..i - 1 : i <= j + Len(a[j].calls)
  <2>1. CASE i \in 1..Len(ms)
    <3>1. /\ i + Len(ms[i].calls) <= Len(ms) /\ Len(ms[i].calls) \in Nat
          /\ \A k \in 1..Len(ms[i].calls) : ms[i + k] = Result(ms[i].calls[k])
          /\ ms[i].role = "tool" => \E j \in 1..i - 1 : i <= j + Len(ms[j].calls)
      BY <2>1, WellFormedIs, Facts
    <3>2. \A k \in 1..Len(ms[i].calls) : i + k \in 1..Len(ms)
      BY <1>1, <2>1, <3>1
    <3>3. \A j \in 1..i - 1 : j \in 1..Len(ms)
      BY <1>1, <2>1
    <3>4. a[i] = ms[i] /\ i + Len(a[i].calls) <= Len(a)
      BY <1>1, <2>1, <3>1
    <3>5. \A k \in 1..Len(ms[i].calls) : a[i + k] = ms[i + k]
      BY <1>1, <3>2
    <3>6. \A j \in 1..i - 1 : a[j] = ms[j]
      BY <1>1, <3>3
    <3>7. \A k \in 1..Len(a[i].calls) : a[i + k] = Result(a[i].calls[k])
      BY <3>1, <3>4, <3>5
    <3>8. a[i].role = "tool" => \E j \in 1..i - 1 : i <= j + Len(a[j].calls)
      BY <3>1, <3>4, <3>6
    <3> QED BY <3>4, <3>7, <3>8
  <2>2. CASE i = Len(ms) + 1
    <3>1. a[i] = m /\ Len(a[i].calls) = 0 /\ m.role # "tool"
      BY <1>1, <2>2
    <3>2. i + 0 <= Len(a)
      BY <1>1, <2>2
    <3>3. 1..0 = {}
      OBVIOUS
    <3> QED BY <3>1, <3>2, <3>3
  <2> QED BY <1>1, <2>1, <2>2
<1> QED BY <1>1, <1>2, WellFormedIs DEF a

(* A reply with calls owes their results.                                   *)
LEMMA AsksTools ==
    ASSUME NEW ms \in Conversations, WellFormed(ms), NEW cs \in CallSeqs
    PROVE  /\ Append(ms, Reply(cs)) \in Conversations
           /\ Sound(Append(ms, Reply(cs))) /\ Pending(Append(ms, Reply(cs))) = cs
<1> DEFINE a == Append(ms, Reply(cs))
           rs == Results(cs)
           w == a \o rs
           n == Len(ms)
<1>1. /\ Reply(cs) \in Messages /\ Reply(cs).role = "assistant" /\ Reply(cs).calls = cs
      /\ cs \in Seq(Calls) /\ Len(cs) \in Nat /\ n \in Nat
  <2>2. /\ Reply(cs).role = "assistant" /\ Reply(cs).calls = cs
    BY DEF Reply
  <2>3. Reply(cs) \in Messages
    BY DEF Reply, Messages
  <2>4. cs \in Seq(Calls)
    BY DEF CallSeqs
  <2>5. n \in Nat
    BY Facts
  <2>6. Len(cs) \in Nat
    BY <2>4
  <2> QED BY <2>2, <2>3, <2>4, <2>5, <2>6
<1>2. /\ a \in Conversations /\ Len(a) = n + 1
      /\ \A i \in 1..n : a[i] = ms[i]
      /\ a[n + 1] = Reply(cs)
  BY <1>1, AppendIs
<1> HIDE DEF a
<1>3. /\ rs \in Conversations /\ Len(rs) = Len(cs)
      /\ \A k \in 1..Len(cs) : rs[k] = Result(cs[k]) /\ Result(cs[k]).calls = <<>>
  BY ResultsAre
<1> HIDE DEF rs
<1>4. /\ w \in Conversations /\ Len(w) = n + 1 + Len(cs)
      /\ \A i \in 1..n : w[i] = ms[i]
      /\ w[n + 1] = Reply(cs)
      /\ \A k \in 1..Len(cs) : w[n + 1 + k] = Result(cs[k])
  <2>1. /\ w \in Conversations /\ Len(w) = Len(a) + Len(rs)
        /\ \A i \in 1..Len(a) : w[i] = a[i]
        /\ \A k \in 1..Len(rs) : w[Len(a) + k] = rs[k]
    BY <1>2, <1>3, JoinIs
  <2> HIDE DEF w
  <2>2. n + 1 \in 1..Len(a) /\ \A i \in 1..n : i \in 1..Len(a)
    BY <1>1, <1>2
  <2> QED BY <1>1, <1>2, <1>3, <2>1, <2>2
<1> HIDE DEF w
<1>5. ASSUME NEW i \in 1..Len(w)
      PROVE  /\ i + Len(w[i].calls) <= Len(w)
             /\ \A k \in 1..Len(w[i].calls) : w[i + k] = Result(w[i].calls[k])
             /\ w[i].role = "tool" => \E j \in 1..i - 1 : i <= j + Len(w[j].calls)
  <2>1. CASE i \in 1..n
    <3>1. /\ i + Len(ms[i].calls) <= n /\ Len(ms[i].calls) \in Nat
          /\ \A k \in 1..Len(ms[i].calls) : ms[i + k] = Result(ms[i].calls[k])
          /\ ms[i].role = "tool" => \E j \in 1..i - 1 : i <= j + Len(ms[j].calls)
      BY <2>1, WellFormedIs, Facts
    <3>2. \A k \in 1..Len(ms[i].calls) : i + k \in 1..n
      BY <1>1, <2>1, <3>1
    <3>3. \A j \in 1..i - 1 : j \in 1..n
      BY <1>1, <2>1
    <3>4. w[i] = ms[i] /\ i + Len(w[i].calls) <= Len(w)
      BY <1>1, <1>4, <2>1, <3>1
    <3>5. \A k \in 1..Len(ms[i].calls) : w[i + k] = ms[i + k]
      BY <1>4, <3>2
    <3>6. \A j \in 1..i - 1 : w[j] = ms[j]
      BY <1>4, <3>3
    <3>7. \A k \in 1..Len(w[i].calls) : w[i + k] = Result(w[i].calls[k])
      BY <3>1, <3>4, <3>5
    <3>8. w[i].role = "tool" => \E j \in 1..i - 1 : i <= j + Len(w[j].calls)
      BY <3>1, <3>4, <3>6
    <3> QED BY <3>4, <3>7, <3>8
  <2>2. CASE i = n + 1
    BY <1>1, <1>4, <2>2
  <2>3. CASE i \in n + 2..Len(w)
    <3>1. i - (n + 1) \in 1..Len(cs) /\ n + 1 + (i - (n + 1)) = i
      BY <1>1, <1>4, <2>3
    <3>2. w[i] = Result(cs[i - (n + 1)])
      BY <1>4, <3>1
    <3>3. w[i].calls = <<>> /\ Len(w[i].calls) = 0 /\ 1..0 = {}
      BY <1>3, <3>1, <3>2
    <3>4. n + 1 \in 1..i - 1 /\ i <= (n + 1) + Len(w[n + 1].calls)
      <4>1. w[n + 1].calls = cs
        BY <1>1, <1>4
      <4>2. i <= (n + 1) + Len(cs) /\ n + 1 \in 1..i - 1
        BY <1>1, <1>4, <2>3
      <4> QED BY <4>1, <4>2
    <3>5. i + 0 <= Len(w)
      BY <1>1, <1>4, <2>3
    <3> QED BY <3>3, <3>4, <3>5
  <2> QED BY <1>1, <1>4, <2>1, <2>2, <2>3
<1>6. WellFormed(w)
  BY <1>4, <1>5, WellFormedIs
<1>7. Leaves(a, n + 1, cs)
  <2>1. Len(a) - (n + 1) = 0 /\ a[n + 1].calls = cs /\ a[n + 1].role = "assistant"
    BY <1>1, <1>2
  <2>2. cs = SubSeq(cs, 0 + 1, Len(cs))
    BY <1>1, SubSeqFull
  <2> QED BY <1>1, <2>1, <2>2 DEF Leaves
<1>8. n + 1 \in DOMAIN a
  BY <1>1, <1>2, Facts
<1>9. Owing(a, cs)
  BY <1>6, <1>7, <1>8 DEF Owing, w, rs
<1> QED BY <1>2, <1>9, PendingOf DEF a

LEMMA TailIs ==
    ASSUME NEW cs \in CallSeqs, cs # <<>>
    PROVE  /\ Tail(cs) \in CallSeqs /\ Len(Tail(cs)) = Len(cs) - 1 /\ Len(cs) \in Nat \ {0}
           /\ Head(cs) = cs[1] /\ Head(cs) \in Calls
           /\ \A k \in 1..Len(cs) - 1 : Tail(cs)[k] = cs[k + 1]
<1>1. cs \in Seq(Calls) /\ Len(cs) \in Nat \ {0} /\ DOMAIN cs = 1..Len(cs)
  BY DEF CallSeqs
<1>2. /\ Tail(cs) \in Seq(Calls) /\ Len(Tail(cs)) = Len(cs) - 1
      /\ DOMAIN Tail(cs) = 1..Len(cs) - 1
      /\ Head(cs) = cs[1] /\ Head(cs) \in Calls
      /\ \A k \in 1..Len(cs) - 1 : Tail(cs)[k] = cs[k + 1]
  BY <1>1
<1>3. ASSUME NEW a \in DOMAIN Tail(cs), NEW b \in DOMAIN Tail(cs), Tail(cs)[a].id = Tail(cs)[b].id
      PROVE  a = b
  <2>1. a + 1 \in DOMAIN cs /\ b + 1 \in DOMAIN cs
    BY <1>1, <1>2
  <2>2. cs[a + 1].id = cs[b + 1].id
    BY <1>2, <1>3
  <2>3. a + 1 = b + 1
    BY <2>1, <2>2 DEF CallSeqs
  <2> QED BY <1>2, <2>3
<1> QED BY <1>1, <1>2, <1>3 DEF CallSeqs

(* The first of the calls that are owed is answered.                        *)
LEMMA AnswersOne ==
    ASSUME NEW ms \in Conversations, NEW cs \in CallSeqs, cs # <<>>, Owing(ms, cs)
    PROVE  /\ Append(ms, Result(Head(cs))) \in Conversations
           /\ Sound(Append(ms, Result(Head(cs))))
           /\ Pending(Append(ms, Result(Head(cs)))) = Tail(cs)
<1> DEFINE r == Result(Head(cs))
           a == Append(ms, r)
           n == Len(ms)
           w == ms \o Results(cs)
           v == a \o Results(Tail(cs))
<1>1. /\ Tail(cs) \in CallSeqs /\ Len(Tail(cs)) = Len(cs) - 1 /\ Len(cs) \in Nat \ {0}
      /\ Head(cs) = cs[1]
      /\ \A k \in 1..Len(cs) - 1 : Tail(cs)[k] = cs[k + 1]
  BY TailIs
<1>2. /\ Results(cs) \in Conversations /\ Len(Results(cs)) = Len(cs)
      /\ \A k \in 1..Len(cs) : Results(cs)[k] = Result(cs[k])
      /\ r \in Messages /\ r.calls = <<>> /\ Results(cs)[1] = r
  BY <1>1, ResultsAre
<1>3. /\ Results(Tail(cs)) \in Conversations /\ Len(Results(Tail(cs))) = Len(cs) - 1
      /\ \A k \in 1..Len(cs) - 1 : Results(Tail(cs))[k] = Result(cs[k + 1])
  <2>1. /\ Results(Tail(cs)) \in Conversations /\ Len(Results(Tail(cs))) = Len(Tail(cs))
        /\ \A k \in 1..Len(Tail(cs)) : Results(Tail(cs))[k] = Result(Tail(cs)[k])
    BY <1>1, ResultsAre
  <2> QED BY <1>1, <2>1
<1> HIDE DEF r
<1>4. /\ a \in Conversations /\ Len(a) = n + 1 /\ n \in Nat
      /\ \A i \in 1..n : a[i] = ms[i]
      /\ a[n + 1] = r
  BY <1>2, AppendIs, Facts
<1> HIDE DEF a
<1>5. v = w
  <2>1. /\ w \in Conversations /\ Len(w) = n + Len(cs)
        /\ \A i \in 1..n : w[i] = ms[i]
        /\ \A k \in 1..Len(cs) : w[n + k] = Result(cs[k])
    <3> DEFINE rs == Results(cs)
    <3>1. /\ w \in Conversations /\ Len(w) = n + Len(rs)
          /\ \A i \in 1..n : w[i] = ms[i]
          /\ \A k \in 1..Len(rs) : w[n + k] = rs[k]
      BY <1>2, JoinIs
    <3> HIDE DEF w
    <3> QED BY <1>2, <3>1
  <2>2. /\ v \in Conversations /\ Len(v) = n + 1 + (Len(cs) - 1)
        /\ \A i \in 1..n + 1 : v[i] = a[i]
        /\ \A k \in 1..Len(cs) - 1 : v[n + 1 + k] = Result(cs[k + 1])
    <3> DEFINE rs == Results(Tail(cs))
    <3>1. /\ v \in Conversations /\ Len(v) = Len(a) + Len(rs)
          /\ \A i \in 1..Len(a) : v[i] = a[i]
          /\ \A k \in 1..Len(rs) : v[Len(a) + k] = rs[k]
      BY <1>3, <1>4, JoinIs
    <3> HIDE DEF v
    <3> QED BY <1>3, <1>4, <3>1
  <2> HIDE DEF v, w
  <2>3. ASSUME NEW i \in 1..Len(v) PROVE v[i] = w[i]
    <3>1. CASE i \in 1..n
      BY <1>4, <2>1, <2>2, <3>1
    <3>2. CASE i = n + 1
      <4>1. w[n + 1] = Result(cs[1])
        BY <1>1, <2>1
      <4>2. v[n + 1] = r
        BY <1>4, <2>2
      <4> QED BY <1>1, <1>2, <3>2, <4>1, <4>2
    <3>3. CASE i \in n + 2..Len(v)
      <4>1. i - (n + 1) \in 1..Len(cs) - 1 /\ n + 1 + (i - (n + 1)) = i
            /\ i - n \in 1..Len(cs) /\ n + (i - n) = i /\ (i - (n + 1)) + 1 = i - n
        BY <1>1, <1>4, <2>2, <3>3
      <4>2. v[i] = Result(cs[i - n])
        BY <2>2, <4>1
      <4>3. w[i] = Result(cs[i - n])
        BY <2>1, <4>1
      <4> QED BY <4>2, <4>3
    <3> QED BY <1>4, <2>2, <3>1, <3>2, <3>3
  <2>4. Len(v) = Len(w)
    BY <1>1, <1>4, <2>1, <2>2
  <2>5. v \in Seq(Messages) /\ w \in Seq(Messages)
    BY <2>1, <2>2, Facts
  <2> QED BY <2>3, <2>4, <2>5, SeqEqual
<1>6. PICK i \in 1..n : Leaves(ms, i, cs)
  BY Facts DEF Owing
<1>7. Leaves(a, i, Tail(cs))
  <2> DEFINE calls == ms[i].calls
  <2>1. /\ ms[i].role = "assistant" /\ n - i >= 0 /\ n - i <= Len(calls)
        /\ cs = SubSeq(calls, n - i + 1, Len(calls))
    BY <1>6 DEF Leaves
  <2>2. calls \in Seq(Calls) /\ Len(calls) \in Nat /\ n \in Nat /\ i \in Nat
    BY <1>4, <1>6, Facts
  <2> HIDE DEF calls
  <2>3. n - i + 1 <= Len(calls)
    <3>1. CASE n - i + 1 > Len(calls)
      BY <2>1, <2>2, <3>1, SubSeqEmpty
    <3> QED BY <2>2, <3>1
  <2>4. Tail(cs) = SubSeq(calls, (n - i + 1) + 1, Len(calls))
    BY <2>1, <2>2, <2>3, HeadTailOfSubSeq
  <2>5. a[i].calls = calls /\ a[i].role = "assistant" /\ Len(a) - i = n - i + 1
    BY <1>4, <1>6, <2>1, <2>2 DEF calls
  <2>6. Len(a) - i >= 0 /\ Len(a) - i <= Len(a[i].calls)
    BY <2>1, <2>2, <2>3, <2>5
  <2>7. Tail(cs) = SubSeq(a[i].calls, Len(a) - i + 1, Len(a[i].calls))
    BY <2>4, <2>5
  <2> QED BY <2>5, <2>6, <2>7 DEF Leaves
<1>8. i \in DOMAIN a
  BY <1>4, <1>6, Facts
<1>9. Owing(a, Tail(cs))
  BY <1>5, <1>7, <1>8 DEF Owing
<1> QED BY <1>1, <1>4, <1>9, PendingOf DEF a, r

(* What repairing adds is what was owed.                                    *)
LEMMA RepairedIs ==
    ASSUME NEW ms, Sound(ms)
    PROVE  Repaired(ms) \in Conversations /\ WellFormed(Repaired(ms))
<1>1. Repaired(ms) = ms \o Results(Pending(ms))
  BY DEF Repaired, Results
<1> QED BY <1>1, ResultsAre, JoinIs DEF Sound, Owing

-----------------------------------------------------------------------------
(* Compaction.                                                              *)

LEMMA RoundEndIs ==
    ASSUME NEW ms \in Conversations, NEW i \in 1..Len(ms)
    PROVE  /\ RoundEnd(ms, i) \in i..Len(ms)
           /\ RoundEnd(ms, i) = Len(ms) \/ NotTool(ms[RoundEnd(ms, i) + 1])
<1> DEFINE Only(k) == \A j \in i + 1..k : ms[j].role = "tool"
           T == {k \in i..Len(ms) : Only(k)}
<1>1. ms \in Seq(Messages) /\ Len(ms) \in Nat /\ i \in Nat
  BY Facts
<1>2. ASSUME NEW k \in i..Len(ms)
      PROVE  OnlyResults(SubSeq(ms, i + 1, k)) <=> Only(k)
  <2>1. /\ DOMAIN SubSeq(ms, i + 1, k) = 1..k - i
        /\ \A j \in 1..k - i : SubSeq(ms, i + 1, k)[j] = ms[i + j]
    BY <1>1
  <2>2. OnlyResults(SubSeq(ms, i + 1, k)) <=> \A j \in 1..k - i : ms[i + j].role = "tool"
    BY <2>1 DEF OnlyResults
  <2>3. \A j \in i + 1..k : j - i \in 1..k - i /\ i + (j - i) = j
    BY <1>1
  <2>4. \A j \in 1..k - i : i + j \in i + 1..k
    BY <1>1
  <2> QED BY <2>2, <2>3, <2>4
<1>3. T \in SUBSET (0..Len(ms)) /\ i \in T
  BY <1>1
<1>4. \A k : k \in T <=> k \in i..Len(ms) /\ Only(k)
  OBVIOUS
<1> HIDE DEF T
<1>5. PICK k \in T : \A y \in T : y <= k
  BY <1>1, <1>3, GreatestOf
<1>6. k \in i..Len(ms) /\ Only(k)
  BY <1>4, <1>5
<1>7. k = Len(ms) \/ NotTool(ms[k + 1])
  <2> SUFFICES ASSUME k # Len(ms), ms[k + 1].role = "tool" PROVE FALSE
    BY DEF NotTool
  <2>1. k + 1 \in i..Len(ms) /\ i + 1..k + 1 = (i + 1..k) \cup {k + 1}
    BY <1>1, <1>6
  <2>2. Only(k + 1)
    BY <1>6, <2>1
  <2>3. k + 1 \in T
    BY <1>4, <2>1, <2>2
  <2> QED BY <1>1, <1>5, <1>6, <2>3
<1> HIDE DEF Only
<1>8. \E x \in i..Len(ms) : /\ OnlyResults(SubSeq(ms, i + 1, x))
                            /\ x = Len(ms) \/ NotTool(ms[x + 1])
  BY <1>2, <1>6, <1>7
<1> QED BY <1>8 DEF RoundEnd

LEMMA CollapsedIs ==
    ASSUME NEW ms \in Conversations, WellFormed(ms), NEW i \in 1..Len(ms)
    PROVE  Collapsed(ms, i) \in Conversations /\ WellFormed(Collapsed(ms, i))
<1> DEFINE last == RoundEnd(ms, i)
           S == {m \in Range(ms) : NotTool(m)}
           first == SubSeq(ms, 1, last)
           kept == Those(first, S)
           lines == [k \in DOMAIN kept |-> Line(kept[k])]
           t == After(ms, last)
           w == lines \o t
           Spoken == {m \in Messages : m.role # "tool"}
<1>1. /\ ms \in Seq(Messages) /\ Len(ms) \in Nat /\ i \in Nat
      /\ last \in 1..Len(ms)
      /\ last = Len(ms) \/ ms[last + 1].role # "tool"
  BY Facts, RoundEndIs DEF NotTool
<1>2. Collapsed(ms, i) = w
  BY DEF Collapsed
<1> HIDE DEF last
<1>3. kept \in Seq(Spoken)
  <2>1. first \in Seq(Messages)
    BY <1>1
  <2>2. \A m \in Messages : m \in S => m \in Spoken
    BY DEF NotTool
  <2> HIDE DEF S, Spoken, first
  <2> QED BY <2>1, <2>2, ThoseIn
<1> HIDE DEF kept, first, S
<1>4. /\ lines \in Conversations /\ Len(lines) \in Nat
      /\ \A k \in 1..Len(lines) : lines[k].calls = <<>> /\ lines[k].role # "tool"
  <2>1. Len(kept) \in Nat /\ DOMAIN kept = 1..Len(kept) /\ \A k \in 1..Len(kept) : kept[k] \in Spoken
    BY <1>3
  <2>2. <<>> \in CallSeqs
    BY DEF CallSeqs
  <2>3. ASSUME NEW m \in Spoken
        PROVE  Line(m) \in Messages /\ Line(m).calls = <<>> /\ Line(m).role # "tool"
    BY <2>2 DEF Line, Messages
  <2>4. lines = [k \in 1..Len(kept) |-> Line(kept[k])]
    BY <2>1
  <2> HIDE DEF lines, Spoken
  <2>5. /\ lines \in Seq(Messages) /\ Len(lines) = Len(kept) /\ DOMAIN lines = 1..Len(kept)
        /\ \A k \in 1..Len(kept) : lines[k] = Line(kept[k])
    BY <2>1, <2>3, <2>4
  <2>6. \A k \in 1..Len(kept) : lines[k].calls = <<>> /\ lines[k].role # "tool"
    BY <2>1, <2>3, <2>5
  <2> QED BY <2>1, <2>5, <2>6 DEF Conversations
<1> HIDE DEF lines, Spoken
<1>5. /\ t \in Conversations /\ Len(t) = Len(ms) - last
      /\ \A q \in 1..Len(t) : t[q] = ms[last + q] /\ last + q \in last + 1..Len(ms)
  <2>1. last \in 0..Len(ms)
    BY <1>1
  <2>2. /\ t \in Seq(Messages) /\ Len(t) = Len(ms) - last
        /\ DOMAIN t = 1..Len(ms) - last
        /\ \A k \in 1..Len(ms) - last : t[k] = ms[last + k]
    BY <1>1, <2>1, AfterIs
  <2> HIDE DEF t
  <2>3. \A k \in 1..Len(ms) - last : last + k \in 1..Len(ms) /\ last + k \in last + 1..Len(ms)
    BY <1>1
  <2>4. \A k \in 1..Len(ms) - last : t[k].calls # <<>> => t[k].role = "assistant"
    BY <2>2, <2>3, Facts
  <2>5. t \in Conversations
    BY <2>2, <2>4 DEF Conversations
  <2> QED BY <2>2, <2>3, <2>5
<1> HIDE DEF t
<1> DEFINE K == Len(lines)
<1>6. /\ w \in Conversations /\ Len(w) = K + (Len(ms) - last)
      /\ \A k \in 1..K : w[k].calls = <<>> /\ w[k].role # "tool"
      /\ \A q \in 1..Len(ms) - last : w[K + q] = ms[last + q]
  <2>1. /\ w \in Conversations /\ Len(w) = Len(lines) + Len(t)
        /\ \A k \in 1..Len(lines) : w[k] = lines[k]
        /\ \A q \in 1..Len(t) : w[Len(lines) + q] = t[q]
    BY <1>4, <1>5, JoinIs
  <2> HIDE DEF w
  <2> QED BY <1>4, <1>5, <2>1
<1> HIDE DEF w
<1>7. K \in Nat
  BY <1>4
<1> HIDE DEF K
<1>8. ASSUME NEW p \in 1..Len(w)
      PROVE  /\ p + Len(w[p].calls) <= Len(w)
             /\ \A k \in 1..Len(w[p].calls) : w[p + k] = Result(w[p].calls[k])
             /\ w[p].role = "tool" => \E j \in 1..p - 1 : p <= j + Len(w[j].calls)
  <2>1. CASE p \in 1..K
    <3>1. w[p].calls = <<>> /\ Len(w[p].calls) = 0 /\ w[p].role # "tool" /\ 1..0 = {}
      BY <1>6, <2>1
    <3>2. p + 0 <= Len(w)
      BY <1>1, <1>6, <1>7, <2>1
    <3> QED BY <3>1, <3>2
  <2>2. CASE p \in K + 1..Len(w)
    <3> DEFINE q == p - K
               o == last + q
    <3>1. /\ q \in 1..Len(ms) - last /\ K + q = p /\ o \in 1..Len(ms) /\ o \in last + 1..Len(ms)
      BY <1>1, <1>6, <1>7, <2>2
    <3>2. /\ w[p] = ms[o]
      BY <1>6, <3>1
    <3>0. o = last + q /\ o \in Nat /\ q \in Nat /\ last \in Nat /\ p = K + q
      BY <1>1, <3>1
    <3> HIDE DEF q, o
    <3>3. /\ o + Len(ms[o].calls) <= Len(ms) /\ Len(ms[o].calls) \in Nat
          /\ \A k \in 1..Len(ms[o].calls) : ms[o + k] = Result(ms[o].calls[k])
          /\ ms[o].role = "tool" => \E j \in 1..o - 1 : o <= j + Len(ms[j].calls)
      BY <3>1, WellFormedIs, Facts
    <3>4. p + Len(w[p].calls) <= Len(w)
      <4> DEFINE n == Len(ms[o].calls)
      <4>1. n \in Nat /\ o + n <= Len(ms)
        BY <3>3
      <4>2. Len(w[p].calls) = n
        BY <3>2
      <4> HIDE DEF n
      <4>3. p + n <= Len(w)
        BY <1>1, <1>6, <1>7, <3>0, <4>1
      <4> QED BY <4>2, <4>3
    <3>5. ASSUME NEW k \in 1..Len(w[p].calls)
          PROVE  w[p + k] = Result(w[p].calls[k])
      <4>1. q + k \in 1..Len(ms) - last /\ K + (q + k) = p + k /\ last + (q + k) = o + k
        <5> DEFINE n == Len(ms[o].calls)
        <5>1. k \in 1..n /\ n \in Nat /\ o + n <= Len(ms)
          BY <3>2, <3>3
        <5> HIDE DEF n
        <5> QED BY <1>1, <1>7, <3>0, <3>1, <5>1
      <4>2. w[p + k] = ms[o + k]
        BY <1>6, <4>1
      <4> QED BY <3>2, <3>3, <4>2
    <3>6. ASSUME w[p].role = "tool"
          PROVE  \E j \in 1..p - 1 : p <= j + Len(w[j].calls)
      <4>1. PICK j \in 1..o - 1 : o <= j + Len(ms[j].calls)
        BY <3>2, <3>3, <3>6
      <4>2. j \in 1..Len(ms) /\ Len(ms[j].calls) \in Nat
        BY <1>1, <3>1, Facts
      <4>3. j > last
        <5> SUFFICES ASSUME j <= last PROVE FALSE
          BY <1>1, <4>2
        <5>1. last + 1 - j \in 1..Len(ms[j].calls) /\ j + (last + 1 - j) = last + 1
          <6> DEFINE n == Len(ms[j].calls)
          <6>1. n \in Nat /\ o <= j + n /\ j \in Nat /\ o >= last + 1
            BY <3>1, <4>1, <4>2
          <6> HIDE DEF n
          <6>2. last + 1 - j \in 1..n /\ j + (last + 1 - j) = last + 1
            BY <3>0, <6>1
          <6> QED BY <6>2 DEF n
        <5>2. ms[last + 1] = Result(ms[j].calls[last + 1 - j])
          BY <4>2, <5>1, WellFormedIs
        <5>3. ms[last + 1].role = "tool"
          BY <5>2 DEF Result
        <5> QED BY <1>1, <3>1, <5>3
      <4>4. /\ j - last \in 1..Len(ms) - last /\ last + (j - last) = j
            /\ K + (j - last) \in 1..p - 1
        <5>1. j \in 1..o - 1
          OBVIOUS
        <5> QED BY <1>1, <1>7, <3>0, <3>1, <4>2, <4>3, <5>1
      <4>5. w[K + (j - last)] = ms[j]
        BY <1>6, <4>4
      <4>6. p <= (K + (j - last)) + Len(ms[j].calls)
        <5> DEFINE n == Len(ms[j].calls)
        <5>1. n \in Nat /\ o <= j + n /\ j \in Nat
          BY <4>1, <4>2
        <5> HIDE DEF n
        <5>2. p <= (K + (j - last)) + n
          BY <1>7, <3>0, <5>1
        <5> QED BY <5>2 DEF n
      <4> QED BY <4>4, <4>5, <4>6
    <3> QED BY <3>4, <3>5, <3>6
  <2> QED BY <1>1, <1>6, <1>7, <2>1, <2>2
<1>9. WellFormed(w)
  BY <1>6, <1>8, WellFormedIs
<1> QED BY <1>2, <1>6, <1>9

(* Only what owes nothing is compacted, and it owes nothing then.           *)
LEMMA CompactedIs ==
    ASSUME NEW ms, Sound(ms), NEW shorter \in Compacted(ms)
    PROVE  /\ WellFormed(ms) /\ Pending(ms) = <<>>
           /\ shorter \in Conversations /\ WellFormed(shorter)
<1>1. ms \in Conversations /\ DOMAIN ms = 1..Len(ms)
  BY Facts DEF Sound
<1>2. /\ \A i \in 1..Len(ms) : Answered(ms, i)
      /\ \E i \in 1..Len(ms) : shorter = Collapsed(ms, i)
  BY <1>1 DEF Compacted
<1>3. Pending(ms) = <<>>
  <2> SUFFICES ASSUME Pending(ms) # <<>> PROVE FALSE
    OBVIOUS
  <2>1. PICK i \in 1..Len(ms) : Leaves(ms, i, Pending(ms))
    BY <1>1 DEF Sound, Owing
  <2>2. i + Len(ms[i].calls) <= Len(ms)
    BY <1>2 DEF Answered
  <2>3. Len(ms) \in Nat /\ Len(ms[i].calls) \in Nat
    BY <1>1, Facts
  <2>4. Len(ms) - i = Len(ms[i].calls)
    BY <2>1, <2>2, <2>3 DEF Leaves
  <2>5. Pending(ms) = SubSeq(ms[i].calls, Len(ms[i].calls) + 1, Len(ms[i].calls))
    BY <2>1, <2>4 DEF Leaves
  <2> QED BY <2>3, <2>5, SubSeqEmpty
<1>4. WellFormed(ms)
  BY <1>1, <1>3, NothingOwed
<1> QED BY <1>1, <1>2, <1>3, <1>4, CollapsedIs

-----------------------------------------------------------------------------
(* The invariant.                                                           *)

Runs == [phase : {"none", "direct", "done", "stopped"}, input : Nat,
         recovery : {"", "pause", "error"}, rounds : Nat, seen : Nat, committed : BOOLEAN]
Places == {"idle", "retire", "compact", "open", "loop", "ask", "tools", "run", "answer",
           "ending", "told", "finish"}
Turns == [at : Places, then : {"open", "loop"}, resumed : BOOLEAN, todo : CallSeqs,
          req : Conversations, rounds : Nat, seen : Nat, empties : Nat, over : BOOLEAN,
          err : {"ok", "cancel", "lost", "limit", "error", "paused"}]
Sessions == [conv : Conversations, run : Runs]

Types ==
    /\ Sound(conv) /\ run \in Runs
    /\ disk \in Sessions /\ Sound(disk.conv)
    /\ turn \in Turns
    /\ dirty \in BOOLEAN /\ held \in BOOLEAN /\ cancelled \in BOOLEAN
    /\ typed \in Nat /\ asked \in Nat /\ ran \in SUBSET Calls

(* Where the turn is, what it will send and what it will run, against the   *)
(* conversation and the journal.                                            *)
Placed(t, c, r) ==
    /\ t.at \in {"retire", "open"} => t.then = "open"
    /\ t.at = "retire" => t.resumed
    /\ t.at \in {"loop", "ask", "tools", "run", "answer"} => t.then = "loop"
    /\ t.at \in {"compact", "open"} /\ (t.then = "loop" \/ ~t.resumed) => Pending(c) = <<>>
    /\ t.at = "loop" => t.req = c \/ (WellFormed(c) /\ t.req = Append(c, User))
    /\ t.at = "ask" => WellFormed(t.req) /\ Pending(c) = <<>>
    /\ t.at \in {"tools", "run", "answer"} => t.todo = Pending(c)
    /\ t.at \in {"run", "answer"} => t.todo # <<>> /\ r.recovery = ""

(* The turns begun without an end are as many as the place says.            *)
Begun(t) ==
    \/ t.at \in {"loop", "ask", "tools", "run", "answer", "ending", "told"}
    \/ t.at = "compact" /\ t.then = "loop"
Counted(t, n) == n = IF Begun(t) THEN 1 ELSE 0

(* No call is run again: none of those that may be run has begun to.  What  *)
(* is on the disk may be resumed from later, after a crash, so the session  *)
(* must not run what a point there would run, unless it goes on from there  *)
(* itself and takes the point back first.                                   *)
Resumable(r) == ~Finished(r) /\ r.recovery # ""
Fresh(cs, began) == \A k \in DOMAIN cs : cs[k] \notin began
UpTo(cs, n) == \A k \in DOMAIN cs : cs[k].no <= n
Apart(cs, ds) == \A k \in DOMAIN cs : \A l \in DOMAIN ds : cs[k] # ds[l]

Numbered(c, d, began, n) ==
    /\ UpTo(Pending(c), n) /\ UpTo(Pending(d.conv), n)
    /\ \A x \in began : x.no <= n
Once(t, c, r, d, began) ==
    /\ (t.at \notin {"idle", "answer"} \/ (t.at = "idle" /\ Resumable(r))) =>
           Fresh(Pending(c), began)
    /\ t.at = "answer" => Fresh(Tail(Pending(c)), began)
    /\ Resumable(d.run) => Fresh(Pending(d.conv), began)
    /\ Resumable(d.run) /\ r.recovery = "" /\ t.at # "idle" => Apart(Pending(c), Pending(d.conv))

TurnInv ==
    /\ Types
    /\ Placed(turn, conv, run)
    /\ Counted(turn, open)
    /\ Numbered(conv, disk, ran, asked)
    /\ Once(turn, conv, run, disk, ran)
    /\ again = {}

-----------------------------------------------------------------------------
(* What a step needs to keep.                                               *)

Within(cs, ds) == \A k \in DOMAIN cs : \E l \in DOMAIN ds : cs[k] = ds[l]

LEMMA WithinSame == \A cs : Within(cs, cs)
BY DEF Within
LEMMA WithinNone == \A cs : Within(<<>>, cs)
BY DEF Within
LEMMA WithinTail == ASSUME NEW cs \in CallSeqs, cs # <<>> PROVE Within(Tail(cs), cs)
<1>1. /\ Tail(cs) \in CallSeqs /\ Len(Tail(cs)) = Len(cs) - 1 /\ Len(cs) \in Nat
      /\ \A k \in 1..Len(cs) - 1 : Tail(cs)[k] = cs[k + 1]
  BY TailIs
<1>2. DOMAIN Tail(cs) = 1..Len(cs) - 1 /\ DOMAIN cs = 1..Len(cs)
  BY <1>1 DEF CallSeqs
<1>3. \A k \in 1..Len(cs) - 1 : k + 1 \in 1..Len(cs)
  BY <1>1
<1> QED BY <1>1, <1>2, <1>3 DEF Within

LEMMA WithinKeeps ==
    ASSUME NEW cs, NEW ds, Within(cs, ds)
    PROVE  /\ \A s : Fresh(ds, s) => Fresh(cs, s)
           /\ \A n : UpTo(ds, n) => UpTo(cs, n)
           /\ \A es : Apart(ds, es) => Apart(cs, es)
BY DEF Within, Fresh, UpTo, Apart

LEMMA NoneKeeps == \A n, s, ds : Fresh(<<>>, s) /\ UpTo(<<>>, n) /\ Apart(<<>>, ds)
BY DEF Fresh, UpTo, Apart

(* Nothing new is owed, and no tool begins.                                 *)
LEMMA Steps ==
    ASSUME TurnInv, Types', Placed(turn', conv', run'), Counted(turn', open'),
           UNCHANGED <<ran, again, asked>>,
           Within(Pending(conv'), Pending(conv)),
           turn'.at # "answer",
           turn'.at # "idle" \/ Resumable(run') => Fresh(Pending(conv'), ran),
           \/ disk' = disk
           \/ /\ Within(Pending(disk'.conv), Pending(conv))
              /\ Resumable(disk'.run) => Fresh(Pending(disk'.conv), ran),
           \/ Pending(conv') = <<>> \/ turn'.at = "idle" \/ run'.recovery # ""
           \/ ~Resumable(disk'.run)
           \/ disk' = disk /\ run.recovery = "" /\ turn.at # "idle"
    PROVE  TurnInv'
<1>0. /\ Numbered(conv, disk, ran, asked) /\ Once(turn, conv, run, disk, ran) /\ again = {}
  BY DEF TurnInv
<1>1. UpTo(Pending(conv'), asked)
  BY <1>0, WithinKeeps DEF Numbered
<1>2. UpTo(Pending(disk'.conv), asked)
  <2>1. CASE disk' = disk
    BY <1>0, <2>1 DEF Numbered
  <2>2. CASE Within(Pending(disk'.conv), Pending(conv))
    BY <1>0, <2>2, WithinKeeps DEF Numbered
  <2> QED BY <2>1, <2>2
<1>3. Numbered(conv', disk', ran', asked')
  BY <1>0, <1>1, <1>2 DEF Numbered
<1>4. Resumable(disk'.run) => Fresh(Pending(disk'.conv), ran)
  <2>1. CASE disk' = disk
    BY <1>0, <2>1 DEF Once
  <2> QED BY <2>1
<1>5. ASSUME Resumable(disk'.run), run'.recovery = "", turn'.at # "idle"
      PROVE  Apart(Pending(conv'), Pending(disk'.conv))
  <2>1. CASE Pending(conv') = <<>>
    BY <2>1, NoneKeeps
  <2>2. CASE disk' = disk /\ run.recovery = "" /\ turn.at # "idle"
    <3>1. Apart(Pending(conv), Pending(disk'.conv))
      BY <1>0, <1>5, <2>2 DEF Once
    <3> QED BY <3>1, WithinKeeps
  <2> QED BY <1>5, <2>1, <2>2
<1>6. Once(turn', conv', run', disk', ran')
  BY <1>4, <1>5 DEF Once
<1> QED BY <1>0, <1>3, <1>6 DEF TurnInv

LEMMA Records ==
    /\ NoRun \in Runs /\ NoTurn \in Turns /\ NoRun.recovery = ""
    /\ NoTurn.at = "idle" /\ NoTurn.then = "open" /\ ~NoTurn.resumed
    /\ Sound(<<>>) /\ Pending(<<>>) = <<>> /\ <<>> \in Conversations /\ WellFormed(<<>>)
<1>1. <<>> \in CallSeqs
  BY DEF CallSeqs
<1>2. <<>> \in Conversations
  BY DEF Conversations
<1>3. WellFormed(<<>>)
  BY DEF WellFormed
<1>4. Sound(<<>>) /\ Pending(<<>>) = <<>>
  BY <1>2, <1>3, NothingOwed
<1>5. NoRun \in Runs /\ NoRun.recovery = ""
  BY DEF NoRun, Runs
<1>6. NoTurn \in Turns /\ NoTurn.at = "idle" /\ NoTurn.then = "open" /\ ~NoTurn.resumed
  BY <1>1, <1>2 DEF NoTurn, Turns, Places
<1> QED BY <1>1, <1>2, <1>3, <1>4, <1>5, <1>6

LEMMA Starts == Init => TurnInv
<1> SUFFICES ASSUME Init PROVE TurnInv
  OBVIOUS
<1>1. Types
  BY Records DEF Init, Types, Sessions
<1>2. Placed(turn, conv, run) /\ Counted(turn, open)
  BY Records DEF Init, Placed, Counted, Begun
<1>3. Numbered(conv, disk, ran, asked)
  BY Records, NoneKeeps DEF Init, Numbered
<1>4. Once(turn, conv, run, disk, ran)
  BY Records, NoneKeeps DEF Init, Once
<1> QED BY <1>1, <1>2, <1>3, <1>4 DEF TurnInv, Init

(* Where a turn is.                                                         *)
LEMMA GoesTo ==
    ASSUME NEW t \in Turns, NEW at \in Places
    PROVE  /\ [t EXCEPT !.at = at] \in Turns
           /\ [t EXCEPT !.at = at].at = at
           /\ [t EXCEPT !.at = at].then = t.then
           /\ [t EXCEPT !.at = at].resumed = t.resumed
           /\ [t EXCEPT !.at = at].todo = t.todo /\ [t EXCEPT !.at = at].req = t.req
           /\ [t EXCEPT !.at = at].err = t.err
BY DEF Turns

LEMMA StopsAtIs ==
    ASSUME turn \in Turns, NEW at \in {"ending", "finish"},
           NEW err \in {"ok", "cancel", "lost", "limit", "error", "paused"}
    PROVE  /\ StopsAt(at, err) \in Turns /\ StopsAt(at, err).at = at
           /\ StopsAt(at, err).err = err
BY DEF Turns, StopsAt, Places

(* A turn that stops has nothing to be placed by.                           *)
LEMMA StoppedPlaced ==
    ASSUME NEW t, NEW c, NEW r, t.at \in {"idle", "ending", "told", "finish"}
    PROVE  /\ Placed(t, c, r)
           /\ t.at \in {"ending", "told"} => Counted(t, 1)
           /\ t.at \in {"idle", "finish"} => Counted(t, 0)
BY DEF Placed, Counted, Begun

LEMMA RetiredRun ==
    ASSUME NEW r \in Runs
    PROVE  /\ [r EXCEPT !.recovery = ""] \in Runs
           /\ [r EXCEPT !.recovery = ""].recovery = ""
           /\ ~Resumable([r EXCEPT !.recovery = ""])
BY DEF Runs, Resumable

(* Either the point is taken back, or nothing happened but that the turn    *)
(* stops.                                                                   *)
LEMMA RetireDoes ==
    ASSUME Types, NEW next, NEW where, Retire(next, where)
    PROVE  /\ run' \in Runs /\ disk' \in Sessions /\ Sound(disk'.conv)
           /\ dirty' \in BOOLEAN /\ held' \in BOOLEAN
           /\ \/ /\ turn' = next /\ run'.recovery = ""
                 /\ \/ disk' = disk /\ run' = run
                    \/ disk'.conv = conv /\ ~Resumable(disk'.run)
              \/ /\ turn' = StopsAt(where, "cancel") \/ turn' = StopsAt(where, "lost")
                 /\ run' = run /\ disk' = disk
<1>0. /\ run \in Runs /\ disk \in Sessions /\ Sound(disk.conv) /\ Sound(conv)
      /\ dirty \in BOOLEAN /\ held \in BOOLEAN /\ conv \in Conversations
  BY DEF Types, Sound
<1>1. CASE cancelled /\ turn' = StopsAt(where, "cancel") /\ UNCHANGED saved
  BY <1>0, <1>1 DEF saved
<1>2. CASE run.recovery = "" /\ turn' = next /\ UNCHANGED saved
  BY <1>0, <1>2 DEF saved
<1>3. CASE /\ run' = [run EXCEPT !.recovery = ""]
           /\ dirty' = FALSE /\ Written(conv, run')
           /\ turn' = next /\ UNCHANGED held
  <2>1. disk' = [conv |-> conv, run |-> run'] /\ run' = [run EXCEPT !.recovery = ""]
    BY <1>3 DEF Written
  <2>2. run' \in Runs /\ run'.recovery = "" /\ ~Resumable(run')
    BY <1>0, <2>1, RetiredRun
  <2>3. disk' \in Sessions /\ disk'.conv = conv /\ disk'.run = run'
    BY <1>0, <2>1, <2>2 DEF Sessions
  <2> QED BY <1>0, <1>3, <2>2, <2>3
<1>4. CASE Lost /\ turn' = StopsAt(where, "lost") /\ UNCHANGED run
  BY <1>0, <1>4 DEF Lost, Unwritten
<1> QED BY <1>1, <1>2, <1>3, <1>4 DEF Retire

(* Either the point is on the disk, or only memory has what it would say.   *)
LEMMA SaveDoes ==
    ASSUME Types, NEW c, Sound(c), NEW r \in Runs, NEW reason \in {"pause", "error"},
           NEW next, NEW failed, SaveRecovery(c, r, reason, next, failed)
    PROVE  /\ run' \in Runs /\ disk' \in Sessions /\ Sound(disk'.conv)
           /\ dirty' \in BOOLEAN /\ held' \in BOOLEAN
           /\ \/ /\ turn' = next /\ run'.recovery # ""
                 /\ disk'.conv = c
              \/ turn' = failed /\ run' = r /\ disk' = disk
<1>0. /\ disk \in Sessions /\ Sound(disk.conv) /\ c \in Conversations
      /\ dirty \in BOOLEAN /\ held \in BOOLEAN
  BY DEF Types, Sound
<1>1. CASE /\ run' = [r EXCEPT !.recovery = reason]
           /\ dirty' = FALSE /\ Written(c, run')
           /\ turn' = next /\ UNCHANGED held
  <2>1. disk' = [conv |-> c, run |-> run'] /\ run' = [r EXCEPT !.recovery = reason]
    BY <1>1 DEF Written
  <2>2. run' \in Runs /\ run'.recovery # ""
    BY <2>1 DEF Runs
  <2>3. disk' \in Sessions /\ disk'.conv = c
    BY <1>0, <2>1, <2>2 DEF Sessions
  <2> QED BY <1>0, <1>1, <2>2, <2>3
<1>2. CASE run' = r /\ Lost /\ turn' = failed
  BY <1>0, <1>2 DEF Lost, Unwritten
<1> QED BY <1>1, <1>2 DEF SaveRecovery

-----------------------------------------------------------------------------
(* The steps.                                                               *)

LEMMA Holds ==
    ASSUME TurnInv
    PROVE  /\ Types /\ Sound(conv) /\ conv \in Conversations /\ Pending(conv) \in CallSeqs
           /\ run \in Runs /\ disk \in Sessions /\ Sound(disk.conv)
           /\ turn \in Turns /\ turn.req \in Conversations /\ turn.todo \in CallSeqs
           /\ dirty \in BOOLEAN /\ held \in BOOLEAN /\ cancelled \in BOOLEAN
           /\ typed \in Nat /\ asked \in Nat /\ ran \in SUBSET Calls
           /\ Placed(turn, conv, run) /\ Counted(turn, open)
           /\ turn.at \notin {"idle", "answer"} => Fresh(Pending(conv), ran)
BY DEF TurnInv, Types, Sound, Once, Turns

LEMMA NewTurnKeeps == ASSUME TurnInv, NewTurn PROVE TurnInv'
<1>1. /\ turn.at = "idle" /\ typed' = typed + 1 /\ conv' = Repaired(conv)
      /\ turn' = [NoTurn EXCEPT !.at = "compact"]
      /\ UNCHANGED <<run, dirty, held, disk, cancelled, asked, ran, again, open>>
  BY DEF NewTurn, At, saved, history
<1>2. conv' \in Conversations /\ WellFormed(conv')
  BY <1>1, RepairedIs, Holds
<1>3. Sound(conv') /\ Pending(conv') = <<>>
  BY <1>2, NothingOwed
<1>4. /\ turn' \in Turns /\ turn'.at = "compact" /\ turn'.then = "open" /\ ~turn'.resumed
  BY <1>1, Records, GoesTo DEF Places
<1>5. Types'
  BY <1>1, <1>2, <1>3, <1>4, Holds DEF Types
<1>6. Placed(turn', conv', run')
  BY <1>3, <1>4 DEF Placed
<1>7. Counted(turn', open')
  BY <1>1, <1>4, Holds DEF Counted, Begun
<1>8. Within(Pending(conv'), Pending(conv)) /\ Fresh(Pending(conv'), ran)
  BY <1>3, WithinNone, NoneKeeps
<1> QED BY <1>1, <1>3, <1>4, <1>5, <1>6, <1>7, <1>8, Steps

LEMMA ResumeKeeps == ASSUME TurnInv, Resume PROVE TurnInv'
<1>1. /\ turn.at = "idle" /\ ~Finished(run) /\ run.recovery # ""
      /\ turn' = [NoTurn EXCEPT !.at = "retire", !.resumed = TRUE]
      /\ UNCHANGED <<conv, run, dirty, held, disk, cancelled, typed, asked, ran, again, open>>
  BY DEF Resume, At, saved, history, person
<1>2. turn' \in Turns /\ turn'.at = "retire" /\ turn'.then = "open" /\ turn'.resumed
  BY <1>1, Records DEF Turns, Places
<1>3. Types'
  BY <1>1, <1>2, Holds DEF Types
<1>4. Placed(turn', conv', run')
  BY <1>2 DEF Placed
<1>5. Counted(turn', open')
  BY <1>1, <1>2, Holds DEF Counted, Begun
<1>6. Fresh(Pending(conv'), ran)
  BY <1>1 DEF TurnInv, Once, Resumable
<1>7. Within(Pending(conv'), Pending(conv))
  BY <1>1, WithinSame
<1> QED BY <1>1, <1>2, <1>3, <1>4, <1>5, <1>6, <1>7, Steps

(* A place from which the point is taken back before anything else: the     *)
(* turn goes on to next, or stops.                                          *)
LEMMA RetireKeeps ==
    ASSUME TurnInv, NEW next \in Turns, NEW where \in {"ending", "finish"},
           Retire(next, where),
           UNCHANGED <<conv, cancelled, typed, asked, ran, again, open>>,
           turn.at \notin {"idle", "answer"}, next.at \notin {"idle", "answer"},
           \A r \in Runs : r.recovery = "" => Placed(next, conv, r),
           Counted(next, open),
           Counted(turn, IF where = "ending" THEN 1 ELSE 0)
    PROVE  TurnInv'
<1>1. /\ run' \in Runs /\ disk' \in Sessions /\ Sound(disk'.conv)
      /\ dirty' \in BOOLEAN /\ held' \in BOOLEAN
      /\ \/ /\ turn' = next /\ run'.recovery = ""
            /\ \/ disk' = disk /\ run' = run
               \/ disk'.conv = conv /\ ~Resumable(disk'.run)
         \/ /\ turn' = StopsAt(where, "cancel") \/ turn' = StopsAt(where, "lost")
            /\ run' = run /\ disk' = disk
  BY RetireDoes, Holds
<1>2. Fresh(Pending(conv'), ran) /\ Within(Pending(conv'), Pending(conv)) /\ conv' = conv
  BY Holds, WithinSame
<1>3. CASE /\ turn' = next /\ run'.recovery = ""
           /\ \/ disk' = disk /\ run' = run
              \/ disk'.conv = conv /\ ~Resumable(disk'.run)
  <2>1. Types'
    BY <1>1, <1>3, Holds DEF Types
  <2>2. Placed(turn', conv', run')
    BY <1>1, <1>2, <1>3
  <2>3. Counted(turn', open')
    BY <1>3
  <2> QED BY <1>1, <1>2, <1>3, <2>1, <2>2, <2>3, Steps
<1>4. CASE /\ turn' = StopsAt(where, "cancel") \/ turn' = StopsAt(where, "lost")
           /\ run' = run /\ disk' = disk
  <2>1. /\ turn' \in Turns /\ turn'.at = where
        /\ turn'.at \in {"idle", "ending", "told", "finish"}
    <3>1. \A err \in {"cancel", "lost"} :
             StopsAt(where, err) \in Turns /\ StopsAt(where, err).at = where
      BY StopsAtIs, Holds
    <3> QED BY <1>4, <3>1
  <2>2. Types'
    BY <1>1, <1>4, <2>1, Holds DEF Types
  <2>3. Placed(turn', conv', run')
    BY <2>1 DEF Placed
  <2>4. Counted(turn', open')
    <3>1. open' = IF where = "ending" THEN 1 ELSE 0
      BY Holds DEF Counted
    <3> QED BY <2>1, <3>1, StoppedPlaced
  <2> QED BY <1>2, <1>4, <2>1, <2>2, <2>3, <2>4, Steps
<1> QED BY <1>1, <1>3, <1>4

LEMMA RetireResumedKeeps == ASSUME TurnInv, RetireResumed PROVE TurnInv'
<1> DEFINE next == [turn EXCEPT !.at = "compact"]
<1>1. /\ turn.at = "retire" /\ Retire(next, "finish")
      /\ UNCHANGED <<conv, cancelled, typed, asked, ran, again, open>>
  BY DEF RetireResumed, At, history, person
<1>2. /\ next \in Turns /\ next.at = "compact" /\ next.then = turn.then
      /\ next.resumed = turn.resumed
  BY Holds, GoesTo DEF Places
<1>3. turn.then = "open" /\ turn.resumed
  BY <1>1, Holds DEF Placed
<1> HIDE DEF next
<1>4. \A r \in Runs : Placed(next, conv, r)
  BY <1>2, <1>3 DEF Placed
<1>5. Counted(next, open) /\ Counted(turn, 0)
  BY <1>1, <1>2, <1>3, Holds DEF Counted, Begun
<1> QED BY <1>1, <1>2, <1>4, <1>5, RetireKeeps

LEMMA NextOfIs ==
    ASSUME TurnInv, turn.at = "loop"
    PROVE  /\ NextOf(turn.req) \in Turns
           /\ NextOf(turn.req).at \in {"ask", "ending", "tools"}
           /\ \A r \in Runs : Placed(NextOf(turn.req), conv, r)
<1> DEFINE req == turn.req
           next == NextOf(req)
<1>1. /\ conv \in Conversations /\ Sound(conv) /\ turn \in Turns /\ turn.then = "loop"
      /\ req = conv \/ (WellFormed(conv) /\ req = Append(conv, User))
  BY Holds DEF Placed
<1>2. WellFormed(conv) => /\ WellFormed(Append(conv, User)) /\ Pending(conv) = <<>>
                          /\ Pending(Append(conv, User)) = <<>>
  <2>1. /\ User \in Messages /\ User.calls = <<>> /\ User.role # "tool"
    <3>1. <<>> \in CallSeqs
      BY Records, NothingOwed
    <3> QED BY <3>1 DEF User, Messages
  <2> QED BY <1>1, <2>1, SpeaksOn, PendingNone
<1>3. \/ /\ Pending(req) = <<>>
         /\ next = [turn EXCEPT !.at = "ask"]
      \/ next = Stops("error")
      \/ /\ Pending(req) # <<>>
         /\ next = [turn EXCEPT !.at = "tools", !.todo = Pending(req)]
  BY DEF NextOf
<1> HIDE DEF next
<1>4. CASE /\ Pending(req) = <<>> /\ next = [turn EXCEPT !.at = "ask"]
  <2>1. WellFormed(req) /\ Pending(conv) = <<>>
    BY <1>1, <1>2, <1>4, NothingOwed
  <2>2. next \in Turns /\ next.at = "ask" /\ next.req = req /\ next.then = "loop"
    BY <1>1, <1>4, GoesTo DEF Places
  <2>3. \A r \in Runs : Placed(next, conv, r)
    BY <2>1, <2>2 DEF Placed
  <2> QED BY <2>2, <2>3 DEF next
<1>5. CASE next = Stops("error")
  <2>1. next \in Turns /\ next.at = "ending"
    BY <1>1, <1>5, StopsAtIs DEF Stops
  <2>2. \A r \in Runs : Placed(next, conv, r)
    BY <2>1 DEF Placed
  <2> QED BY <2>1, <2>2 DEF next
<1>6. CASE /\ Pending(req) # <<>>
           /\ next = [turn EXCEPT !.at = "tools", !.todo = Pending(req)]
  <2>1. req = conv /\ Pending(conv) \in CallSeqs
    BY <1>1, <1>2, <1>6, Holds
  <2>2. /\ next \in Turns /\ next.at = "tools" /\ next.todo = Pending(conv)
        /\ next.then = "loop"
    BY <1>1, <1>6, <2>1 DEF Turns, Places
  <2>3. \A r \in Runs : Placed(next, conv, r)
    BY <2>2 DEF Placed
  <2> QED BY <2>2, <2>3 DEF next
<1> QED BY <1>3, <1>4, <1>5, <1>6

LEMMA LoopKeeps == ASSUME TurnInv, Loop PROVE TurnInv'
<1> DEFINE next == NextOf(turn.req)
<1>1. /\ turn.at = "loop" /\ Retire(next, "ending")
      /\ UNCHANGED <<conv, cancelled, typed, asked, ran, again, open>>
  BY DEF Loop, At, history, person
<1>2. /\ next \in Turns /\ next.at \in {"ask", "ending", "tools"}
      /\ \A r \in Runs : Placed(next, conv, r)
  BY <1>1, NextOfIs
<1> HIDE DEF next
<1>3. Counted(turn, 1) /\ Counted(next, open)
  BY <1>1, <1>2, Holds DEF Counted, Begun
<1> QED BY <1>1, <1>2, <1>3, RetireKeeps

LEMMA NextToolKeeps == ASSUME TurnInv, NextTool PROVE TurnInv'
<1> DEFINE next == [turn EXCEPT !.at = "run"]
<1>1. /\ turn.at = "tools" /\ turn.todo # <<>> /\ Retire(next, "ending")
      /\ UNCHANGED <<conv, cancelled, typed, asked, ran, again, open>>
  BY DEF NextTool, At, history, person
<1>2. next \in Turns /\ next.at = "run" /\ next.todo = turn.todo /\ next.then = turn.then
  BY Holds, GoesTo DEF Places
<1>3. turn.todo = Pending(conv) /\ turn.then = "loop"
  BY <1>1, Holds DEF Placed
<1> HIDE DEF next
<1>4. \A r \in Runs : r.recovery = "" => Placed(next, conv, r)
  BY <1>1, <1>2, <1>3 DEF Placed
<1>5. Counted(turn, 1) /\ Counted(next, open)
  BY <1>1, <1>2, Holds DEF Counted, Begun
<1> QED BY <1>1, <1>2, <1>4, <1>5, RetireKeeps

(* Steps of a turn that goes on: nothing is owed any more, or what was, and *)
(* the disk is what it was or has what is owed now.                         *)
LEMMA GoesOn ==
    ASSUME TurnInv, Types', Placed(turn', conv', run'), Counted(turn', open'),
           UNCHANGED <<ran, again, asked>>,
           turn.at \notin {"idle", "answer"}, turn'.at # "answer",
           Pending(conv') = <<>> \/ Pending(conv') = Pending(conv),
           disk' = disk \/ Pending(disk'.conv) = Pending(conv'),
           \/ Pending(conv') = <<>> \/ turn'.at = "idle" \/ run'.recovery # ""
           \/ ~Resumable(disk'.run)
           \/ disk' = disk /\ run.recovery = ""
    PROVE  TurnInv'
<1>1. Within(Pending(conv'), Pending(conv))
  BY WithinSame, WithinNone
<1>2. Fresh(Pending(conv'), ran)
  BY <1>1, WithinKeeps, Holds
<1>3. disk' = disk \/ (/\ Within(Pending(disk'.conv), Pending(conv))
                       /\ Fresh(Pending(disk'.conv), ran))
  BY <1>1, <1>2
<1> QED BY <1>1, <1>2, <1>3, Steps

LEMMA WrittenIs ==
    ASSUME NEW c, Sound(c), NEW r \in Runs, Written(c, r)
    PROVE  /\ disk' \in Sessions /\ Sound(disk'.conv)
           /\ disk'.conv = c /\ disk'.run = r
BY DEF Written, Sessions, Sound

LEMMA RunIs ==
    ASSUME NEW r \in Runs
    PROVE  /\ \A b \in BOOLEAN : /\ [r EXCEPT !.committed = b] \in Runs
                                 /\ [r EXCEPT !.committed = b].recovery = r.recovery
           /\ \A p \in {"done", "stopped"} : /\ [r EXCEPT !.phase = p] \in Runs
                                             /\ ~Resumable([r EXCEPT !.phase = p])
           /\ r.recovery = "" => ~Resumable(r)
BY DEF Runs, Resumable, Finished

LEMMA Says ==
    ASSUME NEW ms, Sound(ms), Pending(ms) = <<>>, NEW m \in {User, Reply(<<>>)}
    PROVE  /\ Append(ms, m) \in Conversations /\ WellFormed(Append(ms, m))
           /\ Sound(Append(ms, m)) /\ Pending(Append(ms, m)) = <<>>
<1>1. ms \in Conversations /\ WellFormed(ms)
  BY NothingOwed DEF Sound
<1>2. m \in Messages /\ m.calls = <<>> /\ m.role # "tool"
  <2>1. <<>> \in CallSeqs
    BY DEF CallSeqs
  <2>2. User \in Messages /\ Reply(<<>>) \in Messages
    BY <2>1 DEF User, Reply, Messages
  <2>3. /\ User.calls = <<>> /\ User.role = "user"
        /\ Reply(<<>>).calls = <<>> /\ Reply(<<>>).role = "assistant"
    BY DEF User, Reply
  <2>4. m = User \/ m = Reply(<<>>)
    OBVIOUS
  <2> QED BY <2>2, <2>3, <2>4
<1>3. Append(ms, m) \in Conversations /\ WellFormed(Append(ms, m))
  BY <1>1, <1>2, SpeaksOn
<1> QED BY <1>3, NothingOwed

LEMMA CompactKeeps == ASSUME TurnInv, Compact PROVE TurnInv'
<1>1. /\ turn.at = "compact" /\ turn' = [turn EXCEPT !.at = turn.then, !.req = conv']
      /\ UNCHANGED <<run, dirty, held, cancelled, typed, asked, ran, again, open>>
      /\ \/ UNCHANGED <<conv, disk>>
         \/ conv' \in Compacted(conv) /\ Written(conv', run)
  BY DEF Compact, At, history, person
<1>2. \/ UNCHANGED <<conv, disk>>
      \/ /\ conv' \in Conversations /\ WellFormed(conv')
         /\ Pending(conv') = <<>> /\ Sound(conv')
         /\ disk' \in Sessions /\ Sound(disk'.conv) /\ disk'.conv = conv'
  <2>1. CASE conv' \in Compacted(conv) /\ Written(conv', run)
    <3>1. conv' \in Conversations /\ WellFormed(conv')
      BY <2>1, CompactedIs, Holds
    <3>2. Pending(conv') = <<>> /\ Sound(conv')
      BY <3>1, NothingOwed
    <3> QED BY <2>1, <3>1, <3>2, WrittenIs, Holds
  <2> QED BY <1>1, <2>1
<1>3. conv' \in Conversations /\ Sound(conv') /\ disk' \in Sessions /\ Sound(disk'.conv)
  BY <1>2, Holds
<1>4. /\ turn' \in Turns /\ turn'.at = turn.then /\ turn'.then = turn.then
      /\ turn.then \in {"open", "loop"} /\ turn'.req = conv' /\ turn'.resumed = turn.resumed
  BY <1>1, <1>3, Holds DEF Turns, Places
<1>5. Types'
  BY <1>1, <1>3, <1>4, Holds DEF Types
<1>6. turn.then = "loop" \/ ~turn.resumed => Pending(conv) = <<>>
  BY <1>1, Holds DEF Placed
<1>7. Placed(turn', conv', run')
  BY <1>2, <1>4, <1>6 DEF Placed
<1>8. Counted(turn', open')
  BY <1>1, <1>4, Holds DEF Counted, Begun
<1> QED BY <1>1, <1>2, <1>4, <1>5, <1>7, <1>8, GoesOn

LEMMA OpenNewKeeps == ASSUME TurnInv, OpenNew PROVE TurnInv'
<1>1. /\ turn.at = "open" /\ ~turn.resumed /\ conv' = Append(conv, User)
      /\ run' = [NoRun EXCEPT !.phase = "direct", !.input = typed]
      /\ dirty' = (dirty \/ ~held) /\ open' = open + 1
      /\ turn' = [turn EXCEPT !.at = "loop", !.then = "loop", !.req = conv']
      /\ UNCHANGED <<held, disk, cancelled, typed, asked, ran, again>>
  BY DEF OpenNew, At, history, person, Marked
<1>2. Pending(conv) = <<>>
  BY <1>1, Holds DEF Placed
<1>3. conv' \in Conversations /\ Sound(conv') /\ Pending(conv') = <<>>
  BY <1>1, <1>2, Says, Holds
<1>4. turn' \in Turns /\ turn'.at = "loop" /\ turn'.then = "loop" /\ turn'.req = conv'
  BY <1>1, <1>3, Holds DEF Turns, Places
<1>5. run' \in Runs
  BY <1>1, Holds DEF NoRun, Runs
<1>6. Types'
  BY <1>1, <1>3, <1>4, <1>5, Holds DEF Types
<1>7. Placed(turn', conv', run')
  BY <1>4 DEF Placed
<1>8. Counted(turn', open')
  BY <1>1, <1>4, Holds DEF Counted, Begun
<1> QED BY <1>1, <1>3, <1>4, <1>6, <1>7, <1>8, GoesOn

LEMMA OpenResumedKeeps == ASSUME TurnInv, OpenResumed PROVE TurnInv'
<1>1. /\ turn.at = "open" /\ turn.resumed /\ open' = open + 1
      /\ turn' = [turn EXCEPT !.at = IF Shown THEN "ending" ELSE "loop",
                              !.then = "loop", !.req = conv,
                              !.rounds = run.rounds, !.seen = run.seen]
      /\ UNCHANGED <<conv, run, dirty, held, disk, cancelled, typed, asked, ran, again>>
  BY DEF OpenResumed, At, history, person, saved
<1>2. run.rounds \in Nat /\ run.seen \in Nat
  BY Holds DEF Runs
<1>3. turn' \in Turns /\ turn'.at \in {"ending", "loop"} /\ turn'.then = "loop" /\ turn'.req = conv'
  BY <1>1, <1>2, Holds DEF Turns, Places
<1>4. Types'
  BY <1>1, <1>3, Holds DEF Types
<1>5. Placed(turn', conv', run')
  BY <1>3 DEF Placed
<1>6. Counted(turn', open')
  <2>1. open = 0
    <3>1. ~Begun(turn)
      BY <1>1 DEF Begun
    <3> QED BY <3>1, Holds DEF Counted
  <2> QED BY <1>1, <1>3, <2>1 DEF Counted, Begun
<1>7. run'.recovery = run.recovery
  BY <1>1
<1> QED BY <1>1, <1>3, <1>4, <1>5, <1>6, <1>7, GoesOn

LEMMA RefusedKeeps == ASSUME TurnInv, Refused PROVE TurnInv'
<1>1. /\ turn.at = "ask" /\ run' = [run EXCEPT !.committed = FALSE]
      /\ turn' = Stops("cancel") \/ turn' = Stops("limit") \/ turn' = Stops("error")
      /\ UNCHANGED <<conv, dirty, held, disk, cancelled, typed, asked, ran, again, open>>
  BY DEF Refused, At, history, person, InFlight
<1>2. turn' \in Turns /\ turn'.at = "ending"
  BY <1>1, StopsAtIs, Holds DEF Stops
<1>3. run' \in Runs /\ run'.recovery = run.recovery /\ Pending(conv) = <<>>
  BY <1>1, RunIs, Holds DEF Placed
<1>4. Types'
  BY <1>1, <1>2, <1>3, Holds DEF Types
<1>5. Placed(turn', conv', run')
  BY <1>2 DEF Placed
<1>6. Counted(turn', open')
  BY <1>1, <1>2, Holds DEF Counted, Begun
<1> QED BY <1>1, <1>2, <1>3, <1>4, <1>5, <1>6, GoesOn

LEMMA TooLongKeeps == ASSUME TurnInv, TooLong PROVE TurnInv'
<1>1. /\ turn.at = "ask" /\ run' = [run EXCEPT !.committed = FALSE]
      /\ \/ /\ turn' = [Stops("error") EXCEPT !.over = TRUE]
            /\ UNCHANGED <<conv, disk>>
         \/ /\ conv' \in Compacted(conv) /\ Written(conv', run)
            /\ turn' = [turn EXCEPT !.at = "loop", !.over = TRUE, !.req = conv']
      /\ UNCHANGED <<dirty, held, cancelled, typed, asked, ran, again, open>>
  BY DEF TooLong, At, history, person, InFlight
<1>2. run' \in Runs /\ Pending(conv) = <<>> /\ turn.then = "loop"
  BY <1>1, RunIs, Holds DEF Placed
<1>3. CASE turn' = [Stops("error") EXCEPT !.over = TRUE] /\ UNCHANGED <<conv, disk>>
  <2>1. Stops("error") \in Turns /\ Stops("error").at = "ending"
    BY StopsAtIs, Holds DEF Stops
  <2>2. turn' \in Turns /\ turn'.at = "ending"
    BY <1>3, <2>1 DEF Turns
  <2>3. Types'
    BY <1>1, <1>2, <1>3, <2>2, Holds DEF Types
  <2>4. Placed(turn', conv', run')
    BY <2>2 DEF Placed
  <2>5. Counted(turn', open')
    BY <1>1, <2>2, Holds DEF Counted, Begun
  <2> QED BY <1>1, <1>2, <1>3, <2>2, <2>3, <2>4, <2>5, GoesOn
<1>4. CASE /\ conv' \in Compacted(conv) /\ Written(conv', run)
           /\ turn' = [turn EXCEPT !.at = "loop", !.over = TRUE, !.req = conv']
  <2>1. conv' \in Conversations /\ WellFormed(conv')
    BY <1>4, CompactedIs, Holds
  <2>2. Pending(conv') = <<>> /\ Sound(conv')
    BY <2>1, NothingOwed
  <2>3. disk' \in Sessions /\ Sound(disk'.conv) /\ disk'.conv = conv'
    BY <1>4, <2>2, WrittenIs, Holds
  <2>4. turn' \in Turns /\ turn'.at = "loop" /\ turn'.then = "loop" /\ turn'.req = conv'
    BY <1>2, <1>4, <2>1, Holds DEF Turns, Places
  <2>5. Types'
    BY <1>1, <1>2, <2>2, <2>3, <2>4, Holds DEF Types
  <2>6. Placed(turn', conv', run')
    BY <2>4 DEF Placed
  <2>7. Counted(turn', open')
    BY <1>1, <2>4, Holds DEF Counted, Begun
  <2> QED BY <1>1, <2>2, <2>3, <2>4, <2>5, <2>6, <2>7, GoesOn
<1> QED BY <1>1, <1>3, <1>4

LEMMA EmptyKeeps == ASSUME TurnInv, Empty PROVE TurnInv'
<1>1. /\ turn.at = "ask" /\ run' = [run EXCEPT !.committed = FALSE]
      /\ \/ turn' = Stops("error")
         \/ turn' = [turn EXCEPT !.at = "loop", !.empties = 1, !.over = FALSE,
                                 !.req = Append(conv, User)]
      /\ UNCHANGED <<conv, dirty, held, disk, cancelled, typed, asked, ran, again, open>>
  BY DEF Empty, At, history, person, InFlight
<1>2. run' \in Runs /\ Pending(conv) = <<>> /\ turn.then = "loop"
  BY <1>1, RunIs, Holds DEF Placed
<1>3. Append(conv, User) \in Conversations /\ WellFormed(conv)
  BY <1>2, Says, NothingOwed, Holds
<1>4. /\ turn' \in Turns
      /\ \/ turn'.at = "ending"
         \/ turn'.at = "loop" /\ turn'.then = "loop" /\ turn'.req = Append(conv, User)
  <2>1. CASE turn' = Stops("error")
    BY <2>1, StopsAtIs, Holds DEF Stops
  <2>2. CASE turn' = [turn EXCEPT !.at = "loop", !.empties = 1, !.over = FALSE,
                                  !.req = Append(conv, User)]
    BY <1>2, <1>3, <2>2, Holds DEF Turns, Places
  <2> QED BY <1>1, <2>1, <2>2
<1>5. Types'
  BY <1>1, <1>2, <1>4, Holds DEF Types
<1>6. Placed(turn', conv', run')
  BY <1>1, <1>3, <1>4 DEF Placed
<1>7. Counted(turn', open')
  BY <1>1, <1>4, Holds DEF Counted, Begun
<1> QED BY <1>1, <1>2, <1>4, <1>5, <1>6, <1>7, GoesOn

LEMMA FinalKeeps == ASSUME TurnInv, Final PROVE TurnInv'
<1> DEFINE r == [run EXCEPT !.committed = TRUE]
<1>1. /\ turn.at = "ask" /\ conv' = Append(conv, Reply(<<>>))
      /\ \/ /\ run' = r /\ dirty' = (dirty \/ ~held)
            /\ turn' = Stops("ok") /\ UNCHANGED <<held, disk>>
         \/ SaveRecovery(conv', r, "error", Stops("ok"), Stops("lost"))
      /\ UNCHANGED <<cancelled, typed, asked, ran, again, open>>
  BY DEF Final, At, history, person, Marked
<1>2. r \in Runs /\ Pending(conv) = <<>>
  BY <1>1, RunIs, Holds DEF Placed
<1>3. Sound(conv') /\ Pending(conv') = <<>>
  BY <1>1, <1>2, Says, Holds
<1> HIDE DEF r
<1>4. /\ run' \in Runs /\ disk' \in Sessions /\ Sound(disk'.conv)
      /\ dirty' \in BOOLEAN /\ held' \in BOOLEAN
      /\ turn' = Stops("ok") \/ turn' = Stops("lost")
      /\ disk' = disk \/ disk'.conv = conv'
  <2>1. CASE /\ run' = r /\ dirty' = (dirty \/ ~held)
             /\ turn' = Stops("ok") /\ UNCHANGED <<held, disk>>
    BY <1>2, <2>1, Holds
  <2>2. ASSUME NEW c, c = conv', SaveRecovery(c, r, "error", Stops("ok"), Stops("lost"))
        PROVE  /\ run' \in Runs /\ disk' \in Sessions /\ Sound(disk'.conv)
               /\ dirty' \in BOOLEAN /\ held' \in BOOLEAN
               /\ turn' = Stops("ok") \/ turn' = Stops("lost")
               /\ disk' = disk \/ disk'.conv = conv'
    BY <1>2, <1>3, <2>2, SaveDoes, Holds
  <2> QED BY <1>1, <2>1, <2>2
<1>5. turn' \in Turns /\ turn'.at = "ending"
  BY <1>4, StopsAtIs, Holds DEF Stops
<1>6. Types'
  BY <1>1, <1>3, <1>4, <1>5, Holds DEF Types
<1>7. Placed(turn', conv', run')
  BY <1>5 DEF Placed
<1>8. Counted(turn', open')
  BY <1>1, <1>5, Holds DEF Counted, Begun
<1> QED BY <1>1, <1>3, <1>4, <1>5, <1>6, <1>7, <1>8, GoesOn

LEMMA RepeatsKeeps == ASSUME TurnInv, Repeats PROVE TurnInv'
<1>1. /\ turn.at = "run" /\ turn' = Stops("error")
      /\ UNCHANGED <<conv, run, dirty, held, disk, cancelled, typed, asked, ran, again, open>>
  BY DEF Repeats, At, history, person, saved
<1>2. turn' \in Turns /\ turn'.at = "ending"
  BY <1>1, StopsAtIs, Holds DEF Stops
<1>3. run.recovery = ""
  BY <1>1, Holds DEF Placed
<1>4. Types'
  BY <1>1, <1>2, Holds DEF Types
<1>5. Placed(turn', conv', run')
  BY <1>2 DEF Placed
<1>6. Counted(turn', open')
  BY <1>1, <1>2, Holds DEF Counted, Begun
<1> QED BY <1>1, <1>2, <1>3, <1>4, <1>5, <1>6, GoesOn

LEMMA RoundEndsKeeps == ASSUME TurnInv, RoundEnds PROVE TurnInv'
<1>1. /\ turn.at = "tools" /\ turn.todo = <<>> /\ run' = [run EXCEPT !.committed = FALSE]
      /\ \/ dirty' = FALSE /\ (Written(conv, run') \/ UNCHANGED disk)
         \/ dirty' = (dirty \/ ~held) /\ UNCHANGED disk
      /\ turn' = [turn EXCEPT !.at = "compact"]
      /\ UNCHANGED <<conv, held, cancelled, typed, asked, ran, again, open>>
  BY DEF RoundEnds, At, Goes, history, person, Marked, Unwritten
<1>2. run' \in Runs /\ turn.then = "loop" /\ Pending(conv) = <<>>
  BY <1>1, RunIs, Holds DEF Placed
<1>3. turn' \in Turns /\ turn'.at = "compact" /\ turn'.then = "loop"
  BY <1>1, <1>2, GoesTo, Holds DEF Places
<1>4. disk' = disk \/ (disk' \in Sessions /\ Sound(disk'.conv) /\ disk'.conv = conv)
  <2>1. ASSUME NEW r, r = run', Written(conv, r)
        PROVE  disk' \in Sessions /\ Sound(disk'.conv) /\ disk'.conv = conv
    BY <1>2, <2>1, WrittenIs, Holds
  <2> QED BY <1>1, <2>1
<1>5. Types'
  BY <1>1, <1>2, <1>3, <1>4, Holds DEF Types
<1>6. Placed(turn', conv', run')
  BY <1>1, <1>2, <1>3 DEF Placed
<1>7. Counted(turn', open')
  BY <1>1, <1>3, Holds DEF Counted, Begun
<1> QED BY <1>1, <1>2, <1>3, <1>4, <1>5, <1>6, <1>7, GoesOn

LEMMA KeptIs == ASSUME TurnInv PROVE Kept \in Runs /\ Kept.recovery = run.recovery
BY Holds DEF Kept, Runs, Turns

(* However a turn ends, its journal is as it was, or is saved with what the *)
(* session holds.                                                           *)
LEMMA EndsWith ==
    ASSUME TurnInv, turn.at = "ending", NEW next \in Turns,
           next.at \in {"told", "finish"}, turn' = next, Counted(next, open'),
           UNCHANGED <<conv, cancelled, typed, asked, ran, again>>,
           dirty' \in BOOLEAN, held' \in BOOLEAN, disk' \in Sessions,
           run' \in Runs, Sound(disk'.conv),
           \/ run'.recovery # "" /\ disk'.conv = conv
           \/ run'.recovery = run.recovery /\ disk' = disk
    PROVE  TurnInv'
<1>1. Types'
  BY Holds DEF Types
<1>2. Placed(turn', conv', run')
  BY DEF Placed
<1> QED BY <1>1, <1>2, GoesOn

LEMMA EndsKeeps == ASSUME TurnInv, Ends PROVE TurnInv'
<1> DEFINE lost == [turn EXCEPT !.at = "told", !.err = "lost"]
           paused == [turn EXCEPT !.at = "finish", !.err = "paused"]
           told == [turn EXCEPT !.at = "told"]
<1>1. /\ turn.at = "ending"
      /\ \/ /\ SaveRecovery(conv, Kept, "pause", paused, lost)
            /\ open' = IF turn'.err = "lost" THEN open ELSE open - 1
         \/ /\ SaveRecovery(conv, Kept, "error", told, lost)
            /\ UNCHANGED open
         \/ /\ run' = Kept /\ turn' = told
            /\ UNCHANGED <<dirty, held, disk, open>>
      /\ UNCHANGED <<conv, cancelled, typed, asked, ran, again>>
  BY DEF Ends, Paused, At, Goes, history, person
<1>2. /\ lost \in Turns /\ lost.at = "told" /\ lost.err = "lost"
      /\ paused \in Turns /\ paused.at = "finish" /\ paused.err = "paused"
      /\ told \in Turns /\ told.at = "told"
  BY Holds DEF Turns, Places
<1>3. open = 1
  BY <1>1, Holds DEF Counted, Begun
<1> HIDE DEF lost, paused, told
<1>4. Counted(lost, 1) /\ Counted(told, 1) /\ Counted(paused, 0)
  BY <1>2 DEF Counted, Begun
<1>5. Kept \in Runs /\ Kept.recovery = run.recovery /\ Sound(conv) /\ Types
  BY KeptIs, Holds
<1>6. ASSUME SaveRecovery(conv, Kept, "pause", paused, lost),
             open' = IF turn'.err = "lost" THEN open ELSE open - 1
      PROVE  TurnInv'
  <2>1. /\ run' \in Runs /\ disk' \in Sessions /\ Sound(disk'.conv)
        /\ dirty' \in BOOLEAN /\ held' \in BOOLEAN
        /\ \/ turn' = paused /\ run'.recovery # "" /\ disk'.conv = conv
           \/ turn' = lost /\ run' = Kept /\ disk' = disk
    BY <1>5, <1>6, SaveDoes
  <2>2. CASE turn' = paused /\ run'.recovery # "" /\ disk'.conv = conv
    <3>1. turn'.err # "lost"
      BY <1>2, <2>2
    <3>2. open' = open - 1
      BY <1>6, <3>1
    <3>3. open' = 0
      BY <1>3, <3>2
    <3> QED BY <1>1, <1>2, <1>4, <2>1, <2>2, <3>3, EndsWith
  <2>3. CASE turn' = lost /\ run' = Kept /\ disk' = disk
    <3>1. open' = 1
      BY <1>2, <1>3, <1>6, <2>3
    <3> QED BY <1>1, <1>2, <1>4, <1>5, <2>1, <2>3, <3>1, EndsWith
  <2> QED BY <2>1, <2>2, <2>3
<1>7. ASSUME SaveRecovery(conv, Kept, "error", told, lost), open' = open
      PROVE  TurnInv'
  <2>1. /\ run' \in Runs /\ disk' \in Sessions /\ Sound(disk'.conv)
        /\ dirty' \in BOOLEAN /\ held' \in BOOLEAN
        /\ \/ turn' = told /\ run'.recovery # "" /\ disk'.conv = conv
           \/ turn' = lost /\ run' = Kept /\ disk' = disk
    BY <1>5, <1>7, SaveDoes
  <2>2. CASE turn' = told /\ run'.recovery # "" /\ disk'.conv = conv
    BY <1>1, <1>2, <1>3, <1>4, <1>7, <2>1, <2>2, EndsWith
  <2>3. CASE turn' = lost /\ run' = Kept /\ disk' = disk
    BY <1>1, <1>2, <1>3, <1>4, <1>5, <1>7, <2>1, <2>3, EndsWith
  <2> QED BY <2>1, <2>2, <2>3
<1>8. ASSUME run' = Kept, turn' = told, UNCHANGED <<dirty, held, disk, open>>
      PROVE  TurnInv'
  <2>1. /\ run' \in Runs /\ disk' \in Sessions /\ Sound(disk'.conv)
        /\ dirty' \in BOOLEAN /\ held' \in BOOLEAN
    BY <1>5, <1>8, Holds
  <2> QED BY <1>1, <1>2, <1>3, <1>4, <1>5, <1>8, <2>1, EndsWith
<1> QED BY <1>1, <1>6, <1>7, <1>8

LEMMA ToldKeeps == ASSUME TurnInv, Told PROVE TurnInv'
<1>1. /\ turn.at = "told" /\ open' = open - 1 /\ turn' = [turn EXCEPT !.at = "finish"]
      /\ UNCHANGED <<conv, run, dirty, held, disk, cancelled, typed, asked, ran, again>>
  BY DEF Told, Ended, At, Goes, history, person, saved
<1>2. turn' \in Turns /\ turn'.at = "finish"
  BY <1>1, GoesTo, Holds DEF Places
<1>3. Types'
  BY <1>1, <1>2, Holds DEF Types
<1>4. Placed(turn', conv', run')
  BY <1>2 DEF Placed
<1>5. Counted(turn', open')
  BY <1>1, <1>2, Holds DEF Counted, Begun
<1>6. Pending(conv') = Pending(conv) /\ disk' = disk /\ run'.recovery = run.recovery
  BY <1>1
<1> QED BY <1>1, <1>2, <1>3, <1>4, <1>5, <1>6, GoesOn

LEMMA ClosedIs ==
    ASSUME run \in Runs
    PROVE  /\ Closed \in Runs
           /\ Closed.recovery = run.recovery
BY DEF Closed, Runs

LEMMA FinishKeeps == ASSUME TurnInv, Finish PROVE TurnInv'
<1>1. /\ turn.at = "finish" /\ run' = Closed /\ turn' = NoTurn
      /\ dirty' = FALSE /\ held' = FALSE /\ cancelled' = FALSE
      /\ disk' = disk \/ Written(conv, run')
      /\ UNCHANGED <<conv, typed, asked, ran, again, open>>
  BY DEF Finish, At, history, person, Unwritten
<1>2. run' \in Runs /\ turn' \in Turns /\ turn'.at = "idle"
  BY <1>1, ClosedIs, Records, Holds
<1>3. disk' = disk \/ (disk' \in Sessions /\ Sound(disk'.conv) /\ disk'.conv = conv)
  <2>1. ASSUME NEW r, r = run', Written(conv, r)
        PROVE  disk' \in Sessions /\ Sound(disk'.conv) /\ disk'.conv = conv
    BY <1>2, <2>1, WrittenIs, Holds
  <2> QED BY <1>1, <2>1
<1>4. Types'
  BY <1>1, <1>2, <1>3, Holds DEF Types
<1>5. Placed(turn', conv', run')
  BY <1>2 DEF Placed
<1>6. Counted(turn', open')
  BY <1>1, <1>2, Holds DEF Counted, Begun
<1> QED BY <1>1, <1>2, <1>3, <1>4, <1>5, <1>6, GoesOn

LEMMA SettledIs ==
    ASSUME TurnInv, turn.at = "answer"
    PROVE  /\ Settled \in Turns /\ Settled.at = "tools" /\ Settled.then = "loop"
           /\ Settled.todo = Tail(turn.todo) /\ Settled.seen \in Nat
<1>1. /\ turn.todo \in CallSeqs /\ turn.todo # <<>> /\ turn.then = "loop" /\ turn \in Turns
  BY Holds DEF Placed
<1>2. Tail(turn.todo) \in CallSeqs
  BY <1>1, TailIs
<1>3. turn.seen \in Nat
  BY <1>1 DEF Turns
<1>4. (IF turn.seen = 2 THEN 1 ELSE turn.seen + 1) \in Nat
  BY <1>3
<1>5. Settled = [turn EXCEPT !.at = "tools", !.todo = Tail(turn.todo),
                             !.seen = IF turn.seen = 2 THEN 1 ELSE turn.seen + 1]
  BY DEF Settled
<1> HIDE DEF Settled
<1> DEFINE seen == IF turn.seen = 2 THEN 1 ELSE turn.seen + 1
<1>6. Settled = [turn EXCEPT !.at = "tools", !.todo = Tail(turn.todo), !.seen = seen]
  BY <1>5
<1>7. seen \in Nat
  BY <1>4
<1> HIDE DEF seen
<1> QED BY <1>1, <1>2, <1>6, <1>7 DEF Turns, Places

(* A call that has run is answered, and what is owed is the rest.           *)
LEMMA AnswerKeeps ==
    ASSUME TurnInv, turn.at = "answer",
           conv' = Append(conv, Result(Head(turn.todo))),
           Types', turn'.at \in {"tools", "ending"},
           turn'.at = "tools" => turn'.then = "loop" /\ turn'.todo = Tail(turn.todo),
           UNCHANGED <<ran, again, asked, open>>,
           \/ run'.recovery # "" /\ disk'.conv = conv'
           \/ disk' = disk
    PROVE  TurnInv'
<1>1. /\ turn.todo = Pending(conv) /\ turn.todo # <<>> /\ run.recovery = ""
      /\ turn.todo \in CallSeqs /\ Sound(conv) /\ conv \in Conversations
  BY Holds DEF Placed
<1>2. Owing(conv, turn.todo)
  BY <1>1 DEF Sound
<1>3. Pending(conv') = Tail(turn.todo)
  BY <1>1, <1>2, AnswersOne
<1>4. Within(Pending(conv'), Pending(conv))
  BY <1>1, <1>3, WithinTail
<1>5. Fresh(Pending(conv'), ran)
  BY <1>1, <1>3 DEF TurnInv, Once
<1>6. Placed(turn', conv', run')
  BY <1>3 DEF Placed
<1>7. Counted(turn', open')
  BY Holds DEF Counted, Begun
<1>8. disk' = disk \/ (/\ Within(Pending(disk'.conv), Pending(conv))
                       /\ Fresh(Pending(disk'.conv), ran))
  BY <1>4, <1>5
<1> QED BY <1>1, <1>4, <1>5, <1>6, <1>7, <1>8, Steps

LEMMA AnswerSound ==
    ASSUME TurnInv, turn.at = "answer"
    PROVE  Sound(Append(conv, Result(Head(turn.todo))))
<1>1. /\ turn.todo = Pending(conv) /\ turn.todo # <<>>
      /\ turn.todo \in CallSeqs /\ Sound(conv) /\ conv \in Conversations
  BY Holds DEF Placed
<1>2. Owing(conv, turn.todo)
  BY <1>1 DEF Sound
<1> QED BY <1>1, <1>2, AnswersOne

LEMMA RanKeeps == ASSUME TurnInv, Ran PROVE TurnInv'
<1>1. /\ turn.at = "answer" /\ conv' = Append(conv, Result(Head(turn.todo)))
      /\ turn' = Settled /\ dirty' = (dirty \/ ~held)
      /\ UNCHANGED <<run, held, disk, cancelled, typed, asked, ran, again, open>>
  BY DEF Ran, At, history, person, Marked
<1>2. /\ turn' \in Turns /\ turn'.at = "tools" /\ turn'.then = "loop"
      /\ turn'.todo = Tail(turn.todo)
  BY <1>1, SettledIs
<1>3. Sound(conv')
  BY <1>1, AnswerSound
<1>4. Types'
  BY <1>1, <1>2, <1>3, Holds DEF Types
<1> QED BY <1>1, <1>2, <1>4, AnswerKeeps

LEMMA FailedKeeps == ASSUME TurnInv, Failed PROVE TurnInv'
<1> DEFINE r == [run EXCEPT !.committed = FALSE, !.rounds = turn.rounds, !.seen = Settled.seen]
           stop(err) == [Settled EXCEPT !.at = "ending", !.err = err]
<1>1. /\ turn.at = "answer" /\ conv' = Append(conv, Result(Head(turn.todo)))
      /\ \/ /\ turn' = stop("cancel")
            /\ dirty' = (dirty \/ ~held) /\ UNCHANGED <<run, held, disk>>
         \/ SaveRecovery(conv', r, "error", Settled, stop("lost"))
      /\ UNCHANGED <<cancelled, typed, asked, ran, again, open>>
  BY DEF Failed, At, history, person, Marked
<1>2. /\ Settled \in Turns /\ Settled.at = "tools" /\ Settled.then = "loop"
      /\ Settled.todo = Tail(turn.todo) /\ Settled.seen \in Nat
  BY <1>1, SettledIs
<1>3. r \in Runs
  BY <1>2, Holds DEF Runs, Turns
<1>4. \A err \in {"cancel", "lost"} : stop(err) \in Turns /\ stop(err).at = "ending"
  BY <1>2 DEF Turns, Places
<1> HIDE DEF r, stop
<1>5. Sound(conv')
  BY <1>1, AnswerSound
<1>6. CASE /\ turn' = stop("cancel")
           /\ dirty' = (dirty \/ ~held) /\ UNCHANGED <<run, held, disk>>
  <2>1. Types'
    BY <1>1, <1>4, <1>5, <1>6, Holds DEF Types
  <2> QED BY <1>1, <1>4, <1>6, <2>1, AnswerKeeps
<1>7. ASSUME SaveRecovery(conv', r, "error", Settled, stop("lost")) PROVE TurnInv'
  <2>1. ASSUME NEW c, c = conv', SaveRecovery(c, r, "error", Settled, stop("lost"))
        PROVE  /\ run' \in Runs /\ disk' \in Sessions /\ Sound(disk'.conv)
               /\ dirty' \in BOOLEAN /\ held' \in BOOLEAN
               /\ \/ turn' = Settled /\ run'.recovery # "" /\ disk'.conv = c
                  \/ turn' = stop("lost") /\ disk' = disk
    BY <1>3, <1>5, <2>1, SaveDoes, Holds
  <2>2. /\ run' \in Runs /\ disk' \in Sessions /\ Sound(disk'.conv)
        /\ dirty' \in BOOLEAN /\ held' \in BOOLEAN
        /\ \/ turn' = Settled /\ run'.recovery # "" /\ disk'.conv = conv'
           \/ turn' = stop("lost") /\ disk' = disk
    BY <1>7, <2>1
  <2>3. Types'
    BY <1>1, <1>2, <1>4, <1>5, <2>2, Holds DEF Types
  <2> QED BY <1>1, <1>2, <1>4, <2>2, <2>3, AnswerKeeps
<1> QED BY <1>1, <1>6, <1>7

(* A reply's calls are new: their number is no other's.                     *)
LEMMA NewCalls ==
    ASSUME NEW ids \in Rounds, NEW no \in Nat, NEW calls,
           calls = [k \in DOMAIN ids |-> [no |-> no, id |-> ids[k]]]
    PROVE  calls \in CallSeqs /\ \A k \in DOMAIN calls : calls[k].no = no
<1>1. /\ ids \in Seq(STRING) /\ \A a, b \in DOMAIN ids : ids[a] = ids[b] => a = b
  BY RoundsAssumption DEF IsInjective
<1>2. /\ DOMAIN ids = 1..Len(ids) /\ Len(ids) \in Nat
      /\ \A k \in 1..Len(ids) : ids[k] \in STRING
  BY <1>1
<1>3. /\ DOMAIN calls = 1..Len(ids)
      /\ \A k \in 1..Len(ids) : calls[k] = [no |-> no, id |-> ids[k]]
  BY <1>2
<1>4. \A k \in 1..Len(ids) : calls[k] \in Calls /\ calls[k].no = no /\ calls[k].id = ids[k]
  BY <1>2, <1>3 DEF Calls
<1>5. calls = [k \in 1..Len(ids) |-> calls[k]]
  BY <1>2
<1>6. calls \in Seq(Calls)
  BY <1>2, <1>4, <1>5
<1> QED BY <1>1, <1>2, <1>3, <1>4, <1>6 DEF CallSeqs

LEMMA CallsAre ==
    ASSUME NEW cs \in CallSeqs
    PROVE  /\ Len(cs) \in Nat /\ DOMAIN cs = 1..Len(cs)
           /\ \A k \in 1..Len(cs) : cs[k] \in Calls /\ cs[k].no \in Nat
           /\ \A a, b \in 1..Len(cs) : cs[a].id = cs[b].id => a = b
<1>1. /\ cs \in Seq(Calls) /\ Len(cs) \in Nat /\ DOMAIN cs = 1..Len(cs)
      /\ \A a, b \in DOMAIN cs : cs[a].id = cs[b].id => a = b
  BY DEF CallSeqs
<1>2. \A k \in 1..Len(cs) : cs[k] \in Calls
  BY <1>1
<1> QED BY <1>1, <1>2 DEF Calls

LEMMA WithCallsKeeps == ASSUME TurnInv, WithCalls PROVE TurnInv'
<1> DEFINE next == [turn EXCEPT !.empties = 0, !.over = FALSE, !.rounds = @ + 1]
<1>1. /\ turn.at = "ask" /\ asked' = asked + 1
      /\ run' = [run EXCEPT !.committed = TRUE]
      /\ dirty' = (dirty \/ ~held)
      /\ UNCHANGED <<held, disk, cancelled, typed, ran, again, open>>
  BY DEF WithCalls, At, history, person, Marked
<1>0. PICK ids \in Rounds : \E calls :
        /\ calls = [k \in DOMAIN ids |-> [no |-> asked', id |-> ids[k]]]
        /\ conv' = Append(conv, Reply(calls))
        /\ \/ turn' = [next EXCEPT !.at = "ending", !.err = "error"]
           \/ turn' = [next EXCEPT !.at = "tools", !.todo = calls]
  BY DEF WithCalls
<1>2. PICK calls :
        /\ calls = [k \in DOMAIN ids |-> [no |-> asked', id |-> ids[k]]]
        /\ conv' = Append(conv, Reply(calls))
        /\ \/ turn' = [next EXCEPT !.at = "ending", !.err = "error"]
           \/ turn' = [next EXCEPT !.at = "tools", !.todo = calls]
  BY <1>0
<1>3. /\ Pending(conv) = <<>> /\ turn.then = "loop" /\ turn \in Turns /\ asked \in Nat
      /\ conv \in Conversations /\ WellFormed(conv) /\ run \in Runs
  BY <1>1, Holds, NothingOwed DEF Placed
<1>4. calls \in CallSeqs /\ \A k \in DOMAIN calls : calls[k].no = asked + 1
  <2>1. asked + 1 \in Nat
    BY <1>3
  <2>2. calls = [k \in DOMAIN ids |-> [no |-> asked + 1, id |-> ids[k]]]
    BY <1>1, <1>2
  <2> QED BY <2>1, <2>2, NewCalls
<1>5. Sound(conv') /\ Pending(conv') = calls
  BY <1>2, <1>3, <1>4, AsksTools
<1>6. next \in Turns /\ next.then = "loop"
  <2> DEFINE more == turn.rounds + 1
  <2>1. more \in Nat
    BY <1>3 DEF Turns
  <2>2. next = [turn EXCEPT !.empties = 0, !.over = FALSE, !.rounds = more]
    OBVIOUS
  <2> HIDE DEF more
  <2> QED BY <1>3, <2>1, <2>2 DEF Turns
<1> HIDE DEF next
<1>7. /\ turn' \in Turns /\ turn'.then = "loop" /\ turn'.at \in {"ending", "tools"}
      /\ turn'.at = "tools" => turn'.todo = calls
  BY <1>2, <1>4, <1>6 DEF Turns, Places
<1>8. run' \in Runs
  BY <1>1, <1>3, RunIs
<1>9. Types'
  BY <1>1, <1>5, <1>7, <1>8, Holds DEF Types
<1>10. Placed(turn', conv', run')
  BY <1>5, <1>7 DEF Placed
<1>11. Counted(turn', open')
  BY <1>1, <1>7, Holds DEF Counted, Begun
<1>12. /\ UpTo(Pending(disk.conv), asked) /\ \A x \in ran : x.no <= asked /\ x.no \in Nat
       /\ Pending(disk.conv) \in CallSeqs
       /\ Resumable(disk.run) => Fresh(Pending(disk.conv), ran)
       /\ again = {}
  BY Holds DEF TurnInv, Numbered, Once, Calls, Sound
<1>13. \A k \in DOMAIN Pending(disk.conv) :
          Pending(disk.conv)[k].no \in Nat /\ Pending(disk.conv)[k].no <= asked
  BY <1>12, CallsAre DEF UpTo
<1>14. Numbered(conv', disk', ran', asked')
  <2>1. UpTo(Pending(conv'), asked + 1)
    BY <1>3, <1>4, <1>5 DEF UpTo
  <2>2. UpTo(Pending(disk.conv), asked + 1)
    BY <1>3, <1>13 DEF UpTo
  <2>3. \A x \in ran : x.no <= asked + 1
    BY <1>3, <1>12
  <2> QED BY <1>1, <2>1, <2>2, <2>3 DEF Numbered
<1>15. Once(turn', conv', run', disk', ran')
  <2>1. Fresh(calls, ran)
    BY <1>3, <1>4, <1>12 DEF Fresh
  <2>2. Apart(calls, Pending(disk.conv))
    BY <1>3, <1>4, <1>13 DEF Apart
  <2> QED BY <1>1, <1>5, <1>7, <1>12, <2>1, <2>2 DEF Once
<1> QED BY <1>1, <1>9, <1>10, <1>11, <1>12, <1>14, <1>15 DEF TurnInv

(* The tool of the first call begins: it had not, and no point on the disk  *)
(* leads back to before it.                                                 *)
LEMMA RunKeeps == ASSUME TurnInv, Run PROVE TurnInv'
<1> DEFINE c == Head(turn.todo)
<1>1. /\ turn.at = "run" /\ turn' = [turn EXCEPT !.at = "answer"]
      /\ ran' = ran \cup {c} /\ again' = again \cup (ran \cap {c})
      /\ \/ dirty' = FALSE /\ (Written(conv, run) \/ UNCHANGED disk)
         \/ UNCHANGED <<dirty, disk>>
      /\ UNCHANGED <<conv, run, held, cancelled, typed, asked, open>>
  BY DEF Run, At, Goes, Flushed, Unwritten, person
<1>2. /\ turn.todo = Pending(conv) /\ turn.todo # <<>> /\ run.recovery = ""
      /\ turn.todo \in CallSeqs /\ turn.then = "loop" /\ Sound(conv) /\ run \in Runs
  BY <1>1, Holds DEF Placed
<1>3. /\ Tail(turn.todo) \in CallSeqs /\ Len(turn.todo) \in Nat \ {0}
      /\ c = turn.todo[1] /\ c \in Calls
      /\ \A k \in 1..Len(turn.todo) - 1 : Tail(turn.todo)[k] = turn.todo[k + 1]
      /\ DOMAIN turn.todo = 1..Len(turn.todo)
      /\ DOMAIN Tail(turn.todo) = 1..Len(turn.todo) - 1
      /\ \A a, b \in 1..Len(turn.todo) : turn.todo[a].id = turn.todo[b].id => a = b
  <2>1. /\ Tail(turn.todo) \in CallSeqs /\ Len(Tail(turn.todo)) = Len(turn.todo) - 1
        /\ Len(turn.todo) \in Nat \ {0}
        /\ c = turn.todo[1] /\ c \in Calls
        /\ \A k \in 1..Len(turn.todo) - 1 : Tail(turn.todo)[k] = turn.todo[k + 1]
    BY <1>2, TailIs
  <2> QED BY <1>2, <2>1, CallsAre
<1> HIDE DEF c
<1>0. 1 \in DOMAIN Pending(conv) /\ Pending(conv)[1] = c
  <2>1. 1 \in DOMAIN turn.todo /\ turn.todo[1] = c
    BY <1>3
  <2> QED BY <1>2, <2>1
<1>4. turn' \in Turns /\ turn'.at = "answer" /\ turn'.then = "loop" /\ turn'.todo = turn.todo
  BY <1>1, <1>2, GoesTo, Holds DEF Places
<1>5. disk' = disk \/ (/\ disk' \in Sessions /\ Sound(disk'.conv)
                       /\ disk'.conv = conv /\ disk'.run = run)
  BY <1>1, <1>2, WrittenIs
<1>6. ran' \in SUBSET Calls
  BY <1>1, <1>3, Holds
<1>7. Types'
  BY <1>1, <1>4, <1>5, <1>6, Holds DEF Types
<1>8. Placed(turn', conv', run')
  BY <1>1, <1>2, <1>4 DEF Placed
<1>9. Counted(turn', open')
  BY <1>1, <1>4, Holds DEF Counted, Begun
<1>10. /\ Fresh(Pending(conv), ran)
       /\ UpTo(Pending(conv), asked) /\ UpTo(Pending(disk.conv), asked)
       /\ \A x \in ran : x.no <= asked
       /\ Resumable(disk.run) => /\ Fresh(Pending(disk.conv), ran)
                                 /\ Apart(Pending(conv), Pending(disk.conv))
       /\ again = {}
  BY <1>1, <1>2 DEF TurnInv, Numbered, Once
<1>11. again' = {}
  <2>1. c \notin ran
    BY <1>0, <1>10 DEF Fresh
  <2> QED BY <1>1, <1>10, <2>1
<1>12. Numbered(conv', disk', ran', asked')
  <2>1. c.no <= asked
    BY <1>0, <1>10 DEF UpTo
  <2>2. \A x \in ran' : x.no <= asked
    BY <1>1, <1>10, <2>1
  <2>3. UpTo(Pending(disk'.conv), asked)
    BY <1>5, <1>10
  <2> QED BY <1>1, <1>10, <2>2, <2>3 DEF Numbered
<1>13. Fresh(Tail(Pending(conv)), ran')
  <2>1. ASSUME NEW k \in 1..Len(turn.todo) - 1 PROVE Tail(turn.todo)[k] \notin ran'
    <3>1. k + 1 \in 1..Len(turn.todo) /\ 1 \in 1..Len(turn.todo) /\ k + 1 # 1
      BY <1>3
    <3>2. turn.todo[k + 1] # c /\ turn.todo[k + 1] \notin ran
      BY <1>2, <1>3, <1>10, <3>1 DEF Fresh
    <3> QED BY <1>1, <1>3, <3>2
  <2> QED BY <1>2, <1>3, <2>1 DEF Fresh
<1>14. Resumable(disk'.run) => /\ disk' = disk
                               /\ Fresh(Pending(disk.conv), ran')
                               /\ Apart(Pending(conv), Pending(disk.conv))
  <2> SUFFICES ASSUME Resumable(disk'.run)
               PROVE  /\ disk' = disk /\ Fresh(Pending(disk.conv), ran')
                      /\ Apart(Pending(conv), Pending(disk.conv))
    OBVIOUS
  <2>1. disk' = disk
    BY <1>2, <1>5, RunIs
  <2>2. Fresh(Pending(disk.conv), ran) /\ Apart(Pending(conv), Pending(disk.conv))
    BY <1>10, <2>1
  <2>3. \A l \in DOMAIN Pending(disk.conv) : Pending(disk.conv)[l] # c
    BY <1>0, <2>2 DEF Apart
  <2>4. Fresh(Pending(disk.conv), ran')
    BY <1>1, <2>2, <2>3 DEF Fresh
  <2> QED BY <2>1, <2>2, <2>4
<1>15. Once(turn', conv', run', disk', ran')
  BY <1>1, <1>4, <1>13, <1>14 DEF Once
<1> QED BY <1>7, <1>8, <1>9, <1>11, <1>12, <1>15 DEF TurnInv

LEMMA CancelKeeps == ASSUME TurnInv, Cancel PROVE TurnInv'
<1>1. cancelled' = TRUE /\ UNCHANGED <<conv, run, dirty, held, disk, turn, typed, asked, ran, again, open>>
  BY DEF Cancel, history
<1>2. Types'
  BY <1>1, Holds DEF Types
<1> QED BY <1>1, <1>2 DEF TurnInv

LEMMA DiscardKeeps == ASSUME TurnInv, Discard PROVE TurnInv'
<1>1. /\ turn.at = "idle" /\ run' = [run EXCEPT !.phase = "stopped"] /\ dirty' = FALSE
      /\ disk' = disk \/ Written(conv, run')
      /\ UNCHANGED <<conv, held, turn, cancelled, typed, asked, ran, again, open>>
  BY DEF Discard, At, Unwritten, history, person
<1>2. run' \in Runs /\ ~Resumable(run')
  BY <1>1, RunIs, Holds
<1>3. disk' = disk \/ (/\ disk' \in Sessions /\ Sound(disk'.conv)
                       /\ disk'.conv = conv /\ ~Resumable(disk'.run))
  <2>1. ASSUME NEW r, r = run', Written(conv, r)
        PROVE  disk' \in Sessions /\ Sound(disk'.conv) /\ disk'.conv = conv /\ disk'.run = r
    BY <1>2, <2>1, WrittenIs, Holds
  <2> QED BY <1>1, <1>2, <2>1
<1>4. Types'
  BY <1>1, <1>2, <1>3, Holds DEF Types
<1>5. Placed(turn', conv', run')
  BY <1>1 DEF Placed
<1>6. Counted(turn', open') /\ Within(Pending(conv'), Pending(conv))
  BY <1>1, WithinSame, Holds
<1>7. disk' = disk \/ (/\ Within(Pending(disk'.conv), Pending(conv))
                       /\ ~Resumable(disk'.run))
  BY <1>3, WithinSame
<1> QED BY <1>1, <1>2, <1>4, <1>5, <1>6, <1>7, Steps

LEMMA CrashKeeps == ASSUME TurnInv, Crash PROVE TurnInv'
<1>1. /\ conv' = disk.conv /\ run' = disk.run /\ dirty' = FALSE /\ held' = FALSE
      /\ turn' = NoTurn /\ cancelled' = FALSE /\ open' = 0
      /\ UNCHANGED <<disk, typed, asked, ran, again>>
  BY DEF Crash, history
<1>2. turn' \in Turns /\ turn'.at = "idle" /\ disk.run \in Runs
  BY <1>1, Records, Holds DEF Sessions
<1>3. Types'
  BY <1>1, <1>2, Holds DEF Types
<1>4. Placed(turn', conv', run') /\ Counted(turn', open')
  BY <1>1, <1>2 DEF Placed, Counted, Begun
<1>5. Numbered(conv', disk', ran', asked')
  BY <1>1 DEF TurnInv, Numbered
<1>6. Once(turn', conv', run', disk', ran')
  BY <1>1, <1>2 DEF TurnInv, Once
<1> QED BY <1>1, <1>3, <1>4, <1>5, <1>6 DEF TurnInv

LEMMA WorksKeeps == ASSUME TurnInv, Works PROVE TurnInv'
BY RetireResumedKeeps, CompactKeeps, OpenNewKeeps, OpenResumedKeeps, LoopKeeps, RefusedKeeps,
   TooLongKeeps, EmptyKeeps, FinalKeeps, WithCallsKeeps, NextToolKeeps, RepeatsKeeps, RunKeeps,
   FailedKeeps, RanKeeps, RoundEndsKeeps, EndsKeeps, ToldKeeps, FinishKeeps DEF Works

LEMMA StepKeeps == TurnInv /\ [Next]_vars => TurnInv'
<1> SUFFICES ASSUME TurnInv, [Next]_vars PROVE TurnInv'
  OBVIOUS
<1>1. CASE Next
  BY <1>1, NewTurnKeeps, ResumeKeeps, WorksKeeps, CancelKeeps, DiscardKeeps, CrashKeeps DEF Next
<1>2. CASE UNCHANGED vars
  <2>1. UNCHANGED <<conv, run, dirty, held, disk, turn, cancelled, typed, asked, ran, again, open>>
    BY <1>2 DEF vars
  <2>2. Types'
    BY <2>1, Holds DEF Types
  <2> QED BY <2>1, <2>2 DEF TurnInv
<1> QED BY <1>1, <1>2

LEMMA TurnKept == Spec => []TurnInv
BY Starts, StepKeeps, PTL DEF Spec

(* No tool call is begun twice, by however many resumes, crashes, lost      *)
(* writes and cancels, and whatever ids the replies reuse: retireRecovery   *)
(* takes a point back, on the disk, before what follows it may begin.       *)
THEOREM TurnCallsOnce == Spec => []CallsOnce
<1>1. TurnInv => CallsOnce
  BY DEF TurnInv, CallsOnce
<1> QED BY <1>1, TurnKept, PTL

(* Whatever is sent to a model answers every call of every reply, each once *)
(* and in its place: what runLoop finds pending is what is missing, repairs *)
(* and compactions included.                                                *)
THEOREM TurnRequestsAnswered == Spec => []RequestsAnswered
<1>1. TurnInv => RequestsAnswered
  BY Holds DEF RequestsAnswered, Placed, At
<1> QED BY <1>1, TurnKept, PTL

(* One end for every turn.started: RunTurn's deferred events and a pause's  *)
(* never both, and none is left out.                                        *)
THEOREM TurnOneEnding == Spec => []OneEnding
<1>1. TurnInv => OneEnding
  BY Holds DEF OneEnding, Counted, Begun, At
<1> QED BY <1>1, TurnKept, PTL
=============================================================================
