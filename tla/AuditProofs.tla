----------------------------- MODULE AuditProofs -----------------------------
(***************************************************************************)
(* Theorems about whole drafts as text, for every account, every set of    *)
(* phrases and every width of the extractor's windows.                     *)
(*                                                                         *)
(* The extractor is a pure function of the text, made of sequences that    *)
(* are mapped, flattened and swept for repetitions.  FlattenIs, RangeOfFlat*)
(* and DedupedIs follow the elements through them; ExtractionIs says what  *)
(* comes out: a claim the checkers know for each candidate, and nothing    *)
(* else.  MoneyIsFound finds the candidate of every figure a detector      *)
(* catches, MoneyClaimed the result its check gave, PassedIsBorneOut the   *)
(* figure of the replayed records that result stands for.  AuditInv ties   *)
(* the results in a state to the text they are the results of.             *)
(*                                                                         *)
(* The second half reads the golden drafts.  OpenTells, BalanceTells and   *)
(* their like go through a sentence token by token and say which figure it *)
(* tells of which document; a claim is Right or Wrong with respect to the  *)
(* records; NothingMissing finds every required mention in the text; and   *)
(* OneWrongRevises turns one wrong sentence into a revision.               *)
(*                                                                         *)
(* The lemmas about iteration, extremes, joined sequences and the figures  *)
(* of named documents are in LedgerProofs.                                 *)
(***************************************************************************)
EXTENDS DraftAudit, LedgerProofs

-----------------------------------------------------------------------------
(***************************************************************************)
(* Sequences                                                               *)
(***************************************************************************)
\* A tuple given by a rule is the function that gives it.
LEMMA ListedIs ==
    ASSUME NEW n \in Nat, NEW f, f = [k \in 1..n |-> f[k]]
    PROVE  /\ Listed(f) = f
           /\ Len(f) = n
           /\ f \in Seq(Range(f))
<1>1. f \in Seq(Range(f))
  BY DEF Range
<1>2. Len(f) = n
  BY <1>1
<1>3. Listed(f) \in Seq(Range(f))
  BY <1>1 DEF Listed
<1>4. Len(Listed(f)) = n
  BY <1>1, <1>2 DEF Listed
<1>5. \A k \in 1..n : Listed(f)[k] = f[k]
  BY <1>1, <1>2 DEF Listed
<1>6. Listed(f) = f
  BY <1>1, <1>2, <1>3, <1>4, <1>5
<1> QED BY <1>1, <1>2, <1>6

\* Flattening puts the elements of some sequences one behind the other.
LEMMA FlattenIs ==
    ASSUME NEW S, NEW n \in Nat, NEW ss \in [1..n -> Seq(S)]
    PROVE  FlattenSeq(ss) \in Seq(S) /\ Joined(FlattenSeq(ss), ss, n)
<1>1. Len(ss) = n /\ ss \in Seq(Seq(S))
  OBVIOUS
<1>2. CASE n = 0
  <2>1. ss = << >> /\ ss \in Seq(S)
    BY <1>1, <1>2
  <2>2. FlattenSeq(ss) = << >>
    BY <2>1 DEF FlattenSeq
  <2>3. JoinedAt(<< >>, ss, 0, << >>, << >>)
    BY DEF JoinedAt
  <2>4. Joined(<< >>, ss, 0)
    BY <2>3 DEF Joined
  <2> QED BY <1>2, <2>2, <2>4
<1>3. CASE n # 0
  <2> DEFINE Step(f) == [i \in 1..n |-> IF i = 1 THEN ss[i] ELSE f[i - 1] \o ss[i]]
             c == CHOOSE f : f = Step(f)
  <2>1. FlattenSeq(ss) = c[n]
    BY <1>1, <1>3 DEF FlattenSeq
  <2>2. c = Step(c)
    <3> DEFINE F == [i \in 1..n |-> [x \in Seq(S) |-> x \o ss[i]]]
    <3>1. F \in [1..n -> [Seq(S) -> Seq(S)]] /\ << >> \in Seq(S)
      OBVIOUS
    <3>2. PICK f \in [0..n -> Seq(S)] : f[0] = << >> /\ \A i \in 1..n : f[i] = F[i][f[i - 1]]
      <4> DEFINE A == Seq(S)
                 base == << >>
      <4>1. F \in [1..n -> [A -> A]] /\ base \in A /\ n \in Nat
        BY <3>1
      <4> HIDE DEF F, A, base
      <4>2. \E f \in [0..n -> A] : Iterates(f, base, F, n)
        BY ONLY <4>1, IterationExists
      <4> QED BY <4>2 DEF A, base, Iterates
    <3> DEFINE g == [i \in 1..n |-> f[i]]
    <3>3. ASSUME NEW i \in 1..n PROVE g[i] = IF i = 1 THEN ss[i] ELSE g[i - 1] \o ss[i]
      <4>1. f[i] = f[i - 1] \o ss[i]
        <5>1. f[i] = F[i][f[i - 1]] /\ f[i - 1] \in Seq(S)
          <6> HIDE DEF F
          <6>1. i - 1 \in 0..n
            OBVIOUS
          <6> QED BY <3>2, <6>1
        <5> QED BY <5>1
      <4>2. CASE i = 1
        <5>1. f[i - 1] = << >>
          BY <3>2, <4>2
        <5> QED BY <4>1, <4>2, <5>1
      <4>3. CASE i # 1
        <5>1. g[i - 1] = f[i - 1]
          BY <4>3
        <5> QED BY <4>1, <4>3, <5>1
      <4> QED BY <4>2, <4>3
    <3> DEFINE g2 == g
    <3>4. DOMAIN g2 = 1..n /\ g2 = [i \in 1..n |-> g2[i]]
      OBVIOUS
    <3>5. \A i \in 1..n : g2[i] = IF i = 1 THEN ss[i] ELSE g2[i - 1] \o ss[i]
      BY <3>3
    <3> HIDE DEF g2, g
    <3>6. g2 = Step(g2)
      BY <3>4, <3>5
    <3> QED BY <3>6
  <2> HIDE DEF c
  <2>3. \A i \in 1..n : c[i] = IF i = 1 THEN ss[i] ELSE c[i - 1] \o ss[i]
    BY <2>2
  <2> DEFINE Good == {m \in Nat : m + 1 \in 1..n => c[m + 1] \in Seq(S) /\ Joined(c[m + 1], ss, m + 1)}
  <2>4. 0 \in Good
    <3>1. c[1] = ss[1] /\ ss[1] \in Seq(S)
      BY <1>3, <2>3
    <3>2. Joined(ss[1], ss, 1)
      BY <1>3, JoinOne
    <3> QED BY <3>1, <3>2
  <2>5. ASSUME NEW m \in Nat, m \in Good PROVE m + 1 \in Good
    <3> SUFFICES ASSUME m + 2 \in 1..n
                 PROVE  c[m + 2] \in Seq(S) /\ Joined(c[m + 2], ss, m + 2)
      OBVIOUS
    <3>1. m + 1 \in 1..(n - 1) /\ m + 1 \in 1..n
      OBVIOUS
    <3>2. c[m + 1] \in Seq(S) /\ Joined(c[m + 1], ss, m + 1)
      BY <2>5, <3>1
    <3>3. c[m + 2] = c[m + 1] \o ss[m + 2]
      <4>1. PICK i \in 1..n : i = m + 2
        OBVIOUS
      <4>2. i # 1 /\ i - 1 = m + 1
        BY <4>1
      <4> QED BY <2>3, <4>1, <4>2
    <3>4. PICK k \in 1..(n - 1) : k = m + 1
      BY <3>1
    <3>5. Joined(c[k] \o ss[k + 1], ss, k + 1)
      <4> HIDE DEF Good
      <4> QED BY <3>2, <3>4, JoinNext
    <3>6. k + 1 = m + 2
      BY <3>4
    <3>7. ss[m + 2] \in Seq(S)
      OBVIOUS
    <3> QED BY <3>2, <3>3, <3>4, <3>5, <3>6, <3>7
  <2> HIDE DEF Good
  <2>6. n - 1 \in Good
    <3>1. n - 1 \in Nat
      BY <1>3
    <3> QED BY <2>4, <2>5, <3>1, AllNaturals
  <2>7. c[n] \in Seq(S) /\ Joined(c[n], ss, n)
    <3>1. (n - 1) + 1 = n /\ n \in 1..n
      BY <1>3
    <3> QED BY <2>6, <3>1 DEF Good
  <2> QED BY <2>1, <2>7
<1> QED BY <1>2, <1>3

-----------------------------------------------------------------------------
(***************************************************************************)
(* Sentences                                                               *)
(***************************************************************************)
\* The phrase of a pattern found at token k.
MatchAt(s, k, pattern) ==
    [at |-> s[k].at, end |-> s[Max(EndsAt(s, k, pattern))].end,
     words |-> Texts(s, k, Max(EndsAt(s, k, pattern)))]

\* The sweep for a pattern, token by token.
Sweep(c, s, n, pattern) ==
    /\ Matches(s, pattern) = c[1]
    /\ c[n + 1] = {}
    /\ \A k \in 1..n : EndsAt(s, k, pattern) = {} => c[k] = c[k + 1]
    /\ \A k \in 1..n : EndsAt(s, k, pattern) # {} =>
         /\ Max(EndsAt(s, k, pattern)) \in k..n
         /\ c[k] = {MatchAt(s, k, pattern)} \cup c[Max(EndsAt(s, k, pattern)) + 1]

LEMMA MatchesUnfold ==
    ASSUME NEW s, NEW n \in Nat, DOMAIN s = 1..n, Len(s) = n, NEW pattern
    PROVE  \E c : Sweep(c, s, n, pattern)
<1> DEFINE Found(k) == [at |-> s[k].at, end |-> s[Max(EndsAt(s, k, pattern))].end,
                        words |-> Texts(s, k, Max(EndsAt(s, k, pattern)))]
           Step(f, k) == IF k > n THEN {}
                         ELSE IF EndsAt(s, k, pattern) = {} THEN f[k + 1]
                         ELSE {Found(k)} \cup f[Max(EndsAt(s, k, pattern)) + 1]
           From(f) == [k \in 1..(n + 1) |-> Step(f, k)]
           c == CHOOSE f : f = From(f)
<1>1. Matches(s, pattern) = c[1]
  BY DEF Matches
<1>2. ASSUME NEW k \in 1..n, EndsAt(s, k, pattern) # {}
      PROVE  Max(EndsAt(s, k, pattern)) \in k..n
  <2>1. EndsAt(s, k, pattern) \subseteq k..n
    BY DEF EndsAt, MinOf, LongestPhrase
  <2>2. EndsAt(s, k, pattern) \in SUBSET (1..n)
    BY <2>1
  <2> QED BY <1>2, <2>1, <2>2, MaxIn
<1> DEFINE After(k) == IF EndsAt(s, k, pattern) = {} THEN k + 1
                       ELSE Max(EndsAt(s, k, pattern)) + 1
<1>3. \A k \in 1..n : After(k) \in (k + 1)..(n + 1)
  BY <1>2
<1>4. \A f : \A k \in 1..n :
        Step(f, k) = (IF EndsAt(s, k, pattern) = {} THEN {} ELSE {Found(k)}) \cup f[After(k)]
  OBVIOUS
<1>5. \A f : Step(f, n + 1) = {}
  OBVIOUS
<1>12. \A k : Found(k) = MatchAt(s, k, pattern)
  BY DEF MatchAt
<1>13. ASSUME NEW f, NEW k \in 1..n, NEW x \in Step(f, k)
       PROVE  (EndsAt(s, k, pattern) # {} /\ x = Found(k)) \/ x \in f[After(k)]
  BY <1>13
<1> HIDE DEF Step, After, Found
<1>6. c = From(c)
  <2> DEFINE Upto(f, j) == \A k \in 1..(n + 1) : n + 1 - k <= j => f[k] = Step(f, k)
             Good == {j \in Nat : \E f : DOMAIN f = 1..(n + 1) /\ Upto(f, j)}
  <2>1. 0 \in Good
    <3>1. DOMAIN [k \in 1..(n + 1) |-> {}] = 1..(n + 1) /\ Upto([k \in 1..(n + 1) |-> {}], 0)
      BY <1>5
    <3> QED BY <3>1
  <2>2. ASSUME NEW j \in Nat, j \in Good PROVE j + 1 \in Good
    <3>1. PICK f : DOMAIN f = 1..(n + 1) /\ Upto(f, j)
      BY <2>2
    <3> DEFINE h == [k \in 1..(n + 1) |-> IF n + 1 - k <= j THEN f[k] ELSE Step(f, k)]
    <3>2. ASSUME NEW k \in 1..(n + 1), n + 1 - k <= j + 1 PROVE h[k] = Step(h, k)
      <4>1. h[k] = Step(f, k)
        BY <3>1
      <4>2. CASE k = n + 1
        BY <1>5, <4>1, <4>2
      <4>3. CASE k \in 1..n
        <5>1. PICK a \in (k + 1)..(n + 1) : a = After(k)
          BY <1>3, <4>3
        <5>2. h[a] = f[a]
          BY <3>2, <4>3
        <5> HIDE DEF h
        <5> QED BY <1>4, <4>1, <4>3, <5>1, <5>2
      <4> QED BY <4>2, <4>3
    <3>3. DOMAIN h = 1..(n + 1)
      OBVIOUS
    <3> HIDE DEF h
    <3>4. Upto(h, j + 1)
      BY <3>2
    <3> HIDE DEF Upto
    <3> QED BY <3>3, <3>4
  <2> HIDE DEF Good
  <2>3. n \in Good
    BY <2>1, <2>2, AllNaturals
  <2>4. PICK f : DOMAIN f = 1..(n + 1) /\ Upto(f, n)
    BY <2>3 DEF Good
  <2>5. \A k \in 1..(n + 1) : f[k] = Step(f, k)
    BY <2>4
  <2> DEFINE g == [k \in 1..(n + 1) |-> f[k]]
  <2>6. ASSUME NEW k \in 1..(n + 1) PROVE g[k] = Step(g, k)
    <3>1. g[k] = Step(f, k)
      BY <2>5
    <3>2. CASE k = n + 1
      BY <1>5, <3>1, <3>2
    <3>3. CASE k \in 1..n
      <4>1. PICK a \in (k + 1)..(n + 1) : a = After(k)
        BY <1>3, <3>3
      <4>2. g[a] = f[a]
        BY <3>3
      <4> HIDE DEF g
      <4> QED BY <1>4, <3>1, <3>3, <4>1, <4>2
    <3> QED BY <3>2, <3>3
  <2>7. g = [k \in 1..(n + 1) |-> g[k]]
    OBVIOUS
  <2> HIDE DEF g
  <2>8. g = From(g)
    BY <2>6, <2>7
  <2> QED BY <2>8
<1> HIDE DEF c
<1>7. \A k \in 1..(n + 1) : c[k] = Step(c, k)
  BY <1>6
<1>8. c[n + 1] = {}
  BY <1>5, <1>7
<1>9. ASSUME NEW k \in 1..n
      PROVE  c[k] = (IF EndsAt(s, k, pattern) = {} THEN {} ELSE {MatchAt(s, k, pattern)})
                      \cup c[After(k)]
  BY <1>4, <1>7, <1>12
<1>10. ASSUME NEW k \in 1..n
       PROVE  After(k) = IF EndsAt(s, k, pattern) = {} THEN k + 1
                         ELSE Max(EndsAt(s, k, pattern)) + 1
  BY DEF After
<1>11. ASSUME NEW k \in 1..n, EndsAt(s, k, pattern) = {} PROVE c[k] = c[k + 1]
  <2>1. c[k] = c[After(k)] /\ After(k) = k + 1
    BY <1>9, <1>10, <1>11
  <2> QED BY <2>1
<1>14. ASSUME NEW k \in 1..n, EndsAt(s, k, pattern) # {}
       PROVE  c[k] = {MatchAt(s, k, pattern)} \cup c[Max(EndsAt(s, k, pattern)) + 1]
  <2>1. /\ c[k] = {MatchAt(s, k, pattern)} \cup c[After(k)]
        /\ After(k) = Max(EndsAt(s, k, pattern)) + 1
    BY <1>9, <1>10, <1>14
  <2> QED BY <2>1
<1>15. \A k \in 1..n : EndsAt(s, k, pattern) = {} => c[k] = c[k + 1]
  BY <1>11
<1>16. \A k \in 1..n : EndsAt(s, k, pattern) # {} =>
         /\ Max(EndsAt(s, k, pattern)) \in k..n
         /\ c[k] = {MatchAt(s, k, pattern)} \cup c[Max(EndsAt(s, k, pattern)) + 1]
  BY <1>2, <1>14
<1>17. Sweep(c, s, n, pattern)
  BY <1>1, <1>8, <1>15, <1>16 DEF Sweep
<1> QED BY <1>17

\* Every phrase found in a sentence is found at one of its tokens.
LEMMA MatchesAre ==
    ASSUME NEW s, NEW n \in Nat, DOMAIN s = 1..n, Len(s) = n, NEW pattern,
           NEW m \in Matches(s, pattern)
    PROVE  \E k \in 1..n : EndsAt(s, k, pattern) # {} /\ m = MatchAt(s, k, pattern)
<1>20. PICK c : Sweep(c, s, n, pattern)
  BY MatchesUnfold
<1>1. /\ Matches(s, pattern) = c[1]
      /\ c[n + 1] = {}
      /\ \A k \in 1..n : EndsAt(s, k, pattern) = {} => c[k] = c[k + 1]
      /\ \A k \in 1..n : EndsAt(s, k, pattern) # {} =>
           /\ Max(EndsAt(s, k, pattern)) \in k..n
           /\ c[k] = {MatchAt(s, k, pattern)} \cup c[Max(EndsAt(s, k, pattern)) + 1]
  BY <1>20 DEF Sweep
<1> DEFINE Begins(x) == \E k \in 1..n : EndsAt(s, k, pattern) # {} /\ x = MatchAt(s, k, pattern)
           Good == {j \in Nat : \A k \in 1..(n + 1) : n + 1 - k <= j => \A x \in c[k] : Begins(x)}
<1>2. 0 \in Good
  <2>1. \A k \in 1..(n + 1) : n + 1 - k <= 0 => k = n + 1
    OBVIOUS
  <2> HIDE DEF Begins
  <2> QED BY <1>1, <2>1
<1>3. ASSUME NEW j \in Nat, j \in Good PROVE j + 1 \in Good
  <2> SUFFICES ASSUME NEW k \in 1..(n + 1), n + 1 - k <= j + 1, NEW x \in c[k] PROVE Begins(x)
    OBVIOUS
  <2>1. CASE k = n + 1
    BY <1>1, <2>1
  <2>2. CASE k \in 1..n
    <3>1. ASSUME NEW a \in (k + 1)..(n + 1), x \in c[a] PROVE Begins(x)
      <4>1. a \in 1..(n + 1) /\ n + 1 - a <= j
        BY <2>2
      <4> HIDE DEF Begins
      <4> QED BY <1>3, <3>1, <4>1
    <3>2. CASE EndsAt(s, k, pattern) = {}
      <4>1. x \in c[k + 1] /\ k + 1 \in (k + 1)..(n + 1)
        BY <1>1, <2>2, <3>2
      <4> HIDE DEF Begins
      <4> QED BY <3>1, <4>1
    <3>3. CASE EndsAt(s, k, pattern) # {}
      <4>5. /\ Max(EndsAt(s, k, pattern)) \in k..n
            /\ c[k] = {MatchAt(s, k, pattern)} \cup c[Max(EndsAt(s, k, pattern)) + 1]
        BY <1>1, <2>2, <3>3
      <4>1. PICK e \in k..n : e = Max(EndsAt(s, k, pattern))
        BY <4>5
      <4>2. x = MatchAt(s, k, pattern) \/ x \in c[e + 1]
        BY <4>1, <4>5
      <4>3. e + 1 \in (k + 1)..(n + 1)
        BY <2>2, <4>1
      <4>4. x = MatchAt(s, k, pattern) => Begins(x)
        BY <2>2, <3>3
      <4> HIDE DEF Begins
      <4> QED BY <3>1, <4>2, <4>3, <4>4
    <3> QED BY <3>2, <3>3
  <2> QED BY <2>1, <2>2
<1> HIDE DEF Good
<1>4. n \in Good
  BY <1>2, <1>3, AllNaturals
<1>5. \A x \in c[1] : Begins(x)
  BY <1>4 DEF Good
<1> QED BY <1>1, <1>5

\* A sentence in which a phrase of a pattern stands has a match.
LEMMA MatchesExist ==
    ASSUME NEW s, NEW n \in Nat, DOMAIN s = 1..n, Len(s) = n, NEW pattern,
           NEW i \in 1..n, EndsAt(s, i, pattern) # {}
    PROVE  Says(s, pattern)
<1>20. PICK c : Sweep(c, s, n, pattern)
  BY MatchesUnfold
<1>1. /\ Matches(s, pattern) = c[1]
      /\ c[n + 1] = {}
      /\ \A k \in 1..n : EndsAt(s, k, pattern) = {} => c[k] = c[k + 1]
      /\ \A k \in 1..n : EndsAt(s, k, pattern) # {} =>
           /\ Max(EndsAt(s, k, pattern)) \in k..n
           /\ c[k] = {MatchAt(s, k, pattern)} \cup c[Max(EndsAt(s, k, pattern)) + 1]
  BY <1>20 DEF Sweep
<1>7. \A k \in 1..n : EndsAt(s, k, pattern) # {} => c[k] # {}
  <2> TAKE k \in 1..n
  <2> HAVE EndsAt(s, k, pattern) # {}
  <2>1. c[k] = {MatchAt(s, k, pattern)} \cup c[Max(EndsAt(s, k, pattern)) + 1]
    BY <1>1
  <2>2. MatchAt(s, k, pattern) \in c[k]
    BY <2>1
  <2> QED BY <2>2
<1> DEFINE Good == {j \in Nat : j < i => c[i - j] # {}}
<1>2. 0 \in Good
  <2>1. i - 0 = i /\ c[i] # {}
    BY <1>7
  <2>2. c[i - 0] # {}
    BY <2>1
  <2> QED BY <2>2
<1>3. ASSUME NEW j \in Nat, j \in Good PROVE j + 1 \in Good
  <2> SUFFICES ASSUME j + 1 < i PROVE c[i - (j + 1)] # {}
    OBVIOUS
  <2>1. PICK k \in 1..n : k = i - (j + 1) /\ k + 1 = i - j
    OBVIOUS
  <2>2. c[k + 1] # {}
    BY <1>3, <2>1
  <2>3. c[k] # {}
    BY <1>1, <1>7, <2>2
  <2> QED BY <2>1, <2>3
<1> HIDE DEF Good
<1>4. \A j \in Nat : j \in Good
  BY <1>2, <1>3, AllNaturals
<1>5. i - 1 \in Good /\ i - 1 \in Nat /\ i - 1 < i /\ i - (i - 1) = 1
  BY <1>4
<1>6. c[1] # {}
  BY <1>5 DEF Good
<1> QED BY <1>1, <1>6 DEF Says

\* A phrase found in a sentence is one of the pattern, it begins where a token
\* does, and there are finitely many.
LEMMA MatchesBegin ==
    ASSUME NEW s, NEW n \in Nat, DOMAIN s = 1..n, Len(s) = n, NEW pattern
    PROVE  /\ \A m \in Matches(s, pattern) : m.words \in pattern
           /\ \A m \in Matches(s, pattern) : \E k \in 1..n : m.at = s[k].at
           /\ IsFiniteSet(Matches(s, pattern))
<1>1. \A m \in Matches(s, pattern) : \E k \in 1..n :
        EndsAt(s, k, pattern) # {} /\ m = MatchAt(s, k, pattern)
  BY MatchesAre
<1>2. ASSUME NEW k \in 1..n, EndsAt(s, k, pattern) # {}
      PROVE  MatchAt(s, k, pattern).words \in pattern /\ MatchAt(s, k, pattern).at = s[k].at
  <2>1. EndsAt(s, k, pattern) \in SUBSET (1..n)
    BY DEF EndsAt, MinOf, LongestPhrase
  <2>2. Max(EndsAt(s, k, pattern)) \in EndsAt(s, k, pattern)
    BY <1>2, <2>1, MaxIn
  <2>3. Texts(s, k, Max(EndsAt(s, k, pattern))) \in pattern
    BY <2>2 DEF EndsAt
  <2> QED BY <2>3 DEF MatchAt
<1>3. Matches(s, pattern) \subseteq {MatchAt(s, k, pattern) : k \in 1..n}
  BY <1>1
<1>4. IsFiniteSet({MatchAt(s, k, pattern) : k \in 1..n})
  <2>1. PICK f : f = [k \in 1..n |-> MatchAt(s, k, pattern)]
    OBVIOUS
  <2>2. IsFiniteSet({f[k] : k \in 1..n})
    <3>1. PICK T : T = {f[k] : k \in 1..n}
      OBVIOUS
    <3>2. f \in Surjection(1..n, T)
      BY <2>1, <3>1 DEF Surjection
    <3>3. IsFiniteSet(1..n)
      BY FS_Interval
    <3> QED BY <3>1, <3>2, <3>3, FS_Surjection
  <2>3. {f[k] : k \in 1..n} = {MatchAt(s, k, pattern) : k \in 1..n}
    BY <2>1
  <2> QED BY <2>2, <2>3
<1>5. IsFiniteSet(Matches(s, pattern))
  BY <1>3, <1>4, FS_Subset
<1> QED BY <1>1, <1>2, <1>5

\* What is found twice is kept once, and something like all that is found is
\* kept.
LEMMA DedupedIs ==
    ASSUME NEW S, NEW found \in Seq(S)
    PROVE  /\ Deduped(found) \in Seq(S)
           /\ \A j \in DOMAIN Deduped(found) : \E k \in DOMAIN found :
                Deduped(found)[j] = found[k]
           /\ \A k \in DOMAIN found : Repeats(found[k], Deduped(found))
<1>1. PICK n \in Nat : n = Len(found) /\ DOMAIN found = 1..n
  OBVIOUS
<1> DEFINE Next1(sofar, k) == IF Repeats(found[k], sofar) THEN sofar
                              ELSE Append(sofar, found[k])
           From(f) == [k \in 0..n |-> IF k = 0 THEN << >> ELSE Next1(f[k - 1], k)]
           c == CHOOSE f : f = From(f)
<1>2. Deduped(found) = c[n]
  BY <1>1 DEF Deduped
<1>3. \A k \in 1..n : \A sofar \in Seq(S) : Next1(sofar, k) \in Seq(S)
  BY <1>1
<1>4. c = From(c)
  <2> DEFINE A == Seq(S)
             base == << >>
             F == [k \in 1..n |-> [x \in A |-> Next1(x, k)]]
  <2>1. F \in [1..n -> [A -> A]] /\ base \in A /\ n \in Nat
    <3> HIDE DEF Next1
    <3> QED BY <1>3
  <2>2. PICK f \in [0..n -> A] : Iterates(f, base, F, n)
    <3> HIDE DEF A, base, F
    <3> QED BY ONLY <2>1, IterationExists
  <2>3. ASSUME NEW k \in 0..n PROVE f[k] = IF k = 0 THEN << >> ELSE Next1(f[k - 1], k)
    <3>1. CASE k = 0
      BY <2>2, <3>1 DEF Iterates
    <3>2. CASE k # 0
      <4>1. k \in 1..n /\ k - 1 \in 0..n
        BY <3>2
      <4>2. f[k] = F[k][f[k - 1]]
        <5> HIDE DEF F
        <5> QED BY <2>2, <4>1 DEF Iterates
      <4>3. f[k - 1] \in A
        <5> HIDE DEF A
        <5> QED BY <4>1
      <4> HIDE DEF Next1
      <4> QED BY <3>2, <4>1, <4>2, <4>3
    <3> QED BY <3>1, <3>2
  <2>4. f = [k \in 0..n |-> f[k]]
    OBVIOUS
  <2> HIDE DEF Next1
  <2>5. f = From(f)
    BY <2>3, <2>4
  <2> QED BY <2>5
<1> HIDE DEF c
<1>5. c[0] = << >> /\ \A k \in 1..n : c[k] = Next1(c[k - 1], k)
  <2> HIDE DEF Next1
  <2>1. \A k \in 0..n : c[k] = IF k = 0 THEN << >> ELSE Next1(c[k - 1], k)
    BY <1>4
  <2> QED BY <2>1
<1> DEFINE Sound(kept, m) ==
             /\ kept \in Seq(S)
             /\ \A j \in DOMAIN kept : \E k \in 1..n : kept[j] = found[k]
             /\ \A k \in 1..m : Repeats(found[k], kept)
           Good == {m \in Nat : m <= n => Sound(c[m], m)}
<1>6. 0 \in Good
  <2>1. c[0] \in Seq(S) /\ DOMAIN c[0] = {}
    BY <1>5
  <2> QED BY <2>1
<1>7. ASSUME NEW m \in Nat, m \in Good PROVE m + 1 \in Good
  <2> SUFFICES ASSUME m + 1 <= n PROVE Sound(c[m + 1], m + 1)
    OBVIOUS
  <2>1. PICK k \in 1..n : k = m + 1
    OBVIOUS
  <2>2. Sound(c[m], m)
    BY <1>7
  <2>3. c[k] = Next1(c[m], k)
    <3>1. k - 1 = m
      BY <2>1
    <3> HIDE DEF Next1
    <3> QED BY <1>5, <3>1
  <2>4. CASE Repeats(found[k], c[m])
    <3>1. c[k] = c[m]
      BY <2>3, <2>4
    <3>2. \A i \in 1..(m + 1) : i \in 1..m \/ i = k
      BY <2>1
    <3> QED BY <2>1, <2>2, <2>4, <3>1, <3>2
  <2>5. CASE ~Repeats(found[k], c[m])
    <3>1. c[k] = Append(c[m], found[k])
      BY <2>3, <2>5
    <3>2. c[m] \in Seq(S) /\ found[k] \in S
      BY <1>1, <2>2
    <3>3. PICK a \in Nat : a = Len(c[m]) /\ DOMAIN c[m] = 1..a
      BY <3>2
    <3>4. /\ c[k] \in Seq(S) /\ DOMAIN c[k] = 1..(a + 1)
          /\ \A j \in 1..a : c[k][j] = c[m][j]
          /\ c[k][a + 1] = found[k]
      BY <3>1, <3>2, <3>3
    <3>5. \A j \in 1..(a + 1) : j \in 1..a \/ j = a + 1
      OBVIOUS
    <3>6. \A j \in DOMAIN c[k] : \E i \in 1..n : c[k][j] = found[i]
      BY <2>2, <3>3, <3>4, <3>5
    <3>7. \A j \in 1..a : j \in 1..(a + 1)
      OBVIOUS
    <3>8. ASSUME NEW x, Repeats(x, c[m]) PROVE Repeats(x, c[k])
      BY <3>3, <3>4, <3>7, <3>8 DEF Repeats
    <3>9. Repeats(found[k], c[k])
      <4>1. a + 1 \in DOMAIN c[k]
        BY <3>4
      <4> QED BY <3>4, <4>1 DEF Repeats
    <3>10. \A i \in 1..(m + 1) : i \in 1..m \/ i = k
      BY <2>1
    <3>11. \A i \in 1..(m + 1) : Repeats(found[i], c[k])
      BY <2>2, <3>8, <3>9, <3>10
    <3> QED BY <2>1, <3>4, <3>6, <3>11
  <2> QED BY <2>4, <2>5
<1> HIDE DEF Good
<1>8. n \in Good
  BY <1>6, <1>7, AllNaturals
<1>9. Sound(c[n], n)
  BY <1>8 DEF Good
<1> QED BY <1>1, <1>2, <1>9

\* Laying a sentence out moves no token and changes none of its fields.
LEMMA LaidOutIs ==
    ASSUME NEW s, IsSentence(s)
    PROVE  /\ LaidOut(s) \in Seq(Range(LaidOut(s)))
           /\ Len(LaidOut(s)) = Len(s) /\ DOMAIN LaidOut(s) = DOMAIN s
           /\ \A k \in DOMAIN s : DOMAIN s[k] \subseteq DOMAIN LaidOut(s)[k]
           /\ \A k \in DOMAIN s : \A f \in DOMAIN s[k] :
                f \notin {"at", "end"} => LaidOut(s)[k][f] = s[k][f]
<1>1. PICK n \in Nat : n = Len(s) /\ DOMAIN s = 1..n
  BY DEF IsSentence, IsList
<1> DEFINE End ==
             CHOOSE end : end = [k \in 0..Len(s) |->
               IF k = 0 THEN 0
               ELSE end[k - 1] + Len(s[k].text)
                      + (IF k = 1 \/ s[k].text \in Punctuation THEN 0 ELSE 1)]
           L == [k \in DOMAIN s |-> Placed(s[k], End[k] - Len(s[k].text), End[k])]
<1>2. LaidOut(s) = Listed(L)
  BY DEF LaidOut
<1> HIDE DEF End
<1>3. \A k \in DOMAIN s : L[k] = Placed(s[k], End[k] - Len(s[k].text), End[k])
  OBVIOUS
<1>4. DOMAIN L = 1..n /\ L = [k \in 1..n |-> L[k]]
  BY <1>1
<1> HIDE DEF L
<1>5. Listed(L) = L /\ Len(L) = n /\ L \in Seq(Range(L))
  BY <1>4, ListedIs
<1>6. ASSUME NEW k \in DOMAIN s, NEW f \in DOMAIN s[k], f \notin {"at", "end"}
      PROVE  L[k][f] = s[k][f]
  <2>1. PICK t, a, e : t = s[k] /\ L[k] = Placed(t, a, e)
    BY <1>3
  <2>2. f \in DOMAIN t \cup {"at", "end"}
    BY <1>6, <2>1
  <2>3. Placed(t, a, e)[f] = t[f]
    BY <1>6, <2>2 DEF Placed
  <2> QED BY <2>1, <2>3
<1>7. \A k \in DOMAIN s : DOMAIN s[k] \subseteq DOMAIN L[k]
  BY <1>3 DEF Placed
<1> QED BY <1>1, <1>2, <1>4, <1>5, <1>6, <1>7

\* What is laid out are tokens still, with what they say.
LEMMA LaidOutTokens ==
    ASSUME NEW s, IsSentence(s)
    PROVE  /\ IsSentence(LaidOut(s))
           /\ Len(LaidOut(s)) = Len(s) /\ DOMAIN LaidOut(s) = DOMAIN s
           /\ \A k \in DOMAIN s :
                /\ LaidOut(s)[k].kind = s[k].kind /\ LaidOut(s)[k].text = s[k].text
                /\ s[k].kind = "amount" => /\ LaidOut(s)[k].num = s[k].num
                                           /\ LaidOut(s)[k].form = s[k].form
                /\ s[k].kind = "date" => LaidOut(s)[k].num = s[k].num
<1> DEFINE L == LaidOut(s)
<1>1. /\ L \in Seq(Range(L))
      /\ Len(L) = Len(s) /\ DOMAIN L = DOMAIN s
      /\ \A k \in DOMAIN s : DOMAIN s[k] \subseteq DOMAIN L[k]
      /\ \A k \in DOMAIN s : \A f \in DOMAIN s[k] :
           f \notin {"at", "end"} => L[k][f] = s[k][f]
  BY LaidOutIs
<1> HIDE DEF L
<1>2. ASSUME NEW k \in DOMAIN s
      PROVE  /\ IsToken(L[k])
             /\ L[k].kind = s[k].kind /\ L[k].text = s[k].text
             /\ s[k].kind = "amount" => L[k].num = s[k].num /\ L[k].form = s[k].form
             /\ s[k].kind = "date" => L[k].num = s[k].num
  <2>1. IsToken(s[k])
    BY DEF IsSentence, IsList
  <2>2. L[k].kind = s[k].kind /\ L[k].text = s[k].text
    BY <1>1, <2>1 DEF IsToken
  <2>3. Fields[s[k].kind] \subseteq DOMAIN s[k]
    BY <2>1 DEF IsToken
  <2>4. s[k].kind = "amount" => L[k].num = s[k].num /\ L[k].form = s[k].form
    BY <1>1, <2>3 DEF Fields
  <2>5. s[k].kind = "date" => L[k].num = s[k].num
    BY <1>1, <2>3 DEF Fields
  <2>6. DOMAIN s[k] \subseteq DOMAIN L[k]
    BY <1>1
  <2> HIDE DEF Fields
  <2> QED BY <2>1, <2>2, <2>3, <2>4, <2>5, <2>6 DEF IsToken
<1>3. IsSentence(L)
  BY <1>1, <1>2 DEF IsSentence, IsList
<1> QED BY <1>1, <1>2, <1>3 DEF L

\* A figure that looks like money is found where it stands, and what is found
\* there is that figure, or is marked as one that no check can resolve.
FoundAt(found, t) ==
    /\ found.num = t.num \/ t.form \in {"misgrouped", "percent"}
    /\ t.form \in {"misgrouped", "percent"} => found.preset

\* What is found at a token that ends in no digits a marker takes is its head.
LEMMA HeadAlone ==
    ASSUME NEW s, NEW k, s[k].kind \notin {"date", "doc"}, NEW found,
           HeadAt(s, k) = <<found>>
    PROVE  AmountAt(s, k) = <<found>>
<1>1. TailAt(s, k) = << >>
  BY DEF TailAt
<1>2. <<found>> \o << >> = <<found>>
  OBVIOUS
<1> QED BY <1>1, <1>2 DEF AmountAt

LEMMA NothingAt ==
    ASSUME NEW s, NEW k, ~Suffixed(s, k), HeadAt(s, k) = << >>
    PROVE  AmountAt(s, k) = << >>
<1>1. TailAt(s, k) = << >>
  BY DEF TailAt
<1>2. << >> \o << >> = << >>
  OBVIOUS
<1> QED BY <1>1, <1>2 DEF AmountAt

LEMMA MoneyIsFound ==
    ASSUME NEW s, IsSentence(s), NEW k \in DOMAIN s,
           LooksLikeMoney(s, k), ~TakenByMarker(s, k)
    PROVE  \E found : AmountAt(s, k) = <<found>> /\ FoundAt(found, s[k])
<1>1. PICK n \in Nat : n = Len(s) /\ DOMAIN s = 1..n
  BY DEF IsSentence, IsList
<1>2. /\ s[k].kind = "amount"
      /\ s[k].form \in {"dollar", "misgrouped", "plain", "grouped", "percent"}
  BY DEF LooksLikeMoney, IsSentence, IsList, IsToken
<1>3. s[k].kind # "date" /\ s[k].kind # "word" /\ s[k].kind # "doc"
  BY <1>2
<1>4. CASE s[k].form = "dollar"
  <2> DEFINE found == Span(s[k].at, s[k].end, <<s[k].text>>, s[k].num, FALSE)
  <2>1. ~BareDigits(s[k])
    BY <1>4 DEF BareDigits
  <2>2. ~Prefixed(s, k) /\ ~Suffixed(s, k)
    BY <1>3, <1>4, <2>1 DEF Prefixed, Suffixed, BeginsInDigits, EndsInDigits
  <2>3. s[k].form \notin {"misgrouped", "percent"}
    BY <1>4
  <2>4. FoundAt(found, s[k])
    BY <2>3 DEF FoundAt, Span
  <2> HIDE DEF found
  <2>5. AmountAt(s, k) = <<found>>
    BY <1>2, <1>3, <1>4, <2>1, <2>2, <2>3, HeadAlone DEF HeadAt, found
  <2> QED BY <2>4, <2>5
<1>5. CASE s[k].form \in {"misgrouped", "percent"}
  <2> DEFINE found == Span(s[k].at, s[k].end, <<s[k].text>>, Unresolved, TRUE)
  <2>1. ~BareDigits(s[k])
    BY <1>5 DEF BareDigits
  <2>2. ~Prefixed(s, k) /\ ~Suffixed(s, k)
    BY <1>3, <2>1 DEF TakenByMarker, Suffixed, EndsInDigits
  <2>3. s[k].form # "dollar"
    BY <1>5
  <2>4. FoundAt(found, s[k])
    BY <1>5 DEF FoundAt, Span
  <2> HIDE DEF found
  <2>5. AmountAt(s, k) = <<found>>
    BY <1>2, <1>3, <1>5, <2>1, <2>2, <2>3, HeadAlone DEF HeadAt, found
  <2> QED BY <2>4, <2>5
<1>6. CASE s[k].form \in {"plain", "grouped"}
  <2>1. BareDigits(s[k]) /\ s[k].form \notin {"dollar", "misgrouped", "percent"}
    BY <1>2, <1>6 DEF BareDigits
  <2>2. \A at, end, token : FoundAt(Span(at, end, token, s[k].num, FALSE), s[k])
    BY <2>1 DEF FoundAt, Span
  <2>3. CASE Prefixed(s, k)
    <3> DEFINE found == Span(s[k - 1].at, s[k].end, Texts(s, k - 1, k), s[k].num, FALSE)
    <3>1. ~Suffixed(s, k)
      BY <2>1, <2>3 DEF Suffixed
    <3>2. FoundAt(found, s[k])
      BY <2>2
    <3> HIDE DEF found
    <3>3. AmountAt(s, k) = <<found>>
      BY <1>2, <1>3, <2>1, <2>3, <3>1, HeadAlone DEF HeadAt, found
    <3> QED BY <3>2, <3>3
  <2>4. CASE Suffixed(s, k)
    <3> DEFINE found == Span(s[k].at, s[k + 1].end, Texts(s, k, k + 1), s[k].num, FALSE)
    <3>1. ~Prefixed(s, k)
      BY <2>1, <2>4 DEF Suffixed
    <3>2. FoundAt(found, s[k])
      BY <2>2
    <3> HIDE DEF found
    <3>3. AmountAt(s, k) = <<found>>
      BY <1>2, <1>3, <2>1, <2>4, <3>1, HeadAlone DEF HeadAt, found
    <3> QED BY <3>2, <3>3
  <2>5. CASE ~Prefixed(s, k) /\ ~Suffixed(s, k)
    <3> DEFINE found == Span(s[k].at, s[k].end, <<s[k].text>>, s[k].num, FALSE)
    <3>1. s[k].form = "grouped"
      <4> SUFFICES ASSUME s[k].form = "plain" PROVE FALSE
        BY <1>6
      <4>1. \/ k - 1 \in DOMAIN s /\ s[k - 1].text = "usd"
            \/ k + 1 \in DOMAIN s /\ s[k + 1].text \in Markers
        BY DEF LooksLikeMoney
      <4>2. ~(k - 1 \in DOMAIN s /\ s[k - 1].text = "usd")
        <5> SUFFICES ASSUME k - 1 \in DOMAIN s, s[k - 1].text = "usd" PROVE FALSE
          OBVIOUS
        <5>1. k > 1
          BY <1>1
        <5> QED BY <2>1, <2>5, <5>1 DEF Prefixed, BeginsInDigits
      <4>3. k < Len(s) /\ s[k + 1].text \in Markers
        BY <1>1, <4>1, <4>2
      <4>4. k + 2 <= Len(s) /\ Prefixed(s, k + 2)
        BY <2>1, <2>5, <4>3 DEF Suffixed, EndsInDigits
      <4>5. k + 2 \in DOMAIN s
        BY <1>1, <4>4
      <4> QED BY <1>2, <2>5, <4>4, <4>5 DEF TakenByMarker
    <3>2. FoundAt(found, s[k])
      BY <2>2
    <3> HIDE DEF found
    <3>3. AmountAt(s, k) = <<found>>
      BY <1>2, <1>3, <2>1, <2>5, <3>1, HeadAlone DEF HeadAt, found
    <3> QED BY <3>2, <3>3
  <2> QED BY <2>3, <2>4, <2>5
<1> QED BY <1>2, <1>4, <1>5, <1>6

\* One or none.
AtMostOne(q) == q = << >> \/ \E x : q = <<x>>

\* A token makes one mention at most, and is the head and the tail of one
\* amount at most.
LEMMA MentionIs == ASSUME NEW s, NEW k, NEW l PROVE AtMostOne(MentionAt(s, k, l))
<1> DEFINE loose == CHOOSE x \in LooseAt(s, k) : TRUE
           spelled == [at |-> s[k].at, fam |-> s[k].fam,
                       doc |-> CanonicalId(s[k].fam, s[k].pad, s[k].num, l)]
           found == [at |-> s[k].at, fam |-> loose[1][2],
                     doc |-> CanonicalId(loose[1][2], "", s[loose[2]].lead, l)]
<1>1. MentionAt(s, k, l) = CASE s[k].kind = "doc" -> <<spelled>>
                             [] s[k].kind # "doc" /\ LooseAt(s, k) # {} -> <<found>>
                             [] OTHER -> << >>
  BY DEF MentionAt
<1> HIDE DEF spelled, found
<1> QED BY <1>1 DEF AtMostOne

LEMMA HeadIs == \A s, k : AtMostOne(HeadAt(s, k)) /\ AtMostOne(TailAt(s, k))
<1>1. \A s, k : AtMostOne(HeadAt(s, k))
  BY DEF HeadAt, AtMostOne
<1>2. \A s, k : AtMostOne(TailAt(s, k))
  BY DEF TailAt, AtMostOne
<1> QED BY <1>1, <1>2

-----------------------------------------------------------------------------
(***************************************************************************)
(* Sequences of one or none, flattened                                     *)
(***************************************************************************)
\* A finite set as a sequence has the elements of the set.
LEMMA SetToSeqIs ==
    ASSUME NEW S, IsFiniteSet(S)
    PROVE  SetToSeq(S) \in Seq(S) /\ Range(SetToSeq(S)) = S
<1>1. PICK n \in Nat : n = Cardinality(S) /\ ExistsBijection(1..n, S)
  BY FS_CardinalityType
<1>2. \E f \in [1..n -> S] : IsInjective(f)
  BY <1>1 DEF ExistsBijection, Bijection, Injection
<1>3. SetToSeq(S) \in [1..n -> S] /\ IsInjective(SetToSeq(S))
  BY <1>1, <1>2 DEF SetToSeq
<1>4. SetToSeq(S) \in Injection(1..n, S)
  BY <1>3 DEF Injection
<1>5. Cardinality(1..n) = n
  BY FS_Interval
<1>6. SetToSeq(S) \in Surjection(1..n, S)
  BY <1>1, <1>4, <1>5, FS_Injection
<1>7. \A x \in S : \E i \in 1..n : SetToSeq(S)[i] = x
  BY <1>6 DEF Surjection
<1>8. DOMAIN SetToSeq(S) = 1..n /\ \A i \in 1..n : SetToSeq(S)[i] \in S
  BY <1>3
<1>9. Range(SetToSeq(S)) = S
  BY <1>7, <1>8 DEF Range
<1> QED BY <1>3, <1>9

\* What stands in some sequences flattened stands in one of them.
LEMMA RangeOfFlat ==
    ASSUME NEW n \in Nat, NEW ss, ss = [k \in 1..n |-> ss[k]],
           \A k \in 1..n : ss[k] \in Seq(Range(ss[k]))
    PROVE  /\ FlattenSeq(ss) \in Seq(Range(FlattenSeq(ss)))
           /\ Range(FlattenSeq(ss)) = UNION {Range(ss[k]) : k \in 1..n}
<1>1. PICK S : S = UNION {Range(ss[k]) : k \in 1..n}
  OBVIOUS
<1>2. ASSUME NEW k \in 1..n PROVE ss[k] \in Seq(S)
  <2>1. Range(ss[k]) \subseteq S
    BY <1>1
  <2> QED BY <2>1, SeqOver
<1>3. ss \in [1..n -> Seq(S)]
  BY <1>2
<1> DEFINE flat == FlattenSeq(ss)
<1>4. flat \in Seq(S) /\ Joined(flat, ss, n)
  BY <1>3, FlattenIs
<1> HIDE DEF flat
<1>5. PICK p, q : JoinedAt(flat, ss, n, p, q)
  BY <1>4 DEF Joined
<1>6. PICK m \in Nat : DOMAIN flat = 1..m /\ flat = [i \in 1..m |-> flat[i]]
  BY <1>4
<1>7. \A j \in DOMAIN flat : flat[j] \in S
  BY <1>4
<1>8. ASSUME NEW k \in 1..n, NEW x \in Range(ss[k]) PROVE x \in Range(flat)
  <2>1. PICK i \in DOMAIN ss[k] : x = ss[k][i]
    BY <1>8 DEF Range
  <2>2. PICK j \in DOMAIN flat : p[j] = k /\ q[j] = i
    BY <1>5, <2>1 DEF JoinedAt
  <2>3. flat[j] = ss[k][i]
    BY <1>5, <2>2 DEF JoinedAt
  <2> QED BY <2>1, <2>2, <2>3 DEF Range
<1>9. Range(flat) = S
  BY <1>1, <1>7, <1>8 DEF Range
<1>10. flat \in Seq(Range(flat))
  BY <1>4, <1>9
<1> QED BY <1>1, <1>9, <1>10 DEF flat

\* A sequence of one or none, and what a sequence over its values is.
LEMMA ShortIsList == ASSUME NEW q, AtMostOne(q) PROVE IsList(q)
<1>1. CASE q = << >>
  BY <1>1 DEF IsList
<1>2. CASE \E x : q = <<x>>
  <2>1. PICK x : q = <<x>>
    BY <1>2
  <2>2. Range(q) = {x}
    BY <2>1 DEF Range
  <2> QED BY <2>1, <2>2 DEF IsList
<1> QED BY <1>1, <1>2 DEF AtMostOne

LEMMA ListIs ==
    ASSUME NEW q, IsList(q)
    PROVE  \E n \in Nat : n = Len(q) /\ DOMAIN q = 1..n /\ q = [i \in 1..n |-> q[i]]
BY DEF IsList

\* A tuple of candidates, one for each element of another.
LEMMA MappedIs ==
    ASSUME NEW q, IsList(q), NEW f, DOMAIN f = DOMAIN q, f = [i \in DOMAIN q |-> f[i]]
    PROVE  f \in Seq(Range(f))
<1>1. PICK n \in Nat : DOMAIN q = 1..n
  BY ListIs
<1> QED BY <1>1, ListedIs

\* The amounts at a token: its head's, and its tail's.
LEMMA AmountIs ==
    ASSUME NEW s, NEW k
    PROVE  /\ IsList(AmountAt(s, k))
           /\ Range(AmountAt(s, k)) = Range(HeadAt(s, k)) \cup Range(TailAt(s, k))
<1>1. IsList(HeadAt(s, k)) /\ IsList(TailAt(s, k))
  BY HeadIs, ShortIsList
<1> QED BY <1>1, RangeOfTwo DEF AmountAt, IsList

-----------------------------------------------------------------------------
(***************************************************************************)
(* The documents of a claim                                                *)
(***************************************************************************)
\* The mentions of a sentence, and the documents at some of them.
LEMMA MentionsAre ==
    ASSUME NEW s, IsSentence(s), NEW l
    PROVE  IsList(Mentions(s, l))
<1>1. PICK n \in Nat : n = Len(s) /\ DOMAIN s = 1..n
  BY DEF IsSentence, IsList
<1> DEFINE ss == [k \in 1..n |-> MentionAt(s, k, l)]
<1>2. Mentions(s, l) = FlattenSeq(ss)
  <2>1. ss = [k \in 1..n |-> ss[k]]
    OBVIOUS
  <2> HIDE DEF ss
  <2>2. Listed(ss) = ss
    BY <2>1, ListedIs
  <2> QED BY <1>1, <2>2 DEF Mentions, ss
<1>3. \A k \in 1..n : ss[k] \in Seq(Range(ss[k]))
  <2> TAKE k \in 1..n
  <2>1. AtMostOne(ss[k])
    BY MentionIs
  <2> HIDE DEF ss
  <2> QED BY <2>1, ShortIsList DEF IsList
<1>4. ss = [k \in 1..n |-> ss[k]]
  OBVIOUS
<1> HIDE DEF ss
<1> QED BY <1>2, <1>3, <1>4, RangeOfFlat DEF IsList

LEMMA DocsAtAre ==
    ASSUME NEW mentions, IsList(mentions), NEW places
    PROVE  /\ IsList(DocsAt(mentions, places))
           /\ Range(DocsAt(mentions, places))
                = {mentions[k].doc : k \in places \cap DOMAIN mentions}
<1>1. PICK n \in Nat : n = Len(mentions) /\ DOMAIN mentions = 1..n
  BY ListIs
<1> DEFINE ss == [k \in 1..n |-> IF k \in places THEN <<mentions[k].doc>> ELSE << >>]
<1>2. DocsAt(mentions, places) = FlattenSeq(ss)
  <2>1. ss = [k \in 1..n |-> ss[k]]
    OBVIOUS
  <2> HIDE DEF ss
  <2>2. Listed(ss) = ss
    BY <2>1, ListedIs
  <2> QED BY <1>1, <2>2 DEF DocsAt, ss
<1>3. ASSUME NEW k \in 1..n
      PROVE  /\ AtMostOne(ss[k])
             /\ k \in places => Range(ss[k]) = {mentions[k].doc}
             /\ k \notin places => Range(ss[k]) = {}
  BY DEF AtMostOne, Range
<1>4. ss = [k \in 1..n |-> ss[k]]
  OBVIOUS
<1> HIDE DEF ss
<1>5. \A k \in 1..n : ss[k] \in Seq(Range(ss[k]))
  BY <1>3, ShortIsList DEF IsList
<1>6. /\ FlattenSeq(ss) \in Seq(Range(FlattenSeq(ss)))
      /\ Range(FlattenSeq(ss)) = UNION {Range(ss[k]) : k \in 1..n}
  BY <1>4, <1>5, RangeOfFlat
<1>7. UNION {Range(ss[k]) : k \in 1..n} = {mentions[k].doc : k \in places \cap DOMAIN mentions}
  <2>1. ASSUME NEW k \in places \cap DOMAIN mentions
        PROVE  mentions[k].doc \in UNION {Range(ss[j]) : j \in 1..n}
    BY <1>1, <1>3
  <2>2. ASSUME NEW k \in 1..n, NEW d \in Range(ss[k])
        PROVE  k \in places \cap DOMAIN mentions /\ d = mentions[k].doc
    BY <1>1, <1>3
  <2>3. \A k \in 1..n : \A d \in Range(ss[k]) :
          d \in {mentions[i].doc : i \in places \cap DOMAIN mentions}
    BY <2>2
  <2> QED BY <2>1, <2>3
<1> QED BY <1>2, <1>6, <1>7 DEF IsList

\* An amount, a date or a status is bound to one document, to a list or to none.
LEMMA NearIs ==
    ASSUME NEW mentions, NEW pos
    PROVE  /\ AtMostOne(Preceding(mentions, pos))
           /\ AtMostOne(Following(mentions, pos))
           /\ AtMostOne(NearestDoc(mentions, pos))
BY DEF AtMostOne, Preceding, Following, NearestDoc

\* The role word of an amount is one the table of figures has.
LEMMA RoleIs == ASSUME NEW w, NEW a PROVE RoleOf(w, a) \in Roles
<1>1. \A dist : NearestRole(dist) \in Roles
  BY DEF NearestRole, Roles
<1> QED BY <1>1 DEF RoleOf

LEMMA ClassIs ==
    ASSUME NEW s, NEW a, NEW amounts, NEW mentions, IsList(mentions)
    PROVE  /\ ClassifyAmount(s, a, amounts, mentions).type \in {"C-AMT", "C-SUM"}
           /\ IsList(ClassifyAmount(s, a, amounts, mentions).docs)
           /\ ClassifyAmount(s, a, amounts, mentions).role \in Roles
<1>1. IsList(Preceding(mentions, a.at)) /\ IsList(Following(mentions, a.at)) /\ IsList(<< >>)
  BY NearIs, ShortIsList DEF AtMostOne
<1>2. IsList(SubtotalDocs(s, mentions))
  BY <1>1, DocsAtAre DEF SubtotalDocs
<1>3. \A docs, role : /\ Class("C-AMT", docs, role).type = "C-AMT"
                      /\ Class("C-SUM", docs, role).type = "C-SUM"
                      /\ Class("C-AMT", docs, role).docs = docs
                      /\ Class("C-SUM", docs, role).docs = docs
                      /\ Class("C-AMT", docs, role).role = role
                      /\ Class("C-SUM", docs, role).role = role
  BY DEF Class
<1>5. \A w : RoleOf(w, a) \in Roles /\ "total" \in Roles /\ "unknown" \in Roles
  BY RoleIs DEF Roles
<1>4. \/ \E docs, role : /\ ClassifyAmount(s, a, amounts, mentions) = Class("C-AMT", docs, role)
                         /\ IsList(docs) /\ role \in Roles
      \/ \E docs, role : /\ ClassifyAmount(s, a, amounts, mentions) = Class("C-SUM", docs, role)
                         /\ IsList(docs) /\ role \in Roles
  BY <1>1, <1>2, <1>5 DEF ClassifyAmount
<1> QED BY <1>3, <1>4

LEMMA DateDocsAre ==
    ASSUME NEW s, NEW pos, NEW amounts, NEW mentions, IsList(mentions)
    PROVE  IsList(DateDocs(s, pos, amounts, mentions))
<1>1. IsList(NearestDoc(mentions, pos))
  BY NearIs, ShortIsList
<1>2. \A P : IsList(DocsAt(mentions, P))
  BY DocsAtAre
<1> QED BY <1>1, <1>2 DEF DateDocs

\* Finitely many statuses are stated in a sentence.
LEMMA StatusesFinite ==
    ASSUME NEW s, IsSentence(s)
    PROVE  \A pos : IsFiniteSet({h.word : h \in {h \in StatusesIn(s) : h.at = pos}})
<1>1. PICK n \in Nat : n = Len(s) /\ DOMAIN s = 1..n
  BY DEF IsSentence, IsList
<1> DEFINE plain == Matches(s, StatusPhrases)
           para  == Matches(s, PaidParaphrases)
<1>2. IsFiniteSet(plain) /\ IsFiniteSet(para)
  BY <1>1, MatchesBegin
<1>3. IsFiniteSet(Stated(plain))
  <2>1. PICK f : f = [m \in plain |-> [at |-> m.at, word |-> StatusWord(m.words)]]
    OBVIOUS
  <2>2. Stated(plain) = {f[m] : m \in plain}
    BY <2>1 DEF Stated
  <2> HIDE DEF plain
  <2> QED BY <1>2, <2>1, <2>2, ImageFinite
<1>4. IsFiniteSet({[at |-> m.at, word |-> "paid"] : m \in para})
  <2>1. PICK f : f = [m \in para |-> [at |-> m.at, word |-> "paid"]]
    OBVIOUS
  <2>2. {[at |-> m.at, word |-> "paid"] : m \in para} = {f[m] : m \in para}
    BY <2>1
  <2> HIDE DEF para
  <2> QED BY <1>2, <2>1, <2>2, ImageFinite
<1>5. IsFiniteSet(StatusesIn(s))
  <2>1. IsFiniteSet(Stated(plain) \cup {[at |-> m.at, word |-> "paid"] : m \in para})
    BY <1>3, <1>4, FS_Union
  <2>2. StatusesIn(s) \subseteq Stated(plain) \cup {[at |-> m.at, word |-> "paid"] : m \in para}
    BY DEF StatusesIn
  <2> QED BY <2>1, <2>2, FS_Subset
<1> SUFFICES ASSUME NEW pos
             PROVE  IsFiniteSet({h.word : h \in {h \in StatusesIn(s) : h.at = pos}})
  OBVIOUS
<1>6. PICK here : here = {h \in StatusesIn(s) : h.at = pos}
  OBVIOUS
<1>7. IsFiniteSet(here)
  BY <1>5, <1>6, FS_Subset
<1>8. PICK f : f = [h \in here |-> h.word]
  OBVIOUS
<1>9. {h.word : h \in here} = {f[h] : h \in here}
  BY <1>8
<1> QED BY <1>6, <1>7, <1>8, <1>9, ImageFinite

-----------------------------------------------------------------------------
(***************************************************************************)
(* The candidates of one token of a draft                                  *)
(***************************************************************************)
\* The candidates of token k.
TokenCandidates(r, k, l) ==
    ExistCandidates(r, k, l) \o AmountCandidates(r, k) \o DateCandidates(r, k)
      \o StatusCandidates(r, k) \o FuzzyCandidates(r, k)

IsCandidate(c) == c.key[1] = c.claim /\ ExtractedClaim(c.claim)

\* A candidate is a claim with its key.
LEMMA CandidateIs ==
    ASSUME NEW r, r.cues \subseteq SpanCues, NEW type \in ClaimTypes, NEW token, NEW word,
           NEW num, NEW docs, IsList(docs), NEW role \in Roles, NEW preset \in BOOLEAN
    PROVE  IsCandidate(Candidate(r, type, token, word, num, docs, role, preset))
<1> DEFINE claim == [type |-> type, word |-> word, num |-> num, docs |-> docs,
                     role |-> role, span |-> r.cues, preset |-> preset]
           c == Candidate(r, type, token, word, num, docs, role, preset)
<1>1. c.claim = claim /\ c.key = <<claim, r.s, token>>
  BY DEF Candidate
<1>2. /\ claim.type = type /\ claim.docs = docs /\ claim.span = r.cues
      /\ claim.preset = preset /\ claim.role = role
  OBVIOUS
<1> HIDE DEF claim
<1>3. DocsOf(claim) = Range(docs)
  BY <1>2 DEF DocsOf, Range
<1>4. ExtractedClaim(claim)
  BY <1>2, <1>3 DEF ExtractedClaim, IsList
<1> QED BY <1>1, <1>4 DEF IsCandidate

\* A sentence as read, with no more than its proof needs.
LEMMA ReadingIs ==
    ASSUME NEW sentence, IsSentence(sentence), NEW l
    PROVE  /\ Reading(sentence, l).s = LaidOut(sentence)
           /\ Reading(sentence, l).amounts = Amounts(LaidOut(sentence))
           /\ Reading(sentence, l).mentions = Mentions(LaidOut(sentence), l)
           /\ Reading(sentence, l).statuses = StatusesIn(LaidOut(sentence))
           /\ Reading(sentence, l).cues = SpanCuesOf(LaidOut(sentence))
           /\ Reading(sentence, l).cues \subseteq SpanCues
           /\ IsList(Reading(sentence, l).mentions)
<1>1. SpanCuesOf(LaidOut(sentence)) \subseteq SpanCues
  BY DEF SpanCuesOf
<1>2. IsList(Mentions(LaidOut(sentence), l))
  BY LaidOutTokens, MentionsAre
<1> QED BY <1>1, <1>2 DEF Reading

LEMMA UnknownIs == "unknown" \in Roles
BY DEF Roles

AreCandidates(q) == IsList(q) /\ \A c \in Range(q) : IsCandidate(c)

\* The candidates of each kind at a token are claims the checkers know.
LEMMA ExistAre ==
    ASSUME NEW r, r.cues \subseteq SpanCues, NEW k, NEW l
    PROVE  AreCandidates(ExistCandidates(r, k, l))
<1>1. PICK q : q = MentionAt(r.s, k, l) /\ IsList(q)
  BY MentionIs, ShortIsList
<1>2. PICK e : e = ExistCandidates(r, k, l)
  OBVIOUS
<1>3. /\ DOMAIN e = DOMAIN q
      /\ e = [i \in DOMAIN q |-> e[i]]
      /\ \A i \in DOMAIN q : e[i] = Candidate(r, "C-EXIST", q[i].doc, q[i].doc, 0,
                                              << >>, "unknown", FALSE)
  BY <1>1, <1>2 DEF ExistCandidates
<1>4. IsList(<< >>) /\ "C-EXIST" \in ClaimTypes
  BY ShortIsList DEF AtMostOne, ClaimTypes
<1>5. \A i \in DOMAIN q : IsCandidate(e[i])
  <2>1. ASSUME NEW d
        PROVE  IsCandidate(Candidate(r, "C-EXIST", d, d, 0, << >>, "unknown", FALSE))
    BY <1>4, UnknownIs, CandidateIs
  <2> QED BY <1>3, <2>1
<1>6. e \in Seq(Range(e))
  BY <1>1, <1>3, MappedIs
<1> QED BY <1>2, <1>3, <1>5, <1>6 DEF AreCandidates, IsList, Range

\* No span, or one.
Spanned(q) ==
    q = << >> \/ \E at, end, token, num : \E preset \in BOOLEAN :
                   q = <<Span(at, end, token, num, preset)>>

LEMMA PresetIs ==
    ASSUME NEW s, NEW k
    PROVE  \A x \in Range(AmountAt(s, k)) : x.preset \in BOOLEAN
<1>1. \A at, end, token, num : /\ Spanned(<<Span(at, end, token, num, FALSE)>>)
                               /\ Spanned(<<Span(at, end, token, num, TRUE)>>)
  BY DEF Spanned
<1>2. Spanned(<< >>)
  BY DEF Spanned
<1>3. Spanned(HeadAt(s, k))
  BY <1>1, <1>2 DEF HeadAt
<1>4. Spanned(TailAt(s, k))
  BY <1>1, <1>2 DEF TailAt
<1>5. ASSUME NEW q, Spanned(q), NEW x \in Range(q)
      PROVE  x.preset \in BOOLEAN
  <2>1. CASE q = << >>
    BY <1>5, <2>1 DEF Range
  <2>2. ASSUME NEW at, NEW end, NEW token, NEW num, NEW preset \in BOOLEAN,
               q = <<Span(at, end, token, num, preset)>>
        PROVE  x.preset \in BOOLEAN
    <3>1. Range(q) = {Span(at, end, token, num, preset)}
      BY <2>2 DEF Range
    <3>2. Span(at, end, token, num, preset).preset = preset
      BY DEF Span
    <3> QED BY <1>5, <3>1, <3>2
  <2> QED BY <1>5, <2>1, <2>2 DEF Spanned
<1> QED BY <1>3, <1>4, <1>5, AmountIs

LEMMA AmountsAre ==
    ASSUME NEW r, r.cues \subseteq SpanCues, IsList(r.mentions), NEW k
    PROVE  AreCandidates(AmountCandidates(r, k))
<1>1. PICK q : q = AmountAt(r.s, k) /\ IsList(q)
  BY AmountIs
<1>2. PICK e : e = AmountCandidates(r, k)
  OBVIOUS
<1> DEFINE class(i) == ClassifyAmount(r.s, q[i], r.amounts, r.mentions)
<1>3. /\ DOMAIN e = DOMAIN q
      /\ e = [i \in DOMAIN q |-> e[i]]
      /\ \A i \in DOMAIN q : e[i] = Candidate(r, class(i).type, q[i].token, "", q[i].num,
                                              class(i).docs, class(i).role, q[i].preset)
  BY <1>1, <1>2 DEF AmountCandidates, AmountCandidate
<1>4. \A i : /\ class(i).type \in {"C-AMT", "C-SUM"} /\ IsList(class(i).docs)
            /\ class(i).role \in Roles
  BY ClassIs
<1>5. \A i \in DOMAIN q : q[i].preset \in BOOLEAN
  <2>1. \A i \in DOMAIN q : q[i] \in Range(q)
    BY DEF Range
  <2> QED BY <1>1, <2>1, PresetIs
<1>6. ASSUME NEW i \in DOMAIN q PROVE IsCandidate(e[i])
  <2>1. PICK type, docs, role, token, num, preset :
          /\ type = class(i).type /\ docs = class(i).docs /\ role = class(i).role
          /\ token = q[i].token /\ num = q[i].num /\ preset = q[i].preset
    OBVIOUS
  <2>2. type \in ClaimTypes /\ IsList(docs) /\ role \in Roles /\ preset \in BOOLEAN
    BY <1>4, <1>5, <2>1 DEF ClaimTypes
  <2>3. IsCandidate(Candidate(r, type, token, "", num, docs, role, preset))
    BY <2>2, CandidateIs
  <2> HIDE DEF class
  <2> QED BY <1>3, <2>1, <2>3
<1>7. e \in Seq(Range(e))
  BY <1>1, <1>3, MappedIs
<1> QED BY <1>2, <1>3, <1>6, <1>7 DEF AreCandidates, IsList, Range

\* One candidate, none, and two sequences of them.
LEMMA OneCandidate ==
    ASSUME NEW c, IsCandidate(c)
    PROVE  AreCandidates(<<c>>)
<1>1. IsList(<<c>>)
  BY ShortIsList DEF AtMostOne
<1>2. Range(<<c>>) = {c}
  BY DEF Range
<1> QED BY <1>1, <1>2 DEF AreCandidates

LEMMA NoCandidate == AreCandidates(<< >>)
<1>1. IsList(<< >>)
  BY ShortIsList DEF AtMostOne
<1>2. Range(<< >>) = {}
  BY DEF Range
<1> QED BY <1>1, <1>2 DEF AreCandidates

LEMMA DatesAre ==
    ASSUME NEW r, r.cues \subseteq SpanCues, IsList(r.mentions), NEW k
    PROVE  AreCandidates(DateCandidates(r, k))
<1>1. IsList(DateDocs(r.s, r.s[k].at, r.amounts, r.mentions))
  BY DateDocsAre
<1>2. "C-DATE" \in ClaimTypes
  BY DEF ClaimTypes
<1>3. \A num, token : IsCandidate(Candidate(r, "C-DATE", token, "", num,
                 DateDocs(r.s, r.s[k].at, r.amounts, r.mentions), "unknown", FALSE))
  BY <1>1, <1>2, UnknownIs, CandidateIs
<1> QED BY <1>3, OneCandidate, NoCandidate DEF DateCandidates

LEMMA FuzzyAre ==
    ASSUME NEW r, r.cues \subseteq SpanCues, NEW k
    PROVE  AreCandidates(FuzzyCandidates(r, k))
<1>1. IsList(<< >>) /\ "C-FUZZY" \in ClaimTypes
  BY ShortIsList DEF AtMostOne, ClaimTypes
<1>2. IsCandidate(Candidate(r, "C-FUZZY", "", "", 0, << >>, "unknown", FALSE))
  BY <1>1, UnknownIs, CandidateIs
<1> QED BY <1>2, OneCandidate, NoCandidate DEF FuzzyCandidates

\* One status of each word is stated at token k, of the document nearest to it.
StatedAt(r, k) ==
    IF r.mentions = << >> THEN {}
    ELSE {h.word : h \in {h \in r.statuses : h.at = r.s[k].at}}

\* A sentence that names a document has a claim for each status it states.
LEMMA StatusesAre ==
    ASSUME NEW r, r.cues \subseteq SpanCues, NEW k, IsFiniteSet(StatedAt(r, k))
    PROVE  /\ AreCandidates(StatusCandidates(r, k))
           /\ Range(StatusCandidates(r, k))
                = {Candidate(r, "C-STATUS", w, w, 0, NearestDoc(r.mentions, r.s[k].at),
                             "unknown", FALSE) : w \in StatedAt(r, k)}
<1>1. PICK words : words = IF r.mentions = << >> THEN << >>
            ELSE SetToSeq({h.word : h \in {h \in r.statuses : h.at = r.s[k].at}})
  OBVIOUS
<1>2. words \in Seq(StatedAt(r, k)) /\ Range(words) = StatedAt(r, k)
  <2>1. CASE r.mentions = << >>
    BY <1>1, <2>1 DEF StatedAt, Range
  <2>2. CASE r.mentions # << >>
    <3>1. words = SetToSeq(StatedAt(r, k))
      BY <1>1, <2>2 DEF StatedAt
    <3> QED BY <3>1, SetToSeqIs
  <2> QED BY <2>1, <2>2
<1>3. PICK n \in Nat : DOMAIN words = 1..n
  BY <1>2
<1>4. PICK e : e = StatusCandidates(r, k)
  OBVIOUS
<1> DEFINE stated(w) == Candidate(r, "C-STATUS", w, w, 0, NearestDoc(r.mentions, r.s[k].at),
                                  "unknown", FALSE)
<1>5. e = [i \in DOMAIN words |-> stated(words[i])]
  BY <1>1, <1>4 DEF StatusCandidates
<1>6. ASSUME NEW w PROVE IsCandidate(stated(w))
  <2>1. IsList(NearestDoc(r.mentions, r.s[k].at)) /\ "C-STATUS" \in ClaimTypes
    BY NearIs, ShortIsList DEF ClaimTypes
  <2> QED BY <2>1, UnknownIs, CandidateIs
<1> HIDE DEF stated
<1>7. e = [i \in 1..n |-> e[i]] /\ \A i \in 1..n : e[i] = stated(words[i])
  BY <1>3, <1>5
<1>8. IsList(e)
  BY <1>7, ListedIs DEF IsList
<1>9. Range(e) = {stated(w) : w \in StatedAt(r, k)}
  BY <1>2, <1>3, <1>7 DEF Range
<1>10. AreCandidates(e)
  BY <1>6, <1>8, <1>9 DEF AreCandidates
<1> QED BY <1>4, <1>9, <1>10 DEF stated

LEMMA TwoAre ==
    ASSUME NEW a, NEW b, AreCandidates(a), AreCandidates(b)
    PROVE  AreCandidates(a \o b) /\ Range(a \o b) = Range(a) \cup Range(b)
<1>1. Range(a \o b) = Range(a) \cup Range(b) /\ a \o b \in Seq(Range(a \o b))
  BY RangeOfTwo DEF AreCandidates, IsList
<1> QED BY <1>1 DEF AreCandidates, IsList

\* All of them together.
LEMMA TokenCandidatesAre ==
    ASSUME NEW r, r.cues \subseteq SpanCues, IsList(r.mentions), NEW k, NEW l,
           IsFiniteSet(StatedAt(r, k))
    PROVE  /\ AreCandidates(TokenCandidates(r, k, l))
           /\ Range(TokenCandidates(r, k, l))
                = Range(ExistCandidates(r, k, l)) \cup Range(AmountCandidates(r, k))
                    \cup Range(DateCandidates(r, k)) \cup Range(StatusCandidates(r, k))
                    \cup Range(FuzzyCandidates(r, k))
<1>1. PICK a, b, c, d, e : /\ a = ExistCandidates(r, k, l) /\ b = AmountCandidates(r, k)
                           /\ c = DateCandidates(r, k) /\ d = StatusCandidates(r, k)
                           /\ e = FuzzyCandidates(r, k)
  OBVIOUS
<1>2. /\ AreCandidates(a) /\ AreCandidates(b) /\ AreCandidates(c) /\ AreCandidates(d)
      /\ AreCandidates(e)
  BY <1>1, ExistAre, AmountsAre, DatesAre, StatusesAre, FuzzyAre
<1>3. AreCandidates(a \o b) /\ Range(a \o b) = Range(a) \cup Range(b)
  BY <1>2, TwoAre
<1>4. AreCandidates(a \o b \o c) /\ Range(a \o b \o c) = Range(a \o b) \cup Range(c)
  BY <1>2, <1>3, TwoAre
<1>5. AreCandidates(a \o b \o c \o d) /\ Range(a \o b \o c \o d) = Range(a \o b \o c) \cup Range(d)
  BY <1>2, <1>4, TwoAre
<1>6. /\ AreCandidates(a \o b \o c \o d \o e)
      /\ Range(a \o b \o c \o d \o e) = Range(a \o b \o c \o d) \cup Range(e)
  BY <1>2, <1>5, TwoAre
<1>7. TokenCandidates(r, k, l) = a \o b \o c \o d \o e
  BY <1>1 DEF TokenCandidates
<1> QED BY <1>1, <1>3, <1>4, <1>5, <1>6, <1>7

-----------------------------------------------------------------------------
(***************************************************************************)
(* Extraction: every candidate is a claim, and every claim was one         *)
(***************************************************************************)
\* The candidates of a sentence, and of a draft.
InSentence(sentence, l) ==
    UNION {Range(TokenCandidates(Reading(sentence, l), k, l)) : k \in DOMAIN sentence}
InDraft(draft, l) == UNION {InSentence(draft[k], l) : k \in DOMAIN draft}

\* The candidates of some tokens, of a sentence and of a draft.
LEMMA FlatAre ==
    ASSUME NEW n \in Nat, NEW ss, ss = [k \in 1..n |-> ss[k]],
           \A k \in 1..n : AreCandidates(ss[k])
    PROVE  /\ AreCandidates(FlattenSeq(Listed(ss)))
           /\ Range(FlattenSeq(Listed(ss))) = UNION {Range(ss[k]) : k \in 1..n}
<1>1. Listed(ss) = ss
  BY ListedIs
<1>2. \A k \in 1..n : ss[k] \in Seq(Range(ss[k]))
  BY DEF AreCandidates, IsList
<1>3. /\ FlattenSeq(ss) \in Seq(Range(FlattenSeq(ss)))
      /\ Range(FlattenSeq(ss)) = UNION {Range(ss[k]) : k \in 1..n}
  BY <1>2, RangeOfFlat
<1>4. \A c \in Range(FlattenSeq(ss)) : IsCandidate(c)
  BY <1>3 DEF AreCandidates
<1> QED BY <1>1, <1>3, <1>4 DEF AreCandidates, IsList

LEMMA SentenceCandidates ==
    ASSUME NEW sentence, IsSentence(sentence), NEW l
    PROVE  /\ AreCandidates(Candidates(sentence, l))
           /\ Range(Candidates(sentence, l)) = InSentence(sentence, l)
<1>1. PICK n \in Nat : n = Len(sentence) /\ DOMAIN sentence = 1..n
  BY DEF IsSentence, IsList
<1>2. PICK r : r = Reading(sentence, l)
  OBVIOUS
<1>3. r.cues \subseteq SpanCues /\ IsList(r.mentions) /\ r.statuses = StatusesIn(LaidOut(sentence))
  BY <1>2, ReadingIs
<1>4. IsSentence(LaidOut(sentence))
  BY LaidOutTokens
<1>5. \A k : IsFiniteSet(StatedAt(r, k))
  <2> TAKE k
  <2>1. IsFiniteSet({h.word : h \in {h \in r.statuses : h.at = r.s[k].at}})
    BY <1>3, <1>4, StatusesFinite
  <2>2. IsFiniteSet({})
    BY FS_EmptySet
  <2> QED BY <2>1, <2>2 DEF StatedAt
<1>6. \A k : AreCandidates(TokenCandidates(r, k, l))
  BY <1>3, <1>5, TokenCandidatesAre
<1>7. PICK ss : ss = [k \in 1..n |-> TokenCandidates(r, k, l)]
  OBVIOUS
<1>8. Candidates(sentence, l) = FlattenSeq(Listed(ss))
  BY <1>1, <1>2, <1>7 DEF Candidates, TokenCandidates
<1>9. ss = [k \in 1..n |-> ss[k]] /\ \A k \in 1..n : AreCandidates(ss[k])
  BY <1>6, <1>7
<1>10. /\ AreCandidates(FlattenSeq(Listed(ss)))
       /\ Range(FlattenSeq(Listed(ss))) = UNION {Range(ss[k]) : k \in 1..n}
  BY <1>9, FlatAre
<1>11. UNION {Range(ss[k]) : k \in 1..n} = InSentence(sentence, l)
  BY <1>1, <1>2, <1>7 DEF InSentence
<1> QED BY <1>8, <1>10, <1>11

LEMMA DraftCandidates ==
    ASSUME NEW draft, IsDraft(draft), NEW l
    PROVE  LET found == FlattenSeq(Listed([k \in DOMAIN draft |-> Candidates(draft[k], l)]))
           IN  AreCandidates(found) /\ Range(found) = InDraft(draft, l)
<1>1. PICK n \in Nat : n = Len(draft) /\ DOMAIN draft = 1..n
  BY DEF IsDraft, IsList
<1>2. PICK ss : ss = [k \in DOMAIN draft |-> Candidates(draft[k], l)]
  OBVIOUS
<1>3. \A k \in 1..n : /\ AreCandidates(ss[k])
                      /\ Range(ss[k]) = InSentence(draft[k], l)
  BY <1>1, <1>2, SentenceCandidates DEF IsDraft
<1>4. ss = [k \in 1..n |-> ss[k]]
  BY <1>1, <1>2
<1>5. /\ AreCandidates(FlattenSeq(Listed(ss)))
      /\ Range(FlattenSeq(Listed(ss))) = UNION {Range(ss[k]) : k \in 1..n}
  BY <1>3, <1>4, FlatAre
<1>6. UNION {Range(ss[k]) : k \in 1..n} = InDraft(draft, l)
  <2>1. {Range(ss[k]) : k \in 1..n} = {InSentence(draft[k], l) : k \in DOMAIN draft}
    BY <1>1, <1>3
  <2> QED BY <2>1 DEF InDraft
<1> QED BY <1>2, <1>5, <1>6

\* Some claim looks a document up.
LooksUp(claims, word) == \E c \in Range(claims) : c.type = "C-EXIST" /\ c.word = word

\* Extraction loses no candidate and makes none up: every claim is that of a
\* candidate, and the claim of every candidate is kept, or a document it names
\* is looked up already (surface.py:317-364).
THEOREM ExtractionIs ==
    ASSUME NEW draft, IsDraft(draft), NEW l
    PROVE  /\ IsList(ExtractClaims(draft, l))
           /\ \A c \in Range(ExtractClaims(draft, l)) : ExtractedClaim(c)
           /\ \A c \in Range(ExtractClaims(draft, l)) : \E x \in InDraft(draft, l) : c = x.claim
           /\ \A x \in InDraft(draft, l) :
                \/ x.claim \in Range(ExtractClaims(draft, l))
                \/ x.claim.type = "C-EXIST" /\ LooksUp(ExtractClaims(draft, l), x.claim.word)
<1>1. PICK found :
        /\ found = FlattenSeq(Listed([k \in DOMAIN draft |-> Candidates(draft[k], l)]))
        /\ AreCandidates(found) /\ Range(found) = InDraft(draft, l)
  BY DraftCandidates
<1>2. found \in Seq(Range(found)) /\ \A x \in Range(found) : IsCandidate(x)
  BY <1>1 DEF AreCandidates, IsList
<1>3. PICK kept : kept = Deduped(found)
  OBVIOUS
<1>4. /\ kept \in Seq(Range(found))
      /\ \A j \in DOMAIN kept : \E k \in DOMAIN found : kept[j] = found[k]
      /\ \A k \in DOMAIN found : Repeats(found[k], kept)
  BY <1>2, <1>3, DedupedIs
<1>5. PICK n \in Nat : DOMAIN kept = 1..n
  BY <1>4
<1>6. PICK claims : claims = ExtractClaims(draft, l)
  OBVIOUS
<1>7. claims = [k \in 1..n |-> kept[k].claim] /\ IsList(claims)
  <2>1. PICK f : f = [k \in DOMAIN kept |-> kept[k].claim]
    OBVIOUS
  <2>2. f = [k \in 1..n |-> f[k]]
    BY <1>5, <2>1
  <2>3. Listed(f) = f /\ f \in Seq(Range(f))
    BY <2>2, ListedIs
  <2>4. claims = f
    BY <1>1, <1>3, <1>6, <2>1, <2>3 DEF ExtractClaims, ClaimsOf
  <2> QED BY <1>5, <2>1, <2>3, <2>4 DEF IsList
<1>8. \A j \in 1..n : claims[j] = kept[j].claim /\ kept[j] \in Range(found)
  BY <1>4, <1>5, <1>7
<1>9. ASSUME NEW c \in Range(claims)
      PROVE  ExtractedClaim(c) /\ \E x \in InDraft(draft, l) : c = x.claim
  <2>1. PICK j \in 1..n : c = claims[j]
    BY <1>7 DEF Range
  <2>2. kept[j] \in InDraft(draft, l) /\ c = kept[j].claim
    BY <1>1, <1>8, <2>1
  <2>3. IsCandidate(kept[j])
    BY <1>2, <1>8
  <2> QED BY <2>2, <2>3 DEF IsCandidate
<1>10. ASSUME NEW x \in InDraft(draft, l)
       PROVE  \/ x.claim \in Range(claims)
              \/ x.claim.type = "C-EXIST" /\ LooksUp(claims, x.claim.word)
  <2>1. PICK k \in DOMAIN found : x = found[k]
    BY <1>1 DEF Range
  <2>2. Repeats(x, kept)
    BY <1>4, <2>1
  <2>3. PICK j \in 1..n :
          \/ kept[j].key = x.key
          \/ /\ x.claim.type = "C-EXIST" /\ kept[j].claim.type = "C-EXIST"
             /\ x.claim.word = kept[j].claim.word
    BY <1>5, <2>2 DEF Repeats
  <2>4. kept[j].claim \in Range(claims)
    BY <1>7, <1>8 DEF Range
  <2>5. IsCandidate(x) /\ IsCandidate(kept[j])
    BY <1>1, <1>2, <1>8
  <2>6. CASE kept[j].key = x.key
    BY <2>4, <2>5, <2>6 DEF IsCandidate
  <2>7. CASE kept[j].key # x.key
    BY <2>3, <2>4, <2>7 DEF LooksUp
  <2> QED BY <2>6, <2>7
<1> QED BY <1>6, <1>7, <1>9, <1>10

\* A candidate of any token is one of the draft.
LEMMA OfToken ==
    ASSUME NEW draft, IsDraft(draft), NEW l, NEW k \in DOMAIN draft, NEW j \in DOMAIN draft[k]
    PROVE  LET r == Reading(draft[k], l)
           IN  /\ Range(ExistCandidates(r, j, l)) \subseteq InDraft(draft, l)
               /\ Range(AmountCandidates(r, j)) \subseteq InDraft(draft, l)
               /\ Range(DateCandidates(r, j)) \subseteq InDraft(draft, l)
               /\ Range(StatusCandidates(r, j)) \subseteq InDraft(draft, l)
<1>1. IsSentence(draft[k]) /\ IsSentence(LaidOut(draft[k]))
  BY LaidOutTokens DEF IsDraft
<1>2. PICK r : r = Reading(draft[k], l)
  OBVIOUS
<1>3. r.cues \subseteq SpanCues /\ IsList(r.mentions) /\ r.statuses = StatusesIn(LaidOut(draft[k]))
  BY <1>1, <1>2, ReadingIs
<1>4. IsFiniteSet(StatedAt(r, j))
  <2>1. IsFiniteSet({h.word : h \in {h \in r.statuses : h.at = r.s[j].at}})
    BY <1>1, <1>3, StatusesFinite
  <2>2. IsFiniteSet({})
    BY FS_EmptySet
  <2> QED BY <2>1, <2>2 DEF StatedAt
<1>5. Range(TokenCandidates(r, j, l))
        = Range(ExistCandidates(r, j, l)) \cup Range(AmountCandidates(r, j))
            \cup Range(DateCandidates(r, j)) \cup Range(StatusCandidates(r, j))
            \cup Range(FuzzyCandidates(r, j))
  BY <1>3, <1>4, TokenCandidatesAre
<1>6. Range(TokenCandidates(r, j, l)) \subseteq InDraft(draft, l)
  BY <1>2 DEF InDraft, InSentence
<1> QED BY <1>2, <1>5, <1>6

-----------------------------------------------------------------------------
(***************************************************************************)
(* A draft, verified                                                       *)
(***************************************************************************)
\* The claims of a draft as they are after verification.
Verified(claims, l, results) ==
    \E answer \in VerifierAnswers(l) :
        results = Listed(CheckAll(claims, l, [k \in DOMAIN claims |-> answer]))

\* Each claim has one result, the one its check or the verifier gives.
LEMMA VerifiedIs ==
    ASSUME NEW claims, IsList(claims), NEW l, NEW results, Verified(claims, l, results)
    PROVE  /\ IsList(results) /\ DOMAIN results = DOMAIN claims
           /\ \A k \in DOMAIN claims : results[k].claim = claims[k]
           /\ \A k \in DOMAIN claims : claims[k].type \in CodeCheckedTypes =>
                /\ results[k] = Checked(claims[k], CodeCheck(claims[k], l))
                /\ results[k].status = CodeCheck(claims[k], l).status
           /\ \E answer \in VerifierAnswers(l) : \A k \in DOMAIN claims :
                claims[k].type = "C-FUZZY" =>
                    results[k] = Checked(claims[k], CheckFuzzy(answer, l))
<1>1. PICK n \in Nat : DOMAIN claims = 1..n
  BY ListIs
<1>2. PICK answer \in VerifierAnswers(l) : results = Listed(CheckAll(claims, l, [k \in DOMAIN claims |-> answer]))
  BY DEF Verified
<1>3. PICK coded : coded = RunCodeChecks(claims, l)
  OBVIOUS
<1>4. PICK all : all = CheckAll(claims, l, [k \in DOMAIN claims |-> answer])
  OBVIOUS
<1>5. ASSUME NEW k \in 1..n
      PROVE  coded[k] = Checked(claims[k], IF claims[k].type \in CodeCheckedTypes
                                             THEN CodeCheck(claims[k], l) ELSE Result("none", {}))
  BY <1>1, <1>3 DEF RunCodeChecks
<1>6. /\ all = [k \in 1..n |-> all[k]]
      /\ \A k \in 1..n : all[k] = IF claims[k].type = "C-FUZZY" /\ coded[k].status = "none"
                                    THEN Checked(claims[k], CheckFuzzy(answer, l)) ELSE coded[k]
  BY <1>1, <1>3, <1>4 DEF CheckAll
<1>7. results = all /\ results \in Seq(Range(results))
  BY <1>2, <1>4, <1>6, ListedIs
<1>8. \A c, r : Checked(c, r).claim = c /\ Checked(c, r).status = r.status
  BY DEF Checked
<1>9. ASSUME NEW k \in 1..n
      PROVE  /\ all[k].claim = claims[k]
             /\ claims[k].type \in CodeCheckedTypes =>
                  /\ all[k] = Checked(claims[k], CodeCheck(claims[k], l))
                  /\ all[k].status = CodeCheck(claims[k], l).status
             /\ claims[k].type = "C-FUZZY" =>
                  all[k] = Checked(claims[k], CheckFuzzy(answer, l))
  <2>1. claims[k].type = "C-FUZZY" => claims[k].type \notin CodeCheckedTypes
    BY DEF CodeCheckedTypes
  <2>2. claims[k].type = "C-FUZZY" => coded[k].status = "none"
    <3>1. Result("none", {}).status = "none"
      BY DEF Result
    <3> QED BY <1>5, <1>8, <2>1, <3>1
  <2> QED BY <1>5, <1>6, <1>8, <2>1, <2>2
<1> QED BY <1>1, <1>6, <1>7, <1>9 DEF IsList

\* Where a text that nobody wrote comes from.
CameFrom ==
    LET golden == GoldenDraft(ledger)
    IN  /\ origin = "golden"     => text = golden
        /\ origin = "swapped"    => text \in SwapAmount(golden, ledger)
        /\ origin = "fabricated" => text \in FabricateId(golden, ledger)
        /\ origin = "broken"     => text \in BreakSum(golden, ledger)
        /\ origin = "fuzzy"      => text \in InjectFuzzy(golden)

\* A draft, verified and decided on.
AuditInv ==
    /\ ledger \in Ledgers
    /\ IsDraft(text)
    /\ \A k \in DOMAIN text : Measured(text[k])
    /\ \/ text = << >>
       \/ /\ Verified(ExtractClaims(text, ledger), ledger, checked)
          /\ decision = Decide(checked, DraftOf(text, ledger), ledger, 0, <<text>>)
    /\ CameFrom

\* Every candidate of a verified draft that a check decides is among the results.
LEMMA CandidateChecked ==
    ASSUME AuditInv, NEW k \in DOMAIN text, NEW x \in InDraft(text, ledger),
           x.claim.type # "C-EXIST"
    PROVE  \E c \in DOMAIN checked :
             /\ checked[c].claim = x.claim
             /\ x.claim.type \in CodeCheckedTypes =>
                  checked[c].status = CodeCheck(x.claim, ledger).status
<1>1. IsDraft(text) /\ Verified(ExtractClaims(text, ledger), ledger, checked)
  <2>1. text # << >>
    OBVIOUS
  <2> QED BY <2>1 DEF AuditInv
<1>2. PICK claims : claims = ExtractClaims(text, ledger)
  OBVIOUS
<1>3. IsList(claims) /\ x.claim \in Range(claims)
  BY <1>1, <1>2, ExtractionIs
<1>4. PICK c \in DOMAIN claims : claims[c] = x.claim
  BY <1>3 DEF Range
<1>5. /\ DOMAIN checked = DOMAIN claims
      /\ checked[c].claim = claims[c]
      /\ claims[c].type \in CodeCheckedTypes => checked[c].status = CodeCheck(claims[c], ledger).status
  BY <1>1, <1>2, <1>3, VerifiedIs
<1> QED BY <1>4, <1>5

\* A token laid out looks like what it looked like.
LEMMA LooksTheSame ==
    ASSUME NEW s, IsSentence(s), NEW k \in DOMAIN s
    PROVE  /\ LooksLikeMoney(s, k) => LooksLikeMoney(LaidOut(s), k)
           /\ TakenByMarker(LaidOut(s), k) => TakenByMarker(s, k)
<1> DEFINE L == LaidOut(s)
<1>1. PICK n \in Nat : n = Len(s) /\ DOMAIN s = 1..n
  BY DEF IsSentence, IsList
<1>2. /\ IsSentence(L) /\ Len(L) = Len(s) /\ DOMAIN L = DOMAIN s
      /\ \A j \in DOMAIN s : /\ L[j].kind = s[j].kind /\ L[j].text = s[j].text
                             /\ s[j].kind = "amount" => L[j].form = s[j].form
  BY LaidOutTokens
<1> HIDE DEF L
<1>6. ASSUME NEW j \in DOMAIN s
      PROVE  /\ BareDigits(L[j]) <=> BareDigits(s[j])
             /\ BeginsInDigits(L[j]) <=> BeginsInDigits(s[j])
             /\ EndsInDigits(L[j]) <=> EndsInDigits(s[j])
  BY <1>2 DEF BareDigits, BeginsInDigits, EndsInDigits
<1>3. ASSUME NEW j \in DOMAIN s PROVE Prefixed(L, j) <=> Prefixed(s, j)
  <2>1. j > 1 => j - 1 \in DOMAIN s
    BY <1>1
  <2> QED BY <1>2, <1>6, <2>1 DEF Prefixed
<1>7. Suffixed(L, k) <=> Suffixed(s, k)
  <2>1. k < Len(s) => k + 1 \in DOMAIN s
    BY <1>1
  <2>2. k + 2 <= Len(s) => k + 2 \in DOMAIN s
    BY <1>1
  <2> QED BY <1>2, <1>3, <1>6, <2>1, <2>2 DEF Suffixed
<1>4. LooksLikeMoney(s, k) => LooksLikeMoney(L, k)
  BY <1>2 DEF LooksLikeMoney
<1>5. TakenByMarker(L, k) => TakenByMarker(s, k)
  <2>1. CASE ~BareDigits(L[k]) /\ Prefixed(L, k)
    BY <1>3, <1>6, <2>1 DEF TakenByMarker
  <2>2. CASE L[k].kind = "date" /\ Suffixed(L, k)
    BY <1>2, <1>7, <2>2 DEF TakenByMarker
  <2>3. CASE /\ L[k].kind = "amount" /\ L[k].form = "plain" /\ ~Prefixed(L, k)
             /\ k + 2 \in DOMAIN L /\ Prefixed(L, k + 2)
    <3>1. s[k].form = "plain" /\ k + 2 \in DOMAIN s
      BY <1>2, <2>3
    <3> QED BY <1>2, <1>3, <2>3, <3>1 DEF TakenByMarker
  <2> QED BY <2>1, <2>2, <2>3 DEF TakenByMarker
<1> QED BY <1>4, <1>5 DEF L

\* The claim of a figure that looks like money.
LEMMA MoneyClaimed ==
    ASSUME AuditInv, NEW k \in DOMAIN text, NEW j \in DOMAIN text[k],
           LooksLikeMoney(text[k], j), ~TakenByMarker(text[k], j)
    PROVE  \E found, c :
             /\ AmountAt(LaidOut(text[k]), j) = <<found>>
             /\ FoundAt(found, text[k][j])
             /\ c \in DOMAIN checked
             /\ checked[c].claim
                  = AmountCandidate(Reading(text[k], ledger), found,
                      ClassifyAmount(LaidOut(text[k]), found, Amounts(LaidOut(text[k])),
                                     Mentions(LaidOut(text[k]), ledger))).claim
             /\ checked[c].status = CodeCheck(checked[c].claim, ledger).status
<1>1. IsDraft(text) /\ IsSentence(text[k])
  BY DEF AuditInv, IsDraft
<1>2. PICK s : s = LaidOut(text[k])
  OBVIOUS
<1>3. /\ IsSentence(s) /\ DOMAIN s = DOMAIN text[k]
      /\ s[j].kind = text[k][j].kind
      /\ text[k][j].kind = "amount" => s[j].num = text[k][j].num /\ s[j].form = text[k][j].form
  BY <1>1, <1>2, LaidOutTokens
<1>4. LooksLikeMoney(s, j) /\ ~TakenByMarker(s, j)
  BY <1>1, <1>2, LooksTheSame
<1>5. PICK found : AmountAt(s, j) = <<found>> /\ FoundAt(found, s[j])
  BY <1>3, <1>4, MoneyIsFound
<1>6. FoundAt(found, text[k][j])
  <2>1. text[k][j].kind = "amount"
    BY DEF LooksLikeMoney
  <2> QED BY <1>3, <1>5, <2>1 DEF FoundAt
<1>7. PICK r : r = Reading(text[k], ledger)
  OBVIOUS
<1>8. r.s = s /\ r.amounts = Amounts(s) /\ r.mentions = Mentions(s, ledger) /\ IsList(r.mentions)
  BY <1>1, <1>2, <1>7, ReadingIs
<1>9. PICK class : class = ClassifyAmount(s, found, r.amounts, r.mentions)
  OBVIOUS
<1>10. PICK x : x = AmountCandidate(r, found, class)
  OBVIOUS
<1>11. x \in InDraft(text, ledger)
  <2>1. AmountCandidates(r, j) = [i \in 1..1 |-> AmountCandidate(r, <<found>>[i],
                     ClassifyAmount(s, <<found>>[i], r.amounts, r.mentions))]
    BY <1>5, <1>8 DEF AmountCandidates
  <2>2. x \in Range(AmountCandidates(r, j))
    BY <1>9, <1>10, <2>1 DEF Range
  <2>3. Range(AmountCandidates(r, j)) \subseteq InDraft(text, ledger)
    BY <1>1, <1>7, OfToken
  <2> QED BY <2>2, <2>3
<1>12. x.claim.type = class.type
  BY <1>10 DEF AmountCandidate, Candidate
<1>13. class.type \in {"C-AMT", "C-SUM"}
  BY <1>8, <1>9, ClassIs
<1>14. x.claim.type # "C-EXIST" /\ x.claim.type \in CodeCheckedTypes
  BY <1>12, <1>13 DEF CodeCheckedTypes, ClaimTypes
<1>15. PICK c \in DOMAIN checked :
         checked[c].claim = x.claim /\ checked[c].status = CodeCheck(x.claim, ledger).status
  BY <1>11, <1>14, CandidateChecked
<1> QED BY <1>2, <1>5, <1>6, <1>7, <1>8, <1>9, <1>10, <1>15

\* What the claim of an amount says.
LEMMA AmountClaim ==
    ASSUME NEW r, NEW found, NEW class
    PROVE  /\ AmountCandidate(r, found, class).claim.type = class.type
           /\ AmountCandidate(r, found, class).claim.docs = class.docs
           /\ AmountCandidate(r, found, class).claim.role = class.role
           /\ AmountCandidate(r, found, class).claim.span = r.cues
           /\ AmountCandidate(r, found, class).claim.num = found.num
           /\ AmountCandidate(r, found, class).claim.preset = found.preset
BY DEF AmountCandidate, Candidate

\* Whatever a detector catches has its claim.
LEMMA AuditClaims == AuditInv => CaughtIsClaimed
<1> SUFFICES ASSUME AuditInv, NEW k \in DOMAIN text, NEW j \in Caught(text[k]),
                    ~TakenByMarker(text[k], j)
             PROVE  IsClaimed(text[k][j])
  BY DEF CaughtIsClaimed
<1>1. IsDraft(text) /\ IsSentence(text[k]) /\ j \in DOMAIN text[k]
  BY DEF AuditInv, IsDraft, Caught
<1>2. PICK s : s = LaidOut(text[k])
  OBVIOUS
<1>3. PICK r : r = Reading(text[k], ledger)
  OBVIOUS
<1>4. CASE text[k][j].kind = "date"
  <2>1. /\ IsSentence(s) /\ DOMAIN s = DOMAIN text[k]
        /\ s[j].kind = "date" /\ s[j].num = text[k][j].num
    BY <1>1, <1>2, <1>4, LaidOutTokens
  <2>2. ~TakenByMarker(s, j)
    BY <1>1, <1>2, LooksTheSame
  <2>3. r.s = s
    BY <1>1, <1>2, <1>3, ReadingIs
  <2>4. IsDate(r.s, j)
    <3>1. ~BareDigits(s[j])
      BY <2>1 DEF BareDigits
    <3> QED BY <2>1, <2>2, <2>3, <3>1 DEF IsDate, TakenByMarker
  <2>5. PICK x : x = Candidate(r, "C-DATE", r.s[j].num, "", r.s[j].num,
                     DateDocs(r.s, r.s[j].at, r.amounts, r.mentions), "unknown", FALSE)
    OBVIOUS
  <2>6. DateCandidates(r, j) = <<x>>
    BY <2>4, <2>5 DEF DateCandidates
  <2>7. x \in InDraft(text, ledger)
    <3>1. x \in Range(DateCandidates(r, j))
      BY <2>6 DEF Range
    <3>2. Range(DateCandidates(r, j)) \subseteq InDraft(text, ledger)
      BY <1>1, <1>3, OfToken
    <3> QED BY <3>1, <3>2
  <2>8. x.claim.type = "C-DATE" /\ x.claim.num = text[k][j].num
    BY <2>1, <2>3, <2>5 DEF Candidate
  <2>9. PICK c \in DOMAIN checked : checked[c].claim = x.claim
    BY <2>7, <2>8, CandidateChecked
  <2> QED BY <1>4, <2>8, <2>9 DEF IsClaimed, Claims
<1>5. CASE text[k][j].kind # "date"
  <2>1. LooksLikeMoney(text[k], j)
    BY <1>5 DEF Caught
  <2>2. PICK found, c :
             /\ FoundAt(found, text[k][j])
             /\ c \in DOMAIN checked
             /\ checked[c].claim
                  = AmountCandidate(Reading(text[k], ledger), found,
                      ClassifyAmount(LaidOut(text[k]), found, Amounts(LaidOut(text[k])),
                                     Mentions(LaidOut(text[k]), ledger))).claim
    BY <1>1, <2>1, MoneyClaimed
  <2>3. PICK class : class = ClassifyAmount(s, found, Amounts(s), Mentions(s, ledger))
    OBVIOUS
  <2>4. class.type \in {"C-AMT", "C-SUM"}
    <3>1. IsList(Mentions(s, ledger))
      BY <1>1, <1>2, LaidOutTokens, MentionsAre
    <3> QED BY <2>3, <3>1, ClassIs
  <2>5. /\ checked[c].claim.type = class.type
        /\ checked[c].claim.num = found.num /\ checked[c].claim.preset = found.preset
    <3>1. checked[c].claim = AmountCandidate(Reading(text[k], ledger), found, class).claim
      BY <1>2, <2>2, <2>3
    <3> QED BY <3>1, AmountClaim
  <2>6. c \in Claims({"C-AMT", "C-SUM"})
    BY <2>2, <2>4, <2>5 DEF Claims
  <2>7. \/ checked[c].claim.num = text[k][j].num
        \/ text[k][j].form \in {"misgrouped", "percent"} /\ checked[c].claim.preset
    BY <2>2, <2>5 DEF FoundAt
  <2> QED BY <1>5, <2>6, <2>7 DEF IsClaimed
<1> QED BY <1>4, <1>5

-----------------------------------------------------------------------------
(***************************************************************************)
(* What is said to be paid                                                 *)
(***************************************************************************)
PaidWords == {"paid", "settled", "cleared"}

\* A status word said of the one document near it is checked against that one.
LEMMA PaidMeansPaid ==
    ASSUME NEW l, LedgerRecord(l), NEW c, Len(c.docs) = 1, IsList(c.docs), c.type = "C-STATUS",
           c.word \in PaidWords, ~c.preset, CodeCheck(c, l).status = "pass"
    PROVE  c.docs[1] \in InvoiceIds(l) /\ OpenAmount(l, c.docs[1]) = 0
<1>1. CodeCheck(c, l) = CheckStatusWord(c, l)
  BY DEF CodeCheck
<1>2. \A status, cites : Result(status, cites).status = status
  BY DEF Result
<1>3. ~(DocsOf(c) \cap InvoiceIds(l) = {})
  BY <1>1, <1>2 DEF CheckStatusWord
<1>4. DOMAIN c.docs = 1..1
  BY DEF IsList
<1>5. DocsOf(c) = {c.docs[1]}
  BY <1>4 DEF DocsOf
<1>6. PICK i : i = c.docs[1] /\ i \in InvoiceIds(l)
  BY <1>3, <1>5
<1>7. c.word \in StatusCompat(InvoiceStatus(l, i))
  <2>1. CodeCheck(c, l)
          = Result(IF c.word \in StatusCompat(InvoiceStatus(l, i)) THEN "pass" ELSE "fail",
                   DocsOf(c))
    BY <1>1, <1>3, <1>6 DEF CheckStatusWord
  <2> QED BY <1>2, <2>1
<1>8. l.asOf \in Nat /\ l.invoices[i].due \in Nat
  BY <1>6 DEF LedgerRecord
<1>9. ASSUME OpenAmount(l, i) # 0 PROVE FALSE
  <2>1. CASE l.invoices[i].due < l.asOf
    <3>1. ~(l.invoices[i].due >= l.asOf)
      BY <1>8, <2>1
    <3>2. InvoiceStatus(l, i) = "overdue"
      BY <1>9, <2>1, <3>1 DEF InvoiceStatus
    <3>3. StatusCompat("overdue") = {"overdue", "past due", "outstanding", "unpaid", "open"}
      BY DEF StatusCompat
    <3> QED BY <1>7, <3>2, <3>3 DEF PaidWords
  <2>2. CASE l.invoices[i].due >= l.asOf
    <3>1. ~(l.invoices[i].due < l.asOf)
      BY <1>8, <2>2
    <3>2. InvoiceStatus(l, i) = "outstanding"
      BY <1>9, <2>2, <3>1 DEF InvoiceStatus
    <3>3. StatusCompat("outstanding") = {"outstanding", "unpaid", "open"}
      BY DEF StatusCompat
    <3> QED BY <1>7, <3>2, <3>3 DEF PaidWords
  <2> QED BY <1>8, <2>1, <2>2
<1> QED BY <1>6, <1>9

\* A sentence that says so has a status of that meaning, where a phrase begins.
LEMMA SaidPaid ==
    ASSUME NEW s, IsSentence(s), SaysPaid(s)
    PROVE  \E word \in PaidWords : \E j \in DOMAIN s :
             [at |-> s[j].at, word |-> word] \in StatusesIn(s)
<1>1. PICK n \in Nat : n = Len(s) /\ DOMAIN s = 1..n
  BY DEF IsSentence, IsList
<1>2. PICK plain : plain = Matches(s, StatusPhrases)
  OBVIOUS
<1>3. PICK exempt : exempt = IF Says(s, DecompositionPhrases) THEN {"paid", "unpaid"} ELSE {}
  OBVIOUS
<1>4. StatusesIn(s) = {h \in Stated(plain) : h.word \notin exempt}
                        \cup {[at |-> m.at, word |-> "paid"] : m \in Matches(s, PaidParaphrases)}
  BY <1>2, <1>3 DEF StatusesIn
<1>5. ASSUME NEW m \in plain, NEW word \in PaidWords \ exempt, m.words = <<word>>
      PROVE  \E j \in DOMAIN s : [at |-> s[j].at, word |-> word] \in StatusesIn(s)
  <2>1. PICK j \in DOMAIN s : m.at = s[j].at
    BY <1>1, <1>2, MatchesBegin
  <2>2. PICK h : h = [at |-> s[j].at, word |-> word]
    OBVIOUS
  <2>3. StatusWord(m.words) = word
    <3>1. Len(<<word>>) = 1 /\ Len(<<"past", "due">>) = 2 /\ <<word>>[1] = word
      OBVIOUS
    <3>2. <<word>> # <<"past", "due">>
      BY <3>1
    <3> QED BY <1>5, <3>1, <3>2 DEF StatusWord
  <2>4. h \in Stated(plain)
    BY <2>1, <2>2, <2>3 DEF Stated
  <2>5. h \in StatusesIn(s)
    BY <1>4, <2>2, <2>4
  <2> QED BY <2>2, <2>5
<1>6. CASE Says(s, PaidParaphrases)
  <2>1. PICK m : m \in Matches(s, PaidParaphrases)
    BY <1>6 DEF Says
  <2>2. PICK j \in DOMAIN s : m.at = s[j].at
    BY <1>1, <2>1, MatchesBegin
  <2>3. PICK h : h = [at |-> s[j].at, word |-> "paid"]
    OBVIOUS
  <2>4. h \in StatusesIn(s)
    BY <1>4, <2>1, <2>2, <2>3
  <2> QED BY <2>3, <2>4 DEF PaidWords
<1>7. CASE ~Says(s, PaidParaphrases)
  <2>1. PICK word \in PaidWords \ exempt : \E m \in plain : m.words = <<word>>
    <3>1. \/ \E m \in plain : m.words \in One({"settled", "cleared"})
          \/ \E m \in plain : m.words = <<"paid">> /\ ~Says(s, DecompositionPhrases)
      BY <1>2, <1>7 DEF SaysPaid
    <3>2. One({"settled", "cleared"}) = {<<"settled">>, <<"cleared">>}
      BY DEF One
    <3>3. "settled" \in PaidWords \ exempt /\ "cleared" \in PaidWords \ exempt
      BY <1>3 DEF PaidWords
    <3>4. ~Says(s, DecompositionPhrases) => "paid" \in PaidWords \ exempt
      BY <1>3 DEF PaidWords
    <3> QED BY <3>1, <3>2, <3>3, <3>4
  <2> QED BY <1>5, <2>1
<1> QED BY <1>6, <1>7

DocsMentioned(m) == {m[k].doc : k \in DOMAIN m}

\* The documents among the mentions of a sentence that are invoices on record.
LEMMA InvoicesNamedAre ==
    ASSUME NEW s, IsSentence(s), NEW m, m = Mentions(LaidOut(s), ledger)
    PROVE  /\ IsList(m) /\ IsList(InvoicesNamed(s))
           /\ InvoicesNamed(s) = DocsAt(m, {k \in DOMAIN m : m[k].fam = "INV"
                                              /\ m[k].doc \in InvoiceIds(ledger)})
           /\ Range(InvoicesNamed(s)) \subseteq DocsMentioned(m)
<1>1. IsList(m)
  BY LaidOutTokens, MentionsAre
<1>2. InvoicesNamed(s) = DocsAt(m, {k \in DOMAIN m : m[k].fam = "INV"
                                      /\ m[k].doc \in InvoiceIds(ledger)})
  BY DEF InvoicesNamed
<1>3. /\ IsList(InvoicesNamed(s))
      /\ Range(InvoicesNamed(s)) = {m[k].doc : k \in {k \in DOMAIN m : m[k].fam = "INV"
                                      /\ m[k].doc \in InvoiceIds(ledger)} \cap DOMAIN m}
  BY <1>1, <1>2, DocsAtAre
<1>4. Range(InvoicesNamed(s)) \subseteq DocsMentioned(m)
  BY <1>3 DEF DocsMentioned
<1> QED BY <1>1, <1>2, <1>3, <1>4

\* Of one document, the nearest is that one wherever one looks from.
LEMMA NearestOfOne ==
    ASSUME NEW m, IsList(m), Len(m) = 1, NEW pos
    PROVE  NearestDoc(m, pos) = <<m[1].doc>>
<1>1. DOMAIN m = 1..1
  BY DEF IsList
<1>2. CASE m[1].at <= pos
  <2>1. {k \in DOMAIN m : m[k].at <= pos} = {1}
    BY <1>1, <1>2
  <2>2. Max({1}) = 1
    BY MaxIn
  <2>3. Preceding(m, pos) = <<m[1].doc>>
    BY <2>1, <2>2 DEF Preceding
  <2> QED BY <2>3 DEF NearestDoc
<1>3. CASE ~(m[1].at <= pos)
  <2>1. {k \in DOMAIN m : m[k].at <= pos} = {} /\ {k \in DOMAIN m : ~(m[k].at <= pos)} = {1}
    BY <1>1, <1>3
  <2>2. Min({1}) = 1
    BY MinIn
  <2>3. Preceding(m, pos) = << >> /\ Following(m, pos) = <<m[1].doc>>
    BY <2>1, <2>2 DEF Preceding, Following
  <2> QED BY <2>3 DEF NearestDoc
<1> QED BY <1>2, <1>3

\* A draft of one document that says "paid" and passes says so of a paid one.
LEMMA AuditStatuses == AuditInv => NoOpenInvoiceCalledPaid
<1> SUFFICES ASSUME AuditInv, AllPass, NEW k \in DOMAIN text,
                    SaysPaid(LaidOut(text[k])),
                    Len(Mentions(LaidOut(text[k]), ledger)) = 1,
                    Len(InvoicesNamed(text[k])) = 1
             PROVE  OpenAmount(ledger, InvoicesNamed(text[k])[1]) = 0
  BY DEF NoOpenInvoiceCalledPaid
<1>1. IsDraft(text) /\ IsSentence(text[k]) /\ LedgerRecord(ledger)
  BY LedgersAssumption DEF AuditInv, IsDraft
<1>2. PICK s : s = LaidOut(text[k]) /\ IsSentence(s) /\ DOMAIN s = DOMAIN text[k]
  BY <1>1, LaidOutTokens
<1>3. PICK n \in Nat : n = Len(s) /\ DOMAIN s = 1..n
  BY <1>2 DEF IsSentence, IsList
<1>4. PICK m : m = Mentions(s, ledger) /\ IsList(m) /\ Len(m) = 1
  BY <1>2, MentionsAre
<1>8. m # << >>
  BY <1>4
<1>5. PICK r : r = Reading(text[k], ledger)
  OBVIOUS
<1>6. /\ r.s = s /\ r.mentions = m /\ r.statuses = StatusesIn(s) /\ r.cues \subseteq SpanCues
  BY <1>1, <1>2, <1>4, <1>5, ReadingIs
<1>7. PICK word \in PaidWords, j \in DOMAIN s :
         [at |-> s[j].at, word |-> word] \in StatusesIn(s)
  BY <1>2, SaidPaid
<1>9. word \in StatedAt(r, j)
  <2>2. PICK h : h = [at |-> s[j].at, word |-> word]
    OBVIOUS
  <2>3. h.at = r.s[j].at /\ h.word = word
    BY <1>6, <2>2
  <2> QED BY <1>6, <1>7, <1>8, <2>2, <2>3 DEF StatedAt
<1>10. IsFiniteSet(StatedAt(r, j))
  <2>1. IsFiniteSet({h.word : h \in {h \in r.statuses : h.at = r.s[j].at}})
    BY <1>2, <1>6, StatusesFinite
  <2>2. IsFiniteSet({})
    BY FS_EmptySet
  <2> QED BY <2>1, <2>2 DEF StatedAt
<1>11. PICK x : x = Candidate(r, "C-STATUS", word, word, 0, NearestDoc(m, s[j].at),
                              "unknown", FALSE)
  OBVIOUS
<1>12. x \in InDraft(text, ledger)
  <2>1. x \in Range(StatusCandidates(r, j))
    BY <1>6, <1>9, <1>10, <1>11, StatusesAre
  <2>2. Range(StatusCandidates(r, j)) \subseteq InDraft(text, ledger)
    BY <1>1, <1>2, <1>5, OfToken
  <2> QED BY <2>1, <2>2
<1>13. /\ x.claim.type = "C-STATUS" /\ x.claim.word = word /\ ~x.claim.preset
       /\ x.claim.docs = <<m[1].doc>>
  <2>1. NearestDoc(m, s[j].at) = <<m[1].doc>>
    BY <1>4, NearestOfOne
  <2> QED BY <1>11, <2>1 DEF Candidate
<1>14. CodeCheck(x.claim, ledger).status = "pass"
  <2>1. "C-STATUS" # "C-EXIST" /\ "C-STATUS" \in CodeCheckedTypes
    BY DEF CodeCheckedTypes, ClaimTypes
  <2>2. PICK c \in DOMAIN checked : checked[c].status = CodeCheck(x.claim, ledger).status
    BY <1>12, <1>13, <2>1, CandidateChecked
  <2> QED BY <2>2 DEF AllPass
<1>15. OpenAmount(ledger, m[1].doc) = 0
  <2>1. IsList(<<m[1].doc>>)
    BY ShortIsList DEF AtMostOne
  <2>2. PICK c : c = x.claim
    OBVIOUS
  <2>3. Len(c.docs) = 1 /\ IsList(c.docs) /\ c.docs[1] = m[1].doc
    BY <1>13, <2>1, <2>2
  <2> QED BY <1>1, <1>13, <1>14, <2>2, <2>3, PaidMeansPaid
<1>16. InvoicesNamed(text[k])[1] = m[1].doc
  <2>1. PICK named : named = InvoicesNamed(text[k])
    OBVIOUS
  <2>2. IsList(named) /\ \A d \in Range(named) : \E i \in DOMAIN m : d = m[i].doc
    <3>1. PICK t : t = text[k]
      OBVIOUS
    <3>2. m = Mentions(LaidOut(t), ledger) /\ IsSentence(t)
      BY <1>1, <1>2, <1>4, <3>1
    <3>3. IsList(InvoicesNamed(t))
      BY <3>2, InvoicesNamedAre
    <3>4. Range(InvoicesNamed(t)) \subseteq DocsMentioned(m)
      BY <3>2, InvoicesNamedAre
    <3> QED BY <2>1, <3>1, <3>3, <3>4 DEF DocsMentioned
  <2>3. 1 \in DOMAIN named
    BY <2>1, <2>2 DEF IsList
  <2>4. named[1] \in Range(named)
    BY <2>3 DEF Range
  <2>5. DOMAIN m = 1..1
    BY <1>4 DEF IsList
  <2> QED BY <2>1, <2>2, <2>4, <2>5
<1> QED BY <1>15, <1>16

-----------------------------------------------------------------------------
(***************************************************************************)
(* Every draft is made of tokens: the golden one, the corrupted ones, and  *)
(* those written phrase by phrase                                          *)
(***************************************************************************)
\* Every token the drafts are written with is one.
LEMMA TokensAre ==
    /\ \A w : IsToken(Word(w))
    /\ \A n : IsToken(Dollar(n))
    /\ \A n : IsToken(DateToken(n))
    /\ \A fam, pad, num : IsToken(DocToken(fam, pad, num))
    /\ \A d : IsToken(Ref(d))
<1>1. \A w : IsToken(Word(w))
  BY DEF IsToken, Word, Fields
<1>2. \A n : IsToken(Dollar(n))
  BY DEF IsToken, Dollar, Fields
<1>3. \A n : IsToken(DateToken(n))
  BY DEF IsToken, DateToken, Fields
<1>4. \A fam, pad, num : IsToken(DocToken(fam, pad, num))
  BY DEF IsToken, DocToken, Fields
<1>5. \A d : IsToken(Ref(d))
  BY <1>4 DEF Ref
<1> QED BY <1>1, <1>2, <1>3, <1>4, <1>5

LEMMA SentenceIs ==
    ASSUME NEW n \in Nat, NEW s, s = [k \in 1..n |-> s[k]], \A k \in 1..n : IsToken(s[k])
    PROVE  IsSentence(s)
BY ListedIs DEF IsSentence, IsList

LEMMA DraftIs ==
    ASSUME NEW n \in Nat, NEW t, t = [k \in 1..n |-> t[k]], \A k \in 1..n : IsSentence(t[k])
    PROVE  IsDraft(t)
BY ListedIs DEF IsDraft, IsList

LEMMA ToldIs ==
    ASSUME NEW a, NEW b, IsSentence(a), IsSentence(b)
    PROVE  IsSentence(a \o b)
<1>1. Range(a \o b) = Range(a) \cup Range(b) /\ a \o b \in Seq(Range(a \o b))
  BY RangeOfTwo DEF IsSentence, IsList
<1>2. \A t \in Range(a) \cup Range(b) : IsToken(t)
  BY DEF IsSentence, Range
<1>3. \A k \in DOMAIN (a \o b) : (a \o b)[k] \in Range(a \o b)
  BY DEF Range
<1> QED BY <1>1, <1>2, <1>3 DEF IsSentence, IsList

LEMMA DraftsJoin ==
    ASSUME NEW a, NEW b, IsDraft(a), IsDraft(b)
    PROVE  IsDraft(a \o b)
<1>1. Range(a \o b) = Range(a) \cup Range(b) /\ a \o b \in Seq(Range(a \o b))
  BY RangeOfTwo DEF IsDraft, IsList
<1>2. \A t \in Range(a) \cup Range(b) : IsSentence(t)
  BY DEF IsDraft, Range
<1>3. \A k \in DOMAIN (a \o b) : (a \o b)[k] \in Range(a \o b)
  BY DEF Range
<1> QED BY <1>1, <1>2, <1>3 DEF IsDraft, IsList

\* Sentences of words and tokens, one behind the other.
LEMMA WordsAre ==
    ASSUME NEW ws, NEW n \in Nat, DOMAIN ws = 1..n
    PROVE  IsSentence(Words(ws))
<1>2. Words(ws) = [k \in 1..n |-> Word(ws[k])]
  BY DEF Words
<1> QED BY <1>2, TokensAre, SentenceIs

LEMMA OneSentence ==
    ASSUME NEW s, IsSentence(s)
    PROVE  IsDraft(<<s>>)
<1>1. <<s>> = [k \in 1..1 |-> <<s>>[k]]
  OBVIOUS
<1> QED BY <1>1, DraftIs

LEMMA OneToken ==
    ASSUME NEW x, IsToken(x)
    PROVE  IsSentence(<<x>>)
<1>1. IsList(<<x>>)
  BY ShortIsList DEF AtMostOne
<1>2. \A k \in DOMAIN <<x>> : <<x>>[k] = x
  OBVIOUS
<1> QED BY <1>1, <1>2 DEF IsSentence

LEMMA TwoSentences ==
    ASSUME NEW a, NEW b, IsSentence(a), IsSentence(b)
    PROVE  IsDraft(<<a, b>>)
<1>1. PICK t : t = <<a, b>>
  OBVIOUS
<1>2. t = [k \in 1..2 |-> t[k]] /\ \A k \in 1..2 : IsSentence(t[k])
  BY <1>1
<1> QED BY <1>1, <1>2, DraftIs

\* The sentences of the golden draft.
LEMMA OpeningIs == ASSUME NEW l PROVE IsDraft(Opening(l))
<1> DEFINE a == Words(<<"thank", "you", "for", "reaching", "out", "about", "your", "account">>)
           c == Words(<<"here", "is", "the", "current", "position", "as", "of">>)
           b == c \o <<DateToken(l.asOf)>>
<1>1. IsSentence(a)
  <2>1. DOMAIN <<"thank", "you", "for", "reaching", "out", "about", "your", "account">> = 1..8
    OBVIOUS
  <2> QED BY <2>1, WordsAre
<1>2. IsSentence(c)
  <2>1. DOMAIN <<"here", "is", "the", "current", "position", "as", "of">> = 1..7
    OBVIOUS
  <2> QED BY <2>1, WordsAre
<1> HIDE DEF a, c
<1>3. IsSentence(b)
  BY <1>2, TokensAre, OneToken, ToldIs
<1> HIDE DEF b
<1>4. IsDraft(<<a, b>>)
  BY <1>1, <1>3, TwoSentences
<1> QED BY <1>4 DEF a, b, c, Opening

LEMMA ClosingIs == IsSentence(Closing)
<1>1. DOMAIN <<"if", "you", "have", "questions", "about", "any", "of", "the",
            "items", "above", ",", "please", "reply", "to", "this", "message",
            "and", "we", "will", "be", "glad", "to", "walk", "through",
            "them", "with", "you">> = 1..27
  OBVIOUS
<1> QED BY <1>1, WordsAre DEF Closing

LEMMA TenTokens ==
    ASSUME NEW a, NEW b, NEW c, NEW d, NEW e, NEW f, NEW g, NEW h, NEW i, NEW j,
           IsToken(a), IsToken(b), IsToken(c), IsToken(d), IsToken(e),
           IsToken(f), IsToken(g), IsToken(h), IsToken(i), IsToken(j)
    PROVE  IsSentence(<<a, b, c, d, e, f, g, h, i, j>>)
<1>1. PICK s : s = <<a, b, c, d, e, f, g, h, i, j>>
  OBVIOUS
<1>2. s = [k \in 1..10 |-> s[k]]
  BY <1>1
<1>3. ASSUME NEW k \in 1..10 PROVE IsToken(s[k])
  <2>1. \/ k = 1 \/ k = 2 \/ k = 3 \/ k = 4 \/ k = 5
        \/ k = 6 \/ k = 7 \/ k = 8 \/ k = 9 \/ k = 10
    OBVIOUS
  <2> QED BY <1>1, <2>1
<1> QED BY <1>1, <1>2, <1>3, SentenceIs

LEMMA InvoiceSentenceIs == ASSUME NEW d, NEW l PROVE IsSentence(InvoiceSentence(d, l))
<1>1. PICK u, v, n, x : /\ u = l.invoices[RefId(d)].date /\ v = l.invoices[RefId(d)].due
                        /\ n = OpenAmount(l, RefId(d)) /\ x = InvoiceStatus(l, RefId(d))
  OBVIOUS
<1>2. IsSentence(<<Word("-"), Ref(d), Word("dated"), DateToken(u), Word(","), Word("due"),
                   DateToken(v), Word(":"), Dollar(n), Word(x)>>)
  BY TokensAre, TenTokens
<1> QED BY <1>1, <1>2 DEF InvoiceSentence

LEMMA BalanceSentenceIs == ASSUME NEW l PROVE IsSentence(BalanceSentence(l))
<1>1. DOMAIN <<"the", "balance", "due", "on", "your", "account", "is">> = 1..7
  OBVIOUS
<1>2. IsSentence(<<Dollar(NetBalance(l))>>)
  BY TokensAre, OneToken
<1> QED BY <1>1, <1>2, WordsAre, ToldIs DEF BalanceSentence

\* A reference, "of", and an amount.
LEMMA AmountOf ==
    ASSUME NEW d, NEW n
    PROVE  IsSentence(<<Ref(d), Word("of"), Dollar(n)>>)
<1>1. PICK s : s = <<Ref(d), Word("of"), Dollar(n)>>
  OBVIOUS
<1>2. s = [k \in 1..3 |-> s[k]]
  BY <1>1
<1>3. ASSUME NEW k \in 1..3 PROVE IsToken(s[k])
  <2>1. k = 1 \/ k = 2 \/ k = 3
    OBVIOUS
  <2> QED BY <1>1, <2>1, TokensAre
<1> QED BY <1>1, <1>2, <1>3, SentenceIs

LEMMA PaymentSentencesAre == ASSUME NEW d, NEW l PROVE IsDraft(PaymentSentences(d, l))
<1> DEFINE a == Words(<<"we", "have", "received", "your", "payment">>)
           b == <<Ref(d), Word("of"), Dollar(UnappliedAmount(l, RefId(d)))>>
           c == Words(<<",", "which", "has", "not", "yet", "been", "applied", "to",
                        "a", "specific", "invoice">>)
           e == Words(<<"it", "is", "reflected", "in", "the", "balance", "above">>)
<1>1. IsSentence(a)
  <2>1. DOMAIN <<"we", "have", "received", "your", "payment">> = 1..5
    OBVIOUS
  <2> QED BY <2>1, WordsAre
<1>2. IsSentence(b)
  BY AmountOf
<1>3. IsSentence(c)
  <2>1. DOMAIN <<",", "which", "has", "not", "yet", "been", "applied", "to",
                 "a", "specific", "invoice">> = 1..11
    OBVIOUS
  <2> QED BY <2>1, WordsAre
<1>4. IsSentence(e)
  <2>1. DOMAIN <<"it", "is", "reflected", "in", "the", "balance", "above">> = 1..7
    OBVIOUS
  <2> QED BY <2>1, WordsAre
<1>5. PaymentSentences(d, l) = <<(a \o b) \o c, e>>
  BY DEF PaymentSentences
<1> HIDE DEF a, b, c, e
<1>6. IsSentence((a \o b) \o c)
  BY <1>1, <1>2, <1>3, ToldIs
<1> QED BY <1>4, <1>5, <1>6, TwoSentences

LEMMA CreditSentenceIs == ASSUME NEW d, NEW l PROVE IsSentence(CreditSentence(d, l))
<1> DEFINE a == Words(<<"an", "open", "credit", "memo">>)
           b == <<Ref(d), Word("of"), Dollar(UnappliedAmount(l, RefId(d)))>>
           c == Words(<<"is", "also", "reflected", "in", "the", "balance", "above">>)
<1>1. IsSentence(a)
  <2>1. DOMAIN <<"an", "open", "credit", "memo">> = 1..4
    OBVIOUS
  <2> QED BY <2>1, WordsAre
<1>2. IsSentence(b)
  BY AmountOf
<1>3. IsSentence(c)
  <2>1. DOMAIN <<"is", "also", "reflected", "in", "the", "balance", "above">> = 1..7
    OBVIOUS
  <2> QED BY <2>1, WordsAre
<1>4. CreditSentence(d, l) = (a \o b) \o c
  BY DEF CreditSentence
<1> HIDE DEF a, b, c
<1> QED BY <1>1, <1>2, <1>3, <1>4, ToldIs

\* The references of the ledger in order are references.
LEMMA InOrderIs ==
    ASSUME NEW l, IsList(l.docs), NEW D
    PROVE  \E n \in Nat : DOMAIN InOrder(l, D) = 1..n
<1>1. PICK n \in Nat : DOMAIN l.docs = 1..n
  BY ListIs
<1>2. PICK ss : ss = [k \in 1..n |-> IF RefId(l.docs[k]) \in D THEN <<l.docs[k]>> ELSE << >>]
  OBVIOUS
<1>3. ASSUME NEW k \in 1..n PROVE AtMostOne(ss[k])
  BY <1>2 DEF AtMostOne
<1>4. ss = [k \in 1..n |-> ss[k]]
  BY <1>2
<1>5. \A k \in 1..n : ss[k] \in Seq(Range(ss[k]))
  BY <1>3, ShortIsList DEF IsList
<1>6. FlattenSeq(ss) \in Seq(Range(FlattenSeq(ss)))
  BY <1>4, <1>5, RangeOfFlat
<1>7. Listed(ss) = ss
  BY <1>4, ListedIs
<1>8. InOrder(l, D) = FlattenSeq(ss)
  BY <1>1, <1>2, <1>7 DEF InOrder
<1> QED BY <1>6, <1>8

\* Drafts put one behind the other.
LEMMA DraftsFlat ==
    ASSUME NEW n \in Nat, NEW ss, ss = [k \in 1..n |-> ss[k]],
           \A k \in 1..n : IsDraft(ss[k])
    PROVE  IsDraft(FlattenSeq(ss))
<1>1. \A k \in 1..n : ss[k] \in Seq(Range(ss[k]))
  BY DEF IsDraft, IsList
<1>2. PICK flat : flat = FlattenSeq(ss)
  OBVIOUS
<1>3. flat \in Seq(Range(flat)) /\ Range(flat) = UNION {Range(ss[k]) : k \in 1..n}
  BY <1>1, <1>2, RangeOfFlat
<1>4. \A k \in 1..n : \A x \in Range(ss[k]) : IsSentence(x)
  BY DEF IsDraft, Range
<1>5. \A x \in Range(flat) : IsSentence(x)
  BY <1>3, <1>4
<1>6. \A k \in DOMAIN flat : flat[k] \in Range(flat)
  BY DEF Range
<1> QED BY <1>2, <1>3, <1>5, <1>6 DEF IsDraft, IsList

\* The golden draft is made of tokens.
LEMMA GoldenIsDraft ==
    ASSUME NEW l, IsList(l.docs)
    PROVE  IsDraft(GoldenDraft(l))
<1> DEFINE invoices == InOrder(l, OpenInvoices(l))
           payments == InOrder(l, {p \in PaymentIds(l) : UnappliedAmount(l, p) > 0})
           credits  == InOrder(l, {c \in CreditIds(l) : UnappliedAmount(l, c) > 0})
           open == [k \in DOMAIN invoices |-> InvoiceSentence(invoices[k], l)]
           cash == [k \in DOMAIN payments |-> PaymentSentences(payments[k], l)]
           memo == [k \in DOMAIN credits |-> CreditSentence(credits[k], l)]
           lead == Words(<<"this", "balance", "reflects", "the", "following",
                           "open", "invoices", ":">>)
           told == IF open = << >> THEN << >> ELSE <<lead>>
<1>1. GoldenDraft(l) = Opening(l) \o <<BalanceSentence(l)>> \o told \o open
                         \o FlattenSeq(cash) \o memo \o <<Closing>>
  BY DEF GoldenDraft
<1>2. IsDraft(told)
  <2>1. DOMAIN <<"this", "balance", "reflects", "the", "following",
                 "open", "invoices", ":">> = 1..8
    OBVIOUS
  <2>2. IsSentence(lead)
    BY <2>1, WordsAre
  <2> HIDE DEF lead, open
  <2>3. IsDraft(<<lead>>)
    BY <2>2, OneSentence
  <2>4. IsDraft(<< >>)
    BY ShortIsList DEF IsDraft, AtMostOne
  <2> QED BY <2>3, <2>4
<1>3. IsDraft(open)
  <2>1. PICK n \in Nat : DOMAIN invoices = 1..n
    BY InOrderIs
  <2> HIDE DEF invoices
  <2>2. open = [k \in 1..n |-> open[k]] /\ \A k \in 1..n : IsSentence(open[k])
    BY <2>1, InvoiceSentenceIs
  <2> HIDE DEF open
  <2> QED BY <2>2, DraftIs
<1>4. IsDraft(FlattenSeq(cash))
  <2>1. PICK n \in Nat : DOMAIN payments = 1..n
    BY InOrderIs
  <2> HIDE DEF payments
  <2>2. cash = [k \in 1..n |-> cash[k]] /\ \A k \in 1..n : IsDraft(cash[k])
    BY <2>1, PaymentSentencesAre
  <2> HIDE DEF cash
  <2> QED BY <2>2, DraftsFlat
<1>5. IsDraft(memo)
  <2>1. PICK n \in Nat : DOMAIN credits = 1..n
    BY InOrderIs
  <2> HIDE DEF credits
  <2>2. memo = [k \in 1..n |-> memo[k]] /\ \A k \in 1..n : IsSentence(memo[k])
    BY <2>1, CreditSentenceIs
  <2> HIDE DEF memo
  <2> QED BY <2>2, DraftIs
<1> HIDE DEF told, open, cash, memo
<1>6. IsDraft(<<BalanceSentence(l)>>) /\ IsDraft(<<Closing>>) /\ IsDraft(Opening(l))
  BY BalanceSentenceIs, ClosingIs, OpeningIs, OneSentence
<1>7. IsDraft(Opening(l) \o <<BalanceSentence(l)>>)
  BY <1>6, DraftsJoin
<1>8. IsDraft(Opening(l) \o <<BalanceSentence(l)>> \o told)
  BY <1>2, <1>7, DraftsJoin
<1>9. IsDraft(Opening(l) \o <<BalanceSentence(l)>> \o told \o open)
  BY <1>3, <1>8, DraftsJoin
<1>10. IsDraft(Opening(l) \o <<BalanceSentence(l)>> \o told \o open \o FlattenSeq(cash))
  BY <1>4, <1>9, DraftsJoin
<1>11. IsDraft(Opening(l) \o <<BalanceSentence(l)>> \o told \o open \o FlattenSeq(cash) \o memo)
  BY <1>5, <1>10, DraftsJoin
<1> QED BY <1>1, <1>6, <1>11, DraftsJoin

\* A draft with one sentence more.
LEMMA AppendIsDraft ==
    ASSUME NEW t, IsDraft(t), NEW s, IsSentence(s)
    PROVE  IsDraft(Append(t, s))
<1>1. IsDraft(t \o <<s>>)
  BY OneSentence, DraftsJoin
<1>2. t \in Seq(Range(t) \cup {s})
  <2>1. Range(t) \subseteq Range(t) \cup {s}
    OBVIOUS
  <2> QED BY <2>1, SeqOver DEF IsDraft, IsList
<1>3. Append(t, s) = t \o <<s>>
  BY <1>2
<1> QED BY <1>1, <1>3

\* A draft with one sentence exchanged for another.
LEMMA ExchangedIsDraft ==
    ASSUME NEW t, IsDraft(t), NEW k, NEW s, k \in DOMAIN t => IsSentence(s)
    PROVE  IsDraft([t EXCEPT ![k] = s])
<1>1. PICK n \in Nat : DOMAIN t = 1..n
  BY ListIs DEF IsDraft
<1>2. PICK u : u = [t EXCEPT ![k] = s]
  OBVIOUS
<1>3. u = [i \in 1..n |-> u[i]]
  BY <1>1, <1>2
<1>4. \A i \in 1..n : u[i] = IF i = k THEN s ELSE t[i]
  BY <1>1, <1>2
<1>5. \A i \in 1..n : IsSentence(u[i])
  BY <1>1, <1>4 DEF IsDraft
<1> QED BY <1>2, <1>3, <1>5, DraftIs

\* A sentence, and a draft, with one token exchanged for another.
LEMMA ExchangedIsSentence ==
    ASSUME NEW s, IsSentence(s), NEW k, NEW x, IsToken(x)
    PROVE  IsSentence([s EXCEPT ![k] = x])
<1>1. PICK n \in Nat : DOMAIN s = 1..n
  BY ListIs DEF IsSentence
<1>2. PICK u : u = [s EXCEPT ![k] = x]
  OBVIOUS
<1>3. u = [i \in 1..n |-> u[i]]
  BY <1>1, <1>2
<1>4. \A i \in 1..n : u[i] = IF i = k THEN x ELSE s[i]
  BY <1>1, <1>2
<1>5. \A i \in 1..n : IsToken(u[i])
  BY <1>1, <1>4 DEF IsSentence
<1> QED BY <1>2, <1>3, <1>5, SentenceIs

LEMMA ReplacedIsDraft ==
    ASSUME NEW t, IsDraft(t), NEW p, NEW x, IsToken(x)
    PROVE  IsDraft(Replace(t, p, x))
<1>1. p[1] \in DOMAIN t => IsSentence([t[p[1]] EXCEPT ![p[2]] = x])
  BY ExchangedIsSentence DEF IsDraft
<1>2. IsDraft([t EXCEPT ![p[1]] = [t[p[1]] EXCEPT ![p[2]] = x]])
  BY <1>1, ExchangedIsDraft
<1> QED BY <1>2 DEF Replace

\* Every corruption leaves a draft.
LEMMA CorruptedIsDraft ==
    ASSUME NEW t, IsDraft(t), NEW l
    PROVE  /\ \A u \in SwapAmount(t, l) : IsDraft(u)
           /\ \A u \in FabricateId(t, l) : IsDraft(u)
           /\ \A u \in BreakSum(t, l) : IsDraft(u)
           /\ \A u \in InjectFuzzy(t) : IsDraft(u)
<1>1. \A p, n : IsDraft(Replace(t, p, Dollar(n)))
  BY TokensAre, ReplacedIsDraft
<1>2. \A p, n : IsDraft(Replace(t, p, DocToken("INV", "", n)))
  BY TokensAre, ReplacedIsDraft
<1>3. \A u \in SwapAmount(t, l) : IsDraft(u)
  <2> TAKE u \in SwapAmount(t, l)
  <2>1. \E p, n : u = Replace(t, p, Dollar(n))
    BY DEF SwapAmount
  <2> QED BY <1>1, <2>1
<1>4. \A u \in FabricateId(t, l) : IsDraft(u)
  <2> TAKE u \in FabricateId(t, l)
  <2>1. \E p, n : u = Replace(t, p, DocToken("INV", "", n))
    <3> DEFINE real == {p \in Places(t) : At(t, p).text \in InvoiceIds(l)}
               free == {n \in FreshNumbers :
                          /\ DocId("INV", "", n) \notin DocumentIds(l)
                          /\ \A p \in Places(t) : At(t, p).text # DocId("INV", "", n)}
               made == Replace(t, FirstOf(real), DocToken("INV", "", Min(free)))
    <3>1. FabricateId(t, l) = IF real = {} \/ free = {} THEN {} ELSE {made}
      BY DEF FabricateId
    <3> HIDE DEF real, free
    <3>2. \E p, n : made = Replace(t, p, DocToken("INV", "", n))
      OBVIOUS
    <3> HIDE DEF made
    <3> QED BY <3>1, <3>2
  <2> QED BY <1>2, <2>1
<1>5. \A u \in BreakSum(t, l) : IsDraft(u)
  <2> TAKE u \in BreakSum(t, l)
  <2>1. \E p, n : u = Replace(t, p, Dollar(n))
    BY DEF BreakSum
  <2> QED BY <1>1, <2>1
<1>6. \A s \in FuzzySentences : IsSentence(s)
  <2> DEFINE a == <<"your", "account", "manager", "approved", "a", "waiver", "of",
                    "the", "late", "fees", "on", "this", "balance">>
             b == <<"as", "we", "discussed", "by", "phone", ",", "we", "will", "hold",
                    "this", "invoice", "until", "next", "quarter">>
  <2>1. DOMAIN a = 1..13 /\ DOMAIN b = 1..14
    OBVIOUS
  <2>2. FuzzySentences = {Words(a), Words(b)}
    BY DEF FuzzySentences
  <2> HIDE DEF a, b
  <2>3. IsSentence(Words(a)) /\ IsSentence(Words(b))
    BY <2>1, WordsAre
  <2> QED BY <2>2, <2>3
<1>7. \A u \in InjectFuzzy(t) : IsDraft(u)
  BY <1>6, AppendIsDraft DEF InjectFuzzy
<1> QED BY <1>3, <1>4, <1>5, <1>7

\* A draft that is written on takes up what its parts take up.
LEMMA WrittenIsMeasured ==
    ASSUME NEW t, IsDraft(t), \A k \in DOMAIN t : Measured(t[k]),
           NEW phrase, IsSentence(phrase), Measured(phrase)
    PROVE  /\ \A k \in DOMAIN Append(t, phrase) : Measured(Append(t, phrase)[k])
           /\ LET u == [t EXCEPT ![Len(t)] = @ \o phrase]
              IN  \A k \in DOMAIN u : Measured(u[k])
<1>1. PICK n \in Nat : DOMAIN t = 1..n /\ Len(t) = n
  BY ListIs DEF IsDraft
<1>2. t \in Seq(Range(t) \cup {phrase})
  <2>1. Range(t) \subseteq Range(t) \cup {phrase}
    OBVIOUS
  <2> QED BY <2>1, SeqOver DEF IsDraft, IsList
<1>3. ASSUME NEW k \in DOMAIN Append(t, phrase) PROVE Measured(Append(t, phrase)[k])
  <2>1. k \in 1..(n + 1) /\ Append(t, phrase)[k] = IF k = n + 1 THEN phrase ELSE t[k]
    BY <1>1, <1>2
  <2> QED BY <1>1, <2>1
<1>4. ASSUME NEW s, IsSentence(s), Measured(s) PROVE Measured(s \o phrase)
  <2>1. PICK a \in Nat : DOMAIN s = 1..a /\ Len(s) = a
    BY <1>4, ListIs DEF IsSentence
  <2>2. PICK b \in Nat : DOMAIN phrase = 1..b /\ Len(phrase) = b
    BY ListIs DEF IsSentence
  <2>3. s \in Seq(Range(s) \cup Range(phrase)) /\ phrase \in Seq(Range(s) \cup Range(phrase))
    <3>1. Range(s) \subseteq Range(s) \cup Range(phrase) /\ Range(phrase) \subseteq Range(s) \cup Range(phrase)
      OBVIOUS
    <3> QED BY <1>4, <3>1, SeqOver DEF IsSentence, IsList
  <2>4. ASSUME NEW k \in DOMAIN (s \o phrase) PROVE Len((s \o phrase)[k].text) \in Nat \ {0}
    <3>1. k \in 1..(a + b) /\ (s \o phrase)[k] = IF k <= a THEN s[k] ELSE phrase[k - a]
      BY <2>1, <2>2, <2>3
    <3>2. CASE k <= a
      BY <1>4, <2>1, <3>1, <3>2 DEF Measured
    <3>3. CASE k > a
      <4>1. k - a \in DOMAIN phrase /\ (s \o phrase)[k] = phrase[k - a]
        BY <2>1, <2>2, <3>1, <3>3
      <4>2. Len(phrase[k - a].text) \in Nat \ {0}
        BY <4>1 DEF Measured
      <4> QED BY <4>1, <4>2
    <3> QED BY <2>1, <3>1, <3>2, <3>3
  <2> QED BY <2>4 DEF Measured
<1>5. PICK u : u = [t EXCEPT ![Len(t)] = @ \o phrase]
  OBVIOUS
<1>6. ASSUME NEW k \in DOMAIN u PROVE Measured(u[k])
  <2>1. k \in DOMAIN t /\ u[k] = IF k = n THEN t[k] \o phrase ELSE t[k]
    BY <1>1, <1>5
  <2>2. IsSentence(t[k]) /\ Measured(t[k])
    BY <2>1 DEF IsDraft
  <2> QED BY <1>4, <2>1, <2>2
<1> QED BY <1>3, <1>5, <1>6

\* Verifying a draft establishes the invariant, and so every step keeps it.
LEMMA VerifyKeeps ==
    ASSUME ledger \in Ledgers, NEW t, IsDraft(t), \A k \in DOMAIN t : Measured(t[k]),
           VerifyDraft(t), CameFrom'
    PROVE  AuditInv'
<1>1. PICK answer \in Answers(DraftOf(t, ledger).claims) :
        /\ text' = t /\ ledger' = ledger
        /\ checked' = Listed(CheckAll(DraftOf(t, ledger).claims, ledger,
                        [k \in DOMAIN DraftOf(t, ledger).claims |-> answer]))
        /\ decision' = Decide(checked', DraftOf(t, ledger), ledger, 0, <<t>>)
  BY DEF VerifyDraft
<1>2. DraftOf(t, ledger).claims = ExtractClaims(t, ledger)
  BY DEF DraftOf
<1>3. answer \in VerifierAnswers(ledger)
  <2>1. [kind |-> "failed", cited |-> {}] \in VerifierAnswers(ledger)
    BY DEF VerifierAnswers
  <2> QED BY <2>1 DEF Answers
<1>4. Verified(ExtractClaims(t, ledger), ledger, checked')
  BY <1>1, <1>2, <1>3 DEF Verified
<1>5. /\ Verified(ExtractClaims(text', ledger'), ledger', checked')
      /\ decision' = Decide(checked', DraftOf(text', ledger'), ledger', 0, <<text'>>)
  BY <1>1, <1>4
<1> QED BY <1>1, <1>5 DEF AuditInv

LEMMA AuditInit == Init => AuditInv
<1> SUFFICES ASSUME Init PROVE AuditInv
  OBVIOUS
<1>1. IsDraft(<< >>)
  BY ShortIsList DEF IsDraft, AtMostOne
<1> QED BY <1>1 DEF Init, AuditInv, CameFrom

LEMMA AuditStep == AuditInv /\ [Next]_vars => AuditInv'
<1> SUFFICES ASSUME AuditInv, [Next]_vars PROVE AuditInv'
  OBVIOUS
<1>1. ledger \in Ledgers /\ IsDraft(text) /\ IsList(ledger.docs)
  BY LedgersAssumption DEF AuditInv
<1>2. CASE VerifyGolden
  <2>1. VerifyDraft(GoldenDraft(ledger))
    BY <1>2 DEF VerifyGolden
  <2>2. IsDraft(GoldenDraft(ledger))
    BY <1>1, GoldenIsDraft
  <2>3. origin' = "golden" /\ text' = GoldenDraft(ledger) /\ ledger' = ledger
    BY <1>2, <2>1 DEF VerifyGolden, VerifyDraft
  <2>4. CameFrom'
    BY <2>3 DEF CameFrom
  <2>5. \A k \in DOMAIN GoldenDraft(ledger) : Measured(GoldenDraft(ledger)[k])
    BY <1>1, SpellingAssumption DEF ErrorRunTexts
  <2> QED BY <1>1, <2>1, <2>2, <2>4, <2>5, VerifyKeeps
<1>3. CASE VerifyCorrupted
  <2>1. PICK t \in Corruption(origin') : VerifyDraft(t)
    BY <1>3 DEF VerifyCorrupted
  <2>2. origin' \in {"swapped", "fabricated", "broken", "fuzzy"}
    BY <1>3 DEF VerifyCorrupted
  <2>3. IsDraft(t)
    <3>1. CASE origin' = "swapped"
      BY <1>1, <2>1, <3>1, CorruptedIsDraft DEF Corruption
    <3>2. CASE origin' = "fabricated"
      BY <1>1, <2>1, <3>2, CorruptedIsDraft DEF Corruption
    <3>3. CASE origin' = "broken"
      BY <1>1, <2>1, <3>3, CorruptedIsDraft DEF Corruption
    <3>4. CASE origin' = "fuzzy"
      BY <1>1, <2>1, <3>4, CorruptedIsDraft DEF Corruption
    <3> QED BY <2>2, <3>1, <3>2, <3>3, <3>4
  <2>4. text = GoldenDraft(ledger)
    BY <1>3 DEF VerifyCorrupted, AuditInv, CameFrom
  <2>5. text' = t /\ ledger' = ledger
    BY <2>1 DEF VerifyDraft
  <2>6. CameFrom'
    BY <2>1, <2>2, <2>4, <2>5 DEF CameFrom, Corruption
  <2>7. t \in ErrorRunTexts(ledger)
    <3>1. CASE origin' = "swapped"
      BY <2>1, <2>4, <3>1 DEF Corruption, ErrorRunTexts
    <3>2. CASE origin' = "fabricated"
      BY <2>1, <2>4, <3>2 DEF Corruption, ErrorRunTexts
    <3>3. CASE origin' = "broken"
      BY <2>1, <2>4, <3>3 DEF Corruption, ErrorRunTexts
    <3>4. CASE origin' = "fuzzy"
      BY <2>1, <2>4, <3>4 DEF Corruption, ErrorRunTexts
    <3> QED BY <2>2, <3>1, <3>2, <3>3, <3>4
  <2>8. \A k \in DOMAIN t : Measured(t[k])
    BY <1>1, <2>7, SpellingAssumption
  <2> QED BY <1>1, <2>1, <2>3, <2>6, <2>8, VerifyKeeps
<1>4. ASSUME NEW phrase \in Phrases[ledger], Write(phrase) PROVE AuditInv'
  <2>1. IsSentence(phrase)
    BY <1>1, PhrasesAssumption
  <2>2. PICK t : /\ VerifyDraft(t)
                 /\ \/ text # << >> /\ t = [text EXCEPT ![Len(text)] = @ \o phrase]
                    \/ t = Append(text, phrase)
    BY <1>4 DEF Write
  <2>3. IsDraft([text EXCEPT ![Len(text)] = @ \o phrase])
    <3>1. Len(text) \in DOMAIN text => IsSentence(text[Len(text)] \o phrase)
      BY <1>1, <2>1, ToldIs DEF IsDraft
    <3> QED BY <1>1, <3>1, ExchangedIsDraft
  <2>4. IsDraft(Append(text, phrase))
    BY <1>1, <2>1, AppendIsDraft
  <2>5. CameFrom'
    BY <1>4 DEF Write, CameFrom
  <2>6. Measured(phrase) /\ \A k \in DOMAIN text : Measured(text[k])
    BY <1>1, SpellingAssumption DEF AuditInv
  <2>7. \A k \in DOMAIN t : Measured(t[k])
    BY <1>1, <2>1, <2>2, <2>6, WrittenIsMeasured
  <2> QED BY <1>1, <2>2, <2>3, <2>4, <2>5, <2>7, VerifyKeeps
<1>5. CASE UNCHANGED vars
  BY <1>5 DEF AuditInv, CameFrom, vars, Verified
<1> QED BY <1>2, <1>3, <1>4, <1>5 DEF Next

-----------------------------------------------------------------------------
(***************************************************************************)
(* The figures the checks pass are figures of the replay                   *)
(***************************************************************************)
\* The oracle's figures of a document.
LEMMA OracleFigures ==
    ASSUME NEW l, SoundLedger(l), NEW d \in DocumentIds(l)
    PROVE  DocumentFigures(l)[d] =
             IF d \in InvoiceIds(l)
               THEN {l.invoices[d].amount, OpenAmount(l, d)}
                      \cup (IF AppliedToInvoice(l, d) > 0 THEN {AppliedToInvoice(l, d)} ELSE {})
               ELSE {SourceDoc(l, d).amount, UnappliedAmount(l, d)}
                      \cup (IF AppliedFromSource(l, d) > 0 THEN {AppliedFromSource(l, d)} ELSE {})
<1>1. DocumentFigures(l)[d] =
             IF d \in InvoiceIds(l)
               THEN {l.invoices[d].amount, Replay(l).remaining[d]}
                      \cup (IF AppliedToInvoice(l, d) > 0 THEN {AppliedToInvoice(l, d)} ELSE {})
               ELSE {SourceDoc(l, d).amount, Replay(l).credit[d]}
                      \cup (IF AppliedFromSource(l, d) > 0 THEN {AppliedFromSource(l, d)} ELSE {})
  BY DEF DocumentFigures, AppliedToInvoice, AppliedFromSource, SumApplied
<1>2. d \in InvoiceIds(l) => Replay(l).remaining[d] = OpenAmount(l, d)
  BY ReplayLeaves DEF Open
<1>3. d \notin InvoiceIds(l) => Replay(l).credit[d] = UnappliedAmount(l, d)
  BY ReplayLeaves DEF Unapplied, DocumentIds
<1> QED BY <1>1, <1>2, <1>3

Untouched(l, d) == \A j \in DOMAIN l.applications :
                     d \notin {l.applications[j].source, l.applications[j].target}

\* A figure of a document in the role the claim gives it.
LEMMA RoleBorne ==
    ASSUME NEW l, SoundLedger(l), NEW d \in DocumentIds(l), NEW role \in Roles,
           NEW n \in RoleFigures(d, l)[role]
    PROVE  n \in DocumentFigures(l)[d] \/ (n = 0 /\ Untouched(l, d))
<1>1. \A j \in DOMAIN l.applications : /\ l.applications[j].source \in SourceIds(l)
                                       /\ l.applications[j].target \in InvoiceIds(l)
  BY DEF SoundLedger, WellFormed
<1>2. CASE d \in InvoiceIds(l)
  <2>1. n \in {l.invoices[d].amount, OpenAmount(l, d), AppliedToInvoice(l, d)}
    BY <1>2 DEF RoleFigures, Roles
  <2>2. AppliedToInvoice(l, d) \in Nat
    BY <1>2, FiguresAreCents
  <2>3. AppliedToInvoice(l, d) = 0 => Untouched(l, d)
    <3>1. AppliedToInvoice(l, d) = 0 =>
            {k \in DOMAIN l.applications : l.applications[k].target = d} = {}
      BY NothingApplied DEF AppliedToInvoice
    <3> QED BY <1>1, <1>2, <3>1, FamiliesDisjoint DEF Untouched
  <2>4. AppliedToInvoice(l, d) # 0 => AppliedToInvoice(l, d) > 0
    BY <2>2
  <2> QED BY <1>2, <2>1, <2>3, <2>4, OracleFigures
<1>3. CASE d \notin InvoiceIds(l)
  <2>1. n \in {SourceDoc(l, d).amount, UnappliedAmount(l, d), AppliedFromSource(l, d)}
    BY <1>3 DEF RoleFigures, Roles
  <2>2. d \in SourceIds(l) /\ AppliedFromSource(l, d) \in Nat
    BY <1>3, FiguresAreCents DEF DocumentIds
  <2>3. AppliedFromSource(l, d) = 0 => Untouched(l, d)
    <3>1. AppliedFromSource(l, d) = 0 =>
            {k \in DOMAIN l.applications : l.applications[k].source = d} = {}
      BY NothingApplied DEF AppliedFromSource
    <3> QED BY <1>1, <1>3, <3>1 DEF Untouched
  <2>4. AppliedFromSource(l, d) # 0 => AppliedFromSource(l, d) > 0
    BY <2>2
  <2> QED BY <1>3, <2>1, <2>3, <2>4, OracleFigures
<1> QED BY <1>2, <1>3

\* An amount bound to a document passes as a figure of that document.
LEMMA BoundBorne ==
    ASSUME NEW l, SoundLedger(l), NEW c, NEW d, c.role \in Roles,
           CheckBoundAmount(c, d, l).status = "pass"
    PROVE  /\ d \in DocumentIds(l)
           /\ c.num \in DocumentFigures(l)[d] \/ (c.num = 0 /\ Untouched(l, d))
<1>1. \A status, cites : Result(status, cites).status = status
  BY DEF Result
<1>2. d \in DocumentIds(l) /\ c.num \in RoleFigures(d, l)[c.role]
  BY <1>1 DEF CheckBoundAmount
<1> QED BY <1>2, RoleBorne

\* The totals of the account.
LEMMA TotalsBorne ==
    ASSUME NEW l, SoundLedger(l)
    PROVE  /\ NetBalance(l) \in AccountTotals(l)
           /\ \/ OpenInvoiceTotal(l) \in AccountTotals(l)
              \/ /\ OpenInvoiceTotal(l) = 0
                 /\ \A i \in InvoiceIds(l) : Replay(l).remaining[i] = 0
<1> DEFINE open == Total(Replay(l).remaining, InvoiceIds(l))
           cash == Total(Replay(l).credit, PaymentIds(l))
           memo == Total(Replay(l).credit, CreditIds(l))
           net  == open - cash - memo
<1>1. AccountTotals(l) = {open, cash, memo, net} \ (IF net = 0 THEN {} ELSE {0})
  BY DEF AccountTotals, Total
<1>2. open = OpenInvoiceTotal(l) /\ net = NetBalance(l)
  BY ReplayLeaves, OpenTotal, CashUnappliedTotal, CreditUnappliedTotal DEF NetBalance
<1>3. OpenInvoiceTotal(l) = 0 => \A i \in InvoiceIds(l) : Replay(l).remaining[i] = 0
  <2>1. \A i \in InvoiceIds(l) : Open(l)[i] \in Nat
    BY FiguresAreCents DEF Open
  <2>2. \A i \in InvoiceIds(l) : Open(l)[i] <= OpenInvoiceTotal(l)
    BY <2>1, FiguresSummable, TotalNat, OpenTotal
  <2>3. ASSUME OpenInvoiceTotal(l) = 0, NEW i \in InvoiceIds(l) PROVE Open(l)[i] = 0
    BY <2>1, <2>2, <2>3
  <2> QED BY <2>3, ReplayLeaves
<1> HIDE DEF open, cash, memo, net
<1> QED BY <1>1, <1>2, <1>3

\* An amount bound to none passes as money received or as the balance.
LEMMA UnboundBorne ==
    ASSUME NEW l, NEW c, CheckUnboundAmount(c, l).status = "pass"
    PROVE  c.num \in ReceivedFigures(l) \/ c.num = NetBalance(l)
<1>1. \A status, cites : Result(status, cites).status = status
  BY DEF Result
<1>2. CASE "received" \in c.span
  BY <1>1, <1>2 DEF CheckUnboundAmount
<1>3. CASE "received" \notin c.span /\ "remit" \in c.span
  BY <1>1, <1>3 DEF CheckUnboundAmount
<1>4. CASE ~("received" \in c.span) /\ ~("received" \notin c.span /\ "remit" \in c.span)
  BY <1>1, <1>4 DEF CheckUnboundAmount
<1> QED BY <1>2, <1>3, <1>4

-----------------------------------------------------------------------------
(***************************************************************************)
(* A subtotal counts an invoice as often as the sentence names it          *)
(***************************************************************************)
\* Each document of a list stands for one mention, and each mention for one.
PlacedAt(docs, m, P, p) ==
    /\ DOMAIN p = DOMAIN docs
    /\ \A j \in DOMAIN docs : p[j] \in P /\ docs[j] = m[p[j]].doc
    /\ \A k \in P : \E j \in DOMAIN docs : p[j] = k
    /\ \A i, j \in DOMAIN docs : p[i] = p[j] => i = j

\* Every list of documents is placed so.
LEMMA DocsArePlaced ==
    ASSUME NEW m, IsList(m), NEW P \in SUBSET DOMAIN m
    PROVE  \E p : PlacedAt(DocsAt(m, P), m, P, p)
<1>1. PICK n \in Nat : n = Len(m) /\ DOMAIN m = 1..n
  BY ListIs
<1> DEFINE ss == [k \in 1..n |-> IF k \in P THEN <<m[k].doc>> ELSE << >>]
           S  == {m[k].doc : k \in 1..n}
<1>2. DocsAt(m, P) = FlattenSeq(ss)
  <2>1. ss = [k \in 1..n |-> ss[k]]
    OBVIOUS
  <2> HIDE DEF ss
  <2>2. Listed(ss) = ss
    BY <2>1, ListedIs
  <2> QED BY <1>1, <2>2 DEF DocsAt, ss
<1>3. ss \in [1..n -> Seq(S)]
  <2>1. << >> \in Seq(S) /\ \A k \in 1..n : <<m[k].doc>> \in Seq(S)
    OBVIOUS
  <2>2. \A k \in 1..n : ss[k] \in Seq(S)
    BY <2>1
  <2> HIDE DEF S
  <2> QED BY <2>2
<1>4. ASSUME NEW k \in 1..n
      PROVE  /\ k \in P => DOMAIN ss[k] = {1} /\ ss[k][1] = m[k].doc
             /\ k \notin P => DOMAIN ss[k] = {}
  OBVIOUS
<1> HIDE DEF ss, S
<1>5. PICK docs : docs = DocsAt(m, P)
  OBVIOUS
<1>6. PICK p, q : JoinedAt(docs, ss, n, p, q)
  <2>1. Joined(FlattenSeq(ss), ss, n)
    BY <1>3, FlattenIs
  <2> QED BY <1>2, <1>5, <2>1 DEF Joined
<1>7. \A j \in DOMAIN docs : p[j] \in P /\ q[j] = 1 /\ docs[j] = m[p[j]].doc
  BY <1>4, <1>6 DEF JoinedAt
<1>8. \A k \in P : \E j \in DOMAIN docs : p[j] = k
  <2> TAKE k \in P
  <2>1. k \in 1..n /\ 1 \in DOMAIN ss[k]
    BY <1>1, <1>4
  <2> QED BY <1>6, <2>1 DEF JoinedAt
<1>9. PlacedAt(docs, m, P, p)
  BY <1>6, <1>7, <1>8 DEF JoinedAt, PlacedAt
<1> QED BY <1>5, <1>9

\* The places of documents of a set, and a list that holds each of them once.
Among(m, P, I) == {k \in P : m[k].doc \in I}
HoldsOnce(docs, I) ==
    \A a, b \in DOMAIN docs : docs[a] = docs[b] /\ docs[a] \in I => a = b

\* When the invoices on record are named once each, the list of all invoices
\* named holds each of them once.
LEMMA NamedOnce ==
    ASSUME NEW m, IsList(m), NEW I, NEW P \in SUBSET DOMAIN m,
           NEW docs, docs = DocsAt(m, P),
           NEW Q, Q = Among(m, P, I),
           NEW named, named = DocsAt(m, Q), IsInjective(named)
    PROVE  Range(named) = Range(docs) \cap I /\ HoldsOnce(docs, I)
<1>1. PICK p : PlacedAt(docs, m, P, p)
  BY DocsArePlaced
<1>2. PICK q : PlacedAt(named, m, Q, q)
  <2>1. Q \in SUBSET DOMAIN m
    BY DEF Among
  <2> QED BY <2>1, DocsArePlaced
<1>3. \A k \in Q : k \in P /\ m[k].doc \in I
  BY DEF Among
<1>4. \A k \in P : m[k].doc \in I => k \in Q
  BY DEF Among
<1>5. ASSUME NEW a \in DOMAIN docs, docs[a] \in I
      PROVE  \E x \in DOMAIN named : named[x] = docs[a] /\ q[x] = p[a]
  <2>1. p[a] \in Q /\ m[p[a]].doc = docs[a]
    BY <1>1, <1>4, <1>5 DEF PlacedAt
  <2>2. PICK x \in DOMAIN named : q[x] = p[a]
    BY <1>2, <2>1 DEF PlacedAt
  <2>3. named[x] = docs[a]
    BY <1>2, <2>1, <2>2 DEF PlacedAt
  <2> QED BY <2>2, <2>3
<1>6. ASSUME NEW x \in DOMAIN named
      PROVE  \E a \in DOMAIN docs : docs[a] \in I /\ named[x] = docs[a]
  <2>1. q[x] \in Q /\ named[x] = m[q[x]].doc
    BY <1>2 DEF PlacedAt
  <2>2. PICK a \in DOMAIN docs : p[a] = q[x]
    BY <1>1, <1>3, <2>1 DEF PlacedAt
  <2>3. docs[a] = named[x] /\ docs[a] \in I
    BY <1>1, <1>3, <2>1, <2>2 DEF PlacedAt
  <2> QED BY <2>3
<1>7. ASSUME NEW a \in DOMAIN docs, NEW b \in DOMAIN docs, docs[a] = docs[b], docs[a] \in I
      PROVE  a = b
  <2>1. PICK x \in DOMAIN named : named[x] = docs[a] /\ q[x] = p[a]
    BY <1>5, <1>7
  <2>2. PICK y \in DOMAIN named : named[y] = docs[b] /\ q[y] = p[b]
    BY <1>5, <1>7
  <2>3. x = y
    BY <1>7, <2>1, <2>2 DEF IsInjective
  <2> QED BY <1>1, <2>1, <2>2, <2>3 DEF PlacedAt
<1>8. ASSUME NEW d \in Range(named) PROVE d \in Range(docs) \cap I
  BY <1>6 DEF Range
<1>9. ASSUME NEW d \in Range(docs) \cap I PROVE d \in Range(named)
  <2>1. PICK a \in DOMAIN docs : docs[a] = d
    BY DEF Range
  <2>2. PICK x \in DOMAIN named : named[x] = docs[a]
    BY <1>5, <2>1
  <2> QED BY <2>1, <2>2 DEF Range
<1>10. Range(named) = Range(docs) \cap I
  BY <1>8, <1>9
<1> QED BY <1>7, <1>10 DEF HoldsOnce

LEMMA OpenSum ==
    ASSUME NEW D \in SUBSET InvoiceIds(ledger)
    PROVE  SumOpen(D) = Total(Open(ledger), D)
<1> DEFINE Direct(it) == it = [T \in SUBSET D |-> IF T = {} THEN 0
               ELSE OpenAmount(ledger, CHOOSE x \in T : TRUE) + it[T \ {CHOOSE x \in T : TRUE}]]
           Tabled(it) == it = [T \in SUBSET D |-> IF T = {} THEN 0
               ELSE Open(ledger)[CHOOSE x \in T : TRUE] + it[T \ {CHOOSE x \in T : TRUE}]]
<1>1. SumOpen(D) = (CHOOSE it : Direct(it))[D]
  BY DEF SumOpen, MapThenSumSet, MapThenFoldSet
<1>2. Total(Open(ledger), D) = (CHOOSE it : Tabled(it))[D]
  BY DEF Total, MapThenSumSet, MapThenFoldSet
<1>3. \A it : Direct(it) <=> Tabled(it)
  <2>1. \A T \in SUBSET D : T # {} =>
           OpenAmount(ledger, CHOOSE x \in T : TRUE) = Open(ledger)[CHOOSE x \in T : TRUE]
    <3> SUFFICES ASSUME NEW T \in SUBSET D, T # {}
                 PROVE  OpenAmount(ledger, Pick(T)) = Open(ledger)[Pick(T)]
      BY DEF Pick
    <3> QED BY PickIn DEF Open
  <2> QED BY <2>1
<1> HIDE DEF Direct, Tabled
<1>4. (CHOOSE it : Direct(it)) = (CHOOSE it : Tabled(it))
  BY <1>3
<1> QED BY <1>1, <1>2, <1>4

\* A list that holds each invoice on record once has the sum of their open
\* amounts.
LEMMA OnceSummed ==
    ASSUME NEW l, SoundLedger(l), NEW docs, IsList(docs), NEW K \in SUBSET DOMAIN docs,
           \A k \in K : docs[k] \in InvoiceIds(l),
           \A a, b \in K : docs[a] = docs[b] => a = b
    PROVE  Subtotal(l, docs, K) = Total(Open(l), {docs[k] : k \in K})
<1>1. PICK a : a = OpenAt(l, docs)
  OBVIOUS
<1>2. PICK I : I = {docs[k] : k \in K}
  OBVIOUS
<1>3. I \subseteq InvoiceIds(l) /\ IsFiniteSet(I) /\ IsFiniteSet(K)
  <2>1. I \subseteq InvoiceIds(l)
    BY <1>2
  <2>2. IsFiniteSet(InvoiceIds(l))
    BY FamiliesFinite DEF SoundLedger
  <2>3. PICK n \in Nat : DOMAIN docs = 1..n
    BY ListIs
  <2>4. IsFiniteSet(1..n)
    BY FS_Interval
  <2> QED BY <2>1, <2>2, <2>3, <2>4, FS_Subset
<1>4. \A k \in K : a[k] = Open(l)[docs[k]] /\ a[k] \in Int
  <2> TAKE k \in K
  <2>1. a[k] = OpenAmount(l, docs[k])
    BY <1>1 DEF OpenAt
  <2>2. OpenAmount(l, docs[k]) \in Int
    BY FiguresAreCents
  <2> QED BY <2>1, <2>2 DEF Open
<1>5. Summable(a, K) /\ Summable(Open(l), I)
  BY <1>3, <1>4, FiguresSummable DEF Summable
<1>6. PICK sums : sums = [i \in I |-> Total(a, {k \in K : docs[k] = i})]
  OBVIOUS
<1>7. Total(sums, I) = Total(a, K)
  <2>1. \A k \in K : docs[k] \in I
    BY <1>2
  <2> QED BY <1>3, <1>5, <1>6, <2>1, TotalByGroup
<1>8. \A i \in I : sums[i] = Open(l)[i]
  <2> TAKE i \in I
  <2>1. PICK k \in K : docs[k] = i
    BY <1>2
  <2>2. {j \in K : docs[j] = i} = {k}
    BY <2>1
  <2>3. Total(a, {k}) = a[k] + Total(a, {k} \ {k})
    BY <1>5, TotalRemove
  <2>4. Total(a, {k}) = a[k] + Total(a, {})
    <3>1. {k} \ {k} = {}
      OBVIOUS
    <3> QED BY <2>3, <3>1
  <2>5. Total(a, {k}) = a[k]
    <3>1. Total(a, {}) = 0 /\ a[k] \in Int
      BY <1>4, <1>5, TotalType
    <3> QED BY <2>4, <3>1
  <2>6. sums[i] = Total(a, {j \in K : docs[j] = i})
    BY <1>6
  <2>7. sums[i] = a[k]
    BY <2>2, <2>5, <2>6
  <2> QED BY <1>4, <2>1, <2>7
<1>9. Summable(sums, I)
  BY <1>3, <1>5, <1>8 DEF Summable
<1>10. Total(sums, I) = Total(Open(l), I)
  BY <1>5, <1>8, <1>9, TotalSame
<1> QED BY <1>1, <1>2, <1>7, <1>10, SubtotalTotal

-----------------------------------------------------------------------------
(***************************************************************************)
(* A figure that passes is borne out                                       *)
(***************************************************************************)
\* What a sum that passes comes to.
LEMMA SumBorne ==
    ASSUME SoundLedger(ledger), NEW s, IsSentence(s), ~NamesOneTwice(s),
           NEW m, m = Mentions(LaidOut(s), ledger),
           NEW c, c.docs = SubtotalDocs(LaidOut(s), m), CheckSum(c, ledger).status = "pass"
    PROVE  \/ c.num \in AccountTotals(ledger)
           \/ InvoicesNamed(s) # << >> /\ c.num = SumOpen(Range(InvoicesNamed(s)))
           \/ c.num = 0 /\ \A i \in InvoiceIds(ledger) : Replay(ledger).remaining[i] = 0
<1>1. \A status, cites : Result(status, cites).status = status
  BY DEF Result
<1>2. IsList(m)
  BY InvoicesNamedAre
<1> DEFINE bound == DocsOf(c) \cap InvoiceIds(ledger)
           K == {k \in DOMAIN c.docs : c.docs[k] \in bound}
<1>3. CASE bound = {}
  <2>1. c.num = NetBalance(ledger) \/ c.num = OpenInvoiceTotal(ledger)
    BY <1>1, <1>3 DEF CheckSum
  <2> QED BY <2>1, TotalsBorne
<1>4. CASE bound # {}
  <2>1. c.num = Subtotal(ledger, c.docs, K)
    BY <1>1, <1>4 DEF CheckSum, Subtotal
  <2>2. PICK P : P = {k \in DOMAIN m : m[k].fam = "INV"}
    OBVIOUS
  <2>3. PICK docs : docs = c.docs
    OBVIOUS
  <2>4. docs = DocsAt(m, P)
    <3>1. docs # << >>
      <4>1. PICK k \in DOMAIN docs : TRUE
        BY <1>4, <2>3 DEF DocsOf
      <4> QED BY <4>1
    <3> QED BY <2>2, <2>3, <3>1 DEF SubtotalDocs
  <2>5. PICK named : named = InvoicesNamed(s)
    OBVIOUS
  <2>6. PICK Q : Q = Among(m, P, InvoiceIds(ledger)) /\ named = DocsAt(m, Q)
    <3>1. Among(m, P, InvoiceIds(ledger))
            = {k \in DOMAIN m : m[k].fam = "INV" /\ m[k].doc \in InvoiceIds(ledger)}
      BY <2>2 DEF Among
    <3>2. InvoicesNamed(s) = DocsAt(m, {k \in DOMAIN m : m[k].fam = "INV"
                                              /\ m[k].doc \in InvoiceIds(ledger)})
      BY InvoicesNamedAre
    <3> QED BY <2>5, <3>1, <3>2
  <2>7. IsInjective(named)
    BY <2>5 DEF NamesOneTwice
  <2>8. /\ Range(named) = Range(docs) \cap InvoiceIds(ledger)
        /\ HoldsOnce(docs, InvoiceIds(ledger))
    <3>1. P \in SUBSET DOMAIN m
      BY <2>2
    <3> QED BY <1>2, <2>4, <2>6, <2>7, <3>1, NamedOnce
  <2>9. K = {j \in DOMAIN docs : docs[j] \in InvoiceIds(ledger)}
    BY <2>3 DEF DocsOf
  <2> HIDE DEF K, bound
  <2>10. IsList(docs)
    BY <1>2, <2>4, DocsAtAre
  <2>11. Subtotal(ledger, docs, K) = Total(Open(ledger), {docs[k] : k \in K})
    <3>1. K \in SUBSET DOMAIN docs
      BY <2>9
    <3>2. \A k \in K : docs[k] \in InvoiceIds(ledger)
      BY <2>9
    <3>3. \A a, b \in K : docs[a] = docs[b] => a = b
      BY <2>8, <2>9 DEF HoldsOnce
    <3> QED BY <2>10, <3>1, <3>2, <3>3, OnceSummed
  <2>12. c.num = Total(Open(ledger), {docs[k] : k \in K})
    BY <2>1, <2>3, <2>11
  <2>13. {docs[k] : k \in K} = Range(named)
    BY <2>8, <2>9 DEF Range
  <2>14. Range(named) \in SUBSET InvoiceIds(ledger)
    BY <2>8
  <2>15. named # << >>
    <3>1. PICK d : d \in DocsOf(c) /\ d \in InvoiceIds(ledger)
      BY <1>4 DEF bound
    <3>2. PICK k \in DOMAIN docs : d = docs[k]
      BY <2>3, <3>1 DEF DocsOf
    <3>3. d \in Range(docs) \cap InvoiceIds(ledger)
      BY <3>1, <3>2 DEF Range
    <3>4. d \in Range(named)
      BY <2>8, <3>3
    <3>5. PICK j \in DOMAIN named : TRUE
      BY <3>4 DEF Range
    <3> QED BY <3>5
  <2>16. c.num = SumOpen(Range(named))
    BY <2>12, <2>13, <2>14, OpenSum
  <2> QED BY <2>5, <2>15, <2>16
<1> QED BY <1>3, <1>4

\* The document an amount is bound to is one the sentence names.
LEMMA NearIsNamed ==
    ASSUME NEW m, IsList(m), NEW pos
    PROVE  /\ Preceding(m, pos) # << >> =>
                \E k \in DOMAIN m : Preceding(m, pos) = <<m[k].doc>>
           /\ Following(m, pos) # << >> =>
                \E k \in DOMAIN m : Following(m, pos) = <<m[k].doc>>
<1>1. PICK n \in Nat : DOMAIN m = 1..n
  BY ListIs
<1> DEFINE before == {k \in DOMAIN m : m[k].at <= pos}
           after  == {k \in DOMAIN m : ~(m[k].at <= pos)}
<1>2. before \in SUBSET (1..n) /\ after \in SUBSET (1..n)
  BY <1>1
<1>3. /\ Preceding(m, pos) = IF before = {} THEN << >> ELSE <<m[Max(before)].doc>>
      /\ Following(m, pos) = IF after = {} THEN << >> ELSE <<m[Min(after)].doc>>
  BY DEF Preceding, Following
<1> HIDE DEF before, after
<1>4. before # {} => Max(before) \in DOMAIN m
  BY <1>1, <1>2, MaxIn
<1>5. after # {} => Min(after) \in DOMAIN m
  BY <1>1, <1>2, MinIn
<1> QED BY <1>3, <1>4, <1>5

\* An amount is bound to a document that the sentence names, or is a sum, or
\* is bound to nothing.
LEMMA ClassesAre ==
    ASSUME NEW s, NEW a, NEW amounts, NEW m, IsList(m),
           NEW class, class = ClassifyAmount(s, a, amounts, m)
    PROVE  \/ /\ class.type = "C-AMT" /\ class.role \in Roles
              /\ \E k \in DOMAIN m : class.docs = <<m[k].doc>>
           \/ class.type = "C-SUM" /\ class.docs = SubtotalDocs(s, m)
           \/ class.type = "C-AMT" /\ class.docs = << >>
<1>1. PICK w : w = Window(s, a, amounts)
  OBVIOUS
<1>2. PICK before : before = Preceding(m, a.at)
  OBVIOUS
<1>3. PICK after : after = Following(m, a.at)
  OBVIOUS
<1>4. \A type, docs, role : /\ Class(type, docs, role).type = type
                            /\ Class(type, docs, role).docs = docs
                            /\ Class(type, docs, role).role = role
  BY DEF Class
<1>5. class = CASE before # << >> /\ ~ExplicitTotal(w, a) ->
                     Class("C-AMT", before, RoleOf(w, a))
                [] (before = << >> \/ ExplicitTotal(w, a)) /\ SumContext(w, a) ->
                     Class("C-SUM", SubtotalDocs(s, m), "total")
                [] /\ before = << >> /\ ~SumContext(w, a) /\ after # << >> ->
                     Class("C-AMT", after, RoleOf(w, a))
                [] OTHER -> Class("C-AMT", << >>, "unknown")
  BY <1>1, <1>2, <1>3 DEF ClassifyAmount
<1>6. CASE before # << >> /\ ~ExplicitTotal(w, a)
  <2>1. \/ class = Class("C-AMT", before, RoleOf(w, a))
    BY <1>5, <1>6
  <2>2. \E k \in DOMAIN m : before = <<m[k].doc>>
    BY <1>2, <1>6, NearIsNamed
  <2> QED BY <1>4, <2>1, <2>2, RoleIs
<1>7. CASE (before = << >> \/ ExplicitTotal(w, a)) /\ SumContext(w, a)
  <2>1. class = Class("C-SUM", SubtotalDocs(s, m), "total")
    BY <1>5, <1>7
  <2> QED BY <1>4, <2>1
<1>8. CASE before = << >> /\ ~SumContext(w, a) /\ after # << >>
  <2>1. ~(before # << >> /\ ~ExplicitTotal(w, a))
    BY <1>8
  <2>2. class = Class("C-AMT", after, RoleOf(w, a))
    BY <1>5, <1>8, <2>1
  <2>3. \E k \in DOMAIN m : after = <<m[k].doc>>
    BY <1>3, <1>8, NearIsNamed
  <2> QED BY <1>4, <2>2, <2>3, RoleIs
<1>9. CASE /\ ~(before # << >> /\ ~ExplicitTotal(w, a))
           /\ ~((before = << >> \/ ExplicitTotal(w, a)) /\ SumContext(w, a))
           /\ ~(before = << >> /\ ~SumContext(w, a) /\ after # << >>)
  <2>1. class = Class("C-AMT", << >>, "unknown")
    BY <1>5, <1>9
  <2> QED BY <1>4, <2>1
<1> QED BY <1>6, <1>7, <1>8, <1>9

\* A figure whose claim passes is borne out.
LEMMA PassedIsBorneOut ==
    ASSUME SoundLedger(ledger), NEW s, IsSentence(s), ~NamesOneTwice(s),
           NEW m, m = Mentions(LaidOut(s), ledger),
           NEW c, CodeCheck(c, ledger).status = "pass",
           \/ /\ c.type = "C-AMT" /\ c.role \in Roles
              /\ \E k \in DOMAIN m : c.docs = <<m[k].doc>>
           \/ c.type = "C-SUM" /\ c.docs = SubtotalDocs(LaidOut(s), m)
           \/ c.type = "C-AMT" /\ c.docs = << >>
    PROVE  ~c.preset /\ BorneOut(c.num, s)
<1>1. \A status, cites : Result(status, cites).status = status
  BY DEF Result
<1>2. ~c.preset
  BY <1>1 DEF CodeCheck
<1>3. /\ c.type = "C-AMT" => CheckAmount(c, ledger).status = "pass"
      /\ c.type = "C-SUM" => CheckSum(c, ledger).status = "pass"
  BY <1>2 DEF CodeCheck
<1>4. PICK n : n = c.num
  OBVIOUS
<1>5. CASE c.type = "C-AMT" /\ c.role \in Roles /\ \E k \in DOMAIN m : c.docs = <<m[k].doc>>
  <2>1. PICK k \in DOMAIN m : c.docs = <<m[k].doc>>
    BY <1>5
  <2>2. Len(c.docs) = 1 /\ c.docs[1] = m[k].doc
    BY <2>1
  <2>3. CheckBoundAmount(c, m[k].doc, ledger).status = "pass"
    BY <1>1, <1>3, <1>5, <2>2 DEF CheckAmount
  <2>4. /\ m[k].doc \in DocumentIds(ledger)
        /\ n \in DocumentFigures(ledger)[m[k].doc] \/ (n = 0 /\ Untouched(ledger, m[k].doc))
    BY <1>4, <1>5, <2>3, BoundBorne
  <2>5. Untouched(ledger, m[k].doc) => NothingThere(m)
    BY DEF Untouched, NothingThere
  <2>6. BorneOut(n, s)
    BY <2>4, <2>5 DEF BorneOut
  <2> QED BY <1>2, <1>4, <2>6
<1>6. CASE c.type = "C-SUM" /\ c.docs = SubtotalDocs(LaidOut(s), m)
  <2>1. \/ n \in AccountTotals(ledger)
        \/ InvoicesNamed(s) # << >> /\ n = SumOpen(Range(InvoicesNamed(s)))
        \/ n = 0 /\ \A i \in InvoiceIds(ledger) : Replay(ledger).remaining[i] = 0
    BY <1>3, <1>4, <1>6, SumBorne
  <2>2. BorneOut(n, s)
    BY <2>1 DEF BorneOut, NothingThere
  <2> QED BY <1>2, <1>4, <2>2
<1>7. CASE c.type = "C-AMT" /\ c.docs = << >>
  <2>1. Len(c.docs) # 1
    BY <1>7
  <2>2. CheckUnboundAmount(c, ledger).status = "pass"
    BY <1>1, <1>3, <1>7, <2>1 DEF CheckAmount
  <2>3. n \in ReceivedFigures(ledger) \/ n = NetBalance(ledger)
    BY <1>4, <2>2, UnboundBorne
  <2>4. BorneOut(n, s)
    BY <2>3, TotalsBorne DEF BorneOut
  <2> QED BY <1>2, <1>4, <2>4
<1> QED BY <1>5, <1>6, <1>7

\* So every figure caught is borne out when all claims pass.
LEMMA AuditFigures == AuditInv => PassedFiguresAreBorneOut
<1> SUFFICES ASSUME AuditInv, AllPass, NEW k \in DOMAIN text, NEW j \in Caught(text[k]),
                    ~NamesOneTwice(text[k]), text[k][j].kind # "date",
                    ~TakenByMarker(text[k], j)
             PROVE  BorneOut(text[k][j].num, text[k])
  BY DEF PassedFiguresAreBorneOut
<1>1. /\ IsSentence(text[k]) /\ j \in DOMAIN text[k] /\ LooksLikeMoney(text[k], j)
      /\ SoundLedger(ledger)
  BY LedgersAssumption DEF AuditInv, IsDraft, Caught, SoundLedger
<1>2. PICK t : t = text[k]
  OBVIOUS
<1>3. PICK m : m = Mentions(LaidOut(t), ledger)
  OBVIOUS
<1>4. PICK found, c :
        /\ FoundAt(found, text[k][j])
        /\ c \in DOMAIN checked
        /\ checked[c].claim
             = AmountCandidate(Reading(text[k], ledger), found,
                 ClassifyAmount(LaidOut(text[k]), found, Amounts(LaidOut(text[k])),
                                Mentions(LaidOut(text[k]), ledger))).claim
        /\ checked[c].status = CodeCheck(checked[c].claim, ledger).status
  BY <1>1, MoneyClaimed
<1>5. PICK class : class = ClassifyAmount(LaidOut(t), found, Amounts(LaidOut(t)), m)
  OBVIOUS
<1>6. PICK claim : claim = checked[c].claim
  OBVIOUS
<1>7. /\ claim.type = class.type /\ claim.docs = class.docs /\ claim.role = class.role
      /\ claim.num = found.num /\ claim.preset = found.preset
  <2>1. claim = AmountCandidate(Reading(t, ledger), found, class).claim
    BY <1>2, <1>3, <1>4, <1>5, <1>6
  <2> QED BY <2>1, AmountClaim
<1>8. CodeCheck(claim, ledger).status = "pass"
  BY <1>4, <1>6 DEF AllPass
<1>9. IsSentence(t) /\ ~NamesOneTwice(t) /\ IsList(m)
  BY <1>1, <1>2, <1>3, InvoicesNamedAre
<1>10. \/ /\ claim.type = "C-AMT" /\ claim.role \in Roles
          /\ \E i \in DOMAIN m : claim.docs = <<m[i].doc>>
       \/ claim.type = "C-SUM" /\ claim.docs = SubtotalDocs(LaidOut(t), m)
       \/ claim.type = "C-AMT" /\ claim.docs = << >>
  BY <1>5, <1>7, <1>9, ClassesAre
<1>11. ~claim.preset /\ BorneOut(claim.num, t)
  BY <1>1, <1>3, <1>8, <1>9, <1>10, PassedIsBorneOut
<1>12. claim.num = text[k][j].num
  BY <1>4, <1>7, <1>11 DEF FoundAt
<1> QED BY <1>2, <1>11, <1>12

\* What stands between a token and the one before it.
Gap(s, k) == IF k = 1 \/ s[k].text \in Punctuation THEN 0 ELSE 1

\* Each token stands behind the one before it.
LEMMA PlacesAre ==
    ASSUME NEW s, IsSentence(s), Measured(s)
    PROVE  LET L == LaidOut(s)
           IN  /\ \A k \in DOMAIN s : /\ L[k].at \in Nat /\ L[k].end \in Nat
                                      /\ L[k].end = L[k].at + Len(s[k].text)
               /\ 1 \in DOMAIN s => L[1].at = 0
               /\ \A k \in DOMAIN s : k > 1 => L[k].at = L[k - 1].end + Gap(s, k)
<1>1. PICK n \in Nat : n = Len(s) /\ DOMAIN s = 1..n
  BY DEF IsSentence, IsList
<1> DEFINE Step(e, k) == e + Len(s[k].text)
                           + (IF k = 1 \/ s[k].text \in Punctuation THEN 0 ELSE 1)
           From(f) == [k \in 0..n |-> IF k = 0 THEN 0 ELSE Step(f[k - 1], k)]
           c == CHOOSE f : f = From(f)
           L == [k \in DOMAIN s |-> Placed(s[k], c[k] - Len(s[k].text), c[k])]
<1>2. LaidOut(s) = Listed(L)
  BY <1>1 DEF LaidOut
<1>0. \A k \in 1..n : Len(s[k].text) \in Nat
  BY <1>1 DEF Measured
<1>3. ASSUME NEW k \in 1..n, NEW e \in Nat PROVE Step(e, k) \in Nat
  <2>1. PICK w : w = Len(s[k].text) /\ w \in Nat
    BY <1>0
  <2>2. PICK g \in Nat : g = (IF k = 1 \/ s[k].text \in Punctuation THEN 0 ELSE 1)
    OBVIOUS
  <2>3. Step(e, k) = e + w + g
    BY <2>1, <2>2
  <2> HIDE DEF Step
  <2> QED BY <2>1, <2>3
<1>4. c = From(c)
  <2> DEFINE F == [k \in 1..n |-> [x \in Nat |-> Step(x, k)]]
  <2>1. F \in [1..n -> [Nat -> Nat]] /\ 0 \in Nat /\ n \in Nat
    <3> HIDE DEF Step
    <3> QED BY <1>3
  <2>2. PICK f \in [0..n -> Nat] : Iterates(f, 0, F, n)
    <3> HIDE DEF F
    <3> QED BY ONLY <2>1, IterationExists
  <2>3. ASSUME NEW k \in 0..n PROVE f[k] = IF k = 0 THEN 0 ELSE Step(f[k - 1], k)
    <3>1. CASE k = 0
      BY <2>2, <3>1 DEF Iterates
    <3>2. CASE k # 0
      <4>1. k \in 1..n /\ k - 1 \in 0..n
        BY <3>2
      <4>2. f[k] = F[k][f[k - 1]]
        <5> HIDE DEF F
        <5> QED BY <2>2, <4>1 DEF Iterates
      <4>3. f[k - 1] \in Nat
        BY <4>1
      <4> HIDE DEF Step
      <4> QED BY <3>2, <4>1, <4>2, <4>3
    <3> QED BY <3>1, <3>2
  <2>4. f = [k \in 0..n |-> f[k]]
    OBVIOUS
  <2> HIDE DEF Step
  <2>5. f = From(f)
    BY <2>3, <2>4
  <2> QED BY <2>5
<1> HIDE DEF c
<1>5. c[0] = 0 /\ \A k \in 1..n : c[k] = Step(c[k - 1], k)
  <2> HIDE DEF Step
  <2> QED BY <1>4
<1>6. \A k \in 0..n : c[k] \in Nat
  <2> DEFINE Good == {m \in Nat : m <= n => c[m] \in Nat}
  <2>1. 0 \in Good
    BY <1>5
  <2>2. ASSUME NEW m \in Nat, m \in Good PROVE m + 1 \in Good
    <3>1. CASE m + 1 <= n
      <4>1. c[m + 1] = Step(c[m], m + 1)
        BY <1>5, <3>1
      <4> HIDE DEF Step
      <4> QED BY <1>3, <2>2, <3>1, <4>1
    <3> QED BY <3>1
  <2> HIDE DEF Good
  <2>3. \A m \in Nat : m \in Good
    BY <2>1, <2>2, AllNaturals
  <2> QED BY <2>3 DEF Good
<1>7. Listed(L) = L
  <2>1. L = [k \in 1..n |-> L[k]]
    BY <1>1
  <2> HIDE DEF L
  <2> QED BY <2>1, ListedIs
<1>8. ASSUME NEW k \in 1..n
      PROVE  /\ L[k].at = c[k] - Len(s[k].text) /\ L[k].end = c[k]
             /\ L[k].at = c[k - 1] + Gap(s, k)
  <2>1. L[k] = Placed(s[k], c[k] - Len(s[k].text), c[k])
    BY <1>1
  <2>2. \A t, at, end : Placed(t, at, end).at = at /\ Placed(t, at, end).end = end
    BY DEF Placed
  <2>3. L[k].at = c[k] - Len(s[k].text) /\ L[k].end = c[k]
    <3> HIDE DEF L
    <3> QED BY <2>1, <2>2
  <2>4. c[k] = c[k - 1] + Len(s[k].text) + Gap(s, k)
    <3>1. c[k] = Step(c[k - 1], k)
      BY <1>5
    <3>2. c[k - 1] \in Nat /\ Len(s[k].text) \in Nat /\ Gap(s, k) \in Nat
      BY <1>1, <1>6 DEF Measured, Gap
    <3> QED BY <3>1, <3>2 DEF Gap
  <2>5. c[k - 1] \in Nat /\ Len(s[k].text) \in Nat /\ Gap(s, k) \in Nat
    BY <1>1, <1>6 DEF Measured, Gap
  <2> QED BY <2>3, <2>4, <2>5
<1> HIDE DEF L
<1>9. ASSUME NEW k \in 1..n
      PROVE  /\ L[k].at \in Nat /\ L[k].end \in Nat
             /\ L[k].end = L[k].at + Len(s[k].text)
  <2>1. PICK w : w = Len(s[k].text) /\ w \in Nat
    BY <1>0
  <2>2. c[k] \in Nat /\ c[k - 1] \in Nat
    BY <1>6
  <2>3. Gap(s, k) \in Nat
    BY DEF Gap
  <2>4. PICK b, e : b = L[k].at /\ e = L[k].end
    OBVIOUS
  <2>5. PICK p \in Nat, g \in Nat : p = c[k - 1] /\ g = Gap(s, k)
    BY <2>2, <2>3
  <2>6. b = e - w /\ e \in Nat /\ b = p + g
    BY <1>8, <2>1, <2>2, <2>4, <2>5
  <2>7. b \in Nat /\ e = b + w
    BY <2>1, <2>5, <2>6
  <2> QED BY <2>1, <2>4, <2>6, <2>7
<1>10. 1 \in DOMAIN s => L[1].at = 0
  BY <1>1, <1>5, <1>8 DEF Gap
<1>11. ASSUME NEW k \in 1..n, k > 1 PROVE L[k].at = L[k - 1].end + Gap(s, k)
  BY <1>8, <1>11
<1> QED BY <1>1, <1>2, <1>7, <1>9, <1>10, <1>11

\* An amount or a document found in a sentence is found at one of its tokens.
LEMMA FoundAtTokens ==
    ASSUME NEW s, IsSentence(s), NEW l
    PROVE  /\ IsList(Mentions(s, l)) /\ IsList(Amounts(s))
           /\ Range(Mentions(s, l)) = UNION {Range(MentionAt(s, k, l)) : k \in DOMAIN s}
           /\ Range(Amounts(s)) = UNION {Range(AmountAt(s, k)) : k \in DOMAIN s}
<1>1. PICK n \in Nat : n = Len(s) /\ DOMAIN s = 1..n
  BY DEF IsSentence, IsList
<1>2. ASSUME NEW ss, ss = [k \in 1..n |-> ss[k]], \A k \in 1..n : IsList(ss[k])
      PROVE  /\ IsList(FlattenSeq(Listed(ss)))
             /\ Range(FlattenSeq(Listed(ss))) = UNION {Range(ss[k]) : k \in 1..n}
  <2>1. Listed(ss) = ss
    BY <1>2, ListedIs
  <2>2. \A k \in 1..n : ss[k] \in Seq(Range(ss[k]))
    BY <1>2 DEF IsList
  <2> QED BY <1>2, <2>1, <2>2, RangeOfFlat DEF IsList
<1>3. PICK m : m = [k \in 1..n |-> MentionAt(s, k, l)]
  OBVIOUS
<1>4. PICK a : a = [k \in 1..n |-> AmountAt(s, k)]
  OBVIOUS
<1>5. /\ m = [k \in 1..n |-> m[k]] /\ \A k \in 1..n : IsList(m[k])
      /\ a = [k \in 1..n |-> a[k]] /\ \A k \in 1..n : IsList(a[k])
  BY <1>3, <1>4, MentionIs, ShortIsList, AmountIs
<1>6. Mentions(s, l) = FlattenSeq(Listed(m)) /\ Amounts(s) = FlattenSeq(Listed(a))
  BY <1>1, <1>3, <1>4 DEF Mentions, Amounts
<1>7. /\ {Range(m[k]) : k \in 1..n} = {Range(MentionAt(s, k, l)) : k \in 1..n}
      /\ {Range(a[k]) : k \in 1..n} = {Range(AmountAt(s, k)) : k \in 1..n}
  BY <1>3, <1>4
<1>8. /\ IsList(FlattenSeq(Listed(m)))
      /\ Range(FlattenSeq(Listed(m))) = UNION {Range(m[k]) : k \in 1..n}
  BY <1>2, <1>5
<1>9. /\ IsList(FlattenSeq(Listed(a)))
      /\ Range(FlattenSeq(Listed(a))) = UNION {Range(a[k]) : k \in 1..n}
  BY <1>2, <1>5
<1> QED BY <1>1, <1>6, <1>7, <1>8, <1>9

\* What each kind of candidate says.
LEMMA ExistSays ==
    ASSUME NEW r, NEW k, NEW l
    PROVE  /\ \A x \in Range(ExistCandidates(r, k, l)) :
                /\ x.claim.type = "C-EXIST" /\ ~x.claim.preset
                /\ \E m \in Range(MentionAt(r.s, k, l)) : x.claim.word = m.doc
           /\ \A m \in Range(MentionAt(r.s, k, l)) : \E x \in Range(ExistCandidates(r, k, l)) :
                x.claim.type = "C-EXIST" /\ x.claim.word = m.doc
<1>1. PICK q : q = MentionAt(r.s, k, l)
  OBVIOUS
<1>2. PICK e : e = ExistCandidates(r, k, l)
  OBVIOUS
<1>3. e = [i \in DOMAIN q |-> Candidate(r, "C-EXIST", q[i].doc, q[i].doc, 0, << >>, "unknown", FALSE)]
  BY <1>1, <1>2 DEF ExistCandidates
<1>4. ASSUME NEW i \in DOMAIN q
      PROVE  /\ e[i].claim.type = "C-EXIST" /\ e[i].claim.preset = FALSE
             /\ e[i].claim.word = q[i].doc
  BY <1>3 DEF Candidate
<1>5. DOMAIN e = DOMAIN q
  BY <1>3
<1>6. ASSUME NEW x \in Range(e)
      PROVE  /\ x.claim.type = "C-EXIST" /\ ~x.claim.preset
             /\ \E m \in Range(q) : x.claim.word = m.doc
  <2>1. PICK i \in DOMAIN q : x = e[i]
    BY <1>5 DEF Range
  <2>2. q[i] \in Range(q)
    BY DEF Range
  <2> QED BY <1>4, <2>1, <2>2
<1>7. ASSUME NEW m \in Range(q)
      PROVE  \E x \in Range(e) : x.claim.type = "C-EXIST" /\ x.claim.word = m.doc
  <2>1. PICK i \in DOMAIN q : m = q[i]
    BY DEF Range
  <2>2. e[i] \in Range(e)
    BY <1>5 DEF Range
  <2> QED BY <1>4, <2>1, <2>2
<1> QED BY <1>1, <1>2, <1>6, <1>7

LEMMA AmountSays ==
    ASSUME NEW r, NEW k
    PROVE  \A x \in Range(AmountCandidates(r, k)) : \E a \in Range(AmountAt(r.s, k)) :
             x = AmountCandidate(r, a, ClassifyAmount(r.s, a, r.amounts, r.mentions))
<1>1. PICK q : q = AmountAt(r.s, k)
  OBVIOUS
<1>2. PICK e : e = AmountCandidates(r, k)
  OBVIOUS
<1>3. e = [i \in DOMAIN q |-> AmountCandidate(r, q[i], ClassifyAmount(r.s, q[i], r.amounts, r.mentions))]
  BY <1>1, <1>2 DEF AmountCandidates
<1> QED BY <1>1, <1>2, <1>3 DEF Range

LEMMA DateSays ==
    ASSUME NEW r, NEW k
    PROVE  \A x \in Range(DateCandidates(r, k)) :
             /\ IsDate(r.s, k)
             /\ x = Candidate(r, "C-DATE", r.s[k].num, "", r.s[k].num,
                        DateDocs(r.s, r.s[k].at, r.amounts, r.mentions), "unknown", FALSE)
<1>1. PICK c : c = Candidate(r, "C-DATE", r.s[k].num, "", r.s[k].num,
                        DateDocs(r.s, r.s[k].at, r.amounts, r.mentions), "unknown", FALSE)
  OBVIOUS
<1>2. DateCandidates(r, k) = IF ~IsDate(r.s, k) THEN << >> ELSE <<c>>
  BY <1>1 DEF DateCandidates
<1>3. Range(<< >>) = {} /\ Range(<<c>>) = {c}
  BY DEF Range
<1> QED BY <1>1, <1>2, <1>3

LEMMA FuzzySays ==
    ASSUME NEW r, NEW k
    PROVE  /\ \A x \in Range(FuzzyCandidates(r, k)) :
                r.fuzzy # {} /\ x = Candidate(r, "C-FUZZY", "", "", 0, << >>, "unknown", FALSE)
           /\ r.fuzzy # {} /\ r.s[k].at = Min(r.fuzzy) =>
                Candidate(r, "C-FUZZY", "", "", 0, << >>, "unknown", FALSE)
                  \in Range(FuzzyCandidates(r, k))
<1>1. PICK c : c = Candidate(r, "C-FUZZY", "", "", 0, << >>, "unknown", FALSE)
  OBVIOUS
<1>2. FuzzyCandidates(r, k)
        = IF r.fuzzy # {} /\ r.s[k].at = Min(r.fuzzy) THEN <<c>> ELSE << >>
  BY <1>1 DEF FuzzyCandidates
<1>3. Range(<< >>) = {} /\ Range(<<c>>) = {c}
  BY DEF Range
<1> QED BY <1>1, <1>2, <1>3

\* Every candidate of a draft is one of some token, of one kind; and each
\* candidate of a token is one of the draft.
LEMMA FromToken ==
    ASSUME NEW draft, IsDraft(draft), NEW l
    PROVE  /\ \A x \in InDraft(draft, l) : \E k \in DOMAIN draft : \E j \in DOMAIN draft[k] :
                LET r == Reading(draft[k], l)
                IN  x \in Range(ExistCandidates(r, j, l)) \cup Range(AmountCandidates(r, j))
                            \cup Range(DateCandidates(r, j)) \cup Range(StatusCandidates(r, j))
                            \cup Range(FuzzyCandidates(r, j))
           /\ \A k \in DOMAIN draft : \A j \in DOMAIN draft[k] :
                Range(FuzzyCandidates(Reading(draft[k], l), j)) \subseteq InDraft(draft, l)
<1>1. ASSUME NEW k \in DOMAIN draft, NEW j \in DOMAIN draft[k],
             NEW r, r = Reading(draft[k], l)
      PROVE  Range(TokenCandidates(r, j, l))
               = Range(ExistCandidates(r, j, l)) \cup Range(AmountCandidates(r, j))
                   \cup Range(DateCandidates(r, j)) \cup Range(StatusCandidates(r, j))
                   \cup Range(FuzzyCandidates(r, j))
  <2>1. IsSentence(draft[k]) /\ IsSentence(LaidOut(draft[k]))
    BY LaidOutTokens DEF IsDraft
  <2>2. r.cues \subseteq SpanCues /\ IsList(r.mentions) /\ r.statuses = StatusesIn(LaidOut(draft[k]))
    BY <1>1, <2>1, ReadingIs
  <2>3. IsFiniteSet(StatedAt(r, j))
    <3>1. IsFiniteSet({h.word : h \in {h \in r.statuses : h.at = r.s[j].at}})
      BY <2>1, <2>2, StatusesFinite
    <3>2. IsFiniteSet({})
      BY FS_EmptySet
    <3> QED BY <3>1, <3>2 DEF StatedAt
  <2> QED BY <2>2, <2>3, TokenCandidatesAre
<1>2. ASSUME NEW x \in InDraft(draft, l)
      PROVE  \E k \in DOMAIN draft : \E j \in DOMAIN draft[k] :
               x \in Range(TokenCandidates(Reading(draft[k], l), j, l))
  BY DEF InDraft, InSentence
<1>3. ASSUME NEW k \in DOMAIN draft, NEW j \in DOMAIN draft[k]
      PROVE  Range(TokenCandidates(Reading(draft[k], l), j, l)) \subseteq InDraft(draft, l)
  BY DEF InDraft, InSentence
<1> QED BY <1>1, <1>2, <1>3

\* What a candidate of token j says, by its kind.
SaidAt(x, r, j, l) ==
    \/ /\ x.claim.type = "C-EXIST" /\ ~x.claim.preset
       /\ \E m \in Range(MentionAt(r.s, j, l)) : x.claim.word = m.doc
    \/ /\ x.claim.type \in {"C-AMT", "C-SUM"}
       /\ \E a \in Range(AmountAt(r.s, j)) :
            x = AmountCandidate(r, a, ClassifyAmount(r.s, a, r.amounts, r.mentions))
    \/ /\ x.claim.type = "C-DATE" /\ IsDate(r.s, j)
       /\ x = Candidate(r, "C-DATE", r.s[j].num, "", r.s[j].num,
                DateDocs(r.s, r.s[j].at, r.amounts, r.mentions), "unknown", FALSE)
    \/ /\ x.claim.type = "C-STATUS"
       /\ \E w \in StatedAt(r, j) :
            x = Candidate(r, "C-STATUS", w, w, 0, NearestDoc(r.mentions, r.s[j].at),
                          "unknown", FALSE)
    \/ /\ x.claim.type = "C-FUZZY" /\ ~x.claim.preset /\ r.fuzzy # {}

LEMMA KindsAre ==
    ASSUME NEW draft, IsDraft(draft), NEW l, NEW x \in InDraft(draft, l)
    PROVE  \E k \in DOMAIN draft : \E j \in DOMAIN draft[k] :
             SaidAt(x, Reading(draft[k], l), j, l)
<1>0. PICK k \in DOMAIN draft : \E j \in DOMAIN draft[k] :
        LET r == Reading(draft[k], l)
        IN  x \in Range(ExistCandidates(r, j, l)) \cup Range(AmountCandidates(r, j))
                   \cup Range(DateCandidates(r, j)) \cup Range(StatusCandidates(r, j))
                   \cup Range(FuzzyCandidates(r, j))
  BY FromToken
<1>1. PICK r : r = Reading(draft[k], l)
  OBVIOUS
<1>2. PICK j \in DOMAIN draft[k] :
        x \in Range(ExistCandidates(r, j, l)) \cup Range(AmountCandidates(r, j))
                \cup Range(DateCandidates(r, j)) \cup Range(StatusCandidates(r, j))
                \cup Range(FuzzyCandidates(r, j))
  BY <1>0, <1>1
<1>3. IsSentence(draft[k]) /\ IsSentence(LaidOut(draft[k]))
  BY LaidOutTokens DEF IsDraft
<1>4. r.cues \subseteq SpanCues /\ IsList(r.mentions) /\ r.statuses = StatusesIn(LaidOut(draft[k]))
  BY <1>1, <1>3, ReadingIs
<1>5. CASE x \in Range(ExistCandidates(r, j, l))
  <2>1. /\ x.claim.type = "C-EXIST" /\ ~x.claim.preset
        /\ \E m \in Range(MentionAt(r.s, j, l)) : x.claim.word = m.doc
    BY <1>5, ExistSays
  <2>2. SaidAt(x, r, j, l)
    BY <2>1 DEF SaidAt
  <2> QED BY <1>1, <2>2
<1>6. CASE x \in Range(AmountCandidates(r, j))
  <2>1. PICK a \in Range(AmountAt(r.s, j)) :
          x = AmountCandidate(r, a, ClassifyAmount(r.s, a, r.amounts, r.mentions))
    BY <1>6, AmountSays
  <2>2. PICK class : class = ClassifyAmount(r.s, a, r.amounts, r.mentions)
    OBVIOUS
  <2>3. x.claim.type = class.type
    BY <2>1, <2>2, AmountClaim
  <2>4. class.type \in {"C-AMT", "C-SUM"}
    BY <1>4, <2>2, ClassIs
  <2>5. SaidAt(x, r, j, l)
    BY <2>1, <2>3, <2>4 DEF SaidAt
  <2> QED BY <1>1, <2>5
<1>7. CASE x \in Range(DateCandidates(r, j))
  <2>1. IsDate(r.s, j) /\ x = Candidate(r, "C-DATE", r.s[j].num, "", r.s[j].num,
                        DateDocs(r.s, r.s[j].at, r.amounts, r.mentions), "unknown", FALSE)
    BY <1>7, DateSays
  <2>2. x.claim.type = "C-DATE"
    BY <2>1 DEF Candidate
  <2>3. SaidAt(x, r, j, l)
    BY <2>1, <2>2 DEF SaidAt
  <2> QED BY <1>1, <2>3
<1>8. CASE x \in Range(StatusCandidates(r, j))
  <2>1. IsFiniteSet(StatedAt(r, j))
    <3>1. IsFiniteSet({h.word : h \in {h \in r.statuses : h.at = r.s[j].at}})
      BY <1>3, <1>4, StatusesFinite
    <3>2. IsFiniteSet({})
      BY FS_EmptySet
    <3> QED BY <3>1, <3>2 DEF StatedAt
  <2>2. Range(StatusCandidates(r, j))
          = {Candidate(r, "C-STATUS", w, w, 0, NearestDoc(r.mentions, r.s[j].at),
                       "unknown", FALSE) : w \in StatedAt(r, j)}
    <3>1. r.cues \subseteq SpanCues
      BY <1>4
    <3> QED BY <2>1, <3>1, StatusesAre
  <2>3. PICK w \in StatedAt(r, j) :
          x = Candidate(r, "C-STATUS", w, w, 0, NearestDoc(r.mentions, r.s[j].at), "unknown", FALSE)
    BY <1>8, <2>2
  <2>4. x.claim.type = "C-STATUS"
    BY <2>3 DEF Candidate
  <2>5. SaidAt(x, r, j, l)
    BY <2>3, <2>4 DEF SaidAt
  <2> QED BY <1>1, <2>5
<1>9. CASE x \in Range(FuzzyCandidates(r, j))
  <2>1. r.fuzzy # {} /\ x = Candidate(r, "C-FUZZY", "", "", 0, << >>, "unknown", FALSE)
    BY <1>9, FuzzySays
  <2>2. x.claim.type = "C-FUZZY" /\ x.claim.preset = FALSE
    BY <2>1 DEF Candidate
  <2>3. SaidAt(x, r, j, l)
    BY <2>1, <2>2 DEF SaidAt
  <2> QED BY <1>1, <2>3
<1> QED BY <1>2, <1>5, <1>6, <1>7, <1>8, <1>9

-----------------------------------------------------------------------------
(***************************************************************************)
(* What the gate lets through, in terms of the text                        *)
(***************************************************************************)
\* The documents a text names, in either form, and the figures found in it.
DocsNamed(t, l) == UNION {DocsMentioned(Mentions(LaidOut(t[k]), l)) : k \in DOMAIN t}
FiguresFound(t) == UNION {{a.num : a \in Range(Amounts(LaidOut(t[k])))} : k \in DOMAIN t}

\* A document is named where a token mentions it.
LEMMA NamedAtToken ==
    ASSUME NEW t, IsDraft(t), NEW l
    PROVE  /\ \A k \in DOMAIN t : \A j \in DOMAIN t[k] :
                \A m \in Range(MentionAt(LaidOut(t[k]), j, l)) : m.doc \in DocsNamed(t, l)
           /\ \A d \in DocsNamed(t, l) : \E k \in DOMAIN t : \E j \in DOMAIN t[k] :
                \E m \in Range(MentionAt(LaidOut(t[k]), j, l)) : m.doc = d
           /\ \A k \in DOMAIN t : \A j \in DOMAIN t[k] :
                \A a \in Range(AmountAt(LaidOut(t[k]), j)) : a.num \in FiguresFound(t)
<1>1. ASSUME NEW k \in DOMAIN t
      PROVE  /\ DOMAIN LaidOut(t[k]) = DOMAIN t[k]
             /\ Range(Mentions(LaidOut(t[k]), l))
                  = UNION {Range(MentionAt(LaidOut(t[k]), j, l)) : j \in DOMAIN t[k]}
             /\ Range(Amounts(LaidOut(t[k])))
                  = UNION {Range(AmountAt(LaidOut(t[k]), j)) : j \in DOMAIN t[k]}
  <2>1. IsSentence(t[k])
    BY DEF IsDraft
  <2>2. IsSentence(LaidOut(t[k])) /\ DOMAIN LaidOut(t[k]) = DOMAIN t[k]
    BY <2>1, LaidOutTokens
  <2> QED BY <2>2, FoundAtTokens
<1>2. \A m : DocsMentioned(m) = {x.doc : x \in Range(m)}
  BY DEF DocsMentioned, Range
<1>3. ASSUME NEW k \in DOMAIN t, NEW j \in DOMAIN t[k],
             NEW m \in Range(MentionAt(LaidOut(t[k]), j, l))
      PROVE  m.doc \in DocsNamed(t, l)
  <2>1. m \in Range(Mentions(LaidOut(t[k]), l))
    BY <1>1
  <2> QED BY <1>2, <2>1 DEF DocsNamed
<1>4. ASSUME NEW d \in DocsNamed(t, l)
      PROVE  \E k \in DOMAIN t : \E j \in DOMAIN t[k] :
               \E m \in Range(MentionAt(LaidOut(t[k]), j, l)) : m.doc = d
  <2>1. PICK k \in DOMAIN t : d \in DocsMentioned(Mentions(LaidOut(t[k]), l))
    BY DEF DocsNamed
  <2>2. PICK m \in Range(Mentions(LaidOut(t[k]), l)) : m.doc = d
    BY <1>2, <2>1
  <2> QED BY <1>1, <2>2
<1>5. ASSUME NEW k \in DOMAIN t, NEW j \in DOMAIN t[k], NEW a \in Range(AmountAt(LaidOut(t[k]), j))
      PROVE  a.num \in FiguresFound(t)
  <2>1. a \in Range(Amounts(LaidOut(t[k])))
    BY <1>1
  <2> QED BY <2>1 DEF FiguresFound
<1> QED BY <1>3, <1>4, <1>5

\* What the claims of a draft say of it.
LEMMA ClaimsSay ==
    ASSUME NEW t, IsDraft(t), NEW l, NEW c \in Range(ExtractClaims(t, l))
    PROVE  /\ c.type \in ClaimTypes /\ c.preset \in BOOLEAN
           /\ c.type \in {"C-EXIST", "C-FUZZY"} => ~c.preset
           /\ c.type = "C-EXIST" => c.word \in DocsNamed(t, l)
           /\ c.type = "C-AMT" => DocsOf(c) \subseteq DocsNamed(t, l)
           /\ c.type \in {"C-AMT", "C-SUM"} => c.num \in FiguresFound(t)
<1>1. ExtractedClaim(c) /\ \E x \in InDraft(t, l) : c = x.claim
  BY ExtractionIs
<1>2. PICK x \in InDraft(t, l) : c = x.claim
  BY <1>1
<1>3. PICK k \in DOMAIN t : \E j \in DOMAIN t[k] : SaidAt(x, Reading(t[k], l), j, l)
  BY KindsAre
<1>4. PICK r : r = Reading(t[k], l)
  OBVIOUS
<1>5. PICK j \in DOMAIN t[k] : SaidAt(x, r, j, l)
  BY <1>3, <1>4
<1>6. IsSentence(t[k]) /\ IsSentence(LaidOut(t[k]))
  BY LaidOutTokens DEF IsDraft
<1>7. r.s = LaidOut(t[k]) /\ r.mentions = Mentions(r.s, l) /\ IsList(r.mentions)
  BY <1>4, <1>6, ReadingIs
<1>8. c.type \in ClaimTypes /\ c.preset \in BOOLEAN
  BY <1>1 DEF ExtractedClaim
<1>9. CASE c.type = "C-EXIST"
  <2>1. ~c.preset /\ \E m \in Range(MentionAt(r.s, j, l)) : c.word = m.doc
    BY <1>2, <1>5, <1>9 DEF SaidAt
  <2>2. c.word \in DocsNamed(t, l)
    BY <1>7, <2>1, NamedAtToken
  <2> QED BY <1>8, <1>9, <2>1, <2>2
<1>10. CASE c.type \in {"C-AMT", "C-SUM"}
  <2>1. PICK a \in Range(AmountAt(r.s, j)) :
          x = AmountCandidate(r, a, ClassifyAmount(r.s, a, r.amounts, r.mentions))
    BY <1>2, <1>5, <1>10 DEF SaidAt
  <2>2. PICK class : class = ClassifyAmount(r.s, a, r.amounts, r.mentions)
    OBVIOUS
  <2>3. c.type = class.type /\ c.docs = class.docs /\ c.num = a.num
    BY <1>2, <2>1, <2>2, AmountClaim
  <2>4. c.num \in FiguresFound(t)
    BY <1>7, <2>1, <2>3, NamedAtToken
  <2>5. \/ \E i \in DOMAIN r.mentions : class.docs = <<r.mentions[i].doc>>
        \/ class.type = "C-SUM"
        \/ class.docs = << >>
    BY <1>7, <2>2, ClassesAre
  <2>6. ASSUME c.type = "C-AMT" PROVE DocsOf(c) \subseteq DocsNamed(t, l)
    <3>1. CASE \E i \in DOMAIN r.mentions : class.docs = <<r.mentions[i].doc>>
      <4>1. PICK i \in DOMAIN r.mentions : c.docs = <<r.mentions[i].doc>>
        BY <2>3, <3>1
      <4>2. DocsOf(c) = {r.mentions[i].doc}
        BY <4>1 DEF DocsOf
      <4>3. r.mentions[i].doc \in DocsMentioned(Mentions(LaidOut(t[k]), l))
        BY <1>7 DEF DocsMentioned
      <4> QED BY <4>2, <4>3 DEF DocsNamed
    <3>2. CASE class.docs = << >>
      BY <2>3, <3>2 DEF DocsOf
    <3> QED BY <2>3, <2>5, <2>6, <3>1, <3>2
  <2> QED BY <1>8, <1>10, <2>4, <2>6
<1>11. CASE c.type = "C-FUZZY"
  <2>1. ~c.preset
    BY <1>2, <1>5, <1>11 DEF SaidAt
  <2> QED BY <1>8, <1>11, <2>1
<1>12. CASE c.type \notin {"C-EXIST", "C-AMT", "C-SUM", "C-FUZZY"}
  BY <1>8, <1>12
<1> QED BY <1>9, <1>10, <1>11, <1>12

\* What a draft says is claimed: each document it names is looked up, and a
\* sentence with a fuzzy phrase has a fuzzy claim.
LEMMA SaidIsClaimed ==
    ASSUME NEW t, IsDraft(t), \A k \in DOMAIN t : Measured(t[k]), NEW l
    PROVE  /\ \A d \in DocsNamed(t, l) : LooksUp(ExtractClaims(t, l), d)
           /\ \A k \in DOMAIN t : Says(LaidOut(t[k]), FuzzyPhrases) =>
                \E c \in Range(ExtractClaims(t, l)) : c.type = "C-FUZZY"
<1>1. ASSUME NEW d \in DocsNamed(t, l) PROVE LooksUp(ExtractClaims(t, l), d)
  <2>1. PICK k \in DOMAIN t : \E j \in DOMAIN t[k] :
          \E m \in Range(MentionAt(LaidOut(t[k]), j, l)) : m.doc = d
    BY NamedAtToken
  <2>2. PICK j \in DOMAIN t[k] : \E m \in Range(MentionAt(LaidOut(t[k]), j, l)) : m.doc = d
    BY <2>1
  <2>3. PICK r : r = Reading(t[k], l)
    OBVIOUS
  <2>4. r.s = LaidOut(t[k])
    <3>1. IsSentence(t[k])
      BY DEF IsDraft
    <3> QED BY <2>3, <3>1, ReadingIs
  <2>5. PICK x \in Range(ExistCandidates(r, j, l)) : x.claim.type = "C-EXIST" /\ x.claim.word = d
    BY <2>2, <2>4, ExistSays
  <2>6. x \in InDraft(t, l)
    BY <2>3, OfToken
  <2>7. \/ x.claim \in Range(ExtractClaims(t, l))
        \/ LooksUp(ExtractClaims(t, l), x.claim.word)
    BY <2>6, ExtractionIs
  <2> QED BY <2>5, <2>7 DEF LooksUp
<1>2. ASSUME NEW k \in DOMAIN t, Says(LaidOut(t[k]), FuzzyPhrases)
      PROVE  \E c \in Range(ExtractClaims(t, l)) : c.type = "C-FUZZY"
  <2>1. IsSentence(t[k])
    BY DEF IsDraft
  <2>2. PICK s : s = LaidOut(t[k]) /\ IsSentence(s) /\ DOMAIN s = DOMAIN t[k]
    BY <2>1, LaidOutTokens
  <2>3. PICK n \in Nat : n = Len(s) /\ DOMAIN s = 1..n
    BY <2>2 DEF IsSentence, IsList
  <2>4. PICK r : r = Reading(t[k], l)
    OBVIOUS
  <2>5. r.s = s /\ r.fuzzy = {m.at : m \in Matches(s, FuzzyPhrases)}
    BY <2>2, <2>4 DEF Reading
  <2>6. r.fuzzy # {} /\ r.fuzzy \subseteq {s[j].at : j \in 1..n}
    BY <1>2, <2>2, <2>3, <2>5, MatchesBegin DEF Says
  <2>7. Min(r.fuzzy) \in r.fuzzy
    <3>1. \A j \in 1..n : s[j].at \in Nat
      BY <2>1, <2>2, <2>3, PlacesAre
    <3>2. r.fuzzy \subseteq Nat
      BY <2>6, <3>1
    <3> QED BY <2>6, <3>2, LeastIs
  <2>8. PICK j \in DOMAIN t[k] : r.s[j].at = Min(r.fuzzy)
    BY <2>2, <2>3, <2>5, <2>6, <2>7
  <2>9. PICK x : x = Candidate(r, "C-FUZZY", "", "", 0, << >>, "unknown", FALSE)
    OBVIOUS
  <2>10. x \in InDraft(t, l) /\ x.claim.type = "C-FUZZY"
    <3>1. x \in Range(FuzzyCandidates(r, j))
      BY <2>6, <2>8, <2>9, FuzzySays
    <3>2. x \in InDraft(t, l)
      BY <2>4, <3>1, FromToken
    <3>3. x.claim.type = "C-FUZZY"
      BY <2>9 DEF Candidate
    <3> QED BY <3>2, <3>3
  <2> QED BY <2>10, ExtractionIs
<1> QED BY <1>1, <1>2

-----------------------------------------------------------------------------
(***************************************************************************)
(* What a check can answer                                                 *)
(***************************************************************************)
LEMMA Answered ==
    /\ \A status, cites : Result(status, cites).status = status /\ Result(status, cites).cites = cites
    /\ \A c, r : /\ Checked(c, r).claim = c /\ Checked(c, r).status = r.status
                 /\ Checked(c, r).cites = r.cites
BY DEF Result, Checked

LEMMA CodeAnswers ==
    ASSUME NEW c, NEW l, c.type \in CodeCheckedTypes, c.preset \in BOOLEAN
    PROVE  CodeCheck(c, l).status \in {"pass", "fail", "unverifiable"}
<1> DEFINE S == {"pass", "fail", "unverifiable"}
<1>1. CheckExist(c, l).status \in S
  BY Answered DEF CheckExist
<1>2. CheckAmount(c, l).status \in S
  <2>1. \A d : CheckBoundAmount(c, d, l).status \in S
    BY Answered DEF CheckBoundAmount
  <2>2. CheckUnboundAmount(c, l).status \in S
    BY Answered DEF CheckUnboundAmount
  <2> QED BY <2>1, <2>2, Answered DEF CheckAmount
<1>3. CheckSum(c, l).status \in S
  BY Answered DEF CheckSum
<1>4. CheckStatusWord(c, l).status \in S
  BY Answered DEF CheckStatusWord
<1>5. CheckDate(c, l).status \in S
  BY Answered DEF CheckDate
<1>6. CASE c.preset = TRUE
  <2>1. CodeCheck(c, l) = Result("unverifiable", {})
    BY <1>6 DEF CodeCheck
  <2> QED BY <2>1, Answered
<1>7. CASE c.preset = FALSE
  <2>1. CodeCheck(c, l) \in {CheckExist(c, l), CheckAmount(c, l), CheckSum(c, l),
                             CheckStatusWord(c, l), CheckDate(c, l)}
    BY <1>7 DEF CodeCheck, CodeCheckedTypes, ClaimTypes
  <2> HIDE DEF S
  <2>2. CodeCheck(c, l).status \in S
    BY <1>1, <1>2, <1>3, <1>4, <1>5, <2>1
  <2> QED BY <2>2 DEF S
<1> QED BY <1>6, <1>7

\* The verifier's support counts only with a record to show for it.
LEMMA FuzzyAnswers ==
    ASSUME NEW l, NEW answer \in VerifierAnswers(l)
    PROVE  LET r == CheckFuzzy(answer, l)
           IN  /\ r.status \in {"pass", "unsupported", "cannot_determine"}
               /\ r.cites \subseteq DocumentIds(l)
               /\ r.status = "pass" => r.cites # {}
<1> DEFINE valid == answer.cited \cap DocumentIds(l)
<1>1. answer.kind \in {"failed", "supported", "unsupported", "cannot_determine"}
  BY DEF VerifierAnswers
<1>2. CASE answer.kind = "failed" \/ answer.cited \ DocumentIds(l) # {}
  <2>1. \/ CheckFuzzy(answer, l) = Result("cannot_determine", {})
        \/ CheckFuzzy(answer, l) = Result("cannot_determine", valid)
    BY <1>2 DEF CheckFuzzy
  <2> QED BY <2>1, Answered
<1>3. CASE answer.kind # "failed" /\ answer.cited \ DocumentIds(l) = {}
  <2>1. answer.cited \subseteq DocumentIds(l)
    BY <1>3
  <2>2. CASE answer.kind = "supported"
    <3>1. CheckFuzzy(answer, l) = IF valid = {} THEN Result("cannot_determine", {})
                                                ELSE Result("pass", valid)
      BY <1>3, <2>1, <2>2 DEF CheckFuzzy
    <3> QED BY <3>1, Answered
  <2>3. CASE answer.kind # "supported"
    <3>1. CheckFuzzy(answer, l) = Result(answer.kind, valid)
      BY <1>3, <2>3 DEF CheckFuzzy
    <3> QED BY <1>1, <1>3, <2>3, <3>1, Answered
  <2> QED BY <2>2, <2>3
<1> QED BY <1>2, <1>3

-----------------------------------------------------------------------------
(***************************************************************************)
(* What the matrix makes of the first revision                             *)
(***************************************************************************)
\* The first draft of all repeats none.
LEMMA FirstDecision ==
    ASSUME NEW checks, NEW draft, NEW l, NEW t
    PROVE  Decide(checks, draft, l, 0, <<t>>) = MatchMatrix(checks, draft, l, 0)
<1>1. ~RepeatsEarlier(<<t>>)
  BY DEF RepeatsEarlier
<1> QED BY <1>1 DEF Decide, WithoutLoop

LEMMA Decided ==
    /\ \A action, reason, F : /\ Decision(action, reason, F).action = action
                              /\ Decision(action, reason, F).reason = reason
    /\ \A rev, budget, why, end, F :
         /\ Budgeted(rev, budget, why, end, F).action \in {"revise", "escalate"}
         /\ Budgeted(rev, budget, why, end, F).reason \in {why, end}
<1>1. \A action, reason, F : /\ Decision(action, reason, F).action = action
                             /\ Decision(action, reason, F).reason = reason
  BY DEF Decision
<1> QED BY <1>1 DEF Budgeted

\* The rows of the matrix that are read off here.
LEMMA MatrixRows ==
    ASSUME NEW checks, NEW draft, NEW l, NEW rev
    PROVE  LET d == MatchMatrix(checks, draft, l, rev)
           IN  /\ d.reason = "fabricated" <=> ExistFails(checks) # {}
               /\ d.reason = "fabricated" => d.action = "escalate"
               /\ d.action \in {"abstain", "human_gate"} =>
                    /\ ExistFails(checks) = {} /\ Unverifiable(checks) = {}
                    /\ CodeFails(checks) = {} /\ FuzzyUnsupported(checks) = {}
                    /\ FuzzyCannot(checks) = {}
               /\ d.action = "abstain" => Ambiguous(l)
               /\ d.action = "human_gate" =>
                    /\ ~Ambiguous(l) /\ ~ItemizationInconsistent(checks, l)
                    /\ MissingCompleteness(checks, draft, l) = {}
               /\ d.action \in Actions
<1>1. PICK d : d = MatchMatrix(checks, draft, l, rev)
  OBVIOUS
<1> DEFINE failed  == CodeFails(checks)
           missing == MissingCompleteness(checks, draft, l)
           third   == Budgeted(rev, RevisionBudget, "correctable", "budget_exhausted",
                               {checks[k].claim.type : k \in failed})
           fourth  == Budgeted(rev, FuzzyRevisionBudget, "unsupported",
                               "unsupported_exhausted", {"fuzzy_unsupported"})
           seventh == Budgeted(rev, RevisionBudget, "itemization", "itemization",
                               {"itemization_inconsistent"})
           eighth  == Budgeted(rev, RevisionBudget, "incomplete", "incomplete", missing)
<1>2. d = IF ExistFails(checks) # {} THEN Decision("escalate", "fabricated", {"c_exist_fail"})
          ELSE IF Unverifiable(checks) # {}
            THEN Decision("escalate", "unverifiable", {"unverifiable_quant"})
          ELSE IF failed # {} THEN third
          ELSE IF FuzzyUnsupported(checks) # {} THEN fourth
          ELSE IF FuzzyCannot(checks) # {}
            THEN Decision("escalate", "cannot_determine", {"fuzzy_cannot_determine"})
          ELSE IF Ambiguous(l) THEN Decision("abstain", "ambiguous", {"ambiguous_allocation"})
          ELSE IF ItemizationInconsistent(checks, l) THEN seventh
          ELSE IF missing # {} THEN eighth
          ELSE Decision("human_gate", "all_pass", {})
  BY <1>1 DEF MatchMatrix
<1>3. /\ third.action \in {"revise", "escalate"} /\ third.reason \in {"correctable", "budget_exhausted"}
      /\ fourth.action \in {"revise", "escalate"}
      /\ fourth.reason \in {"unsupported", "unsupported_exhausted"}
      /\ seventh.action \in {"revise", "escalate"} /\ seventh.reason = "itemization"
      /\ eighth.action \in {"revise", "escalate"} /\ eighth.reason = "incomplete"
  BY Decided
<1> HIDE DEF failed, missing, third, fourth, seventh, eighth
<1>4. d.action \in Actions
  BY <1>2, <1>3, Decided DEF Actions
<1>5. d.reason = "fabricated" <=> ExistFails(checks) # {}
  BY <1>2, <1>3, Decided
<1>6. d.reason = "fabricated" => d.action = "escalate"
  BY <1>2, <1>5, Decided
<1>7. ASSUME d.action \in {"abstain", "human_gate"}
      PROVE  /\ ExistFails(checks) = {} /\ Unverifiable(checks) = {}
             /\ failed = {} /\ FuzzyUnsupported(checks) = {}
             /\ FuzzyCannot(checks) = {}
  BY <1>2, <1>3, <1>7, Decided
<1>8. d.action = "abstain" => Ambiguous(l)
  BY <1>2, <1>3, Decided
<1>9. ASSUME d.action = "human_gate"
      PROVE  /\ ~Ambiguous(l) /\ ~ItemizationInconsistent(checks, l)
             /\ missing = {}
  BY <1>2, <1>3, <1>9, Decided
<1> QED BY <1>1, <1>4, <1>5, <1>6, <1>7, <1>8, <1>9 DEF failed, missing

-----------------------------------------------------------------------------
(***************************************************************************)
(* What the gate says of a text                                            *)
(***************************************************************************)
\* The results in a state, each the one its claim is given.
LEMMA ResultsAre ==
    ASSUME AuditInv, text # << >>
    PROVE  LET claims == ExtractClaims(text, ledger)
           IN  /\ IsDraft(text) /\ SoundLedger(ledger) /\ NetLabel \notin DocumentIds(ledger)
               /\ \A k \in DOMAIN text : Measured(text[k])
               /\ IsList(claims) /\ DOMAIN checked = DOMAIN claims
               /\ \A c \in DOMAIN checked :
                    /\ checked[c].claim = claims[c] /\ claims[c] \in Range(claims)
                    /\ claims[c].type \in ClaimTypes /\ claims[c].preset \in BOOLEAN
               /\ \A c \in DOMAIN checked : claims[c].type \in CodeCheckedTypes =>
                    /\ checked[c].status = CodeCheck(claims[c], ledger).status
                    /\ checked[c].status \in {"pass", "fail", "unverifiable"}
               /\ \A c \in DOMAIN checked : claims[c].type = "C-FUZZY" =>
                    /\ checked[c].status \in {"pass", "unsupported", "cannot_determine"}
                    /\ checked[c].cites \subseteq DocumentIds(ledger)
                    /\ checked[c].status = "pass" => checked[c].cites # {}
               /\ decision = MatchMatrix(checked, DraftOf(text, ledger), ledger, 0)
<1>1. PICK claims : claims = ExtractClaims(text, ledger)
  OBVIOUS
<1>2. /\ IsDraft(text) /\ Verified(claims, ledger, checked)
      /\ decision = Decide(checked, DraftOf(text, ledger), ledger, 0, <<text>>)
      /\ \A k \in DOMAIN text : Measured(text[k])
      /\ ledger \in Ledgers
  BY <1>1 DEF AuditInv
<1>3. SoundLedger(ledger) /\ NetLabel \notin DocumentIds(ledger)
  BY <1>2, LedgersAssumption DEF SoundLedger
<1>4. IsList(claims)
  BY <1>1, <1>2, ExtractionIs
<1>5. \A c \in DOMAIN claims : claims[c] \in Range(claims)
  BY DEF Range
<1>6. \A c \in DOMAIN claims : claims[c].type \in ClaimTypes /\ claims[c].preset \in BOOLEAN
  BY <1>1, <1>2, <1>5, ClaimsSay
<1>7. /\ DOMAIN checked = DOMAIN claims
      /\ \A k \in DOMAIN claims : checked[k].claim = claims[k]
      /\ \A k \in DOMAIN claims : claims[k].type \in CodeCheckedTypes =>
           checked[k].status = CodeCheck(claims[k], ledger).status
  BY <1>2, <1>4, VerifiedIs
<1>8. PICK answer \in VerifierAnswers(ledger) : \A k \in DOMAIN claims :
        claims[k].type = "C-FUZZY" => checked[k] = Checked(claims[k], CheckFuzzy(answer, ledger))
  BY <1>2, <1>4, VerifiedIs
<1>9. \A c \in DOMAIN claims : claims[c].type = "C-FUZZY" =>
        /\ checked[c].status \in {"pass", "unsupported", "cannot_determine"}
        /\ checked[c].cites \subseteq DocumentIds(ledger)
        /\ checked[c].status = "pass" => checked[c].cites # {}
  <2> TAKE c \in DOMAIN claims
  <2> HAVE claims[c].type = "C-FUZZY"
  <2>1. PICK r : r = CheckFuzzy(answer, ledger)
    OBVIOUS
  <2>2. checked[c].status = r.status /\ checked[c].cites = r.cites
    BY <1>8, <2>1, Answered
  <2> QED BY <2>1, <2>2, FuzzyAnswers
<1>10. \A c \in DOMAIN claims : claims[c].type \in CodeCheckedTypes =>
         checked[c].status \in {"pass", "fail", "unverifiable"}
  BY <1>6, <1>7, CodeAnswers
<1>11. decision = MatchMatrix(checked, DraftOf(text, ledger), ledger, 0)
  BY <1>2, FirstDecision
<1> QED BY <1>1, <1>2, <1>3, <1>4, <1>5, <1>6, <1>7, <1>9, <1>10, <1>11

\* A draft is escalated as fabricated exactly when it names a document that is
\* not on record, however the reference is spelled (surface.py:609-651,
\* policy.py:170-187).
FabricatedIsUnknown ==
    text # << >> =>
        (decision.reason = "fabricated" <=> ~(DocsNamed(text, ledger) \subseteq DocumentIds(ledger)))

LEMMA AuditFabricated == AuditInv => FabricatedIsUnknown
<1> SUFFICES ASSUME AuditInv, text # << >>
             PROVE  decision.reason = "fabricated"
                      <=> ~(DocsNamed(text, ledger) \subseteq DocumentIds(ledger))
  BY DEF FabricatedIsUnknown
<1>1. PICK claims : claims = ExtractClaims(text, ledger)
  OBVIOUS
<1>2. /\ IsDraft(text) /\ \A k \in DOMAIN text : Measured(text[k])
      /\ DOMAIN checked = DOMAIN claims
      /\ \A c \in DOMAIN checked : checked[c].claim = claims[c] /\ claims[c] \in Range(claims)
      /\ \A c \in DOMAIN checked : claims[c].type \in CodeCheckedTypes =>
           checked[c].status = CodeCheck(claims[c], ledger).status
      /\ decision = MatchMatrix(checked, DraftOf(text, ledger), ledger, 0)
  BY <1>1, ResultsAre
<1>3. decision.reason = "fabricated" <=> ExistFails(checked) # {}
  BY <1>2, MatrixRows
<1>4. ASSUME NEW c \in DOMAIN checked, claims[c].type = "C-EXIST"
      PROVE  /\ checked[c].status = "fail" <=> claims[c].word \notin DocumentIds(ledger)
             /\ claims[c].word \in DocsNamed(text, ledger)
  <2>1. ~claims[c].preset /\ claims[c].preset \in BOOLEAN /\ claims[c].word \in DocsNamed(text, ledger)
    BY <1>1, <1>2, <1>4, ClaimsSay
  <2>2. CodeCheck(claims[c], ledger) = CheckExist(claims[c], ledger)
    BY <1>4, <2>1 DEF CodeCheck
  <2>3. claims[c].type \in CodeCheckedTypes
    BY <1>4 DEF CodeCheckedTypes, ClaimTypes
  <2>4. checked[c].status = CheckExist(claims[c], ledger).status
    BY <1>2, <2>2, <2>3
  <2>5. CheckExist(claims[c], ledger).status = "fail" <=> claims[c].word \notin DocumentIds(ledger)
    BY Answered DEF CheckExist
  <2> QED BY <2>1, <2>4, <2>5
<1>5. ExistFails(checked) = {c \in DOMAIN checked : claims[c].type = "C-EXIST" /\ checked[c].status = "fail"}
  BY <1>2 DEF ExistFails, ClaimsWith
<1>6. ASSUME NEW d \in DocsNamed(text, ledger), d \notin DocumentIds(ledger)
      PROVE  ExistFails(checked) # {}
  <2>1. LooksUp(claims, d)
    BY <1>1, <1>2, SaidIsClaimed
  <2>2. PICK c \in DOMAIN claims : claims[c].type = "C-EXIST" /\ claims[c].word = d
    BY <2>1 DEF LooksUp, Range
  <2> QED BY <1>2, <1>4, <1>5, <1>6, <2>2
<1>7. ASSUME NEW c \in ExistFails(checked)
      PROVE  ~(DocsNamed(text, ledger) \subseteq DocumentIds(ledger))
  BY <1>4, <1>5
<1> QED BY <1>3, <1>6, <1>7

\* A sentence with a phrase that only the verifier can judge keeps its draft
\* from the gate unless every such claim is supported by a citation of the
\* records (checks.py:673-729); an ambiguous account changes nothing.
PhrasesAreCited ==
    ( /\ \E k \in DOMAIN text : Says(LaidOut(text[k]), FuzzyPhrases)
      /\ decision.action \notin {"revise", "escalate"} )
    => /\ Claims({"C-FUZZY"}) # {}
       /\ \A c \in Claims({"C-FUZZY"}) :
            /\ checked[c].status = "pass"
            /\ checked[c].cites # {} /\ checked[c].cites \subseteq DocumentIds(ledger)

LEMMA AuditPhrases == AuditInv => PhrasesAreCited
<1> SUFFICES ASSUME AuditInv, NEW k \in DOMAIN text, Says(LaidOut(text[k]), FuzzyPhrases),
                    decision.action \notin {"revise", "escalate"}
             PROVE  /\ Claims({"C-FUZZY"}) # {}
                    /\ \A c \in Claims({"C-FUZZY"}) :
                         /\ checked[c].status = "pass"
                         /\ checked[c].cites # {} /\ checked[c].cites \subseteq DocumentIds(ledger)
  BY DEF PhrasesAreCited
<1>1. PICK claims : claims = ExtractClaims(text, ledger)
  OBVIOUS
<1>2. text # << >>
  OBVIOUS
<1>3. /\ IsDraft(text) /\ \A i \in DOMAIN text : Measured(text[i])
      /\ DOMAIN checked = DOMAIN claims
      /\ \A c \in DOMAIN checked : checked[c].claim = claims[c]
      /\ \A c \in DOMAIN checked : claims[c].type = "C-FUZZY" =>
           /\ checked[c].status \in {"pass", "unsupported", "cannot_determine"}
           /\ checked[c].cites \subseteq DocumentIds(ledger)
           /\ checked[c].status = "pass" => checked[c].cites # {}
      /\ decision = MatchMatrix(checked, DraftOf(text, ledger), ledger, 0)
  BY <1>1, <1>2, ResultsAre
<1>4. decision.action \in {"abstain", "human_gate"}
  BY <1>3, MatrixRows DEF Actions
<1>5. FuzzyUnsupported(checked) = {} /\ FuzzyCannot(checked) = {}
  BY <1>3, <1>4, MatrixRows
<1>6. Claims({"C-FUZZY"}) = {c \in DOMAIN checked : claims[c].type = "C-FUZZY"}
  BY <1>3 DEF Claims
<1>7. \A c \in Claims({"C-FUZZY"}) : checked[c].status \notin {"unsupported", "cannot_determine"}
  BY <1>3, <1>5, <1>6 DEF FuzzyUnsupported, FuzzyCannot, ClaimsWith
<1>8. \E c \in Range(claims) : c.type = "C-FUZZY"
  BY <1>1, <1>3, SaidIsClaimed
<1>9. Claims({"C-FUZZY"}) # {}
  BY <1>3, <1>6, <1>8 DEF Range
<1> QED BY <1>3, <1>6, <1>7, <1>9

\* At the human gate every claim of the draft has passed, every document it
\* names is on record, and it names each document on which a replay of the
\* records leaves something open, and states the balance of that replay, or
\* says in words that nothing is owed when that is so (policy.py:170-355,
\* score.py:85-177).
GatedIsComplete ==
    text # << >> /\ decision.action = "human_gate" =>
        /\ AllPass
        /\ DocsNamed(text, ledger) \subseteq DocumentIds(ledger)
        /\ \A i \in InvoiceIds(ledger) :
             Replay(ledger).remaining[i] > 0 => i \in DocsNamed(text, ledger)
        /\ \A s \in SourceIds(ledger) :
             Replay(ledger).credit[s] > 0 => s \in DocsNamed(text, ledger)
        /\ \/ NetBalanceNaive(ledger) \in FiguresFound(text)
           \/ /\ NetBalanceNaive(ledger) = 0
              /\ \E k \in DOMAIN text : Says(LaidOut(text[k]), NoBalancePhrases)

\* A passed sum that cites the balance states it.
LEMMA CitedSum ==
    ASSUME NEW c, NEW l, NetLabel \notin DocumentIds(l), c.type = "C-SUM", c.preset \in BOOLEAN,
           CodeCheck(c, l).status = "pass", NetLabel \in CodeCheck(c, l).cites
    PROVE  c.num = NetBalance(l)
<1> DEFINE bound == DocsOf(c) \cap InvoiceIds(l)
<1>1. CodeCheck(c, l) = CheckSum(c, l)
  <2>1. c.preset = TRUE => CodeCheck(c, l) = Result("unverifiable", {})
    BY DEF CodeCheck
  <2>2. c.preset = FALSE
    BY <2>1, Answered
  <2> QED BY <2>2 DEF CodeCheck
<1>2. NetLabel \notin bound /\ NetLabel \notin OpenInvoices(l)
  BY DEF DocumentIds, OpenInvoices
<1>3. c.num # Unresolved
  BY <1>1, Answered DEF CheckSum
<1>4. bound = {}
  BY <1>1, <1>2, <1>3, Answered DEF CheckSum
<1> SUFFICES ASSUME c.num # NetBalance(l) PROVE FALSE
  OBVIOUS
<1>5. CheckSum(c, l) = IF c.num = OpenInvoiceTotal(l) /\ "items" \in c.span
                         THEN Result("pass", OpenInvoices(l))
                         ELSE Result("fail", {NetLabel})
  BY <1>3, <1>4 DEF CheckSum
<1> QED BY <1>1, <1>2, <1>5, Answered

LEMMA AuditGate == AuditInv => GatedIsComplete
<1> SUFFICES ASSUME AuditInv, text # << >>, decision.action = "human_gate"
             PROVE  /\ AllPass
                    /\ DocsNamed(text, ledger) \subseteq DocumentIds(ledger)
                    /\ \A i \in InvoiceIds(ledger) :
                         Replay(ledger).remaining[i] > 0 => i \in DocsNamed(text, ledger)
                    /\ \A s \in SourceIds(ledger) :
                         Replay(ledger).credit[s] > 0 => s \in DocsNamed(text, ledger)
                    /\ \/ NetBalanceNaive(ledger) \in FiguresFound(text)
                       \/ /\ NetBalanceNaive(ledger) = 0
                          /\ \E k \in DOMAIN text : Says(LaidOut(text[k]), NoBalancePhrases)
  BY DEF GatedIsComplete
<1>1. PICK claims : claims = ExtractClaims(text, ledger)
  OBVIOUS
<1>2. PICK draft : draft = DraftOf(text, ledger)
  OBVIOUS
<1>3. /\ IsDraft(text) /\ SoundLedger(ledger) /\ NetLabel \notin DocumentIds(ledger)
      /\ DOMAIN checked = DOMAIN claims
      /\ \A c \in DOMAIN checked :
           /\ checked[c].claim = claims[c] /\ claims[c] \in Range(claims)
           /\ claims[c].type \in ClaimTypes /\ claims[c].preset \in BOOLEAN
      /\ \A c \in DOMAIN checked : claims[c].type \in CodeCheckedTypes =>
           checked[c].status \in {"pass", "fail", "unverifiable"}
      /\ \A c \in DOMAIN checked : claims[c].type = "C-FUZZY" =>
           checked[c].status \in {"pass", "unsupported", "cannot_determine"}
      /\ decision = MatchMatrix(checked, draft, ledger, 0)
  BY <1>1, <1>2, ResultsAre
<1>4. /\ ExistFails(checked) = {} /\ Unverifiable(checked) = {}
      /\ CodeFails(checked) = {} /\ FuzzyUnsupported(checked) = {} /\ FuzzyCannot(checked) = {}
      /\ MissingCompleteness(checked, draft, ledger) = {}
  BY <1>3, MatrixRows
<1>5. AllPass
  <2> SUFFICES ASSUME NEW c \in DOMAIN checked PROVE checked[c].status = "pass"
    BY DEF AllPass
  <2>1. CASE claims[c].type = "C-FUZZY"
    BY <1>3, <1>4, <2>1 DEF FuzzyUnsupported, FuzzyCannot, ClaimsWith
  <2>2. CASE claims[c].type = "C-EXIST"
    <3>1. checked[c].status \in {"pass", "fail", "unverifiable"}
      BY <1>3, <2>2 DEF CodeCheckedTypes
    <3> QED BY <1>3, <1>4, <2>2, <3>1 DEF ExistFails, Unverifiable, ClaimsWith
  <2>3. CASE claims[c].type \in CodeFailKinds
    <3>1. checked[c].status \in {"pass", "fail", "unverifiable"}
      BY <1>3, <2>3 DEF CodeCheckedTypes, CodeFailKinds
    <3> QED BY <1>3, <1>4, <2>3, <3>1 DEF CodeFails, Unverifiable, ClaimsWith
  <2> QED BY <1>3, <2>1, <2>2, <2>3 DEF ClaimTypes, CodeFailKinds
<1>6. DocsNamed(text, ledger) \subseteq DocumentIds(ledger)
  <2>1. FabricatedIsUnknown
    BY AuditFabricated
  <2>2. decision.reason # "fabricated"
    BY <1>3, <1>4, MatrixRows
  <2> QED BY <2>1, <2>2 DEF FabricatedIsUnknown
<1>7. PICK coded : coded = RunCodeChecks(claims, ledger)
  OBVIOUS
<1>8. /\ DOMAIN coded = DOMAIN claims
      /\ \A c \in DOMAIN claims : coded[c].claim = claims[c]
      /\ \A c \in DOMAIN claims : claims[c].type = "C-SUM" =>
           /\ coded[c].status = CodeCheck(claims[c], ledger).status
           /\ coded[c].cites = CodeCheck(claims[c], ledger).cites
  BY <1>7, Answered DEF RunCodeChecks, CodeCheckedTypes, ClaimTypes
<1>9. Unmentioned(coded, draft, ledger) = {}
  <2>1. draft.text = "draft" /\ draft.claims = claims
    BY <1>1, <1>2 DEF DraftOf
  <2> QED BY <1>4, <1>7, <2>1 DEF MissingCompleteness, AbsentItems
<1>10. /\ StatesNet(coded, draft, ledger)
       /\ \A x \in OpenInvoices(ledger) : References(coded, x)
       /\ \A x \in UnappliedPayments(ledger) : References(coded, x)
       /\ \A x \in OpenCredits(ledger) : References(coded, x)
  <2>1. /\ "net_balance_stated" \in CompletenessItems
        /\ "open_invoices_itemized" \in CompletenessItems
        /\ "unapplied_cash_mentioned" \in CompletenessItems
        /\ "open_credit_mentioned" \in CompletenessItems
    BY DEF CompletenessItems
  <2>2. StatesNet(coded, draft, ledger)
    BY <1>9, <2>1 DEF Unmentioned
  <2>3. \A x \in OpenInvoices(ledger) : References(coded, x)
    BY <1>9, <2>1 DEF Unmentioned
  <2>4. \A x \in UnappliedPayments(ledger) : References(coded, x)
    BY <1>9, <2>1 DEF Unmentioned
  <2>5. \A x \in OpenCredits(ledger) : References(coded, x)
    BY <1>9, <2>1 DEF Unmentioned
  <2> QED BY <2>2, <2>3, <2>4, <2>5
<1>11. ASSUME NEW x, References(coded, x) PROVE x \in DocsNamed(text, ledger)
  <2>1. PICK c \in DOMAIN claims : \/ claims[c].type = "C-EXIST" /\ claims[c].word = x
                                   \/ claims[c].type = "C-AMT" /\ x \in DocsOf(claims[c])
    BY <1>8, <1>11 DEF References, Passing
  <2> QED BY <1>1, <1>3, <2>1, ClaimsSay
<1>12. ASSUME NEW i \in InvoiceIds(ledger), Replay(ledger).remaining[i] > 0
       PROVE  i \in DocsNamed(text, ledger)
  <2>1. i \in OpenInvoices(ledger)
    <3>1. Replay(ledger).remaining = Open(ledger)
      BY <1>3, ReplayLeaves
    <3>2. Replay(ledger).remaining[i] = OpenAmount(ledger, i)
      BY <3>1 DEF Open
    <3> QED BY <1>12, <3>2 DEF OpenInvoices
  <2> QED BY <1>10, <1>11, <2>1
<1>13. ASSUME NEW s \in SourceIds(ledger), Replay(ledger).credit[s] > 0
       PROVE  s \in DocsNamed(text, ledger)
  <2>1. UnappliedAmount(ledger, s) > 0
    <3>1. Replay(ledger).credit = Unapplied(ledger)
      BY <1>3, ReplayLeaves
    <3>2. Replay(ledger).credit[s] = UnappliedAmount(ledger, s)
      BY <3>1 DEF Unapplied
    <3> QED BY <1>13, <3>2
  <2>2. s \in UnappliedPayments(ledger) \/ s \in OpenCredits(ledger)
    BY <2>1 DEF UnappliedPayments, OpenCredits, SourceIds
  <2> QED BY <1>10, <1>11, <2>2
<1>14. NetBalanceNaive(ledger) = NetBalance(ledger)
  BY <1>3, RecomputeAgrees DEF SoundLedger
<1>15. \/ NetBalance(ledger) \in FiguresFound(text)
       \/ /\ NetBalance(ledger) = 0
          /\ \E k \in DOMAIN text : Says(LaidOut(text[k]), NoBalancePhrases)
  <2>1. CASE \E k \in Passing(coded) : /\ coded[k].claim.type = "C-SUM"
                                       /\ NetLabel \in coded[k].cites
    <3>1. PICK k \in DOMAIN claims : /\ coded[k].status = "pass"
                                     /\ claims[k].type = "C-SUM"
                                     /\ NetLabel \in coded[k].cites
      BY <1>8, <2>1 DEF Passing
    <3>2. claims[k].num = NetBalance(ledger)
      BY <1>3, <1>8, <3>1, CitedSum
    <3>3. claims[k].num \in FiguresFound(text)
      BY <1>1, <1>3, <3>1, ClaimsSay
    <3> QED BY <3>2, <3>3
  <2>2. CASE NetBalance(ledger) = 0 /\ draft.paidInFull
    BY <1>2, <2>2 DEF DraftOf
  <2> QED BY <1>10, <2>1, <2>2 DEF StatesNet
<1> QED BY <1>5, <1>6, <1>12, <1>13, <1>14, <1>15

-----------------------------------------------------------------------------
(***************************************************************************)
(* What the extractor does not find in a golden sentence                   *)
(***************************************************************************)
\* Every phrase of a pattern has a word that is not among some words.
Foreign(P, G) == \A p \in P : IsList(p) /\ \E i \in DOMAIN p : p[i] \notin G

\* A sentence is made of these words and of tokens that are no word at all.
Spelled(s, G) == \A k \in DOMAIN s : s[k].text \in G \/ s[k].text \notin Vocabulary

\* The words of the golden drafts (golden.py), and a date among them.
GoldenWords ==
    {"thank", "you", "for", "reaching", "out", "about", "your", "account", "here",
     "is", "the", "current", "position", "as", "of", "balance", "due", "on", "this",
     "reflects", "following", "open", "invoices", ":", "-", "dated", ",", "we",
     "have", "received", "payment", "which", "has", "not", "yet", "been", "applied",
     "to", "a", "specific", "invoice", "it", "reflected", "in", "above", "an",
     "credit", "memo", "also", "if", "questions", "any", "items", "please", "reply",
     "message", "and", "will", "be", "glad", "walk", "through", "them", "with",
     "outstanding", "overdue", "yyyy-mm-dd"}

\* The texts of the tokens from j to k.
AreTexts(t, s, j, k) ==
    /\ DOMAIN t = 1..(k - j + 1) /\ Len(t) = k - j + 1
    /\ \A i \in 1..(k - j + 1) : t[i] = s[j + i - 1].text

LEMMA TextsAre ==
    ASSUME NEW s, NEW j \in Nat \ {0}, NEW k \in Nat, j <= k
    PROVE  AreTexts(Texts(s, j, k), s, j, k)
<1>1. PICK f : f = [i \in 1..(k - j + 1) |-> s[j + i - 1].text]
  OBVIOUS
<1>2. PICK n \in Nat : n = k - j + 1
  OBVIOUS
<1>3. f = [i \in 1..n |-> f[i]]
  BY <1>1, <1>2
<1>4. Listed(f) = f /\ Len(f) = n
  BY <1>3, ListedIs
<1>5. Texts(s, j, k) = f
  BY <1>1, <1>4 DEF Texts
<1>6. DOMAIN f = 1..(k - j + 1) /\ \A i \in 1..(k - j + 1) : f[i] = s[j + i - 1].text
  BY <1>1
<1> QED BY <1>2, <1>4, <1>5, <1>6 DEF AreTexts

\* A pattern whose phrases each have a word that the sentence has not.
LEMMA ForeignNotFound ==
    ASSUME NEW s, NEW n \in Nat, DOMAIN s = 1..n, Len(s) = n, NEW G, Spelled(s, G),
           NEW P \in Patterns, Foreign(P, G)
    PROVE  /\ \A k, j \in 1..n : k <= j => Texts(s, k, j) \notin P
           /\ \A k \in 1..n : EndsAt(s, k, P) = {}
           /\ Matches(s, P) = {} /\ ~Says(s, P)
<1>1. ASSUME NEW k \in 1..n, NEW j \in 1..n, k <= j, Texts(s, k, j) \in P PROVE FALSE
  <2>1. PICK p \in P : p = Texts(s, k, j)
    BY <1>1
  <2>2. PICK i \in DOMAIN p : p[i] \notin G
    BY <2>1 DEF Foreign
  <2>3. PICK c \in Nat : /\ c = j - k + 1 /\ DOMAIN p = 1..c
                         /\ \A x \in 1..c : p[x] = s[k + x - 1].text
    <3>1. k \in Nat \ {0} /\ j \in Nat /\ k <= j
      BY <1>1
    <3>2. AreTexts(p, s, k, j)
      BY <2>1, <3>1, TextsAre
    <3>3. PICK c \in Nat : c = j - k + 1
      BY <3>1
    <3> QED BY <3>2, <3>3 DEF AreTexts
  <2>4. i \in 1..c /\ p[i] = s[k + i - 1].text
    BY <2>2, <2>3
  <2>5. PICK x \in 1..n : x = k + i - 1
    BY <1>1, <2>3, <2>4
  <2>6. s[x].text = p[i] /\ p[i] \in {p[y] : y \in DOMAIN p}
    BY <2>2, <2>4, <2>5
  <2>7. p[i] \in Vocabulary
    BY <2>6 DEF Vocabulary
  <2>8. s[x].text \in G \/ s[x].text \notin Vocabulary
    BY DEF Spelled
  <2> QED BY <2>2, <2>6, <2>7, <2>8
<1>2. ASSUME NEW k \in 1..n PROVE EndsAt(s, k, P) = {}
  <2>1. ASSUME NEW j \in EndsAt(s, k, P) PROVE FALSE
    <3>1. j \in k..MinOf(Len(s), k + LongestPhrase) /\ Texts(s, k, j) \in P
      BY <2>1 DEF EndsAt
    <3>2. j \in 1..n /\ k <= j
      BY <3>1 DEF MinOf, LongestPhrase
    <3> QED BY <1>1, <3>1, <3>2
  <2> QED BY <2>1
<1>3. ASSUME NEW m \in Matches(s, P) PROVE FALSE
  <2>1. \E k \in 1..n : EndsAt(s, k, P) # {}
    BY <1>3, MatchesAre
  <2> QED BY <1>2, <2>1
<1> QED BY <1>1, <1>2, <1>3 DEF Says

\* Phrases are lists of words.
AllLists(P) == \A p \in P : IsList(p)

LEMMA ForeignWords ==
    ASSUME NEW W, NEW G, \A w \in W : w \notin G
    PROVE  Foreign(One(W), G)
<1> SUFFICES ASSUME NEW w \in W PROVE IsList(<<w>>) /\ \E i \in DOMAIN <<w>> : <<w>>[i] \notin G
  BY DEF Foreign, One
<1>1. 1 \in DOMAIN <<w>> /\ <<w>>[1] = w /\ w \notin G
  OBVIOUS
<1>2. IsList(<<w>>)
  BY ShortIsList DEF AtMostOne
<1> QED BY <1>1, <1>2

LEMMA ForeignThen ==
    ASSUME NEW A, NEW B, AllLists(A), AllLists(B), NEW G, Foreign(A, G) \/ Foreign(B, G)
    PROVE  Foreign(Then(A, B), G) /\ AllLists(Then(A, B))
<1>1. ASSUME NEW a \in A, NEW b \in B
      PROVE  IsList(a \o b) /\ \E i \in DOMAIN (a \o b) : (a \o b)[i] \notin G
  <2>1. a \in Seq(Range(a)) /\ b \in Seq(Range(b))
    BY DEF AllLists, IsList
  <2>2. IsList(a \o b)
    BY <2>1, RangeOfTwo DEF IsList
  <2>3. CASE \E i \in DOMAIN a : a[i] \notin G
    <3>1. PICK i \in DOMAIN a : a[i] \notin G
      BY <2>3
    <3>2. i \in DOMAIN (a \o b) /\ (a \o b)[i] = a[i]
      BY <2>1
    <3> QED BY <2>2, <3>1, <3>2
  <2>4. CASE \E i \in DOMAIN b : b[i] \notin G
    <3>1. PICK i \in DOMAIN b : b[i] \notin G
      BY <2>4
    <3>2. Len(a) + i \in DOMAIN (a \o b) /\ (a \o b)[Len(a) + i] = b[i]
      BY <2>1
    <3> QED BY <2>2, <3>1, <3>2
  <2> QED BY <2>3, <2>4 DEF Foreign
<1>2. \A p \in Then(A, B) : IsList(p) /\ \E i \in DOMAIN p : p[i] \notin G
  <2> TAKE p \in Then(A, B)
  <2>1. PICK a \in A, b \in B : p = a \o b
    BY DEF Then
  <2> QED BY <1>1, <2>1
<1> QED BY <1>2 DEF Foreign, AllLists

LEMMA ForeignBoth ==
    ASSUME NEW A, NEW B, NEW G, Foreign(A, G), Foreign(B, G)
    PROVE  Foreign(A \cup B, G)
BY DEF Foreign

LEMMA WordsOf ==
    /\ \A W : AllLists(One(W))
    /\ \A A : AllLists(A) => AllLists(Optional(A))
    /\ AllLists(Determiners)
<1>1. ASSUME NEW w PROVE IsList(<<w>>)
  BY ShortIsList DEF AtMostOne
<1>2. \A W : AllLists(One(W))
  BY <1>1 DEF One, AllLists
<1>5. IsList(<< >>)
  BY ShortIsList DEF AtMostOne
<1>3. \A A : AllLists(A) => AllLists(Optional(A))
  BY <1>5 DEF Optional, AllLists
<1>4. AllLists(One({"the", "this", "that", "your"}))
  BY <1>2
<1> QED BY <1>2, <1>3, <1>4 DEF Determiners

\* A phrase written out, with a word that does not belong.
LEMMA ForeignPhrase ==
    ASSUME NEW G
    PROVE  /\ \A a, b : a \notin G \/ b \notin G => Foreign({<<a, b>>}, G)
           /\ \A a, b, c : a \notin G \/ b \notin G \/ c \notin G => Foreign({<<a, b, c>>}, G)
<1>1. ASSUME NEW a, NEW b, a \notin G \/ b \notin G
      PROVE  Foreign({<<a, b>>}, G)
  <2>1. /\ 1 \in DOMAIN <<a, b>> /\ 2 \in DOMAIN <<a, b>>
        /\ <<a, b>>[1] = a /\ <<a, b>>[2] = b
    OBVIOUS
  <2>2. IsList(<<a, b>>)
    BY DEF IsList, Range
  <2> QED BY <1>1, <2>1, <2>2 DEF Foreign
<1>2. ASSUME NEW a, NEW b, NEW c,
             a \notin G \/ b \notin G \/ c \notin G
      PROVE  Foreign({<<a, b, c>>}, G)
  <2>1. /\ 1 \in DOMAIN <<a, b, c>> /\ 2 \in DOMAIN <<a, b, c>> /\ 3 \in DOMAIN <<a, b, c>>
        /\ <<a, b, c>>[1] = a /\ <<a, b, c>>[2] = b /\ <<a, b, c>>[3] = c
    OBVIOUS
  <2>2. IsList(<<a, b, c>>)
    BY DEF IsList, Range
  <2> QED BY <1>2, <2>1, <2>2 DEF Foreign
<1> QED BY <1>1, <1>2

LEMMA ForeignSix ==
    ASSUME NEW G, NEW a, NEW b, NEW c, NEW d, NEW e, NEW f, Foreign({a}, G), Foreign({b}, G),
           Foreign({c}, G), Foreign({d}, G), Foreign({e}, G), Foreign({f}, G)
    PROVE  Foreign({a, b, c, d, e, f}, G)
BY DEF Foreign

\* No golden word is what these patterns look for.
LEMMA NothingOwedForeign == Foreign(NothingOwed, GoldenWords) /\ Foreign(NoLongerOwed, GoldenWords)
<1>1. \A w \in {"nothing", "owed", "owe", "no", "longer"} : w \notin GoldenWords
  <2>1. /\ "nothing" \notin GoldenWords /\ "owed" \notin GoldenWords /\ "owe" \notin GoldenWords
        /\ "no" \notin GoldenWords /\ "longer" \notin GoldenWords
    BY DEF GoldenWords
  <2> QED BY <2>1
<1>2. Foreign(One({"nothing"}), GoldenWords) /\ AllLists(One({"nothing"}))
  BY <1>1, ForeignWords, WordsOf
<1>3. /\ AllLists(Optional(One({"further"}))) /\ AllLists(Optional(One({"is"})))
      /\ AllLists(One({"owed"})) /\ AllLists(One({"owe", "owed"}))
  BY WordsOf
<1>4. PICK A : A = Then(One({"nothing"}), Optional(One({"further"})))
  OBVIOUS
<1>5. Foreign(A, GoldenWords) /\ AllLists(A)
  BY <1>2, <1>3, <1>4, ForeignThen
<1>6. PICK B : B = Then(A, Optional(One({"is"})))
  OBVIOUS
<1>7. Foreign(B, GoldenWords) /\ AllLists(B)
  BY <1>3, <1>5, <1>6, ForeignThen
<1>8. Foreign(Then(B, One({"owed"})), GoldenWords)
  BY <1>3, <1>7, ForeignThen
<1>9. Foreign({<<"no", "longer">>}, GoldenWords)
  BY <1>1, ForeignPhrase
<1>10. AllLists({<<"no", "longer">>})
  BY <1>9 DEF Foreign, AllLists
<1>11. Foreign(Then({<<"no", "longer">>}, One({"owe", "owed"})), GoldenWords)
  BY <1>3, <1>9, <1>10, ForeignThen
<1> QED BY <1>4, <1>6, <1>8, <1>11 DEF NothingOwed, NoLongerOwed

LEMMA NoFuzzyWord ==
    /\ "approve" \notin GoldenWords /\ "approved" \notin GoldenWords /\ "approval" \notin GoldenWords
    /\ "agree" \notin GoldenWords /\ "agreed" \notin GoldenWords /\ "agreement" \notin GoldenWords
    /\ "waive" \notin GoldenWords /\ "waived" \notin GoldenWords /\ "waiver" \notin GoldenWords
    /\ "waiving" \notin GoldenWords /\ "promise" \notin GoldenWords /\ "promised" \notin GoldenWords
    /\ "promises" \notin GoldenWords /\ "promising" \notin GoldenWords /\ "confirm" \notin GoldenWords
    /\ "confirms" \notin GoldenWords /\ "confirmed" \notin GoldenWords /\ "confirming" \notin GoldenWords
    /\ "discuss" \notin GoldenWords /\ "discussed" \notin GoldenWords /\ "discusses" \notin GoldenWords
    /\ "discussing" \notin GoldenWords /\ "discussion" \notin GoldenWords /\ "arrange" \notin GoldenWords
    /\ "arranged" \notin GoldenWords /\ "arranges" \notin GoldenWords /\ "arranging" \notin GoldenWords
    /\ "arrangement" \notin GoldenWords /\ "spoke" \notin GoldenWords /\ "spoken" \notin GoldenWords
    /\ "told" \notin GoldenWords /\ "call" \notin GoldenWords /\ "called" \notin GoldenWords
BY DEF GoldenWords

LEMMA GoldenWordsAre ==
    /\ Foreign(FuzzyPhrases, GoldenWords)
    /\ Foreign(PaidParaphrases, GoldenWords)
    /\ Foreign(FractionHeads, GoldenWords)
    /\ GoldenWords \cap NumberWords = {} /\ GoldenWords \cap Markers = {}
    /\ Markers \subseteq Vocabulary
<1> DEFINE F == {"approve", "approved", "approval", "agree", "agreed", "agreement",
         "waive", "waived", "waiver", "waiving", "promise", "promised",
         "promises", "promising", "confirm", "confirms", "confirmed",
         "confirming", "discuss", "discussed", "discusses", "discussing",
         "discussion", "arrange", "arranged", "arranges", "arranging",
         "arrangement", "spoke", "spoken", "told", "call", "called"}
<1>1. \A w \in F : w \notin GoldenWords
  BY NoFuzzyWord
<1>2. Foreign(One(F), GoldenWords)
  BY <1>1, ForeignWords
<1>3. \A w \in {"manager", "discussed", "conversation", "care", "off", "full", "cleared", "fully"} :
        w \notin GoldenWords
  <2>1. /\ "manager" \notin GoldenWords /\ "discussed" \notin GoldenWords /\ "conversation" \notin GoldenWords
        /\ "care" \notin GoldenWords /\ "off" \notin GoldenWords /\ "full" \notin GoldenWords
        /\ "cleared" \notin GoldenWords /\ "fully" \notin GoldenWords
    BY DEF GoldenWords
  <2> QED BY <2>1
<1>4. /\ Foreign({<<"account", "manager">>}, GoldenWords)
      /\ Foreign({<<"as", "we", "discussed">>}, GoldenWords)
      /\ Foreign({<<"per", "our", "conversation">>}, GoldenWords)
      /\ Foreign({<<"taken", "care", "of">>}, GoldenWords)
      /\ Foreign({<<"paid", "off">>}, GoldenWords)
      /\ Foreign({<<"settled", "in", "full">>}, GoldenWords)
      /\ Foreign({<<"paid", "in", "full">>}, GoldenWords)
      /\ Foreign({<<"cleared", "up">>}, GoldenWords)
      /\ Foreign({<<"fully", "paid">>}, GoldenWords)
  BY <1>3, ForeignPhrase
<1>5. Foreign(FuzzyPhrases, GoldenWords)
  <2> HIDE DEF F
  <2>1. FuzzyPhrases = One(F) \cup ({<<"account", "manager">>, <<"as", "we", "discussed">>,
            <<"per", "our", "conversation">>, <<"taken", "care", "of">>,
            <<"paid", "off">>, <<"settled", "in", "full">>}) \cup NothingOwed \cup NoLongerOwed
    BY DEF FuzzyPhrases, F
  <2>2. Foreign({<<"account", "manager">>, <<"as", "we", "discussed">>,
            <<"per", "our", "conversation">>, <<"taken", "care", "of">>,
            <<"paid", "off">>, <<"settled", "in", "full">>}, GoldenWords)
    BY <1>4, ForeignSix
  <2> QED BY <1>2, <2>1, <2>2, NothingOwedForeign, ForeignBoth
<1>6. Foreign(PaidParaphrases, GoldenWords)
  <2>2. Foreign({<<"taken", "care", "of">>, <<"paid", "off">>, <<"paid", "in", "full">>,
     <<"settled", "in", "full">>, <<"cleared", "up">>, <<"fully", "paid">>}, GoldenWords)
    BY <1>4, ForeignSix
  <2> QED BY <2>2, NothingOwedForeign, ForeignBoth DEF PaidParaphrases
<1>7. Foreign(FractionHeads, GoldenWords)
  <2>1. {"half", "halfs", "third", "thirds", "quarter", "quarters"} \cap GoldenWords = {}
    BY DEF GoldenWords
  <2>2. PICK H : H = One({"half", "halfs", "third", "thirds", "quarter", "quarters"})
    OBVIOUS
  <2>3. Foreign(H, GoldenWords) /\ AllLists(H)
    BY <2>1, <2>2, ForeignWords, WordsOf
  <2>4. AllLists(Optional(One({"a", "one", "two", "three"}))) /\ AllLists(One({"of"}))
    BY WordsOf
  <2>5. PICK A : A = Then(Optional(One({"a", "one", "two", "three"})), H)
    OBVIOUS
  <2>6. Foreign(A, GoldenWords) /\ AllLists(A)
    BY <2>3, <2>4, <2>5, ForeignThen
  <2>7. PICK B : B = Then(A, One({"of"}))
    OBVIOUS
  <2>8. Foreign(B, GoldenWords) /\ AllLists(B)
    BY <2>4, <2>6, <2>7, ForeignThen
  <2>9. Foreign(Then(B, Determiners), GoldenWords)
    BY <2>8, WordsOf, ForeignThen
  <2> QED BY <2>2, <2>5, <2>7, <2>9 DEF FractionHeads
<1>8. GoldenWords \cap NumberWords = {}
  BY DEF GoldenWords, NumberWords, Units
<1>9. GoldenWords \cap Markers = {}
  BY DEF GoldenWords, Markers
<1>10. Markers \subseteq Vocabulary
  BY DEF Vocabulary
<1> QED BY <1>5, <1>6, <1>7, <1>8, <1>9, <1>10

\* A sentence as the golden drafts have them: golden words, dates, dollar
\* amounts and references; before a date nothing that numbers a document.
Plain(s) ==
    /\ IsSentence(s) /\ Measured(s) /\ Spelled(s, GoldenWords)
    /\ \A k \in DOMAIN s :
         /\ s[k].kind = "word" => s[k].text \in GoldenWords
         /\ s[k].kind = "amount" => s[k].form = "dollar" /\ s[k].lead = Unresolved
    /\ \A j, k \in DOMAIN s : s[j].kind = "date" /\ k < j /\ s[k].kind # "doc" =>
         s[k].text \notin {"invoice", "payment", "credit"}

\* The place an amount takes up.
SpanAt(L, k) == Span(L[k].at, L[k].end, <<L[k].text>>, L[k].num, FALSE)

\* What is found at the tokens of a sentence, and what is not.
ReadsPlain(L, s, l) ==
    /\ \A k \in DOMAIN s : s[k].kind # "doc" => MentionAt(L, k, l) = << >>
    /\ \A k \in DOMAIN s : s[k].kind # "amount" => AmountAt(L, k) = << >>
    /\ \A k \in DOMAIN s : s[k].kind = "amount" => AmountAt(L, k) = <<SpanAt(L, k)>>
    /\ \A k \in DOMAIN s : IsDate(L, k) <=> s[k].kind = "date"
    /\ Matches(L, FuzzyPhrases) = {} /\ Matches(L, PaidParaphrases) = {}

\* A laid out sentence says what the sentence says.
SameTokens(L, s) ==
    /\ DOMAIN L = DOMAIN s /\ Len(L) = Len(s)
    /\ \A k \in DOMAIN s : L[k].kind = s[k].kind /\ L[k].text = s[k].text
    /\ \A k \in DOMAIN s : s[k].kind = "amount" =>
         L[k].form = s[k].form /\ L[k].num = s[k].num /\ L[k].lead = s[k].lead
    /\ \A k \in DOMAIN s : s[k].kind = "date" => L[k].num = s[k].num
    /\ \A k \in DOMAIN s : s[k].kind = "doc" =>
         L[k].fam = s[k].fam /\ L[k].pad = s[k].pad /\ L[k].num = s[k].num

LEMMA LaidOutSame ==
    ASSUME NEW s, IsSentence(s)
    PROVE  SameTokens(LaidOut(s), s) /\ IsSentence(LaidOut(s))
<1>1. \A k \in DOMAIN s : IsToken(s[k])
  BY DEF IsSentence
<1>2. \A k \in DOMAIN s :
        /\ s[k].kind = "amount" => {"form", "num", "lead"} \subseteq DOMAIN s[k]
        /\ s[k].kind = "doc" => {"fam", "pad", "num"} \subseteq DOMAIN s[k]
  BY <1>1 DEF IsToken, Fields
<1>3. /\ DOMAIN LaidOut(s) = DOMAIN s /\ Len(LaidOut(s)) = Len(s)
      /\ \A k \in DOMAIN s : \A f \in DOMAIN s[k] :
           f \notin {"at", "end"} => LaidOut(s)[k][f] = s[k][f]
  BY LaidOutIs
<1>4. \A k \in DOMAIN s : s[k].kind = "amount" => LaidOut(s)[k].lead = s[k].lead
  BY <1>2, <1>3
<1>5. \A k \in DOMAIN s : s[k].kind = "doc" =>
        /\ LaidOut(s)[k].fam = s[k].fam /\ LaidOut(s)[k].pad = s[k].pad
        /\ LaidOut(s)[k].num = s[k].num
  BY <1>2, <1>3
<1> QED BY <1>3, <1>4, <1>5, LaidOutTokens DEF SameTokens

LEMMA NoLooseNumber ==
    ASSUME NEW s, Plain(s), NEW L, SameTokens(L, s), NEW k \in DOMAIN s, s[k].kind # "doc"
    PROVE  LooseAt(L, k) = {}
<1>1. PICK n \in Nat : n = Len(s) /\ DOMAIN s = 1..n
  BY DEF Plain, IsSentence, IsList
<1>2. DOMAIN L = 1..n /\ Len(L) = n
  BY <1>1 DEF SameTokens
<1> SUFFICES ASSUME NEW x \in LooseAt(L, k) PROVE FALSE
  OBVIOUS
<1>3. /\ x \in LooseFamilies \X ((k + 1)..MinOf(Len(L), k + 3))
      /\ LeadingDigits(L[x[2]])
      /\ \E i \in {x[2] - 1, x[2] - 2} : i >= k /\ Texts(L, k, i) = x[1][1]
  BY DEF LooseAt
<1>4. PICK j \in 1..n : j = x[2] /\ k < j
  BY <1>1, <1>2, <1>3 DEF MinOf
<1>5. s[j].kind = "date"
  <2>1. L[j].kind \in {"amount", "date"} /\ L[j].lead # Unresolved
    BY <1>3, <1>4 DEF LeadingDigits
  <2>2. s[j].kind \in {"amount", "date"}
    BY <1>1, <2>1 DEF SameTokens
  <2>3. s[j].kind = "amount" => L[j].lead = Unresolved
    BY <1>1 DEF SameTokens, Plain
  <2> QED BY <2>1, <2>2, <2>3
<1>6. PICK i \in {x[2] - 1, x[2] - 2} : i >= k /\ Texts(L, k, i) = x[1][1]
  BY <1>3
<1>7. i \in Nat /\ k \in Nat \ {0} /\ k <= i
  BY <1>1, <1>4, <1>6
<1>8. Texts(L, k, i)[1] = L[k].text
  <2>1. AreTexts(Texts(L, k, i), L, k, i)
    BY <1>7, TextsAre
  <2>2. 1 \in 1..(i - k + 1) /\ k + 1 - 1 = k
    BY <1>7
  <2> QED BY <2>1, <2>2 DEF AreTexts
<1>9. x[1][1][1] \in {"invoice", "payment", "credit"}
  BY <1>3 DEF LooseFamilies
<1>10. s[k].text \in {"invoice", "payment", "credit"}
  BY <1>6, <1>8, <1>9 DEF SameTokens
<1> QED BY <1>1, <1>4, <1>5, <1>10 DEF Plain

LEMMA PlainReads ==
    ASSUME NEW s, Plain(s), NEW l
    PROVE  ReadsPlain(LaidOut(s), s, l)
<1>1. PICK n \in Nat : n = Len(s) /\ DOMAIN s = 1..n
  BY DEF Plain, IsSentence, IsList
<1>2. PICK L : L = LaidOut(s)
  OBVIOUS
<1>3. SameTokens(L, s) /\ IsSentence(L)
  BY <1>2, LaidOutSame DEF Plain
<1>4. DOMAIN L = 1..n /\ Len(L) = n
  BY <1>1, <1>3 DEF SameTokens
<1>5. Spelled(L, GoldenWords)
  BY <1>3 DEF Spelled, Plain, SameTokens
<1>6. FuzzyPhrases \in Patterns /\ PaidParaphrases \in Patterns /\ FractionHeads \in Patterns
  BY DEF Patterns
<1>7. Matches(L, FuzzyPhrases) = {}
  BY <1>4, <1>5, <1>6, ForeignNotFound, GoldenWordsAre
<1>8. Matches(L, PaidParaphrases) = {}
  BY <1>4, <1>5, <1>6, ForeignNotFound, GoldenWordsAre
<1>9. \A k, j \in 1..n : k <= j => Texts(L, k, j) \notin FractionHeads
  BY <1>4, <1>5, <1>6, ForeignNotFound, GoldenWordsAre
<1>10. ASSUME NEW k \in DOMAIN s, s[k].kind # "doc" PROVE MentionAt(L, k, l) = << >>
  <2>1. LooseAt(L, k) = {} /\ L[k].kind # "doc"
    BY <1>3, <1>10, NoLooseNumber DEF SameTokens
  <2> QED BY <2>1 DEF MentionAt
<1>11. ASSUME NEW k \in DOMAIN s PROVE ~Prefixed(L, k) /\ ~Suffixed(L, k)
  <2>1. \A j \in DOMAIN L : L[j].text \notin Markers
    BY <1>5, GoldenWordsAre DEF Spelled
  <2>2. "usd" \in Markers
    BY DEF Markers
  <2>3. /\ k > 1 => k - 1 \in DOMAIN L
        /\ k < Len(L) => k + 1 \in DOMAIN L
    BY <1>1, <1>4
  <2> QED BY <2>1, <2>2, <2>3 DEF Prefixed, Suffixed
<1>12. ASSUME NEW k \in DOMAIN s PROVE IsDate(L, k) <=> s[k].kind = "date"
  BY <1>3, <1>11 DEF IsDate, SameTokens
<1>13. ASSUME NEW k \in DOMAIN s, s[k].kind = "amount" PROVE AmountAt(L, k) = <<SpanAt(L, k)>>
  <2>1. L[k].kind = "amount" /\ L[k].form = "dollar"
    BY <1>3, <1>13 DEF SameTokens, Plain
  <2>2. ~BareDigits(L[k]) /\ L[k].form \notin {"misgrouped", "percent"}
    BY <2>1 DEF BareDigits
  <2>3. L[k].kind \notin {"date", "doc"} /\ L[k].kind # "word"
    BY <2>1
  <2>4. HeadAt(L, k) = <<SpanAt(L, k)>>
    BY <1>11, <2>1, <2>2, <2>3 DEF HeadAt, SpanAt
  <2> QED BY <2>3, <2>4, HeadAlone
<1>14. ASSUME NEW k \in DOMAIN s, s[k].kind # "amount" PROVE AmountAt(L, k) = << >>
  <2>1. L[k].kind = s[k].kind /\ L[k].text = s[k].text
    BY <1>3 DEF SameTokens
  <2>2. ~BareDigits(L[k])
    BY <1>14, <2>1 DEF BareDigits
  <2>4. L[k].kind = "word" => SpelledEnds(L, k) = {}
    <3>1. L[k].kind = "word" => L[k].text \notin NumberWords
      BY <2>1, GoldenWordsAre DEF Plain
    <3> QED BY <3>1 DEF SpelledEnds
  <2>5. FractionEnds(L, k) = {}
    <3> SUFFICES ASSUME NEW j \in FractionEnds(L, k) PROVE FALSE
      OBVIOUS
    <3>1. j \in (k + 1)..MinOf(Len(L), k + LongestPhrase) /\ Texts(L, k, j - 1) \in FractionHeads
      BY DEF FractionEnds
    <3>2. j - 1 \in 1..n /\ k <= j - 1 /\ k \in 1..n
      BY <1>1, <1>4, <3>1 DEF MinOf, LongestPhrase
    <3> QED BY <1>9, <3>1, <3>2
  <2>6. HeadAt(L, k) = << >>
    BY <1>11, <1>14, <2>1, <2>2, <2>4, <2>5 DEF HeadAt
  <2> QED BY <1>11, <2>6, NothingAt
<1> QED BY <1>2, <1>7, <1>8, <1>10, <1>12, <1>13, <1>14 DEF ReadsPlain

\* A reference of the account is read as what it spells.
LEMMA ReferenceIsRead ==
    ASSUME NEW L, NEW k, NEW l, L[k].kind = "doc",
           DocId(L[k].fam, L[k].pad, L[k].num) \in DocumentIds(l)
    PROVE  MentionAt(L, k, l) = <<[at |-> L[k].at, fam |-> L[k].fam,
                                   doc |-> DocId(L[k].fam, L[k].pad, L[k].num)]>>
<1>1. CanonicalId(L[k].fam, L[k].pad, L[k].num, l) = DocId(L[k].fam, L[k].pad, L[k].num)
  BY DEF CanonicalId
<1> QED BY <1>1 DEF MentionAt

\* Part of a sequence.
CutOf(w, s, i, j) ==
    /\ DOMAIN w = 1..(j - i + 1) /\ Len(w) = j - i + 1
    /\ \A x \in 1..(j - i + 1) : w[x] = s[i + x - 1]

\* The tokens between two positions are nothing, or run from the first to the last.
Between(s, lo, hi) == {k \in DOMAIN s : s[k].at >= lo /\ s[k].end <= hi}

SlicedAt(w, s, lo, hi, i, j) ==
    /\ i \in Between(s, lo, hi) /\ j \in Between(s, lo, hi) /\ i <= j
    /\ \A k \in Between(s, lo, hi) : i <= k /\ k <= j
    /\ CutOf(w, s, i, j)

LEMMA SliceIs ==
    ASSUME NEW s, IsList(s), NEW lo, NEW hi
    PROVE  \/ Between(s, lo, hi) = {} /\ Slice(s, lo, hi) = << >>
           \/ \E i, j \in DOMAIN s : SlicedAt(Slice(s, lo, hi), s, lo, hi, i, j)
<1>1. PICK n \in Nat : n = Len(s) /\ DOMAIN s = 1..n /\ s \in Seq(Range(s))
  BY DEF IsList
<1>2. PICK B : B = Between(s, lo, hi)
  OBVIOUS
<1>3. Slice(s, lo, hi) = IF B = {} THEN << >> ELSE SubSeq(s, Min(B), Max(B))
  BY <1>2 DEF Slice, Between
<1>4. CASE B = {}
  BY <1>2, <1>3, <1>4
<1>5. CASE B # {}
  <2>1. B \in SUBSET (1..n) /\ B \subseteq Nat
    BY <1>1, <1>2 DEF Between
  <2>2. PICK i \in B : i = Min(B) /\ \A k \in B : i <= k
    BY <1>5, <2>1, LeastIs
  <2>3. PICK j \in B : j = Max(B) /\ \A k \in B : k <= j
    BY <1>5, <2>1, MaxIn
  <2>4. i \in 1..n /\ j \in 1..n /\ i <= j
    BY <2>1, <2>2, <2>3
  <2>5. Slice(s, lo, hi) = SubSeq(s, i, j)
    BY <1>3, <1>5, <2>2, <2>3
  <2>6. CutOf(SubSeq(s, i, j), s, i, j)
    <3>1. PICK w : w = SubSeq(s, i, j)
      OBVIOUS
    <3>2. Len(w) = j - i + 1 /\ DOMAIN w = 1..(j - i + 1)
      BY <1>1, <2>4, <3>1
    <3>3. \A x \in 1..(j - i + 1) : w[x] = s[i + x - 1]
      BY <1>1, <2>4, <3>1
    <3> QED BY <3>1, <3>2, <3>3 DEF CutOf
  <2> QED BY <1>1, <1>2, <2>2, <2>3, <2>4, <2>5, <2>6 DEF SlicedAt
<1> QED BY <1>4, <1>5

LEMMA ForeignEach ==
    ASSUME NEW P, NEW G, \A p \in P : Foreign({p}, G)
    PROVE  Foreign(P, G)
BY DEF Foreign

LEMMA ForeignWord ==
    ASSUME NEW G, NEW a, a \notin G
    PROVE  Foreign({<<a>>}, G)
<1>1. \A w \in {a} : w \notin G
  OBVIOUS
<1>2. Foreign(One({a}), G)
  BY <1>1, ForeignWords
<1>3. One({a}) = {<<a>>}
  BY DEF One
<1> QED BY <1>2, <1>3

\* The words that stand near a figure of a document.
BoundWords ==
    {"-", "dated", ",", "due", ":", "outstanding", "overdue", "yyyy-mm-dd", "we", "have",
     "received", "your", "payment", "of", "which", "has", "not", "yet", "been", "to", "a",
     "specific", "invoice", "an", "open", "credit", "memo", "is", "also", "reflected", "in",
     "the", "balance", "above"}

LEMMA BoundWordsHaveNo ==
    /\ "account" \notin BoundWords /\ "net" \notin BoundWords /\ "total" \notin BoundWords
    /\ "on" \notin BoundWords /\ "grand" \notin BoundWords /\ "altogether" \notin BoundWords
    /\ "combined" \notin BoundWords /\ "originally" \notin BoundWords
    /\ "original" \notin BoundWords /\ "issued" \notin BoundWords /\ "was" \notin BoundWords
    /\ "face" \notin BoundWords /\ "full" \notin BoundWords /\ "billed" \notin BoundWords
    /\ "invoiced" \notin BoundWords /\ "paid" \notin BoundWords /\ "applied" \notin BoundWords
    /\ "remitted" \notin BoundWords
BY DEF BoundWords

LEMMA NoTotalWord == Foreign(TotalMarkers, BoundWords)
<1>1. PICK A : A = Then(One({"your", "the"}), One({"account"}))
  OBVIOUS
<1>2. PICK B : B = Then(One({"account", "net", "total"}), One({"balance"}))
  OBVIOUS
<1>3. PICK C : C = One({"altogether", "combined", "total"})
  OBVIOUS
<1>4. PICK D : D = {<<"balance", "due", "on">>, <<"total", "amount", "due">>,
            <<"total", "due">>, <<"grand", "total">>, <<"in", "total">>}
  OBVIOUS
<1>5. Foreign(A, BoundWords)
  <2>1. \A w \in {"account"} : w \notin BoundWords
    BY BoundWordsHaveNo
  <2>2. Foreign(One({"account"}), BoundWords)
    BY <2>1, ForeignWords
  <2> QED BY <1>1, <2>2, WordsOf, ForeignThen
<1>6. Foreign(B, BoundWords)
  <2>1. \A w \in {"account", "net", "total"} : w \notin BoundWords
    BY BoundWordsHaveNo
  <2>2. Foreign(One({"account", "net", "total"}), BoundWords)
    BY <2>1, ForeignWords
  <2> QED BY <1>2, <2>2, WordsOf, ForeignThen
<1>7. Foreign(C, BoundWords)
  <2>1. \A w \in {"altogether", "combined", "total"} : w \notin BoundWords
    BY BoundWordsHaveNo
  <2> QED BY <1>3, <2>1, ForeignWords
<1>8. Foreign(D, BoundWords)
  <2>1. \A p \in D : Foreign({p}, BoundWords)
    BY <1>4, BoundWordsHaveNo, ForeignPhrase
  <2> QED BY <2>1, ForeignEach
<1>9. TotalMarkers = A \cup B \cup D \cup C
  BY <1>1, <1>2, <1>3, <1>4 DEF TotalMarkers
<1> QED BY <1>5, <1>6, <1>7, <1>8, <1>9, ForeignBoth

LEMMA NoOriginalWord == Foreign(OriginalPhrases, BoundWords)
<1>1. PICK A : A = Then(One({"billed", "invoiced"}), One({"for", "at"}))
  OBVIOUS
<1>2. PICK D : D = {<<"originally">>, <<"original", "amount">>, <<"issued", "for">>,
     <<"was", "for">>, <<"was", "issued", "for">>, <<"face", "value">>,
     <<"full", "amount">>}
  OBVIOUS
<1>3. Foreign(A, BoundWords)
  <2>1. \A w \in {"billed", "invoiced"} : w \notin BoundWords
    BY BoundWordsHaveNo
  <2>2. Foreign(One({"billed", "invoiced"}), BoundWords)
    BY <2>1, ForeignWords
  <2> QED BY <1>1, <2>2, WordsOf, ForeignThen
<1>4. Foreign(D, BoundWords)
  <2>1. \A p \in D : Foreign({p}, BoundWords)
    BY <1>2, BoundWordsHaveNo, ForeignPhrase, ForeignWord
  <2> QED BY <2>1, ForeignEach
<1>5. OriginalPhrases = D \cup A
  BY <1>1, <1>2 DEF OriginalPhrases
<1> QED BY <1>3, <1>4, <1>5, ForeignBoth

\* A window that says nothing of a total, an original or an applied amount.
LEMMA OpenOrNothing ==
    ASSUME NEW w, NEW a, Matches(w, TotalMarkers) = {}, Matches(w, OriginalPhrases) = {},
           Matches(w, AppliedPhrases) = {}
    PROVE  ~ExplicitTotal(w, a) /\ RoleOf(w, a) \in {"open", "unknown"}
<1>1. \A P : Matches(w, P) = {} => Distance(w, a, P) = Far
  <2> SUFFICES ASSUME NEW P, Matches(w, P) = {} PROVE Distance(w, a, P) = Far
    OBVIOUS
  <2>1. Distance(w, a, P) = Min({Far})
    BY DEF Distance
  <2>2. {Far} \subseteq Nat /\ {Far} # {}
    BY DEF Far
  <2> QED BY <2>1, <2>2, LeastIs
<1>2. ~ExplicitTotal(w, a)
  BY <1>1 DEF ExplicitTotal
<1>3. PICK dist : dist = [r \in DOMAIN RolePhrases |-> Distance(w, a, RolePhrases[r])]
  OBVIOUS
<1>4. dist["original"] = Far /\ dist["applied"] = Far
  BY <1>1, <1>3 DEF RolePhrases
<1>5. RoleOf(w, a) = NearestRole(dist)
  BY <1>3 DEF RoleOf
<1>6. NearestRole(dist) \in {"open", "unknown"}
  <2>1. PICK near : near = Min({dist[r] : r \in DOMAIN dist})
    OBVIOUS
  <2>2. near = Far => NearestRole(dist) = "unknown"
    BY <1>4, <2>1 DEF NearestRole
  <2>3. near # Far => NearestRole(dist) = "open"
    BY <1>4, <2>1 DEF NearestRole
  <2> QED BY <2>2, <2>3
<1> QED BY <1>2, <1>5, <1>6

\* The window of a figure of a document.
LEMMA BoundRole ==
    ASSUME NEW w, NEW n \in Nat, DOMAIN w = 1..n, Len(w) = n, Spelled(w, BoundWords),
           \A x \in 1..(n - 1) : w[x].text = "of" => w[x + 1].text # "which",
           NEW a
    PROVE  ~ExplicitTotal(w, a) /\ RoleOf(w, a) \in {"open", "unknown"}
<1>1. TotalMarkers \in Patterns /\ OriginalPhrases \in Patterns
  BY DEF Patterns
<1>2. Matches(w, TotalMarkers) = {} /\ Matches(w, OriginalPhrases) = {}
  BY <1>1, NoTotalWord, NoOriginalWord, ForeignNotFound
<1>3. Matches(w, AppliedPhrases) = {}
  <2> SUFFICES ASSUME NEW m \in Matches(w, AppliedPhrases) PROVE FALSE
    OBVIOUS
  <2>1. PICK k \in 1..n : EndsAt(w, k, AppliedPhrases) # {}
    BY MatchesAre
  <2>2. PICK j \in EndsAt(w, k, AppliedPhrases) : TRUE
    BY <2>1
  <2>3. j \in 1..n /\ k <= j /\ Texts(w, k, j) \in AppliedPhrases
    BY <2>2 DEF EndsAt, MinOf, LongestPhrase
  <2>4. PICK t : t = Texts(w, k, j)
    OBVIOUS
  <2>5. AreTexts(t, w, k, j)
    <3>1. k \in Nat \ {0} /\ j \in Nat /\ k <= j
      BY <2>3
    <3> QED BY <2>4, <3>1, TextsAre
  <2>6. t \in AppliedPhrases
    BY <2>3, <2>4
  <2>7. t[1] = w[k].text
    <3>1. 1 \in 1..(j - k + 1) /\ k + 1 - 1 = k
      BY <2>3
    <3> QED BY <2>5, <3>1 DEF AreTexts
  <2>8. CASE t \in One({"paid", "applied", "remitted"})
    <3>1. t[1] \in {"paid", "applied", "remitted"} /\ 1 \in DOMAIN t
      BY <2>8 DEF One
    <3>2. t[1] \notin BoundWords
      BY <3>1, BoundWordsHaveNo
    <3>3. t[1] \in Vocabulary
      <4>1. AppliedPhrases \in Patterns
        BY DEF Patterns
      <4>2. t[1] \in {t[y] : y \in DOMAIN t}
        BY <3>1
      <4> QED BY <2>6, <4>1, <4>2 DEF Vocabulary
    <3> QED BY <2>7, <3>2, <3>3 DEF Spelled
  <2>9. CASE t = <<"of", "which">>
    <3>1. Len(t) = 2 /\ t[1] = "of" /\ t[2] = "which"
      BY <2>9
    <3>0. PICK c \in Nat : c = j - k + 1
      BY <2>3
    <3>5. Len(t) = c
      BY <2>5, <3>0 DEF AreTexts
    <3>6. c = 2
      BY <3>1, <3>5
    <3>2. j - k + 1 = 2 /\ 2 \in 1..(j - k + 1) /\ k + 2 - 1 = k + 1
      BY <2>3, <3>0, <3>6
    <3>3. t[2] = w[k + 1].text
      BY <2>5, <3>2 DEF AreTexts
    <3>4. k \in 1..(n - 1)
      BY <2>3, <3>2
    <3> QED BY <2>7, <3>1, <3>3, <3>4
  <2> QED BY <2>6, <2>8, <2>9 DEF AppliedPhrases
<1> QED BY <1>2, <1>3, OpenOrNothing

\* Mentions of one document, all at one place.
NamesOnly(m, i, at) ==
    IsList(m) /\ m # << >> /\ \A k \in DOMAIN m : m[k].doc = i /\ m[k].at = at

LEMMA OnlyOne ==
    ASSUME NEW m, NEW i, NEW at, NamesOnly(m, i, at), NEW pos
    PROVE  /\ NearestDoc(m, pos) = <<i>>
           /\ at <= pos => Preceding(m, pos) = <<i>>
           /\ \A L, amounts : Range(DateDocs(L, pos, amounts, m)) \subseteq {i}
<1>1. PICK n \in Nat : n = Len(m) /\ DOMAIN m = 1..n
  BY ListIs DEF NamesOnly
<1>2. \A k \in 1..n : m[k].doc = i /\ m[k].at = at
  BY <1>1 DEF NamesOnly
<1>3. n # 0
  <2> SUFFICES ASSUME n = 0 PROVE FALSE
    OBVIOUS
  <2>1. m \in Seq(Range(m)) /\ Len(m) = 0
    BY <1>1 DEF NamesOnly, IsList
  <2>2. m = << >>
    BY <2>1
  <2> QED BY <2>2 DEF NamesOnly
<1>4. \A x : <<x>> # << >>
  OBVIOUS
<1>5. PICK before : before = {k \in DOMAIN m : m[k].at <= pos}
  OBVIOUS
<1>6. before # {} => Preceding(m, pos) = <<i>>
  <2> SUFFICES ASSUME before # {} PROVE Preceding(m, pos) = <<i>>
    OBVIOUS
  <2>1. before \in SUBSET (1..n)
    BY <1>1, <1>5
  <2>2. Max(before) \in 1..n
    BY <2>1, MaxIn
  <2>3. Preceding(m, pos) = <<m[Max(before)].doc>>
    BY <1>5 DEF Preceding
  <2> QED BY <1>2, <2>2, <2>3
<1>7. at <= pos => Preceding(m, pos) = <<i>>
  <2>1. at <= pos => 1 \in before
    BY <1>1, <1>2, <1>3, <1>5
  <2> QED BY <1>6, <2>1
<1>8. before = {} => Preceding(m, pos) = << >> /\ Following(m, pos) = <<i>>
  <2> SUFFICES ASSUME before = {} PROVE Preceding(m, pos) = << >> /\ Following(m, pos) = <<i>>
    OBVIOUS
  <2>1. PICK after : after = {k \in DOMAIN m : ~(m[k].at <= pos)}
    OBVIOUS
  <2>2. after \in SUBSET (1..n) /\ 1 \in after
    BY <1>1, <1>3, <1>5, <2>1
  <2>3. Min(after) \in 1..n
    BY <2>2, MinIn
  <2>4. Following(m, pos) = <<m[Min(after)].doc>>
    BY <2>1, <2>2 DEF Following
  <2>5. Preceding(m, pos) = << >>
    BY <1>5 DEF Preceding
  <2> QED BY <1>2, <2>3, <2>4, <2>5
<1>9. NearestDoc(m, pos) = <<i>>
  BY <1>4, <1>6, <1>8 DEF NearestDoc
<1>10. ASSUME NEW L, NEW amounts
       PROVE  Range(DateDocs(L, pos, amounts, m)) \subseteq {i}
  <2>1. \A P : Range(DocsAt(m, P)) = {m[k].doc : k \in P \cap DOMAIN m}
    BY DocsAtAre DEF NamesOnly
  <2>2. \A P : Range(DocsAt(m, P)) \subseteq {i}
    BY <1>1, <1>2, <2>1
  <2>3. Range(<<i>>) = {i}
    BY DEF Range
  <2>4. \/ \E P : DateDocs(L, pos, amounts, m) = DocsAt(m, P)
        \/ DateDocs(L, pos, amounts, m) = NearestDoc(m, pos)
    BY DEF DateDocs
  <2> QED BY <1>9, <2>2, <2>3, <2>4
<1> QED BY <1>7, <1>9, <1>10

\* A sentence that speaks of one document and then gives a figure of it.
BoundAt(s, l, d, n, p, q) ==
    /\ Plain(s) /\ RefId(d) \in DocumentIds(l)
    /\ p \in DOMAIN s /\ q \in DOMAIN s /\ p < q
    /\ s[p] = Ref(d) /\ s[q] = Dollar(n)
    /\ \A k \in DOMAIN s : s[k].kind = "doc" <=> k = p
    /\ \A k \in DOMAIN s : s[k].kind = "amount" <=> k = q
    /\ \A k \in DOMAIN s : s[k].kind = "date" => s[k].num \in CarriedDates(RefId(d), l)

LEMMA TokenFields ==
    /\ \A d : /\ Ref(d).kind = "doc" /\ Ref(d).fam = d.fam /\ Ref(d).pad = d.pad
              /\ Ref(d).num = d.num /\ Ref(d).text = RefId(d)
    /\ \A n : /\ Dollar(n).kind = "amount" /\ Dollar(n).num = n /\ Dollar(n).form = "dollar"
              /\ Dollar(n).lead = Unresolved
    /\ \A n : /\ DateToken(n).kind = "date" /\ DateToken(n).num = n
              /\ DateToken(n).text = "yyyy-mm-dd"
    /\ \A w : Word(w).kind = "word" /\ Word(w).text = w
BY DEF Ref, DocToken, RefId, Dollar, DateToken, Word

LEMMA PlainNames ==
    ASSUME NEW s, Plain(s), NEW l
    PROVE  /\ IsSentence(s) /\ Measured(s) /\ IsSentence(LaidOut(s))
           /\ SameTokens(LaidOut(s), s) /\ DOMAIN LaidOut(s) = DOMAIN s
           /\ IsList(Mentions(LaidOut(s), l))
           /\ Range(Mentions(LaidOut(s), l))
                = UNION {Range(MentionAt(LaidOut(s), k, l)) : k \in {k \in DOMAIN s : s[k].kind = "doc"}}
<1>1. IsSentence(s) /\ Measured(s)
  BY DEF Plain
<1>2. PICK L : L = LaidOut(s)
  OBVIOUS
<1>3. IsSentence(L) /\ SameTokens(L, s) /\ DOMAIN L = DOMAIN s
  BY <1>1, <1>2, LaidOutSame DEF SameTokens
<1>4. /\ IsList(Mentions(L, l))
      /\ Range(Mentions(L, l)) = UNION {Range(MentionAt(L, k, l)) : k \in DOMAIN L}
  BY <1>3, FoundAtTokens
<1>5. ASSUME NEW k \in DOMAIN s, s[k].kind # "doc" PROVE Range(MentionAt(L, k, l)) = {}
  <2>1. MentionAt(L, k, l) = << >>
    BY <1>2, <1>5, PlainReads DEF ReadsPlain
  <2> QED BY <2>1 DEF Range
<1>6. UNION {Range(MentionAt(L, k, l)) : k \in DOMAIN L}
        = UNION {Range(MentionAt(L, k, l)) : k \in {k \in DOMAIN s : s[k].kind = "doc"}}
  BY <1>3, <1>5
<1> QED BY <1>1, <1>2, <1>3, <1>4, <1>6

LEMMA BoundMentions ==
    ASSUME NEW s, NEW l, NEW d, NEW n, NEW p, NEW q, BoundAt(s, l, d, n, p, q)
    PROVE  NamesOnly(Mentions(LaidOut(s), l), RefId(d), LaidOut(s)[p].at)
<1>1. PICK L : L = LaidOut(s)
  OBVIOUS
<1>2. PICK m : m = Mentions(L, l)
  OBVIOUS
<1>3. Plain(s) /\ p \in DOMAIN s /\ s[p] = Ref(d)
  BY DEF BoundAt
<1>4. SameTokens(L, s) /\ IsList(m)
  BY <1>1, <1>2, <1>3, PlainNames
<1>5. Range(m) = UNION {Range(MentionAt(L, k, l)) : k \in {k \in DOMAIN s : s[k].kind = "doc"}}
  BY <1>1, <1>2, <1>3, PlainNames
<1>6. {k \in DOMAIN s : s[k].kind = "doc"} = {p}
  BY DEF BoundAt
<1>7. s[p].kind = "doc"
  BY <1>3, TokenFields
<1>8. L[p].kind = "doc" /\ L[p].fam = d.fam /\ L[p].pad = d.pad /\ L[p].num = d.num
  BY <1>3, <1>4, <1>7, TokenFields DEF SameTokens
<1>9. DocId(L[p].fam, L[p].pad, L[p].num) = RefId(d) /\ RefId(d) \in DocumentIds(l)
  BY <1>8 DEF BoundAt, RefId
<1>10. PICK x : x = [at |-> L[p].at, fam |-> L[p].fam, doc |-> RefId(d)]
  OBVIOUS
<1>11. MentionAt(L, p, l) = <<x>>
  BY <1>8, <1>9, <1>10, ReferenceIsRead
<1>12. Range(m) = {x}
  <2>1. Range(<<x>>) = {x}
    BY DEF Range
  <2> QED BY <1>5, <1>6, <1>11, <2>1
<1>13. \A k \in DOMAIN m : m[k] = x
  BY <1>12 DEF Range
<1>14. m # << >>
  <2> SUFFICES ASSUME m = << >> PROVE FALSE
    OBVIOUS
  <2>1. Range(m) = {}
    BY DEF Range
  <2> QED BY <1>12, <2>1
<1>15. x.doc = RefId(d) /\ x.at = L[p].at
  BY <1>10
<1> QED BY <1>1, <1>2, <1>4, <1>13, <1>14, <1>15 DEF NamesOnly

\* Tokens stand in order, with no overlap.
LEMMA InReadingOrder ==
    ASSUME NEW s, IsSentence(s), Measured(s), NEW p \in DOMAIN s, NEW q \in DOMAIN s, p < q
    PROVE  LaidOut(s)[p].end <= LaidOut(s)[q].at /\ LaidOut(s)[p].at <= LaidOut(s)[q].at
<1>1. PICK n \in Nat : n = Len(s) /\ DOMAIN s = 1..n
  BY DEF IsSentence, IsList
<1>2. PICK L : L = LaidOut(s)
  OBVIOUS
<1>3. /\ \A k \in 1..n : L[k].at \in Nat /\ L[k].end \in Nat /\ L[k].end = L[k].at + Len(s[k].text)
      /\ \A k \in 1..n : k > 1 => L[k].at = L[k - 1].end + Gap(s, k)
  BY <1>1, <1>2, PlacesAre
<1>4. \A k \in 1..n : L[k].at <= L[k].end
  <2> TAKE k \in 1..n
  <2>1. PICK w : w = Len(s[k].text) /\ w \in Nat
    BY <1>1 DEF Measured
  <2> QED BY <1>3, <2>1
<1>5. \A k \in 1..n : k > 1 => L[k - 1].end <= L[k].at
  <2> TAKE k \in 1..n
  <2> SUFFICES ASSUME k > 1 PROVE L[k - 1].end <= L[k].at
    OBVIOUS
  <2>1. PICK g \in Nat : g = Gap(s, k)
    BY DEF Gap
  <2>2. k - 1 \in 1..n /\ L[k].at = L[k - 1].end + g
    BY <1>3, <2>1
  <2> QED BY <1>3, <2>1, <2>2
<1> DEFINE Good == {j \in Nat : p + 1 + j <= n => L[p].end <= L[p + 1 + j].at}
<1>6. 0 \in Good
  <2> SUFFICES ASSUME p + 1 <= n PROVE L[p].end <= L[p + 1 + 0].at
    BY <1>1
  <2>1. PICK k \in 1..n : k = p + 1
    BY <1>1
  <2>2. k > 1 /\ k - 1 = p /\ p + 1 + 0 = k
    BY <1>1, <2>1
  <2>3. L[k - 1].end <= L[k].at
    BY <1>5, <2>2
  <2> QED BY <2>2, <2>3
<1>7. ASSUME NEW j \in Nat, j \in Good PROVE j + 1 \in Good
  <2> SUFFICES ASSUME p + 1 + (j + 1) <= n PROVE L[p].end <= L[p + 1 + (j + 1)].at
    OBVIOUS
  <2>1. PICK k \in 1..n : k = p + 1 + (j + 1)
    BY <1>1
  <2>2. k - 1 \in 1..n /\ k - 1 = p + 1 + j /\ k > 1
    BY <1>1, <2>1
  <2>3. L[p].end <= L[k - 1].at
    BY <1>7, <2>2
  <2>4. L[k - 1].at <= L[k - 1].end /\ L[k - 1].end <= L[k].at
    BY <1>4, <1>5, <2>2
  <2>5. L[p].end \in Nat /\ L[k - 1].at \in Nat /\ L[k - 1].end \in Nat /\ L[k].at \in Nat
    BY <1>1, <1>3, <2>2
  <2> QED BY <2>1, <2>3, <2>4, <2>5
<1> HIDE DEF Good
<1>8. \A j \in Nat : j \in Good
  BY <1>6, <1>7, AllNaturals
<1>9. PICK j \in Nat : j = q - p - 1
  BY <1>1
<1>10. p + 1 + j = q /\ q <= n
  BY <1>1, <1>9
<1>11. L[p].end <= L[q].at
  BY <1>8, <1>10 DEF Good
<1>12. L[p].at \in Nat /\ L[p].end \in Nat /\ L[q].at \in Nat /\ L[p].at <= L[p].end
  BY <1>1, <1>3, <1>4
<1> QED BY <1>2, <1>11, <1>12

\* A claim that the records bear out whatever the figures say; a figure of one
\* document; and the balance.
Harmless(c, l) ==
    c.type \in {"C-EXIST", "C-DATE", "C-STATUS"} /\ CodeCheck(c, l).status = "pass"

OfDoc(c, i, n) ==
    /\ c.type = "C-AMT" /\ c.docs = <<i>> /\ c.num = n /\ c.preset = FALSE
    /\ c.role \in {"open", "unknown"}

OfBalance(c, n) ==
    /\ c.type = "C-SUM" /\ c.docs = << >> /\ c.num = n /\ c.preset = FALSE
    /\ "items" \notin c.span

LEMMA ExistHolds ==
    ASSUME NEW c, NEW l, c.type = "C-EXIST", ~c.preset, c.word \in DocumentIds(l)
    PROVE  Harmless(c, l)
<1>1. CodeCheck(c, l) = CheckExist(c, l)
  BY DEF CodeCheck
<1>2. CheckExist(c, l) = Result("pass", {c.word})
  BY DEF CheckExist
<1> QED BY <1>1, <1>2, Answered DEF Harmless

LEMMA DateHolds ==
    ASSUME NEW c, NEW l, c.type = "C-DATE", c.preset = FALSE, NEW i \in DocumentIds(l),
           c.num \in CarriedDates(i, l), c.num \in Nat, Range(c.docs) \subseteq {i}
    PROVE  Harmless(c, l)
<1>1. CodeCheck(c, l) = CheckDate(c, l)
  BY DEF CodeCheck
<1>2. PICK matches : matches = {d \in DocumentIds(l) : c.num \in CarriedDates(d, l)} /\ i \in matches
  OBVIOUS
<1>3. PICK bound : bound = DocsOf(c) \cap DocumentIds(l)
  OBVIOUS
<1>4. bound \subseteq {i}
  BY <1>3 DEF DocsOf, Range
<1>5. bound \subseteq matches /\ c.num # Unresolved
  BY <1>2, <1>4, UnresolvedAssumption
<1>6. CASE bound # {}
  <2>1. CheckDate(c, l) = Result("pass", bound)
    BY <1>2, <1>3, <1>5, <1>6 DEF CheckDate
  <2> QED BY <1>1, <2>1, Answered DEF Harmless
<1>7. CASE bound = {}
  <2>1. CheckDate(c, l) = Result("pass", matches \cup (IF c.num = l.asOf THEN {"AS_OF"} ELSE {}))
    BY <1>2, <1>3, <1>5, <1>7 DEF CheckDate
  <2> QED BY <1>1, <2>1, Answered DEF Harmless
<1> QED BY <1>6, <1>7

LEMMA StatusHolds ==
    ASSUME NEW c, NEW l, c.type = "C-STATUS", c.preset = FALSE, NEW i \in InvoiceIds(l),
           c.docs = <<i>>, c.word \in StatusCompat(InvoiceStatus(l, i))
    PROVE  Harmless(c, l)
<1>1. CodeCheck(c, l) = CheckStatusWord(c, l)
  BY DEF CodeCheck
<1>2. Len(c.docs) = 1 /\ c.docs[1] = i /\ DocsOf(c) = {i}
  BY DEF DocsOf
<1>3. DocsOf(c) \cap InvoiceIds(l) # {}
  BY <1>2
<1>4. CheckStatusWord(c, l) = Result("pass", DocsOf(c))
  BY <1>2, <1>3 DEF CheckStatusWord
<1> QED BY <1>1, <1>4, Answered DEF Harmless

\* The statuses of a sentence are true of a document, and the window of its
\* figure has nothing else to say of it.
StatusesHold(s, l, d) ==
    \A h \in StatusesIn(LaidOut(s)) :
        RefId(d) \in InvoiceIds(l) /\ h.word \in StatusCompat(InvoiceStatus(l, RefId(d)))

WindowIsOpen(s, q) ==
    LET L == LaidOut(s)
        a == SpanAt(L, q)
        w == Window(L, a, Amounts(L))
    IN  ~ExplicitTotal(w, a) /\ RoleOf(w, a) \in {"open", "unknown"}

\* Such a sentence makes the claim of the figure, and others that hold.
LEMMA BoundSaid ==
    ASSUME NEW s, NEW l, LedgerRecord(l), NEW d, NEW n, NEW p, NEW q, BoundAt(s, l, d, n, p, q),
           StatusesHold(s, l, d), WindowIsOpen(s, q),
           NEW j \in DOMAIN s, NEW x, SaidAt(x, Reading(s, l), j, l)
    PROVE  Harmless(x.claim, l) \/ (j = q /\ OfDoc(x.claim, RefId(d), n))
<1>1. PICK L : L = LaidOut(s)
  OBVIOUS
<1>2. PICK m : m = Mentions(L, l)
  OBVIOUS
<1>3. PICK i : i = RefId(d)
  OBVIOUS
<1>4. /\ Plain(s) /\ i \in DocumentIds(l) /\ p \in DOMAIN s /\ q \in DOMAIN s /\ p < q
      /\ s[q] = Dollar(n)
      /\ \A k \in DOMAIN s : s[k].kind = "doc" <=> k = p
      /\ \A k \in DOMAIN s : s[k].kind = "amount" <=> k = q
      /\ \A k \in DOMAIN s : s[k].kind = "date" => s[k].num \in CarriedDates(i, l)
  BY <1>3 DEF BoundAt
<1>5. /\ IsSentence(s) /\ Measured(s) /\ IsSentence(L) /\ SameTokens(L, s) /\ DOMAIN L = DOMAIN s
  BY <1>1, <1>4, PlainNames
<1>6. PICK r : r = Reading(s, l)
  OBVIOUS
<1>7. r.s = L /\ r.amounts = Amounts(L) /\ r.mentions = m /\ r.statuses = StatusesIn(L)
  BY <1>1, <1>2, <1>5, <1>6, ReadingIs
<1>8. ReadsPlain(L, s, l)
  BY <1>1, <1>4, PlainReads
<1>9. r.fuzzy = {}
  <2>1. Matches(L, FuzzyPhrases) = {}
    BY <1>8 DEF ReadsPlain
  <2>2. r.fuzzy = {y.at : y \in Matches(L, FuzzyPhrases)}
    BY <1>1, <1>6 DEF Reading
  <2> QED BY <2>1, <2>2
<1>10. NamesOnly(m, i, L[p].at)
  BY <1>1, <1>2, <1>3, BoundMentions
<1>11. SaidAt(x, r, j, l)
  BY <1>6
<1>12. CASE /\ x.claim.type = "C-EXIST" /\ ~x.claim.preset
            /\ \E y \in Range(MentionAt(r.s, j, l)) : x.claim.word = y.doc
  <2>1. PICK y \in Range(MentionAt(L, j, l)) : x.claim.word = y.doc
    BY <1>7, <1>12
  <2>2. Range(m) = UNION {Range(MentionAt(L, k, l)) : k \in DOMAIN L}
    BY <1>2, <1>5, FoundAtTokens
  <2>3. y \in Range(m)
    BY <1>5, <2>2
  <2>4. y.doc = i
    BY <1>10, <2>3 DEF NamesOnly, Range
  <2> QED BY <1>4, <1>12, <2>1, <2>4, ExistHolds
<1>13. CASE \E a \in Range(AmountAt(r.s, j)) :
              x = AmountCandidate(r, a, ClassifyAmount(r.s, a, r.amounts, r.mentions))
  <2>1. PICK a \in Range(AmountAt(L, j)) :
           x = AmountCandidate(r, a, ClassifyAmount(L, a, Amounts(L), m))
    BY <1>7, <1>13
  <2>2. j = q
    <3> SUFFICES ASSUME j # q PROVE FALSE
      OBVIOUS
    <3>1. AmountAt(L, j) = << >>
      BY <1>4, <1>8 DEF ReadsPlain
    <3> QED BY <2>1, <3>1 DEF Range
  <2>3. a = SpanAt(L, q)
    <3>1. AmountAt(L, q) = <<SpanAt(L, q)>>
      BY <1>4, <1>8 DEF ReadsPlain
    <3> QED BY <2>1, <2>2, <3>1 DEF Range
  <2>4. a.at = L[q].at /\ a.num = n /\ a.preset = FALSE
    <3>1. L[q].num = n
      BY <1>4, <1>5, TokenFields DEF SameTokens
    <3> QED BY <2>3, <3>1 DEF SpanAt, Span
  <2>5. L[p].at <= a.at
    BY <1>1, <1>4, <1>5, <2>4, InReadingOrder
  <2>6. Preceding(m, a.at) = <<i>> /\ <<i>> # << >>
    BY <1>10, <2>5, OnlyOne
  <2>7. PICK w : w = Window(L, a, Amounts(L))
    OBVIOUS
  <2>8. ~ExplicitTotal(w, a) /\ RoleOf(w, a) \in {"open", "unknown"}
    BY <1>1, <2>3, <2>7 DEF WindowIsOpen
  <2>9. ClassifyAmount(L, a, Amounts(L), m) = Class("C-AMT", <<i>>, RoleOf(w, a))
    BY <2>6, <2>7, <2>8 DEF ClassifyAmount
  <2>10. PICK class : class = Class("C-AMT", <<i>>, RoleOf(w, a))
    OBVIOUS
  <2>11. class.type = "C-AMT" /\ class.docs = <<i>> /\ class.role \in {"open", "unknown"}
    BY <2>8, <2>10 DEF Class
  <2>12. x = AmountCandidate(r, a, class)
    BY <2>1, <2>9, <2>10
  <2>13. OfDoc(x.claim, i, n)
    BY <2>4, <2>11, <2>12, AmountClaim DEF OfDoc
  <2> QED BY <1>3, <2>2, <2>13
<1>14. CASE /\ IsDate(r.s, j)
            /\ x = Candidate(r, "C-DATE", r.s[j].num, "", r.s[j].num,
                     DateDocs(r.s, r.s[j].at, r.amounts, r.mentions), "unknown", FALSE)
  <2>1. s[j].kind = "date"
    BY <1>7, <1>8, <1>14 DEF ReadsPlain
  <2>2. L[j].num = s[j].num /\ s[j].num \in CarriedDates(i, l)
    BY <1>4, <1>5, <2>1 DEF SameTokens
  <2>3. PICK docs : docs = DateDocs(L, L[j].at, r.amounts, m)
    OBVIOUS
  <2>4. Range(docs) \subseteq {i}
    BY <1>10, <2>3, OnlyOne
  <2>5. PICK c : c = x.claim
    OBVIOUS
  <2>6. c = Candidate(r, "C-DATE", r.s[j].num, "", r.s[j].num, docs, "unknown", FALSE).claim
    BY <1>7, <1>14, <2>3, <2>5
  <2>7. c.type = "C-DATE" /\ c.num = s[j].num /\ c.docs = docs /\ c.preset = FALSE
    BY <1>7, <2>2, <2>6 DEF Candidate
  <2>8. \A y \in CarriedDates(i, l) : y \in Nat
    BY <1>4 DEF CarriedDates, LedgerRecord, SourceDoc, DocumentIds, SourceIds
  <2> QED BY <1>4, <2>2, <2>4, <2>5, <2>7, <2>8, DateHolds
<1>15. CASE \E word \in StatedAt(r, j) :
              x = Candidate(r, "C-STATUS", word, word, 0, NearestDoc(r.mentions, r.s[j].at),
                            "unknown", FALSE)
  <2>1. PICK word \in StatedAt(r, j) :
              x = Candidate(r, "C-STATUS", word, word, 0, NearestDoc(r.mentions, r.s[j].at),
                            "unknown", FALSE)
    BY <1>15
  <2>2. PICK h \in StatusesIn(L) : h.word = word
    BY <1>7, <2>1 DEF StatedAt
  <2>3. i \in InvoiceIds(l) /\ word \in StatusCompat(InvoiceStatus(l, i))
    BY <1>1, <1>3, <2>2 DEF StatusesHold
  <2>4. NearestDoc(r.mentions, r.s[j].at) = <<i>>
    BY <1>7, <1>10, OnlyOne
  <2>5. PICK c : c = x.claim
    OBVIOUS
  <2>6. c = Candidate(r, "C-STATUS", word, word, 0, <<i>>, "unknown", FALSE).claim
    BY <2>1, <2>4, <2>5
  <2>7. c.type = "C-STATUS" /\ c.word = word /\ c.docs = <<i>> /\ c.preset = FALSE
    BY <2>6 DEF Candidate
  <2> QED BY <2>3, <2>5, <2>7, StatusHolds
<1> QED BY <1>9, <1>11, <1>12, <1>13, <1>14, <1>15 DEF SaidAt

\* A sentence that names no document: it may date the account or give a balance.
UnboundAt(s, l, n, q) ==
    /\ Plain(s)
    /\ \A k \in DOMAIN s : s[k].kind # "doc"
    /\ \A k \in DOMAIN s : s[k].kind = "amount" => k = q /\ s[k] = Dollar(n)
    /\ \A k \in DOMAIN s : s[k].kind = "date" => s[k].num = l.asOf

\* Its figure is said to be a balance, and not one of invoices.
SaysBalance(s, q) ==
    LET L == LaidOut(s)
    IN  /\ Says(Window(L, SpanAt(L, q), Amounts(L)), SumPhrases)
        /\ ~Says(L, SubtotalCues)

LEMMA NothingNear ==
    /\ \A pos : /\ Preceding(<< >>, pos) = << >> /\ Following(<< >>, pos) = << >>
                /\ NearestDoc(<< >>, pos) = << >>
    /\ \A L, pos, amounts : DateDocs(L, pos, amounts, << >>) = << >>
    /\ \A L : SubtotalDocs(L, << >>) = << >>
<1>1. DOMAIN << >> = {}
  OBVIOUS
<1>2. \A pos : /\ Preceding(<< >>, pos) = << >> /\ Following(<< >>, pos) = << >>
               /\ NearestDoc(<< >>, pos) = << >>
  BY <1>1 DEF Preceding, Following, NearestDoc
<1>3. \A L, pos, amounts : DateDocs(L, pos, amounts, << >>) = << >>
  BY <1>1, <1>2 DEF DateDocs
<1>4. ASSUME NEW P PROVE Len(DocsAt(<< >>, P)) = 0
  <2>0. IsList(<< >>)
    BY ShortIsList DEF AtMostOne
  <2>1. PICK f : f = DocsAt(<< >>, P)
    OBVIOUS
  <2>2. IsList(f) /\ Range(f) = {}
    BY <1>1, <2>0, <2>1, DocsAtAre
  <2>3. PICK n \in Nat : n = Len(f) /\ DOMAIN f = 1..n
    BY <2>2, ListIs
  <2>4. n = 0
    <3> SUFFICES ASSUME n # 0 PROVE FALSE
      OBVIOUS
    <3>1. 1 \in DOMAIN f
      BY <2>3
    <3> QED BY <2>2, <3>1 DEF Range
  <2> QED BY <2>1, <2>3, <2>4
<1>5. \A L : SubtotalDocs(L, << >>) = << >>
  <2> TAKE L
  <2>1. PICK P : P = {k \in DOMAIN << >> : << >>[k].fam = "INV"}
    OBVIOUS
  <2>2. ~(Len(DocsAt(<< >>, P)) >= 2)
    BY <1>4
  <2> QED BY <2>1, <2>2 DEF SubtotalDocs
<1> QED BY <1>2, <1>3, <1>5

LEMMA AsOfHolds ==
    ASSUME NEW c, NEW l, l.asOf \in Nat, c.type = "C-DATE", c.preset = FALSE,
           c.num = l.asOf, c.docs = << >>
    PROVE  Harmless(c, l)
<1>1. CodeCheck(c, l) = CheckDate(c, l)
  BY DEF CodeCheck
<1>2. DocsOf(c) \cap DocumentIds(l) = {} /\ c.num # Unresolved
  BY UnresolvedAssumption DEF DocsOf
<1>3. PICK matches : matches = {d \in DocumentIds(l) : c.num \in CarriedDates(d, l)}
  OBVIOUS
<1>4. CheckDate(c, l) = Result("pass", matches \cup {"AS_OF"})
  BY <1>2, <1>3 DEF CheckDate
<1> QED BY <1>1, <1>4, Answered DEF Harmless

LEMMA UnboundSaid ==
    ASSUME NEW s, NEW l, LedgerRecord(l), NEW n, NEW q, UnboundAt(s, l, n, q),
           q \in DOMAIN s => SaysBalance(s, q),
           NEW j \in DOMAIN s, NEW x, SaidAt(x, Reading(s, l), j, l)
    PROVE  Harmless(x.claim, l) \/ (j = q /\ OfBalance(x.claim, n))
<1>1. PICK L : L = LaidOut(s)
  OBVIOUS
<1>2. PICK m : m = Mentions(L, l)
  OBVIOUS
<1>4. /\ Plain(s)
      /\ \A k \in DOMAIN s : s[k].kind # "doc"
      /\ \A k \in DOMAIN s : s[k].kind = "amount" => k = q /\ s[k] = Dollar(n)
      /\ \A k \in DOMAIN s : s[k].kind = "date" => s[k].num = l.asOf
  BY DEF UnboundAt
<1>5. /\ IsSentence(s) /\ Measured(s) /\ IsSentence(L) /\ SameTokens(L, s) /\ DOMAIN L = DOMAIN s
      /\ IsList(m) /\ Range(m) = {}
  <2>1. {k \in DOMAIN s : s[k].kind = "doc"} = {}
    BY <1>4
  <2> QED BY <1>1, <1>2, <1>4, <2>1, PlainNames
<1>6. PICK r : r = Reading(s, l)
  OBVIOUS
<1>7. r.s = L /\ r.amounts = Amounts(L) /\ r.mentions = m /\ r.cues = SpanCuesOf(L)
  BY <1>1, <1>2, <1>5, <1>6, ReadingIs
<1>8. ReadsPlain(L, s, l)
  BY <1>1, <1>4, PlainReads
<1>9. r.fuzzy = {}
  <2>1. Matches(L, FuzzyPhrases) = {}
    BY <1>8 DEF ReadsPlain
  <2>2. r.fuzzy = {y.at : y \in Matches(L, FuzzyPhrases)}
    BY <1>1, <1>6 DEF Reading
  <2> QED BY <2>1, <2>2
<1>10. m = << >>
  <2>1. PICK k \in Nat : k = Len(m) /\ DOMAIN m = 1..k
    BY <1>5, ListIs
  <2>2. k = 0
    <3> SUFFICES ASSUME k # 0 PROVE FALSE
      OBVIOUS
    <3>1. 1 \in DOMAIN m
      BY <2>1
    <3> QED BY <1>5, <3>1 DEF Range
  <2>3. m \in Seq(Range(m)) /\ Len(m) = 0
    BY <1>5, <2>1, <2>2 DEF IsList
  <2> QED BY <2>3
<1>11. SaidAt(x, r, j, l)
  BY <1>6
<1>12. CASE \E y \in Range(MentionAt(r.s, j, l)) : x.claim.word = y.doc
  <2>1. MentionAt(L, j, l) = << >>
    BY <1>4, <1>8 DEF ReadsPlain
  <2> QED BY <1>7, <1>12, <2>1 DEF Range
<1>13. CASE \E a \in Range(AmountAt(r.s, j)) :
              x = AmountCandidate(r, a, ClassifyAmount(r.s, a, r.amounts, r.mentions))
  <2>1. PICK a \in Range(AmountAt(L, j)) :
           x = AmountCandidate(r, a, ClassifyAmount(L, a, Amounts(L), << >>))
    BY <1>7, <1>10, <1>13
  <2>2. j = q /\ s[q] = Dollar(n)
    <3>1. s[j].kind # "amount" => AmountAt(L, j) = << >>
      BY <1>8 DEF ReadsPlain
    <3>2. s[j].kind = "amount"
      BY <2>1, <3>1 DEF Range
    <3> QED BY <1>4, <3>2
  <2>3. s[q].kind = "amount"
    BY <2>2, TokenFields
  <2>4. a = SpanAt(L, q)
    <3>1. AmountAt(L, q) = <<SpanAt(L, q)>>
      BY <1>8, <2>2, <2>3 DEF ReadsPlain
    <3> QED BY <2>1, <2>2, <3>1 DEF Range
  <2>5. a.num = n /\ a.preset = FALSE
    <3>1. L[q].num = n
      BY <1>5, <2>2, <2>3, TokenFields DEF SameTokens
    <3> QED BY <2>4, <3>1 DEF SpanAt, Span
  <2>6. SaysBalance(s, q)
    BY <2>2
  <2>7. PICK w : w = Window(L, a, Amounts(L))
    OBVIOUS
  <2>8. Says(w, SumPhrases) /\ ~Says(L, SubtotalCues)
    BY <1>1, <2>4, <2>6, <2>7 DEF SaysBalance
  <2>9. SumContext(w, a)
    BY <2>8 DEF SumContext
  <2>10. ClassifyAmount(L, a, Amounts(L), << >>) = Class("C-SUM", << >>, "total")
    BY <2>7, <2>9, NothingNear DEF ClassifyAmount
  <2>11. PICK class : class = Class("C-SUM", << >>, "total")
    OBVIOUS
  <2>12. class.type = "C-SUM" /\ class.docs = << >>
    BY <2>11 DEF Class
  <2>13. x = AmountCandidate(r, a, class)
    BY <2>1, <2>10, <2>11
  <2>14. "items" \notin r.cues
    BY <1>7, <2>8 DEF SpanCuesOf
  <2>15. OfBalance(x.claim, n)
    BY <2>5, <2>12, <2>13, <2>14, AmountClaim DEF OfBalance
  <2> QED BY <2>2, <2>15
<1>14. CASE /\ IsDate(r.s, j)
            /\ x = Candidate(r, "C-DATE", r.s[j].num, "", r.s[j].num,
                     DateDocs(r.s, r.s[j].at, r.amounts, r.mentions), "unknown", FALSE)
  <2>1. s[j].kind = "date"
    BY <1>7, <1>8, <1>14 DEF ReadsPlain
  <2>2. L[j].num = l.asOf
    BY <1>4, <1>5, <2>1 DEF SameTokens
  <2>3. DateDocs(r.s, r.s[j].at, r.amounts, r.mentions) = << >>
    BY <1>7, <1>10, NothingNear
  <2>4. PICK c : c = x.claim
    OBVIOUS
  <2>5. c = Candidate(r, "C-DATE", r.s[j].num, "", r.s[j].num, << >>, "unknown", FALSE).claim
    BY <1>14, <2>3, <2>4
  <2>6. c.type = "C-DATE" /\ c.num = l.asOf /\ c.docs = << >> /\ c.preset = FALSE
    BY <1>7, <2>2, <2>5 DEF Candidate
  <2> QED BY <2>4, <2>6, AsOfHolds DEF LedgerRecord
<1>15. CASE \E word \in StatedAt(r, j) :
              x = Candidate(r, "C-STATUS", word, word, 0, NearestDoc(r.mentions, r.s[j].at),
                            "unknown", FALSE)
  <2>1. StatedAt(r, j) = {}
    BY <1>7, <1>10 DEF StatedAt
  <2> QED BY <1>15, <2>1
<1> QED BY <1>9, <1>11, <1>12, <1>13, <1>14, <1>15 DEF SaidAt

-----------------------------------------------------------------------------
(***************************************************************************)
(* The sentences of the golden draft, token by token                       *)
(***************************************************************************)
\* The sentences that carry a figure, whatever the figure.
BalanceText(n) ==
    Words(<<"the", "balance", "due", "on", "your", "account", "is">>) \o <<Dollar(n)>>

InvoiceText(d, l, n) ==
    <<Word("-"), Ref(d), Word("dated"), DateToken(l.invoices[RefId(d)].date),
      Word(","), Word("due"), DateToken(l.invoices[RefId(d)].due), Word(":"),
      Dollar(n), Word(InvoiceStatus(l, RefId(d)))>>

PaymentText(d, n) ==
    Words(<<"we", "have", "received", "your", "payment">>)
      \o <<Ref(d), Word("of"), Dollar(n)>>
      \o Words(<<",", "which", "has", "not", "yet", "been", "applied", "to",
                 "a", "specific", "invoice">>)

CreditText(d, n) ==
    Words(<<"an", "open", "credit", "memo">>)
      \o <<Ref(d), Word("of"), Dollar(n)>>
      \o Words(<<"is", "also", "reflected", "in", "the", "balance", "above">>)

BalanceShape(s, n) ==
    /\ DOMAIN s = 1..8 /\ Len(s) = 8
    /\ s[1] = Word("the") /\ s[2] = Word("balance") /\ s[3] = Word("due") /\ s[4] = Word("on")
    /\ s[5] = Word("your") /\ s[6] = Word("account") /\ s[7] = Word("is") /\ s[8] = Dollar(n)

InvoiceShape(s, d, l, n) ==
    /\ DOMAIN s = 1..10 /\ Len(s) = 10
    /\ s[1] = Word("-") /\ s[2] = Ref(d) /\ s[3] = Word("dated")
    /\ s[4] = DateToken(l.invoices[RefId(d)].date) /\ s[5] = Word(",") /\ s[6] = Word("due")
    /\ s[7] = DateToken(l.invoices[RefId(d)].due) /\ s[8] = Word(":") /\ s[9] = Dollar(n)
    /\ s[10] = Word(InvoiceStatus(l, RefId(d)))

PaymentShape(s, d, n) ==
    /\ DOMAIN s = 1..19 /\ Len(s) = 19
    /\ s[1] = Word("we") /\ s[2] = Word("have") /\ s[3] = Word("received")
    /\ s[4] = Word("your") /\ s[5] = Word("payment") /\ s[6] = Ref(d) /\ s[7] = Word("of")
    /\ s[8] = Dollar(n) /\ s[9] = Word(",") /\ s[10] = Word("which") /\ s[11] = Word("has")
    /\ s[12] = Word("not") /\ s[13] = Word("yet") /\ s[14] = Word("been")
    /\ s[15] = Word("applied") /\ s[16] = Word("to") /\ s[17] = Word("a")
    /\ s[18] = Word("specific") /\ s[19] = Word("invoice")

CreditShape(s, d, n) ==
    /\ DOMAIN s = 1..14 /\ Len(s) = 14
    /\ s[1] = Word("an") /\ s[2] = Word("open") /\ s[3] = Word("credit") /\ s[4] = Word("memo")
    /\ s[5] = Ref(d) /\ s[6] = Word("of") /\ s[7] = Dollar(n) /\ s[8] = Word("is")
    /\ s[9] = Word("also") /\ s[10] = Word("reflected") /\ s[11] = Word("in")
    /\ s[12] = Word("the") /\ s[13] = Word("balance") /\ s[14] = Word("above")

\* One sequence after another.
JoinedAs(c, a, b, m, n) ==
    /\ IsList(c) /\ DOMAIN c = 1..(m + n) /\ Len(c) = m + n
    /\ \A k \in 1..m : c[k] = a[k]
    /\ \A k \in 1..n : c[m + k] = b[k]

LEMMA TwoParts ==
    ASSUME NEW a, NEW b, IsList(a), IsList(b), NEW m \in Nat, NEW n \in Nat,
           Len(a) = m, Len(b) = n
    PROVE  JoinedAs(a \o b, a, b, m, n)
<1>1. PICK S : S = Range(a) \cup Range(b)
  OBVIOUS
<1>2. a \in Seq(S) /\ b \in Seq(S)
  BY <1>1, SeqOver DEF IsList
<1>3. PICK c : c = a \o b
  OBVIOUS
<1>4. c \in Seq(S) /\ Len(c) = m + n /\ DOMAIN c = 1..(m + n)
  BY <1>2, <1>3
<1>5. /\ \A k \in 1..m : c[k] = a[k]
      /\ \A k \in 1..n : c[m + k] = b[k]
  BY <1>2, <1>3
<1>6. IsList(c)
  BY <1>3, RangeOfTwo DEF IsList
<1> QED BY <1>3, <1>4, <1>5, <1>6 DEF JoinedAs

\* A sequence of words.
WordsAt(s, ws, n) ==
    IsList(s) /\ DOMAIN s = 1..n /\ Len(s) = n /\ \A k \in 1..n : s[k] = Word(ws[k])

LEMMA WordsShape ==
    ASSUME NEW ws, NEW n \in Nat, DOMAIN ws = 1..n
    PROVE  WordsAt(Words(ws), ws, n)
<1>1. PICK s : s = Words(ws)
  OBVIOUS
<1>2. s = [k \in 1..n |-> Word(ws[k])]
  BY <1>1 DEF Words
<1>3. s = [k \in 1..n |-> s[k]] /\ \A k \in 1..n : s[k] = Word(ws[k])
  BY <1>2
<1>4. Len(s) = n /\ Listed(s) = s /\ s \in Seq(Range(s))
  BY <1>3, ListedIs
<1>5. DOMAIN s = 1..n
  BY <1>2
<1> QED BY <1>1, <1>3, <1>4, <1>5 DEF WordsAt, IsList

LEMMA BalanceShaped == ASSUME NEW n PROVE BalanceShape(BalanceText(n), n)
<1>1. PICK ws : ws = <<"the", "balance", "due", "on", "your", "account", "is">>
  OBVIOUS
<1>2. PICK a : a = Words(ws)
  OBVIOUS
<1>3. WordsAt(a, ws, 7)
  <2>1. DOMAIN ws = 1..7
    BY <1>1
  <2> QED BY <1>2, <2>1, WordsShape
<1>4. PICK b : b = <<Dollar(n)>>
  OBVIOUS
<1>5. IsList(b) /\ Len(b) = 1 /\ b[1] = Dollar(n)
  BY <1>4, ShortIsList DEF AtMostOne
<1>6. PICK s : s = BalanceText(n)
  OBVIOUS
<1>7. JoinedAs(s, a, b, 7, 1)
  <2>1. s = a \o b
    BY <1>1, <1>2, <1>4, <1>6 DEF BalanceText
  <2> QED BY <1>3, <1>5, <2>1, TwoParts DEF WordsAt
<1>8. DOMAIN s = 1..8 /\ Len(s) = 8
  BY <1>7 DEF JoinedAs
<1>9. /\ a[1] = Word("the") /\ a[2] = Word("balance") /\ a[3] = Word("due") /\ a[4] = Word("on")
      /\ a[5] = Word("your") /\ a[6] = Word("account") /\ a[7] = Word("is")
  BY <1>1, <1>3 DEF WordsAt
<1>10. /\ s[1] = a[1] /\ s[2] = a[2] /\ s[3] = a[3] /\ s[4] = a[4] /\ s[5] = a[5]
       /\ s[6] = a[6] /\ s[7] = a[7] /\ s[7 + 1] = b[1]
  BY <1>7 DEF JoinedAs
<1>11. s[8] = Dollar(n)
  BY <1>5, <1>10
<1> QED BY <1>6, <1>8, <1>9, <1>10, <1>11 DEF BalanceShape

LEMMA InvoiceShaped == ASSUME NEW d, NEW l, NEW n PROVE InvoiceShape(InvoiceText(d, l, n), d, l, n)
BY DEF InvoiceShape, InvoiceText

LEMMA FigureOf ==
    ASSUME NEW d, NEW n, NEW b, b = <<Ref(d), Word("of"), Dollar(n)>>
    PROVE  /\ IsList(b) /\ Len(b) = 3
           /\ b[1] = Ref(d) /\ b[2] = Word("of") /\ b[3] = Dollar(n)
BY AmountOf DEF IsSentence

LEMMA PaymentShaped == ASSUME NEW d, NEW n PROVE PaymentShape(PaymentText(d, n), d, n)
<1>1. PICK us : us = <<"we", "have", "received", "your", "payment">>
  OBVIOUS
<1>2. PICK vs : vs = <<",", "which", "has", "not", "yet", "been", "applied", "to",
                       "a", "specific", "invoice">>
  OBVIOUS
<1>3. PICK a : a = Words(us)
  OBVIOUS
<1>4. PICK b : b = <<Ref(d), Word("of"), Dollar(n)>>
  OBVIOUS
<1>5. PICK c : c = Words(vs)
  OBVIOUS
<1>6. WordsAt(a, us, 5)
  <2>1. DOMAIN us = 1..5
    BY <1>1
  <2> QED BY <1>3, <2>1, WordsShape
<1>7. WordsAt(c, vs, 11)
  <2>0. DOMAIN <<",", "which", "has", "not", "yet", "been", "applied", "to",
                 "a", "specific", "invoice">> = 1..11
    OBVIOUS
  <2>1. DOMAIN vs = 1..11
    BY <1>2, <2>0
  <2> QED BY <1>5, <2>1, WordsShape
<1>8. PICK t : t = a \o b
  OBVIOUS
<1>9. JoinedAs(t, a, b, 5, 3)
  BY <1>4, <1>6, <1>8, FigureOf, TwoParts DEF WordsAt
<1>10. PICK s : s = PaymentText(d, n)
  OBVIOUS
<1>11. s = t \o c
  BY <1>1, <1>2, <1>3, <1>4, <1>5, <1>8, <1>10 DEF PaymentText
<1>12. IsList(t) /\ Len(t) = 8
  BY <1>9 DEF JoinedAs
<1>13. JoinedAs(s, t, c, 8, 11)
  BY <1>7, <1>11, <1>12, TwoParts DEF WordsAt
<1>14. DOMAIN s = 1..19 /\ Len(s) = 19
  BY <1>13 DEF JoinedAs
<1>15. /\ t[1] = Word("we") /\ t[2] = Word("have") /\ t[3] = Word("received")
       /\ t[4] = Word("your") /\ t[5] = Word("payment")
  <2>1. /\ t[1] = a[1] /\ t[2] = a[2] /\ t[3] = a[3] /\ t[4] = a[4] /\ t[5] = a[5]
    BY <1>9 DEF JoinedAs
  <2> QED BY <1>1, <1>6, <2>1 DEF WordsAt
<1>16. t[6] = Ref(d) /\ t[7] = Word("of") /\ t[8] = Dollar(n)
  <2>1. t[5 + 1] = b[1] /\ t[5 + 2] = b[2] /\ t[5 + 3] = b[3]
    BY <1>9 DEF JoinedAs
  <2> QED BY <1>4, <2>1, FigureOf
<1>17. /\ s[1] = t[1] /\ s[2] = t[2] /\ s[3] = t[3] /\ s[4] = t[4] /\ s[5] = t[5]
       /\ s[6] = t[6] /\ s[7] = t[7] /\ s[8] = t[8]
  BY <1>13 DEF JoinedAs
<1>18. /\ s[9] = c[1] /\ s[10] = c[2] /\ s[11] = c[3] /\ s[12] = c[4] /\ s[13] = c[5]
       /\ s[14] = c[6] /\ s[15] = c[7] /\ s[16] = c[8] /\ s[17] = c[9] /\ s[18] = c[10]
       /\ s[19] = c[11]
  <2>1. /\ s[8 + 1] = c[1] /\ s[8 + 2] = c[2] /\ s[8 + 3] = c[3] /\ s[8 + 4] = c[4]
        /\ s[8 + 5] = c[5] /\ s[8 + 6] = c[6] /\ s[8 + 7] = c[7] /\ s[8 + 8] = c[8]
        /\ s[8 + 9] = c[9] /\ s[8 + 10] = c[10] /\ s[8 + 11] = c[11]
    BY <1>13 DEF JoinedAs
  <2> QED BY <2>1
<1>19. /\ c[1] = Word(",") /\ c[2] = Word("which") /\ c[3] = Word("has") /\ c[4] = Word("not")
       /\ c[5] = Word("yet") /\ c[6] = Word("been") /\ c[7] = Word("applied")
       /\ c[8] = Word("to") /\ c[9] = Word("a") /\ c[10] = Word("specific")
       /\ c[11] = Word("invoice")
  <2>1. /\ vs[1] = "," /\ vs[2] = "which" /\ vs[3] = "has" /\ vs[4] = "not" /\ vs[5] = "yet"
        /\ vs[6] = "been" /\ vs[7] = "applied" /\ vs[8] = "to" /\ vs[9] = "a"
        /\ vs[10] = "specific" /\ vs[11] = "invoice"
    BY <1>2
  <2>2. /\ c[1] = Word(vs[1]) /\ c[2] = Word(vs[2]) /\ c[3] = Word(vs[3])
        /\ c[4] = Word(vs[4]) /\ c[5] = Word(vs[5]) /\ c[6] = Word(vs[6])
        /\ c[7] = Word(vs[7]) /\ c[8] = Word(vs[8]) /\ c[9] = Word(vs[9])
        /\ c[10] = Word(vs[10]) /\ c[11] = Word(vs[11])
    BY <1>7 DEF WordsAt
  <2> QED BY <2>1, <2>2
<1> QED BY <1>10, <1>14, <1>15, <1>16, <1>17, <1>18, <1>19 DEF PaymentShape

LEMMA CreditShaped == ASSUME NEW d, NEW n PROVE CreditShape(CreditText(d, n), d, n)
<1>1. PICK us : us = <<"an", "open", "credit", "memo">>
  OBVIOUS
<1>2. PICK vs : vs = <<"is", "also", "reflected", "in", "the", "balance", "above">>
  OBVIOUS
<1>3. PICK a : a = Words(us)
  OBVIOUS
<1>4. PICK b : b = <<Ref(d), Word("of"), Dollar(n)>>
  OBVIOUS
<1>5. PICK c : c = Words(vs)
  OBVIOUS
<1>6. WordsAt(a, us, 4)
  <2>1. DOMAIN us = 1..4
    BY <1>1
  <2> QED BY <1>3, <2>1, WordsShape
<1>7. WordsAt(c, vs, 7)
  <2>1. DOMAIN vs = 1..7
    BY <1>2
  <2> QED BY <1>5, <2>1, WordsShape
<1>8. PICK t : t = a \o b
  OBVIOUS
<1>9. JoinedAs(t, a, b, 4, 3)
  BY <1>4, <1>6, <1>8, FigureOf, TwoParts DEF WordsAt
<1>10. PICK s : s = CreditText(d, n)
  OBVIOUS
<1>11. s = t \o c
  BY <1>1, <1>2, <1>3, <1>4, <1>5, <1>8, <1>10 DEF CreditText
<1>12. IsList(t) /\ Len(t) = 7
  BY <1>9 DEF JoinedAs
<1>13. JoinedAs(s, t, c, 7, 7)
  BY <1>7, <1>11, <1>12, TwoParts DEF WordsAt
<1>14. DOMAIN s = 1..14 /\ Len(s) = 14
  BY <1>13 DEF JoinedAs
<1>15. t[1] = Word("an") /\ t[2] = Word("open") /\ t[3] = Word("credit") /\ t[4] = Word("memo")
  <2>1. t[1] = a[1] /\ t[2] = a[2] /\ t[3] = a[3] /\ t[4] = a[4]
    BY <1>9 DEF JoinedAs
  <2> QED BY <1>1, <1>6, <2>1 DEF WordsAt
<1>16. t[5] = Ref(d) /\ t[6] = Word("of") /\ t[7] = Dollar(n)
  <2>1. t[4 + 1] = b[1] /\ t[4 + 2] = b[2] /\ t[4 + 3] = b[3]
    BY <1>9 DEF JoinedAs
  <2> QED BY <1>4, <2>1, FigureOf
<1>17. /\ s[1] = t[1] /\ s[2] = t[2] /\ s[3] = t[3] /\ s[4] = t[4] /\ s[5] = t[5]
       /\ s[6] = t[6] /\ s[7] = t[7]
  BY <1>13 DEF JoinedAs
<1>18. /\ s[8] = c[1] /\ s[9] = c[2] /\ s[10] = c[3] /\ s[11] = c[4] /\ s[12] = c[5]
       /\ s[13] = c[6] /\ s[14] = c[7]
  <2>1. /\ s[7 + 1] = c[1] /\ s[7 + 2] = c[2] /\ s[7 + 3] = c[3] /\ s[7 + 4] = c[4]
        /\ s[7 + 5] = c[5] /\ s[7 + 6] = c[6] /\ s[7 + 7] = c[7]
    BY <1>13 DEF JoinedAs
  <2> QED BY <2>1
<1>19. /\ c[1] = Word("is") /\ c[2] = Word("also") /\ c[3] = Word("reflected")
       /\ c[4] = Word("in") /\ c[5] = Word("the") /\ c[6] = Word("balance")
       /\ c[7] = Word("above")
  BY <1>2, <1>7 DEF WordsAt
<1> QED BY <1>10, <1>14, <1>15, <1>16, <1>17, <1>18, <1>19 DEF CreditShape

\* A date stands behind no word that numbers a document.
DatesAlone(s) ==
    \A j, k \in DOMAIN s : s[j].kind = "date" /\ k < j /\ s[k].kind # "doc" =>
        s[k].text \notin {"invoice", "payment", "credit"}

LEMMA PlainIs ==
    ASSUME NEW s, IsSentence(s), Measured(s), SpelledOut(s), DatesAlone(s),
           \A k \in DOMAIN s : s[k].kind = "word" => s[k].text \in GoldenWords,
           \A k \in DOMAIN s : s[k].kind = "amount" => s[k].form = "dollar" /\ s[k].lead = Unresolved,
           \A k \in DOMAIN s : s[k].kind = "date" => s[k].text = "yyyy-mm-dd"
    PROVE  Plain(s)
<1>1. \A k \in DOMAIN s : s[k].kind \in {"word", "amount", "doc", "date"}
  BY DEF IsSentence, IsToken, Fields
<1>2. "yyyy-mm-dd" \in GoldenWords
  BY DEF GoldenWords
<1>3. \A k \in DOMAIN s : s[k].text \in GoldenWords \/ s[k].text \notin Vocabulary
  BY <1>1, <1>2 DEF SpelledOut
<1> QED BY <1>3 DEF Plain, DatesAlone, Spelled

LEMMA NoDates ==
    ASSUME NEW s, \A k \in DOMAIN s : s[k].kind # "date"
    PROVE  DatesAlone(s)
BY DEF DatesAlone

LEMMA BalanceTextIs == ASSUME NEW n PROVE IsSentence(BalanceText(n))
<1> DEFINE a == Words(<<"the", "balance", "due", "on", "your", "account", "is">>)
<1>1. IsSentence(a)
  <2>1. DOMAIN <<"the", "balance", "due", "on", "your", "account", "is">> = 1..7
    OBVIOUS
  <2> QED BY <2>1, WordsAre
<1>2. BalanceText(n) = a \o <<Dollar(n)>>
  BY DEF BalanceText
<1> HIDE DEF a
<1> QED BY <1>1, <1>2, TokensAre, OneToken, ToldIs

LEMMA InvoiceTextIs == ASSUME NEW d, NEW l, NEW n PROVE IsSentence(InvoiceText(d, l, n))
BY TokensAre, TenTokens DEF InvoiceText

LEMMA PaymentTextIs == ASSUME NEW d, NEW n PROVE IsSentence(PaymentText(d, n))
<1> DEFINE a == Words(<<"we", "have", "received", "your", "payment">>)
           b == <<Ref(d), Word("of"), Dollar(n)>>
           c == Words(<<",", "which", "has", "not", "yet", "been", "applied", "to",
                        "a", "specific", "invoice">>)
<1>1. IsSentence(a)
  <2>1. DOMAIN <<"we", "have", "received", "your", "payment">> = 1..5
    OBVIOUS
  <2> QED BY <2>1, WordsAre
<1>2. IsSentence(b)
  BY AmountOf
<1>3. IsSentence(c)
  <2>1. DOMAIN <<",", "which", "has", "not", "yet", "been", "applied", "to",
                 "a", "specific", "invoice">> = 1..11
    OBVIOUS
  <2> QED BY <2>1, WordsAre
<1>4. PaymentText(d, n) = (a \o b) \o c
  BY DEF PaymentText
<1> HIDE DEF a, b, c
<1> QED BY <1>1, <1>2, <1>3, <1>4, ToldIs

LEMMA CreditTextIs == ASSUME NEW d, NEW n PROVE IsSentence(CreditText(d, n))
<1> DEFINE a == Words(<<"an", "open", "credit", "memo">>)
           b == <<Ref(d), Word("of"), Dollar(n)>>
           c == Words(<<"is", "also", "reflected", "in", "the", "balance", "above">>)
<1>1. IsSentence(a)
  <2>1. DOMAIN <<"an", "open", "credit", "memo">> = 1..4
    OBVIOUS
  <2> QED BY <2>1, WordsAre
<1>2. IsSentence(b)
  BY AmountOf
<1>3. IsSentence(c)
  <2>1. DOMAIN <<"is", "also", "reflected", "in", "the", "balance", "above">> = 1..7
    OBVIOUS
  <2> QED BY <2>1, WordsAre
<1>4. CreditText(d, n) = (a \o b) \o c
  BY DEF CreditText
<1> HIDE DEF a, b, c
<1> QED BY <1>1, <1>2, <1>3, <1>4, ToldIs

\* The words of these sentences are golden words.
LEMMA TheseAreGolden ==
    /\ BoundWords \subseteq GoldenWords
    /\ "applied" \in GoldenWords /\ "on" \in GoldenWords /\ "account" \in GoldenWords
<1>1. ASSUME NEW w, w \in BoundWords PROVE w \in GoldenWords
  BY <1>1 DEF BoundWords, GoldenWords
<1>2. "applied" \in GoldenWords /\ "on" \in GoldenWords /\ "account" \in GoldenWords
  BY DEF GoldenWords
<1> QED BY <1>1, <1>2

LEMMA WordIs == ASSUME NEW t, NEW w, t = Word(w) PROVE t.kind = "word" /\ t.text = w
BY DEF Word

LEMMA InvoiceBound ==
    ASSUME NEW l, NEW d, RefId(d) \in InvoiceIds(l),
           InvoiceStatus(l, RefId(d)) \in {"outstanding", "overdue"}, NEW n,
           NEW s, IsSentence(s), InvoiceShape(s, d, l, n), Measured(s), SpelledOut(s)
    PROVE  /\ BoundAt(s, l, d, n, 2, 9)
           /\ Spelled(s, BoundWords)
           /\ \A k \in 1..9 : s[k].text = "of" => s[k + 1].text # "which"
           /\ \A k \in 1..10 : s[k].text \in {"outstanding", "overdue"} =>
                k = 10 \/ s[k].text \notin Vocabulary
<1>1. PICK status : status = InvoiceStatus(l, RefId(d)) /\ status \in {"outstanding", "overdue"}
  OBVIOUS
<1>2. DOMAIN s = 1..10
  BY DEF InvoiceShape
<1>22. s[2] = Ref(d) /\ s[9] = Dollar(n)
  BY DEF InvoiceShape
<1>23. /\ s[4] = DateToken(l.invoices[RefId(d)].date)
       /\ s[7] = DateToken(l.invoices[RefId(d)].due)
  BY DEF InvoiceShape
<1>24. /\ s[1] = Word("-") /\ s[3] = Word("dated") /\ s[5] = Word(",") /\ s[6] = Word("due")
       /\ s[8] = Word(":") /\ s[10] = Word(status)
  BY <1>1 DEF InvoiceShape
<1>25. /\ s[1].kind = "word" /\ s[3].kind = "word" /\ s[5].kind = "word" /\ s[6].kind = "word"
       /\ s[8].kind = "word" /\ s[10].kind = "word"
       /\ s[1].text = "-" /\ s[3].text = "dated" /\ s[5].text = "," /\ s[6].text = "due"
       /\ s[8].text = ":" /\ s[10].text = status
  BY <1>24, WordIs
<1>26. /\ s[4].kind = "date" /\ s[7].kind = "date"
       /\ s[4].text = "yyyy-mm-dd" /\ s[7].text = "yyyy-mm-dd"
  BY <1>23, TokenFields
<1>27. s[2].kind = "doc" /\ s[9].kind = "amount"
  BY <1>22, TokenFields
<1>3. /\ s[1].kind = "word" /\ s[2].kind = "doc" /\ s[3].kind = "word" /\ s[4].kind = "date"
      /\ s[5].kind = "word" /\ s[6].kind = "word" /\ s[7].kind = "date" /\ s[8].kind = "word"
      /\ s[9].kind = "amount" /\ s[10].kind = "word"
  BY <1>25, <1>26, <1>27
<1>4. /\ s[1].text = "-" /\ s[3].text = "dated" /\ s[4].text = "yyyy-mm-dd" /\ s[5].text = ","
      /\ s[6].text = "due" /\ s[7].text = "yyyy-mm-dd" /\ s[8].text = ":" /\ s[10].text = status
  BY <1>25, <1>26
<1>5. /\ s[4].num = l.invoices[RefId(d)].date /\ s[7].num = l.invoices[RefId(d)].due
      /\ s[9].form = "dollar" /\ s[9].lead = Unresolved
  BY <1>22, <1>23, TokenFields
<1>6. \A k \in 1..10 : \/ k = 1 \/ k = 2 \/ k = 3 \/ k = 4 \/ k = 5
                       \/ k = 6 \/ k = 7 \/ k = 8 \/ k = 9 \/ k = 10
  OBVIOUS
<1>7. /\ "-" \in BoundWords /\ "dated" \in BoundWords /\ "," \in BoundWords
      /\ "due" \in BoundWords /\ ":" \in BoundWords /\ "yyyy-mm-dd" \in BoundWords
      /\ status \in BoundWords
  BY <1>1 DEF BoundWords
<1>21. s[2].text \notin Vocabulary /\ s[9].text \notin Vocabulary
  <2>1. 2 \in DOMAIN s /\ 9 \in DOMAIN s
    BY <1>2
  <2> QED BY <1>3, <2>1 DEF SpelledOut
<1>8. \A k \in 1..10 : s[k].kind = "word" => s[k].text \in BoundWords
  BY <1>3, <1>4, <1>6, <1>7
<1>9. \A k \in 1..10 : s[k].text \in BoundWords \/ s[k].text \notin Vocabulary
  BY <1>3, <1>4, <1>6, <1>7, <1>21
<1>10. \A k \in 1..10 : s[k].kind = "doc" <=> k = 2
  BY <1>3, <1>6
<1>11. \A k \in 1..10 : s[k].kind = "amount" <=> k = 9
  BY <1>3, <1>6
<1>12. \A k \in 1..10 : s[k].kind = "date" <=> k \in {4, 7}
  BY <1>3, <1>6
<1>13. DatesAlone(s)
  <2>1. ASSUME NEW j \in 1..10, NEW k \in 1..10, s[j].kind = "date", k < j, s[k].kind # "doc"
        PROVE  s[k].text \notin {"invoice", "payment", "credit"}
    <3>1. k = 1 \/ k = 3 \/ k = 4 \/ k = 5 \/ k = 6
      BY <1>6, <1>10, <1>12, <2>1
    <3> QED BY <1>4, <3>1
  <2> QED BY <1>2, <2>1 DEF DatesAlone
<1>14. Plain(s)
  <2>1. IsSentence(s)
    OBVIOUS
  <2>2. \A k \in DOMAIN s : s[k].kind = "word" => s[k].text \in GoldenWords
    BY <1>2, <1>8, TheseAreGolden
  <2>3. \A k \in DOMAIN s : s[k].kind = "amount" => s[k].form = "dollar" /\ s[k].lead = Unresolved
    BY <1>2, <1>5, <1>11
  <2>4. \A k \in DOMAIN s : s[k].kind = "date" => s[k].text = "yyyy-mm-dd"
    BY <1>2, <1>4, <1>12
  <2> QED BY <1>13, <2>1, <2>2, <2>3, <2>4, PlainIs
<1>15. \A k \in DOMAIN s : s[k].kind = "date" => s[k].num \in CarriedDates(RefId(d), l)
  <2>1. CarriedDates(RefId(d), l) = {l.invoices[RefId(d)].date, l.invoices[RefId(d)].due}
    BY DEF CarriedDates
  <2> QED BY <1>2, <1>5, <1>12, <2>1
<1>16. BoundAt(s, l, d, n, 2, 9)
  <2>1. RefId(d) \in DocumentIds(l)
    BY DEF DocumentIds
  <2>2. /\ 2 \in DOMAIN s /\ 9 \in DOMAIN s
        /\ \A k \in DOMAIN s : s[k].kind = "doc" <=> k = 2
        /\ \A k \in DOMAIN s : s[k].kind = "amount" <=> k = 9
    BY <1>2, <1>10, <1>11
  <2>3. s[2] = Ref(d) /\ s[9] = Dollar(n) /\ 2 < 9
    BY <1>22
  <2> QED BY <1>14, <1>15, <2>1, <2>2, <2>3 DEF BoundAt
<1>17. \A k \in 1..10 : s[k].text # "of" \/ s[k].text \notin Vocabulary
  <2>1. status # "of"
    BY <1>1
  <2> QED BY <1>4, <1>6, <1>21, <2>1
<1>18. "of" \in Vocabulary
  <2>1. <<"of", "which">> \in AppliedPhrases /\ AppliedPhrases \in Patterns
    BY DEF AppliedPhrases, Patterns
  <2>2. 1 \in DOMAIN <<"of", "which">> /\ <<"of", "which">>[1] = "of"
    OBVIOUS
  <2> QED BY <2>1, <2>2 DEF Vocabulary
<1>19. \A k \in 1..9 : s[k].text = "of" => s[k + 1].text # "which"
  BY <1>17, <1>18
<1>20. \A k \in 1..10 : s[k].text \in {"outstanding", "overdue"} =>
                k = 10 \/ s[k].text \notin Vocabulary
  BY <1>4, <1>6, <1>21
<1> QED BY <1>2, <1>9, <1>16, <1>19, <1>20 DEF Spelled

\* The one figure of a sentence has the whole sentence within reach.
LEMMA WindowOfOne ==
    ASSUME NEW s, Plain(s), NEW q \in DOMAIN s,
           \A k \in DOMAIN s : s[k].kind = "amount" <=> k = q,
           NEW L, L = LaidOut(s)
    PROVE  /\ L[q].at \in Nat /\ L[q].end \in Nat /\ L[Len(L)].end \in Nat
           /\ Window(L, SpanAt(L, q), Amounts(L))
                = Slice(L, MaxOf(0, L[q].at - Back), MinOf(L[Len(L)].end, L[q].end + Ahead))
<1>1. IsSentence(s) /\ Measured(s)
  BY DEF Plain
<1>2. PICK n \in Nat : n = Len(s) /\ DOMAIN s = 1..n
  BY <1>1 DEF IsSentence, IsList
<1>3. IsSentence(L) /\ SameTokens(L, s) /\ DOMAIN L = 1..n /\ Len(L) = n
  BY <1>1, <1>2, LaidOutSame DEF SameTokens
<1>4. /\ \A k \in 1..n : L[k].at \in Nat /\ L[k].end \in Nat
      /\ \A k \in 1..n : L[k].end = L[k].at + Len(s[k].text)
  BY <1>1, <1>2, PlacesAre
<1>5. q \in 1..n /\ n \in 1..n
  BY <1>2
<1>6. PICK width : width = Len(s[q].text) /\ width \in Nat \ {0}
  BY <1>1 DEF Measured
<1>7. PICK at \in Nat, end \in Nat : at = L[q].at /\ end = L[q].end /\ end = at + width
  BY <1>4, <1>5, <1>6
<1>8. PICK a : a = SpanAt(L, q)
  OBVIOUS
<1>9. a.at = at /\ a.end = end
  BY <1>7, <1>8 DEF SpanAt, Span
<1>10. PICK amounts : amounts = Amounts(L)
  OBVIOUS
<1>11. Range(amounts) = {a}
  <2>1. Range(amounts) = UNION {Range(AmountAt(L, k)) : k \in 1..n}
    BY <1>3, <1>10, FoundAtTokens
  <2>2. \A k \in 1..n : k # q => AmountAt(L, k) = << >>
    BY <1>2, PlainReads DEF ReadsPlain
  <2>3. AmountAt(L, q) = <<a>>
    BY <1>8, PlainReads DEF ReadsPlain
  <2>4. Range(<<a>>) = {a} /\ \A e : e \notin Range(<< >>)
    BY DEF Range
  <2>5. \A k \in 1..n : Range(AmountAt(L, k)) \subseteq {a}
    BY <2>2, <2>3, <2>4
  <2> QED BY <1>5, <2>1, <2>3, <2>4, <2>5
<1>12. PICK others : others = {amounts[k] : k \in DOMAIN amounts}
  OBVIOUS
<1>13. others = {a}
  BY <1>11, <1>12 DEF Range
<1>14. {c \in others : c.end <= a.at} = {} /\ {c \in others : c.at >= a.end} = {}
  BY <1>6, <1>7, <1>9, <1>13
<1>15. PICK behind : behind = {b.end : b \in {c \in others : c.end <= a.at}}
  OBVIOUS
<1>16. PICK before : before = {b.at : b \in {c \in others : c.at >= a.end}}
  OBVIOUS
<1>17. behind = {} /\ before = {}
  BY <1>14, <1>15, <1>16
<1>18. Max({0} \cup behind) = 0
  <2>1. {0} \cup behind = {0}
    BY <1>17
  <2>2. Max({0}) = 0
    BY DEF Max
  <2> QED BY <2>1, <2>2
<1>19. Min({L[Len(L)].end} \cup before) = L[Len(L)].end
  <2>1. {L[Len(L)].end} \cup before = {L[Len(L)].end}
    BY <1>17
  <2>2. L[Len(L)].end \in Nat
    BY <1>3, <1>4, <1>5
  <2>3. Min({L[Len(L)].end}) \in {L[Len(L)].end}
    BY <2>2, LeastIs
  <2> QED BY <2>1, <2>3
<1>20. Window(L, a, amounts)
         = Slice(L, MaxOf(Max({0} \cup behind), a.at - Back),
                 MinOf(Min({L[Len(L)].end} \cup before), a.end + Ahead))
  BY <1>12, <1>15, <1>16 DEF Window
<1>21. L[Len(L)].end \in Nat
  BY <1>3, <1>4, <1>5
<1> QED BY <1>7, <1>8, <1>9, <1>10, <1>18, <1>19, <1>20, <1>21

\* The first tokens of a sentence are words that say nothing else of a figure.
SaysOpen(s, m) ==
    /\ \A k \in 1..m : s[k].text \in BoundWords \/ s[k].text \notin Vocabulary
    /\ \A k \in 1..(m - 1) : s[k].text = "of" => s[k + 1].text # "which"

LEMMA OpenWindow ==
    ASSUME NEW s, Plain(s), NEW q \in DOMAIN s,
           \A k \in DOMAIN s : s[k].kind = "amount" <=> k = q,
           NEW m \in DOMAIN s, SaysOpen(s, m),
           \A k \in DOMAIN s : k > m => LaidOut(s)[k].end > LaidOut(s)[q].end + Ahead
    PROVE  WindowIsOpen(s, q)
<1>1. PICK L : L = LaidOut(s)
  OBVIOUS
<1>2. IsSentence(s) /\ Measured(s)
  BY DEF Plain
<1>3. PICK n \in Nat : n = Len(s) /\ DOMAIN s = 1..n
  BY <1>2 DEF IsSentence, IsList
<1>4. IsSentence(L) /\ SameTokens(L, s) /\ DOMAIN L = 1..n /\ Len(L) = n
  BY <1>1, <1>2, <1>3, LaidOutSame DEF SameTokens
<1>5. PICK lo, hi : lo = MaxOf(0, L[q].at - Back) /\ hi = MinOf(L[Len(L)].end, L[q].end + Ahead)
  OBVIOUS
<1>6. PICK w : w = Window(L, SpanAt(L, q), Amounts(L))
  OBVIOUS
<1>7. w = Slice(L, lo, hi) /\ L[q].end \in Nat /\ L[Len(L)].end \in Nat
  BY <1>1, <1>5, <1>6, WindowOfOne
<1>8. \A k \in 1..n : L[k].end \in Nat
  BY <1>1, <1>2, <1>3, PlacesAre
<1>9. \A k \in Between(L, lo, hi) : k \in 1..m
  <2> TAKE k \in Between(L, lo, hi)
  <2>1. k \in 1..n /\ L[k].end <= hi
    BY <1>4 DEF Between
  <2>2. PICK e \in Nat, f \in Nat : e = L[Len(L)].end /\ f = L[q].end
    BY <1>7
  <2>3. Ahead \in Nat
    BY WindowAssumption
  <2>4. L[k].end <= f + Ahead
    <3>1. PICK b \in Nat : b = f + Ahead
      BY <2>2, <2>3
    <3>2. hi = IF e < b THEN e ELSE b
      BY <1>5, <2>2, <3>1 DEF MinOf
    <3>3. L[k].end \in Nat
      BY <1>8, <2>1
    <3> QED BY <2>1, <3>1, <3>2, <3>3
  <2>5. PICK g \in Nat, ahead \in Nat : g = L[k].end /\ ahead = Ahead
    BY <1>8, <2>1, <2>3
  <2>6. k > m => g > f + ahead
    BY <1>1, <1>3, <2>1, <2>2, <2>5
  <2>7. g <= f + ahead
    BY <2>4, <2>5
  <2>8. k \in 1..n /\ m \in 1..n
    BY <1>3, <2>1
  <2> QED BY <2>6, <2>7, <2>8
<1>10. PICK c \in Nat : /\ DOMAIN w = 1..c /\ Len(w) = c /\ Spelled(w, BoundWords)
                        /\ \A x \in 1..(c - 1) : w[x].text = "of" => w[x + 1].text # "which"
  <2>1. IsList(L)
    BY <1>4 DEF IsSentence
  <2>2. CASE w = << >>
    <3>1. DOMAIN w = 1..0 /\ Len(w) = 0 /\ Spelled(w, BoundWords)
      BY <2>2 DEF Spelled
    <3> QED BY <3>1
  <2>3. CASE \E i, j \in DOMAIN L : SlicedAt(w, L, lo, hi, i, j)
    <3>1. PICK i \in 1..n, j \in 1..n : SlicedAt(w, L, lo, hi, i, j)
      BY <1>4, <2>3
    <3>2. i \in 1..m /\ j \in 1..m /\ i <= j /\ CutOf(w, L, i, j)
      BY <1>9, <3>1 DEF SlicedAt
    <3>3. PICK c \in Nat : c = j - i + 1
      BY <3>2
    <3>4. /\ DOMAIN w = 1..c /\ Len(w) = c
          /\ \A x \in 1..c : w[x] = L[i + x - 1]
      BY <3>2, <3>3 DEF CutOf
    <3>0. m \in Nat
      BY <1>3
    <3>5. \A x \in 1..c : i + x - 1 \in 1..m
      BY <3>0, <3>2, <3>3
    <3>6. \A k \in 1..m : k \in DOMAIN s /\ L[k].text = s[k].text
      BY <1>3, <1>4 DEF SameTokens
    <3>7. \A x \in 1..c : w[x].text = s[i + x - 1].text
      BY <3>4, <3>5, <3>6
    <3>8. Spelled(w, BoundWords)
      BY <3>4, <3>5, <3>7 DEF SaysOpen, Spelled
    <3>9. ASSUME NEW x \in 1..(c - 1), w[x].text = "of" PROVE w[x + 1].text # "which"
      <4>1. PICK k \in 1..(m - 1) : k = i + x - 1 /\ k + 1 = i + (x + 1) - 1
        BY <3>0, <3>2, <3>3
      <4>2. w[x].text = s[k].text /\ w[x + 1].text = s[k + 1].text
        BY <3>3, <3>7, <4>1
      <4> QED BY <3>9, <4>2 DEF SaysOpen
    <3> QED BY <3>3, <3>4, <3>8, <3>9
  <2> QED BY <1>7, <2>1, <2>2, <2>3, SliceIs
<1>11. \A a : ~ExplicitTotal(w, a) /\ RoleOf(w, a) \in {"open", "unknown"}
  BY <1>10, BoundRole
<1> QED BY <1>1, <1>6, <1>11 DEF WindowIsOpen

\* No token is a word for a status.
NoStatusIn(s) ==
    \A k \in DOMAIN s : s[k].text \in {"outstanding", "overdue"} => s[k].text \notin Vocabulary

LEMMA OfWhichIsFound == "of" \in Vocabulary /\ "which" \in Vocabulary
<1>1. <<"of", "which">> \in AppliedPhrases /\ AppliedPhrases \in Patterns
  BY DEF AppliedPhrases, Patterns
<1>2. /\ 1 \in DOMAIN <<"of", "which">> /\ <<"of", "which">>[1] = "of"
      /\ 2 \in DOMAIN <<"of", "which">> /\ <<"of", "which">>[2] = "which"
  OBVIOUS
<1> QED BY <1>1, <1>2 DEF Vocabulary

LEMMA CreditBound ==
    ASSUME NEW l, NEW d, RefId(d) \in DocumentIds(l), NEW n,
           NEW s, IsSentence(s), CreditShape(s, d, n), Measured(s), SpelledOut(s)
    PROVE  BoundAt(s, l, d, n, 5, 7) /\ SaysOpen(s, 14) /\ NoStatusIn(s)
<1>1. DOMAIN s = 1..14 /\ s[5] = Ref(d) /\ s[7] = Dollar(n)
  BY DEF CreditShape
<1>2. /\ s[1] = Word("an") /\ s[2] = Word("open") /\ s[3] = Word("credit")
      /\ s[4] = Word("memo") /\ s[6] = Word("of") /\ s[8] = Word("is")
      /\ s[9] = Word("also") /\ s[10] = Word("reflected") /\ s[11] = Word("in")
      /\ s[12] = Word("the") /\ s[13] = Word("balance") /\ s[14] = Word("above")
  BY DEF CreditShape
<1>3. /\ s[1].kind = "word" /\ s[2].kind = "word" /\ s[3].kind = "word" /\ s[4].kind = "word"
      /\ s[6].kind = "word" /\ s[8].kind = "word" /\ s[9].kind = "word" /\ s[10].kind = "word"
      /\ s[11].kind = "word" /\ s[12].kind = "word" /\ s[13].kind = "word" /\ s[14].kind = "word"
  BY <1>2, WordIs
<1>4. /\ s[1].text = "an" /\ s[2].text = "open" /\ s[3].text = "credit" /\ s[4].text = "memo"
      /\ s[6].text = "of" /\ s[8].text = "is" /\ s[9].text = "also" /\ s[10].text = "reflected"
      /\ s[11].text = "in" /\ s[12].text = "the" /\ s[13].text = "balance" /\ s[14].text = "above"
  BY <1>2, WordIs
<1>5. /\ s[5].kind = "doc" /\ s[7].kind = "amount"
      /\ s[7].form = "dollar" /\ s[7].lead = Unresolved
  BY <1>1, TokenFields
<1>6. \A k \in 1..14 : \/ k = 1 \/ k = 2 \/ k = 3 \/ k = 4 \/ k = 5 \/ k = 6 \/ k = 7
                     \/ k = 8 \/ k = 9 \/ k = 10 \/ k = 11 \/ k = 12 \/ k = 13 \/ k = 14
  OBVIOUS
<1>7. s[5].text \notin Vocabulary /\ s[7].text \notin Vocabulary
  BY <1>1, <1>5 DEF SpelledOut
<1>8. /\ "an" \in BoundWords /\ "open" \in BoundWords /\ "credit" \in BoundWords
      /\ "memo" \in BoundWords /\ "of" \in BoundWords /\ "is" \in BoundWords
      /\ "also" \in BoundWords /\ "reflected" \in BoundWords /\ "in" \in BoundWords
      /\ "the" \in BoundWords /\ "balance" \in BoundWords /\ "above" \in BoundWords
  BY DEF BoundWords
<1>9. /\ s[1].text \in BoundWords /\ s[2].text \in BoundWords /\ s[3].text \in BoundWords
      /\ s[4].text \in BoundWords /\ s[6].text \in BoundWords /\ s[8].text \in BoundWords
      /\ s[9].text \in BoundWords /\ s[10].text \in BoundWords /\ s[11].text \in BoundWords
      /\ s[12].text \in BoundWords /\ s[13].text \in BoundWords /\ s[14].text \in BoundWords
  BY <1>4, <1>8
<1>10. /\ s[1].text \in GoldenWords /\ s[2].text \in GoldenWords /\ s[3].text \in GoldenWords
       /\ s[4].text \in GoldenWords /\ s[6].text \in GoldenWords /\ s[8].text \in GoldenWords
       /\ s[9].text \in GoldenWords /\ s[10].text \in GoldenWords /\ s[11].text \in GoldenWords
       /\ s[12].text \in GoldenWords /\ s[13].text \in GoldenWords /\ s[14].text \in GoldenWords
  BY <1>9, TheseAreGolden
<1>11. \A k \in 1..14 : s[k].kind = "word" => s[k].text \in GoldenWords
  BY <1>5, <1>6, <1>10
<1>12. \A k \in 1..14 : s[k].kind = "doc" <=> k = 5
  BY <1>3, <1>5, <1>6
<1>13. \A k \in 1..14 : s[k].kind = "amount" <=> k = 7
  BY <1>3, <1>5, <1>6
<1>14. \A k \in 1..14 : s[k].kind # "date"
  BY <1>3, <1>5, <1>6
<1>15. Plain(s)
  <2>1. DatesAlone(s)
    BY <1>1, <1>14, NoDates
  <2>2. \A k \in DOMAIN s : s[k].kind = "amount" => s[k].form = "dollar" /\ s[k].lead = Unresolved
    BY <1>1, <1>5, <1>13
  <2> QED BY <1>1, <1>11, <1>14, <2>1, <2>2, PlainIs
<1>16. BoundAt(s, l, d, n, 5, 7)
  <2>1. 5 \in DOMAIN s /\ 7 \in DOMAIN s /\ 5 < 7
    BY <1>1
  <2> QED BY <1>1, <1>12, <1>13, <1>14, <1>15, <2>1 DEF BoundAt
<1>17. SaysOpen(s, 14)
  <2>1. \A k \in 1..14 : s[k].text \in BoundWords \/ s[k].text \notin Vocabulary
    <3> TAKE k \in 1..14
    <3>1. \/ k = 1 \/ k = 2 \/ k = 3 \/ k = 4 \/ k = 5 \/ k = 6 \/ k = 7
          \/ k = 8 \/ k = 9 \/ k = 10 \/ k = 11 \/ k = 12 \/ k = 13 \/ k = 14
      OBVIOUS
    <3> QED BY <1>7, <1>9, <3>1
  <2>2. \A k \in 1..13 : s[k].text = "of" => s[k + 1].text # "which"
    <3> SUFFICES ASSUME NEW k \in 1..13, s[k].text = "of" PROVE s[k + 1].text # "which"
      OBVIOUS
    <3>1. k \in 1..14 /\ k # 5 /\ k # 7
      BY <1>7, OfWhichIsFound
    <3>2. k = 6
      BY <1>4, <1>6, <3>1
    <3>3. k + 1 = 7
      BY <3>2
    <3> QED BY <1>7, <3>3, OfWhichIsFound
  <2> QED BY <2>1, <2>2 DEF SaysOpen
<1>18. NoStatusIn(s)
  <2>1. \A k \in 1..14 : s[k].text \in {"outstanding", "overdue"} => k = 5 \/ k = 7
    BY <1>4, <1>6
  <2> QED BY <1>1, <1>7, <2>1 DEF NoStatusIn
<1> QED BY <1>16, <1>17, <1>18

LEMMA PaymentBound ==
    ASSUME NEW l, NEW d, RefId(d) \in DocumentIds(l), NEW n,
           NEW s, IsSentence(s), PaymentShape(s, d, n), Measured(s), SpelledOut(s)
    PROVE  BoundAt(s, l, d, n, 6, 8) /\ SaysOpen(s, 14) /\ NoStatusIn(s)
<1>1. DOMAIN s = 1..19 /\ s[6] = Ref(d) /\ s[8] = Dollar(n)
  BY DEF PaymentShape
<1>2. /\ s[1] = Word("we") /\ s[2] = Word("have") /\ s[3] = Word("received")
      /\ s[4] = Word("your") /\ s[5] = Word("payment") /\ s[7] = Word("of")
      /\ s[9] = Word(",") /\ s[10] = Word("which") /\ s[11] = Word("has")
      /\ s[12] = Word("not") /\ s[13] = Word("yet") /\ s[14] = Word("been")
      /\ s[15] = Word("applied") /\ s[16] = Word("to") /\ s[17] = Word("a")
      /\ s[18] = Word("specific") /\ s[19] = Word("invoice")
  BY DEF PaymentShape
<1>3. /\ s[1].kind = "word" /\ s[2].kind = "word" /\ s[3].kind = "word" /\ s[4].kind = "word"
      /\ s[5].kind = "word" /\ s[7].kind = "word" /\ s[9].kind = "word" /\ s[10].kind = "word"
      /\ s[11].kind = "word" /\ s[12].kind = "word" /\ s[13].kind = "word" /\ s[14].kind = "word"
      /\ s[15].kind = "word" /\ s[16].kind = "word" /\ s[17].kind = "word" /\ s[18].kind = "word"
      /\ s[19].kind = "word"
  BY <1>2, WordIs, ZenonT(60)
<1>4. /\ s[1].text = "we" /\ s[2].text = "have" /\ s[3].text = "received" /\ s[4].text = "your"
      /\ s[5].text = "payment" /\ s[7].text = "of" /\ s[9].text = "," /\ s[10].text = "which"
      /\ s[11].text = "has" /\ s[12].text = "not" /\ s[13].text = "yet" /\ s[14].text = "been"
      /\ s[15].text = "applied" /\ s[16].text = "to" /\ s[17].text = "a" /\ s[18].text = "specific"
      /\ s[19].text = "invoice"
  <2>1. \A w : Word(w).text = w
    BY WordIs
  <2> QED BY <1>2, <2>1, ZenonT(60)
<1>5. /\ s[6].kind = "doc" /\ s[8].kind = "amount"
      /\ s[8].form = "dollar" /\ s[8].lead = Unresolved
  BY <1>1, TokenFields
<1>6. \A k \in 1..19 : \/ k = 1 \/ k = 2 \/ k = 3 \/ k = 4 \/ k = 5 \/ k = 6 \/ k = 7
                     \/ k = 8 \/ k = 9 \/ k = 10 \/ k = 11 \/ k = 12 \/ k = 13 \/ k = 14
                     \/ k = 15 \/ k = 16 \/ k = 17 \/ k = 18 \/ k = 19
  OBVIOUS
<1>7. s[6].text \notin Vocabulary /\ s[8].text \notin Vocabulary
  BY <1>1, <1>5 DEF SpelledOut
<1>8. /\ "we" \in BoundWords /\ "have" \in BoundWords /\ "received" \in BoundWords
      /\ "your" \in BoundWords /\ "payment" \in BoundWords /\ "of" \in BoundWords
      /\ "," \in BoundWords /\ "which" \in BoundWords /\ "has" \in BoundWords
      /\ "not" \in BoundWords /\ "yet" \in BoundWords /\ "been" \in BoundWords
  BY DEF BoundWords
<1>9. /\ s[1].text \in BoundWords /\ s[2].text \in BoundWords /\ s[3].text \in BoundWords
      /\ s[4].text \in BoundWords /\ s[5].text \in BoundWords /\ s[7].text \in BoundWords
      /\ s[9].text \in BoundWords /\ s[10].text \in BoundWords /\ s[11].text \in BoundWords
      /\ s[12].text \in BoundWords /\ s[13].text \in BoundWords /\ s[14].text \in BoundWords
  BY <1>4, <1>8, ZenonT(60)
<1>10. /\ s[1].text \in GoldenWords /\ s[2].text \in GoldenWords /\ s[3].text \in GoldenWords
       /\ s[4].text \in GoldenWords /\ s[5].text \in GoldenWords /\ s[7].text \in GoldenWords
       /\ s[9].text \in GoldenWords /\ s[10].text \in GoldenWords /\ s[11].text \in GoldenWords
       /\ s[12].text \in GoldenWords /\ s[13].text \in GoldenWords /\ s[14].text \in GoldenWords
       /\ s[15].text \in GoldenWords /\ s[16].text \in GoldenWords /\ s[17].text \in GoldenWords
       /\ s[18].text \in GoldenWords /\ s[19].text \in GoldenWords
  <2>1. "applied" \in GoldenWords /\ "to" \in GoldenWords /\ "a" \in GoldenWords /\ "specific" \in GoldenWords /\ "invoice" \in GoldenWords
    BY DEF GoldenWords
  <2>2. \A w \in BoundWords : w \in GoldenWords
    BY TheseAreGolden
  <2> QED BY <1>4, <1>9, <2>1, <2>2, ZenonT(60)
<1>11. \A k \in 1..19 : s[k].kind = "word" => s[k].text \in GoldenWords
  BY <1>5, <1>6, <1>10
<1>12. \A k \in 1..19 : s[k].kind = "doc" <=> k = 6
  BY <1>3, <1>5, <1>6
<1>13. \A k \in 1..19 : s[k].kind = "amount" <=> k = 8
  BY <1>3, <1>5, <1>6
<1>14. \A k \in 1..19 : s[k].kind # "date"
  BY <1>3, <1>5, <1>6
<1>15. Plain(s)
  <2>1. DatesAlone(s)
    BY <1>1, <1>14, NoDates
  <2>2. \A k \in DOMAIN s : s[k].kind = "amount" => s[k].form = "dollar" /\ s[k].lead = Unresolved
    BY <1>1, <1>5, <1>13
  <2> QED BY <1>1, <1>11, <1>14, <2>1, <2>2, PlainIs
<1>16. BoundAt(s, l, d, n, 6, 8)
  <2>1. 6 \in DOMAIN s /\ 8 \in DOMAIN s /\ 6 < 8
    BY <1>1
  <2> QED BY <1>1, <1>12, <1>13, <1>14, <1>15, <2>1 DEF BoundAt
<1>17. SaysOpen(s, 14)
  <2>1. \A k \in 1..14 : s[k].text \in BoundWords \/ s[k].text \notin Vocabulary
    <3> TAKE k \in 1..14
    <3>1. \/ k = 1 \/ k = 2 \/ k = 3 \/ k = 4 \/ k = 5 \/ k = 6 \/ k = 7
          \/ k = 8 \/ k = 9 \/ k = 10 \/ k = 11 \/ k = 12 \/ k = 13 \/ k = 14
      OBVIOUS
    <3> QED BY <1>7, <1>9, <3>1
  <2>2. \A k \in 1..13 : s[k].text = "of" => s[k + 1].text # "which"
    <3> SUFFICES ASSUME NEW k \in 1..13, s[k].text = "of" PROVE s[k + 1].text # "which"
      OBVIOUS
    <3>1. k \in 1..19 /\ k # 6 /\ k # 8
      BY <1>7, OfWhichIsFound
    <3>2. k = 7
      BY <1>4, <1>6, <3>1
    <3>3. k + 1 = 8
      BY <3>2
    <3> QED BY <1>7, <3>3, OfWhichIsFound
  <2> QED BY <2>1, <2>2 DEF SaysOpen
<1>18. NoStatusIn(s)
  <2>1. \A k \in 1..19 : s[k].text \in {"outstanding", "overdue"} => k = 6 \/ k = 8
    BY <1>4, <1>6
  <2> QED BY <1>1, <1>7, <2>1 DEF NoStatusIn
<1> QED BY <1>16, <1>17, <1>18

\* The statuses a golden sentence states are words of it.
LEMMA StatusesAreWords ==
    ASSUME NEW s, Plain(s), NEW h \in StatusesIn(LaidOut(s))
    PROVE  /\ h.word \in {"outstanding", "overdue"} /\ h.word \in Vocabulary
           /\ \E k \in DOMAIN s : s[k].text = h.word
<1>1. PICK L : L = LaidOut(s)
  OBVIOUS
<1>2. IsSentence(s) /\ Measured(s)
  BY DEF Plain
<1>3. PICK n \in Nat : n = Len(s) /\ DOMAIN s = 1..n
  BY <1>2 DEF IsSentence, IsList
<1>4. SameTokens(L, s) /\ DOMAIN L = 1..n /\ Len(L) = n
  BY <1>1, <1>2, <1>3, LaidOutSame DEF SameTokens
<1>5. Matches(L, PaidParaphrases) = {}
  BY <1>1, PlainReads DEF ReadsPlain
<1>6. PICK m \in Matches(L, StatusPhrases) : h = [at |-> m.at, word |-> StatusWord(m.words)]
  <2>1. PICK none : none = {[at |-> m.at, word |-> "paid"] : m \in Matches(L, PaidParaphrases)}
    OBVIOUS
  <2>2. none = {}
    BY <1>5, <2>1
  <2>3. h \in Stated(Matches(L, StatusPhrases)) \cup none
    BY <1>1, <2>1 DEF StatusesIn
  <2>4. h \in Stated(Matches(L, StatusPhrases))
    BY <2>2, <2>3
  <2> QED BY <2>4 DEF Stated
<1>7. PICK k \in 1..n : EndsAt(L, k, StatusPhrases) # {} /\ m = MatchAt(L, k, StatusPhrases)
  BY <1>4, MatchesAre
<1>8. PICK j : j = Max(EndsAt(L, k, StatusPhrases))
  OBVIOUS
<1>9. j \in EndsAt(L, k, StatusPhrases)
  <2>1. EndsAt(L, k, StatusPhrases) \in SUBSET (1..n)
    BY <1>4 DEF EndsAt, MinOf, LongestPhrase
  <2> QED BY <1>7, <1>8, <2>1, MaxIn
<1>10. PICK t : t = Texts(L, k, j)
  OBVIOUS
<1>11. m.words = t /\ t \in StatusPhrases /\ j \in 1..n /\ k <= j
  BY <1>4, <1>7, <1>8, <1>9, <1>10 DEF MatchAt, EndsAt, MinOf, LongestPhrase
<1>12. t[1] = L[k].text
  <2>1. AreTexts(t, L, k, j)
    <3>1. k \in Nat \ {0} /\ j \in Nat /\ k <= j
      BY <1>11
    <3> QED BY <1>10, <3>1, TextsAre
  <2>2. 1 \in 1..(j - k + 1) /\ k + 1 - 1 = k
    BY <1>11
  <2> QED BY <2>1, <2>2 DEF AreTexts
<1>13. t[1] \in Vocabulary
  <2>1. StatusPhrases \in Patterns
    BY DEF Patterns
  <2>2. 1 \in DOMAIN t
    BY <1>11 DEF StatusPhrases, One
  <2>3. t[1] \in {t[y] : y \in DOMAIN t}
    BY <2>2
  <2> QED BY <1>11, <2>1, <2>3 DEF Vocabulary
<1>14. t[1] \in GoldenWords
  <2>1. t[1] = s[k].text
    BY <1>3, <1>4, <1>12 DEF SameTokens
  <2>2. s[k].text \in GoldenWords \/ s[k].text \notin Vocabulary
    BY <1>3 DEF Plain, Spelled
  <2> QED BY <1>13, <2>1, <2>2
<1>15. t # <<"past", "due">> /\ t[1] \in {"outstanding", "overdue"}
  <2>1. /\ "past" \notin GoldenWords /\ "paid" \notin GoldenWords /\ "unpaid" \notin GoldenWords
        /\ "settled" \notin GoldenWords /\ "cleared" \notin GoldenWords
    BY DEF GoldenWords
  <2>2. t # <<"past", "due">>
    BY <1>14, <2>1
  <2>3. t \in One({"unpaid", "paid", "outstanding", "overdue", "settled", "cleared"})
    BY <1>11, <2>2 DEF StatusPhrases
  <2>4. t[1] \in {"unpaid", "paid", "outstanding", "overdue", "settled", "cleared"}
    BY <2>3 DEF One
  <2> QED BY <1>14, <2>1, <2>2, <2>4
<1>16. h.word = t[1]
  BY <1>6, <1>11, <1>15 DEF StatusWord
<1> QED BY <1>3, <1>4, <1>12, <1>13, <1>15, <1>16 DEF SameTokens

LEMMA NoStatus ==
    ASSUME NEW s, NEW l, NEW d, Plain(s), NoStatusIn(s)
    PROVE  StatusesHold(s, l, d)
<1>1. StatusesIn(LaidOut(s)) = {}
  <2> SUFFICES ASSUME NEW h \in StatusesIn(LaidOut(s)) PROVE FALSE
    OBVIOUS
  <2> QED BY StatusesAreWords DEF NoStatusIn
<1> QED BY <1>1 DEF StatusesHold

LEMMA ItsStatus ==
    ASSUME NEW s, NEW l, NEW d, Plain(s), RefId(d) \in InvoiceIds(l),
           InvoiceStatus(l, RefId(d)) \in {"outstanding", "overdue"},
           \A k \in DOMAIN s : s[k].text \in {"outstanding", "overdue"} =>
             s[k].text = InvoiceStatus(l, RefId(d)) \/ s[k].text \notin Vocabulary
    PROVE  StatusesHold(s, l, d)
<1> SUFFICES ASSUME NEW h \in StatusesIn(LaidOut(s))
             PROVE  h.word \in StatusCompat(InvoiceStatus(l, RefId(d)))
  BY DEF StatusesHold
<1>1. h.word = InvoiceStatus(l, RefId(d))
  BY StatusesAreWords
<1>2. \A w \in {"outstanding", "overdue"} : w \in StatusCompat(w)
  BY DEF StatusCompat
<1> QED BY <1>1, <1>2

\* The words of the sentence that gives the balance.
BalanceWords == {"the", "balance", "due", "on", "your", "account", "is"}

LEMMA NoSubtotalWord == Foreign(SubtotalCues, BalanceWords) /\ SubtotalCues \in Patterns
<1>1. \A w \in {"invoice", "invoices"} : w \notin BalanceWords
  BY DEF BalanceWords
<1>2. \A w \in {"line", "open"} : w \notin BalanceWords
  BY DEF BalanceWords
<1>3. Foreign(One({"invoice", "invoices"}), BalanceWords)
  BY <1>1, ForeignWords
<1>4. Foreign(Then(One({"line", "open"}), One({"item", "items"})), BalanceWords)
  <2>1. Foreign(One({"line", "open"}), BalanceWords)
    BY <1>2, ForeignWords
  <2> QED BY <2>1, WordsOf, ForeignThen
<1> QED BY <1>3, <1>4, ForeignBoth DEF SubtotalCues, Patterns

LEMMA PairIs ==
    ASSUME NEW A, NEW B, NEW a \in A, NEW b \in B
    PROVE  <<a, b>> \in Then(One(A), One(B))
<1>1. PICK x, y : x = <<a>> /\ y = <<b>>
  OBVIOUS
<1>2. x \in One(A) /\ y \in One(B)
  BY <1>1 DEF One
<1>3. x \o y = <<a, b>>
  <2>1. IsList(x) /\ IsList(y) /\ Len(x) = 1 /\ Len(y) = 1 /\ x[1] = a /\ y[1] = b
    BY <1>1, ShortIsList DEF AtMostOne
  <2>2. PICK t : t = x \o y
    OBVIOUS
  <2>3. JoinedAs(t, x, y, 1, 1)
    BY <2>1, <2>2, TwoParts
  <2>4. t \in Seq(Range(t)) /\ Len(t) = 2 /\ t[1] = a /\ t[1 + 1] = b
    BY <2>1, <2>3 DEF JoinedAs, IsList
  <2>5. t = <<t[1], t[2]>>
    BY <2>4
  <2> QED BY <2>2, <2>4, <2>5
<1>4. x \o y \in Then(One(A), One(B))
  BY <1>2 DEF Then
<1> QED BY <1>3, <1>4

LEMMA TwoTexts ==
    ASSUME NEW s, NEW k \in Nat \ {0}
    PROVE  Texts(s, k, k + 1) = <<s[k].text, s[k + 1].text>>
<1>1. PICK j \in Nat : j = k + 1
  OBVIOUS
<1>2. PICK t : t = Texts(s, k, j)
  OBVIOUS
<1>3. AreTexts(t, s, k, j)
  BY <1>1, <1>2, TextsAre
<1>4. j - k + 1 = 2 /\ k + 1 - 1 = k /\ k + 2 - 1 = j
  BY <1>1
<1>5. DOMAIN t = 1..2 /\ Len(t) = 2 /\ t[1] = s[k].text /\ t[2] = s[j].text
  BY <1>3, <1>4 DEF AreTexts
<1>6. PICK f : f = [i \in 1..(j - k + 1) |-> s[k + i - 1].text]
  OBVIOUS
<1>7. t = f
  <2>1. f = [i \in 1..2 |-> f[i]]
    BY <1>4, <1>6
  <2>2. Listed(f) = f
    BY <2>1, ListedIs
  <2> QED BY <1>2, <1>6, <2>2 DEF Texts
<1>8. f = [i \in 1..2 |-> f[i]]
  BY <1>4, <1>6
<1>9. t = <<t[1], t[2]>>
  BY <1>7, <1>8
<1> QED BY <1>1, <1>2, <1>5, <1>9

\* Where the places a and a + 1 come to in a part from i to j.
CutPlaces(c, k, a, i, j) ==
    /\ c \in Nat /\ k \in Nat \ {0} /\ c = j - i + 1 /\ k \in 1..c /\ k + 1 \in 1..c
    /\ i + k - 1 = a /\ i + (k + 1) - 1 = a + 1

LEMMA PlacesCut ==
    ASSUME NEW a \in Int, NEW i \in Int, NEW j \in Int, i <= a, a + 1 <= j
    PROVE  \E c, k : CutPlaces(c, k, a, i, j)
<1>1. /\ j - i + 1 \in Nat /\ a - i + 1 \in Nat \ {0}
      /\ a - i + 1 \in 1..(j - i + 1) /\ (a - i + 1) + 1 \in 1..(j - i + 1)
  OBVIOUS
<1>2. i + (a - i + 1) - 1 = a /\ i + ((a - i + 1) + 1) - 1 = a + 1
  OBVIOUS
<1>3. CutPlaces(j - i + 1, a - i + 1, a, i, j)
  BY <1>1, <1>2 DEF CutPlaces
<1> QED BY <1>3

\* A phrase of two words in a part of a sentence.
LEMMA SlicedSays ==
    ASSUME NEW L, NEW n \in Nat, DOMAIN L = 1..n, NEW w, NEW lo, NEW hi,
           NEW i \in DOMAIN L, NEW j \in DOMAIN L, SlicedAt(w, L, lo, hi, i, j),
           NEW a, a \in Between(L, lo, hi), a + 1 \in Between(L, lo, hi),
           NEW P, <<L[a].text, L[a + 1].text>> \in P
    PROVE  Says(w, P)
<1>1. a \in 1..n /\ a + 1 \in 1..n /\ i \in 1..n /\ j \in 1..n
  BY DEF Between
<1>2. i <= a /\ a + 1 <= j
  BY DEF SlicedAt
<1>3. PICK c, k : CutPlaces(c, k, a, i, j)
  <2>1. a \in Int /\ i \in Int /\ j \in Int
    BY <1>1
  <2> QED BY <1>2, <2>1, PlacesCut
<1>4. DOMAIN w = 1..c /\ Len(w) = c /\ \A x \in 1..c : w[x] = L[i + x - 1]
  BY <1>3 DEF SlicedAt, CutOf, CutPlaces
<1>5. /\ k \in 1..c /\ k + 1 \in 1..c /\ i + k - 1 = a /\ i + (k + 1) - 1 = a + 1
      /\ k \in Nat \ {0}
  BY <1>3 DEF CutPlaces
<1>6. w[k] = L[a] /\ w[k + 1] = L[a + 1]
  BY <1>4, <1>5
<1>7. Texts(w, k, k + 1) \in P
  BY <1>5, <1>6, TwoTexts
<1>8. k + 1 \in k..MinOf(Len(w), k + LongestPhrase)
  <2>1. PICK m : m = MinOf(c, k + 5)
    OBVIOUS
  <2>2. c \in Nat /\ k \in Nat /\ k + 1 <= c
    BY <1>3 DEF CutPlaces
  <2>4. k + 1 \in k..m
    <3>1. m = c \/ m = k + 5
      BY <2>1 DEF MinOf
    <3> QED BY <2>2, <3>1
  <2>3. m = MinOf(Len(w), k + LongestPhrase)
    BY <1>4, <2>1 DEF LongestPhrase
  <2> QED BY <2>3, <2>4
<1>9. EndsAt(w, k, P) # {}
  BY <1>7, <1>8 DEF EndsAt
<1> QED BY <1>4, <1>5, <1>9, MatchesExist

LEMMA BalanceUnbound ==
    ASSUME NEW l, NEW n, NEW s, IsSentence(s), BalanceShape(s, n), Measured(s), SpelledOut(s)
    PROVE  UnboundAt(s, l, n, 8) /\ 8 \in DOMAIN s /\ SaysBalance(s, 8)
<1>1. DOMAIN s = 1..8 /\ s[8] = Dollar(n)
  BY DEF BalanceShape
<1>2. /\ s[1] = Word("the") /\ s[2] = Word("balance") /\ s[3] = Word("due")
      /\ s[4] = Word("on") /\ s[5] = Word("your") /\ s[6] = Word("account")
      /\ s[7] = Word("is")
  BY DEF BalanceShape
<1>3. /\ s[1].kind = "word" /\ s[2].kind = "word" /\ s[3].kind = "word" /\ s[4].kind = "word"
      /\ s[5].kind = "word" /\ s[6].kind = "word" /\ s[7].kind = "word"
  BY <1>2, WordIs
<1>4. /\ s[1].text = "the" /\ s[2].text = "balance" /\ s[3].text = "due" /\ s[4].text = "on"
      /\ s[5].text = "your" /\ s[6].text = "account" /\ s[7].text = "is"
  BY <1>2, WordIs
<1>5. s[8].kind = "amount" /\ s[8].form = "dollar" /\ s[8].lead = Unresolved
  BY <1>1, TokenFields
<1>6. \A k \in 1..8 : k = 1 \/ k = 2 \/ k = 3 \/ k = 4 \/ k = 5 \/ k = 6 \/ k = 7 \/ k = 8
  OBVIOUS
<1>7. s[8].text \notin Vocabulary
  BY <1>1, <1>5 DEF SpelledOut
<1>8. /\ s[1].text \in BalanceWords /\ s[2].text \in BalanceWords /\ s[3].text \in BalanceWords
      /\ s[4].text \in BalanceWords /\ s[5].text \in BalanceWords /\ s[6].text \in BalanceWords
      /\ s[7].text \in BalanceWords
  BY <1>4 DEF BalanceWords
<1>9. \A k \in 1..8 : s[k].text \in BalanceWords \/ s[k].text \notin Vocabulary
  BY <1>6, <1>7, <1>8
<1>10. \A k \in 1..8 : s[k].kind = "word" => s[k].text \in GoldenWords
  <2>1. ASSUME NEW w \in BalanceWords PROVE w \in GoldenWords
    BY <2>1 DEF BalanceWords, GoldenWords
  <2> QED BY <1>5, <1>6, <1>8, <2>1
<1>11. \A k \in 1..8 : s[k].kind = "amount" <=> k = 8
  BY <1>3, <1>5, <1>6
<1>12. \A k \in 1..8 : s[k].kind # "doc" /\ s[k].kind # "date"
  BY <1>3, <1>5, <1>6
<1>13. Plain(s)
  <2>1. DatesAlone(s)
    BY <1>1, <1>12, NoDates
  <2>2. \A k \in DOMAIN s : s[k].kind = "amount" => s[k].form = "dollar" /\ s[k].lead = Unresolved
    BY <1>1, <1>5, <1>11
  <2> QED BY <1>1, <1>10, <1>12, <2>1, <2>2, PlainIs
<1>14. UnboundAt(s, l, n, 8)
  BY <1>1, <1>11, <1>12, <1>13 DEF UnboundAt
<1>15. PICK L : L = LaidOut(s)
  OBVIOUS
<1>16. IsSentence(L) /\ SameTokens(L, s) /\ DOMAIN L = 1..8 /\ Len(L) = 8
  BY <1>1, <1>15, LaidOutSame DEF SameTokens, BalanceShape
<1>17. \A k \in 1..8 : L[k].text = s[k].text
  BY <1>1, <1>16 DEF SameTokens
<1>18. ~Says(L, SubtotalCues)
  <2>1. Spelled(L, BalanceWords)
    BY <1>9, <1>16, <1>17 DEF Spelled
  <2> QED BY <1>16, <2>1, NoSubtotalWord, ForeignNotFound
<1>19. PICK lo, hi : lo = MaxOf(0, L[8].at - Back) /\ hi = MinOf(L[8].end, L[8].end + Ahead)
  OBVIOUS
<1>20. PICK w : w = Window(L, SpanAt(L, 8), Amounts(L))
  OBVIOUS
<1>21. w = Slice(L, lo, hi)
  <2>1. 8 \in DOMAIN s /\ \A k \in DOMAIN s : s[k].kind = "amount" <=> k = 8
    BY <1>1, <1>11
  <2> QED BY <1>13, <1>15, <1>16, <1>19, <1>20, <2>1, WindowOfOne
<1>22. 2 \in Between(L, lo, hi) /\ 3 \in Between(L, lo, hi)
  <2>1. /\ \A k \in 1..8 : L[k].at \in Nat /\ L[k].end \in Nat
        /\ \A k \in 1..8 : L[k].end = L[k].at + Len(s[k].text)
        /\ \A k \in 1..8 : k > 1 => L[k].at = L[k - 1].end + Gap(s, k)
    BY <1>1, <1>15, PlacesAre
  <2>2. \A k \in 1..8 : Gap(s, k) \in {0, 1}
    BY DEF Gap
  <2>3. PICK g3 \in {0, 1} : L[3].at = L[2].end + g3
    BY <2>1, <2>2
  <2>4. PICK g4 \in {0, 1} : L[4].at = L[3].end + g4
    BY <2>1, <2>2
  <2>5. PICK g5 \in {0, 1} : L[5].at = L[4].end + g5
    BY <2>1, <2>2
  <2>6. PICK g6 \in {0, 1} : L[6].at = L[5].end + g6
    BY <2>1, <2>2
  <2>7. PICK g7 \in {0, 1} : L[7].at = L[6].end + g7
    BY <2>1, <2>2
  <2>8. PICK g8 \in {0, 1} : L[8].at = L[7].end + g8
    BY <2>1, <2>2
  <2>9. /\ Len(s[2].text) = Len("balance") /\ Len(s[3].text) = Len("due")
        /\ Len(s[4].text) = Len("on") /\ Len(s[5].text) = Len("your")
        /\ Len(s[6].text) = Len("account") /\ Len(s[7].text) = Len("is")
    BY <1>4
  <2>10. PICK a \in Nat, b \in Nat, c \in Nat, d \in Nat, e \in Nat, f \in Nat, z \in Nat :
            /\ a = Len(s[2].text) /\ b = Len(s[3].text) /\ c = Len(s[4].text)
            /\ d = Len(s[5].text) /\ e = Len(s[6].text) /\ f = Len(s[7].text)
            /\ z = Len(s[8].text)
    <3>1. \A k \in 1..8 : Len(s[k].text) \in Nat
      BY <1>1 DEF Measured
    <3>2. /\ Len(s[2].text) \in Nat /\ Len(s[3].text) \in Nat /\ Len(s[4].text) \in Nat
          /\ Len(s[5].text) \in Nat /\ Len(s[6].text) \in Nat /\ Len(s[7].text) \in Nat
          /\ Len(s[8].text) \in Nat
      BY <3>1
    <3> QED BY <3>2
  <2>11. PICK back \in Nat, ahead \in Nat : back = Back /\ ahead = Ahead
    BY WindowAssumption
  <2>12. back >= a + b + c + d + e + f + 6
    BY <2>9, <2>10, <2>11, ReachAssumption
  <2>13. PICK at \in [1..8 -> Nat], end \in [1..8 -> Nat] :
            \A k \in 1..8 : at[k] = L[k].at /\ end[k] = L[k].end
    <3> DEFINE at == [k \in 1..8 |-> L[k].at]
               end == [k \in 1..8 |-> L[k].end]
    <3>1. at \in [1..8 -> Nat] /\ end \in [1..8 -> Nat]
      BY <2>1
    <3>2. \A k \in 1..8 : at[k] = L[k].at /\ end[k] = L[k].end
      OBVIOUS
    <3> HIDE DEF at, end
    <3> QED BY <3>1, <3>2
  <2>14. /\ end[2] = at[2] + a /\ end[3] = at[3] + b /\ end[4] = at[4] + c /\ end[5] = at[5] + d
         /\ end[6] = at[6] + e /\ end[7] = at[7] + f /\ end[8] = at[8] + z
    <3>1. /\ L[2].end = L[2].at + Len(s[2].text) /\ L[3].end = L[3].at + Len(s[3].text)
          /\ L[4].end = L[4].at + Len(s[4].text) /\ L[5].end = L[5].at + Len(s[5].text)
          /\ L[6].end = L[6].at + Len(s[6].text) /\ L[7].end = L[7].at + Len(s[7].text)
          /\ L[8].end = L[8].at + Len(s[8].text)
      BY <2>1
    <3>2. /\ L[2].end = end[2] /\ L[3].end = end[3] /\ L[4].end = end[4] /\ L[5].end = end[5]
          /\ L[6].end = end[6] /\ L[7].end = end[7] /\ L[8].end = end[8]
          /\ L[2].at = at[2] /\ L[3].at = at[3] /\ L[4].at = at[4] /\ L[5].at = at[5]
          /\ L[6].at = at[6] /\ L[7].at = at[7] /\ L[8].at = at[8]
      BY <2>13
    <3> QED BY <2>10, <3>1, <3>2
  <2>15. /\ at[3] = end[2] + g3 /\ at[4] = end[3] + g4 /\ at[5] = end[4] + g5
         /\ at[6] = end[5] + g6 /\ at[7] = end[6] + g7 /\ at[8] = end[7] + g8
    BY <2>3, <2>4, <2>5, <2>6, <2>7, <2>8, <2>13
  <2>16. at[8] - back <= at[2] /\ at[2] <= at[3] /\ end[2] <= end[8] /\ end[3] <= end[8]
    BY <2>12, <2>14, <2>15
  <2>17. lo <= at[2] /\ lo <= at[3]
    <3>1. lo = MaxOf(0, at[8] - back)
      BY <1>19, <2>11, <2>13
    <3> QED BY <2>16, <3>1 DEF MaxOf
  <2>18. end[2] <= hi /\ end[3] <= hi
    <3>1. hi = MinOf(end[8], end[8] + ahead)
      BY <1>19, <2>11, <2>13
    <3> QED BY <2>16, <3>1 DEF MinOf
  <2>19. lo \in Int
    <3>1. lo = MaxOf(0, at[8] - back)
      BY <1>19, <2>11, <2>13
    <3> QED BY <3>1 DEF MaxOf
  <2> QED BY <1>16, <2>13, <2>17, <2>18, <2>19 DEF Between
<1>23. Says(w, SumPhrases)
  <2>1. PICK i \in DOMAIN L, j \in DOMAIN L : SlicedAt(w, L, lo, hi, i, j)
    BY <1>16, <1>21, <1>22, SliceIs DEF IsSentence
  <2>2. <<"balance", "due">> \in SumPhrases
    <3>1. "balance" \in {"balance"} /\ "due" \in {"due", "of", "is"}
      OBVIOUS
    <3>2. <<"balance", "due">> \in Then(One({"balance"}), One({"due", "of", "is"}))
      BY <3>1, PairIs
    <3> QED BY <3>2 DEF SumPhrases
  <2>3. <<L[2].text, L[2 + 1].text>> \in SumPhrases
    <3>1. L[2].text = "balance" /\ L[3].text = "due" /\ 2 + 1 = 3
      BY <1>4, <1>17
    <3> QED BY <2>2, <3>1
  <2>4. 2 + 1 \in Between(L, lo, hi)
    BY <1>22
  <2> QED BY <1>16, <1>22, <2>1, <2>3, <2>4, SlicedSays
<1>24. SaysBalance(s, 8)
  BY <1>15, <1>18, <1>20, <1>23 DEF SaysBalance
<1> QED BY <1>1, <1>14, <1>24

\* What the claims of a sentence say: only what holds whatever its figure, or
\* that n is a figure of one document, or that n is the balance.
TellsNothing(s, l) ==
    \A j \in DOMAIN s : \A x : SaidAt(x, Reading(s, l), j, l) => Harmless(x.claim, l)

TellsOf(s, l, i, n) ==
    \A j \in DOMAIN s : \A x : SaidAt(x, Reading(s, l), j, l) =>
        Harmless(x.claim, l) \/ OfDoc(x.claim, i, n)

TellsBalance(s, l, n) ==
    \A j \in DOMAIN s : \A x : SaidAt(x, Reading(s, l), j, l) =>
        Harmless(x.claim, l) \/ OfBalance(x.claim, n)

\* A sentence without references and amounts, and with no date but today's.
Silent(s, l) == UnboundAt(s, l, 0, 0) /\ 0 \notin DOMAIN s

LEMMA SilentTells ==
    ASSUME NEW l, LedgerRecord(l), NEW s, Silent(s, l)
    PROVE  TellsNothing(s, l)
<1> SUFFICES ASSUME NEW j \in DOMAIN s, NEW x, SaidAt(x, Reading(s, l), j, l)
             PROVE  Harmless(x.claim, l)
  BY DEF TellsNothing
<1>1. UnboundAt(s, l, 0, 0) /\ 0 \notin DOMAIN s
  BY DEF Silent
<1>2. 0 \in DOMAIN s => SaysBalance(s, 0)
  BY <1>1
<1>3. Harmless(x.claim, l) \/ (j = 0 /\ OfBalance(x.claim, 0))
  BY <1>1, <1>2, UnboundSaid
<1> QED BY <1>1, <1>3

LEMMA BalanceTells ==
    ASSUME NEW l, LedgerRecord(l), NEW n, NEW s, s = BalanceText(n), Measured(s), SpelledOut(s)
    PROVE  /\ TellsBalance(s, l, n) /\ Plain(s) /\ 8 \in DOMAIN s /\ s[8] = Dollar(n)
           /\ \A k \in DOMAIN s : s[k].kind # "doc"
           /\ \A k \in DOMAIN s : s[k].kind = "amount" => k = 8
<1>1. IsSentence(s) /\ BalanceShape(s, n)
  BY BalanceTextIs, BalanceShaped
<1>2. UnboundAt(s, l, n, 8) /\ 8 \in DOMAIN s /\ SaysBalance(s, 8)
  BY <1>1, BalanceUnbound
<1>3. TellsBalance(s, l, n)
  <2> SUFFICES ASSUME NEW j \in DOMAIN s, NEW x, SaidAt(x, Reading(s, l), j, l)
               PROVE  Harmless(x.claim, l) \/ OfBalance(x.claim, n)
    BY DEF TellsBalance
  <2> QED BY <1>2, UnboundSaid
<1>4. s[8] = Dollar(n)
  BY <1>1 DEF BalanceShape
<1> QED BY <1>2, <1>3, <1>4 DEF UnboundAt

\* A sentence about one document, with its figure.
About(s, l, d, n, p, q) ==
    /\ TellsOf(s, l, RefId(d), n) /\ Plain(s)
    /\ p \in DOMAIN s /\ q \in DOMAIN s /\ s[p] = Ref(d) /\ s[q] = Dollar(n)
    /\ \A k \in DOMAIN s : s[k].kind = "doc" <=> k = p
    /\ \A k \in DOMAIN s : s[k].kind = "amount" <=> k = q

LEMMA BoundTells ==
    ASSUME NEW s, NEW l, LedgerRecord(l), NEW d, NEW n, NEW p, NEW q, BoundAt(s, l, d, n, p, q),
           StatusesHold(s, l, d), WindowIsOpen(s, q)
    PROVE  About(s, l, d, n, p, q)
<1>1. TellsOf(s, l, RefId(d), n)
  <2> SUFFICES ASSUME NEW j \in DOMAIN s, NEW x, SaidAt(x, Reading(s, l), j, l)
               PROVE  Harmless(x.claim, l) \/ OfDoc(x.claim, RefId(d), n)
    BY DEF TellsOf
  <2> QED BY BoundSaid
<1> QED BY <1>1 DEF BoundAt, About

LEMMA InvoiceTells ==
    ASSUME NEW l, LedgerRecord(l), NEW d, RefId(d) \in InvoiceIds(l),
           InvoiceStatus(l, RefId(d)) \in {"outstanding", "overdue"}, NEW n,
           NEW s, s = InvoiceText(d, l, n), Measured(s), SpelledOut(s)
    PROVE  About(s, l, d, n, 2, 9)
<1>1. IsSentence(s) /\ InvoiceShape(s, d, l, n)
  BY InvoiceTextIs, InvoiceShaped
<1>2. DOMAIN s = 1..10 /\ s[10] = Word(InvoiceStatus(l, RefId(d)))
  BY <1>1 DEF InvoiceShape
<1>3. /\ BoundAt(s, l, d, n, 2, 9)
      /\ Spelled(s, BoundWords)
      /\ \A k \in 1..9 : s[k].text = "of" => s[k + 1].text # "which"
      /\ \A k \in 1..10 : s[k].text \in {"outstanding", "overdue"} =>
           k = 10 \/ s[k].text \notin Vocabulary
  BY <1>1, InvoiceBound
<1>4. Plain(s)
  BY <1>3 DEF BoundAt
<1>5. StatusesHold(s, l, d)
  <2>1. s[10].text = InvoiceStatus(l, RefId(d))
    BY <1>2, WordIs
  <2> QED BY <1>2, <1>3, <1>4, <2>1, ItsStatus
<1>6. WindowIsOpen(s, 9)
  <2>1. SaysOpen(s, 10)
    BY <1>2, <1>3 DEF SaysOpen, Spelled
  <2>2. 9 \in DOMAIN s /\ 10 \in DOMAIN s /\ \A k \in DOMAIN s : ~(k > 10)
    BY <1>2
  <2>3. \A k \in DOMAIN s : s[k].kind = "amount" <=> k = 9
    BY <1>3 DEF BoundAt
  <2> QED BY <1>4, <2>1, <2>2, <2>3, OpenWindow
<1> QED BY <1>3, <1>5, <1>6, BoundTells

LEMMA CreditTells ==
    ASSUME NEW l, LedgerRecord(l), NEW d, RefId(d) \in DocumentIds(l), NEW n,
           NEW s, s = CreditText(d, n), Measured(s), SpelledOut(s)
    PROVE  About(s, l, d, n, 5, 7)
<1>1. IsSentence(s) /\ CreditShape(s, d, n)
  BY CreditTextIs, CreditShaped
<1>2. DOMAIN s = 1..14
  BY <1>1 DEF CreditShape
<1>3. BoundAt(s, l, d, n, 5, 7) /\ SaysOpen(s, 14) /\ NoStatusIn(s)
  BY <1>1, CreditBound
<1>4. Plain(s) /\ \A k \in DOMAIN s : s[k].kind = "amount" <=> k = 7
  BY <1>3 DEF BoundAt
<1>5. WindowIsOpen(s, 7)
  <2>1. 7 \in DOMAIN s /\ 14 \in DOMAIN s /\ \A k \in DOMAIN s : ~(k > 14)
    BY <1>2
  <2> QED BY <1>3, <1>4, <2>1, OpenWindow
<1>6. StatusesHold(s, l, d)
  BY <1>3, <1>4, NoStatus
<1> QED BY <1>3, <1>5, <1>6, BoundTells

\* The sentence of an unapplied payment: "applied" is out of reach.
LEMMA AppliedIsFar ==
    ASSUME NEW s, IsSentence(s), Measured(s), NEW d, NEW n, PaymentShape(s, d, n),
           NEW k \in DOMAIN s, k > 14
    PROVE  LaidOut(s)[k].end > LaidOut(s)[8].end + Ahead
<1>1. PICK L : L = LaidOut(s)
  OBVIOUS
<1>2. DOMAIN s = 1..19
  BY DEF PaymentShape
<1>3. /\ \A i \in 1..19 : L[i].at \in Nat /\ L[i].end \in Nat
      /\ \A i \in 1..19 : L[i].end = L[i].at + Len(s[i].text)
      /\ \A i \in 1..19 : i > 1 => L[i].at = L[i - 1].end + Gap(s, i)
  BY <1>1, <1>2, PlacesAre
<1>4. /\ s[9].text = "," /\ s[10].text = "which" /\ s[11].text = "has" /\ s[12].text = "not"
      /\ s[13].text = "yet" /\ s[14].text = "been" /\ s[15].text = "applied"
  <2>1. /\ s[9] = Word(",") /\ s[10] = Word("which") /\ s[11] = Word("has")
        /\ s[12] = Word("not") /\ s[13] = Word("yet") /\ s[14] = Word("been")
        /\ s[15] = Word("applied")
    BY DEF PaymentShape
  <2> QED BY <2>1, WordIs
<1>5. /\ Gap(s, 10) = 1 /\ Gap(s, 11) = 1 /\ Gap(s, 12) = 1 /\ Gap(s, 13) = 1
      /\ Gap(s, 14) = 1 /\ Gap(s, 15) = 1 /\ Gap(s, 9) = 0
  <2>1. /\ "which" \notin Punctuation /\ "has" \notin Punctuation /\ "not" \notin Punctuation
        /\ "yet" \notin Punctuation /\ "been" \notin Punctuation
        /\ "applied" \notin Punctuation /\ "," \in Punctuation
    BY DEF Punctuation
  <2>2. \A i \in 9..15 : Gap(s, i) = IF s[i].text \in Punctuation THEN 0 ELSE 1
    BY DEF Gap
  <2>3. /\ s[10].text \notin Punctuation /\ s[11].text \notin Punctuation
        /\ s[12].text \notin Punctuation /\ s[13].text \notin Punctuation
        /\ s[14].text \notin Punctuation /\ s[15].text \notin Punctuation
        /\ s[9].text \in Punctuation
    BY <1>4, <2>1
  <2> QED BY <2>2, <2>3
<1>6. PICK a \in Nat, b \in Nat, c \in Nat, e \in Nat, f \in Nat, g \in Nat, h \in Nat :
        /\ a = Len(s[9].text) /\ b = Len(s[10].text) /\ c = Len(s[11].text)
        /\ e = Len(s[12].text) /\ f = Len(s[13].text) /\ g = Len(s[14].text)
        /\ h = Len(s[15].text)
  <2>1. \A i \in 1..19 : Len(s[i].text) \in Nat
    BY <1>2 DEF Measured
  <2>2. /\ Len(s[9].text) \in Nat /\ Len(s[10].text) \in Nat /\ Len(s[11].text) \in Nat
        /\ Len(s[12].text) \in Nat /\ Len(s[13].text) \in Nat /\ Len(s[14].text) \in Nat
        /\ Len(s[15].text) \in Nat
    BY <2>1
  <2> QED BY <2>2
<1>7. PICK ahead \in Nat : ahead = Ahead /\ ahead < a + b + c + e + f + g + h + 6
  <2>1. /\ Len(s[9].text) = Len(",") /\ Len(s[10].text) = Len("which")
        /\ Len(s[11].text) = Len("has") /\ Len(s[12].text) = Len("not")
        /\ Len(s[13].text) = Len("yet") /\ Len(s[14].text) = Len("been")
        /\ Len(s[15].text) = Len("applied")
    BY <1>4
  <2> QED BY <1>6, <2>1, ReachAssumption, WindowAssumption
<1>8. PICK at \in [1..19 -> Nat], end \in [1..19 -> Nat] :
        \A i \in 1..19 : at[i] = L[i].at /\ end[i] = L[i].end
  <2> DEFINE at == [i \in 1..19 |-> L[i].at]
             end == [i \in 1..19 |-> L[i].end]
  <2>1. at \in [1..19 -> Nat] /\ end \in [1..19 -> Nat]
    BY <1>3
  <2>2. \A i \in 1..19 : at[i] = L[i].at /\ end[i] = L[i].end
    OBVIOUS
  <2> HIDE DEF at, end
  <2> QED BY <2>1, <2>2
<1>9. /\ end[9] = at[9] + a /\ end[10] = at[10] + b /\ end[11] = at[11] + c
      /\ end[12] = at[12] + e /\ end[13] = at[13] + f /\ end[14] = at[14] + g
      /\ end[15] = at[15] + h
  <2>1. /\ L[9].end = L[9].at + Len(s[9].text) /\ L[10].end = L[10].at + Len(s[10].text)
        /\ L[11].end = L[11].at + Len(s[11].text) /\ L[12].end = L[12].at + Len(s[12].text)
        /\ L[13].end = L[13].at + Len(s[13].text) /\ L[14].end = L[14].at + Len(s[14].text)
        /\ L[15].end = L[15].at + Len(s[15].text)
    BY <1>3
  <2>2. /\ L[9].end = end[9] /\ L[10].end = end[10] /\ L[11].end = end[11]
        /\ L[12].end = end[12] /\ L[13].end = end[13] /\ L[14].end = end[14]
        /\ L[15].end = end[15]
        /\ L[9].at = at[9] /\ L[10].at = at[10] /\ L[11].at = at[11]
        /\ L[12].at = at[12] /\ L[13].at = at[13] /\ L[14].at = at[14]
        /\ L[15].at = at[15]
    BY <1>8
  <2> QED BY <1>6, <2>1, <2>2
<1>10. /\ at[9] = end[8] /\ at[10] = end[9] + 1 /\ at[11] = end[10] + 1
       /\ at[12] = end[11] + 1 /\ at[13] = end[12] + 1 /\ at[14] = end[13] + 1
       /\ at[15] = end[14] + 1
  <2>1. /\ L[9].at = L[8].end + 0 /\ L[10].at = L[9].end + 1 /\ L[11].at = L[10].end + 1
        /\ L[12].at = L[11].end + 1 /\ L[13].at = L[12].end + 1 /\ L[14].at = L[13].end + 1
        /\ L[15].at = L[14].end + 1
    BY <1>3, <1>5
  <2>2. /\ L[9].end = end[9] /\ L[10].end = end[10] /\ L[11].end = end[11]
        /\ L[12].end = end[12] /\ L[13].end = end[13] /\ L[14].end = end[14]
        /\ L[8].end = end[8]
        /\ L[9].at = at[9] /\ L[10].at = at[10] /\ L[11].at = at[11]
        /\ L[12].at = at[12] /\ L[13].at = at[13] /\ L[14].at = at[14]
        /\ L[15].at = at[15]
    BY <1>8
  <2> QED BY <2>1, <2>2
<1>11. end[15] > end[8] + ahead
  BY <1>7, <1>9, <1>10
<1>12. end[k] >= end[15]
  <2>1. k \in 1..19
    BY <1>2
  <2>2. CASE k = 15
    BY <2>2
  <2>3. CASE k > 15
    <3>1. L[15].end <= L[k].at
      BY <1>1, <1>2, <2>1, <2>3, InReadingOrder
    <3>2. PICK v \in Nat : v = Len(s[k].text)
      BY <1>2 DEF Measured
    <3>3. PICK u \in Nat : u = at[k]
      BY <2>1
    <3>4. end[k] = u + v
      <4>1. L[k].end = L[k].at + Len(s[k].text)
        BY <1>3, <2>1
      <4>2. L[k].end = end[k] /\ L[k].at = at[k]
        BY <1>8, <2>1
      <4> QED BY <3>2, <3>3, <4>1, <4>2
    <3>5. end[15] <= u
      BY <1>8, <2>1, <3>1, <3>3
    <3>6. end[15] \in Nat
      OBVIOUS
    <3> QED BY <3>4, <3>5, <3>6
  <2> QED BY <2>1, <2>2, <2>3
<1>13. k \in 1..19
  BY <1>2
<1>14. L[k].end = end[k] /\ L[8].end = end[8] /\ end[k] > end[8] + ahead
  BY <1>8, <1>11, <1>12, <1>13
<1> QED BY <1>1, <1>7, <1>14

LEMMA PaymentTells ==
    ASSUME NEW l, LedgerRecord(l), NEW d, RefId(d) \in DocumentIds(l), NEW n,
           NEW s, s = PaymentText(d, n), Measured(s), SpelledOut(s)
    PROVE  About(s, l, d, n, 6, 8)
<1>1. IsSentence(s) /\ PaymentShape(s, d, n)
  BY PaymentTextIs, PaymentShaped
<1>2. DOMAIN s = 1..19
  BY <1>1 DEF PaymentShape
<1>3. BoundAt(s, l, d, n, 6, 8) /\ SaysOpen(s, 14) /\ NoStatusIn(s)
  BY <1>1, PaymentBound
<1>4. Plain(s) /\ \A k \in DOMAIN s : s[k].kind = "amount" <=> k = 8
  BY <1>3 DEF BoundAt
<1>5. WindowIsOpen(s, 8)
  <2>1. 8 \in DOMAIN s /\ 14 \in DOMAIN s
    BY <1>2
  <2>2. \A k \in DOMAIN s : k > 14 => LaidOut(s)[k].end > LaidOut(s)[8].end + Ahead
    BY <1>1, AppliedIsFar
  <2> QED BY <1>3, <1>4, <2>1, <2>2, OpenWindow
<1>6. StatusesHold(s, l, d)
  BY <1>3, <1>4, NoStatus
<1> QED BY <1>3, <1>5, <1>6, BoundTells

\* Words that golden drafts have.
AllGolden(ws, n) == DOMAIN ws = 1..n /\ \A k \in 1..n : ws[k] \in GoldenWords

LEMMA WordsSilent ==
    ASSUME NEW l, NEW ws, NEW n \in Nat, AllGolden(ws, n), NEW s, s = Words(ws), Measured(s)
    PROVE  Silent(s, l)
<1>1. IsSentence(s)
  BY WordsAre DEF AllGolden
<1>2. DOMAIN s = 1..n /\ \A k \in 1..n : s[k] = Word(ws[k])
  BY WordsShape DEF WordsAt, AllGolden
<1>3. \A k \in 1..n : s[k].kind = "word" /\ s[k].text = ws[k]
  BY <1>2, WordIs
<1>4. Plain(s)
  <2>1. DatesAlone(s)
    BY <1>2, <1>3, NoDates
  <2>2. SpelledOut(s)
    BY <1>2, <1>3 DEF SpelledOut
  <2>3. \A k \in DOMAIN s : s[k].kind = "word" => s[k].text \in GoldenWords
    BY <1>2, <1>3 DEF AllGolden
  <2>4. \A k \in DOMAIN s : s[k].kind # "amount" /\ s[k].kind # "date"
    BY <1>2, <1>3
  <2> QED BY <1>1, <2>1, <2>2, <2>3, <2>4, PlainIs
<1>5. \A k \in DOMAIN s : s[k].kind = "word"
  BY <1>2, <1>3
<1> QED BY <1>2, <1>4, <1>5 DEF Silent, UnboundAt

\* The words of the opening.
LEMMA ThanksAre ==
    ASSUME NEW ws, ws = <<"thank", "you", "for", "reaching", "out", "about", "your", "account">>
    PROVE  AllGolden(ws, 8)
<1>1. DOMAIN <<"thank", "you", "for", "reaching", "out", "about", "your", "account">> = 1..8
  OBVIOUS
<1>2. DOMAIN ws = 1..8
  BY <1>1
<1>3. /\ ws[1] = "thank" /\ ws[2] = "you" /\ ws[3] = "for" /\ ws[4] = "reaching"
      /\ ws[5] = "out" /\ ws[6] = "about" /\ ws[7] = "your" /\ ws[8] = "account"
  OBVIOUS
<1>4. /\ "thank" \in GoldenWords /\ "you" \in GoldenWords /\ "for" \in GoldenWords
      /\ "reaching" \in GoldenWords /\ "out" \in GoldenWords /\ "about" \in GoldenWords
      /\ "your" \in GoldenWords /\ "account" \in GoldenWords
  BY DEF GoldenWords
<1>5. ASSUME NEW k \in 1..8 PROVE ws[k] \in GoldenWords
  <2>1. \/ k = 1 \/ k = 2 \/ k = 3 \/ k = 4 \/ k = 5 \/ k = 6 \/ k = 7
        \/ k = 8
    OBVIOUS
  <2> QED BY <1>3, <1>4, <2>1
<1> QED BY <1>2, <1>5 DEF AllGolden


LEMMA PositionIs ==
    ASSUME NEW ws, ws = <<"here", "is", "the", "current", "position", "as", "of">>
    PROVE  AllGolden(ws, 7)
<1>1. DOMAIN <<"here", "is", "the", "current", "position", "as", "of">> = 1..7
  OBVIOUS
<1>2. DOMAIN ws = 1..7
  BY <1>1
<1>3. /\ ws[1] = "here" /\ ws[2] = "is" /\ ws[3] = "the" /\ ws[4] = "current"
      /\ ws[5] = "position" /\ ws[6] = "as" /\ ws[7] = "of"
  OBVIOUS
<1>4. /\ "here" \in GoldenWords /\ "is" \in GoldenWords /\ "the" \in GoldenWords
      /\ "current" \in GoldenWords /\ "position" \in GoldenWords /\ "as" \in GoldenWords
      /\ "of" \in GoldenWords
  BY DEF GoldenWords
<1>5. ASSUME NEW k \in 1..7 PROVE ws[k] \in GoldenWords
  <2>1. \/ k = 1 \/ k = 2 \/ k = 3 \/ k = 4 \/ k = 5 \/ k = 6 \/ k = 7
    OBVIOUS
  <2> QED BY <1>3, <1>4, <2>1
<1> QED BY <1>2, <1>5 DEF AllGolden

\* The words before the invoices, after a payment, and at the end.
LEMMA ItemsAre ==
    ASSUME NEW ws, ws = <<"this", "balance", "reflects", "the", "following", "open",
                         "invoices", ":">>
    PROVE  AllGolden(ws, 8)
<1>1. DOMAIN <<"this", "balance", "reflects", "the", "following", "open",
               "invoices", ":">> = 1..8
  OBVIOUS
<1>2. DOMAIN ws = 1..8
  BY <1>1
<1>3. /\ ws[1] = "this" /\ ws[2] = "balance" /\ ws[3] = "reflects" /\ ws[4] = "the"
      /\ ws[5] = "following" /\ ws[6] = "open" /\ ws[7] = "invoices" /\ ws[8] = ":"
  OBVIOUS
<1>4. /\ "this" \in GoldenWords /\ "balance" \in GoldenWords /\ "reflects" \in GoldenWords
      /\ "the" \in GoldenWords /\ "following" \in GoldenWords /\ "open" \in GoldenWords
      /\ "invoices" \in GoldenWords /\ ":" \in GoldenWords
  BY DEF GoldenWords
<1>5. ASSUME NEW k \in 1..8 PROVE ws[k] \in GoldenWords
  <2>1. \/ k = 1 \/ k = 2 \/ k = 3 \/ k = 4 \/ k = 5 \/ k = 6 \/ k = 7
        \/ k = 8
    OBVIOUS
  <2> QED BY <1>3, <1>4, <2>1
<1> QED BY <1>2, <1>5 DEF AllGolden


LEMMA ReflectedIs ==
    ASSUME NEW ws, ws = <<"it", "is", "reflected", "in", "the", "balance", "above">>
    PROVE  AllGolden(ws, 7)
<1>1. DOMAIN <<"it", "is", "reflected", "in", "the", "balance", "above">> = 1..7
  OBVIOUS
<1>2. DOMAIN ws = 1..7
  BY <1>1
<1>3. /\ ws[1] = "it" /\ ws[2] = "is" /\ ws[3] = "reflected" /\ ws[4] = "in"
      /\ ws[5] = "the" /\ ws[6] = "balance" /\ ws[7] = "above"
  OBVIOUS
<1>4. /\ "it" \in GoldenWords /\ "is" \in GoldenWords /\ "reflected" \in GoldenWords
      /\ "in" \in GoldenWords /\ "the" \in GoldenWords /\ "balance" \in GoldenWords
      /\ "above" \in GoldenWords
  BY DEF GoldenWords
<1>5. ASSUME NEW k \in 1..7 PROVE ws[k] \in GoldenWords
  <2>1. \/ k = 1 \/ k = 2 \/ k = 3 \/ k = 4 \/ k = 5 \/ k = 6 \/ k = 7
    OBVIOUS
  <2> QED BY <1>3, <1>4, <2>1
<1> QED BY <1>2, <1>5 DEF AllGolden

FarewellWords ==
    <<"if", "you", "have", "questions", "about", "any", "of", "the",
      "items", "above", ",", "please", "reply", "to", "this", "message",
      "and", "we", "will", "be", "glad", "to", "walk", "through", "them",
      "with", "you">>

LEMMA FarewellGolden ==
    /\ "if" \in GoldenWords /\ "you" \in GoldenWords /\ "have" \in GoldenWords
    /\ "questions" \in GoldenWords /\ "about" \in GoldenWords /\ "any" \in GoldenWords
    /\ "of" \in GoldenWords /\ "the" \in GoldenWords /\ "items" \in GoldenWords
    /\ "above" \in GoldenWords /\ "," \in GoldenWords /\ "please" \in GoldenWords
    /\ "reply" \in GoldenWords /\ "to" \in GoldenWords /\ "this" \in GoldenWords
    /\ "message" \in GoldenWords /\ "and" \in GoldenWords /\ "we" \in GoldenWords
    /\ "will" \in GoldenWords /\ "be" \in GoldenWords /\ "glad" \in GoldenWords
    /\ "walk" \in GoldenWords /\ "through" \in GoldenWords /\ "them" \in GoldenWords
    /\ "with" \in GoldenWords
<1>1. /\ "if" \in GoldenWords /\ "you" \in GoldenWords /\ "have" \in GoldenWords
      /\ "questions" \in GoldenWords /\ "about" \in GoldenWords /\ "any" \in GoldenWords
      /\ "of" \in GoldenWords /\ "the" \in GoldenWords /\ "items" \in GoldenWords
  BY DEF GoldenWords
<1>2. /\ "above" \in GoldenWords /\ "," \in GoldenWords /\ "please" \in GoldenWords
      /\ "reply" \in GoldenWords /\ "to" \in GoldenWords /\ "this" \in GoldenWords
      /\ "message" \in GoldenWords /\ "and" \in GoldenWords /\ "we" \in GoldenWords
  BY DEF GoldenWords
<1>3. /\ "will" \in GoldenWords /\ "be" \in GoldenWords /\ "glad" \in GoldenWords
      /\ "walk" \in GoldenWords /\ "through" \in GoldenWords /\ "them" \in GoldenWords
      /\ "with" \in GoldenWords
  BY DEF GoldenWords
<1> QED BY <1>1, <1>2, <1>3

LEMMA FarewellIs == AllGolden(FarewellWords, 27)
<1>1. PICK ws : ws = FarewellWords
  OBVIOUS
<1>2. DOMAIN ws = 1..27
  <2>1. DOMAIN FarewellWords = 1..27
    BY DEF FarewellWords
  <2> QED BY <1>1, <2>1
<1>3. /\ ws[1] = "if" /\ ws[2] = "you" /\ ws[3] = "have" /\ ws[4] = "questions"
      /\ ws[5] = "about" /\ ws[6] = "any" /\ ws[7] = "of" /\ ws[8] = "the"
      /\ ws[9] = "items" /\ ws[10] = "above" /\ ws[11] = "," /\ ws[12] = "please"
      /\ ws[13] = "reply" /\ ws[14] = "to" /\ ws[15] = "this" /\ ws[16] = "message"
      /\ ws[17] = "and" /\ ws[18] = "we" /\ ws[19] = "will" /\ ws[20] = "be"
      /\ ws[21] = "glad" /\ ws[22] = "to" /\ ws[23] = "walk" /\ ws[24] = "through"
      /\ ws[25] = "them" /\ ws[26] = "with" /\ ws[27] = "you"
  <2>1. /\ ws[1] = "if" /\ ws[2] = "you" /\ ws[3] = "have"
        /\ ws[4] = "questions" /\ ws[5] = "about" /\ ws[6] = "any"
        /\ ws[7] = "of" /\ ws[8] = "the" /\ ws[9] = "items"
    BY <1>1 DEF FarewellWords
  <2>2. /\ ws[10] = "above" /\ ws[11] = "," /\ ws[12] = "please"
        /\ ws[13] = "reply" /\ ws[14] = "to" /\ ws[15] = "this"
        /\ ws[16] = "message" /\ ws[17] = "and" /\ ws[18] = "we"
    BY <1>1 DEF FarewellWords
  <2>3. /\ ws[19] = "will" /\ ws[20] = "be" /\ ws[21] = "glad"
        /\ ws[22] = "to" /\ ws[23] = "walk" /\ ws[24] = "through"
        /\ ws[25] = "them" /\ ws[26] = "with" /\ ws[27] = "you"
    BY <1>1 DEF FarewellWords
  <2> QED BY <2>1, <2>2, <2>3
<1>4. /\ ws[1] \in GoldenWords /\ ws[2] \in GoldenWords /\ ws[3] \in GoldenWords /\ ws[4] \in GoldenWords
      /\ ws[5] \in GoldenWords /\ ws[6] \in GoldenWords /\ ws[7] \in GoldenWords /\ ws[8] \in GoldenWords
      /\ ws[9] \in GoldenWords /\ ws[10] \in GoldenWords /\ ws[11] \in GoldenWords /\ ws[12] \in GoldenWords
      /\ ws[13] \in GoldenWords /\ ws[14] \in GoldenWords /\ ws[15] \in GoldenWords /\ ws[16] \in GoldenWords
      /\ ws[17] \in GoldenWords /\ ws[18] \in GoldenWords /\ ws[19] \in GoldenWords /\ ws[20] \in GoldenWords
      /\ ws[21] \in GoldenWords /\ ws[22] \in GoldenWords /\ ws[23] \in GoldenWords /\ ws[24] \in GoldenWords
      /\ ws[25] \in GoldenWords /\ ws[26] \in GoldenWords /\ ws[27] \in GoldenWords
  <2>1. /\ ws[1] \in GoldenWords /\ ws[2] \in GoldenWords /\ ws[3] \in GoldenWords
        /\ ws[4] \in GoldenWords /\ ws[5] \in GoldenWords /\ ws[6] \in GoldenWords
        /\ ws[7] \in GoldenWords /\ ws[8] \in GoldenWords /\ ws[9] \in GoldenWords
    BY <1>3, FarewellGolden, ZenonT(60)
  <2>2. /\ ws[10] \in GoldenWords /\ ws[11] \in GoldenWords /\ ws[12] \in GoldenWords
        /\ ws[13] \in GoldenWords /\ ws[14] \in GoldenWords /\ ws[15] \in GoldenWords
        /\ ws[16] \in GoldenWords /\ ws[17] \in GoldenWords /\ ws[18] \in GoldenWords
    BY <1>3, FarewellGolden, ZenonT(60)
  <2>3. /\ ws[19] \in GoldenWords /\ ws[20] \in GoldenWords /\ ws[21] \in GoldenWords
        /\ ws[22] \in GoldenWords /\ ws[23] \in GoldenWords /\ ws[24] \in GoldenWords
        /\ ws[25] \in GoldenWords /\ ws[26] \in GoldenWords /\ ws[27] \in GoldenWords
    BY <1>3, FarewellGolden, ZenonT(60)
  <2> QED BY <2>1, <2>2, <2>3
<1>5. ASSUME NEW k \in 1..27 PROVE ws[k] \in GoldenWords
  <2>1. k \in 1..9 \/ k \in 10..18 \/ k \in 19..27
    OBVIOUS
  <2>2. CASE k \in 1..9
    <3>1. \/ k = 1 \/ k = 2 \/ k = 3 \/ k = 4 \/ k = 5
          \/ k = 6 \/ k = 7 \/ k = 8 \/ k = 9
      BY <2>2
    <3> QED BY <1>4, <3>1
  <2>3. CASE k \in 10..18
    <3>1. \/ k = 10 \/ k = 11 \/ k = 12 \/ k = 13 \/ k = 14
          \/ k = 15 \/ k = 16 \/ k = 17 \/ k = 18
      BY <2>3
    <3> QED BY <1>4, <3>1
  <2>4. CASE k \in 19..27
    <3>1. \/ k = 19 \/ k = 20 \/ k = 21 \/ k = 22 \/ k = 23
          \/ k = 24 \/ k = 25 \/ k = 26 \/ k = 27
      BY <2>4
    <3> QED BY <1>4, <3>1
  <2> QED BY <2>1, <2>2, <2>3, <2>4
<1> QED BY <1>1, <1>2, <1>5 DEF AllGolden

\* The sentence that dates the account.
PositionSentence(l) ==
    Words(<<"here", "is", "the", "current", "position", "as", "of">>) \o <<DateToken(l.asOf)>>

LEMMA PositionSilent ==
    ASSUME NEW l, NEW s, s = PositionSentence(l), Measured(s)
    PROVE  Silent(s, l)
<1>1. PICK ws : ws = <<"here", "is", "the", "current", "position", "as", "of">>
  OBVIOUS
<1>2. PICK a, b : a = Words(ws) /\ b = <<DateToken(l.asOf)>>
  OBVIOUS
<1>3. AllGolden(ws, 7)
  BY <1>1, PositionIs
<1>4. WordsAt(a, ws, 7) /\ IsSentence(a)
  BY <1>2, <1>3, WordsShape, WordsAre DEF AllGolden
<1>5. IsList(b) /\ Len(b) = 1 /\ b[1] = DateToken(l.asOf) /\ IsSentence(b)
  BY <1>2, ShortIsList, TokensAre, OneToken DEF AtMostOne
<1>6. s = a \o b
  BY <1>1, <1>2 DEF PositionSentence
<1>7. IsSentence(s)
  BY <1>4, <1>5, <1>6, ToldIs
<1>8. JoinedAs(s, a, b, 7, 1)
  <2>1. IsList(a) /\ Len(a) = 7
    BY <1>4 DEF WordsAt
  <2>2. JoinedAs(a \o b, a, b, 7, 1)
    BY <1>5, <2>1, TwoParts
  <2> QED BY <1>6, <2>2
<1>9. DOMAIN s = 1..8 /\ \A k \in 1..7 : s[k] = Word(ws[k])
  BY <1>4, <1>8 DEF JoinedAs, WordsAt
<1>10. s[8] = DateToken(l.asOf)
  <2>1. s[7 + 1] = b[1]
    BY <1>8 DEF JoinedAs
  <2> QED BY <1>5, <2>1
<1>11. \A k \in 1..7 : s[k].kind = "word" /\ s[k].text = ws[k] /\ s[k].text \in GoldenWords
  BY <1>3, <1>9, WordIs DEF AllGolden
<1>12. s[8].kind = "date" /\ s[8].num = l.asOf /\ s[8].text = "yyyy-mm-dd"
  BY <1>10, TokenFields
<1>13. \A k \in 1..8 : k \in 1..7 \/ k = 8
  OBVIOUS
<1>14. \A k \in 1..8 : /\ s[k].kind # "doc" /\ s[k].kind # "amount"
                       /\ s[k].kind = "date" <=> k = 8
  <2> SUFFICES ASSUME NEW k \in 1..8
               PROVE  /\ s[k].kind # "doc" /\ s[k].kind # "amount"
                      /\ s[k].kind = "date" <=> k = 8
    OBVIOUS
  <2>1. CASE k \in 1..7
    BY <1>11, <2>1
  <2>2. CASE k = 8
    BY <1>12, <2>2
  <2> QED BY <1>13, <2>1, <2>2
<1>15. Plain(s)
  <2>1. DatesAlone(s)
    <3>1. ASSUME NEW k \in 1..7 PROVE s[k].text \notin {"invoice", "payment", "credit"}
      <4>1. /\ ws[1] = "here" /\ ws[2] = "is" /\ ws[3] = "the" /\ ws[4] = "current"
            /\ ws[5] = "position" /\ ws[6] = "as" /\ ws[7] = "of"
        BY <1>1
      <4>2. k = 1 \/ k = 2 \/ k = 3 \/ k = 4 \/ k = 5 \/ k = 6 \/ k = 7
        OBVIOUS
      <4> QED BY <1>11, <4>1, <4>2
    <3>3. ASSUME NEW j \in DOMAIN s, NEW k \in DOMAIN s, s[j].kind = "date", k < j
          PROVE  s[k].text \notin {"invoice", "payment", "credit"}
      <4>1. j = 8 /\ k \in 1..7
        BY <1>9, <1>14, <3>3
      <4> QED BY <3>1, <4>1
    <3> QED BY <3>3 DEF DatesAlone
  <2>2. SpelledOut(s)
    BY <1>9, <1>14 DEF SpelledOut
  <2>3. \A k \in DOMAIN s : s[k].kind = "word" => s[k].text \in GoldenWords
    BY <1>9, <1>11, <1>12, <1>13
  <2>4. \A k \in DOMAIN s : s[k].kind # "amount"
    BY <1>9, <1>14
  <2>5. \A k \in DOMAIN s : s[k].kind = "date" => s[k].text = "yyyy-mm-dd"
    BY <1>9, <1>12, <1>14
  <2> QED BY <1>7, <2>1, <2>2, <2>3, <2>4, <2>5, PlainIs
<1>16. \A k \in DOMAIN s : s[k].kind # "doc" /\ s[k].kind # "amount"
  BY <1>9, <1>14
<1>17. \A k \in DOMAIN s : s[k].kind = "date" => s[k].num = l.asOf
  BY <1>9, <1>12, <1>14
<1>18. 0 \notin DOMAIN s
  BY <1>9
<1> QED BY <1>15, <1>16, <1>17, <1>18 DEF Silent, UnboundAt

-----------------------------------------------------------------------------
(***************************************************************************)
(* The sentences of the golden draft                                       *)
(***************************************************************************)
\* A sentence of words alone, or the one that dates the account.
Still(s, l) ==
    \/ \E n \in Nat : \E ws : AllGolden(ws, n) /\ s = Words(ws)
    \/ s = PositionSentence(l)

\* A sentence of the draft, and what it is to say.
SaysInvoice(s, d, l) == s = InvoiceText(d, l, OpenAmount(l, RefId(d)))
SaysPayment(s, d, l) == s = PaymentText(d, UnappliedAmount(l, RefId(d)))
SaysCredit(s, d, l)  == s = CreditText(d, UnappliedAmount(l, RefId(d)))

GoldenSentence(s, l) ==
    \/ Still(s, l)
    \/ s = BalanceText(NetBalance(l))
    \/ \E d \in Range(l.docs) :
         \/ RefId(d) \in OpenInvoices(l) /\ SaysInvoice(s, d, l)
         \/ RefId(d) \in UnappliedPayments(l) /\ SaysPayment(s, d, l)
         \/ RefId(d) \in OpenCredits(l) /\ SaysCredit(s, d, l)

\* A text that opens as the golden draft does.
Opens(t, l) ==
    /\ IsList(t) /\ {1, 2, 3} \subseteq DOMAIN t
    /\ Still(t[1], l) /\ Still(t[2], l) /\ t[3] = BalanceText(NetBalance(l))

LEMMA OpensOn ==
    ASSUME NEW l, NEW a, Opens(a, l), NEW b, IsList(b)
    PROVE  Opens(a \o b, l) /\ Range(a \o b) = Range(a) \cup Range(b)
<1>1. PICK m \in Nat : m = Len(a) /\ DOMAIN a = 1..m
  BY ListIs DEF Opens
<1>2. PICK n \in Nat : n = Len(b)
  BY ListIs
<1>3. PICK c : c = a \o b
  OBVIOUS
<1>4. JoinedAs(c, a, b, m, n)
  BY <1>1, <1>2, <1>3, TwoParts DEF Opens
<1>5. IsList(c) /\ DOMAIN c = 1..(m + n) /\ \A k \in 1..m : c[k] = a[k]
  BY <1>4 DEF JoinedAs
<1>6. 1 \in 1..m /\ 2 \in 1..m /\ 3 \in 1..m
  BY <1>1 DEF Opens
<1>7. {1, 2, 3} \subseteq 1..(m + n)
  BY <1>1, <1>2, <1>6
<1>8. Opens(c, l)
  BY <1>5, <1>6, <1>7 DEF Opens
<1>9. Range(a \o b) = Range(a) \cup Range(b)
  BY RangeOfTwo DEF IsList, Opens
<1> QED BY <1>3, <1>8, <1>9

LEMMA ClosingStill == ASSUME NEW l PROVE Still(Closing, l)
<1>1. Closing = Words(FarewellWords)
  BY DEF Closing, FarewellWords
<1>2. AllGolden(FarewellWords, 27)
  BY FarewellIs
<1> QED BY <1>1, <1>2 DEF Still

LEMMA OpeningStill ==
    ASSUME NEW l
    PROVE  LET a == Opening(l) IN /\ IsList(a) /\ Len(a) = 2 /\ DOMAIN a = 1..2
                                  /\ Still(a[1], l) /\ Still(a[2], l)
<1>1. PICK ws : ws = <<"thank", "you", "for", "reaching", "out", "about", "your", "account">>
  OBVIOUS
<1>2. AllGolden(ws, 8)
  BY <1>1, ThanksAre
<1>3. Still(Words(ws), l)
  BY <1>2 DEF Still
<1>4. PICK x : x = Words(ws)
  OBVIOUS
<1>5. PICK y : y = PositionSentence(l)
  OBVIOUS
<1>6. Opening(l) = <<x, y>>
  BY <1>1, <1>4, <1>5 DEF Opening, PositionSentence
<1>7. PICK a : a = Opening(l)
  OBVIOUS
<1>8. /\ a = <<x, y>> /\ Len(a) = 2 /\ DOMAIN a = 1..2 /\ a[1] = x /\ a[2] = y
  BY <1>6, <1>7
<1>9. Range(a) = {x, y}
  BY <1>8 DEF Range
<1>10. a \in Seq({x, y})
  BY <1>8
<1>11. Still(y, l)
  BY <1>5 DEF Still
<1> QED BY <1>3, <1>4, <1>7, <1>8, <1>9, <1>10, <1>11 DEF IsList

\* The references of some documents, in the order of the records.
LEMMA InOrderAre ==
    ASSUME NEW l, IsList(l.docs), NEW D
    PROVE  /\ IsList(InOrder(l, D))
           /\ Range(InOrder(l, D)) = {d \in Range(l.docs) : RefId(d) \in D}
<1>1. PICK n \in Nat : DOMAIN l.docs = 1..n
  BY ListIs
<1>2. PICK ss : ss = [k \in 1..n |-> IF RefId(l.docs[k]) \in D THEN <<l.docs[k]>> ELSE << >>]
  OBVIOUS
<1>3. ASSUME NEW k \in 1..n PROVE AtMostOne(ss[k])
  BY <1>2 DEF AtMostOne
<1>4. ss = [k \in 1..n |-> ss[k]]
  BY <1>2
<1>5. \A k \in 1..n : ss[k] \in Seq(Range(ss[k]))
  BY <1>3, ShortIsList DEF IsList
<1>6. /\ FlattenSeq(ss) \in Seq(Range(FlattenSeq(ss)))
      /\ Range(FlattenSeq(ss)) = UNION {Range(ss[k]) : k \in 1..n}
  BY <1>4, <1>5, RangeOfFlat
<1>7. Listed(ss) = ss
  BY <1>4, ListedIs
<1>8. InOrder(l, D) = FlattenSeq(ss)
  BY <1>1, <1>2, <1>7 DEF InOrder
<1>9. \A k \in 1..n : Range(ss[k]) = IF RefId(l.docs[k]) \in D THEN {l.docs[k]} ELSE {}
  <2> TAKE k \in 1..n
  <2>1. CASE RefId(l.docs[k]) \in D
    <3>1. ss[k] = <<l.docs[k]>>
      BY <1>2, <2>1
    <3>2. DOMAIN ss[k] = {1} /\ ss[k][1] = l.docs[k]
      BY <3>1
    <3> QED BY <2>1, <3>2 DEF Range
  <2>2. CASE RefId(l.docs[k]) \notin D
    <3>1. ss[k] = << >>
      BY <1>2, <2>2
    <3>2. DOMAIN ss[k] = {}
      BY <3>1
    <3> QED BY <2>2, <3>2 DEF Range
  <2> QED BY <2>1, <2>2
<1>10. UNION {Range(ss[k]) : k \in 1..n} = {d \in Range(l.docs) : RefId(d) \in D}
  <2>1. Range(l.docs) = {l.docs[k] : k \in 1..n}
    BY <1>1 DEF Range
  <2>2. \A k \in 1..n : \A d : d \in Range(ss[k]) <=> d = l.docs[k] /\ RefId(d) \in D
    BY <1>9
  <2>3. \A d : (\E k \in 1..n : d \in Range(ss[k])) <=> d \in Range(l.docs) /\ RefId(d) \in D
    BY <2>1, <2>2
  <2> QED BY <2>3, Zenon
<1> QED BY <1>6, <1>8, <1>10 DEF IsList

\* What is said of each of some documents.
LEMMA EachSaid ==
    ASSUME NEW refs, IsList(refs), NEW said, said = [k \in DOMAIN refs |-> said[k]]
    PROVE  IsList(said) /\ \E n \in Nat : DOMAIN refs = 1..n /\ DOMAIN said = 1..n
<1>1. PICK n \in Nat : DOMAIN refs = 1..n
  BY ListIs
<1>2. said = [k \in 1..n |-> said[k]]
  BY <1>1
<1>3. Listed(said) = said /\ said \in Seq(Range(said))
  BY <1>2, ListedIs
<1>4. DOMAIN said = 1..n
  BY <1>2
<1> QED BY <1>1, <1>3, <1>4 DEF IsList

LEMMA PaymentSaid ==
    ASSUME NEW d, NEW l
    PROVE  LET a == PaymentSentences(d, l)
           IN  /\ IsList(a) /\ Range(a) = {a[1], a[2]}
               /\ SaysPayment(a[1], d, l) /\ Still(a[2], l)
<1>1. PICK ws : ws = <<"it", "is", "reflected", "in", "the", "balance", "above">>
  OBVIOUS
<1>2. AllGolden(ws, 7)
  BY <1>1, ReflectedIs
<1>3. PICK x : x = PaymentText(d, UnappliedAmount(l, RefId(d)))
  OBVIOUS
<1>4. PICK y : y = Words(ws)
  OBVIOUS
<1>5. PICK a : a = PaymentSentences(d, l)
  OBVIOUS
<1>6. a = <<x, y>>
  BY <1>1, <1>3, <1>4, <1>5 DEF PaymentSentences, PaymentText
<1>7. DOMAIN a = 1..2 /\ a[1] = x /\ a[2] = y
  BY <1>6
<1>8. Range(a) = {x, y}
  BY <1>7 DEF Range
<1>9. a \in Seq({x, y})
  BY <1>6
<1>10. Still(y, l)
  BY <1>2, <1>4 DEF Still
<1> QED BY <1>3, <1>5, <1>7, <1>8, <1>9, <1>10 DEF IsList, SaysPayment

\* What the golden draft says: each sentence with the figure of the records,
\* and of each document with something open.
GoldenSays(t, l) ==
    /\ Opens(t, l)
    /\ \A s \in Range(t) : GoldenSentence(s, l)
    /\ \A d \in Range(l.docs) :
         /\ RefId(d) \in OpenInvoices(l) => \E s \in Range(t) : SaysInvoice(s, d, l)
         /\ RefId(d) \in UnappliedPayments(l) => \E s \in Range(t) : SaysPayment(s, d, l)
         /\ RefId(d) \in OpenCredits(l) => \E s \in Range(t) : SaysCredit(s, d, l)

LEMMA GoldenIs ==
    ASSUME NEW l, IsList(l.docs)
    PROVE  GoldenSays(GoldenDraft(l), l)
<1> DEFINE invoices == InOrder(l, OpenInvoices(l))
           payments == InOrder(l, {p \in PaymentIds(l) : UnappliedAmount(l, p) > 0})
           credits  == InOrder(l, {c \in CreditIds(l) : UnappliedAmount(l, c) > 0})
           open == [k \in DOMAIN invoices |-> InvoiceSentence(invoices[k], l)]
           cash == [k \in DOMAIN payments |-> PaymentSentences(payments[k], l)]
           memo == [k \in DOMAIN credits |-> CreditSentence(credits[k], l)]
           items == <<"this", "balance", "reflects", "the", "following", "open",
                      "invoices", ":">>
           told == IF open = << >> THEN << >> ELSE <<Words(items)>>
<1>1. GoldenDraft(l) = Opening(l) \o <<BalanceSentence(l)>> \o told \o open
                         \o FlattenSeq(cash) \o memo \o <<Closing>>
  BY DEF GoldenDraft
<1>2. /\ IsList(invoices) /\ Range(invoices) = {d \in Range(l.docs) : RefId(d) \in OpenInvoices(l)}
      /\ IsList(payments) /\ Range(payments) = {d \in Range(l.docs) : RefId(d) \in UnappliedPayments(l)}
      /\ IsList(credits) /\ Range(credits) = {d \in Range(l.docs) : RefId(d) \in OpenCredits(l)}
  BY InOrderAre DEF UnappliedPayments, OpenCredits
<1> HIDE DEF invoices, payments, credits
<1>3. IsList(told) /\ \A s \in Range(told) : Still(s, l)
  <2>1. PICK ws : ws = items
    OBVIOUS
  <2>2. AllGolden(ws, 8)
    BY <2>1, ItemsAre
  <2>3. Still(Words(ws), l)
    BY <2>2 DEF Still
  <2>4. told = << >> \/ told = <<Words(ws)>>
    BY <2>1
  <2> HIDE DEF told
  <2>5. IsList(told)
    BY <2>4, ShortIsList DEF AtMostOne
  <2>6. \A s \in Range(told) : s = Words(ws)
    BY <2>4 DEF Range
  <2> QED BY <2>3, <2>5, <2>6
<1>4. IsList(open) /\ Range(open) = {InvoiceSentence(d, l) : d \in Range(invoices)}
  <2>1. open = [k \in DOMAIN invoices |-> open[k]]
    OBVIOUS
  <2>2. \A k \in DOMAIN invoices : open[k] = InvoiceSentence(invoices[k], l)
    OBVIOUS
  <2> HIDE DEF open
  <2>3. IsList(open) /\ DOMAIN open = DOMAIN invoices
    BY <1>2, <2>1, EachSaid
  <2> QED BY <2>2, <2>3 DEF Range
<1>5. IsList(memo) /\ Range(memo) = {CreditSentence(d, l) : d \in Range(credits)}
  <2>1. memo = [k \in DOMAIN credits |-> memo[k]]
    OBVIOUS
  <2>2. \A k \in DOMAIN credits : memo[k] = CreditSentence(credits[k], l)
    OBVIOUS
  <2> HIDE DEF memo
  <2>3. IsList(memo) /\ DOMAIN memo = DOMAIN credits
    BY <1>2, <2>1, EachSaid
  <2> QED BY <2>2, <2>3 DEF Range
<1>6. /\ IsList(FlattenSeq(cash))
      /\ Range(FlattenSeq(cash)) = UNION {Range(PaymentSentences(d, l)) : d \in Range(payments)}
  <2>1. cash = [k \in DOMAIN payments |-> cash[k]]
    OBVIOUS
  <2>2. \A k \in DOMAIN payments : cash[k] = PaymentSentences(payments[k], l)
    OBVIOUS
  <2> HIDE DEF cash
  <2>3. PICK n \in Nat : DOMAIN payments = 1..n
    BY <1>2, ListIs
  <2>4. cash = [k \in 1..n |-> cash[k]] /\ \A k \in 1..n : cash[k] \in Seq(Range(cash[k]))
    BY <2>1, <2>2, <2>3, PaymentSaid DEF IsList
  <2>5. /\ FlattenSeq(cash) \in Seq(Range(FlattenSeq(cash)))
        /\ Range(FlattenSeq(cash)) = UNION {Range(cash[k]) : k \in 1..n}
    BY <2>4, RangeOfFlat
  <2>6. Range(payments) = {payments[k] : k \in 1..n}
    BY <2>3 DEF Range
  <2> QED BY <2>2, <2>3, <2>5, <2>6 DEF IsList
<1> HIDE DEF told, open, cash, memo
<1>7. PICK flat : flat = FlattenSeq(cash)
  OBVIOUS
<1>8. PICK a : a = Opening(l) \o <<BalanceSentence(l)>>
  OBVIOUS
<1>9. Opens(a, l) /\ \A s \in Range(a) : Still(s, l) \/ s = BalanceText(NetBalance(l))
  <2>1. PICK b : b = <<BalanceSentence(l)>>
    OBVIOUS
  <2>2. BalanceSentence(l) = BalanceText(NetBalance(l))
    BY DEF BalanceSentence, BalanceText
  <2>3. IsList(b) /\ Len(b) = 1 /\ b[1] = BalanceText(NetBalance(l))
    BY <2>1, <2>2, ShortIsList DEF AtMostOne
  <2>4. PICK o : o = Opening(l)
    OBVIOUS
  <2>5. IsList(o) /\ Len(o) = 2 /\ Still(o[1], l) /\ Still(o[2], l)
    BY <2>4, OpeningStill
  <2>6. a = o \o b
    BY <1>8, <2>1, <2>4
  <2>7. JoinedAs(a, o, b, 2, 1)
    BY <2>3, <2>5, <2>6, TwoParts
  <2>8. IsList(a) /\ DOMAIN a = 1..3 /\ a[1] = o[1] /\ a[2] = o[2]
    BY <2>7 DEF JoinedAs
  <2>9. a[2 + 1] = b[1]
    BY <2>7 DEF JoinedAs
  <2>10. a[3] = b[1]
    BY <2>9
  <2>11. Range(a) = {a[1], a[2], a[3]}
    <3>1. 1..3 = {1, 2, 3}
      OBVIOUS
    <3> QED BY <2>8, <3>1 DEF Range
  <2> QED BY <2>3, <2>5, <2>8, <2>10, <2>11 DEF Opens
<1>10. PICK a2 : a2 = a \o told
  OBVIOUS
<1>11. Opens(a2, l) /\ Range(a2) = Range(a) \cup Range(told)
  BY <1>3, <1>9, <1>10, OpensOn
<1>12. PICK a3 : a3 = a2 \o open
  OBVIOUS
<1>13. Opens(a3, l) /\ Range(a3) = Range(a2) \cup Range(open)
  BY <1>4, <1>11, <1>12, OpensOn
<1>14. PICK a4 : a4 = a3 \o flat
  OBVIOUS
<1>15. Opens(a4, l) /\ Range(a4) = Range(a3) \cup Range(flat)
  BY <1>6, <1>7, <1>13, <1>14, OpensOn
<1>16. PICK a5 : a5 = a4 \o memo
  OBVIOUS
<1>17. Opens(a5, l) /\ Range(a5) = Range(a4) \cup Range(memo)
  BY <1>5, <1>15, <1>16, OpensOn
<1>18. PICK last : last = <<Closing>>
  OBVIOUS
<1>19. IsList(last) /\ Range(last) = {Closing}
  <2>1. DOMAIN last = {1} /\ last[1] = Closing
    BY <1>18
  <2> QED BY <1>18, <2>1, ShortIsList DEF AtMostOne, Range
<1>20. PICK t : t = a5 \o last
  OBVIOUS
<1>21. Opens(t, l) /\ Range(t) = Range(a5) \cup {Closing}
  BY <1>17, <1>19, <1>20, OpensOn
<1>22. t = GoldenDraft(l)
  BY <1>1, <1>7, <1>8, <1>10, <1>12, <1>14, <1>16, <1>18, <1>20
<1>23. Range(t) = Range(a) \cup Range(told) \cup Range(open) \cup Range(flat) \cup Range(memo) \cup {Closing}
  BY <1>11, <1>13, <1>15, <1>17, <1>21
<1>24. ASSUME NEW d PROVE /\ SaysInvoice(InvoiceSentence(d, l), d, l)
                          /\ SaysCredit(CreditSentence(d, l), d, l)
  BY DEF SaysInvoice, SaysCredit, InvoiceSentence, CreditSentence, InvoiceText, CreditText
<1>25. ASSUME NEW s \in Range(t) PROVE GoldenSentence(s, l)
  <2>1. CASE s \in Range(a) \cup Range(told) \cup {Closing}
    BY <1>3, <1>9, <2>1, ClosingStill DEF GoldenSentence
  <2>2. CASE s \in Range(open)
    <3>1. PICK d \in Range(invoices) : s = InvoiceSentence(d, l)
      BY <1>4, <2>2
    <3>2. d \in Range(l.docs) /\ RefId(d) \in OpenInvoices(l) /\ SaysInvoice(s, d, l)
      BY <1>2, <1>24, <3>1
    <3> QED BY <3>2 DEF GoldenSentence
  <2>3. CASE s \in Range(flat)
    <3>1. PICK d \in Range(payments) : s \in Range(PaymentSentences(d, l))
      BY <1>6, <1>7, <2>3
    <3>2. d \in Range(l.docs) /\ RefId(d) \in UnappliedPayments(l)
      BY <1>2, <3>1
    <3>3. SaysPayment(s, d, l) \/ Still(s, l)
      BY <3>1, PaymentSaid
    <3> QED BY <3>2, <3>3 DEF GoldenSentence
  <2>4. CASE s \in Range(memo)
    <3>1. PICK d \in Range(credits) : s = CreditSentence(d, l)
      BY <1>5, <2>4
    <3>2. d \in Range(l.docs) /\ RefId(d) \in OpenCredits(l) /\ SaysCredit(s, d, l)
      BY <1>2, <1>24, <3>1
    <3> QED BY <3>2 DEF GoldenSentence
  <2> QED BY <1>23, <2>1, <2>2, <2>3, <2>4
<1>26. ASSUME NEW d \in Range(l.docs), RefId(d) \in OpenInvoices(l)
       PROVE  \E s \in Range(t) : SaysInvoice(s, d, l)
  <2>1. d \in Range(invoices)
    BY <1>2, <1>26
  <2>2. InvoiceSentence(d, l) \in Range(t)
    BY <1>4, <1>23, <2>1
  <2> QED BY <1>24, <2>2
<1>27. ASSUME NEW d \in Range(l.docs), RefId(d) \in OpenCredits(l)
       PROVE  \E s \in Range(t) : SaysCredit(s, d, l)
  <2>1. d \in Range(credits)
    BY <1>2, <1>27
  <2>2. CreditSentence(d, l) \in Range(t)
    BY <1>5, <1>23, <2>1
  <2> QED BY <1>24, <2>2
<1>28. ASSUME NEW d \in Range(l.docs), RefId(d) \in UnappliedPayments(l)
       PROVE  \E s \in Range(t) : SaysPayment(s, d, l)
  <2>1. d \in Range(payments)
    BY <1>2, <1>28
  <2>2. PICK x : x \in Range(PaymentSentences(d, l)) /\ SaysPayment(x, d, l)
    BY PaymentSaid
  <2>3. x \in Range(t)
    BY <1>6, <1>7, <1>23, <2>1, <2>2
  <2> QED BY <2>2, <2>3
<1> QED BY <1>21, <1>22, <1>25, <1>26, <1>27, <1>28 DEF GoldenSays

-----------------------------------------------------------------------------
(***************************************************************************)
(* What the checks make of the claims of golden sentences                  *)
(***************************************************************************)
\* What is left open of a document, and what it says itself.
OpenFigure(l, i) == IF i \in InvoiceIds(l) THEN OpenAmount(l, i) ELSE UnappliedAmount(l, i)
FaceFigure(l, i) == IF i \in InvoiceIds(l) THEN l.invoices[i].amount ELSE SourceDoc(l, i).amount

\* A claim of a golden sentence, and one that its check refutes.
Right(c, l) ==
    \/ Harmless(c, l)
    \/ \E i \in DocumentIds(l) : OfDoc(c, i, OpenFigure(l, i))
    \/ OfBalance(c, NetBalance(l))

Wrong(c, l) == c.type \in {"C-AMT", "C-SUM"} /\ CodeCheck(c, l).status = "fail"

LEMMA FiguresAre ==
    ASSUME NEW l, SoundLedger(l), NEW i \in DocumentIds(l)
    PROVE  OpenFigure(l, i) \in Nat /\ FaceFigure(l, i) \in Nat
BY FiguresAreCents DEF OpenFigure, FaceFigure, DocumentIds, SourceIds

\* A figure of one document.
LEMMA DocChecked ==
    ASSUME NEW c, NEW l, NEW i \in DocumentIds(l), NEW n \in Int, OfDoc(c, i, n)
    PROVE  /\ n = OpenFigure(l, i) => CodeCheck(c, l).status = "pass"
           /\ n \notin {OpenFigure(l, i), FaceFigure(l, i)} => CodeCheck(c, l).status = "fail"
<1>1. c.type = "C-AMT" /\ c.docs = <<i>> /\ c.num = n /\ c.preset = FALSE
      /\ c.role \in {"open", "unknown"}
  BY DEF OfDoc
<1>2. CodeCheck(c, l) = CheckAmount(c, l)
  BY <1>1 DEF CodeCheck
<1>3. c.num # Unresolved /\ Len(c.docs) = 1 /\ c.docs[1] = i
  BY <1>1, UnresolvedAssumption
<1>4. CheckAmount(c, l) = CheckBoundAmount(c, i, l)
  BY <1>3 DEF CheckAmount
<1>5. CheckBoundAmount(c, i, l) = IF n \in RoleFigures(i, l)[c.role] THEN Result("pass", {i})
                                                                     ELSE Result("fail", {i})
  BY <1>1 DEF CheckBoundAmount
<1>6. /\ RoleFigures(i, l)["open"] = {OpenFigure(l, i)}
      /\ RoleFigures(i, l)["unknown"] = {FaceFigure(l, i), OpenFigure(l, i)}
  BY DEF RoleFigures, OpenFigure, FaceFigure
<1>7. n = OpenFigure(l, i) => n \in RoleFigures(i, l)[c.role]
  BY <1>1, <1>6
<1>8. n \notin {OpenFigure(l, i), FaceFigure(l, i)} => n \notin RoleFigures(i, l)[c.role]
  BY <1>1, <1>6
<1> QED BY <1>2, <1>4, <1>5, <1>7, <1>8, Answered

\* A figure that is said to be the balance.
LEMMA BalanceChecked ==
    ASSUME NEW c, NEW l, NEW n \in Int, OfBalance(c, n)
    PROVE  /\ n = NetBalance(l) => CodeCheck(c, l) = Result("pass", {NetLabel})
           /\ n # NetBalance(l) => CodeCheck(c, l).status = "fail"
<1>1. c.type = "C-SUM" /\ c.docs = << >> /\ c.num = n /\ c.preset = FALSE /\ "items" \notin c.span
  BY DEF OfBalance
<1>2. CodeCheck(c, l) = CheckSum(c, l)
  BY <1>1 DEF CodeCheck
<1>3. c.num # Unresolved
  BY <1>1, UnresolvedAssumption
<1>4. DocsOf(c) \cap InvoiceIds(l) = {}
  <2>1. DOMAIN << >> = {}
    OBVIOUS
  <2> QED BY <1>1, <2>1 DEF DocsOf
<1>5. n = NetBalance(l) => CheckSum(c, l) = Result("pass", {NetLabel})
  BY <1>1, <1>3, <1>4 DEF CheckSum
<1>6. n # NetBalance(l) => CheckSum(c, l) = Result("fail", {NetLabel})
  BY <1>1, <1>3, <1>4 DEF CheckSum
<1> QED BY <1>2, <1>5, <1>6, Answered

LEMMA RightPasses ==
    ASSUME NEW l, SoundLedger(l), NetBalance(l) \in Int, NEW c, Right(c, l)
    PROVE  /\ c.type \in CodeCheckedTypes /\ CodeCheck(c, l).status = "pass"
           /\ c.type = "C-SUM" => CodeCheck(c, l).cites = {NetLabel}
<1>1. CASE Harmless(c, l)
  BY <1>1 DEF Harmless, CodeCheckedTypes, ClaimTypes
<1>2. CASE \E i \in DocumentIds(l) : OfDoc(c, i, OpenFigure(l, i))
  <2>1. PICK i \in DocumentIds(l) : OfDoc(c, i, OpenFigure(l, i))
    BY <1>2
  <2>2. PICK n : n = OpenFigure(l, i)
    OBVIOUS
  <2>3. n \in Nat
    BY <2>2, FiguresAre
  <2>4. c.type = "C-AMT"
    BY <2>1 DEF OfDoc
  <2>5. CodeCheck(c, l).status = "pass"
    BY <2>1, <2>2, <2>3, DocChecked
  <2> QED BY <2>4, <2>5 DEF CodeCheckedTypes, ClaimTypes
<1>3. CASE OfBalance(c, NetBalance(l))
  <2>1. c.type = "C-SUM"
    BY <1>3 DEF OfBalance
  <2>2. CodeCheck(c, l) = Result("pass", {NetLabel})
    BY <1>3, BalanceChecked
  <2> QED BY <2>1, <2>2, Answered DEF CodeCheckedTypes, ClaimTypes
<1> QED BY <1>1, <1>2, <1>3 DEF Right

\* What is said at a token is claimed in the draft.
LEMMA FigureIsSaid ==
    ASSUME NEW t, IsDraft(t), NEW l, NEW k \in DOMAIN t, Plain(t[k]), NEW q \in DOMAIN t[k],
           t[k][q].kind = "amount"
    PROVE  \E x \in InDraft(t, l) : /\ SaidAt(x, Reading(t[k], l), q, l)
                                    /\ x.claim.type \in {"C-AMT", "C-SUM"}
<1>1. IsSentence(t[k])
  BY DEF Plain
<1>2. PICK r : r = Reading(t[k], l)
  OBVIOUS
<1>3. r.s = LaidOut(t[k]) /\ IsList(r.mentions)
  BY <1>1, <1>2, ReadingIs
<1>4. PICK found : found = SpanAt(r.s, q)
  OBVIOUS
<1>5. AmountAt(r.s, q) = <<found>>
  BY <1>3, <1>4, PlainReads DEF ReadsPlain
<1>6. PICK x : x = AmountCandidate(r, found, ClassifyAmount(r.s, found, r.amounts, r.mentions))
  OBVIOUS
<1>7. x \in Range(AmountCandidates(r, q))
  <2>1. AmountCandidates(r, q) = [i \in 1..1 |-> AmountCandidate(r, <<found>>[i],
                     ClassifyAmount(r.s, <<found>>[i], r.amounts, r.mentions))]
    BY <1>5 DEF AmountCandidates
  <2> QED BY <1>6, <2>1 DEF Range
<1>8. x \in InDraft(t, l)
  BY <1>2, <1>7, OfToken
<1>9. x.claim.type \in {"C-AMT", "C-SUM"}
  BY <1>3, <1>6, AmountClaim, ClassIs
<1>10. found \in Range(AmountAt(r.s, q))
  <2>1. DOMAIN <<found>> = {1} /\ <<found>>[1] = found
    OBVIOUS
  <2> QED BY <1>5, <2>1 DEF Range
<1> QED BY <1>2, <1>6, <1>8, <1>9, <1>10 DEF SaidAt

\* A sentence about one document with something open, whatever its figure.
OpenSentence(s, d, l, n) ==
    \/ RefId(d) \in OpenInvoices(l) /\ s = InvoiceText(d, l, n)
    \/ RefId(d) \in UnappliedPayments(l) /\ s = PaymentText(d, n)
    \/ RefId(d) \in OpenCredits(l) /\ s = CreditText(d, n)

\* Its figure, or that of the balance, is not the one of the records.
WrongSentence(s, l) ==
    \E n \in Int :
        \/ n # NetBalance(l) /\ s = BalanceText(n)
        \/ \E d \in Range(l.docs) : /\ OpenSentence(s, d, l, n)
                                    /\ n \notin {OpenFigure(l, RefId(d)), FaceFigure(l, RefId(d))}

LEMMA OpenTells ==
    ASSUME NEW l, SoundLedger(l), NEW d, NEW n, NEW s, OpenSentence(s, d, l, n),
           Measured(s), SpelledOut(s)
    PROVE  /\ RefId(d) \in DocumentIds(l)
           /\ \E p \in DOMAIN s, q \in DOMAIN s : About(s, l, d, n, p, q)
<1>1. LedgerRecord(l)
  BY DEF SoundLedger
<1>2. CASE RefId(d) \in OpenInvoices(l) /\ s = InvoiceText(d, l, n)
  <2>1. RefId(d) \in InvoiceIds(l) /\ RefId(d) \in DocumentIds(l)
    BY <1>2 DEF OpenInvoices, DocumentIds
  <2>2. About(s, l, d, n, 2, 9)
    BY <1>1, <1>2, <2>1, OpenStatus, InvoiceTells
  <2>3. 2 \in DOMAIN s /\ 9 \in DOMAIN s
    BY <2>2 DEF About
  <2> QED BY <2>1, <2>2, <2>3
<1>3. CASE RefId(d) \in UnappliedPayments(l) /\ s = PaymentText(d, n)
  <2>1. RefId(d) \in DocumentIds(l)
    BY <1>3 DEF UnappliedPayments, DocumentIds, SourceIds
  <2>2. About(s, l, d, n, 6, 8)
    BY <1>1, <1>3, <2>1, PaymentTells
  <2>3. 6 \in DOMAIN s /\ 8 \in DOMAIN s
    BY <2>2 DEF About
  <2> QED BY <2>1, <2>2, <2>3
<1>4. CASE RefId(d) \in OpenCredits(l) /\ s = CreditText(d, n)
  <2>1. RefId(d) \in DocumentIds(l)
    BY <1>4 DEF OpenCredits, DocumentIds, SourceIds
  <2>2. About(s, l, d, n, 5, 7)
    BY <1>1, <1>4, <2>1, CreditTells
  <2>3. 5 \in DOMAIN s /\ 7 \in DOMAIN s
    BY <2>2 DEF About
  <2> QED BY <2>1, <2>2, <2>3
<1> QED BY <1>2, <1>3, <1>4 DEF OpenSentence

LEMMA StillTells ==
    ASSUME NEW l, SoundLedger(l), NEW s, Still(s, l), Measured(s)
    PROVE  Silent(s, l) /\ TellsNothing(s, l)
<1>1. Silent(s, l)
  BY WordsSilent, PositionSilent DEF Still
<1> QED BY <1>1, SilentTells DEF SoundLedger

\* The figure of a sentence about an open document.
LEMMA OpenIs ==
    ASSUME NEW l, SoundLedger(l), NEW s, NEW d
    PROVE  \/ RefId(d) \in OpenInvoices(l) /\ SaysInvoice(s, d, l)
           \/ RefId(d) \in UnappliedPayments(l) /\ SaysPayment(s, d, l)
           \/ RefId(d) \in OpenCredits(l) /\ SaysCredit(s, d, l)
           <=> OpenSentence(s, d, l, OpenFigure(l, RefId(d)))
<1>1. RefId(d) \in OpenInvoices(l) => OpenFigure(l, RefId(d)) = OpenAmount(l, RefId(d))
  BY DEF OpenInvoices, OpenFigure
<1>2. RefId(d) \in UnappliedPayments(l) \/ RefId(d) \in OpenCredits(l) =>
        OpenFigure(l, RefId(d)) = UnappliedAmount(l, RefId(d))
  BY FamiliesDisjoint DEF UnappliedPayments, OpenCredits, SourceIds, OpenFigure
<1> QED BY <1>1, <1>2 DEF SaysInvoice, SaysPayment, SaysCredit, OpenSentence

LEMMA GoldenIsOpen ==
    ASSUME NEW l, SoundLedger(l), NEW s, GoldenSentence(s, l)
    PROVE  \/ Still(s, l)
           \/ s = BalanceText(NetBalance(l))
           \/ \E d \in Range(l.docs) : OpenSentence(s, d, l, OpenFigure(l, RefId(d)))
BY OpenIs DEF GoldenSentence

LEMMA GoldenTells ==
    ASSUME NEW l, SoundLedger(l), NEW s, GoldenSentence(s, l), Measured(s), SpelledOut(s)
    PROVE  /\ Plain(s)
           /\ \A j \in DOMAIN s : \A x : SaidAt(x, Reading(s, l), j, l) => Right(x.claim, l)
<1>0. LedgerRecord(l)
  BY DEF SoundLedger
<1>1. CASE Still(s, l)
  <2>1. Silent(s, l) /\ TellsNothing(s, l)
    BY <1>1, StillTells
  <2> QED BY <2>1 DEF Silent, UnboundAt, TellsNothing, Right
<1>2. CASE s = BalanceText(NetBalance(l))
  <2>1. TellsBalance(s, l, NetBalance(l)) /\ Plain(s)
    BY <1>0, <1>2, BalanceTells
  <2> QED BY <2>1 DEF TellsBalance, Right
<1>3. CASE \E d \in Range(l.docs) : OpenSentence(s, d, l, OpenFigure(l, RefId(d)))
  <2>1. PICK d : OpenSentence(s, d, l, OpenFigure(l, RefId(d)))
    BY <1>3
  <2>2. PICK i : i = RefId(d)
    OBVIOUS
  <2>3. PICK n : n = OpenFigure(l, i)
    OBVIOUS
  <2>4. PICK p \in DOMAIN s, q \in DOMAIN s : About(s, l, d, n, p, q)
    BY <2>1, <2>2, <2>3, OpenTells
  <2>5. i \in DocumentIds(l) /\ TellsOf(s, l, i, n) /\ Plain(s)
    BY <2>1, <2>2, <2>4, OpenTells DEF About
  <2> QED BY <2>3, <2>5 DEF TellsOf, Right
<1> QED BY <1>1, <1>2, <1>3, GoldenIsOpen

\* What a wrong sentence says is right but for its figure, which is refuted.
LEMMA WrongTells ==
    ASSUME NEW l, SoundLedger(l), NEW s, WrongSentence(s, l), Measured(s), SpelledOut(s)
    PROVE  /\ Plain(s)
           /\ \E q \in DOMAIN s : s[q].kind = "amount"
           /\ \A j \in DOMAIN s : \A x : SaidAt(x, Reading(s, l), j, l) =>
                /\ Right(x.claim, l) \/ Wrong(x.claim, l)
                /\ x.claim.type \in {"C-AMT", "C-SUM"} => Wrong(x.claim, l)
<1>0. LedgerRecord(l)
  BY DEF SoundLedger
<1>1. PICK n \in Int :
        \/ n # NetBalance(l) /\ s = BalanceText(n)
        \/ \E d \in Range(l.docs) : /\ OpenSentence(s, d, l, n)
                                    /\ n \notin {OpenFigure(l, RefId(d)), FaceFigure(l, RefId(d))}
  BY DEF WrongSentence
<1>2. CASE n # NetBalance(l) /\ s = BalanceText(n)
  <2>1. TellsBalance(s, l, n) /\ Plain(s) /\ 8 \in DOMAIN s /\ s[8] = Dollar(n)
    BY <1>0, <1>2, BalanceTells
  <2>2. s[8].kind = "amount"
    BY <2>1 DEF Dollar
  <2>3. ASSUME NEW c, OfBalance(c, n) PROVE Wrong(c, l)
    BY <1>2, <2>3, BalanceChecked DEF Wrong, OfBalance
  <2>4. \A c : Harmless(c, l) => c.type \notin {"C-AMT", "C-SUM"}
    BY DEF Harmless
  <2> QED BY <2>1, <2>2, <2>3, <2>4 DEF TellsBalance, Right
<1>3. CASE \E d \in Range(l.docs) : /\ OpenSentence(s, d, l, n)
                                    /\ n \notin {OpenFigure(l, RefId(d)), FaceFigure(l, RefId(d))}
  <2>1. PICK d : /\ OpenSentence(s, d, l, n)
                 /\ n \notin {OpenFigure(l, RefId(d)), FaceFigure(l, RefId(d))}
    BY <1>3
  <2>2. PICK i : i = RefId(d)
    OBVIOUS
  <2>3. PICK p \in DOMAIN s, q \in DOMAIN s : About(s, l, d, n, p, q)
    BY <2>1, OpenTells
  <2>4. i \in DocumentIds(l) /\ TellsOf(s, l, i, n) /\ Plain(s) /\ s[q].kind = "amount"
    BY <2>1, <2>2, <2>3, OpenTells DEF About
  <2>5. ASSUME NEW c, OfDoc(c, i, n) PROVE Wrong(c, l)
    BY <2>1, <2>2, <2>4, <2>5, DocChecked DEF Wrong, OfDoc
  <2>6. \A c : Harmless(c, l) => c.type \notin {"C-AMT", "C-SUM"}
    BY DEF Harmless
  <2> QED BY <2>4, <2>5, <2>6 DEF TellsOf, Right
<1> QED BY <1>1, <1>2, <1>3

-----------------------------------------------------------------------------
(***************************************************************************)
(* The itemization of a draft whose claims are right                       *)
(***************************************************************************)
Itemized(checks, l) == [i \in OpenInvoices(l) |-> ItemizedFigure(checks, i)]

LEMMA ItemizedTotal ==
    ASSUME NEW checks, NEW l
    PROVE  ItemizedSum(checks, l) = Total(Itemized(checks, l), OpenInvoices(l))
<1> DEFINE D == OpenInvoices(l)
           Direct(it) == it = [T \in SUBSET D |-> IF T = {} THEN 0
               ELSE ItemizedFigure(checks, CHOOSE x \in T : TRUE) + it[T \ {CHOOSE x \in T : TRUE}]]
           Tabled(it) == it = [T \in SUBSET D |-> IF T = {} THEN 0
               ELSE Itemized(checks, l)[CHOOSE x \in T : TRUE] + it[T \ {CHOOSE x \in T : TRUE}]]
<1>1. ItemizedSum(checks, l) = (CHOOSE it : Direct(it))[D]
  BY DEF ItemizedSum, MapThenSumSet, MapThenFoldSet
<1>2. Total(Itemized(checks, l), D) = (CHOOSE it : Tabled(it))[D]
  BY DEF Total, MapThenSumSet, MapThenFoldSet
<1>3. \A it : Direct(it) <=> Tabled(it)
  <2>1. \A T \in SUBSET D : T # {} =>
           ItemizedFigure(checks, CHOOSE x \in T : TRUE) = Itemized(checks, l)[CHOOSE x \in T : TRUE]
    <3> SUFFICES ASSUME NEW T \in SUBSET D, T # {}
                 PROVE  ItemizedFigure(checks, Pick(T)) = Itemized(checks, l)[Pick(T)]
      BY DEF Pick
    <3> QED BY PickIn DEF Itemized
  <2> QED BY <2>1
<1> HIDE DEF Direct, Tabled
<1>4. (CHOOSE it : Direct(it)) = (CHOOSE it : Tabled(it))
  BY <1>3
<1> QED BY <1>1, <1>2, <1>4

LEMMA ItemizedIs ==
    ASSUME NEW l, SoundLedger(l), NEW n \in Nat, NEW checks, DOMAIN checks = 1..n,
           \A c \in DOMAIN checks : Right(checks[c].claim, l),
           NEW i \in OpenInvoices(l), IsItemized(checks, i)
    PROVE  ItemizedFigure(checks, i) = OpenAmount(l, i)
<1>1. PICK open : open = FiguresFor(checks, i, "open")
  OBVIOUS
<1>2. PICK bare : bare = FiguresFor(checks, i, "unknown")
  OBVIOUS
<1>3. open \in SUBSET (1..n) /\ bare \in SUBSET (1..n) /\ open \cup bare # {}
  BY <1>1, <1>2 DEF FiguresFor, Passing, IsItemized
<1>4. PICK k : k = IF open # {} THEN Max(open) ELSE Min(bare)
  OBVIOUS
<1>5. k \in open \cup bare
  <2>1. open # {} => Max(open) \in open
    BY <1>3, MaxIn
  <2>2. bare # {} => Min(bare) \in bare
    BY <1>3, MinIn
  <2> QED BY <1>3, <1>4, <2>1, <2>2
<1>6. ItemizedFigure(checks, i) = checks[k].claim.num
  BY <1>1, <1>2, <1>4 DEF ItemizedFigure
<1>7. PICK c : c = checks[k].claim
  OBVIOUS
<1>8. Right(c, l) /\ c.type = "C-AMT" /\ DocsOf(c) = {i}
  BY <1>1, <1>2, <1>3, <1>5, <1>7 DEF FiguresFor
<1>9. PICK d \in DocumentIds(l) : OfDoc(c, d, OpenFigure(l, d))
  BY <1>8 DEF Right, Harmless, OfBalance
<1>10. c.docs = <<d>> /\ c.num = OpenFigure(l, d)
  BY <1>9 DEF OfDoc
<1>11. d = i
  <2>1. DOMAIN <<d>> = {1} /\ <<d>>[1] = d
    OBVIOUS
  <2>2. DocsOf(c) = {d}
    BY <1>10, <2>1 DEF DocsOf
  <2> QED BY <1>8, <2>2
<1>12. OpenFigure(l, i) = OpenAmount(l, i)
  BY DEF OpenFigure, OpenInvoices
<1> QED BY <1>6, <1>7, <1>10, <1>11, <1>12

LEMMA RightIsConsistent ==
    ASSUME NEW l, SoundLedger(l), NEW n \in Nat, NEW checks, DOMAIN checks = 1..n,
           \A c \in DOMAIN checks : Right(checks[c].claim, l)
    PROVE  ~ItemizationInconsistent(checks, l)
<1> SUFFICES ASSUME FullyItemized(checks, l)
             PROVE  ItemizedSum(checks, l) = OpenInvoiceTotal(l)
  BY DEF ItemizationInconsistent
<1>1. \A i \in OpenInvoices(l) : ItemizedFigure(checks, i) = OpenAmount(l, i)
  BY ItemizedIs DEF FullyItemized
<1>2. Summable(Open(l), OpenInvoices(l)) /\ OpenInvoiceTotal(l) = Total(Open(l), OpenInvoices(l))
  BY OpenAlone
<1>3. \A i \in OpenInvoices(l) : Itemized(checks, l)[i] = Open(l)[i]
  BY <1>1 DEF Itemized, Open, OpenInvoices
<1>4. Summable(Itemized(checks, l), OpenInvoices(l))
  BY <1>2, <1>3 DEF Summable
<1>5. Total(Itemized(checks, l), OpenInvoices(l)) = Total(Open(l), OpenInvoices(l))
  BY <1>2, <1>3, <1>4, TotalSame
<1> QED BY <1>2, <1>5, ItemizedTotal

\* The rest of the matrix.
LEMMA OtherRows ==
    ASSUME NEW checks, NEW draft, NEW l, NEW rev, ExistFails(checks) = {}, Unverifiable(checks) = {}
    PROVE  LET d == MatchMatrix(checks, draft, l, rev)
           IN  /\ CodeFails(checks) # {} /\ rev < RevisionBudget => d.action = "revise"
               /\ /\ CodeFails(checks) = {} /\ FuzzyUnsupported(checks) = {}
                  /\ FuzzyCannot(checks) = {}
                  => /\ Ambiguous(l) => d.action = "abstain"
                     /\ /\ ~Ambiguous(l) /\ ~ItemizationInconsistent(checks, l)
                        /\ MissingCompleteness(checks, draft, l) = {}
                        => d.action = "human_gate"
<1>1. PICK d : d = MatchMatrix(checks, draft, l, rev)
  OBVIOUS
<1> DEFINE failed  == CodeFails(checks)
           missing == MissingCompleteness(checks, draft, l)
           third   == Budgeted(rev, RevisionBudget, "correctable", "budget_exhausted",
                               {checks[k].claim.type : k \in failed})
           fourth  == Budgeted(rev, FuzzyRevisionBudget, "unsupported",
                               "unsupported_exhausted", {"fuzzy_unsupported"})
           seventh == Budgeted(rev, RevisionBudget, "itemization", "itemization",
                               {"itemization_inconsistent"})
           eighth  == Budgeted(rev, RevisionBudget, "incomplete", "incomplete", missing)
<1>2. d = IF ExistFails(checks) # {} THEN Decision("escalate", "fabricated", {"c_exist_fail"})
          ELSE IF Unverifiable(checks) # {}
            THEN Decision("escalate", "unverifiable", {"unverifiable_quant"})
          ELSE IF failed # {} THEN third
          ELSE IF FuzzyUnsupported(checks) # {} THEN fourth
          ELSE IF FuzzyCannot(checks) # {}
            THEN Decision("escalate", "cannot_determine", {"fuzzy_cannot_determine"})
          ELSE IF Ambiguous(l) THEN Decision("abstain", "ambiguous", {"ambiguous_allocation"})
          ELSE IF ItemizationInconsistent(checks, l) THEN seventh
          ELSE IF missing # {} THEN eighth
          ELSE Decision("human_gate", "all_pass", {})
  BY <1>1 DEF MatchMatrix
<1>3. rev < RevisionBudget => third.action = "revise"
  BY Decided DEF Budgeted
<1> HIDE DEF failed, missing, third, fourth, seventh, eighth
<1>4. failed # {} /\ rev < RevisionBudget => d.action = "revise"
  BY <1>2, <1>3
<1>5. ASSUME failed = {}, FuzzyUnsupported(checks) = {}, FuzzyCannot(checks) = {}
      PROVE  /\ Ambiguous(l) => d.action = "abstain"
             /\ ~Ambiguous(l) /\ ~ItemizationInconsistent(checks, l) /\ missing = {}
                  => d.action = "human_gate"
  BY <1>2, <1>5, Decided
<1> QED BY <1>1, <1>4, <1>5 DEF failed, missing

-----------------------------------------------------------------------------
(***************************************************************************)
(* The error runs                                                          *)
(***************************************************************************)
\* What is known of the ledger and the golden draft of an error run.
ErrorRunOf(l, golden) ==
    /\ SoundLedger(l) /\ NetBalance(l) \in Int
    /\ {RefId(d) : d \in Range(l.docs)} = DocumentIds(l)
    /\ IsDraft(golden) /\ golden # << >> /\ GoldenSays(golden, l)
    /\ \A k \in DOMAIN golden : Measured(golden[k]) /\ SpelledOut(golden[k])

LEMMA ErrorRuns ==
    ASSUME AuditInv
    PROVE  /\ ErrorRunOf(ledger, GoldenDraft(ledger))
           /\ origin \in {"golden", "swapped", "fabricated", "broken", "fuzzy"} =>
                \A k \in DOMAIN text : Measured(text[k]) /\ SpelledOut(text[k])
<1>1. PICK l \in Ledgers : l = ledger
  BY DEF AuditInv
<1>2. PICK golden : golden = GoldenDraft(l)
  OBVIOUS
<1>3. /\ SoundLedger(l) /\ IsList(l.docs)
      /\ {RefId(l.docs[k]) : k \in DOMAIN l.docs} = DocumentIds(l)
  BY LedgersAssumption DEF SoundLedger
<1>4. {RefId(d) : d \in Range(l.docs)} = DocumentIds(l)
  BY <1>3 DEF Range
<1>5. NetBalance(l) \in Int
  <2>1. OpenInvoiceTotal(l) \in Int
    BY <1>3, FiguresSummable, TotalType, OpenTotal
  <2>2. UnappliedCashTotal(l) \in Int /\ UnappliedCreditTotal(l) \in Int
    BY <1>3, UnappliedTotal
  <2> QED BY <2>1, <2>2 DEF NetBalance
<1>6. IsDraft(golden) /\ GoldenSays(golden, l)
  BY <1>2, <1>3, GoldenIsDraft, GoldenIs
<1>7. golden # << >>
  <2>1. 1 \in DOMAIN golden
    BY <1>6 DEF GoldenSays, Opens
  <2> QED BY <2>1
<1>8. \A t \in ErrorRunTexts(l) : \A k \in DOMAIN t : Measured(t[k]) /\ SpelledOut(t[k])
  BY SpellingAssumption
<1>9. golden \in ErrorRunTexts(l)
  BY <1>2 DEF ErrorRunTexts
<1>10. ASSUME origin \in {"golden", "swapped", "fabricated", "broken", "fuzzy"}
       PROVE  text \in ErrorRunTexts(l)
  <2>1. /\ origin = "golden"     => text = golden
        /\ origin = "swapped"    => text \in SwapAmount(golden, l)
        /\ origin = "fabricated" => text \in FabricateId(golden, l)
        /\ origin = "broken"     => text \in BreakSum(golden, l)
        /\ origin = "fuzzy"      => text \in InjectFuzzy(golden)
    BY <1>1, <1>2 DEF AuditInv, CameFrom
  <2> QED BY <1>2, <1>10, <2>1 DEF ErrorRunTexts
<1> QED BY <1>1, <1>2, <1>3, <1>4, <1>5, <1>6, <1>7, <1>8, <1>9, <1>10 DEF ErrorRunOf

\* Each claim of a verified draft is said at a token.
LEMMA ClaimIsSaid ==
    ASSUME AuditInv, text # << >>, NEW c \in DOMAIN checked
    PROVE  \E k \in DOMAIN text : \E j \in DOMAIN text[k] :
             \E x : x.claim = checked[c].claim /\ SaidAt(x, Reading(text[k], ledger), j, ledger)
<1>1. PICK claims : claims = ExtractClaims(text, ledger)
  OBVIOUS
<1>2. IsDraft(text) /\ checked[c].claim = claims[c] /\ claims[c] \in Range(claims)
  BY <1>1, ResultsAre
<1>3. PICK x \in InDraft(text, ledger) : claims[c] = x.claim
  BY <1>1, <1>2, ExtractionIs
<1>4. PICK k \in DOMAIN text : \E j \in DOMAIN text[k] : SaidAt(x, Reading(text[k], ledger), j, ledger)
  BY <1>2, <1>3, KindsAre
<1> QED BY <1>2, <1>3, <1>4

\* And each figure of a plain sentence is claimed.
LEMMA FigureIsChecked ==
    ASSUME AuditInv, NEW k \in DOMAIN text, Plain(text[k]), NEW q \in DOMAIN text[k],
           text[k][q].kind = "amount"
    PROVE  \E c \in DOMAIN checked : \E x :
             /\ checked[c].claim = x.claim /\ x.claim.type \in {"C-AMT", "C-SUM"}
             /\ SaidAt(x, Reading(text[k], ledger), q, ledger)
             /\ checked[c].status = CodeCheck(x.claim, ledger).status
<1>1. IsDraft(text)
  BY DEF AuditInv
<1>2. PICK x \in InDraft(text, ledger) :
         SaidAt(x, Reading(text[k], ledger), q, ledger) /\ x.claim.type \in {"C-AMT", "C-SUM"}
  BY <1>1, FigureIsSaid
<1>3. x.claim.type \in CodeCheckedTypes /\ x.claim.type # "C-EXIST"
  BY <1>2 DEF CodeCheckedTypes, ClaimTypes
<1>4. PICK c \in DOMAIN checked :
         checked[c].claim = x.claim /\ checked[c].status = CodeCheck(x.claim, ledger).status
  BY <1>3, CandidateChecked
<1> QED BY <1>2, <1>4

\* A draft of golden sentences passes.
LEMMA GoldenPasses ==
    ASSUME AuditInv, text # << >>, SoundLedger(ledger), NetBalance(ledger) \in Int,
           \A k \in DOMAIN text : /\ GoldenSentence(text[k], ledger)
                                  /\ Measured(text[k]) /\ SpelledOut(text[k])
    PROVE  \A c \in DOMAIN checked : /\ Right(checked[c].claim, ledger)
                                     /\ checked[c].claim.type \in CodeCheckedTypes
                                     /\ checked[c].status = "pass"
<1> TAKE c \in DOMAIN checked
<1>1. PICK k \in DOMAIN text : \E j \in DOMAIN text[k] :
         \E x : x.claim = checked[c].claim /\ SaidAt(x, Reading(text[k], ledger), j, ledger)
  BY ClaimIsSaid
<1>2. PICK j \in DOMAIN text[k] :
         \E x : x.claim = checked[c].claim /\ SaidAt(x, Reading(text[k], ledger), j, ledger)
  BY <1>1
<1>3. PICK x : x.claim = checked[c].claim /\ SaidAt(x, Reading(text[k], ledger), j, ledger)
  BY <1>2
<1>4. Right(x.claim, ledger)
  BY <1>3, GoldenTells
<1>5. x.claim.type \in CodeCheckedTypes /\ CodeCheck(x.claim, ledger).status = "pass"
  BY <1>4, RightPasses
<1>6. checked[c].status = CodeCheck(checked[c].claim, ledger).status
  BY <1>3, <1>5, ResultsAre
<1> QED BY <1>3, <1>4, <1>5, <1>6

\* The oracle finds the figures of golden sentences, and no other reference.
LEMMA OracleAgrees ==
    ASSUME NEW l, SoundLedger(l), NEW s, GoldenSentence(s, l), Measured(s), SpelledOut(s)
    PROVE  /\ \A n \in OracleAmounts(s) : Grounded(n, s, l)
           /\ \A j \in DOMAIN s : s[j].kind = "doc" => s[j].text \in DocumentIds(l)
<1>0. LedgerRecord(l)
  BY DEF SoundLedger
<1>1. CASE Still(s, l)
  <2>1. Silent(s, l)
    BY <1>1, StillTells
  <2>2. \A k \in DOMAIN s : s[k].kind # "doc" /\ s[k].kind # "amount"
    BY <2>1 DEF Silent, UnboundAt
  <2> QED BY <2>2 DEF OracleAmounts
<1>2. CASE s = BalanceText(NetBalance(l))
  <2>1. /\ s[8] = Dollar(NetBalance(l))
        /\ \A k \in DOMAIN s : s[k].kind # "doc"
        /\ \A k \in DOMAIN s : s[k].kind = "amount" => k = 8
    BY <1>0, <1>2, BalanceTells
  <2>2. s[8].num = NetBalance(l)
    BY <2>1 DEF Dollar
  <2>3. \A n \in OracleAmounts(s) : n = NetBalance(l)
    BY <2>1, <2>2 DEF OracleAmounts
  <2>4. KnownPlaces(s, l) = {}
    BY <2>1 DEF KnownPlaces
  <2>5. NetBalance(l) \in AccountTotals(l)
    BY TotalsBorne
  <2>6. Cardinality({}) # 1
    BY FS_EmptySet
  <2>7. \A n \in OracleAmounts(s) : Grounded(n, s, l)
    BY <2>3, <2>4, <2>5, <2>6 DEF Grounded
  <2> QED BY <2>1, <2>7
<1>3. CASE \E d \in Range(l.docs) : OpenSentence(s, d, l, OpenFigure(l, RefId(d)))
  <2>1. PICK d : OpenSentence(s, d, l, OpenFigure(l, RefId(d)))
    BY <1>3
  <2>2. PICK i : i = RefId(d)
    OBVIOUS
  <2>3. PICK m : m = OpenFigure(l, i)
    OBVIOUS
  <2>4. PICK p \in DOMAIN s, q \in DOMAIN s : About(s, l, d, m, p, q)
    BY <2>1, <2>2, <2>3, OpenTells
  <2>5. /\ i \in DocumentIds(l) /\ s[p] = Ref(d) /\ s[q] = Dollar(m)
        /\ \A k \in DOMAIN s : s[k].kind = "doc" <=> k = p
        /\ \A k \in DOMAIN s : s[k].kind = "amount" <=> k = q
    BY <2>1, <2>2, <2>4, OpenTells DEF About
  <2>6. s[p].text = i /\ s[q].num = m
    BY <2>2, <2>5 DEF Ref, RefId, DocToken, Dollar
  <2>7. KnownPlaces(s, l) = {p}
    BY <2>5, <2>6 DEF KnownPlaces
  <2>8. Cardinality({p}) = 1
    BY FS_Singleton
  <2>9. m \in DocumentFigures(l)[i]
    <3>1. CASE i \in InvoiceIds(l)
      <4>1. m = OpenAmount(l, i)
        BY <2>3, <3>1 DEF OpenFigure
      <4> QED BY <2>5, <3>1, <4>1, OracleFigures
    <3>2. CASE i \notin InvoiceIds(l)
      <4>1. m = UnappliedAmount(l, i)
        BY <2>3, <3>2 DEF OpenFigure
      <4>2. DocumentFigures(l)[i] = {SourceDoc(l, i).amount, UnappliedAmount(l, i)} \cup
                (IF AppliedFromSource(l, i) > 0 THEN {AppliedFromSource(l, i)} ELSE {})
        BY <2>5, <3>2, OracleFigures
      <4> QED BY <4>1, <4>2
    <3> QED BY <3>1, <3>2
  <2>10. m \in UNION {DocumentFigures(l)[s[k].text] : k \in {p}}
    BY <2>6, <2>9
  <2>11. Grounded(m, s, l)
    BY <2>7, <2>8, <2>10 DEF Grounded
  <2>12. \A n \in OracleAmounts(s) : n = m
    BY <2>5, <2>6 DEF OracleAmounts
  <2> QED BY <2>5, <2>6, <2>11, <2>12
<1> QED BY <1>1, <1>2, <1>3, GoldenIsOpen

LEMMA GoldenOracle ==
    ASSUME NEW l, SoundLedger(l), NEW t,
           \A k \in DOMAIN t : GoldenSentence(t[k], l) /\ Measured(t[k]) /\ SpelledOut(t[k])
    PROVE  OracleVerifies(t, l)
<1>1. \A k \in DOMAIN t : /\ \A n \in OracleAmounts(t[k]) : Grounded(n, t[k], l)
                          /\ \A j \in DOMAIN t[k] : t[k][j].kind = "doc" =>
                               t[k][j].text \in DocumentIds(l)
  BY OracleAgrees
<1>2. Unmatched(t, l) = {}
  BY <1>1 DEF Unmatched
<1>3. UnknownIds(t, l) = {}
  <2> SUFFICES ASSUME NEW w \in UnknownIds(t, l) PROVE FALSE
    OBVIOUS
  <2>1. w \notin DocumentIds(l)
    BY DEF UnknownIds
  <2>2. w \in UNION {{t[k][j].text : j \in {i \in DOMAIN t[k] : t[k][i].kind = "doc"}} : k \in DOMAIN t}
    BY DEF UnknownIds
  <2>3. PICK k \in DOMAIN t : w \in {t[k][j].text : j \in {i \in DOMAIN t[k] : t[k][i].kind = "doc"}}
    BY <2>2
  <2> QED BY <1>1, <2>1, <2>3
<1> QED BY <1>2, <1>3 DEF OracleVerifies

\* Nothing is missing from a draft that says all the golden draft says.
LEMMA NothingMissing ==
    ASSUME AuditInv, text # << >>, SoundLedger(ledger), NetBalance(ledger) \in Int,
           {RefId(d) : d \in Range(ledger.docs)} = DocumentIds(ledger), GoldenSays(text, ledger),
           \A k \in DOMAIN text : Measured(text[k]) /\ SpelledOut(text[k])
    PROVE  MissingCompleteness(checked, DraftOf(text, ledger), ledger) = {}
<1>1. PICK claims : claims = ExtractClaims(text, ledger)
  OBVIOUS
<1>2. PICK draft : draft = DraftOf(text, ledger)
  OBVIOUS
<1>3. PICK l : l = ledger
  OBVIOUS
<1>4. DOMAIN checked = DOMAIN claims /\ \A c \in DOMAIN checked : checked[c].claim = claims[c]
  BY <1>1, ResultsAre
<1>5. PICK coded : coded = RunCodeChecks(claims, l)
  OBVIOUS
<1>6. /\ DOMAIN coded = DOMAIN claims
      /\ \A c \in DOMAIN claims : coded[c].claim = claims[c]
      /\ \A c \in DOMAIN claims : claims[c].type \in {"C-AMT", "C-SUM"} =>
           /\ coded[c].status = CodeCheck(claims[c], l).status
           /\ coded[c].cites = CodeCheck(claims[c], l).cites
  BY <1>5, Answered DEF RunCodeChecks, CodeCheckedTypes, ClaimTypes
<1>7. draft.text = "draft" /\ draft.claims = claims
  BY <1>1, <1>2 DEF DraftOf
<1>8. MissingCompleteness(checked, draft, l) = Unmentioned(coded, draft, l)
  BY <1>5, <1>7 DEF MissingCompleteness, AbsentItems
<1>9. LedgerRecord(l)
  BY <1>3 DEF SoundLedger
  \* What a sentence says of a document is referenced.
<1>10. ASSUME NEW d, NEW s \in Range(text), OpenSentence(s, d, l, OpenFigure(l, RefId(d)))
       PROVE  References(coded, RefId(d))
  <2>1. PICK k \in DOMAIN text : s = text[k]
    BY DEF Range
  <2>2. PICK i : i = RefId(d)
    OBVIOUS
  <2>3. PICK m : m = OpenFigure(l, i)
    OBVIOUS
  <2>4. PICK p \in DOMAIN s, q \in DOMAIN s : About(s, l, d, m, p, q)
    BY <1>3, <1>10, <2>1, <2>2, <2>3, OpenTells
  <2>5. i \in DocumentIds(l) /\ Plain(s) /\ s[q].kind = "amount" /\ TellsOf(s, l, i, m)
    BY <1>3, <1>10, <2>1, <2>2, <2>4, OpenTells DEF About
  <2>6. PICK c \in DOMAIN checked : \E x :
             /\ checked[c].claim = x.claim /\ x.claim.type \in {"C-AMT", "C-SUM"}
             /\ SaidAt(x, Reading(s, l), q, l)
    BY <1>3, <2>1, <2>5, FigureIsChecked
  <2>7. PICK x : /\ checked[c].claim = x.claim /\ x.claim.type \in {"C-AMT", "C-SUM"}
                 /\ SaidAt(x, Reading(s, l), q, l)
    BY <2>6
  <2>8. OfDoc(x.claim, i, m)
    BY <2>5, <2>7 DEF TellsOf, Harmless
  <2>9. m \in Nat
    BY <1>3, <2>3, <2>5, FiguresAre
  <2>10. CodeCheck(x.claim, l).status = "pass"
    BY <2>3, <2>5, <2>8, <2>9, DocChecked
  <2>11. x.claim = claims[c] /\ c \in DOMAIN claims
    BY <1>4, <2>7
  <2>12. x.claim.type = "C-AMT" /\ i \in DocsOf(x.claim)
    <3>1. DOMAIN <<i>> = {1} /\ <<i>>[1] = i
      OBVIOUS
    <3> QED BY <2>8, <3>1 DEF OfDoc, DocsOf
  <2>13. c \in Passing(coded) /\ coded[c].claim = x.claim
    BY <1>6, <2>10, <2>11, <2>12 DEF Passing
  <2> QED BY <2>2, <2>12, <2>13 DEF References
  \* The balance is stated.
<1>11. StatesNet(coded, draft, l)
  <2>1. PICK s : s = text[3]
    OBVIOUS
  <2>2. 3 \in DOMAIN text /\ s = BalanceText(NetBalance(l)) /\ Measured(s) /\ SpelledOut(s)
    BY <1>3, <2>1 DEF GoldenSays, Opens
  <2>3. TellsBalance(s, l, NetBalance(l)) /\ Plain(s) /\ 8 \in DOMAIN s /\ s[8] = Dollar(NetBalance(l))
    BY <1>9, <2>2, BalanceTells
  <2>4. s[8].kind = "amount"
    BY <2>3 DEF Dollar
  <2>5. PICK c \in DOMAIN checked : \E x :
             /\ checked[c].claim = x.claim /\ x.claim.type \in {"C-AMT", "C-SUM"}
             /\ SaidAt(x, Reading(s, l), 8, l)
    BY <1>3, <2>1, <2>2, <2>3, <2>4, FigureIsChecked
  <2>6. PICK x : /\ checked[c].claim = x.claim /\ x.claim.type \in {"C-AMT", "C-SUM"}
                 /\ SaidAt(x, Reading(s, l), 8, l)
    BY <2>5
  <2>7. OfBalance(x.claim, NetBalance(l))
    BY <2>3, <2>6 DEF TellsBalance, Harmless
  <2>8. CodeCheck(x.claim, l) = Result("pass", {NetLabel})
    BY <1>3, <2>7, BalanceChecked
  <2>9. x.claim = claims[c] /\ c \in DOMAIN claims /\ x.claim.type = "C-SUM"
    BY <1>4, <2>6, <2>7 DEF OfBalance
  <2>10. CodeCheck(x.claim, l).status = "pass" /\ NetLabel \in CodeCheck(x.claim, l).cites
    BY <2>8, Answered
  <2>11. c \in Passing(coded) /\ coded[c].claim.type = "C-SUM" /\ NetLabel \in coded[c].cites
    BY <1>6, <2>9, <2>10 DEF Passing
  <2> QED BY <2>11 DEF StatesNet
<1>12. ASSUME NEW i \in OpenInvoices(l) \cup UnappliedPayments(l) \cup OpenCredits(l)
       PROVE  References(coded, i)
  <2>1. i \in DocumentIds(l)
    BY DEF OpenInvoices, UnappliedPayments, OpenCredits, DocumentIds, SourceIds
  <2>2. PICK d \in Range(l.docs) : i = RefId(d)
    BY <1>3, <2>1
  <2>3. \E s \in Range(text) : \/ RefId(d) \in OpenInvoices(l) /\ SaysInvoice(s, d, l)
                               \/ RefId(d) \in UnappliedPayments(l) /\ SaysPayment(s, d, l)
                               \/ RefId(d) \in OpenCredits(l) /\ SaysCredit(s, d, l)
    BY <1>3, <2>2 DEF GoldenSays
  <2>4. PICK s \in Range(text) : OpenSentence(s, d, l, OpenFigure(l, RefId(d)))
    BY <1>3, <2>3, OpenIs
  <2> QED BY <1>10, <2>2, <2>4
<1>13. Unmentioned(coded, draft, l) = {}
  <2> SUFFICES ASSUME NEW item \in Unmentioned(coded, draft, l) PROVE FALSE
    OBVIOUS
  <2>1. item \in {"net_balance_stated", "open_invoices_itemized",
                  "unapplied_cash_mentioned", "open_credit_mentioned"}
    BY DEF Unmentioned, CompletenessItems
  <2>2. CASE item = "net_balance_stated"
    BY <1>11, <2>2 DEF Unmentioned
  <2>3. CASE item = "open_invoices_itemized"
    BY <1>12, <2>3 DEF Unmentioned
  <2>4. CASE item = "unapplied_cash_mentioned"
    BY <1>12, <2>4 DEF Unmentioned
  <2>5. CASE item = "open_credit_mentioned"
    BY <1>12, <2>5 DEF Unmentioned
  <2> QED BY <2>1, <2>2, <2>3, <2>4, <2>5
<1> QED BY <1>2, <1>3, <1>8, <1>13

\* A rendered draft passes every check, the oracle and the gate.
LEMMA AuditGolden == AuditInv => GoldenVerifiesClean
<1> SUFFICES ASSUME AuditInv, origin = "golden"
             PROVE  /\ AllPass
                    /\ OracleVerifies(text, ledger)
                    /\ decision.action = IF Ambiguous(ledger) THEN "abstain" ELSE "human_gate"
  BY DEF GoldenVerifiesClean
<1>1. text = GoldenDraft(ledger)
  BY DEF AuditInv, CameFrom
<1>2. /\ SoundLedger(ledger) /\ NetBalance(ledger) \in Int
      /\ {RefId(d) : d \in Range(ledger.docs)} = DocumentIds(ledger)
      /\ text # << >> /\ GoldenSays(text, ledger)
      /\ \A k \in DOMAIN text : Measured(text[k]) /\ SpelledOut(text[k])
  BY <1>1, ErrorRuns DEF ErrorRunOf
<1>3. \A k \in DOMAIN text : GoldenSentence(text[k], ledger)
  BY <1>2 DEF GoldenSays, Range
<1>4. \A c \in DOMAIN checked : /\ Right(checked[c].claim, ledger)
                                /\ checked[c].claim.type \in CodeCheckedTypes
                                /\ checked[c].status = "pass"
  BY <1>2, <1>3, GoldenPasses
<1>5. /\ ExistFails(checked) = {} /\ Unverifiable(checked) = {} /\ CodeFails(checked) = {}
      /\ FuzzyUnsupported(checked) = {} /\ FuzzyCannot(checked) = {}
  BY <1>4 DEF ExistFails, Unverifiable, CodeFails, FuzzyUnsupported, FuzzyCannot, ClaimsWith
<1>6. PICK claims : claims = ExtractClaims(text, ledger)
  OBVIOUS
<1>7. /\ IsList(claims) /\ DOMAIN checked = DOMAIN claims
      /\ decision = MatchMatrix(checked, DraftOf(text, ledger), ledger, 0)
  BY <1>2, <1>6, ResultsAre
<1>8. PICK n \in Nat : DOMAIN checked = 1..n
  BY <1>7, ListIs
<1>9. ~ItemizationInconsistent(checked, ledger)
  BY <1>2, <1>4, <1>8, RightIsConsistent
<1>10. MissingCompleteness(checked, DraftOf(text, ledger), ledger) = {}
  BY <1>2, NothingMissing
<1>11. /\ Ambiguous(ledger) => decision.action = "abstain"
       /\ ~Ambiguous(ledger) => decision.action = "human_gate"
  BY <1>5, <1>7, <1>9, <1>10, OtherRows
<1>12. OracleVerifies(text, ledger)
  BY <1>2, <1>3, GoldenOracle
<1> QED BY <1>4, <1>11, <1>12 DEF AllPass

-----------------------------------------------------------------------------
(***************************************************************************)
(* Golden drafts with one sentence changed                                 *)
(***************************************************************************)
\* One wrong sentence in a golden draft is sent back.
LEMMA OneWrongRevises ==
    ASSUME AuditInv, text # << >>, SoundLedger(ledger), NetBalance(ledger) \in Int,
           NEW w \in DOMAIN text, WrongSentence(text[w], ledger),
           \A k \in DOMAIN text : /\ k # w => GoldenSentence(text[k], ledger)
                                  /\ Measured(text[k]) /\ SpelledOut(text[k])
    PROVE  decision.action = "revise"
<1>1. PICK l : l = ledger
  OBVIOUS
<1>2. PICK claims : claims = ExtractClaims(text, l)
  OBVIOUS
<1>3. /\ IsList(claims) /\ DOMAIN checked = DOMAIN claims
      /\ \A c \in DOMAIN checked : checked[c].claim = claims[c]
      /\ \A c \in DOMAIN checked : claims[c].type \in CodeCheckedTypes =>
           checked[c].status = CodeCheck(claims[c], l).status
      /\ decision = MatchMatrix(checked, DraftOf(text, l), l, 0)
  BY <1>1, <1>2, ResultsAre
<1>4. ASSUME NEW c \in DOMAIN checked
      PROVE  /\ checked[c].claim.type \in CodeCheckedTypes
             /\ \/ checked[c].status = "pass"
                \/ checked[c].status = "fail" /\ checked[c].claim.type \in {"C-AMT", "C-SUM"}
  <2>1. PICK k \in DOMAIN text : \E j \in DOMAIN text[k] :
           \E x : x.claim = checked[c].claim /\ SaidAt(x, Reading(text[k], l), j, l)
    BY <1>1, ClaimIsSaid
  <2>2. PICK j \in DOMAIN text[k] :
           \E x : x.claim = checked[c].claim /\ SaidAt(x, Reading(text[k], l), j, l)
    BY <2>1
  <2>3. PICK x : x.claim = checked[c].claim /\ SaidAt(x, Reading(text[k], l), j, l)
    BY <2>2
  <2>4. Right(x.claim, l) \/ Wrong(x.claim, l)
    BY <1>1, <2>3, GoldenTells, WrongTells
  <2>5. checked[c].claim = claims[c] /\ claims[c] = x.claim
    BY <1>3, <2>3
  <2>6. CASE Right(x.claim, l)
    <3>1. x.claim.type \in CodeCheckedTypes /\ CodeCheck(x.claim, l).status = "pass"
      BY <1>1, <2>6, RightPasses
    <3> QED BY <1>3, <2>5, <3>1
  <2>7. CASE Wrong(x.claim, l)
    <3>1. x.claim.type \in {"C-AMT", "C-SUM"} /\ CodeCheck(x.claim, l).status = "fail"
      BY <2>7 DEF Wrong
    <3>2. x.claim.type \in CodeCheckedTypes
      BY <3>1 DEF CodeCheckedTypes, ClaimTypes
    <3> QED BY <1>3, <2>5, <3>1, <3>2
  <2> QED BY <2>4, <2>6, <2>7
<1>5. ExistFails(checked) = {} /\ Unverifiable(checked) = {}
  BY <1>4 DEF ExistFails, Unverifiable, ClaimsWith
<1>6. CodeFails(checked) # {}
  <2>1. PICK q \in DOMAIN text[w] : text[w][q].kind = "amount"
    BY WrongTells
  <2>2. Plain(text[w])
    BY WrongTells
  <2>3. PICK c \in DOMAIN checked : \E x :
           /\ checked[c].claim = x.claim /\ x.claim.type \in {"C-AMT", "C-SUM"}
           /\ SaidAt(x, Reading(text[w], l), q, l)
           /\ checked[c].status = CodeCheck(x.claim, l).status
    BY <1>1, <2>1, <2>2, FigureIsChecked
  <2>4. PICK x : /\ checked[c].claim = x.claim /\ x.claim.type \in {"C-AMT", "C-SUM"}
                 /\ SaidAt(x, Reading(text[w], l), q, l)
                 /\ checked[c].status = CodeCheck(x.claim, l).status
    BY <2>3
  <2>5. Wrong(x.claim, l)
    BY <1>1, <2>4, WrongTells
  <2>6. checked[c].status = "fail" /\ checked[c].claim.type \in CodeFailKinds
    BY <2>4, <2>5 DEF Wrong, CodeFailKinds
  <2> QED BY <2>6 DEF CodeFails, ClaimsWith
<1> QED BY <1>1, <1>3, <1>5, <1>6, OtherRows, RevisionAssumption

\* Another figure in place of the one of a sentence.
LEMMA TokenExchanged ==
    ASSUME NEW a, IsList(a), NEW b, IsList(b), DOMAIN b = DOMAIN a, NEW q \in DOMAIN a,
           \A k \in DOMAIN a : k # q => a[k] = b[k]
    PROVE  [a EXCEPT ![q] = b[q]] = b
<1>1. PICK n : DOMAIN a = 1..n /\ a = [k \in 1..n |-> a[k]]
  BY ListIs
<1>2. b = [k \in 1..n |-> b[k]]
  BY <1>1, ListIs
<1>3. [a EXCEPT ![q] = b[q]] = [k \in 1..n |-> IF k = q THEN b[q] ELSE a[k]]
  BY <1>1
<1>4. \A k \in 1..n : (IF k = q THEN b[q] ELSE a[k]) = b[k]
  BY <1>1
<1>5. [k \in 1..n |-> IF k = q THEN b[q] ELSE a[k]] = [k \in 1..n |-> b[k]]
  BY <1>4
<1> QED BY <1>2, <1>3, <1>5

LEMMA BalanceExchanged ==
    ASSUME NEW m, NEW n, NEW s, s = BalanceText(m)
    PROVE  8 \in DOMAIN s /\ [s EXCEPT ![8] = Dollar(n)] = BalanceText(n)
<1>1. PICK u : u = BalanceText(n)
  OBVIOUS
<1>2. IsList(s) /\ IsList(u) /\ BalanceShape(s, m) /\ BalanceShape(u, n)
  BY <1>1, BalanceTextIs, BalanceShaped DEF IsSentence
<1>3. DOMAIN s = 1..8 /\ DOMAIN u = 1..8 /\ u[8] = Dollar(n) /\ 8 \in DOMAIN s
  BY <1>2 DEF BalanceShape
<1>4. \A k \in 1..8 : k # 8 => s[k] = u[k]
  BY <1>2 DEF BalanceShape
<1>5. [s EXCEPT ![8] = u[8]] = u
  BY <1>2, <1>3, <1>4, TokenExchanged
<1> QED BY <1>1, <1>3, <1>5

LEMMA InvoiceExchanged ==
    ASSUME NEW d, NEW l, NEW m, NEW n, NEW s, s = InvoiceText(d, l, m)
    PROVE  [s EXCEPT ![9] = Dollar(n)] = InvoiceText(d, l, n)
<1>1. PICK u : u = InvoiceText(d, l, n)
  OBVIOUS
<1>2. IsList(s) /\ IsList(u) /\ InvoiceShape(s, d, l, m) /\ InvoiceShape(u, d, l, n)
  BY <1>1, InvoiceTextIs, InvoiceShaped DEF IsSentence
<1>3. DOMAIN s = 1..10 /\ DOMAIN u = 1..10 /\ u[9] = Dollar(n) /\ 9 \in DOMAIN s
  <2>1. DOMAIN s = 1..10
    BY <1>2 DEF InvoiceShape
  <2>2. DOMAIN u = 1..10 /\ u[9] = Dollar(n)
    BY <1>2 DEF InvoiceShape
  <2> QED BY <2>1, <2>2
<1>4. \A k \in 1..10 : k # 9 => s[k] = u[k]
  <2>1. s[1] = u[1] /\ s[2] = u[2] /\ s[3] = u[3] /\ s[4] = u[4] /\ s[5] = u[5]
    BY <1>2 DEF InvoiceShape
  <2>2. s[6] = u[6] /\ s[7] = u[7] /\ s[8] = u[8] /\ s[10] = u[10]
    BY <1>2 DEF InvoiceShape
  <2> QED BY <2>1, <2>2
<1>5. [s EXCEPT ![9] = u[9]] = u
  BY <1>2, <1>3, <1>4, TokenExchanged
<1> QED BY <1>1, <1>3, <1>5

LEMMA PaymentExchanged ==
    ASSUME NEW d, NEW m, NEW n, NEW s, s = PaymentText(d, m)
    PROVE  [s EXCEPT ![8] = Dollar(n)] = PaymentText(d, n)
<1>1. PICK u : u = PaymentText(d, n)
  OBVIOUS
<1>2. IsList(s) /\ IsList(u) /\ PaymentShape(s, d, m) /\ PaymentShape(u, d, n)
  BY <1>1, PaymentTextIs, PaymentShaped DEF IsSentence
<1>3. DOMAIN s = 1..19 /\ DOMAIN u = 1..19 /\ u[8] = Dollar(n) /\ 8 \in DOMAIN s
  <2>1. DOMAIN s = 1..19
    BY <1>2 DEF PaymentShape
  <2>2. DOMAIN u = 1..19 /\ u[8] = Dollar(n)
    BY <1>2 DEF PaymentShape
  <2> QED BY <2>1, <2>2
<1>4. \A k \in 1..19 : k # 8 => s[k] = u[k]
  <2>1. s[1] = u[1] /\ s[2] = u[2] /\ s[3] = u[3] /\ s[4] = u[4] /\ s[5] = u[5]
    BY <1>2 DEF PaymentShape
  <2>2. s[6] = u[6] /\ s[7] = u[7] /\ s[9] = u[9] /\ s[10] = u[10]
    BY <1>2 DEF PaymentShape
  <2>3. s[11] = u[11] /\ s[12] = u[12] /\ s[13] = u[13] /\ s[14] = u[14] /\ s[15] = u[15]
    BY <1>2 DEF PaymentShape
  <2>4. s[16] = u[16] /\ s[17] = u[17] /\ s[18] = u[18] /\ s[19] = u[19]
    BY <1>2 DEF PaymentShape
  <2> QED BY <2>1, <2>2, <2>3, <2>4
<1>5. [s EXCEPT ![8] = u[8]] = u
  BY <1>2, <1>3, <1>4, TokenExchanged
<1> QED BY <1>1, <1>3, <1>5

LEMMA CreditExchanged ==
    ASSUME NEW d, NEW m, NEW n, NEW s, s = CreditText(d, m)
    PROVE  [s EXCEPT ![7] = Dollar(n)] = CreditText(d, n)
<1>1. PICK u : u = CreditText(d, n)
  OBVIOUS
<1>2. IsList(s) /\ IsList(u) /\ CreditShape(s, d, m) /\ CreditShape(u, d, n)
  BY <1>1, CreditTextIs, CreditShaped DEF IsSentence
<1>3. DOMAIN s = 1..14 /\ DOMAIN u = 1..14 /\ u[7] = Dollar(n) /\ 7 \in DOMAIN s
  BY <1>2 DEF CreditShape
<1>4. \A k \in 1..14 : k # 7 => s[k] = u[k]
  BY <1>2 DEF CreditShape
<1>5. [s EXCEPT ![7] = u[7]] = u
  BY <1>2, <1>3, <1>4, TokenExchanged
<1> QED BY <1>1, <1>3, <1>5

LEMMA OpenExchanged ==
    ASSUME NEW l, SoundLedger(l), NEW d, NEW m, NEW n, NEW s, OpenSentence(s, d, l, m),
           Measured(s), SpelledOut(s), NEW q \in DOMAIN s, s[q].kind = "amount"
    PROVE  s[q].num = m /\ OpenSentence([s EXCEPT ![q] = Dollar(n)], d, l, n)
<1>0. LedgerRecord(l)
  BY DEF SoundLedger
<1>1. CASE RefId(d) \in OpenInvoices(l) /\ s = InvoiceText(d, l, m)
  <2>1. RefId(d) \in InvoiceIds(l)
    BY <1>1 DEF OpenInvoices
  <2>2. About(s, l, d, m, 2, 9)
    BY <1>0, <1>1, <2>1, OpenStatus, InvoiceTells
  <2>3. q = 9 /\ s[9] = Dollar(m)
    BY <2>2 DEF About
  <2> QED BY <1>1, <2>3, InvoiceExchanged DEF OpenSentence, Dollar
<1>2. CASE RefId(d) \in UnappliedPayments(l) /\ s = PaymentText(d, m)
  <2>1. RefId(d) \in DocumentIds(l)
    BY <1>2 DEF UnappliedPayments, DocumentIds, SourceIds
  <2>2. About(s, l, d, m, 6, 8)
    BY <1>0, <1>2, <2>1, PaymentTells
  <2>3. q = 8 /\ s[8] = Dollar(m)
    BY <2>2 DEF About
  <2> QED BY <1>2, <2>3, PaymentExchanged DEF OpenSentence, Dollar
<1>3. CASE RefId(d) \in OpenCredits(l) /\ s = CreditText(d, m)
  <2>1. RefId(d) \in DocumentIds(l)
    BY <1>3 DEF OpenCredits, DocumentIds, SourceIds
  <2>2. About(s, l, d, m, 5, 7)
    BY <1>0, <1>3, <2>1, CreditTells
  <2>3. q = 7 /\ s[7] = Dollar(m)
    BY <2>2 DEF About
  <2> QED BY <1>3, <2>3, CreditExchanged DEF OpenSentence, Dollar
<1> QED BY <1>1, <1>2, <1>3 DEF OpenSentence

\* The first of some places in a text is one of them.
LEMMA FirstIs ==
    ASSUME NEW P, P \subseteq Nat \X Nat, P # {}
    PROVE  FirstOf(P) \in P /\ \A q \in P : LET p == FirstOf(P)
                                            IN  p[1] < q[1] \/ (p[1] = q[1] /\ p[2] <= q[2])
<1>1. PICK R : R = {p[1] : p \in P}
  OBVIOUS
<1>2. R \subseteq Nat /\ R # {}
  BY <1>1
<1>3. PICK r \in R : \A m \in R : r <= m
  BY <1>2, LeastOfNaturals
<1>4. PICK C : C = {p[2] : p \in {x \in P : x[1] = r}}
  OBVIOUS
<1>5. C \subseteq Nat /\ C # {}
  BY <1>1, <1>3, <1>4
<1>6. PICK c \in C : \A m \in C : c <= m
  BY <1>5, LeastOfNaturals
<1>7. PICK p \in P : p[1] = r /\ p[2] = c
  BY <1>4, <1>6
<1>8. \A q \in P : p[1] < q[1] \/ (p[1] = q[1] /\ p[2] <= q[2])
  <2> TAKE q \in P
  <2>1. r <= q[1] /\ r \in Nat /\ q[1] \in Nat
    BY <1>1, <1>2, <1>3
  <2>2. q[1] = r => c <= q[2]
    BY <1>4, <1>6
  <2> QED BY <1>7, <2>1, <2>2
<1>9. \E x \in P : \A q \in P : x[1] < q[1] \/ (x[1] = q[1] /\ x[2] <= q[2])
  BY <1>8
<1> QED BY <1>9 DEF FirstOf

LEMMA PlacesInText ==
    ASSUME NEW t, IsDraft(t)
    PROVE  /\ Places(t) \subseteq Nat \X Nat
           /\ \A p \in Places(t) : /\ p[1] \in DOMAIN t /\ p[2] \in DOMAIN t[p[1]]
                                   /\ At(t, p) = t[p[1]][p[2]]
<1>1. PICK n \in Nat : DOMAIN t = 1..n
  BY ListIs DEF IsDraft
<1>2. Places(t) \subseteq (1..n) \X (1..50)
  BY <1>1 DEF Places
<1>3. ASSUME NEW p \in Places(t)
      PROVE  p[1] \in DOMAIN t /\ p[2] \in DOMAIN t[p[1]]
  <2>1. PICK m : m = Len(t[p[1]])
    OBVIOUS
  <2>2. p[1] \in DOMAIN t /\ p[2] \in 1..50 /\ p[2] <= m
    BY <1>3, <2>1 DEF Places
  <2>3. IsList(t[p[1]])
    BY <2>2 DEF IsDraft, IsSentence
  <2>4. m \in Nat /\ DOMAIN t[p[1]] = 1..m
    BY <2>1, <2>3, ListIs
  <2>5. PICK j : j = p[2]
    OBVIOUS
  <2>6. j \in 1..50 /\ j <= m
    BY <2>2, <2>5
  <2>7. j \in 1..m
    <3>1. m \in Nat
      BY <2>4
    <3>2. j \in Nat /\ 1 <= j
      BY <2>6
    <3>3. j <= m
      BY <2>6
    <3> QED BY <3>1, <3>2, <3>3
  <2> QED BY <2>2, <2>4, <2>5, <2>7
<1>4. Places(t) \subseteq Nat \X Nat
  BY <1>2
<1>5. \A p : At(t, p) = t[p[1]][p[2]]
  BY DEF At
<1> QED BY <1>3, <1>4, <1>5

\* A replaced token leaves the rest of the text as it was.
LEMMA OneReplaced ==
    ASSUME NEW t, NEW p, p[1] \in DOMAIN t, NEW x, NEW u, u = Replace(t, p, x)
    PROVE  /\ DOMAIN u = DOMAIN t
           /\ u[p[1]] = [t[p[1]] EXCEPT ![p[2]] = x]
           /\ \A k \in DOMAIN t : k # p[1] => u[k] = t[k]
<1>1. u = [t EXCEPT ![p[1]] = [t[p[1]] EXCEPT ![p[2]] = x]]
  BY DEF Replace
<1> QED BY <1>1

\* Where an amount stands in a golden draft, and what another one makes of it.
LEMMA FigureExchanged ==
    ASSUME NEW l \in Ledgers, SoundLedger(l), NetBalance(l) \in Int, NEW s, GoldenSentence(s, l),
           Measured(s), SpelledOut(s), NEW q \in DOMAIN s, s[q].kind = "amount", NEW n, NEW m,
           m = s[q].num
    PROVE  \/ /\ s = BalanceText(NetBalance(l)) /\ q = 8 /\ m = NetBalance(l)
              /\ [s EXCEPT ![q] = Dollar(n)] = BalanceText(n)
           \/ \E d \in Range(l.docs) :
                /\ m = OpenFigure(l, RefId(d))
                /\ OpenSentence(s, d, l, m)
                /\ OpenSentence([s EXCEPT ![q] = Dollar(n)], d, l, n)
<1>0. LedgerRecord(l)
  BY DEF SoundLedger
<1>1. ~Still(s, l)
  <2> SUFFICES ASSUME Still(s, l) PROVE FALSE
    OBVIOUS
  <2>1. Silent(s, l)
    BY StillTells
  <2> QED BY <2>1 DEF Silent, UnboundAt
<1>2. CASE s = BalanceText(NetBalance(l))
  <2>1. q = 8 /\ s[8] = Dollar(NetBalance(l))
    BY <1>0, <1>2, BalanceTells
  <2>2. m = NetBalance(l)
    BY <2>1 DEF Dollar
  <2>3. [s EXCEPT ![8] = Dollar(n)] = BalanceText(n)
    BY <1>2, BalanceExchanged
  <2> QED BY <1>2, <2>1, <2>2, <2>3
<1>3. CASE \E d \in Range(l.docs) : OpenSentence(s, d, l, OpenFigure(l, RefId(d)))
  <2>1. PICK d \in Range(l.docs) : OpenSentence(s, d, l, OpenFigure(l, RefId(d)))
    BY <1>3
  <2>2. PICK f : f = OpenFigure(l, RefId(d))
    OBVIOUS
  <2>3. s[q].num = f /\ OpenSentence([s EXCEPT ![q] = Dollar(n)], d, l, n)
    BY <2>1, <2>2, OpenExchanged
  <2> QED BY <2>1, <2>2, <2>3
<1> QED BY <1>1, <1>2, <1>3, GoldenIsOpen

\* A figure with two digits exchanged is wrong where it stands.
LEMMA SwapIsWrong ==
    ASSUME NEW l \in Ledgers, SoundLedger(l), NetBalance(l) \in Int, NEW s, GoldenSentence(s, l),
           Measured(s), SpelledOut(s), NEW q \in DOMAIN s, s[q].kind = "amount",
           Transposable(s[q].num)
    PROVE  WrongSentence([s EXCEPT ![q] = Dollar(TransposeAdjacentDigits(s[q].num))], l)
<1>1. PICK m : m = s[q].num
  OBVIOUS
<1>2. PICK n : n = TransposeAdjacentDigits(m)
  OBVIOUS
<1>3. PICK u : u = [s EXCEPT ![q] = Dollar(n)]
  OBVIOUS
<1> SUFFICES WrongSentence(u, l)
  BY <1>1, <1>2, <1>3
<1>4. CASE m = NetBalance(l) /\ u = BalanceText(n)
  <2>1. n \in Nat \ {NetBalance(l)}
    BY <1>1, <1>2, <1>4, CorruptionAssumption DEF Unlike
  <2> QED BY <1>4, <2>1 DEF WrongSentence
<1>5. CASE \E d \in Range(l.docs) : /\ m = OpenFigure(l, RefId(d))
                                    /\ OpenSentence(s, d, l, m) /\ OpenSentence(u, d, l, n)
  <2>1. PICK d \in Range(l.docs) : /\ m = OpenFigure(l, RefId(d))
                                   /\ OpenSentence(s, d, l, m) /\ OpenSentence(u, d, l, n)
    BY <1>5
  <2>2. PICK i : i = RefId(d)
    OBVIOUS
  <2>3. CASE i \in OpenInvoices(l)
    <3>1. OpenFigure(l, i) = OpenAmount(l, i) /\ FaceFigure(l, i) = l.invoices[i].amount
      BY <2>3 DEF OpenFigure, FaceFigure, OpenInvoices
    <3>2. n \in Nat \ {OpenAmount(l, i), l.invoices[i].amount}
      <4>1. Unlike(OpenAmount(l, i), {OpenAmount(l, i), l.invoices[i].amount})
        BY <2>3, CorruptionAssumption
      <4>2. m = OpenAmount(l, i) /\ Transposable(m)
        BY <1>1, <2>1, <2>2, <3>1
      <4> QED BY <1>2, <4>1, <4>2 DEF Unlike
    <3>3. n \in Nat /\ n \notin {OpenFigure(l, i), FaceFigure(l, i)}
      BY <3>1, <3>2
    <3> QED BY <2>1, <2>2, <3>3 DEF WrongSentence
  <2>4. CASE i \in UnappliedPayments(l) \cup OpenCredits(l)
    <3>1. i \in SourceIds(l) /\ UnappliedAmount(l, i) > 0 /\ i \notin InvoiceIds(l)
      BY <2>4, FamiliesDisjoint DEF UnappliedPayments, OpenCredits, SourceIds
    <3>2. OpenFigure(l, i) = UnappliedAmount(l, i) /\ FaceFigure(l, i) = SourceDoc(l, i).amount
      BY <3>1 DEF OpenFigure, FaceFigure
    <3>3. n \in Nat \ {UnappliedAmount(l, i), SourceDoc(l, i).amount}
      <4>1. Unlike(UnappliedAmount(l, i), {UnappliedAmount(l, i), SourceDoc(l, i).amount})
        BY <3>1, CorruptionAssumption
      <4>2. m = UnappliedAmount(l, i) /\ Transposable(m)
        BY <1>1, <2>1, <2>2, <3>2
      <4> QED BY <1>2, <4>1, <4>2 DEF Unlike
    <3>4. n \in Nat /\ n \notin {OpenFigure(l, i), FaceFigure(l, i)}
      BY <3>2, <3>3
    <3> QED BY <2>1, <2>2, <3>4 DEF WrongSentence
  <2>5. i \in OpenInvoices(l) \/ i \in UnappliedPayments(l) \cup OpenCredits(l)
    BY <2>1, <2>2 DEF OpenSentence
  <2> QED BY <2>3, <2>4, <2>5
<1>6. \/ m = NetBalance(l) /\ u = BalanceText(n)
      \/ \E d \in Range(l.docs) : /\ m = OpenFigure(l, RefId(d))
                                  /\ OpenSentence(s, d, l, m) /\ OpenSentence(u, d, l, n)
  BY <1>1, <1>3, FigureExchanged
<1> QED BY <1>4, <1>5, <1>6

\* A golden draft with one wrong sentence is sent back.
LEMMA WrongReplaced ==
    ASSUME AuditInv, NEW golden, ErrorRunOf(ledger, golden), NEW p \in Places(golden), NEW x,
           text = Replace(golden, p, x), WrongSentence([golden[p[1]] EXCEPT ![p[2]] = x], ledger),
           \A k \in DOMAIN text : Measured(text[k]) /\ SpelledOut(text[k])
    PROVE  decision.action = "revise"
<1>1. PICK w : w = p[1]
  OBVIOUS
<1>2. /\ SoundLedger(ledger) /\ NetBalance(ledger) \in Int /\ IsDraft(golden)
      /\ \A k \in DOMAIN golden : GoldenSentence(golden[k], ledger)
  BY DEF ErrorRunOf, GoldenSays, Range
<1>3. w \in DOMAIN golden
  BY <1>1, <1>2, PlacesInText
<1>4. /\ DOMAIN text = DOMAIN golden /\ WrongSentence(text[w], ledger)
      /\ \A k \in DOMAIN golden : k # w => text[k] = golden[k]
  BY <1>1, <1>3, OneReplaced
<1>5. w \in DOMAIN text /\ text # << >>
  BY <1>3, <1>4
<1>6. \A k \in DOMAIN text : k # w => GoldenSentence(text[k], ledger)
  BY <1>2, <1>4
<1> QED BY <1>2, <1>4, <1>5, <1>6, OneWrongRevises

LEMMA SwappedRevises ==
    ASSUME AuditInv, NEW golden, ErrorRunOf(ledger, golden), text \in SwapAmount(golden, ledger),
           \A k \in DOMAIN text : Measured(text[k]) /\ SpelledOut(text[k])
    PROVE  decision.action = "revise"
<1>1. PICK dollars : dollars = DollarPlaces(golden)
  OBVIOUS
<1>2. PICK others : others = {p \in dollars : At(golden, p).num # NetBalance(ledger)}
  OBVIOUS
<1>3. PICK some : some = IF others # {} THEN others ELSE dollars
  OBVIOUS
<1>4. PICK p : p = FirstOf(some)
  OBVIOUS
<1>5. PICK x : x = Dollar(TransposeAdjacentDigits(At(golden, p).num))
  OBVIOUS
<1>6. SwapAmount(golden, ledger) = IF dollars = {} \/ ~Transposable(At(golden, p).num) THEN {}
                                   ELSE {Replace(golden, p, x)}
  BY <1>1, <1>2, <1>3, <1>4, <1>5 DEF SwapAmount
<1>7. dollars # {} /\ Transposable(At(golden, p).num) /\ text = Replace(golden, p, x)
  BY <1>6
<1>8. /\ SoundLedger(ledger) /\ NetBalance(ledger) \in Int /\ IsDraft(golden) /\ ledger \in Ledgers
      /\ \A k \in DOMAIN golden : /\ GoldenSentence(golden[k], ledger)
                                  /\ Measured(golden[k]) /\ SpelledOut(golden[k])
  BY DEF ErrorRunOf, GoldenSays, Range, AuditInv
<1>9. some # {} /\ some \subseteq dollars /\ dollars \subseteq Places(golden)
  BY <1>1, <1>2, <1>3, <1>7 DEF DollarPlaces
<1>10. p \in some
  <2>1. some \subseteq Nat \X Nat
    BY <1>8, <1>9, PlacesInText
  <2> QED BY <1>4, <1>9, <2>1, FirstIs
<1>11. /\ p \in Places(golden) /\ At(golden, p).kind = "amount"
       /\ p[1] \in DOMAIN golden /\ p[2] \in DOMAIN golden[p[1]]
       /\ At(golden, p) = golden[p[1]][p[2]]
  BY <1>1, <1>8, <1>9, <1>10, PlacesInText DEF DollarPlaces
<1>12. PICK s : s = golden[p[1]]
  OBVIOUS
<1>13. PICK q : q = p[2]
  OBVIOUS
<1>14. /\ q \in DOMAIN s /\ s[q].kind = "amount" /\ Transposable(s[q].num)
       /\ x = Dollar(TransposeAdjacentDigits(s[q].num))
       /\ GoldenSentence(s, ledger) /\ Measured(s) /\ SpelledOut(s)
  BY <1>5, <1>7, <1>8, <1>11, <1>12, <1>13
<1>15. WrongSentence([s EXCEPT ![q] = x], ledger)
  BY <1>8, <1>14, SwapIsWrong
<1>16. WrongSentence([golden[p[1]] EXCEPT ![p[2]] = x], ledger)
  BY <1>12, <1>13, <1>15
<1> QED BY <1>7, <1>11, <1>16, WrongReplaced

LEMMA BrokenRevises ==
    ASSUME AuditInv, NEW golden, ErrorRunOf(ledger, golden), text \in BreakSum(golden, ledger),
           \A k \in DOMAIN text : Measured(text[k]) /\ SpelledOut(text[k])
    PROVE  decision.action = "revise"
<1>1. PICK net : net = NetBalance(ledger)
  OBVIOUS
<1>2. PICK stated : stated = {p \in DollarPlaces(golden) : At(golden, p).num = net}
  OBVIOUS
<1>3. PICK p : p = FirstOf(stated)
  OBVIOUS
<1>4. stated # {} /\ text = Replace(golden, p, Dollar(net + 1000))
  BY <1>1, <1>2, <1>3 DEF BreakSum
<1>5. /\ SoundLedger(ledger) /\ net \in Int /\ IsDraft(golden) /\ LedgerRecord(ledger)
      /\ Opens(golden, ledger)
      /\ \A k \in DOMAIN golden : Measured(golden[k]) /\ SpelledOut(golden[k])
  BY <1>1 DEF ErrorRunOf, GoldenSays, SoundLedger
<1>6. stated \subseteq DollarPlaces(golden) /\ DollarPlaces(golden) \subseteq Places(golden)
  BY <1>2 DEF DollarPlaces
<1>7. stated \subseteq Nat \X Nat
  BY <1>5, <1>6, PlacesInText
<1>8. PICK s : s = golden[3]
  OBVIOUS
<1>9. 3 \in DOMAIN golden /\ s = BalanceText(net) /\ Measured(s) /\ SpelledOut(s)
  BY <1>1, <1>5, <1>8 DEF Opens
<1>10. /\ 8 \in DOMAIN s /\ s[8] = Dollar(net)
       /\ \A k \in DOMAIN s : s[k].kind = "amount" => k = 8
  BY <1>5, <1>9, BalanceTells
<1>11. <<3, 8>> \in stated
  <2>1. Len(s) = 8
    <3>1. BalanceShape(s, net)
      BY <1>9, BalanceShaped
    <3> QED BY <3>1 DEF BalanceShape
  <2>2. <<3, 8>> \in (DOMAIN golden) \X (1..50)
    BY <1>9
  <2>3. <<3, 8>> \in Places(golden)
    BY <1>8, <2>1, <2>2 DEF Places
  <2>4. At(golden, <<3, 8>>) = Dollar(net)
    BY <1>8, <1>10 DEF At
  <2>5. Dollar(net).kind = "amount" /\ Dollar(net).form = "dollar" /\ Dollar(net).num = net
    BY DEF Dollar
  <2> QED BY <1>2, <2>3, <2>4, <2>5 DEF DollarPlaces
<1>12. p \in stated /\ (p[1] < 3 \/ (p[1] = 3 /\ p[2] <= 8))
  <2>1. p \in stated /\ \A q \in stated : p[1] < q[1] \/ (p[1] = q[1] /\ p[2] <= q[2])
    BY <1>3, <1>4, <1>7, FirstIs
  <2> QED BY <1>11, <2>1
<1>13. /\ p \in Places(golden) /\ At(golden, p).kind = "amount"
       /\ p[1] \in DOMAIN golden /\ p[2] \in DOMAIN golden[p[1]]
       /\ At(golden, p) = golden[p[1]][p[2]]
  BY <1>5, <1>6, <1>12, PlacesInText DEF DollarPlaces
<1>14. p[1] \notin {1, 2}
  <2> SUFFICES ASSUME p[1] \in {1, 2} PROVE FALSE
    OBVIOUS
  <2>1. Still(golden[p[1]], ledger)
    BY <1>5 DEF Opens
  <2>2. Silent(golden[p[1]], ledger)
    BY <1>5, <1>13, <2>1, StillTells
  <2> QED BY <1>13, <2>2 DEF Silent, UnboundAt
<1>15. p[1] = 3
  <2>1. PICK n \in Nat : DOMAIN golden = 1..n
    BY <1>5, ListIs DEF IsDraft
  <2>2. PICK w : w = p[1]
    OBVIOUS
  <2>3. w \in 1..n /\ (w < 3 \/ w = 3) /\ w # 1 /\ w # 2
    BY <1>12, <1>13, <1>14, <2>1, <2>2
  <2>4. w = 3
    BY <2>3
  <2> QED BY <2>2, <2>4
<1>16. p[2] = 8
  BY <1>8, <1>10, <1>13, <1>15
<1>17. WrongSentence([s EXCEPT ![8] = Dollar(net + 1000)], ledger)
  <2>1. PICK n : n = net + 1000
    OBVIOUS
  <2>2. n \in Int /\ n # net
    BY <1>5, <2>1
  <2>3. [s EXCEPT ![8] = Dollar(n)] = BalanceText(n)
    BY <1>9, BalanceExchanged
  <2>4. WrongSentence(BalanceText(n), ledger)
    BY <1>1, <2>2 DEF WrongSentence
  <2> QED BY <2>1, <2>3, <2>4
<1>18. WrongSentence([golden[p[1]] EXCEPT ![p[2]] = Dollar(net + 1000)], ledger)
  BY <1>8, <1>15, <1>16, <1>17
<1> QED BY <1>4, <1>13, <1>18, WrongReplaced

\* A reference to no document on record escalates.
LEMMA NoneTheSame ==
    ASSUME NEW fam, NEW pad, NEW num, NEW l,
           {DocId(fam, z, num) : z \in ZeroPads} \cap DocumentIds(l) = {}
    PROVE  CanonicalId(fam, pad, num, l) = DocId(fam, pad, num)
<1>1. PICK same : same = {DocId(fam, z, num) : z \in ZeroPads} \cap DocumentIds(l)
  OBVIOUS
<1>2. same = {}
  BY <1>1
<1>3. PICK naive : naive = DocId(fam, pad, num)
  OBVIOUS
<1>4. CanonicalId(fam, pad, num, l) =
        IF naive \notin DocumentIds(l) /\ Cardinality(same) = 1 THEN CHOOSE d \in same : TRUE ELSE naive
  BY <1>1, <1>3 DEF CanonicalId
<1>5. Cardinality(same) # 1
  <2>1. Cardinality({}) = 0
    BY FS_EmptySet
  <2> QED BY <1>2, <2>1
<1> QED BY <1>3, <1>4, <1>5

LEMMA FreshIsUnknown ==
    ASSUME NEW l \in Ledgers, NEW n \in FreshNumbers, DocId("INV", "", n) \notin DocumentIds(l)
    PROVE  CanonicalId("INV", "", n, l) \notin DocumentIds(l)
<1>1. {DocId("INV", z, n) : z \in ZeroPads} \cap DocumentIds(l) = {}
  <2>1. \A z \in ZeroPads \ {""} : DocId("INV", z, n) \notin DocumentIds(l)
    BY CorruptionAssumption
  <2> QED BY <2>1
<1>2. CanonicalId("INV", "", n, l) = DocId("INV", "", n)
  BY <1>1, NoneTheSame
<1> QED BY <1>2

LEMMA FabricatedEscalates ==
    ASSUME AuditInv, NEW golden, IsDraft(golden), text \in FabricateId(golden, ledger)
    PROVE  decision.action = "escalate"
<1>1. PICK real : real = {p \in Places(golden) : At(golden, p).text \in InvoiceIds(ledger)}
  OBVIOUS
<1>2. PICK free : free = {n \in FreshNumbers :
                            /\ DocId("INV", "", n) \notin DocumentIds(ledger)
                            /\ \A p \in Places(golden) : At(golden, p).text # DocId("INV", "", n)}
  OBVIOUS
<1>3. PICK n : n = Min(free)
  OBVIOUS
<1>4. PICK p : p = FirstOf(real)
  OBVIOUS
<1>5. PICK x : x = DocToken("INV", "", n)
  OBVIOUS
<1>6. real # {} /\ free # {} /\ text = Replace(golden, p, x)
  <2>1. FabricateId(golden, ledger) = IF real = {} \/ free = {} THEN {}
                                      ELSE {Replace(golden, p, x)}
    BY <1>1, <1>2, <1>3, <1>4, <1>5 DEF FabricateId
  <2> QED BY <2>1
<1>7. n \in free
  <2>1. free \subseteq Nat
    <3>1. free \subseteq FreshNumbers
      BY <1>2
    <3>2. FreshNumbers \subseteq Nat
      BY DEF FreshNumbers
    <3> QED BY <3>1, <3>2
  <2> QED BY <1>3, <1>6, <2>1, LeastIs
<1>8. n \in FreshNumbers /\ DocId("INV", "", n) \notin DocumentIds(ledger)
  BY <1>2, <1>7
<1>9. p \in Places(golden)
  <2>1. real \subseteq Places(golden)
    BY <1>1
  <2>2. real \subseteq Nat \X Nat
    BY <2>1, PlacesInText
  <2> QED BY <1>4, <1>6, <2>1, <2>2, FirstIs
<1>10. PICK w : w = p[1]
  OBVIOUS
<1>11. PICK j : j = p[2]
  OBVIOUS
<1>12. w \in DOMAIN golden /\ j \in DOMAIN golden[w]
  BY <1>9, <1>10, <1>11, PlacesInText
<1>13. DOMAIN text = DOMAIN golden /\ text[w] = [golden[w] EXCEPT ![j] = x]
  BY <1>6, <1>10, <1>11, <1>12, OneReplaced
<1>14. PICK s : s = text[w]
  OBVIOUS
<1>15. w \in DOMAIN text /\ j \in DOMAIN s /\ s[j] = x
  BY <1>12, <1>13, <1>14
<1>16. ledger \in Ledgers /\ IsDraft(text) /\ IsSentence(s) /\ text # << >>
  <2>1. IsDraft(text) /\ ledger \in Ledgers
    BY DEF AuditInv
  <2> QED BY <1>14, <1>15, <2>1 DEF IsDraft
<1>17. PICK L : L = LaidOut(s)
  OBVIOUS
<1>18. L[j].kind = "doc" /\ L[j].fam = "INV" /\ L[j].pad = "" /\ L[j].num = n
  <2>1. DOMAIN x = {"kind", "text", "fam", "pad", "num"}
    BY <1>5 DEF DocToken
  <2>2. \A f \in DOMAIN x : f \notin {"at", "end"} => L[j][f] = x[f]
    BY <1>15, <1>16, <1>17, LaidOutIs
  <2>3. L[j].kind = x.kind /\ L[j].fam = x.fam /\ L[j].pad = x.pad /\ L[j].num = x.num
    BY <2>1, <2>2
  <2> QED BY <1>5, <2>3 DEF DocToken
<1>19. PICK d : d = CanonicalId("INV", "", n, ledger)
  OBVIOUS
<1>20. MentionAt(L, j, ledger) = <<[at |-> L[j].at, fam |-> L[j].fam, doc |-> d]>>
  BY <1>18, <1>19 DEF MentionAt
<1>21. d \in DocsNamed(text, ledger)
  <2>1. PICK m : m = [at |-> L[j].at, fam |-> L[j].fam, doc |-> d]
    OBVIOUS
  <2>2. m \in Range(<<m>>)
    <3>1. DOMAIN <<m>> = {1} /\ <<m>>[1] = m
      OBVIOUS
    <3> QED BY <3>1 DEF Range
  <2>3. m \in Range(MentionAt(LaidOut(text[w]), j, ledger)) /\ m.doc = d
    BY <1>14, <1>17, <1>20, <2>1, <2>2
  <2>4. j \in DOMAIN text[w]
    BY <1>14, <1>15
  <2> QED BY <1>15, <1>16, <2>3, <2>4, NamedAtToken
<1>22. d \notin DocumentIds(ledger)
  BY <1>8, <1>16, <1>19, FreshIsUnknown
<1>23. decision.reason = "fabricated"
  BY <1>16, <1>21, <1>22, AuditFabricated DEF FabricatedIsUnknown
<1>24. decision = MatchMatrix(checked, DraftOf(text, ledger), ledger, 0)
  BY <1>16, ResultsAre
<1> QED BY <1>23, <1>24, MatrixRows

\* A sentence with a word that promises has a fuzzy phrase.
LEMMA OneText ==
    ASSUME NEW s, NEW k \in Nat \ {0}
    PROVE  Texts(s, k, k) = <<s[k].text>>
<1>1. PICK f : f = [i \in 1..1 |-> s[k + i - 1].text]
  OBVIOUS
<1>2. k - k + 1 = 1 /\ k + 1 - 1 = k
  OBVIOUS
<1>3. Texts(s, k, k) = Listed(f)
  BY <1>1, <1>2 DEF Texts
<1>4. f = [i \in 1..1 |-> f[i]]
  BY <1>1
<1>5. Listed(f) = f
  BY <1>4, ListedIs
<1>6. f[1] = s[k].text
  BY <1>1, <1>2
<1>7. f = <<f[1]>>
  BY <1>4
<1> QED BY <1>3, <1>5, <1>6, <1>7

LEMMA WordSays ==
    ASSUME NEW s, IsSentence(s), NEW k \in DOMAIN s, NEW P, <<s[k].text>> \in P
    PROVE  Says(LaidOut(s), P)
<1>1. PICK L : L = LaidOut(s)
  OBVIOUS
<1>2. IsSentence(L) /\ DOMAIN L = DOMAIN s /\ L[k].text = s[k].text
  BY <1>1, LaidOutTokens
<1>3. PICK n : n = Len(L)
  OBVIOUS
<1>4. n \in Nat /\ DOMAIN L = 1..n
  BY <1>2, <1>3, ListIs DEF IsSentence
<1>5. k \in 1..n /\ k \in Nat \ {0}
  BY <1>2, <1>4
<1>6. Texts(L, k, k) \in P
  BY <1>2, <1>5, OneText
<1>7. k \in EndsAt(L, k, P)
  <2>1. k <= MinOf(n, k + LongestPhrase)
    BY <1>4, <1>5 DEF MinOf, LongestPhrase
  <2>2. MinOf(n, k + LongestPhrase) \in Int
    BY <1>4, <1>5 DEF MinOf, LongestPhrase
  <2>3. PICK m : m = MinOf(n, k + LongestPhrase)
    OBVIOUS
  <2>4. k \in k..m
    BY <1>5, <2>1, <2>2, <2>3
  <2>5. EndsAt(L, k, P) = {j \in k..m : Texts(L, k, j) \in P}
    BY <1>3, <2>3 DEF EndsAt
  <2> QED BY <1>6, <2>4, <2>5
<1> QED BY <1>1, <1>3, <1>4, <1>5, <1>7, MatchesExist

WaiverWords == <<"your", "account", "manager", "approved", "a", "waiver", "of",
                 "the", "late", "fees", "on", "this", "balance">>
HoldWords   == <<"as", "we", "discussed", "by", "phone", ",", "we", "will", "hold",
                 "this", "invoice", "until", "next", "quarter">>

LEMMA FuzzyIsSaid ==
    ASSUME NEW s \in FuzzySentences
    PROVE  IsSentence(s) /\ Says(LaidOut(s), FuzzyPhrases)
<1>1. s = Words(WaiverWords) \/ s = Words(HoldWords)
  BY DEF FuzzySentences, WaiverWords, HoldWords
<1>2. ASSUME NEW ws, NEW n \in Nat, DOMAIN ws = 1..n, s = Words(ws), NEW k \in 1..n,
             <<ws[k]>> \in FuzzyPhrases
      PROVE  IsSentence(s) /\ Says(LaidOut(s), FuzzyPhrases)
  <2>1. WordsAt(s, ws, n)
    BY <1>2, WordsShape
  <2>2. DOMAIN s = 1..n /\ s[k].text = ws[k] /\ IsSentence(s)
    BY <1>2, <2>1, WordIs, WordsAre DEF WordsAt
  <2> QED BY <1>2, <2>2, WordSays
<1>3. CASE s = Words(WaiverWords)
  <2>1. DOMAIN WaiverWords = 1..13
    BY DEF WaiverWords
  <2>2. WaiverWords[4] = "approved"
    BY DEF WaiverWords
  <2>3. <<WaiverWords[4]>> \in FuzzyPhrases
    BY <2>2 DEF FuzzyPhrases, One
  <2>4. 4 \in 1..13 /\ 13 \in Nat
    OBVIOUS
  <2> QED BY <1>2, <1>3, <2>1, <2>3, <2>4
<1>4. CASE s = Words(HoldWords)
  <2>1. DOMAIN HoldWords = 1..14
    BY DEF HoldWords
  <2>2. HoldWords[3] = "discussed"
    BY DEF HoldWords
  <2>3. <<HoldWords[3]>> \in FuzzyPhrases
    BY <2>2 DEF FuzzyPhrases, One
  <2>4. 3 \in 1..14 /\ 14 \in Nat
    OBVIOUS
  <2> QED BY <1>2, <1>4, <2>1, <2>3, <2>4
<1> QED BY <1>1, <1>3, <1>4

LEMMA FuzzyIsCaught ==
    ASSUME AuditInv, NEW golden, IsDraft(golden), text \in InjectFuzzy(golden),
           decision.action \notin {"revise", "escalate"}
    PROVE  \E k \in Claims({"C-FUZZY"}) : checked[k].status = "pass" /\ checked[k].cites # {}
<1>1. PICK s \in FuzzySentences : text = Append(golden, s)
  BY DEF InjectFuzzy
<1>2. PICK n \in Nat : n = Len(golden) /\ DOMAIN golden = 1..n
  BY ListIs DEF IsDraft
<1>3. n + 1 \in DOMAIN text /\ text[n + 1] = s
  <2>1. golden \in Seq(Range(golden) \cup {s})
    BY SeqOver DEF IsDraft, IsList
  <2> QED BY <1>1, <1>2, <2>1
<1>4. Says(LaidOut(text[n + 1]), FuzzyPhrases)
  BY <1>1, <1>3, FuzzyIsSaid
<1>5. /\ Claims({"C-FUZZY"}) # {}
      /\ \A c \in Claims({"C-FUZZY"}) : checked[c].status = "pass" /\ checked[c].cites # {}
  BY <1>3, <1>4, AuditPhrases DEF PhrasesAreCited
<1> QED BY <1>5

\* Each corruption changes one sentence, or adds one.
LEMMA AuditCorruption == AuditInv => CorruptionIsCaught
<1> SUFFICES ASSUME AuditInv PROVE CorruptionIsCaught
  OBVIOUS
<1>1. PICK golden : golden = GoldenDraft(ledger)
  OBVIOUS
<1>2. ErrorRunOf(ledger, golden) /\ IsDraft(golden)
  BY <1>1, ErrorRuns DEF ErrorRunOf
<1>3. origin \in {"swapped", "broken"} => \A k \in DOMAIN text : Measured(text[k]) /\ SpelledOut(text[k])
  BY ErrorRuns
<1>4. /\ origin = "swapped"    => text \in SwapAmount(golden, ledger)
      /\ origin = "fabricated" => text \in FabricateId(golden, ledger)
      /\ origin = "broken"     => text \in BreakSum(golden, ledger)
      /\ origin = "fuzzy"      => text \in InjectFuzzy(golden)
  BY <1>1 DEF AuditInv, CameFrom
<1>5. origin = "swapped" => decision.action = "revise"
  BY <1>2, <1>3, <1>4, SwappedRevises
<1>6. origin = "broken" => decision.action = "revise"
  BY <1>2, <1>3, <1>4, BrokenRevises
<1>7. origin = "fabricated" => decision.action = "escalate"
  BY <1>2, <1>4, FabricatedEscalates
<1>8. origin = "fuzzy" => \/ decision.action \in {"revise", "escalate"}
                          \/ \E k \in Claims({"C-FUZZY"}) :
                               checked[k].status = "pass" /\ checked[k].cites # {}
  BY <1>2, <1>4, FuzzyIsCaught
<1> QED BY <1>5, <1>6, <1>7, <1>8 DEF CorruptionIsCaught

-----------------------------------------------------------------------------
(***************************************************************************)
(* Theorems                                                                *)
(***************************************************************************)
\* Whatever is verified is made of tokens, and the results at hand are those of
\* the claims extracted from the text at hand (cli.py, cmd_errors).
THEOREM AuditInvariant == Spec => []AuditInv
BY AuditInit, AuditStep, PTL DEF Spec

\* Every amount, percentage and date that a detector catches is in a claim
\* (surface.py:3-9), unless a currency marker beside it takes its digits
\* (TakenByMarker): extraction, ordering and the removal of repetitions lose
\* none, whatever the rest of the sentence.
THEOREM CaughtFiguresAreClaimed == Spec => []CaughtIsClaimed
BY AuditInvariant, AuditClaims, PTL

\* A draft whose claims all pass does not say of the one invoice in a sentence
\* that it is paid, settled or cleared while something of it is open
\* (checks.py:469-516).  The bare word "paid" in a sentence that takes an invoice
\* apart is no claim (surface.py:563-573), and is not covered.
THEOREM PaidIsNeverSaidOfOpen == Spec => []NoOpenInvoiceCalledPaid
BY AuditInvariant, AuditStatuses, PTL

\* Each amount in a draft whose claims all pass is a figure of what the sentence
\* names, or a total of the account (BorneOut; oracle.py:143-210), but in a
\* sentence that names an invoice twice and but for what a marker takes.
THEOREM PassedFiguresHold == Spec => []PassedFiguresAreBorneOut
BY AuditInvariant, AuditFigures, PTL

\* A text is escalated as fabricated exactly when it names a document that is
\* not on record, by its reference or by family and number: extraction looks up
\* every reference, and no other defect goes by that name (surface.py:609-651,
\* policy.py:170-187).
THEOREM UnknownDocumentsEscalate == Spec => []FabricatedIsUnknown
<1>1. AuditInv => FabricatedIsUnknown
  BY AuditFabricated
<1> QED BY <1>1, AuditInvariant, PTL

\* A text with a phrase of the fuzzy vocabulary that is neither sent back nor
\* escalated has fuzzy claims, and each has passed citing documents on record
\* (checks.py:673-729, policy.py:239-287).
THEOREM PhrasesNeedCitations == Spec => []PhrasesAreCited
<1>1. AuditInv => PhrasesAreCited
  BY AuditPhrases
<1> QED BY <1>1, AuditInvariant, PTL

\* A text that reaches the human gate has only passed claims, names documents on
\* record alone and each one that the replay of the raw records leaves open, and
\* states the balance of that replay, or in words that nothing is owed when so
\* it is (policy.py:170-355, score.py:85-177).
THEOREM GatedDraftsAreComplete == Spec => []GatedIsComplete
<1>1. AuditInv => GatedIsComplete
  BY AuditGate
<1> QED BY <1>1, AuditInvariant, PTL

\* The rendered draft of every account within the assumptions verifies clean, in
\* every claim read from its words, the oracle bears out its figures, and the
\* gate lets it through or abstains on an ambiguous account (cli.py, cmd_errors;
\* golden.py:21-76).
THEOREM GoldenDraftsVerifyClean == Spec => []GoldenVerifiesClean
<1>1. AuditInv => GoldenVerifiesClean
  BY AuditGolden
<1> QED BY <1>1, AuditInvariant, PTL

\* A golden draft with a figure's digits exchanged or its balance changed is
\* sent back, one that names an invoice nowhere on record is escalated, and a
\* promise appended to it is sent back or escalated unless the verifier passes
\* it with citations (corrupt.py:62-256; cli.py, cmd_errors).
THEOREM CorruptionsAreCaught == Spec => []CorruptionIsCaught
<1>1. AuditInv => CorruptionIsCaught
  BY AuditCorruption
<1> QED BY <1>1, AuditInvariant, PTL

=============================================================================
