---------------------------- MODULE LedgerProofs ----------------------------
(***************************************************************************)
(* Theorems about the derivations, for every ledger the schemas admit.     *)
(*                                                                         *)
(* Every derived figure is a sum over a finite set.  Two sums are shown    *)
(* equal by showing that the sets on which they agree include, with every  *)
(* set that has one element less, the set itself (AllSubsets, from the     *)
(* least number argument): induction over one family of sets rather than   *)
(* over a predicate.  Total is the sum as a table of partial sums, and     *)
(* TotalRemove, TotalPlus and TotalByGroup are what the derivations need.  *)
(* OpenAt and Subtotal sum over the documents a sentence names.            *)
(* The lemmas on iteration, extremes, images and joined sequences serve    *)
(* the theorems about drafts as well.                                      *)
(***************************************************************************)
EXTENDS Ledger, FiniteSetTheorems, TLAPS

-----------------------------------------------------------------------------
(***************************************************************************)
(* Induction over finite sets                                              *)
(***************************************************************************)

LEMMA LeastOfNaturals ==
    ASSUME NEW N \in SUBSET Nat, N # {}
    PROVE  \E n \in N : \A m \in N : n <= m
<1>1. PICK n \in N : \A m \in N : <<m, n>> \notin OpToRel(<, Nat)
  BY NatLessThanWellFounded, WFMin
<1>2. \A m \in N : <<m, n>> \in OpToRel(<, Nat) <=> m < n
  BY DEF OpToRel
<1>3. \A m \in N : ~(m < n)
  BY <1>1, <1>2
<1> QED BY <1>3

\* A set of naturals with zero, and with the successor of each of its members,
\* has them all.
LEMMA AllNaturals ==
    ASSUME NEW Good, 0 \in Good, \A n \in Nat : n \in Good => n + 1 \in Good
    PROVE  Nat \subseteq Good
<1> SUFFICES ASSUME Nat \ Good # {} PROVE FALSE
  OBVIOUS
<1>1. PICK n \in Nat \ Good : \A m \in Nat \ Good : n <= m
  BY LeastOfNaturals
<1>2. n # 0 /\ n - 1 \in Nat /\ n - 1 \in Good
  BY <1>1
<1>3. (n - 1) + 1 \in Good
  BY <1>2
<1> QED BY <1>1, <1>3

\* A set belongs to the family when every set with one element less does.
Inherited(Good, S) ==
    \A T \in SUBSET S : (\A x \in T : T \ {x} \in Good) => T \in Good

\* Such a family has all the subsets of a finite set.
LEMMA AllSubsets ==
    ASSUME NEW S, IsFiniteSet(S), NEW Good, Inherited(Good, S)
    PROVE  SUBSET S \subseteq Good
<1> SUFFICES ASSUME NEW B \in SUBSET S, B \notin Good PROVE FALSE
  OBVIOUS
<1> DEFINE Bad == {T \in SUBSET S : T \notin Good}
           N == {Cardinality(T) : T \in Bad}
<1>1. \A T \in SUBSET S : IsFiniteSet(T) /\ Cardinality(T) \in Nat
  BY FS_Subset, FS_CardinalityType
<1>2. N \in SUBSET Nat /\ N # {}
  BY <1>1
<1>3. PICK T \in Bad : \A U \in Bad : Cardinality(T) <= Cardinality(U)
  <2>1. PICK n \in N : \A m \in N : n <= m
    BY <1>2, LeastOfNaturals
  <2>2. PICK T \in Bad : n = Cardinality(T)
    OBVIOUS
  <2> QED BY <2>1, <2>2
<1>4. ASSUME NEW x \in T PROVE T \ {x} \in Good
  <2>1. Cardinality(T \ {x}) = Cardinality(T) - 1
    BY <1>1, FS_RemoveElement
  <2>2. T \ {x} \in SUBSET S
    OBVIOUS
  <2>3. ~ (Cardinality(T) <= Cardinality(T \ {x}))
    BY <1>1, <2>1
  <2> QED BY <1>3, <2>2, <2>3
<1> QED BY <1>3, <1>4 DEF Inherited

-----------------------------------------------------------------------------
(***************************************************************************)
(* Iterations, extremes, images and joined sequences                       *)
(***************************************************************************)
\* A function given step by step from its value at zero.
Iterates(f, base, F, n) == f[0] = base /\ \A i \in 1..n : f[i] = F[i][f[i - 1]]

\* There is one up to any number.
LEMMA IterationExists ==
    ASSUME NEW A, NEW base \in A, NEW n \in Nat, NEW F \in [1..n -> [A -> A]]
    PROVE  \E f \in [0..n -> A] : Iterates(f, base, F, n)
<1> DEFINE Upto(f, m) == f[0] = base /\ \A i \in 1..n : i <= m => f[i] = F[i][f[i - 1]]
           Good == {m \in Nat : \E f \in [0..n -> A] : Upto(f, m)}
<1>1. 0 \in Good
  <2>1. Upto([i \in 0..n |-> base], 0)
    OBVIOUS
  <2> QED BY <2>1
<1>2. ASSUME NEW m \in Nat, m \in Good PROVE m + 1 \in Good
  <2>1. PICK f \in [0..n -> A] : Upto(f, m)
    BY <1>2
  <2>2. CASE m + 1 > n
    <3>1. \A i \in 1..n : i <= m
      BY <2>2
    <3> QED BY <2>1, <3>1
  <2>3. CASE m + 1 <= n
    <3> DEFINE h == [f EXCEPT ![m + 1] = F[m + 1][f[m]]]
    <3>1. F[m + 1] \in [A -> A] /\ f[m] \in A /\ m + 1 \in 0..n /\ m \in 0..n
      BY <2>3
    <3>2. h \in [0..n -> A]
      BY <3>1
    <3>3. \A i \in 0..n : i # m + 1 => h[i] = f[i]
      OBVIOUS
    <3>4. h[m + 1] = F[m + 1][f[m]]
      BY <3>1
    <3> HIDE DEF h
    <3>5. ASSUME NEW i \in 1..n, i <= m + 1 PROVE h[i] = F[i][h[i - 1]]
      <4>1. CASE i = m + 1
        <5>1. i - 1 = m /\ h[m] = f[m]
          BY <3>1, <3>3, <4>1
        <5> QED BY <3>4, <4>1, <5>1
      <4>2. CASE i <= m
        <5>1. h[i] = f[i] /\ h[i - 1] = f[i - 1]
          BY <3>3, <4>2
        <5> QED BY <2>1, <4>2, <5>1
      <4> QED BY <3>5, <4>1, <4>2
    <3>6. h[0] = base
      BY <2>1, <3>3
    <3> QED BY <3>2, <3>5, <3>6
  <2> QED BY <2>2, <2>3
<1> HIDE DEF Good
<1>3. n \in Good
  BY <1>1, <1>2, AllNaturals
<1>4. PICK f \in [0..n -> A] : Upto(f, n)
  BY <1>3 DEF Good
<1> QED BY <1>4 DEF Iterates

\* A set of numbers up to n has a last one and a first one.
LEMMA MaxIn ==
    ASSUME NEW n \in Nat, NEW D \in SUBSET (1..n), D # {}
    PROVE  Max(D) \in D /\ \A k \in D : k <= Max(D)
<1> DEFINE N == {n - k : k \in D}
<1>1. N \in SUBSET Nat /\ N # {}
  <2>1. \A k \in D : k \in 1..n
    OBVIOUS
  <2>2. \A k \in 1..n : n - k \in Nat
    OBVIOUS
  <2> QED BY <2>1, <2>2
<1>2. PICK a \in N : \A b \in N : a <= b
  <2> HIDE DEF N
  <2> QED BY <1>1, LeastOfNaturals
<1>3. PICK m \in D : a = n - m
  BY <1>2
<1>4. ASSUME NEW k \in D PROVE m >= k
  <2>1. n - k \in N
    OBVIOUS
  <2>2. n - m <= n - k
    BY <1>2, <1>3, <2>1
  <2> QED BY <2>2
<1>5. \E x \in D : \A y \in D : x >= y
  BY <1>4
<1>6. Max(D) \in D /\ \A y \in D : Max(D) >= y
  BY <1>5 DEF Max
<1> QED BY <1>6

LEMMA MinIn ==
    ASSUME NEW n \in Nat, NEW D \in SUBSET (1..n), D # {}
    PROVE  Min(D) \in D
<1>1. PICK m \in D : \A k \in D : m <= k
  <2>1. D \in SUBSET Nat
    OBVIOUS
  <2> QED BY <2>1, LeastOfNaturals
<1> QED BY <1>1 DEF Min

\* A set of natural numbers has a least one.
LEMMA LeastIs ==
    ASSUME NEW P, P \subseteq Nat, P # {}
    PROVE  Min(P) \in P /\ \A q \in P : Min(P) <= q
<1>1. \E m \in P : \A q \in P : m <= q
  BY LeastOfNaturals
<1> QED BY <1>1 DEF Min

\* Finitely many arguments have finitely many values.
LEMMA ImageFinite ==
    ASSUME NEW S, IsFiniteSet(S), NEW f, DOMAIN f = S
    PROVE  IsFiniteSet({f[x] : x \in S})
<1>1. PICK g : g = [x \in S |-> f[x]]
  OBVIOUS
<1>2. g \in Surjection(S, {f[x] : x \in S})
  BY <1>1 DEF Surjection
<1> QED BY <1>2, FS_Surjection

\* flat holds the elements of the first n of some sequences, each once: its
\* element j is the one at q[j] of the sequence p[j].
JoinedAt(flat, ss, n, p, q) ==
    /\ DOMAIN p = DOMAIN flat /\ DOMAIN q = DOMAIN flat
    /\ \A j \in DOMAIN flat : /\ p[j] \in 1..n
                              /\ q[j] \in DOMAIN ss[p[j]]
                              /\ flat[j] = ss[p[j]][q[j]]
    /\ \A k \in 1..n : \A i \in DOMAIN ss[k] :
         \E j \in DOMAIN flat : p[j] = k /\ q[j] = i
    /\ \A i, j \in DOMAIN flat : p[i] = p[j] /\ q[i] = q[j] => i = j
Joined(flat, ss, n) == \E p, q : JoinedAt(flat, ss, n, p, q)

\* One sequence alone, and one more behind the others.
LEMMA JoinOne ==
    ASSUME NEW S, NEW n \in Nat \ {0}, NEW ss \in [1..n -> Seq(S)]
    PROVE  Joined(ss[1], ss, 1)
<1> DEFINE p == [j \in DOMAIN ss[1] |-> 1]
           q == [j \in DOMAIN ss[1] |-> j]
<1>1. JoinedAt(ss[1], ss, 1, p, q)
  BY DEF JoinedAt
<1> QED BY <1>1 DEF Joined

LEMMA JoinNext ==
    ASSUME NEW S, NEW n \in Nat, NEW ss \in [1..n -> Seq(S)], NEW m \in 1..(n - 1),
           NEW flat \in Seq(S), Joined(flat, ss, m)
    PROVE  Joined(flat \o ss[m + 1], ss, m + 1)
<1>1. PICK p, q : JoinedAt(flat, ss, m, p, q)
  BY DEF Joined
<1>2. PICK a \in Nat : a = Len(flat)
  OBVIOUS
<1>3. ss[m + 1] \in Seq(S) /\ m + 1 \in 1..n
  OBVIOUS
<1>4. PICK b \in Nat : b = Len(ss[m + 1])
  BY <1>3
<1> DEFINE new == flat \o ss[m + 1]
           P == [j \in 1..(a + b) |-> IF j <= a THEN p[j] ELSE m + 1]
           Q == [j \in 1..(a + b) |-> IF j <= a THEN q[j] ELSE j - a]
<1>5. /\ DOMAIN flat = 1..a
      /\ DOMAIN ss[m + 1] = 1..b
      /\ new \in Seq(S) /\ DOMAIN new = 1..(a + b)
      /\ \A j \in 1..a : new[j] = flat[j]
      /\ \A j \in 1..b : new[a + j] = ss[m + 1][j]
  BY <1>2, <1>3, <1>4
<1> HIDE DEF new
<1>6. \A j \in 1..(a + b) : j <= a => j \in 1..a
  OBVIOUS
<1>7. \A j \in 1..(a + b) : ~(j <= a) => j - a \in 1..b /\ a + (j - a) = j
  OBVIOUS
<1>8. \A j \in 1..a : j \in 1..(a + b) /\ P[j] = p[j] /\ Q[j] = q[j]
  OBVIOUS
<1>9. \A j \in 1..b : a + j \in 1..(a + b) /\ P[a + j] = m + 1 /\ Q[a + j] = j
  OBVIOUS
<1>10. DOMAIN P = 1..(a + b) /\ DOMAIN Q = 1..(a + b)
  OBVIOUS
<1> HIDE DEF P, Q
<1>11. \A j \in 1..a : /\ p[j] \in 1..m /\ q[j] \in DOMAIN ss[p[j]]
                       /\ flat[j] = ss[p[j]][q[j]]
  BY <1>1, <1>5 DEF JoinedAt
<1>12. ASSUME NEW j \in 1..(a + b)
       PROVE  P[j] \in 1..(m + 1) /\ Q[j] \in DOMAIN ss[P[j]] /\ new[j] = ss[P[j]][Q[j]]
  <2>1. CASE j <= a
    <3>1. j \in 1..a
      BY <2>1
    <3>2. \A x \in 1..m : x \in 1..(m + 1)
      OBVIOUS
    <3> QED BY <1>5, <1>8, <1>11, <3>1, <3>2
  <2>2. CASE ~(j <= a)
    <3>1. PICK i \in 1..b : j = a + i
      BY <1>7, <2>2
    <3>2. m + 1 \in 1..(m + 1)
      OBVIOUS
    <3> QED BY <1>5, <1>9, <3>1, <3>2
  <2> QED BY <2>1, <2>2
<1>13. ASSUME NEW k \in 1..(m + 1), NEW i \in DOMAIN ss[k]
       PROVE  \E j \in 1..(a + b) : P[j] = k /\ Q[j] = i
  <2>1. CASE k = m + 1
    BY <1>5, <1>9, <2>1
  <2>2. CASE k # m + 1
    <3>1. k \in 1..m
      BY <2>2
    <3>2. PICK j \in 1..a : p[j] = k /\ q[j] = i
      BY <1>1, <1>5, <3>1 DEF JoinedAt
    <3> QED BY <1>8, <3>2
  <2> QED BY <2>1, <2>2
<1>14. ASSUME NEW i \in 1..(a + b), NEW j \in 1..(a + b), P[i] = P[j], Q[i] = Q[j]
       PROVE  i = j
  <2>1. \A x \in 1..a : p[x] # m + 1
    <3>1. m + 1 \notin 1..m
      OBVIOUS
    <3>2. \A x \in 1..a : p[x] \in 1..m
      BY <1>11
    <3> QED BY <3>1, <3>2
  <2>2. CASE i \in 1..a /\ j \in 1..a
    <3>1. p[i] = p[j] /\ q[i] = q[j]
      BY <1>8, <1>14, <2>2
    <3> QED BY <1>1, <1>5, <2>2, <3>1 DEF JoinedAt
  <2>3. CASE i \notin 1..a /\ j \notin 1..a
    <3>1. PICK x \in 1..b : i = a + x
      BY <1>7, <2>3
    <3>2. PICK y \in 1..b : j = a + y
      BY <1>7, <2>3
    <3>3. Q[i] = x /\ Q[j] = y
      BY <1>9, <3>1, <3>2
    <3> QED BY <1>14, <3>1, <3>2, <3>3
  <2>4. CASE i \in 1..a /\ j \notin 1..a
    <3>1. PICK y \in 1..b : j = a + y
      BY <1>7, <2>4
    <3> QED BY <1>8, <1>9, <1>14, <2>1, <2>4, <3>1
  <2>5. CASE i \notin 1..a /\ j \in 1..a
    <3>1. PICK y \in 1..b : i = a + y
      BY <1>7, <2>5
    <3> QED BY <1>8, <1>9, <1>14, <2>1, <2>5, <3>1
  <2> QED BY <2>2, <2>3, <2>4, <2>5
<1>15. JoinedAt(new, ss, m + 1, P, Q)
  <2>1. DOMAIN P = DOMAIN new /\ DOMAIN Q = DOMAIN new /\ DOMAIN new = 1..(a + b)
    BY <1>5, <1>10
  <2>2. \A j \in DOMAIN new : /\ P[j] \in 1..(m + 1)
                              /\ Q[j] \in DOMAIN ss[P[j]]
                              /\ new[j] = ss[P[j]][Q[j]]
    BY ONLY <2>1, <1>12
  <2>3. \A k \in 1..(m + 1) : \A i \in DOMAIN ss[k] :
          \E j \in DOMAIN new : P[j] = k /\ Q[j] = i
    <3> SUFFICES ASSUME NEW k \in 1..(m + 1), NEW i \in DOMAIN ss[k]
                 PROVE  \E j \in DOMAIN new : P[j] = k /\ Q[j] = i
      OBVIOUS
    <3>1. PICK j \in 1..(a + b) : P[j] = k /\ Q[j] = i
      BY <1>13
    <3> QED BY <2>1, <3>1
  <2>4. \A i, j \in DOMAIN new : P[i] = P[j] /\ Q[i] = Q[j] => i = j
    BY ONLY <2>1, <1>14
  <2> QED BY ONLY <2>1, <2>2, <2>3, <2>4 DEF JoinedAt
<1>16. Joined(new, ss, m + 1)
  BY <1>15 DEF Joined
<1> QED BY <1>16 DEF new

\* A sequence over a set is one over any larger set.
LEMMA SeqOver ==
    ASSUME NEW f, f \in Seq(Range(f)), NEW S, Range(f) \subseteq S
    PROVE  f \in Seq(S)
<1>1. PICK n \in Nat : n = Len(f) /\ DOMAIN f = 1..n
  OBVIOUS
<1>2. f = [i \in 1..n |-> f[i]]
  BY <1>1
<1>3. \A i \in 1..n : f[i] \in S
  BY <1>1 DEF Range
<1> QED BY <1>2, <1>3

\* What stands in two sequences one behind the other stands in one of them.
LEMMA RangeOfTwo ==
    ASSUME NEW a, NEW b, a \in Seq(Range(a)), b \in Seq(Range(b))
    PROVE  /\ Range(a \o b) = Range(a) \cup Range(b)
           /\ a \o b \in Seq(Range(a \o b))
<1>1. PICK S : S = Range(a) \cup Range(b)
  OBVIOUS
<1>2. a \in Seq(S) /\ b \in Seq(S)
  <2>1. Range(a) \subseteq S /\ Range(b) \subseteq S
    BY <1>1
  <2> QED BY <2>1, SeqOver
<1>3. PICK m \in Nat : m = Len(a)
  BY <1>2
<1>4. PICK n \in Nat : n = Len(b)
  BY <1>2
<1>5. /\ a \o b \in Seq(S) /\ DOMAIN (a \o b) = 1..(m + n)
      /\ DOMAIN a = 1..m /\ DOMAIN b = 1..n
      /\ \A i \in 1..m : (a \o b)[i] = a[i]
      /\ \A i \in 1..n : (a \o b)[m + i] = b[i]
  BY <1>2, <1>3, <1>4
<1> DEFINE c == a \o b
<1> HIDE DEF c
<1>6. /\ c \in Seq(S) /\ DOMAIN c = 1..(m + n)
      /\ \A i \in 1..m : c[i] = a[i]
      /\ \A i \in 1..n : c[m + i] = b[i]
  BY <1>5 DEF c
<1>7. \A i \in 1..m : i \in 1..(m + n)
  OBVIOUS
<1>8. \A i \in 1..n : m + i \in 1..(m + n)
  OBVIOUS
<1>9. \A j \in 1..(m + n) : j \in 1..m \/ \E i \in 1..n : j = m + i
  <2> TAKE j \in 1..(m + n)
  <2>1. CASE j <= m
    BY <2>1
  <2>2. CASE ~(j <= m)
    <3>1. j - m \in 1..n /\ j = m + (j - m)
      BY <2>2
    <3> QED BY <3>1
  <2> QED BY <2>1, <2>2
<1>10. Range(c) = Range(a) \cup Range(b)
  <2>1. \A j \in DOMAIN c : c[j] \in S
    BY <1>6
  <2>2. \A x \in Range(a) : x \in Range(c)
    BY <1>5, <1>6, <1>7 DEF Range
  <2>3. \A x \in Range(b) : x \in Range(c)
    <3> TAKE x \in Range(b)
    <3>1. PICK i \in 1..n : x = b[i]
      BY <1>5 DEF Range
    <3>2. m + i \in DOMAIN c /\ c[m + i] = x
      BY <1>6, <1>8, <3>1
    <3> QED BY <3>2 DEF Range
  <2> QED BY <1>1, <2>1, <2>2, <2>3 DEF Range
<1>11. c \in Seq(Range(c))
  BY <1>1, <1>6, <1>10
<1> QED BY <1>10, <1>11 DEF c

-----------------------------------------------------------------------------
(***************************************************************************)
(* Folds over a finite set                                                 *)
(***************************************************************************)
Pick(T) == CHOOSE x \in T : TRUE

LEMMA PickIn == \A T : T # {} => Pick(T) \in T
BY DEF Pick

\* g is the table, over the subsets of S, of the fold that begins with base
\* and adds an element x to the result a as F[x][a].
IsFold(g, F, base, S) ==
    g = [T \in SUBSET S |->
           IF T = {} THEN base ELSE F[Pick(T)][g[T \ {Pick(T)}]]]

LEMMA FoldExists ==
    ASSUME NEW S, IsFiniteSet(S), NEW A, NEW base \in A, NEW F \in [S -> [A -> A]]
    PROVE  \E g \in [SUBSET S -> A] : IsFold(g, F, base, S)
<1> DEFINE Step(g, T) == IF T = {} THEN base ELSE F[Pick(T)][g[T \ {Pick(T)}]]
           Upto(g, n) == \A T \in SUBSET S : Cardinality(T) <= n => g[T] = Step(g, T)
           Good == {n \in Nat : \E g \in [SUBSET S -> A] : Upto(g, n)}
<1>1. \A T \in SUBSET S : IsFiniteSet(T) /\ Cardinality(T) \in Nat
                           /\ Cardinality(T) <= Cardinality(S)
  BY FS_Subset, FS_CardinalityType
<1>2. 0 \in Good
  <2>1. [T \in SUBSET S |-> base] \in [SUBSET S -> A]
    OBVIOUS
  <2>2. \A T \in SUBSET S : Cardinality(T) <= 0 => T = {}
    BY <1>1, FS_EmptySet
  <2>3. Upto([T \in SUBSET S |-> base], 0)
    BY <2>2
  <2> QED BY <2>1, <2>3
<1>3. ASSUME NEW n \in Nat, n \in Good PROVE n + 1 \in Good
  <2>1. PICK g \in [SUBSET S -> A] : Upto(g, n)
    BY <1>3
  <2> DEFINE h == [T \in SUBSET S |-> IF Cardinality(T) <= n THEN g[T] ELSE Step(g, T)]
  <2>2. \A T \in SUBSET S : T # {} => /\ Pick(T) \in S
                                      /\ T \ {Pick(T)} \in SUBSET S
                                      /\ Cardinality(T \ {Pick(T)}) = Cardinality(T) - 1
    BY <1>1, PickIn, FS_RemoveElement
  <2>3. ASSUME NEW T \in SUBSET S PROVE Step(g, T) \in A
    <3>1. CASE T = {}
      BY <3>1
    <3>2. CASE T # {}
      <4>1. PICK p \in S, a \in A : p = Pick(T) /\ a = g[T \ {Pick(T)}]
        BY <2>2, <3>2
      <4>2. F[p][a] \in A
        OBVIOUS
      <4> QED BY <3>2, <4>1, <4>2
    <3> QED BY <3>1, <3>2
  <2>4. h \in [SUBSET S -> A]
    BY <2>3
  <2>5. ASSUME NEW T \in SUBSET S, Cardinality(T) <= n + 1 PROVE h[T] = Step(h, T)
    <3>1. h[T] = Step(g, T)
      BY <2>1
    <3>2. T # {} => h[T \ {Pick(T)}] = g[T \ {Pick(T)}]
      <4>1. ASSUME T # {} PROVE Cardinality(T \ {Pick(T)}) <= n
        <5>1. PICK m \in Nat : m = Cardinality(T)
          BY <1>1
        <5>2. Cardinality(T \ {Pick(T)}) = m - 1
          BY <2>2, <4>1, <5>1
        <5>3. m <= n + 1
          BY <2>5, <5>1
        <5> QED BY <5>2, <5>3
      <4> QED BY <2>2, <4>1
    <3> QED BY <3>1, <3>2
  <2> HIDE DEF h
  <2>6. Upto(h, n + 1)
    BY <2>5
  <2> HIDE DEF Upto
  <2> QED BY <2>4, <2>6
<1> HIDE DEF Good
<1>4. Cardinality(S) \in Good
  BY <1>2, <1>3, AllNaturals, FS_CardinalityType
<1>5. PICK g \in [SUBSET S -> A] : Upto(g, Cardinality(S))
  BY <1>4 DEF Good
<1>6. \A T \in SUBSET S : g[T] = Step(g, T)
  BY <1>1, <1>5
<1>7. g = [T \in SUBSET S |-> Step(g, T)]
  BY <1>6
<1> QED BY <1>7 DEF IsFold

-----------------------------------------------------------------------------
(***************************************************************************)
(* Sums                                                                    *)
(***************************************************************************)
Total(f, S) == MapThenSumSet(LAMBDA x : f[x], S)

Summable(f, S) == IsFiniteSet(S) /\ \A x \in S : f[x] \in Int

\* g is the table of the sums of f over the subsets of S.
IsTable(g, f, S) ==
    /\ g \in [SUBSET S -> Int]
    /\ g[{}] = 0
    /\ \A T \in SUBSET S : T # {} => g[T] = f[Pick(T)] + g[T \ {Pick(T)}]
    /\ \A T \in SUBSET S : Total(f, T) = g[T]

LEMMA TotalIs ==
    ASSUME NEW f, NEW S, Summable(f, S)
    PROVE  \E g : IsTable(g, f, S)
<1> DEFINE Table(g) == g = [T \in SUBSET S |->
                  IF T = {} THEN 0 ELSE f[Pick(T)] + g[T \ {Pick(T)}]]
<1>1. PICK g \in [SUBSET S -> Int] : Table(g)
  <2>1. PICK F : F = [x \in S |-> [a \in Int |-> f[x] + a]]
    OBVIOUS
  <2>2. F \in [S -> [Int -> Int]]
    BY <2>1 DEF Summable
  <2>3. PICK g \in [SUBSET S -> Int] : IsFold(g, F, 0, S)
    <3>1. 0 \in Int /\ IsFiniteSet(S)
      BY DEF Summable
    <3> HIDE DEF Table
    <3> QED BY ONLY <2>2, <3>1, FoldExists
  <2>4. \A T \in SUBSET S : T # {} => F[Pick(T)][g[T \ {Pick(T)}]] = f[Pick(T)] + g[T \ {Pick(T)}]
    BY <2>1, PickIn
  <2>5. g = [T \in SUBSET S |-> IF T = {} THEN 0 ELSE F[Pick(T)][g[T \ {Pick(T)}]]]
    BY <2>3 DEF IsFold
  <2> QED BY <2>4, <2>5
<1>2. ASSUME NEW U \in SUBSET S PROVE Total(f, U) = g[U]
  <2> DEFINE E(it) == it = [T \in SUBSET U |-> IF T = {} THEN 0
                           ELSE f[CHOOSE x \in T : TRUE] + it[T \ {CHOOSE x \in T : TRUE}]]
             h == [T \in SUBSET U |-> g[T]]
  <2>1. E(h)
    <3>1. \A T \in SUBSET U : h[T] = g[T] /\ T \in SUBSET S /\ T \ {Pick(T)} \in SUBSET U
      OBVIOUS
    <3>2. \A T \in SUBSET U : h[T] = IF T = {} THEN 0 ELSE f[Pick(T)] + h[T \ {Pick(T)}]
      BY <1>1, <3>1
    <3>3. h = [T \in SUBSET U |-> IF T = {} THEN 0 ELSE f[Pick(T)] + h[T \ {Pick(T)}]]
      BY <3>2
    <3> HIDE DEF h
    <3> QED BY <3>3 DEF Pick
  <2> DEFINE c == CHOOSE it : E(it)
  <2>2. E(c)
    BY <2>1
  <2>3. Total(f, U) = c[U]
    BY DEF Total, MapThenSumSet, MapThenFoldSet
  <2> HIDE DEF h, c
  <2>4. \A T \in SUBSET U : /\ h[T] = IF T = {} THEN 0 ELSE f[Pick(T)] + h[T \ {Pick(T)}]
                            /\ c[T] = IF T = {} THEN 0 ELSE f[Pick(T)] + c[T \ {Pick(T)}]
    BY <2>1, <2>2 DEF Pick
  <2> DEFINE Good == {T \in SUBSET U : h[T] = c[T]}
  <2>5. ASSUME NEW T \in SUBSET U, \A x \in T : T \ {x} \in Good PROVE T \in Good
    BY <2>4, <2>5, PickIn
  <2>6. Inherited(Good, U)
    BY <2>5 DEF Inherited
  <2>7. U \in Good
    <3> HIDE DEF Good
    <3> QED BY <2>6, AllSubsets, FS_Subset DEF Summable
  <2> QED BY <2>3, <2>7 DEF h
<1> QED BY <1>1, <1>2 DEF IsTable

LEMMA TotalType ==
    ASSUME NEW f, NEW S, Summable(f, S)
    PROVE  Total(f, {}) = 0 /\ \A T \in SUBSET S : Total(f, T) \in Int
<1>1. PICK g : IsTable(g, f, S)
  BY TotalIs
<1> QED BY <1>1 DEF IsTable

\* The sum without the term of x: the order of the terms does not matter.
LEMMA TotalRemove ==
    ASSUME NEW f, NEW S, Summable(f, S)
    PROVE  \A T \in SUBSET S : \A x \in T : Total(f, T) = f[x] + Total(f, T \ {x})
<1>1. PICK g : IsTable(g, f, S)
  BY TotalIs
<1> USE DEF IsTable
<1> DEFINE Good == {T \in SUBSET S : \A x \in T : g[T] = f[x] + g[T \ {x}]}
<1>2. ASSUME NEW T \in SUBSET S, \A x \in T : T \ {x} \in Good, NEW x \in T
      PROVE  g[T] = f[x] + g[T \ {x}]
  <2> DEFINE c == Pick(T)
  <2>1. c \in T
    BY PickIn
  <2>2. g[T] = f[c] + g[T \ {c}]
    BY <1>1
  <2> HIDE DEF c
  <2>3. CASE c = x
    BY <2>2, <2>3
  <2>4. CASE c # x
    <3>1. (T \ {c}) \ {x} = (T \ {x}) \ {c}
      OBVIOUS
    <3>2. PICK rest \in Int : rest = g[(T \ {c}) \ {x}]
      BY <1>1
    <3>3. g[T \ {c}] = f[x] + rest
      BY <1>2, <2>1, <2>4, <3>2
    <3>4. g[T \ {x}] = f[c] + rest
      BY <1>2, <2>1, <2>4, <3>1, <3>2
    <3>5. f[c] \in Int /\ f[x] \in Int
      BY <2>1 DEF Summable
    <3> QED BY <2>2, <3>3, <3>4, <3>5
  <2> QED BY <2>3, <2>4
<1>3. Inherited(Good, S)
  BY <1>2 DEF Inherited
<1>4. SUBSET S \subseteq Good
  <2> HIDE DEF Good
  <2> QED BY <1>3, AllSubsets DEF Summable
<1> QED BY <1>1, <1>4

\* Sums add up term by term.
LEMMA TotalPlus ==
    ASSUME NEW f, NEW g, NEW h, NEW S,
           Summable(f, S), Summable(g, S), Summable(h, S),
           \A x \in S : h[x] = f[x] + g[x]
    PROVE  Total(h, S) = Total(f, S) + Total(g, S)
<1> DEFINE Good == {T \in SUBSET S : Total(h, T) = Total(f, T) + Total(g, T)}
<1>2. ASSUME NEW T \in SUBSET S, \A x \in T : T \ {x} \in Good
      PROVE  Total(h, T) = Total(f, T) + Total(g, T)
  <2>1. CASE T = {}
    BY <2>1, TotalType
  <2>2. CASE T # {}
    <3>1. PICK x \in T : TRUE
      BY <2>2
    <3>2. PICK U \in SUBSET S : U = T \ {x}
      OBVIOUS
    <3>3. Total(h, U) = Total(f, U) + Total(g, U)
      BY <1>2, <3>2
    <3>4. /\ Total(h, T) = h[x] + Total(h, U)
          /\ Total(f, T) = f[x] + Total(f, U)
          /\ Total(g, T) = g[x] + Total(g, U)
      BY <3>2, TotalRemove
    <3>5. Total(f, U) \in Int /\ Total(g, U) \in Int
      BY TotalType
    <3>6. f[x] \in Int /\ g[x] \in Int /\ h[x] = f[x] + g[x]
      BY DEF Summable
    <3> QED BY <3>3, <3>4, <3>5, <3>6
  <2> QED BY <2>1, <2>2
<1>3. S \in Good
  <2>1. Inherited(Good, S)
    BY <1>2 DEF Inherited
  <2> HIDE DEF Good
  <2> QED BY <2>1, AllSubsets DEF Summable
<1> QED BY <1>3

\* A sum depends only on its terms.
LEMMA TotalSame ==
    ASSUME NEW f, NEW g, NEW S, Summable(f, S), Summable(g, S),
           \A x \in S : g[x] = f[x]
    PROVE  Total(g, S) = Total(f, S)
<1> DEFINE zero == [x \in S |-> 0]
<1>1. Summable(zero, S) /\ \A x \in S : f[x] = f[x] + zero[x] /\ g[x] = f[x] + zero[x]
  BY DEF Summable
<1> HIDE DEF zero
<1>2. /\ Total(f, S) = Total(f, S) + Total(zero, S)
      /\ Total(g, S) = Total(f, S) + Total(zero, S)
  BY <1>1, TotalPlus
<1> QED BY <1>2

\* A sum of naturals is a natural and at least each of its terms.
LEMMA TotalNat ==
    ASSUME NEW f, NEW S, Summable(f, S), \A x \in S : f[x] \in Nat
    PROVE  Total(f, S) \in Nat /\ \A x \in S : f[x] <= Total(f, S)
<1> DEFINE Good == {T \in SUBSET S : Total(f, T) \in Nat}
<1>2. ASSUME NEW T \in SUBSET S, \A x \in T : T \ {x} \in Good
      PROVE  Total(f, T) \in Nat
  <2>1. CASE T = {}
    BY <2>1, TotalType
  <2>2. CASE T # {}
    <3>1. PICK x \in T : TRUE
      BY <2>2
    <3>2. Total(f, T) = f[x] + Total(f, T \ {x})
      BY TotalRemove
    <3>3. Total(f, T \ {x}) \in Nat /\ f[x] \in Nat
      BY <1>2
    <3> QED BY <3>2, <3>3
  <2> QED BY <2>1, <2>2
<1>3. SUBSET S \subseteq Good
  <2>1. Inherited(Good, S)
    BY <1>2 DEF Inherited
  <2> HIDE DEF Good
  <2> QED BY <2>1, AllSubsets DEF Summable
<1>4. \A T \in SUBSET S : Total(f, T) \in Nat
  BY <1>3
<1>5. ASSUME NEW x \in S PROVE f[x] <= Total(f, S)
  <2>1. Total(f, S) = f[x] + Total(f, S \ {x})
    BY TotalRemove
  <2>2. Total(f, S \ {x}) \in Nat
    BY <1>4
  <2> QED BY <2>1, <2>2
<1> QED BY <1>4, <1>5

\* The sum over two sets without a common element.
LEMMA TotalDisjoint ==
    ASSUME NEW f, NEW S, NEW R, Summable(f, S \cup R), S \cap R = {}
    PROVE  Total(f, S \cup R) = Total(f, S) + Total(f, R)
<1> DEFINE Good == {T \in SUBSET S : Total(f, T \cup R) = Total(f, T) + Total(f, R)}
<1>1. IsFiniteSet(S) /\ Summable(f, S) /\ Summable(f, R)
  BY FS_Subset DEF Summable
<1>2. ASSUME NEW T \in SUBSET S, \A x \in T : T \ {x} \in Good
      PROVE  Total(f, T \cup R) = Total(f, T) + Total(f, R)
  <2>1. /\ Total(f, T \cup R) \in Int /\ Total(f, T) \in Int /\ Total(f, R) \in Int
        /\ Total(f, {}) = 0
    BY <1>1, TotalType
  <2>2. CASE T = {}
    <3>1. T \cup R = R
      BY <2>2
    <3> QED BY <2>1, <2>2, <3>1
  <2>3. CASE T # {}
    <3>1. PICK x \in T : TRUE
      BY <2>3
    <3>2. PICK U \in SUBSET S : U = T \ {x}
      OBVIOUS
    <3>3. (T \cup R) \ {x} = U \cup R /\ x \in T \cup R /\ T \cup R \in SUBSET (S \cup R)
          /\ T \in SUBSET (S \cup R) /\ U \in SUBSET (S \cup R)
      BY <3>2
    <3>4. /\ Total(f, T \cup R) = f[x] + Total(f, U \cup R)
          /\ Total(f, T) = f[x] + Total(f, U)
      BY <1>1, <3>2, <3>3, TotalRemove
    <3>5. Total(f, U \cup R) = Total(f, U) + Total(f, R)
      BY <1>2, <3>2
    <3>6. Total(f, U) \in Int
      BY <1>1, TotalType
    <3>7. f[x] \in Int
      BY <1>1 DEF Summable
    <3> QED BY <2>1, <3>4, <3>5, <3>6, <3>7
  <2> QED BY <2>2, <2>3
<1>3. S \in Good
  <2>1. Inherited(Good, S)
    BY <1>2 DEF Inherited
  <2> HIDE DEF Good
  <2> QED BY <1>1, <2>1, AllSubsets
<1> QED BY <1>3

\* Counting the elements of K group by group counts each of them once.
LEMMA TotalByGroup ==
    ASSUME NEW a, NEW K, Summable(a, K),
           NEW I, IsFiniteSet(I), NEW group, \A k \in K : group[k] \in I
    PROVE  Total([i \in I |-> Total(a, {k \in K : group[k] = i})], I) = Total(a, K)
<1> DEFINE Part(J) == {k \in K : group[k] \in J}
           sums == [i \in I |-> Total(a, {k \in K : group[k] = i})]
           Good == {J \in SUBSET I : Total(sums, J) = Total(a, Part(J))}
<1>1. \A J : Part(J) \in SUBSET K /\ IsFiniteSet(Part(J)) /\ Total(a, Part(J)) \in Int
  BY FS_Subset, TotalType DEF Summable
<1>2. \A i \in I : sums[i] = Total(a, Part({i}))
  <2> SUFFICES ASSUME NEW i \in I PROVE sums[i] = Total(a, Part({i}))
    OBVIOUS
  <2>1. {k \in K : group[k] = i} = Part({i})
    OBVIOUS
  <2> QED BY <2>1
<1> HIDE DEF sums
<1>3. Summable(sums, I)
  BY <1>1, <1>2 DEF Summable
<1>4. ASSUME NEW J \in SUBSET I, \A i \in J : J \ {i} \in Good
      PROVE  Total(sums, J) = Total(a, Part(J))
  <2>1. CASE J = {}
    <3>1. Part(J) = {}
      BY <2>1
    <3> QED BY <1>3, <2>1, <3>1, TotalType
  <2>2. CASE J # {}
    <3>1. PICK i \in J : TRUE
      BY <2>2
    <3>2. PICK H \in SUBSET I : H = J \ {i}
      OBVIOUS
    <3>3. Total(sums, J) = sums[i] + Total(sums, H)
      BY <1>3, <3>2, TotalRemove
    <3>4. Total(sums, H) = Total(a, Part(H))
      BY <1>4, <3>2
    <3>5. Part(J) = Part({i}) \cup Part(H) /\ Part({i}) \cap Part(H) = {}
      BY <3>2
    <3>6. Total(a, Part({i}) \cup Part(H)) = Total(a, Part({i})) + Total(a, Part(H))
      <4>1. Summable(a, Part({i}) \cup Part(H))
        BY <1>1, FS_Union DEF Summable
      <4> HIDE DEF Part
      <4> QED BY <1>1, <3>5, <4>1, TotalDisjoint
    <3> QED BY <1>2, <3>3, <3>4, <3>5, <3>6
  <2> QED BY <2>1, <2>2
<1>5. I \in Good
  <2>1. Inherited(Good, I)
    BY <1>4 DEF Inherited
  <2> HIDE DEF Good
  <2> QED BY <2>1, AllSubsets
<1>6. Part(I) = K
  OBVIOUS
<1> QED BY <1>5, <1>6 DEF sums


-----------------------------------------------------------------------------
(***************************************************************************)
(* The ledger's figures are such sums                                      *)
(***************************************************************************)
Cash(l)      == [k \in DOMAIN l.applications |-> l.applications[k].amount]
Face(l)      == [i \in InvoiceIds(l) |-> l.invoices[i].amount]
Paid(l)      == [i \in InvoiceIds(l) |-> AppliedToInvoice(l, i)]
Open(l)      == [i \in InvoiceIds(l) |-> OpenAmount(l, i)]
SourceFace(l) == [s \in SourceIds(l) |-> SourceDoc(l, s).amount]
Used(l)      == [s \in SourceIds(l) |-> AppliedFromSource(l, s)]
Unapplied(l) == [s \in SourceIds(l) |-> UnappliedAmount(l, s)]

LEMMA CashTotal ==
    ASSUME NEW l, NEW K \in SUBSET DOMAIN l.applications
    PROVE  SumApplied(l, K) = Total(Cash(l), K)
<1> DEFINE Direct(it) == it = [T \in SUBSET K |-> IF T = {} THEN 0
               ELSE l.applications[CHOOSE x \in T : TRUE].amount + it[T \ {CHOOSE x \in T : TRUE}]]
           Tabled(it) == it = [T \in SUBSET K |-> IF T = {} THEN 0
               ELSE Cash(l)[CHOOSE x \in T : TRUE] + it[T \ {CHOOSE x \in T : TRUE}]]
<1>1. SumApplied(l, K) = (CHOOSE it : Direct(it))[K]
  BY DEF SumApplied, MapThenSumSet, MapThenFoldSet
<1>2. Total(Cash(l), K) = (CHOOSE it : Tabled(it))[K]
  BY DEF Total, MapThenSumSet, MapThenFoldSet
<1>3. \A it : Direct(it) <=> Tabled(it)
  <2>1. \A T \in SUBSET K : T # {} =>
           l.applications[CHOOSE x \in T : TRUE].amount = Cash(l)[CHOOSE x \in T : TRUE]
    <3> SUFFICES ASSUME NEW T \in SUBSET K, T # {}
                 PROVE  l.applications[Pick(T)].amount = Cash(l)[Pick(T)]
      BY DEF Pick
    <3> QED BY PickIn DEF Cash
  <2> QED BY <2>1
<1> HIDE DEF Direct, Tabled
<1>4. (CHOOSE it : Direct(it)) = (CHOOSE it : Tabled(it))
  BY <1>3, Zenon
<1> QED BY <1>1, <1>2, <1>4

LEMMA FaceTotal ==
    ASSUME NEW l
    PROVE  Invoiced(l) = Total(Face(l), InvoiceIds(l))
<1> DEFINE Direct(it) == it = [T \in SUBSET InvoiceIds(l) |-> IF T = {} THEN 0
               ELSE l.invoices[CHOOSE x \in T : TRUE].amount + it[T \ {CHOOSE x \in T : TRUE}]]
           Tabled(it) == it = [T \in SUBSET InvoiceIds(l) |-> IF T = {} THEN 0
               ELSE Face(l)[CHOOSE x \in T : TRUE] + it[T \ {CHOOSE x \in T : TRUE}]]
<1>1. Invoiced(l) = (CHOOSE it : Direct(it))[InvoiceIds(l)]
  BY DEF Invoiced, MapThenSumSet, MapThenFoldSet
<1>2. Total(Face(l), InvoiceIds(l)) = (CHOOSE it : Tabled(it))[InvoiceIds(l)]
  BY DEF Total, MapThenSumSet, MapThenFoldSet
<1>3. \A it : Direct(it) <=> Tabled(it)
  <2>1. \A T \in SUBSET InvoiceIds(l) : T # {} =>
           l.invoices[CHOOSE x \in T : TRUE].amount = Face(l)[CHOOSE x \in T : TRUE]
    <3> SUFFICES ASSUME NEW T \in SUBSET InvoiceIds(l), T # {}
                 PROVE  l.invoices[Pick(T)].amount = Face(l)[Pick(T)]
      BY DEF Pick
    <3> QED BY PickIn DEF Face
  <2> QED BY <2>1
<1> HIDE DEF Direct, Tabled
<1>4. (CHOOSE it : Direct(it)) = (CHOOSE it : Tabled(it))
  BY <1>3, Zenon
<1> QED BY <1>1, <1>2, <1>4

LEMMA SourceFaceTotal ==
    ASSUME NEW l
    PROVE  Received(l) = Total(SourceFace(l), SourceIds(l))
<1> DEFINE Direct(it) == it = [T \in SUBSET SourceIds(l) |-> IF T = {} THEN 0
               ELSE SourceDoc(l, CHOOSE x \in T : TRUE).amount + it[T \ {CHOOSE x \in T : TRUE}]]
           Tabled(it) == it = [T \in SUBSET SourceIds(l) |-> IF T = {} THEN 0
               ELSE SourceFace(l)[CHOOSE x \in T : TRUE] + it[T \ {CHOOSE x \in T : TRUE}]]
<1>1. Received(l) = (CHOOSE it : Direct(it))[SourceIds(l)]
  BY DEF Received, MapThenSumSet, MapThenFoldSet
<1>2. Total(SourceFace(l), SourceIds(l)) = (CHOOSE it : Tabled(it))[SourceIds(l)]
  BY DEF Total, MapThenSumSet, MapThenFoldSet
<1>3. \A it : Direct(it) <=> Tabled(it)
  <2>1. \A T \in SUBSET SourceIds(l) : T # {} =>
           SourceDoc(l, CHOOSE x \in T : TRUE).amount = SourceFace(l)[CHOOSE x \in T : TRUE]
    <3> SUFFICES ASSUME NEW T \in SUBSET SourceIds(l), T # {}
                 PROVE  SourceDoc(l, Pick(T)).amount = SourceFace(l)[Pick(T)]
      BY DEF Pick
    <3> QED BY PickIn DEF SourceFace
  <2> QED BY <2>1
<1> HIDE DEF Direct, Tabled
<1>4. (CHOOSE it : Direct(it)) = (CHOOSE it : Tabled(it))
  BY <1>3, Zenon
<1> QED BY <1>1, <1>2, <1>4

LEMMA OpenTotal ==
    ASSUME NEW l
    PROVE  OpenInvoiceTotal(l) = Total(Open(l), InvoiceIds(l))
<1> DEFINE Direct(it) == it = [T \in SUBSET InvoiceIds(l) |-> IF T = {} THEN 0
               ELSE OpenAmount(l, CHOOSE x \in T : TRUE) + it[T \ {CHOOSE x \in T : TRUE}]]
           Tabled(it) == it = [T \in SUBSET InvoiceIds(l) |-> IF T = {} THEN 0
               ELSE Open(l)[CHOOSE x \in T : TRUE] + it[T \ {CHOOSE x \in T : TRUE}]]
<1>1. OpenInvoiceTotal(l) = (CHOOSE it : Direct(it))[InvoiceIds(l)]
  BY DEF OpenInvoiceTotal, MapThenSumSet, MapThenFoldSet
<1>2. Total(Open(l), InvoiceIds(l)) = (CHOOSE it : Tabled(it))[InvoiceIds(l)]
  BY DEF Total, MapThenSumSet, MapThenFoldSet
<1>3. \A it : Direct(it) <=> Tabled(it)
  <2>1. \A T \in SUBSET InvoiceIds(l) : T # {} =>
           OpenAmount(l, CHOOSE x \in T : TRUE) = Open(l)[CHOOSE x \in T : TRUE]
    <3> SUFFICES ASSUME NEW T \in SUBSET InvoiceIds(l), T # {}
                 PROVE  OpenAmount(l, Pick(T)) = Open(l)[Pick(T)]
      BY DEF Pick
    <3> QED BY PickIn DEF Open
  <2> QED BY <2>1
<1> HIDE DEF Direct, Tabled
<1>4. (CHOOSE it : Direct(it)) = (CHOOSE it : Tabled(it))
  BY <1>3, Zenon
<1> QED BY <1>1, <1>2, <1>4

LEMMA CashUnappliedTotal ==
    ASSUME NEW l
    PROVE  UnappliedCashTotal(l) = Total(Unapplied(l), PaymentIds(l))
<1> DEFINE Direct(it) == it = [T \in SUBSET PaymentIds(l) |-> IF T = {} THEN 0
               ELSE UnappliedAmount(l, CHOOSE x \in T : TRUE) + it[T \ {CHOOSE x \in T : TRUE}]]
           Tabled(it) == it = [T \in SUBSET PaymentIds(l) |-> IF T = {} THEN 0
               ELSE Unapplied(l)[CHOOSE x \in T : TRUE] + it[T \ {CHOOSE x \in T : TRUE}]]
<1>1. UnappliedCashTotal(l) = (CHOOSE it : Direct(it))[PaymentIds(l)]
  BY DEF UnappliedCashTotal, MapThenSumSet, MapThenFoldSet
<1>2. Total(Unapplied(l), PaymentIds(l)) = (CHOOSE it : Tabled(it))[PaymentIds(l)]
  BY DEF Total, MapThenSumSet, MapThenFoldSet
<1>3. \A it : Direct(it) <=> Tabled(it)
  <2>1. \A T \in SUBSET PaymentIds(l) : T # {} =>
           UnappliedAmount(l, CHOOSE x \in T : TRUE) = Unapplied(l)[CHOOSE x \in T : TRUE]
    <3> SUFFICES ASSUME NEW T \in SUBSET PaymentIds(l), T # {}
                 PROVE  UnappliedAmount(l, Pick(T)) = Unapplied(l)[Pick(T)]
      BY DEF Pick
    <3> QED BY PickIn DEF Unapplied, SourceIds
  <2> QED BY <2>1
<1> HIDE DEF Direct, Tabled
<1>4. (CHOOSE it : Direct(it)) = (CHOOSE it : Tabled(it))
  BY <1>3, Zenon
<1> QED BY <1>1, <1>2, <1>4

LEMMA CreditUnappliedTotal ==
    ASSUME NEW l
    PROVE  UnappliedCreditTotal(l) = Total(Unapplied(l), CreditIds(l))
<1> DEFINE Direct(it) == it = [T \in SUBSET CreditIds(l) |-> IF T = {} THEN 0
               ELSE UnappliedAmount(l, CHOOSE x \in T : TRUE) + it[T \ {CHOOSE x \in T : TRUE}]]
           Tabled(it) == it = [T \in SUBSET CreditIds(l) |-> IF T = {} THEN 0
               ELSE Unapplied(l)[CHOOSE x \in T : TRUE] + it[T \ {CHOOSE x \in T : TRUE}]]
<1>1. UnappliedCreditTotal(l) = (CHOOSE it : Direct(it))[CreditIds(l)]
  BY DEF UnappliedCreditTotal, MapThenSumSet, MapThenFoldSet
<1>2. Total(Unapplied(l), CreditIds(l)) = (CHOOSE it : Tabled(it))[CreditIds(l)]
  BY DEF Total, MapThenSumSet, MapThenFoldSet
<1>3. \A it : Direct(it) <=> Tabled(it)
  <2>1. \A T \in SUBSET CreditIds(l) : T # {} =>
           UnappliedAmount(l, CHOOSE x \in T : TRUE) = Unapplied(l)[CHOOSE x \in T : TRUE]
    <3> SUFFICES ASSUME NEW T \in SUBSET CreditIds(l), T # {}
                 PROVE  UnappliedAmount(l, Pick(T)) = Unapplied(l)[Pick(T)]
      BY DEF Pick
    <3> QED BY PickIn DEF Unapplied, SourceIds
  <2> QED BY <2>1
<1> HIDE DEF Direct, Tabled
<1>4. (CHOOSE it : Direct(it)) = (CHOOSE it : Tabled(it))
  BY <1>3, Zenon
<1> QED BY <1>1, <1>2, <1>4

-----------------------------------------------------------------------------
(***************************************************************************)
(* A sound ledger                                                          *)
(***************************************************************************)
SoundLedger(l) == LedgerRecord(l) /\ WellFormed(l)

LEMMA FamiliesFinite ==
    ASSUME NEW l, LedgerRecord(l)
    PROVE  /\ IsFiniteSet(InvoiceIds(l)) /\ IsFiniteSet(PaymentIds(l))
           /\ IsFiniteSet(CreditIds(l)) /\ IsFiniteSet(SourceIds(l))
           /\ IsFiniteSet(DOMAIN l.applications)
<1>1. IsFiniteSet(DocumentIds(l)) /\ l.applications \in
         Seq([source : STRING, target : STRING, amount : Nat \ {0}])
  BY DEF LedgerRecord
<1>2. InvoiceIds(l) \subseteq DocumentIds(l) /\ SourceIds(l) \subseteq DocumentIds(l)
      /\ PaymentIds(l) \subseteq DocumentIds(l) /\ CreditIds(l) \subseteq DocumentIds(l)
  BY DEF DocumentIds, SourceIds
<1>3. IsFiniteSet(DOMAIN l.applications)
  <2>1. PICK n \in Nat : DOMAIN l.applications = 1..n
    BY <1>1
  <2>2. IsFiniteSet(1..n)
    BY FS_Interval
  <2> QED BY <2>1, <2>2
<1> QED BY <1>1, <1>2, <1>3, FS_Subset

LEMMA CashIsCents ==
    ASSUME NEW l, LedgerRecord(l)
    PROVE  \A k \in DOMAIN l.applications : Cash(l)[k] \in Nat
<1> DEFINE Rows == [source : STRING, target : STRING, amount : Nat \ {0}]
<1>1. l.applications \in Seq(Rows)
  BY DEF LedgerRecord
<1>2. \A k \in DOMAIN l.applications : l.applications[k] \in Rows
  <2> HIDE DEF Rows
  <2> QED BY <1>1
<1>3. \A k \in DOMAIN l.applications : l.applications[k].amount \in Nat
  BY <1>2
<1> QED BY <1>3 DEF Cash

\* No ID names documents of two families (derive.py:155-159).
LEMMA FamiliesDisjoint ==
    ASSUME NEW l, SoundLedger(l)
    PROVE  /\ PaymentIds(l) \cap CreditIds(l) = {}
           /\ InvoiceIds(l) \cap SourceIds(l) = {}
<1>1. /\ IsFiniteSet(InvoiceIds(l)) /\ IsFiniteSet(PaymentIds(l))
      /\ IsFiniteSet(CreditIds(l)) /\ IsFiniteSet(SourceIds(l))
  BY FamiliesFinite DEF SoundLedger
<1>2. /\ Cardinality(SourceIds(l)) = Cardinality(PaymentIds(l)) + Cardinality(CreditIds(l))
           - Cardinality(PaymentIds(l) \cap CreditIds(l))
      /\ Cardinality(DocumentIds(l)) = Cardinality(InvoiceIds(l)) + Cardinality(SourceIds(l))
           - Cardinality(InvoiceIds(l) \cap SourceIds(l))
  BY <1>1, FS_Union DEF SourceIds, DocumentIds
<1>3. Cardinality(DocumentIds(l)) = Cardinality(InvoiceIds(l))
         + Cardinality(PaymentIds(l)) + Cardinality(CreditIds(l))
  BY DEF SoundLedger, WellFormed
<1>4. /\ IsFiniteSet(PaymentIds(l) \cap CreditIds(l))
      /\ IsFiniteSet(InvoiceIds(l) \cap SourceIds(l))
  BY <1>1, FS_Subset
<1>5. /\ Cardinality(PaymentIds(l) \cap CreditIds(l)) = 0
      /\ Cardinality(InvoiceIds(l) \cap SourceIds(l)) = 0
  <2>1. PICK a \in Nat, b \in Nat, c \in Nat, d \in Nat, e \in Nat :
           /\ a = Cardinality(InvoiceIds(l)) /\ b = Cardinality(PaymentIds(l))
           /\ c = Cardinality(CreditIds(l))
           /\ d = Cardinality(PaymentIds(l) \cap CreditIds(l))
           /\ e = Cardinality(InvoiceIds(l) \cap SourceIds(l))
    BY <1>1, <1>4, FS_CardinalityType
  <2>2. a + b + c = a + (b + c - d) - e
    BY <1>2, <1>3, <2>1
  <2>3. d = 0 /\ e = 0
    BY <2>2
  <2> QED BY <2>1, <2>3
<1> QED BY <1>4, <1>5, FS_EmptySet

\* Every figure of a document is an integer; what is applied never exceeds
\* what was invoiced or received (contracts/models.py:112-160,
\* derive.py:165-182).
LEMMA FiguresAreCents ==
    ASSUME NEW l, SoundLedger(l)
    PROVE  /\ \A i \in InvoiceIds(l) : /\ l.invoices[i].amount \in Nat \ {0}
                                       /\ AppliedToInvoice(l, i) \in Nat
                                       /\ OpenAmount(l, i) \in Nat
           /\ \A s \in SourceIds(l) : /\ SourceDoc(l, s).amount \in Nat \ {0}
                                      /\ AppliedFromSource(l, s) \in Nat
                                      /\ UnappliedAmount(l, s) \in Nat
<1>1. \A K \in SUBSET DOMAIN l.applications : SumApplied(l, K) \in Nat
  <2> SUFFICES ASSUME NEW K \in SUBSET DOMAIN l.applications
               PROVE  SumApplied(l, K) \in Nat
    OBVIOUS
  <2>1. \A k \in K : Cash(l)[k] \in Nat
    BY CashIsCents DEF SoundLedger
  <2>2. Summable(Cash(l), K)
    BY <2>1, FamiliesFinite, FS_Subset DEF Summable, SoundLedger
  <2>3. Total(Cash(l), K) \in Nat
    BY <2>1, <2>2, TotalNat
  <2> QED BY <2>3, CashTotal
<1>2. ASSUME NEW i \in InvoiceIds(l)
      PROVE  /\ l.invoices[i].amount \in Nat \ {0}
             /\ AppliedToInvoice(l, i) \in Nat
             /\ OpenAmount(l, i) \in Nat
  <2>1. AppliedToInvoice(l, i) \in Nat
    BY <1>1 DEF AppliedToInvoice
  <2>2. l.invoices[i].amount \in Nat \ {0} /\ AppliedToInvoice(l, i) <= l.invoices[i].amount
    BY DEF SoundLedger, LedgerRecord, WellFormed
  <2> QED BY <2>1, <2>2 DEF OpenAmount
<1>3. ASSUME NEW s \in SourceIds(l)
      PROVE  /\ SourceDoc(l, s).amount \in Nat \ {0}
             /\ AppliedFromSource(l, s) \in Nat
             /\ UnappliedAmount(l, s) \in Nat
  <2>1. AppliedFromSource(l, s) \in Nat
    BY <1>1 DEF AppliedFromSource
  <2>2. SourceDoc(l, s).amount \in Nat \ {0}
    BY DEF SoundLedger, LedgerRecord, SourceDoc, SourceIds
  <2>3. AppliedFromSource(l, s) <= SourceDoc(l, s).amount
    BY DEF SoundLedger, WellFormed
  <2> QED BY <2>1, <2>2, <2>3 DEF UnappliedAmount
<1> QED BY <1>2, <1>3

LEMMA FiguresSummable ==
    ASSUME NEW l, SoundLedger(l)
    PROVE  /\ Summable(Cash(l), DOMAIN l.applications)
           /\ Summable(Face(l), InvoiceIds(l)) /\ Summable(Paid(l), InvoiceIds(l))
           /\ Summable(Open(l), InvoiceIds(l))
           /\ Summable(SourceFace(l), SourceIds(l)) /\ Summable(Used(l), SourceIds(l))
           /\ Summable(Unapplied(l), SourceIds(l))
<1>1. \A k \in DOMAIN l.applications : Cash(l)[k] \in Int
  BY CashIsCents DEF SoundLedger
<1>2. \A i \in InvoiceIds(l) : Face(l)[i] \in Int /\ Paid(l)[i] \in Int /\ Open(l)[i] \in Int
  BY FiguresAreCents DEF Face, Paid, Open
<1>3. \A s \in SourceIds(l) : /\ SourceFace(l)[s] \in Int /\ Used(l)[s] \in Int
                              /\ Unapplied(l)[s] \in Int
  BY FiguresAreCents DEF SourceFace, Used, Unapplied
<1> QED BY <1>1, <1>2, <1>3, FamiliesFinite DEF Summable, SoundLedger

\* Cash and credit together are all the unapplied money.
LEMMA UnappliedTotal ==
    ASSUME NEW l, SoundLedger(l)
    PROVE  /\ Total(Unapplied(l), SourceIds(l)) = UnappliedCashTotal(l) + UnappliedCreditTotal(l)
           /\ UnappliedCashTotal(l) \in Int /\ UnappliedCreditTotal(l) \in Int
<1>1. Summable(Unapplied(l), PaymentIds(l) \cup CreditIds(l))
  BY FiguresSummable DEF SourceIds
<1>2. Total(Unapplied(l), PaymentIds(l) \cup CreditIds(l))
        = Total(Unapplied(l), PaymentIds(l)) + Total(Unapplied(l), CreditIds(l))
  BY <1>1, FamiliesDisjoint, TotalDisjoint
<1>3. Total(Unapplied(l), PaymentIds(l)) \in Int /\ Total(Unapplied(l), CreditIds(l)) \in Int
  BY <1>1, TotalType
<1> QED BY <1>2, <1>3, CashUnappliedTotal, CreditUnappliedTotal DEF SourceIds

\* What was invoiced is what is open and what was applied, to whichever invoice.
LEMMA OpenAndApplied ==
    ASSUME NEW l, SoundLedger(l)
    PROVE  /\ Invoiced(l) = OpenInvoiceTotal(l) + SumApplied(l, DOMAIN l.applications)
           /\ OpenInvoiceTotal(l) \in Int /\ SumApplied(l, DOMAIN l.applications) \in Int
<1> DEFINE apps == DOMAIN l.applications
           target == [k \in apps |-> l.applications[k].target]
           cents  == Total(Cash(l), apps)
<1>1. cents \in Int /\ cents = SumApplied(l, apps)
  BY FiguresSummable, TotalType, CashTotal
<1>2. Total(Paid(l), InvoiceIds(l)) = cents
  <2>1. \A k \in apps : target[k] \in InvoiceIds(l)
    BY DEF SoundLedger, WellFormed
  <2>2. Total([i \in InvoiceIds(l) |-> Total(Cash(l), {k \in apps : target[k] = i})],
              InvoiceIds(l)) = cents
    <3> HIDE DEF target, apps
    <3> QED BY <2>1, FiguresSummable, FamiliesFinite, TotalByGroup DEF apps, SoundLedger
  <2>3. \A i \in InvoiceIds(l) :
           Paid(l)[i] = Total(Cash(l), {k \in apps : target[k] = i})
    <3> SUFFICES ASSUME NEW i \in InvoiceIds(l)
                 PROVE  Paid(l)[i] = Total(Cash(l), {k \in apps : target[k] = i})
      OBVIOUS
    <3>1. {k \in apps : target[k] = i} = {k \in apps : l.applications[k].target = i}
      OBVIOUS
    <3> QED BY <3>1, CashTotal DEF Paid, AppliedToInvoice
  <2>4. Paid(l) = [i \in InvoiceIds(l) |-> Total(Cash(l), {k \in apps : target[k] = i})]
    BY <2>3 DEF Paid
  <2> QED BY <2>2, <2>4
<1>3. Invoiced(l) = OpenInvoiceTotal(l) + cents /\ OpenInvoiceTotal(l) \in Int
  <2>1. \A i \in InvoiceIds(l) : Face(l)[i] = Open(l)[i] + Paid(l)[i]
    BY FiguresAreCents DEF Face, Open, Paid, OpenAmount
  <2>2. Total(Face(l), InvoiceIds(l))
          = Total(Open(l), InvoiceIds(l)) + Total(Paid(l), InvoiceIds(l))
    BY <2>1, FiguresSummable, TotalPlus
  <2>3. Total(Open(l), InvoiceIds(l)) \in Int
    BY FiguresSummable, TotalType
  <2> QED BY <1>2, <2>2, <2>3, FaceTotal, OpenTotal
<1> QED BY <1>1, <1>3

(***************************************************************************)
(* The net balance is what was invoiced less what came in, however the     *)
(* money is applied: each application takes the same cents from an invoice *)
(* and from a source (derive.py:46-99).                                    *)
(***************************************************************************)
THEOREM BalanceIdentity ==
    ASSUME NEW l, LedgerRecord(l), WellFormed(l)
    PROVE  NetBalance(l) = BalanceDue(l)
<1> DEFINE apps == DOMAIN l.applications
           source == [k \in apps |-> l.applications[k].source]
           cents  == Total(Cash(l), apps)
<1>1. SoundLedger(l)
  BY DEF SoundLedger
<1>2. cents \in Int
  BY <1>1, FiguresSummable, TotalType
<1>3. Total(Used(l), SourceIds(l)) = cents
  <2>1. \A k \in apps : source[k] \in SourceIds(l)
    BY DEF WellFormed
  <2>2. Total([s \in SourceIds(l) |-> Total(Cash(l), {k \in apps : source[k] = s})],
              SourceIds(l)) = cents
    <3> HIDE DEF source, apps
    <3> QED BY <1>1, <2>1, FiguresSummable, FamiliesFinite, TotalByGroup DEF apps, SoundLedger
  <2>3. \A s \in SourceIds(l) :
           Used(l)[s] = Total(Cash(l), {k \in apps : source[k] = s})
    <3> SUFFICES ASSUME NEW s \in SourceIds(l)
                 PROVE  Used(l)[s] = Total(Cash(l), {k \in apps : source[k] = s})
      OBVIOUS
    <3>1. {k \in apps : source[k] = s} = {k \in apps : l.applications[k].source = s}
      OBVIOUS
    <3> QED BY <3>1, CashTotal DEF Used, AppliedFromSource
  <2>4. Used(l) = [s \in SourceIds(l) |-> Total(Cash(l), {k \in apps : source[k] = s})]
    BY <2>3 DEF Used
  <2> QED BY <2>2, <2>4
<1>4. Invoiced(l) = OpenInvoiceTotal(l) + cents /\ OpenInvoiceTotal(l) \in Int
  BY <1>1, OpenAndApplied, CashTotal
<1>5. Received(l) = Total(Unapplied(l), SourceIds(l)) + cents
  <2>1. \A s \in SourceIds(l) : SourceFace(l)[s] = Unapplied(l)[s] + Used(l)[s]
    BY <1>1, FiguresAreCents DEF SourceFace, Unapplied, Used, UnappliedAmount
  <2>2. Total(SourceFace(l), SourceIds(l))
          = Total(Unapplied(l), SourceIds(l)) + Total(Used(l), SourceIds(l))
    BY <1>1, <2>1, FiguresSummable, TotalPlus
  <2> QED BY <1>3, <2>2, SourceFaceTotal
<1> HIDE DEF cents
<1> QED BY <1>1, <1>2, <1>4, <1>5, UnappliedTotal DEF NetBalance, BalanceDue

\* Money is left on an account only if some total of unapplied money shows it.
LEMMA UnappliedShows ==
    ASSUME NEW l, SoundLedger(l), NEW s \in SourceIds(l), UnappliedAmount(l, s) # 0
    PROVE  UnappliedCashTotal(l) # 0 \/ UnappliedCreditTotal(l) # 0
<1>1. \A x \in SourceIds(l) : Unapplied(l)[x] \in Nat
  BY FiguresAreCents DEF Unapplied
<1>2. Unapplied(l)[s] # 0
  BY DEF Unapplied
<1>3. ASSUME NEW S \in SUBSET SourceIds(l), s \in S PROVE Total(Unapplied(l), S) # 0
  <2>1. Summable(Unapplied(l), S)
    BY FiguresSummable, FS_Subset DEF Summable
  <2>2. Total(Unapplied(l), S) \in Nat /\ Unapplied(l)[s] <= Total(Unapplied(l), S)
    BY <1>1, <1>3, <2>1, TotalNat
  <2> QED BY <1>1, <1>2, <2>2
<1> QED BY <1>3, CashUnappliedTotal, CreditUnappliedTotal DEF SourceIds

LEMMA OpenStatus ==
    ASSUME NEW l, SoundLedger(l), NEW i \in OpenInvoices(l)
    PROVE  InvoiceStatus(l, i) \in {"outstanding", "overdue"}
<1>1. i \in InvoiceIds(l) /\ OpenAmount(l, i) \in Nat /\ OpenAmount(l, i) > 0
  BY FiguresAreCents DEF OpenInvoices
<1>2. OpenAmount(l, i) # 0
  BY <1>1
<1>3. l.invoices[i].due \in Nat /\ l.asOf \in Nat
  BY <1>1 DEF SoundLedger, LedgerRecord
<1>4. l.invoices[i].due < l.asOf \/ l.invoices[i].due >= l.asOf
  BY <1>3
<1> QED BY <1>2, <1>4 DEF InvoiceStatus

\* What is open of the open invoices is all that is open.
LEMMA OpenAlone ==
    ASSUME NEW l, SoundLedger(l)
    PROVE  /\ OpenInvoiceTotal(l) = Total(Open(l), OpenInvoices(l))
           /\ Summable(Open(l), OpenInvoices(l))
<1>1. PICK rest : rest = InvoiceIds(l) \ OpenInvoices(l)
  OBVIOUS
<1>2. OpenInvoices(l) \cup rest = InvoiceIds(l) /\ OpenInvoices(l) \cap rest = {}
  BY <1>1 DEF OpenInvoices
<1>3. Summable(Open(l), InvoiceIds(l))
  BY FiguresSummable
<1>4. Summable(Open(l), OpenInvoices(l)) /\ Summable(Open(l), rest)
  BY <1>2, <1>3, FS_Subset DEF Summable
<1>5. Total(Open(l), InvoiceIds(l)) = Total(Open(l), OpenInvoices(l)) + Total(Open(l), rest)
  BY <1>2, <1>3, TotalDisjoint
<1>6. \A i \in rest : Open(l)[i] = 0
  <2> TAKE i \in rest
  <2>1. i \in InvoiceIds(l) /\ OpenAmount(l, i) \in Nat /\ ~(OpenAmount(l, i) > 0)
    BY <1>1, FiguresAreCents DEF OpenInvoices
  <2> QED BY <2>1 DEF Open
<1>7. Total(Open(l), rest) = 0
  <2> DEFINE f == Open(l)
  <2>1. \A i \in rest : f[i] = f[i] + f[i]
    BY <1>6
  <2> HIDE DEF f
  <2>2. Total(f, rest) = Total(f, rest) + Total(f, rest)
    BY <1>4, <2>1, TotalPlus DEF f
  <2>3. Total(f, rest) \in Int
    BY <1>4, TotalType DEF f
  <2>4. Total(f, rest) = 0
    <3>1. PICK n : n = Total(f, rest)
      OBVIOUS
    <3>2. n \in Int /\ n = n + n
      BY <2>2, <2>3, <3>1
    <3>3. n = 0
      BY <3>2
    <3> QED BY <3>1, <3>3
  <2> QED BY <2>4 DEF f
<1>8. Total(Open(l), OpenInvoices(l)) \in Int
  BY <1>4, TotalType
<1> QED BY <1>4, <1>5, <1>7, <1>8, OpenTotal

\* Nothing was applied to an invoice, or of a source, of which no cents were.
LEMMA NothingApplied ==
    ASSUME NEW l, SoundLedger(l), NEW K \in SUBSET DOMAIN l.applications, SumApplied(l, K) = 0
    PROVE  K = {}
<1>1. ASSUME NEW k \in K PROVE FALSE
  <2>1. l.applications[k].amount \in Nat \ {0}
    <3>1. l.applications \in Seq([source : STRING, target : STRING, amount : Nat \ {0}])
      BY DEF SoundLedger, LedgerRecord
    <3>2. PICK A, q : A = [source : STRING, target : STRING, amount : Nat \ {0}] /\ q = l.applications
      OBVIOUS
    <3>3. q \in Seq(A) /\ k \in DOMAIN q
      BY <3>1, <3>2
    <3>4. q[k] \in A
      BY <3>3
    <3> QED BY <3>2, <3>4
  <2>2. Summable(Cash(l), K) /\ \A x \in K : Cash(l)[x] \in Nat
    BY CashIsCents, FiguresSummable, FS_Subset DEF Summable, SoundLedger
  <2>3. Cash(l)[k] <= 0
    BY <2>2, TotalNat, CashTotal
  <2>4. Cash(l)[k] = l.applications[k].amount
    BY DEF Cash
  <2> QED BY <2>1, <2>3, <2>4
<1> QED BY <1>1

-----------------------------------------------------------------------------
(***************************************************************************)
(* Sums over the documents a sentence names                                *)
(***************************************************************************)
\* The open amounts of the documents at some places of a list.
OpenAt(l, docs) == [k \in DOMAIN docs |-> OpenAmount(l, docs[k])]

\* What CheckSum compares a subtotal with.
Subtotal(l, docs, K) == MapThenSumSet(LAMBDA k : OpenAmount(l, docs[k]), K)

\* Both are sums of open amounts.
LEMMA SubtotalTotal ==
    ASSUME NEW l, NEW docs, NEW K \in SUBSET DOMAIN docs
    PROVE  Subtotal(l, docs, K) = Total(OpenAt(l, docs), K)
<1> DEFINE Direct(it) == it = [T \in SUBSET K |-> IF T = {} THEN 0
               ELSE OpenAmount(l, docs[CHOOSE x \in T : TRUE]) + it[T \ {CHOOSE x \in T : TRUE}]]
           Tabled(it) == it = [T \in SUBSET K |-> IF T = {} THEN 0
               ELSE OpenAt(l, docs)[CHOOSE x \in T : TRUE] + it[T \ {CHOOSE x \in T : TRUE}]]
<1>1. Subtotal(l, docs, K) = (CHOOSE it : Direct(it))[K]
  BY DEF Subtotal, MapThenSumSet, MapThenFoldSet
<1>2. Total(OpenAt(l, docs), K) = (CHOOSE it : Tabled(it))[K]
  BY DEF Total, MapThenSumSet, MapThenFoldSet
<1>3. \A it : Direct(it) <=> Tabled(it)
  <2>1. \A T \in SUBSET K : T # {} =>
           OpenAmount(l, docs[CHOOSE x \in T : TRUE]) = OpenAt(l, docs)[CHOOSE x \in T : TRUE]
    <3> SUFFICES ASSUME NEW T \in SUBSET K, T # {}
                 PROVE  OpenAmount(l, docs[Pick(T)]) = OpenAt(l, docs)[Pick(T)]
      BY DEF Pick
    <3> QED BY PickIn DEF OpenAt
  <2> QED BY <2>1
<1> HIDE DEF Direct, Tabled
<1>4. (CHOOSE it : Direct(it)) = (CHOOSE it : Tabled(it))
  BY <1>3
<1> QED BY <1>1, <1>2, <1>4

\* What is open of the invoices at some places of a list is what they amount to,
\* less what was applied to them.
LEMMA SubtotalIsRest ==
    ASSUME NEW l, SoundLedger(l), NEW docs, NEW K \in SUBSET DOMAIN docs, IsFiniteSet(K),
           \A k \in K : docs[k] \in InvoiceIds(l),
           NEW billed, billed = [k \in K |-> l.invoices[docs[k]].amount],
           NEW applied, applied = [k \in K |-> AppliedToInvoice(l, docs[k])]
    PROVE  Subtotal(l, docs, K) + Total(applied, K) = Total(billed, K)
<1>1. PICK rest : rest = OpenAt(l, docs)
  OBVIOUS
<1>2. ASSUME NEW k \in K
      PROVE  /\ billed[k] \in Int /\ applied[k] \in Int /\ rest[k] \in Int
             /\ billed[k] = rest[k] + applied[k]
  <2>1. /\ l.invoices[docs[k]].amount \in Int /\ AppliedToInvoice(l, docs[k]) \in Int
        /\ OpenAmount(l, docs[k]) \in Int
    BY FiguresAreCents
  <2>2. /\ billed[k] = l.invoices[docs[k]].amount
        /\ applied[k] = AppliedToInvoice(l, docs[k]) /\ rest[k] = OpenAmount(l, docs[k])
    BY <1>1 DEF OpenAt
  <2> QED BY <2>1, <2>2 DEF OpenAmount
<1>3. Summable(billed, K) /\ Summable(applied, K) /\ Summable(rest, K)
  BY <1>2 DEF Summable
<1>4. Total(billed, K) = Total(rest, K) + Total(applied, K)
  BY <1>2, <1>3, TotalPlus
<1> QED BY <1>1, <1>4, SubtotalTotal

-----------------------------------------------------------------------------
(***************************************************************************)
(* The replay of the applications                                          *)
(***************************************************************************)
\* The application k takes its cents from both pools.
Applied(l, k, pools) ==
    [remaining |-> [pools.remaining EXCEPT
                      ![l.applications[k].target] = @ - l.applications[k].amount],
     credit    |-> [pools.credit EXCEPT
                      ![l.applications[k].source] = @ - l.applications[k].amount]]

\* What is left when only the applications in T are replayed.
ToInvoice(l, T, i)  == Total(Cash(l), {k \in T : l.applications[k].target = i})
FromSource(l, T, s) == Total(Cash(l), {k \in T : l.applications[k].source = s})
Left(l, T) ==
    [remaining |-> [i \in InvoiceIds(l) |-> l.invoices[i].amount - ToInvoice(l, T, i)],
     credit    |-> [s \in SourceIds(l) |-> SourceDoc(l, s).amount - FromSource(l, T, s)]]

LEMMA Lessened ==
    ASSUME NEW I, NEW f, f = [j \in I |-> f[j]], \A j \in I : f[j] \in Int,
           NEW i \in I, NEW n \in Nat
    PROVE  [f EXCEPT ![i] = @ - n] = [j \in I |-> f[j] - (IF j = i THEN n ELSE 0)]
<1>1. \A j \in I : f[j] - 0 = f[j]
  OBVIOUS
<1> QED BY <1>1

\* Replaying one application more.
LEMMA LeftStep ==
    ASSUME NEW l, SoundLedger(l), NEW T \in SUBSET DOMAIN l.applications, NEW c \in T
    PROVE  Left(l, T) = Applied(l, c, Left(l, T \ {c}))
<1> DEFINE app == l.applications[c]
<1>1. app.target \in InvoiceIds(l) /\ app.source \in SourceIds(l)
  BY DEF SoundLedger, WellFormed
<1>2. Cash(l)[c] = app.amount /\ app.amount \in Nat
  BY CashIsCents DEF Cash, SoundLedger
<1>3. ASSUME NEW K \in SUBSET T
      PROVE  /\ Total(Cash(l), K) \in Int
             /\ c \in K => Total(Cash(l), K) = app.amount + Total(Cash(l), K \ {c})
             /\ c \notin K => Total(Cash(l), K) = Total(Cash(l), K \ {c})
  <2>1. Summable(Cash(l), DOMAIN l.applications)
    BY FiguresSummable
  <2>2. K \in SUBSET DOMAIN l.applications
    OBVIOUS
  <2>3. Total(Cash(l), K) \in Int
    BY <2>1, <2>2, TotalType
  <2>4. c \in K => Total(Cash(l), K) = Cash(l)[c] + Total(Cash(l), K \ {c})
    BY <2>1, <2>2, TotalRemove
  <2>5. c \notin K => K \ {c} = K
    OBVIOUS
  <2> QED BY <1>2, <2>3, <2>4, <2>5
<1>4. ASSUME NEW i \in InvoiceIds(l)
      PROVE  /\ ToInvoice(l, T \ {c}, i) \in Int
             /\ ToInvoice(l, T, i) = ToInvoice(l, T \ {c}, i)
                                       + (IF i = app.target THEN app.amount ELSE 0)
  <2> DEFINE K == {k \in T : l.applications[k].target = i}
  <2>1. K \ {c} = {k \in T \ {c} : l.applications[k].target = i} /\ K \ {c} \in SUBSET T
    OBVIOUS
  <2>2. c \in K <=> i = app.target
    OBVIOUS
  <2>3. /\ ToInvoice(l, T, i) = Total(Cash(l), K)
        /\ ToInvoice(l, T \ {c}, i) = Total(Cash(l), K \ {c})
    BY <2>1 DEF ToInvoice
  <2>4. K \in SUBSET T
    OBVIOUS
  <2> HIDE DEF K, app
  <2>5. /\ Total(Cash(l), K \ {c}) \in Int
        /\ c \in K => Total(Cash(l), K) = app.amount + Total(Cash(l), K \ {c})
        /\ c \notin K => Total(Cash(l), K) = Total(Cash(l), K \ {c})
    BY <1>3, <2>1, <2>4
  <2> QED BY <1>2, <2>2, <2>3, <2>5
<1>5. ASSUME NEW s \in SourceIds(l)
      PROVE  /\ FromSource(l, T \ {c}, s) \in Int
             /\ FromSource(l, T, s) = FromSource(l, T \ {c}, s)
                                        + (IF s = app.source THEN app.amount ELSE 0)
  <2> DEFINE K == {k \in T : l.applications[k].source = s}
  <2>1. K \ {c} = {k \in T \ {c} : l.applications[k].source = s} /\ K \ {c} \in SUBSET T
    OBVIOUS
  <2>2. c \in K <=> s = app.source
    OBVIOUS
  <2>3. /\ FromSource(l, T, s) = Total(Cash(l), K)
        /\ FromSource(l, T \ {c}, s) = Total(Cash(l), K \ {c})
    BY <2>1 DEF FromSource
  <2>4. K \in SUBSET T
    OBVIOUS
  <2> HIDE DEF K, app
  <2>5. /\ Total(Cash(l), K \ {c}) \in Int
        /\ c \in K => Total(Cash(l), K) = app.amount + Total(Cash(l), K \ {c})
        /\ c \notin K => Total(Cash(l), K) = Total(Cash(l), K \ {c})
    BY <1>3, <2>1, <2>4
  <2> QED BY <1>2, <2>2, <2>3, <2>5
<1>6. Left(l, T).remaining = Applied(l, c, Left(l, T \ {c})).remaining
  <2> DEFINE pool == [i \in InvoiceIds(l) |-> l.invoices[i].amount - ToInvoice(l, T \ {c}, i)]
  <2>1. ASSUME NEW i \in InvoiceIds(l)
        PROVE  /\ pool[i] \in Int
               /\ l.invoices[i].amount - ToInvoice(l, T, i)
                    = pool[i] - (IF i = app.target THEN app.amount ELSE 0)
    <3>1. PICK a \in Int, b \in Int : a = l.invoices[i].amount /\ b = ToInvoice(l, T \ {c}, i)
      <4>1. l.invoices[i].amount \in Int
        BY DEF SoundLedger, LedgerRecord
      <4> QED BY <1>4, <4>1
    <3>2. pool[i] = a - b
      BY <3>1
    <3>3. PICK n \in Int : n = (IF i = app.target THEN app.amount ELSE 0)
      BY <1>2
    <3>4. ToInvoice(l, T, i) = b + n
      BY <1>4, <3>1, <3>3
    <3> HIDE DEF pool, app
    <3>5. l.invoices[i].amount - ToInvoice(l, T, i) = a - (b + n)
      BY <3>1, <3>4
    <3> QED BY <3>2, <3>3, <3>5
  <2>2. Applied(l, c, Left(l, T \ {c})).remaining = [pool EXCEPT ![app.target] = @ - app.amount]
    BY DEF Applied, Left
  <2>3. pool = [i \in InvoiceIds(l) |-> pool[i]]
    OBVIOUS
  <2>4. Left(l, T).remaining = [i \in InvoiceIds(l) |-> l.invoices[i].amount - ToInvoice(l, T, i)]
    BY DEF Left
  <2> HIDE DEF pool, app
  <2>5. [pool EXCEPT ![app.target] = @ - app.amount]
          = [i \in InvoiceIds(l) |-> pool[i] - (IF i = app.target THEN app.amount ELSE 0)]
    BY <1>1, <1>2, <2>1, <2>3, Lessened
  <2> QED BY <2>1, <2>2, <2>4, <2>5
<1>7. Left(l, T).credit = Applied(l, c, Left(l, T \ {c})).credit
  <2> DEFINE pool == [s \in SourceIds(l) |-> SourceDoc(l, s).amount - FromSource(l, T \ {c}, s)]
  <2>1. ASSUME NEW s \in SourceIds(l)
        PROVE  /\ pool[s] \in Int
               /\ SourceDoc(l, s).amount - FromSource(l, T, s)
                    = pool[s] - (IF s = app.source THEN app.amount ELSE 0)
    <3>1. PICK a \in Int, b \in Int : a = SourceDoc(l, s).amount /\ b = FromSource(l, T \ {c}, s)
      BY <1>5, FiguresAreCents
    <3>2. pool[s] = a - b
      BY <3>1
    <3>3. PICK n \in Int : n = (IF s = app.source THEN app.amount ELSE 0)
      BY <1>2
    <3>4. FromSource(l, T, s) = b + n
      BY <1>5, <3>1, <3>3
    <3> HIDE DEF pool, app
    <3>5. SourceDoc(l, s).amount - FromSource(l, T, s) = a - (b + n)
      BY <3>1, <3>4
    <3> QED BY <3>2, <3>3, <3>5
  <2>2. Applied(l, c, Left(l, T \ {c})).credit = [pool EXCEPT ![app.source] = @ - app.amount]
    BY DEF Applied, Left
  <2>3. pool = [s \in SourceIds(l) |-> pool[s]]
    OBVIOUS
  <2>4. Left(l, T).credit = [s \in SourceIds(l) |-> SourceDoc(l, s).amount - FromSource(l, T, s)]
    BY DEF Left
  <2> HIDE DEF pool, app
  <2>5. [pool EXCEPT ![app.source] = @ - app.amount]
          = [s \in SourceIds(l) |-> pool[s] - (IF s = app.source THEN app.amount ELSE 0)]
    BY <1>1, <1>2, <2>1, <2>3, Lessened
  <2> QED BY <2>1, <2>2, <2>4, <2>5
<1>8. Left(l, T) = [remaining |-> Left(l, T).remaining, credit |-> Left(l, T).credit]
  BY DEF Left
<1>9. Applied(l, c, Left(l, T \ {c}))
        = [remaining |-> Applied(l, c, Left(l, T \ {c})).remaining,
           credit    |-> Applied(l, c, Left(l, T \ {c})).credit]
  BY DEF Applied
<1> QED BY ONLY <1>6, <1>7, <1>8, <1>9

LEMMA LeftNone ==
    ASSUME NEW l, SoundLedger(l)
    PROVE  Left(l, {}) = [remaining |-> [i \in InvoiceIds(l) |-> l.invoices[i].amount],
                          credit    |-> [s \in SourceIds(l) |-> SourceDoc(l, s).amount]]
<1>1. Total(Cash(l), {}) = 0
  BY FiguresSummable, TotalType
<1>2. \A i : {k \in {} : l.applications[k].target = i} = {}
  OBVIOUS
<1>3. \A s : {k \in {} : l.applications[k].source = s} = {}
  OBVIOUS
<1>4. \A i \in InvoiceIds(l) : l.invoices[i].amount - ToInvoice(l, {}, i) = l.invoices[i].amount
  BY <1>1, <1>2, FiguresAreCents DEF ToInvoice
<1>5. \A s \in SourceIds(l) :
         SourceDoc(l, s).amount - FromSource(l, {}, s) = SourceDoc(l, s).amount
  BY <1>1, <1>3, FiguresAreCents DEF FromSource
<1> QED BY <1>4, <1>5 DEF Left

\* The replay leaves each invoice its open and each source its unapplied amount.
LEMMA ReplayLeaves ==
    ASSUME NEW l, SoundLedger(l)
    PROVE  Replay(l).remaining = Open(l) /\ Replay(l).credit = Unapplied(l)
<1> DEFINE apps == DOMAIN l.applications
           base == [remaining |-> [i \in InvoiceIds(l) |-> l.invoices[i].amount],
                    credit    |-> [s \in SourceIds(l) |-> SourceDoc(l, s).amount]]
           E(it) == it = [T \in SUBSET apps |-> IF T = {} THEN base
                       ELSE Applied(l, CHOOSE x \in T : TRUE,
                                    it[T \ {CHOOSE x \in T : TRUE}])]
           h == [T \in SUBSET apps |-> Left(l, T)]
           c == CHOOSE it : E(it)
<1>1. Replay(l) = c[apps]
  BY DEF Replay, FoldSet, MapThenFoldSet, Applied
<1>2. E(h)
  <2>1. \A T \in SUBSET apps : h[T] = IF T = {} THEN base
                                       ELSE Applied(l, Pick(T), h[T \ {Pick(T)}])
    <3> SUFFICES ASSUME NEW T \in SUBSET apps
                 PROVE  h[T] = IF T = {} THEN base
                               ELSE Applied(l, Pick(T), h[T \ {Pick(T)}])
      OBVIOUS
    <3>1. CASE T = {}
      BY <3>1, LeftNone
    <3>2. CASE T # {}
      <4>1. Pick(T) \in T
        BY <3>2, PickIn
      <4>2. Left(l, T) = Applied(l, Pick(T), Left(l, T \ {Pick(T)}))
        BY <4>1, LeftStep
      <4>3. h[T] = Left(l, T) /\ h[T \ {Pick(T)}] = Left(l, T \ {Pick(T)})
        OBVIOUS
      <4> HIDE DEF h, base
      <4> QED BY <3>2, <4>2, <4>3
    <3> QED BY <3>1, <3>2
  <2>2. h = [T \in SUBSET apps |-> IF T = {} THEN base
                                   ELSE Applied(l, Pick(T), h[T \ {Pick(T)}])]
    <3> HIDE DEF base
    <3> QED BY <2>1
  <2> HIDE DEF h, base
  <2> QED BY <2>2 DEF Pick
<1>3. E(c)
  BY <1>2
<1> HIDE DEF h, c
<1>4. \A T \in SUBSET apps :
         /\ h[T] = IF T = {} THEN base ELSE Applied(l, Pick(T), h[T \ {Pick(T)}])
         /\ c[T] = IF T = {} THEN base ELSE Applied(l, Pick(T), c[T \ {Pick(T)}])
  BY <1>2, <1>3 DEF Pick
<1> DEFINE Good == {T \in SUBSET apps : h[T] = c[T]}
<1>5. apps \in Good
  <2>1. ASSUME NEW T \in SUBSET apps, \A x \in T : T \ {x} \in Good PROVE T \in Good
    BY <1>4, <2>1, PickIn
  <2>2. Inherited(Good, apps)
    BY <2>1 DEF Inherited
  <2>3. IsFiniteSet(apps)
    BY FamiliesFinite DEF SoundLedger
  <2> HIDE DEF Good
  <2> QED BY <2>2, <2>3, AllSubsets
<1>6. Replay(l) = Left(l, apps)
  BY <1>1, <1>5 DEF h
<1>7. \A i \in InvoiceIds(l) : ToInvoice(l, apps, i) = AppliedToInvoice(l, i)
  BY CashTotal DEF ToInvoice, AppliedToInvoice
<1>8. \A s \in SourceIds(l) : FromSource(l, apps, s) = AppliedFromSource(l, s)
  BY CashTotal DEF FromSource, AppliedFromSource
<1> QED BY <1>6, <1>7, <1>8 DEF Left, Open, Unapplied, OpenAmount, UnappliedAmount

(***************************************************************************)
(* Invariant I2: the independent recompute of the net balance agrees with  *)
(* the derivations on every valid ledger, not only on the fixtures         *)
(* (derive.py:190-215, tests/test_fixture_invariants.py:76-81).            *)
(***************************************************************************)
THEOREM RecomputeAgrees ==
    ASSUME NEW l, LedgerRecord(l), WellFormed(l)
    PROVE  NetBalanceNaive(l) = NetBalance(l)
<1>1. SoundLedger(l)
  BY DEF SoundLedger
<1>2. NetBalanceNaive(l) = Total(Replay(l).remaining, InvoiceIds(l))
                             - Total(Replay(l).credit, SourceIds(l))
  BY DEF NetBalanceNaive, Total
<1>3. NetBalanceNaive(l) = OpenInvoiceTotal(l) - Total(Unapplied(l), SourceIds(l))
  BY <1>1, <1>2, ReplayLeaves, OpenTotal
<1>4. OpenInvoiceTotal(l) \in Int
  BY <1>1, FiguresSummable, TotalType, OpenTotal
<1> QED BY <1>1, <1>3, <1>4, UnappliedTotal DEF NetBalance

=============================================================================
