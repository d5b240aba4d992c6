---------------------------- MODULE IngestProofs ----------------------------
(***************************************************************************)
(* Theorems about the exemplar store and ingest.  First the store: adding  *)
(* an entry to the newest of each class gives the newest of each class.    *)
(* Then ingest, by an inductive invariant that says where every qualifying *)
(* decision of the log is: given to the store, waiting in the batch, or    *)
(* not yet read.                                                           *)
(***************************************************************************)
EXTENDS Ingest, FiniteSetTheorems, TLAPS

(***************************************************************************)
(* The store                                                               *)
(***************************************************************************)
Placed(S) == \A x \in S : x.offset \in Nat

\* Subsets count less, and finite sets count in naturals.
LEMMA NewerCounts ==
    ASSUME NEW S, IsFiniteSet(S), NEW T \in SUBSET S, NEW e
    PROVE  /\ IsFiniteSet(Newer(S, e))
           /\ Cardinality(Newer(S, e)) \in Nat
           /\ Cardinality(Newer(T, e)) \in Nat
           /\ Cardinality(Newer(T, e)) <= Cardinality(Newer(S, e))
<1>1. Newer(S, e) \in SUBSET S /\ Newer(T, e) \in SUBSET Newer(S, e)
  BY DEF Newer
<1>2. IsFiniteSet(Newer(S, e))
  BY <1>1, FS_Subset
<1>3. /\ IsFiniteSet(Newer(T, e))
      /\ Cardinality(Newer(T, e)) <= Cardinality(Newer(S, e))
  BY <1>1, <1>2, FS_Subset
<1> QED
  BY <1>2, <1>3, FS_CardinalityType

\* A set of naturals has a least member.
LEMMA LeastOfNaturals ==
    ASSUME NEW N \in SUBSET Nat, N # {}
    PROVE  \E n \in N : \A m \in N : n <= m
<1>1. PICK n \in N : \A m \in N : <<m, n>> \notin OpToRel(<, Nat)
  BY NatLessThanWellFounded, WFMin
<1>2. \A m \in N : <<m, n>> \in OpToRel(<, Nat) <=> m < n
  BY DEF OpToRel
<1>3. \A m \in N : ~(m < n)
  BY <1>1, <1>2
<1> QED
  BY <1>3

\* An entry left out by the cap has a cap's worth of newer entries that are
\* kept: those of the newest entry left out.
LEMMA KeptAreEnough ==
    ASSUME NEW S, IsFiniteSet(S), Placed(S), NEW x \in S, x \notin Newest(S)
    PROVE  Cardinality(Newer(Newest(S), x)) >= ClassCap
<1> DEFINE Left  == S \ Newest(S)
           Count(y) == Cardinality(Newer(S, y))
           Counts == {Count(y) : y \in Left}
<1>1. \A y \in S : Count(y) \in Nat
  BY NewerCounts
<1>2. Counts \in SUBSET Nat /\ Counts # {}
  BY <1>1
<1>3. PICK n \in Counts : \A m \in Counts : n <= m
  BY <1>2, LeastOfNaturals
<1>4. PICK y \in Left : Count(y) = n
  BY <1>3
<1>5. Newer(S, y) \subseteq Newest(S)
  <2> SUFFICES ASSUME NEW z \in S, z.offset > y.offset, z \notin Newest(S)
               PROVE  FALSE
    BY DEF Newer
  <2>1. Newer(S, z) \subseteq Newer(S, y) /\ y \notin Newer(S, z)
    BY DEF Newer, Placed
  <2>2. z \in Newer(S, y) /\ z \notin Newer(S, z)
    BY DEF Newer, Placed
  <2>3. Count(z) < Count(y)
    <3>1. IsFiniteSet(Newer(S, y)) /\ Newer(S, z) \in SUBSET Newer(S, y)
      BY <2>1, NewerCounts
    <3>2. Count(z) <= Count(y) /\ (Count(y) = Count(z) => Newer(S, y) = Newer(S, z))
      BY <3>1, FS_Subset
    <3> QED
      BY <3>2, <2>2, <1>1, <1>4
  <2> QED
    BY <2>3, <1>1, <1>3, <1>4
<1>6. Count(y) >= ClassCap
  BY <1>1, ClassCapAssumption DEF Newest
<1>7. y.offset >= x.offset \/ x.offset > y.offset
  BY <1>4 DEF Placed
<1>8. CASE y.offset >= x.offset
  <2>1. Newest(S) \in SUBSET S
    BY DEF Newest
  <2>2. Newer(S, y) \in SUBSET Newer(Newest(S), x)
    BY <1>5, <1>8, <1>4, <2>1 DEF Newer, Placed
  <2>3. IsFiniteSet(Newer(Newest(S), x)) /\ Cardinality(Newer(Newest(S), x)) \in Nat
    <3>1. IsFiniteSet(Newest(S))
      BY <2>1, FS_Subset
    <3> QED
      BY <3>1, NewerCounts
  <2>4. Cardinality(Newer(S, y)) <= Cardinality(Newer(Newest(S), x))
    BY <2>2, <2>3, FS_Subset
  <2> QED
    BY <2>3, <2>4, <1>1, <1>4, <1>6, ClassCapAssumption
<1>9. CASE x.offset > y.offset
  <2>1. x \in Newest(S)
    BY <1>5, <1>9 DEF Newer
  <2> QED
    BY <2>1
<1> QED
  BY <1>7, <1>8, <1>9

\* What the cap leaves of all entries it leaves of those kept before.
LEMMA NewestAbsorbs ==
    ASSUME NEW S, IsFiniteSet(S), NEW e, Placed(S \cup {e})
    PROVE  Newest(Newest(S) \cup {e}) = Newest(S \cup {e})
<1> DEFINE K == Newest(S)
           A == K \cup {e}
           B == S \cup {e}
<1>1. IsFiniteSet(B) /\ S \in SUBSET B /\ A \in SUBSET B /\ K \in SUBSET S /\ K \in SUBSET A
  BY FS_AddElement DEF Newest
<1>2. IsFiniteSet(A) /\ Placed(S)
  BY <1>1, FS_Subset DEF Placed
<1>3. \A x : /\ Cardinality(Newer(A, x)) \in Nat
             /\ Cardinality(Newer(B, x)) \in Nat
             /\ Cardinality(Newer(S, x)) \in Nat
             /\ Cardinality(Newer(K, x)) \in Nat
             /\ Cardinality(Newer(A, x)) <= Cardinality(Newer(B, x))
             /\ Cardinality(Newer(S, x)) <= Cardinality(Newer(B, x))
             /\ Cardinality(Newer(K, x)) <= Cardinality(Newer(A, x))
  <2> TAKE x
  <2>1. Cardinality(Newer(A, x)) \in Nat /\ Cardinality(Newer(A, x)) <= Cardinality(Newer(B, x))
    BY <1>1, NewerCounts
  <2>2. /\ Cardinality(Newer(S, x)) \in Nat /\ Cardinality(Newer(S, x)) <= Cardinality(Newer(B, x))
        /\ Cardinality(Newer(B, x)) \in Nat
    BY <1>1, NewerCounts
  <2>3. Cardinality(Newer(K, x)) \in Nat /\ Cardinality(Newer(K, x)) <= Cardinality(Newer(A, x))
    BY <1>1, <1>2, NewerCounts
  <2> QED
    BY <2>1, <2>2, <2>3
<1>4. ASSUME NEW x \in Newest(B)
      PROVE  x \in Newest(A)
  <2>1. Cardinality(Newer(B, x)) < ClassCap /\ x \in B
    BY DEF Newest
  <2>2. Cardinality(Newer(S, x)) < ClassCap /\ Cardinality(Newer(A, x)) < ClassCap
    BY <2>1, <1>3, ClassCapAssumption
  <2>3. x \in A
    BY <2>1, <2>2 DEF Newest
  <2> QED
    BY <2>2, <2>3 DEF Newest
<1>5. ASSUME NEW x \in Newest(A)
      PROVE  x \in Newest(B)
  <2>1. Cardinality(Newer(A, x)) < ClassCap /\ x \in A
    BY DEF Newest
  <2>2. ASSUME NEW z \in S, z.offset > x.offset, z \notin K
        PROVE  FALSE
    <3>1. Cardinality(Newer(K, z)) >= ClassCap
      BY <1>2, <2>2, KeptAreEnough
    <3>2. Newer(K, z) \in SUBSET Newer(A, x)
      BY <1>1, <2>1, <2>2 DEF Newer, Placed
    <3>3. IsFiniteSet(Newer(A, x))
      BY <1>2, NewerCounts
    <3>4. Cardinality(Newer(K, z)) <= Cardinality(Newer(A, x))
      BY <3>2, <3>3, FS_Subset
    <3> QED
      BY <3>1, <3>4, <2>1, <1>3, ClassCapAssumption
  <2>3. Newer(B, x) = Newer(A, x)
    BY <1>1, <2>2 DEF Newer
  <2> QED
    BY <2>1, <2>3, <1>1 DEF Newest
<1> QED
  BY <1>4, <1>5

\* An entry is among the newest of each class when it is among those of its own.
LEMMA InItsClass ==
    ASSUME NEW S, NEW x
    PROVE  x \in NewestOfEach(S) <=>
             x \in S /\ x \in Newest(SameClass(S, x.signature))
<1>1. \A sig : Newest(SameClass(S, sig)) \subseteq SameClass(S, sig)
  BY DEF Newest
<1>2. \A sig : \A y \in SameClass(S, sig) : y \in S /\ y.signature = sig
  BY DEF SameClass
<1>3. ASSUME x \in NewestOfEach(S)
      PROVE  x \in S /\ x \in Newest(SameClass(S, x.signature))
  <2>1. PICK sig \in Signatures(S) : x \in Newest(SameClass(S, sig))
    BY <1>3 DEF NewestOfEach
  <2>2. x \in S /\ x.signature = sig
    BY <2>1, <1>1, <1>2
  <2> QED
    BY <2>1, <2>2
<1>4. ASSUME x \in S, x \in Newest(SameClass(S, x.signature))
      PROVE  x \in NewestOfEach(S)
  <2>1. x.signature \in Signatures(S)
    BY <1>4 DEF Signatures
  <2> QED
    BY <2>1, <1>4 DEF NewestOfEach
<1> QED
  BY <1>3, <1>4

\* The class of a memory that holds the newest of each class.
LEMMA ClassOfNewest ==
    ASSUME NEW S, NEW sig
    PROVE  SameClass(NewestOfEach(S), sig) = Newest(SameClass(S, sig))
<1>1. \A x : x \in SameClass(NewestOfEach(S), sig) <=>
               x \in NewestOfEach(S) /\ x.signature = sig
  BY DEF SameClass
<1>2. \A x \in Newest(SameClass(S, sig)) : x \in S /\ x.signature = sig
  BY DEF Newest, SameClass
<1>3. \A x : x \in SameClass(NewestOfEach(S), sig) <=> x \in Newest(SameClass(S, sig))
  BY <1>1, <1>2, InItsClass
<1> QED
  BY <1>3

OneEntryPerOffset(S) == \A x, y \in S : x.offset = y.offset => x = y

\* Adding to the newest of each class gives the newest of each class, also
\* when the entry was given before, and also when it was evicted since
\* (MemoryStore.add).
LEMMA AddKeepsNewest ==
    ASSUME NEW S, IsFiniteSet(S), NEW e,
           Placed(S \cup {e}), OneEntryPerOffset(S \cup {e})
    PROVE  Add(NewestOfEach(S), e) = NewestOfEach(S \cup {e})
<1> DEFINE M == NewestOfEach(S)
           B == S \cup {e}
           sig == e.signature
<1>1. M \subseteq S
  BY InItsClass
<1>2. CASE \E x \in M : x.offset = e.offset
  <2>1. e \in S
    BY <1>1, <1>2 DEF OneEntryPerOffset
  <2>2. B = S
    BY <2>1
  <2> QED
    BY <1>2, <2>2 DEF Add
<1>3. CASE ~ \E x \in M : x.offset = e.offset
  <2> DEFINE C == SameClass(S, sig)
  <2>1. Add(M, e) = (M \ SameClass(M, sig)) \cup Newest(SameClass(M, sig) \cup {e})
    BY <1>3 DEF Add
  <2>2. SameClass(M, sig) = Newest(C)
    BY ClassOfNewest
  <2>3. C \in SUBSET S /\ IsFiniteSet(C) /\ Placed(C \cup {e})
    <3>1. C \in SUBSET S
      BY DEF SameClass
    <3> QED
      BY <3>1, FS_Subset DEF Placed
  <2>4. Newest(SameClass(M, sig) \cup {e}) = Newest(C \cup {e})
    BY <2>2, <2>3, NewestAbsorbs
  <2>5. SameClass(B, sig) = C \cup {e}
    BY DEF SameClass
  <2>6. \A other : other # sig => SameClass(B, other) = SameClass(S, other)
    BY DEF SameClass
  <2>7. \A x : x \in M /\ x \notin SameClass(M, sig) <=> x \in M /\ x.signature # sig
    BY DEF SameClass
  <2>8. \A x \in Newest(C \cup {e}) : x \in B /\ x.signature = sig
    BY DEF Newest, SameClass
  <2>9. ASSUME NEW x
        PROVE  x \in Add(M, e) <=> x \in NewestOfEach(B)
    <3>1. CASE x.signature = sig
      <4>1. x \in Add(M, e) <=> x \in Newest(C \cup {e})
        BY <3>1, <2>1, <2>4, <2>7
      <4>2. x \in NewestOfEach(B) <=> x \in B /\ x \in Newest(C \cup {e})
        BY <3>1, <2>5, InItsClass
      <4> QED
        BY <4>1, <4>2, <2>8
    <3>2. CASE x.signature # sig
      <4>1. x \in Add(M, e) <=> x \in M
        BY <3>2, <2>1, <2>4, <2>7, <2>8
      <4>2. x \in NewestOfEach(B) <=> x \in B /\ x \in Newest(SameClass(S, x.signature))
        BY <3>2, <2>6, InItsClass
      <4>3. x \in M <=> x \in S /\ x \in Newest(SameClass(S, x.signature))
        BY InItsClass
      <4>4. x # e
        BY <3>2
      <4> QED
        BY <4>1, <4>2, <4>3, <4>4
    <3> QED
      BY <3>1, <3>2
  <2> QED
    BY <2>9
<1> QED
  BY <1>2, <1>3

\* Retrieval prefers structure to everything else: whatever their weights, ages
\* and overlaps, no entry of another class is retrieved while one of the
\* query's own class is left out (MemoryStore.retrieve).
THEOREM OwnClassFirst ==
    ASSUME NEW M, IsFiniteSet(M), NEW sig, NEW k \in Nat,
           NEW e \in Retrieve(M, sig, k), e.signature # sig,
           NEW x \in M, x.signature = sig
    PROVE  x \in Retrieve(M, sig, k)
<1> DEFINE C == Candidates(M, sig)
           Before(y) == {z \in C : Precedes(SortKey(z, sig), SortKey(y, sig))}
<1>1. C \in SUBSET M /\ x \in C
  BY DEF Candidates
<1>2. \A y : /\ SortKey(y, sig)[1] = IF y.signature = sig THEN 0 ELSE 1
             /\ DOMAIN SortKey(y, sig) = 1..4
  BY DEF SortKey
<1>3. ASSUME NEW z \in Before(x)
      PROVE  z.signature = sig
  <2>1. PICK j \in 1..4 : /\ SortKey(z, sig)[j] < SortKey(x, sig)[j]
                          /\ \A i \in 1..(j - 1) : SortKey(z, sig)[i] = SortKey(x, sig)[i]
    BY <1>2 DEF Precedes
  <2>2. CASE j = 1
    BY <1>2, <2>1, <2>2
  <2>3. CASE j # 1
    <3>1. 1 \in 1..(j - 1)
      BY <2>3
    <3>2. SortKey(z, sig)[1] = 0
      BY <1>2, <2>1, <3>1
    <3> QED
      BY <1>2, <3>2
  <2> QED
    BY <2>2, <2>3
<1>4. ASSUME NEW z \in Before(x)
      PROVE  z \in Before(e)
  <2>1. SortKey(z, sig)[1] = 0 /\ SortKey(e, sig)[1] = 1
    BY <1>2, <1>3
  <2>2. /\ 1 \in DOMAIN SortKey(z, sig)
        /\ SortKey(z, sig)[1] < SortKey(e, sig)[1]
        /\ \A i \in 1..(1 - 1) : SortKey(z, sig)[i] = SortKey(e, sig)[i]
    BY <1>2, <2>1
  <2>3. Precedes(SortKey(z, sig), SortKey(e, sig))
    BY <2>2 DEF Precedes
  <2> QED
    BY <2>3
<1>5. IsFiniteSet(Before(e))
  <2>1. Before(e) \in SUBSET M
    BY <1>1
  <2> QED
    BY <2>1, FS_Subset
<1>6. /\ Cardinality(Before(e)) \in Nat /\ Cardinality(Before(x)) \in Nat
      /\ Cardinality(Before(x)) <= Cardinality(Before(e))
  <2>1. Before(x) \in SUBSET Before(e)
    BY <1>4
  <2>2. IsFiniteSet(Before(x)) /\ Cardinality(Before(x)) <= Cardinality(Before(e))
    BY <1>5, <2>1, FS_Subset
  <2> QED
    BY <2>2, <1>5, FS_CardinalityType
<1>7. Cardinality(Before(e)) < k
  BY DEF Retrieve
<1> QED
  BY <1>1, <1>6, <1>7 DEF Retrieve

(***************************************************************************)
(* Ingest                                                                  *)
(***************************************************************************)
\* The entries of all qualifying decisions in the log.
Given == Batch(0)

\* What the steps keep whether or not reviews overlap with ingest.
Sound ==
    /\ TypeOK
    /\ IsFiniteSet(learned)
    /\ learned \subseteq Given
    /\ batch \subseteq Given
    /\ forgotten \subseteq Given
    /\ MemoryIsNewest
    /\ meta <= Len(log)
    /\ pc \in {"record", "report"} => meta <= through /\ through <= Len(log)

\* A qualifying decision has an entry of its own.
LEMMA EntryOfDecision ==
    ASSUME log \in Seq(Lines), NEW start \in Nat, NEW n \in Qualifying(start)
    PROVE  /\ n \in start..(Len(log) - 1)
           /\ log[n + 1] \in Decisions
           /\ EntryAt(n) \in Entries
           /\ EntryAt(n).offset = n
<1>1. n \in start..(Len(log) - 1) /\ n + 1 \in 1..Len(log) /\ Qualifies(log[n + 1])
  BY DEF Qualifying
<1>2. log[n + 1] \in Lines /\ log[n + 1].kind = "decision"
  BY <1>1 DEF Qualifies
<1>3. log[n + 1] \in Decisions
  BY <1>2 DEF Lines
<1>4. log[n + 1].scenario \in DOMAIN Fixtures
  BY <1>3, IngestAssumption
<1>5. Weight(log[n + 1].action) \in {1, 2}
  BY DEF Weight
<1> QED
  BY <1>1, <1>3, <1>4, <1>5 DEF EntryAt, Entries

LEMMA GivenEntries ==
    ASSUME log \in Seq(Lines)
    PROVE  /\ Given \subseteq Entries
           /\ Placed(Given)
           /\ OneEntryPerOffset(Given)
<1>1. \A e \in Given : \E n \in Qualifying(0) : e = EntryAt(n)
  BY DEF Given, Batch
<1>2. \A n \in Qualifying(0) : EntryAt(n) \in Entries /\ EntryAt(n).offset = n /\ n \in Nat
  BY EntryOfDecision
<1> QED
  BY <1>1, <1>2 DEF Placed, OneEntryPerOffset

LEMMA BatchIsGiven ==
    ASSUME log \in Seq(Lines), NEW start \in Nat
    PROVE  Batch(start) \subseteq Given
<1>1. Qualifying(start) \subseteq Qualifying(0)
  BY DEF Qualifying
<1> QED
  BY <1>1 DEF Batch, Given

\* A line appended leaves the entries of the lines before it.
LEMMA AppendKeepsEntries ==
    ASSUME log \in Seq(Lines), NEW line \in Lines, log' = Append(log, line)
    PROVE  /\ log' \in Seq(Lines)
           /\ Len(log') = Len(log) + 1
           /\ \A n \in 0..(Len(log) - 1) : log'[n + 1] = log[n + 1]
           /\ log'[Len(log) + 1] = line
           /\ \A n \in 0..(Len(log) - 1) : EntryAt(n)' = EntryAt(n)
           /\ \A start \in Nat : Qualifying(start) \subseteq Qualifying(start)'
           /\ \A start \in Nat : Batch(start) \subseteq Batch(start)'
           /\ ~Qualifies(line) =>
                \A start \in Nat : /\ Qualifying(start)' = Qualifying(start)
                                   /\ Batch(start)' = Batch(start)
<1>1. /\ log' \in Seq(Lines)
      /\ Len(log') = Len(log) + 1
      /\ \A n \in 0..(Len(log) - 1) : log'[n + 1] = log[n + 1]
      /\ log'[Len(log) + 1] = line
  OBVIOUS
<1>2. \A n \in 0..(Len(log) - 1) : EntryAt(n)' = EntryAt(n)
  BY <1>1 DEF EntryAt
<1>3. \A start \in Nat : Qualifying(start) \subseteq Qualifying(start)'
  BY <1>1 DEF Qualifying
<1>4. \A start \in Nat : \A n \in Qualifying(start) : n \in 0..(Len(log) - 1)
  BY DEF Qualifying
<1>5. \A start \in Nat : Batch(start) \subseteq Batch(start)'
  BY <1>2, <1>3, <1>4 DEF Batch
<1>6. ASSUME ~Qualifies(line), NEW start \in Nat
      PROVE  Qualifying(start)' = Qualifying(start) /\ Batch(start)' = Batch(start)
  <2>1. Qualifying(start)' \subseteq Qualifying(start)
    <3> SUFFICES ASSUME NEW n \in start..(Len(log') - 1), Qualifies(log'[n + 1])
                 PROVE  n \in Qualifying(start)
      BY DEF Qualifying
    <3>1. n # Len(log)
      BY <1>1, <1>6
    <3>2. n \in start..(Len(log) - 1)
      BY <1>1, <3>1
    <3> QED
      BY <1>1, <3>2 DEF Qualifying
  <2>2. Qualifying(start)' = Qualifying(start)
    BY <2>1, <1>3
  <2> QED
    BY <2>2, <1>2, <1>4 DEF Batch
<1> QED
  BY <1>1, <1>2, <1>3, <1>5, <1>6

LEMMA EmptyStore == NewestOfEach({}) = {}
  BY DEF NewestOfEach, Signatures

LEMMA InitSound ==
    ASSUME Init
    PROVE  Sound
<1>1. log \in Seq(Lines) /\ Len(log) = 0
  BY DEF Init
<1>2. TypeOK
  BY <1>1, IngestAssumption DEF Init, TypeOK
<1>3. memory = {} /\ learned = {} /\ batch = {} /\ forgotten = {} /\ meta = 0 /\ pc = "idle"
  BY DEF Init
<1> QED
  BY <1>1, <1>2, <1>3, EmptyStore, FS_EmptySet DEF Sound, MemoryIsNewest

\* A line appended by another process, or by ingest itself.
LEMMA AppendSound ==
    ASSUME Sound, NEW line \in Lines, log' = Append(log, line),
           UNCHANGED <<memory, meta, garbled, batch, counts, through, runs, history>>,
           pc' \in {pc, "idle"}
    PROVE  Sound'
<1> USE DEF Sound, history
<1>1. /\ log' \in Seq(Lines)
      /\ Len(log') = Len(log) + 1
      /\ Given \subseteq Given'
  BY AppendKeepsEntries DEF TypeOK, Given
<1>2. TypeOK'
  BY <1>1 DEF TypeOK
<1>3. learned' \subseteq Given' /\ batch' \subseteq Given' /\ forgotten' \subseteq Given'
  BY <1>1
<1>4. MemoryIsNewest'
  BY DEF MemoryIsNewest, NewestOfEach, Signatures, SameClass, Newest, Newer
<1>5. /\ meta' <= Len(log')
      /\ pc' \in {"record", "report"} => meta' <= through' /\ through' <= Len(log')
  BY <1>1 DEF TypeOK
<1> QED
  BY <1>2, <1>3, <1>4, <1>5

LEMMA AddEntrySound ==
    ASSUME Sound, AddEntry
    PROVE  Sound'
<1> USE DEF Sound
<1>1. PICK e \in batch :
         /\ memory' = Add(memory, e)
         /\ counts' = <<counts[1] + 1, counts[2] + Cardinality(Evicted(memory, e))>>
         /\ learned' = learned \cup {e}
         /\ batch' = batch \ {e}
  BY DEF AddEntry, Oldest
<1>2. UNCHANGED <<log, meta, garbled, pc, through, runs, forgotten>> /\ pc = "add"
  BY DEF AddEntry
<1>3. learned' \subseteq Given /\ batch' \subseteq Given
  BY <1>1
<1>4. Given' = Given
  BY <1>2 DEF Given, Batch, Qualifying, EntryAt
<1>5. IsFiniteSet(learned')
  BY <1>1, FS_AddElement
<1>6. Placed(learned \cup {e}) /\ OneEntryPerOffset(learned \cup {e})
  BY <1>1, <1>3, GivenEntries DEF TypeOK, Placed, OneEntryPerOffset
<1>7. Add(NewestOfEach(learned), e) = NewestOfEach(learned \cup {e})
  BY <1>6, AddKeepsNewest
<1>8. memory = NewestOfEach(learned) /\ memory' = NewestOfEach(learned \cup {e})
  BY <1>1, <1>7 DEF MemoryIsNewest
<1>9. MemoryIsNewest'
  <2>1. NewestOfEach(learned)' = NewestOfEach(learned')
    BY DEF NewestOfEach, Signatures, SameClass, Newest, Newer
  <2> QED
    BY <1>1, <1>8, <2>1 DEF MemoryIsNewest
<1>10. memory' \subseteq Entries /\ memory \subseteq learned
  <2>1. learned \cup {e} \subseteq Entries
    BY <1>1 DEF TypeOK
  <2> QED
    BY <2>1, <1>8, InItsClass
<1>11. Cardinality(Evicted(memory, e)) \in Nat
  <2>1. Evicted(memory, e) \in SUBSET (learned \cup {e})
    BY <1>10 DEF Evicted
  <2> QED
    BY <2>1, <1>1, <1>5, FS_Subset, FS_CardinalityType
<1>12. counts' \in Nat \X Nat
  BY <1>1, <1>11 DEF TypeOK
<1>13. TypeOK'
  BY <1>1, <1>2, <1>10, <1>12 DEF TypeOK
<1> QED
  BY <1>1, <1>2, <1>3, <1>4, <1>5, <1>9, <1>13

\* What keeps the files' contents of every step that does not add an entry.
LEMMA QuietSound ==
    ASSUME Sound, TypeOK', UNCHANGED <<log, memory, learned>>,
           batch' \subseteq Given, forgotten' \subseteq Given,
           meta' <= Len(log),
           pc' \in {"record", "report"} => meta' <= through' /\ through' <= Len(log)
    PROVE  Sound'
<1>1. Given' = Given
  BY DEF Given, Batch, Qualifying, EntryAt
<1>2. MemoryIsNewest'
  BY DEF Sound, MemoryIsNewest, NewestOfEach, Signatures, SameClass, Newest, Newer
<1> QED
  BY <1>1, <1>2 DEF Sound

LEMMA StepSound ==
    ASSUME Sound, [Next]_vars
    PROVE  Sound'
<1> USE DEF Sound, history
<1>0. /\ log \in Seq(Lines) /\ Len(log) \in Nat /\ meta \in Nat /\ runs \in Nat
      /\ through \in Nat /\ {} \subseteq Given
  BY IngestAssumption DEF TypeOK
<1>1. CASE Decide
  <2>1. PICK line \in Decisions : AppendLine(line)
    BY <1>1 DEF Decide
  <2> QED
    BY <2>1, AppendSound DEF AppendLine, Lines
<1>2. CASE LogOther
  <2>1. [kind |-> "other"] \in Lines
    BY DEF Lines
  <2> QED
    BY <1>2, <2>1, AppendSound DEF LogOther, AppendLine
<1>3. CASE Start
  <2>1. batch' \subseteq Given
    BY <1>0, <1>3, BatchIsGiven DEF Start
  <2>2. Given \subseteq Entries
    BY <1>0, GivenEntries
  <2>3. TypeOK'
    BY <1>3, <2>1, <2>2, IngestAssumption DEF Start, TypeOK
  <2> QED
    BY <1>3, <2>1, <2>3, QuietSound DEF Start
<1>4. CASE StartRaises
  <2>1. TypeOK'
    BY <1>4, IngestAssumption DEF StartRaises, TypeOK
  <2> QED
    BY <1>4, <2>1, QuietSound DEF StartRaises
<1>5. CASE AddEntry
  BY <1>5, AddEntrySound
<1>6. CASE AddRaises
  <2>1. TypeOK'
    BY <1>6 DEF AddRaises, Ended, TypeOK
  <2> QED
    BY <1>0, <1>6, <2>1, QuietSound DEF AddRaises, Ended
<1>7. CASE CountLines
  <2>1. TypeOK'
    BY <1>0, <1>7 DEF CountLines, TypeOK
  <2> QED
    BY <1>0, <1>7, <2>1, QuietSound DEF CountLines
<1>8. CASE RecordOffset
  <2>1. TypeOK'
    BY <1>0, <1>8 DEF RecordOffset, TypeOK
  <2> QED
    BY <1>0, <1>8, <2>1, QuietSound DEF RecordOffset
<1>9. CASE Report
  <2> DEFINE line == [kind |-> "ingest", through |-> through, added |-> counts[1],
                      evicted |-> counts[2], memory |-> memory]
  <2>1. line \in Lines
    BY <1>0 DEF TypeOK, Lines
  <2>2. /\ log' = Append(log, line)
        /\ UNCHANGED <<memory, meta, garbled, batch, counts, through, runs, history>>
        /\ pc' \in {pc, "idle"}
    BY <1>9 DEF Report
  <2> QED
    BY <2>1, <2>2, AppendSound
<1>10. CASE Crash
  <2>1. TypeOK'
    BY <1>10 DEF Crash, Ended, TypeOK
  <2> QED
    BY <1>0, <1>10, <2>1, QuietSound DEF Crash, Ended
<1>11. CASE CutStore
  <2>1. /\ memory' = {} /\ learned' = {} /\ batch' = {} /\ pc' = "idle"
        /\ log' = log /\ meta' = meta
        /\ forgotten' = forgotten \cup {e \in learned : e.offset < meta}
    BY <1>11 DEF CutStore, Ended
  <2>2. TypeOK'
    BY <1>11, <2>1 DEF CutStore, Ended, TypeOK
  <2>3. Given' = Given
    BY <2>1 DEF Given, Batch, Qualifying, EntryAt
  <2>4. MemoryIsNewest'
    BY <2>1 DEF MemoryIsNewest, NewestOfEach, Signatures
  <2> QED
    BY <2>1, <2>2, <2>3, <2>4, FS_EmptySet
<1>12. CASE CutMeta
  <2>1. TypeOK'
    BY <1>12 DEF CutMeta, Ended, TypeOK
  <2> QED
    BY <1>0, <1>12, <2>1, QuietSound DEF CutMeta, Ended
<1>13. CASE UNCHANGED vars
  <2>1. TypeOK'
    BY <1>13 DEF vars, TypeOK
  <2> QED
    BY <1>13, <2>1, QuietSound DEF vars
<1> QED
  BY <1>1, <1>2, <1>3, <1>4, <1>5, <1>6, <1>7, <1>8, <1>9, <1>10, <1>11, <1>12, <1>13
     DEF Next

\* Every run of the program is sound.
THEOREM SpecSound == Spec => []Sound
<1>1. Init => Sound
  BY InitSound
<1>2. Sound /\ [Next]_vars => Sound'
  BY StepSound
<1> QED
  BY <1>1, <1>2, PTL DEF Spec

\* The files and the process keep their types (ingest.py, store.py).
THEOREM IngestTypeCorrect == Spec => []TypeOK
<1>1. Sound => TypeOK
  BY DEF Sound
<1> QED
  BY <1>1, SpecSound, PTL

\* Whatever the log holds, however often ingest is killed between its steps or
\* in the middle of a write, and whether or not reviews append meanwhile, the
\* store is the newest ClassCap of each class of what it was given since its
\* file was last cut (MemoryStore.add, ingest_decisions).
THEOREM StoreIsNewest == Spec => []MemoryIsNewest
<1>1. Sound => MemoryIsNewest
  BY DEF Sound
<1> QED
  BY <1>1, SpecSound, PTL

\* No step, a kill included, moves the consumed offset back
\* (ingest_decisions, _save_meta).
THEOREM OffsetIsMonotone == Spec => OffsetNeverMovesBack
<1>1. Sound /\ [Next]_vars => [meta' >= meta]_vars
  <2> SUFFICES ASSUME Sound, Next
               PROVE  meta' >= meta
    OBVIOUS
  <2>1. meta \in Nat /\ meta >= meta
    BY DEF Sound, TypeOK
  <2>2. CASE RecordOffset
    BY <2>1, <2>2 DEF Sound, TypeOK, RecordOffset
  <2>3. CASE ~RecordOffset
    <3>1. meta' = meta
      BY <2>3 DEF Next, Decide, LogOther, AppendLine, Start, StartRaises, AddEntry,
                  AddRaises, CountLines, Report, Crash, CutStore, CutMeta, Ended
    <3> QED
      BY <3>1, <2>1
  <2> QED
    BY <2>2, <2>3
<1> QED
  BY <1>1, SpecSound, PTL DEF Spec, OffsetNeverMovesBack

(***************************************************************************)
(* No decision is lost                                                     *)
(***************************************************************************)
\* Where the entry of each qualifying decision is, at each point of ingest.
Complete ==
    /\ \A n \in Qualifying(0) : n < meta => EntryAt(n) \in learned \cup forgotten
    /\ pc = "add" => Given \subseteq learned \cup forgotten \cup batch
    /\ pc \in {"record", "report"} => Given \subseteq learned \cup forgotten

LEMMA CompleteConsumed ==
    ASSUME Sound, Complete
    PROVE  ConsumedIsLearned
<1> SUFFICES ASSUME NEW n \in 0..(meta - 1), Qualifies(log[n + 1])
             PROVE  EntryAt(n) \in learned \cup forgotten
  BY DEF ConsumedIsLearned
<1>1. n \in 0..(Len(log) - 1) /\ n < meta
  BY DEF Sound, TypeOK
<1> QED
  BY <1>1 DEF Qualifying, Complete

\* A line appended while no batch is being consumed, or one that qualifies for
\* nothing, leaves no decision without its place.
LEMMA AppendComplete ==
    ASSUME Sound, Complete, NEW line \in Lines, log' = Append(log, line),
           UNCHANGED <<meta, batch, learned, forgotten>>,
           pc' \in {pc, "idle"},
           pc' = "idle" \/ ~Qualifies(line)
    PROVE  Complete'
<1>1. /\ Len(log) \in Nat /\ meta \in Nat /\ meta <= Len(log)
      /\ log' \in Seq(Lines) /\ Len(log') = Len(log) + 1
      /\ \A n \in 0..(Len(log) - 1) : log'[n + 1] = log[n + 1] /\ EntryAt(n)' = EntryAt(n)
  BY AppendKeepsEntries DEF Sound, TypeOK
<1>2. ASSUME NEW n \in Qualifying(0)', n < meta'
      PROVE  EntryAt(n)' \in learned' \cup forgotten'
  <2>1. n \in 0..(Len(log) - 1) /\ n < meta /\ Qualifies(log[n + 1])
    BY <1>1, <1>2 DEF Qualifying, Qualifies
  <2>2. n \in Qualifying(0)
    BY <2>1 DEF Qualifying
  <2> QED
    BY <2>1, <2>2, <1>1 DEF Complete
<1>3. ASSUME pc' # "idle"
      PROVE  Given' = Given /\ pc' = pc
  <2>1. ~Qualifies(line) /\ pc' = pc
    BY <1>3
  <2> QED
    BY <2>1, AppendKeepsEntries DEF Given, Sound, TypeOK
<1>4. pc' = "add" => Given' \subseteq learned' \cup forgotten' \cup batch'
  BY <1>3 DEF Complete
<1>5. pc' \in {"record", "report"} => Given' \subseteq learned' \cup forgotten'
  BY <1>3 DEF Complete
<1> QED
  BY <1>2, <1>4, <1>5 DEF Complete

\* A step that leaves the log alone and forgets no consumed entry.
LEMMA StillComplete ==
    ASSUME Sound, Complete, log' = log,
           \A n \in Qualifying(0) :
               n < meta' => EntryAt(n) \in learned' \cup forgotten',
           pc' = "add" => Given \subseteq learned' \cup forgotten' \cup batch',
           pc' \in {"record", "report"} => Given \subseteq learned' \cup forgotten'
    PROVE  Complete'
<1>1. Given' = Given /\ Qualifying(0)' = Qualifying(0)
  BY DEF Given, Batch, Qualifying, EntryAt
<1>2. \A n : EntryAt(n)' = EntryAt(n)
  BY DEF EntryAt
<1> QED
  BY <1>1, <1>2 DEF Complete

LEMMA StepComplete ==
    ASSUME ~ReviewOverlaps, Sound, Complete, [Next]_vars
    PROVE  Complete'
<1> USE DEF history
<1>0. log \in Seq(Lines) /\ meta \in Nat /\ Len(log) \in Nat /\ meta <= Len(log)
  BY DEF Sound, TypeOK
<1>1. CASE Decide
  <2>1. PICK line \in Decisions : AppendLine(line)
    BY <1>1 DEF Decide
  <2> QED
    BY <1>1, <2>1, AppendComplete DEF Decide, AppendLine, Lines
<1>2. CASE LogOther
  <2>1. [kind |-> "other"] \in Lines /\ ~Qualifies([kind |-> "other"])
    BY DEF Lines, Qualifies
  <2> QED
    BY <1>2, <2>1, AppendComplete DEF LogOther, AppendLine
<1>3. CASE Start
  <2>1. Given \subseteq learned \cup forgotten \cup Batch(meta)
    <3> SUFFICES ASSUME NEW n \in Qualifying(0)
                 PROVE  EntryAt(n) \in learned \cup forgotten \cup Batch(meta)
      BY DEF Given, Batch
    <3>1. CASE n < meta
      BY <3>1 DEF Complete
    <3>2. CASE ~(n < meta)
      <4>1. n \in Qualifying(meta)
        BY <1>0, <3>2 DEF Qualifying
      <4> QED
        BY <4>1 DEF Batch
    <3> QED
      BY <3>1, <3>2
  <2> QED
    BY <1>3, <2>1, StillComplete DEF Start, Complete
<1>4. CASE StartRaises
  BY <1>4, StillComplete DEF StartRaises, Complete
<1>5. CASE AddEntry
  <2>1. learned \cup batch \subseteq learned' \cup batch' /\ learned \subseteq learned'
    BY <1>5 DEF AddEntry, Oldest
  <2>2. log' = log /\ meta' = meta /\ pc' = pc /\ pc = "add" /\ forgotten' = forgotten
    BY <1>5 DEF AddEntry
  <2> QED
    BY <2>1, <2>2, StillComplete DEF Complete
<1>6. CASE AddRaises
  BY <1>6, StillComplete DEF AddRaises, Ended, Complete
<1>7. CASE CountLines
  BY <1>7, StillComplete DEF CountLines, Complete
<1>8. CASE RecordOffset
  <2>1. \A n \in Qualifying(0) : EntryAt(n) \in learned \cup forgotten
    BY <1>8 DEF RecordOffset, Complete, Given, Batch
  <2> QED
    BY <1>8, <2>1, StillComplete DEF RecordOffset, Complete
<1>9. CASE Report
  <2> DEFINE line == [kind |-> "ingest", through |-> through, added |-> counts[1],
                      evicted |-> counts[2], memory |-> memory]
  <2>1. line \in Lines
    BY DEF Sound, TypeOK, Lines
  <2>2. /\ log' = Append(log, line) /\ pc' = "idle"
        /\ UNCHANGED <<meta, batch, learned, forgotten>>
    BY <1>9 DEF Report
  <2> QED
    BY <2>1, <2>2, AppendComplete
<1>10. CASE Crash
  BY <1>10, StillComplete DEF Crash, Ended, Complete
<1>11. CASE CutStore
  <2>1. \A n \in Qualifying(0) : EntryAt(n).offset = n
    BY <1>0, EntryOfDecision
  <2>2. /\ pc' = "idle" /\ log' = log /\ meta' = meta
        /\ forgotten' = forgotten \cup {e \in learned : e.offset < meta}
    BY <1>11 DEF CutStore, Ended
  <2>3. \A n \in Qualifying(0) : n < meta => EntryAt(n) \in forgotten'
    BY <2>1, <2>2 DEF Complete
  <2> QED
    BY <2>2, <2>3, StillComplete
<1>12. CASE CutMeta
  BY <1>12, StillComplete DEF CutMeta, Ended, Complete
<1>13. CASE UNCHANGED vars
  BY <1>13, StillComplete DEF vars, Complete
<1> QED
  BY <1>1, <1>2, <1>3, <1>4, <1>5, <1>6, <1>7, <1>8, <1>9, <1>10, <1>11, <1>12, <1>13
     DEF Next

\* As long as no review runs beside ingest, a decision below the consumed offset
\* was given to the store, for any log, any number of runs and any kill,
\* in the middle of a write or between two steps (ingest_decisions).
THEOREM NoDecisionIsLost ==
    ASSUME ~ReviewOverlaps
    PROVE  Spec => []ConsumedIsLearned
<1>1. Init => Complete
  BY DEF Init, Complete, Qualifying
<1>2. Sound /\ Complete /\ [Next]_vars => Complete'
  BY StepComplete
<1>3. Sound /\ Complete => ConsumedIsLearned
  BY CompleteConsumed
<1> QED
  BY <1>1, <1>2, <1>3, SpecSound, PTL DEF Spec

(***************************************************************************)
(* The report                                                              *)
(***************************************************************************)
\* What was lost with a cut of the store is apart from what is in it, or will be.
Apart ==
    /\ learned \cap forgotten = {}
    /\ \A e \in forgotten : e.offset < meta
    /\ pc = "add" => \A e \in batch : e.offset >= meta

NoDecisionSince(start) == \A n \in start..(Len(log) - 1) : log[n + 1].kind # "decision"

\* The line count taken covers every decision.
Counted ==
    /\ pc \in {"record", "report"} => NoDecisionSince(through)
    /\ pc = "report" => meta = through

LastLine == log[Len(log)]

\* A log that ends with a report.
Reported ==
    (log # << >> /\ LastLine.kind = "ingest") =>
        /\ LastLine.through <= meta
        /\ NoDecisionSince(LastLine.through)
        /\ LastLine.memory = NewestOfEach(Given \ forgotten)

Settled == Apart /\ Counted /\ Reported

LEMMA StepApart ==
    ASSUME Sound, Apart, [Next]_vars
    PROVE  Apart'
<1> USE DEF Apart, history
<1>0. /\ log \in Seq(Lines) /\ meta \in Nat /\ Len(log) \in Nat /\ meta <= Len(log)
      /\ \A e \in learned \cup forgotten \cup batch : e.offset \in Nat
  BY DEF Sound, TypeOK, Entries
<1>1. CASE Decide
  BY <1>1 DEF Decide, AppendLine
<1>2. CASE LogOther
  BY <1>2 DEF LogOther, AppendLine
<1>3. CASE Start
  <2>1. \A n \in Qualifying(meta) : EntryAt(n).offset = n /\ n \in Nat /\ n >= meta
    BY <1>0, EntryOfDecision
  <2>2. \A e \in Batch(meta) : e.offset >= meta
    BY <2>1 DEF Batch
  <2> QED
    BY <1>3, <2>2 DEF Start
<1>4. CASE StartRaises
  BY <1>4 DEF StartRaises
<1>5. CASE AddEntry
  <2>1. PICK e \in batch : learned' = learned \cup {e} /\ batch' = batch \ {e}
    BY <1>5 DEF AddEntry, Oldest
  <2>2. e \notin forgotten
    BY <1>0, <1>5, <2>1 DEF AddEntry
  <2> QED
    BY <1>5, <2>1, <2>2 DEF AddEntry
<1>6. CASE AddRaises
  BY <1>6 DEF AddRaises, Ended
<1>7. CASE CountLines
  BY <1>7 DEF CountLines
<1>8. CASE RecordOffset
  BY <1>0, <1>8 DEF RecordOffset, Sound, TypeOK
<1>9. CASE Report
  BY <1>9 DEF Report
<1>10. CASE Crash
  BY <1>10 DEF Crash, Ended
<1>11. CASE CutStore
  BY <1>11 DEF CutStore, Ended
<1>12. CASE CutMeta
  BY <1>12 DEF CutMeta, Ended
<1>13. CASE UNCHANGED vars
  BY <1>13 DEF vars
<1> QED
  BY <1>1, <1>2, <1>3, <1>4, <1>5, <1>6, <1>7, <1>8, <1>9, <1>10, <1>11, <1>12, <1>13
     DEF Next

LEMMA StepCounted ==
    ASSUME ~ReviewOverlaps, Sound, Counted, [Next]_vars
    PROVE  Counted'
<1> USE DEF Counted, NoDecisionSince, history
<1>0. log \in Seq(Lines) /\ meta \in Nat /\ Len(log) \in Nat /\ through \in Nat
  BY DEF Sound, TypeOK
<1>1. CASE Decide
  BY <1>1 DEF Decide, AppendLine
<1>2. CASE LogOther
  <2> DEFINE line == [kind |-> "other"]
  <2>1. line \in Lines /\ line.kind # "decision"
    BY DEF Lines
  <2>2. /\ log' = Append(log, line)
        /\ UNCHANGED <<meta, pc, through>>
    BY <1>2 DEF LogOther, AppendLine
  <2>3. /\ Len(log') = Len(log) + 1 /\ log'[Len(log) + 1] = line
        /\ \A n \in 0..(Len(log) - 1) : log'[n + 1] = log[n + 1]
    BY <1>0, <2>1, <2>2, AppendKeepsEntries
  <2>4. ASSUME pc \in {"record", "report"}
        PROVE  NoDecisionSince(through)'
    <3> SUFFICES ASSUME NEW n \in through..Len(log)
                 PROVE  log'[n + 1].kind # "decision"
      BY <1>0, <2>2, <2>3
    <3>1. CASE n = Len(log)
      BY <2>1, <2>3, <3>1
    <3>2. CASE n # Len(log)
      BY <1>0, <2>3, <2>4, <3>2
    <3> QED
      BY <3>1, <3>2
  <2> QED
    BY <2>2, <2>4
<1>3. CASE Start
  BY <1>3 DEF Start
<1>4. CASE StartRaises
  BY <1>4 DEF StartRaises
<1>5. CASE AddEntry
  BY <1>5 DEF AddEntry
<1>6. CASE AddRaises
  BY <1>6 DEF AddRaises, Ended
<1>7. CASE CountLines
  BY <1>0, <1>7 DEF CountLines
<1>8. CASE RecordOffset
  BY <1>8 DEF RecordOffset
<1>9. CASE Report
  BY <1>9 DEF Report
<1>10. CASE Crash
  BY <1>10 DEF Crash, Ended
<1>11. CASE CutStore
  BY <1>11 DEF CutStore, Ended
<1>12. CASE CutMeta
  BY <1>12 DEF CutMeta, Ended
<1>13. CASE UNCHANGED vars
  BY <1>13 DEF vars
<1> QED
  BY <1>1, <1>2, <1>3, <1>4, <1>5, <1>6, <1>7, <1>8, <1>9, <1>10, <1>11, <1>12, <1>13
     DEF Next

\* A step that leaves the log alone, and what was forgotten.
LEMMA StillReported ==
    ASSUME Sound, Reported, log' = log, forgotten' = forgotten, meta' \in Nat, meta' >= meta
    PROVE  Reported'
<1>1. Given' = Given
  BY DEF Given, Batch, Qualifying, EntryAt
<1>2. NewestOfEach(Given \ forgotten)' = NewestOfEach(Given \ forgotten)
  BY <1>1 DEF NewestOfEach, Signatures, SameClass, Newest, Newer
<1>3. log # << >> => LastLine \in Lines
  BY DEF Sound, TypeOK, LastLine
<1>4. log # << >> /\ LastLine.kind = "ingest" => LastLine.through \in Nat
  <2>1. [kind |-> "other"].kind = "other"
    OBVIOUS
  <2>2. \A d \in Decisions : d.kind = "decision"
    BY IngestAssumption
  <2> QED
    BY <1>3, <2>1, <2>2 DEF Lines
<1>5. meta \in Nat
  BY DEF Sound, TypeOK
<1> QED
  BY <1>2, <1>4, <1>5 DEF Reported, LastLine, NoDecisionSince

LEMMA StepReported ==
    ASSUME ~ReviewOverlaps, Sound, Complete, Settled, [Next]_vars
    PROVE  Reported'
<1> USE DEF history
<1>0. /\ log \in Seq(Lines) /\ meta \in Nat /\ meta >= meta /\ Len(log) \in Nat
      /\ through \in Nat /\ memory \subseteq Entries /\ counts \in Nat \X Nat
      /\ Reported /\ Apart /\ Counted
  BY DEF Sound, TypeOK, Settled
<1>1. CASE Decide
  <2>1. PICK line \in Decisions : log' = Append(log, line)
    BY <1>1 DEF Decide, AppendLine
  <2>2. line.kind = "decision" /\ line \in Lines
    BY IngestAssumption DEF Lines
  <2>3. LastLine' = line
    BY <1>0, <2>1, <2>2, AppendKeepsEntries DEF LastLine
  <2> QED
    BY <2>2, <2>3 DEF Reported
<1>2. CASE LogOther
  <2>1. log' = Append(log, [kind |-> "other"]) /\ [kind |-> "other"] \in Lines
    BY <1>2 DEF LogOther, AppendLine, Lines
  <2>2. LastLine' = [kind |-> "other"]
    BY <1>0, <2>1, AppendKeepsEntries DEF LastLine
  <2> QED
    BY <2>2 DEF Reported
<1>3. CASE Start
  BY <1>0, <1>3, StillReported DEF Start
<1>4. CASE StartRaises
  BY <1>0, <1>4, StillReported DEF StartRaises
<1>5. CASE AddEntry
  BY <1>0, <1>5, StillReported DEF AddEntry
<1>6. CASE AddRaises
  BY <1>0, <1>6, StillReported DEF AddRaises, Ended
<1>7. CASE CountLines
  BY <1>0, <1>7, StillReported DEF CountLines
<1>8. CASE RecordOffset
  <2>1. meta' \in Nat /\ meta' >= meta
    BY <1>0, <1>8 DEF RecordOffset, Sound
  <2> QED
    BY <1>8, <2>1, <1>0, StillReported DEF RecordOffset
<1>9. CASE Report
  <2> DEFINE line == [kind |-> "ingest", through |-> through, added |-> counts[1],
                      evicted |-> counts[2], memory |-> memory]
  <2> HIDE DEF line
  <2>1. line \in Lines
    BY <1>0 DEF Lines, line
  <2>2. /\ line.kind = "ingest" /\ line.through = through /\ line.memory = memory
        /\ ~Qualifies(line)
    BY DEF line, Qualifies
  <2>3. /\ log' = Append(log, line) /\ pc = "report" /\ meta' = meta /\ forgotten' = forgotten
    BY <1>9 DEF Report, line
  <2>4. /\ Len(log') = Len(log) + 1 /\ log'[Len(log) + 1] = line /\ Given' = Given
        /\ \A n \in 0..(Len(log) - 1) : log'[n + 1] = log[n + 1]
    BY <1>0, <2>1, <2>2, <2>3, AppendKeepsEntries DEF Given
  <2>5. LastLine' = line
    BY <2>4 DEF LastLine
  <2>6. line.through <= meta'
    BY <1>0, <2>2, <2>3 DEF Counted
  <2>7. \A n \in through..(Len(log') - 1) : log'[n + 1].kind # "decision"
    <3> SUFFICES ASSUME NEW n \in through..Len(log)
                 PROVE  log'[n + 1].kind # "decision"
      BY <1>0, <2>4
    <3>1. CASE n = Len(log)
      BY <2>2, <2>4, <3>1
    <3>2. CASE n # Len(log)
      BY <1>0, <2>3, <2>4, <3>2 DEF Counted, NoDecisionSince
    <3> QED
      BY <3>1, <3>2
  <2>8. learned = Given \ forgotten
    BY <1>0, <2>3 DEF Complete, Sound, Apart
  <2>9. NewestOfEach(Given \ forgotten)' = NewestOfEach(Given \ forgotten)
    BY <2>3, <2>4 DEF NewestOfEach, Signatures, SameClass, Newest, Newer
  <2>10. line.memory = NewestOfEach(Given \ forgotten)'
    BY <2>2, <2>8, <2>9 DEF Sound, MemoryIsNewest
  <2> QED
    BY <2>2, <2>5, <2>6, <2>7, <2>10 DEF Reported, NoDecisionSince
<1>10. CASE Crash
  BY <1>0, <1>10, StillReported DEF Crash, Ended
<1>11. CASE CutStore
  <2>1. PICK e \in batch : e.offset >= meta
    BY <1>0, <1>11 DEF CutStore, Oldest, Apart
  <2>2. e \in Given
    BY DEF Sound
  <2>3. PICK n \in Qualifying(0) : e = EntryAt(n)
    BY <2>2 DEF Given, Batch
  <2>4. n \in 0..(Len(log) - 1) /\ n >= meta /\ log[n + 1].kind = "decision"
    BY <1>0, <2>1, <2>3, EntryOfDecision DEF Qualifying, Qualifies
  <2>5. ~(log # << >> /\ LastLine.kind = "ingest")
    <3> SUFFICES ASSUME log # << >>, LastLine.kind = "ingest"
                 PROVE  FALSE
      OBVIOUS
    <3>1. LastLine.through <= meta /\ NoDecisionSince(LastLine.through)
      BY <1>0 DEF Reported
    <3>2. LastLine.through \in Nat
      <4>1. LastLine \in Lines
        BY <1>0 DEF LastLine
      <4>2. \A d \in Decisions : d.kind = "decision"
        BY IngestAssumption
      <4> QED
        BY <4>1, <4>2 DEF Lines
    <3>3. n \in LastLine.through..(Len(log) - 1)
      BY <1>0, <2>4, <3>1, <3>2
    <3> QED
      BY <2>4, <3>1, <3>3 DEF NoDecisionSince
  <2> QED
    BY <1>11, <2>5 DEF CutStore, Ended, Reported, LastLine
<1>12. CASE CutMeta
  BY <1>0, <1>12, StillReported DEF CutMeta, Ended
<1>13. CASE UNCHANGED vars
  BY <1>0, <1>13, StillReported DEF vars
<1> QED
  BY <1>1, <1>2, <1>3, <1>4, <1>5, <1>6, <1>7, <1>8, <1>9, <1>10, <1>11, <1>12, <1>13
     DEF Next

LEMMA SettledMatchesLog ==
    ASSUME Sound, Settled
    PROVE  ReportMatchesLog
<1> SUFFICES ASSUME log # << >>, log[Len(log)].kind = "ingest"
             PROVE  /\ \A n \in log[Len(log)].through..(Len(log) - 2) :
                           log[n + 1].kind # "decision"
                    /\ log[Len(log)].memory =
                         NewestOfEach({EntryAt(n) : n \in {j \in 0..(Len(log) - 2) :
                                                             Qualifies(log[j + 1])}}
                                      \ forgotten)
  BY DEF ReportMatchesLog
<1>1. log \in Seq(Lines) /\ Len(log) \in Nat
  BY DEF Sound, TypeOK
<1>2. LastLine \in Lines /\ LastLine.kind = "ingest"
  BY <1>1 DEF LastLine
<1>3. LastLine.through \in Nat
  BY <1>2, IngestAssumption DEF Lines
<1>4. Reported
  BY DEF Settled
<1>5. \A n \in LastLine.through..(Len(log) - 2) : log[n + 1].kind # "decision"
  BY <1>1, <1>2, <1>3, <1>4 DEF Reported, NoDecisionSince
<1>6. ~Qualifies(LastLine)
  BY <1>2 DEF Qualifies
<1>7. {j \in 0..(Len(log) - 2) : Qualifies(log[j + 1])} = Qualifying(0)
  <2>1. \A j \in 0..(Len(log) - 1) : j = Len(log) - 1 \/ j \in 0..(Len(log) - 2)
    BY <1>1
  <2>2. log[(Len(log) - 1) + 1] = LastLine
    BY <1>1 DEF LastLine
  <2> QED
    BY <1>1, <1>6, <2>1, <2>2 DEF Qualifying
<1> QED
  BY <1>2, <1>4, <1>5, <1>7 DEF Reported, LastLine, Given, Batch

\* As long as no review runs beside ingest, a log that ends with ingest's event
\* leaves no decision uncounted, and the memory it names is the one its
\* decisions determine, less what cuts of the store took (ingest_decisions,
\* IngestEvent).
THEOREM ReportIsTrue ==
    ASSUME ~ReviewOverlaps
    PROVE  Spec => []ReportMatchesLog
<1>1. Init => Complete /\ Settled
  BY DEF Init, Complete, Qualifying, Settled, Apart, Counted, Reported
<1>2. Sound /\ Complete /\ Settled /\ [Next]_vars => Complete' /\ Settled'
  BY StepComplete, StepApart, StepCounted, StepReported DEF Settled
<1>3. Sound /\ Settled => ReportMatchesLog
  BY SettledMatchesLog
<1> QED
  BY <1>1, <1>2, <1>3, SpecSound, PTL DEF Spec

=============================================================================
