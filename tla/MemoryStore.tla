----------------------------- MODULE MemoryStore -----------------------------
(***************************************************************************)
(* The exemplar store (balancecheck/memory/store.py): capped structure     *)
(* classes and deterministic retrieval.                                    *)
(*                                                                         *)
(* An entry is [offset, signature, weight].  offset is the log line of the *)
(* decision it came from, which also determines its entry ID; signature is *)
(* the set of structure labels that are true of the account, and two       *)
(* entries are of one class when they have the same signature.             *)
(***************************************************************************)
EXTENDS Integers, FiniteSets

CONSTANTS ClassCap   \* entries kept per class

ASSUME ClassCapAssumption == ClassCap \in Nat \ {0}

Newer(S, e) == {x \in S : x.offset > e.offset}

\* The entries of S that a cap of ClassCap leaves.
Newest(S) == {e \in S : Cardinality(Newer(S, e)) < ClassCap}

SameClass(S, sig) == {e \in S : e.signature = sig}

\* Seeded fault: the newest entry is evicted.
Add_DropsNewest(M, e) ==
    IF \/ \E x \in M : x.offset = e.offset
       \/ Cardinality(SameClass(M, e.signature)) >= ClassCap
      THEN M ELSE M \cup {e}

\* The store after add: an entry already there is refused, and an overflowing
\* class loses its oldest entries.
Add(M, e) ==
    IF \E x \in M : x.offset = e.offset
      THEN M
      ELSE (M \ SameClass(M, e.signature))
             \cup Newest(SameClass(M, e.signature) \cup {e})

Evicted(M, e) == (M \cup {e}) \ Add(M, e)

(***************************************************************************)
(* Retrieval                                                               *)
(***************************************************************************)
Overlap(a, b) == Cardinality(a \cap b)

\* What shares no label with the query is noise, unless it is its very class.
Candidates(M, sig) ==
    {e \in M : Overlap(sig, e.signature) > 0 \/ e.signature = sig}

\* Lexicographic order on sequences of integers of one length, least first.
Precedes(s, t) ==
    \E k \in DOMAIN s : s[k] < t[k] /\ \A j \in 1..(k - 1) : s[j] = t[j]

SortKey(e, sig) ==
    <<IF e.signature = sig THEN 0 ELSE 1,
      -Overlap(sig, e.signature), -e.weight, -e.offset>>

\* The k best candidates.  Offsets are distinct, so the order is total.
Retrieve(M, sig, k) ==
    {e \in Candidates(M, sig) :
        Cardinality({x \in Candidates(M, sig) :
                       Precedes(SortKey(x, sig), SortKey(e, sig))}) < k}

=============================================================================
