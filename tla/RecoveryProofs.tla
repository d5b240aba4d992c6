--------------------------- MODULE RecoveryProofs ---------------------------
(***************************************************************************)
(* Theorems about the bounded agentic recovery, for every account, every   *)
(* set of calls the model may make and every setting of the budgets.       *)
(*                                                                         *)
(* The invariant has three parts: where the recovery stands and what its   *)
(* model calls add up to (Progress); what the log, the cache and the       *)
(* successes say of one another (Kept); and how the executions of a round  *)
(* are counted while it runs (RoundBudget).  Covered carries what forced   *)
(* coverage has achieved so far to the point where evidence is given up.   *)
(* The last part says what the answers then tell of a failed document.     *)
(***************************************************************************)
EXTENDS AgenticRecovery, LedgerProofs

-----------------------------------------------------------------------------
(***************************************************************************)
(* The invariant                                                           *)
(***************************************************************************)

\* A model call a round, and the final one.
Progress ==
    /\ pc = "rounds" => steps = round /\ result = "pending"
    /\ pc = "calls" => steps = round + 1 /\ round < MaxRounds /\ result = "pending"
    /\ pc = "coverage" => steps = MaxRounds /\ result = "pending"
    /\ pc \in {"rounds", "calls"} => req = 1
    /\ steps <= MaxRounds + 1

\* Every kept answer was an accepted call's, and every success is in the log.
Kept ==
    /\ executed <= MaxTotalToolCalls
    /\ executed = Cardinality(Executions)
    /\ \A k \in DOMAIN log : log[k].outcome = "ok" => log[k].call \in cache
    /\ cache \subseteq successes
    /\ \A c \in cache : Accepts(c, ledger)
    /\ \A c \in successes :
         /\ Accepts(c, ledger)
         /\ \E k \in DOMAIN log :
              log[k].outcome \in {"ok", "cached"} /\ log[k].call = c

RunsIn(r) == {k \in Executions : log[k].round = r}

\* A round that has not begun ran nothing, the current one at most a call for
\* each position worked through.
RoundBudget ==
    /\ \A r \in 0..MaxRounds : Cardinality(RunsIn(r)) <= MaxCallsPerRound
    /\ pc = "rounds" => \A r \in 0..MaxRounds : r >= round => RunsIn(r) = {}
    /\ pc = "calls" => \A r \in 0..MaxRounds : r > round => RunsIn(r) = {}
    /\ pc = "calls" => Cardinality(RunsIn(round)) <= index

\* Each requirement passed by forced coverage is met, unless the ceiling was
\* reached.
Covered ==
    pc = "coverage" =>
        \A k \in DOMAIN Required :
            k < req => Satisfied(Required[k], successes) \/ executed = MaxTotalToolCalls

\* A draft is returned only once nothing is missing.
DraftsComplete ==
    /\ pc # "returned" => result = "pending"
    /\ result = "draft" => Missing = {}

IInv ==
    /\ TypeOK
    /\ Progress
    /\ Kept
    /\ AnsweredOnce
    /\ RoundBudget
    /\ Covered
    /\ DraftsComplete
    /\ GivesUpOnlyAtCeiling

-----------------------------------------------------------------------------
(***************************************************************************)
(* Requirements and attempts                                               *)
(***************************************************************************)

LogEntry == [round : {-1} \cup 0..MaxRounds, index : Nat,
             call : AllCalls, outcome : Outcomes]

\* The cases of _ToolSession.attempt, as facts about its outcome.
LEMMA OutcomeCases ==
    ASSUME NEW call, NEW over \in BOOLEAN, executed \in Nat
    PROVE  /\ Outcome(call, over) \in Outcomes
           /\ Outcome(call, over) \in {"ok", "error"} =>
                ~over /\ call \notin cache /\ executed < MaxTotalToolCalls
           /\ Outcome(call, over) = "ok" => Accepts(call, ledger)
           /\ Outcome(call, over) = "cached" => call \in cache
           /\ call.tool # "" /\ ~over /\ Accepts(call, ledger) =>
                \/ Outcome(call, over) \in {"ok", "cached"}
                \/ executed >= MaxTotalToolCalls
<1>1. CASE call.tool = ""
  BY <1>1 DEF Outcome, Outcomes
<1>2. CASE call.tool # "" /\ over
  BY <1>2 DEF Outcome, Outcomes
<1>3. CASE call.tool # "" /\ ~over /\ call \in cache
  BY <1>3 DEF Outcome, Outcomes
<1>4. CASE call.tool # "" /\ ~over /\ call \notin cache /\ executed >= MaxTotalToolCalls
  BY <1>4 DEF Outcome, Outcomes
<1>5. CASE call.tool # "" /\ ~over /\ call \notin cache /\ ~(executed >= MaxTotalToolCalls)
  <2>1. Outcome(call, over) = IF Accepts(call, ledger) THEN "ok" ELSE "error"
    BY <1>5 DEF Outcome
  <2>2. executed < MaxTotalToolCalls
    <3>1. ~(executed >= MaxTotalToolCalls)
      BY <1>5
    <3> QED BY <3>1, AgentAssumption
  <2>3. CASE Accepts(call, ledger)
    BY <1>5, <2>1, <2>2, <2>3 DEF Outcomes
  <2>4. CASE ~Accepts(call, ledger)
    BY <1>5, <2>1, <2>2, <2>4 DEF Outcomes
  <2> QED BY <2>3, <2>4
<1> QED BY <1>1, <1>2, <1>3, <1>4, <1>5

LEMMA ConcatFacts ==
    ASSUME NEW S, NEW a \in Seq(S), NEW b \in Seq(S)
    PROVE  /\ a \o b \in Seq(S)
           /\ Len(a) \in Nat /\ Len(b) \in Nat
           /\ Len(a \o b) = Len(a) + Len(b)
           /\ DOMAIN (a \o b) = 1..(Len(a) + Len(b))
           /\ \A k \in 1..Len(a) : (a \o b)[k] = a[k]
           /\ \A k \in 1..Len(b) : (a \o b)[Len(a) + k] = b[k]
OBVIOUS

EvidenceTools == NoArgTools \cup {"get_invoice", "get_source"}
EvidenceDocs  == {NoDoc} \cup DocumentIds(ledger)
EvidenceCall  == {Call(t, d) : t \in EvidenceTools, d \in EvidenceDocs}

LEMMA EvidenceCallIs ==
    \A t \in EvidenceTools : \A d \in EvidenceDocs : Call(t, d) \in EvidenceCall
BY DEF EvidenceCall

\* A call spelled out by code is its tool and its document.
LEMMA CallFields ==
    \A t, d : /\ Call(t, d).tool = t
              /\ Call(t, d).doc = d
              /\ Call(t, d).form = "exact"
BY DEF Call

\* What the account itself requires.
LEMMA AccountCalls ==
    LET A == AccountEvidence(ledger)
    IN  /\ A \in Seq(EvidenceCall)
        /\ Len(A) >= 2
        /\ A[1] = Call("get_account_summary", NoDoc)
        /\ A[2] = Call("list_open_invoices", NoDoc)
        /\ \A k \in 1..Len(A) : /\ A[k].tool \in NoArgTools
                                /\ A[k].doc = NoDoc
                                /\ A[k].form = "exact"
        /\ UnappliedCashTotal(ledger) # 0 \/ UnappliedCreditTotal(ledger) # 0 =>
             Len(A) = 3 /\ A[3] = Call("list_unapplied_sources", NoDoc)
<1> DEFINE x == Call("get_account_summary", NoDoc)
<1> DEFINE y == Call("list_open_invoices", NoDoc)
<1> DEFINE z == Call("list_unapplied_sources", NoDoc)
<1>1. \A c \in {x, y, z} : /\ c \in EvidenceCall
                           /\ c.tool \in NoArgTools
                           /\ c.doc = NoDoc
                           /\ c.form = "exact"
  BY CallFields, EvidenceCallIs DEF NoArgTools, EvidenceTools, EvidenceDocs
<1> HIDE DEF x, y, z
<1>2. /\ <<x, y>> \in Seq({x, y, z}) /\ <<z>> \in Seq({x, y, z})
      /\ Len(<<x, y>>) = 2 /\ Len(<<z>>) = 1
      /\ <<x, y>>[1] = x /\ <<x, y>>[2] = y /\ <<z>>[1] = z
  OBVIOUS
<1>3. AccountEvidence(ledger) \in Seq({x, y, z})
      => /\ AccountEvidence(ledger) \in Seq(EvidenceCall)
         /\ \A k \in 1..Len(AccountEvidence(ledger)) :
              AccountEvidence(ledger)[k] \in {x, y, z}
  BY <1>1
<1>4. CASE UnappliedCashTotal(ledger) # 0 \/ UnappliedCreditTotal(ledger) # 0
  <2>1. AccountEvidence(ledger) = <<x, y>> \o <<z>>
    BY <1>4 DEF AccountEvidence, x, y, z
  <2>2. /\ AccountEvidence(ledger) \in Seq({x, y, z})
        /\ Len(AccountEvidence(ledger)) = 3
        /\ AccountEvidence(ledger)[1] = x
        /\ AccountEvidence(ledger)[2] = y
        /\ AccountEvidence(ledger)[3] = z
    BY <1>2, <2>1, ConcatFacts
  <2> QED BY <1>1, <1>3, <2>2 DEF x, y, z
<1>5. CASE ~(UnappliedCashTotal(ledger) # 0 \/ UnappliedCreditTotal(ledger) # 0)
  <2>1. AccountEvidence(ledger) = <<x, y>>
    BY <1>2, <1>5 DEF AccountEvidence, x, y
  <2>2. /\ AccountEvidence(ledger) \in Seq({x, y, z})
        /\ Len(AccountEvidence(ledger)) = 2
        /\ AccountEvidence(ledger)[1] = x
        /\ AccountEvidence(ledger)[2] = y
    BY <1>2, <2>1
  <2> QED BY <1>1, <1>3, <1>5, <2>2 DEF x, y
<1> QED BY <1>4, <1>5

\* What the failed documents require.
LEMMA DocumentCalls ==
    ASSUME failed \in Seq(DocumentIds(ledger))
    PROVE  LET D == DocumentEvidence(ledger, failed)
           IN  /\ D \in Seq(EvidenceCall)
               /\ Len(D) = Len(failed)
               /\ \A k \in 1..Len(failed) :
                    /\ D[k].tool \in {"get_invoice", "get_source"}
                    /\ D[k].doc = failed[k]
                    /\ D[k].form = "exact"
                    /\ Accepts(D[k], ledger)
<1> DEFINE D == DocumentEvidence(ledger, failed)
<1>1. DOMAIN failed = 1..Len(failed) /\ Len(failed) \in Nat
  OBVIOUS
<1>2. ASSUME NEW k \in 1..Len(failed)
      PROVE  /\ D[k] \in EvidenceCall
             /\ D[k].tool \in {"get_invoice", "get_source"}
             /\ D[k].doc = failed[k]
             /\ D[k].form = "exact"
             /\ Accepts(D[k], ledger)
  <2>1. failed[k] \in DocumentIds(ledger)
    OBVIOUS
  <2>2. D[k] = Call(IF failed[k] \in InvoiceIds(ledger) THEN "get_invoice" ELSE "get_source",
                    failed[k])
    BY <1>1 DEF DocumentEvidence
  <2>3. CASE failed[k] \in InvoiceIds(ledger)
    <3>1. D[k] = Call("get_invoice", failed[k])
      BY <2>2, <2>3
    <3>2. D[k] \in EvidenceCall
      BY <2>1, <3>1, EvidenceCallIs DEF EvidenceTools, EvidenceDocs
    <3>3. Accepts(D[k], ledger)
      BY <2>3, <3>1, CallFields DEF Accepts
    <3> QED BY <3>1, <3>2, <3>3, CallFields
  <2>4. CASE failed[k] \notin InvoiceIds(ledger)
    <3>1. D[k] = Call("get_source", failed[k])
      BY <2>2, <2>4
    <3>2. failed[k] \in SourceIds(ledger)
      BY <2>1, <2>4 DEF DocumentIds
    <3>3. D[k] \in EvidenceCall
      BY <2>1, <3>1, EvidenceCallIs DEF EvidenceTools, EvidenceDocs
    <3> QED BY <3>1, <3>2, <3>3, CallFields DEF Accepts
  <2> QED BY <2>3, <2>4
<1>3. D = [k \in 1..Len(failed) |-> D[k]]
  BY <1>1 DEF DocumentEvidence
<1> HIDE DEF D
<1>4. D \in Seq(EvidenceCall) /\ Len(D) = Len(failed)
  BY <1>1, <1>2, <1>3
<1> QED BY <1>2, <1>4 DEF D

\* The evidence required: the account's, then the failed documents'.
LEMMA RequiredCalls ==
    ASSUME [ledger |-> ledger, failed |-> failed] \in Cases
    PROVE  /\ Len(Required) \in Nat /\ DOMAIN Required = 1..Len(Required)
           /\ \A k \in DOMAIN Required :
                /\ Required[k].tool # ""
                /\ Required[k].form = "exact"
                /\ Accepts(Required[k], ledger)
           /\ \E k \in DOMAIN Required : Required[k] = Call("get_account_summary", NoDoc)
           /\ \E k \in DOMAIN Required : Required[k] = Call("list_open_invoices", NoDoc)
           /\ UnappliedCashTotal(ledger) # 0 \/ UnappliedCreditTotal(ledger) # 0 =>
                \E k \in DOMAIN Required : Required[k] = Call("list_unapplied_sources", NoDoc)
           /\ \A k \in DOMAIN failed : \E j \in DOMAIN Required :
                /\ Required[j].tool \in {"get_invoice", "get_source"}
                /\ Required[j].doc = failed[k]
<1>1. failed \in Seq(DocumentIds(ledger))
  BY CasesAssumption
<1>. PICK A : A = AccountEvidence(ledger)
  OBVIOUS
<1>. PICK D : D = DocumentEvidence(ledger, failed)
  OBVIOUS
<1>2. /\ A \in Seq(EvidenceCall)
      /\ Len(A) >= 2
      /\ A[1] = Call("get_account_summary", NoDoc)
      /\ A[2] = Call("list_open_invoices", NoDoc)
      /\ \A k \in 1..Len(A) : /\ A[k].tool \in NoArgTools
                              /\ A[k].doc = NoDoc
                              /\ A[k].form = "exact"
      /\ UnappliedCashTotal(ledger) # 0 \/ UnappliedCreditTotal(ledger) # 0 =>
           Len(A) = 3 /\ A[3] = Call("list_unapplied_sources", NoDoc)
  BY AccountCalls
<1>3. /\ D \in Seq(EvidenceCall)
      /\ Len(D) = Len(failed)
      /\ \A k \in 1..Len(failed) :
           /\ D[k].tool \in {"get_invoice", "get_source"}
           /\ D[k].doc = failed[k]
           /\ D[k].form = "exact"
           /\ Accepts(D[k], ledger)
  BY <1>1, DocumentCalls
<1>4. /\ Len(A) \in Nat /\ Len(D) \in Nat
      /\ Len(Required) = Len(A) + Len(D)
      /\ DOMAIN Required = 1..(Len(A) + Len(D))
      /\ \A k \in 1..Len(A) : Required[k] = A[k]
      /\ \A k \in 1..Len(D) : Required[Len(A) + k] = D[k]
  <2>1. A \in Seq(EvidenceCall) /\ D \in Seq(EvidenceCall) /\ Required = A \o D
    BY <1>2, <1>3 DEF Required
  <2> QED BY <2>1, ConcatFacts
<1>. PICK a \in Nat, d \in Nat : a = Len(A) /\ d = Len(D)
  BY <1>4
<1>5. /\ a >= 2
      /\ DOMAIN Required = 1..(a + d)
      /\ \A k \in 1..a : Required[k] = A[k]
      /\ \A k \in 1..d : Required[a + k] = D[k]
  BY <1>2, <1>4
<1>6. ASSUME NEW k \in DOMAIN Required
      PROVE  /\ Required[k].tool # ""
             /\ Required[k].form = "exact"
             /\ Accepts(Required[k], ledger)
  <2>1. CASE k \in 1..a
    <3>1. Required[k] = A[k]
      BY <1>5, <2>1
    <3>2. A[k].tool \in NoArgTools /\ A[k].doc = NoDoc /\ A[k].form = "exact"
      BY <1>2, <2>1
    <3>3. Accepts(A[k], ledger)
      BY <3>2 DEF Accepts
    <3>4. A[k].tool # ""
      BY <3>2 DEF NoArgTools
    <3> QED BY <3>1, <3>2, <3>3, <3>4
  <2>2. CASE k \notin 1..a
    <3>1. PICK j \in 1..d : k = a + j
      <4>1. k \in 1..(a + d)
        BY <1>5
      <4>2. k - a \in 1..d /\ k = a + (k - a)
        BY <2>2, <4>1
      <4> QED BY <4>2
    <3>2. Required[k] = D[j]
      BY <1>5, <3>1
    <3>3. j \in 1..Len(failed)
      BY <1>3, <3>1
    <3> QED BY <1>3, <3>2, <3>3
  <2> QED BY <2>1, <2>2
<1>7. ASSUME NEW k \in DOMAIN failed
      PROVE  \E j \in DOMAIN Required : /\ Required[j].tool \in {"get_invoice", "get_source"}
                                        /\ Required[j].doc = failed[k]
  <2>1. k \in 1..d /\ k \in 1..Len(failed)
    BY <1>1, <1>3
  <2>2. a + k \in 1..(a + d)
    BY <2>1
  <2>3. a + k \in DOMAIN Required /\ Required[a + k] = D[k]
    BY <1>5, <2>1, <2>2
  <2> QED BY <1>3, <2>1, <2>3
<1>8. /\ \E k \in DOMAIN Required : Required[k] = Call("get_account_summary", NoDoc)
      /\ \E k \in DOMAIN Required : Required[k] = Call("list_open_invoices", NoDoc)
  <2>1. 1 \in 1..a /\ 2 \in 1..a /\ 1 \in 1..(a + d) /\ 2 \in 1..(a + d)
    BY <1>5
  <2>2. Required[1] = A[1] /\ Required[2] = A[2]
    BY <1>5, <2>1
  <2> QED BY <1>2, <1>5, <2>1, <2>2
<1>9. ASSUME UnappliedCashTotal(ledger) # 0 \/ UnappliedCreditTotal(ledger) # 0
      PROVE  \E k \in DOMAIN Required : Required[k] = Call("list_unapplied_sources", NoDoc)
  <2>1. a = 3 /\ A[3] = Call("list_unapplied_sources", NoDoc)
    BY <1>2, <1>9
  <2>2. 3 \in 1..a /\ 3 \in 1..(a + d)
    BY <2>1
  <2> QED BY <1>5, <2>1, <2>2
<1>10. Len(Required) \in Nat /\ DOMAIN Required = 1..Len(Required)
  BY <1>4
<1> QED BY <1>6, <1>7, <1>8, <1>9, <1>10

-----------------------------------------------------------------------------
(***************************************************************************)
(* One attempt                                                             *)
(***************************************************************************)

\* The requirements follow from what never changes.
LEMMA RequiredStays ==
    ASSUME UNCHANGED <<ledger, failed>>
    PROVE  Required' = Required /\ AllCalls' = AllCalls /\ LogEntry' = LogEntry
BY DEF Required, AllCalls, LogEntry

\* What the log gains.
LEMMA AttemptLogs ==
    ASSUME log \in Seq(LogEntry), executed \in Nat,
           NEW call \in AllCalls, NEW r \in {-1} \cup 0..MaxRounds, NEW i \in Nat,
           NEW over \in BOOLEAN, Attempt(call, r, i, over)
    PROVE  \E n \in Nat, o \in Outcomes :
             /\ o = Outcome(call, over)
             /\ n = Len(log) + 1
             /\ Len(log) \in Nat /\ DOMAIN log = 1..Len(log)
             /\ log' \in Seq(LogEntry)
             /\ DOMAIN log' = 1..n /\ Len(log') = n
             /\ \A k \in DOMAIN log : log'[k] = log[k] /\ k \in DOMAIN log' /\ k < n
             /\ \A k \in DOMAIN log' : k \in DOMAIN log \/ k = n
             /\ n \in DOMAIN log' /\ n \notin DOMAIN log
             /\ log'[n].round = r /\ log'[n].call = call /\ log'[n].outcome = o
<1> DEFINE o == Outcome(call, over)
<1> DEFINE e == [round |-> r, index |-> i, call |-> call, outcome |-> o]
<1>1. o \in Outcomes
  BY OutcomeCases
<1>2. log' = Append(log, e)
  BY DEF Attempt
<1> HIDE DEF o
<1>3. e \in LogEntry
  BY <1>1 DEF LogEntry
<1>4. e.round = r /\ e.call = call /\ e.outcome = o
  OBVIOUS
<1> HIDE DEF e
<1>5. /\ Len(log) \in Nat /\ DOMAIN log = 1..Len(log)
      /\ log' \in Seq(LogEntry)
      /\ DOMAIN log' = 1..(Len(log) + 1) /\ Len(log') = Len(log) + 1
      /\ \A k \in DOMAIN log : log'[k] = log[k]
      /\ log'[Len(log) + 1] = e
  BY <1>2, <1>3
<1>6. PICK n \in Nat : n = Len(log) + 1
  BY <1>5
<1>7. /\ \A k \in DOMAIN log : k \in DOMAIN log' /\ k < n
      /\ \A k \in DOMAIN log' : k \in DOMAIN log \/ k = n
      /\ n \in DOMAIN log' /\ n \notin DOMAIN log
  BY <1>5, <1>6
<1> QED BY <1>1, <1>4, <1>5, <1>6, <1>7 DEF o

LEMMA ExecutionsFinite ==
    ASSUME log \in Seq(LogEntry)
    PROVE  IsFiniteSet(Executions) /\ \A r : IsFiniteSet(RunsIn(r))
<1>1. IsFiniteSet(1..Len(log)) /\ DOMAIN log = 1..Len(log)
  BY FS_Interval
<1>2. Executions \in SUBSET DOMAIN log /\ \A r : RunsIn(r) \in SUBSET DOMAIN log
  BY DEF Executions, RunsIn
<1> QED BY <1>1, <1>2, FS_Subset

\* Which executions the log gains: one of round r, or none.
LEMMA AttemptRuns ==
    ASSUME log \in Seq(LogEntry), executed \in Nat,
           NEW call \in AllCalls, NEW r \in {-1} \cup 0..MaxRounds, NEW i \in Nat,
           NEW over \in BOOLEAN, Attempt(call, r, i, over)
    PROVE  \E n \in Nat :
             /\ n \notin Executions
             /\ Outcome(call, over) \in {"ok", "error"} =>
                  /\ Executions' = Executions \cup {n}
                  /\ RunsIn(r)' = RunsIn(r) \cup {n}
             /\ Outcome(call, over) \notin {"ok", "error"} =>
                  /\ Executions' = Executions
                  /\ RunsIn(r)' = RunsIn(r)
             /\ \A q : q # r => RunsIn(q)' = RunsIn(q)
<1>1. PICK n \in Nat, o \in Outcomes :
             /\ o = Outcome(call, over)
             /\ \A k \in DOMAIN log : log'[k] = log[k] /\ k \in DOMAIN log' /\ k < n
             /\ \A k \in DOMAIN log' : k \in DOMAIN log \/ k = n
             /\ n \in DOMAIN log' /\ n \notin DOMAIN log
             /\ log'[n].round = r /\ log'[n].call = call /\ log'[n].outcome = o
  BY AttemptLogs
<1>2. \A k \in DOMAIN log : Ran(k)' <=> Ran(k)
  BY <1>1 DEF Ran
<1>3. Ran(n)' <=> o \in {"ok", "error"}
  BY <1>1 DEF Ran
<1>4. n \notin Executions
  BY <1>1 DEF Executions
<1>5. CASE o \in {"ok", "error"}
  <2>1. Executions' = Executions \cup {n}
    BY <1>1, <1>2, <1>3, <1>5 DEF Executions
  <2>2. RunsIn(r)' = RunsIn(r) \cup {n}
    BY <1>1, <2>1 DEF RunsIn, Executions
  <2>3. \A q : q # r => RunsIn(q)' = RunsIn(q)
    BY <1>1, <2>1 DEF RunsIn, Executions
  <2> QED BY <1>1, <1>4, <1>5, <2>1, <2>2, <2>3
<1>6. CASE o \notin {"ok", "error"}
  <2>1. Executions' = Executions
    BY <1>1, <1>2, <1>3, <1>6 DEF Executions
  <2>2. \A q : RunsIn(q)' = RunsIn(q)
    BY <1>1, <2>1 DEF RunsIn, Executions
  <2> QED BY <1>1, <1>4, <1>6, <2>1, <2>2
<1> QED BY <1>5, <1>6

\* An attempt keeps what log, cache and successes say of one another, and
\* charges the budget by at most one.
LEMMA AttemptKept ==
    ASSUME TypeOK, Kept, AnsweredOnce, UNCHANGED <<ledger, failed>>,
           NEW call \in AllCalls, NEW r \in {-1} \cup 0..MaxRounds, NEW i \in Nat,
           NEW over \in BOOLEAN, Attempt(call, r, i, over)
    PROVE  /\ log' \in Seq(LogEntry)'
           /\ executed' \in Nat
           /\ cache' \in SUBSET AllCalls'
           /\ successes' \in SUBSET AllCalls'
           /\ Kept'
           /\ AnsweredOnce'
<1>0. log \in Seq(LogEntry) /\ executed \in Nat
  BY DEF TypeOK, LogEntry
<1>1. PICK n \in Nat, o \in Outcomes :
             /\ o = Outcome(call, over)
             /\ log' \in Seq(LogEntry)
             /\ \A k \in DOMAIN log : log'[k] = log[k] /\ k \in DOMAIN log' /\ k < n
             /\ \A k \in DOMAIN log' : k \in DOMAIN log \/ k = n
             /\ n \in DOMAIN log' /\ n \notin DOMAIN log
             /\ log'[n].round = r /\ log'[n].call = call /\ log'[n].outcome = o
  BY <1>0, AttemptLogs
<1>2. /\ executed' = IF o \in {"ok", "error"} THEN executed + 1 ELSE executed
      /\ cache' = IF o = "ok" THEN cache \cup {call} ELSE cache
      /\ successes' = IF o \in {"ok", "cached"} THEN successes \cup {call} ELSE successes
  BY <1>1 DEF Attempt
<1>3. /\ o \in {"ok", "error"} => call \notin cache /\ executed < MaxTotalToolCalls
      /\ o = "ok" => Accepts(call, ledger)
      /\ o = "cached" => call \in cache
  BY <1>1, OutcomeCases DEF TypeOK
<1> USE DEF TypeOK
<1>4. /\ log' \in Seq(LogEntry)' /\ cache' \in SUBSET AllCalls' /\ successes' \in SUBSET AllCalls'
  BY <1>1, <1>2, RequiredStays
<1>5. executed' \in Nat /\ executed' <= MaxTotalToolCalls
  BY <1>2, <1>3, AgentAssumption DEF Kept
<1>6. executed' = Cardinality(Executions')
  <2>1. IsFiniteSet(Executions) /\ executed = Cardinality(Executions)
    BY ExecutionsFinite DEF Kept, LogEntry
  <2>2. PICK m \in Nat :
             /\ m \notin Executions
             /\ o \in {"ok", "error"} => Executions' = Executions \cup {m}
             /\ o \notin {"ok", "error"} => Executions' = Executions
    BY <1>0, <1>1, AttemptRuns
  <2>3. Cardinality(Executions \cup {m}) = Cardinality(Executions) + 1
    BY <2>1, <2>2, FS_AddElement
  <2> QED BY <1>2, <2>1, <2>2, <2>3
<1>7. \A k \in DOMAIN log' : log'[k].outcome = "ok" => log'[k].call \in cache'
  BY <1>1, <1>2 DEF Kept
<1>8. cache' \subseteq successes' /\ \A c \in cache' : Accepts(c, ledger')
  BY <1>2, <1>3 DEF Kept
<1>9. ASSUME NEW c \in successes'
      PROVE  /\ Accepts(c, ledger')
             /\ \E k \in DOMAIN log' : log'[k].outcome \in {"ok", "cached"} /\ log'[k].call = c
  <2>1. CASE c \in successes
    <3>1. /\ Accepts(c, ledger)
          /\ \E k \in DOMAIN log : log[k].outcome \in {"ok", "cached"} /\ log[k].call = c
      BY <2>1 DEF Kept
    <3>2. ledger' = ledger /\ \A k \in DOMAIN log : k \in DOMAIN log' /\ log'[k] = log[k]
      BY <1>1
    <3> QED BY <3>1, <3>2
  <2>2. CASE c \notin successes
    <3>1. c = call /\ o \in {"ok", "cached"}
      BY <1>2, <2>2
    <3>2. Accepts(call, ledger)
      BY <1>3, <3>1 DEF Kept
    <3> QED BY <1>1, <3>1, <3>2
  <2> QED BY <2>1, <2>2
<1>10. Kept'
  BY <1>5, <1>6, <1>7, <1>8, <1>9 DEF Kept
<1>11. AnsweredOnce'
  <2> SUFFICES ASSUME NEW j \in DOMAIN log', NEW k \in DOMAIN log', j < k,
                      log'[j].outcome = "ok", log'[k].call = log'[j].call
               PROVE  ~Ran(k)'
    BY DEF AnsweredOnce
  <2>1. CASE k \in DOMAIN log
    <3>1. j \in DOMAIN log
      BY <1>1, <2>1
    <3> QED BY <1>1, <2>1, <3>1 DEF AnsweredOnce, Ran
  <2>2. CASE k = n
    <3>1. j \in DOMAIN log
      BY <1>1, <2>2
    <3>2. call \in cache
      BY <1>1, <2>2, <3>1 DEF Kept
    <3> QED BY <1>1, <1>3, <2>2, <3>2 DEF Ran
  <2> QED BY <1>1, <2>1, <2>2
<1> QED BY <1>4, <1>5, <1>10, <1>11

-----------------------------------------------------------------------------
(***************************************************************************)
(* The steps                                                               *)
(***************************************************************************)

LEMMA InitIInv == Init => IInv
<1> SUFFICES ASSUME Init PROVE IInv
  OBVIOUS
<1>1. [ledger |-> ledger, failed |-> failed] \in Cases
  BY CasesAssumption DEF Init
<1>2. TypeOK
  BY <1>1, AgentAssumption DEF Init, TypeOK
<1>3. Executions = {} /\ \A r : RunsIn(r) = {}
  BY DEF Init, Executions, RunsIn
<1>4. Kept /\ AnsweredOnce
  BY <1>3, FS_EmptySet, AgentAssumption DEF Init, Kept, AnsweredOnce
<1>5. RoundBudget
  <2>1. \A r : Cardinality(RunsIn(r)) = 0
    BY <1>3, FS_EmptySet
  <2>2. pc = "rounds" /\ MaxCallsPerRound \in Nat
    BY AgentAssumption DEF Init
  <2> QED BY <1>3, <2>1, <2>2 DEF RoundBudget
<1>6. Progress /\ Covered /\ DraftsComplete /\ GivesUpOnlyAtCeiling
  BY AgentAssumption DEF Init, Progress, Covered, DraftsComplete, GivesUpOnlyAtCeiling
<1> QED BY <1>2, <1>4, <1>5, <1>6 DEF IInv

\* What a step that makes no attempt keeps.
LEMMA NoAttempt ==
    ASSUME Kept, AnsweredOnce,
           UNCHANGED <<ledger, failed, executed, cache, successes, log>>
    PROVE  /\ Kept' /\ AnsweredOnce'
           /\ \A r : RunsIn(r)' = RunsIn(r)
           /\ Missing' = Missing
           /\ Required' = Required /\ AllCalls' = AllCalls
BY DEF Kept, AnsweredOnce, RunsIn, Executions, Ran, Missing, Satisfied, Required, AllCalls

LEMMA RoundLostIInv == IInv /\ (StepFails \/ FinalRejected) => IInv'
<1> SUFFICES ASSUME IInv, StepFails \/ FinalRejected PROVE IInv'
  OBVIOUS
<1>1. /\ UNCHANGED <<ledger, failed, pc, index, req, executed, cache, successes, log, result>>
      /\ pc = "rounds" /\ round < MaxRounds
      /\ steps' = steps + 1 /\ round' = round + 1
  BY DEF StepFails, FinalRejected, InRound
<1>2. Kept' /\ AnsweredOnce' /\ (\A r : RunsIn(r)' = RunsIn(r)) /\ AllCalls' = AllCalls
  BY <1>1, NoAttempt DEF IInv
<1>3. round \in Nat /\ steps = round /\ round' \in 0..MaxRounds /\ steps' \in Nat
  BY <1>1, AgentAssumption DEF IInv, TypeOK, Progress
<1>4. TypeOK'
  BY <1>1, <1>2, <1>3 DEF IInv, TypeOK
<1>5. Progress'
  BY <1>1, <1>3, AgentAssumption DEF IInv, Progress
<1>6. RoundBudget'
  BY <1>1, <1>2, <1>3 DEF IInv, RoundBudget
<1>7. Covered' /\ DraftsComplete' /\ GivesUpOnlyAtCeiling'
  BY <1>1 DEF IInv, Covered, DraftsComplete, GivesUpOnlyAtCeiling
<1> QED BY <1>2, <1>4, <1>5, <1>6, <1>7 DEF IInv

LEMMA FinalAcceptedIInv == IInv /\ FinalAccepted => IInv'
<1> SUFFICES ASSUME IInv, FinalAccepted PROVE IInv'
  OBVIOUS
<1> USE DEF FinalAccepted, InRound
<1>1. /\ Kept' /\ AnsweredOnce' /\ (\A r : RunsIn(r)' = RunsIn(r))
      /\ AllCalls' = AllCalls /\ Missing' = Missing
  BY NoAttempt DEF IInv
<1>2. steps' \in Nat /\ steps' <= MaxRounds + 1
  BY AgentAssumption DEF IInv, TypeOK, Progress
<1>3. TypeOK' /\ Progress'
  BY <1>1, <1>2 DEF IInv, TypeOK, Progress
<1>4. RoundBudget' /\ Covered' /\ DraftsComplete' /\ GivesUpOnlyAtCeiling'
  BY <1>1 DEF IInv, RoundBudget, Covered, DraftsComplete, GivesUpOnlyAtCeiling
<1> QED BY <1>1, <1>3, <1>4 DEF IInv

LEMMA ToolStepIInv == IInv /\ ToolStep => IInv'
<1> SUFFICES ASSUME IInv, ToolStep PROVE IInv'
  OBVIOUS
<1> USE DEF ToolStep, InRound
<1>1. /\ Kept' /\ AnsweredOnce' /\ (\A r : RunsIn(r)' = RunsIn(r))
      /\ AllCalls' = AllCalls /\ Missing' = Missing
  BY NoAttempt DEF IInv
<1>2. steps' = round + 1 /\ round \in Nat /\ steps' <= MaxRounds + 1 /\ round \in 0..MaxRounds
  BY AgentAssumption DEF IInv, TypeOK, Progress
<1>3. TypeOK' /\ Progress'
  BY <1>1, <1>2 DEF IInv, TypeOK, Progress
<1>4. RoundBudget'
  <2>1. RunsIn(round) = {} /\ Cardinality(RunsIn(round)) = 0
    BY <1>2, FS_EmptySet DEF IInv, RoundBudget
  <2>2. Cardinality(RunsIn(round))' <= index'
    BY <1>1, <2>1
  <2> QED BY <1>1, <1>2, <2>2 DEF IInv, RoundBudget
<1>5. Covered' /\ DraftsComplete' /\ GivesUpOnlyAtCeiling'
  BY <1>1 DEF IInv, Covered, DraftsComplete, GivesUpOnlyAtCeiling
<1> QED BY <1>1, <1>3, <1>4, <1>5 DEF IInv

LEMMA StepDoneIInv == IInv /\ StepDone => IInv'
<1> SUFFICES ASSUME IInv, StepDone PROVE IInv'
  OBVIOUS
<1> USE DEF StepDone
<1>1. /\ Kept' /\ AnsweredOnce' /\ (\A r : RunsIn(r)' = RunsIn(r))
      /\ AllCalls' = AllCalls /\ Missing' = Missing
  BY NoAttempt DEF IInv
<1>2. round \in Nat /\ round' = round + 1 /\ round' \in 0..MaxRounds
  BY AgentAssumption DEF IInv, TypeOK, Progress
<1>3. TypeOK' /\ Progress'
  BY <1>1, <1>2 DEF IInv, TypeOK, Progress
<1>4. RoundBudget'
  BY <1>1, <1>2 DEF IInv, RoundBudget
<1>5. Covered' /\ DraftsComplete' /\ GivesUpOnlyAtCeiling'
  BY <1>1 DEF IInv, Covered, DraftsComplete, GivesUpOnlyAtCeiling, Progress
<1> QED BY <1>1, <1>3, <1>4, <1>5 DEF IInv

LEMMA RoundsExhaustedIInv == IInv /\ RoundsExhausted => IInv'
<1> SUFFICES ASSUME IInv, RoundsExhausted PROVE IInv'
  OBVIOUS
<1> USE DEF RoundsExhausted
<1>1. /\ Kept' /\ AnsweredOnce' /\ (\A r : RunsIn(r)' = RunsIn(r))
      /\ AllCalls' = AllCalls /\ Missing' = Missing
  BY NoAttempt DEF IInv
<1>2. steps = MaxRounds /\ req = 1
  BY AgentAssumption DEF IInv, TypeOK, Progress
<1>3. TypeOK' /\ Progress'
  BY <1>1, <1>2, AgentAssumption DEF IInv, TypeOK, Progress
<1>4. RoundBudget'
  BY <1>1 DEF IInv, RoundBudget
<1>5. Covered'
  <2>1. DOMAIN Required = 1..Len(Required) /\ Len(Required) \in Nat /\ Required' = Required
    BY RequiredCalls, NoAttempt DEF IInv, TypeOK
  <2> QED BY <1>2, <2>1 DEF Covered
<1>6. DraftsComplete' /\ GivesUpOnlyAtCeiling'
  BY <1>1 DEF IInv, DraftsComplete, GivesUpOnlyAtCeiling
<1> QED BY <1>1, <1>3, <1>4, <1>5, <1>6 DEF IInv

\* A call is charged to the round it is made in, and only while the round's
\* own budget lasts.
LEMMA ToolCallIInv == IInv /\ ToolCall => IInv'
<1> SUFFICES ASSUME IInv, ToolCall PROVE IInv'
  OBVIOUS
<1>1. PICK call \in Calls : Attempt(call, round, index, index >= MaxCallsPerRound)
  BY DEF ToolCall
<1>2. /\ pc = "calls" /\ index' = index + 1
      /\ UNCHANGED <<ledger, failed, pc, round, req, steps, result>>
  BY DEF ToolCall
<1>3. PICK over \in BOOLEAN : over = (index >= MaxCallsPerRound)
  <2> WITNESS (index >= MaxCallsPerRound) \in BOOLEAN
  <2> QED OBVIOUS
<1>4. PICK q \in 0..MaxRounds : q = round
  BY DEF IInv, TypeOK
<1>5. PICK i \in Nat : i = index
  BY DEF IInv, TypeOK
<1>6. Attempt(call, q, i, over)
  BY <1>1, <1>3, <1>4, <1>5
<1>7. /\ log \in Seq(LogEntry) /\ executed \in Nat /\ call \in AllCalls
      /\ q \in {-1} \cup 0..MaxRounds
  BY DEF IInv, TypeOK, LogEntry, AllCalls
<1>8. /\ log' \in Seq(LogEntry)' /\ executed' \in Nat
      /\ cache' \in SUBSET AllCalls' /\ successes' \in SUBSET AllCalls'
      /\ Kept' /\ AnsweredOnce'
  BY <1>2, <1>6, <1>7, AttemptKept DEF IInv
<1>9. TypeOK'
  BY <1>2, <1>8 DEF IInv, TypeOK, LogEntry
<1>10. Progress' /\ Covered' /\ DraftsComplete' /\ GivesUpOnlyAtCeiling'
  BY <1>2 DEF IInv, Progress, Covered, DraftsComplete, GivesUpOnlyAtCeiling
<1>11. RoundBudget'
  <2>1. PICK n \in Nat :
             /\ Outcome(call, over) \in {"ok", "error"} => RunsIn(q)' = RunsIn(q) \cup {n}
             /\ Outcome(call, over) \notin {"ok", "error"} => RunsIn(q)' = RunsIn(q)
             /\ \A p : p # q => RunsIn(p)' = RunsIn(p)
    BY <1>6, <1>7, AttemptRuns
  <2>2. IsFiniteSet(RunsIn(q)) /\ Cardinality(RunsIn(q)) \in Nat
    BY <1>7, ExecutionsFinite, FS_CardinalityType
  <2>3. Cardinality(RunsIn(q)) <= i /\ Cardinality(RunsIn(q)) <= MaxCallsPerRound
    BY <1>2, <1>4, <1>5 DEF IInv, RoundBudget
  <2>4. Cardinality(RunsIn(q)') <= i + 1 /\ Cardinality(RunsIn(q)') <= MaxCallsPerRound
    <3>1. CASE Outcome(call, over) \in {"ok", "error"}
      <4>1. ~over
        BY <1>7, <3>1, OutcomeCases
      <4>2. i < MaxCallsPerRound
        <5>1. ~(index >= MaxCallsPerRound)
          BY <1>3, <4>1, Zenon
        <5> QED BY <1>5, <5>1, AgentAssumption
      <4>3. Cardinality(RunsIn(q) \cup {n}) <= Cardinality(RunsIn(q)) + 1
        BY <2>2, FS_AddElement
      <4>4. Cardinality(RunsIn(q)') <= Cardinality(RunsIn(q)) + 1
        BY <2>1, <3>1, <4>3
      <4>5. Cardinality(RunsIn(q)') \in Nat
        BY <2>1, <2>2, <3>1, FS_AddElement, FS_CardinalityType
      <4> QED BY <2>2, <2>3, <4>2, <4>4, <4>5, AgentAssumption
    <3>2. CASE Outcome(call, over) \notin {"ok", "error"}
      BY <2>1, <2>2, <2>3, <3>2
    <3> QED BY <3>1, <3>2
  <2>5. \A p \in 0..MaxRounds : Cardinality(RunsIn(p)') <= MaxCallsPerRound
    BY <2>1, <2>4 DEF IInv, RoundBudget
  <2>6. \A p \in 0..MaxRounds : p > q => RunsIn(p)' = {}
    BY <1>2, <1>4, <2>1 DEF IInv, RoundBudget
  <2>7. Cardinality(RunsIn(round))' <= index'
    <3>1. RunsIn(round)' = RunsIn(q)'
      BY <1>2, <1>4
    <3> QED BY <1>2, <1>5, <2>4, <3>1
  <2> QED BY <1>2, <1>4, <2>5, <2>6, <2>7 DEF RoundBudget
<1> QED BY <1>8, <1>9, <1>10, <1>11 DEF IInv

\* What is satisfied stays so as successes grow.
LEMMA SatisfiedStays ==
    ASSUME NEW r, NEW S, NEW T, S \subseteq T, Satisfied(r, S)
    PROVE  Satisfied(r, T)
BY DEF Satisfied

LEMMA SkipCoveredIInv == IInv /\ SkipCovered => IInv'
<1> SUFFICES ASSUME IInv, SkipCovered PROVE IInv'
  OBVIOUS
<1> USE DEF SkipCovered
<1>1. /\ Kept' /\ AnsweredOnce' /\ (\A r : RunsIn(r)' = RunsIn(r))
      /\ AllCalls' = AllCalls /\ Missing' = Missing /\ Required' = Required
  BY NoAttempt DEF IInv
<1>2. TypeOK' /\ Progress'
  BY <1>1 DEF IInv, TypeOK, Progress
<1>3. RoundBudget' /\ DraftsComplete' /\ GivesUpOnlyAtCeiling'
  BY <1>1 DEF IInv, RoundBudget, DraftsComplete, GivesUpOnlyAtCeiling
<1>4. Covered'
  <2>1. DOMAIN Required = 1..Len(Required) /\ Len(Required) \in Nat /\ req \in Nat
    BY RequiredCalls DEF IInv, TypeOK
  <2>2. \A k \in DOMAIN Required : k < req + 1 => k < req \/ k = req
    BY <2>1
  <2>3. \A k \in DOMAIN Required :
          k < req' => Satisfied(Required[k], successes) \/ executed = MaxTotalToolCalls
    BY <2>2 DEF IInv, Covered
  <2> QED BY <1>1, <2>3 DEF Covered
<1> QED BY <1>1, <1>2, <1>3, <1>4 DEF IInv

\* The ceiling is met exactly, and the positions up to the next are the earlier
\* ones and the present one.
LEMMA AtCeiling ==
    ASSUME IInv, executed >= MaxTotalToolCalls
    PROVE  executed = MaxTotalToolCalls
BY AgentAssumption DEF IInv, TypeOK, Kept

LEMMA NextPosition ==
    ASSUME NEW n \in Nat, NEW m \in Nat
    PROVE  \A k \in 1..n : k < m + 1 => k < m \/ k = m
OBVIOUS

LEMMA CeilingStays ==
    ASSUME NEW n \in Nat, NEW m \in {n, n + 1}, m <= MaxTotalToolCalls
    PROVE  n = MaxTotalToolCalls => m = MaxTotalToolCalls
BY AgentAssumption

\* A forced call of a requirement meets it, unless the ceiling is reached.
LEMMA ForcedIsMet ==
    ASSUME IInv, NEW call, call.tool # "", Accepts(call, ledger),
           Attempt(call, -1, index, FALSE)
    PROVE  call \in successes' \/ executed = MaxTotalToolCalls
<1>1. \/ Outcome(call, FALSE) \in {"ok", "cached"}
      \/ executed >= MaxTotalToolCalls
  BY OutcomeCases DEF IInv, TypeOK
<1>2. CASE Outcome(call, FALSE) \in {"ok", "cached"}
  BY <1>2 DEF Attempt
<1>3. CASE executed >= MaxTotalToolCalls
  BY <1>3, AtCeiling
<1> QED BY <1>1, <1>2, <1>3

LEMMA ForceCallIInv == IInv /\ ForceCall => IInv'
<1> SUFFICES ASSUME IInv, ForceCall PROVE IInv'
  OBVIOUS
<1>1. /\ pc = "coverage" /\ req \in DOMAIN Required
      /\ Attempt(Required[req], -1, index, FALSE)
      /\ index' = index + 1 /\ req' = req + 1
      /\ UNCHANGED <<ledger, failed, pc, round, steps, result>>
  BY DEF ForceCall
<1>2. PICK call : call = Required[req]
  OBVIOUS
<1>3. PICK i \in Nat : i = index
  BY DEF IInv, TypeOK
<1>4. Attempt(call, -1, i, FALSE) /\ Attempt(call, -1, index, FALSE)
  BY <1>1, <1>2, <1>3
<1>5. /\ log \in Seq(LogEntry) /\ executed \in Nat
      /\ DOMAIN Required = 1..Len(Required) /\ Len(Required) \in Nat /\ req \in Nat
      /\ call.tool # "" /\ call.form = "exact" /\ Accepts(call, ledger)
  BY <1>1, <1>2, RequiredCalls DEF IInv, TypeOK, LogEntry
<1>6. call \in AllCalls /\ -1 \in {-1} \cup 0..MaxRounds /\ FALSE \in BOOLEAN
  BY <1>1, <1>2 DEF AllCalls
<1>7. /\ log' \in Seq(LogEntry)' /\ executed' \in Nat
      /\ cache' \in SUBSET AllCalls' /\ successes' \in SUBSET AllCalls'
      /\ Kept' /\ AnsweredOnce'
  BY <1>1, <1>4, <1>6, AttemptKept DEF IInv
<1>8. TypeOK'
  BY <1>1, <1>7 DEF IInv, TypeOK, LogEntry
<1>9. Progress' /\ DraftsComplete' /\ GivesUpOnlyAtCeiling'
  BY <1>1 DEF IInv, Progress, DraftsComplete, GivesUpOnlyAtCeiling
<1>10. RoundBudget'
  <2>1. \A p : p # -1 => RunsIn(p)' = RunsIn(p)
    BY <1>4, <1>5, <1>6, AttemptRuns
  <2>2. \A p \in 0..MaxRounds : p # -1
    OBVIOUS
  <2> QED BY <1>1, <2>1, <2>2 DEF IInv, RoundBudget
<1>11. executed \in Nat
  BY <1>5
<1>12. executed' <= MaxTotalToolCalls
  BY <1>7 DEF Kept
<1>13. DOMAIN Required = 1..Len(Required) /\ Len(Required) \in Nat /\ req \in Nat
  BY <1>5
<1>14. Covered'
  <2>1. successes \subseteq successes' /\ executed' \in {executed, executed + 1}
    BY <1>4 DEF Attempt
  <2>2. executed = MaxTotalToolCalls => executed' = MaxTotalToolCalls
    BY <2>1, <1>11, <1>12, CeilingStays
  <2>3. Satisfied(call, successes') \/ executed = MaxTotalToolCalls
    <3>1. call \in successes' \/ executed = MaxTotalToolCalls
      BY <1>4, <1>5, ForcedIsMet
    <3> QED BY <3>1 DEF Satisfied
  <2>4. \A k \in DOMAIN Required : k < req + 1 => k < req \/ k = req
    BY <1>13, NextPosition
  <2>5. \A k \in DOMAIN Required :
          k < req' => Satisfied(Required[k], successes') \/ executed' = MaxTotalToolCalls
    <3> SUFFICES ASSUME NEW k \in DOMAIN Required, k < req'
                 PROVE  Satisfied(Required[k], successes') \/ executed' = MaxTotalToolCalls
      OBVIOUS
    <3>1. CASE k < req
      BY <1>1, <2>1, <2>2, <3>1, SatisfiedStays DEF IInv, Covered
    <3>2. CASE k = req
      BY <1>2, <2>2, <2>3, <3>2
    <3> QED BY <1>1, <2>4, <3>1, <3>2
  <2>6. Required' = Required
    BY <1>1, RequiredStays
  <2> QED BY <2>5, <2>6 DEF Covered
<1> QED BY <1>7, <1>8, <1>9, <1>10, <1>14 DEF IInv

LEMMA CoverageEndsIInv == IInv /\ (CoverageFails \/ DemandFinal) => IInv'
<1> SUFFICES ASSUME IInv, CoverageFails \/ DemandFinal PROVE IInv'
  OBVIOUS
<1>1. /\ pc = "coverage" /\ pc' = "returned" /\ req \notin DOMAIN Required
      /\ UNCHANGED <<ledger, failed, round, index, req, executed, cache, successes, log>>
      /\ steps' \in {steps, steps + 1}
      /\ \/ Missing # {} /\ result' = "none"
         \/ Missing = {} /\ result' \in {"draft", "none"}
  BY DEF CoverageFails, DemandFinal
<1>2. /\ Kept' /\ AnsweredOnce' /\ (\A r : RunsIn(r)' = RunsIn(r))
      /\ AllCalls' = AllCalls /\ Missing' = Missing
  BY <1>1, NoAttempt DEF IInv
<1>3. steps' \in Nat /\ steps' <= MaxRounds + 1
  BY <1>1, AgentAssumption DEF IInv, TypeOK, Progress
<1>4. TypeOK' /\ Progress'
  BY <1>1, <1>2, <1>3 DEF IInv, TypeOK, Progress
<1>5. RoundBudget' /\ Covered' /\ DraftsComplete'
  BY <1>1, <1>2 DEF IInv, RoundBudget, Covered, DraftsComplete
<1>6. GivesUpOnlyAtCeiling'
  <2>1. DOMAIN Required = 1..Len(Required) /\ Len(Required) \in Nat /\ req \in Nat \ {0}
    BY RequiredCalls DEF IInv, TypeOK
  <2>2. \A k \in DOMAIN Required : k < req
    BY <1>1, <2>1
  <2>3. Missing # {} => executed = MaxTotalToolCalls
    BY <1>1, <2>2 DEF IInv, Covered, Missing
  <2> QED BY <1>1, <1>2, <2>3 DEF GivesUpOnlyAtCeiling
<1> QED BY <1>2, <1>4, <1>5, <1>6 DEF IInv

LEMMA StutterIInv == IInv /\ UNCHANGED vars => IInv'
<1> SUFFICES ASSUME IInv, UNCHANGED vars PROVE IInv'
  OBVIOUS
<1> USE DEF vars
<1>1. /\ Kept' /\ AnsweredOnce' /\ (\A r : RunsIn(r)' = RunsIn(r))
      /\ AllCalls' = AllCalls /\ Missing' = Missing /\ Required' = Required
  BY NoAttempt DEF IInv
<1>2. TypeOK' /\ Progress' /\ Covered'
  BY <1>1 DEF IInv, TypeOK, Progress, Covered
<1>3. RoundBudget' /\ DraftsComplete' /\ GivesUpOnlyAtCeiling'
  BY <1>1 DEF IInv, RoundBudget, DraftsComplete, GivesUpOnlyAtCeiling
<1> QED BY <1>1, <1>2, <1>3 DEF IInv

\* The inductive invariant holds in every reachable state.
THEOREM Inductive == Spec => []IInv
<1>1. IInv /\ [Next]_vars => IInv'
  BY RoundLostIInv, FinalAcceptedIInv, ToolStepIInv, ToolCallIInv, StepDoneIInv,
     RoundsExhaustedIInv, SkipCoveredIInv, ForceCallIInv, CoverageEndsIInv,
     StutterIInv DEF Next
<1> QED BY InitIInv, <1>1, PTL DEF Spec

\* Every variable keeps its type.
THEOREM RecoveryTypeCorrect == Spec => []TypeOK
<1>1. IInv => TypeOK
  BY DEF IInv
<1> QED BY Inductive, <1>1, PTL

\* Whatever the model asks for, model calls and executions stay within their
\* budgets, in every round and in total (agentic.py:17-24).
THEOREM RecoveryIsBounded == Spec => []BudgetsHold
<1>1. IInv => BudgetsHold
  BY DEF IInv, BudgetsHold, Progress, Kept, RoundBudget, RunsIn
<1> QED BY Inductive, <1>1, PTL

\* An answered call is never run again (agentic.py:26-28).
THEOREM NoCallRunsTwice == Spec => []AnsweredOnce
<1>1. IInv => AnsweredOnce
  BY DEF IInv
<1> QED BY Inductive, <1>1, PTL

\* Evidence is given up on only at the execution ceiling (agentic.py:559-585).
THEOREM EvidenceIsPursued == Spec => []GivesUpOnlyAtCeiling
<1>1. IInv => GivesUpOnlyAtCeiling
  BY DEF IInv
<1> QED BY Inductive, <1>1, PTL

-----------------------------------------------------------------------------
(***************************************************************************)
(* The budget covers the requirements                                      *)
(***************************************************************************)
Useful == Executions \ Wasted

\* A useful execution answered a requirement.
LEMMA UsefulAnswers ==
    ASSUME NEW k \in Useful
    PROVE  /\ k \in DOMAIN log /\ Ran(k) /\ log[k].outcome = "ok"
           /\ \E j \in DOMAIN Required : log[k].call = Required[j]
BY DEF Useful, Wasted, Executions, Ran

\* Two useful executions answered different requirements, and none of them the
\* missing one m, so there are fewer than there are requirements.
LEMMA UsefulAreFew ==
    ASSUME IInv, NEW m \in Missing
    PROVE  Cardinality(Useful) < Len(Required)
<1> DEFINE Answered(k) == CHOOSE j \in DOMAIN Required : log[k].call = Required[j]
           T == DOMAIN Required \ {m}
           f == [k \in Useful |-> Answered(k)]
<1>1. \A k \in Useful : /\ Answered(k) \in DOMAIN Required
                         /\ log[k].call = Required[Answered(k)]
  BY UsefulAnswers
<1>2. \A k \in Useful : Answered(k) # m
  <2> SUFFICES ASSUME NEW k \in Useful, Answered(k) = m PROVE FALSE
    OBVIOUS
  <2>1. log[k].call \in successes
    BY UsefulAnswers DEF IInv, Kept
  <2>2. Required[m] \in successes
    BY <1>1, <2>1
  <2> QED BY <2>2 DEF Missing, Satisfied
<1>3. f \in [Useful -> T]
  BY <1>1, <1>2
<1>4. \A j, k \in Useful : f[j] = f[k] => j = k
  <2> SUFFICES ASSUME NEW j \in Useful, NEW k \in Useful, f[j] = f[k], j # k
               PROVE  FALSE
    OBVIOUS
  <2>1. log[j].call = log[k].call
    BY <1>1
  <2>2. /\ j \in DOMAIN log /\ k \in DOMAIN log /\ Ran(j) /\ Ran(k)
        /\ log[j].outcome = "ok" /\ log[k].outcome = "ok"
    BY UsefulAnswers
  <2>3. j < k \/ k < j
    <3>1. j \in Nat /\ k \in Nat
      BY <2>2 DEF IInv, TypeOK
    <3> QED BY <3>1
  <2> QED BY <2>1, <2>2, <2>3 DEF IInv, AnsweredOnce
<1>5. f \in Injection(Useful, T)
  BY <1>3, <1>4 DEF Injection, IsInjective
<1>6. /\ DOMAIN Required = 1..Len(Required) /\ Len(Required) \in Nat
      /\ m \in DOMAIN Required
  BY RequiredCalls DEF IInv, TypeOK, Missing
<1>7. IsFiniteSet(DOMAIN Required) /\ Cardinality(DOMAIN Required) = Len(Required)
  <2>1. PICK n \in Nat : n = Len(Required)
    BY <1>6
  <2>2. IsFiniteSet(1..n) /\ Cardinality(1..n) = n
    BY FS_Interval
  <2> QED BY <1>6, <2>1, <2>2
<1>8. IsFiniteSet(T) /\ Cardinality(T) = Len(Required) - 1
  <2>1. PICK S : S = DOMAIN Required
    OBVIOUS
  <2>2. IsFiniteSet(S) /\ m \in S /\ Cardinality(S) = Len(Required)
    BY <1>6, <1>7, <2>1
  <2>3. IsFiniteSet(S \ {m}) /\ Cardinality(S \ {m}) = Len(Required) - 1
    BY <2>2, FS_RemoveElement
  <2> QED BY <2>1, <2>3
<1>9. IsFiniteSet(Useful) /\ Cardinality(Useful) <= Cardinality(T)
  BY <1>5, <1>8, FS_Injection
<1> HIDE DEF T, f
<1> QED BY <1>6, <1>8, <1>9, FS_CardinalityType

\* Only what the model wastes can starve the required evidence: every other
\* execution answered a requirement of its own (agentic.py:17-28).
THEOREM EvidenceFitsBudget == Spec => []CoverageFitsBudget
<1>1. IInv => CoverageFitsBudget
  <2> SUFFICES ASSUME IInv, pc = "returned", NEW m \in Missing
               PROVE  Cardinality(Wasted) + Len(Required) > MaxTotalToolCalls
    BY DEF CoverageFitsBudget
  <2>1. MaxTotalToolCalls = Cardinality(Executions)
    BY DEF IInv, GivesUpOnlyAtCeiling, Kept
  <2>2. IsFiniteSet(Executions)
    BY ExecutionsFinite DEF IInv, TypeOK, LogEntry
  <2>3. Executions \cap Wasted = Wasted
    BY DEF Wasted
  <2>4. IsFiniteSet(Wasted) /\ IsFiniteSet(Useful)
    BY <2>2, FS_Subset DEF Wasted, Useful
  <2>5. Cardinality(Useful) = Cardinality(Executions) - Cardinality(Wasted)
    BY <2>2, <2>3, FS_Difference DEF Useful
  <2>6. /\ Cardinality(Useful) \in Nat /\ Cardinality(Wasted) \in Nat
        /\ Cardinality(Executions) \in Nat /\ Len(Required) \in Nat
    BY <2>2, <2>4, FS_CardinalityType, RequiredCalls DEF IInv, TypeOK
  <2>7. Cardinality(Useful) < Len(Required)
    BY UsefulAreFew
  <2> QED BY <2>1, <2>5, <2>6, <2>7
<1> QED BY Inductive, <1>1, PTL

-----------------------------------------------------------------------------
(***************************************************************************)
(* What the answers tell                                                   *)
(***************************************************************************)

LEMMA CaseIsSound ==
    ASSUME IInv
    PROVE  /\ SoundLedger(ledger)
           /\ NoDoc \notin DocumentIds(ledger)
           /\ \A k \in DOMAIN failed : failed[k] \in DocumentIds(ledger)
<1>1. [ledger |-> ledger, failed |-> failed] \in Cases
  BY DEF IInv, TypeOK
<1>2. /\ LedgerRecord(ledger) /\ WellFormed(ledger) /\ NoDoc \notin DocumentIds(ledger)
      /\ failed \in Seq(DocumentIds(ledger))
  <2>1. PICK c \in Cases : c.ledger = ledger /\ c.failed = failed
    BY <1>1
  <2> QED BY <2>1, CasesAssumption
<1> QED BY <1>2 DEF SoundLedger

\* The answer to a successful call is in the transcript.
LEMMA SuccessIsKnown ==
    ASSUME IInv, NEW c \in successes
    PROVE  ToolData(c, ledger) \subseteq Known /\ Accepts(c, ledger)
<1>1. PICK k \in DOMAIN log : log[k].outcome \in {"ok", "cached"} /\ log[k].call = c
  BY DEF IInv, Kept
<1>2. ToolData(c, ledger) \subseteq Known
  BY <1>1 DEF Known
<1> QED BY <1>2 DEF IInv, Kept

\* Once nothing is missing, what the account itself requires was answered.
LEMMA AccountAnswered ==
    ASSUME IInv, Missing = {}, NEW t,
           \E k \in DOMAIN Required : Required[k] = Call(t, NoDoc)
    PROVE  \E s \in successes : s.tool = t
<1>1. PICK k \in DOMAIN Required : Required[k] = Call(t, NoDoc)
  OBVIOUS
<1>2. Satisfied(Required[k], successes)
  BY DEF Missing
<1> QED BY <1>1, <1>2, CallFields DEF Satisfied

(***************************************************************************)
(* A returned draft was written with every figure a complete reply needs:  *)
(* no unapplied amount is left out because the totals cancel, since none   *)
(* is negative (agentic.py:160-231, 509-600).                              *)
(***************************************************************************)
LEMMA Informed == IInv => DraftsAreInformed
<1> SUFFICES ASSUME IInv, result = "draft" PROVE DraftsAreInformed
  BY DEF DraftsAreInformed
<1>1. Missing = {}
  BY DEF IInv, DraftsComplete
<1>2. /\ \E k \in DOMAIN Required : Required[k] = Call("get_account_summary", NoDoc)
      /\ \E k \in DOMAIN Required : Required[k] = Call("list_open_invoices", NoDoc)
      /\ UnappliedCashTotal(ledger) # 0 \/ UnappliedCreditTotal(ledger) # 0 =>
           \E k \in DOMAIN Required : Required[k] = Call("list_unapplied_sources", NoDoc)
      /\ \A k \in DOMAIN failed : \E j \in DOMAIN Required :
           /\ Required[j].tool \in {"get_invoice", "get_source"}
           /\ Required[j].doc = failed[k]
  BY RequiredCalls DEF IInv, TypeOK
<1>3. <<NoDoc, "net", NetBalance(ledger)>> \in Known
  <2>1. PICK s \in successes : s.tool = "get_account_summary"
    BY <1>1, <1>2, AccountAnswered
  <2>2. <<NoDoc, "net", NetBalance(ledger)>> \in ToolData(s, ledger)
    BY <2>1 DEF ToolData
  <2> QED BY <2>2, SuccessIsKnown
<1>4. ASSUME NEW i \in OpenInvoices(ledger)
      PROVE  <<i, "open", OpenAmount(ledger, i)>> \in Known
  <2>1. PICK s \in successes : s.tool = "list_open_invoices"
    BY <1>1, <1>2, AccountAnswered
  <2>2. <<i, "open", OpenAmount(ledger, i)>> \in InvoiceRow(ledger, i)
    BY DEF InvoiceRow
  <2>3. ToolData(s, ledger) = UNION {InvoiceRow(ledger, j) : j \in OpenInvoices(ledger)}
    BY <2>1 DEF ToolData
  <2> QED BY <2>2, <2>3, SuccessIsKnown
<1>5. ASSUME NEW s \in SourceIds(ledger), UnappliedAmount(ledger, s) # 0
      PROVE  <<s, "unapplied", UnappliedAmount(ledger, s)>> \in Known
  <2>1. UnappliedCashTotal(ledger) # 0 \/ UnappliedCreditTotal(ledger) # 0
    BY <1>5, CaseIsSound, UnappliedShows
  <2>2. PICK c \in successes : c.tool = "list_unapplied_sources"
    BY <1>1, <1>2, <2>1, AccountAnswered
  <2>3. UnappliedAmount(ledger, s) > 0
    <3>1. UnappliedAmount(ledger, s) \in Nat
      BY CaseIsSound, FiguresAreCents
    <3> QED BY <1>5, <3>1
  <2>4. s \in UnappliedSources(ledger)
    BY <2>3 DEF UnappliedSources
  <2>5. <<s, "unapplied", UnappliedAmount(ledger, s)>> \in SourceRow(ledger, s)
    BY DEF SourceRow
  <2>6. ToolData(c, ledger) = UNION {SourceRow(ledger, x) : x \in UnappliedSources(ledger)}
    BY <2>2 DEF ToolData
  <2> QED BY <2>4, <2>5, <2>6, SuccessIsKnown
<1>6. ASSUME NEW k \in DOMAIN failed
      PROVE  \E f \in Known : f[1] = failed[k] /\ f[2] = "applied"
  <2>1. PICK j \in DOMAIN Required : /\ Required[j].tool \in {"get_invoice", "get_source"}
                                     /\ Required[j].doc = failed[k]
    BY <1>2
  <2>2. PICK c : c = Required[j]
    OBVIOUS
  <2>3. c \in successes
    <3>1. Satisfied(c, successes)
      BY <1>1, <2>2 DEF Missing
    <3>2. c.doc # NoDoc
      BY <2>1, <2>2, CaseIsSound
    <3> QED BY <3>1, <3>2 DEF Satisfied
  <2>4. CASE c.tool = "get_invoice"
    <3>1. <<failed[k], "applied", AppliedToInvoice(ledger, failed[k])>>
            \in InvoiceRow(ledger, failed[k])
      BY DEF InvoiceRow
    <3>2. ToolData(c, ledger) = InvoiceRow(ledger, failed[k])
      BY <2>1, <2>2, <2>4 DEF ToolData
    <3>3. <<failed[k], "applied", AppliedToInvoice(ledger, failed[k])>> \in Known
      BY <2>3, <3>1, <3>2, SuccessIsKnown
    <3> QED BY <3>3
  <2>5. CASE c.tool = "get_source"
    <3>1. <<failed[k], "applied", AppliedFromSource(ledger, failed[k])>>
            \in SourceRow(ledger, failed[k])
      BY DEF SourceRow
    <3>2. ToolData(c, ledger) = SourceRow(ledger, failed[k])
      BY <2>1, <2>2, <2>5 DEF ToolData
    <3>3. <<failed[k], "applied", AppliedFromSource(ledger, failed[k])>> \in Known
      BY <2>3, <3>1, <3>2, SuccessIsKnown
    <3> QED BY <3>3
  <2> QED BY <2>1, <2>2, <2>4, <2>5
<1> QED BY <1>3, <1>4, <1>5, <1>6 DEF DraftsAreInformed

\* Whatever the model chose to call, a returned draft was written with the net
\* balance, every open invoice, every unapplied source and every document that
\* failed in the transcript (agentic.py:160-231,559-600).
THEOREM RecoveryInforms == Spec => []DraftsAreInformed
BY Inductive, Informed, PTL

=============================================================================
