--------------------------- MODULE AgenticRecovery ---------------------------
(***************************************************************************)
(* One bounded agentic recovery (balancecheck/drafting/agentic.py) over    *)
(* the read-only account tools (drafting/tools.py).  The model chooses     *)
(* tool calls for a number of rounds; what the required evidence still     *)
(* lacks is then gathered by code; and only a draft written with that      *)
(* evidence in the transcript is returned.  The caller (Runner) verifies   *)
(* the draft like any other.                                               *)
(*                                                                         *)
(* A call is [tool, doc, form]: doc is the ID in its argument, NoDoc for   *)
(* the tools that take none; form tells an ID spelled as the ledger spells *)
(* it ("exact") from one the tools accept all the same ("loose", such as   *)
(* invoice 101 for INV-101).                                               *)
(***************************************************************************)
EXTENDS Ledger

CONSTANTS
    Cases,              \* [ledger, failed]: accounts, and the documents whose
                        \* claims failed, in reading order
    Calls,              \* the calls the model may make
    NoDoc,              \* no document
    MaxRounds,          \* agentic_max_rounds
    MaxCallsPerRound,   \* min(3, agentic_max_calls_per_round)
    MaxStepCalls,       \* the schema's ceiling on the calls of one step
    MaxTotalToolCalls   \* agentic_max_total_tool_calls

ASSUME AgentAssumption ==
    /\ MaxRounds \in Nat
    /\ MaxCallsPerRound \in Nat
    /\ MaxStepCalls \in Nat \ {0}
    /\ MaxTotalToolCalls \in Nat

\* A draft that names a document outside the account is escalated, not
\* redrafted: what failed are documents of the account.
ASSUME CasesAssumption ==
    \A c \in Cases :
        /\ c = [ledger |-> c.ledger, failed |-> c.failed]
        /\ c.failed \in Seq(DocumentIds(c.ledger))
        /\ LedgerRecord(c.ledger)
        /\ WellFormed(c.ledger)
        /\ NoDoc \notin DocumentIds(c.ledger)

VARIABLES
    ledger,     \* the scenario's records
    failed,     \* the documents whose claims failed
    pc,         \* where generate_agentic_revision stands
    round,      \* the round index
    index,      \* the next call index of the round, or of forced coverage
    req,        \* the next requirement forced coverage looks at
    executed,   \* executor invocations
    cache,      \* calls whose result is kept
    successes,  \* calls answered ok
    log,        \* the tool-call events
    steps,      \* model calls
    result      \* what is returned

vars == <<ledger, failed, pc, round, index, req, executed, cache, successes,
          log, steps, result>>

NoArgTools == {"get_account_summary", "list_open_invoices",
               "list_unapplied_sources", "get_application_history"}

Call(tool, doc) == [tool |-> tool, doc |-> doc, form |-> "exact"]

(***************************************************************************)
(* The tools.  Each answer is a set of figures <<document or total, what,  *)
(* cents>>; a rejected call answers nothing.                               *)
(***************************************************************************)
Accepts(call, l) ==
    \/ call.tool \in NoArgTools /\ call.doc = NoDoc
    \/ call.tool = "get_invoice" /\ call.doc \in InvoiceIds(l)
    \/ call.tool = "get_source" /\ call.doc \in SourceIds(l)

InvoiceRow(l, i) ==
    {<<i, "original", l.invoices[i].amount>>,
     <<i, "applied", AppliedToInvoice(l, i)>>,
     <<i, "open", OpenAmount(l, i)>>}

SourceRow(l, s) ==
    {<<s, "original", SourceDoc(l, s).amount>>,
     <<s, "applied", AppliedFromSource(l, s)>>,
     <<s, "unapplied", UnappliedAmount(l, s)>>}

UnappliedSources(l) == {s \in SourceIds(l) : UnappliedAmount(l, s) > 0}

ToolData(call, l) ==
    CASE call.tool = "get_account_summary" ->
           {<<NoDoc, "open invoices", OpenInvoiceTotal(l)>>,
            <<NoDoc, "unapplied cash", UnappliedCashTotal(l)>>,
            <<NoDoc, "unapplied credit", UnappliedCreditTotal(l)>>,
            <<NoDoc, "net", NetBalance(l)>>}
      [] call.tool = "list_open_invoices" ->
           UNION {InvoiceRow(l, i) : i \in OpenInvoices(l)}
      [] call.tool = "list_unapplied_sources" ->
           UNION {SourceRow(l, s) : s \in UnappliedSources(l)}
      [] call.tool = "get_invoice" -> InvoiceRow(l, call.doc)
      [] call.tool = "get_source"  -> SourceRow(l, call.doc)
      [] call.tool = "get_application_history" ->
           {<<i, "applied", AppliedToInvoice(l, i)>> : i \in InvoiceIds(l)}
             \cup {<<s, "applied", AppliedFromSource(l, s)>> : s \in SourceIds(l)}

(***************************************************************************)
(* The evidence required before a draft is accepted                        *)
(***************************************************************************)
\* Seeded fault: unapplied money is never required.
AccountEvidence_Basic(l) ==
    <<Call("get_account_summary", NoDoc), Call("list_open_invoices", NoDoc)>>

AccountEvidence(l) ==
    <<Call("get_account_summary", NoDoc), Call("list_open_invoices", NoDoc)>>
      \o (IF UnappliedCashTotal(l) # 0 \/ UnappliedCreditTotal(l) # 0
            THEN <<Call("list_unapplied_sources", NoDoc)>> ELSE << >>)

DocumentEvidence(l, docs) ==
    [k \in DOMAIN docs |->
        Call(IF docs[k] \in InvoiceIds(l) THEN "get_invoice" ELSE "get_source",
             docs[k])]

Required == AccountEvidence(ledger) \o DocumentEvidence(ledger, failed)

\* A requirement about a document is met only by a call that spells its ID.
Satisfied(r, S) ==
    IF r.doc = NoDoc THEN \E s \in S : s.tool = r.tool ELSE r \in S

Missing == {k \in DOMAIN Required : ~Satisfied(Required[k], successes)}

(***************************************************************************)
(* One tool-call attempt: one event, whatever becomes of it.  A call       *)
(* without a tool name stands for every malformed one.                     *)
(***************************************************************************)
\* Seeded faults: the ceiling allows one execution too many, or one too few.
Outcome_CeilingLate(call, overRoundBudget) ==
    CASE call.tool = ""                    -> "malformed"
      [] call.tool # "" /\ overRoundBudget -> "round_budget"
      [] OTHER -> IF call \in cache THEN "cached"
                  ELSE IF executed > MaxTotalToolCalls THEN "total_budget"
                  ELSE IF Accepts(call, ledger) THEN "ok" ELSE "error"

Outcome_CeilingEarly(call, overRoundBudget) ==
    CASE call.tool = ""                    -> "malformed"
      [] call.tool # "" /\ overRoundBudget -> "round_budget"
      [] OTHER -> IF call \in cache THEN "cached"
                  ELSE IF executed + 1 >= MaxTotalToolCalls THEN "total_budget"
                  ELSE IF Accepts(call, ledger) THEN "ok" ELSE "error"

Outcome(call, overRoundBudget) ==
    CASE call.tool = ""                                    -> "malformed"
      [] call.tool # "" /\ overRoundBudget                 -> "round_budget"
      [] call.tool # "" /\ ~overRoundBudget /\ call \in cache
                                                           -> "cached"
      [] /\ call.tool # "" /\ ~overRoundBudget /\ call \notin cache
         /\ executed >= MaxTotalToolCalls                  -> "total_budget"
      [] OTHER -> IF Accepts(call, ledger) THEN "ok" ELSE "error"

\* Seeded faults: answers are not kept; an answer from the cache is charged.
Attempt_Uncached(call, r, i, overRoundBudget) ==
    LET outcome == Outcome(call, overRoundBudget)
    IN  /\ log' = Append(log, [round |-> r, index |-> i, call |-> call,
                               outcome |-> outcome])
        /\ executed' = IF outcome \in {"ok", "error"} THEN executed + 1 ELSE executed
        /\ cache' = cache
        /\ successes' = IF outcome = "ok" THEN successes \cup {call} ELSE successes

Attempt_CacheCharged(call, r, i, overRoundBudget) ==
    LET outcome == Outcome(call, overRoundBudget)
    IN  /\ log' = Append(log, [round |-> r, index |-> i, call |-> call,
                               outcome |-> outcome])
        /\ executed' = IF outcome \in {"ok", "error", "cached"} THEN executed + 1
                                                                ELSE executed
        /\ cache' = IF outcome = "ok" THEN cache \cup {call} ELSE cache
        /\ successes' = IF outcome \in {"ok", "cached"} THEN successes \cup {call}
                                                        ELSE successes

Attempt(call, r, i, overRoundBudget) ==
    LET outcome == Outcome(call, overRoundBudget)
    IN  /\ log' = Append(log, [round |-> r, index |-> i, call |-> call,
                               outcome |-> outcome])
        /\ executed' = IF outcome \in {"ok", "error"} THEN executed + 1 ELSE executed
        /\ cache' = IF outcome = "ok" THEN cache \cup {call} ELSE cache
        /\ successes' = IF outcome \in {"ok", "cached"} THEN successes \cup {call}
                                                        ELSE successes

Init ==
    /\ \E c \in Cases : ledger = c.ledger /\ failed = c.failed
    /\ pc = "rounds"
    /\ round = 0
    /\ index = 0
    /\ req = 1
    /\ executed = 0
    /\ cache = {}
    /\ successes = {}
    /\ log = << >>
    /\ steps = 0
    /\ result = "pending"

(***************************************************************************)
(* The rounds                                                              *)
(***************************************************************************)
\* Seeded fault: one round too many.
InRound_OneMore == pc = "rounds" /\ round <= MaxRounds

InRound == pc = "rounds" /\ round < MaxRounds

\* The model call failed, or its step breaks the structural rules.
StepFails ==
    /\ InRound
    /\ steps' = steps + 1
    /\ round' = round + 1
    /\ UNCHANGED <<ledger, failed, pc, index, req, executed, cache, successes,
                   log, result>>

FinalAccepted ==
    /\ InRound
    /\ Missing = {}
    /\ steps' = steps + 1
    /\ result' = "draft"
    /\ pc' = "returned"
    /\ UNCHANGED <<ledger, failed, round, index, req, executed, cache,
                   successes, log>>

FinalRejected ==
    /\ InRound
    /\ Missing # {}
    /\ steps' = steps + 1
    /\ round' = round + 1
    /\ UNCHANGED <<ledger, failed, pc, index, req, executed, cache, successes,
                   log, result>>

ToolStep ==
    /\ InRound
    /\ steps' = steps + 1
    /\ pc' = "calls"
    /\ index' = 0
    /\ UNCHANGED <<ledger, failed, round, req, executed, cache, successes, log,
                   result>>

\* One call of the step's list.
ToolCall ==
    /\ pc = "calls"
    /\ index < MaxStepCalls
    /\ \E call \in Calls : Attempt(call, round, index, index >= MaxCallsPerRound)
    /\ index' = index + 1
    /\ UNCHANGED <<ledger, failed, pc, round, req, steps, result>>

\* The list, which has one call at least, is worked through.
StepDone ==
    /\ pc = "calls"
    /\ index > 0
    /\ pc' = "rounds"
    /\ round' = round + 1
    /\ UNCHANGED <<ledger, failed, index, req, executed, cache, successes, log,
                   steps, result>>

RoundsExhausted ==
    /\ pc = "rounds"
    /\ round >= MaxRounds
    /\ pc' = "coverage"
    /\ index' = 0
    /\ UNCHANGED <<ledger, failed, round, req, executed, cache, successes, log,
                   steps, result>>

(***************************************************************************)
(* Forced coverage (round -1) and the forced final call                    *)
(***************************************************************************)
\* Seeded fault: a covered requirement is looked at for ever.
SkipCovered_Stuck ==
    /\ pc = "coverage"
    /\ req \in DOMAIN Required
    /\ Satisfied(Required[req], successes)
    /\ UNCHANGED vars

SkipCovered ==
    /\ pc = "coverage"
    /\ req \in DOMAIN Required
    /\ Satisfied(Required[req], successes)
    /\ req' = req + 1
    /\ UNCHANGED <<ledger, failed, pc, round, index, executed, cache, successes,
                   log, steps, result>>

ForceCall ==
    /\ pc = "coverage"
    /\ req \in DOMAIN Required
    /\ ~Satisfied(Required[req], successes)
    /\ Attempt(Required[req], -1, index, FALSE)
    /\ index' = index + 1
    /\ req' = req + 1
    /\ UNCHANGED <<ledger, failed, pc, round, steps, result>>

CoverageFails ==
    /\ pc = "coverage"
    /\ req \notin DOMAIN Required
    /\ Missing # {}
    /\ result' = "none"
    /\ pc' = "returned"
    /\ UNCHANGED <<ledger, failed, round, index, req, executed, cache, successes,
                   log, steps>>

\* A valid final step is accepted; anything else fails the recovery.
DemandFinal ==
    /\ pc = "coverage"
    /\ req \notin DOMAIN Required
    /\ Missing = {}
    /\ steps' = steps + 1
    /\ result' \in {"draft", "none"}
    /\ pc' = "returned"
    /\ UNCHANGED <<ledger, failed, round, index, req, executed, cache, successes,
                   log>>

Next ==
    \/ StepFails \/ FinalAccepted \/ FinalRejected
    \/ ToolStep \/ ToolCall \/ StepDone \/ RoundsExhausted
    \/ SkipCovered \/ ForceCall \/ CoverageFails \/ DemandFinal

Spec == Init /\ [][Next]_vars

\* One thread; a model call returns after a bounded number of timed attempts.
FairSpec == Spec /\ WF_vars(Next)

-----------------------------------------------------------------------------
(***************************************************************************)
(* Properties                                                              *)
(***************************************************************************)
Outcomes == {"malformed", "round_budget", "cached", "total_budget", "ok", "error"}

AllCalls == Calls \cup {Required[k] : k \in DOMAIN Required}

\* Every variable keeps its type.
TypeOK ==
    /\ [ledger |-> ledger, failed |-> failed] \in Cases
    /\ pc \in {"rounds", "calls", "coverage", "returned"}
    /\ round \in 0..MaxRounds
    /\ index \in Nat
    /\ req \in Nat \ {0}
    /\ executed \in Nat
    /\ cache \in SUBSET AllCalls
    /\ successes \in SUBSET AllCalls
    /\ log \in Seq([round : {-1} \cup 0..MaxRounds, index : Nat,
                    call : AllCalls, outcome : Outcomes])
    /\ steps \in Nat
    /\ result \in {"pending", "draft", "none"}

Ran(k) == log[k].outcome \in {"ok", "error"}
Executions == {k \in DOMAIN log : Ran(k)}

\* Model calls and tool executions stay within their budgets in every round
\* and in total, forced coverage included, and the log accounts for every
\* execution: what a model asks for never buys more (agentic.py:17-24).
BudgetsHold ==
    /\ steps <= MaxRounds + 1
    /\ executed <= MaxTotalToolCalls
    /\ executed = Cardinality(Executions)
    /\ \A r \in 0..MaxRounds :
         Cardinality({k \in Executions : log[k].round = r}) <= MaxCallsPerRound

\* A call the tools have answered is never run again and never spends budget
\* again (agentic.py:26-28).
AnsweredOnce ==
    \A j, k \in DOMAIN log :
        j < k /\ log[j].outcome = "ok" /\ log[k].call = log[j].call => ~Ran(k)

Known ==
    UNION {ToolData(log[k].call, ledger) :
             k \in {j \in DOMAIN log : log[j].outcome \in {"ok", "cached"}}}

\* Whatever the model chose to call, a returned draft was written with every
\* figure a complete reply needs in the transcript: the net balance, every
\* open invoice's open amount, every unapplied source's amount, and the
\* figures of every document that failed (agentic.py:160-231, 559-600).
DraftsAreInformed ==
    result = "draft" =>
        /\ <<NoDoc, "net", NetBalance(ledger)>> \in Known
        /\ \A i \in OpenInvoices(ledger) : <<i, "open", OpenAmount(ledger, i)>> \in Known
        /\ \A s \in SourceIds(ledger) :
             UnappliedAmount(ledger, s) # 0 =>
               <<s, "unapplied", UnappliedAmount(ledger, s)>> \in Known
        /\ \A k \in DOMAIN failed :
             \E f \in Known : f[1] = failed[k] /\ f[2] = "applied"

\* Evidence is given up on only when the execution ceiling is reached: forced
\* coverage gathers whatever the model did not (agentic.py:559-585).
GivesUpOnlyAtCeiling ==
    pc = "returned" /\ Missing # {} =>
        /\ result = "none"
        /\ executed = MaxTotalToolCalls

\* Executions that no requirement asked for, or that failed.
Wasted ==
    {k \in Executions :
        \/ log[k].outcome = "error"
        \/ \A j \in DOMAIN Required : log[k].call # Required[j]}

\* Only what the model wastes can starve the required evidence: a recovery
\* that lacks evidence spent more than the requirements leave of the ceiling,
\* and nothing it asked for again was charged (agentic.py:17-28).
CoverageFitsBudget ==
    pc = "returned" /\ Missing # {} =>
        Cardinality(Wasted) + Len(Required) > MaxTotalToolCalls

\* Every recovery returns (agentic.py:509-620).
Returns == <>(pc = "returned")

=============================================================================
