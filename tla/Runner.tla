------------------------------- MODULE Runner -------------------------------
(***************************************************************************)
(* The verification loop over one scenario (balancecheck/runner.py,        *)
(* run_scenario): draft, check, decide, and revise while the gate's budget *)
(* lasts; every step lands in the append-only event log.  Each action ends *)
(* with at most one append, so every reachable log is also a log that a    *)
(* killed process leaves behind.                                           *)
(***************************************************************************)
EXTENDS Gate

CONSTANTS
    Ledgers,       \* the account records a scenario may carry
    Drafts,        \* the replies the model may write
    Configs,       \* [mode, maxRecoveries]: revision_mode, agentic_max_recoveries
    MaxRevisions   \* the runner's own loop bound

ASSUME ConfigsAssumption ==
    Configs \subseteq [mode : {"prompt", "agentic"}, maxRecoveries : Nat]

\* No fixture is served unless its records are structurally valid, and no
\* document is numbered like the label of the net balance.
ASSUME LedgersAssumption ==
    \A l \in Ledgers : /\ LedgerRecord(l)
                       /\ WellFormed(l)
                       /\ NetLabel \notin DocumentIds(l)

\* The gate's budgets fit in the runner's loop.
ASSUME LoopAssumption ==
    /\ MaxRevisions \in Nat
    /\ RevisionBudget <= MaxRevisions
    /\ FuzzyRevisionBudget <= MaxRevisions

\* What the surface extractor makes of a reply.
ASSUME DraftsAssumption ==
    \A d \in Drafts : \A k \in DOMAIN d.claims : ExtractedClaim(d.claims[k])

VARIABLES
    ledger,      \* the scenario's records
    config,      \* the run's configuration
    pc,          \* where run_scenario stands
    rev,         \* the revision index
    recoveries,  \* agentic recoveries used
    drafts,      \* every draft so far, the current one last
    checked,     \* the current draft's claims with their results
    decision,    \* the last decision
    correction,  \* what the next draft is told to correct
    log          \* the events appended so far

vars == <<ledger, config, pc, rev, recoveries, drafts, checked, decision,
          correction, log>>

Undecided == Decision("none", "none", {})

GenerationModes == {"prompt_initial", "agentic_recovery", "prompt_revision"}

\* tag is the generation mode, the verdict or the gap category.
Event(kind, tag, reason) ==
    [kind |-> kind, rev |-> rev, tag |-> tag, reason |-> reason]

CurrentDraft == drafts[Len(drafts)]
Texts(ds) == [k \in DOMAIN ds |-> ds[k].text]

Init ==
    /\ ledger \in Ledgers
    /\ config \in Configs
    /\ pc = "precheck"
    /\ rev = 0
    /\ recoveries = 0
    /\ drafts = << >>
    /\ checked = << >>
    /\ decision = Undecided
    /\ correction = {}
    /\ log = << >>

(***************************************************************************)
(* Before any drafting                                                     *)
(***************************************************************************)
PrecheckAbstains ==
    /\ pc = "precheck"
    /\ PrecheckAbstain(ledger)
    /\ decision' = Decision("abstain", "ambiguous", {"ambiguous_allocation"})
    /\ log' = Append(log, Event("verification", "abstain", "ambiguous"))
    /\ pc' = "route"
    /\ UNCHANGED <<ledger, config, rev, recoveries, drafts, checked, correction>>

PrecheckPasses ==
    /\ pc = "precheck"
    /\ ~PrecheckAbstain(ledger)
    /\ pc' = "generate"
    /\ UNCHANGED <<ledger, config, rev, recoveries, drafts, checked, decision,
                   correction, log>>

(***************************************************************************)
(* One draft                                                               *)
(***************************************************************************)
\* Seeded fault: one recovery too many.
GenerationMode_OneMore ==
    IF rev = 0 THEN "prompt_initial"
    ELSE IF config.mode = "agentic" /\ recoveries <= config.maxRecoveries
      THEN "agentic_recovery" ELSE "prompt_revision"

GenerationMode ==
    IF rev = 0 THEN "prompt_initial"
    ELSE IF config.mode = "agentic" /\ recoveries < config.maxRecoveries
      THEN "agentic_recovery" ELSE "prompt_revision"

\* Seeded fault: only the first draft is logged.
TakeDraft_FirstLogged(d) ==
    /\ drafts' = Append(drafts, d)
    /\ log' = IF rev > 0 THEN log
              ELSE Append(log, Event("generation", GenerationMode, "none"))
    /\ pc' = "check"
    /\ UNCHANGED <<ledger, config, rev, checked, decision, correction>>

TakeDraft(d) ==
    /\ drafts' = Append(drafts, d)
    /\ log' = Append(log, Event("generation", GenerationMode, "none"))
    /\ pc' = "check"
    /\ UNCHANGED <<ledger, config, rev, checked, decision, correction>>

PromptDraft ==
    /\ pc = "generate"
    /\ GenerationMode # "agentic_recovery"
    /\ \E d \in Drafts : TakeDraft(d)
    /\ UNCHANGED recoveries

\* Seeded fault: the exception is swallowed and the scenario closed.
ClientExhausted_Swallowed ==
    /\ pc = "generate"
    /\ GenerationMode # "agentic_recovery"
    /\ pc' = "final"
    /\ UNCHANGED <<ledger, config, rev, recoveries, drafts, checked, decision,
                   correction, log>>

\* The client used up its attempts: generate_draft raises.
ClientExhausted ==
    /\ pc = "generate"
    /\ GenerationMode # "agentic_recovery"
    /\ pc' = "raised"
    /\ UNCHANGED <<ledger, config, rev, recoveries, drafts, checked, decision,
                   correction, log>>

\* The bounded agent (AgenticRecovery) returns a draft, never an empty one.
AgenticDraft ==
    /\ pc = "generate"
    /\ GenerationMode = "agentic_recovery"
    /\ recoveries' = recoveries + 1
    /\ \E d \in Drafts : d.text # "" /\ TakeDraft(d)

\* It returns none: the scenario escalates with the last correction attached.
AgenticFails ==
    /\ pc = "generate"
    /\ GenerationMode = "agentic_recovery"
    /\ recoveries' = recoveries + 1
    /\ decision' = Decision("escalate", "agentic_exhausted", {})
    /\ checked' = << >>
    /\ log' = Append(log, Event("verification", "escalate", "agentic_exhausted"))
    /\ pc' = "route"
    /\ UNCHANGED <<ledger, config, rev, drafts, correction>>

(***************************************************************************)
(* Its verification                                                        *)
(***************************************************************************)
FuzzyClaims(d) == {k \in DOMAIN d.claims : d.claims[k].type = "C-FUZZY"}

CheckDraft ==
    /\ pc = "check"
    /\ \E answers \in [FuzzyClaims(CurrentDraft) -> VerifierAnswers(ledger)] :
         checked' = CheckAll(CurrentDraft.claims, ledger, answers)
    /\ pc' = "decide"
    /\ UNCHANGED <<ledger, config, rev, recoveries, drafts, decision,
                   correction, log>>

\* A stubbed client, which only prompt mode runs with, has no answer recorded
\* for a fuzzy claim: StubKeyMissing is never retried.
VerifierRaises ==
    /\ pc = "check"
    /\ config.mode = "prompt"
    /\ FuzzyClaims(CurrentDraft) # {}
    /\ pc' = "raised"
    /\ UNCHANGED <<ledger, config, rev, recoveries, drafts, checked, decision,
                   correction, log>>

(***************************************************************************)
(* The decision that governs: in agentic mode a draft that still needs     *)
(* revision once the recoveries are used up escalates.                     *)
(***************************************************************************)
Governing(d) ==
    IF /\ d.action = "revise"
       /\ config.mode = "agentic"
       /\ recoveries >= config.maxRecoveries
       /\ rev > 0
      THEN Decision("escalate", "agentic_exhausted", d.findings)
      ELSE d

DecideDraft ==
    /\ pc = "decide"
    /\ decision' = Governing(Decide(checked, CurrentDraft, ledger, rev, Texts(drafts)))
    /\ log' = Append(log, Event("verification", decision'.action, decision'.reason))
    /\ pc' = IF rev = 0 THEN "first_pass" ELSE "route"
    /\ UNCHANGED <<ledger, config, rev, recoveries, drafts, checked, correction>>

(***************************************************************************)
(* What follows the decision.  A scenario abstained before drafting logs   *)
(* its gap before its two scores; any other logs the first-pass score      *)
(* right after the verdict on revision 0.                                  *)
(***************************************************************************)
ScoreFirstPass ==
    /\ pc = "first_pass"
    /\ log' = Append(log, Event("first_pass", decision.action, "none"))
    /\ pc' = IF drafts = << >> THEN "final" ELSE "route"
    /\ UNCHANGED <<ledger, config, rev, recoveries, drafts, checked, decision,
                   correction>>

\* Seeded fault: the correction is rebuilt from failed claims only.
Revise_ClaimsOnly ==
    /\ pc = "route"
    /\ decision.action = "revise"
    /\ correction' = decision.findings
                       \ (CompletenessItems \cup {"itemization_inconsistent"})
    /\ IF rev < MaxRevisions
         THEN rev' = rev + 1 /\ pc' = "generate"
         ELSE rev' = rev /\ pc' = "overrun"
    /\ UNCHANGED <<ledger, config, recoveries, drafts, checked, decision, log>>

\* The loop comes round: past its bound, run_scenario raises.
Revise ==
    /\ pc = "route"
    /\ decision.action = "revise"
    /\ correction' = decision.findings
    /\ IF rev < MaxRevisions
         THEN rev' = rev + 1 /\ pc' = "generate"
         ELSE rev' = rev /\ pc' = "overrun"
    /\ UNCHANGED <<ledger, config, recoveries, drafts, checked, decision, log>>

\* Seeded fault: a decision without a gap never returns.
LogGap_Required ==
    /\ pc = "route"
    /\ DeriveGap(decision) # "none"
    /\ log' = Append(log, Event("gap", DeriveGap(decision), "none"))
    /\ pc' = IF drafts = << >> THEN "first_pass" ELSE "final"
    /\ UNCHANGED <<ledger, config, rev, recoveries, drafts, checked, decision,
                   correction>>

LogGap ==
    /\ pc = "route"
    /\ decision.action # "revise"
    /\ log' = IF DeriveGap(decision) = "none" THEN log
              ELSE Append(log, Event("gap", DeriveGap(decision), "none"))
    /\ pc' = IF drafts = << >> THEN "first_pass" ELSE "final"
    /\ UNCHANGED <<ledger, config, rev, recoveries, drafts, checked, decision,
                   correction>>

ScoreFinal ==
    /\ pc = "final"
    /\ log' = Append(log, Event("final", decision.action, "none"))
    /\ pc' = "done"
    /\ UNCHANGED <<ledger, config, rev, recoveries, drafts, checked, decision,
                   correction>>

Next ==
    \/ PrecheckAbstains \/ PrecheckPasses
    \/ PromptDraft \/ ClientExhausted \/ AgenticDraft \/ AgenticFails
    \/ CheckDraft \/ VerifierRaises \/ DecideDraft
    \/ ScoreFirstPass \/ Revise \/ LogGap \/ ScoreFinal

Spec == Init /\ [][Next]_vars

\* One thread runs the loop, and each model call returns after a bounded
\* number of attempts, each with a timeout.
FairSpec == Spec /\ WF_vars(Next)

-----------------------------------------------------------------------------
(***************************************************************************)
(* Properties                                                              *)
(***************************************************************************)
Ended == {"done", "raised"}
PCs   == {"precheck", "generate", "check", "decide", "first_pass", "route",
          "final", "overrun"} \cup Ended

EventKinds == {"generation", "verification", "first_pass", "final", "gap"}
Tags == GenerationModes \cup Actions \cup GapCategories

Events == [kind : EventKinds, rev : 0..MaxRevisions, tag : Tags,
           reason : Reasons \cup {"none"}]

Decisions == [action   : Actions \cup {"none"},
              reason   : Reasons \cup {"none"},
              findings : SUBSET FindingKinds]

\* Every variable keeps its type; the recoveries used never exceed the
\* configured number (runner.py:145-155).
TypeOK ==
    /\ ledger \in Ledgers
    /\ config \in Configs
    /\ pc \in PCs
    /\ rev \in 0..MaxRevisions
    /\ recoveries \in 0..config.maxRecoveries
    /\ drafts \in Seq(Drafts)
    /\ \A k \in DOMAIN checked : checked[k].status \in CheckStatuses
    /\ decision \in Decisions
    /\ correction \in SUBSET FindingKinds
    /\ log \in Seq(Events)

Entries(kind) == {k \in DOMAIN log : log[k].kind = kind}

\* The loop never falls off its end: decide escalates at the budget boundary
\* whichever row, or mixture of rows, kept sending the draft back
\* (runner.py:277-280 raises otherwise).
NeverOverruns == pc # "overrun"

\* A scenario that ends without an exception leaves exactly one final score,
\* one first-pass score and, unless a person receives the draft, one
\* capability gap; the final score records the last verdict logged, never
\* revise (runner.py:64-137, gaps.py: "no terminal failure is ever gap-less").
OneOutcome ==
    /\ pc = "done" =>
         /\ Cardinality(Entries("final")) = 1
         /\ Cardinality(Entries("first_pass")) = 1
         /\ Cardinality(Entries("gap")) =
              (IF decision.action = "human_gate" THEN 0 ELSE 1)
         /\ log[Max(Entries("final"))].tag = log[Max(Entries("verification"))].tag
         /\ decision.action \in {"human_gate", "escalate", "abstain"}
    /\ pc # "done" => Entries("final") = {}

\* Wherever the process stops, the log reads as a sequence of judged drafts: a
\* verdict stands right after the generation it judges, except an abstention
\* before drafting and a failed recovery; and a redraft is logged only after
\* a revise verdict on the revision before it.  Review and reporting join the
\* two kinds of event on this (runner.py:139-275).
LogReadsAsJudgedDrafts ==
    \A k \in DOMAIN log :
        /\ log[k].kind = "verification" =>
             \/ log[k].tag = "abstain" /\ k = 1
             \/ log[k].reason = "agentic_exhausted"
             \/ k > 1 /\ log[k-1].kind = "generation" /\ log[k-1].rev = log[k].rev
        /\ log[k].kind = "generation" /\ log[k].rev > 0 =>
             \E j \in 1..(k-1) : /\ log[j].kind = "verification"
                                 /\ log[j].tag = "revise"
                                 /\ log[j].rev = log[k].rev - 1

\* A redraft is always told what to fix, and told what the gate found in the
\* draft before it: the correction is never empty and never left over from an
\* earlier revision (runner.py:262-273).
CorrectionDelivered ==
    pc = "generate" /\ rev > 0 =>
        /\ correction # {}
        /\ correction = decision.findings
        /\ decision.action = "revise"

\* No result falls between the rows: a draft reaches a person only when every
\* claim in it was checked and passed, whatever its type, and never on a
\* ledger that supports no single reading (policy.py:143-354; a claim whose
\* check never ran, or whose quantity did not resolve, is escalated).
NothingSlipsPast ==
    decision.action = "human_gate" =>
        /\ pc \in {"first_pass", "route", "final", "done"}
        /\ DOMAIN checked = DOMAIN CurrentDraft.claims
        /\ \A k \in DOMAIN checked : /\ checked[k].claim = CurrentDraft.claims[k]
                                     /\ checked[k].status = "pass"
        /\ ~Ambiguous(ledger)

(***************************************************************************)
(* What a draft that reaches a person may claim, stated on the records     *)
(* themselves rather than through the derivations the checkers use.        *)
(***************************************************************************)
Covered(l, i) == AppliedToInvoice(l, i) = l.invoices[i].amount

RecordedAmount(l, d) ==
    IF d \in InvoiceIds(l) THEN l.invoices[d].amount ELSE SourceDoc(l, d).amount

RecordedApplied(l, d) ==
    IF d \in InvoiceIds(l) THEN AppliedToInvoice(l, d) ELSE AppliedFromSource(l, d)

\* n is the amount of document d, what is applied of it, or what is left.
AmountOf(n, d, role, l) ==
    LET whole == n = RecordedAmount(l, d)
        rest  == n + RecordedApplied(l, d) = RecordedAmount(l, d)
    IN  CASE role = "original" -> whole
          [] role = "applied"  -> n = RecordedApplied(l, d)
          [] role = "open"     -> rest
          [] OTHER             -> whole \/ rest

\* n is a payment, what is left of one, or all payments together.
MoneyIn(n, l) ==
    \/ \E p \in PaymentIds(l) : AmountOf(n, p, "unknown", l)
    \/ n = MapThenSumSet(LAMBDA p : l.payments[p].amount, PaymentIds(l))

AmountTrue(c, l) ==
    CASE Len(c.docs) = 1 -> /\ c.docs[1] \in DocumentIds(l)
                            /\ AmountOf(c.num, c.docs[1], c.role, l)
      [] Len(c.docs) # 1 /\ "received" \in c.span -> MoneyIn(c.num, l)
      [] OTHER -> c.num = BalanceDue(l)

\* A total of named invoices comes to what is left of them, each counted as
\* often as it is named; any other is the balance, or what is left of all
\* invoices when the sentence speaks of invoices or items.
SumTrue(c, l) ==
    LET named   == {k \in DOMAIN c.docs : c.docs[k] \in InvoiceIds(l)}
        billed  == [k \in named |-> l.invoices[c.docs[k]].amount]
        applied == [k \in named |-> AppliedToInvoice(l, c.docs[k])]
    IN  IF named # {}
          THEN c.num + MapThenSumSet(LAMBDA k : applied[k], named)
                 = MapThenSumSet(LAMBDA k : billed[k], named)
          ELSE \/ c.num = BalanceDue(l)
               \/ /\ "items" \in c.span
                  /\ c.num + SumApplied(l, DOMAIN l.applications) = Invoiced(l)

StatusTrue(c, l) ==
    /\ Len(c.docs) = 1
    /\ c.docs[1] \in InvoiceIds(l)
    /\ c.word \in {"paid", "settled", "cleared"} <=> Covered(l, c.docs[1])
    /\ c.word \in {"overdue", "past due"} => l.invoices[c.docs[1]].due < l.asOf

DayOf(n, d, l) ==
    IF d \in InvoiceIds(l) THEN n \in {l.invoices[d].date, l.invoices[d].due}
                           ELSE n = SourceDoc(l, d).date

DateTrue(c, l) ==
    LET named == DocsOf(c) \cap DocumentIds(l)
    IN  IF named # {} THEN \A d \in named : DayOf(c.num, d, l)
        ELSE c.num = l.asOf \/ \E d \in DocumentIds(l) : DayOf(c.num, d, l)

\* What a claim of each type says, as the records have it.  A free reading has
\* no figure to compare: of it only that records of the account are cited.
Truthful(c, cites, l) ==
    /\ c.preset => c.type = "C-FUZZY"
    /\ CASE c.type = "C-EXIST"  -> c.word \in DocumentIds(l)
         [] c.type = "C-AMT"    -> AmountTrue(c, l)
         [] c.type = "C-SUM"    -> SumTrue(c, l)
         [] c.type = "C-STATUS" -> StatusTrue(c, l)
         [] c.type = "C-DATE"   -> DateTrue(c, l)
         [] c.type = "C-FUZZY"  -> cites # {} /\ cites \subseteq DocumentIds(l)

\* Only a draft whose every claim is true of the records is handed to a person
\* as passing.  An amount bound to a document is the figure of it that the
\* claim's role names (the amount or what is left, when it names none); one
\* bound to no single document is money received or the balance; a total is
\* that of the invoices it names, as often as it names them, or the account's;
\* a status word is right about payment and lateness; a date is carried by
\* every document it is bound to.  A free reading is the exception: the
\* records it cites exist, whether they bear it out is the verifier's word
\* (checks.py:238-788, policy.py:143-354).
HumanGateTruthful ==
    decision.action = "human_gate" =>
        \A k \in DOMAIN checked :
            Truthful(checked[k].claim, checked[k].cites, ledger)

SaysBalance(d, l) ==
    \/ \E k \in DOMAIN d.claims :
         d.claims[k].type = "C-SUM" /\ d.claims[k].num = BalanceDue(l)
    \/ BalanceDue(l) = 0 /\ d.paidInFull

Mentions(d, doc) ==
    \E k \in DOMAIN d.claims : doc = d.claims[k].word \/ doc \in DocsOf(d.claims[k])

HasRequiredContent(d, l) ==
    /\ SaysBalance(d, l)
    /\ \A i \in InvoiceIds(l) : ~Covered(l, i) => Mentions(d, i)
    /\ \A s \in SourceIds(l) :
         AppliedFromSource(l, s) < SourceDoc(l, s).amount => Mentions(d, s)

\* A draft with any text that reaches a person states the balance and names
\* every open invoice and every source of unapplied money (policy.py:321-349,
\* score.py:85-177).
WrittenDraftComplete ==
    decision.action = "human_gate" /\ CurrentDraft.text # "" =>
        HasRequiredContent(CurrentDraft, ledger)

\* The same for every draft, as README.md:54 says: "required content (the
\* balance, the open invoices, any unapplied money) must actually be present".
RequiredContentPresent ==
    decision.action = "human_gate" => HasRequiredContent(CurrentDraft, ledger)

\* Every scenario comes to an end: a verdict, or an exception (runner.py:3).
Terminates == <>(pc \in Ended)

(***************************************************************************)
(* The loop implements the contract its callers rely on.                   *)
(***************************************************************************)
AwaitsVerdict == Len(log) > 0 /\ log[Len(log)].kind = "generation"

Contract == INSTANCE ScenarioContract WITH
    MaxAttempts <- MaxRevisions + 1,
    phase    <- CASE pc = "done"   -> "closed"
                  [] pc = "raised" -> "aborted"
                  [] OTHER         -> "open",
    attempts <- Cardinality(Entries("generation")),
    verdict  <- IF AwaitsVerdict THEN "pending" ELSE decision.action,
    gap      <- Entries("gap") # {}

\* Each step of the loop is a step of the contract or none, and the loop ends
\* when the contract does.
ImplementsContract == Contract!Spec

=============================================================================
