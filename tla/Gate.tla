-------------------------------- MODULE Gate --------------------------------
(***************************************************************************)
(* The decision matrix (balancecheck/gate/policy.py), the completeness     *)
(* checklist it consults (balancecheck/bench/score.py) and the capability  *)
(* gap behind a decision (balancecheck/gate/gaps.py).                      *)
(*                                                                         *)
(* A draft is a record                                                     *)
(*   text       : what was written, "" for an empty reply                  *)
(*   claims     : the claims the surface extractor finds in it             *)
(*   paidInFull : the text says in words that nothing is owed              *)
(* Two drafts are the same reply exactly when they have the same text.     *)
(***************************************************************************)
EXTENDS Checks

CONSTANTS
    RevisionBudget,      \* revisions before code, itemization and content findings escalate
    FuzzyRevisionBudget  \* revisions before an unsupported fuzzy claim escalates

ASSUME BudgetsAssumption ==
    RevisionBudget \in Nat /\ FuzzyRevisionBudget \in Nat

Actions == {"revise", "abstain", "escalate", "human_gate"}

Reasons == {"fabricated", "unverifiable", "correctable", "budget_exhausted",
            "unsupported", "unsupported_exhausted", "cannot_determine",
            "ambiguous", "all_pass", "loop", "incomplete", "itemization",
            "agentic_exhausted"}

CodeFailKinds == {"C-AMT", "C-SUM", "C-STATUS", "C-DATE"}

CompletenessItems == {"net_balance_stated", "open_invoices_itemized",
                      "unapplied_cash_mentioned", "open_credit_mentioned"}

FindingKinds ==
    {"c_exist_fail", "unverifiable_quant", "fuzzy_unsupported",
     "fuzzy_cannot_determine", "ambiguous_allocation",
     "itemization_inconsistent"} \cup CodeFailKinds \cup CompletenessItems

\* findings holds the kinds of the decision's findings; the correction or
\* payload text is one line for each of them.
Decision(action, reason, findings) ==
    [action |-> action, reason |-> reason, findings |-> findings]

(***************************************************************************)
(* The claims each row selects                                             *)
(***************************************************************************)
ClaimsWith(checked, types, statuses) ==
    {k \in DOMAIN checked : /\ checked[k].claim.type \in types
                            /\ checked[k].status \in statuses}

ExistFails(checked)       == ClaimsWith(checked, {"C-EXIST"}, {"fail"})
\* A claim that was never checked counts as unverifiable.
Unverifiable(checked)     == ClaimsWith(checked, ClaimTypes, {"unverifiable", "none"})
CodeFails(checked)        == ClaimsWith(checked, CodeFailKinds, {"fail"})
FuzzyUnsupported(checked) == ClaimsWith(checked, {"C-FUZZY"}, {"unsupported"})
\* Seeded fault: an undetermined claim counts only when it cites a record.
FuzzyCannot_Citing(checked) ==
    {k \in ClaimsWith(checked, {"C-FUZZY"}, {"cannot_determine"}) :
        checked[k].cites # {}}

FuzzyCannot(checked)      == ClaimsWith(checked, {"C-FUZZY"}, {"cannot_determine"})

(***************************************************************************)
(* Row 7: the owed figure the draft presents for each open invoice.  The   *)
(* last amount labelled open wins, else the first bare amount.             *)
(***************************************************************************)
FiguresFor(checked, i, role) ==
    {k \in Passing(checked) :
        /\ checked[k].claim.type = "C-AMT"
        /\ checked[k].claim.role = role
        /\ DocsOf(checked[k].claim) = {i}}

IsItemized(checked, i) ==
    FiguresFor(checked, i, "open") \cup FiguresFor(checked, i, "unknown") # {}

ItemizedFigure(checked, i) ==
    LET open == FiguresFor(checked, i, "open")
        bare == FiguresFor(checked, i, "unknown")
    IN  checked[IF open # {} THEN Max(open) ELSE Min(bare)].claim.num

ItemizedSum(checked, l) ==
    MapThenSumSet(LAMBDA i : ItemizedFigure(checked, i), OpenInvoices(l))

FullyItemized(checked, l) == \A i \in OpenInvoices(l) : IsItemized(checked, i)

ItemizationInconsistent(checked, l) ==
    /\ Cardinality(OpenInvoices(l)) >= 2
    /\ UnappliedCashTotal(l) = 0
    /\ UnappliedCreditTotal(l) = 0
    /\ FullyItemized(checked, l)
    /\ ItemizedSum(checked, l) # OpenInvoiceTotal(l)

(***************************************************************************)
(* Row 8: the completeness checklist.  It reads the draft's own claims     *)
(* again, through the code checks only.                                    *)
(***************************************************************************)
References(checked, d) ==
    \E k \in Passing(checked) :
        LET c == checked[k].claim
        IN  \/ c.type = "C-EXIST" /\ c.word = d
            \/ c.type = "C-AMT" /\ d \in DocsOf(c)

StatesNet(checked, draft, l) ==
    \/ \E k \in Passing(checked) : /\ checked[k].claim.type = "C-SUM"
                                   /\ NetLabel \in checked[k].cites
    \/ NetBalance(l) = 0 /\ draft.paidInFull

UnappliedPayments(l) == {p \in PaymentIds(l) : UnappliedAmount(l, p) > 0}
OpenCredits(l)       == {c \in CreditIds(l) : UnappliedAmount(l, c) > 0}

\* The applicable items that a draft with these results leaves out.
Unmentioned(checked, draft, l) ==
    LET absent(D) == \E d \in D : ~References(checked, d)
    IN  {item \in CompletenessItems :
            CASE item = "net_balance_stated"       -> ~StatesNet(checked, draft, l)
              [] item = "open_invoices_itemized"   -> absent(OpenInvoices(l))
              [] item = "unapplied_cash_mentioned" -> absent(UnappliedPayments(l))
              [] item = "open_credit_mentioned"    -> absent(OpenCredits(l))}

\* An empty draft has no items.
AbsentItems(draft, l) ==
    IF draft.text = "" THEN {}
      ELSE Unmentioned(RunCodeChecks(draft.claims, l), draft, l)

\* Seeded fault: the text-free fallback is applied to every draft.
MissingCompleteness_NetOnly(checked, draft, l) ==
    IF /\ NetBalance(l) # 0
       /\ \A k \in Passing(checked) : NetLabel \notin checked[k].cites
      THEN {"net_balance_stated"} ELSE {}

\* With no text in hand the net-statement citation is the only signal.
MissingCompleteness(checked, draft, l) ==
    IF draft.text # ""
      THEN AbsentItems(draft, l)
      ELSE IF /\ NetBalance(l) # 0
              /\ \A k \in Passing(checked) : NetLabel \notin checked[k].cites
             THEN {"net_balance_stated"} ELSE {}

(***************************************************************************)
(* The matrix: the first matching row decides.                             *)
(***************************************************************************)
\* Seeded fault: one revision too many.
Budgeted_OneMore(rev, budget, reviseReason, escalateReason, findings) ==
    IF rev <= budget THEN Decision("revise", reviseReason, findings)
                     ELSE Decision("escalate", escalateReason, findings)

Budgeted(rev, budget, reviseReason, escalateReason, findings) ==
    IF rev < budget THEN Decision("revise", reviseReason, findings)
                    ELSE Decision("escalate", escalateReason, findings)

MatchMatrix(checked, draft, l, rev) ==
    LET failed  == CodeFails(checked)
        missing == MissingCompleteness(checked, draft, l)
    IN
    IF ExistFails(checked) # {}
      THEN Decision("escalate", "fabricated", {"c_exist_fail"})
    ELSE IF Unverifiable(checked) # {}
      THEN Decision("escalate", "unverifiable", {"unverifiable_quant"})
    ELSE IF failed # {}
      THEN Budgeted(rev, RevisionBudget, "correctable", "budget_exhausted",
                    {checked[k].claim.type : k \in failed})
    ELSE IF FuzzyUnsupported(checked) # {}
      THEN Budgeted(rev, FuzzyRevisionBudget, "unsupported",
                    "unsupported_exhausted", {"fuzzy_unsupported"})
    ELSE IF FuzzyCannot(checked) # {}
      THEN Decision("escalate", "cannot_determine", {"fuzzy_cannot_determine"})
    ELSE IF Ambiguous(l)
      THEN Decision("abstain", "ambiguous", {"ambiguous_allocation"})
    ELSE IF ItemizationInconsistent(checked, l)
      THEN Budgeted(rev, RevisionBudget, "itemization", "itemization",
                    {"itemization_inconsistent"})
    ELSE IF missing # {}
      THEN Budgeted(rev, RevisionBudget, "incomplete", "incomplete", missing)
    ELSE Decision("human_gate", "all_pass", {})

\* texts holds every draft of the scenario so far, the current one last.
RepeatsEarlier(texts) ==
    \E k \in 1..(Len(texts) - 1) : texts[k] = texts[Len(texts)]

\* A draft that comes back word for word is not sent back again.
WithoutLoop(decision, texts) ==
    IF decision.action = "revise" /\ RepeatsEarlier(texts)
      THEN Decision("escalate", "loop", decision.findings)
      ELSE decision

Decide(checked, draft, l, rev, texts) ==
    WithoutLoop(MatchMatrix(checked, draft, l, rev), texts)

\* The ledger-level check made before anything is drafted.
PrecheckAbstain(l) == Ambiguous(l)

(***************************************************************************)
(* Capability gaps: "none" where nothing was missing.                      *)
(***************************************************************************)
GapCategories == {"allocation_reference", "unverifiable_quant",
                  "ambiguous_reference", "document_absent", "other"}

\* Seeded fault: an escalation without a category of its own leaves no gap.
DeriveGap_KnownOnly(decision) ==
    CASE decision.action = "abstain"          -> "allocation_reference"
      [] decision.reason = "unverifiable"     -> "unverifiable_quant"
      [] decision.reason = "cannot_determine" -> "ambiguous_reference"
      [] decision.reason = "fabricated"       -> "document_absent"
      [] OTHER                                -> "none"

DeriveGap(decision) ==
    CASE decision.action \in {"human_gate", "revise"} -> "none"
      [] decision.action = "abstain"                  -> "allocation_reference"
      [] decision.action = "escalate" ->
           CASE decision.reason = "unverifiable"      -> "unverifiable_quant"
             [] decision.reason = "cannot_determine"  -> "ambiguous_reference"
             [] decision.reason = "fabricated"        -> "document_absent"
             [] OTHER                                 -> "other"

=============================================================================
