------------------------------- MODULE Ledger -------------------------------
(***************************************************************************)
(* The account records and the figures derived from them                   *)
(* (balancecheck/substrate/derive.py).  A ledger is read-only while a      *)
(* reply is drafted and verified: every definition here is a pure operator *)
(* on one ledger.                                                          *)
(*                                                                         *)
(* A ledger is a record                                                    *)
(*   invoices     : a function from invoice IDs to [amount, date, due]     *)
(*   payments     : a function from payment IDs to [amount, date]          *)
(*   credits      : a function from credit-memo IDs to [amount, date]      *)
(*   applications : a sequence of [source, target, amount]                 *)
(*   asOf         : the statement day                                      *)
(* Amounts are integer cents and days are natural numbers.  IDs are unique *)
(* within each family by construction, across families by WellFormed.      *)
(***************************************************************************)
EXTENDS Integers, Sequences, FiniteSets, FiniteSetsExt

InvoiceIds(l) == DOMAIN l.invoices
PaymentIds(l) == DOMAIN l.payments
CreditIds(l)  == DOMAIN l.credits
SourceIds(l)  == PaymentIds(l) \cup CreditIds(l)
DocumentIds(l) == InvoiceIds(l) \cup SourceIds(l)

\* The payment or credit memo an ID names; payments are looked up first.
SourceDoc(l, s) == IF s \in PaymentIds(l) THEN l.payments[s] ELSE l.credits[s]

SumApplied(l, K) == MapThenSumSet(LAMBDA k : l.applications[k].amount, K)

AppliedToInvoice(l, i) ==
    SumApplied(l, {k \in DOMAIN l.applications : l.applications[k].target = i})

AppliedFromSource(l, s) ==
    SumApplied(l, {k \in DOMAIN l.applications : l.applications[k].source = s})

OpenAmount(l, i) == l.invoices[i].amount - AppliedToInvoice(l, i)

UnappliedAmount(l, s) == SourceDoc(l, s).amount - AppliedFromSource(l, s)

OpenInvoices(l) == {i \in InvoiceIds(l) : OpenAmount(l, i) > 0}

OpenInvoiceTotal(l) ==
    MapThenSumSet(LAMBDA i : OpenAmount(l, i), InvoiceIds(l))

UnappliedCashTotal(l) ==
    MapThenSumSet(LAMBDA p : UnappliedAmount(l, p), PaymentIds(l))

UnappliedCreditTotal(l) ==
    MapThenSumSet(LAMBDA c : UnappliedAmount(l, c), CreditIds(l))

NetBalance(l) ==
    OpenInvoiceTotal(l) - UnappliedCashTotal(l) - UnappliedCreditTotal(l)

InvoiceStatus(l, i) ==
    CASE OpenAmount(l, i) = 0             -> "paid"
      [] /\ OpenAmount(l, i) # 0
         /\ l.invoices[i].due < l.asOf    -> "overdue"
      [] /\ OpenAmount(l, i) # 0
         /\ l.invoices[i].due >= l.asOf   -> "outstanding"

\* Sources whose unapplied amount equals the open amount of two or more
\* invoices: the records do not say which invoice the money was meant for.
AmbiguousSources(l) ==
    {s \in SourceIds(l) :
        /\ UnappliedAmount(l, s) > 0
        /\ Cardinality({i \in InvoiceIds(l) :
                          OpenAmount(l, i) = UnappliedAmount(l, s)}) >= 2}

Ambiguous(l) == AmbiguousSources(l) # {}

\* The balance as the records alone give it: what was invoiced, less what
\* came in.  No application is looked at.
Invoiced(l) == MapThenSumSet(LAMBDA i : l.invoices[i].amount, InvoiceIds(l))
Received(l) == MapThenSumSet(LAMBDA s : SourceDoc(l, s).amount, SourceIds(l))
BalanceDue(l) == Invoiced(l) - Received(l)

(***************************************************************************)
(* What the record schemas say of any ledger.                              *)
(***************************************************************************)
LedgerRecord(l) ==
    /\ IsFiniteSet(DocumentIds(l))
    /\ l.asOf \in Nat
    /\ \A i \in InvoiceIds(l) :
         /\ l.invoices[i].amount \in Nat \ {0}
         /\ l.invoices[i].date \in Nat /\ l.invoices[i].due \in Nat
    /\ \A p \in PaymentIds(l) :
         l.payments[p].amount \in Nat \ {0} /\ l.payments[p].date \in Nat
    /\ \A c \in CreditIds(l) :
         l.credits[c].amount \in Nat \ {0} /\ l.credits[c].date \in Nat
    /\ l.applications \in
         Seq([source : STRING, target : STRING, amount : Nat \ {0}])

(***************************************************************************)
(* Structural validity of a fixture: validate_ledger reports no problem.   *)
(***************************************************************************)
WellFormed(l) ==
    /\ Cardinality(DocumentIds(l)) =
         Cardinality(InvoiceIds(l)) + Cardinality(PaymentIds(l))
                                    + Cardinality(CreditIds(l))
    /\ \A k \in DOMAIN l.applications :
         /\ l.applications[k].source \in SourceIds(l)
         /\ l.applications[k].target \in InvoiceIds(l)
    /\ \A i \in InvoiceIds(l) :
         /\ AppliedToInvoice(l, i) <= l.invoices[i].amount
         /\ l.invoices[i].date <= l.invoices[i].due
         /\ l.invoices[i].date <= l.asOf
    /\ \A s \in SourceIds(l) :
         /\ AppliedFromSource(l, s) <= SourceDoc(l, s).amount
         /\ SourceDoc(l, s).date <= l.asOf

(***************************************************************************)
(* The independent recompute: a replay of the raw records that shares no   *)
(* derivation with the operators above.                                    *)
(***************************************************************************)
Replay(l) ==
    FoldSet(
        LAMBDA k, pools :
            [remaining |-> [pools.remaining EXCEPT
                              ![l.applications[k].target] =
                                  @ - l.applications[k].amount],
             credit    |-> [pools.credit EXCEPT
                              ![l.applications[k].source] =
                                  @ - l.applications[k].amount]],
        [remaining |-> [i \in InvoiceIds(l) |-> l.invoices[i].amount],
         credit    |-> [s \in SourceIds(l) |-> SourceDoc(l, s).amount]],
        DOMAIN l.applications)

NetBalanceNaive(l) ==
    MapThenSumSet(LAMBDA i : Replay(l).remaining[i], InvoiceIds(l))
      - MapThenSumSet(LAMBDA s : Replay(l).credit[s], SourceIds(l))

=============================================================================
