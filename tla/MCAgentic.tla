------------------------------ MODULE MCAgentic ------------------------------
(***************************************************************************)
(* A small instance of AgenticRecovery: an account with no unapplied money *)
(* and no failed document, whose evidence the model can gather in its      *)
(* rounds, and one with unapplied cash and credit and two failed           *)
(* documents, whose five requirements just fit the ceiling.                *)
(***************************************************************************)
EXTENDS AgenticRecovery

Invoices ==
    [INV1 |-> [amount |-> 10, date |-> 1, due |-> 3],
     INV2 |-> [amount |-> 5, date |-> 2, due |-> 8]]

Account(paid, credits) ==
    [invoices     |-> Invoices,
     payments     |-> [PMT1 |-> [amount |-> paid, date |-> 4]],
     credits      |-> credits,
     applications |-> <<[source |-> "PMT1", target |-> "INV1", amount |-> 4]>>,
     asOf         |-> 5]

MCCases ==
    {[ledger |-> Account(4, [x \in {} |-> 0]), failed |-> << >>],
     [ledger |-> Account(6, [CM1 |-> [amount |-> 3, date |-> 4]]),
      failed |-> <<"INV1", "PMT1">>]}

MCCalls ==
    {Call("get_account_summary", "-"), Call("list_open_invoices", "-"),
     Call("get_invoice", "INV9"),
     [Call("get_invoice", "INV1") EXCEPT !.form = "loose"],
     Call("", "-")}

=============================================================================
