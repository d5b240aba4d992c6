------------------------------ MODULE MCRunner ------------------------------
(***************************************************************************)
(* A small instance of Runner: four account shapes and fifteen replies     *)
(* that between them reach every row of the matrix and pass with claims of *)
(* every kind: each role of an amount, figures of payments, subtotals,     *)
(* dates bound and unbound.  The same reply is right on one account and    *)
(* wrong on another.                                                       *)
(***************************************************************************)
EXTENDS Runner

Invoices(a1, a2) ==
    [INV1 |-> [amount |-> a1, date |-> 1, due |-> 3],
     INV2 |-> [amount |-> a2, date |-> 2, due |-> 8]]

Payment(a) == [PMT1 |-> [amount |-> a, date |-> 4]]
NoCredits == [x \in {} |-> 0]

Account(invoices, payment, applied) ==
    [invoices     |-> invoices,
     payments     |-> payment,
     credits      |-> NoCredits,
     applications |-> IF applied = 0 THEN << >>
                      ELSE <<[source |-> "PMT1", target |-> "INV1",
                              amount |-> applied]>>,
     asOf         |-> 5]

\* Open 6 + 5, nothing unapplied; open 6 + 5 with 2 unapplied; one invoice of
\* 7 against 7 unapplied, net zero; and 5 unapplied that fits two invoices.
PartlyPaid == Account(Invoices(10, 5), Payment(4), 4)
Unapplied  == Account(Invoices(10, 5), Payment(6), 4)
NetZero    == Account([INV1 |-> [amount |-> 7, date |-> 1, due |-> 3]], Payment(7), 0)
TwoReadings == Account(Invoices(5, 5), Payment(5), 0)

MCLedgers == {PartlyPaid, Unapplied, NetZero, TwoReadings}

C(type, word, num, docs, role, span) ==
    [type |-> type, word |-> word, num |-> num, docs |-> docs, role |-> role,
     span |-> span, preset |-> FALSE]
Names(d)          == C("C-EXIST", d, 0, << >>, "unknown", {})
Amount(d, n, r)   == C("C-AMT", "", n, <<d>>, r, {})
Loose(n, span)    == C("C-AMT", "", n, << >>, "unknown", span)
Total(n)          == C("C-SUM", "", n, << >>, "total", {})
Subtotal(n)       == C("C-SUM", "", n, << >>, "total", {"items"})
Status(d, w)      == C("C-STATUS", w, 0, <<d>>, "unknown", {})
Over(docs, n)     == C("C-SUM", "", n, docs, "total", {})
Day(docs, n)      == C("C-DATE", "", n, docs, "unknown", {})
Fuzzy             == C("C-FUZZY", "", 0, << >>, "unknown", {})
Fraction          == [Loose(0, {}) EXCEPT !.preset = TRUE]

Reply(text, claims) == [text |-> text, claims |-> claims, paidInFull |-> FALSE]

MCDrafts == {
    Reply("", << >>),
    Reply("open amounts", <<Amount("INV1", 6, "open"), Amount("INV2", 5, "unknown"),
                            Day(<<"INV1">>, 3), Total(11)>>),
    Reply("as discussed", <<Amount("INV1", 6, "open"), Amount("INV2", 5, "open"),
                            Total(11), Fuzzy>>),
    Reply("face amounts", <<Amount("INV1", 10, "unknown"), Amount("INV2", 5, "unknown"),
                            Total(11)>>),
    Reply("face amounts, unapplied", <<Amount("INV1", 10, "unknown"),
                            Amount("INV2", 5, "unknown"), Names("PMT1"), Total(9)>>),
    Reply("please remit", <<Loose(11, {"remit"}), Loose(4, {"received"}), Total(11)>>),
    Reply("says paid", <<Status("INV1", "paid"), Total(11)>>),
    Reply("overdue", <<Status("INV1", "overdue"), Subtotal(11), Names("PMT1")>>),
    Reply("unknown invoice", <<Names("INV9"), Total(11)>>),
    Reply("a third of it", <<Fraction, Total(11)>>),
    Reply("by role", <<Amount("INV1", 10, "original"), Amount("INV1", 4, "applied"),
                       Amount("INV1", 6, "open"), Amount("INV2", 5, "total"),
                       Amount("PMT1", 4, "original"), Amount("PMT1", 0, "open"),
                       Total(11)>>),
    Reply("wrong role", <<Amount("INV1", 4, "original"), Names("INV2"), Total(11)>>),
    Reply("money in", <<Names("INV1"), Names("INV2"), Amount("PMT1", 2, "open"),
                        Loose(6, {"received"}), Loose(2, {"received", "remit"}),
                        Subtotal(11), Total(9), Day(<<"PMT1">>, 4)>>),
    Reply("subtotals", <<Names("INV1"), Over(<<"INV2">>, 5),
                         Over(<<"INV1", "PMT1", "INV2">>, 11), Names("INV2"),
                         Total(11), Day(<< >>, 8), Day(<< >>, 5)>>),
    [Reply("nothing owed", <<Names("INV1"), Names("PMT1")>>) EXCEPT !.paidInFull = TRUE]
}

MCConfigs == {[mode |-> "prompt", maxRecoveries |-> 1]}
               \cup [mode : {"agentic"}, maxRecoveries : 0..2]

MCRevisionBudget == 2
MCFuzzyRevisionBudget == 1
MCMaxRevisions == 2

=============================================================================
