------------------------------- MODULE Foundry -------------------------------
(***************************************************************************)
(* The fixture foundry (balancecheck/substrate/foundry.py) and the         *)
(* signature detected from a ledger's records (derive.py).                 *)
(*                                                                         *)
(* A context numbers a pool's documents and carries its client:            *)
(*   first, step : per family, the number before the first document and    *)
(*                 the distance to the next one                            *)
(*   asOf, terms : the statement day and the days until an invoice is due  *)
(* Ledgers carry, beside their records,                                    *)
(*   docs   : the references of the documents, in the order of the records *)
(*   labels : the structure the foundry meant to build                     *)
(***************************************************************************)
EXTENDS Surface

CutoffWindowDays == 5

StructureLabels ==
    {"has_unapplied_cash", "has_partial", "has_open_credit",
     "has_near_duplicate", "has_cutoff_risk", "has_ambiguous_allocation"}

DocDays(l) ==
    {l.invoices[i].date : i \in InvoiceIds(l)}
      \cup {SourceDoc(l, s).date : s \in SourceIds(l)}

\* The labels the records themselves show.
Signature(l) ==
    {label \in StructureLabels :
        CASE label = "has_unapplied_cash" ->
               \E p \in PaymentIds(l) : UnappliedAmount(l, p) > 0
          [] label = "has_partial" ->
               \E i \in InvoiceIds(l) :
                  0 < AppliedToInvoice(l, i) /\ AppliedToInvoice(l, i) < l.invoices[i].amount
          [] label = "has_open_credit" ->
               \E c \in CreditIds(l) : UnappliedAmount(l, c) > 0
          [] label = "has_near_duplicate" ->
               \E i, j \in InvoiceIds(l) :
                  i # j /\ l.invoices[i].amount = l.invoices[j].amount
          [] label = "has_cutoff_risk" ->
               \E d \in DocDays(l) : d >= l.asOf - CutoffWindowDays
          [] label = "has_ambiguous_allocation" -> Ambiguous(l)}

\* The foundry's audit: what was built is sound and is what was meant.
Audited(l) == WellFormed(l) /\ Signature(l) = l.labels

(***************************************************************************)
(* Documents and their assembly                                            *)
(***************************************************************************)
ZeroPadded(n) ==
    CASE n < 10 -> "000" [] n \in 10..99 -> "00" [] n \in 100..999 -> "0" [] OTHER -> ""

\* The k-th document of a family in a context.
FoundryRef(ctx, fam, k) ==
    LET n == ctx.first[fam] + k * ctx.step[fam]
    IN  [fam |-> fam, pad |-> IF fam = "INV" THEN "" ELSE ZeroPadded(n), num |-> n]

\* invoices: <<issued, cents>>; payments and credits: <<day, cents>>;
\* applications: <<family, source, invoice, cents>>, by position.
Assemble(ctx, labels, invoices, payments, credits, applications) ==
    LET refs(fam, docs) == [k \in DOMAIN docs |-> FoundryRef(ctx, fam, k)]
        id(fam, k)      == DocId(fam, FoundryRef(ctx, fam, k).pad,
                                 FoundryRef(ctx, fam, k).num)
        ids(fam, docs)  == {id(fam, k) : k \in DOMAIN docs}
        place(fam, docs, d) == CHOOSE k \in DOMAIN docs : id(fam, k) = d
        plain(fam, docs) ==
          [d \in ids(fam, docs) |->
             [date |-> docs[place(fam, docs, d)][1],
              amount |-> docs[place(fam, docs, d)][2]]]
    IN  [invoices |->
           [d \in ids("INV", invoices) |->
              [date   |-> invoices[place("INV", invoices, d)][1],
               amount |-> invoices[place("INV", invoices, d)][2],
               due    |-> invoices[place("INV", invoices, d)][1] + ctx.terms]],
         payments     |-> plain("PMT", payments),
         credits      |-> plain("CM", credits),
         applications |-> [k \in DOMAIN applications |->
                             [source |-> id(applications[k][1], applications[k][2]),
                              target |-> id("INV", applications[k][3]),
                              amount |-> applications[k][4]]],
         asOf         |-> ctx.asOf,
         docs         |-> refs("INV", invoices) \o refs("PMT", payments)
                            \o refs("CM", credits),
         labels       |-> labels]

(***************************************************************************)
(* The six archetypes.  An invoice is <<issued, cents>>, a paid invoice    *)
(* <<issued, cents, paid on>>, a payment or credit <<day, cents>>.         *)
(***************************************************************************)
InvoiceOf(paid) == <<paid[1], paid[2]>>
PaymentOf(paid) == <<paid[3], paid[2]>>

CleanBaseline(ctx, paid, open) ==
    Assemble(ctx, {},
        [k \in DOMAIN paid |-> InvoiceOf(paid[k])] \o open,
        [k \in DOMAIN paid |-> PaymentOf(paid[k])], << >>,
        [k \in DOMAIN paid |-> <<"PMT", k, k, paid[k][2]>>])

UnappliedCash(ctx, matched, other, paid, remittance) ==
    Assemble(ctx, {"has_unapplied_cash"},
        <<matched, other, InvoiceOf(paid)>>, <<PaymentOf(paid), remittance>>, << >>,
        <<<<"PMT", 1, 3, paid[2]>>>>)

PartialPayment(ctx, target, partial, open, paid) ==
    Assemble(ctx, {"has_partial"},
        <<target, open, InvoiceOf(paid)>>, <<partial, PaymentOf(paid)>>, << >>,
        <<<<"PMT", 1, 1, partial[2]>>, <<"PMT", 2, 3, paid[2]>>>>)

OpenCredit(ctx, open, paid, credit) ==
    Assemble(ctx, {"has_open_credit"},
        open \o <<InvoiceOf(paid)>>, <<PaymentOf(paid)>>, <<credit>>,
        <<<<"PMT", 1, Len(open) + 1, paid[2]>>>>)

NearDuplicateCutoff(ctx, amount, issued, paidIssued, paidOn, extra) ==
    Assemble(ctx, {"has_near_duplicate", "has_cutoff_risk"},
        <<<<issued, amount>>, <<paidIssued, amount>>, extra>>,
        <<<<paidOn, amount>>>>, << >>, <<<<"PMT", 1, 2, amount>>>>)

AmbiguousAllocation(ctx, amount, issued1, issued2, paid, remittedOn) ==
    Assemble(ctx,
        {"has_unapplied_cash", "has_near_duplicate", "has_ambiguous_allocation"},
        <<<<issued1, amount>>, <<issued2, amount>>, InvoiceOf(paid)>>,
        <<PaymentOf(paid), <<remittedOn, amount>>>>, << >>,
        <<<<"PMT", 1, 3, paid[2]>>>>)

(***************************************************************************)
(* The twelve scenarios.  Days are counted from the start of the year.     *)
(***************************************************************************)
Day(month, day) == MonthStarts[month] + day

ContextA(first, step) ==
    [first |-> first, step |-> step, asOf |-> Day(3, 31), terms |-> 30]

ContextB(first, step) ==
    [first |-> first, step |-> step, asOf |-> Day(4, 30), terms |-> 45]

PoolA(ctx) == <<
    CleanBaseline(ctx,
        <<<<Day(1, 12), 485000, Day(2, 18)>>, <<Day(1, 28), 76000, Day(3, 6)>>>>,
        <<<<Day(2, 3), 1240000>>, <<Day(3, 2), 197550>>>>),
    UnappliedCash(ctx, <<Day(1, 20), 630000>>, <<Day(2, 11), 215000>>,
        <<Day(1, 8), 987550, Day(2, 6)>>, <<Day(3, 10), 630000>>),
    PartialPayment(ctx, <<Day(1, 15), 820000>>, <<Day(2, 20), 300000>>,
        <<Day(2, 26), 145050>>, <<Day(1, 5), 560000, Day(2, 2)>>),
    OpenCredit(ctx, <<<<Day(2, 14), 375000>>, <<Day(1, 27), 1120000>>>>,
        <<Day(1, 9), 240050, Day(2, 10)>>, <<Day(3, 2), 85000>>),
    NearDuplicateCutoff(ctx, 540000, Day(2, 10), Day(2, 24), Day(3, 28),
        <<Day(1, 30), 182500>>),
    AmbiguousAllocation(ctx, 725000, Day(2, 5), Day(3, 3),
        <<Day(1, 22), 390050, Day(2, 17)>>, Day(3, 12))>>

PoolB(ctx) == <<
    CleanBaseline(ctx,
        <<<<Day(2, 9), 734000, Day(3, 16)>>, <<Day(2, 25), 112000, Day(4, 2)>>>>,
        <<<<Day(3, 4), 1575050>>, <<Day(4, 1), 298000>>>>),
    UnappliedCash(ctx, <<Day(2, 18), 472500>>, <<Day(3, 9), 934050>>,
        <<Day(2, 2), 618000, Day(3, 6)>>, <<Day(4, 10), 472500>>),
    PartialPayment(ctx, <<Day(2, 12), 1260000>>, <<Day(3, 24), 500000>>,
        <<Day(3, 30), 327550>>, <<Day(2, 4), 814000, Day(3, 2)>>),
    OpenCredit(ctx, <<<<Day(3, 6), 685000>>, <<Day(2, 19), 1430050>>>>,
        <<Day(1, 29), 312000, Day(2, 24)>>, <<Day(4, 3), 127500>>),
    NearDuplicateCutoff(ctx, 890000, Day(3, 11), Day(3, 18), Day(4, 27),
        <<Day(2, 27), 241550>>),
    AmbiguousAllocation(ctx, 567500, Day(3, 5), Day(3, 26),
        <<Day(2, 10), 948050, Day(3, 13)>>, Day(4, 8))>>

=============================================================================
