------------------------------- MODULE MCDrafts -------------------------------
(***************************************************************************)
(* The twelve fixtures of the foundry with their golden drafts, one with a *)
(* balance below zero, and two small accounts that replies are written     *)
(* about.                                                                  *)
(***************************************************************************)
EXTENDS DraftAudit, Foundry

First == [INV |-> 1000, PMT |-> 200, CM |-> 30]
Step  == [INV |-> 6, PMT |-> 4, CM |-> 3]

Fixtures ==
    LET pools == PoolA(ContextA(First, Step)) \o PoolB(ContextB(First, Step))
    IN  {pools[k] : k \in DOMAIN pools}

ASSUME FixturesAudited == \A l \in Fixtures : Audited(l)

\* One invoice is paid in part by a payment that is applied in part.
Mixed ==
    Assemble(ContextA(First, Step), {"has_partial", "has_unapplied_cash"},
        <<<<20, 50000>>, <<62, 30000>>>>, <<<<50, 45000>>>>, << >>,
        <<<<"PMT", 1, 1, 35000>>>>)

\* One invoice is paid, and the money for the other is not applied yet, so
\* that nothing is owed.
Square ==
    Assemble(ContextA(First, Step), {"has_unapplied_cash"},
        <<<<20, 50000>>, <<62, 30000>>>>, <<<<50, 50000>>, <<70, 30000>>>>, << >>,
        <<<<"PMT", 1, 1, 50000>>>>)

\* More was paid than is owed, by less than a broken sum adds.
InCredit ==
    Assemble(ContextA(First, Step), {"has_unapplied_cash"},
        <<<<20, 50000>>>>, <<<<50, 50999>>>>, << >>, << >>)

MCLedgers   == Fixtures \cup {Mixed, Square, InCredit}
MCMixedOnly == {Mixed}

PhrasesOf(l) ==
    LET first  == <<Ref(l.docs[1])>>
        second == <<Word("invoice"), PlainNumber(l.docs[2].num)>>
        cash   == <<Ref(l.docs[3])>>
        open   == <<Dollar(OpenAmount(l, RefId(l.docs[1])))>>
        total  == <<Dollar(OpenInvoiceTotal(l))>>
    IN  CASE l = Mixed ->
               {first, second, cash, open, total, <<Dollar(0)>>,
                <<PlainNumber(100), Word("usd")>>,
                <<Word("usd"), PlainNumber(300)>>,
                <<DateToken(l.invoices[RefId(l.docs[1])].due)>>,
                Words(<<"your", "account">>),
                Words(<<"paid">>),
                Words(<<"paid", "in", "full">>),
                Words(<<"of", "which">>),
                Words(<<"received">>)}
          [] l = Square ->
               {first, second, cash, total,
                <<Percent(50)>>,
                <<DateToken(l.invoices[RefId(l.docs[1])].due)>>,
                Words(<<"usd">>),
                Words(<<"dollars">>),
                Words(<<"paid">>),
                Words(<<"no", "balance">>),
                Words(<<"paid", "in", "full">>),
                Words(<<"originally">>)}
          [] OTHER -> {}

MCPhrases == [l \in MCLedgers |-> PhrasesOf(l)]

=============================================================================
