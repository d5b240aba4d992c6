------------------------------- MODULE Oracle -------------------------------
(***************************************************************************)
(* The independent grounding score (balancecheck/bench/oracle.py): it      *)
(* replays the raw records itself and binds each dollar amount to the      *)
(* document its sentence names, sharing nothing with the checkers.         *)
(***************************************************************************)
EXTENDS Surface

DocumentFigures(l) ==
    LET r == Replay(l)
        to(d)   == MapThenSumSet(LAMBDA k : l.applications[k].amount,
                     {k \in DOMAIN l.applications : l.applications[k].target = d})
        from(d) == MapThenSumSet(LAMBDA k : l.applications[k].amount,
                     {k \in DOMAIN l.applications : l.applications[k].source = d})
        some(n) == IF n > 0 THEN {n} ELSE {}
    IN  [d \in DocumentIds(l) |->
            IF d \in InvoiceIds(l)
              THEN {l.invoices[d].amount, r.remaining[d]} \cup some(to(d))
              ELSE {SourceDoc(l, d).amount, r.credit[d]} \cup some(from(d))]

\* Zero is a total only when nothing is owed.
AccountTotals(l) ==
    LET r    == Replay(l)
        open == MapThenSumSet(LAMBDA i : r.remaining[i], InvoiceIds(l))
        cash == MapThenSumSet(LAMBDA p : r.credit[p], PaymentIds(l))
        memo == MapThenSumSet(LAMBDA c : r.credit[c], CreditIds(l))
        net  == open - cash - memo
    IN  {open, cash, memo, net} \ (IF net = 0 THEN {} ELSE {0})

OracleAmounts(s) ==
    {s[k].num : k \in {j \in DOMAIN s : s[j].kind = "amount"
                                        /\ s[j].form \in {"dollar", "misgrouped"}}}

\* Only exact references count, as often as the sentence makes them.
KnownPlaces(s, l) == {k \in DOMAIN s : s[k].kind = "doc" /\ s[k].text \in DocumentIds(l)}

Grounded(n, s, l) ==
    LET figures == DocumentFigures(l)
        known   == KnownPlaces(s, l)
        named   == UNION {figures[s[k].text] : k \in known}
    IN  CASE Cardinality(known) = 1 -> n \in named
          [] known = {}             -> n \in AccountTotals(l)
          [] OTHER                  -> n \in named \cup AccountTotals(l)

\* What the oracle could not ground in a draft.
Unmatched(text, l) ==
    UNION {  {n \in OracleAmounts(text[k]) : ~Grounded(n, text[k], l)}
           : k \in DOMAIN text}

UnknownIds(text, l) ==
    (UNION {{text[k][j].text : j \in {i \in DOMAIN text[k] : text[k][i].kind = "doc"}}
              : k \in DOMAIN text}) \ DocumentIds(l)

OracleVerifies(text, l) == Unmatched(text, l) = {} /\ UnknownIds(text, l) = {}

=============================================================================
