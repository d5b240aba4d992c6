------------------------------- MODULE Golden -------------------------------
(***************************************************************************)
(* The reference draft rendered from the records (balancecheck/drafting/   *)
(* golden.py), and the corruptions the error runs apply to it (balance-    *)
(* check/bench/corrupt.py).  Ledgers here also carry                       *)
(*   docs : the references [fam, pad, num] of its documents, in the order  *)
(*          of the records                                                 *)
(***************************************************************************)
EXTENDS Surface

Words(ws) == [k \in DOMAIN ws |-> Word(ws[k])]

Ref(d) == DocToken(d.fam, d.pad, d.num)
RefId(d) == DocId(d.fam, d.pad, d.num)

\* The references of some documents, in the order of the records.
InOrder(l, D) ==
    FlattenSeq(Listed([k \in DOMAIN l.docs |->
                         IF RefId(l.docs[k]) \in D THEN <<l.docs[k]>> ELSE << >>]))

(***************************************************************************)
(* The sentences of the reply                                              *)
(***************************************************************************)
Opening(l) ==
    <<Words(<<"thank", "you", "for", "reaching", "out", "about", "your", "account">>),
      Words(<<"here", "is", "the", "current", "position", "as", "of">>)
        \o <<DateToken(l.asOf)>>>>

BalanceSentence(l) ==
    Words(<<"the", "balance", "due", "on", "your", "account", "is">>)
      \o <<Dollar(NetBalance(l))>>

InvoiceSentence(d, l) ==
    LET i == RefId(d)
    IN  <<Word("-"), Ref(d), Word("dated"), DateToken(l.invoices[i].date),
          Word(","), Word("due"), DateToken(l.invoices[i].due), Word(":"),
          Dollar(OpenAmount(l, i)), Word(InvoiceStatus(l, i))>>

PaymentSentences(d, l) ==
    <<Words(<<"we", "have", "received", "your", "payment">>)
        \o <<Ref(d), Word("of"), Dollar(UnappliedAmount(l, RefId(d)))>>
        \o Words(<<",", "which", "has", "not", "yet", "been", "applied", "to",
                   "a", "specific", "invoice">>),
      Words(<<"it", "is", "reflected", "in", "the", "balance", "above">>)>>

CreditSentence(d, l) ==
    Words(<<"an", "open", "credit", "memo">>)
      \o <<Ref(d), Word("of"), Dollar(UnappliedAmount(l, RefId(d)))>>
      \o Words(<<"is", "also", "reflected", "in", "the", "balance", "above">>)

Closing ==
    Words(<<"if", "you", "have", "questions", "about", "any", "of", "the",
            "items", "above", ",", "please", "reply", "to", "this", "message",
            "and", "we", "will", "be", "glad", "to", "walk", "through",
            "them", "with", "you">>)

GoldenDraft(l) ==
    LET each(D, Say(_, _)) ==
          LET refs == InOrder(l, D) IN [k \in DOMAIN refs |-> Say(refs[k], l)]
        open == each(OpenInvoices(l), InvoiceSentence)
    IN  Opening(l)
          \o <<BalanceSentence(l)>>
          \o (IF open = << >> THEN << >>
              ELSE <<Words(<<"this", "balance", "reflects", "the", "following",
                             "open", "invoices", ":">>)>>)
          \o open
          \o FlattenSeq(each({p \in PaymentIds(l) : UnappliedAmount(l, p) > 0},
                             PaymentSentences))
          \o each({c \in CreditIds(l) : UnappliedAmount(l, c) > 0}, CreditSentence)
          \o <<Closing>>

(***************************************************************************)
(* Corruptions.  Each gives the set of its results: one text, or none when *)
(* the draft offers nothing to corrupt.                                    *)
(***************************************************************************)
Places(text) == {p \in (DOMAIN text) \X (1..50) : p[2] <= Len(text[p[1]])}

At(text, p) == text[p[1]][p[2]]

FirstOf(P) == CHOOSE p \in P : \A q \in P : p[1] < q[1] \/ (p[1] = q[1] /\ p[2] <= q[2])

Replace(text, p, token) == [text EXCEPT ![p[1]][p[2]] = token]

DollarPlaces(text) ==
    {p \in Places(text) : At(text, p).kind = "amount" /\ At(text, p).form = "dollar"}

\* Two adjacent digits that differ change places, after the first digit when
\* there are such.  Not defined for a value with none.
Transposable(n) ==
    n > 0 /\ \E k \in 1..(Len(Digits(n)) - 1) : Digits(n)[k] # Digits(n)[k + 1]

TransposeAdjacentDigits(n) ==
    LET ds      == Digits(n)
        differ  == {k \in 1..(Len(ds) - 1) : ds[k] # ds[k + 1]}
        later   == {k \in differ : k >= 2}
        pick    == Min(IF later # {} THEN later ELSE differ)
    IN  FromDigits([ds EXCEPT ![pick] = ds[pick + 1], ![pick + 1] = ds[pick]])

\* The first amount other than the balance, else the first amount.
SwapAmount(text, l) ==
    LET dollars == DollarPlaces(text)
        others  == {p \in dollars : At(text, p).num # NetBalance(l)}
        pick    == FirstOf(IF others # {} THEN others ELSE dollars)
    IN  IF dollars = {} \/ ~Transposable(At(text, pick).num) THEN {}
        ELSE {Replace(text, pick, Dollar(TransposeAdjacentDigits(At(text, pick).num)))}

\* The numbers tried for a reference that exists nowhere.
FreshNumbers == 9000..9999

\* The first real invoice named becomes one that exists nowhere.
FabricateId(text, l) ==
    LET real == {p \in Places(text) : At(text, p).text \in InvoiceIds(l)}
        free == {n \in FreshNumbers :
                   /\ DocId("INV", "", n) \notin DocumentIds(l)
                   /\ \A p \in Places(text) : At(text, p).text # DocId("INV", "", n)}
    IN  IF real = {} \/ free = {} THEN {}
        ELSE {Replace(text, FirstOf(real), DocToken("INV", "", Min(free)))}

BreakSum(text, l) ==
    LET stated == {p \in DollarPlaces(text) : At(text, p).num = NetBalance(l)}
    IN  IF stated = {} THEN {}
        ELSE {Replace(text, FirstOf(stated), Dollar(NetBalance(l) + 1000))}

FuzzySentences ==
    {Words(<<"your", "account", "manager", "approved", "a", "waiver", "of",
             "the", "late", "fees", "on", "this", "balance">>),
     Words(<<"as", "we", "discussed", "by", "phone", ",", "we", "will", "hold",
             "this", "invoice", "until", "next", "quarter">>)}

\* Which sentence is appended depends on the length of the draft.
InjectFuzzy(text) == {Append(text, s) : s \in FuzzySentences}

=============================================================================
