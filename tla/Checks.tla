------------------------------- MODULE Checks -------------------------------
(***************************************************************************)
(* The claim checkers (balancecheck/checks/checks.py): each compares one   *)
(* claim that the surface extractor found in a draft with the ledger.      *)
(*                                                                         *)
(* A claim, as extracted, is a record                                      *)
(*   type   : the claim type                                               *)
(*   word   : the document ID (C-EXIST) or status word (C-STATUS) stated   *)
(*   num    : the cents (C-AMT, C-SUM) or the day (C-DATE) stated, or      *)
(*            Unresolved when the token parses to neither                  *)
(*   docs   : the documents the extractor bound the claim to, in the order *)
(*            and as often as the sentence names them                      *)
(*   role   : which figure of the document an amount is said to be         *)
(*   span   : the cues of the sentence around it: money is to be sent      *)
(*            ("remit"), came in ("received"), or is a total of invoices   *)
(*            or line items ("items")                                      *)
(*   preset : the extractor itself found the quantity unverifiable         *)
(* A checked claim adds the status and the records the check cites.        *)
(***************************************************************************)
EXTENDS Ledger

CONSTANT Unresolved  \* what a token that parses to no figure stands for

ASSUME UnresolvedAssumption == Unresolved \notin Int

ClaimTypes == {"C-EXIST", "C-AMT", "C-SUM", "C-STATUS", "C-DATE", "C-FUZZY"}
CodeCheckedTypes == ClaimTypes \ {"C-FUZZY"}
CheckStatuses ==
    {"pass", "fail", "unsupported", "cannot_determine", "unverifiable", "none"}
Roles == {"open", "original", "applied", "total", "unknown"}
SpanCues == {"remit", "received", "items"}

\* The documents a claim is bound to, each once.
DocsOf(c) == {c.docs[k] : k \in DOMAIN c.docs}

\* What the extractor may produce, as far as the checkers tell claims apart.
ExtractedClaim(c) ==
    /\ c.type \in ClaimTypes
    /\ c.preset \in BOOLEAN
    /\ c.docs \in Seq(DocsOf(c))
    /\ c.role \in Roles
    /\ c.span \subseteq SpanCues

\* The label cited for a match against the computed net balance.
NetLabel == "NET"

Result(status, cites) == [status |-> status, cites |-> cites]

(***************************************************************************)
(* C-EXIST                                                                 *)
(***************************************************************************)
CheckExist(c, l) ==
    IF c.word \in DocumentIds(l) THEN Result("pass", {c.word})
                                 ELSE Result("fail", {})

(***************************************************************************)
(* C-AMT: exactly the figure the role names when the amount is bound to    *)
(* one document; otherwise what the sentence asserts decides.              *)
(***************************************************************************)
\* Seeded fault: any figure of the document will do.
RoleFigures_AnyRole(d, l) ==
    LET document == IF d \in InvoiceIds(l) THEN l.invoices[d] ELSE SourceDoc(l, d)
        applied  == IF d \in InvoiceIds(l) THEN AppliedToInvoice(l, d)
                                           ELSE AppliedFromSource(l, d)
    IN  [role \in Roles |-> {document.amount, applied, document.amount - applied}]

RoleFigures(d, l) ==
    LET original == IF d \in InvoiceIds(l) THEN l.invoices[d].amount
                                           ELSE SourceDoc(l, d).amount
        open     == IF d \in InvoiceIds(l) THEN OpenAmount(l, d)
                                           ELSE UnappliedAmount(l, d)
        applied  == IF d \in InvoiceIds(l) THEN AppliedToInvoice(l, d)
                                           ELSE AppliedFromSource(l, d)
    IN  [open     |-> {open},
         original |-> {original},
         applied  |-> {applied},
         total    |-> {original, open},
         unknown  |-> {original, open}]

CheckBoundAmount(c, d, l) ==
    CASE d \notin DocumentIds(l)            -> Result("fail", {})
      [] /\ d \in DocumentIds(l)
         /\ c.num \in RoleFigures(d, l)[c.role]
                                            -> Result("pass", {d})
      [] OTHER                              -> Result("fail", {d})

ReceivedFigures(l) ==
    {l.payments[p].amount : p \in PaymentIds(l)}
      \cup {UnappliedAmount(l, p) : p \in PaymentIds(l)}
      \cup {MapThenSumSet(LAMBDA p : l.payments[p].amount, PaymentIds(l))}

MatchedPayments(n, l) ==
    {p \in PaymentIds(l) : n \in {l.payments[p].amount, UnappliedAmount(l, p)}}

\* A received word wins when the sentence has both.
CheckUnboundAmount(c, l) ==
    CASE "received" \in c.span ->
           IF c.num \in ReceivedFigures(l)
             THEN Result("pass", MatchedPayments(c.num, l))
             ELSE Result("fail", {})
      [] "received" \notin c.span /\ "remit" \in c.span ->
           Result(IF c.num = NetBalance(l) THEN "pass" ELSE "fail", {NetLabel})
      [] OTHER ->
           CASE c.num = NetBalance(l)       -> Result("pass", {NetLabel})
             [] /\ c.num # NetBalance(l)
                /\ c.num = OpenInvoiceTotal(l)
                                            -> Result("fail", {NetLabel})
             [] OTHER                       -> Result("unverifiable", {})

CheckAmount(c, l) ==
    CASE c.num = Unresolved                 -> Result("unverifiable", {})
      [] c.num # Unresolved /\ Len(c.docs) = 1
                                            -> CheckBoundAmount(c, c.docs[1], l)
      [] OTHER                              -> CheckUnboundAmount(c, l)

(***************************************************************************)
(* C-SUM                                                                   *)
(***************************************************************************)
CheckSum(c, l) ==
    LET bound    == DocsOf(c) \cap InvoiceIds(l)
        \* One term for each time an invoice is named.
        subtotal == MapThenSumSet(LAMBDA k : OpenAmount(l, c.docs[k]),
                                  {k \in DOMAIN c.docs : c.docs[k] \in bound})
    IN  CASE c.num = Unresolved -> Result("unverifiable", {})
          [] c.num # Unresolved /\ bound # {} ->
               Result(IF c.num = subtotal THEN "pass" ELSE "fail", bound)
          [] c.num # Unresolved /\ bound = {} /\ c.num = NetBalance(l) ->
               Result("pass", {NetLabel})
          [] OTHER ->
               \* The open-invoice total passes only as a total of invoices.
               IF c.num = OpenInvoiceTotal(l) /\ "items" \in c.span
                 THEN Result("pass", OpenInvoices(l))
                 ELSE Result("fail", {NetLabel})

(***************************************************************************)
(* C-STATUS: a weaker word that is still true passes, a stronger one fails.*)
(***************************************************************************)
StatusCompat(status) ==
    CASE status = "paid"        -> {"paid", "settled", "cleared"}
      [] status = "outstanding" -> {"outstanding", "unpaid", "open"}
      [] status = "overdue"     ->
           {"overdue", "past due", "outstanding", "unpaid", "open"}

CheckStatusWord(c, l) ==
    IF Len(c.docs) # 1 \/ DocsOf(c) \cap InvoiceIds(l) = {}
      THEN Result("unverifiable", {})
      ELSE Result(IF c.word \in StatusCompat(InvoiceStatus(l, c.docs[1]))
                    THEN "pass" ELSE "fail",
                  DocsOf(c))

(***************************************************************************)
(* C-DATE: a date bound to documents must be carried by every one of them. *)
(***************************************************************************)
CarriedDates(d, l) ==
    IF d \in InvoiceIds(l) THEN {l.invoices[d].date, l.invoices[d].due}
                           ELSE {SourceDoc(l, d).date}

CheckDate(c, l) ==
    LET bound   == DocsOf(c) \cap DocumentIds(l)
        matches == {d \in DocumentIds(l) : c.num \in CarriedDates(d, l)}
    IN  CASE c.num = Unresolved -> Result("unverifiable", {})
          [] c.num # Unresolved /\ bound # {} ->
               Result(IF bound \subseteq matches THEN "pass" ELSE "fail", bound)
          [] OTHER ->
               Result(IF matches # {} \/ c.num = l.asOf THEN "pass" ELSE "fail",
                      matches \cup (IF c.num = l.asOf THEN {"AS_OF"} ELSE {}))

(***************************************************************************)
(* C-FUZZY: the isolated verifier's answer, its citations checked by code. *)
(* answer.kind is "failed" when the call failed or did not parse.          *)
(***************************************************************************)
VerifierAnswers(l) ==
    [kind  : {"failed", "supported", "unsupported", "cannot_determine"},
     cited : {{}, {"no such record"}, DocumentIds(l)}]

CheckFuzzy(answer, l) ==
    LET valid == answer.cited \cap DocumentIds(l)
    IN  CASE answer.kind = "failed" -> Result("cannot_determine", {})
          [] /\ answer.kind # "failed"
             /\ answer.cited \ DocumentIds(l) # {} ->
               Result("cannot_determine", valid)
          [] /\ answer.kind = "supported"
             /\ answer.cited \subseteq DocumentIds(l) ->
               \* Support must be shown by a citation, never asserted.
               IF valid = {} THEN Result("cannot_determine", {})
                             ELSE Result("pass", valid)
          [] OTHER -> Result(answer.kind, valid)

(***************************************************************************)
(* The runners over one draft's claims                                     *)
(***************************************************************************)
Checked(c, r) == [claim |-> c, status |-> r.status, cites |-> r.cites]

CodeCheck(c, l) ==
    CASE c.preset            -> Result("unverifiable", {})
      [] ~c.preset /\ c.type = "C-EXIST"  -> CheckExist(c, l)
      [] ~c.preset /\ c.type = "C-AMT"    -> CheckAmount(c, l)
      [] ~c.preset /\ c.type = "C-SUM"    -> CheckSum(c, l)
      [] ~c.preset /\ c.type = "C-STATUS" -> CheckStatusWord(c, l)
      [] ~c.preset /\ c.type = "C-DATE"   -> CheckDate(c, l)

\* A claim the code layer does not touch keeps no result.
RunCodeChecks(claims, l) ==
    [k \in DOMAIN claims |->
        Checked(claims[k],
                IF claims[k].type \in CodeCheckedTypes
                  THEN CodeCheck(claims[k], l) ELSE Result("none", {}))]

\* The code layer, then the verifier for every fuzzy claim still without a
\* result; answers[k] is what the verifier returns for claim k.
CheckAll(claims, l, answers) ==
    LET coded == RunCodeChecks(claims, l)
    IN  [k \in DOMAIN claims |->
            IF claims[k].type = "C-FUZZY" /\ coded[k].status = "none"
              THEN Checked(claims[k], CheckFuzzy(answers[k], l))
              ELSE coded[k]]

Passing(checked) == {k \in DOMAIN checked : checked[k].status = "pass"}

=============================================================================
