------------------------------ MODULE DraftAudit ------------------------------
(***************************************************************************)
(* Whole drafts as text, through extraction, checks and gate: the          *)
(* verification of the error runs (balancecheck/cli.py, cmd_errors), over  *)
(* golden drafts, their corruptions, and replies that a drafter writes     *)
(* phrase by phrase.                                                       *)
(***************************************************************************)
EXTENDS Golden, Oracle, Gate

CONSTANTS
    Ledgers,      \* the accounts drafts are written about
    Phrases,      \* ledger -> the phrases a draft about it is made of
    MaxPhrases,   \* how many of them one draft holds
    MaxSentences

\* The accounts are valid, with their documents listed in the order of the
\* records and none of them named like the balance; a phrase is made of tokens.
ASSUME LedgersAssumption ==
    \A l \in Ledgers : /\ LedgerRecord(l)
                       /\ WellFormed(l)
                       /\ NetLabel \notin DocumentIds(l)
                       /\ IsList(l.docs)
                       /\ {RefId(l.docs[k]) : k \in DOMAIN l.docs} = DocumentIds(l)
ASSUME PhrasesAssumption ==
    \A l \in Ledgers : \A phrase \in Phrases[l] : IsSentence(phrase)

\* The texts of the error runs: the golden draft and its corruptions.
ErrorRunTexts(l) ==
    LET golden == GoldenDraft(l)
    IN  {golden} \cup SwapAmount(golden, l) \cup FabricateId(golden, l)
          \cup BreakSum(golden, l) \cup InjectFuzzy(golden)

\* A token takes up a number of characters, and how a reference or an amount
\* is written is no word of a pattern.
Measured(s) == \A k \in DOMAIN s : Len(s[k].text) \in Nat \ {0}

SpelledOut(s) ==
    \A k \in DOMAIN s : s[k].kind \in {"doc", "amount"} => s[k].text \notin Vocabulary

ASSUME SpellingAssumption ==
    \A l \in Ledgers :
        /\ \A phrase \in Phrases[l] : Measured(phrase)
        /\ \A t \in ErrorRunTexts(l) : \A k \in DOMAIN t :
             Measured(t[k]) /\ SpelledOut(t[k])

\* The windows of the extractor and the wording of the golden draft fit: from
\* the balance one sees back to "balance due", and from an unapplied payment
\* not as far ahead as "applied".
ASSUME ReachAssumption ==
    /\ Back >= Len("balance") + Len("due") + Len("on") + Len("your")
                 + Len("account") + Len("is") + 6
    /\ Ahead < Len(",") + Len("which") + Len("has") + Len("not") + Len("yet")
                 + Len("been") + Len("applied") + 6

\* What a corruption writes is wrong: a figure with two digits exchanged is not
\* another figure of its document, and no document has a number tried for a
\* fresh reference behind leading zeros.
Unlike(n, figures) ==
    Transposable(n) => TransposeAdjacentDigits(n) \in Nat \ figures

ASSUME CorruptionAssumption ==
    \A l \in Ledgers :
        /\ Unlike(NetBalance(l), {NetBalance(l)})
        /\ \A i \in OpenInvoices(l) :
             Unlike(OpenAmount(l, i), {OpenAmount(l, i), l.invoices[i].amount})
        /\ \A s \in SourceIds(l) : UnappliedAmount(l, s) > 0 =>
             Unlike(UnappliedAmount(l, s), {UnappliedAmount(l, s), SourceDoc(l, s).amount})
        /\ \A n \in FreshNumbers : \A pad \in ZeroPads \ {""} :
             DocId("INV", pad, n) \notin DocumentIds(l)

\* There is a revision to send a first draft back for.
ASSUME RevisionAssumption == RevisionBudget > 0

VARIABLES
    ledger,
    origin,    \* how the text came about
    text,      \* the draft
    written,   \* phrases written so far
    checked,   \* its claims with their results
    decision   \* what the gate makes of it

vars == <<ledger, origin, text, written, checked, decision>>

Origins == {"blank", "golden", "swapped", "fabricated", "broken", "fuzzy", "written"}

Undecided == Decision("none", "none", {})

\* What the verifier can answer that makes a difference to a draft: one
\* answer, the same to each of its fuzzy claims.
Answers(claims) ==
    IF \E k \in DOMAIN claims : claims[k].type = "C-FUZZY"
      THEN {a \in VerifierAnswers(ledger) :
              a.kind \in {"failed", "cannot_determine"} => a.cited = {}}
      ELSE {[kind |-> "failed", cited |-> {}]}

\* Extract, check, decide, on the first revision of no earlier draft.
VerifyDraft(t) ==
    \E draft \in {DraftOf(t, ledger)} : \E answer \in Answers(draft.claims) :
        \E results \in {Listed(CheckAll(draft.claims, ledger,
                                [k \in DOMAIN draft.claims |-> answer]))} :
          /\ text' = t
          /\ checked' = results
          /\ decision' = Decide(results, draft, ledger, 0, <<t>>)
          /\ UNCHANGED ledger

Init ==
    /\ ledger \in Ledgers
    /\ origin = "blank"
    /\ text = << >>
    /\ written = 0
    /\ checked = << >>
    /\ decision = Undecided

\* The clean control.
VerifyGolden ==
    /\ origin = "blank"
    /\ origin' = "golden"
    /\ VerifyDraft(GoldenDraft(ledger))
    /\ UNCHANGED written

Corruption(how) ==
    CASE how = "swapped"    -> SwapAmount(text, ledger)
      [] how = "fabricated" -> FabricateId(text, ledger)
      [] how = "broken"     -> BreakSum(text, ledger)
      [] how = "fuzzy"      -> InjectFuzzy(text)

VerifyCorrupted ==
    /\ origin = "golden"
    /\ origin' \in {"swapped", "fabricated", "broken", "fuzzy"}
    /\ \E t \in Corruption(origin') : VerifyDraft(t)
    /\ UNCHANGED written

\* The drafter adds a phrase to the last sentence or begins another with it.
Write(phrase) ==
    /\ origin \in {"blank", "written"}
    /\ written < MaxPhrases
    /\ origin' = "written"
    /\ written' = written + 1
    /\ \E t \in (IF text = << >> THEN {}
                   ELSE {[text EXCEPT ![Len(text)] = @ \o phrase]})
                  \cup (IF Len(text) < MaxSentences THEN {Append(text, phrase)}
                          ELSE {}) :
          VerifyDraft(t)

Next ==
    \/ VerifyGolden
    \/ VerifyCorrupted
    \/ \E phrase \in Phrases[ledger] : Write(phrase)

Spec == Init /\ [][Next]_vars

-----------------------------------------------------------------------------
AllPass == \A k \in DOMAIN checked : checked[k].status = "pass"

(***************************************************************************)
(* I11: what a detector catches becomes a claim                            *)
(***************************************************************************)
\* A number or a date that one of the detectors matches, looked at by itself.
LooksLikeMoney(s, k) ==
    LET beside(j, markers) == j \in DOMAIN s /\ s[j].text \in markers
    IN  /\ s[k].kind = "amount"
        /\ \/ s[k].form # "plain"
           \/ beside(k - 1, {"usd"})
           \/ beside(k + 1, Markers)

Claims(types) == {c \in DOMAIN checked : checked[c].claim.type \in types}

IsClaimed(t) ==
    IF t.kind = "date"
      THEN \E c \in Claims({"C-DATE"}) : checked[c].claim.num = t.num
      ELSE \E c \in Claims({"C-AMT", "C-SUM"}) :
              \/ checked[c].claim.num = t.num
              \/ t.form \in {"misgrouped", "percent"} /\ checked[c].claim.preset

Caught(s) == {k \in DOMAIN s : s[k].kind = "date" \/ LooksLikeMoney(s, k)}

\* Lost to a currency marker (surface.py:96-104, 409-415): the percentage of
\* "USD 50%", which is read as $50.00; the date of "USD 2026-02-19" and of
\* "2026-02-19 dollars", whose year or day is read as money; and the 100 of
\* "100 USD 350", whose marker the other number takes.
TakenByMarker(s, k) ==
    \/ ~BareDigits(s[k]) /\ Prefixed(s, k)
    \/ s[k].kind = "date" /\ Suffixed(s, k)
    \/ /\ s[k].kind = "amount" /\ s[k].form = "plain" /\ ~Prefixed(s, k)
       /\ k + 2 \in DOMAIN s /\ Prefixed(s, k + 2)

\* Every figure written in digits, percentage and date that a detector catches
\* is in a claim that the code checks or that is already unverifiable
\* (surface.py:3-9), whatever stands around it but a currency marker that
\* takes its digits.
CaughtIsClaimed ==
    \A k \in DOMAIN text : \A j \in Caught(text[k]) :
        TakenByMarker(text[k], j) \/ IsClaimed(text[k][j])

(***************************************************************************)
(* What a draft whose claims all pass can say                              *)
(***************************************************************************)
InvoicesNamed(s) ==
    LET m == Mentions(LaidOut(s), ledger)
    IN  DocsAt(m, {k \in DOMAIN m : m[k].fam = "INV" /\ m[k].doc \in InvoiceIds(ledger)})

SumOpen(D) == MapThenSumSet(LAMBDA i : OpenAmount(ledger, i), D)

\* The oracle has no figure of zero (oracle.py:194-209): nothing is owed on
\* any invoice, or nothing was applied of or to a document named.
NothingThere(named) ==
    \/ \A i \in InvoiceIds(ledger) : Replay(ledger).remaining[i] = 0
    \/ \E k \in DOMAIN named : \A j \in DOMAIN ledger.applications :
         named[k].doc \notin {ledger.applications[j].source, ledger.applications[j].target}

\* A figure the records bear out for a sentence: one of the oracle's, a sum of
\* open amounts of the invoices it names, the cash received, or nothing.
BorneOut(n, s) ==
    LET named   == Mentions(LaidOut(s), ledger)
        figures == DocumentFigures(ledger)
    IN  \/ n \in AccountTotals(ledger)
        \/ \E k \in DOMAIN named :
              /\ named[k].doc \in DocumentIds(ledger)
              /\ n \in figures[named[k].doc]
        \/ InvoicesNamed(s) # << >> /\ n = SumOpen(Range(InvoicesNamed(s)))
        \/ n \in ReceivedFigures(ledger)
        \/ n = 0 /\ NothingThere(named)

NamesOneTwice(s) == ~IsInjective(InvoicesNamed(s))

\* When every claim of a draft passes, each amount in it is a figure of what
\* the sentence names: of the replay of the raw records, of the open amounts
\* added up, or of the cash received.  The totals of the account count in any
\* sentence.  A sentence that names an invoice twice (surface.py:394-395, 476)
\* and a figure lost to a currency marker are left out.
PassedFiguresAreBorneOut ==
    AllPass => \A k \in DOMAIN text : \A j \in Caught(text[k]) :
        \/ NamesOneTwice(text[k])
        \/ text[k][j].kind = "date"
        \/ TakenByMarker(text[k], j)
        \/ BorneOut(text[k][j].num, text[k])

\* A sentence says of what it names that it is paid: in other words, as settled
\* or cleared, or as paid where it does not take an invoice apart.
SaysPaid(s) ==
    LET stated == {m.words : m \in Matches(s, StatusPhrases)}
    IN  \/ Says(s, PaidParaphrases)
        \/ stated \cap One({"settled", "cleared"}) # {}
        \/ <<"paid">> \in stated /\ ~Says(s, DecompositionPhrases)

\* A draft that passes never says of the one invoice in a sentence that it is
\* paid, settled or cleared while the records leave something of it open.  The
\* word "paid" itself is no claim in a sentence that takes an invoice apart
\* (surface.py:563-573): "INV-1006, originally $500.00, is paid" passes.
NoOpenInvoiceCalledPaid ==
    AllPass => \A k \in DOMAIN text :
        LET s == LaidOut(text[k])
        IN  ( /\ SaysPaid(s)
              /\ Len(Mentions(s, ledger)) = 1
              /\ Len(InvoicesNamed(text[k])) = 1 )
            => OpenAmount(ledger, InvoicesNamed(text[k])[1]) = 0

\* A subtotal is a sum over two or more invoices (surface.py:472-473).  It
\* does not hold: an invoice is counted as often as the sentence names it.
SubtotalNamesTwoInvoices ==
    \A c \in Claims({"C-SUM"}) :
        checked[c].claim.docs # << >> => Cardinality(DocsOf(checked[c].claim)) >= 2

(***************************************************************************)
(* The error runs                                                          *)
(***************************************************************************)
\* The clean control verifies clean, and the oracle agrees; an ambiguous
\* account abstains all the same.
GoldenVerifiesClean ==
    origin = "golden" =>
        /\ AllPass
        /\ OracleVerifies(text, ledger)
        /\ decision.action = IF Ambiguous(ledger) THEN "abstain" ELSE "human_gate"

\* No corruption of a golden draft reaches the human gate.
CorruptionIsCaught ==
    /\ origin \in {"swapped", "broken"} => decision.action = "revise"
    /\ origin = "fabricated" => decision.action = "escalate"
    /\ origin = "fuzzy" =>
         \/ decision.action \in {"revise", "escalate"}
         \/ \E k \in Claims({"C-FUZZY"}) :
              checked[k].status = "pass" /\ checked[k].cites # {}

=============================================================================
