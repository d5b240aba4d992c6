------------------------------- MODULE Lexicon -------------------------------
(***************************************************************************)
(* The word lists of the surface extractor (balancecheck/drafting/         *)
(* surface.py) and of the sentence tests in balancecheck/checks/checks.py  *)
(* and balancecheck/bench/score.py.  A pattern is the set of phrases it    *)
(* matches, a phrase a sequence of lower-case words; a space in the        *)
(* pattern stands between two words that only white space separates.       *)
(***************************************************************************)
EXTENDS Integers, Sequences

\* Phrases of one word each; a phrase of A followed by one of B; and the
\* optional parts of a pattern.
One(words)  == {<<w>> : w \in words}
Then(A, B)  == {a \o b : a \in A, b \in B}
Optional(A) == A \cup {<< >>}

Determiners == Optional(One({"the", "this", "that", "your"}))

\* No phrase below is longer.
LongestPhrase == 5

(***************************************************************************)
(* What an amount is: a total, or one figure of one document               *)
(***************************************************************************)
TotalMarkers ==
    Then(One({"your", "the"}), One({"account"}))
      \cup Then(One({"account", "net", "total"}), One({"balance"}))
      \cup {<<"balance", "due", "on">>, <<"total", "amount", "due">>,
            <<"total", "due">>, <<"grand", "total">>, <<"in", "total">>}
      \cup One({"altogether", "combined", "total"})

SumPhrases ==
    Then(One({"balance"}), One({"due", "of", "is"}))
      \cup {<<"amount", "due">>}
      \cup One({"total", "owe", "owes", "owed", "owing"})

\* "of the balance" and the like: the amount is said of the account.
BalanceObjects ==
    Then(Then(One({"of"}), Determiners),
         One({"balance", "total", "amount", "account"}))

SubtotalCues ==
    One({"invoice", "invoices"})
      \cup Then(One({"line", "open"}), One({"item", "items"}))

OriginalPhrases ==
    {<<"originally">>, <<"original", "amount">>, <<"issued", "for">>,
     <<"was", "for">>, <<"was", "issued", "for">>, <<"face", "value">>,
     <<"full", "amount">>}
      \cup Then(One({"billed", "invoiced"}), One({"for", "at"}))

AppliedPhrases == One({"paid", "applied", "remitted"}) \cup {<<"of", "which">>}

OpenPhrases ==
    One({"open", "remaining", "remains", "outstanding", "left", "owing",
         "owed", "due"})
      \cup Then(One({"still", "now", "currently", "amount", "balance"}),
                One({"due"}))
      \cup {<<"balance", "of">>}

(***************************************************************************)
(* Statuses, and the phrases that say an invoice is paid in other words    *)
(***************************************************************************)
StatusPhrases ==
    One({"unpaid", "paid", "outstanding", "overdue", "settled", "cleared"})
      \cup {<<"past", "due">>}

NothingOwed ==
    Then(Then(Then(One({"nothing"}), Optional(One({"further"}))),
              Optional(One({"is"}))),
         One({"owed"}))

NoLongerOwed == Then({<<"no", "longer">>}, One({"owe", "owed"}))

PaidParaphrases ==
    {<<"taken", "care", "of">>, <<"paid", "off">>, <<"paid", "in", "full">>,
     <<"settled", "in", "full">>, <<"cleared", "up">>, <<"fully", "paid">>}
      \cup NothingOwed \cup NoLongerOwed

\* In a sentence that takes an invoice apart, "paid" is not its status.
DecompositionPhrases ==
    One({"originally", "leaving", "partial", "partially"})
      \cup {<<"original", "amount">>, <<"of", "which">>}

(***************************************************************************)
(* Sentences: what the records cannot bear out, and what money is said to  *)
(* have done                                                               *)
(***************************************************************************)
FuzzyPhrases ==
    One({"approve", "approved", "approval", "agree", "agreed", "agreement",
         "waive", "waived", "waiver", "waiving", "promise", "promised",
         "promises", "promising", "confirm", "confirms", "confirmed",
         "confirming", "discuss", "discussed", "discusses", "discussing",
         "discussion", "arrange", "arranged", "arranges", "arranging",
         "arrangement", "spoke", "spoken", "told", "call", "called"})
      \cup {<<"account", "manager">>, <<"as", "we", "discussed">>,
            <<"per", "our", "conversation">>, <<"taken", "care", "of">>,
            <<"paid", "off">>, <<"settled", "in", "full">>}
      \cup NothingOwed \cup NoLongerOwed

RemitPhrases ==
    One({"remit", "send", "wire", "transfer"})
      \cup {<<"please", "pay">>, <<"pay", "us">>, <<"kindly", "pay">>}

ReceivedPhrases ==
    One({"receive", "received"})
      \cup {<<"we", "got">>, <<"thank", "you", "for", "your", "payment">>}

NoBalancePhrases ==
    {<<"no", "balance">>, <<"fully", "paid">>, <<"paid", "in", "full">>}
      \cup NothingOwed

(***************************************************************************)
(* Numbers in words                                                        *)
(***************************************************************************)
Units ==
    [one |-> 1, two |-> 2, three |-> 3, four |-> 4, five |-> 5, six |-> 6,
     seven |-> 7, eight |-> 8, nine |-> 9, ten |-> 10, eleven |-> 11,
     twelve |-> 12, thirteen |-> 13, fourteen |-> 14, fifteen |-> 15,
     sixteen |-> 16, seventeen |-> 17, eighteen |-> 18, nineteen |-> 19,
     twenty |-> 20, thirty |-> 30, forty |-> 40, fifty |-> 50, sixty |-> 60,
     seventy |-> 70, eighty |-> 80, ninety |-> 90]

NumberWords == DOMAIN Units \cup {"hundred", "thousand"}

\* The dollars a phrase of number words comes to.
WordsToDollars(words) ==
    LET read[k \in 0..Len(words)] ==
          IF k = 0 THEN [total |-> 0, current |-> 0]
          ELSE LET sofar == read[k - 1]
                   some  == IF sofar.current = 0 THEN 1 ELSE sofar.current
               IN  CASE words[k] = "and"      -> sofar
                     [] words[k] = "hundred"  -> [sofar EXCEPT !.current = some * 100]
                     [] words[k] = "thousand" ->
                          [total |-> sofar.total + some * 1000, current |-> 0]
                     [] words[k] \in DOMAIN Units ->
                          [sofar EXCEPT !.current = @ + Units[words[k]]]
    IN  read[Len(words)].total + read[Len(words)].current

FractionHeads ==
    Then(Then(Then(Optional(One({"a", "one", "two", "three"})),
                   One({"half", "halfs", "third", "thirds", "quarter", "quarters"})),
              One({"of"})),
         Determiners)

\* The currency words that may stand beside a figure.
Markers == {"usd", "dollar", "dollars"}

\* The words that begin with an object of a fraction, each with the object.
FractionObjects ==
    [invoice |-> "invoice", invoices |-> "invoice", invoiced |-> "invoice",
     balance |-> "balance", balances |-> "balance",
     total |-> "total", totals |-> "total",
     amount |-> "amount", amounts |-> "amount"]

(***************************************************************************)
(* The words of all patterns, and of the currency                          *)
(***************************************************************************)
Patterns ==
    {TotalMarkers, SumPhrases, BalanceObjects, SubtotalCues, OriginalPhrases,
     AppliedPhrases, OpenPhrases, StatusPhrases, PaidParaphrases,
     DecompositionPhrases, FuzzyPhrases, RemitPhrases, ReceivedPhrases,
     NoBalancePhrases, FractionHeads}

Vocabulary ==
    Markers \cup
    UNION {UNION {{phrase[k] : k \in DOMAIN phrase} : phrase \in pattern}
             : pattern \in Patterns}

=============================================================================
