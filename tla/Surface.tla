------------------------------- MODULE Surface -------------------------------
(***************************************************************************)
(* The claim extractor (balancecheck/drafting/surface.py): from the text   *)
(* of a draft to its claims.                                               *)
(*                                                                         *)
(* A text is a sequence of sentences, a sentence a sequence of tokens:     *)
(*   word   : [kind, text]                                                 *)
(*   amount : [kind, text, form, num, lead], num in cents; the forms are   *)
(*              "dollar"     $1,250.00                                     *)
(*              "misgrouped" $1250,000.00, which parses to nothing         *)
(*              "plain"      1250, money only next to "USD" or "dollars"   *)
(*              "grouped"    1,250.00, money by its shape alone            *)
(*              "percent"    25%                                           *)
(*   doc    : [kind, text, fam, pad, num], a reference such as INV-1012    *)
(*   date   : [kind, text, num, lead, tail], num the day of the year 2026, *)
(*            written 2026-02-19                                           *)
(* lead is the run of digits the token begins with, tail the day of the    *)
(* month a date ends in.  Tokens are one space apart; punctuation follows  *)
(* its token directly.  Positions are characters, because the extractor's  *)
(* windows are, but a window is made of whole tokens: what it leaves of a  *)
(* word at its edge ("total" of "totals") is not read.  Dates are written  *)
(* in no other form, and a percentage is always one token.                 *)
(***************************************************************************)
EXTENDS Checks, Lexicon, Money, SequencesExt

CONSTANTS
    Back,  \* characters before an amount in which its role word is looked for
    Ahead  \* characters after it

ASSUME WindowAssumption == Back \in Nat /\ Ahead \in Nat

(***************************************************************************)
(* Tokens                                                                  *)
(***************************************************************************)
Word(w) == [kind |-> "word", text |-> w]

Dollar(amount) ==
    [kind |-> "amount", text |-> Render(amount), form |-> "dollar",
     num |-> amount, lead |-> Unresolved]

Misgrouped(amount) ==
    [Dollar(amount) EXCEPT !.form = "misgrouped",
                           !.text = "$" \o ToString(amount \div 100000) \o ",000.00"]

PlainNumber(whole) ==
    [kind |-> "amount", text |-> ToString(whole), form |-> "plain",
     num |-> whole * 100, lead |-> whole]

LeadOf(whole) ==
    LET lead[k \in Nat] == IF k < 1000 THEN k ELSE lead[k \div 1000]
    IN  lead[whole]

BareAmount(amount) ==
    [kind |-> "amount",
     text |-> Grouped(amount \div 100) \o "." \o Padded(amount % 100, 2),
     form |-> "grouped", num |-> amount, lead |-> LeadOf(amount \div 100)]

Percent(n) ==
    [kind |-> "amount", text |-> ToString(n) \o "%", form |-> "percent",
     num |-> n, lead |-> n]

DocId(fam, pad, num) == fam \o "-" \o pad \o ToString(num)

DocToken(fam, pad, num) ==
    [kind |-> "doc", text |-> DocId(fam, pad, num),
     fam |-> fam, pad |-> pad, num |-> num]

\* The days of the year before each month.
MonthStarts == <<0, 31, 59, 90, 120, 151, 181, 212, 243, 273, 304, 334>>

DateToken(day) ==
    [kind |-> "date", text |-> "yyyy-mm-dd", num |-> day, lead |-> 2026,
     tail |-> day - Max({m \in Range(MonthStarts) : m < day})]

\* What every kind of token carries.
Fields ==
    [word |-> {}, amount |-> {"form", "num", "lead"},
     doc |-> {"fam", "pad", "num"}, date |-> {"num", "lead", "tail"}]

IsToken(t) ==
    /\ {"kind", "text"} \subseteq DOMAIN t
    /\ t.kind \in DOMAIN Fields
    /\ Fields[t.kind] \subseteq DOMAIN t
    /\ t.kind = "amount" =>
         t.form \in {"dollar", "misgrouped", "plain", "grouped", "percent"}

IsList(q) == q \in Seq(Range(q))
IsSentence(s) == IsList(s) /\ \A k \in DOMAIN s : IsToken(s[k])
IsDraft(text) == IsList(text) /\ \A k \in DOMAIN text : IsSentence(text[k])

Punctuation == {",", ":", "."}

\* A sequence given by a rule, as the tuple of its values.
Listed(f) == << >> \o f

\* A token with its place in a sentence.
Placed(t, at, end) ==
    [f \in DOMAIN t \cup {"at", "end"} |->
        CASE f = "at" -> at [] f = "end" -> end [] OTHER -> t[f]]

\* A sentence with the place of each token.
LaidOut(s) ==
    LET end[k \in 0..Len(s)] ==
          IF k = 0 THEN 0
          ELSE end[k - 1] + Len(s[k].text)
                 + (IF k = 1 \/ s[k].text \in Punctuation THEN 0 ELSE 1)
    IN  Listed([k \in DOMAIN s |-> Placed(s[k], end[k] - Len(s[k].text), end[k])])

(***************************************************************************)
(* Phrases in a sentence                                                   *)
(***************************************************************************)
Texts(s, j, k) == Listed([i \in 1..(k - j + 1) |-> s[j + i - 1].text])

MinOf(a, b) == IF a < b THEN a ELSE b
MaxOf(a, b) == IF a < b THEN b ELSE a

\* The ends of the phrases of a pattern that begin at token k.
EndsAt(s, k, pattern) ==
    {j \in k..MinOf(Len(s), k + LongestPhrase) : Texts(s, k, j) \in pattern}

\* The occurrences of a pattern, scanned from left to right without overlap.
Matches(s, pattern) ==
    LET from[k \in 1..(Len(s) + 1)] ==
          IF k > Len(s) THEN {}
          ELSE LET ends == EndsAt(s, k, pattern)
               IN  IF ends = {} THEN from[k + 1]
                   ELSE {[at |-> s[k].at, end |-> s[Max(ends)].end,
                          words |-> Texts(s, k, Max(ends))]}
                          \cup from[Max(ends) + 1]
    IN  from[1]

Says(s, pattern) == Matches(s, pattern) # {}

\* The tokens that lie wholly between two positions.
Slice(s, lo, hi) ==
    LET inside == {k \in DOMAIN s : s[k].at >= lo /\ s[k].end <= hi}
    IN  IF inside = {} THEN << >> ELSE SubSeq(s, Min(inside), Max(inside))

(***************************************************************************)
(* Document references                                                     *)
(***************************************************************************)
ZeroPads == {"", "0", "00", "000"}

\* A reference is the document it spells, or the one document of its family
\* with the same number once leading zeros are ignored; else what it spells.
CanonicalId(fam, pad, num, l) ==
    LET naive == DocId(fam, pad, num)
        same  == {DocId(fam, z, num) : z \in ZeroPads} \cap DocumentIds(l)
    IN  IF naive \notin DocumentIds(l) /\ Cardinality(same) = 1
          THEN CHOOSE d \in same : TRUE
          ELSE naive

LeadingDigits(t) == t.kind \in {"amount", "date"} /\ t.lead # Unresolved

\* "invoice 1012", "payment no. 208", "credit memo 35": the family named at
\* token k and the token of its number, if there is one.
LooseFamilies ==
    {<<<<"invoice">>, "INV">>, <<<<"payment">>, "PMT">>,
     <<<<"credit", "memo">>, "CM">>}

LooseAt(s, k) ==
    {x \in LooseFamilies \X ((k + 1)..MinOf(Len(s), k + 3)) :
        /\ LeadingDigits(s[x[2]])
        /\ \E j \in {x[2] - 1, x[2] - 2} :
             /\ j >= k
             /\ Texts(s, k, j) = x[1][1]
             /\ j = x[2] - 2 => s[x[2] - 1].text \in {"no.", "number"}}

MentionAt(s, k, l) ==
    CASE s[k].kind = "doc" ->
           <<[at |-> s[k].at, fam |-> s[k].fam,
              doc |-> CanonicalId(s[k].fam, s[k].pad, s[k].num, l)]>>
      [] s[k].kind # "doc" /\ LooseAt(s, k) # {} ->
           LET loose == CHOOSE x \in LooseAt(s, k) : TRUE
           IN  <<[at |-> s[k].at, fam |-> loose[1][2],
                  doc |-> CanonicalId(loose[1][2], "", s[loose[2]].lead, l)]>>
      [] OTHER -> << >>

\* In reading order, a document as often as the sentence names it.
Mentions(s, l) == FlattenSeq(Listed([k \in DOMAIN s |-> MentionAt(s, k, l)]))

\* The documents of the mentions at some places, in reading order.
DocsAt(mentions, places) ==
    FlattenSeq(Listed([k \in DOMAIN mentions |->
                         IF k \in places THEN <<mentions[k].doc>> ELSE << >>]))

\* The last document named up to a position, the first one named after it.
Preceding(mentions, pos) ==
    LET before == {k \in DOMAIN mentions : mentions[k].at <= pos}
    IN  IF before = {} THEN << >> ELSE <<mentions[Max(before)].doc>>

Following(mentions, pos) ==
    LET after == {k \in DOMAIN mentions : ~(mentions[k].at <= pos)}
    IN  IF after = {} THEN << >> ELSE <<mentions[Min(after)].doc>>

NearestDoc(mentions, pos) ==
    IF Preceding(mentions, pos) # << >> THEN Preceding(mentions, pos)
                                        ELSE Following(mentions, pos)

(***************************************************************************)
(* Amounts: detectors in order of priority; no character belongs to two    *)
(***************************************************************************)
BareDigits(t) == t.kind = "amount" /\ t.form \in {"plain", "grouped"}

\* What begins, and what ends, in digits that a currency marker beside it takes.
BeginsInDigits(t) ==
    BareDigits(t) \/ t.kind = "date" \/ (t.kind = "amount" /\ t.form = "percent")

EndsInDigits(t) == BareDigits(t) \/ t.kind \in {"date", "doc"}

\* "USD 350" is matched before anything but a dollar sign: it takes a marker
\* that stands between two numbers, the year of a date and the number of a
\* percentage.
Prefixed(s, k) ==
    /\ k > 1 /\ s[k - 1].text = "usd"
    /\ BeginsInDigits(s[k])

\* "350 dollars" comes next.  It takes the day of a date and the number of a
\* reference, each with the hyphen before it.
Suffixed(s, k) ==
    /\ EndsInDigits(s[k])
    /\ BareDigits(s[k]) => ~Prefixed(s, k)
    /\ k < Len(s) /\ s[k + 1].text \in Markers
    /\ ~(k + 2 <= Len(s) /\ Prefixed(s, k + 2))

\* A date that has lost digits to a marker is no date any more.
IsDate(s, k) == s[k].kind = "date" /\ ~Prefixed(s, k) /\ ~Suffixed(s, k)

\* "twelve hundred dollars": the token of "dollars" when token k begins one.
SpelledEnds(s, k) ==
    {j \in (k + 1)..Len(s) :
        /\ s[j].text = "dollars" /\ s[k].text \in NumberWords
        /\ \A i \in (k + 1)..(j - 1) :
             \/ s[i].text \in NumberWords
             \/ s[i].text = "and" /\ i # j - 1 /\ s[i - 1].text # "and"
        /\ k = 1 \/ s[k - 1].text \notin NumberWords
        /\ k <= 2 \/ s[k - 1].text # "and" \/ s[k - 2].text \notin NumberWords}

\* "a third of the balance", "half of INV-1012".  The pattern ends with the
\* object, whatever the rest of the word.
FractionEnds(s, k) ==
    {j \in (k + 1)..MinOf(Len(s), k + LongestPhrase) :
        /\ Texts(s, k, j - 1) \in FractionHeads
        /\ \/ s[j].text \in DOMAIN FractionObjects
           \/ s[j].kind = "doc" /\ ~Suffixed(s, j)
        /\ k = 1 \/ <<s[k - 1].text>> \o Texts(s, k, j - 1) \notin FractionHeads}

Span(at, end, token, num, preset) ==
    [at |-> at, end |-> end, token |-> token, num |-> num, preset |-> preset]

\* Seeded fault: a figure that cannot be resolved is passed over.
HeadAt_ResolvedOnly(s, k) ==
    LET t == s[k]
    IN  CASE t.kind = "amount" /\ t.form = "dollar" ->
               <<Span(t.at, t.end, <<t.text>>, t.num, FALSE)>>
          [] BareDigits(t) /\ Prefixed(s, k) ->
               <<Span(s[k - 1].at, t.end, Texts(s, k - 1, k), t.num, FALSE)>>
          [] BareDigits(t) /\ Suffixed(s, k) ->
               <<Span(t.at, s[k + 1].end, Texts(s, k, k + 1), t.num, FALSE)>>
          [] OTHER -> << >>

\* The amount that token k is or begins, or that takes its first digits.
HeadAt(s, k) ==
    LET t == s[k]
    IN  CASE t.kind = "amount" /\ t.form = "dollar" ->
               <<Span(t.at, t.end, <<t.text>>, t.num, FALSE)>>
          [] /\ t.kind = "amount" /\ t.form \in {"misgrouped", "percent"}
             /\ ~Prefixed(s, k) ->
               <<Span(t.at, t.end, <<t.text>>, Unresolved, TRUE)>>
          [] ~BareDigits(t) /\ Prefixed(s, k) ->
               <<Span(s[k - 1].at, t.at + Len(ToString(t.lead)),
                      <<"usd", ToString(t.lead)>>, 100 * t.lead, FALSE)>>
          [] BareDigits(t) /\ Prefixed(s, k) ->
               <<Span(s[k - 1].at, t.end, Texts(s, k - 1, k), t.num, FALSE)>>
          [] BareDigits(t) /\ Suffixed(s, k) ->
               <<Span(t.at, s[k + 1].end, Texts(s, k, k + 1), t.num, FALSE)>>
          [] /\ BareDigits(t) /\ t.form = "grouped"
             /\ ~Prefixed(s, k) /\ ~Suffixed(s, k) ->
               <<Span(t.at, t.end, <<t.text>>, t.num, FALSE)>>
          [] t.kind = "word" /\ SpelledEnds(s, k) # {} ->
               LET j == Min(SpelledEnds(s, k))
               IN  <<Span(t.at, s[j].end, Texts(s, k, j),
                          100 * WordsToDollars(Texts(s, k, j - 1)), FALSE)>>
          [] t.kind = "word" /\ FractionEnds(s, k) # {} ->
               LET j      == Max(FractionEnds(s, k))
                   object == IF s[j].kind = "doc" THEN s[j].text
                             ELSE FractionObjects[s[j].text]
               IN  <<Span(t.at, s[j].at + Len(object),
                          Append(Texts(s, k, j - 1), object), Unresolved, TRUE)>>
          [] OTHER -> << >>

\* The amount that takes the last digits of a date or of a reference.
TailAt(s, k) ==
    LET t      == s[k]
        number == IF t.kind = "date" THEN t.tail ELSE t.num
        digits == IF t.kind = "date" THEN Padded(t.tail, 2)
                                     ELSE t.pad \o ToString(t.num)
    IN  IF t.kind \in {"date", "doc"} /\ Suffixed(s, k)
          THEN <<Span(t.end - Len(digits) - 1, s[k + 1].end,
                      <<"-" \o digits, s[k + 1].text>>, -(100 * number), FALSE)>>
          ELSE << >>

AmountAt(s, k) == HeadAt(s, k) \o TailAt(s, k)

Amounts(s) == FlattenSeq(Listed([k \in DOMAIN s |-> AmountAt(s, k)]))

(***************************************************************************)
(* The window of an amount stops at the neighbouring amounts.              *)
(***************************************************************************)
\* Seeded fault: the window runs on past the neighbouring amounts.
Window_Open(s, a, amounts) == Slice(s, a.at - Back, a.end + 2 * Ahead)

Window(s, a, amounts) ==
    LET others == {amounts[k] : k \in DOMAIN amounts}
        prev   == Max({0} \cup {b.end : b \in {c \in others : c.end <= a.at}})
        next   == Min({s[Len(s)].end}
                        \cup {b.at : b \in {c \in others : c.at >= a.end}})
    IN  Slice(s, MaxOf(prev, a.at - Back), MinOf(next, a.end + Ahead))

Far == 10000

Distance(w, a, pattern) ==
    Min({Far} \cup
        {IF m.at < a.end /\ m.end > a.at THEN 0
           ELSE MinOf(Magnitude(m.at - a.end), Magnitude(a.at - m.end)) :
           m \in Matches(w, pattern)})

RolePhrases ==
    [original |-> OriginalPhrases, applied |-> AppliedPhrases, open |-> OpenPhrases]

\* The closest role word governs; of equals, in the order of the table.
NearestRole(dist) ==
    LET near == Min({dist[r] : r \in DOMAIN dist})
    IN  CASE near = Far                                  -> "unknown"
          [] near # Far /\ dist["original"] = near       -> "original"
          [] /\ near # Far /\ dist["original"] # near
             /\ dist["applied"] = near                   -> "applied"
          [] OTHER                                       -> "open"

RoleOf(w, a) ==
    NearestRole([r \in DOMAIN RolePhrases |-> Distance(w, a, RolePhrases[r])])

\* A total, unless a role word stands closer to the amount.
ExplicitTotal(w, a) ==
    \E total \in {Distance(w, a, TotalMarkers)} \ {Far} :
        \A r \in DOMAIN RolePhrases : total <= Distance(w, a, RolePhrases[r])

SumContext(w, a) ==
    ExplicitTotal(w, a) \/ Says(w, SumPhrases) \/ Says(w, BalanceObjects)

\* The invoices a total is said to range over.
SubtotalDocs(s, mentions) ==
    LET invoices == DocsAt(mentions, {k \in DOMAIN mentions : mentions[k].fam = "INV"})
    IN  IF Len(invoices) >= 2 /\ Says(s, SubtotalCues) THEN invoices ELSE << >>

Class(type, docs, role) == [type |-> type, docs |-> docs, role |-> role]

ClassifyAmount(s, a, amounts, mentions) ==
    LET w      == Window(s, a, amounts)
        before == Preceding(mentions, a.at)
        after  == Following(mentions, a.at)
    IN  CASE before # << >> /\ ~ExplicitTotal(w, a) ->
               Class("C-AMT", before, RoleOf(w, a))
          [] (before = << >> \/ ExplicitTotal(w, a)) /\ SumContext(w, a) ->
               Class("C-SUM", SubtotalDocs(s, mentions), "total")
          [] /\ before = << >> /\ ~SumContext(w, a) /\ after # << >> ->
               Class("C-AMT", after, RoleOf(w, a))
          [] OTHER -> Class("C-AMT", << >>, "unknown")

(***************************************************************************)
(* Dates: a date speaks of every document named since the amount or date   *)
(* before it.                                                              *)
(***************************************************************************)
DateDocs(s, pos, amounts, mentions) ==
    LET ends     == {amounts[k].end : k \in DOMAIN amounts}
                      \cup {s[k].end : k \in {j \in DOMAIN s : IsDate(s, j)}}
        boundary == Max({0} \cup {e \in ends : e <= pos})
        clause   == {k \in DOMAIN mentions :
                       boundary <= mentions[k].at /\ mentions[k].at < pos}
    IN  IF clause # {} THEN DocsAt(mentions, clause) ELSE NearestDoc(mentions, pos)

(***************************************************************************)
(* Candidates, in reading order.  The key is what makes two of them one    *)
(* claim: the code compares type, sentence, token, documents and role,     *)
(* which determine the rest of a claim.                                    *)
(***************************************************************************)
SpanCuesOf(s) ==
    {c \in SpanCues :
        Says(s, CASE c = "remit"    -> RemitPhrases
                  [] c = "received" -> ReceivedPhrases
                  [] c = "items"    -> SubtotalCues)}

StatusWord(words) == IF words = <<"past", "due">> THEN "past due" ELSE words[1]

Stated(matches) == {[at |-> m.at, word |-> StatusWord(m.words)] : m \in matches}

\* Seeded fault: a sentence that takes an invoice apart states no payment.
StatusesIn_Exempt(s) ==
    LET said == Stated(Matches(s, StatusPhrases))
                  \cup {[at |-> m.at, word |-> "paid"] : m \in Matches(s, PaidParaphrases)}
    IN  IF Says(s, DecompositionPhrases) THEN {h \in said : h.word # "paid"} ELSE said

\* The statuses a sentence states, each at its place.
StatusesIn(s) ==
    LET plain  == Stated(Matches(s, StatusPhrases))
        exempt == IF Says(s, DecompositionPhrases) THEN {"paid", "unpaid"} ELSE {}
    IN  {h \in plain : h.word \notin exempt}
          \cup {[at |-> m.at, word |-> "paid"] : m \in Matches(s, PaidParaphrases)}

\* A sentence as read: its tokens in place, its amounts, the documents it
\* names, its statuses, where it is fuzzy, and its cues.
Reading(sentence, l) ==
    LET s == LaidOut(sentence)
    IN  [s        |-> s,
         amounts  |-> Amounts(s),
         mentions |-> Mentions(s, l),
         statuses |-> StatusesIn(s),
         fuzzy    |-> {m.at : m \in Matches(s, FuzzyPhrases)},
         cues     |-> SpanCuesOf(s)]

\* Seeded fault: two figures of one document are one claim.
Candidate_NoToken(r, type, token, word, num, docs, role, preset) ==
    [claim |-> [type |-> type, word |-> word, num |-> num, docs |-> docs,
                role |-> role, span |-> r.cues, preset |-> preset],
     key   |-> <<type, r.s, docs, role>>]

Candidate(r, type, token, word, num, docs, role, preset) ==
    LET claim == [type |-> type, word |-> word, num |-> num, docs |-> docs,
                  role |-> role, span |-> r.cues, preset |-> preset]
    IN  [claim |-> claim, key |-> <<claim, r.s, token>>]

ExistCandidates(r, k, l) ==
    LET mention == MentionAt(r.s, k, l)
    IN  [i \in DOMAIN mention |->
            Candidate(r, "C-EXIST", mention[i].doc, mention[i].doc, 0, << >>,
                      "unknown", FALSE)]

AmountCandidate(r, amount, class) ==
    Candidate(r, class.type, amount.token, "", amount.num, class.docs, class.role,
              amount.preset)

AmountCandidates(r, k) ==
    LET amount == AmountAt(r.s, k)
    IN  [i \in DOMAIN amount |->
            AmountCandidate(r, amount[i],
                            ClassifyAmount(r.s, amount[i], r.amounts, r.mentions))]

DateCandidates(r, k) ==
    IF ~IsDate(r.s, k) THEN << >>
    ELSE <<Candidate(r, "C-DATE", r.s[k].num, "", r.s[k].num,
                     DateDocs(r.s, r.s[k].at, r.amounts, r.mentions),
                     "unknown", FALSE)>>

\* A status is stated only of a document the sentence names.
StatusCandidates(r, k) ==
    LET here  == {h \in r.statuses : h.at = r.s[k].at}
        words == IF r.mentions = << >> THEN << >> ELSE SetToSeq({h.word : h \in here})
    IN  [i \in DOMAIN words |->
            Candidate(r, "C-STATUS", words[i], words[i], 0,
                      NearestDoc(r.mentions, r.s[k].at), "unknown", FALSE)]

\* Seeded fault: only of a document the sentence names.
FuzzyCandidates_Named(r, k) ==
    IF r.mentions # << >> /\ r.fuzzy # {} /\ r.s[k].at = Min(r.fuzzy)
      THEN <<Candidate(r, "C-FUZZY", "", "", 0, << >>, "unknown", FALSE)>>
      ELSE << >>

\* One for a sentence, at its first fuzzy phrase.
FuzzyCandidates(r, k) ==
    IF r.fuzzy # {} /\ r.s[k].at = Min(r.fuzzy)
      THEN <<Candidate(r, "C-FUZZY", "", "", 0, << >>, "unknown", FALSE)>>
      ELSE << >>

Candidates(sentence, l) ==
    LET r == Reading(sentence, l)
    IN  FlattenSeq(Listed([k \in DOMAIN sentence |->
            ExistCandidates(r, k, l) \o AmountCandidates(r, k)
              \o DateCandidates(r, k) \o StatusCandidates(r, k)
              \o FuzzyCandidates(r, k)]))

\* A claim repeated in the same sentence is kept once, and a document is
\* looked up once in the whole draft.
Repeats(c, kept) ==
    \E k \in DOMAIN kept :
        \/ kept[k].key = c.key
        \/ /\ c.claim.type = "C-EXIST" /\ kept[k].claim.type = "C-EXIST"
           /\ c.claim.word = kept[k].claim.word

Deduped(found) ==
    LET kept[k \in 0..Len(found)] ==
          IF k = 0 THEN << >>
          ELSE LET sofar == kept[k - 1]
               IN  IF Repeats(found[k], sofar) THEN sofar ELSE Append(sofar, found[k])
    IN  kept[Len(found)]

ClaimsOf(found) == Listed([k \in DOMAIN found |-> found[k].claim])

ExtractClaims(text, l) ==
    ClaimsOf(Deduped(FlattenSeq(Listed([k \in DOMAIN text |-> Candidates(text[k], l)]))))

\* The draft as the gate sees it.
DraftOf(text, l) ==
    [text       |-> IF text = << >> THEN "" ELSE "draft",
     claims     |-> ExtractClaims(text, l),
     paidInFull |-> \E k \in DOMAIN text :
                       Says(LaidOut(text[k]), NoBalancePhrases)]

=============================================================================
