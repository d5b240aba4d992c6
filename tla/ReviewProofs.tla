----------------------------- MODULE ReviewProofs -----------------------------
(***************************************************************************)
(* Theorems about human review beside the passes, for every number of      *)
(* revisions, passes, reviews and decisions.                               *)
(*                                                                         *)
(* Two invariants.  Reviewed needs no assumption about labels: where the   *)
(* decisions stand in the log, and that those made since a review's        *)
(* reading are its own.  Named holds when no label is used twice: an       *)
(* identifier then has one draft, and whatever was judged or decided under *)
(* it comes after that draft.                                              *)
(***************************************************************************)
EXTENDS Review, FiniteSetTheorems, TLAPS

-----------------------------------------------------------------------------
(***************************************************************************)
(* What needs no assumption about labels                                   *)
(***************************************************************************)
Standing ==
    /\ log \in Seq(Events)
    /\ stage # "idle" => pass # 0
    /\ review => reviews # 0
    /\ \A d \in made : log[d.line].kind = "decision"

\* Whatever was decided since the review under way read the log, it decided.
OwnDecisions ==
    review => \A d \in made : d.line > read => d.review = reviews

Reviewed ==
    /\ TypeOK
    /\ Standing
    /\ OwnDecisions
    /\ StoredTextReverified
    /\ ReapplyDecidesNothingTwice

\* An append leaves the earlier lines as they are.
LEMMA Appends ==
    ASSUME log \in Seq(Events), NEW e \in Events', log' = Append(log, e)
    PROVE  /\ Len(log) \in Nat
           /\ Len(log') = Len(log) + 1
           /\ log' \in Seq(Events)'
           /\ \A k \in DOMAIN log' : log'[k] \in Events'
           /\ \A k \in 1..Len(log) : log'[k] = log[k]
           /\ log'[Len(log) + 1] = e
<1>1. Len(log) \in Nat /\ Len(log') = Len(log) + 1
  OBVIOUS
<1>2. Events \subseteq Events'
  <2>1. 0..Len(log) \subseteq 0..Len(log')
    BY <1>1
  <2>2. Texts \subseteq Texts'
    BY <2>1 DEF Texts
  <2> QED BY <2>2 DEF Events
<1>3. log' \in Seq(Events')
  BY <1>2
<1> QED BY <1>1, <1>3

LEMMA GenIdTyped ==
    ASSUME TypeOK, Standing, stage # "idle"
    PROVE  GenId \in GenIds
BY ReviewAssumption DEF TypeOK, Standing, GenId, GenIds

\* A set of naturals has a least member.
LEMMA LeastOfNaturals ==
    ASSUME NEW N \in SUBSET Nat, N # {}
    PROVE  \E n \in N : \A m \in N : n <= m
<1>1. PICK n \in N : \A m \in N : <<m, n>> \notin OpToRel(<, Nat)
  BY NatLessThanWellFounded, WFMin
<1>2. \A m \in N : <<m, n>> \in OpToRel(<, Nat) <=> m < n
  BY DEF OpToRel
<1>3. \A m \in N : ~(m < n)
  BY <1>1, <1>2
<1> QED
  BY <1>3

\* The line an identifier stands for is the last of its generations.
LEMMA GenIs ==
    ASSUME TypeOK, NEW id, LinesOf("generation", id) # {}
    PROVE  /\ Gen(id) \in LinesOf("generation", id)
           /\ \A j \in LinesOf("generation", id) : j <= Gen(id)
<1> DEFINE L == LinesOf("generation", id)
           N == {read - k : k \in L}
<1>1. L \in SUBSET (1..read) /\ read \in Nat
  BY DEF LinesOf, TypeOK
<1>2. N \in SUBSET Nat /\ N # {}
  BY <1>1
<1>3. PICK n \in N : \A m \in N : n <= m
  BY <1>2, LeastOfNaturals
<1>4. PICK k \in L : n = read - k
  BY <1>3
<1>5. ASSUME NEW j \in L PROVE j <= k
  <2>1. read - k <= read - j
    BY <1>3, <1>4
  <2> QED BY <1>1, <2>1
<1> QED BY <1>4, <1>5 DEF Gen

\* A log that grew, or did not, keeps what was read of it.
LEMMA LinesStay ==
    ASSUME TypeOK, UNCHANGED read, \A k \in 1..Len(log) : log'[k] = log[k]
    PROVE  \A kind, id : LinesOf(kind, id)' = LinesOf(kind, id)
BY DEF TypeOK, LinesOf

LEMMA InitReviewed == Init => Reviewed
<1> SUFFICES ASSUME Init PROVE Reviewed
  OBVIOUS
<1> USE DEF Init
<1>1. log \in Seq(Events) /\ DOMAIN log = {} /\ Len(log) = 0
  OBVIOUS
<1>2. TypeOK
  <2>1. \A k \in DOMAIN log : log[k] \in Events
    BY <1>1
  <2>2. pass \in 0..MaxPasses /\ rev \in 0..MaxRevisions /\ reviews \in 0..MaxReviews
    BY ReviewAssumption
  <2>3. read \in 0..Len(log)
    BY <1>1
  <2>4. /\ stage \in {"idle", "draft", "judge"} /\ review \in BOOLEAN
        /\ made \subseteq [line : 1..Len(log), review : 1..MaxReviews, override : BOOLEAN]
    OBVIOUS
  <2> QED BY <2>1, <2>2, <2>3, <2>4 DEF TypeOK
<1>3. Standing /\ OwnDecisions
  BY <1>1 DEF Standing, OwnDecisions
<1>4. StoredTextReverified /\ ReapplyDecidesNothingTwice
  BY DEF StoredTextReverified, ReapplyDecidesNothingTwice
<1> QED BY <1>2, <1>3, <1>4 DEF Reviewed

\* A step of a pass, or a kill, makes no decision and leaves those made alone.
LEMMA PassKeepsReviewed ==
    ASSUME Reviewed, TypeOK', log' \in Seq(Events)',
           \A k \in 1..Len(log) : log'[k] = log[k],
           stage' # "idle" => pass' # 0,
           UNCHANGED <<review, read, reviews, made>>
    PROVE  Reviewed'
<1>1. \A d \in made : d.line \in 1..Len(log)
  BY DEF Reviewed, TypeOK
<1>2. Standing'
  BY <1>1 DEF Reviewed, Standing
<1>3. OwnDecisions' /\ StoredTextReverified' /\ ReapplyDecidesNothingTwice'
  BY <1>1 DEF Reviewed, OwnDecisions, StoredTextReverified, ReapplyDecidesNothingTwice
<1> QED BY <1>2, <1>3 DEF Reviewed

\* What a pass logs.
LEMMA PassLogs ==
    ASSUME Reviewed, NEW e \in Events', log' = Append(log, e), stage # "idle",
           stage' \in {"idle", "draft", "judge"}, pass' = pass, rev' \in 0..MaxRevisions,
           UNCHANGED <<review, read, reviews, made>>
    PROVE  Reviewed'
<1>1. /\ Len(log) \in Nat
      /\ Len(log') = Len(log) + 1
      /\ log' \in Seq(Events)'
      /\ \A k \in DOMAIN log' : log'[k] \in Events'
      /\ \A k \in 1..Len(log) : log'[k] = log[k]
  BY Appends DEF Reviewed, Standing
<1>2. 0..Len(log) \subseteq 0..Len(log') /\ 1..Len(log) \subseteq 1..Len(log')
  BY <1>1
<1>3. TypeOK'
  BY <1>1, <1>2 DEF Reviewed, TypeOK
<1> QED BY <1>1, <1>3, PassKeepsReviewed DEF Reviewed, Standing

LEMMA StartPassReviewed == Reviewed /\ StartPass => Reviewed'
<1> SUFFICES ASSUME Reviewed, StartPass PROVE Reviewed'
  OBVIOUS
<1> USE DEF StartPass, reviewVars
<1>1. pass' \in 0..MaxPasses /\ pass' # 0 /\ rev' \in 0..MaxRevisions
  BY ReviewAssumption DEF Reviewed, TypeOK
<1>2. Events' = Events
  BY DEF Events, Texts
<1>3. TypeOK' /\ log' \in Seq(Events)'
  BY <1>1, <1>2 DEF Reviewed, TypeOK, Standing
<1> QED BY <1>1, <1>3, PassKeepsReviewed

LEMMA KillPassReviewed == Reviewed /\ KillPass => Reviewed'
<1> SUFFICES ASSUME Reviewed, KillPass PROVE Reviewed'
  OBVIOUS
<1> USE DEF KillPass, reviewVars
<1>1. Events' = Events
  BY DEF Events, Texts
<1>2. TypeOK' /\ log' \in Seq(Events)'
  BY <1>1 DEF Reviewed, TypeOK, Standing
<1> QED BY <1>2, PassKeepsReviewed

LEMMA NoDraftReviewed == Reviewed /\ NoDraft => Reviewed'
<1> SUFFICES ASSUME Reviewed, NoDraft PROVE Reviewed'
  OBVIOUS
<1> DEFINE e == [kind |-> "verification", id |-> GenId, action |-> "escalate"]
<1>1. GenId \in GenIds
  BY GenIdTyped DEF NoDraft, Reviewed
<1>2. e \in Events'
  BY <1>1 DEF Events
<1> QED BY <1>2, PassLogs DEF NoDraft, reviewVars, Reviewed, TypeOK

LEMMA GenerateReviewed == Reviewed /\ Generate => Reviewed'
<1> SUFFICES ASSUME Reviewed, Generate PROVE Reviewed'
  OBVIOUS
<1>1. PICK clean \in BOOLEAN :
        log' = Append(log, [kind |-> "generation", id |-> GenId, clean |-> clean])
  BY DEF Generate
<1> DEFINE e == [kind |-> "generation", id |-> GenId, clean |-> clean]
<1>2. GenId \in GenIds
  BY GenIdTyped DEF Generate, Reviewed
<1>3. e \in Events'
  BY <1>2 DEF Events
<1> QED BY <1>1, <1>3, PassLogs DEF Generate, reviewVars, Reviewed, TypeOK

\* A judgement is one of three, and sends back before the last revision only.
LEMMA JudgementsAre ==
    /\ Judgements \subseteq {"revise", "human_gate", "escalate"}
    /\ "revise" \in Judgements => rev < MaxRevisions
BY DEF Judgements

LEMMA JudgeReviewed == Reviewed /\ Judge => Reviewed'
<1> SUFFICES ASSUME Reviewed, Judge PROVE Reviewed'
  OBVIOUS
<1>1. PICK a \in Judgements : Verified(a)
  BY DEF Judge
<1> DEFINE e == [kind |-> "verification", id |-> GenId, action |-> a]
<1>2. GenId \in GenIds
  BY GenIdTyped DEF Judge, Reviewed
<1>3. e \in Events'
  BY <1>2, JudgementsAre DEF Events
<1>4. rev' \in 0..MaxRevisions
  <2>1. CASE a = "revise"
    BY <1>1, <2>1, JudgementsAre, ReviewAssumption DEF Verified, Reviewed, TypeOK
  <2>2. CASE a # "revise"
    BY <1>1, <2>2 DEF Verified, Reviewed, TypeOK
  <2> QED BY <2>1, <2>2
<1> QED BY <1>1, <1>3, <1>4, PassLogs DEF Judge, Verified, reviewVars, Reviewed, TypeOK

LEMMA StartReviewReviewed == Reviewed /\ StartReview => Reviewed'
<1> SUFFICES ASSUME Reviewed, StartReview PROVE Reviewed'
  OBVIOUS
<1> USE DEF StartReview, passVars
<1>1. Events' = Events
  BY DEF Events, Texts
<1>2. Len(log) \in Nat
  BY DEF Reviewed, Standing
<1>3. reviews' \in 0..MaxReviews /\ reviews' # 0
  BY ReviewAssumption DEF Reviewed, TypeOK
<1>4. read' \in 0..Len(log)
  BY <1>2
<1>5. TypeOK' /\ Standing'
  BY <1>1, <1>3, <1>4 DEF Reviewed, TypeOK, Standing
<1>6. OwnDecisions'
  BY <1>2 DEF Reviewed, TypeOK, OwnDecisions
<1>7. StoredTextReverified' /\ ReapplyDecidesNothingTwice'
  BY DEF Reviewed, StoredTextReverified, ReapplyDecidesNothingTwice
<1> QED BY <1>5, <1>6, <1>7 DEF Reviewed

LEMMA EndReviewReviewed == Reviewed /\ EndReview => Reviewed'
<1> SUFFICES ASSUME Reviewed, EndReview PROVE Reviewed'
  OBVIOUS
<1> USE DEF EndReview, passVars
<1>1. Events' = Events
  BY DEF Events, Texts
<1>2. TypeOK' /\ Standing' /\ OwnDecisions'
  BY <1>1 DEF Reviewed, TypeOK, Standing, OwnDecisions
<1>3. StoredTextReverified' /\ ReapplyDecidesNothingTwice'
  BY DEF Reviewed, StoredTextReverified, ReapplyDecidesNothingTwice
<1> QED BY <1>2, <1>3 DEF Reviewed

\* What a row stores is a text, and a checked one unless it overrides.
LEMMA RowText ==
    ASSUME Reviewed, NEW row \in Rows, ApplyRow(row)
    PROVE  LET text == IF row.action = "decline" THEN NoText ELSE FinalText(row)
           IN  text \in Texts /\ (~text.clean => row.override)
<1>1. Len(log) \in Nat /\ \A k \in DOMAIN log : log[k] \in Events
  BY DEF Reviewed, Standing
<1>2. NoText \in Texts /\ HumanText(TRUE) \in Texts /\ HumanText(FALSE) \in Texts
  BY <1>1 DEF Texts, NoText, HumanText
<1>3. row.action = "approve" /\ row.text = NoText => DraftText(Gen(row.id)) \in Texts
  <2>1. /\ Gen(row.id) \in LinesOf("generation", row.id)
        /\ read \in 0..Len(log)
    BY GenIs DEF ApplyRow, Reviewed, TypeOK
  <2>2. /\ Gen(row.id) \in 1..Len(log)
        /\ log[Gen(row.id)].kind = "generation"
    BY <1>1, <2>1 DEF LinesOf
  <2>3. log[Gen(row.id)] \in Events
    BY <1>1, <2>2
  <2>4. log[Gen(row.id)].clean \in BOOLEAN
    BY <2>2, <2>3 DEF Events
  <2>5. Gen(row.id) \in 0..Len(log)
    BY <2>2
  <2> QED BY <2>4, <2>5 DEF DraftText, Texts
<1>4. row.action # "decline" => FinalText(row) \in Texts
  BY <1>2, <1>3 DEF FinalText, Rows
<1>5. NoText.clean
  BY DEF NoText
<1> QED BY <1>2, <1>4, <1>5 DEF ApplyRow, Refused

LEMMA ApplyRowReviewed ==
    ASSUME Reviewed, NEW row \in Rows, ApplyRow(row)
    PROVE  Reviewed'
<1> DEFINE text == IF row.action = "decline" THEN NoText ELSE FinalText(row)
           e == [kind |-> "decision", id |-> row.id, action |-> row.action, text |-> text]
           d0 == [line |-> Len(log) + 1, review |-> reviews, override |-> row.override]
<1>1. /\ log' = Append(log, e) /\ made' = made \cup {d0} /\ review
      /\ UNCHANGED <<review, read, reviews, stage, pass, rev>>
  BY DEF ApplyRow, passVars
<1>2. text \in Texts /\ (~text.clean => row.override)
  BY RowText
<1>3. /\ row.id \in GenIds /\ row.action \in {"approve", "edit", "decline"}
      /\ row.override \in BOOLEAN
  BY DEF Rows
<1>4. /\ Len(log) \in Nat /\ Len(log') = Len(log) + 1
  BY <1>1 DEF Reviewed, Standing
<1>5. 0..Len(log) \subseteq 0..Len(log') /\ 1..Len(log) \subseteq 1..Len(log')
  BY <1>4
<1>6. e \in Events'
  <2>1. text \in Texts'
    BY <1>2, <1>5 DEF Texts
  <2> QED BY <1>3, <2>1 DEF Events
<1>7. /\ log' \in Seq(Events)'
      /\ \A k \in DOMAIN log' : log'[k] \in Events'
      /\ \A k \in 1..Len(log) : log'[k] = log[k]
      /\ log'[Len(log) + 1] = e
  BY <1>1, <1>6, Appends DEF Reviewed, Standing
<1>8. d0 \in [line : 1..Len(log'), review : 1..MaxReviews, override : BOOLEAN]
  <2>1. reviews \in 1..MaxReviews
    BY <1>1, ReviewAssumption DEF Reviewed, TypeOK, Standing
  <2> QED BY <1>3, <1>4, <2>1
<1>9. \A d \in made : d.line \in 1..Len(log) /\ d.line # d0.line
  BY <1>4 DEF Reviewed, TypeOK
<1>10. TypeOK'
  BY <1>1, <1>5, <1>7, <1>8 DEF Reviewed, TypeOK
<1>11. log'[d0.line] = e /\ e.kind = "decision" /\ e.text = text /\ e.id = row.id
  BY <1>7
<1>12. Standing'
  BY <1>1, <1>7, <1>9, <1>11 DEF Reviewed, Standing
<1>13. OwnDecisions'
  BY <1>1 DEF Reviewed, OwnDecisions
<1>14. StoredTextReverified'
  BY <1>1, <1>2, <1>7, <1>9, <1>11 DEF Reviewed, StoredTextReverified
<1>15. ReapplyDecidesNothingTwice'
  <2> SUFFICES ASSUME NEW d \in made', NEW f \in made', ~f.override, d.line < f.line,
                      log'[d.line].id = log'[f.line].id
               PROVE  d.review = f.review
    BY DEF ReapplyDecidesNothingTwice
  <2>1. CASE d \in made /\ f \in made
    BY <1>7, <1>9, <2>1 DEF Reviewed, ReapplyDecidesNothingTwice
  <2>2. CASE d = d0
    BY <1>1, <1>4, <1>9, <2>2
  <2>3. CASE d \in made /\ f = d0
    <3>1. LinesOf("decision", row.id) = {}
      BY <2>3 DEF ApplyRow, AwaitsHuman
    <3>2. /\ d.line \in 1..Len(log) /\ log[d.line].kind = "decision"
          /\ log[d.line].id = row.id
      BY <1>7, <1>9, <1>11, <2>3 DEF Reviewed, Standing
    <3>3. ~(d.line <= read) /\ read \in Nat
      BY <3>1, <3>2 DEF LinesOf, Reviewed, TypeOK
    <3>4. d.line > read
      BY <3>2, <3>3
    <3> QED BY <1>1, <2>3, <3>4 DEF Reviewed, OwnDecisions
  <2> QED BY <1>1, <2>1, <2>2, <2>3
<1> QED BY <1>10, <1>12, <1>13, <1>14, <1>15 DEF Reviewed

LEMMA StutterReviewed == Reviewed /\ UNCHANGED vars => Reviewed'
<1> SUFFICES ASSUME Reviewed, UNCHANGED vars PROVE Reviewed'
  OBVIOUS
<1> USE DEF vars
<1>1. Events' = Events
  BY DEF Events, Texts
<1>2. TypeOK' /\ log' \in Seq(Events)'
  BY <1>1 DEF Reviewed, TypeOK, Standing
<1> QED BY <1>2, PassKeepsReviewed DEF Reviewed, Standing

LEMMA NextReviewed == Reviewed /\ [Next]_vars => Reviewed'
BY StartPassReviewed, NoDraftReviewed, GenerateReviewed, JudgeReviewed,
   KillPassReviewed, StartReviewReviewed, ApplyRowReviewed, EndReviewReviewed,
   StutterReviewed DEF Next

\* The invariant that needs no assumption about labels.
THEOREM SpecReviewed == Spec => []Reviewed
BY InitReviewed, NextReviewed, PTL DEF Spec

\* Every variable keeps its type.
THEOREM ReviewTypeCorrect == Spec => []TypeOK
<1>1. Reviewed => TypeOK
  BY DEF Reviewed
<1> QED BY SpecReviewed, <1>1, PTL

\* No text that fails the checks is stored without an override (cli.py:232-234).
THEOREM NothingUncheckedIsStored == Spec => []StoredTextReverified
<1>1. Reviewed => StoredTextReverified
  BY DEF Reviewed
<1> QED BY SpecReviewed, <1>1, PTL

\* However reviews overlap a pass, are killed and repeated, the decisions on one
\* generation come from one review, overrides apart (cli.py:192-199).
THEOREM DecidedOnce == Spec => []ReapplyDecidesNothingTwice
<1>1. Reviewed => ReapplyDecidesNothingTwice
  BY DEF Reviewed
<1> QED BY SpecReviewed, <1>1, PTL

-----------------------------------------------------------------------------
(***************************************************************************)
(* What holds when no label is used twice                                  *)
(***************************************************************************)
\* The drafts so far are of earlier passes, or of revisions up to the present.
DraftsArePast ==
    \A k \in 1..Len(log) :
        log[k].kind = "generation" =>
            /\ log[k].id.label <= pass
            /\ log[k].id.label = pass /\ stage = "draft" => log[k].id.rev < rev
            /\ log[k].id.label = pass /\ stage = "judge" => log[k].id.rev <= rev

OneDraftEach ==
    \A j, k \in 1..Len(log) :
        /\ log[j].kind = "generation" /\ log[k].kind = "generation"
        /\ log[j].id = log[k].id
        => j = k

\* What is judged or decided was drafted before.
DraftStands ==
    /\ stage = "judge" => \E k \in 1..Len(log) : log[k].kind = "generation" /\ log[k].id = GenId
    /\ \A k \in 1..Len(log) :
         log[k].kind \in {"verification", "decision"} /\ log[k].action # "escalate" =>
             \E j \in 1..(k - 1) : log[j].kind = "generation" /\ log[j].id = log[k].id

Named ==
    /\ DraftsArePast
    /\ OneDraftEach
    /\ DraftStands
    /\ DecidedWasGated

LEMMA InitNamed == Init => Named
<1> SUFFICES ASSUME Init PROVE Named
  OBVIOUS
<1>1. 1..Len(log) = {} /\ stage = "idle" /\ made = {}
  BY DEF Init
<1> QED BY <1>1 DEF Named, DraftsArePast, OneDraftEach, DraftStands, DecidedWasGated

\* Judgements and gated decisions stay when lines are appended.
LEMMA DecisionsStay ==
    ASSUME Reviewed, DecidedWasGated, \A k \in 1..Len(log) : log'[k] = log[k],
           UNCHANGED made
    PROVE  DecidedWasGated'
<1> SUFFICES ASSUME NEW d \in made, ~d.override
             PROVE  (\E g \in 1..(d.line - 1), v \in 1..(d.line - 1) :
                       /\ JudgedAt(g, v)
                       /\ log[v].action = "human_gate"
                       /\ log[g].id = log[d.line].id
                       /\ log[d.line].text.by = "draft" => log[d.line].text.line = g)'
  BY DEF DecidedWasGated
<1>1. PICK g \in 1..(d.line - 1), v \in 1..(d.line - 1) :
             /\ JudgedAt(g, v)
             /\ log[v].action = "human_gate"
             /\ log[g].id = log[d.line].id
             /\ log[d.line].text.by = "draft" => log[d.line].text.line = g
  BY DEF DecidedWasGated
<1>2. d.line \in 1..Len(log)
  BY DEF Reviewed, TypeOK
<1>3. Len(log) \in Nat
  BY DEF Reviewed, Standing
<1>4. \A k \in 1..d.line : log'[k] = log[k]
  BY <1>2, <1>3
<1>5. JudgedAt(g, v)'
  <2>1. \A k \in (g + 1)..(v - 1) : log'[k] = log[k]
    BY <1>2, <1>3, <1>4
  <2>2. log'[g] = log[g] /\ log'[v] = log[v]
    BY <1>2, <1>3, <1>4
  <2> QED BY <1>1, <2>1, <2>2 DEF JudgedAt
<1>6. log'[g] = log[g] /\ log'[v] = log[v] /\ log'[d.line] = log[d.line]
  BY <1>2, <1>3, <1>4
<1> QED BY <1>1, <1>5, <1>6

LEMMA GenerationIds ==
    ASSUME Reviewed, NEW k \in 1..Len(log), log[k].kind = "generation"
    PROVE  log[k].id \in GenIds /\ log[k].id.label \in Nat /\ log[k].id.rev \in Nat
<1>1. log[k] \in Events
  BY DEF Reviewed, Standing
<1>2. log[k].id \in GenIds
  BY <1>1 DEF Events
<1> QED BY <1>2, ReviewAssumption DEF GenIds

\* A step that leaves the log alone.
LEMMA QuietNamed ==
    ASSUME Reviewed, Named, UNCHANGED <<log, made>>,
           \/ stage' = "idle" /\ pass' = pass
           \/ stage' = "draft" /\ pass' = pass + 1
           \/ UNCHANGED <<stage, pass, rev>>
    PROVE  Named'
<1>1. pass \in Nat
  BY ReviewAssumption DEF Reviewed, TypeOK
<1>2. \A k \in 1..Len(log) : log[k].kind = "generation" => log[k].id.label \in Nat
  BY GenerationIds
<1>3. DraftsArePast'
  BY <1>1, <1>2 DEF Named, DraftsArePast
<1>4. OneDraftEach' /\ DraftStands'
  BY DEF Named, OneDraftEach, DraftStands, GenId
<1>5. DecidedWasGated'
  BY DecisionsStay DEF Named
<1> QED BY <1>3, <1>4, <1>5 DEF Named

LEMMA GenerateNamed ==
    ASSUME ~LabelsReused, Reviewed, Named, Generate
    PROVE  Named'
<1>1. PICK clean \in BOOLEAN :
        log' = Append(log, [kind |-> "generation", id |-> GenId, clean |-> clean])
  BY DEF Generate
<1> DEFINE e == [kind |-> "generation", id |-> GenId, clean |-> clean]
           n == Len(log) + 1
<1>2. GenId \in GenIds /\ GenId.label = pass /\ GenId.rev = rev
  BY GenIdTyped DEF Generate, Reviewed, GenId
<1>3. e \in Events'
  BY <1>2 DEF Events
<1>4. /\ Len(log) \in Nat /\ Len(log') = n
      /\ \A k \in 1..Len(log) : log'[k] = log[k]
      /\ log'[n] = e
  BY <1>1, <1>3, Appends DEF Reviewed, Standing
<1>5. /\ stage = "draft" /\ stage' = "judge"
      /\ UNCHANGED <<pass, rev, review, read, reviews, made>>
  BY DEF Generate, reviewVars
<1>6. 1..Len(log') = 1..Len(log) \cup {n} /\ n \notin 1..Len(log)
  BY <1>4
<1>7. pass \in Nat /\ rev \in Nat
  BY ReviewAssumption DEF Reviewed, TypeOK
<1>8. DraftsArePast'
  <2> SUFFICES ASSUME NEW k \in 1..Len(log'), log'[k].kind = "generation"
               PROVE  /\ log'[k].id.label <= pass
                      /\ log'[k].id.label = pass => log'[k].id.rev <= rev
    BY <1>5 DEF DraftsArePast
  <2>1. CASE k = n
    <3>1. log'[k].id = GenId
      BY <1>4, <2>1
    <3> QED BY <1>2, <1>7, <3>1
  <2>2. CASE k \in 1..Len(log)
    <3>1. log'[k] = log[k] /\ log[k].id.rev \in Nat
      BY <1>4, <2>2, GenerationIds
    <3> QED BY <1>5, <1>7, <2>2, <3>1 DEF Named, DraftsArePast
  <2> QED BY <1>6, <1>4, <2>1, <2>2
<1>9. \A k \in 1..Len(log) : log[k].kind = "generation" => log[k].id # GenId
  BY <1>2, <1>5, <1>7 DEF Named, DraftsArePast
<1>10. OneDraftEach'
  BY <1>4, <1>6, <1>9 DEF Named, OneDraftEach
<1>11. DraftStands'
  <2>1. GenId' = GenId
    BY <1>5 DEF GenId
  <2>2. \A k \in 1..Len(log) : 1..(k - 1) \subseteq 1..Len(log)
    BY <1>4
  <2> QED BY <1>4, <1>6, <2>1, <2>2 DEF Named, DraftStands
<1>12. DecidedWasGated'
  BY <1>4, <1>5, DecisionsStay DEF Named
<1> QED BY <1>8, <1>10, <1>11, <1>12 DEF Named

\* A verification, of a draft that stands unless it escalates.
LEMMA VerificationNamed ==
    ASSUME ~LabelsReused, Reviewed, Named, stage \in {"draft", "judge"},
           NEW a \in {"revise", "human_gate", "escalate"},
           a = "escalate" \/ stage = "judge",
           log' = Append(log, [kind |-> "verification", id |-> GenId, action |-> a]),
           \/ stage' = "idle"
           \/ stage = "judge" /\ stage' = "draft" /\ rev' = rev + 1,
           pass' = pass, UNCHANGED reviewVars
    PROVE  Named'
<1> DEFINE e == [kind |-> "verification", id |-> GenId, action |-> a]
           n == Len(log) + 1
<1>1. e \in Events' /\ pass \in Nat /\ rev \in Nat
  BY GenIdTyped, ReviewAssumption DEF Events, Reviewed, TypeOK
<1>2. /\ Len(log) \in Nat /\ Len(log') = n
      /\ \A k \in 1..Len(log) : log'[k] = log[k]
      /\ log'[n] = e
  BY <1>1, Appends DEF Reviewed, Standing
<1>3. 1..Len(log') = 1..Len(log) \cup {n} /\ n \notin 1..Len(log)
  BY <1>2
<1>4. e.kind = "verification" /\ e.action = a /\ e.id = GenId
  OBVIOUS
<1>5. DraftsArePast'
  <2> SUFFICES ASSUME NEW k \in 1..Len(log'), log'[k].kind = "generation"
               PROVE  /\ log'[k].id.label <= pass'
                      /\ log'[k].id.label = pass' /\ stage' = "draft" => log'[k].id.rev < rev'
                      /\ log'[k].id.label = pass' /\ stage' = "judge" => log'[k].id.rev <= rev'
    BY DEF DraftsArePast
  <2>1. k \in 1..Len(log) /\ log'[k] = log[k] /\ log[k].kind = "generation"
    BY <1>2, <1>3, <1>4
  <2>2. log[k].id.rev \in Nat
    BY <2>1, GenerationIds
  <2> QED BY <1>1, <2>1, <2>2 DEF Named, DraftsArePast
<1>6. OneDraftEach'
  BY <1>2, <1>3, <1>4 DEF Named, OneDraftEach
<1>7. DraftStands'
  <2>1. stage' # "judge"
    OBVIOUS
  <2>2. \A k \in 1..Len(log) : 1..(k - 1) \subseteq 1..Len(log)
    BY <1>2
  <2>3. a # "escalate" => \E j \in 1..Len(log) : log[j].kind = "generation" /\ log[j].id = GenId
    BY DEF Named, DraftStands
  <2>4. 1..(n - 1) = 1..Len(log)
    BY <1>2
  <2> HIDE DEF n, e
  <2>5. ASSUME a # "escalate"
        PROVE  \E j \in 1..(n - 1) : log'[j].kind = "generation" /\ log'[j].id = log'[n].id
    <3>1. PICK j \in 1..Len(log) : log[j].kind = "generation" /\ log[j].id = GenId
      BY <2>3, <2>5
    <3> QED BY <1>2, <1>4, <2>4, <3>1
  <2>6. ASSUME NEW k \in 1..Len(log),
               log[k].kind \in {"verification", "decision"}, log[k].action # "escalate"
        PROVE  \E j \in 1..(k - 1) : log'[j].kind = "generation" /\ log'[j].id = log'[k].id
    <3>1. PICK j \in 1..(k - 1) : log[j].kind = "generation" /\ log[j].id = log[k].id
      BY <2>6 DEF Named, DraftStands
    <3>2. j \in 1..Len(log)
      BY <2>2, <3>1
    <3>3. log'[j] = log[j] /\ log'[k] = log[k]
      BY <1>2, <3>2
    <3> QED BY <3>1, <3>3
  <2>7. ASSUME NEW k \in 1..Len(log'),
               log'[k].kind \in {"verification", "decision"}, log'[k].action # "escalate"
        PROVE  \E j \in 1..(k - 1) : log'[j].kind = "generation" /\ log'[j].id = log'[k].id
    <3>1. CASE k = n
      BY <1>2, <1>4, <2>5, <2>7, <3>1
    <3>2. CASE k \in 1..Len(log)
      <4>1. log'[k] = log[k]
        BY <1>2, <3>2
      <4> QED BY <2>6, <2>7, <3>2, <4>1
    <3> QED BY <1>3, <3>1, <3>2
  <2> QED BY <2>1, <2>7 DEF DraftStands
<1>8. DecidedWasGated'
  BY <1>2, DecisionsStay DEF Named, reviewVars
<1> QED BY <1>5, <1>6, <1>7, <1>8 DEF Named

LEMMA JudgeNamed ==
    ASSUME ~LabelsReused, Reviewed, Named, Judge
    PROVE  Named'
<1>1. PICK a \in {"revise", "human_gate", "escalate"} : a \in Judgements /\ Verified(a)
  BY JudgementsAre DEF Judge
<1> QED BY <1>1, VerificationNamed DEF Judge, Verified

LEMMA NoDraftNamed ==
    ASSUME ~LabelsReused, Reviewed, Named, NoDraft
    PROVE  Named'
BY VerificationNamed DEF NoDraft

\* A draft that awaits a human is the one its verification judged.
LEMMA AwaitedWasJudged ==
    ASSUME Reviewed, Named, NEW id, AwaitsHuman(id)
    PROVE  \E v \in 1..Len(log) :
             /\ Gen(id) \in 1..Len(log) /\ log[Gen(id)].id = id
             /\ JudgedAt(Gen(id), v) /\ log[v].action = "human_gate"
<1>1. read \in Nat /\ Len(log) \in Nat /\ read <= Len(log)
  BY DEF Reviewed, TypeOK, Standing
<1>2. /\ Gen(id) \in 1..Len(log) /\ log[Gen(id)].kind = "generation"
      /\ log[Gen(id)].id = id
  BY <1>1, GenIs DEF AwaitsHuman, LinesOf, Reviewed
<1>3. PICK v \in 1..Len(log) : log[v].kind = "verification" /\ log[v].id = id
                               /\ log[v].action = "human_gate"
  BY <1>1 DEF AwaitsHuman, LinesOf
<1>4. PICK j \in 1..(v - 1) : log[j].kind = "generation" /\ log[j].id = id
  BY <1>3 DEF Named, DraftStands
<1>5. j \in 1..Len(log) /\ j < v
  BY <1>1, <1>3, <1>4
<1>6. j = Gen(id)
  BY <1>2, <1>4, <1>5 DEF Named, OneDraftEach
<1>7. \A k \in (j + 1)..(v - 1) : log[k].kind = "generation" => log[k].id # id
  <2> SUFFICES ASSUME NEW k \in (j + 1)..(v - 1), log[k].kind = "generation", log[k].id = id
               PROVE  FALSE
    OBVIOUS
  <2>1. k \in 1..Len(log) /\ k # j
    BY <1>1, <1>5
  <2> QED BY <1>4, <1>5, <2>1 DEF Named, OneDraftEach
<1>8. JudgedAt(j, v)
  BY <1>3, <1>4, <1>5, <1>7 DEF JudgedAt
<1> QED BY <1>2, <1>3, <1>6, <1>8

LEMMA ApplyRowNamed ==
    ASSUME Reviewed, Named, NEW row \in Rows, ApplyRow(row), Reviewed'
    PROVE  Named'
<1> DEFINE text == IF row.action = "decline" THEN NoText ELSE FinalText(row)
           e == [kind |-> "decision", id |-> row.id, action |-> row.action, text |-> text]
           n == Len(log) + 1
           d0 == [line |-> n, review |-> reviews, override |-> row.override]
<1>1. /\ log' = Append(log, e) /\ made' = made \cup {d0}
      /\ UNCHANGED <<review, read, reviews, stage, pass, rev>>
  BY DEF ApplyRow, passVars
<1>2. /\ Len(log) \in Nat /\ Len(log') = n
      /\ \A k \in 1..Len(log) : log'[k] = log[k]
      /\ log'[n] = e
  BY <1>1 DEF Reviewed, Standing
<1>3. 1..Len(log') = 1..Len(log) \cup {n} /\ n \notin 1..Len(log) /\ 1..(n - 1) = 1..Len(log)
  BY <1>2
<1>4. e.kind = "decision" /\ e.id = row.id /\ e.text = text
  OBVIOUS
<1>5. DraftsArePast'
  BY <1>1, <1>2, <1>3, <1>4 DEF Named, DraftsArePast
<1>6. OneDraftEach'
  BY <1>2, <1>3, <1>4 DEF Named, OneDraftEach
<1>7. DraftStands'
  <2>1. GenId' = GenId
    BY <1>1 DEF GenId
  <2>2. \A k \in 1..Len(log) : 1..(k - 1) \subseteq 1..Len(log)
    BY <1>2
  <2>3. read <= Len(log) /\ read \in Nat
    BY DEF Reviewed, TypeOK
  <2>4. \E j \in 1..Len(log) : log[j].kind = "generation" /\ log[j].id = row.id
    BY <1>2, <2>3 DEF ApplyRow, LinesOf
  <2> QED BY <1>1, <1>2, <1>3, <1>4, <2>1, <2>2, <2>4 DEF Named, DraftStands
<1>8. DecidedWasGated'
  <2> SUFFICES ASSUME NEW d \in made', ~d.override
               PROVE  (\E g \in 1..(d.line - 1), v \in 1..(d.line - 1) :
                         /\ JudgedAt(g, v)
                         /\ log[v].action = "human_gate"
                         /\ log[g].id = log[d.line].id
                         /\ log[d.line].text.by = "draft" => log[d.line].text.line = g)'
    BY DEF DecidedWasGated
  <2>1. ASSUME NEW g \in 1..Len(log), NEW v \in 1..Len(log), JudgedAt(g, v)
        PROVE  JudgedAt(g, v)' /\ log'[g] = log[g] /\ log'[v] = log[v]
    <3>1. \A k \in (g + 1)..(v - 1) : k \in 1..Len(log)
      BY <1>2
    <3> QED BY <1>2, <2>1, <3>1 DEF JudgedAt
  <2>2. CASE d \in made
    <3>1. PICK g \in 1..(d.line - 1), v \in 1..(d.line - 1) :
                 /\ JudgedAt(g, v)
                 /\ log[v].action = "human_gate"
                 /\ log[g].id = log[d.line].id
                 /\ log[d.line].text.by = "draft" => log[d.line].text.line = g
      BY <2>2 DEF Named, DecidedWasGated
    <3>2. d.line \in 1..Len(log)
      BY <2>2 DEF Reviewed, TypeOK
    <3>3. g \in 1..Len(log) /\ v \in 1..Len(log) /\ log'[d.line] = log[d.line]
      BY <1>2, <3>2
    <3> QED BY <2>1, <3>1, <3>3
  <2>3. CASE d = d0
    <3>1. AwaitsHuman(row.id)
      BY <2>3 DEF ApplyRow
    <3>2. PICK v \in 1..Len(log) :
                 /\ Gen(row.id) \in 1..Len(log) /\ log[Gen(row.id)].id = row.id
                 /\ JudgedAt(Gen(row.id), v) /\ log[v].action = "human_gate"
      BY <3>1, AwaitedWasJudged
    <3>3. text.by = "draft" => text.line = Gen(row.id)
      BY DEF FinalText, NoText, DraftText, Rows, HumanText
    <3>4. d.line = n
      BY <2>3
    <3> QED BY <1>2, <1>3, <1>4, <2>1, <3>2, <3>3, <3>4
  <2> QED BY <1>1, <2>2, <2>3
<1> QED BY <1>5, <1>6, <1>7, <1>8 DEF Named

LEMMA NextNamed ==
    ASSUME ~LabelsReused, Reviewed, Named, [Next]_vars
    PROVE  Named'
<1>1. CASE StartPass
  BY <1>1, QuietNamed DEF StartPass, reviewVars
<1>2. CASE NoDraft
  BY <1>2, NoDraftNamed
<1>3. CASE Generate
  BY <1>3, GenerateNamed
<1>4. CASE Judge
  BY <1>4, JudgeNamed
<1>5. CASE KillPass
  BY <1>5, QuietNamed DEF KillPass, reviewVars
<1>6. CASE StartReview
  BY <1>6, QuietNamed DEF StartReview, passVars
<1>7. CASE \E row \in Rows : ApplyRow(row)
  BY <1>7, ApplyRowNamed, ApplyRowReviewed
<1>8. CASE EndReview
  BY <1>8, QuietNamed DEF EndReview, passVars
<1>9. CASE UNCHANGED vars
  BY <1>9, QuietNamed DEF vars
<1> QED BY <1>1, <1>2, <1>3, <1>4, <1>5, <1>6, <1>7, <1>8, <1>9 DEF Next

\* What is drawn from Named: a gated draft is offered until it is decided.
LEMMA GatedIsOffered ==
    ASSUME Reviewed, Named
    PROVE  NothingGatedIsLost
<1> SUFFICES ASSUME NEW g \in 1..Len(log), NEW v \in 1..Len(log), JudgedAt(g, v),
                    log[v].action = "human_gate", read = Len(log),
                    \A k \in (g + 1)..Len(log) :
                        ~(log[k].kind = "decision" /\ log[k].id = log[g].id)
             PROVE  AwaitsHuman(log[g].id) /\ Gen(log[g].id) = g
  BY DEF NothingGatedIsLost
<1> DEFINE id == log[g].id
<1>1. Len(log) \in Nat
  BY DEF Reviewed, Standing
<1>2. g \in LinesOf("generation", id) /\ v \in LinesOf("verification", id)
  BY DEF JudgedAt, LinesOf
<1>3. LinesOf("decision", id) = {}
  <2> SUFFICES ASSUME NEW k \in 1..Len(log), log[k].kind = "decision", log[k].id = id
               PROVE  FALSE
    BY DEF LinesOf
  <2>1. log[k].action # "escalate"
    <3>1. log[k] \in Events
      BY DEF Reviewed, Standing
    <3> QED BY <3>1 DEF Events
  <2>2. PICK j \in 1..(k - 1) : log[j].kind = "generation" /\ log[j].id = id
    BY <2>1 DEF Named, DraftStands
  <2>3. j \in 1..Len(log) /\ j < k
    BY <1>1, <2>2
  <2>4. j = g
    BY <1>2, <2>2, <2>3 DEF Named, OneDraftEach, LinesOf
  <2> QED BY <2>3, <2>4
<1>4. Gen(id) = g
  <2>1. Gen(id) \in LinesOf("generation", id)
    BY <1>2, GenIs DEF Reviewed
  <2> QED BY <1>2, <2>1 DEF Named, OneDraftEach, LinesOf
<1> QED BY <1>2, <1>3, <1>4 DEF AwaitsHuman

LEMMA SpecNamed ==
    ASSUME ~LabelsReused
    PROVE  Spec => [](Reviewed /\ Named)
<1>1. Init => Reviewed /\ Named
  BY InitReviewed, InitNamed
<1>2. Reviewed /\ Named /\ [Next]_vars => (Reviewed /\ Named)'
  BY NextReviewed, NextNamed
<1> QED BY <1>1, <1>2, PTL DEF Spec

\* While no label is used twice, what is decided without an override reached the
\* human gate before, and the draft stored is the very one (cli.py:218-220).
THEOREM OnlyGatedIsDecided ==
    ASSUME ~LabelsReused
    PROVE  Spec => []DecidedWasGated
<1>1. Reviewed /\ Named => DecidedWasGated
  BY DEF Named
<1> QED BY SpecNamed, <1>1, PTL

\* While no label is used twice, a draft at the gate is offered by every review
\* until one decides on it (cli.py:192-199).
THEOREM GateHoldsTheDraft ==
    ASSUME ~LabelsReused
    PROVE  Spec => []NothingGatedIsLost
<1>1. Reviewed /\ Named => NothingGatedIsLost
  BY GatedIsOffered
<1> QED BY SpecNamed, <1>1, PTL

=============================================================================
