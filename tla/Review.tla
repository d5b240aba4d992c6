------------------------------- MODULE Review -------------------------------
(***************************************************************************)
(* The human decision point (cmd_review in balancecheck/cli.py) beside the *)
(* passes that feed it (balancecheck/runner.py).  Both know each other     *)
(* only through the event log.  A pass logs a generation and then the      *)
(* verification that judges it; a review reads the log once, then appends  *)
(* a decision per row of the reviewer's file, and may be killed anywhere   *)
(* and started again with the same file or another.                        *)
(*                                                                         *)
(* One scenario is modelled: the identifier of a generation is then the    *)
(* label of its pass and its revision, and carries no run.                 *)
(***************************************************************************)
EXTENDS Integers, Sequences, FiniteSets

CONSTANTS
    MaxRevisions,    \* the last revision a pass may reach
    LabelsReused,    \* every pass runs under one label, as the Makefile's do
    MaxPasses,       \* bound: passes
    MaxReviews,      \* bound: reviews
    MaxDecisions     \* bound: decisions in the log

ASSUME ReviewAssumption ==
    /\ MaxRevisions \in Nat
    /\ LabelsReused \in BOOLEAN
    /\ MaxPasses \in Nat
    /\ MaxReviews \in Nat
    /\ MaxDecisions \in Nat

VARIABLES
    log,       \* the event log
    stage,     \* where the pass stands, "idle" when none runs
    pass,      \* passes started
    rev,       \* the revision the pass is at
    review,    \* a review is applying its rows
    read,      \* the lines of the log it has read
    reviews,   \* reviews started
    made       \* history: line, review and override of each decision

vars == <<log, stage, pass, rev, review, read, reviews, made>>

GenIds == [label : 1..MaxPasses, rev : 0..MaxRevisions]

\* The texts a decision may store.  A draft is known by its line; clean says
\* that the code checks find nothing wrong in the text.
DraftText(k) == [by |-> "draft", line |-> k, clean |-> log[k].clean]
HumanText(clean) == [by |-> "human", line |-> 0, clean |-> clean]
NoText == [by |-> "nobody", line |-> 0, clean |-> TRUE]

Init ==
    /\ log = << >>
    /\ stage = "idle"
    /\ pass = 0
    /\ rev = 0
    /\ review = FALSE
    /\ read = 0
    /\ reviews = 0
    /\ made = {}

(***************************************************************************)
(* A pass over the scenario                                                *)
(***************************************************************************)
reviewVars == <<review, read, reviews, made>>

GenId == [label |-> IF LabelsReused THEN 1 ELSE pass, rev |-> rev]

StartPass ==
    /\ stage = "idle"
    /\ pass < MaxPasses
    /\ pass' = pass + 1
    /\ rev' = 0
    /\ stage' = "draft"
    /\ UNCHANGED <<log, reviewVars>>

\* The records support no draft, or the agentic recovery returned none.
NoDraft ==
    /\ stage = "draft"
    /\ log' = Append(log, [kind |-> "verification", id |-> GenId,
                           action |-> "escalate"])
    /\ stage' = "idle"
    /\ UNCHANGED <<pass, rev, reviewVars>>

Generate ==
    /\ stage = "draft"
    /\ \E clean \in BOOLEAN :
         log' = Append(log, [kind |-> "generation", id |-> GenId, clean |-> clean])
    /\ stage' = "judge"
    /\ UNCHANGED <<pass, rev, reviewVars>>

\* What the gate may say of the pass's last draft: only one that passed every
\* code check reaches the human gate, and the last revision is not revised.
Judgements ==
    LET drafted == CHOOSE k \in DOMAIN log :
                     /\ log[k].kind = "generation"
                     /\ \A j \in (k + 1)..Len(log) : log[j].kind # "generation"
    IN  {"escalate"} \cup (IF log[drafted].clean THEN {"human_gate"} ELSE {})
                     \cup (IF rev < MaxRevisions THEN {"revise"} ELSE {})

Verified(action) ==
    /\ log' = Append(log, [kind |-> "verification", id |-> GenId, action |-> action])
    /\ stage' = IF action = "revise" THEN "draft" ELSE "idle"
    /\ rev' = IF action = "revise" THEN rev + 1 ELSE rev
    /\ UNCHANGED <<pass, reviewVars>>

\* Seeded fault: the last revision is revised too.
Judge_NoLimit == stage = "judge" /\ \E a \in Judgements \cup {"revise"} : Verified(a)

Judge == stage = "judge" /\ \E a \in Judgements : Verified(a)

\* Killed, or stopped by a model call that never succeeds.
KillPass ==
    /\ stage # "idle"
    /\ stage' = "idle"
    /\ UNCHANGED <<log, pass, rev, reviewVars>>

(***************************************************************************)
(* What a review makes of the lines it has read                            *)
(***************************************************************************)
LinesOf(kind, id) == {k \in 1..read : log[k].kind = kind /\ log[k].id = id}

\* The generation an identifier stands for is the last one logged under it.
Gen(id) == CHOOSE k \in LinesOf("generation", id) :
               \A j \in LinesOf("generation", id) : j <= k

\* Seeded faults: a verdict of any kind counts, decisions are not looked at,
\* and the decisions under a label count for all of its revisions.
AwaitsHuman_AnyVerdict(id) ==
    /\ LinesOf("decision", id) = {}
    /\ LinesOf("generation", id) # {}
    /\ LinesOf("verification", id) # {}

AwaitsHuman_Forgetful(id) ==
    /\ LinesOf("generation", id) # {}
    /\ \E k \in LinesOf("verification", id) : log[k].action = "human_gate"

AwaitsHuman_ByLabel(id) ==
    /\ \A r \in 0..MaxRevisions : LinesOf("decision", [id EXCEPT !.rev = r]) = {}
    /\ LinesOf("generation", id) # {}
    /\ \E k \in LinesOf("verification", id) : log[k].action = "human_gate"

\* pending: verified for the human gate and not decided.
AwaitsHuman(id) ==
    /\ LinesOf("decision", id) = {}
    /\ LinesOf("generation", id) # {}
    /\ \E k \in LinesOf("verification", id) : log[k].action = "human_gate"

(***************************************************************************)
(* A review                                                                *)
(***************************************************************************)
passVars == <<stage, pass, rev>>

Rows == [id : GenIds, action : {"approve", "edit", "decline"},
         text : {NoText, HumanText(TRUE), HumanText(FALSE)}, override : BOOLEAN]

FinalText(row) ==
    IF row.action = "approve" /\ row.text = NoText
      THEN DraftText(Gen(row.id)) ELSE row.text

\* Seeded fault: the text of an approval is not checked again.
Refused_Edits(row) == row.action = "edit" /\ ~FinalText(row).clean /\ ~row.override

\* Re-verification of the text about to be stored.
Refused(row) == row.action # "decline" /\ ~FinalText(row).clean /\ ~row.override

StartReview ==
    /\ ~review
    /\ reviews < MaxReviews
    /\ review' = TRUE
    /\ read' = Len(log)
    /\ reviews' = reviews + 1
    /\ UNCHANGED <<log, made, passVars>>

\* One row becomes a decision.  A row that is skipped or refused changes
\* nothing.
ApplyRow(row) ==
    /\ review
    /\ Cardinality(made) < MaxDecisions
    /\ LinesOf("generation", row.id) # {}
    /\ AwaitsHuman(row.id) \/ row.override
    /\ ~Refused(row)
    /\ log' = Append(log, [kind |-> "decision", id |-> row.id, action |-> row.action,
                           text |-> IF row.action = "decline" THEN NoText
                                                              ELSE FinalText(row)])
    /\ made' = made \cup {[line |-> Len(log) + 1, review |-> reviews,
                           override |-> row.override]}
    /\ UNCHANGED <<review, read, reviews, passVars>>

\* The rows are through, or the review is killed before the rest of them.
EndReview ==
    /\ review
    /\ review' = FALSE
    /\ UNCHANGED <<log, read, reviews, made, passVars>>

Next ==
    \/ StartPass \/ NoDraft \/ Generate \/ Judge \/ KillPass
    \/ StartReview \/ (\E row \in Rows : ApplyRow(row)) \/ EndReview

Spec == Init /\ [][Next]_vars

-----------------------------------------------------------------------------
(***************************************************************************)
(* Properties                                                              *)
(***************************************************************************)
Texts == [by : {"draft", "human", "nobody"}, line : 0..Len(log), clean : BOOLEAN]

Events ==
    [kind : {"generation"}, id : GenIds, clean : BOOLEAN]
      \cup [kind : {"verification"}, id : GenIds,
            action : {"revise", "human_gate", "escalate"}]
      \cup [kind : {"decision"}, id : GenIds,
            action : {"approve", "edit", "decline"}, text : Texts]

\* Every variable keeps its type.
TypeOK ==
    /\ \A k \in DOMAIN log : log[k] \in Events
    /\ stage \in {"idle", "draft", "judge"}
    /\ pass \in 0..MaxPasses
    /\ rev \in 0..MaxRevisions
    /\ review \in BOOLEAN
    /\ read \in 0..Len(log)
    /\ reviews \in 0..MaxReviews
    /\ made \subseteq [line : 1..Len(log), review : 1..MaxReviews, override : BOOLEAN]

\* Line g is a draft that the verification on line v judged.
JudgedAt(g, v) ==
    /\ g < v
    /\ log[g].kind = "generation" /\ log[v].kind = "verification"
    /\ log[g].id = log[v].id
    /\ \A k \in (g + 1)..(v - 1) : log[k].kind = "generation" => log[k].id # log[g].id

\* cli.py:218-220: a decision that needed no override is about a generation
\* that reached the human gate before it, and where it stores a draft, it
\* stores the very draft the gate passed.
DecidedWasGated ==
    \A d \in made :
        ~d.override =>
            \E g \in 1..(d.line - 1), v \in 1..(d.line - 1) :
                /\ JudgedAt(g, v)
                /\ log[v].action = "human_gate"
                /\ log[g].id = log[d.line].id
                /\ log[d.line].text.by = "draft" => log[d.line].text.line = g

\* cli.py:232-234: no text that fails the checks is stored without an override,
\* the draft's own or the reviewer's.
StoredTextReverified ==
    \A d \in made : ~log[d.line].text.clean => d.override

\* cli.py:192-199: a file applied again after a kill, or a second file, never
\* decides again what was decided, unless it overrides: decisions on one
\* generation come from one review.
ReapplyDecidesNothingTwice ==
    \A d \in made, e \in made :
        /\ ~e.override
        /\ d.line < e.line
        /\ log[d.line].id = log[e.line].id
        => d.review = e.review

\* cli.py:192-199: a review that starts now would offer every draft at the
\* gate that no decision was made on since it was drafted.
NothingGatedIsLost ==
    \A g \in 1..Len(log), v \in 1..Len(log) :
        /\ JudgedAt(g, v)
        /\ log[v].action = "human_gate"
        /\ read = Len(log)
        => \/ AwaitsHuman(log[g].id) /\ Gen(log[g].id) = g
           \/ \E k \in (g + 1)..Len(log) :
                  log[k].kind = "decision" /\ log[k].id = log[g].id

=============================================================================
