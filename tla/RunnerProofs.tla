---------------------------- MODULE RunnerProofs ----------------------------
(***************************************************************************)
(* Theorems about the verification loop, for every set of ledgers, replies *)
(* and configurations and every pair of budgets that fits the loop bound.  *)
(*                                                                         *)
(* The lemmas about Checks and Gate say what one check and one decision    *)
(* may return; they are pure first-order facts.  IInv then carries them    *)
(* through the loop: what a decision promised when it was made still holds *)
(* at every later point that relies on it.  Then comes what a             *)
(* passed check means on the records: the derivations it compares with are *)
(* those LedgerProofs shows sound, and GateInv keeps the results beside    *)
(* the draft they were computed for until a person has it.                 *)
(*                                                                         *)
(* LInv relates the log to the control state: which events are in it, in   *)
(* number, at each point of run_scenario, and what its last entries say.   *)
(* From it the log is readable, and the loop keeps the contract its        *)
(* callers rely on (ScenarioContract).                                     *)
(***************************************************************************)
EXTENDS Runner, LedgerProofs

-----------------------------------------------------------------------------
(***************************************************************************)
(* The checkers                                                            *)
(***************************************************************************)

\* The statuses a check of each claim type can give: the verifier's for a
\* fuzzy claim, pass, fail or unverifiable for every other.
CheckedClaim(r) ==
    /\ r.claim.type \in ClaimTypes
    /\ r.claim.type = "C-FUZZY" =>
         r.status \in {"pass", "unsupported", "cannot_determine"}
    /\ r.claim.type # "C-FUZZY" => r.status \in {"pass", "fail", "unverifiable"}

\* A code check says pass, fail or unverifiable, and nothing else.
LEMMA CodeCheckStatus ==
    ASSUME NEW c, NEW l, ExtractedClaim(c), c.type # "C-FUZZY"
    PROVE  CodeCheck(c, l).status \in {"pass", "fail", "unverifiable"}
<1>1. \A s, x : Result(s, x).status = s
  BY DEF Result
<1>2. CheckExist(c, l).status \in {"pass", "fail"}
  BY <1>1 DEF CheckExist
<1>3. \A d : CheckBoundAmount(c, d, l).status \in {"pass", "fail"}
  <2> TAKE d
  <2>1. \/ d \notin DocumentIds(l)
        \/ d \in DocumentIds(l) /\ c.num \in RoleFigures(d, l)[c.role]
        \/ d \in DocumentIds(l) /\ ~ (c.num \in RoleFigures(d, l)[c.role])
    OBVIOUS
  <2> QED BY <1>1, <2>1 DEF CheckBoundAmount
<1>4. CheckUnboundAmount(c, l).status \in {"pass", "fail", "unverifiable"}
  <2>1. \/ "received" \in c.span
        \/ "received" \notin c.span /\ "remit" \in c.span
        \/ "received" \notin c.span /\ "remit" \notin c.span
    OBVIOUS
  <2> QED BY <1>1, <2>1 DEF CheckUnboundAmount
<1>5. CheckAmount(c, l).status \in {"pass", "fail", "unverifiable"}
  BY <1>1, <1>3, <1>4 DEF CheckAmount
<1>6. CheckSum(c, l).status \in {"pass", "fail", "unverifiable"}
  BY <1>1 DEF CheckSum
<1>7. CheckStatusWord(c, l).status \in {"pass", "fail", "unverifiable"}
  BY <1>1 DEF CheckStatusWord
<1>8. CheckDate(c, l).status \in {"pass", "fail", "unverifiable"}
  BY <1>1 DEF CheckDate
<1>9. c.type \in {"C-EXIST", "C-AMT", "C-SUM", "C-STATUS", "C-DATE"}
  BY DEF ExtractedClaim, ClaimTypes
<1> QED
  BY <1>1, <1>2, <1>5, <1>6, <1>7, <1>8, <1>9 DEF CodeCheck, ExtractedClaim

\* The verifier's answer becomes one of the three fuzzy statuses.
LEMMA CheckFuzzyStatus ==
    ASSUME NEW l, NEW answer \in VerifierAnswers(l)
    PROVE  CheckFuzzy(answer, l).status \in
               {"pass", "unsupported", "cannot_determine"}
<1>1. \A s, x : Result(s, x).status = s
  BY DEF Result
<1>2. answer.kind \in {"failed", "supported", "unsupported", "cannot_determine"}
  BY DEF VerifierAnswers
<1>3. CASE answer.kind = "failed"
  BY <1>1, <1>3 DEF CheckFuzzy
<1>4. CASE answer.kind # "failed" /\ answer.cited \ DocumentIds(l) # {}
  BY <1>1, <1>4 DEF CheckFuzzy
<1>5. CASE answer.kind # "failed" /\ answer.cited \ DocumentIds(l) = {}
  <2>1. answer.cited \subseteq DocumentIds(l)
    BY <1>5
  <2> QED BY <1>1, <1>2, <1>5, <2>1 DEF CheckFuzzy
<1> QED BY <1>3, <1>4, <1>5

\* Every claim of a draft comes back from check_all, with itself and a status
\* its type allows.
LEMMA CheckAllTyped ==
    ASSUME NEW claims, NEW l,
           \A k \in DOMAIN claims : ExtractedClaim(claims[k]),
           NEW answers,
           \A k \in DOMAIN claims :
               claims[k].type = "C-FUZZY" => answers[k] \in VerifierAnswers(l)
    PROVE  /\ DOMAIN CheckAll(claims, l, answers) = DOMAIN claims
           /\ \A k \in DOMAIN claims :
                /\ CheckAll(claims, l, answers)[k].claim = claims[k]
                /\ CheckedClaim(CheckAll(claims, l, answers)[k])
<1>1. DOMAIN CheckAll(claims, l, answers) = DOMAIN claims
  BY DEF CheckAll
<1>2. ASSUME NEW k \in DOMAIN claims
      PROVE  /\ CheckAll(claims, l, answers)[k].claim = claims[k]
             /\ CheckedClaim(CheckAll(claims, l, answers)[k])
  <2>1. \A s, x : /\ Result(s, x).status = s
                  /\ Checked(claims[k], Result(s, x)).claim = claims[k]
                  /\ Checked(claims[k], Result(s, x)).status = s
    BY DEF Result, Checked
  <2>2. \A r : /\ Checked(claims[k], r).claim = claims[k]
               /\ Checked(claims[k], r).status = r.status
    BY DEF Checked
  <2>3. claims[k].type \in ClaimTypes
    BY DEF ExtractedClaim
  <2>4. CASE claims[k].type = "C-FUZZY"
    <3>1. RunCodeChecks(claims, l)[k].status = "none"
      BY <2>1, <2>4 DEF RunCodeChecks, CodeCheckedTypes
    <3>2. CheckAll(claims, l, answers)[k] = Checked(claims[k], CheckFuzzy(answers[k], l))
      BY <2>4, <3>1 DEF CheckAll
    <3>3. CheckFuzzy(answers[k], l).status \in {"pass", "unsupported", "cannot_determine"}
      BY <2>4, CheckFuzzyStatus
    <3> QED BY <2>2, <2>3, <2>4, <3>2, <3>3 DEF CheckedClaim
  <2>5. CASE claims[k].type # "C-FUZZY"
    <3>1. CheckAll(claims, l, answers)[k] = RunCodeChecks(claims, l)[k]
      BY <2>5 DEF CheckAll
    <3>2. RunCodeChecks(claims, l)[k] = Checked(claims[k], CodeCheck(claims[k], l))
      BY <2>3, <2>5 DEF RunCodeChecks, CodeCheckedTypes
    <3>3. CodeCheck(claims[k], l).status \in {"pass", "fail", "unverifiable"}
      BY <2>5, CodeCheckStatus
    <3> QED BY <2>2, <2>3, <2>5, <3>1, <3>2, <3>3 DEF CheckedClaim
  <2> QED BY <2>4, <2>5
<1> QED BY <1>1, <1>2

-----------------------------------------------------------------------------
(***************************************************************************)
(* The gate                                                                *)
(***************************************************************************)

\* What MatchMatrix promises of the decision it returns.
SoundDecision(dec, cs, l, r) ==
    /\ dec \in [action : Actions, reason : Reasons, findings : SUBSET FindingKinds]
    /\ dec.action = "revise" =>
         /\ dec.findings # {}
         /\ r < RevisionBudget \/ r < FuzzyRevisionBudget
    /\ dec.action = "human_gate" =>
         /\ \A k \in DOMAIN cs :
              CheckedClaim(cs[k]) => cs[k].status = "pass"
         /\ ~Ambiguous(l)

\* A budgeted row revises below its budget and escalates at it.
LEMMA BudgetedSound ==
    ASSUME NEW cs, NEW l, NEW r, NEW budget,
           budget = RevisionBudget \/ budget = FuzzyRevisionBudget,
           NEW why \in Reasons, NEW end \in Reasons,
           NEW F \in SUBSET FindingKinds, F # {}
    PROVE  SoundDecision(Budgeted(r, budget, why, end, F), cs, l, r)
BY DEF SoundDecision, Budgeted, Decision, Actions

\* The content checklist only ever names items of the checklist.
LEMMA MissingIsItems ==
    ASSUME NEW cs, NEW draft, NEW l
    PROVE  MissingCompleteness(cs, draft, l) \subseteq CompletenessItems
<1>1. AbsentItems(draft, l) \subseteq CompletenessItems
  BY DEF AbsentItems, Unmentioned
<1> QED BY <1>1 DEF MissingCompleteness, CompletenessItems

\* When no row selects a claim, every claim passed.
LEMMA NoRowMeansPass ==
    ASSUME NEW cs,
           ExistFails(cs) = {}, Unverifiable(cs) = {},
           CodeFails(cs) = {}, FuzzyUnsupported(cs) = {},
           FuzzyCannot(cs) = {},
           NEW k \in DOMAIN cs, CheckedClaim(cs[k])
    PROVE  cs[k].status = "pass"
<1>1. CASE cs[k].claim.type = "C-FUZZY"
  BY <1>1 DEF CheckedClaim, FuzzyUnsupported, FuzzyCannot, ClaimsWith
<1>2. CASE cs[k].claim.type = "C-EXIST"
  BY <1>2 DEF CheckedClaim, ExistFails, Unverifiable, ClaimsWith, ClaimTypes
<1>3. CASE cs[k].claim.type \in CodeFailKinds
  BY <1>3 DEF CheckedClaim, CodeFails, Unverifiable, ClaimsWith, CodeFailKinds, ClaimTypes
<1> QED BY <1>1, <1>2, <1>3 DEF CheckedClaim, CodeFailKinds, ClaimTypes

LEMMA MatchMatrixSound ==
    ASSUME NEW cs, NEW draft, NEW l, NEW r
    PROVE  SoundDecision(MatchMatrix(cs, draft, l, r), cs, l, r)
<1> DEFINE D == MatchMatrix(cs, draft, l, r)
<1> DEFINE missing == MissingCompleteness(cs, draft, l)
<1>1. ASSUME NEW a \in {"abstain", "escalate"}, NEW why \in Reasons,
             NEW F \in SUBSET FindingKinds
      PROVE  SoundDecision(Decision(a, why, F), cs, l, r)
  BY DEF SoundDecision, Decision, Actions
<1>2. CASE ExistFails(cs) # {}
  <2>1. D = Decision("escalate", "fabricated", {"c_exist_fail"})
    BY <1>2 DEF MatchMatrix
  <2> QED BY <1>1, <2>1 DEF Reasons, FindingKinds
<1>3. CASE ExistFails(cs) = {} /\ Unverifiable(cs) # {}
  <2>1. D = Decision("escalate", "unverifiable", {"unverifiable_quant"})
    BY <1>3 DEF MatchMatrix
  <2> QED BY <1>1, <2>1 DEF Reasons, FindingKinds
<1> DEFINE None2 == ExistFails(cs) = {} /\ Unverifiable(cs) = {}
<1>4. CASE None2 /\ CodeFails(cs) # {}
  <2> DEFINE F == {cs[k].claim.type : k \in CodeFails(cs)}
  <2>1. D = Budgeted(r, RevisionBudget, "correctable", "budget_exhausted", F)
    BY <1>4 DEF MatchMatrix
  <2>2. F \in SUBSET FindingKinds /\ F # {}
    BY <1>4 DEF CodeFails, ClaimsWith, FindingKinds
  <2> HIDE DEF F
  <2> QED BY <2>1, <2>2, BudgetedSound DEF Reasons
<1> DEFINE None3 == None2 /\ CodeFails(cs) = {}
<1>5. CASE None3 /\ FuzzyUnsupported(cs) # {}
  <2>1. D = Budgeted(r, FuzzyRevisionBudget, "unsupported",
                     "unsupported_exhausted", {"fuzzy_unsupported"})
    BY <1>5 DEF MatchMatrix
  <2>2. {"fuzzy_unsupported"} \in SUBSET FindingKinds
    BY DEF FindingKinds
  <2>3. "unsupported" \in Reasons /\ "unsupported_exhausted" \in Reasons
    BY DEF Reasons
  <2> QED BY <2>1, <2>2, <2>3, BudgetedSound
<1> DEFINE None4 == None3 /\ FuzzyUnsupported(cs) = {}
<1>6. CASE None4 /\ FuzzyCannot(cs) # {}
  <2>1. D = Decision("escalate", "cannot_determine", {"fuzzy_cannot_determine"})
    BY <1>6 DEF MatchMatrix
  <2> QED BY <1>1, <2>1 DEF Reasons, FindingKinds
<1> DEFINE None5 == None4 /\ FuzzyCannot(cs) = {}
<1>7. CASE None5 /\ Ambiguous(l)
  <2>1. D = Decision("abstain", "ambiguous", {"ambiguous_allocation"})
    BY <1>7 DEF MatchMatrix
  <2> QED BY <1>1, <2>1 DEF Reasons, FindingKinds
<1>8. CASE None5 /\ ~Ambiguous(l) /\ ItemizationInconsistent(cs, l)
  <2>1. D = Budgeted(r, RevisionBudget, "itemization", "itemization",
                     {"itemization_inconsistent"})
    BY <1>8 DEF MatchMatrix
  <2>2. {"itemization_inconsistent"} \in SUBSET FindingKinds
    BY DEF FindingKinds
  <2>3. "itemization" \in Reasons
    BY DEF Reasons
  <2> QED BY <2>1, <2>2, <2>3, BudgetedSound
<1>9. CASE /\ None5 /\ ~Ambiguous(l) /\ ~ItemizationInconsistent(cs, l)
           /\ missing # {}
  <2>1. D = Budgeted(r, RevisionBudget, "incomplete", "incomplete", missing)
    BY <1>9 DEF MatchMatrix
  <2>2. missing \in SUBSET FindingKinds
    BY MissingIsItems DEF FindingKinds
  <2> HIDE DEF missing
  <2> QED BY <1>9, <2>1, <2>2, BudgetedSound DEF Reasons
<1>10. CASE /\ None5 /\ ~Ambiguous(l) /\ ~ItemizationInconsistent(cs, l)
            /\ missing = {}
  <2>1. D = Decision("human_gate", "all_pass", {})
    BY <1>10 DEF MatchMatrix
  <2>2. \A k \in DOMAIN cs :
           CheckedClaim(cs[k]) => cs[k].status = "pass"
    BY <1>10, NoRowMeansPass
  <2> QED BY <1>10, <2>1, <2>2 DEF SoundDecision, Decision, Actions, Reasons
<1> QED BY <1>2, <1>3, <1>4, <1>5, <1>6, <1>7, <1>8, <1>9, <1>10

\* The oscillation guard keeps every promise of the matrix.
LEMMA DecideSound ==
    ASSUME NEW cs, NEW draft, NEW l, NEW r, NEW texts
    PROVE  SoundDecision(Decide(cs, draft, l, r, texts), cs, l, r)
<1> DEFINE M == MatchMatrix(cs, draft, l, r)
<1>1. SoundDecision(M, cs, l, r)
  BY MatchMatrixSound
<1> HIDE DEF M
<1>2. Decide(cs, draft, l, r, texts) =
        IF M.action = "revise" /\ RepeatsEarlier(texts)
          THEN Decision("escalate", "loop", M.findings) ELSE M
  BY DEF Decide, WithoutLoop, M
<1> QED BY <1>1, <1>2 DEF SoundDecision, Decision, Actions, Reasons

-----------------------------------------------------------------------------
(***************************************************************************)
(* The loop                                                                *)
(***************************************************************************)

\* Before a draft is judged the last decision, if any, sent the previous one
\* back; once it is judged a decision governs, and past routing it is final.
DecisionMatchesPC ==
    /\ pc = "precheck" => rev = 0
    /\ pc \in {"precheck", "generate", "check", "decide", "raised"} =>
         decision.action \in {"none", "revise"}
    /\ pc \in {"first_pass", "route", "final", "done"} => decision.action \in Actions
    /\ pc \in {"final", "done"} => decision.action # "revise"

\* A revise verdict names what to fix and is within the budget when issued.
ReviseIsDue ==
    pc \in {"first_pass", "route"} /\ decision.action = "revise" =>
        /\ rev < MaxRevisions
        /\ decision.findings # {}
        /\ drafts # << >>

\* Checking judges the current draft, claim by claim.
ChecksAreCurrent ==
    /\ pc \in {"check", "decide"} => drafts # << >>
    /\ pc = "decide" =>
         /\ DOMAIN checked = DOMAIN CurrentDraft.claims
         /\ \A k \in DOMAIN checked : /\ checked[k].claim = CurrentDraft.claims[k]
                                      /\ CheckedClaim(checked[k])

IInv ==
    /\ TypeOK
    /\ NeverOverruns
    /\ DecisionMatchesPC
    /\ ReviseIsDue
    /\ ChecksAreCurrent
    /\ CorrectionDelivered
    /\ NothingSlipsPast

LEMMA InitIInv == Init => IInv
<1> SUFFICES ASSUME Init PROVE IInv
  OBVIOUS
<1>1. TypeOK
  <2>1. config.maxRecoveries \in Nat
    BY ConfigsAssumption DEF Init
  <2>2. decision \in Decisions
    BY DEF Init, Undecided, Decision, Decisions
  <2> QED BY <2>1, <2>2, LoopAssumption DEF Init, TypeOK, PCs
<1>2. NeverOverruns /\ DecisionMatchesPC /\ ReviseIsDue /\ ChecksAreCurrent
  BY DEF Init, NeverOverruns, DecisionMatchesPC, ReviseIsDue, ChecksAreCurrent,
         Undecided, Decision
<1>3. CorrectionDelivered /\ NothingSlipsPast
  BY DEF Init, CorrectionDelivered, NothingSlipsPast, Undecided, Decision
<1> QED BY <1>1, <1>2, <1>3 DEF IInv

\* An event of the current revision is an event of the log's type.
LEMMA EventTyped ==
    ASSUME rev \in 0..MaxRevisions, NEW kind \in EventKinds, NEW tag \in Tags,
           NEW reason \in Reasons \cup {"none"}
    PROVE  Event(kind, tag, reason) \in Events
BY DEF Event, Events

LEMMA GenerationModeTyped == GenerationMode \in GenerationModes
BY DEF GenerationMode, GenerationModes

LEMMA CurrentDraftTyped ==
    ASSUME drafts \in Seq(Drafts), drafts # << >>
    PROVE  CurrentDraft \in Drafts
BY DEF CurrentDraft

\* What a step that leaves the verdict and its draft alone keeps.
LEMMA PrecheckAbstainsIInv == IInv /\ PrecheckAbstains => IInv'
<1> SUFFICES ASSUME IInv, PrecheckAbstains PROVE IInv'
  OBVIOUS
<1> USE DEF PrecheckAbstains
<1>1. decision' \in Decisions /\ decision'.action = "abstain"
  BY DEF Decisions, Decision, Actions, Reasons, FindingKinds
<1>2. log' \in Seq(Events)
  <2>1. Event("verification", "abstain", "ambiguous") \in Events
    BY EventTyped DEF IInv, TypeOK, EventKinds, Tags, Actions, Reasons
  <2> QED BY <2>1 DEF IInv, TypeOK
<1>3. TypeOK'
  BY <1>1, <1>2 DEF IInv, TypeOK, PCs
<1>4. NeverOverruns' /\ DecisionMatchesPC' /\ ReviseIsDue'
  BY <1>1 DEF NeverOverruns, DecisionMatchesPC, ReviseIsDue, Actions
<1>5. ChecksAreCurrent' /\ CorrectionDelivered' /\ NothingSlipsPast'
  BY <1>1 DEF ChecksAreCurrent, CorrectionDelivered, NothingSlipsPast
<1> QED BY <1>3, <1>4, <1>5 DEF IInv

LEMMA PrecheckPassesIInv == IInv /\ PrecheckPasses => IInv'
<1> SUFFICES ASSUME IInv, PrecheckPasses PROVE IInv'
  OBVIOUS
<1> USE DEF PrecheckPasses
<1>1. TypeOK'
  BY DEF IInv, TypeOK, PCs
<1>2. NeverOverruns' /\ DecisionMatchesPC' /\ ReviseIsDue'
  BY DEF IInv, NeverOverruns, DecisionMatchesPC, ReviseIsDue
<1>3. ChecksAreCurrent' /\ CorrectionDelivered' /\ NothingSlipsPast'
  BY DEF IInv, DecisionMatchesPC, ChecksAreCurrent, CorrectionDelivered, NothingSlipsPast
<1> QED BY <1>1, <1>2, <1>3 DEF IInv

\* Either way of obtaining a draft.
LEMMA TakeDraftIInv ==
    ASSUME IInv, pc = "generate", NEW d \in Drafts, TakeDraft(d),
           recoveries' \in 0..config.maxRecoveries
    PROVE  IInv'
<1> USE DEF TakeDraft
<1>1. Event("generation", GenerationMode, "none") \in Events
  BY EventTyped, GenerationModeTyped DEF IInv, TypeOK, EventKinds, Tags
<1>2. TypeOK'
  BY <1>1 DEF IInv, TypeOK, PCs
<1>3. drafts' # << >>
  BY DEF IInv, TypeOK
<1>4. NeverOverruns' /\ DecisionMatchesPC' /\ ReviseIsDue'
  BY DEF IInv, NeverOverruns, DecisionMatchesPC, ReviseIsDue
<1>5. ChecksAreCurrent' /\ CorrectionDelivered'
  BY <1>3 DEF ChecksAreCurrent, CorrectionDelivered
<1>6. NothingSlipsPast'
  BY DEF IInv, DecisionMatchesPC, NothingSlipsPast
<1> QED BY <1>2, <1>4, <1>5, <1>6 DEF IInv

LEMMA PromptDraftIInv == IInv /\ PromptDraft => IInv'
BY TakeDraftIInv DEF PromptDraft, IInv, TypeOK

LEMMA AgenticDraftIInv == IInv /\ AgenticDraft => IInv'
<1> SUFFICES ASSUME IInv, AgenticDraft PROVE IInv'
  OBVIOUS
<1>1. recoveries < config.maxRecoveries
  BY DEF AgenticDraft, GenerationMode
<1>2. recoveries' \in 0..config.maxRecoveries
  <2>1. recoveries' = recoveries + 1
    BY DEF AgenticDraft
  <2>2. recoveries \in 0..config.maxRecoveries /\ config.maxRecoveries \in Nat
    BY ConfigsAssumption DEF IInv, TypeOK
  <2>3. config' = config
    BY DEF AgenticDraft, TakeDraft
  <2> QED BY <1>1, <2>1, <2>2
<1> QED BY <1>2, TakeDraftIInv DEF AgenticDraft

LEMMA ClientExhaustedIInv == IInv /\ ClientExhausted => IInv'
<1> SUFFICES ASSUME IInv, ClientExhausted PROVE IInv'
  OBVIOUS
<1> USE DEF ClientExhausted
<1>1. TypeOK'
  BY DEF IInv, TypeOK, PCs, Ended
<1>2. NeverOverruns' /\ DecisionMatchesPC' /\ ReviseIsDue'
  BY DEF IInv, NeverOverruns, DecisionMatchesPC, ReviseIsDue
<1>3. ChecksAreCurrent' /\ CorrectionDelivered' /\ NothingSlipsPast'
  BY DEF IInv, DecisionMatchesPC, ChecksAreCurrent, CorrectionDelivered, NothingSlipsPast
<1> QED BY <1>1, <1>2, <1>3 DEF IInv

LEMMA AgenticFailsIInv == IInv /\ AgenticFails => IInv'
<1> SUFFICES ASSUME IInv, AgenticFails PROVE IInv'
  OBVIOUS
<1> USE DEF AgenticFails
<1>1. decision' \in Decisions /\ decision'.action = "escalate"
  BY DEF Decisions, Decision, Actions, Reasons, FindingKinds
<1>2. Event("verification", "escalate", "agentic_exhausted") \in Events
  BY EventTyped DEF IInv, TypeOK, EventKinds, Tags, Actions, Reasons
<1>3. recoveries' \in 0..config.maxRecoveries
  <2>1. recoveries < config.maxRecoveries
    BY DEF GenerationMode
  <2> QED BY <2>1, ConfigsAssumption DEF IInv, TypeOK
<1>4. TypeOK'
  BY <1>1, <1>2, <1>3 DEF IInv, TypeOK, PCs
<1>5. NeverOverruns' /\ DecisionMatchesPC' /\ ReviseIsDue'
  BY <1>1 DEF NeverOverruns, DecisionMatchesPC, ReviseIsDue, Actions
<1>6. ChecksAreCurrent' /\ CorrectionDelivered' /\ NothingSlipsPast'
  BY <1>1 DEF ChecksAreCurrent, CorrectionDelivered, NothingSlipsPast
<1> QED BY <1>4, <1>5, <1>6 DEF IInv

LEMMA CheckDraftIInv == IInv /\ CheckDraft => IInv'
<1> SUFFICES ASSUME IInv, CheckDraft PROVE IInv'
  OBVIOUS
<1> USE DEF CheckDraft
<1>1. CurrentDraft \in Drafts
  BY CurrentDraftTyped DEF IInv, TypeOK, ChecksAreCurrent
<1>2. /\ DOMAIN checked' = DOMAIN CurrentDraft.claims
      /\ \A k \in DOMAIN CurrentDraft.claims :
           checked'[k].claim = CurrentDraft.claims[k] /\ CheckedClaim(checked'[k])
  <2>1. PICK answers \in [FuzzyClaims(CurrentDraft) -> VerifierAnswers(ledger)] :
          checked' = CheckAll(CurrentDraft.claims, ledger, answers)
    OBVIOUS
  <2>2. \A k \in DOMAIN CurrentDraft.claims : ExtractedClaim(CurrentDraft.claims[k])
    BY <1>1, DraftsAssumption
  <2>3. \A k \in DOMAIN CurrentDraft.claims :
          CurrentDraft.claims[k].type = "C-FUZZY" => answers[k] \in VerifierAnswers(ledger)
    BY <2>1 DEF FuzzyClaims
  <2> QED BY <2>1, <2>2, <2>3, CheckAllTyped
<1>3. CurrentDraft' = CurrentDraft
  BY DEF CurrentDraft
<1>4. TypeOK'
  <2>1. \A k \in DOMAIN checked' : checked'[k].status \in CheckStatuses
    BY <1>2 DEF CheckedClaim, CheckStatuses
  <2> QED BY <2>1 DEF IInv, TypeOK, PCs
<1>5. NeverOverruns' /\ DecisionMatchesPC' /\ ReviseIsDue'
  BY DEF IInv, NeverOverruns, DecisionMatchesPC, ReviseIsDue
<1>6. ChecksAreCurrent'
  BY <1>2, <1>3 DEF IInv, ChecksAreCurrent
<1>7. CorrectionDelivered' /\ NothingSlipsPast'
  BY DEF IInv, DecisionMatchesPC, CorrectionDelivered, NothingSlipsPast
<1> QED BY <1>4, <1>5, <1>6, <1>7 DEF IInv

LEMMA VerifierRaisesIInv == IInv /\ VerifierRaises => IInv'
<1> SUFFICES ASSUME IInv, VerifierRaises PROVE IInv'
  OBVIOUS
<1> USE DEF VerifierRaises
<1>1. TypeOK'
  BY DEF IInv, TypeOK, PCs, Ended
<1>2. NeverOverruns' /\ DecisionMatchesPC' /\ ReviseIsDue'
  BY DEF IInv, NeverOverruns, DecisionMatchesPC, ReviseIsDue
<1>3. ChecksAreCurrent' /\ CorrectionDelivered' /\ NothingSlipsPast'
  BY DEF IInv, DecisionMatchesPC, ChecksAreCurrent, CorrectionDelivered, NothingSlipsPast
<1> QED BY <1>1, <1>2, <1>3 DEF IInv

\* The decision that governs keeps what the gate promised.
LEMMA DecideDraftIInv == IInv /\ DecideDraft => IInv'
<1> SUFFICES ASSUME IInv, DecideDraft PROVE IInv'
  OBVIOUS
<1> DEFINE dec == Decide(checked, CurrentDraft, ledger, rev, Texts(drafts))
<1>1. SoundDecision(dec, checked, ledger, rev)
  BY DecideSound
<1>2. decision' = Governing(dec)
  BY DEF DecideDraft
<1> HIDE DEF dec
<1> USE DEF DecideDraft
<1>3. SoundDecision(decision', checked, ledger, rev)
  BY <1>1, <1>2 DEF Governing, SoundDecision, Decision, Actions, Reasons
<1>4. decision' \in Decisions /\ decision'.action \in Actions /\ decision'.reason \in Reasons
  BY <1>3 DEF SoundDecision, Decisions
<1>5. Event("verification", decision'.action, decision'.reason) \in Events
  BY <1>4, EventTyped DEF IInv, TypeOK, EventKinds, Tags
<1>6. TypeOK'
  BY <1>4, <1>5 DEF IInv, TypeOK, PCs
<1>7. NeverOverruns' /\ DecisionMatchesPC'
  BY <1>4 DEF NeverOverruns, DecisionMatchesPC
<1>8. ReviseIsDue'
  BY <1>3, LoopAssumption, BudgetsAssumption
     DEF IInv, TypeOK, ReviseIsDue, ChecksAreCurrent, SoundDecision
<1>9. CurrentDraft' = CurrentDraft
  BY DEF CurrentDraft
<1>10. ChecksAreCurrent' /\ CorrectionDelivered'
  BY DEF ChecksAreCurrent, CorrectionDelivered
<1>11. NothingSlipsPast'
  BY <1>3, <1>9 DEF IInv, ChecksAreCurrent, NothingSlipsPast, SoundDecision
<1> QED BY <1>6, <1>7, <1>8, <1>10, <1>11 DEF IInv

LEMMA ScoreFirstPassIInv == IInv /\ ScoreFirstPass => IInv'
<1> SUFFICES ASSUME IInv, ScoreFirstPass PROVE IInv'
  OBVIOUS
<1> USE DEF ScoreFirstPass
<1>1. Event("first_pass", decision.action, "none") \in Events
  BY EventTyped DEF IInv, TypeOK, EventKinds, Tags, DecisionMatchesPC
<1>2. TypeOK'
  BY <1>1 DEF IInv, TypeOK, PCs
<1>3. NeverOverruns' /\ DecisionMatchesPC' /\ ReviseIsDue'
  BY DEF IInv, NeverOverruns, DecisionMatchesPC, ReviseIsDue
<1>4. CurrentDraft' = CurrentDraft
  BY DEF CurrentDraft
<1>5. ChecksAreCurrent' /\ CorrectionDelivered' /\ NothingSlipsPast'
  BY <1>4 DEF IInv, ChecksAreCurrent, CorrectionDelivered, NothingSlipsPast
<1> QED BY <1>2, <1>3, <1>5 DEF IInv

LEMMA ReviseIInv == IInv /\ Revise => IInv'
<1> SUFFICES ASSUME IInv, Revise PROVE IInv'
  OBVIOUS
<1> USE DEF Revise
<1>1. rev < MaxRevisions /\ decision.findings # {} /\ drafts # << >>
  BY DEF IInv, ReviseIsDue
<1>2. rev' = rev + 1 /\ pc' = "generate"
  BY <1>1
<1>3. rev' \in 0..MaxRevisions
  BY <1>1, <1>2, LoopAssumption DEF IInv, TypeOK
<1>4. correction' \in SUBSET FindingKinds
  BY DEF IInv, TypeOK, Decisions
<1>5. TypeOK'
  BY <1>2, <1>3, <1>4 DEF IInv, TypeOK, PCs
<1>6. NeverOverruns' /\ DecisionMatchesPC' /\ ReviseIsDue'
  BY <1>2 DEF NeverOverruns, DecisionMatchesPC, ReviseIsDue
<1>7. ChecksAreCurrent' /\ CorrectionDelivered' /\ NothingSlipsPast'
  BY <1>1, <1>2 DEF ChecksAreCurrent, CorrectionDelivered, NothingSlipsPast
<1> QED BY <1>5, <1>6, <1>7 DEF IInv

LEMMA LogGapIInv == IInv /\ LogGap => IInv'
<1> SUFFICES ASSUME IInv, LogGap PROVE IInv'
  OBVIOUS
<1> USE DEF LogGap
<1>1. decision.action \in {"abstain", "escalate", "human_gate"}
  BY DEF IInv, DecisionMatchesPC, Actions
<1>2. DeriveGap(decision) \in GapCategories \cup {"none"}
  BY <1>1 DEF DeriveGap, GapCategories
<1>3. log' \in Seq(Events)
  <2>1. CASE DeriveGap(decision) = "none"
    BY <2>1 DEF IInv, TypeOK
  <2>2. CASE DeriveGap(decision) # "none"
    <3>1. Event("gap", DeriveGap(decision), "none") \in Events
      BY <1>2, <2>2, EventTyped DEF IInv, TypeOK, EventKinds, Tags
    <3> QED BY <2>2, <3>1 DEF IInv, TypeOK
  <2> QED BY <2>1, <2>2
<1>4. TypeOK'
  BY <1>3 DEF IInv, TypeOK, PCs
<1>5. NeverOverruns' /\ DecisionMatchesPC' /\ ReviseIsDue'
  BY DEF IInv, NeverOverruns, DecisionMatchesPC, ReviseIsDue
<1>6. CurrentDraft' = CurrentDraft
  BY DEF CurrentDraft
<1>7. ChecksAreCurrent' /\ CorrectionDelivered' /\ NothingSlipsPast'
  BY <1>6 DEF IInv, ChecksAreCurrent, CorrectionDelivered, NothingSlipsPast
<1> QED BY <1>4, <1>5, <1>7 DEF IInv

LEMMA ScoreFinalIInv == IInv /\ ScoreFinal => IInv'
<1> SUFFICES ASSUME IInv, ScoreFinal PROVE IInv'
  OBVIOUS
<1> USE DEF ScoreFinal
<1>1. Event("final", decision.action, "none") \in Events
  BY EventTyped DEF IInv, TypeOK, EventKinds, Tags, DecisionMatchesPC
<1>2. TypeOK'
  BY <1>1 DEF IInv, TypeOK, PCs, Ended
<1>3. NeverOverruns' /\ DecisionMatchesPC' /\ ReviseIsDue'
  BY DEF IInv, NeverOverruns, DecisionMatchesPC, ReviseIsDue
<1>4. CurrentDraft' = CurrentDraft
  BY DEF CurrentDraft
<1>5. ChecksAreCurrent' /\ CorrectionDelivered' /\ NothingSlipsPast'
  BY <1>4 DEF IInv, ChecksAreCurrent, CorrectionDelivered, NothingSlipsPast
<1> QED BY <1>2, <1>3, <1>5 DEF IInv

LEMMA StutterIInv == IInv /\ UNCHANGED vars => IInv'
BY DEF vars, IInv, TypeOK, NeverOverruns, DecisionMatchesPC, ReviseIsDue,
       ChecksAreCurrent, CorrectionDelivered, NothingSlipsPast, CurrentDraft

\* Every step of the loop keeps the invariant.
LEMMA IInvStep == IInv /\ [Next]_vars => IInv'
BY PrecheckAbstainsIInv, PrecheckPassesIInv, PromptDraftIInv, ClientExhaustedIInv,
   AgenticDraftIInv, AgenticFailsIInv, CheckDraftIInv, VerifierRaisesIInv,
   DecideDraftIInv, ScoreFirstPassIInv, ReviseIInv, LogGapIInv, ScoreFinalIInv,
   StutterIInv DEF Next

\* The inductive invariant holds in every reachable state.
THEOREM Inductive == Spec => []IInv
BY InitIInv, IInvStep, PTL DEF Spec

\* Every variable keeps its type, the recovery counter its bound.
THEOREM TypeCorrect == Spec => []TypeOK
<1>1. IInv => TypeOK
  BY DEF IInv
<1> QED BY Inductive, <1>1, PTL

\* Whatever the budgets, as long as they fit the loop's bound, the loop never
\* falls off its end (the RuntimeError of runner.py:277 is unreachable).
THEOREM LoopNeverOverruns == Spec => []NeverOverruns
<1>1. IInv => NeverOverruns
  BY DEF IInv
<1> QED BY Inductive, <1>1, PTL

\* Every redraft is told what the gate found in the draft it replaces.
THEOREM RedraftIsInformed == Spec => []CorrectionDelivered
<1>1. IInv => CorrectionDelivered
  BY DEF IInv
<1> QED BY Inductive, <1>1, PTL

\* Whatever a reply claims and the verifier answers, a draft reaches a person
\* only with every one of its claims checked and passed, and never on an
\* ambiguous ledger.
THEOREM GateIsStrict == Spec => []NothingSlipsPast
<1>1. IInv => NothingSlipsPast
  BY DEF IInv
<1> QED BY Inductive, <1>1, PTL

-----------------------------------------------------------------------------
(***************************************************************************)
(* What a passed claim says of the records                                 *)
(***************************************************************************)

LEMMA ResultFields ==
    \A s, x : Result(s, x).status = s /\ Result(s, x).cites = x
BY DEF Result

\* A sum passes as what is left of the invoices it names, as the net balance
\* or, called a total of invoices, as the open total.
LEMMA SumIsTrue ==
    ASSUME NEW c, NEW l, SoundLedger(l), c.docs \in Seq(DocsOf(c)),
           CheckSum(c, l).status = "pass"
    PROVE  SumTrue(c, l)
<1> DEFINE bound   == DocsOf(c) \cap InvoiceIds(l)
           named   == {k \in DOMAIN c.docs : c.docs[k] \in InvoiceIds(l)}
           billed  == [k \in named |-> l.invoices[c.docs[k]].amount]
           applied == [k \in named |-> AppliedToInvoice(l, c.docs[k])]
<1>1. SumTrue(c, l) =
        IF named # {}
          THEN c.num + Total(applied, named) = Total(billed, named)
          ELSE \/ c.num = BalanceDue(l)
               \/ /\ "items" \in c.span
                  /\ c.num + SumApplied(l, DOMAIN l.applications) = Invoiced(l)
  BY DEF SumTrue, Total
<1>2. c.num # Unresolved
  BY ResultFields DEF CheckSum
<1>3. named = {k \in DOMAIN c.docs : c.docs[k] \in bound} /\ (named = {} <=> bound = {})
  BY DEF DocsOf
<1>4. CASE bound # {}
  <2>1. c.num = Subtotal(l, c.docs, named)
    <3> DEFINE K == {k \in DOMAIN c.docs : c.docs[k] \in bound}
    <3>1. c.num = Subtotal(l, c.docs, K)
      BY <1>2, <1>4, ResultFields DEF CheckSum, Subtotal
    <3> HIDE DEF named
    <3> QED BY <1>3, <3>1
  <2>2. IsFiniteSet(named)
    <3>1. PICK n \in Nat : DOMAIN c.docs = 1..n
      OBVIOUS
    <3>2. IsFiniteSet(1..n) /\ named \subseteq 1..n
      BY <3>1, FS_Interval
    <3> QED BY <3>2, FS_Subset
  <2>3. Subtotal(l, c.docs, named) + Total(applied, named) = Total(billed, named)
    <3>1. named \in SUBSET DOMAIN c.docs /\ \A k \in named : c.docs[k] \in InvoiceIds(l)
      OBVIOUS
    <3> HIDE DEF named
    <3> QED BY <2>2, <3>1, SubtotalIsRest
  <2>4. c.num + Total(applied, named) = Total(billed, named)
    BY <2>1, <2>3
  <2> HIDE DEF named, applied, billed
  <2> QED BY <1>1, <1>3, <1>4, <2>4
<1>5. CASE bound = {}
  <2>1. \/ c.num = NetBalance(l)
        \/ c.num = OpenInvoiceTotal(l) /\ "items" \in c.span
    BY <1>2, <1>5, ResultFields DEF CheckSum
  <2>2. \/ c.num = BalanceDue(l)
        \/ /\ "items" \in c.span
           /\ c.num + SumApplied(l, DOMAIN l.applications) = Invoiced(l)
    BY <2>1, BalanceIdentity, OpenAndApplied DEF SoundLedger
  <2> HIDE DEF named
  <2> QED BY <1>1, <1>3, <1>5, <2>2
<1> QED BY <1>4, <1>5

\* The figures of a document, by the role they are stated in.
LEMMA RoleIsTrue ==
    ASSUME NEW l, SoundLedger(l), NEW d \in DocumentIds(l), NEW role \in Roles,
           NEW n \in RoleFigures(d, l)[role]
    PROVE  AmountOf(n, d, role, l)
<1>1. PICK whole, applied, rest :
        /\ whole = RecordedAmount(l, d) /\ applied = RecordedApplied(l, d)
        /\ rest = IF d \in InvoiceIds(l) THEN OpenAmount(l, d) ELSE UnappliedAmount(l, d)
  OBVIOUS
<1>2. whole \in Int /\ applied \in Int /\ rest = whole - applied
  BY <1>1, FiguresAreCents
     DEF RecordedAmount, RecordedApplied, OpenAmount, UnappliedAmount, DocumentIds
<1>3. /\ role = "original" => n = whole
      /\ role = "applied" => n = applied
      /\ role = "open" => n = rest
      /\ role \in {"total", "unknown"} => n = whole \/ n = rest
  BY <1>1 DEF RoleFigures, RecordedAmount, RecordedApplied
<1>4. rest + applied = whole
  BY <1>2
<1> QED BY <1>1, <1>3, <1>4 DEF AmountOf, Roles

\* Money received is a payment, what is left of one, or all of them.
LEMMA ReceivedIsTrue ==
    ASSUME NEW l, SoundLedger(l), NEW n \in ReceivedFigures(l)
    PROVE  MoneyIn(n, l)
<1>1. ASSUME NEW p \in PaymentIds(l), n \in {l.payments[p].amount, UnappliedAmount(l, p)}
      PROVE  AmountOf(n, p, "unknown", l)
  <2>1. p \notin InvoiceIds(l) /\ p \in DocumentIds(l) /\ SourceDoc(l, p) = l.payments[p]
    BY FamiliesDisjoint DEF SourceIds, DocumentIds, SourceDoc
  <2>2. n \in RoleFigures(p, l)["unknown"]
    BY <1>1, <2>1 DEF RoleFigures
  <2> QED BY <2>1, <2>2, RoleIsTrue DEF Roles
<1>2. CASE \E p \in PaymentIds(l) : n \in {l.payments[p].amount, UnappliedAmount(l, p)}
  BY <1>1, <1>2 DEF MoneyIn
<1>3. CASE n = MapThenSumSet(LAMBDA p : l.payments[p].amount, PaymentIds(l))
  BY <1>3 DEF MoneyIn
<1> QED BY <1>2, <1>3 DEF ReceivedFigures

\* An amount bound to one document is its figure in the role stated; any other
\* is money received or the net balance.
LEMMA AmountIsTrue ==
    ASSUME NEW c, NEW l, SoundLedger(l), c.role \in Roles,
           CheckAmount(c, l).status = "pass"
    PROVE  AmountTrue(c, l)
<1>1. c.num # Unresolved
  BY ResultFields DEF CheckAmount
<1>2. CASE Len(c.docs) = 1
  <2>1. CheckBoundAmount(c, c.docs[1], l).status = "pass"
    BY <1>1, <1>2 DEF CheckAmount
  <2>2. /\ c.docs[1] \in DocumentIds(l)
        /\ c.num \in RoleFigures(c.docs[1], l)[c.role]
    BY <2>1, ResultFields DEF CheckBoundAmount
  <2> QED BY <1>2, <2>2, RoleIsTrue DEF AmountTrue
<1>3. CASE Len(c.docs) # 1
  <2>1. CheckUnboundAmount(c, l).status = "pass"
    BY <1>1, <1>3 DEF CheckAmount
  <2>2. CASE "received" \in c.span
    <3>1. c.num \in ReceivedFigures(l)
      BY <2>1, <2>2, ResultFields DEF CheckUnboundAmount
    <3> QED BY <1>3, <2>2, <3>1, ReceivedIsTrue DEF AmountTrue
  <2>3. CASE "received" \notin c.span
    <3>1. c.num = NetBalance(l)
      <4>1. CASE "remit" \in c.span
        BY <2>1, <2>3, <4>1, ResultFields DEF CheckUnboundAmount
      <4>2. CASE "remit" \notin c.span
        BY <2>1, <2>3, <4>2, ResultFields DEF CheckUnboundAmount
      <4> QED BY <4>1, <4>2
    <3>2. c.num = BalanceDue(l)
      BY <3>1, BalanceIdentity DEF SoundLedger
    <3> QED BY <1>3, <2>3, <3>2 DEF AmountTrue
  <2> QED BY <2>2, <2>3
<1> QED BY <1>2, <1>3

\* A status word that passes is right about whether the invoice is paid, and
\* about its being late.
LEMMA StatusIsTrue ==
    ASSUME NEW c, NEW l, SoundLedger(l), c.type = "C-STATUS", ExtractedClaim(c),
           CheckStatusWord(c, l).status = "pass"
    PROVE  StatusTrue(c, l)
<1>1. Len(c.docs) = 1 /\ DocsOf(c) \cap InvoiceIds(l) # {}
  BY ResultFields DEF CheckStatusWord
<1>2. DocsOf(c) = {c.docs[1]}
  BY <1>1 DEF DocsOf, ExtractedClaim
<1> DEFINE d == c.docs[1]
<1>3. d \in InvoiceIds(l)
  BY <1>1, <1>2
<1>4. c.word \in StatusCompat(InvoiceStatus(l, d))
  BY <1>1, ResultFields DEF CheckStatusWord
<1> HIDE DEF d
<1>5. Covered(l, d) <=> OpenAmount(l, d) = 0
  BY <1>3, FiguresAreCents DEF Covered, OpenAmount
<1>6. l.invoices[d].due \in Nat /\ l.asOf \in Nat
  BY <1>3 DEF SoundLedger, LedgerRecord
<1>7. /\ c.word \in {"paid", "settled", "cleared"} <=> Covered(l, d)
      /\ c.word \in {"overdue", "past due"} => l.invoices[d].due < l.asOf
  <2>1. CASE OpenAmount(l, d) = 0
    <3>1. InvoiceStatus(l, d) = "paid"
      BY <2>1 DEF InvoiceStatus
    <3> QED BY <1>4, <1>5, <2>1, <3>1 DEF StatusCompat
  <2>2. CASE OpenAmount(l, d) # 0 /\ l.invoices[d].due < l.asOf
    <3>1. InvoiceStatus(l, d) = "overdue"
      <4>1. ~(l.invoices[d].due >= l.asOf)
        BY <1>6, <2>2
      <4> QED BY <2>2, <4>1 DEF InvoiceStatus
    <3> QED BY <1>4, <1>5, <2>2, <3>1 DEF StatusCompat
  <2>3. CASE OpenAmount(l, d) # 0 /\ ~(l.invoices[d].due < l.asOf)
    <3>1. l.invoices[d].due >= l.asOf
      BY <1>6, <2>3
    <3>2. InvoiceStatus(l, d) = "outstanding"
      BY <2>3, <3>1 DEF InvoiceStatus
    <3> QED BY <1>4, <1>5, <2>3, <3>2 DEF StatusCompat
  <2> QED BY <2>1, <2>2, <2>3
<1> QED BY <1>1, <1>3, <1>7 DEF StatusTrue, d

\* A date is carried by every document it is bound to, or by some document.
LEMMA DateIsTrue ==
    ASSUME NEW c, NEW l, CheckDate(c, l).status = "pass"
    PROVE  DateTrue(c, l)
<1> DEFINE bound == DocsOf(c) \cap DocumentIds(l)
           matches == {d \in DocumentIds(l) : c.num \in CarriedDates(d, l)}
<1>1. c.num # Unresolved
  BY ResultFields DEF CheckDate
<1>2. \A d \in matches : DayOf(c.num, d, l)
  BY DEF CarriedDates, DayOf
<1>3. CASE bound # {}
  <2>1. bound \subseteq matches
    BY <1>1, <1>3, ResultFields DEF CheckDate
  <2> QED BY <1>2, <1>3, <2>1 DEF DateTrue
<1>4. CASE bound = {}
  <2>1. matches # {} \/ c.num = l.asOf
    BY <1>1, <1>4, ResultFields DEF CheckDate
  <2>2. c.num = l.asOf \/ \E d \in DocumentIds(l) : DayOf(c.num, d, l)
    BY <1>2, <2>1
  <2> QED BY <1>4, <2>2 DEF DateTrue
<1> QED BY <1>3, <1>4

LEMMA CodeCheckIsTrue ==
    ASSUME NEW c, NEW l, SoundLedger(l), ExtractedClaim(c), c.type # "C-FUZZY",
           CodeCheck(c, l).status = "pass"
    PROVE  Truthful(c, CodeCheck(c, l).cites, l)
<1>1. ~c.preset
  <2>1. SUFFICES ASSUME c.preset PROVE FALSE
    BY DEF ExtractedClaim
  <2>2. CodeCheck(c, l) = Result("unverifiable", {})
    BY <2>1 DEF CodeCheck
  <2> QED BY <2>2, ResultFields
<1>2. CASE c.type = "C-EXIST"
  BY <1>1, <1>2, ResultFields DEF CodeCheck, CheckExist, Truthful
<1>3. CASE c.type = "C-SUM"
  BY <1>1, <1>3, SumIsTrue DEF CodeCheck, ExtractedClaim, Truthful
<1>4. CASE c.type = "C-AMT"
  BY <1>1, <1>4, AmountIsTrue DEF CodeCheck, ExtractedClaim, Truthful
<1>5. CASE c.type = "C-STATUS"
  BY <1>1, <1>5, StatusIsTrue DEF CodeCheck, Truthful
<1>6. CASE c.type = "C-DATE"
  BY <1>1, <1>6, DateIsTrue DEF CodeCheck, Truthful
<1> QED BY <1>2, <1>3, <1>4, <1>5, <1>6 DEF ExtractedClaim, ClaimTypes

\* Support is shown by a citation of the account's own records.
LEMMA FuzzyIsTrue ==
    ASSUME NEW c, NEW l, c.type = "C-FUZZY", NEW answer \in VerifierAnswers(l),
           CheckFuzzy(answer, l).status = "pass"
    PROVE  Truthful(c, CheckFuzzy(answer, l).cites, l)
<1>1. answer.kind \in {"failed", "supported", "unsupported", "cannot_determine"}
  BY DEF VerifierAnswers
<1>2. answer.kind # "failed"
  BY ResultFields DEF CheckFuzzy
<1>3. answer.cited \ DocumentIds(l) = {}
  BY <1>2, ResultFields DEF CheckFuzzy
<1>4. answer.cited \subseteq DocumentIds(l)
  BY <1>3
<1>5. answer.kind = "supported"
  BY <1>1, <1>2, <1>3, ResultFields DEF CheckFuzzy
<1>6. /\ answer.cited \cap DocumentIds(l) # {}
      /\ CheckFuzzy(answer, l) = Result("pass", answer.cited \cap DocumentIds(l))
  BY <1>2, <1>3, <1>4, <1>5, ResultFields DEF CheckFuzzy
<1>7. CheckFuzzy(answer, l).cites = answer.cited \cap DocumentIds(l)
  BY <1>6, ResultFields
<1> QED BY <1>6, <1>7 DEF Truthful

-----------------------------------------------------------------------------
(***************************************************************************)
(* What the checklist asks for                                             *)
(***************************************************************************)

\* A passed sum that cites the net balance states it.
LEMMA NetSumIsBalance ==
    ASSUME NEW c, NEW l, SoundLedger(l), NetLabel \notin DocumentIds(l),
           c.type = "C-SUM", CodeCheck(c, l).status = "pass",
           NetLabel \in CodeCheck(c, l).cites, c.preset \in BOOLEAN
    PROVE  c.num = BalanceDue(l)
<1> DEFINE bound == DocsOf(c) \cap InvoiceIds(l)
<1>1. CodeCheck(c, l) = CheckSum(c, l)
  <2>1. ~c.preset
    <3>1. c.preset => CodeCheck(c, l) = Result("unverifiable", {})
      BY DEF CodeCheck
    <3> QED BY <3>1, ResultFields
  <2> QED BY <2>1 DEF CodeCheck
<1>2. NetLabel \notin bound /\ NetLabel \notin OpenInvoices(l)
  BY DEF DocumentIds, OpenInvoices
<1>3. c.num # Unresolved
  BY <1>1, ResultFields DEF CheckSum
<1>4. bound = {}
  BY <1>1, <1>2, <1>3, ResultFields DEF CheckSum
<1>5. c.num = NetBalance(l)
  <2> SUFFICES ASSUME c.num # NetBalance(l) PROVE FALSE
    OBVIOUS
  <2>1. CheckSum(c, l) = IF c.num = OpenInvoiceTotal(l) /\ "items" \in c.span
                           THEN Result("pass", OpenInvoices(l))
                           ELSE Result("fail", {NetLabel})
    BY <1>3, <1>4 DEF CheckSum
  <2> QED BY <1>1, <1>2, <2>1, ResultFields
<1> QED BY <1>5, BalanceIdentity DEF SoundLedger

\* Nothing missing from the checklist means nothing missing from the reply:
\* the checklist reads the records through the derivations, the content asked
\* for here is on the records themselves.
LEMMA ChecklistIsComplete ==
    ASSUME NEW d, NEW l, SoundLedger(l), NetLabel \notin DocumentIds(l),
           \A k \in DOMAIN d.claims : ExtractedClaim(d.claims[k]),
           Unmentioned(RunCodeChecks(d.claims, l), d, l) = {}
    PROVE  HasRequiredContent(d, l)
<1> DEFINE coded == RunCodeChecks(d.claims, l)
<1>1. /\ DOMAIN coded = DOMAIN d.claims
      /\ \A k \in DOMAIN d.claims : coded[k].claim = d.claims[k]
  BY DEF RunCodeChecks, Checked
<1>2. \A k \in DOMAIN d.claims : d.claims[k].type = "C-SUM" =>
         /\ coded[k].status = CodeCheck(d.claims[k], l).status
         /\ coded[k].cites = CodeCheck(d.claims[k], l).cites
  BY DEF RunCodeChecks, Checked, CodeCheckedTypes, ClaimTypes
<1> HIDE DEF coded
<1>3. /\ StatesNet(coded, d, l)
      /\ \A x \in OpenInvoices(l) : References(coded, x)
      /\ \A x \in UnappliedPayments(l) : References(coded, x)
      /\ \A x \in OpenCredits(l) : References(coded, x)
  <2>1. Unmentioned(coded, d, l) = {}
    BY DEF coded
  <2>2. /\ "net_balance_stated" \in CompletenessItems
        /\ "open_invoices_itemized" \in CompletenessItems
        /\ "unapplied_cash_mentioned" \in CompletenessItems
        /\ "open_credit_mentioned" \in CompletenessItems
    BY DEF CompletenessItems
  <2>3. StatesNet(coded, d, l)
    BY <2>1, <2>2 DEF Unmentioned
  <2>4. \A x \in OpenInvoices(l) : References(coded, x)
    BY <2>1, <2>2 DEF Unmentioned
  <2>5. \A x \in UnappliedPayments(l) : References(coded, x)
    BY <2>1, <2>2 DEF Unmentioned
  <2>6. \A x \in OpenCredits(l) : References(coded, x)
    BY <2>1, <2>2 DEF Unmentioned
  <2> QED BY <2>3, <2>4, <2>5, <2>6
<1>4. \A x : References(coded, x) => Mentions(d, x)
  BY <1>1 DEF References, Passing, Mentions
<1>5. SaysBalance(d, l)
  <2>1. CASE \E k \in Passing(coded) : /\ coded[k].claim.type = "C-SUM"
                                       /\ NetLabel \in coded[k].cites
    <3>1. PICK k \in DOMAIN d.claims : /\ coded[k].status = "pass"
                                       /\ d.claims[k].type = "C-SUM"
                                       /\ NetLabel \in coded[k].cites
      BY <1>1, <2>1 DEF Passing
    <3>2. d.claims[k].preset \in BOOLEAN
      BY DEF ExtractedClaim
    <3>3. d.claims[k].num = BalanceDue(l)
      BY <1>2, <3>1, <3>2, NetSumIsBalance
    <3> QED BY <3>1, <3>3 DEF SaysBalance
  <2>2. CASE NetBalance(l) = 0 /\ d.paidInFull
    BY <2>2, BalanceIdentity DEF SaysBalance, SoundLedger
  <2> QED BY <1>3, <2>1, <2>2 DEF StatesNet
<1>6. ASSUME NEW i \in InvoiceIds(l), ~Covered(l, i) PROVE Mentions(d, i)
  <2>1. OpenAmount(l, i) > 0
    BY <1>6, FiguresAreCents DEF Covered, OpenAmount
  <2>2. i \in OpenInvoices(l)
    BY <2>1 DEF OpenInvoices
  <2> QED BY <1>3, <1>4, <2>2
<1>7. ASSUME NEW s \in SourceIds(l), AppliedFromSource(l, s) < SourceDoc(l, s).amount
      PROVE  Mentions(d, s)
  <2>1. UnappliedAmount(l, s) > 0
    BY <1>7, FiguresAreCents DEF UnappliedAmount
  <2>2. s \in UnappliedPayments(l) \/ s \in OpenCredits(l)
    BY <2>1 DEF UnappliedPayments, OpenCredits, SourceIds
  <2> QED BY <1>3, <1>4, <2>2
<1> QED BY <1>5, <1>6, <1>7 DEF HasRequiredContent

-----------------------------------------------------------------------------
(***************************************************************************)
(* The draft a person receives                                             *)
(***************************************************************************)

\* The results at hand are those of the current draft's own check.
Judged ==
    /\ CurrentDraft \in Drafts
    /\ \E answers \in [FuzzyClaims(CurrentDraft) -> VerifierAnswers(ledger)] :
         checked = CheckAll(CurrentDraft.claims, ledger, answers)

\* From the check to the end, a draft on its way to a person has its own
\* results beside it, and its checklist was empty when it was decided.
GateInv ==
    /\ pc = "decide" => Judged
    /\ decision.action = "human_gate" =>
         /\ Judged
         /\ MissingCompleteness(checked, CurrentDraft, ledger) = {}

\* The last row is reached only with nothing missing.
LEMMA HumanGateMissesNothing ==
    ASSUME NEW cs, NEW draft, NEW l, NEW r, NEW texts,
           Decide(cs, draft, l, r, texts).action = "human_gate"
    PROVE  MissingCompleteness(cs, draft, l) = {}
<1> DEFINE M == MatchMatrix(cs, draft, l, r)
<1>1. M.action = "human_gate"
  <2> HIDE DEF M
  <2>1. Decide(cs, draft, l, r, texts) =
          IF M.action = "revise" /\ RepeatsEarlier(texts)
            THEN Decision("escalate", "loop", M.findings) ELSE M
    BY DEF Decide, WithoutLoop, M
  <2> QED BY <2>1 DEF Decision
<1>2. \A a, why, F : Decision(a, why, F).action = a
  BY DEF Decision
<1>3. \A budget, why, end, F :
         Budgeted(r, budget, why, end, F).action \in {"revise", "escalate"}
  BY <1>2 DEF Budgeted
<1> SUFFICES ASSUME MissingCompleteness(cs, draft, l) # {} PROVE FALSE
  OBVIOUS
<1>4. M.action \in {"escalate", "revise", "abstain"}
  BY <1>2, <1>3 DEF MatchMatrix
<1> QED BY <1>1, <1>4

LEMMA DecideGates ==
    IInv /\ GateInv /\ DecideDraft => GateInv'
<1> SUFFICES ASSUME IInv, GateInv, DecideDraft PROVE GateInv'
  OBVIOUS
<1> DEFINE dec == Decide(checked, CurrentDraft, ledger, rev, Texts(drafts))
<1>1. decision' = Governing(dec) /\ pc = "decide" /\ pc' # "decide"
      /\ UNCHANGED <<ledger, drafts, checked>>
  BY DEF DecideDraft
<1>2. decision'.action = "human_gate" => dec.action = "human_gate"
  <2> HIDE DEF dec
  <2> QED BY <1>1 DEF Governing, Decision
<1>3. dec.action = "human_gate" => MissingCompleteness(checked, CurrentDraft, ledger) = {}
  BY HumanGateMissesNothing
<1>4. Judged /\ CurrentDraft' = CurrentDraft
  BY <1>1 DEF GateInv, CurrentDraft
<1>5. Judged'
  BY <1>1, <1>4 DEF Judged
<1>6. MissingCompleteness(checked, CurrentDraft, ledger)'
        = MissingCompleteness(checked, CurrentDraft, ledger)
  BY <1>1, <1>4
<1> QED BY <1>1, <1>2, <1>3, <1>5, <1>6 DEF GateInv

LEMMA GateInvStep == IInv /\ GateInv /\ [Next]_vars => GateInv'
<1> SUFFICES ASSUME IInv, GateInv, [Next]_vars PROVE GateInv'
  OBVIOUS
<1>1. CASE CheckDraft
  <2>1. decision'.action # "human_gate"
    BY <1>1 DEF CheckDraft, IInv, DecisionMatchesPC
  <2>2. CurrentDraft \in Drafts
    BY <1>1, CurrentDraftTyped DEF CheckDraft, IInv, TypeOK, ChecksAreCurrent
  <2>3. PICK answers \in [FuzzyClaims(CurrentDraft) -> VerifierAnswers(ledger)] :
          checked' = CheckAll(CurrentDraft.claims, ledger, answers)
    BY <1>1 DEF CheckDraft
  <2>4. CurrentDraft' = CurrentDraft /\ ledger' = ledger
    BY <1>1 DEF CheckDraft, CurrentDraft
  <2>5. Judged'
    BY <2>2, <2>3, <2>4 DEF Judged
  <2> QED BY <2>1, <2>5 DEF GateInv
<1>2. CASE DecideDraft
  BY <1>2, DecideGates
<1>3. CASE ScoreFirstPass \/ LogGap \/ ScoreFinal \/ UNCHANGED vars
  <2>1. pc' = "decide" => pc = "decide"
    BY <1>3 DEF ScoreFirstPass, LogGap, ScoreFinal, vars
  <2>2. UNCHANGED <<decision, checked, ledger, drafts>>
    BY <1>3 DEF ScoreFirstPass, LogGap, ScoreFinal, vars
  <2>3. CurrentDraft' = CurrentDraft
    BY <2>2 DEF CurrentDraft
  <2>4. Judged => Judged'
    BY <2>2, <2>3 DEF Judged
  <2>5. MissingCompleteness(checked, CurrentDraft, ledger)'
          = MissingCompleteness(checked, CurrentDraft, ledger)
    BY <2>2, <2>3
  <2> QED BY <2>1, <2>2, <2>4, <2>5 DEF GateInv
<1>4. CASE \/ PrecheckAbstains \/ PrecheckPasses \/ PromptDraft \/ AgenticDraft
           \/ ClientExhausted \/ AgenticFails \/ VerifierRaises \/ Revise
  <2>1. pc' # "decide"
    BY <1>4 DEF PrecheckAbstains, PrecheckPasses, PromptDraft, AgenticDraft, TakeDraft,
                ClientExhausted, AgenticFails, VerifierRaises, Revise
  <2>2. decision'.action # "human_gate"
    <3>1. CASE PrecheckAbstains \/ AgenticFails
      BY <3>1 DEF PrecheckAbstains, AgenticFails, Decision
    <3>2. CASE Revise
      BY <3>2 DEF Revise
    <3>3. CASE PrecheckPasses \/ PromptDraft \/ AgenticDraft \/ ClientExhausted \/ VerifierRaises
      <4>1. pc \in {"precheck", "generate", "check"} /\ decision' = decision
        BY <3>3 DEF PrecheckPasses, PromptDraft, AgenticDraft, TakeDraft,
                    ClientExhausted, VerifierRaises
      <4> QED BY <4>1 DEF IInv, DecisionMatchesPC
    <3> QED BY <1>4, <3>1, <3>2, <3>3
  <2> QED BY <2>1, <2>2 DEF GateInv
<1> QED BY <1>1, <1>2, <1>3, <1>4 DEF Next

\* In every reachable state the gate's decision and the results it was taken on
\* still belong to the draft they were taken for (runner.py:223-277).
THEOREM GateInvariant == Spec => [](IInv /\ GateInv)
<1>1. Init => GateInv
  BY DEF Init, GateInv, Undecided, Decision
<1> QED BY Inductive, <1>1, GateInvStep, PTL DEF Spec

LEMMA LedgerIsSound ==
    ASSUME TypeOK
    PROVE  SoundLedger(ledger) /\ NetLabel \notin DocumentIds(ledger)
BY LedgersAssumption DEF TypeOK, SoundLedger

LEMMA PassedIsTruthful == IInv /\ GateInv => HumanGateTruthful
<1> SUFFICES ASSUME IInv, GateInv, decision.action = "human_gate", NEW k \in DOMAIN checked
             PROVE  Truthful(checked[k].claim, checked[k].cites, ledger)
  BY DEF HumanGateTruthful
<1>1. SoundLedger(ledger)
  BY LedgerIsSound DEF IInv
<1>2. CurrentDraft \in Drafts
  BY DEF GateInv, Judged
<1>3. PICK answers \in [FuzzyClaims(CurrentDraft) -> VerifierAnswers(ledger)] :
         checked = CheckAll(CurrentDraft.claims, ledger, answers)
  BY DEF GateInv, Judged
<1> DEFINE claims == CurrentDraft.claims
<1>4. /\ k \in DOMAIN claims
      /\ checked[k].status = "pass"
  BY <1>3 DEF IInv, NothingSlipsPast
<1>5. PICK c : c = claims[k]
  OBVIOUS
<1>6. ExtractedClaim(c)
  BY <1>2, <1>4, <1>5, DraftsAssumption
<1>7. \A r : /\ Checked(c, r).claim = c
             /\ Checked(c, r).status = r.status
             /\ Checked(c, r).cites = r.cites
  BY DEF Checked
<1>8. CASE c.type = "C-FUZZY"
  <2>1. RunCodeChecks(claims, ledger)[k].status = "none"
    BY <1>4, <1>5, <1>8, ResultFields DEF RunCodeChecks, CodeCheckedTypes, Checked
  <2>2. checked[k] = Checked(c, CheckFuzzy(answers[k], ledger))
    BY <1>3, <1>4, <1>5, <1>8, <2>1 DEF CheckAll
  <2>3. answers[k] \in VerifierAnswers(ledger)
    BY <1>3, <1>4, <1>5, <1>8 DEF FuzzyClaims
  <2> QED BY <1>4, <1>7, <1>8, <2>2, <2>3, FuzzyIsTrue
<1>9. CASE c.type # "C-FUZZY"
  <2>1. checked[k] = RunCodeChecks(claims, ledger)[k]
    BY <1>3, <1>4, <1>5, <1>9 DEF CheckAll
  <2>2. checked[k] = Checked(c, CodeCheck(c, ledger))
    BY <1>4, <1>5, <1>6, <1>9, <2>1 DEF RunCodeChecks, CodeCheckedTypes, ExtractedClaim
  <2> QED BY <1>1, <1>4, <1>6, <1>7, <1>9, <2>2, CodeCheckIsTrue
<1> QED BY <1>8, <1>9

LEMMA GatedIsComplete == IInv /\ GateInv => WrittenDraftComplete
<1> SUFFICES ASSUME IInv, GateInv, decision.action = "human_gate", CurrentDraft.text # ""
             PROVE  HasRequiredContent(CurrentDraft, ledger)
  BY DEF WrittenDraftComplete
<1>1. SoundLedger(ledger) /\ NetLabel \notin DocumentIds(ledger)
  BY LedgerIsSound DEF IInv
<1>2. \A k \in DOMAIN CurrentDraft.claims : ExtractedClaim(CurrentDraft.claims[k])
  BY DraftsAssumption DEF GateInv, Judged
<1>3. MissingCompleteness(checked, CurrentDraft, ledger) = {}
  BY DEF GateInv
<1>4. Unmentioned(RunCodeChecks(CurrentDraft.claims, ledger), CurrentDraft, ledger) = {}
  BY <1>3 DEF MissingCompleteness, AbsentItems
<1> QED BY <1>1, <1>2, <1>4, ChecklistIsComplete

(***************************************************************************)
(* Whatever the model writes and the verifier answers, on every valid      *)
(* account and whatever the budgets, each claim of a draft that reaches a  *)
(* person is true of the records themselves: amounts in the role they are  *)
(* stated in, totals, statuses and dates; of a free reading only that it   *)
(* cites records of the account (checks.py:238-788, policy.py:143-354).    *)
(***************************************************************************)
THEOREM GateIsTruthful == Spec => []HumanGateTruthful
BY GateInvariant, PassedIsTruthful, PTL

(***************************************************************************)
(* And a draft with any text that reaches a person states the balance and  *)
(* names every open invoice and every source of unapplied money            *)
(* (policy.py:321-349, score.py:85-177).                                   *)
(***************************************************************************)
THEOREM GateIsComplete == Spec => []WrittenDraftComplete
BY GateInvariant, GatedIsComplete, PTL

-----------------------------------------------------------------------------
(***************************************************************************)
(* The log and the control state                                           *)
(***************************************************************************)

\* One draft a revision, the current one missing until it is written.
DraftsFollowRevisions ==
    /\ pc \in {"precheck", "generate"} => Len(drafts) = rev
    /\ pc \in {"check", "decide"} => Len(drafts) = rev + 1
    /\ Len(drafts) \in {rev, rev + 1}
    /\ pc \in {"first_pass", "route"} /\ decision.action = "revise" =>
         Len(drafts) = rev + 1
    /\ pc = "first_pass" => rev = 0
    /\ drafts = << >> /\ pc \in {"first_pass", "route", "final", "done"} =>
         decision.action = "abstain" /\ rev = 0

\* Nothing is logged before the first draft, unless the ledger supports none.
LogStarts ==
    /\ pc = "precheck" => log = << >> /\ decision.action = "none"
    /\ pc = "generate" /\ rev = 0 => log = << >> /\ decision.action = "none"

Verdict(k, r) ==
    k \in DOMAIN log /\ log[k].kind = "verification" /\ log[k].tag = "revise" /\ log[k].rev = r

\* A revise verdict that governs is in the log before its redraft.
ReviseIsLogged ==
    /\ pc \in {"first_pass", "route"} /\ decision.action = "revise" =>
         \E k \in DOMAIN log : Verdict(k, rev)
    /\ pc = "generate" /\ rev > 0 => \E k \in DOMAIN log : Verdict(k, rev - 1)

\* The log ends with the draft exactly while it awaits its verdict.
EndsWithDraft ==
    /\ pc \in {"check", "decide"} => AwaitsVerdict /\ log[Len(log)].rev = rev
    /\ pc \notin {"check", "decide", "raised"} => ~AwaitsVerdict

\* The verdict that governs is the last one logged.
Latest(k) ==
    /\ k \in Entries("verification")
    /\ \A j \in Entries("verification") : j <= k

LastVerdictGoverns ==
    pc \in {"first_pass", "route", "final", "done"} =>
        \E k \in DOMAIN log : Latest(k) /\ log[k].tag = decision.action

HasScore == \/ pc \in {"final", "done"}
            \/ pc = "route" /\ drafts # << >>
            \/ pc \in {"generate", "check", "decide"} /\ rev > 0

HasGap == \/ pc \in {"final", "done"}
          \/ pc = "first_pass" /\ drafts = << >>

Count(kind, n) == IsFiniteSet(Entries(kind)) /\ Cardinality(Entries(kind)) = n

\* How many events of each kind the log holds at each point.
LogCounts ==
    /\ Count("generation", Len(drafts))
    /\ pc # "raised" => Count("first_pass", IF HasScore THEN 1 ELSE 0)
    /\ pc # "raised" =>
         Count("gap", IF HasGap /\ decision.action # "human_gate" THEN 1 ELSE 0)
    /\ Count("final", IF pc = "done" THEN 1 ELSE 0)
    /\ pc = "raised" => Count("gap", 0)

\* The final score, the last event, carries the verdict that governs.
EndsWithScore ==
    pc = "done" =>
        Len(log) > 0 /\ log[Len(log)].kind = "final" /\ log[Len(log)].tag = decision.action

LInv ==
    /\ DraftsFollowRevisions
    /\ LogStarts
    /\ ReviseIsLogged
    /\ EndsWithDraft
    /\ LastVerdictGoverns
    /\ LogCounts
    /\ EndsWithScore
    /\ LogReadsAsJudgedDrafts

-----------------------------------------------------------------------------
(***************************************************************************)
(* One append                                                              *)
(***************************************************************************)

\* Appending keeps every earlier entry and adds one.
LEMMA Appended ==
    ASSUME log \in Seq(Events), NEW e, log' = Append(log, e), e \in Events
    PROVE  /\ log' \in Seq(Events)
           /\ Len(log) \in Nat
           /\ Len(log') = Len(log) + 1
           /\ DOMAIN log = 1..Len(log)
           /\ DOMAIN log' = 1..(Len(log) + 1)
           /\ \A k \in DOMAIN log : log'[k] = log[k]
           /\ log'[Len(log) + 1] = e
OBVIOUS

LEMMA AppendedEntries ==
    ASSUME log \in Seq(Events), NEW e, log' = Append(log, e), e \in Events, NEW kind
    PROVE  Entries(kind)' = IF e.kind = kind THEN Entries(kind) \cup {Len(log) + 1}
                                             ELSE Entries(kind)
BY Appended DEF Entries

\* It adds one to the count of its own kind.
LEMMA AppendedCount ==
    ASSUME log \in Seq(Events), NEW e, log' = Append(log, e), e \in Events,
           NEW kind, NEW n \in Nat, Count(kind, n)
    PROVE  /\ e.kind = kind => Count(kind, n + 1)'
           /\ e.kind # kind => Count(kind, n)'
<1>1. Len(log) + 1 \notin Entries(kind)
  BY Appended DEF Entries
<1>2. IsFiniteSet(Entries(kind)) /\ Cardinality(Entries(kind)) = n
  BY DEF Count
<1>3. CASE e.kind = kind
  <2>1. Entries(kind)' = Entries(kind) \cup {Len(log) + 1}
    BY <1>3, AppendedEntries
  <2>2. /\ IsFiniteSet(Entries(kind) \cup {Len(log) + 1})
        /\ Cardinality(Entries(kind) \cup {Len(log) + 1}) = n + 1
    BY <1>1, <1>2, FS_AddElement
  <2> QED BY <1>3, <2>1, <2>2 DEF Count
<1>4. CASE e.kind # kind
  <2>1. Entries(kind)' = Entries(kind)
    BY <1>4, AppendedEntries
  <2> QED BY <1>2, <1>4, <2>1 DEF Count
<1> QED BY <1>3, <1>4

\* What LogReadsAsJudgedDrafts says of one entry.
Reads(k) ==
    /\ log[k].kind = "verification" =>
         \/ log[k].tag = "abstain" /\ k = 1
         \/ log[k].reason = "agentic_exhausted"
         \/ k > 1 /\ log[k-1].kind = "generation" /\ log[k-1].rev = log[k].rev
    /\ log[k].kind = "generation" /\ log[k].rev > 0 =>
         \E j \in 1..(k-1) : /\ log[j].kind = "verification"
                             /\ log[j].tag = "revise"
                             /\ log[j].rev = log[k].rev - 1

\* A log that reads well still does when its new entry does.
LEMMA AppendedReads ==
    ASSUME log \in Seq(Events), NEW e, log' = Append(log, e), e \in Events,
           LogReadsAsJudgedDrafts, NEW n, n = Len(log) + 1, Reads(n)'
    PROVE  LogReadsAsJudgedDrafts'
<1>1. \A k \in DOMAIN log : Reads(k)
  BY DEF LogReadsAsJudgedDrafts, Reads
<1>2. ASSUME NEW k \in DOMAIN log
      PROVE  Reads(k)'
  <2>1. k \in DOMAIN log' /\ k \in 1..Len(log) /\ log'[k] = log[k]
    BY Appended
  <2>2. \A j \in 1..(k-1) : log'[j] = log[j]
    BY <2>1, Appended
  <2>3. k > 1 => log'[k-1] = log[k-1]
    BY <2>1, <2>2
  <2> QED BY <1>1, <2>1, <2>2, <2>3 DEF Reads
<1>3. \A k \in DOMAIN log' : Reads(k)'
  BY <1>2, Appended
<1> QED BY <1>3 DEF LogReadsAsJudgedDrafts, Reads

\* An entry that is neither a draft nor a verdict reads well anywhere.
LEMMA OtherReads ==
    ASSUME log \in Seq(Events), NEW e, log' = Append(log, e), e \in Events,
           LogReadsAsJudgedDrafts, e.kind \notin {"generation", "verification"}
    PROVE  LogReadsAsJudgedDrafts'
<1>1. PICK n : n = Len(log) + 1
  OBVIOUS
<1>2. log'[n] = e
  BY <1>1, Appended
<1>3. Reads(n)'
  BY <1>2 DEF Reads
<1> QED BY <1>1, <1>3, AppendedReads

\* A verdict becomes the last one; any other entry leaves the last one last.
LEMMA NewVerdictIsLatest ==
    ASSUME log \in Seq(Events), NEW e, log' = Append(log, e), e \in Events,
           e.kind = "verification", NEW n, n = Len(log) + 1
    PROVE  Latest(n)' /\ n \in DOMAIN log' /\ log'[n] = e
BY Appended DEF Latest, Entries

LEMMA LatestStays ==
    ASSUME log \in Seq(Events), NEW e, log' = Append(log, e), e \in Events,
           e.kind # "verification", NEW k \in DOMAIN log, Latest(k)
    PROVE  Latest(k)' /\ k \in DOMAIN log' /\ log'[k] = log[k]
<1>1. Entries("verification")' = Entries("verification")
  BY AppendedEntries
<1> QED BY <1>1, Appended DEF Latest

\* The log awaits a verdict after a draft and after nothing else.
LEMMA AppendedAwaits ==
    ASSUME log \in Seq(Events), NEW e, log' = Append(log, e), e \in Events
    PROVE  /\ AwaitsVerdict' <=> e.kind = "generation"
           /\ log'[Len(log')] = e
BY Appended DEF AwaitsVerdict

LEMMA VerdictStays ==
    ASSUME log \in Seq(Events), NEW e, log' = Append(log, e), e \in Events,
           NEW r, NEW k \in DOMAIN log, Verdict(k, r)
    PROVE  Verdict(k, r)' /\ k \in DOMAIN log'
BY Appended DEF Verdict

\* A step that appends nothing keeps all that is said of the log.
LEMMA KeptLog ==
    ASSUME log' = log
    PROVE  /\ \A kind, n : Count(kind, n)' <=> Count(kind, n)
           /\ \A k : Latest(k)' <=> Latest(k)
           /\ \A k, r : Verdict(k, r)' <=> Verdict(k, r)
           /\ AwaitsVerdict' <=> AwaitsVerdict
           /\ LogReadsAsJudgedDrafts' <=> LogReadsAsJudgedDrafts
BY DEF Count, Entries, Latest, Verdict, AwaitsVerdict, LogReadsAsJudgedDrafts

-----------------------------------------------------------------------------
(***************************************************************************)
(* The loop                                                                *)
(***************************************************************************)

LEMMA InitLInv == Init => LInv
<1> SUFFICES ASSUME Init PROVE LInv
  OBVIOUS
<1>1. \A kind : Count(kind, 0)
  BY FS_EmptySet DEF Init, Count, Entries
<1>2. LogCounts
  BY <1>1 DEF Init, LogCounts, HasScore, HasGap
<1>3. LogReadsAsJudgedDrafts /\ ~AwaitsVerdict
  BY DEF Init, LogReadsAsJudgedDrafts, AwaitsVerdict
<1> QED
  BY <1>2, <1>3 DEF Init, LInv, DraftsFollowRevisions, LogStarts, ReviseIsLogged,
     EndsWithDraft, LastVerdictGoverns, EndsWithScore, Undecided, Decision

LEMMA PrecheckPassesLInv == IInv /\ LInv /\ PrecheckPasses => LInv'
<1> SUFFICES ASSUME IInv, LInv, PrecheckPasses PROVE LInv'
  OBVIOUS
<1> USE DEF PrecheckPasses, IInv, LInv
<1>1. rev = 0 /\ decision.action = "none"
  BY DEF DecisionMatchesPC, LogStarts
<1>2. DraftsFollowRevisions' /\ LogStarts' /\ ReviseIsLogged'
  BY <1>1, KeptLog DEF DraftsFollowRevisions, LogStarts, ReviseIsLogged
<1>3. EndsWithDraft' /\ LastVerdictGoverns' /\ EndsWithScore'
  BY KeptLog DEF EndsWithDraft, LastVerdictGoverns, EndsWithScore
<1>4. LogCounts' /\ LogReadsAsJudgedDrafts'
  BY <1>1, KeptLog DEF LogCounts, HasScore, HasGap
<1> QED BY <1>2, <1>3, <1>4

LEMMA PrecheckAbstainsLInv == IInv /\ LInv /\ PrecheckAbstains => LInv'
<1> SUFFICES ASSUME IInv, LInv, PrecheckAbstains PROVE LInv'
  OBVIOUS
<1> USE DEF PrecheckAbstains
<1> DEFINE e == Event("verification", "abstain", "ambiguous")
<1>1. log \in Seq(Events) /\ log = << >> /\ rev = 0 /\ drafts \in Seq(Drafts) /\ drafts = << >>
  BY DEF IInv, TypeOK, LInv, LogStarts, DecisionMatchesPC, DraftsFollowRevisions
<1>2. e \in Events /\ log' = Append(log, e)
  BY EventTyped DEF IInv, TypeOK, EventKinds, Tags, Actions, Reasons
<1>3. /\ e.kind = "verification" /\ e.tag = "abstain"
      /\ decision'.action = "abstain"
  BY DEF Event, Decision
<1> HIDE DEF e
<1>4. PICK n : n = Len(log) + 1
  OBVIOUS
<1>5. n = 1 /\ n \in DOMAIN log' /\ log'[n] = e
  BY <1>1, <1>2, <1>4, Appended
<1>6. DraftsFollowRevisions' /\ LogStarts' /\ ReviseIsLogged'
  BY <1>1, <1>3 DEF LInv, DraftsFollowRevisions, LogStarts, ReviseIsLogged
<1>7. EndsWithDraft' /\ EndsWithScore'
  BY <1>1, <1>2, <1>3, AppendedAwaits DEF EndsWithDraft, EndsWithScore
<1>8. LastVerdictGoverns'
  <2>1. Latest(n)'
    BY <1>1, <1>2, <1>3, <1>4, NewVerdictIsLatest
  <2> QED BY <1>3, <1>5, <2>1 DEF LastVerdictGoverns
<1>9. LogCounts'
  <2>1. /\ Count("generation", 0)' /\ Count("first_pass", 0)'
        /\ Count("gap", 0)' /\ Count("final", 0)'
    BY <1>1, <1>2, <1>3, AppendedCount DEF LInv, LogCounts, HasScore, HasGap
  <2> QED BY <1>1, <2>1 DEF LogCounts, HasScore, HasGap
<1>10. LogReadsAsJudgedDrafts'
  <2>1. Reads(n)'
    BY <1>3, <1>5 DEF Reads
  <2> QED BY <1>1, <1>2, <1>4, <2>1, AppendedReads DEF LInv
<1> QED BY <1>6, <1>7, <1>8, <1>9, <1>10 DEF LInv

\* Either way of obtaining a draft.
LEMMA TakeDraftLInv ==
    ASSUME IInv, LInv, pc = "generate", NEW d \in Drafts, TakeDraft(d)
    PROVE  LInv'
<1> USE DEF TakeDraft
<1> DEFINE e == Event("generation", GenerationMode, "none")
<1>1. /\ log \in Seq(Events) /\ drafts \in Seq(Drafts) /\ rev \in 0..MaxRevisions
      /\ Len(drafts) = rev /\ MaxRevisions \in Nat
  BY LoopAssumption DEF IInv, TypeOK, LInv, DraftsFollowRevisions
<1>2. e \in Events /\ log' = Append(log, e)
  BY EventTyped, GenerationModeTyped DEF IInv, TypeOK, EventKinds, Tags
<1>3. e.kind = "generation" /\ e.rev = rev
  BY DEF Event
<1> HIDE DEF e
<1>4. PICK n : n = Len(log) + 1
  OBVIOUS
<1>5. n \in DOMAIN log' /\ log'[n] = e /\ Len(log) \in Nat
  BY <1>1, <1>2, <1>4, Appended
<1>6. DraftsFollowRevisions' /\ LogStarts' /\ ReviseIsLogged'
  <2>1. Len(drafts') = rev + 1 /\ drafts' # << >>
    BY <1>1
  <2> QED BY <1>1, <2>1 DEF DraftsFollowRevisions, LogStarts, ReviseIsLogged
<1>7. EndsWithDraft' /\ EndsWithScore' /\ LastVerdictGoverns'
  BY <1>1, <1>2, <1>3, AppendedAwaits DEF EndsWithDraft, EndsWithScore, LastVerdictGoverns
<1>8. LogCounts'
  <2>1. PICK m \in Nat : m = Len(drafts) /\ m + 1 = Len(drafts')
    BY <1>1
  <2>2. Count("generation", m)
    BY <2>1 DEF LInv, LogCounts
  <2>3. Count("generation", m + 1)'
    BY <1>1, <1>2, <1>3, <2>2, AppendedCount
  <2>4. \A kind : \A k \in Nat : e.kind # kind /\ Count(kind, k) => Count(kind, k)'
    BY <1>1, <1>2, AppendedCount
  <2>5. HasScore' = HasScore
    BY <1>1 DEF HasScore
  <2>6. /\ Count("first_pass", IF HasScore THEN 1 ELSE 0)
        /\ Count("gap", 0)
        /\ Count("final", 0)
    BY DEF LInv, LogCounts, HasGap
  <2>7. Count("gap", 0)' /\ Count("final", 0)'
    BY <1>3, <2>4, <2>6
  <2>8. HasScore => Count("first_pass", 1)'
    BY <1>3, <2>4, <2>6
  <2>9. ~HasScore => Count("first_pass", 0)'
    BY <1>3, <2>4, <2>6
  <2> QED BY <2>1, <2>3, <2>5, <2>7, <2>8, <2>9 DEF LogCounts, HasGap
<1>9. LogReadsAsJudgedDrafts'
  <2>1. ASSUME rev > 0
        PROVE  \E j \in 1..(n-1) : /\ log'[j].kind = "verification"
                                   /\ log'[j].tag = "revise"
                                   /\ log'[j].rev = rev - 1
    <3>1. PICK j \in DOMAIN log : Verdict(j, rev - 1)
      BY <2>1 DEF LInv, ReviseIsLogged
    <3>2. j \in 1..(n-1) /\ log'[j] = log[j]
      BY <1>1, <1>2, <1>4, <1>5, Appended
    <3> QED BY <3>1, <3>2 DEF Verdict
  <2>2. Reads(n)'
    BY <1>3, <1>5, <2>1 DEF Reads
  <2> QED BY <1>1, <1>2, <1>4, <2>2, AppendedReads DEF LInv
<1> QED BY <1>6, <1>7, <1>8, <1>9 DEF LInv

LEMMA PromptDraftLInv == IInv /\ LInv /\ PromptDraft => LInv'
BY TakeDraftLInv DEF PromptDraft

LEMMA AgenticDraftLInv == IInv /\ LInv /\ AgenticDraft => LInv'
BY TakeDraftLInv DEF AgenticDraft

LEMMA ClientExhaustedLInv == IInv /\ LInv /\ ClientExhausted => LInv'
<1> SUFFICES ASSUME IInv, LInv, ClientExhausted PROVE LInv'
  OBVIOUS
<1> USE DEF ClientExhausted, LInv
<1>1. pc = "generate"
  BY DEF ClientExhausted
<1>2. DraftsFollowRevisions' /\ LogStarts' /\ ReviseIsLogged'
  BY <1>1, KeptLog DEF DraftsFollowRevisions, LogStarts, ReviseIsLogged
<1>3. EndsWithDraft' /\ LastVerdictGoverns' /\ EndsWithScore'
  BY <1>1, KeptLog DEF EndsWithDraft, LastVerdictGoverns, EndsWithScore
<1>4. LogCounts' /\ LogReadsAsJudgedDrafts'
  BY <1>1, KeptLog DEF LogCounts, HasScore, HasGap
<1> QED BY <1>2, <1>3, <1>4

LEMMA CheckDraftLInv == IInv /\ LInv /\ CheckDraft => LInv'
<1> SUFFICES ASSUME IInv, LInv, CheckDraft PROVE LInv'
  OBVIOUS
<1> USE DEF CheckDraft, LInv
<1>1. /\ log' = log /\ drafts' = drafts /\ rev' = rev /\ decision' = decision
      /\ pc = "check" /\ pc' = "decide"
  BY DEF CheckDraft
<1>2. DraftsFollowRevisions' /\ LogStarts' /\ ReviseIsLogged'
  BY <1>1, KeptLog DEF DraftsFollowRevisions, LogStarts, ReviseIsLogged
<1>3. EndsWithDraft' /\ LastVerdictGoverns' /\ EndsWithScore'
  BY <1>1, KeptLog DEF EndsWithDraft, LastVerdictGoverns, EndsWithScore
<1>4. LogCounts' /\ LogReadsAsJudgedDrafts'
  BY <1>1, KeptLog DEF LogCounts, HasScore, HasGap
<1> QED BY <1>2, <1>3, <1>4

LEMMA VerifierRaisesLInv == IInv /\ LInv /\ VerifierRaises => LInv'
<1> SUFFICES ASSUME IInv, LInv, VerifierRaises PROVE LInv'
  OBVIOUS
<1> USE DEF VerifierRaises, LInv
<1>1. pc = "check"
  BY DEF VerifierRaises
<1>2. DraftsFollowRevisions' /\ LogStarts' /\ ReviseIsLogged'
  BY <1>1, KeptLog DEF DraftsFollowRevisions, LogStarts, ReviseIsLogged
<1>3. EndsWithDraft' /\ LastVerdictGoverns' /\ EndsWithScore'
  BY <1>1, KeptLog DEF EndsWithDraft, LastVerdictGoverns, EndsWithScore
<1>4. LogCounts' /\ LogReadsAsJudgedDrafts'
  BY <1>1, KeptLog DEF LogCounts, HasScore, HasGap
<1> QED BY <1>2, <1>3, <1>4

LEMMA ReviseLInv == IInv /\ LInv /\ Revise => LInv'
<1> SUFFICES ASSUME IInv, LInv, Revise PROVE LInv'
  OBVIOUS
<1> USE DEF Revise, LInv
<1>1. /\ rev \in Nat /\ rev' = rev + 1 /\ pc' = "generate"
      /\ Len(drafts) = rev + 1 /\ drafts # << >>
  BY LoopAssumption DEF IInv, TypeOK, ReviseIsDue, DraftsFollowRevisions
<1>2. DraftsFollowRevisions' /\ LogStarts' /\ ReviseIsLogged'
  BY <1>1, KeptLog DEF DraftsFollowRevisions, LogStarts, ReviseIsLogged
<1>3. EndsWithDraft' /\ LastVerdictGoverns' /\ EndsWithScore'
  BY <1>1, KeptLog DEF EndsWithDraft, LastVerdictGoverns, EndsWithScore
<1>4. LogCounts' /\ LogReadsAsJudgedDrafts'
  BY <1>1, KeptLog DEF LogCounts, HasScore, HasGap
<1> QED BY <1>2, <1>3, <1>4

LEMMA AgenticFailsLInv == IInv /\ LInv /\ AgenticFails => LInv'
<1> SUFFICES ASSUME IInv, LInv, AgenticFails PROVE LInv'
  OBVIOUS
<1> USE DEF AgenticFails
<1> DEFINE e == Event("verification", "escalate", "agentic_exhausted")
<1>1. /\ log \in Seq(Events) /\ drafts \in Seq(Drafts) /\ rev \in Nat /\ rev > 0
      /\ Len(drafts) = rev /\ drafts # << >>
  BY LoopAssumption DEF IInv, TypeOK, LInv, DraftsFollowRevisions, GenerationMode
<1>2. e \in Events /\ log' = Append(log, e)
  BY EventTyped DEF IInv, TypeOK, EventKinds, Tags, Actions, Reasons
<1>3. /\ e.kind = "verification" /\ e.tag = "escalate" /\ e.reason = "agentic_exhausted"
      /\ decision'.action = "escalate"
  BY DEF Event, Decision
<1> HIDE DEF e
<1>4. PICK n : n = Len(log) + 1
  OBVIOUS
<1>5. n \in DOMAIN log' /\ log'[n] = e
  BY <1>1, <1>2, <1>4, Appended
<1>6. DraftsFollowRevisions' /\ LogStarts' /\ ReviseIsLogged'
  BY <1>1, <1>3 DEF DraftsFollowRevisions, LogStarts, ReviseIsLogged
<1>7. EndsWithDraft' /\ EndsWithScore'
  BY <1>1, <1>2, <1>3, AppendedAwaits DEF EndsWithDraft, EndsWithScore
<1>8. LastVerdictGoverns'
  BY <1>1, <1>2, <1>3, <1>4, <1>5, NewVerdictIsLatest DEF LastVerdictGoverns
<1>9. LogCounts'
  <2>1. /\ Count("generation", rev) /\ Count("first_pass", 1)
        /\ Count("gap", 0) /\ Count("final", 0)
    BY <1>1 DEF LInv, LogCounts, HasScore, HasGap
  <2>2. /\ Count("generation", rev)' /\ Count("first_pass", 1)'
        /\ Count("gap", 0)' /\ Count("final", 0)'
    <3>1. \A kind : \A k \in Nat : kind # "verification" /\ Count(kind, k) => Count(kind, k)'
      BY <1>1, <1>2, <1>3, AppendedCount
    <3>2. PICK m \in Nat : m = rev
      BY <1>1
    <3>3. Count("generation", m)'
      BY <2>1, <3>1, <3>2
    <3>4. rev' = m
      BY <3>2
    <3> QED BY <2>1, <3>1, <3>3, <3>4
  <2> QED BY <1>1, <2>2 DEF LogCounts, HasScore, HasGap
<1>10. LogReadsAsJudgedDrafts'
  <2>1. Reads(n)'
    BY <1>3, <1>5 DEF Reads
  <2> QED BY <1>1, <1>2, <1>4, <2>1, AppendedReads DEF LInv
<1> QED BY <1>6, <1>7, <1>8, <1>9, <1>10 DEF LInv

\* The verdict follows its draft.
LEMMA DecideDraftLInv == IInv /\ LInv /\ DecideDraft => LInv'
<1> SUFFICES ASSUME IInv, LInv, DecideDraft PROVE LInv'
  OBVIOUS
<1> USE DEF DecideDraft
<1> DEFINE e == Event("verification", decision'.action, decision'.reason)
<1>1. /\ log \in Seq(Events) /\ drafts \in Seq(Drafts) /\ rev \in Nat
      /\ Len(drafts) = rev + 1 /\ drafts # << >>
      /\ AwaitsVerdict /\ log[Len(log)].rev = rev
  BY LoopAssumption DEF IInv, TypeOK, LInv, DraftsFollowRevisions, EndsWithDraft
<1>2. decision'.action \in Actions
  <2>1. IInv'
    BY DecideDraftIInv
  <2> QED BY <2>1 DEF IInv, DecisionMatchesPC
<1>3. e \in Events /\ log' = Append(log, e)
  <2>1. IInv'
    BY DecideDraftIInv
  <2>2. decision'.reason \in Reasons \cup {"none"}
    BY <2>1 DEF IInv, TypeOK, Decisions
  <2> QED BY <1>2, <2>2, EventTyped DEF IInv, TypeOK, EventKinds, Tags
<1>4. /\ e.kind = "verification" /\ e.tag = decision'.action /\ e.rev = rev
  BY DEF Event
<1>5. pc' = IF rev = 0 THEN "first_pass" ELSE "route"
  OBVIOUS
<1> HIDE DEF e
<1>6. PICK n : n = Len(log) + 1
  OBVIOUS
<1>7. n \in DOMAIN log' /\ log'[n] = e
  BY <1>1, <1>3, <1>6, Appended
<1>8. DraftsFollowRevisions' /\ LogStarts'
  BY <1>1, <1>5 DEF DraftsFollowRevisions, LogStarts
<1>9. ReviseIsLogged'
  <2>1. decision'.action = "revise" => Verdict(n, rev)'
    BY <1>4, <1>7 DEF Verdict
  <2> QED BY <1>5, <1>7, <2>1 DEF ReviseIsLogged
<1>10. EndsWithDraft' /\ EndsWithScore'
  BY <1>1, <1>3, <1>4, <1>5, AppendedAwaits DEF EndsWithDraft, EndsWithScore
<1>11. LastVerdictGoverns'
  BY <1>1, <1>3, <1>4, <1>6, <1>7, NewVerdictIsLatest DEF LastVerdictGoverns
<1>12. LogCounts'
  <2>1. PICK m \in Nat : m = Len(drafts) /\ m = Len(drafts')
    BY <1>1
  <2>2. \A kind : \A k \in Nat : kind # "verification" /\ Count(kind, k) => Count(kind, k)'
    BY <1>1, <1>3, <1>4, AppendedCount
  <2>3. /\ Count("generation", m)
        /\ rev > 0 => Count("first_pass", 1)
        /\ rev = 0 => Count("first_pass", 0)
        /\ Count("gap", 0) /\ Count("final", 0)
    BY <1>1, <2>1 DEF LInv, LogCounts, HasScore, HasGap
  <2>4. /\ Count("generation", m)'
        /\ rev > 0 => Count("first_pass", 1)'
        /\ rev = 0 => Count("first_pass", 0)'
        /\ Count("gap", 0)' /\ Count("final", 0)'
    BY <2>2, <2>3
  <2>5. HasScore' <=> rev > 0
    BY <1>1, <1>5 DEF HasScore
  <2>6. ~HasGap'
    BY <1>1, <1>5 DEF HasGap
  <2> QED BY <1>1, <1>5, <2>1, <2>4, <2>5, <2>6 DEF LogCounts
<1>13. LogReadsAsJudgedDrafts'
  <2>1. n > 1 /\ n - 1 \in DOMAIN log /\ log'[n - 1] = log[Len(log)]
    BY <1>1, <1>3, <1>6, Appended DEF AwaitsVerdict
  <2>2. Reads(n)'
    BY <1>1, <1>4, <1>7, <2>1 DEF Reads, AwaitsVerdict
  <2> QED BY <1>1, <1>3, <1>6, <2>2, AppendedReads DEF LInv
<1> QED BY <1>8, <1>9, <1>10, <1>11, <1>12, <1>13 DEF LInv

LEMMA ScoreFirstPassLInv == IInv /\ LInv /\ ScoreFirstPass => LInv'
<1> SUFFICES ASSUME IInv, LInv, ScoreFirstPass PROVE LInv'
  OBVIOUS
<1> USE DEF ScoreFirstPass
<1> DEFINE e == Event("first_pass", decision.action, "none")
<1>1. log \in Seq(Events) /\ drafts \in Seq(Drafts) /\ rev = 0
  BY DEF IInv, TypeOK, LInv, DraftsFollowRevisions
<1>2. e \in Events /\ log' = Append(log, e)
  BY EventTyped DEF IInv, TypeOK, EventKinds, Tags, DecisionMatchesPC
<1>3. e.kind = "first_pass"
  BY DEF Event
<1> HIDE DEF e
<1>4. pc' \in {"final", "route"} /\ (pc' = "final" <=> drafts = << >>)
  OBVIOUS
<1>5. DraftsFollowRevisions' /\ LogStarts' /\ ReviseIsLogged'
  <2>1. DraftsFollowRevisions' /\ LogStarts'
    BY <1>1, <1>4 DEF LInv, DraftsFollowRevisions, LogStarts
  <2>2. decision.action = "revise" => \E k \in DOMAIN log' : Verdict(k, rev)'
    BY <1>1, <1>2, VerdictStays DEF LInv, ReviseIsLogged
  <2> QED BY <1>4, <2>1, <2>2 DEF ReviseIsLogged
<1>6. EndsWithDraft' /\ EndsWithScore'
  BY <1>1, <1>2, <1>3, <1>4, AppendedAwaits DEF EndsWithDraft, EndsWithScore
<1>7. LastVerdictGoverns'
  BY <1>1, <1>2, <1>3, LatestStays DEF LInv, LastVerdictGoverns
<1>8. LogCounts'
  <2>1. PICK m \in Nat : m = Len(drafts)
    BY <1>1
  <2>2. /\ Count("first_pass", 0) => Count("first_pass", 1)'
        /\ \A kind : \A k \in Nat : kind # "first_pass" /\ Count(kind, k) => Count(kind, k)'
    BY <1>1, <1>2, <1>3, AppendedCount
  <2>3. Count("generation", m) /\ Count("first_pass", 0) /\ Count("final", 0)
    BY <1>1, <2>1 DEF LInv, LogCounts, HasScore
  <2>4. Count("generation", m)' /\ Count("first_pass", 1)' /\ Count("final", 0)'
    BY <2>2, <2>3
  <2>5. HasScore' /\ (HasGap' <=> HasGap)
    BY <1>4 DEF HasScore, HasGap
  <2>6. /\ HasGap /\ decision.action # "human_gate" => Count("gap", 1)
        /\ ~(HasGap /\ decision.action # "human_gate") => Count("gap", 0)
    BY DEF LInv, LogCounts
  <2>7. /\ HasGap /\ decision.action # "human_gate" => Count("gap", 1)'
        /\ ~(HasGap /\ decision.action # "human_gate") => Count("gap", 0)'
    BY <2>2, <2>6
  <2> QED BY <1>4, <2>1, <2>4, <2>5, <2>7 DEF LogCounts
<1>9. LogReadsAsJudgedDrafts'
  BY <1>1, <1>2, <1>3, OtherReads DEF LInv
<1> QED BY <1>5, <1>6, <1>7, <1>8, <1>9 DEF LInv

\* A verdict that hands the draft to nobody, and no other, has a gap.
LEMMA GapOfVerdict ==
    ASSUME decision.action \in Actions, decision.action # "revise"
    PROVE  DeriveGap(decision) = "none" <=> decision.action = "human_gate"
BY DEF DeriveGap, Actions

LEMMA LogGapLInv == IInv /\ LInv /\ LogGap => LInv'
<1> SUFFICES ASSUME IInv, LInv, LogGap PROVE LInv'
  OBVIOUS
<1> USE DEF LogGap
<1> DEFINE e == Event("gap", DeriveGap(decision), "none")
<1>1. /\ log \in Seq(Events) /\ drafts \in Seq(Drafts)
      /\ decision.action \in Actions \ {"revise"}
      /\ DeriveGap(decision) = "none" <=> decision.action = "human_gate"
  BY GapOfVerdict DEF IInv, TypeOK, DecisionMatchesPC
<1>2. pc' \in {"first_pass", "final"} /\ (pc' = "first_pass" <=> drafts = << >>)
  OBVIOUS
<1>3. drafts = << >> => decision.action = "abstain" /\ rev = 0
  BY DEF LInv, DraftsFollowRevisions
<1>4. PICK m \in Nat : m = Len(drafts)
  BY <1>1
<1>5. /\ Count("generation", m) /\ Count("gap", 0) /\ Count("final", 0)
      /\ drafts = << >> => Count("first_pass", 0)
      /\ drafts # << >> => Count("first_pass", 1)
  BY <1>4 DEF LInv, LogCounts, HasScore, HasGap
<1>6. DraftsFollowRevisions' /\ LogStarts' /\ ReviseIsLogged'
  BY <1>1, <1>2, <1>3 DEF LInv, DraftsFollowRevisions, LogStarts, ReviseIsLogged, Actions
<1>7. HasGap' /\ (HasScore' <=> drafts # << >>)
  BY <1>2 DEF HasGap, HasScore
<1>8. CASE DeriveGap(decision) = "none"
  <2>1. EndsWithDraft' /\ EndsWithScore' /\ LastVerdictGoverns' /\ LogReadsAsJudgedDrafts'
    BY <1>2, <1>8, KeptLog DEF LInv, EndsWithDraft, EndsWithScore, LastVerdictGoverns
  <2>2. LogCounts'
    BY <1>1, <1>2, <1>4, <1>5, <1>7, <1>8, KeptLog DEF LogCounts
  <2> QED BY <1>6, <2>1, <2>2 DEF LInv
<1>9. CASE DeriveGap(decision) # "none"
  <2>1. e \in Events /\ log' = Append(log, e)
    <3>1. DeriveGap(decision) \in GapCategories
      BY <1>1, <1>9 DEF DeriveGap, GapCategories, Actions
    <3> QED BY <1>9, <3>1, EventTyped DEF IInv, TypeOK, EventKinds, Tags
  <2>2. e.kind = "gap"
    BY DEF Event
  <2> HIDE DEF e
  <2>3. EndsWithDraft' /\ EndsWithScore'
    BY <1>1, <1>2, <2>1, <2>2, AppendedAwaits DEF EndsWithDraft, EndsWithScore
  <2>4. LastVerdictGoverns'
    BY <1>1, <2>1, <2>2, LatestStays DEF LInv, LastVerdictGoverns
  <2>5. LogCounts'
    <3>1. /\ Count("gap", 1)'
          /\ \A kind : \A k \in Nat : kind # "gap" /\ Count(kind, k) => Count(kind, k)'
      BY <1>1, <1>5, <2>1, <2>2, AppendedCount
    <3>2. /\ Count("generation", m)' /\ Count("final", 0)'
          /\ drafts = << >> => Count("first_pass", 0)'
          /\ drafts # << >> => Count("first_pass", 1)'
      BY <1>5, <3>1
    <3> QED BY <1>1, <1>2, <1>4, <1>7, <1>9, <3>1, <3>2 DEF LogCounts
  <2>6. LogReadsAsJudgedDrafts'
    BY <1>1, <2>1, <2>2, OtherReads DEF LInv
  <2> QED BY <1>6, <2>3, <2>4, <2>5, <2>6 DEF LInv
<1> QED BY <1>8, <1>9

LEMMA ScoreFinalLInv == IInv /\ LInv /\ ScoreFinal => LInv'
<1> SUFFICES ASSUME IInv, LInv, ScoreFinal PROVE LInv'
  OBVIOUS
<1> USE DEF ScoreFinal
<1> DEFINE e == Event("final", decision.action, "none")
<1>1. log \in Seq(Events) /\ drafts \in Seq(Drafts)
  BY DEF IInv, TypeOK
<1>2. e \in Events /\ log' = Append(log, e)
  BY EventTyped DEF IInv, TypeOK, EventKinds, Tags, DecisionMatchesPC
<1>3. e.kind = "final" /\ e.tag = decision.action
  BY DEF Event
<1> HIDE DEF e
<1>4. DraftsFollowRevisions' /\ LogStarts' /\ ReviseIsLogged'
  BY DEF LInv, DraftsFollowRevisions, LogStarts, ReviseIsLogged
<1>5. EndsWithDraft' /\ EndsWithScore'
  <2>1. Len(log') > 0
    BY <1>1, <1>2, Appended
  <2> QED BY <1>1, <1>2, <1>3, <2>1, AppendedAwaits DEF EndsWithDraft, EndsWithScore
<1>6. LastVerdictGoverns'
  BY <1>1, <1>2, <1>3, LatestStays DEF LInv, LastVerdictGoverns
<1>7. LogCounts'
  <2>1. PICK m \in Nat : m = Len(drafts)
    BY <1>1
  <2>2. /\ Count("final", 0) => Count("final", 1)'
        /\ \A kind : \A k \in Nat : kind # "final" /\ Count(kind, k) => Count(kind, k)'
    BY <1>1, <1>2, <1>3, AppendedCount
  <2>3. /\ Count("generation", m) /\ Count("first_pass", 1) /\ Count("final", 0)
        /\ decision.action # "human_gate" => Count("gap", 1)
        /\ decision.action = "human_gate" => Count("gap", 0)
    BY <2>1 DEF LInv, LogCounts, HasScore, HasGap
  <2>4. /\ Count("generation", m)' /\ Count("first_pass", 1)' /\ Count("final", 1)'
        /\ decision.action # "human_gate" => Count("gap", 1)'
        /\ decision.action = "human_gate" => Count("gap", 0)'
    BY <2>2, <2>3
  <2>5. HasScore' /\ HasGap'
    BY DEF HasScore, HasGap
  <2> QED BY <2>1, <2>4, <2>5 DEF LogCounts
<1>8. LogReadsAsJudgedDrafts'
  BY <1>1, <1>2, <1>3, OtherReads DEF LInv
<1> QED BY <1>4, <1>5, <1>6, <1>7, <1>8 DEF LInv

LEMMA StutterLInv == LInv /\ UNCHANGED vars => LInv'
<1> SUFFICES ASSUME LInv, UNCHANGED vars PROVE LInv'
  OBVIOUS
<1> USE DEF vars
<1>1. DraftsFollowRevisions' /\ LogStarts' /\ ReviseIsLogged' /\ EndsWithDraft'
  BY KeptLog DEF LInv, DraftsFollowRevisions, LogStarts, ReviseIsLogged, EndsWithDraft
<1>2. LastVerdictGoverns' /\ EndsWithScore' /\ LogCounts' /\ LogReadsAsJudgedDrafts'
  BY KeptLog DEF LInv, LastVerdictGoverns, EndsWithScore, LogCounts, HasScore, HasGap
<1> QED BY <1>1, <1>2 DEF LInv

-----------------------------------------------------------------------------
\* The log and the control state agree in every reachable state.
THEOREM LogFollowsLoop == Spec => [](IInv /\ LInv)
<1>1. Init => IInv /\ LInv
  BY InitIInv, InitLInv
<1>2. IInv /\ LInv /\ [Next]_vars => IInv' /\ LInv'
  <2>1. IInv /\ [Next]_vars => IInv'
    BY IInvStep
  <2>2. IInv /\ LInv /\ [Next]_vars => LInv'
    BY PrecheckAbstainsLInv, PrecheckPassesLInv, PromptDraftLInv, ClientExhaustedLInv,
       AgenticDraftLInv, AgenticFailsLInv, CheckDraftLInv, VerifierRaisesLInv,
       DecideDraftLInv, ScoreFirstPassLInv, ReviseLInv, LogGapLInv, ScoreFinalLInv,
       StutterLInv DEF Next
  <2> QED BY <2>1, <2>2
<1> QED BY <1>1, <1>2, PTL DEF Spec

\* However a scenario ends and wherever the process stops, the log reads as a
\* sequence of judged drafts (runner.py:139-275).
THEOREM LogIsReadable == Spec => []LogReadsAsJudgedDrafts
<1>1. LInv => LogReadsAsJudgedDrafts
  BY DEF LInv
<1> QED BY LogFollowsLoop, <1>1, PTL

LEMMA MaxIs ==
    ASSUME NEW S \in SUBSET Int, NEW x \in S, \A y \in S : y <= x
    PROVE  Max(S) = x
<1>1. \A z \in S : (\A y \in S : z >= y) => z = x
  OBVIOUS
<1>2. \A y \in S : x >= y
  OBVIOUS
<1> QED BY <1>1, <1>2 DEF Max

LEMMA OutcomeOfLog == IInv /\ LInv => OneOutcome
<1> SUFFICES ASSUME IInv, LInv PROVE OneOutcome
  OBVIOUS
<1>1. log \in Seq(Events) /\ \A kind : Entries(kind) \in SUBSET Int
  BY DEF IInv, TypeOK, Entries
<1>2. CASE pc = "done"
  <2>1. decision.action \in {"human_gate", "escalate", "abstain"}
    BY <1>2 DEF IInv, DecisionMatchesPC, Actions
  <2>2. /\ Cardinality(Entries("final")) = 1
        /\ Cardinality(Entries("first_pass")) = 1
        /\ Cardinality(Entries("gap")) = (IF decision.action = "human_gate" THEN 0 ELSE 1)
    BY <1>2 DEF LInv, LogCounts, Count, HasScore, HasGap
  <2>3. log[Max(Entries("final"))].tag = decision.action
    <3>1. Len(log) \in Entries("final") /\ \A j \in Entries("final") : j <= Len(log)
      BY <1>1, <1>2 DEF LInv, EndsWithScore, Entries
    <3>2. Max(Entries("final")) = Len(log)
      BY <1>1, <3>1, MaxIs
    <3> QED BY <1>2, <3>2 DEF LInv, EndsWithScore
  <2>4. log[Max(Entries("verification"))].tag = decision.action
    <3>1. PICK k \in DOMAIN log : Latest(k) /\ log[k].tag = decision.action
      BY <1>2 DEF LInv, LastVerdictGoverns
    <3>2. Max(Entries("verification")) = k
      BY <1>1, <3>1, MaxIs DEF Latest
    <3> QED BY <3>1, <3>2
  <2> QED BY <1>2, <2>1, <2>2, <2>3, <2>4 DEF OneOutcome
<1>3. CASE pc # "done"
  <2>1. Count("final", 0)
    BY <1>3 DEF LInv, LogCounts
  <2>2. Entries("final") = {}
    BY <2>1, FS_EmptySet DEF Count
  <2> QED BY <1>3, <2>2 DEF OneOutcome
<1> QED BY <1>2, <1>3

\* A scenario that ends without an exception leaves one final score, one
\* first-pass score and, unless a person receives the draft, one gap; and the
\* final score records the last verdict (runner.py:64-137).
THEOREM ScenarioClosesOnce == Spec => []OneOutcome
BY LogFollowsLoop, OutcomeOfLog, PTL

-----------------------------------------------------------------------------
(***************************************************************************)
(* The contract: every step of the loop is one of its steps or a stutter.  *)
(***************************************************************************)

\* The contract's variables, read off the control state.
View ==
    /\ Cardinality(Entries("generation")) = Len(drafts)
    /\ pc # "raised" =>
         (Entries("gap") # {} <=> HasGap /\ decision.action # "human_gate")
    /\ pc = "raised" => Entries("gap") = {}
    /\ pc \notin {"check", "decide", "raised"} => ~AwaitsVerdict
    /\ pc \in {"check", "decide"} => AwaitsVerdict

LEMMA ContractView == IInv /\ LInv => View
<1> SUFFICES ASSUME IInv, LInv PROVE View
  OBVIOUS
<1>1. \A kind : Count(kind, 0) => Entries(kind) = {}
  BY FS_EmptySet DEF Count
<1>2. \A kind : Count(kind, 1) => Entries(kind) # {}
  BY FS_EmptySet DEF Count
<1> QED BY <1>1, <1>2 DEF LInv, LogCounts, Count, EndsWithDraft, View

LEMMA InitContract == Init => Contract!Init
<1> SUFFICES ASSUME Init PROVE Contract!Init
  OBVIOUS
<1>1. \A kind : Entries(kind) = {}
  BY DEF Init, Entries
<1>2. Cardinality(Entries("generation")) = 0
  BY <1>1, FS_EmptySet
<1> QED BY <1>1, <1>2 DEF Init, Contract!Init, AwaitsVerdict, Undecided, Decision

LEMMA NextView == IInv' /\ LInv' => View'
BY ContractView, PTL

LEMMA PrecheckContract ==
    ASSUME IInv, LInv, View, View', PrecheckAbstains \/ PrecheckPasses
    PROVE  [Contract!Next]_Contract!vars
<1>1. /\ drafts' = drafts /\ ~AwaitsVerdict /\ decision.action = "none"
      /\ pc = "precheck" /\ pc' \notin {"done", "raised", "check", "decide", "final", "first_pass"}
      /\ ~AwaitsVerdict'
      /\ Entries("gap") = {} /\ Entries("gap")' = {}
      /\ Cardinality(Entries("generation")) = Cardinality(Entries("generation"))'
  BY DEF PrecheckAbstains, PrecheckPasses, LInv, LogStarts, View, HasGap
<1>2. CASE PrecheckAbstains
  <2>1. decision'.action = "abstain"
    BY <1>2 DEF PrecheckAbstains, Decision
  <2>2. Contract!AbstainUndrafted
    BY <1>1, <2>1 DEF Contract!AbstainUndrafted
  <2> QED BY <2>2 DEF Contract!Next
<1>3. CASE PrecheckPasses
  <2>1. decision' = decision
    BY <1>3 DEF PrecheckPasses
  <2> QED BY <1>1, <2>1 DEF Contract!vars
<1> QED BY <1>2, <1>3

\* A draft is an attempt, and within the bound.
LEMMA DraftContract ==
    ASSUME IInv, LInv, View, View', PromptDraft \/ AgenticDraft
    PROVE  [Contract!Next]_Contract!vars
<1>1. PICK d \in Drafts : TakeDraft(d)
  BY DEF PromptDraft, AgenticDraft
<1>2. pc = "generate" /\ pc' = "check" /\ decision' = decision
  BY <1>1 DEF PromptDraft, AgenticDraft, TakeDraft
<1>3. decision.action \in {"none", "revise"}
  BY <1>2 DEF IInv, DecisionMatchesPC
<1>4. ~AwaitsVerdict /\ AwaitsVerdict'
  BY <1>2 DEF View
<1>5. Entries("gap") = {} /\ Entries("gap")' = {}
  BY <1>2 DEF View, HasGap
<1>6. /\ Cardinality(Entries("generation")) < MaxRevisions + 1
      /\ Cardinality(Entries("generation"))' = Cardinality(Entries("generation")) + 1
  <2>1. Len(drafts) = rev /\ rev \in 0..MaxRevisions /\ drafts \in Seq(Drafts)
    BY <1>2 DEF LInv, DraftsFollowRevisions, IInv, TypeOK
  <2>2. Len(drafts') = Len(drafts) + 1
    BY <1>1, <2>1 DEF TakeDraft
  <2> QED BY <2>1, <2>2, LoopAssumption DEF View
<1>7. Contract!Attempt
  BY <1>2, <1>3, <1>4, <1>5, <1>6 DEF Contract!Attempt
<1> QED BY <1>7 DEF Contract!Next

\* An exception ends the scenario without a verdict.
LEMMA RaiseContract ==
    ASSUME IInv, LInv, View, View', ClientExhausted \/ VerifierRaises
    PROVE  [Contract!Next]_Contract!vars
<1>1. /\ pc \in {"generate", "check"} /\ pc' = "raised" /\ decision' = decision
      /\ log' = log
  BY DEF ClientExhausted, VerifierRaises
<1>2. AwaitsVerdict' = AwaitsVerdict /\ (Entries("gap") # {})' = (Entries("gap") # {})
      /\ Cardinality(Entries("generation"))' = Cardinality(Entries("generation"))
  BY <1>1 DEF AwaitsVerdict, Entries
<1>3. decision.action \in {"none", "revise"}
  BY <1>1 DEF IInv, DecisionMatchesPC
<1>4. Contract!Abort
  BY <1>1, <1>2, <1>3 DEF Contract!Abort, Contract!Undecided
<1> QED BY <1>4 DEF Contract!Next

LEMMA AgenticFailsContract ==
    ASSUME IInv, LInv, View, View', AgenticFails
    PROVE  [Contract!Next]_Contract!vars
<1> USE DEF AgenticFails
<1>1. /\ pc = "generate" /\ pc' = "route" /\ rev > 0 /\ drafts' = drafts
      /\ decision'.action = "escalate"
  BY LoopAssumption DEF GenerationMode, Decision, IInv, TypeOK
<1>2. decision.action = "revise"
  BY <1>1 DEF IInv, CorrectionDelivered
<1>3. ~AwaitsVerdict /\ ~AwaitsVerdict' /\ Entries("gap") = {} /\ Entries("gap")' = {}
  BY <1>1 DEF View, HasGap
<1>4. Cardinality(Entries("generation"))' = Cardinality(Entries("generation"))
  BY <1>1 DEF View
<1>5. Contract!GiveUp
  BY <1>1, <1>2, <1>3, <1>4 DEF Contract!GiveUp
<1> QED BY <1>5 DEF Contract!Next

\* The verdict on a draft; on the last attempt it is never revise.
LEMMA DecideContract ==
    ASSUME IInv, IInv', LInv, View, View', DecideDraft
    PROVE  [Contract!Next]_Contract!vars
<1>1. /\ pc = "decide" /\ pc' \in {"first_pass", "route"} /\ drafts' = drafts /\ rev' = rev
  BY DEF DecideDraft
<1>2. AwaitsVerdict /\ ~AwaitsVerdict' /\ Entries("gap") = {}
  BY <1>1 DEF View, HasGap
<1>3. Len(drafts) = rev + 1 /\ rev \in Nat /\ drafts # << >> /\ MaxRevisions \in Nat
  BY <1>1, LoopAssumption DEF LInv, DraftsFollowRevisions, IInv, TypeOK
<1>4. Entries("gap")' = {}
  BY <1>1, <1>3 DEF View, HasGap
<1>5. decision'.action \in Actions /\ (decision'.action = "revise" => rev < MaxRevisions)
  BY <1>1 DEF IInv, DecisionMatchesPC, ReviseIsDue
<1>6. /\ Cardinality(Entries("generation")) = rev + 1
      /\ Cardinality(Entries("generation"))' = rev + 1
  BY <1>1, <1>3 DEF View
<1>7. Contract!Judge
  BY <1>1, <1>2, <1>3, <1>4, <1>5, <1>6 DEF Contract!Judge, Contract!Terminal, Actions
<1> QED BY <1>7 DEF Contract!Next

\* Checking, scoring the first pass and coming round change nothing of it.
LEMMA QuietContract ==
    ASSUME IInv, LInv, View, View', CheckDraft \/ ScoreFirstPass \/ Revise
    PROVE  [Contract!Next]_Contract!vars
<1>1. /\ decision' = decision /\ drafts' = drafts
      /\ pc \notin {"done", "raised"} /\ pc' \notin {"done", "raised"}
      /\ pc \in {"check", "decide"} <=> pc' \in {"check", "decide"}
      /\ HasGap' <=> HasGap
  BY DEF CheckDraft, ScoreFirstPass, Revise, HasGap
<1>2. /\ AwaitsVerdict' = AwaitsVerdict
      /\ (Entries("gap") # {})' = (Entries("gap") # {})
      /\ Cardinality(Entries("generation"))' = Cardinality(Entries("generation"))
  BY <1>1 DEF View, AwaitsVerdict
<1> QED BY <1>1, <1>2 DEF Contract!vars

LEMMA LogGapContract ==
    ASSUME IInv, LInv, View, View', LogGap
    PROVE  [Contract!Next]_Contract!vars
<1>1. /\ decision' = decision /\ drafts' = drafts
      /\ pc = "route" /\ pc' \in {"first_pass", "final"}
      /\ HasGap' /\ ~HasGap
  BY DEF LogGap, HasGap
<1>2. /\ ~AwaitsVerdict /\ ~AwaitsVerdict'
      /\ Entries("gap") = {}
      /\ (Entries("gap") # {})' <=> decision.action # "human_gate"
      /\ Cardinality(Entries("generation"))' = Cardinality(Entries("generation"))
  BY <1>1 DEF View
<1>3. decision.action \in Actions /\ decision.action # "revise"
  BY <1>1 DEF IInv, DecisionMatchesPC, LogGap
<1>4. CASE decision.action = "human_gate"
  BY <1>1, <1>2, <1>4 DEF Contract!vars
<1>5. CASE decision.action # "human_gate"
  <2>1. Contract!RecordGap
    BY <1>1, <1>2, <1>3, <1>5 DEF Contract!RecordGap, Actions
  <2> QED BY <2>1 DEF Contract!Next
<1> QED BY <1>4, <1>5

LEMMA ScoreFinalContract ==
    ASSUME IInv, LInv, View, View', ScoreFinal
    PROVE  [Contract!Next]_Contract!vars
<1>1. /\ decision' = decision /\ drafts' = drafts
      /\ pc = "final" /\ pc' = "done" /\ HasGap' /\ HasGap
  BY DEF ScoreFinal, HasGap
<1>2. /\ ~AwaitsVerdict /\ ~AwaitsVerdict'
      /\ Entries("gap") # {} <=> decision.action # "human_gate"
      /\ (Entries("gap") # {})' <=> decision.action # "human_gate"
      /\ Cardinality(Entries("generation"))' = Cardinality(Entries("generation"))
  BY <1>1 DEF View
<1>3. decision.action \in Actions /\ decision.action # "revise"
  BY <1>1 DEF IInv, DecisionMatchesPC
<1>4. Contract!Close
  BY <1>1, <1>2, <1>3 DEF Contract!Close, Contract!Terminal, Actions
<1> QED BY <1>4 DEF Contract!Next

LEMMA StutterContract == UNCHANGED vars => UNCHANGED Contract!vars
BY DEF vars, Contract!vars, AwaitsVerdict, Entries

\* The loop keeps the contract its callers rely on: at most MaxRevisions + 1
\* drafts, each judged before the next, the gap on record before an unhanded
\* draft is closed, never a revise verdict at the end (runner.py:1-30).
THEOREM LoopKeepsContract == Spec => Contract!Safety
<1>1. IInv /\ LInv /\ IInv' /\ LInv' /\ [Next]_vars => [Contract!Next]_Contract!vars
  <2> SUFFICES ASSUME IInv, LInv, IInv', LInv', [Next]_vars
               PROVE  [Contract!Next]_Contract!vars
    OBVIOUS
  <2>1. View /\ View'
    BY ContractView, NextView
  <2> QED
    BY <2>1, PrecheckContract, DraftContract, RaiseContract, AgenticFailsContract,
       DecideContract, QuietContract, LogGapContract, ScoreFinalContract,
       StutterContract DEF Next
<1> QED BY InitContract, LogFollowsLoop, <1>1, PTL DEF Spec, Contract!Safety

=============================================================================
