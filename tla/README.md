# MaxEd, modelled in TLA+

MaxEd answers a customer's question about an account: a language model drafts
the reply, code extracts every claim from the draft and checks it against the
ledger, a fixed rule table decides what happens to the draft, a person decides
on the drafts that pass, and those decisions become examples for later drafts.
This directory models that pipeline - the passes and their revision loop, the
extraction, the checks, the gate, the bounded agentic recovery, the model client,
the event log, human review, and the exemplar memory with its ingest - checks
it with TLC, and proves most of its safety properties with TLAPS.
Paths below are relative to `src/balancecheck/` unless they say otherwise.

## Inventory

| Component | State it keeps | Operations | Hard part | What makes it correct |
|---|---|---|---|---|
| Runner (`runner.py`) | revision index, recovery count, drafts, correction; appends to the log | `run_scenario` | two bounds and eight exits; any stop leaves a log others read | terminates in bounds, one well-formed outcome, redrafts know what to fix |
| Gate (`gate/policy.py`, `gate/gaps.py`) | none | `precheck_abstain`, `decide`, `derive_gap` | nine rows in priority, mixed findings, two budgets | nothing slips to the last row; verdict within budget |
| Checks (`checks/checks.py`) | none | one check per claim type | roles, bound and loose amounts, model verifier | passes only what the records bear out |
| Extraction (`drafting/surface.py`) | none | `extract_claims` | detectors compete for characters; the meaning of a figure hangs on its neighbours | no caught figure without a claim; no claim with the wrong meaning that passes |
| Golden drafts, corruptions, oracle (`drafting/golden.py`, `bench/corrupt.py`, `bench/oracle.py`) | none | `golden_draft`, the four corruptions, `oracle_grounding` | must agree with extraction, checks and gate word for word | the reference verifies clean, its corruptions do not |
| Ledger (`substrate/derive.py`), money (`substrate/money.py`) | none | balances, statuses, ambiguity, rendering | arithmetic over applications | agrees with the raw documents |
| Foundry (`substrate/foundry.py`) | none | twelve fixtures from six archetypes, audited | labels must be what the records show | every fixture passes the audit |
| Agentic recovery (`drafting/agentic.py`, `drafting/tools.py`) | cache, successes, execution count, transcript; appends to the log | `generate_agentic_revision`, `_ToolSession.attempt`, tools | the model chooses; budgets and evidence are enforced by code | budgets, complete evidence, one event per attempt |
| Model client (`model_client.py`) | call count | `complete` | retries of two kinds, exceptions through a finally block | one trace per attempt; response agrees with traces |
| Event log (`spine/events.py`, `spine/trace.py`) | the JSONL file | `append_event`, `read_events`, `line_count` | a kill inside a write | completed appends survive, offsets are true |
| Review (`cli.py`, `cmd_review`) | none of its own; reads and appends to the log | `--list`, `--apply` | works on a snapshot beside running passes; killed and repeated | decides only on gated drafts, once; stores checked text |
| Memory (`memory/store.py`) | the store's JSON file | `add`, `retrieve` | cap, eviction, re-adding, a write cut short | newest entries per class; own class first |
| Ingest (`memory/ingest.py`) | the meta file with the consumed offset | `ingest` | three files, written one after the other | no decision lost, no duplicate, no Pool B |
| Passes (`cli.py`, `spine/manifest.py`) | manifest per run; appends to the log | `run-pool` | memory read several times while the hash is fixed; stops and reruns | the ablation uses the memory its manifest names |
| Reports (`spine/report.py`), scoring (`bench/score.py`) | none | tables over the log | latest event wins, across reruns that stopped | what is shown side by side comes from one run; completeness is part of the gate |
| Drafting (`drafting/drafter.py`), contracts, config | none | `generate_draft`, schemas, settings | an exhausted client | partly: the draft or the exception |
| Judges, pairwise protocol, calibration (`bench/*`) | none | model calls and statistics | - | not modelled |

The components interact through calls (runner -> client, extraction, checks,
gate, agentic recovery, memory) within one thread, and between processes only
through files: the event log (passes, reviews, ingest and reports), the store's
file (ingest writes, passes read) and the meta file (ingest only). No file is locked.
Concurrency is therefore between processes; failure is a kill between or inside
writes, an exhausted or interrupted model call, and a model that answers
anything at all. `PROJECT.json` lists each hazard at its line.

## Modules

| Module | Models | Correspondence |
|---|---|---|
| `Ledger` | derivations and well-formed ledgers | operators named after the functions; money is an integer number of cents |
| `Money`, `Lexicon` | rendering of amounts; the word lists of the extractor | `Render` spells an amount as the code does; the lists are sets of words or of phrases |
| `Surface` | `extract_claims` | a sentence is a sequence of tokens with character positions; one operator per detector, in the code's order of priority, each given the characters taken before it |
| `Checks` | claims, the code checks, the fuzzy check | a claim is a record of type, word, number, documents, role, sentence context, as `Surface` makes it |
| `Gate` | rule matrix, completeness, itemization, oscillation, precheck, gaps | one conjunct or CASE arm per row, in the code's order |
| `Golden`, `Oracle`, `Foundry` | reference drafts and their corruptions; the independent replay of the records; the fixtures and their audit | sentence by sentence, archetype by archetype |
| `DraftAudit` | the verification of the error runs, and a drafter that writes phrase by phrase | one action per kind of draft; each step extracts, checks and decides |
| `Runner` | `run_scenario` as a state machine | `pc` names the stretch of the function between two appends; drafts, verifier answers and client failures are chosen by `\E` |
| `ScenarioContract` | what a caller of `run_scenario` may rely on | abstract specification that `Runner` implements |
| `AgenticRecovery` | the recovery | `pc`: rounds, calls of one step, forced coverage, returned; the model's step is chosen by `\E`; a tool answer is the set of figures it reveals |
| `EventLog` | the log file | a sequence of lines, the last possibly without newline; a stump cannot be parsed |
| `ModelClient` | `complete`, tracing, kills and restarts | `pc`: attempt, then the finally block together with what follows it |
| `Review` | `cmd_review --apply` beside a pass | the snapshot is the number of lines read, for the log only grows |
| `MemoryStore` | `add`, `retrieve` | the store is a set of entries; order in the file is by offset and carries nothing else |
| `Ingest` | `ingest` with its three files | one action per read or write of a file, and per half of a write that truncates first; `learned` and the entries lost to a cut are history |
| `Passes` | `cmd_run_pool` over a pool, `RandomRetrievalStore`, the tables that compare passes | one action per reading of the store's file and per event the first-pass tables read; the table operators pick the events as the report does |
| `MC...` | small instances | values for the constants |
| `LedgerProofs`, `RunnerProofs`, `RecoveryProofs`, `IngestProofs`, `ReviewProofs`, `ClientProofs`, `PassesProofs`, `AuditProofs` | lemmas and theorems about the module they name, `AuditProofs` about `DraftAudit` | `RunnerProofs`, `RecoveryProofs` and `AuditProofs` extend `LedgerProofs` |

`Runner` is built on `Gate`, `Checks` and `Ledger` (EXTENDS); `DraftAudit` on
`Golden` and `Oracle`, which are built on `Surface`, and on `Gate`;
`AgenticRecovery` on `Ledger`; `Ingest` and `Passes` on `MemoryStore`;
`ModelClient` on `EventLog`. `Runner` contains a recovery only as its two
results, a draft or none, and a client call as its two results, a text or an
exception: `AgenticRecovery` and `ModelClient` are what stands behind them. It
takes a draft as the claims that `Surface` makes of a text; `DraftAudit`
composes text, extraction, checks and one decision of the gate. Operators named
`X_Fault` (preceded by "Seeded fault") are alternative bodies used to see that a
property can fail; no specification uses them.

## Runs

| Run | Bounds | What it shows |
|---|---|---|
| `runner` | 4 accounts, 15 replies, 4 configurations, the real budgets (2, 1) and loop bound (2) | see below; about 57,000 states |
| `agentic` | 2 accounts, none or 2 failed documents, 5 calls, 2 rounds, 3 calls a step of which 2 run, ceiling 5 | budgets, evidence, one event per attempt, return; about 393,000 states |
| `ingest` | cap 2, 4 foreign lines, 3 runs, 4 kinds of decision | the store under kills, cut writes and restarts; about 528,000 states |
| `review` | one pass of 2 drafts, 3 reviews, 2 decisions | snapshots beside a pass, kills, repetition; about 385,000 states |
| `client` | 3 attempts, 8 lines, 2 processes | traces and the log file under kills; about 633,000 states |
| `passes` | 2 passes of 3 scenarios, each draft with text or without, one entry learned meanwhile, class cap 1, 1 exemplar | reports and ablation across stops and reruns; about 78,000 states |
| `drafts` | the twelve fixtures; one account in credit; two accounts with replies of up to 4 phrases in 2 sentences, out of 14 and 12 phrases; the real windows (32, 24) and budgets | text through extraction, checks and gate; about 251,000 states |
| `required_content` | as `runner` | violated: finding |
| `ingest_overlap`, `ingest_torn` | as `ingest`, the first with reviews during ingest | violated: findings |
| `review_labels` | two passes under one label, 2 reviews | violated: finding |
| `subtotal_twice` | as `drafts`, one account | violated: finding |

**runner.** The loop never exceeds its bounds (`NeverOverruns`), ends
(`Terminates`) with one consistent outcome (`OneOutcome`), leaves a readable log
wherever it stops (`LogReadsAsJudgedDrafts`), always tells a redraft what to fix
(`CorrectionDelivered`), and hands over only drafts whose claims were all
checked (`NothingSlipsPast`), are true of the raw documents
(`HumanGateTruthful`) and say what a reply must (`WrittenDraftComplete`).
`ImplementsContract` is the refinement. `HumanGateTruthful` says of each claim
type what a claim means of the records, without the derivations the checkers
use: an amount bound to a document is the figure that its role names, or the
document's amount or what is left of it when the role names none; one bound to no
single document is money received or the balance; a subtotal is what is left of
the invoices it names, each as often as it is named, and another total the
balance or the open invoices; a status word is right about payment and about
lateness; a date is carried by each document it is bound to, or by the account.
Fuzzy claims are the exception: that the cited records exist is all the code can
know of them. The accounts are: partly paid with nothing unapplied, the same with
money unapplied, net zero, and ambiguous; the replies reach every row of the
matrix on some account, pass with claims of every type and role, and most are right
on one account and wrong on another.
Three redrafts are all the code allows, so the bound is the real one.

**agentic.** The ceiling is chosen so that the model can waste exactly enough
to starve forced coverage of the five requirements of one account, whose unapplied credit
no other answer reveals. The other account has no unapplied money and no failed document (only
required content was missing from its draft), so the model can gather its evidence within the
rounds and have a final draft accepted there. A required call can be made by the
model, repeated (cached), spelled loosely, made malformed or fail.

**ingest.** A class of two entries overflows with three decisions; four lines
from other processes and three runs allow a kill in one run, recovery in the
next and another report. Reviews append between runs, passes at any time. Store
and meta file are truncated and then written (`memory/store.py:88`,
`memory/ingest.py:67`), and a kill in between leaves an empty store, which reads
as no memory, or a meta file that every later run raises on.
`MemoryIsNewest` compares the store with the history of everything added since
its file was last cut; `ReportMatchesLog` with what the log alone determines,
less what cuts took.

**review.** Rows may name any generation, with any action, text and override,
and repeat; a second review is the same file again or another.

**client.** Stub and live mode; each attempt may succeed, be malformed, fail in
transport, miss its canned answer or be interrupted. A kill inside the trace
leaves every prefix of the write.

**passes.** A pass may stop between any two appends and be started again under
its label or another's. `TablesTellOneRun` says when the score and the draft
that the reports show together come from one run. The directional section takes
the last draft of a scenario: it is of the run of the score, unless the last run
of the scenario stopped between the two. The oracle cross-check takes the last
draft that has text (`spine/report.py:646-650`) and has a second exception: when
the run of the score wrote an empty draft, the draft of an earlier run, though that
one was scored, is held against the score of the empty one. An empty draft is
what a reply without content comes to (`model_client.py:202`).
`AblationDrawsFromRecorded` says that the
random ablation draws, for every scenario, from the memory its manifest names,
unless ingest came between the two readings of the file at its start; the entry
learned evicts one that the manifest names. The structured store has no such
property: it reads the file for every scenario, so an ingest beside a pass makes
it use memory that its manifest does not name. Two passes give a run and its
rerun, either one interrupted, under one label or two; a table shows events of two
runs at most, and the proof covers any number. This module has no type invariant
of its own.

**drafts.** One account has a partly paid invoice, an open one and money partly
applied; the other nets to zero with money unapplied. Phrases name documents by
reference and by number, give amounts in every form the detectors know, dates,
percentages, currency words beside any of them, statuses, "paid" alone and in its
paraphrases, and words that give an amount its role; four of them in any order
and grouping put two detectors' matches side by side with a reference or a role
word before, between or after them, which is as far as a window reaches.

- `CaughtIsClaimed` is the extractor's promise that what a detector catches is
  claimed (I11). `TakenByMarker` names what the code loses: a percentage after
  "USD", a date next to "USD" or "dollars", and a number whose "USD" the next
  number takes.
- `PassedFiguresAreBorneOut` says what the amounts of a draft can be whose claims
  all pass. `BorneOut` asks `Oracle`, which replays the records without the
  checkers' derivations, and besides it the open amounts added up and the money
  received, for which the oracle has no figure. The totals of the account count
  in any sentence, as in the code. The oracle leaves out figures of zero where the
  checkers accept a true "$0.00", so `BorneOut` says for which accounts and
  sentences zero is right; the phrase "$0.00" puts it into drafts.
- `NoOpenInvoiceCalledPaid` is about a sentence that names one invoice and says,
  in a paraphrase of "paid" or with "paid", "settled" or "cleared", that nothing
  is open (`SaysPaid`). The word "paid" by itself is left out in a sentence that
  takes an invoice apart, for there the code makes no claim of it
  (`drafting/surface.py:563-573`); see the divergences below.
- `GoldenVerifiesClean` and `CorruptionIsCaught` are the error runs over all
  twelve fixtures and over `InCredit`, whose balance is below zero by less than
  `break_sum` adds.

The model of the extractor, the code checks and the gate was compared with the
code: of all 250,910 drafts of this run none differs in claims, results or verdict,
and its golden, swapped, fabricated and broken drafts read as those that the code
writes for the same accounts.

`CHECK_DEADLOCK` is off in all runs: a loop, a recovery and a client call end,
a draft is complete, and bounded environments run out of steps.

## Fairness

`Runner`, `AgenticRecovery` and `ModelClient` are sequential code: weak fairness
of their own steps says that a thread that can continue does. Model calls
return because the HTTP client has a timeout and attempts are counted
(`model_client.py:81,191`); the timeout is per read, so a server that trickles
bytes forever is outside the assumption. Nothing is assumed of the environment:
kills, reviews and passes are never required. `Ingest`, `Review`, `Passes` and
`DraftAudit` assume no fairness, and only safety is claimed of them.

## What is proved

Everything below holds for all values of the constants that satisfy the
assumptions named in the modules; TLC evaluates those assumptions on the
instances. `PROJECT.json` lists the theorems.

**The derivations** (`LedgerProofs`). `BalanceIdentity`: on every valid ledger
the net balance is what was invoiced less what came in, for an application takes
the same cents from an invoice and from a source; `RecomputeAgrees`: the
independent recompute gives the same balance (invariant I2,
`tests/test_fixture_invariants.py:76`), although it replays the applications one
after the other. A ledger is valid when the record schemas accept it
(`LedgerRecord`, `contracts/models.py`) and `validate_ledger` reports nothing
(`WellFormed`); no bound on documents or applications. Every figure is a sum
over a finite set, and the library's induction takes a predicate, which no
installed prover can instantiate; `AllSubsets` is induction over a family of
sets instead, from the least number argument, and shows that a table of partial
sums exists and is unique (`IsTable`, `TotalIs`). From it come the rules of
calculation: remove an element, add two sums, sum by groups. The replay is a
recursive function over the applications; `Left` is what it leaves after any of
them, and `ReplayLeaves` shows that, application by application.

**The revision loop** (`RunnerProofs`). `TypeCorrect`, `LoopNeverOverruns`,
`RedraftIsInformed`, `GateIsStrict`: the properties `TypeOK`, `NeverOverruns`,
`CorrectionDelivered` and `NothingSlipsPast`. Assumed: `ConfigsAssumption`
(modes and a natural number of recoveries), `BudgetsAssumption` and
`LoopAssumption` (budgets are natural numbers that fit the loop's bound, as
`policy.py:44-45` and `runner.py` have it) and `DraftsAssumption` (a draft's
claims are claims the extractor can produce). None of the four is inductive
alone. That the loop does not overrun needs that a revise verdict is only given
below a budget (`ReviseIsDue`), a fact about `decide` in the state in which it
was called, kept until `Revise` executes; that a redraft is informed needs that
every revise verdict carries a finding; that the gate is strict needs that what
was checked are the claims of the current draft, each with a check of its own
type (`ChecksAreCurrent`), and that verdict and position in the code agree
(`DecisionMatchesPC`). `IInv` joins these. The work is in `DecideSound`: any
verdict is typed, revise means below a budget with findings, and the human gate
means every claim passed.

`GateIsTruthful` and `GateIsComplete` (`HumanGateTruthful`,
`WrittenDraftComplete`) say what this means for the person at the gate: every
claim is true of the records, and the balance, the open invoices and the
unapplied money are there. The checkers compare a claim with derived figures,
often by several routes to one of them. `SumIsTrue`, `AmountIsTrue`,
`StatusIsTrue` and `DateIsTrue` say, for each claim type, that a pass is a fact of
the records as `Truthful` states it; an amount goes by its role (`RoleIsTrue`) or
by the money received (`ReceivedIsTrue`), a subtotal by `SubtotalIsRest`, the total of
the open invoices by `OpenAndApplied` and the balance by `BalanceIdentity`.
`CodeCheckIsTrue` joins them, and `ChecklistIsComplete`
that an empty checklist leaves nothing of the records out. That verdict, results
and draft belong together is `GateInv`: `IInv` knows that every result of the
current draft passed, but not that the results are those `CheckAll` computes for
it, nor that the checklist was empty, when a verdict has been given. It is
inductive together with `IInv` (`GateInvariant`; TLC agrees on the run's
instance). Assumed besides: every ledger is valid and numbers no document like
the label of the net balance (`LedgersAssumption`; `foundry.py:528-536` and
`contracts/models.py`), the documents of a claim are a finite sequence and its
role is a known one (`ExtractedClaim`).

**Its log** (`RunnerProofs`, second part). `LInv` relates the log to the position in the
code: which events the present revision has logged, and that everything before
alternates drafts and verdicts. From it follow `LogIsReadable` and
`ScenarioClosesOnce` (the properties `LogReadsAsJudgedDrafts` and `OneOutcome`),
and `LoopKeepsContract`, the safety part of the refinement: initial states map
to initial states of `ScenarioContract` and steps to steps or stutters.

**The recovery** (`RecoveryProofs`). `TypeOK`, `BudgetsHold`, `AnsweredOnce`,
`GivesUpOnlyAtCeiling`, `CoverageFitsBudget` and `DraftsAreInformed`. The
invariant counts executions against the results in the cache, and
`CoverageFitsBudget` needs that forced coverage asks only for requirements that
no answer has met, each its own call.
`RecoveryInforms` joins the invariant to what the tools answer: a draft is
returned only when every requirement was answered (`Informed`), and the rows of
those answers are, figure by figure, what a complete reply needs; that an
unapplied source shows in an unapplied total is `UnappliedShows`.
`CasesAssumption` says that the documents a recovery is about belong to the
account, which is valid: a draft that names another is escalated as fabricated
and never redrafted (`policy.py`, first row).

**Ingest** (`IngestProofs`). `TypeOK`, `MemoryIsNewest` and
`OffsetNeverMovesBack` without further assumption; `ConsumedIsLearned` and
`ReportMatchesLog` while no review runs beside ingest (`~ReviewOverlaps`), which
the run `ingest_overlap` shows to be necessary for the first. The heart is a
lemma of `MemoryStore`: adding to the newest of a class is the newest of the
class with the addition, also for what is added a second time. `OwnClassFirst`
is about retrieval from any finite store.

**Review** (`ReviewProofs`). `TypeOK`, `StoredTextReverified` and
`ReapplyDecidesNothingTwice` from the invariant `Reviewed` (decisions below the
snapshot are in it, decisions above it are the review's own). `DecidedWasGated`
and `NothingGatedIsLost` from `Named`, which says that an identifier names one
draft; that needs `~LabelsReused`, and the run `review_labels` shows that
without it the first fails.

**The client** (`ClientProofs`). `TypeOK`, `OneTracePerAttempt`,
`DamageConfined`, `RetryTellsWhy` and `ResponseMatchesTraces`. `Filed` says that
only the last line can lack its newline; `SealFacts` and `CutShortFacts` say
what sealing and an interrupted write leave of the lines before. `CallCounts`
and `QuotesLatest` relate the variables of the call under way to its traces, and
`TracesArePast` keeps later traces out of earlier calls. `StumpAssumption` says
that a stump is no event.

**Passes** (`PassesProofs`). `TablesTellOneRun` and `AblationDrawsFromRecorded`.
Runs follow one another in the log under the label of their manifest
(`LogInOrder`), and every score is of a draft of its own run or of an abstention
(`ScoresHaveDrafts`); that an account abstains in one run and is drafted for in
another is excluded by the uniqueness of IDs, which the foundry asserts
(`PoolAssumption`, `substrate/foundry.py:528`). For the cross-check the same
argument is made of the last draft with text; that a later run of the score has
none is then its exception.

**The drafts** (`AuditProofs`). What a text becomes on its way through
extraction, checks and gate, for every valid account whose documents are a
finite list (`LedgersAssumption`), every set of phrases made of tokens
(`PhrasesAssumption`), any number of phrases and sentences, and any width of the
windows (`WindowAssumption`). The state's invariant, `AuditInv`, is small: the
text is made of tokens, the results are those of its own claims, the decision is
the gate's on them, and golden drafts and corruptions are what they are called
(`AuditInvariant`). The work is in what extraction makes of a text.

- `ExtractionIs`: every claim is that of a candidate and is one the checkers
  know (`ExtractedClaim`, which `Runner` assumes of its drafts), and every
  candidate's claim is kept, or one of a document that is looked up already.
  Extraction maps, flattens and sweeps sequences; `FlattenIs`, `RangeOfFlat` and
  `DedupedIs` follow the elements through, so that no order of sentences or
  candidates loses one.
- `CaughtFiguresAreClaimed` (`CaughtIsClaimed`): `MoneyIsFound` shows, form by
  form, that a figure which looks like money yields a candidate with that figure,
  whichever of its markers the detectors take first, and `MoneyClaimed` that its
  claim is among the results; `TakenByMarker` is the exception both need.
- `PassedFiguresHold` (`PassedFiguresAreBorneOut`): `ClassesAre` says that an
  amount is bound to a document its sentence names, to the invoices of the
  sentence, or to nothing, and for each of them a pass is turned into a figure of
  the replay (`BoundBorne`, `SumBorne`, `UnboundBorne`). The replay is tied to
  the checkers' derivations by `ReplayLeaves`, `OracleFigures` and
  `TotalsBorne`. A subtotal is right because each invoice is counted once
  (`NamedOnce`, `OnceSummed`); the exception of a sentence that names one twice
  is necessary, as run `subtotal_twice` shows.
- `PaidIsNeverSaidOfOpen` (`NoOpenInvoiceCalledPaid`): the candidate for a
  paraphrase of "paid" is found, and so is the one for "settled", "cleared" or an
  unexempted "paid" (`SaidPaid`); its document is the only one named, and its
  check passes only on an invoice with nothing open.

What the gate makes of a text, whoever wrote it:

- `UnknownDocumentsEscalate` (`FabricatedIsUnknown`): the verdict "fabricated" is
  given exactly when the text names a document that is not on record, by its
  reference or as "invoice 9999".
- `PhrasesNeedCitations` (`PhrasesAreCited`): a text with a phrase of the fuzzy
  vocabulary is sent back or escalated unless it has fuzzy claims and each has
  passed with citations of records, whatever the verifier answers.
- `GatedDraftsAreComplete` (`GatedIsComplete`): at the human gate a text names
  documents on record only, names each one that the *replay* leaves open, and
  states the replay's balance or, when that is zero, says that nothing is owed.
  `RunnerProofs` has this of claims; here it is of the words.

These three are stated in `AuditProofs`, next to their lemmas. TLC has evaluated
them on the instance of run `drafts`; they are not among its invariants.

The error runs, for every account and not for the fixtures alone:

- `GoldenDraftsVerifyClean` (`GoldenVerifiesClean`): the rendered draft passes in
  every claim, the oracle grounds it, and the gate lets it through unless the
  account is ambiguous. `GoldenIs` lists the sentences a golden draft is made
  of. Each is then read token by token against the detectors: what stands in it
  besides its one figure gives no claim or one that holds (`Harmless`), and its
  figure is bound to its own document in a role its check accepts (`OfDoc`), or to
  nothing and as a total (`OfBalance`). `OpenTells` and `BalanceTells` are the
  results. `NothingMissing` finds every item of the checklist among these claims,
  and `GoldenOracle` grounds the same sentences by the oracle's rules.
- `CorruptionsAreCaught` (`CorruptionIsCaught`): `SwapAmount` and `BreakSum` make
  one sentence of a golden draft wrong (`SwapIsWrong`), one wrong sentence among
  golden ones is sent back (`OneWrongRevises`), a fresh reference escalates as
  above, and an injected sentence holds a phrase that needs citations.

They rest on four further assumptions, each of them necessary or a fact about
text that the prover cannot compute:

- `SpellingAssumption`: tokens have positive length, and no reference or amount is
  spelled like a word of a pattern or of a currency. How a number is written is a computation on
  strings, which the prover does not do; TLC evaluates it for the instance.
- `ReachAssumption`: the windows and the wording of the golden draft fit one
  another. The code has 32 characters back and 24 ahead (`surface.py:443`).
  "applied" lies just out of reach ahead of an unapplied payment's amount: with
  `Ahead` 32 it comes into the window, the amount is taken for the applied one
  and TLC finds `GoldenVerifiesClean` violated. Behind, `Back` 15 violates it as
  well; 31 suffices for every balance and is not necessary, for from 16 on TLC
  finds no violation.
- `CorruptionAssumption`: a figure with two digits exchanged is not another
  figure of its document, and no document has the fresh number behind leading
  zeros. Otherwise the corrupted text is true, or names a document on record:
  the corruption is none. `corrupt.py` takes care of neither.
- `RevisionAssumption`: there is a revision to send a draft back for.

The balance may be below zero. `Unresolved`, what a token that parses to no
figure stands for, is a constant that is no number (`UnresolvedAssumption`), so
that no amount is mistaken for it.

Flattening and sweeping are recursive functions, and `IterationExists` shows
that such a function exists.

Every invariant a passing run checks is stated by a theorem. Model-checked only
are `Terminates`, `Returns` and `Settles`, and with them the liveness part of the
contract: liveness under fairness is beyond the prover.
What `Render`, `Digits` and the other recursive functions on text compute for each
input is induction over data, which no installed prover does; the theorems use
only what the assumptions say of it.

## Findings

1. `required_content`: an empty draft on a net-zero account passes the gate
   (`gate/policy.py:426`), against the README's "required content must actually
   be present".
2. `ingest_overlap`: a decision logged between ingest's read and its line count
   is lost (`memory/ingest.py:165`).
3. `ingest_torn`: a kill while the store is rewritten empties it, and entries
   consumed before do not come back (`memory/store.py:88`).
4. `review_labels`: after a second pass under one label a review can approve a
   draft no gate has seen (`cli.py:194`).
5. `subtotal_twice`: a total beside one invoice named twice becomes a subtotal
   over that invoice twice (`drafting/surface.py:476`).

Divergences met while modelling, stated here without a run of their own:

- Listed amounts need not add up when money is unapplied (`gate/policy.py:371`);
  `src/README.md:54` does not make that exception.
- "an unsupported fuzzy claim is revised exactly once" (`gate/policy.py:14,45`):
  the budget is compared with the index of the revision (`:252`), so one first
  made in a redraft is not revised at all.
- Retrieval ranks the query's own class first (`memory/store.py:152`), which the
  order in the module's docstring (`:14-17`) does not mention.
- A currency word takes the digits beside it before percentages and dates are
  looked for (`drafting/surface.py:96-104,409-415`). "USD 50%" is claimed as $50.00
  and the percentage is dropped; "USD 2026-02-19" and "2026-02-19 dollars" are
  claimed as 2026 and 19 dollars and the date is dropped; "INV-1006 dollars" is a
  reference and 1006 dollars at once; in "500 USD 600" the "USD" is claimed
  once, and the other figure yields no claim. `CaughtIsClaimed` leaves the lost
  figures out by name.
- "INV-1006, originally $500.00, is paid." passes with money open on it: in a sentence
  with a word of decomposition "paid" is never a status claim
  (`drafting/surface.py:563-573`), whatever it says there.
- The cross-check passes over empty drafts but not over their scores
  (`spine/report.py:646-661`), so that after a rerun that wrote nothing it compares
  the verdict on the empty draft with the oracle's on the earlier one.
- "$6,30.00" reads as $6; "payment 2,150.00" and "payment 2026-03-10" read as
  references to payments.
- The branch for several dates in a clause (`drafting/surface.py:540-545`) is
  never reached, and the oracle does not use its `truth` argument.
- The structured store is read for every scenario, the manifest's hash is taken
  once (`runner.py:102`).

## What is not modelled

- Below the token: spelling variants of a reference, month names, amounts
  below zero other than a rendered balance, punctuation inside tokens; a word
  that a window cuts in two is taken as out of it. The object of a fraction may
  begin a longer word in the code; the model has the inflections that
  `FractionObjects` lists.
- Prompts and the wording of corrections, findings and reports.
- Numbers' width: the code uses unbounded integers.
- Two processes appending to the log at the same instant (`spine/events.py:31`),
  and readers that raise on a sealed stump (`spine/events.py:51`): the first
  would need the log's writes at the grain of system calls, the second stops a
  command until a person repairs the file.
- Two passes running at the same time.
- Judges and the pairwise protocol, calibration, the live tiers of the error
  runs, the tables over raw result files: single model calls, floating-point
  statistics or layout; see `PROJECT.json` for each.

## Plan

Done: all modules above.

What is left, in this order:

1. Two writers in `EventLog`, with the tail's inspection and the write as two
   steps; two passes at once.
2. Review and ingest composed over one log: a decision made once is learned
   once.
3. In `Passes`: the number of exemplars of the ablation against the structured
   retrieval's.
4. The pairwise verdict in both orders.
