-------------------------------- MODULE Passes --------------------------------
(***************************************************************************)
(* Passes over a pool (balancecheck/cli.py, cmd_run_pool), the memory they *)
(* record and use (spine/manifest.py, RandomRetrievalStore), and the       *)
(* tables that compare them afterwards (spine/report.py).  One pass runs   *)
(* at a time; it may stop anywhere, killed or by an exhausted client, and  *)
(* be run again under its label.  Ingest runs beside it and may add to the *)
(* store at any moment, whose file a pass reads several times.             *)
(*                                                                         *)
(* Only the events the first-pass tables read are kept: first-pass         *)
(* generations and first-pass scores.  Of a draft it matters whether it is *)
(* empty, which is what a reply without content comes to.  The hash of the *)
(* store in a manifest is represented by the entries it identifies.        *)
(***************************************************************************)
EXTENDS MemoryStore, Sequences, SequencesExt

CONSTANTS
    Pool,          \* the scenarios of the pool, in order: [id, signature, ambiguous]
    Commands,      \* the passes started: [label, retrieval]
    Learned,       \* the entries ingest adds, in order; the first are there already
    Known,         \* how many of them are there at the start
    ExemplarCount, \* exemplars asked for
    MaxPasses      \* bound: passes started

ASSUME PassesAssumption ==
    /\ Commands \subseteq [label : {"pass1", "pass2", "pass2R"},
                            retrieval : {"none", "structured", "random"}]
    /\ Known \in 0..Len(Learned)
    /\ ExemplarCount \in Nat
    /\ MaxPasses \in Nat

\* The foundry asserts that scenario IDs are unique (foundry.py:528).
ASSUME PoolAssumption ==
    \A j, k \in DOMAIN Pool : Pool[j].id = Pool[k].id => j = k

VARIABLES
    store,      \* the entries in the store's file
    added,      \* how many entries of Learned were added
    manifests,  \* run -> [label, retrieval, memory], one per pass registered
    log,        \* first-pass generations and first-pass scores
    command,    \* the pass running, NoCommand when none runs
    hashed,     \* the entries whose hash it took
    population, \* the entries a random pass draws from
    at,         \* the index of its scenario
    pc,         \* where it stands, "idle" when none runs
    exemplars,  \* the exemplars of its scenario
    started     \* passes started

vars == <<store, added, manifests, log, command, hashed, population, at, pc,
          exemplars, started>>

Run == Len(manifests)

NoCommand == [label |-> "", retrieval |-> "none"]

Init ==
    /\ store = FoldLeft(Add, {}, SubSeq(Learned, 1, Known))
    /\ added = Known
    /\ manifests = << >>
    /\ log = << >>
    /\ command = NoCommand
    /\ hashed = {}
    /\ population = {}
    /\ at = 1
    /\ pc = "idle"
    /\ exemplars = {}
    /\ started = 0

\* Ingest adds an entry.
IngestAdds ==
    /\ added < Len(Learned)
    /\ store' = Add(store, Learned[added + 1])
    /\ added' = added + 1
    /\ UNCHANGED <<manifests, log, command, hashed, population, at, pc,
                   exemplars, started>>

(***************************************************************************)
(* Starting a pass                                                         *)
(***************************************************************************)
\* The store's hash is taken, if the pass uses memory at all.
StartPass ==
    /\ pc = "idle"
    /\ started < MaxPasses
    /\ started' = started + 1
    /\ \E c \in Commands :
         /\ command' = c
         /\ hashed' = IF c.retrieval = "none" THEN {} ELSE store
    /\ pc' = "hashed"
    /\ UNCHANGED <<store, added, manifests, log, population, at, exemplars>>

\* A random pass copies the entries, in a second reading of the file; then the
\* manifest is written.
Register ==
    /\ pc = "hashed"
    /\ population' = IF command.retrieval = "random" THEN store ELSE {}
    /\ manifests' = Append(manifests, [label     |-> command.label,
                                       retrieval |-> command.retrieval,
                                       memory    |-> hashed])
    /\ at' = 1
    /\ pc' = "scenario"
    /\ UNCHANGED <<store, added, log, command, hashed, exemplars, started>>

(***************************************************************************)
(* One scenario after the other                                            *)
(***************************************************************************)
Scenario == Pool[at]

Smaller(m, n) == IF m < n THEN m ELSE n

\* Seeded fault: the ablation reads the store's file for every scenario.
Draws_Live ==
    {S \in SUBSET store :
        Cardinality(S) = Smaller(ExemplarCount, Cardinality(store))}

\* What a random draw can return.
Draws ==
    {S \in SUBSET population :
        Cardinality(S) = Smaller(ExemplarCount, Cardinality(population))}

Retrievals ==
    CASE command.retrieval = "none"       -> {{}}
      [] command.retrieval = "structured" ->
           {Retrieve(store, Scenario.signature, ExemplarCount)}
      [] command.retrieval = "random"     -> Draws

Event(kind, draft) ==
    [kind |-> kind, label |-> command.label, scenario |-> Scenario.id,
     run |-> Run, exemplars |-> exemplars, draft |-> draft]

\* An ambiguous account is scored without retrieval or draft.
Abstain ==
    /\ pc = "scenario"
    /\ at \in DOMAIN Pool
    /\ Scenario.ambiguous
    /\ log' = Append(log, Event("score", ""))
    /\ pc' = "scored"
    /\ UNCHANGED <<store, added, manifests, command, hashed, population, at,
                   exemplars, started>>

RetrieveExemplars ==
    /\ pc = "scenario"
    /\ at \in DOMAIN Pool
    /\ ~Scenario.ambiguous
    /\ exemplars' \in Retrievals
    /\ pc' = "retrieved"
    /\ UNCHANGED <<store, added, manifests, log, command, hashed, population, at,
                   started>>

LogGeneration ==
    /\ pc = "retrieved"
    /\ \E draft \in {"", "text"} : log' = Append(log, Event("generation", draft))
    /\ pc' = "drafted"
    /\ UNCHANGED <<store, added, manifests, command, hashed, population, at,
                   exemplars, started>>

LogScore ==
    /\ pc = "drafted"
    /\ log' = Append(log, Event("score", ""))
    /\ pc' = "scored"
    /\ UNCHANGED <<store, added, manifests, command, hashed, population, at,
                   exemplars, started>>

\* What is left of the scenario logs nothing the first-pass tables read.
NextScenario ==
    /\ pc = "scored"
    /\ at' = at + 1
    /\ exemplars' = {}
    /\ pc' = "scenario"
    /\ UNCHANGED <<store, added, manifests, log, command, hashed, population,
                   started>>

\* The process ends; what it held is gone.
Ends ==
    /\ pc' = "idle"
    /\ command' = NoCommand
    /\ hashed' = {}
    /\ population' = {}
    /\ at' = 1
    /\ exemplars' = {}
    /\ UNCHANGED <<store, added, manifests, log, started>>

PassComplete ==
    /\ pc = "scenario"
    /\ at \notin DOMAIN Pool
    /\ Ends

\* The process is killed, or an exhausted client raises through it.
PassStops == pc # "idle" /\ Ends

Next ==
    \/ IngestAdds \/ StartPass \/ Register
    \/ Abstain \/ RetrieveExemplars \/ LogGeneration \/ LogScore
    \/ NextScenario \/ PassComplete \/ PassStops

Spec == Init /\ [][Next]_vars

-----------------------------------------------------------------------------
(***************************************************************************)
(* The tables                                                              *)
(***************************************************************************)
Logged(kind, label, scenario) ==
    {k \in DOMAIN log : /\ log[k].kind = kind
                        /\ log[k].label = label
                        /\ log[k].scenario = scenario}

\* Seeded fault: the first score of a scenario stays in the table.
ScoreShown_First(label, scenario) ==
    log[CHOOSE k \in Logged("score", label, scenario) :
          \A j \in Logged("score", label, scenario) : k <= j]

\* The before/after table: a later score replaces an earlier one.
ScoreShown(label, scenario) ==
    log[CHOOSE k \in Logged("score", label, scenario) :
          \A j \in Logged("score", label, scenario) : j <= k]

\* The directional section: so does a draft.
DraftShown(label, scenario) ==
    log[CHOOSE k \in Logged("generation", label, scenario) :
          \A j \in Logged("generation", label, scenario) : j <= k]

\* The oracle cross-check joins the score with the last draft that has text.
WithText(label, scenario) ==
    {k \in Logged("generation", label, scenario) : log[k].draft # ""}

DraftChecked(label, scenario) ==
    log[CHOOSE k \in WithText(label, scenario) :
          \A j \in WithText(label, scenario) : j <= k]

Labels    == {c.label : c \in Commands}
Scenarios == {Pool[k].id : k \in DOMAIN Pool}

Scored(run, scenario) ==
    \E k \in DOMAIN log : /\ log[k].kind = "score"
                          /\ log[k].run = run
                          /\ log[k].scenario = scenario

(***************************************************************************)
(* Properties                                                              *)
(***************************************************************************)
WroteNothing(run, scenario) ==
    \E k \in DOMAIN log : /\ log[k].kind = "generation"
                          /\ log[k].run = run
                          /\ log[k].scenario = scenario
                          /\ log[k].draft = ""

\* Whatever was stopped and run again, the score that the reports show for a
\* scenario of a pass is that of the last run that scored it, and the draft
\* shown or cross-checked with it is of the same run, unless the run that
\* wrote the draft stopped before it was scored (report.py:121-124, 296-299,
\* 636-661).  One more exception is the cross-check's, which passes over empty
\* drafts but not over their scores: where the run of the score wrote nothing,
\* an earlier run's draft is held against it.
TablesTellOneRun ==
    \A label \in Labels, scenario \in Scenarios :
        Logged("score", label, scenario) # {} =>
          LET scored == ScoreShown(label, scenario).run
          IN  /\ \A k \in Logged("score", label, scenario) : log[k].run <= scored
              /\ Logged("generation", label, scenario) # {} =>
                   LET drafted == DraftShown(label, scenario).run
                   IN  scored = drafted \/ ~Scored(drafted, scenario)
              /\ WithText(label, scenario) # {} =>
                   LET checked == DraftChecked(label, scenario).run
                   IN  \/ scored = checked
                       \/ ~Scored(checked, scenario)
                       \/ WroteNothing(scored, scenario)

\* The ablation is about the memory its manifest names: a random pass draws
\* the same number of exemplars for every scenario, and none that the
\* manifest's hash does not cover, however much ingest adds while it runs.
\* The exception is what ingest adds between the two readings of the file at
\* the start of the pass (cli.py:81-94, 158-168).
AblationDrawsFromRecorded ==
    /\ pc \notin {"idle", "hashed"} /\ command.retrieval = "random"
         /\ population = manifests[Run].memory =>
           \A k \in DOMAIN log :
             log[k].run = Run /\ log[k].kind = "generation" =>
               /\ log[k].exemplars \subseteq manifests[Run].memory
               /\ Cardinality(log[k].exemplars)
                    = Smaller(ExemplarCount, Cardinality(manifests[Run].memory))

=============================================================================
