----------------------------- MODULE PassesProofs -----------------------------
(***************************************************************************)
(* Theorems about passes and the tables that compare them, for every pool, *)
(* every sequence of passes and every memory, whatever is stopped where    *)
(* and whatever ingest adds meanwhile.                                     *)
(***************************************************************************)
EXTENDS Passes, WellFoundedInduction, TLAPS

Running == pc \notin {"idle", "hashed"}

\* Where a pass stands, and the manifest it goes by.
Standing ==
    /\ \E S : manifests \in Seq(S)
    /\ \E S : log \in Seq(S)
    /\ Running => /\ Run \in DOMAIN manifests
                  /\ manifests[Run].label = command.label
    /\ pc \in {"retrieved", "drafted"} => at \in DOMAIN Pool /\ ~Scenario.ambiguous

\* Runs follow one another in the log, each under the label of its manifest.
LogInOrder ==
    /\ \A k \in DOMAIN log : /\ log[k].run \in DOMAIN manifests
                             /\ log[k].label = manifests[log[k].run].label
    /\ \A j, k \in DOMAIN log : j <= k => log[j].run <= log[k].run

Unclear(scenario) == \E p \in DOMAIN Pool : Pool[p].id = scenario /\ Pool[p].ambiguous
Clear(scenario)   == \E p \in DOMAIN Pool : Pool[p].id = scenario /\ ~Pool[p].ambiguous

DraftedBy(run, scenario, k) ==
    log[k].kind = "generation" /\ log[k].run = run /\ log[k].scenario = scenario

\* A score is of a draft of its own run, or of an abstention.
ScoresHaveDrafts ==
    /\ \A k \in DOMAIN log :
         /\ log[k].kind = "generation" => Clear(log[k].scenario)
         /\ log[k].kind = "score" =>
              \/ Unclear(log[k].scenario)
              \/ \E j \in DOMAIN log : j < k /\ DraftedBy(log[k].run, log[k].scenario, j)
    /\ pc = "drafted" => \E j \in DOMAIN log : DraftedBy(Run, Scenario.id, j)

\* What a random pass shows its drafter comes from its population.
DrawnFromPopulation ==
    Running /\ command.retrieval = "random" =>
        /\ \A k \in DOMAIN log :
             log[k].run = Run /\ log[k].kind = "generation" => log[k].exemplars \in Draws
        /\ pc = "retrieved" => exemplars \in Draws

IInv ==
    /\ Standing
    /\ LogInOrder
    /\ ScoresHaveDrafts
    /\ DrawnFromPopulation

-----------------------------------------------------------------------------
LEMMA Grows ==
    ASSUME NEW s, \E S : s \in Seq(S), NEW e, NEW t, t = Append(s, e)
    PROVE  /\ \E S : t \in Seq(S)
           /\ Len(s) \in Nat /\ DOMAIN s = 1..Len(s)
           /\ \E n \in Nat : /\ n = Len(t) /\ n \notin DOMAIN s
                             /\ DOMAIN t = DOMAIN s \cup {n}
                             /\ \A k \in DOMAIN s : t[k] = s[k] /\ k \in Nat /\ k < n
                             /\ t[n] = e
<1>1. PICK S : s \in Seq(S)
  OBVIOUS
<1> DEFINE U == S \cup {e}
<1>2. s \in Seq(U) /\ e \in U
  BY <1>1
<1> HIDE DEF U
<1>3. PICK m \in Nat : m = Len(s)
  BY <1>2
<1>4. t \in Seq(U) /\ Len(t) = m + 1 /\ (\A k \in 1..m : t[k] = s[k]) /\ t[m + 1] = e
  BY <1>2, <1>3
<1>5. DOMAIN s = 1..m /\ DOMAIN t = 1..(m + 1)
  BY <1>2, <1>3, <1>4
<1>6. PICK n \in Nat : n = m + 1
  BY <1>3
<1>7. n \notin 1..m /\ 1..n = (1..m) \cup {n} /\ \A k \in 1..m : k \in Nat /\ k < n
  BY <1>3, <1>6
<1> QED BY <1>3, <1>4, <1>5, <1>6, <1>7

LEMMA LeastOfNaturals ==
    ASSUME NEW N \in SUBSET Nat, N # {}
    PROVE  \E n \in N : \A m \in N : n <= m
<1>1. PICK n \in N : \A m \in N : <<m, n>> \notin OpToRel(<, Nat)
  BY NatLessThanWellFounded, WFMin
<1>2. \A m \in N : <<m, n>> \in OpToRel(<, Nat) <=> m < n
  BY DEF OpToRel
<1>3. \A m \in N : ~(m < n)
  BY <1>1, <1>2
<1> QED BY <1>3

\* Some lines of the log have a last one among them.
LEMMA LastLine ==
    ASSUME \E S : log \in Seq(S), NEW L \in SUBSET DOMAIN log, L # {}
    PROVE  \E k \in L : \A j \in L : j <= k
<1>1. PICK n \in Nat : DOMAIN log = 1..n
  <2>1. PICK S : log \in Seq(S)
    OBVIOUS
  <2> QED BY <2>1
<1> DEFINE N == {n - k : k \in L}
<1>2. N \in SUBSET Nat /\ N # {}
  BY <1>1
<1>3. PICK m \in N : \A i \in N : m <= i
  BY <1>2, LeastOfNaturals
<1>4. PICK k \in L : m = n - k
  BY <1>3
<1>5. ASSUME NEW j \in L PROVE j <= k
  <2>1. n - k <= n - j
    BY <1>3, <1>4
  <2> QED BY <1>1, <2>1
<1> QED BY <1>5

-----------------------------------------------------------------------------
(***************************************************************************)
(* Steps that leave log and manifests alone                                *)
(***************************************************************************)
LEMMA SameLog ==
    ASSUME IInv, UNCHANGED <<log, manifests>>, pc' # "drafted" \/ UNCHANGED <<pc, at>>
    PROVE  LogInOrder' /\ ScoresHaveDrafts'
<1>1. LogInOrder'
  BY DEF IInv, LogInOrder
<1>2. ScoresHaveDrafts'
  BY DEF IInv, ScoresHaveDrafts, DraftedBy, Clear, Unclear, Scenario, Run
<1> QED BY <1>1, <1>2

LEMMA QuietKeeps ==
    ASSUME IInv,
           IngestAdds \/ StartPass \/ RetrieveExemplars \/ NextScenario \/ PassComplete
             \/ PassStops \/ UNCHANGED vars
    PROVE  IInv'
<1>1. UNCHANGED <<log, manifests>> /\ (pc' # "drafted" \/ UNCHANGED <<pc, at>>)
  BY DEF IngestAdds, StartPass, RetrieveExemplars, NextScenario, PassComplete, PassStops, Ends, vars
<1>2. LogInOrder' /\ ScoresHaveDrafts'
  BY <1>1, SameLog
<1>3. CASE IngestAdds \/ UNCHANGED vars
  <2>1. UNCHANGED <<manifests, log, command, population, at, pc, exemplars>>
    BY <1>3 DEF IngestAdds, vars
  <2>2. Standing'
    BY <2>1 DEF IInv, Standing, Running, Run, Scenario
  <2>3. DrawnFromPopulation'
    BY <2>1 DEF IInv, DrawnFromPopulation, Running, Run, Draws
  <2> QED BY <1>2, <2>2, <2>3 DEF IInv
<1>4. CASE StartPass \/ PassComplete \/ PassStops
  <2>1. ~Running' /\ pc' \notin {"retrieved", "drafted"}
    BY <1>4 DEF StartPass, PassComplete, PassStops, Ends, Running
  <2>2. Standing'
    BY <1>1, <2>1 DEF IInv, Standing
  <2>3. DrawnFromPopulation'
    BY <2>1 DEF DrawnFromPopulation
  <2> QED BY <1>2, <2>2, <2>3 DEF IInv
<1>5. CASE RetrieveExemplars
  <2>1. /\ pc = "scenario" /\ pc' = "retrieved" /\ Running /\ Running'
        /\ at \in DOMAIN Pool /\ ~Scenario.ambiguous /\ exemplars' \in Retrievals
        /\ UNCHANGED <<manifests, log, command, population, at>>
    BY <1>5 DEF RetrieveExemplars, Running
  <2>2. Standing'
    BY <2>1 DEF IInv, Standing, Run, Scenario
  <2>3. command.retrieval = "random" => Retrievals = Draws
    BY DEF Retrievals
  <2>4. Draws' = Draws /\ Run' = Run
    BY <2>1 DEF Draws, Run
  <2>5. DrawnFromPopulation'
    BY <2>1, <2>3, <2>4 DEF IInv, DrawnFromPopulation
  <2> QED BY <1>2, <2>2, <2>5 DEF IInv
<1>6. CASE NextScenario
  <2>1. /\ pc' = "scenario" /\ Running /\ Running'
        /\ UNCHANGED <<manifests, log, command, population>>
    BY <1>6 DEF NextScenario, Running
  <2>2. Standing'
    BY <2>1 DEF IInv, Standing, Run
  <2>3. Draws' = Draws /\ Run' = Run
    BY <2>1 DEF Draws, Run
  <2>4. DrawnFromPopulation'
    BY <2>1, <2>3 DEF IInv, DrawnFromPopulation
  <2> QED BY <1>2, <2>2, <2>4 DEF IInv
<1> QED BY <1>3, <1>4, <1>5, <1>6

\* A new run is later than every run in the log.
LEMMA RegisterKeeps == IInv /\ Register => IInv'
<1> SUFFICES ASSUME IInv, Register PROVE IInv'
  OBVIOUS
<1> DEFINE m == [label |-> command.label, retrieval |-> command.retrieval, memory |-> hashed]
<1>1. /\ manifests' = Append(manifests, m) /\ m.label = command.label
      /\ pc' = "scenario" /\ Running' /\ UNCHANGED <<log, command>>
  BY DEF Register, Running
<1> HIDE DEF m
<1>2. PICK n \in Nat : /\ \E S : manifests' \in Seq(S)
                       /\ n = Len(manifests') /\ n \notin DOMAIN manifests
                       /\ DOMAIN manifests' = DOMAIN manifests \cup {n}
                       /\ \A k \in DOMAIN manifests : manifests'[k] = manifests[k]
                       /\ manifests'[n] = m
  <2>1. \E S : manifests \in Seq(S)
    BY DEF IInv, Standing
  <2>2. manifests' = Append(manifests, m)
    BY <1>1
  <2> QED BY ONLY <2>1, <2>2, Grows
<1>3. Standing'
  BY <1>1, <1>2 DEF IInv, Standing, Run
<1>4. LogInOrder'
  BY <1>1, <1>2 DEF IInv, LogInOrder
<1>5. ScoresHaveDrafts'
  BY <1>1 DEF IInv, ScoresHaveDrafts, DraftedBy, Clear, Unclear
<1>6. DrawnFromPopulation'
  <2>1. Run' = n
    BY <1>2 DEF Run
  <2>2. \A k \in DOMAIN log : log[k].run # n
    BY <1>2 DEF IInv, LogInOrder
  <2> QED BY <1>1, <2>1, <2>2 DEF DrawnFromPopulation
<1> QED BY <1>3, <1>4, <1>5, <1>6 DEF IInv

-----------------------------------------------------------------------------
(***************************************************************************)
(* Steps that log an event of the run                                      *)
(***************************************************************************)
LEMMA LoggedKeeps ==
    ASSUME IInv, Running, NEW kind \in {"generation", "score"}, NEW draft,
           log' = Append(log, Event(kind, draft)),
           UNCHANGED <<manifests, command, population, at, exemplars>>,
           at \in DOMAIN Pool,
           \/ kind = "generation" /\ pc = "retrieved" /\ pc' = "drafted"
           \/ kind = "score" /\ pc = "drafted" /\ pc' = "scored"
           \/ kind = "score" /\ Scenario.ambiguous /\ pc' = "scored"
    PROVE  IInv'
<1> DEFINE e == Event(kind, draft)
<1>1. /\ e.kind = kind /\ e.label = command.label /\ e.scenario = Scenario.id
      /\ e.run = Run /\ e.exemplars = exemplars
  BY DEF Event
<1>2. log' = Append(log, e) /\ Running'
  BY DEF Running
<1> HIDE DEF e
<1>3. PICK n \in Nat : /\ \E S : log' \in Seq(S)
                       /\ n = Len(log') /\ n \notin DOMAIN log
                       /\ DOMAIN log' = DOMAIN log \cup {n}
                       /\ \A k \in DOMAIN log : log'[k] = log[k] /\ k \in Nat /\ k < n
                       /\ log'[n] = e
  <2>1. \E S : log \in Seq(S)
    BY DEF IInv, Standing
  <2> QED BY ONLY <1>2, <2>1, Grows
<1>4. /\ Run' = Run /\ Scenario' = Scenario /\ Draws' = Draws
      /\ Run \in DOMAIN manifests /\ Run \in Nat /\ manifests[Run].label = command.label
  <2>1. PICK S : manifests \in Seq(S)
    BY DEF IInv, Standing
  <2>2. Len(manifests) \in Nat
    BY <2>1
  <2> QED BY <2>2 DEF IInv, Standing, Run, Scenario, Draws
<1>5. \A k \in DOMAIN manifests : k \in Nat /\ k <= Run
  <2>1. PICK S : manifests \in Seq(S)
    BY DEF IInv, Standing
  <2> QED BY <2>1 DEF Run
<1>6. Standing'
  BY <1>3, <1>4 DEF IInv, Standing, Running
<1>7. LogInOrder'
  <2>1. \A k \in DOMAIN log' : /\ log'[k].run \in DOMAIN manifests
                               /\ log'[k].label = manifests[log'[k].run].label
    BY <1>1, <1>3, <1>4 DEF IInv, LogInOrder
  <2>2. ASSUME NEW j \in DOMAIN log', NEW k \in DOMAIN log', j <= k
        PROVE  log'[j].run <= log'[k].run
    <3>1. CASE k = n
      BY <1>1, <1>3, <1>5, <2>1, <3>1
    <3>2. CASE k \in DOMAIN log /\ j \in DOMAIN log
      BY <1>3, <2>2, <3>2 DEF IInv, LogInOrder
    <3>3. CASE k \in DOMAIN log /\ j = n
      <4>1. k < n /\ k \in Nat /\ n <= k
        BY <1>3, <2>2, <3>3
      <4> QED BY <4>1
    <3> QED BY <1>3, <3>1, <3>2, <3>3
  <2> QED BY <2>1, <2>2 DEF LogInOrder
<1>8. ScoresHaveDrafts'
  <2>2. kind = "generation" => Clear(Scenario.id)
    BY DEF IInv, Standing, Clear, Scenario
  <2>3. kind = "score" => \/ Unclear(Scenario.id)
                          \/ \E j \in DOMAIN log : DraftedBy(Run, Scenario.id, j)
    BY DEF IInv, ScoresHaveDrafts, Unclear, Scenario
  <2>4. ASSUME NEW k \in DOMAIN log'
        PROVE  /\ log'[k].kind = "generation" => Clear(log'[k].scenario)
               /\ log'[k].kind = "score" =>
                    \/ Unclear(log'[k].scenario)
                    \/ \E j \in DOMAIN log' :
                         /\ j < k /\ log'[j].kind = "generation"
                         /\ log'[j].run = log'[k].run /\ log'[j].scenario = log'[k].scenario
    <3>1. CASE k = n
      <4>1. log'[k].kind = kind /\ log'[k].scenario = Scenario.id /\ log'[k].run = Run
        BY <1>1, <1>3, <3>1
      <4>2. ASSUME NEW j \in DOMAIN log, DraftedBy(Run, Scenario.id, j)
            PROVE  /\ j < k /\ log'[j].kind = "generation"
                   /\ log'[j].run = log'[k].run /\ log'[j].scenario = log'[k].scenario
        BY <1>3, <3>1, <4>1, <4>2 DEF DraftedBy
      <4> QED BY <1>3, <2>2, <2>3, <4>1, <4>2
    <3>2. CASE k \in DOMAIN log
      <4>1. log'[k] = log[k]
        BY <1>3, <3>2
      <4>2. ASSUME NEW j \in DOMAIN log, DraftedBy(log[k].run, log[k].scenario, j)
            PROVE  /\ log'[j].kind = "generation"
                   /\ log'[j].run = log'[k].run /\ log'[j].scenario = log'[k].scenario
        BY <1>3, <4>1, <4>2 DEF DraftedBy
      <4> QED BY <1>3, <3>2, <4>1, <4>2 DEF IInv, ScoresHaveDrafts
    <3> QED BY <1>3, <3>1, <3>2
  <2>5. pc' = "drafted" => DraftedBy(Run, Scenario.id, n)'
    BY <1>1, <1>3, <1>4 DEF DraftedBy
  <2> QED BY <1>3, <2>4, <2>5 DEF ScoresHaveDrafts, DraftedBy, Clear, Unclear
<1>9. DrawnFromPopulation'
  <2>1. Running /\ (kind = "generation" => pc = "retrieved") /\ pc' # "retrieved"
    OBVIOUS
  <2> QED BY <1>1, <1>3, <1>4, <2>1 DEF IInv, DrawnFromPopulation
<1> QED BY <1>6, <1>7, <1>8, <1>9 DEF IInv

LEMMA EventsKeep == IInv /\ (Abstain \/ LogGeneration \/ LogScore) => IInv'
<1> SUFFICES ASSUME IInv, Abstain \/ LogGeneration \/ LogScore PROVE IInv'
  OBVIOUS
<1>1. CASE Abstain
  BY <1>1, LoggedKeeps DEF Abstain, Running
<1>2. CASE LogGeneration
  BY <1>2, LoggedKeeps DEF LogGeneration, Running, IInv, Standing
<1>3. CASE LogScore
  BY <1>3, LoggedKeeps DEF LogScore, Running, IInv, Standing
<1> QED BY <1>1, <1>2, <1>3

\* The order of the log, and what its scores are of, hold whatever is stopped
\* and started again.
THEOREM PassesInvariant == Spec => []IInv
<1>1. Init => IInv
  <2> SUFFICES ASSUME Init PROVE IInv
    OBVIOUS
  <2>1. log \in Seq({}) /\ manifests \in Seq({}) /\ DOMAIN log = {}
    BY DEF Init
  <2>2. Standing
    BY <2>1 DEF Init, Standing, Running
  <2> QED BY <2>1, <2>2 DEF Init, IInv, LogInOrder, ScoresHaveDrafts, DrawnFromPopulation, Running
<1>2. IInv /\ [Next]_vars => IInv'
  BY QuietKeeps, RegisterKeeps, EventsKeep DEF Next
<1> QED BY <1>1, <1>2, PTL DEF Spec

\* The line a table shows is the last of those it looks at.
LEMMA LastOf ==
    ASSUME Standing, NEW K \in SUBSET DOMAIN log, K # {}
    PROVE  /\ (CHOOSE k \in K : \A j \in K : j <= k) \in K
           /\ \A j \in K : j <= (CHOOSE k \in K : \A i \in K : i <= k)
<1>1. \E S : log \in Seq(S)
  BY DEF Standing
<1>2. \E k \in K : \A j \in K : j <= k
  BY ONLY <1>1, K # {}, LastLine
<1> QED BY ONLY <1>2

\* The runs of a pass that drafted a scenario are those that scored it, in
\* the same order.
LEMMA DraftOfScore ==
    ASSUME IInv, NEW label, NEW scenario, NEW s \in Logged("score", label, scenario),
           Logged("generation", label, scenario) # {}
    PROVE  \E j \in Logged("generation", label, scenario) : log[j].run = log[s].run
<1>1. s \in DOMAIN log /\ log[s].kind = "score" /\ log[s].label = label /\ log[s].scenario = scenario
  BY DEF Logged
<1>2. PICK g \in DOMAIN log : log[g].kind = "generation" /\ log[g].scenario = scenario
  BY DEF Logged
<1>3. ~Unclear(scenario)
  BY <1>2, PoolAssumption DEF IInv, ScoresHaveDrafts, Clear, Unclear
<1>4. PICK j \in DOMAIN log : DraftedBy(log[s].run, scenario, j)
  BY <1>1, <1>3 DEF IInv, ScoresHaveDrafts
<1>5. log[j].label = label
  BY <1>1, <1>4 DEF IInv, LogInOrder, DraftedBy
<1> QED BY <1>4, <1>5 DEF DraftedBy, Logged

\* A run of the pass that scored the scenario is none after the score shown.
LEMMA ScoredBefore ==
    ASSUME IInv, NEW label, NEW scenario, NEW s \in Logged("score", label, scenario),
           \A k \in Logged("score", label, scenario) : k <= s,
           NEW g \in Logged("generation", label, scenario), Scored(log[g].run, scenario)
    PROVE  /\ log[g].run <= log[s].run
           /\ log[g].run \in Nat /\ log[s].run \in Nat
<1>1. /\ g \in DOMAIN log /\ log[g].label = label
      /\ s \in DOMAIN log
  BY DEF Logged
<1>2. PICK k \in DOMAIN log : /\ log[k].kind = "score" /\ log[k].run = log[g].run
                              /\ log[k].scenario = scenario
  BY DEF Scored
<1>3. log[k].label = label
  BY <1>1, <1>2 DEF IInv, LogInOrder
<1>4. k <= s
  BY <1>2, <1>3 DEF Logged
<1>5. log[k].run <= log[s].run
  BY <1>1, <1>4 DEF IInv, LogInOrder
<1>6. DOMAIN manifests \subseteq Nat
  <2>1. PICK S : manifests \in Seq(S)
    BY DEF IInv, Standing
  <2> QED BY <2>1
<1>7. log[s].run \in Nat /\ log[g].run \in Nat
  BY <1>1, <1>6 DEF IInv, LogInOrder
<1> QED BY <1>2, <1>5, <1>7

LEMMA InvariantTables == IInv => TablesTellOneRun
<1> SUFFICES ASSUME IInv, NEW label \in Labels, NEW scenario \in Scenarios,
                    Logged("score", label, scenario) # {}
             PROVE  /\ \A k \in Logged("score", label, scenario) :
                         log[k].run <= ScoreShown(label, scenario).run
                    /\ Logged("generation", label, scenario) # {} =>
                         \/ ScoreShown(label, scenario).run = DraftShown(label, scenario).run
                         \/ ~Scored(DraftShown(label, scenario).run, scenario)
                    /\ WithText(label, scenario) # {} =>
                         \/ ScoreShown(label, scenario).run = DraftChecked(label, scenario).run
                         \/ ~Scored(DraftChecked(label, scenario).run, scenario)
                         \/ WroteNothing(ScoreShown(label, scenario).run, scenario)
  BY DEF TablesTellOneRun
<1>1. PICK s \in Logged("score", label, scenario) :
        /\ ScoreShown(label, scenario) = log[s]
        /\ \A j \in Logged("score", label, scenario) : j <= s
  <2>1. Logged("score", label, scenario) \in SUBSET DOMAIN log
    BY DEF Logged
  <2> QED BY <2>1, LastOf DEF IInv, ScoreShown
<1>2. s \in DOMAIN log /\ log[s].kind = "score" /\ log[s].label = label /\ log[s].scenario = scenario
  BY DEF Logged
<1>3. \A k \in Logged("score", label, scenario) : log[k].run <= log[s].run
  BY <1>1, <1>2 DEF IInv, LogInOrder, Logged
<1>4. ASSUME Logged("generation", label, scenario) # {},
             Scored(DraftShown(label, scenario).run, scenario)
      PROVE  log[s].run = DraftShown(label, scenario).run
  <2>1. PICK g \in Logged("generation", label, scenario) :
          /\ DraftShown(label, scenario) = log[g]
          /\ \A j \in Logged("generation", label, scenario) : j <= g
    <3>1. Logged("generation", label, scenario) \in SUBSET DOMAIN log
      BY DEF Logged
    <3> QED BY <1>4, <3>1, LastOf DEF IInv, DraftShown
  <2>2. log[g].run <= log[s].run /\ log[s].run \in Nat /\ log[g].run \in Nat
    BY <1>1, <1>4, <2>1, ScoredBefore
  <2>3. PICK j \in Logged("generation", label, scenario) : log[j].run = log[s].run
    BY <1>4, DraftOfScore
  <2>4. j <= g
    BY <2>1
  <2>5. log[s].run <= log[g].run
    BY <2>3, <2>4 DEF IInv, LogInOrder, Logged
  <2> QED BY <2>1, <2>2, <2>5
<1>5. ASSUME WithText(label, scenario) # {},
             Scored(DraftChecked(label, scenario).run, scenario),
             ~WroteNothing(log[s].run, scenario)
      PROVE  log[s].run = DraftChecked(label, scenario).run
  <2>1. PICK g \in WithText(label, scenario) :
          /\ DraftChecked(label, scenario) = log[g]
          /\ \A j \in WithText(label, scenario) : j <= g
    <3>1. WithText(label, scenario) \in SUBSET DOMAIN log
      BY DEF WithText, Logged
    <3> QED BY <1>5, <3>1, LastOf DEF IInv, DraftChecked
  <2>2. g \in Logged("generation", label, scenario)
    BY DEF WithText
  <2>3. log[g].run <= log[s].run /\ log[s].run \in Nat /\ log[g].run \in Nat
    BY <1>1, <1>5, <2>1, <2>2, ScoredBefore
  <2>4. PICK j \in Logged("generation", label, scenario) : log[j].run = log[s].run
    BY <2>2, DraftOfScore
  <2>5. j \in WithText(label, scenario)
    BY <1>5, <2>4 DEF WroteNothing, WithText, Logged
  <2>6. j <= g
    BY <2>1, <2>5
  <2>7. log[s].run <= log[g].run
    BY <2>2, <2>4, <2>6 DEF IInv, LogInOrder, Logged
  <2> QED BY <2>1, <2>3, <2>7
<1> QED BY <1>1, <1>3, <1>4, <1>5

\* Whatever is stopped and run again, the score and the draft that the reports
\* show together come from one run, unless the run of the draft stopped before
\* its score, or the draft is cross-checked for a later one that came back
\* empty (report.py:121-124, 296-299, 636-661).
THEOREM ReportsTellOneRun == Spec => []TablesTellOneRun
BY PassesInvariant, InvariantTables, PTL

\* However much ingest adds while a random pass runs, it draws what its
\* manifest names, unless the store changed between the two readings at its
\* start (cli.py:81-94, 158-168).
THEOREM AblationIsFair == Spec => []AblationDrawsFromRecorded
<1>1. IInv => AblationDrawsFromRecorded
  BY DEF IInv, DrawnFromPopulation, Running, Draws, AblationDrawsFromRecorded
<1> QED BY PassesInvariant, <1>1, PTL

=============================================================================
