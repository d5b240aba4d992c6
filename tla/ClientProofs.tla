----------------------------- MODULE ClientProofs -----------------------------
(***************************************************************************)
(* Theorems about the model client and the event log it traces to, for     *)
(* every number of attempts, lines and restarts.                           *)
(*                                                                         *)
(* Filed relates the file to the appends that returned and to the kills;   *)
(* Traced says which traces are in it for the run and the call under way,  *)
(* and what the earlier calls left.                                        *)
(***************************************************************************)
EXTENDS ModelClient, FiniteSetTheorems, SequenceTheorems, TLAPS

-----------------------------------------------------------------------------
(***************************************************************************)
(* The file                                                                *)
(***************************************************************************)
What  == Traces \cup {[kind |-> "other"], Stump}
Lines == [what : What, ended : BOOLEAN]

Filed ==
    /\ file \in Seq(Lines)
    /\ \A k \in 1..Len(file) : file[k].ended \/ k = Len(file)

\* What sealing and writing leave of the lines there were.
Grown(f) ==
    /\ f \in Seq(Lines)
    /\ \A k \in 1..Len(f) : f[k].ended \/ k = Len(f)
    /\ \A k \in 1..Len(file) :
         /\ f[k].what = file[k].what
         /\ file[k].ended => f[k] = file[k]

LEMMA FrontFacts ==
    ASSUME NEW S, NEW s \in Seq(S), s # << >>
    PROVE  /\ Len(s) \in Nat \ {0}
           /\ Front(s) \in Seq(S)
           /\ Len(Front(s)) = Len(s) - 1
           /\ \A k \in 1..(Len(s) - 1) : Front(s)[k] = s[k]
           /\ Last(s) = s[Len(s)] /\ Last(s) \in S
<1>1. PICK n \in Nat : n = Len(s) - 1
  OBVIOUS
<1>2. \A k \in 1..n : k \in 1..Len(s) /\ s[k] \in S
  BY <1>1
<1>3. /\ SubSeq(s, 1, n) \in Seq(S) /\ Len(SubSeq(s, 1, n)) = n
      /\ \A k \in 1..n : SubSeq(s, 1, n)[k] = s[k]
  <2>1. /\ SubSeq(s, 1, n) \in Seq(S)
        /\ Len(SubSeq(s, 1, n)) = IF 1 <= n THEN n - 1 + 1 ELSE 0
        /\ \A k \in 1..(n - 1 + 1) : SubSeq(s, 1, n)[k] = s[1 + k - 1]
    BY <1>2, SubSeqProperties
  <2> QED BY <2>1
<1>4. Len(s) \in 1..Len(s) /\ s[Len(s)] \in S
  BY <1>1
<1> QED BY <1>1, <1>3, <1>4 DEF Front, Last

LEMMA AppendFacts ==
    ASSUME NEW S, NEW s \in Seq(S), NEW e \in S
    PROVE  /\ Append(s, e) \in Seq(S)
           /\ Len(s) \in Nat
           /\ Len(Append(s, e)) = Len(s) + 1
           /\ \A k \in 1..Len(s) : Append(s, e)[k] = s[k]
           /\ Append(s, e)[Len(s) + 1] = e
OBVIOUS

\* Sealing changes no text, and leaves every line ended.
LEMMA SealFacts ==
    ASSUME Filed
    PROVE  /\ Seal(file) \in Seq(Lines)
           /\ Len(file) \in Nat
           /\ Len(Seal(file)) = Len(file)
           /\ \A k \in 1..Len(file) : /\ Seal(file)[k].what = file[k].what
                                      /\ Seal(file)[k].ended
                                      /\ file[k].ended => Seal(file)[k] = file[k]
<1>1. file \in Seq(Lines) /\ Len(file) \in Nat
  BY DEF Filed
<1>2. CASE TornTail(file)
  <2> DEFINE w == Last(file).what
             f == Front(file)
  <2>1. /\ file # << >> /\ ~Last(file).ended
    BY <1>2 DEF TornTail
  <2>2. /\ Len(file) \in Nat \ {0} /\ f \in Seq(Lines) /\ Len(f) = Len(file) - 1
        /\ \A k \in 1..(Len(file) - 1) : f[k] = file[k]
        /\ Last(file) = file[Len(file)] /\ Last(file) \in Lines
    BY <1>1, <2>1, FrontFacts
  <2>3. Line(w) \in Lines /\ Line(w).what = w /\ Line(w).ended
    BY <2>2 DEF Lines, Line
  <2>4. Seal(file) = Append(f, Line(w))
    BY <1>2 DEF Seal
  <2>5. /\ Append(f, Line(w)) \in Seq(Lines)
        /\ Len(Append(f, Line(w))) = Len(f) + 1
        /\ \A k \in 1..Len(f) : Append(f, Line(w))[k] = f[k]
        /\ Append(f, Line(w))[Len(f) + 1] = Line(w)
    BY <2>2, <2>3, AppendFacts
  <2>6. \A k \in 1..Len(file) : k \in 1..(Len(file) - 1) \/ k = Len(file)
    BY <2>2
  <2> HIDE DEF f, w
  <2>7. ASSUME NEW k \in 1..(Len(file) - 1)
        PROVE  Seal(file)[k] = file[k] /\ file[k].ended
    BY <2>2, <2>4, <2>5, <2>7 DEF Filed
  <2>8. Seal(file)[Len(file)] = Line(w)
    BY <2>2, <2>4, <2>5
  <2> QED BY <1>1, <2>1, <2>2, <2>3, <2>4, <2>5, <2>6, <2>7, <2>8 DEF w
<1>3. CASE ~TornTail(file)
  <2>1. Seal(file) = file
    BY <1>3 DEF Seal
  <2>2. \A k \in 1..Len(file) : file[k].ended
    <3>1. CASE file = << >>
      BY <3>1
    <3>2. CASE file # << >>
      BY <1>1, <1>3, <3>2 DEF TornTail, Last, Filed
    <3> QED BY <3>1, <3>2
  <2> QED BY <1>1, <2>1, <2>2
<1> QED BY <1>2, <1>3

\* A line added after sealing.
LEMMA AddedFacts ==
    ASSUME Filed, NEW w \in What, NEW b \in BOOLEAN
    PROVE  LET f == Append(Seal(file), [what |-> w, ended |-> b])
           IN  /\ Grown(f) /\ Len(f) = Len(file) + 1
               /\ f[Len(file) + 1] = [what |-> w, ended |-> b]
<1> DEFINE line == [what |-> w, ended |-> b]
           f == Append(Seal(file), line)
<1>1. line \in Lines
  BY DEF Lines
<1>2. /\ f \in Seq(Lines) /\ Len(f) = Len(Seal(file)) + 1
      /\ \A k \in 1..Len(Seal(file)) : f[k] = Seal(file)[k]
      /\ f[Len(Seal(file)) + 1] = line
  BY <1>1, SealFacts, AppendFacts
<1> HIDE DEF f
<1>3. \A k \in 1..Len(f) : k \in 1..Len(file) \/ k = Len(f)
  BY <1>2, SealFacts
<1>4. Grown(f)
  BY <1>2, <1>3, SealFacts DEF Grown
<1> QED BY <1>2, <1>4, SealFacts DEF f

\* The file after an append, and after one cut short.
LEMMA AppendedFacts ==
    ASSUME Filed, NEW w \in What
    PROVE  /\ Grown(Appended(file, w)) /\ Len(Appended(file, w)) = Len(file) + 1
           /\ Appended(file, w)[Len(file) + 1] = Line(w)
BY AddedFacts DEF Appended, Line

LEMMA CutShortFacts ==
    ASSUME Filed, NEW w \in What, NEW f \in CutShort(file, w)
    PROVE  /\ Grown(f)
           /\ \/ Len(f) = Len(file)
              \/ Len(f) = Len(file) + 1 /\ f[Len(file) + 1].what \in {Stump, w}
<1>1. CASE f = file
  BY <1>1 DEF Grown, Filed
<1>2. CASE f = Seal(file)
  BY <1>2, SealFacts DEF Grown
<1>3. CASE f = Append(Seal(file), Unended(Stump))
  <2>1. Stump \in What /\ FALSE \in BOOLEAN /\ f = Append(Seal(file), [what |-> Stump, ended |-> FALSE])
    BY <1>3 DEF Unended, What
  <2>2. /\ Grown(f) /\ Len(f) = Len(file) + 1
        /\ f[Len(file) + 1] = [what |-> Stump, ended |-> FALSE]
    BY <2>1, AddedFacts
  <2> QED BY <2>2
<1>4. CASE f = Append(Seal(file), Unended(w))
  <2>1. FALSE \in BOOLEAN /\ f = Append(Seal(file), [what |-> w, ended |-> FALSE])
    BY <1>4 DEF Unended
  <2>2. /\ Grown(f) /\ Len(f) = Len(file) + 1
        /\ f[Len(file) + 1] = [what |-> w, ended |-> FALSE]
    BY <2>1, AddedFacts
  <2> QED BY <2>2
<1> QED BY <1>1, <1>2, <1>3, <1>4 DEF CutShort

-----------------------------------------------------------------------------
(***************************************************************************)
(* The invariant                                                           *)
(***************************************************************************)
InCall == pc \in {"attempt", "trace"}

Malformed(r, c) == {k \in TracesOfCall(r, c) : file[k].what.outcome = "malformed"}

Histories ==
    /\ responses \subseteq [run : 1..MaxRuns, call : 1..MaxLines, ok : BOOLEAN,
                            attempts : Nat, parseFailures : Nat]
    /\ returned \subseteq [offset : Nat, event : What \ {Stump}]
    /\ kills \in Nat

\* A call has a first attempt, and its trace will fit.
UnderWay ==
    /\ InCall => attempt # 0 /\ call # 0 /\ call <= Len(file) + 1
    /\ pc = "idle" => call <= Len(file)
    /\ pc = "trace" => outcome \in AllOutcomes

\* Every trace is of a past run, an earlier call, or an earlier attempt.
TracesArePast ==
    \A k \in DOMAIN file :
        IsTrace(k) =>
            /\ file[k].what.run <= run
            /\ file[k].what.run = run =>
                 /\ file[k].what.call <= call
                 /\ InCall /\ file[k].what.call = call => file[k].what.attempt < attempt

\* What the traces of the call under way add up to.
CallCounts ==
    InCall =>
        /\ Cardinality(TracesOfCall(run, call)) = attempt - 1
        /\ Cardinality(Malformed(run, call)) =
             IF pc = "trace" /\ outcome = "malformed" THEN parseFailures - 1
                                                     ELSE parseFailures
        /\ \A k \in TracesOfCall(run, call) : file[k].what.outcome # "ok"

\* The next trace will quote the last malformed attempt of the call.
QuotesLatest ==
    InCall =>
        /\ Malformed(run, call) = {} => told = 0
        /\ Malformed(run, call) # {} =>
             \E k \in Malformed(run, call) :
                 /\ told = file[k].what.attempt
                 /\ \A j \in Malformed(run, call) : file[j].what.attempt <= told

\* Every response is of an earlier call.
ResponsesArePast ==
    \A r \in responses :
        /\ r.run <= run
        /\ r.run = run => r.call <= call /\ (InCall => r.call # call)

IInv ==
    /\ TypeOK
    /\ Filed
    /\ Histories
    /\ UnderWay
    /\ TracesArePast
    /\ OneTracePerAttempt
    /\ CallCounts
    /\ QuotesLatest
    /\ ResponsesArePast
    /\ DamageConfined
    /\ RetryTellsWhy
    /\ ResponseMatchesTraces

-----------------------------------------------------------------------------
(***************************************************************************)
(* What becomes of the traces when the file grows                          *)
(***************************************************************************)
LEMMA TracesFinite ==
    ASSUME Filed
    PROVE  /\ DOMAIN file = 1..Len(file) /\ Len(file) \in Nat
           /\ \A r : IsFiniteSet(TracesOfRun(r))
           /\ \A r, c : IsFiniteSet(TracesOfCall(r, c)) /\ IsFiniteSet(Malformed(r, c))
           /\ IsFiniteSet(Stumps(file))
<1>1. DOMAIN file = 1..Len(file) /\ Len(file) \in Nat
  BY DEF Filed
<1>2. IsFiniteSet(1..Len(file))
  BY <1>1, FS_Interval
<1>3. /\ \A r : TracesOfRun(r) \in SUBSET (1..Len(file))
      /\ \A r, c : /\ TracesOfCall(r, c) \in SUBSET (1..Len(file))
                   /\ Malformed(r, c) \in SUBSET (1..Len(file))
      /\ Stumps(file) \in SUBSET (1..Len(file))
  BY <1>1 DEF TracesOfRun, TracesOfCall, Malformed, Stumps
<1> QED BY <1>1, <1>2, <1>3, FS_Subset

\* Traces carry their types.
LEMMA TraceTyped ==
    ASSUME Filed, NEW k \in DOMAIN file, IsTrace(k)
    PROVE  file[k].what \in Traces
<1>1. file[k] \in Lines
  BY DEF Filed
<1>2. file[k].what \in What
  BY <1>1 DEF Lines
<1> QED BY <1>2 DEF What, IsTrace

LEMMA GrownKeeps ==
    ASSUME Filed, Grown(file'), Len(file') = Len(file) \/ Len(file') = Len(file) + 1
    PROVE  /\ Filed'
           /\ DOMAIN file = 1..Len(file) /\ DOMAIN file' = 1..Len(file') /\ Len(file) \in Nat
           /\ \A k \in DOMAIN file :
                /\ k \in DOMAIN file' /\ file'[k].what = file[k].what
                /\ IsTrace(k)' <=> IsTrace(k)
                /\ file[k].ended => file'[k] = file[k]
<1>1. /\ DOMAIN file = 1..Len(file) /\ Len(file) \in Nat
      /\ DOMAIN file' = 1..Len(file') /\ Len(file') \in Nat
  BY DEF Filed, Grown
<1>2. Filed'
  BY DEF Grown, Filed
<1>3. ASSUME NEW k \in DOMAIN file
      PROVE  /\ k \in DOMAIN file' /\ file'[k].what = file[k].what
             /\ IsTrace(k)' <=> IsTrace(k)
             /\ file[k].ended => file'[k] = file[k]
  <2>1. PICK n \in Nat : n = Len(file)
    BY <1>1
  <2>2. PICK m \in Nat : m = Len(file')
    BY <1>1
  <2>3. m = n \/ m = n + 1
    BY <2>1, <2>2
  <2>4. k \in 1..n
    BY <1>1, <2>1
  <2>5. k \in 1..m
    BY <2>3, <2>4
  <2>6. file'[k].what = file[k].what /\ (file[k].ended => file'[k] = file[k])
    BY <2>1, <2>4 DEF Grown
  <2>7. IsTrace(k)' <=> IsTrace(k)
    BY <2>6 DEF IsTrace
  <2> QED BY <1>1, <2>2, <2>5, <2>6, <2>7
<1> QED BY <1>1, <1>2, <1>3

\* The file grew by no trace.
NoNewTrace ==
    /\ Grown(file')
    /\ \/ Len(file') = Len(file)
       \/ /\ Len(file') = Len(file) + 1
          /\ file'[Len(file) + 1].what \in {Stump, [kind |-> "other"]}

LEMMA NoNewTraceFacts ==
    ASSUME Filed, NoNewTrace
    PROVE  /\ Filed'
           /\ \A k \in DOMAIN file : /\ k \in DOMAIN file'
                                     /\ file'[k].what = file[k].what
                                     /\ IsTrace(k)' <=> IsTrace(k)
           /\ \A k \in DOMAIN file' : IsTrace(k)' => k \in DOMAIN file
           /\ \A r : TracesOfRun(r)' = TracesOfRun(r)
           /\ \A r, c : /\ TracesOfCall(r, c)' = TracesOfCall(r, c)
                        /\ Malformed(r, c)' = Malformed(r, c)
<1>1. /\ DOMAIN file = 1..Len(file) /\ Len(file) \in Nat
      /\ DOMAIN file' = 1..Len(file') /\ Len(file') \in Nat
  BY GrownKeeps DEF NoNewTrace, Grown
<1>2. Filed'
  BY GrownKeeps DEF NoNewTrace
<1>3. \A k \in DOMAIN file : k \in DOMAIN file' /\ file'[k].what = file[k].what
  BY GrownKeeps DEF NoNewTrace
<1>4. \A k \in DOMAIN file : IsTrace(k)' <=> IsTrace(k)
  BY GrownKeeps DEF NoNewTrace
<1>5. ASSUME NEW k \in DOMAIN file', IsTrace(k)' PROVE k \in DOMAIN file
  <2>1. CASE Len(file') = Len(file)
    BY <1>1, <2>1
  <2>2. CASE Len(file') = Len(file) + 1 /\ file'[Len(file) + 1].what \in {Stump, [kind |-> "other"]}
    <3>1. k # Len(file) + 1
      BY <1>5, <2>2 DEF IsTrace
    <3> QED BY <1>1, <2>2, <3>1
  <2> QED BY <2>1, <2>2 DEF NoNewTrace
<1>6. \A r : TracesOfRun(r)' = TracesOfRun(r)
  BY <1>3, <1>4, <1>5 DEF TracesOfRun
<1>7. \A r, c : TracesOfCall(r, c)' = TracesOfCall(r, c)
  BY <1>3, <1>6 DEF TracesOfCall, TracesOfRun
<1>8. \A r, c : Malformed(r, c)' = Malformed(r, c)
  BY <1>3, <1>7 DEF Malformed, TracesOfCall, TracesOfRun
<1> QED BY <1>2, <1>3, <1>4, <1>5, <1>6, <1>7, <1>8

\* The file grew by the trace of the attempt under way.
NewTrace ==
    /\ Grown(file')
    /\ Len(file') = Len(file) + 1
    /\ file'[Len(file) + 1].what = TraceEvent
    /\ UNCHANGED <<run, call>>

LEMMA TraceEventTyped ==
    ASSUME TypeOK, UnderWay, pc = "trace"
    PROVE  /\ TraceEvent \in Traces /\ TraceEvent # Stump /\ TraceEvent \in What
           /\ TraceEvent.kind = "trace" /\ TraceEvent.run = run /\ TraceEvent.call = call
           /\ TraceEvent.attempt = attempt /\ TraceEvent.told = told
           /\ TraceEvent.outcome = outcome
<1>1. call \in 1..MaxLines /\ attempt \in 1..MaxAttempts
  BY ModelClientAssumption DEF TypeOK, UnderWay, InCall
<1>2. TraceEvent \in Traces
  BY <1>1 DEF TypeOK, UnderWay, TraceEvent, Traces
<1> QED BY <1>2, StumpAssumption DEF TraceEvent, What

LEMMA NewTraceFacts ==
    ASSUME Filed, TypeOK, UnderWay, pc = "trace", NewTrace
    PROVE  \E n \in Nat :
             /\ n = Len(file) + 1 /\ n \notin DOMAIN file
             /\ Filed'
             /\ DOMAIN file' = DOMAIN file \cup {n}
             /\ \A k \in DOMAIN file : file'[k].what = file[k].what /\ k < n
             /\ \A k \in DOMAIN file : IsTrace(k)' <=> IsTrace(k)
             /\ IsTrace(n)' /\ file'[n].what = TraceEvent
             /\ TracesOfRun(run)' = TracesOfRun(run) \cup {n}
             /\ TracesOfCall(run, call)' = TracesOfCall(run, call) \cup {n}
             /\ Malformed(run, call)' =
                  Malformed(run, call) \cup (IF outcome = "malformed" THEN {n} ELSE {})
             /\ \A r, c : r # run \/ c # call =>
                  /\ TracesOfCall(r, c)' = TracesOfCall(r, c)
                  /\ Malformed(r, c)' = Malformed(r, c)
<1>1. /\ DOMAIN file = 1..Len(file) /\ Len(file) \in Nat
      /\ DOMAIN file' = 1..Len(file') /\ Len(file') = Len(file) + 1
  BY GrownKeeps DEF NewTrace
<1>0. PICK n \in Nat : n = Len(file) + 1
  BY <1>1
<1>2. /\ n \notin DOMAIN file /\ DOMAIN file' = DOMAIN file \cup {n}
      /\ \A k \in DOMAIN file : k < n
  BY <1>0, <1>1
<1>3. Filed'
  BY GrownKeeps DEF NewTrace
<1>4. \A k \in DOMAIN file : file'[k].what = file[k].what
  BY GrownKeeps DEF NewTrace
<1>5. \A k \in DOMAIN file : IsTrace(k)' <=> IsTrace(k)
  BY GrownKeeps DEF NewTrace
<1>6. file'[n].what = TraceEvent /\ IsTrace(n)'
  BY <1>0, TraceEventTyped DEF NewTrace, IsTrace
<1>7. \A r : TracesOfRun(r)' = TracesOfRun(r) \cup (IF r = run THEN {n} ELSE {})
  BY <1>2, <1>4, <1>5, <1>6, TraceEventTyped DEF TracesOfRun
<1>8. \A r, c : TracesOfCall(r, c)' =
                 TracesOfCall(r, c) \cup (IF r = run /\ c = call THEN {n} ELSE {})
  <2>1. \A r, k : k \in TracesOfRun(r) => file'[k].what = file[k].what
    BY <1>4 DEF TracesOfRun
  <2> QED BY <1>2, <1>6, <1>7, <2>1, TraceEventTyped DEF TracesOfCall
<1>9. \A r, c : Malformed(r, c)' =
         Malformed(r, c) \cup (IF r = run /\ c = call /\ outcome = "malformed" THEN {n} ELSE {})
  <2>1. \A r, c, k : k \in TracesOfCall(r, c) => file'[k].what = file[k].what
    BY <1>4 DEF TracesOfCall, TracesOfRun
  <2> QED BY <1>2, <1>6, <1>8, <2>1, TraceEventTyped DEF Malformed
<1>10. /\ TracesOfRun(run)' = TracesOfRun(run) \cup {n}
       /\ TracesOfCall(run, call)' = TracesOfCall(run, call) \cup {n}
       /\ Malformed(run, call)' =
            Malformed(run, call) \cup (IF outcome = "malformed" THEN {n} ELSE {})
  BY <1>7, <1>8, <1>9 DEF NewTrace
<1> QED BY <1>0, <1>2, <1>3, <1>4, <1>5, <1>6, <1>8, <1>9, <1>10

-----------------------------------------------------------------------------
(***************************************************************************)
(* The two properties of the traces, one trace or response at a time       *)
(***************************************************************************)
MalformedBefore(k) ==
    {i \in TracesOfCall(file[k].what.run, file[k].what.call) :
        i < k /\ file[i].what.outcome = "malformed"}

Tells(k) ==
    /\ MalformedBefore(k) = {} => file[k].what.told = 0
    /\ MalformedBefore(k) # {} =>
         \E i \in MalformedBefore(k) :
             /\ file[k].what.told = file[i].what.attempt
             /\ \A j \in MalformedBefore(k) : file[j].what.attempt <= file[k].what.told

Fits(r) ==
    /\ Cardinality(TracesOfCall(r.run, r.call)) = r.attempts
    /\ Cardinality(Malformed(r.run, r.call)) = r.parseFailures
    /\ r.ok <=> \E k \in TracesOfCall(r.run, r.call) : file[k].what.outcome = "ok"

LEMMA RetryAsTells ==
    RetryTellsWhy <=> \A k \in DOMAIN file : IsTrace(k) => Tells(k)
<1>1. ASSUME NEW k \in DOMAIN file
      PROVE  LET t == file[k].what
                 malformed == {file[j].what.attempt :
                                 j \in {i \in TracesOfCall(t.run, t.call) :
                                          /\ i < k
                                          /\ file[i].what.outcome = "malformed"}}
             IN  (/\ malformed = {} => t.told = 0
                  /\ malformed # {} => /\ t.told \in malformed
                                       /\ \A a \in malformed : a <= t.told)
                 <=> Tells(k)
  BY DEF Tells, MalformedBefore
<1> QED BY <1>1 DEF RetryTellsWhy

LEMMA ResponsesAsFits ==
    ResponseMatchesTraces <=> \A r \in responses : Fits(r)
BY DEF ResponseMatchesTraces, Fits, Malformed

LEMMA QuietTraces ==
    ASSUME IInv, NoNewTrace
    PROVE  /\ RetryTellsWhy'
           /\ \A r \in responses : Fits(r)'
<1>1. ASSUME NEW k \in DOMAIN file', IsTrace(k)' PROVE Tells(k)'
  <2>1. k \in DOMAIN file /\ IsTrace(k) /\ file'[k].what = file[k].what
    BY <1>1, NoNewTraceFacts DEF IInv
  <2>2. Tells(k)
    BY <2>1, RetryAsTells DEF IInv
  <2>3. \A i \in DOMAIN file : file'[i].what = file[i].what
    BY NoNewTraceFacts DEF IInv
  <2>4. TracesOfCall(file[k].what.run, file[k].what.call) \subseteq DOMAIN file
    BY DEF TracesOfCall, TracesOfRun
  <2>5. \A r, c : TracesOfCall(r, c)' = TracesOfCall(r, c)
    BY NoNewTraceFacts DEF IInv
  <2>6. TracesOfCall(file[k].what.run, file[k].what.call)' =
        TracesOfCall(file[k].what.run, file[k].what.call)
    <3>1. PICK r, c : r = file[k].what.run /\ c = file[k].what.call
      OBVIOUS
    <3>2. r = file'[k].what.run /\ c = file'[k].what.call
      BY <2>1, <3>1
    <3>3. TracesOfCall(r, c)' = TracesOfCall(r, c)
      BY <2>5
    <3>4. TracesOfCall(file[k].what.run, file[k].what.call)' = TracesOfCall(r, c)'
      BY <3>2 DEF TracesOfCall, TracesOfRun, IsTrace
    <3> QED BY <3>1, <3>3, <3>4
  <2>7. MalformedBefore(k)' = MalformedBefore(k)
    BY <2>1, <2>3, <2>4, <2>6 DEF MalformedBefore
  <2>8. MalformedBefore(k) \subseteq DOMAIN file
    BY <2>4 DEF MalformedBefore
  <2> QED BY <2>1, <2>2, <2>3, <2>7, <2>8 DEF Tells
<1>2. RetryTellsWhy'
  <2>1. (RetryTellsWhy <=> \A k \in DOMAIN file : IsTrace(k) => Tells(k))'
    BY RetryAsTells, PTL
  <2> QED BY <1>1, <2>1
<1>3. ASSUME NEW r \in responses PROVE Fits(r)'
  <2>1. Fits(r)
    BY ResponsesAsFits DEF IInv
  <2>2. /\ TracesOfCall(r.run, r.call)' = TracesOfCall(r.run, r.call)
        /\ Malformed(r.run, r.call)' = Malformed(r.run, r.call)
    BY NoNewTraceFacts DEF IInv
  <2>3. \A k \in TracesOfCall(r.run, r.call) : file'[k].what = file[k].what
    BY NoNewTraceFacts DEF IInv, TracesOfCall, TracesOfRun
  <2> QED BY <2>1, <2>2, <2>3 DEF Fits
<1> QED BY <1>2, <1>3

LEMMA TracedTraces ==
    ASSUME IInv, pc = "trace", NewTrace
    PROVE  /\ RetryTellsWhy'
           /\ \A r \in responses : Fits(r)'
<1>1. PICK n \in Nat :
             /\ n = Len(file) + 1 /\ n \notin DOMAIN file
             /\ Filed'
             /\ DOMAIN file' = DOMAIN file \cup {n}
             /\ \A k \in DOMAIN file : file'[k].what = file[k].what /\ k < n
             /\ \A k \in DOMAIN file : IsTrace(k)' <=> IsTrace(k)
             /\ IsTrace(n)' /\ file'[n].what = TraceEvent
             /\ TracesOfRun(run)' = TracesOfRun(run) \cup {n}
             /\ TracesOfCall(run, call)' = TracesOfCall(run, call) \cup {n}
             /\ Malformed(run, call)' =
                  Malformed(run, call) \cup (IF outcome = "malformed" THEN {n} ELSE {})
             /\ \A r, c : r # run \/ c # call =>
                  /\ TracesOfCall(r, c)' = TracesOfCall(r, c)
                  /\ Malformed(r, c)' = Malformed(r, c)
  BY NewTraceFacts DEF IInv
<1>2. run' = run /\ call' = call
  BY DEF NewTrace
<1>3. \A r, c : TracesOfCall(r, c)' \in {TracesOfCall(r, c), TracesOfCall(r, c) \cup {n}}
  <2> SUFFICES ASSUME NEW r, NEW c
               PROVE  TracesOfCall(r, c)' \in {TracesOfCall(r, c), TracesOfCall(r, c) \cup {n}}
    OBVIOUS
  <2>1. CASE r = run /\ c = call
    <3>1. TracesOfCall(r, c)' = TracesOfCall(run, call)'
      BY <1>2, <2>1 DEF TracesOfCall, TracesOfRun, IsTrace
    <3> QED BY <1>1, <2>1, <3>1
  <2>2. CASE r # run \/ c # call
    BY <1>1, <2>2
  <2> QED BY <2>1, <2>2
<1>4. \A r, c : TracesOfCall(r, c) \subseteq DOMAIN file
  BY DEF TracesOfCall, TracesOfRun
<1>5. ASSUME NEW k \in DOMAIN file, IsTrace(k) PROVE Tells(k)'
  <2>1. Tells(k) /\ file'[k].what = file[k].what /\ k < n /\ k \in Nat
    BY <1>1, <1>5, RetryAsTells DEF IInv, Filed
  <2>2. PICK r, c : r = file[k].what.run /\ c = file[k].what.call
    OBVIOUS
  <2>3. r = file'[k].what.run /\ c = file'[k].what.call
    BY <2>1, <2>2
  <2>4. MalformedBefore(k) = {i \in TracesOfCall(r, c) :
                                 i < k /\ file[i].what.outcome = "malformed"}
    BY <2>2 DEF MalformedBefore
  <2>5. MalformedBefore(k)' = {i \in TracesOfCall(r, c)' :
                                 i < k /\ file'[i].what.outcome = "malformed"}
    BY <2>3 DEF MalformedBefore, TracesOfCall, TracesOfRun, IsTrace
  <2>6. ~(n < k)
    BY <2>1
  <2>7. MalformedBefore(k)' = MalformedBefore(k)
    BY <1>1, <1>3, <1>4, <2>4, <2>5, <2>6
  <2>8. MalformedBefore(k) \subseteq DOMAIN file
    BY <1>4, <2>4
  <2> QED BY <1>1, <2>1, <2>7, <2>8 DEF Tells
<1>6. Tells(n)'
  <2>1. /\ file'[n].what.run = run /\ file'[n].what.call = call /\ file'[n].what.told = told
    BY <1>1, TraceEventTyped DEF IInv
  <2>2. MalformedBefore(n)' = {i \in TracesOfCall(run, call)' :
                                 i < n /\ file'[i].what.outcome = "malformed"}
    BY <1>2, <2>1 DEF MalformedBefore, TracesOfCall, TracesOfRun, IsTrace
  <2>3. ~(n < n)
    OBVIOUS
  <2>4. MalformedBefore(n)' = Malformed(run, call)
    BY <1>1, <1>4, <2>2, <2>3 DEF Malformed
  <2>5. Malformed(run, call) \subseteq DOMAIN file
    BY <1>4 DEF Malformed
  <2>6. QuotesLatest /\ InCall
    BY DEF IInv, InCall
  <2> QED BY <1>1, <2>1, <2>4, <2>5, <2>6 DEF Tells, QuotesLatest
<1>7. RetryTellsWhy'
  <2>1. (RetryTellsWhy <=> \A k \in DOMAIN file : IsTrace(k) => Tells(k))'
    BY RetryAsTells, PTL
  <2>2. \A k \in DOMAIN file' : IsTrace(k)' => Tells(k)'
    BY <1>1, <1>5, <1>6
  <2> QED BY <2>1, <2>2
<1>8. ASSUME NEW r \in responses PROVE Fits(r)'
  <2>1. Fits(r)
    BY ResponsesAsFits DEF IInv
  <2>2. r.run # run \/ r.call # call
    BY DEF IInv, ResponsesArePast, InCall
  <2>3. /\ TracesOfCall(r.run, r.call)' = TracesOfCall(r.run, r.call)
        /\ Malformed(r.run, r.call)' = Malformed(r.run, r.call)
    BY <1>1, <2>2
  <2>4. \A k \in TracesOfCall(r.run, r.call) : file'[k].what = file[k].what
    BY <1>1, <1>4
  <2> QED BY <2>1, <2>3, <2>4 DEF Fits
<1> QED BY <1>7, <1>8

-----------------------------------------------------------------------------
(***************************************************************************)
(* The file after a step                                                   *)
(***************************************************************************)
\* What returned stays where it is, and one write spoils one line at most.
LEMMA GrownDamage ==
    ASSUME IInv, Grown(file'), UNCHANGED returned,
           \/ Len(file') = Len(file)
           \/ Len(file') = Len(file) + 1
    PROVE  /\ \A r \in returned : /\ r.offset + 1 \in DOMAIN file'
                                  /\ file'[r.offset + 1] = Line(r.event)
           /\ Cardinality(Stumps(file')) <= kills + 1
           /\ (Len(file') = Len(file) \/ file'[Len(file) + 1].what # Stump) =>
                Cardinality(Stumps(file')) <= kills
<1>1. /\ Filed' /\ DOMAIN file = 1..Len(file) /\ DOMAIN file' = 1..Len(file')
      /\ Len(file) \in Nat
      /\ \A k \in DOMAIN file : /\ k \in DOMAIN file' /\ file'[k].what = file[k].what
                                /\ file[k].ended => file'[k] = file[k]
  BY GrownKeeps DEF IInv
<1>0. Len(file) \in Nat
  BY <1>1
<1>2. PICK n \in Nat : n = Len(file) + 1
  BY <1>0
<1>3. ASSUME NEW r \in returned
      PROVE  r.offset + 1 \in DOMAIN file' /\ file'[r.offset + 1] = Line(r.event)
  <2>1. r.offset + 1 \in DOMAIN file /\ file[r.offset + 1] = Line(r.event)
    BY DEF IInv, DamageConfined
  <2>2. Line(r.event).ended
    BY DEF Line
  <2> QED BY <1>1, <2>1, <2>2
<1>4. IsFiniteSet(Stumps(file)) /\ Cardinality(Stumps(file)) <= kills /\ kills \in Nat
  BY TracesFinite DEF IInv, DamageConfined, Histories
<1>5. DOMAIN file' \subseteq DOMAIN file \cup {n}
  <2>1. DOMAIN file = 1..Len(file) /\ DOMAIN file' = 1..Len(file')
    BY <1>1
  <2>2. Len(file') = n - 1 \/ Len(file') = n
    BY <1>0, <1>2
  <2>3. Len(file) = n - 1
    BY <1>0, <1>2
  <2>4. PICK m \in {n - 1, n} : m = Len(file')
    BY <2>2
  <2>5. 1..m \subseteq (1..(n - 1)) \cup {n}
    OBVIOUS
  <2> QED BY <2>1, <2>3, <2>4, <2>5
<1>6. Stumps(file') \subseteq Stumps(file) \cup {n}
  BY <1>1, <1>5 DEF Stumps
<1>7. /\ IsFiniteSet(Stumps(file) \cup {n})
      /\ Cardinality(Stumps(file) \cup {n}) <= Cardinality(Stumps(file)) + 1
  BY <1>4, FS_AddElement, FS_CardinalityType
<1>8. /\ IsFiniteSet(Stumps(file'))
      /\ Cardinality(Stumps(file')) <= Cardinality(Stumps(file) \cup {n})
  BY <1>6, <1>7, FS_Subset
<1>9. /\ Cardinality(Stumps(file)) \in Nat /\ Cardinality(Stumps(file')) \in Nat
      /\ Cardinality(Stumps(file) \cup {n}) \in Nat
  BY <1>4, <1>7, <1>8, FS_CardinalityType
<1>10. Cardinality(Stumps(file')) <= kills + 1
  BY <1>4, <1>7, <1>8, <1>9
<1>11. ASSUME Len(file') = Len(file) \/ file'[Len(file) + 1].what # Stump
       PROVE  Cardinality(Stumps(file')) <= kills
  <2>1. n \notin Stumps(file')
    <3>1. CASE Len(file') = Len(file)
      BY <1>1, <1>2, <3>1 DEF Stumps
    <3>2. CASE file'[Len(file) + 1].what # Stump
      BY <1>2, <3>2 DEF Stumps
    <3> QED BY <1>11, <3>1, <3>2
  <2>2. Stumps(file') \subseteq Stumps(file)
    BY <1>6, <2>1
  <2>3. Cardinality(Stumps(file')) <= Cardinality(Stumps(file))
    BY <1>4, <2>2, FS_Subset
  <2> QED BY <1>4, <1>9, <2>3
<1> QED BY <1>3, <1>10, <1>11

\* An unchanged file.
LEMMA SameFile ==
    ASSUME IInv, UNCHANGED <<file, returned, kills>>
    PROVE  NoNewTrace /\ DamageConfined'
BY DEF IInv, NoNewTrace, Grown, Filed, DamageConfined, Stumps

\* An event logged.
LEMMA LoggedFacts ==
    ASSUME IInv, NEW w \in What \ {Stump}, Logged(w), UNCHANGED kills
    PROVE  /\ Grown(file') /\ Len(file') = Len(file) + 1
           /\ file'[Len(file) + 1].what = w
           /\ DamageConfined'
           /\ returned' \subseteq [offset : Nat, event : What \ {Stump}]
<1>1. Filed /\ Len(file) \in Nat /\ w \in What
  BY DEF IInv, Filed
<1>2. /\ Grown(file') /\ Len(file') = Len(file) + 1
      /\ file'[Len(file) + 1] = Line(w)
  BY <1>1, AppendedFacts DEF Logged
<1>3. file'[Len(file) + 1].what = w
  BY <1>2 DEF Line
<1>4. returned' = returned \cup {[offset |-> Len(file), event |-> w]}
  BY DEF Logged, AppendOffset, LineCount
<1>5. returned' \subseteq [offset : Nat, event : What \ {Stump}]
  BY <1>1, <1>4 DEF IInv, Histories
<1>6. /\ DOMAIN file = 1..Len(file) /\ DOMAIN file' = 1..Len(file')
      /\ \A k \in DOMAIN file : /\ k \in DOMAIN file'
                                /\ file[k].ended => file'[k] = file[k]
  BY <1>2, GrownKeeps DEF IInv
<1>7. ASSUME NEW r \in returned'
      PROVE  r.offset + 1 \in DOMAIN file' /\ file'[r.offset + 1] = Line(r.event)
  <2>1. CASE r \in returned
    <3>1. r.offset + 1 \in DOMAIN file /\ file[r.offset + 1] = Line(r.event)
      BY <2>1 DEF IInv, DamageConfined
    <3>2. Line(r.event).ended
      BY DEF Line
    <3> QED BY <1>6, <3>1, <3>2
  <2>2. CASE r = [offset |-> Len(file), event |-> w]
    <3>1. r.offset = Len(file) /\ r.event = w
      BY <2>2
    <3>2. Len(file) + 1 \in DOMAIN file'
      BY <1>1, <1>2, <1>6
    <3> QED BY <1>2, <3>1, <3>2
  <2> QED BY <1>4, <2>1, <2>2
<1>8. Cardinality(Stumps(file')) <= kills
  <2>1. Stumps(file') \subseteq Stumps(file)
    <3>1. PICK n \in Nat : n = Len(file) + 1
      BY <1>1
    <3>2. n \notin Stumps(file')
      BY <1>3, <3>1 DEF Stumps
    <3>3. DOMAIN file' \subseteq DOMAIN file \cup {n}
      BY <1>1, <1>2, <1>6, <3>1
    <3>4. \A k \in DOMAIN file : file'[k].what = file[k].what
      BY <1>2, GrownKeeps DEF IInv
    <3> QED BY <3>2, <3>3, <3>4 DEF Stumps
  <2>2. IsFiniteSet(Stumps(file)) /\ Cardinality(Stumps(file)) <= kills /\ kills \in Nat
    BY TracesFinite DEF IInv, DamageConfined, Histories
  <2>3. Cardinality(Stumps(file')) <= Cardinality(Stumps(file)) /\ IsFiniteSet(Stumps(file'))
    BY <2>1, <2>2, FS_Subset
  <2>4. Cardinality(Stumps(file)) \in Nat /\ Cardinality(Stumps(file')) \in Nat
    BY <2>2, <2>3, FS_CardinalityType
  <2> QED BY <2>2, <2>3, <2>4
<1>9. DamageConfined'
  BY <1>7, <1>8 DEF DamageConfined
<1> QED BY <1>2, <1>3, <1>5, <1>9

\* The type invariant of the file is what Filed says.
FileTypes ==
    \A k \in DOMAIN file : /\ file[k].what \in Traces \cup {[kind |-> "other"], Stump}
                           /\ file[k].ended \/ k = Len(file)

LEMMA FileTyped == Filed => FileTypes
<1> SUFFICES ASSUME Filed PROVE FileTypes
  OBVIOUS
<1>1. DOMAIN file = 1..Len(file)
  BY DEF Filed
<1>2. \A k \in DOMAIN file : file[k] \in Lines
  BY DEF Filed
<1> QED BY <1>1, <1>2 DEF Filed, FileTypes, Lines, What

-----------------------------------------------------------------------------
(***************************************************************************)
(* Steps that log no trace                                                 *)
(***************************************************************************)
\* The traces that are read under the next run and call.
LEMMA Rigid ==
    ASSUME NEW r, NEW c, run' = r, call' = c
    PROVE  /\ TracesOfRun(run)' = TracesOfRun(r)'
           /\ TracesOfCall(run, call)' = TracesOfCall(r, c)'
           /\ Malformed(run, call)' = Malformed(r, c)'
BY DEF TracesOfRun, TracesOfCall, Malformed, IsTrace

LEMMA InFile ==
    \A r, c : /\ TracesOfRun(r) \subseteq DOMAIN file
              /\ TracesOfCall(r, c) \subseteq TracesOfRun(r)
              /\ Malformed(r, c) \subseteq TracesOfCall(r, c)
BY DEF TracesOfRun, TracesOfCall, Malformed

LEMMA QuietFile ==
    ASSUME IInv, NoNewTrace, UNCHANGED responses
    PROVE  Filed' /\ FileTypes' /\ RetryTellsWhy' /\ ResponseMatchesTraces'
<1>1. Filed'
  BY NoNewTraceFacts DEF IInv
<1>2. FileTypes'
  BY <1>1, FileTyped, PTL
<1>3. RetryTellsWhy' /\ \A r \in responses' : Fits(r)'
  BY QuietTraces
<1>4. (ResponseMatchesTraces <=> \A r \in responses : Fits(r))'
  BY ResponsesAsFits, PTL
<1> QED BY <1>1, <1>2, <1>3, <1>4

LEMMA QuietCall ==
    ASSUME IInv, NoNewTrace, UNCHANGED <<run, call>>
    PROVE  /\ TracesOfRun(run)' = TracesOfRun(run)
           /\ TracesOfCall(run, call)' = TracesOfCall(run, call)
           /\ Malformed(run, call)' = Malformed(run, call)
           /\ \A k \in DOMAIN file : file'[k].what = file[k].what
           /\ \A k \in DOMAIN file' : IsTrace(k)' => k \in DOMAIN file /\ IsTrace(k)
<1>1. PICK r, c : r = run /\ c = call
  OBVIOUS
<1>2. /\ TracesOfRun(r)' = TracesOfRun(r)
      /\ TracesOfCall(r, c)' = TracesOfCall(r, c)
      /\ Malformed(r, c)' = Malformed(r, c)
  BY NoNewTraceFacts DEF IInv
<1>3. /\ TracesOfRun(run)' = TracesOfRun(r)'
      /\ TracesOfCall(run, call)' = TracesOfCall(r, c)'
      /\ Malformed(run, call)' = Malformed(r, c)'
  BY <1>1, Rigid
<1>4. /\ \A k \in DOMAIN file : file'[k].what = file[k].what
      /\ \A k \in DOMAIN file' : IsTrace(k)' => k \in DOMAIN file /\ IsTrace(k)
  BY NoNewTraceFacts DEF IInv
<1> QED BY <1>1, <1>2, <1>3, <1>4

\* A step that logs no trace and stays in its call.
LEMMA QuietStep ==
    ASSUME IInv, NoNewTrace, UNCHANGED <<run, call, attempt, told, callCount, responses>>,
           InCall' => InCall, pc' = "killed" \/ pc # "killed"
    PROVE  /\ Filed' /\ FileTypes' /\ RetryTellsWhy' /\ ResponseMatchesTraces'
           /\ TracesArePast' /\ OneTracePerAttempt' /\ QuotesLatest' /\ ResponsesArePast'
<1>1. Filed' /\ FileTypes' /\ RetryTellsWhy' /\ ResponseMatchesTraces'
  BY QuietFile
<1>2. TracesArePast'
  BY QuietCall DEF IInv, TracesArePast
<1>3. OneTracePerAttempt'
  BY QuietCall DEF IInv, OneTracePerAttempt
<1>4. QuotesLatest'
  <2>1. Malformed(run, call) \subseteq DOMAIN file
    BY InFile
  <2> QED BY <2>1, QuietCall DEF IInv, QuotesLatest
<1>5. ResponsesArePast'
  BY DEF IInv, ResponsesArePast
<1> QED BY <1>1, <1>2, <1>3, <1>4, <1>5

LEMMA AttemptedKeeps == IInv /\ Attempted => IInv'
<1> SUFFICES ASSUME IInv, Attempted PROVE IInv'
  OBVIOUS
<1>1. NoNewTrace /\ DamageConfined'
  BY SameFile DEF Attempted
<1>2. InCall /\ InCall' /\ pc = "attempt" /\ pc' = "trace"
  BY DEF Attempted, InCall
<1>3. /\ Filed' /\ FileTypes' /\ RetryTellsWhy' /\ ResponseMatchesTraces'
      /\ TracesArePast' /\ OneTracePerAttempt' /\ QuotesLatest' /\ ResponsesArePast'
  BY <1>1, <1>2, QuietStep DEF Attempted
<1>4. parseFailures \in Nat /\ parseFailures + 1 <= MaxAttempts
  <2>1. /\ IsFiniteSet(TracesOfCall(run, call))
        /\ Cardinality(TracesOfCall(run, call)) = attempt - 1
        /\ Cardinality(Malformed(run, call)) = parseFailures
    BY <1>2, TracesFinite DEF IInv, CallCounts
  <2>2. Cardinality(Malformed(run, call)) <= Cardinality(TracesOfCall(run, call))
    BY <2>1, InFile, FS_Subset
  <2>3. attempt \in Nat /\ attempt <= MaxAttempts /\ parseFailures \in Nat /\ MaxAttempts \in Nat
    BY ModelClientAssumption DEF IInv, TypeOK
  <2> QED BY <2>1, <2>2, <2>3
<1>5. outcome' \in AllOutcomes
  BY DEF Attempted, Outcomes, AllOutcomes
<1>6. parseFailures' = (IF outcome' = "malformed" THEN parseFailures + 1 ELSE parseFailures)
  BY DEF Attempted
<1>7. TypeOK'
  <2>1. parseFailures' \in 0..MaxAttempts
    BY <1>4, <1>6, ModelClientAssumption
  <2> QED BY <1>2, <1>3, <1>5, <2>1 DEF IInv, TypeOK, Attempted, FileTypes, Traces, AllOutcomes
<1>8. Histories'
  BY DEF IInv, Histories, Attempted, What, Traces, AllOutcomes
<1>9. UnderWay'
  BY <1>2, <1>5 DEF IInv, UnderWay, Attempted, InCall, AllOutcomes
<1>10. CallCounts'
  <2>1. UNCHANGED <<run, call, attempt>>
    BY DEF Attempted
  <2>2. /\ TracesOfCall(run, call)' = TracesOfCall(run, call)
        /\ Malformed(run, call)' = Malformed(run, call)
        /\ \A k \in TracesOfCall(run, call) : file'[k].what = file[k].what
    BY <1>1, <2>1, QuietCall, InFile
  <2>3. /\ Cardinality(TracesOfCall(run, call)) = attempt - 1
        /\ Cardinality(Malformed(run, call)) = parseFailures
        /\ \A k \in TracesOfCall(run, call) : file[k].what.outcome # "ok"
    BY <1>2 DEF IInv, CallCounts
  <2>4. Cardinality(Malformed(run, call)) =
          IF outcome' = "malformed" THEN parseFailures' - 1 ELSE parseFailures'
    BY <1>4, <1>6, <2>3
  <2> QED BY <1>2, <2>1, <2>2, <2>3, <2>4 DEF CallCounts
<1> QED BY <1>1, <1>3, <1>7, <1>8, <1>9, <1>10 DEF IInv

LEMMA LogOtherKeeps == IInv /\ LogOther => IInv'
<1> SUFFICES ASSUME IInv, LogOther PROVE IInv'
  OBVIOUS
<1> DEFINE other == [kind |-> "other"]
<1>0. other \in What \ {Stump}
  BY StumpAssumption DEF What
<1>1. /\ NoNewTrace /\ DamageConfined' /\ Len(file') = Len(file) + 1 /\ Len(file) \in Nat
      /\ returned' \subseteq [offset : Nat, event : What \ {Stump}]
  BY <1>0, LoggedFacts, TracesFinite DEF LogOther, NoNewTrace, IInv
<1>2. pc = "idle" /\ pc' = "idle" /\ ~InCall'
  BY DEF LogOther, InCall
<1>3. /\ Filed' /\ FileTypes' /\ RetryTellsWhy' /\ ResponseMatchesTraces'
      /\ TracesArePast' /\ OneTracePerAttempt' /\ QuotesLatest' /\ ResponsesArePast'
  BY <1>1, <1>2, QuietStep DEF LogOther, callVars
<1>4. TypeOK'
  BY <1>3 DEF IInv, TypeOK, LogOther, callVars, FileTypes, Traces, AllOutcomes
<1>5. Histories'
  BY <1>1 DEF IInv, Histories, LogOther, What, Traces, AllOutcomes
<1>6. UnderWay'
  <2>1. call \in Nat /\ call <= Len(file) /\ call' = call
    BY <1>2 DEF IInv, UnderWay, TypeOK, LogOther, callVars
  <2> QED BY <1>1, <1>2, <2>1 DEF UnderWay
<1>7. CallCounts'
  BY <1>2 DEF CallCounts
<1> QED BY <1>1, <1>3, <1>4, <1>5, <1>6, <1>7 DEF IInv

LEMMA StartCallKeeps == IInv /\ StartCall => IInv'
<1> SUFFICES ASSUME IInv, StartCall PROVE IInv'
  OBVIOUS
<1>1. NoNewTrace /\ DamageConfined'
  BY SameFile DEF StartCall
<1>2. pc = "idle" /\ pc' = "attempt" /\ InCall'
  BY DEF StartCall, InCall
<1>3. /\ Filed' /\ FileTypes' /\ RetryTellsWhy' /\ ResponseMatchesTraces'
  BY <1>1, QuietFile DEF StartCall
<1>4. PICK r, c : r = run /\ c = call + 1
  OBVIOUS
<1>5. r = run' /\ c = call' /\ c # call /\ c \in 1..MaxLines /\ c <= Len(file) + 1 /\ ~(c <= call)
  <2>1. call \in Nat /\ call <= Len(file) /\ call' = call + 1 /\ run' = run
    BY <1>2 DEF IInv, TypeOK, UnderWay, StartCall
  <2>2. Len(file) + MaxAttempts < MaxLines /\ Len(file) \in Nat
    BY TracesFinite DEF IInv, StartCall
  <2>3. MaxAttempts \in Nat /\ MaxLines \in Nat
    BY ModelClientAssumption
  <2> QED BY <1>4, <2>1, <2>2, <2>3
<1>6. TracesOfCall(r, c) = {} /\ Malformed(r, c) = {}
  <2>1. ASSUME NEW k \in TracesOfCall(r, c) PROVE FALSE
    BY <1>4, <1>5, <2>1 DEF IInv, TracesArePast, TracesOfCall, TracesOfRun
  <2> QED BY <2>1, InFile
<1>7. /\ TracesOfRun(run)' = TracesOfRun(run)
      /\ TracesOfCall(run, call)' = {}
      /\ Malformed(run, call)' = {}
  <2>1. /\ TracesOfRun(r)' = TracesOfRun(r)
        /\ TracesOfCall(r, c)' = TracesOfCall(r, c)
        /\ Malformed(r, c)' = Malformed(r, c)
    BY <1>1, NoNewTraceFacts DEF IInv
  <2>2. /\ TracesOfRun(run)' = TracesOfRun(r)'
        /\ TracesOfCall(run, call)' = TracesOfCall(r, c)'
        /\ Malformed(run, call)' = Malformed(r, c)'
    BY <1>5, Rigid
  <2> QED BY <1>4, <1>6, <2>1, <2>2
<1>8. TypeOK'
  <2>1. call' \in 0..MaxLines /\ attempt' \in 0..MaxAttempts /\ parseFailures' \in 0..MaxAttempts
        /\ told' \in 0..MaxAttempts
    BY <1>5, ModelClientAssumption DEF StartCall
  <2> QED BY <1>2, <1>3, <2>1 DEF IInv, TypeOK, StartCall, FileTypes, Traces, AllOutcomes
<1>9. Histories'
  BY DEF IInv, Histories, StartCall, What, Traces, AllOutcomes
<1>10. UnderWay'
  <2>1. call' # 0 /\ call' <= Len(file') + 1 /\ attempt' # 0
    BY <1>5 DEF StartCall
  <2> QED BY <1>2, <2>1 DEF UnderWay
<1>11. TracesArePast'
  <2>1. ASSUME NEW k \in DOMAIN file', IsTrace(k)', file'[k].what.run = run'
        PROVE  file'[k].what.call <= call' /\ file'[k].what.call # call'
    <3>1. /\ k \in DOMAIN file /\ IsTrace(k) /\ file'[k].what = file[k].what
          /\ file[k].what.run = run /\ file[k].what.call <= call
      BY <1>1, <2>1, NoNewTraceFacts DEF IInv, TracesArePast, StartCall
    <3>2. file[k].what.call \in Nat /\ call \in Nat /\ call' = call + 1
      BY <3>1, TraceTyped DEF IInv, TypeOK, Traces, StartCall
    <3> QED BY <3>1, <3>2
  <2>2. ASSUME NEW k \in DOMAIN file', IsTrace(k)' PROVE file'[k].what.run <= run'
    BY <1>1, <2>2, NoNewTraceFacts DEF IInv, TracesArePast, StartCall
  <2> QED BY <2>1, <2>2 DEF TracesArePast
<1>12. OneTracePerAttempt'
  BY <1>2, <1>7 DEF IInv, OneTracePerAttempt, StartCall
<1>13. CallCounts'
  <2>1. attempt' - 1 = 0 /\ parseFailures' = 0 /\ pc' # "trace"
    BY <1>2 DEF StartCall
  <2>2. Cardinality(TracesOfCall(run, call)') = 0 /\ Cardinality(Malformed(run, call)') = 0
    BY <1>7, FS_EmptySet
  <2> QED BY <1>7, <2>1, <2>2 DEF CallCounts
<1>14. QuotesLatest'
  BY <1>7 DEF QuotesLatest, StartCall
<1>15. ResponsesArePast'
  <2>1. call \in Nat /\ call' = call + 1 /\ run' = run /\ responses' = responses
    BY DEF IInv, TypeOK, StartCall
  <2>2. \A p \in responses : p.call \in Nat /\ p.run <= run /\ (p.run = run => p.call <= call)
    BY DEF IInv, Histories, ResponsesArePast
  <2>3. \A p \in responses : p.run = run => p.call <= call' /\ p.call # call'
    BY <2>1, <2>2
  <2> QED BY <2>1, <2>2, <2>3 DEF ResponsesArePast
<1> QED BY <1>1, <1>3, <1>8, <1>9, <1>10, <1>11, <1>12, <1>13, <1>14, <1>15 DEF IInv

LEMMA RestartKeeps == IInv /\ Restart => IInv'
<1> SUFFICES ASSUME IInv, Restart PROVE IInv'
  OBVIOUS
<1>1. NoNewTrace /\ DamageConfined'
  BY SameFile DEF Restart
<1>2. pc' = "idle" /\ ~InCall'
  BY DEF Restart, InCall
<1>3. /\ Filed' /\ FileTypes' /\ RetryTellsWhy' /\ ResponseMatchesTraces'
  BY <1>1, QuietFile DEF Restart
<1>4. PICK r, c : r = run + 1 /\ c = 0
  OBVIOUS
<1>5. run \in Nat /\ run' = r /\ call' = c /\ ~(r <= run) /\ r \in 1..MaxRuns
  BY <1>4, ModelClientAssumption DEF IInv, TypeOK, Restart
<1>6. TracesOfRun(run)' = {}
  <2>1. TracesOfRun(run)' = TracesOfRun(r)'
    BY <1>5, Rigid
  <2>2. TracesOfRun(r)' = TracesOfRun(r)
    BY <1>1, NoNewTraceFacts DEF IInv
  <2>3. ASSUME NEW k \in TracesOfRun(r) PROVE FALSE
    BY <1>5, <2>3 DEF IInv, TracesArePast, TracesOfRun
  <2> QED BY <2>1, <2>2, <2>3
<1>7. TypeOK'
  <2>1. run' \in 1..MaxRuns /\ call' \in 0..MaxLines /\ callCount' \in Nat
    BY <1>5, ModelClientAssumption DEF Restart
  <2> QED BY <1>2, <1>3, <2>1 DEF IInv, TypeOK, Restart, FileTypes, Traces, AllOutcomes
<1>8. Histories'
  BY DEF IInv, Histories, Restart, What, Traces, AllOutcomes
<1>9. UnderWay'
  BY <1>2, TracesFinite DEF IInv, UnderWay, Restart
<1>10. TracesArePast'
  <2>1. ASSUME NEW k \in DOMAIN file', IsTrace(k)'
        PROVE  file'[k].what.run <= run' /\ file'[k].what.run # run'
    <3>1. /\ k \in DOMAIN file /\ IsTrace(k) /\ file'[k].what = file[k].what
          /\ file[k].what.run <= run
      BY <1>1, <2>1, NoNewTraceFacts DEF IInv, TracesArePast
    <3>2. file[k].what.run \in Nat
      BY <3>1, TraceTyped DEF IInv, Traces
    <3> QED BY <1>4, <1>5, <3>1, <3>2
  <2> QED BY <2>1 DEF TracesArePast
<1>11. OneTracePerAttempt'
  BY <1>6, FS_EmptySet DEF OneTracePerAttempt, Restart
<1>12. CallCounts' /\ QuotesLatest'
  BY <1>2 DEF CallCounts, QuotesLatest
<1>13. ResponsesArePast'
  <2>1. \A p \in responses : p.run \in Nat /\ p.run <= run
    BY DEF IInv, Histories, ResponsesArePast
  <2>2. \A p \in responses : p.run <= r /\ p.run # r
    BY <1>4, <1>5, <2>1
  <2> QED BY <1>5, <2>2 DEF ResponsesArePast, Restart
<1> QED BY <1>1, <1>3, <1>7, <1>8, <1>9, <1>10, <1>11, <1>12, <1>13 DEF IInv

-----------------------------------------------------------------------------
(***************************************************************************)
(* Steps that log a trace                                                  *)
(***************************************************************************)
\* What such a step does to the traces.
LEMMA TracedFile ==
    ASSUME IInv, pc = "trace", NewTrace
    PROVE  /\ Filed' /\ FileTypes' /\ RetryTellsWhy'
           /\ \A k \in DOMAIN file' : IsTrace(k)' =>
                \/ k \in DOMAIN file /\ IsTrace(k) /\ file'[k].what = file[k].what
                \/ /\ file'[k].what.run = run /\ file'[k].what.call = call
                   /\ file'[k].what.attempt = attempt
<1>1. Filed /\ TypeOK /\ UnderWay
  BY DEF IInv
<1>2. /\ Filed'
      /\ \A k \in DOMAIN file' : IsTrace(k)' =>
           \/ k \in DOMAIN file /\ IsTrace(k) /\ file'[k].what = file[k].what
           \/ file'[k].what = TraceEvent
  BY <1>1, NewTraceFacts
<1>3. FileTypes'
  BY <1>2, FileTyped, PTL
<1> QED BY <1>1, <1>2, <1>3, TraceEventTyped, TracedTraces

LEMMA ResponsesAsFitsNext ==
    ResponseMatchesTraces' <=> \A r \in responses' : Fits(r)'
<1>1. (ResponseMatchesTraces <=> \A r \in responses : Fits(r))'
  BY ResponsesAsFits, PTL
<1> QED BY <1>1

\* Past runs, earlier calls and attempts stay so.
LEMMA TracedPast ==
    ASSUME IInv, pc = "trace", NewTrace,
           ~InCall' \/ attempt' = attempt + 1
    PROVE  TracesArePast'
<1>1. run' = run /\ call' = call /\ run \in Nat /\ call \in Nat /\ attempt \in Nat /\ InCall
  BY DEF NewTrace, IInv, TypeOK, InCall
<1>2. ASSUME NEW k \in DOMAIN file', IsTrace(k)'
      PROVE  /\ file'[k].what.run <= run
             /\ file'[k].what.run = run =>
                  /\ file'[k].what.call <= call
                  /\ file'[k].what.call = call => file'[k].what.attempt <= attempt
                                                   /\ file'[k].what.attempt \in Nat
  <2>1. CASE k \in DOMAIN file /\ IsTrace(k) /\ file'[k].what = file[k].what
    <3>1. file[k].what.attempt \in Nat
      BY <2>1, TraceTyped DEF IInv, Traces
    <3>2. /\ file[k].what.run <= run
          /\ file[k].what.run = run =>
               /\ file[k].what.call <= call
               /\ file[k].what.call = call => file[k].what.attempt < attempt
      BY <1>1, <2>1 DEF IInv, TracesArePast
    <3> QED BY <1>1, <2>1, <3>1, <3>2
  <2>2. CASE file'[k].what.run = run /\ file'[k].what.call = call /\ file'[k].what.attempt = attempt
    BY <1>1, <2>2
  <2> QED BY <1>2, <2>1, <2>2, TracedFile
<1>3. ASSUME NEW k \in DOMAIN file', IsTrace(k)', InCall',
             file'[k].what.run = run, file'[k].what.call = call
      PROVE  file'[k].what.attempt < attempt'
  <2>1. file'[k].what.attempt <= attempt /\ file'[k].what.attempt \in Nat
    BY <1>2, <1>3
  <2> QED BY <1>1, <1>3, <2>1
<1> QED BY <1>1, <1>2, <1>3 DEF TracesArePast

\* One more trace of the run and the call.
LEMMA TracedCounts ==
    ASSUME IInv, pc = "trace", NewTrace
    PROVE  /\ Cardinality(TracesOfRun(run)') = callCount + 1
           /\ Cardinality(TracesOfCall(run, call)') = attempt
           /\ Cardinality(Malformed(run, call)') = parseFailures
           /\ (\E k \in TracesOfCall(run, call)' : file'[k].what.outcome = "ok") <=> outcome = "ok"
<1>1. PICK n \in Nat :
             /\ n \notin DOMAIN file
             /\ \A k \in DOMAIN file : file'[k].what = file[k].what
             /\ file'[n].what = TraceEvent
             /\ TracesOfRun(run)' = TracesOfRun(run) \cup {n}
             /\ TracesOfCall(run, call)' = TracesOfCall(run, call) \cup {n}
             /\ Malformed(run, call)' =
                  Malformed(run, call) \cup (IF outcome = "malformed" THEN {n} ELSE {})
  BY NewTraceFacts DEF IInv
<1>2. n \notin TracesOfRun(run) /\ n \notin TracesOfCall(run, call) /\ n \notin Malformed(run, call)
  BY <1>1, InFile
<1>3. /\ IsFiniteSet(TracesOfRun(run)) /\ IsFiniteSet(TracesOfCall(run, call))
      /\ IsFiniteSet(Malformed(run, call))
  BY TracesFinite DEF IInv
<1>4. /\ Cardinality(TracesOfRun(run)) = callCount
      /\ Cardinality(TracesOfCall(run, call)) = attempt - 1
      /\ Cardinality(Malformed(run, call)) =
           IF outcome = "malformed" THEN parseFailures - 1 ELSE parseFailures
      /\ \A k \in TracesOfCall(run, call) : file[k].what.outcome # "ok"
  BY DEF IInv, CallCounts, OneTracePerAttempt, InCall
<1>5. /\ Cardinality(TracesOfRun(run) \cup {n}) = Cardinality(TracesOfRun(run)) + 1
      /\ Cardinality(TracesOfCall(run, call) \cup {n}) = Cardinality(TracesOfCall(run, call)) + 1
      /\ Cardinality(Malformed(run, call) \cup {n}) = Cardinality(Malformed(run, call)) + 1
  BY <1>2, <1>3, FS_AddElement
<1>6. attempt \in Nat /\ parseFailures \in Nat /\ callCount \in Nat
  BY DEF IInv, TypeOK
<1>7. Cardinality(TracesOfCall(run, call)') = attempt
  BY <1>1, <1>4, <1>5, <1>6
<1>8. Cardinality(TracesOfRun(run)') = callCount + 1
  BY <1>1, <1>4, <1>5
<1>9. Cardinality(Malformed(run, call)') = parseFailures
  <2>1. CASE outcome = "malformed"
    BY <1>1, <1>4, <1>5, <1>6, <2>1
  <2>2. CASE outcome # "malformed"
    BY <1>1, <1>4, <2>2
  <2> QED BY <2>1, <2>2
<1>10. (\E k \in TracesOfCall(run, call)' : file'[k].what.outcome = "ok") <=> outcome = "ok"
  <2>1. file'[n].what.outcome = outcome
    BY <1>1, TraceEventTyped DEF IInv
  <2>2. \A k \in TracesOfCall(run, call) : file'[k].what.outcome # "ok"
    BY <1>1, <1>4, InFile
  <2> QED BY <1>1, <2>1, <2>2
<1> QED BY <1>7, <1>8, <1>9, <1>10

\* The retry quotes the attempt just traced if it was malformed.
LEMMA RetriedQuotes ==
    ASSUME IInv, pc = "trace", NewTrace, Retried
    PROVE  QuotesLatest'
<1>1. PICK n \in Nat :
             /\ \A k \in DOMAIN file : file'[k].what = file[k].what
             /\ file'[n].what = TraceEvent
             /\ Malformed(run, call)' =
                  Malformed(run, call) \cup (IF outcome = "malformed" THEN {n} ELSE {})
  BY NewTraceFacts DEF IInv
<1>2. \A k \in Malformed(run, call) : k \in DOMAIN file /\ file'[k].what = file[k].what
  BY <1>1, InFile
<1>3. InCall /\ QuotesLatest /\ attempt \in Nat
  BY DEF IInv, TypeOK, InCall
<1>4. CASE outcome = "malformed"
  <2>1. told' = attempt
    BY <1>4 DEF Retried
  <2>2. n \in Malformed(run, call)' /\ file'[n].what.attempt = attempt
    BY <1>1, <1>4, TraceEventTyped DEF IInv
  <2>3. \A j \in Malformed(run, call)' : file'[j].what.attempt <= attempt
    <3>1. ASSUME NEW j \in Malformed(run, call) PROVE file'[j].what.attempt <= attempt
      <4>1. /\ j \in DOMAIN file /\ IsTrace(j)
            /\ file[j].what.run = run /\ file[j].what.call = call
        BY <3>1 DEF Malformed, TracesOfCall, TracesOfRun
      <4>2. file[j].what.attempt < attempt /\ file[j].what.attempt \in Nat
        BY <1>3, <4>1, TraceTyped DEF IInv, TracesArePast, Traces
      <4> QED BY <1>2, <1>3, <3>1, <4>2
    <3> QED BY <1>1, <1>3, <1>4, <2>2, <3>1
  <2> QED BY <2>1, <2>2, <2>3 DEF QuotesLatest
<1>5. CASE outcome # "malformed"
  <2>1. told' = told /\ Malformed(run, call)' = Malformed(run, call)
    BY <1>1, <1>5 DEF Retried
  <2> QED BY <1>2, <1>3, <2>1 DEF QuotesLatest
<1> QED BY <1>4, <1>5

LEMMA FinallyKeeps == IInv /\ Finally => IInv'
<1> SUFFICES ASSUME IInv, Finally PROVE IInv'
  OBVIOUS
<1>1. pc = "trace" /\ InCall /\ callCount' = callCount + 1 /\ UNCHANGED <<mode, run, kills>>
  BY DEF Finally, InCall
<1>2. call' = call
  BY DEF Finally, Retried, Returned, Raised, callVars
<1>3. TraceEvent \in What \ {Stump} /\ UnderWay /\ Filed
  BY <1>1, TraceEventTyped DEF IInv
<1>4. /\ NewTrace /\ DamageConfined' /\ Len(file') = Len(file) + 1 /\ Len(file) \in Nat
      /\ returned' \subseteq [offset : Nat, event : What \ {Stump}]
  <2>1. /\ Grown(file') /\ Len(file') = Len(file) + 1
        /\ file'[Len(file) + 1].what = TraceEvent
        /\ DamageConfined'
        /\ returned' \subseteq [offset : Nat, event : What \ {Stump}]
    BY <1>1, <1>3, LoggedFacts DEF Finally
  <2> QED BY <1>1, <1>2, <1>3, <2>1, TracesFinite DEF NewTrace
<1>5. Filed' /\ FileTypes' /\ RetryTellsWhy'
  BY <1>1, <1>4, TracedFile
<1>6. /\ Cardinality(TracesOfRun(run)') = callCount + 1
      /\ Cardinality(TracesOfCall(run, call)') = attempt
      /\ Cardinality(Malformed(run, call)') = parseFailures
      /\ (\E k \in TracesOfCall(run, call)' : file'[k].what.outcome = "ok") <=> outcome = "ok"
  BY <1>1, <1>4, TracedCounts
<1>7. OneTracePerAttempt'
  BY <1>1, <1>6 DEF OneTracePerAttempt
<1>8. /\ attempt \in 1..MaxAttempts /\ call \in 1..MaxLines /\ call <= Len(file) + 1
      /\ parseFailures \in 0..MaxAttempts /\ callCount \in Nat /\ MaxAttempts \in Nat
  BY <1>1, ModelClientAssumption DEF IInv, TypeOK, UnderWay
<1>9. \A p \in responses : Fits(p)'
  BY <1>1, <1>4, TracedTraces
<1>10. ResponseMatchesTraces' <=> \A r \in responses' : Fits(r)'
  BY ResponsesAsFitsNext
<1>11. CASE Retried
  <2>1. /\ pc' = "attempt" /\ InCall' /\ attempt' = attempt + 1 /\ attempt < MaxAttempts
        /\ outcome # "ok" /\ told' \in {told, attempt}
        /\ UNCHANGED <<call, schema, parseFailures, outcome, responses>>
    BY <1>11 DEF Retried, InCall
  <2>2. TypeOK'
    <3>1. attempt' \in 0..MaxAttempts /\ callCount' \in Nat /\ told' \in 0..MaxAttempts
      BY <1>1, <1>8, <2>1 DEF IInv, TypeOK
    <3> QED BY <1>1, <1>5, <2>1, <3>1 DEF IInv, TypeOK, FileTypes, Traces, AllOutcomes
  <2>3. Histories'
    BY <1>1, <1>4, <2>1 DEF IInv, Histories, What, Traces, AllOutcomes
  <2>4. UnderWay'
    <3>1. attempt' # 0 /\ call' # 0 /\ call' <= Len(file') + 1
      BY <1>4, <1>8, <2>1
    <3> QED BY <2>1, <3>1 DEF UnderWay
  <2>5. TracesArePast'
    BY <1>1, <1>4, <2>1, TracedPast
  <2>6. CallCounts'
    <3>1. attempt' - 1 = attempt
      BY <1>8, <2>1
    <3>2. \A k \in TracesOfCall(run, call)' : file'[k].what.outcome # "ok"
      BY <1>6, <2>1
    <3>3. pc' # "trace" /\ parseFailures' = parseFailures
      BY <2>1
    <3> QED BY <1>6, <3>1, <3>2, <3>3 DEF CallCounts
  <2>7. QuotesLatest'
    BY <1>1, <1>4, <1>11, RetriedQuotes
  <2>8. ResponsesArePast'
    BY <1>1, <2>1 DEF IInv, ResponsesArePast
  <2>9. ResponseMatchesTraces'
    BY <1>9, <1>10, <2>1
  <2> QED BY <1>4, <1>5, <1>7, <2>2, <2>3, <2>4, <2>5, <2>6, <2>7, <2>8, <2>9 DEF IInv
<1>12. CASE Returned
  <2> DEFINE p == [run |-> run, call |-> call, ok |-> outcome = "ok", attempts |-> attempt,
                   parseFailures |-> parseFailures]
  <2>1. /\ pc' = "idle" /\ ~InCall' /\ responses' = responses \cup {p}
        /\ UNCHANGED <<call, schema, attempt, parseFailures, told, outcome>>
    BY <1>12 DEF Returned, callVars, InCall
  <2>2. TypeOK'
    BY <1>1, <1>5, <1>8, <2>1 DEF IInv, TypeOK, FileTypes, Traces, AllOutcomes
  <2>3. Histories'
    <3>1. p \in [run : 1..MaxRuns, call : 1..MaxLines, ok : BOOLEAN,
                 attempts : Nat, parseFailures : Nat]
      <4>1. /\ run \in 1..MaxRuns /\ call \in 1..MaxLines /\ (outcome = "ok") \in BOOLEAN
            /\ attempt \in Nat /\ parseFailures \in Nat
        BY <1>8 DEF IInv, TypeOK
      <4> QED BY <4>1
    <3> HIDE DEF p
    <3> QED BY <1>1, <1>4, <2>1, <3>1 DEF IInv, Histories, What, Traces, AllOutcomes
  <2>4. UnderWay'
    <3>1. call' <= Len(file')
      BY <1>4, <1>8, <2>1
    <3> QED BY <2>1, <3>1 DEF UnderWay
  <2>5. TracesArePast'
    BY <1>1, <1>4, <2>1, TracedPast
  <2>6. CallCounts' /\ QuotesLatest'
    BY <2>1 DEF CallCounts, QuotesLatest
  <2>7. ResponsesArePast'
    <3>1. p.run = run /\ p.call = call /\ run <= run /\ call <= call
      BY <1>8 DEF IInv, TypeOK
    <3> HIDE DEF p
    <3> QED BY <1>1, <2>1, <3>1 DEF IInv, ResponsesArePast
  <2>8. Fits(p)'
    <3>1. PICK r, c : r = run /\ c = call
      OBVIOUS
    <3>2. /\ TracesOfCall(run, call)' = TracesOfCall(r, c)'
          /\ Malformed(run, call)' = Malformed(r, c)'
      BY <1>1, <1>2, <3>1, Rigid
    <3>3. PICK q : q = p
      OBVIOUS
    <3>4. /\ q.run = r /\ q.call = c /\ q.attempts = attempt /\ q.parseFailures = parseFailures
          /\ q.ok <=> outcome = "ok"
      BY <3>1, <3>3
    <3>5. /\ Cardinality(TracesOfCall(r, c)') = q.attempts
          /\ Cardinality(Malformed(r, c)') = q.parseFailures
          /\ q.ok <=> \E k \in TracesOfCall(r, c)' : file'[k].what.outcome = "ok"
      BY <1>6, <3>2, <3>4
    <3>6. Fits(q)'
      BY <3>4, <3>5 DEF Fits
    <3>7. p' = p
      BY <1>1, <2>1
    <3> QED BY <3>3, <3>6, <3>7 DEF Fits
  <2>9. ResponseMatchesTraces'
    <3>1. p' = p
      BY <1>1, <2>1
    <3> HIDE DEF p
    <3>2. ASSUME NEW q \in responses' PROVE Fits(q)'
      <4>1. CASE q \in responses
        BY <1>9, <4>1
      <4>2. CASE q = p
        BY <2>8, <3>1, <4>2
      <4> QED BY <2>1, <4>1, <4>2
    <3> QED BY <1>10, <3>2
  <2> QED BY <1>4, <1>5, <1>7, <2>2, <2>3, <2>4, <2>5, <2>6, <2>7, <2>9 DEF IInv
<1>13. CASE Raised
  <2>1. /\ pc' = "raised" /\ ~InCall'
        /\ UNCHANGED <<call, schema, attempt, parseFailures, told, outcome, responses>>
    BY <1>13 DEF Raised, callVars, InCall
  <2>2. TypeOK'
    BY <1>1, <1>5, <1>8, <2>1 DEF IInv, TypeOK, FileTypes, Traces, AllOutcomes
  <2>3. Histories'
    BY <1>1, <1>4, <2>1 DEF IInv, Histories, What, Traces, AllOutcomes
  <2>4. UnderWay'
    BY <2>1 DEF UnderWay
  <2>5. TracesArePast'
    BY <1>1, <1>4, <2>1, TracedPast
  <2>6. CallCounts' /\ QuotesLatest'
    BY <2>1 DEF CallCounts, QuotesLatest
  <2>7. ResponsesArePast'
    BY <1>1, <2>1 DEF IInv, ResponsesArePast
  <2>8. ResponseMatchesTraces'
    BY <1>9, <1>10, <2>1
  <2> QED BY <1>4, <1>5, <1>7, <2>2, <2>3, <2>4, <2>5, <2>6, <2>7, <2>8 DEF IInv
<1> QED BY <1>11, <1>12, <1>13 DEF Finally

\* A kill leaves the file alone or cuts the trace being written short.
LEMMA KillKeeps == IInv /\ Kill => IInv'
<1> SUFFICES ASSUME IInv, Kill PROVE IInv'
  OBVIOUS
<1>1. /\ pc' = "killed" /\ ~InCall' /\ kills' = kills + 1
      /\ UNCHANGED <<mode, run, call, schema, attempt, parseFailures, told, outcome, callCount,
                     responses, returned>>
  BY DEF Kill, InCall, callVars
<1>2. Histories'
  BY <1>1 DEF IInv, Histories, What, Traces, AllOutcomes
<1>3. UnderWay' /\ CallCounts' /\ QuotesLatest' /\ OneTracePerAttempt'
  BY <1>1 DEF UnderWay, CallCounts, QuotesLatest, OneTracePerAttempt
<1>4. ResponsesArePast'
  BY <1>1 DEF IInv, ResponsesArePast
<1>5. /\ Grown(file')
      /\ \/ Len(file') = Len(file)
         \/ /\ Len(file') = Len(file) + 1
            /\ \/ file'[Len(file) + 1].what = Stump
               \/ pc = "trace" /\ file'[Len(file) + 1].what = TraceEvent
  <2>1. CASE file' = file
    BY <2>1 DEF IInv, Grown, Filed
  <2>2. CASE pc = "trace" /\ file' \in CutShort(file, TraceEvent)
    <3>1. TraceEvent \in What /\ Filed
      BY <2>2, TraceEventTyped DEF IInv
    <3>2. /\ Grown(file')
          /\ \/ Len(file') = Len(file)
             \/ Len(file') = Len(file) + 1 /\ file'[Len(file) + 1].what \in {Stump, TraceEvent}
      BY <2>2, <3>1, CutShortFacts
    <3> QED BY <2>2, <3>2
  <2> QED BY <2>1, <2>2 DEF Kill
<1>6. DamageConfined'
  <2>1. /\ \A r \in returned : /\ r.offset + 1 \in DOMAIN file'
                               /\ file'[r.offset + 1] = Line(r.event)
        /\ Cardinality(Stumps(file')) <= kills + 1
    BY <1>1, <1>5, GrownDamage
  <2> QED BY <1>1, <2>1 DEF DamageConfined
<1>7. Filed' /\ FileTypes' /\ RetryTellsWhy' /\ ResponseMatchesTraces' /\ TracesArePast'
  <2>1. CASE NoNewTrace
    BY <1>1, <2>1, QuietStep DEF Kill
  <2>2. CASE pc = "trace" /\ NewTrace
    <3>1. Filed' /\ FileTypes' /\ RetryTellsWhy' /\ TracesArePast'
      BY <1>1, <2>2, TracedFile, TracedPast
    <3>2. \A r \in responses' : Fits(r)'
      BY <1>1, <2>2, TracedTraces
    <3> QED BY <3>1, <3>2, ResponsesAsFitsNext
  <2> QED BY <1>1, <1>5, <2>1, <2>2 DEF NoNewTrace, NewTrace
<1>8. TypeOK'
  BY <1>1, <1>7 DEF IInv, TypeOK, FileTypes, Traces, AllOutcomes
<1> QED BY <1>2, <1>3, <1>4, <1>6, <1>7, <1>8 DEF IInv

-----------------------------------------------------------------------------
(***************************************************************************)
(* The theorems                                                            *)
(***************************************************************************)
LEMMA InitInvariant == Init => IInv
<1> SUFFICES ASSUME Init PROVE IInv
  OBVIOUS
<1>1. file = << >> /\ DOMAIN file = {} /\ Len(file) = 0 /\ file \in Seq(Lines)
  BY DEF Init
<1>2. TracesOfRun(run) = {} /\ Stumps(file) = {}
  BY <1>1 DEF TracesOfRun, Stumps
<1>3. Cardinality(TracesOfRun(run)) = 0 /\ Cardinality(Stumps(file)) = 0
  BY <1>2, FS_EmptySet
<1>4. TypeOK
  <2>1. /\ run \in 1..MaxRuns /\ call \in 0..MaxLines /\ attempt \in 0..MaxAttempts
        /\ parseFailures \in 0..MaxAttempts /\ told \in 0..MaxAttempts /\ callCount \in Nat
    BY ModelClientAssumption DEF Init
  <2>2. /\ mode \in {"live", "stub"} /\ schema \in BOOLEAN
        /\ pc \in {"idle", "attempt", "trace", "raised", "killed"}
        /\ outcome \in AllOutcomes \cup {"none"}
    BY DEF Init
  <2> QED BY <1>1, <2>1, <2>2 DEF TypeOK
<1>5. Filed /\ TracesArePast /\ RetryTellsWhy
  BY <1>1 DEF Filed, TracesArePast, RetryTellsWhy
<1>6. Histories /\ ResponsesArePast /\ ResponseMatchesTraces
  BY DEF Init, Histories, ResponsesArePast, ResponseMatchesTraces
<1>7. UnderWay /\ CallCounts /\ QuotesLatest
  BY <1>1 DEF Init, UnderWay, CallCounts, QuotesLatest, InCall
<1>8. OneTracePerAttempt /\ DamageConfined
  BY <1>3 DEF Init, OneTracePerAttempt, DamageConfined
<1> QED BY <1>4, <1>5, <1>6, <1>7, <1>8 DEF IInv

LEMMA StutterKeeps == IInv /\ UNCHANGED vars => IInv'
<1> SUFFICES ASSUME IInv, UNCHANGED vars PROVE IInv'
  OBVIOUS
<1>1. NoNewTrace /\ DamageConfined'
  BY SameFile DEF vars
<1>2. UNCHANGED <<mode, pc, run, call, schema, attempt, parseFailures, told, outcome, callCount,
                  responses, returned, kills>> /\ file' = file
  BY DEF vars, callVars
<1>3. /\ Filed' /\ FileTypes' /\ RetryTellsWhy' /\ ResponseMatchesTraces'
      /\ TracesArePast' /\ OneTracePerAttempt' /\ QuotesLatest' /\ ResponsesArePast'
  BY <1>1, <1>2, QuietStep DEF InCall
<1>4. TypeOK'
  BY <1>2, <1>3 DEF IInv, TypeOK, FileTypes, Traces, AllOutcomes
<1>5. Histories'
  BY <1>2 DEF IInv, Histories, What, Traces, AllOutcomes
<1>6. UnderWay'
  BY <1>2 DEF IInv, UnderWay, InCall, AllOutcomes
<1>7. CallCounts'
  <2>1. InCall' <=> InCall
    BY <1>2 DEF InCall
  <2>2. /\ TracesOfCall(run, call)' = TracesOfCall(run, call)
        /\ Malformed(run, call)' = Malformed(run, call)
    BY <1>1, <1>2, QuietCall
  <2> QED BY <1>2, <2>1, <2>2 DEF IInv, CallCounts
<1> QED BY <1>1, <1>3, <1>4, <1>5, <1>6, <1>7 DEF IInv

\* IInv is inductive: it holds at first, and every step of every call, kill
\* and restart keeps it.
THEOREM SpecInvariant == Spec => []IInv
<1>1. IInv /\ [Next]_vars => IInv'
  BY AttemptedKeeps, LogOtherKeeps, StartCallKeeps, RestartKeeps, FinallyKeeps, KillKeeps,
     StutterKeeps DEF Next
<1> QED BY InitInvariant, <1>1, PTL DEF Spec

\* Every variable keeps its type, for every number of attempts, of starts of
\* the process and of lines (model_client.py).
THEOREM ClientTypeCorrect == Spec => []TypeOK
<1>1. IInv => TypeOK
  BY DEF IInv
<1> QED BY SpecInvariant, <1>1, PTL

\* Invariant I6 (model_client.py:5-7): unless the process was killed, the log
\* holds one trace of its run for every attempt it counted.
THEOREM EveryAttemptIsTraced == Spec => []OneTracePerAttempt
<1>1. IInv => OneTracePerAttempt
  BY DEF IInv
<1> QED BY SpecInvariant, <1>1, PTL

\* What append_event returned for stays whole at its offset, whatever kills
\* come after, and each kill spoils one line at most (events.py:23-55).
THEOREM KillsSpoilOneLine == Spec => []DamageConfined
<1>1. IInv => DamageConfined
  BY DEF IInv
<1> QED BY SpecInvariant, <1>1, PTL

\* A retry quotes the latest malformed attempt of its call and nothing else,
\* whatever failed in between (model_client.py:111-120).
THEOREM RetriesTellWhy == Spec => []RetryTellsWhy
<1>1. IInv => RetryTellsWhy
  BY DEF IInv
<1> QED BY SpecInvariant, <1>1, PTL

\* A response agrees with the traces of its call, also after restarts that log
\* more (model_client.py:8-12).
THEOREM ResponsesMatch == Spec => []ResponseMatchesTraces
<1>1. IInv => ResponseMatchesTraces
  BY DEF IInv
<1> QED BY SpecInvariant, <1>1, PTL

=============================================================================
