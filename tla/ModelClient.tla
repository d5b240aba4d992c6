---------------------------- MODULE ModelClient ----------------------------
(***************************************************************************)
(* The model client (balancecheck/model_client.py) and the event log it    *)
(* traces to (spine/trace.py, spine/events.py).  A call makes up to        *)
(* MaxAttempts attempts; a finally block counts and traces each of them,   *)
(* whatever became of it.  The process may be killed anywhere, inside a    *)
(* write too, and started again on the log that is left.                   *)
(***************************************************************************)
EXTENDS EventLog, FiniteSets

CONSTANTS
    MaxAttempts,   \* cfg.max_attempts
    MaxLines,      \* bound: lines of the log
    MaxRuns        \* bound: starts of the process

ASSUME ModelClientAssumption ==
    /\ MaxAttempts \in Nat \ {0}
    /\ MaxLines \in Nat
    /\ MaxRuns \in Nat \ {0}

VARIABLES
    mode,          \* cfg.mode, "live" or "stub"
    file,          \* the event log
    pc,            \* "idle" between calls, "attempt", "trace",
                   \* "raised" or "killed"
    run,           \* starts of the process, which stand for its run ID
    call,          \* calls this process made
    schema,        \* the call asks for structured output
    attempt,
    parseFailures,
    told,          \* the attempt whose parse error the prompt quotes, or 0
    outcome,       \* what became of the attempt
    callCount,     \* call_count
    responses,     \* history: the responses returned
    returned,      \* history: each event append_event returned for, and
                   \* the offset it returned
    kills          \* history: kills

callVars == <<call, schema, attempt, parseFailures, told, outcome>>
vars == <<mode, file, pc, run, callVars, callCount, responses, returned, kills>>

Init ==
    /\ mode \in {"live", "stub"}
    /\ file = << >>
    /\ pc = "idle"
    /\ run = 1
    /\ call = 0
    /\ schema = FALSE
    /\ attempt = 0
    /\ parseFailures = 0
    /\ told = 0
    /\ outcome = "none"
    /\ callCount = 0
    /\ responses = {}
    /\ returned = {}
    /\ kills = 0

Logged(event) ==
    /\ file' = Appended(file, event)
    /\ returned' = returned \cup {[offset |-> AppendOffset(file), event |-> event]}

\* complete is called.
StartCall ==
    /\ pc = "idle"
    /\ Len(file) + MaxAttempts < MaxLines
    /\ schema' \in BOOLEAN
    /\ call' = call + 1
    /\ attempt' = 1
    /\ parseFailures' = 0
    /\ told' = 0
    /\ outcome' = "none"
    /\ pc' = "attempt"
    /\ UNCHANGED <<mode, file, run, callCount, responses, returned, kills>>

\* What can become of an attempt.  A canned answer is the same every time, and
\* only a malformed one is asked for twice.
Outcomes ==
    (IF schema THEN {"ok", "malformed"} ELSE {"ok"})
      \cup (IF mode = "stub" THEN {"missing"} ELSE {"transport", "interrupted"})

Attempted ==
    /\ pc = "attempt"
    /\ outcome' \in Outcomes
    /\ mode = "stub" /\ attempt > 1 => outcome' = "malformed"
    /\ parseFailures' = IF outcome' = "malformed" THEN parseFailures + 1
                                                  ELSE parseFailures
    /\ pc' = "trace"
    /\ UNCHANGED <<mode, file, run, call, schema, attempt, told, callCount,
                   responses, returned, kills>>

TraceEvent == [kind |-> "trace", run |-> run, call |-> call, attempt |-> attempt,
               told |-> told, outcome |-> outcome]

\* Seeded faults: any failure starts the prompt afresh; the last attempt is
\* followed by another.
Retried_Afresh ==
    /\ outcome = "transport" \/ outcome = "malformed"
    /\ attempt < MaxAttempts
    /\ attempt' = attempt + 1
    /\ told' = IF outcome = "malformed" THEN attempt ELSE 0
    /\ pc' = "attempt"
    /\ UNCHANGED <<call, schema, parseFailures, outcome, responses>>

Retried_Further ==
    /\ outcome = "transport" \/ outcome = "malformed"
    /\ attempt <= MaxAttempts
    /\ attempt' = attempt + 1
    /\ told' = IF outcome = "malformed" THEN attempt ELSE told
    /\ pc' = "attempt"
    /\ UNCHANGED <<call, schema, parseFailures, outcome, responses>>

\* After a failed attempt the next one quotes the last parse error of the call.
Retried ==
    /\ outcome = "transport" \/ outcome = "malformed"
    /\ attempt < MaxAttempts
    /\ attempt' = attempt + 1
    /\ told' = IF outcome = "malformed" THEN attempt ELSE told
    /\ pc' = "attempt"
    /\ UNCHANGED <<call, schema, parseFailures, outcome, responses>>

\* Seeded faults: a successful response forgets the failures before it; a
\* malformed last attempt gives no response.
Returned_Clean ==
    /\ outcome = "ok" \/ (outcome \in {"transport", "malformed"} /\ attempt = MaxAttempts)
    /\ responses' = responses \cup
         {[run |-> run, call |-> call, ok |-> outcome = "ok", attempts |-> attempt,
           parseFailures |-> IF outcome = "ok" THEN 0 ELSE parseFailures]}
    /\ pc' = "idle"
    /\ UNCHANGED callVars

Returned_NotMalformed ==
    /\ outcome = "ok" \/ (outcome = "transport" /\ attempt = MaxAttempts)
    /\ responses' = responses \cup
         {[run |-> run, call |-> call, ok |-> outcome = "ok", attempts |-> attempt,
           parseFailures |-> parseFailures]}
    /\ pc' = "idle"
    /\ UNCHANGED callVars

\* A response: the first success, or the failure of the last attempt.
Returned ==
    /\ outcome = "ok" \/ (outcome \in {"transport", "malformed"} /\ attempt = MaxAttempts)
    /\ responses' = responses \cup
         {[run |-> run, call |-> call, ok |-> outcome = "ok", attempts |-> attempt,
           parseFailures |-> parseFailures]}
    /\ pc' = "idle"
    /\ UNCHANGED callVars

\* A missing canned answer or an interrupt ends the process.
Raised ==
    /\ outcome \in {"missing", "interrupted"}
    /\ pc' = "raised"
    /\ UNCHANGED <<callVars, responses>>

\* Seeded fault: what ends the process is counted and not traced.
Finally_NotRaised ==
    /\ pc = "trace"
    /\ callCount' = callCount + 1
    /\ \/ outcome \in {"missing", "interrupted"} /\ UNCHANGED <<file, returned>>
       \/ outcome \notin {"missing", "interrupted"} /\ Logged(TraceEvent)
    /\ Retried \/ Returned \/ Raised
    /\ UNCHANGED <<mode, run, kills>>

\* The finally block, and how the call goes on.
Finally ==
    /\ pc = "trace"
    /\ callCount' = callCount + 1
    /\ Logged(TraceEvent)
    /\ Retried \/ Returned \/ Raised
    /\ UNCHANGED <<mode, run, kills>>

\* Between calls the process logs events of other kinds.
LogOther ==
    /\ pc = "idle"
    /\ Len(file) < MaxLines
    /\ Logged([kind |-> "other"])
    /\ UNCHANGED <<mode, pc, run, callVars, callCount, responses, kills>>

\* Killed; a trace being written may be cut short.
Kill ==
    /\ pc \notin {"raised", "killed"}
    /\ pc' = "killed"
    /\ kills' = kills + 1
    /\ \/ file' = file
       \/ pc = "trace" /\ file' \in CutShort(file, TraceEvent)
    /\ UNCHANGED <<mode, run, callVars, callCount, responses, returned>>

Restart ==
    /\ pc \in {"raised", "killed"}
    /\ run < MaxRuns
    /\ run' = run + 1
    /\ pc' = "idle"
    /\ call' = 0
    /\ callCount' = 0
    /\ UNCHANGED <<mode, file, schema, attempt, parseFailures, told, outcome,
                   responses, returned, kills>>

Next ==
    \/ StartCall \/ Attempted \/ Finally \/ LogOther
    \/ Kill \/ Restart

Spec == Init /\ [][Next]_vars

\* An attempt ends because the HTTP client has a timeout; a file write ends.
FairSpec == Spec /\ WF_vars(Attempted) /\ WF_vars(Finally)

-----------------------------------------------------------------------------
(***************************************************************************)
(* Properties                                                              *)
(***************************************************************************)
AllOutcomes == {"ok", "malformed", "missing", "transport", "interrupted"}

Traces == [kind : {"trace"}, run : 1..MaxRuns, call : 1..MaxLines,
           attempt : 1..MaxAttempts, told : 0..MaxAttempts, outcome : AllOutcomes]

\* What a write cut short leaves is no event.
ASSUME StumpAssumption == Stump \notin Traces \cup {[kind |-> "other"]}

\* Every variable keeps its type, and only the last line lacks its newline.
TypeOK ==
    /\ mode \in {"live", "stub"}
    /\ \A k \in DOMAIN file :
         /\ file[k].what \in Traces \cup {[kind |-> "other"], Stump}
         /\ file[k].ended \/ k = Len(file)
    /\ pc \in {"idle", "attempt", "trace", "raised", "killed"}
    /\ run \in 1..MaxRuns
    /\ call \in 0..MaxLines
    /\ schema \in BOOLEAN
    /\ attempt \in 0..MaxAttempts
    /\ parseFailures \in 0..MaxAttempts
    /\ told \in 0..MaxAttempts
    /\ outcome \in AllOutcomes \cup {"none"}
    /\ callCount \in Nat

\* The traces of a call, or of a run, as a reader of the log finds them.
IsTrace(k) == file[k].what # Stump /\ file[k].what.kind = "trace"
TracesOfRun(r) == {k \in DOMAIN file : IsTrace(k) /\ file[k].what.run = r}
TracesOfCall(r, c) == {k \in TracesOfRun(r) : file[k].what.call = c}

\* model_client.py:5-7, invariant I6: as long as the process is not killed,
\* the log holds one trace of its run for every attempt it counted - after a
\* timeout, a retry, a missing answer or an interrupt too, and with the stumps
\* of earlier runs in the log.
OneTracePerAttempt ==
    pc # "killed" => Cardinality(TracesOfRun(run)) = callCount

\* events.py:23-26: an event whose append returned stands whole, on a line of
\* its own, at the offset that was returned, whatever kills came before or
\* after; and a kill spoils no line but the one being written.
DamageConfined ==
    /\ \A r \in returned : r.offset + 1 \in DOMAIN file
                             /\ file[r.offset + 1] = Line(r.event)
    /\ Cardinality(Stumps(file)) <= kills

\* model_client.py:111-120: a retry quotes the latest parse error of its call,
\* across transport failures, and nothing else is quoted.
RetryTellsWhy ==
    \A k \in DOMAIN file :
        IsTrace(k) =>
            LET t == file[k].what
                malformed == {file[j].what.attempt :
                                j \in {i \in TracesOfCall(t.run, t.call) :
                                         /\ i < k
                                         /\ file[i].what.outcome = "malformed"}}
            IN  /\ malformed = {} => t.told = 0
                /\ malformed # {} => /\ t.told \in malformed
                                     /\ \A a \in malformed : a <= t.told

\* model_client.py:8-12: a response reports as many attempts and malformed
\* outputs as its call has traces of, and success exactly when the last of
\* them says so.
ResponseMatchesTraces ==
    \A r \in responses :
        LET traces == TracesOfCall(r.run, r.call)
        IN  /\ Cardinality(traces) = r.attempts
            /\ Cardinality({k \in traces : file[k].what.outcome = "malformed"})
                 = r.parseFailures
            /\ r.ok <=> \E k \in traces : file[k].what.outcome = "ok"

\* A call under way comes to a response or an exception, or its process dies.
Settles == pc \in {"attempt", "trace"} ~> pc \in {"idle", "raised", "killed"}

=============================================================================
