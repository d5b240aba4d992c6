-------------------------- MODULE ScenarioContract --------------------------
(***************************************************************************)
(* What verifying one scenario promises to everything downstream of it     *)
(* (balancecheck/runner.py, the module docstring and ScenarioOutcome): at  *)
(* most MaxAttempts drafts, each judged before the next is written, and    *)
(* then one terminal verdict.  A verdict that hands the draft to nobody    *)
(* (abstain, escalate) is closed only after the capability gap behind it   *)
(* is on record; revise is never terminal.  The one way out without a      *)
(* verdict is an exception that the caller sees.                           *)
(***************************************************************************)
EXTENDS Naturals

CONSTANT MaxAttempts   \* a positive number

VARIABLES phase, attempts, verdict, gap

vars == <<phase, attempts, verdict, gap>>

Undecided == {"none", "pending", "revise"}
Terminal  == {"human_gate", "escalate", "abstain"}

Init ==
    /\ phase = "open"
    /\ attempts = 0
    /\ verdict = "none"
    /\ gap = FALSE

\* A draft is written: the first one, or one answering a revise verdict.
Attempt ==
    /\ phase = "open"
    /\ verdict \in {"none", "revise"}
    /\ attempts < MaxAttempts
    /\ attempts' = attempts + 1
    /\ verdict' = "pending"
    /\ UNCHANGED <<phase, gap>>

\* The draft is judged.  The last attempt is never sent back.
Judge ==
    /\ phase = "open"
    /\ verdict = "pending"
    /\ verdict' \in Terminal \cup {"revise"}
    /\ attempts = MaxAttempts => verdict' # "revise"
    /\ UNCHANGED <<phase, attempts, gap>>

\* The records support no draft at all.
AbstainUndrafted ==
    /\ phase = "open"
    /\ verdict = "none"
    /\ verdict' = "abstain"
    /\ UNCHANGED <<phase, attempts, gap>>

\* No acceptable redraft could be produced.
GiveUp ==
    /\ phase = "open"
    /\ verdict = "revise"
    /\ verdict' = "escalate"
    /\ UNCHANGED <<phase, attempts, gap>>

RecordGap ==
    /\ phase = "open"
    /\ verdict \in {"abstain", "escalate"}
    /\ ~gap
    /\ gap' = TRUE
    /\ UNCHANGED <<phase, attempts, verdict>>

Close ==
    /\ phase = "open"
    /\ verdict \in Terminal
    /\ gap <=> verdict # "human_gate"
    /\ phase' = "closed"
    /\ UNCHANGED <<attempts, verdict, gap>>

Abort ==
    /\ phase = "open"
    /\ verdict \in Undecided
    /\ phase' = "aborted"
    /\ UNCHANGED <<attempts, verdict, gap>>

Next ==
    \/ Attempt \/ Judge \/ AbstainUndrafted \/ GiveUp
    \/ RecordGap \/ Close \/ Abort

Safety == Init /\ [][Next]_vars

Spec == Safety /\ WF_vars(Next)

=============================================================================
