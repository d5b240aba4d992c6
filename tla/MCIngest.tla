------------------------------ MODULE MCIngest ------------------------------
(***************************************************************************)
(* A small instance of Ingest: a plain account, one of a richer structure  *)
(* that overlaps it, and one of the evaluation pool; two entries a class.  *)
(***************************************************************************)
EXTENDS Ingest

MCFixtures ==
    [plain  |-> [pool |-> "A", signature |-> {"partial"}],
     richer |-> [pool |-> "A", signature |-> {"partial", "unapplied"}],
     held   |-> [pool |-> "B", signature |-> {"partial"}]]

Decision(scenario, pool, action) ==
    [kind |-> "decision", scenario |-> scenario, pool |-> pool, action |-> action]

MCDecisions ==
    {Decision("plain", "A", "approve"), Decision("richer", "A", "edit"),
     Decision("plain", "A", "decline"), Decision("held", "A", "approve")}

=============================================================================
