------------------------------- MODULE MCPasses -------------------------------
(***************************************************************************)
(* A small instance of Passes: one scenario per kind of account, two       *)
(* exemplars known and one learned while passes run, and a pass of each    *)
(* kind of retrieval.                                                      *)
(***************************************************************************)
EXTENDS Passes

MCPool ==
    <<[id |-> "partial", signature |-> {"partial"}, ambiguous |-> FALSE],
      [id |-> "unclear", signature |-> {"ambiguous"}, ambiguous |-> TRUE],
      [id |-> "clean", signature |-> {}, ambiguous |-> FALSE]>>

MCCommands ==
    {[label |-> "pass1", retrieval |-> "none"],
     [label |-> "pass2", retrieval |-> "structured"],
     [label |-> "pass2R", retrieval |-> "random"]}

MCLearned ==
    <<[offset |-> 0, signature |-> {"partial"}, weight |-> 1],
      [offset |-> 1, signature |-> {}, weight |-> 2],
      [offset |-> 2, signature |-> {"partial"}, weight |-> 2]>>

=============================================================================
