--------------------------- MODULE MCModelClient ---------------------------
(***************************************************************************)
(* A small instance of ModelClient: three attempts a call, two runs.       *)
(***************************************************************************)
EXTENDS ModelClient

=============================================================================
