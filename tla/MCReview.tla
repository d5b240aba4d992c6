------------------------------ MODULE MCReview ------------------------------
(***************************************************************************)
(* Instances of Review: one pass of two drafts and three reviews, or two   *)
(* passes under one label and two reviews.                                 *)
(***************************************************************************)
EXTENDS Review

=============================================================================
