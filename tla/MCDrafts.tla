------------------------------ MODULE MCDrafts ------------------------------
(* Instances of module Drafts for TLC. *)
EXTENDS Drafts, TLC

CONSTANTS a, b, nobody

MCConvOf == (1 :> a) @@ (2 :> b)
=============================================================================
