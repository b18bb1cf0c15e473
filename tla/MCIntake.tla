------------------------------ MODULE MCIntake ------------------------------
(* Instances of module Intake for TLC. *)
EXTENDS Intake

CONSTANTS c1, a1, s1, nokey
=============================================================================
