--------------------------- MODULE MCConnections ---------------------------
(* Instances of module Connections for TLC. *)
EXTENDS Connections, TLC

CONSTANTS a1, p1, p2, noapp, noone
MCSymmetry == Permutations(Requests)
=============================================================================
