----------------------------- MODULE MCProvider -----------------------------
(* Provider for TLC: four bits for sixty-four, an id on each side of the    *)
(* top bit.                                                                *)
EXTENDS Provider, TLC

Symmetry == Permutations(NodeId) \cup Permutations(Number) \cup Permutations(Removal)
=============================================================================
