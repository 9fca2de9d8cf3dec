--------------------------- MODULE MCInteractions ---------------------------
(* Instances of Interactions for TLC: an element of each kind, and two        *)
(* values, one of which only the served element takes, beside a wide one.     *)
EXTENDS Interactions, TLC

CONSTANTS served, unserved, unknown, unaddressable, on, off, wide

Elements == {served, unserved, unknown, unaddressable}

Encodes(x, v) == v = off => x = served

Symmetry == Permutations(Call)
=============================================================================
