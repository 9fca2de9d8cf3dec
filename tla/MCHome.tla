------------------------------- MODULE MCHome -------------------------------
(* Home over small sets, every endpoint on one node. *)
EXTENDS Home, TLC

Together == [e \in Endpoint |-> CHOOSE n \in Node : TRUE]

\* Labels and rooms are interchangeable, and so are endpoints of one node and
\* the values that JSON carries.
Symmetry ==
    Permutations(Room) \cup Permutations(Name) \cup Permutations(Value \ Wide)
        \cup Permutations(Endpoint)
=============================================================================
