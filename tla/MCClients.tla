----------------------------- MODULE MCClients ------------------------------
(* Clients over small sets of model values. *)
EXTENDS Clients, TLC

Symmetry ==
    Permutations(Device) \cup Permutations(NodeId)
        \cup Permutations(MatterId) \cup Permutations(Op)
        \cup Permutations(Client)
=============================================================================
