------------------------------ MODULE MCFabric ------------------------------
(* Fabric over small sets of model values. *)
EXTENDS Fabric, TLC

\* Devices, node ids, fabric ids and requests are interchangeable.
Symmetry ==
    Permutations(Device) \cup Permutations(NodeId)
        \cup Permutations(MatterId) \cup Permutations(Op)
=============================================================================
