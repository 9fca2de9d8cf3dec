------------------------------- MODULE MCBus --------------------------------
(* Bus over small sets of model values. *)
EXTENDS Bus, TLC

\* Events, functions and subscriptions are interchangeable.
Symmetry ==
    Permutations(Event) \cup Permutations(Handler) \cup Permutations(Subscription)
=============================================================================
