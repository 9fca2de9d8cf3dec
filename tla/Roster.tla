------------------------------- MODULE Roster -------------------------------
(***************************************************************************)
(* What the hub promises about the set of nodes a household sees.          *)
(*                                                                         *)
(* A node id is unborn until its node is listed, listed while the          *)
(* database holds it, and gone for good afterwards.  `note' is the domain  *)
(* event published by the latest step.  A change of the list and the event *)
(* that reports it are ONE step: there is no unreported change, no event   *)
(* for a change that did not happen, no second node:removed, and nothing   *)
(* at all is ever said of a node that is gone.                             *)
(***************************************************************************)
CONSTANTS NodeId, None

VARIABLES stage, note

rosterVars == <<stage, note>>

Stages == {"unborn", "listed", "gone"}

\* The events of contract/src/node/events.ts, and the absence of one.
Quiet        == [name |-> "quiet", node |-> None, reachable |-> FALSE]
Added(n, r)  == [name |-> "node:added", node |-> n, reachable |-> r]
Removed(n)   == [name |-> "node:removed", node |-> n, reachable |-> FALSE]
Connected(n) == [name |-> "node:connected", node |-> n, reachable |-> TRUE]
Disconnected(n) ==
    [name |-> "node:disconnected", node |-> n, reachable |-> FALSE]

Init ==
    /\ stage = [n \in NodeId |-> "unborn"]
    /\ note = Quiet

List(n) ==
    /\ stage[n] = "unborn"
    /\ stage' = [stage EXCEPT ![n] = "listed"]
    /\ \E r \in BOOLEAN : note' = Added(n, r)

Delist(n) ==
    /\ stage[n] = "listed"
    /\ stage' = [stage EXCEPT ![n] = "gone"]
    /\ note' = Removed(n)

\* Ids minted for commissionings that never completed are given up in silence.
Abandon ==
    /\ stage' \in [NodeId -> Stages]
    /\ \A n \in NodeId :
          stage'[n] # stage[n] => stage[n] = "unborn" /\ stage'[n] = "gone"
    /\ note' = Quiet

Presence(n) ==
    /\ stage[n] # "gone"
    /\ note' \in {Connected(n), Disconnected(n)}
    /\ UNCHANGED stage

Next ==
    \/ \E n \in NodeId : List(n) \/ Delist(n) \/ Presence(n)
    \/ Abandon

Spec == Init /\ [][Next]_rosterVars
=============================================================================
