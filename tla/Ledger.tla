------------------------------- MODULE Ledger -------------------------------
(***************************************************************************)
(* What the database promises to whoever writes to it: a write, however    *)
(* many statements it takes, is applied and acknowledged in one step, or   *)
(* fails and leaves nothing; it is never applied twice nor ever lost, and  *)
(* the migrations are applied one by one, in their order, before the rest. *)
(***************************************************************************)
EXTENDS Naturals

CONSTANTS
    Last,   \* the number of migrations, which are the writes 1..Last
    Write   \* the other writes

VARIABLES
    version,  \* the migrations applied
    applied,  \* the other writes applied
    told      \* write -> "none", or what its caller was last told

ledgerVars == <<version, applied, told>>

Requests == 1..Last \cup Write

Init ==
    /\ version = 0 /\ applied = {}
    /\ told = [w \in Requests |-> "none"]

\* The caller asks, again perhaps, and has no answer yet.
Ask(w) ==
    /\ told[w] # "ok"
    /\ told' = [told EXCEPT ![w] = "none"]
    /\ UNCHANGED <<version, applied>>

Refuse(w) ==
    /\ told[w] # "ok"
    /\ told' = [told EXCEPT ![w] = "error"]
    /\ UNCHANGED <<version, applied>>

MigrateOne ==
    /\ version < Last
    /\ version' = version + 1
    /\ told' = [told EXCEPT ![version + 1] = "ok"]
    /\ UNCHANGED applied

ApplyOne(w) ==
    /\ version = Last /\ w \notin applied
    /\ applied' = applied \cup {w}
    /\ told' = [told EXCEPT ![w] = "ok"]
    /\ UNCHANGED version

Next ==
    \/ MigrateOne
    \/ \E w \in Write : ApplyOne(w)
    \/ \E w \in Requests : Ask(w) \/ Refuse(w)

Spec == Init /\ [][Next]_ledgerVars
=============================================================================
