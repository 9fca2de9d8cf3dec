----------------------------- MODULE MatterIds ------------------------------
(***************************************************************************)
(* The matter id of a node, a uint64, in a table whose integers are int64: *)
(* the conversions of SqliteNodeRepository and the lookups that rely on    *)
(* them.  Half is 2^63 in the code.                                        *)
(***************************************************************************)
EXTENDS Integers, FiniteSets

CONSTANTS
    Half,
    NodeId

ASSUME HalfAssumption == Half \in Nat \ {0}

VARIABLES
    table,      \* the rows of `nodes': node -> the stored matter id
    saved       \* history: node -> the matter id it was saved with

vars == <<table, saved>>

MatterId == 0..(2 * Half - 1)
Stored == (-Half)..(Half - 1)

\* BigInt.asIntN(64, v), for v of 64 bits.
ToStorageId(v) == IF v >= Half THEN v - 2 * Half ELSE v

\* Mutant: one bit too few.
OneBitShort(s) == s % Half

\* BigInt.asUintN(64, s), for s of 64 bits.
FromStorageId(s) == IF s < 0 THEN s + 2 * Half ELSE s

\* findAll, and the row a record is read from.
ToRecord(n) == [id |-> n, matterId |-> FromStorageId(table[n])]

Records == {ToRecord(n) : n \in DOMAIN table}

\* What findByMatterId binds.
Sought(v) == ToStorageId(v)

FindByMatterId(v) == {ToRecord(n) : n \in {m \in DOMAIN table : table[m] = Sought(v)}}

\* The unique index on matter_id is over the stored form.
Insertable(n, v) ==
    n \notin DOMAIN table /\ \A m \in DOMAIN table : table[m] # ToStorageId(v)

Save(n, v) ==
    /\ Insertable(n, v)
    /\ table' = [m \in DOMAIN table \cup {n} |->
                    IF m = n THEN ToStorageId(v) ELSE table[m]]
    /\ saved' = [m \in DOMAIN saved \cup {n} |-> IF m = n THEN v ELSE saved[m]]

Delete(n) ==
    /\ n \in DOMAIN table
    /\ table' = [m \in DOMAIN table \ {n} |-> table[m]]
    /\ saved' = [m \in DOMAIN saved \ {n} |-> saved[m]]

Init == table = [n \in {} |-> 0] /\ saved = [n \in {} |-> 0]

Next ==
    \/ \E n \in NodeId, v \in MatterId : Save(n, v)
    \/ \E n \in NodeId : Delete(n)

Spec == Init /\ [][Next]_vars

-----------------------------------------------------------------------------

\* Every stored id is one the column can hold, of a known node
\* (repositories/node.ts:15).
TypeOK ==
    /\ DOMAIN table \subseteq NodeId /\ DOMAIN saved = DOMAIN table
    /\ \A n \in DOMAIN table : table[n] \in Stored /\ saved[n] \in MatterId

\* A node is read back with the id it was saved with, the top bit set or not:
\* the correlation with the SDK's peers at boot rests on it
\* (repositories/node.ts:9-16, matter.ts:218).
ReadBack == \A n \in DOMAIN table : ToRecord(n).matterId = saved[n]

\* A lookup by matter id finds the node saved with it and no other
\* (repositories/node.ts:59-62).
LookupExact ==
    \A v \in MatterId :
        FindByMatterId(v) =
            {[id |-> n, matterId |-> v] : n \in {m \in DOMAIN saved : saved[m] = v}}

\* An id no node holds can always be saved: two ids never meet in their stored
\* form (migrations.ts, idx_nodes_matter_id).
FreshInsertable ==
    \A n \in NodeId \ DOMAIN table, v \in MatterId :
        (\A m \in DOMAIN saved : saved[m] # v) => Insertable(n, v)
=============================================================================
