--------------------------- MODULE ProviderProofs ---------------------------
(***************************************************************************)
(* The matter ids of any number of nodes, for a word of any width; and the *)
(* Matter provider over any nodes, endpoints and ids: the table goes       *)
(* through the steps of MatterIds, every stored node is mapped and         *)
(* observed, nothing else is, and only real drops are reported.            *)
(***************************************************************************)
EXTENDS Provider, TLAPS

-----------------------------------------------------------------------------
(* MatterIds *)

\* An id survives the column, and the column holds it
\* (repositories/node.ts:15-16).
LEMMA RoundTrip ==
    ASSUME NEW v \in MatterId
    PROVE  ToStorageId(v) \in Stored /\ FromStorageId(ToStorageId(v)) = v
BY HalfAssumption DEF MatterId, Stored, ToStorageId, FromStorageId

\* Two ids with one stored form are one id.
LEMMA StorageInjective ==
    ASSUME NEW v \in MatterId, NEW w \in MatterId, ToStorageId(v) = ToStorageId(w)
    PROVE  v = w
BY RoundTrip

\* Each row holds the stored form of the id its node was saved with.
Kept == \A n \in DOMAIN table : table[n] = ToStorageId(saved[n])

IInv == TypeOK /\ Kept

\* A node saved or deleted keeps the table and the history in step
\* (repositories/node.ts:65-77).
LEMMA NextKeepsIInv == IInv /\ [Next]_vars => IInv'
<1> SUFFICES ASSUME IInv, [Next]_vars PROVE IInv'
  OBVIOUS
<1>1. ASSUME NEW n \in NodeId, NEW v \in MatterId, Save(n, v) PROVE IInv'
  <2>1. ToStorageId(v) \in Stored
    BY RoundTrip
  <2>2. DOMAIN table' = DOMAIN table \cup {n} /\ DOMAIN saved' = DOMAIN saved \cup {n}
    BY <1>1 DEF Save
  <2>3. \A m \in DOMAIN table' :
          /\ table'[m] = IF m = n THEN ToStorageId(v) ELSE table[m]
          /\ saved'[m] = IF m = n THEN v ELSE saved[m]
    BY <1>1, <2>2 DEF Save, IInv, TypeOK
  <2>4. TypeOK'
    BY <2>1, <2>2, <2>3 DEF IInv, TypeOK
  <2>5. Kept'
    BY <2>2, <2>3 DEF IInv, TypeOK, Kept
  <2> QED BY <2>4, <2>5 DEF IInv
<1>2. ASSUME NEW n \in NodeId, Delete(n) PROVE IInv'
  BY <1>2 DEF Delete, IInv, TypeOK, Kept
<1>3. CASE UNCHANGED vars
  BY <1>3 DEF vars, IInv, TypeOK, Kept
<1> QED BY <1>1, <1>2, <1>3 DEF Next

\* The table and the history stay in step whatever is saved and deleted.
THEOREM Invariance == Spec => []IInv
<1>1. Init => IInv
  BY DEF Init, IInv, TypeOK, Kept
<1> QED BY <1>1, NextKeepsIInv, PTL DEF Spec

\* The rows and the history keep their types, for any width.
THEOREM TypeCorrect == Spec => []TypeOK
<1>1. IInv => TypeOK
  BY DEF IInv
<1> QED BY <1>1, Invariance, PTL

\* A node is read back with the id it was saved with.
THEOREM AlwaysReadBack == Spec => []ReadBack
<1>1. IInv => ReadBack
  BY RoundTrip DEF IInv, TypeOK, Kept, ReadBack, ToRecord
<1> QED BY <1>1, Invariance, PTL

\* A lookup by matter id finds the node saved with it and no other.
THEOREM AlwaysLookupExact == Spec => []LookupExact
<1>1. IInv => LookupExact
  <2> SUFFICES ASSUME IInv, NEW v \in MatterId
               PROVE  FindByMatterId(v) =
                        {[id |-> n, matterId |-> v] : n \in {m \in DOMAIN saved : saved[m] = v}}
    BY DEF LookupExact
  <2>1. ASSUME NEW m \in DOMAIN table PROVE table[m] = Sought(v) <=> saved[m] = v
    BY <2>1, StorageInjective DEF IInv, TypeOK, Kept, Sought
  <2>2. ASSUME NEW m \in DOMAIN table, saved[m] = v
        PROVE  ToRecord(m) = [id |-> m, matterId |-> v]
    BY <2>2, RoundTrip DEF IInv, TypeOK, Kept, ToRecord
  <2>3. {m \in DOMAIN table : table[m] = Sought(v)} = {m \in DOMAIN saved : saved[m] = v}
    BY <2>1 DEF IInv, TypeOK
  <2> QED BY <2>2, <2>3 DEF FindByMatterId, IInv, TypeOK
<1> QED BY <1>1, Invariance, PTL

\* An id no node holds can always be saved, for a node that is not there.
THEOREM AlwaysFreshInsertable == Spec => []FreshInsertable
<1>1. IInv => FreshInsertable
  <2> SUFFICES ASSUME IInv, NEW n \in NodeId \ DOMAIN table, NEW v \in MatterId,
                      \A m \in DOMAIN saved : saved[m] # v
               PROVE  Insertable(n, v)
    BY DEF FreshInsertable
  <2>1. ASSUME NEW m \in DOMAIN table, table[m] = ToStorageId(v) PROVE FALSE
    BY <2>1, StorageInjective DEF IInv, TypeOK, Kept
  <2> QED BY <2>1 DEF Insertable
<1> QED BY <1>1, Invariance, PTL

-----------------------------------------------------------------------------
(* Provider *)

Id == Assignable \cup {None}

RemovalRecord ==
    [at : {"none", "removing", "removed", "dropping"}, node : NodeId \cup {None}, peer : Id]

PTypeOK ==
    /\ stored \in [NodeId -> SUBSET Number]
    /\ serves \in [Assignable -> SUBSET Number]
    /\ nodes \in [NodeId -> Id]
    /\ endpoints \in [EndpointId -> Id]
    /\ listed \in [NodeId -> SUBSET Number]
    /\ hears \subseteq Watcher
    /\ groups \in [Watcher -> SUBSET NodeId]
    /\ removal \in [Removal -> RemovalRecord]
    /\ \A r \in Removal :
          /\ removal[r].at # "none" => removal[r].node \in NodeId
          /\ removal[r].at = "removing" => removal[r].peer \in Assignable
    /\ leaving \subseteq NodeId /\ overtaken \subseteq Removal
    /\ joining \in [at : {"none", "joined", "registered"}, peer : Id, node : NodeId \cup {None}]
    /\ joining.at # "none" => joining.peer \in Assignable
    /\ joining.at = "registered" => joining.node \in NodeId
    /\ phase \in Phases

\* The watchers listen exactly while the provider is up, or one of them had
\* just been started when the boot failed; a commissioning is only under way
\* once it has been up.
Listening ==
    /\ phase = "up" => hears = Watcher
    /\ phase \in {"down", "starting", "closing"} => hears = {}
    /\ phase \in {"down", "starting", "failed"} => joining = NoJoin

\* An observer is a listening watcher's, on a peer; an endpoint id that is
\* mapped is in the list that removeNode will go by.
Owned ==
    /\ \A o \in observers : o.by \in hears /\ o.node \in NodeId /\ o.peer \in Assignable
    /\ \A e \in EndpointId : endpoints[e] # None => e[2] \in listed[e[1]]

Mine(n) == {o \in observers : o.node = n}

\* What both watchers attach for node n on peer m, with endpoints ks, of a peer
\* that has the endpoints `has'.
View(w, n, m, ks, has) ==
    [by : {w}, node : {n}, peer : {m},
     on : IF w = "node" THEN {"online", "offline"} ELSE ks \cap has]
Views(n, m, ks, has) == UNION {View(w, n, m, ks, has) : w \in Watcher}

\* Node n is mapped to peer m, and all of it is observed.
Observed(n, m, ks, has) ==
    /\ nodes[n] = m
    /\ \A k \in ks : endpoints[<<n, k>>] = m
    /\ Mine(n) = Views(n, m, ks, has)

StoredKept ==
    phase = "up" =>
        \A n \in DOMAIN saved :
            saved[n] \in Peers => Observed(n, saved[n], stored[n], serves[saved[n]])

\* A node that is registered and not yet saved is observed as the saved ones.
JoiningKept ==
    joining.at = "registered" =>
        /\ joining.node \notin DOMAIN table
        /\ ~\E r \in Removal : Removes(r, joining.node)
        /\ phase = "up" /\ joining.peer \in Peers =>
              Observed(joining.node, joining.peer, serves[joining.peer], serves[joining.peer])

\* A removal that calls the SDK for a stored node asks for its peer, and once
\* that was removed no device has the node's matter id again.
RemovalKept ==
    \A r \in Removal, n \in DOMAIN saved :
        removal[r].node = n =>
            /\ removal[r].at = "removing" /\ saved[n] \in Peers => removal[r].peer = saved[n]
            /\ removal[r].at = "removed" => saved[n] \notin Peers

\* A removal under way has its flag up, unless another took it down.
FlagKept == \A r \in Removal, n \in NodeId : Underway(r, n) => n \in leaving \/ r \in overtaken

PInv == /\ IInv /\ PTypeOK /\ Listening /\ Owned /\ NoGhosts
        /\ StoredKept /\ JoiningKept /\ RemovalKept /\ FlagKept

-----------------------------------------------------------------------------
(* What is attached, and what a quiet step keeps *)

\* An observer says who attached it, for which node and on which peer.
LEMMA AttachedFields ==
    ASSUME NEW w, NEW n, NEW m, NEW ks, NEW o \in Attached(w, n, m, ks)
    PROVE  o.by = w /\ o.node = n /\ o.peer = m
BY DEF Attached

\* What both watchers attach, with the peer's endpoints read now.
LEMMA AttachedViews ==
    ASSUME NEW n, NEW m, NEW ks
    PROVE  UNION {Attached(w, n, m, ks) : w \in Watcher} = Views(n, m, ks, serves[m])
BY DEF Attached, View, Views

\* The rows that a step leaves alone stay as they were.
LEMMA RowsKept == IInv /\ UNCHANGED <<table, saved>> => IInv'
BY NextKeepsIInv DEF vars

\* What is said of the nodes outlives a step that touches neither the index nor
\* the observers nor the peers.
LEMMA IdleKeeps ==
    ASSUME PInv, UNCHANGED <<disk, phase, index, watching, removals, joining>>
    PROVE  PInv'
<1> USE DEF disk, index, watching, removals
<1>1. IInv'
  BY RowsKept DEF PInv
<1>2. PTypeOK' /\ Listening' /\ Owned' /\ NoGhosts'
  BY DEF PInv, PTypeOK, Listening, Owned, NoGhosts
<1>3. StoredKept' /\ JoiningKept' /\ RemovalKept' /\ FlagKept'
  BY DEF PInv, StoredKept, JoiningKept, RemovalKept, FlagKept, Removes, Underway, Observed, Mine, Peers
<1> QED BY <1>1, <1>2, <1>3 DEF PInv

-----------------------------------------------------------------------------
(* The life of the provider *)

\* Nothing is stored, mapped or observed at first.
LEMMA InitHolds == ProviderInit => PInv
<1> SUFFICES ASSUME ProviderInit PROVE PInv
  OBVIOUS
<1>1. IInv /\ DOMAIN table = {} /\ DOMAIN saved = {}
  BY DEF ProviderInit, Init, IInv, TypeOK, Kept
<1>2. PTypeOK
  BY DEF ProviderInit, PTypeOK, RemovalRecord, Id, Phases, NoRemoval, NoJoin
<1>3. Listening /\ Owned /\ NoGhosts
  BY DEF ProviderInit, Listening, Owned, NoGhosts
<1>4. StoredKept /\ JoiningKept /\ RemovalKept /\ FlagKept
  BY <1>1 DEF ProviderInit, StoredKept, JoiningKept, RemovalKept, FlagKept, Underway, NoJoin, NoRemoval
<1> QED BY <1>1, <1>2, <1>3, <1>4 DEF PInv

\* A process that is launched, or has ended, knows nothing.
LEMMA FreshKeeps ==
    ASSUME PInv, Fresh, UNCHANGED disk, phase' \in {"down", "starting"}
    PROVE  PInv'
<1>1. IInv'
  BY RowsKept DEF PInv, disk
<1>2. PTypeOK'
  BY DEF Fresh, disk, PInv, PTypeOK, RemovalRecord, Id, Phases, NoRemoval, NoJoin
<1>3. Listening' /\ Owned' /\ NoGhosts'
  BY DEF Fresh, Listening, Owned, NoGhosts
<1>4. StoredKept' /\ JoiningKept' /\ RemovalKept' /\ FlagKept'
  <2>1. \A r \in Removal : removal'[r].at = "none"
    BY DEF Fresh, NoRemoval
  <2> QED BY <2>1 DEF Fresh, StoredKept, JoiningKept, RemovalKept, FlagKept, Underway, NoJoin
<1> QED BY <1>1, <1>2, <1>3, <1>4 DEF PInv

\* Hydration maps each row to the peer of its matter id, if the SDK has it.
LEMMA Correlates ==
    ASSUME PInv, NEW n \in NodeId
    PROVE  /\ Correlated(n) \in Id
           /\ n \in DOMAIN saved /\ saved[n] \in Peers => Correlated(n) = saved[n]
<1>1. n \in DOMAIN saved => n \in DOMAIN table /\ ToRecord(n).matterId = saved[n]
  BY RoundTrip DEF PInv, IInv, TypeOK, Kept, ToRecord
<1> QED BY <1>1 DEF Correlated, Id, Peers

\* What hydration fills in agrees with itself.
LEMMA HydrateTypes ==
    ASSUME PInv, Hydrate
    PROVE  /\ nodes' \in [NodeId -> Id] /\ endpoints' \in [EndpointId -> Id]
           /\ listed' \in [NodeId -> SUBSET Number]
           /\ \A e \in EndpointId : /\ endpoints'[e] \in {None, nodes'[e[1]]}
                                    /\ endpoints'[e] # None => e[2] \in listed'[e[1]]
<1>1. nodes' \in [NodeId -> Id] /\ listed' \in [NodeId -> SUBSET Number]
  BY Correlates DEF Hydrate, PInv, PTypeOK
<1>2. ASSUME NEW e \in EndpointId
      PROVE  /\ e[1] \in NodeId /\ endpoints'[e] \in {None, nodes'[e[1]]}
             /\ endpoints'[e] # None => e[2] \in listed'[e[1]]
  <2>1. e[1] \in NodeId
    BY DEF EndpointId
  <2> QED BY <2>1 DEF Hydrate
<1>3. endpoints' \in [EndpointId -> Id]
  <2>1. \A e \in EndpointId : endpoints'[e] \in Id
    BY <1>1, <1>2 DEF Id
  <2> QED BY <2>1 DEF Hydrate
<1> QED BY <1>1, <1>2, <1>3

\* The walk of both watchers observes every node that hydration mapped.
LEMMA StartedKeeps == ASSUME PInv, Started PROVE PInv'
<1> USE DEF disk
<1>1. IInv'
  BY RowsKept DEF PInv, Started
<1>2. PTypeOK'
  BY HydrateTypes DEF Started, Walk, PInv, PTypeOK, removals, Phases
<1>3. joining' = NoJoin
  BY DEF Started, PInv, Listening
<1>4. Listening'
  BY <1>3 DEF Started, Listening
<1>5. \A o \in observers' : \E w \in Watcher, n \in Walk :
          o.by = w /\ o.node = n /\ o.peer = nodes'[n]
  BY AttachedFields DEF Started
<1>6. Owned' /\ NoGhosts'
  <2>1. \A n \in Walk : n \in NodeId /\ nodes'[n] \in Assignable
    BY HydrateTypes DEF Started, Walk, Id
  <2> QED BY <1>5, <2>1, HydrateTypes DEF Started, Owned, NoGhosts
<1>7. StoredKept'
  <2> SUFFICES ASSUME NEW n \in DOMAIN saved, saved[n] \in Peers
               PROVE  Observed(n, saved[n], stored[n], serves[saved[n]])'
    BY DEF Started, StoredKept, Peers
  <2>1. n \in NodeId /\ Correlated(n) = saved[n]
    BY Correlates DEF PInv, IInv, TypeOK
  <2>2. saved[n] # None
    BY AssignableAssumption, NoneAssumption DEF Peers
  <2>3. nodes'[n] = saved[n] /\ listed'[n] = stored[n] /\ n \in Walk
    BY <2>1, <2>2 DEF Started, Hydrate, Walk
  <2>4. \A k \in stored[n] : endpoints'[<<n, k>>] = saved[n]
    <3>1. \A k \in stored[n] : <<n, k>> \in EndpointId
      BY <2>1 DEF EndpointId, PInv, PTypeOK
    <3> QED BY <2>1, <3>1 DEF Started, Hydrate
  <2>5. {o \in observers' : o.node = n} = UNION {Attached(w, n, saved[n], stored[n]) : w \in Watcher}
    <3>1. ASSUME NEW o \in observers', o.node = n
          PROVE  o \in UNION {Attached(w, n, saved[n], stored[n]) : w \in Watcher}
      <4>1. PICK w \in Watcher, j \in Walk : o \in Attached(w, j, nodes'[j], listed'[j])
        BY DEF Started
      <4>2. j = n
        BY <3>1, <4>1, AttachedFields
      <4> QED BY <2>3, <4>1, <4>2
    <3>2. ASSUME NEW w \in Watcher, NEW o \in Attached(w, n, saved[n], stored[n])
          PROVE  o \in observers' /\ o.node = n
      <4>1. o.node = n
        BY AttachedFields
      <4>2. o \in Attached(w, n, nodes'[n], listed'[n])
        BY <2>3
      <4> QED BY <2>3, <4>1, <4>2 DEF Started
    <3> QED BY <3>1, <3>2
  <2>6. {o \in observers' : o.node = n} = Views(n, saved[n], stored[n], serves[saved[n]])
    BY <2>5, AttachedViews
  <2> QED BY <2>3, <2>4, <2>6 DEF Started, Observed, Mine
<1>8. JoiningKept' /\ RemovalKept' /\ FlagKept'
  BY <1>3 DEF Started, PInv, JoiningKept, RemovalKept, FlagKept, Underway, removals, NoJoin, Peers
<1> QED BY <1>1, <1>2, <1>4, <1>6, <1>7, <1>8 DEF PInv

\* A walk that is cut short leaves observers of mapped nodes only.
LEMMA StartFailsKeeps == ASSUME PInv, StartFails PROVE PInv'
<1> USE DEF disk
<1>1. IInv'
  BY RowsKept DEF PInv, StartFails
<1>2. PICK w \in Watcher, n \in Walk, before \in SUBSET Walk :
      \E part \in Partly(w, n, nodes'[n], listed'[n]) : CutShort(w, n, before, part)
  BY Zenon DEF StartFails
<1>3. PICK part \in Partly(w, n, nodes'[n], listed'[n]) : CutShort(w, n, before, part)
  BY <1>2
<1>4. hears' \subseteq Watcher /\ w \in hears' /\ Walk \subseteq NodeId
  BY <1>3 DEF Walk, Watcher, CutShort
<1>5. PTypeOK'
  <2>1. groups' \in [Watcher -> SUBSET NodeId]
    BY <1>3, <1>4 DEF CutShort
  <2> QED BY <1>4, <2>1, HydrateTypes DEF StartFails, PInv, PTypeOK, removals, Phases
<1>6. Listening'
  BY DEF StartFails, PInv, Listening
<1>7. \A o \in observers' : \E v \in hears' : \E k \in groups'[v] :
          o.by = v /\ o.node = k /\ o.peer = nodes'[k] /\ k \in Walk
  <2> SUFFICES ASSUME NEW o \in observers'
               PROVE  \E v \in hears' : \E k \in groups'[v] :
                         o.by = v /\ o.node = k /\ o.peer = nodes'[k] /\ k \in Walk
    OBVIOUS
  <2>1. ASSUME NEW v \in hears', NEW k \in Walk, k \in groups'[v],
               o \in Attached(v, k, nodes'[k], listed'[k])
        PROVE  \E u \in hears' : \E j \in groups'[u] :
                  o.by = u /\ o.node = j /\ o.peer = nodes'[j] /\ j \in Walk
    BY <2>1, AttachedFields
  <2>2. CASE \E v \in hears' \ {w}, k \in Walk : o \in Attached(v, k, nodes'[k], listed'[k])
    <3>1. PICK v \in hears' \ {w}, k \in Walk : o \in Attached(v, k, nodes'[k], listed'[k])
      BY <2>2
    <3>2. k \in groups'[v]
      BY <1>3, <1>4, <3>1 DEF CutShort
    <3> QED BY <2>1, <3>1, <3>2
  <2>3. CASE \E k \in before : o \in Attached(w, k, nodes'[k], listed'[k])
    <3>1. PICK k \in before : o \in Attached(w, k, nodes'[k], listed'[k])
      BY <2>3
    <3>2. k \in Walk /\ k \in groups'[w]
      BY <1>3, <3>1 DEF CutShort
    <3> QED BY <1>4, <2>1, <3>1, <3>2
  <2>4. CASE o \in part
    <3>1. o \in Attached(w, n, nodes'[n], listed'[n]) /\ n \in groups'[w]
      BY <1>3, <2>4 DEF Partly, CutShort
    <3> QED BY <1>4, <2>1, <3>1
  <2>5. \/ \E v \in hears' \ {w}, k \in Walk : o \in Attached(v, k, nodes'[k], listed'[k])
        \/ \E k \in before : o \in Attached(w, k, nodes'[k], listed'[k])
        \/ o \in part
    BY <1>3 DEF CutShort
  <2> QED BY <2>2, <2>3, <2>4, <2>5
<1>8. Owned' /\ NoGhosts'
  <2>1. \A k \in Walk : k \in NodeId /\ nodes'[k] \in Assignable
    BY HydrateTypes DEF StartFails, Walk, Id
  <2> QED BY <1>7, <2>1, HydrateTypes DEF StartFails, Owned, NoGhosts
<1>9. StoredKept' /\ JoiningKept' /\ RemovalKept' /\ FlagKept'
  BY DEF StartFails, PInv, Listening, StoredKept, JoiningKept, RemovalKept, FlagKept, Underway,
         removals, NoJoin, Peers
<1> QED BY <1>1, <1>5, <1>6, <1>8, <1>9 DEF PInv

\* A stop closes every group, and nothing is observed any more.
LEMMA StopKeeps == ASSUME PInv, Stop PROVE PInv'
<1> USE DEF disk
<1>1. IInv'
  BY RowsKept DEF PInv, Stop
<1>2. PTypeOK'
  BY DEF Stop, StopWatchers, PInv, PTypeOK, removals, Id, Phases
<1>3. observers' = {}
  BY DEF Stop, StopWatchers, PInv, NoGhosts
<1>4. Listening' /\ Owned' /\ NoGhosts'
  BY <1>3 DEF Stop, StopWatchers, Listening, Owned, NoGhosts
<1>5. StoredKept' /\ JoiningKept' /\ RemovalKept' /\ FlagKept'
  BY DEF Stop, PInv, StoredKept, JoiningKept, RemovalKept, FlagKept, Removes, Underway, removals,
         Peers
<1> QED BY <1>1, <1>2, <1>4, <1>5 DEF PInv

-----------------------------------------------------------------------------
(* A commissioning *)

\* A device joins: no stored node has its matter id.
LEMMA JoinKeeps == ASSUME PInv, NEW m \in Assignable, Join(m) PROVE PInv'
<1> USE DEF index, watching
<1>1. IInv'
  BY RowsKept DEF PInv, Join
<1>2. PTypeOK'
  BY DEF Join, PInv, PTypeOK, removals, Id
<1>3. Listening' /\ Owned' /\ NoGhosts'
  BY DEF Join, PInv, Listening, Owned, NoGhosts
<1>4. \A n \in DOMAIN saved :
          saved[n] \in Peers' => saved[n] \in Peers /\ serves'[saved[n]] = serves[saved[n]]
  BY DEF Join, PInv, PTypeOK, Peers
<1>5. StoredKept' /\ JoiningKept' /\ RemovalKept' /\ FlagKept'
  BY <1>4 DEF Join, PInv, StoredKept, JoiningKept, RemovalKept, FlagKept, Underway, removals,
              Observed, Mine
<1> QED BY <1>1, <1>2, <1>3, <1>5 DEF PInv

\* Nothing is observed for a node that nobody knows.
LEMMA UnknownUnseen ==
    ASSUME PInv, NEW n \in NodeId, Unknown(n)
    PROVE  /\ Mine(n) = {} /\ n \notin DOMAIN saved
           /\ \A e \in EndpointId : e[1] = n => endpoints[e] = None
<1>1. \A o \in observers : o.node # n
  BY AssignableAssumption, NoneAssumption DEF PInv, Owned, NoGhosts, Unknown
<1> QED BY <1>1 DEF Mine, PInv, IInv, TypeOK, NoGhosts, Unknown

\* Node n is mapped, and nothing but `more' is attached, for it alone.
Adds(n, m, ks, more) ==
    /\ Unknown(n) /\ Mapped(n, m, ks)
    /\ observers' = observers \cup more
    /\ groups' \in [Watcher -> SUBSET NodeId]
    /\ \A w \in Watcher : groups[w] \subseteq groups'[w]
    /\ \A o \in more : /\ o.by \in hears /\ o.node = n /\ o.peer = m
                       /\ n \in groups'[o.by]
    /\ UNCHANGED <<disk, phase, hears, removals>>

\* A node that is mapped, and what is attached for it, disturb no other.
LEMMA MappedKeeps ==
    ASSUME PInv, NEW n \in NodeId, NEW m \in Assignable, NEW ks \in SUBSET Number,
           NEW more, Adds(n, m, ks, more)
    PROVE  /\ IInv' /\ Owned' /\ NoGhosts' /\ StoredKept' /\ RemovalKept' /\ FlagKept'
           /\ nodes' \in [NodeId -> Id] /\ endpoints' \in [EndpointId -> Id]
           /\ listed' \in [NodeId -> SUBSET Number]
<1> USE DEF disk, Adds
<1>1. IInv'
  BY RowsKept DEF PInv
<1>2. /\ nodes' \in [NodeId -> Id] /\ endpoints' \in [EndpointId -> Id]
      /\ listed' \in [NodeId -> SUBSET Number]
  BY DEF Mapped, PInv, PTypeOK, Id
<1>3. \A e \in EndpointId :
          endpoints'[e] = IF e[1] = n /\ e[2] \in ks THEN m ELSE endpoints[e]
  BY DEF Mapped
<1>4. \A j \in NodeId : /\ nodes'[j] = IF j = n THEN m ELSE nodes[j]
                        /\ listed'[j] = IF j = n THEN ks ELSE listed[j]
  BY DEF Mapped, PInv, PTypeOK
<1>5. \A e \in EndpointId : e[1] \in NodeId
  BY DEF EndpointId
<1>6. \A o \in observers : o.node # n /\ o.node \in NodeId /\ o.by \in Watcher
  BY UnknownUnseen DEF Mine, PInv, Owned, PTypeOK
<1>7. Owned'
  BY <1>3, <1>4, <1>5, UnknownUnseen DEF PInv, Owned
<1>8. NoGhosts'
  <2>1. \A o \in observers' : nodes'[o.node] = o.peer /\ o.node \in groups'[o.by]
    BY <1>4, <1>6 DEF PInv, NoGhosts
  <2>2. \A e \in EndpointId : endpoints'[e] \in {None, nodes'[e[1]]}
    BY <1>3, <1>4, <1>5, UnknownUnseen DEF PInv, NoGhosts
  <2> QED BY <2>1, <2>2 DEF NoGhosts
<1>9. StoredKept'
  <2> SUFFICES ASSUME phase = "up", NEW j \in DOMAIN saved, saved[j] \in Peers
               PROVE  Observed(j, saved[j], stored[j], serves[saved[j]])'
    BY DEF StoredKept, Peers
  <2>1. j \in NodeId /\ j # n
    BY UnknownUnseen DEF PInv, IInv, TypeOK
  <2>2. Observed(j, saved[j], stored[j], serves[saved[j]])
    BY DEF PInv, StoredKept
  <2>3. Mine(j)' = Mine(j)
    BY <2>1 DEF Mine
  <2>4. \A k \in stored[j] : endpoints'[<<j, k>>] = endpoints[<<j, k>>]
    <3>1. \A k \in stored[j] : <<j, k>> \in EndpointId
      BY <2>1 DEF EndpointId, PInv, PTypeOK
    <3> QED BY <1>3, <2>1, <3>1
  <2> QED BY <1>4, <2>1, <2>2, <2>3, <2>4 DEF Observed, Views, View
<1>10. RemovalKept' /\ FlagKept'
  BY DEF PInv, RemovalKept, FlagKept, Underway, removals, Peers
<1> QED BY <1>1, <1>2, <1>7, <1>8, <1>9, <1>10

\* Every watcher that listens hears of the new node.
LEMMA RegisterKeeps == ASSUME PInv, Register PROVE PInv'
<1>1. PICK m \in Assignable, ks \in SUBSET Number : m = joining.peer /\ ks = serves[m]
  BY DEF Register, PInv, PTypeOK
<1>2. PICK n \in NodeId :
        /\ Unknown(n)
        /\ Mapped(n, m, ks)
        /\ groups' = [w \in Watcher |->
                         IF w \in hears THEN groups[w] \cup {n} ELSE groups[w]]
        /\ observers' = observers \cup UNION {Attached(w, n, m, ks) : w \in hears}
        /\ joining' = [at |-> "registered", peer |-> m, node |-> n]
  BY <1>1 DEF Register
<1> DEFINE more == UNION {Attached(w, n, m, ks) : w \in hears}
<1>3. groups' \in [Watcher -> SUBSET NodeId] /\ \A w \in Watcher : groups[w] \subseteq groups'[w]
  BY <1>2 DEF PInv, PTypeOK
<1>4. \A o \in more : o.by \in hears /\ o.node = n /\ o.peer = m /\ n \in groups'[o.by]
  BY <1>2, AttachedFields DEF PInv, PTypeOK
<1>5. observers' = observers \cup more
  BY <1>2
<1>6. UNCHANGED <<disk, phase, hears, removals>>
  BY DEF Register
<1> HIDE DEF more
<1>7. /\ IInv' /\ Owned' /\ NoGhosts' /\ StoredKept' /\ RemovalKept' /\ FlagKept'
      /\ nodes' \in [NodeId -> Id] /\ endpoints' \in [EndpointId -> Id]
      /\ listed' \in [NodeId -> SUBSET Number]
  <2>1. Adds(n, m, ks, more)
    BY <1>2, <1>3, <1>4, <1>5, <1>6 DEF Adds
  <2> QED BY <2>1, MappedKeeps
<1>8. PTypeOK'
  BY <1>2, <1>3, <1>6, <1>7 DEF disk, PInv, PTypeOK, removals, Id
<1>9. Listening'
  BY DEF Register, PInv, Listening, NoJoin
<1>10. JoiningKept'
  <2>1. n \notin DOMAIN table' /\ ~\E r \in Removal : Removes(r, n)'
    BY <1>2, <1>6 DEF disk, Unknown, Removes, removals
  <2>2. ASSUME phase = "up" PROVE Observed(n, m, ks, serves[m])'
    <3>1. hears = Watcher /\ \A o \in observers : o.node # n
      BY <1>2, <2>2, UnknownUnseen DEF PInv, Listening, Mine
    <3>2. more = Views(n, m, ks, serves[m])
      BY <3>1, AttachedViews DEF more
    <3>3. {o \in observers' : o.node = n} = more
      BY <1>4, <1>5, <3>1
    <3>4. nodes'[n] = m
      BY <1>2 DEF Mapped, PInv, PTypeOK
    <3>5. \A k \in ks : endpoints'[<<n, k>>] = m
      BY <1>1, <1>2 DEF Mapped, EndpointId
    <3> QED BY <1>6, <3>2, <3>3, <3>4, <3>5 DEF disk, Observed, Mine
  <2>3. ks = serves'[m]
    BY <1>1, <1>6 DEF disk
  <2> QED BY <1>2, <1>6, <2>1, <2>2, <2>3 DEF JoiningKept, Removes
<1> QED BY <1>7, <1>8, <1>9, <1>10 DEF PInv

\* Whatever the attach that throws leaves behind is the new node's own.
LEMMA RegisterFailsKeeps == ASSUME PInv, RegisterFails PROVE PInv'
<1>1. PICK m \in Assignable, ks \in SUBSET Number : m = joining.peer /\ ks = serves[m]
  BY DEF RegisterFails, PInv, PTypeOK
<1>2. PICK n \in NodeId, w \in hears :
      \E part \in Partly(w, n, m, ks) :
         /\ Unknown(n)
         /\ Mapped(n, m, ks)
         /\ groups' = [v \in Watcher |->
                          IF v = w \/ v = "node" THEN groups[v] \cup {n} ELSE groups[v]]
         /\ observers' = observers \cup part \cup
               (IF w = "endpoint" THEN Attached("node", n, m, ks) ELSE {})
  BY <1>1 DEF RegisterFails
<1>3. PICK part \in Partly(w, n, m, ks) :
         /\ Unknown(n)
         /\ Mapped(n, m, ks)
         /\ groups' = [v \in Watcher |->
                          IF v = w \/ v = "node" THEN groups[v] \cup {n} ELSE groups[v]]
         /\ observers' = observers \cup part \cup
               (IF w = "endpoint" THEN Attached("node", n, m, ks) ELSE {})
  BY <1>2
<1> DEFINE more == part \cup (IF w = "endpoint" THEN Attached("node", n, m, ks) ELSE {})
<1>4. hears = Watcher
  BY DEF RegisterFails, PInv, PTypeOK, Listening, Phases, NoJoin
<1>5. groups' \in [Watcher -> SUBSET NodeId] /\ \A v \in Watcher : groups[v] \subseteq groups'[v]
  BY <1>3 DEF PInv, PTypeOK
<1>6. \A o \in more : o.by \in hears /\ o.node = n /\ o.peer = m /\ n \in groups'[o.by]
  <2>1. w \in Watcher /\ n \in groups'[w] /\ n \in groups'["node"] /\ "node" \in Watcher
    BY <1>3, <1>4 DEF Watcher, PInv, PTypeOK
  <2>2. \A o \in part : o \in Attached(w, n, m, ks)
    BY DEF Partly
  <2> QED BY <1>4, <2>1, <2>2, AttachedFields
<1>7. observers' = observers \cup more
  BY <1>3
<1>8. UNCHANGED <<disk, phase, hears, removals>> /\ joining' = NoJoin
  BY DEF RegisterFails
<1> HIDE DEF more
<1>9. /\ IInv' /\ Owned' /\ NoGhosts' /\ StoredKept' /\ RemovalKept' /\ FlagKept'
      /\ nodes' \in [NodeId -> Id] /\ endpoints' \in [EndpointId -> Id]
      /\ listed' \in [NodeId -> SUBSET Number]
  <2>1. Adds(n, m, ks, more)
    BY <1>3, <1>5, <1>6, <1>7, <1>8 DEF Adds
  <2> QED BY <2>1, MappedKeeps
<1>10. PTypeOK'
  BY <1>5, <1>8, <1>9 DEF disk, PInv, PTypeOK, removals, Id, NoJoin
<1>11. Listening' /\ JoiningKept'
  BY <1>8 DEF PInv, Listening, JoiningKept, NoJoin
<1> QED BY <1>9, <1>10, <1>11 DEF PInv

\* The row of a node that is already mapped and observed.
LEMMA PersistKeeps == ASSUME PInv, Persist PROVE PInv'
<1> USE DEF index, watching
<1>1. PICK n \in NodeId, m \in Assignable : n = joining.node /\ m = joining.peer
  BY DEF Persist, PInv, PTypeOK
<1>2. Save(n, m) /\ stored' = [stored EXCEPT ![n] = serves[m]]
  BY <1>1 DEF Persist
<1>3. IInv'
  <2>1. m \in MatterId
    BY AssignableAssumption
  <2>2. Next
    BY <1>2, <2>1 DEF Next
  <2> QED BY <2>2, NextKeepsIInv DEF PInv
<1>4. PTypeOK'
  BY <1>2 DEF Persist, PInv, PTypeOK, removals, Id, NoJoin
<1>5. Listening' /\ Owned' /\ NoGhosts' /\ JoiningKept'
  BY DEF Persist, PInv, Listening, Owned, NoGhosts, JoiningKept, NoJoin
<1>6. DOMAIN saved' = DOMAIN saved \cup {n}
      /\ \A j \in DOMAIN saved' : saved'[j] = IF j = n THEN m ELSE saved[j]
  BY <1>2 DEF Save
<1>7. StoredKept'
  <2> SUFFICES ASSUME phase = "up", NEW j \in DOMAIN saved', saved'[j] \in Peers
               PROVE  Observed(j, saved'[j], stored'[j], serves[saved'[j]])
    BY DEF Persist, StoredKept, Peers, Observed, Mine
  <2>1. CASE j = n
    <3>1. stored'[n] = serves[m] /\ saved'[n] = m
      BY <1>2, <1>6 DEF PInv, PTypeOK
    <3>2. Observed(n, m, serves[m], serves[m])
      BY <1>1, <1>6, <2>1 DEF Persist, PInv, JoiningKept
    <3> QED BY <2>1, <3>1, <3>2
  <2>2. CASE j # n
    <3>1. j \in DOMAIN saved /\ saved'[j] = saved[j]
      BY <1>6, <2>2
    <3>2. stored'[j] = stored[j]
      BY <1>2, <2>2, <3>1 DEF PInv, PTypeOK, IInv, TypeOK
    <3> QED BY <3>1, <3>2 DEF PInv, StoredKept
  <2> QED BY <2>1, <2>2
<1>8. RemovalKept' /\ FlagKept'
  BY <1>1, <1>6 DEF Persist, PInv, JoiningKept, RemovalKept, FlagKept, Removes, Underway, removals,
                    Peers
<1> QED BY <1>3, <1>4, <1>5, <1>7, <1>8 DEF PInv

-----------------------------------------------------------------------------
(* A removal *)

\* The removal r goes to x, with its node's peer as long as the SDK has it, and
\* nothing else but the flags and the end of a commissioning of another node.
Moves(r, x) ==
    /\ removal' = [removal EXCEPT ![r] = x]
    /\ x \in RemovalRecord
    /\ x.at # "none" => x.node \in NodeId
    /\ x.at = "removing" => x.peer \in Assignable
    /\ \A n \in DOMAIN saved :
          x.node = n => /\ x.at = "removing" /\ saved[n] \in Peers => x.peer = saved[n]
                        /\ x.at = "removed" => saved[n] \notin Peers
    /\ leaving' \subseteq NodeId /\ overtaken' \subseteq Removal
    /\ joining' \in {joining, NoJoin}
    /\ joining'.at = "registered" => x.at = "none" \/ joining.node # x.node
    /\ UNCHANGED <<disk, phase, index, watching>>

\* What is said of the stored and the joining nodes holds whatever becomes of
\* the removal of another one.
LEMMA RemovalMoves == ASSUME PInv, FlagKept', NEW r \in Removal, NEW x, Moves(r, x) PROVE PInv'
<1> USE DEF disk, index, watching, Moves
<1>1. IInv'
  BY RowsKept DEF PInv
<1>2. \A q \in Removal : removal'[q] = IF q = r THEN x ELSE removal[q]
  BY DEF PInv, PTypeOK
<1>3. PTypeOK'
  <2>1. removal' \in [Removal -> RemovalRecord]
    BY DEF PInv, PTypeOK
  <2>2. \A q \in Removal :
          /\ removal'[q].at # "none" => removal'[q].node \in NodeId
          /\ removal'[q].at = "removing" => removal'[q].peer \in Assignable
    BY <1>2 DEF PInv, PTypeOK
  <2> QED BY <2>1, <2>2 DEF PInv, PTypeOK, Id, NoJoin
<1>4. Listening' /\ Owned' /\ NoGhosts'
  BY DEF PInv, Listening, Owned, NoGhosts
<1>5. StoredKept'
  BY DEF PInv, StoredKept, Observed, Mine, Peers
<1>6. JoiningKept'
  <2> SUFFICES ASSUME joining'.at = "registered" PROVE JoiningKept'
    BY DEF JoiningKept
  <2>1. joining' = joining
    BY DEF NoJoin
  <2>2. ~\E q \in Removal : Removes(q, joining.node)'
    BY <1>2, <2>1 DEF PInv, JoiningKept, Removes
  <2> QED BY <2>1, <2>2 DEF PInv, JoiningKept, Removes, Observed, Mine, Peers
<1>7. RemovalKept'
  BY <1>2 DEF PInv, RemovalKept, Peers
<1> QED BY <1>1, <1>3, <1>4, <1>5, <1>6, <1>7 DEF PInv

\* The flags stay in step with the removals while no removal ends, ...
LEMMA FlagsStay ==
    ASSUME PInv, NEW r \in Removal, NEW x, removal' = [removal EXCEPT ![r] = x],
           leaving \subseteq leaving', overtaken' = overtaken,
           x.at \in {"removing", "removed"} => x.node \in leaving' \/ r \in overtaken
    PROVE  FlagKept'
<1>1. \A q \in Removal : removal'[q] = IF q = r THEN x ELSE removal[q]
  BY DEF PInv, PTypeOK
<1> QED BY <1>1 DEF PInv, FlagKept, Underway

\* ... and when one does, which the others of its node are left without.
LEMMA FlagsFall ==
    ASSUME PInv, NEW r \in Removal, NEW x, removal' = [removal EXCEPT ![r] = x],
           x.at \notin {"removing", "removed"}, Finally(r)
    PROVE  FlagKept' /\ leaving' \subseteq NodeId /\ overtaken' \subseteq Removal
<1>1. \A q \in Removal : removal'[q] = IF q = r THEN x ELSE removal[q]
  BY DEF PInv, PTypeOK
<1>2. leaving' \subseteq NodeId /\ overtaken' \subseteq Removal
  BY DEF Finally, Unflag, PInv, PTypeOK
<1>3. ASSUME NEW q \in Removal, NEW n \in NodeId, Underway(q, n)'
      PROVE  n \in leaving' \/ q \in overtaken'
  <2>1. q # r /\ Underway(q, n)
    BY <1>1, <1>3 DEF Underway
  <2>2. CASE n = removal[r].node
    BY <2>1, <2>2 DEF Finally
  <2>3. CASE n # removal[r].node
    BY <2>1, <2>3 DEF Finally, Unflag, PInv, FlagKept
  <2> QED BY <2>2, <2>3
<1> QED BY <1>2, <1>3 DEF FlagKept

\* The SDK is asked for the node's peer.
LEMMA RemovingKeeps ==
    ASSUME PInv, NEW r \in Removal, NEW n \in NodeId, Removing(r, n), nodes[n] # None,
           n \in DOMAIN saved /\ saved[n] \in Peers => nodes[n] = saved[n],
           joining' \in {joining, NoJoin}, joining'.at = "registered" => joining.node # n,
           UNCHANGED <<disk, phase, index, watching>>
    PROVE  PInv'
<1> DEFINE x == [at |-> "removing", node |-> n, peer |-> nodes[n]]
<1>1. removal' = [removal EXCEPT ![r] = x] /\ leaving' = leaving \cup {n} /\ overtaken' = overtaken
  BY DEF Removing
<1>2. nodes[n] \in Assignable
  BY DEF PInv, PTypeOK, Id
<1>3. x \in RemovalRecord /\ x.node = n /\ x.peer = nodes[n] /\ x.at = "removing"
  BY <1>2 DEF RemovalRecord, Id
<1> HIDE DEF x
<1>4. FlagKept'
  BY <1>1, <1>3, FlagsStay
<1>5. Moves(r, x)
  BY <1>1, <1>2, <1>3 DEF Moves, PInv, PTypeOK
<1> QED BY <1>4, <1>5, RemovalMoves

\* The undo of a node that has no row.
LEMMA PersistFailsKeeps == ASSUME PInv, PersistFails PROVE PInv'
<1>1. PICK n \in NodeId : n = joining.node
  BY DEF PersistFails, PInv, PTypeOK
<1>2. n \notin DOMAIN saved
  BY <1>1 DEF PersistFails, PInv, JoiningKept, IInv, TypeOK
<1>3. joining' = NoJoin /\ UNCHANGED <<disk, phase, index, watching>>
  BY DEF PersistFails
<1>4. CASE nodes[n] = None
  <2>1. UNCHANGED removals
    BY <1>1, <1>4 DEF PersistFails
  <2> USE <1>3, <2>1 DEF disk, index, watching, removals
  <2>2. IInv' /\ PTypeOK'
    BY RowsKept DEF PInv, PTypeOK, Id, NoJoin
  <2>3. Listening' /\ Owned' /\ NoGhosts' /\ StoredKept' /\ JoiningKept'
    BY DEF PInv, Listening, Owned, NoGhosts, StoredKept, JoiningKept, Observed, Mine, Peers, NoJoin
  <2>4. RemovalKept' /\ FlagKept'
    BY DEF PInv, RemovalKept, FlagKept, Underway, Peers
  <2> QED BY <2>2, <2>3, <2>4 DEF PInv
<1>5. CASE nodes[n] # None
  <2>1. PICK r \in Removal : Removing(r, n)
    BY <1>1, <1>5 DEF PersistFails
  <2>2. joining'.at # "registered"
    BY <1>3 DEF NoJoin
  <2> QED BY <1>2, <1>3, <1>5, <2>1, <2>2, RemovingKeeps
<1> QED BY <1>4, <1>5

\* The gateway asks for the peer that the stored node is mapped to.
LEMMA DecommissionKeeps ==
    ASSUME PInv, NEW r \in Removal, NEW n \in NodeId, Decommission(r, n) PROVE PInv'
<1>1. /\ joining' = joining /\ (joining.at = "registered" => joining.node # n)
      /\ UNCHANGED <<disk, phase, index, watching>>
  BY DEF Decommission, PInv, JoiningKept
<1>2. CASE nodes[n] = None
  <2> DEFINE x == [at |-> "dropping", node |-> n, peer |-> None]
  <2>1. removal' = [removal EXCEPT ![r] = x] /\ UNCHANGED <<leaving, overtaken>>
    BY <1>2 DEF Decommission, Dropping
  <2>2. x \in RemovalRecord /\ x.node = n /\ x.at = "dropping"
    BY DEF RemovalRecord, Id
  <2> HIDE DEF x
  <2>3. FlagKept'
    BY <2>1, <2>2, FlagsStay
  <2>4. Moves(r, x)
    BY <1>1, <2>1, <2>2 DEF Moves, PInv, PTypeOK
  <2> QED BY <2>3, <2>4, RemovalMoves
<1>3. CASE nodes[n] # None
  <2>1. n \in DOMAIN saved /\ saved[n] \in Peers => nodes[n] = saved[n]
    BY DEF Decommission, PInv, StoredKept, Observed
  <2>2. Removing(r, n)
    BY <1>3 DEF Decommission
  <2> QED BY <1>1, <1>3, <2>1, <2>2, RemovingKeeps
<1> QED BY <1>2, <1>3

\* A removal that is over.
LEMMA EndedMoves ==
    ASSUME PInv, NEW r \in Removal, Ended(r), leaving' \subseteq NodeId,
           overtaken' \subseteq Removal, joining' = joining,
           UNCHANGED <<disk, phase, index, watching>>
    PROVE  /\ removal' = [removal EXCEPT ![r] = NoRemoval]
           /\ NoRemoval.at = "none"
           /\ Moves(r, NoRemoval)
<1>1. NoRemoval \in RemovalRecord /\ NoRemoval.at = "none"
  BY DEF NoRemoval, RemovalRecord, Id
<1> QED BY <1>1 DEF Ended, Moves

\* The SDK refuses, and the node is still ours.
LEMMA RefuseKeeps == ASSUME PInv, NEW r \in Removal, Refuse(r) PROVE PInv'
<1>1. /\ joining' = joining /\ UNCHANGED <<disk, phase, index, watching>>
      /\ removal' = [removal EXCEPT ![r] = NoRemoval] /\ Ended(r) /\ Finally(r)
  BY DEF Refuse, Ended
<1>2. FlagKept' /\ leaving' \subseteq NodeId /\ overtaken' \subseteq Removal
  <2>1. NoRemoval.at \notin {"removing", "removed"}
    BY DEF NoRemoval
  <2> QED BY <1>1, <2>1, FlagsFall
<1> QED BY <1>1, <1>2, EndedMoves, RemovalMoves

\* The row is gone, and so is the removal.
LEMMA DropFailsKeeps == ASSUME PInv, NEW r \in Removal, DropFails(r) PROVE PInv'
<1>1. /\ joining' = joining /\ UNCHANGED <<disk, phase, index, watching, leaving, overtaken>>
      /\ removal' = [removal EXCEPT ![r] = NoRemoval] /\ Ended(r)
  BY DEF DropFails, Ended
<1>2. FlagKept'
  <2>1. NoRemoval.at \notin {"removing", "removed"}
    BY DEF NoRemoval
  <2> QED BY <1>1, <2>1, FlagsStay
<1>3. leaving' \subseteq NodeId /\ overtaken' \subseteq Removal
  BY <1>1 DEF PInv, PTypeOK
<1> QED BY <1>1, <1>2, <1>3, EndedMoves, RemovalMoves

\* Once the SDK has removed the peer, no stored node has its matter id.
LEMMA SdkForgetsKeeps == ASSUME PInv, NEW r \in Removal, SdkForgets(r) PROVE PInv'
<1> USE DEF index, watching
<1>1. PICK m \in Assignable : m = removal[r].peer
  BY DEF SdkForgets, PInv, PTypeOK
<1>2. IInv'
  BY RowsKept DEF PInv, SdkForgets
<1>3. \A v \in Assignable : serves'[v] = IF v = m THEN {} ELSE serves[v]
  BY <1>1 DEF SdkForgets, PInv, PTypeOK
<1> DEFINE x == [removal[r] EXCEPT !.at = "removed"]
<1>4. removal' = [removal EXCEPT ![r] = x]
  BY DEF SdkForgets, Goto, PInv, PTypeOK
<1>5. /\ x \in RemovalRecord /\ x.at = "removed" /\ x.node = removal[r].node
      /\ x.node \in NodeId
  BY DEF SdkForgets, PInv, PTypeOK, RemovalRecord
<1> HIDE DEF x
<1>6. \A q \in Removal : removal'[q] = IF q = r THEN x ELSE removal[q]
  BY <1>4 DEF PInv, PTypeOK
<1>7. Peers' = Peers \ {m}
  BY <1>3 DEF Peers
<1>8. PTypeOK'
  <2>1. removal' \in [Removal -> RemovalRecord]
    BY <1>4, <1>5 DEF PInv, PTypeOK
  <2>2. \A q \in Removal :
          /\ removal'[q].at # "none" => removal'[q].node \in NodeId
          /\ removal'[q].at = "removing" => removal'[q].peer \in Assignable
    BY <1>5, <1>6 DEF PInv, PTypeOK
  <2> QED BY <2>1, <2>2 DEF SdkForgets, PInv, PTypeOK
<1>9. Listening' /\ Owned' /\ NoGhosts'
  BY DEF SdkForgets, PInv, Listening, Owned, NoGhosts
<1>10. StoredKept'
  BY <1>3, <1>7 DEF SdkForgets, PInv, StoredKept, Observed, Mine, Peers
<1>11. JoiningKept'
  <2> SUFFICES ASSUME joining.at = "registered" PROVE JoiningKept'
    BY DEF SdkForgets, JoiningKept
  <2>1. ~\E q \in Removal : Removes(q, joining.node)'
    BY <1>5, <1>6 DEF SdkForgets, PInv, JoiningKept, Removes
  <2>2. joining.peer \in Peers' => serves'[joining.peer] = serves[joining.peer]
    BY <1>3, <1>7 DEF Peers
  <2> QED BY <1>7, <2>1, <2>2 DEF SdkForgets, PInv, JoiningKept, Removes, Observed, Mine
<1>12. RemovalKept'
  <2> SUFFICES ASSUME NEW q \in Removal, NEW n \in DOMAIN saved, removal'[q].node = n
               PROVE  /\ removal'[q].at = "removing" /\ saved[n] \in Peers'
                            => removal'[q].peer = saved[n]
                      /\ removal'[q].at = "removed" => saved[n] \notin Peers'
    BY DEF SdkForgets, RemovalKept
  <2>1. CASE q = r
    BY <1>1, <1>5, <1>6, <1>7, <2>1 DEF SdkForgets, PInv, RemovalKept
  <2>2. CASE q # r
    BY <1>6, <1>7, <2>2 DEF PInv, RemovalKept
  <2> QED BY <2>1, <2>2
<1>13. FlagKept'
  <2>1. x.node \in leaving \/ r \in overtaken
    BY <1>5 DEF SdkForgets, PInv, FlagKept, Underway
  <2> QED BY <1>4, <2>1, FlagsStay DEF SdkForgets
<1> QED BY <1>2, <1>8, <1>9, <1>10, <1>11, <1>12, <1>13 DEF PInv

\* What is closed and unmapped is the removed node's alone.
LEMMA SettleKeeps == ASSUME PInv, NEW r \in Removal, Settle(r) PROVE PInv'
<1> USE DEF disk
<1>1. IInv'
  BY RowsKept DEF PInv, Settle
<1>2. PICK n \in NodeId : n = removal[r].node
  BY DEF Settle, PInv, PTypeOK
<1>3. PICK x \in RemovalRecord :
         /\ removal' = [removal EXCEPT ![r] = x] /\ x.at \in {"none", "dropping"}
         /\ x.at = "dropping" => x.node = n
  <2>1. CASE n \in DOMAIN table
    <3> DEFINE x == [removal[r] EXCEPT !.at = "dropping"]
    <3>1. removal' = [removal EXCEPT ![r] = x]
      BY <1>2, <2>1 DEF Settle, Goto, PInv, PTypeOK
    <3>2. x \in RemovalRecord /\ x.at = "dropping" /\ x.node = n
      BY <1>2 DEF PInv, PTypeOK, RemovalRecord
    <3> QED BY <3>1, <3>2
  <2>2. CASE n \notin DOMAIN table
    <3>1. removal' = [removal EXCEPT ![r] = NoRemoval]
      BY <1>2, <2>2 DEF Settle, Ended
    <3>2. NoRemoval \in RemovalRecord /\ NoRemoval.at = "none"
      BY DEF NoRemoval, RemovalRecord, Id
    <3> QED BY <3>1, <3>2
  <2> QED BY <2>1, <2>2
<1>4. \A q \in Removal : removal'[q] = IF q = r THEN x ELSE removal[q]
  BY <1>3 DEF PInv, PTypeOK
<1>5. FlagKept' /\ leaving' \subseteq NodeId /\ overtaken' \subseteq Removal
  BY <1>3, FlagsFall DEF Settle
<1>6. Unmap(n) /\ UNCHANGED <<disk, phase, hears, joining>>
  BY <1>2 DEF Settle
<1>7. /\ nodes' \in [NodeId -> Id] /\ endpoints' \in [EndpointId -> Id]
       /\ listed' \in [NodeId -> SUBSET Number]
       /\ groups' \in [Watcher -> SUBSET NodeId]
  BY <1>6 DEF Unmap, Unwatch, PInv, PTypeOK, Id
<1>8. PTypeOK'
  <2>1. removal' \in [Removal -> RemovalRecord]
    BY <1>3 DEF PInv, PTypeOK
  <2>2. \A q \in Removal :
          /\ removal'[q].at # "none" => removal'[q].node \in NodeId
          /\ removal'[q].at = "removing" => removal'[q].peer \in Assignable
    BY <1>3, <1>4 DEF PInv, PTypeOK
  <2> QED BY <1>5, <1>6, <1>7, <2>1, <2>2 DEF PInv, PTypeOK
<1>9. \A o \in observers' : o \in observers /\ o.node # n
  BY <1>6 DEF Unmap, Unwatch, PInv, Owned
<1>10. \A e \in EndpointId :
          /\ e[1] \in NodeId
          /\ endpoints'[e] = IF e[1] = n THEN None ELSE endpoints[e]
  BY <1>6 DEF Unmap, EndpointId, PInv, Owned
<1>11. \A j \in NodeId : j # n => /\ nodes'[j] = nodes[j] /\ listed'[j] = listed[j]
                                 /\ Mine(j)' = Mine(j)
  BY <1>6 DEF Unmap, Unwatch, Mine, PInv, PTypeOK
<1>12. Listening' /\ Owned'
  BY <1>9, <1>10, <1>11, <1>6 DEF PInv, Listening, Owned
<1>13. NoGhosts'
  <2>1. \A o \in observers' : nodes'[o.node] = o.peer
    BY <1>9, <1>11 DEF PInv, NoGhosts, Owned
  <2>2. \A o \in observers' : o.node \in groups'[o.by]
    BY <1>9, <1>6 DEF Unmap, Unwatch, PInv, PTypeOK, NoGhosts, Owned
  <2>3. nodes'[n] = None
    BY <1>6 DEF Unmap, PInv, PTypeOK
  <2> QED BY <1>10, <1>11, <2>1, <2>2, <2>3 DEF PInv, NoGhosts
<1>14. ASSUME NEW j \in NodeId, j # n, NEW v, NEW ks \in SUBSET Number, NEW has,
              Observed(j, v, ks, has)
       PROVE  /\ nodes'[j] = v /\ \A k \in ks : endpoints'[<<j, k>>] = v
              /\ Mine(j)' = Views(j, v, ks, has)
  <2>1. \A k \in ks : <<j, k>> \in EndpointId
    BY DEF EndpointId
  <2> QED BY <1>10, <1>11, <1>14, <2>1 DEF Observed
<1>15. StoredKept'
  <2> SUFFICES ASSUME phase = "up", NEW j \in DOMAIN saved, saved[j] \in Peers
               PROVE  Observed(j, saved[j], stored[j], serves[saved[j]])'
    BY <1>6 DEF StoredKept, Peers
  <2>1. j \in NodeId /\ stored[j] \in SUBSET Number
    BY DEF PInv, PTypeOK, IInv, TypeOK
  <2>2. j # n
    BY <1>2 DEF Settle, PInv, RemovalKept
  <2>3. Observed(j, saved[j], stored[j], serves[saved[j]])
    BY DEF PInv, StoredKept
  <2> QED BY <1>14, <1>6, <2>1, <2>2, <2>3 DEF Observed
<1>16. JoiningKept'
  <2> SUFFICES ASSUME joining.at = "registered" PROVE JoiningKept'
    BY <1>6 DEF JoiningKept
  <2>1. joining.node \in NodeId /\ joining.node # n
    BY <1>2 DEF Settle, PInv, PTypeOK, JoiningKept, Removes
  <2>2. serves[joining.peer] \in SUBSET Number
    BY DEF PInv, PTypeOK
  <2>3. ~\E q \in Removal : Removes(q, joining.node)'
    BY <1>3, <1>4, <1>6, <2>1 DEF PInv, JoiningKept, Removes
  <2> QED BY <1>14, <1>6, <2>1, <2>2, <2>3 DEF PInv, JoiningKept, Removes, Observed, Peers
<1>17. RemovalKept'
  BY <1>3, <1>4, <1>6 DEF PInv, RemovalKept, Peers
<1> QED BY <1>1, <1>5, <1>12, <1>13, <1>15, <1>16, <1>17, <1>8 DEF PInv

\* The row that goes takes no other node's with it.
LEMMA DropKeeps == ASSUME PInv, NEW r \in Removal, Drop(r) PROVE PInv'
<1> USE DEF index, watching
<1>1. PICK n \in NodeId : n = removal[r].node
  BY DEF Drop, PInv, PTypeOK
<1>2. IInv'
  BY <1>1, NextKeepsIInv DEF Drop, Next, PInv
<1>3. removal' = [removal EXCEPT ![r] = NoRemoval] /\ stored' = [stored EXCEPT ![n] = {}]
  BY <1>1 DEF Drop, Ended
<1>4. NoRemoval \in RemovalRecord /\ NoRemoval.at = "none"
  BY DEF NoRemoval, RemovalRecord, Id
<1>5. \A q \in Removal : removal'[q] = IF q = r THEN NoRemoval ELSE removal[q]
  BY <1>3 DEF PInv, PTypeOK
<1>6. PTypeOK'
  <2>1. removal' \in [Removal -> RemovalRecord] /\ stored' \in [NodeId -> SUBSET Number]
    BY <1>3, <1>4 DEF PInv, PTypeOK
  <2>2. \A q \in Removal :
          /\ removal'[q].at # "none" => removal'[q].node \in NodeId
          /\ removal'[q].at = "removing" => removal'[q].peer \in Assignable
    BY <1>4, <1>5 DEF PInv, PTypeOK
  <2> QED BY <2>1, <2>2 DEF Drop, PInv, PTypeOK
<1>7. Listening' /\ Owned' /\ NoGhosts'
  BY DEF Drop, PInv, Listening, Owned, NoGhosts
<1>8. /\ DOMAIN saved' = DOMAIN saved \ {n} /\ DOMAIN table' = DOMAIN table \ {n}
      /\ \A j \in DOMAIN saved' : saved'[j] = saved[j]
  BY <1>1 DEF Drop, Delete, PInv, IInv, TypeOK
<1>9. \A j \in NodeId : j # n => stored'[j] = stored[j]
  BY <1>3 DEF PInv, PTypeOK
<1>10. StoredKept'
  BY <1>8, <1>9 DEF Drop, PInv, IInv, TypeOK, StoredKept, Observed, Mine, Peers
<1>11. JoiningKept'
  <2> SUFFICES ASSUME joining.at = "registered" PROVE JoiningKept'
    BY DEF Drop, JoiningKept
  <2>1. ~\E q \in Removal : Removes(q, joining.node)'
    BY <1>4, <1>5 DEF Drop, PInv, JoiningKept, Removes
  <2> QED BY <1>8, <2>1 DEF Drop, PInv, JoiningKept, Removes, Observed, Mine, Peers
<1>12. RemovalKept'
  BY <1>4, <1>5, <1>8 DEF Drop, PInv, RemovalKept, Peers
<1>13. FlagKept'
  BY <1>3, <1>4, FlagsStay DEF Drop
<1> QED BY <1>2, <1>6, <1>7, <1>10, <1>11, <1>12, <1>13 DEF PInv

\* A bridge that changes its endpoints while nobody runs keeps its matter id.
LEMMA RebuildKeeps == ASSUME PInv, NEW m \in Assignable, Rebuild(m) PROVE PInv'
<1> USE DEF memory, index, watching
<1>1. IInv'
  BY RowsKept DEF PInv, Rebuild
<1>2. PTypeOK'
  BY DEF Rebuild, PInv, PTypeOK, removals
<1>3. Listening' /\ Owned' /\ NoGhosts'
  BY DEF Rebuild, PInv, Listening, Owned, NoGhosts
<1>4. Peers' = Peers
  BY DEF Rebuild, PInv, PTypeOK, Peers
<1>5. StoredKept' /\ JoiningKept' /\ RemovalKept' /\ FlagKept'
  BY <1>4 DEF Rebuild, PInv, Listening, StoredKept, JoiningKept, RemovalKept, FlagKept, Underway,
              removals, NoJoin
<1> QED BY <1>1, <1>2, <1>3, <1>5 DEF PInv

-----------------------------------------------------------------------------
(* The whole provider *)

\* So every step keeps the invariant.
LEMMA NextKeeps == PInv /\ [ProviderNext]_pvars => PInv'
<1> SUFFICES ASSUME PInv, [ProviderNext]_pvars PROVE PInv'
  OBVIOUS
<1> USE DEF memory
<1>1. CASE Create
  BY <1>1, FreshKeeps DEF Create
<1>2. CASE Exit
  BY <1>2, FreshKeeps DEF Exit
<1>3. CASE Started \/ StartFails \/ Stop
  BY <1>3, StartedKeeps, StartFailsKeeps, StopKeeps
<1>4. ASSUME NEW m \in Assignable, Join(m) \/ Rebuild(m) PROVE PInv'
  BY <1>4, JoinKeeps, RebuildKeeps
<1>5. ASSUME NEW m \in Assignable, GoOnline(m) \/ GoOffline(m) PROVE PInv'
  BY <1>5, IdleKeeps DEF GoOnline, GoOffline
<1>6. ASSUME NEW m \in Assignable, NEW k \in Number, Report(m, k) PROVE PInv'
  BY <1>6, IdleKeeps DEF Report
<1>7. CASE Register \/ RegisterFails \/ Persist \/ PersistFails
  BY <1>7, RegisterKeeps, RegisterFailsKeeps, PersistKeeps, PersistFailsKeeps
<1>8. ASSUME NEW r \in Removal,
             \/ \E n \in NodeId : Decommission(r, n)
             \/ SdkForgets(r) \/ Settle(r) \/ Refuse(r) \/ Drop(r) \/ DropFails(r)
      PROVE  PInv'
  BY <1>8, DecommissionKeeps, SdkForgetsKeeps, SettleKeeps, RefuseKeeps, DropKeeps, DropFailsKeeps
<1>9. CASE UNCHANGED pvars
  BY <1>9, IdleKeeps DEF pvars
<1> QED BY <1>1, <1>2, <1>3, <1>4, <1>5, <1>6, <1>7, <1>8, <1>9 DEF ProviderNext

\* The index, the observers and the removals agree with the rows whatever the
\* devices, the SDK and the process do (matter.ts, watcher.ts, identity.ts).
THEOREM ProviderInvariance == ProviderSpec => []PInv
<1> QED BY InitHolds, NextKeeps, PTL DEF ProviderSpec

\* The provider saves and deletes rows as MatterIds does and otherwise leaves
\* them alone, with ids that the column holds (matter.ts, repositories/node.ts).
THEOREM ProviderImplementsMatterIds == ProviderSpec => Spec
<1>1. ProviderInit => Init
  BY DEF ProviderInit
<1>2. PInv /\ [ProviderNext]_pvars => [Next]_vars
  <2> SUFFICES ASSUME PInv, [ProviderNext]_pvars PROVE [Next]_vars
    OBVIOUS
  <2> USE DEF disk, vars
  <2>1. CASE Persist
    <3>1. joining.node \in NodeId /\ joining.peer \in MatterId
      BY <2>1, AssignableAssumption DEF Persist, PInv, PTypeOK
    <3> QED BY <2>1, <3>1 DEF Persist, Next
  <2>2. ASSUME NEW r \in Removal, Drop(r) PROVE Next
    BY <2>2 DEF Drop, Next, PInv, PTypeOK
  <2>3. CASE Create \/ Started \/ StartFails \/ Stop \/ Exit \/ Register \/ RegisterFails
             \/ PersistFails
    BY <2>3 DEF Create, Started, StartFails, Stop, Exit, Register, RegisterFails, PersistFails
  <2>4. ASSUME NEW m \in Assignable, Join(m) \/ GoOnline(m) \/ GoOffline(m) \/ Rebuild(m)
        PROVE  UNCHANGED vars
    BY <2>4 DEF Join, GoOnline, GoOffline, Rebuild
  <2>5. ASSUME NEW m \in Assignable, NEW k \in Number, Report(m, k) PROVE UNCHANGED vars
    BY <2>5 DEF Report
  <2>6. ASSUME NEW r \in Removal,
               \/ \E n \in NodeId : Decommission(r, n)
               \/ SdkForgets(r) \/ Settle(r) \/ Refuse(r) \/ DropFails(r)
        PROVE  UNCHANGED vars
    BY <2>6 DEF Decommission, SdkForgets, Settle, Refuse, DropFails
  <2>7. CASE UNCHANGED pvars
    BY <2>7 DEF pvars
  <2> QED BY <2>1, <2>2, <2>3, <2>4, <2>5, <2>6, <2>7 DEF ProviderNext
<1> QED BY <1>1, <1>2, ProviderInvariance, PTL DEF ProviderSpec, Spec

\* Over the provider's whole life each row is read back with the id it was
\* saved with, which the correlation at boot goes by (matter.ts:218).
THEOREM ProviderReadBack == ProviderSpec => []ReadBack
BY ProviderImplementsMatterIds, AlwaysReadBack, PTL

\* While the provider runs, every stored node that the SDK has is mapped to its
\* peer and observed in full (watcher.ts:17-27, matter.ts:213-242).
THEOREM AlwaysStoredObserved == ProviderSpec => []StoredObserved
<1>1. PInv => StoredObserved
  BY AttachedViews DEF PInv, StoredKept, StoredObserved, Observed, Mine
<1> QED BY <1>1, ProviderInvariance, PTL

\* Nothing is observed for a node that is not mapped (watcher.ts:23-26).
THEOREM AlwaysNoGhosts == ProviderSpec => []NoGhosts
<1>1. PInv => NoGhosts
  BY DEF PInv
<1> QED BY <1>1, ProviderInvariance, PTL

\* What the offline observers report is a session that has just ended, of the
\* node they were attached for.
LEMMA OfflineReal ==
    ASSUME PInv, NEW m, NEW n,
           [name |-> "node:disconnected", node |-> n, on |-> None] \in OfflineEvents(m)
    PROVE  /\ n \in NodeId /\ nodes[n] = m /\ phase # "closing"
           /\ \A r \in Removal : Underway(r, n) => r \in overtaken
<1>1. PICK o \in observers : o.node = n /\ o.peer = m /\ o.node \notin leaving
  BY DEF OfflineEvents
<1>2. n \in NodeId /\ nodes[n] = m /\ hears # {}
  BY <1>1 DEF PInv, Owned, NoGhosts
<1> QED BY <1>1, <1>2 DEF PInv, Listening, FlagKept

\* No stop is reported as a node dropping off, and no removal but one that saw
\* another of its node end (matter.ts:204-208, gateways/node.ts:138-159, 285-288).
THEOREM DropsAreReal == ProviderSpec => OnlyRealDrops
<1>1. PInv /\ [ProviderNext]_pvars =>
        [\A n \in NodeId :
            [name |-> "node:disconnected", node |-> n, on |-> None] \in told' =>
                /\ phase # "closing"
                /\ nodes[n] \in online \ online'
                /\ \A r \in Removal : Underway(r, n) => r \in overtaken]_pvars
  <2> DEFINE Real(n) == /\ phase # "closing" /\ nodes[n] \in online \ online'
                        /\ \A r \in Removal : Underway(r, n) => r \in overtaken
  <2> SUFFICES ASSUME PInv, ProviderNext, NEW n \in NodeId,
                      [name |-> "node:disconnected", node |-> n, on |-> None] \in told'
               PROVE  Real(n)
    OBVIOUS
  <2>1. CASE Create \/ Started \/ StartFails \/ Stop \/ Exit \/ Register \/ RegisterFails
             \/ Persist \/ PersistFails
    BY <2>1 DEF Create, Started, StartFails, Stop, Exit, Register, RegisterFails, Persist,
                PersistFails, Silent
  <2>2. ASSUME NEW m \in Assignable, Join(m) \/ GoOnline(m) \/ Rebuild(m) PROVE FALSE
    BY <2>2 DEF Join, GoOnline, Rebuild, Silent, OnlineEvents
  <2>3. ASSUME NEW m \in Assignable, GoOffline(m) PROVE Real(n)
    BY <2>3, OfflineReal DEF GoOffline
  <2>4. ASSUME NEW m \in Assignable, NEW k \in Number, Report(m, k) PROVE FALSE
    BY <2>4 DEF Report
  <2>5. ASSUME NEW r \in Removal,
               \/ \E j \in NodeId : Decommission(r, j)
               \/ Settle(r) \/ Refuse(r) \/ Drop(r) \/ DropFails(r)
        PROVE  FALSE
    BY <2>5 DEF Decommission, Settle, Refuse, Drop, DropFails, Silent
  <2>6. ASSUME NEW r \in Removal, SdkForgets(r) PROVE Real(n)
    BY <2>6, OfflineReal DEF SdkForgets
  <2> QED BY <2>1, <2>2, <2>3, <2>4, <2>5, <2>6 DEF ProviderNext
<1> QED BY <1>1, ProviderInvariance, PTL DEF ProviderSpec, OnlyRealDrops
=============================================================================
