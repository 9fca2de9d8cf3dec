------------------------------ MODULE Provider ------------------------------
(***************************************************************************)
(* The Matter provider over its life: the boot that correlates the stored  *)
(* nodes with the SDK's peers, the identity map, and the two watchers that *)
(* hang the gateways' observers on the peers of the mapped nodes.          *)
(*                                                                         *)
(* The SDK and the devices are external: peers, their sessions and the     *)
(* endpoints they serve.  A bridge changes its endpoints only while the    *)
(* hub is down.  An id that no store and no removal holds any more stands  *)
(* for a fresh one.                                                        *)
(***************************************************************************)
EXTENDS MatterIds

CONSTANTS
    Number,      \* the endpoint numbers a node may serve, the root left out
    Assignable,  \* the matter ids the SDK may assign
    Removal,     \* the removals that may be under way at once
    Faults,      \* the kinds of failure this instance admits
    None

ASSUME AssignableAssumption == Assignable \subseteq MatterId
ASSUME ProviderFaultsAssumption == Faults \subseteq {"attach", "crash", "persist"}
ASSUME NoneAssumption == None \notin MatterId

VARIABLES
    stored,     \* the endpoints table: the numbers of each row of `table'
    serves,     \* matter id -> the endpoints its peer has; {} when no peer
    online,     \* the peers with a session
    phase,      \* the provider: starting, up, closing, ...
    nodes,      \* #nodes: node -> the peer (ClientNode) of this matter id
    endpoints,  \* #endpoints: <<node, number>>, an endpoint id -> its peer
    listed,     \* #nodeEndpoints: node -> the numbers of its endpoint ids
    hears,      \* the watchers that listen to the map
    groups,     \* NodeWatcher.#groups: watcher -> the nodes it has one for
    observers,  \* what is attached: [by, node, peer, on]
    removal,    \* the removals: [at, node, peer]
    leaving,    \* #decommissioning: the nodes whose going offline is not said
    overtaken,  \* history: the removals that saw another of their node end
    joining,    \* a commissioning between its awaits: [at, peer, node]
    told        \* the events the latest step put on the bus

index == <<nodes, endpoints, listed>>
watching == <<hears, groups, observers>>
removals == <<removal, leaving, overtaken>>
memory == <<index, watching, removals, joining>>
disk == <<table, saved, stored, serves>>
pvars == <<disk, online, phase, memory, told>>

-----------------------------------------------------------------------------
\* The gateways' watchers; the node gateway's is started first, so it is the
\* first that an addition is notified to.
Watcher == {"node", "endpoint"}
Peers == {m \in Assignable : serves[m] # {}}
EndpointId == NodeId \X Number
Phases == {"down", "starting", "up", "failed", "closing"}
Alive == phase # "down"

NoRemoval == [at |-> "none", node |-> None, peer |-> None]
NoJoin == [at |-> "none", peer |-> None, node |-> None]

\* What an AttachToNode callback observes of node n, whose peer is m and whose
\* endpoints are ks: its sessions, or the endpoints that the SDK knows.
Attached(w, n, m, ks) ==
    [by : {w}, node : {n}, peer : {m},
     on : IF w = "node" THEN {"online", "offline"} ELSE ks \cap serves[m]]

\* What one that throws may have attached before it did.
Partly(w, n, m, ks) == (SUBSET Attached(w, n, m, ks)) \ {Attached(w, n, m, ks)}

\* IdentityMap.addNode, up to its notifications.
Mapped(n, m, ks) ==
    /\ nodes[n] = None
    /\ nodes' = [nodes EXCEPT ![n] = m]
    /\ listed' = [listed EXCEPT ![n] = ks]
    /\ endpoints' = [e \in EndpointId |-> IF e[1] = n /\ e[2] \in ks THEN m
                                          ELSE endpoints[e]]

\* Mutant: the removed-listeners are not called.
UnwatchNot(n) == UNCHANGED <<groups, observers>>

\* NodeWatcher.#unwatch of each listening watcher: the group is closed.
Unwatch(n) ==
    /\ groups' = [w \in Watcher |-> IF w \in hears THEN groups[w] \ {n} ELSE groups[w]]
    /\ observers' = {o \in observers : ~(o.by \in hears /\ o.node = n)}

\* IdentityMap.removeNode and its notifications.
Unmap(n) ==
    /\ nodes' = [nodes EXCEPT ![n] = None]
    /\ listed' = [listed EXCEPT ![n] = {}]
    /\ endpoints' = [e \in EndpointId |-> IF e[1] = n /\ e[2] \in listed[n] THEN None
                                          ELSE endpoints[e]]
    /\ Unwatch(n)

\* Removal r is of node n; and has called the SDK, which has not yet failed
\* it nor been followed by the finally block.
Removes(r, n) == removal[r].at # "none" /\ removal[r].node = n
Underway(r, n) == removal[r].at \in {"removing", "removed"} /\ removal[r].node = n

\* Neither a row nor the map nor a request knows it.
Unknown(n) ==
    /\ n \notin DOMAIN table /\ nodes[n] = None
    /\ joining.node # n /\ ~\E r \in Removal : Removes(r, n)

Silent == told' = {}

\* The state of a process that has just been launched.
Fresh ==
    /\ nodes' = [n \in NodeId |-> None]
    /\ endpoints' = [e \in EndpointId |-> None]
    /\ listed' = [n \in NodeId |-> {}]
    /\ hears' = {}
    /\ groups' = [w \in Watcher |-> {}]
    /\ observers' = {}
    /\ removal' = [r \in Removal |-> NoRemoval]
    /\ leaving' = {} /\ overtaken' = {}
    /\ joining' = NoJoin

-----------------------------------------------------------------------------
(* SdkMatterProvider.start and stop *)

\* ServerNode.create and controller.start(): sessions may open before anyone
\* observes them.
Create ==
    /\ phase = "down"
    /\ phase' = "starting"
    /\ online' \in SUBSET Peers
    /\ Fresh /\ Silent
    /\ UNCHANGED disk

\* #hydrateIdentity: the row's matter id among the peers' addresses.
Correlated(n) ==
    IF n \in DOMAIN table /\ ToRecord(n).matterId \in Peers
    THEN ToRecord(n).matterId ELSE None

\* #hydrateIdentity for every row: addNode with nobody listening yet.
Hydrate ==
    /\ nodes' = [n \in NodeId |-> Correlated(n)]
    /\ listed' = [n \in NodeId |-> IF Correlated(n) # None THEN stored[n] ELSE {}]
    /\ endpoints' = [e \in EndpointId |->
                        IF e[2] \in stored[e[1]] THEN Correlated(e[1]) ELSE None]

\* Mutant: start() subscribes and leaves what is mapped alone.
WalkNothing == {}

\* The nodes that NodeWatcher.start walks.
Walk == {n \in NodeId : nodes'[n] # None}

\* Both watchers have started.
Started ==
    /\ phase = "starting"
    /\ phase' = "up"
    /\ Hydrate
    /\ hears' = Watcher
    /\ groups' = [w \in Watcher |-> Walk]
    /\ observers' = UNION {Attached(w, n, nodes'[n], listed'[n]) :
                              w \in Watcher, n \in Walk}
    /\ Silent
    /\ UNCHANGED <<disk, online, removals, joining>>

\* What is left when the walk of watcher w, done with `before', throws at n.
CutShort(w, n, before, part) ==
    /\ n \notin before
    /\ hears' = IF w = "node" THEN {"node"} ELSE Watcher
    /\ groups' = [v \in Watcher |-> IF v = w THEN before \cup {n}
                                   ELSE IF v \in hears' THEN Walk ELSE {}]
    /\ observers' = (UNION {Attached(v, k, nodes'[k], listed'[k]) :
                               v \in hears' \ {w}, k \in Walk})
                    \cup (UNION {Attached(w, k, nodes'[k], listed'[k]) : k \in before})
                    \cup part

\* An attach throws in the walk of one of them: the gateways stay unassigned,
\* with what was attached until then, and the process is about to end.
StartFails ==
    /\ "attach" \in Faults /\ phase = "starting"
    /\ phase' = "failed"
    /\ Hydrate
    /\ \E w \in Watcher, n \in Walk, before \in SUBSET Walk :
       \E part \in Partly(w, n, nodes'[n], listed'[n]) : CutShort(w, n, before, part)
    /\ Silent
    /\ UNCHANGED <<disk, online, removals, joining>>

\* Mutant: the watchers are not stopped before the controller closes.
StopNoWatcher == UNCHANGED <<hears, groups, observers>>

\* NodeWatcher.stop, of both: unsubscribed, every group closed.
StopWatchers ==
    /\ hears' = {}
    /\ groups' = [w \in Watcher |-> {}]
    /\ observers' = {o \in observers : o.node \notin groups[o.by]}

\* stop(), up to the await of controller.close().
Stop ==
    /\ phase = "up"
    /\ phase' = "closing"
    /\ nodes' = [n \in NodeId |-> None]                     \* identity.clear()
    /\ endpoints' = [e \in EndpointId |-> None]
    /\ listed' = [n \in NodeId |-> {}]
    /\ StopWatchers
    /\ Silent
    /\ UNCHANGED <<disk, online, removals, joining>>

\* The process ends: the controller has closed, the boot failed, or a crash.
Exit ==
    /\ \/ phase = "closing" /\ online = {}
       \/ phase = "failed"
       \/ Alive /\ "crash" \in Faults
    /\ phase' = "down"
    /\ online' = {}
    /\ Fresh /\ Silent
    /\ UNCHANGED disk

-----------------------------------------------------------------------------
(* A commissioning, and the removal that takes a node away *)

\* peers.commission() is answered, before the stop or while it awaits.
Join(m) ==
    /\ phase \in {"up", "closing"} /\ joining = NoJoin
    /\ m \notin Peers /\ \A n \in DOMAIN saved : saved[n] # m
    /\ \A r \in Removal : removal[r].peer # m
    /\ \E ks \in (SUBSET Number) \ {{}} : serves' = [serves EXCEPT ![m] = ks]
    /\ online' = online \cup {m}
    /\ joining' = [at |-> "joined", peer |-> m, node |-> None]
    /\ Silent
    /\ UNCHANGED <<table, saved, stored, phase, index, watching, removals>>

\* addNode and #watch of each listener.
Register ==
    /\ joining.at = "joined"
    /\ \E n \in NodeId :
          LET m == joining.peer
              ks == serves[m] IN
          /\ Unknown(n)
          /\ Mapped(n, m, ks)
          /\ groups' = [w \in Watcher |->
                           IF w \in hears THEN groups[w] \cup {n} ELSE groups[w]]
          /\ observers' = observers \cup
                UNION {Attached(w, n, m, ks) : w \in hears}
          /\ joining' = [at |-> "registered", peer |-> m, node |-> n]
    /\ Silent
    /\ UNCHANGED <<disk, online, phase, hears, removals>>

\* The attach of one of them throws: the ones after it are not called, and
\* the node stays in the map without a row.
RegisterFails ==
    /\ "attach" \in Faults /\ joining.at = "joined" /\ hears # {}
    /\ \E n \in NodeId, w \in hears :
       \E part \in Partly(w, n, joining.peer, serves[joining.peer]) :
          LET m == joining.peer
              ks == serves[m] IN
          /\ Unknown(n)
          /\ Mapped(n, m, ks)
          /\ groups' = [v \in Watcher |->
                           IF v = w \/ v = "node" THEN groups[v] \cup {n} ELSE groups[v]]
          /\ observers' = observers \cup part \cup
                (IF w = "endpoint" THEN Attached("node", n, m, ks) ELSE {})
    /\ joining' = NoJoin
    /\ Silent
    /\ UNCHANGED <<disk, online, phase, hears, removals>>

\* The transaction: the node's row and its endpoints'.
Persist ==
    /\ joining.at = "registered"
    /\ Save(joining.node, joining.peer)
    /\ stored' = [stored EXCEPT ![joining.node] = serves[joining.peer]]
    /\ joining' = NoJoin
    /\ told' = {[name |-> "node:added", node |-> joining.node, on |-> None]}
    /\ UNCHANGED <<serves, online, phase, index, watching, removals>>

\* Where the removals of the nodes go on.
Goto(r, at) == removal' = [removal EXCEPT ![r].at = at]
Ended(r) == removal' = [removal EXCEPT ![r] = NoRemoval]

\* gateway.decommission of a node that is mapped, up to its await: from here
\* its going offline is not reported.
Removing(r, n) ==
    /\ removal' = [removal EXCEPT ![r] = [at |-> "removing", node |-> n, peer |-> nodes[n]]]
    /\ leaving' = leaving \cup {n}
    /\ UNCHANGED overtaken

\* One that is not mapped goes on to the row.
Dropping(r, n) ==
    /\ removal' = [removal EXCEPT ![r] = [at |-> "dropping", node |-> n, peer |-> None]]
    /\ UNCHANGED <<leaving, overtaken>>

\* Mutant: the end of one removal clears the flags of all nodes.
UnflagAll(n) == {}

\* #decommissioning.delete, whichever removal of the node ends.
Unflag(n) == leaving \ {n}

\* The finally block: the others under way of the same node go on without it.
Finally(r) ==
    LET n == removal[r].node IN
    /\ leaving' = Unflag(n)
    /\ overtaken' = (overtaken \cup {q \in Removal : Underway(q, n)}) \ {r}

\* It fails, and the undo asks the SDK to remove the node, if it is mapped.
PersistFails ==
    /\ "persist" \in Faults /\ joining.at = "registered"
    /\ IF nodes[joining.node] = None THEN UNCHANGED removals
       ELSE \E r \in Removal : removal[r] = NoRemoval /\ Removing(r, joining.node)
    /\ joining' = NoJoin
    /\ Silent
    /\ UNCHANGED <<disk, online, phase, index, watching>>

\* The use-case of a node that has a row, up to the gateway's await; other
\* removals of the same node may be under way.
Decommission(r, n) ==
    /\ phase = "up" /\ n \in DOMAIN table /\ removal[r] = NoRemoval
    /\ IF nodes[n] = None THEN Dropping(r, n) ELSE Removing(r, n)
    /\ Silent
    /\ UNCHANGED <<disk, online, phase, index, watching, joining>>

\* The observers of the end of a session.
OfflineEvents(m) ==
    {[name |-> "node:disconnected", node |-> o.node, on |-> None] :
        o \in {p \in observers : p.peer = m /\ p.on = "offline"
                                 /\ p.node \notin leaving}}

OnlineEvents(m) ==
    {[name |-> "node:connected", node |-> o.node, on |-> None] :
        o \in {p \in observers : p.peer = m /\ p.on = "online"}}

\* External: the peer is removed, unless another removal did so before; the
\* ClientNode stays alive.
SdkForgets(r) ==
    LET m == removal[r].peer IN
    /\ Alive /\ removal[r].at = "removing"
    /\ serves' = [serves EXCEPT ![m] = {}]
    /\ online' = online \ {m}
    /\ Goto(r, "removed")
    /\ told' = IF m \in online THEN OfflineEvents(m) ELSE {}
    /\ UNCHANGED <<table, saved, stored, phase, index, watching, leaving, overtaken, joining>>

\* The finally block and removeNode; an undo ends here, and so does a removal
\* whose row is gone, as its delete would throw.
Settle(r) ==
    LET n == removal[r].node IN
    /\ Alive /\ removal[r].at = "removed"
    /\ IF n \in DOMAIN table THEN Goto(r, "dropping") ELSE Ended(r)
    /\ Finally(r)
    /\ Unmap(n)
    /\ Silent
    /\ UNCHANGED <<disk, online, phase, hears, joining>>

\* The device does not answer, or the SDK fails: the node is still ours.
Refuse(r) ==
    /\ Alive /\ removal[r].at = "removing"
    /\ Ended(r)
    /\ Finally(r)
    /\ Silent
    /\ UNCHANGED <<disk, online, phase, index, watching, joining>>

\* The row goes, its endpoints with it.
Drop(r) ==
    LET n == removal[r].node IN
    /\ Alive /\ removal[r].at = "dropping"
    /\ Delete(n)
    /\ stored' = [stored EXCEPT ![n] = {}]
    /\ Ended(r)
    /\ told' = {[name |-> "node:removed", node |-> n, on |-> None]}
    /\ UNCHANGED <<serves, online, phase, index, watching, leaving, overtaken, joining>>

\* The delete throws, as another removal took the row.
DropFails(r) ==
    /\ Alive /\ removal[r].at = "dropping" /\ removal[r].node \notin DOMAIN table
    /\ Ended(r)
    /\ Silent
    /\ UNCHANGED <<disk, online, phase, index, watching, leaving, overtaken, joining>>

-----------------------------------------------------------------------------
(* The devices *)

GoOnline(m) ==
    /\ Alive /\ m \in Peers \ online
    /\ online' = online \cup {m}
    /\ told' = OnlineEvents(m)
    /\ UNCHANGED <<disk, phase, memory>>

GoOffline(m) ==
    /\ Alive /\ m \in online
    /\ online' = online \ {m}
    /\ told' = OfflineEvents(m)
    /\ UNCHANGED <<disk, phase, memory>>

\* An attribute of one of its endpoints is reported.
Report(m, k) ==
    /\ m \in online /\ k \in serves[m]
    /\ told' = {[name |-> "endpoint:changed", node |-> o.node, on |-> k] :
                   o \in {p \in observers : p.by = "endpoint" /\ p.peer = m /\ p.on = k}}
    /\ UNCHANGED <<disk, online, phase, memory>>

\* A bridge gains and loses devices of its own.
Rebuild(m) ==
    /\ phase = "down" /\ m \in Peers
    /\ \E ks \in (SUBSET Number) \ {{}} : serves' = [serves EXCEPT ![m] = ks]
    /\ Silent
    /\ UNCHANGED <<table, saved, stored, online, phase, memory>>

-----------------------------------------------------------------------------
ProviderInit ==
    /\ Init
    /\ stored = [n \in NodeId |-> {}]
    /\ serves = [m \in Assignable |-> {}]
    /\ online = {} /\ phase = "down" /\ told = {}
    /\ nodes = [n \in NodeId |-> None]
    /\ endpoints = [e \in EndpointId |-> None]
    /\ listed = [n \in NodeId |-> {}]
    /\ hears = {} /\ observers = {}
    /\ groups = [w \in Watcher |-> {}]
    /\ removal = [r \in Removal |-> NoRemoval]
    /\ leaving = {} /\ overtaken = {}
    /\ joining = NoJoin

ProviderNext ==
    \/ Create \/ Started \/ StartFails \/ Stop \/ Exit
    \/ \E m \in Assignable : Join(m) \/ GoOnline(m) \/ GoOffline(m) \/ Rebuild(m)
    \/ \E m \in Assignable, k \in Number : Report(m, k)
    \/ Register \/ RegisterFails \/ Persist \/ PersistFails
    \/ \E r \in Removal, n \in NodeId : Decommission(r, n)
    \/ \E r \in Removal :
          SdkForgets(r) \/ Settle(r) \/ Refuse(r) \/ Drop(r) \/ DropFails(r)

ProviderSpec == ProviderInit /\ [][ProviderNext]_pvars

-----------------------------------------------------------------------------
(* Properties *)

\* As long as the provider runs, every stored node whose peer the SDK has is
\* mapped to that peer, whichever boot or commissioning put it there, its
\* endpoints resolve to it, and both gateways observe all of it that the SDK
\* knows (watcher.ts:17-27, matter.ts:213-242).
StoredObserved ==
    phase = "up" =>
        \A n \in DOMAIN saved :
            LET m == saved[n] IN
            m \in Peers =>
                /\ nodes[n] = m
                /\ \A k \in stored[n] : endpoints[<<n, k>>] = m
                /\ {o \in observers : o.node = n} =
                       UNION {Attached(w, n, m, stored[n]) : w \in Watcher}

\* Nothing is observed on behalf of a node that is not mapped, or of another
\* node's peer, whatever was attached before: a decommissioned ClientNode stays
\* alive and would go on telling (watcher.ts:23-26).
NoGhosts ==
    /\ \A o \in observers : nodes[o.node] = o.peer /\ o.node \in groups[o.by]
    /\ \A e \in EndpointId : endpoints[e] \in {None, nodes[e[1]]}

\* A node is said to have dropped only when its session ended while the hub
\* was running, and not while it was being removed, unless another removal of
\* the same node ended meanwhile: neither a removal, which takes the session
\* with it, nor a stop, which takes them all, is reported as the house dropping
\* off.  Two removals share one flag, so the first to end opens the window for
\* the other (matter.ts:204-208, gateways/node.ts:138-159, 285-288).
OnlyRealDrops ==
    [][\A n \in NodeId :
          [name |-> "node:disconnected", node |-> n, on |-> None] \in told' =>
              /\ phase # "closing"
              /\ nodes[n] \in online \ online'
              /\ \A r \in Removal : Underway(r, n) => r \in overtaken]_pvars
=============================================================================
