------------------------------- MODULE Fabric -------------------------------
(***************************************************************************)
(* Commissioning and decommissioning a node: the two operations of the hub *)
(* that have to keep two stores in step, the Matter fabric (the SDK's      *)
(* peers, and the credentials the devices themselves hold) and the SQLite  *)
(* database, with the identity map in between and domain events going out. *)
(*                                                                         *)
(* An action is what runs between two awaits of the code: the event loop   *)
(* cannot interleave anything inside one, and may interleave anything      *)
(* between two.  The Matter SDK and the devices are external: their        *)
(* answers are the Sdk* and device actions.                                *)
(***************************************************************************)
CONSTANTS
    Device,    \* the devices of the house
    NodeId,    \* our node ids: UUIDs, each minted at most once
    MatterId,  \* fabric node ids the SDK assigns, each at most once
    Op,        \* requests in flight at the same time
    Faults,    \* the kinds of failure this instance admits
    None

FaultKinds ==
    {"attach",   \* composing or registering a joined node throws
     "persist",  \* the transaction that saves a node fails
     "delete",   \* the statement that deletes a node fails
     "removal",  \* the SDK fails to remove a node that would answer
     "undo",     \* the same, while it undoes a commissioning
     "drop",     \* a session ends
     "reset",    \* a device is factory reset
     "crash", "power"}

ASSUME FaultsAssumption == Faults \subseteq FaultKinds
ASSUME NoneAssumption ==
    None \notin Device /\ None \notin NodeId /\ None \notin MatterId

VARIABLES
    holds,     \* device -> the fabric node id it holds our credentials for
    peer,      \* fabric node id -> the device of the SDK's peer, in memory
    disk,      \* the same as the SDK's own store would give it back
    online,    \* the peers with a live session (lifecycle.isOnline)
    assigned,  \* fabric node ids ever assigned
    row,       \* the nodes table: node id -> matter_id
    mapped,    \* IdentityMap: node id -> the peer (ClientNode) behind it
    minted,    \* node ids ever minted
    leaving,   \* SdkNodeGateway.#decommissioning
    op,        \* the requests and where each one is
    up,        \* whether the process is running
    emit       \* the domain event put on the bus by the latest step

stores == <<holds, peer, disk, assigned>>
vars == <<holds, peer, disk, online, assigned, row, mapped, minted, leaving,
          op, up, emit>>

-----------------------------------------------------------------------------
(* The state space *)

R == INSTANCE Roster WITH
        stage <- [n \in NodeId |->
                    IF row[n] # None THEN "listed"
                    ELSE IF n \in minted /\ mapped[n] = None THEN "gone"
                    ELSE "unborn"],
        note  <- emit

Quiet == R!Quiet
Added(n, r) == R!Added(n, r)
Removed(n) == R!Removed(n)
Connected(n) == R!Connected(n)
Disconnected(n) == R!Disconnected(n)

Event ==
    [name : {"quiet", "node:added", "node:removed", "node:connected",
             "node:disconnected"},
     node : NodeId \cup {None}, reachable : BOOLEAN]

\* A request: what it was asked, and the await it is suspended at.
\*   joining    peers.commission()           joined    it resolved
\*   registered gateway.commission() resolved, the transaction is next
\*   removing   node.decommission() or .delete(), or the same as an undo
\*   removed    it resolved                  dropping  the row is next
Phases == {"idle", "joining", "joined", "registered", "removing", "removed",
           "dropping", "ok", "failed"}
Request ==
    [pc : Phases, kind : {"none", "commission", "decommission"},
     dev : Device \cup {None}, matter : MatterId \cup {None},
     node : NodeId \cup {None}, force : BOOLEAN]

Idle == [pc |-> "idle", kind |-> "none", dev |-> None, matter |-> None,
         node |-> None, force |-> FALSE]

At(o, phase) == up /\ op[o].pc = phase
Resting(o) == op[o].pc \in {"idle", "ok", "failed"}

\* The request moves to another await, or is answered and keeps its outcome.
Goto(o, phase) == op' = [op EXCEPT ![o].pc = phase]
Answer(o, outcome) ==
    op' = [op EXCEPT ![o] = [Idle EXCEPT !.pc = outcome, !.kind = op[o].kind,
                                         !.node = op[o].node]]

-----------------------------------------------------------------------------
(* Reading the stores *)

\* Mutant: the lookup's result instead of its session.
ReachableRaw(n) == mapped[n]

\* NodeGateway.isReachable: an unmapped node is not reachable, not an error.
Reachable(n) == mapped[n] # None /\ mapped[n] \in online

\* The node a peer's observers were attached for, if it is mapped.
Watched(m) == {n \in NodeId : mapped[n] = m}

\* The device still answers to this fabric node id.
Answers(m) == peer[m] # None /\ holds[peer[m]] = m

\* What the watchers publish when a peer's session opens,
OnlineEvent(m) ==
    IF Watched(m) = {} THEN Quiet
    ELSE Connected(CHOOSE n \in NodeId : n \in Watched(m))

\* Mutant: the watcher listens for sessions that open only.
OfflineUnheard(m) == Quiet

\* and when it ends: nothing while the node is being removed.
OfflineEvent(m) ==
    IF Watched(m) \ leaving = {} THEN Quiet
    ELSE Disconnected(CHOOSE n \in NodeId : n \in Watched(m) \ leaving)

\* The SDK's store runs with synchronous = NORMAL: the latest commits may not
\* have reached the disk when the power goes.
WritePeers(peers) ==
    /\ peer' = peers
    /\ disk' \in IF "power" \in Faults THEN {disk, peers} ELSE {peers}

-----------------------------------------------------------------------------
(* node.commission *)

CommissionCall(o, d) ==
    /\ up /\ Resting(o)
    /\ op' = [op EXCEPT ![o] = [Idle EXCEPT !.pc = "joining",
                                            !.kind = "commission", !.dev = d]]
    /\ emit' = Quiet
    /\ UNCHANGED <<stores, online, row, mapped, minted, leaving, up>>

\* External: the device accepts our credentials and becomes a peer.
SdkJoined(o) ==
    /\ At(o, "joining")
    /\ holds[op[o].dev] = None
    /\ \E m \in MatterId \ assigned :
          /\ assigned' = assigned \cup {m}
          /\ holds' = [holds EXCEPT ![op[o].dev] = m]
          /\ WritePeers([peer EXCEPT ![m] = op[o].dev])
          /\ online' = online \cup {m}
          /\ op' = [op EXCEPT ![o] = [@ EXCEPT !.pc = "joined", !.matter = m]]
    /\ emit' = Quiet
    /\ UNCHANGED <<row, mapped, minted, leaving, up>>

\* DeviceAlreadyCommissionedError when the device holds our fabric, and
\* CommissioningFailedError for everything else; neither changes a store.
SdkRefused(o) ==
    /\ At(o, "joining")
    /\ Answer(o, "failed")
    /\ emit' = Quiet
    /\ UNCHANGED <<stores, online, row, mapped, minted, leaving, up>>

\* The rest of gateway.commission: mint an id and register the identity.
Register(o) ==
    /\ At(o, "joined")
    /\ \E n \in NodeId \ minted :
          /\ minted' = minted \cup {n}
          /\ mapped' = [mapped EXCEPT ![n] = op[o].matter]
          /\ op' = [op EXCEPT ![o] = [@ EXCEPT !.pc = "registered", !.node = n]]
    /\ emit' = Quiet
    /\ UNCHANGED <<stores, online, row, leaving, up>>

\* A broken SDK invariant or a watcher that cannot attach: the request fails
\* with the device in the fabric, and in the map when addNode got that far.
RegisterFails(o) ==
    /\ "attach" \in Faults /\ At(o, "joined")
    /\ \E n \in NodeId \ minted :
          /\ minted' = minted \cup {n}
          /\ mapped' \in {mapped, [mapped EXCEPT ![n] = op[o].matter]}
    /\ Answer(o, "failed")
    /\ emit' = Quiet
    /\ UNCHANGED <<stores, online, row, leaving, up>>

\* UNIQUE (matter_id) and PRIMARY KEY (id) of the nodes table.
Insertable(n, m) ==
    row[n] = None /\ \A k \in NodeId : row[k] # m

\* The transaction commits, and the announcement is made in the same turn.
Persist(o) ==
    /\ At(o, "registered")
    /\ Insertable(op[o].node, op[o].matter)
    /\ row' = [row EXCEPT ![op[o].node] = op[o].matter]
    /\ emit' = Added(op[o].node, Reachable(op[o].node))
    /\ Answer(o, "ok")
    /\ UNCHANGED <<stores, online, mapped, minted, leaving, up>>

\* Mutant: the undo forgets the device instead of taking it off the fabric.
UndoByForce(o) ==
    /\ op' = [op EXCEPT ![o] = [@ EXCEPT !.pc = "removing", !.force = TRUE]]
    /\ leaving' = leaving \cup {op[o].node}

\* #rollbackCommission, up to the await of gateway.decommission.
Undo(o) ==
    IF mapped[op[o].node] = None
    THEN Answer(o, "failed") /\ UNCHANGED leaving
    ELSE Goto(o, "removing") /\ leaving' = leaving \cup {op[o].node}

\* It fails: the catch block starts the undo before it yields.
PersistFails(o) ==
    /\ At(o, "registered")
    /\ "persist" \in Faults \/ ~Insertable(op[o].node, op[o].matter)
    /\ Undo(o)
    /\ emit' = Quiet
    /\ UNCHANGED <<stores, online, row, mapped, minted, up>>

-----------------------------------------------------------------------------
(* node.decommission, and the removal that undoes a commissioning *)

\* The lookup, and the part of gateway.decommission before its await.  A node
\* the identity map does not hold is NodeNotFoundError, which is tolerated.
DecommissionCall(o, n, force) ==
    /\ up /\ Resting(o)
    /\ LET asked == [Idle EXCEPT !.kind = "decommission", !.node = n,
                                 !.force = force]
       IN  \/ /\ row[n] = None
              /\ op' = [op EXCEPT ![o] = [asked EXCEPT !.pc = "failed",
                                                       !.force = FALSE]]
              /\ UNCHANGED leaving
           \/ /\ row[n] # None /\ mapped[n] = None
              /\ op' = [op EXCEPT ![o] = [asked EXCEPT !.pc = "dropping"]]
              /\ UNCHANGED leaving
           \/ /\ row[n] # None /\ mapped[n] # None
              /\ op' = [op EXCEPT ![o] = [asked EXCEPT !.pc = "removing",
                                                       !.matter = mapped[n]]]
              /\ leaving' = leaving \cup {n}
    /\ emit' = Quiet
    /\ UNCHANGED <<stores, online, row, mapped, minted, up>>

\* External: the device drops our fabric, or with force is not asked; either
\* way the SDK forgets the peer, whose session ends while it does.
SdkRemoved(o) ==
    /\ At(o, "removing")
    /\ LET m == op[o].matter IN
          /\ op[o].force \/ Answers(m) \/ peer[m] = None
          /\ holds' = IF op[o].force \/ ~Answers(m) THEN holds
                      ELSE [holds EXCEPT ![peer[m]] = None]
          /\ WritePeers([peer EXCEPT ![m] = None])
          /\ online' = online \ {m}
          /\ emit' = IF m \in online THEN OfflineEvent(m) ELSE Quiet
    /\ Goto(o, "removed")
    /\ UNCHANGED <<assigned, row, mapped, minted, leaving, up>>

\* Mutant: no finally block.
UnflagNever(n) == leaving

\* The finally block of gateway.decommission.
Unflag(n) == leaving \ {n}

\* Mutant: every error of the gateway is tolerated, not only an absent node.
RefusedTolerated(o) ==
    IF op[o].kind = "commission" THEN Answer(o, "failed")
    ELSE Goto(o, "dropping")

\* Mutant: an undo is tried again until the device answers.
UndoUntilDone(o) ==
    IF op[o].kind = "commission" THEN Goto(o, "removing")
    ELSE Answer(o, "failed")

\* The use-case rethrows; an undo is only logged, and the error that started
\* it is what the caller gets.
Refused(o) == Answer(o, "failed")

\* External: asleep, offline, already taken away by another request, or any
\* other failure.
MayRefuse(o) ==
    \/ (IF op[o].kind = "commission" THEN "undo" ELSE "removal") \in Faults
    \/ peer[op[o].matter] = None
    \/ ~op[o].force /\ (~Answers(op[o].matter) \/ op[o].matter \notin online)

\* The finally block ends the filtering and the error goes up.
RemovalRefused(o) ==
    /\ At(o, "removing")
    /\ MayRefuse(o)
    /\ leaving' = Unflag(op[o].node)
    /\ Refused(o)
    /\ emit' = Quiet
    /\ UNCHANGED <<stores, online, row, mapped, minted, up>>

\* The finally block, then identity.removeNode.
Settle(o) ==
    /\ At(o, "removed")
    /\ leaving' = Unflag(op[o].node)
    /\ mapped' = [mapped EXCEPT ![op[o].node] = None]
    /\ IF op[o].kind = "commission"
       THEN Answer(o, "failed")
       ELSE Goto(o, "dropping")
    /\ emit' = Quiet
    /\ UNCHANGED <<stores, online, row, minted, up>>

\* Mutant: deleting no row is not an error.
DropAnything(o) ==
    /\ At(o, "dropping")
    /\ row' = [row EXCEPT ![op[o].node] = None]
    /\ emit' = Removed(op[o].node)
    /\ Answer(o, "ok")
    /\ UNCHANGED <<stores, online, mapped, minted, leaving, up>>

\* nodeRepository.delete, which throws when there was no row to delete, and
\* the event it licenses.
Drop(o) ==
    /\ At(o, "dropping")
    /\ row[op[o].node] # None
    /\ row' = [row EXCEPT ![op[o].node] = None]
    /\ emit' = Removed(op[o].node)
    /\ Answer(o, "ok")
    /\ UNCHANGED <<stores, online, mapped, minted, leaving, up>>

\* Mutant: the error is logged and not rethrown.
DropSwallowed(o) ==
    /\ At(o, "dropping")
    /\ "delete" \in Faults
    /\ Answer(o, "ok")
    /\ emit' = Quiet
    /\ UNCHANGED <<stores, online, row, mapped, minted, leaving, up>>

\* The delete throws: nothing changes and nothing is emitted.
DropFails(o) ==
    /\ At(o, "dropping")
    /\ "delete" \in Faults \/ row[op[o].node] = None
    /\ Answer(o, "failed")
    /\ emit' = Quiet
    /\ UNCHANGED <<stores, online, row, mapped, minted, leaving, up>>

-----------------------------------------------------------------------------
(* The devices, and the process itself *)

GoOnline(m) ==
    /\ up /\ m \notin online /\ Answers(m)
    /\ online' = online \cup {m}
    /\ emit' = OnlineEvent(m)
    /\ UNCHANGED <<stores, row, mapped, minted, leaving, op, up>>

GoOffline(m) ==
    /\ up /\ m \in online
    /\ "drop" \in Faults \/ ~Answers(m)
    /\ online' = online \ {m}
    /\ emit' = OfflineEvent(m)
    /\ UNCHANGED <<stores, row, mapped, minted, leaving, op, up>>

\* A factory reset clears the credentials; the hub is not told.
FactoryReset(d) ==
    /\ "reset" \in Faults /\ holds[d] # None
    /\ holds' = [holds EXCEPT ![d] = None]
    /\ emit' = Quiet
    /\ UNCHANGED <<peer, disk, online, assigned, row, mapped, minted, leaving,
                   op, up>>

\* Memory is lost, with every request in flight.  A device half way through
\* joining reverts by itself (its fail-safe timer).
Halt(peers) ==
    /\ up
    /\ up' = FALSE
    /\ peer' = peers
    /\ disk' = peers
    /\ online' = {}
    /\ mapped' = [n \in NodeId |-> None]
    /\ leaving' = {}
    /\ op' = [o \in Op |-> Idle]
    /\ emit' = Quiet
    /\ UNCHANGED <<holds, assigned, row, minted>>

\* The process dies, or is stopped with its requests unfinished: what the SDK
\* wrote is in the operating system's hands and survives.
Crash == "crash" \in Faults /\ Halt(peer)

\* The power goes: only what reached the disk survives.
PowerCut == "power" \in Faults /\ Halt(disk)

\* Mutant: only the nodes that answer at boot are mapped.
HydratedIfAnswering(n) ==
    IF row[n] # None /\ Answers(row[n]) THEN row[n] ELSE None

\* Mutant: the correlation by matter id takes any peer for the row's.
HydratedLoosely(n) ==
    IF row[n] # None /\ \E m \in MatterId : peer[m] # None
    THEN CHOOSE m \in MatterId : peer[m] # None ELSE None

\* #hydrateIdentity: each row meets the peer of the same matter id.
Hydrated(n) ==
    IF row[n] # None /\ peer[row[n]] # None THEN row[n] ELSE None

\* The boot.  Sessions the SDK already opened are not announced, the watchers
\* attaching only after the map is filled.
Restart ==
    /\ ~up
    /\ up' = TRUE
    /\ mapped' = [n \in NodeId |-> Hydrated(n)]
    /\ online' \in SUBSET {m \in MatterId : Answers(m)}
    /\ emit' = Quiet
    /\ UNCHANGED <<stores, row, minted, leaving, op>>

-----------------------------------------------------------------------------
(* The specification *)

Init ==
    /\ holds = [d \in Device |-> None]
    /\ peer = [m \in MatterId |-> None]
    /\ disk = [m \in MatterId |-> None]
    /\ online = {}
    /\ assigned = {}
    /\ row = [n \in NodeId |-> None]
    /\ mapped = [n \in NodeId |-> None]
    /\ minted = {}
    /\ leaving = {}
    /\ op = [o \in Op |-> Idle]
    /\ up = TRUE
    /\ emit = Quiet

Call(o) ==
    \/ \E d \in Device : CommissionCall(o, d)
    \/ \E n \in NodeId, force \in BOOLEAN : DecommissionCall(o, n, force)

\* A request that was started goes on by itself, to an answer.
Proceed(o) ==
    \/ SdkJoined(o) \/ SdkRefused(o) \/ Register(o) \/ RegisterFails(o)
    \/ Persist(o) \/ PersistFails(o)
    \/ SdkRemoved(o) \/ RemovalRefused(o) \/ Settle(o)
    \/ Drop(o) \/ DropFails(o)

Surroundings ==
    \/ \E m \in MatterId : GoOnline(m) \/ GoOffline(m)
    \/ \E d \in Device : FactoryReset(d)
    \/ Crash \/ PowerCut \/ Restart

Next ==
    \/ \E o \in Op : Call(o) \/ Proceed(o)
    \/ Surroundings

Spec == Init /\ [][Next]_vars

\* Every SDK call settles (each has a timeout of its own), and what follows it
\* is a microtask; a process that stopped is started again.
FairSpec ==
    /\ Spec
    /\ \A o \in Op : WF_vars(Proceed(o))
    /\ WF_vars(Restart)
-----------------------------------------------------------------------------
(* Properties *)

\* Every variable has its type.
TypeOK ==
    /\ holds \in [Device -> MatterId \cup {None}]
    /\ peer \in [MatterId -> Device \cup {None}]
    /\ disk \in [MatterId -> Device \cup {None}]
    /\ online \in SUBSET MatterId
    /\ assigned \in SUBSET MatterId
    /\ row \in [NodeId -> MatterId \cup {None}]
    /\ mapped \in [NodeId -> MatterId \cup {None}]
    /\ minted \in SUBSET NodeId
    /\ leaving \in SUBSET NodeId
    /\ op \in [Op -> Request]
    /\ up \in BOOLEAN
    /\ emit \in Event

\* While the hub runs, a stored node whose peer the SDK still has can be
\* addressed: no interleaving of commissionings, removals (overlapping ones of
\* the same node included), failures and restarts unmaps it.
Controllable ==
    up => \A n \in NodeId :
             row[n] # None /\ peer[row[n]] # None => mapped[n] = row[n]

\* A peer is behind one node only, in the map, in the table and between the
\* two.  Hydration by matter id and the routing of session events rest on it.
OneNodePerPeer ==
    \A n, k \in NodeId :
        n # k => /\ mapped[n] # None => mapped[n] \notin {mapped[k], row[k]}
                 /\ row[n] # None => row[n] # row[k]

\* The filter on going offline never outlives the removals it is there for: a
\* node left flagged would have its drops ignored for the rest of the run.
FlagHasOwner ==
    \A n \in leaving :
        \E o \in Op : op[o].pc \in {"removing", "removed"} /\ op[o].node = n

\* What a client was answered stays true: a removal that succeeded left no
\* row, and a commissioning that failed never lists its node afterwards.
AnswersHold ==
    \A o \in Op :
        /\ op[o].pc = "ok" /\ op[o].kind = "decommission" =>
              row[op[o].node] = None
        /\ op[o].pc = "failed" /\ op[o].kind = "commission"
              /\ op[o].node # None => row[op[o].node] = None

\* Peers of the fabric that neither the database nor a request accounts for.
Orphans ==
    {m \in MatterId : /\ peer[m] # None
                      /\ \A n \in NodeId : row[n] # m
                      /\ \A o \in Op : op[o].matter # m}

\* No step makes a fabric orphan but the ones the code accepts: an undo that
\* fails, a joined node that cannot be registered, a process that stops.
OrphanOnlyByFailure ==
    [][ \/ Orphans' \subseteq Orphans
        \/ ~up'
        \/ \E o \in Op : RegisterFails(o)
        \/ \E o \in Op : op[o].kind = "commission" /\ RemovalRefused(o)]_vars

\* Devices whose credentials name a peer the SDK has forgotten: only a factory
\* reset makes them usable again.
Stranded == {d \in Device : holds[d] # None /\ peer[holds[d]] = None}

\* Only a removal the caller forced, or a power cut, strands a device; the undo
\* of a commissioning never does.
StrandedOnlyByForce ==
    [][ \/ Stranded' \subseteq Stranded
        \/ ~up'
        \/ \E o \in Op : op[o].kind = "decommission" /\ op[o].force
                        /\ SdkRemoved(o)]_vars

\* The database and the events form a Roster.
RosterSpec == R!Spec

\* A request that was started is answered, done or failed, whatever the others
\* and the devices do meanwhile, unless the process it was made to ends.
EveryRequestAnswered ==
    \A o \in Op : ~Resting(o) ~> op[o].pc \in {"ok", "failed"} \/ ~up
=============================================================================
