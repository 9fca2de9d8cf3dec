-------------------------------- MODULE Home --------------------------------
(***************************************************************************)
(* What the hub knows of the house besides its nodes: the endpoints of     *)
(* each node, whose names and rooms the database owns and whose attribute  *)
(* values the SDK caches, the rooms, and the domain events that let a      *)
(* client keep a copy of all of it.                                        *)
(*                                                                         *)
(* Metadata edits run to completion without an await and are one step      *)
(* each.  A node goes through the stages Fabric gives it, told apart here  *)
(* as far as endpoints see them.  A report is two steps, the SDK updating  *)
(* its cache before it announces the change.                               *)
(***************************************************************************)
EXTENDS Naturals, Sequences, SequencesExt

CONSTANTS
    Node, Endpoint, Room,
    Owner,       \* endpoint -> the node the interview found it on
    Name, Value,
    Wide,        \* the values JSON has no number for: 64-bit integers
    Client,
    MaxWire,     \* bound: frames in flight on one socket
    MaxPending,  \* bound: changes cached and not yet announced
    None

\* EndpointRecord without its keys, and EndpointState, with the value.
Record == [name : Name, room : Room \cup {None}]
States == [name : Name, room : Room \cup {None}, value : Value]

ASSUME OwnerAssumption == Owner \in [Endpoint -> Node]
ASSUME WideAssumption == Wide \subseteq Value
ASSUME NoneAssumption ==
    None \notin Room /\ None \notin Name /\ None \notin Record \cup States

VARIABLES
    nodes,     \* the nodes table
    endpoints, \* the endpoints table: endpoint -> its name and room, or None
    rooms,     \* the rooms table: room -> its name, or None
    used,      \* node and room ids ever minted
    peers,     \* nodes the SDK has a peer for
    mapped,    \* IdentityMap: the nodes watched and addressable
    saving,    \* nodes a commissioning has registered and not yet saved
    cache,     \* the SDK's cache: endpoint -> the value of an attribute
    pending,   \* changes in the cache and not yet announced, in order
    emit,      \* the domain event of the latest step
    live, wire, copy, \* subscribers, frames in flight, what clients hold
    missed     \* history: nodes whose node:added never left for a subscriber

database == <<nodes, endpoints, rooms, used>>
matter == <<peers, mapped, saving, cache, pending>>
clients == <<live, wire, copy, missed>>
vars == <<database, matter, emit, clients>>

-----------------------------------------------------------------------------
(* Records, states and events *)

EndpointsOf(n) == {e \in Endpoint : Owner[e] = n}

State(e) == [name |-> endpoints[e].name, room |-> endpoints[e].room,
             value |-> cache[e]]

\* EndpointView.get: null for an endpoint that is not stored, or whose node
\* the identity map does not hold.
Served(e) ==
    IF endpoints[e] = None \/ Owner[e] \notin mapped THEN None ELSE State(e)

Snapshot ==
    [name |-> "snapshot", nodes |-> nodes, rooms |-> rooms,
     endpoints |-> [e \in Endpoint |-> Served(e)]]

Quiet == [name |-> "quiet"]
NodeAdded(n, states) ==
    [name |-> "node:added", node |-> n, endpoints |-> states]
NodeRemoved(n) == [name |-> "node:removed", node |-> n]
Changed(e, v) == [name |-> "endpoint:changed", endpoint |-> e, value |-> v]
Renamed(e, name) ==
    [name |-> "endpoint:renamed", endpoint |-> e, label |-> name]
RoomAdded(r, name) == [name |-> "room:added", room |-> r, label |-> name]
RoomRenamed(r, name) == [name |-> "room:renamed", room |-> r, label |-> name]
RoomRemoved(r) == [name |-> "room:removed", room |-> r]

RoomChanged(e, r) ==
    [name |-> "endpoint:room-changed", endpoint |-> e, room |-> r]

\* The attribute values in a frame.  JSON.stringify throws on a bigint among
\* them, and then no frame is sent.
Values(frame) ==
    CASE frame.name = "endpoint:changed" -> {frame.value}
      [] frame.name \in {"snapshot", "node:added"} ->
            {frame.endpoints[e].value :
                e \in {f \in Endpoint : frame.endpoints[f] # None}}
      [] OTHER -> {}

Carried(frame) == Values(frame) \cap Wide = {}

-----------------------------------------------------------------------------
(* A client's copy *)

NoCopy == [nodes |-> {}, rooms |-> [r \in Room |-> None],
           endpoints |-> [e \in Endpoint |-> None]]

\* What a client makes of a frame.  An event about an endpoint or a room that
\* it does not hold is dropped.
NodesAfter(held, frame) ==
    IF frame.name = "snapshot" THEN frame.nodes
    ELSE IF frame.name = "node:added" THEN held.nodes \cup {frame.node}
    ELSE IF frame.name = "node:removed" THEN held.nodes \ {frame.node}
    ELSE held.nodes

RoomAfter(held, frame, r) ==
    IF frame.name = "snapshot" THEN frame.rooms[r]
    ELSE IF frame.name = "room:added" /\ frame.room = r THEN frame.label
    ELSE IF frame.name = "room:renamed" /\ frame.room = r
                /\ held.rooms[r] # None THEN frame.label
    ELSE IF frame.name = "room:removed" /\ frame.room = r THEN None
    ELSE held.rooms[r]

\* Events that tell one thing of one endpoint.
Edited(state, frame) ==
    IF frame.name = "endpoint:changed" THEN [state EXCEPT !.value = frame.value]
    ELSE IF frame.name = "endpoint:renamed" THEN [state EXCEPT !.name = frame.label]
    ELSE [state EXCEPT !.room = frame.room]

EndpointAfter(held, frame, e) ==
    IF frame.name = "snapshot" THEN frame.endpoints[e]
    ELSE IF frame.name = "node:added" /\ frame.node = Owner[e]
        THEN frame.endpoints[e]
    ELSE IF frame.name = "node:removed" /\ frame.node = Owner[e] THEN None
    ELSE IF held.endpoints[e] = None THEN None
    ELSE IF frame.name \in {"endpoint:changed", "endpoint:renamed",
                            "endpoint:room-changed"} /\ frame.endpoint = e
        THEN Edited(held.endpoints[e], frame)
    ELSE IF frame.name = "room:removed" /\ frame.room = held.endpoints[e].room
        THEN [held.endpoints[e] EXCEPT !.room = None]
    ELSE held.endpoints[e]

Apply(held, frame) ==
    [nodes |-> NodesAfter(held, frame),
     rooms |-> [r \in Room |-> RoomAfter(held, frame, r)],
     endpoints |-> [e \in Endpoint |-> EndpointAfter(held, frame, e)]]

\* JsonRpcChannel.forward of the step's event, run inline by the bus, which
\* logs what it throws: every subscriber gets the frame, or none does.
Lost(event) ==
    IF event.name = "node:added" /\ ~Carried(event) THEN {event.node} ELSE {}

Publish(event) ==
    /\ \A c \in live : Len(wire[c]) < MaxWire
    /\ emit' = event
    /\ wire' = [c \in Client |->
                   IF c \in live /\ event # Quiet /\ Carried(event)
                   THEN Append(wire[c], event) ELSE wire[c]]
    /\ missed' = [c \in Client |->
                     IF c \in live THEN missed[c] \cup Lost(event) ELSE missed[c]]
    /\ UNCHANGED <<live, copy>>

-----------------------------------------------------------------------------
(* Nodes come and go *)

\* gateway.commission has joined the device and registers it: from here on its
\* endpoints are watched, and none of them is stored.
Register(n) ==
    /\ n \notin used
    /\ used' = used \cup {n}
    /\ peers' = peers \cup {n}
    /\ mapped' = mapped \cup {n}
    /\ saving' = saving \cup {n}
    /\ Publish(Quiet)
    /\ UNCHANGED <<nodes, endpoints, rooms, cache, pending>>

\* Mutant: the state of the endpoint is stored, not its record.
StoredWithValue(name) ==
    [name |-> name, room |-> None, value |-> CHOOSE v \in Value \ Wide : TRUE]

\* The record a commissioned endpoint starts with: a default name, no room.
Stored(name) == [name |-> name, room |-> None]

\* Mutant: the announcement is composed without reading the cache.
StatesAsRecorded(n, name) ==
    [e \in Endpoint |->
        IF Owner[e] = n
        THEN [name |-> name, room |-> None, value |-> CHOOSE v \in Value \ Wide : TRUE]
        ELSE None]

\* #announce: each endpoint as the view composes it, after the commit.
StatesAnnounced(n, name) ==
    [e \in Endpoint |->
        IF Owner[e] = n
        THEN [name |-> name, room |-> None, value |-> cache[e]] ELSE None]

\* One transaction for the node and its endpoints, then the announcement.
Save(n, name) ==
    /\ n \in saving
    /\ saving' = saving \ {n}
    /\ nodes' = nodes \cup {n}
    /\ endpoints' = [e \in Endpoint |->
                        IF Owner[e] = n THEN Stored(name)
                        ELSE endpoints[e]]
    /\ Publish(NodeAdded(n, StatesAnnounced(n, name)))
    /\ UNCHANGED <<rooms, used, peers, mapped, cache, pending>>

\* It rolls back; what remains mapped is for the undo to take away, if it can.
SaveFails(n) ==
    /\ n \in saving
    /\ saving' = saving \ {n}
    /\ Publish(Quiet)
    /\ UNCHANGED <<database, peers, mapped, cache, pending>>

\* The fabric side of a removal, or of the undo: the node stops being watched.
Unmap(n) ==
    /\ n \in mapped \ saving
    /\ mapped' = mapped \ {n}
    /\ peers' = peers \ {n}
    /\ Publish(Quiet)
    /\ UNCHANGED <<database, saving, cache, pending>>

\* The database side: the cascade takes the endpoints with the node.
Delete(n) ==
    /\ n \in nodes \ mapped
    /\ nodes' = nodes \ {n}
    /\ endpoints' = [e \in Endpoint |->
                        IF Owner[e] = n THEN None ELSE endpoints[e]]
    /\ Publish(NodeRemoved(n))
    /\ UNCHANGED <<rooms, used, matter>>

-----------------------------------------------------------------------------
(* Attribute reports *)

\* External: the device reports, or a command of ours changed it.
Report(e, v) ==
    /\ Owner[e] \in peers /\ cache[e] # v
    /\ Len(pending) < MaxPending
    /\ cache' = [cache EXCEPT ![e] = v]
    /\ pending' = Append(pending, [endpoint |-> e, value |-> v])
    /\ Publish(Quiet)
    /\ UNCHANGED <<database, peers, mapped, saving>>

\* The observer of a watched endpoint runs; without one nothing does.
Announced(change) ==
    IF Owner[change.endpoint] \in mapped
    THEN Changed(change.endpoint, change.value) ELSE Quiet

Announce ==
    /\ pending # <<>>
    /\ pending' = Tail(pending)
    /\ Publish(Announced(Head(pending)))
    /\ UNCHANGED <<database, peers, mapped, saving, cache>>

-----------------------------------------------------------------------------
(* Metadata edits *)

\* An id that matches nothing is an error before anything is written or said.
NotFound == Publish(Quiet) /\ UNCHANGED <<database, matter>>

Rename(e, name) ==
    \/ endpoints[e] = None /\ NotFound
    \/ /\ endpoints[e] # None
       /\ endpoints' = [endpoints EXCEPT ![e].name = name]
       /\ Publish(Renamed(e, name))
       /\ UNCHANGED <<nodes, rooms, used, matter>>

\* Mutant: without the check that names the missing room, and a schema that
\* does not enforce the key.
AnyRoom(r) == TRUE

\* The room must exist, unless the assignment is being cleared.
Assignable(r) == r \in Room => rooms[r] # None

AssignRoom(e, r) ==
    \/ (~Assignable(r) \/ endpoints[e] = None) /\ NotFound
    \/ /\ Assignable(r) /\ endpoints[e] # None
       /\ endpoints' = [endpoints EXCEPT ![e].room = r]
       /\ Publish(RoomChanged(e, r))
       /\ UNCHANGED <<nodes, rooms, used, matter>>

CreateRoom(r, name) ==
    /\ r \notin used
    /\ used' = used \cup {r}
    /\ rooms' = [rooms EXCEPT ![r] = name]
    /\ Publish(RoomAdded(r, name))
    /\ UNCHANGED <<nodes, endpoints, matter>>

RenameRoom(r, name) ==
    \/ rooms[r] = None /\ NotFound
    \/ /\ rooms[r] # None
       /\ rooms' = [rooms EXCEPT ![r] = name]
       /\ Publish(RoomRenamed(r, name))
       /\ UNCHANGED <<nodes, endpoints, used, matter>>

\* Mutant: no ON DELETE SET NULL.
KeepRoom(e, r) == endpoints[e]

\* ON DELETE SET NULL on endpoints.room_id.
ClearRoom(e, r) ==
    IF endpoints[e] # None /\ endpoints[e].room = r
    THEN [endpoints[e] EXCEPT !.room = None] ELSE endpoints[e]

RemoveRoom(r) ==
    \/ rooms[r] = None /\ NotFound
    \/ /\ rooms[r] # None
       /\ rooms' = [rooms EXCEPT ![r] = None]
       /\ endpoints' = [e \in Endpoint |-> ClearRoom(e, r)]
       /\ Publish(RoomRemoved(r))
       /\ UNCHANGED <<nodes, used, matter>>

-----------------------------------------------------------------------------
(* The transport, and the process *)

\* A baseline that JSON cannot carry throws before the socket joins, and the
\* rejection, handled by nobody, ends the process: Reboot.
Subscribe(c) ==
    /\ Carried(Snapshot)
    /\ Len(wire[c]) < MaxWire
    /\ live' = live \cup {c}
    /\ wire' = [wire EXCEPT ![c] = Append(@, Snapshot)]
    /\ missed' = [missed EXCEPT ![c] = {}]
    /\ emit' = Quiet
    /\ UNCHANGED <<database, matter, copy>>

Receive(c) ==
    /\ wire[c] # <<>>
    /\ copy' = [copy EXCEPT ![c] = Apply(@, Head(wire[c]))]
    /\ wire' = [wire EXCEPT ![c] = Tail(@)]
    /\ emit' = Quiet
    /\ UNCHANGED <<database, matter, live, missed>>

Close(c) ==
    /\ c \in live
    /\ live' = live \ {c}
    /\ wire' = [wire EXCEPT ![c] = <<>>]
    /\ copy' = [copy EXCEPT ![c] = NoCopy]
    /\ missed' = [missed EXCEPT ![c] = {}]
    /\ emit' = Quiet
    /\ UNCHANGED <<database, matter>>

\* The process stops and boots again: the map is rebuilt from the rows and the
\* peers, and the cache is what the SDK's store and the devices say by then.
Reboot ==
    /\ mapped' = nodes \cap peers
    /\ saving' = {}
    /\ cache' \in [Endpoint -> Value]
    /\ pending' = <<>>
    /\ live' = {}
    /\ wire' = [c \in Client |-> <<>>]
    /\ copy' = [c \in Client |-> NoCopy]
    /\ missed' = [c \in Client |-> {}]
    /\ emit' = Quiet
    /\ UNCHANGED <<database, peers>>

-----------------------------------------------------------------------------
Init ==
    /\ nodes = {}
    /\ endpoints = [e \in Endpoint |-> None]
    /\ rooms = [r \in Room |-> None]
    /\ used = {}
    /\ peers = {} /\ mapped = {} /\ saving = {}
    /\ cache \in [Endpoint -> Value]
    /\ pending = <<>>
    /\ emit = Quiet
    /\ live = {}
    /\ wire = [c \in Client |-> <<>>]
    /\ copy = [c \in Client |-> NoCopy]
    /\ missed = [c \in Client |-> {}]

Nodes ==
    \E n \in Node :
        \/ Register(n) \/ SaveFails(n) \/ Unmap(n) \/ Delete(n)
        \/ \E name \in Name : Save(n, name)

Edits ==
    \/ \E e \in Endpoint :
          \/ \E name \in Name : Rename(e, name)
          \/ \E r \in Room \cup {None} : AssignRoom(e, r)
    \/ \E r \in Room :
          \/ \E name \in Name : CreateRoom(r, name) \/ RenameRoom(r, name)
          \/ RemoveRoom(r)

Reports == Announce \/ \E e \in Endpoint, v \in Value : Report(e, v)

Transport ==
    Reboot \/ \E c \in Client : Subscribe(c) \/ Receive(c) \/ Close(c)

Next == Nodes \/ Edits \/ Reports \/ Transport

Spec == Init /\ [][Next]_vars

-----------------------------------------------------------------------------
(* Properties *)

\* Every variable of the hub has its type.
TypeOK ==
    /\ nodes \subseteq Node
    /\ endpoints \in [Endpoint -> Record \cup {None}]
    /\ rooms \in [Room -> Name \cup {None}]
    /\ used \subseteq Node \cup Room
    /\ peers \subseteq Node /\ mapped \subseteq Node /\ saving \subseteq Node
    /\ cache \in [Endpoint -> Value]
    /\ pending \in Seq([endpoint : Endpoint, value : Value])
    /\ live \subseteq Client
    /\ missed \in [Client -> SUBSET Node]

\* No stored endpoint outlives its node or names a room that is gone, through
\* any order of assignments, removals and cascades.
References ==
    \A e \in Endpoint :
        endpoints[e] # None =>
            /\ Owner[e] \in nodes
            /\ endpoints[e].room # None => rooms[endpoints[e].room] # None

\* The house as a client would hold it that was told of everything, and the
\* part of it the database owns, the values left aside.
Whole ==
    [nodes |-> nodes, rooms |-> rooms,
     endpoints |-> [e \in Endpoint |->
         IF endpoints[e] = None THEN None ELSE State(e)]]
Metadata ==
    [nodes |-> nodes, rooms |-> rooms,
     endpoints |-> [e \in Endpoint |->
         IF endpoints[e] = None THEN None
         ELSE [name |-> endpoints[e].name, room |-> endpoints[e].room]]]
Bare(held) ==
    [nodes |-> held.nodes, rooms |-> held.rooms,
     endpoints |-> [e \in Endpoint |->
         IF held.endpoints[e] = None THEN None
         ELSE [name |-> held.endpoints[e].name,
               room |-> held.endpoints[e].room]]]

\* Whatever a step changes in the database, cascades included, a client that
\* held the house before the step and applies its one event holds after it.
OneEventTellsAll ==
    [][emit' # Quiet \/ Metadata' # Metadata =>
          Bare(Apply(Whole, emit')) = Metadata']_vars

\* A subscriber's copy once all that is in flight and all that the SDK has
\* still to announce, and JSON can carry, has reached it.
Sent(event) == IF Carried(event) THEN event ELSE Quiet
Announcements == [i \in DOMAIN pending |-> Sent(Announced(pending[i]))]
Settled(c) == FoldLeft(Apply, copy[c], wire[c] \o Announcements)

\* It is the house: nodes, rooms, and the endpoints of every mapped node with
\* their current values.  A node whose node:added JSON could not carry is not
\* in it, nor are its endpoints; and the value of an endpoint may be an earlier
\* one while the current one is wide.  Of a node the map does not hold, a
\* client that knew its endpoints keeps them, with the right names and rooms.
CopyHoldsHome ==
    \A c \in live : LET held == Settled(c) IN
        /\ held.nodes = nodes \ missed[c]
        /\ held.rooms = rooms
        /\ \A e \in Endpoint :
              IF Owner[e] \in missed[c] THEN held.endpoints[e] = None
              ELSE IF endpoints[e] # None /\ Owner[e] \notin mapped
              THEN held.endpoints[e] # None =>
                      Bare(held).endpoints[e] = Metadata.endpoints[e]
              ELSE IF endpoints[e] # None /\ cache[e] \in Wide
              THEN Bare(held).endpoints[e] = Metadata.endpoints[e]
              ELSE held.endpoints[e] = Served(e)

\* The nodes table and the events about nodes form a Roster here too: a node
\* that is registered and not yet saved is unborn, and one whose saving failed
\* is gone.  Roster does not speak of endpoints and rooms.
R == INSTANCE Roster WITH
        NodeId <- Node,
        stage  <- [n \in Node |->
                     IF n \in nodes THEN "listed"
                     ELSE IF n \in used \ saving THEN "gone" ELSE "unborn"],
        note   <- IF emit.name \in {"node:added", "node:removed"}
                  THEN [name |-> emit.name, node |-> emit.node,
                        reachable |-> emit.name = "node:added"]
                  ELSE [name |-> "quiet", node |-> None, reachable |-> FALSE]
RosterSpec == R!Spec
=============================================================================
