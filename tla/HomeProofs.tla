----------------------------- MODULE HomeProofs -----------------------------
(***************************************************************************)
(* Theorems about Home, for any house and any number of clients: its       *)
(* references hold, and the one event of a step tells a client everything  *)
(* that the step changed in the database.                                  *)
(***************************************************************************)
EXTENDS Home, WellFoundedInduction, SequenceTheorems, TLAPS

-----------------------------------------------------------------------------
(* What an event does to the metadata of a copy *)

\* The copy that held the house holds it again once it applies the event.
Told == Bare(Apply(Whole, emit')) = Metadata'

\* The same of one endpoint.
RowTold(e) ==
    IF endpoints'[e] = None THEN EndpointAfter(Whole, emit', e) = None
    ELSE /\ EndpointAfter(Whole, emit', e) # None
         /\ EndpointAfter(Whole, emit', e).name = endpoints'[e].name
         /\ EndpointAfter(Whole, emit', e).room = endpoints'[e].room

\* It is enough to look at each table, row by row.
LEMMA RowByRow ==
  ASSUME NodesAfter(Whole, emit') = nodes',
         \A r \in Room : RoomAfter(Whole, emit', r) = rooms'[r],
         \A e \in Endpoint : RowTold(e),
         TypeOK'
  PROVE  Told
  <1>1. rooms' = [r \in Room |-> RoomAfter(Whole, emit', r)]
    BY DEF TypeOK
  <1>2. Metadata'.endpoints = Bare(Apply(Whole, emit')).endpoints
    BY DEF Metadata, Bare, Apply, RowTold
  <1> QED
    BY <1>1, <1>2 DEF Told, Metadata, Bare, Apply

\* Saving a node is told by node:added, endpoints and all.
LEMMA SaveTold ==
  ASSUME TypeOK, TypeOK', NEW n \in Node, NEW name \in Name, Save(n, name)
  PROVE  Told
  <1>1. emit' = NodeAdded(n, StatesAnnounced(n, name))
    BY DEF Save, Publish, NotFound
  <1>2. NodesAfter(Whole, emit') = nodes'
    BY <1>1 DEF Save, NodesAfter, Whole, NodeAdded
  <1>3. \A r \in Room : RoomAfter(Whole, emit', r) = rooms'[r]
    BY <1>1 DEF Save, RoomAfter, Whole, TypeOK, NodeAdded
  <1>4. ASSUME NEW e \in Endpoint
        PROVE  RowTold(e)
    BY <1>1, NoneAssumption
    DEF Save, RowTold, EndpointAfter, Whole, State, TypeOK, States, Record,
        NodeAdded, StatesAnnounced, Stored
  <1> QED
    BY <1>2, <1>3, <1>4, RowByRow

\* Deleting one is told by node:removed: the client drops the endpoints that
\* the cascade drops.
LEMMA DeleteTold ==
  ASSUME TypeOK, TypeOK', NEW n \in Node, Delete(n)
  PROVE  Told
  <1>1. emit' = NodeRemoved(n)
    BY DEF Delete, Publish, NotFound
  <1>2. NodesAfter(Whole, emit') = nodes'
    BY <1>1 DEF Delete, NodesAfter, Whole, NodeRemoved
  <1>3. \A r \in Room : RoomAfter(Whole, emit', r) = rooms'[r]
    BY <1>1 DEF Delete, RoomAfter, Whole, TypeOK, NodeRemoved
  <1>4. ASSUME NEW e \in Endpoint
        PROVE  RowTold(e)
    BY <1>1, NoneAssumption
    DEF Delete, RowTold, EndpointAfter, Whole, State, TypeOK, States, Record,
        NodeRemoved
  <1> QED
    BY <1>2, <1>3, <1>4, RowByRow

\* A new name of an endpoint is told, or was refused.
LEMMA RenameTold ==
  ASSUME TypeOK, TypeOK', NEW e \in Endpoint, NEW name \in Name,
         Rename(e, name)
  PROVE  Told \/ (emit' = Quiet /\ Metadata' = Metadata)
  <1>1. CASE NotFound
    BY <1>1 DEF NotFound, Publish, Metadata, database
  <1>2. CASE ~NotFound
    <2>1. emit' = Renamed(e, name) /\ endpoints[e] # None
      BY <1>2 DEF Rename, Publish
    <2>2. NodesAfter(Whole, emit') = nodes'
      BY <1>2, <2>1 DEF Rename, NodesAfter, Whole, Renamed
    <2>3. \A s \in Room : RoomAfter(Whole, emit', s) = rooms'[s]
      BY <1>2, <2>1 DEF Rename, RoomAfter, Whole, TypeOK, Renamed
    <2>4. ASSUME NEW f \in Endpoint
          PROVE  RowTold(f)
      BY <1>2, <2>1, NoneAssumption
      DEF Rename, RowTold, EndpointAfter, Whole, State, TypeOK, States, Record,
          Renamed, Edited
    <2> QED
      BY <2>2, <2>3, <2>4, RowByRow
  <1> QED
    BY <1>1, <1>2

\* And so is its room,
LEMMA AssignRoomTold ==
  ASSUME TypeOK, TypeOK', NEW e \in Endpoint, NEW r \in Room \cup {None},
         AssignRoom(e, r)
  PROVE  Told \/ (emit' = Quiet /\ Metadata' = Metadata)
  <1>1. CASE NotFound
    BY <1>1 DEF NotFound, Publish, Metadata, database
  <1>2. CASE ~NotFound
    <2>1. emit' = RoomChanged(e, r) /\ endpoints[e] # None
      BY <1>2 DEF AssignRoom, Publish
    <2>2. NodesAfter(Whole, emit') = nodes'
      BY <1>2, <2>1 DEF AssignRoom, NodesAfter, Whole, RoomChanged
    <2>3. \A s \in Room : RoomAfter(Whole, emit', s) = rooms'[s]
      BY <1>2, <2>1 DEF AssignRoom, RoomAfter, Whole, TypeOK, RoomChanged
    <2>4. ASSUME NEW f \in Endpoint
          PROVE  RowTold(f)
      BY <1>2, <2>1, NoneAssumption
      DEF AssignRoom, RowTold, EndpointAfter, Whole, State, TypeOK, States, Record,
          RoomChanged, Edited
    <2> QED
      BY <2>2, <2>3, <2>4, RowByRow
  <1> QED
    BY <1>1, <1>2

\* a new room,
LEMMA CreateRoomTold ==
  ASSUME TypeOK, TypeOK', NEW r \in Room, NEW name \in Name, CreateRoom(r, name)
  PROVE  Told
  <1>1. emit' = RoomAdded(r, name)
    BY DEF CreateRoom, Publish, NotFound
  <1>2. NodesAfter(Whole, emit') = nodes'
    BY <1>1 DEF CreateRoom, NodesAfter, Whole, RoomAdded
  <1>3. \A s \in Room : RoomAfter(Whole, emit', s) = rooms'[s]
    BY <1>1 DEF CreateRoom, RoomAfter, Whole, TypeOK, RoomAdded
  <1>4. ASSUME NEW e \in Endpoint
        PROVE  RowTold(e)
    BY <1>1, NoneAssumption
    DEF CreateRoom, RowTold, EndpointAfter, Whole, State, TypeOK, States, Record,
        RoomAdded
  <1> QED
    BY <1>2, <1>3, <1>4, RowByRow

\* a new name of a room,
LEMMA RenameRoomTold ==
  ASSUME TypeOK, TypeOK', NEW r \in Room, NEW name \in Name,
         RenameRoom(r, name)
  PROVE  Told \/ (emit' = Quiet /\ Metadata' = Metadata)
  <1>1. CASE NotFound
    BY <1>1 DEF NotFound, Publish, Metadata, database
  <1>2. CASE ~NotFound
    <2>1. emit' = RoomRenamed(r, name) /\ rooms[r] # None
      BY <1>2 DEF RenameRoom, Publish
    <2>2. NodesAfter(Whole, emit') = nodes'
      BY <1>2, <2>1 DEF RenameRoom, NodesAfter, Whole, RoomRenamed
    <2>3. \A s \in Room : RoomAfter(Whole, emit', s) = rooms'[s]
      BY <1>2, <2>1 DEF RenameRoom, RoomAfter, Whole, TypeOK, RoomRenamed
    <2>4. ASSUME NEW f \in Endpoint
          PROVE  RowTold(f)
      BY <1>2, <2>1, NoneAssumption
      DEF RenameRoom, RowTold, EndpointAfter, Whole, State, TypeOK, States, Record,
          RoomRenamed
    <2> QED
      BY <2>2, <2>3, <2>4, RowByRow
  <1> QED
    BY <1>1, <1>2

\* and the end of a room: the client clears the endpoints that the cascade
\* clears.
LEMMA RemoveRoomTold ==
  ASSUME TypeOK, TypeOK', NEW r \in Room,
         RemoveRoom(r)
  PROVE  Told \/ (emit' = Quiet /\ Metadata' = Metadata)
  <1>1. CASE NotFound
    BY <1>1 DEF NotFound, Publish, Metadata, database
  <1>2. CASE ~NotFound
    <2>1. emit' = RoomRemoved(r) /\ rooms[r] # None
      BY <1>2 DEF RemoveRoom, Publish
    <2>2. NodesAfter(Whole, emit') = nodes'
      BY <1>2, <2>1 DEF RemoveRoom, NodesAfter, Whole, RoomRemoved
    <2>3. \A s \in Room : RoomAfter(Whole, emit', s) = rooms'[s]
      BY <1>2, <2>1 DEF RemoveRoom, RoomAfter, Whole, TypeOK, RoomRemoved
    <2>4. ASSUME NEW f \in Endpoint
          PROVE  RowTold(f)
      BY <1>2, <2>1, NoneAssumption
      DEF RemoveRoom, RowTold, EndpointAfter, Whole, State, TypeOK, States, Record,
          RoomRemoved, ClearRoom
    <2> QED
      BY <2>2, <2>3, <2>4, RowByRow
  <1> QED
    BY <1>1, <1>2

\* A report that is announced tells nothing of the metadata.
LEMMA AnnounceTold ==
  ASSUME TypeOK, TypeOK', Announce
  PROVE  Told \/ (emit' = Quiet /\ Metadata' = Metadata)
  <1> DEFINE change == Head(pending)
  <1>1. change \in [endpoint : Endpoint, value : Value]
    <2>1. pending # <<>> /\ pending \in Seq([endpoint : Endpoint, value : Value])
      BY DEF Announce, TypeOK
    <2> QED
      BY <2>1, HeadTailProperties
  <1>2. CASE Owner[change.endpoint] \notin mapped
    BY <1>2 DEF Announce, Announced, Publish, Metadata, database
  <1>3. CASE Owner[change.endpoint] \in mapped
    <2>1. emit' = Changed(change.endpoint, change.value)
      BY <1>3 DEF Announce, Announced, Publish
    <2>2. NodesAfter(Whole, emit') = nodes'
      BY <2>1 DEF Announce, NodesAfter, Whole, Changed, database
    <2>3. \A s \in Room : RoomAfter(Whole, emit', s) = rooms'[s]
      BY <2>1 DEF Announce, RoomAfter, Whole, TypeOK, Changed, database
    <2>4. ASSUME NEW f \in Endpoint
          PROVE  RowTold(f)
      BY <1>1, <2>1, NoneAssumption
      DEF Announce, RowTold, EndpointAfter, Whole, State, TypeOK, States,
          Record, Changed, Edited, database
    <2> QED
      BY <2>2, <2>3, <2>4, RowByRow
  <1> QED
    BY <1>2, <1>3

-----------------------------------------------------------------------------
(* The references hold *)

Inv == TypeOK /\ References

\* The invariant holds at the start, the database being empty.
LEMMA Initially == Init => Inv
  BY DEF Init, Inv, TypeOK, References

\* Of the events only node:added can be lost at the cost of a node.
LEMMA LosesNothing ==
    /\ Lost(Quiet) = {} /\ \A n : Lost(NodeRemoved(n)) = {}
    /\ \A e, x : Lost(Changed(e, x)) = {} /\ Lost(Renamed(e, x)) = {} /\ Lost(RoomChanged(e, x)) = {}
    /\ \A r, x : Lost(RoomAdded(r, x)) = {} /\ Lost(RoomRenamed(r, x)) = {} /\ Lost(RoomRemoved(r)) = {}
BY DEF Lost, Quiet, NodeRemoved, Changed, Renamed, RoomChanged, RoomAdded, RoomRenamed, RoomRemoved

LEMMA LosesOne == \A n \in Node : \A states : Lost(NodeAdded(n, states)) \subseteq Node
BY DEF Lost, NodeAdded

LEMMA MissedTyped ==
    ASSUME TypeOK, NEW event, Publish(event), Lost(event) \subseteq Node
    PROVE  missed' \in [Client -> SUBSET Node]
BY DEF TypeOK, Publish

\* One step per action: its types, then the references.
LEMMA Preserved == Inv /\ [Next]_vars => Inv'
  <1> SUFFICES ASSUME TypeOK, References, [Next]_vars
               PROVE  TypeOK' /\ References'
    BY DEF Inv
  <1> USE OwnerAssumption, NoneAssumption
  <1>1. ASSUME NEW n \in Node, Register(n)
        PROVE  TypeOK' /\ References'
    <2>0. missed' \in [Client -> SUBSET Node]
      BY <1>1, MissedTyped, LosesNothing DEF Register, NotFound
    <2>1. TypeOK'
      BY <1>1, <2>0 DEF Register, Publish, NotFound, TypeOK, database, matter
    <2>2. References'
      BY <1>1, <2>1
      DEF Register, Publish, NotFound, TypeOK, References, database, matter
    <2> QED
      BY <2>1, <2>2
  <1>2. ASSUME NEW n \in Node, SaveFails(n)
        PROVE  TypeOK' /\ References'
    <2>0. missed' \in [Client -> SUBSET Node]
      BY <1>2, MissedTyped, LosesNothing DEF SaveFails, NotFound
    <2>1. TypeOK'
      BY <1>2, <2>0 DEF SaveFails, Publish, NotFound, TypeOK, database, matter
    <2>2. References'
      BY <1>2, <2>1
      DEF SaveFails, Publish, NotFound, TypeOK, References, database, matter
    <2> QED
      BY <2>1, <2>2
  <1>3. ASSUME NEW n \in Node, Unmap(n)
        PROVE  TypeOK' /\ References'
    <2>0. missed' \in [Client -> SUBSET Node]
      BY <1>3, MissedTyped, LosesNothing DEF Unmap, NotFound
    <2>1. TypeOK'
      BY <1>3, <2>0 DEF Unmap, Publish, NotFound, TypeOK, database, matter
    <2>2. References'
      BY <1>3, <2>1
      DEF Unmap, Publish, NotFound, TypeOK, References, database, matter
    <2> QED
      BY <2>1, <2>2
  <1>4. ASSUME NEW n \in Node, Delete(n)
        PROVE  TypeOK' /\ References'
    <2>0. missed' \in [Client -> SUBSET Node]
      BY <1>4, MissedTyped, LosesNothing DEF Delete, NotFound
    <2>1. TypeOK'
      BY <1>4, <2>0 DEF Delete, Publish, NotFound, TypeOK, database, matter
    <2>2. References'
      BY <1>4, <2>1
      DEF Delete, Publish, NotFound, TypeOK, References, database, matter
    <2> QED
      BY <2>1, <2>2
  <1>5. ASSUME NEW n \in Node, NEW name \in Name, Save(n, name)
        PROVE  TypeOK' /\ References'
    <2>0. missed' \in [Client -> SUBSET Node]
      BY <1>5, MissedTyped, LosesOne DEF Save, NotFound
    <2>1. TypeOK'
      BY <1>5, <2>0 DEF Save, Publish, NotFound, TypeOK, database, matter, Stored, Record
    <2>2. References'
      BY <1>5, <2>1
      DEF Save, Publish, NotFound, TypeOK, References, database, matter, Stored, Record
    <2> QED
      BY <2>1, <2>2
  <1>6. ASSUME NEW e \in Endpoint, NEW name \in Name, Rename(e, name)
        PROVE  TypeOK' /\ References'
    <2>0. missed' \in [Client -> SUBSET Node]
      BY <1>6, MissedTyped, LosesNothing DEF Rename, NotFound
    <2>1. TypeOK'
      BY <1>6, <2>0 DEF Rename, Publish, NotFound, TypeOK, database, matter, Record
    <2>2. References'
      BY <1>6, <2>1
      DEF Rename, Publish, NotFound, TypeOK, References, database, matter, Record
    <2> QED
      BY <2>1, <2>2
  <1>7. ASSUME NEW e \in Endpoint, NEW r \in Room \cup {None}, AssignRoom(e, r)
        PROVE  TypeOK' /\ References'
    <2>0. missed' \in [Client -> SUBSET Node]
      BY <1>7, MissedTyped, LosesNothing DEF AssignRoom, NotFound
    <2>1. TypeOK'
      BY <1>7, <2>0 DEF AssignRoom, Publish, NotFound, TypeOK, database, matter, Record, Assignable
    <2>2. References'
      BY <1>7, <2>1
      DEF AssignRoom, Publish, NotFound, TypeOK, References, database, matter, Record, Assignable
    <2> QED
      BY <2>1, <2>2
  <1>8. ASSUME NEW r \in Room, NEW name \in Name, CreateRoom(r, name)
        PROVE  TypeOK' /\ References'
    <2>0. missed' \in [Client -> SUBSET Node]
      BY <1>8, MissedTyped, LosesNothing DEF CreateRoom, NotFound
    <2>1. TypeOK'
      BY <1>8, <2>0 DEF CreateRoom, Publish, NotFound, TypeOK, database, matter
    <2>2. References'
      BY <1>8, <2>1
      DEF CreateRoom, Publish, NotFound, TypeOK, References, database, matter
    <2> QED
      BY <2>1, <2>2
  <1>9. ASSUME NEW r \in Room, NEW name \in Name, RenameRoom(r, name)
        PROVE  TypeOK' /\ References'
    <2>0. missed' \in [Client -> SUBSET Node]
      BY <1>9, MissedTyped, LosesNothing DEF RenameRoom, NotFound
    <2>1. TypeOK'
      BY <1>9, <2>0 DEF RenameRoom, Publish, NotFound, TypeOK, database, matter
    <2>2. \A s \in Room : rooms[s] # None => rooms'[s] # None
      BY <1>9 DEF RenameRoom, NotFound, TypeOK, database
    <2>3. endpoints' = endpoints /\ nodes' = nodes
      BY <1>9 DEF RenameRoom, NotFound, database
    <2>4. References'
      BY <2>1, <2>2, <2>3 DEF TypeOK, References, Record
    <2> QED
      BY <2>1, <2>4
  <1>10. ASSUME NEW r \in Room, RemoveRoom(r)
        PROVE  TypeOK' /\ References'
    <2>0. missed' \in [Client -> SUBSET Node]
      BY <1>10, MissedTyped, LosesNothing DEF RemoveRoom, NotFound
    <2>1. TypeOK'
      BY <1>10, <2>0 DEF RemoveRoom, Publish, NotFound, TypeOK, database, matter, Record, ClearRoom
    <2>2. References'
      BY <1>10, <2>1
      DEF RemoveRoom, Publish, NotFound, TypeOK, References, database, matter, Record, ClearRoom
    <2> QED
      BY <2>1, <2>2
  <1>11. ASSUME NEW e \in Endpoint, NEW v \in Value, Report(e, v)
        PROVE  TypeOK' /\ References'
    <2>0. missed' \in [Client -> SUBSET Node]
      BY <1>11, MissedTyped, LosesNothing DEF Report, NotFound
    <2>1. TypeOK'
      BY <1>11, <2>0 DEF Report, Publish, NotFound, TypeOK, database, matter
    <2>2. References'
      BY <1>11, <2>1
      DEF Report, Publish, NotFound, TypeOK, References, database, matter
    <2> QED
      BY <2>1, <2>2
  <1>12. ASSUME NEW c \in Client, Subscribe(c)
        PROVE  TypeOK' /\ References'
    <2>1. TypeOK'
      BY <1>12 DEF Subscribe, Publish, NotFound, TypeOK, database, matter
    <2>2. References'
      BY <1>12, <2>1
      DEF Subscribe, Publish, NotFound, TypeOK, References, database, matter
    <2> QED
      BY <2>1, <2>2
  <1>13. ASSUME NEW c \in Client, Receive(c)
        PROVE  TypeOK' /\ References'
    <2>1. TypeOK'
      BY <1>13 DEF Receive, Publish, NotFound, TypeOK, database, matter
    <2>2. References'
      BY <1>13, <2>1
      DEF Receive, Publish, NotFound, TypeOK, References, database, matter
    <2> QED
      BY <2>1, <2>2
  <1>14. ASSUME NEW c \in Client, Close(c)
        PROVE  TypeOK' /\ References'
    <2>1. TypeOK'
      BY <1>14 DEF Close, Publish, NotFound, TypeOK, database, matter
    <2>2. References'
      BY <1>14, <2>1
      DEF Close, Publish, NotFound, TypeOK, References, database, matter
    <2> QED
      BY <2>1, <2>2
  <1>15. CASE Announce
    <2>0. missed' \in [Client -> SUBSET Node]
      BY <1>15, MissedTyped, LosesNothing DEF Announce, Announced, NotFound
    <2>1. TypeOK'
      BY <1>15, <2>0 DEF Announce, Publish, TypeOK, database, matter
    <2>2. References'
      BY <1>15, <2>1 DEF Announce, Publish, TypeOK, References, database, matter
    <2> QED
      BY <2>1, <2>2
  <1>16. CASE Reboot
    <2>1. TypeOK'
      BY <1>16 DEF Reboot, Publish, TypeOK, database, matter
    <2>2. References'
      BY <1>16, <2>1 DEF Reboot, Publish, TypeOK, References, database, matter
    <2> QED
      BY <2>1, <2>2
  <1>17. CASE UNCHANGED vars
    <2>1. TypeOK'
      BY <1>17 DEF vars, Publish, TypeOK, database, matter, clients
    <2>2. References'
      BY <1>17, <2>1 DEF vars, Publish, TypeOK, References, database, matter, clients
    <2> QED
      BY <2>1, <2>2
  <1> QED
    BY <1>1, <1>2, <1>3, <1>4, <1>5, <1>6, <1>7, <1>8, <1>9, <1>10, <1>11, <1>12, <1>13, <1>14, <1>15, <1>16, <1>17 DEF Next, Nodes, Edits, Reports, Transport

\* Every variable of the hub keeps its type.
THEOREM TypeCorrect == Spec => []TypeOK
  BY Initially, Preserved, PTL DEF Spec, Inv

\* No stored endpoint outlives its node or names a room that is gone.
THEOREM AlwaysReferences == Spec => []References
  BY Initially, Preserved, PTL DEF Spec, Inv

-----------------------------------------------------------------------------
(* One event tells all *)

\* Every step tells what it changed, or changed nothing and is quiet.
LEMMA StepTold ==
  ASSUME TypeOK, TypeOK', Next
  PROVE  Told \/ (emit' = Quiet /\ Metadata' = Metadata)
  <1>1. ASSUME NEW n \in Node, Register(n)
        PROVE  Told \/ (emit' = Quiet /\ Metadata' = Metadata)
    BY <1>1 DEF Register, Publish, Metadata, database
  <1>2. ASSUME NEW n \in Node, SaveFails(n)
        PROVE  Told \/ (emit' = Quiet /\ Metadata' = Metadata)
    BY <1>2 DEF SaveFails, Publish, Metadata, database
  <1>3. ASSUME NEW n \in Node, Unmap(n)
        PROVE  Told \/ (emit' = Quiet /\ Metadata' = Metadata)
    BY <1>3 DEF Unmap, Publish, Metadata, database
  <1>4. ASSUME NEW n \in Node, Delete(n)
        PROVE  Told \/ (emit' = Quiet /\ Metadata' = Metadata)
    BY <1>4, DeleteTold
  <1>5. ASSUME NEW n \in Node, NEW name \in Name, Save(n, name)
        PROVE  Told \/ (emit' = Quiet /\ Metadata' = Metadata)
    BY <1>5, SaveTold
  <1>6. ASSUME NEW e \in Endpoint, NEW name \in Name, Rename(e, name)
        PROVE  Told \/ (emit' = Quiet /\ Metadata' = Metadata)
    BY <1>6, RenameTold
  <1>7. ASSUME NEW e \in Endpoint, NEW r \in Room \cup {None}, AssignRoom(e, r)
        PROVE  Told \/ (emit' = Quiet /\ Metadata' = Metadata)
    BY <1>7, AssignRoomTold
  <1>8. ASSUME NEW r \in Room, NEW name \in Name, CreateRoom(r, name)
        PROVE  Told \/ (emit' = Quiet /\ Metadata' = Metadata)
    BY <1>8, CreateRoomTold
  <1>9. ASSUME NEW r \in Room, NEW name \in Name, RenameRoom(r, name)
        PROVE  Told \/ (emit' = Quiet /\ Metadata' = Metadata)
    BY <1>9, RenameRoomTold
  <1>10. ASSUME NEW r \in Room, RemoveRoom(r)
        PROVE  Told \/ (emit' = Quiet /\ Metadata' = Metadata)
    BY <1>10, RemoveRoomTold
  <1>11. ASSUME NEW e \in Endpoint, NEW v \in Value, Report(e, v)
        PROVE  Told \/ (emit' = Quiet /\ Metadata' = Metadata)
    BY <1>11 DEF Report, Publish, Metadata, database
  <1>12. ASSUME NEW c \in Client, Subscribe(c)
        PROVE  Told \/ (emit' = Quiet /\ Metadata' = Metadata)
    BY <1>12 DEF Subscribe, Publish, Metadata, database
  <1>13. ASSUME NEW c \in Client, Receive(c)
        PROVE  Told \/ (emit' = Quiet /\ Metadata' = Metadata)
    BY <1>13 DEF Receive, Publish, Metadata, database
  <1>14. ASSUME NEW c \in Client, Close(c)
        PROVE  Told \/ (emit' = Quiet /\ Metadata' = Metadata)
    BY <1>14 DEF Close, Publish, Metadata, database
  <1>15. CASE Announce
    BY <1>15, AnnounceTold
  <1>16. CASE Reboot
    BY <1>16 DEF Reboot, Metadata, database
  <1> QED
    BY <1>1, <1>2, <1>3, <1>4, <1>5, <1>6, <1>7, <1>8, <1>9, <1>10, <1>11, <1>12, <1>13, <1>14, <1>15, <1>16 DEF Next, Nodes, Edits, Reports, Transport

\* Whatever a step changes in the database, cascades included, its one event
\* tells a client that held the house before it.
THEOREM EventsTellAll == Spec => OneEventTellsAll
  <1>1. Inv /\ Inv' /\ [Next]_vars =>
          [emit' # Quiet \/ Metadata' # Metadata =>
              Bare(Apply(Whole, emit')) = Metadata']_vars
    BY StepTold DEF Inv, Told
  <1> QED
    BY <1>1, Initially, Preserved, PTL DEF Spec, OneEventTellsAll

-----------------------------------------------------------------------------
(* Folding *)

\* The library's induction theorems take a predicate; its least-element
\* theorem takes a set, and gives induction over sets of numbers.
Below == {p \in Nat \X Nat : p[1] < p[2]}

LEMMA BelowWellFounded == IsWellFoundedOn(Below, Nat)
<1>1. OpToRel(<, Nat) = Below
  BY DEF OpToRel, Below
<1>2. QED
  BY <1>1, NatLessThanWellFounded

\* A set with zero, and with the successor of each of its numbers, has all.
LEMMA Induction ==
    ASSUME NEW T, 0 \in T, \A n \in Nat : n \in T => n + 1 \in T
    PROVE  \A n \in Nat : n \in T
<1> DEFINE Rest == Nat \ T
<1> SUFFICES ASSUME Rest # {} PROVE FALSE
  OBVIOUS
<1>1. PICK x \in Rest : \A y \in Rest : ~(<<y, x>> \in Below)
  <2>1. Rest \subseteq Nat
    OBVIOUS
  <2> HIDE DEF Rest
  <2>2. QED
    BY <2>1, WFMin, BelowWellFounded
<1>2. x # 0 /\ x - 1 \in Nat
  BY <1>1
<1>3. <<x - 1, x>> \in Below
  BY <1>1, <1>2 DEF Below
<1>4. QED
  BY <1>1, <1>2, <1>3

\* What a client holds once it has applied some frames to what it held.
Fold(held, frames) == FoldLeft(Apply, held, frames)

\* The function behind it, which folds over a set of positions.
Unrolls(g, n, held, frames) ==
    g = [s \in SUBSET (1 .. n) |->
            IF s = {} THEN held
            ELSE Apply(g[s \ {Max(s)}], frames[Max(s)])]

LEMMA TopIsMax ==
    ASSUME NEW n \in Nat, NEW s \in SUBSET (1 .. n + 1), n + 1 \in s
    PROVE  Max(s) = n + 1
<1> DEFINE m == Max(s)
<1>1. \A y \in s : y \in Nat /\ n + 1 >= y
  OBVIOUS
<1>2. m \in s /\ m >= n + 1
  BY <1>1 DEF Max
<1> HIDE DEF m
<1>3. m = n + 1
  BY <1>1, <1>2
<1>4. QED
  BY <1>3 DEF m

\* There is such a function for any number of frames,
LEMMA UnrollExists ==
    ASSUME NEW held, NEW frames
    PROVE  \A n \in Nat : \E g : Unrolls(g, n, held, frames)
<1> DEFINE T == {n \in Nat : \E g : Unrolls(g, n, held, frames)}
<1>1. 0 \in T
  <2>1. Unrolls([s \in SUBSET (1 .. 0) |-> held], 0, held, frames)
    BY DEF Unrolls
  <2>2. QED
    BY <2>1
<1>2. ASSUME NEW n \in Nat, n \in T
      PROVE  n + 1 \in T
  <2>1. PICK g : Unrolls(g, n, held, frames)
    BY <1>2
  <2> DEFINE h == [s \in SUBSET (1 .. n + 1) |->
                     IF n + 1 \in s THEN Apply(g[s \ {n + 1}], frames[n + 1])
                     ELSE g[s]]
  <2>2. ASSUME NEW s \in SUBSET (1 .. n + 1)
        PROVE  h[s] = IF s = {} THEN held
                      ELSE Apply(h[s \ {Max(s)}], frames[Max(s)])
    <3>1. CASE n + 1 \in s
      <4>1. /\ Max(s) = n + 1 /\ s \ {n + 1} \in SUBSET (1 .. n + 1)
            /\ n + 1 \notin s \ {n + 1}
        BY <3>1, TopIsMax
      <4>2. QED
        BY <3>1, <4>1
    <3>2. CASE n + 1 \notin s
      <4>0. \A i \in s : i \in 1 .. n + 1 /\ i # n + 1
        BY <3>2
      <4>1. s \in SUBSET (1 .. n)
        <5>1. \A i \in s : i \in 1 .. n
          BY <4>0
        <5>2. QED
          BY <5>1
      <4>2. g[s] = IF s = {} THEN held
                   ELSE Apply(g[s \ {Max(s)}], frames[Max(s)])
        BY <2>1, <4>1 DEF Unrolls
      <4>3. h[s] = g[s] /\ h[s \ {Max(s)}] = g[s \ {Max(s)}]
        <5>1. s \ {Max(s)} \in SUBSET (1 .. n + 1) /\ n + 1 \notin s \ {Max(s)}
          BY <3>2
        <5>2. QED
          BY <3>2, <5>1
      <4>4. QED
        BY <4>2, <4>3
    <3>3. QED
      BY <3>1, <3>2
  <2>3. Unrolls(h, n + 1, held, frames)
    BY <2>2 DEF Unrolls
  <2>4. QED
    BY <2>3
<1> HIDE DEF T
<1>3. \A n \in Nat : n \in T
  BY <1>1, <1>2, Induction
<1>4. QED
  BY <1>3 DEF T

LEMMA FoldUnrolls ==
    ASSUME NEW held, NEW frames, NEW n \in Nat, DOMAIN frames = 1 .. n
    PROVE  \E g : Unrolls(g, n, held, frames) /\ Fold(held, frames) = g[1 .. n]
<1>1. Fold(held, frames) = (CHOOSE g : Unrolls(g, n, held, frames))[1 .. n]
  BY DEF Fold, FoldLeft, MapThenFoldSet, Unrolls
<1>2. Unrolls(CHOOSE g : Unrolls(g, n, held, frames), n, held, frames)
  BY UnrollExists
<1>3. QED
  BY <1>1, <1>2

\* which applies the frames one by one.
LEMMA UnrollStep ==
    ASSUME NEW n \in Nat, NEW held, NEW frames, NEW g,
           Unrolls(g, n, held, frames)
    PROVE  /\ g[1 .. 0] = held
           /\ \A k \in Nat : k + 1 <= n =>
                 g[1 .. k + 1] = Apply(g[1 .. k], frames[k + 1])
<1>1. g[1 .. 0] = held
  <2>1. 1 .. 0 = {}
    OBVIOUS
  <2>2. QED
    BY <2>1 DEF Unrolls
<1>2. ASSUME NEW k \in Nat, k + 1 <= n
      PROVE  g[1 .. k + 1] = Apply(g[1 .. k], frames[k + 1])
  <2> DEFINE s == 1 .. k + 1
  <2>1. s \in SUBSET (1 .. n) /\ s # {} /\ k + 1 \in s
    BY <1>2
  <2>2. s \ {k + 1} = 1 .. k
    OBVIOUS
  <2>3. Max(s) = k + 1
    BY <2>1, TopIsMax
  <2> HIDE DEF s
  <2>4. g[s] = Apply(g[s \ {Max(s)}], frames[Max(s)])
    BY <2>1 DEF Unrolls
  <2>5. QED
    BY <2>2, <2>3, <2>4 DEF s
<1>3. QED
  BY <1>1, <1>2

\* Two of them agree as far as their frames do.
LEMMA UnrollsAgree ==
    ASSUME NEW n \in Nat, NEW m \in Nat, n <= m, NEW held, NEW p, NEW q,
           \A i \in 1 .. n : p[i] = q[i],
           NEW g, Unrolls(g, n, held, p), NEW h, Unrolls(h, m, held, q)
    PROVE  g[1 .. n] = h[1 .. n]
<1> DEFINE T == {k \in Nat : k <= n => g[1 .. k] = h[1 .. k]}
<1>1. 0 \in T
  BY UnrollStep
<1>2. ASSUME NEW k \in Nat, k \in T
      PROVE  k + 1 \in T
  <2>1. SUFFICES ASSUME k + 1 <= n PROVE g[1 .. k + 1] = h[1 .. k + 1]
    OBVIOUS
  <2>2. g[1 .. k] = h[1 .. k] /\ p[k + 1] = q[k + 1] /\ k + 1 <= m
    BY <1>2, <2>1
  <2>3. /\ g[1 .. k + 1] = Apply(g[1 .. k], p[k + 1])
        /\ h[1 .. k + 1] = Apply(h[1 .. k], q[k + 1])
    BY <2>1, <2>2, UnrollStep
  <2>4. QED
    BY <2>2, <2>3
<1> HIDE DEF T
<1>3. \A k \in Nat : k \in T
  BY <1>1, <1>2, Induction
<1>4. QED
  BY <1>3 DEF T

\* No frame leaves things as they are.
LEMMA FoldNothing == \A held : Fold(held, <<>>) = held
<1>1. TAKE held
<1>2. DOMAIN <<>> = 1 .. 0
  OBVIOUS
<1>3. PICK g : Unrolls(g, 0, held, <<>>) /\ Fold(held, <<>>) = g[1 .. 0]
  BY <1>2, FoldUnrolls
<1>4. QED
  BY <1>3, UnrollStep

\* A frame that is sent is applied last,
LEMMA FoldAppend ==
    ASSUME NEW S, NEW frames \in Seq(S), NEW f \in S, NEW held
    PROVE  Fold(held, Append(frames, f)) = Apply(Fold(held, frames), f)
<1> DEFINE n == Len(frames)
           more == Append(frames, f)
<1>1. /\ n \in Nat /\ DOMAIN frames = 1 .. n /\ DOMAIN more = 1 .. n + 1
      /\ more[n + 1] = f /\ \A i \in 1 .. n : frames[i] = more[i]
  OBVIOUS
<1> HIDE DEF n, more
<1>2. PICK g : Unrolls(g, n, held, frames) /\ Fold(held, frames) = g[1 .. n]
  BY <1>1, FoldUnrolls
<1>3. PICK h : Unrolls(h, n + 1, held, more) /\ Fold(held, more) = h[1 .. n + 1]
  BY <1>1, FoldUnrolls
<1>4. g[1 .. n] = h[1 .. n]
  BY <1>1, <1>2, <1>3, UnrollsAgree
<1>5. h[1 .. n + 1] = Apply(h[1 .. n], f)
  <2>1. \A k \in Nat : k + 1 <= n + 1 =>
           h[1 .. k + 1] = Apply(h[1 .. k], more[k + 1])
    BY <1>1, <1>3, UnrollStep
  <2>2. QED
    BY <1>1, <2>1
<1>6. QED
  BY <1>2, <1>3, <1>4, <1>5 DEF more

LEMMA FoldOne ==
    ASSUME NEW S, NEW s \in Seq(S), Len(s) = 1, NEW held
    PROVE  Fold(held, s) = Fold(Apply(held, Head(s)), Tail(s))
<1>1. s[1] \in S /\ <<>> \in Seq(S)
  OBVIOUS
<1>2. s = Append(<<>>, s[1]) /\ Head(s) = s[1] /\ Tail(s) = <<>>
  <2>1. Len(Append(<<>>, s[1])) = 1 /\ Append(<<>>, s[1])[1] = s[1]
    OBVIOUS
  <2>2. s = Append(<<>>, s[1])
    BY <1>1, <2>1, SeqEqual
  <2>3. Tail(s) \in Seq(S) /\ Len(Tail(s)) = 0
    OBVIOUS
  <2>4. Tail(s) = <<>>
    BY <2>3, EmptySeq
  <2>5. Head(s) = s[1]
    BY <1>1, <2>2, HeadTailAppend
  <2>6. QED
    BY <2>2, <2>4, <2>5
<1>3. PICK e \in S : s = Append(<<>>, e) /\ Head(s) = e
  BY <1>1, <1>2
<1>4. Fold(held, s) = Apply(Fold(held, <<>>), e)
  BY <1>1, <1>3, FoldAppend
<1>5. QED
  BY <1>2, <1>3, <1>4, FoldNothing

\* and the one that is received is applied first.
LEMMA FoldReceived ==
    ASSUME NEW S, NEW frames \in Seq(S), frames # <<>>, NEW held
    PROVE  Fold(held, frames) = Fold(Apply(held, Head(frames)), Tail(frames))
<1> DEFINE T == {n \in Nat :
                   \A s \in Seq(S) : Len(s) = n + 1 =>
                      Fold(held, s) = Fold(Apply(held, Head(s)), Tail(s))}
<1>1. 0 \in T
  BY FoldOne
<1>2. ASSUME NEW n \in Nat, n \in T
      PROVE  n + 1 \in T
  <2>1. ASSUME NEW s \in Seq(S), Len(s) = n + 2
        PROVE  Fold(held, s) = Fold(Apply(held, Head(s)), Tail(s))
    <3> DEFINE r == SubSeq(s, 1, n + 1)
               e == s[n + 2]
    <3>1. /\ r \in Seq(S) /\ Len(r) = n + 1 /\ e \in S /\ s = Append(r, e)
      BY <2>1
    <3> HIDE DEF r, e
    <3>0. r # <<>>
      BY <3>1
    <3>2. /\ Head(s) = Head(r) /\ Tail(s) = Append(Tail(r), e)
          /\ Tail(r) \in Seq(S)
      BY <3>0, <3>1, HeadTailAppend
    <3>3. Fold(held, r) = Fold(Apply(held, Head(r)), Tail(r))
      BY <1>2, <3>1
    <3>4. Fold(held, s) = Apply(Fold(held, r), e)
      BY <3>1, FoldAppend
    <3>5. Fold(Apply(held, Head(s)), Tail(s)) =
             Apply(Fold(Apply(held, Head(r)), Tail(r)), e)
      BY <3>1, <3>2, FoldAppend
    <3>6. QED
      BY <3>3, <3>4, <3>5
  <2>2. QED
    BY <2>1
<1> HIDE DEF T
<1>3. \A n \in Nat : n \in T
  BY <1>1, <1>2, Induction
<1>4. Len(frames) - 1 \in Nat
  OBVIOUS
<1>5. QED
  BY <1>3, <1>4 DEF T
-----------------------------------------------------------------------------
(* What a copy holds *)

\* No change of endpoint e is left to announce among p.
NoneLeft(e, p) == \A i \in 1 .. Len(p) : p[i].endpoint # e

\* What a copy that lacks only the changes p has of endpoint e.
RowHolds(state, e, p) ==
    IF endpoints[e] = None THEN state = None
    ELSE /\ Owner[e] \in mapped => state # None
         /\ state # None =>
               /\ state \in States
               /\ state.name = endpoints[e].name /\ state.room = endpoints[e].room
               /\ Owner[e] \in mapped /\ NoneLeft(e, p) /\ cache[e] \notin Wide
                     => state.value = cache[e]

\* Nothing, of the endpoints of the nodes it was never told of.
Row(state, e, p, lost) ==
    IF Owner[e] \in lost THEN state = None ELSE RowHolds(state, e, p)

\* What a copy holds that lacks only the changes p and the nodes lost, none of
\* which is still to be saved.
Holds(held, p, lost) ==
    /\ lost \subseteq used \ saving
    /\ held.nodes = nodes \ lost /\ held.rooms = rooms
    /\ \A e \in Endpoint : Row(held.endpoints[e], e, p, lost)

\* The last change of an endpoint brings what the cache holds.
LastIsCached(p) ==
    \A i \in 1 .. Len(p) :
        (\A j \in i + 1 .. Len(p) : p[j].endpoint # p[i].endpoint)
            => p[i].value = cache[p[i].endpoint]

\* What is being saved is watched and has no row, and an id in use is never
\* minted again.
Minted ==
    saving \subseteq mapped /\ saving \cap nodes = {} /\ mapped \cup nodes \subseteq used

\* The frames of a socket are a sequence.
Sequential ==
    /\ DOMAIN wire = Client /\ DOMAIN copy = Client
    /\ \A c \in Client : \E S : wire[c] \in Seq(S)

\* What a subscriber will hold of what is in flight lacks only the changes that
\* are still to be announced, and the nodes whose announcement was lost.
CopiesHold == \A c \in live : Holds(Fold(copy[c], wire[c]), pending, missed[c])

HomeInv == Inv /\ Minted /\ LastIsCached(pending) /\ Sequential /\ CopiesHold

Change == [endpoint : Endpoint, value : Value]

\* It is enough to look at what the frame does to each table.
LEMMA ApplyHolds ==
    ASSUME NEW held, NEW frame, NEW p, rooms \in [Room -> Name \cup {None}],
           NEW lost, lost \subseteq used \ saving,
           NodesAfter(held, frame) = nodes \ lost,
           \A r \in Room : RoomAfter(held, frame, r) = rooms[r],
           \A e \in Endpoint : Row(EndpointAfter(held, frame, e), e, p, lost)
    PROVE  Holds(Apply(held, frame), p, lost)
<1>1. rooms = [r \in Room |-> RoomAfter(held, frame, r)]
  OBVIOUS
<1>2. /\ Apply(held, frame).nodes = nodes \ lost /\ Apply(held, frame).rooms = rooms
      /\ \A e \in Endpoint :
            Apply(held, frame).endpoints[e] = EndpointAfter(held, frame, e)
  BY <1>1 DEF Apply
<1>3. QED
  BY <1>2 DEF Holds

\* A quiet step tells nothing.
LEMMA QuietHolds ==
    ASSUME NEW held, NEW p, NEW lost, Holds(held, p, lost), rooms \in [Room -> Name \cup {None}]
    PROVE  Holds(Apply(held, Quiet), p, lost)
<1>1. NodesAfter(held, Quiet) = nodes \ lost
  BY DEF Holds, NodesAfter, Quiet
<1>2. \A r \in Room : RoomAfter(held, Quiet, r) = rooms[r]
  BY DEF Holds, RoomAfter, Quiet
<1>3. \A e \in Endpoint : EndpointAfter(held, Quiet, e) = held.endpoints[e]
  BY DEF EndpointAfter, Quiet
<1>4. \A e \in Endpoint : Row(EndpointAfter(held, Quiet, e), e, p, lost)
  BY <1>3 DEF Holds
<1>5. lost \subseteq used \ saving
  BY DEF Holds
<1>6. QED
  BY <1>1, <1>2, <1>4, <1>5, ApplyHolds

\* What a sequence of changes leaves once its first is announced.
LEMMA TailFacts ==
    ASSUME NEW p \in Seq(Change), p # <<>>
    PROVE  /\ Head(p) \in Change /\ Tail(p) \in Seq(Change) /\ p[1] = Head(p)
           /\ Len(p) \in Nat /\ 1 \in 1 .. Len(p) /\ Len(Tail(p)) = Len(p) - 1
           /\ \A i \in 1 .. Len(Tail(p)) : i + 1 \in 1 .. Len(p) /\ Tail(p)[i] = p[i + 1]
           /\ \A i \in 2 .. Len(p) : i - 1 \in 1 .. Len(Tail(p)) /\ Tail(p)[i - 1] = p[i]
<1>1. /\ Head(p) \in Change /\ Tail(p) \in Seq(Change) /\ Len(Tail(p)) = Len(p) - 1
      /\ \A i \in 1 .. Len(Tail(p)) : Tail(p)[i] = p[i + 1]
  BY HeadTailProperties
<1>2. Len(p) \in Nat /\ Len(p) # 0 /\ p[1] = Head(p)
  BY EmptySeq, LenProperties
<1> DEFINE n == Len(p)
           t == Tail(p)
<1>3. n \in Nat /\ n # 0 /\ Len(t) = n - 1 /\ \A i \in 1 .. Len(t) : t[i] = p[i + 1]
  BY <1>1, <1>2
<1> HIDE DEF n, t
<1>4. /\ 1 \in 1 .. n /\ \A i \in 1 .. Len(t) : i + 1 \in 1 .. n
  BY <1>3
<1>5. ASSUME NEW i \in 2 .. n PROVE i - 1 \in 1 .. Len(t) /\ t[i - 1] = p[i]
  <2>1. i - 1 \in 1 .. Len(t) /\ (i - 1) + 1 = i
    BY <1>3
  <2>2. QED
    BY <1>3, <2>1
<1>6. QED
  BY <1>1, <1>2, <1>3, <1>4, <1>5 DEF n, t

LEMMA TailCached ==
    ASSUME NEW p \in Seq(Change), p # <<>>, LastIsCached(p)
    PROVE  /\ LastIsCached(Tail(p))
           /\ NoneLeft(Head(p).endpoint, Tail(p)) =>
                 Head(p).value = cache[Head(p).endpoint]
           /\ \A e : NoneLeft(e, Tail(p)) /\ e # Head(p).endpoint => NoneLeft(e, p)
<1> DEFINE t == Tail(p)
           n == Len(p)
<1>1. /\ n \in Nat /\ 1 \in 1 .. n /\ Len(t) = n - 1 /\ p[1] = Head(p)
      /\ \A i \in 1 .. Len(t) : i + 1 \in 1 .. n /\ t[i] = p[i + 1]
      /\ \A i \in 2 .. n : i - 1 \in 1 .. Len(t) /\ t[i - 1] = p[i]
  BY TailFacts
<1>2. \A i \in 1 .. n :
         (\A j \in i + 1 .. n : p[j].endpoint # p[i].endpoint)
            => p[i].value = cache[p[i].endpoint]
  BY DEF LastIsCached
<1> HIDE DEF t, n
<1>3. ASSUME NEW i \in 1 .. Len(t), \A j \in i + 1 .. Len(t) : t[j].endpoint # t[i].endpoint
      PROVE  t[i].value = cache[t[i].endpoint]
  <2>1. i + 1 \in 1 .. n /\ t[i] = p[i + 1]
    BY <1>1
  <2>2. ASSUME NEW j \in (i + 1) + 1 .. n PROVE p[j].endpoint # p[i + 1].endpoint
    <3>1. j \in 2 .. n /\ j - 1 \in i + 1 .. Len(t)
      BY <1>1
    <3>2. t[j - 1] = p[j] /\ t[j - 1].endpoint # t[i].endpoint
      BY <1>1, <1>3, <3>1
    <3>3. QED
      BY <2>1, <3>2
  <2>3. QED
    BY <1>2, <2>1, <2>2
<1>4. ASSUME \A i \in 1 .. Len(t) : t[i].endpoint # p[1].endpoint
      PROVE  p[1].value = cache[p[1].endpoint]
  <2>1. ASSUME NEW j \in 1 + 1 .. n PROVE p[j].endpoint # p[1].endpoint
    <3>1. j \in 2 .. n
      OBVIOUS
    <3>2. QED
      BY <1>1, <1>4, <3>1
  <2>2. QED
    BY <1>1, <1>2, <2>1
<1>5. ASSUME NEW e, \A i \in 1 .. Len(t) : t[i].endpoint # e, e # p[1].endpoint
      PROVE  \A i \in 1 .. n : p[i].endpoint # e
  <2>1. TAKE i \in 1 .. n
  <2>2. i = 1 \/ i \in 2 .. n
    BY <1>1
  <2>3. QED
    BY <1>1, <1>5, <2>2
<1>6. QED
  BY <1>1, <1>3, <1>4, <1>5 DEF LastIsCached, NoneLeft, t, n

\* The frame that a change is announced with, if any.
Due(change) == Sent(Announced(change))

LEMMA QuietCarried == Carried(Quiet) /\ Lost(Quiet) = {} /\ Sent(Quiet) = Quiet
BY DEF Carried, Values, Quiet, Lost, Sent

\* Announcing the first of the changes leaves the others.
LEMMA AnnouncedHolds ==
    ASSUME TypeOK, NEW p \in Seq(Change), p # <<>>, LastIsCached(p),
           NEW held, NEW lost, Holds(held, p, lost)
    PROVE  /\ Holds(Apply(held, Due(Head(p))), Tail(p), lost)
           /\ Due(Head(p)) = Quiet => Holds(held, Tail(p), lost)
<1>1. PICK change \in Change : change = Head(p)
  BY TailFacts
<1>2. /\ NoneLeft(change.endpoint, Tail(p)) => change.value = cache[change.endpoint]
      /\ \A e : NoneLeft(e, Tail(p)) /\ e # change.endpoint => NoneLeft(e, p)
  BY <1>1, TailCached
<1>3. rooms \in [Room -> Name \cup {None}]
  BY DEF TypeOK
<1>4. change.endpoint \in Endpoint /\ change.value \in Value
  BY DEF Change
<1>5. CASE Owner[change.endpoint] \in mapped /\ change.value \notin Wide
  <2>1. PICK frame : frame = Changed(change.endpoint, change.value)
    OBVIOUS
  <2>2. /\ frame.name = "endpoint:changed" /\ frame.endpoint = change.endpoint
        /\ frame.value = change.value
    BY <2>1 DEF Changed
  <2>7. Due(Head(p)) = frame /\ frame # Quiet
    <3>1. Values(frame) = {change.value}
      BY <2>2 DEF Values
    <3>2. Carried(frame)
      BY <1>5, <3>1 DEF Carried
    <3>3. QED
      BY <1>1, <1>5, <2>1, <2>2, <3>2 DEF Due, Sent, Announced, Quiet
  <2>3. NodesAfter(held, frame) = nodes \ lost
    BY <2>2 DEF Holds, NodesAfter
  <2>4. \A r \in Room : RoomAfter(held, frame, r) = rooms[r]
    BY <2>2 DEF Holds, RoomAfter
  <2>5. ASSUME NEW e \in Endpoint
        PROVE  Row(EndpointAfter(held, frame, e), e, Tail(p), lost)
    <3>0. CASE Owner[e] \in lost
      <4>1. held.endpoints[e] = None
        BY <3>0 DEF Holds, Row
      <4>2. EndpointAfter(held, frame, e) = None
        BY <2>2, <4>1 DEF EndpointAfter
      <4>3. QED
        BY <3>0, <4>2 DEF Row
    <3> SUFFICES ASSUME Owner[e] \notin lost
                 PROVE  RowHolds(EndpointAfter(held, frame, e), e, Tail(p))
      BY <3>0 DEF Row
    <3>1. PICK state : state = held.endpoints[e] /\ RowHolds(state, e, p)
      BY DEF Holds, Row
    <3>2. CASE e = change.endpoint /\ state # None
      <4>1. EndpointAfter(held, frame, e) = [state EXCEPT !.value = frame.value]
        BY <2>2, <3>1, <3>2 DEF EndpointAfter, Edited
      <4>2. state \in States /\ endpoints[e] # None
        BY <3>1, <3>2 DEF RowHolds
      <4>3. [state EXCEPT !.value = frame.value] \in States
        BY <1>4, <2>2, <4>2 DEF States
      <4>4. QED
        BY <1>2, <2>2, <3>1, <3>2, <4>1, <4>2, <4>3, NoneAssumption DEF RowHolds, States
    <3>3. CASE e # change.endpoint \/ state = None
      <4>1. EndpointAfter(held, frame, e) = state
        BY <2>2, <3>1, <3>3 DEF EndpointAfter
      <4>2. QED
        BY <1>2, <1>4, <3>1, <3>3, <4>1 DEF RowHolds
    <3>4. QED
      BY <3>2, <3>3
  <2>6. lost \subseteq used \ saving
    BY DEF Holds
  <2>8. QED
    BY <1>3, <2>3, <2>4, <2>5, <2>6, <2>7, ApplyHolds
<1>6. CASE Owner[change.endpoint] \notin mapped \/ change.value \in Wide
  <2>1. ASSUME NEW e \in Endpoint PROVE Row(held.endpoints[e], e, Tail(p), lost)
    <3>1. Row(held.endpoints[e], e, p, lost)
      BY DEF Holds
    <3>2. Owner[e] \in mapped /\ NoneLeft(e, Tail(p)) /\ cache[e] \notin Wide
             => NoneLeft(e, p)
      BY <1>2, <1>6
    <3>3. QED
      BY <3>1, <3>2 DEF Row, RowHolds
  <2>2. Holds(held, Tail(p), lost)
    BY <2>1 DEF Holds
  <2>3. Due(Head(p)) = Quiet
    <3>1. CASE Owner[change.endpoint] \notin mapped
      BY <1>1, <3>1, QuietCarried DEF Due, Announced
    <3>2. CASE Owner[change.endpoint] \in mapped /\ change.value \in Wide
      <4>1. PICK frame : frame = Changed(change.endpoint, change.value)
        OBVIOUS
      <4>2. Values(frame) = {change.value}
        BY <4>1 DEF Values, Changed
      <4>3. ~Carried(frame)
        BY <3>2, <4>2 DEF Carried
      <4>4. QED
        BY <1>1, <3>2, <4>1, <4>3 DEF Due, Sent, Announced
    <3>3. QED
      BY <1>6, <3>1, <3>2
  <2>4. QED
    BY <1>3, <2>2, <2>3, QuietHolds
<1>7. QED
  BY <1>5, <1>6

-----------------------------------------------------------------------------
(* What is in flight, and then what is left to announce *)

LEMMA FoldConcat ==
    ASSUME NEW S, NEW s \in Seq(S), NEW t \in Seq(S), NEW held
    PROVE  Fold(held, s \o t) = Fold(Fold(held, s), t)
<1> DEFINE T == {n \in Nat : \A r \in Seq(S) : Len(r) = n =>
                    Fold(held, s \o r) = Fold(Fold(held, s), r)}
<1>1. 0 \in T
  <2>1. ASSUME NEW r \in Seq(S), Len(r) = 0
        PROVE  Fold(held, s \o r) = Fold(Fold(held, s), r)
    <3>1. r = <<>> /\ s \o r = s
      BY <2>1, EmptySeq, ConcatEmptySeq
    <3>2. QED
      BY <3>1, FoldNothing
  <2>2. QED
    BY <2>1
<1>2. ASSUME NEW n \in Nat, n \in T
      PROVE  n + 1 \in T
  <2>1. ASSUME NEW r \in Seq(S), Len(r) = n + 1
        PROVE  Fold(held, s \o r) = Fold(Fold(held, s), r)
    <3>1. PICK q \in Seq(S), e \in S : r = Append(q, e) /\ Len(q) = n
      <4> DEFINE q == SubSeq(r, 1, n)
      <4>1. q \in Seq(S) /\ Len(q) = n /\ r[n + 1] \in S /\ r = Append(q, r[n + 1])
        BY <2>1
      <4>2. QED
        BY <4>1
    <3>2. s \o r = Append(s \o q, e) /\ s \o q \in Seq(S)
      BY <3>1
    <3>3. Fold(held, s \o q) = Fold(Fold(held, s), q)
      BY <1>2, <3>1
    <3>4. Fold(held, s \o r) = Apply(Fold(held, s \o q), e)
      BY <3>2, FoldAppend
    <3>5. Fold(Fold(held, s), r) = Apply(Fold(Fold(held, s), q), e)
      BY <3>1, FoldAppend
    <3>6. QED
      BY <3>3, <3>4, <3>5
  <2>2. QED
    BY <2>1
<1> HIDE DEF T
<1>3. \A n \in Nat : n \in T
  BY <1>1, <1>2, Induction
<1>4. Len(t) \in Nat
  OBVIOUS
<1>5. QED
  BY <1>3, <1>4 DEF T

\* The frames that a sequence of changes is announced with.
Frames(p) == [i \in DOMAIN p |-> Due(p[i])]

LEMMA FramesFacts ==
    ASSUME NEW p \in Seq(Change), NEW S, \A c \in Change : Due(c) \in S
    PROVE  /\ Frames(p) \in Seq(S) /\ Len(Frames(p)) = Len(p)
           /\ p # <<>> => /\ Frames(p) # <<>>
                          /\ Head(Frames(p)) = Due(Head(p))
                          /\ Tail(Frames(p)) = Frames(Tail(p))
<1> DEFINE f == Frames(p)
<1>1. /\ DOMAIN p = 1 .. Len(p) /\ Len(p) \in Nat
      /\ \A i \in 1 .. Len(p) : p[i] \in Change
  BY LenProperties, ElementOfSeq
<1>2. f = [i \in 1 .. Len(p) |-> Due(p[i])]
  BY <1>1 DEF Frames
<1> HIDE DEF f
<1>3. f \in Seq(S) /\ Len(f) = Len(p) /\ \A i \in 1 .. Len(p) : f[i] = Due(p[i])
  BY <1>1, <1>2, IsASeq
<1>4. ASSUME p # <<>>
      PROVE  f # <<>> /\ Head(f) = Due(Head(p)) /\ Tail(f) = Frames(Tail(p))
  <2>1. /\ Head(p) = p[1] /\ 1 \in 1 .. Len(p) /\ Tail(p) \in Seq(Change)
        /\ Len(Tail(p)) = Len(p) - 1
        /\ \A i \in 1 .. Len(Tail(p)) : i + 1 \in 1 .. Len(p) /\ Tail(p)[i] = p[i + 1]
    BY <1>4, TailFacts
  <2>2. f # <<>> /\ Head(f) = f[1]
    BY <1>3, <2>1, EmptySeq
  <2>3. /\ Tail(f) \in Seq(S) /\ Len(Tail(f)) = Len(f) - 1
        /\ \A i \in 1 .. Len(Tail(f)) : Tail(f)[i] = f[i + 1]
    BY <1>3, <2>2, HeadTailProperties
  <2>4. DOMAIN Tail(p) = 1 .. Len(Tail(p)) /\ DOMAIN Tail(f) = 1 .. Len(Tail(f))
        /\ Len(Tail(f)) = Len(Tail(p))
    BY <1>3, <2>1, <2>3, LenProperties
  <2>5. Tail(f) = [i \in 1 .. Len(Tail(p)) |-> Tail(f)[i]]
    <3>1. PICK t \in Seq(S), n \in Nat : t = Tail(f) /\ Len(t) = n /\ n = Len(Tail(p))
      BY <2>3, <2>4, LenProperties
    <3>2. t \in [1 .. n -> S]
      BY <3>1, LenProperties
    <3>3. t = [i \in 1 .. n |-> t[i]]
      BY <3>2
    <3>4. QED
      BY <3>1, <3>3
  <2>6. \A i \in 1 .. Len(Tail(p)) : Tail(f)[i] = Due(Tail(p)[i])
    BY <1>3, <2>1, <2>3, <2>4
  <2>7. QED
    BY <1>3, <2>1, <2>2, <2>4, <2>5, <2>6 DEF Frames
<1>5. QED
  BY <1>3, <1>4 DEF f

\* A copy that lacks only some changes lacks nothing once it is told of them.
LEMMA AllAnnounced ==
    ASSUME TypeOK, NEW p \in Seq(Change), LastIsCached(p), NEW held, NEW lost, Holds(held, p, lost)
    PROVE  Holds(Fold(held, Frames(p)), <<>>, lost)
<1> DEFINE T == {n \in Nat : \A q \in Seq(Change) :
                    Len(q) = n /\ LastIsCached(q) =>
                       \A h : Holds(h, q, lost) => Holds(Fold(h, Frames(q)), <<>>, lost)}
           S == {Due(c) : c \in Change}
<1>1. \A c \in Change : Due(c) \in S
  OBVIOUS
<1> HIDE DEF S
<1>2. 0 \in T
  <2>1. ASSUME NEW q \in Seq(Change), Len(q) = 0, NEW h, Holds(h, q, lost)
        PROVE  Holds(Fold(h, Frames(q)), <<>>, lost)
    <3>1. Frames(q) \in Seq(S) /\ Len(Frames(q)) = 0
      BY <1>1, <2>1, FramesFacts
    <3>2. q = <<>> /\ Frames(q) = <<>>
      BY <2>1, <3>1, EmptySeq
    <3>3. QED
      BY <2>1, <3>2, FoldNothing
  <2>2. QED
    BY <2>1
<1>3. ASSUME NEW n \in Nat, n \in T
      PROVE  n + 1 \in T
  <2>1. ASSUME NEW q \in Seq(Change), Len(q) = n + 1, LastIsCached(q), NEW h, Holds(h, q, lost)
        PROVE  Holds(Fold(h, Frames(q)), <<>>, lost)
    <3>1. q # <<>>
      BY <2>1, EmptySeq
    <3>2. Tail(q) \in Seq(Change) /\ Len(Tail(q)) = n /\ LastIsCached(Tail(q))
      BY <2>1, <3>1, TailFacts, TailCached
    <3>3. Holds(Apply(h, Due(Head(q))), Tail(q), lost)
      BY <2>1, <3>1, AnnouncedHolds
    <3>4. Holds(Fold(Apply(h, Due(Head(q))), Frames(Tail(q))), <<>>, lost)
      BY <1>3, <3>2, <3>3
    <3>5. /\ Frames(q) \in Seq(S) /\ Frames(q) # <<>>
          /\ Head(Frames(q)) = Due(Head(q)) /\ Tail(Frames(q)) = Frames(Tail(q))
      BY <1>1, <3>1, FramesFacts
    <3>6. Fold(h, Frames(q)) = Fold(Apply(h, Due(Head(q))), Frames(Tail(q)))
      BY <3>5, FoldReceived
    <3>7. QED
      BY <3>4, <3>6
  <2>2. QED
    BY <2>1
<1> HIDE DEF T
<1>4. \A n \in Nat : n \in T
  BY <1>2, <1>3, Induction
<1>5. Len(p) \in Nat
  OBVIOUS
<1>6. QED
  BY <1>4, <1>5 DEF T

\* So the invariant is what the property says.
LEMMA HoldsHome == HomeInv => CopyHoldsHome
<1> SUFFICES ASSUME HomeInv, NEW c \in live
             PROVE  /\ Settled(c).nodes = nodes \ missed[c]
                    /\ Settled(c).rooms = rooms
                    /\ \A e \in Endpoint :
                          IF Owner[e] \in missed[c] THEN Settled(c).endpoints[e] = None
                          ELSE IF endpoints[e] # None /\ Owner[e] \notin mapped
                          THEN Settled(c).endpoints[e] # None =>
                                  Bare(Settled(c)).endpoints[e] = Metadata.endpoints[e]
                          ELSE IF endpoints[e] # None /\ cache[e] \in Wide
                          THEN Bare(Settled(c)).endpoints[e] = Metadata.endpoints[e]
                          ELSE Settled(c).endpoints[e] = Served(e)
  BY DEF CopyHoldsHome
<1>1. TypeOK /\ pending \in Seq(Change) /\ c \in Client
  BY DEF HomeInv, Inv, TypeOK, Change
<1>2. PICK W : wire[c] \in Seq(W)
  BY <1>1 DEF HomeInv, Sequential
<1>3. PICK S : S = W \cup {Due(d) : d \in Change}
  OBVIOUS
<1>4. wire[c] \in Seq(S) /\ \A d \in Change : Due(d) \in S
  BY <1>2, <1>3, SeqMonotonic
<1>5. Frames(pending) \in Seq(S) /\ Announcements = Frames(pending)
  BY <1>1, <1>4, FramesFacts DEF Announcements, Frames, Due
<1>6. Settled(c) = Fold(copy[c], wire[c] \o Frames(pending))
  BY <1>5 DEF Settled, Fold
<1>7. Settled(c) = Fold(Fold(copy[c], wire[c]), Frames(pending))
  BY <1>4, <1>5, <1>6, FoldConcat
<1>8. PICK lost : /\ lost = missed[c] /\ LastIsCached(pending)
                  /\ Holds(Fold(copy[c], wire[c]), pending, lost)
  BY DEF HomeInv, CopiesHold
<1>9. PICK held : held = Settled(c) /\ Holds(held, <<>>, lost)
  BY <1>1, <1>7, <1>8, AllAnnounced
<1>10. \A e : NoneLeft(e, <<>>)
  BY DEF NoneLeft
<1>11. ASSUME NEW e \in Endpoint, Owner[e] \notin lost, endpoints[e] # None,
              held.endpoints[e] # None
       PROVE  Bare(held).endpoints[e] = Metadata.endpoints[e]
  <2>1. /\ held.endpoints[e].name = endpoints[e].name
        /\ held.endpoints[e].room = endpoints[e].room
    BY <1>9, <1>11 DEF Holds, Row, RowHolds
  <2>2. QED
    BY <1>11, <2>1 DEF Bare, Metadata
<1>12. ASSUME NEW e \in Endpoint, Owner[e] \notin lost,
              endpoints[e] # None, Owner[e] \in mapped
       PROVE  held.endpoints[e] # None
  BY <1>9, <1>12 DEF Holds, Row, RowHolds
<1>13. ASSUME NEW e \in Endpoint, Owner[e] \notin lost,
              endpoints[e] = None \/ (Owner[e] \in mapped /\ cache[e] \notin Wide)
       PROVE  held.endpoints[e] = Served(e)
  <2>1. RowHolds(held.endpoints[e], e, <<>>)
    BY <1>9, <1>13 DEF Holds, Row
  <2>2. CASE endpoints[e] = None
    BY <2>1, <2>2 DEF RowHolds, Served
  <2>3. CASE endpoints[e] # None
    <3>1. PICK state \in States :
             /\ state = held.endpoints[e] /\ state.name = endpoints[e].name
             /\ state.room = endpoints[e].room /\ state.value = cache[e]
      BY <1>10, <1>13, <2>1, <2>3 DEF RowHolds
    <3>2. state = State(e)
      BY <3>1 DEF States, State
    <3>3. QED
      BY <1>13, <2>3, <3>1, <3>2 DEF Served
  <2>4. QED
    BY <2>2, <2>3
<1>14. \A e \in Endpoint : Owner[e] \in lost => held.endpoints[e] = None
  BY <1>9 DEF Holds, Row
<1>15. held.nodes = nodes \ lost /\ held.rooms = rooms
  BY <1>9 DEF Holds
<1>16. QED
  BY <1>8, <1>9, <1>11, <1>12, <1>13, <1>14, <1>15

-----------------------------------------------------------------------------
(* Steps that publish *)

LEMMA AppliedHolds ==
    ASSUME NEW held, NEW frame, NEW lost, rooms' \in [Room -> Name \cup {None}],
           lost \subseteq used' \ saving',
           NodesAfter(held, frame) = nodes' \ lost,
           \A r \in Room : RoomAfter(held, frame, r) = rooms'[r],
           \A e \in Endpoint : Row(EndpointAfter(held, frame, e), e, pending, lost)'
    PROVE  Holds(Apply(held, frame), pending, lost)'
<1>1. rooms' = [r \in Room |-> RoomAfter(held, frame, r)]
  OBVIOUS
<1>2. /\ Apply(held, frame).nodes = nodes' \ lost /\ Apply(held, frame).rooms = rooms'
      /\ \A e \in Endpoint :
            Apply(held, frame).endpoints[e] = EndpointAfter(held, frame, e)
  BY <1>1 DEF Apply
<1>3. QED
  BY <1>2 DEF Holds

\* An event that turns what a copy held into what it is to hold,
LEMMA TellKeeps ==
    ASSUME HomeInv, Inv', NEW event, event # Quiet, Publish(event), Carried(event),
           \A held, lost : Holds(held, pending, lost) => Holds(Apply(held, event), pending, lost)'
    PROVE  Sequential' /\ CopiesHold'
<1>1. /\ live' = live /\ copy' = copy /\ live \subseteq Client
      /\ wire' = [c \in Client |-> IF c \in live THEN Append(wire[c], event) ELSE wire[c]]
      /\ \A c \in Client : missed'[c] = missed[c]
  BY DEF Publish, HomeInv, Inv, TypeOK, Lost
<1>2. \A c \in Client : \E W : wire[c] \in Seq(W)
  BY DEF HomeInv, Sequential
<1>3. Sequential'
  <2>1. ASSUME NEW c \in Client PROVE \E W : wire'[c] \in Seq(W)
    <3>1. PICK W : wire[c] \in Seq(W)
      BY <1>2
    <3>2. PICK S : S = W \cup {event}
      OBVIOUS
    <3>3. wire[c] \in Seq(S) /\ Append(wire[c], event) \in Seq(S)
      BY <3>1, <3>2, SeqMonotonic, AppendProperties
    <3>4. QED
      BY <1>1, <3>3
  <2>2. DOMAIN wire' = Client /\ DOMAIN copy' = Client
    BY <1>1 DEF HomeInv, Sequential
  <2>3. QED
    BY <2>1, <2>2 DEF Sequential
<1>4. ASSUME NEW c \in live
      PROVE  Fold(copy'[c], wire'[c]) = Apply(Fold(copy[c], wire[c]), event)
  <2>1. PICK W : wire[c] \in Seq(W)
    BY <1>1, <1>2
  <2>2. PICK S : S = W \cup {event}
    OBVIOUS
  <2>3. wire[c] \in Seq(S) /\ event \in S
    BY <2>1, <2>2, SeqMonotonic
  <2>4. copy'[c] = copy[c] /\ wire'[c] = Append(wire[c], event)
    BY <1>1
  <2>5. QED
    BY <2>3, <2>4, FoldAppend
<1>5. ASSUME NEW c \in live PROVE Holds(Fold(copy[c], wire[c]), pending, missed[c])'
  <2>1. PICK held, lost :
           held = Fold(copy[c], wire[c]) /\ lost = missed[c] /\ Holds(held, pending, lost)
    BY DEF HomeInv, CopiesHold
  <2>2. PICK then : then = Apply(held, event) /\ Holds(then, pending, lost)'
    BY <2>1
  <2>3. Fold(copy'[c], wire'[c]) = then /\ missed'[c] = lost
    BY <1>1, <1>4, <2>1, <2>2
  <2>4. QED
    BY <2>2, <2>3
<1>6. QED
  BY <1>1, <1>3, <1>5 DEF CopiesHold

\* one that no frame tells of, and that costs the copies nothing but the node
\* it was to bring,
LEMMA UntoldKeeps ==
    ASSUME HomeInv, Inv', NEW event, event = Quiet \/ ~Carried(event), Publish(event),
           NEW gone, gone = Lost(event),
           \A held, lost : Holds(held, pending, lost) => Holds(held, pending, lost \cup gone)'
    PROVE  Sequential' /\ CopiesHold'
<1>1. /\ UNCHANGED <<live, copy>> /\ live \subseteq Client
      /\ \A c \in Client : wire'[c] = wire[c]
      /\ DOMAIN wire' = Client
      /\ \A c \in live : missed'[c] = missed[c] \cup gone
  BY DEF Publish, HomeInv, Inv, TypeOK
<1>2. Sequential'
  BY <1>1 DEF HomeInv, Sequential
<1>3. ASSUME NEW c \in live PROVE Holds(Fold(copy[c], wire[c]), pending, missed[c])'
  <2>1. PICK held, lost :
           held = Fold(copy[c], wire[c]) /\ lost = missed[c] /\ Holds(held, pending, lost)
    BY DEF HomeInv, CopiesHold
  <2>2. PICK more : more = lost \cup gone
    OBVIOUS
  <2>3. Holds(held, pending, more)'
    BY <2>1, <2>2
  <2>4. Fold(copy'[c], wire'[c]) = held /\ missed'[c] = more
    BY <1>1, <2>1, <2>2
  <2>5. QED
    BY <2>3, <2>4
<1>4. QED
  BY <1>1, <1>2, <1>3 DEF CopiesHold

\* and a quiet step after which every copy still holds what it is to hold.
LEMMA QuietKeeps ==
    ASSUME HomeInv, Inv', Publish(Quiet),
           \A held, lost : Holds(held, pending, lost) => Holds(held, pending, lost)'
    PROVE  Sequential' /\ CopiesHold'
<1>1. PICK event, gone : event = Quiet /\ gone = {} /\ gone = Lost(event) /\ Publish(event)
  BY QuietCarried
<1>2. \A lost : lost \cup gone = lost
  BY <1>1
<1>3. ASSUME NEW held, NEW lost, Holds(held, pending, lost)
      PROVE  Holds(held, pending, lost \cup gone)'
  <2>1. PICK more : more = lost \cup gone /\ more = lost
    BY <1>2
  <2>2. Holds(held, pending, more)'
    BY <1>3, <2>1
  <2>3. QED
    BY <2>1, <2>2
<1>4. QED
  BY <1>1, <1>3, UntoldKeeps

\* A copy's row is right as long as nothing it rests on changes.
LEMMA RowStays ==
    ASSUME NEW e \in Endpoint, NEW state, RowHolds(state, e, pending),
           endpoints'[e] = endpoints[e], mapped' = mapped,
           UNCHANGED <<cache, pending>>
    PROVE  RowHolds(state, e, pending)'
BY DEF RowHolds, NoneLeft

LEMMA NothingChanges ==
    ASSUME UNCHANGED <<nodes, endpoints, rooms, mapped, cache, pending>>,
           used \ saving \subseteq used' \ saving'
    PROVE  \A held, lost : Holds(held, pending, lost) => Holds(held, pending, lost)'
<1>1. ASSUME NEW held, NEW lost, Holds(held, pending, lost) PROVE Holds(held, pending, lost)'
  <2>1. \A e \in Endpoint : Row(held.endpoints[e], e, pending, lost)'
    <3>1. TAKE e \in Endpoint
    <3>2. PICK state : state = held.endpoints[e] /\ Row(state, e, pending, lost)
      BY <1>1 DEF Holds
    <3>3. Row(state, e, pending, lost)'
      BY <3>2, RowStays DEF Row
    <3>4. QED
      BY <3>2, <3>3
  <2>2. QED
    BY <1>1, <2>1 DEF Holds
<1>2. QED
  BY <1>1

LEMMA NotFoundKeeps ==
    ASSUME HomeInv, Inv', NotFound PROVE HomeInv'
<1>1. /\ UNCHANGED <<nodes, endpoints, rooms, used, mapped, saving, cache, pending>>
      /\ Publish(Quiet)
  BY DEF NotFound, database, matter
<1>2. Sequential' /\ CopiesHold'
  BY <1>1, NothingChanges, QuietKeeps
<1>3. Minted' /\ LastIsCached(pending)'
  BY <1>1 DEF HomeInv, Minted, LastIsCached
<1>4. QED
  BY <1>2, <1>3 DEF HomeInv

-----------------------------------------------------------------------------
(* Nodes come and go *)

LEMMA RegisterKeeps == ASSUME HomeInv, Inv', NEW n \in Node, Register(n) PROVE HomeInv'
<1>1. /\ n \notin used /\ mapped' = mapped \cup {n} /\ saving' = saving \cup {n}
      /\ used' = used \cup {n}
      /\ UNCHANGED <<nodes, endpoints, rooms, cache, pending>> /\ Publish(Quiet)
  BY DEF Register
<1>2. \A e \in Endpoint : endpoints[e] # None => Owner[e] # n
  BY <1>1 DEF HomeInv, Inv, References, Minted
<1>3. ASSUME NEW held, NEW lost, Holds(held, pending, lost) PROVE Holds(held, pending, lost)'
  <2>1. \A e \in Endpoint : Row(held.endpoints[e], e, pending, lost)'
    BY <1>1, <1>2, <1>3 DEF Holds, Row, RowHolds, NoneLeft
  <2>2. lost \subseteq used' \ saving'
    BY <1>1, <1>3 DEF Holds
  <2>3. QED
    BY <1>1, <1>3, <2>1, <2>2 DEF Holds
<1>4. Minted' /\ LastIsCached(pending)'
  BY <1>1 DEF HomeInv, Minted, LastIsCached
<1>5. QED
  BY <1>1, <1>3, <1>4, QuietKeeps DEF HomeInv

LEMMA SaveFailsKeeps == ASSUME HomeInv, Inv', NEW n \in Node, SaveFails(n) PROVE HomeInv'
<1>1. /\ saving' = saving \ {n} /\ Publish(Quiet)
      /\ UNCHANGED <<nodes, endpoints, rooms, used, mapped, cache, pending>>
  BY DEF SaveFails, database
<1>2. Minted' /\ LastIsCached(pending)'
  BY <1>1 DEF HomeInv, Minted, LastIsCached
<1>3. QED
  BY <1>1, <1>2, NothingChanges, QuietKeeps DEF HomeInv

\* A node that is no longer watched may go stale in its values alone.
LEMMA UnmapKeeps == ASSUME HomeInv, Inv', NEW n \in Node, Unmap(n) PROVE HomeInv'
<1>1. /\ n \in mapped \ saving /\ mapped' = mapped \ {n} /\ Publish(Quiet)
      /\ UNCHANGED <<nodes, endpoints, rooms, used, saving, cache, pending>>
  BY DEF Unmap, database
<1>2. ASSUME NEW held, NEW lost, Holds(held, pending, lost) PROVE Holds(held, pending, lost)'
  <2>1. \A e \in Endpoint : Row(held.endpoints[e], e, pending, lost)'
    BY <1>1, <1>2 DEF Holds, Row, RowHolds, NoneLeft
  <2>2. QED
    BY <1>1, <1>2, <2>1 DEF Holds
<1>3. Minted' /\ LastIsCached(pending)'
  BY <1>1 DEF HomeInv, Minted, LastIsCached
<1>4. QED
  BY <1>1, <1>2, <1>3, QuietKeeps DEF HomeInv

\* The announcement of a node brings its endpoints as the cache has them.
LEMMA SaveKeeps ==
    ASSUME HomeInv, Inv', NEW n \in Node, NEW name \in Name, Save(n, name)
    PROVE  HomeInv'
<1>1. /\ n \in saving /\ saving' = saving \ {n} /\ nodes' = nodes \cup {n}
      /\ endpoints' = [e \in Endpoint |->
                          IF Owner[e] = n THEN Stored(name) ELSE endpoints[e]]
      /\ UNCHANGED <<rooms, used, mapped, cache, pending>>
  BY DEF Save
<1>2. PICK ev : ev = NodeAdded(n, StatesAnnounced(n, name)) /\ Publish(ev)
  BY DEF Save
<1>3. /\ ev.name = "node:added" /\ ev.node = n /\ ev # Quiet
      /\ \A e \in Endpoint : Owner[e] = n =>
            ev.endpoints[e] = [name |-> name, room |-> None, value |-> cache[e]]
  BY <1>2 DEF NodeAdded, StatesAnnounced, Quiet
<1>4. ASSUME NEW held, NEW lost, Holds(held, pending, lost) PROVE Holds(Apply(held, ev), pending, lost)'
  <2>0. n \notin lost /\ lost \subseteq used' \ saving'
    BY <1>1, <1>4 DEF Holds
  <2>1. NodesAfter(held, ev) = nodes' \ lost
    BY <1>1, <1>3, <1>4, <2>0 DEF Holds, NodesAfter
  <2>2. \A r \in Room : RoomAfter(held, ev, r) = rooms'[r]
    BY <1>1, <1>3, <1>4 DEF Holds, RoomAfter
  <2>3. ASSUME NEW e \in Endpoint PROVE Row(EndpointAfter(held, ev, e), e, pending, lost)'
    <3>1. CASE Owner[e] = n
      <4>1. PICK state : state = [name |-> name, room |-> None, value |-> cache[e]]
        OBVIOUS
      <4>2. state \in States /\ state # None
        BY <4>1, NoneAssumption DEF HomeInv, Inv, TypeOK, States
      <4>3. EndpointAfter(held, ev, e) = state
        BY <1>3, <3>1, <4>1 DEF EndpointAfter
      <4>4. /\ endpoints'[e] = [name |-> name, room |-> None]
            /\ endpoints'[e].name = name /\ endpoints'[e].room = None
            /\ endpoints'[e] # None
        BY <1>1, <3>1, NoneAssumption DEF Stored, Record
      <4>5. RowHolds(state, e, pending)'
        BY <1>1, <4>1, <4>2, <4>4 DEF RowHolds
      <4>6. QED
        BY <2>0, <3>1, <4>3, <4>5 DEF Row
    <3>2. CASE Owner[e] # n
      <4>1. EndpointAfter(held, ev, e) = held.endpoints[e]
        BY <1>3, <3>2 DEF EndpointAfter
      <4>2. endpoints'[e] = endpoints[e]
        BY <1>1, <3>2
      <4>3. PICK state : state = held.endpoints[e] /\ Row(state, e, pending, lost)
        BY <1>4 DEF Holds
      <4>4. Row(state, e, pending, lost)'
        BY <1>1, <4>2, <4>3, RowStays DEF Row
      <4>5. QED
        BY <4>1, <4>3, <4>4
    <3>3. QED
      BY <3>1, <3>2
  <2>4. QED
    BY <2>0, <2>1, <2>2, <2>3, AppliedHolds DEF Inv, TypeOK
<1>5. Minted' /\ LastIsCached(pending)'
  BY <1>1 DEF HomeInv, Minted, LastIsCached
<1>6. CASE Carried(ev)
  BY <1>2, <1>3, <1>4, <1>5, <1>6, TellKeeps DEF HomeInv
<1>7. CASE ~Carried(ev)
  <2>1. Lost(ev) = {n}
    BY <1>3, <1>7 DEF Lost
  <2>2. n \notin nodes /\ n \in used
    BY <1>1 DEF HomeInv, Minted
  <2>3. ASSUME NEW held, NEW lost, Holds(held, pending, lost)
        PROVE  Holds(held, pending, lost \cup {n})'
    <3>1. PICK more : more = lost \cup {n}
      OBVIOUS
    <3>2. more \subseteq used' \ saving'
      BY <1>1, <2>2, <2>3, <3>1 DEF Holds
    <3>3. held.nodes = nodes' \ more /\ held.rooms = rooms'
      BY <1>1, <2>2, <2>3, <3>1 DEF Holds
    <3>4. ASSUME NEW e \in Endpoint
          PROVE  Row(held.endpoints[e], e, pending, more)'
      <4>1. PICK state : state = held.endpoints[e] /\ Row(state, e, pending, lost)
        BY <2>3 DEF Holds
      <4>2. CASE Owner[e] = n
        <5>1. endpoints[e] = None
          BY <2>2, <4>2 DEF HomeInv, Inv, References
        <5>2. state = None
          BY <4>1, <5>1 DEF Row, RowHolds
        <5>3. QED
          BY <3>1, <4>1, <4>2, <5>2 DEF Row
      <4>3. CASE Owner[e] # n
        <5>1. endpoints'[e] = endpoints[e]
          BY <1>1, <4>3
        <5>2. Row(state, e, pending, more)'
          BY <1>1, <3>1, <4>1, <4>3, <5>1, RowStays DEF Row
        <5>3. QED
          BY <4>1, <5>2
      <4>4. QED
        BY <4>2, <4>3
    <3>5. Holds(held, pending, more)'
      BY <3>2, <3>3, <3>4 DEF Holds
    <3>6. QED
      BY <3>1, <3>5
  <2>4. QED
    BY <1>2, <1>5, <1>7, <2>1, <2>3, UntoldKeeps DEF HomeInv
<1>8. QED
  BY <1>6, <1>7

\* The client drops the endpoints that the cascade drops.
LEMMA DeleteKeeps == ASSUME HomeInv, Inv', NEW n \in Node, Delete(n) PROVE HomeInv'
<1>1. /\ nodes' = nodes \ {n}
      /\ endpoints' = [e \in Endpoint |-> IF Owner[e] = n THEN None ELSE endpoints[e]]
      /\ UNCHANGED <<rooms, used, mapped, saving, cache, pending>>
  BY DEF Delete, matter
<1>2. PICK ev : ev = NodeRemoved(n) /\ Publish(ev)
  BY DEF Delete
<1>3. ev.name = "node:removed" /\ ev.node = n /\ ev # Quiet
  BY <1>2 DEF NodeRemoved, Quiet
<1>4. ASSUME NEW held, NEW lost, Holds(held, pending, lost) PROVE Holds(Apply(held, ev), pending, lost)'
  <2>0. lost \subseteq used' \ saving'
    BY <1>1, <1>4 DEF Holds
  <2>1. NodesAfter(held, ev) = nodes' \ lost
    BY <1>1, <1>3, <1>4 DEF Holds, NodesAfter
  <2>2. \A r \in Room : RoomAfter(held, ev, r) = rooms'[r]
    BY <1>1, <1>3, <1>4 DEF Holds, RoomAfter
  <2>3. ASSUME NEW e \in Endpoint PROVE Row(EndpointAfter(held, ev, e), e, pending, lost)'
    <3>1. CASE Owner[e] = n
      <4>1. EndpointAfter(held, ev, e) = None /\ endpoints'[e] = None
        BY <1>1, <1>3, <3>1 DEF EndpointAfter
      <4>2. QED
        BY <4>1 DEF Row, RowHolds
    <3>2. CASE Owner[e] # n
      <4>1. EndpointAfter(held, ev, e) = held.endpoints[e]
        BY <1>3, <3>2 DEF EndpointAfter
      <4>2. endpoints'[e] = endpoints[e]
        BY <1>1, <3>2
      <4>3. PICK state : state = held.endpoints[e] /\ Row(state, e, pending, lost)
        BY <1>4 DEF Holds
      <4>4. Row(state, e, pending, lost)'
        BY <1>1, <4>2, <4>3, RowStays DEF Row
      <4>5. QED
        BY <4>1, <4>3, <4>4
    <3>3. QED
      BY <3>1, <3>2
  <2>4. QED
    BY <2>0, <2>1, <2>2, <2>3, AppliedHolds DEF Inv, TypeOK
<1>5. Minted' /\ LastIsCached(pending)'
  BY <1>1 DEF HomeInv, Minted, LastIsCached
<1>7. Carried(ev)
  BY <1>3 DEF Carried, Values
<1>6. QED
  BY <1>2, <1>3, <1>4, <1>5, <1>7, TellKeeps DEF HomeInv

-----------------------------------------------------------------------------
(* Reports *)

\* A change in the cache is one that is left to announce.
LEMMA ReportKeeps ==
    ASSUME HomeInv, Inv', NEW e \in Endpoint, NEW v \in Value, Report(e, v)
    PROVE  HomeInv'
<1>1. /\ cache' = [cache EXCEPT ![e] = v] /\ Publish(Quiet)
      /\ pending' = Append(pending, [endpoint |-> e, value |-> v])
      /\ UNCHANGED <<nodes, endpoints, rooms, used, mapped, saving>>
  BY DEF Report, database
<1>2. PICK p \in Seq(Change), q \in Seq(Change), n \in Nat, d \in Change :
         /\ p = pending /\ q = pending' /\ n = Len(p)
         /\ d = [endpoint |-> e, value |-> v] /\ q = Append(p, d)
  BY <1>1, LenProperties, AppendProperties DEF HomeInv, Inv, TypeOK, Change
<1>3. /\ d.endpoint = e /\ d.value = v
      /\ Len(q) = n + 1 /\ q[n + 1] = d /\ \A i \in 1 .. n : q[i] = p[i]
  BY <1>2, AppendProperties
<1>4. /\ cache'[e] = v /\ cache \in [Endpoint -> Value]
      /\ \A f \in Endpoint : f # e => cache'[f] = cache[f]
  BY <1>1 DEF HomeInv, Inv, TypeOK
<1>5. \A f : NoneLeft(f, q) => NoneLeft(f, p) /\ f # e
  <2>1. ASSUME NEW f, \A i \in 1 .. n + 1 : q[i].endpoint # f
        PROVE  (\A i \in 1 .. n : p[i].endpoint # f) /\ f # e
    <3>1. \A i \in 1 .. n : i \in 1 .. n + 1
      OBVIOUS
    <3>2. n + 1 \in 1 .. n + 1
      OBVIOUS
    <3>3. QED
      BY <1>3, <2>1, <3>1, <3>2
  <2>2. QED
    BY <1>2, <1>3, <2>1 DEF NoneLeft
<1>6. LastIsCached(pending)'
  <2>1. ASSUME NEW i \in 1 .. n + 1, \A j \in i + 1 .. n + 1 : q[j].endpoint # q[i].endpoint
        PROVE  q[i].value = cache'[q[i].endpoint]
    <3>1. CASE i = n + 1
      BY <1>3, <1>4, <3>1
    <3>2. CASE i # n + 1
      <4>1. i \in 1 .. n /\ n + 1 \in i + 1 .. n + 1
        BY <3>2
      <4>2. q[i] = p[i] /\ p[i].endpoint # e
        BY <1>3, <2>1, <4>1
      <4>3. ASSUME NEW j \in i + 1 .. n PROVE p[j].endpoint # p[i].endpoint
        <5>1. j \in i + 1 .. n + 1 /\ j \in 1 .. n
          BY <4>1
        <5>2. QED
          BY <1>3, <2>1, <4>2, <5>1
      <4>4. p[i].value = cache[p[i].endpoint]
        BY <1>2, <4>1, <4>3 DEF HomeInv, LastIsCached
      <4>5. p[i] \in Change
        BY <1>2, <4>1, ElementOfSeq
      <4>6. QED
        BY <1>4, <4>2, <4>4, <4>5 DEF Change
    <3>3. QED
      BY <3>1, <3>2
  <2>2. QED
    BY SMTT(30), <1>2, <1>3, <2>1 DEF LastIsCached
<1>7. ASSUME NEW held, NEW lost, Holds(held, pending, lost) PROVE Holds(held, pending, lost)'
  <2>1. ASSUME NEW f \in Endpoint PROVE Row(held.endpoints[f], f, pending, lost)'
    <3>1. PICK state : state = held.endpoints[f] /\ Row(state, f, p, lost)
      BY <1>2, <1>7 DEF Holds
    <3>2. NoneLeft(f, pending)' => NoneLeft(f, p) /\ f # e
      BY <1>2, <1>5 DEF NoneLeft
    <3>3. Row(state, f, pending, lost)'
      BY <1>1, <1>4, <3>1, <3>2 DEF Row, RowHolds
    <3>4. QED
      BY <3>1, <3>3
  <2>2. QED
    BY <1>1, <1>7, <2>1 DEF Holds
<1>8. Minted'
  BY <1>1 DEF HomeInv, Minted
<1>9. QED
  BY <1>1, <1>6, <1>7, <1>8, QuietKeeps DEF HomeInv

LEMMA AnnounceKeeps == ASSUME HomeInv, Inv', Announce PROVE HomeInv'
<1>1. /\ pending # <<>> /\ pending' = Tail(pending)
      /\ UNCHANGED <<nodes, endpoints, rooms, used, mapped, saving, cache>>
  BY DEF Announce, database
<1>2. TypeOK /\ pending \in Seq(Change) /\ LastIsCached(pending)
  BY DEF HomeInv, Inv, TypeOK, Change
<1>3. PICK ev : ev = Announced(Head(pending)) /\ Publish(ev)
  BY DEF Announce
<1>4. PICK t : t = Tail(pending)
  OBVIOUS
<1>5. ASSUME NEW held, NEW lost, Holds(held, t, lost) PROVE Holds(held, pending, lost)'
  BY <1>1, <1>4, <1>5 DEF Holds, Row, RowHolds, NoneLeft
<1>6. ASSUME NEW held, NEW lost, Holds(held, pending, lost)
      PROVE  Holds(Apply(held, Sent(ev)), t, lost) /\ (Sent(ev) = Quiet => Holds(held, t, lost))
  BY <1>1, <1>2, <1>3, <1>4, <1>6, AnnouncedHolds DEF Due
<1>11. Lost(ev) = {}
  BY <1>3, QuietCarried DEF Announced, Changed, Lost
<1>7. Sequential' /\ CopiesHold'
  <2>1. CASE ev = Quiet \/ ~Carried(ev)
    <3>1. Sent(ev) = Quiet
      BY <2>1, QuietCarried DEF Sent
    <3>2. ASSUME NEW held, NEW lost, Holds(held, pending, lost)
          PROVE  Holds(held, pending, lost \cup {})'
      <4>1. Holds(held, pending, lost)'
        BY <1>5, <1>6, <3>1, <3>2
      <4>2. PICK more : more = lost \cup {} /\ more = lost
        OBVIOUS
      <4>3. QED
        BY <4>1, <4>2
    <3>3. QED
      BY <1>3, <1>11, <2>1, <3>2, UntoldKeeps
  <2>2. CASE ev # Quiet /\ Carried(ev)
    <3>1. Sent(ev) = ev
      BY <2>2 DEF Sent
    <3>2. QED
      BY <1>3, <1>5, <1>6, <2>2, <3>1, TellKeeps
  <2>3. QED
    BY <2>1, <2>2
<1>8. LastIsCached(pending)'
  <2>1. LastIsCached(t)
    BY <1>1, <1>2, <1>4, TailCached
  <2>2. QED
    BY <1>1, <1>4, <2>1 DEF LastIsCached
<1>9. Minted'
  BY <1>1 DEF HomeInv, Minted
<1>10. QED
  BY <1>7, <1>8, <1>9 DEF HomeInv

-----------------------------------------------------------------------------
(* Metadata edits *)

\* An edit leaves the nodes, the cache and what is pending alone, and its event
\* turns every copy's rooms and rows into what they are to be.
LEMMA EditKeeps ==
    ASSUME HomeInv, Inv', NEW ev, ev # Quiet, Publish(ev),
           ev.name \notin {"snapshot", "node:added", "node:removed", "endpoint:changed"},
           UNCHANGED <<nodes, mapped, saving, cache, pending>>, used \subseteq used',
           \A held : held.rooms = rooms =>
              \A r \in Room : RoomAfter(held, ev, r) = rooms'[r],
           \A held : \A e \in Endpoint : RowHolds(held.endpoints[e], e, pending) =>
              RowHolds(EndpointAfter(held, ev, e), e, pending)'
    PROVE  HomeInv'
<1>1. ASSUME NEW held, NEW lost, Holds(held, pending, lost) PROVE Holds(Apply(held, ev), pending, lost)'
  <2>0. lost \subseteq used' \ saving'
    BY <1>1 DEF Holds
  <2>1. NodesAfter(held, ev) = nodes' \ lost
    BY <1>1 DEF Holds, NodesAfter
  <2>2. \A r \in Room : RoomAfter(held, ev, r) = rooms'[r]
    BY <1>1 DEF Holds
  <2>3. ASSUME NEW e \in Endpoint
        PROVE  Row(EndpointAfter(held, ev, e), e, pending, lost)'
    <3>1. CASE Owner[e] \in lost
      <4>1. held.endpoints[e] = None
        BY <1>1, <3>1 DEF Holds, Row
      <4>2. EndpointAfter(held, ev, e) = None
        BY <4>1 DEF EndpointAfter
      <4>3. QED
        BY <3>1, <4>2 DEF Row
    <3>2. CASE Owner[e] \notin lost
      <4>1. RowHolds(held.endpoints[e], e, pending)
        BY <1>1, <3>2 DEF Holds, Row
      <4>2. RowHolds(EndpointAfter(held, ev, e), e, pending)'
        BY <4>1
      <4>3. QED
        BY <3>2, <4>2 DEF Row
    <3>3. QED
      BY <3>1, <3>2
  <2>4. QED
    BY <2>0, <2>1, <2>2, <2>3, AppliedHolds DEF Inv, TypeOK
<1>2. Minted' /\ LastIsCached(pending)'
  BY DEF HomeInv, Minted, LastIsCached
<1>3. Carried(ev)
  BY DEF Carried, Values
<1>4. QED
  BY <1>1, <1>2, <1>3, TellKeeps DEF HomeInv

LEMMA RenameKeeps ==
    ASSUME HomeInv, Inv', NEW e \in Endpoint, NEW name \in Name, Rename(e, name)
    PROVE  HomeInv'
<1>1. CASE NotFound
  BY <1>1, NotFoundKeeps
<1>2. CASE ~NotFound
  <2>1. /\ endpoints[e] # None /\ endpoints' = [endpoints EXCEPT ![e].name = name]
        /\ UNCHANGED <<nodes, rooms, used, mapped, saving, cache, pending>>
    BY <1>2 DEF Rename, matter
  <2>2. PICK ev : ev = Renamed(e, name) /\ Publish(ev)
    BY <1>2 DEF Rename
  <2>3. ev.name = "endpoint:renamed" /\ ev.endpoint = e /\ ev.label = name /\ ev # Quiet
    BY <2>2 DEF Renamed, Quiet
  <2>4. ASSUME NEW held, held.rooms = rooms, NEW r \in Room
        PROVE  RoomAfter(held, ev, r) = rooms'[r]
    BY <2>1, <2>3, <2>4 DEF RoomAfter
  <2>5. ASSUME NEW held, NEW f \in Endpoint, RowHolds(held.endpoints[f], f, pending)
        PROVE  RowHolds(EndpointAfter(held, ev, f), f, pending)'
    <3>1. PICK state : state = held.endpoints[f] /\ RowHolds(state, f, pending)
      BY <2>5
    <3>2. CASE f = e /\ state # None
      <4>1. EndpointAfter(held, ev, f) = [state EXCEPT !.name = name]
        BY <2>3, <3>1, <3>2 DEF EndpointAfter, Edited
      <4>2. state \in States /\ state.room = endpoints[f].room
            /\ (Owner[f] \in mapped /\ NoneLeft(f, pending) /\ cache[f] \notin Wide => state.value = cache[f])
        BY <2>1, <3>1, <3>2 DEF RowHolds
      <4>3. PICK next : next = [state EXCEPT !.name = name]
        OBVIOUS
      <4>4. /\ next \in States /\ next # None
            /\ next.name = name /\ next.room = state.room /\ next.value = state.value
        BY <4>2, <4>3, NoneAssumption DEF States
      <4>5. endpoints[f] \in Record
        BY <2>1, <3>2 DEF HomeInv, Inv, TypeOK
      <4>6. /\ endpoints'[f].name = name /\ endpoints'[f].room = endpoints[f].room
            /\ endpoints'[f] # None
        BY <2>1, <3>2, <4>5, NoneAssumption DEF HomeInv, Inv, TypeOK, Record
      <4>7. QED
        BY <2>1, <4>1, <4>2, <4>3, <4>4, <4>6 DEF RowHolds, NoneLeft
    <3>3. CASE f # e \/ state = None
      <4>1. EndpointAfter(held, ev, f) = state
        BY <2>3, <3>1, <3>3 DEF EndpointAfter
      <4>2. CASE f # e
        <5>1. endpoints'[f] = endpoints[f]
          BY <2>1, <4>2 DEF HomeInv, Inv, TypeOK
        <5>2. QED
          BY <2>1, <3>1, <4>1, <5>1, RowStays
      <4>3. CASE f = e /\ state = None
        <5>1. Owner[f] \notin mapped
          BY <2>1, <3>1, <4>3 DEF RowHolds
        <5>2. QED
          BY <2>1, <4>1, <4>3, <5>1 DEF RowHolds
      <4>4. QED
        BY <3>3, <4>2, <4>3
    <3>4. QED
      BY <3>2, <3>3
  <2>6. QED
    BY <2>1, <2>2, <2>3, <2>4, <2>5, EditKeeps
<1>3. QED
  BY <1>1, <1>2

LEMMA AssignRoomKeeps ==
    ASSUME HomeInv, Inv', NEW e \in Endpoint, NEW r \in Room \cup {None}, AssignRoom(e, r)
    PROVE  HomeInv'
<1>1. CASE NotFound
  BY <1>1, NotFoundKeeps
<1>2. CASE ~NotFound
  <2>1. /\ endpoints[e] # None /\ endpoints' = [endpoints EXCEPT ![e].room = r]
        /\ UNCHANGED <<nodes, rooms, used, mapped, saving, cache, pending>>
    BY <1>2 DEF AssignRoom, matter
  <2>2. PICK ev : ev = RoomChanged(e, r) /\ Publish(ev)
    BY <1>2 DEF AssignRoom
  <2>3. ev.name = "endpoint:room-changed" /\ ev.endpoint = e /\ ev.room = r /\ ev # Quiet
    BY <2>2 DEF RoomChanged, Quiet
  <2>4. ASSUME NEW held, held.rooms = rooms, NEW s \in Room
        PROVE  RoomAfter(held, ev, s) = rooms'[s]
    BY <2>1, <2>3, <2>4 DEF RoomAfter
  <2>5. ASSUME NEW held, NEW f \in Endpoint, RowHolds(held.endpoints[f], f, pending)
        PROVE  RowHolds(EndpointAfter(held, ev, f), f, pending)'
    <3>1. PICK state : state = held.endpoints[f] /\ RowHolds(state, f, pending)
      BY <2>5
    <3>2. CASE f = e /\ state # None
      <4>1. EndpointAfter(held, ev, f) = [state EXCEPT !.room = r]
        BY <2>3, <3>1, <3>2 DEF EndpointAfter, Edited
      <4>2. state \in States /\ state.name = endpoints[f].name
            /\ (Owner[f] \in mapped /\ NoneLeft(f, pending) /\ cache[f] \notin Wide => state.value = cache[f])
        BY <2>1, <3>1, <3>2 DEF RowHolds
      <4>3. PICK next : next = [state EXCEPT !.room = r]
        OBVIOUS
      <4>4. /\ next \in States /\ next # None
            /\ next.room = r /\ next.name = state.name /\ next.value = state.value
        BY <4>2, <4>3, NoneAssumption DEF States
      <4>5. endpoints[f] \in Record
        BY <2>1, <3>2 DEF HomeInv, Inv, TypeOK
      <4>6. /\ endpoints'[f].room = r /\ endpoints'[f].name = endpoints[f].name
            /\ endpoints'[f] # None
        BY <2>1, <3>2, <4>5, NoneAssumption DEF HomeInv, Inv, TypeOK, Record
      <4>7. QED
        BY <2>1, <4>1, <4>2, <4>3, <4>4, <4>6 DEF RowHolds, NoneLeft
    <3>3. CASE f # e \/ state = None
      <4>1. EndpointAfter(held, ev, f) = state
        BY <2>3, <3>1, <3>3 DEF EndpointAfter
      <4>2. CASE f # e
        <5>1. endpoints'[f] = endpoints[f]
          BY <2>1, <4>2 DEF HomeInv, Inv, TypeOK
        <5>2. QED
          BY <2>1, <3>1, <4>1, <5>1, RowStays
      <4>3. CASE f = e /\ state = None
        <5>1. Owner[f] \notin mapped
          BY <2>1, <3>1, <4>3 DEF RowHolds
        <5>2. QED
          BY <2>1, <4>1, <4>3, <5>1 DEF RowHolds
      <4>4. QED
        BY <3>3, <4>2, <4>3
    <3>4. QED
      BY <3>2, <3>3
  <2>6. QED
    BY <2>1, <2>2, <2>3, <2>4, <2>5, EditKeeps
<1>3. QED
  BY <1>1, <1>2

LEMMA CreateRoomKeeps ==
    ASSUME HomeInv, Inv', NEW r \in Room, NEW name \in Name, CreateRoom(r, name)
    PROVE  HomeInv'
<1>1. /\ used' = used \cup {r} /\ rooms' = [rooms EXCEPT ![r] = name]
      /\ UNCHANGED <<nodes, endpoints, mapped, saving, cache, pending>>
  BY DEF CreateRoom, matter
<1>2. PICK ev : ev = RoomAdded(r, name) /\ Publish(ev)
  BY DEF CreateRoom
<1>3. ev.name = "room:added" /\ ev.room = r /\ ev.label = name /\ ev # Quiet
  BY <1>2 DEF RoomAdded, Quiet
<1>4. ASSUME NEW held, held.rooms = rooms, NEW s \in Room
      PROVE  RoomAfter(held, ev, s) = rooms'[s]
  BY <1>1, <1>3, <1>4 DEF RoomAfter, HomeInv, Inv, TypeOK
<1>5. ASSUME NEW held, NEW f \in Endpoint, RowHolds(held.endpoints[f], f, pending)
      PROVE  RowHolds(EndpointAfter(held, ev, f), f, pending)'
  <2>1. PICK state : state = held.endpoints[f] /\ RowHolds(state, f, pending)
    BY <1>5
  <2>2. EndpointAfter(held, ev, f) = state
    BY <1>3, <2>1 DEF EndpointAfter
  <2>3. QED
    BY <1>1, <2>1, <2>2, RowStays
<1>6. QED
  BY <1>1, <1>2, <1>3, <1>4, <1>5, EditKeeps

LEMMA RenameRoomKeeps ==
    ASSUME HomeInv, Inv', NEW r \in Room, NEW name \in Name, RenameRoom(r, name)
    PROVE  HomeInv'
<1>1. CASE NotFound
  BY <1>1, NotFoundKeeps
<1>2. CASE ~NotFound
  <2>1. /\ rooms[r] # None /\ rooms' = [rooms EXCEPT ![r] = name]
        /\ UNCHANGED <<nodes, endpoints, used, mapped, saving, cache, pending>>
    BY <1>2 DEF RenameRoom, matter
  <2>2. PICK ev : ev = RoomRenamed(r, name) /\ Publish(ev)
    BY <1>2 DEF RenameRoom
  <2>3. ev.name = "room:renamed" /\ ev.room = r /\ ev.label = name /\ ev # Quiet
    BY <2>2 DEF RoomRenamed, Quiet
  <2>4. ASSUME NEW held, held.rooms = rooms, NEW s \in Room
        PROVE  RoomAfter(held, ev, s) = rooms'[s]
    BY <2>1, <2>3, <2>4 DEF RoomAfter, HomeInv, Inv, TypeOK
  <2>5. ASSUME NEW held, NEW f \in Endpoint, RowHolds(held.endpoints[f], f, pending)
        PROVE  RowHolds(EndpointAfter(held, ev, f), f, pending)'
    <3>1. PICK state : state = held.endpoints[f] /\ RowHolds(state, f, pending)
      BY <2>5
    <3>2. EndpointAfter(held, ev, f) = state
      BY <2>3, <3>1 DEF EndpointAfter
    <3>3. QED
      BY <2>1, <3>1, <3>2, RowStays
  <2>6. QED
    BY <2>1, <2>2, <2>3, <2>4, <2>5, EditKeeps
<1>3. QED
  BY <1>1, <1>2

\* The client clears the rooms that the schema clears.
LEMMA RemoveRoomKeeps ==
    ASSUME HomeInv, Inv', NEW r \in Room, RemoveRoom(r) PROVE HomeInv'
<1>1. CASE NotFound
  BY <1>1, NotFoundKeeps
<1>2. CASE ~NotFound
  <2>1. /\ rooms[r] # None /\ rooms' = [rooms EXCEPT ![r] = None]
        /\ endpoints' = [e \in Endpoint |-> ClearRoom(e, r)]
        /\ UNCHANGED <<nodes, used, mapped, saving, cache, pending>>
    BY <1>2 DEF RemoveRoom, matter
  <2>2. PICK ev : ev = RoomRemoved(r) /\ Publish(ev)
    BY <1>2 DEF RemoveRoom
  <2>3. ev.name = "room:removed" /\ ev.room = r /\ ev # Quiet /\ r # None
    BY <2>2, NoneAssumption DEF RoomRemoved, Quiet
  <2>4. ASSUME NEW held, held.rooms = rooms, NEW s \in Room
        PROVE  RoomAfter(held, ev, s) = rooms'[s]
    BY <2>1, <2>3, <2>4 DEF RoomAfter, HomeInv, Inv, TypeOK
  <2>5. ASSUME NEW held, NEW f \in Endpoint, RowHolds(held.endpoints[f], f, pending)
        PROVE  RowHolds(EndpointAfter(held, ev, f), f, pending)'
    <3>1. PICK state : state = held.endpoints[f] /\ RowHolds(state, f, pending)
      BY <2>5
    <3>2. endpoints'[f] = ClearRoom(f, r)
      BY <2>1
    <3>3. CASE endpoints[f] = None
      <4>1. state = None /\ endpoints'[f] = None
        BY <3>1, <3>2, <3>3 DEF RowHolds, ClearRoom
      <4>2. EndpointAfter(held, ev, f) = None
        BY <2>3, <3>1, <4>1 DEF EndpointAfter
      <4>3. QED
        BY <4>1, <4>2 DEF RowHolds
    <3>4. CASE endpoints[f] # None /\ state = None
      <4>1. EndpointAfter(held, ev, f) = None
        BY <2>3, <3>1, <3>4 DEF EndpointAfter
      <4>2. Owner[f] \notin mapped
        BY <3>1, <3>4 DEF RowHolds
      <4>3. QED
        BY <2>1, <4>1, <4>2 DEF RowHolds
    <3>5. CASE endpoints[f] # None /\ state # None /\ endpoints[f].room = r
      <4>1. /\ state \in States /\ state.name = endpoints[f].name /\ state.room = r
            /\ (Owner[f] \in mapped /\ NoneLeft(f, pending) /\ cache[f] \notin Wide => state.value = cache[f])
        BY <3>1, <3>5 DEF RowHolds
      <4>2. EndpointAfter(held, ev, f) = [state EXCEPT !.room = None]
        BY <2>3, <3>1, <3>5, <4>1 DEF EndpointAfter
      <4>3. PICK next : next = [state EXCEPT !.room = None]
        OBVIOUS
      <4>4. /\ next \in States /\ next # None
            /\ next.room = None /\ next.name = state.name /\ next.value = state.value
        BY <4>1, <4>3, NoneAssumption DEF States
      <4>5. endpoints[f] \in Record
        BY <3>5 DEF HomeInv, Inv, TypeOK
      <4>6. /\ endpoints'[f].room = None /\ endpoints'[f].name = endpoints[f].name
            /\ endpoints'[f] # None
        BY <3>2, <3>5, <4>5, NoneAssumption DEF ClearRoom, Record
      <4>7. QED
        BY <2>1, <4>1, <4>2, <4>3, <4>4, <4>6 DEF RowHolds, NoneLeft
    <3>6. CASE endpoints[f] # None /\ state # None /\ endpoints[f].room # r
      <4>1. state.room # r
        BY <3>1, <3>6 DEF RowHolds
      <4>2. EndpointAfter(held, ev, f) = state /\ endpoints'[f] = endpoints[f]
        BY <2>3, <3>1, <3>2, <3>6, <4>1 DEF EndpointAfter, ClearRoom
      <4>3. QED
        BY <2>1, <3>1, <4>2, RowStays
    <3>7. QED
      BY <3>3, <3>4, <3>5, <3>6
  <2>6. QED
    BY <2>1, <2>2, <2>3, <2>4, <2>5, EditKeeps
<1>3. QED
  BY <1>1, <1>2

-----------------------------------------------------------------------------
(* The transport, and the process *)

\* The hub stays as it is.
LEMMA HubStays ==
    ASSUME HomeInv, UNCHANGED <<database, matter>>
    PROVE  /\ Minted' /\ LastIsCached(pending)'
           /\ \A held, lost : Holds(held, pending, lost) => Holds(held, pending, lost)'
<1>1. UNCHANGED <<nodes, endpoints, rooms, used, peers, mapped, saving, cache, pending>>
  BY DEF database, matter
<1>2. QED
  BY <1>1, NothingChanges DEF HomeInv, Minted, LastIsCached

\* The baseline holds the house, whatever the client held.
LEMMA SnapshotHolds ==
    ASSUME TypeOK, NEW held PROVE Holds(Apply(held, Snapshot), pending, {})
<1>1. PICK frame : frame = Snapshot
  OBVIOUS
<1>2. /\ frame.name = "snapshot" /\ frame.nodes = nodes /\ frame.rooms = rooms
      /\ \A e \in Endpoint : frame.endpoints[e] = Served(e)
  BY <1>1 DEF Snapshot
<1>3. NodesAfter(held, frame) = nodes \ {} /\ \A r \in Room : RoomAfter(held, frame, r) = rooms[r]
  BY <1>2 DEF NodesAfter, RoomAfter
<1>4. ASSUME NEW e \in Endpoint PROVE Row(EndpointAfter(held, frame, e), e, pending, {})
  <2>1. EndpointAfter(held, frame, e) = Served(e)
    BY <1>2 DEF EndpointAfter
  <2>2. CASE endpoints[e] = None \/ Owner[e] \notin mapped
    <3>1. Served(e) = None
      BY <2>2 DEF Served
    <3>2. QED
      BY <2>1, <2>2, <3>1 DEF Row, RowHolds
  <2>3. CASE endpoints[e] # None /\ Owner[e] \in mapped
    <3>1. endpoints[e] \in Record /\ cache[e] \in Value
      BY <2>3 DEF TypeOK
    <3>2. PICK state : state = State(e) /\ Served(e) = state
      BY <2>3 DEF Served
    <3>3. /\ state \in States /\ state.name = endpoints[e].name
          /\ state.room = endpoints[e].room /\ state.value = cache[e]
      BY <3>1, <3>2 DEF State, States, Record
    <3>4. state # None
      BY <3>3, NoneAssumption
    <3>5. QED
      BY <2>1, <2>3, <3>2, <3>3, <3>4 DEF Row, RowHolds
  <2>4. QED
    BY <2>2, <2>3
<1>5. rooms \in [Room -> Name \cup {None}]
  BY DEF TypeOK
<1>6. QED
  BY <1>1, <1>3, <1>4, <1>5, ApplyHolds

\* What the sockets and the clients do leaves the hub as it is: it is enough to
\* look at each subscriber that is left.
LEMMA TransportKeeps ==
    ASSUME HomeInv, Inv', UNCHANGED <<database, matter>>, Sequential',
           \A c \in live' :
              \/ /\ c \in live /\ missed'[c] = missed[c]
                 /\ Fold(copy'[c], wire'[c]) = Fold(copy[c], wire[c])
              \/ Holds(Fold(copy'[c], wire'[c]), pending, missed'[c])
    PROVE  HomeInv'
<1>1. ASSUME NEW c \in live' PROVE Holds(Fold(copy[c], wire[c]), pending, missed[c])'
  <2>1. PICK held, lost : /\ held = Fold(copy'[c], wire'[c]) /\ lost = missed'[c]
                          /\ Holds(held, pending, lost)
    BY DEF HomeInv, CopiesHold
  <2>2. Holds(held, pending, lost)'
    BY <2>1, HubStays
  <2>3. QED
    BY <2>1, <2>2
<1>2. CopiesHold'
  BY <1>1 DEF CopiesHold
<1>3. QED
  BY <1>2, HubStays DEF HomeInv

LEMMA SubscribeKeeps == ASSUME HomeInv, Inv', NEW c \in Client, Subscribe(c) PROVE HomeInv'
<1>1. /\ live' = live \cup {c} /\ copy' = copy /\ UNCHANGED <<database, matter>>
      /\ wire' = [wire EXCEPT ![c] = Append(@, Snapshot)]
      /\ DOMAIN wire = Client /\ DOMAIN copy = Client /\ live \subseteq Client
      /\ missed' = [missed EXCEPT ![c] = {}] /\ DOMAIN missed = Client
      /\ \A d \in Client : \E W : wire[d] \in Seq(W)
  BY DEF Subscribe, HomeInv, Inv, TypeOK, Sequential
<1>2. PICK frame : frame = Snapshot
  OBVIOUS
<1>3. /\ DOMAIN wire' = Client /\ wire'[c] = Append(wire[c], frame)
      /\ \A d \in Client \ {c} : wire'[d] = wire[d]
  BY <1>1, <1>2
<1>4. PICK W : wire[c] \in Seq(W)
  BY <1>1
<1>5. PICK S : S = W \cup {frame}
  OBVIOUS
<1>6. wire[c] \in Seq(S) /\ frame \in S /\ wire'[c] \in Seq(S)
  BY <1>3, <1>4, <1>5, SeqMonotonic, AppendProperties
<1>7. Sequential'
  BY <1>1, <1>3, <1>6 DEF Sequential
<1>8. Fold(copy'[c], wire'[c]) = Apply(Fold(copy[c], wire[c]), frame)
  BY <1>1, <1>3, <1>6, FoldAppend
<1>9. Holds(Fold(copy'[c], wire'[c]), pending, missed'[c])
  BY <1>1, <1>2, <1>8, SnapshotHolds DEF HomeInv, Inv
<1>10. \A d \in live' :
          d = c \/ (d \in live /\ missed'[d] = missed[d] /\ Fold(copy'[d], wire'[d]) = Fold(copy[d], wire[d]))
  BY <1>1, <1>3
<1>11. QED
  BY <1>1, <1>7, <1>9, <1>10, TransportKeeps

\* A frame that is received moves from what is in flight into the copy.
LEMMA ReceiveKeeps == ASSUME HomeInv, Inv', NEW c \in Client, Receive(c) PROVE HomeInv'
<1>1. /\ wire[c] # <<>> /\ live' = live /\ UNCHANGED <<database, matter>>
      /\ copy' = [copy EXCEPT ![c] = Apply(@, Head(wire[c]))]
      /\ wire' = [wire EXCEPT ![c] = Tail(@)]
      /\ DOMAIN wire = Client /\ DOMAIN copy = Client /\ live \subseteq Client
      /\ missed' = missed
      /\ \A d \in Client : \E W : wire[d] \in Seq(W)
  BY DEF Receive, HomeInv, Inv, TypeOK, Sequential
<1>2. /\ DOMAIN wire' = Client /\ DOMAIN copy' = Client
      /\ wire'[c] = Tail(wire[c]) /\ copy'[c] = Apply(copy[c], Head(wire[c]))
      /\ \A d \in Client \ {c} : wire'[d] = wire[d] /\ copy'[d] = copy[d]
  BY <1>1
<1>3. PICK W : wire[c] \in Seq(W)
  BY <1>1
<1>4. wire'[c] \in Seq(W)
  BY <1>1, <1>2, <1>3, HeadTailProperties
<1>5. Fold(copy'[c], wire'[c]) = Fold(copy[c], wire[c])
  BY <1>1, <1>2, <1>3, FoldReceived
<1>6. Sequential'
  BY <1>1, <1>2, <1>4 DEF Sequential
<1>7. \A d \in live' : d \in live /\ missed'[d] = missed[d] /\ Fold(copy'[d], wire'[d]) = Fold(copy[d], wire[d])
  BY <1>1, <1>2, <1>5
<1>8. QED
  BY <1>1, <1>6, <1>7, TransportKeeps

LEMMA CloseKeeps == ASSUME HomeInv, Inv', NEW c \in Client, Close(c) PROVE HomeInv'
<1>1. /\ live' = live \ {c} /\ UNCHANGED <<database, matter>>
      /\ wire' = [wire EXCEPT ![c] = <<>>] /\ copy' = [copy EXCEPT ![c] = NoCopy]
      /\ DOMAIN wire = Client /\ DOMAIN copy = Client /\ live \subseteq Client
      /\ missed' = [missed EXCEPT ![c] = {}] /\ DOMAIN missed = Client
      /\ \A d \in Client : \E W : wire[d] \in Seq(W)
  BY DEF Close, HomeInv, Inv, TypeOK, Sequential
<1>2. /\ DOMAIN wire' = Client /\ DOMAIN copy' = Client /\ wire'[c] = <<>>
      /\ \A d \in Client \ {c} : wire'[d] = wire[d] /\ copy'[d] = copy[d]
  BY <1>1
<1>3. <<>> \in Seq({})
  OBVIOUS
<1>4. Sequential'
  BY <1>1, <1>2, <1>3 DEF Sequential
<1>5. \A d \in live' : d \in live /\ missed'[d] = missed[d] /\ Fold(copy'[d], wire'[d]) = Fold(copy[d], wire[d])
  BY <1>1, <1>2
<1>6. QED
  BY <1>1, <1>4, <1>5, TransportKeeps

LEMMA RebootKeeps == ASSUME HomeInv, Inv', Reboot PROVE HomeInv'
<1>1. /\ mapped' = nodes \cap peers /\ saving' = {} /\ pending' = <<>> /\ live' = {}
      /\ wire' = [c \in Client |-> <<>>] /\ copy' = [c \in Client |-> NoCopy]
      /\ UNCHANGED <<nodes, endpoints, rooms, used>>
  BY DEF Reboot, database
<1>2. Minted'
  BY <1>1 DEF HomeInv, Minted
<1>3. LastIsCached(pending)'
  BY <1>1 DEF LastIsCached
<1>4. <<>> \in Seq({})
  OBVIOUS
<1>5. Sequential' /\ CopiesHold'
  BY <1>1, <1>4 DEF Sequential, CopiesHold
<1>6. QED
  BY <1>2, <1>3, <1>5 DEF HomeInv

-----------------------------------------------------------------------------
(* The theorems *)

LEMMA HomeInitially == Init => HomeInv
<1> SUFFICES ASSUME Init PROVE HomeInv
  OBVIOUS
<1>1. Inv
  BY Initially
<1>2. Minted /\ LastIsCached(pending) /\ CopiesHold
  BY DEF Init, Minted, LastIsCached, CopiesHold
<1>3. <<>> \in Seq({})
  OBVIOUS
<1>4. Sequential
  BY <1>3 DEF Init, Sequential
<1>5. QED
  BY <1>1, <1>2, <1>4 DEF HomeInv

LEMMA HomePreserved == HomeInv /\ [Next]_vars => HomeInv'
<1> SUFFICES ASSUME HomeInv, [Next]_vars PROVE HomeInv'
  OBVIOUS
<1>1. Inv'
  BY Preserved DEF HomeInv
<1>2. CASE Nodes
  BY <1>1, <1>2, RegisterKeeps, SaveFailsKeeps, UnmapKeeps, DeleteKeeps, SaveKeeps DEF Nodes
<1>3. CASE Edits
  BY <1>1, <1>3, RenameKeeps, AssignRoomKeeps, CreateRoomKeeps, RenameRoomKeeps,
     RemoveRoomKeeps DEF Edits
<1>4. CASE Reports
  BY <1>1, <1>4, ReportKeeps, AnnounceKeeps DEF Reports
<1>5. CASE Transport
  BY <1>1, <1>5, SubscribeKeeps, ReceiveKeeps, CloseKeeps, RebootKeeps DEF Transport
<1>6. CASE UNCHANGED vars
  <2>1. UNCHANGED <<database, matter>> /\ UNCHANGED <<live, wire, copy, missed>>
    BY <1>6 DEF vars, clients
  <2>2. Sequential'
    BY <2>1 DEF HomeInv, Sequential
  <2>3. QED
    BY <1>1, <2>1, <2>2, TransportKeeps
<1>7. QED
  BY <1>2, <1>3, <1>4, <1>5, <1>6 DEF Next

\* Whatever the devices, the edits, the clients and the process do, all that
\* a subscriber lacks once it has what is in flight are the changes that the
\* SDK has still to announce, and what came in an event that JSON could not
\* carry.
THEOREM HomeInvariance == Spec => []HomeInv
  BY HomeInitially, HomePreserved, PTL DEF Spec

\* And once the changes have reached it, it holds the house, but for nodes
\* whose node:added was lost and values that are wide at present.
THEOREM AlwaysHoldsHome == Spec => []CopyHoldsHome
  BY HomeInvariance, HoldsHome, PTL

-----------------------------------------------------------------------------
(* The house and its events form a Roster *)

\* The refinement mapping of Home's instance R, node by node.
Stage(n) ==
    IF n \in nodes THEN "listed" ELSE IF n \in used \ saving THEN "gone" ELSE "unborn"

Silent == emit'.name \notin {"node:added", "node:removed"}

\* A step of which no node event tells changes no row of a node, and mints
\* what it starts to save.
LEMMA SilentStep ==
    ASSUME Silent, nodes' = nodes, used \subseteq used', saving' \subseteq saving \cup (used' \ used)
    PROVE  R!Next
<1>1. \A n \in Node : Stage(n)' \in R!Stages
  BY DEF Stage, R!Stages
<1>2. \A n \in Node : Stage(n)' # Stage(n) => Stage(n) = "unborn" /\ Stage(n)' = "gone"
  BY DEF Stage
<1>3. R!Abandon
  BY <1>1, <1>2 DEF R!Abandon, R!Quiet, Stage, Silent
<1>4. QED
  BY <1>3 DEF R!Next

LEMMA EmitSilent ==
    ASSUME \/ emit' = Quiet
           \/ \E e, x : emit' = Changed(e, x) \/ emit' = Renamed(e, x) \/ emit' = RoomChanged(e, x)
           \/ \E r, x : emit' = RoomAdded(r, x) \/ emit' = RoomRenamed(r, x) \/ emit' = RoomRemoved(r)
    PROVE  Silent
BY DEF Silent, Quiet, Changed, Renamed, RoomChanged, RoomAdded, RoomRenamed, RoomRemoved

LEMMA SaveLists ==
    ASSUME Minted, NEW n \in Node, NEW name \in Name, Save(n, name)
    PROVE  R!List(n)
<1>1. /\ n \in saving /\ saving' = saving \ {n} /\ nodes' = nodes \cup {n} /\ used' = used
      /\ emit' = NodeAdded(n, StatesAnnounced(n, name))
  BY DEF Save, Publish
<1>2. Stage(n) = "unborn" /\ Stage(n)' = "listed"
  BY <1>1 DEF Stage, Minted
<1>3. \A m \in Node : m # n => Stage(m)' = Stage(m)
  BY <1>1 DEF Stage
<1>4. emit'.name = "node:added" /\ emit'.node = n
  BY <1>1 DEF NodeAdded
<1>5. QED
  BY <1>2, <1>3, <1>4 DEF R!List, R!Added, Stage

LEMMA DeleteDelists ==
    ASSUME Minted, NEW n \in Node, Delete(n)
    PROVE  R!Delist(n)
<1>1. /\ n \in nodes \ mapped /\ nodes' = nodes \ {n} /\ used' = used /\ saving' = saving
      /\ emit' = NodeRemoved(n)
  BY DEF Delete, Publish, matter
<1>2. Stage(n) = "listed" /\ Stage(n)' = "gone"
  BY <1>1 DEF Stage, Minted
<1>3. \A m \in Node : m # n => Stage(m)' = Stage(m)
  BY <1>1 DEF Stage
<1>4. emit'.name = "node:removed" /\ emit'.node = n
  BY <1>1 DEF NodeRemoved
<1>5. QED
  BY <1>2, <1>3, <1>4 DEF R!Delist, R!Removed, Stage

LEMMA EditsSilent ==
    ASSUME Edits \/ Reports \/ Transport
    PROVE  Silent /\ nodes' = nodes /\ used \subseteq used' /\ saving' \subseteq saving
<1>1. ASSUME NEW e \in Endpoint, NEW name \in Name, Rename(e, name)
      PROVE  Silent /\ nodes' = nodes /\ used \subseteq used' /\ saving' \subseteq saving
  BY <1>1, EmitSilent DEF Rename, NotFound, Publish, database, matter
<1>2. ASSUME NEW e \in Endpoint, NEW r \in Room \cup {None}, AssignRoom(e, r)
      PROVE  Silent /\ nodes' = nodes /\ used \subseteq used' /\ saving' \subseteq saving
  BY <1>2, EmitSilent DEF AssignRoom, NotFound, Publish, database, matter
<1>3. ASSUME NEW r \in Room, NEW name \in Name, CreateRoom(r, name) \/ RenameRoom(r, name)
      PROVE  Silent /\ nodes' = nodes /\ used \subseteq used' /\ saving' \subseteq saving
  BY <1>3, EmitSilent DEF CreateRoom, RenameRoom, NotFound, Publish, database, matter
<1>4. ASSUME NEW r \in Room, RemoveRoom(r)
      PROVE  Silent /\ nodes' = nodes /\ used \subseteq used' /\ saving' \subseteq saving
  BY <1>4, EmitSilent DEF RemoveRoom, NotFound, Publish, database, matter
<1>5. ASSUME Reports
      PROVE  Silent /\ nodes' = nodes /\ used \subseteq used' /\ saving' \subseteq saving
  <2>1. ASSUME Announce
        PROVE  Silent /\ nodes' = nodes /\ used \subseteq used' /\ saving' \subseteq saving
    BY <2>1, EmitSilent DEF Announce, Announced, Publish, database
  <2>2. ASSUME NEW e \in Endpoint, NEW v \in Value, Report(e, v)
        PROVE  Silent /\ nodes' = nodes /\ used \subseteq used' /\ saving' \subseteq saving
    BY <2>2, EmitSilent DEF Report, Publish, database
  <2>3. QED
    BY <1>5, <2>1, <2>2 DEF Reports
<1>6. ASSUME Transport
      PROVE  Silent /\ nodes' = nodes /\ used \subseteq used' /\ saving' \subseteq saving
  BY <1>6, EmitSilent DEF Transport, Reboot, Subscribe, Receive, Close, database, matter
<1>7. QED
  BY <1>1, <1>2, <1>3, <1>4, <1>5, <1>6 DEF Edits

LEMMA RosterStep ==
    ASSUME HomeInv, [Next]_vars
    PROVE  R!Next \/ UNCHANGED vars
<1>1. CASE Edits \/ Reports \/ Transport
  BY <1>1, EditsSilent, SilentStep
<1>2. ASSUME NEW n \in Node, Register(n) PROVE R!Next
  <2>1. Silent
    BY <1>2, EmitSilent DEF Register, Publish
  <2>2. QED
    BY <1>2, <2>1, SilentStep DEF Register
<1>3. ASSUME NEW n \in Node, SaveFails(n) \/ Unmap(n) PROVE R!Next
  <2>1. Silent
    BY <1>3, EmitSilent DEF SaveFails, Unmap, Publish
  <2>2. QED
    BY <1>3, <2>1, SilentStep DEF SaveFails, Unmap, database
<1>4. ASSUME NEW n \in Node, Delete(n) PROVE R!Next
  BY <1>4, DeleteDelists DEF HomeInv, R!Next
<1>5. ASSUME NEW n \in Node, NEW name \in Name, Save(n, name) PROVE R!Next
  BY <1>5, SaveLists DEF HomeInv, R!Next
<1>6. QED
  BY <1>1, <1>2, <1>3, <1>4, <1>5 DEF Next, Nodes

\* Home implements Roster, as Fabric does: over removals, failed savings and
\* reboots, each change of the nodes table is told by one event of the same
\* step, and a node that is gone is never listed again.
THEOREM HomeImplementsRoster == Spec => RosterSpec
<1>1. Init => R!Init
  BY DEF Init, R!Init, R!Quiet, Quiet
<1>2. HomeInv /\ [Next]_vars => [R!Next]_(R!rosterVars)
  <2>1. UNCHANGED vars => UNCHANGED R!rosterVars
    BY DEF vars, database, matter, R!rosterVars
  <2>2. QED
    BY <2>1, RosterStep
<1>3. QED
  BY <1>1, <1>2, HomeInvariance, PTL DEF Spec, RosterSpec, R!Spec
=============================================================================
