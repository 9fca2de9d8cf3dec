--------------------------- MODULE ClientsProofs ---------------------------
(***************************************************************************)
(* The fabric of nodes and what its clients are told, for every value of   *)
(* the constants.                                                          *)
(*                                                                         *)
(* First Fabric by itself.  Its properties are not inductive alone: IInv   *)
(* adds which ids a request may carry at each await, and what the stores   *)
(* hold for them; Accounted what the rows, the requests and the devices    *)
(* say of the SDK's peers.                                                 *)
(*                                                                         *)
(* Then that its database and its domain events form a Roster: a change of *)
(* the nodes table and the event that reports it are one step, and nothing *)
(* is said of a node that is gone.  Last, that a client which folds these  *)
(* events, in the order in which they reach it, holds the roster.          *)
(***************************************************************************)
EXTENDS Clients, WellFoundedInduction, SequenceTheorems, TLAPS


-----------------------------------------------------------------------------
(* The inductive invariant *)

\* A request that carries a node of its own, not just an id it was asked for.
Carries(o) ==
    /\ op[o].node # None
    /\ ~(op[o].pc = "failed" /\ op[o].kind = "decommission")

\* Nothing refers to an id before it is minted, or assigned.
NodesMinted ==
    /\ \A n \in NodeId \ minted : row[n] = None /\ mapped[n] = None
    /\ \A o \in Op : Carries(o) => op[o].node \in minted

MattersAssigned ==
    /\ \A m \in MatterId \ assigned : peer[m] = None /\ disk[m] = None
    /\ \A n \in NodeId : /\ row[n] # None => row[n] \in assigned
                         /\ mapped[n] # None => mapped[n] \in assigned
    /\ \A o \in Op : op[o].matter # None => op[o].matter \in assigned

\* What a request carries at each await.
RequestShape(o) ==
    /\ op[o].pc \in {"idle", "ok", "failed", "joining"} => op[o].matter = None
    /\ op[o].pc \in {"joining", "joined", "registered"} =>
          op[o].kind = "commission"
    /\ op[o].pc \in {"joining", "joined"} => op[o].node = None
    /\ op[o].pc = "joining" => op[o].dev # None
    /\ op[o].pc \in {"joined", "registered", "removing", "removed"} =>
          op[o].matter # None
    /\ op[o].pc \in {"registered", "removing", "removed", "dropping"} =>
          op[o].node # None
    /\ op[o].pc \in {"removing", "removed", "dropping"} =>
          op[o].kind \in {"commission", "decommission"}
    /\ op[o].pc = "dropping" => op[o].kind = "decommission"
    /\ op[o].pc = "ok" => op[o].node # None

\* A peer that has just joined is nobody else's.
JoinedIsFresh(o) ==
    op[o].pc = "joined" =>
        /\ \A n \in NodeId : /\ row[n] # op[o].matter
                             /\ mapped[n] # op[o].matter
        /\ \A p \in Op \ {o} : op[p].matter # op[o].matter

\* A node being commissioned, or being undone, is its request's own.
Owns(o) ==
    \/ op[o].pc = "registered"
    \/ op[o].kind = "commission" /\ op[o].pc \in {"removing", "removed"}

OwnedIsPrivate(o) ==
    Owns(o) =>
        /\ mapped[op[o].node] = op[o].matter
        /\ row[op[o].node] = None
        /\ \A p \in Op \ {o} : op[p].node = op[o].node => ~Carries(p)

\* A removal has the node's own peer in hand; once the SDK has answered the
\* peer is gone, and once the map is settled the node is not in it.
RemovalTarget(o) ==
    /\ op[o].pc \in {"removing", "removed"} =>
          /\ row[op[o].node] \in {None, op[o].matter}
          /\ mapped[op[o].node] \in {None, op[o].matter}
    /\ op[o].pc = "removed" => peer[op[o].matter] = None
    /\ op[o].pc = "dropping" => mapped[op[o].node] = None

\* The map says of a stored node what the table says.
MapAgrees ==
    \A n \in NodeId : mapped[n] # None => row[n] \in {None, mapped[n]}

\* Nothing is in flight while the process is down.
DownIsEmpty ==
    ~up => /\ \A o \in Op : op[o] = Idle
           /\ \A n \in NodeId : mapped[n] = None
           /\ leaving = {}

Requests ==
    \A o \in Op : /\ RequestShape(o)
                  /\ JoinedIsFresh(o)
                  /\ OwnedIsPrivate(o)
                  /\ RemovalTarget(o)

IInv ==
    /\ TypeOK
    /\ NodesMinted
    /\ MattersAssigned
    /\ Requests
    /\ MapAgrees
    /\ DownIsEmpty
    /\ Controllable
    /\ OneNodePerPeer
    /\ FlagHasOwner
    /\ AnswersHold
-----------------------------------------------------------------------------
(* Type correctness *)

\* The events are events.
LEMMA EventsTyped ==
    /\ Quiet \in Event
    /\ \A n \in NodeId : /\ \A r \in BOOLEAN : Added(n, r) \in Event
                         /\ Removed(n) \in Event
                         /\ Connected(n) \in Event
                         /\ Disconnected(n) \in Event
BY DEF Event, Quiet, Added, Removed, Connected, Disconnected, R!Quiet,
       R!Added, R!Removed, R!Connected, R!Disconnected

\* So is what the watchers publish about a session.
LEMMA SessionEventsTyped ==
    \A m : OnlineEvent(m) \in Event /\ OfflineEvent(m) \in Event
<1>1. TAKE m
<1>2. Watched(m) # {} => (CHOOSE n \in NodeId : n \in Watched(m)) \in NodeId
  BY DEF Watched
<1>3. Watched(m) \ leaving # {} =>
        (CHOOSE n \in NodeId : n \in Watched(m) \ leaving) \in NodeId
  BY DEF Watched
<1>4. QED
  BY <1>2, <1>3, EventsTyped DEF OnlineEvent, OfflineEvent

\* Every variable starts with its type.
LEMMA TypeInit == Init => TypeOK
BY EventsTyped, NoneAssumption
   DEF Init, TypeOK, Idle, Request, Phases

\* What each way of moving a request does to it, and that it stays a request.
LEMMA AnswerFields ==
    ASSUME TypeOK, NEW o \in Op, NEW outcome \in Phases, Answer(o, outcome)
    PROVE  /\ op' \in [Op -> Request]
           /\ \A p \in Op \ {o} : op'[p] = op[p]
           /\ op'[o].pc = outcome /\ op'[o].kind = op[o].kind
           /\ op'[o].node = op[o].node /\ op'[o].matter = None
           /\ op'[o].force = FALSE
<1> DEFINE r == [Idle EXCEPT !.pc = outcome, !.kind = op[o].kind,
                             !.node = op[o].node]
<1>1. /\ r \in Request /\ r.pc = outcome /\ r.kind = op[o].kind
      /\ r.node = op[o].node /\ r.matter = None /\ r.force = FALSE
  BY DEF TypeOK, Idle, Request
<1>2. op' = [op EXCEPT ![o] = r]
  BY DEF Answer
<1> HIDE DEF r
<1>3. QED
  BY <1>1, <1>2 DEF TypeOK

\* A request that moves to another await keeps what it carries, and the
\* others are left alone.
LEMMA Moved ==
    ASSUME TypeOK, NEW o \in Op, NEW phase \in Phases, Goto(o, phase)
    PROVE  /\ op' \in [Op -> Request]
           /\ \A p \in Op \ {o} : op'[p] = op[p]
           /\ op'[o].pc = phase /\ op'[o].kind = op[o].kind
           /\ op'[o].node = op[o].node /\ op'[o].matter = op[o].matter
           /\ op'[o].force = op[o].force
<1> DEFINE r == [op[o] EXCEPT !.pc = phase]
<1>1. /\ r \in Request /\ r.pc = phase /\ r.kind = op[o].kind
      /\ r.node = op[o].node /\ r.matter = op[o].matter
      /\ r.force = op[o].force
  BY DEF TypeOK, Request
<1>2. op' = [op EXCEPT ![o] = r]
  BY DEF Goto
<1> HIDE DEF r
<1>3. QED
  BY <1>1, <1>2 DEF TypeOK

\* The same of a request that starts to commission,
LEMMA CalledToCommission ==
    ASSUME TypeOK, NEW o \in Op, NEW d \in Device, CommissionCall(o, d)
    PROVE  /\ op' \in [Op -> Request]
           /\ \A p \in Op \ {o} : op'[p] = op[p]
           /\ op'[o].pc = "joining" /\ op'[o].kind = "commission"
           /\ op'[o].dev = d /\ op'[o].node = None /\ op'[o].matter = None
           /\ op'[o].force = FALSE
<1> DEFINE r == [Idle EXCEPT !.pc = "joining", !.kind = "commission",
                             !.dev = d]
<1>1. /\ r \in Request /\ r.pc = "joining" /\ r.kind = "commission"
      /\ r.dev = d /\ r.node = None /\ r.matter = None /\ r.force = FALSE
  BY DEF Idle, Request, Phases
<1>2. op' = [op EXCEPT ![o] = r]
  BY DEF CommissionCall
<1> HIDE DEF r
<1>3. QED
  BY <1>1, <1>2 DEF TypeOK

\* of one that starts to remove a node,
LEMMA CalledToDecommission ==
    ASSUME TypeOK, NEW o \in Op, NEW n \in NodeId, NEW force \in BOOLEAN,
           DecommissionCall(o, n, force)
    PROVE  /\ op' \in [Op -> Request]
           /\ \A p \in Op \ {o} : op'[p] = op[p]
           /\ op'[o].kind = "decommission" /\ op'[o].node = n
           /\ \/ /\ op'[o].pc = "failed" /\ op'[o].matter = None
                 /\ leaving' = leaving
              \/ /\ row[n] # None /\ mapped[n] = None
                 /\ op'[o].pc = "dropping" /\ op'[o].matter = None
                 /\ leaving' = leaving
              \/ /\ row[n] # None /\ mapped[n] # None
                 /\ op'[o].pc = "removing" /\ op'[o].matter = mapped[n]
                 /\ leaving' = leaving \cup {n}
<1> DEFINE asked == [Idle EXCEPT !.kind = "decommission", !.node = n,
                                 !.force = force]
           r1 == [asked EXCEPT !.pc = "failed", !.force = FALSE]
           r2 == [asked EXCEPT !.pc = "dropping"]
           r3 == [asked EXCEPT !.pc = "removing", !.matter = mapped[n]]
<1>1. /\ r1 \in Request /\ r1.kind = "decommission" /\ r1.node = n
      /\ r1.pc = "failed" /\ r1.matter = None
  BY DEF Idle, Request, Phases
<1>2. /\ r2 \in Request /\ r2.kind = "decommission" /\ r2.node = n
      /\ r2.pc = "dropping" /\ r2.matter = None
  BY DEF Idle, Request, Phases
<1>3. /\ r3 \in Request /\ r3.kind = "decommission" /\ r3.node = n
      /\ r3.pc = "removing" /\ r3.matter = mapped[n]
  BY DEF TypeOK, Idle, Request, Phases
<1>4. \/ op' = [op EXCEPT ![o] = r1] /\ leaving' = leaving
      \/ /\ row[n] # None /\ mapped[n] = None
         /\ op' = [op EXCEPT ![o] = r2] /\ leaving' = leaving
      \/ /\ row[n] # None /\ mapped[n] # None
         /\ op' = [op EXCEPT ![o] = r3] /\ leaving' = leaving \cup {n}
  BY DEF DecommissionCall
<1> HIDE DEF r1, r2, r3
<1>5. QED
  BY <1>1, <1>2, <1>3, <1>4 DEF TypeOK

\* of one the SDK gave a peer,
LEMMA JoinedBySdk ==
    ASSUME TypeOK, NEW o \in Op, NEW m \in MatterId,
           op' = [op EXCEPT ![o] = [@ EXCEPT !.pc = "joined", !.matter = m]]
    PROVE  /\ op' \in [Op -> Request]
           /\ \A p \in Op \ {o} : op'[p] = op[p]
           /\ op'[o].pc = "joined" /\ op'[o].kind = op[o].kind
           /\ op'[o].node = op[o].node /\ op'[o].matter = m
           /\ op'[o].force = op[o].force
<1> DEFINE r == [op[o] EXCEPT !.pc = "joined", !.matter = m]
<1>1. /\ r \in Request /\ r.pc = "joined" /\ r.kind = op[o].kind
      /\ r.node = op[o].node /\ r.matter = m /\ r.force = op[o].force
  BY DEF TypeOK, Request, Phases
<1>2. op' = [op EXCEPT ![o] = r]
  OBVIOUS
<1> HIDE DEF r
<1>3. QED
  BY <1>1, <1>2 DEF TypeOK

\* and of one that minted a node.
LEMMA Registered ==
    ASSUME TypeOK, NEW o \in Op, NEW n \in NodeId,
           op' = [op EXCEPT ![o] = [@ EXCEPT !.pc = "registered", !.node = n]]
    PROVE  /\ op' \in [Op -> Request]
           /\ \A p \in Op \ {o} : op'[p] = op[p]
           /\ op'[o].pc = "registered" /\ op'[o].kind = op[o].kind
           /\ op'[o].node = n /\ op'[o].matter = op[o].matter
           /\ op'[o].force = op[o].force
<1> DEFINE r == [op[o] EXCEPT !.pc = "registered", !.node = n]
<1>1. /\ r \in Request /\ r.pc = "registered" /\ r.kind = op[o].kind
      /\ r.node = n /\ r.matter = op[o].matter /\ r.force = op[o].force
  BY DEF TypeOK, Request, Phases
<1>2. op' = [op EXCEPT ![o] = r]
  OBVIOUS
<1> HIDE DEF r
<1>3. QED
  BY <1>1, <1>2 DEF TypeOK

\* The fields of a request have their types.
LEMMA RequestFields ==
    ASSUME TypeOK, NEW o \in Op
    PROVE  /\ op[o].pc \in Phases /\ op[o].dev \in Device \cup {None}
           /\ op[o].kind \in {"none", "commission", "decommission"}
           /\ op[o].matter \in MatterId \cup {None}
           /\ op[o].node \in NodeId \cup {None} /\ op[o].force \in BOOLEAN
BY DEF TypeOK, Request
-----------------------------------------------------------------------------
(* The actions of a request *)

\* A call to commission.
LEMMA CommissionCallKeeps ==
    ASSUME IInv, NEW o \in Op, NEW d \in Device, CommissionCall(o, d)
    PROVE  IInv'
<1> USE DEF IInv, Requests
<1>1. /\ op' \in [Op -> Request]
      /\ \A p \in Op \ {o} : op'[p] = op[p]
      /\ op'[o].pc = "joining" /\ op'[o].kind = "commission"
      /\ op'[o].dev = d /\ op'[o].node = None /\ op'[o].matter = None
  BY CalledToCommission DEF CommissionCall, Phases
<1>2. UNCHANGED <<holds, peer, disk, online, assigned, row, mapped,
                minted, leaving, up>>
  BY DEF CommissionCall, stores
<1>3. /\ up
      /\ op[o].pc \in {"idle", "ok", "failed"}
  BY DEF CommissionCall, Resting
<1>4. TypeOK'
  BY <1>1, <1>2, <1>3, EventsTyped DEF CommissionCall, TypeOK
<1>5. NodesMinted'
  BY <1>1, <1>2, <1>3 DEF NodesMinted, Carries
<1>6. MattersAssigned'
  BY <1>1, <1>2, <1>3 DEF MattersAssigned
<1>7. \A p \in Op : RequestShape(p)'
  BY <1>1, <1>2, <1>3, NoneAssumption DEF RequestShape
<1>8. \A p \in Op : JoinedIsFresh(p)'
  BY <1>1, <1>2, <1>3, NoneAssumption, RequestFields
     DEF JoinedIsFresh, RequestShape
<1>9. \A p \in Op : OwnedIsPrivate(p)'
  BY <1>1, <1>2, <1>3 DEF OwnedIsPrivate, Owns, Carries
<1>10. \A p \in Op : RemovalTarget(p)'
  BY <1>1, <1>2, <1>3 DEF RemovalTarget
<1>11. MapAgrees'
  BY <1>1, <1>2, <1>3 DEF MapAgrees
<1>12. DownIsEmpty'
  BY <1>1, <1>2, <1>3 DEF DownIsEmpty
<1>13. Controllable'
  BY <1>1, <1>2, <1>3 DEF Controllable
<1>14. OneNodePerPeer'
  BY <1>1, <1>2, <1>3 DEF OneNodePerPeer
<1>15. FlagHasOwner'
  BY <1>1, <1>2, <1>3 DEF FlagHasOwner, TypeOK
<1>16. AnswersHold'
  BY <1>1, <1>2, <1>3 DEF AnswersHold
<1>17. QED
  BY <1>4, <1>5, <1>6, <1>7, <1>8, <1>9, <1>10, <1>11, <1>12, <1>13, <1>14,
    <1>15, <1>16

\* A call to decommission, in each of its three outcomes.
LEMMA DecommissionCallKeeps ==
    ASSUME IInv, NEW o \in Op, NEW n \in NodeId, NEW force \in BOOLEAN,
           DecommissionCall(o, n, force)
    PROVE  IInv'
<1> USE DEF IInv, Requests
<1>1. /\ op' \in [Op -> Request]
      /\ \A p \in Op \ {o} : op'[p] = op[p]
      /\ op'[o].kind = "decommission" /\ op'[o].node = n
      /\ \/ /\ op'[o].pc = "failed" /\ op'[o].matter = None
            /\ leaving' = leaving
         \/ /\ row[n] # None /\ mapped[n] = None
            /\ op'[o].pc = "dropping" /\ op'[o].matter = None
            /\ leaving' = leaving
         \/ /\ row[n] # None /\ mapped[n] # None
            /\ op'[o].pc = "removing" /\ op'[o].matter = mapped[n]
            /\ leaving' = leaving \cup {n}
  BY CalledToDecommission DEF DecommissionCall, Phases
<1>2. UNCHANGED <<holds, peer, disk, online, assigned, row, mapped,
                minted, up>>
  BY DEF DecommissionCall, stores
<1>3. /\ up
      /\ op[o].pc \in {"idle", "ok", "failed"}
  BY DEF DecommissionCall, Resting
<1>4. TypeOK'
  BY <1>1, <1>2, <1>3, EventsTyped DEF DecommissionCall, TypeOK
<1>5. NodesMinted'
  BY <1>1, <1>2, <1>3 DEF NodesMinted, Carries
<1>6. MattersAssigned'
  BY <1>1, <1>2, <1>3 DEF MattersAssigned
<1>7. \A p \in Op : RequestShape(p)'
  BY <1>1, <1>2, <1>3, NoneAssumption DEF RequestShape
<1>8. \A p \in Op : JoinedIsFresh(p)'
  BY <1>1, <1>2, <1>3, NoneAssumption, RequestFields
     DEF JoinedIsFresh, RequestShape
<1>9. \A p \in Op : OwnedIsPrivate(p)'
  BY <1>1, <1>2, <1>3 DEF OwnedIsPrivate, Owns, Carries
<1>10. \A p \in Op : RemovalTarget(p)'
  BY <1>1, <1>2, <1>3 DEF RemovalTarget, MapAgrees
<1>11. MapAgrees'
  BY <1>1, <1>2, <1>3 DEF MapAgrees
<1>12. DownIsEmpty'
  BY <1>1, <1>2, <1>3 DEF DownIsEmpty
<1>13. Controllable'
  BY <1>1, <1>2, <1>3 DEF Controllable
<1>14. OneNodePerPeer'
  BY <1>1, <1>2, <1>3 DEF OneNodePerPeer
<1>15. FlagHasOwner'
  BY <1>1, <1>2, <1>3 DEF FlagHasOwner, TypeOK
<1>16. AnswersHold'
  BY <1>1, <1>2, <1>3 DEF AnswersHold
<1>17. QED
  BY <1>4, <1>5, <1>6, <1>7, <1>8, <1>9, <1>10, <1>11, <1>12, <1>13, <1>14,
    <1>15, <1>16

\* The device joins: the peer's id is fresh.
LEMMA SdkJoinedKeeps ==
    ASSUME IInv, NEW o \in Op, SdkJoined(o)
    PROVE  IInv'
<1> USE DEF IInv, Requests
<1>0. PICK m \in MatterId \ assigned :
            /\ assigned' = assigned \cup {m}
            /\ holds' = [holds EXCEPT ![op[o].dev] = m]
            /\ WritePeers([peer EXCEPT ![m] = op[o].dev])
            /\ online' = online \cup {m}
            /\ op' = [op EXCEPT ![o] = [@ EXCEPT !.pc = "joined",
                                                !.matter = m]]
  BY DEF SdkJoined
<1>1. /\ op' \in [Op -> Request]
      /\ \A p \in Op \ {o} : op'[p] = op[p]
      /\ op'[o].pc = "joined" /\ op'[o].kind = op[o].kind
      /\ op'[o].node = op[o].node /\ op'[o].matter = m
  BY <1>0, JoinedBySdk
<1>2. UNCHANGED <<row, mapped, minted, leaving, up>>
  BY DEF SdkJoined
<1>3. /\ up
      /\ op[o].pc = "joining" /\ op[o].kind = "commission"
      /\ op[o].node = None
      /\ assigned' = assigned \cup {m}
      /\ \A k \in MatterId \ {m} : peer'[k] = peer[k]
      /\ disk' = disk \/ disk' = peer'
  BY <1>0 DEF SdkJoined, At, RequestShape, WritePeers, TypeOK
<1>4. TypeOK'
  BY <1>1, <1>2, <1>3, EventsTyped, <1>0, RequestFields
     DEF SdkJoined, TypeOK, WritePeers, RequestShape
<1>5. NodesMinted'
  BY <1>1, <1>2, <1>3 DEF NodesMinted, Carries
<1>6. MattersAssigned'
  BY <1>1, <1>2, <1>3 DEF MattersAssigned
<1>7. \A p \in Op : RequestShape(p)'
  BY <1>1, <1>2, <1>3, NoneAssumption DEF RequestShape
<1>8. \A p \in Op : JoinedIsFresh(p)'
  BY <1>1, <1>2, <1>3, NoneAssumption, RequestFields, <1>0
     DEF JoinedIsFresh, RequestShape, MattersAssigned
<1>9. \A p \in Op : OwnedIsPrivate(p)'
  BY <1>1, <1>2, <1>3 DEF OwnedIsPrivate, Owns, Carries
<1>10. \A p \in Op : RemovalTarget(p)'
  BY <1>1, <1>2, <1>3, RequestFields
     DEF RemovalTarget, MattersAssigned, RequestShape
<1>11. MapAgrees'
  BY <1>1, <1>2, <1>3 DEF MapAgrees
<1>12. DownIsEmpty'
  BY <1>1, <1>2, <1>3 DEF DownIsEmpty
<1>13. Controllable'
  BY <1>1, <1>2, <1>3 DEF Controllable, MattersAssigned, TypeOK
<1>14. OneNodePerPeer'
  BY <1>1, <1>2, <1>3 DEF OneNodePerPeer
<1>15. FlagHasOwner'
  BY <1>1, <1>2, <1>3 DEF FlagHasOwner, TypeOK
<1>16. AnswersHold'
  BY <1>1, <1>2, <1>3 DEF AnswersHold
<1>17. QED
  BY <1>4, <1>5, <1>6, <1>7, <1>8, <1>9, <1>10, <1>11, <1>12, <1>13, <1>14,
    <1>15, <1>16

\* The device does not join.
LEMMA SdkRefusedKeeps ==
    ASSUME IInv, NEW o \in Op, SdkRefused(o)
    PROVE  IInv'
<1> USE DEF IInv, Requests
<1>1. /\ op' \in [Op -> Request]
      /\ \A p \in Op \ {o} : op'[p] = op[p]
      /\ op'[o].pc = "failed" /\ op'[o].kind = op[o].kind
      /\ op'[o].node = op[o].node /\ op'[o].matter = None
  BY AnswerFields DEF SdkRefused, Phases
<1>2. UNCHANGED <<holds, peer, disk, online, assigned, row, mapped,
                minted, leaving, up>>
  BY DEF SdkRefused, stores
<1>3. /\ up
      /\ op[o].pc = "joining" /\ op[o].node = None
  BY DEF SdkRefused, At, RequestShape
<1>4. TypeOK'
  BY <1>1, <1>2, <1>3, EventsTyped DEF SdkRefused, TypeOK
<1>5. NodesMinted'
  BY <1>1, <1>2, <1>3 DEF NodesMinted, Carries
<1>6. MattersAssigned'
  BY <1>1, <1>2, <1>3 DEF MattersAssigned
<1>7. \A p \in Op : RequestShape(p)'
  BY <1>1, <1>2, <1>3 DEF RequestShape
<1>8. \A p \in Op : JoinedIsFresh(p)'
  BY <1>1, <1>2, <1>3, NoneAssumption, RequestFields
     DEF JoinedIsFresh, RequestShape
<1>9. \A p \in Op : OwnedIsPrivate(p)'
  BY <1>1, <1>2, <1>3 DEF OwnedIsPrivate, Owns, Carries
<1>10. \A p \in Op : RemovalTarget(p)'
  BY <1>1, <1>2, <1>3 DEF RemovalTarget
<1>11. MapAgrees'
  BY <1>1, <1>2, <1>3 DEF MapAgrees
<1>12. DownIsEmpty'
  BY <1>1, <1>2, <1>3 DEF DownIsEmpty
<1>13. Controllable'
  BY <1>1, <1>2, <1>3 DEF Controllable
<1>14. OneNodePerPeer'
  BY <1>1, <1>2, <1>3 DEF OneNodePerPeer
<1>15. FlagHasOwner'
  BY <1>1, <1>2, <1>3 DEF FlagHasOwner, TypeOK
<1>16. AnswersHold'
  BY <1>1, <1>2, <1>3 DEF AnswersHold
<1>17. QED
  BY <1>4, <1>5, <1>6, <1>7, <1>8, <1>9, <1>10, <1>11, <1>12, <1>13, <1>14,
    <1>15, <1>16

\* A joined node is registered under a fresh id.
LEMMA RegisterKeeps ==
    ASSUME IInv, NEW o \in Op, Register(o)
    PROVE  IInv'
<1> USE DEF IInv, Requests
<1>0. PICK n \in NodeId \ minted :
            /\ minted' = minted \cup {n}
            /\ mapped' = [mapped EXCEPT ![n] = op[o].matter]
            /\ op' = [op EXCEPT ![o] = [@ EXCEPT !.pc = "registered",
                                                !.node = n]]
  BY DEF Register
<1>1. /\ op' \in [Op -> Request]
      /\ \A p \in Op \ {o} : op'[p] = op[p]
      /\ op'[o].pc = "registered" /\ op'[o].kind = op[o].kind
      /\ op'[o].node = n /\ op'[o].matter = op[o].matter
  BY <1>0, Registered
<1>2. UNCHANGED <<holds, peer, disk, online, assigned, row, leaving, up>>
  BY DEF Register, stores
<1>3. /\ up
      /\ op[o].pc = "joined" /\ op[o].kind = "commission"
      /\ op[o].matter \in MatterId
      /\ minted' = minted \cup {n}
      /\ mapped'[n] = op[o].matter
      /\ \A k \in NodeId \ {n} : mapped'[k] = mapped[k]
      /\ mapped[n] = None /\ row[n] = None
  BY <1>0, RequestFields DEF Register, At, RequestShape, TypeOK, NodesMinted
<1>4. TypeOK'
  BY <1>1, <1>2, <1>3, EventsTyped, <1>0 DEF Register, TypeOK
<1>5. NodesMinted'
  BY <1>1, <1>2, <1>3 DEF NodesMinted, Carries
<1>6. MattersAssigned'
  BY <1>1, <1>2, <1>3, NoneAssumption DEF MattersAssigned
<1>7. \A p \in Op : RequestShape(p)'
  BY <1>1, <1>2, <1>3, NoneAssumption DEF RequestShape
<1>8. \A p \in Op : JoinedIsFresh(p)'
  BY <1>1, <1>2, <1>3, NoneAssumption, RequestFields
     DEF JoinedIsFresh, RequestShape
<1>9. \A p \in Op : OwnedIsPrivate(p)'
  BY <1>1, <1>2, <1>3, RequestFields
     DEF OwnedIsPrivate, Owns, Carries, NodesMinted, RequestShape
<1>10. \A p \in Op : RemovalTarget(p)'
  BY <1>1, <1>2, <1>3, RequestFields
     DEF RemovalTarget, NodesMinted, Carries, RequestShape
<1>11. MapAgrees'
  BY <1>1, <1>2, <1>3 DEF MapAgrees
<1>12. DownIsEmpty'
  BY <1>1, <1>2, <1>3 DEF DownIsEmpty
<1>13. Controllable'
  BY <1>1, <1>2, <1>3 DEF Controllable
<1>14. OneNodePerPeer'
  BY <1>1, <1>2, <1>3 DEF OneNodePerPeer, JoinedIsFresh
<1>15. FlagHasOwner'
  BY <1>1, <1>2, <1>3 DEF FlagHasOwner, TypeOK
<1>16. AnswersHold'
  BY <1>1, <1>2, <1>3 DEF AnswersHold
<1>17. QED
  BY <1>4, <1>5, <1>6, <1>7, <1>8, <1>9, <1>10, <1>11, <1>12, <1>13, <1>14,
    <1>15, <1>16

\* A joined node cannot be registered.
LEMMA RegisterFailsKeeps ==
    ASSUME IInv, NEW o \in Op, RegisterFails(o)
    PROVE  IInv'
<1> USE DEF IInv, Requests
<1>0. PICK n \in NodeId \ minted :
            /\ minted' = minted \cup {n}
            /\ mapped' \in {mapped, [mapped EXCEPT ![n] = op[o].matter]}
  BY DEF RegisterFails
<1>1. /\ op' \in [Op -> Request]
      /\ \A p \in Op \ {o} : op'[p] = op[p]
      /\ op'[o].pc = "failed" /\ op'[o].kind = op[o].kind
      /\ op'[o].node = op[o].node /\ op'[o].matter = None
  BY <1>0, AnswerFields DEF RegisterFails, Phases
<1>2. UNCHANGED <<holds, peer, disk, online, assigned, row, leaving, up>>
  BY DEF RegisterFails, stores
<1>3. /\ up
      /\ op[o].pc = "joined" /\ op[o].node = None
      /\ op[o].matter \in MatterId
      /\ minted' = minted \cup {n}
      /\ mapped'[n] \in {None, op[o].matter}
      /\ \A k \in NodeId \ {n} : mapped'[k] = mapped[k]
      /\ mapped[n] = None /\ row[n] = None
  BY <1>0, RequestFields
     DEF RegisterFails, At, RequestShape, TypeOK, NodesMinted
<1>4. TypeOK'
  BY <1>1, <1>2, <1>3, EventsTyped, <1>0 DEF RegisterFails, TypeOK
<1>5. NodesMinted'
  BY <1>1, <1>2, <1>3 DEF NodesMinted, Carries
<1>6. MattersAssigned'
  BY <1>1, <1>2, <1>3 DEF MattersAssigned, RequestShape
<1>7. \A p \in Op : RequestShape(p)'
  BY <1>1, <1>2, <1>3 DEF RequestShape
<1>8. \A p \in Op : JoinedIsFresh(p)'
  BY <1>1, <1>2, <1>3, NoneAssumption, RequestFields
     DEF JoinedIsFresh, RequestShape
<1>9. \A p \in Op : OwnedIsPrivate(p)'
  BY <1>1, <1>2, <1>3, RequestFields
     DEF OwnedIsPrivate, Owns, Carries, NodesMinted, RequestShape
<1>10. \A p \in Op : RemovalTarget(p)'
  BY <1>1, <1>2, <1>3, RequestFields
     DEF RemovalTarget, NodesMinted, Carries, RequestShape
<1>11. MapAgrees'
  BY <1>1, <1>2, <1>3 DEF MapAgrees
<1>12. DownIsEmpty'
  BY <1>1, <1>2, <1>3 DEF DownIsEmpty
<1>13. Controllable'
  BY <1>1, <1>2, <1>3 DEF Controllable
<1>14. OneNodePerPeer'
  BY <1>1, <1>2, <1>3 DEF OneNodePerPeer, JoinedIsFresh
<1>15. FlagHasOwner'
  BY <1>1, <1>2, <1>3 DEF FlagHasOwner, TypeOK
<1>16. AnswersHold'
  BY <1>1, <1>2, <1>3 DEF AnswersHold
<1>17. QED
  BY <1>4, <1>5, <1>6, <1>7, <1>8, <1>9, <1>10, <1>11, <1>12, <1>13, <1>14,
    <1>15, <1>16

\* The transaction commits.
LEMMA PersistKeeps ==
    ASSUME IInv, NEW o \in Op, Persist(o)
    PROVE  IInv'
<1> USE DEF IInv, Requests
<1>1. /\ op' \in [Op -> Request]
      /\ \A p \in Op \ {o} : op'[p] = op[p]
      /\ op'[o].pc = "ok" /\ op'[o].kind = op[o].kind
      /\ op'[o].node = op[o].node /\ op'[o].matter = None
  BY AnswerFields DEF Persist, Phases
<1>2. UNCHANGED <<holds, peer, disk, online, assigned, mapped, minted,
                leaving, up>>
  BY DEF Persist, stores
<1>3. /\ up
      /\ op[o].pc = "registered" /\ op[o].kind = "commission"
      /\ op[o].node \in NodeId /\ op[o].matter \in MatterId
      /\ row'[op[o].node] = op[o].matter
      /\ \A k \in NodeId \ {op[o].node} : row'[k] = row[k]
      /\ \A k \in NodeId : row[k] # op[o].matter
      /\ mapped[op[o].node] = op[o].matter
      /\ \A p \in Op \ {o} : op[p].node = op[o].node => ~Carries(p)
  BY RequestFields
     DEF Persist, At, RequestShape, Insertable, TypeOK, OwnedIsPrivate,
        Owns
<1>4. emit' \in Event
  BY <1>3, EventsTyped DEF Persist, Reachable
<1>5. TypeOK'
  BY <1>1, <1>2, <1>3, EventsTyped, <1>4 DEF Persist, TypeOK, Reachable
<1>6. NodesMinted'
  BY <1>1, <1>2, <1>3, NoneAssumption DEF NodesMinted, Carries, RequestShape
<1>7. MattersAssigned'
  BY <1>1, <1>2, <1>3 DEF MattersAssigned
<1>8. \A p \in Op : RequestShape(p)'
  BY <1>1, <1>2, <1>3 DEF RequestShape
<1>9. \A p \in Op : JoinedIsFresh(p)'
  BY <1>1, <1>2, <1>3, NoneAssumption, RequestFields
     DEF JoinedIsFresh, RequestShape
<1>10. \A p \in Op : OwnedIsPrivate(p)'
  BY <1>1, <1>2, <1>3, RequestFields
     DEF OwnedIsPrivate, Owns, Carries, RequestShape
<1>11. \A p \in Op : RemovalTarget(p)'
  BY <1>1, <1>2, <1>3, RequestFields
     DEF RemovalTarget, Carries, RequestShape
<1>12. MapAgrees'
  BY <1>1, <1>2, <1>3 DEF MapAgrees
<1>13. DownIsEmpty'
  BY <1>1, <1>2, <1>3 DEF DownIsEmpty
<1>14. Controllable'
  BY <1>1, <1>2, <1>3 DEF Controllable
<1>15. OneNodePerPeer'
  BY <1>1, <1>2, <1>3 DEF OneNodePerPeer
<1>16. FlagHasOwner'
  BY <1>1, <1>2, <1>3 DEF FlagHasOwner, TypeOK
<1>17. AnswersHold'
  BY <1>1, <1>2, <1>3, RequestFields DEF AnswersHold, Carries, RequestShape
<1>18. QED
  BY <1>5, <1>6, <1>7, <1>8, <1>9, <1>10, <1>11, <1>12, <1>13, <1>14, <1>15,
    <1>16, <1>17

\* The transaction fails and the undo begins.
LEMMA PersistFailsKeeps ==
    ASSUME IInv, NEW o \in Op, PersistFails(o)
    PROVE  IInv'
<1> USE DEF IInv, Requests
<1>1. /\ op' \in [Op -> Request]
      /\ \A p \in Op \ {o} : op'[p] = op[p]
      /\ op'[o].kind = op[o].kind /\ op'[o].node = op[o].node
      /\ \/ /\ op'[o].pc = "failed" /\ op'[o].matter = None
            /\ leaving' = leaving
         \/ /\ op'[o].pc = "removing" /\ op'[o].matter = op[o].matter
            /\ leaving' = leaving \cup {op[o].node}
  BY AnswerFields, Moved DEF PersistFails, Undo, Phases
<1>2. UNCHANGED <<holds, peer, disk, online, assigned, row, mapped,
                minted, up>>
  BY DEF PersistFails, stores
<1>3. /\ up
      /\ op[o].pc = "registered" /\ op[o].kind = "commission"
      /\ op[o].node \in NodeId /\ op[o].matter \in MatterId
  BY RequestFields DEF PersistFails, At, RequestShape
<1>4. TypeOK'
  BY <1>1, <1>2, <1>3, EventsTyped DEF PersistFails, TypeOK
<1>5. NodesMinted'
  BY <1>1, <1>2, <1>3 DEF NodesMinted, Carries
<1>6. MattersAssigned'
  BY <1>1, <1>2, <1>3 DEF MattersAssigned
<1>7. \A p \in Op : RequestShape(p)'
  BY <1>1, <1>2, <1>3 DEF RequestShape
<1>8. \A p \in Op : JoinedIsFresh(p)'
  BY <1>1, <1>2, <1>3, NoneAssumption, RequestFields
     DEF JoinedIsFresh, RequestShape
<1>9. \A p \in Op : OwnedIsPrivate(p)'
  BY <1>1, <1>2, <1>3 DEF OwnedIsPrivate, Owns, Carries
<1>10. \A p \in Op : RemovalTarget(p)'
  BY <1>1, <1>2, <1>3 DEF RemovalTarget, OwnedIsPrivate, Owns
<1>11. MapAgrees'
  BY <1>1, <1>2, <1>3 DEF MapAgrees
<1>12. DownIsEmpty'
  BY <1>1, <1>2, <1>3 DEF DownIsEmpty
<1>13. Controllable'
  BY <1>1, <1>2, <1>3 DEF Controllable
<1>14. OneNodePerPeer'
  BY <1>1, <1>2, <1>3 DEF OneNodePerPeer
<1>15. FlagHasOwner'
  BY <1>1, <1>2, <1>3 DEF FlagHasOwner, TypeOK
<1>16. AnswersHold'
  BY <1>1, <1>2, <1>3 DEF AnswersHold, OwnedIsPrivate, Owns
<1>17. QED
  BY <1>4, <1>5, <1>6, <1>7, <1>8, <1>9, <1>10, <1>11, <1>12, <1>13, <1>14,
    <1>15, <1>16

\* The SDK forgets the peer.
LEMMA SdkRemovedKeeps ==
    ASSUME IInv, NEW o \in Op, SdkRemoved(o)
    PROVE  IInv'
<1> USE DEF IInv, Requests
<1>1. /\ op' \in [Op -> Request]
      /\ \A p \in Op \ {o} : op'[p] = op[p]
      /\ op'[o].pc = "removed" /\ op'[o].kind = op[o].kind
      /\ op'[o].node = op[o].node /\ op'[o].matter = op[o].matter
  BY Moved DEF SdkRemoved, Phases
<1>2. UNCHANGED <<assigned, row, mapped, minted, leaving, up>>
  BY DEF SdkRemoved
<1>3. /\ up
      /\ op[o].pc = "removing"
      /\ op[o].matter \in MatterId
      /\ peer'[op[o].matter] = None
      /\ \A k \in MatterId \ {op[o].matter} : peer'[k] = peer[k]
      /\ disk' = disk \/ disk' = peer'
  BY RequestFields DEF SdkRemoved, At, RequestShape, WritePeers, TypeOK
<1>4. emit' \in Event
  BY EventsTyped, SessionEventsTyped DEF SdkRemoved
<1>5. TypeOK'
  BY <1>1, <1>2, <1>3, EventsTyped, <1>4
     DEF SdkRemoved, TypeOK, WritePeers, Answers
<1>6. NodesMinted'
  BY <1>1, <1>2, <1>3 DEF NodesMinted, Carries
<1>7. MattersAssigned'
  BY <1>1, <1>2, <1>3 DEF MattersAssigned
<1>8. \A p \in Op : RequestShape(p)'
  BY <1>1, <1>2, <1>3 DEF RequestShape
<1>9. \A p \in Op : JoinedIsFresh(p)'
  BY <1>1, <1>2, <1>3, NoneAssumption, RequestFields
     DEF JoinedIsFresh, RequestShape
<1>10. \A p \in Op : OwnedIsPrivate(p)'
  BY <1>1, <1>2, <1>3 DEF OwnedIsPrivate, Owns, Carries
<1>11. \A p \in Op : RemovalTarget(p)'
  BY <1>1, <1>2, <1>3, RequestFields DEF RemovalTarget, RequestShape, TypeOK
<1>12. MapAgrees'
  BY <1>1, <1>2, <1>3 DEF MapAgrees
<1>13. DownIsEmpty'
  BY <1>1, <1>2, <1>3 DEF DownIsEmpty
<1>14. Controllable'
  BY <1>1, <1>2, <1>3 DEF Controllable, TypeOK
<1>15. OneNodePerPeer'
  BY <1>1, <1>2, <1>3 DEF OneNodePerPeer
<1>16. FlagHasOwner'
  BY <1>1, <1>2, <1>3 DEF FlagHasOwner, TypeOK
<1>17. AnswersHold'
  BY <1>1, <1>2, <1>3 DEF AnswersHold
<1>18. QED
  BY <1>5, <1>6, <1>7, <1>8, <1>9, <1>10, <1>11, <1>12, <1>13, <1>14, <1>15,
    <1>16, <1>17

\* The removal fails.
LEMMA RemovalRefusedKeeps ==
    ASSUME IInv, NEW o \in Op, RemovalRefused(o)
    PROVE  IInv'
<1> USE DEF IInv, Requests
<1>1. /\ op' \in [Op -> Request]
      /\ \A p \in Op \ {o} : op'[p] = op[p]
      /\ op'[o].pc = "failed" /\ op'[o].kind = op[o].kind
      /\ op'[o].node = op[o].node /\ op'[o].matter = None
  BY AnswerFields DEF RemovalRefused, Refused, Phases
<1>2. UNCHANGED <<holds, peer, disk, online, assigned, row, mapped,
                minted, up>>
  BY DEF RemovalRefused, stores
<1>3. /\ up
      /\ op[o].pc = "removing"
      /\ op[o].node \in NodeId
      /\ leaving' = leaving \ {op[o].node}
  BY RequestFields DEF RemovalRefused, At, RequestShape, Unflag
<1>4. TypeOK'
  BY <1>1, <1>2, <1>3, EventsTyped DEF RemovalRefused, TypeOK
<1>5. NodesMinted'
  BY <1>1, <1>2, <1>3 DEF NodesMinted, Carries
<1>6. MattersAssigned'
  BY <1>1, <1>2, <1>3 DEF MattersAssigned
<1>7. \A p \in Op : RequestShape(p)'
  BY <1>1, <1>2, <1>3 DEF RequestShape
<1>8. \A p \in Op : JoinedIsFresh(p)'
  BY <1>1, <1>2, <1>3, NoneAssumption, RequestFields
     DEF JoinedIsFresh, RequestShape
<1>9. \A p \in Op : OwnedIsPrivate(p)'
  BY <1>1, <1>2, <1>3 DEF OwnedIsPrivate, Owns, Carries
<1>10. \A p \in Op : RemovalTarget(p)'
  BY <1>1, <1>2, <1>3 DEF RemovalTarget
<1>11. MapAgrees'
  BY <1>1, <1>2, <1>3 DEF MapAgrees
<1>12. DownIsEmpty'
  BY <1>1, <1>2, <1>3 DEF DownIsEmpty
<1>13. Controllable'
  BY <1>1, <1>2, <1>3 DEF Controllable
<1>14. OneNodePerPeer'
  BY <1>1, <1>2, <1>3 DEF OneNodePerPeer
<1>15. FlagHasOwner'
  BY <1>1, <1>2, <1>3 DEF FlagHasOwner, TypeOK
<1>16. AnswersHold'
  BY <1>1, <1>2, <1>3 DEF AnswersHold, OwnedIsPrivate, Owns
<1>17. QED
  BY <1>4, <1>5, <1>6, <1>7, <1>8, <1>9, <1>10, <1>11, <1>12, <1>13, <1>14,
    <1>15, <1>16

\* The map follows the SDK.
LEMMA SettleKeeps ==
    ASSUME IInv, NEW o \in Op, Settle(o)
    PROVE  IInv'
<1> USE DEF IInv, Requests
<1>1. /\ op' \in [Op -> Request]
      /\ \A p \in Op \ {o} : op'[p] = op[p]
      /\ op'[o].kind = op[o].kind /\ op'[o].node = op[o].node
      /\ \/ /\ op'[o].pc = "failed" /\ op'[o].matter = None
            /\ op[o].kind = "commission"
         \/ /\ op'[o].pc = "dropping" /\ op'[o].matter = op[o].matter
            /\ op[o].kind # "commission"
  BY AnswerFields, Moved DEF Settle, Phases
<1>2. UNCHANGED <<holds, peer, disk, online, assigned, row, minted, up>>
  BY DEF Settle, stores
<1>3. /\ up
      /\ op[o].pc = "removed"
      /\ op[o].node \in NodeId
      /\ leaving' = leaving \ {op[o].node}
      /\ mapped'[op[o].node] = None
      /\ \A k \in NodeId \ {op[o].node} : mapped'[k] = mapped[k]
  BY RequestFields DEF Settle, At, RequestShape, Unflag, TypeOK
<1>4. TypeOK'
  BY <1>1, <1>2, <1>3, EventsTyped DEF Settle, TypeOK
<1>5. NodesMinted'
  BY <1>1, <1>2, <1>3 DEF NodesMinted, Carries, TypeOK
<1>6. MattersAssigned'
  BY <1>1, <1>2, <1>3 DEF MattersAssigned
<1>7. \A p \in Op : RequestShape(p)'
  BY <1>1, <1>2, <1>3 DEF RequestShape
<1>8. \A p \in Op : JoinedIsFresh(p)'
  BY <1>1, <1>2, <1>3, NoneAssumption, RequestFields
     DEF JoinedIsFresh, RequestShape
<1>9. \A p \in Op : OwnedIsPrivate(p)'
  BY <1>1, <1>2, <1>3, RequestFields
     DEF OwnedIsPrivate, Owns, Carries, RequestShape
<1>10. \A p \in Op : RemovalTarget(p)'
  BY <1>1, <1>2, <1>3, RequestFields DEF RemovalTarget, RequestShape
<1>11. MapAgrees'
  BY <1>1, <1>2, <1>3 DEF MapAgrees
<1>12. DownIsEmpty'
  BY <1>1, <1>2, <1>3 DEF DownIsEmpty
<1>13. Controllable'
  BY <1>1, <1>2, <1>3, RequestFields DEF Controllable, RemovalTarget
<1>14. OneNodePerPeer'
  BY <1>1, <1>2, <1>3 DEF OneNodePerPeer
<1>15. FlagHasOwner'
  BY <1>1, <1>2, <1>3 DEF FlagHasOwner, TypeOK
<1>16. AnswersHold'
  BY <1>1, <1>2, <1>3 DEF AnswersHold, OwnedIsPrivate, Owns
<1>17. QED
  BY <1>4, <1>5, <1>6, <1>7, <1>8, <1>9, <1>10, <1>11, <1>12, <1>13, <1>14,
    <1>15, <1>16

\* The row is deleted.
LEMMA DropKeeps ==
    ASSUME IInv, NEW o \in Op, Drop(o)
    PROVE  IInv'
<1> USE DEF IInv, Requests
<1>1. /\ op' \in [Op -> Request]
      /\ \A p \in Op \ {o} : op'[p] = op[p]
      /\ op'[o].pc = "ok" /\ op'[o].kind = op[o].kind
      /\ op'[o].node = op[o].node /\ op'[o].matter = None
  BY AnswerFields DEF Drop, Phases
<1>2. UNCHANGED <<holds, peer, disk, online, assigned, mapped, minted,
                leaving, up>>
  BY DEF Drop, stores
<1>3. /\ up
      /\ op[o].pc = "dropping" /\ op[o].kind = "decommission"
      /\ op[o].node \in NodeId
      /\ row'[op[o].node] = None
      /\ \A k \in NodeId \ {op[o].node} : row'[k] = row[k]
  BY RequestFields DEF Drop, At, RequestShape, TypeOK
<1>4. TypeOK'
  BY <1>1, <1>2, <1>3, EventsTyped DEF Drop, TypeOK
<1>5. NodesMinted'
  BY <1>1, <1>2, <1>3 DEF NodesMinted, Carries
<1>6. MattersAssigned'
  BY <1>1, <1>2, <1>3 DEF MattersAssigned
<1>7. \A p \in Op : RequestShape(p)'
  BY <1>1, <1>2, <1>3 DEF RequestShape
<1>8. \A p \in Op : JoinedIsFresh(p)'
  BY <1>1, <1>2, <1>3, NoneAssumption, RequestFields
     DEF JoinedIsFresh, RequestShape
<1>9. \A p \in Op : OwnedIsPrivate(p)'
  BY <1>1, <1>2, <1>3, RequestFields
     DEF OwnedIsPrivate, Owns, Carries, RequestShape
<1>10. \A p \in Op : RemovalTarget(p)'
  BY <1>1, <1>2, <1>3, RequestFields DEF RemovalTarget, RequestShape
<1>11. MapAgrees'
  BY <1>1, <1>2, <1>3 DEF MapAgrees
<1>12. DownIsEmpty'
  BY <1>1, <1>2, <1>3 DEF DownIsEmpty
<1>13. Controllable'
  BY <1>1, <1>2, <1>3 DEF Controllable
<1>14. OneNodePerPeer'
  BY <1>1, <1>2, <1>3 DEF OneNodePerPeer
<1>15. FlagHasOwner'
  BY <1>1, <1>2, <1>3 DEF FlagHasOwner, TypeOK
<1>16. AnswersHold'
  BY <1>1, <1>2, <1>3, RequestFields DEF AnswersHold, RequestShape
<1>17. QED
  BY <1>4, <1>5, <1>6, <1>7, <1>8, <1>9, <1>10, <1>11, <1>12, <1>13, <1>14,
    <1>15, <1>16

\* The row is not deleted.
LEMMA DropFailsKeeps ==
    ASSUME IInv, NEW o \in Op, DropFails(o)
    PROVE  IInv'
<1> USE DEF IInv, Requests
<1>1. /\ op' \in [Op -> Request]
      /\ \A p \in Op \ {o} : op'[p] = op[p]
      /\ op'[o].pc = "failed" /\ op'[o].kind = op[o].kind
      /\ op'[o].node = op[o].node /\ op'[o].matter = None
  BY AnswerFields DEF DropFails, Phases
<1>2. UNCHANGED <<holds, peer, disk, online, assigned, row, mapped,
                minted, leaving, up>>
  BY DEF DropFails, stores
<1>3. /\ up
      /\ op[o].pc = "dropping" /\ op[o].kind = "decommission"
  BY DEF DropFails, At, RequestShape
<1>4. TypeOK'
  BY <1>1, <1>2, <1>3, EventsTyped DEF DropFails, TypeOK
<1>5. NodesMinted'
  BY <1>1, <1>2, <1>3 DEF NodesMinted, Carries
<1>6. MattersAssigned'
  BY <1>1, <1>2, <1>3 DEF MattersAssigned
<1>7. \A p \in Op : RequestShape(p)'
  BY <1>1, <1>2, <1>3 DEF RequestShape
<1>8. \A p \in Op : JoinedIsFresh(p)'
  BY <1>1, <1>2, <1>3, NoneAssumption, RequestFields
     DEF JoinedIsFresh, RequestShape
<1>9. \A p \in Op : OwnedIsPrivate(p)'
  BY <1>1, <1>2, <1>3 DEF OwnedIsPrivate, Owns, Carries
<1>10. \A p \in Op : RemovalTarget(p)'
  BY <1>1, <1>2, <1>3 DEF RemovalTarget
<1>11. MapAgrees'
  BY <1>1, <1>2, <1>3 DEF MapAgrees
<1>12. DownIsEmpty'
  BY <1>1, <1>2, <1>3 DEF DownIsEmpty
<1>13. Controllable'
  BY <1>1, <1>2, <1>3 DEF Controllable
<1>14. OneNodePerPeer'
  BY <1>1, <1>2, <1>3 DEF OneNodePerPeer
<1>15. FlagHasOwner'
  BY <1>1, <1>2, <1>3 DEF FlagHasOwner, TypeOK
<1>16. AnswersHold'
  BY <1>1, <1>2, <1>3 DEF AnswersHold
<1>17. QED
  BY <1>4, <1>5, <1>6, <1>7, <1>8, <1>9, <1>10, <1>11, <1>12, <1>13, <1>14,
    <1>15, <1>16

-----------------------------------------------------------------------------
(* Everything else *)

\* The invariant holds at the start.
LEMMA InitIInv == Init => IInv
<1> SUFFICES ASSUME Init PROVE IInv
  OBVIOUS
<1>1. /\ \A o \in Op : op[o] = Idle
      /\ Idle \in Request /\ Idle.pc = "idle" /\ Idle.kind = "none"
      /\ Idle.node = None /\ Idle.matter = None
  BY DEF Init, Idle, Request, Phases
<1>2. TypeOK
  BY <1>1, EventsTyped DEF Init, TypeOK
<1>3. NodesMinted /\ MattersAssigned
  BY <1>1 DEF Init, NodesMinted, MattersAssigned, Carries
<1>4. Requests
  BY <1>1 DEF Requests, RequestShape, JoinedIsFresh, OwnedIsPrivate, Owns,
              RemovalTarget
<1>5. MapAgrees /\ DownIsEmpty /\ Controllable /\ OneNodePerPeer
  BY <1>1 DEF Init, MapAgrees, DownIsEmpty, Controllable, OneNodePerPeer
<1>6. FlagHasOwner /\ AnswersHold
  BY <1>1 DEF Init, FlagHasOwner, AnswersHold
<1>7. QED
  BY <1>2, <1>3, <1>4, <1>5, <1>6 DEF IInv

\* Sessions and factory resets touch nothing the invariant relates.
LEMMA DevicesKeep ==
    ASSUME IInv,
           \/ \E m \in MatterId : GoOnline(m) \/ GoOffline(m)
           \/ \E d \in Device : FactoryReset(d)
    PROVE  IInv'
<1> USE DEF IInv, Requests
<1>1. UNCHANGED <<peer, disk, assigned, row, mapped, minted, leaving, op, up>>
  BY DEF GoOnline, GoOffline, FactoryReset, stores
<1>2. /\ holds' \in [Device -> MatterId \cup {None}]
      /\ online' \in SUBSET MatterId
      /\ emit' \in Event
  BY EventsTyped, SessionEventsTyped
     DEF GoOnline, GoOffline, FactoryReset, TypeOK, stores
<1>3. TypeOK'
  BY <1>1, <1>2 DEF TypeOK
<1>4. NodesMinted' /\ MattersAssigned' /\ MapAgrees'
  BY <1>1 DEF NodesMinted, MattersAssigned, MapAgrees, Carries
<1>5. \A p \in Op : /\ RequestShape(p)' /\ JoinedIsFresh(p)'
                    /\ OwnedIsPrivate(p)' /\ RemovalTarget(p)'
  BY <1>1 DEF RequestShape, JoinedIsFresh, OwnedIsPrivate, Owns, Carries,
              RemovalTarget
<1>6. DownIsEmpty' /\ Controllable' /\ OneNodePerPeer'
  BY <1>1 DEF DownIsEmpty, Controllable, OneNodePerPeer
<1>7. FlagHasOwner' /\ AnswersHold'
  BY <1>1 DEF FlagHasOwner, AnswersHold
<1>8. QED
  BY <1>3, <1>4, <1>5, <1>6, <1>7

\* The process stops: what is left is in the stores, which agree.
LEMMA HaltKeeps ==
    ASSUME IInv, NEW peers \in {peer, disk}, Halt(peers)
    PROVE  IInv'
<1> USE DEF IInv, Requests
<1>1. /\ ~up'
      /\ \A o \in Op : op'[o] = Idle
      /\ op' \in [Op -> Request]
      /\ Idle.pc = "idle" /\ Idle.kind = "none"
      /\ Idle.node = None /\ Idle.matter = None
  BY DEF Halt, Idle, Request, Phases
<1>2. /\ \A n \in NodeId : mapped'[n] = None
      /\ leaving' = {} /\ peer' = peers /\ disk' = peers
      /\ UNCHANGED <<holds, assigned, row, minted>>
  BY DEF Halt
<1>3. TypeOK'
  BY <1>1, <1>2, EventsTyped DEF Halt, TypeOK
<1>4. NodesMinted' /\ MattersAssigned'
  BY <1>1, <1>2 DEF NodesMinted, MattersAssigned, Carries
<1>5. \A p \in Op : /\ RequestShape(p)' /\ JoinedIsFresh(p)'
                    /\ OwnedIsPrivate(p)' /\ RemovalTarget(p)'
  BY <1>1 DEF RequestShape, JoinedIsFresh, OwnedIsPrivate, Owns, RemovalTarget
<1>6. MapAgrees' /\ DownIsEmpty' /\ Controllable' /\ OneNodePerPeer'
  BY <1>1, <1>2 DEF MapAgrees, DownIsEmpty, Controllable, OneNodePerPeer
<1>7. FlagHasOwner' /\ AnswersHold'
  BY <1>1, <1>2 DEF FlagHasOwner, AnswersHold
<1>8. QED
  BY <1>3, <1>4, <1>5, <1>6, <1>7

\* Hydration rebuilds the map from the two stores.
LEMMA RestartKeeps ==
    ASSUME IInv, Restart
    PROVE  IInv'
<1> USE DEF IInv, Requests
<1>1. /\ up'
      /\ UNCHANGED <<holds, peer, disk, assigned, row, minted, leaving, op>>
      /\ \A n \in NodeId : mapped'[n] = Hydrated(n)
  BY DEF Restart, stores
<1>2. /\ \A o \in Op : op[o] = Idle
      /\ Idle.pc = "idle" /\ Idle.kind = "none"
      /\ Idle.node = None /\ Idle.matter = None
      /\ leaving = {}
  BY DEF Restart, DownIsEmpty, Idle
<1>3. \A n \in NodeId : Hydrated(n) \in MatterId \cup {None}
  BY DEF TypeOK, Hydrated
<1>4. TypeOK'
  BY <1>1, <1>3, EventsTyped DEF Restart, TypeOK
<1>5. NodesMinted' /\ MattersAssigned'
  BY <1>1 DEF NodesMinted, MattersAssigned, Carries, Hydrated
<1>6. \A p \in Op : /\ RequestShape(p)' /\ JoinedIsFresh(p)'
                    /\ OwnedIsPrivate(p)' /\ RemovalTarget(p)'
  BY <1>1, <1>2 DEF RequestShape, JoinedIsFresh, OwnedIsPrivate, Owns,
                    RemovalTarget
<1>7. MapAgrees' /\ DownIsEmpty' /\ Controllable' /\ OneNodePerPeer'
  BY <1>1 DEF MapAgrees, DownIsEmpty, Controllable, OneNodePerPeer, Hydrated
<1>8. FlagHasOwner' /\ AnswersHold'
  BY <1>1, <1>2 DEF FlagHasOwner, AnswersHold
<1>9. QED
  BY <1>4, <1>5, <1>6, <1>7, <1>8

\* A step of none of the variables keeps it.
LEMMA StutterKeeps ==
    ASSUME IInv, UNCHANGED vars
    PROVE  IInv'
BY DEF IInv, vars, TypeOK, NodesMinted, MattersAssigned, Requests,
       RequestShape, JoinedIsFresh, OwnedIsPrivate, Owns, Carries,
       RemovalTarget, MapAgrees, DownIsEmpty, Controllable, OneNodePerPeer,
       FlagHasOwner, AnswersHold

-----------------------------------------------------------------------------
(* The theorems *)

\* So every step keeps it, action by action.
LEMMA NextKeepsIInv == IInv /\ [Next]_vars => IInv'
<1> SUFFICES ASSUME IInv, [Next]_vars
             PROVE  IInv'
  OBVIOUS
<1>1. ASSUME NEW o \in Op, Call(o)
      PROVE  IInv'
  BY <1>1, CommissionCallKeeps, DecommissionCallKeeps DEF Call
<1>2. ASSUME NEW o \in Op, Proceed(o)
      PROVE  IInv'
  BY <1>2, SdkJoinedKeeps, SdkRefusedKeeps, RegisterKeeps, RegisterFailsKeeps,
     PersistKeeps, PersistFailsKeeps, SdkRemovedKeeps, RemovalRefusedKeeps,
     SettleKeeps, DropKeeps, DropFailsKeeps DEF Proceed
<1>3. CASE Surroundings
  BY <1>3, DevicesKeep, HaltKeeps, RestartKeeps
     DEF Surroundings, Crash, PowerCut
<1>4. CASE UNCHANGED vars
  BY <1>4, StutterKeeps
<1>5. QED
  BY <1>1, <1>2, <1>3, <1>4 DEF Next

\* The invariant holds in every reachable state, whatever the sets of devices,
\* ids, requests and admitted faults.
THEOREM Invariance == Spec => []IInv
<1>1. QED
  BY InitIInv, NextKeepsIInv, PTL DEF Spec

\* Every variable keeps its type.
THEOREM TypeCorrect == Spec => []TypeOK
<1>1. IInv => TypeOK
  BY DEF IInv
<1>2. QED
  BY <1>1, Invariance, PTL

\* A stored node whose peer the SDK has is addressable while the hub runs.
THEOREM AlwaysControllable == Spec => []Controllable
<1>1. IInv => Controllable
  BY DEF IInv
<1>2. QED
  BY <1>1, Invariance, PTL

\* No peer is ever behind two nodes.
THEOREM AlwaysOneNodePerPeer == Spec => []OneNodePerPeer
<1>1. IInv => OneNodePerPeer
  BY DEF IInv
<1>2. QED
  BY <1>1, Invariance, PTL

\* The decommissioning filter never outlives the removals it serves.
THEOREM FlagNeverLeaks == Spec => []FlagHasOwner
<1>1. IInv => FlagHasOwner
  BY DEF IInv
<1>2. QED
  BY <1>1, Invariance, PTL

\* What a client was answered stays true.
THEOREM AnswersAlwaysHold == Spec => []AnswersHold
<1>1. IInv => AnswersHold
  BY DEF IInv
<1>2. QED
  BY <1>1, Invariance, PTL

-----------------------------------------------------------------------------
(* What becomes of the peers and the credentials *)

\* A removal that waits has the row of its node to go by, unless the peer is
\* gone; one that turns to the row has seen the peer go.
RemovalAccounted(o) ==
    /\ op[o].kind = "decommission" /\ op[o].pc = "removing" =>
          row[op[o].node] = op[o].matter \/ peer[op[o].matter] = None
    /\ op[o].pc = "dropping" /\ op[o].matter # None =>
          peer[op[o].matter] = None

\* What a device holds was assigned to it, and nobody else is that peer.
CredentialsKept ==
    \A d \in Device : holds[d] # None =>
        /\ holds[d] \in assigned
        /\ peer[holds[d]] \in {None, d} /\ disk[holds[d]] \in {None, d}

\* The removal that undoes a commissioning is not a forced one.
UndoUnforced == \A o \in Op : op[o].kind = "commission" => ~op[o].force

Accounted == (\A o \in Op : RemovalAccounted(o)) /\ CredentialsKept /\ UndoUnforced

\* An empty house accounts for everything.
LEMMA InitAccounted == Init => Accounted
BY DEF Init, Accounted, RemovalAccounted, CredentialsKept, UndoUnforced, Idle

\* A request that moves, and takes neither a row nor a peer with it.
LEMMA RequestMoves ==
    ASSUME IInv, Accounted, NEW o \in Op, UNCHANGED <<holds, peer, disk, assigned, row>>,
           \A p \in Op \ {o} : op'[p] = op[p],
           RemovalAccounted(o)', op'[o].kind = "commission" => ~op'[o].force
    PROVE  Accounted'
BY DEF Accounted, RemovalAccounted, CredentialsKept, UndoUnforced

\* A request that is answered, or refused before it has asked for anything.
LEMMA AnsweredAccounted ==
    ASSUME IInv, Accounted, NEW o \in Op, NEW outcome \in {"ok", "failed"},
           Answer(o, outcome), UNCHANGED <<holds, peer, disk, assigned, row>>
    PROVE  Accounted'
<1>1. /\ \A p \in Op \ {o} : op'[p] = op[p]
      /\ op'[o].pc = outcome /\ op'[o].force = FALSE
  BY AnswerFields DEF IInv, Phases
<1>2. RemovalAccounted(o)'
  BY <1>1 DEF RemovalAccounted
<1> QED BY <1>1, <1>2, RequestMoves

\* A request that is made asks for the peer of the row it found.
LEMMA CallAccounted == ASSUME IInv, Accounted, NEW o \in Op, Call(o) PROVE Accounted'
<1>1. ASSUME NEW d \in Device, CommissionCall(o, d) PROVE Accounted'
  <2>1. /\ \A p \in Op \ {o} : op'[p] = op[p]
        /\ op'[o].pc = "joining" /\ op'[o].force = FALSE
    BY <1>1, CalledToCommission DEF IInv
  <2>2. UNCHANGED <<holds, peer, disk, assigned, row>>
    BY <1>1 DEF CommissionCall, stores
  <2>3. RemovalAccounted(o)'
    BY <2>1 DEF RemovalAccounted
  <2> QED BY <2>1, <2>2, <2>3, RequestMoves
<1>2. ASSUME NEW n \in NodeId, NEW force \in BOOLEAN, DecommissionCall(o, n, force)
      PROVE  Accounted'
  <2>1. /\ \A p \in Op \ {o} : op'[p] = op[p]
        /\ op'[o].kind = "decommission" /\ op'[o].node = n
        /\ \/ op'[o].pc = "failed"
           \/ op'[o].pc = "dropping" /\ op'[o].matter = None
           \/ /\ row[n] # None /\ mapped[n] # None
              /\ op'[o].pc = "removing" /\ op'[o].matter = mapped[n]
    BY <1>2, CalledToDecommission DEF IInv
  <2>2. UNCHANGED <<holds, peer, disk, assigned, row>>
    BY <1>2 DEF DecommissionCall, stores
  <2>3. RemovalAccounted(o)'
    BY <2>1, <2>2 DEF RemovalAccounted, IInv, MapAgrees
  <2> QED BY <2>1, <2>2, <2>3, RequestMoves
<1> QED BY <1>1, <1>2 DEF Call

\* The peer that joins was never assigned to anyone, so no request has it.
LEMMA SdkJoinedAccounted == ASSUME IInv, Accounted, NEW o \in Op, SdkJoined(o) PROVE Accounted'
<1>1. PICK m \in MatterId \ assigned :
        /\ assigned' = assigned \cup {m}
        /\ holds' = [holds EXCEPT ![op[o].dev] = m]
        /\ WritePeers([peer EXCEPT ![m] = op[o].dev])
        /\ op' = [op EXCEPT ![o] = [@ EXCEPT !.pc = "joined", !.matter = m]]
  BY DEF SdkJoined
<1>2. /\ \A p \in Op \ {o} : op'[p] = op[p]
      /\ op'[o].pc = "joined" /\ op'[o].kind = op[o].kind /\ op'[o].force = op[o].force
  BY <1>1, JoinedBySdk DEF IInv
<1>3. op[o].dev \in Device /\ row' = row
  BY RequestFields DEF SdkJoined, At, IInv, Requests, RequestShape
<1>4. /\ peer'[m] = op[o].dev /\ disk'[m] \in {disk[m], op[o].dev}
      /\ \A k \in MatterId \ {m} : peer'[k] = peer[k] /\ disk'[k] \in {disk[k], peer[k]}
  BY <1>1 DEF WritePeers, IInv, TypeOK
<1>5. CredentialsKept'
  <2> SUFFICES ASSUME NEW d \in Device, holds'[d] # None
               PROVE  /\ holds'[d] \in assigned'
                      /\ peer'[holds'[d]] \in {None, d} /\ disk'[holds'[d]] \in {None, d}
    BY DEF CredentialsKept
  <2>1. CASE d = op[o].dev
    <3>1. holds'[d] = m /\ disk[m] = None
      BY <1>1, <1>3, <2>1 DEF IInv, TypeOK, MattersAssigned
    <3> QED BY <1>1, <1>4, <2>1, <3>1
  <2>2. CASE d # op[o].dev
    <3>1. holds'[d] = holds[d] /\ holds[d] \in assigned /\ holds[d] \in MatterId
      BY <1>1, <2>2 DEF Accounted, CredentialsKept, IInv, TypeOK
    <3> QED BY <1>1, <1>4, <3>1 DEF Accounted, CredentialsKept
  <2> QED BY <2>1, <2>2
<1>6. ASSUME NEW p \in Op PROVE RemovalAccounted(p)'
  <2>1. op[p].matter # None => op[p].matter \in MatterId /\ op[p].matter # m
    BY <1>1 DEF IInv, MattersAssigned, TypeOK
  <2>2. op[p].pc = "removing" => op[p].matter # None
    BY DEF IInv, Requests, RequestShape
  <2> QED BY <1>2, <1>3, <1>4, <2>1, <2>2 DEF Accounted, RemovalAccounted
<1>7. UndoUnforced'
  BY <1>2 DEF Accounted, UndoUnforced
<1> QED BY <1>5, <1>6, <1>7 DEF Accounted

\* A peer that goes satisfies whoever had it in hand.
LEMMA SdkRemovedAccounted == ASSUME IInv, Accounted, NEW o \in Op, SdkRemoved(o) PROVE Accounted'
<1> DEFINE m == op[o].matter
<1>1. /\ \A p \in Op \ {o} : op'[p] = op[p]
      /\ op'[o].pc = "removed" /\ op'[o].kind = op[o].kind /\ op'[o].force = op[o].force
  BY Moved DEF SdkRemoved, IInv, Phases
<1>2. UNCHANGED <<assigned, row>>
  BY DEF SdkRemoved
<1>3. /\ m \in MatterId /\ peer'[m] = None
      /\ \A k \in MatterId \ {m} : peer'[k] = peer[k]
      /\ \A k \in MatterId : disk'[k] \in {disk[k], peer[k], None}
  BY RequestFields DEF SdkRemoved, At, IInv, Requests, RequestShape, WritePeers, TypeOK
<1>4. \A d \in Device : holds'[d] \in {None, holds[d]}
  BY DEF SdkRemoved, IInv, TypeOK
<1>5. CredentialsKept'
  BY <1>2, <1>3, <1>4 DEF Accounted, CredentialsKept, IInv, TypeOK
<1>6. ASSUME NEW p \in Op PROVE RemovalAccounted(p)'
  <2>1. op[p].matter \in MatterId \cup {None} /\ (op[p].pc = "removing" => op[p].matter # None)
    BY DEF IInv, Requests, RequestShape, TypeOK, Request
  <2> QED BY <1>1, <1>2, <1>3, <2>1 DEF Accounted, RemovalAccounted
<1>7. UndoUnforced'
  BY <1>1 DEF Accounted, UndoUnforced
<1> QED BY <1>5, <1>6, <1>7 DEF Accounted

\* A node that is registered is no removal's.
LEMMA RegisterAccounted == ASSUME IInv, Accounted, NEW o \in Op, Register(o) PROVE Accounted'
<1>1. PICK n \in NodeId :
        op' = [op EXCEPT ![o] = [@ EXCEPT !.pc = "registered", !.node = n]]
  BY DEF Register
<1>2. /\ \A p \in Op \ {o} : op'[p] = op[p]
      /\ op'[o].pc = "registered" /\ op'[o].kind = op[o].kind /\ op'[o].force = op[o].force
  BY <1>1, Registered DEF IInv
<1>3. UNCHANGED <<holds, peer, disk, assigned, row>>
  BY DEF Register, stores
<1>4. RemovalAccounted(o)' /\ (op'[o].kind = "commission" => ~op'[o].force)
  BY <1>2 DEF RemovalAccounted, Accounted, UndoUnforced
<1> QED BY <1>2, <1>3, <1>4, RequestMoves

\* The undo of a commissioning, and the settlement of any removal.
LEMMA RemovalMovesAccounted ==
    ASSUME IInv, Accounted, NEW o \in Op, PersistFails(o) \/ Settle(o)
    PROVE  Accounted'
<1>1. UNCHANGED <<holds, peer, disk, assigned, row>>
  BY DEF PersistFails, Settle, stores
<1>2. CASE Answer(o, "failed")
  BY <1>1, <1>2, AnsweredAccounted
<1>3. CASE Goto(o, "removing") /\ op[o].kind = "commission"
  <2>1. /\ \A p \in Op \ {o} : op'[p] = op[p]
        /\ op'[o].pc = "removing" /\ op'[o].kind = op[o].kind /\ op'[o].force = op[o].force
    BY <1>3, Moved DEF IInv, Phases
  <2>2. RemovalAccounted(o)' /\ (op'[o].kind = "commission" => ~op'[o].force)
    BY <1>3, <2>1 DEF RemovalAccounted, Accounted, UndoUnforced
  <2> QED BY <1>1, <2>1, <2>2, RequestMoves
<1>4. CASE Goto(o, "dropping") /\ op[o].pc = "removed"
  <2>1. /\ \A p \in Op \ {o} : op'[p] = op[p]
        /\ op'[o].pc = "dropping" /\ op'[o].kind = op[o].kind /\ op'[o].force = op[o].force
        /\ op'[o].matter = op[o].matter
    BY <1>4, Moved DEF IInv, Phases
  <2>2. peer[op[o].matter] = None
    BY <1>4 DEF IInv, Requests, RemovalTarget
  <2>3. RemovalAccounted(o)' /\ (op'[o].kind = "commission" => ~op'[o].force)
    BY <1>1, <2>1, <2>2 DEF RemovalAccounted, Accounted, UndoUnforced
  <2> QED BY <1>1, <2>1, <2>3, RequestMoves
<1>5. PersistFails(o) => op[o].kind = "commission"
  BY DEF PersistFails, At, IInv, Requests, RequestShape
<1> QED BY <1>2, <1>3, <1>4, <1>5 DEF PersistFails, Undo, Settle, At

\* A row that appears is no removal's; one that goes has lost its peer before.
LEMMA RowsAccounted ==
    ASSUME IInv, Accounted, NEW o \in Op, Persist(o) \/ Drop(o)
    PROVE  Accounted'
<1>1. /\ \A p \in Op \ {o} : op'[p] = op[p]
      /\ op'[o].pc = "ok" /\ op'[o].force = FALSE
  BY AnswerFields DEF Persist, Drop, IInv, Phases
<1>2. UNCHANGED <<holds, peer, disk, assigned>>
  BY DEF Persist, Drop, stores
<1>3. CredentialsKept' /\ UndoUnforced'
  BY <1>1, <1>2 DEF Accounted, CredentialsKept, UndoUnforced
<1>4. ASSUME NEW p \in Op PROVE RemovalAccounted(p)'
  <2>1. CASE p = o
    BY <1>1, <2>1 DEF RemovalAccounted
  <2>2. CASE p # o /\ op[p].pc = "removing" /\ op[p].kind = "decommission"
    <3>1. op[p].node \in NodeId /\ op[p].node # None
      BY <2>2, RequestFields DEF IInv, Requests, RequestShape
    <3>2. CASE Persist(o)
      <4>1. op[p].node # op[o].node
        BY <2>2, <3>1, <3>2 DEF Persist, At, IInv, Requests, OwnedIsPrivate, Owns, Carries
      <4> QED BY <1>1, <1>2, <2>2, <3>1, <3>2, <4>1 DEF Persist, Accounted, RemovalAccounted, IInv, TypeOK
    <3>3. CASE Drop(o)
      <4>1. CASE op[p].node # op[o].node
        BY <1>1, <1>2, <2>2, <3>1, <3>3, <4>1 DEF Drop, Accounted, RemovalAccounted, IInv, TypeOK
      <4>2. CASE op[p].node = op[o].node
        <5>1. mapped[op[o].node] = None /\ up /\ row[op[o].node] # None
          BY <3>3 DEF Drop, At, IInv, Requests, RemovalTarget
        <5>2. peer[row[op[o].node]] = None
          BY <3>1, <4>2, <5>1 DEF IInv, Controllable
        <5> QED BY <1>1, <1>2, <2>2, <4>2, <5>2 DEF Accounted, RemovalAccounted
      <4> QED BY <4>1, <4>2
    <3> QED BY <3>2, <3>3
  <2>3. CASE p # o /\ ~(op[p].pc = "removing" /\ op[p].kind = "decommission")
    BY <1>1, <1>2, <2>3 DEF Accounted, RemovalAccounted
  <2> QED BY <2>1, <2>2, <2>3
<1> QED BY <1>3, <1>4 DEF Accounted

\* Devices come and go, and a process that stops takes its requests with it.
LEMMA SurroundingsAccounted == ASSUME IInv, Accounted, Surroundings PROVE Accounted'
<1>1. CASE (\E m \in MatterId : GoOnline(m) \/ GoOffline(m)) \/ Restart
  <2>1. UNCHANGED <<holds, peer, disk, assigned, row, op>>
    BY <1>1 DEF GoOnline, GoOffline, Restart, stores
  <2> QED BY <2>1 DEF Accounted, RemovalAccounted, CredentialsKept, UndoUnforced
<1>2. ASSUME NEW d \in Device, FactoryReset(d) PROVE Accounted'
  BY <1>2 DEF FactoryReset, IInv, TypeOK, Accounted, RemovalAccounted, CredentialsKept,
              UndoUnforced
<1>3. ASSUME NEW peers \in {peer, disk}, Halt(peers) PROVE Accounted'
  BY <1>3 DEF Halt, Idle, Accounted, RemovalAccounted, CredentialsKept, UndoUnforced
<1> QED BY <1>1, <1>2, <1>3 DEF Surroundings, Crash, PowerCut

\* So every step keeps it.
LEMMA NextAccounted == IInv /\ Accounted /\ [Next]_vars => Accounted'
<1> SUFFICES ASSUME IInv, Accounted, [Next]_vars PROVE Accounted'
  OBVIOUS
<1>1. ASSUME NEW o \in Op, SdkRefused(o) \/ RegisterFails(o) \/ RemovalRefused(o) \/ DropFails(o)
      PROVE  Accounted'
  <2>1. Answer(o, "failed") /\ UNCHANGED <<holds, peer, disk, assigned, row>>
    BY <1>1 DEF SdkRefused, RegisterFails, RemovalRefused, Refused, DropFails, stores
  <2> QED BY <2>1, AnsweredAccounted
<1>2. ASSUME NEW o \in Op, Proceed(o) PROVE Accounted'
  BY <1>1, <1>2, SdkJoinedAccounted, SdkRemovedAccounted, RegisterAccounted,
     RemovalMovesAccounted, RowsAccounted DEF Proceed
<1>3. CASE UNCHANGED vars
  BY <1>3 DEF vars, Accounted, RemovalAccounted, CredentialsKept, UndoUnforced
<1> QED BY <1>2, <1>3, CallAccounted, SurroundingsAccounted DEF Next

\* What the requests, the rows and the devices say of the peers agrees.
THEOREM AlwaysAccounted == Spec => []Accounted
<1> QED BY InitAccounted, NextAccounted, Invariance, PTL DEF Spec

-----------------------------------------------------------------------------
(* The two action properties *)

\* A request that has a peer gives it up only with the row, or when the peer is
\* gone; a row is given up only when its peer is.
LEMMA OrphansStep ==
    ASSUME IInv, Accounted, NEW o \in Op, Call(o) \/ Proceed(o), up',
           ~RegisterFails(o), ~(op[o].kind = "commission" /\ RemovalRefused(o))
    PROVE  Orphans' \subseteq Orphans
<1> SUFFICES ASSUME NEW m \in MatterId, peer'[m] # None, \A n \in NodeId : row'[n] # m,
                    \A p \in Op : op'[p].matter # m
             PROVE  /\ peer[m] # None /\ \A n \in NodeId : row[n] # m
                    /\ \A p \in Op : op[p].matter # m
  BY DEF Orphans
<1>1. m # None
  BY NoneAssumption
<1>2. ASSUME UNCHANGED <<peer, row>>, \A p \in Op \ {o} : op'[p] = op[p],
             op[o].matter \in {None, op'[o].matter} \/ peer[op[o].matter] = None
                \/ \E n \in NodeId : row[n] = op[o].matter
      PROVE  /\ peer[m] # None /\ \A n \in NodeId : row[n] # m
             /\ \A p \in Op : op[p].matter # m
  BY <1>1, <1>2
<1>3. ASSUME NEW d \in Device, CommissionCall(o, d)
      PROVE  /\ UNCHANGED <<peer, row>> /\ op[o].matter = None
             /\ \A p \in Op \ {o} : op'[p] = op[p]
  BY <1>3, CalledToCommission DEF CommissionCall, stores, Resting, IInv, Requests, RequestShape
<1>4. ASSUME NEW n \in NodeId, NEW force \in BOOLEAN, DecommissionCall(o, n, force)
      PROVE  /\ UNCHANGED <<peer, row>> /\ op[o].matter = None
             /\ \A p \in Op \ {o} : op'[p] = op[p]
  <2>1. UNCHANGED <<peer, row>> /\ op[o].matter = None
    BY <1>4 DEF DecommissionCall, stores, Resting, IInv, Requests, RequestShape
  <2>2. \A p \in Op \ {o} : op'[p] = op[p]
    BY <1>4, CalledToDecommission DEF IInv
  <2> QED BY <2>1, <2>2
<1>5. CASE Call(o)
  BY <1>2, <1>3, <1>4, <1>5 DEF Call
<1>6. CASE SdkJoined(o)
  <2>1. PICK j \in MatterId : /\ WritePeers([peer EXCEPT ![j] = op[o].dev])
                              /\ op' = [op EXCEPT ![o] = [@ EXCEPT !.pc = "joined", !.matter = j]]
    BY <1>6 DEF SdkJoined
  <2>2. /\ \A p \in Op \ {o} : op'[p] = op[p]
        /\ op'[o].matter = j
    BY <2>1, JoinedBySdk DEF IInv
  <2>3. op[o].matter = None /\ row' = row
    BY <1>6 DEF SdkJoined, At, IInv, Requests, RequestShape
  <2>4. peer'[m] = peer[m]
    BY <2>1, <2>2 DEF WritePeers, IInv, TypeOK
  <2> QED BY <1>1, <2>2, <2>3, <2>4
<1>7. CASE SdkRefused(o) \/ DropFails(o)
  <2>1. UNCHANGED <<peer, row>> /\ \A p \in Op \ {o} : op'[p] = op[p]
    BY <1>7, AnswerFields DEF SdkRefused, DropFails, stores, IInv, Phases
  <2>2. op[o].matter = None \/ peer[op[o].matter] = None
    BY <1>7 DEF SdkRefused, DropFails, At, IInv, Requests, RequestShape, Accounted, RemovalAccounted
  <2> QED BY <1>2, <2>1, <2>2
<1>8. CASE Register(o)
  <2>1. PICK n \in NodeId : op' = [op EXCEPT ![o] = [@ EXCEPT !.pc = "registered", !.node = n]]
    BY <1>8 DEF Register
  <2>2. UNCHANGED <<peer, row>> /\ (\A p \in Op \ {o} : op'[p] = op[p])
        /\ op'[o].matter = op[o].matter
    BY <1>8, <2>1, Registered DEF Register, stores, IInv
  <2> QED BY <1>2, <2>2
<1>9. CASE Persist(o)
  <2>1. /\ peer' = peer /\ \A p \in Op \ {o} : op'[p] = op[p]
        /\ op[o].node \in NodeId /\ row[op[o].node] = None
        /\ row' = [row EXCEPT ![op[o].node] = op[o].matter]
    BY <1>9, AnswerFields, RequestFields
       DEF Persist, At, Insertable, stores, IInv, Phases, Requests, RequestShape
  <2>2. row'[op[o].node] = op[o].matter /\ \A n \in NodeId : row[n] # None => row'[n] = row[n]
    BY <2>1 DEF IInv, TypeOK
  <2> QED BY <1>1, <2>1, <2>2
<1>10. CASE PersistFails(o)
  <2>1. mapped[op[o].node] # None
    BY <1>10 DEF PersistFails, At, IInv, Requests, RequestShape, OwnedIsPrivate, Owns
  <2>2. Goto(o, "removing") /\ UNCHANGED <<peer, row>>
    BY <1>10, <2>1 DEF PersistFails, Undo, stores
  <2>3. /\ \A p \in Op \ {o} : op'[p] = op[p]
        /\ op'[o].matter = op[o].matter
    BY <2>2, Moved DEF IInv, Phases
  <2> QED BY <1>2, <2>2, <2>3
<1>11. CASE SdkRemoved(o)
  <2>1. /\ \A p \in Op \ {o} : op'[p] = op[p]
        /\ op'[o].matter = op[o].matter /\ row' = row
    BY <1>11, Moved DEF SdkRemoved, IInv, Phases
  <2>2. peer' = [peer EXCEPT ![op[o].matter] = None]
    BY <1>11 DEF SdkRemoved, WritePeers
  <2>3. peer[m] # None
    BY <2>2 DEF IInv, TypeOK
  <2> QED BY <2>1, <2>3
<1>12. CASE RemovalRefused(o)
  <2>1. UNCHANGED <<peer, row>> /\ \A p \in Op \ {o} : op'[p] = op[p]
    BY <1>12, AnswerFields DEF RemovalRefused, Refused, stores, IInv, Phases
  <2>2. op[o].node \in NodeId /\ op[o].kind = "decommission" /\ op[o].pc = "removing"
    BY <1>12, RequestFields DEF RemovalRefused, At, IInv, Requests, RequestShape
  <2>3. peer[op[o].matter] = None \/ row[op[o].node] = op[o].matter
    BY <2>2 DEF Accounted, RemovalAccounted
  <2> QED BY <1>2, <2>1, <2>2, <2>3
<1>13. CASE Settle(o)
  <2>1. UNCHANGED <<peer, row>> /\ \A p \in Op \ {o} : op'[p] = op[p]
    BY <1>13, AnswerFields, Moved DEF Settle, stores, IInv, Phases
  <2>2. peer[op[o].matter] = None
    BY <1>13 DEF Settle, At, IInv, Requests, RemovalTarget
  <2> QED BY <1>2, <2>1, <2>2
<1>14. CASE Drop(o)
  <2>1. /\ peer' = peer /\ \A p \in Op \ {o} : op'[p] = op[p]
        /\ op[o].node \in NodeId /\ row' = [row EXCEPT ![op[o].node] = None]
    BY <1>14, AnswerFields, RequestFields
       DEF Drop, At, stores, IInv, Phases, Requests, RequestShape
  <2>2. peer[row[op[o].node]] = None
    BY <1>14, <2>1 DEF Drop, At, IInv, Requests, RemovalTarget, Controllable
  <2>3. op[o].matter = None \/ peer[op[o].matter] = None
    BY <1>14 DEF Drop, At, Accounted, RemovalAccounted
  <2>4. \A n \in NodeId : n # op[o].node => row'[n] = row[n]
    BY <2>1 DEF IInv, TypeOK
  <2> QED BY <1>1, <2>1, <2>2, <2>3, <2>4
<1> QED BY <1>5, <1>6, <1>7, <1>8, <1>9, <1>10, <1>11, <1>12, <1>13, <1>14 DEF Proceed

\* A peer in the fabric is always accounted for, but for an undo that fails, a
\* joined node that cannot be registered and a process that stops.
THEOREM OrphansOnlyByFailure == Spec => OrphanOnlyByFailure
<1>1. IInv /\ Accounted /\ [Next]_vars =>
        [ \/ Orphans' \subseteq Orphans
          \/ ~up'
          \/ \E o \in Op : RegisterFails(o)
          \/ \E o \in Op : op[o].kind = "commission" /\ RemovalRefused(o)]_vars
  <2> SUFFICES ASSUME IInv, Accounted, Next, up',
                      \A o \in Op : ~RegisterFails(o),
                      \A o \in Op : ~(op[o].kind = "commission" /\ RemovalRefused(o))
               PROVE  Orphans' \subseteq Orphans
    OBVIOUS
  <2>1. CASE Surroundings
    <3>1. UNCHANGED <<peer, row, op>>
      BY <2>1 DEF Surroundings, GoOnline, GoOffline, FactoryReset, Crash, PowerCut, Halt,
                  Restart, stores
    <3> QED BY <3>1 DEF Orphans
  <2> QED BY <2>1, OrphansStep DEF Next
<1> QED BY <1>1, Invariance, AlwaysAccounted, PTL DEF Spec, OrphanOnlyByFailure

\* Only a removal that was forced, or a power cut, leaves a device with
\* credentials for a peer that the SDK has forgotten.
THEOREM StrandsOnlyByForce == Spec => StrandedOnlyByForce
<1>1. IInv /\ Accounted /\ [Next]_vars =>
        [ \/ Stranded' \subseteq Stranded
          \/ ~up'
          \/ \E o \in Op : op[o].kind = "decommission" /\ op[o].force
                          /\ SdkRemoved(o)]_vars
  <2> SUFFICES ASSUME IInv, Accounted, Next, up',
                      \A o \in Op : ~(op[o].kind = "decommission" /\ op[o].force
                                      /\ SdkRemoved(o)),
                      NEW d \in Device, holds'[d] # None, peer'[holds'[d]] = None
               PROVE  holds[d] # None /\ peer[holds[d]] = None
    BY DEF Stranded
  <2>1. ASSUME NEW o \in Op, SdkJoined(o) PROVE holds[d] # None /\ peer[holds[d]] = None
    <3>1. PICK m \in MatterId : /\ holds' = [holds EXCEPT ![op[o].dev] = m]
                                /\ peer' = [peer EXCEPT ![m] = op[o].dev]
      BY <2>1 DEF SdkJoined, WritePeers
    <3>2. op[o].dev \in Device
      BY <2>1, RequestFields DEF SdkJoined, At, IInv, Requests, RequestShape
    <3>3. peer'[m] # None /\ d # op[o].dev
      BY <3>1, <3>2, NoneAssumption DEF IInv, TypeOK
    <3> QED BY <3>1, <3>3 DEF IInv, TypeOK
  <2>2. ASSUME NEW o \in Op, SdkRemoved(o) PROVE holds[d] # None /\ peer[holds[d]] = None
    <3> DEFINE m == op[o].matter
    <3>1. ~op[o].force /\ m \in MatterId
      BY <2>2, RequestFields
         DEF SdkRemoved, At, IInv, Requests, RequestShape, Accounted, UndoUnforced
    <3>2. peer' = [peer EXCEPT ![m] = None]
      BY <2>2 DEF SdkRemoved, WritePeers
    <3>3. CASE Answers(m)
      <4>1. peer[m] \in Device /\ holds' = [holds EXCEPT ![peer[m]] = None]
        BY <2>2, <3>1, <3>3 DEF SdkRemoved, Answers, IInv, TypeOK
      <4>2. d # peer[m] /\ holds'[d] = holds[d]
        BY <4>1 DEF IInv, TypeOK
      <4>3. holds[d] # m
        BY <3>3, <4>1, <4>2, NoneAssumption DEF Answers, Accounted, CredentialsKept
      <4> QED BY <3>2, <4>2, <4>3 DEF IInv, TypeOK
    <3>4. CASE ~Answers(m)
      <4>1. holds' = holds /\ peer[m] = None
        BY <2>2, <3>1, <3>4 DEF SdkRemoved
      <4> QED BY <3>2, <4>1 DEF IInv, TypeOK
    <3> QED BY <3>3, <3>4
  <2>3. ASSUME NEW o \in Op, \/ Call(o) \/ SdkRefused(o) \/ Register(o) \/ RegisterFails(o)
                             \/ Persist(o) \/ PersistFails(o) \/ RemovalRefused(o)
                             \/ Settle(o) \/ Drop(o) \/ DropFails(o)
        PROVE  UNCHANGED stores
    BY <2>3 DEF Call, CommissionCall, DecommissionCall, SdkRefused, Register, RegisterFails,
                Persist, PersistFails, RemovalRefused, Settle, Drop, DropFails
  <2>4. CASE Surroundings
    <3>1. ASSUME NEW c \in Device, FactoryReset(c)
          PROVE  holds[d] # None /\ peer[holds[d]] = None
      BY <3>1 DEF FactoryReset, IInv, TypeOK
    <3>2. CASE (\E m \in MatterId : GoOnline(m) \/ GoOffline(m)) \/ Restart
      BY <3>2 DEF GoOnline, GoOffline, Restart, stores
    <3>3. CASE Crash \/ PowerCut
      BY <3>3 DEF Crash, PowerCut, Halt
    <3> QED BY <2>4, <3>1, <3>2, <3>3 DEF Surroundings
  <2>5. UNCHANGED stores => holds[d] # None /\ peer[holds[d]] = None
    BY DEF stores
  <2> QED BY <2>1, <2>2, <2>3, <2>4, <2>5 DEF Next, Proceed
<1> QED BY <1>1, Invariance, AlwaysAccounted, PTL DEF Spec, StrandedOnlyByForce

-----------------------------------------------------------------------------
(* The refinement *)

\* The refinement mapping of Fabric's instance R, node by node.
Stage(n) ==
    IF row[n] # None THEN "listed"
    ELSE IF n \in minted /\ mapped[n] = None THEN "gone"
    ELSE "unborn"

\* A step that says nothing may only give up ids that were never listed.
LEMMA SilentStep ==
    ASSUME emit' = Quiet,
           \A n \in NodeId :
              Stage(n)' # Stage(n) => Stage(n) = "unborn" /\ Stage(n)' = "gone"
    PROVE  R!Next
<1>1. R!Abandon
  BY DEF R!Abandon, R!Stages, Quiet, Stage
<1>2. QED
  BY <1>1 DEF R!Next

\* A step that only publishes a session says so of a node that is not gone.
LEMMA SessionStep ==
    ASSUME NEW m \in MatterId, UNCHANGED <<row, mapped, minted>>,
           emit' \in {OnlineEvent(m), OfflineEvent(m), Quiet}
    PROVE  R!Next
<1>1. \A n \in NodeId : Stage(n)' = Stage(n)
  BY DEF Stage
<1>2. CASE emit' = Quiet
  BY <1>1, <1>2, SilentStep
<1>3. CASE emit' # Quiet
  <2>1. PICK n \in Watched(m) : emit' \in {Connected(n), Disconnected(n)}
    <3>1. Watched(m) # {} =>
            (CHOOSE n \in NodeId : n \in Watched(m)) \in Watched(m)
      BY DEF Watched
    <3>2. Watched(m) \ leaving # {} =>
            (CHOOSE n \in NodeId : n \in Watched(m) \ leaving) \in Watched(m)
      BY DEF Watched
    <3>3. QED
      BY <1>3, <3>1, <3>2 DEF OnlineEvent, OfflineEvent
  <2>2. n \in NodeId /\ mapped[n] # None
    BY <2>1, NoneAssumption DEF Watched
  <2>3. R!Presence(n)
    BY <1>1, <2>1, <2>2 DEF R!Presence, Stage, Connected, Disconnected
  <2>4. QED
    BY <2>2, <2>3 DEF R!Next
<1>4. QED
  BY <1>2, <1>3

\* The initial states of Fabric are initial states of Roster.
LEMMA RosterInit == Init => R!Init
BY DEF Init, R!Init, Quiet

\* Every step of Fabric is a step of Roster,
LEMMA RosterStep == ASSUME IInv, Next PROVE R!Next
<1> USE DEF IInv, Requests
<1>1. ASSUME NEW o \in Op, Call(o)
      PROVE  R!Next
  <2>1. emit' = Quiet /\ UNCHANGED <<row, mapped, minted>>
    BY <1>1 DEF Call, CommissionCall, DecommissionCall
  <2>2. QED
    BY <2>1, SilentStep DEF Stage
<1>2. ASSUME NEW o \in Op, Proceed(o)
      PROVE  R!Next
  <2>1. CASE \/ SdkJoined(o) \/ SdkRefused(o) \/ PersistFails(o)
             \/ RemovalRefused(o) \/ DropFails(o)
    <3>1. emit' = Quiet /\ UNCHANGED <<row, mapped, minted>>
      BY <2>1 DEF SdkJoined, SdkRefused, PersistFails, RemovalRefused,
                  DropFails
    <3>2. QED
      BY <3>1, SilentStep DEF Stage
  <2>2. CASE Register(o) \/ RegisterFails(o)
    <3>1. PICK n \in NodeId \ minted :
             /\ minted' = minted \cup {n}
             /\ mapped' \in {mapped, [mapped EXCEPT ![n] = op[o].matter]}
      BY <2>2 DEF Register, RegisterFails
    <3>2. emit' = Quiet /\ row' = row
      BY <2>2 DEF Register, RegisterFails
    <3>3. /\ row[n] = None
          /\ \A k \in NodeId \ {n} :
                mapped'[k] = mapped[k] /\ (k \in minted' <=> k \in minted)
      BY <3>1 DEF NodesMinted, TypeOK
    <3>4. Stage(n) = "unborn" /\ Stage(n)' \in {"unborn", "gone"}
      BY <3>1, <3>2, <3>3 DEF Stage
    <3>5. \A k \in NodeId \ {n} : Stage(k)' = Stage(k)
      BY <3>2, <3>3 DEF Stage
    <3>6. QED
      BY <3>2, <3>4, <3>5, SilentStep
  <2>3. CASE Persist(o)
    <3>0. PICK n \in NodeId : n = op[o].node
      BY <2>3, RequestFields DEF Persist, At, RequestShape
    <3>1. /\ op[o].matter \in MatterId
          /\ mapped[n] = op[o].matter /\ row[n] = None
      BY <2>3, <3>0, RequestFields
         DEF Persist, At, RequestShape, OwnedIsPrivate, Owns
    <3>2. /\ row' = [row EXCEPT ![n] = op[o].matter]
          /\ UNCHANGED <<mapped, minted>>
          /\ emit' = Added(n, Reachable(n))
      BY <2>3, <3>0 DEF Persist
    <3>3. /\ Stage(n) = "unborn" /\ Stage(n)' = "listed"
          /\ \A k \in NodeId \ {n} : Stage(k)' = Stage(k)
      BY <3>1, <3>2, NoneAssumption DEF Stage, TypeOK
    <3>4. Reachable(n) \in BOOLEAN
      BY DEF Reachable
    <3>5. R!List(n)
      BY <3>1, <3>2, <3>3, <3>4 DEF R!List, Stage, Added
    <3>6. QED
      BY <3>1, <3>5 DEF R!Next
  <2>4. CASE SdkRemoved(o)
    <3>1. op[o].matter \in MatterId
      BY <2>4, RequestFields DEF SdkRemoved, At, RequestShape
    <3>2. /\ UNCHANGED <<row, mapped, minted>>
          /\ emit' \in {OfflineEvent(op[o].matter), Quiet}
      BY <2>4 DEF SdkRemoved
    <3>3. QED
      BY <3>1, <3>2, SessionStep
  <2>5. CASE Settle(o)
    <3>1. /\ emit' = Quiet /\ UNCHANGED <<row, minted>>
          /\ mapped' = [mapped EXCEPT ![op[o].node] = None]
      BY <2>5 DEF Settle
    <3>2. \A n \in NodeId : mapped'[n] # mapped[n] => mapped'[n] = None
      BY <3>1 DEF TypeOK
    <3>3. \A n \in NodeId : Stage(n)' # Stage(n) =>
                              Stage(n) = "unborn" /\ Stage(n)' = "gone"
      BY <3>1, <3>2 DEF Stage
    <3>4. QED
      BY <3>1, <3>3, SilentStep
  <2>6. CASE Drop(o)
    <3>0. PICK n \in NodeId : n = op[o].node
      BY <2>6, RequestFields DEF Drop, At, RequestShape
    <3>1. /\ n \in minted
          /\ mapped[n] = None /\ row[n] # None
      BY <2>6, <3>0, RequestFields
         DEF Drop, At, RequestShape, RemovalTarget, NodesMinted, Carries
    <3>2. /\ row' = [row EXCEPT ![n] = None]
          /\ UNCHANGED <<mapped, minted>>
          /\ emit' = Removed(n)
      BY <2>6, <3>0 DEF Drop
    <3>3. /\ Stage(n) = "listed" /\ Stage(n)' = "gone"
          /\ \A k \in NodeId \ {n} : Stage(k)' = Stage(k)
      BY <3>1, <3>2 DEF Stage, TypeOK
    <3>4. R!Delist(n)
      BY <3>1, <3>2, <3>3 DEF R!Delist, Stage, Removed
    <3>5. QED
      BY <3>1, <3>4 DEF R!Next
  <2>7. QED
    BY <1>2, <2>1, <2>2, <2>3, <2>4, <2>5, <2>6 DEF Proceed
<1>3. CASE Surroundings
  <2>1. CASE \E m \in MatterId : GoOnline(m) \/ GoOffline(m)
    BY <2>1, SessionStep DEF GoOnline, GoOffline
  <2>2. CASE \E d \in Device : FactoryReset(d)
    BY <2>2, SilentStep DEF FactoryReset, Stage
  <2>3. CASE Crash \/ PowerCut
    <3>1. /\ emit' = Quiet /\ UNCHANGED <<row, minted>>
          /\ \A n \in NodeId : mapped'[n] = None
      BY <2>3 DEF Crash, PowerCut, Halt
    <3>2. QED
      BY <3>1, SilentStep DEF Stage
  <2>4. CASE Restart
    <3>1. /\ emit' = Quiet /\ UNCHANGED <<row, minted>>
          /\ \A n \in NodeId : mapped[n] = None /\ mapped'[n] = Hydrated(n)
      BY <2>4 DEF Restart, DownIsEmpty
    <3>2. \A n \in NodeId : Stage(n)' = Stage(n)
      BY <3>1 DEF Stage, Hydrated
    <3>3. QED
      BY <3>1, <3>2, SilentStep
  <2>5. QED
    BY <1>3, <2>1, <2>2, <2>3, <2>4 DEF Surroundings
<1>4. QED
  BY <1>1, <1>2, <1>3 DEF Next

\* and a stutter is a stutter.
LEMMA RosterNext == IInv /\ [Next]_vars => [R!Next]_R!rosterVars
BY RosterStep DEF vars, R!rosterVars

\* Fabric implements Roster: no listed node appears, disappears or is spoken
\* of but as the abstract specification allows, for every value of the
\* constants.
THEOREM FabricImplementsRoster == Spec => RosterSpec
<1>1. QED
  BY RosterInit, RosterNext, Invariance, PTL DEF Spec, RosterSpec, R!Spec

-----------------------------------------------------------------------------
(* What a step of the fabric says *)

\* The steps that the bus dispatches: all but the ends of the process.
FabricStep ==
    \/ \E o \in Op : Call(o) \/ Proceed(o)
    \/ \E m \in MatterId : GoOnline(m) \/ GoOffline(m)
    \/ \E d \in Device : FactoryReset(d)

LEMMA FabricStepIsNext == FabricStep => Next
BY DEF FabricStep, Next, Surroundings

\* An event about a session is about the node its peer is behind.
LEMMA SessionEvents ==
    ASSUME NEW m \in MatterId
    PROVE  /\ \/ OnlineEvent(m) = Quiet /\ Watched(m) = {}
              \/ \E k \in Watched(m) : OnlineEvent(m) = Connected(k)
           /\ \/ OfflineEvent(m) = Quiet
              \/ \E k \in Watched(m) : OfflineEvent(m) = Disconnected(k)
<1>1. Watched(m) # {} =>
        (CHOOSE n \in NodeId : n \in Watched(m)) \in Watched(m)
  BY DEF Watched
<1>2. Watched(m) \ leaving # {} =>
        (CHOOSE n \in NodeId : n \in Watched(m) \ leaving) \in Watched(m)
  BY DEF Watched
<1>3. QED
  BY <1>1, <1>2 DEF OnlineEvent, OfflineEvent

\* The events are told apart by their names and their nodes.
LEMMA EventsDiffer ==
    ASSUME NEW n, NEW k, NEW r
    PROVE  /\ Quiet \notin {Added(n, r), Removed(n), Connected(n), Disconnected(n)}
           /\ Added(n, r) \notin {Removed(k), Connected(k), Disconnected(k)}
           /\ Removed(n) \notin {Connected(k), Disconnected(k)}
           /\ Connected(n) # Disconnected(k)
           /\ Connected(n) = Connected(k) => n = k
           /\ Disconnected(n) = Disconnected(k) => n = k
           /\ Removed(n) = Removed(k) => n = k
           /\ \A s : Added(n, r) = Added(k, s) => n = k /\ r = s
BY DEF Quiet, Added, Removed, Connected, Disconnected, R!Quiet, R!Added,
       R!Removed, R!Connected, R!Disconnected

\* A stored node comes within reach with an event, and what an event says of a
\* node's reachability is so once it has been said.
Truthful ==
    \A n \in NodeId :
        /\ row'[n] # None /\ ~Reachable(n) /\ Reachable(n)' => emit' = Connected(n)
        /\ emit' = Connected(n) => Reachable(n)'
        /\ emit' = Disconnected(n) => ~Reachable(n)'
        /\ \A r \in BOOLEAN : emit' = Added(n, r) => r = Reachable(n)'

\* A step that says nothing and brings no node within reach is truthful.
LEMMA QuietTruthful ==
    ASSUME emit' = Quiet,
           \A n \in NodeId : Reachable(n)' => Reachable(n) \/ row'[n] = None
    PROVE  Truthful
BY EventsDiffer DEF Truthful

LEMMA FabricTruthful == ASSUME IInv, FabricStep PROVE Truthful
<1> USE DEF IInv
<1>1. ASSUME NEW o \in Op, Call(o) PROVE Truthful
  <2>1. emit' = Quiet /\ UNCHANGED <<mapped, online>>
    BY <1>1 DEF Call, CommissionCall, DecommissionCall
  <2>2. QED
    BY <2>1, QuietTruthful DEF Reachable
<1>2. ASSUME NEW o \in Op, Proceed(o) PROVE Truthful
  <2>1. CASE \/ SdkRefused(o) \/ PersistFails(o)
             \/ RemovalRefused(o) \/ DropFails(o)
    <3>1. emit' = Quiet /\ UNCHANGED <<mapped, online>>
      BY <2>1 DEF SdkRefused, PersistFails, RemovalRefused, DropFails
    <3>2. QED
      BY <3>1, QuietTruthful DEF Reachable
  <2>2. CASE SdkJoined(o)
    <3>1. /\ emit' = Quiet /\ mapped' = mapped
          /\ \E m \in MatterId \ assigned : online' = online \cup {m}
      BY <2>2 DEF SdkJoined
    <3>2. \A n \in NodeId : mapped[n] # None => mapped[n] \in assigned
      BY DEF MattersAssigned
    <3>3. QED
      BY <3>1, <3>2, QuietTruthful DEF Reachable
  <2>3. CASE Register(o) \/ RegisterFails(o)
    <3>1. PICK n \in NodeId \ minted :
             mapped' \in {mapped, [mapped EXCEPT ![n] = op[o].matter]}
      BY <2>3 DEF Register, RegisterFails
    <3>2. emit' = Quiet /\ UNCHANGED <<row, online>>
      BY <2>3 DEF Register, RegisterFails
    <3>3. row[n] = None /\ \A k \in NodeId \ {n} : mapped'[k] = mapped[k]
      BY <3>1 DEF NodesMinted, TypeOK
    <3>4. QED
      BY <3>2, <3>3, QuietTruthful DEF Reachable
  <2>4. CASE Persist(o)
    <3>1. /\ emit' = Added(op[o].node, Reachable(op[o].node))
          /\ UNCHANGED <<mapped, online>>
      BY <2>4 DEF Persist
    <3>2. \A n \in NodeId : Reachable(n)' <=> Reachable(n)
      BY <3>1 DEF Reachable
    <3>3. ASSUME NEW n \in NodeId, NEW r \in BOOLEAN, emit' = Added(n, r)
          PROVE  r = Reachable(n)'
      <4>1. n = op[o].node /\ r = Reachable(op[o].node)
        BY <3>1, <3>3 DEF Added, R!Added
      <4>2. Reachable(n) \in BOOLEAN /\ Reachable(n)' \in BOOLEAN
        BY DEF Reachable
      <4>3. QED
        BY <3>2, <4>1, <4>2
    <3>4. QED
      BY <3>1, <3>2, <3>3, EventsDiffer DEF Truthful
  <2>5. CASE SdkRemoved(o)
    <3>1. op[o].matter \in MatterId
      BY <2>5, RequestFields DEF SdkRemoved, At, Requests, RequestShape
    <3>2. PICK m \in MatterId :
             /\ mapped' = mapped /\ online' = online \ {m}
             /\ emit' \in {OfflineEvent(m), Quiet}
      BY <2>5, <3>1 DEF SdkRemoved
    <3>3. QED
      BY <3>2, SessionEvents, EventsDiffer DEF Truthful, Reachable, Watched
  <2>6. CASE Settle(o)
    <3>1. /\ emit' = Quiet /\ UNCHANGED <<row, online>>
          /\ mapped' = [mapped EXCEPT ![op[o].node] = None]
      BY <2>6 DEF Settle
    <3>2. \A n \in NodeId : mapped'[n] \in {None, mapped[n]}
      BY <3>1 DEF TypeOK
    <3>3. QED
      BY <3>1, <3>2, QuietTruthful DEF Reachable
  <2>7. CASE Drop(o)
    <3>1. emit' = Removed(op[o].node) /\ UNCHANGED <<mapped, online>>
      BY <2>7 DEF Drop
    <3>2. QED
      BY <3>1, EventsDiffer DEF Truthful, Reachable
  <2>8. QED
    BY <1>2, <2>1, <2>2, <2>3, <2>4, <2>5, <2>6, <2>7 DEF Proceed
<1>3. ASSUME NEW m \in MatterId, GoOnline(m) PROVE Truthful
  <2>1. /\ mapped' = mapped /\ online' = online \cup {m}
        /\ emit' = OnlineEvent(m)
    BY <1>3 DEF GoOnline
  <2>2. \A n, k \in Watched(m) : n = k
    BY NoneAssumption DEF Watched, OneNodePerPeer
  <2>3. ASSUME NEW n \in NodeId, ~Reachable(n), Reachable(n)'
        PROVE  emit' = Connected(n)
    <3>1. n \in Watched(m)
      BY <2>1, <2>3 DEF Reachable, Watched
    <3>2. QED
      BY <2>1, <2>2, <3>1, SessionEvents
  <2>4. ASSUME NEW n \in NodeId, emit' = Connected(n)
        PROVE  Reachable(n)'
    <3>1. PICK k \in Watched(m) : emit' = Connected(k)
      BY ZenonT(30), <2>1, <2>4, SessionEvents, EventsDiffer
    <3>2. n = k
      BY <2>4, <3>1, EventsDiffer
    <3>3. QED
      BY <2>1, <3>1, <3>2, NoneAssumption DEF Reachable, Watched
  <2>5. \A n \in NodeId : /\ emit' # Disconnected(n)
                         /\ \A r \in BOOLEAN : emit' # Added(n, r)
    <3>1. emit' = Quiet \/ \E k \in NodeId : emit' = Connected(k)
      BY <2>1, SessionEvents DEF Watched
    <3>2. CASE emit' = Quiet
      BY <3>2, EventsDiffer
    <3>3. ASSUME NEW k \in NodeId, emit' = Connected(k)
          PROVE  \A n \in NodeId : /\ emit' # Disconnected(n)
                                  /\ \A r \in BOOLEAN : emit' # Added(n, r)
      BY <3>3, EventsDiffer
    <3>4. QED
      BY <3>1, <3>2, <3>3
  <2>6. QED
    BY <2>3, <2>4, <2>5 DEF Truthful
<1>4. ASSUME NEW m \in MatterId, GoOffline(m) PROVE Truthful
  <2>1. /\ mapped' = mapped /\ online' = online \ {m}
        /\ emit' = OfflineEvent(m)
    BY <1>4 DEF GoOffline
  <2>2. QED
    BY <2>1, SessionEvents, EventsDiffer DEF Truthful, Reachable, Watched
<1>5. ASSUME NEW d \in Device, FactoryReset(d) PROVE Truthful
  <2>1. emit' = Quiet /\ UNCHANGED <<mapped, online>>
    BY <1>5 DEF FactoryReset
  <2>2. QED
    BY <2>1, QuietTruthful DEF Reachable
<1>6. QED
  BY <1>1, <1>2, <1>3, <1>4, <1>5 DEF FabricStep

\* What the event of a step tells of the stages the nodes are in.
Moves(n, from, to) ==
    /\ Stage(n) = from /\ Stage(n)' = to
    /\ \A k \in NodeId \ {n} : Stage(k)' = Stage(k)

Told ==
    \/ \E n \in NodeId, r \in BOOLEAN :
          emit' = Added(n, r) /\ Moves(n, "unborn", "listed")
    \/ \E n \in NodeId : emit' = Removed(n) /\ Moves(n, "listed", "gone")
    \/ \E n \in NodeId : /\ emit' \in {Connected(n), Disconnected(n)}
                         /\ \A k \in NodeId : Stage(k)' = Stage(k)
    \/ /\ emit' = Quiet
       /\ \A n \in NodeId :
             Stage(n)' # Stage(n) => Stage(n) = "unborn" /\ Stage(n)' = "gone"

LEMMA FabricTold == ASSUME IInv, FabricStep PROVE Told
<1>1. R!Next
  BY RosterStep, FabricStepIsNext
<1>2. ASSUME NEW n \in NodeId, R!List(n) PROVE Told
  BY ZenonT(30), <1>2 DEF R!List, Told, Moves, Stage, Added
<1>3. ASSUME NEW n \in NodeId, R!Delist(n) PROVE Told
  BY ZenonT(30), <1>3 DEF R!Delist, Told, Moves, Stage, Removed
<1>4. ASSUME NEW n \in NodeId, R!Presence(n) PROVE Told
  BY <1>4 DEF R!Presence, Told, Stage, Connected, Disconnected
<1>5. CASE R!Abandon
  BY <1>5 DEF R!Abandon, Told, Stage, Quiet
<1>6. QED
  BY <1>1, <1>2, <1>3, <1>4, <1>5 DEF R!Next

-----------------------------------------------------------------------------
(* Drops in silence *)

\* The SDK has no session with a peer it does not have.
SessionsHavePeers == \A m \in online : peer[m] # None

LEMMA SessionsKeepPeers ==
    ASSUME IInv, SessionsHavePeers, Next
    PROVE  SessionsHavePeers'
<1> USE DEF SessionsHavePeers
<1>0. peer \in [MatterId -> Device \cup {None}] /\ online \subseteq MatterId
  BY DEF IInv, TypeOK
<1>1. ASSUME NEW o \in Op, SdkJoined(o) PROVE SessionsHavePeers'
  <2>1. op[o].dev \in Device
    BY <1>1, RequestFields DEF IInv, SdkJoined, At, Requests, RequestShape
  <2>2. PICK m \in MatterId : /\ peer' = [peer EXCEPT ![m] = op[o].dev]
                              /\ online' = online \cup {m}
    BY <1>1 DEF SdkJoined, WritePeers
  <2>3. QED
    BY <1>0, <2>1, <2>2, NoneAssumption
<1>2. ASSUME NEW o \in Op, SdkRemoved(o) PROVE SessionsHavePeers'
  <2>1. \E m : peer' = [peer EXCEPT ![m] = None] /\ online' = online \ {m}
    BY <1>2 DEF SdkRemoved, WritePeers
  <2>2. QED
    BY <1>0, <2>1
<1>3. ASSUME NEW m \in MatterId, GoOnline(m) PROVE SessionsHavePeers'
  BY <1>3 DEF GoOnline, Answers, stores
<1>4. CASE Restart
  BY <1>4 DEF Restart, Answers, stores
<1>5. CASE Crash \/ PowerCut
  BY <1>5 DEF Crash, PowerCut, Halt
<1>6. CASE /\ peer' = peer /\ online' \subseteq online
  BY <1>6
<1>7. ASSUME NEW o \in Op, Call(o) PROVE UNCHANGED <<peer, online>>
  BY <1>7 DEF Call, CommissionCall, DecommissionCall, stores
<1>8. ASSUME NEW o \in Op, \/ SdkRefused(o) \/ Register(o) \/ RegisterFails(o)
                          \/ Persist(o) \/ PersistFails(o) \/ RemovalRefused(o)
                          \/ Settle(o) \/ Drop(o) \/ DropFails(o)
      PROVE  UNCHANGED <<peer, online>>
  BY <1>8 DEF SdkRefused, Register, RegisterFails, Persist, PersistFails,
              RemovalRefused, Settle, Drop, DropFails, stores
<1>9. ASSUME NEW m \in MatterId, GoOffline(m)
      PROVE  peer' = peer /\ online' \subseteq online
  BY <1>9 DEF GoOffline, stores
<1>10. ASSUME NEW d \in Device, FactoryReset(d) PROVE UNCHANGED <<peer, online>>
  BY <1>10 DEF FactoryReset
<1>11. QED
  BY <1>1, <1>2, <1>3, <1>4, <1>5, <1>6, <1>7, <1>8, <1>9, <1>10
     DEF Next, Proceed, Surroundings

\* A node is only ever lost in silence while its removal has the flag up.
SilentOnlyIfLeaving ==
    \A n \in NodeId :
        Reachable(n) /\ ~Reachable(n)' /\ emit' # Disconnected(n) => n \in leaving

\* When a session ends, its node is reported, or is leaving.
LEMMA SessionEnds ==
    ASSUME IInv, NEW m \in MatterId, mapped' = mapped, online' = online \ {m},
           m \in online => emit' = OfflineEvent(m)
    PROVE  SilentOnlyIfLeaving
<1> SUFFICES ASSUME NEW n \in NodeId, Reachable(n), ~Reachable(n)',
                    n \notin leaving
             PROVE  emit' = Disconnected(n)
  BY DEF SilentOnlyIfLeaving
<1>1. mapped[n] = m /\ m \in online /\ m # None
  BY NoneAssumption DEF Reachable
<1>2. \A k \in Watched(m) : k = n
  BY <1>1 DEF Watched, IInv, OneNodePerPeer
<1>3. Watched(m) \ leaving = {n}
  BY <1>1, <1>2 DEF Watched
<1>4. OfflineEvent(m) = Disconnected(CHOOSE k \in NodeId : k \in {n})
  BY <1>3 DEF OfflineEvent
<1>5. (CHOOSE k \in NodeId : k \in {n}) = n
  OBVIOUS
<1>6. QED
  BY <1>1, <1>4, <1>5

LEMMA FabricSilent ==
    ASSUME IInv, SessionsHavePeers, FabricStep
    PROVE  SilentOnlyIfLeaving
<1>1. ASSUME mapped' = mapped, online \subseteq online' PROVE SilentOnlyIfLeaving
  BY <1>1 DEF SilentOnlyIfLeaving, Reachable
<1>2. ASSUME NEW o \in Op, Register(o) \/ RegisterFails(o)
      PROVE  SilentOnlyIfLeaving
  <2>1. PICK n \in NodeId \ minted :
           mapped' \in {mapped, [mapped EXCEPT ![n] = op[o].matter]}
    BY <1>2 DEF Register, RegisterFails
  <2>2. online' = online /\ mapped[n] = None
    BY <1>2, <2>1 DEF Register, RegisterFails, IInv, NodesMinted
  <2>3. \A k \in NodeId \ {n} : mapped'[k] = mapped[k]
    BY <2>1 DEF IInv, TypeOK
  <2>4. QED
    BY <2>2, <2>3 DEF SilentOnlyIfLeaving, Reachable
<1>3. ASSUME NEW o \in Op, SdkRemoved(o) PROVE SilentOnlyIfLeaving
  <2>1. op[o].matter \in MatterId
    BY <1>3, RequestFields DEF IInv, SdkRemoved, At, Requests, RequestShape
  <2>2. PICK m \in MatterId :
           /\ mapped' = mapped /\ online' = online \ {m}
           /\ m \in online => emit' = OfflineEvent(m)
    BY <1>3, <2>1 DEF SdkRemoved
  <2>3. QED
    BY <2>2, SessionEnds
<1>4. ASSUME NEW o \in Op, Settle(o) PROVE SilentOnlyIfLeaving
  <2>1. PICK n \in NodeId : n = op[o].node
    BY <1>4, RequestFields DEF IInv, Settle, At, Requests, RequestShape
  <2>2. mapped' = [mapped EXCEPT ![n] = None] /\ online' = online
    BY <1>4, <2>1 DEF Settle
  <2>3. mapped[n] \in {None, op[o].matter} /\ peer[op[o].matter] = None
    BY <1>4, <2>1 DEF IInv, Settle, At, Requests, RemovalTarget
  <2>4. ~Reachable(n)
    BY <2>3 DEF Reachable, SessionsHavePeers
  <2>5. \A k \in NodeId \ {n} : mapped'[k] = mapped[k]
    BY <2>2 DEF IInv, TypeOK
  <2>6. QED
    BY <2>2, <2>4, <2>5 DEF SilentOnlyIfLeaving, Reachable
<1>5. ASSUME NEW m \in MatterId, GoOffline(m) PROVE SilentOnlyIfLeaving
  BY <1>5, SessionEnds DEF GoOffline
<1>6. ASSUME NEW o \in Op, Call(o) PROVE UNCHANGED <<mapped, online>>
  BY <1>6 DEF Call, CommissionCall, DecommissionCall
<1>7. ASSUME NEW o \in Op, \/ SdkJoined(o) \/ SdkRefused(o) \/ Persist(o)
                          \/ PersistFails(o) \/ RemovalRefused(o)
                          \/ Drop(o) \/ DropFails(o)
      PROVE  mapped' = mapped /\ online \subseteq online'
  BY <1>7 DEF SdkJoined, SdkRefused, Persist, PersistFails, RemovalRefused,
              Drop, DropFails
<1>8. ASSUME NEW m \in MatterId, GoOnline(m)
      PROVE  mapped' = mapped /\ online \subseteq online'
  BY <1>8 DEF GoOnline
<1>9. ASSUME NEW d \in Device, FactoryReset(d) PROVE UNCHANGED <<mapped, online>>
  BY <1>9 DEF FactoryReset
<1>10. QED
  BY <1>1, <1>2, <1>3, <1>4, <1>5, <1>6, <1>7, <1>8, <1>9 DEF FabricStep, Proceed

-----------------------------------------------------------------------------
(* What a client makes of it *)

\* A frame leaves a copy a copy, and an event changes it for its node alone.
LEMMA ApplyTyped ==
    ASSUME NEW h \in [NodeId -> Held], NEW f \in Frame
    PROVE  Apply(h, f) \in [NodeId -> Held]
<1>1. \A r : Shown(r) \in Held
  BY DEF Shown, Held
<1>2. CASE f \in Event
  <2>1. \A v \in Held : \A n : [h EXCEPT ![n] = v] \in [NodeId -> Held]
    OBVIOUS
  <2>2. CASE f.name = "quiet"
    BY <2>2 DEF Apply
  <2>3. CASE f.name = "node:added"
    BY <1>1, <2>1, <2>3 DEF Apply
  <2>4. CASE f.name = "node:removed"
    BY <2>1, <2>4 DEF Apply, Held
  <2>5. CASE f.name \in {"node:connected", "node:disconnected"}
    BY <1>1, <2>1, <2>5 DEF Apply
  <2>6. QED
    BY <1>2, <2>2, <2>3, <2>4, <2>5 DEF Event
<1>3. CASE f \in [name : {"snapshot"}, nodes : [NodeId -> Held]]
  BY <1>3 DEF Apply
<1>4. CASE f \in [name : {"response"}, node : NodeId \cup {None}]
  BY <1>4 DEF Apply
<1>5. QED
  BY <1>2, <1>3, <1>4 DEF Frame

LEMMA EventsApplied ==
    ASSUME NEW h \in [NodeId -> Held], NEW n \in NodeId
    PROVE  /\ \A r \in BOOLEAN :
                 Apply(h, Added(n, r)) = [h EXCEPT ![n] = Shown(r)]
           /\ Apply(h, Removed(n)) = [h EXCEPT ![n] = "absent"]
           /\ Apply(h, Connected(n)) =
                 IF h[n] = "absent" THEN h ELSE [h EXCEPT ![n] = "up"]
           /\ Apply(h, Disconnected(n)) =
                 IF h[n] = "absent" THEN h ELSE [h EXCEPT ![n] = "down"]
BY DEF Apply, Added, Removed, Connected, Disconnected, R!Added, R!Removed,
       R!Connected, R!Disconnected, Shown

\* A copy that is right, up to the nodes it was not told of and the drops that
\* were not announced.
True(h, lost) ==
    /\ h \in [NodeId -> Held]
    /\ \A n \in NodeId :
          /\ h[n] = "absent" <=> row[n] = None \/ n \in lost
          /\ row[n] # None /\ Reachable(n) => h[n] # "down"
          /\ h[n] = "up" /\ ~Reachable(n) => n \in hushed

\* The copy of a client that is sent the event of a step.
Afterwards(h) == IF emit'.name = "quiet" THEN h ELSE Apply(h, emit')

\* What Dispatch keeps of the nodes that went out of reach in silence.
Hushes ==
    /\ hushed' = (hushed \cup NewlyHushed)
                     \ {n \in NodeId : emit' \in {Connected(n), Removed(n)}}
    /\ SilentOnlyIfLeaving

\* A right copy is right after a step that its client is not told of, if that
\* brings a node, but for the node.
LEMMA TrueUntold ==
    ASSUME Truthful, Hushes, NEW h, NEW lost, True(h, lost),
           NEW n \in NodeId, NEW r \in BOOLEAN,
           emit' = Added(n, r), Moves(n, "unborn", "listed")
    PROVE  True(h, lost \cup {n})'
<1>1. /\ \A k \in NodeId : row[k] = None <=> Stage(k) # "listed"
      /\ \A k \in NodeId : row'[k] = None <=> Stage(k)' # "listed"
  BY DEF Stage
<1>2. row[n] = None /\ \A k \in NodeId \ {n} : row'[k] = None <=> row[k] = None
  BY <1>1 DEF Moves
<1>3. h[n] = "absent"
  BY <1>2 DEF True
<1>4. \A k \in NodeId : emit' \notin {Connected(k), Removed(k), Disconnected(k)}
  BY EventsDiffer
<1>5. \A k \in NodeId : /\ k \in hushed => k \in hushed'
                        /\ Reachable(k) /\ ~Reachable(k)' => k \in hushed'
  BY <1>4 DEF Hushes, NewlyHushed, SilentOnlyIfLeaving
<1>6. QED
  BY <1>2, <1>3, <1>4, <1>5 DEF True, Truthful, Held

\* A right copy is right after the step, for the client that is told of it.
LEMMA TrueAfterwards ==
    ASSUME Told, Truthful, Hushes, NEW h, NEW lost, True(h, lost),
           \A n \in NodeId : n \in lost => Stage(n) # "unborn",
           NEW g, g = Afterwards(h)
    PROVE  True(g, lost)'
<1> USE DEF True
<1>0. /\ \A n \in NodeId : row[n] = None <=> Stage(n) # "listed"
      /\ \A n \in NodeId : row'[n] = None <=> Stage(n)' # "listed"
  BY DEF Stage
<1>1. ASSUME NEW n \in NodeId, NEW r \in BOOLEAN,
             emit' = Added(n, r), Moves(n, "unborn", "listed")
      PROVE  True(g, lost)'
  <2>1. g = [h EXCEPT ![n] = Shown(r)] /\ Shown(r) \in {"up", "down"}
    <3>1. emit'.name # "quiet"
      BY <1>1 DEF Added, R!Added
    <3>2. g = Apply(h, Added(n, r))
      BY <1>1, <3>1 DEF Afterwards
    <3>3. QED
      BY <3>2, EventsApplied DEF Shown
  <2>2. r = Reachable(n)' /\ (Shown(r) = "up" <=> r)
    BY <1>1 DEF Truthful, Shown
  <2>3. \A k \in NodeId \ {n} : row'[k] = None <=> row[k] = None
    BY <1>0, <1>1 DEF Moves
  <2>4. row'[n] # None /\ n \notin lost
    BY <1>0, <1>1 DEF Moves
  <2>5. \A k \in NodeId : emit' \notin {Connected(k), Removed(k), Disconnected(k)}
    BY <1>1, EventsDiffer
  <2>6. \A k \in NodeId : /\ k \in hushed => k \in hushed'
                          /\ Reachable(k) /\ ~Reachable(k)' => k \in hushed'
    BY <2>5 DEF Hushes, NewlyHushed, SilentOnlyIfLeaving
  <2>7. QED
    BY <2>1, <2>2, <2>3, <2>4, <2>5, <2>6 DEF Truthful, Held
<1>2. ASSUME NEW n \in NodeId, emit' = Removed(n), Moves(n, "listed", "gone")
      PROVE  True(g, lost)'
  <2>1. g = [h EXCEPT ![n] = "absent"]
    BY <1>2, EventsApplied DEF Afterwards, Removed, R!Removed
  <2>2. \A k \in NodeId \ {n} : row'[k] = None <=> row[k] = None
    BY <1>0, <1>2 DEF Moves
  <2>3. row'[n] = None
    BY <1>0, <1>2 DEF Moves
  <2>4. \A k \in NodeId : /\ emit' \notin {Connected(k), Disconnected(k)}
                          /\ emit' = Removed(k) => k = n
    BY <1>2, EventsDiffer
  <2>5. \A k \in NodeId \ {n} :
           /\ k \in hushed => k \in hushed'
           /\ Reachable(k) /\ ~Reachable(k)' => k \in hushed'
    BY <2>4 DEF Hushes, NewlyHushed, SilentOnlyIfLeaving
  <2>6. QED
    BY <2>1, <2>2, <2>3, <2>4, <2>5 DEF Truthful, Held
<1>3. ASSUME NEW n \in NodeId, emit' = Connected(n),
             \A k \in NodeId : Stage(k)' = Stage(k)
      PROVE  True(g, lost)'
  <2>1. g = IF h[n] = "absent" THEN h ELSE [h EXCEPT ![n] = "up"]
    BY <1>3, EventsApplied DEF Afterwards, Connected, R!Connected
  <2>2. \A k \in NodeId : row'[k] = None <=> row[k] = None
    BY <1>0, <1>3
  <2>3. \A k \in NodeId : /\ emit' \notin {Removed(k), Disconnected(k)}
                          /\ emit' = Connected(k) => k = n
    BY <1>3, EventsDiffer
  <2>4. Reachable(n)'
    BY <1>3 DEF Truthful
  <2>5. \A k \in NodeId \ {n} :
           /\ k \in hushed => k \in hushed'
           /\ Reachable(k) /\ ~Reachable(k)' => k \in hushed'
    BY <2>3 DEF Hushes, NewlyHushed, SilentOnlyIfLeaving
  <2>6. QED
    BY <2>1, <2>2, <2>3, <2>4, <2>5 DEF Truthful, Held
<1>4. ASSUME NEW n \in NodeId, emit' = Disconnected(n),
             \A k \in NodeId : Stage(k)' = Stage(k)
      PROVE  True(g, lost)'
  <2>1. g = IF h[n] = "absent" THEN h ELSE [h EXCEPT ![n] = "down"]
    BY <1>4, EventsApplied DEF Afterwards, Disconnected, R!Disconnected
  <2>2. \A k \in NodeId : row'[k] = None <=> row[k] = None
    BY <1>0, <1>4
  <2>3. \A k \in NodeId : /\ emit' \notin {Removed(k), Connected(k)}
                          /\ emit' = Disconnected(k) => k = n
    BY <1>4, EventsDiffer
  <2>4. ~Reachable(n)'
    BY <1>4 DEF Truthful
  <2>5. \A k \in NodeId \ {n} :
           /\ k \in hushed => k \in hushed'
           /\ Reachable(k) /\ ~Reachable(k)' => k \in hushed'
    BY <2>3 DEF Hushes, NewlyHushed, SilentOnlyIfLeaving
  <2>6. QED
    BY <2>1, <2>2, <2>3, <2>4, <2>5 DEF Truthful, Held
<1>5. ASSUME emit' = Quiet,
             \A n \in NodeId : Stage(n)' # Stage(n) =>
                Stage(n) = "unborn" /\ Stage(n)' = "gone"
      PROVE  True(g, lost)'
  <2>1. g = h
    BY <1>5 DEF Afterwards, Quiet, R!Quiet
  <2>2. \A k \in NodeId : row'[k] = None <=> row[k] = None
    BY <1>0, <1>5
  <2>3. \A k \in NodeId :
           emit' \notin {Removed(k), Connected(k), Disconnected(k)}
    BY <1>5, EventsDiffer
  <2>4. \A k \in NodeId :
           /\ k \in hushed => k \in hushed'
           /\ Reachable(k) /\ ~Reachable(k)' => k \in hushed'
    BY <2>3 DEF Hushes, NewlyHushed, SilentOnlyIfLeaving
  <2>5. QED
    BY <2>1, <2>2, <2>3, <2>4 DEF Truthful, Held
<1>6. QED
  BY <1>1, <1>2, <1>3, <1>4, <1>5 DEF Told
-----------------------------------------------------------------------------
(* Folding *)

\* The library's induction theorems take a predicate; its least-element
\* theorem takes a set, and gives induction over sets of numbers.
Below == {p \in Nat \X Nat : p[1] < p[2]}

LEMMA BelowWellFounded == IsWellFoundedOn(Below, Nat)
<1>1. OpToRel(<, Nat) = Below
  BY DEF OpToRel, Below
<1>2. QED
  BY <1>1, NatLessThanWellFounded

\* A set with zero, and with the successor of each of its numbers, has all.
LEMMA Induction ==
    ASSUME NEW T, 0 \in T, \A n \in Nat : n \in T => n + 1 \in T
    PROVE  \A n \in Nat : n \in T
<1> DEFINE Rest == Nat \ T
<1> SUFFICES ASSUME Rest # {} PROVE FALSE
  OBVIOUS
<1>1. PICK x \in Rest : \A y \in Rest : ~(<<y, x>> \in Below)
  <2>1. Rest \subseteq Nat
    OBVIOUS
  <2> HIDE DEF Rest
  <2>2. QED
    BY <2>1, WFMin, BelowWellFounded
<1>2. x # 0 /\ x - 1 \in Nat
  BY <1>1
<1>3. <<x - 1, x>> \in Below
  BY <1>1, <1>2 DEF Below
<1>4. QED
  BY <1>1, <1>2, <1>3

\* What a client holds once it has applied some frames to what it held.
Fold(held, frames) == FoldLeft(Apply, held, frames)

\* The function behind it, which folds over a set of positions.
Unrolls(g, n, held, frames) ==
    g = [s \in SUBSET (1 .. n) |->
            IF s = {} THEN held
            ELSE Apply(g[s \ {Max(s)}], frames[Max(s)])]

LEMMA TopIsMax ==
    ASSUME NEW n \in Nat, NEW s \in SUBSET (1 .. n + 1), n + 1 \in s
    PROVE  Max(s) = n + 1
<1> DEFINE m == Max(s)
<1>1. \A y \in s : y \in Nat /\ n + 1 >= y
  OBVIOUS
<1>2. m \in s /\ m >= n + 1
  BY <1>1 DEF Max
<1> HIDE DEF m
<1>3. m = n + 1
  BY <1>1, <1>2
<1>4. QED
  BY <1>3 DEF m

\* There is such a function for any number of frames,
LEMMA UnrollExists ==
    ASSUME NEW held, NEW frames
    PROVE  \A n \in Nat : \E g : Unrolls(g, n, held, frames)
<1> DEFINE T == {n \in Nat : \E g : Unrolls(g, n, held, frames)}
<1>1. 0 \in T
  <2>1. Unrolls([s \in SUBSET (1 .. 0) |-> held], 0, held, frames)
    BY DEF Unrolls
  <2>2. QED
    BY <2>1
<1>2. ASSUME NEW n \in Nat, n \in T
      PROVE  n + 1 \in T
  <2>1. PICK g : Unrolls(g, n, held, frames)
    BY <1>2
  <2> DEFINE h == [s \in SUBSET (1 .. n + 1) |->
                     IF n + 1 \in s THEN Apply(g[s \ {n + 1}], frames[n + 1])
                     ELSE g[s]]
  <2>2. ASSUME NEW s \in SUBSET (1 .. n + 1)
        PROVE  h[s] = IF s = {} THEN held
                      ELSE Apply(h[s \ {Max(s)}], frames[Max(s)])
    <3>1. CASE n + 1 \in s
      <4>1. /\ Max(s) = n + 1 /\ s \ {n + 1} \in SUBSET (1 .. n + 1)
            /\ n + 1 \notin s \ {n + 1}
        BY <3>1, TopIsMax
      <4>2. QED
        BY <3>1, <4>1
    <3>2. CASE n + 1 \notin s
      <4>0. \A i \in s : i \in 1 .. n + 1 /\ i # n + 1
        BY <3>2
      <4>1. s \in SUBSET (1 .. n)
        <5>1. \A i \in s : i \in 1 .. n
          BY <4>0
        <5>2. QED
          BY <5>1
      <4>2. g[s] = IF s = {} THEN held
                   ELSE Apply(g[s \ {Max(s)}], frames[Max(s)])
        BY <2>1, <4>1 DEF Unrolls
      <4>3. h[s] = g[s] /\ h[s \ {Max(s)}] = g[s \ {Max(s)}]
        <5>1. s \ {Max(s)} \in SUBSET (1 .. n + 1) /\ n + 1 \notin s \ {Max(s)}
          BY <3>2
        <5>2. QED
          BY <3>2, <5>1
      <4>4. QED
        BY <4>2, <4>3
    <3>3. QED
      BY <3>1, <3>2
  <2>3. Unrolls(h, n + 1, held, frames)
    BY <2>2 DEF Unrolls
  <2>4. QED
    BY <2>3
<1> HIDE DEF T
<1>3. \A n \in Nat : n \in T
  BY <1>1, <1>2, Induction
<1>4. QED
  BY <1>3 DEF T

LEMMA FoldUnrolls ==
    ASSUME NEW held, NEW frames, NEW n \in Nat, DOMAIN frames = 1 .. n
    PROVE  \E g : Unrolls(g, n, held, frames) /\ Fold(held, frames) = g[1 .. n]
<1>1. Fold(held, frames) = (CHOOSE g : Unrolls(g, n, held, frames))[1 .. n]
  BY DEF Fold, FoldLeft, MapThenFoldSet, Unrolls
<1>2. Unrolls(CHOOSE g : Unrolls(g, n, held, frames), n, held, frames)
  BY UnrollExists
<1>3. QED
  BY <1>1, <1>2

\* which applies the frames one by one.
LEMMA UnrollStep ==
    ASSUME NEW n \in Nat, NEW held, NEW frames, NEW g,
           Unrolls(g, n, held, frames)
    PROVE  /\ g[1 .. 0] = held
           /\ \A k \in Nat : k + 1 <= n =>
                 g[1 .. k + 1] = Apply(g[1 .. k], frames[k + 1])
<1>1. g[1 .. 0] = held
  <2>1. 1 .. 0 = {}
    OBVIOUS
  <2>2. QED
    BY <2>1 DEF Unrolls
<1>2. ASSUME NEW k \in Nat, k + 1 <= n
      PROVE  g[1 .. k + 1] = Apply(g[1 .. k], frames[k + 1])
  <2> DEFINE s == 1 .. k + 1
  <2>1. s \in SUBSET (1 .. n) /\ s # {} /\ k + 1 \in s
    BY <1>2
  <2>2. s \ {k + 1} = 1 .. k
    OBVIOUS
  <2>3. Max(s) = k + 1
    BY <2>1, TopIsMax
  <2> HIDE DEF s
  <2>4. g[s] = Apply(g[s \ {Max(s)}], frames[Max(s)])
    BY <2>1 DEF Unrolls
  <2>5. QED
    BY <2>2, <2>3, <2>4 DEF s
<1>3. QED
  BY <1>1, <1>2

\* Two of them agree as far as their frames do.
LEMMA UnrollsAgree ==
    ASSUME NEW n \in Nat, NEW m \in Nat, n <= m, NEW held, NEW p, NEW q,
           \A i \in 1 .. n : p[i] = q[i],
           NEW g, Unrolls(g, n, held, p), NEW h, Unrolls(h, m, held, q)
    PROVE  g[1 .. n] = h[1 .. n]
<1> DEFINE T == {k \in Nat : k <= n => g[1 .. k] = h[1 .. k]}
<1>1. 0 \in T
  BY UnrollStep
<1>2. ASSUME NEW k \in Nat, k \in T
      PROVE  k + 1 \in T
  <2>1. SUFFICES ASSUME k + 1 <= n PROVE g[1 .. k + 1] = h[1 .. k + 1]
    OBVIOUS
  <2>2. g[1 .. k] = h[1 .. k] /\ p[k + 1] = q[k + 1] /\ k + 1 <= m
    BY <1>2, <2>1
  <2>3. /\ g[1 .. k + 1] = Apply(g[1 .. k], p[k + 1])
        /\ h[1 .. k + 1] = Apply(h[1 .. k], q[k + 1])
    BY <2>1, <2>2, UnrollStep
  <2>4. QED
    BY <2>2, <2>3
<1> HIDE DEF T
<1>3. \A k \in Nat : k \in T
  BY <1>1, <1>2, Induction
<1>4. QED
  BY <1>3 DEF T

\* No frame leaves things as they are.
LEMMA FoldNothing == \A held : Fold(held, <<>>) = held
<1>1. TAKE held
<1>2. DOMAIN <<>> = 1 .. 0
  OBVIOUS
<1>3. PICK g : Unrolls(g, 0, held, <<>>) /\ Fold(held, <<>>) = g[1 .. 0]
  BY <1>2, FoldUnrolls
<1>4. QED
  BY <1>3, UnrollStep

\* A frame that is sent is applied last,
LEMMA FoldAppend ==
    ASSUME NEW S, NEW frames \in Seq(S), NEW f \in S, NEW held
    PROVE  Fold(held, Append(frames, f)) = Apply(Fold(held, frames), f)
<1> DEFINE n == Len(frames)
           more == Append(frames, f)
<1>1. /\ n \in Nat /\ DOMAIN frames = 1 .. n /\ DOMAIN more = 1 .. n + 1
      /\ more[n + 1] = f /\ \A i \in 1 .. n : frames[i] = more[i]
  OBVIOUS
<1> HIDE DEF n, more
<1>2. PICK g : Unrolls(g, n, held, frames) /\ Fold(held, frames) = g[1 .. n]
  BY <1>1, FoldUnrolls
<1>3. PICK h : Unrolls(h, n + 1, held, more) /\ Fold(held, more) = h[1 .. n + 1]
  BY <1>1, FoldUnrolls
<1>4. g[1 .. n] = h[1 .. n]
  BY <1>1, <1>2, <1>3, UnrollsAgree
<1>5. h[1 .. n + 1] = Apply(h[1 .. n], f)
  <2>1. \A k \in Nat : k + 1 <= n + 1 =>
           h[1 .. k + 1] = Apply(h[1 .. k], more[k + 1])
    BY <1>1, <1>3, UnrollStep
  <2>2. QED
    BY <1>1, <2>1
<1>6. QED
  BY <1>2, <1>3, <1>4, <1>5 DEF more

LEMMA FoldOne ==
    ASSUME NEW S, NEW s \in Seq(S), Len(s) = 1, NEW held
    PROVE  Fold(held, s) = Fold(Apply(held, Head(s)), Tail(s))
<1>1. s[1] \in S /\ <<>> \in Seq(S)
  OBVIOUS
<1>2. s = Append(<<>>, s[1]) /\ Head(s) = s[1] /\ Tail(s) = <<>>
  <2>1. Len(Append(<<>>, s[1])) = 1 /\ Append(<<>>, s[1])[1] = s[1]
    OBVIOUS
  <2>2. s = Append(<<>>, s[1])
    BY <1>1, <2>1, SeqEqual
  <2>3. Tail(s) \in Seq(S) /\ Len(Tail(s)) = 0
    OBVIOUS
  <2>4. Tail(s) = <<>>
    BY <2>3, EmptySeq
  <2>5. Head(s) = s[1]
    BY <1>1, <2>2, HeadTailAppend
  <2>6. QED
    BY <2>2, <2>4, <2>5
<1>3. PICK e \in S : s = Append(<<>>, e) /\ Head(s) = e
  BY <1>1, <1>2
<1>4. Fold(held, s) = Apply(Fold(held, <<>>), e)
  BY <1>1, <1>3, FoldAppend
<1>5. QED
  BY <1>2, <1>3, <1>4, FoldNothing

\* and the one that is received is applied first.
LEMMA FoldReceived ==
    ASSUME NEW S, NEW frames \in Seq(S), frames # <<>>, NEW held
    PROVE  Fold(held, frames) = Fold(Apply(held, Head(frames)), Tail(frames))
<1> DEFINE T == {n \in Nat :
                   \A s \in Seq(S) : Len(s) = n + 1 =>
                      Fold(held, s) = Fold(Apply(held, Head(s)), Tail(s))}
<1>1. 0 \in T
  BY FoldOne
<1>2. ASSUME NEW n \in Nat, n \in T
      PROVE  n + 1 \in T
  <2>1. ASSUME NEW s \in Seq(S), Len(s) = n + 2
        PROVE  Fold(held, s) = Fold(Apply(held, Head(s)), Tail(s))
    <3> DEFINE r == SubSeq(s, 1, n + 1)
               e == s[n + 2]
    <3>1. /\ r \in Seq(S) /\ Len(r) = n + 1 /\ e \in S /\ s = Append(r, e)
      BY <2>1
    <3> HIDE DEF r, e
    <3>0. r # <<>>
      BY <3>1
    <3>2. /\ Head(s) = Head(r) /\ Tail(s) = Append(Tail(r), e)
          /\ Tail(r) \in Seq(S)
      BY <3>0, <3>1, HeadTailAppend
    <3>3. Fold(held, r) = Fold(Apply(held, Head(r)), Tail(r))
      BY <1>2, <3>1
    <3>4. Fold(held, s) = Apply(Fold(held, r), e)
      BY <3>1, FoldAppend
    <3>5. Fold(Apply(held, Head(s)), Tail(s)) =
             Apply(Fold(Apply(held, Head(r)), Tail(r)), e)
      BY <3>1, <3>2, FoldAppend
    <3>6. QED
      BY <3>3, <3>4, <3>5
  <2>2. QED
    BY <2>1
<1> HIDE DEF T
<1>3. \A n \in Nat : n \in T
  BY <1>1, <1>2, Induction
<1>4. Len(frames) - 1 \in Nat
  OBVIOUS
<1>5. QED
  BY <1>3, <1>4 DEF T

-----------------------------------------------------------------------------
(* The inductive invariant *)

Frames == wire \in [Client -> Seq(Frame)]

\* Nobody is connected to a process that is down.
AllClosed == ~up => \A c \in Client : link[c] = "closed"

\* A commissioning that succeeded has listed its node, and so has one that a
\* client was told of: nothing can announce the node after that.
Born(n) == n # None => Stage(n) # "unborn"
OpsBorn ==
    \A o \in Op :
        op[o].kind = "commission" /\ op[o].pc \in {"idle", "ok"} => Born(op[o].node)
AnswersBorn ==
    \A c \in Client : \A i \in 1 .. Len(wire[c]) :
        wire[c][i].name = "response" => Born(wire[c][i].node)

\* EventBeforeResponse, whoever the client is.
EventsFirst ==
    \A c \in Client : \A i, j \in 1 .. Len(wire[c]) :
        i < j /\ wire[c][i].name = "response" /\ wire[c][j].name = "node:added"
            => wire[c][i].node # wire[c][j].node

\* A client was not told of a node that was there to be told of.
MissedBorn == \A c \in Client : \A n \in missed[c] : Born(n)

CopiesTrue == \A c \in Live : True(Settled(c), missed[c])

CIInv ==
    /\ IInv
    /\ ClientsTypeOK /\ Frames
    /\ AllClosed
    /\ SessionsHavePeers
    /\ OpsBorn /\ AnswersBorn /\ EventsFirst /\ MissedBorn
    /\ CopiesTrue

LEMMA SettledIsFold == \A c : Settled(c) = Fold(copy[c], wire[c])
BY DEF Settled, Fold

\* The type invariant of the frames, from their type.
LEMMA FramesTyped ==
    ASSUME Frames, NEW c \in Client, NEW i \in 1 .. Len(wire[c])
    PROVE  wire[c][i] \in Frame
BY DEF Frames

\* A stage only ever goes on.
LEMMA BornForGood ==
    ASSUME Told, NEW n \in NodeId \cup {None}, Born(n)
    PROVE  Born(n)'
BY DEF Told, Moves, Born

\* A commissioning comes to rest, answered, when its node is listed.
LEMMA RestsListed ==
    ASSUME IInv, FabricStep, NEW o \in Op
    PROVE  \/ op'[o] = op[o]
           \/ op'[o].pc \notin {"idle", "ok"}
           \/ op'[o].kind # "commission"
           \/ row'[op'[o].node] # None
<1> USE DEF IInv
<1>1. ASSUME NEW p \in Op, Call(p) PROVE op'[o] = op[o] \/ op'[o].pc \notin {"idle", "ok"}
  <2>1. ASSUME NEW d \in Device, CommissionCall(p, d)
        PROVE  op'[o] = op[o] \/ op'[o].pc \notin {"idle", "ok"}
    BY <2>1, CalledToCommission
  <2>2. ASSUME NEW n \in NodeId, NEW force \in BOOLEAN, DecommissionCall(p, n, force)
        PROVE  op'[o] = op[o] \/ op'[o].pc \notin {"idle", "ok"}
    BY <2>2, CalledToDecommission
  <2>3. QED
    BY <1>1, <2>1, <2>2 DEF Call
<1>2. ASSUME NEW p \in Op, Proceed(p), p # o PROVE op'[o] = op[o]
  BY ZenonT(30), <1>2, AnswerFields, Moved
     DEF Proceed, SdkJoined, SdkRefused, Register, RegisterFails, Persist,
         PersistFails, Undo, SdkRemoved, RemovalRefused, Refused, Settle, Drop,
         DropFails, TypeOK, Phases
<1>3. CASE SdkJoined(o)
  BY <1>3, JoinedBySdk DEF SdkJoined
<1>4. CASE Register(o)
  BY <1>4, Registered DEF Register
<1>5. CASE \/ SdkRefused(o) \/ RegisterFails(o) \/ RemovalRefused(o)
           \/ DropFails(o)
  <2>1. Answer(o, "failed")
    BY <1>5 DEF SdkRefused, RegisterFails, RemovalRefused, Refused, DropFails
  <2>2. QED
    BY <2>1, AnswerFields DEF Phases
<1>6. CASE Persist(o)
  <2>1. /\ Answer(o, "ok") /\ op[o].node \in NodeId /\ op[o].matter \in MatterId
        /\ row' = [row EXCEPT ![op[o].node] = op[o].matter]
    BY <1>6, RequestFields DEF Persist, At, Requests, RequestShape
  <2>2. op'[o].node = op[o].node
    BY <2>1, AnswerFields DEF Phases
  <2>3. QED
    BY <2>1, <2>2, NoneAssumption DEF TypeOK
<1>7. CASE PersistFails(o) \/ SdkRemoved(o) \/ Settle(o)
  <2>1. \E phase \in Phases \ {"idle", "ok"} : Answer(o, phase) \/ Goto(o, phase)
    BY <1>7 DEF PersistFails, Undo, SdkRemoved, Settle, Phases
  <2>2. QED
    BY <2>1, AnswerFields, Moved
<1>8. CASE Drop(o)
  <2>1. Answer(o, "ok") /\ op[o].kind = "decommission"
    BY <1>8 DEF Drop, At, Requests, RequestShape
  <2>2. QED
    BY <2>1, AnswerFields DEF Phases
<1>9. CASE UNCHANGED op
  BY <1>9
<1>10. QED
  BY <1>1, <1>2, <1>3, <1>4, <1>5, <1>6, <1>7, <1>8, <1>9
     DEF FabricStep, Proceed, GoOnline, GoOffline, FactoryReset

LEMMA OpsStayBorn ==
    ASSUME IInv, OpsBorn, FabricStep, Told
    PROVE  OpsBorn'
<1> SUFFICES ASSUME NEW o \in Op, op'[o].kind = "commission",
                    op'[o].pc \in {"idle", "ok"}
             PROVE  Born(op[o].node)'
  BY DEF OpsBorn
<1>1. CASE op'[o] = op[o]
  <2>1. PICK n \in NodeId \cup {None} : n = op[o].node
    BY RequestFields DEF IInv
  <2>2. Born(n)
    BY <1>1, <2>1 DEF OpsBorn
  <2>3. QED
    BY <1>1, <2>1, <2>2, BornForGood
<1>2. CASE row'[op'[o].node] # None
  BY <1>2 DEF Born, Stage
<1>3. QED
  BY <1>1, <1>2, RestsListed

-----------------------------------------------------------------------------
(* Every step keeps it: the steps of the fabric *)

\* A step that announces a node lists it.
LEMMA AddedHasNode ==
    ASSUME Told, emit'.name = "node:added"
    PROVE  \E n \in NodeId, r \in BOOLEAN :
              /\ emit' = Added(n, r) /\ emit'.node = n
              /\ Moves(n, "unborn", "listed")
BY DEF Told, Added, Removed, Connected, Disconnected, Quiet,
       R!Added, R!Removed, R!Connected, R!Disconnected, R!Quiet

\* The frames of a client after a step of the fabric: it is told of it, unless
\* JSON cannot carry the node that it brings.
LEMMA Forwarded ==
    ASSUME Frames, missed \in [Client -> SUBSET NodeId], Forward, emit' \in Event,
           NEW c \in Client
    PROVE  \/ /\ wire'[c] = wire[c] /\ missed'[c] = missed[c]
              /\ ~(c \in Live /\ emit'.name # "quiet")
           \/ /\ wire'[c] = wire[c] /\ missed'[c] = missed[c] \cup {emit'.node}
              /\ c \in Live /\ emit'.name = "node:added"
           \/ /\ wire'[c] = Append(wire[c], emit') /\ missed'[c] = missed[c]
              /\ c \in Live /\ emit'.name # "quiet"
              /\ emit' \in Frame /\ Len(wire'[c]) = Len(wire[c]) + 1
              /\ wire'[c][Len(wire[c]) + 1] = emit'
              /\ \A i \in 1 .. Len(wire[c]) : wire'[c][i] = wire[c][i]
<1>1. PICK carried \in BOOLEAN :
         /\ emit'.name # "node:added" => carried
         /\ wire'[c] = IF c \in Live /\ emit'.name # "quiet" /\ carried
                       THEN Append(wire[c], emit') ELSE wire[c]
         /\ missed'[c] = IF c \in Live /\ ~carried
                         THEN missed[c] \cup {emit'.node} ELSE missed[c]
  BY DEF Forward
<1>2. emit' \in Frame
  BY DEF Frame
<1>3. wire[c] \in Seq(Frame)
  BY DEF Frames
<1>4. QED
  BY <1>1, <1>2, <1>3, AppendProperties

LEMMA ForwardFrames ==
    ASSUME Frames, missed \in [Client -> SUBSET NodeId], Forward, emit' \in Event,
           Told
    PROVE  Frames' /\ missed' \in [Client -> SUBSET NodeId]
<1>1. PICK carried \in BOOLEAN :
         /\ emit'.name # "node:added" => carried
         /\ wire' = [c \in Client |->
                       IF c \in Live /\ emit'.name # "quiet" /\ carried
                       THEN Append(wire[c], emit') ELSE wire[c]]
         /\ missed' = [c \in Client |->
                         IF c \in Live /\ ~carried
                         THEN missed[c] \cup {emit'.node} ELSE missed[c]]
  BY DEF Forward
<1>2. emit' \in Frame
  BY DEF Frame
<1>3. \A c \in Client : wire[c] \in Seq(Frame) /\ Append(wire[c], emit') \in Seq(Frame)
  BY <1>2 DEF Frames
<1>4. Frames'
  BY <1>1, <1>3 DEF Frames
<1>5. carried \/ emit'.node \in NodeId
  BY <1>1, AddedHasNode
<1>6. QED
  BY <1>1, <1>4, <1>5

LEMMA DispatchKeeps ==
    ASSUME CIInv, FabricStep, Dispatch, caller' \in [Op -> Client \cup {None}]
    PROVE  CIInv'
<1>1. IInv' /\ Told /\ Truthful /\ SilentOnlyIfLeaving /\ SessionsHavePeers'
  BY FabricStepIsNext, NextKeepsIInv, FabricTold, FabricTruthful, FabricSilent,
     SessionsKeepPeers DEF CIInv
<1>2. emit' \in Event /\ up' = up
  <2>1. emit' \in Event
    BY <1>1 DEF IInv, TypeOK
  <2>2. ASSUME NEW o \in Op, Call(o) \/ Proceed(o) PROVE up' = up
    BY <2>2 DEF Call, CommissionCall, DecommissionCall, Proceed, SdkJoined,
                SdkRefused, Register, RegisterFails, Persist, PersistFails,
                SdkRemoved, RemovalRefused, Settle, Drop, DropFails
  <2>3. QED
    BY <2>1, <2>2 DEF FabricStep, GoOnline, GoOffline, FactoryReset
<1>3. /\ Frames /\ Frames' /\ UNCHANGED <<link, copy>> /\ Hushes
      /\ missed \in [Client -> SUBSET NodeId] /\ missed' \in [Client -> SUBSET NodeId]
  BY <1>1, <1>2, ForwardFrames DEF CIInv, ClientsTypeOK, Dispatch, Hushes
<1>0. \A c \in Client :
         /\ Len(wire[c]) \in Nat
         /\ \/ wire'[c] = wire[c]
            \/ /\ Len(wire'[c]) = Len(wire[c]) + 1
               /\ wire'[c][Len(wire[c]) + 1] = emit'
               /\ \A i \in 1 .. Len(wire[c]) : wire'[c][i] = wire[c][i]
  BY <1>2, <1>3, Forwarded DEF Dispatch, Frames
<1>4. ClientsTypeOK'
  <2>1. hushed' \in SUBSET NodeId
    BY <1>3 DEF CIInv, IInv, TypeOK, ClientsTypeOK, Hushes, NewlyHushed
  <2>2. \A c \in Client : \A i \in 1 .. Len(wire'[c]) : wire'[c][i] \in Frame
    BY <1>3 DEF Frames
  <2>3. QED
    BY <1>3, <2>1, <2>2 DEF CIInv, ClientsTypeOK
<1>5. AllClosed'
  BY <1>2, <1>3 DEF CIInv, AllClosed
<1>6. OpsBorn'
  BY <1>1, OpsStayBorn DEF CIInv
<1>7. AnswersBorn'
  <2>1. SUFFICES ASSUME NEW c \in Client, NEW i \in 1 .. Len(wire'[c]),
                        wire'[c][i].name = "response"
                 PROVE  Born(wire[c][i].node)'
    BY DEF AnswersBorn
  <2>2. emit'.name # "response"
    BY <1>2 DEF Event
  <2>3. i \in 1 .. Len(wire[c]) /\ wire'[c][i] = wire[c][i]
    BY SMTT(30), <1>0, <2>1, <2>2
  <2>4. PICK n \in NodeId \cup {None} : n = wire[c][i].node
    BY <2>1, <2>3, <1>3, FramesTyped DEF Frame, Event
  <2>5. Born(n)
    BY <2>1, <2>3, <2>4 DEF CIInv, AnswersBorn
  <2>6. Born(n)'
    BY <1>1, <2>5, BornForGood
  <2>7. QED
    BY <2>3, <2>4, <2>6
<1>8. EventsFirst'
  <2>1. SUFFICES ASSUME NEW c \in Client, NEW i \in 1 .. Len(wire'[c]),
                        NEW j \in 1 .. Len(wire'[c]), i < j,
                        wire'[c][i].name = "response",
                        wire'[c][j].name = "node:added"
                 PROVE  wire'[c][i].node # wire'[c][j].node
    BY DEF EventsFirst
  <2>2. emit'.name # "response"
    BY <1>2 DEF Event
  <2>3. i \in 1 .. Len(wire[c]) /\ wire'[c][i] = wire[c][i]
    BY <1>0, <2>1, <2>2
  <2>4. CASE j \in 1 .. Len(wire[c])
    <3>1. wire'[c][j] = wire[c][j]
      BY <1>0, <2>4
    <3>2. QED
      BY <2>1, <2>3, <2>4, <3>1 DEF CIInv, EventsFirst
  <2>5. CASE j \notin 1 .. Len(wire[c])
    <3>1. wire'[c][j] = emit'
      BY <1>0, <2>5
    <3>2. PICK n \in NodeId : emit'.node = n /\ Stage(n) = "unborn"
      BY <1>1, <2>1, <3>1
         DEF Told, Moves, Added, Removed, Connected, Disconnected, Quiet,
             R!Added, R!Removed, R!Connected, R!Disconnected, R!Quiet
    <3>3. Born(wire[c][i].node)
      BY <2>1, <2>3 DEF CIInv, AnswersBorn
    <3>4. QED
      BY <2>3, <3>1, <3>2, <3>3, NoneAssumption DEF Born
  <2>6. QED
    BY <2>4, <2>5
<1>9. CopiesTrue'
  <2>1. SUFFICES ASSUME NEW c \in Client, c \in Live'
                 PROVE  True(Settled(c), missed[c])'
    BY DEF CopiesTrue, Live
  <2>2. c \in Live /\ copy'[c] = copy[c]
    BY <1>3, <2>1 DEF Live
  <2>3. PICK h : h = Fold(copy[c], wire[c])
    OBVIOUS
  <2>4. PICK lost : lost = missed[c]
    OBVIOUS
  <2>5. True(h, lost)
    BY <2>2, <2>3, <2>4, SettledIsFold DEF CIInv, CopiesTrue
  <2>6. \A n \in NodeId : n \in lost => Stage(n) # "unborn"
    BY <2>4, NoneAssumption DEF CIInv, MissedBorn, Born
  <2>7. PICK g, more : g = Fold(copy'[c], wire'[c]) /\ more = missed'[c]
    OBVIOUS
  <2>8. True(g, more)'
    <3>1. CASE emit'.name = "quiet"
      <4>1. g = h /\ more = lost
        BY <1>2, <1>3, <2>2, <2>3, <2>4, <2>7, <3>1, Forwarded DEF Dispatch
      <4>2. g = Afterwards(h)
        BY <3>1, <4>1 DEF Afterwards
      <4>3. QED
        BY <1>1, <1>3, <2>5, <2>6, <4>1, <4>2, TrueAfterwards
    <3>2. CASE emit'.name # "quiet" /\ wire'[c] = Append(wire[c], emit') /\ missed'[c] = missed[c]
      <4>1. emit' \in Frame /\ wire[c] \in Seq(Frame)
        BY <1>2, <1>3 DEF Frame, Frames
      <4>2. Fold(copy[c], Append(wire[c], emit')) = Apply(Fold(copy[c], wire[c]), emit')
        BY <4>1, FoldAppend
      <4>3. g = Afterwards(h) /\ more = lost
        BY <2>2, <2>3, <2>4, <2>7, <3>2, <4>2 DEF Afterwards
      <4>4. QED
        BY <1>1, <1>3, <2>5, <2>6, <4>3, TrueAfterwards
    <3>3. CASE /\ emit'.name = "node:added" /\ wire'[c] = wire[c]
               /\ missed'[c] = missed[c] \cup {emit'.node}
      <4>1. PICK n \in NodeId, r \in BOOLEAN :
               /\ emit' = Added(n, r) /\ emit'.node = n
               /\ Moves(n, "unborn", "listed")
        BY <1>1, <3>3, AddedHasNode
      <4>2. g = h /\ more = lost \cup {n}
        BY <2>2, <2>3, <2>4, <2>7, <3>3, <4>1
      <4>3. True(h, lost \cup {n})'
        BY <1>1, <1>3, <2>5, <4>1, TrueUntold
      <4>4. QED
        BY <4>2, <4>3
    <3>4. QED
      BY <1>2, <1>3, <2>2, <3>1, <3>2, <3>3, Forwarded DEF Dispatch
  <2>9. Settled(c)' = g /\ missed'[c] = more
    BY <2>7 DEF Settled, Fold
  <2>10. QED
    BY <2>8, <2>9
<1>10. MissedBorn'
  <2>1. SUFFICES ASSUME NEW c \in Client, NEW n \in missed'[c]
                 PROVE  Born(n)'
    BY DEF MissedBorn
  <2>2. CASE n \in missed[c]
    BY <1>1, <1>3, <2>2, BornForGood DEF CIInv, MissedBorn
  <2>3. CASE n \notin missed[c]
    <3>1. emit'.name = "node:added" /\ n = emit'.node
      BY <1>2, <1>3, <2>1, <2>3, Forwarded DEF Dispatch
    <3>2. Stage(n)' = "listed"
      BY <1>1, <3>1, AddedHasNode DEF Moves
    <3>3. QED
      BY <3>2 DEF Born
  <2>4. QED
    BY <2>2, <2>3
<1>11. QED
  BY <1>1, <1>3, <1>4, <1>5, <1>6, <1>7, <1>8, <1>9, <1>10 DEF CIInv

-----------------------------------------------------------------------------
(* The ends of the process, and the transport *)

\* Every socket closes, and every request and session goes, with the process.
LEMMA OutageKeeps == ASSUME CIInv, Outage PROVE CIInv'
<1>1. IInv' /\ SessionsHavePeers'
  BY NextKeepsIInv, SessionsKeepPeers DEF Outage, Next, Surroundings, CIInv
<1>2. /\ \A o \in Op : op'[o] = Idle
      /\ link' = [c \in Client |-> "closed"]
      /\ wire' = [c \in Client |-> <<>>]
      /\ copy' = [c \in Client |-> NoCopy]
      /\ caller' = [o \in Op |-> None] /\ hushed' = {}
      /\ missed' = [c \in Client |-> {}]
  BY DEF Outage, SocketsLost, Crash, PowerCut, Halt
<1>3. /\ \A c \in Client : wire'[c] = <<>> /\ link'[c] = "closed"
      /\ <<>> \in Seq(Frame) /\ Len(<<>>) = 0
  BY <1>2
<1>4. Frames' /\ AnswersBorn' /\ EventsFirst' /\ MissedBorn'
  BY <1>2, <1>3 DEF Frames, AnswersBorn, EventsFirst, MissedBorn
<1>5. ClientsTypeOK'
  BY <1>2, <1>3 DEF ClientsTypeOK, NoCopy, Held
<1>6. AllClosed' /\ CopiesTrue' /\ OpsBorn'
  BY <1>2, <1>3 DEF AllClosed, CopiesTrue, Live, OpsBorn, Idle
<1>7. QED
  BY <1>1, <1>4, <1>5, <1>6 DEF CIInv

\* Nobody is connected while it boots.
LEMMA BootKeeps == ASSUME CIInv, Boot PROVE CIInv'
<1>1. IInv' /\ SessionsHavePeers' /\ UNCHANGED clientVars
  BY NextKeepsIInv, SessionsKeepPeers DEF Boot, Next, Surroundings, CIInv
<1>2. ~up /\ UNCHANGED <<row, minted, op>> /\ \A n \in NodeId : mapped'[n] = Hydrated(n)
  BY DEF Boot, Restart
<1>3. \A n \in NodeId : Stage(n)' = Stage(n)
  BY <1>2 DEF CIInv, IInv, DownIsEmpty, Stage, Hydrated
<1>4. \A n \in NodeId \cup {None} : Born(n)' <=> Born(n)
  BY <1>3 DEF Born
<1>5. OpsBorn'
  <2>1. \A o \in Op : op[o].node \in NodeId \cup {None}
    BY RequestFields DEF CIInv, IInv
  <2>2. QED
    BY <1>2, <1>4, <2>1 DEF CIInv, OpsBorn
<1>6. AnswersBorn'
  <2>1. \A c \in Client : \A i \in 1 .. Len(wire[c]) :
           wire[c][i].name = "response" => wire[c][i].node \in NodeId \cup {None}
    BY FramesTyped DEF CIInv, Frame, Event
  <2>2. wire' = wire
    BY <1>1 DEF clientVars
  <2>3. QED
    BY <1>4, <2>1, <2>2 DEF CIInv, AnswersBorn
<1>7. ClientsTypeOK' /\ Frames' /\ EventsFirst' /\ MissedBorn'
  <2>1. \A c \in Client : missed[c] \subseteq NodeId
    BY DEF CIInv, ClientsTypeOK
  <2>2. MissedBorn'
    BY <1>1, <1>4, <2>1 DEF CIInv, clientVars, MissedBorn
  <2>3. QED
    BY <1>1, <2>2 DEF CIInv, clientVars, ClientsTypeOK, Frames, EventsFirst
<1>8. Live' = {} /\ AllClosed'
  BY <1>1, <1>2 DEF CIInv, clientVars, AllClosed, Live
<1>9. QED
  BY <1>1, <1>5, <1>6, <1>7, <1>8 DEF CIInv, CopiesTrue

\* The transport leaves the fabric alone, and what is right stays right.
LEMMA TransportLeaves ==
    ASSUME CIInv, UNCHANGED <<vars, hushed>>
    PROVE  /\ IInv' /\ SessionsHavePeers' /\ OpsBorn'
           /\ \A h, lost : True(h, lost)' <=> True(h, lost)
           /\ \A n : Born(n)' <=> Born(n)
<1>1. UNCHANGED vars
  OBVIOUS
<1>2. IInv' /\ SessionsHavePeers'
  BY <1>1, StutterKeeps DEF CIInv, SessionsHavePeers, vars, stores
<1>3. UNCHANGED <<row, mapped, minted, online, op>>
  BY <1>1 DEF vars
<1>4. \A n : Born(n)' <=> Born(n)
  BY <1>3 DEF Born, Stage
<1>5. \A h, lost : True(h, lost)' <=> True(h, lost)
  BY <1>3 DEF True, Reachable
<1>6. OpsBorn'
  BY <1>3, <1>4 DEF CIInv, OpsBorn
<1>7. QED
  BY <1>2, <1>4, <1>5, <1>6

\* A frame that a client is sent, other than an event of the bus.
LEMMA SendKeeps ==
    ASSUME CIInv, NEW c \in Client, NEW f \in Frame, f.name # "node:added",
           f.name = "response" => Born(f.node),
           wire' = [wire EXCEPT ![c] = Append(@, f)],
           UNCHANGED <<vars, hushed>>
    PROVE  /\ Frames' /\ AnswersBorn' /\ EventsFirst'
           /\ \A d \in Client : \A i \in 1 .. Len(wire'[d]) : wire'[d][i] \in Frame
           /\ wire'[c] = Append(wire[c], f) /\ wire[c] \in Seq(Frame)
           /\ \A d \in Client \ {c} : wire'[d] = wire[d]
<1>1. /\ wire'[c] = Append(wire[c], f) /\ wire[c] \in Seq(Frame)
      /\ \A d \in Client \ {c} : wire'[d] = wire[d]
      /\ Frames'
  BY DEF CIInv, Frames
<1>2. \A d \in Client : \A i \in 1 .. Len(wire'[d]) :
         \/ i \in 1 .. Len(wire[d]) /\ wire'[d][i] = wire[d][i]
         \/ i = Len(wire[d]) + 1 /\ d = c /\ wire'[d][i] = f
  BY <1>1, AppendProperties
<1>3. \A n : Born(n)' <=> Born(n)
  BY TransportLeaves
<1>4. \A d \in Client : Len(wire[d]) \in Nat
  BY DEF CIInv, Frames
<1>5. AnswersBorn'
  BY <1>2, <1>3 DEF CIInv, AnswersBorn
<1>6. EventsFirst'
  BY <1>2, <1>4 DEF CIInv, EventsFirst
<1>7. \A d \in Client : \A i \in 1 .. Len(wire'[d]) : wire'[d][i] \in Frame
  BY <1>1 DEF Frames
<1>8. QED
  BY <1>1, <1>5, <1>6, <1>7

\* Whose copies were right have them right, if what they are to receive folds
\* to the same as before.
LEMMA CopiesStayTrue ==
    ASSUME CIInv, UNCHANGED <<vars, hushed>>,
           \A d \in Client : d \in Live' =>
              \/ /\ d \in Live /\ Fold(copy'[d], wire'[d]) = Fold(copy[d], wire[d])
                 /\ missed'[d] = missed[d]
              \/ True(Fold(copy'[d], wire'[d]), missed'[d])
    PROVE  CopiesTrue'
<1>1. SUFFICES ASSUME NEW d \in Client, d \in Live'
               PROVE  True(Settled(d), missed[d])'
  BY DEF CopiesTrue, Live
<1>2. PICK g, lost : g = Fold(copy'[d], wire'[d]) /\ lost = missed'[d]
  OBVIOUS
<1>3. True(g, lost)
  BY <1>1, <1>2, SettledIsFold DEF CIInv, CopiesTrue
<1>4. True(g, lost)'
  BY <1>3, TransportLeaves
<1>5. Settled(d)' = g /\ missed'[d] = lost
  BY <1>2 DEF Settled, Fold
<1>6. QED
  BY <1>4, <1>5

LEMMA RespondKeeps == ASSUME CIInv, NEW o \in Op, Respond(o) PROVE CIInv'
<1>1. /\ up /\ caller[o] \in Client /\ Resting(o)
      /\ UNCHANGED <<vars, hushed, missed, link, copy>>
      /\ caller' = [caller EXCEPT ![o] = None]
  BY DEF Respond, Answered, CIInv, ClientsTypeOK
<1>2. caller' \in [Op -> Client \cup {None}]
  BY <1>1 DEF CIInv, ClientsTypeOK
<1>3. /\ AllClosed' /\ Live' = Live
      /\ IInv' /\ SessionsHavePeers' /\ OpsBorn' /\ MissedBorn'
  BY <1>1, TransportLeaves DEF AllClosed, CIInv, Live, MissedBorn, vars
<1>4. CASE link[caller[o]] = "closed"
  <2>1. wire' = wire
    BY <1>4 DEF Respond
  <2>2. CopiesTrue'
    BY <1>1, <1>3, <2>1, CopiesStayTrue
  <2>3. Frames' /\ AnswersBorn' /\ EventsFirst' /\ ClientsTypeOK'
    <3>1. \A n : Born(n)' <=> Born(n)
      BY <1>1, TransportLeaves
    <3>2. Frames'
      BY <2>1 DEF CIInv, Frames
    <3>3. AnswersBorn'
      BY <2>1, <3>1 DEF CIInv, AnswersBorn
    <3>4. EventsFirst'
      BY <2>1 DEF CIInv, EventsFirst
    <3>5. ClientsTypeOK'
      BY <1>1, <1>2, <2>1 DEF CIInv, ClientsTypeOK
    <3>6. QED
      BY <3>2, <3>3, <3>4, <3>5
  <2>4. QED
    BY <1>3, <2>2, <2>3 DEF CIInv
<1>5. CASE link[caller[o]] # "closed"
  <2>1. PICK c \in Client : c = caller[o]
    BY <1>1
  <2>2. PICK n \in NodeId \cup {None} :
           n = IF op[o].kind = "commission" /\ op[o].pc # "failed"
               THEN op[o].node ELSE None
    BY RequestFields DEF CIInv, IInv
  <2>3. Born(n)
    BY <1>1, <2>2 DEF CIInv, OpsBorn, Born, Resting
  <2> DEFINE f == [name |-> "response", node |-> n]
  <2>4. f \in Frame /\ f.name = "response" /\ f.node = n
    BY DEF Frame
  <2>5. wire' = [wire EXCEPT ![c] = Append(@, f)]
    BY <1>5, <2>1, <2>2 DEF Respond, Send
  <2>6. \A h : Apply(h, f) = h
    BY <2>4 DEF Apply
  <2> HIDE DEF f
  <2>7. /\ Frames' /\ AnswersBorn' /\ EventsFirst'
        /\ \A d \in Client : \A i \in 1 .. Len(wire'[d]) : wire'[d][i] \in Frame
        /\ wire'[c] = Append(wire[c], f) /\ wire[c] \in Seq(Frame)
        /\ \A d \in Client \ {c} : wire'[d] = wire[d]
    BY <1>1, <2>3, <2>4, <2>5, SendKeeps
  <2>8. Fold(copy[c], wire'[c]) = Fold(copy[c], wire[c])
    BY <2>4, <2>6, <2>7, FoldAppend
  <2>9. CopiesTrue'
    BY <1>1, <1>3, <2>7, <2>8, CopiesStayTrue
  <2>10. ClientsTypeOK'
    BY <1>1, <1>2, <2>7 DEF CIInv, ClientsTypeOK
  <2>11. QED
    BY <1>3, <2>7, <2>9, <2>10 DEF CIInv
<1>6. QED
  BY <1>4, <1>5

LEMMA ConnectKeeps == ASSUME CIInv, NEW c \in Client, Connect(c) PROVE CIInv'
<1>1. /\ up /\ UNCHANGED <<vars, hushed, missed, wire, copy, caller>>
      /\ link' = [link EXCEPT ![c] = "open"]
  BY DEF Connect
<1>2. IInv' /\ SessionsHavePeers' /\ OpsBorn' /\ \A n : Born(n)' <=> Born(n)
  BY <1>1, TransportLeaves
<1>3. \A d \in Client : d \in Live' => d \in Live
  BY <1>1 DEF CIInv, ClientsTypeOK, Live
<1>4. CopiesTrue'
  BY <1>1, <1>3, CopiesStayTrue
<1>5. AllClosed'
  BY <1>1 DEF AllClosed, vars
<1>6. Frames' /\ AnswersBorn' /\ EventsFirst' /\ MissedBorn' /\ ClientsTypeOK'
  BY <1>1, <1>2
     DEF CIInv, Frames, AnswersBorn, EventsFirst, MissedBorn, ClientsTypeOK
<1>7. QED
  BY <1>2, <1>4, <1>5, <1>6 DEF CIInv

\* The baseline is right when it is composed, and nothing comes in between.
LEMMA SubscribeKeeps == ASSUME CIInv, NEW c \in Client, Subscribe(c) PROVE CIInv'
<1> DEFINE f == [name |-> "snapshot", nodes |-> Listed]
<1>1. /\ up /\ UNCHANGED <<vars, hushed, copy, caller>>
      /\ link' = [link EXCEPT ![c] = "live"]
      /\ missed' = [missed EXCEPT ![c] = {}]
      /\ wire' = [wire EXCEPT ![c] = Append(@, f)]
  BY DEF Subscribe
<1>2. Listed \in [NodeId -> Held]
  BY DEF Listed, Held, Shown
<1>3. True(Listed, {})
  BY <1>2 DEF True, Listed, Shown
<1>4. f \in Frame /\ f.name = "snapshot" /\ \A h : Apply(h, f) = Listed
  BY <1>2 DEF Frame, Apply
<1> HIDE DEF f
<1>5. /\ Frames' /\ AnswersBorn' /\ EventsFirst'
      /\ \A d \in Client : \A i \in 1 .. Len(wire'[d]) : wire'[d][i] \in Frame
      /\ wire'[c] = Append(wire[c], f) /\ wire[c] \in Seq(Frame)
      /\ \A d \in Client \ {c} : wire'[d] = wire[d]
  BY <1>1, <1>4, SendKeeps
<1>6. /\ Fold(copy'[c], wire'[c]) = Listed /\ missed'[c] = {}
      /\ \A d \in Client \ {c} : missed'[d] = missed[d]
  BY <1>1, <1>4, <1>5, FoldAppend DEF CIInv, ClientsTypeOK
<1>7. \A d \in Client \ {c} : d \in Live' => d \in Live
  BY <1>1 DEF CIInv, ClientsTypeOK, Live
<1>8. CopiesTrue'
  BY <1>1, <1>3, <1>5, <1>6, <1>7, CopiesStayTrue
<1>9. IInv' /\ SessionsHavePeers' /\ OpsBorn' /\ MissedBorn'
  BY <1>1, <1>6, TransportLeaves DEF CIInv, MissedBorn
<1>10. AllClosed'
  BY <1>1 DEF AllClosed, vars
<1>11. ClientsTypeOK'
  BY <1>1, <1>5 DEF CIInv, ClientsTypeOK
<1>12. QED
  BY <1>5, <1>8, <1>9, <1>10, <1>11 DEF CIInv

\* A frame that is received moves from what is in flight into the copy.
LEMMA ReceiveKeeps == ASSUME CIInv, NEW c \in Client, Receive(c) PROVE CIInv'
<1>1. /\ wire[c] # <<>> /\ UNCHANGED <<vars, hushed, missed, link, caller>>
      /\ copy' = [copy EXCEPT ![c] = Apply(@, Head(wire[c]))]
      /\ wire' = [wire EXCEPT ![c] = Tail(@)]
  BY DEF Receive
<1>2. wire[c] \in Seq(Frame) /\ Head(wire[c]) \in Frame /\ Tail(wire[c]) \in Seq(Frame)
  BY <1>1, HeadTailProperties DEF CIInv, Frames
<1>3. /\ wire'[c] = Tail(wire[c]) /\ copy'[c] = Apply(copy[c], Head(wire[c]))
      /\ \A d \in Client \ {c} : wire'[d] = wire[d] /\ copy'[d] = copy[d]
      /\ Frames'
  BY <1>1, <1>2 DEF CIInv, Frames, ClientsTypeOK
<1>4. /\ Len(wire'[c]) = Len(wire[c]) - 1
      /\ \A i \in 1 .. Len(wire'[c]) : wire'[c][i] = wire[c][i + 1] /\ i + 1 \in 1 .. Len(wire[c])
  <2>1. PICK s \in Seq(Frame), t \in Seq(Frame) : s = wire[c] /\ t = wire'[c] /\ t = Tail(s)
    BY <1>2, <1>3
  <2>2. /\ s # <<>> /\ Len(s) \in Nat /\ Len(t) = Len(s) - 1
        /\ \A i \in 1 .. Len(t) : t[i] = s[i + 1]
    BY <1>1, <2>1, HeadTailProperties, LenProperties
  <2>3. \A i \in 1 .. Len(t) : i + 1 \in 1 .. Len(s)
    BY <2>2
  <2>4. QED
    BY <2>1, <2>2, <2>3
<1>5. Fold(copy'[c], wire'[c]) = Fold(copy[c], wire[c])
  BY <1>1, <1>2, <1>3, FoldReceived
<1>6. /\ IInv' /\ SessionsHavePeers' /\ OpsBorn' /\ MissedBorn'
      /\ Live' = Live /\ AllClosed'
  BY <1>1, TransportLeaves DEF Live, AllClosed, MissedBorn, CIInv, vars
<1>7. CopiesTrue'
  BY <1>1, <1>3, <1>5, <1>6, CopiesStayTrue
<1>8. \A n : Born(n)' <=> Born(n)
  BY <1>1, TransportLeaves
<1>9. AnswersBorn'
  BY ZenonT(30), <1>3, <1>4, <1>8 DEF CIInv, AnswersBorn
<1>10. EventsFirst'
  <2>1. SUFFICES ASSUME NEW d \in Client, NEW i \in 1 .. Len(wire'[d]),
                        NEW j \in 1 .. Len(wire'[d]), i < j,
                        wire'[d][i].name = "response", wire'[d][j].name = "node:added"
                 PROVE  wire'[d][i].node # wire'[d][j].node
    BY DEF EventsFirst
  <2>2. CASE d = c
    <3>1. /\ wire'[d][i] = wire[c][i + 1] /\ i + 1 \in 1 .. Len(wire[c])
          /\ wire'[d][j] = wire[c][j + 1] /\ j + 1 \in 1 .. Len(wire[c])
          /\ i + 1 < j + 1
      BY SMTT(30), <1>4, <2>1, <2>2
    <3>2. QED
      BY <2>1, <3>1 DEF CIInv, EventsFirst
  <2>3. CASE d # c
    BY <1>3, <2>1, <2>3 DEF CIInv, EventsFirst
  <2>4. QED
    BY <2>2, <2>3
<1>11. ClientsTypeOK'
  <2>1. copy[c] \in [NodeId -> Held] /\ copy'[c] \in [NodeId -> Held]
    BY <1>2, <1>3, ApplyTyped DEF CIInv, ClientsTypeOK
  <2>2. copy' \in [Client -> [NodeId -> Held]]
    BY <1>1, <1>3, <2>1 DEF CIInv, ClientsTypeOK
  <2>3. \A d \in Client : \A i \in 1 .. Len(wire'[d]) : wire'[d][i] \in Frame
    BY <1>3 DEF Frames
  <2>4. QED
    BY <1>1, <2>2, <2>3 DEF CIInv, ClientsTypeOK
<1>12. QED
  BY <1>3, <1>6, <1>7, <1>9, <1>10, <1>11 DEF CIInv

LEMMA CloseKeeps == ASSUME CIInv, NEW c \in Client, Close(c) PROVE CIInv'
<1>1. /\ UNCHANGED <<vars, hushed, caller>>
      /\ link' = [link EXCEPT ![c] = "closed"]
      /\ wire' = [wire EXCEPT ![c] = <<>>]
      /\ copy' = [copy EXCEPT ![c] = NoCopy]
      /\ missed' = [missed EXCEPT ![c] = {}]
  BY DEF Close
<1>2. /\ wire'[c] = <<>> /\ Len(<<>>) = 0 /\ link'[c] = "closed" /\ missed'[c] = {}
      /\ \A d \in Client \ {c} : missed'[d] = missed[d]
      /\ \A d \in Client \ {c} : wire'[d] = wire[d] /\ copy'[d] = copy[d] /\ link'[d] = link[d]
      /\ <<>> \in Seq(Frame) /\ NoCopy \in [NodeId -> Held]
  BY <1>1 DEF CIInv, Frames, ClientsTypeOK, NoCopy, Held
<1>3. \A d \in Client : d \in Live' => d \in Live /\ d # c
  BY <1>2 DEF Live
<1>4. CopiesTrue'
  BY <1>1, <1>2, <1>3, CopiesStayTrue
<1>5. IInv' /\ SessionsHavePeers' /\ OpsBorn' /\ \A n : Born(n)' <=> Born(n)
  BY <1>1, TransportLeaves
<1>6. Frames'
  BY <1>1, <1>2 DEF CIInv, Frames
<1>7. AnswersBorn' /\ EventsFirst' /\ MissedBorn'
  BY <1>2, <1>5 DEF CIInv, AnswersBorn, EventsFirst, MissedBorn
<1>8. AllClosed'
  BY <1>1, <1>2 DEF CIInv, AllClosed, vars
<1>9. ClientsTypeOK'
  <2>1. \A d \in Client : \A i \in 1 .. Len(wire'[d]) : wire'[d][i] \in Frame
    BY <1>6 DEF Frames
  <2>2. QED
    BY <1>1, <1>2, <2>1 DEF CIInv, ClientsTypeOK
<1>10. QED
  BY <1>4, <1>5, <1>6, <1>7, <1>8, <1>9 DEF CIInv

-----------------------------------------------------------------------------
(* The theorems *)

LEMMA ClientsInitIInv == ClientsInit => CIInv
<1> SUFFICES ASSUME ClientsInit PROVE CIInv
  OBVIOUS
<1>1. IInv
  BY InitIInv DEF ClientsInit
<1>2. /\ \A c \in Client : wire[c] = <<>> /\ link[c] = "closed"
      /\ <<>> \in Seq(Frame) /\ Len(<<>>) = 0
  BY DEF ClientsInit
<1>3. Frames /\ AnswersBorn /\ EventsFirst
  BY <1>2 DEF ClientsInit, Frames, AnswersBorn, EventsFirst
<1>4. ClientsTypeOK
  BY <1>2 DEF ClientsInit, ClientsTypeOK, NoCopy, Held
<1>5. AllClosed /\ CopiesTrue /\ OpsBorn /\ MissedBorn /\ SessionsHavePeers
  BY <1>2 DEF ClientsInit, AllClosed, CopiesTrue, Live, OpsBorn, MissedBorn,
              SessionsHavePeers, Init, Idle
<1>6. QED
  BY <1>1, <1>3, <1>4, <1>5 DEF CIInv

LEMMA ClientsNextIInv == CIInv /\ [ClientsNext]_allVars => CIInv'
<1> SUFFICES ASSUME CIInv, [ClientsNext]_allVars PROVE CIInv'
  OBVIOUS
<1>1. ASSUME NEW c \in Client, NEW o \in Op, Ask(c, o) PROVE CIInv'
  <2>1. FabricStep /\ Dispatch /\ caller' = [caller EXCEPT ![o] = c]
    BY <1>1 DEF Ask, FabricStep
  <2>2. caller' \in [Op -> Client \cup {None}]
    BY <2>1 DEF CIInv, ClientsTypeOK
  <2>3. QED
    BY <2>1, <2>2, DispatchKeeps
<1>2. ASSUME NEW o \in Op, Advance(o) PROVE CIInv'
  BY <1>2, DispatchKeeps DEF Advance, FabricStep, CIInv, ClientsTypeOK
<1>3. CASE DeviceStep
  BY <1>3, DispatchKeeps DEF DeviceStep, FabricStep, CIInv, ClientsTypeOK
<1>4. CASE UNCHANGED allVars
  <2>1. UNCHANGED <<vars, hushed, missed, link, wire, copy, caller>>
    BY <1>4 DEF allVars, clientVars
  <2>2. IInv' /\ SessionsHavePeers' /\ OpsBorn' /\ \A n : Born(n)' <=> Born(n)
    BY <2>1, TransportLeaves
  <2>3. Live' = Live
    BY <2>1 DEF Live
  <2>4. CopiesTrue'
    BY <2>1, <2>3, CopiesStayTrue
  <2>5. /\ Frames' /\ AnswersBorn' /\ EventsFirst' /\ MissedBorn' /\ ClientsTypeOK'
        /\ AllClosed'
    BY <2>1, <2>2
       DEF CIInv, Frames, AnswersBorn, EventsFirst, MissedBorn, ClientsTypeOK,
           AllClosed, vars
  <2>6. QED
    BY <2>2, <2>4, <2>5 DEF CIInv
<1>5. ASSUME NEW c \in Client, SubscribeThrows(c) PROVE CIInv'
  BY <1>5, OutageKeeps DEF SubscribeThrows, Outage
<1>6. QED
  BY <1>1, <1>2, <1>3, <1>4, <1>5, OutageKeeps, BootKeeps, RespondKeeps,
     ConnectKeeps, SubscribeKeeps, ReceiveKeeps, CloseKeeps DEF ClientsNext

\* Whatever the fabric, the process, the sockets and the clients do, every
\* subscriber's copy is the roster once it has received what is in flight, up
\* to the nodes whose event JSON could not carry and the drops that the filter
\* on removals held back.
THEOREM ClientsInvariance == ClientsSpec => []CIInv
<1>1. QED
  BY ClientsInitIInv, ClientsNextIInv, PTL DEF ClientsSpec

\* Links, frames, copies, callers and the hushed nodes keep their types.
THEOREM ClientsTypeCorrect == ClientsSpec => []ClientsTypeOK
<1>1. CIInv => ClientsTypeOK
  BY DEF CIInv
<1>2. QED
  BY <1>1, ClientsInvariance, PTL

\* A subscriber's copy holds exactly the nodes that the database holds, but for
\* those it was not told of, JSON being unable to carry their node:added.
THEOREM AlwaysHoldsRoster == ClientsSpec => []CopyHoldsRoster
<1>1. CIInv => CopyHoldsRoster
  BY DEF CIInv, CopiesTrue, True, CopyHoldsRoster
<1>2. QED
  BY <1>1, ClientsInvariance, PTL

\* It never shows as offline a node that the hub would report reachable.
THEOREM AlwaysNeverFalselyOffline == ClientsSpec => []NeverFalselyOffline
<1>1. CIInv => NeverFalselyOffline
  BY DEF CIInv, CopiesTrue, True, NeverFalselyOffline
<1>2. QED
  BY <1>1, ClientsInvariance, PTL

\* It shows as reachable a node that is not only after a drop that came while a
\* removal of the node had its flag up.
THEOREM AlwaysStaleOnlyIfHushed == ClientsSpec => []StaleOnlyIfHushed
<1>1. CIInv => StaleOnlyIfHushed
  BY DEF CIInv, CopiesTrue, True, StaleOnlyIfHushed
<1>2. QED
  BY <1>1, ClientsInvariance, PTL

\* The event that brings a node reaches a client ahead of the response to the
\* commissioning of the node.
THEOREM EventAlwaysBeforeResponse == ClientsSpec => []EventBeforeResponse
<1>1. CIInv => EventBeforeResponse
  BY DEF CIInv, EventsFirst, EventBeforeResponse, Live
<1>2. QED
  BY <1>1, ClientsInvariance, PTL

\* A hub with clients is a hub: their steps leave the fabric as it is, so that
\* what is proved of Fabric holds of the composition.
THEOREM ClientsImplementFabric == ClientsSpec => Spec
<1>1. ClientsInit => Init
  BY DEF ClientsInit
<1>2. [ClientsNext]_allVars => [Next]_vars
  BY DEF ClientsNext, allVars, Ask, Advance, DeviceStep, Outage, Boot, Respond,
         Connect, Subscribe, SubscribeThrows, Receive, Close, Next, Surroundings
<1>3. QED
  BY <1>1, <1>2, PTL DEF ClientsSpec, Spec
=============================================================================
