------------------------------ MODULE Clients -------------------------------
(***************************************************************************)
(* The event stream.  A connected client asks for the baseline (a snapshot *)
(* composed from the views) and from then on receives every domain event,  *)
(* in order, on its socket; from these it keeps a copy of the home of its  *)
(* own.  The events are those of Fabric: one of its steps and the dispatch *)
(* on the bus, which is synchronous, are one step here.  A baseline and a  *)
(* node:added carry the attribute values of endpoints, and a value may be  *)
(* one that JSON cannot: which of them are is left open here.              *)
(***************************************************************************)
EXTENDS Fabric, Naturals, Sequences, SequencesExt

CONSTANTS
    Client,
    MaxWire    \* bound: frames in flight on one socket

VARIABLES
    link,      \* client -> "closed", "open" or "live" (in #subscribers)
    wire,      \* client -> the frames sent and not yet received, in order
    copy,      \* client -> what it holds of each node
    caller,    \* request -> the client that waits for its response
    hushed,    \* history: nodes whose drop a removal of theirs filtered out
    missed     \* history: client -> nodes it was not told of, JSON being
               \* unable to carry their node:added

clientVars == <<link, wire, copy, caller, hushed, missed>>
allVars == <<vars, clientVars>>

\* A node in a client's copy: unknown to it, or with its reachable flag.
Held == {"absent", "up", "down"}

Frame ==
    Event \cup [name : {"snapshot"}, nodes : [NodeId -> Held]]
          \cup [name : {"response"}, node : NodeId \cup {None}]

NoCopy == [n \in NodeId |-> "absent"]

-----------------------------------------------------------------------------
(* Composition and folding *)

\* `reachable' as a client holds it.
Shown(reachable) == IF reachable THEN "up" ELSE "down"

\* Mutant: nodes the map does not hold are dropped, as unresolvable endpoints
\* are, instead of being listed offline.
ListedIfMapped ==
    [n \in NodeId |-> IF row[n] = None \/ mapped[n] = None THEN "absent"
                      ELSE Shown(Reachable(n))]

\* NodeView.list: the identity from the database, the flag from the gateway.
Listed ==
    [n \in NodeId |-> IF row[n] = None THEN "absent" ELSE Shown(Reachable(n))]

\* What a client does with a frame.  An event about a node it does not hold
\* is dropped, unless it brings the node.
Apply(held, frame) ==
    CASE frame.name = "snapshot" -> frame.nodes
      [] frame.name = "node:added" ->
            [held EXCEPT ![frame.node] = Shown(frame.reachable)]
      [] frame.name = "node:removed" -> [held EXCEPT ![frame.node] = "absent"]
      [] frame.name \in {"node:connected", "node:disconnected"} ->
            IF held[frame.node] = "absent" THEN held
            ELSE [held EXCEPT ![frame.node] =
                        Shown(frame.name = "node:connected")]
      [] OTHER -> held

\* The copy once everything in flight has arrived.
Settled(c) == FoldLeft(Apply, copy[c], wire[c])

-----------------------------------------------------------------------------
(* Steps of the fabric, with their event dispatched *)

Live == {c \in Client : link[c] = "live"}
Room == \A c \in Client : Len(wire[c]) < MaxWire

\* Mutant: only clients that have received their baseline are sent events.
ForwardWhenCurrent ==
    /\ wire' = [c \in Client |->
                  IF c \in Live /\ wire[c] = <<>> /\ emit'.name # "quiet"
                  THEN Append(wire[c], emit') ELSE wire[c]]
    /\ UNCHANGED missed

\* JsonRpcChannel.forward, run inline by the bus.  It makes one frame for all
\* before it sends any: if that throws, the bus logs it and nobody is told.
\* Only node:added has something in it that JSON may not carry.
Forward ==
    \E carried \in BOOLEAN :
        /\ emit'.name # "node:added" => carried
        /\ wire' = [c \in Client |->
                      IF c \in Live /\ emit'.name # "quiet" /\ carried
                      THEN Append(wire[c], emit') ELSE wire[c]]
        /\ missed' = [c \in Client |->
                        IF c \in Live /\ ~carried
                        THEN missed[c] \cup {emit'.node} ELSE missed[c]]

\* Nodes that were reachable and no longer are, in silence while a removal of
\* theirs is under way.
NewlyHushed ==
    {n \in leaving : /\ Reachable(n) /\ ~Reachable(n)'
                     /\ emit' # Disconnected(n)}

Dispatch ==
    /\ Room
    /\ Forward
    /\ hushed' = (hushed \cup NewlyHushed)
                    \ {n \in NodeId : emit' \in {Connected(n), Removed(n)}}
    /\ UNCHANGED <<link, copy>>

Ask(c, o) ==
    /\ link[c] # "closed" /\ caller[o] = None
    /\ Call(o)
    /\ caller' = [caller EXCEPT ![o] = c]
    /\ Dispatch

Advance(o) == Proceed(o) /\ Dispatch /\ UNCHANGED caller

DeviceStep ==
    /\ \/ \E m \in MatterId : GoOnline(m) \/ GoOffline(m)
       \/ \E d \in Device : FactoryReset(d)
    /\ Dispatch
    /\ UNCHANGED caller

\* Every socket goes with the process; a client starts over from a baseline.
SocketsLost ==
    /\ link' = [c \in Client |-> "closed"]
    /\ wire' = [c \in Client |-> <<>>]
    /\ copy' = [c \in Client |-> NoCopy]
    /\ caller' = [o \in Op |-> None]
    /\ hushed' = {}
    /\ missed' = [c \in Client |-> {}]

Outage == (Crash \/ PowerCut) /\ SocketsLost

Boot == Restart /\ UNCHANGED clientVars

-----------------------------------------------------------------------------
(* Steps of the transport *)

\* Mutant: the response goes out once the device has joined, before the
\* transaction.
AnsweredEarly(o) == Resting(o) \/ op[o].pc = "registered"

\* The dispatcher's promise has resolved.
Answered(o) == Resting(o)

Send(c, frame) == wire' = [wire EXCEPT ![c] = Append(@, frame)]

\* The end of #onMessage: a socket that closed meanwhile gets nothing.
Respond(o) ==
    /\ up /\ caller[o] # None /\ Answered(o)
    /\ Len(wire[caller[o]]) < MaxWire
    /\ IF link[caller[o]] = "closed" THEN UNCHANGED wire
       ELSE Send(caller[o],
                 [name |-> "response",
                  node |-> IF op[o].kind = "commission" /\ op[o].pc # "failed"
                           THEN op[o].node ELSE None])
    /\ caller' = [caller EXCEPT ![o] = None]
    /\ UNCHANGED <<vars, link, copy, hushed, missed>>

Connect(c) ==
    /\ up /\ link[c] = "closed"
    /\ link' = [link EXCEPT ![c] = "open"]
    /\ UNCHANGED <<vars, wire, copy, caller, hushed, missed>>

\* Snapshot, send and joining the subscribers, with no await between them;
\* asking again is allowed and gives a new baseline, with what was missed.
Subscribe(c) ==
    /\ up /\ link[c] # "closed" /\ Len(wire[c]) < MaxWire
    /\ wire' = [wire EXCEPT ![c] =
                    Append(@, [name |-> "snapshot", nodes |-> Listed])]
    /\ link' = [link EXCEPT ![c] = "live"]
    /\ missed' = [missed EXCEPT ![c] = {}]
    /\ UNCHANGED <<vars, copy, caller, hushed>>

\* The baseline has a value that JSON cannot carry, and #onMessage rejects
\* with nobody to catch it: that ends the process.
SubscribeThrows(c) ==
    /\ link[c] # "closed"
    /\ \E n \in NodeId : row[n] # None /\ mapped[n] # None
    /\ Crash /\ SocketsLost

Receive(c) ==
    /\ wire[c] # <<>>
    /\ copy' = [copy EXCEPT ![c] = Apply(@, Head(wire[c]))]
    /\ wire' = [wire EXCEPT ![c] = Tail(@)]
    /\ UNCHANGED <<vars, link, caller, hushed, missed>>

\* The client leaves, or the heartbeat terminates it: 'close' removes it from
\* the subscribers.  Its requests go on without it.
Close(c) ==
    /\ link[c] # "closed"
    /\ link' = [link EXCEPT ![c] = "closed"]
    /\ wire' = [wire EXCEPT ![c] = <<>>]
    /\ copy' = [copy EXCEPT ![c] = NoCopy]
    /\ missed' = [missed EXCEPT ![c] = {}]
    /\ UNCHANGED <<vars, caller, hushed>>

-----------------------------------------------------------------------------
ClientsInit ==
    /\ Init
    /\ link = [c \in Client |-> "closed"]
    /\ wire = [c \in Client |-> <<>>]
    /\ copy = [c \in Client |-> NoCopy]
    /\ caller = [o \in Op |-> None]
    /\ hushed = {}
    /\ missed = [c \in Client |-> {}]

ClientsNext ==
    \/ \E c \in Client, o \in Op : Ask(c, o)
    \/ \E o \in Op : Advance(o) \/ Respond(o)
    \/ DeviceStep
    \/ Outage
    \/ Boot
    \/ \E c \in Client :
          \/ Connect(c) \/ Subscribe(c) \/ SubscribeThrows(c)
          \/ Receive(c) \/ Close(c)

ClientsSpec == ClientsInit /\ [][ClientsNext]_allVars

-----------------------------------------------------------------------------
(* Properties *)

ClientsTypeOK ==
    /\ link \in [Client -> {"closed", "open", "live"}]
    /\ \A c \in Client : \A i \in 1 .. Len(wire[c]) : wire[c][i] \in Frame
    /\ copy \in [Client -> [NodeId -> Held]]
    /\ caller \in [Op -> Client \cup {None}]
    /\ hushed \in SUBSET NodeId
    /\ missed \in [Client -> SUBSET NodeId]

\* A subscriber's copy, once it has received what is in flight, holds exactly
\* the nodes the database holds, wherever the subscription falls and whatever
\* came in between, but for the nodes whose node:added JSON could not carry:
\* those it lacks, reports about them notwithstanding, until it asks again.
CopyHoldsRoster ==
    \A c \in Live : \A n \in NodeId :
        Settled(c)[n] = "absent" <=> row[n] = None \/ n \in missed[c]

\* It never shows as offline a node the hub would report reachable.
NeverFalselyOffline ==
    \A c \in Live : \A n \in NodeId :
        row[n] # None /\ Reachable(n) => Settled(c)[n] # "down"

\* And it shows as reachable a node that is not only when the drop came while
\* a removal of that node had its flag up (node.ts:305).
StaleOnlyIfHushed ==
    \A c \in Live : \A n \in NodeId :
        Settled(c)[n] = "up" /\ ~Reachable(n) => n \in hushed

\* No client sees the response to its commissioning ahead of the event that
\* brings the node.
EventBeforeResponse ==
    \A c \in Live : \A i, j \in 1 .. Len(wire[c]) :
        i < j /\ wire[c][i].name = "response" /\ wire[c][j].name = "node:added"
            => wire[c][i].node # wire[c][j].node

\* use-cases/decommission.ts: a database delete that fails after the fabric
\* removal "leaves the node visible and offline".
OfflineAfterFailedDelete ==
    \A c \in Live : \A n \in NodeId :
        /\ row[n] # None /\ mapped[n] = None
        /\ \A o \in Op : Resting(o) \/ op[o].node # n
        => Settled(c)[n] = "down"
=============================================================================
