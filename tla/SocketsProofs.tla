--------------------------- MODULE SocketsProofs ----------------------------
(***************************************************************************)
(* The connections of any number of clients: who is reaped, and when, and  *)
(* what a subscriber is, with any number of pings unanswered.              *)
(***************************************************************************)
EXTENDS Sockets, TLAPS

\* A socket that is not marked alive owes the pong of the last pulse, and one
\* that is owes none.
UnmarkedOwe ==
    \A s \in Socket : conn[s] = "open" => Owed(s) = IF alive[s] THEN 0 ELSE 1

\* A pulse that found nothing of a mute client on its way left it unmarked, and
\* nothing will mark it again: it has missed one pulse, and the next reaps it.
MissedUnmarked ==
    \A s \in Socket :
        conn[s] = "open" /\ missed[s] # 0 =>
            s \in mute /\ pongs[s] = 0 /\ ~alive[s] /\ missed[s] = 1

\* No connection outlives the server.
DownAlone == server \in {"down", "draining"} => \A s \in Socket : conn[s] = "none"

IInv == TypeOK /\ UnmarkedOwe /\ MissedUnmarked /\ DownAlone /\ SubscribersConnected

-----------------------------------------------------------------------------
\* There are no connections before the server is up.
LEMMA InitHolds == Init => IInv
BY MaxOwedAssumption DEF Init, IInv, TypeOK, UnmarkedOwe, MissedUnmarked, DownAlone,
                         SubscribersConnected

\* The server listens, begins to stop, and has stopped.
LEMMA ServerKeeps == ASSUME IInv, Start \/ Stop \/ SocketsClosed \/ Stopped PROVE IInv'
<1>1. CASE Start
  BY <1>1 DEF Start, IInv, TypeOK, UnmarkedOwe, MissedUnmarked, DownAlone,
              SubscribersConnected, Owed
<1>2. CASE Stop
  <2>1. \A s \in Socket : conn'[s] = IF conn[s] = "open" THEN "closing" ELSE conn[s]
    BY <1>2 DEF Stop, Closing
  <2>2. TypeOK'
    BY <1>2, <2>1 DEF Stop, Closing, IInv, TypeOK
  <2> QED BY <1>2, <2>1, <2>2 DEF Stop, IInv, TypeOK, UnmarkedOwe, MissedUnmarked,
                                  DownAlone, SubscribersConnected
<1>3. CASE SocketsClosed \/ Stopped
  BY <1>3 DEF SocketsClosed, Stopped, IInv, TypeOK, UnmarkedOwe, MissedUnmarked, DownAlone,
              SubscribersConnected, Owed
<1> QED BY <1>1, <1>2, <1>3

\* The heartbeat takes the mark of every socket, and closes the ones that had
\* none (server.ts:251-262).
LEMMA PulseKeeps == ASSUME IInv, Pulse PROVE IInv'
<1>1. \A s \in Socket :
         /\ conn'[s] = IF conn[s] # "none" /\ ~alive[s] THEN "terminated" ELSE conn[s]
         /\ alive'[s] = IF conn[s] # "none" THEN FALSE ELSE alive[s]
         /\ pings'[s] = IF conn[s] = "open" /\ alive[s] THEN pings[s] + 1 ELSE pings[s]
         /\ missed'[s] = IF conn[s] = "open" /\ s \in mute /\ pongs[s] = 0
                         THEN missed[s] + 1 ELSE missed[s]
  BY DEF Pulse, Reaps
<1>2. TypeOK'
  <2>1. pings' \in [Socket -> 0..MaxOwed]
    BY MaxOwedAssumption DEF Pulse, Reaps, IInv, TypeOK
  <2>2. conn' \in [Socket -> {"none", "open", "closing", "terminated"}]
    BY DEF Pulse, IInv, TypeOK
  <2>3. alive' \in [Socket -> BOOLEAN]
    BY Zenon DEF Pulse, IInv, TypeOK
  <2>4. missed' \in [Socket -> Nat]
    BY DEF Pulse, IInv, TypeOK
  <2> QED BY <2>1, <2>2, <2>3, <2>4 DEF Pulse, IInv, TypeOK
<1>3. UnmarkedOwe'
  BY <1>1, MaxOwedAssumption DEF Pulse, IInv, TypeOK, UnmarkedOwe, Owed
<1>4. MissedUnmarked'
  BY <1>1 DEF Pulse, IInv, TypeOK, MissedUnmarked
<1>5. DownAlone' /\ SubscribersConnected'
  BY <1>1 DEF Pulse, IInv, TypeOK, DownAlone, SubscribersConnected
<1> QED BY <1>2, <1>3, <1>4, <1>5 DEF IInv

\* A connection starts marked, and answers or does not.
LEMMA ClientKeeps ==
    ASSUME IInv, NEW s \in Socket, Upgrade(s) \/ Echo(s) \/ Pong(s) \/ GoMute(s)
    PROVE  IInv'
<1>1. TypeOK'
  <2>1. CASE Upgrade(s)
    BY <2>1, MaxOwedAssumption DEF Upgrade, Mark, IInv, TypeOK
  <2>2. CASE Echo(s)
    BY <2>2, MaxOwedAssumption DEF Echo, IInv, TypeOK
  <2>3. CASE Pong(s)
    <3>1. alive' \in [Socket -> BOOLEAN]
      BY <2>3, Zenon DEF Pong, IInv, TypeOK
    <3>2. pongs' \in [Socket -> Nat]
      BY <2>3 DEF Pong, IInv, TypeOK
    <3> QED BY <2>3, <3>1, <3>2 DEF Pong, IInv, TypeOK
  <2>4. CASE GoMute(s)
    BY <2>4 DEF GoMute, IInv, TypeOK
  <2> QED BY <2>1, <2>2, <2>3, <2>4
<1>2. UnmarkedOwe'
  BY MaxOwedAssumption DEF Upgrade, Mark, Echo, Pong, GoMute, IInv, TypeOK, UnmarkedOwe, Owed
<1>3. MissedUnmarked'
  BY DEF Upgrade, Mark, Echo, Pong, GoMute, IInv, TypeOK, MissedUnmarked
<1>4. DownAlone' /\ SubscribersConnected'
  BY DEF Upgrade, Echo, Pong, GoMute, IInv, TypeOK, DownAlone, SubscribersConnected
<1> QED BY <1>1, <1>2, <1>3, <1>4 DEF IInv

\* A socket subscribes only while it is one, and the close event takes it out.
LEMMA SubscriberKeeps ==
    ASSUME IInv, NEW s \in Socket, Subscribe(s) \/ ClientCloses(s) \/ CloseEvent(s)
    PROVE  IInv'
<1>1. TypeOK'
  BY DEF Subscribe, ClientCloses, CloseEvent, Without, IInv, TypeOK
<1>2. UnmarkedOwe' /\ MissedUnmarked'
  BY DEF Subscribe, ClientCloses, CloseEvent, IInv, TypeOK, UnmarkedOwe, MissedUnmarked, Owed
<1>3. DownAlone' /\ SubscribersConnected'
  BY DEF Subscribe, ClientCloses, CloseEvent, Without, IInv, TypeOK, DownAlone,
         SubscribersConnected
<1> QED BY <1>1, <1>2, <1>3 DEF IInv

\* A plain request leaves the sockets alone.
LEMMA GuestKeeps == ASSUME IInv, NEW g \in Guest, Ask(g) \/ GiveUp(g) PROVE IInv'
BY DEF Ask, GiveUp, IInv, TypeOK, UnmarkedOwe, MissedUnmarked, DownAlone,
       SubscribersConnected, Owed

\* So every step keeps the invariant.
LEMMA NextKeepsIInv == IInv /\ [Next]_vars => IInv'
<1> SUFFICES ASSUME IInv, [Next]_vars PROVE IInv'
  OBVIOUS
<1>1. CASE Start \/ Stop \/ SocketsClosed \/ Stopped
  BY <1>1, ServerKeeps
<1>2. CASE Pulse
  BY <1>2, PulseKeeps
<1>3. ASSUME NEW s \in Socket, Upgrade(s) \/ Echo(s) \/ Pong(s) \/ GoMute(s) PROVE IInv'
  BY <1>3, ClientKeeps
<1>4. ASSUME NEW s \in Socket, Subscribe(s) \/ ClientCloses(s) \/ CloseEvent(s) PROVE IInv'
  BY <1>4, SubscriberKeeps
<1>5. CASE UNCHANGED vars
  BY <1>5 DEF vars, IInv, TypeOK, UnmarkedOwe, MissedUnmarked, DownAlone,
              SubscribersConnected, Owed
<1>6. ASSUME NEW g \in Guest, Ask(g) \/ GiveUp(g) PROVE IInv'
  BY <1>6, GuestKeeps
<1> QED BY <1>1, <1>2, <1>3, <1>4, <1>5, <1>6 DEF Next

\* What the mark, the pings and the subscribers are to each other holds for any
\* number of clients (server.ts:251-262, channel.ts:64).
THEOREM Invariance == Spec => []IInv
<1> QED BY InitHolds, NextKeepsIInv, PTL DEF Spec

\* A client that has stopped answering is closed by the second pulse after its
\* last pong (server.ts:251-262).
THEOREM AlwaysGoneInTwo == Spec => []GoneInTwo
<1>1. IInv => GoneInTwo
  BY DEF IInv, TypeOK, MissedUnmarked, GoneInTwo
<1> QED BY <1>1, Invariance, PTL

\* No subscriber outlives its socket or the server (channel.ts:64,
\* server.ts:152).
THEOREM AlwaysSubscribersConnected == Spec => []SubscribersConnected
<1>1. IInv => SubscribersConnected
  BY DEF IInv
<1> QED BY <1>1, Invariance, PTL

\* A client is reaped by a pulse that finds its last ping unanswered, pinged by
\* one that does not (server.ts:253-262).
THEOREM OnlyOwingReaped == Spec => ReapedOwing
<1>1. IInv /\ [Next]_vars =>
        [\A s \in Socket :
            conn[s] = "open" =>
               /\ conn'[s] = "terminated" => Owed(s) > 0
               /\ pings'[s] > pings[s] => Owed(s) = 0]_vars
  <2> SUFFICES ASSUME IInv, Next, NEW s \in Socket, conn[s] = "open"
               PROVE  /\ conn'[s] = "terminated" => Owed(s) > 0
                      /\ pings'[s] > pings[s] => Owed(s) = 0
    OBVIOUS
  <2>0. /\ Owed(s) = IF alive[s] THEN 0 ELSE 1
        /\ pings[s] \in Nat /\ ~(pings[s] > pings[s])
    BY DEF IInv, TypeOK, UnmarkedOwe
  <2>1. CASE Pulse
    <3>1. /\ conn'[s] = IF ~alive[s] THEN "terminated" ELSE "open"
          /\ pings'[s] = IF alive[s] THEN pings[s] + 1 ELSE pings[s]
      BY <2>1 DEF Pulse, Reaps
    <3> QED BY <2>0, <3>1
  <2>2. CASE Start \/ Stop \/ SocketsClosed \/ Stopped
    <3>1. pings' = pings /\ conn'[s] # "terminated"
      BY <2>2 DEF Start, Stop, Closing, SocketsClosed, Stopped
    <3> QED BY <2>0, <3>1
  <2>3. ASSUME NEW t \in Socket,
               \/ Upgrade(t) \/ Echo(t) \/ Pong(t) \/ GoMute(t) \/ Subscribe(t)
               \/ ClientCloses(t) \/ CloseEvent(t)
        PROVE  conn'[s] # "terminated" /\ ~(pings'[s] > pings[s])
    <3>1. conn'[s] # "terminated"
      BY <2>3 DEF Upgrade, Echo, Pong, GoMute, Subscribe, ClientCloses, CloseEvent, IInv, TypeOK
    <3>2. pings'[s] = pings[s] \/ pings'[s] = pings[s] - 1
      BY <2>3 DEF Upgrade, Echo, Pong, GoMute, Subscribe, ClientCloses, CloseEvent, IInv, TypeOK
    <3> QED BY <2>0, <3>1, <3>2
  <2>4. ASSUME NEW g \in Guest, Ask(g) \/ GiveUp(g)
        PROVE  conn'[s] # "terminated" /\ pings'[s] = pings[s]
    BY <2>4 DEF Ask, GiveUp
  <2> QED BY <2>0, <2>1, <2>2, <2>3, <2>4 DEF Next
<1> QED BY <1>1, Invariance, PTL DEF Spec, ReapedOwing
=============================================================================
