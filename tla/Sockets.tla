------------------------------ MODULE Sockets -------------------------------
(***************************************************************************)
(* The connections of HttpServerProvider: the upgrade, the heartbeat that  *)
(* reaps a client that stops answering, the subscriber set, and the stop   *)
(* that waits for every connection to end.  A socket here is a WebSocket   *)
(* object; an identifier is reused once its close event has been handled.  *)
(* A plain HTTP request is never answered, the server having no listener   *)
(* for one, and lasts for as long as its client has the patience.          *)
(***************************************************************************)
EXTENDS Naturals

CONSTANTS
    Socket,
    Guest,       \* clients that send a plain HTTP request
    MaxOwed      \* bound: pings sent and not yet answered, per socket

ASSUME MaxOwedAssumption == MaxOwed \in Nat \ {0}

VARIABLES
    server,      \* "down", "up", "closing" while stop() awaits the WebSockets,
                 \* "draining" while it awaits the other connections
    conn,        \* socket -> "none", "open", "closing" or "terminated"
    alive,       \* socket -> the mark of #alive
    subscribed,  \* the sockets of JsonRpcChannel.#subscribers
    pings,       \* socket -> pings on their way to the client
    pongs,       \* socket -> pongs on their way to the hub
    plain,       \* the guests whose request is under way
    mute,        \* the sockets whose client no longer answers
    missed       \* history: pulses since a mute socket's last pong arrived

vars == <<server, plain, conn, alive, subscribed, pings, pongs, mute, missed>>

\* The pings a socket's client was sent whose pong has not arrived.
Owed(s) == pings[s] + pongs[s]

-----------------------------------------------------------------------------

\* Mutant: the first pong is what marks a connection alive.
MarkOnPong == FALSE

\* The mark of a new connection.
Mark == TRUE

\* start(): the socket listens before the heartbeat runs; a listen that fails
\* leaves the server down.
Start ==
    /\ server = "down"
    /\ server' \in {"up", "down"}
    /\ UNCHANGED <<plain, conn, alive, subscribed, pings, pongs, mute, missed>>

\* #handleUpgrade of a client with the right version and token, #onConnection.
\* One that is rejected changes nothing.
Upgrade(s) ==
    /\ server = "up" /\ conn[s] = "none"
    /\ conn' = [conn EXCEPT ![s] = "open"]
    /\ alive' = [alive EXCEPT ![s] = Mark]
    /\ pings' = [pings EXCEPT ![s] = 0]
    /\ pongs' = [pongs EXCEPT ![s] = 0]
    /\ mute' = mute \ {s}
    /\ missed' = [missed EXCEPT ![s] = 0]
    /\ UNCHANGED <<server, plain, subscribed>>

\* Mutant: only a socket nobody subscribed on is reaped.
ReapsIdle(s) == ~alive[s] /\ s \notin subscribed

\* The socket has not answered since the pulse before.
Reaps(s) == ~alive[s]

\* #pulse, over every socket of the WebSocket server at once.
Pulse ==
    /\ server = "up"
    /\ \A s \in Socket : pings[s] < MaxOwed
    /\ conn' = [s \in Socket |->
                  IF conn[s] # "none" /\ Reaps(s) THEN "terminated" ELSE conn[s]]
    /\ alive' = [s \in Socket |->
                  IF conn[s] # "none" THEN FALSE ELSE alive[s]]
    /\ pings' = [s \in Socket |->
                  IF conn[s] = "open" /\ ~Reaps(s) THEN pings[s] + 1 ELSE pings[s]]
    /\ missed' = [s \in Socket |->
                  IF conn[s] = "open" /\ s \in mute /\ pongs[s] = 0
                  THEN missed[s] + 1 ELSE missed[s]]
    /\ UNCHANGED <<server, plain, subscribed, pongs, mute>>

\* The client answers a ping.
Echo(s) ==
    /\ conn[s] = "open" /\ s \notin mute /\ pings[s] > 0
    /\ pings' = [pings EXCEPT ![s] = @ - 1]
    /\ pongs' = [pongs EXCEPT ![s] = @ + 1]
    /\ UNCHANGED <<server, plain, conn, alive, subscribed, mute, missed>>

\* The pong listener.
Pong(s) ==
    /\ conn[s] \in {"open", "closing"} /\ pongs[s] > 0
    /\ pongs' = [pongs EXCEPT ![s] = @ - 1]
    /\ alive' = [alive EXCEPT ![s] = TRUE]
    /\ UNCHANGED <<server, plain, conn, subscribed, pings, mute, missed>>

\* The client's machine or its network goes, without a close.
GoMute(s) ==
    /\ conn[s] = "open" /\ s \notin mute
    /\ mute' = mute \cup {s}
    /\ UNCHANGED <<server, plain, conn, alive, subscribed, pings, pongs, missed>>

\* hub.subscribe.  A socket the hub is closing still delivers what the client
\* sent before it knew; the baseline then goes nowhere.
Subscribe(s) ==
    /\ conn[s] \in {"open", "closing"}
    /\ subscribed' = subscribed \cup {s}
    /\ UNCHANGED <<server, plain, conn, alive, pings, pongs, mute, missed>>

ClientCloses(s) ==
    /\ conn[s] = "open" /\ s \notin mute
    /\ conn' = [conn EXCEPT ![s] = "closing"]
    /\ UNCHANGED <<server, plain, alive, subscribed, pings, pongs, mute, missed>>

\* Mutant: the close event is not listened to.
Forgetting(s) == subscribed

\* JsonRpcChannel.remove.
Without(s) == subscribed \ {s}

\* The close event: the closing handshake is over, was given up, or the socket
\* was terminated.
CloseEvent(s) ==
    /\ conn[s] \in {"closing", "terminated"}
    /\ conn' = [conn EXCEPT ![s] = "none"]
    /\ subscribed' = Without(s)
    /\ UNCHANGED <<server, plain, alive, pings, pongs, mute, missed>>

\* Mutant: the sockets are left to their clients.
ClosingNone == conn

\* Every open socket begins its closing handshake.
Closing ==
    [s \in Socket |-> IF conn[s] = "open" THEN "closing" ELSE conn[s]]

\* stop(), up to its first await: no pulse from here on.
Stop ==
    /\ server = "up"
    /\ server' = "closing"
    /\ conn' = Closing
    /\ UNCHANGED <<plain, alive, subscribed, pings, pongs, mute, missed>>

\* wss.close calls back, and server.close is called: the server listens no more.
SocketsClosed ==
    /\ server = "closing"
    /\ \A s \in Socket : conn[s] = "none"
    /\ server' = "draining"
    /\ UNCHANGED <<plain, conn, alive, subscribed, pings, pongs, mute, missed>>

\* server.close calls back once no connection has a request under way.
Stopped ==
    /\ server = "draining"
    /\ plain = {}
    /\ server' = "down"
    /\ UNCHANGED <<plain, conn, alive, subscribed, pings, pongs, mute, missed>>

\* A plain request arrives, which createServer() has no listener for.
Ask(g) ==
    /\ server \in {"up", "closing"} /\ g \notin plain
    /\ plain' = plain \cup {g}
    /\ UNCHANGED <<server, conn, alive, subscribed, pings, pongs, mute, missed>>

\* External: its client gives up.
GiveUp(g) ==
    /\ g \in plain
    /\ plain' = plain \ {g}
    /\ UNCHANGED <<server, conn, alive, subscribed, pings, pongs, mute, missed>>

-----------------------------------------------------------------------------

Init ==
    /\ server = "down"
    /\ conn = [s \in Socket |-> "none"]
    /\ alive = [s \in Socket |-> FALSE]
    /\ subscribed = {} /\ mute = {} /\ plain = {}
    /\ pings = [s \in Socket |-> 0] /\ pongs = [s \in Socket |-> 0]
    /\ missed = [s \in Socket |-> 0]

Next ==
    \/ Start \/ Pulse \/ Stop \/ SocketsClosed \/ Stopped
    \/ \E g \in Guest : Ask(g) \/ GiveUp(g)
    \/ \E s \in Socket :
          \/ Upgrade(s) \/ Echo(s) \/ Pong(s) \/ GoMute(s) \/ Subscribe(s)
          \/ ClientCloses(s) \/ CloseEvent(s)

Spec == Init /\ [][Next]_vars

\* The library gives up a closing handshake after its own timeout, so that
\* every socket told to close does.  Nothing of the kind ends a plain request:
\* GiveUp has no fairness.
Fairness ==
    /\ WF_vars(SocketsClosed) /\ WF_vars(Stopped)
    /\ \A s \in Socket : WF_vars(CloseEvent(s))

FairSpec == Spec /\ Fairness

-----------------------------------------------------------------------------
(* Properties *)

\* The type of the variables of server.ts and channel.ts; nothing is open or
\* subscribed before the server is up.
TypeOK ==
    /\ server \in {"down", "up", "closing", "draining"}
    /\ plain \subseteq Guest
    /\ conn \in [Socket -> {"none", "open", "closing", "terminated"}]
    /\ alive \in [Socket -> BOOLEAN]
    /\ subscribed \subseteq Socket /\ mute \subseteq Socket
    /\ pings \in [Socket -> 0..MaxOwed] /\ pongs \in [Socket -> Nat]
    /\ missed \in [Socket -> Nat]
    /\ server \in {"closing", "draining"} => \A s \in Socket : conn[s] # "open"

\* A pulse reaps a client exactly when the pong of its last ping has not
\* arrived by then, and pings the others: one whose answers have all arrived,
\* and one that was never pinged, are kept, and a pong still on its way, which
\* is late, saves nobody (server.ts:253-262, the mark of a connection set
\* before its first pulse).
ReapedOwing ==
    [][\A s \in Socket :
          conn[s] = "open" =>
             /\ conn'[s] = "terminated" => Owed(s) > 0
             /\ pings'[s] > pings[s] => Owed(s) = 0]_vars

\* A client that has stopped answering is closed by the second pulse after its
\* last pong, subscribed or not (server.ts:251-262).
GoneInTwo == \A s \in Socket : conn[s] = "open" => missed[s] < 2

\* A subscriber is a connection of this run: none outlives its socket, nor the
\* server it connected to, even one that subscribes while it is being closed
\* (channel.ts:64, server.ts:152).
SubscribersConnected ==
    /\ \A s \in subscribed : conn[s] # "none"
    /\ server = "down" => subscribed = {}

\* stop() resolves, whatever its WebSocket clients do, unless the client of a
\* plain request waits for an answer for ever (server.ts:117, 174-180).
StopResolves ==
    (\A g \in Guest : []<>(g \notin plain))
        => (server = "closing" ~> server = "down")
=============================================================================
