---------------------------- MODULE Interactions ----------------------------
(***************************************************************************)
(* What a client asks of a device: endpoint.read, write and invoke, from   *)
(* the message on the socket, through the dispatcher and the gateway, to   *)
(* the device and back, with the changes the device reports meanwhile.     *)
(* Requests run concurrently, each over its own await; sockets close,      *)
(* nodes leave and the process ends under them.                            *)
(*                                                                         *)
(* The Matter SDK and the devices are external: what they may answer is    *)
(* taken from how the gateway handles it.                                  *)
(***************************************************************************)
EXTENDS Naturals, FiniteSets

CONSTANTS
    Client, Call, Endpoint,
    Element,         \* attributes and commands, by their ids
    Addressable,     \* those whose ids Matter can address
    Known,           \* those of the SDK's cluster model
    Served,          \* those the devices serve: attributes and accepted commands
    Value,
    Wide,            \* 64-bit integers, which JSON cannot carry
    Fits(_, _),      \* whether the SDK can encode a value for an element
    None

ASSUME ElementAssumption ==
    Known \subseteq Addressable /\ Addressable \subseteq Element
    /\ Served \subseteq Addressable
ASSUME ValueAssumption == Wide \subseteq Value /\ Value \ Wide # {}
ASSUME NoneAssumption == None \notin Client \cup Value
ASSUME FitsAssumption == \A x \in Element, v \in Value : Fits(x, v) \in BOOLEAN

VARIABLES
    hub,        \* whether the process runs
    life,       \* endpoint -> "new", "mapped" or "gone"
    link,       \* client -> "closed", "open" or "live" (in #subscribers)
    held,       \* endpoint -> the values the device holds
    cache,      \* endpoint -> the values the SDK last heard of
    seen,       \* client -> endpoint -> the values it was told of, or None
    call,       \* call -> what was asked and what became of it
    reached,    \* the calls that got to a device
    taken,      \* the calls a device carried out
    mute        \* the calls a device replied to without a status

home == <<life, held, cache>>
history == <<reached, taken, mute>>
vars == <<hub, life, link, held, cache, seen, call, history>>

Operations == {"read", "write", "invoke"}

\* How a message fares before it is a request for a handler.
Malformed == {"parse error", "invalid request", "positional", "no such method",
              "bad params"}

Refusals == {"endpoint not found", "not found", "invalid"}
Unreachable == {"asleep", "offline"}
Answers == {"ok", "rejected", "failed", "no method"} \cup Refusals \cup Unreachable

Reply == {"none", "done", "refused", "silent"}

Idle == [phase |-> "idle", by |-> None, op |-> "read", at |-> None, of |-> None,
         value |-> None, reply |-> "none", answer |-> "none"]

-----------------------------------------------------------------------------
(* The answers *)

\* The elements a write or an invoke finds in the cluster model.
Modelled(op, x) == op = "read" \/ x \in Known

\* What the gateway refuses by itself, in the order of its checks.
Refusal(op, e, x, v) ==
    IF life[e] # "mapped" THEN "endpoint not found"
    ELSE IF ~Modelled(op, x) THEN "not found"
    ELSE IF op = "read" /\ x \notin Addressable THEN "invalid"
    ELSE IF op # "read" /\ ~Fits(x, v) THEN "invalid"
    ELSE "none"

\* Mutant: the statuses of the response are not looked at.
ReadingUnchecked(op, reply) ==
    IF op = "read" /\ reply = "refused" THEN "not found" ELSE "ok"

\* The device's reply in the contract's words: a write or a command whose
\* response holds no status has none that is not Success.
Reading(op, reply) ==
    IF reply \in {"done", "silent"} THEN "ok"
    ELSE IF op = "read" THEN "not found" ELSE "rejected"

\* Whether JSON.stringify accepts what is to be sent.
Carried(values) == values \cap Wide = {}

\* The values of an endpoint, as a baseline or node:added carries them.
Values(e) == {cache[e][x] : x \in Served}

-----------------------------------------------------------------------------
(* The end of a call and of the process *)

\* What is kept of a call that is over.
Over(c, phase, answer) ==
    [Idle EXCEPT !.phase = phase, !.op = c.op, !.answer = answer]

\* The process ends: every socket and every request with it.
Ended(c) == IF c.phase = "asked" THEN Over(c, "dropped", "none") ELSE c

\* Mutant: the sockets of the process are forgotten.
DownLeavingSockets ==
    /\ hub' = FALSE /\ UNCHANGED link
    /\ seen' = [c \in Client |-> [e \in Endpoint |-> None]]

Down ==
    /\ hub' = FALSE
    /\ link' = [c \in Client |-> "closed"]
    /\ seen' = [c \in Client |-> [e \in Endpoint |-> None]]

\* An async handler that throws after its answer is composed leaves a rejected
\* promise nobody handles, which ends the process.
Thrown(k) ==
    /\ Down
    /\ call' = [j \in Call |->
                  IF j = k THEN Over(call[k], "lost", "none") ELSE Ended(call[j])]

\* The response is sent on the socket the request came from, if it is open.
Settle(k, answer, value) ==
    IF ~Carried({value})
    THEN Thrown(k)
    ELSE /\ call' = [call EXCEPT ![k] =
                Over(call[k], IF call[k].by = None THEN "dropped" ELSE "answered", answer)]
         /\ UNCHANGED <<hub, link, seen>>

-----------------------------------------------------------------------------
(* Requests *)

\* A message that is answered before any handler of the endpoint runs.
Misfit(k, c, form) ==
    /\ hub /\ link[c] # "closed" /\ call[k].phase = "idle"
    /\ call' = [call EXCEPT ![k] =
            Over(Idle, "answered",
                 IF form = "no such method" THEN "no method" ELSE "invalid")]
    /\ UNCHANGED <<hub, link, seen, home, history>>

\* EndpointGateway.read, write and invoke, up to their await.
Ask(k, c, op, e, x, v) ==
    /\ hub /\ link[c] # "closed" /\ call[k].phase = "idle"
    /\ LET refusal == Refusal(op, e, x, v)
           asked == [Idle EXCEPT !.phase = "asked", !.by = c, !.op = op, !.at = e,
                        !.of = x, !.value = IF op = "read" THEN None ELSE v]
       IN call' = [call EXCEPT ![k] =
                      IF refusal = "none" THEN asked
                      ELSE Over(asked, "answered", refusal)]
    /\ UNCHANGED <<hub, link, seen, home, history>>

\* Mutant: a device that does not answer is taken to be asleep.
FailureAsleep(k) == {"asleep", "failed"}

\* How an interaction that throws is reported: interactionError.  The SDK
\* holds a request for a sleeping device without sending it; a device that
\* does not answer may have been reached or not.
Failure(k) ==
    {"offline", "failed"} \cup (IF k \in reached THEN {} ELSE {"asleep"})

\* The request gets to the device, which acts on it or refuses it, and of a
\* write or a command may not say which.
Deliver(k, reply) ==
    /\ hub /\ call[k].phase = "asked" /\ k \notin reached
    /\ life[call[k].at] = "mapped"
    /\ call[k].of \notin Served => reply # "done"
    /\ call[k].op = "read" => reply # "silent"
    /\ reached' = reached \cup {k}
    /\ mute' = IF reply = "silent" THEN mute \cup {k} ELSE mute
    /\ LET value == IF call[k].op = "read" /\ reply = "done"
                    THEN held[call[k].at][call[k].of] ELSE call[k].value
       IN call' = [call EXCEPT ![k] = [call[k] EXCEPT !.reply = reply, !.value = value]]
    /\ \/ reply \in {"refused", "silent"} /\ UNCHANGED <<taken, held>>
       \/ /\ reply \in {"done", "silent"} /\ call[k].of \in Served
          /\ taken' = taken \cup {k}
          /\ IF call[k].op # "write" THEN UNCHANGED held
             ELSE held' = [held EXCEPT ![call[k].at] =
                              [@ EXCEPT ![call[k].of] = call[k].value]]
    /\ UNCHANGED <<hub, life, link, cache, seen>>

\* The device's reply comes back.
Answer(k) ==
    /\ hub /\ call[k].phase = "asked" /\ call[k].reply # "none"
    /\ Settle(k, Reading(call[k].op, call[k].reply), call[k].value)
    /\ UNCHANGED <<home, history>>

\* A read the SDK serves from its cache, or whose stream ends with neither a
\* value nor a status.
AnswerFromCache(k) ==
    /\ hub /\ call[k].phase = "asked" /\ call[k].op = "read"
    /\ \/ call[k].of \in Served /\ Settle(k, "ok", cache[call[k].at][call[k].of])
       \/ Settle(k, "not found", None)
    /\ UNCHANGED <<home, history>>

Fail(k) ==
    /\ hub /\ call[k].phase = "asked"
    /\ \E answer \in Failure(k) : Settle(k, answer, None)
    /\ UNCHANGED <<home, history>>

-----------------------------------------------------------------------------
(* Devices and their nodes *)

Drift(e, x, v) ==
    /\ life[e] # "gone" /\ x \in Served /\ Fits(x, v) /\ held[e][x] # v
    /\ held' = [held EXCEPT ![e][x] = v]
    /\ UNCHANGED <<hub, life, link, cache, seen, call, history>>

Live == {c \in Client : link[c] = "live"}

\* Mutant: a client that holds the endpoint is told only what JSON carried
\* the last time.
ForwardUnlessWideBefore(e, x, v) ==
    [c \in Client |->
        IF c \in Live /\ seen[c][e] # None /\ Carried({v, cache[e][x]})
        THEN [seen[c] EXCEPT ![e] = [@ EXCEPT ![x] = v]] ELSE seen[c]]

\* JsonRpcChannel.forward of endpoint:changed: a payload that does not
\* serialise throws into the bus, which logs it.
Forward(e, x, v) ==
    [c \in Client |->
        IF c \in Live /\ seen[c][e] # None /\ Carried({v})
        THEN [seen[c] EXCEPT ![e] = [@ EXCEPT ![x] = v]] ELSE seen[c]]

\* An attribute report reaches the SDK, and its observer the bus.
Report(e, x) ==
    /\ hub /\ life[e] = "mapped" /\ cache[e][x] # held[e][x]
    /\ cache' = [cache EXCEPT ![e][x] = held[e][x]]
    /\ seen' = Forward(e, x, held[e][x])
    /\ UNCHANGED <<hub, life, link, held, call, history>>

\* The node of an endpoint joins: the SDK reads it, and node:added brings it.
Join(e) ==
    /\ hub /\ life[e] = "new"
    /\ life' = [life EXCEPT ![e] = "mapped"]
    /\ cache' = [cache EXCEPT ![e] = held[e]]
    /\ seen' = [c \in Client |->
                  IF c \in Live /\ Carried(Values(e)')
                  THEN [seen[c] EXCEPT ![e] = held[e]] ELSE seen[c]]
    /\ UNCHANGED <<hub, link, held, call, history>>

\* It leaves: unmapped, then announced.
Leave(e) ==
    /\ hub /\ life[e] = "mapped"
    /\ life' = [life EXCEPT ![e] = "gone"]
    /\ seen' = [c \in Client |-> [seen[c] EXCEPT ![e] = None]]
    /\ UNCHANGED <<hub, link, held, cache, call, history>>

-----------------------------------------------------------------------------
(* Sockets and the process *)

Open(c) ==
    /\ hub /\ link[c] = "closed"
    /\ link' = [link EXCEPT ![c] = "open"]
    /\ UNCHANGED <<hub, home, seen, call, history>>

\* A closed socket loses its subscription; what it asked for runs on.
Close(c) ==
    /\ link[c] # "closed"
    /\ link' = [link EXCEPT ![c] = "closed"]
    /\ seen' = [seen EXCEPT ![c] = [e \in Endpoint |-> None]]
    /\ call' = [k \in Call |->
                  IF call[k].by = c THEN [call[k] EXCEPT !.by = None] ELSE call[k]]
    /\ UNCHANGED <<hub, home, history>>

Mapped == {e \in Endpoint : life[e] = "mapped"}

\* JsonRpcChannel.subscribe.
Subscribe(c) ==
    /\ hub /\ link[c] # "closed"
    /\ IF Carried(UNION {Values(e) : e \in Mapped})
       THEN /\ link' = [link EXCEPT ![c] = "live"]
            /\ seen' = [seen EXCEPT ![c] =
                    [e \in Endpoint |-> IF e \in Mapped THEN cache[e] ELSE None]]
            /\ UNCHANGED <<hub, call>>
       ELSE /\ Down
            /\ call' = [k \in Call |-> Ended(call[k])]
    /\ UNCHANGED <<home, history>>

Stop ==
    /\ hub
    /\ Down
    /\ call' = [k \in Call |-> Ended(call[k])]
    /\ UNCHANGED <<home, history>>

Start ==
    /\ ~hub
    /\ hub' = TRUE
    /\ UNCHANGED <<link, seen, home, call, history>>

-----------------------------------------------------------------------------

Init ==
    /\ hub = TRUE
    /\ life = [e \in Endpoint |-> "new"]
    /\ link = [c \in Client |-> "closed"]
    /\ \E v \in Value \ Wide :
          /\ \A x \in Served : Fits(x, v)
          /\ held = [e \in Endpoint |-> [x \in Element |-> v]]
    /\ cache = held
    /\ seen = [c \in Client |-> [e \in Endpoint |-> None]]
    /\ call = [k \in Call |-> Idle]
    /\ reached = {} /\ taken = {} /\ mute = {}

\* What the SDK does for a call.
Progress(k) ==
    \/ \E reply \in Reply \ {"none"} : Deliver(k, reply)
    \/ Answer(k)
    \/ AnswerFromCache(k)
    \/ Fail(k)

Next ==
    \/ \E k \in Call, c \in Client :
          \/ \E form \in Malformed : Misfit(k, c, form)
          \/ \E op \in Operations, e \in Endpoint, x \in Element, v \in Value \ Wide :
                Ask(k, c, op, e, x, v)
    \/ \E k \in Call : Progress(k)
    \/ \E e \in Endpoint, x \in Element : Report(e, x) \/ \E v \in Value : Drift(e, x, v)
    \/ \E e \in Endpoint : Join(e) \/ Leave(e)
    \/ \E c \in Client : Open(c) \/ Close(c) \/ Subscribe(c)
    \/ Stop
    \/ Start

Spec == Init /\ [][Next]_vars

-----------------------------------------------------------------------------
(* Properties *)

Values0 == [Element -> Value]

CallRecord ==
    [phase : {"idle", "asked", "answered", "dropped", "lost"},
     by : Client \cup {None}, op : Operations, at : Endpoint \cup {None},
     of : Element \cup {None}, value : Value \cup {None}, reply : Reply,
     answer : Answers \cup {"none"}]

\* The type of the variables; an answer stands once its call is over, and a
\* process that is down has no sockets (server.ts, endpoint.ts).
TypeOK ==
    /\ hub \in BOOLEAN
    /\ life \in [Endpoint -> {"new", "mapped", "gone"}]
    /\ link \in [Client -> {"closed", "open", "live"}]
    /\ held \in [Endpoint -> Values0] /\ cache \in [Endpoint -> Values0]
    /\ seen \in [Client -> [Endpoint -> Values0 \cup {None}]]
    /\ call \in [Call -> CallRecord]
    /\ reached \subseteq Call /\ taken \subseteq reached /\ mute \subseteq reached
    /\ ~hub => \A c \in Client : link[c] = "closed"

Answered(k, answers) == call[k].phase = "answered" /\ call[k].answer \in answers

\* A write or a command answered as done was carried out by the device, unless
\* the device replied without a status, and one answered as rejected was not:
\* the status of the response decides, and nothing that breaks on the way
\* passes for either (endpoint.ts:189-202 and 233-253, where a throw inside the
\* drain would lose the status and an empty list of them counts as done).
AnswersTellTruth ==
    \A k \in Call :
        /\ Answered(k, {"ok"}) /\ call[k].op # "read" => k \in taken \cup mute
        /\ Answered(k, {"rejected"}) => k \in reached \ (taken \cup mute)

\* What the hub refuses by itself, and what it could not send to a sleeping
\* device, never gets to a device, however many awaits other requests are at
\* (endpoint.ts:156-187 and 206-231: resolved, looked up and encoded first).
RefusedUnsent ==
    \A k \in Call :
        \/ Answered(k, {"endpoint not found", "invalid", "asleep", "no method"})
        \/ Answered(k, {"not found"}) /\ call[k].op # "read"
        => k \notin reached

\* A subscriber's copy of a listed endpoint differs from the SDK's only where
\* the SDK holds a value JSON cannot carry (channel.ts:55).
BehindOnlyIfWide ==
    \A c \in Live, e \in Endpoint :
        seen[c][e] # None =>
            \A x \in Served : seen[c][e][x] # cache[e][x] => cache[e][x] \in Wide

\* packages/contract/src/endpoint/types.ts:9-11: the server encodes a 64-bit
\* value as a decimal string on the way out, so subscribers follow it.
CopyFollowsDevice ==
    \A c \in Live, e \in Endpoint :
        seen[c][e] # None => \A x \in Served : seen[c][e][x] = cache[e][x]
=============================================================================
