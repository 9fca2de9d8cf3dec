# Verification of the home-chip hub

The hub is one Node.js process: it owns a Matter fabric through an SDK
(matter.js), keeps its own records in SQLite, and serves clients over one
WebSocket server that speaks JSON-RPC. Everything runs on one event loop, so
what can interleave is what lies between two `await`s, and what can go wrong is
mostly that several stores (the devices' credentials, the SDK's peers, the
database, the identity map in memory, the copies that clients keep) move at
different moments.

This directory holds TLA+ models of it, TLC configurations that check them on
small instances, and TLAPS proofs of what matters most for every instance. An
action of a module is what the code runs between two awaits, unless the module
says otherwise; `PROJECT.json` maps every definition to the lines it models.

## Inventory

| Component | State it keeps | Operations | What makes it correct |
|---|---|---|---|
| Commission / decommission use-cases (`server/src/use-cases`), node gateway (`matter/src/gateways/node.ts`) | the requests in flight; `#decommissioning` | commission, its undo, decommission (forced or not), `isReachable`, session events | fabric, map and database stay in step over failures, overlaps and crashes; what a client was answered stays true |
| Identity map, node watcher (`identity.ts`, `watcher.ts`) | node id → SDK peer, endpoint id → endpoint; listeners; the observers of each node | add, remove, clear, hydrate, notify; start, stop, watch, unwatch | one node per peer; every stored node with a peer is addressable and observed, nothing is observed for a node that is gone |
| Matter provider (`matter.ts`) | the controller, the gateways | start (hydration), stop | correlation by matter id at boot; a stop is not reported as the house dropping off |
| Endpoint gateway (`gateways/endpoint.ts`) | none of its own | read, write, invoke, describe; watches attributes | an answer says what the device did; what is refused was never sent |
| Database provider, transactor, migrations, repositories (`database/src`) | one SQLite connection, tables `nodes`, `endpoints`, `rooms`, `user_version` | start, migrate, transaction, single statements, stop; cascades | all or nothing; the connection is never left in a transaction; ids survive the signed column |
| Event bus, views (`registry/src`) | handlers; nothing | emit, on, unsubscribe; list, get | each handler told once of an event, whatever the others do meanwhile; one event per change |
| Event channel, server, dispatcher (`server/src`) | subscribers, live marks, sockets | subscribe with a baseline, forward, request and response, heartbeat, stop | a client's copy is the hub's; no request holds up another; dead sockets go, live ones stay |
| Endpoint and room use-cases | the tables | rename, assign, create, remove | references hold; one event tells a client everything that changed, cascades included |
| Hub composition, entry point (`apps/hub/src`) | `#started`, `stopping` | boot, unwind, shutdown, signals | reverse order, everything stopped, a device that joins meanwhile still saved |
| Configuration (`config/src`, `contract/src/config`) | the environment and the file, read once | read, validate, default | nothing that is misspelt or out of range runs at a default in silence |
| Log streams, logger, schemas and error classes | files; none | | data and output, no control worth a model beyond the streams' place in the boot |

The components call each other directly; what is asynchronous is the SDK
(commission, decommission, interactions, each settled by an external answer),
the sockets, and the signals. The SDK announces sessions and attribute changes
by callbacks, which the gateways put on the bus, which the channel forwards to
the subscribers, all in the callback's turn.

The behaviours that are hard to test are listed under `hazards` in
`PROJECT.json`, each at the line where it bites and with the properties that
would catch it.

## Modules

**`Roster`** is the abstract specification of what the hub promises about its
nodes: a node is unborn, listed, then gone for ever, and each step of the list
is told by exactly one event (`node:added` before anything else is said of a
node, nothing after `node:removed`).

**`Fabric`** is commissioning and decommissioning in detail: the devices'
credentials, the SDK's peers in memory and on its disk, sessions, the `nodes`
table, the identity map, the filter on going offline, and requests suspended at
each of their awaits. `Faults` selects which failures an instance admits: an
observer that cannot attach, a transaction or a delete that fails, an SDK that
refuses, a session that drops, a factory reset, a crash, a power cut (the SDK's
store loses its latest writes, the database does not). Requests of any kind
overlap. `RosterSpec` says that Fabric implements Roster, with the refinement
mapping `R`: a node's stage is read off its row, the ids ever minted and the
map, and the event is the step's `emit`.

**`Clients`** extends Fabric with the server: sockets, the ordered wire of each
client, the baseline of a subscription, events, responses, and the copy a
client builds from them. `Settled(c)` is the copy once what is on its way has
arrived. A baseline and a `node:added` carry attribute values, and
`JSON.stringify` throws on a 64-bit one; which values there are is left open, so
that any `node:added` may be lost (`Forward`: every subscriber gets the frame or
none does) and any baseline may end the process (`SubscribeThrows`: nobody
handles the rejection of `#onMessage`). `hushed` and `missed` are history: the
nodes that dropped while a removal of theirs had its flag up, and, per client,
the nodes whose `node:added` was lost since its baseline.

**`Home`** is what clients hold of the house: nodes with their endpoints,
rooms, names, values and the two foreign-key cascades. `Apply` is how a client
folds one event; the values come from the SDK's cache, which is updated before
the change is announced (`pending`). The values are here, and some are `Wide`:
a frame with one of them in it is not sent (`Carried`), and `missed` keeps the
nodes that were lost to a client that way. It implements Roster as well (`R`), its
announcements of endpoints and rooms being silence there. `SdkNodeGateway`'s
awaits are one step here (they are Fabric's subject); the window between
registering a node and saving it is kept.

**`Settings`** is the rules of the auth token and of the configuration file as
operators: which bodies of the file are valid, field by field, and what is
filled in. A JSON value is its type with what the rules tell apart.

**`Hub`** is the process: the environment and the file it is given, read with
`Settings`, boot, the unwinding of a boot that fails, the shutdown walks of
signals, and a commissioning in flight meanwhile. `waiting` is a plain HTTP
request at the server, which nothing answers and which its `stop()` waits for.

**`Interactions`** is `endpoint.read`, `write` and `invoke` from the message on
the socket to the device and back, concurrently, with attribute reports and
64-bit values, which JSON cannot carry. An element (attribute or command) is
known by where it is known: addressable in Matter, in the SDK's cluster model,
served by the device. The SDK and the device answer what the gateway's code
handles, a reply without any status included, which is taken for success.

**`Sockets`** is the upgrade, the heartbeat, the subscriber set and the stop of
the server, over pings and pongs in flight, clients that go mute, and plain
HTTP requests that are never answered.

**`Ledger`** is the abstract specification of what the database promises to
whoever writes: a write is applied and acknowledged in one step or leaves
nothing, none is lost or applied twice, and the migrations come first, in order.

**`Transactions`** is the SQLite connection: migrations, transactions, single
statements, failures of each and of COMMIT, crashes. `LedgerSpec` says that it
implements Ledger: `L` reads what was applied off the committed rows.

**`MatterIds`** is the conversion of a uint64 id to the signed column and the
lookups that rest on it.

**`Provider`** extends MatterIds with the Matter provider: the boot that
correlates rows and peers, the identity map with its endpoints, and the two
watchers. Where Fabric only keeps which nodes are watched, an observer is here
a record of who attached it, for which node, on which peer, on what, since a
`ClientNode` outlives its removal and an observer left on it would go on
telling. Removals overlap, also of one node, whose entry in `#decommissioning`
(`leaving`) they share: the first to end takes it down for the others, which
`overtaken` remembers. Commissionings come one at a time (their overlaps are
Fabric's subject); an attach may throw part way through, in the boot or in a
commissioning, and a bridge may change its endpoints while the hub is down.

**`Bus`** is the event bus with handlers that subscribe, unsubscribe, emit and
throw: a stack of dispatches, each with the copy of the handlers it walks.

Modules starting with `MC` give the constants small values. `BusProofs`,
`ClientsProofs` (with Fabric and its refinement of Roster), `HomeProofs`,
`HubProofs`, `InteractionsProofs`, `ProviderProofs` (with MatterIds),
`SocketsProofs` and `TransactionsProofs` hold the proofs.
Definitions commented `Mutant:` are wrong on purpose: each stands for a
plausible bug, and the property named beside it in `PROJECT.json` fails when
the mapped definition is replaced by it. No specification uses them.

## Runs

| Run | Instance | What it shows |
|---|---|---|
| `fabric` | 2 requests, devices, node ids, matter ids; every fault | types, `Controllable`, `OneNodePerPeer`, `FlagHasOwner`, `AnswersHold`; new fabric orphans and stranded devices only where the code accepts them; Fabric implements Roster |
| `fabric_answers` | 2 requests, 1 device | every request is answered, unless the process it was made to ends, under fairness |
| `clients` | Fabric with 1 device, 1 client, a wire of 2 frames | the copy holds the roster but for nodes whose `node:added` was lost, never shows a reachable node offline, shows an unreachable one online only after a drop that a removal of it filtered; the event precedes the response to a commissioning |
| `home` | 1 node with 2 endpoints, a room, 2 names, 3 values (one that JSON cannot carry) | references, one event per change, the client's copy |
| `hub` | 2 signals, a plain HTTP request, failing paths, starts and stops; 6 tokens, 21 files | what is stated is heeded and what is not is at its default; order, completeness and termination of boot and shutdown |
| `interactions` | 2 calls, 4 kinds of element, 3 values (one that only one element takes, one of 64 bits) | answers tell the truth; what is refused was not sent; a subscriber is behind only on values that JSON cannot carry |
| `sockets` | 2 sockets, 1 plain HTTP request, at most 3 unanswered pings | who is reaped and when; subscribers are connections; stop resolves, unless a plain request's client never gives up |
| `transactions` | 2 migrations and 3 transactions of 3 statements, 2 edits | atomicity, versions, no transaction left open; the connection implements Ledger |
| `provider` | 2 nodes, 2 endpoint numbers, 2 matter ids of 4 bits (one on each side of the sign bit), 2 removals at once; failing attaches and transactions, crashes | ids read back; stored nodes mapped and observed, nothing else observed; only real drops reported |
| `bus` | 2 events, 2 functions, 4 subscriptions, 3 nested emissions | who hears what, during and between dispatches |
| `clients_delete`, `interactions_wide` | the smallest that show it | violations, each of one statement of the documentation: see Findings |

Bounds. Two requests are the smallest number that overlap, and every conflict
in Fabric is over one node or one peer, of which there are two, so that a wrong
one can be picked. Two ids are minted per instance, so that a node can be
removed and its device joined again. A wire of two frames holds any two of a
baseline, an event and a response, in any order, while more keep coming as the
client reads; the proofs have wires of any length. Two removals share one flag.
One wide value beside two others is enough for each to follow each. `MaxPending` lets two changes of the same
attribute wait behind each other. Three statements have a first, a middle and a
last one to fail at. Three nested emissions (`MaxDepth`) let a handler of an
event be told of it again inside itself, and four subscriptions have the same
function twice on one event beside another one. The files of `MCHub` state one
field each, on either side of its rule, or misspell a key at either level. Four
bits have every case of the sign bit, and the proofs have any width. Symmetry is used in runs of safety properties only, over sets whose
members no definition tells apart.

`Hub` alone is checked without deadlock detection: the process ends.

### Fairness

* `Fabric.FairSpec`: a request that awaits the SDK moves on (every SDK call has
  a timeout of its own, and everything after it is a microtask), and a process
  that stopped is started again (by its service manager). Devices, drops,
  resets and crashes are not fair. No client is assumed to do anything. A
  process that ends takes its requests with it, and `EveryRequestAnswered` says
  so: that is no answer.
* `Hub.FairSpec`: each `start()` settles, and each `stop()` but the server's: a
  listener or a file that does not open rejects, and the WebSocket library ends
  a closing handshake by a timeout. The server's `stop()` waits besides for
  every plain HTTP request, and no timeout applies to one that has been received
  and is not answered. That its client gives up is not assumed: `StopEnds`
  speaks of the runs in which it does, again and again. Nor is it assumed that
  a `stop()` throws.
* `Sockets.FairSpec`: a socket that was told to close or was terminated emits
  its close event, the library's timeout again, and the callbacks of
  `wss.close` and `server.close` run once what they wait for is over.
  `StopResolves` has the same condition as `StopEnds`.

## Proofs

TLAPS proves the following for any sets of devices, ids, requests, names,
values and faults, from the assumptions declared beside the constants: mainly
that `None` is no member of any of them; in `Hub`, that tokens and faults are
of the kinds the rules tell apart (`TokenAssumption`, `FaultsAssumption`) and
that a file which is missing has no body (`FileAssumption`). Every safety
property of every passing run is a theorem, and so is every refinement.

* **`ClientsProofs`, Fabric by itself**. The safety invariants are not inductive: that a removal
  which succeeded left no row depends on what the request carries while it
  waits. `IInv` adds, for every phase a request may be suspended at, what the
  stores hold for it: a commissioning that joined has a peer no one else
  accounts for; one that registered has a fresh node id, mapped to that peer
  and not in the table; a removal keeps the id, and the matter id it found at
  its start, whatever other requests did since; ids are used once. One lemma
  per action shows that it keeps `IInv` (`RegisterKeeps`, `SettleKeeps`, ...),
  `NextKeepsIInv` combines them, and the theorems `TypeCorrect`,
  `AlwaysControllable`, `AlwaysOneNodePerPeer`, `FlagNeverLeaks` and
  `AnswersAlwaysHold` follow. The two action properties need more: that a
  removal which waits still has its row, or its peer is gone; that what a device
  holds was assigned to it alone; that an undo is never forced. `Accounted` is
  these three, inductive beside `IInv`, and gives `OrphansOnlyByFailure` and
  `StrandsOnlyByForce`.
* **`ClientsProofs`, Roster**: `FabricImplementsRoster`, initial states and
  steps. A silent step is a stutter of Roster; the others name the event they
  emit.
* **`ClientsProofs`, the clients**: `AlwaysHoldsRoster`,
  `AlwaysNeverFalselyOffline`, `AlwaysStaleOnlyIfHushed` and
  `EventAlwaysBeforeResponse`. `Settled(c)` folds a wire of any length, so the
  proof is by what one more frame does to it: a frame that is sent is folded
  last (`FoldAppend`), one that is received moves from the front of the wire to
  the copy and changes nothing (`FoldReceived`). `CIInv` keeps of each live
  client that its settled copy is the baseline of the present moment, up to
  `hushed` and without `missed`; each step of Fabric is then looked at by the
  one event it emits. `EventAlwaysBeforeResponse` is about commissionings, the
  only requests whose response names what an event brings.
  `ClientsImplementFabric` carries Fabric's theorems over.
* **`HomeProofs`**: `TypeCorrect`, `AlwaysReferences`, `EventsTellAll`,
  `AlwaysHoldsHome` and `HomeImplementsRoster`. `EventsTellAll` is an action
  property, proved event by event: a lemma (`RenameTold`, `RemoveRoomTold`, ...)
  says that what a client makes of the event is, row by row, what the tables
  became.
  `AlwaysHoldsHome` is about events that queue in two places: the changes the
  SDK has still to announce (`pending`) and each client's wire. `HomeInv` adds
  to the type and the references that a copy with its wire folded in lacks
  nothing of the house but the nodes in `missed`, with their endpoints, values
  that are wide, and values with a change still pending (`CopiesHold`), and that
  the last change pending of an endpoint brings what the cache holds
  (`LastIsCached`): whatever the house says meanwhile, and however long the
  queues, the values catch up, also once a wide one has passed unannounced. `HomeImplementsRoster` is the refinement of the
  same abstract specification as Fabric's, so that the two models of a node's
  life, one by its requests and one by its endpoints, promise the same; no run
  checks this one.
* **`HubProofs`**: `HubTypeCorrect`, `AlwaysSettingsHeeded`,
  `AlwaysDependenciesUp`, `NothingEverLeftBehind` and
  `AlwaysOrphanedOnlyIfStopThrew`. `HInv` says that a process is in one of five
  phases: it has not built anything (`NotYet`), it starts its components in
  order (`Climbing`), it is up (`Up`), one walk takes them down (`Descending`),
  or it has ended (`Ended`). In each phase what is up is a prefix of the launch
  order (`Below`), and so is what is open, but for what a stop that threw or a
  start that failed has kept; a start lengthens it by one and a walk shortens it
  by one. What keeps the phases apart, so that no component is ever stopped
  twice, is that a signal during the boot or its unwinding kills the process,
  and that a second one after it is ignored.
* **`InteractionsProofs`**: `TypeCorrect`, `AlwaysTruthful`,
  `AlwaysRefusedUnsent` and `AlwaysBehindOnlyIfWide`. An answer says nothing of
  the device by itself, so `CallInv` adds what each waiting call keeps: a reply
  of the device agrees with what the device did (`mute`: one without a status says
  nothing of it), no reply means that it was not reached, and what is to be written is a value. `Unlisted` (nobody's copy
  holds an endpoint that is not mapped) makes a join put the SDK's values, and
  nothing older, in each copy. `SettleKeeps` and `DownKeeps` are the two ends of
  a call, shared by the actions that answer.
* **`SocketsProofs`**: `AlwaysGoneInTwo`, `AlwaysSubscribersConnected` and
  `OnlyOwingReaped`. That a mute client is gone by the second pulse is about two
  pulses, so `IInv` keeps what the first one leaves: no mark, no pong on its way
  and nobody to send one (`MissedUnmarked`). That a pulse reaps exactly the clients
  whose last ping has no answer that arrived rests on the ping which went out in
  the turn that took the mark (`UnmarkedOwe`), and on a mark meaning that none
  is out.
* **`TransactionsProofs`**: `AlwaysAllOrNothing`, `AlwaysFreeBetween` and
  `TransactionsImplementLedger`. A job's rows are all or none only because of
  what the connection holds meanwhile: `IInv` adds that a job under way and an
  open transaction come together, in the phase and at the version the job
  belongs to (`InStep`), that the transaction holds the committed rows and what
  the job has executed so far (`UnderWay`), and that success was answered
  exactly when the writes are committed (`Acknowledged`). COMMIT
  is the step that maps to Ledger's.
* **`ProviderProofs`, MatterIds**: for any width, the round trip is exact, the
  stored form is injective, so lookups and the unique index are right.
* **`ProviderProofs`**: `ProviderImplementsMatterIds` (each step is one of
  MatterIds or leaves the rows alone) carries the theorems on ids over the
  provider's life, `ProviderReadBack` the first. `AlwaysStoredObserved`,
  `AlwaysNoGhosts` and `DropsAreReal` come from `PInv`. A stored node is fully
  observed because it was so before its row existed (`JoiningKept`) or because
  the boot walked it, and only the removal of its own peer takes that away
  (`RemovalKept`: a removal asks the SDK for the peer of the row, and no other
  device is ever given the matter id); who listens in each phase (`Listening`)
  and that an observer belongs to a listening watcher (`Owned`) do the rest.
  `DropsAreReal` needs that a removal under way has its flag up or was overtaken
  by another of the same node (`FlagKept`). `MappedKeeps` is shared by the two
  ways a node enters the map, `RemovalMoves` by the steps that only move a
  removal on, `FlagsStay` and `FlagsFall` by those that leave the flags alone
  and those that end a removal.

* **`BusProofs`**: `AlwaysHeardIffSubscribed` and `AlwaysEachToldOnce`, for any
  depth of emissions. `BInv` says of every frame of the stack that those it has
  called followed by those it has still to call are, each once, those it owes:
  a call moves one across and changes neither (`MovingOn`), and what handlers
  do to the Set meanwhile does not reach the copy. A Set holds a function once,
  which is why taking one out takes it out for good (`RemovedFacts`), and why
  another subscription of the same function falls silent.

The definitions that fold a sequence (`Settled`) use the folds of the community
modules. What they compute is proved for sequences of any length from
well-founded induction on the natural numbers, stated for a set of numbers
(`Induction`) since the library's induction theorems take an operator.

### Only model-checked

Liveness (`EveryRequestAnswered`, `BootEnds`, `StopEnds`, `StopResolves`) is out
of the prover's reach. So is that the violations of `clients_delete` and
`interactions_wide` happen.

## Findings

Each of these is a run whose property quotes the documentation and fails; the
details are in `PROJECT.json`.

* `interactions_wide` (code): 64-bit attribute values are promised to be
  encoded as strings; nothing does, so a change of one reaches no subscriber.
  For the same reason a read of one is never answered, the exception being
  thrown in an async handler nobody awaits (`server.ts:247`).
* `clients_delete`: after a removal whose database delete fails, the node is
  documented to show offline; a subscriber goes on showing it reachable.

Smaller divergences met while modelling, which the models follow the code in:

* `contract/src/common/lifecycle.ts:19-21` says that a `start()` that throws
  releases what it had acquired. The controller stays open when
  `controller.start()`, the hydration or an observer throws (`matter.ts:161`),
  and so does the connection when a pragma or a prepared statement fails
  (`database.ts:102-117`); `MayLeak` in `Hub` is these two, and the process
  exits.
* `registry/src/bus.ts:50-52` says that an unsubscribe belongs to its
  subscription. A function subscribed twice is one entry of the Set, so the
  first of the two to be ended silences the other (`deaf` in `Bus`); the
  hub passes a new closure each time.
* An array in the place of a section of the configuration file is taken for an
  object without keys; only the root is guarded (`config/schemas.ts:126-133`).
* `identity.ts:41-42` says the map cannot drift from the database; a
  commissioning whose transaction and undo both fail leaves a node in it.
* `gateways/node.ts:294`: the filter on going offline is a set, so of two
  overlapping removals of a node the first to fail clears it under the second,
  and the end of the session that the second brings about is reported as a drop
  (`OnlyRealDrops` says that it is the only case).
* `server.ts:117`: the HTTP server has no request listener, so that a plain
  request is never answered, and `server.close` (`server.ts:178-180`) waits for
  it: a client that does not give up keeps `stop()`, and with it the process,
  from ending. A second signal is ignored (`main.ts:17`).
* `channel.ts:51` and `:56`: a `node:added` with a 64-bit value in it reaches no
  subscriber, which lacks the node until it subscribes again, and a baseline
  with one rejects in a handler nobody awaits, which ends the process.
* `gateways/endpoint.ts:196-202` and `:249-253`: a write or a command whose reply
  has no status is answered as done.
* `contract/src/node/types.ts:14`: `reachable` is not kept current when a real
  drop is filtered and the removal then fails (`StaleOnlyIfHushed` says it is
  the only case).
* `contract/src/endpoint/errors.ts:135`: a response lost on its way is reported
  as a request that never arrived.
* `contract/src/endpoint/ports.ts:101` and `:113`: a command or an attribute
  that the device does not serve is sent to it, the lookup being in the SDK's
  static model, and such a write is answered as rejected.

## Not modelled

The Matter SDK, SQLite, the WebSocket library and Node.js are external: only
what the code relies on of them is in the models. Pairing codes, fabric labels,
logging, message formats and the text of the schema are left out: they are data
or output, and no property here tells their values apart. Authentication of the
upgrade is a choice of the environment in `Sockets` (a refused upgrade leaves no
state). In `Provider` a bridge does not change its endpoints while the hub runs,
the gateways reading them only when they attach, and a provider is started
once in a process, as the hub does.

One hazard has no property: a response lost on its way back is reported as the
device being unreachable, so that a client which retries may have a command
carried out twice. `Interactions` lets it happen; the code cannot tell the two
apart, and there is nothing it could promise.

## Plan

In this order, the first ones done: Roster and Fabric with their proofs and
refinement; Clients; Home with its proofs; Hub with Settings; Interactions with
its proofs; Sockets; Ledger and Transactions; MatterIds with its proofs;
Provider with its proofs; Bus; the proofs of Sockets, Transactions, Clients,
Hub and Bus, and of the copy a client holds in Home. To come:

1. commissionings of `Provider` overlapping as they do in `Fabric`;
2. what a client holds in `Clients` related to what it holds of the nodes in
   `Home`, which are two models of one channel and share only Roster.
