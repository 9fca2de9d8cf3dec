-------------------------------- MODULE Hub ---------------------------------
(***************************************************************************)
(* The life of the process: the boot that launches the components one      *)
(* after the other, the unwinding of a boot that fails, the shutdown a     *)
(* signal asks for, and a commissioning that is in flight meanwhile.       *)
(*                                                                         *)
(* Each start() and stop() is an await, so a signal, another signal or an  *)
(* answer of the SDK may come in between.                                  *)
(***************************************************************************)
EXTENDS Settings, Sequences, SequencesExt

CONSTANTS
    Signal,   \* the stop signals the process receives, each once
    Token,    \* the states HOMECHIP_AUTH_TOKEN may be in
    File,     \* the configuration files the process may meet: [kind, body]
    Faults    \* the kinds of failure this instance admits

FaultKinds == {"paths",   \* a directory cannot be created
               "start",   \* a start() rejects
               "stop"}    \* a stop() rejects

TokenKinds == {"unset", "blank", "short", "spaced", "padded", "good"}

ASSUME FaultsAssumption == Faults \subseteq FaultKinds
ASSUME TokenAssumption == Token \subseteq TokenKinds
ASSUME FileAssumption == \A f \in File : f.kind = "missing" => f.body = NoBody

\* In the order they are launched: each is built from the ones before it.
Order == <<"hub.log", "matter.log", "database", "matter", "server">>
Component == ToSet(Order)

Boot == "boot"
Walker == Signal \cup {Boot}

VARIABLES
    token,    \* HOMECHIP_AUTH_TOKEN
    file,     \* what is at configPath/hub.json
    config,   \* what loadConfig returned
    boot,     \* where the entry point or HomeChipHub.start is
    started,  \* HomeChipHub.#started
    field,    \* the components whose fields are set: the start()/stop() window
    open,     \* the components that hold their resource open
    stopping, \* the flag of main.ts
    walk,     \* the #shutdown() each walker is in: what it has left to stop
    exit,     \* how the process ended
    request,  \* a commissioning and its outcome
    waiting,  \* whether a client waits for the answer to a plain HTTP request
    threw     \* history: components whose stop() rejected

settings == <<token, file, config>>
hub == <<boot, started, field, open, stopping, walk, exit, request, waiting, threw>>
vars == <<settings, hub>>

-----------------------------------------------------------------------------
Running == exit = "none"

\* The walker is not in #shutdown(); it is about to take the next component;
\* it awaits the stop() of the first of `left'.
Absent == [at |-> "absent", left |-> <<>>]
Walks == [at : {"absent", "next", "awaiting"}, left : Seq(Component)]

\* Mutant: #started is walked as it is.
ToStopForward == started

\* this.#started.toReversed()
ToStop == Reverse(started)

Shutdown(w) == walk' = [walk EXCEPT ![w] = [at |-> "next", left |-> ToStop]]

-----------------------------------------------------------------------------
(* main.ts, before the hub *)

\* Nothing was started, so that there is nothing to unwind.
Refuse == boot' = "failed" /\ exit' = "failure"

ResolveEnvironment ==
    /\ Running /\ boot = "environment"
    /\ IF TokenAccepted(token) THEN boot' = "config" /\ UNCHANGED exit ELSE Refuse
    /\ UNCHANGED <<settings, started, field, open, stopping, walk, request, waiting, threw>>

LoadConfig ==
    /\ Running /\ boot = "config"
    /\ IF Loadable(file)
       THEN boot' = "paths" /\ config' = Loaded(file) /\ UNCHANGED exit
       ELSE Refuse /\ UNCHANGED config
    /\ UNCHANGED <<token, file, started, field, open, stopping, walk, request, waiting, threw>>

-----------------------------------------------------------------------------
(* HomeChipHub.start *)

MakePaths ==
    /\ Running /\ boot = "paths"
    /\ \/ boot' = "next" /\ UNCHANGED walk
       \/ "paths" \in Faults /\ boot' = "failed" /\ Shutdown(Boot)
    /\ UNCHANGED <<settings, started, field, open, stopping, exit, request, waiting, threw>>

Upcoming == Order[Len(started) + 1]

Recorded == Append(started, Upcoming)

\* #launch, up to the await of component.start(), which acquires its resource.
Launch ==
    /\ Running /\ boot = "next" /\ Len(started) < Len(Order)
    /\ boot' = "launching"
    /\ open' = open \cup {Upcoming}
    /\ UNCHANGED <<settings, started, field, stopping, walk, exit, request, waiting, threw>>

Launched ==
    /\ Running /\ boot = "launching"
    /\ field' = field \cup {Upcoming}
    /\ started' = Recorded
    /\ boot' = IF Len(started) + 1 = Len(Order) THEN "ready" ELSE "next"
    /\ UNCHANGED <<settings, open, stopping, walk, exit, request, waiting, threw>>

\* What a start() that rejects may leave open: the database when a pragma or a
\* statement fails, but not a migration; the controller once it is created.
\* The streams and the server acquire nothing they could not open.
MayLeak == {"database", "matter"}

LaunchFails ==
    /\ Running /\ boot = "launching"
    /\ "start" \in Faults
    /\ boot' = "failed"
    /\ \/ open' = open \ {Upcoming}
       \/ Upcoming \in MayLeak /\ UNCHANGED open
    /\ Shutdown(Boot)
    /\ UNCHANGED <<settings, started, field, stopping, exit, request, waiting, threw>>

-----------------------------------------------------------------------------
(* HomeChipHub.#shutdown *)

\* The next component is asked to stop.  One outside its window returns at
\* once; the others leave the window before they release anything.
AskToStop(w) ==
    /\ Running /\ walk[w].at = "next" /\ walk[w].left # <<>>
    /\ LET c == Head(walk[w].left) IN
           IF c \in field
           THEN /\ field' = field \ {c}
                /\ walk' = [walk EXCEPT ![w].at = "awaiting"]
           ELSE /\ walk' = [walk EXCEPT ![w].left = Tail(@)]
                /\ UNCHANGED field
    /\ UNCHANGED <<settings, boot, started, open, stopping, exit, request, waiting, threw>>

\* The server's awaits every connection that has a request under way.
Stopped(w) ==
    /\ Running /\ walk[w].at = "awaiting"
    /\ Head(walk[w].left) = "server" => ~waiting
    /\ open' = open \ {Head(walk[w].left)}
    /\ walk' = [walk EXCEPT ![w] = [at |-> "next", left |-> Tail(@.left)]]
    /\ UNCHANGED <<settings, boot, started, field, stopping, exit, request, waiting, threw>>

\* Mutant: the error ends the loop.
AbandonedAfter(rest) == <<>>

\* The error is logged and the loop goes on.
LeftAfter(rest) == rest

\* A stream's stop() resolves whatever happens; the others may reject with
\* their resource still open.
StopThrows(w) ==
    /\ Running /\ walk[w].at = "awaiting"
    /\ "stop" \in Faults
    /\ LET c == Head(walk[w].left) IN
           /\ c \notin {"hub.log", "matter.log"}
           /\ threw' = threw \cup {c}
    /\ walk' = [walk EXCEPT
                  ![w] = [at |-> "next", left |-> LeftAfter(Tail(@.left))]]
    /\ UNCHANGED <<settings, boot, started, field, open, stopping, exit, request, waiting>>

\* Mutant: the event loop is left to drain, and a handle holds it open.
NoCode(w) == "none"

\* process.exit: 1 for a boot that failed, 0 for a shutdown, clean or not.
Code(w) == IF w = Boot THEN "failure" ELSE "success"

\* #started is emptied, and main.ts ends the process.
Exit(w) ==
    /\ Running /\ walk[w].at = "next" /\ walk[w].left = <<>>
    /\ started' = <<>>
    /\ walk' = [walk EXCEPT ![w] = Absent]
    /\ exit' = Code(w)
    /\ UNCHANGED <<settings, boot, field, open, stopping, request, waiting, threw>>

-----------------------------------------------------------------------------
(* main.ts *)

\* Mutant: a second signal is not ignored.
AlwaysHeeds == TRUE

\* Whether a signal starts a shutdown of its own.
Heeds == ~stopping

\* Before the handlers are registered a signal has its default effect.
Receive(s) ==
    /\ Running /\ walk[s].at = "absent"
    /\ IF boot # "ready"
       THEN exit' = "killed" /\ UNCHANGED <<stopping, walk>>
       ELSE /\ Heeds
            /\ stopping' = TRUE
            /\ Shutdown(s)
            /\ UNCHANGED exit
    /\ UNCHANGED <<settings, boot, started, field, open, request, waiting, threw>>

-----------------------------------------------------------------------------
(* A commissioning in flight *)

\* A socket that is being closed still delivers what its client sent.
Commission ==
    /\ Running /\ request = "none" /\ boot = "ready" /\ "server" \in open
    /\ request' = "joining"
    /\ UNCHANGED <<settings, boot, started, field, open, stopping, walk, exit, waiting, threw>>

\* The controller answers that the device joined.  What follows runs before
\* any other I/O is looked at: with the database open the node is saved; with
\* it closed the transaction fails and so does the undo, the device staying.
Joined ==
    /\ Running /\ request = "joining" /\ "matter" \in open
    /\ request' = IF "database" \in open THEN "saved" ELSE "orphaned"
    /\ UNCHANGED <<settings, boot, started, field, open, stopping, walk, exit, waiting, threw>>

\* It answers with an error, as it does for what is pending when it closes.
Refused ==
    /\ Running /\ request = "joining"
    /\ request' = "failed"
    /\ UNCHANGED <<settings, boot, started, field, open, stopping, walk, exit, waiting, threw>>

-----------------------------------------------------------------------------
(* A plain HTTP request, which nothing in the server listens to *)

Ask ==
    /\ Running /\ "server" \in field /\ ~waiting
    /\ waiting' = TRUE
    /\ UNCHANGED <<settings, boot, started, field, open, stopping, walk, exit, request, threw>>

\* External: its client gives up.
GiveUp ==
    /\ Running /\ waiting
    /\ waiting' = FALSE
    /\ UNCHANGED <<settings, boot, started, field, open, stopping, walk, exit, request, threw>>

-----------------------------------------------------------------------------
Init ==
    /\ token \in Token /\ file \in File
    /\ config = Loaded([kind |-> "missing", body |-> NoBody])
    /\ boot = "environment"
    /\ started = <<>>
    /\ field = {} /\ open = {}
    /\ stopping = FALSE
    /\ walk = [w \in Walker |-> Absent]
    /\ exit = "none"
    /\ request = "none" /\ waiting = FALSE
    /\ threw = {}

Booting == ResolveEnvironment \/ LoadConfig \/ MakePaths \/ Launch \/ Launched \/ LaunchFails

ShuttingDown(w) == AskToStop(w) \/ Stopped(w) \/ StopThrows(w) \/ Exit(w)

Next ==
    \/ Booting
    \/ \E w \in Walker : ShuttingDown(w)
    \/ \E s \in Signal : Receive(s)
    \/ Commission \/ Joined \/ Refused
    \/ Ask \/ GiveUp

Spec == Init /\ [][Next]_vars

\* Every start() settles, and every stop() but one: a listener and a file that
\* do not open reject, and the sockets' closing handshake has a timeout of its
\* own.  What the server's stop() awaits besides is up to the client: GiveUp
\* has no fairness, and neither has an error that would cut the wait short.
FairSpec ==
    /\ Spec
    /\ WF_vars(Booting)
    /\ \A w \in Walker : WF_vars(AskToStop(w) \/ Stopped(w) \/ Exit(w))

-----------------------------------------------------------------------------
(* Properties *)

\* Every variable has its type, #started being a prefix of the launch order.
TypeOK ==
    /\ boot \in {"environment", "config", "paths", "next", "launching", "ready", "failed"}
    /\ started = SubSeq(Order, 1, Len(started))
    /\ field \subseteq Component /\ open \subseteq Component
    /\ stopping \in BOOLEAN
    /\ walk \in [Walker -> Walks]
    /\ exit \in {"none", "success", "failure", "killed"}
    /\ request \in {"none", "joining", "saved", "orphaned", "failed"}
    /\ waiting \in BOOLEAN
    /\ threw \subseteq Component

\* A hub that got as far as its directories has a secret that a client can
\* present, runs every setting its file states as it states it, and has every
\* other one at the default: nothing that is misspelt or out of range is passed
\* over in silence (config/schemas.ts:13-22).
SettingsHeeded ==
    boot \notin {"environment", "config", "failed"} =>
        /\ Read(token) = "good"
        /\ file.kind \in {"missing", "object"}
        /\ \A s \in DOMAIN file.body : \A f \in DOMAIN file.body[s] :
              /\ s \in DOMAIN config /\ f \in DOMAIN config[s]
              /\ config[s][f] = file.body[s][f]
        /\ \A s \in DOMAIN config : \A f \in DOMAIN config[s] :
              States(file.body, s, f) \/ config[s][f] = Default[f]

\* Whatever a component was built from is usable for as long as it is: the
\* boot goes up the order and every shutdown comes down it.
DependenciesUp ==
    \A i, j \in 1 .. Len(Order) :
        i < j /\ Order[j] \in field => Order[i] \in field

\* A process that ends by itself has first asked every component it started to
\* stop, past any that threw, and what it still holds open is what a stop()
\* or a start() that rejected kept: the logs, above all, are on disk.
NothingLeftBehind ==
    exit \in {"success", "failure"} =>
        /\ field = {}
        /\ open \subseteq threw \cup (IF boot = "failed" THEN MayLeak ELSE {})

\* A device that joins while the hub shuts down is still saved, the database
\* outlasting the controller, unless the controller would not close.
OrphanedOnlyIfStopThrew == request = "orphaned" => "matter" \in threw

\* A boot ends, one way or the other, and so does a hub that was told to stop,
\* unless a client waits for ever for an answer that nobody will give.
BootEnds == <>(boot = "ready" \/ exit # "none")
StopEnds == []<>(~waiting \/ exit # "none") => (stopping ~> exit # "none")
=============================================================================
