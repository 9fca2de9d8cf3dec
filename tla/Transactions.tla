---------------------------- MODULE Transactions ----------------------------
(***************************************************************************)
(* The one SQLite connection of SqliteDatabaseProvider: the migrations of  *)
(* start(), the transactions that SqliteTransactor brackets and the single *)
(* statements the repositories run outside of any, over failures of        *)
(* statements, of COMMIT and of the process.                               *)
(*                                                                         *)
(* SQLite is external.  A statement that fails leaves its transaction open *)
(* (a constraint) or takes it down (no space left), and so does COMMIT     *)
(* take it down; what was committed survives a power cut (FULL).           *)
(***************************************************************************)
EXTENDS Naturals, FiniteSets

CONSTANTS
    Last,       \* the number of migrations
    Statements, \* the statements of a migration or of a transaction
    Save,       \* transactions over several statements, as commissioning runs
    Edit,       \* writes of one statement, outside any transaction
    None

ASSUME CountAssumption == Last \in Nat /\ Statements \in Nat \ {0}
ASSUME JobAssumption == Save \cap Edit = {} /\ (Save \cup Edit) \cap Nat = {}
ASSUME NoneAssumption == None \notin Nat \cup Save \cup Edit

VARIABLES
    phase,      \* of the provider: "down", "starting" or "ready"
    disk,       \* what is committed
    open,       \* whether the connection is in a transaction
    scratch,    \* what the open transaction would commit
    current,    \* user_version, as start() read it
    job,        \* the transaction being run, or None
    done,       \* its statements executed so far
    outcome     \* job -> "none", or what its caller was last told

vars == <<phase, disk, open, scratch, current, job, done, outcome>>

Migration == 1..Last
Job == Migration \cup Save \cup Edit

\* The writes of a job: each statement's, and of an edit its only one.
Writes(j) == {j} \X (IF j \in Edit THEN {1} ELSE 1..Statements)

Store == [version : 0..Last, rows : SUBSET UNION {Writes(j) : j \in Job}]

-----------------------------------------------------------------------------
(* The transactor *)

\* A write goes to the open transaction, or else is committed by itself.
Apply(store) ==
    IF open THEN scratch' = store /\ UNCHANGED disk
    ELSE disk' = store /\ UNCHANGED scratch

Visible == IF open THEN scratch ELSE disk

\* BEGIN.  A transaction still open makes it fail.
Begin(j) ==
    /\ job = None /\ outcome[j] # "ok"
    /\ IF open
       THEN outcome' = [outcome EXCEPT ![j] = "error"] /\ UNCHANGED <<job, open, scratch>>
       ELSE /\ job' = j
            /\ open' = TRUE /\ scratch' = disk
            /\ outcome' = [outcome EXCEPT ![j] = "none"]
    /\ done' = 0
    /\ UNCHANGED <<phase, disk, current>>

\* Mutant: the version is left to the statements after the transaction.
Bumped(store, j) == store

\* What the last statement of a migration adds: the bump of user_version.
Completed(store, j) ==
    IF j \in Migration THEN [store EXCEPT !.version = j] ELSE store

Execute ==
    /\ job # None /\ done < Statements
    /\ LET store == [Visible EXCEPT !.rows = @ \cup {<<job, done + 1>>}]
       IN Apply(IF done + 1 = Statements THEN Completed(store, job) ELSE store)
    /\ done' = done + 1
    /\ UNCHANGED <<phase, open, current, job, outcome>>

\* Mutant: the transaction is left as the failure left it.
OpenStill(held) == held

\* Whether the connection is in a transaction once ROLLBACK was run: one that
\* fails, the transaction being gone already, is passed over.
OpenAfter(held) == FALSE

\* A migration that fails closes the connection and fails the start.
PhaseAfterFailure == IF job \in Migration THEN "down" ELSE phase

\* A statement fails, or what the callback runs between statements; run()
\* rolls back and rethrows.
ExecuteFails ==
    /\ job # None
    /\ \E held \in BOOLEAN : open' = OpenAfter(held)
    /\ outcome' = [outcome EXCEPT ![job] = "error"]
    /\ phase' = PhaseAfterFailure
    /\ job' = None
    /\ UNCHANGED <<disk, scratch, current, done>>

\* Mutant: the caller has its result whatever COMMIT says.
ToldAnyway(committed) == "ok"

Told(committed) == IF committed THEN "ok" ELSE "error"

\* COMMIT, which SQLite may refuse, taking the transaction down.
Commit ==
    /\ job # None /\ done = Statements
    /\ \E committed \in BOOLEAN :
          /\ disk' = IF committed THEN scratch ELSE disk
          /\ outcome' = [outcome EXCEPT ![job] = Told(committed)]
          /\ phase' = IF committed THEN phase ELSE PhaseAfterFailure
    /\ open' = FALSE
    /\ job' = None
    /\ UNCHANGED <<scratch, current, done>>

-----------------------------------------------------------------------------
(* The provider *)

\* PRAGMA user_version.
VersionRead == disk.version

\* start() opens the file and reads the version once.
Start ==
    /\ phase = "down"
    /\ phase' = "starting"
    /\ open' = FALSE /\ job' = None /\ done' = 0
    /\ current' = VersionRead
    /\ UNCHANGED <<disk, scratch, outcome>>

\* The migrations the loop has still to run.
Pending == {m \in Migration : m > current /\ disk.version < m}

Migrate(m) ==
    /\ phase = "starting"
    /\ m \in Pending /\ \A n \in Pending : m <= n
    /\ Begin(m)

Ready ==
    /\ phase = "starting" /\ job = None /\ Pending = {}
    /\ phase' = "ready"
    /\ UNCHANGED <<disk, open, scratch, current, job, done, outcome>>

Run(s) == phase = "ready" /\ Begin(s)

\* A repository's single statement.
Update(e) ==
    /\ phase = "ready" /\ job = None /\ outcome[e] # "ok"
    /\ \/ Apply([Visible EXCEPT !.rows = @ \cup Writes(e)])
          /\ outcome' = [outcome EXCEPT ![e] = "ok"]
       \/ UNCHANGED <<disk, scratch>>
          /\ outcome' = [outcome EXCEPT ![e] = "error"]
    /\ UNCHANGED <<phase, open, current, job, done>>

\* stop(), a crash or a power cut: what was not committed is gone, and a
\* caller that was waiting is told nothing.
Close ==
    /\ phase # "down"
    /\ phase' = "down"
    /\ open' = FALSE /\ job' = None /\ done' = 0
    /\ UNCHANGED <<disk, scratch, current, outcome>>

-----------------------------------------------------------------------------

Init ==
    /\ phase = "down"
    /\ disk = [version |-> 0, rows |-> {}] /\ scratch = disk
    /\ open = FALSE /\ job = None /\ done = 0 /\ current = 0
    /\ outcome = [j \in Job |-> "none"]

Next ==
    \/ Start \/ Ready \/ Close
    \/ \E m \in Migration : Migrate(m)
    \/ \E s \in Save : Run(s)
    \/ \E e \in Edit : Update(e)
    \/ Execute \/ ExecuteFails \/ Commit

Spec == Init /\ [][Next]_vars

-----------------------------------------------------------------------------
(* Properties *)

\* The type of the connection's state, and of what start() read of it
\* (database.ts:81-120, transactor.ts:27-38).
TypeOK ==
    /\ phase \in {"down", "starting", "ready"}
    /\ disk \in Store /\ scratch \in Store
    /\ open \in BOOLEAN
    /\ current \in 0..Last /\ current <= disk.version
    /\ job \in {None} \cup Migration \cup Save
    /\ done \in 0..Statements
    /\ outcome \in [Job -> {"none", "ok", "error"}]

\* The file holds all of a transaction or none of it, at any moment a crash
\* may come, and its version says which migrations it holds: one interrupted
\* is run again from the start, one applied never again (database.ts:151-157).
AllOrNothing ==
    /\ \A j \in Job : Writes(j) \subseteq disk.rows \/ Writes(j) \cap disk.rows = {}
    /\ \A m \in Migration : m <= disk.version <=> Writes(m) \subseteq disk.rows

\* Whatever the connection goes through, each write is applied and acknowledged
\* in one step or fails and leaves nothing, none is lost or applied twice, and
\* the migrations come first and in order: the provider implements the ledger
\* (transactor.ts:16-38, database.ts:144-164).
L == INSTANCE Ledger WITH
        Write   <- Save \cup Edit,
        version <- disk.version,
        applied <- {j \in Save \cup Edit : Writes(j) \subseteq disk.rows},
        told    <- outcome
LedgerSpec == L!Spec

\* Between transactions the connection is in none, however the last one ended,
\* so that the next BEGIN works and single statements commit by themselves
\* (transactor.ts:29-35).
FreeBetween == job = None => ~open
=============================================================================
