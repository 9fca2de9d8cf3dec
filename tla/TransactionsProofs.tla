------------------------- MODULE TransactionsProofs -------------------------
(***************************************************************************)
(* The connection over any number of migrations, statements, transactions  *)
(* and edits: what is committed is whole, the connection is never left in  *)
(* a transaction, and the provider implements the ledger.                  *)
(***************************************************************************)
EXTENDS Transactions, TLAPS

\* A transaction is open exactly while a job is under way, a migration is the
\* one that comes next, and nothing but migrations runs before the last one
\* (database.ts:142-157, transactor.ts:16-38).
InStep ==
    /\ open <=> job # None
    /\ phase = "down" => job = None
    /\ job \in Migration => phase = "starting" /\ job = disk.version + 1
    /\ job \in Save => phase = "ready"
    /\ phase = "ready" => disk.version = Last

\* The open transaction holds what is committed and, of the job, what has been
\* executed so far.
UnderWay ==
    job # None =>
        /\ Writes(job) \cap disk.rows = {}
        /\ scratch.rows = disk.rows \cup {<<job, i>> : i \in 1..done}
        /\ scratch.version = IF job \in Migration /\ done = Statements
                             THEN job ELSE disk.version

\* A caller has been told of success exactly when its writes are committed.
Acknowledged ==
    \A j \in Job : outcome[j] = "ok" <=> Writes(j) \subseteq disk.rows

IInv == TypeOK /\ AllOrNothing /\ InStep /\ UnderWay /\ Acknowledged

-----------------------------------------------------------------------------
(* The writes of jobs *)

\* A migration or a transaction writes once for each of its statements.
LEMMA WritesMany ==
    ASSUME NEW j \in Migration \cup Save
    PROVE  Writes(j) = {<<j, i>> : i \in 1..Statements}
BY CountAssumption, JobAssumption DEF Writes, Migration

\* No two jobs write the same, and each writes something.
LEMMA WritesApart ==
    ASSUME NEW j \in Job
    PROVE  /\ Writes(j) # {}
           /\ \A k \in Job : j # k => Writes(j) \cap Writes(k) = {}
<1>1. <<j, 1>> \in Writes(j)
  BY CountAssumption DEF Writes
<1>2. ASSUME NEW k \in Job, j # k PROVE Writes(j) \cap Writes(k) = {}
  BY <1>2 DEF Writes
<1> QED BY <1>1, <1>2

\* What committing the writes of one job makes of the others.
LEMMA WritesAdded ==
    ASSUME NEW k \in Job, NEW j \in Job, NEW rows
    PROVE  /\ Writes(j) \subseteq rows \cup Writes(k)
                <=> j = k \/ Writes(j) \subseteq rows
           /\ j # k => Writes(j) \cap (rows \cup Writes(k)) = Writes(j) \cap rows
<1>1. CASE j = k
  BY <1>1
<1>2. CASE j # k
  BY <1>2, WritesApart
<1> QED BY <1>1, <1>2

\* Committing the writes of a whole job leaves the file whole, of the jobs
\* told of it only what they were told already.
LEMMA CommitKeeps ==
    ASSUME IInv, NEW k \in Job, Writes(k) \cap disk.rows = {},
           k \in Migration => k = disk.version + 1,
           disk'.rows = disk.rows \cup Writes(k),
           disk'.version = IF k \in Migration THEN k ELSE disk.version,
           outcome' = [outcome EXCEPT ![k] = "ok"]
    PROVE  AllOrNothing' /\ Acknowledged'
<1>1. \A j \in Job : /\ Writes(j) \subseteq disk'.rows <=> j = k \/ Writes(j) \subseteq disk.rows
                     /\ j # k => Writes(j) \cap disk'.rows = Writes(j) \cap disk.rows
  BY WritesAdded
<1>2. \A j \in Job : Writes(j) \subseteq disk'.rows \/ Writes(j) \cap disk'.rows = {}
  BY <1>1 DEF IInv, AllOrNothing
<1>3. \A m \in Migration : m <= disk'.version <=> Writes(m) \subseteq disk'.rows
  <2> SUFFICES ASSUME NEW m \in Migration
               PROVE  m <= disk'.version <=> Writes(m) \subseteq disk'.rows
    OBVIOUS
  <2>1. /\ m \in Job /\ m \in Nat /\ disk.version \in Nat
        /\ m <= disk.version <=> Writes(m) \subseteq disk.rows
    BY CountAssumption DEF IInv, TypeOK, Store, AllOrNothing, Job, Migration
  <2>2. CASE k \in Migration
    BY <1>1, <2>1, <2>2
  <2>3. CASE k \notin Migration
    BY <1>1, <2>1, <2>3
  <2> QED BY <2>2, <2>3
<1>4. Acknowledged'
  BY <1>1 DEF IInv, TypeOK, Acknowledged
<1> QED BY <1>2, <1>3, <1>4 DEF AllOrNothing

-----------------------------------------------------------------------------
(* Each action keeps the invariant *)

LEMMA InitHolds == Init => IInv
<1> SUFFICES ASSUME Init PROVE IInv
  OBVIOUS
<1>0. disk \in Store /\ disk.version = 0 /\ disk.rows = {} /\ scratch = disk
  BY CountAssumption DEF Init, Store
<1>1. TypeOK
  <2>1. outcome \in [Job -> {"none", "ok", "error"}]
    BY DEF Init
  <2>2. /\ phase = "down" /\ open = FALSE /\ job = None
        /\ done \in 0..Statements
        /\ current \in 0..Last /\ current <= 0
    BY CountAssumption DEF Init
  <2> QED BY <1>0, <2>1, <2>2 DEF TypeOK
<1>2. \A j \in Job : Writes(j) # {} /\ ~(Writes(j) \subseteq {})
  BY WritesApart
<1>3. AllOrNothing /\ Acknowledged
  <2>1. \A m \in Migration : m \in Job /\ ~(m <= 0)
    BY CountAssumption DEF Migration, Job
  <2>2. AllOrNothing
    BY <1>0, <1>2, <2>1 DEF AllOrNothing
  <2>3. Acknowledged
    BY <1>0, <1>2 DEF Init, Acknowledged
  <2> QED BY <2>2, <2>3
<1>4. InStep /\ UnderWay
  BY NoneAssumption, CountAssumption DEF Init, InStep, UnderWay, Migration
<1> QED BY <1>1, <1>3, <1>4 DEF IInv

\* A job begins with nothing of its own in the file.
LEMMA BeginKeeps ==
    ASSUME IInv, NEW j \in Migration \cup Save, Begin(j),
           j \in Migration => phase = "starting" /\ j = disk.version + 1,
           j \in Save => phase = "ready"
    PROVE  IInv'
<1>0. j \in Job /\ j # None /\ job = None /\ ~open /\ outcome[j] # "ok"
  BY NoneAssumption, JobAssumption DEF Begin, IInv, InStep, Job, Migration
<1>1. /\ job' = j /\ open' = TRUE /\ scratch' = disk /\ done' = 0
      /\ outcome' = [outcome EXCEPT ![j] = "none"]
      /\ UNCHANGED <<phase, disk, current>>
  BY <1>0 DEF Begin
<1>2. TypeOK'
  BY <1>0, <1>1, CountAssumption DEF IInv, TypeOK
<1>3. AllOrNothing'
  BY <1>1 DEF IInv, AllOrNothing
<1>4. InStep'
  BY <1>0, <1>1, JobAssumption DEF IInv, InStep, Migration
<1>5. Writes(j) \cap disk.rows = {}
  BY <1>0 DEF IInv, AllOrNothing, Acknowledged
<1>6. UnderWay'
  BY <1>1, <1>5, CountAssumption DEF UnderWay
<1>7. Acknowledged'
  BY <1>0, <1>1 DEF IInv, TypeOK, Acknowledged
<1> QED BY <1>2, <1>3, <1>4, <1>6, <1>7 DEF IInv

\* The migration that is started is the one after the version in the file.
LEMMA NextMigration ==
    ASSUME IInv, NEW m \in Migration, Migrate(m)
    PROVE  m = disk.version + 1
<1>1. current \in Nat /\ disk.version \in Nat /\ current <= disk.version
  BY CountAssumption DEF IInv, TypeOK, Store
<1>2. Pending = {n \in Migration : disk.version < n}
  BY <1>1, CountAssumption DEF Pending, Migration
<1>3. disk.version + 1 \in Pending
  BY <1>1, <1>2, CountAssumption DEF Migrate, Migration
<1> QED BY <1>1, <1>2, <1>3, CountAssumption DEF Migrate, Migration

LEMMA ExecuteKeeps == ASSUME IInv, Execute PROVE IInv'
<1>0. job \in Migration \cup Save /\ job \in Job /\ open
  BY DEF Execute, IInv, TypeOK, InStep, Job
<1> DEFINE store == [scratch EXCEPT !.rows = @ \cup {<<job, done + 1>>}]
<1>1. /\ scratch' = IF done + 1 = Statements THEN Completed(store, job) ELSE store
      /\ done' = done + 1 /\ done < Statements
      /\ UNCHANGED <<phase, disk, open, current, job, outcome>>
  BY <1>0 DEF Execute, Apply, Visible
<1>2. /\ done \in Nat /\ done + 1 \in 1..Statements
      /\ scratch \in Store /\ disk \in Store
  BY <1>1, CountAssumption DEF IInv, TypeOK
<1>3. /\ scratch' \in Store
      /\ scratch'.rows = scratch.rows \cup {<<job, done + 1>>}
      /\ scratch'.version = IF job \in Migration /\ done + 1 = Statements
                            THEN job ELSE scratch.version
  <2>1. <<job, done + 1>> \in Writes(job)
    BY <1>0, <1>2, WritesMany
  <2>2. job \in Migration => job \in 0..Last
    BY CountAssumption DEF Migration
  <2>3. <<job, done + 1>> \in UNION {Writes(j) : j \in Job}
    BY <1>0, <2>1
  <2>4. /\ store \in Store /\ store.version = scratch.version
        /\ store.rows = scratch.rows \cup {<<job, done + 1>>}
    BY <1>2, <2>3 DEF Store
  <2>5. CASE job \in Migration /\ done + 1 = Statements
    <3> HIDE DEF store
    <3>1. scratch' = [store EXCEPT !.version = job]
      BY <1>1, <2>5 DEF Completed
    <3> QED BY <2>2, <2>4, <2>5, <3>1 DEF Store
  <2>6. CASE ~(job \in Migration /\ done + 1 = Statements)
    <3> HIDE DEF store
    <3>1. scratch' = store
      BY <1>1, <2>6 DEF Completed
    <3> QED BY <2>4, <2>6, <3>1
  <2> QED BY <2>5, <2>6
<1>4. TypeOK'
  <2>1. done' \in 0..Statements
    BY <1>1, <1>2, CountAssumption
  <2> QED BY <1>1, <1>3, <2>1 DEF IInv, TypeOK
<1>5. AllOrNothing' /\ InStep' /\ Acknowledged'
  BY <1>1 DEF IInv, AllOrNothing, InStep, Acknowledged
<1>6. UnderWay'
  <2>1. {<<job, i>> : i \in 1..done} \cup {<<job, done + 1>>} = {<<job, i>> : i \in 1..(done + 1)}
    BY <1>2
  <2>2. scratch'.rows = disk.rows \cup {<<job, i>> : i \in 1..(done + 1)}
    BY <1>0, <1>3, <2>1, NoneAssumption DEF IInv, UnderWay, Execute
  <2>3. scratch.version = disk.version
    BY <1>1, <1>2 DEF IInv, UnderWay, Execute
  <2> QED BY <1>1, <1>3, <2>2, <2>3 DEF IInv, UnderWay
<1> QED BY <1>4, <1>5, <1>6 DEF IInv

\* A failure leaves the file as it was.
LEMMA FailureKeeps ==
    ASSUME IInv, job # None, open' = FALSE, job' = None,
           phase' = PhaseAfterFailure,
           outcome' = [outcome EXCEPT ![job] = "error"],
           UNCHANGED <<disk, scratch, current, done>>
    PROVE  IInv'
<1>0. job \in Job /\ Writes(job) \cap disk.rows = {}
  BY DEF IInv, TypeOK, UnderWay, Job
<1>1. TypeOK'
  BY <1>0 DEF IInv, TypeOK, PhaseAfterFailure
<1>2. AllOrNothing'
  BY DEF IInv, AllOrNothing
<1>3. InStep'
  BY NoneAssumption, CountAssumption DEF IInv, InStep, PhaseAfterFailure, Migration
<1>4. UnderWay'
  BY DEF UnderWay
<1>5. Acknowledged'
  BY <1>0, WritesApart DEF IInv, TypeOK, Acknowledged
<1> QED BY <1>1, <1>2, <1>3, <1>4, <1>5 DEF IInv

\* A job that is committed had executed all of its statements.
LEMMA CommittedWhole ==
    ASSUME IInv, job # None, done = Statements
    PROVE  /\ job \in Migration \cup Save /\ job \in Job
           /\ Writes(job) \cap disk.rows = {}
           /\ scratch.rows = disk.rows \cup Writes(job)
           /\ scratch.version = IF job \in Migration THEN job ELSE disk.version
BY WritesMany DEF IInv, TypeOK, UnderWay, Job

LEMMA CommitActionKeeps == ASSUME IInv, Commit PROVE IInv'
<1>1. CASE /\ disk' = scratch /\ phase' = phase
           /\ outcome' = [outcome EXCEPT ![job] = "ok"]
  <2>0. /\ job # None /\ done = Statements /\ open' = FALSE /\ job' = None
        /\ UNCHANGED <<scratch, current, done>>
    BY DEF Commit
  <2>1. /\ job \in Migration \cup Save /\ job \in Job
        /\ Writes(job) \cap disk.rows = {}
        /\ disk'.rows = disk.rows \cup Writes(job)
        /\ disk'.version = IF job \in Migration THEN job ELSE disk.version
    BY <1>1, <2>0, CommittedWhole
  <2>2. /\ job \in Migration => job = disk.version + 1 /\ phase = "starting"
        /\ job \in Save => phase = "ready"
    BY DEF IInv, InStep
  <2>3. AllOrNothing' /\ Acknowledged'
    BY <1>1, <2>1, <2>2, CommitKeeps
  <2>4. TypeOK'
    <3>1. disk.version \in Nat /\ disk'.version \in Nat /\ disk.version <= disk'.version
      BY <2>1, <2>2, CountAssumption DEF IInv, TypeOK, Store, Migration
    <3>2. current \in 0..Last /\ current <= disk'.version
      BY <3>1, CountAssumption DEF IInv, TypeOK
    <3>3. outcome' \in [Job -> {"none", "ok", "error"}]
      BY <1>1 DEF IInv, TypeOK
    <3> QED BY <1>1, <2>0, <3>2, <3>3 DEF IInv, TypeOK
  <2>5. InStep'
    BY <1>1, <2>0, <2>1, <2>2, NoneAssumption, CountAssumption, JobAssumption
       DEF IInv, InStep, Migration
  <2>6. UnderWay'
    BY <2>0 DEF UnderWay
  <2> QED BY <2>3, <2>4, <2>5, <2>6 DEF IInv
<1>2. CASE /\ disk' = disk /\ phase' = PhaseAfterFailure
           /\ outcome' = [outcome EXCEPT ![job] = "error"]
  BY <1>2, FailureKeeps DEF Commit
<1> QED BY <1>1, <1>2 DEF Commit, Told

LEMMA UpdateKeeps == ASSUME IInv, NEW e \in Edit, Update(e) PROVE IInv'
<1>0. /\ e \in Job /\ e \notin Migration /\ ~open /\ job = None
      /\ outcome[e] # "ok" /\ Writes(e) \cap disk.rows = {}
  BY JobAssumption DEF Update, IInv, InStep, AllOrNothing, Acknowledged, Job, Migration
<1>1. CASE /\ disk' = [disk EXCEPT !.rows = @ \cup Writes(e)] /\ UNCHANGED scratch
           /\ outcome' = [outcome EXCEPT ![e] = "ok"]
  <2>1. /\ disk'.rows = disk.rows \cup Writes(e) /\ disk'.version = disk.version
        /\ disk' \in [version : 0..Last, rows : SUBSET UNION {Writes(j) : j \in Job}]
    BY <1>0, <1>1 DEF IInv, TypeOK, Store
  <2>2. AllOrNothing' /\ Acknowledged'
    BY <1>0, <1>1, <2>1, CommitKeeps
  <2>3. TypeOK'
    BY <1>0, <1>1, <2>1 DEF Update, IInv, TypeOK, Store
  <2>4. InStep' /\ UnderWay'
    BY <1>0, <2>1 DEF Update, IInv, InStep, UnderWay
  <2> QED BY <2>2, <2>3, <2>4 DEF IInv
<1>2. CASE UNCHANGED <<disk, scratch>> /\ outcome' = [outcome EXCEPT ![e] = "error"]
  <2>1. TypeOK'
    BY <1>0, <1>2 DEF Update, IInv, TypeOK
  <2>2. AllOrNothing' /\ InStep' /\ UnderWay'
    BY <1>0, <1>2 DEF Update, IInv, AllOrNothing, InStep, UnderWay
  <2>3. Acknowledged'
    BY <1>0, <1>2, WritesApart DEF IInv, TypeOK, Acknowledged
  <2> QED BY <2>1, <2>2, <2>3 DEF IInv
<1> QED BY <1>0, <1>1, <1>2 DEF Update, Apply, Visible

\* Starting, stopping and a crash change nothing of the file.
LEMMA LifeKeeps == ASSUME IInv, Start \/ Ready \/ Close PROVE IInv'
<1>0. UNCHANGED <<disk, scratch, outcome>> /\ job' = None /\ open' = FALSE
  BY DEF Start, Ready, Close, IInv, InStep
<1>1. AllOrNothing' /\ Acknowledged' /\ UnderWay'
  BY <1>0 DEF IInv, AllOrNothing, Acknowledged, UnderWay
<1>2. disk.version \in 0..Last /\ current <= disk.version
  BY DEF IInv, TypeOK, Store
<1>3. TypeOK'
  <2>1. current' \in 0..Last /\ current' <= disk.version /\ done' \in 0..Statements
    BY <1>2, CountAssumption DEF Start, Ready, Close, VersionRead, IInv, TypeOK
  <2>2. phase' \in {"down", "starting", "ready"}
    BY DEF Start, Ready, Close
  <2> QED BY <1>0, <2>1, <2>2 DEF IInv, TypeOK
<1>4. phase' = "ready" => disk.version = Last
  <2>1. ASSUME Ready, disk.version # Last PROVE FALSE
    <3>1. disk.version + 1 \in Pending
      BY <1>2, <2>1, CountAssumption DEF Pending, Migration, IInv, TypeOK
    <3> QED BY <2>1, <3>1 DEF Ready
  <2> QED BY <2>1 DEF Start, Ready, Close
<1>5. InStep'
  BY <1>0, <1>4, NoneAssumption, CountAssumption DEF InStep, Migration
<1> QED BY <1>1, <1>3, <1>5 DEF IInv

\* Every step keeps the invariant.
LEMMA NextKeepsIInv == IInv /\ [Next]_vars => IInv'
<1> SUFFICES ASSUME IInv, [Next]_vars PROVE IInv'
  OBVIOUS
<1>1. CASE Start \/ Ready \/ Close
  BY <1>1, LifeKeeps
<1>2. ASSUME NEW m \in Migration, Migrate(m) PROVE IInv'
  <2>1. m \notin Save
    BY JobAssumption, CountAssumption DEF Migration
  <2> QED BY <1>2, <2>1, NextMigration, BeginKeeps DEF Migrate
<1>3. ASSUME NEW s \in Save, Run(s) PROVE IInv'
  <2>1. s \notin Migration
    BY JobAssumption, CountAssumption DEF Migration
  <2> QED BY <1>3, <2>1, BeginKeeps DEF Run
<1>4. ASSUME NEW e \in Edit, Update(e) PROVE IInv'
  BY <1>4, UpdateKeeps
<1>5. CASE Execute
  BY <1>5, ExecuteKeeps
<1>6. CASE ExecuteFails
  BY <1>6, FailureKeeps DEF ExecuteFails, OpenAfter
<1>7. CASE Commit
  BY <1>7, CommitActionKeeps
<1>8. CASE UNCHANGED vars
  BY <1>8 DEF vars, IInv, TypeOK, AllOrNothing, InStep, UnderWay, Acknowledged
<1> QED BY <1>1, <1>2, <1>3, <1>4, <1>5, <1>6, <1>7, <1>8 DEF Next

-----------------------------------------------------------------------------
(* What holds of the connection *)

THEOREM Invariance == Spec => []IInv
BY InitHolds, NextKeepsIInv, PTL DEF Spec

\* The connection's state keeps its type, and the version that start() read is
\* never ahead of the file's (database.ts:81-120).
THEOREM TypeCorrect == Spec => []TypeOK
<1>1. IInv => TypeOK
  BY DEF IInv
<1> QED BY <1>1, Invariance, PTL

\* The file holds all of a job or none of it, whatever fails or dies, and its
\* version tells which migrations it holds (database.ts:151-157).
THEOREM AlwaysAllOrNothing == Spec => []AllOrNothing
<1>1. IInv => AllOrNothing
  BY DEF IInv
<1> QED BY <1>1, Invariance, PTL

\* Between jobs the connection is in no transaction (transactor.ts:29-35).
THEOREM AlwaysFreeBetween == Spec => []FreeBetween
<1>1. IInv => FreeBetween
  BY DEF IInv, InStep, FreeBetween
<1> QED BY <1>1, Invariance, PTL

-----------------------------------------------------------------------------
(* The connection implements the ledger *)

\* The other writes applied, as the instance L sees them.
Applied == {j \in Save \cup Edit : Writes(j) \subseteq disk.rows}

\* A write that is committed is one step of the ledger.
LEMMA CommitIsLedgerStep ==
    ASSUME IInv, NEW k \in Job, Writes(k) \cap disk.rows = {},
           k \in Migration => k = disk.version + 1,
           k \notin Migration => disk.version = Last,
           disk'.rows = disk.rows \cup Writes(k),
           disk'.version = IF k \in Migration THEN k ELSE disk.version,
           outcome' = [outcome EXCEPT ![k] = "ok"]
    PROVE  L!Next
<1>1. \A j \in Job : Writes(j) \subseteq disk'.rows <=> j = k \/ Writes(j) \subseteq disk.rows
  BY WritesAdded
<1>2. Applied' = Applied \cup ({k} \cap (Save \cup Edit))
  BY <1>1 DEF Applied, Job
<1>3. CASE k \in Migration
  <2>1. k \notin Save \cup Edit /\ disk.version < Last /\ disk'.version = disk.version + 1
    <3>1. disk.version \in Nat /\ k = disk.version + 1 /\ k \in 1..Last
      BY <1>3, CountAssumption DEF IInv, TypeOK, Store, Migration
    <3>2. k \notin Save \cup Edit
      BY <3>1, JobAssumption, CountAssumption
    <3> QED BY <1>3, <3>1, <3>2, CountAssumption
  <2>2. L!MigrateOne
    BY <1>2, <1>3, <2>1 DEF L!MigrateOne, Applied
  <2> QED BY <2>2 DEF L!Next
<1>4. CASE k \notin Migration
  <2>1. k \in Save \cup Edit /\ k \notin Applied
    BY <1>4, WritesApart DEF Job, Applied
  <2>2. L!ApplyOne(k)
    BY <1>2, <1>4, <2>1 DEF L!ApplyOne, Applied
  <2> QED BY <2>1, <2>2 DEF L!Next
<1> QED BY <1>3, <1>4

\* One that fails is refused, the file being left alone.
LEMMA FailureIsRefusal ==
    ASSUME NEW k \in Job, outcome[k] # "ok",
           outcome' = [outcome EXCEPT ![k] = "error"], UNCHANGED disk
    PROVE  L!Next
<1>1. L!Refuse(k)
  BY DEF L!Refuse
<1> QED BY <1>1 DEF L!Next, L!Requests, Job, Migration

\* A job that is under way has not been answered with success.
LEMMA PendingUnanswered ==
    ASSUME IInv, job # None
    PROVE  job \in Job /\ outcome[job] # "ok"
<1>1. job \in Job /\ Writes(job) \cap disk.rows = {}
  BY DEF IInv, TypeOK, UnderWay, Job
<1> QED BY <1>1, WritesApart DEF IInv, Acknowledged

LEMMA LedgerInit == Init => L!Init
<1> SUFFICES ASSUME Init PROVE L!Init
  OBVIOUS
<1>1. disk.version = 0 /\ disk.rows = {}
  BY DEF Init
<1>2. Applied = {}
  BY <1>1, WritesApart DEF Applied, Job
<1> QED BY <1>1, <1>2 DEF Init, L!Init, L!Requests, Applied, Job, Migration

LEMMA LedgerNext == IInv /\ [Next]_vars => [L!Next]_L!ledgerVars
<1> SUFFICES ASSUME IInv, [Next]_vars PROVE [L!Next]_L!ledgerVars
  OBVIOUS
<1>1. CASE UNCHANGED <<disk, outcome>>
  BY <1>1 DEF L!ledgerVars
<1>2. CASE Start \/ Ready \/ Close \/ Execute
  <2>1. Execute => open
    BY DEF Execute, IInv, InStep
  <2> QED BY <1>1, <1>2, <2>1 DEF Start, Ready, Close, Execute, Apply
<1>3. ASSUME NEW j \in Migration \cup Save, Begin(j) PROVE L!Next
  <2>1. j \in Job /\ outcome[j] # "ok" /\ UNCHANGED disk
    BY <1>3 DEF Begin, Job
  <2>2. CASE outcome' = [outcome EXCEPT ![j] = "none"]
    <3>1. L!Ask(j)
      BY <2>1, <2>2 DEF L!Ask
    <3> QED BY <2>1, <3>1 DEF L!Next, L!Requests, Job, Migration
  <2>3. CASE outcome' = [outcome EXCEPT ![j] = "error"]
    BY <2>1, <2>3, FailureIsRefusal
  <2> QED BY <1>3, <2>2, <2>3 DEF Begin
<1>4. ASSUME NEW e \in Edit, Update(e) PROVE L!Next
  <2>0. /\ e \in Job /\ e \notin Migration /\ ~open /\ disk.version = Last
        /\ outcome[e] # "ok" /\ Writes(e) \cap disk.rows = {} /\ disk \in Store
    BY <1>4, JobAssumption
       DEF Update, IInv, TypeOK, InStep, AllOrNothing, Acknowledged, Job, Migration
  <2>1. CASE /\ disk' = [disk EXCEPT !.rows = @ \cup Writes(e)]
             /\ outcome' = [outcome EXCEPT ![e] = "ok"]
    <3>1. disk'.rows = disk.rows \cup Writes(e) /\ disk'.version = disk.version
      BY <2>0, <2>1 DEF Store
    <3> QED BY <2>0, <2>1, <3>1, CommitIsLedgerStep
  <2>2. CASE UNCHANGED disk /\ outcome' = [outcome EXCEPT ![e] = "error"]
    BY <2>0, <2>2, FailureIsRefusal
  <2> QED BY <1>4, <2>0, <2>1, <2>2 DEF Update, Apply, Visible
<1>5. CASE ExecuteFails
  BY <1>5, PendingUnanswered, FailureIsRefusal DEF ExecuteFails
<1>6. CASE Commit
  <2>0. job # None /\ done = Statements
    BY <1>6 DEF Commit
  <2>1. CASE disk' = scratch /\ outcome' = [outcome EXCEPT ![job] = "ok"]
    <3>1. /\ job \in Migration => job = disk.version + 1
          /\ job \notin Migration => disk.version = Last
      BY <2>0, CommittedWhole DEF IInv, InStep
    <3> QED BY <2>0, <2>1, <3>1, CommittedWhole, CommitIsLedgerStep
  <2>2. CASE UNCHANGED disk /\ outcome' = [outcome EXCEPT ![job] = "error"]
    BY <2>0, <2>2, PendingUnanswered, FailureIsRefusal
  <2> QED BY <1>6, <2>1, <2>2 DEF Commit, Told
<1>7. CASE UNCHANGED vars
  BY <1>1, <1>7 DEF vars
<1> QED BY <1>2, <1>3, <1>4, <1>5, <1>6, <1>7 DEF Next, Migrate, Run

\* Each write is applied and acknowledged in one step or leaves nothing, none
\* is lost or applied twice, and the migrations come first and in order
\* (transactor.ts:16-38, database.ts:144-164).
THEOREM TransactionsImplementLedger == Spec => LedgerSpec
BY LedgerInit, LedgerNext, Invariance, PTL DEF Spec, LedgerSpec, L!Spec
=============================================================================
