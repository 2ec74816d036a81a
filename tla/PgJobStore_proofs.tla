-------------------------- MODULE PgJobStore_proofs --------------------------
(***************************************************************************)
(* Proofs about the PostgreSQL store, for any number of connections.       *)
(*                                                                         *)
(* The invariant says of each open transaction what it has done so far and *)
(* that it still applies: rows that are held stay as they are, because     *)
(* holders are disjoint, and a row that fail_job has read but does not yet *)
(* hold keeps the errors that were read as long as the attempt goes on.    *)
(* A COMMIT is then an operation of JobStore on the table as it is.        *)
(***************************************************************************)
EXTENDS PgJobStore, JobStore_proofs

Op(s) == txn[s].call.op

Written(s) == DOMAIN txn[s].writes

\* A transaction that inserts a job.
CreateInv(s) ==
  Op(s) = "create" =>
    /\ txn[s].call.now \in Timestamps
    /\ txn[s].locked = {}
    /\ \E d \in Destinations :
         \/ txn[s].todo = {d} /\ Written(s) = {}
         \/ /\ txn[s].todo = {} /\ Written(s) = {d} /\ d \notin DOMAIN jobs
            /\ txn[s].writes[d] = NewJob(txn[s].call.now)

\* A transaction that claims jobs.
ClaimInv(s) ==
  Op(s) = "claim" =>
    /\ txn[s].call.now \in Timestamps
    /\ \E limit \in ClaimLimits, duration \in LeaseDurations :
         /\ CanLease(txn[s].call.now, duration)
         /\ txn[s].call.lease = txn[s].call.now + duration
         /\ Cardinality(txn[s].locked) <= limit
    /\ txn[s].locked = txn[s].todo \cup Written(s)
    /\ txn[s].todo \cap Written(s) = {}
    /\ txn[s].locked \subseteq Claimable(txn[s].call.now)
    /\ \A d \in Written(s) : txn[s].writes[d] = AfterClaim(jobs[d], txn[s].call.lease)

\* What fail_job read of a job is up to date while its attempt goes on.
ErrorsCurrent(s, d) ==
  Op(s) = "fail" =>
    /\ d \in DOMAIN jobs /\ jobs[d].attempt >= txn[s].call.attempt
    /\ jobs[d].status = "running" /\ jobs[d].attempt = txn[s].call.attempt =>
         jobs[d].errors = txn[s].errors

CallIsValid(s) ==
  /\ txn[s].call.now \in Timestamps /\ txn[s].call.attempt \in 0..MaxAttempts
  /\ txn[s].call.progress \in Reports /\ WithinTotal(txn[s].call.progress)
  /\ Op(s) = "renew" =>
       \E duration \in LeaseDurations :
         /\ CanLease(txn[s].call.now, duration)
         /\ txn[s].call.lease = txn[s].call.now + duration

\* A transaction of a worker.
WorkInv(s) ==
  Op(s) \in WorkerOps =>
    /\ CallIsValid(s)
    /\ txn[s].locked = {}
    /\ \E d \in Destinations :
         /\ ErrorsCurrent(s, d)
         /\ \/ txn[s].todo = {d} /\ Written(s) = {}
            \/ /\ txn[s].todo = {} /\ Written(s) = {d}
               /\ HoldsLease(d, txn[s].call.attempt, txn[s].call.now)
               /\ txn[s].writes[d] = Updated(jobs[d], txn[s].call, jobs[d].errors)

SessionInv(s) ==
  /\ Op(s) \in {"none", "create", "claim"} \cup WorkerOps
  /\ Op(s) = "none" => txn[s] = Idle
  /\ CreateInv(s) /\ ClaimInv(s) /\ WorkInv(s)

HoldersDisjoint ==
  \A s, t \in Sessions : s # t => Holds(s) \cap Holds(t) = {}

TxnIsFunction ==
  /\ txn = [s \in Sessions |-> txn[s]]
  /\ \A s \in Sessions :
       txn[s] = Transaction(txn[s].call, txn[s].todo, txn[s].locked, txn[s].writes,
                            txn[s].errors)

TableInv == IInv /\ IsFiniteSet(DOMAIN jobs)

\* The inductive invariant.
PgInv ==
  /\ TableInv
  /\ TxnIsFunction
  /\ HoldersDisjoint
  /\ \A s \in Sessions : SessionInv(s)

LEMMA IdleIsValid ==
  ASSUME NEW s \in Sessions, txn[s] = Idle
  PROVE  /\ SessionInv(s) /\ Holds(s) = {}
         /\ txn[s] = Transaction(txn[s].call, txn[s].todo, txn[s].locked, txn[s].writes,
                                 txn[s].errors)
BY DEF Idle, NoCall, NoWrites, Transaction, SessionInv, CreateInv, ClaimInv, WorkInv,
       WorkerOps, Op, Holds

LEMMA PgInvHolds == PgInit => PgInv
<1> SUFFICES ASSUME PgInit
             PROVE  PgInv
  OBVIOUS
<1>1. TableInv
  BY InitIInv, FS_EmptySet DEF PgInit, Init, TableInv
<1>2. txn = [s \in Sessions |-> txn[s]] /\ \A s \in Sessions : txn[s] = Idle
  BY DEF PgInit
<1> QED
  BY <1>1, <1>2, IdleIsValid DEF PgInv, TxnIsFunction, HoldersDisjoint

-----------------------------------------------------------------------------
\* What a transaction would write is what its operation makes of the row.

LEMMA WorkerRow ==
  ASSUME NEW row \in Job, NEW call, NEW errors
  PROVE  Updated(row, call, row.errors) =
           CASE call.op = "renew"      -> AfterRenew(row, call.lease, call.progress)
             [] call.op = "checkpoint" -> AfterCheckpoint(row, call.progress)
             [] call.op = "complete"   -> AfterComplete(row, call.progress)
             [] call.op = "fail"       -> AfterFail(row, call.attempt, call.progress)
<1>1. [row EXCEPT !.errors = row.errors] = row
  BY DEF Job
<1> QED  BY <1>1 DEF Updated

\* A COMMIT is one operation of the atomic store.
LEMMA CommitIsOperation ==
  ASSUME PgInv, NEW s \in Sessions, Commit(s)
  PROVE  /\ UnorderedNext
         /\ IsFiniteSet(DOMAIN jobs')
         /\ \A d \in DOMAIN jobs \ Written(s) : jobs'[d] = jobs[d]
         /\ DOMAIN jobs' = DOMAIN jobs \cup Written(s)
<1> DEFINE call == txn[s].call
           W    == Written(s)
<1>0. /\ jobs' = [d \in DOMAIN jobs \cup W |->
                    IF d \in W THEN txn[s].writes[d] ELSE jobs[d]]
      /\ DOMAIN jobs' = DOMAIN jobs \cup W
      /\ \A d \in DOMAIN jobs \ W : jobs'[d] = jobs[d]
      /\ txn[s].todo = {} /\ Op(s) # "none"
      /\ IInv /\ IsFiniteSet(DOMAIN jobs) /\ SessionInv(s)
      /\ jobs = [d \in DOMAIN jobs |-> jobs[d]]
  BY DEF Commit, IsIdle, PgInv, TableInv, IInv, Op, Written
<1> HIDE DEF W
<1>1. CASE Op(s) = "create"
  <2>1. PICK d \in Destinations : /\ W = {d} /\ d \notin DOMAIN jobs
                                  /\ txn[s].writes[d] = NewJob(call.now)
    BY <1>0, <1>1 DEF SessionInv, CreateInv, W
  <2>2. call.now \in Timestamps
    BY <1>0, <1>1 DEF SessionInv, CreateInv
  <2> HIDE DEF call
  <2>3. jobs' = [e \in DOMAIN jobs \cup {d} |-> IF e = d THEN NewJob(call.now) ELSE jobs[e]]
    BY <1>0, <2>1
  <2>4. Create
    BY <2>1, <2>2, <2>3 DEF Create, CreateJob
  <2>5. IsFiniteSet(DOMAIN jobs')
    BY <1>0, <2>1, FS_AddElement
  <2> QED  BY <1>0, <2>4, <2>5 DEF UnorderedNext, W
<1>2. CASE Op(s) = "claim"
  <2>1. PICK limit \in ClaimLimits, duration \in LeaseDurations :
          /\ CanLease(call.now, duration) /\ call.lease = call.now + duration
          /\ Cardinality(txn[s].locked) <= limit
    BY <1>0, <1>2 DEF SessionInv, ClaimInv
  <2>2. /\ txn[s].locked = W /\ call.now \in Timestamps /\ W \subseteq Claimable(call.now)
        /\ \A d \in W : txn[s].writes[d] = AfterClaim(jobs[d], call.lease)
    BY <1>0, <1>2 DEF SessionInv, ClaimInv, W
  <2> HIDE DEF call
  <2>3. DOMAIN jobs \cup W = DOMAIN jobs
    BY <2>2 DEF Claimable
  <2>4. jobs' = [d \in DOMAIN jobs |->
                   IF d \in W THEN AfterClaim(jobs[d], call.now + duration) ELSE jobs[d]]
    BY <1>0, <2>1, <2>2, <2>3
  <2>5. ClaimBatch(W, call.now, duration)
    BY <2>1, <2>4 DEF ClaimBatch
  <2>6. ClaimAny
    BY <2>1, <2>2, <2>5 DEF ClaimAny
  <2> QED  BY <1>0, <2>3, <2>6 DEF UnorderedNext, W
<1>3. CASE Op(s) \in WorkerOps
  <2>1. PICK d \in Destinations :
          /\ W = {d} /\ HoldsLease(d, call.attempt, call.now)
          /\ txn[s].writes[d] = Updated(jobs[d], call, jobs[d].errors)
    BY <1>0, <1>3 DEF SessionInv, WorkInv, W
  <2>2. /\ call.now \in Timestamps /\ call.attempt \in 0..MaxAttempts
        /\ call.progress \in Reports /\ WithinTotal(call.progress)
        /\ call.op \in WorkerOps
        /\ call.op = "renew" =>
             \E duration \in LeaseDurations :
               CanLease(call.now, duration) /\ call.lease = call.now + duration
    BY <1>0, <1>3 DEF SessionInv, WorkInv, CallIsValid, Op
  <2> HIDE DEF call
  <2>3. d \in DOMAIN jobs /\ jobs[d] \in Job /\ DOMAIN jobs \cup W = DOMAIN jobs
    BY <1>0, <2>1 DEF HoldsLease, IInv, RowInv
  <2> DEFINE new == Updated(jobs[d], call, jobs[d].errors)
  <2>4. Update(d, new)
    <3> HIDE DEF new
    <3>1. jobs' = [e \in DOMAIN jobs |-> IF e = d THEN new ELSE jobs[e]]
      BY <1>0, <2>1, <2>3 DEF new
    <3> QED  BY <1>0, <2>3, <3>1 DEF Update
  <2>5. Accepts(d, call.attempt, call.now, call.progress)
    BY <2>1, <2>2 DEF Accepts
  <2>6. WorkerCall
    <3>1. CASE call.op = "renew"
      <4>1. new = AfterRenew(jobs[d], call.lease, call.progress)
        BY <2>3, <3>1, WorkerRow
      <4> QED  BY <2>2, <2>4, <2>5, <3>1, <4>1 DEF WorkerCall, RenewLease
    <3>2. CASE call.op = "checkpoint"
      <4>1. new = AfterCheckpoint(jobs[d], call.progress)
        BY <2>3, <3>2, WorkerRow
      <4> QED  BY <2>2, <2>4, <2>5, <4>1 DEF WorkerCall, CheckpointProgress
    <3>3. CASE call.op = "complete"
      <4>1. new = AfterComplete(jobs[d], call.progress)
        BY <2>3, <3>3, WorkerRow
      <4> QED  BY <2>2, <2>4, <2>5, <4>1 DEF WorkerCall, CompleteJob
    <3>4. CASE call.op = "fail"
      <4>1. new = AfterFail(jobs[d], call.attempt, call.progress)
        BY <2>3, <3>4, WorkerRow
      <4> QED  BY <2>2, <2>4, <2>5, <4>1 DEF WorkerCall, FailJob
    <3> QED  BY <2>2, <3>1, <3>2, <3>3, <3>4 DEF WorkerOps
  <2> QED  BY <1>0, <2>3, <2>6 DEF UnorderedNext, W
<1> QED  BY <1>0, <1>1, <1>2, <1>3 DEF SessionInv

\* A transaction is not disturbed by a step that keeps the rows it holds.
LEMMA ErrorsStayCurrent ==
  ASSUME IInv, RowByRow, NEW s \in Sessions, txn'[s] = txn[s], CallIsValid(s),
         NEW d \in Destinations, ErrorsCurrent(s, d)
  PROVE  ErrorsCurrent(s, d)'
<1> SUFFICES ASSUME Op(s) = "fail"
             PROVE  ErrorsCurrent(s, d)'
  BY DEF ErrorsCurrent, Op
<1> DEFINE row == jobs[d]
           new == jobs'[d]
           a   == txn[s].call.attempt
<1>1. d \in DOMAIN jobs /\ row.attempt >= a /\ a \in Int
      /\ (row.status = "running" /\ row.attempt = a => row.errors = txn[s].errors)
  BY MaxAttemptsPositive DEF ErrorsCurrent, CallIsValid
<1>2. d \in DOMAIN jobs' /\ Replaced(row, new) /\ RowInv(row)
  BY <1>1 DEF RowByRow, IInv
<1>3. row.attempt \in Int /\ row \in Job
  BY <1>2 DEF RowInv, Job
<1> HIDE DEF row, new, a
<1>4. /\ new.attempt >= row.attempt
      /\ new.status = "running" /\ new.attempt = row.attempt =>
           row.status = "running" /\ new.errors = row.errors
  <2>1. CASE new = row
    BY <1>3, <2>1
  <2>2. ASSUME NEW lease, new = AfterClaim(row, lease)
        PROVE  \/ new.status = "failed" /\ new.attempt = row.attempt
               \/ new.attempt = row.attempt + 1
    BY <1>3, <2>2 DEF AfterClaim, Job
  <2>3. ASSUME NEW p, NEW lease, row.status = "running",
               \/ new = AfterRenew(row, lease, p)
               \/ new = AfterCheckpoint(row, p)
               \/ new = AfterComplete(row, p)
               \/ new = AfterFail(row, row.attempt, p)
        PROVE  /\ new.attempt = row.attempt
               /\ new.status = "running" => new.errors = row.errors
    <3>1. CASE new = AfterRenew(row, lease, p) \/ new = AfterCheckpoint(row, p)
      BY <1>3, <3>1 DEF AfterRenew, AfterCheckpoint, Job
    <3>2. CASE new = AfterComplete(row, p)
      BY <1>3, <3>2 DEF AfterComplete, Job
    <3>3. CASE new = AfterFail(row, row.attempt, p)
      BY <1>3, <3>3 DEF AfterFail, Job
    <3> QED  BY <2>3, <3>1, <3>2, <3>3
  <2> QED  BY <1>2, <1>3, <2>1, <2>2, <2>3 DEF Replaced
<1>5. new.attempt \in Int
  BY <1>2, RowReplacedInv DEF RowInv, Job
<1>6. /\ d \in DOMAIN jobs' /\ new.attempt >= a
      /\ new.status = "running" /\ new.attempt = a => new.errors = txn[s].errors
  BY <1>1, <1>2, <1>3, <1>4, <1>5
<1> QED  BY <1>6 DEF ErrorsCurrent, new, a

LEMMA UndisturbedSession ==
  ASSUME IInv, RowByRow, NEW s \in Sessions, txn'[s] = txn[s], SessionInv(s),
         \A d \in Holds(s) : /\ d \in DOMAIN jobs' <=> d \in DOMAIN jobs
                             /\ d \in DOMAIN jobs => jobs'[d] = jobs[d]
  PROVE  SessionInv(s)'
<1>1. CreateInv(s)'
  BY DEF SessionInv, CreateInv, Op, Written, Holds
<1>2. ClaimInv(s)'
  BY DEF SessionInv, ClaimInv, Op, Written, Holds, Claimable
<1>3. WorkInv(s)'
  <2> SUFFICES ASSUME Op(s) \in WorkerOps
               PROVE  WorkInv(s)'
    BY DEF WorkInv, Op
  <2>1. CallIsValid(s) /\ txn[s].locked = {}
    BY DEF SessionInv, WorkInv
  <2>2. PICK d \in Destinations :
          /\ ErrorsCurrent(s, d)
          /\ \/ txn[s].todo = {d} /\ Written(s) = {}
             \/ /\ txn[s].todo = {} /\ Written(s) = {d}
                /\ HoldsLease(d, txn[s].call.attempt, txn[s].call.now)
                /\ txn[s].writes[d] = Updated(jobs[d], txn[s].call, jobs[d].errors)
    BY DEF SessionInv, WorkInv
  <2>3. CallIsValid(s)'
    BY <2>1 DEF CallIsValid, Op
  <2>4. ErrorsCurrent(s, d)'
    BY <2>1, <2>2, ErrorsStayCurrent
  <2>5. Written(s) = {d} /\ d \in DOMAIN jobs => jobs'[d] = jobs[d] /\ d \in DOMAIN jobs'
    BY DEF Holds, Written
  <2> QED  BY <2>1, <2>2, <2>3, <2>4, <2>5 DEF WorkInv, Written, Op, HoldsLease
<1> QED  BY <1>1, <1>2, <1>3 DEF SessionInv, Op
-----------------------------------------------------------------------------
\* Steps that change a transaction and not the table.

\* Such a step keeps the invariant if the transaction stays valid, and holds no
\* row that another one holds.
LEMMA SessionStep ==
  ASSUME PgInv, UNCHANGED jobs, NEW s \in Sessions, NEW new,
         txn' = [txn EXCEPT ![s] = new],
         new = Transaction(new.call, new.todo, new.locked, new.writes, new.errors),
         SessionInv(s)', \A t \in Sessions \ {s} : Holds(s)' \cap Holds(t) = {}
  PROVE  PgInv'
<1>1. /\ txn'[s] = new
      /\ \A t \in Sessions \ {s} : txn'[t] = txn[t]
      /\ txn' = [t \in Sessions |-> txn'[t]]
  BY DEF PgInv, TxnIsFunction
<1>2. TableInv' /\ IInv /\ RowByRow
  BY DEF PgInv, TableInv, IInv, RowByRow, Replaced
<1>3. TxnIsFunction'
  BY <1>1 DEF PgInv, TxnIsFunction
<1>4. HoldersDisjoint'
  <2>1. \A t \in Sessions \ {s} : Holds(t)' = Holds(t)
    BY <1>1 DEF Holds
  <2> QED  BY <2>1 DEF PgInv, HoldersDisjoint
<1>5. ASSUME NEW t \in Sessions \ {s}
      PROVE  SessionInv(t)'
  BY <1>1, <1>2, UndisturbedSession DEF PgInv
<1> QED  BY <1>2, <1>3, <1>4, <1>5 DEF PgInv

LEMMA RollbackKeepsInv ==
  ASSUME PgInv, NEW s \in Sessions, Rollback(s)
  PROVE  PgInv'
<1>1. txn'[s] = Idle /\ txn' = [txn EXCEPT ![s] = Idle] /\ UNCHANGED jobs
  BY DEF Rollback, PgInv, TxnIsFunction
<1>2. SessionInv(s)' /\ Holds(s)' = {}
  BY <1>1 DEF Idle, NoCall, NoWrites, Transaction, SessionInv, CreateInv, ClaimInv, WorkInv,
              WorkerOps, Op, Holds
<1>3. Idle = Transaction(Idle.call, Idle.todo, Idle.locked, Idle.writes, Idle.errors)
  BY DEF Idle, Transaction
<1> QED  BY <1>1, <1>2, <1>3, SessionStep

\* What a transaction that opens is.
LEMMA Opened ==
  ASSUME PgInv, NEW s \in Sessions, NEW call, NEW todo, NEW locked, NEW errors,
         Open(s, call, todo, locked, errors)
  PROVE  LET new == Transaction(call, todo, locked, NoWrites, errors)
         IN  /\ txn' = [txn EXCEPT ![s] = new] /\ txn'[s] = new
             /\ new = Transaction(new.call, new.todo, new.locked, new.writes, new.errors)
             /\ new.call = call /\ new.todo = todo /\ new.locked = locked
             /\ DOMAIN new.writes = {} /\ new.errors = errors
             /\ Holds(s)' = locked /\ UNCHANGED jobs
BY DEF Open, PgInv, TxnIsFunction, Transaction, NoWrites, Holds

LEMMA BeginCreateKeepsInv ==
  ASSUME PgInv, NEW s \in Sessions, NEW d \in Destinations, NEW now \in Timestamps,
         BeginCreate(s, d, now)
  PROVE  PgInv'
<1> DEFINE call == [op |-> "create", now |-> now]
           todo == {d}
           new  == Transaction(call, todo, {}, NoWrites, <<>>)
<1>1. call.op = "create" /\ call.now = now
  OBVIOUS
<1>2. Open(s, call, todo, {}, <<>>)
  BY DEF BeginCreate
<1> HIDE DEF call, todo
<1>3. /\ txn' = [txn EXCEPT ![s] = new] /\ txn'[s] = new
      /\ new = Transaction(new.call, new.todo, new.locked, new.writes, new.errors)
      /\ new.call = call /\ new.todo = todo /\ new.locked = {}
      /\ DOMAIN new.writes = {} /\ Holds(s)' = {} /\ UNCHANGED jobs
  BY <1>2, Opened
<1> HIDE DEF new
<1>4. SessionInv(s)'
  BY <1>1, <1>3 DEF todo, SessionInv, CreateInv, ClaimInv, WorkInv, WorkerOps, Op, Written
<1> QED  BY <1>3, <1>4, SessionStep

\* The rows a SELECT locks are claimable, few, and nobody else's.
LEMMA SelectedRows ==
  ASSUME TableInv, NEW now, NEW limit \in Nat
  PROVE  LET batch == SelectUnlocked(now, limit)
         IN  /\ batch \subseteq Claimable(now)
             /\ Cardinality(batch) <= limit
             /\ \A s \in Sessions : Holds(s) \cap batch = {}
<1> DEFINE unlocked == {d \in Claimable(now) : ~Locked(d)}
<1>1. unlocked \in SUBSET DOMAIN jobs
  BY DEF Claimable
<1> QED  BY <1>1, OldestOfSetAreFew DEF SelectUnlocked, TableInv, Locked

LEMMA BeginClaimKeepsInv ==
  ASSUME PgInv, NEW s \in Sessions, NEW limit \in ClaimLimits, NEW now \in Timestamps,
         NEW duration \in LeaseDurations, BeginClaim(s, now, limit, duration)
  PROVE  PgInv'
<1> DEFINE call  == [op |-> "claim", now |-> now, lease |-> now + duration]
           batch == SelectUnlocked(now, limit)
           new   == Transaction(call, batch, batch, NoWrites, <<>>)
<1>1. call.op = "claim" /\ call.now = now /\ call.lease = now + duration
  OBVIOUS
<1>2. Open(s, call, batch, batch, <<>>) /\ CanLease(now, duration)
  BY DEF BeginClaim, RowsLocked
<1>3. /\ batch \subseteq Claimable(now) /\ Cardinality(batch) <= limit
      /\ \A t \in Sessions : Holds(t) \cap batch = {}
  BY CallArguments, SelectedRows DEF PgInv
<1> HIDE DEF call, batch
<1>4. /\ txn' = [txn EXCEPT ![s] = new] /\ txn'[s] = new
      /\ new = Transaction(new.call, new.todo, new.locked, new.writes, new.errors)
      /\ new.call = call /\ new.todo = batch /\ new.locked = batch
      /\ DOMAIN new.writes = {} /\ Holds(s)' = batch /\ UNCHANGED jobs
  BY <1>2, Opened
<1> HIDE DEF new
<1>5. Claimable(now)' = Claimable(now)
  BY <1>4 DEF Claimable
<1>6. ClaimInv(s)'
  BY <1>1, <1>2, <1>3, <1>4, <1>5 DEF ClaimInv, Op, Written
<1>7. SessionInv(s)'
  BY <1>1, <1>4, <1>6 DEF SessionInv, CreateInv, WorkInv, WorkerOps, Op, Written
<1> QED  BY <1>3, <1>4, <1>7, SessionStep

LEMMA BeginWorkerCallKeepsInv ==
  ASSUME PgInv, NEW s \in Sessions, NEW op \in WorkerOps, NEW d \in Destinations,
         NEW a \in 0..MaxAttempts, NEW now \in Timestamps, NEW duration \in LeaseDurations,
         NEW p \in Reports, BeginWorkerCall(s, op, d, a, now, duration, p)
  PROVE  PgInv'
<1> DEFINE lease  == IF op = "renew" THEN now + duration ELSE NoLease
           errors == IF op = "fail" THEN jobs[d].errors ELSE <<>>
           call   == [op |-> op, attempt |-> a, now |-> now, lease |-> lease, progress |-> p]
           todo   == {d}
           new    == Transaction(call, todo, {}, NoWrites, errors)
<1>1. /\ call.op = op /\ call.attempt = a /\ call.now = now
      /\ call.lease = lease /\ call.progress = p
  OBVIOUS
<1>2. Open(s, call, todo, {}, errors) /\ (op = "renew" => CanLease(now, duration))
  BY DEF BeginWorkerCall
<1>3. /\ WithinTotal(p) /\ d \in DOMAIN jobs
      /\ jobs[d].attempt = a /\ (op = "fail" => errors = jobs[d].errors)
  BY DEF BeginWorkerCall, Accepts, HoldsLease
<1>4. op = "renew" => lease = now + duration
  OBVIOUS
<1> HIDE DEF call, lease, errors, todo
<1>5. /\ txn' = [txn EXCEPT ![s] = new] /\ txn'[s] = new
      /\ new = Transaction(new.call, new.todo, new.locked, new.writes, new.errors)
      /\ new.call = call /\ new.todo = todo /\ new.locked = {}
      /\ DOMAIN new.writes = {} /\ new.errors = errors /\ Holds(s)' = {} /\ UNCHANGED jobs
  BY <1>2, Opened
<1> HIDE DEF new
<1>6. CallIsValid(s)'
  BY <1>1, <1>2, <1>3, <1>4, <1>5 DEF CallIsValid, Op
<1>7. ErrorsCurrent(s, d)'
  BY <1>1, <1>3, <1>5 DEF ErrorsCurrent, Op
<1>8. WorkInv(s)'
  BY <1>5, <1>6, <1>7 DEF todo, WorkInv, Op, Written
<1>9. SessionInv(s)'
  BY <1>1, <1>5, <1>8 DEF SessionInv, CreateInv, ClaimInv, WorkerOps, Op
<1> QED  BY <1>5, <1>9, SessionStep

LEMMA TransactionUpdated ==
  ASSUME NEW old, NEW less, NEW more,
         old = Transaction(old.call, old.todo, old.locked, old.writes, old.errors)
  PROVE  [old EXCEPT !.todo = less, !.writes = more]
           = Transaction(old.call, less, old.locked, more, old.errors)
<1> DEFINE new == [old EXCEPT !.todo = less, !.writes = more]
<1>1. old \in [call : {old.call}, todo : {old.todo}, locked : {old.locked},
               writes : {old.writes}, errors : {old.errors}]
  BY DEF Transaction
<1>2. new \in [call : {old.call}, todo : {less}, locked : {old.locked}, writes : {more},
               errors : {old.errors}]
  BY <1>1
<1> HIDE DEF new
<1>3. new = [call |-> old.call, todo |-> less, locked |-> old.locked, writes |-> more,
             errors |-> old.errors]
  BY <1>2
<1> QED  BY <1>3 DEF new, Transaction

\* What a transaction that writes a row becomes.
LEMMA RowWritten ==
  ASSUME PgInv, NEW s \in Sessions, NEW d, NEW row, Write(s, d, row)
  PROVE  \E new :
           /\ txn' = [txn EXCEPT ![s] = new] /\ txn'[s] = new
           /\ new = Transaction(new.call, new.todo, new.locked, new.writes, new.errors)
           /\ new.call = txn[s].call /\ new.locked = txn[s].locked
           /\ new.errors = txn[s].errors /\ new.todo = txn[s].todo \ {d}
           /\ DOMAIN new.writes = Written(s) \cup {d} /\ new.writes[d] = row
           /\ \A e \in Written(s) \ {d} : new.writes[e] = txn[s].writes[e]
           /\ Holds(s)' = Holds(s) \cup {d}
           /\ \A t \in Sessions \ {s} : d \notin Holds(t)
           /\ UNCHANGED jobs
<1> DEFINE old    == txn[s]
           todo   == old.todo \ {d}
           writes == [e \in Written(s) \cup {d} |-> IF e = d THEN row ELSE old.writes[e]]
           new    == Transaction(old.call, todo, old.locked, writes, old.errors)
<1>1. old = Transaction(old.call, old.todo, old.locked, old.writes, old.errors)
  BY DEF PgInv, TxnIsFunction
<1>2. [old EXCEPT !.todo = todo, !.writes = writes] = new
  <2> HIDE DEF todo, writes, old
  <2> QED  BY <1>1, TransactionUpdated DEF new
<1>3. txn' = [txn EXCEPT ![s].todo = todo, ![s].writes = writes]
  BY DEF Write, Written
<1>4. txn' = [txn EXCEPT ![s] = [old EXCEPT !.todo = todo, !.writes = writes]]
  <2> HIDE DEF todo, writes
  <2> QED  BY <1>3
<1>5. /\ DOMAIN writes = Written(s) \cup {d} /\ writes[d] = row
      /\ \A e \in Written(s) \ {d} : writes[e] = old.writes[e]
  OBVIOUS
<1>6. \A t \in Sessions \ {s} : d \notin Holds(t)
  BY DEF Write, LockedFrom
<1> HIDE DEF todo, writes
<1>7. /\ new = Transaction(new.call, new.todo, new.locked, new.writes, new.errors)
      /\ new.call = old.call /\ new.todo = todo /\ new.locked = old.locked
      /\ new.writes = writes /\ new.errors = old.errors
  BY DEF Transaction
<1> HIDE DEF new
<1>8. txn' = [txn EXCEPT ![s] = new] /\ txn'[s] = new
  BY <1>2, <1>4 DEF PgInv, TxnIsFunction
<1>9. Holds(s)' = Holds(s) \cup {d}
  BY <1>5, <1>7, <1>8 DEF Holds, Written
<1> QED  BY <1>5, <1>6, <1>7, <1>8, <1>9 DEF todo, Write

LEMMA StatementKeepsInv ==
  ASSUME PgInv, NEW s \in Sessions, Statement(s)
  PROVE  PgInv'
<1>0. SessionInv(s)
  BY DEF PgInv
<1>1. ASSUME NEW d, NEW row, Write(s, d, row), SessionInv(s)'
      PROVE  PgInv'
  BY <1>1, RowWritten, SessionStep DEF PgInv, HoldersDisjoint
<1>2. CASE Insert(s)
  <2>1. PICK d \in txn[s].todo : d \notin DOMAIN jobs /\ Write(s, d, NewJob(txn[s].call.now))
    BY <1>2 DEF Insert
  <2>2. Op(s) = "create"
    BY <1>2 DEF Insert, Op
  <2>3. PICK new : /\ txn'[s] = new /\ new.call = txn[s].call /\ new.locked = txn[s].locked
                   /\ new.todo = txn[s].todo \ {d}
                   /\ DOMAIN new.writes = Written(s) \cup {d}
                   /\ new.writes[d] = NewJob(txn[s].call.now) /\ UNCHANGED jobs
    BY <2>1, RowWritten
  <2>4. CreateInv(s)'
    BY <1>0, <2>1, <2>2, <2>3 DEF SessionInv, CreateInv, Op, Written
  <2>5. SessionInv(s)'
    BY <2>2, <2>3, <2>4 DEF SessionInv, ClaimInv, WorkInv, WorkerOps, Op
  <2> QED  BY <1>1, <2>1, <2>5
<1>3. CASE ClaimRow(s)
  <2>1. PICK d \in txn[s].todo : Write(s, d, AfterClaim(jobs[d], txn[s].call.lease))
    BY <1>3 DEF ClaimRow
  <2>2. Op(s) = "claim"
    BY <1>3 DEF ClaimRow, Op
  <2>3. PICK new : /\ txn'[s] = new /\ new.call = txn[s].call /\ new.locked = txn[s].locked
                   /\ new.todo = txn[s].todo \ {d}
                   /\ DOMAIN new.writes = Written(s) \cup {d}
                   /\ new.writes[d] = AfterClaim(jobs[d], txn[s].call.lease)
                   /\ \A e \in Written(s) \ {d} : new.writes[e] = txn[s].writes[e]
                   /\ UNCHANGED jobs
    BY <2>1, RowWritten
  <2>4. Claimable(txn[s].call.now)' = Claimable(txn[s].call.now)
    BY <2>3 DEF Claimable
  <2>5. ClaimInv(s)'
    BY <1>0, <2>1, <2>2, <2>3, <2>4 DEF SessionInv, ClaimInv, Op, Written
  <2>6. SessionInv(s)'
    BY <2>2, <2>3, <2>5 DEF SessionInv, CreateInv, WorkInv, WorkerOps, Op
  <2> QED  BY <1>1, <2>1, <2>6
<1>4. CASE UpdateRow(s)
  <2> DEFINE call == txn[s].call
  <2>1. PICK d \in txn[s].todo :
          /\ HoldsLease(d, call.attempt, call.now)
          /\ Write(s, d, Updated(jobs[d], call, txn[s].errors))
    BY <1>4 DEF UpdateRow, StillHeld
  <2>2. Op(s) \in WorkerOps
    BY <1>4 DEF UpdateRow, Op
  <2>3. /\ CallIsValid(s) /\ txn[s].locked = {} /\ txn[s].todo = {d} /\ Written(s) = {}
        /\ ErrorsCurrent(s, d) /\ d \in Destinations
    BY <1>0, <2>1, <2>2 DEF SessionInv, WorkInv
  <2>4. Updated(jobs[d], call, txn[s].errors) = Updated(jobs[d], call, jobs[d].errors)
    <3>1. call.op = "fail" => txn[s].errors = jobs[d].errors
      BY <2>1, <2>3 DEF ErrorsCurrent, HoldsLease, Op
    <3>2. call.op # "fail" =>
            Updated(jobs[d], call, txn[s].errors) = Updated(jobs[d], call, jobs[d].errors)
      BY <2>2 DEF Updated, WorkerOps, Op
    <3> QED  BY <3>1, <3>2
  <2>5. PICK new : /\ txn'[s] = new /\ new.call = txn[s].call /\ new.locked = txn[s].locked
                   /\ new.errors = txn[s].errors /\ new.todo = txn[s].todo \ {d}
                   /\ DOMAIN new.writes = Written(s) \cup {d}
                   /\ new.writes[d] = Updated(jobs[d], call, txn[s].errors)
                   /\ UNCHANGED jobs
    BY <2>1, RowWritten
  <2> HIDE DEF call
  <2>6. CallIsValid(s)' /\ ErrorsCurrent(s, d)'
    BY <2>3, <2>5 DEF CallIsValid, ErrorsCurrent, Op
  <2>7. HoldsLease(d, txn[s].call.attempt, txn[s].call.now)'
    BY <2>1, <2>5 DEF HoldsLease, call
  <2>8. WorkInv(s)'
    BY <2>1, <2>2, <2>3, <2>4, <2>5, <2>6, <2>7 DEF WorkInv, Op, Written, HoldsLease, call
  <2>9. SessionInv(s)'
    BY <2>2, <2>5, <2>8 DEF SessionInv, CreateInv, ClaimInv, WorkerOps, Op
  <2> QED  BY <1>1, <2>1, <2>9
<1> QED  BY <1>2, <1>3, <1>4 DEF Statement

-----------------------------------------------------------------------------
\* COMMIT releases what the transaction held, and nobody else held it.
LEMMA CommitKeepsInv ==
  ASSUME PgInv, NEW s \in Sessions, Commit(s)
  PROVE  PgInv'
<1>1. /\ txn'[s] = Idle /\ txn' = [t \in Sessions |-> txn'[t]]
      /\ \A t \in Sessions \ {s} : txn'[t] = txn[t]
  BY DEF Commit, PgInv, TxnIsFunction
<1>2. /\ UnorderedNext /\ IsFiniteSet(DOMAIN jobs')
      /\ \A d \in DOMAIN jobs \ Written(s) : jobs'[d] = jobs[d]
      /\ DOMAIN jobs' = DOMAIN jobs \cup Written(s)
  BY CommitIsOperation
<1>3. RowByRow /\ TableInv' /\ IInv
  BY <1>2, StepRowByRow, StepIInv DEF PgInv, TableInv
<1>4. SessionInv(s)' /\ Holds(s)' = {}
  BY <1>1 DEF Idle, NoCall, NoWrites, Transaction, SessionInv, CreateInv, ClaimInv, WorkInv,
              WorkerOps, Op, Holds
<1>5. TxnIsFunction'
  <2>1. Idle = Transaction(Idle.call, Idle.todo, Idle.locked, Idle.writes, Idle.errors)
    BY DEF Idle, Transaction
  <2> QED  BY <1>1, <2>1 DEF PgInv, TxnIsFunction
<1>6. HoldersDisjoint'
  <2>1. \A t \in Sessions \ {s} : Holds(t)' = Holds(t)
    BY <1>1 DEF Holds
  <2> QED  BY <1>4, <2>1 DEF PgInv, HoldersDisjoint
<1>7. ASSUME NEW t \in Sessions \ {s}
      PROVE  SessionInv(t)'
  <2>1. Holds(t) \cap Written(s) = {}
    BY DEF PgInv, HoldersDisjoint, Holds, Written
  <2>2. \A d \in Holds(t) :
          /\ d \in DOMAIN jobs' <=> d \in DOMAIN jobs
          /\ d \in DOMAIN jobs => jobs'[d] = jobs[d]
    BY <1>2, <2>1
  <2> QED  BY <1>1, <1>3, <2>2, UndisturbedSession DEF PgInv
<1> QED  BY <1>3, <1>4, <1>5, <1>6, <1>7 DEF PgInv
LEMMA PgInvKept == PgInv /\ [PgNext]_pgvars => PgInv'
<1> SUFFICES ASSUME PgInv, [PgNext]_pgvars
             PROVE  PgInv'
  OBVIOUS
<1>1. CASE UNCHANGED pgvars
  BY <1>1 DEF pgvars, PgInv, TableInv, IInv, TxnIsFunction, HoldersDisjoint, Holds,
              SessionInv, CreateInv, ClaimInv, WorkInv, CallIsValid, ErrorsCurrent,
              Claimable, HoldsLease, Op, Written
<1>2. ASSUME NEW s \in Sessions, Begin(s)
      PROVE  PgInv'
  BY <1>2, BeginCreateKeepsInv, BeginClaimKeepsInv, BeginWorkerCallKeepsInv DEF Begin
<1> QED
  BY <1>1, <1>2, StatementKeepsInv, CommitKeepsInv, RollbackKeepsInv DEF PgNext

\* The inductive invariant holds of all transactions.
THEOREM PgInvariance == PgSpec => []PgInv
BY PgInvHolds, PgInvKept, PTL DEF PgSpec

LEMMA LeaseIsSet ==
  ASSUME NEW now \in Timestamps, NEW duration \in LeaseDurations
  PROVE  now + duration \in Int \cup {NoLease} /\ now + duration # NoLease
<1>1. now + duration \in Int
  BY ClockReadings, CallArguments
<1> QED  BY <1>1, NoLeaseIsNull

\* Every transaction is well formed, and no row has two holders.
THEOREM PgTypeCorrect == PgSpec => []PgTypeOK
<1>1. PgInv => PgTypeOK
  <2> SUFFICES ASSUME PgInv
               PROVE  PgTypeOK
    OBVIOUS
  <2>1. TypeOK
    BY DEF PgInv, TableInv, IInv, RowInv, TypeOK
  <2>2. ASSUME NEW s \in Sessions
        PROVE  /\ txn[s].call.op \in {"none", "create", "claim"} \cup WorkerOps
               /\ txn[s].todo \cup Holds(s) \subseteq Destinations
               /\ \A d \in Written(s) : txn[s].writes[d] \in Job
    <3>0. SessionInv(s) /\ IInv
      BY DEF PgInv, TableInv
    <3>1. CASE Op(s) = "none"
      BY <3>0, <3>1 DEF SessionInv, Idle, NoCall, NoWrites, Transaction, Holds, Written
    <3>2. CASE Op(s) = "create"
      <4>1. RowInv(NewJob(txn[s].call.now))
        BY <3>0, <3>2, RowNew DEF SessionInv, CreateInv
      <4> QED
        BY <3>0, <3>2, <4>1 DEF SessionInv, CreateInv, Holds, Written, Op, RowInv
    <3>3. CASE Op(s) = "claim"
      <4>1. /\ txn[s].locked \subseteq Claimable(txn[s].call.now)
            /\ txn[s].locked = txn[s].todo \cup Written(s)
            /\ \A d \in Written(s) : txn[s].writes[d] = AfterClaim(jobs[d], txn[s].call.lease)
        BY <3>0, <3>3 DEF SessionInv, ClaimInv
      <4>2. txn[s].call.lease \in Int \cup {NoLease} /\ txn[s].call.lease # NoLease
        BY <3>0, <3>3, LeaseIsSet DEF SessionInv, ClaimInv
      <4>3. \A d \in Claimable(txn[s].call.now) :
              /\ d \in Destinations /\ RowInv(jobs[d])
              /\ IsClaimable(jobs[d], txn[s].call.now)
        BY <3>0 DEF Claimable, IInv
      <4>4. \A d \in Written(s) : RowInv(txn[s].writes[d])
        BY <4>1, <4>2, <4>3, RowClaimed
      <4> QED  BY <3>3, <4>1, <4>3, <4>4 DEF Holds, Written, Op, RowInv
    <3>4. CASE Op(s) \in WorkerOps
      <4>1. CallIsValid(s) /\ txn[s].locked = {}
        BY <3>0, <3>4 DEF SessionInv, WorkInv
      <4>2. PICK d \in Destinations :
              \/ txn[s].todo = {d} /\ Written(s) = {}
              \/ /\ txn[s].todo = {} /\ Written(s) = {d}
                 /\ HoldsLease(d, txn[s].call.attempt, txn[s].call.now)
                 /\ txn[s].writes[d] = Updated(jobs[d], txn[s].call, jobs[d].errors)
        BY <3>0, <3>4 DEF SessionInv, WorkInv
      <4>3. ASSUME Written(s) = {d}
            PROVE  txn[s].writes[d] \in Job
        <5> DEFINE call == txn[s].call
                   row  == jobs[d]
        <5>1. /\ row.status = "running" /\ row.attempt = call.attempt /\ RowInv(row)
              /\ row \in Job
              /\ txn[s].writes[d] = Updated(row, call, row.errors)
          BY <3>0, <4>2, <4>3 DEF HoldsLease, IInv, RowInv
        <5>2. /\ call.progress \in JobProgress /\ WithinTotal(call.progress)
              /\ call.op \in WorkerOps
              /\ call.op = "renew" =>
                   call.lease \in Int \cup {NoLease} /\ call.lease # NoLease
          BY <3>4, <4>1, CallArguments, LeaseIsSet DEF CallIsValid, Op
        <5> HIDE DEF call, row
        <5>3. 0 \in Int \cup {NoLease} /\ 0 # NoLease
          BY NoLeaseIsNull
        <5>4. /\ AfterCheckpoint(row, call.progress) \in Job
              /\ AfterComplete(row, call.progress) \in Job
              /\ AfterFail(row, call.attempt, call.progress) \in Job
          BY <5>1, <5>2, <5>3, RowUpdated DEF RowInv
        <5>5. call.op = "renew" => AfterRenew(row, call.lease, call.progress) \in Job
          BY <5>1, <5>2, RowUpdated DEF RowInv
        <5> QED  BY <5>1, <5>2, <5>4, <5>5, WorkerRow DEF WorkerOps
      <4> QED  BY <3>4, <4>1, <4>2, <4>3 DEF Holds, Written, Op
    <3> QED  BY <3>0, <3>1, <3>2, <3>3, <3>4 DEF SessionInv
  <2> QED  BY <2>1, <2>2 DEF PgTypeOK, PgInv, HoldersDisjoint, Written
<1> QED  BY <1>1, PgInvariance, PTL

\* No update is lost: what a transaction is about to commit applies to the table as
\* it is.
THEOREM NoLostUpdate == PgSpec => []WritesApply
<1>1. PgInv => WritesApply
  <2> SUFFICES ASSUME PgInv, NEW s \in Sessions, NEW d \in Written(s)
               PROVE  LET call == txn[s].call
                          new  == txn[s].writes[d]
                      IN  \/ call.op = "create" /\ d \notin DOMAIN jobs
                          \/ /\ call.op = "claim"
                             /\ IsClaimable(jobs[d], call.now)
                             /\ new = AfterClaim(jobs[d], call.lease)
                          \/ /\ call.op \in WorkerOps
                             /\ HoldsLease(d, call.attempt, call.now)
                             /\ new = Updated(jobs[d], call, jobs[d].errors)
    BY DEF WritesApply, Written
  <2>0. SessionInv(s)
    BY DEF PgInv
  <2>1. Op(s) # "none"
    BY <2>0 DEF SessionInv, Idle, NoWrites, Transaction, Written
  <2>2. CASE Op(s) = "create"
    BY <2>0, <2>2 DEF SessionInv, CreateInv, Op
  <2>3. CASE Op(s) = "claim"
    BY <2>0, <2>3 DEF SessionInv, ClaimInv, Op, Claimable
  <2>4. CASE Op(s) \in WorkerOps
    BY <2>0, <2>4 DEF SessionInv, WorkInv, Op
  <2> QED  BY <2>0, <2>1, <2>2, <2>3, <2>4 DEF SessionInv
<1> QED  BY <1>1, PgInvariance, PTL

\* Transactions never wait for one another while they hold a row.
THEOREM NoDeadlock == PgSpec => []NoHoldAndWait
<1>1. PgInv => NoHoldAndWait
  <2> SUFFICES ASSUME PgInv, NEW s \in Sessions, Waits(s)
               PROVE  Holds(s) = {}
    BY DEF NoHoldAndWait
  <2>0. SessionInv(s)
    BY DEF PgInv
  <2>1. PICK d \in txn[s].todo : LockedFrom(s, d)
    BY DEF Waits
  <2>2. d \notin Holds(s)
    BY <2>1 DEF LockedFrom, PgInv, HoldersDisjoint
  <2>3. CASE Op(s) = "none"
    BY <2>0, <2>1, <2>3 DEF SessionInv, Idle, Transaction
  <2>4. CASE Op(s) = "create"
    BY <2>0, <2>1, <2>4 DEF SessionInv, CreateInv, Holds, Written
  <2>5. CASE Op(s) = "claim"
    BY <2>0, <2>1, <2>2, <2>5 DEF SessionInv, ClaimInv, Holds
  <2>6. CASE Op(s) \in WorkerOps
    BY <2>0, <2>1, <2>6 DEF SessionInv, WorkInv, Holds, Written
  <2> QED  BY <2>0, <2>3, <2>4, <2>5, <2>6 DEF SessionInv
<1> QED  BY <1>1, PgInvariance, PTL

\* Statement by statement, the PostgreSQL store is the atomic store, whose claims
\* take any claimable rows.
THEOREM PgRefinesStore == PgSpec => ImplementsStore
<1>1. PgInit => Init
  BY DEF PgInit
<1>2. PgInv /\ [PgNext]_pgvars => [UnorderedNext]_jobs
  <2>1. ASSUME NEW s \in Sessions, Begin(s) \/ Statement(s) \/ Rollback(s)
        PROVE  UNCHANGED jobs
    BY <2>1 DEF Begin, BeginCreate, BeginClaim, BeginWorkerCall, Open, Statement, Insert,
                ClaimRow, UpdateRow, Write, Rollback
  <2> QED  BY <2>1, CommitIsOperation DEF PgNext, pgvars
<1> QED  BY <1>1, <1>2, PgInvariance, PTL DEF PgSpec, ImplementsStore, UnorderedSpec

\* Any number of interleaved PostgreSQL transactions keep what the atomic store
\* promises of its table: histories, schema, final states and the lifecycle.
THEOREM PgKeepsPromises ==
  PgSpec => /\ []HistoryCoversAttempts /\ []NeverStranded /\ []SchemaChecksHold
            /\ TerminalIsFinal /\ HistoryOnlyGrows /\ ImplementsLifecycle
<1>1. PgSpec => UnorderedSpec
  BY PgRefinesStore DEF ImplementsStore
<1> QED  BY <1>1, PromisesOfUnordered

=============================================================================
