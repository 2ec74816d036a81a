-------------------------- MODULE Reconciler_proofs --------------------------
(***************************************************************************)
(* Proofs about reconciler processes that share a job store, for any       *)
(* number of processes, workers and jobs and any clocks.                   *)
(*                                                                         *)
(* Every step either leaves the table alone, is an operation of the store, *)
(* for which JobStore_proofs has the lemmas, or takes a unit off the       *)
(* leases: JobsKept says what all of them leave of a row.  On the side of  *)
(* the tasks a step ends those of a process, replaces one, starts those of *)
(* a claim, or lets all grow older; each kind has a lemma.                 *)
(*                                                                         *)
(* The last part is about what the datasets hold.  Commits are not fenced  *)
(* by the store: that they end up right rests on two conditions, that      *)
(* timers are served in time, and that no two URIs name one dataset.       *)
(***************************************************************************)
EXTENDS Publication, JobStore_proofs

TaskType == [d : Destinations, a : 1..MaxAttempts, state : TaskStates, age : Nat]

\* What a task's answer says of the table.
Acknowledged(t) ==
  /\ t.state = "succeeded" =>
       jobs[t.d].status = "succeeded" /\ jobs[t.d].attempt = t.a
  /\ t.state = "gave_back" =>
       /\ t.a <= Len(jobs[t.d].errors)
       /\ jobs[t.d].errors[t.a].reason = "conversion_error"

Known(t) == t.d \in DOMAIN jobs /\ t.a <= jobs[t.d].attempt

TableInv == IInv /\ IsFiniteSet(DOMAIN jobs)

TasksTyped ==
  /\ up \subseteq Processes
  /\ faults \in 0..MaxFaults
  /\ tasks \in [Processes -> SUBSET TaskType]
  /\ \A p \in Processes \ up : tasks[p] = {}

TasksRecorded == \A p \in Processes : \A t \in tasks[p] : Known(t) /\ Acknowledged(t)

TasksDistinct ==
  \A p, q \in Processes : \A t \in tasks[p], u \in tasks[q] :
    t.d = u.d /\ t.a = u.a => p = q /\ t = u

PoolsSmall ==
  \A p \in Processes : IsFiniteSet(tasks[p]) /\ Cardinality(tasks[p]) <= WorkerCount

TasksInv == TasksTyped /\ TasksRecorded /\ TasksDistinct /\ PoolsSmall

\* The inductive invariant.
RInv == TableInv /\ TasksInv

LEMMA RInvHolds == RInit => RInv
<1> SUFFICES ASSUME RInit
             PROVE  RInv
  OBVIOUS
<1>1. TableInv
  BY InitIInv, FS_EmptySet DEF RInit, Init, TableInv
<1>2. TasksInv
  BY FS_EmptySet, WorkerCountPositive, FaultsBounded
     DEF RInit, TasksInv, TasksTyped, TasksRecorded, TasksDistinct, PoolsSmall
<1> QED  BY <1>1, <1>2 DEF RInv

-----------------------------------------------------------------------------
\* The table.

\* What every step leaves of a row: its attempts and errors, and its success.
JobsKept ==
  /\ DOMAIN jobs \subseteq DOMAIN jobs'
  /\ \A d \in DOMAIN jobs :
       /\ jobs'[d].attempt >= jobs[d].attempt
       /\ Len(jobs'[d].errors) >= Len(jobs[d].errors)
       /\ \A i \in 1..Len(jobs[d].errors) : jobs'[d].errors[i] = jobs[d].errors[i]
       /\ jobs[d].status = "succeeded" =>
            jobs'[d].status = "succeeded" /\ jobs'[d].attempt = jobs[d].attempt

\* What every step does to a job: it moves it as the lifecycle allows, or not at all,
\* and leaves it alone once it is finished.
JobsMove ==
  /\ [Lifecycle!Next]_(Lifecycle!vars)
  /\ \A d \in DOMAIN jobs :
       jobs[d].status \in {"succeeded", "failed"} => jobs'[d] = jobs[d]

TableStep == TableInv' /\ JobsKept /\ JobsMove

\* Steps that go row by row.
LEMMA RowByRowIsStep ==
  ASSUME TableInv, RowByRow, IsFiniteSet(DOMAIN jobs')
  PROVE  TableStep
<1>1. IInv'
  BY StepIInv DEF TableInv
<1>2. ASSUME NEW d \in DOMAIN jobs
      PROVE  /\ jobs'[d].attempt >= jobs[d].attempt
             /\ Len(jobs'[d].errors) >= Len(jobs[d].errors)
             /\ \A i \in 1..Len(jobs[d].errors) : jobs'[d].errors[i] = jobs[d].errors[i]
  BY RowKeepsHistory DEF TableInv, IInv, RowByRow
<1>3. ASSUME NEW d \in DOMAIN jobs, jobs[d].status = "succeeded"
      PROVE  jobs'[d] = jobs[d]
  BY <1>3, TerminalRowKept DEF RowByRow
<1>4. JobsMove
  BY <1>1, StepMoves, FinishedRowsKept DEF JobsMove, TableInv
<1> QED
  BY <1>1, <1>2, <1>3, <1>4 DEF TableStep, TableInv, JobsKept, RowByRow

LEMMA NothingIsStep ==
  ASSUME TableInv, UNCHANGED jobs
  PROVE  TableStep
<1>1. RowByRow
  BY DEF RowByRow, Replaced, IInv, TableInv
<1> QED  BY <1>1, RowByRowIsStep DEF TableInv

LEMMA SubmitIsStep ==
  ASSUME TableInv, NEW d \in Destinations, Submit(d)
  PROVE  TableStep
<1>1. RowByRow
  BY CreateRowByRow, ClocksAreReadings DEF Submit, Create, TableInv
<1>2. DOMAIN jobs' = DOMAIN jobs \cup {d}
  BY DEF Submit, CreateJob
<1>3. IsFiniteSet(DOMAIN jobs')
  BY <1>2, FS_AddElement DEF TableInv
<1> QED  BY <1>1, <1>3, RowByRowIsStep

LEMMA ClaimIsStep ==
  ASSUME TableInv, NEW p \in Processes, ClaimForPool(p)
  PROVE  TableStep
<1> DEFINE batch == OldestClaimable(Clock[p], Available(p))
<1>1. /\ batch \in SUBSET Claimable(Clock[p])
      /\ Clock[p] \in Timestamps
      /\ ClaimBatch(batch, Clock[p], LeaseDuration)
  BY ClocksAreReadings DEF ClaimForPool, ClaimJobs, OldestClaimable
<1> HIDE DEF batch
<1>2. RowByRow
  BY <1>1, BatchRowByRow, LeaseIsGranted DEF TableInv
<1>3. DOMAIN jobs' = DOMAIN jobs
  BY <1>1 DEF ClaimBatch
<1> QED  BY <1>2, <1>3, RowByRowIsStep DEF TableInv

\* The calls of a task.
Called(p, t) ==
  \E r \in Reports :
    \/ RenewLease(t.d, t.a, Clock[p], LeaseDuration, r)
    \/ CheckpointProgress(t.d, t.a, Clock[p], r)
    \/ CompleteJob(t.d, t.a, Clock[p], r)
    \/ FailJob(t.d, t.a, Clock[p], r)

LEMMA CallIsStep ==
  ASSUME TableInv, NEW p \in Processes, NEW t \in TaskType, Called(p, t)
  PROVE  TableStep
<1>1. t.d \in Destinations /\ t.a \in 0..MaxAttempts /\ Clock[p] \in Timestamps
  BY ClocksAreReadings, MaxAttemptsPositive DEF TaskType
<1>2. WorkerCall
  BY <1>1, LeaseIsGranted DEF Called, WorkerCall
<1>3. RowByRow
  BY <1>2, WorkerCallRowByRow DEF TableInv
<1>4. DOMAIN jobs' = DOMAIN jobs
  BY DEF Called, RenewLease, CheckpointProgress, CompleteJob, FailJob, Update
<1> QED  BY <1>3, <1>4, RowByRowIsStep DEF TableInv

\* A unit less of a lease changes nothing else of a row.
Ticked(row) == [row EXCEPT !.lease = IF @ \in {NoLease, 0} THEN @ ELSE @ - 1]

LEMMA RowTicks ==
  ASSUME NEW row, RowInv(row)
  PROVE  /\ RowInv(Ticked(row))
         /\ Ticked(row).status = row.status
         /\ Ticked(row).attempt = row.attempt
         /\ Ticked(row).errors = row.errors
         /\ Ticked(row).lease = IF row.lease \in {NoLease, 0} THEN row.lease ELSE row.lease - 1
<1> DEFINE lease == IF row.lease \in {NoLease, 0} THEN row.lease ELSE row.lease - 1
           new   == [row EXCEPT !.lease = lease]
<1>1. row \in Job
  BY DEF RowInv
<1>2. lease \in Int \cup {NoLease} /\ (lease = NoLease <=> row.lease = NoLease)
  BY <1>1, NoLeaseIsNull DEF Job
<1> HIDE DEF lease
<1>3. /\ new \in Job
      /\ new.status = row.status /\ new.attempt = row.attempt
      /\ new.errors = row.errors /\ new.progress = row.progress
      /\ new.lease = lease
  BY <1>1, <1>2 DEF Job
<1>4. RowInv(new)
  <2> HIDE DEF new
  <2> QED  BY <1>2, <1>3 DEF RowInv, HistoryComplete, SchemaChecked
<1>5. Ticked(row) = new
  BY DEF Ticked, lease
<1> HIDE DEF new
<1> QED  BY <1>3, <1>4, <1>5 DEF lease

LEMMA TickIsStep ==
  ASSUME TableInv, Tick
  PROVE  TableStep
<1>1. /\ DOMAIN jobs' = DOMAIN jobs
      /\ jobs' = [d \in DOMAIN jobs' |-> jobs'[d]]
      /\ \A d \in DOMAIN jobs : jobs'[d] = Ticked(jobs[d])
  BY DEF Tick, Ticked
<1>2. ASSUME NEW d \in DOMAIN jobs
      PROVE  /\ RowInv(jobs'[d])
             /\ jobs'[d].status = jobs[d].status /\ jobs'[d].attempt = jobs[d].attempt
             /\ jobs'[d].errors = jobs[d].errors
  BY <1>1, RowTicks DEF TableInv, IInv
<1>3. IInv' /\ IsFiniteSet(DOMAIN jobs')
  BY <1>1, <1>2 DEF TableInv, IInv
<1>4. \A d \in DOMAIN jobs : jobs[d].attempt \in Int /\ Len(jobs[d].errors) \in Int
  BY DEF TableInv, IInv, RowInv, Job
<1>5. JobsKept
  BY <1>1, <1>2, <1>4 DEF JobsKept
<1>6. UNCHANGED <<Phase, Attempt>>
  BY <1>1, <1>2 DEF Phase, Attempt
<1>7. ASSUME NEW d \in DOMAIN jobs, jobs[d].status \in {"succeeded", "failed"}
      PROVE  jobs'[d] = jobs[d]
  <2>1. jobs[d] \in Job /\ jobs[d].lease = NoLease
    BY <1>7 DEF TableInv, IInv, RowInv, SchemaChecked
  <2> QED  BY <1>1, <2>1 DEF Ticked, Job
<1>8. JobsMove
  BY <1>6, <1>7 DEF JobsMove, Lifecycle!vars
<1> QED  BY <1>3, <1>5, <1>8 DEF TableStep, TableInv

-----------------------------------------------------------------------------
\* The tasks.

\* What was known and answered stays true.
LEMMA RecordKept ==
  ASSUME TableInv, TableStep, NEW t \in TaskType, Known(t), Acknowledged(t)
  PROVE  Known(t)' /\ Acknowledged(t)'
<1>1. /\ t.d \in DOMAIN jobs /\ t.d \in DOMAIN jobs' /\ t.a \in Int /\ t.a >= 1
      /\ jobs[t.d].attempt \in Int /\ jobs'[t.d].attempt \in Int
      /\ Len(jobs[t.d].errors) \in Int /\ Len(jobs'[t.d].errors) \in Int
  BY MaxAttemptsPositive
     DEF Known, TaskType, TableStep, JobsKept, TableInv, IInv, RowInv, Job
<1>2. Known(t)'
  BY <1>1 DEF Known, TableStep, JobsKept
<1>3. t.state = "succeeded" => jobs'[t.d].status = "succeeded" /\ jobs'[t.d].attempt = t.a
  BY <1>1 DEF Acknowledged, TableStep, JobsKept
<1>4. ASSUME t.state = "gave_back"
      PROVE  /\ t.a <= Len(jobs'[t.d].errors)
             /\ jobs'[t.d].errors[t.a].reason = "conversion_error"
  <2>1. t.a \in 1..Len(jobs[t.d].errors)
    BY <1>1, <1>4 DEF Acknowledged
  <2> QED  BY <1>1, <1>4, <2>1 DEF Acknowledged, TableStep, JobsKept
<1> QED  BY <1>2, <1>3, <1>4 DEF Acknowledged

\* The tasks do not change, or those of a process that ends are dropped.
LEMMA KeepingTasks ==
  ASSUME RInv, TableStep, faults' \in 0..MaxFaults,
         \/ up' \subseteq Processes /\ up \subseteq up' /\ tasks' = tasks
         \/ \E p \in Processes : Stop(p)
  PROVE  RInv'
<1>1. TasksTyped'
  BY DEF RInv, TasksInv, TasksTyped, Stop
<1>2. \A p \in Processes : tasks'[p] \subseteq tasks[p]
  BY DEF RInv, TasksInv, TasksTyped, Stop
<1>3. TasksRecorded'
  BY <1>2, RecordKept DEF RInv, TasksInv, TasksTyped, TasksRecorded
<1>4. TasksDistinct'
  BY <1>2 DEF RInv, TasksInv, TasksDistinct
<1>5. ASSUME NEW p \in Processes
      PROVE  IsFiniteSet(tasks'[p]) /\ Cardinality(tasks'[p]) <= WorkerCount
  <2>1. tasks'[p] = tasks[p] \/ tasks'[p] = {}
    BY DEF RInv, TasksInv, TasksTyped, Stop
  <2> QED  BY <2>1, FS_EmptySet, WorkerCountPositive DEF RInv, TasksInv, PoolsSmall
<1> QED  BY <1>1, <1>3, <1>4, <1>5 DEF RInv, TasksInv, TableStep, PoolsSmall

\* One task goes on.
LEMMA BecomingAnother ==
  ASSUME RInv, TableStep, faults' \in 0..MaxFaults, UNCHANGED up,
         NEW p \in Processes, NEW t \in tasks[p], NEW state \in TaskStates, NEW age \in Nat,
         Become(p, t, state, age), Acknowledged(Task(t.d, t.a, state, age))'
  PROVE  RInv'
<1> DEFINE new == Task(t.d, t.a, state, age)
<1>0. /\ t \in TaskType /\ tasks \in [Processes -> SUBSET TaskType]
      /\ \A q \in Processes : \A u \in tasks[q] : u \in TaskType
  BY DEF RInv, TasksInv, TasksTyped
<1>1. new \in TaskType /\ new.d = t.d /\ new.a = t.a
  BY <1>0 DEF TaskType, Task
<1>2. /\ tasks' \in [Processes -> SUBSET TaskType]
      /\ tasks'[p] = (tasks[p] \ {t}) \cup {new}
      /\ \A q \in Processes : q # p => tasks'[q] = tasks[q]
  <2> HIDE DEF new
  <2>1. tasks' = [tasks EXCEPT ![p] = (tasks[p] \ {t}) \cup {new}]
    BY DEF Become, new
  <2> QED  BY <1>0, <1>1, <2>1
<1>3. Acknowledged(new)' /\ Known(new)'
  <2>1. Known(t)'
    BY <1>0, RecordKept DEF RInv, TasksInv, TasksRecorded
  <2> QED  BY <1>1, <2>1 DEF Known
<1> HIDE DEF new
<1>4. TasksTyped'
  BY <1>0, <1>2 DEF RInv, TasksInv, TasksTyped
<1>5. TasksRecorded'
  BY <1>0, <1>2, <1>3, RecordKept DEF RInv, TasksInv, TasksRecorded
<1>6. TasksDistinct'
  <2>1. ASSUME NEW q \in Processes, NEW u \in tasks'[q], u # new \/ q # p
        PROVE  u \in tasks[q] /\ ~(u.d = new.d /\ u.a = new.a)
    BY <1>1, <1>2, <2>1 DEF RInv, TasksInv, TasksDistinct
  <2>2. ASSUME NEW q \in Processes, NEW r \in Processes,
               NEW u \in tasks'[q], NEW w \in tasks'[r], u.d = w.d /\ u.a = w.a
        PROVE  q = r /\ u = w
    <3>1. CASE u = new /\ q = p
      BY <2>1, <2>2, <3>1
    <3>2. CASE w = new /\ r = p
      BY <2>1, <2>2, <3>2
    <3>3. CASE (u # new \/ q # p) /\ (w # new \/ r # p)
      BY <2>1, <2>2, <3>3 DEF RInv, TasksInv, TasksDistinct
    <3> QED  BY <3>1, <3>2, <3>3
  <2> QED  BY <2>2 DEF TasksDistinct
<1>7. ASSUME NEW q \in Processes
      PROVE  IsFiniteSet(tasks'[q]) /\ Cardinality(tasks'[q]) <= WorkerCount
  <2>1. /\ IsFiniteSet(tasks[q]) /\ Cardinality(tasks[q]) <= WorkerCount
        /\ Cardinality(tasks[q]) \in Nat
    BY FS_CardinalityType DEF RInv, TasksInv, PoolsSmall
  <2>2. CASE q = p
    <3>1. /\ IsFiniteSet(tasks[p] \ {t})
          /\ Cardinality(tasks[p] \ {t}) = Cardinality(tasks[p]) - 1
      BY <2>1, <2>2, FS_RemoveElement
    <3>2. /\ IsFiniteSet((tasks[p] \ {t}) \cup {new})
          /\ Cardinality((tasks[p] \ {t}) \cup {new}) \in
               {Cardinality(tasks[p] \ {t}), Cardinality(tasks[p] \ {t}) + 1}
      BY <3>1, FS_AddElement
    <3> QED  BY <1>2, <2>1, <2>2, <3>1, <3>2, WorkerCountPositive
  <2> QED  BY <1>2, <2>1, <2>2
<1> QED  BY <1>4, <1>5, <1>6, <1>7 DEF RInv, TasksInv, TableStep, PoolsSmall

-----------------------------------------------------------------------------
\* The tasks of a claim.

\* A job handed out starts an attempt that no task has.
LEMMA HandedOutIsNew ==
  ASSUME TableInv, NEW p \in Processes, ClaimForPool(p),
         NEW d \in HandedOut(OldestClaimable(Clock[p], Available(p)))
  PROVE  /\ d \in DOMAIN jobs
         /\ jobs'[d].attempt = jobs[d].attempt + 1
         /\ jobs'[d].status = "running"
         /\ jobs'[d].lease = Clock[p] + LeaseDuration
<1> DEFINE batch == OldestClaimable(Clock[p], Available(p))
<1>1. d \in batch /\ d \in DOMAIN jobs /\ ~OnFinalAttempt(jobs[d])
  BY DEF HandedOut, OldestClaimable, Claimable
<1>2. jobs' = [e \in DOMAIN jobs |->
                 IF e \in batch THEN AfterClaim(jobs[e], Clock[p] + LeaseDuration) ELSE jobs[e]]
  BY DEF ClaimForPool, ClaimJobs, ClaimBatch
<1> HIDE DEF batch
<1>3. jobs'[d] = AfterClaim(jobs[d], Clock[p] + LeaseDuration)
  BY <1>1, <1>2
<1>4. jobs[d] \in Job
  BY <1>1 DEF TableInv, IInv, RowInv
<1> QED  BY <1>1, <1>3, <1>4 DEF AfterClaim, Job

\* A claim hands out no more jobs than the pool has free places.
LEMMA SpawnedFit ==
  ASSUME RInv, NEW p \in Processes, Available(p) > 0
  PROVE  /\ IsFiniteSet(Unfinished(p) \cup Spawned(p))
         /\ Cardinality(Unfinished(p) \cup Spawned(p)) <= WorkerCount
<1> DEFINE batch   == OldestClaimable(Clock[p], Available(p))
           out     == HandedOut(batch)
           spawned == {Task(d, jobs'[d].attempt, "converting", 0) : d \in out}
           spawn   == [d \in out |-> Task(d, jobs'[d].attempt, "converting", 0)]
<1>1. /\ IsFiniteSet(Unfinished(p))
      /\ Cardinality(Unfinished(p)) \in Nat
      /\ Cardinality(Unfinished(p)) <= WorkerCount
  <2>1. Unfinished(p) \in SUBSET tasks[p] /\ IsFiniteSet(tasks[p])
    BY DEF Unfinished, RInv, TasksInv, PoolsSmall
  <2>2. IsFiniteSet(Unfinished(p)) /\ Cardinality(Unfinished(p)) <= Cardinality(tasks[p])
    BY <2>1, FS_Subset
  <2>3. Cardinality(tasks[p]) \in Nat /\ Cardinality(tasks[p]) <= WorkerCount
    BY <2>1, FS_CardinalityType DEF RInv, TasksInv, PoolsSmall
  <2>4. Cardinality(Unfinished(p)) \in Nat
    BY <2>2, FS_CardinalityType
  <2> QED  BY <2>2, <2>3, <2>4, WorkerCountPositive
<1>2. Available(p) \in Nat /\ Available(p) = WorkerCount - Cardinality(Unfinished(p))
  BY <1>1, WorkerCountPositive DEF Available
<1>3. IsFiniteSet(batch) /\ Cardinality(batch) <= Available(p) /\ Cardinality(batch) \in Nat
  <2>1. Cardinality(batch) <= Available(p)
    BY <1>2, OldestAreFew DEF RInv, TableInv
  <2>2. batch \in SUBSET DOMAIN jobs
    BY DEF OldestClaimable, Claimable
  <2> HIDE DEF batch
  <2>3. IsFiniteSet(batch)
    BY <2>2, FS_Subset DEF RInv, TableInv
  <2> QED  BY <2>1, <2>3, FS_CardinalityType
<1>4. IsFiniteSet(out) /\ Cardinality(out) <= Cardinality(batch) /\ Cardinality(out) \in Nat
  <2>1. out \in SUBSET batch
    BY DEF HandedOut
  <2> HIDE DEF out, batch
  <2> QED  BY <1>3, <2>1, FS_Subset, FS_CardinalityType
<1>5. spawn \in Surjection(out, spawned)
  <2> HIDE DEF out
  <2>1. spawn \in [out -> spawned]
    OBVIOUS
  <2>2. \A t \in spawned : \E d \in out : spawn[d] = t
    OBVIOUS
  <2> QED  BY <2>1, <2>2 DEF Surjection
<1>6. Spawned(p) = spawned
  BY DEF Spawned
<1> HIDE DEF spawned, spawn, out, batch
<1>7. IsFiniteSet(spawned) /\ Cardinality(spawned) <= Cardinality(out)
  BY <1>4, <1>5, FS_Surjection
<1>8. Cardinality(spawned) \in Nat
  BY <1>7, FS_CardinalityType
<1>9. Unfinished(p) \cap spawned \in SUBSET spawned
  OBVIOUS
<1>10. Cardinality(Unfinished(p) \cap spawned) \in Nat
  BY <1>7, <1>9, FS_Subset, FS_CardinalityType
<1>11. /\ IsFiniteSet(Unfinished(p) \cup spawned)
       /\ Cardinality(Unfinished(p) \cup spawned)
            = Cardinality(Unfinished(p)) + Cardinality(spawned)
              - Cardinality(Unfinished(p) \cap spawned)
  BY <1>1, <1>7, FS_Union
<1>12. Cardinality(Unfinished(p) \cup spawned) <= WorkerCount
  BY <1>1, <1>2, <1>3, <1>4, <1>7, <1>8, <1>10, <1>11, WorkerCountPositive
<1> QED  BY <1>6, <1>11, <1>12

LEMMA PollKeepsInv ==
  ASSUME RInv, NEW p \in Processes, Poll(p)
  PROVE  RInv'
<1> DEFINE spawned == IF Available(p) > 0 THEN Spawned(p) ELSE {}
<1>0. /\ tasks \in [Processes -> SUBSET TaskType]
      /\ TableInv
      /\ p \in up /\ up' = up /\ faults' = faults
  BY DEF RInv, TasksInv, TasksTyped, Poll
<1>1. TableStep
  <2>1. CASE Available(p) > 0
    BY <1>0, <2>1, ClaimIsStep DEF Poll
  <2>2. CASE ~(Available(p) > 0)
    BY <1>0, <2>2, NothingIsStep DEF Poll
  <2> QED  BY <2>1, <2>2
<1>2. ASSUME NEW t \in spawned
      PROVE  /\ t \in TaskType /\ t.state = "converting"
             /\ t.d \in DOMAIN jobs /\ t.d \in DOMAIN jobs'
             /\ t.a = jobs'[t.d].attempt /\ t.a = jobs[t.d].attempt + 1
             /\ t = Task(t.d, t.a, "converting", 0)
  <2>1. Available(p) > 0 /\ t \in Spawned(p) /\ ClaimForPool(p)
    BY <1>2 DEF Poll
  <2>2. PICK d \in HandedOut(OldestClaimable(Clock[p], Available(p))) :
          t = Task(d, jobs'[d].attempt, "converting", 0)
    BY <2>1 DEF Spawned
  <2>3. d \in DOMAIN jobs /\ jobs'[d].attempt = jobs[d].attempt + 1
    BY <1>0, <2>1, HandedOutIsNew
  <2>4. /\ d \in Destinations /\ d \in DOMAIN jobs'
        /\ jobs[d].attempt \in Nat /\ jobs'[d].attempt \in 0..MaxAttempts
    BY <1>0, <1>1, <2>3, MaxAttemptsPositive
       DEF TableStep, JobsKept, TableInv, IInv, RowInv, Job
  <2>5. jobs'[d].attempt \in 1..MaxAttempts
    BY <2>3, <2>4, MaxAttemptsPositive
  <2> QED  BY <2>2, <2>3, <2>4, <2>5 DEF Task, TaskType, TaskStates
<1>3. /\ tasks' = [tasks EXCEPT ![p] = Unfinished(p) \cup spawned]
      /\ Unfinished(p) \subseteq tasks[p]
  BY DEF Poll, Unfinished
<1> HIDE DEF spawned
<1>4. /\ tasks' \in [Processes -> SUBSET TaskType]
      /\ \A t \in tasks'[p] : t \in tasks[p] \/ t \in spawned
      /\ \A q \in Processes : q # p => tasks'[q] = tasks[q]
  BY <1>0, <1>2, <1>3
<1>5. TasksTyped'
  BY <1>0, <1>4 DEF RInv, TasksInv, TasksTyped
<1>6. TasksRecorded'
  <2>1. ASSUME NEW q \in Processes, NEW t \in tasks[q]
        PROVE  Known(t)' /\ Acknowledged(t)'
    BY <1>0, <1>1, RecordKept DEF RInv, TasksInv, TasksRecorded
  <2>2. ASSUME NEW t \in spawned
        PROVE  Known(t)' /\ Acknowledged(t)'
    <3>1. jobs'[t.d].attempt \in Int
      BY <1>1, <1>2 DEF TableStep, TableInv, IInv, RowInv, Job
    <3> QED  BY <1>2, <3>1 DEF Known, Acknowledged
  <2> QED  BY <1>4, <2>1, <2>2 DEF TasksRecorded
<1>7. TasksDistinct'
  <2>1. ASSUME NEW t \in spawned, NEW q \in Processes, NEW u \in tasks[q], u.d = t.d
        PROVE  u.a # t.a
    <3>1. u.a <= jobs[t.d].attempt /\ u.a \in Int
      BY <1>0, <2>1 DEF RInv, TasksInv, TasksRecorded, Known, TaskType
    <3>2. jobs[t.d].attempt \in Int
      BY <1>0, <1>2 DEF TableInv, IInv, RowInv, Job
    <3> QED  BY <1>2, <3>1, <3>2
  <2>2. ASSUME NEW q \in Processes, NEW r \in Processes,
               NEW u \in tasks'[q], NEW w \in tasks'[r], u.d = w.d /\ u.a = w.a
        PROVE  q = r /\ u = w
    <3>1. CASE u \in tasks[q] /\ w \in tasks[r]
      BY <2>2, <3>1 DEF RInv, TasksInv, TasksDistinct
    <3>2. CASE u \in spawned /\ w \in spawned /\ q = p /\ r = p
      BY <1>2, <2>2, <3>2
    <3>3. CASE u \in spawned /\ w \in tasks[r]
      BY <2>1, <2>2, <3>3
    <3>4. CASE u \in tasks[q] /\ w \in spawned
      BY <2>1, <2>2, <3>4
    <3> QED  BY <1>4, <3>1, <3>2, <3>3, <3>4
  <2> QED  BY <2>2 DEF TasksDistinct
<1>8. ASSUME NEW q \in Processes
      PROVE  IsFiniteSet(tasks'[q]) /\ Cardinality(tasks'[q]) <= WorkerCount
  <2>1. CASE q # p
    BY <1>4, <2>1 DEF RInv, TasksInv, PoolsSmall
  <2>2. CASE q = p /\ Available(p) > 0
    BY <1>0, <1>3, <2>2, SpawnedFit DEF spawned
  <2>3. CASE q = p /\ ~(Available(p) > 0)
    <3>1. tasks'[q] = Unfinished(p) /\ Unfinished(p) \in SUBSET tasks[p]
      BY <1>0, <1>3, <2>3 DEF spawned
    <3>2. IsFiniteSet(tasks[p]) /\ Cardinality(tasks[p]) <= WorkerCount
      BY DEF RInv, TasksInv, PoolsSmall
    <3>3. /\ IsFiniteSet(Unfinished(p))
          /\ Cardinality(Unfinished(p)) <= Cardinality(tasks[p])
      BY <3>1, <3>2, FS_Subset
    <3>4. Cardinality(Unfinished(p)) \in Nat /\ Cardinality(tasks[p]) \in Nat
      BY <3>2, <3>3, FS_CardinalityType
    <3> QED  BY <2>3, <3>1, <3>2, <3>3, <3>4, WorkerCountPositive
  <2> QED  BY <2>1, <2>2, <2>3
<1> QED  BY <1>1, <1>5, <1>6, <1>7, <1>8 DEF RInv, TasksInv, TableStep, PoolsSmall

\* Growing older moves every task to a task of the same attempt.
LEMMA AgedTask ==
  ASSUME NEW t \in TaskType
  PROVE  /\ Aged(t) \in TaskType
         /\ Aged(t).d = t.d /\ Aged(t).a = t.a /\ Aged(t).state = t.state
         /\ Aged(t).age = IF Timely /\ IsActive(t) THEN t.age + 1 ELSE t.age
<1> DEFINE age == IF Timely /\ IsActive(t) THEN t.age + 1 ELSE t.age
<1>1. age \in Nat /\ Aged(t) = [t EXCEPT !.age = age]
  BY DEF TaskType, Aged
<1> HIDE DEF age
<1>2. /\ Aged(t) \in TaskType
      /\ Aged(t).d = t.d /\ Aged(t).a = t.a /\ Aged(t).state = t.state
      /\ Aged(t).age = age
  BY <1>1 DEF TaskType
<1> QED  BY <1>2 DEF age

LEMMA TickKeepsInv ==
  ASSUME RInv, Tick
  PROVE  RInv'
<1>0. /\ tasks \in [Processes -> SUBSET TaskType] /\ TableInv
      /\ up' = up /\ faults' = faults
      /\ tasks' = [p \in Processes |-> {Aged(t) : t \in tasks[p]}]
  BY DEF RInv, TasksInv, TasksTyped, Tick
<1>1. TableStep
  BY <1>0, TickIsStep
<1>2. ASSUME NEW p \in Processes, NEW u \in tasks'[p]
      PROVE  \E t \in tasks[p] : /\ u = Aged(t) /\ t \in TaskType /\ u \in TaskType
                                 /\ u.d = t.d /\ u.a = t.a /\ u.state = t.state
  <2>1. PICK t \in tasks[p] : u = Aged(t)
    BY <1>0, <1>2
  <2> QED  BY <1>0, <2>1, AgedTask
<1>3. TasksTyped'
  <2>1. tasks' \in [Processes -> SUBSET TaskType]
    BY <1>0, <1>2
  <2> QED  BY <1>0, <2>1 DEF RInv, TasksInv, TasksTyped
<1>4. TasksRecorded'
  <2> SUFFICES ASSUME NEW p \in Processes, NEW u \in tasks'[p]
               PROVE  Known(u)' /\ Acknowledged(u)'
    BY DEF TasksRecorded
  <2>1. PICK t \in tasks[p] : /\ t \in TaskType
                              /\ u.d = t.d /\ u.a = t.a /\ u.state = t.state
    BY <1>2
  <2>2. Known(t)' /\ Acknowledged(t)'
    BY <1>0, <1>1, <2>1, RecordKept DEF RInv, TasksInv, TasksRecorded
  <2> QED  BY <2>1, <2>2 DEF Known, Acknowledged
<1>5. TasksDistinct'
  <2> SUFFICES ASSUME NEW p \in Processes, NEW q \in Processes,
                      NEW u \in tasks'[p], NEW w \in tasks'[q], u.d = w.d /\ u.a = w.a
               PROVE  p = q /\ u = w
    BY DEF TasksDistinct
  <2>1. PICK t \in tasks[p] : u = Aged(t) /\ u.d = t.d /\ u.a = t.a
    BY <1>2
  <2>2. PICK v \in tasks[q] : w = Aged(v) /\ w.d = v.d /\ w.a = v.a
    BY <1>2
  <2> QED  BY <2>1, <2>2 DEF RInv, TasksInv, TasksDistinct
<1>6. ASSUME NEW p \in Processes
      PROVE  IsFiniteSet(tasks'[p]) /\ Cardinality(tasks'[p]) <= WorkerCount
  <2> DEFINE older == {Aged(t) : t \in tasks[p]}
             age   == [t \in tasks[p] |-> Aged(t)]
  <2>1. age \in Surjection(tasks[p], older)
    <3>1. age \in [tasks[p] -> older]
      OBVIOUS
    <3>2. \A u \in older : \E t \in tasks[p] : age[t] = u
      OBVIOUS
    <3> QED  BY <3>1, <3>2 DEF Surjection
  <2>2. tasks'[p] = older
    BY <1>0
  <2> HIDE DEF older, age
  <2>3. IsFiniteSet(tasks[p]) /\ Cardinality(tasks[p]) <= WorkerCount
    BY DEF RInv, TasksInv, PoolsSmall
  <2>4. IsFiniteSet(older) /\ Cardinality(older) <= Cardinality(tasks[p])
    BY <2>1, <2>3, FS_Surjection
  <2>5. Cardinality(older) \in Nat /\ Cardinality(tasks[p]) \in Nat
    BY <2>3, <2>4, FS_CardinalityType
  <2> QED  BY <2>2, <2>3, <2>4, <2>5, WorkerCountPositive
<1> QED  BY <1>1, <1>3, <1>4, <1>5, <1>6 DEF RInv, TasksInv, TableStep, PoolsSmall

-----------------------------------------------------------------------------
\* The steps of a task.

\* A task that goes on without an answer of the store has none to account for.
LEMMA TaskStepKeepsInv ==
  ASSUME RInv, NEW p \in Processes, NEW t \in tasks[p],
         \/ ConversionEnds(p, t) \/ Renew(p, t) \/ Checkpoint(p, t)
         \/ Complete(p, t) \/ Fail(p, t) \/ Refused(p, t) \/ StoreFails(p, t)
  PROVE  RInv'
<1>0. /\ t \in TaskType /\ TableInv /\ faults \in 0..MaxFaults
      /\ t.age \in Nat /\ t.a \in 1..MaxAttempts
  BY DEF RInv, TasksInv, TasksTyped, TaskType
<1>1. ASSUME NEW state \in TaskStates \ {"succeeded", "gave_back"}, NEW age
      PROVE  Acknowledged(Task(t.d, t.a, state, age))'
  BY DEF Acknowledged, Task
<1>2. CASE ConversionEnds(p, t)
  <2>1. PICK state \in {"converted", "errored"} : Become(p, t, state, t.age)
    BY <1>2 DEF ConversionEnds
  <2>2. TableStep
    BY <1>0, <1>2, NothingIsStep DEF ConversionEnds
  <2> QED
    BY <1>0, <1>1, <1>2, <2>1, <2>2, BecomingAnother DEF ConversionEnds, TaskStates
<1>3. CASE Renew(p, t)
  <2>1. TableStep
    BY <1>0, <1>3, CallIsStep DEF Renew, Called
  <2> QED  BY <1>0, <1>1, <1>3, <2>1, BecomingAnother DEF Renew, TaskStates
<1>4. CASE Checkpoint(p, t)
  <2>1. TableStep
    BY <1>0, <1>4, CallIsStep DEF Checkpoint, Called
  <2> QED
    BY <1>0, <1>4, <2>1, KeepingTasks DEF Checkpoint, RInv, TasksInv, TasksTyped
<1>5. CASE Complete(p, t)
  <2>1. PICK r \in Reports : CompleteJob(t.d, t.a, Clock[p], r)
    BY <1>5 DEF Complete
  <2>2. TableStep
    BY <1>0, <2>1, CallIsStep DEF Called
  <2>3. Acknowledged(Task(t.d, t.a, "succeeded", 0))'
    <3>1. t.d \in DOMAIN jobs /\ jobs[t.d] \in Job /\ jobs[t.d].attempt = t.a
      BY <1>0, <2>1 DEF CompleteJob, Accepts, HoldsLease, TableInv, IInv, RowInv
    <3>2. jobs'[t.d] = AfterComplete(jobs[t.d], r)
      BY <1>0, <2>1, <3>1 DEF CompleteJob, Update, TableInv, IInv
    <3>3. jobs'[t.d].status = "succeeded" /\ jobs'[t.d].attempt = t.a
      BY <3>1, <3>2 DEF AfterComplete, Job
    <3> QED  BY <3>3 DEF Acknowledged, Task
  <2> QED  BY <1>0, <1>5, <2>2, <2>3, BecomingAnother DEF Complete, TaskStates
<1>6. CASE Fail(p, t)
  <2>1. PICK r \in Reports : FailJob(t.d, t.a, Clock[p], r)
    BY <1>6 DEF Fail
  <2>2. TableStep
    BY <1>0, <2>1, CallIsStep DEF Called
  <2>3. Acknowledged(Task(t.d, t.a, "gave_back", 0))'
    <3>1. /\ t.d \in DOMAIN jobs /\ jobs[t.d] \in Job
          /\ jobs[t.d].attempt = t.a /\ Len(jobs[t.d].errors) = t.a - 1
      BY <1>0, <2>1
         DEF FailJob, Accepts, HoldsLease, TableInv, IInv, RowInv, HistoryComplete
    <3>2. jobs'[t.d] = AfterFail(jobs[t.d], t.a, r)
      BY <1>0, <2>1, <3>1 DEF FailJob, Update, TableInv, IInv
    <3> DEFINE error == [attempt |-> t.a, reason |-> "conversion_error"]
    <3>3. jobs'[t.d].errors = Append(jobs[t.d].errors, error)
      BY <3>1, <3>2 DEF AfterFail, Job
    <3>4. /\ error \in JobError /\ error.reason = "conversion_error"
          /\ jobs[t.d].errors \in Seq(JobError)
      BY <1>0, <3>1 DEF JobError, Reasons, Job
    <3> HIDE DEF error
    <3>5. Len(jobs'[t.d].errors) = t.a /\ jobs'[t.d].errors[t.a] = error
      BY <1>0, <3>1, <3>3, <3>4, ErrorAppended
    <3> QED  BY <1>0, <3>4, <3>5 DEF Acknowledged, Task
  <2> QED  BY <1>0, <1>6, <2>2, <2>3, BecomingAnother DEF Fail, TaskStates
<1>7. CASE Refused(p, t)
  <2>1. TableStep
    BY <1>0, <1>7, NothingIsStep DEF Refused
  <2> QED  BY <1>0, <1>1, <1>7, <2>1, BecomingAnother DEF Refused, TaskStates
<1>8. CASE StoreFails(p, t)
  <2>1. TableStep
    <3>1. UNCHANGED jobs \/ Called(p, t)
      BY <1>8 DEF StoreFails, Called
    <3> QED  BY <1>0, <3>1, NothingIsStep, CallIsStep
  <2>2. faults' \in 0..MaxFaults
    BY <1>0, <1>8, FaultsBounded DEF StoreFails, Fault
  <2> QED  BY <1>0, <1>1, <1>8, <2>1, <2>2, BecomingAnother DEF StoreFails, TaskStates
<1> QED  BY <1>2, <1>3, <1>4, <1>5, <1>6, <1>7, <1>8

-----------------------------------------------------------------------------
LEMMA RInvKept == RInv /\ [RNext]_rvars => RInv'
<1> SUFFICES ASSUME RInv, [RNext]_rvars
             PROVE  RInv'
  OBVIOUS
<1>0. /\ TableInv /\ up \subseteq Processes /\ faults \in 0..MaxFaults
      /\ tasks \in [Processes -> SUBSET TaskType]
  BY DEF RInv, TasksInv, TasksTyped
<1>1. CASE UNCHANGED rvars
  BY <1>0, <1>1, NothingIsStep, KeepingTasks DEF rvars
<1>2. ASSUME NEW d \in Destinations, Submit(d)
      PROVE  RInv'
  BY <1>0, <1>2, SubmitIsStep, KeepingTasks DEF Submit
<1>3. ASSUME NEW p \in Processes, Exit(p)
      PROVE  RInv'
  BY <1>0, <1>3, NothingIsStep, KeepingTasks DEF Exit
<1>4. ASSUME NEW p \in Processes, Restart(p)
      PROVE  RInv'
  BY <1>0, <1>4, NothingIsStep, KeepingTasks DEF Restart
<1>5. ASSUME NEW p \in Processes, Crash(p)
      PROVE  RInv'
  BY <1>0, <1>5, NothingIsStep, KeepingTasks, FaultsBounded DEF Crash, Fault
<1>6. ASSUME NEW p \in Processes, ClaimAndDie(p)
      PROVE  RInv'
  BY <1>0, <1>6, ClaimIsStep, KeepingTasks, FaultsBounded DEF ClaimAndDie, Fault
<1> QED
  BY <1>1, <1>2, <1>3, <1>4, <1>5, <1>6, PollKeepsInv, TaskStepKeepsInv, TickKeepsInv
  DEF RNext

\* The inductive invariant holds of all reconcilers and their store.
THEOREM RInvariance == RSpec => []RInv
BY RInvHolds, RInvKept, PTL DEF RSpec

\* Type correctness of the processes, their tasks and the table.
THEOREM ReconcilerTypeCorrect == RSpec => []RTypeOK
<1>1. RInv => RTypeOK
  BY DEF RInv, TableInv, IInv, RowInv, TypeOK, TasksInv, TasksTyped, TaskType, RTypeOK
<1> QED  BY <1>1, RInvariance, PTL

LEMMA EveryStep == RInv /\ [RNext]_rvars => TableStep
<1> SUFFICES ASSUME RInv, [RNext]_rvars
             PROVE  TableStep
  OBVIOUS
<1>0. TableInv /\ \A p \in Processes : \A t \in tasks[p] : t \in TaskType
  BY DEF RInv, TasksInv, TasksTyped
<1>1. CASE UNCHANGED jobs
  BY <1>0, <1>1, NothingIsStep
<1>2. CASE \E d \in Destinations : Submit(d)
  BY <1>0, <1>2, SubmitIsStep
<1>3. CASE \E p \in Processes : ClaimForPool(p)
  BY <1>0, <1>3, ClaimIsStep
<1>4. CASE \E p \in Processes : \E t \in tasks[p] : Called(p, t)
  BY <1>0, <1>4, CallIsStep
<1>5. CASE Tick
  BY <1>0, <1>5, TickIsStep
<1> QED
  BY <1>1, <1>2, <1>3, <1>4, <1>5
  DEF RNext, rvars, Poll, Exit, Restart, Crash, ClaimAndDie, ConversionEnds,
      Renew, Checkpoint, Complete, Fail, Refused, StoreFails, Called

\* However processes crash, leases expire and tasks are late, the table they share
\* keeps what the store promises: no job is stranded, finished ones stay as they
\* are, histories grow, and every job lives the life the documentation draws.
THEOREM JobsOutliveReconcilers ==
  RSpec => /\ []HistoryCoversAttempts /\ []NeverStranded /\ []SchemaChecksHold
           /\ TerminalIsFinal /\ HistoryOnlyGrows /\ ImplementsLifecycle
<1>1. RInv => HistoryCoversAttempts /\ NeverStranded /\ SchemaChecksHold
  BY RowsAreRecoverable
     DEF RInv, TableInv, IInv, RowInv, HistoryCoversAttempts, SchemaChecksHold
<1>2. JobsKept /\ JobsMove =>
        /\ \A d \in DOMAIN jobs :
             jobs[d].status \in {"succeeded", "failed"} =>
               d \in DOMAIN jobs' /\ jobs'[d] = jobs[d]
        /\ \A d \in DOMAIN jobs :
             /\ d \in DOMAIN jobs'
             /\ jobs'[d].attempt >= jobs[d].attempt
             /\ Len(jobs'[d].errors) >= Len(jobs[d].errors)
             /\ \A i \in 1..Len(jobs[d].errors) : jobs'[d].errors[i] = jobs[d].errors[i]
        /\ [Lifecycle!Next]_(Lifecycle!vars)
  BY DEF JobsKept, JobsMove
<1>3. RInit => Lifecycle!Init
  BY InitMoves DEF RInit
<1>4. RInv /\ [RNext]_rvars => JobsKept /\ JobsMove
  BY EveryStep DEF TableStep
<1>5. RSpec => TerminalIsFinal /\ HistoryOnlyGrows
  BY <1>2, <1>4, RInvariance, PTL DEF RSpec, TerminalIsFinal, HistoryOnlyGrows
<1>6. RSpec => ImplementsLifecycle
  BY <1>2, <1>3, <1>4, RInvariance, PTL DEF RSpec, ImplementsLifecycle, Lifecycle!Spec
<1>7. RSpec => []HistoryCoversAttempts /\ []NeverStranded /\ []SchemaChecksHold
  BY <1>1, RInvariance, PTL
<1> QED  BY <1>5, <1>6, <1>7

\* No pool holds more tasks than it has workers.
THEOREM PoolsBounded == RSpec => []PoolBounded
<1>1. RInv => PoolBounded
  BY DEF RInv, TasksInv, PoolsSmall, PoolBounded
<1> QED  BY <1>1, RInvariance, PTL

\* No attempt is run by two tasks, whatever clocks, crashes and leases do.
THEOREM AttemptsFence == RSpec => []AttemptsAreFencingTokens
<1>1. RInv => AttemptsAreFencingTokens
  BY DEF RInv, TasksInv, TasksRecorded, TasksDistinct, Known, AttemptsAreFencingTokens
<1> QED  BY <1>1, RInvariance, PTL

\* What a worker was told by the store stays true.
THEOREM AnswersRecorded == RSpec => []AcknowledgedIsRecorded
<1>1. RInv => AcknowledgedIsRecorded
  BY DEF RInv, TasksInv, TasksRecorded, Acknowledged, AcknowledgedIsRecorded
<1> QED  BY <1>1, RInvariance, PTL

-----------------------------------------------------------------------------
(***************************************************************************)
(* Proofs about leases when timers are served in time: a task that         *)
(* converts knows to the tick what is left of its lease, because only its  *)
(* own renewals set it and time takes as much off the lease as it adds to  *)
(* the task's age.  RenewalsFitLease, which a validated configuration      *)
(* grants as long as clocks agree within the margin (Startup_proofs), then *)
(* leaves no reading of any clock at which the lease is over.              *)
(***************************************************************************)


Held(p, t) ==
  /\ t.age <= RenewInterval + MaxDelay
  /\ t.d \in DOMAIN jobs
  /\ jobs[t.d].status = "running"
  /\ jobs[t.d].attempt = t.a
  /\ jobs[t.d].lease = Clock[p] + LeaseDuration - t.age

Leased == \A p \in Processes : \A t \in tasks[p] : IsActive(t) => Held(p, t)

\* A held lease is in the future of every clock, so that its task's calls are
\* accepted and nobody can claim the job.
LEMMA HeldIsSafe ==
  ASSUME Timely, NEW p \in Processes, NEW t \in TaskType, Held(p, t)
  PROVE  /\ HoldsLease(t.d, t.a, Clock[p])
         /\ jobs[t.d].lease \in Int /\ jobs[t.d].lease > 0
         /\ \A q \in Processes : ~IsClaimable(jobs[t.d], Clock[q])
<1>1. /\ LeaseDuration \in Int /\ RenewInterval \in Int /\ MaxDelay \in Int
      /\ \A q \in Processes : Clock[q] \in Nat
      /\ t.age \in Int /\ t.age <= RenewInterval + MaxDelay
  BY LeaseIsGranted, CallArguments, RenewalsFitLease, ClocksAreReadings DEF Held, TaskType
<1>2. ASSUME NEW q \in Processes
      PROVE  jobs[t.d].lease > Clock[q]
  <2>1. RenewInterval + MaxDelay + (Clock[q] - Clock[p]) < LeaseDuration
    BY RenewalsFitLease
  <2> QED  BY <1>1, <2>1 DEF Held
<1>3. jobs[t.d].lease \in Int /\ jobs[t.d].lease # NoLease
  BY <1>1, NoLeaseIsNull DEF Held
<1>4. HoldsLease(t.d, t.a, Clock[p])
  BY <1>2, <1>3 DEF HoldsLease, Held
<1>5. jobs[t.d].lease > 0
  BY <1>1, <1>2, <1>3
<1>6. ASSUME NEW q \in Processes
      PROVE  ~IsClaimable(jobs[t.d], Clock[q])
  <2>1. jobs[t.d].lease > Clock[q] /\ Clock[q] \in Int
    BY <1>1, <1>2
  <2> QED  BY <1>3, <2>1 DEF IsClaimable, Held
<1> QED  BY <1>3, <1>4, <1>5, <1>6

\* A row of the table that stays as it is.
LEMMA HeldIfRowStays ==
  ASSUME NEW p, NEW t, Held(p, t), DOMAIN jobs \subseteq DOMAIN jobs',
         jobs'[t.d] = jobs[t.d]
  PROVE  Held(p, t)'
BY DEF Held

LEMMA HeldThroughClaim ==
  ASSUME RInv, Leased, Timely, NEW q \in Processes, ClaimForPool(q),
         NEW p \in Processes, NEW t \in tasks[p], IsActive(t)
  PROVE  Held(p, t)'
<1> DEFINE batch == OldestClaimable(Clock[q], Available(q))
<1>1. Held(p, t) /\ t \in TaskType /\ t.d \in DOMAIN jobs
  BY DEF Leased, RInv, TasksInv, TasksTyped, Held
<1>2. t.d \notin batch
  <2>1. ~IsClaimable(jobs[t.d], Clock[q])
    BY <1>1, HeldIsSafe
  <2> QED  BY <2>1 DEF OldestClaimable, Claimable
<1>3. jobs' = [d \in DOMAIN jobs |->
                 IF d \in batch THEN AfterClaim(jobs[d], Clock[q] + LeaseDuration) ELSE jobs[d]]
  BY DEF ClaimForPool, ClaimJobs, ClaimBatch
<1> HIDE DEF batch
<1>4. jobs'[t.d] = jobs[t.d] /\ DOMAIN jobs' = DOMAIN jobs
  BY <1>1, <1>2, <1>3
<1> QED  BY <1>1, <1>4, HeldIfRowStays

\* The call of a task does not touch the job of another.
LEMMA HeldThroughCall ==
  ASSUME RInv, Leased, NEW q \in Processes, NEW u \in tasks[q], Called(q, u),
         NEW p \in Processes, NEW t \in tasks[p], IsActive(t), p # q \/ t # u
  PROVE  Held(p, t)'
<1>1. Held(p, t) /\ t.d \in DOMAIN jobs
  BY DEF Leased, Held
<1>2. u.d \in DOMAIN jobs /\ jobs[u.d].attempt = u.a
  BY DEF Called, RenewLease, CheckpointProgress, CompleteJob, FailJob, Accepts, HoldsLease
<1>3. u.d # t.d
  BY <1>1, <1>2 DEF Held, RInv, TasksInv, TasksDistinct
<1>4. DOMAIN jobs' = DOMAIN jobs /\ jobs'[t.d] = jobs[t.d]
  BY <1>1, <1>3
     DEF Called, RenewLease, CheckpointProgress, CompleteJob, FailJob, Update
<1> QED  BY <1>1, <1>4, HeldIfRowStays

\* A task that becomes another holds what it must if it still converts.
LEMMA LeasedIfBecoming ==
  ASSUME RInv, Leased, NEW p \in Processes, NEW t \in tasks[p], NEW state, NEW age,
         Become(p, t, state, age), UNCHANGED jobs \/ Called(p, t),
         IsActive(Task(t.d, t.a, state, age)) => Held(p, Task(t.d, t.a, state, age))'
  PROVE  Leased'
<1> SUFFICES ASSUME NEW q \in Processes, NEW u \in tasks'[q], IsActive(u)
             PROVE  Held(q, u)'
  BY DEF Leased, IsActive
<1>1. tasks \in [Processes -> SUBSET TaskType]
  BY DEF RInv, TasksInv, TasksTyped
<1>2. CASE q = p /\ u = Task(t.d, t.a, state, age)
  BY <1>2
<1>3. CASE ~(q = p /\ u = Task(t.d, t.a, state, age))
  <2> DEFINE new == Task(t.d, t.a, state, age)
  <2>1. tasks' = [tasks EXCEPT ![p] = (tasks[p] \ {t}) \cup {new}]
    BY DEF Become
  <2>2. ~(q = p /\ u = new)
    BY <1>3
  <2> HIDE DEF new
  <2>3. u \in tasks[q] /\ (q # p \/ u # t)
    BY <1>1, <2>1, <2>2
  <2> QED  BY <2>3, HeldThroughCall, HeldIfRowStays DEF Leased
<1> QED  BY <1>2, <1>3

LEMMA PollKeepsLeases ==
  ASSUME RInv, Leased, Timely, NEW p \in Processes, Poll(p)
  PROVE  Leased'
<1> SUFFICES ASSUME NEW q \in Processes, NEW u \in tasks'[q], IsActive(u)
             PROVE  Held(q, u)'
  BY DEF Leased, IsActive
<1>1. tasks \in [Processes -> SUBSET TaskType] /\ TableInv
  BY DEF RInv, TasksInv, TasksTyped
<1>2. u \in tasks[q] \/ (Available(p) > 0 /\ q = p /\ u \in Spawned(p))
  BY <1>1 DEF Poll, Unfinished
<1>3. CASE u \in tasks[q]
  BY <1>3, HeldThroughClaim, HeldIfRowStays DEF Poll, Leased
<1>4. CASE Available(p) > 0 /\ q = p /\ u \in Spawned(p)
  <2>1. ClaimForPool(p)
    BY <1>4 DEF Poll
  <2>2. PICK d \in HandedOut(OldestClaimable(Clock[p], Available(p))) :
          u = Task(d, jobs'[d].attempt, "converting", 0)
    BY <1>4 DEF Spawned
  <2>3. /\ d \in DOMAIN jobs' /\ jobs'[d].status = "running"
        /\ jobs'[d].lease = Clock[p] + LeaseDuration
    BY <1>1, <2>1, HandedOutIsNew DEF ClaimForPool, ClaimJobs, ClaimBatch
  <2>4. LeaseDuration \in Int /\ Clock[p] \in Int /\ 0 <= RenewInterval + MaxDelay
    BY LeaseIsGranted, CallArguments, RenewalsFitLease, ClocksAreReadings
  <2> QED  BY <1>4, <2>2, <2>3, <2>4 DEF Held, Task
<1> QED  BY <1>2, <1>3, <1>4

LEMMA TickKeepsLeases ==
  ASSUME RInv, Leased, Timely, Tick
  PROVE  Leased'
<1> SUFFICES ASSUME NEW p \in Processes, NEW u \in tasks'[p], IsActive(u)
             PROVE  Held(p, u)'
  BY DEF Leased, IsActive
<1>1. PICK t \in tasks[p] : u = Aged(t)
  BY DEF Tick
<1>2. t \in TaskType
  BY DEF RInv, TasksInv, TasksTyped
<1>3. IsActive(t) /\ u.d = t.d /\ u.a = t.a /\ u.age = t.age + 1
  BY <1>1, <1>2, AgedTask DEF IsActive
<1>4. Held(p, t) /\ t.d \in DOMAIN jobs /\ t.age \in Nat
  BY <1>2, <1>3 DEF Leased, Held, TaskType
<1>5. jobs[t.d].lease \in Int /\ jobs[t.d].lease > 0
  BY <1>2, <1>4, HeldIsSafe
<1>6. t.age < RenewInterval + MaxDelay
  BY <1>3 DEF Tick, Unfinished
<1>7. /\ DOMAIN jobs' = DOMAIN jobs /\ jobs'[t.d] = Ticked(jobs[t.d])
      /\ RowInv(jobs[t.d])
  BY <1>4 DEF Tick, Ticked, RInv, TableInv, IInv
<1>8. /\ jobs'[t.d].status = jobs[t.d].status /\ jobs'[t.d].attempt = jobs[t.d].attempt
      /\ jobs'[t.d].lease = jobs[t.d].lease - 1
  <2>1. jobs[t.d].lease \notin {NoLease, 0}
    BY <1>5, NoLeaseIsNull
  <2> QED  BY <1>7, <2>1, RowTicks
<1>9. /\ LeaseDuration \in Int /\ Clock[p] \in Int
      /\ RenewInterval \in Int /\ MaxDelay \in Int
  BY LeaseIsGranted, CallArguments, ClocksAreReadings, RenewalsFitLease
<1>10. u.age <= RenewInterval + MaxDelay
  BY <1>3, <1>4, <1>6, <1>9
<1>11. jobs'[u.d].lease = Clock[p] + LeaseDuration - u.age
  BY <1>3, <1>4, <1>8, <1>9 DEF Held
<1> QED  BY <1>3, <1>4, <1>7, <1>8, <1>10, <1>11 DEF Held

LEMMA TaskStepKeepsLeases ==
  ASSUME RInv, Leased, Timely, NEW p \in Processes, NEW t \in tasks[p],
         \/ ConversionEnds(p, t) \/ Renew(p, t) \/ Checkpoint(p, t)
         \/ Complete(p, t) \/ Fail(p, t) \/ Refused(p, t) \/ StoreFails(p, t)
  PROVE  Leased'
<1>0. t \in TaskType /\ TableInv
  BY DEF RInv, TasksInv, TasksTyped
<1>1. ASSUME NEW state \in TaskStates \ {"converting", "converted", "errored"}, NEW age
      PROVE  ~IsActive(Task(t.d, t.a, state, age))
  BY DEF Task, IsActive
<1>2. CASE ConversionEnds(p, t)
  <2>1. PICK state \in {"converted", "errored"} : Become(p, t, state, t.age)
    BY <1>2 DEF ConversionEnds
  <2>2. Held(p, Task(t.d, t.a, state, t.age))'
    BY <1>2 DEF ConversionEnds, Leased, IsActive, Held, Task
  <2> QED  BY <1>2, <2>1, <2>2, LeasedIfBecoming DEF ConversionEnds
<1>3. CASE Renew(p, t)
  <2>1. PICK r \in Reports : RenewLease(t.d, t.a, Clock[p], LeaseDuration, r)
    BY <1>3 DEF Renew
  <2>2. /\ t.d \in DOMAIN jobs /\ jobs[t.d] \in Job /\ jobs[t.d].attempt = t.a
        /\ jobs[t.d].status = "running"
    BY <2>1 DEF RenewLease, Accepts, HoldsLease, RInv, TableInv, IInv, RowInv
  <2>3. /\ DOMAIN jobs' = DOMAIN jobs
        /\ jobs'[t.d] = AfterRenew(jobs[t.d], Clock[p] + LeaseDuration, r)
    BY <2>1, <2>2 DEF RenewLease, Update, RInv, TableInv, IInv
  <2>4. /\ jobs'[t.d].status = "running" /\ jobs'[t.d].attempt = t.a
        /\ jobs'[t.d].lease = Clock[p] + LeaseDuration
    BY <2>2, <2>3 DEF AfterRenew, Job
  <2>5. LeaseDuration \in Int /\ Clock[p] \in Int /\ 0 <= RenewInterval + MaxDelay
    BY LeaseIsGranted, CallArguments, RenewalsFitLease, ClocksAreReadings
  <2>6. Held(p, Task(t.d, t.a, "converting", 0))'
    BY <2>2, <2>3, <2>4, <2>5 DEF Held, Task
  <2> QED  BY <1>3, <2>1, <2>6, LeasedIfBecoming DEF Renew, Called
<1>4. CASE Checkpoint(p, t)
  <2>1. PICK r \in Reports : CheckpointProgress(t.d, t.a, Clock[p], r)
    BY <1>4 DEF Checkpoint
  <2>2. t.d \in DOMAIN jobs /\ jobs[t.d] \in Job
    BY <2>1 DEF CheckpointProgress, Accepts, HoldsLease, RInv, TableInv, IInv, RowInv
  <2>3. /\ DOMAIN jobs' = DOMAIN jobs
        /\ jobs'[t.d] = AfterCheckpoint(jobs[t.d], r)
    BY <2>1, <2>2 DEF CheckpointProgress, Update, RInv, TableInv, IInv
  <2>4. /\ jobs'[t.d].status = jobs[t.d].status /\ jobs'[t.d].attempt = jobs[t.d].attempt
        /\ jobs'[t.d].lease = jobs[t.d].lease
    BY <2>2, <2>3 DEF AfterCheckpoint, Job
  <2>5. Held(p, t)'
    BY <1>4, <2>2, <2>3, <2>4 DEF Held, Leased, Checkpoint, IsActive
  <2>6. ASSUME NEW q \in Processes, NEW u \in tasks'[q], IsActive(u)
        PROVE  Held(q, u)'
    <3>1. u \in tasks[q] /\ Called(p, t)
      BY <1>4, <2>1 DEF Checkpoint, Called
    <3> QED  BY <2>5, <2>6, <3>1, HeldThroughCall
  <2> QED  BY <2>6 DEF Leased, IsActive
<1>5. CASE Complete(p, t)
  BY <1>1, <1>5, LeasedIfBecoming DEF Complete, Called, TaskStates
<1>6. CASE Fail(p, t)
  BY <1>1, <1>6, LeasedIfBecoming DEF Fail, Called, TaskStates
<1>7. CASE Refused(p, t)
  BY <1>1, <1>7, LeasedIfBecoming DEF Refused, TaskStates
<1>8. CASE StoreFails(p, t)
  <2>1. UNCHANGED jobs \/ Called(p, t)
    BY <1>8 DEF StoreFails, Called
  <2> QED  BY <1>1, <1>8, <2>1, LeasedIfBecoming DEF StoreFails, TaskStates
<1> QED  BY <1>2, <1>3, <1>4, <1>5, <1>6, <1>7, <1>8

\* The tasks of a process that ends hold nothing.
LEMMA StopKeepsLeases ==
  ASSUME RInv, Leased, Timely, NEW p \in Processes, Stop(p),
         UNCHANGED jobs \/ ClaimForPool(p)
  PROVE  Leased'
<1> SUFFICES ASSUME NEW q \in Processes, NEW u \in tasks'[q], IsActive(u)
             PROVE  Held(q, u)'
  BY DEF Leased, IsActive
<1>1. u \in tasks[q]
  BY DEF Stop, RInv, TasksInv, TasksTyped
<1> QED  BY <1>1, HeldThroughClaim, HeldIfRowStays DEF Leased

LEMMA LeasedKept == RInv /\ Leased /\ Timely /\ [RNext]_rvars => Leased'
<1> SUFFICES ASSUME RInv, Leased, Timely, [RNext]_rvars
             PROVE  Leased'
  OBVIOUS
<1>1. ASSUME UNCHANGED <<jobs, tasks>>
      PROVE  Leased'
  BY <1>1 DEF Leased, Held
<1>2. ASSUME NEW d \in Destinations, Submit(d)
      PROVE  Leased'
  <2> SUFFICES ASSUME NEW p \in Processes, NEW t \in tasks[p], IsActive(t)
               PROVE  Held(p, t)'
    BY <1>2 DEF Leased, IsActive, Submit
  <2>1. Held(p, t) /\ t.d \in DOMAIN jobs
    BY DEF Leased, Held
  <2>2. DOMAIN jobs \subseteq DOMAIN jobs' /\ jobs'[t.d] = jobs[t.d]
    BY <1>2, <2>1 DEF Submit, CreateJob
  <2> QED  BY <2>1, <2>2, HeldIfRowStays
<1>3. ASSUME NEW p \in Processes, Exit(p) \/ Crash(p) \/ ClaimAndDie(p)
      PROVE  Leased'
  BY <1>3, StopKeepsLeases DEF Exit, Crash, ClaimAndDie
<1>4. ASSUME NEW p \in Processes, Restart(p)
      PROVE  Leased'
  BY <1>1, <1>4 DEF Restart
<1> QED
  BY <1>1, <1>2, <1>3, <1>4, PollKeepsLeases, TaskStepKeepsLeases, TickKeepsLeases
  DEF RNext, rvars

\* The leases are tracked in every behaviour with timely timers.
THEOREM LeasesTracked == RSpec => [](Timely => Leased)
<1>1. RInit => (Timely => Leased)
  BY DEF RInit, Leased
<1>2. RInv /\ (Timely => Leased) /\ [RNext]_rvars => (Timely => Leased)'
  BY LeasedKept
<1> QED  BY <1>1, <1>2, RInvariance, PTL DEF RSpec

\* A task that converts holds its job, and nobody can reclaim it.
THEOREM LeasesHeld == RSpec => []WorkersHoldLeases
<1>1. RInv /\ (Timely => Leased) => WorkersHoldLeases
  <2> SUFFICES ASSUME RInv, Leased, Timely, NEW p \in Processes, NEW t \in Unfinished(p)
               PROVE  /\ HoldsLease(t.d, t.a, Clock[p])
                      /\ \A q \in Processes : ~IsClaimable(jobs[t.d], Clock[q])
    BY DEF WorkersHoldLeases
  <2>1. Held(p, t) /\ t \in TaskType
    BY DEF Unfinished, Leased, RInv, TasksInv, TasksTyped
  <2> QED  BY <2>1, HeldIsSafe
<1> QED  BY <1>1, LeasesTracked, RInvariance, PTL

-----------------------------------------------------------------------------
\* Refusals.

ReportsAreValid == \A r \in Reports : WithinTotal(r)

LEMMA OnlyFaultsKept ==
  ASSUME ReportsAreValid, RInv, Timely => Leased, OnlyFaultsStopProcesses, [RNext]_rvars
  PROVE  OnlyFaultsStopProcesses'
<1> SUFFICES ASSUME Timely, faults' = 0
             PROVE  \A p \in Processes : p \in up' /\ ~\E t \in tasks'[p] : t.state = "lost"
  BY DEF OnlyFaultsStopProcesses, HasLostTask
<1>0. /\ faults \in Nat /\ Leased
      /\ tasks \in [Processes -> SUBSET TaskType]
  BY FaultsBounded DEF RInv, TasksInv, TasksTyped
<1>1. faults = 0
  BY <1>0 DEF RNext, rvars, Submit, Poll, Exit, Restart, Crash, ClaimAndDie, Fault,
      ConversionEnds, Renew, Checkpoint, Complete, Fail, Refused, StoreFails, Tick
<1>2. \A p \in Processes : p \in up /\ \A t \in tasks[p] : t.state # "lost"
  BY <1>1 DEF OnlyFaultsStopProcesses, HasLostTask
<1>3. ASSUME NEW p \in Processes, NEW t \in tasks[p]
      PROVE  ~Refused(p, t) /\ ~StoreFails(p, t)
  <2>1. ~StoreFails(p, t)
    BY <1>1 DEF StoreFails, Fault
  <2>2. ASSUME Refused(p, t)
        PROVE  FALSE
    <3>1. HoldsLease(t.d, t.a, Clock[p])
      BY <1>0, <2>2, HeldIsSafe DEF Refused, Leased
    <3> QED  BY <2>2, <3>1 DEF Refused, Accepts, ReportsAreValid
  <2> QED  BY <2>1, <2>2
<1>4. ASSUME NEW p \in Processes
      PROVE  ~Exit(p) /\ ~Crash(p) /\ ~ClaimAndDie(p) /\ ~Restart(p)
  BY <1>1, <1>2 DEF Exit, HasLostTask, Crash, ClaimAndDie, Fault, Restart
<1>5. ASSUME UNCHANGED <<up, tasks>>
      PROVE  \A p \in Processes : p \in up' /\ ~\E t \in tasks'[p] : t.state = "lost"
  BY <1>2, <1>5
<1>6. ASSUME NEW p \in Processes, Poll(p)
      PROVE  \A q \in Processes : q \in up' /\ ~\E t \in tasks'[q] : t.state = "lost"
  <2>1. \A u \in Spawned(p) : u.state = "converting"
    BY DEF Spawned, Task
  <2>2. \A q \in Processes : \A u \in tasks'[q] : u \in tasks[q] \/ u \in Spawned(p)
    BY <1>0, <1>6 DEF Poll, Unfinished
  <2> QED  BY <1>2, <1>6, <2>1, <2>2 DEF Poll
<1>7. ASSUME NEW p \in Processes, NEW t \in tasks[p], NEW state \in TaskStates \ {"lost"},
             NEW age, Become(p, t, state, age), UNCHANGED up
      PROVE  \A q \in Processes : q \in up' /\ ~\E u \in tasks'[q] : u.state = "lost"
  <2> DEFINE new == Task(t.d, t.a, state, age)
  <2>1. tasks' = [tasks EXCEPT ![p] = (tasks[p] \ {t}) \cup {new}] /\ new.state # "lost"
    BY <1>7 DEF Become, Task
  <2> HIDE DEF new
  <2>2. \A q \in Processes : \A u \in tasks'[q] : u \in tasks[q] \/ u = new
    BY <1>0, <2>1
  <2> QED  BY <1>2, <1>7, <2>1, <2>2
<1>8. ASSUME NEW p \in Processes, NEW t \in tasks[p],
             \/ ConversionEnds(p, t) \/ Renew(p, t) \/ Complete(p, t) \/ Fail(p, t)
      PROVE  \A q \in Processes : q \in up' /\ ~\E u \in tasks'[q] : u.state = "lost"
  BY <1>7, <1>8 DEF ConversionEnds, Renew, Complete, Fail, TaskStates
<1>9. ASSUME Tick
      PROVE  \A q \in Processes : q \in up' /\ ~\E u \in tasks'[q] : u.state = "lost"
  <2>1. \A q \in Processes : \A t \in tasks[q] : Aged(t).state = t.state
    BY <1>0, AgedTask
  <2>2. \A q \in Processes : \A u \in tasks'[q] : \E t \in tasks[q] : u = Aged(t)
    BY <1>9 DEF Tick
  <2> QED  BY <1>2, <1>9, <2>1, <2>2 DEF Tick
<1> QED
  BY <1>3, <1>4, <1>5, <1>6, <1>8, <1>9 DEF RNext, rvars, Submit, Checkpoint

\* If no report of a conversion exceeds its total, nothing but faults stops a
\* reconciler: no renewal comes too late, and a failed conversion is no fault.
THEOREM FaultsOnly ==
  ASSUME ReportsAreValid
  PROVE  RSpec => []OnlyFaultsStopProcesses
<1>1. RInit => OnlyFaultsStopProcesses
  BY DEF RInit, OnlyFaultsStopProcesses, HasLostTask
<1>2. RInv /\ (Timely => Leased) /\ OnlyFaultsStopProcesses /\ [RNext]_rvars
        => OnlyFaultsStopProcesses'
  BY OnlyFaultsKept
<1> QED  BY <1>1, <1>2, LeasesTracked, RInvariance, PTL DEF RSpec

-----------------------------------------------------------------------------
\* The datasets.

NamesDiffer == \A d, e \in Destinations : Names[d] = Names[e] => d = e

-----------------------------------------------------------------------------
\* What a step of the reconcilers does to jobs and tasks, for those who look on.

\* A task that is active was so before, or runs an attempt that is new.
LEMMA ActiveBefore ==
  ASSUME RInv, [RNext]_rvars, NEW p \in Processes, NEW u \in tasks'[p], IsActive(u)
  PROVE  \/ \E t \in tasks[p] : IsActive(t) /\ t.d = u.d /\ t.a = u.a
         \/ u.d \in DOMAIN jobs /\ u.a = jobs[u.d].attempt + 1
<1>0. /\ tasks \in [Processes -> SUBSET TaskType] /\ TableInv
      /\ \A q \in Processes : \A t \in tasks[q] : t \in TaskType
  BY DEF RInv, TasksInv, TasksTyped
<1>1. CASE tasks' = tasks \/ \E q \in Processes : Stop(q)
  BY <1>0, <1>1 DEF Stop
<1>2. ASSUME NEW q \in Processes, Poll(q)
      PROVE  \/ \E t \in tasks[p] : IsActive(t) /\ t.d = u.d /\ t.a = u.a
             \/ u.d \in DOMAIN jobs /\ u.a = jobs[u.d].attempt + 1
  <2>1. u \in tasks[p] \/ (u \in Spawned(q) /\ ClaimForPool(q))
    BY <1>0, <1>2 DEF Poll, Unfinished
  <2>2. ASSUME u \in Spawned(q), ClaimForPool(q)
        PROVE  u.d \in DOMAIN jobs /\ u.a = jobs[u.d].attempt + 1
    <3>1. PICK d \in HandedOut(OldestClaimable(Clock[q], Available(q))) :
            u = Task(d, jobs'[d].attempt, "converting", 0)
      BY <2>2 DEF Spawned
    <3> QED  BY <1>0, <2>2, <3>1, HandedOutIsNew DEF Task
  <2> QED  BY <2>1, <2>2
<1>3. ASSUME NEW q \in Processes, NEW t \in tasks[q], IsActive(t),
             NEW state, NEW age, Become(q, t, state, age)
      PROVE  \E v \in tasks[p] : IsActive(v) /\ v.d = u.d /\ v.a = u.a
  <2> DEFINE new == Task(t.d, t.a, state, age)
  <2>1. tasks' = [tasks EXCEPT ![q] = (tasks[q] \ {t}) \cup {new}]
        /\ new.d = t.d /\ new.a = t.a
    BY <1>3 DEF Become, Task
  <2> HIDE DEF new
  <2>2. u \in tasks[p] \/ (u = new /\ p = q)
    BY <1>0, <2>1
  <2> QED  BY <1>3, <2>1, <2>2
<1>4. ASSUME Tick
      PROVE  \E t \in tasks[p] : IsActive(t) /\ t.d = u.d /\ t.a = u.a
  <2>1. PICK t \in tasks[p] : u = Aged(t)
    BY <1>4 DEF Tick
  <2> QED  BY <1>0, <2>1, AgedTask DEF IsActive
<1>5. ASSUME NEW q \in Processes, NEW t \in tasks[q],
             \/ ConversionEnds(q, t) \/ Renew(q, t) \/ Complete(q, t)
             \/ Fail(q, t) \/ Refused(q, t) \/ StoreFails(q, t)
      PROVE  \E v \in tasks[p] : IsActive(v) /\ v.d = u.d /\ v.a = u.a
  <2>1. IsActive(t)
    BY <1>5 DEF ConversionEnds, Renew, Complete, Fail, Refused, StoreFails, IsActive
  <2> QED
    BY <1>3, <1>5, <2>1
    DEF ConversionEnds, Renew, Complete, Fail, Refused, StoreFails
<1> QED
  BY <1>1, <1>2, <1>4, <1>5
  DEF RNext, rvars, Submit, Exit, Restart, Crash, ClaimAndDie, Checkpoint

\* A job succeeded before, or one of its tasks has just reported it.
LEMMA SucceededBefore ==
  ASSUME RInv, [RNext]_rvars, NEW d \in DOMAIN jobs', jobs'[d].status = "succeeded"
  PROVE  \/ d \in DOMAIN jobs /\ jobs[d].status = "succeeded"
            /\ jobs'[d].attempt = jobs[d].attempt
         \/ \E p \in Processes : \E t \in tasks[p] :
              t.state = "converted" /\ t.d = d /\ t.a = jobs'[d].attempt
<1>0. /\ TableInv /\ \A e \in DOMAIN jobs : jobs[e] \in Job
      /\ \A p \in Processes : \A t \in tasks[p] : t \in TaskType
  BY DEF RInv, TasksInv, TasksTyped, TableInv, IInv, RowInv
<1>1. CASE UNCHANGED jobs
  BY <1>1
<1>2. CASE \E e \in Destinations : Submit(e)
  BY <1>2 DEF Submit, CreateJob, NewJob
<1>3. ASSUME NEW p \in Processes, ClaimForPool(p)
      PROVE  d \in DOMAIN jobs /\ jobs[d].status = "succeeded" /\ jobs'[d] = jobs[d]
  <2> DEFINE batch == OldestClaimable(Clock[p], Available(p))
             lease == Clock[p] + LeaseDuration
  <2>1. d \in DOMAIN jobs
        /\ jobs'[d] = IF d \in batch THEN AfterClaim(jobs[d], lease) ELSE jobs[d]
    BY <1>3 DEF ClaimForPool, ClaimJobs, ClaimBatch
  <2> HIDE DEF batch, lease
  <2>2. AfterClaim(jobs[d], lease).status \in {"failed", "running"}
    BY <1>0, <2>1 DEF AfterClaim, Job
  <2> QED  BY <2>1, <2>2
<1>4. ASSUME NEW p \in Processes, NEW t \in tasks[p], NEW r \in Reports,
             \/ RenewLease(t.d, t.a, Clock[p], LeaseDuration, r)
             \/ CheckpointProgress(t.d, t.a, Clock[p], r)
             \/ FailJob(t.d, t.a, Clock[p], r)
      PROVE  d \in DOMAIN jobs /\ jobs[d].status = "succeeded" /\ jobs'[d] = jobs[d]
  <2>1. t.d \in DOMAIN jobs /\ jobs[t.d].status = "running" /\ jobs[t.d] \in Job
    BY <1>0, <1>4 DEF RenewLease, CheckpointProgress, FailJob, Accepts, HoldsLease
  <2>2. PICK new : Update(t.d, new) /\ new.status # "succeeded"
    <3>1. CASE RenewLease(t.d, t.a, Clock[p], LeaseDuration, r)
      <4>1. AfterRenew(jobs[t.d], Clock[p] + LeaseDuration, r).status = "running"
        BY <2>1 DEF AfterRenew, Job
      <4> QED  BY <3>1, <4>1 DEF RenewLease
    <3>2. CASE CheckpointProgress(t.d, t.a, Clock[p], r)
      <4>1. AfterCheckpoint(jobs[t.d], r).status = "running"
        BY <2>1 DEF AfterCheckpoint, Job
      <4> QED  BY <3>2, <4>1 DEF CheckpointProgress
    <3>3. CASE FailJob(t.d, t.a, Clock[p], r)
      <4>1. AfterFail(jobs[t.d], t.a, r).status # "succeeded"
        BY <2>1 DEF AfterFail, Job
      <4> QED  BY <3>3, <4>1 DEF FailJob
    <3> QED  BY <1>4, <3>1, <3>2, <3>3
  <2> QED  BY <2>1, <2>2 DEF Update
<1>5. ASSUME NEW p \in Processes, NEW t \in tasks[p], NEW r \in Reports,
             t.state = "converted", CompleteJob(t.d, t.a, Clock[p], r)
      PROVE  \/ d \in DOMAIN jobs /\ jobs[d].status = "succeeded" /\ jobs'[d] = jobs[d]
             \/ t.d = d /\ t.a = jobs'[d].attempt
  <2>1. t.d \in DOMAIN jobs /\ jobs[t.d].attempt = t.a /\ jobs[t.d] \in Job
    BY <1>0, <1>5 DEF CompleteJob, Accepts, HoldsLease
  <2>2. AfterComplete(jobs[t.d], r).attempt = t.a
    BY <2>1 DEF AfterComplete, Job
  <2> QED  BY <1>5, <2>1, <2>2 DEF CompleteJob, Update
<1>6. ASSUME Tick
      PROVE  d \in DOMAIN jobs /\ jobs[d].status = "succeeded"
             /\ jobs'[d].attempt = jobs[d].attempt
  <2>1. d \in DOMAIN jobs /\ jobs'[d] = Ticked(jobs[d]) /\ RowInv(jobs[d])
    BY <1>0, <1>6 DEF Tick, Ticked, TableInv, IInv
  <2> QED  BY <2>1, RowTicks
<1> QED
  BY <1>1, <1>2, <1>3, <1>4, <1>5, <1>6
  DEF RNext, rvars, Poll, Exit, Restart, Crash, ClaimAndDie, ConversionEnds,
      Renew, Checkpoint, Complete, Fail, Refused, StoreFails

-----------------------------------------------------------------------------
\* The datasets.

Stages == {"writing", "indexing", "published"}
Datasets == {Names[d] : d \in Destinations}

PublicationTyped ==
  /\ stage \in [Attempts -> Stages]
  /\ dataset \in [Datasets -> [by : Attempts \cup {<<>>}, indexed : BOOLEAN]]

\* Only attempts that began have committed anything.
Begun ==
  \A c \in Attempts :
    stage[c] # "writing" => c[1] \in DOMAIN jobs /\ c[2] <= jobs[c[1]].attempt

\* What an attempt that converts has committed is still there.
Committed(t) ==
  /\ stage[Writer(t)] = "indexing" => dataset[Names[t.d]].by = Writer(t)
  /\ stage[Writer(t)] = "published" =>
       dataset[Names[t.d]] = [by |-> Writer(t), indexed |-> TRUE]
  /\ MayResolve(t)

WorkStays == \A p \in Processes : \A t \in tasks[p] : IsActive(t) => Committed(t)

PInv == PublicationTyped /\ Begun /\ WorkStays /\ SucceededIsPublished

LEMMA PInvHolds == PInit => PInv
BY DEF PInit, RInit, Init, PInv, PublicationTyped, Begun, WorkStays, SucceededIsPublished,
       Stages, Datasets

LEMMA StepKeepsPInv ==
  ASSUME RInv, RInv', PInv, Step \/ UNCHANGED pvars
  PROVE  PInv'
<1>0. /\ [RNext]_rvars /\ UNCHANGED <<stage, dataset>>
      /\ \A p \in Processes : \A t \in tasks'[p] : IsActive(t) => MayResolve(t)
  BY DEF Step, pvars, rvars, PInv, WorkStays, Committed
<1>1. PublicationTyped'
  BY <1>0 DEF PInv, PublicationTyped
<1>2. Begun'
  <2>1. JobsKept
    BY <1>0, EveryStep DEF TableStep
  <2>2. \A d \in DOMAIN jobs : /\ d \in DOMAIN jobs' /\ jobs[d].attempt \in Int
                               /\ jobs'[d].attempt \in Int
                               /\ jobs'[d].attempt >= jobs[d].attempt
    BY <2>1 DEF JobsKept, RInv, TableInv, IInv, RowInv, Job
  <2>3. \A c \in Attempts : c[2] \in Int
    BY MaxAttemptsPositive DEF Attempts
  <2> QED  BY <1>0, <2>2, <2>3 DEF PInv, Begun
<1>3. ASSUME NEW p \in Processes, NEW u \in tasks'[p], IsActive(u)
      PROVE  Committed(u)'
  <2>1. CASE \E t \in tasks[p] : IsActive(t) /\ t.d = u.d /\ t.a = u.a
    BY <1>0, <1>3, <2>1 DEF PInv, WorkStays, Committed, Writer, MayResolve
  <2>2. CASE u.d \in DOMAIN jobs /\ u.a = jobs[u.d].attempt + 1
    <3>1. Writer(u) \in Attempts /\ u.a \in Int /\ jobs[u.d].attempt \in Int
      BY <2>2, MaxAttemptsPositive
         DEF RInv, TasksInv, TasksTyped, TaskType, Attempts, Writer, TableInv, IInv,
             RowInv, Job
    <3>2. stage[Writer(u)] = "writing"
      BY <2>2, <3>1 DEF PInv, Begun, Writer
    <3> QED  BY <1>0, <1>3, <3>2 DEF Committed, Writer, MayResolve
  <2> QED  BY <1>0, <1>3, <2>1, <2>2, ActiveBefore
<1>4. ASSUME NEW d \in DOMAIN jobs', jobs'[d].status = "succeeded"
      PROVE  dataset'[Names[d]] = [by |-> <<d, jobs'[d].attempt>>, indexed |-> TRUE]
  <2>1. CASE /\ d \in DOMAIN jobs /\ jobs[d].status = "succeeded"
             /\ jobs'[d].attempt = jobs[d].attempt
    BY <1>0, <2>1 DEF PInv, SucceededIsPublished
  <2>2. CASE \E p \in Processes : \E t \in tasks[p] :
               t.state = "converted" /\ t.d = d /\ t.a = jobs'[d].attempt
    BY <1>0, <2>2 DEF PInv, WorkStays, Committed, MayResolve, IsActive, Writer
  <2> QED  BY <1>0, <1>4, <2>1, <2>2, SucceededBefore
<1>5. WorkStays'
  BY <1>3 DEF WorkStays, IsActive
<1>6. SucceededIsPublished'
  BY <1>4 DEF SucceededIsPublished
<1> QED  BY <1>1, <1>2, <1>5, <1>6 DEF PInv

\* Who commits to a dataset is the only one who does, and its job is unfinished.
LEMMA CommitKeepsPInv ==
  ASSUME RInv, Leased, NamesDiffer, PInv,
         NEW p \in Processes, NEW t \in tasks[p], CommitRows(t) \/ CommitIndexes(t)
  PROVE  PInv'
<1> DEFINE c == Writer(t)
<1>0. /\ UNCHANGED rvars /\ UNCHANGED <<jobs, tasks>> /\ IsActive(t)
      /\ t.d \in Destinations /\ t.a \in 1..MaxAttempts /\ c = <<t.d, t.a>> /\ c \in Attempts
      /\ \A q \in Processes : \A u \in tasks[q] :
           u.d \in Destinations /\ Writer(u) = <<u.d, u.a>> /\ Writer(u) \in Attempts
  BY DEF CommitRows, CommitIndexes, rvars, IsActive, RInv, TasksInv, TasksTyped, TaskType,
         Writer, Attempts
<1>1. t.d \in DOMAIN jobs /\ jobs[t.d].status = "running" /\ jobs[t.d].attempt = t.a
  BY <1>0 DEF Leased, Held
<1> HIDE DEF c
<1>2. PICK next \in {"indexing", "published"} :
        /\ stage' = [stage EXCEPT ![c] = next]
        /\ dataset'[Names[t.d]].by = c
        /\ next = "published" => dataset'[Names[t.d]] = [by |-> c, indexed |-> TRUE]
        /\ \A x \in Datasets : x # Names[t.d] => dataset'[x] = dataset[x]
        /\ dataset' \in [Datasets -> [by : Attempts \cup {<<>>}, indexed : BOOLEAN]]
  <2>0. Names[t.d] \in Datasets
    BY <1>0 DEF Datasets
  <2>1. CASE CommitRows(t)
    <3> DEFINE new == [by |-> c, indexed |-> FALSE]
    <3>1. dataset' = [dataset EXCEPT ![Names[t.d]] = new] /\ stage' = [stage EXCEPT ![c] = "indexing"]
      BY <2>1 DEF CommitRows, c
    <3>2. new \in [by : Attempts \cup {<<>>}, indexed : BOOLEAN] /\ new.by = c
      BY <1>0
    <3> HIDE DEF new
    <3> QED  BY <2>0, <3>1, <3>2 DEF PInv, PublicationTyped
  <2>2. CASE CommitIndexes(t)
    <3> DEFINE old == dataset[Names[t.d]]
               new == [old EXCEPT !.indexed = TRUE]
    <3>1. /\ dataset' = [dataset EXCEPT ![Names[t.d]] = new]
          /\ stage' = [stage EXCEPT ![c] = "published"] /\ old.by = c
      BY <2>2 DEF CommitIndexes, c
    <3>2. old \in [by : Attempts \cup {<<>>}, indexed : BOOLEAN]
      BY <2>0 DEF PInv, PublicationTyped
    <3> HIDE DEF old
    <3>3. new \in [by : Attempts \cup {<<>>}, indexed : BOOLEAN]
      BY <3>2
    <3>4. new.by = c /\ new.indexed = TRUE
      BY <3>1, <3>2
    <3>5. new = [by |-> new.by, indexed |-> new.indexed]
      <4> HIDE DEF new
      <4> QED  BY <3>3
    <3> HIDE DEF new
    <3> QED  BY <2>0, <3>1, <3>3, <3>4, <3>5 DEF PInv, PublicationTyped
  <2> QED  BY <2>1, <2>2
<1>3. /\ stage' \in [Attempts -> Stages] /\ stage'[c] = next
      /\ \A b \in Attempts : b # c => stage'[b] = stage[b]
  BY <1>0, <1>2 DEF PInv, PublicationTyped, Stages
<1>4. PublicationTyped'
  BY <1>2, <1>3 DEF PublicationTyped
<1>5. Begun'
  <2>1. c[1] \in DOMAIN jobs /\ c[2] <= jobs[c[1]].attempt
    BY <1>0, <1>1, MaxAttemptsPositive
  <2> QED  BY <1>0, <1>3, <2>1 DEF PInv, Begun
<1>6. ASSUME NEW d \in Destinations, d # t.d
      PROVE  dataset'[Names[d]] = dataset[Names[d]]
  BY <1>0, <1>2, <1>6 DEF NamesDiffer, Datasets
<1>7. ASSUME NEW q \in Processes, NEW u \in tasks'[q], IsActive(u)
      PROVE  Committed(u)'
  <2>1. u \in tasks[q] /\ Held(q, u)
    BY <1>0, <1>7 DEF Leased
  <2>2. CASE u.d = t.d
    <3>1. u = t
      BY <1>0, <1>1, <2>1, <2>2 DEF Held, RInv, TasksInv, TasksDistinct
    <3>2. t.state = "converting"
      BY DEF CommitRows, CommitIndexes
    <3> QED  BY <1>2, <1>3, <3>1, <3>2 DEF Committed, MayResolve, c
  <2>3. CASE u.d # t.d
    <3>1. /\ Writer(u) # c /\ Writer(u) \in Attempts
          /\ dataset'[Names[u.d]] = dataset[Names[u.d]]
      BY <1>0, <1>6, <2>1, <2>3
    <3>2. Committed(u)
      BY <1>7, <2>1 DEF PInv, WorkStays
    <3> QED  BY <1>3, <3>1, <3>2 DEF Committed, MayResolve
  <2> QED  BY <2>2, <2>3
<1>8. SucceededIsPublished'
  <2> SUFFICES ASSUME NEW d \in DOMAIN jobs, jobs[d].status = "succeeded"
               PROVE  dataset'[Names[d]] = [by |-> <<d, jobs[d].attempt>>, indexed |-> TRUE]
    BY <1>0 DEF SucceededIsPublished
  <2>1. d # t.d /\ d \in Destinations
    BY <1>1 DEF RInv, TableInv, IInv
  <2> QED  BY <1>6, <2>1 DEF PInv, SucceededIsPublished
<1>9. WorkStays'
  BY <1>7 DEF WorkStays, IsActive
<1> QED  BY <1>4, <1>5, <1>8, <1>9 DEF PInv

\* Every step of Publication is one of the reconcilers, or none.
LEMMA PSpecIsRSpec == PSpec => RSpec
<1>1. PInit => RInit
  BY DEF PInit
<1>2. [PNext]_pvars => [RNext]_rvars
  BY DEF PNext, pvars, rvars, Step, CommitRows, CommitIndexes
<1> QED  BY <1>1, <1>2, PTL DEF PSpec, RSpec

\* With timely timers, a succeeded job's dataset holds what its successful attempt
\* wrote, and its indexes, for good.
THEOREM SuccessPublished ==
  ASSUME Timely, NamesDiffer
  PROVE  PSpec => []SucceededIsPublished
<1>1. RInv /\ RInv' /\ (Timely => Leased) /\ PInv /\ [PNext]_pvars => PInv'
  BY StepKeepsPInv, CommitKeepsPInv DEF PNext
<1>2. PInv => SucceededIsPublished
  BY DEF PInv
<1> QED
  BY <1>1, <1>2, PInvHolds, PSpecIsRSpec, RInvariance, LeasesTracked, PTL DEF PSpec

\* ... and no two conversions write to one dataset at a time.
THEOREM OneWriter ==
  ASSUME NamesDiffer
  PROVE  PSpec => []OneWriterPerDataset
<1>1. RInv /\ (Timely => Leased) => OneWriterPerDataset
  <2> SUFFICES ASSUME RInv, Leased, NEW p \in Processes, NEW q \in Processes,
                      NEW t \in Unfinished(p), NEW u \in Unfinished(q),
                      Names[t.d] = Names[u.d]
               PROVE  t = u
    BY DEF OneWriterPerDataset
  <2>1. /\ t \in tasks[p] /\ u \in tasks[q] /\ Held(p, t) /\ Held(q, u)
        /\ t.d \in Destinations /\ u.d \in Destinations
    BY DEF Unfinished, Leased, RInv, TasksInv, TasksTyped, TaskType
  <2>2. t.d = u.d /\ t.a = u.a
    BY <2>1 DEF NamesDiffer, Held
  <2> QED  BY <2>1, <2>2 DEF RInv, TasksInv, TasksDistinct
<1> QED  BY <1>1, PSpecIsRSpec, RInvariance, LeasesTracked, PTL
=============================================================================
