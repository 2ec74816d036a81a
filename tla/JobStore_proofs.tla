--------------------------- MODULE JobStore_proofs ---------------------------
(***************************************************************************)
(* Proofs about the jobs table, for every value of the constants.          *)
(*                                                                         *)
(* Every operation either inserts a new row or replaces rows one by one by *)
(* AfterClaim, AfterRenew, AfterCheckpoint, AfterComplete or AfterFail.    *)
(* The invariants and action properties are about single rows, so each is  *)
(* proved once per row function (the lemmas Row...), and RowByRow lifts    *)
(* them to the table.                                                      *)
(***************************************************************************)
EXTENDS JobStore, FiniteSetTheorems, FunctionTheorems, TLAPS

\* The inductive invariant, of one row and of the table.  HistoryComplete needs
\* the bound on queuing attempts, and Recoverable the lease of running rows.
RowInv(row) ==
  /\ row \in Job
  /\ row.status = "queuing" => row.attempt < MaxAttempts
  /\ row.status \in {"running", "succeeded"} => row.attempt > 0
  /\ HistoryComplete(row)
  /\ SchemaChecked(row)

IInv ==
  /\ DOMAIN jobs \subseteq Destinations
  /\ jobs = [d \in DOMAIN jobs |-> jobs[d]]
  /\ \A d \in DOMAIN jobs : RowInv(jobs[d])

\* The ways an operation may turn one row into another.
Replaced(row, new) ==
  \/ new = row
  \/ \E now \in Timestamps, lease \in Int \cup {NoLease} :
       IsClaimable(row, now) /\ lease # NoLease /\ new = AfterClaim(row, lease)
  \/ \E p \in JobProgress, lease \in Int \cup {NoLease} :
       /\ row.status = "running" /\ WithinTotal(p) /\ lease # NoLease
       /\ \/ new = AfterRenew(row, lease, p)
          \/ new = AfterCheckpoint(row, p)
          \/ new = AfterComplete(row, p)
          \/ new = AfterFail(row, row.attempt, p)

-----------------------------------------------------------------------------
\* A freshly inserted row satisfies the invariant.
LEMMA RowNew ==
  ASSUME NEW now \in Timestamps
  PROVE  RowInv(NewJob(now))
BY MaxAttemptsPositive, NoLeaseIsNull
   DEF RowInv, NewJob, NoProgress, Job, JobStatus, JobProgress,
       HistoryComplete, SchemaChecked, CountsChecked

\* What validate_progress_update lets pass satisfies the CHECK on the counts.
LEMMA ValidCountsAreChecked ==
  ASSUME NEW p \in JobProgress, WithinTotal(p)
  PROVE  CountsChecked(p)
BY DEF WithinTotal, CountsChecked, NoProgress, JobProgress

\* Appending an error leaves the earlier ones where they were.
LEMMA ErrorAppended ==
  ASSUME NEW errors \in Seq(JobError), NEW error \in JobError
  PROVE  /\ Append(errors, error) \in Seq(JobError)
         /\ Len(Append(errors, error)) = Len(errors) + 1
         /\ Append(errors, error)[Len(errors) + 1] = error
         /\ \A i \in 1..Len(errors) : Append(errors, error)[i] = errors[i]
OBVIOUS

\* A history stays complete when the attempt in progress gets its error and the
\* job starts its next attempt, is given back, or has used up its attempts.
LEMMA HistoryExtended ==
  ASSUME NEW row \in Job, HistoryComplete(row), row.status = "running",
         NEW new \in Job, NEW error \in JobError,
         new.errors = Append(row.errors, error),
         error.attempt = row.attempt,
         error.reason = "final_lease_expired" =>
           new.status = "failed" /\ row.attempt = MaxAttempts,
         \/ new.status = "running" /\ new.attempt = row.attempt + 1
         \/ new.status = "queuing" /\ new.attempt = row.attempt
         \/ new.status = "failed"  /\ new.attempt = row.attempt /\ row.attempt = MaxAttempts
  PROVE  HistoryComplete(new)
<1>0. row.errors \in Seq(JobError) /\ row.attempt \in Int /\ new.attempt \in Int
  BY MaxAttemptsPositive DEF Job
<1>1. Len(row.errors) = row.attempt - 1
  BY DEF HistoryComplete
<1>2. /\ Len(new.errors) = Len(row.errors) + 1
      /\ new.errors[Len(row.errors) + 1] = error
      /\ \A i \in 1..Len(row.errors) : new.errors[i] = row.errors[i]
  BY <1>0, ErrorAppended
<1>3. Len(new.errors) = IF new.status \in {"running", "succeeded"}
                        THEN new.attempt - 1 ELSE new.attempt
  BY <1>0, <1>1, <1>2
<1>4. ASSUME NEW i \in 1..Len(new.errors)
      PROVE  /\ new.errors[i].attempt = i
             /\ new.errors[i].reason = "final_lease_expired" =>
                  new.status = "failed" /\ i = MaxAttempts
  <2>1. CASE i = Len(row.errors) + 1
    BY <1>0, <1>1, <1>2, <2>1
  <2>2. CASE i \in 1..Len(row.errors)
    BY <1>2, <2>2 DEF HistoryComplete
  <2> QED
    BY <1>0, <1>2, <2>1, <2>2
<1> QED
  BY <1>3, <1>4 DEF HistoryComplete

\* Claiming a claimable row preserves the invariant, whether the row starts its
\* next attempt or fails.
LEMMA RowClaimed ==
  ASSUME NEW row, RowInv(row), NEW now, IsClaimable(row, now),
         NEW lease \in Int \cup {NoLease}, lease # NoLease
  PROVE  RowInv(AfterClaim(row, lease))
<1> DEFINE new == AfterClaim(row, lease)
<1> USE MaxAttemptsPositive, NoLeaseIsNull
<1>0. /\ row \in Job
      /\ row.attempt \in 0..MaxAttempts
      /\ row.errors \in Seq(JobError)
      /\ row.status \in {"queuing", "running"}
      /\ HistoryComplete(row)
      /\ CountsChecked(row.progress)
  BY DEF RowInv, Job, IsClaimable, SchemaChecked
<1>1. CASE OnFinalAttempt(row)
  <2> DEFINE error  == [attempt |-> row.attempt, reason |-> "final_lease_expired"]
             errors == Append(row.errors, error)
  <2>1. row.status = "running" /\ row.attempt = MaxAttempts
    BY <1>0, <1>1 DEF OnFinalAttempt
  <2>2. error \in JobError /\ error.attempt = row.attempt
    BY <2>1 DEF JobError, Reasons
  <2>3. new = [row EXCEPT !.status = "failed", !.lease = NoLease, !.errors = errors]
    BY <1>1 DEF AfterClaim
  <2> HIDE DEF error, new
  <2>4. errors \in Seq(JobError)
    BY <1>0, <2>2, ErrorAppended
  <2>5. /\ new \in Job
        /\ new.status = "failed" /\ new.lease = NoLease /\ new.errors = errors
        /\ new.attempt = row.attempt /\ new.progress = row.progress
    <3> HIDE DEF errors
    <3> QED BY <1>0, <2>3, <2>4 DEF Job, JobStatus
  <2>6. HistoryComplete(new)
    BY <1>0, <2>1, <2>2, <2>5, HistoryExtended
  <2> QED
    BY <1>0, <2>5, <2>6 DEF RowInv, SchemaChecked, new
<1>2. CASE ~OnFinalAttempt(row) /\ row.status = "running"
  <2> DEFINE error  == [attempt |-> row.attempt, reason |-> "lease_expired"]
             errors == Append(row.errors, error)
  <2>1. row.attempt \in 1..(MaxAttempts - 1)
    BY <1>0, <1>2 DEF OnFinalAttempt, RowInv
  <2>2. /\ error \in JobError /\ error.attempt = row.attempt
        /\ error.reason # "final_lease_expired"
    BY <2>1 DEF JobError, Reasons
  <2> DEFINE attempt == row.attempt + 1
  <2>3. new = [row EXCEPT !.status = "running", !.lease = lease,
                          !.attempt = attempt, !.errors = errors]
    BY <1>2 DEF AfterClaim
  <2> HIDE DEF error, new
  <2>4. errors \in Seq(JobError) /\ attempt \in 0..MaxAttempts
    BY <1>0, <2>1, <2>2, ErrorAppended
  <2>5. /\ new \in Job
        /\ new.status = "running" /\ new.lease = lease /\ new.errors = errors
        /\ new.attempt = attempt /\ new.progress = row.progress
    <3> HIDE DEF errors, attempt
    <3> QED BY <1>0, <2>3, <2>4 DEF Job, JobStatus
  <2>6. HistoryComplete(new)
    BY <1>0, <1>2, <2>1, <2>2, <2>5, HistoryExtended
  <2> QED
    BY <1>0, <2>1, <2>5, <2>6 DEF RowInv, SchemaChecked, new
<1>3. CASE row.status = "queuing"
  <2> DEFINE errors == row.errors
             attempt == row.attempt + 1
  <2>1. ~OnFinalAttempt(row) /\ attempt \in 1..MaxAttempts
    BY <1>0, <1>3 DEF OnFinalAttempt, RowInv
  <2>2. new = [row EXCEPT !.status = "running", !.lease = lease,
                          !.attempt = attempt, !.errors = errors]
    BY <1>3, <2>1 DEF AfterClaim
  <2> HIDE DEF new
  <2>3. /\ new \in Job
        /\ new.status = "running" /\ new.lease = lease /\ new.errors = errors
        /\ new.attempt = attempt /\ new.progress = row.progress
    <3>1. errors \in Seq(JobError) /\ attempt \in 0..MaxAttempts
      BY <1>0, <2>1
    <3> HIDE DEF errors, attempt
    <3> QED BY <1>0, <2>2, <3>1 DEF Job, JobStatus
  <2>4. HistoryComplete(new)
    BY <1>0, <1>3, <2>1, <2>3 DEF HistoryComplete
  <2> QED
    BY <1>0, <2>1, <2>3, <2>4 DEF RowInv, SchemaChecked, new
<1> QED
  BY <1>0, <1>1, <1>2, <1>3

\* The calls of the worker that runs the current attempt preserve the invariant.
LEMMA RowUpdated ==
  ASSUME NEW row, RowInv(row), row.status = "running",
         NEW p \in JobProgress, WithinTotal(p),
         NEW lease \in Int \cup {NoLease}, lease # NoLease
  PROVE  /\ RowInv(AfterRenew(row, lease, p))
         /\ RowInv(AfterCheckpoint(row, p))
         /\ RowInv(AfterComplete(row, p))
         /\ RowInv(AfterFail(row, row.attempt, p))
<1> USE MaxAttemptsPositive, NoLeaseIsNull
<1>0. CountsChecked(p)
  BY ValidCountsAreChecked
<1>1. RowInv(AfterRenew(row, lease, p))
  BY <1>0 DEF RowInv, AfterRenew, Job, JobStatus, HistoryComplete, SchemaChecked
<1>2. RowInv(AfterCheckpoint(row, p))
  BY <1>0 DEF RowInv, AfterCheckpoint, Job, JobStatus, HistoryComplete, SchemaChecked
<1>3. RowInv(AfterComplete(row, p))
  BY <1>0 DEF RowInv, AfterComplete, Job, JobStatus, HistoryComplete, SchemaChecked
<1>4. RowInv(AfterFail(row, row.attempt, p))
  <2> DEFINE new    == AfterFail(row, row.attempt, p)
             status == IF row.attempt >= MaxAttempts THEN "failed" ELSE "queuing"
             error  == [attempt |-> row.attempt, reason |-> "conversion_error"]
             errors == Append(row.errors, error)
  <2>0. /\ row \in Job
        /\ row.attempt \in 1..MaxAttempts
        /\ row.errors \in Seq(JobError)
        /\ HistoryComplete(row)
    BY DEF RowInv, Job
  <2>1. /\ error \in JobError /\ error.attempt = row.attempt
        /\ error.reason # "final_lease_expired"
    BY <2>0 DEF JobError, Reasons
  <2>2. status \in JobStatus
    BY DEF JobStatus
  <2>3. new = [row EXCEPT !.status = status, !.lease = NoLease, !.errors = errors,
                          !.progress = p]
    BY DEF AfterFail
  <2> HIDE DEF error, new
  <2>4. errors \in Seq(JobError)
    BY <2>0, <2>1, ErrorAppended
  <2>5. /\ new \in Job
        /\ new.status = status /\ new.lease = NoLease /\ new.errors = errors
        /\ new.attempt = row.attempt /\ new.progress = p
    <3> HIDE DEF errors, status
    <3> QED BY <2>0, <2>2, <2>3, <2>4 DEF Job
  <2>6. \/ new.status = "queuing" /\ row.attempt < MaxAttempts
        \/ new.status = "failed" /\ row.attempt = MaxAttempts
    BY <2>0, <2>5
  <2>7. HistoryComplete(new)
    BY <2>0, <2>1, <2>5, <2>6, HistoryExtended
  <2> QED
    BY <1>0, <2>0, <2>5, <2>6, <2>7 DEF RowInv, SchemaChecked, new
<1> QED
  BY <1>1, <1>2, <1>3, <1>4

-----------------------------------------------------------------------------
\* From rows to the table.

\* Every step keeps the rows there are, replacing each in one of the ways of
\* Replaced, and any row it adds is a fresh one.
RowByRow ==
  /\ DOMAIN jobs \subseteq DOMAIN jobs'
  /\ DOMAIN jobs' \subseteq Destinations
  /\ jobs' = [d \in DOMAIN jobs' |-> jobs'[d]]
  /\ \A d \in DOMAIN jobs : Replaced(jobs[d], jobs'[d])
  /\ \A d \in DOMAIN jobs' \ DOMAIN jobs : \E now \in Timestamps : jobs'[d] = NewJob(now)

LEMMA CreateRowByRow ==
  IInv /\ Create => RowByRow
<1> SUFFICES ASSUME IInv, NEW d \in Destinations, NEW now \in Timestamps, CreateJob(d, now)
             PROVE  RowByRow
  BY DEF Create
<1>1. /\ DOMAIN jobs' = DOMAIN jobs \cup {d}
      /\ \A e \in DOMAIN jobs : jobs'[e] = jobs[e]
      /\ jobs'[d] = NewJob(now)
  BY DEF CreateJob
<1> QED
  BY <1>1 DEF RowByRow, Replaced, IInv, CreateJob

LEMMA BatchRowByRow ==
  ASSUME IInv, NEW now \in Timestamps, NEW duration \in LeaseDurations,
         NEW batch \in SUBSET Claimable(now), ClaimBatch(batch, now, duration)
  PROVE  RowByRow
<1> DEFINE lease == now + duration
<1>1. lease \in Int \cup {NoLease} /\ lease # NoLease
  BY ClockReadings, CallArguments, NoLeaseIsNull
<1>2. /\ DOMAIN jobs' = DOMAIN jobs
      /\ jobs' = [d \in DOMAIN jobs |->
                    IF d \in batch THEN AfterClaim(jobs[d], lease) ELSE jobs[d]]
  BY DEF ClaimBatch
<1> HIDE DEF lease
<1>3. ASSUME NEW d \in DOMAIN jobs
      PROVE  Replaced(jobs[d], jobs'[d])
  <2>1. CASE d \in batch
    BY <1>1, <1>2, <2>1 DEF Replaced, Claimable
  <2>2. CASE d \notin batch
    BY <1>2, <2>2 DEF Replaced
  <2> QED BY <2>1, <2>2
<1> QED
  BY <1>2, <1>3 DEF RowByRow, IInv

LEMMA WorkerCallRowByRow ==
  IInv /\ WorkerCall => RowByRow
<1> SUFFICES ASSUME IInv, NEW d \in Destinations, NEW a \in 0..MaxAttempts,
                    NEW now \in Timestamps, NEW p \in Reports,
                    \/ \E duration \in LeaseDurations : RenewLease(d, a, now, duration, p)
                    \/ CheckpointProgress(d, a, now, p)
                    \/ CompleteJob(d, a, now, p)
                    \/ FailJob(d, a, now, p)
             PROVE  RowByRow
  BY DEF WorkerCall
<1>0. p \in JobProgress
  BY CallArguments
<1>1. /\ d \in DOMAIN jobs
      /\ jobs[d].status = "running"
      /\ jobs[d].attempt = a
      /\ WithinTotal(p)
      /\ jobs[d].lease # NoLease
  BY DEF RenewLease, CheckpointProgress, CompleteJob, FailJob, Accepts, HoldsLease
<1>2. jobs[d].lease \in Int \cup {NoLease}
  BY <1>1 DEF IInv, RowInv, Job
<1>3. ASSUME NEW new, Replaced(jobs[d], new), Update(d, new)
      PROVE  RowByRow
  <2>1. /\ DOMAIN jobs' = DOMAIN jobs
        /\ \A e \in DOMAIN jobs : jobs'[e] = IF e = d THEN new ELSE jobs[e]
        /\ jobs' = [e \in DOMAIN jobs' |-> jobs'[e]]
    BY <1>1, <1>3 DEF Update, IInv
  <2>2. \A e \in DOMAIN jobs : Replaced(jobs[e], jobs'[e])
    BY <1>3, <2>1 DEF Replaced
  <2> QED BY <2>1, <2>2 DEF RowByRow, IInv
<1>4. ASSUME NEW duration \in LeaseDurations, RenewLease(d, a, now, duration, p)
      PROVE  RowByRow
  <2> DEFINE lease == now + duration
  <2>1. lease \in Int \cup {NoLease} /\ lease # NoLease
    BY ClockReadings, CallArguments, NoLeaseIsNull
  <2>2. Update(d, AfterRenew(jobs[d], lease, p))
    BY <1>4 DEF RenewLease
  <2> HIDE DEF lease
  <2>3. Replaced(jobs[d], AfterRenew(jobs[d], lease, p))
    BY <1>0, <1>1, <2>1 DEF Replaced
  <2> QED BY <1>3, <2>2, <2>3
<1>5. CASE CheckpointProgress(d, a, now, p)
  BY <1>0, <1>1, <1>2, <1>3, <1>5 DEF CheckpointProgress, Replaced
<1>6. CASE CompleteJob(d, a, now, p)
  BY <1>0, <1>1, <1>2, <1>3, <1>6 DEF CompleteJob, Replaced
<1>7. CASE FailJob(d, a, now, p)
  BY <1>0, <1>1, <1>2, <1>3, <1>7 DEF FailJob, Replaced
<1> QED
  BY <1>4, <1>5, <1>6, <1>7

LEMMA StepRowByRow ==
  IInv /\ ([Next]_jobs \/ [UnorderedNext]_jobs) => RowByRow
<1>1. IInv /\ UNCHANGED jobs => RowByRow
  BY DEF RowByRow, Replaced, IInv
<1>2. IInv /\ Claim => RowByRow
  BY BatchRowByRow DEF Claim, ClaimJobs, OldestClaimable
<1>3. IInv /\ ClaimAny => RowByRow
  BY BatchRowByRow DEF ClaimAny
<1> QED
  BY <1>1, <1>2, <1>3, CreateRowByRow, WorkerCallRowByRow DEF Next, UnorderedNext

-----------------------------------------------------------------------------
\* The invariant.

LEMMA RowReplacedInv ==
  ASSUME NEW row, RowInv(row), NEW new, Replaced(row, new)
  PROVE  RowInv(new)
BY RowClaimed, RowUpdated DEF Replaced

LEMMA InitIInv == Init => IInv
BY DEF Init, IInv

LEMMA StepIInv == IInv /\ RowByRow => IInv'
<1> SUFFICES ASSUME IInv, RowByRow
             PROVE  IInv'
  OBVIOUS
<1>1. ASSUME NEW d \in DOMAIN jobs'
      PROVE  RowInv(jobs'[d])
  <2>1. CASE d \in DOMAIN jobs
    BY <2>1, RowReplacedInv DEF RowByRow, IInv
  <2>2. CASE d \notin DOMAIN jobs
    BY <2>2, RowNew DEF RowByRow
  <2> QED BY <2>1, <2>2
<1> QED
  BY <1>1 DEF IInv, RowByRow

\* The inductive invariant holds of the store, and of the store whose claims are
\* not ordered.
THEOREM Invariance == (Spec \/ UnorderedSpec) => []IInv
<1>1. Spec => []IInv
  BY InitIInv, StepIInv, StepRowByRow, PTL DEF Spec
<1>2. UnorderedSpec => []IInv
  BY InitIInv, StepIInv, StepRowByRow, PTL DEF UnorderedSpec
<1> QED
  BY <1>1, <1>2

\* Type correctness: whatever its callers do and whatever the clocks say, the
\* table holds well-formed rows with at most MaxAttempts attempts.
THEOREM TypeCorrect == Spec => []TypeOK
<1>1. IInv => TypeOK
  BY DEF IInv, RowInv, TypeOK
<1> QED
  BY <1>1, Invariance, PTL

\* The error history of every job accounts for each of its attempts.
THEOREM HistoryCorrect == Spec => []HistoryCoversAttempts
<1>1. IInv => HistoryCoversAttempts
  BY DEF IInv, RowInv, HistoryCoversAttempts
<1> QED
  BY <1>1, Invariance, PTL

\* A queuing row has attempts left, so any clock reading makes it claimable, and a
\* running row becomes claimable when its lease ends.
LEMMA RowsAreRecoverable == IInv => NeverStranded
<1> SUFFICES ASSUME IInv, NEW d \in DOMAIN jobs,
                    jobs[d].status \in {"queuing", "running"}
             PROVE  \E now \in Timestamps \cup {jobs[d].lease} : IsClaimable(jobs[d], now)
  BY DEF NeverStranded, Recoverable
<1>1. /\ jobs[d].created \in Timestamps
      /\ jobs[d].lease \in Int \cup {NoLease}
      /\ jobs[d].status = "queuing" => jobs[d].attempt < MaxAttempts
      /\ jobs[d].status = "running" => jobs[d].lease # NoLease
  BY DEF IInv, RowInv, Job, SchemaChecked
<1>2. CASE jobs[d].status = "queuing"
  <2>1. IsClaimable(jobs[d], jobs[d].created)
    BY <1>1, <1>2 DEF IsClaimable
  <2> QED BY <1>1, <2>1
<1>3. CASE jobs[d].status = "running"
  <2>1. IsClaimable(jobs[d], jobs[d].lease)
    BY <1>1, <1>3 DEF IsClaimable
  <2> QED BY <2>1
<1> QED BY <1>2, <1>3

\* No job is stranded, whatever its callers do.
THEOREM NoJobStranded == Spec => []NeverStranded
BY RowsAreRecoverable, Invariance, PTL

\* No operation ever runs into a CHECK of the table.
THEOREM SchemaRespected == Spec => []SchemaChecksHold
<1>1. IInv => SchemaChecksHold
  BY DEF IInv, RowInv, SchemaChecksHold
<1> QED
  BY <1>1, Invariance, PTL

-----------------------------------------------------------------------------
\* What a step may never do to a row.

\* A finished row is replaced by itself only.
LEMMA TerminalRowKept ==
  ASSUME NEW row, row.status \in {"succeeded", "failed"}, NEW new, Replaced(row, new)
  PROVE  new = row
BY DEF Replaced, IsClaimable

\* A replaced row keeps its attempts and its errors.
LEMMA RowKeepsHistory ==
  ASSUME NEW row, RowInv(row), NEW new, Replaced(row, new)
  PROVE  /\ new.attempt >= row.attempt
         /\ Len(new.errors) >= Len(row.errors)
         /\ \A i \in 1..Len(row.errors) : new.errors[i] = row.errors[i]
<1> USE MaxAttemptsPositive
<1>0. /\ row \in Job
      /\ row.attempt \in 0..MaxAttempts
      /\ row.errors \in Seq(JobError)
      /\ row.status = "running" => row.attempt \in 1..MaxAttempts
  BY DEF RowInv, Job
<1>1. \/ new.errors = row.errors
      \/ \E error \in JobError : new.errors = Append(row.errors, error)
  <2>1. ASSUME NEW reason \in Reasons, row.status = "running"
        PROVE  [attempt |-> row.attempt, reason |-> reason] \in JobError
    BY <1>0, <2>1 DEF JobError
  <2> QED
    BY <1>0, <2>1
       DEF Replaced, AfterClaim, AfterRenew, AfterCheckpoint, AfterComplete, AfterFail,
           Job, Reasons, OnFinalAttempt
<1>2. new.attempt \in {row.attempt, row.attempt + 1}
  BY <1>0
     DEF Replaced, AfterClaim, AfterRenew, AfterCheckpoint, AfterComplete, AfterFail, Job
<1> QED
  BY <1>0, <1>1, <1>2, ErrorAppended

LEMMA FinishedRowsKept ==
  RowByRow => \A d \in DOMAIN jobs :
                jobs[d].status \in {"succeeded", "failed"} =>
                  d \in DOMAIN jobs' /\ jobs'[d] = jobs[d]
BY TerminalRowKept DEF RowByRow

\* A job that succeeded or failed is never touched again.
THEOREM FinalForever == Spec => TerminalIsFinal
BY FinishedRowsKept, StepRowByRow, Invariance, PTL DEF Spec, TerminalIsFinal

LEMMA HistoriesKept ==
  IInv /\ RowByRow =>
    \A d \in DOMAIN jobs :
      /\ d \in DOMAIN jobs'
      /\ jobs'[d].attempt >= jobs[d].attempt
      /\ Len(jobs'[d].errors) >= Len(jobs[d].errors)
      /\ \A i \in 1..Len(jobs[d].errors) : jobs'[d].errors[i] = jobs[d].errors[i]
BY RowKeepsHistory DEF RowByRow, IInv

\* Errors and attempts are retained.
THEOREM HistoryRetained == Spec => HistoryOnlyGrows
BY HistoriesKept, StepRowByRow, Invariance, PTL DEF Spec, HistoryOnlyGrows

-----------------------------------------------------------------------------
\* The table implements the lifecycle.

\* Replacing a row moves its job as the lifecycle allows, or not at all.
LEMMA RowMoves ==
  ASSUME NEW row, RowInv(row), NEW new, Replaced(row, new)
  PROVE  \/ new.status = row.status /\ new.attempt = row.attempt
         \/ Lifecycle!Move(row.status, row.attempt, new.status, new.attempt)
<1>0. /\ row \in Job
      /\ row.attempt \in 0..MaxAttempts
      /\ row.status = "queuing" => row.attempt < MaxAttempts
  BY DEF RowInv, Job
<1> USE MaxAttemptsPositive
    DEF Lifecycle!Move, Lifecycle!Started, Lifecycle!Succeeded, Lifecycle!GivenBack,
        Lifecycle!Exhausted
<1>1. ASSUME NEW now, NEW lease, IsClaimable(row, now), new = AfterClaim(row, lease)
      PROVE  Lifecycle!Move(row.status, row.attempt, new.status, new.attempt)
  <2>1. CASE OnFinalAttempt(row)
    <3>1. new.status = "failed" /\ new.attempt = row.attempt
      BY <1>0, <1>1, <2>1 DEF AfterClaim, Job
    <3> QED BY <1>0, <2>1, <3>1 DEF OnFinalAttempt
  <2>2. CASE ~OnFinalAttempt(row)
    <3>1. new.status = "running" /\ new.attempt = row.attempt + 1
      BY <1>0, <1>1, <2>2 DEF AfterClaim, Job
    <3> QED BY <1>0, <1>1, <2>2, <3>1 DEF OnFinalAttempt, IsClaimable
  <2> QED BY <2>1, <2>2
<1>2. ASSUME NEW p, NEW lease, row.status = "running",
             \/ new = AfterRenew(row, lease, p)
             \/ new = AfterCheckpoint(row, p)
             \/ new = AfterComplete(row, p)
             \/ new = AfterFail(row, row.attempt, p)
      PROVE  \/ new.status = row.status /\ new.attempt = row.attempt
             \/ Lifecycle!Move(row.status, row.attempt, new.status, new.attempt)
  <2>1. CASE new = AfterRenew(row, lease, p)
    BY <1>0, <2>1 DEF AfterRenew, Job
  <2>2. CASE new = AfterCheckpoint(row, p)
    BY <1>0, <2>2 DEF AfterCheckpoint, Job
  <2>3. CASE new = AfterComplete(row, p)
    <3>1. new.status = "succeeded" /\ new.attempt = row.attempt
      BY <1>0, <2>3 DEF AfterComplete, Job
    <3> QED BY <1>2, <3>1
  <2>4. CASE new = AfterFail(row, row.attempt, p)
    <3>1. /\ new.status = IF row.attempt >= MaxAttempts THEN "failed" ELSE "queuing"
          /\ new.attempt = row.attempt
      BY <1>0, <2>4 DEF AfterFail, Job
    <3> QED BY <1>0, <1>2, <3>1
  <2> QED BY <1>2, <2>1, <2>2, <2>3, <2>4
<1> QED
  BY <1>1, <1>2 DEF Replaced

LEMMA InitMoves == Init => Lifecycle!Init
BY DEF Init, Lifecycle!Init, Phase, Attempt

LEMMA StepMoves ==
  IInv /\ IInv' /\ RowByRow => [Lifecycle!Next]_(Lifecycle!vars)
<1> SUFFICES ASSUME IInv, IInv', RowByRow
             PROVE  Lifecycle!Next
  OBVIOUS
<1> USE MaxAttemptsPositive
<1>1. /\ Phase' \in [Destinations -> Lifecycle!Phases]
      /\ Attempt' \in [Destinations -> 0..MaxAttempts]
  BY DEF IInv, RowInv, Job, JobStatus, Phase, Attempt, Lifecycle!Phases
<1>2. ASSUME NEW d \in Destinations
      PROVE  \/ Phase'[d] = Phase[d] /\ Attempt'[d] = Attempt[d]
             \/ Lifecycle!Move(Phase[d], Attempt[d], Phase'[d], Attempt'[d])
  <2>1. CASE d \in DOMAIN jobs
    BY <2>1, RowMoves DEF RowByRow, IInv, Phase, Attempt
  <2>2. CASE d \in DOMAIN jobs' \ DOMAIN jobs
    BY <2>2 DEF RowByRow, NewJob, Phase, Attempt, Lifecycle!Move, Lifecycle!Created
  <2>3. CASE d \notin DOMAIN jobs'
    BY <2>3 DEF RowByRow, Phase, Attempt
  <2> QED BY <2>1, <2>2, <2>3
<1> DEFINE moved == {d \in Destinations :
                       Lifecycle!Move(Phase[d], Attempt[d], Phase'[d], Attempt'[d])}
<1>3. moved \in SUBSET Destinations
  OBVIOUS
<1> QED
  BY <1>1, <1>2, <1>3 DEF Lifecycle!Next

\* Whatever its callers do, every job of the table lives the life that the
\* reconciler's documentation draws: JobStore implements JobLifecycle.
THEOREM LifecycleImplemented == Spec => ImplementsLifecycle
BY InitMoves, InitIInv, StepIInv, StepRowByRow, StepMoves, PTL
     DEF Spec, ImplementsLifecycle, Lifecycle!Spec

-----------------------------------------------------------------------------
\* The claim order.

\* The oldest rows of a set are ranked by how many of the set are older; the ranks
\* differ and are below limit.
LEMMA OldestOfSetAreFew ==
  ASSUME IInv, IsFiniteSet(DOMAIN jobs), NEW S \in SUBSET DOMAIN jobs, NEW limit \in Nat
  PROVE  LET oldest == {d \in S : Cardinality({e \in S : Older(e, d)}) < limit}
         IN  IsFiniteSet(oldest) /\ Cardinality(oldest) <= limit
<1> DEFINE Before(d) == {e \in S : Older(e, d)}
           oldest    == {d \in S : Cardinality(Before(d)) < limit}
           rank      == [d \in oldest |-> Cardinality(Before(d))]
<1>1. IsFiniteSet(S)
  BY FS_Subset
<1>2. ASSUME NEW d \in S
      PROVE  IsFiniteSet(Before(d)) /\ Cardinality(Before(d)) \in Nat
  BY <1>1, FS_Subset, FS_CardinalityType
<1>0. \A d \in S : d \in Int /\ jobs[d].created \in Int
  BY DestinationsOrdered, ClockReadings DEF IInv, RowInv, Job
<1>3. ASSUME NEW d \in S, NEW e \in S, Older(d, e)
      PROVE  Cardinality(Before(d)) < Cardinality(Before(e))
  <2>1. Before(d) \subseteq Before(e)
    BY <1>0, <1>3 DEF Older
  <2>2. d \in Before(e) /\ d \notin Before(d)
    BY <1>0, <1>3 DEF Older
  <2> HIDE DEF Before
  <2> QED BY <1>2, <2>1, <2>2, FS_Subset
<1>4. ASSUME NEW d \in S, NEW e \in S, d # e
      PROVE  Older(d, e) \/ Older(e, d)
  BY <1>0, <1>4 DEF Older
<1>5. rank \in Injection(oldest, 0..(limit - 1))
  <2>1. \A d \in oldest : d \in S /\ Cardinality(Before(d)) < limit
    OBVIOUS
  <2> HIDE DEF oldest, Before
  <2>2. rank \in [oldest -> 0..(limit - 1)]
    BY <1>2, <2>1
  <2>3. \A d, e \in oldest : rank[d] = rank[e] => d = e
    BY <1>2, <1>3, <1>4, <2>1
  <2> QED BY <2>2, <2>3, Fun_IsInj
<1>6. IsFiniteSet(0..(limit - 1)) /\ Cardinality(0..(limit - 1)) = limit
  BY FS_Interval
<1> HIDE DEF oldest, rank
<1>7. IsFiniteSet(oldest) /\ Cardinality(oldest) <= limit
  BY <1>5, <1>6, FS_Injection
<1> QED BY <1>7 DEF oldest

\* So the claims of Spec take at most limit rows: they are claims of UnorderedSpec.
LEMMA OldestAreFew ==
  ASSUME IInv, IsFiniteSet(DOMAIN jobs), NEW now, NEW limit \in Nat
  PROVE  Cardinality(OldestClaimable(now, limit)) <= limit
<1>1. Claimable(now) \in SUBSET DOMAIN jobs
  BY DEF Claimable
<1> QED  BY <1>1, OldestOfSetAreFew DEF OldestClaimable

\* The ordered store implements the unordered one, which is the specification
\* the PostgreSQL store is checked against.
THEOREM OrderIsARefinement == Spec => UnorderedSpec
<1> DEFINE Finite == IsFiniteSet(DOMAIN jobs)
<1>1. Init => Finite
  BY FS_EmptySet DEF Init
<1>2. Finite /\ [Next]_jobs => Finite'
  <2> SUFFICES ASSUME Finite, [Next]_jobs
               PROVE  Finite'
    OBVIOUS
  <2>1. ASSUME NEW d, NEW now, CreateJob(d, now)
        PROVE  Finite'
    <3>1. DOMAIN jobs' = DOMAIN jobs \cup {d}
      BY <2>1 DEF CreateJob
    <3> QED BY <3>1, FS_AddElement
  <2>2. CASE ~Create
    <3>1. DOMAIN jobs' = DOMAIN jobs
      BY <2>2 DEF Next, Claim, ClaimJobs, ClaimBatch, WorkerCall, RenewLease,
                  CheckpointProgress, CompleteJob, FailJob, Update
    <3> QED BY <3>1
  <2> QED BY <2>1, <2>2 DEF Create
<1>3. IInv /\ Finite /\ [Next]_jobs => [UnorderedNext]_jobs
  <2> SUFFICES ASSUME IInv, Finite, Claim
               PROVE  ClaimAny
    BY DEF Next, UnorderedNext
  <2>1. PICK now \in Timestamps, limit \in ClaimLimits, duration \in LeaseDurations :
          ClaimJobs(now, limit, duration)
    BY DEF Claim
  <2>2. /\ OldestClaimable(now, limit) \in SUBSET Claimable(now)
        /\ Cardinality(OldestClaimable(now, limit)) <= limit
    BY CallArguments, OldestAreFew DEF OldestClaimable
  <2> QED BY <2>1, <2>2 DEF ClaimAny, ClaimJobs
<1> QED
  BY <1>1, <1>2, <1>3, Invariance, PTL DEF Spec, UnorderedSpec

\* So whatever implements the unordered store keeps all that JobStore promises.
THEOREM PromisesOfUnordered ==
  UnorderedSpec => /\ []TypeOK /\ []HistoryCoversAttempts /\ []NeverStranded
                   /\ []SchemaChecksHold
                   /\ TerminalIsFinal /\ HistoryOnlyGrows /\ ImplementsLifecycle
<1>1. UnorderedSpec => []IInv /\ [][RowByRow]_jobs
  BY InitIInv, StepIInv, StepRowByRow, PTL DEF UnorderedSpec
<1>2. IInv => TypeOK /\ HistoryCoversAttempts /\ NeverStranded /\ SchemaChecksHold
  BY RowsAreRecoverable
     DEF IInv, RowInv, TypeOK, HistoryCoversAttempts, SchemaChecksHold
<1>3. UnorderedSpec => TerminalIsFinal
  BY <1>1, FinishedRowsKept, PTL DEF TerminalIsFinal
<1>4. UnorderedSpec => HistoryOnlyGrows
  BY <1>1, HistoriesKept, PTL DEF HistoryOnlyGrows
<1>5. UnorderedSpec => ImplementsLifecycle
  BY InitMoves, InitIInv, StepIInv, StepRowByRow, StepMoves, PTL
     DEF UnorderedSpec, ImplementsLifecycle, Lifecycle!Spec
<1> QED  BY <1>1, <1>2, <1>3, <1>4, <1>5, PTL

=============================================================================
