------------------------------ MODULE JobStore ------------------------------
(***************************************************************************)
(* The jobs table and the operations of the JobStore trait on it, as       *)
(* job-store-sqlite performs them: every operation that writes is one      *)
(* BEGIN IMMEDIATE transaction, so it is one atomic step, and an operation *)
(* that returns an error (or is cut off by a crash) rolls back and leaves  *)
(* the table as it was.                                                    *)
(*                                                                         *)
(* The callers are left open: any caller may name any destination, any     *)
(* attempt and any progress report at any time.  Each operation reads the  *)
(* wall clock of the process it runs in (job-store/src/clock.rs); clocks   *)
(* of different processes disagree and may be set back, so an operation    *)
(* gets an arbitrary reading.                                              *)
(*                                                                         *)
(* Columns no statement ever compares are left out: creator, source,       *)
(* options, and the update and error timestamps.                           *)
(***************************************************************************)
EXTENDS Integers, Sequences, FiniteSets, RowCounts

CONSTANTS
  Destinations,     \* destination URIs, the primary key; numbered in URI order
  MaxAttempts,      \* MAX_JOB_ATTEMPTS
  Timestamps,       \* what a wall clock may read, in milliseconds
  MaxTimestamp,     \* i64::MAX
  LeaseDurations,   \* convert_lease_duration_ms of a caller
  ClaimLimits,      \* limit of a claim_jobs call
  Reports,          \* the JobProgress snapshots callers send
  NoLease           \* the NULL of lease_expiration_timestamp_ms

ASSUME DestinationsOrdered == Destinations \subseteq Int
ASSUME MaxAttemptsPositive == MaxAttempts \in Nat \ {0}
ASSUME ClockReadings       == Timestamps \subseteq Int /\ MaxTimestamp \in Int
ASSUME CallArguments       == /\ LeaseDurations \subseteq Int
                              /\ ClaimLimits \subseteq Nat
                              /\ Reports \subseteq JobProgress
ASSUME NoLeaseIsNull       == NoLease \notin Int

VARIABLE jobs       \* the table: a row for every destination that has a job

-----------------------------------------------------------------------------
\* Rows.

JobStatus == {"queuing", "running", "succeeded", "failed"}

\* A failed conversion (whose text is not modelled), "lease expired before
\* completion" and "lease expired on final attempt".
Reasons == {"conversion_error", "lease_expired", "final_lease_expired"}

JobError == [attempt : 1..MaxAttempts, reason : Reasons]

Job == [status   : JobStatus,
        created  : Timestamps,
        attempt  : 0..MaxAttempts,
        errors   : Seq(JobError),
        lease    : Int \cup {NoLease},
        progress : JobProgress]

NewJob(now) ==
  [status |-> "queuing", created |-> now, attempt |-> 0, errors |-> <<>>,
   lease |-> NoLease, progress |-> NoProgress]

Init == jobs = [d \in {} |-> NewJob(0)]

Update(d, row) == jobs' = [jobs EXCEPT ![d] = row]

-----------------------------------------------------------------------------
\* create_job: an INSERT that the primary key rejects when the destination
\* already has a job, whatever became of it.

\* Mutant of CreateJob: INSERT OR REPLACE.
CreateJobReplacing(d, now) ==
  jobs' = [e \in DOMAIN jobs \cup {d} |-> IF e = d THEN NewJob(now) ELSE jobs[e]]

CreateJob(d, now) ==
  /\ d \notin DOMAIN jobs
  /\ jobs' = [e \in DOMAIN jobs \cup {d} |-> IF e = d THEN NewJob(now) ELSE jobs[e]]

-----------------------------------------------------------------------------
\* claim_jobs.

\* Mutant of IsClaimable: a job without a lease counts as one whose lease expired.
IsClaimableUnlessLeased(row, now) ==
  \/ row.status = "queuing" /\ row.attempt < MaxAttempts
  \/ row.status # "queuing" /\ (row.lease # NoLease => row.lease <= now)

\* Mutant of IsClaimable: the lease comparison is the wrong way round.
IsClaimableBeforeExpiry(row, now) ==
  \/ row.status = "queuing" /\ row.attempt < MaxAttempts
  \/ row.status = "running" /\ row.lease # NoLease /\ row.lease >= now

\* The WHERE clause of the SELECT.
IsClaimable(row, now) ==
  \/ row.status = "queuing" /\ row.attempt < MaxAttempts
  \/ row.status = "running" /\ row.lease # NoLease /\ row.lease <= now

Claimable(now) == {d \in DOMAIN jobs : IsClaimable(jobs[d], now)}

\* ORDER BY creation_timestamp_ms, destination_uri
Older(d, e) ==
  \/ jobs[d].created < jobs[e].created
  \/ jobs[d].created = jobs[e].created /\ d < e

\* ... LIMIT limit
OldestClaimable(now, limit) ==
  {d \in Claimable(now) : Cardinality({e \in Claimable(now) : Older(e, d)}) < limit}

OnFinalAttempt(row) == row.status = "running" /\ row.attempt >= MaxAttempts

\* Mutant of AfterClaim: an expired final attempt is started once more.
AfterClaimUncapped(row, lease) ==
  [row EXCEPT !.status  = "running",
              !.lease   = lease,
              !.attempt = @ + 1,
              !.errors  = IF row.status = "running"
                          THEN Append(@, [attempt |-> row.attempt,
                                          reason  |-> "lease_expired"])
                          ELSE @]

\* Mutant of AfterClaim: the attempt that lost its lease leaves no error.
AfterClaimForgetful(row, lease) ==
  IF OnFinalAttempt(row)
  THEN [row EXCEPT !.status = "failed", !.lease = NoLease]
  ELSE [row EXCEPT !.status = "running", !.lease = lease, !.attempt = @ + 1]

\* Mutant of AfterClaim: an expired attempt is continued under its old number.
AfterClaimSameAttempt(row, lease) ==
  IF OnFinalAttempt(row)
  THEN [row EXCEPT !.status = "failed", !.lease = NoLease]
  ELSE [row EXCEPT !.status  = "running",
                   !.lease   = lease,
                   !.attempt = IF row.status = "running" THEN @ ELSE @ + 1]

\* What claiming does to one selected row: a queuing job starts its next
\* attempt; a running job whose lease expired first gets an error for the
\* attempt that was abandoned, and fails if that attempt was its last.
AfterClaim(row, lease) ==
  IF OnFinalAttempt(row)
  THEN [row EXCEPT !.status = "failed",
                   !.lease  = NoLease,
                   !.errors = Append(@, [attempt |-> row.attempt,
                                         reason  |-> "final_lease_expired"])]
  ELSE [row EXCEPT !.status  = "running",
                   !.lease   = lease,
                   !.attempt = @ + 1,
                   !.errors  = IF row.status = "running"
                               THEN Append(@, [attempt |-> row.attempt,
                                               reason  |-> "lease_expired"])
                               ELSE @]

CanLease(now, duration) == duration > 0 /\ now + duration <= MaxTimestamp

\* The effect of a claim that selected the rows of batch.
ClaimBatch(batch, now, duration) ==
  /\ CanLease(now, duration)
  /\ jobs' = [d \in DOMAIN jobs |->
                IF d \in batch THEN AfterClaim(jobs[d], now + duration) ELSE jobs[d]]

\* The jobs claim_jobs returns: those of the batch it did not have to fail.
HandedOut(batch) == {d \in batch : ~OnFinalAttempt(jobs[d])}

ClaimJobs(now, limit, duration) ==
  /\ limit > 0
  /\ ClaimBatch(OldestClaimable(now, limit), now, duration)

-----------------------------------------------------------------------------
\* The operations of the worker that runs attempt a of job d.

\* Mutant of HoldsLease: the attempt is not compared.
HoldsLeaseByAnyone(d, a, now) ==
  /\ d \in DOMAIN jobs
  /\ jobs[d].status = "running"
  /\ jobs[d].lease # NoLease
  /\ jobs[d].lease > now

\* The status, attempt and expiry test of validate_progress_update, repeated
\* in the WHERE clause of every UPDATE.
HoldsLease(d, a, now) ==
  /\ d \in DOMAIN jobs
  /\ jobs[d].status = "running"
  /\ jobs[d].attempt = a
  /\ jobs[d].lease # NoLease
  /\ jobs[d].lease > now

Accepts(d, a, now, p) == HoldsLease(d, a, now) /\ WithinTotal(p)

\* Mutant of AfterRenew: the renewal stores the progress only.
AfterRenewUnextended(row, lease, p) == [row EXCEPT !.progress = p]

AfterRenew(row, lease, p) == [row EXCEPT !.lease = lease, !.progress = p]

RenewLease(d, a, now, duration, p) ==
  /\ Accepts(d, a, now, p)
  /\ CanLease(now, duration)
  /\ Update(d, AfterRenew(jobs[d], now + duration, p))

AfterCheckpoint(row, p) == [row EXCEPT !.progress = p]

CheckpointProgress(d, a, now, p) ==
  /\ Accepts(d, a, now, p)
  /\ Update(d, AfterCheckpoint(jobs[d], p))

AfterComplete(row, p) ==
  [row EXCEPT !.status = "succeeded", !.lease = NoLease, !.progress = p]

CompleteJob(d, a, now, p) ==
  /\ Accepts(d, a, now, p)
  /\ Update(d, AfterComplete(jobs[d], p))

\* Mutant of AfterFail: one attempt too many is given back to the queue.
AfterFailLate(row, a, p) ==
  [row EXCEPT !.status   = IF a > MaxAttempts THEN "failed" ELSE "queuing",
              !.lease    = NoLease,
              !.errors   = Append(@, [attempt |-> a, reason |-> "conversion_error"]),
              !.progress = p]

\* Mutant of AfterFail: the new error replaces the history.
AfterFailOverwriting(row, a, p) ==
  [row EXCEPT !.status   = IF a >= MaxAttempts THEN "failed" ELSE "queuing",
              !.lease    = NoLease,
              !.errors   = <<[attempt |-> a, reason |-> "conversion_error"]>>,
              !.progress = p]

\* Mutant of AfterFail: no retry.
AfterFailGivingUp(row, a, p) ==
  [row EXCEPT !.status   = "failed",
              !.lease    = NoLease,
              !.errors   = Append(@, [attempt |-> a, reason |-> "conversion_error"]),
              !.progress = p]

AfterFail(row, a, p) ==
  [row EXCEPT !.status   = IF a >= MaxAttempts THEN "failed" ELSE "queuing",
              !.lease    = NoLease,
              !.errors   = Append(@, [attempt |-> a, reason |-> "conversion_error"]),
              !.progress = p]

FailJob(d, a, now, p) ==
  /\ Accepts(d, a, now, p)
  /\ Update(d, AfterFail(jobs[d], a, p))

-----------------------------------------------------------------------------
Create == \E d \in Destinations, now \in Timestamps : CreateJob(d, now)

WorkerCall ==
  \E d \in Destinations, a \in 0..MaxAttempts, now \in Timestamps, p \in Reports :
    \/ \E duration \in LeaseDurations : RenewLease(d, a, now, duration, p)
    \/ CheckpointProgress(d, a, now, p)
    \/ CompleteJob(d, a, now, p)
    \/ FailJob(d, a, now, p)

Claim ==
  \E now \in Timestamps, limit \in ClaimLimits, duration \in LeaseDurations :
    ClaimJobs(now, limit, duration)

Next == Create \/ Claim \/ WorkerCall

Spec == Init /\ [][Next]_jobs

\* The same store without the claim order: a claim takes any claimable jobs, at
\* most limit of them.  PostgreSQL's claim, which skips locked rows, is only
\* this orderly.
ClaimAny ==
  \E now \in Timestamps, limit \in ClaimLimits, duration \in LeaseDurations :
    \E batch \in SUBSET Claimable(now) :
      Cardinality(batch) <= limit /\ ClaimBatch(batch, now, duration)

UnorderedNext == Create \/ ClaimAny \/ WorkerCall

UnorderedSpec == Init /\ [][UnorderedNext]_jobs
-----------------------------------------------------------------------------
\* Properties.

\* Every row is a job of a destination, with at most MaxAttempts attempts.
TypeOK ==
  /\ DOMAIN jobs \subseteq Destinations
  /\ jobs \in [DOMAIN jobs -> Job]

\* The error history tells what became of every attempt: the i-th entry is
\* about attempt i, and only the attempt in progress or the one that succeeded
\* has none.  An expired lease is reported by claim_jobs, a failed conversion by
\* fail_job, and a final attempt that expired closes the history of a failed job.
HistoryComplete(row) ==
  /\ Len(row.errors) = IF row.status \in {"running", "succeeded"}
                       THEN row.attempt - 1 ELSE row.attempt
  /\ \A i \in 1..Len(row.errors) :
       /\ row.errors[i].attempt = i
       /\ row.errors[i].reason = "final_lease_expired" =>
            row.status = "failed" /\ i = MaxAttempts
  /\ row.status = "failed" => row.attempt = MaxAttempts

HistoryCoversAttempts == \A d \in DOMAIN jobs : HistoryComplete(jobs[d])

\* A job that is not finished is never stranded: some reading of the clock, at
\* the latest its own lease expiration, lets claim_jobs pick it up again.
Recoverable(row) ==
  row.status \in {"queuing", "running"} =>
    \E now \in Timestamps \cup {row.lease} : IsClaimable(row, now)

NeverStranded == \A d \in DOMAIN jobs : Recoverable(jobs[d])

CountsChecked(progress) ==
  \/ progress.rows_total = 0
  \/ \A field \in DOMAIN NoProgress : progress[field] <= progress.rows_total

\* No sequence of calls makes an operation run into a CHECK of the jobs table
\* (it would return a database error, which stops the reconciler): a running job
\* has a lease, and row counts stay within a known total.  A job that is not
\* running has no lease left behind.
SchemaChecked(row) ==
  /\ row.status = "running" <=> row.lease # NoLease
  /\ CountsChecked(row.progress)

SchemaChecksHold == \A d \in DOMAIN jobs : SchemaChecked(jobs[d])

\* A succeeded or failed job never changes again: no stale worker, late report
\* or claim touches its row, and it cannot be submitted again.
TerminalIsFinal ==
  [][\A d \in DOMAIN jobs :
       jobs[d].status \in {"succeeded", "failed"} =>
         d \in DOMAIN jobs' /\ jobs'[d] = jobs[d]]_jobs

\* Errors are retained: a step appends to a job's history or leaves it alone,
\* although fail_job writes the whole array back, and attempts are never taken
\* back, although a job is.
HistoryOnlyGrows ==
  [][\A d \in DOMAIN jobs :
       /\ d \in DOMAIN jobs'
       /\ jobs'[d].attempt >= jobs[d].attempt
       /\ Len(jobs'[d].errors) >= Len(jobs[d].errors)
       /\ \A i \in 1..Len(jobs[d].errors) : jobs'[d].errors[i] = jobs[d].errors[i]]_jobs

\* Each job lives the life of JobLifecycle.
Phase == [d \in Destinations |-> IF d \in DOMAIN jobs THEN jobs[d].status ELSE "absent"]
Attempt == [d \in Destinations |-> IF d \in DOMAIN jobs THEN jobs[d].attempt ELSE 0]

Lifecycle == INSTANCE JobLifecycle WITH phase <- Phase, attempt <- Attempt

\* The table implements the lifecycle the reconciler's documentation draws.
ImplementsLifecycle == Lifecycle!Spec
=============================================================================
