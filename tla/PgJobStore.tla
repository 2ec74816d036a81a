----------------------------- MODULE PgJobStore -----------------------------
(***************************************************************************)
(* The PostgreSQL job store, statement by statement.  An operation is a    *)
(* transaction at READ COMMITTED whose statements interleave with those of *)
(* other transactions:                                                     *)
(*                                                                         *)
(*   - a plain SELECT reads the committed row and locks nothing;           *)
(*   - SELECT ... FOR UPDATE SKIP LOCKED passes over rows another          *)
(*     transaction holds, and locks those it returns;                      *)
(*   - UPDATE and INSERT wait for the transaction that holds the row (or   *)
(*     the key), look at the row again once it is gone, and lock it;       *)
(*   - written rows appear, and locks are released, at COMMIT; any error,  *)
(*     a lost connection or a killed process rolls back.                   *)
(*                                                                         *)
(* The table and what an operation does to one row are those of JobStore:  *)
(* the statements compute the same rows in both stores.  A transaction     *)
(* reads its process's clock once, before its first statement, so that     *)
(* reading may be old by the time it commits.  As readings are arbitrary,  *)
(* BEGIN, the reading and the first statement are one step here.           *)
(***************************************************************************)
EXTENDS JobStore

CONSTANT Sessions     \* connections, of all the processes that use the store

VARIABLE txn          \* the transaction open in each session

pgvars == <<jobs, txn>>

NoCall   == [op |-> "none"]
NoWrites == [d \in {} |-> NewJob(0)]

\* A transaction: the call it performs, the rows its UPDATEs have still to
\* reach, the rows it selected FOR UPDATE, the rows it wrote, and the errors
\* fail_job read from the row.
Transaction(call, todo, locked, writes, errors) ==
  [call |-> call, todo |-> todo, locked |-> locked, writes |-> writes, errors |-> errors]

Idle == Transaction(NoCall, {}, {}, NoWrites, <<>>)

PgInit == Init /\ txn = [s \in Sessions |-> Idle]

IsIdle(s) == txn[s].call.op = "none"

Holds(s) == txn[s].locked \cup DOMAIN txn[s].writes

Locked(d)       == \E s \in Sessions : d \in Holds(s)
LockedFrom(s,d) == \E t \in Sessions \ {s} : d \in Holds(t)

Open(s, call, todo, locked, errors) ==
  /\ IsIdle(s)
  /\ txn' = [txn EXCEPT ![s] = Transaction(call, todo, locked, NoWrites, errors)]
  /\ UNCHANGED jobs

Write(s, d, row) ==
  /\ d \in txn[s].todo
  /\ ~LockedFrom(s, d)
  /\ txn' = [txn EXCEPT ![s].todo = @ \ {d},
                        ![s].writes = [e \in DOMAIN @ \cup {d} |->
                                         IF e = d THEN row ELSE @[e]]]
  /\ UNCHANGED jobs

\* COMMIT, once every UPDATE has run.
Commit(s) ==
  /\ ~IsIdle(s)
  /\ txn[s].todo = {}
  /\ jobs' = [d \in DOMAIN jobs \cup DOMAIN txn[s].writes |->
                IF d \in DOMAIN txn[s].writes THEN txn[s].writes[d] ELSE jobs[d]]
  /\ txn' = [txn EXCEPT ![s] = Idle]

\* An error return drops the transaction; so does a lost connection or process.
Rollback(s) ==
  /\ ~IsIdle(s)
  /\ txn' = [txn EXCEPT ![s] = Idle]
  /\ UNCHANGED jobs

-----------------------------------------------------------------------------
\* create_job: one INSERT.  It waits for a transaction that inserts the same
\* key, and fails if that one commits.

BeginCreate(s, d, now) ==
  Open(s, [op |-> "create", now |-> now], {d}, {}, <<>>)

Insert(s) ==
  /\ txn[s].call.op = "create"
  /\ \E d \in txn[s].todo : d \notin DOMAIN jobs /\ Write(s, d, NewJob(txn[s].call.now))

-----------------------------------------------------------------------------
\* claim_jobs.

\* The rows the SELECT returns: the oldest claimable ones nobody has locked.
SelectUnlocked(now, limit) ==
  LET unlocked == {d \in Claimable(now) : ~Locked(d)}
  IN  {d \in unlocked : Cardinality({e \in unlocked : Older(e, d)}) < limit}

\* Mutant of RowsLocked: a SELECT without FOR UPDATE.
RowsLockedNone(batch) == {}

\* The rows it locks.
RowsLocked(batch) == batch

BeginClaim(s, now, limit, duration) ==
  /\ limit > 0
  /\ CanLease(now, duration)
  /\ LET batch == SelectUnlocked(now, limit)
     IN  Open(s, [op |-> "claim", now |-> now, lease |-> now + duration],
              batch, RowsLocked(batch), <<>>)

\* load_job and the UPDATE of one selected row, whose WHERE names only the
\* destination.
ClaimRow(s) ==
  /\ txn[s].call.op = "claim"
  /\ \E d \in txn[s].todo :
       /\ \A e \in txn[s].todo \ {d} : Older(d, e)
       /\ Write(s, d, AfterClaim(jobs[d], txn[s].call.lease))

-----------------------------------------------------------------------------
\* renew_lease, checkpoint_progress, complete_job, fail_job.

WorkerOps == {"renew", "checkpoint", "complete", "fail"}

\* validate_progress_update: a plain SELECT, which locks nothing.  fail_job
\* keeps the errors it read.
BeginWorkerCall(s, op, d, a, now, duration, p) ==
  /\ Accepts(d, a, now, p)
  /\ op = "renew" => CanLease(now, duration)
  /\ Open(s, [op |-> op, attempt |-> a, now |-> now,
              lease |-> IF op = "renew" THEN now + duration ELSE NoLease,
              progress |-> p],
          {d}, {}, IF op = "fail" THEN jobs[d].errors ELSE <<>>)

\* Mutant of StillHeld: the WHERE clause without attempt = $2.
StillHeldByAnyone(d, a, now) ==
  jobs[d].status = "running" /\ jobs[d].lease # NoLease /\ jobs[d].lease > now

\* The WHERE clause of the UPDATE, evaluated on the row as it is then.
StillHeld(d, a, now) == HoldsLease(d, a, now)

\* The row the UPDATE writes.  fail_job writes back the errors it read earlier,
\* and its own.
Updated(row, call, errors) ==
  CASE call.op = "renew"      -> AfterRenew(row, call.lease, call.progress)
    [] call.op = "checkpoint" -> AfterCheckpoint(row, call.progress)
    [] call.op = "complete"   -> AfterComplete(row, call.progress)
    [] call.op = "fail"       -> AfterFail([row EXCEPT !.errors = errors],
                                           call.attempt, call.progress)

UpdateRow(s) ==
  /\ txn[s].call.op \in WorkerOps
  /\ \E d \in txn[s].todo :
       /\ StillHeld(d, txn[s].call.attempt, txn[s].call.now)
       /\ Write(s, d, Updated(jobs[d], txn[s].call, txn[s].errors))

-----------------------------------------------------------------------------
Begin(s) ==
  \E now \in Timestamps :
    \/ \E d \in Destinations : BeginCreate(s, d, now)
    \/ \E limit \in ClaimLimits, duration \in LeaseDurations :
         BeginClaim(s, now, limit, duration)
    \/ \E op \in WorkerOps, d \in Destinations, a \in 0..MaxAttempts,
          duration \in LeaseDurations, p \in Reports :
         BeginWorkerCall(s, op, d, a, now, duration, p)

Statement(s) == Insert(s) \/ ClaimRow(s) \/ UpdateRow(s)

PgNext == \E s \in Sessions : Begin(s) \/ Statement(s) \/ Commit(s) \/ Rollback(s)

PgSpec == PgInit /\ [][PgNext]_pgvars
-----------------------------------------------------------------------------
\* Properties.

\* Every transaction is well formed, and no row has two holders.
PgTypeOK ==
  /\ TypeOK
  /\ \A s \in Sessions :
       /\ txn[s].call.op \in {"none", "create", "claim"} \cup WorkerOps
       /\ txn[s].todo \cup Holds(s) \subseteq Destinations
       /\ \A d \in DOMAIN txn[s].writes : txn[s].writes[d] \in Job
       /\ \A t \in Sessions \ {s} : Holds(s) \cap Holds(t) = {}

\* No lost update: whatever committed between the unlocked read of a
\* transaction and its UPDATE, the row it is about to commit is what the
\* operation makes of the row in the table now.  So fail_job, which writes back
\* an array it read before it held the lock, drops nobody's error, and the claim
\* UPDATE, which checks nothing, starts only jobs that are still claimable.
WritesApply ==
  \A s \in Sessions : \A d \in DOMAIN txn[s].writes :
    LET call == txn[s].call
        new  == txn[s].writes[d]
    IN  \/ call.op = "create" /\ d \notin DOMAIN jobs
        \/ /\ call.op = "claim"
           /\ IsClaimable(jobs[d], call.now)
           /\ new = AfterClaim(jobs[d], call.lease)
        \/ /\ call.op \in WorkerOps
           /\ HoldsLease(d, call.attempt, call.now)
           /\ new = Updated(jobs[d], call, jobs[d].errors)

\* No deadlock between transactions: one that waits for a row holds none, so
\* PostgreSQL never has to abort one to break a cycle (which would stop the
\* reconciler with a database error).
Waits(s) == \E d \in txn[s].todo : LockedFrom(s, d)

NoHoldAndWait == \A s \in Sessions : Waits(s) => Holds(s) = {}

\* Statement by statement, the PostgreSQL store is the atomic store, except that
\* claims skip locked rows: each COMMIT is one operation of JobStore, performed
\* on the table as it is at the commit with the clock as it was at the start.
ImplementsStore == UnorderedSpec
=============================================================================
