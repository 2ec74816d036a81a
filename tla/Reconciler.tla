----------------------------- MODULE Reconciler -----------------------------
(***************************************************************************)
(* Reconciler processes that share one job store: each polls the store,    *)
(* claims jobs up to the free places of its worker pool, and runs one task *)
(* per claimed job (run and run_job in reconciler.rs).  Processes crash    *)
(* and are restarted by a supervisor, store calls fail, conversions take   *)
(* any time, succeed or fail, and may hang.                                *)
(*                                                                         *)
(* Time is relative: a lease is what is left of it on the slowest clock,   *)
(* Tick takes one unit off every lease, and process p reads Clock[p], how  *)
(* far it is ahead.  A lease of 0 has expired on every clock.  So only     *)
(* differences of readings matter, as in the code, and the state space is  *)
(* finite without a horizon.  The store is the atomic one; creation times, *)
(* which only order the claims, are all 0, which leaves the order of the   *)
(* destinations.                                                           *)
(***************************************************************************)
EXTENDS JobStore

CONSTANTS
  Processes,      \* reconciler processes
  WorkerCount,    \* --worker-count
  Clock,          \* how far the clock of each process is ahead
  LeaseDuration,  \* --lease-duration-secs, in ticks
  RenewInterval,  \* --lease-renew-interval-secs, in ticks
  Timely,         \* whether no timer is served more than MaxDelay late
  MaxDelay,
  Hanging,        \* the jobs whose conversion need not end
  MaxFaults       \* bound on crashes and failed store calls

ASSUME WorkerCountPositive == WorkerCount \in Nat \ {0}
ASSUME ClocksAreReadings   == Clock \in [Processes -> Timestamps \cap Nat] /\ 0 \in Timestamps
ASSUME LeaseIsGranted      == /\ LeaseDuration \in LeaseDurations
                              /\ \A p \in Processes : CanLease(Clock[p], LeaseDuration)
ASSUME RenewalsFitLease    ==
  Timely => /\ RenewInterval \in Nat \ {0} /\ MaxDelay \in Nat
            /\ LeaseDuration \div RenewInterval >= 5
            /\ \A p, q \in Processes :
                 RenewInterval + MaxDelay + (Clock[q] - Clock[p]) < LeaseDuration
ASSUME FaultsBounded       == MaxFaults \in Nat /\ Hanging \subseteq Destinations

VARIABLES
  up,       \* the processes that run
  tasks,    \* the tasks in each process's JoinSet
  faults    \* crashes and failed store calls so far

rvars == <<jobs, up, tasks, faults>>

TaskStates == {"converting", "converted", "errored",  \* conversion pending or resolved
               "succeeded", "gave_back",              \* Ok(()), not yet joined
               "lost"}                                \* an error, not yet joined

\* A task runs attempt a of job d; age is the time since its lease was set.
Task(d, a, state, age) == [d |-> d, a |-> a, state |-> state, age |-> age]

IsActive(t) == t.state \in {"converting", "converted", "errored"}

RInit ==
  /\ Init
  /\ up = Processes
  /\ tasks = [p \in Processes |-> {}]
  /\ faults = 0

\* A client submits a job.
Submit(d) == CreateJob(d, 0) /\ UNCHANGED <<up, tasks, faults>>

-----------------------------------------------------------------------------
\* The polling loop.

\* try_join_next: finished tasks leave the pool, and an error of one of them
\* ends the process, which aborts all the others.
HasLostTask(p) == \E t \in tasks[p] : t.state = "lost"

Unfinished(p) == {t \in tasks[p] : IsActive(t)}

\* Mutant of Available: tasks still running are not counted.
AvailableUncounted(p) == WorkerCount

Available(p) == WorkerCount - Cardinality(Unfinished(p))

\* The tasks of the jobs that the claim of the current step handed out.
Spawned(p) ==
  LET batch == OldestClaimable(Clock[p], Available(p))
  IN  {Task(d, jobs'[d].attempt, "converting", 0) : d \in HandedOut(batch)}

ClaimForPool(p) == ClaimJobs(Clock[p], Available(p), LeaseDuration)

Poll(p) ==
  /\ p \in up
  /\ ~HasLostTask(p)
  /\ IF Available(p) > 0
     THEN /\ ClaimForPool(p)
          /\ tasks' = [tasks EXCEPT ![p] = Unfinished(p) \cup Spawned(p)]
     ELSE /\ tasks' = [tasks EXCEPT ![p] = Unfinished(p)]
          /\ UNCHANGED jobs
  /\ UNCHANGED <<up, faults>>

\* Mutant of Stop: the tasks are spawned detached, and outlive the loop.
StopKeepingTasks(p) == up' = up \ {p} /\ UNCHANGED tasks

\* The process ends; dropping the JoinSet aborts its tasks.
Stop(p) ==
  /\ up' = up \ {p}
  /\ tasks' = [tasks EXCEPT ![p] = {}]

\* result?? returns the error of a task from run, and main from the process.
Exit(p) ==
  /\ p \in up
  /\ HasLostTask(p)
  /\ Stop(p)
  /\ UNCHANGED <<jobs, faults>>

Fault == faults < MaxFaults /\ faults' = faults + 1

Crash(p) == p \in up /\ Fault /\ Stop(p) /\ UNCHANGED jobs

\* The claim commits, but the process dies, or gets an error, before it has
\* started the tasks.
ClaimAndDie(p) ==
  /\ p \in up
  /\ ~HasLostTask(p)
  /\ Available(p) > 0
  /\ ClaimForPool(p)
  /\ Fault
  /\ Stop(p)

\* The process supervisor.
Restart(p) == p \notin up /\ up' = up \cup {p} /\ UNCHANGED <<jobs, tasks, faults>>

-----------------------------------------------------------------------------
\* A task.

Become(p, t, state, age) ==
  tasks' = [tasks EXCEPT ![p] = (@ \ {t}) \cup {Task(t.d, t.a, state, age)}]

\* The conversion future resolves.
ConversionEnds(p, t) ==
  /\ t.state = "converting"
  /\ \E state \in {"converted", "errored"} : Become(p, t, state, t.age)
  /\ UNCHANGED <<jobs, up, faults>>

\* The timers of the select loop.  They run only until the conversion ends.
Renew(p, t) ==
  /\ t.state = "converting"
  /\ \E r \in Reports : RenewLease(t.d, t.a, Clock[p], LeaseDuration, r)
  /\ Become(p, t, "converting", 0)
  /\ UNCHANGED <<up, faults>>

Checkpoint(p, t) ==
  /\ t.state = "converting"
  /\ \E r \in Reports : CheckpointProgress(t.d, t.a, Clock[p], r)
  /\ UNCHANGED <<up, tasks, faults>>

Complete(p, t) ==
  /\ t.state = "converted"
  /\ \E r \in Reports : CompleteJob(t.d, t.a, Clock[p], r)
  /\ Become(p, t, "succeeded", 0)
  /\ UNCHANGED <<up, faults>>

\* Mutant of Fail: the error is recorded, and then returned.
FailAndReturnError(p, t) ==
  /\ t.state = "errored"
  /\ \E r \in Reports : FailJob(t.d, t.a, Clock[p], r)
  /\ Become(p, t, "lost", 0)
  /\ UNCHANGED <<up, faults>>

Fail(p, t) ==
  /\ t.state = "errored"
  /\ \E r \in Reports : FailJob(t.d, t.a, Clock[p], r)
  /\ Become(p, t, "gave_back", 0)
  /\ UNCHANGED <<up, faults>>

\* Mutant of Refused: the error of a renewal or a checkpoint is ignored.
RefusedWhenEnded(p, t) ==
  /\ t.state \in {"converted", "errored"}
  /\ \E r \in Reports : ~Accepts(t.d, t.a, Clock[p], r)
  /\ Become(p, t, "lost", 0)
  /\ UNCHANGED <<jobs, up, faults>>

\* Any of these four calls is refused, and the task returns the error.
Refused(p, t) ==
  /\ IsActive(t)
  /\ \E r \in Reports : ~Accepts(t.d, t.a, Clock[p], r)
  /\ Become(p, t, "lost", 0)
  /\ UNCHANGED <<jobs, up, faults>>

\* A store call returns a database error, applied or not.
StoreFails(p, t) ==
  /\ IsActive(t)
  /\ Fault
  /\ \/ UNCHANGED jobs
     \/ \E r \in Reports :
          \/ /\ t.state = "converting"
             /\ \/ RenewLease(t.d, t.a, Clock[p], LeaseDuration, r)
                \/ CheckpointProgress(t.d, t.a, Clock[p], r)
          \/ t.state = "converted" /\ CompleteJob(t.d, t.a, Clock[p], r)
          \/ t.state = "errored" /\ FailJob(t.d, t.a, Clock[p], r)
  /\ Become(p, t, "lost", 0)
  /\ UNCHANGED up

-----------------------------------------------------------------------------
\* Time passes.  When Timely, not beyond the point where a task's next store
\* call is due.
Aged(t) == [t EXCEPT !.age = IF Timely /\ IsActive(t) THEN @ + 1 ELSE @]

Tick ==
  /\ Timely => \A p \in Processes : \A t \in Unfinished(p) : t.age < RenewInterval + MaxDelay
  /\ jobs' = [d \in DOMAIN jobs |->
                [jobs[d] EXCEPT !.lease = IF @ \in {NoLease, 0} THEN @ ELSE @ - 1]]
  /\ tasks' = [p \in Processes |-> {Aged(t) : t \in tasks[p]}]
  /\ UNCHANGED <<up, faults>>

-----------------------------------------------------------------------------
RNext ==
  \/ \E d \in Destinations : Submit(d)
  \/ \E p \in Processes :
       \/ Poll(p) \/ Exit(p) \/ Restart(p)
       \/ Crash(p) \/ ClaimAndDie(p)
       \/ \E t \in tasks[p] :
            \/ ConversionEnds(p, t)
            \/ Renew(p, t) \/ Checkpoint(p, t) \/ Complete(p, t) \/ Fail(p, t)
            \/ Refused(p, t) \/ StoreFails(p, t)
  \/ Tick

RSpec == RInit /\ [][RNext]_rvars

\* What keeps going: the poll interval of a process that runs, its exit and its
\* restart; the tasks, each polled by the runtime until its conversion ended
\* (which that of a job in Hanging need not) or a store call was refused; and the
\* clocks.  Nothing makes a client submit a job, a lease get renewed or a fault
\* happen.
RunTask(p, d) ==
  \E t \in tasks[p] :
    /\ t.d = d
    /\ (d \notin Hanging /\ ConversionEnds(p, t)) \/ Complete(p, t) \/ Fail(p, t) \/ Refused(p, t)

Fairness ==
  /\ \A p \in Processes : WF_rvars(Poll(p) \/ Exit(p) \/ Restart(p))
  /\ \A p \in Processes, d \in Destinations : WF_rvars(RunTask(p, d))
  /\ WF_rvars(Tick)

FairRSpec == RSpec /\ Fairness
-----------------------------------------------------------------------------
\* Properties.

RTypeOK ==
  /\ TypeOK
  /\ up \subseteq Processes
  /\ faults \in 0..MaxFaults
  /\ tasks \in [Processes -> SUBSET [d : Destinations, a : 1..MaxAttempts,
                                     state : TaskStates, age : Nat]]
  /\ \A p \in Processes \ up : tasks[p] = {}

\* A process never runs more tasks than it has workers, finished ones included,
\* although jobs are claimed in batches while others end.
PoolBounded == \A p \in Processes : Cardinality(tasks[p]) <= WorkerCount

\* An attempt of a job is run by at most one task of one process, however claims,
\* expirations, crashes and restarts interleave: the attempt number is a fencing
\* token.
AttemptsAreFencingTokens ==
  \A p, q \in Processes : \A t \in tasks[p], u \in tasks[q] :
    /\ t.d \in DOMAIN jobs /\ t.a <= jobs[t.d].attempt
    /\ t.d = u.d /\ t.a = u.a => p = q /\ t = u

\* What a task was told is true of the table, for good: after complete_job
\* returned Ok its attempt is the one that succeeded, and after fail_job returned
\* Ok the history holds a conversion error for its attempt.
AcknowledgedIsRecorded ==
  \A p \in Processes : \A t \in tasks[p] :
    /\ t.state = "succeeded" =>
         jobs[t.d].status = "succeeded" /\ jobs[t.d].attempt = t.a
    /\ t.state = "gave_back" =>
         /\ t.a <= Len(jobs[t.d].errors)
         /\ jobs[t.d].errors[t.a].reason = "conversion_error"

\* When timers are served in time and clocks agree within the margin, a task that
\* converts holds its job: the store will accept its next call, and no process
\* can reclaim the job.
WorkersHoldLeases ==
  Timely =>
    \A p \in Processes : \A t \in Unfinished(p) :
      /\ HoldsLease(t.d, t.a, Clock[p])
      /\ \A q \in Processes : ~IsClaimable(jobs[t.d], Clock[q])

\* "A conversion failure is recorded on the job and does not stop the
\* reconciler" (reconciler/README.md): when timers are served in time, nothing
\* but a crash or a failed store call stops a process.
OnlyFaultsStopProcesses ==
  Timely /\ faults = 0 =>
    \A p \in Processes : p \in up /\ ~HasLostTask(p)

\* Every submitted job is in the end done or given up, whatever is slow, expires
\* or crashes (finitely often), provided its conversions end and a process has
\* more workers than there are jobs whose conversion may hang.  A stale task that
\* hangs does not keep its place in the pool: its next call is refused.
QueueDrains ==
  \A d \in Destinations \ Hanging :
    d \in DOMAIN jobs ~> d \in DOMAIN jobs /\ jobs[d].status \in {"succeeded", "failed"}
=============================================================================
