------------------------------ MODULE Profiler ------------------------------
(***************************************************************************)
(* The profiling endpoint (pprof.rs).  A request takes the one permit,     *)
(* starts the sampler, sleeps while it samples, and hands the sampler's    *)
(* guard to a blocking thread that makes the report.  A client may go away *)
(* at any await: its handler is dropped, and with it what it owns, but not *)
(* the thread.                                                             *)
(***************************************************************************)
CONSTANTS
  Requests,
  Nobody

ASSUME NobodyAsksNothing == Nobody \notin Requests

VARIABLES
  phase,      \* where the handler of each request is
  answer,     \* what its client was last answered
  permit,     \* the request that holds CPU_PROFILER
  sampler,    \* the request whose guard keeps the sampler running
  reporting   \* the requests whose blocking thread runs

prvars == <<phase, answer, permit, sampler, reporting>>

PrInit ==
  /\ phase = [r \in Requests |-> "none"]
  /\ answer = [r \in Requests |-> "none"]
  /\ permit = Nobody /\ sampler = Nobody /\ reporting = {}

Answered(r, text) ==
  /\ phase' = [phase EXCEPT ![r] = "none"]
  /\ answer' = [answer EXCEPT ![r] = text]

\* try_lock fails: 409.
Conflict(r) ==
  /\ phase[r] = "none" /\ r \notin reporting
  /\ permit # Nobody
  /\ Answered(r, "conflict")
  /\ UNCHANGED <<permit, sampler, reporting>>

\* The sampler is one for the process: it does not start while it runs.
Build(r) ==
  /\ phase[r] = "none" /\ r \notin reporting
  /\ permit = Nobody /\ sampler = Nobody
  /\ phase' = [phase EXCEPT ![r] = "sampling"]
  /\ answer' = [answer EXCEPT ![r] = "none"]
  /\ permit' = r /\ sampler' = r
  /\ UNCHANGED reporting

\* The sampler runs, or the system refuses its timer or its signal handler: 500;
\* the permit is back at once.
BuildFails(r) ==
  /\ phase[r] = "none" /\ r \notin reporting
  /\ permit = Nobody
  /\ Answered(r, "error")
  /\ UNCHANGED <<permit, sampler, reporting>>

\* The sleep is over: spawn_blocking(move || ...).
StartReport(r) ==
  /\ phase[r] = "sampling"
  /\ phase' = [phase EXCEPT ![r] = "waiting"]
  /\ reporting' = reporting \cup {r}
  /\ UNCHANGED <<answer, permit, sampler>>

\* Mutant of ReportEnds: the thread borrows the guard, and nobody drops it.
ReportEndsBorrowing(r) ==
  /\ r \in reporting
  /\ reporting' = reporting \ {r}
  /\ UNCHANGED <<phase, answer, permit, sampler>>

\* The closure returns, and drops the guard.
ReportEnds(r) ==
  /\ r \in reporting
  /\ reporting' = reporting \ {r}
  /\ sampler' = Nobody
  /\ UNCHANGED <<phase, answer, permit>>

\* The report, or the error it ended with.
Respond(r) ==
  /\ phase[r] = "waiting" /\ r \notin reporting
  /\ \E text \in {"profile", "error"} : Answered(r, text)
  /\ permit' = Nobody
  /\ UNCHANGED <<sampler, reporting>>

\* Mutant of Disconnect: the permit is not dropped with the handler.
DisconnectKeepingPermit(r) ==
  /\ phase[r] \in {"sampling", "waiting"}
  /\ Answered(r, "none")
  /\ sampler' = IF phase[r] = "sampling" THEN Nobody ELSE sampler
  /\ UNCHANGED <<permit, reporting>>

\* The handler is dropped: while it sleeps, with the guard.
Disconnect(r) ==
  /\ phase[r] \in {"sampling", "waiting"}
  /\ Answered(r, "none")
  /\ permit' = Nobody
  /\ sampler' = IF phase[r] = "sampling" THEN Nobody ELSE sampler
  /\ UNCHANGED reporting

Serve ==
  \E r \in Requests :
    \/ Conflict(r) \/ Build(r) \/ BuildFails(r)
    \/ StartReport(r) \/ ReportEnds(r) \/ Respond(r) \/ Disconnect(r)

\* Timers fire and threads run, whatever the clients do.
ServeFairness ==
  \A r \in Requests :
    WF_prvars(StartReport(r)) /\ WF_prvars(ReportEnds(r)) /\ WF_prvars(Respond(r))
-----------------------------------------------------------------------------
\* Properties.

\* The process is sampled for one request at a time, for as long as that request's
\* handler sleeps or its report is made, and no longer, wherever its client goes
\* away; and while a handler sleeps nobody else can get its permit.
SamplingHasAnOwner ==
  /\ sampler # Nobody <=> \E r \in Requests : phase[r] = "sampling" \/ r \in reporting
  /\ \A r \in Requests :
       /\ phase[r] = "sampling" => sampler = r /\ permit = r
       /\ r \in reporting => sampler = r /\ \A s \in Requests : phase[s] # "sampling"
       /\ phase[r] = "waiting" => permit = r

\* A 409 says that another profile is already running, and it is: the handler of
\* another request sleeps or awaits its report.  No permit outlives its handler,
\* wherever clients went away before.  (A 500 says less: build may always fail.)
ConflictsAreTrue ==
  [][\A r \in Requests :
       answer'[r] = "conflict" /\ answer'[r] # answer[r] =>
         \E s \in Requests \ {r} : permit = s /\ phase[s] \in {"sampling", "waiting"}]_prvars

\* A profile comes to an end: the permit and the sampler that a request took are free
\* again, whether its client waits, or goes away at any point.
ProfilerComesFree ==
  \A r \in Requests : permit = r \/ sampler = r ~> permit # r /\ sampler # r
=============================================================================
