------------------------------- MODULE WebApi -------------------------------
(***************************************************************************)
(* Submissions over HTTP (web/src/lib.rs), by the page or the CLI: each    *)
(* POST /v1/jobs is a handler that calls create_job, then get_job for the  *)
(* body of its answer, while other handlers and the reconcilers use the    *)
(* same table.  Store calls fail, answers are lost, a client that has no   *)
(* answer may submit again, and the handler of a client that went away is  *)
(* dropped wherever it is.                                                 *)
(***************************************************************************)
EXTENDS JobStore

CONSTANTS
  Clients,
  Malformed,    \* a submission that the handler refuses to store
  MaxSends      \* how often a client sends its submission at most

ASSUME MalformedIsNoDestination == Malformed \notin Destinations
ASSUME SendsBounded == MaxSends \in Nat

VARIABLES
  creator,      \* whose submission the row of a destination holds
  clients,      \* what each client knows of its submission
  handlers      \* the running create_job handlers

wvars == <<jobs, creator, clients, handlers>>

\* A client is idle, waiting, unsure (a 500, or no answer) or knows its answer:
\* created, refused, conflict, missing.  job is the creator in the body of a 201.
WInit ==
  /\ Init
  /\ creator = [d \in {} |-> Malformed]
  /\ clients = [c \in Clients |-> [state |-> "idle", d |-> Malformed, sends |-> 0, job |-> c]]
  /\ handlers = {}

-----------------------------------------------------------------------------
\* The client.

Send(c) ==
  /\ clients[c].state \in {"idle", "unsure"}
  /\ clients[c].sends < MaxSends
  /\ \E d \in IF clients[c].state = "idle" THEN Destinations \cup {Malformed}
              ELSE {clients[c].d} :
       LET send == clients[c].sends + 1
       IN  /\ clients' = [clients EXCEPT ![c].state = "waiting", ![c].d = d,
                                         ![c].sends = send]
           /\ handlers' = handlers \cup
                {[client |-> c, send |-> send, d |-> d, at |-> "create"]}
  /\ UNCHANGED <<jobs, creator>>

\* The connection breaks, or the client does not wait any longer.
GiveUp(c) ==
  /\ clients[c].state = "waiting"
  /\ clients' = [clients EXCEPT ![c].state = "unsure"]
  /\ UNCHANGED <<jobs, creator, handlers>>

IsAwaited(h) == clients[h.client].state = "waiting" /\ clients[h.client].sends = h.send

\* A handler ends with an answer, which only a client that still waits for it gets.
Answer(h, state, job) ==
  /\ handlers' = handlers \ {h}
  /\ clients' = IF IsAwaited(h)
                THEN [clients EXCEPT ![h.client].state = state, ![h.client].job = job]
                ELSE clients

-----------------------------------------------------------------------------
\* The handler.

\* 400: no creator, or a URI whose scheme is not supported.
Refuse(h) ==
  /\ h.at = "create" /\ h.d = Malformed
  /\ Answer(h, "refused", h.client)
  /\ UNCHANGED <<jobs, creator>>

Stored(h) ==
  /\ h.d \in Destinations
  /\ \E now \in Timestamps : CreateJob(h.d, now)
  /\ creator' = [d \in DOMAIN creator \cup {h.d} |->
                   IF d = h.d THEN h.client ELSE creator[d]]

Insert(h) ==
  /\ h.at = "create"
  /\ Stored(h)
  /\ handlers' = (handlers \ {h}) \cup {[h EXCEPT !.at = "get"]}
  /\ UNCHANGED clients

\* 409.
Conflict(h) ==
  /\ h.at = "create" /\ h.d \in DOMAIN jobs
  /\ Answer(h, "conflict", h.client)
  /\ UNCHANGED <<jobs, creator>>

\* 500: create_job returns a database error, applied or not.
InsertFails(h) ==
  /\ h.at = "create" /\ h.d \in Destinations
  /\ Stored(h) \/ UNCHANGED <<jobs, creator>>
  /\ Answer(h, "unsure", h.client)

\* 201 with the job, 404 if there is none.
ReadBack(h) ==
  /\ h.at = "get"
  /\ IF h.d \in DOMAIN jobs THEN Answer(h, "created", creator[h.d])
                            ELSE Answer(h, "missing", h.client)
  /\ UNCHANGED <<jobs, creator>>

\* Mutant of ReadFails: a failed handler reports that the destination is taken.
ReadFailsAsConflict(h) ==
  /\ h.at = "get"
  /\ Answer(h, "conflict", h.client)
  /\ UNCHANGED <<jobs, creator>>

\* 500: get_job returns a database error.  The job stays.
ReadFails(h) ==
  /\ h.at = "get"
  /\ Answer(h, "unsure", h.client)
  /\ UNCHANGED <<jobs, creator>>

\* The server drops the handler of a connection that was closed.
Drop(h) ==
  /\ ~IsAwaited(h)
  /\ handlers' = handlers \ {h}
  /\ UNCHANGED <<jobs, creator, clients>>

\* The reconcilers.
Work == (Claim \/ WorkerCall) /\ UNCHANGED <<creator, clients, handlers>>

WNext ==
  \/ \E c \in Clients : Send(c) \/ GiveUp(c)
  \/ \E h \in handlers :
       \/ Refuse(h) \/ Insert(h) \/ Conflict(h) \/ InsertFails(h)
       \/ ReadBack(h) \/ ReadFails(h) \/ Drop(h)
  \/ Work

WSpec == WInit /\ [][WNext]_wvars
-----------------------------------------------------------------------------
\* Properties.

\* A client that was told 201 owns the job of its destination, now and later: the
\* body it got, though read in a second call, was its own submission, nobody
\* else's submission ever takes the place of it, and nobody else is told 201.
\* No submission is answered with 404.
CreatedIsOwn ==
  \A c \in Clients :
    /\ clients[c].state # "missing"
    /\ clients[c].state = "created" =>
         /\ clients[c].job = c
         /\ clients[c].d \in DOMAIN jobs /\ creator[clients[c].d] = c

\* A client that was told 409 finds a job at its destination.  It can only be its
\* own, stored by a handler whose answer it did not get, if it sent more than
\* once; and no submission that was refused with 400 or 409 at once is stored.
RefusalsAreTrue ==
  \A c \in Clients :
    /\ clients[c].state = "conflict" =>
         /\ clients[c].d \in DOMAIN jobs
         /\ creator[clients[c].d] = c => clients[c].sends > 1
    /\ clients[c].state = "refused" => \A d \in DOMAIN jobs : creator[d] # c
=============================================================================
