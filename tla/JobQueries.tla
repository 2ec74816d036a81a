----------------------------- MODULE JobQueries -----------------------------
(***************************************************************************)
(* Listing jobs: list_jobs of the web API turns the parameters of a        *)
(* request into a JobQuery, and query_jobs of the stores (the same SQL in  *)
(* both) answers it in one statement.  The table is reduced to the columns *)
(* a query compares; any job may be inserted and updated at any time, by   *)
(* clocks that may be set back.                                            *)
(***************************************************************************)
EXTENDS Ordering, FiniteSets

CONSTANTS
  DestinationUris,   \* numbered in their order
  Creators,
  Readings,       \* of clocks, when a row is written
  Statuses,       \* what a claim or a report may make of an unfinished job
  Bounds,         \* the creation times clients filter by
  ListLimit,      \* DEFAULT_JOB_LIST_LIMIT
  Limits,         \* the limits clients ask for, Absent where they do not
  Absent          \* a parameter that is not given

ASSUME UrisOrdered == DestinationUris \subseteq Int
ASSUME ReadingsAreIntegers == Readings \cup Bounds \subseteq Int /\ Absent \notin Bounds
ASSUME StatusesOfJobs == Statuses \subseteq {"queuing", "running", "succeeded", "failed"}
ASSUME LimitsAreCounts == ListLimit \in Nat /\ Limits \subseteq Nat \cup {Absent}

VARIABLE table    \* a row for every destination that has a job

QInit == table = [d \in {} |-> Absent]

AddJob(d, c, now) ==
  /\ d \notin DOMAIN table
  /\ table' = [e \in DOMAIN table \cup {d} |->
                 IF e = d THEN [creator |-> c, status |-> "queuing",
                                created |-> now, updated |-> now]
                          ELSE table[e]]

\* A claim, or a report of a worker.
Touch(d, status, now) ==
  /\ d \in DOMAIN table
  /\ table[d].status \in {"queuing", "running"}
  /\ table' = [table EXCEPT ![d].status = status, ![d].updated = now]

QNext ==
  \E d \in DestinationUris, now \in Readings :
    \/ \E c \in Creators : AddJob(d, c, now)
    \/ \E status \in Statuses : Touch(d, status, now)

QSpec == QInit /\ [][QNext]_table

-----------------------------------------------------------------------------
\* query_jobs.

\* InvalidInput; a limit of 0 is answered before it is looked at.
IsInvalid(q) ==
  /\ q.limit > 0
  /\ \/ q.failed_only /\ q.ongoing_only
     \/ q.from # Absent /\ q.to # Absent /\ q.from > q.to

\* The WHERE clause.
Matches(row, q) ==
  /\ q.creator # Absent => row.creator = q.creator
  /\ q.failed_only => row.status = "failed"
  /\ ~q.failed_only /\ q.ongoing_only => row.status \in {"queuing", "running"}
  /\ q.from # Absent => row.created >= q.from
  /\ q.to # Absent => row.created <= q.to

Key(d, q) == IF q.order_by = "update" THEN table[d].updated ELSE table[d].created

\* Mutant of Precedes: the order of the tie-breaker is fixed.
PrecedesAscendingTies(d, e, q) ==
  \/ IF q.descending THEN Key(d, q) > Key(e, q) ELSE Key(d, q) < Key(e, q)
  \/ Key(d, q) = Key(e, q) /\ d < e

\* The ORDER BY clause.
Precedes(d, e, q) ==
  IF q.descending THEN Key(d, q) > Key(e, q) \/ (Key(d, q) = Key(e, q) /\ d > e)
                  ELSE Key(d, q) < Key(e, q) \/ (Key(d, q) = Key(e, q) /\ d < e)

QueryJobs(q) ==
  IF q.limit = 0
  THEN <<>>
  ELSE LET matching == {d \in DOMAIN table : Matches(table[d], q)}
           sorted == InOrder(matching, LAMBDA d, e : Precedes(d, e, q))
       IN  SubSeq(sorted, 1, Min({q.limit, Len(sorted)}))

\* list_jobs of the web API, for a request whose order parameters are supported.
\* Mutant of ToQuery: a limit that is given is taken as it is.
ToQueryUncapped(r) ==
  [r EXCEPT !.limit = IF @ = Absent THEN ListLimit ELSE @]

ToQuery(r) ==
  [r EXCEPT !.limit = IF @ = Absent \/ @ > ListLimit THEN ListLimit ELSE @]

Requests ==
  [creator : Creators \cup {Absent}, failed_only : BOOLEAN, ongoing_only : BOOLEAN,
   from : Bounds \cup {Absent}, to : Bounds \cup {Absent},
   order_by : {"creation", "update"}, descending : BOOLEAN, limit : Limits]
-----------------------------------------------------------------------------
\* Properties.

Answered == {r \in Requests : ~IsInvalid(ToQuery(r))}

\* What the parameters of GET /v1/jobs mean (README.md).
Wanted(r) ==
  {d \in DOMAIN table :
     /\ r.creator \in {Absent, table[d].creator}
     /\ r.failed_only \/ r.ongoing_only =>
          table[d].status \in IF r.failed_only THEN {"failed"} ELSE {"queuing", "running"}
     /\ \A t \in {r.from} \ {Absent} : t <= table[d].created
     /\ \A t \in {r.to} \ {Absent} : table[d].created <= t}

\* A list has the jobs that were asked for, each once and at most ListLimit of
\* them, and it never hides a job that is newer (or whatever was asked for) than
\* one it shows: a job is left out only by a full list of jobs before it.
ListsAreExact ==
  \A r \in Answered :
    LET list == QueryJobs(ToQuery(r))
        at(d) == IF r.order_by = "update" THEN table[d].updated ELSE table[d].created
        shown == {list[i] : i \in 1..Len(list)}
        wanted == Wanted(r)
    IN  /\ Cardinality(shown) = Len(list)
        /\ Len(list) <= ListLimit /\ (r.limit # Absent => Len(list) <= r.limit)
        /\ shown \subseteq wanted
        /\ \A i \in 1..Len(list) :
             \A d \in wanted \ {list[j] : j \in 1..i} :
               IF r.descending THEN at(d) <= at(list[i]) ELSE at(d) >= at(list[i])
        /\ wanted # shown => Len(list) \in {ListLimit, r.limit}

\* Both directions of one order agree on it, ties included: where all jobs that were
\* asked for fit a list, one direction shows what the other shows, backwards.  So no
\* job of equal timestamps jumps when the page reverses the order, and two calls list
\* them alike.
DirectionsAgree ==
  \A r \in Answered :
    LET q == ToQuery(r)
    IN  Cardinality(Wanted(r)) <= q.limit =>
          QueryJobs([q EXCEPT !.descending = ~@]) = Reverse(QueryJobs(q))
=============================================================================
