------------------------------ MODULE JobsPage ------------------------------
(***************************************************************************)
(* The job monitoring page (web/static/app.js): it polls the list of jobs, *)
(* while its user changes filters and sorting.  JavaScript runs one        *)
(* handler at a time, but loadJobs awaits the answer of the server, and    *)
(* whatever happens meanwhile comes between.  WebPages composes this page  *)
(* with the other one.                                                     *)
(*                                                                         *)
(* A query is its filters and its sort; a list is known by the query and   *)
(* by the version of the table the server read.                            *)
(***************************************************************************)
EXTENDS Integers, FiniteSets

CONSTANTS
  Filters,      \* what the filter form may say
  NoFilter,     \* the form after a reset
  HasJobs(_, _),\* if some job passes a filter in a version of the table
  MaxChanges,   \* bound on the changes of the table
  MaxFailures   \* bound on failed requests

ASSUME NoFilterIsAFilter == NoFilter \in Filters
ASSUME BoundsAreCounts == MaxChanges \in Nat /\ MaxFailures \in Nat

VARIABLES
  version,      \* of the jobs table
  query,        \* state.jobsQuery
  loading,      \* state.jobsLoading
  requests,     \* calls of loadJobs that await the server
  body,         \* the list in the table body: none, or the last one rendered
  view,         \* what the page shows: a spinner, an error, or that list
  failures

jvars == <<version, query, loading, requests, body, view, failures>>

Fields == {"creation", "update"}
Sorts == [field : Fields, order : {"desc", "asc"}]
Queries == [filter : Filters, sort : Sorts]

Unfiltered == [filter |-> NoFilter, sort |-> [field |-> "creation", order |-> "desc"]]

-----------------------------------------------------------------------------
\* loadJobs, up to its await, for the query q.

Request(q) == [query |-> q, at |-> "sent", version |-> 0]

HasRows == \E list \in body : HasJobs(list.query.filter, list.version)

\* Mutant of LoadJobs: each call loads.
LoadJobsAlways(q) ==
  /\ loading' = TRUE
  /\ requests' = requests \cup {Request(q)}
  /\ view' = IF HasRows THEN view ELSE "spinner"

LoadJobs(q) ==
  \/ /\ loading
     /\ UNCHANGED <<loading, requests, view>>
  \/ /\ ~loading
     /\ loading' = TRUE
     /\ requests' = requests \cup {Request(q)}
     /\ view' = IF HasRows THEN view ELSE "spinner"

\* The page is closed.
JInit ==
  /\ version = 0
  /\ query = Unfiltered /\ loading = FALSE /\ requests = {}
  /\ body = {} /\ view = "spinner" /\ failures = 0

\* The page opens, with the query of its URL, and loads.
OpenWith(q) ==
  /\ query' = q /\ loading' = TRUE /\ requests' = {Request(q)}
  /\ body' = {} /\ view' = "spinner" /\ failures' = 0
  /\ UNCHANGED version

\* What the page keeps goes with it.
Close ==
  /\ query' = Unfiltered /\ loading' = FALSE /\ requests' = {}
  /\ body' = {} /\ view' = "spinner" /\ failures' = 0
  /\ UNCHANGED version

\* Every three seconds.  The refresh button does the same.
Poll ==
  /\ LoadJobs(query)
  /\ UNCHANGED <<version, query, body, failures>>

ApplyJobFilters(f) ==
  /\ query' = [query EXCEPT !.filter = f]
  /\ LoadJobs(query')
  /\ UNCHANGED <<version, body, failures>>

ToggleJobSort(field) ==
  /\ query' = [query EXCEPT !.sort =
       [field |-> field,
        order |-> IF @.field = field /\ @.order = "desc" THEN "asc" ELSE "desc"]]
  /\ LoadJobs(query')
  /\ UNCHANGED <<version, body, failures>>

ClearJobFilters ==
  /\ query' = Unfiltered
  /\ LoadJobs(query')
  /\ UNCHANGED <<version, body, failures>>

-----------------------------------------------------------------------------
\* The server, and loadJobs after its await.

Change ==
  /\ version < MaxChanges
  /\ version' = version + 1
  /\ UNCHANGED <<query, loading, requests, body, view, failures>>

\* The server reads the table, in one statement.
Read(r) ==
  /\ r.at = "sent"
  /\ requests' = (requests \ {r}) \cup {[r EXCEPT !.at = "read", !.version = version]}
  /\ UNCHANGED <<version, query, loading, body, view, failures>>

Render(r) ==
  /\ r.at = "read"
  /\ requests' = requests \ {r}
  /\ body' = {[query |-> r.query, version |-> r.version]}
  /\ view' = "list"
  /\ loading' = FALSE
  /\ UNCHANGED <<version, query, failures>>

\* Mutant of Fail: the flag is reset on success only.
FailStillLoading(r) ==
  /\ failures < MaxFailures
  /\ failures' = failures + 1
  /\ requests' = requests \ {r}
  /\ view' = "error"
  /\ UNCHANGED <<version, query, loading, body>>

\* The request fails, or its answer is an error or no list.  The rows stay, hidden.
Fail(r) ==
  /\ failures < MaxFailures
  /\ failures' = failures + 1
  /\ requests' = requests \ {r}
  /\ view' = "error"
  /\ loading' = FALSE
  /\ UNCHANGED <<version, query, body>>

Settle == \E r \in requests : Read(r) \/ Render(r)

JNext ==
  \/ Poll
  \/ \E f \in Filters : ApplyJobFilters(f)
  \/ \E field \in Fields : ToggleJobSort(field)
  \/ ClearJobFilters
  \/ Settle
  \/ \E r \in requests : Fail(r)
-----------------------------------------------------------------------------
\* Properties.

\* "Loads the latest jobs while preventing overlapping poll requests" (app.js): as
\* long as the page is open, no list takes the place of one that was read later
\* from the table.
NeverShowsOlder ==
  [][\A old \in body, new \in body' : new.version >= old.version]_jvars

\* The page shows the list that q asks for, as the table now is.  While it reloads
\* an empty list, there is a spinner instead.
Shows(q) ==
  /\ body = {[query |-> q, version |-> version]}
  /\ view = "list" \/ (view = "spinner" /\ ~HasRows)
=============================================================================
