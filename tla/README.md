# Verification of the Lance format conversion service

TLA+ models of the conversion service in this repository, the TLC runs that
check them, and proofs about them.  Paths below are relative to the repository;
`PROJECT.json` maps every definition to the lines it models.

## The system

A client (web page or CLI) submits a job: convert this source into a Lance
dataset at this destination.  Jobs live in one table, keyed by destination URI.
Reconciler processes poll the table, claim jobs under a lease, convert, and
report back.

| part | state it keeps | operations | hard behaviour |
|---|---|---|---|
| job store (`crates/job-store`, `-sqlite`, `-postgres`) | the `jobs` table: status, attempt, error history, lease expiration, progress | create, claim, renew, checkpoint, complete, fail; get and query | calls of stale workers, leases compared by wall clocks, interleaved PostgreSQL transactions, 16 attempts at most |
| reconciler (`crates/reconciler`) | a pool (`JoinSet`) of tasks, one per claimed job | poll loop: join finished tasks, claim up to capacity, spawn; task: `select!` over conversion, renewal timer, checkpoint timer | crash between claim and spawn, one task's error ends the process and aborts the rest, hung conversions, several processes |
| reconciler process (`main.rs`, `config.rs`, `pprof.rs`) | its configuration, a profiling permit and a sampler | validate, listen, connect, build the converter, then poll; serve profiles | integers that overflow, two configurations checked at two moments, clients that leave during a profile |
| converter (`crates/converter`) | counters, the batch in transit, the destination dataset | source stream, blob fetches, Lance overwrite, row count check, indexes | parser thread and channel, responses out of order, failure at each step, retry over an earlier attempt's dataset, listings in any order; requests whose faults are found at five places |
| web API (`crates/web`) | none of its own | create, get, list, inspect | create and read back are two store calls |
| web pages (`crates/web/static/app.js`) | inspected schema, job list, filters | inspect, submit, poll | answers that arrive after the question changed |
| CLI (`crates/cli`) | none | one request per command | |
| core (`crates/core`) | none | job types, URI classification | aliases of one destination |

Interaction: web and CLI call the store's create and queries; reconcilers call
claim and the four worker operations and await the conversion; the conversion
shares only the atomic counters of `ConversionProgress` with its task.  Two
reconcilers share nothing but the table, and the destination datasets.

What makes it correct:

* job store: an unfinished job can always be claimed again; finished jobs never
  change; attempt, status, lease and error history agree; nobody but the holder
  of the current attempt's unexpired lease changes a running job;
* PostgreSQL store: the same, although a transaction is several statements;
* reconciler: the pool is bounded, an attempt runs in one task, what a task was
  told is what the table says, every job is finished in the end, and while timers
  are punctual no two conversions write to one destination;
* converter: a conversion that reports success wrote each record once, with its
  own blobs, and reports counts the store accepts; it always ends;
* process: it claims only with a sound configuration, is refused only for an
  unsound one, grants leases that end in the future, and profiles for one client
  at a time;
* requests: what can be converted is, what cannot be destroys nothing, and what
  the page lets one select is accepted;
* datasets: what a succeeded job's destination holds is what its successful
  attempt wrote, indexes included;
* web: what a client is told is true, lists are exact, and a page shows and
  submits what belongs to its fields, whenever answers arrive.

The hazards, each with its line and the properties that cover it, are in
`PROJECT.json`.

## Modules

| module | models | state and actions |
|---|---|---|
| `JobLifecycle` | what the store promises about a job: the diagram of `reconciler/README.md` (lines 20-47) | `phase`, `attempt`; one step moves any set of jobs |
| `RowCounts` | the counters of a conversion, and the test the store makes of them; EXTENDed by `JobStore` and `Conversion` | no state |
| `JobStore` | the trait's writing operations as `job-store-sqlite/src/store.rs` performs them; each is one `BEGIN IMMEDIATE` transaction, hence one atomic step | `jobs`, a function from the destinations that have a row to rows; `CreateJob`, `ClaimJobs`, `RenewLease`, `CheckpointProgress`, `CompleteJob`, `FailJob` |
| `PgJobStore` | `job-store-postgres`, statement by statement at READ COMMITTED; EXTENDS `JobStore` for the table and for what an operation does to a row | `txn`, the open transaction of each connection; `BeginClaim` / `ClaimRow`, `BeginWorkerCall` / `UpdateRow`, `BeginCreate` / `Insert`, `Commit`, `Rollback` |
| `Reconciler` | `reconciler.rs`: processes, pools and tasks on top of the atomic store (EXTENDS `JobStore`) | `up`, `tasks`, `faults`; `Poll`, `Exit`, `Crash`, `ClaimAndDie`, `Restart`, and per task `ConversionEnds`, `Renew`, `Checkpoint`, `Complete`, `Fail`, `Refused`, `StoreFails`; `Tick` |
| `Publication` | what conversions leave in the datasets (EXTENDS `Reconciler`): the commit of the rows and that of the indexes, neither of them fenced | `stage` of every attempt, `dataset`; `Step` (all that a reconciler does), `CommitRows`, `CommitIndexes` |
| `Ordering` | lists in the order that sorting, or going through rows and columns in turn, gives them: `InOrder(S, Before)` | no state |
| `ConversionContract` | what `convert` promises those who await it or read the destination, without threads, batches and requests | `state`, `missing`, `dataset`, `report`; `Lose`, `Replace`, `AddIndex`, `Succeed`, `Fail`, `Again` |
| `Conversion` | `Converter::convert` with a WARC source and blob columns, attempt after attempt | parser thread, channel, batch with its requests and responses, staged rows, counters, dataset |
| `ColumnTypes` | schemas, and what the converter makes of them: types it rejects, columns that can be blobs, the index of a column and its parameters | no state |
| `SourceFiles` | the Parquet source and its use by the Hugging Face one: files listed in any order, inspected, compared, concatenated (EXTENDS `ColumnTypes`) | `content`, `inspection`, `at`, `files`, `next`, `schema`, `streamed`; `Inspect`, `List`, `ReadSchema`, `Validate`, `StreamFile`, `EndOfStream`, `ReadFails` |
| `Requests` | a job from what it asks for to what becomes of it, built by the page or by another client (EXTENDS `SourceFiles`, whose steps are those of its conversion) | `request`, `stage`, `tries`, `faulty`, `dataset`; `InspectSource`, `Submit`, `Begin`, `Open`, `BlobPlan`, `Write`, `Commit`, `CreateIndex`, `Finish`, `Fault`, `Retry` |
| `Profiler` | the profiling endpoint: a permit, a sampler, a blocking thread, clients that go away | `phase` and `answer` of each request, `permit`, `sampler`, `reporting`; one action per step of the handler, `Disconnect` |
| `Startup` | a reconciler process from its command line to its claims, with integers of a given width (EXTENDS `Profiler`, which it serves) | `config`, `at`, `why`, `clock`, `lease`; `ValidateConfig`, `Bind`, `Connect`, `NewConverter`, `Grant`, `Fail`, `Profile`, `Restart`, `Tick` |
| `WebApi` | submissions over HTTP (EXTENDS `JobStore`): clients that give up and send again, `create_job` handlers with their two store calls | `creator`, `clients`, `handlers`; `Send`, `GiveUp`, `Refuse`, `Insert`, `Conflict`, `InsertFails`, `ReadBack`, `ReadFails`, `Drop`, `Work` |
| `JobQueries` | `list_jobs` and `query_jobs`, against a reference definition | `table`, built up by `AddJob` and `Touch`; the list is an operator, `QueryJobs(ToQuery(request))` |
| `JobsPage` | the job list of `app.js` | `query`, `loading`, `requests`, `body`, `view`; one action per handler, and what follows the `await` of `loadJobs` |
| `SubmitPage` | the scheduling page of `app.js` | fields, `inspected`, `columns`, `inspection`, `submission`, and whether the two buttons are enabled; one action per handler, and what follows an `await` |
| `WebPages` | both pages in one tab (EXTENDS both) | `page`; leaving a page drops what it keeps |
| `Ordering_proofs`, `JobStore_proofs`, `PgJobStore_proofs`, `Conversion_proofs`, `Requests_proofs`, `Startup_proofs` | theorems about these modules | |
| `Reconciler_proofs` | theorems about `Reconciler` and `Publication` | |
| `Web_proofs` | theorems about `WebApi`, `JobQueries` and `WebPages` | |

An error return rolls the transaction back, so in `JobStore` it is a call that
does not happen.  Callers are unrestricted there: any attempt number, any
progress snapshot, any clock reading, in any order.  That covers stale workers,
repeated calls, clocks that disagree or are set back, and crashes of callers.

`Reconciler` measures leases relative to the slowest clock (`Tick` takes one
unit off each lease, a lease of 0 has expired everywhere), so the state space is
finite without a horizon; `Clock[p]` is how far process p's clock is ahead.
`StoreFails` lets a call be applied although the caller gets an error.

`JobStore` knows a job by its destination, and so does `Publication`; `Names`
says which dataset a destination URI names, because the storage decides that and
the store compares texts.

`Requests` has the checks of a job at the places where the code makes them:
schemes in `create_job`, the destination and then the source in `convert`, blob
columns before the first batch, repeated names when Lance commits, indexes after
that.  `CanBeWritten` and `CanBeIndexed` say the same things again in one place and
without their order, for the properties to compare.

`Startup` gives integers a width, so that products and sums overflow as `u64`,
`usize` and `i64` do.  `RenewalsFitLease`, which `Reconciler` assumes of its
constants, is what a validated configuration leaves room for.

A request of a page carries what it asked for, and the version of the table the
server read.  JavaScript runs one handler at a time, so a handler is one action up
to its `await` and one after it, and every other action may come in between.

Definitions called "Mutant of ..." are deliberately wrong variants; substituting
one for the definition it names must make a property fail, which shows that the
property depends on the code.  No specification uses them.

## Runs

| run | what it asks | bounds |
|---|---|---|
| `store` | Are rows consistent, finished jobs final, is no job stranded, and does every job live the documented lifecycle, whatever callers do? | 2 jobs, 3 attempts, clock 0..2, leases of 0 and 1, claim limits 0..2, 5 progress snapshots, some of them inconsistent |
| `pg_store` | Do two interleaved transactions lose an update, deadlock, or do anything the atomic store could not? | 2 jobs, 2 attempts, 2 connections (symmetric), clock 0..1 |
| `reconciler_stalls` | With tasks and timers arbitrarily late: are pools bounded, attempts unique, acknowledgements true? | 2 processes of 2 workers, clocks one tick apart, 2 jobs, 2 attempts, lease 1, 1 fault |
| `reconciler_drains` | Is every job finished, although the conversion of another one need not end? | 1 process of 2 workers, 3 attempts, 2 faults, job 1 may hang, fairness |
| `conversion` | Is a successful conversion complete, in order, with its own blobs and consistent counts, is no partial dataset ever seen, and does it end? | 3 records in batches of 2, 2 blob columns, 3 URLs, 2 concurrent fetches, 2 indexes, 2 attempts |
| `publication_timely` | With the configured ratio and bounded delay: are leases never lost, datasets written by one conversion at a time, and succeeded jobs published? | 2 processes of 2 workers, clocks 2 ticks apart, 2 jobs, 2 attempts, lease 5, renewal 1, delay 1, 1 fault |
| `publication_stalls` | And without the bound on delays? (No: a finding.) | 2 processes of 1 worker with equal clocks, 1 job, 2 attempts, lease 2, no faults |
| `requests` | Does a job succeed exactly if its request makes sense, does it write nothing that is not valid, does every attempt stream the inspected files in one order, and do the page's requests fit? | 3 entries, each of 4 schemas or not a file; 13 requests of clients and all of the page; 2 attempts |
| `startup` | Which command lines get a process to claim jobs, what ends it, and does the profiler come free? | command lines around the limits of 5-bit magnitudes, 3 ms to a second, 4 bytes to a MiB, clock 0..3, 2 clients of the profiler |
| `web_api` | Are the answers to submissions true? | 2 clients sending twice, 2 destinations, 1 attempt |
| `job_queries` | Are lists exact, for every table and every request? | 3 jobs, 2 creators, 2 timestamps, lists of at most 2, limits 0, 1, 3 and none |
| `web_pages` | Do pages show and submit what belongs to their fields, and never get stuck? | 2 filters, 4 sorts, 2 changes of the table, 1 failure per visit; a path, and a dataset with 2 revisions |

`store`, `pg_store` and `startup` never stop, so deadlock is checked there and in
the reconciler and page runs.  `conversion` and `requests` really end, in
`web_api` clients have sent what they may send and all jobs are finished, and in
`job_queries` all jobs are finished: their cfg files say so.

Why the bounds are enough to be interesting.  Two jobs are the least for which
order, limits and batches of a claim matter.  Three attempts have a first, a
middle and a last one, which is all that `MAX_JOB_ATTEMPTS` distinguishes (the
theorems cover 16).  Two transactions suffice for each pair of operations to
interleave at every statement, and waits of more than two would need one that
waits while holding a row, which `NoHoldAndWait` excludes.  Two processes with
two workers have competing claims, a reclaim by the same process and one by the
other.  Three records in batches of two give a full and a partial batch, a row
with two URLs, with one and with none, and more URLs than concurrent fetches.
One fault in the stalled run is enough because stalls themselves already lose
leases, and in the timely one because it takes an attempt that committed its rows
away from its worker.  In that run renewal, delay and clock difference leave one
tick of the lease, the least that `RenewalsFitLease` admits.  Two clients compete
for one destination and have one to spare; a second sending meets what the first
one left.  Lists of at most two of three jobs cut off one, at any place of the
order; the limits asked for are none, nothing, one below the cap and one above it.  Two changes of the table make a list appear and become empty again.
Three entries admit a listing out of order, two files that differ and one that is
no file; of the four schemas one has a vector, one a type that has no scalar index,
one a type that Lance does not take, hidden in a struct, and one a name that occurs
twice.  The widths of `startup` are small enough for leases and sizes on both sides
of every limit, and its clock reaches readings to which an accepted lease cannot be
added; what it finds does not depend on them, by the theorems.  A single process is
the harder case for draining the queue: nobody else takes the jobs that its hung
tasks leave no worker for.

Fairness.  `FairRSpec` assumes what the code's own loops do: the poll interval
of a live process ticks, a supervisor restarts an ended one
(`reconciler/README.md:92-93`), a task whose conversion is not hung is polled to
its end and makes its store call, and clocks advance.  No client has to submit
anything, faults are finitely many, and nothing makes the conversion of a job in
`Hanging` end.  A renewal that succeeds needs no
fairness; that of a task which lost its lease is refused in the end, and this is
how a task that hangs gives its place in the pool back.  The
blocking thread and the task of `Conversion` are each weakly fair; HTTP responses
are assumed to arrive, as the code sets no timeout of its own.
`ServeFairness` lets the profiler's timer fire, its blocking thread run and its
handler answer, whatever the clients do; clients owe nothing.
`PagesSpec` assumes that the interval timer fires while the jobs page is open, and
that the browser settles every request: the code sets no timeout of its own,
and a request that was never settled would keep `jobsLoading` set (`app.js:678`),
or a button disabled (`app.js:325`, `:415`).

`OneWriterPerDataset`, `WorkersHoldLeases` and `SucceededIsPublished` assume that a task's next
store call comes at most `MaxDelay` after its timer, that clocks differ by less
than what `RenewalsFitLease` leaves over, and that the conversion ends early
enough for its last report.  Nothing in the code enforces this.
`reconciler_stalls` is the model without the assumption, where leases are lost
and the safety of the table rests on attempt numbers alone.

## Findings

* `publication_stalls` (`converter.rs:62`).  Attempts are fenced in the table but
  not in the dataset.  A worker that is suspended beyond its lease, while another
  one reclaims and finishes the job, may still commit its Overwrite when it goes
  on: the job has succeeded, and its dataset holds the rows of a lost attempt
  and none of the indexes (`src/README.md:66` and `:74`).  In the trace the clocks
  agree and nothing fails: a process claims the job, its task does nothing for two
  ticks, which is its whole lease; the other process then reclaims the job, writes,
  indexes and completes it, and after that the first one commits its rows.

Seen while reading, and not refuted by a run:

* `parse_location` (`location.rs:49`) takes a URI as it is written, so
  `/data/images` and `/data/images/` are two keys and two jobs for one dataset.
  `OneWriterPerDataset` is checked for URIs that name different datasets, so nothing
  here excludes it.
* `query_jobs` orders by `order_by` and `descending`, while the comment on the
  trait (`job-store/src/lib.rs:44`) still says newest to oldest.
* `loadJobs` returns at once while a list is loading (`app.js:664`), so Clear
  (`app.js:845`), and every other change of the query, reloads nothing then: the
  list of the old filter stays until the next poll.  `ComesToShowWhatIsAsked` shows
  that the poll does make up for it.
* Index specifications are compared with the schema only when the rows are
  committed (`indexes.rs:19`): a job that asks for an impossible index has replaced
  the dataset before it fails, and fails in each of its attempts.
  `WrittenIsValid` therefore leaves indexes out.  The page offers every column for
  every kind of index (`PageRequestsFit`).
* A profile whose client goes away gives its permit back at once, but the thread
  that makes its report may go on; a profile asked for meanwhile is answered with
  500, not 409 (`pprof.rs:35-56`).
* An inspection that is answered after the source changed shows the columns of
  the old source (`app.js:341`); `submitJob` refuses to submit them, which
  `SelectionsMatch` proves.

## Proofs

`JobStore_proofs` proves for all constants that satisfy the assumptions of
`JobStore` (destinations are ordered, at least one attempt, integer clocks, a
null that is no integer):

* `TypeCorrect`, `HistoryCorrect`, `NoJobStranded`, `SchemaRespected`: the four
  invariants of run `store`;
* `FinalForever`, `HistoryRetained`: its action properties;
* `LifecycleImplemented`: `JobStore` implements `JobLifecycle`;
* `OrderIsARefinement`: `JobStore` with its claim order implements the store
  without, which is what `pg_store` compares PostgreSQL with;
* `PromisesOfUnordered`: the store without the order keeps all of the above as well.

The argument.  The invariants speak of single rows, so the inductive invariant
`IInv` is a conjunction over the rows of `RowInv`: the row's type, the bound
`attempt < MaxAttempts` of queuing rows and `attempt > 0` of started ones, and
the properties themselves.  The two bounds are what makes it inductive: that a
failed attempt has one error more than a running one says nothing about whether
a queuing row may still be claimed.  `Replaced` lists the ways a row may become
another one; lemmas `RowNew`, `RowClaimed` and `RowUpdated` show that each
preserves `RowInv`, and `StepRowByRow` that every operation, whichever rows it
touches, is row by row one of these.  The action properties and the refinement
follow from the same two facts.  `OrderIsARefinement` needs in addition that the
table is finite, and that the rows with fewer than `limit` older ones are at
most `limit` (lemma `OldestAreFew`).

`PgJobStore_proofs`, for any number of connections, with the assumptions of
`JobStore`:

* `NoLostUpdate`, `NoDeadlock`: the invariants of run `pg_store`, and type
  correctness, `PgTypeCorrect`;
* `PgRefinesStore`: `PgSpec` implements `UnorderedSpec`, statement by statement;
* `PgKeepsPromises`: so its table keeps what the store promises, the lifecycle included.

`WritesApply` is not inductive, because it speaks only of rows that are written and
not of what was read for them.  `PgInv` adds to it, per transaction and operation,
what it has done so far: a claim holds all rows it still has to write, and they
are claimable at its clock reading; `fail_job`, before it holds its row, knows the
errors of the attempt it names as long as that attempt goes on (`ErrorsCurrent`).
Holders are disjoint, so what another transaction commits touches rows the first
one does not hold, and of those only a new attempt matters.  With `PgInv` a
COMMIT is an operation of `JobStore` on the table as it is then; that a claim's
rows are at most `limit` needs their cardinality.  `NoHoldAndWait` follows
because only a claim holds more than one row, and it took them all at once,
skipping those of others.

`Reconciler_proofs`, for any number of processes, workers and jobs and any clocks:

* `PoolsBounded`, `AttemptsFence`, `AnswersRecorded`: the invariants of run
  `reconciler_stalls`, and type correctness, `ReconcilerTypeCorrect`, without any
  assumption on time;
* `LeasesHeld`: `WorkersHoldLeases`, from `RenewalsFitLease` and the bound on
  delays, for every lease, interval, delay and clock difference;
* `JobsOutliveReconcilers`: the table that processes share keeps all that the store
  promises: no job is stranded, finished ones stay, each lives its lifecycle;
* `FaultsOnly`: `OnlyFaultsStopProcesses`, if moreover the snapshots a conversion
  reports are valid (which `ResultAccepted` says of `Conversion`).

`RInv` is the store's invariant and what ties a task to its row: the attempt of a
task was given out (`Known`), which is why the next claim's attempt is a new one;
a task that was told that its job succeeded, failed or was given back finds it so.
`JobsKept` says what all steps leave of a row.  For the timely theorems `Leased`
says that a converting task knows to the tick what is left of its lease, its
duration less the task's age: the lease alone would not be inductive, because
nothing would relate it to the next renewal.

The same module, for destinations that name different datasets
(`NamesDiffer`) and timely timers:

* `SuccessPublished`: `SucceededIsPublished`;
* `OneWriter`: `OneWriterPerDataset`.

Every step of `Publication` is one of `Reconciler` or changes datasets only, so
`RInv` and `Leased` are inherited.  `PInv` adds that the commits of a converting
attempt are still what the dataset holds (`WorkStays`): whoever else might write
would need an attempt of the same job, and it has none while the lease is held.
`publication_stalls` shows that the assumption is necessary.

`Startup_proofs`, for every width of the integers and every set of command lines:

* `StartSound`, `LeasesLater`: the invariants of run `startup` about the process;
* `SamplingOwned`: the one about the profiler, for any number of clients: one request
  at a time has the sampler, until its report is made, whether or not its client
  still waits and holds the permit;
* `ConflictsTrue`: `ConflictsAreTrue`, so a 409 is answered only while the handler of
  another request lives (a 500 may come at any time, as the sampler may fail to start);
* `RenewalsAreInTime`: a configuration that `validate` accepts leaves a renewal four
  intervals of room.  This is where `RenewalsFitLease` comes from.

`StartInv` says which checks are behind the process at each point of its start;
`ProfilerInv` who has the permit in each phase.  The division of `validate` is
turned into a product once (lemma `RatioIsAProduct`).

`Ordering_proofs` has the lemmas about lists that the next modules rest on.  A finite
set can be listed in any strict total order of it (`CanBeListed`): the place of an
element is the number of those before it, so the list is written down and not built
step by step.  It is the only such list (`OnlyOneListing`, and `TheAscendingList` for numbers), and it
has all the elements (`ListsAll`).

`Conversion_proofs`, for every number of records, batch size, channel, number of
concurrent fetches, blob columns, indexes and attempts:

* `EveryRecordWritten`, `EveryBlobInPlace`: what a successful conversion wrote,
  `NothingLostOrDuplicated` and `BlobsInPlace`;
* `RowCountPasses`: `CountsAgree`, so `validate_row_count` turns down no conversion
  that went well;
* `ReportsAccepted`: `ResultAccepted`, so the store turns down no counters of a
  conversion, whenever its worker reads them: the test is `WithinTotal` of `JobStore`
  itself, and `FaultsOnly` assumes no more of the reports it gets;
* `ContractKept`: `ImplementsContract`, that is `Conversion` implements
  `ConversionContract`;
* `ConversionTypeCorrect`: type correctness.

`NothingLostOrDuplicated` speaks of the end only.  `IInv` says where each record is
until then: the staged rows are those of the first `Behind` records except the ones
with a missing blob (`StagedSoFar`); then follow, without a gap, the batch in
transform, the one in the channel and what the parser has not sent (`Flow`), and the
parser stops only after the last record, or with an error that takes the place of
its batch.  For the blobs, `Fetches` says that a response answers a request, and no
two the same one; so when there are as many responses as requests, every request
has one, in whatever order (`FS_Injection`).  That no blob of a later batch is
gone yet makes `StagedSoFar` inductive: what is dropped now was not dropped before.

The contract replaces the rows of the destination in one step by the list of all
records that are not missing.  What `CommittedAll` says of the rows, ascending and
complete, has only one solution (`TheAscendingList`), so a `Commit` is a `Replace`; the
other steps add an index, lose a record, end the attempt or are not seen.  An error
that left staged rows behind would satisfy every invariant above, and break this.

`Requests_proofs`, for every finite set of entries, all schemas that files can
have and all requests, any number of attempts:

* `InspectionHolds`: `InspectedIsConverted`, from `SourceFiles` up;
* `NothingDestroyedInVain`: `WrittenIsValid`;
* `VerdictsRight`: `VerdictIsRight`;
* `PageFits`: `PageRequestsFit`;
* `PartsAreEqual`: the number of subvectors divides the dimension, is at most 16 and
  the largest such number, for every dimension.

`IInv` follows a request along the pipeline.  `Reading`: the files that were compared
have one schema, and what is streamed is a beginning of them in their order.
`Passed`: which checks are behind a job in each stage.  `Written`: what is at the
destination was valid when it was written and is still what the request asks for,
whichever attempt wrote it.  `Verdict`: an attempt in which no call fails fails for
one of the reasons listed once in `Reason`; that these are the negation of
`CanBeWritten` and `CanBeIndexed` is then a fact about schemas and requests alone.

These proofs found the reference definitions wrong, not the code.  A text index fits
a list of any string type, not of `utf8` only; a column without a name can never be
indexed (`indexes.rs:27`); Lance takes no vector index on nested lists; the
destination may be an empty path, which is a file path to `parse_location`.  Run
`requests` has such requests and schemas now.

`Web_proofs`, about the API, for any number of clients, handlers and repeated
sendings:

* `CreationsAreOwn`: `CreatedIsOwn`;
* `RefusalsTrue`: `RefusalsAreTrue`;
* `HandlersUseTheStore`: `WSpec` implements `JobStore`'s `Spec`, so what is proved of
  the store holds of the API.

`WInv` adds that the creator of a row has sent a submission for it, that two
handlers of one client are different sendings, and that a handler which meets a
row of its own client is therefore not the only one that client has sent.

About lists of jobs, for every table, request and limit:

* `ListsHideNothingNewer`: `ListsAreExact`;
* `ReversedListsAgree`: `DirectionsAgree`.

That `WHERE` says what the parameters mean is `WhereIsWanted`; `RowsAreOrdered` that
`ORDER BY`, with its tie-breaker, is a strict total order, for which the types
of the table suffice.  A list is then the beginning of the only listing there is, and
the listing of the other direction, read backwards, is another one of the same order.

About the pages, for every set of filters, inputs and revisions and any number of
changes and failures:

* `SelectionsMatch`: `SelectionsMatchSource`, assuming only that `None` is no
  source and that revisions are what the ASSUMEs of `SubmitPage` say;
* `ListsMoveForward`: `NeverShowsOlder`.

The invariant `PagesInv` says what the two handlers rely on.  `SubmitInv`: the
columns are those of the inspected source whenever one is recorded, which is what
the comparison in `submitJob` is worth.  `JobsInv`: the flag `loading` admits one
request, and every answer under way was read no earlier than the list that is
shown.  One lemma per handler shows that it is kept.

The assumptions on constants are those the modules name.  That entries are finite,
that the schemas of files are sequences of columns without Lance's blobs, and that
requests have the fields that the API's decoder insists on is what the code can be
given; `NoSchema` and `NoRequest` are values of their own.

Only model-checked: liveness (`QueueDrains`, `ConversionEnds`, `ProfilerComesFree`,
`ComesToShowWhatIsAsked`, `ButtonsRecover`), because the prover has neither
fairness nor ENABLED.  Every safety property of the runs that are expected to pass
is also a theorem.  Nothing here needs induction over data: what sorting, filtering
and batching compute is stated of positions in lists, not of the steps of a loop.

## Not modelled

The parsing of `hf://` URIs, the mapping of WARC headers to columns, size
limits of batches, the rendering of pages and the restoring of filters from a URL,
the CLI's arguments, storage I/O, fixtures of tests.  `Requests` drives the Parquet
source only; the WARC source is `Conversion`'s, with a fixed schema.  `PROJECT.json` gives a reason for each.  Lance, PostgreSQL,
SQLite, tokio, axum and the browser are modelled only through what this code
relies on: a Lance overwrite is one atomic commit that drops indexes, and an
index for an overwritten version is refused; row locks and READ COMMITTED as
documented; an aborted task and a dropped handler take no further step; a closed
page gets no answer.

## Plan

Done: all modules and theorems above.  Left, in this order:

1. theorems that relate the components: a configuration that `Startup` accepts
   satisfies what `Reconciler` assumes, and while leases hold the datasets of
   `Publication` see what `ConversionContract` promises, one attempt after another;
2. the byte limit of a WARC batch, and the parsing of `hf://` URIs against a
   reference definition.
