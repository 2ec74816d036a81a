----------------------------- MODULE Conversion -----------------------------
(***************************************************************************)
(* One conversion after another into the same destination: a WARC parser   *)
(* thread feeds record batches through a channel of one batch; the blob    *)
(* step fetches the URLs of a batch concurrently and drops rows whose blob *)
(* is gone; the Lance writer takes the batches and commits an Overwrite;   *)
(* then the row count is validated and the indexes are created.  Any step  *)
(* may fail, and the worker may drop the conversion at any time; the next  *)
(* attempt starts over on whatever the destination holds.                  *)
(*                                                                         *)
(* Records are their positions in the source.  The bytes behind a URL are  *)
(* the cell it was read from.  Body sizes are left out: a batch may be     *)
(* full at any length up to BatchSize.  Sources other than WARC produce    *)
(* their batches in the consumer's task instead of a thread.               *)
(***************************************************************************)
EXTENDS Ordering, FiniteSets, RowCounts

CONSTANTS
  NumRecords,       \* records in the source
  BatchSize,        \* BATCH_SIZE
  Columns,          \* the blob columns, in schema order
  HttpCells,        \* the cells <<record, column>> that hold an http(s) URL
  FetchConcurrency, \* FETCH_CONCURRENCY
  NumIndices,       \* indexes the job asks for
  MaxAttempts       \* bound on attempts

Records == 1..NumRecords
Cells   == Records \X (1..Len(Columns))

ASSUME SizesPositive == /\ NumRecords \in Nat /\ NumIndices \in Nat /\ Len(Columns) \in Nat
                        /\ BatchSize \in Nat \ {0} /\ FetchConcurrency \in Nat \ {0}
ASSUME HttpCellsExist == HttpCells \subseteq Cells
ASSUME AttemptsPositive == MaxAttempts \in Nat \ {0}

VARIABLES
  attempt,    \* attempts started
  stage,      \* where the conversion stands
  parser,     \* the parser thread: its state, next record and unsent batch
  channel,    \* batches, or an error, between the thread and the stream
  batch,      \* the batch in transform: its rows, requests in order, responses
  staged,     \* the rows the writer has taken
  progress,   \* ConversionProgress
  dataset,    \* what the destination holds: rows, and how many indexes
  gone        \* cells answered 404 or 410 in this attempt

vars == <<attempt, stage, parser, channel, batch, staged, progress, dataset, gone>>

Stages == {"streaming", "transforming", "validating", "indexing",
           "converted", "failed", "dropped"}
Ended  == {"converted", "failed", "dropped"}

NoBatch   == [rows |-> <<>>, requests |-> <<>>, started |-> 0, responses |-> <<>>]
NewParser == [state |-> "reading", next |-> 1, unsent |-> <<>>]

Init ==
  /\ attempt = 1
  /\ stage = "streaming"
  /\ parser = NewParser
  /\ channel = <<>>
  /\ batch = NoBatch
  /\ staged = <<>>
  /\ progress = NoProgress
  /\ dataset = [rows |-> <<>>, indexes |-> 0]
  /\ gone = {}

\* fail_job gave the job back and it was claimed again, or its lease expired.
\* A parser thread left over from the old attempt shares nothing with the new.
Retry ==
  /\ stage \in {"failed", "dropped"}
  /\ attempt < MaxAttempts
  /\ attempt' = attempt + 1
  /\ stage' = "streaming"
  /\ parser' = NewParser
  /\ channel' = <<>> /\ batch' = NoBatch /\ staged' = <<>>
  /\ progress' = NoProgress
  /\ gone' = {}
  /\ UNCHANGED dataset

\* The worker drops the future: its lease is lost, or the process stops.
Drop ==
  /\ stage \notin Ended
  /\ stage' = "dropped"
  /\ UNCHANGED <<attempt, parser, channel, batch, staged, progress, dataset, gone>>

\* Mutant of Abandon: the writer commits what it has when the stream fails.
AbandonCommits ==
  /\ stage' = "failed"
  /\ dataset' = [rows |-> staged, indexes |-> 0]
  /\ UNCHANGED <<attempt, parser, channel, batch, staged, progress, gone>>

\* An error ends the conversion.
Abandon ==
  /\ stage' = "failed"
  /\ UNCHANGED <<attempt, parser, channel, batch, staged, progress, dataset, gone>>

-----------------------------------------------------------------------------
\* The parser thread.

Parse(state, next, unsent) ==
  /\ parser' = [state |-> state, next |-> next, unsent |-> unsent]
  /\ UNCHANGED <<attempt, stage, channel, batch, staged, progress, dataset, gone>>

\* A record joins the batch, which is sent when it is full.
ReadRecord ==
  /\ parser.state = "reading"
  /\ parser.next <= NumRecords
  /\ LET unsent == Append(parser.unsent, parser.next)
     IN  \/ Parse("sending", parser.next + 1, unsent)
         \/ Len(unsent) < BatchSize /\ Parse("reading", parser.next + 1, unsent)

EndOfSource ==
  /\ parser.state = "reading"
  /\ parser.next > NumRecords
  /\ Parse(IF parser.unsent = <<>> THEN "ended" ELSE "sending_last",
           parser.next, parser.unsent)

\* Mutant of ParserFails: the error is not sent, the thread just ends.
ParserFailsSilently == parser.state = "reading" /\ Parse("ended", parser.next, <<>>)

\* A record that does not parse, a body too large, a failed read, a panic.
ParserFails == parser.state = "reading" /\ Parse("failing", parser.next, <<>>)

\* Mutant of ReceiverClosed: the stream is kept when the conversion has ended.
ReceiverKept == FALSE

\* The stream is dropped with the conversion, or when the writer has read it all.
ReceiverClosed == stage \in Ended \cup {"validating", "indexing"}

\* The thread goes on reading, or ends and drops the sender.
AfterSend(state) == IF state \in {"failing", "sending_last"} THEN "ended" ELSE "reading"

\* blocking_send: waits for room, and fails once the receiver is gone.
Send ==
  /\ parser.state \in {"sending", "sending_last", "failing"}
  /\ IF ReceiverClosed
     THEN Parse("ended", parser.next, <<>>)
     ELSE /\ channel = <<>>
          /\ channel' = <<IF parser.state = "failing"
                          THEN [error |-> TRUE, rows |-> <<>>]
                          ELSE [error |-> FALSE, rows |-> parser.unsent]>>
          /\ parser' = [parser EXCEPT !.state = AfterSend(@), !.unsent = <<>>]
          /\ UNCHANGED <<attempt, stage, batch, staged, progress, dataset, gone>>

-----------------------------------------------------------------------------
\* The blob step.

\* The requests of a batch, column by column and row by row.
ColumnFirst(p, q) == p[2] < q[2] \/ (p[2] = q[2] /\ p[1] < q[1])

Requests(rows) ==
  LET Cell(p) == <<rows[p[1]], p[2]>>
      places  == InOrder({p \in (1..Len(rows)) \X (1..Len(Columns)) : Cell(p) \in HttpCells},
                         ColumnFirst)
  IN  [k \in 1..Len(places) |-> Cell(places[k])]

Receive ==
  /\ stage = "streaming"
  /\ channel # <<>>
  /\ ~channel[1].error
  /\ channel' = <<>>
  /\ stage' = "transforming"
  /\ batch' = [NoBatch EXCEPT !.rows = channel[1].rows,
                              !.requests = Requests(channel[1].rows)]
  /\ progress' = [progress EXCEPT !.rows_read = @ + Len(channel[1].rows)]
  /\ UNCHANGED <<attempt, parser, staged, dataset, gone>>

ReceiveError == stage = "streaming" /\ channel # <<>> /\ channel[1].error /\ Abandon

\* A cell holds no valid URL, or a column does not become an array.
BadCell ==
  /\ stage = "transforming"
  /\ batch.started = 0 \/ Len(batch.responses) = Len(batch.requests)
  /\ Abandon

\* buffer_unordered starts requests in order, while fewer than
\* FETCH_CONCURRENCY wait for their response.
StartFetch ==
  /\ stage = "transforming"
  /\ batch.started < Len(batch.requests)
  /\ batch.started - Len(batch.responses) < FetchConcurrency
  /\ batch' = [batch EXCEPT !.started = @ + 1]
  /\ UNCHANGED <<attempt, stage, parser, channel, staged, progress, dataset, gone>>

\* The requests without a response.
Waiting ==
  {batch.requests[i] : i \in 1..batch.started} \ {r.cell : r \in ToSet(batch.responses)}

\* Responses come in any order.
FetchEnds(cell, found) ==
  /\ stage = "transforming"
  /\ cell \in Waiting
  /\ batch' = [batch EXCEPT !.responses = Append(@, [cell |-> cell, found |-> found])]
  /\ gone' = IF found THEN gone ELSE gone \cup {cell}
  /\ UNCHANGED <<attempt, stage, parser, channel, staged, progress, dataset>>

\* Any other status, or a connection that breaks.
FetchFails == stage = "transforming" /\ Waiting # {} /\ Abandon

\* Mutant of Value: the responses fill the requested cells in the order they came.
ValueByArrival(cell) ==
  IF cell \in HttpCells
  THEN LET i == CHOOSE i \in 1..Len(batch.requests) : batch.requests[i] = cell
       IN  IF batch.responses[i].found THEN batch.responses[i].cell ELSE <<>>
  ELSE cell

\* The value transform puts into a cell: the bytes fetched for it, or what the
\* source says if it is not an http URL; <<>> for a missing blob.
Value(cell) ==
  IF cell \in HttpCells
  THEN LET response == CHOOSE r \in ToSet(batch.responses) : r.cell = cell
       IN  IF response.found THEN response.cell ELSE <<>>
  ELSE cell

Kept(row) == \A c \in 1..Len(Columns) : Value(<<row, c>>) # <<>>

OutputRow(row) == [record |-> row, blobs |-> [c \in 1..Len(Columns) |-> Value(<<row, c>>)]]

KeptRows ==
  LET places == InOrder({i \in 1..Len(batch.rows) : Kept(batch.rows[i])}, Ascending)
  IN  [k \in 1..Len(places) |-> OutputRow(batch.rows[places[k]])]

\* Mutant of MissingRows: a row is counted once per missing blob.
MissingBlobs == Cardinality({i \in 1..Len(batch.responses) : ~batch.responses[i].found})

MissingRows == Cardinality({i \in 1..Len(batch.rows) : ~Kept(batch.rows[i])})

\* The transformed batch reaches the writer, whose callback reports the rows
\* written so far.
WriteBatch ==
  /\ stage = "transforming"
  /\ Len(batch.responses) = Len(batch.requests)
  /\ staged' = staged \o KeptRows
  /\ progress' = [progress EXCEPT !.rows_missing_blobs = @ + MissingRows,
                                  !.rows_written = Len(staged')]
  /\ batch' = NoBatch
  /\ stage' = "streaming"
  /\ UNCHANGED <<attempt, parser, channel, dataset, gone>>

-----------------------------------------------------------------------------
\* The writer.

\* Mutant of Committed: WriteMode::Append.
CommittedAppend(rows) == [rows |-> dataset.rows \o rows, indexes |-> 0]

\* WriteMode::Overwrite: the new version holds these rows only, and no index.
Committed(rows) == [rows |-> rows, indexes |-> 0]

\* The stream ends when the sender is gone and the channel empty.
Commit ==
  /\ stage = "streaming"
  /\ parser.state = "ended" /\ channel = <<>>
  /\ dataset' = Committed(staged)
  /\ stage' = "validating"
  /\ UNCHANGED <<attempt, parser, channel, batch, staged, progress, gone>>

\* The source or the destination cannot be opened, written or committed.
WriteFails == stage = "streaming" /\ Abandon

\* validate_row_count; rows_read - rows_missing_blobs saturates at 0.
ExpectedRows ==
  IF progress.rows_read >= progress.rows_missing_blobs
  THEN progress.rows_read - progress.rows_missing_blobs ELSE 0

Validate ==
  /\ stage = "validating"
  /\ stage' = IF Len(dataset.rows) = ExpectedRows THEN "indexing" ELSE "failed"
  /\ UNCHANGED <<attempt, parser, channel, batch, staged, progress, dataset, gone>>

CreateIndex ==
  /\ stage = "indexing"
  /\ dataset.indexes < NumIndices
  /\ dataset' = [dataset EXCEPT !.indexes = @ + 1]
  /\ UNCHANGED <<attempt, stage, parser, channel, batch, staged, progress, gone>>

\* The dataset cannot be read back or an index cannot be built.
LateFailure ==
  /\ stage = "validating" \/ (stage = "indexing" /\ dataset.indexes < NumIndices)
  /\ Abandon

\* Mutant of TotalRows: the rows written.
TotalRowsWritten == progress.rows_written

\* The rows_total that finish stores.
TotalRows == progress.rows_read

Finish ==
  /\ stage = "indexing"
  /\ dataset.indexes = NumIndices
  /\ progress' = [progress EXCEPT !.rows_total = TotalRows]
  /\ stage' = "converted"
  /\ UNCHANGED <<attempt, parser, channel, batch, staged, dataset, gone>>

-----------------------------------------------------------------------------
Thread == ReadRecord \/ EndOfSource \/ ParserFails \/ Send

Pipeline ==
  \/ Receive \/ ReceiveError \/ BadCell
  \/ StartFetch \/ FetchFails \/ WriteBatch
  \/ \E cell \in HttpCells, found \in BOOLEAN : FetchEnds(cell, found)
  \/ Commit \/ WriteFails \/ Validate \/ CreateIndex \/ LateFailure \/ Finish

Next == Retry \/ Drop \/ Thread \/ Pipeline

Spec == Init /\ [][Next]_vars

\* The blocking thread runs, and the worker polls the conversion, whose requests
\* are answered.
FairSpec == Spec /\ WF_vars(Thread) /\ WF_vars(Pipeline)
-----------------------------------------------------------------------------
\* Properties.

Positions(rows) == [i \in 1..Len(rows) |-> rows[i].record]

TypeOK ==
  /\ attempt \in 1..MaxAttempts
  /\ stage \in Stages
  /\ parser \in [state : {"reading", "sending", "sending_last", "failing", "ended"},
                 next : 1..(NumRecords + 1), unsent : Seq(Records)]
  /\ Len(parser.unsent) <= BatchSize /\ Len(channel) <= 1
  /\ \A i \in 1..Len(channel) : channel[i] \in [error : BOOLEAN, rows : Seq(Records)]
  /\ batch.rows \in Seq(Records) /\ batch.requests \in Seq(HttpCells)
  /\ progress \in JobProgress
  /\ Positions(staged) \in Seq(Records) /\ Positions(dataset.rows) \in Seq(Records)
  /\ dataset.indexes \in 0..NumIndices
  /\ gone \subseteq HttpCells

\* A conversion that succeeds has written every record of the source once and in
\* order, but for those with a blob that is gone.  The row count check could not
\* tell if the stream ended early, as it counts what came through the stream;
\* nor may rows of an earlier attempt be left.
NothingLostOrDuplicated ==
  stage = "converted" =>
    /\ \A i, j \in 1..Len(dataset.rows) :
         i < j => dataset.rows[i].record < dataset.rows[j].record
    /\ {dataset.rows[i].record : i \in 1..Len(dataset.rows)} =
         {r \in Records : \A c \in 1..Len(Columns) : <<r, c>> \notin gone}

\* Whatever order the responses come in, no row is written with another cell's
\* blob, or with the empty blob that stands for a missing one.
BlobsInPlace ==
  \A i \in 1..Len(dataset.rows) : \A c \in 1..Len(Columns) :
    dataset.rows[i].blobs[c] = <<dataset.rows[i].record, c>>

\* The counters and the dataset agree when they are compared, so a conversion
\* that wrote what it should is not failed by its row count check.
CountsAgree ==
  stage = "validating" =>
    /\ progress.rows_read >= progress.rows_missing_blobs
    /\ Len(dataset.rows) = progress.rows_read - progress.rows_missing_blobs

\* Whenever the worker takes a snapshot, the store does not turn it down (which
\* would be an error that stops the reconciler), and the one of a finished
\* conversion tells how many rows there are.
ResultAccepted ==
  /\ WithinTotal(progress)
  /\ stage = "converted" => /\ progress.rows_total = NumRecords
                            /\ progress.rows_written = Len(dataset.rows)

\* How far the attempt is, what it has lost and what it reports, for those who
\* see nothing of its insides.
State ==
  CASE stage \in {"streaming", "transforming"} -> "writing"
    [] stage \in {"validating", "indexing"} -> "written"
    [] stage = "converted" -> "converted"
    [] stage \in {"failed", "dropped"} -> "failed"

Report ==
  IF stage = "converted"
  THEN [rows_total |-> progress.rows_total, rows_written |-> progress.rows_written,
        rows_missing_blobs |-> progress.rows_missing_blobs]
  ELSE [rows_total |-> 0, rows_written |-> 0, rows_missing_blobs |-> 0]

Contract == INSTANCE ConversionContract WITH
  Losable <- {cell[1] : cell \in HttpCells}, NumColumns <- Len(Columns),
  state <- State, missing <- {cell[1] : cell \in gone}, report <- Report

\* Convert replaces the rows of the destination as a whole or leaves them alone,
\* wherever an attempt fails or is dropped: what was staged is never seen, rows and
\* indexes change at no other step, and the report counts what was written.
ImplementsContract == Contract!Spec

\* A conversion does not wait for ever: neither the consumer for a sender that
\* is gone nor the thread for room in a channel nobody reads.
ConversionEnds == []<>(stage \in Ended /\ parser.state = "ended")
=============================================================================
