-------------------------- MODULE ConversionContract --------------------------
(***************************************************************************)
(* What Converter::convert promises to the worker that awaits it and to    *)
(* those who read the destination, without threads, batches, requests and  *)
(* counters: rows are replaced as a whole or not at all, indexes are built *)
(* on the rows that were written, and a report is made at the end.  Every  *)
(* attempt of a job is held to it, on whatever the one before it left.     *)
(***************************************************************************)
EXTENDS Ordering, FiniteSets

CONSTANTS
  Records,      \* the records of the source, numbers in its order
  Losable,      \* the records with a blob that has to be fetched
  NumColumns,   \* blob columns of a record
  NumIndices    \* indexes the job asks for

VARIABLES
  state,        \* where the attempt stands
  missing,      \* the records that it found to have a missing blob
  dataset,      \* what the destination holds
  report        \* the counters a finished conversion returns

vars == <<state, missing, dataset, report>>

NoReport == [rows_total |-> 0, rows_written |-> 0, rows_missing_blobs |-> 0]

Init ==
  /\ state = "writing"
  /\ missing = {}
  /\ dataset = [rows |-> <<>>, indexes |-> 0]
  /\ report = NoReport

\* A record and its own blobs.
Row(r) == [record |-> r, blobs |-> [c \in 1..NumColumns |-> <<r, c>>]]

\* The dataset of all records but the missing ones, in the order of the source.
RowsWithout(lost) ==
  LET kept == InOrder(Records \ lost, Ascending)
  IN  [k \in 1..Len(kept) |-> Row(kept[k])]

Lose ==
  /\ state = "writing"
  /\ \E r \in Losable : missing' = missing \cup {r}
  /\ UNCHANGED <<state, dataset, report>>

\* Readers of the destination see the old rows and indexes, or the new rows.
Replace ==
  /\ state = "writing"
  /\ dataset' = [rows |-> RowsWithout(missing), indexes |-> 0]
  /\ state' = "written"
  /\ UNCHANGED <<missing, report>>

AddIndex ==
  /\ state = "written"
  /\ dataset.indexes < NumIndices
  /\ dataset' = [dataset EXCEPT !.indexes = @ + 1]
  /\ UNCHANGED <<state, missing, report>>

Succeed ==
  /\ state = "written"
  /\ dataset.indexes = NumIndices
  /\ report' = [rows_total |-> Cardinality(Records),
                rows_written |-> Len(dataset.rows),
                rows_missing_blobs |-> Cardinality(missing)]
  /\ state' = "converted"
  /\ UNCHANGED <<missing, dataset>>

\* An error, or the worker is gone.
Fail ==
  /\ state \in {"writing", "written"}
  /\ state' = "failed"
  /\ UNCHANGED <<missing, dataset, report>>

Again ==
  /\ state = "failed"
  /\ state' = "writing"
  /\ missing' = {}
  /\ UNCHANGED <<dataset, report>>

Next == Lose \/ Replace \/ AddIndex \/ Succeed \/ Fail \/ Again

Spec == Init /\ [][Next]_vars
=============================================================================
