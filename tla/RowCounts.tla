------------------------------ MODULE RowCounts ------------------------------
(***************************************************************************)
(* The counters of a conversion (JobProgress): what ConversionProgress     *)
(* counts, workers report and the job store checks and keeps.              *)
(***************************************************************************)
EXTENDS Naturals

JobProgress ==
  [rows_read : Nat, rows_written : Nat, rows_total : Nat, rows_missing_blobs : Nat]

NoProgress ==
  [rows_read |-> 0, rows_written |-> 0, rows_total |-> 0, rows_missing_blobs |-> 0]

\* Mutant of WithinTotal: the missing-blob rows are not compared.
WithinTotalUnlessMissing(p) ==
  p.rows_total > 0 => p.rows_read <= p.rows_total /\ p.rows_written <= p.rows_total

\* The test of validate_progress_update on the counters it gets.
WithinTotal(p) ==
  p.rows_total > 0 =>
    /\ p.rows_read <= p.rows_total
    /\ p.rows_written <= p.rows_total
    /\ p.rows_missing_blobs <= p.rows_total
=============================================================================
