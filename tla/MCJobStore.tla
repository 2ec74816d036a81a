----------------------------- MODULE MCJobStore -----------------------------
(* Two jobs, three attempts, clocks that read anything in 0..2. *)
EXTENDS JobStore

Report(read, written, total, missing) ==
  [rows_read |-> read, rows_written |-> written,
   rows_total |-> total, rows_missing_blobs |-> missing]

MCDestinations == 1..2
MCTimestamps == 0..2
MCLeaseDurations == {0, 1}
MCReports == {Report(0, 0, 0, 0), Report(1, 0, 0, 1), Report(1, 0, 1, 1),
              Report(2, 1, 1, 0), Report(1, 0, 1, 2)}
=============================================================================
