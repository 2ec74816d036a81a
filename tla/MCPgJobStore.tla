---------------------------- MODULE MCPgJobStore ----------------------------
(* Two jobs, two attempts, two transactions at a time. *)
EXTENDS PgJobStore, TLC

Report(read, total) ==
  [rows_read |-> read, rows_written |-> 0, rows_total |-> total, rows_missing_blobs |-> 0]

MCDestinations == 1..2
MCTimestamps == 0..1
MCReports == {Report(1, 0)}

SessionSymmetry == Permutations(Sessions)
=============================================================================
