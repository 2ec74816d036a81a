------------------------------ MODULE MCWebApi ------------------------------
(* Two clients, each of which may send its submission twice, one destination
   to compete for and one more. *)
EXTENDS WebApi, TLC

CONSTANTS c1, c2

MCDestinations == 1..2
MCTimestamps == {0}
MCReports == {NoProgress}
=============================================================================
