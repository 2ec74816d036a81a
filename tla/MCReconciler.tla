---------------------------- MODULE MCReconciler ----------------------------
(* Two jobs, one or two reconcilers whose clocks differ by one tick. *)
EXTENDS Reconciler, TLC

CONSTANTS p1, p2

MCDestinations == 1..2
MCTimestamps == 0..1
MCReports == {NoProgress}
TwoClocks == (p1 :> 0) @@ (p2 :> 1)
OneClock == p1 :> 0
=============================================================================
