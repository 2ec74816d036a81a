--------------------------- MODULE MCPublication ---------------------------
(* One or two jobs, each with a dataset of its own, and two reconcilers.  Their
   clocks differ by two ticks where leases have room for that, and agree where a
   lease is to expire by the time that passes. *)
EXTENDS Publication, TLC

CONSTANTS p1, p2

OneDestination == {1}
TwoDestinations == {1, 2}
OneName == 1 :> "images"
TwoNames == (1 :> "images") @@ (2 :> "texts")
MCTimestamps == 0..2
MCReports == {NoProgress}
TwoClocks == (p1 :> 0) @@ (p2 :> 2)
SameClock == (p1 :> 0) @@ (p2 :> 0)
=============================================================================
