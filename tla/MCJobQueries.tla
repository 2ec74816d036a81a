---------------------------- MODULE MCJobQueries ----------------------------
(* Three jobs, of which a list shows two, with equal and different times. *)
EXTENDS JobQueries, TLC

CONSTANTS alice, bob

MCDestinationUris == 1..3
MCReadings == 0..1
CreatorSymmetry == Permutations({alice, bob})
=============================================================================
