SPECIFICATION PgSpec
SYMMETRY SessionSymmetry
CONSTANTS
  Destinations <- MCDestinations
  MaxAttempts = 2
  Timestamps <- MCTimestamps
  MaxTimestamp = 3
  LeaseDurations = {1}
  ClaimLimits = {1, 2}
  Reports <- MCReports
  NoLease = NoLease
  Sessions = {s1, s2}
INVARIANTS
  WritesApply
  NoHoldAndWait
PROPERTIES
  ImplementsStore
