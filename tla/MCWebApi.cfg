SPECIFICATION WSpec
CONSTANTS
  c1 = c1
  c2 = c2
  Clients = {c1, c2}
  Malformed = Malformed
  MaxSends = 2
  Destinations <- MCDestinations
  MaxAttempts = 1
  Timestamps <- MCTimestamps
  MaxTimestamp = 10
  LeaseDurations = {1}
  ClaimLimits = {1}
  Reports <- MCReports
  NoLease = NoLease
INVARIANTS
  CreatedIsOwn
  RefusalsAreTrue
CHECK_DEADLOCK FALSE
