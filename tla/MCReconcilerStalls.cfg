SPECIFICATION RSpec
CONSTANTS
  p1 = p1
  p2 = p2
  Processes = {p1, p2}
  Clock <- TwoClocks
  WorkerCount = 2
  LeaseDuration = 1
  LeaseDurations = {1}
  RenewInterval = 1
  Timely = FALSE
  MaxDelay = 0
  Hanging = {}
  MaxFaults = 1
  Destinations <- MCDestinations
  MaxAttempts = 2
  Timestamps <- MCTimestamps
  MaxTimestamp = 10
  ClaimLimits = {1, 2}
  Reports <- MCReports
  NoLease = NoLease
INVARIANTS
  PoolBounded
  AttemptsAreFencingTokens
  AcknowledgedIsRecorded
