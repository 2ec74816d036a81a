SPECIFICATION PSpec
CONSTANTS
  p1 = p1
  p2 = p2
  Processes = {p1, p2}
  Clock <- SameClock
  WorkerCount = 1
  LeaseDuration = 2
  LeaseDurations = {2}
  RenewInterval = 1
  Timely = FALSE
  MaxDelay = 0
  Hanging = {}
  MaxFaults = 0
  Destinations <- OneDestination
  Names <- OneName
  MaxAttempts = 2
  Timestamps <- MCTimestamps
  MaxTimestamp = 10
  ClaimLimits = {1, 2}
  Reports <- MCReports
  NoLease = NoLease
INVARIANTS
  SucceededIsPublished
