SPECIFICATION FairRSpec
CONSTANTS
  p1 = p1
  p2 = p2
  Processes = {p1}
  Clock <- OneClock
  WorkerCount = 2
  LeaseDuration = 1
  LeaseDurations = {1}
  RenewInterval = 1
  Timely = FALSE
  MaxDelay = 0
  Hanging = {1}
  MaxFaults = 2
  Destinations <- MCDestinations
  MaxAttempts = 3
  Timestamps <- MCTimestamps
  MaxTimestamp = 10
  ClaimLimits = {1, 2}
  Reports <- MCReports
  NoLease = NoLease
PROPERTIES
  QueueDrains
