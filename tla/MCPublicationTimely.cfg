SPECIFICATION PSpec
CONSTANTS
  p1 = p1
  p2 = p2
  Processes = {p1, p2}
  Clock <- TwoClocks
  WorkerCount = 2
  LeaseDuration = 5
  LeaseDurations = {5}
  RenewInterval = 1
  Timely = TRUE
  MaxDelay = 1
  Hanging = {}
  MaxFaults = 1
  Destinations <- TwoDestinations
  Names <- TwoNames
  MaxAttempts = 2
  Timestamps <- MCTimestamps
  MaxTimestamp = 10
  ClaimLimits = {1, 2}
  Reports <- MCReports
  NoLease = NoLease
INVARIANTS
  SucceededIsPublished
  WorkersHoldLeases
  OneWriterPerDataset
  OnlyFaultsStopProcesses
