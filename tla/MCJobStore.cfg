SPECIFICATION Spec
CONSTANTS
  Destinations <- MCDestinations
  MaxAttempts = 3
  Timestamps <- MCTimestamps
  MaxTimestamp = 3
  LeaseDurations <- MCLeaseDurations
  ClaimLimits = {0, 1, 2}
  Reports <- MCReports
  NoLease = NoLease
INVARIANTS
  TypeOK
  HistoryCoversAttempts
  NeverStranded
  SchemaChecksHold
PROPERTIES
  TerminalIsFinal
  HistoryOnlyGrows
  ImplementsLifecycle
