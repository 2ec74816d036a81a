SPECIFICATION QSpec
CONSTANTS
  alice = alice
  bob = bob
  Creators = {alice, bob}
  DestinationUris <- MCDestinationUris
  Readings <- MCReadings
  ListLimit = 2
  Limits = {0, 1, 3, Absent}
  Bounds = {0, 1}
  Statuses = {"running", "failed"}
  Absent = Absent
SYMMETRY CreatorSymmetry
INVARIANTS
  ListsAreExact
  DirectionsAgree
CHECK_DEADLOCK FALSE
