SPECIFICATION SFairSpec
CONSTANTS
  r1 = r1
  r2 = r2
  Requests = {r1, r2}
  Nobody = Nobody
  Configs <- MCConfigs
  MaxSigned = 31
  MaxUsize = 31
  MsPerSec = 3
  BytesPerMib = 4
  MaxClock = 3
INVARIANTS
  StartIsRight
  LeasesEndLater
  SamplingHasAnOwner
PROPERTIES
  ProfilerComesFree
