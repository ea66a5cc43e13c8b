\* The process keeps its API_INSTANCE_ID and restarts.
CONSTANTS
  Call = {c1}
  Lead = {l1}
  Sdr = {s1}
  Line = {n1}
  Instance = {i1}
  Station <- OneStation
  Scopes <- OneCall
  MaxAttempts = 1
  FixedIds = TRUE
  MaxPauses = 3
  MaxCrashes = 1
  MaxFaults = 0
  None = None
  i1 = i1
  i2 = i2
  l1 = l1
  l2 = l2
SPECIFICATION FairSpec
PROPERTY OrphansRecovered
