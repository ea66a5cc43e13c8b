\* Two processes, one crash, one failed query: the offer is resolved all the same.
CONSTANTS
  Call = {c1}
  Lead = {l1}
  Sdr = {s1}
  Line = {n1}
  Instance = {i1, i2}
  Station <- OneStation
  Scopes <- OneCall
  MaxAttempts = 1
  FixedIds = FALSE
  MaxPauses = 2
  MaxCrashes = 1
  MaxFaults = 1
  None = None
  i1 = i1
  i2 = i2
  l1 = l1
  l2 = l2
SPECIFICATION FairSpec
PROPERTY OfferResolved
