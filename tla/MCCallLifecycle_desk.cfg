\* One call and all that may happen around it; two calls, one of them by hand, for one lead.
CONSTANTS
  Call = {c1, c2}
  Lead = {l1}
  Sdr = {s1}
  Line = {n1}
  Instance = {i1}
  Station <- OneStation
  Scopes <- DeskScopes
  MaxAttempts = 2
  FixedIds = FALSE
  MaxPauses = 2
  MaxCrashes = 0
  MaxFaults = 0
  None = None
  i1 = i1
  i2 = i2
  l1 = l1
  l2 = l2
SPECIFICATION Spec
SYMMETRY Symmetry
INVARIANT DeskInv
INVARIANT LeadExclusive
