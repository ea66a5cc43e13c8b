\* Two automatic calls of one lead that fail in every way; two leads, one line, one SDR.
CONSTANTS
  Call = {c1, c2}
  Lead = {l1, l2}
  Sdr = {s1}
  Line = {n1}
  Instance = {i1}
  Station <- OneStation
  Scopes <- FailureScopes
  MaxAttempts = 2
  FixedIds = FALSE
  MaxPauses = 2
  MaxCrashes = 0
  MaxFaults = 0
  None = None
  i1 = i1
  i2 = i2
  l1 = l1
  l2 = l2
SPECIFICATION Spec
SYMMETRY SymmetryAll
INVARIANT AttemptsAccounted
INVARIANT SharedOnlyAfterLapse
