\* A manual call after a 429.
CONSTANTS
  Cooldowns = {1}
  Waits = {2, 4, 9}
  Floor = 3
  Ceiling = 6
  RapidBackoff = 3
  StallBackoff = 2
  Threshold = 2
  Quarantine = 5
  Stale = FALSE
  MaxTime = 12
  MaxStrikes = 4
  None = None
SPECIFICATION Spec
PROPERTY ManualBackoffHeld
