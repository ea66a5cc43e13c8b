\* Two calls over two of everything and room for one: leases lapse, are pruned early,
\* released late and granted again; the gap is longer than the windows.
CONSTANTS
  Token = {t1, t2}
  Lead = {l1, l2}
  Sdr = {s1, s2}
  Line = {n1, n2}
  SessionOf <- MCSessionOf
  GlobalMax = 1
  LineMax = 1
  MaxPerWindow = 1
  Window = 2
  MaxPerMinute = 1
  Minute = 2
  MinGap = 3
  AutoTTL = 2
  ManualTTL = 3
  MaxSkew = 1
  MaxTime = 4
  None = None
SPECIFICATION Spec
SYMMETRY Symmetry
INVARIANT TypeOK
INVARIANT HeldWhileLive
INVARIANT LeasesExclusive
INVARIANT ConcurrencyCapped
INVARIANT AutomaticGap
PROPERTY PoolSpec
PROPERTY VolumeSeen
