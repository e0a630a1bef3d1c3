SPECIFICATION Spec
CONSTANTS
  p1 = p1
  p2 = p2
  p3 = p3
  k1 = k1
  k2 = k2
  Processes = {p1, p2, p3}
  Tokens = {k1, k2}
  Nothing = Nothing
  Faults = {"crash"}
  MaxCrashes = 1
  MaxRefusals = 0
SYMMETRY LockSymmetry
INVARIANT MutualExclusion
