SPECIFICATION Spec
CONSTANTS
  Reqs = {r1, r2, r3}
  Ops = {"login", "refresh", "logout", "change", "deactivate"}
  Keys = {k1, k2, k3, k4}
  First = k1
  NoKey = NoKey
  AccessTTL = 1
  RefreshTTL = 2
  MaxTime = 3
SYMMETRY ReqSymmetry
INVARIANTS
  TokensTypeOK
  ReuseNeedsOverlap
  DeactivatedGetsNothing
PROPERTY
  RevocationMissesOnlyOverlap
CHECK_DEADLOCK FALSE
