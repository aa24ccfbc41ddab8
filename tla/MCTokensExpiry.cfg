SPECIFICATION Spec
CONSTANTS
  Reqs = {r1}
  Ops = {"refresh"}
  Keys = {k1, k2}
  First = k1
  NoKey = NoKey
  AccessTTL = 1
  RefreshTTL = 2
  MaxTime = 3
SYMMETRY ReqSymmetry
INVARIANT
  ExpiryIsRefreshTTL
CHECK_DEADLOCK FALSE
