SPECIFICATION Spec
CONSTANTS
  Reqs = {r1, r2, r3, r4}
  Ops = {"refresh"}
  Keys = {k1, k2, k3, k4, k5}
  First = k1
  NoKey = NoKey
  AccessTTL = 1
  RefreshTTL = 2
  MaxTime = 0
SYMMETRY ReqSymmetry
INVARIANTS
  ForkNeedsDoubleUse
CHECK_DEADLOCK FALSE
