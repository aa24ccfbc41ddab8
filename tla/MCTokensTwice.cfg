SPECIFICATION Spec
CONSTANTS
  Reqs = {r1, r2}
  Ops = {"refresh"}
  Keys = {k1, k2, k3}
  First = k1
  NoKey = NoKey
  AccessTTL = 1
  RefreshTTL = 2
  MaxTime = 0
SYMMETRY ReqSymmetry
INVARIANT
  SingleUse
CHECK_DEADLOCK FALSE
