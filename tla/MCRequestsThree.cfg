SPECIFICATION Spec
CONSTANTS
  t1 = t1
  t2 = t2
  t3 = t3
  t4 = t4
  t5 = t5
  t6 = t6
  t7 = t7
  Reqs = {r1, r2, r3}
  Ops = {"create", "update", "delete", "join", "close"}
  Txns = {t1, t2, t3, t4, t5, t6}
  Amounts = {1}
  Tables <- MCSplit
  NoTxn = NoTxn
  Owner = Owner
  Acc = Acc
SYMMETRY ReqSymmetry
INVARIANTS
  OnlyOverlapLosesPostings
  DeadlocksExplained
PROPERTY
  ClosedAccountIsFrozen
CHECK_DEADLOCK FALSE
