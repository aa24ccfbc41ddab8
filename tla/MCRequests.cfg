SPECIFICATION FairSpec
CONSTANTS
  t1 = t1
  t2 = t2
  t3 = t3
  t4 = t4
  t5 = t5
  t6 = t6
  t7 = t7
  Reqs = {r1, r2}
  Ops = {"create", "update", "delete", "split", "join", "close"}
  Txns = {t1, t2, t3, t4, t5, t6, t7}
  Amounts <- MCAmounts
  Tables <- MCSplit
  NoTxn = NoTxn
  Owner = Owner
  Acc = Acc
INVARIANTS
  RequestsTypeOK
  StrandedPartsNeedOverlap
PROPERTIES
  RowsOnlyGoForward
  IsolatedRequestsFollowLedger
  EveryRequestAnswered
CHECK_DEADLOCK FALSE
