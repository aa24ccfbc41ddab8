SPECIFICATION Spec
CONSTANTS
  t1 = t1
  t2 = t2
  t3 = t3
  t4 = t4
  t5 = t5
  t6 = t6
  t7 = t7
  Reqs = {r1, r2}
  Ops = {"update"}
  Txns = {t1, t2}
  Amounts = {1, 2}
  Tables <- MCPlain
  NoTxn = NoTxn
  Owner = Owner
  Acc = Acc
INVARIANT
  NoPostingLost
CHECK_DEADLOCK FALSE
