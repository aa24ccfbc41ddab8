SPECIFICATION Spec
CONSTANTS
  Users = {owner, partner}
  Accounts = {acc}
  Admins = {}
  Txns = {t1, t2, t3, t4}
  Amounts <- MCAmounts
  Openings <- MCOpenings
  Filters <- MCFilters
  PageSizes = {1, 2, 3}
  NoUser = NoUser
  NoTxn = NoTxn
  NoAccount = NoAccount
SYMMETRY RowSymmetry
INVARIANT
  EmptyLedgerAtOpening
CHECK_DEADLOCK FALSE
