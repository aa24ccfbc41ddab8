SPECIFICATION Spec
CONSTANTS
  Users = {owner, partner}
  Accounts = {acc}
  Admins = {partner}
  Txns = {t1, t2, t3, t4}
  Amounts <- MCAmounts
  Openings <- MCOpenings
  Filters <- MCFilters
  PageSizes = {1, 2, 3}
  NoUser = NoUser
  NoTxn = NoTxn
  NoAccount = NoAccount
SYMMETRY RowSymmetry
INVARIANTS
  TypeOK
  OneOwner
  PartsFollowParent
  BalanceExplained
  ShownIsReadable
  PagesCoverLists
  UnsplitBalanceRight
PROPERTIES
  BalanceFollowsRows
  DeletedRowsAreFinal
  ClosedAccountFrozen
CHECK_DEADLOCK FALSE
