SPECIFICATION FairSpec

CONSTANTS
  ann = ann
  bob = bob
  cat = cat
  zed = zed
  new1 = new1
  new2 = new2
  ty1 = ty1
  ty2 = ty2
  ty3 = ty3
  in1 = in1
  in2 = in2
  in3 = in3
  ac1 = ac1
  ac2 = ac2
  ac3 = ac3
  cd1 = cd1
  cd2 = cd2
  cd3 = cd3
  sh1 = sh1
  sh2 = sh2
  sh3 = sh3
  sh4 = sh4
  None = None
  Unfit = Unfit
  Reqs = {1, 2}
  Users = {ann, bob, cat, zed, new1, new2}
  Types = {ty1}
  Institutions = {in1}
  Accounts = {ac1, ac2, ac3}
  Cards = {}
  Shares = {sh1, sh2, sh3, sh4}
  Tables <- MCPeopleTables
  NewAccounts <- MCPeopleAccounts
  Handles <- MCHandles
  ProfileChanges <- MCProfileChanges
  NewTypes <- MCNewTypes
  TypeChanges <- MCTypeChanges
  Codes <- MCCodes
  InstitutionChanges <- MCInstitutionChanges
  AccountChanges = {}
  CardChanges = {}
  NewCards = {}
  ShareLevels = {"editor", "owner"}
  Ops = {"register", "update_profile", "deactivate", "delete_user", "create_account", "delete_account", "share_account", "update_share", "revoke_share"}

INVARIANTS
  DirectoryTypeOK
  KeysUnique
  UnauditedExplained
  DeadlocksExplained
  OneOwner

PROPERTIES
  LateWritesNeedOverlap
  FailuresExplained
  OnlyWhatWasAsked
  WishesComeTrue
  IsolatedSharingFollowsAccess
  EveryRequestAnswered

CHECK_DEADLOCK FALSE
