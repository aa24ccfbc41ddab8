SPECIFICATION Spec

CONSTANTS
  ann = ann
  bob = bob
  cat = cat
  zed = zed
  new1 = new1
  new2 = new2
  ty1 = ty1
  ty2 = ty2
  ty3 = ty3
  in1 = in1
  in2 = in2
  in3 = in3
  ac1 = ac1
  ac2 = ac2
  ac3 = ac3
  cd1 = cd1
  cd2 = cd2
  cd3 = cd3
  sh1 = sh1
  sh2 = sh2
  sh3 = sh3
  sh4 = sh4
  None = None
  Unfit = Unfit
  Reqs = {1, 2}
  Users = {ann, bob}
  Types = {ty1, ty2, ty3}
  Institutions = {in1, in2, in3}
  Accounts = {ac1, ac2}
  Cards = {cd1, cd2}
  Shares = {sh1, sh2}
  Tables <- MCThingsTables
  NewAccounts <- MCThingsAccounts
  Handles <- MCHandles
  ProfileChanges <- MCProfileChanges
  NewTypes <- MCNewTypes
  TypeChanges <- MCTypeChanges
  Codes <- MCCodes
  InstitutionChanges <- MCInstitutionChanges
  AccountChanges <- MCAccountChanges
  CardChanges <- MCCardChanges
  NewCards <- MCNewCards
  ShareLevels = {"editor", "owner"}
  Ops = {"delete_user", "view_user", "list_users", "create_type", "update_type", "delete_type", "create_institution", "update_institution", "delete_institution", "create_account", "update_account", "delete_account", "create_card", "update_card", "delete_card"}

INVARIANTS
  KeysUnique
  ReferencesHold

PROPERTIES
  LateWritesNeedOverlap
  FailuresExplained
  OnlyWhatWasAsked
  WishesComeTrue

CHECK_DEADLOCK FALSE
