\* Five instances in four connections: every way in and out, with data tox_load
\* rejects.
SPECIFICATION AccountSpec
CONSTANTS
  MaxInstances = 5
  MaxLogins = 4
  ToxNewFails = FALSE
  BadData = TRUE
  ExportFails = FALSE
  Nicks = {"nick", "other"}
  UserName = "user"
  NoNick = NoNick
INVARIANTS
  AccountTypeOK
  OneSession
  OneWayIn
  NamesAgree
  OwnStatusShown
PROPERTIES
  IdentityKept
  NicknameKept
  SettingDiffersByEdit
CHECK_DEADLOCK FALSE
