\* An export fails midway.
SPECIFICATION Spec
CONSTANTS
  MaxInstances = 3
  MaxLogins = 2
  ToxNewFails = FALSE
  BadData = FALSE
  ExportFails = TRUE
INVARIANT LogoutEndsSession
CHECK_DEADLOCK FALSE
