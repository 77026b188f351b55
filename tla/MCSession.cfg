\* Four instances in four connections; tox_new may fail, and exports fail and log
\* in again over a running session.
SPECIFICATION FairSpec
CONSTANTS
  MaxInstances = 4
  MaxLogins = 4
  ToxNewFails = TRUE
  BadData = FALSE
  ExportFails = TRUE
INVARIANTS
  TypeOK
  IdentitySurvivesCrash
PROPERTIES
  IdentityKept
  DHTIsNoticed
CHECK_DEADLOCK FALSE
