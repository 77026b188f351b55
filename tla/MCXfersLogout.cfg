\* The account goes offline while a file is on its way.
SPECIFICATION Spec
CONSTANTS
  Friends = {1}
  SendFiles = {0}
  RecvFiles = {1}
  Sizes = {1}
  MaxXfers = 1
  MaxIdles = 1
  FileErrors = FALSE
  Early = FALSE
  Disconnects = TRUE
  Replaces = FALSE
INVARIANT NothingUsesKilledTox
CHECK_DEADLOCK FALSE
