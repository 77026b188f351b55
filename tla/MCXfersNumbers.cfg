\* A file to a friend and a file from him, both the first of their direction.
SPECIFICATION Spec
CONSTANTS
  Friends = {1}
  SendFiles = {0}
  RecvFiles = {0}
  Sizes = {1}
  MaxXfers = 2
  MaxIdles = 2
  FileErrors = FALSE
  Early = FALSE
  Disconnects = FALSE
  Replaces = FALSE
INVARIANT PortFindsItsXfer
CHECK_DEADLOCK FALSE
