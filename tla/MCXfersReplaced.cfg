\* A friend is removed while a file is on its way to him, and his number given to
\* another, who is sent a file too.
SPECIFICATION Spec
CONSTANTS
  Friends = {1}
  SendFiles = {0}
  RecvFiles = {1}
  Sizes = {2}
  MaxXfers = 2
  MaxIdles = 2
  FileErrors = FALSE
  Early = FALSE
  Disconnects = FALSE
  Replaces = TRUE
PROPERTY PiecesReachRecipient
CHECK_DEADLOCK FALSE
