\* Three transfers with two friends, numbers that never coincide; early ends, errors of
\* the local files, a logout.
SPECIFICATION Spec
CONSTANTS
  Friends = {1, 2}
  SendFiles = {0}
  RecvFiles = {1}
  Sizes = {2}
  MaxXfers = 3
  MaxIdles = 3
  FileErrors = TRUE
  Early = TRUE
  Disconnects = TRUE
  Replaces = FALSE
INVARIANTS
  TypeOK
  MemorySafe
  NoPieceLostOrRepeated
PROPERTIES
  CompleteIsCounted
  PiecesReachRecipient
  FileDeliverySpec
CHECK_DEADLOCK FALSE
