\* The first friend and the first files, whose numbers transfers not yet prepared
\* have too and sent and received files share; empty files, early ends, a
\* logout; fair.
SPECIFICATION FairSpec
CONSTANTS
  Friends = {0}
  SendFiles = {0, 1}
  RecvFiles = {0}
  Sizes = {0, 1, 2}
  MaxXfers = 2
  MaxIdles = 3
  FileErrors = TRUE
  Early = TRUE
  Disconnects = TRUE
  Replaces = TRUE
INVARIANTS
  PortHasXfer
  RunningIsOwned
PROPERTIES
  OverIsFinal
  EveryCallbackGoes
CHECK_DEADLOCK FALSE
