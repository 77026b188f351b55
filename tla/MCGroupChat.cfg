\* Two windows in two connections, groups of three peers with two names, lists
\* of three members.
SPECIFICATION Spec
CONSTANTS
  Names = {a, b}
  Titles = {t}
  NoTitle = NoTitle
  Garbage = Garbage
  MaxLogins = 2
  MaxWindows = 2
  MaxPeers = 3
  MaxMembers = 3
  MaxDialogs = 1
SYMMETRY NameSymmetry
INVARIANTS
  TypeOK
  NobodyUncounted
  TitleIsTheGroups
  StrayNeedsClosing
CHECK_DEADLOCK FALSE
