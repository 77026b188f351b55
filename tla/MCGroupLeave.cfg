\* One group, two peers with different names, who come and go.
SPECIFICATION Spec
CONSTANTS
  Names = {a, b}
  Titles = {t}
  NoTitle = NoTitle
  Garbage = Garbage
  MaxLogins = 1
  MaxWindows = 1
  MaxPeers = 2
  MaxMembers = 2
  MaxDialogs = 1
INVARIANT MembersArePeers
CHECK_DEADLOCK FALSE
