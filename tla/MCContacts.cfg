\* Three users, one of them followed, two groups; no re-adding of a listed buddy.
SPECIFICATION ContactsSpec
CONSTANTS
  k1 = k1
  k2 = k2
  k3 = k3
  g1 = g1
  g2 = g2
  Keys = {k1, k2, k3}
  NoKey = NoKey
  Groups = {g1, g2}
  DefaultGroup = g1
  MaxFriends = 3
  MaxDialogs = 2
  AddKnown = FALSE
  Relogin = FALSE
  Watched = {k1}
INVARIANTS
  TypeOK
  SavedIsLive
  EveryFriendListed
  BuddyResolves
  PresenceTypeOK
  OnlineIsConnected
  ReportedIsShown
  ConnectedIsSeen
  MessagesReachName
PROPERTIES
  OnlyNamedFriendForgotten
  LoginReconciles
  FriendBookSpec
