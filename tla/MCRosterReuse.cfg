\* A buddy re-added, its number cached twice and then reused.
SPECIFICATION Spec
CONSTANTS
  k1 = k1
  k2 = k2
  k3 = k3
  g1 = g1
  g2 = g2
  Keys = {k1, k2}
  NoKey = NoKey
  Groups = {g1, g2}
  DefaultGroup = g1
  MaxFriends = 2
  MaxDialogs = 1
  AddKnown = TRUE
  Relogin = FALSE
INVARIANT NumberIsNobodyElses
