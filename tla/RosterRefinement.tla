-------------------------- MODULE RosterRefinement --------------------------
(***************************************************************************)
(* Roster implements FriendBook, as long as the user does not add a key    *)
(* the list already names and no failed export runs the login again; and   *)
(* two action properties, one of which is a consequence.                   *)
(***************************************************************************)
EXTENDS RosterProofs

\* What the steps below may assume of the state they start in.
LEMMA ExactFacts ==
  ASSUME IInv, ~AddKnown, ~Relogin
  PROVE  /\ TypeOK /\ NumberedOnce /\ OffClean
         /\ friends \in FriendLists /\ blist \in BuddyLists
         /\ account # "data" => saved = {}
         /\ phase # "off" => saved = Live(friends)
         /\ UniqueNames /\ PendingOK /\ BuddyResolves
  BY DEF IInv, TypeOK, SavedOK, Exact, AccountOK, FriendLists, BuddyLists

\* After a login from outside a session, the names are the friends', if any.
LEMMA LoginNames ==
  ASSUME IInv, phase = "off", NEW f \in FriendLists,
         blist' = SynchronizeBuddyList(f)
  PROVE  /\ Names(blist') = IF Live(f) = {} THEN Names(blist) ELSE Live(f)
         /\ \A k \in Keys, g \in Groups :
              Live(f) # {} => blist'[k][g] \in {Absent, FriendNumber(f, k)}
  <1>1. /\ blist \in BuddyLists
        /\ \A k \in Keys, g \in Groups : blist[k][g] \in {NoData, Absent}
    BY DEF IInv, TypeOK, OffClean, BuddyLists
  <1>2. \A k \in Keys, g \in Groups :
          blist'[k][g] = IF k \in Live(f) /\ Listed(k, g) THEN FriendNumber(f, k)
                         ELSE IF Live(f) # {} /\ blist[k][g] = NoData THEN Absent
                         ELSE blist[k][g]
    BY DEF SynchronizeBuddyList
  <1>3. \A k \in Keys : k \in Live(f) => FriendNumber(f, k) # Absent
    BY FriendNumberFinds, Marks
  <1>4. ASSUME NEW k \in Live(f) PROVE k \in Keys /\ k \in Names(blist')
    <2>1. k \in Keys
      BY DEF Live
    <2>2. PICK g \in Groups : blist'[k][g] = FriendNumber(f, k)
      BY <1>1, SynchronizeResult
    <2> QED
      BY <1>3, <2>1, <2>2 DEF Names
  <1>5. \A k \in Keys, g \in Groups :
          /\ Live(f) # {} /\ k \notin Live(f) => blist'[k][g] = Absent
          /\ Live(f) = {} => blist'[k][g] = blist[k][g]
          /\ Live(f) # {} => blist'[k][g] \in {Absent, FriendNumber(f, k)}
    BY <1>1, <1>2 DEF Listed
  <1>6. CASE Live(f) = {}
    BY <1>5, <1>6 DEF Names
  <1>7. CASE Live(f) # {}
    <2>1. Names(blist') \subseteq Live(f)
      BY <1>5, <1>7 DEF Names
    <2> QED
      BY <1>4, <1>5, <1>7, <2>1
  <1> QED
    BY <1>6, <1>7

\* A login is a Setup or a Login of the friend book.
LEMMA ConfigureRefines ==
  ASSUME IInv, ~AddKnown, ~Relogin, MayLogin,
         NEW acc, NEW S \in SUBSET Keys,
         (acc = account /\ S = saved) \/ account = "null",
         ConfigureToxAndConnect(acc, S)
  PROVE  Book!Setup(S) \/ Book!Login(S)
  <1>1. /\ phase = "off" /\ saved' = S
        /\ Book!Replaces(S)
    BY ExactFacts DEF MayLogin, ConfigureToxAndConnect, Book!Replaces
  <1>2. CASE UNCHANGED <<phase, friends, blist, dialogs>>
    BY <1>1, <1>2 DEF Book!Setup, Names
  <1>3. ASSUME NEW f \in Numberings(S),
               blist' = SynchronizeBuddyList(f),
               phase' = IF phase = "off" THEN "connecting" ELSE "lost"
        PROVE  Book!Login(S)
    <2>1. f \in FriendLists /\ Live(f) = S
      BY DEF Numberings, FriendLists
    <2>2. Names(blist') = IF S = {} THEN Names(blist) ELSE S
      BY <1>1, <1>3, <2>1, LoginNames
    <2>3. Names(blist)' = Names(blist')
      BY DEF Names
    <2> QED
      BY <1>1, <1>3, <2>2, <2>3 DEF Book!Login
  <1> QED
    BY <1>2, <1>3 DEF ConfigureToxAndConnect

\* Making a friend who is on no group's list befriends that key.
LEMMA AddFriendRefines ==
  ASSUME IInv, ~AddKnown, ~Relogin, phase # "off", phase' = phase,
         NEW k \in Keys, NEW g \in Groups, NEW s \in Slots,
         AddFriend(k, s), NEW n \in BuddyStates \ {Absent},
         blist' = [blist EXCEPT ![k][g] = n]
  PROVE  Book!Befriend(k)
  <1>1. /\ friends \in FriendLists /\ blist \in BuddyLists
        /\ saved = Live(friends)
    BY ExactFacts
  <1>2. k \notin saved /\ saved' = saved \cup {k}
    BY <1>1, LiveAdds DEF AddFriend, FreeSlot, SaveAccount
  <1>3. /\ blist'[k][g] # Absent
        /\ \A j \in Keys, h \in Groups : j # k => blist'[j][h] = blist[j][h]
        /\ \A h \in Groups : h # g => blist'[k][h] = blist[k][h]
    BY <1>1 DEF BuddyLists
  <1>4. Names(blist)' = Names(blist) \cup {k}
    BY <1>3 DEF Names
  <1> QED
    BY <1>2, <1>4 DEF Book!Befriend

\* Removing a buddy drops the friend of that name and nobody else.
LEMMA RemoveBuddyRefines ==
  ASSUME IInv, ~AddKnown, ~Relogin,
         NEW k \in Keys, NEW g \in Groups, RemoveBuddy(k, g)
  PROVE  Book!Drop(k)
  <1> DEFINE n == blist[k][g]
  <1>1. /\ friends \in FriendLists /\ blist \in BuddyLists
        /\ NumberedOnce /\ UniqueNames /\ BuddyResolves
    BY ExactFacts
  <1>2. /\ phase # "off" /\ phase' = phase /\ saved = Live(friends)
        /\ n \in BuddyStates \ {Absent}
        /\ blist' = [blist EXCEPT ![k][g] = Absent]
    BY <1>1, ExactFacts DEF RemoveBuddy, BuddyLists
  <1>3. /\ n \in Slots => friends[n] = k
        /\ n \notin Slots => k \notin Live(friends)
    BY <1>1, <1>2 DEF BuddyResolves, BuddyStates
  <1>4. saved' = saved \ {k}
    <2>1. CASE n = NoData
      BY <1>2, <1>3, <2>1, Marks DEF RemoveBuddy
    <2>2. CASE n # NoData
      <3>1. saved' = Live(DelFriend(friends, n))
        BY <2>2 DEF RemoveBuddy, SaveAccount
      <3> QED
        BY <1>1, <1>2, <1>3, <3>1, LiveDeletes DEF NumberedOnce
    <2> QED
      BY <2>1, <2>2
  <1>5. /\ blist'[k][g] = Absent
        /\ \A j \in Keys, h \in Groups : j # k => blist'[j][h] = blist[j][h]
        /\ \A h \in Groups : h # g => blist'[k][h] = blist[k][h]
    BY <1>1, <1>2 DEF BuddyLists
  <1>6. \A h \in Groups : blist'[k][h] = Absent
    BY <1>1, <1>2, <1>5 DEF UniqueNames
  <1>7. k \in Names(blist) /\ Names(blist)' = Names(blist) \ {k}
    BY <1>2, <1>5, <1>6 DEF Names
  <1> QED
    BY <1>2, <1>4, <1>7 DEF Book!Drop

\* Every step of Roster is a step of FriendBook or leaves its variables alone.
LEMMA StepRefines ==
  ASSUME IInv, ~AddKnown, ~Relogin, [Next]_vars
  PROVE  [Book!Next]_(Book!vars)
  <1>1. /\ TypeOK /\ OffClean /\ PendingOK
        /\ account # "data" => saved = {}
        /\ phase # "off" => saved = Live(friends)
    BY ExactFacts
  <1>2. ASSUME NEW S \in SUBSET Keys, Book!Setup(S) \/ Book!Login(S)
        PROVE  Book!Next
    BY <1>2 DEF Book!Next
  <1>3. CASE LoginExisting
    BY <1>1, <1>2, <1>3, ConfigureRefines DEF LoginExisting, TypeOK
  <1>4. CASE CreateNewAccount
    BY <1>2, <1>4, ConfigureRefines DEF CreateNewAccount
  <1>5. CASE ImportUser
    BY <1>2, <1>5, ConfigureRefines DEF ImportUser
  <1>6. ASSUME phase # "off", EndSession, saved' = saved
        PROVE  Book!Next
    <2>1. Names(blist)' = Names(blist)
      BY <1>6, Marks DEF EndSession, DropData, Names
    <2> QED
      BY <1>6, <2>1 DEF EndSession, Book!GoOffline, Book!Next
  <1>7. CASE ShutdownPRPL
    BY <1>1, <1>6, <1>7 DEF ShutdownPRPL, SaveAccount
  <1>8. CASE Crash
    BY <1>6, <1>8 DEF Crash
  <1>9. CASE DHTConnected
    <2>1. \A k \in Keys : FriendNumber(friends, k) # Absent
      BY <1>1, FriendNumberFinds, Marks DEF TypeOK, FriendLists
    <2>2. \A k \in Keys, g \in Groups :
            blist'[k][g] # Absent <=> blist[k][g] # Absent
      BY <1>9, <2>1, Marks DEF DHTConnected, GetBuddyInfo
    <2>3. Names(blist)' = Names(blist)
      BY <2>2 DEF Names
    <2> QED
      BY <1>9, <2>3 DEF DHTConnected, Book!vars
  <1>10. ASSUME phase # "off", phase' # "off", saved' = saved, blist' = blist
         PROVE  UNCHANGED Book!vars
    BY <1>10 DEF Book!vars, Names
  <1>11. CASE DHTDisconnected
    BY <1>10, <1>11 DEF DHTDisconnected
  <1>12. ASSUME NEW k \in Keys, Book!Befriend(k) \/ Book!Drop(k)
         PROVE  Book!Next
    BY <1>12 DEF Book!Next
  <1>13. ASSUME NEW k \in Keys, NEW g \in Groups, AddBuddy(k, g)
         PROVE  Book!Next
    <2>1. PICK s \in Slots : AddFriend(k, s)
      BY <1>13 DEF AddBuddy
    <2>2. friends' \in FriendLists /\ k \in Live(friends')
      <3>1. /\ friends \in FriendLists /\ friends[s] = NoKey
            /\ friends' = [friends EXCEPT ![s] = k]
        BY <1>1, <2>1 DEF AddFriend, FreeSlot, TypeOK, FriendLists
      <3>2. Live([friends EXCEPT ![s] = k]) = Live(friends) \cup {k}
        BY <3>1, LiveAdds
      <3>3. [friends EXCEPT ![s] = k] \in FriendLists
        BY <3>1, LiveAdds
      <3> QED
        BY <3>1, <3>2, <3>3
    <2>3. FriendNumber(friends', k) \in BuddyStates \ {Absent}
      BY <2>2, FriendNumberFinds, Marks DEF BuddyStates
    <2>4. /\ phase # "off" /\ phase' = phase
          /\ blist' = [blist EXCEPT ![k][g] = FriendNumber(friends', k)]
      BY <1>13 DEF AddBuddy, GetBuddyInfo
    <2> QED
      BY <1>12, <2>1, <2>3, <2>4, AddFriendRefines
  <1>14. ASSUME NEW k \in Keys, NEW g \in Groups, RemoveBuddy(k, g)
         PROVE  Book!Next
    BY <1>12, <1>14, RemoveBuddyRefines
  <1>15. ASSUME NEW k \in Keys, OnFriendRequest(k)
         PROVE  UNCHANGED Book!vars
    BY <1>10, <1>15 DEF OnFriendRequest
  <1>16. ASSUME NEW k \in Keys, dialogs[k] > 0
         PROVE  phase # "off"
    BY <1>1, <1>16 DEF OffClean
  <1>17. ASSUME NEW k \in Keys, AcceptFriendRequest(k)
         PROVE  [Book!Next]_(Book!vars)
    <2>1. phase # "off" /\ phase' = phase
      BY <1>16, <1>17 DEF AcceptFriendRequest
    <2>2. CASE UNCHANGED <<account, saved, friends, blist>>
      BY <1>10, <2>1, <2>2
    <2>3. ASSUME NEW s \in Slots, AddFriend(k, s),
                 blist' = [blist EXCEPT ![k][DefaultGroup] = s]
          PROVE  Book!Next
      <3>1. s \in BuddyStates \ {Absent}
        BY Marks DEF BuddyStates
      <3> QED
        BY <1>12, <2>1, <2>3, <3>1, AddFriendRefines, RosterAssumption
    <2> QED
      BY <1>17, <2>2, <2>3 DEF AcceptFriendRequest
  <1>18. ASSUME NEW k \in Keys, RejectFriendRequest(k)
         PROVE  UNCHANGED Book!vars
    BY <1>10, <1>16, <1>18 DEF RejectFriendRequest
  <1>19. CASE UNCHANGED vars
    BY <1>19 DEF vars, Book!vars, Names
  <1> QED
    BY <1>3, <1>4, <1>5, <1>7, <1>8, <1>9, <1>11, <1>13, <1>14, <1>15, <1>17,
       <1>18, <1>19 DEF Next

\* The friend system keeps the promise of FriendBook: the stored friends and
\* the names on the list change only as that specification says.
THEOREM Refinement == ASSUME ~AddKnown, ~Relogin PROVE Spec => FriendBookSpec
  <1>1. Init => Book!Init
    BY DEF Init, Book!Init, Names
  <1>2. IInv /\ [Next]_vars => [Book!Next]_(Book!vars)
    BY StepRefines
  <1> QED
    BY <1>1, <1>2, Invariance, PTL DEF Spec, FriendBookSpec, Book!Spec

\* A stored friend is forgotten only when a buddy of that name is removed: the
\* friend book has no other step that loses one.
THEOREM OnlyNamedForgotten ==
  ASSUME ~AddKnown, ~Relogin PROVE Spec => OnlyNamedFriendForgotten
  <1>1. ASSUME IInv, [Next]_vars, NEW k \in saved \ saved'
        PROVE  \E g \in Groups : blist[k][g] # Absent /\ blist'[k][g] = Absent
    <2>1. [Book!Next]_(Book!vars)
      BY <1>1, StepRefines
    <2>2. Book!Drop(k)
      BY <1>1, <2>1 DEF Book!Next, Book!vars, Book!Setup, Book!Login,
                        Book!Replaces, Book!Befriend, Book!Drop, Book!GoOffline
    <2>3. k \in Names(blist) /\ k \in Keys /\ k \notin Names(blist)'
      BY <2>2 DEF Book!Drop, Names
    <2> QED
      BY <2>3 DEF Names
  <1>2. IInv /\ [Next]_vars =>
          [\A k \in saved \ saved' :
             \E g \in Groups : blist[k][g] # Absent /\ blist'[k][g] = Absent]_vars
    BY <1>1
  <1> QED
    BY <1>2, Invariance, PTL DEF Spec, OnlyNamedFriendForgotten

\* A login with friends leaves exactly them on the buddy list, each under its
\* own number.
THEOREM LoginsReconcile == Spec => LoginReconciles
  <1>1. ASSUME IInv, [Next]_vars, phase = "off", phase' = "connecting",
               Live(friends') # {}
        PROVE  /\ Names(blist') = Live(friends')
               /\ \A k \in Keys, g \in Groups :
                    blist'[k][g] \in {Absent, FriendNumber(friends', k)}
    <2>1. PICK acc, S : ConfigureToxAndConnect(acc, S)
      BY <1>1 DEF Next, vars, LoginExisting, CreateNewAccount, ImportUser,
                  ShutdownPRPL, Crash, DHTConnected, DHTDisconnected, AddBuddy,
                  RemoveBuddy, OnFriendRequest, AcceptFriendRequest,
                  RejectFriendRequest
    <2>2. friends' \in FriendLists /\ blist' = SynchronizeBuddyList(friends')
      BY <1>1, <2>1 DEF ConfigureToxAndConnect, Numberings, FriendLists
    <2> QED
      BY <1>1, <2>2, LoginNames
  <1>2. IInv /\ [Next]_vars =>
          [phase = "off" /\ phase' = "connecting" /\ Live(friends') # {} =>
             /\ Names(blist') = Live(friends')
             /\ \A k \in Keys, g \in Groups :
                  blist'[k][g] \in {Absent, FriendNumber(friends', k)}]_vars
    BY <1>1
  <1> QED
    BY <1>2, Invariance, PTL DEF Spec, LoginReconciles
=============================================================================
