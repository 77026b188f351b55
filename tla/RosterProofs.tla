---------------------------- MODULE RosterProofs ----------------------------
(***************************************************************************)
(* Proofs about Roster, for any set of keys and groups and any number of   *)
(* slots. The inductive invariant IInv ties the four copies of the friend  *)
(* list together; its parts hold under the assumptions their statements    *)
(* name (no second login in a session, no re-adding of a listed key).      *)
(***************************************************************************)
EXTENDS Roster, TLAPS

\* No friend occupies two slots.
NumberedOnce ==
  \A s, t \in Slots : friends[s] = friends[t] /\ friends[s] # NoKey => s = t

\* Account data without friends, and a session without account data.
AccountOK ==
  /\ account # "data" => saved = {}
  /\ phase # "off" => account # "rejected"
  /\ phase # "off" /\ account = "null" => Live(friends) = {}

\* Nothing of a session outlives it.
OffClean ==
  phase = "off" =>
    /\ friends = NoFriends
    /\ \A k \in Keys, g \in Groups : blist[k][g] \in {NoData, Absent}
    /\ \A k \in Keys : dialogs[k] = 0

\* SavedIsLive, but for an import that a second login could not finish.
SavedOK ==
  phase # "off" => saved = Live(friends) \/ (Relogin /\ Live(friends) = {})

UniqueNames ==
  \A k \in Keys, g, h \in Groups :
    blist[k][g] # Absent /\ blist[k][h] # Absent => g = h

\* A key with an open request that got onto the list meanwhile is a friend.
PendingOK ==
  \A k \in Keys : dialogs[k] > 0 /\ k \in Names(blist) => k \in Live(friends)

Exact == UniqueNames /\ PendingOK /\ BuddyResolves

IInv ==
  /\ TypeOK
  /\ NumberedOnce
  /\ AccountOK
  /\ OffClean
  /\ SavedOK
  /\ EveryFriendListed
  /\ ~AddKnown => Exact

FriendLists == [Slots -> Keys \cup {NoKey}]
BuddyLists == [Keys -> [Groups -> BuddyStates]]

-----------------------------------------------------------------------------
(* Lemmas about the friend list *)

\* Slot numbers and the three marks a buddy may carry instead are distinct.
LEMMA Marks ==
  /\ Slots \subseteq Nat
  /\ NoFriend \notin Slots /\ NoData \notin Slots /\ Absent \notin Slots
  /\ NoFriend # NoData /\ NoFriend # Absent /\ NoData # Absent
  BY RosterAssumption DEF Slots, NoFriend, NoData, Absent

\* tox_get_friend_number returns the slot of a friend, and -1 for others.
LEMMA FriendNumberFinds ==
  ASSUME NEW f \in FriendLists, NEW k \in Keys
  PROVE  /\ k \in Live(f) => /\ FriendNumber(f, k) \in Slots
                             /\ f[FriendNumber(f, k)] = k
         /\ k \notin Live(f) => FriendNumber(f, k) = NoFriend
         /\ FriendNumber(f, k) \in BuddyStates
  BY DEF FriendNumber, Live, BuddyStates

\* Adding a friend in a free slot adds just that key.
LEMMA LiveAdds ==
  ASSUME NEW f \in FriendLists, NEW k \in Keys, NEW s \in Slots, f[s] = NoKey
  PROVE  /\ [f EXCEPT ![s] = k] \in FriendLists
         /\ Live([f EXCEPT ![s] = k]) = Live(f) \cup {k}
  BY RosterAssumption DEF FriendLists, Live

\* Deleting a number removes the key it stands for and no other.
LEMMA LiveDeletes ==
  ASSUME NEW f \in FriendLists, NEW n \in BuddyStates,
         \A s, t \in Slots : f[s] = f[t] /\ f[s] # NoKey => s = t
  PROVE  /\ DelFriend(f, n) \in FriendLists
         /\ n \in Slots => Live(DelFriend(f, n)) = Live(f) \ {f[n]}
         /\ n \notin Slots => DelFriend(f, n) = f
  <1>1. DelFriend(f, n) \in FriendLists /\ (n \notin Slots => DelFriend(f, n) = f)
    BY DEF DelFriend, FriendLists
  <1>2. ASSUME n \in Slots
        PROVE  Live(DelFriend(f, n)) = Live(f) \ {f[n]}
    <2> DEFINE d == [f EXCEPT ![n] = NoKey]
    <2>1. DelFriend(f, n) = d
      BY <1>2 DEF DelFriend
    <2>2. \A s \in Slots : d[s] = IF s = n THEN NoKey ELSE f[s]
      BY DEF FriendLists
    <2>3. ASSUME NEW k \in Keys
          PROVE  (\E s \in Slots : d[s] = k) <=> (\E s \in Slots : f[s] = k) /\ k # f[n]
      BY <1>2, <2>2, RosterAssumption
    <2> QED
      BY <2>1, <2>3 DEF Live
  <1> QED
    BY <1>1, <1>2

\* An empty friend list has no friends and the right type.
LEMMA NoFriendsEmpty == NoFriends \in FriendLists /\ Live(NoFriends) = {}
  BY RosterAssumption DEF NoFriends, FriendLists, Live
-----------------------------------------------------------------------------
(* The inductive invariant *)

\* At the start nothing runs and every name is listed once.
LEMMA InitIInv == Init => IInv
  <1> SUFFICES ASSUME Init PROVE IInv
    OBVIOUS
  <1> USE DEF Init
  <1>1. TypeOK
    BY NoFriendsEmpty DEF TypeOK, BuddyStates, FriendLists
  <1>2. NumberedOnce
    BY DEF NumberedOnce, NoFriends
  <1>3. AccountOK /\ OffClean /\ SavedOK /\ EveryFriendListed
    BY DEF AccountOK, OffClean, SavedOK, EveryFriendListed
  <1>4. Exact
    BY DEF Exact, UniqueNames, PendingOK, BuddyResolves
  <1> QED
    BY <1>1, <1>2, <1>3, <1>4 DEF IInv

\* What ToxPRPL_synchronizeBuddyList leaves on a buddy list.
LEMMA SynchronizeResult ==
  ASSUME NEW f \in FriendLists, blist \in BuddyLists
  PROVE  /\ SynchronizeBuddyList(f) \in BuddyLists
         /\ \A k \in Live(f) : \E g \in Groups :
              SynchronizeBuddyList(f)[k][g] = FriendNumber(f, k)
         /\ \A k \in Live(f), g \in Groups :
              SynchronizeBuddyList(f)[k][g] \in {Absent, FriendNumber(f, k)}
         /\ \A k \in Keys \ Live(f), g \in Groups :
              \/ SynchronizeBuddyList(f)[k][g] = blist[k][g]
              \/ SynchronizeBuddyList(f)[k][g] = Absent
         /\ \A k \in Live(f) : \A g, h \in Groups :
              (blist[k][g] # Absent /\ blist[k][h] # Absent => g = h) =>
                (SynchronizeBuddyList(f)[k][g] # Absent
                   /\ SynchronizeBuddyList(f)[k][h] # Absent => g = h)
  <1> DEFINE b == SynchronizeBuddyList(f)
  <1>1. \A k \in Keys : FriendNumber(f, k) \in BuddyStates
    BY FriendNumberFinds
  <1>2. b \in BuddyLists
    BY <1>1 DEF SynchronizeBuddyList, BuddyLists, BuddyStates
  <1>3. \A k \in Keys, g \in Groups :
          b[k][g] = IF k \in Live(f) /\ Listed(k, g) THEN FriendNumber(f, k)
                    ELSE IF Live(f) # {} /\ blist[k][g] = NoData THEN Absent
                    ELSE blist[k][g]
    BY DEF SynchronizeBuddyList
  <1>4. \A k \in Live(f) : k \in Keys
    BY DEF Live
  <1>5. ASSUME NEW k \in Live(f)
        PROVE  \E g \in Groups : b[k][g] = FriendNumber(f, k)
    <2>1. CASE k \in Names(blist)
      BY <1>3, <1>4, <2>1 DEF Names, Listed
    <2>2. CASE k \notin Names(blist)
      BY <1>3, <1>4, <2>2, RosterAssumption DEF Listed
    <2> QED
      BY <2>1, <2>2
  <1>6. \A k \in Live(f), g \in Groups :
          /\ b[k][g] \in {Absent, FriendNumber(f, k)}
          /\ b[k][g] # Absent => Listed(k, g)
    BY <1>3, <1>4 DEF Listed
  <1>7. \A k \in Keys \ Live(f), g \in Groups :
          b[k][g] = blist[k][g] \/ b[k][g] = Absent
    BY <1>3
  <1>8. ASSUME NEW k \in Live(f), NEW g \in Groups, NEW h \in Groups,
               blist[k][g] # Absent /\ blist[k][h] # Absent => g = h,
               b[k][g] # Absent, b[k][h] # Absent
        PROVE  g = h
    BY <1>4, <1>6, <1>8 DEF Names, Listed
  <1> QED
    BY <1>2, <1>5, <1>6, <1>7, <1>8

\* A login, first or second, from data that may replace what was saved.
LEMMA ConfigureKeepsIInv ==
  ASSUME IInv, MayLogin, NEW acc \in {"null", "data", "rejected"},
         NEW S \in SUBSET Keys,
         acc # "data" => S = {},
         (acc = account /\ S = saved) \/ account = "null",
         ConfigureToxAndConnect(acc, S)
  PROVE  IInv'
  <1>1. /\ TypeOK /\ NumberedOnce /\ AccountOK /\ OffClean /\ SavedOK
        /\ EveryFriendListed /\ (~AddKnown => Exact)
    BY DEF IInv
  <1>2. /\ account' = (IF acc = "rejected" THEN "null" ELSE "data")
        /\ saved' = S
    BY DEF ConfigureToxAndConnect
  <1>3. friends \in FriendLists /\ blist \in BuddyLists
    BY <1>1 DEF TypeOK, FriendLists, BuddyLists
  <1>4. phase # "off" => Relogin
    BY DEF MayLogin
  <1>5. Live(friends) # {} => S = Live(friends)
    <2> SUFFICES ASSUME Live(friends) # {} PROVE S = Live(friends)
      OBVIOUS
    <2>1. phase # "off"
      BY <1>1, NoFriendsEmpty DEF OffClean
    <2> QED
      BY <1>1, <2>1 DEF AccountOK, SavedOK
  <1>6. CASE UNCHANGED <<phase, friends, blist, dialogs>>
    <2>1. TypeOK'
      BY <1>1, <1>2, <1>6 DEF TypeOK
    <2>2. NumberedOnce' /\ OffClean' /\ EveryFriendListed'
      BY <1>1, <1>6 DEF NumberedOnce, OffClean, EveryFriendListed, Live
    <2>3. AccountOK'
      BY <1>1, <1>2, <1>6 DEF AccountOK, Live
    <2>4. SavedOK'
      BY <1>2, <1>4, <1>5, <1>6 DEF SavedOK, Live
    <2>5. ASSUME ~AddKnown PROVE Exact'
      BY <1>1, <1>6, <2>5 DEF Exact, UniqueNames, PendingOK, BuddyResolves,
                              Live, Names
    <2> QED
      BY <2>1, <2>2, <2>3, <2>4, <2>5 DEF IInv
  <1>7. ASSUME NEW f \in Numberings(S),
               friends' = f,
               blist' = SynchronizeBuddyList(f),
               phase' = IF phase = "off" THEN "connecting" ELSE "lost",
               UNCHANGED dialogs
        PROVE  IInv'
    <2>1. /\ f \in FriendLists
          /\ Live(f) = S
          /\ \A s, t \in Slots : f[s] = f[t] /\ f[s] # NoKey => s = t
      BY DEF Numberings, FriendLists
    <2>2. phase' # "off"
      BY <1>7
    <2>3. TypeOK'
      BY <1>1, <1>2, <1>3, <1>7, <2>1, SynchronizeResult
         DEF TypeOK, FriendLists, BuddyLists
    <2>4. NumberedOnce' /\ OffClean'
      BY <1>7, <2>1, <2>2 DEF NumberedOnce, OffClean
    <2>5. AccountOK' /\ SavedOK'
      BY <1>2, <1>7, <2>1 DEF AccountOK, SavedOK
    <2>6. EveryFriendListed'
      <3> SUFFICES ASSUME NEW k \in Live(f)
                   PROVE  \E g \in Groups : /\ blist'[k][g] \in Slots
                                            /\ f[blist'[k][g]] = k
        BY <1>7 DEF EveryFriendListed
      <3>1. k \in Keys
        BY DEF Live
      <3>2. PICK g \in Groups : blist'[k][g] = FriendNumber(f, k)
        BY <1>3, <1>7, <2>1, SynchronizeResult
      <3> QED
        BY <2>1, <3>1, <3>2, FriendNumberFinds
    <2>7. ASSUME ~AddKnown PROVE Exact'
      <3>1. UniqueNames /\ PendingOK /\ BuddyResolves
        BY <1>1, <2>7 DEF Exact
      <3>2. ASSUME NEW k \in Live(f)
            PROVE  /\ k \in Keys
                   /\ FriendNumber(f, k) \in Slots
                   /\ f[FriendNumber(f, k)] = k
                   /\ \A g \in Groups :
                        blist'[k][g] \in {Absent, FriendNumber(f, k)}
        BY <1>3, <1>7, <2>1, SynchronizeResult, FriendNumberFinds DEF Live
      <3>3. ASSUME NEW k \in Keys \ Live(f), NEW g \in Groups
            PROVE  blist'[k][g] = blist[k][g] \/ blist'[k][g] = Absent
        BY <1>3, <1>7, <2>1, SynchronizeResult
      <3>4. UniqueNames'
        <4> SUFFICES ASSUME NEW k \in Keys, NEW g \in Groups, NEW h \in Groups,
                            blist'[k][g] # Absent, blist'[k][h] # Absent
                     PROVE  g = h
          BY DEF UniqueNames
        <4>1. blist[k][g] # Absent /\ blist[k][h] # Absent => g = h
          BY <3>1 DEF UniqueNames
        <4>2. CASE k \in Live(f)
          BY <1>3, <1>7, <2>1, <4>1, <4>2, SynchronizeResult
        <4>3. CASE k \notin Live(f)
          BY <3>3, <4>1, <4>3
        <4> QED
          BY <4>2, <4>3
      <3>5. PendingOK'
        <4> SUFFICES ASSUME NEW k \in Keys, dialogs[k] > 0, k \in Names(blist)',
                            k \notin Live(f)
                     PROVE  FALSE
          BY <1>7 DEF PendingOK
        <4>1. k \in Names(blist)
          BY <3>3 DEF Names
        <4>2. k \in Live(friends)
          BY <3>1, <4>1 DEF PendingOK
        <4> QED
          BY <1>5, <2>1, <4>2
      <3>6. BuddyResolves'
        <4> SUFFICES ASSUME NEW k \in Keys, NEW g \in Groups
                     PROVE  /\ blist'[k][g] \in Slots => f[blist'[k][g]] = k
                            /\ blist'[k][g] \in {NoFriend, NoData}
                                 => k \notin Live(f)
          BY <1>7 DEF BuddyResolves
        <4>1. CASE k \in Live(f)
          BY <3>2, <4>1, Marks
        <4>2. CASE k \notin Live(f)
          <5> SUFFICES ASSUME blist'[k][g] \in Slots PROVE FALSE
            BY <4>2
          <5>1. blist[k][g] \in Slots
            BY <3>3, <4>2, Marks
          <5>2. phase # "off" /\ friends[blist[k][g]] = k
            BY <1>1, <3>1, <5>1, Marks DEF OffClean, BuddyResolves
          <5>3. k \in Live(friends)
            BY <5>1, <5>2 DEF Live
          <5> QED
            BY <1>5, <2>1, <4>2, <5>3
        <4> QED
          BY <4>1, <4>2
      <3> QED
        BY <3>4, <3>5, <3>6 DEF Exact
    <2> QED
      BY <2>3, <2>4, <2>5, <2>6, <2>7 DEF IInv
  <1> QED
    BY <1>6, <1>7 DEF ConfigureToxAndConnect

\* The end of a session, orderly or not: nothing of it is left.
LEMMA EndSessionKeepsIInv ==
  ASSUME IInv, EndSession,
         account' \in {"null", "data", "rejected"}, saved' \in SUBSET Keys,
         account' # "data" => saved' = {}
  PROVE  IInv'
  <1> USE DEF EndSession
  <1>1. TypeOK /\ blist \in BuddyLists
    BY DEF IInv, TypeOK, BuddyLists
  <1>2. \A k \in Keys, g \in Groups : blist'[k][g] \in {NoData, Absent}
    BY DEF DropData
  <1>3. TypeOK'
    BY <1>1, NoFriendsEmpty DEF TypeOK, DropData, BuddyStates, FriendLists
  <1>4. /\ NumberedOnce' /\ AccountOK' /\ OffClean' /\ SavedOK'
        /\ EveryFriendListed'
    BY <1>2 DEF NumberedOnce, NoFriends, AccountOK, OffClean, SavedOK,
                EveryFriendListed
  <1>5. ASSUME ~AddKnown PROVE Exact'
    <2>1. UniqueNames
      BY <1>5 DEF IInv, Exact
    <2>2. \A k \in Keys, g \in Groups : blist'[k][g] # Absent => blist[k][g] # Absent
      BY DEF DropData
    <2>3. UniqueNames'
      BY <2>1, <2>2 DEF UniqueNames
    <2>4. PendingOK' /\ BuddyResolves'
      BY DEF PendingOK, BuddyResolves
    <2> QED
      BY <2>3, <2>4 DEF Exact
  <1> QED
    BY <1>3, <1>4, <1>5 DEF IInv

\* A friend is made: whatever the buddy list was, it now also names k, and the
\* new entry carries the new number.
LEMMA AddFriendKeepsIInv ==
  ASSUME IInv, phase # "off", phase' = phase,
         NEW k \in Keys, NEW g \in Groups, NEW s \in Slots,
         AddFriend(k, s),
         blist[k][g] = Absent,
         ~AddKnown => k \notin Names(blist),
         blist' = [blist EXCEPT ![k][g] = s],
         dialogs' \in [Keys -> Nat],
         \A j \in Keys : dialogs'[j] > 0 => dialogs[j] > 0
  PROVE  IInv'
  <1>1. /\ TypeOK /\ NumberedOnce /\ AccountOK /\ EveryFriendListed
        /\ (~AddKnown => Exact) /\ friends \in FriendLists
    BY DEF IInv, TypeOK, FriendLists
  <1>2. /\ friends[s] = NoKey
        /\ friends' = [friends EXCEPT ![s] = k]
        /\ account' = "data"
        /\ saved' = Live(friends')
        /\ k \notin Live(friends)
    BY DEF AddFriend, FreeSlot, SaveAccount
  <1>3. /\ friends' \in FriendLists
        /\ Live(friends') = Live(friends) \cup {k}
    BY <1>1, <1>2, LiveAdds
  <1>4. /\ friends'[s] = k
        /\ \A t \in Slots \ {s} : friends'[t] = friends[t]
    BY <1>1, <1>2 DEF FriendLists
  <1>5. /\ blist'[k][g] = s
        /\ \A j \in Keys, h \in Groups :
             j # k \/ h # g => blist'[j][h] = blist[j][h]
    BY <1>1 DEF TypeOK
  <1>6. TypeOK'
    <2>1. blist' \in [Keys -> [Groups -> BuddyStates]]
      BY <1>1 DEF TypeOK, BuddyStates
    <2>2. saved' \in SUBSET Keys
      BY <1>2 DEF Live
    <2> QED
      BY <1>1, <1>2, <1>3, <2>1, <2>2 DEF TypeOK, FriendLists
  <1>7. NumberedOnce'
    BY <1>1, <1>2, <1>4 DEF NumberedOnce, Live
  <1>8. AccountOK' /\ OffClean' /\ SavedOK'
    BY <1>2 DEF AccountOK, OffClean, SavedOK, Live
  <1>9. EveryFriendListed'
    <2> SUFFICES ASSUME NEW j \in Live(friends')
                 PROVE  \E h \in Groups : /\ blist'[j][h] \in Slots
                                          /\ friends'[blist'[j][h]] = j
      BY DEF EveryFriendListed
    <2>1. CASE j = k
      BY <1>4, <1>5, <2>1
    <2>2. CASE j # k
      <3>1. j \in Live(friends) /\ j \in Keys
        BY <1>3, <2>2 DEF Live
      <3>2. PICK h \in Groups : blist[j][h] \in Slots /\ friends[blist[j][h]] = j
        BY <1>1, <3>1 DEF EveryFriendListed
      <3>3. blist'[j][h] = blist[j][h] /\ blist[j][h] # s
        BY <1>2, <1>5, <2>2, <3>1, <3>2, RosterAssumption
      <3> QED
        BY <1>4, <3>2, <3>3
    <2> QED
      BY <2>1, <2>2
  <1>10. ASSUME ~AddKnown PROVE Exact'
    <2>1. /\ UniqueNames /\ PendingOK /\ BuddyResolves
          /\ \A h \in Groups : blist[k][h] = Absent
      BY <1>1, <1>10 DEF Exact, Names
    <2>2. UniqueNames'
      BY <1>5, <2>1 DEF UniqueNames
    <2>3. PendingOK'
      <3> SUFFICES ASSUME NEW j \in Keys, dialogs'[j] > 0, j \in Names(blist'),
                          j # k
                   PROVE  j \in Live(friends)
        BY <1>3 DEF PendingOK
      <3>1. j \in Names(blist)
        BY <1>5 DEF Names
      <3> QED
        BY <2>1, <3>1, dialogs[j] > 0 DEF PendingOK
    <2>4. BuddyResolves'
      <3> SUFFICES ASSUME NEW j \in Keys, NEW h \in Groups
                   PROVE  /\ blist'[j][h] \in Slots => friends'[blist'[j][h]] = j
                          /\ blist'[j][h] \in {NoFriend, NoData}
                               => j \notin Live(friends')
        BY DEF BuddyResolves
      <3>1. CASE j = k
        BY <1>4, <1>5, <2>1, <3>1, Marks
      <3>2. CASE j # k
        <4>1. blist'[j][h] = blist[j][h]
          BY <1>5, <3>2
        <4>2. blist[j][h] \in Slots => friends[blist[j][h]] = j /\ blist[j][h] # s
          BY <1>2, <2>1, RosterAssumption DEF BuddyResolves
        <4>3. blist[j][h] \in {NoFriend, NoData} => j \notin Live(friends)
          BY <2>1 DEF BuddyResolves
        <4> QED
          BY <1>3, <1>4, <3>2, <4>1, <4>2, <4>3
      <3> QED
        BY <3>1, <3>2
    <2> QED
      BY <2>2, <2>3, <2>4 DEF Exact
  <1> QED
    BY <1>6, <1>7, <1>8, <1>9, <1>10 DEF IInv

\* A buddy is removed, and with it the friend its number stands for.
LEMMA RemoveBuddyKeepsIInv ==
  ASSUME IInv, NEW k \in Keys, NEW g \in Groups, RemoveBuddy(k, g)
  PROVE  IInv'
  <1> DEFINE n == blist[k][g]
  <1>1. /\ TypeOK /\ NumberedOnce /\ AccountOK /\ SavedOK /\ EveryFriendListed
        /\ (~AddKnown => Exact) /\ friends \in FriendLists
    BY DEF IInv, TypeOK, FriendLists
  <1>2. /\ phase # "off" /\ phase' = phase /\ dialogs' = dialogs
        /\ n \in BuddyStates \ {Absent}
        /\ blist' = [blist EXCEPT ![k][g] = Absent]
    BY <1>1 DEF RemoveBuddy, TypeOK
  <1>3. /\ blist'[k][g] = Absent
        /\ \A j \in Keys, h \in Groups :
             j # k \/ h # g => blist'[j][h] = blist[j][h]
        /\ blist' \in [Keys -> [Groups -> BuddyStates]]
    BY <1>1, <1>2 DEF TypeOK, BuddyStates
  <1>4. /\ friends' = DelFriend(friends, n)
        /\ \/ account' = "data" /\ saved' = Live(friends')
           \/ UNCHANGED <<account, saved, friends>>
    BY Marks DEF RemoveBuddy, SaveAccount, DelFriend
  <1>5. /\ friends' \in FriendLists
        /\ n \in Slots => Live(friends') = Live(friends) \ {friends[n]}
        /\ n \notin Slots => friends' = friends
    BY <1>1, <1>2, <1>4, LiveDeletes DEF NumberedOnce
  <1>6. \A t \in Slots : friends'[t] = IF t = n THEN NoKey ELSE friends[t]
    BY <1>1, <1>4 DEF DelFriend, FriendLists
  <1>7. Live(friends') \subseteq Live(friends)
    BY <1>5
  <1>8. TypeOK'
    BY <1>1, <1>2, <1>3, <1>4, <1>5 DEF TypeOK, FriendLists, Live
  <1>9. NumberedOnce'
    BY <1>1, <1>6, RosterAssumption DEF NumberedOnce
  <1>10. AccountOK' /\ OffClean' /\ SavedOK'
    BY <1>1, <1>2, <1>4, <1>7 DEF AccountOK, OffClean, SavedOK, Live
  <1>11. ASSUME NEW j \in Live(friends'), NEW h \in Groups,
                blist[j][h] \in Slots, friends[blist[j][h]] = j
         PROVE  /\ blist'[j][h] = blist[j][h]
                /\ friends'[blist'[j][h]] = j
    <2>1. j \in Keys /\ j \in Live(friends)
      BY <1>7 DEF Live
    <2>2. blist[j][h] # n
      BY <1>5, <1>11
    <2> QED
      BY <1>3, <1>6, <1>11, <2>1, <2>2
  <1>12. EveryFriendListed'
    BY <1>1, <1>2, <1>7, <1>11 DEF EveryFriendListed
  <1>13. ASSUME ~AddKnown PROVE Exact'
    <2>1. UniqueNames /\ PendingOK /\ BuddyResolves
      BY <1>1, <1>13 DEF Exact
    <2>2. n \in Slots => friends[n] = k
      BY <1>2, <2>1 DEF BuddyResolves
    <2>3. UniqueNames'
      BY <1>3, <2>1 DEF UniqueNames
    <2>4. \A h \in Groups : blist'[k][h] = Absent
      BY <1>2, <1>3, <2>1 DEF UniqueNames
    <2>5. \A j \in Keys : j # k => (j \in Live(friends') <=> j \in Live(friends))
      BY <1>5, <2>2
    <2>6. PendingOK'
      <3> SUFFICES ASSUME NEW j \in Keys, dialogs[j] > 0, j \in Names(blist')
                   PROVE  j \in Live(friends')
        BY <1>2 DEF PendingOK
      <3>1. j # k /\ j \in Names(blist)
        BY <1>3, <2>4 DEF Names
      <3> QED
        BY <2>1, <2>5, <3>1 DEF PendingOK
    <2>7. BuddyResolves'
      <3> SUFFICES ASSUME NEW j \in Keys, NEW h \in Groups
                   PROVE  /\ blist'[j][h] \in Slots => friends'[blist'[j][h]] = j
                          /\ blist'[j][h] \in {NoFriend, NoData}
                               => j \notin Live(friends')
        BY DEF BuddyResolves
      <3>1. CASE j = k
        BY <2>4, <3>1, Marks
      <3>2. CASE j # k
        <4>1. blist'[j][h] = blist[j][h]
          BY <1>3, <3>2
        <4>2. /\ blist[j][h] \in Slots => friends[blist[j][h]] = j
              /\ blist[j][h] \in {NoFriend, NoData} => j \notin Live(friends)
          BY <1>2, <2>1 DEF BuddyResolves
        <4>3. blist[j][h] \in Slots => blist[j][h] # n
          BY <2>2, <3>2, <4>2
        <4> QED
          BY <1>6, <2>5, <3>2, <4>1, <4>2, <4>3
      <3> QED
        BY <3>1, <3>2
    <2> QED
      BY <2>3, <2>6, <2>7 DEF Exact
  <1> QED
    BY <1>8, <1>9, <1>10, <1>12, <1>13 DEF IInv

\* The DHT is reached: buddies without data get their number, or -1.
LEMMA DHTConnectedKeepsIInv ==
  ASSUME IInv, DHTConnected
  PROVE  IInv'
  <1>1. /\ TypeOK /\ NumberedOnce /\ AccountOK /\ SavedOK /\ EveryFriendListed
        /\ (~AddKnown => Exact) /\ friends \in FriendLists
    BY DEF IInv, TypeOK, FriendLists
  <1>2. /\ phase # "off" /\ phase' = "connected"
        /\ UNCHANGED <<account, saved, friends, dialogs>>
    BY DEF DHTConnected
  <1>3. /\ \A k \in Keys, g \in Groups :
             blist'[k][g] = IF blist[k][g] = NoData THEN FriendNumber(friends, k)
                            ELSE blist[k][g]
        /\ blist' = [k \in Keys |-> [g \in Groups |-> blist'[k][g]]]
    BY DEF DHTConnected, GetBuddyInfo
  <1>4. \A k \in Keys : /\ FriendNumber(friends, k) \in Slots \cup {NoFriend}
                        /\ FriendNumber(friends, k) \in Slots
                             => friends[FriendNumber(friends, k)] = k
                        /\ FriendNumber(friends, k) = NoFriend
                             => k \notin Live(friends)
    BY <1>1, FriendNumberFinds, Marks
  <1>5. blist' \in [Keys -> [Groups -> BuddyStates]]
    <2>1. \A k \in Keys, g \in Groups : blist'[k][g] \in BuddyStates
      BY <1>1, <1>3, <1>4 DEF TypeOK, BuddyStates
    <2> QED
      BY <1>3, <2>1
  <1>6. TypeOK'
    BY <1>1, <1>2, <1>5 DEF TypeOK
  <1>7. NumberedOnce' /\ AccountOK' /\ OffClean' /\ SavedOK'
    BY <1>1, <1>2 DEF NumberedOnce, AccountOK, OffClean, SavedOK, Live
  <1>8. EveryFriendListed'
    BY <1>1, <1>2, <1>3, Marks DEF EveryFriendListed, Live
  <1>9. ASSUME ~AddKnown PROVE Exact'
    <2>1. UniqueNames /\ PendingOK /\ BuddyResolves
      BY <1>1, <1>9 DEF Exact
    <2>2. \A k \in Keys, g \in Groups : blist'[k][g] # Absent <=> blist[k][g] # Absent
      BY <1>3, <1>4, Marks
    <2>3. UniqueNames' /\ PendingOK'
      BY <1>2, <2>1, <2>2 DEF UniqueNames, PendingOK, Names, Live
    <2>4. BuddyResolves'
      BY <1>2, <1>3, <1>4, <2>1, Marks DEF BuddyResolves, Live
    <2> QED
      BY <2>3, <2>4 DEF Exact
  <1> QED
    BY <1>6, <1>7, <1>8, <1>9 DEF IInv

\* Steps that touch neither the friends nor the list: the DHT is lost, a
\* request dialog opens or closes.
LEMMA QuietStepKeepsIInv ==
  ASSUME IInv, UNCHANGED <<account, saved, friends, blist>>,
         phase # "off", phase' \in {phase, "lost"},
         dialogs' \in [Keys -> Nat],
         \A j \in Keys : dialogs'[j] > 0 => dialogs[j] > 0 \/ j \notin Names(blist)
  PROVE  IInv'
  <1>1. /\ TypeOK' /\ NumberedOnce' /\ AccountOK' /\ OffClean' /\ SavedOK'
        /\ EveryFriendListed'
    BY DEF IInv, TypeOK, NumberedOnce, AccountOK, OffClean, SavedOK,
           EveryFriendListed, Live
  <1>2. ASSUME ~AddKnown PROVE Exact'
    BY <1>2 DEF IInv, Exact, UniqueNames, PendingOK, BuddyResolves, Names, Live
  <1> QED
    BY <1>1, <1>2 DEF IInv

\* Every step of the system keeps the inductive invariant.
LEMMA NextKeepsIInv == IInv /\ [Next]_vars => IInv'
  <1> SUFFICES ASSUME IInv, [Next]_vars PROVE IInv'
    OBVIOUS
  <1>1. /\ TypeOK /\ AccountOK /\ OffClean
        /\ (~AddKnown => PendingOK)
    BY DEF IInv, Exact
  <1>2. CASE LoginExisting
    BY <1>1, <1>2, ConfigureKeepsIInv DEF LoginExisting, TypeOK, AccountOK
  <1>3. CASE CreateNewAccount
    BY <1>3, ConfigureKeepsIInv DEF CreateNewAccount
  <1>4. CASE ImportUser
    BY <1>4, ConfigureKeepsIInv DEF ImportUser
  <1>5. CASE ShutdownPRPL
    BY <1>5, EndSessionKeepsIInv DEF ShutdownPRPL, SaveAccount, Live
  <1>6. CASE Crash
    BY <1>1, <1>6, EndSessionKeepsIInv DEF Crash, TypeOK, AccountOK
  <1>7. CASE DHTConnected
    BY <1>7, DHTConnectedKeepsIInv
  <1>8. CASE DHTDisconnected
    BY <1>1, <1>8, QuietStepKeepsIInv DEF DHTDisconnected, TypeOK
  <1>9. ASSUME NEW k \in Keys, NEW g \in Groups, AddBuddy(k, g)
        PROVE  IInv'
    <2>1. PICK s \in Slots : AddFriend(k, s)
      BY <1>9 DEF AddBuddy
    <2>2. /\ friends' \in FriendLists /\ friends'[s] = k
          /\ \A t \in Slots : friends'[t] = k => t = s
      BY <1>1, <2>1 DEF AddFriend, FreeSlot, TypeOK, FriendLists, Live
    <2>3. FriendNumber(friends', k) = s
      BY <2>2 DEF FriendNumber, Live
    <2>4. /\ phase # "off" /\ phase' = phase /\ dialogs' = dialogs
          /\ blist[k][g] = Absent
          /\ ~AddKnown => k \notin Names(blist)
          /\ blist' = [blist EXCEPT ![k][g] = s]
      BY <1>9, <2>3 DEF AddBuddy, GetBuddyInfo
    <2> QED
      BY <1>1, <2>1, <2>4, AddFriendKeepsIInv DEF TypeOK
  <1>10. ASSUME NEW k \in Keys, NEW g \in Groups, RemoveBuddy(k, g)
         PROVE  IInv'
    BY <1>10, RemoveBuddyKeepsIInv
  <1>11. ASSUME NEW k \in Keys, OnFriendRequest(k)
         PROVE  IInv'
    <2>1. /\ dialogs' \in [Keys -> Nat]
          /\ \A j \in Keys : j # k => dialogs'[j] = dialogs[j]
      BY <1>1, <1>11 DEF OnFriendRequest, TypeOK
    <2> QED
      BY <1>11, <2>1, QuietStepKeepsIInv DEF OnFriendRequest
  <1>12. ASSUME NEW k \in Keys, dialogs[k] > 0,
                dialogs' = [dialogs EXCEPT ![k] = @ - 1]
         PROVE  /\ phase # "off"
                /\ dialogs' \in [Keys -> Nat]
                /\ \A j \in Keys : dialogs'[j] > 0 => dialogs[j] > 0
    BY <1>1, <1>12 DEF TypeOK, OffClean
  <1>13. ASSUME NEW k \in Keys, AcceptFriendRequest(k)
         PROVE  IInv'
    <2>1. /\ dialogs[k] > 0 /\ dialogs' = [dialogs EXCEPT ![k] = @ - 1]
          /\ phase' = phase
      BY <1>13 DEF AcceptFriendRequest
    <2>2. CASE UNCHANGED <<account, saved, friends, blist>>
      BY <1>12, <2>1, <2>2, QuietStepKeepsIInv
    <2>3. ASSUME NEW s \in Slots, AddFriend(k, s),
                 blist' = [blist EXCEPT ![k][DefaultGroup] = s]
          PROVE  IInv'
      <3>1. k \notin Live(friends) /\ blist[k][DefaultGroup] = Absent
        BY <1>13, <2>3 DEF AcceptFriendRequest, AddFriend
      <3>2. ~AddKnown => k \notin Names(blist)
        BY <1>1, <2>1, <3>1 DEF PendingOK
      <3> QED
        BY <1>12, <2>1, <2>3, <3>1, <3>2, AddFriendKeepsIInv, RosterAssumption
    <2> QED
      BY <1>13, <2>2, <2>3 DEF AcceptFriendRequest
  <1>14. ASSUME NEW k \in Keys, RejectFriendRequest(k)
         PROVE  IInv'
    BY <1>12, <1>14, QuietStepKeepsIInv DEF RejectFriendRequest
  <1>15. CASE UNCHANGED vars
    BY <1>15 DEF vars, IInv, TypeOK, NumberedOnce, AccountOK, OffClean, SavedOK,
                 EveryFriendListed, Exact, UniqueNames, PendingOK,
                 BuddyResolves, Names, Live
  <1> QED
    BY <1>2, <1>3, <1>4, <1>5, <1>6, <1>7, <1>8, <1>9, <1>10, <1>11, <1>13,
       <1>14, <1>15 DEF Next

\* IInv holds in every reachable state.
THEOREM Invariance == Spec => []IInv
  <1>1. Init => IInv
    BY InitIInv
  <1>2. IInv /\ [Next]_vars => IInv'
    BY NextKeepsIInv
  <1> QED
    BY <1>1, <1>2, PTL DEF Spec

-----------------------------------------------------------------------------
(* The safety invariants *)

\* The state has its type in every reachable state.
THEOREM TypeCorrect == Spec => []TypeOK
  <1>1. IInv => TypeOK
    BY DEF IInv
  <1> QED
    BY <1>1, Invariance, PTL

\* Every friend is on the buddy list under its own number, whatever the user
\* adds and however often the login runs.
THEOREM FriendsListed == Spec => []EveryFriendListed
  <1>1. IInv => EveryFriendListed
    BY DEF IInv
  <1> QED
    BY <1>1, Invariance, PTL

\* The stored account data is up to date whenever a session runs, so a crash
\* loses no friend and brings none back.
THEOREM NothingUnsaved == ASSUME ~Relogin PROVE Spec => []SavedIsLive
  <1>1. IInv => SavedIsLive
    BY DEF IInv, SavedOK, SavedIsLive
  <1> QED
    BY <1>1, Invariance, PTL

\* A buddy's cached number is the number of the friend of that name.
THEOREM NumbersResolve == ASSUME ~AddKnown PROVE Spec => []BuddyResolves
  <1>1. IInv => BuddyResolves
    BY DEF IInv, Exact
  <1> QED
    BY <1>1, Invariance, PTL
=============================================================================
