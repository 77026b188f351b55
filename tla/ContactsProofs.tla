--------------------------- MODULE ContactsProofs ---------------------------
(***************************************************************************)
(* Proofs about Contacts, for any set of keys of which any are followed.   *)
(* Every step of Contacts is a step of Roster or leaves it alone, so what  *)
(* RosterProofs shows holds here too; with the number a buddy caches known *)
(* to be the friend's own (BuddyResolves), messages reach the name they    *)
(* are addressed to and the status shown agrees with the connection.       *)
(***************************************************************************)
EXTENDS Contacts, RosterProofs

\* Only friends are connected, and only the connected have told their status.
ConnectedAreFriends == \A k \in Keys : conn[k] => k \in Live(friends)
ToldAreConnected == \A k \in told : conn[k]

PInv ==
  /\ PresenceTypeOK
  /\ ConnectedAreFriends
  /\ ToldAreConnected
  /\ ~AddKnown => MessagesReachName /\ ReportedIsShown /\ ConnectedIsSeen
  /\ ~AddKnown /\ ~Relogin => OnlineIsConnected

-----------------------------------------------------------------------------
(* Contacts runs the friend system of Roster *)

\* A step of Contacts is one of Roster or a stutter of it.
LEMMA ContactsStep == [ContactsNext]_contactVars => [Next]_vars
  <1> SUFFICES ASSUME [ContactsNext]_contactVars PROVE [Next]_vars
    OBVIOUS
  <1>1. CASE Login \/ GoOffline \/ FindDHT \/ LoseDHT
    BY <1>1 DEF Login, GoOffline, FindDHT, LoseDHT, Next
  <1>2. ASSUME NEW k \in Keys, MakeFriend(k) \/ RemoveContact(k) \/ Request(k)
        PROVE  Next
    BY <1>2 DEF MakeFriend, RemoveContact, Request, Next
  <1>3. ASSUME NEW k \in Watched, OnConnected(k) \/ OnDisconnected(k)
        PROVE  UNCHANGED vars
    BY <1>3 DEF OnConnected, OnDisconnected
  <1>4. ASSUME NEW k \in Watched, NEW u \in UserStatuses, OnFriendChangeStatus(k, u)
        PROVE  UNCHANGED vars
    BY <1>4 DEF OnFriendChangeStatus
  <1>5. ASSUME NEW k \in Keys, SendUserMessage(k)
        PROVE  UNCHANGED vars
    BY <1>5 DEF SendUserMessage
  <1>6. ASSUME NEW n \in Slots, OnMessageReceived(n)
        PROVE  UNCHANGED vars
    BY <1>6 DEF OnMessageReceived
  <1>7. CASE UNCHANGED contactVars
    BY <1>7 DEF contactVars
  <1> QED
    BY <1>1, <1>2, <1>3, <1>4, <1>5, <1>6, <1>7 DEF ContactsNext

\* Whatever is true of the friend system alone is true of it here.
THEOREM ContactsIsRoster == ContactsSpec => Spec
  <1>1. ContactsInit => Init
    BY DEF ContactsInit
  <1> QED
    BY <1>1, ContactsStep, PTL DEF ContactsSpec, Spec

-----------------------------------------------------------------------------
(* The status of a buddy *)

\* Away and busy stay what they are, connected or not; of someone who is connected
\* nobody is told that he is off line, of someone who is not that he is on line.
LEMMA StatusTypes ==
  ASSUME NEW u \in UserStatuses \cup {"invalid"}, NEW c \in BOOLEAN
  PROVE  /\ StatusType(u, c) \in BuddyStatuses
         /\ StatusType(u, TRUE) # "offline"
         /\ StatusType(u, c) = "online" => c
  BY DEF StatusType, UserStatuses, BuddyStatuses

\* Where cached numbers are right, asking for a buddy's status by its number is
\* asking for the status of the friend of that name, or of nobody.
LEMMA QueryFindsFriend ==
  ASSUME PresenceTypeOK, ConnectedAreFriends, friends \in FriendLists,
         NEW bl \in BuddyLists, NEW k \in Names(bl),
         ~AddKnown =>
           \A g \in Groups : /\ bl[k][g] \in Slots => friends[bl[k][g]] = k
                             /\ bl[k][g] \in {NoFriend, NoData} => k \notin Live(friends)
  PROVE  /\ QueryAllBuddies(bl)[k] \in BuddyStatuses
         /\ ~AddKnown => \/ QueryAllBuddies(bl)[k] = StatusType(ustat[k], conn[k])
                         \/ QueryAllBuddies(bl)[k] = "offline" /\ ~conn[k]
  <1> DEFINE g == CHOOSE h \in Groups : bl[k][h] # Absent
             n == bl[k][g]
  <1>1. k \in Keys /\ g \in Groups /\ n # Absent /\ n \in BuddyStates
    BY DEF Names, BuddyLists
  <1>2. QueryAllBuddies(bl)[k] = StatusOfNumber(friends, n, ustat, conn)
    BY <1>1 DEF QueryAllBuddies
  <1>3. CASE n \in Slots /\ friends[n] \in Keys
    <2>1. QueryAllBuddies(bl)[k] = StatusType(ustat[friends[n]], conn[friends[n]])
      BY <1>2, <1>3 DEF StatusOfNumber
    <2>2. ustat[friends[n]] \in UserStatuses /\ conn[friends[n]] \in BOOLEAN
      BY <1>3 DEF PresenceTypeOK
    <2>3. ~AddKnown => friends[n] = k
      BY <1>1, <1>3
    <2> QED
      BY <2>1, <2>2, <2>3, StatusTypes
  <1>4. CASE ~(n \in Slots /\ friends[n] \in Keys)
    <2>1. QueryAllBuddies(bl)[k] = "offline"
      BY <1>2, <1>4 DEF StatusOfNumber, StatusType
    <2>2. ~AddKnown => n \notin Slots
      BY <1>1, <1>4
    <2>3. ~AddKnown => ~conn[k]
      BY <1>1, <2>2 DEF BuddyStates, ConnectedAreFriends
    <2> QED
      BY <2>1, <2>3 DEF BuddyStatuses
  <1> QED
    BY <1>3, <1>4

-----------------------------------------------------------------------------
(* The invariant *)

\* Before the first login nobody is listed, connected or shown.
LEMMA InitPInv == ContactsInit => PInv
  BY DEF ContactsInit, Init, PInv, PresenceTypeOK, ConnectedAreFriends, ToldAreConnected,
         MessagesReachName, ReportedIsShown, ConnectedIsSeen, OnlineIsConnected,
         Apart, UserStatuses, BuddyStatuses, Nothing

\* A login: nobody is connected to the new instance.
LEMMA LoginKeepsPInv ==
  ASSUME PInv, TypeOK, Login
  PROVE  PInv'
  <1>1. passed' = Nothing
    BY DEF Login
  <1>2. CASE phase' = phase /\ friends' = friends /\ blist' = blist /\ UNCHANGED presence
    BY <1>1, <1>2 DEF presence, PInv, PresenceTypeOK, ConnectedAreFriends,
       ToldAreConnected, MessagesReachName, ReportedIsShown, ConnectedIsSeen,
       OnlineIsConnected, Live, Names
  <1>3. CASE /\ phase' # "off"
             /\ conn' = Apart
             /\ told' = {}
             /\ ustat' \in {u \in AnyStatus : \A k \in Keys \ Live(friends') : u[k] = "none"}
             /\ shown' = [k \in Keys |->
                  IF k \notin Names(blist') THEN "offline"
                  ELSE IF k \in Names(blist) THEN shown[k]
                  ELSE StatusType(ustat'[k], FALSE)]
    <2>1. ustat' \in [Keys -> UserStatuses]
      BY <1>3 DEF AnyStatus
    <2>2. PresenceTypeOK'
      <3>1. \A k \in Keys : shown'[k] \in BuddyStatuses
        <4> SUFFICES ASSUME NEW k \in Keys PROVE shown'[k] \in BuddyStatuses
          OBVIOUS
        <4>1. StatusType(ustat'[k], FALSE) \in BuddyStatuses
          BY <2>1, StatusTypes
        <4>2. shown[k] \in BuddyStatuses
          BY DEF PInv, PresenceTypeOK
        <4> QED
          BY <1>3, <4>1, <4>2 DEF BuddyStatuses
      <3> QED
        BY <1>1, <1>3, <2>1, <3>1 DEF PresenceTypeOK, Apart
    <2>3. ~Relogin => phase' \notin {"connected", "lost"}
      BY DEF Login, LoginExisting, CreateNewAccount, ImportUser, MayLogin,
             ConfigureToxAndConnect
    <2> QED
      BY <1>1, <1>3, <2>2, <2>3 DEF PInv, ConnectedAreFriends, ToldAreConnected, Apart,
         MessagesReachName, ReportedIsShown, ConnectedIsSeen, OnlineIsConnected, Names
  <1> QED
    BY <1>2, <1>3 DEF Login

\* The session ends, in order or by a crash: what the invariant says of a session
\* is void, and no connection is left.
LEMMA GoOfflineKeepsPInv ==
  ASSUME PInv, GoOffline
  PROVE  PInv'
  <1>1. phase' = "off"
    BY DEF GoOffline, ShutdownPRPL, Crash, EndSession
  <1>2. PresenceTypeOK'
    BY DEF GoOffline, PInv, PresenceTypeOK, Apart, UserStatuses, BuddyStatuses
  <1> QED
    BY <1>1, <1>2 DEF GoOffline, PInv, ConnectedAreFriends, ToldAreConnected, Apart,
       MessagesReachName, ReportedIsShown, ConnectedIsSeen, OnlineIsConnected

\* The DHT is found: every buddy gets the status of its own friend.
LEMMA FindDHTKeepsPInv ==
  ASSUME PInv, IInv, IInv', FindDHT
  PROVE  PInv'
  <1>1. /\ friends' = friends /\ conn' = conn /\ ustat' = ustat /\ told' = told
        /\ passed' = Nothing /\ shown' = QueryAllBuddies(blist')
    BY DEF FindDHT, DHTConnected
  <1>2. /\ friends \in FriendLists /\ blist' \in BuddyLists
        /\ ~AddKnown => BuddyResolves'
    BY DEF IInv, TypeOK, FriendLists, BuddyLists, Exact
  <1>3. PresenceTypeOK /\ ConnectedAreFriends /\ ToldAreConnected
    BY DEF PInv
  <1>4. phase' # "off"
    BY DEF FindDHT, DHTConnected
  <1>5. ASSUME NEW k \in Names(blist')
        PROVE  /\ shown'[k] \in BuddyStatuses
               /\ ~AddKnown => \/ shown'[k] = StatusType(ustat[k], conn[k])
                               \/ shown'[k] = "offline" /\ ~conn[k]
    <2>1. ~AddKnown =>
            \A g \in Groups :
              /\ blist'[k][g] \in Slots => friends[blist'[k][g]] = k
              /\ blist'[k][g] \in {NoFriend, NoData} => k \notin Live(friends)
      BY <1>1, <1>2, <1>4 DEF BuddyResolves, Names, Live
    <2> HIDE DEF Names
    <2> QED
      BY <1>1, <1>2, <1>3, <2>1, QueryFindsFriend
  <1>6. PresenceTypeOK'
    <2>1. \A k \in Keys : shown'[k] \in BuddyStatuses
      BY <1>1, <1>3, <1>5 DEF QueryAllBuddies, PresenceTypeOK
    <2>2. shown' = [k \in Keys |-> shown'[k]]
      BY <1>1 DEF QueryAllBuddies
    <2> QED
      BY <1>1, <1>3, <2>1, <2>2 DEF PresenceTypeOK
  <1>7. ConnectedAreFriends' /\ ToldAreConnected' /\ MessagesReachName'
    BY <1>1, <1>3 DEF ConnectedAreFriends, ToldAreConnected, MessagesReachName, Live
  <1>8. ASSUME ~AddKnown PROVE ReportedIsShown' /\ ConnectedIsSeen' /\ OnlineIsConnected'
    <2> SUFFICES ASSUME NEW k \in Names(blist')
                 PROVE  /\ conn[k] => shown'[k] = StatusType(ustat[k], TRUE)
                        /\ conn[k] => shown'[k] # "offline"
                        /\ shown'[k] = "online" => conn[k]
      BY <1>1, <1>3 DEF ReportedIsShown, ConnectedIsSeen, OnlineIsConnected, ToldAreConnected
    <2>1. ustat[k] \in UserStatuses /\ conn[k] \in BOOLEAN
      BY <1>3 DEF PresenceTypeOK, Names
    <2> QED
      BY <1>5, <1>8, <2>1, StatusTypes
  <1> QED
    BY <1>6, <1>7, <1>8 DEF PInv

\* Steps that leave friends, list and presence alone: the DHT is lost, a request
\* comes or is rejected, a message passes.
LEMMA QuietStepKeepsPInv ==
  ASSUME PInv, UNCHANGED <<friends, blist, presence>>,
         phase' # phase => phase = "connected",
         passed' \in Message \cup {Nothing},
         ~AddKnown => MessagesReachName'
  PROVE  PInv'
  BY DEF presence, PInv, PresenceTypeOK, ConnectedAreFriends, ToldAreConnected,
         ReportedIsShown, ConnectedIsSeen, OnlineIsConnected, Live, Names

\* A friend is made: he is not connected.
LEMMA MakeFriendKeepsPInv ==
  ASSUME PInv, TypeOK, NEW k \in Keys, MakeFriend(k)
  PROVE  PInv'
  <1>1. /\ conn' = conn /\ ustat' = ustat /\ told' = told /\ passed' = Nothing
        /\ phase' = phase
        /\ shown' = IF k \in Live(friends') \ Live(friends)
                    THEN [shown EXCEPT ![k] = StatusType(ustat[k], conn[k])] ELSE shown
    BY DEF MakeFriend, AddBuddy, AcceptFriendRequest
  <1>2. PresenceTypeOK /\ ConnectedAreFriends /\ ToldAreConnected
    BY DEF PInv
  <1>3. StatusType(ustat[k], conn[k]) \in BuddyStatuses
    BY <1>2, StatusTypes DEF PresenceTypeOK
  <1>4. PresenceTypeOK'
    BY <1>1, <1>2, <1>3 DEF PresenceTypeOK
  <1>5. \/ UNCHANGED <<friends, blist>>
        \/ /\ Live(friends') = Live(friends) \cup {k}
           /\ k \notin Live(friends)
           /\ Names(blist') = Names(blist) \cup {k}
    <2>1. ASSUME NEW s \in Slots, AddFriend(k, s)
          PROVE  Live(friends') = Live(friends) \cup {k} /\ k \notin Live(friends)
      BY <2>1, LiveAdds DEF AddFriend, FreeSlot, TypeOK, FriendLists
    <2>2. ASSUME NEW g \in Groups, NEW d \in BuddyStates \ {Absent},
                 blist' = [blist EXCEPT ![k][g] = d]
          PROVE  Names(blist') = Names(blist) \cup {k}
      BY <2>2 DEF TypeOK, Names
    <2>3. ASSUME NEW g \in Groups, AddBuddy(k, g)
          PROVE  /\ Live(friends') = Live(friends) \cup {k}
                 /\ k \notin Live(friends)
                 /\ Names(blist') = Names(blist) \cup {k}
      <3>1. PICK s \in Slots : AddFriend(k, s)
        BY <2>3 DEF AddBuddy
      <3>2. friends' \in FriendLists
        BY <3>1, LiveAdds DEF AddFriend, FreeSlot, TypeOK, FriendLists
      <3>3. FriendNumber(friends', k) \in BuddyStates \ {Absent}
        BY <3>2, FriendNumberFinds, Marks DEF BuddyStates
      <3>4. blist' = [blist EXCEPT ![k][g] = FriendNumber(friends', k)]
        BY <2>3 DEF AddBuddy, GetBuddyInfo
      <3> QED
        BY <2>1, <2>2, <3>1, <3>3, <3>4
    <2>4. ASSUME AcceptFriendRequest(k), ~UNCHANGED <<friends, blist>>
          PROVE  /\ Live(friends') = Live(friends) \cup {k}
                 /\ k \notin Live(friends)
                 /\ Names(blist') = Names(blist) \cup {k}
      <3>1. PICK s \in Slots : AddFriend(k, s)
                               /\ blist' = [blist EXCEPT ![k][DefaultGroup] = s]
        BY <2>4 DEF AcceptFriendRequest
      <3>2. s \in BuddyStates \ {Absent}
        BY Marks DEF BuddyStates
      <3> QED
        BY <2>1, <2>2, <3>1, <3>2, RosterAssumption
    <2> QED
      BY <2>3, <2>4 DEF MakeFriend
  <1>6. CASE UNCHANGED <<friends, blist>>
    <2>1. UNCHANGED presence
      BY <1>1, <1>6 DEF presence, Live
    <2>2. MessagesReachName'
      BY <1>1 DEF MessagesReachName
    <2> QED
      BY <1>1, <1>6, <2>1, <2>2, QuietStepKeepsPInv
  <1>7. CASE /\ Live(friends') = Live(friends) \cup {k}
             /\ k \notin Live(friends)
             /\ Names(blist') = Names(blist) \cup {k}
    <2>1. ~conn[k] /\ k \notin told
      BY <1>2, <1>7 DEF ConnectedAreFriends, ToldAreConnected
    <2>2. shown'[k] # "online"
      BY <1>1, <1>2, <1>7, <2>1, StatusTypes DEF PresenceTypeOK
    <2>3. \A j \in Keys : j # k => shown'[j] = shown[j]
      BY <1>1, <1>2 DEF PresenceTypeOK
    <2>4. ConnectedAreFriends' /\ ToldAreConnected' /\ MessagesReachName'
      BY <1>1, <1>2, <1>7 DEF ConnectedAreFriends, ToldAreConnected, MessagesReachName
    <2>5. Names(blist') \subseteq Keys
      BY DEF Names
    <2>6. ~AddKnown => ReportedIsShown' /\ ConnectedIsSeen'
      BY <1>1, <1>7, <2>1, <2>3, <2>5 DEF PInv, ReportedIsShown, ConnectedIsSeen
    <2>7. ~AddKnown /\ ~Relogin => OnlineIsConnected'
      BY <1>1, <1>7, <2>1, <2>2, <2>3, <2>5 DEF PInv, OnlineIsConnected
    <2> QED
      BY <1>4, <2>4, <2>6, <2>7 DEF PInv
  <1> QED
    BY <1>5, <1>6, <1>7

\* A buddy is removed: where numbers are right, whoever is still listed keeps his
\* connection, because the friend deleted is the one of that name.
LEMMA RemoveContactKeepsPInv ==
  ASSUME PInv, IInv, IInv', NEW k \in Keys, RemoveContact(k)
  PROVE  PInv'
  <1>1. /\ conn' = [f \in Keys |-> conn[f] /\ f \in Live(friends')]
        /\ ustat' = [f \in Keys |-> IF f \in Live(friends') THEN ustat[f] ELSE "none"]
        /\ told' = told \cap Live(friends')
        /\ shown' = [f \in Keys |-> IF f \in Names(blist') THEN shown[f] ELSE "offline"]
        /\ passed' = Nothing
    BY DEF RemoveContact
  <1>2. PICK g \in Groups : RemoveBuddy(k, g)
    BY DEF RemoveContact
  <1>3. PresenceTypeOK /\ ConnectedAreFriends /\ ToldAreConnected
    BY DEF PInv
  <1>4. PresenceTypeOK'
    BY <1>1, <1>3 DEF PresenceTypeOK, UserStatuses, BuddyStatuses
  <1>5. ConnectedAreFriends' /\ ToldAreConnected' /\ MessagesReachName'
    BY <1>1, <1>3 DEF ConnectedAreFriends, ToldAreConnected, MessagesReachName, PresenceTypeOK
  <1>6. /\ phase' = phase /\ phase # "off"
        /\ Names(blist') \subseteq Names(blist) /\ Names(blist') \subseteq Keys
    BY <1>2 DEF RemoveBuddy, Names, IInv, TypeOK
  <1>7. ASSUME ~AddKnown, NEW f \in Names(blist'), f \in Live(friends)
        PROVE  f \in Live(friends')
    <2> DEFINE n == blist[k][g]
    <2>1. TypeOK /\ NumberedOnce /\ UniqueNames /\ BuddyResolves
      BY <1>7 DEF IInv, Exact
    <2>2. n \in BuddyStates /\ friends \in FriendLists /\ n # Absent
      BY <1>2, <2>1 DEF TypeOK, FriendLists, RemoveBuddy
    <2>3. blist' = [blist EXCEPT ![k][g] = Absent]
      BY <1>2 DEF RemoveBuddy
    <2>4. f # k
      BY <1>2, <2>1, <2>3 DEF Names, UniqueNames, TypeOK, RemoveBuddy
    <2>5. CASE n = NoData
      BY <1>2, <1>7, <2>5 DEF RemoveBuddy
    <2>6. CASE n # NoData
      <3>1. friends' = DelFriend(friends, n)
        BY <1>2, <2>6 DEF RemoveBuddy
      <3>2. n \in Slots => friends[n] = k
        BY <1>6, <2>1 DEF BuddyResolves
      <3>3. /\ n \in Slots => Live(DelFriend(friends, n)) = Live(friends) \ {friends[n]}
            /\ n \notin Slots => DelFriend(friends, n) = friends
        BY <2>1, <2>2, LiveDeletes DEF NumberedOnce
      <3> QED
        BY <1>7, <2>4, <3>1, <3>2, <3>3
    <2> QED
      BY <2>5, <2>6
  <1>8. ~AddKnown => ReportedIsShown' /\ ConnectedIsSeen'
    BY <1>1, <1>3, <1>6, <1>7 DEF PInv, ReportedIsShown, ConnectedIsSeen, ToldAreConnected,
       ConnectedAreFriends
  <1>9. ~AddKnown /\ ~Relogin => OnlineIsConnected'
    BY <1>1, <1>3, <1>6, <1>7 DEF PInv, OnlineIsConnected, ConnectedAreFriends
  <1> QED
    BY <1>4, <1>5, <1>8, <1>9 DEF PInv

\* A status event changes the status of one friend, and the friend system not at all.
LEMMA StatusEventKeepsPInv ==
  ASSUME PInv, NEW k \in Keys, k \in Live(friends), NEW c \in BOOLEAN,
         NEW u \in UserStatuses, NEW status \in BuddyStatuses,
         UNCHANGED vars,
         conn' = [conn EXCEPT ![k] = c],
         ustat' = [ustat EXCEPT ![k] = u],
         told' \ {k} = told \ {k}, k \in told' => c /\ status = StatusType(u, TRUE),
         GotUserStatus(k, status),
         passed' = Nothing,
         status = "offline" => ~c,
         status = "online" => c
  PROVE  PInv'
  <1>1. UNCHANGED <<phase, friends, blist>>
    BY DEF vars
  <1>2. PresenceTypeOK /\ ConnectedAreFriends /\ ToldAreConnected
    BY DEF PInv
  <1>3. Names(blist) \subseteq Keys
    BY DEF Names
  <1>4. /\ \A j \in Keys : j # k =>
             /\ conn'[j] = conn[j] /\ ustat'[j] = ustat[j] /\ shown'[j] = shown[j]
             /\ j \in told' <=> j \in told
        /\ conn'[k] = c /\ ustat'[k] = u
        /\ k \in Names(blist) => shown'[k] = status
    BY <1>2 DEF PresenceTypeOK, GotUserStatus
  <1>5. PresenceTypeOK'
    BY <1>2 DEF PresenceTypeOK, GotUserStatus
  <1>6. ConnectedAreFriends' /\ ToldAreConnected' /\ MessagesReachName'
    BY <1>1, <1>2, <1>4, <1>5 DEF ConnectedAreFriends, ToldAreConnected, MessagesReachName,
       PresenceTypeOK, Live
  <1>7. Names(blist') = Names(blist)
    BY <1>1 DEF Names
  <1>8. ASSUME ~AddKnown PROVE ReportedIsShown' /\ ConnectedIsSeen'
    <2> SUFFICES ASSUME phase # "off", NEW j \in Names(blist)
                 PROVE  /\ j \in told' => shown'[j] = StatusType(ustat'[j], TRUE)
                        /\ conn'[j] => shown'[j] # "offline"
      BY <1>1, <1>7 DEF ReportedIsShown, ConnectedIsSeen
    <2>1. CASE j = k
      BY <1>4, <2>1
    <2>2. CASE j # k
      <3>1. /\ j \in told => shown[j] = StatusType(ustat[j], TRUE)
            /\ conn[j] => shown[j] # "offline"
        BY <1>8 DEF PInv, ReportedIsShown, ConnectedIsSeen
      <3>2. j \in Keys
        BY <1>3
      <3>3. /\ conn'[j] = conn[j] /\ ustat'[j] = ustat[j] /\ shown'[j] = shown[j]
            /\ j \in told' <=> j \in told
        BY <1>4, <2>2, <3>2
      <3> QED
        BY <3>1, <3>3
    <2> QED
      BY <2>1, <2>2
  <1>9. ASSUME ~AddKnown, ~Relogin PROVE OnlineIsConnected'
    <2> SUFFICES ASSUME phase \in {"connected", "lost"}, NEW j \in Names(blist),
                        shown'[j] = "online"
                 PROVE  conn'[j]
      BY <1>1, <1>7 DEF OnlineIsConnected
    <2>1. CASE j = k
      BY <1>4, <2>1
    <2>2. CASE j # k
      <3>1. shown[j] = "online" => conn[j]
        BY <1>9 DEF PInv, OnlineIsConnected
      <3>2. j \in Keys
        BY <1>3
      <3>3. /\ conn'[j] = conn[j] /\ ustat'[j] = ustat[j] /\ shown'[j] = shown[j]
            /\ j \in told' <=> j \in told
        BY <1>4, <2>2, <3>2
      <3> QED
        BY <3>1, <3>3
    <2> QED
      BY <2>1, <2>2
  <1> QED
    BY <1>5, <1>6, <1>8, <1>9 DEF PInv

\* A friend comes on line: he is shown so, and has told nothing yet.
LEMMA OnConnectedKeepsPInv ==
  ASSUME PInv, NEW k \in Keys, OnConnected(k)
  PROVE  PInv'
  <1>1. PresenceTypeOK /\ ToldAreConnected
    BY DEF PInv
  <1>2. k \notin told /\ ustat[k] \in UserStatuses
    BY <1>1 DEF OnConnected, ToldAreConnected, PresenceTypeOK
  <1>3. ustat' = [ustat EXCEPT ![k] = ustat[k]]
    BY <1>1 DEF OnConnected, PresenceTypeOK
  <1>4. "online" \in BuddyStatuses
    BY DEF BuddyStatuses
  <1> QED
    BY <1>2, <1>3, <1>4, StatusEventKeepsPInv DEF OnConnected

\* A friend goes off line: what he told no longer counts.
LEMMA OnDisconnectedKeepsPInv ==
  ASSUME PInv, NEW k \in Keys, OnDisconnected(k)
  PROVE  PInv'
  <1>1. PresenceTypeOK /\ ConnectedAreFriends
    BY DEF PInv
  <1>2. k \in Live(friends) /\ ustat[k] \in UserStatuses
    BY <1>1 DEF OnDisconnected, ConnectedAreFriends, PresenceTypeOK
  <1>3. ustat' = [ustat EXCEPT ![k] = ustat[k]]
    BY <1>1 DEF OnDisconnected, PresenceTypeOK
  <1>4. "offline" \in BuddyStatuses
    BY DEF BuddyStatuses
  <1>5. told' \ {k} = told \ {k} /\ k \notin told'
    BY DEF OnDisconnected
  <1> QED
    BY <1>2, <1>3, <1>4, <1>5, StatusEventKeepsPInv DEF OnDisconnected

\* A friend reports a status: he is connected, and shown with it.
LEMMA OnFriendChangeStatusKeepsPInv ==
  ASSUME PInv, NEW k \in Keys, NEW u \in UserStatuses, OnFriendChangeStatus(k, u)
  PROVE  PInv'
  <1>1. PresenceTypeOK /\ ConnectedAreFriends
    BY DEF PInv
  <1>2. k \in Live(friends) /\ conn[k] = TRUE
    BY <1>1 DEF OnFriendChangeStatus, ConnectedAreFriends, PresenceTypeOK
  <1>3. conn' = [conn EXCEPT ![k] = TRUE]
    BY <1>1, <1>2 DEF OnFriendChangeStatus, PresenceTypeOK
  <1>4. /\ StatusType(u, TRUE) \in BuddyStatuses
        /\ StatusType(u, TRUE) # "offline"
    BY StatusTypes
  <1>5. told' \ {k} = told \ {k}
    BY DEF OnFriendChangeStatus
  <1>6. GotUserStatus(k, StatusType(u, TRUE))
    BY <1>2 DEF OnFriendChangeStatus
  <1> QED
    BY <1>2, <1>3, <1>4, <1>5, <1>6, StatusEventKeepsPInv DEF OnFriendChangeStatus

\* A message goes by the number the buddy caches, which is the friend's own.
LEMMA SendUserMessageKeepsPInv ==
  ASSUME PInv, IInv, NEW k \in Keys, SendUserMessage(k)
  PROVE  PInv'
  <1>1. PICK g \in Groups : /\ blist[k][g] \in Slots
                            /\ friends[blist[k][g]] \in Keys
                            /\ passed' = Passed("out", k, friends[blist[k][g]])
    BY DEF SendUserMessage
  <1>2. phase # "off" /\ UNCHANGED <<friends, blist, presence, phase>>
    BY DEF SendUserMessage, vars
  <1>3. passed' \in Message
    BY <1>1 DEF Passed, Message
  <1>4. ~AddKnown => MessagesReachName'
    BY <1>1, <1>2 DEF IInv, Exact, BuddyResolves, MessagesReachName, Passed
  <1> QED
    BY <1>2, <1>3, <1>4, QuietStepKeepsPInv

\* A message comes in under the key of the friend.
LEMMA OnMessageReceivedKeepsPInv ==
  ASSUME PInv, NEW n \in Slots, OnMessageReceived(n)
  PROVE  PInv'
  <1>1. UNCHANGED <<friends, blist, presence, phase>>
    BY DEF OnMessageReceived, vars
  <1>2. passed' \in Message /\ MessagesReachName'
    BY ContactsAssumption DEF OnMessageReceived, Passed, Message, MessagesReachName
  <1> QED
    BY <1>1, <1>2, QuietStepKeepsPInv

\* Every step keeps the invariant of presence and messages, given that of the
\* friend system before and after it.
LEMMA ContactsNextKeepsPInv ==
  IInv /\ IInv' /\ PInv /\ [ContactsNext]_contactVars => PInv'
  <1> SUFFICES ASSUME IInv, IInv', PInv, [ContactsNext]_contactVars
               PROVE  PInv'
    OBVIOUS
  <1>1. TypeOK
    BY DEF IInv
  <1>2. CASE Login
    BY <1>1, <1>2, LoginKeepsPInv
  <1>3. CASE GoOffline
    BY <1>3, GoOfflineKeepsPInv
  <1>4. CASE FindDHT
    BY <1>4, FindDHTKeepsPInv
  <1>5. ASSUME passed' = Nothing
        PROVE  passed' \in Message \cup {Nothing} /\ MessagesReachName'
    BY <1>5 DEF MessagesReachName
  <1>6. CASE LoseDHT
    BY <1>5, <1>6, QuietStepKeepsPInv DEF LoseDHT, DHTDisconnected
  <1>7. ASSUME NEW k \in Keys, MakeFriend(k) PROVE PInv'
    BY <1>1, <1>7, MakeFriendKeepsPInv
  <1>8. ASSUME NEW k \in Keys, RemoveContact(k) PROVE PInv'
    BY <1>8, RemoveContactKeepsPInv
  <1>9. ASSUME NEW k \in Keys, Request(k) PROVE PInv'
    BY <1>5, <1>9, QuietStepKeepsPInv DEF Request, OnFriendRequest, RejectFriendRequest
  <1>10. ASSUME NEW k \in Watched, OnConnected(k) PROVE PInv'
    BY <1>10, ContactsAssumption, OnConnectedKeepsPInv
  <1>11. ASSUME NEW k \in Watched, OnDisconnected(k) PROVE PInv'
    BY <1>11, ContactsAssumption, OnDisconnectedKeepsPInv
  <1>12. ASSUME NEW k \in Watched, NEW u \in UserStatuses, OnFriendChangeStatus(k, u)
         PROVE  PInv'
    BY <1>12, ContactsAssumption, OnFriendChangeStatusKeepsPInv
  <1>13. ASSUME NEW k \in Keys, SendUserMessage(k) PROVE PInv'
    BY <1>13, SendUserMessageKeepsPInv
  <1>14. ASSUME NEW n \in Slots, OnMessageReceived(n) PROVE PInv'
    BY <1>14, OnMessageReceivedKeepsPInv
  <1>15. CASE UNCHANGED contactVars
    <2>1. UNCHANGED <<phase, friends, blist, presence, passed>>
      BY <1>15 DEF contactVars, vars
    <2>2. MessagesReachName <=> MessagesReachName'
      BY <2>1 DEF MessagesReachName
    <2>3. passed' \in Message \cup {Nothing} /\ (~AddKnown => MessagesReachName')
      BY <2>1, <2>2 DEF PInv, PresenceTypeOK
    <2> QED
      BY <2>1, <2>3, QuietStepKeepsPInv
  <1> QED
    BY <1>2, <1>3, <1>4, <1>6, <1>7, <1>8, <1>9, <1>10, <1>11, <1>12, <1>13, <1>14,
       <1>15 DEF ContactsNext

\* The friend system's invariant and that of presence and messages hold together in
\* every reachable state.
THEOREM ContactsInvariance == ContactsSpec => [](IInv /\ PInv)
  <1>1. ContactsInit => IInv /\ PInv
    BY InitIInv, InitPInv DEF ContactsInit
  <1>2. IInv /\ PInv /\ [ContactsNext]_contactVars => (IInv /\ PInv)'
    BY ContactsStep, NextKeepsIInv, ContactsNextKeepsPInv
  <1> QED
    BY <1>1, <1>2, PTL DEF ContactsSpec

-----------------------------------------------------------------------------
(* The safety invariants *)

\* Presence has its type.
THEOREM PresenceTyped == ContactsSpec => []PresenceTypeOK
  <1>1. PInv => PresenceTypeOK
    BY DEF PInv
  <1> QED
    BY <1>1, ContactsInvariance, PTL

\* A message reaches the friend of the name it was typed to, and comes in under
\* the name of the friend it is from.
THEOREM MessagesAreNotMisdelivered ==
  ASSUME ~AddKnown PROVE ContactsSpec => []MessagesReachName
  <1>1. PInv => MessagesReachName
    BY DEF PInv
  <1> QED
    BY <1>1, ContactsInvariance, PTL

\* The status a connected friend has reported is the one shown.
THEOREM ReportsAreShown ==
  ASSUME ~AddKnown PROVE ContactsSpec => []ReportedIsShown
  <1>1. PInv => ReportedIsShown
    BY DEF PInv
  <1> QED
    BY <1>1, ContactsInvariance, PTL

\* A connected friend is not shown as off line.
THEOREM TheConnectedAreSeen ==
  ASSUME ~AddKnown PROVE ContactsSpec => []ConnectedIsSeen
  <1>1. PInv => ConnectedIsSeen
    BY DEF PInv
  <1> QED
    BY <1>1, ContactsInvariance, PTL

\* Once the DHT has been found, whoever is shown on line is connected.
THEOREM ShownOnlineAreConnected ==
  ASSUME ~AddKnown, ~Relogin PROVE ContactsSpec => []OnlineIsConnected
  <1>1. PInv => OnlineIsConnected
    BY DEF PInv
  <1> QED
    BY <1>1, ContactsInvariance, PTL
=============================================================================
