------------------------------- MODULE Contacts -------------------------------
(***************************************************************************)
(* What the user sees of the friends and exchanges with them, on top of    *)
(* the friend system of Roster: the status libpurple shows for a buddy     *)
(* (tox/buddy.c, purple/buddy.c, util.c) and one-to-one messages and       *)
(* typing notices (purple/chat.c, tox/chat.c).                             *)
(*                                                                         *)
(* The status shown is a cache with several writers: the event that a      *)
(* friend is on line or off, the event that he is available, away or busy, *)
(* and the queries when the DHT is found, when a buddy is added and when   *)
(* one is synchronised. None of them looks at what the others wrote.       *)
(* Messages go by the friend number the buddy caches, and come by key.     *)
(***************************************************************************)
EXTENDS Roster

CONSTANT
  Watched  \* the keys whose presence changes and whose messages are followed

ASSUME ContactsAssumption == Watched \subseteq Keys

VARIABLES
  conn,   \* key |-> libtox has a connection to that friend
  ustat,  \* key |-> the user status libtox has for that friend
  told,   \* the friends who have reported a status since they are connected
  shown,  \* key |-> the status libpurple has for the buddy of that name
  passed  \* the message or notice the last step passed on, or Nothing

presence == <<conn, ustat, told, shown>>
contactVars == <<vars, presence, passed>>

UserStatuses == {"none", "away", "busy"}
BuddyStatuses == {"online", "away", "busy", "offline"}

\* way: to the friend or from him; name: the buddy libpurple knows it by;
\* friend: whose Tox instance has it.
Message == [way : {"out", "in"}, name : Keys, friend : Keys]
Nothing == [way |-> "none", name |-> NoKey, friend |-> NoKey]

Passed(way, k, f) == [way |-> way, name |-> k, friend |-> f]

Apart == [k \in Keys |-> FALSE]
AnyStatus == {u \in [Keys -> UserStatuses] : \A k \in Keys \ Watched : u[k] = "none"}

ContactsInit ==
  /\ Init
  /\ conn = Apart
  /\ ustat = [k \in Keys |-> "none"]
  /\ told = {}
  /\ shown = [k \in Keys |-> "offline"]
  /\ passed = Nothing

\* ToxPRPL_getStatusTypeIndex: away and busy are taken as they are.
StatusInvalidToo(u, connected) ==
  IF u # "none" THEN u ELSE IF connected THEN "online" ELSE "offline"
StatusType(u, connected) ==
  IF u \in {"away", "busy"} THEN u ELSE IF connected THEN "online" ELSE "offline"

\* What it returns for friend number n. libtox answers "invalid" for a number
\* that is no friend's.
StatusOfNumber(f, n, u, c) ==
  IF n \in Slots /\ f[n] \in Keys THEN StatusType(u[f[n]], c[f[n]])
  ELSE StatusType("invalid", FALSE)

\* purple_prpl_got_user_status: libpurple knows buddies only.
GotUserStatus(k, status) ==
  shown' = IF k \in Names(blist) THEN [shown EXCEPT ![k] = status] ELSE shown

-----------------------------------------------------------------------------
(* The steps of the friend system *)

\* A login makes a new instance: nobody is connected, and the user status of each
\* friend is the one stored with the account, however old. ToxPRPL_synchronizeBuddy
\* gives the buddies it adds a status; the others keep theirs.
Login ==
  /\ LoginExisting \/ CreateNewAccount \/ ImportUser
  /\ passed' = Nothing
  /\ \/ /\ phase' = phase /\ friends' = friends /\ blist' = blist
        /\ UNCHANGED presence
     \/ /\ phase' # "off"
        /\ conn' = Apart
        /\ told' = {}
        /\ ustat' \in {u \in AnyStatus : \A k \in Keys \ Live(friends') : u[k] = "none"}
        /\ shown' = [k \in Keys |->
             IF k \notin Names(blist') THEN "offline"
             ELSE IF k \in Names(blist) THEN shown[k]
             ELSE StatusType(ustat'[k], FALSE)]

\* The session ends. What libpurple keeps of a buddy's status is not shown while
\* the account is off line, but may be there again at the next login.
GoOffline ==
  /\ ShutdownPRPL \/ Crash
  /\ conn' = Apart
  /\ ustat' = [k \in Keys |-> "none"]
  /\ told' = {}
  /\ shown' \in {shown, [k \in Keys |-> "offline"]}
  /\ passed' = Nothing

\* ToxPRPL_updateClientStatus queries every buddy by the number it then has.
QueryNone(bl) == shown
QueryAllBuddies(bl) ==
  [k \in Keys |->
     IF k \in Names(bl)
     THEN LET g == CHOOSE h \in Groups : bl[k][h] # Absent
          IN StatusOfNumber(friends, bl[k][g], ustat, conn)
     ELSE shown[k]]

FindDHT ==
  /\ DHTConnected
  /\ shown' = QueryAllBuddies(blist')
  /\ passed' = Nothing
  /\ UNCHANGED <<conn, ustat, told>>

LoseDHT ==
  /\ DHTDisconnected
  /\ passed' = Nothing
  /\ UNCHANGED presence

\* A new friend is not connected and has no status yet; the query after adding a
\* buddy and the one after accepting a request find that.
MakeFriend(k) ==
  /\ \/ \E g \in Groups : AddBuddy(k, g)
     \/ AcceptFriendRequest(k)
  /\ shown' = IF k \in Live(friends') \ Live(friends)
              THEN [shown EXCEPT ![k] = StatusType(ustat[k], conn[k])] ELSE shown
  /\ passed' = Nothing
  /\ UNCHANGED <<conn, ustat, told>>

\* libtox forgets a deleted friend, and libpurple a removed buddy.
RemoveContact(k) ==
  /\ \E g \in Groups : RemoveBuddy(k, g)
  /\ conn' = [f \in Keys |-> conn[f] /\ f \in Live(friends')]
  /\ ustat' = [f \in Keys |-> IF f \in Live(friends') THEN ustat[f] ELSE "none"]
  /\ told' = told \cap Live(friends')
  /\ shown' = [f \in Keys |-> IF f \in Names(blist') THEN shown[f] ELSE "offline"]
  /\ passed' = Nothing

Request(k) ==
  /\ OnFriendRequest(k) \/ RejectFriendRequest(k)
  /\ passed' = Nothing
  /\ UNCHANGED presence

-----------------------------------------------------------------------------
(* Presence *)

\* ToxPRPL_Tox_onUserConnectionStatusChange
ConnectShowsStored(k) ==
  /\ phase # "off" /\ k \in Live(friends) /\ ~conn[k]
  /\ conn' = [conn EXCEPT ![k] = TRUE]
  /\ GotUserStatus(k, StatusType(ustat[k], FALSE))
  /\ passed' = Nothing
  /\ UNCHANGED <<vars, ustat, told>>
OnConnected(k) ==
  /\ phase # "off" /\ k \in Live(friends) /\ ~conn[k]
  /\ conn' = [conn EXCEPT ![k] = TRUE]
  /\ GotUserStatus(k, "online")
  /\ passed' = Nothing
  /\ UNCHANGED <<vars, ustat, told>>

OnDisconnected(k) ==
  /\ conn[k]
  /\ conn' = [conn EXCEPT ![k] = FALSE]
  /\ told' = told \ {k}
  /\ GotUserStatus(k, "offline")
  /\ passed' = Nothing
  /\ UNCHANGED <<vars, ustat>>

\* ToxPRPL_Tox_onFriendChangeStatus
ChangeShowsFormer(k, u) ==
  /\ conn[k]
  /\ ustat' = [ustat EXCEPT ![k] = u]
  /\ told' = told \cup {k}
  /\ GotUserStatus(k, StatusType(ustat[k], conn[k]))
  /\ passed' = Nothing
  /\ UNCHANGED <<vars, conn>>
OnFriendChangeStatus(k, u) ==
  /\ conn[k]
  /\ ustat' = [ustat EXCEPT ![k] = u]
  /\ told' = told \cup {k}
  /\ GotUserStatus(k, StatusType(u, conn[k]))
  /\ passed' = Nothing
  /\ UNCHANGED <<vars, conn>>

-----------------------------------------------------------------------------
(* Messages and typing *)

\* ToxPRPL_Purple_sendUserMessage and ToxPRPL_Purple_updateTypingState: some buddy
\* of that name is asked for its number. A buddy without data, a number that is no
\* friend's and a friend who is not connected mean that nothing is sent, and the
\* user is told so.
SendUserMessage(k) ==
  /\ phase \in {"connected", "lost"}
  /\ \E g \in Groups :
       LET n == blist[k][g]
       IN /\ n \in Slots
          /\ friends[n] \in Keys /\ conn[friends[n]]
          /\ passed' = Passed("out", k, friends[n])
  /\ UNCHANGED <<vars, presence>>

\* ToxPRPL_Tox_onMessageReceived and ToxPRPL_Tox_onFriendAction, by the key of the
\* friend number n.
OnMessageReceived(n) ==
  /\ phase # "off" /\ friends[n] \in Watched /\ conn[friends[n]]
  /\ passed' = Passed("in", friends[n], friends[n])
  /\ UNCHANGED <<vars, presence>>

ContactsNext ==
  \/ Login \/ GoOffline \/ FindDHT \/ LoseDHT
  \/ \E k \in Keys : MakeFriend(k) \/ RemoveContact(k) \/ Request(k)
  \/ \E k \in Watched :
       \/ OnConnected(k)
       \/ OnDisconnected(k)
       \/ \E u \in UserStatuses : OnFriendChangeStatus(k, u)
  \/ \E k \in Keys : SendUserMessage(k)
  \/ \E n \in Slots : OnMessageReceived(n)

ContactsSpec == ContactsInit /\ [][ContactsNext]_contactVars

-----------------------------------------------------------------------------
(* Properties *)

\* The type of what this module adds.
PresenceTypeOK ==
  /\ conn \in [Keys -> BOOLEAN]
  /\ ustat \in [Keys -> UserStatuses]
  /\ told \subseteq Keys
  /\ shown \in [Keys -> BuddyStatuses]
  /\ passed \in Message \cup {Nothing}

\* From the first time the DHT is found, nobody is shown on line who is not there,
\* whatever an earlier session left and in whatever order the two kinds of status
\* event, the queries, removals and renumberings come (tox/buddy.c:9-29, 182-203,
\* purple/buddy.c:74-103, util.c:88-104).
OnlineIsConnected ==
  phase \in {"connected", "lost"} =>
    \A k \in Names(blist) : shown[k] = "online" => conn[k]

\* A friend who is connected and has told his status is shown with that status:
\* no later query or event of another friend replaces it (the same code).
ReportedIsShown ==
  phase # "off" =>
    \A k \in told \cap Names(blist) : shown[k] = StatusType(ustat[k], TRUE)

\* A friend who is connected is never shown as off line, told or not.
ConnectedIsSeen ==
  phase # "off" => \A k \in Names(blist) : conn[k] => shown[k] # "offline"

\* What the user types to a buddy reaches the friend of that name, and what a
\* friend sends comes in under his name, although the number the message went by
\* was cached when the buddy was added, and libtox gives numbers out again
\* (purple/chat.c:18-101, tox/chat.c, tox/buddy.c:130-152).
MessagesReachName == passed # Nothing => passed.name = passed.friend
=============================================================================
