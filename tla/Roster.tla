------------------------------- MODULE Roster -------------------------------
(***************************************************************************)
(* The friend system of tox-prpl: how the Tox friend list, the account     *)
(* data stored in libpurple ("messenger") and the libpurple buddy list are *)
(* kept together (toxprpl.c, purple/buddy.c, tox/buddy.c and               *)
(* purple/account.c).                                                      *)
(*                                                                         *)
(* Three copies of the same fact live in three places, and each has a life *)
(* of its own: the friend list dies with the Tox instance and is           *)
(* renumbered by tox_load; the stored data survives a crash but only as    *)
(* of the last save; the buddy list is a file libpurple writes, and its    *)
(* entries cache a friend number that libtox reuses as soon as the friend  *)
(* is deleted.                                                             *)
(***************************************************************************)
EXTENDS Integers

CONSTANTS
  Keys,          \* public keys (client ids) of the other users
  NoKey,         \* what a free slot of the Tox friend list holds
  Groups,        \* groups of the buddy list
  DefaultGroup,  \* the group purple_blist_add_buddy(b, NULL, NULL, NULL) uses
  MaxFriends,    \* bound: slots of the Tox friend list
  MaxDialogs,    \* bound: open request dialogs per key
  AddKnown,      \* the user may add, by Tox ID, a key the list already names
  Relogin        \* a failed export may run the login a second time

ASSUME RosterAssumption ==
  /\ NoKey \notin Keys
  /\ DefaultGroup \in Groups
  /\ MaxFriends \in Nat \ {0}
  /\ MaxDialogs \in Nat
  /\ AddKnown \in BOOLEAN
  /\ Relogin \in BOOLEAN

VARIABLES
  phase,    \* "off", "connecting", "connected", or "lost" (DHT down)
  account,  \* the "messenger" string: "null", "data", or "rejected" by tox_load
  saved,    \* the friends tox_load finds in it
  friends,  \* the friend list of the Tox instance: slot |-> key or NoKey
  blist,    \* the buddy list: key |-> group |-> Absent, or the buddy's data
  dialogs   \* open friend request dialogs, per key

vars == <<phase, account, saved, friends, blist, dialogs>>

Slots == 0 .. (MaxFriends - 1)

NoFriend == -1  \* tox_friendlist_number of a key libtox does not know
NoData   == -2  \* a buddy whose protocol data is NULL
Absent   == -3  \* no such buddy

BuddyStates == Slots \cup {NoFriend, NoData, Absent}

Live(f) == {k \in Keys : \E s \in Slots : f[s] = k}

Names(bl) == {k \in Keys : \E g \in Groups : bl[k][g] # Absent}

NoFriends == [s \in Slots |-> NoKey]

\* What tox_load may build of stored friends: it numbers them anew.
Numberings(S) ==
  {f \in [Slots -> Keys \cup {NoKey}] :
     /\ Live(f) = S
     /\ \A s, t \in Slots : f[s] = f[t] /\ f[s] # NoKey => s = t}

\* tox_get_friend_number
FriendNumberOrCount(f, k) ==
  IF k \in Live(f) THEN CHOOSE s \in Slots : f[s] = k ELSE MaxFriends
FriendNumber(f, k) ==
  IF k \in Live(f) THEN CHOOSE s \in Slots : f[s] = k ELSE NoFriend

\* tox_add_friend takes the lowest free slot.
FreeSlot(s) ==
  /\ friends[s] = NoKey
  /\ \A t \in Slots : t < s => friends[t] # NoKey

\* tox_del_friend, which ignores a number that is not a friend's.
DelFriend(f, n) ==
  IF n \in Slots THEN [f EXCEPT ![n] = NoKey] ELSE f

\* ToxPRPL_saveAccount for the friend list f.
SaveAccount(f) ==
  /\ account' = "data"
  /\ saved' = Live(f)

-----------------------------------------------------------------------------
(* Login and logout *)

Init ==
  /\ phase = "off"
  /\ account \in {"null", "data", "rejected"}
  /\ saved \in SUBSET Keys
  /\ account # "data" => saved = {}
  /\ friends = NoFriends
  /\ blist \in [Keys -> [Groups -> {NoData, Absent}]]
  /\ \A k \in Keys, g, h \in Groups :
       blist[k][g] # Absent /\ blist[k][h] # Absent => g = h
  /\ dialogs = [k \in Keys |-> 0]

\* ToxPRPL_synchronizeBuddyList: every buddy that is a friend gets its number;
\* if there are friends at all, a buddy left without data is removed; and a
\* friend that no buddy names is added to the default group.
Listed(k, g) ==
  blist[k][g] # Absent \/ (k \notin Names(blist) /\ g = DefaultGroup)

SynchronizeKeepsOrphans(f) ==
  [k \in Keys |-> [g \in Groups |->
     IF k \in Live(f) /\ Listed(k, g) THEN FriendNumber(f, k)
     ELSE blist[k][g]]]
SynchronizeAddsNone(f) ==
  [k \in Keys |-> [g \in Groups |->
     IF k \in Live(f) /\ blist[k][g] # Absent THEN FriendNumber(f, k)
     ELSE IF Live(f) # {} /\ blist[k][g] = NoData THEN Absent
     ELSE blist[k][g]]]
SynchronizeBuddyList(f) ==
  [k \in Keys |-> [g \in Groups |->
     IF k \in Live(f) /\ Listed(k, g) THEN FriendNumber(f, k)
     ELSE IF Live(f) # {} /\ blist[k][g] = NoData THEN Absent
     ELSE blist[k][g]]]

\* A login runs when no session does; and, once an export has failed to write
\* (its error notice calls ToxPRPL_initializePRPL), also inside a session.
MayLogin == phase = "off" \/ (Relogin /\ phase \in {"connected", "lost"})

\* ToxPRPL_configureToxAndConnect with acc as the "messenger" string, in which
\* S are the friends. Data that tox_load rejects is dropped from the account
\* and nothing is stored in its place; without data the new identity is saved.
\* A bootstrap that fails leaves only what was stored (and libpurple will end
\* the session, if one runs).
ConfigureToxAndConnect(acc, S) ==
  /\ account' = IF acc = "rejected" THEN "null" ELSE "data"
  /\ saved' = S
  /\ \/ \E f \in Numberings(S) :
          /\ friends' = f
          /\ blist' = SynchronizeBuddyList(f)
          /\ phase' = IF phase = "off" THEN "connecting" ELSE "lost"
          /\ UNCHANGED dialogs
     \/ UNCHANGED <<phase, friends, blist, dialogs>>

\* ToxPRPL_initializePRPL finds account data.
LoginExisting ==
  /\ MayLogin
  /\ account # "null"
  /\ ConfigureToxAndConnect(account, saved)

\* It finds none, and the user answers the setup dialog.
CreateNewAccount ==
  /\ MayLogin
  /\ account = "null"
  /\ ConfigureToxAndConnect("null", {})

ImportUser ==
  /\ MayLogin
  /\ account = "null"
  /\ \/ \E S \in SUBSET Keys : ConfigureToxAndConnect("data", S)
     \/ ConfigureToxAndConnect("rejected", {})

\* The session ends and libpurple drops the protocol data of every buddy and
\* closes the request dialogs of the connection.
DropData(d) == IF d = Absent THEN Absent ELSE NoData

EndSession ==
  /\ phase' = "off"
  /\ friends' = NoFriends
  /\ blist' = [k \in Keys |-> [g \in Groups |-> DropData(blist[k][g])]]
  /\ dialogs' = [k \in Keys |-> 0]

\* ToxPRPL_shutdownPRPL
ShutdownSavesNothing ==
  /\ phase # "off"
  /\ EndSession
  /\ SaveAccount(friends')
ShutdownPRPL ==
  /\ phase # "off"
  /\ SaveAccount(friends)
  /\ EndSession

\* The client dies: only what was saved remains.
Crash ==
  /\ phase # "off"
  /\ EndSession
  /\ UNCHANGED <<account, saved>>

-----------------------------------------------------------------------------
(* The session *)

\* ToxPRPL_Purple_getBuddyInfo as far as the protocol data goes.
GetBuddyInfoSetsNone(f, k, d) == d
GetBuddyInfo(f, k, d) == IF d = NoData THEN FriendNumber(f, k) ELSE d

\* ToxPRPL_updateClientStatus finds the DHT connected: every buddy is queried.
DHTConnected ==
  /\ phase \in {"connecting", "lost"}
  /\ phase' = "connected"
  /\ blist' = [k \in Keys |-> [g \in Groups |->
                 GetBuddyInfo(friends, k, blist[k][g])]]
  /\ UNCHANGED <<account, saved, friends, dialogs>>

\* It finds the DHT lost.
DHTDisconnected ==
  /\ phase = "connected"
  /\ phase' = "lost"
  /\ UNCHANGED <<account, saved, friends, blist, dialogs>>

\* ToxPRPL_Purple_addFriend, when libtox accepts: the friend is in slot s and
\* the account is saved.
AddFriend(k, s) ==
  /\ k \notin Live(friends)
  /\ FreeSlot(s)
  /\ friends' = [friends EXCEPT ![s] = k]
  /\ SaveAccount(friends')

\* The user adds a Tox ID in a group (ToxPRPL_Purple_addBuddy); the client only
\* offers that once connected. An ID libtox refuses takes the buddy off again
\* and changes nothing. Not modelled: two buddies of one name in one group.
AddBuddy(k, g) ==
  /\ phase \in {"connected", "lost"}
  /\ blist[k][g] = Absent
  /\ AddKnown \/ k \notin Names(blist)
  /\ \E s \in Slots : AddFriend(k, s)
  /\ blist' = [blist EXCEPT ![k][g] = GetBuddyInfo(friends', k, NoData)]
  /\ UNCHANGED <<phase, dialogs>>

\* The user removes a buddy (ToxPRPL_Purple_removeBuddy, then libpurple takes
\* it off the list). The friend deleted is the one whose number is cached.
RemoveBuddySavesNot(k, g) ==
  /\ phase \in {"connected", "lost"}
  /\ blist[k][g] # Absent
  /\ friends' = DelFriend(friends, blist[k][g])
  /\ blist' = [blist EXCEPT ![k][g] = Absent]
  /\ UNCHANGED <<phase, account, saved, dialogs>>
RemoveBuddy(k, g) ==
  /\ phase \in {"connected", "lost"}
  /\ blist[k][g] # Absent
  /\ IF blist[k][g] = NoData
     THEN UNCHANGED <<account, saved, friends>>
     ELSE /\ friends' = DelFriend(friends, blist[k][g])
          /\ SaveAccount(friends')
  /\ blist' = [blist EXCEPT ![k][g] = Absent]
  /\ UNCHANGED <<phase, dialogs>>

\* ToxPRPL_Tox_onFriendRequest: a dialog opens unless the sender is already on
\* the buddy list. (libtox itself drops the requests of a friend.)
OnFriendRequest(k) ==
  /\ phase # "off"
  /\ k \notin Live(friends)
  /\ k \notin Names(blist)
  /\ dialogs[k] < MaxDialogs
  /\ dialogs' = [dialogs EXCEPT ![k] = @ + 1]
  /\ UNCHANGED <<phase, account, saved, friends, blist>>

\* ToxPRPL_Action_acceptFriendRequest: the state may have moved on since the
\* dialog opened. libtox refuses a key it already has and a full list.
AcceptKeepsZero(k) ==
  /\ dialogs[k] > 0
  /\ blist[k][DefaultGroup] = Absent \/ k \in Live(friends)
  /\ dialogs' = [dialogs EXCEPT ![k] = @ - 1]
  /\ \/ \E s \in Slots :
          /\ AddFriend(k, s)
          /\ blist' = [blist EXCEPT ![k][DefaultGroup] = 0]
     \/ /\ k \in Live(friends) \/ NoKey \notin {friends[s] : s \in Slots}
        /\ UNCHANGED <<account, saved, friends, blist>>
  /\ UNCHANGED phase
AcceptFriendRequest(k) ==
  /\ dialogs[k] > 0
  /\ blist[k][DefaultGroup] = Absent \/ k \in Live(friends)
  /\ dialogs' = [dialogs EXCEPT ![k] = @ - 1]
  /\ \/ \E s \in Slots :
          /\ AddFriend(k, s)
          /\ blist' = [blist EXCEPT ![k][DefaultGroup] = s]
     \/ /\ k \in Live(friends) \/ NoKey \notin {friends[s] : s \in Slots}
        /\ UNCHANGED <<account, saved, friends, blist>>
  /\ UNCHANGED phase

\* ToxPRPL_Action_rejectFriendRequest
RejectFriendRequest(k) ==
  /\ dialogs[k] > 0
  /\ dialogs' = [dialogs EXCEPT ![k] = @ - 1]
  /\ UNCHANGED <<phase, account, saved, friends, blist>>

Next ==
  \/ LoginExisting
  \/ CreateNewAccount
  \/ ImportUser
  \/ ShutdownPRPL
  \/ Crash
  \/ DHTConnected
  \/ DHTDisconnected
  \/ \E k \in Keys, g \in Groups : AddBuddy(k, g) \/ RemoveBuddy(k, g)
  \/ \E k \in Keys : \/ OnFriendRequest(k)
                     \/ AcceptFriendRequest(k)
                     \/ RejectFriendRequest(k)

Spec == Init /\ [][Next]_vars

-----------------------------------------------------------------------------
(* Properties *)

\* The type of the state: friend list, cached numbers, account, dialogs.
TypeOK ==
  /\ phase \in {"off", "connecting", "connected", "lost"}
  /\ account \in {"null", "data", "rejected"}
  /\ saved \in SUBSET Keys
  /\ friends \in [Slots -> Keys \cup {NoKey}]
  /\ blist \in [Keys -> [Groups -> BuddyStates]]
  /\ dialogs \in [Keys -> Nat]

\* While a session runs, what a crash would leave behind is the friend list as
\* it is now: purple/buddy.c:61-62 and 114-115 save after every change "in case
\* pidgin does not exit cleanly".
SavedIsLive == phase # "off" => saved = Live(friends)

\* Every friend of a running session can be reached from the buddy list: some
\* buddy of that name caches the friend's own number (toxprpl.c:253-308 at
\* login, purple/buddy.c:151 and tox/buddy.c:62-65 afterwards).
EveryFriendListed ==
  phase # "off" =>
    \A k \in Live(friends) :
      \E g \in Groups : blist[k][g] \in Slots /\ friends[blist[k][g]] = k

\* A number cached for a buddy is the number of the friend of that name, and a
\* buddy without a number is no friend: so a message typed to a buddy, and its
\* status and alias, go to and come from nobody else although libtox reuses
\* numbers (purple/chat.c:18-57, purple/buddy.c:74-103).
BuddyResolves ==
  phase # "off" =>
    \A k \in Keys, g \in Groups :
      /\ blist[k][g] \in Slots => friends[blist[k][g]] = k
      /\ blist[k][g] \in {NoFriend, NoData} => k \notin Live(friends)

\* The part of it that getBuddyInfo claims ("Retrieve the current status of the
\* given buddy", purple/buddy.c:70): the number asked is never another friend's.
NumberIsNobodyElses ==
  \A k \in Keys, g \in Groups :
    blist[k][g] \in Slots => friends[blist[k][g]] \in {k, NoKey}

\* A stored friend is forgotten only by the user's removing a buddy of that very
\* name: no login, logout, crash, request or other removal loses one.
OnlyNamedFriendForgotten ==
  [][\A k \in saved \ saved' :
       \E g \in Groups : blist[k][g] # Absent /\ blist'[k][g] = Absent]_vars

\* A login with friends leaves exactly the friends on the buddy list, each under
\* its own number, whatever the two files said (toxprpl.c:253-308).
LoginReconciles ==
  [][phase = "off" /\ phase' = "connecting" /\ Live(friends') # {} =>
       /\ Names(blist') = Live(friends')
       /\ \A k \in Keys, g \in Groups :
            blist'[k][g] \in {Absent, FriendNumber(friends', k)}]_vars

\* The friend system keeps the promise of FriendBook.
Book == INSTANCE FriendBook WITH
          online <- phase # "off", book <- saved, listed <- Names(blist)
FriendBookSpec == Book!Spec
=============================================================================
