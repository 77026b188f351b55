------------------------------ MODULE GroupChat ------------------------------
(***************************************************************************)
(* Group chats (tox/group_chat.c, common/group_chat.c): an invitation, the *)
(* dialog that asks about it, the group joined and its window, and the     *)
(* events of the group, which find their window by the group's number.     *)
(*                                                                         *)
(* The plugin has no operation for leaving a group (chat_leave is NULL in  *)
(* toxprpl.c), so that a group outlives its window, and libpurple keeps the*)
(* windows of one connection open into the next, where libtox gives out    *)
(* the same numbers again.                                                 *)
(***************************************************************************)
EXTENDS Integers, SequencesExt

CONSTANTS
  Names,         \* the names of peers; two peers may have the same
  Titles,        \* the titles groups are given
  NoTitle,       \* the title of a group before that
  Garbage,       \* what an uninitialised buffer holds that is no name
  MaxLogins,     \* bound: connections ever opened
  MaxWindows,    \* bound: windows ever opened
  MaxPeers,      \* bound: peers in a group
  MaxMembers,    \* bound: members a window lists
  MaxDialogs     \* bound: invitations waiting for an answer

ASSUME GroupAssumption ==
  /\ NoTitle \notin Titles
  /\ {MaxLogins, MaxWindows, MaxPeers, MaxMembers, MaxDialogs} \subseteq Nat

VARIABLES
  login,    \* how many connections there have been
  online,   \* the connection has a Tox instance
  dialogs,  \* how many invitations wait for an answer
  groups,   \* number |-> [peers, title], the groups of the instance
  windows,  \* the chat windows in the order they were opened:
            \*   [login, group, members (names), title, open, stray]
  fault     \* "none", or what made the client read memory that is not there

groupVars == <<login, online, dialogs, groups, windows, fault>>

Running == online /\ fault = "none"
Groups == DOMAIN groups
Windows == DOMAIN windows

Init ==
  /\ login = 0 /\ online = FALSE
  /\ dialogs = 0
  /\ groups = <<>>
  /\ windows = <<>>
  /\ fault = "none"

-----------------------------------------------------------------------------
(* Windows *)

\* purple_find_chat: the newest of the account's windows with that number. What it
\* does not ask is which connection the window is from.
FindNewestWindow(g) ==
  {w \in Windows : windows[w].open /\ \A v \in w + 1 .. Len(windows) : ~windows[v].open}
FindChat(g) ==
  {w \in Windows :
     /\ windows[w].open /\ windows[w].group = g
     /\ \A v \in w + 1 .. Len(windows) : ~(windows[v].open /\ windows[v].group = g)}

\* An event of group g is written to the window found for it, if there is one, and
\* takes it to its entry in "written". The window is stray if the group is not its own.
Deliver(g, written) ==
  windows' = [w \in Windows |->
    IF w \in FindChat(g)
    THEN [written[w] EXCEPT !.stray = @ \/ windows[w].login # login \/ windows[w].group # g]
    ELSE windows[w]]

\* The user closes a window; libtox is not told.
CloseWindow(w) ==
  /\ fault = "none"
  /\ windows[w].open
  /\ windows' = [windows EXCEPT ![w].open = FALSE]
  /\ UNCHANGED <<login, online, dialogs, groups, fault>>

-----------------------------------------------------------------------------
(* Invitations *)

\* ToxPRPL_Tox_onGroupInvite: audio and video groups are ignored.
OnGroupInvite(groupType) ==
  /\ Running
  /\ dialogs < MaxDialogs
  /\ groupType = "text"
  /\ dialogs' = dialogs + 1
  /\ UNCHANGED <<login, online, groups, windows, fault>>

\* The dialog has the address of the handler's local variable, where its callbacks
\* expect the record the variable points to. What they read there is undefined:
\* either that is the end, or what they need is still there.
Dangling == fault' \in {"none", "invite"}

\* ToxPRPL_Tox_onGroupInviteAccepted. libtox may refuse to join.
Joined ==
  /\ groups' = Append(groups, [peers |-> <<>>, title |-> NoTitle])
  /\ windows' = Append(windows, [login |-> login, group |-> Len(groups'), members |-> <<>>,
                                 title |-> NoTitle, open |-> TRUE, stray |-> FALSE])
RefusedOpens ==
  /\ groups' = groups
  /\ windows' = Append(windows, [login |-> login, group |-> -1, members |-> <<>>,
                                 title |-> NoTitle, open |-> TRUE, stray |-> FALSE])
Refused == UNCHANGED <<groups, windows>>

OnGroupInviteAccepted ==
  /\ Running
  /\ dialogs > 0 /\ dialogs' = dialogs - 1
  /\ Dangling
  /\ \/ fault' = "none" /\ Len(windows) < MaxWindows /\ Joined
     \/ Refused
  /\ UNCHANGED <<login, online>>

OnGroupInviteRejected ==
  /\ Running
  /\ dialogs > 0 /\ dialogs' = dialogs - 1
  /\ Dangling
  /\ UNCHANGED <<login, online, groups, windows>>

-----------------------------------------------------------------------------
(* Events of a group *)

\* ToxPRPL_Tox_onGroupMessage, and ToxPRPL_Tox_onGroupAction, which turns an action
\* into a message.
OnGroupMessage(g) ==
  /\ Running
  /\ groups[g].peers # <<>>
  /\ Deliver(g, windows)
  /\ UNCHANGED <<login, online, dialogs, groups, fault>>

\* ToxPRPL_Tox_onGroupChangeTitle: an action, and the title of the window.
TitleActionOnly(g, newTitle) ==
  /\ Running
  /\ groups[g].peers # <<>>
  /\ groups' = [groups EXCEPT ![g].title = newTitle]
  /\ Deliver(g, windows)
  /\ UNCHANGED <<login, online, dialogs, fault>>
OnGroupChangeTitle(g, newTitle) ==
  /\ Running
  /\ groups[g].peers # <<>>
  /\ groups' = [groups EXCEPT ![g].title = newTitle]
  /\ Deliver(g, [w \in Windows |-> [windows[w] EXCEPT !.title = newTitle]])
  /\ UNCHANGED <<login, online, dialogs, fault>>

\* groupBuddyAdd. The peer number it leaves as an attribute of the member is never
\* read: see PeerName.
GroupBuddyAdd(members, buddyName) == Append(members, buddyName)

\* groupBuddyDel: one member of that name is removed, if there is one.
GroupBuddyDelAll(members, buddyName) ==
  SelectSeq(members, LAMBDA member : member # buddyName)
GroupBuddyDel(members, buddyName) ==
  IF \E i \in DOMAIN members : members[i] = buddyName
  THEN RemoveAt(members, CHOOSE i \in DOMAIN members : members[i] = buddyName)
  ELSE members

\* ToxPRPL_Tox_onGroupNamelistChange, TOX_CHAT_CHANGE_PEER_ADD.
PeerAdd(g, n) ==
  /\ Running
  /\ Len(groups[g].peers) < MaxPeers
  /\ \A w \in FindChat(g) : Len(windows[w].members) < MaxMembers
  /\ groups' = [groups EXCEPT ![g].peers = Append(@, n)]
  /\ Deliver(g, [w \in Windows |-> [windows[w] EXCEPT !.members = GroupBuddyAdd(@, n)]])
  /\ UNCHANGED <<login, online, dialogs, fault>>

\* libtox moves the last peer into the place of the one that left, then reports.
Without(peers, p) ==
  [i \in 1 .. Len(peers) - 1 |-> IF i = p THEN Last(peers) ELSE peers[i]]

\* The names tox_group_peername may give for the number of a peer that has left. It
\* finds nobody for a number past the end and leaves the buffer as it is: there may
\* be a name in it from an earlier call, or anything else.
PeerNames(peers, p) ==
  IF p < Len(peers) THEN {Last(peers)} ELSE Names \cup {Garbage}

\* The same, TOX_CHAT_CHANGE_PEER_DEL.
PeerDel(g, p) ==
  /\ Running
  /\ groups' = [groups EXCEPT ![g].peers = Without(@, p)]
  /\ \E buddyName \in PeerNames(groups[g].peers, p) :
       Deliver(g, [w \in Windows |->
         [windows[w] EXCEPT !.members = GroupBuddyDel(@, buddyName)]])
  /\ UNCHANGED <<login, online, dialogs, fault>>

\* The same, TOX_CHAT_CHANGE_PEER_NAME. ToxPRPL_Purple_findByPeerId compares every
\* member with NULL and finds none, and groupBuddyRename reads the first of those.
PeerName(g, p, n) ==
  /\ Running
  /\ groups[g].peers[p] # n
  /\ groups' = [groups EXCEPT ![g].peers[p] = n]
  /\ fault' = IF FindChat(g) # {} THEN "rename" ELSE fault
  /\ UNCHANGED <<login, online, dialogs, windows>>

-----------------------------------------------------------------------------
(* Connections *)

\* A new Tox instance is in no group.
LogIn ==
  /\ ~online /\ fault = "none"
  /\ login < MaxLogins
  /\ login' = login + 1
  /\ online' = TRUE
  /\ UNCHANGED <<dialogs, groups, windows, fault>>

\* The instance is killed, and libpurple takes the dialogs of the connection away.
LogOut ==
  /\ Running
  /\ online' = FALSE
  /\ groups' = <<>>
  /\ dialogs' = 0
  /\ UNCHANGED <<login, windows, fault>>

Next ==
  \/ LogIn
  \/ LogOut
  \/ \E groupType \in {"text", "av"} : OnGroupInvite(groupType)
  \/ OnGroupInviteAccepted
  \/ OnGroupInviteRejected
  \/ \E w \in Windows : CloseWindow(w)
  \/ \E g \in Groups : OnGroupMessage(g)
  \/ \E g \in Groups, t \in Titles : OnGroupChangeTitle(g, t)
  \/ \E g \in Groups, n \in Names : PeerAdd(g, n)
  \/ \E g \in Groups : \E p \in DOMAIN groups[g].peers : PeerDel(g, p)
  \/ \E g \in Groups, n \in Names : \E p \in DOMAIN groups[g].peers : PeerName(g, p, n)

Spec == Init /\ [][Next]_groupVars

-----------------------------------------------------------------------------
(* Properties *)

Group == [peers : Seq(Names), title : Titles \cup {NoTitle}]
Window == [login : 1 .. MaxLogins, group : 1 .. MaxWindows, members : Seq(Names),
           title : Titles \cup {NoTitle}, open : BOOLEAN, stray : BOOLEAN]

\* The type of the state. A window has the number of a group that was joined.
TypeOK ==
  /\ login \in 0 .. MaxLogins /\ online \in BOOLEAN
  /\ dialogs \in 0 .. MaxDialogs
  /\ groups \in Seq(Group)
  /\ windows \in Seq(Window) /\ Len(windows) <= MaxWindows
  /\ fault \in {"none", "invite", "rename"}

\* The windows of this connection's groups.
Current == {w \in Windows : online /\ windows[w].open /\ windows[w].login = login}

\* The member list of a window may come to name the wrong people, but it never lists
\* fewer than there are in its group, however peers of one name come and go, libtox
\* renumbers them and numbers return with a later connection
\* (tox/group_chat.c:184-210, 235-253).
NobodyUncounted ==
  \A w \in Current :
    Len(windows[w].members) >= Len(groups[windows[w].group].peers)

\* A window that is open misses no change of title of its group, whatever windows of
\* the same number earlier connections have left open (tox/group_chat.c:163-180).
TitleIsTheGroups ==
  \A w \in Current : windows[w].title = groups[windows[w].group].title

\* A window shows the events of another group only after the window of that group was
\* closed, and the other group is one of a later connection (tox/group_chat.c:126,
\* 168, 240).
StrayNeedsClosing ==
  \A w \in Windows : windows[w].stray =>
    \E v \in w + 1 .. Len(windows) :
      /\ windows[v].group = windows[w].group /\ windows[v].login > windows[w].login
      /\ ~windows[v].open

\* What the source itself states; the run group_leave shows where it fails.

\* "Handle buddylist change notifications", include/toxprpl/group_chat.h:54: the
\* member list of a window lists the peers of its group under their names, each as
\* often as it occurs.
MembersArePeers ==
  \A w \in Current, n \in Names :
    LET peers == groups[windows[w].group].peers
        members == windows[w].members
    IN fault = "none" =>
         Cardinality({i \in DOMAIN members : members[i] = n})
           = Cardinality({i \in DOMAIN peers : peers[i] = n})
=============================================================================
