----------------------------- MODULE GroupProofs -----------------------------
(***************************************************************************)
(* Proofs about GroupChat, for any number of connections, windows, peers   *)
(* and names. The argument rests on Shape: the windows of one connection   *)
(* have different groups, every group has its window, open or closed, and  *)
(* the windows of later connections are later ones.                        *)
(***************************************************************************)
EXTENDS GroupChat, TLAPS

\* How the windows and the groups of the instance belong together.
Shape ==
  /\ online => login # 0
  /\ \A w \in Windows : windows[w].login <= login
  /\ \A v, w \in Windows : v < w =>
       /\ windows[v].login <= windows[w].login
       /\ windows[v].login = windows[w].login => windows[v].group # windows[w].group
  /\ ~online => groups = <<>>
  /\ \A g \in Groups : \E w \in Windows : windows[w].login = login /\ windows[w].group = g
  /\ online => \A w \in Windows : windows[w].login = login => windows[w].group \in Groups
  /\ Len(groups) <= Len(windows)

GInv == TypeOK /\ Shape /\ TitleIsTheGroups /\ StrayNeedsClosing

-----------------------------------------------------------------------------
(* Lemmas *)

\* The numbers in the state.
LEMMA NumbersOfWindows ==
  ASSUME TypeOK
  PROVE  /\ Windows = 1 .. Len(windows) /\ Len(windows) \in Nat /\ login \in Nat
         /\ \A w \in Windows : windows[w].login \in Nat /\ windows[w].group \in Nat
         /\ Groups = 1 .. Len(groups) /\ Len(groups) \in Nat
  <1>1. MaxLogins \in Nat /\ MaxWindows \in Nat
    BY GroupAssumption
  <1>2. Windows = 1 .. Len(windows) /\ Len(windows) \in Nat
    BY DEF TypeOK, Windows
  <1>3. \A w \in Windows : windows[w] \in Window
    BY <1>2 DEF TypeOK
  <1>4. \A w \in Windows : windows[w].login \in Nat /\ windows[w].group \in Nat
    BY <1>1, <1>3 DEF Window
  <1> QED
    BY <1>1, <1>2, <1>4 DEF TypeOK, Groups

\* What an entry of "written" may differ in: members and title.
Rewrites(written) ==
  /\ written \in [Windows -> Window]
  /\ \A w \in Windows :
       /\ written[w].login = windows[w].login /\ written[w].group = windows[w].group
       /\ written[w].open = windows[w].open /\ written[w].stray = windows[w].stray

\* What Deliver does to each window.
LEMMA Delivered ==
  ASSUME TypeOK, NEW g, NEW written, Rewrites(written), Deliver(g, written)
  PROVE  /\ windows' \in Seq(Window) /\ Windows' = Windows /\ Len(windows') = Len(windows)
         /\ \A w \in Windows :
              /\ windows'[w].login = windows[w].login
              /\ windows'[w].group = windows[w].group
              /\ windows'[w].open = windows[w].open
              /\ windows'[w].stray =>
                   windows[w].stray \/ (w \in FindChat(g) /\ windows[w].login # login)
              /\ w \in FindChat(g) => /\ windows'[w].title = written[w].title
                                      /\ windows'[w].members = written[w].members
              /\ w \notin FindChat(g) => windows'[w] = windows[w]
  <1> DEFINE stray(w) == written[w].stray \/ windows[w].login # login \/ windows[w].group # g
             new(w) == [written[w] EXCEPT !.stray = stray(w)]
  <1>1. windows' = [w \in Windows |-> IF w \in FindChat(g) THEN new(w) ELSE windows[w]]
    BY DEF Deliver
  <1>2. Windows = 1 .. Len(windows) /\ Len(windows) \in Nat
    BY DEF TypeOK, Windows
  <1>3. \A w \in Windows : windows[w] \in Window /\ written[w] \in Window
    BY <1>2 DEF TypeOK, Rewrites
  <1>4. ASSUME NEW w \in Windows
        PROVE  /\ new(w) \in Window
               /\ new(w).login = written[w].login /\ new(w).group = written[w].group
               /\ new(w).open = written[w].open /\ new(w).title = written[w].title
               /\ new(w).members = written[w].members
               /\ new(w).stray = stray(w)
    <2>1. stray(w) \in BOOLEAN
      BY <1>3 DEF Window
    <2> HIDE DEF stray
    <2> QED
      BY <1>3, <2>1 DEF Window
  <1>5. \A w \in Windows : windows'[w] = IF w \in FindChat(g) THEN new(w) ELSE windows[w]
    BY <1>1
  <1>6. windows' \in Seq(Window) /\ Windows' = Windows /\ Len(windows') = Len(windows)
    <2> HIDE DEF new
    <2>1. \A w \in Windows : (IF w \in FindChat(g) THEN new(w) ELSE windows[w]) \in Window
      BY <1>3, <1>4
    <2> QED
      BY <1>1, <1>2, <2>1 DEF Windows
  <1>7. \A w \in FindChat(g) : windows[w].group = g
    BY DEF FindChat
  <1> HIDE DEF new
  <1> QED
    BY <1>4, <1>5, <1>6, <1>7 DEF Rewrites

\* Shape says nothing of what an event writes.
LEMMA EventKeepsShape ==
  ASSUME TypeOK, Shape, NEW g, NEW written, Rewrites(written), Deliver(g, written),
         UNCHANGED <<login, online>>, Groups' = Groups, Len(groups') = Len(groups), online
  PROVE  Shape'
  BY Delivered DEF Shape

\* The window of a group of this connection is found, if it is open, and no other.
LEMMA FoundIsCurrent ==
  ASSUME TypeOK, Shape, NEW g, NEW w \in Current
  PROVE  w \in FindChat(g) <=> windows[w].group = g
  <1>1. Windows = 1 .. Len(windows) /\ Len(windows) \in Nat
    BY NumbersOfWindows
  <1>2. w \in Windows /\ windows[w].open /\ windows[w].login = login
    BY DEF Current
  <1>3. ASSUME NEW v \in w + 1 .. Len(windows), windows[v].group = windows[w].group
        PROVE  FALSE
    <2>1. v \in Windows /\ w < v
      BY <1>1, <1>2
    <2>2. windows[v].login \in Nat /\ login \in Nat
      BY <2>1, NumbersOfWindows
    <2>3. windows[v].login = windows[w].login
      BY <1>2, <2>1, <2>2 DEF Shape
    <2> QED
      BY <1>2, <1>3, <2>1, <2>3 DEF Shape
  <1> QED
    BY <1>2, <1>3 DEF FindChat

\* A window of an earlier connection is found only where a later one was closed.
LEMMA FoundStray ==
  ASSUME TypeOK, Shape, NEW g \in Groups, NEW w \in FindChat(g), windows[w].login # login
  PROVE  \E v \in w + 1 .. Len(windows) :
           /\ windows[v].group = windows[w].group /\ windows[v].login > windows[w].login
           /\ ~windows[v].open
  <1>1. Windows = 1 .. Len(windows) /\ Len(windows) \in Nat
    BY NumbersOfWindows
  <1>2. w \in Windows /\ windows[w].group = g
    BY DEF FindChat
  <1>3. PICK v \in Windows : windows[v].login = login /\ windows[v].group = g
    BY DEF Shape
  <1>4. windows[w].login \in Nat /\ login \in Nat
    BY <1>2, NumbersOfWindows
  <1>5. windows[w].login < login
    BY <1>2, <1>4 DEF Shape
  <1>6. v \in w + 1 .. Len(windows)
    <2>1. ~(v < w) /\ v # w
      BY <1>2, <1>3, <1>4, <1>5 DEF Shape
    <2> QED
      BY <1>1, <1>2, <1>3, <2>1
  <1>7. ~windows[v].open
    BY <1>3, <1>6 DEF FindChat
  <1> QED
    BY <1>2, <1>3, <1>5, <1>6, <1>7

\* A stray window stays behind a later, closed one.
LEMMA EventKeepsStray ==
  ASSUME TypeOK, Shape, StrayNeedsClosing,
         NEW g \in Groups, NEW written, Rewrites(written), Deliver(g, written)
  PROVE  StrayNeedsClosing'
  <1> SUFFICES ASSUME NEW w \in Windows', windows'[w].stray
               PROVE  \E v \in w + 1 .. Len(windows') :
                        /\ windows'[v].group = windows'[w].group
                        /\ windows'[v].login > windows'[w].login
                        /\ ~windows'[v].open
    BY DEF StrayNeedsClosing
  <1>1. Windows = 1 .. Len(windows) /\ Len(windows) \in Nat
    BY NumbersOfWindows
  <1>2. w \in Windows /\ Len(windows') = Len(windows)
    BY Delivered
  <1>3. windows[w].stray \/ (w \in FindChat(g) /\ windows[w].login # login)
    BY <1>2, Delivered
  <1>4. PICK v \in w + 1 .. Len(windows) :
          /\ windows[v].group = windows[w].group /\ windows[v].login > windows[w].login
          /\ ~windows[v].open
    BY <1>2, <1>3, FoundStray DEF StrayNeedsClosing
  <1>5. v \in Windows
    BY <1>1, <1>2
  <1> QED
    BY <1>2, <1>4, <1>5, Delivered

\* The title of a current window follows its group's.
LEMMA EventKeepsTitle ==
  ASSUME TypeOK, Shape, TitleIsTheGroups, UNCHANGED <<login, online>>,
         NEW g \in Groups, NEW written, Rewrites(written), Deliver(g, written),
         \A h \in Groups \ {g} : groups'[h].title = groups[h].title,
         \A w \in Current : windows[w].group = g => written[w].title = groups'[g].title
  PROVE  TitleIsTheGroups'
  <1> SUFFICES ASSUME NEW w \in Current'
               PROVE  windows'[w].title = groups'[windows'[w].group].title
    BY DEF TitleIsTheGroups
  <1>1. w \in Current /\ w \in Windows
    BY Delivered DEF Current
  <1>2. windows'[w].group = windows[w].group /\ windows[w].group \in Groups
    BY <1>1, Delivered DEF Current, Shape
  <1>3. CASE windows[w].group = g
    BY <1>1, <1>2, <1>3, FoundIsCurrent, Delivered
  <1>4. CASE windows[w].group # g
    <2>1. windows'[w] = windows[w]
      BY <1>1, <1>4, FoundIsCurrent, Delivered
    <2> QED
      BY <1>1, <1>2, <1>4, <2>1 DEF TitleIsTheGroups
  <1> QED
    BY <1>3, <1>4

-----------------------------------------------------------------------------
(* Steps *)

\* An event that leaves the windows' number and the groups' number alone.
LEMMA EventStep ==
  ASSUME GInv, Running, UNCHANGED <<login, online, dialogs>>,
         NEW g \in Groups, NEW written, Rewrites(written), Deliver(g, written),
         groups' \in Seq(Group), Len(groups') = Len(groups), fault' = fault,
         \A h \in Groups \ {g} : groups'[h].title = groups[h].title,
         \A w \in Current : windows[w].group = g => written[w].title = groups'[g].title
  PROVE  GInv'
  <1> USE DEF GInv
  <1>1. online
    BY DEF Running
  <1>2. Groups' = Groups
    BY NumbersOfWindows DEF Groups
  <1>3. TypeOK'
    BY Delivered DEF TypeOK
  <1>4. Shape'
    BY <1>1, <1>2, EventKeepsShape
  <1>5. TitleIsTheGroups' /\ StrayNeedsClosing'
    BY EventKeepsTitle, EventKeepsStray
  <1> QED
    BY <1>3, <1>4, <1>5

\* What the plugin does to a member list keeps its type.
LEMMA AddedType ==
  ASSUME NEW members \in Seq(Names), NEW n \in Names
  PROVE  /\ GroupBuddyAdd(members, n) \in Seq(Names)
         /\ Len(GroupBuddyAdd(members, n)) = Len(members) + 1
  BY DEF GroupBuddyAdd

LEMMA DeletedType ==
  ASSUME NEW members \in Seq(Names), NEW n
  PROVE  /\ GroupBuddyDel(members, n) \in Seq(Names)
         /\ Len(GroupBuddyDel(members, n)) >= Len(members) - 1
  <1>2. CASE \E i \in DOMAIN members : members[i] = n
    <2> DEFINE i == CHOOSE i \in DOMAIN members : members[i] = n
    <2>1. i \in 1 .. Len(members)
      BY <1>2
    <2>2. GroupBuddyDel(members, n) = RemoveAt(members, i)
      BY <1>2 DEF GroupBuddyDel
    <2> HIDE DEF i
    <2>3. /\ SubSeq(members, 1, i - 1) \in Seq(Names)
          /\ Len(SubSeq(members, 1, i - 1)) = i - 1
          /\ SubSeq(members, i + 1, Len(members)) \in Seq(Names)
          /\ Len(SubSeq(members, i + 1, Len(members))) = Len(members) - i
      BY <2>1
    <2>4. /\ RemoveAt(members, i) \in Seq(Names)
          /\ Len(RemoveAt(members, i)) = (i - 1) + (Len(members) - i)
      BY <2>3 DEF RemoveAt
    <2> QED
      BY <2>1, <2>2, <2>4
  <1>3. CASE ~(\E i \in DOMAIN members : members[i] = n)
    <2>1. GroupBuddyDel(members, n) = members
      BY <1>3 DEF GroupBuddyDel
    <2> QED
      BY <2>1
  <1> QED
    BY <1>2, <1>3

\* A message writes nothing the model keeps, but may make a window stray.
LEMMA MessageStep ==
  ASSUME GInv, NEW g \in Groups, OnGroupMessage(g)
  PROVE  GInv'
  <1>1. Rewrites(windows)
    BY DEF GInv, TypeOK, Rewrites, Windows
  <1>2. \A w \in Current : windows[w].group = g => windows[w].title = groups[g].title
    BY DEF GInv, TitleIsTheGroups
  <1>3. groups' = groups /\ Deliver(g, windows) /\ Running /\ fault' = fault
        /\ UNCHANGED <<login, online, dialogs>>
    BY DEF OnGroupMessage
  <1>4. groups \in Seq(Group)
    BY DEF GInv, TypeOK
  <1> QED
    BY <1>1, <1>2, <1>3, <1>4, EventStep

\* A new title is written to the group and its window.
LEMMA TitleStep ==
  ASSUME GInv, NEW g \in Groups, NEW t \in Titles, OnGroupChangeTitle(g, t)
  PROVE  GInv'
  <1> DEFINE written == [w \in Windows |-> [windows[w] EXCEPT !.title = t]]
  <1>1. \A w \in Windows : windows[w] \in Window
    BY DEF GInv, TypeOK, Windows
  <1>2. Rewrites(written)
    BY <1>1 DEF Rewrites, Window
  <1>3. \A w \in Windows : written[w].title = t
    BY <1>1 DEF Window
  <1>4. groups' = [groups EXCEPT ![g].title = t] /\ Deliver(g, written)
        /\ Running /\ UNCHANGED <<login, online, dialogs, fault>>
    BY DEF OnGroupChangeTitle
  <1>5. groups \in Seq(Group) /\ \A h \in Groups : groups[h] \in Group
    BY DEF GInv, TypeOK, Groups
  <1>6. groups' \in Seq(Group) /\ Len(groups') = Len(groups)
    BY <1>4, <1>5 DEF Group, Groups
  <1>7. groups'[g].title = t /\ \A h \in Groups \ {g} : groups'[h].title = groups[h].title
    BY <1>4, <1>5 DEF Group, Groups
  <1>8. \A w \in Current : written[w].title = groups'[g].title
    BY <1>3, <1>7 DEF Current
  <1> HIDE DEF written
  <1> QED
    BY <1>2, <1>4, <1>6, <1>7, <1>8, EventStep

\* Rewriting the members of every window.
LEMMA MembersRewrite ==
  ASSUME TypeOK, NEW ms \in [Windows -> Seq(Names)]
  PROVE  LET written == [w \in Windows |-> [windows[w] EXCEPT !.members = ms[w]]]
         IN /\ Rewrites(written)
            /\ \A w \in Windows :
                 written[w].title = windows[w].title /\ written[w].members = ms[w]
  <1>1. \A w \in Windows : windows[w] \in Window
    BY DEF TypeOK, Windows
  <1> QED
    BY <1>1 DEF Rewrites, Window

\* Rewriting the peers of a group.
LEMMA PeersRewrite ==
  ASSUME TypeOK, NEW g \in Groups, NEW ps \in Seq(Names),
         groups' = [groups EXCEPT ![g].peers = ps]
  PROVE  /\ groups' \in Seq(Group) /\ Len(groups') = Len(groups)
         /\ groups'[g].title = groups[g].title /\ groups'[g].peers = ps
         /\ \A h \in Groups \ {g} : groups'[h] = groups[h]
  <1>1. groups \in Seq(Group) /\ \A h \in Groups : groups[h] \in Group
    BY DEF TypeOK, Groups
  <1> QED
    BY <1>1 DEF Group, Groups

\* The peers and members of the state have their types.
LEMMA PeersAndMembers ==
  ASSUME TypeOK
  PROVE  /\ \A g \in Groups : groups[g].peers \in Seq(Names)
         /\ \A w \in Windows : windows[w].members \in Seq(Names)
  <1>1. \A g \in Groups : groups[g] \in Group
    BY DEF TypeOK, Groups
  <1>2. \A w \in Windows : windows[w] \in Window
    BY DEF TypeOK, Windows
  <1> QED
    BY <1>1, <1>2 DEF Group, Window

\* What is left of the peers are peers.
LEMMA WithoutType ==
  ASSUME NEW ps \in Seq(Names), NEW p \in DOMAIN ps
  PROVE  /\ Without(ps, p) \in Seq(Names) /\ Len(Without(ps, p)) = Len(ps) - 1
         /\ \A i \in 1 .. Len(ps) - 1 :
              Without(ps, p)[i] = IF i = p THEN ps[Len(ps)] ELSE ps[i]
  <1>1. Len(ps) \in Nat /\ Len(ps) > 0 /\ Len(ps) - 1 \in Nat
    OBVIOUS
  <1>2. Last(ps) = ps[Len(ps)] /\ Last(ps) \in Names
    BY <1>1 DEF Last
  <1>3. \A i \in 1 .. Len(ps) - 1 : ps[i] \in Names
    BY <1>1
  <1> QED
    BY <1>1, <1>2, <1>3 DEF Without

\* An event that changes peers and members alone.
LEMMA NamelistStep ==
  ASSUME GInv, Running, UNCHANGED <<login, online, dialogs, fault>>,
         NEW g \in Groups, NEW ps \in Seq(Names), NEW ms \in [Windows -> Seq(Names)],
         groups' = [groups EXCEPT ![g].peers = ps],
         Deliver(g, [w \in Windows |-> [windows[w] EXCEPT !.members = ms[w]]])
  PROVE  GInv'
  <1> DEFINE written == [w \in Windows |-> [windows[w] EXCEPT !.members = ms[w]]]
  <1>1. TypeOK
    BY DEF GInv
  <1>2. Rewrites(written) /\ \A w \in Windows : written[w].title = windows[w].title
    BY <1>1, MembersRewrite
  <1>3. /\ groups' \in Seq(Group) /\ Len(groups') = Len(groups)
        /\ groups'[g].title = groups[g].title
        /\ \A h \in Groups \ {g} : groups'[h].title = groups[h].title
    BY <1>1, PeersRewrite
  <1>4. \A w \in Current : windows[w].group = g => written[w].title = groups'[g].title
    BY <1>2, <1>3 DEF GInv, TitleIsTheGroups, Current
  <1>5. Deliver(g, written)
    OBVIOUS
  <1> HIDE DEF written
  <1> QED
    BY <1>2, <1>3, <1>4, <1>5, EventStep

\* A peer comes.
LEMMA PeerAddStep ==
  ASSUME GInv, NEW g \in Groups, NEW n \in Names, PeerAdd(g, n)
  PROVE  GInv'
  <1> DEFINE ms == [w \in Windows |-> GroupBuddyAdd(windows[w].members, n)]
             ps == Append(groups[g].peers, n)
  <1>1. TypeOK
    BY DEF GInv
  <1>2. ms \in [Windows -> Seq(Names)] /\ ps \in Seq(Names)
    BY <1>1, PeersAndMembers, AddedType
  <1>3. [w \in Windows |-> [windows[w] EXCEPT !.members = GroupBuddyAdd(@, n)]]
          = [w \in Windows |-> [windows[w] EXCEPT !.members = ms[w]]]
    BY <1>1 DEF TypeOK, Windows, Window
  <1>4. groups' = [groups EXCEPT ![g].peers = ps]
    BY <1>1 DEF PeerAdd, TypeOK, Groups, Group
  <1>5. /\ Deliver(g, [w \in Windows |-> [windows[w] EXCEPT !.members = ms[w]]])
        /\ Running /\ UNCHANGED <<login, online, dialogs, fault>>
    BY <1>3 DEF PeerAdd
  <1> HIDE DEF ms, ps
  <1> QED
    BY <1>2, <1>4, <1>5, NamelistStep

\* A peer goes, whatever name is found for it.
LEMMA PeerDelStep ==
  ASSUME GInv, NEW g \in Groups, NEW p \in DOMAIN groups[g].peers, PeerDel(g, p)
  PROVE  GInv'
  <1>1. TypeOK
    BY DEF GInv
  <1>2. groups[g].peers \in Seq(Names)
    BY <1>1, PeersAndMembers
  <1>3. PICK n \in PeerNames(groups[g].peers, p) :
          Deliver(g, [w \in Windows |-> [windows[w] EXCEPT !.members = GroupBuddyDel(@, n)]])
    BY DEF PeerDel
  <1> DEFINE ms == [w \in Windows |-> GroupBuddyDel(windows[w].members, n)]
             ps == Without(groups[g].peers, p)
  <1>5. ms \in [Windows -> Seq(Names)] /\ ps \in Seq(Names)
    BY <1>1, <1>2, PeersAndMembers, DeletedType, WithoutType
  <1>6. [w \in Windows |-> [windows[w] EXCEPT !.members = GroupBuddyDel(@, n)]]
          = [w \in Windows |-> [windows[w] EXCEPT !.members = ms[w]]]
    BY <1>1 DEF TypeOK, Windows, Window
  <1>7. groups' = [groups EXCEPT ![g].peers = ps]
    BY <1>1 DEF PeerDel, TypeOK, Groups, Group
  <1>8. /\ Deliver(g, [w \in Windows |-> [windows[w] EXCEPT !.members = ms[w]]])
        /\ Running /\ UNCHANGED <<login, online, dialogs, fault>>
    BY <1>3, <1>6 DEF PeerDel
  <1> HIDE DEF ms, ps
  <1> QED
    BY <1>5, <1>7, <1>8, NamelistStep

\* A peer takes a name, and there may be a window to fault over.
LEMMA PeerNameStep ==
  ASSUME GInv, NEW g \in Groups, NEW n \in Names, NEW p \in DOMAIN groups[g].peers,
         PeerName(g, p, n)
  PROVE  GInv'
  <1> DEFINE ps == [groups[g].peers EXCEPT ![p] = n]
  <1>1. TypeOK
    BY DEF GInv
  <1>2. ps \in Seq(Names)
    BY <1>1, PeersAndMembers
  <1>3. groups' = [groups EXCEPT ![g].peers = ps]
    BY <1>1 DEF PeerName, TypeOK, Groups, Group
  <1>4. /\ groups' \in Seq(Group) /\ Len(groups') = Len(groups)
        /\ \A h \in Groups : groups'[h].title = groups[h].title
    <2> HIDE DEF ps
    <2> QED
      BY <1>1, <1>2, <1>3, PeersRewrite
  <1>5. UNCHANGED <<login, online, dialogs, windows>> /\ fault' \in {"rename", fault}
    BY DEF PeerName
  <1>6. Windows' = Windows /\ Groups' = Groups /\ Current' = Current
    BY <1>1, <1>4, <1>5 DEF Windows, Groups, Current, TypeOK
  <1>7. TypeOK'
    BY <1>1, <1>4, <1>5 DEF TypeOK
  <1>8. Shape'
    <2>1. Shape /\ online
      BY DEF GInv, PeerName, Running
    <2> QED
      BY <1>4, <1>5, <1>6, <2>1 DEF Shape
  <1>9. TitleIsTheGroups'
    BY <1>4, <1>5, <1>6 DEF GInv, TitleIsTheGroups, Shape, Current
  <1>10. StrayNeedsClosing'
    BY <1>5, <1>6 DEF GInv, StrayNeedsClosing
  <1> QED
    BY <1>7, <1>8, <1>9, <1>10 DEF GInv

\* An answered invitation opens a window on a new group, or nothing.
LEMMA AnswerStep ==
  ASSUME GInv, OnGroupInviteAccepted \/ OnGroupInviteRejected
  PROVE  GInv'
  <1>1. TypeOK /\ Shape
    BY DEF GInv
  <1>2. dialogs' \in 0 .. MaxDialogs /\ fault' \in {"none", "invite"}
        /\ UNCHANGED <<login, online>> /\ online
    BY <1>1, GroupAssumption
    DEF OnGroupInviteAccepted, OnGroupInviteRejected, Dangling, Running, TypeOK
  <1>3. CASE UNCHANGED <<groups, windows>>
    <2>1. TypeOK'
      BY <1>1, <1>2, <1>3 DEF TypeOK
    <2>2. Windows' = Windows /\ Groups' = Groups /\ Current' = Current
      BY <1>2, <1>3 DEF Windows, Groups, Current
    <2>3. Shape'
      BY <1>1, <1>2, <1>3, <2>2 DEF Shape
    <2>4. TitleIsTheGroups' /\ StrayNeedsClosing'
      BY <1>3, <2>2 DEF GInv, TitleIsTheGroups, StrayNeedsClosing
    <2> QED
      BY <2>1, <2>3, <2>4 DEF GInv
  <1>4. CASE Joined /\ Len(windows) < MaxWindows
    <2> DEFINE w0 == Len(windows) + 1
               g0 == Len(groups) + 1
               new == [login |-> login, group |-> g0, members |-> <<>>,
                       title |-> NoTitle, open |-> TRUE, stray |-> FALSE]
    <2>1. groups \in Seq(Group) /\ windows \in Seq(Window)
      BY <1>1 DEF TypeOK
    <2>2. groups' = Append(groups, [peers |-> <<>>, title |-> NoTitle])
      BY <1>4 DEF Joined
    <2>3. /\ groups' \in Seq(Group) /\ Len(groups') = g0
          /\ groups'[g0].title = NoTitle /\ \A g \in Groups : groups'[g] = groups[g]
          /\ Groups' = 1 .. g0
      BY <2>1, <2>2 DEF Group, Groups
    <2>4. windows' = Append(windows, new)
      BY <1>4, <2>3 DEF Joined
    <2>5. login \in 1 .. MaxLogins
      BY <1>1, <1>2, GroupAssumption DEF TypeOK, Shape
    <2>6. g0 \in 1 .. MaxWindows
      BY <1>1, <1>4, GroupAssumption, NumbersOfWindows DEF Shape
    <2>7. new \in Window
      BY <2>5, <2>6 DEF Window
    <2>8. /\ windows' \in Seq(Window) /\ Len(windows') = w0
          /\ windows'[w0] = new /\ \A w \in Windows : windows'[w] = windows[w]
          /\ Windows' = 1 .. w0
      <3> HIDE DEF new
      <3> QED
        BY <2>1, <2>4, <2>7 DEF Windows
    <2>9. windows'[w0].login = login /\ windows'[w0].group = g0
          /\ windows'[w0].title = NoTitle /\ ~windows'[w0].stray
      BY <2>8
    <2> HIDE DEF new
    <2>10. Windows' = Windows \cup {w0} /\ \A w \in Windows : w < w0
      BY <2>8, <1>1, NumbersOfWindows
    <2>11. Groups' = Groups \cup {g0} /\ g0 \notin Groups
      BY <2>3, <1>1, NumbersOfWindows
    <2>12. TypeOK'
      <3>1. Len(windows') <= MaxWindows
        BY <1>1, <1>4, <2>8, NumbersOfWindows, GroupAssumption
      <3> QED
        BY <1>1, <1>2, <2>3, <2>8, <3>1 DEF TypeOK
    <2>13. Shape'
      <3>1. Len(groups') <= Len(windows')
        BY <1>1, <2>3, <2>8, NumbersOfWindows DEF Shape
      <3>2. \A w \in Windows : windows[w].login = login => windows[w].group # g0
        BY <1>1, <1>2, <2>11 DEF Shape
      <3>3. \A v, w \in Windows' : v < w =>
              /\ windows'[v].login <= windows'[w].login
              /\ windows'[v].login = windows'[w].login => windows'[v].group # windows'[w].group
        <4> SUFFICES ASSUME NEW v \in Windows', NEW w \in Windows', v < w
                     PROVE  /\ windows'[v].login <= windows'[w].login
                            /\ windows'[v].login = windows'[w].login
                                 => windows'[v].group # windows'[w].group
          OBVIOUS
        <4>1. v \in Windows
          BY <1>1, <2>8, <2>10, NumbersOfWindows
        <4>2. CASE w \in Windows
          BY <1>1, <2>8, <4>1, <4>2 DEF Shape
        <4>3. CASE w = w0
          BY <1>1, <2>8, <2>9, <3>2, <4>1, <4>3 DEF Shape
        <4> QED
          BY <2>10, <4>2, <4>3
      <3>4. \A w \in Windows' : windows'[w].login <= login'
        BY <1>1, <1>2, <2>8, <2>9, <2>10, NumbersOfWindows DEF Shape
      <3>5. \A g \in Groups' : \E w \in Windows' :
              windows'[w].login = login' /\ windows'[w].group = g
        <4> SUFFICES ASSUME NEW g \in Groups'
                     PROVE  \E w \in Windows' : windows'[w].login = login' /\ windows'[w].group = g
          OBVIOUS
        <4>1. CASE g = g0
          BY <1>2, <2>9, <2>10, <4>1
        <4>2. CASE g \in Groups
          <5>1. PICK w \in Windows : windows[w].login = login /\ windows[w].group = g
            BY <1>1, <4>2 DEF Shape
          <5> QED
            BY <1>2, <2>8, <2>10, <5>1
        <4> QED
          BY <2>11, <4>1, <4>2
      <3>6. \A w \in Windows' : windows'[w].login = login' => windows'[w].group \in Groups'
        BY <1>1, <1>2, <2>8, <2>9, <2>10, <2>11 DEF Shape
      <3> QED
        BY <1>1, <1>2, <3>1, <3>3, <3>4, <3>5, <3>6 DEF Shape
    <2>14. TitleIsTheGroups'
      <3> SUFFICES ASSUME NEW w \in Current'
                   PROVE  windows'[w].title = groups'[windows'[w].group].title
        BY DEF TitleIsTheGroups
      <3>1. CASE w = w0
        BY <2>3, <2>9, <3>1
      <3>2. CASE w \in Windows
        <4>1. w \in Current /\ windows[w].group \in Groups
          BY <1>1, <1>2, <2>8, <3>2 DEF Current, Shape
        <4> QED
          BY <2>3, <2>8, <3>2, <4>1 DEF GInv, TitleIsTheGroups
      <3> QED
        BY <2>10, <3>1, <3>2 DEF Current
    <2>15. StrayNeedsClosing'
      <3> SUFFICES ASSUME NEW w \in Windows', windows'[w].stray
                   PROVE  \E v \in w + 1 .. Len(windows') :
                            /\ windows'[v].group = windows'[w].group
                            /\ windows'[v].login > windows'[w].login
                            /\ ~windows'[v].open
        BY DEF StrayNeedsClosing
      <3>1. w \in Windows /\ windows[w].stray
        BY <2>8, <2>9, <2>10
      <3>2. PICK v \in w + 1 .. Len(windows) :
              /\ windows[v].group = windows[w].group /\ windows[v].login > windows[w].login
              /\ ~windows[v].open
        BY <3>1 DEF GInv, StrayNeedsClosing
      <3>3. v \in Windows /\ v \in w + 1 .. Len(windows')
        BY <1>1, <2>8, <3>1, NumbersOfWindows
      <3> QED
        BY <2>8, <3>1, <3>2, <3>3
    <2> QED
      BY <2>12, <2>13, <2>14, <2>15 DEF GInv
  <1> QED
    BY <1>3, <1>4 DEF OnGroupInviteAccepted, OnGroupInviteRejected, Refused

\* A window is closed.
LEMMA CloseStep ==
  ASSUME GInv, NEW c \in Windows, CloseWindow(c)
  PROVE  GInv'
  <1>1. TypeOK /\ Shape
    BY DEF GInv
  <1>2. windows' = [windows EXCEPT ![c].open = FALSE]
        /\ UNCHANGED <<login, online, dialogs, groups, fault>>
    BY DEF CloseWindow
  <1>3. \A w \in Windows : windows[w] \in Window
    BY <1>1 DEF TypeOK, Windows
  <1>4. windows' \in Seq(Window) /\ Windows' = Windows /\ Len(windows') = Len(windows)
    <2> DEFINE closed == [windows[c] EXCEPT !.open = FALSE]
    <2>1. closed \in Window
      BY <1>3 DEF Window
    <2>2. windows' = [windows EXCEPT ![c] = closed] /\ windows \in Seq(Window)
      BY <1>1, <1>2 DEF TypeOK
    <2> HIDE DEF closed
    <2> QED
      BY <2>1, <2>2 DEF Windows
  <1>5. \A w \in Windows :
          /\ windows'[w].login = windows[w].login /\ windows'[w].group = windows[w].group
          /\ windows'[w].title = windows[w].title /\ windows'[w].stray = windows[w].stray
          /\ windows'[w].open => windows[w].open
    BY <1>2, <1>3 DEF Window, Windows
  <1>6. TypeOK'
    BY <1>1, <1>2, <1>4 DEF TypeOK
  <1>7. Groups' = Groups
    BY <1>2 DEF Groups
  <1>8. Shape'
    BY <1>1, <1>2, <1>4, <1>5, <1>7 DEF Shape
  <1>9. TitleIsTheGroups'
    BY <1>2, <1>4, <1>5 DEF GInv, TitleIsTheGroups, Current
  <1>10. StrayNeedsClosing'
    <2> SUFFICES ASSUME NEW w \in Windows', windows'[w].stray
                 PROVE  \E v \in w + 1 .. Len(windows') :
                          /\ windows'[v].group = windows'[w].group
                          /\ windows'[v].login > windows'[w].login
                          /\ ~windows'[v].open
      BY DEF StrayNeedsClosing
    <2>1. PICK v \in w + 1 .. Len(windows) :
            /\ windows[v].group = windows[w].group /\ windows[v].login > windows[w].login
            /\ ~windows[v].open
      BY <1>4, <1>5 DEF GInv, StrayNeedsClosing
    <2>2. v \in Windows
      BY <1>1, <1>4, <2>1, NumbersOfWindows
    <2> QED
      BY <1>4, <1>5, <2>1, <2>2
  <1> QED
    BY <1>6, <1>8, <1>9, <1>10 DEF GInv

\* A connection begins or ends, without a group.
LEMMA ConnectionStep ==
  ASSUME GInv, LogIn \/ LogOut
  PROVE  GInv'
  <1>1. TypeOK /\ Shape
    BY DEF GInv
  <1>2. windows' = windows /\ groups' = <<>> /\ fault' = fault /\ dialogs' \in {0, dialogs}
        /\ online' \in BOOLEAN
    BY <1>1 DEF LogIn, LogOut, Shape
  <1>3. CASE LogIn
    <2>1. login' = login + 1 /\ login' \in 0 .. MaxLogins /\ login' # 0
      BY <1>1, <1>3, GroupAssumption, NumbersOfWindows DEF LogIn, TypeOK
    <2>2. TypeOK'
      BY <1>1, <1>2, <2>1, GroupAssumption DEF TypeOK
    <2>3. \A w \in Windows : windows[w].login <= login' /\ windows[w].login # login'
      BY <1>1, <2>1, NumbersOfWindows DEF Shape
    <2>4. Shape'
      <3>1. Windows' = Windows /\ Groups' = {} /\ Len(groups') = 0
        BY <1>2 DEF Windows, Groups
      <3> QED
        BY <1>1, <1>2, <2>1, <2>3, <3>1, NumbersOfWindows DEF Shape
    <2>5. Current' = {}
      BY <1>2, <2>3 DEF Current, Windows
    <2>6. TitleIsTheGroups' /\ StrayNeedsClosing'
      BY <1>2, <2>5 DEF GInv, TitleIsTheGroups, StrayNeedsClosing, Windows
    <2> QED
      BY <2>2, <2>4, <2>6 DEF GInv
  <1>4. CASE LogOut
    <2>1. login' = login /\ ~online'
      BY <1>4 DEF LogOut
    <2>2. TypeOK'
      BY <1>1, <1>2, <2>1, GroupAssumption DEF TypeOK
    <2>3. Shape'
      <3>1. Windows' = Windows /\ Groups' = {} /\ Len(groups') = 0
        BY <1>2 DEF Windows, Groups
      <3> QED
        BY <1>1, <1>2, <2>1, <3>1, NumbersOfWindows DEF Shape
    <2>4. TitleIsTheGroups' /\ StrayNeedsClosing'
      BY <1>2, <2>1 DEF GInv, TitleIsTheGroups, StrayNeedsClosing, Current, Windows
    <2> QED
      BY <2>2, <2>3, <2>4 DEF GInv
  <1> QED
    BY <1>3, <1>4

\* Nothing moves, or an invitation waits.
LEMMA StillStep ==
  ASSUME GInv, (\E t : OnGroupInvite(t)) \/ UNCHANGED groupVars
  PROVE  GInv'
  <1>1. UNCHANGED <<login, online, groups, windows, fault>>
    BY DEF OnGroupInvite, groupVars
  <1>2. dialogs' \in 0 .. MaxDialogs
    BY GroupAssumption DEF OnGroupInvite, groupVars, GInv, TypeOK
  <1>3. TypeOK'
    BY <1>1, <1>2 DEF GInv, TypeOK
  <1>4. Windows' = Windows /\ Groups' = Groups /\ Current' = Current
    BY <1>1 DEF Windows, Groups, Current
  <1>5. Shape' /\ TitleIsTheGroups' /\ StrayNeedsClosing'
    BY <1>1, <1>4 DEF GInv, Shape, TitleIsTheGroups, StrayNeedsClosing
  <1> QED
    BY <1>3, <1>5 DEF GInv

-----------------------------------------------------------------------------
(* Theorems *)

\* The inductive invariant holds in every reachable state, in whatever order libtox
\* reports (tox/group_chat.c:35-259).
THEOREM GroupInvariance == Spec => []GInv
  <1>1. Init => GInv
    <2> SUFFICES ASSUME Init PROVE GInv
      OBVIOUS
    <2>1. Windows = {} /\ Groups = {} /\ Len(windows) = 0 /\ Len(groups) = 0
      BY DEF Init, Windows, Groups
    <2>2. TypeOK
      <3>1. 0 \in 0 .. MaxLogins /\ 0 \in 0 .. MaxDialogs /\ 0 <= MaxWindows
        BY GroupAssumption
      <3>2. <<>> \in Seq(Group) /\ <<>> \in Seq(Window)
        OBVIOUS
      <3> QED
        BY <2>1, <3>1, <3>2 DEF Init, TypeOK
    <2>3. Shape /\ TitleIsTheGroups /\ StrayNeedsClosing
      BY <2>1 DEF Init, Shape, TitleIsTheGroups, StrayNeedsClosing, Current
    <2> QED
      BY <2>2, <2>3 DEF GInv
  <1>2. GInv /\ [Next]_groupVars => GInv'
    BY ConnectionStep, StillStep, AnswerStep, CloseStep, MessageStep, TitleStep,
      PeerAddStep, PeerDelStep, PeerNameStep DEF Next
  <1> QED
    BY <1>1, <1>2, PTL DEF Spec

\* The type of the state of group chats.
THEOREM GroupsTyped == Spec => []TypeOK
  <1>1. GInv => TypeOK
    BY DEF GInv
  <1> QED
    BY <1>1, GroupInvariance, PTL

\* An open window misses no change of its group's title, whatever windows of the same
\* number earlier connections left (tox/group_chat.c:163-180).
THEOREM TitlesFollow == Spec => []TitleIsTheGroups
  <1>1. GInv => TitleIsTheGroups
    BY DEF GInv
  <1> QED
    BY <1>1, GroupInvariance, PTL

\* A window shows another group only after that group's window was closed in a later
\* connection (tox/group_chat.c:126, 168, 240).
THEOREM StrayOnlyAfterClosing == Spec => []StrayNeedsClosing
  <1>1. GInv => StrayNeedsClosing
    BY DEF GInv
  <1> QED
    BY <1>1, GroupInvariance, PTL

-----------------------------------------------------------------------------
(* Members: a list is at least as long as its group                        *)

\* An event that writes enough members to the window of its group.
LEMMA EventKeepsMembers ==
  ASSUME GInv, NobodyUncounted, UNCHANGED <<login, online>>,
         NEW g \in Groups, NEW written, Rewrites(written), Deliver(g, written),
         \A h \in Groups \ {g} : groups'[h].peers = groups[h].peers,
         \A w \in Current : windows[w].group = g =>
           Len(written[w].members) >= Len(groups'[g].peers)
  PROVE  NobodyUncounted'
  <1>1. TypeOK /\ Shape
    BY DEF GInv
  <1> SUFFICES ASSUME NEW w \in Current'
               PROVE  Len(windows'[w].members) >= Len(groups'[windows'[w].group].peers)
    BY DEF NobodyUncounted
  <1>2. w \in Current /\ w \in Windows
    BY <1>1, Delivered DEF Current
  <1>3. windows'[w].group = windows[w].group /\ windows[w].group \in Groups
    BY <1>1, <1>2, Delivered DEF Current, Shape
  <1>4. CASE windows[w].group = g
    BY <1>1, <1>2, <1>3, <1>4, FoundIsCurrent, Delivered
  <1>5. CASE windows[w].group # g
    <2>1. windows'[w] = windows[w]
      BY <1>1, <1>2, <1>5, FoundIsCurrent, Delivered
    <2> QED
      BY <1>2, <1>3, <1>5, <2>1 DEF NobodyUncounted
  <1> QED
    BY <1>4, <1>5

\* Messages and titles write no members.
LEMMA TalkKeepsMembers ==
  ASSUME GInv, NobodyUncounted, NEW g \in Groups,
         OnGroupMessage(g) \/ \E t \in Titles : OnGroupChangeTitle(g, t)
  PROVE  NobodyUncounted'
  <1>1. TypeOK /\ \A w \in Windows : windows[w] \in Window
    BY DEF GInv, TypeOK, Windows
  <1>2. \A h \in Groups : groups[h] \in Group
    BY <1>1 DEF TypeOK, Groups
  <1>3. \A w \in Current : w \in Windows /\ Len(windows[w].members) >= Len(groups[windows[w].group].peers)
    BY DEF Current, NobodyUncounted
  <1>4. CASE OnGroupMessage(g)
    <2>1. Rewrites(windows)
      BY <1>1 DEF TypeOK, Rewrites, Windows
    <2>2. UNCHANGED <<login, online, groups>> /\ Deliver(g, windows)
      BY <1>4 DEF OnGroupMessage
    <2> QED
      BY <1>3, <2>1, <2>2, EventKeepsMembers DEF NobodyUncounted
  <1>5. ASSUME NEW t \in Titles, OnGroupChangeTitle(g, t)
        PROVE  NobodyUncounted'
    <2> DEFINE written == [w \in Windows |-> [windows[w] EXCEPT !.title = t]]
    <2>1. Rewrites(written) /\ \A w \in Windows : written[w].members = windows[w].members
      BY <1>1 DEF Rewrites, Window
    <2>2. UNCHANGED <<login, online>> /\ Deliver(g, written)
          /\ groups' = [groups EXCEPT ![g].title = t]
      BY <1>5 DEF OnGroupChangeTitle
    <2>3. \A h \in Groups : groups'[h].peers = groups[h].peers
      BY <1>1, <1>2, <2>2 DEF TypeOK, Groups, Group
    <2> HIDE DEF written
    <2> QED
      BY <1>3, <2>1, <2>2, <2>3, EventKeepsMembers DEF NobodyUncounted
  <1> QED
    BY <1>4, <1>5

\* A namelist event that sets the group's peers and every window's members.
LEMMA NamelistKeepsMembers ==
  ASSUME GInv, NobodyUncounted, UNCHANGED <<login, online>>,
         NEW g \in Groups, NEW ps \in Seq(Names), NEW ms \in [Windows -> Seq(Names)],
         groups' = [groups EXCEPT ![g].peers = ps],
         Deliver(g, [w \in Windows |-> [windows[w] EXCEPT !.members = ms[w]]]),
         \A w \in Current : windows[w].group = g =>
           Len(ms[w]) >= Len(ps)
  PROVE  NobodyUncounted'
  <1> DEFINE written == [w \in Windows |-> [windows[w] EXCEPT !.members = ms[w]]]
  <1>1. TypeOK
    BY DEF GInv
  <1>2. Rewrites(written) /\ \A w \in Windows : written[w].members = ms[w]
    BY <1>1, MembersRewrite
  <1>3. groups'[g].peers = ps /\ \A h \in Groups \ {g} : groups'[h].peers = groups[h].peers
    BY <1>1, PeersRewrite
  <1>4. Deliver(g, written) /\ \A w \in Current : w \in Windows
    BY DEF Current
  <1> HIDE DEF written
  <1> QED
    BY <1>2, <1>3, <1>4, EventKeepsMembers

\* A peer comes.
LEMMA PeerAddKeepsMembers ==
  ASSUME GInv, NobodyUncounted, NEW g \in Groups, NEW m \in Names, PeerAdd(g, m)
  PROVE  NobodyUncounted'
  <1> DEFINE ms == [w \in Windows |-> GroupBuddyAdd(windows[w].members, m)]
             ps == Append(groups[g].peers, m)
  <1>1. TypeOK
    BY DEF GInv
  <1>2. ms \in [Windows -> Seq(Names)] /\ ps \in Seq(Names)
    BY <1>1, PeersAndMembers, AddedType
  <1>3. [w \in Windows |-> [windows[w] EXCEPT !.members = GroupBuddyAdd(@, m)]]
          = [w \in Windows |-> [windows[w] EXCEPT !.members = ms[w]]]
    BY <1>1 DEF TypeOK, Windows, Window
  <1>4. groups' = [groups EXCEPT ![g].peers = ps]
    BY <1>1 DEF PeerAdd, TypeOK, Groups, Group
  <1>5. /\ Deliver(g, [w \in Windows |-> [windows[w] EXCEPT !.members = ms[w]]])
        /\ UNCHANGED <<login, online>>
    BY <1>3 DEF PeerAdd
  <1>6. ASSUME NEW w \in Current, windows[w].group = g
        PROVE  Len(ms[w]) >= Len(ps)
    <2>1. w \in Windows /\ Len(windows[w].members) >= Len(groups[g].peers)
      BY <1>6 DEF NobodyUncounted, Current
    <2>2. windows[w].members \in Seq(Names) /\ groups[g].peers \in Seq(Names)
      BY <1>1, <2>1, PeersAndMembers
    <2>3. Len(ms[w]) = Len(windows[w].members) + 1
      <3>1. ms[w] = GroupBuddyAdd(windows[w].members, m)
        BY <2>1
      <3> QED
        BY <2>2, <3>1, AddedType
    <2>5. Len(ps) = Len(groups[g].peers) + 1
      BY <2>2
    <2>4. Len(windows[w].members) \in Nat /\ Len(groups[g].peers) \in Nat
      BY <2>2
    <2> QED
      BY <2>1, <2>3, <2>4, <2>5
  <1> HIDE DEF ms, ps
  <1> QED
    BY <1>2, <1>4, <1>5, <1>6, NamelistKeepsMembers

\* A peer goes, and at most one member with it.
LEMMA PeerDelKeepsMembers ==
  ASSUME GInv, NobodyUncounted, NEW g \in Groups, NEW p \in DOMAIN groups[g].peers,
         PeerDel(g, p)
  PROVE  NobodyUncounted'
  <1>1. TypeOK
    BY DEF GInv
  <1>2. groups[g].peers \in Seq(Names)
    BY <1>1, PeersAndMembers
  <1>3. PICK m \in PeerNames(groups[g].peers, p) :
          Deliver(g, [w \in Windows |-> [windows[w] EXCEPT !.members = GroupBuddyDel(@, m)]])
    BY DEF PeerDel
  <1> DEFINE ms == [w \in Windows |-> GroupBuddyDel(windows[w].members, m)]
             ps == Without(groups[g].peers, p)
  <1>4. ms \in [Windows -> Seq(Names)] /\ ps \in Seq(Names)
    BY <1>1, <1>2, PeersAndMembers, DeletedType, WithoutType
  <1>5. [w \in Windows |-> [windows[w] EXCEPT !.members = GroupBuddyDel(@, m)]]
          = [w \in Windows |-> [windows[w] EXCEPT !.members = ms[w]]]
    BY <1>1 DEF TypeOK, Windows, Window
  <1>6. groups' = [groups EXCEPT ![g].peers = ps]
    BY <1>1 DEF PeerDel, TypeOK, Groups, Group
  <1>7. /\ Deliver(g, [w \in Windows |-> [windows[w] EXCEPT !.members = ms[w]]])
        /\ UNCHANGED <<login, online>>
    BY <1>3, <1>5 DEF PeerDel
  <1>8. ASSUME NEW w \in Current, windows[w].group = g
        PROVE  Len(ms[w]) >= Len(ps)
    <2>1. w \in Windows /\ Len(windows[w].members) >= Len(groups[g].peers)
      BY <1>8 DEF NobodyUncounted, Current
    <2>2. windows[w].members \in Seq(Names)
      BY <1>1, <2>1, PeersAndMembers
    <2>3. Len(ms[w]) >= Len(windows[w].members) - 1 /\ Len(ps) = Len(groups[g].peers) - 1
      BY <1>2, <2>1, <2>2, DeletedType, WithoutType
    <2>4. Len(ms[w]) \in Nat /\ Len(windows[w].members) \in Nat /\ Len(groups[g].peers) \in Nat
      BY <1>2, <1>4, <2>1, <2>2
    <2> QED
      BY <2>1, <2>3, <2>4
  <1> HIDE DEF ms, ps
  <1> QED
    BY <1>4, <1>6, <1>7, <1>8, NamelistKeepsMembers

\* A peer renamed stays one peer, and no list is touched.
LEMMA PeerNameKeepsMembers ==
  ASSUME GInv, NobodyUncounted, NEW g \in Groups, NEW n \in Names,
         NEW p \in DOMAIN groups[g].peers, PeerName(g, p, n)
  PROVE  NobodyUncounted'
  <1>1. TypeOK /\ Shape
    BY DEF GInv
  <1>2. UNCHANGED <<login, online, windows>>
    BY DEF PeerName
  <1>3. groups' = [groups EXCEPT ![g].peers[p] = n]
    BY DEF PeerName
  <1>4. groups[g].peers \in Seq(Names)
    BY <1>1, PeersAndMembers
  <1>5. groups[g] \in Group
    BY <1>1 DEF TypeOK, Groups
  <1>6. groups'[g].peers = [groups[g].peers EXCEPT ![p] = n]
    BY <1>1, <1>3, <1>5 DEF TypeOK, Groups, Group
  <1>7. Len(groups'[g].peers) = Len(groups[g].peers)
    BY <1>4, <1>6
  <1>8. \A h \in Groups \ {g} : groups'[h] = groups[h]
    BY <1>1, <1>3 DEF TypeOK, Groups
  <1>9. Current' = Current /\ \A w \in Current : windows[w].group \in Groups
    BY <1>1, <1>2 DEF Current, Windows, Shape
  <1> QED
    BY <1>2, <1>7, <1>8, <1>9 DEF NobodyUncounted

\* A group joined has no peers yet, and its window no members.
LEMMA AnswerKeepsMembers ==
  ASSUME GInv, NobodyUncounted, OnGroupInviteAccepted \/ OnGroupInviteRejected
  PROVE  NobodyUncounted'
  <1>1. TypeOK /\ Shape
    BY DEF GInv
  <1>2. UNCHANGED <<login, online>> /\ online
    BY DEF OnGroupInviteAccepted, OnGroupInviteRejected, Running
  <1>3. CASE UNCHANGED <<groups, windows>>
    <2>1. Current' = Current
      BY <1>2, <1>3 DEF Current, Windows
    <2> QED
      BY <1>3, <2>1 DEF NobodyUncounted
  <1>4. CASE Joined
    <2> DEFINE w0 == Len(windows) + 1
               g0 == Len(groups) + 1
               new == [login |-> login, group |-> g0, members |-> <<>>,
                       title |-> NoTitle, open |-> TRUE, stray |-> FALSE]
    <2>1. groups \in Seq(Group) /\ windows \in Seq(Window)
      BY <1>1 DEF TypeOK
    <2>2. groups' = Append(groups, [peers |-> <<>>, title |-> NoTitle])
      BY <1>4 DEF Joined
    <2>3. groups'[g0].peers = <<>> /\ \A g \in Groups : groups'[g] = groups[g]
      BY <2>1, <2>2 DEF Groups
    <2>4. windows' = Append(windows, new)
      <3>1. Len(groups') = g0
        BY <2>1, <2>2
      <3> QED
        BY <1>4, <3>1 DEF Joined
    <2>5. Windows' = Windows \cup {w0} /\ windows'[w0] = new
          /\ \A w \in Windows : windows'[w] = windows[w]
      <3> HIDE DEF new
      <3> QED
        BY <2>1, <2>4 DEF Windows
    <2>6. windows'[w0].group = g0 /\ windows'[w0].members = <<>>
      BY <2>5
    <2> HIDE DEF new
    <2>7. Len(<<>>) >= Len(<<>>)
      OBVIOUS
    <2> SUFFICES ASSUME NEW w \in Current'
                 PROVE  Len(windows'[w].members) >= Len(groups'[windows'[w].group].peers)
      BY DEF NobodyUncounted
    <2>8. CASE w = w0
      BY <2>3, <2>6, <2>7, <2>8
    <2>9. CASE w \in Windows
      <3>1. w \in Current /\ windows[w].group \in Groups
        BY <1>1, <1>2, <2>5, <2>9 DEF Current, Shape
      <3> QED
        BY <2>3, <2>5, <2>9, <3>1 DEF NobodyUncounted
    <2> QED
      BY <2>5, <2>8, <2>9 DEF Current
  <1> QED
    BY <1>3, <1>4 DEF OnGroupInviteAccepted, OnGroupInviteRejected, Refused

\* The other steps close windows, or connections, or neither.
LEMMA OthersKeepMembers ==
  ASSUME GInv, NobodyUncounted,
         \/ \E c \in Windows : CloseWindow(c)
         \/ LogIn \/ LogOut \/ (\E t : OnGroupInvite(t)) \/ UNCHANGED groupVars
  PROVE  NobodyUncounted'
  <1>1. TypeOK /\ Shape
    BY DEF GInv
  <1>2. ASSUME NEW c \in Windows, CloseWindow(c)
        PROVE  NobodyUncounted'
    <2>1. windows' = [windows EXCEPT ![c].open = FALSE] /\ UNCHANGED <<login, online, groups>>
      BY <1>2 DEF CloseWindow
    <2>2. \A w \in Windows : windows[w] \in Window
      BY <1>1 DEF TypeOK, Windows
    <2>3. Windows' = Windows
          /\ \A w \in Windows :
               /\ windows'[w].login = windows[w].login /\ windows'[w].group = windows[w].group
               /\ windows'[w].members = windows[w].members
               /\ windows'[w].open => windows[w].open
      BY <1>1, <2>1, <2>2 DEF TypeOK, Windows, Window
    <2> QED
      BY <2>1, <2>3 DEF NobodyUncounted, Current
  <1>3. CASE LogIn
    <2>1. login' = login + 1 /\ windows' = windows
      BY <1>3 DEF LogIn
    <2>2. \A w \in Windows : windows[w].login # login'
      BY <1>1, <2>1, NumbersOfWindows DEF Shape
    <2> QED
      BY <2>1, <2>2 DEF NobodyUncounted, Current, Windows
  <1>4. CASE LogOut
    BY <1>4 DEF LogOut, NobodyUncounted, Current
  <1>5. CASE (\E t : OnGroupInvite(t)) \/ UNCHANGED groupVars
    <2>1. UNCHANGED <<login, online, groups, windows>>
      BY <1>5 DEF OnGroupInvite, groupVars
    <2>2. Current' = Current
      BY <2>1 DEF Current, Windows
    <2> QED
      BY <2>1, <2>2 DEF NobodyUncounted
  <1> QED
    BY <1>2, <1>3, <1>4, <1>5

\* A window that is open lists no fewer people than its group has peers, in every
\* reachable state (tox/group_chat.c:184-210, 235-253), although libtox renumbers the
\* peers before it reports that one has left.
THEOREM ListsCoverPeers == Spec => []NobodyUncounted
  <1>1. Init => NobodyUncounted
    BY DEF Init, NobodyUncounted, Current
  <1>2. ASSUME GInv, NobodyUncounted, [Next]_groupVars
        PROVE  NobodyUncounted'
    BY <1>2, TalkKeepsMembers, PeerAddKeepsMembers, PeerDelKeepsMembers,
      PeerNameKeepsMembers, AnswerKeepsMembers, OthersKeepMembers DEF Next
  <1> QED
    BY <1>1, <1>2, GroupInvariance, PTL DEF Spec
=============================================================================
