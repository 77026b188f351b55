# tox-prpl, specified and verified

tox-prpl is a protocol plugin for libpurple (Pidgin): libpurple calls the
operations of `PurplePluginProtocolInfo`, libtox calls back for what the network
brings, and the plugin keeps the two in step. This directory holds TLA+ modules
for the parts of the plugin that keep state, TLC configurations that check them
on small instances, and proofs for TLAPS that hold for every instance.

Paths below are relative to the repository's own `src/` unless they begin with
`include/` or name a file of the top directory.

## 1. Inventory

Everything runs on libpurple's single main loop. Concurrency is not between
threads but between *callbacks*: a dialog that is answered minutes later, a
timer, an idle source, and an event of libtox, each holding numbers and pointers
it took from a state that has since moved on.

| Component | State it keeps | Operations | Interaction | Status |
|---|---|---|---|---|
| Friend system (`purple/buddy.c`, `tox/buddy.c`, `purple/account.c`, the login in `toxprpl.c`) | libtox's friend list; the account string `messenger`; the buddy list with the friend number cached in each buddy; open request dialogs | login and setup, add, remove, friend request, accept, reject, logout | called by libpurple and libtox; the same fact lives in three places with three lifetimes | modelled: `Roster`, `FriendBook` |
| File transfers (`purple/xfers.c`, `tox/xfers.c`, `common/xfers.c`) | the `PurpleXfer` and its data; libtox's file ports; the records of idle callbacks | send, choose, accept, deny, cancel, complete; request, control and data events; the idle callback | three parties end transfers independently | modelled: `Xfers`, `FileDelivery` |
| Session (`toxprpl.c`, `purple/account.c`) | the connection's state; the account string; dialogs; instances; timers; `plugin->connected` | login, setup, import, export, save, status timer, logout | the login is also the callback of dialogs, so it can run many times | modelled: `Session` |
| Own name and status (`purple/account.c`, `toxprpl.c`, `purple/commands.c`) | the nickname in the account settings, in the connection and in the instance; the status in libpurple and in the instance | dialog and `/nick`, choice of a status, login, the status timer | an instance loads an older name and status with the account data | modelled: `Account`, on top of `Session` |
| Presence of friends (`util.c`, `tox/buddy.c`, `purple/buddy.c`) | libpurple's status and alias of each buddy | two status events, name event, query | two events and several queries write one status | status modelled: `Contacts`, on top of `Roster`; aliases not |
| Messages and typing (`purple/chat.c`, `tox/chat.c`) | none of its own | send, receive, typing in both directions | goes out by the number the friend system cached, comes in by key | modelled: `Contacts` |
| Group chat (`tox/group_chat.c`, `common/group_chat.c`) | invitation dialogs; the chat windows with title and member list | invite, accept, reject, message, action, title, name-list changes | windows outlive connections; groups and peers are numbered by libtox | modelled: `GroupChat` |
| Conversions and status tables (`util.c`) | none | hexadecimal in both directions, status by id | used by all | modelled: `Util`, `Contacts!StatusType`, `Account!StatusTypeById` |
| `/myid` and the ID dialog, preferences, plugin tables, build files, installer | none | - | - | not modelled: no state |

What makes each of the parts right:

- **Friend system**: no friend is lost, by a crash or by the removal of another;
  every friend is on the buddy list; a buddy's number is that friend's number.
- **File transfers**: no callback follows a pointer to what is gone; an event
  reaches the transfer it is about; what is called complete has been counted, and
  what we send has passed in whole; what is over stays over; a callback whose
  transfer has ended goes.
- **Session**: one instance and its timers per connection, none left after it; a
  login that always waits for something and for one thing only; the identity in
  the account string is never replaced.
- **Own name and status**: one name for the user and his friends, replaced by
  nobody but the user; the account setting runs ahead of it only by an edit; the
  status friends see is the one chosen last.
- **Presence**: whoever is shown on line is connected, whoever is connected is not
  shown off line, and who has told a status is shown with it, whatever order the
  events and queries come in.
- **Messages**: what is typed to a name reaches the friend of that name.
- **Group chat**: the member list has everybody who is there and the title follows
  the group; an event goes to a window of another group only where the window of its
  own was closed.
- **Conversions**: they stay in their buffers, and a buddy's name is the text of
  its key.

Hard behaviours, each with its line, are listed in `PROJECT.json` under
"hazards", with the properties that cover them or the reason none does yet.

## 2. Modules and how they correspond to the code

`PROJECT.json` maps every definition to its lines. The modules follow the same
plan: one action is one whole run of a handler on the main loop, with the saves
and synchronisations it ends with.

**`FriendBook`** is abstract: a set of friends (`book`), a set of names
(`listed`) and whether a session runs. It says what the user may rely on:
friends change only when one is made, a listed buddy is dropped, or data is
imported into an account that has no friends; going offline changes nothing.

**`Roster`** is the friend system. `friends` is libtox's list, by slot;
`saved`/`account` what the account string holds; `blist` the buddy list, per key
and group, with the number each buddy caches (`NoData` when its protocol data
is NULL, `NoFriend` for -1). `ConfigureToxAndConnect` loads, renumbers and runs
`SynchronizeBuddyList`; `AddBuddy`, `RemoveBuddy` and `AcceptFriendRequest` end
with `SaveAccount` as their handlers do; `DHTConnected` queries every buddy.
`Roster!FriendBookSpec` is the refinement: `online <- phase # "off"`,
`book <- saved`, `listed <- Names(blist)`.

**`Xfers`** is file transfer. `xf` holds the `PurpleXfer` objects with their
reference count, libpurple's counters and the plugin's `ToxPRPL_XferData`;
`port` is libtox's side, `idles` the records of the idle callbacks, `fault` the
memory error the process has met. A pointer that is followed after its object is
gone leads to `fault`, so `MemorySafe` says that no order of user, friend and
idle callback leads there. `FindXfer` is `ToxPRPL_findXfer`: the newest transfer
with that friend number and file number, whatever its direction. `OnFinished` ends
a transfer whenever the friend says so, as `tox/xfers.c:20-23` does: after any number
of pieces and, with `Early`, before the user has answered. `Start` is what an ACCEPT
comes to: libpurple sets the status of the transfer and calls
`ToxPRPL_Purple_startXfer` only for one that has not begun before. `End` gathers the
four operations by which a transfer ends; the one for a completed transfer, unlike
the others, uses `xfer_data->tox` without asking whether it is set.

**`FileDelivery`** is abstract: of each transfer, whether it is under way and how it
ended (`life`), the pieces of its file (`size`) and those that have passed. Pieces
pass one at a time, none beyond the end; a transfer ends once, that of a file we send
as complete only when all have passed, and then nothing about it changes. `Xfers!FileDeliverySpec` is the
refinement: a transfer is under way as long as it has its data, `size` and `passed`
are libpurple's `size` and bytes sent. That libpurple calls a transfer done before
the plugin frees its data is not yet the end: a friend who cancels or accepts again
in between makes it cancelled, as `Life` says.

**`Session`** is login and logout: `gc` the connection, `dialogs` the open ones
by kind, `messenger` the identity in the account string, `tox` the instances
with the identity of each, `plugin` the one the connection owns, `timers` what
the timeout sources were added for. `InitializePRPL` is used by five actions,
as `ToxPRPL_initializePRPL` is by libpurple and four callbacks.

**`Contacts`** extends `Roster`: each of its steps is a step of the friend system
with what it does to presence, a status event, or a message. `conn` and `ustat`
are what libtox has of a friend, `told` those who have sent a status since they
are connected, `shown` what libpurple shows. `StatusType` is
`ToxPRPL_getStatusTypeIndex`: away and busy are taken as they are, anything else
depends on the connection. A query goes by the number the buddy caches
(`QueryAllBuddies`), an event by the key. `passed` is the last message, with the
name it was typed to and the friend whose instance got it. Which of the stored
statuses libpurple keeps across a logout is left open (`GoOffline`).

**`Account`** extends `Session` in the same way: `nick`, `display` and `name` are
the three copies of the nickname, `chosen` and `status` the two of the status.
`TakeNickname` is the end of `ToxPRPL_configureToxAndConnect`, `FoundOrLost` the
second half of `ToxPRPL_updateClientStatus`. The setting has two writers beside them:
the dialog and the command (`SetNickname`), which change all three copies, and the
account option `toxprpl.c:844-846` registers (`EditNickname`), which libpurple writes
at any time, to the empty string too, and of which it tells nobody.

**`GroupChat`** has libtox's groups (`groups`: peers in order, title), the windows
in the order they were opened (`windows`, each with the connection and the number
it belongs to, and its members as a multiset of names) and the invitations waiting
(`dialogs`). `FindChat` is `purple_find_chat`: the newest open window of the
account with that number, of whichever connection. When a peer leaves, libtox moves
the last one into its place and reports then (`Without`), so that the name
`groupBuddyDel` asks for is another peer's, or that of no one: then the buffer, which
is not initialised, holds some name or anything else (`Garbage`). `fault` says that
the client read memory that is not there.

**`Util`** is pure: characters are numbers, so that the case of a digit, a
character that is none and the terminator are told apart.

**`MCContacts`, `MCRoster`, `MCXfers`, `MCSession`, `MCAccount`, `MCGroupChat`**
instantiate them for TLC; `MCAccount` also evaluates the conversions of `Util` for
all strings of up to four characters out of seven, and all keys of up to three
bytes out of five.
**`RosterProofs`, `RosterRefinement`, `XfersProofs`, `ContactsProofs`,
`SessionProofs`, `AccountProofs`, `GroupProofs`, `UtilProofs`** hold the proofs.

## 3. What TLC checks

| Run | Instance | What it shows |
|---|---|---|
| `contacts` | 3 keys, one of them followed; 2 groups, 3 slots, 2 dialogs per key | All safety properties of `Roster` with status events and messages in between, that it implements `FriendBook`, and those of presence and messages |
| `xfers` | 3 transfers, 2 friends, 2 pieces, file errors, early ends, logout | Nobody meets a transfer that is gone, no piece is lost or misdirected, what is complete was counted; the transfers implement `FileDelivery` |
| `xfers_hostile` | friend 0, 2 transfers, files 0 and 1 out and 0 in, sizes 0-2, early ends, friends replaced, logout, fair | Every file libtox has belongs to a transfer, every running callback has its own, nothing that is over is revived, every callback goes unless libtox never takes the rest of its file: even where the properties of `xfers` fail |
| `session` | 4 instances, 4 connections, `tox_new` and exports fail, fair | The identity stored and kept although logins run inside a session, the DHT followed |
| `account` | 5 instances, 4 connections, rejected data, 2 nicknames and the empty one, the option edited at any time | One session, one way in, one name and the user's own, the setting ahead only by an edit, the chosen status, the identity kept |
| `group` | 2 windows, 2 connections, 3 peers, 2 names, lists of 3 | Nobody in the group is missing from the count of the list, the title follows the group, what goes astray and when |
| `roster_reuse` | 2 keys, a listed key may be added again | violated: `NumberIsNobodyElses` |
| `xfers_numbers` | one send and one receive, both file 0 | violated: `PortFindsItsXfer` |
| `xfers_logout` | one transfer, logout | violated: `NothingUsesKilledTox` |
| `xfers_replaced` | two sends, the friend replaced between them | violated: `PiecesReachRecipient` |
| `session_export` | an export fails | violated: `LogoutEndsSession` |
| `group_leave` | one group, two peers | violated: `MembersArePeers` |

**The bounds.** Three keys are a friend removed, one that takes its number, and a
bystander; two groups are what it takes to list one key twice; three slots hold
all keys, so that each is free, taken and reused in turn; a full list that refuses
a friend needs more keys than slots and is left to the proofs, which hold for any
number of either. Two dialogs per key are an answered one and a
stale one. Presence and messages are followed for one key (`Watched`): the friend
system treats all alike, the other two take his number and slot, and a status
depends on no other friend's; the proofs follow all. In `Xfers` two pieces are the least file with a middle, three
transfers are two that compete for one number in sequence beside one of the
other friend; libtox gives one outgoing number so that it is reused at once. The
two transfers of `xfers_hostile` are two with the same number, of either direction;
a third makes the run longer and shows nothing else. In
`Session` an instance is used up by each login, so that four logins pass through
setup, import, reload after a crash and reload after a logout; the fifth instance
of `account` is one more whose data is rejected. In `GroupChat` two
windows are two of one number in two connections or two groups of one; three peers
of two names are two who share a name and the last, who is renumbered; a list may be
longer than its group, because those who have left may stay on it, and is cut off at
three (`MaxMembers`).

**Numbers that coincide.** libtox numbers the files of either direction from 0, and
`ToxPRPL_findXfer` cannot tell a file sent from a file received; it knows a transfer
not yet prepared as (0, 0) besides, so that while the user is choosing a file for
anybody, what the first friend sends as his first file is dropped. `xfers_numbers`
shows the confusion in its simplest form. The transfer properties fall into two
groups accordingly: those that hold in spite of it, which `xfers_hostile` checks with
everything else that may go wrong, and those that need the numbers of the two
directions to differ, which `xfers` checks with three transfers. In `xfers` the friend
numbers start at 1; the theorems of section 4 assume the same, in its weakest form
(`NumbersApart`), where the property needs it.

**Ends that come early.** A friend may end the file he sends whenever he likes,
before all of it has passed and, with `Early`, before the user has answered. Then a
part of a file is reported complete, and declining the request afterwards gives back a
reference too many (the fault `unref`, which `MemorySafe` leaves out by name). What is
still true is in `CompleteIsCounted`: what is called complete has been counted alike by
libtox and libpurple, and a file that *we* send is complete only in whole.

**Deadlock** is checked in `contacts` and `roster_reuse`. The others stop when their
bounded supply of transfers, instances, connections or windows is used up.

**Fairness.** `Session!FairSpec`: a glib timeout source is served again and again
(`toxprpl.c:465-466`), hence weak fairness of `UpdateClientStatus`. Nothing is
assumed of the DHT: `DHTIsNoticed` speaks of a DHT that stays. `Xfers!FairSpec`:
an idle source is served again and again (`purple/xfers.c:113`), hence weak
fairness of the calls after which it is not. Nothing is assumed of libtox: a friend
who goes off line in the middle of a file leaves the callback spinning in
`purple/xfers.c:63-69` for as long as he is away, and `EveryCallbackGoes` allows for
just that (`<>[]Pushes(i)`). What it does say is that a callback never outlives the
end of its transfer, whoever brings that about.

## 4. What is proved

Proofs hold for every value of the constants: any number of keys, groups, slots,
dialogs, instances, connections, files and transfers.

**`RosterProofs`** proves `Spec => []IInv`. The properties are not inductive
alone. `EveryFriendListed` says some buddy caches a friend's number, but the
removal of another buddy preserves this only if no two slots hold one key
(`NumberedOnce`) and if cached numbers are right (`Exact`, where the user does
not add a listed key again); logins preserve it because off line no buddy has
data and no slot is taken (`OffClean`); a dialog answered late preserves
exactness because its sender is not on the list under another number
(`PendingOK`). From it follow

- `TypeCorrect` and `FriendsListed`, whatever the constants;
- `NothingUnsaved` (`SavedIsLive`), unless a login runs inside a session
  (`~Relogin`): there a rejected account string and a failed bootstrap leave the
  session running and its friends unsaved;
- `NumbersResolve` (`BuddyResolves`), unless the user adds again an ID the list
  names (`~AddKnown`): `roster_reuse` shows what happens otherwise.

**`RosterRefinement`** proves, where neither happens, that `Roster` implements
`FriendBook` (`Refinement`), and the action properties `OnlyNamedForgotten` and
`LoginsReconcile`: each step is matched to a step of `FriendBook` or a stutter.

**`XfersProofs`** joins the three names of a transfer, the port libtox has, the
`PurpleXfer` and the record of its callback, by an invariant in layers.

- `Base` holds whatever happens: an object whose data is set is referred to, one
  without data is over and has neither open file nor callback.
- `Owned` holds whatever happens too: the transfer a port was given out for keeps its
  data, and the port's very name in it, for as long as the port is in use. A
  transfer that loses its data frees the port by the control it sends; where an event
  about one port ends the transfer of another, both ports are free afterwards.
- `Link` says the converse as well: the ports in use and the transfers that have
  numbers are each other's. It needs `NumbersApart` (no number is both of a file sent
  and of one received, and (0, 0) is nobody's) and `~Replaces` (no friend is removed
  with a file under way).
- `Held` holds whatever happens as well: a running callback has a transfer with data,
  which has this callback; and only a transfer that was never opened is given one, so
  that an ACCEPT that comes again adds none.
- `Flow` says that callback, libpurple and libtox have counted the same pieces.
- `Asked`, under `~Early`, says that a transfer whose request is open has its data.

What follows from which:

| Theorem | Property | Under |
|---|---|---|
| `TypeCorrect` | `TypeOK` | nothing |
| `OverIsOver` | `OverIsFinal` | nothing |
| `PortsHaveTheirXfers` | `PortHasXfer` | nothing |
| `RunningCallbacksAreOwned` | `RunningIsOwned` | nothing |
| `PiecesReachTheirRecipient` | `PiecesReachRecipient` | `NumbersApart`, `~Replaces` |
| `PiecesAreCounted` | `NoPieceLostOrRepeated` | the same |
| `CompleteFilesAreCounted` | `CompleteIsCounted` | the same |
| `XfersDeliver` | `FileDeliverySpec` | the same |
| `TransfersAreMemorySafe` | `MemorySafe` | the same |
| `OnlineThereIsNoFault` | no memory error at all | the same, `~Disconnects` and `~Early` |

Each condition is something the code cannot rule out, and TLC shows what fails without
it: `xfers_numbers` for `NumbersApart`, `xfers_replaced` for `~Replaces`, `xfers_logout`
for `~Disconnects`. None of the theorems supposes that a friend ends his file only when
it has passed, or accepts ours only once. Files without bytes, local files that cannot
be opened, and any order of cancels by either side are all included.

**`ContactsProofs`** proves that `Contacts` runs `Roster` (`ContactsIsRoster`), so
that everything above holds of it, and `ContactsSpec => [](IInv /\ PInv)`. Nothing
about presence can be shown from presence alone: a query writes the status of
whoever has the cached number, so that each step needs `Exact` of the friend
system, before and after. `PInv` adds to the properties that only friends are connected and
that who has told is connected. From it follow
`PresenceTyped`, whatever the constants; `MessagesAreNotMisdelivered`,
`ReportsAreShown` and `TheConnectedAreSeen`, unless a listed key is added again;
and `ShownOnlineAreConnected`, unless moreover a login runs inside a session,
after which statuses of the former instance are shown until the next query.

**`SessionProofs`** proves `Spec => []IInv` with the failures as cases. `Base`
holds whatever fails: types, the owned instance is alive, instances not made yet
are not, a closed connection has no dialog. `OneDialog` (at most one dialog is
open, and beside an instance only the notice of an export) is what keeps the
callbacks from logging in twice; `Agreed` (a good identity in the account string
is the one that runs) is what makes a save harmless. From them follow

- `TypeCorrect`, whatever fails;
- `SessionIsOne` (`OneSession`) unless exports fail: `session_export` shows why;
- `WayInIsOne` (`OneWayIn`) unless exports or `tox_new` fail;
- `LogoutLeavesNothing` (`LogoutEndsSession`) unless exports fail, as the same run
  shows;
- `CrashKeepsIdentity` (`IdentitySurvivesCrash`) unless `tox_load` rejects data;
- `IdentityIsKept` (`IdentityKept`) unless data is rejected *and* exports fail.

**`AccountProofs`** proves that `Account` runs `Session` (`AccountIsSession`), and
`UserHasOneName`, `OnlyEditsDiffer` (`SettingDiffersByEdit`), `NicknameIsKept` and
`ChosenStatusIsShown`, none of which needs an assumption about failures. That the
setting may be edited at any time is why the name shown and the name friends see can
be equal always, but the setting equal to them only outside the time between an edit
and the next login or discovery of the DHT; the second theorem says that no other
step, and no step that ends that time, leaves a difference. The last needs `FoundByOne`, that a flag that is set
is the flag of an instance. `AccountTypeCorrect` (`AccountTypeOK`) rests on
`NamesAgree`: the name shown is taken from the account setting, which may be absent
only while there is no instance.

**`GroupProofs`** proves `Spec => []GInv`, for any number of groups, windows, names
and connections. That an event reaches the window of its own group, if it is open,
rests on the order of the windows: `GInv` says that windows of later connections
come later and that one connection has one window per group, so that the newest
open window of a number is the current connection's if that is open at all. From
it follow `GroupsTyped`, `TitlesFollow` and `StrayOnlyAfterClosing`.
`ListsCoverPeers` (`NobodyUncounted`) adds what remains of the member list: the name
asked for when a peer leaves may be the wrong one or none, so that the list does not
follow the group (`group_leave`), but one peer leaving takes at most one member off
it, in whichever window is found.

**`UtilProofs`** proves what the conversions return for strings and keys of any
length: `ConversionStaysInBuffer`, `KeysRoundTrip`, `BuddyNameIsKey`.

The lemmas about operators (`FriendNumberFinds`, `LiveAdds`, `LiveDeletes`,
`SynchronizeResult`, `ConfigureResult`, `SavedResult` and others) are stated once
and cited by name.

**Only model-checked**: liveness (`EveryCallbackGoes`, `DHTIsNoticed`), which is out of
the prover's reach. Every invariant and every action property of a passing run is a
theorem; of the properties of the violation runs, `PiecesReachRecipient` and
`LogoutEndsSession` are theorems under the assumption their run drops, and
`NothingUsesKilledTox` follows from `OnlineThereIsNoFault`.

## 5. Where code and its comments disagree

The "violation" runs, each quoting the line it contradicts, are in `PROJECT.json`
under "findings". Met while modelling, without a run of their own:

- A login that finds no friends keeps every buddy (`toxprpl.c:260`), although "all
  left without buddy_data were not present in Tox and must be removed"
  (`toxprpl.c:285-286`). `FriendBook!Login` states what the code does.
- Where the numbers of a file sent and of one received coincide, a friend who kills
  or ends one of them may end the other, and pieces he sends may be counted in the
  file he is sent.
- An ACCEPT that comes when all of a file has passed (`tox/xfers.c:33`) puts the transfer
  back to started, and the callback cancels it instead of ending it: the user and the
  friend are told that a file failed which has arrived in whole.
- A friend who says FINISHED (`tox/xfers.c:20-23`) in the middle of a file leaves a part
  of it that is called complete; one who says so before the user has answered leaves
  the request open, and libpurple gives back one reference too many when it is declined.
- A completed transfer is reported to libtox without asking whether its data names an
  instance (`purple/xfers.c:229-236`), as all the other ends of a transfer do. A
  transfer not yet prepared, which knows itself as (0, 0), may be ended so by the first
  friend's first file.
- After `tox_load` rejects the stored data, the new identity is used but not
  stored until the next save (`toxprpl.c:426-429`), and a crash before that loses
  it, against `ChangeLog:17-19`.
- An off-line friend whose stored status is away or busy is shown so after the
  login's query, which asks "the current status" (`purple/buddy.c:70-71`), until he
  connects.
- The request about an invitation is given the address of the handler's local variable
  (`tox/group_chat.c:105`) where its callbacks expect the "transactional data" of
  `tox/group_chat.c:18`; whatever the answer reads is undefined (`Dangling`).
- Renaming a peer of a group that has a window ends in a NULL pointer:
  `ToxPRPL_Purple_findByPeerId` builds a dummy to compare with and then compares with
  NULL (`common/group_chat.c:37`), so that the list it returns is empty and
  `tox/group_chat.c:221` reads its first entry ("should be one, but why not comply?").
- A character of a Tox ID that is no digit counts as 0 for libtox and stays in the
  buddy's name (`purple/buddy.c:145-148`); the next query then asks for the key of
  that name.
- Accepting an empty file starts a transfer without a callback, which nothing ends
  (`purple/xfers.c:90-99`); a local file that is shorter than announced likewise.
- If besides an export fails and the login its notice starts fails to bootstrap,
  the session goes on beside an account string with an identity it never had.

## 6. What the models leave out

- **Durability of the account string.** libpurple writes `accounts.xml` with a
  delay; the models take a save as done.
- **libtox itself** is modelled by what the plugin relies on: it gives the lowest
  free friend number, refuses a key it has, numbers stored friends anew when it
  loads them, frees a file port on KILL and FINISHED, and renumbers the peers of a
  group before it reports that one has left. The size of its data is taken to be
  positive.
- **Friends who send out of turn**: data of a file before the user has accepted it,
  or beyond the size announced (`OnFileData` asks for an open port and stops at the
  size). Pausing is a control that `tox/xfers.c` ignores, and is left out.
- **libpurple** is modelled by the operations it calls; what it does with
  `PurpleXfer` reference counts and the closing of dialogs with the connection is
  taken from its documented behaviour. A client that keeps a reference of its own
  only delays the freeing of a transfer. A dialog dismissed without an answer,
  and a callback run while a notice is closed with its connection, are not
  modelled.
- **Two buddies of one name in one group.** A buddy being added bears the whole
  Tox ID until `ToxPRPL_Purple_addBuddy` renames it (`purple/buddy.c:148`), so an
  entry of that key in the same group that is no friend may get a twin; so may one
  whose friend request is accepted. `AddBuddy` and `AcceptFriendRequest` leave
  these cases out.
- **The local file** is the same when it is chosen and when it is sent, unless
  `FileErrors` says that it cannot be opened.
- **Aliases** of buddies, status messages, and names that fill their buffer to the
  end (`tox_group_peername` and `tox_get_name` write no terminator there).
- **Leaving a group**: the plugin has no operation for it (`chat_leave` is NULL), so
  neither has `GroupChat`; a group ends with its instance. An invitation is reduced
  to whether its dialog is open: that its friend number and packet pointer are stale
  as well is out of sight, because no answer is known to read the record.
- **The import loop** (`purple/account.c:65-72`), one step in `Session`.
- **Wording, formatting and debug output** are not modelled; a Tox ID is the key
  it names.

## 7. Plan

Done: `FriendBook`, `Roster`, its proofs and refinement; `FileDelivery`, `Xfers`, its
proofs and refinement; `Session`, `Contacts`, `Account`, `GroupChat` and `Util` with
theirs. What is left, in the order of importance:

1. `SavedIsLive` and the refinement of `FriendBook` for logins inside a session, in
   the form that still holds there.
2. Aliases in `Contacts`, with the name events and the query that copies an empty
   name over an alias the user has chosen.
