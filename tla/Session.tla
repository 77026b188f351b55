------------------------------- MODULE Session -------------------------------
(***************************************************************************)
(* Login and logout (toxprpl.c, purple/account.c): the way from libpurple's*)
(* login through the setup and import dialogs to a Tox instance with its   *)
(* two timers and two chat commands, and back. ToxPRPL_initializePRPL is   *)
(* libpurple's login operation and also the callback of a cancelled file   *)
(* dialog and of the notices about a file that failed, so that it can run  *)
(* many times in one connection.                                           *)
(*                                                                         *)
(* What a Tox instance holds is reduced to its identity (the Tox ID), the  *)
(* part of the account data that the other users know. The friends in it   *)
(* are the subject of Roster.                                              *)
(***************************************************************************)
EXTENDS Integers

CONSTANTS
  MaxInstances,  \* bound: Tox instances ever created
  MaxLogins,     \* bound: connections ever opened
  ToxNewFails,   \* tox_new may find no memory
  BadData,       \* stored or imported data may be what tox_load rejects
  ExportFails    \* writing an export may fail midway

ASSUME SessionAssumption ==
  /\ MaxInstances \in Nat \ {0} /\ MaxLogins \in Nat \ {0}
  /\ ToxNewFails \in BOOLEAN /\ BadData \in BOOLEAN /\ ExportFails \in BOOLEAN

VARIABLES
  gc,         \* the PurpleConnection: "none", "connecting", "connected", "error"
  login,      \* how many connections there have been
  messenger,  \* the account string: Null, Rejected, or the identity in it
  dialogs,    \* how many of each are open: "setup", "file", "notice"
  made,       \* how many instances have been created
  tox,        \* instance |-> its identity, or Null when it is not alive
  plugin,     \* the instance in the protocol data of the connection, or 0
  flag,       \* plugin->connected
  dht,        \* tox_isconnected of that instance
  timers      \* what the timeout sources were added for: [instance, login]

vars ==
  <<gc, login, messenger, dialogs, made, tox, plugin, flag, dht, timers>>

Instances == 1 .. MaxInstances  \* instance n makes itself the identity n
Stored == MaxInstances + 1      \* the identity an earlier run of the client left
Imported == MaxInstances + 2    \* the identity in the file the user may import
Identities == 1 .. MaxInstances + 2
Null == 0
Rejected == -1
Bad == IF BadData THEN {Rejected} ELSE {}

DialogKinds == {"setup", "file", "notice"}
NoDialogs == [kind \in DialogKinds |-> 0]
Opened(d, kind) == [d EXCEPT ![kind] = @ + 1]
Closed(d, kind) == [d EXCEPT ![kind] = @ - 1]

Alive == {n \in Instances : tox[n] # Null}
Timer(n) == [instance |-> n, login |-> login]

Init ==
  /\ gc = "none"
  /\ login = 0
  /\ messenger \in {Null, Stored} \cup Bad
  /\ dialogs = NoDialogs
  /\ made = 0
  /\ tox = [n \in Instances |-> Null]
  /\ plugin = 0 /\ flag = FALSE /\ dht = FALSE
  /\ timers = {}

-----------------------------------------------------------------------------
(* Login *)

\* A new instance has an identity of its own until tox_load gives it a stored
\* one. Without data the new identity is stored; data that tox_load rejects is
\* dropped, and nothing is stored in its place.
IdentityOf(m, n) == IF m \in Identities THEN m ELSE n
SavedBeforeLoad(m, n) == n
SavedNever(m, n) == IF m = Rejected THEN Null ELSE m
SavedAs(m, n) == IF m = Rejected THEN Null ELSE IF m = Null THEN n ELSE m

\* ToxPRPL_configureToxAndConnect with m as the account string, c as the state
\* of the connection. A bootstrap that fails kills the instance at once.
Configure(m, c) ==
  \/ /\ ToxNewFails
     /\ messenger' = m
     /\ gc' = c
     /\ UNCHANGED <<made, tox, plugin, flag, dht, timers>>
  \/ LET n == made + 1
     IN /\ n \in Instances
        /\ made' = n
        /\ messenger' = SavedAs(m, n)
        /\ \/ /\ gc' = "error"
              /\ UNCHANGED <<tox, plugin, flag, dht, timers>>
           \/ /\ gc' = c
              /\ tox' = [tox EXCEPT ![n] = IdentityOf(m, n)]
              /\ plugin' = n /\ flag' = FALSE /\ dht' = FALSE
              /\ timers' = timers \cup {[instance |-> n, login |-> login']}

\* ToxPRPL_initializePRPL, d being the dialogs open apart from its own.
InitializePRPL(m, c, d) ==
  \/ /\ m = Null
     /\ dialogs' = Opened(d, "setup")
     /\ messenger' = m
     /\ gc' = c
     /\ UNCHANGED <<made, tox, plugin, flag, dht, timers>>
  \/ /\ m # Null
     /\ dialogs' = d
     /\ Configure(m, c)

\* libpurple opens a connection and calls the plugin's login operation.
Login ==
  /\ gc = "none" /\ login < MaxLogins
  /\ login' = login + 1
  /\ InitializePRPL(messenger, "connecting", dialogs)

\* The setup dialog: "Create new Tox account" and "Import existing Tox account".
CreateNewClosesFile ==
  /\ dialogs["setup"] > 0
  /\ dialogs' = Closed(dialogs, "file")
  /\ UNCHANGED login
  /\ Configure(messenger, gc)
CreateNew ==
  /\ dialogs["setup"] > 0
  /\ dialogs' = Closed(dialogs, "setup")
  /\ UNCHANGED login
  /\ Configure(messenger, gc)

PromptAccountImport ==
  /\ dialogs["setup"] > 0
  /\ dialogs' = Opened(Closed(dialogs, "setup"), "file")
  /\ UNCHANGED <<gc, login, messenger, made, tox, plugin, flag, dht, timers>>

\* ToxPRPL_importUser: the file is read and stored, or a notice says why not.
ImportUser ==
  /\ dialogs["file"] > 0
  /\ UNCHANGED login
  /\ \/ \E m \in {Imported} \cup Bad :
          InitializePRPL(m, gc, Closed(dialogs, "file"))
     \/ /\ dialogs' = Opened(Closed(dialogs, "file"), "notice")
        /\ UNCHANGED <<gc, messenger, made, tox, plugin, flag, dht, timers>>

\* The file dialog is cancelled, or the notice closed: the login starts over.
CancelDrops ==
  /\ dialogs["file"] > 0
  /\ dialogs' = Closed(dialogs, "file")
  /\ UNCHANGED <<gc, login, messenger, made, tox, plugin, flag, dht, timers>>
CancelImport ==
  /\ dialogs["file"] > 0
  /\ UNCHANGED login
  /\ InitializePRPL(messenger, gc, Closed(dialogs, "file"))

CloseNotice ==
  /\ dialogs["notice"] > 0
  /\ UNCHANGED login
  /\ InitializePRPL(messenger, gc, Closed(dialogs, "notice"))

-----------------------------------------------------------------------------
(* The session *)

\* ToxPRPL_exportUser: a write fails, and the notice has the same callback as
\* those of the import. (Without an error, and when the file cannot be opened,
\* an export leaves the state alone.) Bound: one such notice at a time.
ExportUser ==
  /\ ExportFails
  /\ dialogs["notice"] = 0
  /\ gc = "connected" /\ plugin # 0
  /\ dialogs' = Opened(dialogs, "notice")
  /\ UNCHANGED <<gc, login, messenger, made, tox, plugin, flag, dht, timers>>

\* ToxPRPL_saveAccount after a friend was added or removed.
SaveAccount ==
  /\ gc \in {"connecting", "connected"} /\ plugin # 0
  /\ messenger' = tox[plugin]
  /\ UNCHANGED <<gc, login, dialogs, made, tox, plugin, flag, dht, timers>>

\* libtox finds the DHT, or loses it.
DHTChanges ==
  /\ plugin # 0
  /\ dht' = ~dht
  /\ UNCHANGED <<gc, login, messenger, dialogs, made, tox, plugin, flag, timers>>

\* ToxPRPL_updateClientStatus, the timer that runs every two seconds.
StatusKeepsFlag ==
  /\ gc \in {"connecting", "connected"} /\ plugin # 0
  /\ Timer(plugin) \in timers
  /\ ~flag /\ dht /\ flag' = TRUE /\ gc' = "connected"
  /\ UNCHANGED <<login, messenger, dialogs, made, tox, plugin, dht, timers>>
UpdateClientStatus ==
  /\ gc \in {"connecting", "connected"} /\ plugin # 0
  /\ Timer(plugin) \in timers
  /\ \/ ~flag /\ dht /\ flag' = TRUE /\ gc' = "connected"
     \/ flag /\ ~dht /\ flag' = FALSE /\ UNCHANGED gc
  /\ UNCHANGED <<login, messenger, dialogs, made, tox, plugin, dht, timers>>

-----------------------------------------------------------------------------
(* Logout *)

\* libpurple closes the connection, because the user or an error says so: it
\* calls ToxPRPL_shutdownPRPL and takes the dialogs of the connection away.
ShutdownKeepsTimers ==
  /\ gc # "none"
  /\ gc' = "none"
  /\ dialogs' = NoDialogs
  /\ plugin' = 0 /\ flag' = FALSE /\ dht' = FALSE
  /\ messenger' = IF plugin = 0 THEN messenger ELSE tox[plugin]
  /\ tox' = [n \in Instances |-> IF n = plugin THEN Null ELSE tox[n]]
  /\ UNCHANGED <<login, made, timers>>
ShutdownPRPL ==
  /\ gc # "none"
  /\ gc' = "none"
  /\ dialogs' = NoDialogs
  /\ plugin' = 0 /\ flag' = FALSE /\ dht' = FALSE
  /\ messenger' = IF plugin = 0 THEN messenger ELSE tox[plugin]
  /\ tox' = [n \in Instances |-> IF n = plugin THEN Null ELSE tox[n]]
  /\ timers' = timers \ {Timer(plugin)}
  /\ UNCHANGED <<login, made>>

\* The client dies: only the account string remains.
Crash ==
  /\ gc # "none"
  /\ gc' = "none"
  /\ dialogs' = NoDialogs
  /\ tox' = [n \in Instances |-> Null]
  /\ plugin' = 0 /\ flag' = FALSE /\ dht' = FALSE
  /\ timers' = {}
  /\ UNCHANGED <<login, messenger, made>>

Next ==
  \/ Login
  \/ CreateNew
  \/ PromptAccountImport
  \/ ImportUser
  \/ CancelImport
  \/ CloseNotice
  \/ ExportUser
  \/ SaveAccount
  \/ DHTChanges
  \/ UpdateClientStatus
  \/ ShutdownPRPL
  \/ Crash

Spec == Init /\ [][Next]_vars

\* The main loop keeps serving a timeout source.
FairSpec == Spec /\ WF_vars(UpdateClientStatus)

-----------------------------------------------------------------------------
(* Properties *)

\* The type of the state.
TypeOK ==
  /\ gc \in {"none", "connecting", "connected", "error"}
  /\ login \in 0 .. MaxLogins
  /\ messenger \in Identities \cup {Null, Rejected}
  /\ dialogs \in [DialogKinds -> Nat]
  /\ made \in 0 .. MaxInstances
  /\ tox \in [Instances -> Identities \cup {Null}]
  /\ plugin \in Instances \cup {0}
  /\ flag \in BOOLEAN /\ dht \in BOOLEAN
  /\ timers \subseteq [instance : Instances, login : 1 .. MaxLogins]

\* A connection has one Tox instance at most, and exactly the timers of that
\* instance run: however the login went round its dialogs, no instance is left
\* alive unowned and no timer fires for a closed connection or another instance
\* (toxprpl.c:337-504, 548-580).
OneSession ==
  /\ Alive = {plugin} \ {0}
  /\ timers = {Timer(n) : n \in Alive}

\* A connection that is being opened waits for exactly one thing: one dialog, or
\* one instance. No path through the dialogs ends in nothing, and none brings
\* two logins about (toxprpl.c:316-330, 510-542, purple/account.c:21-88).
OneWayIn ==
  gc = "connecting" =>
    dialogs["setup"] + dialogs["file"] + dialogs["notice"]
      + (IF plugin = 0 THEN 0 ELSE 1) = 1

\* The identity in the account string is for ever: nothing but the data tox_load
\* rejects is ever replaced, neither by setup, import, export nor a crash, so the
\* friends who know the Tox ID do not lose the user.
IdentityKept ==
  [][(messenger \in Identities) => messenger' = messenger]_vars

\* The identity that runs is the one a crash leaves behind: ChangeLog:17-19 "made
\* sure account settings are not lost if Pidgin is not shut down cleanly".
IdentitySurvivesCrash == plugin # 0 => messenger = tox[plugin]

\* The connection follows the DHT: when it stays connected the plugin finds out,
\* and when it stays lost it finds that out too, ready to connect again.
DHTIsNoticed ==
  /\ <>[](plugin # 0 /\ dht /\ gc # "error") => <>[]flag
  /\ <>[](plugin # 0 /\ ~dht /\ gc # "error") => <>[]~flag

\* What the source says of the logout; the run of this name shows where it fails.
\* "This should clean up and end the Tox session", toxprpl.c:546.
LogoutEndsSession == gc = "none" => Alive = {} /\ timers = {}
=============================================================================
