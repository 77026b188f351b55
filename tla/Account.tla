------------------------------- MODULE Account -------------------------------
(***************************************************************************)
(* How the user presents himself, on top of the login and logout of        *)
(* Session: the nickname (purple/account.c, toxprpl.c, the /nick command)  *)
(* and the user status (purple/account.c, util.c).                         *)
(*                                                                         *)
(* The nickname is in three places: the account setting, the display name  *)
(* of the connection, and the Tox instance, which loads an older one with  *)
(* the account data; the user may edit the setting behind the plugin's     *)
(* back. The status is chosen in libpurple at any time, even while nothing *)
(* is connected, and an instance loads an older one too.                   *)
(***************************************************************************)
EXTENDS Session

CONSTANTS
  Nicks,     \* the nicknames the user may type, apart from the empty one
  UserName,  \* the account's own name, taken while there is no nickname
  NoNick     \* an account setting that is not there

ASSUME AccountAssumption ==
  "" \notin Nicks /\ UserName # "" /\ NoNick \notin Nicks \cup {UserName, ""}

VARIABLES
  nick,     \* the account setting "nickname"
  display,  \* the display name of the connection
  name,     \* the name in the Tox instance of the connection
  chosen,   \* the active status of the account in libpurple
  status    \* the user status in the Tox instance of the connection

nickVars == <<nick, display, name>>
accountVars == <<vars, nickVars, chosen, status>>

AllNicks == Nicks \cup {UserName, ""}
UserStatuses == {"none", "away", "busy"}

\* ToxPRPL_getStatusTypeById. libpurple disconnects the account rather than
\* setting "tox_offline", for which the table has no status libtox would take.
StatusIds == {"tox_online", "tox_away", "tox_busy"}
StatusTypeById == [tox_online |-> "none", tox_away |-> "away", tox_busy |-> "busy"]

AccountInit ==
  /\ Init
  /\ nick \in AllNicks \cup {NoNick}
  /\ display = "" /\ name = ""
  /\ chosen \in StatusIds
  /\ status = "none"

\* ToxPRPL_Purple_onSetNickname
OnSetNickname(n) ==
  /\ display' = n
  /\ name' = n
  /\ nick' = n

\* The end of ToxPRPL_configureToxAndConnect: the nickname of the account, and
\* failing that its name, replaces whatever name was loaded; the status loaded
\* stays. A new identity has no status yet.
TakeNicknameAsIs == OnSetNickname(nick)
TakeUserName == OnSetNickname(UserName)
KeepLoadedName ==
  /\ name' \in AllNicks
  /\ nick' = IF nick \in {NoNick, ""} THEN UserName ELSE nick
  /\ display' = nick'
TakeNickname == OnSetNickname(IF nick \in {NoNick, ""} THEN UserName ELSE nick)

StatusLoaded == IF tox'[plugin'] = plugin' THEN {"none"} ELSE UserStatuses

\* A step of the login, which may make a new instance the connection's own.
LogIn ==
  /\ \/ Login
     \/ CreateNew
     \/ PromptAccountImport
     \/ ImportUser
     \/ CancelImport
     \/ CloseNotice
  /\ IF plugin' # plugin
     THEN TakeNickname /\ status' \in StatusLoaded
     ELSE UNCHANGED <<nickVars, status>>
  /\ UNCHANGED chosen

\* The "Set nickname..." dialog and the /nick command.
SetNickname(n) ==
  /\ gc \in {"connecting", "connected"} /\ plugin # 0
  /\ OnSetNickname(n)
  /\ UNCHANGED <<vars, chosen, status>>

\* The user edits the account option "nickname", at any time: libpurple writes the
\* setting, and neither the connection nor the instance is told.
EditNickname(n) ==
  /\ nick' = n
  /\ UNCHANGED <<vars, display, name, chosen, status>>

\* The user chooses a status. libpurple calls ToxPRPL_Purple_onSetStatus only when
\* the account is connected: while it connects that is left to the plugin.
ChooseStatus(s) ==
  /\ chosen' = s
  /\ status' = IF gc = "connected" /\ plugin # 0 THEN StatusTypeById[s] ELSE status
  /\ UNCHANGED <<vars, nickVars>>

\* ToxPRPL_updateClientStatus sets nickname and status again when the DHT is found;
\* an empty nickname is taken from the instance if that has one.
FoundSetsNothing ==
  /\ UpdateClientStatus
  /\ UNCHANGED <<nickVars, chosen, status>>
FoundSetsStatusOnly ==
  /\ UpdateClientStatus
  /\ status' = IF flag' THEN StatusTypeById[chosen] ELSE status
  /\ UNCHANGED <<nickVars, chosen>>
FoundOrLost ==
  /\ UpdateClientStatus
  /\ IF flag'
     THEN /\ status' = StatusTypeById[chosen]
          /\ IF nick # "" THEN OnSetNickname(nick)
             ELSE IF name # "" THEN nick' = name /\ display' = name /\ UNCHANGED name
             ELSE UNCHANGED nickVars
     ELSE UNCHANGED <<nickVars, status>>
  /\ UNCHANGED chosen

LogOut ==
  /\ ShutdownPRPL \/ Crash
  /\ display' = "" /\ name' = "" /\ status' = "none"
  /\ UNCHANGED <<nick, chosen>>

Meanwhile ==
  /\ ExportUser \/ SaveAccount \/ DHTChanges
  /\ UNCHANGED <<nickVars, chosen, status>>

AccountNext ==
  \/ LogIn \/ FoundOrLost \/ LogOut \/ Meanwhile
  \/ \E n \in Nicks \cup {""} : SetNickname(n) \/ EditNickname(n)
  \/ \E s \in StatusIds : ChooseStatus(s)

AccountSpec == AccountInit /\ [][AccountNext]_accountVars

-----------------------------------------------------------------------------
(* Properties *)

\* The type of what this module adds.
AccountTypeOK ==
  /\ nick \in AllNicks \cup {NoNick}
  /\ display \in AllNicks /\ name \in AllNicks
  /\ chosen \in StatusIds
  /\ status \in UserStatuses

\* What the user sees of his name is what his friends see, whatever the account
\* data of an earlier session or another client held, however often the login runs,
\* and while the setting has been edited to something else (toxprpl.c:490-503,
\* 139-160, purple/account.c:167-175).
NamesAgree == plugin # 0 => display = name

\* The setting differs from the name friends see only where the user has edited the
\* option: a login, an import, the dialog and the command leave the two the same,
\* and an edit is made good when the DHT is found the next time, an empty one by
\* taking the name back (toxprpl.c:490-503, 139-160, 844-846).
SettingDiffersByEdit ==
  [][plugin' # 0 /\ nick' # name'
       => \/ \E n \in Nicks \cup {""} : EditNickname(n)
          \/ plugin' = plugin /\ nick # name /\ (flag' => flag)]_accountVars

\* Once the connection is up, friends see the status the user chose last, be it
\* while the account was off line, connecting, or without the DHT, and whatever
\* status was loaded (toxprpl.c:162-166, purple/account.c:185-206).
OwnStatusShown == flag /\ gc = "connected" => status = StatusTypeById[chosen]

\* A nickname is replaced by nobody but the user: no login, reload, import, crash
\* or reconnection overwrites it (toxprpl.c:490-503, 139-160).
NicknameKept ==
  [][nick' # nick /\ nick \in Nicks
       => (\E n \in Nicks \cup {""} : SetNickname(n) \/ EditNickname(n))]_accountVars
=============================================================================
