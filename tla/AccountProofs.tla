---------------------------- MODULE AccountProofs ----------------------------
(***************************************************************************)
(* Proofs about Account, for any number of instances and connections and   *)
(* every combination of the failures: Account runs Session, and the user   *)
(* has one name, keeps it, and shows the status he chose.                  *)
(***************************************************************************)
EXTENDS Account, SessionProofs

\* A step of the account is a step of the session, or leaves the session alone.
THEOREM AccountIsSession == AccountSpec => Spec
  <1>1. AccountInit => Init
    BY DEF AccountInit
  <1>2. ASSUME [AccountNext]_accountVars
        PROVE  [Next]_vars
    <2>1. CASE LogIn
      BY <2>1 DEF LogIn, Next
    <2>2. CASE FoundOrLost
      BY <2>2 DEF FoundOrLost, Next
    <2>3. CASE LogOut
      BY <2>3 DEF LogOut, Next
    <2>4. CASE Meanwhile
      BY <2>4 DEF Meanwhile, Next
    <2>5. CASE \E n \in Nicks \cup {""} : SetNickname(n) \/ EditNickname(n)
      BY <2>5 DEF SetNickname, EditNickname
    <2>6. CASE \E s \in StatusIds : ChooseStatus(s)
      BY <2>6 DEF ChooseStatus
    <2>7. CASE UNCHANGED accountVars
      BY <2>7 DEF accountVars
    <2> QED
      BY <1>2, <2>1, <2>2, <2>3, <2>4, <2>5, <2>6, <2>7 DEF AccountNext
  <1> QED
    BY <1>1, <1>2, PTL DEF AccountSpec, Spec

\* A session's invariant is the account's.
LEMMA SessionInvariant == AccountSpec => []IInv
  BY AccountIsSession, Invariance, PTL

\* A login that makes an instance the connection's own starts it disconnected, and
\* one that does not leaves the connection's progress alone or gives it up.
LEMMA LogInProgress ==
  ASSUME IInv, LogIn
  PROVE  \/ plugin' # plugin /\ ~flag'
         \/ plugin' = plugin /\ (flag' => flag) /\ (gc' = "connected" => gc = "connected")
  <1>1. plugin <= made /\ made \in Nat /\ gc \in States
    BY SessionAssumption DEF IInv, Base, TypeOK, Instances, States
  <1>2. ASSUME NEW m, NEW c, Configure(m, c), c = "connected" => gc = "connected"
        PROVE  \/ plugin' # plugin /\ ~flag'
               \/ plugin' = plugin /\ (flag' => flag) /\ (gc' = "connected" => gc = "connected")
    BY <1>1, <1>2 DEF Configure
  <1>3. ASSUME NEW m, NEW c, NEW d, InitializePRPL(m, c, d),
               c = "connected" => gc = "connected"
        PROVE  \/ plugin' # plugin /\ ~flag'
               \/ plugin' = plugin /\ (flag' => flag) /\ (gc' = "connected" => gc = "connected")
    BY <1>2, <1>3 DEF InitializePRPL
  <1>4. CASE Login
    BY <1>3, <1>4 DEF Login
  <1>5. CASE CreateNew
    BY <1>2, <1>5 DEF CreateNew
  <1>6. CASE PromptAccountImport
    BY <1>6 DEF PromptAccountImport
  <1>7. CASE ImportUser
    BY <1>3, <1>7 DEF ImportUser
  <1>8. CASE CancelImport
    BY <1>3, <1>8 DEF CancelImport
  <1>9. CASE CloseNotice
    BY <1>3, <1>9 DEF CloseNotice
  <1> QED
    BY <1>4, <1>5, <1>6, <1>7, <1>8, <1>9 DEF LogIn

-----------------------------------------------------------------------------
(* The name *)

\* The one way the plugin sets a name sets it in all three places.
LEMMA OneName ==
  ASSUME NEW n, OnSetNickname(n)
  PROVE  nick' = n /\ display' = n /\ name' = n
  BY DEF OnSetNickname

\* An edit touches nothing but the setting.
LEMMA EditIsAlone ==
  ASSUME NEW n, EditNickname(n)
  PROVE  /\ plugin' = plugin /\ flag' = flag /\ gc' = gc
         /\ display' = display /\ name' = name /\ nick' = n
         /\ chosen' = chosen /\ status' = status
  BY DEF EditNickname, vars

\* A step of the login either takes the nickname for a new instance or leaves all
\* alone; the other steps but edits set it everywhere, or end the instance.
LEMMA NamesStayEqual ==
  ASSUME NamesAgree, [AccountNext]_accountVars
  PROVE  NamesAgree'
  <1>1. CASE LogIn
    <2>1. CASE plugin' # plugin
      BY <1>1, <2>1, OneName DEF LogIn, TakeNickname, NamesAgree
    <2>2. CASE plugin' = plugin
      BY <1>1, <2>2 DEF LogIn, nickVars, NamesAgree
    <2> QED
      BY <2>1, <2>2
  <1>2. CASE FoundOrLost
    <2>1. plugin' = plugin
      BY <1>2 DEF FoundOrLost, UpdateClientStatus
    <2>2. CASE flag' /\ nick # ""
      BY <1>2, <2>2, OneName DEF FoundOrLost, NamesAgree
    <2>3. CASE flag' /\ nick = "" /\ name # ""
      BY <1>2, <2>3 DEF FoundOrLost, NamesAgree
    <2>4. CASE ~flag'
      BY <1>2, <2>1, <2>4 DEF FoundOrLost, nickVars, NamesAgree
    <2>5. CASE flag' /\ nick = "" /\ name = ""
      BY <1>2, <2>1, <2>5 DEF FoundOrLost, nickVars, NamesAgree
    <2> QED
      BY <2>2, <2>3, <2>4, <2>5
  <1>3. CASE LogOut
    BY <1>3 DEF LogOut, ShutdownPRPL, Crash, NamesAgree
  <1>4. CASE Meanwhile
    BY <1>4 DEF Meanwhile, ExportUser, SaveAccount, DHTChanges, nickVars, NamesAgree
  <1>5. CASE \E n \in Nicks \cup {""} : SetNickname(n) \/ EditNickname(n)
    BY <1>5, OneName, EditIsAlone DEF SetNickname, NamesAgree
  <1>6. CASE \E s \in StatusIds : ChooseStatus(s)
    BY <1>6 DEF ChooseStatus, vars, nickVars, NamesAgree
  <1>7. CASE UNCHANGED accountVars
    BY <1>7 DEF accountVars, vars, nickVars, NamesAgree
  <1> QED
    BY <1>1, <1>2, <1>3, <1>4, <1>5, <1>6, <1>7 DEF AccountNext

\* Friends and the user himself see one name (toxprpl.c:490-503, 139-160,
\* purple/account.c:167-175), whatever fails and whatever the setting holds.
THEOREM UserHasOneName == AccountSpec => []NamesAgree
  <1>1. AccountInit => NamesAgree
    BY DEF AccountInit, Init, NamesAgree
  <1> QED
    BY <1>1, NamesStayEqual, PTL DEF AccountSpec

\* What a step other than an edit does to the setting and the instance's name: the
\* two are the same after it, or it found and left them as they were.
SettingStep ==
  plugin' # 0 /\ nick' # name'
    => \/ \E n \in Nicks \cup {""} : EditNickname(n)
       \/ plugin' = plugin /\ nick # name /\ (flag' => flag)

LEMMA StepsSettle ==
  ASSUME IInv, [AccountNext]_accountVars
  PROVE  SettingStep
  <1> SUFFICES ASSUME plugin' # 0, nick' # name',
                      ~(\E n \in Nicks \cup {""} : EditNickname(n))
               PROVE  plugin' = plugin /\ nick # name /\ (flag' => flag)
    BY DEF SettingStep
  <1>1. CASE LogIn
    <2>1. plugin' = plugin
      BY <1>1, OneName DEF LogIn, TakeNickname
    <2> QED
      BY <1>1, <2>1, LogInProgress DEF LogIn, nickVars
  <1>2. CASE FoundOrLost
    <2>1. plugin' = plugin
      BY <1>2 DEF FoundOrLost, UpdateClientStatus
    <2>2. ~flag'
      <3>1. SUFFICES ASSUME flag' PROVE FALSE
        OBVIOUS
      <3>2. CASE nick # ""
        BY <1>2, <3>1, <3>2, OneName DEF FoundOrLost
      <3>3. CASE nick = ""
        BY <1>2, <3>1, <3>3 DEF FoundOrLost, nickVars
      <3> QED
        BY <3>2, <3>3
    <2>3. UNCHANGED nickVars
      BY <1>2, <2>2 DEF FoundOrLost
    <2> QED
      BY <2>1, <2>2, <2>3 DEF nickVars
  <1>3. CASE LogOut
    BY <1>3 DEF LogOut, ShutdownPRPL, Crash
  <1>4. CASE Meanwhile
    <2>1. plugin' = plugin /\ flag' = flag /\ nick' = nick /\ name' = name
      BY <1>4 DEF Meanwhile, ExportUser, SaveAccount, DHTChanges, nickVars
    <2> QED
      BY <2>1
  <1>5. CASE \E n \in Nicks \cup {""} : SetNickname(n) \/ EditNickname(n)
    BY <1>5, OneName DEF SetNickname
  <1>6. CASE \E s \in StatusIds : ChooseStatus(s)
    <2>1. plugin' = plugin /\ flag' = flag /\ nick' = nick /\ name' = name
      BY <1>6 DEF ChooseStatus, vars, nickVars
    <2> QED
      BY <2>1
  <1>7. CASE UNCHANGED accountVars
    <2>1. plugin' = plugin /\ flag' = flag /\ nick' = nick /\ name' = name
      BY <1>7 DEF accountVars, vars, nickVars
    <2> QED
      BY <2>1
  <1> QED
    BY <1>1, <1>2, <1>3, <1>4, <1>5, <1>6, <1>7 DEF AccountNext

\* The setting differs from the name friends see only by an edit of the user's, and
\* only until the next login or the DHT is found (toxprpl.c:490-503, 139-160,
\* 844-846).
THEOREM OnlyEditsDiffer == AccountSpec => SettingDiffersByEdit
  <1>1. IInv /\ [AccountNext]_accountVars => [SettingStep]_accountVars
    BY StepsSettle
  <1> QED
    BY <1>1, SessionInvariant, PTL DEF AccountSpec, SettingDiffersByEdit, SettingStep

\* While there is an instance there is a setting.
NickIsSet == plugin # 0 => nick # NoNick

LEMMA NickStaysSet ==
  ASSUME NickIsSet, AccountTypeOK, [AccountNext]_accountVars
  PROVE  NickIsSet'
  <1> USE AccountAssumption DEF NickIsSet
  <1>1. CASE LogIn
    <2>1. CASE plugin' # plugin
      BY <1>1, <2>1, OneName DEF LogIn, TakeNickname
    <2>2. CASE plugin' = plugin
      BY <1>1, <2>2 DEF LogIn, nickVars
    <2> QED
      BY <2>1, <2>2
  <1>2. CASE FoundOrLost
    <2>1. plugin' = plugin
      BY <1>2 DEF FoundOrLost, UpdateClientStatus
    <2>2. plugin # 0 /\ nick # NoNick /\ name # NoNick
      BY <1>2 DEF FoundOrLost, UpdateClientStatus, AccountTypeOK, AllNicks
    <2>3. CASE flag' /\ nick # ""
      BY <1>2, <2>2, <2>3, OneName DEF FoundOrLost
    <2>4. CASE flag' /\ nick = "" /\ name # ""
      BY <1>2, <2>2, <2>4 DEF FoundOrLost
    <2>5. CASE flag' /\ nick = "" /\ name = ""
      BY <1>2, <2>2, <2>5 DEF FoundOrLost, nickVars
    <2>6. CASE ~flag'
      BY <1>2, <2>2, <2>6 DEF FoundOrLost, nickVars
    <2> QED
      BY <2>3, <2>4, <2>5, <2>6
  <1>3. CASE LogOut
    BY <1>3 DEF LogOut, ShutdownPRPL, Crash
  <1>4. CASE Meanwhile
    BY <1>4 DEF Meanwhile, ExportUser, SaveAccount, DHTChanges, nickVars
  <1>5. CASE \E n \in Nicks \cup {""} : SetNickname(n) \/ EditNickname(n)
    BY <1>5, OneName, EditIsAlone DEF SetNickname
  <1>6. CASE \E s \in StatusIds : ChooseStatus(s)
    BY <1>6 DEF ChooseStatus, vars, nickVars
  <1>7. CASE UNCHANGED accountVars
    BY <1>7 DEF accountVars, vars, nickVars
  <1> QED
    BY <1>1, <1>2, <1>3, <1>4, <1>5, <1>6, <1>7 DEF AccountNext

\* The type of what the account adds: a setting that is not there never becomes a
\* name, because every instance has begun by setting it.
THEOREM AccountTypeCorrect == AccountSpec => []AccountTypeOK
  <1>1. AccountInit => AccountTypeOK /\ NickIsSet
    BY DEF AccountInit, Init, AccountTypeOK, AllNicks, UserStatuses, NickIsSet
  <1>2. ASSUME AccountTypeOK, NickIsSet, [AccountNext]_accountVars
        PROVE  AccountTypeOK'
    <2>1. \A s \in StatusIds : StatusTypeById[s] \in UserStatuses
      BY DEF StatusIds, StatusTypeById, UserStatuses
    <2>2. ASSUME NEW n \in AllNicks, OnSetNickname(n)
          PROVE  nick' \in AllNicks /\ display' \in AllNicks /\ name' \in AllNicks
      BY <2>2 DEF OnSetNickname
    <2>3. CASE LogIn
      <3>1. CASE plugin' # plugin
        <4>1. (IF nick \in {NoNick, ""} THEN UserName ELSE nick) \in AllNicks
          BY <1>2 DEF AccountTypeOK, AllNicks
        <4>2. TakeNickname /\ status' \in StatusLoaded /\ chosen' = chosen
          BY <2>3, <3>1 DEF LogIn
        <4>3. nick' \in AllNicks /\ display' \in AllNicks /\ name' \in AllNicks
          BY <2>2, <4>1, <4>2 DEF TakeNickname
        <4> QED
          BY <1>2, <4>2, <4>3 DEF AccountTypeOK, StatusLoaded, UserStatuses
      <3>2. CASE plugin' = plugin
        BY <1>2, <2>3, <3>2 DEF LogIn, nickVars, AccountTypeOK
      <3> QED
        BY <3>1, <3>2
    <2>4. CASE FoundOrLost
      <3>1. nick \in AllNicks /\ name \in AllNicks
        BY <1>2, <2>4 DEF FoundOrLost, UpdateClientStatus, NickIsSet, AccountTypeOK
      <3>2. nick' \in AllNicks /\ display' \in AllNicks /\ name' \in AllNicks
        BY <1>2, <2>2, <2>4, <3>1 DEF FoundOrLost, nickVars, AccountTypeOK
      <3>3. chosen' = chosen /\ status' \in UserStatuses
        BY <1>2, <2>1, <2>4 DEF FoundOrLost, AccountTypeOK
      <3> QED
        BY <1>2, <3>2, <3>3 DEF AccountTypeOK
    <2>5. CASE LogOut
      BY <1>2, <2>5 DEF LogOut, AccountTypeOK, AllNicks, UserStatuses
    <2>6. CASE Meanwhile
      BY <1>2, <2>6 DEF Meanwhile, nickVars, AccountTypeOK
    <2>7. CASE \E n \in Nicks \cup {""} : SetNickname(n) \/ EditNickname(n)
      <3>1. PICK n \in Nicks \cup {""} : SetNickname(n) \/ EditNickname(n)
        BY <2>7
      <3>2. CASE SetNickname(n)
        BY <1>2, <2>2, <3>2 DEF SetNickname, AccountTypeOK, AllNicks
      <3>3. CASE EditNickname(n)
        <4>1. nick' = n /\ display' = display /\ name' = name
              /\ chosen' = chosen /\ status' = status
          BY <3>3 DEF EditNickname
        <4>2. n \in AllNicks
          BY DEF AllNicks
        <4> QED
          BY <1>2, <4>1, <4>2 DEF AccountTypeOK
      <3> QED
        BY <3>1, <3>2, <3>3
    <2>8. CASE \E s \in StatusIds : ChooseStatus(s)
      BY <1>2, <2>1, <2>8 DEF ChooseStatus, nickVars, AccountTypeOK
    <2>9. CASE UNCHANGED accountVars
      BY <1>2, <2>9 DEF accountVars, nickVars, AccountTypeOK
    <2> QED
      BY <1>2, <2>3, <2>4, <2>5, <2>6, <2>7, <2>8, <2>9 DEF AccountNext
  <1> QED
    BY <1>1, <1>2, NickStaysSet, PTL DEF AccountSpec

\* Nobody but the user replaces a nickname he has set (toxprpl.c:490-503, 139-160).
THEOREM NicknameIsKept == AccountSpec => NicknameKept
  <1>1. ASSUME [AccountNext]_accountVars, nick' # nick, nick \in Nicks
        PROVE  \E n \in Nicks \cup {""} : SetNickname(n) \/ EditNickname(n)
    <2>1. nick # "" /\ nick # NoNick
      BY <1>1, AccountAssumption
    <2>2. ~LogIn
      BY <1>1, <2>1 DEF LogIn, TakeNickname, OnSetNickname, nickVars
    <2>3. ~FoundOrLost
      BY <1>1, <2>1 DEF FoundOrLost, OnSetNickname, nickVars
    <2>4. ~LogOut /\ ~Meanwhile
      BY <1>1 DEF LogOut, Meanwhile, nickVars
    <2>5. ~(\E s \in StatusIds : ChooseStatus(s)) /\ ~(UNCHANGED accountVars)
      BY <1>1 DEF ChooseStatus, accountVars, nickVars
    <2> QED
      BY <1>1, <2>2, <2>3, <2>4, <2>5 DEF AccountNext
  <1>2. [AccountNext]_accountVars
        => [nick' # nick /\ nick \in Nicks
            => (\E n \in Nicks \cup {""} : SetNickname(n) \/ EditNickname(n))]_accountVars
    BY <1>1
  <1> QED
    BY <1>2, PTL DEF AccountSpec, NicknameKept

-----------------------------------------------------------------------------
(* The status *)

\* Only a connection with an instance has found the DHT.
FoundByOne == flag => plugin # 0

\* The status shown is the one chosen, from one step to the next.
LEMMA StatusStaysChosen ==
  ASSUME IInv, OwnStatusShown, FoundByOne, [AccountNext]_accountVars
  PROVE  OwnStatusShown' /\ FoundByOne'
  <1> USE DEF OwnStatusShown, FoundByOne
  <1>1. CASE LogIn
    <2>1. CASE plugin' # plugin
      BY <1>1, <2>1, LogInProgress
    <2>2. CASE plugin' = plugin
      <3>1. UNCHANGED <<status, chosen>>
        BY <1>1, <2>2 DEF LogIn
      <3>2. flag' => flag /\ (gc' = "connected" => gc = "connected")
        BY <1>1, LogInProgress
      <3> QED
        BY <2>2, <3>1, <3>2
    <2> QED
      BY <2>1, <2>2
  <1>2. CASE FoundOrLost
    <2>1. plugin' = plugin /\ plugin # 0 /\ chosen' = chosen
      BY <1>2 DEF FoundOrLost, UpdateClientStatus
    <2>2. flag' => status' = StatusTypeById[chosen]
      BY <1>2 DEF FoundOrLost
    <2> QED
      BY <2>1, <2>2
  <1>3. CASE LogOut
    BY <1>3 DEF LogOut, ShutdownPRPL, Crash
  <1>4. CASE Meanwhile
    BY <1>4 DEF Meanwhile, ExportUser, SaveAccount, DHTChanges
  <1>5. CASE \E n \in Nicks \cup {""} : SetNickname(n) \/ EditNickname(n)
    <2>1. UNCHANGED <<flag, gc, plugin, chosen, status>>
      BY <1>5 DEF SetNickname, EditNickname, vars
    <2> QED
      BY <2>1
  <1>6. CASE \E s \in StatusIds : ChooseStatus(s)
    <2>1. PICK s \in StatusIds : ChooseStatus(s)
      BY <1>6
    <2>2. UNCHANGED <<flag, gc, plugin>> /\ chosen' = s
      BY <2>1 DEF ChooseStatus, vars
    <2>3. gc = "connected" /\ plugin # 0 => status' = StatusTypeById[s]
      BY <2>1 DEF ChooseStatus
    <2> QED
      BY <2>2, <2>3
  <1>7. CASE UNCHANGED accountVars
    BY <1>7 DEF accountVars, vars
  <1> QED
    BY <1>1, <1>2, <1>3, <1>4, <1>5, <1>6, <1>7 DEF AccountNext

\* Once the connection is up, the status friends see is the one the user chose last
\* (toxprpl.c:162-166, purple/account.c:185-206), whatever fails.
THEOREM ChosenStatusIsShown == AccountSpec => []OwnStatusShown
  <1>1. AccountInit => OwnStatusShown /\ FoundByOne
    BY DEF AccountInit, Init, OwnStatusShown, FoundByOne
  <1> QED
    BY <1>1, StatusStaysChosen, SessionInvariant, PTL DEF AccountSpec
=============================================================================
