---------------------------- MODULE SessionProofs ----------------------------
(***************************************************************************)
(* Proofs about Session, for any number of instances and connections and   *)
(* for every combination of the failures its constants allow. What holds   *)
(* whatever fails is in Base; the other parts of the inductive invariant   *)
(* hold where the failure their statement names is excluded.               *)
(***************************************************************************)
EXTENDS Session, TLAPS

States == {"none", "connecting", "connected", "error"}

\* The instance of the connection is alive, later ones are not, and a connection
\* that is closed has neither an instance nor a dialog.
Base ==
  /\ TypeOK
  /\ \A n \in Instances : n > made => tox[n] = Null
  /\ plugin # 0 => tox[plugin] # Null
  /\ gc = "none" => plugin = 0 /\ dialogs = NoDialogs
  /\ gc # "none" => login \in 1 .. MaxLogins

\* At most one dialog is open; only the notice of a failed export is open beside an
\* instance, and setup and import are only for an account without data.
OneDialog ==
  \/ dialogs = NoDialogs
  \/ \E k \in DialogKinds :
       /\ dialogs = Opened(NoDialogs, k)
       /\ plugin # 0 => k = "notice" /\ ExportFails
       /\ k # "notice" => messenger = Null

\* A good identity in the account string is the one that runs.
Agreed ==
  /\ plugin # 0 /\ messenger \in Identities => tox[plugin] = messenger
  /\ ~BadData => messenger # Rejected /\ (plugin # 0 => messenger \in Identities)

IInv ==
  /\ Base
  /\ ~(BadData /\ ExportFails) => OneDialog /\ Agreed
  /\ ~ExportFails => OneSession
  /\ ~ExportFails /\ ~ToxNewFails => OneWayIn

-----------------------------------------------------------------------------
(* Lemmas *)

\* The numbers the module gives to things are distinct.
LEMMA Numbers ==
  /\ Instances \subseteq Nat \ {0} /\ Instances \subseteq Identities
  /\ Identities \subseteq Nat \ {0}
  /\ Stored \in Identities /\ Imported \in Identities
  /\ Null \notin Identities /\ Rejected \notin Identities /\ Null # Rejected
  BY SessionAssumption DEF Instances, Identities, Stored, Imported, Null, Rejected

\* Opening and closing a dialog counts it.
LEMMA Counting ==
  ASSUME NEW d \in [DialogKinds -> Nat], NEW k \in DialogKinds
  PROVE  /\ Opened(d, k) \in [DialogKinds -> Nat]
         /\ d[k] > 0 => Closed(d, k) \in [DialogKinds -> Nat]
         /\ Opened(d, k)[k] = d[k] + 1
         /\ d = NoDialogs => ~(\E j \in DialogKinds : d[j] > 0)
  BY DEF Opened, Closed, NoDialogs

\* A dialog open alone, once closed, leaves none.
LEMMA ClosingLast ==
  ASSUME NEW k \in DialogKinds, OneDialog, dialogs[k] > 0
  PROVE  /\ Closed(dialogs, k) = NoDialogs
         /\ plugin # 0 => k = "notice" /\ ExportFails
         /\ k # "notice" => messenger = Null
  BY DEF OneDialog, Opened, Closed, NoDialogs

\* The three counts of no dialog, and of one.
LEMMA Sums ==
  /\ NoDialogs["setup"] + NoDialogs["file"] + NoDialogs["notice"] = 0
  /\ \A k \in DialogKinds :
       Opened(NoDialogs, k)["setup"] + Opened(NoDialogs, k)["file"]
         + Opened(NoDialogs, k)["notice"] = 1
  BY DEF NoDialogs, Opened, DialogKinds

Messengers == Identities \cup {Null, Rejected}

\* What ToxPRPL_configureToxAndConnect does, the two outcomes of an instance apart.
LEMMA ConfigureResult ==
  ASSUME Base, NEW m \in Messengers, NEW c \in States, Configure(m, c)
  PROVE
    \/ /\ ToxNewFails
       /\ messenger' = m /\ gc' = c
       /\ UNCHANGED <<made, tox, plugin, flag, dht, timers>>
    \/ /\ made + 1 \in Instances /\ made' = made + 1
       /\ messenger' = SavedAs(m, made + 1)
       /\ gc' = "error"
       /\ UNCHANGED <<tox, plugin, flag, dht, timers>>
    \/ /\ made + 1 \in Instances /\ made' = made + 1
       /\ messenger' = SavedAs(m, made + 1)
       /\ gc' = c
       /\ tox' = [tox EXCEPT ![made + 1] = IdentityOf(m, made + 1)]
       /\ plugin' = made + 1 /\ flag' = FALSE /\ dht' = FALSE
       /\ timers' = timers \cup {[instance |-> made + 1, login |-> login']}
  BY DEF Configure

\* What SavedAs and IdentityOf return.
LEMMA SavedResult ==
  ASSUME NEW m \in Messengers, NEW n \in Instances
  PROVE  /\ SavedAs(m, n) \in Messengers /\ SavedAs(m, n) # Rejected
         /\ IdentityOf(m, n) \in Identities
         /\ SavedAs(m, n) \in Identities => SavedAs(m, n) = IdentityOf(m, n)
         /\ m # Rejected => SavedAs(m, n) \in Identities
         /\ m \in Identities => SavedAs(m, n) = m
  BY Numbers DEF SavedAs, IdentityOf, Messengers

\* Base survives it.
LEMMA ConfigureBase ==
  ASSUME Base, NEW m \in Messengers, NEW c \in States \ {"none"}, Configure(m, c),
         login' \in 1 .. MaxLogins, dialogs' \in [DialogKinds -> Nat]
  PROVE  Base'
  <1>1. login' \in 0 .. MaxLogins
    BY SessionAssumption
  <1>2. gc' \in States /\ gc' # "none"
    BY ConfigureResult DEF States
  <1>3. CASE UNCHANGED <<made, tox, plugin, flag, dht, timers>> /\ messenger' = m
    BY <1>1, <1>2, <1>3 DEF Base, TypeOK, Messengers, States
  <1>4. CASE /\ made + 1 \in Instances /\ made' = made + 1
             /\ messenger' = SavedAs(m, made + 1)
             /\ UNCHANGED <<tox, plugin, flag, dht, timers>>
    <2>1. made' \in 0 .. MaxInstances /\ messenger' \in Messengers
      BY <1>4, SavedResult, SessionAssumption DEF Instances
    <2>2. \A n \in Instances : n > made' => tox'[n] = Null
      BY <1>4 DEF Base, TypeOK, Instances
    <2> QED
      BY <1>1, <1>2, <1>4, <2>1, <2>2 DEF Base, TypeOK, Messengers, States
  <1>5. CASE /\ made + 1 \in Instances /\ made' = made + 1
             /\ messenger' = SavedAs(m, made + 1)
             /\ tox' = [tox EXCEPT ![made + 1] = IdentityOf(m, made + 1)]
             /\ plugin' = made + 1 /\ flag' = FALSE /\ dht' = FALSE
             /\ timers' = timers \cup {[instance |-> made + 1, login |-> login']}
    <2>1. made' \in 0 .. MaxInstances /\ messenger' \in Messengers
      BY <1>5, SavedResult, SessionAssumption DEF Instances
    <2>2. IdentityOf(m, made + 1) \in Identities
      BY <1>5, SavedResult
    <2>3. tox' \in [Instances -> Identities \cup {Null}]
      BY <1>5, <2>2 DEF Base, TypeOK
    <2>4. \A n \in Instances : n > made' => tox'[n] = Null
      BY <1>5 DEF Base, TypeOK, Instances
    <2>5. tox'[plugin'] # Null
      BY <1>5, <2>2, Numbers DEF Base, TypeOK
    <2>6. timers' \subseteq [instance : Instances, login : 1 .. MaxLogins]
      BY <1>5 DEF Base, TypeOK
    <2> QED
      BY <1>1, <1>2, <1>5, <2>1, <2>3, <2>4, <2>5, <2>6
      DEF Base, TypeOK, Messengers, States
  <1> QED
    BY <1>3, <1>4, <1>5, ConfigureResult

\* Base survives ToxPRPL_initializePRPL.
LEMMA InitializeBase ==
  ASSUME Base, NEW m \in Messengers, NEW c \in States \ {"none"},
         NEW d \in [DialogKinds -> Nat], InitializePRPL(m, c, d),
         login' \in 1 .. MaxLogins
  PROVE  Base'
  <1>1. CASE m = Null
    <2>1. dialogs' \in [DialogKinds -> Nat]
      BY <1>1, Counting DEF InitializePRPL, DialogKinds
    <2> QED
      BY <1>1, <2>1, SessionAssumption
      DEF InitializePRPL, Base, TypeOK, Messengers, States
  <1>2. CASE m # Null
    BY <1>2, ConfigureBase DEF InitializePRPL
  <1> QED
    BY <1>1, <1>2

\* The login leaves the identity that runs in the account string, when it starts
\* without an instance or over one with that identity.
LEMMA ConfigureAgrees ==
  ASSUME Base, NEW m \in Messengers, NEW c \in States, Configure(m, c),
         plugin = 0 \/ (m \in Identities /\ tox[plugin] = m),
         ~BadData => m # Rejected
  PROVE  Agreed'
  <1>1. CASE UNCHANGED <<tox, plugin>> /\ messenger' = m
    BY <1>1, Numbers DEF Agreed, Messengers
  <1>2. CASE /\ made + 1 \in Instances
             /\ messenger' = SavedAs(m, made + 1) /\ UNCHANGED <<tox, plugin>>
    BY <1>2, SavedResult DEF Agreed
  <1>3. CASE /\ made + 1 \in Instances
             /\ messenger' = SavedAs(m, made + 1)
             /\ tox' = [tox EXCEPT ![made + 1] = IdentityOf(m, made + 1)]
             /\ plugin' = made + 1
    <2>1. tox'[plugin'] = IdentityOf(m, made + 1)
      BY <1>3 DEF Base, TypeOK
    <2> QED
      BY <1>3, <2>1, SavedResult DEF Agreed
  <1> QED
    BY <1>1, <1>2, <1>3, ConfigureResult

\* The same of ToxPRPL_initializePRPL, which leaves a dialog or a session.
LEMMA InitializeAgrees ==
  ASSUME Base, NEW m \in Messengers, NEW c \in States, InitializePRPL(m, c, NoDialogs),
         plugin = 0 \/ (m \in Identities /\ tox[plugin] = m),
         ~BadData => m # Rejected
  PROVE  OneDialog' /\ Agreed'
  <1>1. CASE m = Null
    <2>1. plugin' = 0 /\ messenger' = Null /\ dialogs' = Opened(NoDialogs, "setup")
      BY <1>1, Numbers DEF InitializePRPL
    <2>2. OneDialog'
      BY <2>1 DEF OneDialog, DialogKinds
    <2> QED
      BY <2>1, <2>2, Numbers DEF Agreed
  <1>2. CASE m # Null
    <2>1. dialogs' = NoDialogs /\ Configure(m, c)
      BY <1>2 DEF InitializePRPL
    <2> QED
      BY <2>1, ConfigureAgrees DEF OneDialog
  <1> QED
    BY <1>1, <1>2

\* A login that finds no session leaves one at most.
LEMMA ConfigureSession ==
  ASSUME Base, NEW m \in Messengers, NEW c \in States, Configure(m, c),
         plugin = 0, OneSession
  PROVE  OneSession'
  <1>1. Alive = {} /\ timers = {}
    BY DEF OneSession
  <1>2. CASE UNCHANGED <<tox, plugin, timers>>
    BY <1>1, <1>2 DEF OneSession, Alive
  <1>3. CASE /\ made + 1 \in Instances
             /\ tox' = [tox EXCEPT ![made + 1] = IdentityOf(m, made + 1)]
             /\ plugin' = made + 1
             /\ timers' = timers \cup {[instance |-> made + 1, login |-> login']}
    <2>1. IdentityOf(m, made + 1) # Null
      BY <1>3, SavedResult, Numbers
    <2>2. Alive' = {made + 1}
      BY <1>1, <1>3, <2>1 DEF Alive, Base, TypeOK
    <2>3. made + 1 # 0
      BY <1>3, Numbers
    <2> QED
      BY <1>1, <1>3, <2>2, <2>3 DEF OneSession, Timer
  <1> QED
    BY <1>2, <1>3, ConfigureResult

\* The same of ToxPRPL_initializePRPL.
LEMMA InitializeSession ==
  ASSUME Base, NEW m \in Messengers, NEW c \in States, NEW d,
         InitializePRPL(m, c, d), plugin = 0, OneSession
  PROVE  OneSession'
  <1>1. CASE m = Null
    BY <1>1, Numbers DEF InitializePRPL, OneSession, Alive
  <1>2. CASE m # Null
    BY <1>2, ConfigureSession DEF InitializePRPL
  <1> QED
    BY <1>1, <1>2

\* A login that gets its instance leaves something to wait for.
LEMMA ConfigureGoesOn ==
  ASSUME Base, NEW m \in Messengers, NEW c \in States, Configure(m, c),
         ~ToxNewFails, dialogs' = NoDialogs
  PROVE  OneWayIn'
  <1>1. gc' = "error" \/ (made + 1 \in Instances /\ plugin' = made + 1)
    BY ConfigureResult
  <1>2. plugin' = 0 => gc' = "error"
    BY <1>1, Numbers
  <1> QED
    BY <1>1, <1>2, Sums DEF OneWayIn

\* The same of ToxPRPL_initializePRPL: the setup dialog, or an instance.
LEMMA InitializeGoesOn ==
  ASSUME Base, NEW m \in Messengers, NEW c \in States,
         InitializePRPL(m, c, NoDialogs), plugin = 0, ~ToxNewFails
  PROVE  OneWayIn'
  <1>1. CASE m = Null
    BY <1>1, Sums DEF InitializePRPL, OneWayIn, DialogKinds
  <1>2. CASE m # Null
    BY <1>2, ConfigureGoesOn DEF InitializePRPL
  <1> QED
    BY <1>1, <1>2

-----------------------------------------------------------------------------
(* The inductive invariant *)

\* It holds before the first login.
LEMMA Initially == Init => IInv
  <1> SUFFICES ASSUME Init PROVE IInv
    OBVIOUS
  <1>1. Base
    <2>1. messenger \in Identities \cup {Null, Rejected}
      BY Numbers DEF Init, Bad
    <2>2. dialogs \in [DialogKinds -> Nat]
      BY DEF Init, NoDialogs
    <2>3. tox \in [Instances -> Identities \cup {Null}]
      BY DEF Init
    <2>4. TypeOK
      <3>1. login \in 0 .. MaxLogins /\ made \in 0 .. MaxInstances
        BY SessionAssumption DEF Init
      <3>2. timers \subseteq [instance : Instances, login : 1 .. MaxLogins]
        BY DEF Init
      <3>3. flag \in BOOLEAN /\ dht \in BOOLEAN
        BY DEF Init
      <3>4. gc \in {"none", "connecting", "connected", "error"}
            /\ plugin \in Instances \cup {0}
        BY DEF Init
      <3> QED
        BY <2>1, <2>2, <2>3, <3>1, <3>2, <3>3, <3>4 DEF TypeOK
    <2>5. \A n \in Instances : n > made => tox[n] = Null
      BY DEF Init
    <2> QED
      BY <2>4, <2>5 DEF Init, Base
  <1>2. OneDialog /\ Agreed
    BY Numbers DEF Init, OneDialog, Agreed, Bad
  <1>3. OneSession
    BY DEF Init, OneSession, Alive
  <1>4. OneWayIn
    BY DEF Init, OneWayIn
  <1> QED
    BY <1>1, <1>2, <1>3, <1>4 DEF IInv

\* A dialog is open only in a connection.
LEMMA DialogNeedsLogin ==
  ASSUME Base, NEW k \in DialogKinds, dialogs[k] > 0
  PROVE  gc \in States \ {"none"} /\ login \in 1 .. MaxLogins
  BY Counting DEF Base, TypeOK, States

\* The account string holds what it can hold.
LEMMA MessengerType == Base => messenger \in Messengers
  BY DEF Base, TypeOK, Messengers

\* libpurple's login.
LEMMA LoginStep ==
  ASSUME IInv, Login
  PROVE  IInv'
  <1> USE DEF Login
  <1>1. Base /\ plugin = 0 /\ dialogs = NoDialogs
    BY DEF IInv, Base
  <1>2. login' \in 1 .. MaxLogins
    BY <1>1, SessionAssumption DEF Base, TypeOK
  <1>3. "connecting" \in States \ {"none"} /\ messenger \in Messengers
    BY <1>1, MessengerType DEF States
  <1>4. NoDialogs \in [DialogKinds -> Nat]
    BY DEF NoDialogs
  <1>5. InitializePRPL(messenger, "connecting", NoDialogs)
    BY <1>1
  <1>6. Base'
    BY <1>1, <1>2, <1>3, <1>4, <1>5, InitializeBase
  <1>7. ASSUME ~(BadData /\ ExportFails) PROVE OneDialog' /\ Agreed'
    BY <1>1, <1>3, <1>5, <1>7, InitializeAgrees DEF IInv, Agreed
  <1>8. ASSUME ~ExportFails PROVE OneSession'
    BY <1>1, <1>3, <1>5, <1>8, InitializeSession DEF IInv
  <1>9. ASSUME ~ToxNewFails PROVE OneWayIn'
    BY <1>1, <1>3, <1>5, <1>9, InitializeGoesOn
  <1> QED
    BY <1>6, <1>7, <1>8, <1>9 DEF IInv

\* "Create new Tox account".
LEMMA CreateNewStep ==
  ASSUME IInv, CreateNew
  PROVE  IInv'
  <1> USE DEF CreateNew
  <1>1. Base /\ "setup" \in DialogKinds
    BY DEF IInv, DialogKinds
  <1>2. gc \in States \ {"none"} /\ login' \in 1 .. MaxLogins
    BY <1>1, DialogNeedsLogin
  <1>3. messenger \in Messengers
    BY <1>1, MessengerType
  <1>4. dialogs' \in [DialogKinds -> Nat]
    BY <1>1, Counting DEF Base, TypeOK
  <1>5. Base'
    BY <1>1, <1>2, <1>3, <1>4, ConfigureBase
  <1>6. ASSUME ~(BadData /\ ExportFails)
        PROVE  plugin = 0 /\ messenger = Null /\ dialogs' = NoDialogs
    BY <1>1, <1>6, ClosingLast DEF IInv
  <1>7. ASSUME ~(BadData /\ ExportFails) PROVE OneDialog' /\ Agreed'
    <2>1. OneDialog'
      BY <1>6, <1>7 DEF OneDialog
    <2>2. Agreed'
      BY <1>1, <1>2, <1>3, <1>6, <1>7, ConfigureAgrees, Numbers
    <2> QED
      BY <2>1, <2>2
  <1>8. ASSUME ~ExportFails PROVE OneSession'
    BY <1>1, <1>2, <1>3, <1>6, <1>8, ConfigureSession DEF IInv
  <1>9. ASSUME ~ExportFails, ~ToxNewFails PROVE OneWayIn'
    BY <1>1, <1>2, <1>3, <1>6, <1>9, ConfigureGoesOn
  <1> QED
    BY <1>5, <1>7, <1>8, <1>9 DEF IInv

\* A dialog is answered and its callback logs in, with the account string as it is
\* or with what the user chose to import.
LEMMA AnswerStep ==
  ASSUME IInv, NEW k \in DialogKinds, dialogs[k] > 0, NEW m \in Messengers,
         InitializePRPL(m, gc, Closed(dialogs, k)), UNCHANGED login,
         m = messenger \/ (k # "notice" /\ (m = Rejected => BadData))
  PROVE  IInv'
  <1>1. Base
    BY DEF IInv
  <1>2. gc \in States \ {"none"} /\ login' \in 1 .. MaxLogins
    BY <1>1, DialogNeedsLogin
  <1>3. Closed(dialogs, k) \in [DialogKinds -> Nat]
    BY <1>1, Counting DEF Base, TypeOK
  <1>4. Base'
    BY <1>1, <1>2, <1>3, InitializeBase
  <1>5. ASSUME ~(BadData /\ ExportFails)
        PROVE  /\ Closed(dialogs, k) = NoDialogs
               /\ plugin # 0 => k = "notice" /\ ExportFails
    BY <1>5, ClosingLast DEF IInv
  <1>6. ASSUME ~(BadData /\ ExportFails) PROVE OneDialog' /\ Agreed'
    <2>1. plugin = 0 \/ (m \in Identities /\ tox[plugin] = m)
      BY <1>5, <1>6 DEF IInv, Agreed
    <2>2. ~BadData => m # Rejected
      BY <1>6 DEF IInv, Agreed
    <2>3. InitializePRPL(m, gc, NoDialogs)
      BY <1>5, <1>6
    <2> QED
      BY <1>1, <1>2, <2>1, <2>2, <2>3, InitializeAgrees
  <1>7. ASSUME ~ExportFails PROVE OneSession'
    BY <1>1, <1>2, <1>5, <1>7, InitializeSession DEF IInv
  <1>8. ASSUME ~ExportFails, ~ToxNewFails PROVE OneWayIn'
    <2>1. plugin = 0 /\ InitializePRPL(m, gc, NoDialogs)
      BY <1>5, <1>8
    <2> QED
      BY <1>1, <1>2, <1>8, <2>1, InitializeGoesOn
  <1> QED
    BY <1>4, <1>6, <1>7, <1>8 DEF IInv

\* A dialog is answered by another one.
LEMMA ReplaceStep ==
  ASSUME IInv, NEW k \in DialogKinds \ {"notice"}, dialogs[k] > 0,
         NEW j \in DialogKinds, dialogs' = Opened(Closed(dialogs, k), j),
         UNCHANGED <<gc, login, messenger, made, tox, plugin, flag, dht, timers>>
  PROVE  IInv'
  <1>1. Base /\ k \in DialogKinds
    BY DEF IInv
  <1>2. gc # "none"
    BY <1>1, DialogNeedsLogin
  <1>3. Closed(dialogs, k) \in [DialogKinds -> Nat]
    BY <1>1, Counting DEF Base, TypeOK
  <1>4. dialogs' \in [DialogKinds -> Nat]
    BY <1>3, Counting
  <1>5. Base'
    BY <1>1, <1>2, <1>4 DEF Base, TypeOK
  <1>6. ASSUME ~(BadData /\ ExportFails)
        PROVE  /\ dialogs' = Opened(NoDialogs, j)
               /\ plugin = 0 /\ messenger = Null
    BY <1>1, <1>6, ClosingLast DEF IInv
  <1>7. ASSUME ~(BadData /\ ExportFails) PROVE OneDialog' /\ Agreed'
    BY <1>6, <1>7 DEF IInv, OneDialog, Agreed
  <1>8. ASSUME ~ExportFails PROVE OneSession'
    BY <1>8 DEF IInv, OneSession, Alive, Timer
  <1>9. ASSUME ~ExportFails PROVE OneWayIn'
    BY <1>6, <1>9, Sums DEF OneWayIn
  <1> QED
    BY <1>5, <1>7, <1>8, <1>9 DEF IInv

\* "Import existing Tox account" and its file dialog.
LEMMA ImportStep ==
  ASSUME IInv, ImportUser
  PROVE  IInv'
  <1>1. "file" \in DialogKinds \ {"notice"} /\ "notice" \in DialogKinds
    BY DEF DialogKinds
  <1>2. ASSUME NEW m \in {Imported} \cup Bad,
               InitializePRPL(m, gc, Closed(dialogs, "file"))
        PROVE  IInv'
    <2>1. m \in Messengers /\ (m = Rejected => BadData)
      BY Numbers DEF Bad, Messengers
    <2> QED
      BY <1>1, <1>2, <2>1, AnswerStep DEF ImportUser
  <1>3. CASE /\ dialogs' = Opened(Closed(dialogs, "file"), "notice")
             /\ UNCHANGED <<gc, messenger, made, tox, plugin, flag, dht, timers>>
    BY <1>1, <1>3, ReplaceStep DEF ImportUser
  <1> QED
    BY <1>2, <1>3 DEF ImportUser

\* The notice of an export is the only dialog beside an instance.
LEMMA ExportStep ==
  ASSUME IInv, ExportUser
  PROVE  IInv'
  <1> USE DEF ExportUser
  <1>1. Base /\ "notice" \in DialogKinds
    BY DEF IInv, DialogKinds
  <1>2. dialogs' \in [DialogKinds -> Nat]
    BY <1>1, Counting DEF Base, TypeOK
  <1>3. Base'
    BY <1>1, <1>2 DEF Base, TypeOK
  <1>4. ASSUME ~(BadData /\ ExportFails) PROVE OneDialog' /\ Agreed'
    <2>1. OneDialog /\ Agreed
      BY <1>4 DEF IInv
    <2>2. dialogs = NoDialogs
      BY <2>1, <1>1 DEF OneDialog, Opened, NoDialogs
    <2> QED
      BY <1>1, <2>1, <2>2 DEF OneDialog, Agreed
  <1> QED
    BY <1>3, <1>4 DEF IInv

\* A save writes the identity that runs.
LEMMA SaveStep ==
  ASSUME IInv, SaveAccount
  PROVE  IInv'
  <1> USE DEF SaveAccount
  <1>1. Base
    BY DEF IInv
  <1>2. messenger' \in Identities /\ messenger' = tox[plugin]
    BY <1>1 DEF Base, TypeOK
  <1>3. Base'
    BY <1>1, <1>2 DEF Base, TypeOK
  <1>4. ASSUME ~(BadData /\ ExportFails) PROVE OneDialog' /\ Agreed'
    <2>1. OneDialog'
      BY <1>4, Numbers DEF IInv, OneDialog
    <2>2. Agreed'
      BY <1>2, Numbers DEF Agreed
    <2> QED
      BY <2>1, <2>2
  <1>5. OneSession => OneSession'
    BY DEF OneSession, Alive, Timer
  <1>6. OneWayIn => OneWayIn'
    BY DEF OneWayIn
  <1> QED
    BY <1>3, <1>4, <1>5, <1>6 DEF IInv

\* The DHT and the timer that looks at it.
LEMMA DHTStep ==
  ASSUME IInv, DHTChanges \/ UpdateClientStatus
  PROVE  IInv'
  <1>1. /\ UNCHANGED <<login, messenger, dialogs, made, tox, plugin, timers>>
        /\ gc' = gc \/ (gc' = "connected" /\ gc # "none")
    BY DEF DHTChanges, UpdateClientStatus
  <1>2. flag' \in BOOLEAN /\ dht' \in BOOLEAN
    BY DEF DHTChanges, UpdateClientStatus, IInv, Base, TypeOK
  <1>3. Base'
    BY <1>1, <1>2 DEF IInv, Base, TypeOK
  <1>4. OneDialog /\ Agreed => OneDialog' /\ Agreed'
    BY <1>1 DEF OneDialog, Agreed
  <1>5. OneSession => OneSession'
    BY <1>1 DEF OneSession, Alive, Timer
  <1>6. OneWayIn => OneWayIn'
    BY <1>1 DEF OneWayIn
  <1> QED
    BY <1>3, <1>4, <1>5, <1>6 DEF IInv

\* The connection is closed by libpurple, and its data with it.
LEMMA ShutdownStep ==
  ASSUME IInv, ShutdownPRPL
  PROVE  IInv'
  <1> USE DEF ShutdownPRPL
  <1>1. Base
    BY DEF IInv
  <1>2. messenger' \in Messengers
    BY <1>1 DEF Base, TypeOK, Messengers
  <1>3. tox' \in [Instances -> Identities \cup {Null}]
    BY <1>1 DEF Base, TypeOK
  <1>4. dialogs' \in [DialogKinds -> Nat]
    BY DEF NoDialogs
  <1>5. \A n \in Instances : n > made' => tox'[n] = Null
    BY <1>1 DEF Base, TypeOK
  <1>6. TypeOK'
    BY <1>1, <1>2, <1>3, <1>4 DEF Base, TypeOK, Messengers
  <1>7. Base'
    BY <1>5, <1>6 DEF Base
  <1>8. ASSUME ~(BadData /\ ExportFails) PROVE OneDialog' /\ Agreed'
    <2>1. Agreed
      BY <1>8 DEF IInv
    <2>2. plugin # 0 => messenger' \in Identities
      BY <1>1 DEF Base, TypeOK
    <2>3. ~BadData => messenger' # Rejected
      BY <2>1, <2>2, Numbers DEF Agreed
    <2> QED
      BY <2>3 DEF OneDialog, Agreed
  <1>9. ASSUME ~ExportFails PROVE OneSession'
    <2>1. Alive = {plugin} \ {0} /\ timers = {Timer(n) : n \in Alive}
      BY <1>9 DEF IInv, OneSession
    <2>2. Alive' = {}
      BY <2>1 DEF Alive
    <2>3. timers \subseteq {Timer(plugin)}
      BY <2>1
    <2> QED
      BY <2>2, <2>3 DEF OneSession
  <1>10. OneWayIn'
    BY DEF OneWayIn
  <1> QED
    BY <1>7, <1>8, <1>9, <1>10 DEF IInv

\* The client dies.
LEMMA CrashStep ==
  ASSUME IInv, Crash
  PROVE  IInv'
  <1> USE DEF Crash
  <1>1. Base
    BY DEF IInv
  <1>2. dialogs' \in [DialogKinds -> Nat]
    BY DEF NoDialogs
  <1>3. Base'
    BY <1>1, <1>2 DEF Base, TypeOK
  <1>4. ASSUME ~(BadData /\ ExportFails) PROVE OneDialog' /\ Agreed'
    BY <1>4 DEF IInv, OneDialog, Agreed
  <1>5. OneSession'
    BY DEF OneSession, Alive
  <1>6. OneWayIn'
    BY DEF OneWayIn
  <1> QED
    BY <1>3, <1>4, <1>5, <1>6 DEF IInv

\* Every step preserves the inductive invariant.
LEMMA Inductive == IInv /\ [Next]_vars => IInv'
  <1> SUFFICES ASSUME IInv, [Next]_vars PROVE IInv'
    OBVIOUS
  <1>1. "setup" \in DialogKinds \ {"notice"} /\ {"file", "notice"} \subseteq DialogKinds
    BY DEF DialogKinds
  <1>2. messenger \in Messengers
    BY MessengerType DEF IInv
  <1>3. CASE PromptAccountImport
    BY <1>1, <1>3, ReplaceStep DEF PromptAccountImport
  <1>4. CASE CancelImport
    BY <1>1, <1>2, <1>4, AnswerStep DEF CancelImport
  <1>5. CASE CloseNotice
    BY <1>1, <1>2, <1>5, AnswerStep DEF CloseNotice
  <1>6. CASE UNCHANGED vars
    BY <1>6 DEF vars, IInv, Base, TypeOK, OneDialog, Agreed, OneSession, OneWayIn,
      Alive, Timer
  <1> QED
    BY <1>3, <1>4, <1>5, <1>6, LoginStep, CreateNewStep, ImportStep, ExportStep,
      SaveStep, DHTStep, ShutdownStep, CrashStep DEF Next

-----------------------------------------------------------------------------
(* Theorems *)

\* The inductive invariant holds in every reachable state, whatever fails.
THEOREM Invariance == Spec => []IInv
  <1>1. Init => IInv
    BY Initially
  <1>2. IInv /\ [Next]_vars => IInv'
    BY Inductive
  <1> QED
    BY <1>1, <1>2, PTL DEF Spec

\* The type of the state of a session, whatever fails.
THEOREM TypeCorrect == Spec => []TypeOK
  <1>1. IInv => TypeOK
    BY DEF IInv, Base
  <1> QED
    BY <1>1, Invariance, PTL

\* A connection has one instance and its timers, however often the login goes round
\* its dialogs, when no export fails (toxprpl.c:337-504, 548-580).
THEOREM SessionIsOne ==
  ASSUME ~ExportFails
  PROVE  Spec => []OneSession
  <1>1. IInv => OneSession
    BY DEF IInv
  <1> QED
    BY <1>1, Invariance, PTL

\* A connection being opened waits for one dialog or one instance, when besides
\* tox_new finds its memory (toxprpl.c:510-542).
THEOREM WayInIsOne ==
  ASSUME ~ExportFails, ~ToxNewFails
  PROVE  Spec => []OneWayIn
  <1>1. IInv => OneWayIn
    BY DEF IInv
  <1> QED
    BY <1>1, Invariance, PTL

\* After a logout no instance and no timer is left, for any number of logins, when
\* no export fails (toxprpl.c:548-584): session_export shows what happens otherwise.
THEOREM LogoutLeavesNothing ==
  ASSUME ~ExportFails
  PROVE  Spec => []LogoutEndsSession
  <1>1. IInv => LogoutEndsSession
    BY DEF IInv, Base, OneSession, LogoutEndsSession
  <1> QED
    BY <1>1, Invariance, PTL

\* The identity that runs is in the account string, when libtox accepts its data,
\* even if exports fail and log in again (toxprpl.c:420-436).
THEOREM CrashKeepsIdentity ==
  ASSUME ~BadData
  PROVE  Spec => []IdentitySurvivesCrash
  <1>1. IInv => IdentitySurvivesCrash
    BY DEF IInv, Agreed, IdentitySurvivesCrash
  <1> QED
    BY <1>1, Invariance, PTL

\* A step of the login writes what was to be loaded or, where there was nothing or
\* nothing acceptable, something in its place.
LEMMA LoginKeeps ==
  ASSUME Base, NEW m \in Identities, NEW c \in States, NEW d, InitializePRPL(m, c, d)
  PROVE  messenger' = m
  <1>1. m # Null /\ m \in Messengers
    BY Numbers DEF Messengers
  <1>2. Configure(m, c)
    BY <1>1 DEF InitializePRPL
  <1> QED
    BY <1>1, <1>2, ConfigureResult, SavedResult

\* No step replaces a good identity in the account string, unless tox_load rejects
\* data and exports fail as well (toxprpl.c:420-436, purple/account.c:76-80, 147-160).
THEOREM IdentityIsKept ==
  ASSUME ~(BadData /\ ExportFails)
  PROVE  Spec => IdentityKept
  <1>1. ASSUME IInv, [Next]_vars, messenger \in Identities
        PROVE  messenger' = messenger
    <2>1. Base /\ OneDialog /\ Agreed
      BY <1>1 DEF IInv
    <2>2. gc \in States /\ "connecting" \in States /\ {"setup", "file"} \subseteq DialogKinds
      BY <2>1 DEF Base, TypeOK, States, DialogKinds
    <2>3. messenger \in Messengers /\ messenger # Null
      BY <1>1, Numbers DEF Messengers
    <2>4. CASE Login
      BY <1>1, <2>1, <2>2, <2>4, LoginKeeps DEF Login
    <2>5. CASE CreateNew
      BY <2>1, <2>2, <2>3, <2>5, ClosingLast DEF CreateNew
    <2>6. CASE ImportUser
      BY <2>1, <2>2, <2>3, <2>6, ClosingLast DEF ImportUser
    <2>7. CASE CancelImport
      BY <1>1, <2>1, <2>2, <2>7, LoginKeeps DEF CancelImport
    <2>8. CASE CloseNotice
      BY <1>1, <2>1, <2>2, <2>8, LoginKeeps DEF CloseNotice
    <2>9. CASE SaveAccount
      BY <1>1, <2>1, <2>9 DEF SaveAccount, Agreed
    <2>10. CASE ShutdownPRPL
      BY <1>1, <2>1, <2>10 DEF ShutdownPRPL, Agreed
    <2> QED
      BY <1>1, <2>4, <2>5, <2>6, <2>7, <2>8, <2>9, <2>10
      DEF Next, vars, PromptAccountImport, ExportUser, DHTChanges, UpdateClientStatus, Crash
  <1>2. IInv /\ [Next]_vars => [(messenger \in Identities) => messenger' = messenger]_vars
    BY <1>1
  <1> QED
    BY <1>2, Invariance, PTL DEF Spec, IdentityKept
=============================================================================
