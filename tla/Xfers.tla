-------------------------------- MODULE Xfers --------------------------------
(***************************************************************************)
(* File transfers (purple/xfers.c, tox/xfers.c, common/xfers.c): the       *)
(* PurpleXfer objects libpurple drives through the plugin's operations,    *)
(* the file ports of libtox behind them, and the idle callbacks that push  *)
(* an outgoing file in between.                                            *)
(*                                                                         *)
(* A transfer is named three ways: libpurple holds the object, libtox the  *)
(* (direction, friend number, file number), and the idle callback a        *)
(* pointer. The plugin joins them in xfer->data, in ToxPRPL_findXfer and   *)
(* in the running flag of the callback's record.                           *)
(*                                                                         *)
(* Everything runs on one main loop. The tox_do that                       *)
(* ToxPRPL_Purple_writeXfer calls when libtox takes no data runs libtox's  *)
(* callbacks inside the idle callback; the callback touches nothing of the *)
(* transfer afterwards, so these are steps of their own here.              *)
(***************************************************************************)
EXTENDS Integers

CONSTANTS
  Friends,     \* friend numbers of the session
  SendFiles,   \* file numbers libtox gives to outgoing files
  RecvFiles,   \* file numbers the friends give to theirs
  Sizes,       \* sizes of files, in the pieces libtox takes at a time
  MaxXfers,    \* bound: transfers of the session
  MaxIdles,    \* bound: idle callbacks at a time
  FileErrors,  \* opening, reading or writing the local file may fail
  Early,       \* a friend may send FINISHED before the user has answered
  Disconnects, \* the account may go offline while transfers run
  Replaces     \* the number of a friend may be given to another one

ASSUME XfersAssumption ==
  /\ Friends \subseteq Nat /\ SendFiles \subseteq Nat /\ RecvFiles \subseteq Nat
  /\ Sizes \subseteq Nat
  /\ MaxXfers \in Nat \ {0} /\ MaxIdles \in Nat \ {0}
  /\ FileErrors \in BOOLEAN /\ Early \in BOOLEAN /\ Disconnects \in BOOLEAN
  /\ Replaces \in BOOLEAN

VARIABLES
  up,     \* whether the Tox instance exists
  xf,     \* the PurpleXfer objects, by order of creation
  idles,  \* the ToxPRPL_IdleWriteData records
  port,   \* libtox's side: (direction, friend, file) |-> its state
  fault   \* the memory error the process has met, or "none"

vars == <<up, xf, idles, port, fault>>

XferIds == 1 .. MaxXfers
IdleIds == 1 .. MaxIdles
Ports == ({"send"} \X Friends \X SendFiles) \cup ({"recv"} \X Friends \X RecvFiles)

\* status, ref, size, sent and remaining are libpurple's; fp is dest_fp # NULL.
\* set is xfer->data # NULL; the fields after it are ToxPRPL_XferData, which
\* g_new0 fills with zeros. dialog: a request of libpurple about it is open.
NoXfer ==
  [kind |-> "none", who |-> 0, status |-> "unknown", ref |-> 0, dialog |-> FALSE,
   fp |-> FALSE, size |-> 0, sent |-> 0, remaining |-> 0,
   set |-> FALSE, tox |-> FALSE, friend |-> 0, file |-> 0, idle |-> 0]

NoIdle == [xfer |-> 0, running |-> FALSE, offset |-> 0, length |-> 0]

FreePort == [state |-> "free", xfer |-> 0, moved |-> 0]

\* A memory error ends the behaviour: what follows is undefined.
Sound == fault = "none"
Online == up /\ Sound

Over(x) == xf[x].status \in {"done", "cancelled"}

Init ==
  /\ up = TRUE
  /\ xf = [x \in XferIds |-> NoXfer]
  /\ idles = [i \in IdleIds |-> NoIdle]
  /\ port = [p \in Ports |-> FreePort]
  /\ fault = "none"

-----------------------------------------------------------------------------
(* What the operations have in common *)

\* purple_xfer_new prepends to the list of transfers.
IsNext(x) == xf[x].kind = "none" /\ \A y \in XferIds : y < x => xf[y].kind # "none"

\* ToxPRPL_findXfer takes the first match of the list, which is the newest; it
\* compares the two numbers only, and those of a transfer not yet prepared are 0.
Matches(n, f) ==
  {x \in XferIds : xf[x].ref > 0 /\ xf[x].set /\ xf[x].friend = n /\ xf[x].file = f}
FindFirstEver(n, f) ==
  LET ever == {x \in XferIds : xf[x].kind # "none" /\ xf[x].friend = n /\ xf[x].file = f}
  IN {x \in ever : \A y \in ever : x <= y}
FindXfer(n, f) == {x \in Matches(n, f) : \A y \in Matches(n, f) : y <= x}

\* What libtox does with KILL and FINISHED for the transfer: its port is free.
PortOf(x) == <<xf[x].kind, xf[x].friend, xf[x].file>>
ClosedNot(p, x) == p
Closed(p, x) ==
  [q \in Ports |-> IF xf[x].tox /\ q = PortOf(x) THEN FreePort ELSE p[q]]

\* ToxPRPL_freeXfer: the record of the idle callback is told, the data freed.
StoppedNot(x) == idles
Stopped(x) ==
  [i \in IdleIds |-> IF xf[x].set /\ i = xf[x].idle
                     THEN [idles[i] EXCEPT !.running = FALSE] ELSE idles[i]]
Freed(r) == [r EXCEPT !.set = FALSE, !.tox = FALSE, !.idle = 0]

\* The end of a transfer: purple_xfer_end of what is done, or purple_xfer_cancel_*,
\* with the plugin's operation for it (onTransferCompleted, cancelOutgoingXfer,
\* cancelIncomingTransfer or incomingTransferDenied), libpurple's closing of the
\* file and the unref. Only a cancelled transfer has its dialog closed.
FinishedUnrefsTwice(r, st, refs) ==
  [Freed(r) EXCEPT !.status = st, !.fp = FALSE, !.dialog = FALSE, !.ref = @ - 2]
Finished(r, st, refs) ==
  [Freed(r) EXCEPT !.status = st, !.fp = FALSE,
                   !.dialog = (st = "done" /\ r.dialog),
                   !.remaining = IF st = "done" THEN r.remaining ELSE 0,
                   !.ref = @ - refs]

Fail(what) ==
  /\ fault' = what
  /\ UNCHANGED <<up, xf, idles, port>>

\* Ending tells libtox: what is cancelled only if the data names an instance, what
\* is completed without asking. p is the port state left by the event, ids the records.
End(x, st, refs, p, ids) ==
  \/ st = "done" /\ ~xf[x].tox /\ Fail("null tox")
  \/ xf[x].tox /\ ~up /\ Fail("freed tox")
  \/ /\ xf[x].tox => up
     /\ st = "done" => xf[x].tox
     /\ xf' = [xf EXCEPT ![x] = Finished(@, st, refs)]
     /\ idles' = ids
     /\ port' = Closed(p, x)
     /\ UNCHANGED <<up, fault>>

CancelCompletes(x, p) == End(x, "done", 1, p, Stopped(x))
Cancel(x, p) == End(x, "cancelled", 1, p, Stopped(x))

\* purple_xfer_start: the status is set, and a transfer begun before is left alone
\* otherwise. The local file is opened, then ToxPRPL_Purple_startXfer loads what
\* remains of an outgoing file and adds the idle callback. Without anything to load
\* g_malloc returns NULL and the function returns.
StartFails(x, p) ==
  \/ Cancel(x, p)
  \/ /\ xf[x].kind = "send" /\ ~xf[x].dialog
     /\ xf' = [xf EXCEPT ![x].status = "started", ![x].fp = TRUE]
     /\ port' = p
     /\ UNCHANGED <<up, idles, fault>>

Start(x, p) ==
  \/ /\ xf[x].fp
     /\ xf' = [xf EXCEPT ![x].status = "started"]
     /\ port' = p
     /\ UNCHANGED <<up, idles, fault>>
  \/ ~xf[x].fp /\ (FileErrors \/ xf[x].dialog) /\ StartFails(x, p)
  \/ /\ ~xf[x].fp /\ ~xf[x].dialog
     /\ xf[x].kind = "recv" \/ xf[x].remaining = 0
     /\ xf' = [xf EXCEPT ![x].status = "started", ![x].fp = TRUE]
     /\ port' = p
     /\ UNCHANGED <<up, idles, fault>>
  \/ /\ ~xf[x].fp /\ ~xf[x].dialog
     /\ xf[x].kind = "send" /\ xf[x].remaining > 0
     /\ \E i \in IdleIds :
          /\ idles[i] = NoIdle
          /\ \A j \in IdleIds : j < i => idles[j] # NoIdle
          /\ idles' = [idles EXCEPT ![i] =
                         [xfer |-> x, running |-> TRUE,
                          offset |-> 0, length |-> xf[x].remaining]]
          /\ xf' = [xf EXCEPT ![x].status = "started", ![x].fp = TRUE,
                              ![x].idle = i]
     /\ port' = p
     /\ UNCHANGED <<up, fault>>

-----------------------------------------------------------------------------
(* What the user does *)

\* purple_xfer_request_accepted, then ToxPRPL_Purple_prepareXfer for an outgoing
\* file: libtox gives it a file number, or does not (the friend is offline, all
\* numbers are taken), and then the function returns and nobody is told.
Prepare(x, r) ==
  \/ \E f \in SendFiles :
       /\ port[<<"send", r.who, f>>] = FreePort
       /\ \A h \in SendFiles : h < f => port[<<"send", r.who, h>>] # FreePort
       /\ xf' = [xf EXCEPT ![x] = [r EXCEPT !.status = "accepted", !.tox = TRUE,
                                            !.friend = r.who, !.file = f]]
       /\ port' = [port EXCEPT ![<<"send", r.who, f>>] =
                     [state |-> "offered", xfer |-> x, moved |-> 0]]
  \/ /\ xf' = [xf EXCEPT ![x] = [r EXCEPT !.status = "accepted"]]
     /\ UNCHANGED port

Outgoing(n) == [NoXfer EXCEPT !.kind = "send", !.who = n, !.set = TRUE, !.ref = 1]

\* ToxPRPL_Purple_sendFile and ToxPRPL_newXfer, the file named by the caller.
SendFile(n, size) ==
  /\ Online
  /\ \E x \in XferIds :
       /\ IsNext(x)
       /\ Prepare(x, [Outgoing(n) EXCEPT !.size = size, !.remaining = size])
  /\ UNCHANGED <<up, idles, fault>>

\* The same without a name: libpurple asks the user for the file.
SendSomeFile(n) ==
  /\ Online
  /\ \E x \in XferIds :
       /\ IsNext(x)
       /\ xf' = [xf EXCEPT ![x] = [Outgoing(n) EXCEPT !.ref = 2, !.dialog = TRUE]]
  /\ UNCHANGED <<up, idles, port, fault>>

\* The answer may come when the account is offline: nothing is prepared then.
ChooseFile(x, size) ==
  LET r == [xf[x] EXCEPT !.size = size, !.remaining = size,
                         !.dialog = FALSE, !.ref = @ - 1]
  IN /\ Sound /\ xf[x].kind = "send" /\ xf[x].dialog
     /\ \/ up /\ Prepare(x, r)
        \/ /\ ~up
           /\ xf' = [xf EXCEPT ![x] = [r EXCEPT !.status = "accepted"]]
           /\ UNCHANGED port
     /\ UNCHANGED <<up, idles, fault>>

ChooseNone(x) ==
  /\ Sound /\ xf[x].kind = "send" /\ xf[x].dialog
  /\ End(x, "cancelled", 2, port, Stopped(x))

\* prepareXfer for an incoming file: the friend is told, the file is opened. If the
\* transfer has been completed meanwhile its data is gone, and nothing is done.
AcceptFile(x) ==
  /\ Sound /\ xf[x].kind = "recv" /\ xf[x].dialog
  /\ \/ xf[x].set /\ ~up /\ Fail("freed tox")
     \/ /\ xf[x].set /\ up
        /\ xf' = [xf EXCEPT ![x] = [xf[x] EXCEPT !.status = "started", !.fp = TRUE,
                                             !.dialog = FALSE, !.ref = @ - 1]]
        /\ port' = [port EXCEPT ![PortOf(x)].state = IF @ = "free" THEN @ ELSE "open"]
        /\ UNCHANGED <<up, idles, fault>>
     \/ xf[x].set /\ up /\ FileErrors /\ End(x, "cancelled", 2, port, Stopped(x))
     \/ /\ ~xf[x].set
        /\ xf' = [xf EXCEPT ![x] = [xf[x] EXCEPT !.status = "accepted",
                                             !.dialog = FALSE, !.ref = @ - 1]]
        /\ UNCHANGED <<up, idles, port, fault>>

\* ToxPRPL_Purple_incomingTransferDenied. libpurple gives back two references; of a
\* transfer completed meanwhile there is only one left.
DenyFile(x) ==
  /\ Sound /\ xf[x].kind = "recv" /\ xf[x].dialog
  /\ \/ xf[x].set /\ End(x, "cancelled", 2, port, Stopped(x))
     \/ ~xf[x].set /\ Fail("unref")

\* ToxPRPL_Purple_cancelOutgoingXfer, ToxPRPL_Purple_cancelIncomingTransfer
UserCancels(x) ==
  /\ Sound /\ xf[x].ref > 0 /\ ~xf[x].dialog
  /\ xf[x].status \in {"accepted", "started"}
  /\ Cancel(x, port)

\* ToxPRPL_shutdownPRPL: the instance is gone, and its ports with it.
Shutdown ==
  /\ Disconnects /\ Online
  /\ up' = FALSE
  /\ port' = [p \in Ports |-> FreePort]
  /\ UNCHANGED <<xf, idles, fault>>

\* ToxPRPL_Purple_removeBuddy and ToxPRPL_Purple_addFriend, as far as transfers
\* go: libtox forgets the ports of the friend without a word, and the next friend
\* gets the lowest number that is free (Roster). No transfer is told.
ReplaceFriend(n) ==
  /\ Replaces /\ Online
  /\ \E q \in Ports : q[2] = n /\ port[q] # FreePort
  /\ port' = [q \in Ports |-> IF q[2] = n THEN FreePort ELSE port[q]]
  /\ UNCHANGED <<up, xf, idles, fault>>

-----------------------------------------------------------------------------
(* What libtox reports *)

\* ToxPRPL_Purple_onTransferReceive
Incoming(n, f, size) ==
  [NoXfer EXCEPT !.kind = "recv", !.who = n, !.size = size, !.remaining = size,
                 !.set = TRUE, !.tox = TRUE, !.friend = n, !.file = f]

\* ToxPRPL_Tox_onFileRequest: libpurple asks the user, keeping a reference.
OnFileRequest(n, f, size) ==
  /\ Online
  /\ port[<<"recv", n, f>>] = FreePort
  /\ \E x \in XferIds :
       /\ IsNext(x)
       /\ xf' = [xf EXCEPT ![x] = [Incoming(n, f, size) EXCEPT !.ref = 2,
                                                             !.dialog = TRUE]]
       /\ port' = [port EXCEPT ![<<"recv", n, f>>] =
                     [state |-> "offered", xfer |-> x, moved |-> 0]]
  /\ UNCHANGED <<up, idles, fault>>

\* An event for a transfer ToxPRPL_findXfer does not find is dropped.
Unheard(p) == port' = p /\ UNCHANGED <<up, xf, idles, fault>>

\* ToxPRPL_Tox_onFileControl, sending, TOX_FILECONTROL_ACCEPT: the friend takes
\* the file, or resumes it after a pause, or says so once more.
OnAccepted(n, f) ==
  LET q == <<"send", n, f>>
      p == [port EXCEPT ![q].state = "open"]
  IN /\ Online
     /\ port[q].state # "free"
     /\ \/ FindXfer(n, f) = {} /\ Unheard(p)
        \/ \E x \in FindXfer(n, f) : Start(x, p)

\* The same, either direction, TOX_FILECONTROL_KILL (purple_xfer_cancel_remote).
OnKilledIgnored(q) ==
  /\ Online
  /\ port[q].state # "free"
  /\ Unheard([port EXCEPT ![q] = FreePort])
OnKilled(q) ==
  LET p == [port EXCEPT ![q] = FreePort]
      found == FindXfer(q[2], q[3])
  IN /\ Online
     /\ port[q].state # "free"
     /\ \/ found = {} /\ Unheard(p)
        \/ \E x \in found : Cancel(x, p)

\* The same, receiving, TOX_FILECONTROL_FINISHED (purple_xfer_set_completed,
\* purple_xfer_end). The friend decides when that is: how many pieces have passed is
\* not asked, nor whether the user has answered.
OnFinished(n, f) ==
  LET q == <<"recv", n, f>>
      p == [port EXCEPT ![q] = FreePort]
  IN /\ Online
     /\ port[q].state = "open" \/ (Early /\ port[q].state = "offered")
     /\ \/ FindXfer(n, f) = {} /\ Unheard(p)
        \/ \E x \in FindXfer(n, f) : End(x, "done", 1, p, Stopped(x))

\* ToxPRPL_Tox_onFileDataReceive: a piece is written; it is dropped when no open
\* file is found for it, and a failed write cancels.
OnFileData(n, f) ==
  LET q == <<"recv", n, f>>
      p == [port EXCEPT ![q].moved = @ + 1]
      open == {x \in FindXfer(n, f) : xf[x].fp}
  IN /\ Online
     /\ port[q].state = "open"
     /\ port[q].moved < xf[port[q].xfer].size
     /\ \/ open = {} /\ Unheard(p)
        \/ FileErrors /\ \E x \in open : Cancel(x, p)
        \/ \E x \in open :
             /\ xf' = [xf EXCEPT ![x].remaining = @ - 1, ![x].sent = @ + 1]
             /\ port' = p
             /\ UNCHANGED <<up, idles, fault>>

-----------------------------------------------------------------------------
(* The idle callback, ToxPRPL_writeIdleData *)

Runs(i) == Sound /\ idles[i] # NoIdle /\ idles[i].running

\* It may push: something remains and the transfer is not cancelled.
Pushes(i) ==
  /\ Runs(i)
  /\ xf[idles[i].xfer].ref > 0
  /\ xf[idles[i].xfer].remaining > 0
  /\ xf[idles[i].xfer].status # "cancelled"

\* libtox takes the next piece (ToxPRPL_Purple_writeXfer, purple_xfer_write).
\* When it takes none the callback only comes again: no state of the plugin
\* changes, and the same holds once xfer->data is gone.
Takes(i, counted) ==
  LET d == idles[i]
      x == d.xfer
      at == d.offset + 1
      q == PortOf(x)
  IN /\ Pushes(i) /\ up
     /\ xf[x].set /\ xf[x].tox
     /\ d.offset < d.length
     /\ q \in Ports /\ port[q].state = "open"
     /\ port' = [port EXCEPT ![q].moved = @ + 1]
     /\ idles' = [idles EXCEPT ![i].offset = counted]
     /\ xf' = [xf EXCEPT ![x].sent = at,
                         ![x].remaining = xf[x].size - at,
                         ![x].status = IF xf[x].sent + 1 >= xf[x].size
                                       THEN "done" ELSE @]
     /\ UNCHANGED <<up, fault>>
IdlePushAgain(i) == Takes(i, idles[i].offset)
IdlePush(i) == Takes(i, idles[i].offset + 1)

\* Nothing is left, or the transfer was cancelled: purple_xfer_end, which cancels
\* what is not complete; the record goes.
IdleEnd(i) ==
  LET x == idles[i].xfer
      gone == [Stopped(x) EXCEPT ![i] = NoIdle]
  IN /\ Runs(i) /\ xf[x].ref > 0
     /\ ~Pushes(i)
     /\ \/ xf[x].status = "done" /\ ~xf[x].set /\ Fail("null data")
        \/ xf[x].status = "done" /\ xf[x].set /\ End(x, "done", 1, port, gone)
        \/ xf[x].status # "done" /\ End(x, "cancelled", 1, port, gone)

\* It was stopped: the record goes and the transfer is not touched.
IdleFreeKeeps(i) ==
  /\ Sound /\ idles[i] # NoIdle /\ ~idles[i].running
  /\ UNCHANGED vars
IdleFree(i) ==
  /\ Sound /\ idles[i] # NoIdle /\ ~idles[i].running
  /\ idles' = [idles EXCEPT ![i] = NoIdle]
  /\ UNCHANGED <<up, xf, port, fault>>

\* It runs into memory that is not there any more: the transfer, the instance,
\* or what lies behind the buffer of the file.
Breaks(i, what) ==
  LET d == idles[i]
      r == xf[d.xfer]
  IN \/ what = "freed xfer" /\ Runs(i) /\ r.ref = 0
     \/ what = "null tox" /\ Pushes(i) /\ r.set /\ ~r.tox
     \/ what = "freed tox" /\ Pushes(i) /\ r.set /\ r.tox /\ ~up
     \/ what = "buffer" /\ Pushes(i) /\ r.set /\ r.tox /\ up /\ d.offset >= d.length
IdleFaults(i) ==
  \E what \in {"freed xfer", "null tox", "freed tox", "buffer"} :
    Breaks(i, what) /\ Fail(what)

-----------------------------------------------------------------------------

User ==
  \/ \E n \in Friends, size \in Sizes : SendFile(n, size)
  \/ \E n \in Friends : SendSomeFile(n)
  \/ \E x \in XferIds :
       \/ \E size \in Sizes : ChooseFile(x, size)
       \/ ChooseNone(x)
       \/ AcceptFile(x)
       \/ DenyFile(x)
       \/ UserCancels(x)
  \/ \E n \in Friends : ReplaceFriend(n)
  \/ Shutdown

Libtox ==
  \/ \E n \in Friends, f \in RecvFiles, size \in Sizes : OnFileRequest(n, f, size)
  \/ \E n \in Friends, f \in SendFiles : OnAccepted(n, f)
  \/ \E q \in Ports : OnKilled(q)
  \/ \E n \in Friends, f \in RecvFiles : OnFinished(n, f) \/ OnFileData(n, f)

Idle ==
  \E i \in IdleIds : IdlePush(i) \/ IdleEnd(i) \/ IdleFree(i) \/ IdleFaults(i)

Next == User \/ Libtox \/ Idle

Spec == Init /\ [][Next]_vars

\* The main loop calls an idle source again and again until it says it is done. That
\* libtox takes the next piece in the end is more than anybody guarantees.
Fairness == \A i \in IdleIds : WF_vars(IdleEnd(i) \/ IdleFree(i))

FairSpec == Spec /\ Fairness

-----------------------------------------------------------------------------
(* Properties *)

\* The type of the state.
TypeOK ==
  /\ up \in BOOLEAN
  /\ xf \in [XferIds ->
       [kind : {"none", "send", "recv"}, who : Friends \cup {0},
        status : {"unknown", "accepted", "started", "done", "cancelled"},
        ref : 0 .. 2, dialog : BOOLEAN, fp : BOOLEAN, size : Sizes \cup {0},
        sent : Nat, remaining : Int, set : BOOLEAN, tox : BOOLEAN,
        friend : Friends \cup {0}, file : SendFiles \cup RecvFiles \cup {0},
        idle : IdleIds \cup {0}]]
  /\ idles \in [IdleIds -> [xfer : XferIds \cup {0}, running : BOOLEAN,
                           offset : Nat, length : Nat]]
  /\ port \in [Ports -> [state : {"free", "offered", "open"},
                         xfer : XferIds \cup {0}, moved : Nat]]
  /\ fault \in {"none", "freed xfer", "freed tox", "null tox", "null data", "unref", "buffer"}

\* Nobody ever follows a pointer to a transfer that is gone or to data that was never
\* set, nor reads past the buffer of a file, although libpurple, libtox and the idle
\* source end transfers independently (purple/xfers.c:54-78, 117-239). What remains is
\* the instance a logout has killed (NothingUsesKilledTox), and a request the user
\* declines after its friend has completed the transfer, which libpurple unrefs twice.
MemorySafe == fault \in {"none", "freed tox", "unref"}

\* A running callback belongs to a transfer that exists and knows it: it is what
\* makes the flag enough ("If running is false the transfer was stopped and
\* data->xfer may have been deleted already", purple/xfers.c:56-57).
RunningIsOwned ==
  \A i \in IdleIds : idles[i].running =>
    LET r == xf[idles[i].xfer] IN r.ref > 0 /\ r.set /\ r.idle = i

\* Whatever libtox reports about a file there is a transfer to report it to: a port
\* in use belongs to a transfer that has its data, the instance and the port's very
\* name, whoever ends transfers in whatever order (purple/xfers.c:174-239,
\* common/xfers.c:13-30).
PortHasXfer ==
  \A q \in Ports : port[q].state # "free" =>
    /\ up
    /\ xf[port[q].xfer].set /\ xf[port[q].xfer].tox
    /\ PortOf(port[q].xfer) = q
    /\ FindXfer(q[2], q[3]) # {}

\* Every piece of a file passes exactly once and is counted: those libtox
\* delivers are written, those it takes are the next of the file
\* (purple/xfers.c:54-78, tox/xfers.c:78-100).
NoPieceLostOrRepeated ==
  \A q \in Ports : port[q].state = "open" => xf[port[q].xfer].sent = port[q].moved

\* What is reported complete, to the user and to the friend, is what libtox has moved
\* and libpurple has counted, and of a file we send it is all of it
\* (purple/xfers.c:54-78, 224-239, tox/xfers.c:20-23).
CompleteIsCounted ==
  [][\A x \in XferIds :
       xf[x].set /\ ~xf'[x].set /\ xf'[x].status = "done" =>
         /\ port[PortOf(x)].moved = xf[x].sent
         /\ xf[x].kind = "send" => xf[x].sent = xf[x].size]_vars

\* A transfer whose data has been freed is never revived: no late packet, answer or
\* callback gives it data again, opens its file or takes a reference, and its status
\* stays what it was for as long as the object is there.
OverIsFinal ==
  [][\A x \in XferIds : xf[x].kind # "none" /\ ~xf[x].set =>
       /\ xf'[x].status = xf[x].status \/ (xf[x].ref > 0 /\ xf'[x].ref = 0)
       /\ ~xf'[x].set /\ ~xf'[x].fp
       /\ xf'[x].ref <= xf[x].ref]_vars

\* An idle callback goes in the end, whoever has ended its transfer and whenever,
\* unless libtox never takes the rest of the file: then it comes again for ever
\* (purple/xfers.c:54-78).
EveryCallbackGoes ==
  \A i \in IdleIds : []<>(idles[i] = NoIdle) \/ <>[]Pushes(i) \/ <>~Sound

\* File transfers keep the promise of FileDelivery (purple/xfers.c:54-78,
\* tox/xfers.c:35-100). A transfer lives as long as it has its data; libpurple's
\* "done" before that is still taken back by a friend who cancels or resumes.
Life(r) ==
  IF r.kind = "none" THEN "none"
  ELSE IF r.set THEN "live"
  ELSE IF r.status = "cancelled" THEN "cancelled" ELSE "complete"
Delivery == INSTANCE FileDelivery WITH
  Transfers <- XferIds,
  life <- [x \in XferIds |-> Life(xf[x])],
  way <- [x \in XferIds |-> xf[x].kind],
  size <- [x \in XferIds |-> xf[x].size],
  passed <- [x \in XferIds |-> xf[x].sent]
FileDeliverySpec == Delivery!Spec

\* What the source itself states; the runs named after them show where it fails.

\* "called during an outgoing file transfer in order to write data to the
\* recipient", purple/xfers.c:117-119: a piece the callback of a transfer pushes
\* goes into the port that was opened for that transfer, hence to its recipient.
PiecesReachRecipient ==
  [][\A i \in IdleIds : idles'[i].offset > idles[i].offset =>
       port[PortOf(idles[i].xfer)].xfer = idles[i].xfer]_vars

\* "if (receive_send == 0) //receiving", tox/xfers.c:17: what libtox reports about a
\* file, being received or being sent, reaches the transfer of that file, and not one
\* the other way that has the same number (ToxPRPL_findXfer).
PortFindsItsXfer ==
  \A q \in Ports : port[q].state # "free" =>
    FindXfer(q[2], q[3]) = {port[q].xfer}

\* "This should clean up and end the Tox session", toxprpl.c:546: nothing goes on
\* to use the instance once it is killed.
NothingUsesKilledTox == fault # "freed tox"
=============================================================================
