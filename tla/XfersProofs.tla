----------------------------- MODULE XfersProofs -----------------------------
(***************************************************************************)
(* Proofs about Xfers, for any number of friends, files, transfers and     *)
(* callbacks. Base holds whatever happens, and so does Owned, that a port  *)
(* in use has its transfer. Where numbers are neither shared nor given     *)
(* away there are two more layers: Link, that the names libtox has for a   *)
(* transfer and those the plugin has are the same ones, and on it Flow,    *)
(* that the callback, libpurple and libtox count the same pieces.          *)
(***************************************************************************)
EXTENDS Xfers, WellFoundedInduction, TLAPS

\* A transfer not yet prepared has the numbers (0, 0); they are those of no file,
\* and a number is that of a sent or of a received file.
NumbersApart ==
  /\ 0 \notin Friends \/ 0 \notin SendFiles \cup RecvFiles
  /\ SendFiles \cap RecvFiles = {}

Statuses == {"unknown", "accepted", "started", "done", "cancelled"}
Ended == {"done", "cancelled"}
Files == SendFiles \cup RecvFiles

Refs == 0 .. 2
Xfer ==
  [kind : {"none", "send", "recv"}, who : Friends \cup {0}, status : Statuses,
   ref : Refs, dialog : BOOLEAN, fp : BOOLEAN, size : Sizes \cup {0},
   sent : Nat, remaining : Int, set : BOOLEAN, tox : BOOLEAN,
   friend : Friends \cup {0}, file : Files \cup {0}, idle : IdleIds \cup {0}]
Record == [xfer : XferIds \cup {0}, running : BOOLEAN, offset : Nat, length : Nat]
Port == [state : {"free", "offered", "open"}, xfer : XferIds \cup {0}, moved : Nat]
Faults == {"none", "freed xfer", "freed tox", "null tox", "null data", "unref", "buffer"}

\* One transfer: while its data is there libpurple refers to it, and only then is
\* it known to libtox and to a callback; without data it is over. The user is asked
\* about one that is not over, or about an incoming one its friend has completed.
Row(r) ==
  /\ r \in Xfer
  /\ r.set => r.ref > 0 /\ r.kind # "none"
  /\ ~r.set => ~r.fp /\ ~r.tox /\ r.idle = 0
  /\ ~r.set /\ r.kind # "none" => r.status \in Ended \/ (r.status = "accepted" /\ r.ref = 0)
  /\ r.dialog => r.kind # "none" /\ r.ref = (IF r.set THEN 2 ELSE 1) /\ ~r.fp
  /\ r.dialog /\ ~r.set => r.status = "done"
  /\ r.kind = "send" /\ r.dialog => r.set /\ ~r.tox
  /\ r.kind # "none" => r.who \in Friends
  /\ r.kind = "none" => r = NoXfer

IdleOK(d) == d \in Record /\ (d.running => d.xfer # 0)
PortOK(p) == p \in Port /\ (p.state # "free" => p.xfer # 0)

XfersOK(t) == t = [x \in XferIds |-> t[x]] /\ \A x \in XferIds : Row(t[x])
IdlesOK(d) == d = [i \in IdleIds |-> d[i]] /\ \A i \in IdleIds : IdleOK(d[i])
PortsOK(p) == p = [q \in Ports |-> p[q]] /\ \A q \in Ports : PortOK(p[q])

Base ==
  /\ up \in BOOLEAN /\ fault \in Faults
  /\ XfersOK(xf) /\ IdlesOK(idles) /\ PortsOK(port)

PortName(r) == <<r.kind, r.friend, r.file>>

\* A transfer and its numbers: libtox knows an incoming one from the start, and an
\* outgoing one once it is prepared, which is not before its file is chosen.
Named(r) ==
  /\ r.tox => PortName(r) \in Ports
  /\ r.set /\ ~r.tox => r.kind = "send" /\ r.friend = 0 /\ r.file = 0

\* As long as the instance exists the transfers with numbers and the ports in use
\* are each other's.
Link ==
  /\ \A x \in XferIds : Named(xf[x])
  /\ \A x \in XferIds : xf[x].tox /\ up =>
       port[PortName(xf[x])].state # "free" /\ port[PortName(xf[x])].xfer = x
  /\ \A q \in Ports : port[q].state # "free" =>
       up /\ xf[port[q].xfer].tox /\ PortName(xf[port[q].xfer]) = q

\* The count of pieces of a transfer: what is not sent remains, nothing is sent
\* before it is prepared, and libpurple makes it done when all is sent.
Counted(r) ==
  /\ r.set => r.remaining = r.size - r.sent
  /\ r.set /\ ~r.tox => r.sent = 0 /\ r.idle = 0
  /\ r.set /\ r.status = "done" => r.sent = r.size

\* A running callback and its transfer; a port in use and its transfer.
CallbackCounts(i, d, r) ==
  d.running => /\ r.tox /\ r.kind = "send" /\ r.idle = i
               /\ d.offset = r.sent /\ d.length = r.size
PortCounts(p, r) ==
  /\ p.state = "offered" => p.moved = 0 /\ r.sent = 0 /\ r.idle = 0
  /\ p.state = "open" => p.moved = r.sent /\ r.fp

\* libpurple, the callback and libtox have counted the same pieces.
Flow ==
  /\ \A x \in XferIds : Counted(xf[x])
  /\ \A i \in IdleIds : CallbackCounts(i, idles[i], xf[idles[i].xfer])
  /\ \A q \in Ports : port[q].state # "free" => PortCounts(port[q], xf[port[q].xfer])

\* What a step may do to one transfer: revive none whose data is freed, and ask
\* the user about none that has no data.
Final(r, s) ==
  /\ r.kind # "none" /\ ~r.set =>
       /\ s.status = r.status \/ (r.ref > 0 /\ s.ref = 0)
       /\ ~s.set /\ ~s.fp
       /\ s.ref <= r.ref
  /\ s.dialog /\ ~s.set => r.dialog

-----------------------------------------------------------------------------
(* Rows *)

LEMMA SizesAreNumbers == \A size \in Sizes \cup {0} : size \in Nat
  BY XfersAssumption

LEMMA SomeRefs == 0 \in Refs /\ 1 \in Refs /\ 2 \in Refs
  BY DEF Refs

LEMMA PortIsName == \A x : PortOf(x) = PortName(xf[x])
  BY DEF PortOf, PortName

\* The parts of a port's name.
LEMMA PortParts ==
  ASSUME NEW d, NEW n, NEW f, <<d, n, f>> \in Ports
  PROVE  /\ n \in Friends
         /\ (d = "send" /\ f \in SendFiles) \/ (d = "recv" /\ f \in RecvFiles)
  BY DEF Ports

LEMMA PortIsTriple ==
  ASSUME NEW q \in Ports
  PROVE  q = <<q[1], q[2], q[3]>>
  BY DEF Ports

LEMMA NoXferRow == Row(NoXfer) /\ IdleOK(NoIdle) /\ PortOK(FreePort)
  BY SomeRefs DEF Row, NoXfer, Xfer, IdleOK, NoIdle, Record, PortOK, FreePort, Port,
     Ended, Statuses

LEMMA FreedFields ==
  ASSUME NEW r \in Xfer
  PROVE  /\ Freed(r) \in Xfer
         /\ Freed(r) = [r EXCEPT !.set = FALSE, !.tox = FALSE, !.idle = 0]
         /\ ~Freed(r).set /\ ~Freed(r).tox /\ Freed(r).idle = 0
         /\ Freed(r).ref = r.ref /\ Freed(r).kind = r.kind /\ Freed(r).size = r.size
         /\ Freed(r).sent = r.sent /\ Freed(r).who = r.who /\ Freed(r).dialog = r.dialog
  BY DEF Xfer, Freed

LEMMA FinishedFields ==
  ASSUME NEW r \in Xfer, NEW st \in Ended, NEW refs \in 1 .. 2, refs <= r.ref
  PROVE  LET s == Finished(r, st, refs)
         IN /\ s \in Xfer
            /\ ~s.set /\ ~s.tox /\ s.idle = 0 /\ ~s.fp
            /\ s.dialog = (st = "done" /\ r.dialog)
            /\ s.ref = r.ref - refs /\ s.kind = r.kind /\ s.size = r.size /\ s.sent = r.sent
            /\ s.status = st /\ s.who = r.who
  <1>1. r.ref \in Refs /\ r.remaining \in Int
    BY DEF Xfer
  <1>2. r.ref - refs \in Refs
    BY <1>1 DEF Refs
  <1>3. (IF st = "done" THEN r.remaining ELSE 0) \in Int
    BY <1>1
  <1>4. st \in Statuses
    BY DEF Ended, Statuses
  <1> DEFINE u == Freed(r)
  <1>5. u \in Xfer /\ ~u.set /\ ~u.tox /\ u.idle = 0 /\ u.ref = r.ref /\ u.kind = r.kind
        /\ u.size = r.size /\ u.sent = r.sent /\ u.who = r.who /\ u.dialog = r.dialog
    BY FreedFields
  <1> HIDE DEF u
  <1> DEFINE rem == IF st = "done" THEN r.remaining ELSE 0
             asked == st = "done" /\ r.dialog
  <1>6. rem \in Int /\ asked \in BOOLEAN
    BY <1>3
  <1>7. Finished(r, st, refs) = [u EXCEPT !.status = st, !.fp = FALSE, !.dialog = asked,
                   !.remaining = rem, !.ref = r.ref - refs]
    BY <1>5 DEF Finished, rem, u
  <1> HIDE DEF rem, asked
  <1>8. LET s == Finished(r, st, refs)
        IN /\ s \in Xfer
           /\ ~s.set /\ ~s.tox /\ s.idle = 0 /\ ~s.fp /\ s.dialog = asked
           /\ s.ref = r.ref - refs /\ s.kind = r.kind /\ s.size = r.size /\ s.sent = r.sent
           /\ s.status = st /\ s.who = r.who
    BY <1>7, <1>6, <1>5, <1>4, <1>2 DEF Xfer
  <1> QED
    BY <1>8 DEF asked

LEMMA FinishedRow ==
  ASSUME NEW r, Row(r), r.kind # "none", NEW st \in Ended, NEW refs \in 1 .. 2, refs <= r.ref,
         st = "done" => r.set /\ r.tox /\ refs = 1
  PROVE  Row(Finished(r, st, refs))
  <1> DEFINE s == Finished(r, st, refs)
  <1>1. r \in Xfer
    BY DEF Row
  <1>2. /\ s \in Xfer /\ ~s.set /\ ~s.tox /\ s.idle = 0 /\ ~s.fp
        /\ s.dialog = (st = "done" /\ r.dialog)
        /\ s.ref = r.ref - refs /\ s.kind = r.kind /\ s.status = st /\ s.who = r.who
    BY <1>1, FinishedFields
  <1> HIDE DEF s
  <1>3. ASSUME s.dialog
        PROVE  s.kind = "recv" /\ s.ref = 1 /\ s.status = "done"
    <2>1. st = "done" /\ r.dialog
      BY <1>2, <1>3
    <2>2. r.kind \in {"none", "send", "recv"}
      BY <1>1 DEF Xfer
    <2> QED
      BY <1>2, <2>1, <2>2 DEF Row
  <1> QED
    BY <1>2, <1>3 DEF Row, s

LEMMA NextIsNew ==
  ASSUME NEW x \in XferIds, IsNext(x)
  PROVE  xf[x].kind = "none"
  BY DEF IsNext

\* What a step does to one place of each table.
Finals == \A x \in XferIds : Final(xf[x], xf'[x])

LEMMA SetXfer ==
  ASSUME XfersOK(xf), NEW x \in XferIds, NEW r, Row(r), Final(xf[x], r),
         xf' = [xf EXCEPT ![x] = r]
  PROVE  XfersOK(xf') /\ Finals
  <1>1. \A y \in XferIds : xf'[y] = IF y = x THEN r ELSE xf[y]
    BY DEF XfersOK
  <1>2. \A y \in XferIds : Final(xf[y], xf[y])
    BY DEF XfersOK, Row, Xfer, Refs, Final
  <1> QED
    BY <1>1, <1>2 DEF XfersOK, Finals

LEMMA KeepXfers ==
  ASSUME XfersOK(xf), xf' = xf
  PROVE  XfersOK(xf') /\ Finals
  BY DEF XfersOK, Row, Xfer, Refs, Final, Finals

LEMMA SetIdle ==
  ASSUME NEW ids, IdlesOK(ids), NEW i, NEW d, IdleOK(d)
  PROVE  IdlesOK([ids EXCEPT ![i] = d])
  BY DEF IdlesOK

LEMMA SetPort ==
  ASSUME NEW p, PortsOK(p), NEW q, NEW v, PortOK(v)
  PROVE  PortsOK([p EXCEPT ![q] = v])
  BY DEF PortsOK

LEMMA ClosedOK ==
  ASSUME NEW p, PortsOK(p), NEW x
  PROVE  PortsOK(Closed(p, x))
  BY NoXferRow DEF PortsOK, Closed

LEMMA StoppedOK ==
  ASSUME IdlesOK(idles), NEW x
  PROVE  IdlesOK(Stopped(x))
  BY DEF IdlesOK, Stopped, IdleOK, Record

-----------------------------------------------------------------------------
(* Base: whatever the peers, the user and the network do *)

LEMMA BaseFail ==
  ASSUME Base, NEW what \in Faults, Fail(what)
  PROVE  Base' /\ Finals
  BY KeepXfers DEF Base, Fail

LEMMA EndsAt ==
  ASSUME Base, NEW x \in XferIds, NEW st, NEW refs
  PROVE  [xf EXCEPT ![x] = Finished(@, st, refs)] =
           [xf EXCEPT ![x] = Finished(xf[x], st, refs)]
  BY DEF Base, XfersOK

LEMMA BaseEnd ==
  ASSUME Base, NEW x \in XferIds, NEW st \in Ended, NEW refs \in 1 .. 2, NEW p, NEW ids,
         xf[x].kind # "none", refs <= xf[x].ref,
         xf[x].set \/ (st = xf[x].status /\ st # "done"), st = "done" => refs = 1,
         PortsOK(p), IdlesOK(ids), End(x, st, refs, p, ids)
  PROVE  Base' /\ Finals
  <1>1. CASE Fail("null tox") \/ Fail("freed tox")
    BY <1>1, BaseFail DEF Faults
  <1>2. CASE /\ st = "done" => xf[x].tox
             /\ xf' = [xf EXCEPT ![x] = Finished(xf[x], st, refs)]
             /\ idles' = ids /\ port' = Closed(p, x)
             /\ up' = up /\ fault' = fault
    <2> DEFINE r == Finished(xf[x], st, refs)
    <2>1. Row(xf[x])
      BY DEF Base, XfersOK
    <2>2. Row(r)
      BY <1>2, <2>1, FinishedRow
    <2>3. /\ ~r.fp /\ ~r.set /\ r.ref <= xf[x].ref /\ r.status = st
          /\ r.dialog => xf[x].dialog
      BY <2>1, FinishedFields DEF Row, Xfer, Refs
    <2>4. xf' = [xf EXCEPT ![x] = r] /\ idles' = ids /\ port' = Closed(p, x)
          /\ up' = up /\ fault' = fault
      BY <1>2
    <2> HIDE DEF r
    <2>5. Final(xf[x], r)
      BY <2>3 DEF Final
    <2>6. XfersOK(xf') /\ Finals
      BY <2>2, <2>4, <2>5, SetXfer DEF Base
    <2> QED
      BY <2>4, <2>6, ClosedOK DEF Base
  <1> QED
    BY <1>1, <1>2, EndsAt DEF End

\* The data of a transfer that is found is there, and libpurple refers to it.
LEMMA FoundIsSet ==
  ASSUME NEW n, NEW f, NEW x \in FindXfer(n, f)
  PROVE  x \in XferIds /\ xf[x].set /\ xf[x].ref > 0 /\ xf[x].friend = n /\ xf[x].file = f
  BY DEF FindXfer, Matches

LEMMA RowFacts ==
  ASSUME Base, NEW x \in XferIds
  PROVE  Row(xf[x]) /\ xf[x] \in Xfer /\ xf[x].ref \in 0 .. 2
  BY DEF Base, XfersOK, Row, Xfer, Refs

LEMMA BaseCancel ==
  ASSUME Base, NEW x \in XferIds, xf[x].set, NEW p, PortsOK(p), Cancel(x, p)
  PROVE  Base' /\ Finals
  <1>1. xf[x].kind # "none" /\ 1 <= xf[x].ref
    BY RowFacts DEF Row
  <1>2. IdlesOK(Stopped(x))
    BY StoppedOK DEF Base
  <1> QED
    BY <1>1, <1>2, BaseEnd DEF Cancel, Ended

\* Opening the file of a transfer that is set.
Opened(r, i) == [r EXCEPT !.status = "started", !.fp = TRUE, !.idle = i]

LEMMA OpenedRow ==
  ASSUME NEW r, Row(r), r.set, ~r.dialog, NEW i \in IdleIds \cup {0}
  PROVE  /\ Row(Opened(r, i))
         /\ LET s == Opened(r, i)
            IN /\ s.set /\ ~s.dialog /\ s.kind = r.kind
               /\ s.tox = r.tox /\ s.friend = r.friend /\ s.file = r.file /\ s.fp
               /\ s.sent = r.sent /\ s.size = r.size /\ s.remaining = r.remaining
               /\ s.idle = i /\ s.status = "started"
         /\ [r EXCEPT !.status = "started", !.fp = TRUE] = Opened(r, r.idle)
         /\ r.idle \in IdleIds \cup {0}
  <1>1. r \in Xfer
    BY DEF Row
  <1>2. Opened(r, i) \in Xfer
    BY <1>1 DEF Opened, Xfer, Statuses
  <1>3. LET s == Opened(r, i)
        IN /\ s.set /\ ~s.dialog /\ s.ref = r.ref /\ s.kind = r.kind /\ s.who = r.who
           /\ s.tox = r.tox /\ s.friend = r.friend /\ s.file = r.file /\ s.fp
           /\ s.sent = r.sent /\ s.size = r.size /\ s.remaining = r.remaining
           /\ s.idle = i /\ s.status = "started"
    BY <1>1 DEF Opened, Xfer
  <1>4. Row(Opened(r, i))
    BY <1>2, <1>3 DEF Row
  <1>5. [r EXCEPT !.status = "started", !.fp = TRUE] = Opened(r, r.idle)
    BY <1>1 DEF Opened, Xfer
  <1>6. r.idle \in IdleIds \cup {0}
    BY <1>1 DEF Xfer
  <1> QED
    BY <1>3, <1>4, <1>5, <1>6, Zenon

\* What starting a transfer comes to: it is cancelled, or opened without a callback
\* or left open, or opened with a new one.
LEMMA StartCases ==
  ASSUME Base, NEW x \in XferIds, xf[x].set, NEW p, Start(x, p)
  PROVE  \/ Cancel(x, p)
         \/ /\ ~xf[x].dialog /\ port' = p /\ UNCHANGED <<up, fault>>
            /\ \/ /\ xf[x].idle \in IdleIds \cup {0}
                  /\ xf' = [xf EXCEPT ![x] = Opened(xf[x], xf[x].idle)]
                  /\ UNCHANGED idles
               \/ \E i \in IdleIds :
                    /\ idles[i] = NoIdle /\ ~xf[x].fp
                    /\ xf[x].remaining > 0 /\ xf[x].kind = "send"
                    /\ idles' = [idles EXCEPT ![i] =
                                   [xfer |-> x, running |-> TRUE,
                                    offset |-> 0, length |-> xf[x].remaining]]
                    /\ xf' = [xf EXCEPT ![x] = Opened(xf[x], i)]
  <1> DEFINE r == xf[x]
  <1>1. Row(r) /\ r \in Xfer
    BY RowFacts
  <1>2. ASSUME ~r.dialog, xf' = [xf EXCEPT ![x].status = "started", ![x].fp = TRUE]
        PROVE  r.idle \in IdleIds \cup {0} /\ xf' = [xf EXCEPT ![x] = Opened(r, r.idle)]
    BY <1>1, <1>2, OpenedRow DEF Base, XfersOK
  <1>3. ASSUME NEW i \in IdleIds,
               xf' = [xf EXCEPT ![x].status = "started", ![x].fp = TRUE, ![x].idle = i]
        PROVE  xf' = [xf EXCEPT ![x] = Opened(r, i)]
    BY <1>1, <1>3 DEF Base, XfersOK, Opened
  <1>4. CASE (FileErrors \/ xf[x].dialog) /\ StartFails(x, p)
    BY <1>2, <1>4 DEF StartFails
  <1>5. CASE /\ ~xf[x].dialog
             /\ xf[x].kind = "recv" \/ xf[x].remaining = 0
             /\ xf' = [xf EXCEPT ![x].status = "started", ![x].fp = TRUE]
             /\ port' = p
             /\ UNCHANGED <<up, idles, fault>>
    BY <1>2, <1>5
  <1>6. CASE /\ xf[x].fp
             /\ xf' = [xf EXCEPT ![x].status = "started"]
             /\ port' = p
             /\ UNCHANGED <<up, idles, fault>>
    <2>1. ~r.dialog
      BY <1>1, <1>6 DEF Row
    <2>2. [r EXCEPT !.status = "started"] = Opened(r, r.idle)
      BY <1>1, <1>6 DEF Xfer, Opened
    <2>3. xf' = [xf EXCEPT ![x] = Opened(r, r.idle)]
      BY <1>6, <2>2 DEF Base, XfersOK
    <2>4. r.idle \in IdleIds \cup {0}
      BY <1>1 DEF Xfer
    <2> QED
      BY <1>6, <2>1, <2>3, <2>4
  <1> QED
    BY <1>3, <1>4, <1>5, <1>6 DEF Start

LEMMA BaseStart ==
  ASSUME Base, NEW x \in XferIds, xf[x].set, NEW p, PortsOK(p), Start(x, p)
  PROVE  Base' /\ Finals
  <1> DEFINE r == xf[x]
  <1>1. Row(r) /\ r \in Xfer
    BY RowFacts
  <1>2. ASSUME NEW i \in IdleIds \cup {0}, ~r.dialog, xf' = [xf EXCEPT ![x] = Opened(r, i)]
        PROVE  XfersOK(xf') /\ Finals
    <2>1. Row(Opened(r, i)) /\ Final(r, Opened(r, i))
      BY <1>1, <1>2, OpenedRow DEF Final
    <2> QED
      BY <1>2, <2>1, SetXfer DEF Base
  <1>3. ASSUME NEW i \in IdleIds, xf[x].remaining > 0,
               idles' = [idles EXCEPT ![i] = [xfer |-> x, running |-> TRUE,
                                              offset |-> 0, length |-> xf[x].remaining]]
        PROVE  IdlesOK(idles')
    <2> DEFINE d == [xfer |-> x, running |-> TRUE, offset |-> 0, length |-> xf[x].remaining]
    <2>1. xf[x].remaining \in Int /\ x # 0
      BY <1>1, XfersAssumption DEF Xfer, XferIds
    <2>2. IdleOK(d)
      BY <1>3, <2>1 DEF IdleOK, Record
    <2> HIDE DEF d
    <2> QED
      BY <1>3, <2>2, SetIdle DEF Base, d
  <1> QED
    BY <1>2, <1>3, StartCases, BaseCancel DEF Base

\* Asking the user, or libtox, about a transfer that was not there.
LEMMA BaseNew ==
  ASSUME Base, NEW x \in XferIds, xf[x].kind = "none", NEW r, Row(r), r.dialog => r.set,
         xf' = [xf EXCEPT ![x] = r], PortsOK(port'), UNCHANGED <<up, idles, fault>>
  PROVE  Base' /\ Finals
  BY SetXfer DEF Base, Final

Unprepared(r) ==
  Row(r) /\ r.set /\ r.kind = "send" /\ ~r.dialog

PreparedAs(r, f) == [r EXCEPT !.status = "accepted", !.tox = TRUE, !.friend = r.who, !.file = f]

LEMMA PrepareResult ==
  ASSUME Base, NEW x \in XferIds, NEW r, Unprepared(r), Prepare(x, r)
  PROVE  /\ PortsOK(port')
         /\ \/ \E f \in SendFiles :
                 /\ port[<<"send", r.who, f>>] = FreePort
                 /\ xf' = [xf EXCEPT ![x] = PreparedAs(r, f)]
                 /\ port' = [port EXCEPT ![<<"send", r.who, f>>] =
                               [state |-> "offered", xfer |-> x, moved |-> 0]]
                 /\ Row(PreparedAs(r, f)) /\ ~PreparedAs(r, f).dialog
            \/ /\ xf' = [xf EXCEPT ![x] = [r EXCEPT !.status = "accepted"]]
               /\ port' = port
               /\ Row([r EXCEPT !.status = "accepted"])
               /\ ~[r EXCEPT !.status = "accepted"].dialog
  <1>1. ASSUME NEW f \in SendFiles
        PROVE  Row(PreparedAs(r, f)) /\ ~PreparedAs(r, f).dialog
    BY DEF Row, Unprepared, PreparedAs, Xfer, Statuses, Files
  <1>2. Row([r EXCEPT !.status = "accepted"]) /\ ~[r EXCEPT !.status = "accepted"].dialog
    BY DEF Row, Unprepared, Xfer, Statuses
  <1>3. PortOK([state |-> "offered", xfer |-> x, moved |-> 0])
    BY XfersAssumption DEF PortOK, Port, XferIds
  <1>4. PortsOK(port)
    BY DEF Base
  <1>5. ASSUME NEW f \in SendFiles,
               port[<<"send", r.who, f>>] = FreePort,
               xf' = [xf EXCEPT ![x] = PreparedAs(r, f)],
               port' = [port EXCEPT ![<<"send", r.who, f>>] =
                          [state |-> "offered", xfer |-> x, moved |-> 0]]
        PROVE  PortsOK(port')
    <2> DEFINE v == [state |-> "offered", xfer |-> x, moved |-> 0]
               q == <<"send", r.who, f>>
    <2>1. PortOK(v) /\ port' = [port EXCEPT ![q] = v]
      BY <1>3, <1>5
    <2> HIDE DEF v, q
    <2> QED
      BY <2>1, <1>4, SetPort
  <1> QED
    BY <1>1, <1>2, <1>4, <1>5 DEF Prepare, PreparedAs

LEMMA OutgoingFields ==
  ASSUME NEW n \in Friends
  PROVE  LET r == Outgoing(n)
         IN /\ r \in Xfer /\ r.kind = "send" /\ r.who = n /\ r.ref = 1 /\ r.set /\ ~r.tox
            /\ ~r.dialog /\ ~r.fp /\ r.friend = 0 /\ r.file = 0 /\ r.idle = 0
            /\ r.sent = 0 /\ r.size = 0 /\ r.remaining = 0 /\ r.status = "unknown"
  <1>1. NoXfer \in Xfer
    BY NoXferRow DEF Row
  <1>2. LET s == NoXfer
        IN /\ ~s.tox /\ ~s.dialog /\ ~s.fp /\ s.friend = 0 /\ s.file = 0 /\ s.idle = 0
           /\ s.sent = 0 /\ s.size = 0 /\ s.remaining = 0 /\ s.status = "unknown"
    BY DEF NoXfer
  <1>3. Outgoing(n) = [NoXfer EXCEPT !.kind = "send", !.who = n, !.set = TRUE, !.ref = 1]
    BY DEF Outgoing
  <1> QED
    BY <1>1, <1>2, <1>3, SomeRefs DEF Xfer

\* The user's steps.
LEMMA OutgoingUnprepared ==
  ASSUME NEW n \in Friends, NEW size \in Sizes
  PROVE  Unprepared([Outgoing(n) EXCEPT !.size = size, !.remaining = size])
  <1> DEFINE r == [Outgoing(n) EXCEPT !.size = size, !.remaining = size]
  <1>1. size \in Int
    BY XfersAssumption
  <1>2. r \in Xfer /\ r.kind = "send" /\ r.set /\ ~r.dialog /\ r.who = n /\ r.ref = 1
    BY <1>1, OutgoingFields, SomeRefs DEF Xfer
  <1> HIDE DEF r
  <1> QED
    BY <1>2 DEF Unprepared, Row, r

LEMMA BaseSendFile ==
  ASSUME Base, NEW n \in Friends, NEW size \in Sizes, SendFile(n, size)
  PROVE  Base' /\ Finals
  <1> DEFINE r == [Outgoing(n) EXCEPT !.size = size, !.remaining = size]
  <1>1. Unprepared(r)
    BY OutgoingUnprepared
  <1>2. PICK x \in XferIds : IsNext(x) /\ Prepare(x, r)
    BY DEF SendFile
  <1> HIDE DEF r
  <1>3. xf[x].kind = "none"
    BY <1>2, NextIsNew
  <1>4. UNCHANGED <<up, idles, fault>>
    BY DEF SendFile
  <1> QED
    BY <1>1, <1>2, <1>3, <1>4, PrepareResult, BaseNew

LEMMA BaseSendSomeFile ==
  ASSUME Base, NEW n \in Friends, SendSomeFile(n)
  PROVE  Base' /\ Finals
  <1> DEFINE r == [Outgoing(n) EXCEPT !.ref = 2, !.dialog = TRUE]
  <1>1. Row(r) /\ r.set
    <2> DEFINE u == Outgoing(n)
    <2>1. u \in Xfer /\ u.kind = "send" /\ u.set /\ ~u.fp /\ u.who = n /\ ~u.tox
      BY OutgoingFields
    <2> HIDE DEF u
    <2>2. r \in Xfer
      BY <2>1, SomeRefs DEF Xfer, u
    <2>3. r.kind = "send" /\ r.set /\ r.dialog /\ ~r.fp /\ r.who = n /\ r.ref = 2 /\ ~r.tox
      BY <2>1 DEF Xfer, u
    <2> HIDE DEF r
    <2> QED
      BY <2>2, <2>3 DEF Row
  <1>2. PICK x \in XferIds : IsNext(x) /\ xf' = [xf EXCEPT ![x] = r]
    BY DEF SendSomeFile
  <1> HIDE DEF r
  <1>3. PortsOK(port') /\ UNCHANGED <<up, idles, fault>>
    BY DEF SendSomeFile, Base
  <1> QED
    BY <1>1, <1>2, <1>3, NextIsNew, BaseNew

\* A transfer whose file the user is asked for.
Chosen(x, size) ==
  [xf[x] EXCEPT !.size = size, !.remaining = size, !.dialog = FALSE, !.ref = @ - 1]

LEMMA ChosenRow ==
  ASSUME Base, NEW x \in XferIds, NEW size \in Sizes, xf[x].kind = "send", xf[x].dialog
  PROVE  LET r == Chosen(x, size)
         IN /\ Row(r) /\ r.set /\ r.kind = "send" /\ ~r.dialog /\ xf[x].set
            /\ r.who = xf[x].who /\ r.tox = xf[x].tox /\ r.size = size /\ r.remaining = size
            /\ r.sent = xf[x].sent /\ r.idle = xf[x].idle /\ r.status = xf[x].status
            /\ r.friend = xf[x].friend /\ r.file = xf[x].file /\ r.fp = xf[x].fp
  <1>1. Row(xf[x]) /\ xf[x] \in Xfer
    BY RowFacts
  <1>2. size \in Int
    BY XfersAssumption
  <1>3. Chosen(x, size) \in Xfer /\ Chosen(x, size).ref = 1
    <2>1. xf[x].ref = 2
      BY <1>1 DEF Row
    <2>2. Chosen(x, size) = [xf[x] EXCEPT !.size = size, !.remaining = size,
                                          !.dialog = FALSE, !.ref = 1]
      BY <1>1, <2>1 DEF Chosen, Xfer
    <2>3. size \in Sizes \cup {0}
      OBVIOUS
    <2> QED
      BY <1>1, <1>2, <2>2, <2>3, SomeRefs DEF Xfer
  <1>4. LET r == Chosen(x, size)
        IN /\ r.set = xf[x].set /\ r.kind = xf[x].kind /\ ~r.dialog
           /\ r.who = xf[x].who /\ r.tox = xf[x].tox /\ r.size = size /\ r.remaining = size
           /\ r.sent = xf[x].sent /\ r.idle = xf[x].idle /\ r.status = xf[x].status
           /\ r.friend = xf[x].friend /\ r.file = xf[x].file /\ r.fp = xf[x].fp
    BY <1>1 DEF Chosen, Xfer
  <1>5. xf[x].set
    BY <1>1 DEF Row
  <1> QED
    BY <1>1, <1>3, <1>4, <1>5 DEF Row

LEMMA BaseChooseFile ==
  ASSUME Base, NEW x \in XferIds, NEW size \in Sizes, ChooseFile(x, size)
  PROVE  Base' /\ Finals
  <1> DEFINE r == Chosen(x, size)
  <1>1. /\ xf[x].kind = "send" /\ xf[x].dialog /\ UNCHANGED <<up, idles, fault>>
        /\ \/ Prepare(x, r)
           \/ xf' = [xf EXCEPT ![x] = [r EXCEPT !.status = "accepted"]] /\ port' = port
    BY DEF ChooseFile, Chosen
  <1>2. Unprepared(r) /\ xf[x].set
    BY <1>1, ChosenRow DEF Unprepared
  <1> HIDE DEF r
  <1>3. Row([r EXCEPT !.status = "accepted"]) /\ ~[r EXCEPT !.status = "accepted"].dialog
    BY <1>2 DEF Unprepared, Row, Xfer, Statuses
  <1>4. PortsOK(port') /\ \E s : Row(s) /\ ~s.dialog /\ xf' = [xf EXCEPT ![x] = s]
    BY <1>1, <1>2, <1>3, PrepareResult DEF Base
  <1> QED
    BY <1>1, <1>2, <1>4, SetXfer DEF Base, Final

\* libpurple lets go of the transfer and of the request.
LEMMA BaseDialogEnds ==
  ASSUME Base, NEW x \in XferIds, xf[x].dialog, xf[x].set, End(x, "cancelled", 2, port, Stopped(x))
  PROVE  Base' /\ Finals
  <1>1. xf[x].kind # "none" /\ xf[x].ref = 2 /\ xf[x].set
    BY RowFacts DEF Row
  <1>2. IdlesOK(Stopped(x)) /\ PortsOK(port)
    BY StoppedOK DEF Base
  <1> QED
    BY <1>1, <1>2, BaseEnd DEF Ended

\* Accepting an incoming file.
Taken(r) == [r EXCEPT !.status = "started", !.fp = TRUE, !.dialog = FALSE, !.ref = @ - 1]

LEMMA TakenRow ==
  ASSUME NEW r, Row(r), r.dialog, r.set
  PROVE  LET s == Taken(r)
         IN /\ Row(s) /\ s.set /\ r.set /\ ~s.dialog /\ s.fp /\ s.status = "started"
            /\ s.kind = r.kind /\ s.tox = r.tox /\ s.friend = r.friend /\ s.file = r.file
            /\ s.size = r.size /\ s.sent = r.sent /\ s.remaining = r.remaining
            /\ s.idle = r.idle
  <1>1. r \in Xfer /\ r.ref = 2 /\ r.set /\ r.kind # "none" /\ r.who \in Friends
    BY DEF Row
  <1>2. Taken(r) = [r EXCEPT !.status = "started", !.fp = TRUE, !.dialog = FALSE, !.ref = 1]
    BY <1>1 DEF Taken, Xfer
  <1> DEFINE s == Taken(r)
  <1>3. /\ s \in Xfer /\ s.set = r.set /\ ~s.dialog /\ s.fp /\ s.status = "started"
        /\ s.kind = r.kind /\ s.tox = r.tox /\ s.friend = r.friend /\ s.file = r.file
        /\ s.size = r.size /\ s.sent = r.sent /\ s.remaining = r.remaining
        /\ s.idle = r.idle /\ s.ref = 1 /\ s.who = r.who
    <2>1. "started" \in Statuses
      BY DEF Statuses
    <2> QED
      BY <1>1, <1>2, <2>1, SomeRefs DEF Xfer
  <1> HIDE DEF s
  <1> QED
    BY <1>1, <1>3 DEF Row, s

\* Accepting what its friend has completed meanwhile.
LateTaken(r) == [r EXCEPT !.status = "accepted", !.dialog = FALSE, !.ref = @ - 1]

LEMMA LateTakenRow ==
  ASSUME NEW r, Row(r), r.dialog, ~r.set
  PROVE  LET s == LateTaken(r)
         IN /\ Row(s) /\ ~s.set /\ ~s.fp /\ ~s.tox /\ s.ref = 0 /\ r.ref = 1 /\ ~s.dialog
            /\ s.idle = r.idle /\ s.status = "accepted"
            /\ s.kind = r.kind /\ s.size = r.size /\ s.sent = r.sent
  <1>1. r \in Xfer /\ r.ref = 1 /\ r.kind # "none" /\ r.who \in Friends
    BY DEF Row
  <1> DEFINE s == LateTaken(r)
  <1>2. s = [r EXCEPT !.status = "accepted", !.dialog = FALSE, !.ref = 0]
    BY <1>1 DEF LateTaken, Xfer
  <1>3. /\ s \in Xfer /\ s.set = r.set /\ ~s.dialog /\ s.fp = r.fp /\ s.status = "accepted"
        /\ s.kind = r.kind /\ s.tox = r.tox /\ s.size = r.size /\ s.sent = r.sent
        /\ s.idle = r.idle /\ s.ref = 0 /\ s.who = r.who
    <2>1. "accepted" \in Statuses
      BY DEF Statuses
    <2> QED
      BY <1>1, <1>2, <2>1, SomeRefs DEF Xfer
  <1> HIDE DEF s
  <1> QED
    BY <1>1, <1>3 DEF Row, s

LEMMA BaseAcceptFile ==
  ASSUME Base, NEW x \in XferIds, AcceptFile(x)
  PROVE  Base' /\ Finals
  <1>1. xf[x].dialog /\ Row(xf[x])
    BY RowFacts DEF AcceptFile
  <1>2. CASE Fail("freed tox")
    BY <1>2, BaseFail DEF Faults
  <1>3. CASE xf[x].set /\ End(x, "cancelled", 2, port, Stopped(x))
    BY <1>1, <1>3, BaseDialogEnds
  <1>4. CASE /\ xf[x].set
             /\ xf' = [xf EXCEPT ![x] = Taken(@)]
             /\ port' = [port EXCEPT ![PortOf(x)].state = IF @ = "free" THEN @ ELSE "open"]
             /\ UNCHANGED <<up, idles, fault>>
    <2>1. XfersOK(xf') /\ Finals
      <3>1. xf' = [xf EXCEPT ![x] = Taken(xf[x])]
        BY <1>4 DEF Base, XfersOK
      <3>2. Row(Taken(xf[x])) /\ Final(xf[x], Taken(xf[x]))
        BY <1>1, <1>4, TakenRow DEF Final
      <3> QED
        BY <3>1, <3>2, SetXfer DEF Base
    <2>2. PortsOK(port')
      BY <1>4 DEF Base, PortsOK, PortOK, Port
    <2> QED
      BY <1>4, <2>1, <2>2 DEF Base
  <1>5. CASE /\ ~xf[x].set /\ xf' = [xf EXCEPT ![x] = LateTaken(xf[x])]
             /\ UNCHANGED <<up, idles, port, fault>>
    <2> DEFINE r == LateTaken(xf[x])
    <2>1. Row(r) /\ Final(xf[x], r)
      <3>1. Row(r) /\ ~r.set /\ ~r.fp /\ r.ref = 0 /\ xf[x].ref = 1 /\ ~r.dialog
        BY <1>1, <1>5, LateTakenRow
      <3> HIDE DEF r
      <3> QED
        BY <3>1 DEF Final
    <2> HIDE DEF r
    <2>2. XfersOK(xf') /\ Finals
      BY <1>5, <2>1, SetXfer DEF Base, r
    <2> QED
      BY <1>5, <2>2 DEF Base
  <1> QED
    BY <1>2, <1>3, <1>4, <1>5 DEF AcceptFile, Taken, LateTaken

LEMMA CancelledIsSet ==
  ASSUME Base, NEW x \in XferIds, UserCancels(x)
  PROVE  xf[x].set
  <1>1. xf[x].ref > 0 /\ xf[x].status \notin Ended
    BY DEF UserCancels, Ended
  <1>2. Row(xf[x])
    BY RowFacts
  <1>3. xf[x].kind # "none"
    BY <1>1, <1>2 DEF Row, NoXfer
  <1> QED
    BY <1>1, <1>2, <1>3 DEF Row

LEMMA BaseDenyFile ==
  ASSUME Base, NEW x \in XferIds, DenyFile(x)
  PROVE  Base' /\ Finals
  <1>1. CASE Fail("unref")
    BY <1>1, BaseFail DEF Faults
  <1> QED
    BY <1>1, BaseDialogEnds DEF DenyFile

LEMMA BaseChooseNone ==
  ASSUME Base, NEW x \in XferIds, ChooseNone(x)
  PROVE  Base' /\ Finals
  <1>1. xf[x].set
    BY RowFacts DEF ChooseNone, Row
  <1> QED
    BY <1>1, BaseDialogEnds DEF ChooseNone

LEMMA BaseUser ==
  ASSUME Base, User
  PROVE  Base' /\ Finals
  <1>1. ASSUME NEW n \in Friends, NEW size \in Sizes, SendFile(n, size)
        PROVE  Base' /\ Finals
    BY <1>1, BaseSendFile
  <1>2. ASSUME NEW n \in Friends, SendSomeFile(n)
        PROVE  Base' /\ Finals
    BY <1>2, BaseSendSomeFile
  <1>3. ASSUME NEW x \in XferIds, NEW size \in Sizes, ChooseFile(x, size)
        PROVE  Base' /\ Finals
    BY <1>3, BaseChooseFile
  <1>4. ASSUME NEW x \in XferIds, ChooseNone(x) \/ DenyFile(x)
        PROVE  Base' /\ Finals
    BY <1>4, BaseChooseNone, BaseDenyFile
  <1>5. ASSUME NEW x \in XferIds, AcceptFile(x)
        PROVE  Base' /\ Finals
    BY <1>5, BaseAcceptFile
  <1>6. ASSUME NEW x \in XferIds, UserCancels(x)
        PROVE  Base' /\ Finals
    BY <1>6, CancelledIsSet, BaseCancel DEF UserCancels, Base
  <1>7. ASSUME NEW n \in Friends, ReplaceFriend(n)
        PROVE  Base' /\ Finals
    BY <1>7, NoXferRow, KeepXfers DEF ReplaceFriend, Base, PortsOK
  <1>8. ASSUME Shutdown
        PROVE  Base' /\ Finals
    BY <1>8, NoXferRow, KeepXfers DEF Shutdown, Base, PortsOK
  <1> QED
    BY <1>1, <1>2, <1>3, <1>4, <1>5, <1>6, <1>7, <1>8 DEF User

\* What libtox reports.
LEMMA BaseUnheard ==
  ASSUME Base, NEW p, PortsOK(p), Unheard(p)
  PROVE  Base' /\ Finals
  BY KeepXfers DEF Base, Unheard

Requested(n, f, size) == [Incoming(n, f, size) EXCEPT !.ref = 2, !.dialog = TRUE]

LEMMA IncomingFields ==
  ASSUME NEW n \in Friends, NEW f \in RecvFiles, NEW size \in Sizes
  PROVE  LET r == Requested(n, f, size)
         IN /\ r \in Xfer /\ r.kind = "recv" /\ r.who = n /\ r.ref = 2 /\ r.set /\ r.tox
            /\ r.dialog /\ ~r.fp /\ r.friend = n /\ r.file = f /\ r.sent = 0 /\ r.idle = 0
            /\ r.remaining = size /\ r.size = size /\ r.status = "unknown"
  <1> DEFINE u == Incoming(n, f, size)
  <1>1. NoXfer \in Xfer
    BY NoXferRow DEF Row
  <1>2. LET s == NoXfer
        IN ~s.fp /\ s.sent = 0 /\ s.idle = 0 /\ s.status = "unknown"
    BY DEF NoXfer
  <1>3. f \in Files /\ size \in Int /\ size \in Sizes \cup {0}
    BY XfersAssumption DEF Files
  <1>4. u = [NoXfer EXCEPT !.kind = "recv", !.who = n, !.size = size, !.remaining = size,
                           !.set = TRUE, !.tox = TRUE, !.friend = n, !.file = f]
    BY DEF Incoming
  <1>5. u \in Xfer
    BY <1>1, <1>3, <1>4 DEF Xfer
  <1>6. /\ u.kind = "recv" /\ u.who = n /\ u.set /\ u.tox /\ ~u.fp /\ u.friend = n
        /\ u.file = f /\ u.sent = 0 /\ u.idle = 0 /\ u.remaining = size /\ u.size = size
        /\ u.status = "unknown"
    BY <1>1, <1>2, <1>4 DEF Xfer
  <1> HIDE DEF u
  <1> DEFINE r == [u EXCEPT !.ref = 2, !.dialog = TRUE]
  <1>7. r \in Xfer
    BY <1>5, SomeRefs DEF Xfer
  <1>8. /\ r.kind = "recv" /\ r.who = n /\ r.ref = 2 /\ r.set /\ r.tox
        /\ r.dialog /\ ~r.fp /\ r.friend = n /\ r.file = f /\ r.sent = 0 /\ r.idle = 0
        /\ r.remaining = size /\ r.size = size /\ r.status = "unknown"
    BY <1>5, <1>6 DEF Xfer
  <1> QED
    BY <1>7, <1>8 DEF u, Requested

LEMMA BaseFileRequest ==
  ASSUME Base, NEW n \in Friends, NEW f \in RecvFiles, NEW size \in Sizes,
         OnFileRequest(n, f, size)
  PROVE  Base' /\ Finals
  <1> DEFINE r == Requested(n, f, size)
  <1>1. PICK x \in XferIds :
          /\ IsNext(x) /\ xf' = [xf EXCEPT ![x] = r]
          /\ port' = [port EXCEPT ![<<"recv", n, f>>] =
                        [state |-> "offered", xfer |-> x, moved |-> 0]]
    BY DEF OnFileRequest, Requested
  <1>2. Row(r) /\ r.set
    <2>1. /\ r \in Xfer /\ r.kind = "recv" /\ r.who = n /\ r.ref = 2 /\ r.set
          /\ r.dialog /\ ~r.fp
      BY IncomingFields
    <2> HIDE DEF r
    <2> QED
      BY <2>1 DEF Row
  <1>3. PortsOK(port')
    <2> DEFINE v == [state |-> "offered", xfer |-> x, moved |-> 0]
               q == <<"recv", n, f>>
    <2>1. PortOK(v)
      BY XfersAssumption DEF PortOK, Port, XferIds
    <2>2. port' = [port EXCEPT ![q] = v]
      BY <1>1
    <2> HIDE DEF v, q
    <2> QED
      BY <2>1, <2>2, SetPort DEF Base
  <1>4. UNCHANGED <<up, idles, fault>>
    BY DEF OnFileRequest
  <1> HIDE DEF r
  <1> QED
    BY <1>1, <1>2, <1>3, <1>4, NextIsNew, BaseNew

LEMMA BaseAccepted ==
  ASSUME Base, NEW n \in Friends, NEW f \in SendFiles, OnAccepted(n, f)
  PROVE  Base' /\ Finals
  <1> DEFINE q == <<"send", n, f>>
             p == [port EXCEPT ![q].state = "open"]
  <1>1. port[q].state # "free" /\ (Unheard(p) \/ \E x \in FindXfer(n, f) : Start(x, p))
    BY DEF OnAccepted
  <1>2. q \in Ports
    BY DEF Ports
  <1>3. PortsOK(p)
    <2> HIDE DEF q
    <2> QED
      BY <1>1, <1>2 DEF Base, PortsOK, PortOK, Port
  <1> HIDE DEF p
  <1> QED
    BY <1>1, <1>3, BaseUnheard, BaseStart, FoundIsSet

LEMMA BaseKilled ==
  ASSUME Base, NEW q \in Ports, OnKilled(q)
  PROVE  Base' /\ Finals
  <1> DEFINE p == [port EXCEPT ![q] = FreePort]
  <1>1. Unheard(p) \/ \E x \in FindXfer(q[2], q[3]) : Cancel(x, p)
    BY DEF OnKilled
  <1>2. PortsOK(p)
    BY NoXferRow, SetPort DEF Base
  <1> HIDE DEF p
  <1> QED
    BY <1>1, <1>2, BaseUnheard, BaseCancel, FoundIsSet

LEMMA BaseFinished ==
  ASSUME Base, NEW n \in Friends, NEW f \in RecvFiles, OnFinished(n, f)
  PROVE  Base' /\ Finals
  <1> DEFINE q == <<"recv", n, f>>
             p == [port EXCEPT ![q] = FreePort]
  <1>1. Unheard(p) \/ \E x \in FindXfer(n, f) : End(x, "done", 1, p, Stopped(x))
    BY DEF OnFinished
  <1>2. PortsOK(p)
    BY NoXferRow, SetPort DEF Base
  <1> HIDE DEF p
  <1>3. ASSUME NEW x \in FindXfer(n, f), End(x, "done", 1, p, Stopped(x))
        PROVE  Base' /\ Finals
    <2>1. x \in XferIds /\ xf[x].set /\ xf[x].kind # "none" /\ 1 <= xf[x].ref
      BY FoundIsSet, RowFacts DEF Row
    <2>2. IdlesOK(Stopped(x))
      BY StoppedOK DEF Base
    <2> QED
      BY <1>2, <1>3, <2>1, <2>2, BaseEnd DEF Ended
  <1> QED
    BY <1>1, <1>2, <1>3, BaseUnheard

\* A piece that is written.
Written(r) == [r EXCEPT !.remaining = @ - 1, !.sent = @ + 1]

LEMMA WrittenRow ==
  ASSUME NEW r, Row(r), r.set
  PROVE  LET s == Written(r)
         IN /\ Row(s) /\ s.set = r.set /\ s.tox = r.tox /\ s.fp = r.fp /\ s.kind = r.kind
            /\ s.friend = r.friend /\ s.file = r.file /\ s.size = r.size /\ s.idle = r.idle
            /\ s.status = r.status /\ s.sent = r.sent + 1 /\ s.remaining = r.remaining - 1
            /\ s.dialog = r.dialog
  <1> DEFINE s == Written(r)
  <1>1. r \in Xfer /\ r.sent + 1 \in Nat /\ r.remaining - 1 \in Int
    BY DEF Row, Xfer
  <1>2. s = [r EXCEPT !.remaining = r.remaining - 1, !.sent = r.sent + 1]
    BY <1>1 DEF Written, Xfer
  <1>3. s \in Xfer
    BY <1>1, <1>2 DEF Xfer
  <1>4. /\ s.set = r.set /\ s.tox = r.tox /\ s.fp = r.fp /\ s.kind = r.kind /\ s.who = r.who
        /\ s.friend = r.friend /\ s.file = r.file /\ s.size = r.size /\ s.idle = r.idle
        /\ s.status = r.status /\ s.sent = r.sent + 1 /\ s.remaining = r.remaining - 1
        /\ s.dialog = r.dialog /\ s.ref = r.ref
    BY <1>1, <1>2 DEF Xfer
  <1> HIDE DEF s
  <1> QED
    BY <1>3, <1>4 DEF Row, s

LEMMA BaseFileData ==
  ASSUME Base, NEW n \in Friends, NEW f \in RecvFiles, OnFileData(n, f)
  PROVE  Base' /\ Finals
  <1> DEFINE q == <<"recv", n, f>>
             p == [port EXCEPT ![q].moved = @ + 1]
  <1>1. PICK x \in XferIds :
          \/ Unheard(p)
          \/ xf[x].set /\ Cancel(x, p)
          \/ /\ xf[x].set /\ xf' = [xf EXCEPT ![x].remaining = @ - 1, ![x].sent = @ + 1]
             /\ port' = p
             /\ UNCHANGED <<up, idles, fault>>
    <2>1. 1 \in XferIds
      BY XfersAssumption DEF XferIds
    <2> QED
      BY <2>1, FoundIsSet DEF OnFileData
  <1>2. PortsOK(p)
    <2> DEFINE v == [port[q] EXCEPT !.moved = @ + 1]
    <2>1. q \in Ports
      BY DEF Ports
    <2> HIDE DEF q
    <2>2. PortOK(port[q])
      BY <2>1 DEF Base, PortsOK
    <2>3. PortOK(v)
      BY <2>2 DEF PortOK, Port
    <2>4. p = [port EXCEPT ![q] = v]
      BY <2>1 DEF Base, PortsOK
    <2> HIDE DEF p, v
    <2> QED
      BY <2>3, <2>4, SetPort DEF Base
  <1> HIDE DEF p
  <1>3. ASSUME xf[x].set, xf' = [xf EXCEPT ![x].remaining = @ - 1, ![x].sent = @ + 1],
               port' = p, UNCHANGED <<up, idles, fault>>
        PROVE  Base' /\ Finals
    <2>1. Row(xf[x]) /\ xf[x] \in Xfer
      BY RowFacts
    <2>2. xf' = [xf EXCEPT ![x] = Written(xf[x])]
      BY <1>3, <2>1 DEF Written, Base, XfersOK, Xfer
    <2>3. Row(Written(xf[x])) /\ Final(xf[x], Written(xf[x]))
      BY <1>3, <2>1, WrittenRow DEF Final
    <2> QED
      BY <1>2, <1>3, <2>2, <2>3, SetXfer DEF Base
  <1> QED
    BY <1>1, <1>2, <1>3, BaseUnheard, BaseCancel

\* The callback of a transfer.
LEMMA CallbackFacts ==
  ASSUME Base, NEW i \in IdleIds, Runs(i)
  PROVE  /\ idles[i] \in Record /\ idles[i].xfer \in XferIds /\ idles[i].offset \in Nat
         /\ idles[i].length \in Nat
         /\ Row(xf[idles[i].xfer]) /\ xf[idles[i].xfer] \in Xfer
  <1>1. IdleOK(idles[i]) /\ idles[i].running
    BY DEF Base, IdlesOK, Runs
  <1>2. idles[i] \in Record /\ idles[i].xfer \in XferIds
    BY <1>1 DEF IdleOK, Record
  <1>3. idles[i].offset \in Nat /\ idles[i].length \in Nat
    BY <1>2 DEF Record
  <1> QED
    BY <1>2, <1>3, RowFacts

\* What a piece that is taken leaves of the transfer.
Pushed(r, at) ==
  [r EXCEPT !.sent = at, !.remaining = r.size - at,
            !.status = IF r.sent + 1 >= r.size THEN "done" ELSE @]

LEMMA PushedRow ==
  ASSUME NEW r, Row(r), r.set, NEW at \in Nat
  PROVE  LET s == Pushed(r, at)
         IN /\ Row(s) /\ s.set = r.set /\ s.tox = r.tox /\ s.fp = r.fp /\ s.kind = r.kind
            /\ s.friend = r.friend /\ s.file = r.file /\ s.size = r.size /\ s.idle = r.idle
            /\ s.dialog = r.dialog /\ s.sent = at /\ s.remaining = r.size - at
            /\ s.status = IF r.sent + 1 >= r.size THEN "done" ELSE r.status
  <1>1. r \in Xfer /\ r.size \in Int /\ r.status \in Statuses
    <2>1. r \in Xfer
      BY DEF Row
    <2>2. r.size \in Sizes \cup {0} /\ r.status \in Statuses
      BY <2>1 DEF Xfer
    <2> QED
      BY <2>1, <2>2, SizesAreNumbers
  <1> DEFINE left == r.size - at
             st == IF r.sent + 1 >= r.size THEN "done" ELSE r.status
             s == Pushed(r, at)
  <1>2. left \in Int /\ st \in Statuses
    BY <1>1 DEF Statuses
  <1>3. s = [r EXCEPT !.sent = at, !.remaining = left, !.status = st]
    BY <1>1 DEF Pushed, Xfer
  <1> HIDE DEF left, st, s
  <1>4. s \in Xfer
    BY <1>1, <1>2, <1>3 DEF Xfer
  <1>5. /\ s.set = r.set /\ s.tox = r.tox /\ s.fp = r.fp /\ s.kind = r.kind /\ s.who = r.who
        /\ s.friend = r.friend /\ s.file = r.file /\ s.size = r.size /\ s.idle = r.idle
        /\ s.dialog = r.dialog /\ s.sent = at /\ s.remaining = left /\ s.status = st
        /\ s.ref = r.ref
    BY <1>1, <1>3 DEF Xfer
  <1>6. Row(s)
    BY <1>4, <1>5 DEF Row
  <1> QED
    BY <1>5, <1>6 DEF left, st, s

LEMMA TakesResult ==
  ASSUME Base, NEW i \in IdleIds, IdlePush(i)
  PROVE  LET x == idles[i].xfer
             at == idles[i].offset + 1
         IN /\ x \in XferIds /\ at \in Nat /\ xf[x].set /\ xf[x].tox /\ Runs(i) /\ up
            /\ xf[x].remaining > 0 /\ xf[x].status # "cancelled"
            /\ idles[i].offset < idles[i].length
            /\ PortOf(x) \in Ports /\ port[PortOf(x)].state = "open"
            /\ xf' = [xf EXCEPT ![x] = Pushed(xf[x], at)]
            /\ idles' = [idles EXCEPT ![i].offset = at]
            /\ port' = [port EXCEPT ![PortOf(x)].moved = @ + 1]
            /\ UNCHANGED <<up, fault>>
  <1> DEFINE x == idles[i].xfer
             at == idles[i].offset + 1
  <1>1. Runs(i)
    BY DEF IdlePush, Takes, Pushes
  <1>2. x \in XferIds /\ at \in Nat /\ xf[x] \in Xfer
    BY <1>1, CallbackFacts
  <1>3. xf' = [xf EXCEPT ![x] = Pushed(xf[x], at)]
    BY <1>2 DEF IdlePush, Takes, Pushed, Base, XfersOK, Xfer
  <1> QED
    BY <1>1, <1>2, <1>3 DEF IdlePush, Takes, Pushes

LEMMA BasePush ==
  ASSUME Base, NEW i \in IdleIds, IdlePush(i)
  PROVE  Base' /\ Finals
  <1> DEFINE x == idles[i].xfer
             at == idles[i].offset + 1
             q == PortOf(x)
  <1>1. /\ x \in XferIds /\ at \in Nat /\ xf[x].set /\ Runs(i) /\ q \in Ports
        /\ xf' = [xf EXCEPT ![x] = Pushed(xf[x], at)]
        /\ idles' = [idles EXCEPT ![i].offset = at]
        /\ port' = [port EXCEPT ![q].moved = @ + 1]
        /\ UNCHANGED <<up, fault>>
    BY TakesResult
  <1> HIDE DEF x, at, q
  <1>2. Row(Pushed(xf[x], at)) /\ Final(xf[x], Pushed(xf[x], at))
    BY <1>1, RowFacts, PushedRow DEF Final
  <1>3. XfersOK(xf') /\ Finals
    BY <1>1, <1>2, SetXfer DEF Base
  <1>4. IdlesOK(idles')
    BY <1>1 DEF Base, IdlesOK, IdleOK, Record
  <1>5. PortsOK(port')
    BY <1>1 DEF Base, PortsOK, PortOK, Port
  <1> QED
    BY <1>1, <1>3, <1>4, <1>5 DEF Base

LEMMA BaseIdleEnd ==
  ASSUME Base, NEW i \in IdleIds, IdleEnd(i)
  PROVE  Base' /\ Finals
  <1> DEFINE x == idles[i].xfer
             gone == [Stopped(x) EXCEPT ![i] = NoIdle]
  <1>1. Runs(i) /\ xf[x].ref > 0
    BY DEF IdleEnd
  <1>2. x \in XferIds /\ Row(xf[x]) /\ xf[x].ref \in Nat
    BY <1>1, CallbackFacts, RowFacts
  <1>3. xf[x].kind # "none"
    BY <1>1, <1>2 DEF Row, NoXfer
  <1>4. IdlesOK(gone) /\ PortsOK(port)
    BY NoXferRow, StoppedOK, SetIdle DEF Base
  <1> HIDE DEF gone, x
  <1>5. CASE xf[x].status = "done" /\ ~xf[x].set /\ Fail("null data")
    BY <1>5, BaseFail DEF Faults
  <1>6. CASE xf[x].status = "done" /\ xf[x].set /\ End(x, "done", 1, port, gone)
    BY <1>1, <1>2, <1>3, <1>4, <1>6, BaseEnd DEF Ended
  <1>7. CASE xf[x].status # "done" /\ End(x, "cancelled", 1, port, gone)
    <2>1. xf[x].set \/ "cancelled" = xf[x].status
      BY <1>1, <1>2, <1>3, <1>7 DEF Row, Ended
    <2> QED
      BY <1>1, <1>2, <1>3, <1>4, <1>7, <2>1, BaseEnd DEF Ended
  <1> QED
    BY <1>5, <1>6, <1>7 DEF IdleEnd, x, gone

LEMMA BaseIdle ==
  ASSUME Base, Idle
  PROVE  Base' /\ Finals
  <1>1. PICK i \in IdleIds : IdlePush(i) \/ IdleEnd(i) \/ IdleFree(i) \/ IdleFaults(i)
    BY DEF Idle
  <1>2. CASE IdleFree(i)
    BY <1>2, NoXferRow, SetIdle, KeepXfers DEF IdleFree, Base
  <1>3. CASE IdleFaults(i)
    BY <1>3, BaseFail DEF IdleFaults, Faults
  <1> QED
    BY <1>1, <1>2, <1>3, BasePush, BaseIdleEnd

LEMMA BaseLibtox ==
  ASSUME Base, Libtox
  PROVE  Base' /\ Finals
  BY BaseFileRequest, BaseAccepted, BaseKilled, BaseFinished, BaseFileData DEF Libtox

LEMMA BaseStep ==
  ASSUME Base, [Next]_vars
  PROVE  Base' /\ Finals
  <1>1. CASE UNCHANGED vars
    BY <1>1, KeepXfers DEF vars, Base
  <1> QED
    BY <1>1, BaseUser, BaseLibtox, BaseIdle DEF Next

LEMMA BaseInvariance == Spec => []Base
  <1>1. Init => Base
    BY NoXferRow DEF Init, Base, XfersOK, IdlesOK, PortsOK, Faults
  <1> QED
    BY <1>1, BaseStep, PTL DEF Spec

\* Whatever the peers, the user and the network do, the tables keep their shape.
THEOREM TypeCorrect == Spec => []TypeOK
  <1>1. ASSUME Base
        PROVE  TypeOK
    <2>1. xf \in [XferIds -> Xfer]
      BY <1>1 DEF Base, XfersOK, Row
    <2>2. idles \in [IdleIds -> Record]
      BY <1>1 DEF Base, IdlesOK, IdleOK
    <2>3. port \in [Ports -> Port]
      BY <1>1 DEF Base, PortsOK, PortOK
    <2>4. XferIds \cup {0} = XferIds \cup {0} /\ Xfer =
            [kind : {"none", "send", "recv"}, who : Friends \cup {0},
             status : {"unknown", "accepted", "started", "done", "cancelled"},
             ref : 0 .. 2, dialog : BOOLEAN, fp : BOOLEAN, size : Sizes \cup {0},
             sent : Nat, remaining : Int, set : BOOLEAN, tox : BOOLEAN,
             friend : Friends \cup {0}, file : SendFiles \cup RecvFiles \cup {0},
             idle : IdleIds \cup {0}]
      BY DEF Xfer, Refs, Statuses, Files
    <2>5. up \in BOOLEAN /\ fault \in Faults
      BY <1>1 DEF Base
    <2> QED
      BY <2>1, <2>2, <2>3, <2>4, <2>5, Zenon DEF TypeOK, Record, Port, Faults
  <1> QED
    BY <1>1, BaseInvariance, PTL

\* A transfer that is over is never revived (common/xfers.c:33-59, purple/xfers.c:54-78),
\* not even by a packet or a callback that is taken for its own.
THEOREM OverIsOver == Spec => OverIsFinal
  <1>1. ASSUME Base, [Next]_vars
        PROVE  [\A x \in XferIds : xf[x].kind # "none" /\ ~xf[x].set =>
                  /\ xf'[x].status = xf[x].status \/ (xf[x].ref > 0 /\ xf'[x].ref = 0)
                  /\ ~xf'[x].set /\ ~xf'[x].fp
                  /\ xf'[x].ref <= xf[x].ref]_vars
    BY <1>1, BaseStep DEF Finals, Final
  <1> QED
    BY <1>1, BaseInvariance, PTL DEF Spec, OverIsFinal

-----------------------------------------------------------------------------
(* Link: the names of a transfer *)

LEMMA PortOfNonFree ==
  ASSUME Base, NEW q \in Ports, port[q].state # "free"
  PROVE  port[q].xfer \in XferIds
  BY DEF Base, PortsOK, PortOK, Port

LEMMA ToxIsSet ==
  ASSUME Base, NEW x \in XferIds, xf[x].tox
  PROVE  xf[x].set /\ xf[x].ref > 0 /\ xf[x].kind # "none"
  BY RowFacts DEF Row

\* Steps that give and take no number.
LEMMA LinkKept ==
  ASSUME Base, Link, up' = up,
         \A x \in XferIds : /\ Named(xf'[x]) /\ (xf'[x].tox <=> xf[x].tox)
                            /\ xf[x].tox => PortName(xf'[x]) = PortName(xf[x]),
         \A q \in Ports : /\ port'[q].state = "free" <=> port[q].state = "free"
                          /\ port'[q].xfer = port[q].xfer
  PROVE  Link'
  <1>1. ASSUME NEW x \in XferIds, xf'[x].tox, up'
        PROVE  port'[PortName(xf'[x])].state # "free" /\ port'[PortName(xf'[x])].xfer = x
    <2>1. PortName(xf'[x]) = PortName(xf[x]) /\ PortName(xf[x]) \in Ports
      BY <1>1 DEF Link, PortName, Named
    <2> QED
      BY <1>1, <2>1 DEF Link
  <1>2. ASSUME NEW q \in Ports, port'[q].state # "free"
        PROVE  up' /\ xf'[port'[q].xfer].tox /\ PortName(xf'[port'[q].xfer]) = q
    <2>1. port[q].state # "free" /\ port'[q].xfer = port[q].xfer /\ port[q].xfer \in XferIds
      BY <1>2, PortOfNonFree
    <2>2. up /\ xf[port[q].xfer].tox /\ PortName(xf[port[q].xfer]) = q
      BY <2>1 DEF Link
    <2> QED
      BY <2>1, <2>2 DEF PortName
  <1> QED
    BY <1>1, <1>2 DEF Link, PortName

\* The end of a transfer frees its port and no other.
LEMMA LinkEnd ==
  ASSUME Base, Link, NEW x \in XferIds, NEW st \in Ended, NEW refs \in 1 .. 2, NEW p, NEW ids,
         xf[x].kind # "none", refs <= xf[x].ref,
         \A q \in Ports : ~xf[x].tox \/ q # PortName(xf[x]) => p[q] = port[q],
         End(x, st, refs, p, ids)
  PROVE  Link'
  <1>1. CASE Fail("null tox") \/ Fail("freed tox")
    BY <1>1, LinkKept DEF Fail, Link
  <1>2. CASE /\ xf' = [xf EXCEPT ![x] = Finished(xf[x], st, refs)]
             /\ port' = Closed(p, x) /\ up' = up
    <2> DEFINE r == Finished(xf[x], st, refs)
    <2>1. ~r.set /\ ~r.tox
      BY RowFacts, FinishedFields
    <2>2. xf' = [xf EXCEPT ![x] = r] /\ port' = Closed(p, x) /\ up' = up
      BY <1>2
    <2> HIDE DEF r
    <2>3. \A y \in XferIds : xf'[y] = IF y = x THEN r ELSE xf[y]
      BY <2>2 DEF Base, XfersOK
    <2>4. \A q \in Ports : port'[q] =
            IF xf[x].tox /\ q = PortName(xf[x]) THEN FreePort ELSE port[q]
      BY <2>2 DEF Closed, PortOf, PortName
    <2>5. \A y \in XferIds : Named(xf'[y])
      BY <2>1, <2>3 DEF Link, Named
    <2>6. ASSUME NEW y \in XferIds, xf'[y].tox, up'
          PROVE  port'[PortName(xf'[y])].state # "free" /\ port'[PortName(xf'[y])].xfer = y
      <3>1. y # x /\ xf[y].tox /\ PortName(xf'[y]) = PortName(xf[y]) /\ PortName(xf[y]) \in Ports
        BY <2>1, <2>3, <2>6 DEF Link, PortName, Named
      <3>2. port[PortName(xf[y])].state # "free" /\ port[PortName(xf[y])].xfer = y
        BY <2>2, <2>6, <3>1 DEF Link
      <3>3. ~xf[x].tox \/ PortName(xf[y]) # PortName(xf[x])
        BY <2>2, <2>6, <3>1, <3>2 DEF Link
      <3> QED
        BY <2>4, <3>1, <3>2, <3>3
    <2>7. ASSUME NEW q \in Ports, port'[q].state # "free"
          PROVE  up' /\ xf'[port'[q].xfer].tox /\ PortName(xf'[port'[q].xfer]) = q
      <3>1. ~(xf[x].tox /\ q = PortName(xf[x])) /\ port'[q] = port[q]
        BY <2>4, <2>7 DEF FreePort
      <3>2. up /\ xf[port[q].xfer].tox /\ PortName(xf[port[q].xfer]) = q
            /\ port[q].xfer \in XferIds
        BY <2>7, <3>1, PortOfNonFree DEF Link
      <3>3. port[q].xfer # x
        BY <3>1, <3>2
      <3> QED
        BY <2>2, <2>3, <3>1, <3>2, <3>3 DEF PortName
    <2> QED
      BY <2>5, <2>6, <2>7 DEF Link
  <1>3. \/ Fail("null tox") \/ Fail("freed tox")
        \/ /\ xf' = [xf EXCEPT ![x] = Finished(xf[x], st, refs)]
           /\ port' = Closed(p, x) /\ up' = up
    BY EndsAt DEF End
  <1> QED
    BY <1>1, <1>2, <1>3

\* A port that was free is given to a transfer that had none.
LEMMA LinkNew ==
  ASSUME Base, Link, up, up', NEW x \in XferIds, NEW r, Named(r), r.tox, ~xf[x].tox,
         port[PortName(r)].state = "free",
         xf' = [xf EXCEPT ![x] = r],
         port' = [port EXCEPT ![PortName(r)] =
                    [state |-> "offered", xfer |-> x, moved |-> 0]]
  PROVE  Link'
  <1> DEFINE q == PortName(r)
             v == [state |-> "offered", xfer |-> x, moved |-> 0]
  <1>1. q \in Ports /\ v.state # "free" /\ v.xfer = x
    BY DEF Named
  <1>2. \A y \in XferIds : xf'[y] = IF y = x THEN r ELSE xf[y]
    BY DEF Base, XfersOK
  <1>3. \A p \in Ports : port'[p] = IF p = q THEN v ELSE port[p]
    BY DEF Base, PortsOK
  <1> HIDE DEF q, v
  <1>4. PortName(xf'[x]) = q
    BY <1>2 DEF PortName, q
  <1>5. \A y \in XferIds : Named(xf'[y])
    BY <1>2 DEF Link
  <1>6. ASSUME NEW y \in XferIds, xf'[y].tox, y # x
        PROVE  port'[PortName(xf'[y])].state # "free" /\ port'[PortName(xf'[y])].xfer = y
    <2>1. xf[y].tox /\ PortName(xf'[y]) = PortName(xf[y]) /\ PortName(xf[y]) \in Ports
      BY <1>2, <1>6 DEF Link, PortName, Named
    <2>2. port[PortName(xf[y])].state # "free" /\ port[PortName(xf[y])].xfer = y
      BY <2>1 DEF Link
    <2>3. PortName(xf[y]) # q
      BY <2>2 DEF q
    <2> QED
      BY <1>3, <2>1, <2>2, <2>3
  <1>7. ASSUME NEW p \in Ports, port'[p].state # "free", p # q
        PROVE  up' /\ xf'[port'[p].xfer].tox /\ PortName(xf'[port'[p].xfer]) = p
    <2>1. port'[p] = port[p]
      BY <1>3, <1>7
    <2>2. xf[port[p].xfer].tox /\ PortName(xf[port[p].xfer]) = p /\ port[p].xfer \in XferIds
      BY <1>7, <2>1, PortOfNonFree DEF Link
    <2> QED
      BY <1>2, <2>1, <2>2 DEF PortName
  <1>8. port'[q] = v /\ xf'[x] = r
    BY <1>1, <1>2, <1>3
  <1> QED
    BY <1>1, <1>4, <1>5, <1>6, <1>7, <1>8 DEF Link

\* Numbers kept apart name one transfer.
LEMMA PortFinds ==
  ASSUME NumbersApart, Base, Link, NEW q \in Ports, port[q].state # "free"
  PROVE  FindXfer(q[2], q[3]) = {port[q].xfer}
  <1> DEFINE x == port[q].xfer
  <1>1. x \in XferIds /\ xf[x].tox /\ PortName(xf[x]) = q /\ up
    BY PortOfNonFree DEF Link
  <1>2. /\ q = <<q[1], q[2], q[3]>> /\ q[2] \in Friends
        /\ (q[1] = "send" /\ q[3] \in SendFiles) \/ (q[1] = "recv" /\ q[3] \in RecvFiles)
    BY PortIsTriple, PortParts
  <1>3. x \in Matches(q[2], q[3])
    BY <1>1, ToxIsSet DEF Matches, PortName
  <1>4. ASSUME NEW y \in Matches(q[2], q[3])
        PROVE  y = x
    <2>1. y \in XferIds /\ xf[y].set /\ xf[y].friend = q[2] /\ xf[y].file = q[3]
      BY DEF Matches
    <2>2. CASE ~xf[y].tox
      BY <1>2, <2>1, <2>2 DEF Link, Named, NumbersApart
    <2>3. CASE xf[y].tox
      <3>1. PortName(xf[y]) \in Ports /\ port[PortName(xf[y])].xfer = y
        BY <1>1, <2>1, <2>3 DEF Link, Named, PortName
      <3>2. PortName(xf[y]) = <<xf[y].kind, q[2], q[3]>>
        BY <2>1 DEF PortName
      <3>3. \/ xf[y].kind = "send" /\ q[3] \in SendFiles
            \/ xf[y].kind = "recv" /\ q[3] \in RecvFiles
        BY <3>1, <3>2, PortParts
      <3>4. xf[y].kind = q[1]
        BY <1>2, <3>3 DEF NumbersApart
      <3> QED
        BY <1>2, <3>1, <3>2, <3>4
    <2> QED
      BY <2>2, <2>3
  <1> HIDE DEF x
  <1>5. x <= x
    BY <1>1 DEF XferIds
  <1>6. FindXfer(q[2], q[3]) = {x}
    BY <1>3, <1>4, <1>5 DEF FindXfer
  <1> QED
    BY <1>6 DEF x

LEMMA LinkSame ==
  ASSUME Base, Link, UNCHANGED <<up, xf>>,
         \A q \in Ports : /\ port'[q].state = "free" <=> port[q].state = "free"
                          /\ port'[q].xfer = port[q].xfer
  PROVE  Link'
  BY LinkKept DEF Link

LEMMA LinkRow ==
  ASSUME Base, Link, up' = up, NEW x \in XferIds, NEW r, xf' = [xf EXCEPT ![x] = r],
         Named(r), r.tox <=> xf[x].tox, r.tox => PortName(r) = PortName(xf[x]),
         \A q \in Ports : /\ port'[q].state = "free" <=> port[q].state = "free"
                          /\ port'[q].xfer = port[q].xfer
  PROVE  Link'
  <1>1. \A y \in XferIds : xf'[y] = IF y = x THEN r ELSE xf[y]
    BY DEF Base, XfersOK
  <1>2. \A y \in XferIds : /\ Named(xf'[y]) /\ (xf'[y].tox <=> xf[y].tox)
                           /\ xf[y].tox => PortName(xf'[y]) = PortName(xf[y])
    BY <1>1 DEF Link
  <1> QED
    BY <1>2, LinkKept

LEMMA PreparedFields ==
  ASSUME NEW r, Unprepared(r), NEW f \in SendFiles
  PROVE  LET s == PreparedAs(r, f)
         IN /\ s.set /\ s.tox /\ s.kind = "send" /\ s.friend = r.who /\ s.file = f
            /\ ~s.dialog /\ s.sent = r.sent /\ s.size = r.size /\ s.remaining = r.remaining
            /\ s.idle = r.idle /\ s.status = "accepted" /\ s.fp = r.fp
  BY DEF Unprepared, Row, PreparedAs, Xfer

\* Preparing a transfer libtox does not know gives it a port, or leaves it so.
LEMMA LinkPrepare ==
  ASSUME Base, Link, up, up', NEW x \in XferIds, NEW r, Unprepared(r), Prepare(x, r), Named(r),
         ~r.tox, ~xf[x].tox
  PROVE  Link'
  <1>1. Row(r) /\ r \in Xfer /\ r.set /\ r.kind = "send" /\ r.who \in Friends /\ ~r.dialog
    BY DEF Unprepared, Row
  <1>2. ASSUME NEW f \in SendFiles,
               port[<<"send", r.who, f>>] = FreePort,
               xf' = [xf EXCEPT ![x] = PreparedAs(r, f)],
               port' = [port EXCEPT ![<<"send", r.who, f>>] =
                          [state |-> "offered", xfer |-> x, moved |-> 0]]
        PROVE  Link'
    <2> DEFINE s == PreparedAs(r, f)
    <2>1. s.set /\ s.tox /\ s.kind = "send" /\ ~s.dialog /\ PortName(s) = <<"send", r.who, f>>
      BY PreparedFields DEF PortName
    <2>2. <<"send", r.who, f>> \in Ports
      BY <1>1 DEF Ports
    <2> HIDE DEF s
    <2>3. Named(s)
      BY <2>1, <2>2 DEF Named
    <2>4. port[PortName(s)].state = "free"
      BY <1>2, <2>1 DEF FreePort
    <2>5. port' = [port EXCEPT ![PortName(s)] =
                     [state |-> "offered", xfer |-> x, moved |-> 0]]
      BY <1>2, <2>1
    <2>6. xf' = [xf EXCEPT ![x] = s]
      BY <1>2 DEF s
    <2> QED
      BY <2>1, <2>3, <2>4, <2>5, <2>6, LinkNew
  <1>3. ASSUME xf' = [xf EXCEPT ![x] = [r EXCEPT !.status = "accepted"]], port' = port
        PROVE  Link'
    <2> DEFINE s == [r EXCEPT !.status = "accepted"]
    <2>1. s.set = r.set /\ s.tox = r.tox /\ s.kind = r.kind /\ s.friend = r.friend
          /\ s.file = r.file /\ s.dialog = r.dialog
      BY <1>1 DEF Xfer
    <2>2. xf' = [xf EXCEPT ![x] = s]
      BY <1>3
    <2> HIDE DEF s
    <2>3. Named(s) /\ ~s.tox
      BY <1>1, <2>1 DEF Named, PortName
    <2>4. (s.tox <=> xf[x].tox) /\ up' = up
      BY <1>1, <2>1
    <2> QED
      BY <1>3, <2>2, <2>3, <2>4, LinkRow
  <1> QED
    BY <1>2, <1>3, PrepareResult

LEMMA NewIsNameless ==
  ASSUME Base, NEW x \in XferIds, IsNext(x)
  PROVE  ~xf[x].tox /\ ~xf[x].set
  BY NextIsNew, RowFacts DEF Row, NoXfer

LEMMA LinkDialogEnds ==
  ASSUME Base, Link, NEW x \in XferIds, xf[x].dialog, xf[x].set, End(x, "cancelled", 2, port, Stopped(x))
  PROVE  Link'
  <1>1. xf[x].kind # "none" /\ xf[x].ref = 2
    BY RowFacts DEF Row
  <1> QED
    BY <1>1, LinkEnd DEF Ended

LEMMA LinkCancel ==
  ASSUME Base, Link, NEW x \in XferIds, xf[x].set, NEW p,
         \A q \in Ports : ~xf[x].tox \/ q # PortName(xf[x]) => p[q] = port[q],
         Cancel(x, p)
  PROVE  Link'
  <1>1. xf[x].kind # "none" /\ 1 <= xf[x].ref
    BY RowFacts DEF Row
  <1> QED
    BY <1>1, LinkEnd DEF Cancel, Ended

LEMMA LinkUser ==
  ASSUME Base, Link, ~Replaces, User
  PROVE  Link'
  <1>1. ASSUME NEW n \in Friends, NEW size \in Sizes, SendFile(n, size)
        PROVE  Link'
    <2> DEFINE r == [Outgoing(n) EXCEPT !.size = size, !.remaining = size]
    <2>1. PICK x \in XferIds : IsNext(x) /\ Prepare(x, r)
      BY <1>1 DEF SendFile
    <2>2. up /\ up'
      BY <1>1 DEF SendFile, Online
    <2>3. Unprepared(r)
      BY OutgoingUnprepared
    <2>4. r.set /\ r.kind = "send" /\ ~r.tox /\ ~r.dialog /\ r.friend = 0 /\ r.file = 0
      BY OutgoingFields DEF Xfer
    <2> HIDE DEF r
    <2>5. Named(r)
      BY <2>4 DEF Named
    <2> QED
      BY <2>1, <2>2, <2>3, <2>4, <2>5, NewIsNameless, LinkPrepare
  <1>2. ASSUME NEW n \in Friends, SendSomeFile(n)
        PROVE  Link'
    <2> DEFINE r == [Outgoing(n) EXCEPT !.ref = 2, !.dialog = TRUE]
    <2>1. PICK x \in XferIds : IsNext(x) /\ xf' = [xf EXCEPT ![x] = r]
      BY <1>2 DEF SendSomeFile
    <2>2. up' = up /\ port' = port
      BY <1>2 DEF SendSomeFile
    <2>3. r.set /\ r.kind = "send" /\ ~r.tox /\ r.friend = 0 /\ r.file = 0
      BY OutgoingFields DEF Xfer
    <2> HIDE DEF r
    <2>4. Named(r) /\ (r.tox <=> xf[x].tox)
      BY <2>1, <2>3, NewIsNameless DEF Named
    <2> QED
      BY <2>1, <2>2, <2>3, <2>4, LinkRow
  <1>3. ASSUME NEW x \in XferIds, NEW size \in Sizes, ChooseFile(x, size)
        PROVE  Link'
    <2> DEFINE r == Chosen(x, size)
    <2>1. /\ xf[x].kind = "send" /\ xf[x].dialog /\ up' = up
          /\ \/ up /\ Prepare(x, r)
             \/ xf' = [xf EXCEPT ![x] = [r EXCEPT !.status = "accepted"]] /\ port' = port
      BY <1>3 DEF ChooseFile, Chosen
    <2>2. /\ Row(r) /\ r.set /\ r.kind = "send" /\ ~r.dialog /\ xf[x].set
          /\ r.tox = xf[x].tox /\ r.friend = xf[x].friend /\ r.file = xf[x].file
      BY <2>1, ChosenRow
    <2> HIDE DEF r
    <2>3. ~xf[x].tox /\ Named(r) /\ ~r.tox
      BY <2>1, <2>2, RowFacts DEF Row, Link, Named
    <2>4. CASE up /\ Prepare(x, r)
      BY <2>1, <2>2, <2>3, <2>4, LinkPrepare DEF Unprepared
    <2>5. CASE xf' = [xf EXCEPT ![x] = [r EXCEPT !.status = "accepted"]] /\ port' = port
      <3> DEFINE s == [r EXCEPT !.status = "accepted"]
      <3>1. s.set = r.set /\ s.tox = r.tox /\ s.kind = r.kind /\ s.friend = r.friend
            /\ s.file = r.file /\ s.dialog = r.dialog
        BY <2>2 DEF Row, Xfer
      <3>2. xf' = [xf EXCEPT ![x] = s]
        BY <2>5
      <3> HIDE DEF s
      <3>3. Named(s) /\ (s.tox <=> xf[x].tox) /\ ~s.tox
        BY <2>2, <2>3, <3>1 DEF Named, PortName
      <3> QED
        BY <2>1, <2>5, <3>2, <3>3, LinkRow
    <2> QED
      BY <2>1, <2>4, <2>5
  <1>4. ASSUME NEW x \in XferIds, ChooseNone(x) \/ DenyFile(x)
        PROVE  Link'
    <2>1. CASE Fail("unref")
      BY <2>1, LinkSame DEF Fail
    <2>2. xf[x].kind = "send" /\ xf[x].dialog => xf[x].set
      BY RowFacts DEF Row
    <2> QED
      BY <1>4, <2>1, <2>2, LinkDialogEnds DEF ChooseNone, DenyFile
  <1>5. ASSUME NEW x \in XferIds, AcceptFile(x)
        PROVE  Link'
    <2>1. xf[x].dialog /\ Row(xf[x])
      BY <1>5, RowFacts DEF AcceptFile
    <2>2. CASE Fail("freed tox")
      BY <2>2, LinkSame DEF Fail
    <2>3. CASE xf[x].set /\ End(x, "cancelled", 2, port, Stopped(x))
      BY <2>1, <2>3, LinkDialogEnds
    <2>4. CASE /\ xf[x].set
               /\ xf' = [xf EXCEPT ![x] = Taken(@)]
               /\ port' = [port EXCEPT ![PortOf(x)].state = IF @ = "free" THEN @ ELSE "open"]
               /\ up' = up
      <3> DEFINE r == Taken(xf[x])
      <3>1. xf' = [xf EXCEPT ![x] = r]
        BY <2>4 DEF Base, XfersOK
      <3>2. /\ (r.set <=> xf[x].set) /\ ~r.dialog /\ r.kind = xf[x].kind /\ (r.tox <=> xf[x].tox)
            /\ r.friend = xf[x].friend /\ r.file = xf[x].file
        BY <2>1, <2>4, TakenRow
      <3>3. Named(r) /\ PortName(r) = PortName(xf[x])
        <4> HIDE DEF r
        <4> QED
          BY <3>2 DEF Link, Named, PortName
      <3>4. \A q \in Ports : /\ port'[q].state = "free" <=> port[q].state = "free"
                             /\ port'[q].xfer = port[q].xfer
        BY <2>4 DEF Base, PortsOK, PortOK, Port
      <3> HIDE DEF r
      <3> QED
        BY <2>4, <3>1, <3>2, <3>3, <3>4, LinkRow
    <2>5. CASE ~xf[x].set /\ xf' = [xf EXCEPT ![x] = LateTaken(xf[x])] /\ port' = port
               /\ up' = up
      <3> DEFINE r == LateTaken(xf[x])
      <3>1. ~r.tox /\ ~r.set /\ ~xf[x].tox
        BY <2>1, <2>5, LateTakenRow DEF Row
      <3>2. xf' = [xf EXCEPT ![x] = r]
        BY <2>5
      <3> HIDE DEF r
      <3>3. Named(r) /\ (r.tox <=> xf[x].tox)
        BY <3>1 DEF Named
      <3> QED
        BY <2>5, <3>1, <3>2, <3>3, LinkRow
    <2> QED
      BY <1>5, <2>2, <2>3, <2>4, <2>5 DEF AcceptFile, Taken, LateTaken
  <1>6. ASSUME NEW x \in XferIds, UserCancels(x)
        PROVE  Link'
    BY <1>6, CancelledIsSet, LinkCancel DEF UserCancels
  <1>7. ASSUME NEW n \in Friends, ReplaceFriend(n)
        PROVE  Link'
    BY <1>7 DEF ReplaceFriend
  <1>8. ASSUME Shutdown
        PROVE  Link'
    BY <1>8 DEF Shutdown, Link, FreePort
  <1> QED
    BY <1>1, <1>2, <1>3, <1>4, <1>5, <1>6, <1>7, <1>8 DEF User

LEMMA LinkStart ==
  ASSUME Base, Link, NEW x \in XferIds, xf[x].set, NEW p, Start(x, p),
         xf[x].tox,
         \A q \in Ports : q # PortName(xf[x]) => p[q] = port[q],
         \A q \in Ports : /\ p[q].state = "free" <=> port[q].state = "free"
                          /\ p[q].xfer = port[q].xfer
  PROVE  Link'
  <1> DEFINE r == xf[x]
  <1>1. Row(r) /\ r \in Xfer
    BY RowFacts
  <1>2. ASSUME NEW i \in IdleIds \cup {0}, ~r.dialog, xf' = [xf EXCEPT ![x] = Opened(r, i)],
               port' = p, up' = up
        PROVE  Link'
    <2> DEFINE s == Opened(r, i)
    <2>1. (s.set <=> r.set) /\ ~s.dialog /\ s.kind = r.kind /\ (s.tox <=> r.tox)
          /\ s.friend = r.friend /\ s.file = r.file
      <3>1. r.set /\ Row(r) /\ ~r.dialog
        BY <1>1, <1>2
      <3> HIDE DEF r
      <3>2. /\ s.set /\ ~s.dialog /\ s.kind = r.kind
            /\ s.tox = r.tox /\ s.friend = r.friend /\ s.file = r.file
        BY <3>1, OpenedRow
      <3> QED
        BY <3>1, <3>2
    <2> HIDE DEF s
    <2>2. Named(s) /\ PortName(s) = PortName(r)
      BY <2>1 DEF Link, Named, PortName
    <2>3. xf' = [xf EXCEPT ![x] = s]
      BY <1>2 DEF s
    <2> QED
      BY <1>2, <2>1, <2>2, <2>3, LinkRow
  <1>3. CASE Cancel(x, p)
    BY <1>3, LinkCancel
  <1> QED
    BY <1>2, <1>3, StartCases

\* An event finds the transfer of its port, and that one only.
LEMMA EventFinds ==
  ASSUME NumbersApart, Base, Link, NEW d, NEW n, NEW f, <<d, n, f>> \in Ports,
         port[<<d, n, f>>].state # "free"
  PROVE  LET x == port[<<d, n, f>>].xfer
         IN /\ FindXfer(n, f) = {x} /\ x \in XferIds
            /\ xf[x].set /\ xf[x].tox /\ xf[x].kind = d
            /\ PortName(xf[x]) = <<d, n, f>>
  <1> DEFINE q == <<d, n, f>>
             x == port[q].xfer
  <1>1. q[2] = n /\ q[3] = f
    OBVIOUS
  <1>2. q \in Ports /\ port[q].state # "free"
    OBVIOUS
  <1>3. FindXfer(q[2], q[3]) = {x}
    <2> HIDE DEF q
    <2> QED
      BY <1>2, PortFinds
  <1>4. x \in XferIds /\ xf[x].tox /\ PortName(xf[x]) = q
    <2> HIDE DEF q
    <2> QED
      BY <1>2, PortOfNonFree DEF Link
  <1>5. xf[x].set
    BY <1>4, ToxIsSet
  <1>6. xf[x].kind = d
    BY <1>4 DEF PortName
  <1> QED
    BY <1>1, <1>3, <1>4, <1>5, <1>6

LEMMA LinkFileRequest ==
  ASSUME Base, Link, NEW n \in Friends, NEW f \in RecvFiles, NEW size \in Sizes,
         OnFileRequest(n, f, size)
  PROVE  Link'
  <1> DEFINE r == Requested(n, f, size)
  <1>1. PICK x \in XferIds :
          /\ IsNext(x) /\ xf' = [xf EXCEPT ![x] = r]
          /\ port' = [port EXCEPT ![<<"recv", n, f>>] =
                        [state |-> "offered", xfer |-> x, moved |-> 0]]
    BY DEF OnFileRequest, Requested
  <1>2. up /\ up' /\ port[<<"recv", n, f>>].state = "free"
    BY DEF OnFileRequest, Online, FreePort
  <1>3. r.set /\ r.tox /\ PortName(r) = <<"recv", n, f>> /\ r.kind = "recv"
    BY IncomingFields DEF PortName
  <1>4. <<"recv", n, f>> \in Ports
    BY DEF Ports
  <1> HIDE DEF r
  <1>5. Named(r)
    BY <1>3, <1>4 DEF Named
  <1>6. ~xf[x].tox
    BY <1>1, NewIsNameless
  <1>7. port[PortName(r)].state = "free"
    BY <1>2, <1>3
  <1>8. port' = [port EXCEPT ![PortName(r)] =
                   [state |-> "offered", xfer |-> x, moved |-> 0]]
    BY <1>1, <1>3
  <1> QED
    BY <1>1, <1>2, <1>3, <1>5, <1>6, <1>7, <1>8, LinkNew

LEMMA LinkAccepted ==
  ASSUME NumbersApart, Base, Link, NEW n \in Friends, NEW f \in SendFiles, OnAccepted(n, f)
  PROVE  Link'
  <1> DEFINE q == <<"send", n, f>>
             p == [port EXCEPT ![q].state = "open"]
             x == port[q].xfer
  <1>1. port[q].state # "free" /\ q \in Ports
    BY DEF OnAccepted, Ports
  <1>2. FindXfer(n, f) = {x} /\ x \in XferIds /\ xf[x].set /\ xf[x].tox /\ PortName(xf[x]) = q
    BY <1>1, EventFinds
  <1>3. Start(x, p)
    BY <1>2 DEF OnAccepted
  <1> HIDE DEF q, x
  <1>4. \A u \in Ports : /\ u # q => p[u] = port[u]
                         /\ p[u].state = "free" <=> port[u].state = "free"
                         /\ p[u].xfer = port[u].xfer
    BY <1>1 DEF Base, PortsOK, PortOK, Port
  <1> HIDE DEF p
  <1> QED
    BY <1>2, <1>3, <1>4, LinkStart

LEMMA LinkKilled ==
  ASSUME NumbersApart, Base, Link, NEW q \in Ports, OnKilled(q)
  PROVE  Link'
  <1> DEFINE p == [port EXCEPT ![q] = FreePort]
             x == port[q].xfer
  <1>1. port[q].state # "free"
    BY DEF OnKilled
  <1>2. x \in XferIds /\ xf[x].set /\ xf[x].tox /\ PortName(xf[x]) = q
    BY <1>1, PortOfNonFree, ToxIsSet DEF Link
  <1>3. FindXfer(q[2], q[3]) = {x}
    BY <1>1, PortFinds
  <1>4. Cancel(x, p)
    BY <1>3 DEF OnKilled
  <1> HIDE DEF x
  <1>5. \A u \in Ports : u # q => p[u] = port[u]
    BY DEF Base, PortsOK
  <1> HIDE DEF p
  <1> QED
    BY <1>2, <1>4, <1>5, LinkCancel

LEMMA LinkFinished ==
  ASSUME NumbersApart, Base, Link, NEW n \in Friends, NEW f \in RecvFiles, OnFinished(n, f)
  PROVE  Link'
  <1> DEFINE q == <<"recv", n, f>>
             p == [port EXCEPT ![q] = FreePort]
             x == port[q].xfer
  <1>1. port[q].state # "free" /\ q \in Ports
    BY DEF OnFinished, Ports
  <1>2. FindXfer(n, f) = {x} /\ x \in XferIds /\ xf[x].set /\ xf[x].tox /\ PortName(xf[x]) = q
    BY <1>1, EventFinds
  <1>3. End(x, "done", 1, p, Stopped(x))
    BY <1>2 DEF OnFinished
  <1> HIDE DEF q, x
  <1>4. \A u \in Ports : u # q => p[u] = port[u]
    BY DEF Base, PortsOK
  <1>5. xf[x].kind # "none" /\ 1 <= xf[x].ref
    BY <1>2, RowFacts DEF Row
  <1> HIDE DEF p
  <1> QED
    BY <1>2, <1>3, <1>4, <1>5, LinkEnd DEF Ended

LEMMA LinkFileData ==
  ASSUME NumbersApart, Base, Link, NEW n \in Friends, NEW f \in RecvFiles, OnFileData(n, f)
  PROVE  Link'
  <1> DEFINE q == <<"recv", n, f>>
             p == [port EXCEPT ![q].moved = @ + 1]
             x == port[q].xfer
  <1>1. port[q].state # "free" /\ q \in Ports
    BY DEF OnFileData, Ports
  <1>2. FindXfer(n, f) = {x} /\ x \in XferIds /\ xf[x].set /\ xf[x].tox /\ PortName(xf[x]) = q
    BY <1>1, EventFinds
  <1>3. \/ Unheard(p)
        \/ Cancel(x, p)
        \/ /\ xf' = [xf EXCEPT ![x].remaining = @ - 1, ![x].sent = @ + 1]
           /\ port' = p
           /\ up' = up
    BY <1>2 DEF OnFileData
  <1> HIDE DEF q, x
  <1>4. \A u \in Ports : /\ u # q => p[u] = port[u]
                         /\ p[u].state = "free" <=> port[u].state = "free"
                         /\ p[u].xfer = port[u].xfer
    BY <1>1 DEF Base, PortsOK, PortOK, Port
  <1> HIDE DEF p
  <1>5. CASE Unheard(p)
    BY <1>4, <1>5, LinkSame DEF Unheard
  <1>6. CASE Cancel(x, p)
    BY <1>2, <1>4, <1>6, LinkCancel
  <1>7. CASE /\ xf' = [xf EXCEPT ![x].remaining = @ - 1, ![x].sent = @ + 1]
             /\ port' = p
             /\ up' = up
    <2> DEFINE r == Written(xf[x])
    <2>1. xf' = [xf EXCEPT ![x] = r]
      BY <1>2, <1>7, RowFacts DEF Written, Base, XfersOK, Xfer
    <2>2. /\ (r.set <=> xf[x].set) /\ (r.dialog <=> xf[x].dialog) /\ r.kind = xf[x].kind
          /\ (r.tox <=> xf[x].tox) /\ r.friend = xf[x].friend /\ r.file = xf[x].file
      BY <1>2, RowFacts, WrittenRow
    <2> HIDE DEF r
    <2>3. Named(r) /\ PortName(r) = PortName(xf[x])
      BY <1>2, <2>2 DEF Link, Named, PortName
    <2> QED
      BY <1>2, <1>4, <1>7, <2>1, <2>2, <2>3, LinkRow
  <1> QED
    BY <1>3, <1>5, <1>6, <1>7

LEMMA LinkIdle ==
  ASSUME Base, Link, Idle
  PROVE  Link'
  <1>1. PICK i \in IdleIds : IdlePush(i) \/ IdleEnd(i) \/ IdleFree(i) \/ IdleFaults(i)
    BY DEF Idle
  <1>2. CASE IdleFree(i)
    BY <1>2, LinkSame DEF IdleFree
  <1>3. CASE IdleFaults(i)
    BY <1>3, LinkSame DEF IdleFaults, Fail
  <1>4. CASE IdlePush(i)
    <2> DEFINE x == idles[i].xfer
               at == idles[i].offset + 1
               r == Pushed(xf[x], at)
    <2>1. /\ x \in XferIds /\ at \in Nat /\ xf[x].set /\ PortOf(x) \in Ports
          /\ xf' = [xf EXCEPT ![x] = r]
          /\ port' = [port EXCEPT ![PortOf(x)].moved = @ + 1]
          /\ up' = up
      BY <1>4, TakesResult
    <2> HIDE DEF x, at
    <2>2. /\ (r.set <=> xf[x].set) /\ (r.dialog <=> xf[x].dialog) /\ r.kind = xf[x].kind
          /\ (r.tox <=> xf[x].tox) /\ r.friend = xf[x].friend /\ r.file = xf[x].file
      BY <2>1, RowFacts, PushedRow
    <2> HIDE DEF r
    <2>3. Named(r) /\ PortName(r) = PortName(xf[x])
      BY <2>1, <2>2 DEF Link, Named, PortName
    <2>4. \A q \in Ports : /\ port'[q].state = "free" <=> port[q].state = "free"
                           /\ port'[q].xfer = port[q].xfer
      BY <2>1 DEF Base, PortsOK, PortOK, Port
    <2> QED
      BY <2>1, <2>2, <2>3, <2>4, LinkRow
  <1>5. CASE IdleEnd(i)
    <2> DEFINE x == idles[i].xfer
               gone == [Stopped(x) EXCEPT ![i] = NoIdle]
    <2>1. Runs(i) /\ xf[x].ref > 0
      BY <1>5 DEF IdleEnd
    <2>2. x \in XferIds /\ Row(xf[x]) /\ xf[x].ref \in Nat
      BY <2>1, CallbackFacts, RowFacts
    <2>3. xf[x].kind # "none" /\ 1 <= xf[x].ref
      BY <2>1, <2>2 DEF Row, NoXfer
    <2> HIDE DEF gone, x
    <2>4. \/ Fail("null data")
          \/ \E st \in Ended : End(x, st, 1, port, gone)
      BY <1>5 DEF IdleEnd, Ended, x, gone
    <2>5. CASE Fail("null data")
      BY <2>5, LinkSame DEF Fail
    <2>6. ASSUME NEW st \in Ended, End(x, st, 1, port, gone)
          PROVE  Link'
      BY <2>2, <2>3, <2>6, LinkEnd
    <2> QED
      BY <2>4, <2>5, <2>6
  <1> QED
    BY <1>1, <1>2, <1>3, <1>4, <1>5

LEMMA LinkStep ==
  ASSUME NumbersApart, ~Replaces, Base, Link, [Next]_vars
  PROVE  Link'
  <1>1. CASE UNCHANGED vars
    BY <1>1, LinkSame DEF vars
  <1>2. CASE Libtox
    BY <1>2, LinkFileRequest, LinkAccepted, LinkKilled, LinkFinished, LinkFileData DEF Libtox
  <1> QED
    BY <1>1, <1>2, LinkUser, LinkIdle DEF Next

LEMMA LinkInvariance ==
  ASSUME NumbersApart, ~Replaces
  PROVE  Spec => [](Base /\ Link)
  <1>1. Init => Base /\ Link
    <2>1. Init => Base
      BY NoXferRow DEF Init, Base, XfersOK, IdlesOK, PortsOK, Faults
    <2>2. ASSUME Init
          PROVE  Link
      <3>1. \A x \in XferIds : xf[x] = NoXfer
        BY <2>2 DEF Init
      <3>2. \A q \in Ports : port[q].state = "free"
        BY <2>2 DEF Init, FreePort
      <3>3. ~NoXfer.tox /\ ~NoXfer.set
        BY DEF NoXfer
      <3> QED
        BY <3>1, <3>2, <3>3 DEF Link, Named
    <2> QED
      BY <2>1, <2>2
  <1>2. Base /\ Link /\ [Next]_vars => Base' /\ Link'
    BY BaseStep, LinkStep
  <1> QED
    BY <1>1, <1>2, PTL DEF Spec

\* Only a piece that is taken moves a callback on.
LEMMA OnlyPushesCount ==
  ASSUME Base, [Next]_vars, NEW i \in IdleIds, idles'[i].offset > idles[i].offset
  PROVE  IdlePush(i)
  <1> DEFINE Still == idles'[i].offset <= idles[i].offset
  <1>1. /\ idles[i].offset \in Nat /\ 0 <= idles[i].offset
        /\ \A j \in IdleIds : \A d : [idles EXCEPT ![j] = d][i] = IF i = j THEN d ELSE idles[i]
    BY DEF Base, IdlesOK, IdleOK, Record
  <1>2. idles'[i].offset \in Nat
    BY BaseStep DEF Base, IdlesOK, IdleOK, Record
  <1>3. ~Still
    BY <1>1, <1>2
  <1>4. \A x : Stopped(x)[i].offset = idles[i].offset
    BY DEF Stopped, Base, IdlesOK, IdleOK, Record
  <1>5. ASSUME idles' = idles
        PROVE  Still
    BY <1>1, <1>5
  <1>6. ASSUME NEW x, NEW st, NEW refs, NEW p, End(x, st, refs, p, Stopped(x))
        PROVE  Still
    <2>1. idles' = idles \/ idles' = Stopped(x)
      BY <1>6 DEF End, Fail
    <2>2. Stopped(x)[i].offset <= idles[i].offset
      BY <1>1, <1>4
    <2> QED
      BY <1>5, <2>1, <2>2
  <1>7. NoIdle.offset = 0
    BY DEF NoIdle
  <1>8. ASSUME User
        PROVE  FALSE
    BY <1>3, <1>5, <1>6, <1>8 DEF User, SendFile, SendSomeFile, ChooseFile, ChooseNone,
       AcceptFile, DenyFile, UserCancels, Cancel, Shutdown, ReplaceFriend, Fail
  <1>9. ASSUME Libtox
        PROVE  FALSE
    <2>1. ASSUME NEW p, Unheard(p)
          PROVE  FALSE
      BY <1>3, <1>5, <2>1 DEF Unheard
    <2>2. ASSUME NEW n, NEW f, NEW x \in FindXfer(n, f), NEW p, Start(x, p)
          PROVE  FALSE
      <3>1. x \in XferIds /\ xf[x].set
        BY FoundIsSet
      <3>2. CASE \E j \in IdleIds :
                   idles' = [idles EXCEPT ![j] = [xfer |-> x, running |-> TRUE,
                                                  offset |-> 0, length |-> xf[x].remaining]]
        BY <1>1, <1>3, <3>2
      <3> QED
        BY <1>3, <1>5, <1>6, <2>2, <3>1, <3>2, StartCases DEF Cancel
    <2> QED
      BY <1>3, <1>5, <1>6, <1>9, <2>1, <2>2 DEF Libtox, OnFileRequest, OnAccepted, OnKilled,
         OnFinished, OnFileData, Cancel
  <1>10. ASSUME NEW j \in IdleIds, IdlePush(j)
         PROVE  j = i
    <2>1. idles' = [idles EXCEPT ![j].offset = idles[j].offset + 1]
      BY <1>10, TakesResult
    <2> QED
      BY <1>3, <1>1, <2>1 DEF Base, IdlesOK
  <1>11. ASSUME NEW j \in IdleIds, IdleEnd(j)
         PROVE  FALSE
    <2> DEFINE x == idles[j].xfer
               gone == [Stopped(x) EXCEPT ![j] = NoIdle]
    <2>1. gone[i] = IF i = j THEN NoIdle ELSE Stopped(x)[i]
      BY DEF Stopped
    <2>3. gone[i].offset <= idles[i].offset
      <3> HIDE DEF gone, x
      <3> QED
        BY <1>1, <1>4, <1>7, <2>1
    <2>2. idles' = idles \/ idles' = gone
      BY <1>11 DEF IdleEnd, End, Fail
    <2> QED
      BY <1>3, <1>5, <2>2, <2>3
  <1>12. ASSUME NEW j \in IdleIds, IdleFree(j) \/ IdleFaults(j)
         PROVE  FALSE
    <2>1. idles' = idles \/ idles' = [idles EXCEPT ![j] = NoIdle]
      BY <1>12 DEF IdleFree, IdleFaults, Fail
    <2> QED
      BY <1>1, <1>3, <1>5, <1>7, <2>1
  <1>13. ~(UNCHANGED vars)
    BY <1>3, <1>5 DEF vars
  <1> QED
    BY <1>8, <1>9, <1>10, <1>11, <1>12, <1>13 DEF Next, Idle

\* A piece goes to the friend its transfer was opened for (purple/xfers.c:117-119).
THEOREM PiecesReachTheirRecipient ==
  ASSUME NumbersApart, ~Replaces
  PROVE  Spec => PiecesReachRecipient
  <1>1. ASSUME Base, Link, [Next]_vars, NEW i \in IdleIds,
               idles'[i].offset > idles[i].offset
        PROVE  port[PortOf(idles[i].xfer)].xfer = idles[i].xfer
    <2>1. IdlePush(i)
      BY <1>1, OnlyPushesCount
    <2> QED
      BY <1>1, <2>1, TakesResult, PortIsName DEF Link
  <1>2. Base /\ Link /\ [Next]_vars
        => [\A i \in IdleIds : idles'[i].offset > idles[i].offset =>
              port[PortOf(idles[i].xfer)].xfer = idles[i].xfer]_vars
    BY <1>1
  <1> QED
    BY <1>2, LinkInvariance, PTL DEF Spec, PiecesReachRecipient

-----------------------------------------------------------------------------
(* Owned: the ports and their transfers, whatever the numbers *)

\* A port in use belongs to a transfer that has the port's name; this holds also where
\* numbers are shared or given away, and an event ends the wrong transfer.
Owned ==
  \A q \in Ports : port[q].state # "free" =>
    up /\ xf[port[q].xfer].tox /\ PortName(xf[port[q].xfer]) = q

\* The ports p are those in use, or some of them.
Among(p) ==
  \A q \in Ports : p[q].state = "free"
                   \/ (port[q].state # "free" /\ p[q].xfer = port[q].xfer)

LEMMA OwnedKept ==
  ASSUME Base, Owned, up' = up, Among(port'),
         \A x \in XferIds : xf[x].tox => xf'[x].tox /\ PortName(xf'[x]) = PortName(xf[x])
  PROVE  Owned'
  <1> SUFFICES ASSUME NEW q \in Ports, port'[q].state # "free"
               PROVE  up' /\ xf'[port'[q].xfer].tox /\ PortName(xf'[port'[q].xfer]) = q
    BY DEF Owned, PortName
  <1>1. port[q].state # "free" /\ port'[q].xfer = port[q].xfer
    BY DEF Among
  <1>2. up /\ xf[port[q].xfer].tox /\ PortName(xf[port[q].xfer]) = q
        /\ port[q].xfer \in XferIds
    BY <1>1, PortOfNonFree DEF Owned
  <1> QED
    BY <1>1, <1>2

LEMMA OwnedSame ==
  ASSUME Base, Owned, up' = up, xf' = xf, Among(port')
  PROVE  Owned'
  BY OwnedKept DEF PortName

LEMMA OwnedRow ==
  ASSUME Base, Owned, up' = up, Among(port'), NEW x \in XferIds, NEW r,
         xf' = [xf EXCEPT ![x] = r],
         xf[x].tox => r.tox /\ PortName(r) = PortName(xf[x])
  PROVE  Owned'
  <1>1. \A y \in XferIds : xf'[y] = IF y = x THEN r ELSE xf[y]
    BY DEF Base, XfersOK
  <1>2. \A y \in XferIds : xf[y].tox => xf'[y].tox /\ PortName(xf'[y]) = PortName(xf[y])
    BY <1>1
  <1> QED
    BY <1>2, OwnedKept

LEMMA OwnedEnd ==
  ASSUME Base, Owned, NEW x \in XferIds, NEW st \in Ended, NEW refs \in 1 .. 2,
         NEW p, NEW ids, Among(p), End(x, st, refs, p, ids)
  PROVE  Owned'
  <1>1. CASE Fail("null tox") \/ Fail("freed tox")
    BY <1>1, OwnedSame DEF Fail, Among
  <1>2. ASSUME up' = up, xf' = [xf EXCEPT ![x] = Finished(xf[x], st, refs)],
               port' = Closed(p, x)
        PROVE  Owned'
    <2>1. \A y \in XferIds : y # x => xf'[y] = xf[y]
      BY <1>2 DEF Base, XfersOK
    <2>2. \A q \in Ports : port'[q] =
            IF xf[x].tox /\ q = PortName(xf[x]) THEN FreePort ELSE p[q]
      BY <1>2 DEF Closed, PortOf, PortName
    <2> SUFFICES ASSUME NEW q \in Ports, port'[q].state # "free"
                 PROVE  up' /\ xf'[port'[q].xfer].tox /\ PortName(xf'[port'[q].xfer]) = q
      BY DEF Owned, PortName
    <2>3. port'[q] = p[q] /\ ~(xf[x].tox /\ q = PortName(xf[x]))
      BY <2>2 DEF FreePort
    <2>4. port[q].state # "free" /\ port'[q].xfer = port[q].xfer
      BY <2>3 DEF Among
    <2>5. up /\ xf[port[q].xfer].tox /\ PortName(xf[port[q].xfer]) = q
          /\ port[q].xfer \in XferIds
      BY <2>4, PortOfNonFree DEF Owned
    <2>6. port[q].xfer # x
      BY <2>3, <2>5
    <2> QED
      BY <1>2, <2>1, <2>4, <2>5, <2>6
  <1> QED
    BY <1>1, <1>2, EndsAt DEF End

LEMMA OwnedCancel ==
  ASSUME Base, Owned, NEW x \in XferIds, NEW p, Among(p), Cancel(x, p)
  PROVE  Owned'
  BY OwnedEnd DEF Cancel, Ended

\* A port is given to a transfer that had none.
LEMMA OwnedNew ==
  ASSUME Base, Owned, up, up', NEW x \in XferIds, NEW r, r.tox, PortName(r) \in Ports,
         ~xf[x].tox, xf' = [xf EXCEPT ![x] = r],
         port' = [port EXCEPT ![PortName(r)] =
                    [state |-> "offered", xfer |-> x, moved |-> 0]]
  PROVE  Owned'
  <1> DEFINE u == PortName(r)
             v == [state |-> "offered", xfer |-> x, moved |-> 0]
  <1>1. v.xfer = x /\ u \in Ports
    OBVIOUS
  <1>2. \A y \in XferIds : xf'[y] = IF y = x THEN r ELSE xf[y]
    BY DEF Base, XfersOK
  <1>3. \A q \in Ports : port'[q] = IF q = u THEN v ELSE port[q]
    BY DEF Base, PortsOK
  <1> HIDE DEF v
  <1>4. ASSUME NEW q \in Ports, port'[q].state # "free"
        PROVE  up' /\ xf'[port'[q].xfer].tox /\ PortName(xf'[port'[q].xfer]) = q
    <2>1. CASE q = u
      BY <1>1, <1>2, <1>3, <2>1
    <2>2. CASE q # u
      <3>1. port'[q] = port[q]
        BY <1>3, <2>2
      <3>2. xf[port[q].xfer].tox /\ PortName(xf[port[q].xfer]) = q /\ port[q].xfer \in XferIds
        BY <1>4, <3>1, PortOfNonFree DEF Owned
      <3> QED
        BY <1>2, <3>1, <3>2
    <2> QED
      BY <2>1, <2>2
  <1> QED
    BY <1>4 DEF Owned, PortName

LEMMA OwnedPrepare ==
  ASSUME Base, Owned, up, up', NEW x \in XferIds, NEW r, Unprepared(r), Prepare(x, r),
         ~xf[x].tox
  PROVE  Owned'
  <1>1. ASSUME NEW f \in SendFiles, xf' = [xf EXCEPT ![x] = PreparedAs(r, f)],
               port' = [port EXCEPT ![<<"send", r.who, f>>] =
                          [state |-> "offered", xfer |-> x, moved |-> 0]]
        PROVE  Owned'
    <2> DEFINE s == PreparedAs(r, f)
    <2>1. s.tox /\ PortName(s) = <<"send", r.who, f>>
      BY PreparedFields DEF PortName
    <2>2. PortName(s) \in Ports
      BY <2>1 DEF Ports, Unprepared, Row
    <2>3. port' = [port EXCEPT ![PortName(s)] =
                     [state |-> "offered", xfer |-> x, moved |-> 0]]
      BY <1>1, <2>1
    <2>4. xf' = [xf EXCEPT ![x] = s]
      BY <1>1
    <2> HIDE DEF s
    <2> QED
      BY <2>1, <2>2, <2>3, <2>4, OwnedNew
  <1>2. ASSUME xf' = [xf EXCEPT ![x] = [r EXCEPT !.status = "accepted"]], port' = port
        PROVE  Owned'
    <2>1. up' = up /\ Among(port')
      BY <1>2 DEF Among
    <2> QED
      BY <1>2, <2>1, OwnedRow
  <1> QED
    BY <1>1, <1>2, PrepareResult

LEMMA OwnedUser ==
  ASSUME Base, Owned, User
  PROVE  Owned'
  <1>1. ASSUME NEW n \in Friends, NEW size \in Sizes, SendFile(n, size)
        PROVE  Owned'
    <2> DEFINE r == [Outgoing(n) EXCEPT !.size = size, !.remaining = size]
    <2>1. PICK x \in XferIds : IsNext(x) /\ Prepare(x, r)
      BY <1>1 DEF SendFile
    <2>2. up /\ up'
      BY <1>1 DEF SendFile, Online
    <2>3. Unprepared(r)
      BY OutgoingUnprepared
    <2> HIDE DEF r
    <2> QED
      BY <2>1, <2>2, <2>3, NewIsNameless, OwnedPrepare
  <1>2. ASSUME NEW n \in Friends, SendSomeFile(n)
        PROVE  Owned'
    <2>1. PICK x \in XferIds :
            IsNext(x) /\ xf' = [xf EXCEPT ![x] = [Outgoing(n) EXCEPT !.ref = 2, !.dialog = TRUE]]
      BY <1>2 DEF SendSomeFile
    <2>2. up' = up /\ Among(port')
      BY <1>2 DEF SendSomeFile, Among
    <2> QED
      BY <2>1, <2>2, NewIsNameless, OwnedRow
  <1>3. ASSUME NEW x \in XferIds, NEW size \in Sizes, ChooseFile(x, size)
        PROVE  Owned'
    <2> DEFINE r == Chosen(x, size)
    <2>1. /\ xf[x].kind = "send" /\ xf[x].dialog /\ up' = up
          /\ \/ up /\ Prepare(x, r)
             \/ xf' = [xf EXCEPT ![x] = [r EXCEPT !.status = "accepted"]] /\ port' = port
      BY <1>3 DEF ChooseFile, Chosen
    <2>2. Unprepared(r) /\ ~xf[x].tox
      BY <2>1, ChosenRow, RowFacts DEF Unprepared, Row
    <2> HIDE DEF r
    <2>3. CASE up /\ Prepare(x, r)
      BY <2>1, <2>2, <2>3, OwnedPrepare
    <2>4. CASE xf' = [xf EXCEPT ![x] = [r EXCEPT !.status = "accepted"]] /\ port' = port
      <3>1. Among(port')
        BY <2>4 DEF Among
      <3> QED
        BY <2>1, <2>2, <2>4, <3>1, OwnedRow
    <2> QED
      BY <2>1, <2>3, <2>4
  <1>4. Among(port)
    BY DEF Among
  <1>5. ASSUME NEW x \in XferIds, NEW p, NEW ids, Among(p),
               End(x, "cancelled", 2, p, ids) \/ Fail("unref") \/ Fail("freed tox")
        PROVE  Owned'
    <2>1. CASE End(x, "cancelled", 2, p, ids)
      <3>1. "cancelled" \in Ended /\ 2 \in 1 .. 2
        BY DEF Ended
      <3> QED
        BY <1>5, <2>1, <3>1, OwnedEnd
    <2> QED
      BY <1>4, <1>5, <2>1, OwnedSame DEF Fail
  <1>6. ASSUME NEW x \in XferIds, ChooseNone(x) \/ DenyFile(x)
        PROVE  Owned'
    BY <1>4, <1>5, <1>6 DEF ChooseNone, DenyFile
  <1>7. ASSUME NEW x \in XferIds, AcceptFile(x)
        PROVE  Owned'
    <2>1. xf[x].dialog /\ Row(xf[x])
      BY <1>7, RowFacts DEF AcceptFile
    <2>2. CASE Fail("freed tox") \/ End(x, "cancelled", 2, port, Stopped(x))
      BY <1>4, <1>5, <2>2
    <2>3. CASE /\ xf[x].set
               /\ xf' = [xf EXCEPT ![x] = Taken(@)]
               /\ port' = [port EXCEPT ![PortOf(x)].state = IF @ = "free" THEN @ ELSE "open"]
               /\ up' = up
      <3> DEFINE r == Taken(xf[x])
      <3>1. xf' = [xf EXCEPT ![x] = r]
        BY <2>3 DEF Base, XfersOK
      <3>2. r.tox = xf[x].tox /\ r.kind = xf[x].kind /\ r.friend = xf[x].friend
            /\ r.file = xf[x].file
        BY <2>1, <2>3, TakenRow
      <3> HIDE DEF r
      <3>3. xf[x].tox => r.tox /\ PortName(r) = PortName(xf[x])
        BY <3>2 DEF PortName
      <3>4. Among(port')
        BY <2>3 DEF Among, Base, PortsOK, PortOK, Port
      <3> QED
        BY <2>3, <3>1, <3>3, <3>4, OwnedRow
    <2>4. CASE ~xf[x].set /\ xf' = [xf EXCEPT ![x] = LateTaken(xf[x])] /\ port' = port
               /\ up' = up
      <3>1. ~xf[x].tox
        BY <2>1, <2>4 DEF Row
      <3> QED
        BY <1>4, <2>4, <3>1, OwnedRow
    <2> QED
      BY <1>7, <2>2, <2>3, <2>4 DEF AcceptFile, Taken, LateTaken
  <1>8. ASSUME NEW x \in XferIds, UserCancels(x)
        PROVE  Owned'
    BY <1>4, <1>8, OwnedCancel DEF UserCancels
  <1>9. ASSUME NEW n \in Friends, ReplaceFriend(n)
        PROVE  Owned'
    <2>1. Among(port')
      BY <1>9 DEF ReplaceFriend, Among, FreePort
    <2> QED
      BY <1>9, <2>1, OwnedSame DEF ReplaceFriend
  <1>10. ASSUME Shutdown
         PROVE  Owned'
    BY <1>10 DEF Shutdown, Owned, FreePort
  <1> QED
    BY <1>1, <1>2, <1>3, <1>6, <1>7, <1>8, <1>9, <1>10 DEF User

\* What libtox reports, of a port in use, to whatever transfer is found for it.
LEMMA OwnedStart ==
  ASSUME Base, Owned, NEW x \in XferIds, xf[x].set, NEW p, Among(p), Start(x, p)
  PROVE  Owned'
  <1>1. Row(xf[x])
    BY RowFacts
  <1>2. ASSUME NEW i \in IdleIds \cup {0}, ~xf[x].dialog, xf' = [xf EXCEPT ![x] = Opened(xf[x], i)],
               port' = p, up' = up
        PROVE  Owned'
    <2> DEFINE s == Opened(xf[x], i)
    <2>1. s.kind = xf[x].kind /\ s.tox = xf[x].tox /\ s.friend = xf[x].friend
          /\ s.file = xf[x].file
      BY <1>1, <1>2, OpenedRow
    <2>2. xf' = [xf EXCEPT ![x] = s]
      BY <1>2
    <2> HIDE DEF s
    <2>3. xf[x].tox => s.tox /\ PortName(s) = PortName(xf[x])
      BY <2>1 DEF PortName
    <2> QED
      BY <1>2, <2>2, <2>3, OwnedRow
  <1> QED
    BY <1>2, StartCases, OwnedCancel

LEMMA OwnedLibtox ==
  ASSUME Base, Owned, Libtox
  PROVE  Owned'
  <1>1. ASSUME NEW q \in Ports, port[q].state # "free"
        PROVE  /\ Among([port EXCEPT ![q].state = "open"])
               /\ Among([port EXCEPT ![q] = FreePort])
               /\ Among([port EXCEPT ![q].moved = @ + 1])
    BY <1>1 DEF Among, FreePort, Base, PortsOK, PortOK, Port
  <1>2. ASSUME NEW p, Among(p), Unheard(p)
        PROVE  Owned'
    BY <1>2, OwnedSame DEF Unheard
  <1>3. ASSUME NEW n \in Friends, NEW f \in RecvFiles, NEW size \in Sizes,
               OnFileRequest(n, f, size)
        PROVE  Owned'
    <2> DEFINE r == Requested(n, f, size)
    <2>1. PICK x \in XferIds :
            /\ IsNext(x) /\ xf' = [xf EXCEPT ![x] = r]
            /\ port' = [port EXCEPT ![<<"recv", n, f>>] =
                          [state |-> "offered", xfer |-> x, moved |-> 0]]
      BY <1>3 DEF OnFileRequest, Requested
    <2>2. up /\ up' /\ <<"recv", n, f>> \in Ports
      BY <1>3 DEF OnFileRequest, Online, Ports
    <2>3. r.tox /\ PortName(r) = <<"recv", n, f>>
      BY IncomingFields DEF PortName
    <2> HIDE DEF r
    <2>4. port' = [port EXCEPT ![PortName(r)] =
                     [state |-> "offered", xfer |-> x, moved |-> 0]]
      BY <2>1, <2>3
    <2> QED
      BY <2>1, <2>2, <2>3, <2>4, NewIsNameless, OwnedNew
  <1>4. ASSUME NEW n \in Friends, NEW f \in SendFiles, OnAccepted(n, f)
        PROVE  Owned'
    <2> DEFINE q == <<"send", n, f>>
               p == [port EXCEPT ![q].state = "open"]
    <2>1. Among(p) /\ (Unheard(p) \/ \E x \in FindXfer(n, f) : Start(x, p))
      <3>1. q \in Ports /\ port[q].state # "free"
        BY <1>4 DEF OnAccepted, Ports
      <3> QED
        BY <1>1, <1>4, <3>1 DEF OnAccepted
    <2> HIDE DEF p
    <2> QED
      BY <1>2, <2>1, FoundIsSet, OwnedStart
  <1>5. ASSUME NEW q \in Ports, OnKilled(q)
        PROVE  Owned'
    <2> DEFINE p == [port EXCEPT ![q] = FreePort]
    <2>1. Among(p) /\ (Unheard(p) \/ \E x \in FindXfer(q[2], q[3]) : Cancel(x, p))
      BY <1>1, <1>5 DEF OnKilled
    <2> HIDE DEF p
    <2> QED
      BY <1>2, <2>1, FoundIsSet, OwnedCancel
  <1>6. ASSUME NEW n \in Friends, NEW f \in RecvFiles, OnFinished(n, f)
        PROVE  Owned'
    <2> DEFINE q == <<"recv", n, f>>
               p == [port EXCEPT ![q] = FreePort]
    <2>1. Among(p)
          /\ (Unheard(p) \/ \E x \in FindXfer(n, f) : End(x, "done", 1, p, Stopped(x)))
      <3>1. q \in Ports /\ port[q].state # "free"
        BY <1>6 DEF OnFinished, Ports
      <3> QED
        BY <1>1, <1>6, <3>1 DEF OnFinished
    <2> HIDE DEF p
    <2> QED
      BY <1>2, <2>1, FoundIsSet, OwnedEnd DEF Ended
  <1>7. ASSUME NEW n \in Friends, NEW f \in RecvFiles, OnFileData(n, f)
        PROVE  Owned'
    <2> DEFINE q == <<"recv", n, f>>
               p == [port EXCEPT ![q].moved = @ + 1]
    <2>1. /\ Among(p)
          /\ \/ Unheard(p)
             \/ \E x \in FindXfer(n, f) :
                  \/ Cancel(x, p)
                  \/ /\ xf' = [xf EXCEPT ![x].remaining = @ - 1, ![x].sent = @ + 1]
                     /\ port' = p /\ up' = up
      <3>1. q \in Ports /\ port[q].state # "free"
        BY <1>7 DEF OnFileData, Ports
      <3> QED
        BY <1>1, <1>7, <3>1 DEF OnFileData
    <2> HIDE DEF p
    <2>2. ASSUME NEW x \in FindXfer(n, f), port' = p, up' = up,
                 xf' = [xf EXCEPT ![x].remaining = @ - 1, ![x].sent = @ + 1]
          PROVE  Owned'
      <3> DEFINE r == Written(xf[x])
      <3>1. x \in XferIds /\ xf[x].set
        BY FoundIsSet
      <3>2. xf' = [xf EXCEPT ![x] = r]
        BY <2>2, <3>1, RowFacts DEF Written, Base, XfersOK, Xfer
      <3>3. r.kind = xf[x].kind /\ r.tox = xf[x].tox /\ r.friend = xf[x].friend
            /\ r.file = xf[x].file
        BY <3>1, RowFacts, WrittenRow
      <3> HIDE DEF r
      <3>4. xf[x].tox => r.tox /\ PortName(r) = PortName(xf[x])
        BY <3>3 DEF PortName
      <3> QED
        BY <2>1, <2>2, <3>1, <3>2, <3>4, OwnedRow
    <2> QED
      BY <1>2, <2>1, <2>2, FoundIsSet, OwnedCancel
  <1> QED
    BY <1>3, <1>4, <1>5, <1>6, <1>7 DEF Libtox

LEMMA OwnedIdle ==
  ASSUME Base, Owned, Idle
  PROVE  Owned'
  <1>1. PICK i \in IdleIds : IdlePush(i) \/ IdleEnd(i) \/ IdleFree(i) \/ IdleFaults(i)
    BY DEF Idle
  <1>2. Among(port)
    BY DEF Among
  <1>3. ASSUME NEW what, Fail(what)
        PROVE  Owned'
    BY <1>2, <1>3, OwnedSame DEF Fail
  <1>4. CASE IdleFree(i) \/ IdleFaults(i)
    BY <1>2, <1>3, <1>4, OwnedSame DEF IdleFree, IdleFaults
  <1>5. CASE IdlePush(i)
    <2> DEFINE x == idles[i].xfer
               r == Pushed(xf[x], idles[i].offset + 1)
    <2>1. /\ x \in XferIds /\ idles[i].offset + 1 \in Nat /\ xf[x].set
          /\ PortOf(x) \in Ports /\ port[PortOf(x)].state = "open"
          /\ xf' = [xf EXCEPT ![x] = r]
          /\ port' = [port EXCEPT ![PortOf(x)].moved = @ + 1]
          /\ up' = up
      BY <1>5, TakesResult
    <2>2. r.kind = xf[x].kind /\ r.tox = xf[x].tox /\ r.friend = xf[x].friend
          /\ r.file = xf[x].file
      BY <2>1, RowFacts, PushedRow
    <2> HIDE DEF x, r
    <2>3. xf[x].tox => r.tox /\ PortName(r) = PortName(xf[x])
      BY <2>2 DEF PortName
    <2>4. Among(port')
      BY <2>1 DEF Among, Base, PortsOK, PortOK, Port
    <2> QED
      BY <2>1, <2>3, <2>4, OwnedRow
  <1>6. CASE IdleEnd(i)
    <2> DEFINE x == idles[i].xfer
               gone == [Stopped(x) EXCEPT ![i] = NoIdle]
    <2>1. x \in XferIds
      BY <1>6, CallbackFacts DEF IdleEnd
    <2> HIDE DEF x, gone
    <2>2. Fail("null data") \/ \E st \in Ended : End(x, st, 1, port, gone)
      BY <1>6 DEF IdleEnd, Ended, x, gone
    <2>3. ASSUME NEW st \in Ended, End(x, st, 1, port, gone)
          PROVE  Owned'
      <3>1. 1 \in 1 .. 2
        OBVIOUS
      <3> QED
        BY <1>2, <2>1, <2>3, <3>1, OwnedEnd
    <2> QED
      BY <1>3, <2>2, <2>3
  <1> QED
    BY <1>1, <1>4, <1>5, <1>6

\* Of the transfers with a number the newest is found.
LEMMA SomethingIsFound ==
  ASSUME NEW n, NEW f, Matches(n, f) # {}
  PROVE  FindXfer(n, f) # {}
  <1> DEFINE T == {MaxXfers - y : y \in Matches(n, f)}
             less == OpToRel(<, Nat)
  <1>1. \A y \in Matches(n, f) : y \in Int /\ MaxXfers - y \in Nat
    BY XfersAssumption DEF Matches, XferIds
  <1>2. T \subseteq Nat /\ T # {}
    BY <1>1
  <1>3. \A a, b \in Nat : a < b => <<a, b>> \in less
    BY DEF OpToRel
  <1>4. IsWellFoundedOn(less, Nat)
    BY NatLessThanWellFounded
  <1> HIDE DEF T, less
  <1>5. PICK a \in T : \A b \in T : <<b, a>> \notin less
    BY <1>2, <1>4, WFMin
  <1>6. \A b \in T : ~(b < a)
    BY <1>2, <1>3, <1>5
  <1>7. PICK x \in Matches(n, f) : a = MaxXfers - x
    BY DEF T
  <1>8. ASSUME NEW y \in Matches(n, f)
        PROVE  y <= x
    <2>1. MaxXfers - y \in T
      BY DEF T
    <2> QED
      BY <1>1, <1>6, <1>7, <2>1, XfersAssumption
  <1> QED
    BY <1>7, <1>8 DEF FindXfer

\* Whatever libtox reports of a port there is a transfer to report it to
\* (purple/xfers.c:174-239, common/xfers.c:13-30): also where a number is that of a sent
\* and of a received file at once, where the friend of a number is replaced, and where
\* events have ended transfers they were not about.
THEOREM PortsHaveTheirXfers == Spec => []PortHasXfer
  <1>1. Init => Owned
    BY DEF Init, Owned, FreePort
  <1>2. ASSUME Base, Owned, [Next]_vars
        PROVE  Owned'
    <2>1. CASE UNCHANGED vars
      BY <1>2, <2>1, OwnedSame DEF vars, Among
    <2> QED
      BY <1>2, <2>1, OwnedUser, OwnedLibtox, OwnedIdle DEF Next
  <1>3. Base /\ Owned => PortHasXfer
    <2> SUFFICES ASSUME Base, Owned, NEW q \in Ports, port[q].state # "free"
                 PROVE  /\ up
                        /\ xf[port[q].xfer].set /\ xf[port[q].xfer].tox
                        /\ PortOf(port[q].xfer) = q
                        /\ FindXfer(q[2], q[3]) # {}
      BY DEF PortHasXfer
    <2>1. /\ up /\ port[q].xfer \in XferIds /\ xf[port[q].xfer].tox
          /\ PortName(xf[port[q].xfer]) = q
      BY PortOfNonFree DEF Owned
    <2>2. xf[port[q].xfer].set /\ xf[port[q].xfer].ref > 0
      BY <2>1, ToxIsSet
    <2>3. port[q].xfer \in Matches(q[2], q[3])
      BY <2>1, <2>2 DEF Matches, PortName
    <2> QED
      BY <2>1, <2>2, <2>3, PortIsName, SomethingIsFound
  <1> QED
    BY <1>1, <1>2, <1>3, BaseInvariance, PTL DEF Spec

-----------------------------------------------------------------------------
(* Held: a callback that runs and its transfer *)

\* The transfer of a running callback has its data and this callback, and whoever has
\* a callback has been started, so that it is not given another.
Held ==
  /\ \A x \in XferIds : xf[x].idle # 0 => xf[x].fp
  /\ \A i \in IdleIds : idles[i].running =>
       xf[idles[i].xfer].set /\ xf[idles[i].xfer].idle = i

\* The callbacks ids that run are those that did, or some of them.
StillRun(ids) ==
  \A i \in IdleIds : ids[i].running => idles[i].running /\ ids[i].xfer = idles[i].xfer

LEMMA RunningHasXfer ==
  ASSUME Base, NEW i \in IdleIds, idles[i].running
  PROVE  idles[i].xfer \in XferIds
  BY DEF Base, IdlesOK, IdleOK, Record

LEMMA HeldSame ==
  ASSUME Base, Held, xf' = xf, StillRun(idles')
  PROVE  Held'
  BY DEF Held, StillRun

LEMMA HeldRow ==
  ASSUME Base, Held, StillRun(idles'), NEW x \in XferIds, NEW r,
         xf' = [xf EXCEPT ![x] = r], r.idle = xf[x].idle,
         xf[x].fp => r.fp, xf[x].set => r.set
  PROVE  Held'
  <1>1. \A y \in XferIds : xf'[y] = IF y = x THEN r ELSE xf[y]
    BY DEF Base, XfersOK
  <1>2. \A y \in XferIds : xf'[y].idle # 0 => xf'[y].fp
    BY <1>1 DEF Held
  <1>3. ASSUME NEW i \in IdleIds, idles'[i].running
        PROVE  xf'[idles'[i].xfer].set /\ xf'[idles'[i].xfer].idle = i
    <2>1. /\ idles[i].running /\ idles'[i].xfer = idles[i].xfer
          /\ idles[i].xfer \in XferIds
      BY <1>3, RunningHasXfer DEF StillRun
    <2>2. xf[idles[i].xfer].set /\ xf[idles[i].xfer].idle = i
      BY <2>1 DEF Held
    <2> QED
      BY <1>1, <2>1, <2>2
  <1> QED
    BY <1>2, <1>3 DEF Held

LEMMA StillTheSame == idles' = idles => StillRun(idles')
  BY DEF StillRun

\* The end of a transfer stops the callback it has.
LEMMA HeldEnd ==
  ASSUME Base, Held, NEW x \in XferIds, NEW st, NEW refs, NEW p, NEW ids, StillRun(ids),
         xf[x].set => ~ids[xf[x].idle].running \/ xf[x].idle \notin IdleIds,
         End(x, st, refs, p, ids)
  PROVE  Held'
  <1>1. CASE Fail("null tox") \/ Fail("freed tox")
    BY <1>1, HeldSame, StillTheSame DEF Fail
  <1>2. ASSUME xf' = [xf EXCEPT ![x] = Finished(xf[x], st, refs)], idles' = ids
        PROVE  Held'
    <2> DEFINE r == Finished(xf[x], st, refs)
    <2>1. r.idle = 0
      <3>1. xf[x] \in Xfer
        BY RowFacts
      <3> DEFINE u == Freed(xf[x])
      <3>2. u \in Xfer /\ u.idle = 0
        BY <3>1, FreedFields
      <3> HIDE DEF u
      <3> QED
        BY <3>2 DEF Finished, u, Xfer
    <2> HIDE DEF r
    <2>2. \A y \in XferIds : xf'[y] = IF y = x THEN r ELSE xf[y]
      BY <1>2 DEF Base, XfersOK, r
    <2>3. \A y \in XferIds : xf'[y].idle # 0 => xf'[y].fp
      BY <2>1, <2>2 DEF Held
    <2>4. ASSUME NEW i \in IdleIds, idles'[i].running
          PROVE  xf'[idles'[i].xfer].set /\ xf'[idles'[i].xfer].idle = i
      <3>1. /\ idles[i].running /\ idles'[i].xfer = idles[i].xfer
            /\ idles[i].xfer \in XferIds
        BY <1>2, <2>4, RunningHasXfer DEF StillRun
      <3>2. xf[idles[i].xfer].set /\ xf[idles[i].xfer].idle = i
        BY <3>1 DEF Held
      <3>3. idles[i].xfer # x
        BY <1>2, <2>4, <3>2
      <3> QED
        BY <2>2, <3>1, <3>2, <3>3
    <2> QED
      BY <2>3, <2>4 DEF Held
  <1> QED
    BY <1>1, <1>2, EndsAt DEF End

LEMMA StoppedHolds ==
  ASSUME Base, NEW x \in XferIds
  PROVE  /\ StillRun(Stopped(x))
         /\ xf[x].set => ~Stopped(x)[xf[x].idle].running \/ xf[x].idle \notin IdleIds
  <1>1. ASSUME NEW i \in IdleIds
        PROVE  /\ Stopped(x)[i].running => idles[i].running
               /\ Stopped(x)[i].xfer = idles[i].xfer
               /\ xf[x].set /\ i = xf[x].idle => ~Stopped(x)[i].running
    <2>1. idles[i] \in Record
      BY DEF Base, IdlesOK, IdleOK
    <2> QED
      BY <2>1 DEF Stopped, Record
  <1> QED
    BY <1>1 DEF StillRun

LEMMA HeldStopped ==
  ASSUME Base, Held, NEW x \in XferIds, NEW st, NEW refs, NEW p,
         End(x, st, refs, p, Stopped(x))
  PROVE  Held'
  BY StoppedHolds, HeldEnd

LEMMA HeldCancel ==
  ASSUME Base, Held, NEW x \in XferIds, NEW p, Cancel(x, p)
  PROVE  Held'
  BY HeldStopped DEF Cancel

LEMMA NewHasNone ==
  ASSUME Base, NEW x \in XferIds, IsNext(x)
  PROVE  ~xf[x].set /\ ~xf[x].fp /\ xf[x].idle = 0
  BY NextIsNew, RowFacts DEF Row, NoXfer

LEMMA HeldPrepare ==
  ASSUME Base, Held, NEW x \in XferIds, NEW r, Unprepared(r), Prepare(x, r),
         idles' = idles, r.idle = xf[x].idle, xf[x].fp => r.fp
  PROVE  Held'
  <1>1. ASSUME NEW f \in SendFiles, xf' = [xf EXCEPT ![x] = PreparedAs(r, f)]
        PROVE  Held'
    <2> DEFINE s == PreparedAs(r, f)
    <2>1. s.set /\ s.idle = r.idle /\ s.fp = r.fp
      BY PreparedFields
    <2>2. xf' = [xf EXCEPT ![x] = s]
      BY <1>1
    <2> HIDE DEF s
    <2> QED
      BY <2>1, <2>2, HeldRow, StillTheSame
  <1>2. ASSUME xf' = [xf EXCEPT ![x] = [r EXCEPT !.status = "accepted"]]
        PROVE  Held'
    <2> DEFINE s == [r EXCEPT !.status = "accepted"]
    <2>1. s.set /\ s.idle = r.idle /\ s.fp = r.fp
      BY DEF Unprepared, Row, Xfer
    <2>2. xf' = [xf EXCEPT ![x] = s]
      BY <1>2
    <2> HIDE DEF s
    <2> QED
      BY <2>1, <2>2, HeldRow, StillTheSame
  <1> QED
    BY <1>1, <1>2, PrepareResult

LEMMA HeldUser ==
  ASSUME Base, Held, User
  PROVE  Held'
  <1>1. ASSUME NEW n \in Friends, NEW size \in Sizes, SendFile(n, size)
        PROVE  Held'
    <2> DEFINE r == [Outgoing(n) EXCEPT !.size = size, !.remaining = size]
    <2>1. PICK x \in XferIds : IsNext(x) /\ Prepare(x, r)
      BY <1>1 DEF SendFile
    <2>2. idles' = idles
      BY <1>1 DEF SendFile
    <2>3. Unprepared(r)
      BY OutgoingUnprepared
    <2>4. r.idle = 0
      BY OutgoingFields DEF Xfer
    <2> HIDE DEF r
    <2> QED
      BY <2>1, <2>2, <2>3, <2>4, NewHasNone, HeldPrepare
  <1>2. ASSUME NEW n \in Friends, SendSomeFile(n)
        PROVE  Held'
    <2> DEFINE r == [Outgoing(n) EXCEPT !.ref = 2, !.dialog = TRUE]
    <2>1. PICK x \in XferIds : IsNext(x) /\ xf' = [xf EXCEPT ![x] = r]
      BY <1>2 DEF SendSomeFile
    <2>2. idles' = idles
      BY <1>2 DEF SendSomeFile
    <2>3. r.idle = 0
      BY OutgoingFields DEF Xfer
    <2> HIDE DEF r
    <2> QED
      BY <2>1, <2>2, <2>3, NewHasNone, StillTheSame, HeldRow
  <1>3. ASSUME NEW x \in XferIds, NEW size \in Sizes, ChooseFile(x, size)
        PROVE  Held'
    <2> DEFINE r == Chosen(x, size)
    <2>1. /\ xf[x].kind = "send" /\ xf[x].dialog /\ idles' = idles
          /\ \/ Prepare(x, r)
             \/ xf' = [xf EXCEPT ![x] = [r EXCEPT !.status = "accepted"]]
      BY <1>3 DEF ChooseFile, Chosen
    <2>2. Unprepared(r) /\ r.set /\ r.idle = xf[x].idle /\ r.fp = xf[x].fp
      BY <2>1, ChosenRow DEF Unprepared
    <2> HIDE DEF r
    <2>3. CASE Prepare(x, r)
      BY <2>1, <2>2, <2>3, HeldPrepare
    <2>4. CASE xf' = [xf EXCEPT ![x] = [r EXCEPT !.status = "accepted"]]
      <3> DEFINE s == [r EXCEPT !.status = "accepted"]
      <3>1. s.set /\ s.idle = r.idle /\ s.fp = r.fp
        BY <2>2 DEF Unprepared, Row, Xfer
      <3>2. xf' = [xf EXCEPT ![x] = s]
        BY <2>4
      <3> HIDE DEF s
      <3> QED
        BY <2>1, <2>2, <3>1, <3>2, StillTheSame, HeldRow
    <2> QED
      BY <2>1, <2>3, <2>4
  <1>4. ASSUME NEW what, Fail(what)
        PROVE  Held'
    BY <1>4, HeldSame, StillTheSame DEF Fail
  <1>5. ASSUME NEW x \in XferIds, ChooseNone(x) \/ DenyFile(x)
        PROVE  Held'
    BY <1>4, <1>5, HeldStopped DEF ChooseNone, DenyFile
  <1>6. ASSUME NEW x \in XferIds, AcceptFile(x)
        PROVE  Held'
    <2>1. xf[x].dialog /\ Row(xf[x])
      BY <1>6, RowFacts DEF AcceptFile
    <2>2. CASE Fail("freed tox") \/ End(x, "cancelled", 2, port, Stopped(x))
      BY <1>4, <2>2, HeldStopped
    <2>3. CASE xf[x].set /\ xf' = [xf EXCEPT ![x] = Taken(@)] /\ idles' = idles
      <3> DEFINE r == Taken(xf[x])
      <3>1. xf' = [xf EXCEPT ![x] = r]
        BY <2>3 DEF Base, XfersOK
      <3>2. r.set /\ r.fp /\ r.idle = xf[x].idle
        BY <2>1, <2>3, TakenRow
      <3> HIDE DEF r
      <3> QED
        BY <2>3, <3>1, <3>2, StillTheSame, HeldRow
    <2>4. CASE ~xf[x].set /\ xf' = [xf EXCEPT ![x] = LateTaken(xf[x])] /\ idles' = idles
      <3> DEFINE r == LateTaken(xf[x])
      <3>1. r.idle = xf[x].idle /\ ~xf[x].fp
        BY <2>1, <2>4, LateTakenRow DEF Row
      <3> HIDE DEF r
      <3> QED
        BY <2>4, <3>1, StillTheSame, HeldRow DEF r
    <2> QED
      BY <1>6, <2>2, <2>3, <2>4 DEF AcceptFile, Taken, LateTaken
  <1>7. ASSUME NEW x \in XferIds, UserCancels(x)
        PROVE  Held'
    BY <1>7, HeldCancel DEF UserCancels
  <1>8. ASSUME NEW n \in Friends, ReplaceFriend(n)
        PROVE  Held'
    BY <1>8, HeldSame, StillTheSame DEF ReplaceFriend
  <1>9. ASSUME Shutdown
        PROVE  Held'
    BY <1>9, HeldSame, StillTheSame DEF Shutdown
  <1> QED
    BY <1>1, <1>2, <1>3, <1>5, <1>6, <1>7, <1>8, <1>9 DEF User

\* A transfer is given a callback when it has none.
LEMMA HeldStart ==
  ASSUME Base, Held, NEW x \in XferIds, xf[x].set, NEW p, Start(x, p)
  PROVE  Held'
  <1>1. Row(xf[x])
    BY RowFacts
  <1>2. ASSUME NEW i \in IdleIds \cup {0}, ~xf[x].dialog
        PROVE  Opened(xf[x], i).set /\ Opened(xf[x], i).fp /\ Opened(xf[x], i).idle = i
    BY <1>1, <1>2, OpenedRow
  <1>3. CASE /\ ~xf[x].dialog /\ xf[x].idle \in IdleIds \cup {0}
             /\ xf' = [xf EXCEPT ![x] = Opened(xf[x], xf[x].idle)]
             /\ UNCHANGED idles
    <2> DEFINE s == Opened(xf[x], xf[x].idle)
    <2>1. s.set /\ s.fp /\ s.idle = xf[x].idle /\ xf' = [xf EXCEPT ![x] = s]
      BY <1>2, <1>3
    <2> HIDE DEF s
    <2> QED
      BY <1>3, <2>1, StillTheSame, HeldRow
  <1>4. ASSUME NEW i \in IdleIds, ~xf[x].dialog, ~xf[x].fp, xf' = [xf EXCEPT ![x] = Opened(xf[x], i)],
               idles' = [idles EXCEPT ![i] = [xfer |-> x, running |-> TRUE,
                                              offset |-> 0, length |-> xf[x].remaining]]
        PROVE  Held'
    <2> DEFINE s == Opened(xf[x], i)
               d == [xfer |-> x, running |-> TRUE, offset |-> 0, length |-> xf[x].remaining]
    <2>1. s.set /\ s.fp /\ s.idle = i
      BY <1>2, <1>4
    <2>2. d.xfer = x
      OBVIOUS
    <2> HIDE DEF s
    <2>3. \A y \in XferIds : xf'[y] = IF y = x THEN s ELSE xf[y]
      BY <1>4 DEF Base, XfersOK, s
    <2>4. \A j \in IdleIds : idles'[j] = IF j = i THEN d ELSE idles[j]
      BY <1>4 DEF Base, IdlesOK
    <2> HIDE DEF d
    <2>5. \A y \in XferIds : xf'[y].idle # 0 => xf'[y].fp
      BY <2>1, <2>3 DEF Held
    <2>6. ASSUME NEW j \in IdleIds, idles'[j].running
          PROVE  xf'[idles'[j].xfer].set /\ xf'[idles'[j].xfer].idle = j
      <3>1. CASE j = i
        BY <2>1, <2>2, <2>3, <2>4, <3>1
      <3>2. CASE j # i
        <4>1. idles'[j] = idles[j] /\ idles[j].running /\ idles[j].xfer \in XferIds
          BY <2>4, <2>6, <3>2, RunningHasXfer
        <4>2. xf[idles[j].xfer].set /\ xf[idles[j].xfer].idle = j
          BY <4>1 DEF Held
        <4>3. j # 0
          BY DEF IdleIds
        <4>4. idles[j].xfer # x
          BY <1>4, <4>2, <4>3 DEF Held
        <4> QED
          BY <2>3, <4>1, <4>2, <4>4
      <3> QED
        BY <3>1, <3>2
    <2> QED
      BY <2>5, <2>6 DEF Held
  <1> QED
    BY <1>3, <1>4, StartCases, HeldCancel

LEMMA HeldLibtox ==
  ASSUME Base, Held, Libtox
  PROVE  Held'
  <1>1. ASSUME NEW p, Unheard(p)
        PROVE  Held'
    BY <1>1, HeldSame, StillTheSame DEF Unheard
  <1>2. ASSUME NEW n \in Friends, NEW f \in RecvFiles, NEW size \in Sizes,
               OnFileRequest(n, f, size)
        PROVE  Held'
    <2> DEFINE r == Requested(n, f, size)
    <2>1. PICK x \in XferIds : IsNext(x) /\ xf' = [xf EXCEPT ![x] = r]
      BY <1>2 DEF OnFileRequest, Requested
    <2>2. idles' = idles
      BY <1>2 DEF OnFileRequest
    <2>3. r.idle = 0
      BY IncomingFields
    <2> HIDE DEF r
    <2> QED
      BY <2>1, <2>2, <2>3, NewHasNone, StillTheSame, HeldRow
  <1>3. ASSUME NEW n, NEW f, OnAccepted(n, f)
        PROVE  Held'
    BY <1>1, <1>3, FoundIsSet, HeldStart DEF OnAccepted
  <1>4. ASSUME NEW q, OnKilled(q)
        PROVE  Held'
    BY <1>1, <1>4, FoundIsSet, HeldCancel DEF OnKilled
  <1>5. ASSUME NEW n, NEW f, OnFinished(n, f)
        PROVE  Held'
    BY <1>1, <1>5, FoundIsSet, HeldStopped DEF OnFinished
  <1>6. ASSUME NEW n, NEW f, OnFileData(n, f)
        PROVE  Held'
    <2>1. ASSUME NEW x \in FindXfer(n, f), idles' = idles,
                 xf' = [xf EXCEPT ![x].remaining = @ - 1, ![x].sent = @ + 1]
          PROVE  Held'
      <3> DEFINE r == Written(xf[x])
      <3>1. x \in XferIds /\ xf[x].set
        BY FoundIsSet
      <3>2. xf' = [xf EXCEPT ![x] = r]
        BY <2>1, <3>1, RowFacts DEF Written, Base, XfersOK, Xfer
      <3>3. r.set = xf[x].set /\ r.fp = xf[x].fp /\ r.idle = xf[x].idle
        BY <3>1, RowFacts, WrittenRow
      <3> HIDE DEF r
      <3> QED
        BY <2>1, <3>1, <3>2, <3>3, StillTheSame, HeldRow
    <2> DEFINE p == [port EXCEPT ![<<"recv", n, f>>].moved = @ + 1]
    <2>2. \/ Unheard(p)
          \/ \E x \in FindXfer(n, f) :
               \/ Cancel(x, p)
               \/ /\ xf' = [xf EXCEPT ![x].remaining = @ - 1, ![x].sent = @ + 1]
                  /\ idles' = idles
      BY <1>6 DEF OnFileData
    <2> HIDE DEF p
    <2> QED
      BY <1>1, <2>1, <2>2, FoundIsSet, HeldCancel
  <1> QED
    BY <1>2, <1>3, <1>4, <1>5, <1>6 DEF Libtox

LEMMA HeldIdle ==
  ASSUME Base, Held, Idle
  PROVE  Held'
  <1>1. PICK i \in IdleIds : IdlePush(i) \/ IdleEnd(i) \/ IdleFree(i) \/ IdleFaults(i)
    BY DEF Idle
  <1>2. ASSUME NEW what, Fail(what)
        PROVE  Held'
    BY <1>2, HeldSame, StillTheSame DEF Fail
  <1>3. CASE IdleFaults(i)
    BY <1>2, <1>3 DEF IdleFaults
  <1>4. ASSUME NEW ids, StillRun(ids)
        PROVE  StillRun([ids EXCEPT ![i] = NoIdle])
    BY <1>4 DEF StillRun, NoIdle
  <1>5. CASE IdleFree(i)
    <2>1. StillRun(idles') /\ xf' = xf
      BY <1>5 DEF IdleFree, StillRun, NoIdle, Base, IdlesOK
    <2> QED
      BY <2>1, HeldSame
  <1>6. CASE IdlePush(i)
    <2> DEFINE x == idles[i].xfer
               r == Pushed(xf[x], idles[i].offset + 1)
    <2>1. /\ x \in XferIds /\ idles[i].offset + 1 \in Nat /\ xf[x].set
          /\ xf' = [xf EXCEPT ![x] = r]
          /\ idles' = [idles EXCEPT ![i].offset = idles[i].offset + 1]
      BY <1>6, TakesResult
    <2>2. r.set = xf[x].set /\ r.fp = xf[x].fp /\ r.idle = xf[x].idle
      BY <2>1, RowFacts, PushedRow
    <2>3. StillRun(idles')
      BY <2>1 DEF StillRun, Base, IdlesOK, IdleOK, Record
    <2> HIDE DEF x, r
    <2> QED
      BY <2>1, <2>2, <2>3, HeldRow
  <1>7. CASE IdleEnd(i)
    <2> DEFINE x == idles[i].xfer
               gone == [Stopped(x) EXCEPT ![i] = NoIdle]
    <2>1. x \in XferIds
      BY <1>7, CallbackFacts DEF IdleEnd
    <2>2. StillRun(gone)
      <3>1. \A j \in IdleIds : gone[j].running =>
              Stopped(x)[j].running /\ gone[j].xfer = Stopped(x)[j].xfer
        BY DEF Stopped, NoIdle
      <3> HIDE DEF gone, x
      <3> QED
        BY <2>1, <3>1, StoppedHolds DEF StillRun
    <2>3. xf[x].set => ~gone[xf[x].idle].running \/ xf[x].idle \notin IdleIds
      <3>1. xf[x].idle \in IdleIds => (gone[xf[x].idle].running => Stopped(x)[xf[x].idle].running)
        BY DEF Stopped, NoIdle
      <3> HIDE DEF gone, x
      <3> QED
        BY <2>1, <3>1, StoppedHolds
    <2>4. Fail("null data") \/ \E st \in Ended : End(x, st, 1, port, gone)
      BY <1>7 DEF IdleEnd, Ended
    <2> HIDE DEF x, gone
    <2> QED
      BY <1>2, <2>1, <2>2, <2>3, <2>4, HeldEnd
  <1> QED
    BY <1>1, <1>3, <1>5, <1>6, <1>7

\* The flag of a callback is enough (purple/xfers.c:56-57), whatever numbers coincide,
\* whoever is replaced, and however often a friend accepts a file: as long as it is set
\* its transfer is there, has its data, and has this callback and no other.
THEOREM RunningCallbacksAreOwned == Spec => []RunningIsOwned
  <1>1. Init => Held
    BY DEF Init, NoXfer, NoIdle, Held
  <1>2. ASSUME Base, Held, [Next]_vars
        PROVE  Held'
    <2>1. UNCHANGED vars => Held'
      BY <1>2, HeldSame, StillTheSame DEF vars
    <2> QED
      BY <1>2, <2>1, HeldUser, HeldLibtox, HeldIdle DEF Next
  <1>3. Base /\ Held => RunningIsOwned
    <2> SUFFICES ASSUME Base, Held, NEW i \in IdleIds, idles[i].running
                 PROVE  LET r == xf[idles[i].xfer] IN r.ref > 0 /\ r.set /\ r.idle = i
      BY DEF RunningIsOwned
    <2>1. idles[i].xfer \in XferIds /\ xf[idles[i].xfer].set /\ xf[idles[i].xfer].idle = i
      BY RunningHasXfer DEF Held
    <2> QED
      BY <2>1, RowFacts DEF Row
  <1> QED
    BY <1>1, <1>2, <1>3, BaseInvariance, PTL DEF Spec

-----------------------------------------------------------------------------
(* Flow: the counts of pieces *)

LEMMA RunningHasTox ==
  ASSUME Base, Flow, NEW i \in IdleIds, idles[i].running
  PROVE  idles[i].xfer \in XferIds /\ xf[idles[i].xfer].tox /\ xf[idles[i].xfer].set
  <1>1. idles[i].xfer \in XferIds
    BY DEF Base, IdlesOK, IdleOK, Record
  <1>2. xf[idles[i].xfer].tox
    BY DEF Flow, CallbackCounts
  <1> QED
    BY <1>1, <1>2, ToxIsSet

\* A transfer libtox did not know is written anew, with a port or without.
LEMMA FlowNew ==
  ASSUME Base, Link, Flow, NEW x \in XferIds, NEW r, ~xf[x].tox, Counted(r),
         xf' = [xf EXCEPT ![x] = r], idles' = idles,
         \A q \in Ports : port'[q] = port[q] \/ (port'[q].xfer = x /\ PortCounts(port'[q], r))
  PROVE  Flow'
  <1>1. \A y \in XferIds : xf'[y] = IF y = x THEN r ELSE xf[y]
    BY DEF Base, XfersOK
  <1>2. \A y \in XferIds : Counted(xf'[y])
    BY <1>1 DEF Flow
  <1>3. ASSUME NEW i \in IdleIds
        PROVE  CallbackCounts(i, idles'[i], xf'[idles'[i].xfer])
    <2>1. CASE idles[i].running
      <3>1. idles[i].xfer \in XferIds /\ idles[i].xfer # x
        BY <2>1, RunningHasTox
      <3> QED
        BY <1>1, <3>1 DEF Flow
    <2>2. CASE ~idles[i].running
      BY <2>2 DEF CallbackCounts
    <2> QED
      BY <2>1, <2>2
  <1>4. ASSUME NEW q \in Ports, port'[q].state # "free"
        PROVE  PortCounts(port'[q], xf'[port'[q].xfer])
    <2>1. CASE port'[q] = port[q]
      <3>1. port[q].xfer \in XferIds /\ port[q].xfer # x
        BY <1>4, <2>1, PortOfNonFree DEF Link
      <3> QED
        BY <1>1, <1>4, <2>1, <3>1 DEF Flow
    <2>2. CASE port'[q].xfer = x /\ PortCounts(port'[q], r)
      BY <1>1, <2>2
    <2> QED
      BY <2>1, <2>2
  <1> QED
    BY <1>2, <1>3, <1>4 DEF Flow

\* One transfer, its callback and its port are rewritten together.
LEMMA FlowRow ==
  ASSUME Base, Link, Flow, up, NEW x \in XferIds, xf[x].tox, NEW r, Counted(r),
         xf' = [xf EXCEPT ![x] = r],
         \A i \in IdleIds : \/ idles'[i] = idles[i] /\ idles[i].xfer # x
                            \/ idles'[i].xfer = x /\ CallbackCounts(i, idles'[i], r)
                            \/ ~idles'[i].running,
         \A q \in Ports : q # PortName(xf[x]) => port'[q] = port[q],
         port'[PortName(xf[x])].xfer = x,
         PortCounts(port'[PortName(xf[x])], r)
  PROVE  Flow'
  <1>1. \A y \in XferIds : xf'[y] = IF y = x THEN r ELSE xf[y]
    BY DEF Base, XfersOK
  <1>2. \A y \in XferIds : Counted(xf'[y])
    BY <1>1 DEF Flow
  <1>3. ASSUME NEW i \in IdleIds
        PROVE  CallbackCounts(i, idles'[i], xf'[idles'[i].xfer])
    <2>1. CASE ~idles'[i].running
      BY <2>1 DEF CallbackCounts
    <2>2. CASE idles'[i] = idles[i] /\ idles[i].xfer # x /\ idles[i].running
      <3>1. idles[i].xfer \in XferIds
        BY <2>2, RunningHasTox
      <3> QED
        BY <1>1, <2>2, <3>1 DEF Flow
    <2>3. CASE idles'[i].xfer = x /\ CallbackCounts(i, idles'[i], r)
      BY <1>1, <2>3
    <2> QED
      BY <2>1, <2>2, <2>3
  <1>4. ASSUME NEW q \in Ports, port'[q].state # "free"
        PROVE  PortCounts(port'[q], xf'[port'[q].xfer])
    <2>1. CASE q = PortName(xf[x])
      BY <1>1, <2>1
    <2>2. CASE q # PortName(xf[x])
      <3>1. port'[q] = port[q]
        BY <2>2
      <3>2. port[q].xfer \in XferIds /\ port[q].xfer # x
        BY <1>4, <2>2, <3>1, PortOfNonFree DEF Link
      <3> QED
        BY <1>1, <1>4, <3>1, <3>2 DEF Flow
    <2> QED
      BY <2>1, <2>2
  <1> QED
    BY <1>2, <1>3, <1>4 DEF Flow

\* Steps that count nothing.
LEMMA FlowSame ==
  ASSUME Flow, xf' = xf,
         \A i \in IdleIds : idles'[i] = idles[i] \/ ~idles'[i].running,
         \A q \in Ports : port'[q] = port[q] \/ port'[q].state = "free"
  PROVE  Flow'
  <1>1. \A i \in IdleIds : CallbackCounts(i, idles'[i], xf'[idles'[i].xfer])
    BY DEF Flow, CallbackCounts
  <1> QED
    BY <1>1 DEF Flow

\* A transfer that ends takes its callback and its port with it.
LEMMA FlowEnd ==
  ASSUME Base, Link, Flow, NEW x \in XferIds, NEW st \in Ended, NEW refs \in 1 .. 2,
         NEW p, NEW ids, xf[x].kind # "none", refs <= xf[x].ref,
         \A q \in Ports : ~xf[x].tox \/ q # PortName(xf[x]) => p[q] = port[q],
         \A i \in IdleIds : ids[i].running =>
           ids[i] = idles[i] /\ ~(xf[x].set /\ i = xf[x].idle),
         End(x, st, refs, p, ids)
  PROVE  Flow'
  <1>1. CASE Fail("null tox") \/ Fail("freed tox")
    BY <1>1, FlowSame DEF Fail
  <1>2. CASE /\ xf' = [xf EXCEPT ![x] = Finished(xf[x], st, refs)]
             /\ port' = Closed(p, x) /\ idles' = ids
    <2> DEFINE r == Finished(xf[x], st, refs)
    <2>1. ~r.set /\ ~r.tox
      BY RowFacts, FinishedFields
    <2>2. xf' = [xf EXCEPT ![x] = r] /\ port' = Closed(p, x) /\ idles' = ids
      BY <1>2
    <2> HIDE DEF r
    <2>3. \A y \in XferIds : xf'[y] = IF y = x THEN r ELSE xf[y]
      BY <2>2 DEF Base, XfersOK
    <2>4. \A q \in Ports : port'[q] =
            IF xf[x].tox /\ q = PortName(xf[x]) THEN FreePort ELSE port[q]
      BY <2>2 DEF Closed, PortOf, PortName
    <2>5. \A y \in XferIds : Counted(xf'[y])
      BY <2>1, <2>3 DEF Flow, Counted
    <2>6. ASSUME NEW i \in IdleIds
          PROVE  CallbackCounts(i, idles'[i], xf'[idles'[i].xfer])
      <3>1. CASE ~ids[i].running
        BY <2>2, <3>1 DEF CallbackCounts
      <3>2. CASE ids[i].running
        <4>1. ids[i] = idles[i] /\ idles[i].running /\ ~(xf[x].set /\ i = xf[x].idle)
          BY <3>2
        <4>2. idles[i].xfer \in XferIds /\ xf[idles[i].xfer].set
          BY <4>1, RunningHasTox
        <4>3. xf[idles[i].xfer].idle = i
          BY <4>1 DEF Flow, CallbackCounts
        <4>4. idles[i].xfer # x
          BY <4>1, <4>2, <4>3
        <4> QED
          BY <2>2, <2>3, <4>1, <4>2, <4>4 DEF Flow
      <3> QED
        BY <3>1, <3>2
    <2>7. ASSUME NEW q \in Ports, port'[q].state # "free"
          PROVE  PortCounts(port'[q], xf'[port'[q].xfer])
      <3>1. ~(xf[x].tox /\ q = PortName(xf[x])) /\ port'[q] = port[q]
        BY <2>4, <2>7 DEF FreePort
      <3>2. port[q].xfer \in XferIds /\ port[q].xfer # x
        BY <2>7, <3>1, PortOfNonFree DEF Link
      <3> QED
        BY <2>3, <2>7, <3>1, <3>2 DEF Flow
    <2> QED
      BY <2>5, <2>6, <2>7 DEF Flow
  <1>3. \/ Fail("null tox") \/ Fail("freed tox")
        \/ /\ xf' = [xf EXCEPT ![x] = Finished(xf[x], st, refs)]
           /\ port' = Closed(p, x) /\ idles' = ids
    BY EndsAt DEF End
  <1> QED
    BY <1>1, <1>2, <1>3

LEMMA StoppedStops ==
  ASSUME Base, NEW x, NEW i \in IdleIds
  PROVE  /\ Stopped(x)[i].running => Stopped(x)[i] = idles[i] /\ ~(xf[x].set /\ i = xf[x].idle)
         /\ \A j \in IdleIds : [Stopped(x) EXCEPT ![j] = NoIdle][i] =
              IF i = j THEN NoIdle ELSE Stopped(x)[i]
  BY DEF Stopped, Base, IdlesOK, IdleOK, Record

LEMMA FlowCancel ==
  ASSUME Base, Link, Flow, NEW x \in XferIds, xf[x].set, NEW p,
         \A q \in Ports : ~xf[x].tox \/ q # PortName(xf[x]) => p[q] = port[q],
         Cancel(x, p)
  PROVE  Flow'
  <1>1. xf[x].kind # "none" /\ 1 <= xf[x].ref
    BY RowFacts DEF Row
  <1>2. \A i \in IdleIds : Stopped(x)[i].running =>
          Stopped(x)[i] = idles[i] /\ ~(xf[x].set /\ i = xf[x].idle)
    BY StoppedStops
  <1> QED
    BY <1>1, <1>2, FlowEnd DEF Cancel, Ended

LEMMA FlowDialogEnds ==
  ASSUME Base, Link, Flow, NEW x \in XferIds, xf[x].dialog, xf[x].set,
         End(x, "cancelled", 2, port, Stopped(x))
  PROVE  Flow'
  <1>1. xf[x].kind # "none" /\ xf[x].ref = 2
    BY RowFacts DEF Row
  <1>2. \A i \in IdleIds : Stopped(x)[i].running =>
          Stopped(x)[i] = idles[i] /\ ~(xf[x].set /\ i = xf[x].idle)
    BY StoppedStops
  <1> QED
    BY <1>1, <1>2, FlowEnd DEF Ended

\* What a transfer not yet prepared has counted.
LEMMA FreshCounts ==
  ASSUME NEW r \in Xfer, r.sent = 0, r.idle = 0, r.remaining = r.size, r.status # "done"
  PROVE  Counted(r)
  <1>1. r.size \in Nat
    BY SizesAreNumbers DEF Xfer
  <1> QED
    BY <1>1 DEF Counted

LEMMA FlowPrepare ==
  ASSUME Base, Link, Flow, NEW x \in XferIds, NEW r, Unprepared(r), Prepare(x, r),
         r.sent = 0, r.idle = 0, r.remaining = r.size, ~xf[x].tox, idles' = idles
  PROVE  Flow'
  <1>1. Row(r) /\ r \in Xfer
    BY DEF Unprepared, Row
  <1>2. ASSUME NEW f \in SendFiles,
               xf' = [xf EXCEPT ![x] = PreparedAs(r, f)],
               port' = [port EXCEPT ![<<"send", r.who, f>>] =
                          [state |-> "offered", xfer |-> x, moved |-> 0]],
               Row(PreparedAs(r, f))
        PROVE  Flow'
    <2> DEFINE s == PreparedAs(r, f)
               v == [state |-> "offered", xfer |-> x, moved |-> 0]
               u == <<"send", r.who, f>>
    <2>1. s \in Xfer /\ s.sent = 0 /\ s.idle = 0 /\ s.remaining = s.size /\ s.status # "done"
      BY <1>2, PreparedFields DEF Row
    <2>2. xf' = [xf EXCEPT ![x] = s] /\ port' = [port EXCEPT ![u] = v]
      BY <1>2
    <2>3. v.xfer = x /\ v.moved = 0 /\ v.state = "offered"
      OBVIOUS
    <2> HIDE DEF s, v, u
    <2>4. Counted(s)
      BY <2>1, FreshCounts
    <2>5. \A q \in Ports : port'[q] = port[q] \/ port'[q] = v
      BY <2>2 DEF Base, PortsOK
    <2>6. PortCounts(v, s)
      BY <2>1, <2>3 DEF PortCounts
    <2>7. \A q \in Ports :
            port'[q] = port[q] \/ (port'[q].xfer = x /\ PortCounts(port'[q], s))
      BY <2>3, <2>5, <2>6
    <2> QED
      BY <2>2, <2>4, <2>7, FlowNew
  <1>3. ASSUME xf' = [xf EXCEPT ![x] = [r EXCEPT !.status = "accepted"]], port' = port,
               Row([r EXCEPT !.status = "accepted"])
        PROVE  Flow'
    <2> DEFINE s == [r EXCEPT !.status = "accepted"]
    <2>1. s \in Xfer /\ s.sent = 0 /\ s.idle = 0 /\ s.remaining = s.size /\ s.status # "done"
      BY <1>1, <1>3 DEF Row, Xfer
    <2>2. xf' = [xf EXCEPT ![x] = s]
      BY <1>3
    <2> HIDE DEF s
    <2>3. Counted(s)
      BY <2>1, FreshCounts
    <2>4. \A q \in Ports :
            port'[q] = port[q] \/ (port'[q].xfer = x /\ PortCounts(port'[q], s))
      BY <1>3
    <2> QED
      BY <2>2, <2>3, <2>4, FlowNew
  <1> QED
    BY <1>2, <1>3, PrepareResult

\* Accepting an incoming file, known to libtox, that no callback works on.
LEMMA FlowAcceptFile ==
  ASSUME Base, Link, Flow, NEW x \in XferIds, AcceptFile(x)
  PROVE  Flow'
  <1>1. xf[x].dialog /\ Row(xf[x]) /\ xf[x] \in Xfer /\ xf[x].kind = "recv"
    BY RowFacts DEF AcceptFile
  <1>2. CASE Fail("freed tox")
    BY <1>2, FlowSame DEF Fail
  <1>3. CASE xf[x].set /\ End(x, "cancelled", 2, port, Stopped(x))
    BY <1>1, <1>3, FlowDialogEnds
  <1>4. CASE /\ up /\ xf[x].set
             /\ xf' = [xf EXCEPT ![x] = Taken(@)]
             /\ port' = [port EXCEPT ![PortOf(x)].state = IF @ = "free" THEN @ ELSE "open"]
             /\ idles' = idles
    <2> DEFINE r == Taken(xf[x])
               u == PortName(xf[x])
    <2>1. xf' = [xf EXCEPT ![x] = r]
      BY <1>4 DEF Base, XfersOK
    <2>2. /\ r.set /\ xf[x].set /\ r.fp /\ r.status = "started" /\ r.size = xf[x].size
          /\ r.sent = xf[x].sent /\ r.remaining = xf[x].remaining /\ (r.tox <=> xf[x].tox)
      BY <1>1, <1>4, TakenRow
    <2> HIDE DEF r, u
    <2>3. xf[x].tox
      BY <1>1, <2>2 DEF Link, Named
    <2>4. Counted(r)
      BY <2>2, <2>3 DEF Flow, Counted
    <2>5. \A i \in IdleIds : idles[i].running => idles[i].xfer # x
      BY <1>1 DEF Flow, CallbackCounts
    <2>6. u \in Ports /\ port[u].state # "free" /\ port[u].xfer = x /\ PortOK(port[u])
      BY <1>4, <2>3 DEF Link, Named, Base, PortsOK, u
    <2>7. /\ \A q \in Ports : q # u => port'[q] = port[q]
          /\ port'[u].xfer = x /\ port'[u].state = "open" /\ port'[u].moved = port[u].moved
      BY <1>4, <2>6, PortIsName DEF Base, PortsOK, PortOK, Port, u
    <2>8. PortCounts(port[u], xf[x])
      BY <2>6 DEF Flow
    <2>9. port[u].moved = xf[x].sent
      BY <2>6, <2>8 DEF PortOK, Port, PortCounts
    <2>10. PortCounts(port'[u], r)
      BY <2>2, <2>7, <2>9 DEF PortCounts
    <2> QED
      BY <1>4, <2>1, <2>3, <2>4, <2>5, <2>7, <2>10, FlowRow DEF u
  <1>5. CASE /\ ~xf[x].set /\ xf' = [xf EXCEPT ![x] = LateTaken(xf[x])]
             /\ idles' = idles /\ port' = port
    <2> DEFINE r == LateTaken(xf[x])
    <2>1. ~r.set /\ ~xf[x].tox
      BY <1>1, <1>5, LateTakenRow DEF Row
    <2>2. xf' = [xf EXCEPT ![x] = r]
      BY <1>5
    <2> HIDE DEF r
    <2>3. Counted(r)
      BY <2>1, <1>1, <1>5, LateTakenRow DEF Counted, r, Row
    <2>4. \A q \in Ports :
            port'[q] = port[q] \/ (port'[q].xfer = x /\ PortCounts(port'[q], r))
      BY <1>5
    <2> QED
      BY <1>5, <2>1, <2>2, <2>3, <2>4, FlowNew
  <1> QED
    BY <1>2, <1>3, <1>4, <1>5 DEF AcceptFile, Taken, LateTaken

LEMMA FlowUser ==
  ASSUME Base, Link, Flow, ~Replaces, User
  PROVE  Flow'
  <1>1. ASSUME NEW n \in Friends, NEW size \in Sizes, SendFile(n, size)
        PROVE  Flow'
    <2> DEFINE r == [Outgoing(n) EXCEPT !.size = size, !.remaining = size]
    <2>1. PICK x \in XferIds : IsNext(x) /\ Prepare(x, r)
      BY <1>1 DEF SendFile
    <2>2. idles' = idles
      BY <1>1 DEF SendFile
    <2>3. Unprepared(r)
      BY OutgoingUnprepared
    <2>4. r.sent = 0 /\ r.idle = 0 /\ r.remaining = r.size
      BY OutgoingFields DEF Xfer
    <2> HIDE DEF r
    <2> QED
      BY <2>1, <2>2, <2>3, <2>4, NewIsNameless, FlowPrepare
  <1>2. ASSUME NEW n \in Friends, SendSomeFile(n)
        PROVE  Flow'
    <2> DEFINE r == [Outgoing(n) EXCEPT !.ref = 2, !.dialog = TRUE]
    <2>1. PICK x \in XferIds : IsNext(x) /\ xf' = [xf EXCEPT ![x] = r]
      BY <1>2 DEF SendSomeFile
    <2>2. idles' = idles /\ port' = port
      BY <1>2 DEF SendSomeFile
    <2>3. r \in Xfer /\ r.sent = 0 /\ r.idle = 0 /\ r.remaining = r.size /\ r.status # "done"
      <3> DEFINE u == Outgoing(n)
      <3>1. u \in Xfer /\ u.sent = 0 /\ u.idle = 0 /\ u.remaining = u.size
            /\ u.status = "unknown"
        BY OutgoingFields
      <3> HIDE DEF u
      <3> QED
        BY <3>1, SomeRefs DEF Xfer, u
    <2> HIDE DEF r
    <2>4. Counted(r)
      BY <2>3, FreshCounts
    <2>5. \A q \in Ports :
            port'[q] = port[q] \/ (port'[q].xfer = x /\ PortCounts(port'[q], r))
      BY <2>2
    <2> QED
      BY <2>1, <2>2, <2>4, <2>5, NewIsNameless, FlowNew
  <1>3. ASSUME NEW x \in XferIds, NEW size \in Sizes, ChooseFile(x, size)
        PROVE  Flow'
    <2> DEFINE r == Chosen(x, size)
    <2>1. /\ xf[x].kind = "send" /\ xf[x].dialog /\ idles' = idles
          /\ \/ up /\ Prepare(x, r)
             \/ xf' = [xf EXCEPT ![x] = [r EXCEPT !.status = "accepted"]] /\ port' = port
      BY <1>3 DEF ChooseFile, Chosen
    <2>2. /\ Row(r) /\ r.set /\ r.kind = "send" /\ ~r.dialog /\ xf[x].set
          /\ r.size = size /\ r.remaining = size /\ r.sent = xf[x].sent /\ r.idle = xf[x].idle
      BY <2>1, ChosenRow
    <2> HIDE DEF r
    <2>3. ~xf[x].tox /\ r.sent = 0 /\ r.idle = 0 /\ r.remaining = r.size
      BY <2>1, <2>2, RowFacts DEF Row, Link, Named, Flow, Counted
    <2>4. CASE up /\ Prepare(x, r)
      BY <2>1, <2>2, <2>3, <2>4, FlowPrepare DEF Unprepared
    <2>5. CASE xf' = [xf EXCEPT ![x] = [r EXCEPT !.status = "accepted"]] /\ port' = port
      <3> DEFINE s == [r EXCEPT !.status = "accepted"]
      <3>1. s \in Xfer /\ s.sent = 0 /\ s.idle = 0 /\ s.remaining = s.size /\ s.status # "done"
        BY <2>2, <2>3 DEF Row, Xfer, Statuses
      <3>2. xf' = [xf EXCEPT ![x] = s]
        BY <2>5
      <3> HIDE DEF s
      <3>3. Counted(s)
        BY <3>1, FreshCounts
      <3>4. \A q \in Ports :
              port'[q] = port[q] \/ (port'[q].xfer = x /\ PortCounts(port'[q], s))
        BY <2>5
      <3> QED
        BY <2>1, <2>3, <3>2, <3>3, <3>4, FlowNew
    <2> QED
      BY <2>1, <2>4, <2>5
  <1>4. ASSUME NEW x \in XferIds, ChooseNone(x) \/ DenyFile(x)
        PROVE  Flow'
    <2>1. CASE Fail("unref")
      BY <2>1, FlowSame DEF Fail
    <2>2. xf[x].kind = "send" /\ xf[x].dialog => xf[x].set
      BY RowFacts DEF Row
    <2> QED
      BY <1>4, <2>1, <2>2, FlowDialogEnds DEF ChooseNone, DenyFile
  <1>5. ASSUME NEW x \in XferIds, UserCancels(x)
        PROVE  Flow'
    BY <1>5, CancelledIsSet, FlowCancel DEF UserCancels
  <1>6. ASSUME Shutdown
        PROVE  Flow'
    BY <1>6, FlowSame DEF Shutdown, FreePort
  <1> QED
    BY <1>1, <1>2, <1>3, <1>4, <1>5, <1>6, FlowAcceptFile DEF User, ReplaceFriend

LEMMA FlowFileRequest ==
  ASSUME Base, Link, Flow, NEW n \in Friends, NEW f \in RecvFiles, NEW size \in Sizes,
         OnFileRequest(n, f, size)
  PROVE  Flow'
  <1> DEFINE r == Requested(n, f, size)
             v(x) == [state |-> "offered", xfer |-> x, moved |-> 0]
             u == <<"recv", n, f>>
  <1>1. PICK x \in XferIds :
          IsNext(x) /\ xf' = [xf EXCEPT ![x] = r] /\ port' = [port EXCEPT ![u] = v(x)]
    BY DEF OnFileRequest, Requested
  <1>2. idles' = idles
    BY DEF OnFileRequest
  <1>3. r \in Xfer /\ r.sent = 0 /\ r.idle = 0 /\ r.remaining = r.size /\ r.status # "done"
    BY IncomingFields
  <1>4. v(x).xfer = x /\ v(x).moved = 0 /\ v(x).state = "offered"
    OBVIOUS
  <1> HIDE DEF r, v, u
  <1>5. Counted(r) /\ PortCounts(v(x), r)
    BY <1>3, <1>4, FreshCounts DEF PortCounts
  <1>6. \A q \in Ports : port'[q] = port[q] \/ port'[q] = v(x)
    BY <1>1 DEF Base, PortsOK
  <1>7. \A q \in Ports :
          port'[q] = port[q] \/ (port'[q].xfer = x /\ PortCounts(port'[q], r))
    BY <1>4, <1>5, <1>6
  <1> QED
    BY <1>1, <1>2, <1>5, <1>7, NewIsNameless, FlowNew

\* A file accepted for the first time has nothing sent and no callback yet; one that
\* is accepted again keeps both.
LEMMA FlowAccepted ==
  ASSUME NumbersApart, Base, Link, Flow, NEW n \in Friends, NEW f \in SendFiles,
         OnAccepted(n, f)
  PROVE  Flow'
  <1> DEFINE q == <<"send", n, f>>
             p == [port EXCEPT ![q].state = "open"]
             x == port[q].xfer
             r == xf[x]
             d == [xfer |-> x, running |-> TRUE, offset |-> 0, length |-> r.remaining]
  <1>1. port[q].state # "free" /\ q \in Ports /\ up
    BY DEF OnAccepted, Ports, Online
  <1>2. /\ FindXfer(n, f) = {x} /\ x \in XferIds /\ r.set /\ r.tox /\ r.kind = "send"
        /\ PortName(r) = q
    BY <1>1, EventFinds
  <1>3. Start(x, p)
    BY <1>2 DEF OnAccepted
  <1> HIDE DEF q, x
  <1>4. PortOK(port[q]) /\ PortCounts(port[q], r)
    BY <1>1 DEF Base, PortsOK, Flow, x
  <1>5. port[q].moved = r.sent /\ (~r.fp => r.sent = 0 /\ r.idle = 0)
    BY <1>1, <1>4 DEF PortCounts, PortOK, Port
  <1>6. /\ \A u \in Ports : u # q => p[u] = port[u]
        /\ p[q].state = "open" /\ p[q].xfer = x /\ p[q].moved = r.sent
    BY <1>1, <1>4, <1>5 DEF Base, PortsOK, PortOK, Port, x
  <1> HIDE DEF p
  <1>7. Row(r) /\ r \in Xfer /\ r.size \in Nat /\ Counted(r)
    <2>1. Row(r) /\ r \in Xfer /\ Counted(r)
      BY <1>2, RowFacts DEF Flow
    <2>2. r.size \in Sizes \cup {0}
      BY <2>1 DEF Xfer
    <2> QED
      BY <2>1, <2>2, SizesAreNumbers
  <1>8. \A i \in IdleIds : idles[i].running /\ idles[i].xfer = x => r.idle = i /\ r.fp
    <2>1. \A i \in IdleIds : i # 0
      BY DEF IdleIds
    <2> QED
      BY <2>1, <1>5 DEF Flow, CallbackCounts
  <1>9. CASE Cancel(x, p)
    BY <1>2, <1>6, <1>9, FlowCancel
  <1>10. ASSUME NEW i \in IdleIds \cup {0}, ~r.dialog
         PROVE  LET s == Opened(r, i)
                IN /\ s.set /\ (s.tox <=> r.tox) /\ s.fp /\ s.kind = r.kind /\ s.sent = r.sent
                   /\ s.size = r.size /\ s.remaining = r.remaining /\ s.status = "started"
                   /\ s.idle = i
    <2> DEFINE s == Opened(r, i)
    <2>1. r.set /\ Row(r) /\ ~r.dialog
      BY <1>2, <1>7, <1>10
    <2> HIDE DEF r
    <2>2. /\ s.set /\ s.tox = r.tox /\ s.fp /\ s.kind = r.kind /\ s.sent = r.sent
          /\ s.size = r.size /\ s.remaining = r.remaining /\ s.status = "started"
          /\ s.idle = i
      BY <2>1, OpenedRow
    <2> HIDE DEF s
    <2>3. /\ s.set /\ (s.tox <=> r.tox) /\ s.fp /\ s.kind = r.kind /\ s.sent = r.sent
          /\ s.size = r.size /\ s.remaining = r.remaining /\ s.status = "started"
          /\ s.idle = i
      BY <2>2
    <2> QED
      BY <2>3 DEF s
  <1>11. ASSUME NEW i \in IdleIds \cup {0}, ~r.dialog, xf' = [xf EXCEPT ![x] = Opened(r, i)],
                port' = p,
                \A j \in IdleIds : \/ idles'[j] = idles[j] /\ idles[j].xfer # x
                                   \/ idles'[j].xfer = x /\ CallbackCounts(j, idles'[j], Opened(r, i))
                                   \/ ~idles'[j].running
         PROVE  Flow'
    <2> DEFINE s == Opened(r, i)
    <2>1. /\ s.set /\ (s.tox <=> r.tox) /\ s.fp /\ s.sent = r.sent
          /\ s.size = r.size /\ s.remaining = r.remaining /\ s.status = "started"
      BY <1>11, <1>10
    <2>2. xf' = [xf EXCEPT ![x] = s]
      BY <1>11
    <2>3. \A j \in IdleIds : \/ idles'[j] = idles[j] /\ idles[j].xfer # x
                             \/ idles'[j].xfer = x /\ CallbackCounts(j, idles'[j], s)
                             \/ ~idles'[j].running
      BY <1>11
    <2> HIDE DEF s
    <2>4. Counted(s)
      BY <1>2, <1>7, <2>1 DEF Counted
    <2>5. PortCounts(port'[PortName(r)], s) /\ port'[PortName(r)].xfer = x
      BY <1>2, <1>6, <1>11, <2>1 DEF PortCounts
    <2>6. \A u \in Ports : u # PortName(r) => port'[u] = port[u]
      BY <1>2, <1>6, <1>11
    <2> QED
      BY <1>1, <1>2, <2>2, <2>3, <2>4, <2>5, <2>6, FlowRow
  <1>12. CASE /\ ~r.dialog /\ port' = p
              /\ xf' = [xf EXCEPT ![x] = Opened(r, r.idle)] /\ idles' = idles
    <2> DEFINE s == Opened(r, r.idle)
    <2>1. r.idle \in IdleIds \cup {0}
      BY <1>7 DEF Xfer
    <2>2. /\ s.kind = r.kind /\ (s.tox <=> r.tox) /\ s.sent = r.sent /\ s.size = r.size
          /\ s.idle = r.idle
      BY <1>12, <1>10, <2>1
    <2>3. \A j \in IdleIds : idles[j].running /\ idles[j].xfer = x =>
            CallbackCounts(j, idles[j], r)
      BY DEF Flow
    <2> HIDE DEF s
    <2>4. \A j \in IdleIds : \/ idles'[j] = idles[j] /\ idles[j].xfer # x
                             \/ idles'[j].xfer = x /\ CallbackCounts(j, idles'[j], s)
                             \/ ~idles'[j].running
      BY <1>12, <2>2, <2>3 DEF CallbackCounts
    <2> QED
      BY <1>11, <1>12, <2>1, <2>4 DEF s
  <1>13. ASSUME ~r.dialog, ~r.fp, port' = p, NEW i \in IdleIds,
                idles' = [idles EXCEPT ![i] = d], xf' = [xf EXCEPT ![x] = Opened(r, i)]
         PROVE  Flow'
    <2> DEFINE s == Opened(r, i)
    <2>1. d.xfer = x /\ d.running /\ d.offset = 0 /\ d.length = r.remaining
      OBVIOUS
    <2>2. \A j \in IdleIds : idles'[j] = IF j = i THEN d ELSE idles[j]
      BY <1>13 DEF Base, IdlesOK
    <2>3. /\ s.kind = r.kind /\ (s.tox <=> r.tox) /\ s.sent = r.sent /\ s.size = r.size
          /\ s.idle = i
      BY <1>13, <1>10
    <2>4. r.remaining = r.size /\ r.sent = 0
      BY <1>2, <1>5, <1>7, <1>13 DEF Counted
    <2>5. \A j \in IdleIds : idles[j].running => idles[j].xfer # x
      BY <1>8, <1>13
    <2> HIDE DEF s, d, r
    <2>6. CallbackCounts(i, d, s)
      BY <1>2, <2>1, <2>3, <2>4 DEF CallbackCounts
    <2>7. \A j \in IdleIds : \/ idles'[j] = idles[j] /\ idles[j].xfer # x
                             \/ idles'[j].xfer = x /\ CallbackCounts(j, idles'[j], s)
                             \/ ~idles'[j].running
      BY <2>1, <2>2, <2>5, <2>6
    <2> QED
      BY <1>11, <1>13, <2>7 DEF s
  <1> HIDE DEF r, d
  <1> QED
    BY <1>2, <1>3, <1>9, <1>12, <1>13, StartCases DEF r, d

LEMMA FlowKilled ==
  ASSUME NumbersApart, Base, Link, Flow, NEW q \in Ports, OnKilled(q)
  PROVE  Flow'
  <1> DEFINE p == [port EXCEPT ![q] = FreePort]
             x == port[q].xfer
  <1>1. port[q].state # "free"
    BY DEF OnKilled
  <1>2. x \in XferIds /\ xf[x].set /\ xf[x].tox /\ PortName(xf[x]) = q
    BY <1>1, PortOfNonFree, ToxIsSet DEF Link
  <1>3. FindXfer(q[2], q[3]) = {x}
    BY <1>1, PortFinds
  <1>4. Cancel(x, p)
    BY <1>3 DEF OnKilled
  <1> HIDE DEF x
  <1>5. \A u \in Ports : u # q => p[u] = port[u]
    BY DEF Base, PortsOK
  <1> HIDE DEF p
  <1> QED
    BY <1>2, <1>4, <1>5, FlowCancel

\* The port of an incoming file that is open, and its transfer.
LEMMA OpenPort ==
  ASSUME NumbersApart, Base, Link, Flow, NEW n \in Friends, NEW f \in RecvFiles,
         port[<<"recv", n, f>>].state = "open"
  PROVE  LET q == <<"recv", n, f>>
             x == port[q].xfer
         IN /\ q \in Ports /\ FindXfer(n, f) = {x} /\ x \in XferIds /\ up
            /\ xf[x].set /\ xf[x].tox /\ xf[x].kind = "recv" /\ PortName(xf[x]) = q
            /\ xf[x].fp /\ port[q].moved = xf[x].sent
  <1> DEFINE q == <<"recv", n, f>>
             x == port[q].xfer
  <1>1. q \in Ports /\ port[q].state # "free" /\ port[q].state = "open"
    BY DEF Ports
  <1>2. /\ FindXfer(n, f) = {x} /\ x \in XferIds /\ xf[x].set /\ xf[x].tox
        /\ xf[x].kind = "recv" /\ PortName(xf[x]) = q
    BY <1>1, EventFinds
  <1> HIDE DEF q
  <1>3. xf[x].fp /\ port[q].moved = xf[x].sent /\ up
    BY <1>1 DEF Flow, PortCounts, Link
  <1> QED
    BY <1>1, <1>2, <1>3 DEF q

LEMMA FlowFinished ==
  ASSUME NumbersApart, Base, Link, Flow, NEW n \in Friends, NEW f \in RecvFiles,
         OnFinished(n, f)
  PROVE  Flow'
  <1> DEFINE q == <<"recv", n, f>>
             p == [port EXCEPT ![q] = FreePort]
             x == port[q].xfer
  <1>1. port[q].state # "free" /\ q \in Ports
    BY DEF OnFinished, Ports
  <1>2. /\ FindXfer(n, f) = {x} /\ x \in XferIds /\ xf[x].set /\ xf[x].tox
        /\ PortName(xf[x]) = q
    BY <1>1, EventFinds
  <1>3. End(x, "done", 1, p, Stopped(x))
    BY <1>2 DEF OnFinished
  <1> HIDE DEF q, x
  <1>4. \A u \in Ports : u # q => p[u] = port[u]
    BY DEF Base, PortsOK
  <1>5. xf[x].kind # "none" /\ 1 <= xf[x].ref
    BY <1>2, RowFacts DEF Row
  <1>6. \A i \in IdleIds : Stopped(x)[i].running =>
          Stopped(x)[i] = idles[i] /\ ~(xf[x].set /\ i = xf[x].idle)
    BY StoppedStops
  <1> HIDE DEF p
  <1> QED
    BY <1>2, <1>3, <1>4, <1>5, <1>6, FlowEnd DEF Ended

LEMMA FlowFileData ==
  ASSUME NumbersApart, Base, Link, Flow, NEW n \in Friends, NEW f \in RecvFiles,
         OnFileData(n, f)
  PROVE  Flow'
  <1> DEFINE q == <<"recv", n, f>>
             p == [port EXCEPT ![q].moved = @ + 1]
             x == port[q].xfer
  <1>1. port[q].state = "open" /\ port[q].moved < xf[x].size
    BY DEF OnFileData
  <1>2. /\ q \in Ports /\ FindXfer(n, f) = {x} /\ x \in XferIds /\ up
        /\ xf[x].set /\ xf[x].tox /\ xf[x].kind = "recv" /\ PortName(xf[x]) = q
        /\ xf[x].fp /\ port[q].moved = xf[x].sent
    BY <1>1, OpenPort
  <1>3. \/ Cancel(x, p)
        \/ /\ xf' = [xf EXCEPT ![x].remaining = @ - 1, ![x].sent = @ + 1]
           /\ port' = p
           /\ idles' = idles
    BY <1>2 DEF OnFileData
  <1> HIDE DEF q
  <1>4. /\ \A u \in Ports : u # q => p[u] = port[u]
        /\ p[q].state = "open" /\ p[q].xfer = x /\ p[q].moved = port[q].moved + 1
    <2>1. port[q] \in Port
      BY <1>2 DEF Base, PortsOK, PortOK
    <2> QED
      BY <1>1, <1>2, <2>1 DEF Base, PortsOK, Port
  <1> HIDE DEF x, p
  <1>5. CASE Cancel(x, p)
    BY <1>2, <1>4, <1>5, FlowCancel
  <1>6. CASE /\ xf' = [xf EXCEPT ![x].remaining = @ - 1, ![x].sent = @ + 1]
             /\ port' = p
             /\ idles' = idles
    <2> DEFINE r == Written(xf[x])
    <2>1. xf' = [xf EXCEPT ![x] = r]
      BY <1>2, <1>6, RowFacts DEF Written, Base, XfersOK, Xfer
    <2>2. /\ (r.set <=> xf[x].set) /\ (r.tox <=> xf[x].tox) /\ (r.fp <=> xf[x].fp)
          /\ r.size = xf[x].size /\ r.status = xf[x].status /\ r.sent = xf[x].sent + 1
          /\ r.remaining = xf[x].remaining - 1
      BY <1>2, RowFacts, WrittenRow
    <2> HIDE DEF r
    <2>3. xf[x].size \in Nat /\ xf[x].sent \in Nat /\ Counted(xf[x])
      <3>1. xf[x] \in Xfer /\ Counted(xf[x])
        BY <1>2, RowFacts DEF Flow
      <3>2. xf[x].size \in Sizes \cup {0} /\ xf[x].sent \in Nat
        BY <3>1 DEF Xfer
      <3> QED
        BY <3>1, <3>2, SizesAreNumbers
    <2>4. xf[x].sent < xf[x].size
      BY <1>1, <1>2 DEF x, q
    <2>5. Counted(r)
      BY <1>2, <2>2, <2>3, <2>4 DEF Counted
    <2>6. PortCounts(port'[q], r) /\ port'[q].xfer = x
      BY <1>2, <1>4, <1>6, <2>2 DEF PortCounts
    <2>7. \A i \in IdleIds : \/ idles'[i] = idles[i] /\ idles[i].xfer # x
                             \/ idles'[i].xfer = x /\ CallbackCounts(i, idles'[i], r)
                             \/ ~idles'[i].running
      BY <1>2, <1>6 DEF Flow, CallbackCounts
    <2>8. \A u \in Ports : u # PortName(xf[x]) => port'[u] = port[u]
      BY <1>2, <1>4, <1>6
    <2> QED
      BY <1>2, <2>1, <2>5, <2>6, <2>7, <2>8, FlowRow
  <1> QED
    BY <1>3, <1>5, <1>6

LEMMA FlowPush ==
  ASSUME Base, Link, Flow, NEW i \in IdleIds, IdlePush(i)
  PROVE  Flow'
  <1> DEFINE x == idles[i].xfer
             at == idles[i].offset + 1
             s == Pushed(xf[x], at)
             q == PortName(xf[x])
  <1>1. /\ x \in XferIds /\ at \in Nat /\ xf[x].set /\ xf[x].tox /\ Runs(i) /\ up
        /\ xf[x].remaining > 0 /\ q \in Ports /\ port[q].state = "open"
        /\ xf' = [xf EXCEPT ![x] = s]
        /\ idles' = [idles EXCEPT ![i].offset = at]
        /\ port' = [port EXCEPT ![q].moved = @ + 1]
    BY TakesResult, PortIsName
  <1>2. idles[i].running /\ idles[i] \in Record
    BY <1>1, CallbackFacts DEF Runs
  <1>3. CallbackCounts(i, idles[i], xf[x]) /\ Counted(xf[x])
    BY <1>1 DEF Flow
  <1>4. at = xf[x].sent + 1 /\ xf[x].idle = i /\ idles[i].length = xf[x].size
        /\ xf[x].kind = "send"
    BY <1>2, <1>3 DEF CallbackCounts
  <1> HIDE DEF x, at
  <1>5. xf[x].size \in Nat /\ xf[x].sent \in Nat /\ Row(xf[x])
    <2>1. xf[x] \in Xfer /\ Row(xf[x])
      BY <1>1, RowFacts
    <2>2. xf[x].size \in Sizes \cup {0} /\ xf[x].sent \in Nat
      BY <2>1 DEF Xfer
    <2> QED
      BY <2>1, <2>2, SizesAreNumbers
  <1>6. /\ (s.set <=> xf[x].set) /\ (s.tox <=> xf[x].tox) /\ (s.fp <=> xf[x].fp)
        /\ s.kind = xf[x].kind /\ s.size = xf[x].size /\ s.idle = xf[x].idle
        /\ s.sent = at /\ s.remaining = xf[x].size - at
        /\ s.status = IF xf[x].sent + 1 >= xf[x].size THEN "done" ELSE xf[x].status
    BY <1>1, <1>5, PushedRow
  <1> HIDE DEF s, q
  <1>7. xf[x].sent < xf[x].size
    BY <1>1, <1>3, <1>5 DEF Counted
  <1>8. Counted(s)
    BY <1>1, <1>3, <1>4, <1>5, <1>6, <1>7 DEF Counted
  <1>9. port[q].xfer = x /\ PortCounts(port[q], xf[x]) /\ port[q] \in Port
    BY <1>1 DEF Link, Flow, Base, PortsOK, PortOK, q
  <1>10. /\ \A u \in Ports : u # q => port'[u] = port[u]
         /\ port'[q].state = "open" /\ port'[q].xfer = x /\ port'[q].moved = port[q].moved + 1
    BY <1>1, <1>9 DEF Base, PortsOK, Port
  <1>11. PortCounts(port'[q], s)
    BY <1>1, <1>4, <1>6, <1>9, <1>10 DEF PortCounts
  <1>12. /\ \A j \in IdleIds : j # i => idles'[j] = idles[j]
         /\ idles'[i].xfer = x /\ idles'[i].offset = at
         /\ idles'[i].length = idles[i].length
    BY <1>1, <1>2 DEF Base, IdlesOK, Record, x
  <1>13. CallbackCounts(i, idles'[i], s)
    BY <1>1, <1>4, <1>6, <1>12 DEF CallbackCounts
  <1>14. \A j \in IdleIds : \/ idles'[j] = idles[j] /\ idles[j].xfer # x
                            \/ idles'[j].xfer = x /\ CallbackCounts(j, idles'[j], s)
                            \/ ~idles'[j].running
    <2> SUFFICES ASSUME NEW j \in IdleIds, j # i, idles[j].running
                 PROVE  idles[j].xfer # x
      BY <1>12, <1>13
    <2>1. xf[idles[j].xfer].idle = j
      BY DEF Flow, CallbackCounts
    <2> QED
      BY <1>4, <2>1
  <1> QED
    BY <1>1, <1>8, <1>10, <1>11, <1>14, FlowRow DEF q

LEMMA FlowIdle ==
  ASSUME Base, Link, Flow, Idle
  PROVE  Flow'
  <1>1. PICK i \in IdleIds : IdlePush(i) \/ IdleEnd(i) \/ IdleFree(i) \/ IdleFaults(i)
    BY DEF Idle
  <1>2. CASE IdleFree(i)
    <2>1. \A j \in IdleIds : idles'[j] = idles[j] \/ idles'[j] = NoIdle
      BY <1>2 DEF IdleFree, Base, IdlesOK
    <2>2. ~NoIdle.running
      BY DEF NoIdle
    <2> QED
      BY <1>2, <2>1, <2>2, FlowSame DEF IdleFree
  <1>3. CASE IdleFaults(i)
    BY <1>3, FlowSame DEF IdleFaults, Fail
  <1>4. CASE IdleEnd(i)
    <2> DEFINE x == idles[i].xfer
               gone == [Stopped(x) EXCEPT ![i] = NoIdle]
    <2>1. Runs(i) /\ xf[x].ref > 0
      BY <1>4 DEF IdleEnd
    <2>2. x \in XferIds /\ Row(xf[x]) /\ xf[x].ref \in Nat
      BY <2>1, CallbackFacts, RowFacts
    <2>3. xf[x].kind # "none" /\ 1 <= xf[x].ref
      BY <2>1, <2>2 DEF Row, NoXfer
    <2>4. \A j \in IdleIds : gone[j].running =>
            gone[j] = idles[j] /\ ~(xf[x].set /\ j = xf[x].idle)
      <3> SUFFICES ASSUME NEW j \in IdleIds, gone[j].running
                   PROVE  gone[j] = idles[j] /\ ~(xf[x].set /\ j = xf[x].idle)
        OBVIOUS
      <3>1. gone[j] = IF j = i THEN NoIdle ELSE Stopped(x)[j]
        BY StoppedStops
      <3>2. ~NoIdle.running
        BY DEF NoIdle
      <3> HIDE DEF gone, x
      <3> QED
        BY <3>1, <3>2, StoppedStops
    <2> HIDE DEF gone, x
    <2>5. \/ Fail("null data")
          \/ \E st \in Ended : End(x, st, 1, port, gone)
      BY <1>4 DEF IdleEnd, Ended, x, gone
    <2>6. CASE Fail("null data")
      BY <2>6, FlowSame DEF Fail
    <2>7. ASSUME NEW st \in Ended, End(x, st, 1, port, gone)
          PROVE  Flow'
      BY <2>2, <2>3, <2>4, <2>7, FlowEnd
    <2> QED
      BY <2>5, <2>6, <2>7
  <1> QED
    BY <1>1, <1>2, <1>3, <1>4, FlowPush

LEMMA FlowStep ==
  ASSUME NumbersApart, ~Replaces, Base, Link, Flow, [Next]_vars
  PROVE  Flow'
  <1>1. CASE UNCHANGED vars
    BY <1>1, FlowSame DEF vars
  <1>2. CASE Libtox
    BY <1>2, FlowFileRequest, FlowAccepted, FlowKilled, FlowFinished, FlowFileData DEF Libtox
  <1> QED
    BY <1>1, <1>2, FlowUser, FlowIdle DEF Next

LEMMA FlowInvariance ==
  ASSUME NumbersApart, ~Replaces
  PROVE  Spec => [](Base /\ Link /\ Flow)
  <1>1. Init => Flow
    <2> SUFFICES ASSUME Init
                 PROVE  Flow
      OBVIOUS
    <2>1. \A x \in XferIds : xf[x] = NoXfer
      BY DEF Init
    <2>2. \A i \in IdleIds : ~idles[i].running
      BY DEF Init, NoIdle
    <2>3. \A q \in Ports : port[q].state = "free"
      BY DEF Init, FreePort
    <2>4. Counted(NoXfer)
      BY DEF NoXfer, Counted
    <2> QED
      BY <2>1, <2>2, <2>3, <2>4 DEF Flow, CallbackCounts
  <1>2. Base /\ Link /\ Flow /\ [Next]_vars => Flow'
    BY FlowStep
  <1> QED
    BY <1>1, <1>2, LinkInvariance, PTL DEF Spec

\* Every piece passes once (purple/xfers.c:54-78, tox/xfers.c:78-100): what libtox has
\* moved of an open file is what libpurple has counted, whatever ends in between.
THEOREM PiecesAreCounted ==
  ASSUME NumbersApart, ~Replaces
  PROVE  Spec => []NoPieceLostOrRepeated
  <1>1. Base /\ Link /\ Flow => NoPieceLostOrRepeated
    BY DEF Flow, PortCounts, NoPieceLostOrRepeated
  <1> QED
    BY <1>1, FlowInvariance, PTL

-----------------------------------------------------------------------------
(* Xfers implements FileDelivery *)

\* What FileDelivery lets a step do to one transfer.
Moves(r, s) ==
  \/ /\ Life(s) = Life(r) /\ s.kind = r.kind
     /\ s.size = r.size /\ s.sent = r.sent
  \/ /\ Life(r) = "none" /\ Life(s) = "live" /\ s.kind \in {"send", "recv"}
     /\ s.size \in Sizes \cup {0} /\ s.sent = r.sent
  \/ /\ Life(r) = "live" /\ Life(s) = "live" /\ s.kind = r.kind
     /\ s.size \in Sizes \cup {0} /\ r.sent = 0 /\ s.sent = 0
  \/ /\ Life(r) = "live" /\ Life(s) = "live" /\ s.kind = r.kind
     /\ s.size = r.size /\ r.sent < r.size /\ s.sent = r.sent + 1
  \/ /\ Life(r) = "live" /\ Life(s) = "complete" /\ s.kind = r.kind
     /\ r.kind = "send" => r.sent = r.size
     /\ s.size = r.size /\ s.sent = r.sent
  \/ /\ Life(r) = "live" /\ Life(s) = "cancelled" /\ s.kind = r.kind
     /\ s.size = r.size /\ s.sent = r.sent

\* What ends complete has been counted, and the user has answered for it, unless the
\* friend was early.
Due(x) ==
  /\ port[PortOf(x)].moved = xf[x].sent
  /\ xf[x].kind = "send" => xf[x].sent = xf[x].size
  /\ Early \/ ~xf[x].dialog
EndsCounted(x, s) == xf[x].set /\ ~s.set /\ s.status = "done" => Due(x)

Delivers ==
  /\ [Delivery!Next]_(Delivery!vars)
  /\ \A x \in XferIds : EndsCounted(x, xf'[x])

LEMMA Delivered ==
  ASSUME Base, NEW x \in XferIds, NEW s, xf' = [xf EXCEPT ![x] = s], Moves(xf[x], s),
         EndsCounted(x, s)
  PROVE  Delivers
  <1> DEFINE lives == [y \in XferIds |-> Life(xf[y])]
             ways == [y \in XferIds |-> xf[y].kind]
             sizes == [y \in XferIds |-> xf[y].size]
             sents == [y \in XferIds |-> xf[y].sent]
  <1>1. \A y \in XferIds : xf'[y] = IF y = x THEN s ELSE xf[y]
    BY DEF Base, XfersOK
  <1>2. lives' = [y \in XferIds |-> IF y = x THEN Life(s) ELSE Life(xf[y])]
    <2>1. lives' = [y \in XferIds |-> Life(xf'[y])]
      BY DEF Life
    <2> QED
      BY <1>1, <2>1
  <1>3. sizes' = [y \in XferIds |-> IF y = x THEN s.size ELSE xf[y].size]
    BY <1>1
  <1>4. sents' = [y \in XferIds |-> IF y = x THEN s.sent ELSE xf[y].sent]
    BY <1>1
  <1>5. ways' = [y \in XferIds |-> IF y = x THEN s.kind ELSE xf[y].kind]
    BY <1>1
  <1>6. /\ lives[x] = Life(xf[x]) /\ sizes[x] = xf[x].size /\ sents[x] = xf[x].sent
        /\ ways[x] = xf[x].kind
        /\ lives' = [lives EXCEPT ![x] = Life(s)]
        /\ ways' = [ways EXCEPT ![x] = s.kind]
        /\ sizes' = [sizes EXCEPT ![x] = s.size]
        /\ sents' = [sents EXCEPT ![x] = s.sent]
        /\ Life(s) = Life(xf[x]) => lives' = lives
        /\ s.kind = xf[x].kind => ways' = ways
        /\ s.size = xf[x].size => sizes' = sizes
        /\ s.sent = xf[x].sent => sents' = sents
    BY <1>2, <1>3, <1>4, <1>5
  <1>7. \A y \in XferIds : EndsCounted(y, xf'[y])
    BY <1>1 DEF EndsCounted
  <1> HIDE DEF lives, ways, sizes, sents
  <1>8. CASE Life(s) = Life(xf[x]) /\ s.kind = xf[x].kind /\ s.size = xf[x].size
             /\ s.sent = xf[x].sent
    BY <1>6, <1>7, <1>8 DEF Delivers, Delivery!vars, lives, ways, sizes, sents
  <1>9. CASE ~(Life(s) = Life(xf[x]) /\ s.kind = xf[x].kind /\ s.size = xf[x].size
               /\ s.sent = xf[x].sent)
    <2>1. \/ \E n \in Sizes \cup {0} :
               Delivery!Choose(x, n) \/ \E w \in {"send", "recv"} : Delivery!Begin(x, w, n)
          \/ Delivery!Pass(x) \/ Delivery!Complete(x) \/ Delivery!Cancel(x)
      BY <1>6, <1>9 DEF Moves, Delivery!Begin, Delivery!Choose, Delivery!Pass,
         Delivery!Complete, Delivery!Cancel, lives, ways, sizes, sents
    <2> QED
      BY <1>7, <2>1 DEF Delivers, Delivery!Next
  <1> QED
    BY <1>8, <1>9

LEMMA DeliveredSame ==
  ASSUME xf' = xf
  PROVE  Delivers
  BY DEF Delivers, Delivery!vars, Life, EndsCounted

LEMMA Lives ==
  ASSUME NEW r, r.kind # "none"
  PROVE  /\ r.set => Life(r) = "live"
         /\ ~r.set /\ r.status # "cancelled" => Life(r) = "complete"
         /\ ~r.set /\ r.status = "cancelled" => Life(r) = "cancelled"
  BY DEF Life

\* A transfer that keeps its data and its counts.
LEMMA DeliveredRow ==
  ASSUME Base, NEW x \in XferIds, NEW s, xf' = [xf EXCEPT ![x] = s],
         xf[x].set, s.set, s.kind = xf[x].kind, s.size = xf[x].size, s.sent = xf[x].sent
  PROVE  Delivers
  <1>1. xf[x].kind # "none"
    BY RowFacts DEF Row
  <1>2. Moves(xf[x], s)
    BY <1>1, Lives DEF Moves
  <1> QED
    BY <1>2, Delivered DEF EndsCounted

LEMMA DeliveredFail ==
  ASSUME NEW what, Fail(what)
  PROVE  Delivers
  BY DeliveredSame DEF Fail

LEMMA DeliveredEnd ==
  ASSUME Base, NEW x \in XferIds, xf[x].set, NEW st \in Ended, NEW refs \in 1 .. 2,
         refs <= xf[x].ref, NEW p, NEW ids, End(x, st, refs, p, ids),
         st = "done" /\ xf[x].tox /\ up => Due(x)
  PROVE  Delivers
  <1>1. CASE Fail("null tox") \/ Fail("freed tox")
    BY <1>1, DeliveredFail
  <1>2. ASSUME xf[x].tox => up, st = "done" => xf[x].tox,
               xf' = [xf EXCEPT ![x] = Finished(xf[x], st, refs)]
        PROVE  Delivers
    <2> DEFINE s == Finished(xf[x], st, refs)
    <2>1. Row(xf[x]) /\ xf[x] \in Xfer
      BY RowFacts
    <2>2. ~s.set /\ s.kind = xf[x].kind /\ s.size = xf[x].size /\ s.sent = xf[x].sent
          /\ s.status = st
      BY <2>1, FinishedFields
    <2>3. xf' = [xf EXCEPT ![x] = s]
      BY <1>2
    <2> HIDE DEF s
    <2>4. st = "done" => Due(x)
      BY <1>2
    <2>5. Moves(xf[x], s)
      BY <2>1, <2>2, <2>4, Lives DEF Moves, Row, Ended, Due
    <2>6. EndsCounted(x, s)
      BY <2>2, <2>4 DEF EndsCounted
    <2> QED
      BY <2>3, <2>5, <2>6, Delivered
  <1> QED
    BY <1>1, <1>2, EndsAt DEF End

LEMMA DeliveredCancel ==
  ASSUME Base, NEW x \in XferIds, xf[x].set, NEW p, Cancel(x, p)
  PROVE  Delivers
  <1>1. 1 <= xf[x].ref
    BY RowFacts DEF Row
  <1> QED
    BY <1>1, DeliveredEnd DEF Cancel, Ended

LEMMA DeliveredDialogEnds ==
  ASSUME Base, NEW x \in XferIds, xf[x].dialog, xf[x].set,
         End(x, "cancelled", 2, port, Stopped(x))
  PROVE  Delivers
  <1>1. xf[x].ref = 2
    BY RowFacts DEF Row
  <1> QED
    BY <1>1, DeliveredEnd DEF Ended

LEMMA DeliveredNew ==
  ASSUME Base, NEW x \in XferIds, IsNext(x), NEW s, xf' = [xf EXCEPT ![x] = s],
         s.set, s.kind \in {"send", "recv"}, s.sent = 0, s.size \in Sizes \cup {0}
  PROVE  Delivers
  <1>1. xf[x].kind = "none" /\ xf[x].sent = 0
    BY NextIsNew, RowFacts DEF Row, NoXfer
  <1>2. Life(xf[x]) = "none"
    BY <1>1 DEF Life
  <1>3. Moves(xf[x], s)
    BY <1>1, <1>2, Lives DEF Moves
  <1> QED
    BY <1>3, Delivered DEF EndsCounted

\* What preparing a transfer makes of it, with a number or without.
LEMMA PreparedLives ==
  ASSUME Base, NEW x \in XferIds, NEW r, Unprepared(r), Prepare(x, r)
  PROVE  \E s : /\ xf' = [xf EXCEPT ![x] = s]
                /\ s.set /\ s.kind = "send" /\ s.sent = r.sent /\ s.size = r.size
  <1>1. r \in Xfer /\ r.set /\ r.kind = "send"
    BY DEF Unprepared, Row
  <1>2. LET s == [r EXCEPT !.status = "accepted"]
        IN s.set /\ s.kind = "send" /\ s.sent = r.sent /\ s.size = r.size
    BY <1>1 DEF Xfer
  <1>3. ASSUME NEW f \in SendFiles, xf' = [xf EXCEPT ![x] = PreparedAs(r, f)]
        PROVE  \E s : /\ xf' = [xf EXCEPT ![x] = s]
                      /\ s.set /\ s.kind = "send" /\ s.sent = r.sent /\ s.size = r.size
    <2> DEFINE s == PreparedAs(r, f)
    <2>1. s.set /\ s.kind = "send" /\ s.sent = r.sent /\ s.size = r.size
      BY PreparedFields
    <2>2. xf' = [xf EXCEPT ![x] = s]
      BY <1>3
    <2> HIDE DEF s
    <2> QED
      BY <2>1, <2>2
  <1> QED
    BY <1>2, <1>3, PrepareResult

LEMMA DeliveredUser ==
  ASSUME Base, Link, Flow, User
  PROVE  Delivers
  <1>1. ASSUME NEW n \in Friends, NEW size \in Sizes, SendFile(n, size)
        PROVE  Delivers
    <2> DEFINE r == [Outgoing(n) EXCEPT !.size = size, !.remaining = size]
    <2>1. PICK x \in XferIds : IsNext(x) /\ Prepare(x, r)
      BY <1>1 DEF SendFile
    <2>2. Unprepared(r)
      BY OutgoingUnprepared
    <2>3. r.sent = 0 /\ r.size = size
      BY OutgoingFields DEF Xfer
    <2> HIDE DEF r
    <2>4. PICK s : /\ xf' = [xf EXCEPT ![x] = s]
                   /\ s.set /\ s.kind = "send" /\ s.sent = r.sent /\ s.size = r.size
      BY <2>1, <2>2, PreparedLives
    <2>5. s.kind \in {"send", "recv"} /\ s.sent = 0 /\ s.size \in Sizes \cup {0}
      BY <2>3, <2>4
    <2> QED
      BY <2>1, <2>4, <2>5, DeliveredNew
  <1>2. ASSUME NEW n \in Friends, SendSomeFile(n)
        PROVE  Delivers
    <2> DEFINE r == [Outgoing(n) EXCEPT !.ref = 2, !.dialog = TRUE]
    <2>1. PICK x \in XferIds : IsNext(x) /\ xf' = [xf EXCEPT ![x] = r]
      BY <1>2 DEF SendSomeFile
    <2>2. r.set /\ r.kind \in {"send", "recv"} /\ r.sent = 0 /\ r.size = 0
      BY OutgoingFields DEF Xfer
    <2>3. r.size \in Sizes \cup {0}
      BY <2>2
    <2> HIDE DEF r
    <2> QED
      BY <2>1, <2>2, <2>3, DeliveredNew
  <1>3. ASSUME NEW x \in XferIds, NEW size \in Sizes, ChooseFile(x, size)
        PROVE  Delivers
    <2> DEFINE r == Chosen(x, size)
    <2>1. /\ xf[x].kind = "send" /\ xf[x].dialog
          /\ \/ Prepare(x, r)
             \/ xf' = [xf EXCEPT ![x] = [r EXCEPT !.status = "accepted"]]
      BY <1>3 DEF ChooseFile, Chosen
    <2>2. /\ Row(r) /\ r.set /\ r.kind = "send" /\ ~r.dialog /\ xf[x].set
          /\ r.size = size /\ r.sent = xf[x].sent
      BY <2>1, ChosenRow
    <2> HIDE DEF r
    <2>3. xf[x].sent = 0
      <3>1. ~xf[x].tox
        BY <2>1, RowFacts DEF Row
      <3> QED
        BY <2>2, <3>1 DEF Flow, Counted
    <2>4. LET s == [r EXCEPT !.status = "accepted"]
          IN s.set /\ s.kind = "send" /\ s.sent = r.sent /\ s.size = r.size
      BY <2>2 DEF Row, Xfer
    <2>5. PICK s : /\ xf' = [xf EXCEPT ![x] = s]
                   /\ s.set /\ s.kind = "send" /\ s.sent = r.sent /\ s.size = r.size
      BY <2>1, <2>2, <2>4, PreparedLives DEF Unprepared
    <2>6. Moves(xf[x], s)
      <3>1. Life(xf[x]) = "live" /\ Life(s) = "live"
        BY <2>1, <2>2, <2>5, Lives
      <3>2. s.size \in Sizes \cup {0} /\ s.sent = 0
        BY <2>2, <2>3, <2>5
      <3> QED
        BY <2>1, <2>3, <2>5, <3>1, <3>2 DEF Moves
    <2> QED
      BY <2>5, <2>6, Delivered DEF EndsCounted
  <1>4. ASSUME NEW x \in XferIds, ChooseNone(x) \/ DenyFile(x)
        PROVE  Delivers
    <2>1. xf[x].kind = "send" /\ xf[x].dialog => xf[x].set
      BY RowFacts DEF Row
    <2> QED
      BY <1>4, <2>1, DeliveredFail, DeliveredDialogEnds DEF ChooseNone, DenyFile
  <1>5. ASSUME NEW x \in XferIds, AcceptFile(x)
        PROVE  Delivers
    <2>1. xf[x].dialog /\ Row(xf[x])
      BY <1>5, RowFacts DEF AcceptFile
    <2>2. CASE Fail("freed tox")
      BY <2>2, DeliveredFail
    <2>3. CASE xf[x].set /\ End(x, "cancelled", 2, port, Stopped(x))
      BY <2>1, <2>3, DeliveredDialogEnds
    <2>4. CASE xf[x].set /\ xf' = [xf EXCEPT ![x] = Taken(@)]
      <3> DEFINE r == Taken(xf[x])
      <3>1. xf' = [xf EXCEPT ![x] = r]
        BY <2>4 DEF Base, XfersOK
      <3>2. r.set /\ xf[x].set /\ r.kind = xf[x].kind /\ r.size = xf[x].size
            /\ r.sent = xf[x].sent
        BY <2>1, <2>4, TakenRow
      <3> HIDE DEF r
      <3> QED
        BY <3>1, <3>2, DeliveredRow
    <2>5. CASE ~xf[x].set /\ xf' = [xf EXCEPT ![x] = LateTaken(xf[x])]
      <3> DEFINE r == LateTaken(xf[x])
      <3>1. /\ xf[x].status = "done" /\ xf[x].kind # "none"
            /\ ~r.set /\ r.status = "accepted"
            /\ r.kind = xf[x].kind /\ r.size = xf[x].size /\ r.sent = xf[x].sent
        BY <2>1, <2>5, LateTakenRow DEF Row
      <3>2. xf' = [xf EXCEPT ![x] = r]
        BY <2>5
      <3> HIDE DEF r
      <3>3. Moves(xf[x], r)
        BY <2>5, <3>1, Lives DEF Moves
      <3> QED
        BY <2>5, <3>2, <3>3, Delivered DEF EndsCounted
    <2> QED
      BY <1>5, <2>2, <2>3, <2>4, <2>5 DEF AcceptFile, Taken, LateTaken
  <1>6. ASSUME NEW x \in XferIds, UserCancels(x)
        PROVE  Delivers
    BY <1>6, CancelledIsSet, DeliveredCancel DEF UserCancels
  <1>7. ASSUME Shutdown \/ \E n \in Friends : ReplaceFriend(n)
        PROVE  Delivers
    BY <1>7, DeliveredSame DEF Shutdown, ReplaceFriend
  <1> QED
    BY <1>1, <1>2, <1>3, <1>4, <1>5, <1>6, <1>7 DEF User

LEMMA DeliveredStart ==
  ASSUME Base, NEW x \in XferIds, xf[x].set, NEW p, Start(x, p)
  PROVE  Delivers
  <1> DEFINE r == xf[x]
  <1>1. Row(r)
    BY RowFacts
  <1>2. ASSUME NEW i \in IdleIds \cup {0}, ~r.dialog, xf' = [xf EXCEPT ![x] = Opened(r, i)]
        PROVE  Delivers
    <2> DEFINE s == Opened(r, i)
    <2>1. s.set /\ s.kind = r.kind /\ s.size = r.size /\ s.sent = r.sent
      BY <1>1, <1>2, OpenedRow
    <2>2. xf' = [xf EXCEPT ![x] = s]
      BY <1>2
    <2> HIDE DEF s
    <2> QED
      BY <2>1, <2>2, DeliveredRow
  <1> QED
    BY <1>2, StartCases, DeliveredCancel

LEMMA DeliveredLibtox ==
  ASSUME NumbersApart, Base, Link, Flow, Libtox
  PROVE  Delivers
  <1>1. ASSUME NEW p, Unheard(p)
        PROVE  Delivers
    BY <1>1, DeliveredSame DEF Unheard
  <1>2. ASSUME NEW n \in Friends, NEW f \in RecvFiles, NEW size \in Sizes,
               OnFileRequest(n, f, size)
        PROVE  Delivers
    <2> DEFINE r == Requested(n, f, size)
    <2>1. PICK x \in XferIds : IsNext(x) /\ xf' = [xf EXCEPT ![x] = r]
      BY <1>2 DEF OnFileRequest, Requested
    <2>2. r.set /\ r.kind \in {"send", "recv"} /\ r.sent = 0 /\ r.size = size
      BY IncomingFields
    <2> HIDE DEF r
    <2>3. r.size \in Sizes \cup {0}
      BY <2>2
    <2> QED
      BY <2>1, <2>2, <2>3, DeliveredNew
  <1>3. ASSUME NEW n \in Friends, NEW f \in SendFiles, OnAccepted(n, f)
        PROVE  Delivers
    BY <1>1, <1>3, FoundIsSet, DeliveredStart DEF OnAccepted
  <1>4. ASSUME NEW q \in Ports, OnKilled(q)
        PROVE  Delivers
    BY <1>1, <1>4, FoundIsSet, DeliveredCancel DEF OnKilled
  <1>5. ASSUME NEW n \in Friends, NEW f \in RecvFiles, OnFinished(n, f)
        PROVE  Delivers
    <2> DEFINE q == <<"recv", n, f>>
               p == [port EXCEPT ![q] = FreePort]
               x == port[q].xfer
    <2>1. q \in Ports /\ (port[q].state = "open" \/ (Early /\ port[q].state = "offered"))
      BY <1>5 DEF OnFinished, Ports
    <2>2. /\ FindXfer(n, f) = {x} /\ x \in XferIds /\ xf[x].set
          /\ xf[x].kind = "recv" /\ PortName(xf[x]) = q
      BY <2>1, EventFinds
    <2>3. End(x, "done", 1, p, Stopped(x))
      BY <1>5, <2>2 DEF OnFinished
    <2> HIDE DEF p, q
    <2>4. PortCounts(port[q], xf[x])
      BY <2>1 DEF Flow
    <2> HIDE DEF x
    <2>5. 1 <= xf[x].ref /\ (xf[x].dialog => ~xf[x].fp)
      BY <2>2, RowFacts DEF Row
    <2>6. Due(x)
      BY <2>1, <2>2, <2>4, <2>5, PortIsName DEF Due, PortCounts
    <2> QED
      BY <2>2, <2>3, <2>5, <2>6, DeliveredEnd DEF Ended
  <1>6. ASSUME NEW n \in Friends, NEW f \in RecvFiles, OnFileData(n, f)
        PROVE  Delivers
    <2> DEFINE q == <<"recv", n, f>>
               p == [port EXCEPT ![q].moved = @ + 1]
               x == port[q].xfer
               r == Written(xf[x])
    <2>1. port[q].state = "open" /\ port[q].moved < xf[x].size
      BY <1>6 DEF OnFileData
    <2>2. /\ FindXfer(n, f) = {x} /\ x \in XferIds /\ xf[x].set /\ xf[x].sent < xf[x].size
      BY <2>1, OpenPort
    <2>3. \/ Unheard(p)
          \/ Cancel(x, p)
          \/ xf' = [xf EXCEPT ![x].remaining = @ - 1, ![x].sent = @ + 1]
      BY <1>6, <2>2 DEF OnFileData
    <2> HIDE DEF p, x
    <2>4. CASE xf' = [xf EXCEPT ![x].remaining = @ - 1, ![x].sent = @ + 1]
      <3>1. Row(xf[x]) /\ xf[x].kind # "none"
        BY <2>2, RowFacts DEF Row
      <3>2. xf' = [xf EXCEPT ![x] = r]
        BY <2>2, <2>4, RowFacts DEF Written, Base, XfersOK, Xfer
      <3>3. r.set /\ r.kind = xf[x].kind /\ r.size = xf[x].size /\ r.sent = xf[x].sent + 1
        BY <2>2, <3>1, WrittenRow
      <3> HIDE DEF r
      <3>4. Life(r) = "live" /\ Life(xf[x]) = "live"
        BY <2>2, <3>1, <3>3, Lives
      <3>5. Moves(xf[x], r)
        BY <2>2, <3>3, <3>4 DEF Moves
      <3> QED
        BY <2>2, <3>2, <3>3, <3>5, Delivered DEF EndsCounted
    <2> QED
      BY <1>1, <2>2, <2>3, <2>4, DeliveredCancel
  <1> QED
    BY <1>2, <1>3, <1>4, <1>5, <1>6 DEF Libtox

LEMMA DeliveredIdle ==
  ASSUME Base, Link, Flow, Idle
  PROVE  Delivers
  <1>1. PICK i \in IdleIds : IdlePush(i) \/ IdleEnd(i) \/ IdleFree(i) \/ IdleFaults(i)
    BY DEF Idle
  <1>2. CASE IdleFree(i) \/ IdleFaults(i)
    BY <1>2, DeliveredSame, DeliveredFail DEF IdleFree, IdleFaults
  <1>3. CASE IdlePush(i)
    <2> DEFINE x == idles[i].xfer
               at == idles[i].offset + 1
               s == Pushed(xf[x], at)
    <2>1. /\ x \in XferIds /\ at \in Nat /\ xf[x].set /\ Runs(i)
          /\ idles[i].offset < idles[i].length /\ xf' = [xf EXCEPT ![x] = s]
      BY <1>3, TakesResult
    <2>2. idles[i].offset = xf[x].sent /\ idles[i].length = xf[x].size
      BY <2>1 DEF Flow, CallbackCounts, Runs
    <2>3. at = xf[x].sent + 1 /\ xf[x].sent < xf[x].size
      BY <2>1, <2>2
    <2> HIDE DEF x, at
    <2>4. Row(xf[x]) /\ xf[x].kind # "none"
      BY <2>1, RowFacts DEF Row
    <2>5. s.set /\ s.kind = xf[x].kind /\ s.size = xf[x].size /\ s.sent = at
      BY <2>1, <2>4, PushedRow
    <2> HIDE DEF s
    <2>6. Life(s) = "live" /\ Life(xf[x]) = "live"
      BY <2>1, <2>4, <2>5, Lives
    <2>7. Moves(xf[x], s)
      BY <2>3, <2>5, <2>6 DEF Moves
    <2> QED
      BY <2>1, <2>5, <2>7, Delivered DEF EndsCounted
  <1>4. CASE IdleEnd(i)
    <2> DEFINE x == idles[i].xfer
               gone == [Stopped(x) EXCEPT ![i] = NoIdle]
    <2>1. Runs(i) /\ idles[i].running
      BY <1>4 DEF IdleEnd, Runs
    <2>2. x \in XferIds /\ xf[x].set /\ xf[x].tox /\ xf[x].kind = "send" /\ xf[x].idle = i
      BY <2>1, RunningHasTox DEF Flow, CallbackCounts
    <2> HIDE DEF x, gone
    <2>3. 1 <= xf[x].ref /\ Counted(xf[x]) /\ ~xf[x].dialog
      BY <2>2, RowFacts DEF Row, Flow
    <2>4. \/ Fail("null data")
          \/ \E st \in Ended :
               (st = "done" => xf[x].status = "done") /\ End(x, st, 1, port, gone)
      BY <1>4 DEF IdleEnd, Ended, x, gone
    <2>5. ASSUME up
          PROVE  port[PortOf(x)].moved = xf[x].sent
      <3> DEFINE q == PortName(xf[x])
      <3>1. q \in Ports /\ port[q].state # "free" /\ port[q].xfer = x /\ PortOf(x) = q
        BY <2>2, <2>5, PortIsName DEF Link, Named
      <3> HIDE DEF q
      <3>2. PortCounts(port[q], xf[x]) /\ PortOK(port[q])
        BY <3>1 DEF Flow, Base, PortsOK
      <3>3. port[q].state = "open"
        BY <2>2, <3>1, <3>2 DEF PortCounts, PortOK, Port, IdleIds
      <3> QED
        BY <3>1, <3>2, <3>3 DEF PortCounts
    <2>6. ASSUME NEW st \in Ended, st = "done" => xf[x].status = "done",
                 End(x, st, 1, port, gone)
          PROVE  Delivers
      <3>1. st = "done" /\ xf[x].tox /\ up => Due(x)
        BY <2>2, <2>3, <2>5, <2>6 DEF Counted, Due
      <3> QED
        BY <2>2, <2>3, <2>6, <3>1, DeliveredEnd
    <2> QED
      BY <2>4, <2>6, DeliveredFail
  <1> QED
    BY <1>1, <1>2, <1>3, <1>4

LEMMA DeliveredStep ==
  ASSUME NumbersApart, Base, Link, Flow, [Next]_vars
  PROVE  Delivers
  <1>1. CASE UNCHANGED vars
    BY <1>1, DeliveredSame DEF vars
  <1> QED
    BY <1>1, DeliveredUser, DeliveredLibtox, DeliveredIdle DEF Next

\* What is reported complete has been counted (purple/xfers.c:54-78, 224-239,
\* tox/xfers.c:20-23): whoever ends a transfer, it is done only with as many pieces as
\* libtox has moved, and one we send only with all of them.
THEOREM CompleteFilesAreCounted ==
  ASSUME NumbersApart, ~Replaces
  PROVE  Spec => CompleteIsCounted
  <1>1. Base /\ Link /\ Flow /\ [Next]_vars
        => [\A x \in XferIds :
              xf[x].set /\ ~xf'[x].set /\ xf'[x].status = "done" =>
                /\ port[PortOf(x)].moved = xf[x].sent
                /\ xf[x].kind = "send" => xf[x].sent = xf[x].size]_vars
    BY DeliveredStep DEF Delivers, EndsCounted, Due
  <1> QED
    BY <1>1, FlowInvariance, PTL DEF Spec, CompleteIsCounted

\* File transfers keep the promise of FileDelivery (purple/xfers.c:54-78,
\* tox/xfers.c:20-100): each piece of a file passes once and in turn, a transfer ends
\* once, one we send as complete only when the whole file has passed, and then nothing
\* about it changes; with any number of transfers, cancelled by anybody and at any time,
\* completed by friends before the user has answered, and with log outs in between.
THEOREM XfersDeliver ==
  ASSUME NumbersApart, ~Replaces
  PROVE  Spec => FileDeliverySpec
  <1>1. Init => Delivery!Init
    BY DEF Init, Delivery!Init, NoXfer, Life
  <1>2. Base /\ Link /\ Flow /\ [Next]_vars => [Delivery!Next]_(Delivery!vars)
    BY DeliveredStep DEF Delivers
  <1> QED
    BY <1>1, <1>2, FlowInvariance, PTL DEF Spec, FileDeliverySpec, Delivery!Spec

-----------------------------------------------------------------------------
(* Memory *)

LEMMA EndFaults ==
  ASSUME NEW x, NEW st, NEW refs, NEW p, NEW ids, End(x, st, refs, p, ids)
  PROVE  \/ fault' = fault
         \/ fault' = "freed tox" /\ ~up
         \/ fault' = "null tox" /\ st = "done" /\ ~xf[x].tox
  BY DEF End, Fail

\* The steps that may end in a memory error.
LEMMA FaultCases ==
  ASSUME [Next]_vars
  PROVE  \/ fault' = fault
         \/ fault' = "freed tox" /\ ~up
         \/ fault' = "unref" /\ \E x \in XferIds : xf[x].dialog /\ ~xf[x].set
         \/ \E n \in Friends, f \in RecvFiles :
              OnFinished(n, f) /\ \E x \in FindXfer(n, f) : ~xf[x].tox
         \/ \E i \in IdleIds : IdleFaults(i)
         \/ \E i \in IdleIds : Runs(i) /\ ~(xf[idles[i].xfer].set /\ xf[idles[i].xfer].tox)
  <1> DEFINE Goal == fault' = fault \/ (fault' = "freed tox" /\ ~up)
  <1>1. ASSUME NEW x, NEW refs, NEW p, NEW ids, End(x, "cancelled", refs, p, ids)
        PROVE  Goal
    BY <1>1 DEF End, Fail
  <1>2. ASSUME NEW x, NEW p, Start(x, p)
        PROVE  Goal
    BY <1>1, <1>2 DEF Start, StartFails, Cancel
  <1>3. ASSUME NEW p, Unheard(p)
        PROVE  Goal
    BY <1>3 DEF Unheard
  <1>4. ASSUME User
        PROVE  Goal \/ (fault' = "unref" /\ \E x \in XferIds : xf[x].dialog /\ ~xf[x].set)
    BY <1>1, <1>4 DEF User, SendFile, SendSomeFile, ChooseFile, ChooseNone,
       AcceptFile, DenyFile, UserCancels, Cancel, Shutdown, ReplaceFriend, Fail
  <1>5. ASSUME NEW n, NEW f, OnFinished(n, f)
        PROVE  Goal \/ \E x \in FindXfer(n, f) : ~xf[x].tox
    BY <1>3, <1>5, EndFaults DEF OnFinished
  <1>6. ASSUME Libtox
        PROVE  Goal \/ \E n \in Friends, f \in RecvFiles :
                         OnFinished(n, f) /\ \E x \in FindXfer(n, f) : ~xf[x].tox
    BY <1>1, <1>2, <1>3, <1>5, <1>6 DEF Libtox, OnFileRequest, OnAccepted, OnKilled,
       OnFileData, Cancel
  <1>7. ASSUME NEW i \in IdleIds, IdlePush(i) \/ IdleFree(i)
        PROVE  Goal
    BY <1>7 DEF IdlePush, Takes, IdleFree
  <1>8. ASSUME NEW i \in IdleIds, IdleEnd(i)
        PROVE  Goal \/ (Runs(i) /\ ~(xf[idles[i].xfer].set /\ xf[idles[i].xfer].tox))
    BY <1>8, EndFaults DEF IdleEnd
  <1>9. ASSUME UNCHANGED vars
        PROVE  Goal
    BY <1>9 DEF vars
  <1> QED
    BY <1>4, <1>6, <1>7, <1>8, <1>9 DEF Next, Idle

LEMMA FaultStep ==
  ASSUME NumbersApart, Base, Link, Flow, [Next]_vars
  PROVE  \/ fault' = fault
         \/ fault' = "freed tox" /\ ~up
         \/ fault' = "unref" /\ \E x \in XferIds : xf[x].dialog /\ ~xf[x].set
  <1>1. ASSUME NEW i \in IdleIds, Runs(i)
        PROVE  xf[idles[i].xfer].set /\ xf[idles[i].xfer].tox /\ xf[idles[i].xfer].ref # 0
    <2>1. idles[i].xfer \in XferIds /\ xf[idles[i].xfer].set /\ xf[idles[i].xfer].tox
      BY <1>1, RunningHasTox DEF Runs
    <2>2. xf[idles[i].xfer].ref > 0 /\ xf[idles[i].xfer].ref \in 0 .. 2
      BY <2>1, RowFacts, ToxIsSet
    <2> QED
      BY <2>1, <2>2
  <1>2. ASSUME NEW i \in IdleIds, Pushes(i)
        PROVE  ~(idles[i].offset >= idles[i].length)
    <2> DEFINE r == xf[idles[i].xfer]
    <2>1. Runs(i) /\ idles[i].running /\ r.remaining > 0
      BY <1>2 DEF Pushes, Runs
    <2>2. r \in Xfer /\ idles[i].xfer \in XferIds /\ r.set
      BY <1>1, <2>1, CallbackFacts
    <2>3. idles[i].offset = r.sent /\ idles[i].length = r.size
      BY <2>1 DEF Flow, CallbackCounts
    <2>4. r.remaining = r.size - r.sent
      BY <2>2 DEF Flow, Counted
    <2>5. r.sent \in Nat /\ r.size \in Nat
      <3>1. r.sent \in Nat /\ r.size \in Sizes \cup {0}
        BY <2>2 DEF Xfer
      <3> QED
        BY <3>1, SizesAreNumbers
    <2> HIDE DEF r
    <2> QED
      BY <2>1, <2>3, <2>4, <2>5
  <1>3. ASSUME NEW i \in IdleIds, IdleFaults(i)
        PROVE  fault' = "freed tox" /\ ~up
    <2>1. Pushes(i) => Runs(i)
      BY DEF Pushes
    <2> QED
      BY <1>1, <1>2, <1>3, <2>1 DEF IdleFaults, Breaks, Fail
  <1>4. ASSUME NEW n \in Friends, NEW f \in RecvFiles, OnFinished(n, f),
               NEW x \in FindXfer(n, f)
        PROVE  xf[x].tox
    <2>1. <<"recv", n, f>> \in Ports /\ port[<<"recv", n, f>>].state # "free"
      BY <1>4 DEF OnFinished, Ports
    <2> QED
      BY <1>4, <2>1, EventFinds
  <1> QED
    BY <1>1, <1>3, <1>4, FaultCases

\* Nobody follows a pointer to a transfer that is gone or to data that was never set,
\* nor reads past the buffer of a file (purple/xfers.c:54-78, 117-239), logouts and
\* files ended before the user has answered included.
THEOREM TransfersAreMemorySafe ==
  ASSUME NumbersApart, ~Replaces
  PROVE  Spec => []MemorySafe
  <1>1. Init => MemorySafe
    BY DEF Init, MemorySafe
  <1>2. Base /\ Link /\ Flow /\ MemorySafe /\ [Next]_vars => MemorySafe'
    BY FaultStep DEF MemorySafe
  <1> QED
    BY <1>1, <1>2, FlowInvariance, PTL DEF Spec

\* The user is asked about transfers that have their data.
Asked == \A x \in XferIds : xf[x].dialog => xf[x].set

LEMMA AskedStep ==
  ASSUME NumbersApart, ~Early, Base, Link, Flow, Asked, [Next]_vars
  PROVE  Asked'
  <1> SUFFICES ASSUME NEW x \in XferIds, xf'[x].dialog, ~xf'[x].set
               PROVE  FALSE
    BY DEF Asked
  <1>1. Base' /\ Final(xf[x], xf'[x])
    BY BaseStep DEF Finals
  <1>2. xf'[x].status = "done"
    BY <1>1 DEF Base, XfersOK, Row
  <1>3. xf[x].dialog /\ xf[x].set
    BY <1>1 DEF Final, Asked
  <1>4. EndsCounted(x, xf'[x])
    BY DeliveredStep DEF Delivers
  <1> QED
    BY <1>2, <1>3, <1>4 DEF EndsCounted, Due

LEMMA StaysUp ==
  ASSUME ~Disconnects, up, [Next]_vars
  PROVE  up'
  <1>1. ASSUME NEW x, NEW st, NEW refs, NEW p, NEW ids, End(x, st, refs, p, ids)
        PROVE  up'
    BY <1>1 DEF End, Fail
  <1>2. ASSUME NEW x, NEW p, Start(x, p)
        PROVE  up'
    BY <1>1, <1>2 DEF Start, StartFails, Cancel
  <1>3. User => up'
    BY <1>1 DEF User, SendFile, SendSomeFile, ChooseFile, ChooseNone,
       AcceptFile, DenyFile, UserCancels, Cancel, Shutdown, ReplaceFriend, Fail
  <1>4. Libtox => up'
    BY <1>1, <1>2 DEF Libtox, OnFileRequest, OnAccepted, OnKilled,
       OnFinished, OnFileData, Cancel, Unheard
  <1>5. Idle => up'
    BY <1>1 DEF Idle, IdlePush, Takes, IdleEnd, IdleFree, IdleFaults, Fail
  <1>6. UNCHANGED vars => up'
    BY DEF vars
  <1> QED
    BY <1>3, <1>4, <1>5, <1>6 DEF Next

\* The two errors MemorySafe leaves need a logout and a friend who ends his file before
\* the user has answered (purple/xfers.c:36-78, 132-239): while the account stays online
\* and friends wait, there is none.
THEOREM OnlineThereIsNoFault ==
  ASSUME NumbersApart, ~Replaces, ~Disconnects, ~Early
  PROVE  Spec => [](fault = "none")
  <1> DEFINE Inv == up /\ fault = "none" /\ Asked
  <1>1. Init => Inv
    BY DEF Init, NoXfer, Asked
  <1>2. ASSUME Base, Link, Flow, Inv, [Next]_vars
        PROVE  Inv'
    <2>1. up' /\ Asked'
      BY <1>2, StaysUp, AskedStep
    <2>2. fault' = fault
      BY <1>2, FaultStep DEF Asked
    <2> QED
      BY <1>2, <2>1, <2>2
  <1> QED
    BY <1>1, <1>2, FlowInvariance, PTL DEF Spec
=============================================================================
