---------------------------- MODULE FileDelivery ----------------------------
(***************************************************************************)
(* What file transfers promise, whatever the user, the friends, libtox and *)
(* the idle callbacks do, and in whatever order:                           *)
(*                                                                         *)
(*   - a file passes piece by piece, each piece once and none beyond the   *)
(*     end, and its size is settled before the first one;                  *)
(*   - a transfer ends once, a file we send complete only if every piece   *)
(*     has passed; of the files friends send they say when that is;        *)
(*   - nothing changes about it afterwards.                                *)
(*                                                                         *)
(* Xfers implements this specification.                                    *)
(***************************************************************************)
EXTENDS Naturals

CONSTANTS
  Transfers,   \* the transfers there may be
  Sizes        \* sizes of files, in pieces

VARIABLES
  life,     \* whether a transfer has begun, and how it has ended
  way,      \* whether its file is sent or received
  size,     \* the pieces of its file
  passed    \* those that have passed from one side to the other

vars == <<life, way, size, passed>>

Init ==
  /\ life = [x \in Transfers |-> "none"]
  /\ way = [x \in Transfers |-> "none"]
  /\ size = [x \in Transfers |-> 0]
  /\ passed = [x \in Transfers |-> 0]

\* A file offered by a friend has its size; the user may yet have to choose his.
Begin(x, w, n) ==
  /\ life[x] = "none"
  /\ life' = [life EXCEPT ![x] = "live"]
  /\ way' = [way EXCEPT ![x] = w]
  /\ size' = [size EXCEPT ![x] = n]
  /\ UNCHANGED passed

Choose(x, n) ==
  /\ life[x] = "live" /\ passed[x] = 0
  /\ size' = [size EXCEPT ![x] = n]
  /\ UNCHANGED <<life, way, passed>>

Pass(x) ==
  /\ life[x] = "live" /\ passed[x] < size[x]
  /\ passed' = [passed EXCEPT ![x] = @ + 1]
  /\ UNCHANGED <<life, way, size>>

Complete(x) ==
  /\ life[x] = "live" /\ (way[x] = "send" => passed[x] = size[x])
  /\ life' = [life EXCEPT ![x] = "complete"]
  /\ UNCHANGED <<way, size, passed>>

Cancel(x) ==
  /\ life[x] = "live"
  /\ life' = [life EXCEPT ![x] = "cancelled"]
  /\ UNCHANGED <<way, size, passed>>

Next ==
  \E x \in Transfers :
    \/ \E n \in Sizes \cup {0} :
         Choose(x, n) \/ \E w \in {"send", "recv"} : Begin(x, w, n)
    \/ Pass(x) \/ Complete(x) \/ Cancel(x)

Spec == Init /\ [][Next]_vars
=============================================================================
