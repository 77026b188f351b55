----------------------------- MODULE FriendBook -----------------------------
(***************************************************************************)
(* What the friend system of the plugin promises its user, whatever the   *)
(* order of logins, requests, crashes and clicks:                          *)
(*                                                                         *)
(*   - book, the set of friends a later login finds, changes only when a   *)
(*     friend is made, a listed buddy is dropped, or account data is       *)
(*     imported into an account that has no friend;                        *)
(*   - a friend that is made is on the buddy list from that moment;        *)
(*   - a login with friends leaves exactly them on the buddy list, and     *)
(*     one without friends leaves the list alone;                          *)
(*   - going offline, by logout or by crash, changes neither.              *)
(*                                                                         *)
(* Roster implements this specification.                                   *)
(***************************************************************************)

CONSTANT Keys    \* the public keys a friend can have

VARIABLES
  online,   \* whether a Tox session runs
  book,     \* the friends of the stored account data
  listed    \* the names on the libpurple buddy list

vars == <<online, book, listed>>

TypeOK ==
  /\ online \in BOOLEAN
  /\ book \subseteq Keys
  /\ listed \subseteq Keys

Init ==
  /\ online = FALSE
  /\ book \subseteq Keys
  /\ listed \subseteq Keys

\* Only an account without friends can be given other ones by a login.
Replaces(S) == S = book \/ (book = {} /\ S \subseteq Keys)

\* First-time setup stores account data but the network is not reached.
Setup(S) ==
  /\ Replaces(S)
  /\ book' = S
  /\ UNCHANGED <<online, listed>>

Login(S) ==
  /\ ~online
  /\ Replaces(S)
  /\ online' = TRUE
  /\ book' = S
  /\ listed' = IF S = {} THEN listed ELSE S

Befriend(k) ==
  /\ online
  /\ k \notin book
  /\ book' = book \cup {k}
  /\ listed' = listed \cup {k}
  /\ UNCHANGED online

Drop(k) ==
  /\ online
  /\ k \in listed
  /\ book' = book \ {k}
  /\ listed' = listed \ {k}
  /\ UNCHANGED online

GoOffline ==
  /\ online
  /\ online' = FALSE
  /\ UNCHANGED <<book, listed>>

Next ==
  \/ \E S \in SUBSET Keys : Setup(S) \/ Login(S)
  \/ \E k \in Keys : Befriend(k) \/ Drop(k)
  \/ GoOffline

Spec == Init /\ [][Next]_vars
=============================================================================
