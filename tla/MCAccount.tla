----------------------------- MODULE MCAccount -----------------------------
(* Small instances of Account: the configurations choose the numbers. The  *)
(* conversions behind the Tox ID the user is shown are evaluated for short *)
(* strings and keys.                                                       *)
EXTENDS Account, Util

Texts == UNION {[1 .. n -> {0, 9, 10, 15, 26, 31, Other}] : n \in 0 .. 4}
Keys == UNION {[1 .. n -> {0, 15, 16, 160, 255}] : n \in 0 .. 3}

ASSUME Conversions ==
  /\ \A s \in Texts : StaysInBuffer(s)
  /\ \A data \in Keys : RoundTrips(data)
  /\ \A s \in Texts :
       (Len(s) % 2 = 0) => (NameIsKey(s) <=> \A i \in DOMAIN s : s[i] \in Digits)
=============================================================================
