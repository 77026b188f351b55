----------------------------- MODULE MCContacts -----------------------------
(* Model values for checking Contacts, and with it Roster.                 *)
EXTENDS Contacts

CONSTANTS k1, k2, k3, g1, g2
=============================================================================
