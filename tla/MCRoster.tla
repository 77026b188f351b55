------------------------------ MODULE MCRoster ------------------------------
(* Model values for checking Roster on small instances.                    *)
EXTENDS Roster

CONSTANTS k1, k2, k3, g1, g2
=============================================================================
