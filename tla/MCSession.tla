----------------------------- MODULE MCSession -----------------------------
(* Small instances of Session: the configurations choose the numbers.      *)
EXTENDS Session
=============================================================================
