------------------------------ MODULE MCXfers ------------------------------
(* Small instances of Xfers: the configurations choose the numbers.        *)
EXTENDS Xfers
=============================================================================
