----------------------------- MODULE MCGroupChat -----------------------------
(* Small instances of GroupChat: the names of peers are interchangeable.   *)
EXTENDS GroupChat

NameSymmetry == Permutations(Names)
=============================================================================
