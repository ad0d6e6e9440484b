------------------------------- MODULE MCPage -------------------------------
(* Small instances of ChatPage for TLC. *)
EXTENDS ChatPage, TLC

Symmetry == Permutations(Convs)
=============================================================================
