------------------------------- MODULE MCChat -------------------------------
(* Small instances of ChatSession for TLC. *)
EXTENDS ChatSession, TLC

Symmetry == Permutations(Sockets) \cup Permutations(Handlers)
=============================================================================
