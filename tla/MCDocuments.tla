---------------------------- MODULE MCDocuments ----------------------------
(* Small instances of DocumentLifecycle for TLC. *)
EXTENDS DocumentLifecycle, TLC

CONSTANTS a, b, p

(* a and b are plain texts, which extraction leaves as they are; p is a     *)
(* binary file with the text a.                                             *)
PlainTextOf == [c \in Contents |-> IF c = p THEN a ELSE c]

Symmetry == Permutations(Docs) \cup Permutations(Requests) \cup Permutations(Workers)
=============================================================================
