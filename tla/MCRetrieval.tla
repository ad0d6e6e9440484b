---------------------------- MODULE MCRetrieval ----------------------------
(* Small instances of Retrieval for TLC: two versions of one document and   *)
(* another document, the second version repeating the other's text.         *)
EXTENDS Retrieval

CONSTANTS a1, a2, b1, b2, A, B, t1, t2, t3

MCTextOfChunk == a1 :> t1 @@ a2 :> t2 @@ b1 :> t2 @@ b2 :> t3
MCTokens == a1 :> 3 @@ a2 :> 2 @@ b1 :> 3 @@ b2 :> 6
MCDocOf == a1 :> A @@ a2 :> A @@ b1 :> B @@ b2 :> B
=============================================================================
