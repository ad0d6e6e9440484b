------------------------------ MODULE Ranking ------------------------------
(***************************************************************************)
(* The pure steps between the retrievers and a prompt: reciprocal-rank     *)
(* fusion, and packing of the context.                                     *)
(*                                                                         *)
(* A ranking is a sequence of distinct chunk ids, best first.  A chunk has *)
(* a text, which is its content up to case and white space as its digest   *)
(* sees it, and a length in tokens.  Scores of the fusion are exact        *)
(* fractions.                                                              *)
(***************************************************************************)
EXTENDS Integers, Sequences, FiniteSets, SequencesExt

CONSTANTS
  Chunks,           \* chunk ids (uuid4: never reused)
  TextOfChunk,      \* the normalised text of a chunk
  Tokens,           \* estimate_tokens of a chunk's content
  RankConstant,     \* k of the fusion
  MaxContextTokens  \* the budget of the prompt

ASSUME RankingAssumption ==
  /\ IsFiniteSet(Chunks)
  /\ DOMAIN TextOfChunk = Chunks
  /\ \A c \in Chunks : Tokens[c] \in Nat \ {0}
  /\ RankConstant \in Nat \ {0}
  /\ MaxContextTokens \in Nat

(* All rankings of at most n members of S.                                  *)
RankingsUpTo(S, n) == UNION {SetToSeqs(T) : T \in {T \in SUBSET S : Cardinality(T) <= n}}

Position(ranking, c) == CHOOSE i \in DOMAIN ranking : ranking[i] = c

(* The ranking of those of its members that are in S, as the set that holds *)
(* it alone.                                                                *)
Among(S, ranking) ==
  {t \in SetToSeqs(ToSet(ranking) \cap S) :
     \A i, j \in DOMAIN t : i < j => Position(ranking, t[i]) < Position(ranking, t[j])}

Top(ranking, n) == SubSeq(ranking, 1, IF n < Len(ranking) THEN n ELSE Len(ranking))

-----------------------------------------------------------------------------
(* Fusion.  A fraction is <<numerator, denominator>>.                       *)

(* Mutant: a chunk found twice keeps the better of its two scores.          *)
Score_best(dense, lexical, c) ==
  LET a == RankConstant + Position(dense, c)
      b == RankConstant + Position(lexical, c) IN
  IF c \in ToSet(dense) /\ c \in ToSet(lexical) THEN <<1, IF a < b THEN a ELSE b>>
  ELSE IF c \in ToSet(dense) THEN <<1, a>> ELSE <<1, b>>

Score(dense, lexical, c) ==
  LET a == RankConstant + Position(dense, c)
      b == RankConstant + Position(lexical, c) IN
  IF c \in ToSet(dense) /\ c \in ToSet(lexical) THEN <<a + b, a * b>>
  ELSE IF c \in ToSet(dense) THEN <<1, a>> ELSE <<1, b>>

Greater(p, q) == p[1] * q[2] > q[1] * p[2]

(* The dict of scores is filled by the dense list, then by the lexical one. *)
EnteredBefore(dense, lexical, c, d) ==
  IF d \in ToSet(dense)
  THEN c \in ToSet(dense) /\ Position(dense, c) < Position(dense, d)
  ELSE c \in ToSet(dense) \/ Position(lexical, c) < Position(lexical, d)

(* The order of sorted(..., reverse=True), which is stable.                 *)
Precedes(dense, lexical, c, d) ==
  \/ Greater(Score(dense, lexical, c), Score(dense, lexical, d))
  \/ /\ ~Greater(Score(dense, lexical, d), Score(dense, lexical, c))
     /\ EnteredBefore(dense, lexical, c, d)

(* The fused ranking, as the set that holds it alone.                       *)
reciprocal_rank_fusion(dense, lexical) ==
  {t \in SetToSeqs(ToSet(dense) \cup ToSet(lexical)) :
     \A i, j \in DOMAIN t : i < j => Precedes(dense, lexical, t[i], t[j])}

-----------------------------------------------------------------------------
(* Context packing.                                                         *)

Texts(chunks) == {TextOfChunk[chunks[i]] : i \in DOMAIN chunks}

Size(chunks) == FoldLeft(LAMBDA n, c : n + Tokens[c], 0, chunks)

(* Mutant: the texts that were kept are not remembered.                     *)
Pack_again(acc, c) ==
  IF acc.full THEN acc
  ELSE IF Size(acc.kept) + Tokens[c] > MaxContextTokens /\ acc.kept # <<>>
       THEN [acc EXCEPT !.full = TRUE]
       ELSE [acc EXCEPT !.kept = Append(@, c)]

Pack(acc, c) ==
  IF acc.full \/ TextOfChunk[c] \in Texts(acc.kept) THEN acc
  ELSE IF Size(acc.kept) + Tokens[c] > MaxContextTokens /\ acc.kept # <<>>
       THEN [acc EXCEPT !.full = TRUE]
       ELSE [acc EXCEPT !.kept = Append(@, c)]

compress(chunks) == FoldLeft(Pack, [kept |-> <<>>, full |-> FALSE], chunks).kept

=============================================================================
