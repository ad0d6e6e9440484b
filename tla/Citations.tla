----------------------------- MODULE Citations -----------------------------
(***************************************************************************)
(* From a generated answer to its citations and the confidence in them.    *)
(* An answer is the numbers it puts in brackets, in order.                 *)
(***************************************************************************)
EXTENDS Integers, Sequences, SequencesExt

extract_markers(answer) ==
  FoldLeft(LAMBDA seen, n : IF n \in ToSet(seen) THEN seen ELSE Append(seen, n),
           <<>>, answer)

(* A number with no chunk is dropped.                                       *)
build_citations(answer, chunks) ==
  FoldLeft(LAMBDA cited, n :
             IF n \in 1 .. Len(chunks) THEN Append(cited, [marker |-> n, chunk |-> chunks[n]])
             ELSE cited,
           <<>>, extract_markers(answer))

(* confidence_score >= 0.3 for an answer that does not refuse and cites n   *)
(* sources: two give 0.5 alone; one gives 0.25, and the sigmoid of the best *)
(* score must add 0.05, which it does above a logit of -2.2.  A score of    *)
(* exactly 0 counts as no score at all.  Scores are whole logits.           *)
Confident(n, top) == n >= 2 \/ (n = 1 /\ top # 0 /\ top >= -2)
=============================================================================
