------------------------------ MODULE MCAgent ------------------------------
(* Small instances of ResearchAgent and Evaluation for TLC. *)
EXTENDS ResearchAgent, Evaluation, TLC

CONSTANTS w1, w2, w3

MCScores == {-3, 0, 1}

Plain == [question |-> {w1}, truth |-> NoTruth, contexts |-> <<{w1, w2}>>]

Golden == [question |-> {w1, w2, w3}, truth |-> {w1, w3}, contexts |-> <<{w1}, {w2}>>]

Bare == [question |-> {}, truth |-> {w2}, contexts |-> <<>>]

MCDatasets == {<<>>, <<Plain, Golden>>, <<Golden, Golden>>, <<Plain, Bare>>}

MCAnswers == {{}, {w1}, {w1, w3}, {w3}}

(* The two share no row, so they are explored one at a time: whichever      *)
(* takes the first step.                                                    *)
StudiesInit == Init /\ EvaluationInit

StudiesNext ==
  \/ Next /\ studies = 0 /\ UNCHANGED evaluation
  \/ EvaluationNext /\ state.pc = "plan" /\ UNCHANGED vars

Studies == StudiesInit /\ [][StudiesNext]_<<vars, evaluation>>

Symmetry == Permutations(Chunks)
=============================================================================
