--------------------------- MODULE ResearchAgent ---------------------------
(***************************************************************************)
(* One run of the research agent and the rows it leaves:                   *)
(*                                                                         *)
(*   plan -> search, once per sub-question -> summarize -> verify          *)
(*        -> once more from the searches, wider, if not verified           *)
(*        -> add_run -> add_steps -> commit                                *)
(*                                                                         *)
(* A search returns distinct chunks, best first, no more than it was asked *)
(* for; the corpus moves between searches, so nothing else is known of     *)
(* what it returns.  Scores are whole logits of the reranker.              *)
(***************************************************************************)
EXTENDS Citations, FiniteSets

CONSTANTS
  Chunks,           \* chunk ids
  Scores,           \* scores the reranker gives
  TopK,             \* top_k of the request
  Extra,            \* chunks kept beyond top_k
  MaxQuestions,     \* sub-questions planned, the query among them
  MaxMarkers        \* bound: markers in an answer

ASSUME AgentAssumption ==
  /\ IsFiniteSet(Chunks)
  /\ Scores \subseteq Int
  /\ {TopK, MaxQuestions} \subseteq Nat \ {0}
  /\ {Extra, MaxMarkers} \subseteq Nat

VARIABLES
  state,            \* the orchestrator's _State
  seen,             \* hits of the searches of this attempt
  tx,               \* what the session has flushed
  db                \* committed rows: runs and steps

vars == <<state, seen, tx, db>>

Hit == [chunk : Chunks, score : Scores]

Nothing == [runs |-> {}, steps |-> {}]

Init ==
  /\ state = [pc |-> "plan", questions |-> 0, left |-> 0, merged |-> <<>>, context |-> <<>>,
              prompt |-> <<>>, answer |-> <<>>, refuses |-> FALSE, citations |-> <<>>,
              verified |-> FALSE, attempts |-> 0, steps |-> <<>>]
  /\ seen = {}
  /\ tx = Nothing
  /\ db = Nothing

-----------------------------------------------------------------------------
At(pc) == state.pc = pc

top_k == IF state.attempts = 0 THEN TopK ELSE TopK * 2

ChunksOf(hits) == [i \in DOMAIN hits |-> hits[i].chunk]

(* What a search may return.                                                *)
Returned == {hits \in SeqOf(Hit, top_k) :
               \A i, j \in DOMAIN hits : i < j => /\ hits[i].chunk # hits[j].chunk
                                                  /\ hits[i].score >= hits[j].score}

(* Mutant: a chunk found again takes the score it was found with last.      *)
Merge_last(merged, hit) ==
  IF \E i \in DOMAIN merged : merged[i].chunk = hit.chunk
  THEN [i \in DOMAIN merged |-> IF merged[i].chunk = hit.chunk THEN hit ELSE merged[i]]
  ELSE Append(merged, hit)

(* A dict from chunk to its best hit: a better hit takes the place of the   *)
(* first.                                                                   *)
Merge(merged, hit) ==
  IF \E i \in DOMAIN merged : merged[i].chunk = hit.chunk
  THEN [i \in DOMAIN merged |->
          IF merged[i].chunk = hit.chunk /\ hit.score > merged[i].score THEN hit ELSE merged[i]]
  ELSE Append(merged, hit)

(* sorted(..., reverse=True)[:top_k + 4]: the sort is stable.               *)
Best(merged) ==
  LET order == CHOOSE p \in SetToSeqs(DOMAIN merged) : \A i, j \in DOMAIN p : i < j =>
                 \/ merged[p[i]].score > merged[p[j]].score
                 \/ merged[p[i]].score = merged[p[j]].score /\ p[i] < p[j]
  IN [i \in 1 .. Min({Len(merged), top_k + Extra}) |-> merged[order[i]]]

-----------------------------------------------------------------------------
plan ==
  /\ At("plan")
  /\ \E n \in 1 .. MaxQuestions :
       state' = [state EXCEPT !.pc = "search", !.questions = n, !.left = n,
                              !.steps = Append(@, "plan")]
  /\ UNCHANGED <<seen, tx, db>>

(* The loop over the sub-questions is over: what comes next.                *)
Retrieved(merged, next) ==
  [state EXCEPT !.pc = next, !.left = 0, !.merged = <<>>, !.context = Best(merged),
                !.steps = Append(@, "retrieve")]

(* Mutant: the second attempt verifies the answer it has.                   *)
search_only(hits) ==
  LET merged == FoldLeft(Merge, state.merged, hits) IN
  IF state.left > 1 THEN [state EXCEPT !.left = @ - 1, !.merged = merged]
  ELSE Retrieved(merged, IF state.attempts = 0 THEN "summarize" ELSE "verify")

(* One turn of that loop.                                                   *)
searched(hits) ==
  LET merged == FoldLeft(Merge, state.merged, hits) IN
  IF state.left > 1 THEN [state EXCEPT !.left = @ - 1, !.merged = merged]
  ELSE Retrieved(merged, "summarize")

search ==
  /\ At("search")
  /\ \E hits \in Returned : seen' = seen \cup ToSet(hits) /\ state' = searched(hits)
  /\ UNCHANGED <<tx, db>>

(* The answer is generated even from an empty context.                      *)
summarize ==
  /\ At("summarize")
  /\ \E answer \in SeqOf(0 .. Len(state.context) + 1, MaxMarkers), refuses \in BOOLEAN :
       state' = [state EXCEPT !.pc = "verify", !.answer = answer, !.refuses = refuses,
                              !.prompt = ChunksOf(state.context),
                              !.steps = Append(@, "summarize")]
  /\ UNCHANGED <<seen, tx, db>>

Verified(citations) ==
  /\ citations # <<>>
  /\ ~state.refuses
  /\ Confident(Len(citations), state.context[1].score)

verify ==
  /\ At("verify")
  /\ LET citations == build_citations(state.answer, ChunksOf(state.context))
         again     == ~Verified(citations) /\ state.attempts < 1
         checked   == [state EXCEPT !.citations = citations, !.verified = Verified(citations),
                                    !.steps = Append(@, "verify")] IN
     IF again
     THEN /\ state' = [checked EXCEPT !.pc = "search", !.attempts = @ + 1, !.left = state.questions]
          /\ seen' = {}
     ELSE state' = [checked EXCEPT !.pc = "add_run"] /\ UNCHANGED seen
  /\ UNCHANGED <<tx, db>>

Row == [status |-> IF state.verified THEN "succeeded" ELSE "unverified",
        answer |-> state.answer, citations |-> Len(state.citations)]

(* Mutant: each repository commits what it adds.                            *)
add_run_commits ==
  /\ At("add_run")
  /\ state' = [state EXCEPT !.pc = "add_steps"]
  /\ tx' = [tx EXCEPT !.runs = {Row}]
  /\ db' = tx'
  /\ UNCHANGED seen

add_run ==
  /\ At("add_run")
  /\ state' = [state EXCEPT !.pc = "add_steps"]
  /\ tx' = [tx EXCEPT !.runs = {Row}]
  /\ UNCHANGED <<seen, db>>

add_steps ==
  /\ At("add_steps")
  /\ state' = [state EXCEPT !.pc = "commit"]
  /\ tx' = [tx EXCEPT !.steps = {<<i, state.steps[i]>> : i \in DOMAIN state.steps}]
  /\ UNCHANGED <<seen, db>>

commit ==
  /\ At("commit")
  /\ state' = [state EXCEPT !.pc = "done"]
  /\ db' = tx
  /\ tx' = Nothing
  /\ UNCHANGED seen

(* A search, the model or a statement raises: the session rolls back.       *)
fail ==
  /\ state.pc \notin {"done", "failed"}
  /\ state' = [state EXCEPT !.pc = "failed"]
  /\ tx' = Nothing
  /\ UNCHANGED <<seen, db>>

Next ==
  \/ plan \/ search \/ summarize \/ verify \/ add_run \/ add_steps \/ commit \/ fail

Spec == Init /\ [][Next]_vars

-----------------------------------------------------------------------------
(* The best of the hits: each chunk once and with its best score, as many   *)
(* as there are up to `most`, and nothing left out better than what is in.  *)
HoldsBest(context, hits, most) ==
  LET found == {h.chunk : h \in hits}
      kept  == ToSet(ChunksOf(context))
      BestScore(c) == Max({h.score : h \in {h \in hits : h.chunk = c}}) IN
  /\ Cardinality(kept) = Len(context)
  /\ Len(context) = Min({Cardinality(found), most})
  /\ \A i \in DOMAIN context :
       /\ context[i].score = BestScore(context[i].chunk)
       /\ \A c \in found \ kept : BestScore(c) <= context[i].score

(* The context is the best of everything the attempt found, over all of its *)
(* sub-questions (_retrieve).                                               *)
ContextIsBestFound == At("summarize") => HoldsBest(state.context, seen, top_k + Extra)

(* A run recorded as succeeded cites, and what it cites is what the model   *)
(* was shown under that number when it wrote the recorded answer: the retry *)
(* never judges an answer against a context it was not written from.        *)
SuccessIsGrounded ==
  \A run \in db.runs : run.status = "succeeded" =>
    LET shown == {n \in ToSet(run.answer) : n \in DOMAIN state.prompt} IN
    /\ run.citations = Cardinality(shown) /\ shown # {}
    /\ \A i \in DOMAIN state.citations :
         state.citations[i].chunk = state.prompt[state.citations[i].marker]

Attempt == <<"retrieve", "summarize", "verify">>

(* A committed run has its whole timeline and a timeline has its run; a run *)
(* is unverified only after a second attempt (research, ResearchAgentGraph).*)
TimelineIsWhole ==
  LET timeline == <<"plan">> \o Attempt \o (IF state.attempts = 0 THEN <<>> ELSE Attempt) IN
  /\ db.steps = IF db.runs = {} THEN {} ELSE {<<i, timeline[i]>> : i \in DOMAIN timeline}
  /\ \A run \in db.runs : run.status = "unverified" => state.attempts = 1
=============================================================================
