----------------------------- MODULE Retrieval -----------------------------
(***************************************************************************)
(* One search, or one question answered from a search, while documents are *)
(* indexed, indexed again and deleted beside it.                           *)
(*                                                                         *)
(*   vectors -> hydrate -> fulltext -> rerank -> log -> generate -> answer *)
(*                                                                         *)
(* PostgreSQL runs at READ COMMITTED, so each statement sees the rows that *)
(* are committed when it runs; the vector store answers from points that   *)
(* may be older than the rows, or younger.  A search stops after `log`.    *)
(***************************************************************************)
EXTENDS Ranking, Citations

CONSTANTS
  Docs,             \* document ids
  DocOf,            \* the document of a chunk
  Multiplier,       \* _CANDIDATE_MULTIPLIER
  TopKs,            \* values of top_k
  MaxMarkers,       \* bound: markers in an answer
  MaxWrites         \* bound: writes to the corpus while the search runs

ASSUME RetrievalAssumption ==
  /\ DocOf \in [Chunks -> Docs]
  /\ Multiplier \in Nat \ {0}
  /\ TopKs \subseteq Nat \ {0}
  /\ {MaxMarkers, MaxWrites} \subseteq Nat

VARIABLES
  rows,             \* chunks with a committed row, in the search's scope
  points,           \* chunks with a point, in the search's scope
  born,             \* chunks that ever had a committed row
  search,           \* the search
  log,              \* committed rows of retrieval_logs, by their results
  writes            \* writes spent

vars == <<rows, points, born, search, log, writes>>

Strategies == {"dense", "bm25", "hybrid"}

Idle == [pc |-> "idle", kind |-> "search", top_k |-> 1, strategy |-> "hybrid",
         rerank |-> "no", hits |-> <<>>, dense |-> <<>>, lexical |-> <<>>,
         candidates |-> <<>>, results |-> <<>>, flushed |-> {}, answer |-> <<>>,
         saw |-> {}]

ChunkLists == Seq(Chunks)
MarkerLists == Seq(Nat)

Searches ==
  [pc         : {"idle", "vectors", "hydrate", "fulltext", "rerank", "log", "generate",
                 "respond", "answered", "failed"},
   kind       : {"search", "rag"},
   top_k      : Nat \ {0},
   strategy   : Strategies,
   rerank     : {"yes", "no"},
   hits       : ChunkLists,    \* points found
   dense      : ChunkLists,    \* and those of them that have a row
   lexical    : ChunkLists,    \* rows found by full-text search
   candidates : ChunkLists,    \* the pool, fused if there are two lists
   results    : ChunkLists,
   flushed    : SUBSET ChunkLists, \* log rows in its transaction
   answer     : MarkerLists,   \* the markers in the generated answer
   saw        : SUBSET Chunks]  \* rows committed at some time since it began

TypeOK ==
  /\ rows \subseteq born
  /\ born \subseteq Chunks
  /\ points \subseteq Chunks
  /\ search \in Searches
  /\ log \subseteq ChunkLists
  /\ writes \in Nat

Init ==
  /\ rows \in SUBSET Chunks
  /\ points \in SUBSET Chunks
  /\ born = rows
  /\ search = Idle
  /\ log = {}
  /\ writes = 0

-----------------------------------------------------------------------------
At(pc) == search.pc = pc

Corpus == <<rows, points, born, writes>>

pool == search.top_k * Multiplier

ask ==
  /\ At("idle")
  /\ \E kind \in {"search", "rag"}, k \in TopKs,
        strategy \in Strategies, rerank \in {"yes", "no"} :
       search' = [search EXCEPT !.pc = IF strategy = "bm25" THEN "fulltext" ELSE "vectors",
                                !.kind = kind, !.top_k = k, !.strategy = strategy,
                                !.rerank = rerank, !.saw = rows]
  /\ UNCHANGED <<Corpus, log>>

(* The `pool` nearest points, or all of them.                               *)
vector_search ==
  /\ At("vectors")
  /\ \E hits \in {t \in RankingsUpTo(points, pool) : Len(t) = Min({pool, Cardinality(points)})} :
       search' = [search EXCEPT !.pc = "hydrate", !.hits = hits]
  /\ UNCHANGED <<Corpus, log>>

(* Mutant: a hit is returned from its payload, row or no row.               *)
Hydrated_blind == {search.hits}

(* get_by_ids: a hit without a row is dropped.                              *)
Hydrated == Among(rows, search.hits)

hydrate ==
  /\ At("hydrate")
  /\ \E dense \in Hydrated :
       search' = [search EXCEPT
         !.pc = IF search.strategy = "hybrid" THEN "fulltext" ELSE "rerank",
         !.hits = <<>>, !.dense = dense,
         !.candidates = IF search.strategy = "hybrid" THEN <<>> ELSE dense]
  /\ UNCHANGED <<Corpus, log>>

(* search_fulltext: matching rows by rank, at most `pool` of them.          *)
search_fulltext ==
  /\ At("fulltext")
  /\ \E lexical \in RankingsUpTo(rows, pool) :
       \E candidates \in IF search.strategy = "hybrid"
                         THEN reciprocal_rank_fusion(search.dense, lexical) ELSE {lexical} :
         search' = [search EXCEPT !.pc = "rerank", !.lexical = lexical,
                                  !.candidates = candidates]
  /\ UNCHANGED <<Corpus, log>>

(* The cross-encoder's scores, which may order the candidates in any way;   *)
(* then results = ranked[:top_k].                                           *)
rerank ==
  /\ At("rerank")
  /\ \E ranked \in IF search.rerank = "yes" THEN SetToSeqs(ToSet(search.candidates))
                   ELSE {search.candidates} :
       search' = [search EXCEPT !.pc = "log", !.dense = <<>>, !.lexical = <<>>,
                                !.candidates = <<>>, !.results = Top(ranked, search.top_k)]
  /\ UNCHANGED <<Corpus, log>>

Context == compress(search.results)

(* Mutant: markers are resolved in the results, not in what the prompt held. *)
Citations_from_results == build_citations(search.answer, search.results)

Citations == build_citations(search.answer, Context)

(* The log row is flushed.  A search is over; a question goes on with what  *)
(* fits the prompt, or ends at once when nothing was found.                 *)
add_log ==
  /\ At("log")
  /\ search' = [search EXCEPT
       !.flushed = {search.results},
       !.pc = IF search.kind = "rag" /\ Context # <<>> THEN "generate" ELSE "respond"]
  /\ UNCHANGED <<Corpus, log>>

(* The numbers an answer brackets, some of them out of range or repeated.   *)
Answers == SeqOf(0 .. search.top_k + 1, MaxMarkers)

generate ==
  /\ At("generate")
  /\ \E answer \in Answers : search' = [search EXCEPT !.pc = "respond", !.answer = answer]
  /\ UNCHANGED <<Corpus, log>>

(* The response is sent and get_db closes the session, which rolls back     *)
(* what it flushed: nothing on this path commits.                           *)
respond ==
  /\ At("respond")
  /\ search' = [search EXCEPT !.pc = "answered", !.flushed = {}]
  /\ UNCHANGED <<Corpus, log>>

(* The embedder, a store, the reranker or the model raises.                 *)
fail ==
  /\ search.pc \in {"vectors", "hydrate", "fulltext", "rerank", "log", "generate"}
  /\ search' = [Idle EXCEPT !.pc = "failed"]
  /\ UNCHANGED <<Corpus, log>>

-----------------------------------------------------------------------------
(* The corpus changes beside the search.                                    *)

Write ==
  /\ ~At("idle")
  /\ writes < MaxWrites
  /\ writes' = writes + 1

(* A run commits: the document's rows are replaced by rows never seen.      *)
replace_rows(d) ==
  /\ Write
  /\ \E fresh \in SUBSET {c \in Chunks \ born : DocOf[c] = d} :
       /\ rows' = {c \in rows : DocOf[c] # d} \cup fresh
       /\ born' = born \cup fresh
       /\ search' = [search EXCEPT !.saw = @ \cup fresh]
  /\ UNCHANGED <<points, log>>

(* A run indexes rows it has flushed and may never commit.                  *)
upsert(d) ==
  /\ Write
  /\ \E fresh \in SUBSET {c \in Chunks \ born : DocOf[c] = d} :
       points' = points \cup fresh
  /\ UNCHANGED <<rows, born, search, log>>

delete_by_document(d) ==
  /\ Write
  /\ points' = {c \in points : DocOf[c] # d}
  /\ UNCHANGED <<rows, born, search, log>>

Next ==
  \/ ask \/ vector_search \/ hydrate \/ search_fulltext \/ rerank \/ add_log
  \/ generate \/ respond \/ fail
  \/ \E d \in Docs : replace_rows(d) \/ upsert(d) \/ delete_by_document(d)

Spec == Init /\ [][Next]_vars

-----------------------------------------------------------------------------
(* What a search promises.                                                  *)

(* A chunk is a result only if its row was committed at some time during    *)
(* the search: a point left by a deleted document, by an earlier version or *)
(* by a run that never committed brings nothing into the answer             *)
(* (DenseRetriever.retrieve drops it).                                      *)
ResultsWereLive == ToSet(search.results) \subseteq search.saw

Hybrid == At("rerank") /\ search.strategy = "hybrid"

Shared == ToSet(search.dense) \cap ToSet(search.lexical)

(* A chunk both retrievers found comes before every chunk only one of them  *)
(* found, as long as the pool is no larger than the constant of the fusion  *)
(* and one: beyond that, a first place in one list can outweigh two last    *)
(* places (reciprocal_rank_fusion).                                         *)
SharedOutranks ==
  Hybrid /\ pool <= RankConstant + 1 =>
    \A i, j \in DOMAIN search.candidates :
      search.candidates[i] \in Shared /\ search.candidates[j] \notin Shared => i < j

(* The places of a ranking whose text no better place has.                  *)
FirstOccurrences(ranking) ==
  {i \in DOMAIN ranking :
     \A j \in 1 .. i - 1 : TextOfChunk[ranking[j]] # TextOfChunk[ranking[i]]}

(* The context is the ranking at the places `at`: the first occurrences up  *)
(* to some place, in order.                                                 *)
Selects(at, context, ranking, cut) ==
  /\ {at[i] : i \in DOMAIN context} = FirstOccurrences(ranking) \cap 1 .. cut
  /\ \A i, j \in DOMAIN context : i < j => at[i] < at[j]
  /\ \A i \in DOMAIN context : context[i] = ranking[at[i]]

(* Such a context is within the budget unless it is one chunk, and stops    *)
(* because there is no more or because the next would not fit.              *)
PacksBest(context, ranking) ==
  \E cut \in 0 .. Len(ranking) :
    /\ \E at \in [DOMAIN context -> 1 .. cut] : Selects(at, context, ranking, cut)
    /\ Len(context) > 1 => Size(context) <= MaxContextTokens
    /\ cut < Len(ranking) =>
         /\ context # <<>>
         /\ cut + 1 \in FirstOccurrences(ranking)
         /\ Size(context) + Tokens[ranking[cut + 1]] > MaxContextTokens

(* The prompt holds the longest run of best distinct texts within the       *)
(* budget, and the best text whatever its size (compress).                  *)
ContextIsBest == At("log") => PacksBest(Context, search.results)

(* A citation stands for the chunk the prompt showed under its number, and  *)
(* no number is cited twice (build_citations).                              *)
CitationsResolve ==
  At("respond") =>
    \A i, j \in DOMAIN Citations :
      LET c == Citations[i] IN
        /\ c.marker \in DOMAIN Context /\ c.chunk = Context[c.marker]
        /\ c.marker = Citations[j].marker => i = j

(* Each query is logged for analytics, says retrieval_service.py: once it   *)
(* has been answered its results are in the committed log.                  *)
QueriesAreLogged == At("answered") => search.results \in log
=============================================================================
