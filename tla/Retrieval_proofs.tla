-------------------------- MODULE Retrieval_proofs --------------------------
(***************************************************************************)
(* What a search returns had a committed row while it ran, and what both   *)
(* retrievers found comes first.                                           *)
(***************************************************************************)
EXTENDS Retrieval, Folding_proofs

(* From nothing, the first stage makes two rankings no longer than the pool, *)
(* and their fusion.                                                        *)
PoolsAreRankings ==
  /\ search.pc \in {"idle", "vectors"} =>
       \A found \in {search.hits, search.dense, search.lexical, search.candidates,
                    search.results} : found = <<>>
  /\ search.pc \in {"hydrate", "fulltext", "rerank"} =>
       {search.hits, search.dense, search.lexical} \subseteq RankingsUpTo(Chunks, pool)
  /\ Hybrid => search.candidates \in reciprocal_rank_fusion(search.dense, search.lexical)

(* What was found, by whichever retriever, had a committed row.             *)
FoundIsLive ==
  /\ search.pc \notin {"idle", "failed"} => rows \subseteq search.saw
  /\ ToSet(search.dense) \cup ToSet(search.lexical) \cup ToSet(search.candidates)
       \cup ToSet(search.results) \subseteq search.saw

(* The inductive invariant behind the two theorems.                         *)
RetrievalInv == TypeOK /\ PoolsAreRankings /\ FoundIsLive

-----------------------------------------------------------------------------
USE RankingAssumption, RetrievalAssumption

(* Two places no lower than k + 1 outweigh any one place: with x, y the      *)
(* denominators of the two and z that of the one, 1/x + 1/y > 1/z.           *)
LEMMA TwoPlacesOutweighOne ==
  ASSUME NEW k \in Nat \ {0}, NEW x \in Nat \ {0}, NEW y \in Nat \ {0}, NEW z \in Nat \ {0},
         x <= k + k + 1, y <= k + k + 1, z >= k + 1
  PROVE  (x + y) * z > x * y
<1> DEFINE m == k + 1
<1>1. x < m + m /\ y < m + m /\ m <= z /\ m \in Nat \ {0}
  OBVIOUS
<1> HIDE DEF m
<1>2. x * y < (m + m) * y
  BY <1>1
<1>3. x * y < x * (m + m)
  BY <1>1
<1>4. (m + m) * y = m * y + m * y /\ x * (m + m) = x * m + x * m
  BY <1>1
<1>5. x * y < x * m + m * y
  BY <1>1, <1>2, <1>3, <1>4
<1>6. x * m <= x * z /\ m * y <= z * y
  BY <1>1
<1>7. (x + y) * z = x * z + z * y
  OBVIOUS
<1> QED
  BY <1>1, <1>5, <1>6, <1>7

LEMMA PositionIsThere ==
  ASSUME NEW s \in Seq(Chunks), NEW c \in ToSet(s)
  PROVE  /\ Position(s, c) \in 1 .. Len(s)
         /\ s[Position(s, c)] = c
  BY DEF Position, ToSet

LEMMA RankingsAreSequences ==
  ASSUME NEW S \in SUBSET Chunks, NEW t \in SetToSeqs(S)
  PROVE  /\ t \in Seq(Chunks)
         /\ Len(t) = Cardinality(S)
         /\ ToSet(t) \subseteq S
<1>1. IsFiniteSet(S) /\ Cardinality(S) \in Nat
  BY FS_Subset, FS_CardinalityType
<1> QED
  BY <1>1 DEF SetToSeqs, ToSet

(* A ranking of at most n chunks is a sequence no longer than n.             *)
LEMMA ShortRankings ==
  ASSUME NEW n \in Nat, NEW S \in SUBSET Chunks, NEW t \in RankingsUpTo(S, n)
  PROVE  /\ t \in Seq(Chunks)
         /\ Len(t) <= n
         /\ ToSet(t) \subseteq S
         /\ t \in RankingsUpTo(Chunks, n)
<1>1. PICK T \in SUBSET S : Cardinality(T) <= n /\ t \in SetToSeqs(T)
  BY DEF RankingsUpTo
<1>2. T \in SUBSET Chunks
  BY <1>1
<1> QED
  BY <1>1, <1>2, RankingsAreSequences DEF RankingsUpTo

LEMMA NothingIsARanking ==
  ASSUME NEW n \in Nat
  PROVE  <<>> \in RankingsUpTo(Chunks, n) /\ <<>> \in Seq(Chunks) /\ ToSet(<<>>) = {}
<1>1. Cardinality({}) = 0
  BY FS_EmptySet
<1>2. <<>> \in SetToSeqs({})
  BY <1>1 DEF SetToSeqs
<1>3. ToSet(<<>>) = {}
  BY DEF ToSet
<1> QED
  BY <1>1, <1>2, <1>3 DEF RankingsUpTo

(* What is kept of a ranking is a ranking, no longer, of what was kept.      *)
LEMMA AmongIsShorter ==
  ASSUME NEW n \in Nat, NEW S \in SUBSET Chunks, NEW r \in RankingsUpTo(Chunks, n),
         NEW t \in Among(S, r)
  PROVE  /\ t \in Seq(Chunks)
         /\ ToSet(t) \subseteq S
         /\ t \in RankingsUpTo(Chunks, n)
<1>1. PICK R \in SUBSET Chunks : Cardinality(R) <= n /\ r \in SetToSeqs(R)
  BY DEF RankingsUpTo
<1> DEFINE T == ToSet(r) \cap S
<1>2. T \subseteq R /\ T \in SUBSET Chunks
  BY <1>1, RankingsAreSequences
<1>3. t \in SetToSeqs(T)
  BY DEF Among
<1>4. IsFiniteSet(R) /\ Cardinality(R) \in Nat
  BY FS_Subset, FS_CardinalityType
<1>5. Cardinality(T) <= Cardinality(R) /\ Cardinality(T) \in Nat
  BY <1>2, <1>4, FS_Subset, FS_CardinalityType
<1>6. Cardinality(T) <= n
  BY <1>1, <1>4, <1>5
<1>7. t \in RankingsUpTo(Chunks, n)
  BY <1>2, <1>3, <1>6 DEF RankingsUpTo
<1> QED
  BY <1>2, <1>3, <1>7, RankingsAreSequences

(* A chunk in both lists scores higher than a chunk in one, if no list is    *)
(* longer than k + 1.                                                        *)
LEMMA SharedScoresHigher ==
  ASSUME NEW dense \in Seq(Chunks), NEW lexical \in Seq(Chunks),
         Len(dense) <= RankConstant + 1, Len(lexical) <= RankConstant + 1,
         NEW c \in ToSet(dense) \cap ToSet(lexical),
         NEW d \in ToSet(dense) \cup ToSet(lexical),
         d \notin ToSet(dense) \cap ToSet(lexical)
  PROVE  Greater(Score(dense, lexical, c), Score(dense, lexical, d))
<1> DEFINE x == RankConstant + Position(dense, c)
           y == RankConstant + Position(lexical, c)
           z == IF d \in ToSet(dense) THEN RankConstant + Position(dense, d)
                ELSE RankConstant + Position(lexical, d)
<1>1. /\ x \in Nat \ {0} /\ x <= RankConstant + RankConstant + 1
      /\ y \in Nat \ {0} /\ y <= RankConstant + RankConstant + 1
  BY PositionIsThere
<1>2. z \in Nat \ {0} /\ z >= RankConstant + 1
  BY PositionIsThere
<1>3. Score(dense, lexical, c) = <<x + y, x * y>>
  BY DEF Score
<1>4. Score(dense, lexical, d) = <<1, z>>
  BY DEF Score
<1> HIDE DEF x, y, z
<1>5. (x + y) * z > x * y
  BY <1>1, <1>2, TwoPlacesOutweighOne
<1>6. x * y \in Nat
  BY <1>1
<1> QED
  BY <1>3, <1>4, <1>5, <1>6 DEF Greater

(* In a fusion of two such lists it therefore comes first.                   *)
LEMMA SharedComesFirst ==
  ASSUME NEW dense \in RankingsUpTo(Chunks, RankConstant + 1),
         NEW lexical \in RankingsUpTo(Chunks, RankConstant + 1),
         NEW t \in reciprocal_rank_fusion(dense, lexical),
         NEW i \in DOMAIN t, NEW j \in DOMAIN t,
         t[i] \in ToSet(dense) \cap ToSet(lexical),
         t[j] \notin ToSet(dense) \cap ToSet(lexical)
  PROVE  i < j
<1> DEFINE found == ToSet(dense) \cup ToSet(lexical)
<1>1. /\ dense \in Seq(Chunks) /\ Len(dense) <= RankConstant + 1
      /\ lexical \in Seq(Chunks) /\ Len(lexical) <= RankConstant + 1
  BY ShortRankings
<1>2. found \in SUBSET Chunks /\ t \in SetToSeqs(found)
  BY <1>1 DEF reciprocal_rank_fusion, ToSet
<1>3. t \in Seq(Chunks) /\ ToSet(t) \subseteq found
  BY <1>2, RankingsAreSequences
<1>4. t[j] \in found
  BY <1>3 DEF ToSet
<1>5. Greater(Score(dense, lexical, t[i]), Score(dense, lexical, t[j]))
  BY <1>1, <1>4, SharedScoresHigher
<1>6. ASSUME j < i PROVE FALSE
  <2>1. Precedes(dense, lexical, t[j], t[i])
    BY <1>6 DEF reciprocal_rank_fusion
  <2>2. Greater(Score(dense, lexical, t[j]), Score(dense, lexical, t[i]))
    BY <2>1, <1>5 DEF Precedes
  <2>3. /\ Score(dense, lexical, t[i])[1] \in Nat /\ Score(dense, lexical, t[i])[2] \in Nat
        /\ Score(dense, lexical, t[j])[1] \in Nat /\ Score(dense, lexical, t[j])[2] \in Nat
    <3>1. ASSUME NEW c \in found
          PROVE  Score(dense, lexical, c)[1] \in Nat /\ Score(dense, lexical, c)[2] \in Nat
      BY SMTT(40), <1>1, PositionIsThere DEF Score
    <3> QED
      BY <3>1, <1>4
  <2> QED
    BY <1>5, <2>2, <2>3 DEF Greater
<1>7. i # j
  OBVIOUS
<1>8. i \in Nat /\ j \in Nat
  BY <1>3
<1> QED
  BY <1>6, <1>7, <1>8

-----------------------------------------------------------------------------
(* The inductive invariant.                                                  *)

LEMMA IdleIsTyped == Idle \in Searches
BY DEF Idle, Searches, Strategies, ChunkLists, MarkerLists

LEMMA RetrievalInit == Init => RetrievalInv
<1> SUFFICES ASSUME Init PROVE RetrievalInv
  OBVIOUS
<1>1. TypeOK
  BY IdleIsTyped DEF Init, TypeOK
<1>2. PoolsAreRankings
  BY DEF Init, PoolsAreRankings, Hybrid, At, Idle
<1>3. FoundIsLive
  BY DEF Init, FoundIsLive, Idle, ToSet
<1> QED
  BY <1>1, <1>2, <1>3 DEF RetrievalInv

LEMMA SearchIsTyped ==
  ASSUME TypeOK
  PROVE  /\ search.hits \in Seq(Chunks) /\ search.dense \in Seq(Chunks)
         /\ search.lexical \in Seq(Chunks) /\ search.candidates \in Seq(Chunks)
         /\ search.results \in Seq(Chunks)
         /\ search.top_k \in Nat \ {0} /\ search.saw \in SUBSET Chunks
BY DEF TypeOK, Searches, ChunkLists

LEMMA PoolIsNat == TypeOK => pool \in Nat
BY DEF TypeOK, Searches, pool

LEMMA PoolIsNatLater == search' \in Searches => pool' \in Nat
BY DEF Searches, pool

(* The search's own steps leave the corpus alone, and most of them what the  *)
(* invariant says of it.                                                     *)
SearchInv == PoolsAreRankings /\ FoundIsLive

LEMMA AskStep == ASSUME RetrievalInv, ask PROVE search' \in Searches /\ SearchInv'
<1> PICK kind \in {"search", "rag"}, k \in TopKs, strategy \in Strategies, rr \in {"yes", "no"} :
      search' = [search EXCEPT !.pc = IF strategy = "bm25" THEN "fulltext" ELSE "vectors",
                               !.kind = kind, !.top_k = k, !.strategy = strategy,
                               !.rerank = rr, !.saw = rows]
  BY DEF ask
<1> USE SearchIsTyped DEF RetrievalInv, TypeOK
<1>1. search' \in Searches
  BY ZenonT(60) DEF Searches
<1>2. /\ search'.pc \in {"fulltext", "vectors"} /\ search'.saw = rows /\ rows' = rows
      /\ search'.hits = <<>> /\ search'.dense = <<>> /\ search'.lexical = <<>>
      /\ search'.candidates = <<>> /\ search'.results = <<>>
  BY DEF ask, At, PoolsAreRankings, Corpus, Searches
<1>3. pool' \in Nat
  BY <1>1, PoolIsNatLater
<1>4. PoolsAreRankings'
  BY <1>2, <1>3, NothingIsARanking DEF PoolsAreRankings, Hybrid, At
<1>5. FoundIsLive'
  BY <1>2, <1>3, NothingIsARanking DEF FoundIsLive
<1> QED
  BY <1>1, <1>4, <1>5 DEF SearchInv

LEMMA VectorSearchStep ==
  ASSUME RetrievalInv, vector_search PROVE search' \in Searches /\ SearchInv'
<1> USE SearchIsTyped DEF RetrievalInv, TypeOK
<1>0. pool \in Nat
  BY PoolIsNat
<1>1. PICK hits \in RankingsUpTo(points, pool) :
        search' = [search EXCEPT !.pc = "hydrate", !.hits = hits]
  BY DEF vector_search
<1>2. hits \in Seq(Chunks) /\ hits \in RankingsUpTo(Chunks, pool)
  BY <1>0, <1>1, ShortRankings
<1>3. search' \in Searches
  <2>1. hits \in ChunkLists
    BY <1>2 DEF ChunkLists
  <2> QED
    BY <1>1, <2>1 DEF Searches
<1>4. /\ search'.pc = "hydrate" /\ search'.hits = hits /\ search'.saw = search.saw
      /\ search'.dense = <<>> /\ search'.lexical = <<>> /\ search'.candidates = <<>>
      /\ search'.results = <<>> /\ pool' = pool /\ rows' = rows
  BY <1>1 DEF vector_search, At, PoolsAreRankings, Corpus, pool, Searches
<1>5. PoolsAreRankings'
  BY <1>0, <1>2, <1>4, NothingIsARanking DEF PoolsAreRankings, Hybrid, At
<1>6. FoundIsLive'
  BY <1>0, <1>4, NothingIsARanking DEF FoundIsLive, vector_search, At
<1> QED
  BY <1>3, <1>5, <1>6 DEF SearchInv

LEMMA HydrateStep == ASSUME RetrievalInv, hydrate PROVE search' \in Searches /\ SearchInv'
<1> USE SearchIsTyped DEF RetrievalInv, TypeOK
<1>0. pool \in Nat /\ rows \in SUBSET Chunks
  BY PoolIsNat
<1>1. PICK dense \in Hydrated :
        search' = [search EXCEPT
          !.pc = IF search.strategy = "hybrid" THEN "fulltext" ELSE "rerank",
          !.hits = <<>>, !.dense = dense,
          !.candidates = IF search.strategy = "hybrid" THEN <<>> ELSE dense]
  BY DEF hydrate
<1>2. search.hits \in RankingsUpTo(Chunks, pool) /\ search.lexical \in RankingsUpTo(Chunks, pool)
  BY DEF hydrate, At, PoolsAreRankings
<1>3. /\ dense \in Seq(Chunks) /\ ToSet(dense) \subseteq rows
      /\ dense \in RankingsUpTo(Chunks, pool)
  <2>1. dense \in Among(rows, search.hits)
    BY <1>1 DEF Hydrated
  <2> HIDE DEF RetrievalInv, TypeOK, Searches
  <2> QED
    BY <1>0, <1>2, <2>1, AmongIsShorter
<1>4. <<>> \in Seq(Chunks) /\ <<>> \in RankingsUpTo(Chunks, pool) /\ ToSet(<<>>) = {}
  BY <1>0, NothingIsARanking
<1>5. search' \in Searches
  <2>1. dense \in ChunkLists /\ <<>> \in ChunkLists
    BY <1>3, <1>4 DEF ChunkLists
  <2> QED
    BY ZenonT(60), <1>1, <2>1 DEF Searches
<1>6. /\ search'.pc \in {"fulltext", "rerank"}
      /\ search'.pc = "rerank" => search'.strategy # "hybrid"
      /\ search'.hits = <<>> /\ search'.dense = dense /\ search'.candidates \in {<<>>, dense}
      /\ search'.saw = search.saw /\ search'.lexical = search.lexical
      /\ search'.results = search.results /\ pool' = pool /\ rows' = rows
  BY <1>1 DEF hydrate, Corpus, pool, Searches
<1>7. PoolsAreRankings'
  BY <1>2, <1>3, <1>4, <1>6 DEF PoolsAreRankings, Hybrid, At
<1>8. FoundIsLive'
  BY <1>3, <1>4, <1>6 DEF FoundIsLive, hydrate, At
<1> QED
  BY <1>5, <1>7, <1>8 DEF SearchInv

LEMMA FusionHoldsWhatWasFound ==
  ASSUME NEW dense \in Seq(Chunks), NEW lexical \in Seq(Chunks),
         NEW t \in reciprocal_rank_fusion(dense, lexical)
  PROVE  t \in Seq(Chunks) /\ ToSet(t) \subseteq ToSet(dense) \cup ToSet(lexical)
<1>1. ToSet(dense) \cup ToSet(lexical) \in SUBSET Chunks
  BY DEF ToSet
<1> QED
  BY <1>1, RankingsAreSequences DEF reciprocal_rank_fusion

LEMMA FulltextStep == ASSUME RetrievalInv, search_fulltext PROVE search' \in Searches /\ SearchInv'
<1> USE SearchIsTyped DEF RetrievalInv, TypeOK
<1>0. pool \in Nat /\ rows \in SUBSET Chunks
  BY PoolIsNat
<1>1. PICK lexical \in RankingsUpTo(rows, pool) :
        \E candidates \in IF search.strategy = "hybrid"
                          THEN reciprocal_rank_fusion(search.dense, lexical) ELSE {lexical} :
          search' = [search EXCEPT !.pc = "rerank", !.lexical = lexical,
                                   !.candidates = candidates]
  BY DEF search_fulltext
<1>2. PICK candidates \in IF search.strategy = "hybrid"
                          THEN reciprocal_rank_fusion(search.dense, lexical) ELSE {lexical} :
        search' = [search EXCEPT !.pc = "rerank", !.lexical = lexical,
                                 !.candidates = candidates]
  BY <1>1
<1>3. /\ lexical \in Seq(Chunks) /\ ToSet(lexical) \subseteq rows
      /\ lexical \in RankingsUpTo(Chunks, pool)
  BY <1>0, <1>1, ShortRankings
<1>4. candidates \in Seq(Chunks) /\ ToSet(candidates) \subseteq ToSet(search.dense) \cup ToSet(lexical)
  BY <1>2, <1>3, FusionHoldsWhatWasFound
<1>5. search' \in Searches
  <2>1. lexical \in ChunkLists /\ candidates \in ChunkLists
    BY <1>3, <1>4 DEF ChunkLists
  <2> QED
    BY <1>2, <2>1 DEF Searches
<1>6. /\ search'.pc = "rerank" /\ search'.lexical = lexical /\ search'.candidates = candidates
      /\ search'.dense = search.dense /\ search'.hits = search.hits
      /\ search'.strategy = search.strategy /\ search'.saw = search.saw
      /\ search'.results = search.results /\ pool' = pool /\ rows' = rows
  BY <1>2 DEF search_fulltext, Corpus, pool, Searches
<1>7. PoolsAreRankings'
  BY <1>2, <1>3, <1>6 DEF PoolsAreRankings, Hybrid, At, search_fulltext
<1>8. FoundIsLive'
  BY <1>3, <1>4, <1>6 DEF FoundIsLive, search_fulltext, At
<1> QED
  BY <1>5, <1>7, <1>8 DEF SearchInv

LEMMA TopIsPart ==
  ASSUME NEW t \in Seq(Chunks), NEW n \in Nat
  PROVE  Top(t, n) \in Seq(Chunks) /\ ToSet(Top(t, n)) \subseteq ToSet(t)
<1> DEFINE m == IF n < Len(t) THEN n ELSE Len(t)
<1>1. m \in 0 .. Len(t) /\ Top(t, n) = SubSeq(t, 1, m)
  BY DEF Top
<1>2. \A i \in 1 .. m : t[i] \in ToSet(t) /\ t[i] \in Chunks
  BY <1>1 DEF ToSet
<1>3. SubSeq(t, 1, m) \in Seq(ToSet(t)) /\ SubSeq(t, 1, m) \in Seq(Chunks)
  BY <1>1, <1>2, SubSeqProperties
<1> QED
  BY <1>1, <1>3 DEF ToSet

LEMMA RerankStep == ASSUME RetrievalInv, rerank PROVE search' \in Searches /\ SearchInv'
<1> USE SearchIsTyped DEF RetrievalInv, TypeOK
<1>1. PICK ranked \in IF search.rerank = "yes" THEN SetToSeqs(ToSet(search.candidates))
                      ELSE {search.candidates} :
        search' = [search EXCEPT !.pc = "log", !.dense = <<>>, !.lexical = <<>>,
                                 !.candidates = <<>>, !.results = Top(ranked, search.top_k)]
  BY DEF rerank
<1>2. ToSet(search.candidates) \in SUBSET Chunks
  BY DEF ToSet
<1>3. ranked \in Seq(Chunks) /\ ToSet(ranked) \subseteq ToSet(search.candidates)
  BY <1>1, <1>2, RankingsAreSequences
<1> DEFINE results == Top(ranked, search.top_k)
<1>4. results \in Seq(Chunks) /\ ToSet(results) \subseteq ToSet(search.candidates)
  BY <1>3, TopIsPart
<1>5. <<>> \in Seq(Chunks) /\ ToSet(<<>>) = {}
  BY NothingIsARanking
<1> HIDE DEF results
<1>6. search' = [search EXCEPT !.pc = "log", !.dense = <<>>, !.lexical = <<>>,
                               !.candidates = <<>>, !.results = results]
  BY <1>1 DEF results
<1>7. search' \in Searches
  <2>1. <<>> \in ChunkLists /\ results \in ChunkLists
    BY <1>4, <1>5 DEF ChunkLists
  <2> QED
    BY <1>6, <2>1 DEF Searches
<1>8. /\ search'.pc = "log" /\ search'.dense = <<>> /\ search'.lexical = <<>>
      /\ search'.candidates = <<>> /\ search'.results = results /\ search'.saw = search.saw
      /\ rows' = rows
  BY <1>6 DEF rerank, Corpus, Searches
<1>9. PoolsAreRankings'
  BY <1>8 DEF PoolsAreRankings, Hybrid, At
<1>10. FoundIsLive'
  BY <1>4, <1>5, <1>8 DEF FoundIsLive, rerank, At
<1> QED
  BY <1>7, <1>9, <1>10 DEF SearchInv

(* The steps after the ranking change nothing the invariant speaks of.       *)
LEMMA LaterStep ==
  ASSUME RetrievalInv, add_log \/ generate \/ respond
  PROVE  search' \in Searches /\ SearchInv'
<1> USE SearchIsTyped DEF RetrievalInv, TypeOK
<1>1. ASSUME NEW answer \in Answers PROVE answer \in Seq(Nat)
  <2>1. 0 .. search.top_k + 1 \subseteq Nat
    OBVIOUS
  <2>2. answer \in UNION {[1 .. m -> 0 .. search.top_k + 1] : m \in 0 .. MaxMarkers}
    BY DEF Answers, SeqOf
  <2>3. PICK m \in 0 .. MaxMarkers : answer \in [1 .. m -> 0 .. search.top_k + 1]
    BY <2>2, ZenonT(30)
  <2>4. m \in Nat
    OBVIOUS
  <2>5. answer \in [1 .. m -> Nat]
    BY <2>1, <2>3
  <2> QED
    BY <2>4, <2>5
<1>2. search' \in Searches
  <2>1. CASE add_log
    <3>1. {search.results} \in SUBSET ChunkLists
      BY DEF ChunkLists
    <3> QED
      BY ZenonT(60), <2>1, <3>1 DEF add_log, Searches
  <2>2. CASE generate
    <3>1. PICK answer \in Answers : search' = [search EXCEPT !.pc = "respond", !.answer = answer]
      BY <2>2 DEF generate
    <3>2. answer \in MarkerLists
      BY <1>1 DEF MarkerLists
    <3> QED
      BY <3>1, <3>2 DEF Searches
  <2>3. CASE respond
    <3>1. search' = [search EXCEPT !.pc = "answered", !.flushed = {}]
      BY <2>3 DEF respond
    <3>2. {} \in SUBSET ChunkLists
      OBVIOUS
    <3> QED
      BY <3>1, <3>2 DEF Searches
  <2> QED
    BY <2>1, <2>2, <2>3
<1>3. /\ search'.pc \in {"generate", "respond", "answered"} /\ search'.saw = search.saw
      /\ search'.dense = search.dense /\ search'.lexical = search.lexical
      /\ search'.candidates = search.candidates /\ search'.results = search.results
      /\ rows' = rows
  BY ZenonT(60) DEF add_log, generate, respond, Corpus, Searches
<1>4. PoolsAreRankings'
  BY <1>3 DEF PoolsAreRankings, Hybrid, At
<1>5. FoundIsLive'
  BY <1>3 DEF FoundIsLive, add_log, generate, respond, At
<1> QED
  BY <1>2, <1>4, <1>5 DEF SearchInv

LEMMA FailStep == ASSUME RetrievalInv, fail PROVE search' \in Searches /\ SearchInv'
<1>1. search' = [Idle EXCEPT !.pc = "failed"]
  BY DEF fail
<1>2. search' \in Searches
  BY <1>1, IdleIsTyped DEF Searches
<1>3. /\ search'.pc = "failed" /\ search'.dense = <<>> /\ search'.lexical = <<>>
      /\ search'.candidates = <<>> /\ search'.results = <<>> /\ ToSet(<<>>) = {}
  BY <1>1, NothingIsARanking DEF Idle
<1>4. PoolsAreRankings'
  BY <1>3 DEF PoolsAreRankings, Hybrid, At
<1>5. FoundIsLive'
  BY <1>3 DEF FoundIsLive
<1> QED
  BY <1>2, <1>4, <1>5 DEF SearchInv

(* A run that commits adds its rows to what the search may have seen.        *)
LEMMA ReplaceStep ==
  ASSUME RetrievalInv, NEW d \in Docs, replace_rows(d)
  PROVE  RetrievalInv'
<1> PICK fresh \in SUBSET {c \in Chunks \ born : DocOf[c] = d} :
      /\ rows' = {c \in rows : DocOf[c] # d} \cup fresh
      /\ born' = born \cup fresh
      /\ search' = [search EXCEPT !.saw = @ \cup fresh]
  BY DEF replace_rows
<1> USE DEF RetrievalInv
<1>1. search' \in Searches
  BY DEF TypeOK, Searches
<1>2. /\ search'.pc = search.pc /\ search'.saw = search.saw \cup fresh
      /\ search'.hits = search.hits
      /\ search'.dense = search.dense /\ search'.lexical = search.lexical
      /\ search'.candidates = search.candidates /\ search'.results = search.results
      /\ search'.strategy = search.strategy /\ pool' = pool
  BY DEF TypeOK, Searches, pool
<1>3. TypeOK'
  BY <1>1 DEF TypeOK, replace_rows, Write
<1>4. PoolsAreRankings'
  BY <1>2 DEF PoolsAreRankings, Hybrid, At
<1>5. FoundIsLive'
  BY <1>2 DEF FoundIsLive
<1> QED
  BY <1>3, <1>4, <1>5

LEMMA RetrievalStep == ASSUME RetrievalInv, [Next]_vars PROVE RetrievalInv'
<1>1. ASSUME search' \in Searches, SearchInv', UNCHANGED <<Corpus, log>>
      PROVE  RetrievalInv'
  BY <1>1 DEF RetrievalInv, SearchInv, TypeOK, Corpus
<1>2. ASSUME UNCHANGED <<rows, search, log>>, TypeOK'
      PROVE  RetrievalInv'
  BY <1>2 DEF RetrievalInv, PoolsAreRankings, FoundIsLive, Hybrid, At, pool
<1>3. CASE ask
  BY <1>1, <1>3, AskStep DEF ask
<1>4. CASE vector_search
  BY <1>1, <1>4, VectorSearchStep DEF vector_search
<1>5. CASE hydrate
  BY <1>1, <1>5, HydrateStep DEF hydrate
<1>6. CASE search_fulltext
  BY <1>1, <1>6, FulltextStep DEF search_fulltext
<1>7. CASE rerank
  BY <1>1, <1>7, RerankStep DEF rerank
<1>8. CASE add_log \/ generate \/ respond
  BY <1>1, <1>8, LaterStep DEF add_log, generate, respond
<1>9. CASE fail
  BY <1>1, <1>9, FailStep DEF fail
<1>10. CASE \E d \in Docs : replace_rows(d)
  BY <1>10, ReplaceStep
<1>11. CASE \E d \in Docs : upsert(d) \/ delete_by_document(d)
  <2>1. TypeOK' /\ UNCHANGED <<rows, search, log>>
    BY <1>11 DEF upsert, delete_by_document, Write, RetrievalInv, TypeOK
  <2> QED
    BY <1>2, <2>1
<1>12. CASE UNCHANGED vars
  BY <1>2, <1>12 DEF vars, RetrievalInv, TypeOK
<1> QED
  BY <1>3, <1>4, <1>5, <1>6, <1>7, <1>8, <1>9, <1>10, <1>11, <1>12 DEF Next

(* Search state, rankings and sightings keep their meaning in every run.     *)
THEOREM RetrievalInvariance == Spec => []RetrievalInv
<1>1. Init => RetrievalInv
  BY RetrievalInit
<1>2. RetrievalInv /\ [Next]_vars => RetrievalInv'
  BY RetrievalStep
<1> QED
  BY <1>1, <1>2, PTL DEF Spec

(* Whatever is indexed, replaced or deleted meanwhile, a search returns only *)
(* chunks whose row was committed while it ran.                              *)
THEOREM SearchesReturnLiveChunks == Spec => []ResultsWereLive
<1>1. RetrievalInv => ResultsWereLive
  BY DEF RetrievalInv, FoundIsLive, ResultsWereLive
<1> QED
  BY <1>1, RetrievalInvariance, PTL

(* For every constant of the fusion and every pool up to that constant and   *)
(* one, what both retrievers found comes first.                              *)
THEOREM SharedChunksComeFirst == Spec => []SharedOutranks
<1>1. RetrievalInv => SharedOutranks
  <2> SUFFICES ASSUME RetrievalInv, Hybrid, pool <= RankConstant + 1,
                      NEW i \in DOMAIN search.candidates, NEW j \in DOMAIN search.candidates,
                      search.candidates[i] \in Shared, search.candidates[j] \notin Shared
               PROVE  i < j
    BY DEF SharedOutranks
  <2>1. /\ search.dense \in RankingsUpTo(Chunks, pool)
        /\ search.lexical \in RankingsUpTo(Chunks, pool)
        /\ search.candidates \in reciprocal_rank_fusion(search.dense, search.lexical)
    BY DEF RetrievalInv, PoolsAreRankings, Hybrid, At
  <2>2. pool \in Nat
    BY PoolIsNat DEF RetrievalInv
  <2>3. \A T \in SUBSET Chunks : Cardinality(T) \in Nat
    BY FS_Subset, FS_CardinalityType
  <2>4. RankingsUpTo(Chunks, pool) \subseteq RankingsUpTo(Chunks, RankConstant + 1)
    BY <2>2, <2>3 DEF RankingsUpTo
  <2> QED
    BY <2>1, <2>4, SharedComesFirst DEF Shared
<1> QED
  BY <1>1, RetrievalInvariance, PTL

-----------------------------------------------------------------------------
(* The size of a list is the sum of the tokens of its chunks.               *)

(* The sizes of the first 0 to Len(chunks) chunks.                          *)
IsSizing(it, chunks) ==
  /\ it \in [0 .. Len(chunks) -> Nat]
  /\ it[0] = 0
  /\ \A m \in 1 .. Len(chunks) : it[m] = it[m - 1] + Tokens[chunks[m]]
  /\ Size(chunks) = it[Len(chunks)]

LEMMA SizeRuns ==
  ASSUME NEW chunks \in Seq(Chunks)
  PROVE  \E it : IsSizing(it, chunks)
<1> DEFINE n == Len(chunks)
           G == [p \in (1 .. n) \X Nat |-> p[2] + Tokens[chunks[p[1]]]]
           Rec(f) == f = [s \in SUBSET (1 .. n) |->
                            IF s = {} THEN 0 ELSE f[s \ {Max(s)}] + Tokens[chunks[Max(s)]]]
           iter == CHOOSE f : Rec(f)
<1>1. n \in Nat /\ DOMAIN chunks = 1 .. n
  OBVIOUS
<1>2. G \in [(1 .. n) \X Nat -> Nat]
  <2>1. ASSUME NEW p \in (1 .. n) \X Nat PROVE p[2] + Tokens[chunks[p[1]]] \in Nat
    <3>1. chunks[p[1]] \in Chunks /\ p[2] \in Nat
      OBVIOUS
    <3>2. Tokens[chunks[p[1]]] \in Nat
      BY <3>1
    <3> QED
      BY <3>1, <3>2
  <2> QED
    BY <2>1
<1>3. \A m \in 1 .. n, t \in Nat : G[<<m, t>>] = t + Tokens[chunks[m]]
  OBVIOUS
<1>4. Size(chunks) = iter[1 .. n]
  BY <1>1 DEF Size, FoldLeft, MapThenFoldSet
<1> HIDE DEF G, n
<1>5. PICK f : IsLeftFold(f, n, Nat, 0, G)
  BY <1>1, <1>2, FoldLeftIsDefined
<1>6. Rec(f)
  <2>1. ASSUME NEW s \in SUBSET (1 .. n), s # {}
        PROVE  f[s] = f[s \ {Max(s)}] + Tokens[chunks[Max(s)]]
    <3>1. Max(s) \in 1 .. n
      BY <1>1, <2>1, MaxIsThere
    <3>2. s \ {Max(s)} \in SUBSET (1 .. n) /\ f[s \ {Max(s)}] \in Nat
      BY <1>5 DEF IsLeftFold
    <3> QED
      BY <1>3, <1>5, <2>1, <3>1, <3>2 DEF IsLeftFold
  <2>2. f = [s \in SUBSET (1 .. n) |-> f[s]]
    BY <1>5 DEF IsLeftFold
  <2> QED
    BY <1>5, <2>1, <2>2 DEF IsLeftFold
<1>7. Rec(iter)
  BY <1>6
<1> HIDE DEF iter
<1>8. iter[{}] = 0
  BY <1>7
<1>9. ASSUME NEW s \in SUBSET (1 .. n), s # {}, iter[s \ {Max(s)}] \in Nat
      PROVE  iter[s] = G[<<Max(s), iter[s \ {Max(s)}]>>]
  <2>1. Max(s) \in 1 .. n
    BY <1>1, <1>9, MaxIsThere
  <2>2. iter[s] = iter[s \ {Max(s)}] + Tokens[chunks[Max(s)]]
    BY <1>7, <1>9
  <2> QED
    BY <1>3, <1>9, <2>1, <2>2
<1>10. PICK it : IsRun(it, iter, n, Nat, 0, G)
  <2>1. FoldsBy(iter, n, Nat, 0, G)
    BY <1>1, <1>2, <1>8, <1>9 DEF FoldsBy
  <2> QED
    BY <2>1, FoldRuns
<1>11. ASSUME NEW m \in 1 .. n PROVE it[m] = it[m - 1] + Tokens[chunks[m]]
  <2>1. it[m - 1] \in Nat
    BY <1>1, <1>10 DEF IsRun
  <2> QED
    BY <1>3, <1>10, <2>1 DEF IsRun
<1>12. it \in [0 .. n -> Nat] /\ it[0] = 0 /\ it[n] = iter[1 .. n]
  BY <1>10 DEF IsRun
<1>13. IsSizing(it, chunks)
  BY <1>4, <1>11, <1>12 DEF n, IsSizing
<1> QED
  BY <1>13

LEMMA SizeOfMore ==
  ASSUME NEW chunks \in Seq(Chunks), NEW c \in Chunks
  PROVE  /\ Size(chunks) \in Nat
         /\ Size(Append(chunks, c)) = Size(chunks) + Tokens[c]
<1> DEFINE n == Len(chunks)
           more == Append(chunks, c)
<1>1. /\ more \in Seq(Chunks)
      /\ Len(more) = n + 1
      /\ n \in Nat
      /\ more[n + 1] = c
      /\ \A i \in 1 .. n : more[i] = chunks[i]
  OBVIOUS
<1> HIDE DEF more
<1>2. PICK it : IsSizing(it, chunks)
  BY SizeRuns
<1>3. PICK jt : IsSizing(jt, more)
  BY <1>1, SizeRuns
<1> DEFINE K == {m \in Nat : m <= n => jt[m] = it[m]}
<1>4. 0 \in K
  BY <1>2, <1>3 DEF IsSizing
<1>5. ASSUME NEW m \in Nat, m \in K PROVE m + 1 \in K
  <2>1. SUFFICES ASSUME m + 1 <= n PROVE jt[m + 1] = it[m + 1]
    OBVIOUS
  <2>2. m + 1 \in 1 .. n /\ m + 1 \in 1 .. n + 1 /\ (m + 1) - 1 = m /\ jt[m] = it[m]
    BY <1>1, <1>5, <2>1
  <2> QED
    BY SMTT(40), <1>1, <1>2, <1>3, <2>2 DEF IsSizing
<1>6. n \in K
  <2> HIDE DEF K
  <2>1. Nat \subseteq K
    BY <1>4, <1>5, SetInduction
  <2> QED
    BY <1>1, <2>1
<1>7. jt[n + 1] = jt[n] + Tokens[more[n + 1]]
  <2>1. n + 1 \in 1 .. n + 1 /\ (n + 1) - 1 = n
    BY <1>1
  <2> QED
    BY <1>1, <1>3, <2>1 DEF IsSizing
<1>8. Size(chunks) = it[n] /\ it[n] \in Nat
  BY <1>1, <1>2 DEF IsSizing
<1> QED
  BY <1>1, <1>3, <1>6, <1>7, <1>8 DEF IsSizing, more

-----------------------------------------------------------------------------
(* What is packed, chunk after chunk.                                       *)

Packed == [kept : Seq(Chunks), full : BOOLEAN]

Unpacked == [kept |-> <<>>, full |-> FALSE]

IsPacking(it, chunks) ==
  /\ it \in [0 .. Len(chunks) -> Packed]
  /\ it[0] = Unpacked
  /\ \A m \in 1 .. Len(chunks) : it[m] = Pack(it[m - 1], chunks[m])
  /\ compress(chunks) = it[Len(chunks)].kept

LEMMA PackIsTyped ==
  ASSUME NEW acc \in Packed, NEW c \in Chunks
  PROVE  Pack(acc, c) \in Packed
<1>1. \A k \in Seq(Chunks) : [acc EXCEPT !.kept = k] \in Packed
  BY DEF Packed
<1>2. [acc EXCEPT !.full = TRUE] \in Packed
  BY DEF Packed
<1>3. Append(acc.kept, c) \in Seq(Chunks)
  BY DEF Packed
<1>4. [acc EXCEPT !.kept = Append(@, c)] = [acc EXCEPT !.kept = Append(acc.kept, c)]
  OBVIOUS
<1> QED
  BY <1>1, <1>2, <1>3, <1>4 DEF Pack

LEMMA PackRuns ==
  ASSUME NEW chunks \in Seq(Chunks)
  PROVE  \E it : IsPacking(it, chunks)
<1> DEFINE n == Len(chunks)
           G == [p \in (1 .. n) \X Packed |-> Pack(p[2], chunks[p[1]])]
           Rec(f) == f = [s \in SUBSET (1 .. n) |->
                            IF s = {} THEN Unpacked ELSE Pack(f[s \ {Max(s)}], chunks[Max(s)])]
           iter == CHOOSE f : Rec(f)
<1>1. n \in Nat /\ DOMAIN chunks = 1 .. n /\ Unpacked \in Packed
  BY DEF Unpacked, Packed
<1>2. G \in [(1 .. n) \X Packed -> Packed]
  <2>1. ASSUME NEW p \in (1 .. n) \X Packed PROVE Pack(p[2], chunks[p[1]]) \in Packed
    <3>1. chunks[p[1]] \in Chunks /\ p[2] \in Packed
      OBVIOUS
    <3> QED
      BY <3>1, PackIsTyped
  <2> QED
    BY <2>1
<1>3. \A m \in 1 .. n, t \in Packed : G[<<m, t>>] = Pack(t, chunks[m])
  OBVIOUS
<1>4. compress(chunks) = iter[1 .. n].kept
  BY <1>1 DEF compress, FoldLeft, MapThenFoldSet, Unpacked
<1> HIDE DEF G, n
<1>5. PICK f : IsLeftFold(f, n, Packed, Unpacked, G)
  BY <1>1, <1>2, FoldLeftIsDefined
<1>6. Rec(f)
  <2>1. ASSUME NEW s \in SUBSET (1 .. n), s # {}
        PROVE  f[s] = Pack(f[s \ {Max(s)}], chunks[Max(s)])
    <3>1. Max(s) \in 1 .. n
      BY <1>1, <2>1, MaxIsThere
    <3>2. s \ {Max(s)} \in SUBSET (1 .. n) /\ f[s \ {Max(s)}] \in Packed
      BY <1>5 DEF IsLeftFold
    <3> QED
      BY <1>3, <1>5, <2>1, <3>1, <3>2 DEF IsLeftFold
  <2>2. f = [s \in SUBSET (1 .. n) |-> f[s]]
    BY <1>5 DEF IsLeftFold
  <2> QED
    BY <1>5, <2>1, <2>2 DEF IsLeftFold
<1>7. Rec(iter)
  BY <1>6
<1> HIDE DEF iter
<1>8. iter[{}] = Unpacked
  BY <1>7
<1>9. ASSUME NEW s \in SUBSET (1 .. n), s # {}, iter[s \ {Max(s)}] \in Packed
      PROVE  iter[s] = G[<<Max(s), iter[s \ {Max(s)}]>>]
  <2>1. Max(s) \in 1 .. n
    BY <1>1, <1>9, MaxIsThere
  <2>2. iter[s] = Pack(iter[s \ {Max(s)}], chunks[Max(s)])
    BY <1>7, <1>9
  <2> QED
    BY <1>3, <1>9, <2>1, <2>2
<1>10. PICK it : IsRun(it, iter, n, Packed, Unpacked, G)
  <2>1. FoldsBy(iter, n, Packed, Unpacked, G)
    BY <1>1, <1>2, <1>8, <1>9 DEF FoldsBy
  <2> QED
    BY <2>1, FoldRuns
<1>11. ASSUME NEW m \in 1 .. n PROVE it[m] = Pack(it[m - 1], chunks[m])
  <2>1. it[m - 1] \in Packed
    BY <1>1, <1>10 DEF IsRun
  <2> QED
    BY <1>3, <1>10, <2>1 DEF IsRun
<1>12. it \in [0 .. n -> Packed] /\ it[0] = Unpacked /\ it[n] = iter[1 .. n]
  BY <1>10 DEF IsRun
<1>13. IsPacking(it, chunks)
  BY <1>4, <1>11, <1>12 DEF n, IsPacking
<1> QED
  BY <1>13

LEMMA ContextIsTyped ==
  ASSUME NEW chunks \in Seq(Chunks)
  PROVE  compress(chunks) \in Seq(Chunks)
<1>1. PICK it : IsPacking(it, chunks)
  BY PackRuns
<1>2. it[Len(chunks)] \in Packed
  BY <1>1 DEF IsPacking
<1> QED
  BY <1>1, <1>2 DEF IsPacking, Packed

(* Whatever the answer brackets, a citation stands for the chunk the prompt *)
(* showed under its number, and no number is cited twice.                   *)
THEOREM CitationsAreTraceable == Spec => []CitationsResolve
<1>1. ASSUME TypeOK PROVE CitationsResolve
  <2>1. search.results \in Seq(Chunks) /\ search.answer \in Seq(Int)
    BY <1>1 DEF TypeOK, Searches, ChunkLists, MarkerLists
  <2>2. Context \in Seq(Chunks)
    BY <2>1, ContextIsTyped DEF Context
  <2>3. Resolved(Citations, Context) /\ CitedOnce(Citations)
    BY <2>1, <2>2, CitationsOnce DEF Citations
  <2> QED
    BY <2>3 DEF CitationsResolve, Resolved, CitedOnce
<1> QED
  BY <1>1, RetrievalInvariance, PTL DEF RetrievalInv

-----------------------------------------------------------------------------
(* Packing takes the best that fits.                                        *)

(* After m chunks of the ranking, the context is selected up to a place:    *)
(* the m-th, or the last before the first that did not fit.                 *)
PackedAt(kept, full, ranking, m, cut) ==
  /\ \E at \in [DOMAIN kept -> 1 .. cut] : Selects(at, kept, ranking, cut)
  /\ \A j \in 1 .. cut : TextOfChunk[ranking[j]] \in Texts(kept)
  /\ Len(kept) > 1 => Size(kept) <= MaxContextTokens
  /\ ~full => cut = m
  /\ full =>
       /\ cut < m
       /\ kept # <<>>
       /\ cut + 1 \in FirstOccurrences(ranking)
       /\ Size(kept) + Tokens[ranking[cut + 1]] > MaxContextTokens

PackedUpto(acc, ranking, m) ==
  \E cut \in 0 .. m : PackedAt(acc.kept, acc.full, ranking, m, cut)

(* A chunk is a first occurrence when its text is not among those kept.     *)
LEMMA NewTextIsFirst ==
  ASSUME NEW ranking \in Seq(Chunks), NEW m \in Nat, m + 1 \in DOMAIN ranking,
         NEW kept \in Seq(Chunks), NEW at \in [DOMAIN kept -> 1 .. m],
         Selects(at, kept, ranking, m),
         \A j \in 1 .. m : TextOfChunk[ranking[j]] \in Texts(kept)
  PROVE  m + 1 \in FirstOccurrences(ranking) <=> TextOfChunk[ranking[m + 1]] \notin Texts(kept)
<1>1. m + 1 - 1 = m
  OBVIOUS
<1>2. ASSUME TextOfChunk[ranking[m + 1]] \in Texts(kept)
      PROVE  m + 1 \notin FirstOccurrences(ranking)
  <2>1. PICK i \in DOMAIN kept : TextOfChunk[kept[i]] = TextOfChunk[ranking[m + 1]]
    BY <1>2 DEF Texts
  <2>2. at[i] \in 1 .. m /\ kept[i] = ranking[at[i]]
    BY DEF Selects
  <2> QED
    BY <1>1, <2>1, <2>2 DEF FirstOccurrences
<1>3. ASSUME TextOfChunk[ranking[m + 1]] \notin Texts(kept)
      PROVE  m + 1 \in FirstOccurrences(ranking)
  BY <1>1, <1>3 DEF FirstOccurrences
<1> QED
  BY <1>2, <1>3

LEMMA OneMoreKept ==
  ASSUME NEW ranking \in Seq(Chunks), NEW m \in Nat, m + 1 \in FirstOccurrences(ranking),
         NEW kept \in Seq(Chunks), NEW at \in [DOMAIN kept -> 1 .. m],
         Selects(at, kept, ranking, m)
  PROVE  LET more == Append(kept, ranking[m + 1]) IN
         \E bt \in [DOMAIN more -> 1 .. m + 1] : Selects(bt, more, ranking, m + 1)
<1> DEFINE k == Len(kept)
           more == Append(kept, ranking[m + 1])
           bt == [i \in 1 .. k + 1 |-> IF i = k + 1 THEN m + 1 ELSE at[i]]
<1>1. /\ k \in Nat
      /\ DOMAIN kept = 1 .. k
      /\ ranking[m + 1] \in Chunks
      /\ DOMAIN more = 1 .. k + 1
      /\ more[k + 1] = ranking[m + 1]
      /\ \A i \in 1 .. k : more[i] = kept[i]
  BY DEF FirstOccurrences
<1> HIDE DEF more, k
<1>2. /\ bt[k + 1] = m + 1
      /\ \A i \in 1 .. k : bt[i] = at[i] /\ at[i] \in 1 .. m
  BY <1>1
<1>3. bt \in [1 .. k + 1 -> 1 .. m + 1]
  <2>1. ASSUME NEW i \in 1 .. k + 1 PROVE (IF i = k + 1 THEN m + 1 ELSE at[i]) \in 1 .. m + 1
    BY <1>1
  <2> QED
    BY <2>1
<1> HIDE DEF bt
<1>4. {bt[i] : i \in 1 .. k + 1} = {at[i] : i \in 1 .. k} \cup {m + 1}
  <2>1. 1 .. k + 1 = (1 .. k) \cup {k + 1}
    BY <1>1
  <2> QED
    BY ZenonT(60), <1>2, <2>1
<1>5. FirstOccurrences(ranking) \cap 1 .. m + 1 = (FirstOccurrences(ranking) \cap 1 .. m) \cup {m + 1}
  <2>1. 1 .. m + 1 = (1 .. m) \cup {m + 1}
    OBVIOUS
  <2> QED
    BY <2>1
<1>6. {bt[i] : i \in DOMAIN more} = FirstOccurrences(ranking) \cap 1 .. m + 1
  BY <1>1, <1>4, <1>5 DEF Selects
<1>7. \A i, j \in DOMAIN more : i < j => bt[i] < bt[j]
  <2>1. \A i, j \in 1 .. k : i < j => bt[i] < bt[j]
    BY <1>1, <1>2 DEF Selects
  <2>2. \A i \in 1 .. k : bt[i] < m + 1
    BY <1>2
  <2>3. ASSUME NEW i \in 1 .. k + 1, NEW j \in 1 .. k + 1, i < j PROVE bt[i] < bt[j]
    <3>1. i \in 1 .. k
      BY <1>1, <2>3
    <3>2. CASE j = k + 1
      BY <1>2, <2>2, <3>1, <3>2
    <3>3. CASE j # k + 1
      <4>1. j \in 1 .. k
        BY <1>1, <3>3
      <4> QED
        BY <2>1, <2>3, <3>1, <4>1
    <3> QED
      BY <3>2, <3>3
  <2> QED
    BY <1>1, <2>3
<1>8. \A i \in DOMAIN more : more[i] = ranking[bt[i]]
  BY <1>1, <1>2 DEF Selects
<1>9. Selects(bt, more, ranking, m + 1)
  BY <1>6, <1>7, <1>8 DEF Selects
<1> QED
  BY <1>1, <1>3, <1>9 DEF more

LEMMA PackKeepsBest ==
  ASSUME NEW ranking \in Seq(Chunks), NEW m \in Nat, m + 1 \in DOMAIN ranking,
         NEW acc \in Packed, PackedUpto(acc, ranking, m)
  PROVE  PackedUpto(Pack(acc, ranking[m + 1]), ranking, m + 1)
<1> DEFINE c == ranking[m + 1]
           new == Pack(acc, c)
<1>1. PICK cut \in 0 .. m : PackedAt(acc.kept, acc.full, ranking, m, cut)
  BY DEF PackedUpto
<1>2. PICK at \in [DOMAIN acc.kept -> 1 .. cut] : Selects(at, acc.kept, ranking, cut)
  BY <1>1 DEF PackedAt
<1>3. acc.kept \in Seq(Chunks) /\ acc.full \in BOOLEAN /\ c \in Chunks
  BY DEF Packed
<1>4. CASE acc.full
  <2>1. new = acc
    BY <1>4 DEF Pack
  <2>2. cut \in 0 .. m + 1 /\ cut < m + 1
    BY <1>1, <1>4
  <2>3. PackedAt(acc.kept, acc.full, ranking, m + 1, cut)
    BY <1>1, <1>4, <2>2 DEF PackedAt
  <2> QED
    BY <2>1, <2>2, <2>3 DEF PackedUpto
<1>5. CASE ~acc.full
  <2>1. cut = m /\ (\A j \in 1 .. m : TextOfChunk[ranking[j]] \in Texts(acc.kept))
    BY <1>1, <1>5 DEF PackedAt
  <2>2. m + 1 \in FirstOccurrences(ranking) <=> TextOfChunk[c] \notin Texts(acc.kept)
    BY <1>2, <1>3, <2>1, NewTextIsFirst
  <2>3. 1 .. m + 1 = (1 .. m) \cup {m + 1}
    OBVIOUS
  <2>4. CASE TextOfChunk[c] \in Texts(acc.kept)
    <3>1. new = acc
      BY <2>4 DEF Pack
    <3>2. at \in [DOMAIN acc.kept -> 1 .. m + 1]
      BY <2>1
    <3>3. FirstOccurrences(ranking) \cap 1 .. m + 1 = FirstOccurrences(ranking) \cap 1 .. m
      BY <2>2, <2>3, <2>4
    <3>4. Selects(at, acc.kept, ranking, m + 1)
      BY <1>2, <2>1, <3>3 DEF Selects
    <3>5. \A j \in 1 .. m + 1 : TextOfChunk[ranking[j]] \in Texts(acc.kept)
      BY <2>1, <2>3, <2>4
    <3>6. m + 1 \in 0 .. m + 1
      OBVIOUS
    <3>7. PackedAt(acc.kept, acc.full, ranking, m + 1, m + 1)
      BY <1>1, <1>5, <3>2, <3>4, <3>5 DEF PackedAt
    <3> QED
      BY <3>1, <3>6, <3>7 DEF PackedUpto
  <2>5. CASE /\ TextOfChunk[c] \notin Texts(acc.kept)
             /\ Size(acc.kept) + Tokens[c] > MaxContextTokens
             /\ acc.kept # <<>>
    <3>1. new = [acc EXCEPT !.full = TRUE]
      BY <1>5, <2>5 DEF Pack
    <3>2. new.kept = acc.kept /\ new.full
      BY <3>1 DEF Packed
    <3>3. cut \in 0 .. m + 1 /\ cut < m + 1
      OBVIOUS
    <3>4. PackedAt(acc.kept, TRUE, ranking, m + 1, cut)
      BY <1>1, <2>1, <2>2, <2>5, <3>3 DEF PackedAt
    <3>5. PackedAt(new.kept, new.full, ranking, m + 1, cut)
      BY <3>2, <3>4 DEF PackedAt
    <3> HIDE DEF new
    <3>6. PackedUpto(new, ranking, m + 1)
      BY <3>3, <3>5 DEF PackedUpto
    <3> QED
      BY <3>6 DEF new
  <2>6. CASE /\ TextOfChunk[c] \notin Texts(acc.kept)
             /\ ~(Size(acc.kept) + Tokens[c] > MaxContextTokens /\ acc.kept # <<>>)
    <3> DEFINE more == Append(acc.kept, c)
    <3>1. new = [acc EXCEPT !.kept = Append(@, c)]
      BY <1>5, <2>6 DEF Pack
    <3>2. new.kept = more /\ new.full = acc.full
      BY <3>1 DEF Packed
    <3>3. \E bt \in [DOMAIN more -> 1 .. m + 1] : Selects(bt, more, ranking, m + 1)
      BY <1>2, <1>3, <2>1, <2>2, <2>6, OneMoreKept
    <3>4. /\ Len(acc.kept) \in Nat
          /\ DOMAIN more = 1 .. Len(acc.kept) + 1
          /\ DOMAIN acc.kept = 1 .. Len(acc.kept)
          /\ Len(more) = Len(acc.kept) + 1
          /\ more[Len(acc.kept) + 1] = c
          /\ \A i \in DOMAIN acc.kept : more[i] = acc.kept[i]
          /\ acc.kept = <<>> => Len(acc.kept) = 0
      BY <1>3
    <3>5. Size(more) = Size(acc.kept) + Tokens[c] /\ Size(acc.kept) \in Nat /\ Tokens[c] \in Nat
      BY <1>3, SizeOfMore
    <3> HIDE DEF more, new, c
    <3>6. Len(more) > 1 => Size(more) <= MaxContextTokens
      BY <2>6, <3>4, <3>5
    <3>7. TextOfChunk[c] \in Texts(more) /\ Texts(acc.kept) \subseteq Texts(more)
      <4>1. \A i \in 1 .. Len(acc.kept) : i \in 1 .. Len(acc.kept) + 1
        BY <3>4
      <4>2. Len(acc.kept) + 1 \in 1 .. Len(acc.kept) + 1
        BY <3>4
      <4>3. TextOfChunk[c] \in Texts(more)
        BY <3>4, <4>2 DEF Texts
      <4>4. ASSUME NEW i \in DOMAIN acc.kept PROVE TextOfChunk[acc.kept[i]] \in Texts(more)
        <5>1. i \in DOMAIN more /\ more[i] = acc.kept[i]
          BY <3>4, <4>1
        <5> QED
          BY <5>1 DEF Texts
      <4> QED
        BY <4>3, <4>4 DEF Texts
    <3>8. \A j \in 1 .. m + 1 : TextOfChunk[ranking[j]] \in Texts(more)
      BY <2>1, <2>3, <3>7 DEF c
    <3>9. m + 1 \in 0 .. m + 1
      OBVIOUS
    <3>10. PackedAt(more, acc.full, ranking, m + 1, m + 1)
      BY <1>5, <3>3, <3>6, <3>8 DEF PackedAt
    <3>11. PackedUpto(new, ranking, m + 1)
      BY <3>2, <3>9, <3>10 DEF PackedUpto
    <3> QED
      BY <3>11 DEF new, c
  <2> QED
    BY <2>4, <2>5, <2>6
<1> QED
  BY <1>3, <1>4, <1>5

LEMMA CompressPacksBest ==
  ASSUME NEW ranking \in Seq(Chunks)
  PROVE  PacksBest(compress(ranking), ranking)
<1> DEFINE n == Len(ranking)
<1>1. PICK it : IsPacking(it, ranking)
  BY PackRuns
<1>2. n \in Nat /\ DOMAIN ranking = 1 .. n
  OBVIOUS
<1> DEFINE K == {m \in Nat : m <= n => PackedUpto(it[m], ranking, m)}
<1>3. 0 \in K
  <2>1. it[0].kept = <<>> /\ it[0].full = FALSE
    BY <1>1 DEF IsPacking, Unpacked
  <2>2. FirstOccurrences(ranking) \cap 1 .. 0 = {}
    OBVIOUS
  <2>3. Selects(<<>>, <<>>, ranking, 0)
    BY <2>2 DEF Selects
  <2>4. <<>> \in [DOMAIN <<>> -> 1 .. 0]
    OBVIOUS
  <2>5. Len(<<>>) = 0 /\ 1 .. 0 = {} /\ 0 \in 0 .. 0
    OBVIOUS
  <2>6. PackedAt(<<>>, FALSE, ranking, 0, 0)
    <3>1. \E at \in [DOMAIN <<>> -> 1 .. 0] : Selects(at, <<>>, ranking, 0)
      BY <2>3, <2>4, Zenon
    <3>2. \A j \in 1 .. 0 : TextOfChunk[ranking[j]] \in Texts(<<>>)
      BY <2>5
    <3>3. ~(Len(<<>>) > 1)
      BY <2>5
    <3> QED
      BY <3>1, <3>2, <3>3, Zenon DEF PackedAt
  <2> QED
    BY <2>1, <2>5, <2>6 DEF PackedUpto
<1>4. ASSUME NEW m \in Nat, m \in K PROVE m + 1 \in K
  <2>1. SUFFICES ASSUME m + 1 <= n PROVE PackedUpto(it[m + 1], ranking, m + 1)
    OBVIOUS
  <2>2. m <= n /\ m \in 0 .. n /\ m + 1 \in 1 .. n /\ (m + 1) - 1 = m
    BY <1>2, <2>1
  <2>3. it[m + 1] = Pack(it[m], ranking[m + 1]) /\ it[m] \in Packed
    BY <1>1, <2>2 DEF IsPacking
  <2>4. PackedUpto(it[m], ranking, m)
    BY <1>4, <2>2
  <2> QED
    BY <1>2, <2>2, <2>3, <2>4, PackKeepsBest
<1>5. n \in K
  <2> HIDE DEF K
  <2>1. Nat \subseteq K
    BY <1>3, <1>4, SetInduction
  <2> QED
    BY <1>2, <2>1
<1>6. compress(ranking) = it[n].kept /\ it[n] \in Packed
  BY <1>1, <1>2 DEF IsPacking
<1>7. PackedUpto(it[n], ranking, n)
  BY <1>2, <1>5
<1>8. it[n].full \in BOOLEAN
  BY <1>6 DEF Packed
<1>9. PacksBest(it[n].kept, ranking)
  <2>1. PICK cut \in 0 .. n : PackedAt(it[n].kept, it[n].full, ranking, n, cut)
    BY <1>7 DEF PackedUpto
  <2>2. cut < n => it[n].full
    <3>1. ~it[n].full => cut = n
      BY <2>1, Zenon DEF PackedAt
    <3> HIDE DEF n
    <3> QED
      BY <1>2, <3>1
  <2> DEFINE kept == it[n].kept
  <2>3. /\ \E at \in [DOMAIN kept -> 1 .. cut] : Selects(at, kept, ranking, cut)
        /\ Len(kept) > 1 => Size(kept) <= MaxContextTokens
        /\ cut < n =>
             /\ kept # <<>>
             /\ cut + 1 \in FirstOccurrences(ranking)
             /\ Size(kept) + Tokens[ranking[cut + 1]] > MaxContextTokens
    BY <2>1, <2>2, Zenon DEF PackedAt
  <2> HIDE DEF kept
  <2>4. PacksBest(kept, ranking)
    BY <2>1, <2>3, Zenon DEF PacksBest
  <2> QED
    BY <2>4 DEF kept
<1> QED
  BY <1>6, <1>9

(* The prompt holds the longest run of best distinct texts that fits the    *)
(* budget, and the best text whatever its size.                             *)
THEOREM ContextsAreBest == Spec => []ContextIsBest
<1>1. TypeOK => ContextIsBest
  BY CompressPacksBest DEF TypeOK, Searches, ChunkLists, ContextIsBest, Context
<1> QED
  BY <1>1, RetrievalInvariance, PTL DEF RetrievalInv
=============================================================================
