--------------------------- MODULE Studies_proofs ---------------------------
(***************************************************************************)
(* Proofs about the two programs that study the corpus: the research agent *)
(* and the evaluation of the model on golden datasets.                     *)
(***************************************************************************)
EXTENDS ResearchAgent, Evaluation, Folding_proofs

-----------------------------------------------------------------------------
(* The inductive invariant of the agent.                                    *)

(* Each chunk found, once, as the best of its hits.                         *)
KeepsBest(merged, hits) ==
  /\ merged \in Seq(Hit)
  /\ \A i, j \in DOMAIN merged : merged[i].chunk = merged[j].chunk => i = j
  /\ ToSet(merged) \subseteq hits
  /\ \A h \in hits : \E i \in DOMAIN merged :
       merged[i].chunk = h.chunk /\ h.score <= merged[i].score

Judged == state.pc \in {"add_run", "add_steps", "commit", "done"}

AgentTypeOK ==
  /\ state \in [pc        : {"plan", "search", "summarize", "verify", "add_run", "add_steps",
                             "commit", "done", "failed"},
                questions : Nat,
                left      : Nat,
                merged    : Seq(Hit),
                context   : Seq(Hit),
                prompt    : Seq(Chunks),
                answer    : Seq(Int),
                refuses   : BOOLEAN,
                citations : Seq([marker : Int, chunk : Chunks]),
                verified  : BOOLEAN,
                attempts  : {0, 1},
                steps     : Seq({"plan", "retrieve", "summarize", "verify"})]
  /\ seen \subseteq Hit

(* The hits of the attempt are merged, and what is merged for one attempt   *)
(* is not there for the next.                                               *)
SearchInv ==
  /\ At("search") => KeepsBest(state.merged, seen)
  /\ At("plan") => seen = {} /\ state.attempts = 0
  /\ ~At("search") /\ ~At("failed") => state.merged = <<>>
  /\ ContextIsBestFound

(* What is judged is the answer written from the context.                   *)
GroundedInv ==
  /\ At("verify") => state.prompt = ChunksOf(state.context)
  /\ Judged => /\ state.citations = build_citations(state.answer, state.prompt)
               /\ state.verified => state.citations # <<>>
               /\ ~state.verified => state.attempts = 1

(* The steps of an attempt that are behind it.                              *)
Done ==
  CASE At("plan") \/ At("search") -> <<>>
    [] At("summarize") -> <<"retrieve">>
    [] At("verify") -> <<"retrieve", "summarize">>
    [] OTHER -> Attempt

Numbered(steps) == {<<i, steps[i]>> : i \in DOMAIN steps}

(* The steps are those of the attempts so far, and rows are written once    *)
(* they are all there.                                                      *)
TimelineInv ==
  /\ ~At("failed") =>
       state.steps = (IF At("plan") THEN <<>> ELSE <<"plan">>)
                       \o (IF state.attempts = 0 THEN <<>> ELSE Attempt) \o Done
  /\ tx = [runs  |-> IF state.pc \in {"add_steps", "commit"} THEN {Row} ELSE {},
           steps |-> IF At("commit") THEN Numbered(state.steps) ELSE {}]
  /\ db = [runs  |-> IF At("done") THEN {Row} ELSE {},
           steps |-> IF At("done") THEN Numbered(state.steps) ELSE {}]

AgentInv == AgentTypeOK /\ SearchInv /\ GroundedInv /\ TimelineInv

-----------------------------------------------------------------------------
(* The searches of one attempt are merged into the best hit of each chunk.  *)

LEMMA MergeIsTyped ==
  ASSUME NEW merged \in Seq(Hit), NEW hit \in Hit
  PROVE  Merge(merged, hit) \in Seq(Hit)
<1>1. CASE \E i \in DOMAIN merged : merged[i].chunk = hit.chunk
  <2> DEFINE t == [i \in 1 .. Len(merged) |->
                     IF merged[i].chunk = hit.chunk /\ hit.score > merged[i].score
                     THEN hit ELSE merged[i]]
  <2>1. Merge(merged, hit) = t
    BY <1>1 DEF Merge
  <2>2. \A i \in 1 .. Len(merged) : merged[i] \in Hit
    OBVIOUS
  <2>3. t \in [1 .. Len(merged) -> Hit]
    BY <2>2
  <2>4. Len(merged) \in Nat
    OBVIOUS
  <2> QED
    BY <2>1, <2>3, <2>4, SeqDef
<1>2. CASE ~\E i \in DOMAIN merged : merged[i].chunk = hit.chunk
  BY <1>2 DEF Merge
<1> QED
  BY <1>1, <1>2

LEMMA MergeKeepsBest ==
  ASSUME NEW merged, NEW hits, hits \subseteq Hit, KeepsBest(merged, hits), NEW hit \in Hit
  PROVE  KeepsBest(Merge(merged, hit), hits \cup {hit})
<1>1. /\ merged \in Seq(Hit)
      /\ \A i, j \in DOMAIN merged : merged[i].chunk = merged[j].chunk => i = j
      /\ ToSet(merged) \subseteq hits
      /\ \A h \in hits : \E i \in DOMAIN merged :
           merged[i].chunk = h.chunk /\ h.score <= merged[i].score
  BY DEF KeepsBest
<1> DEFINE new == Merge(merged, hit)
           n == Len(merged)
<1>2. n \in Nat /\ DOMAIN merged = 1 .. n /\ \A i \in 1 .. n : merged[i] \in Hit
  BY <1>1
<1>3. new \in Seq(Hit)
  BY <1>1, MergeIsTyped
<1>4. \A h \in Hit : h.chunk \in Chunks /\ h.score \in Int
  BY AgentAssumption DEF Hit
<1>5. \A i \in 1 .. n : merged[i] \in hits
  BY <1>1, <1>2 DEF ToSet
<1>6. CASE \E i \in DOMAIN merged : merged[i].chunk = hit.chunk
  <2>1. /\ DOMAIN new = 1 .. n
        /\ \A i \in 1 .. n : new[i] =
             IF merged[i].chunk = hit.chunk /\ hit.score > merged[i].score THEN hit ELSE merged[i]
    BY <1>2, <1>6 DEF Merge
  <2> HIDE DEF new
  <2>2. \A i \in 1 .. n : new[i].chunk = merged[i].chunk /\ merged[i].score <= new[i].score
    BY <1>2, <1>4, <2>1
  <2>3. \A i, j \in DOMAIN new : new[i].chunk = new[j].chunk => i = j
    BY <1>1, <1>2, <2>1, <2>2
  <2>4. ToSet(new) \subseteq hits \cup {hit}
    BY <1>5, <2>1 DEF ToSet
  <2>5. ASSUME NEW h \in hits \cup {hit}
        PROVE  \E i \in DOMAIN new : new[i].chunk = h.chunk /\ h.score <= new[i].score
    <3>1. CASE h = hit
      <4>1. PICK i \in 1 .. n : merged[i].chunk = hit.chunk
        BY <1>2, <1>6
      <4>2. hit.score <= new[i].score
        BY <1>2, <1>4, <2>1, <4>1
      <4> QED
        BY <2>1, <2>2, <3>1, <4>1, <4>2
    <3>2. CASE h \in hits
      <4>1. PICK i \in 1 .. n : merged[i].chunk = h.chunk /\ h.score <= merged[i].score
        BY <1>1, <1>2, <3>2
      <4>2. new[i] \in Hit /\ merged[i] \in Hit /\ h \in Hit
        BY <1>2, <2>1, <3>2
      <4>3. h.score <= new[i].score
        BY <1>4, <2>2, <4>1, <4>2
      <4> QED
        BY <2>1, <2>2, <4>1, <4>3
    <3> QED
      BY <3>1, <3>2
  <2>6. KeepsBest(new, hits \cup {hit})
    BY <1>3, <2>3, <2>4, <2>5 DEF KeepsBest
  <2> QED
    BY <2>6 DEF new
<1>7. CASE ~\E i \in DOMAIN merged : merged[i].chunk = hit.chunk
  <2>1. /\ DOMAIN new = 1 .. n + 1
        /\ new[n + 1] = hit
        /\ \A i \in 1 .. n : new[i] = merged[i]
    BY <1>1, <1>2, <1>7 DEF Merge
  <2> HIDE DEF new
  <2>2. \A i, j \in DOMAIN new : new[i].chunk = new[j].chunk => i = j
    <3>1. \A i \in 1 .. n : merged[i].chunk # hit.chunk
      BY <1>2, <1>7
    <3>2. \A i, j \in 1 .. n : merged[i].chunk = merged[j].chunk => i = j
      BY <1>1, <1>2
    <3>3. \A i \in 1 .. n + 1 : i = n + 1 \/ i \in 1 .. n
      BY <1>2
    <3> QED
      BY <2>1, <3>1, <3>2, <3>3
  <2>3. ToSet(new) \subseteq hits \cup {hit}
    <3>1. \A i \in 1 .. n + 1 : i = n + 1 \/ i \in 1 .. n
      BY <1>2
    <3> QED
      BY <1>5, <2>1, <3>1 DEF ToSet
  <2>4. ASSUME NEW h \in hits \cup {hit}
        PROVE  \E i \in DOMAIN new : new[i].chunk = h.chunk /\ h.score <= new[i].score
    <3>1. CASE h = hit
      BY <1>2, <1>4, <2>1, <3>1
    <3>2. CASE h \in hits
      <4>1. PICK i \in 1 .. n : merged[i].chunk = h.chunk /\ h.score <= merged[i].score
        BY <1>1, <1>2, <3>2
      <4>2. i \in DOMAIN new /\ new[i] = merged[i]
        BY <1>2, <2>1
      <4> QED
        BY <4>1, <4>2
    <3> QED
      BY <3>1, <3>2
  <2>5. KeepsBest(new, hits \cup {hit})
    BY <1>3, <2>2, <2>3, <2>4 DEF KeepsBest
  <2> QED
    BY <2>5 DEF new
<1> QED
  BY <1>6, <1>7

(* The merged hits after 0 to Len(hits) hits of a search.                   *)
IsMerging(it, base, hits) ==
  /\ it \in [0 .. Len(hits) -> Seq(Hit)]
  /\ it[0] = base
  /\ \A m \in 1 .. Len(hits) : it[m] = Merge(it[m - 1], hits[m])
  /\ FoldLeft(Merge, base, hits) = it[Len(hits)]

LEMMA MergesRun ==
  ASSUME NEW base \in Seq(Hit), NEW hits \in Seq(Hit)
  PROVE  \E it : IsMerging(it, base, hits)
<1> DEFINE n == Len(hits)
           T == Seq(Hit)
           G == [p \in (1 .. n) \X T |-> Merge(p[2], hits[p[1]])]
           Rec(f) == f = [s \in SUBSET (1 .. n) |->
                            IF s = {} THEN base
                            ELSE Merge(f[s \ {Max(s)}], hits[Max(s)])]
           iter == CHOOSE f : Rec(f)
<1>1. n \in Nat /\ DOMAIN hits = 1 .. n /\ base \in T
  OBVIOUS
<1>2. G \in [(1 .. n) \X T -> T]
  <2>1. ASSUME NEW p \in (1 .. n) \X T PROVE Merge(p[2], hits[p[1]]) \in T
    <3>1. hits[p[1]] \in Hit /\ p[2] \in Seq(Hit)
      OBVIOUS
    <3> QED
      BY <3>1, MergeIsTyped
  <2> QED
    BY <2>1
<1>3. \A m \in 1 .. n, t \in T : G[<<m, t>>] = Merge(t, hits[m])
  OBVIOUS
<1>4. FoldLeft(Merge, base, hits) = iter[1 .. n]
  BY <1>1 DEF FoldLeft, MapThenFoldSet
<1> HIDE DEF T, G, n
<1>5. PICK f : IsLeftFold(f, n, T, base, G)
  BY <1>1, <1>2, FoldLeftIsDefined
<1>6. Rec(f)
  <2>1. ASSUME NEW s \in SUBSET (1 .. n), s # {}
        PROVE  f[s] = Merge(f[s \ {Max(s)}], hits[Max(s)])
    <3>1. Max(s) \in 1 .. n
      BY <1>1, <2>1, MaxIsThere
    <3>2. s \ {Max(s)} \in SUBSET (1 .. n) /\ f[s \ {Max(s)}] \in T
      BY <1>5 DEF IsLeftFold
    <3> QED
      BY <1>3, <1>5, <2>1, <3>1, <3>2 DEF IsLeftFold
  <2>2. f = [s \in SUBSET (1 .. n) |-> f[s]]
    BY <1>5 DEF IsLeftFold
  <2> QED
    BY <1>5, <2>1, <2>2 DEF IsLeftFold
<1>7. Rec(iter)
  BY <1>6
<1> HIDE DEF iter
<1>8. iter[{}] = base
  BY <1>7
<1>9. ASSUME NEW s \in SUBSET (1 .. n), s # {}, iter[s \ {Max(s)}] \in T
      PROVE  iter[s] = G[<<Max(s), iter[s \ {Max(s)}]>>]
  <2>1. Max(s) \in 1 .. n
    BY <1>1, <1>9, MaxIsThere
  <2>2. iter[s] = Merge(iter[s \ {Max(s)}], hits[Max(s)])
    BY <1>7, <1>9
  <2> QED
    BY <1>3, <1>9, <2>1, <2>2
<1>10. PICK it : IsRun(it, iter, n, T, base, G)
  <2>1. FoldsBy(iter, n, T, base, G)
    BY <1>1, <1>2, <1>8, <1>9 DEF FoldsBy
  <2> QED
    BY <2>1, FoldRuns
<1>11. \A m \in 1 .. n : it[m] = Merge(it[m - 1], hits[m])
  <2>1. ASSUME NEW m \in 1 .. n PROVE it[m] = Merge(it[m - 1], hits[m])
    <3>1. it[m - 1] \in T
      BY <1>1, <1>10 DEF IsRun
    <3> QED
      BY <1>3, <1>10, <3>1 DEF IsRun
  <2> QED
    BY <2>1
<1>12. it \in [0 .. n -> T] /\ it[0] = base /\ it[n] = iter[1 .. n]
  BY <1>10 DEF IsRun
<1>13. IsMerging(it, base, hits)
  BY <1>4, <1>11, <1>12 DEF n, T, IsMerging
<1> QED
  BY <1>13

LEMMA SearchKeepsBest ==
  ASSUME NEW merged, NEW found, found \subseteq Hit, KeepsBest(merged, found),
         NEW hits \in Seq(Hit)
  PROVE  KeepsBest(FoldLeft(Merge, merged, hits), found \cup ToSet(hits))
<1> DEFINE n == Len(hits)
           upto(m) == found \cup {hits[i] : i \in 1 .. m}
<1>1. PICK it : IsMerging(it, merged, hits)
  BY MergesRun DEF KeepsBest
<1>2. n \in Nat /\ DOMAIN hits = 1 .. n
  OBVIOUS
<1> DEFINE K == {m \in Nat : m <= n => KeepsBest(it[m], upto(m))}
<1>3. 0 \in K
  <2>1. upto(0) = found
    OBVIOUS
  <2>2. it[0] = merged
    BY <1>1 DEF IsMerging
  <2> QED
    BY <2>1, <2>2
<1>4. ASSUME NEW m \in Nat, m \in K PROVE m + 1 \in K
  <2>1. SUFFICES ASSUME m + 1 <= n PROVE KeepsBest(it[m + 1], upto(m + 1))
    OBVIOUS
  <2>2. m <= n /\ m + 1 \in 1 .. n /\ (m + 1) - 1 = m
    BY <1>2, <2>1
  <2>3. it[m + 1] = Merge(it[m], hits[m + 1])
    BY <1>1, <2>2 DEF IsMerging
  <2>4. hits[m + 1] \in Hit /\ upto(m) \subseteq Hit
    BY <1>2, <2>2
  <2>5. upto(m + 1) = upto(m) \cup {hits[m + 1]}
    <3>1. 1 .. m + 1 = (1 .. m) \cup {m + 1}
      OBVIOUS
    <3> QED
      BY <3>1
  <2>6. KeepsBest(it[m], upto(m))
    BY <1>4, <2>2
  <2> HIDE DEF upto
  <2> QED
    BY <2>3, <2>4, <2>5, <2>6, MergeKeepsBest
<1>5. n \in K
  <2> HIDE DEF K
  <2>1. Nat \subseteq K
    BY <1>3, <1>4, SetInduction
  <2> QED
    BY <1>2, <2>1
<1>6. KeepsBest(it[n], upto(n))
  BY <1>2, <1>5
<1>7. upto(n) = found \cup ToSet(hits)
  BY <1>2 DEF ToSet
<1>8. FoldLeft(Merge, merged, hits) = it[n]
  BY <1>1 DEF IsMerging
<1> QED
  BY <1>6, <1>7, <1>8
-----------------------------------------------------------------------------
(* The stable sort by score, which Best chooses, is there to be chosen.     *)

Before(merged, i, j) ==
  \/ merged[i].score > merged[j].score
  \/ merged[i].score = merged[j].score /\ i < j

Sorted(p, merged) == \A i, j \in DOMAIN p : i < j => Before(merged, p[i], p[j])

LEMMA BeforeIsAnOrder ==
  ASSUME NEW merged \in Seq(Hit)
  PROVE  /\ \A i \in DOMAIN merged : ~Before(merged, i, i)
         /\ \A i, j \in DOMAIN merged : i # j => Before(merged, i, j) \/ Before(merged, j, i)
         /\ \A i, j, k \in DOMAIN merged :
              Before(merged, i, j) /\ Before(merged, j, k) => Before(merged, i, k)
<1>1. \A h \in Hit : h.score \in Int
  BY AgentAssumption DEF Hit
<1>2. \A i \in DOMAIN merged : i \in Nat /\ merged[i].score \in Int
  BY <1>1
<1> QED
  BY <1>2 DEF Before

LEMMA OneIsLast ==
  ASSUME NEW merged \in Seq(Hit), NEW s \in SUBSET DOMAIN merged, s # {}
  PROVE  \E x \in s : \A y \in s \ {x} : Before(merged, y, x)
<1> DEFINE n == Len(merged)
           Topmost(x, m) == x \in s \cap 1 .. m /\ \A y \in (s \cap 1 .. m) \ {x} : Before(merged, y, x)
           K == {m \in Nat : s \cap 1 .. m # {} => \E x : Topmost(x, m)}
<1>1. n \in Nat /\ DOMAIN merged = 1 .. n
  OBVIOUS
<1>2. 0 \in K
  OBVIOUS
<1>3. ASSUME NEW m \in Nat, m \in K PROVE m + 1 \in K
  <2>1. 1 .. m + 1 = (1 .. m) \cup {m + 1}
    OBVIOUS
  <2>2. CASE m + 1 \notin s
    <3>1. s \cap 1 .. m + 1 = s \cap 1 .. m
      BY <2>1, <2>2
    <3> QED
      BY <1>3, <3>1
  <2>3. CASE m + 1 \in s /\ s \cap 1 .. m = {}
    <3>1. s \cap 1 .. m + 1 = {m + 1}
      BY <2>1, <2>3
    <3>2. Topmost(m + 1, m + 1)
      BY <3>1
    <3> QED
      BY SMTT(40), <3>2
  <2>4. CASE m + 1 \in s /\ s \cap 1 .. m # {}
    <3>1. PICK x : Topmost(x, m)
      BY <1>3, <2>4
    <3>2. s \cap 1 .. m + 1 = (s \cap 1 .. m) \cup {m + 1}
      BY <2>1, <2>4
    <3>3. x \in DOMAIN merged /\ m + 1 \in DOMAIN merged /\ x # m + 1
      BY <2>4, <3>1
    <3>4. CASE Before(merged, m + 1, x)
      <4>1. Topmost(x, m + 1)
        BY <3>1, <3>2, <3>4
      <4> QED
        BY <4>1
    <3>5. CASE Before(merged, x, m + 1)
      <4>1. ASSUME NEW y \in s \cap 1 .. m PROVE Before(merged, y, m + 1)
        <5>1. y \in DOMAIN merged
          OBVIOUS
        <5>2. y = x \/ Before(merged, y, x)
          BY <3>1
        <5> QED
          BY <3>3, <3>5, <5>1, <5>2, BeforeIsAnOrder
      <4>2. Topmost(m + 1, m + 1)
        BY <3>2, <4>1
      <4> QED
        BY SMTT(40), <4>2
    <3> QED
      BY <3>3, <3>4, <3>5, BeforeIsAnOrder
  <2> QED
    BY <2>2, <2>3, <2>4
<1>4. n \in K
  <2> HIDE DEF K
  <2>1. Nat \subseteq K
    BY <1>2, <1>3, SetInduction
  <2> QED
    BY <1>1, <2>1
<1>5. s \cap 1 .. n = s
  BY <1>1
<1> QED
  BY <1>4, <1>5

LEMMA SortExists ==
  ASSUME NEW merged \in Seq(Hit)
  PROVE  \E p \in SetToSeqs(DOMAIN merged) : Sorted(p, merged)
<1> DEFINE D == DOMAIN merged
           K == {k \in Nat : \A s \in SUBSET D :
                   Cardinality(s) = k => \E p \in [1 .. k -> s] : Sorted(p, merged)}
<1>1. IsFiniteSet(D) /\ \A s \in SUBSET D : IsFiniteSet(s)
  <2>1. IsFiniteSet(D)
    BY FS_Interval
  <2> QED
    BY <2>1, FS_Subset
<1>2. 0 \in K
  <2>1. ASSUME NEW s \in SUBSET D PROVE \E p \in [1 .. 0 -> s] : Sorted(p, merged)
    <3> DEFINE p == [i \in 1 .. 0 |-> CHOOSE x \in s : TRUE]
    <3>1. p \in [1 .. 0 -> s] /\ Sorted(p, merged)
      BY DEF Sorted
    <3> QED
      BY <3>1
  <2> QED
    BY <2>1
<1>3. ASSUME NEW k \in Nat, k \in K PROVE k + 1 \in K
  <2>1. SUFFICES ASSUME NEW s \in SUBSET D, Cardinality(s) = k + 1
                 PROVE  \E q \in [1 .. k + 1 -> s] : Sorted(q, merged)
    OBVIOUS
  <2>2. IsFiniteSet(s) /\ s # {}
    BY <1>1, <2>1, FS_EmptySet
  <2>3. PICK x \in s : \A y \in s \ {x} : Before(merged, y, x)
    BY <2>2, OneIsLast
  <2>4. Cardinality(s \ {x}) = k /\ s \ {x} \in SUBSET D
    <3>1. Cardinality(s \ {x}) = Cardinality(s) - 1
      BY <2>2, <2>3, FS_RemoveElement
    <3> QED
      BY <2>1, <3>1
  <2>5. PICK p \in [1 .. k -> s \ {x}] : Sorted(p, merged)
    BY <1>3, <2>4
  <2> DEFINE q == [i \in 1 .. k + 1 |-> IF i = k + 1 THEN x ELSE p[i]]
  <2>6. q[k + 1] = x /\ \A i \in 1 .. k : q[i] = p[i] /\ q[i] \in s \ {x}
    OBVIOUS
  <2>7. \A i \in 1 .. k + 1 : i = k + 1 \/ i \in 1 .. k
    OBVIOUS
  <2>8. q \in [1 .. k + 1 -> s]
    <3>1. \A i \in 1 .. k + 1 : (IF i = k + 1 THEN x ELSE p[i]) \in s
      BY <2>6, <2>7
    <3> QED
      BY <3>1
  <2> HIDE DEF q
  <2>9. Sorted(q, merged)
    <3>1. ASSUME NEW i \in 1 .. k + 1, NEW j \in 1 .. k + 1, i < j
          PROVE  Before(merged, q[i], q[j])
      <4>1. i \in 1 .. k
        BY <2>7, <3>1
      <4>2. CASE j = k + 1
        BY <2>3, <2>6, <4>1, <4>2
      <4>3. CASE j \in 1 .. k
        BY <2>5, <2>6, <3>1, <4>1, <4>3 DEF Sorted
      <4> QED
        BY <2>7, <4>2, <4>3
    <3> QED
      BY <2>8, <3>1 DEF Sorted
  <2> QED
    BY <2>8, <2>9
<1> DEFINE n == Cardinality(D)
<1>4. n \in K /\ n \in Nat
  <2> HIDE DEF K
  <2>1. Nat \subseteq K
    BY <1>2, <1>3, SetInduction
  <2> QED
    BY <1>1, <2>1, FS_CardinalityType
<1>5. PICK p \in [1 .. n -> D] : Sorted(p, merged)
  BY <1>4
<1>6. \A i, j \in 1 .. n : i # j => p[i] # p[j]
  <2>1. \A i, j \in 1 .. n : i < j => p[i] # p[j]
    BY <1>5, BeforeIsAnOrder DEF Sorted
  <2> QED
    BY <1>4, <2>1
<1>7. p \in SetToSeqs(D)
  BY <1>5, <1>6 DEF SetToSeqs
<1> QED
  BY <1>5, <1>7

LEMMA MaxIs ==
  ASSUME NEW S \in SUBSET Int, NEW x \in S, \A y \in S : y <= x
  PROVE  Max(S) = x
<1>1. \A z \in S : (\A y \in S : z >= y) => z = x
  OBVIOUS
<1>2. \A y \in S : x >= y
  OBVIOUS
<1> QED
  BY <1>1, <1>2 DEF Max

(* The order Best chooses goes through every place once.                    *)
IsOrder(p, merged) ==
  /\ p \in [1 .. Len(merged) -> 1 .. Len(merged)]
  /\ \A i, j \in 1 .. Len(merged) : p[i] = p[j] => i = j
  /\ \A k \in 1 .. Len(merged) : \E i \in 1 .. Len(merged) : p[i] = k
  /\ \A i, j \in 1 .. Len(merged) : i < j => Before(merged, p[i], p[j])

LEMMA BestIsSorted ==
  ASSUME NEW merged \in Seq(Hit)
  PROVE  \E p : /\ IsOrder(p, merged)
                /\ Best(merged) = [i \in 1 .. Min({Len(merged), top_k + Extra}) |-> merged[p[i]]]
<1> DEFINE n == Len(merged)
           D == DOMAIN merged
           order == CHOOSE p \in SetToSeqs(D) : \A i, j \in DOMAIN p : i < j =>
                      \/ merged[p[i]].score > merged[p[j]].score
                      \/ merged[p[i]].score = merged[p[j]].score /\ p[i] < p[j]
<1>1. n \in Nat /\ D = 1 .. n /\ IsFiniteSet(D) /\ Cardinality(D) = n
  <2>1. n \in Nat /\ D = 1 .. n
    OBVIOUS
  <2>2. IsFiniteSet(1 .. n) /\ Cardinality(1 .. n) = n
    BY SMTT(40), <2>1, FS_Interval
  <2> QED
    BY <2>1, <2>2
<1>2. \E p \in SetToSeqs(D) : \A i, j \in DOMAIN p : i < j =>
        \/ merged[p[i]].score > merged[p[j]].score
        \/ merged[p[i]].score = merged[p[j]].score /\ p[i] < p[j]
  BY SortExists DEF Sorted, Before
<1>3. order \in SetToSeqs(D) /\ Sorted(order, merged)
  BY <1>2 DEF Sorted, Before
<1>4. Best(merged) = [i \in 1 .. Min({n, top_k + Extra}) |-> merged[order[i]]]
  BY DEF Best
<1> HIDE DEF order, n, D
<1>5. order \in [1 .. n -> 1 .. n] /\ \A i, j \in 1 .. n : order[i] = order[j] => i = j
  BY <1>1, <1>3 DEF SetToSeqs
<1>6. order \in Injection(1 .. n, 1 .. n)
  BY <1>5 DEF Injection, IsInjective
<1>7. order \in Surjection(1 .. n, 1 .. n)
  BY <1>1, <1>6, FS_Injection
<1>8. \A k \in 1 .. n : \E i \in 1 .. n : order[i] = k
  BY <1>7 DEF Surjection
<1>9. \A i, j \in 1 .. n : i < j => Before(merged, order[i], order[j])
  BY <1>3, <1>5 DEF Sorted
<1>10. IsOrder(order, merged)
  BY <1>5, <1>8, <1>9 DEF n, IsOrder
<1> QED
  BY <1>4, <1>10 DEF n

LEMMA BestHoldsBest ==
  ASSUME NEW merged, NEW hits, hits \subseteq Hit, KeepsBest(merged, hits), top_k \in Nat
  PROVE  Best(merged) \in Seq(Hit) /\ HoldsBest(Best(merged), hits, top_k + Extra)
<1>1. /\ merged \in Seq(Hit)
      /\ \A i, j \in DOMAIN merged : merged[i].chunk = merged[j].chunk => i = j
      /\ ToSet(merged) \subseteq hits
      /\ \A h \in hits : \E i \in DOMAIN merged :
           merged[i].chunk = h.chunk /\ h.score <= merged[i].score
  BY DEF KeepsBest
<1> DEFINE n == Len(merged)
           most == top_k + Extra
           len == Min({n, most})
           context == Best(merged)
           found == {h.chunk : h \in hits}
           kept == ToSet(ChunksOf(context))
           BestScore(c) == Max({h.score : h \in {h \in hits : h.chunk = c}})
<1>2. n \in Nat /\ DOMAIN merged = 1 .. n /\ \A i \in 1 .. n : merged[i] \in Hit
  BY <1>1
<1>3. \A h \in Hit : h.chunk \in Chunks /\ h.score \in Int
  BY AgentAssumption DEF Hit
<1>4. most \in Nat
  BY AgentAssumption
<1>5. len \in Nat /\ len <= n /\ len <= most /\ (len = n \/ len = most)
  BY <1>2, <1>4, SmallerOfTwo
<1>6. PICK p : IsOrder(p, merged) /\ context = [i \in 1 .. len |-> merged[p[i]]]
  BY <1>1, BestIsSorted
<1> HIDE DEF n, most, len, context
<1>7. /\ p \in [1 .. n -> 1 .. n]
      /\ \A i, j \in 1 .. n : p[i] = p[j] => i = j
      /\ \A k \in 1 .. n : \E i \in 1 .. n : p[i] = k
      /\ \A i, j \in 1 .. n : i < j => Before(merged, p[i], p[j])
  BY <1>6 DEF IsOrder, n
<1>8. \A i \in 1 .. len : i \in 1 .. n
  BY <1>2, <1>5
<1>9. ASSUME NEW i \in 1 .. len
      PROVE  /\ p[i] \in 1 .. n
             /\ context[i] = merged[p[i]]
             /\ context[i] \in Hit
             /\ context[i] \in hits
  <2>1. p[i] \in 1 .. n /\ context[i] = merged[p[i]]
    BY <1>6, <1>7, <1>8
  <2> QED
    BY <1>1, <1>2, <2>1 DEF ToSet
<1>10. context \in Seq(Hit) /\ Len(context) = len /\ DOMAIN context = 1 .. len
  <2>1. context \in [1 .. len -> Hit]
    BY <1>6, <1>9
  <2> QED
    BY <1>5, <2>1
<1>11. \A i, j \in 1 .. n : merged[i].chunk = merged[j].chunk => i = j
  BY <1>1, <1>2
<1>12. Cardinality(found) = n
  <2> DEFINE f == [i \in 1 .. n |-> merged[i].chunk]
  <2>1. \A i \in 1 .. n : merged[i] \in hits
    BY <1>1, <1>2 DEF ToSet
  <2>2. f \in [1 .. n -> found]
    BY <2>1
  <2>3. \A i, j \in 1 .. n : f[i] = f[j] => i = j
    BY <1>11
  <2>4. \A y \in found : \E i \in 1 .. n : f[i] = y
    BY <1>1, <1>2
  <2> HIDE DEF f, found
  <2>5. Lists(f, n, found)
    BY <2>2, <2>3, <2>4 DEF Lists
  <2> QED
    BY <1>2, <2>5, Counted
<1>13. kept = {context[i].chunk : i \in 1 .. len}
  BY <1>10 DEF ToSet, ChunksOf
<1>14. Cardinality(kept) = len
  <2> DEFINE f == [i \in 1 .. len |-> context[i].chunk]
  <2>1. f \in [1 .. len -> kept] /\ \A y \in kept : \E i \in 1 .. len : f[i] = y
    BY <1>13
  <2>2. \A i, j \in 1 .. len : f[i] = f[j] => i = j
    <3>1. ASSUME NEW i \in 1 .. len, NEW j \in 1 .. len, f[i] = f[j] PROVE i = j
      <4>1. p[i] = p[j]
        BY <1>9, <1>11, <3>1
      <4> QED
        BY <1>7, <1>8, <4>1
    <3> QED
      BY <3>1
  <2> HIDE DEF f, kept
  <2>3. Lists(f, len, kept)
    BY <2>1, <2>2 DEF Lists
  <2>4. len \in Nat
    BY <1>5
  <2> QED
    BY <2>3, <2>4, Counted
<1>15. ASSUME NEW k \in 1 .. n PROVE BestScore(merged[k].chunk) = merged[k].score
  <2> DEFINE c == merged[k].chunk
             scores == {h.score : h \in {h \in hits : h.chunk = c}}
  <2>1. merged[k] \in hits
    BY <1>1, <1>2 DEF ToSet
  <2>2. merged[k].score \in scores /\ scores \in SUBSET Int
    BY <1>3, <2>1
  <2>3. ASSUME NEW h \in hits, h.chunk = c PROVE h.score <= merged[k].score
    <3>1. PICK i \in 1 .. n : merged[i].chunk = h.chunk /\ h.score <= merged[i].score
      BY <1>1, <1>2
    <3>2. i = k
      BY <1>11, <2>3, <3>1
    <3> QED
      BY <3>1, <3>2
  <2>4. \A y \in scores : y <= merged[k].score
    BY <2>3
  <2> HIDE DEF scores
  <2>5. Max(scores) = merged[k].score
    BY <2>2, <2>4, MaxIs
  <2> QED
    BY <2>5 DEF scores
<1>16. ASSUME NEW i \in 1 .. len
       PROVE  /\ context[i].score = BestScore(context[i].chunk)
              /\ \A c \in found \ kept : BestScore(c) <= context[i].score
  <2>1. context[i].score = BestScore(context[i].chunk)
    BY <1>9, <1>15
  <2>2. ASSUME NEW c \in found \ kept PROVE BestScore(c) <= context[i].score
    <3>1. PICK k \in 1 .. n : merged[k].chunk = c
      BY <1>1, <1>2
    <3>2. PICK m \in 1 .. n : p[m] = k
      BY <1>7
    <3>3. m \notin 1 .. len
      BY <1>9, <1>13, <3>1, <3>2
    <3>4. i < m /\ i \in 1 .. n
      BY <1>2, <1>5, <3>3
    <3>5. Before(merged, p[i], k)
      BY <1>7, <3>2, <3>4
    <3>6. merged[k].score <= merged[p[i]].score
      BY <1>2, <1>3, <1>9, <3>5 DEF Before
    <3>7. BestScore(c) = merged[k].score
      BY <1>15, <3>1
    <3> HIDE DEF BestScore
    <3> QED
      BY <1>9, <3>6, <3>7
  <2> QED
    BY <2>1, <2>2
<1>17. HoldsBest(context, hits, most)
  BY <1>10, <1>12, <1>14, <1>16 DEF HoldsBest, len
<1> QED
  BY <1>10, <1>17 DEF context, most

-----------------------------------------------------------------------------
(* The run of the agent.                                                    *)

LEMMA ReturnedHits ==
  ASSUME AgentTypeOK, NEW hits \in Returned
  PROVE  hits \in Seq(Hit)
<1>1. top_k \in Nat
  BY AgentAssumption DEF AgentTypeOK, top_k
<1> QED
  BY <1>1 DEF Returned, SeqOf

(* Looking into the merged hits of one more search.                         *)
LEMMA SearchedIsBest ==
  ASSUME AgentTypeOK, SearchInv, At("search"), NEW hits \in Returned
  PROVE  LET merged == FoldLeft(Merge, state.merged, hits)
             found  == seen \cup ToSet(hits) IN
         /\ KeepsBest(merged, found)
         /\ merged \in Seq(Hit)
         /\ Best(merged) \in Seq(Hit)
         /\ HoldsBest(Best(merged), found, top_k + Extra)
         /\ found \subseteq Hit
<1>1. hits \in Seq(Hit) /\ top_k \in Nat /\ seen \subseteq Hit /\ KeepsBest(state.merged, seen)
  BY SMTT(40), ReturnedHits, AgentAssumption DEF AgentTypeOK, top_k, SearchInv
<1> DEFINE merged == FoldLeft(Merge, state.merged, hits)
           found == seen \cup ToSet(hits)
<1>2. KeepsBest(merged, found)
  BY <1>1, SearchKeepsBest
<1>3. found \subseteq Hit
  BY <1>1 DEF ToSet
<1> HIDE DEF merged, found
<1>4. merged \in Seq(Hit)
  BY <1>2 DEF KeepsBest
<1>5. Best(merged) \in Seq(Hit) /\ HoldsBest(Best(merged), found, top_k + Extra)
  BY <1>1, <1>2, <1>3, BestHoldsBest
<1> QED
  BY <1>2, <1>3, <1>4, <1>5 DEF merged, found

LEMMA PromptIsTyped ==
  ASSUME NEW context \in Seq(Hit)
  PROVE  ChunksOf(context) \in Seq(Chunks)
<1>1. ChunksOf(context) = [i \in 1 .. Len(context) |-> context[i].chunk] /\ Len(context) \in Nat
  BY DEF ChunksOf
<1>2. \A i \in 1 .. Len(context) : context[i] \in Hit
  OBVIOUS
<1>3. \A h \in Hit : h.chunk \in Chunks
  BY DEF Hit
<1>4. \A i \in 1 .. Len(context) : context[i].chunk \in Chunks
  BY <1>2, <1>3
<1> HIDE DEF Hit
<1> QED
  BY <1>1, <1>4

LEMMA AgentTyped ==
  ASSUME AgentTypeOK, SearchInv, [Next]_vars
  PROVE  AgentTypeOK'
<1> DEFINE stepnames == {"plan", "retrieve", "summarize", "verify"}
<1>1. \A name \in stepnames : Append(state.steps, name) \in Seq(stepnames)
  BY DEF AgentTypeOK
<1>2. CASE plan
  <2>1. PICK n \in 1 .. MaxQuestions :
          state' = [state EXCEPT !.pc = "search", !.questions = n, !.left = n,
                                 !.steps = Append(@, "plan")]
    BY <1>2 DEF plan
  <2>2. n \in Nat
    BY AgentAssumption
  <2> QED
    BY <1>1, <1>2, <2>1, <2>2 DEF plan, AgentTypeOK
<1>3. CASE search
  <2>1. PICK hits \in Returned : seen' = seen \cup ToSet(hits) /\ state' = searched(hits)
    BY <1>3 DEF search
  <2> DEFINE merged == FoldLeft(Merge, state.merged, hits)
  <2>2. merged \in Seq(Hit) /\ Best(merged) \in Seq(Hit) /\ seen \cup ToSet(hits) \subseteq Hit
    BY <1>3, SearchedIsBest DEF search
  <2>3. state' = IF state.left > 1 THEN [state EXCEPT !.left = @ - 1, !.merged = merged]
                 ELSE [state EXCEPT !.pc = "summarize", !.left = 0, !.merged = <<>>,
                                    !.context = Best(merged), !.steps = Append(@, "retrieve")]
    BY <2>1 DEF searched, Retrieved
  <2> HIDE DEF merged
  <2>4. Append(state.steps, "retrieve") \in Seq(stepnames)
    BY <1>1
  <2>5. seen' \subseteq Hit
    BY <2>1, <2>2
  <2>6. CASE state.left > 1
    <3>1. state.left - 1 \in Nat
      BY <2>6 DEF AgentTypeOK
    <3>2. state' = [state EXCEPT !.left = state.left - 1, !.merged = merged]
      BY <2>3, <2>6
    <3> QED
      BY <2>2, <2>5, <3>1, <3>2 DEF AgentTypeOK
  <2>7. CASE ~(state.left > 1)
    <3>1. state' = [state EXCEPT !.pc = "summarize", !.left = 0, !.merged = <<>>,
                                 !.context = Best(merged),
                                 !.steps = Append(state.steps, "retrieve")]
      BY <2>3, <2>7
    <3>2. <<>> \in Seq(Hit)
      OBVIOUS
    <3> QED
      BY <2>2, <2>4, <2>5, <3>1, <3>2 DEF AgentTypeOK
  <2> QED
    BY <2>6, <2>7
<1>4. CASE summarize
  <2>1. PICK answer \in SeqOf(0 .. Len(state.context) + 1, MaxMarkers), refuses \in BOOLEAN :
          state' = [state EXCEPT !.pc = "verify", !.answer = answer, !.refuses = refuses,
                                 !.prompt = ChunksOf(state.context),
                                 !.steps = Append(@, "summarize")]
    BY <1>4 DEF summarize
  <2>2. answer \in Seq(Int)
    <3>1. PICK m \in 0 .. MaxMarkers : answer \in [1 .. m -> 0 .. Len(state.context) + 1]
      BY DEF SeqOf
    <3>2. m \in Nat /\ 0 .. Len(state.context) + 1 \subseteq Int
      BY AgentAssumption DEF AgentTypeOK
    <3> QED
      BY <3>1, <3>2
  <2>3. ChunksOf(state.context) \in Seq(Chunks)
    BY PromptIsTyped DEF AgentTypeOK
  <2> QED
    BY <1>1, <1>4, <2>1, <2>2, <2>3 DEF summarize, AgentTypeOK
<1>5. CASE verify
  <2> DEFINE citations == build_citations(state.answer, ChunksOf(state.context))
  <2>1. citations \in Seq([marker : Int, chunk : Chunks])
    BY PromptIsTyped, CitationsOnce DEF AgentTypeOK, Citation
  <2>2. Verified(citations) \in BOOLEAN
    BY DEF Verified, Confident
  <2> HIDE DEF citations
  <2>3. \/ /\ state.attempts < 1
           /\ state' = [state EXCEPT !.citations = citations, !.verified = Verified(citations),
                                     !.steps = Append(@, "verify"), !.pc = "search",
                                     !.attempts = @ + 1, !.left = state.questions]
           /\ seen' = {}
        \/ /\ state' = [state EXCEPT !.citations = citations, !.verified = Verified(citations),
                                     !.steps = Append(@, "verify"), !.pc = "add_run"]
           /\ seen' = seen
    BY <1>5 DEF verify, AgentTypeOK, citations
  <2>4. Append(state.steps, "verify") \in Seq(stepnames)
    BY <1>1
  <2>5. state.attempts < 1 => state.attempts + 1 = 1
    BY DEF AgentTypeOK
  <2> DEFINE steps == Append(state.steps, "verify")
             verified == Verified(citations)
  <2> HIDE DEF stepnames
  <2>6. steps \in Seq({"plan", "retrieve", "summarize", "verify"})
    BY <2>4 DEF stepnames
  <2> HIDE DEF steps, verified
  <2>7. CASE /\ state.attempts < 1
             /\ state' = [state EXCEPT !.citations = citations, !.verified = verified,
                                       !.steps = steps, !.pc = "search",
                                       !.attempts = state.attempts + 1, !.left = state.questions]
             /\ seen' = {}
    BY <2>1, <2>2, <2>5, <2>6, <2>7 DEF AgentTypeOK, verified
  <2>8. CASE /\ state' = [state EXCEPT !.citations = citations, !.verified = verified,
                                       !.steps = steps, !.pc = "add_run"]
             /\ seen' = seen
    BY <2>1, <2>2, <2>6, <2>8 DEF AgentTypeOK, verified
  <2> QED
    BY <2>3, <2>7, <2>8 DEF steps, verified
<1>6. CASE add_run
  BY <1>6 DEF add_run, AgentTypeOK
<1>7. CASE add_steps
  BY <1>7 DEF add_steps, AgentTypeOK
<1>8. CASE commit
  BY <1>8 DEF commit, AgentTypeOK
<1>9. CASE fail
  BY <1>9 DEF fail, AgentTypeOK
<1>10. CASE UNCHANGED vars
  BY <1>10 DEF vars, AgentTypeOK
<1> QED
  BY <1>2, <1>3, <1>4, <1>5, <1>6, <1>7, <1>8, <1>9, <1>10 DEF Next

LEMMA AgentSearches ==
  ASSUME AgentTypeOK, SearchInv, [Next]_vars
  PROVE  SearchInv'
<1>1. CASE plan
  <2>1. PICK n \in 1 .. MaxQuestions :
          state' = [state EXCEPT !.pc = "search", !.questions = n, !.left = n,
                                 !.steps = Append(@, "plan")]
    BY <1>1 DEF plan
  <2>2. state'.pc = "search" /\ state'.merged = <<>> /\ seen' = {}
    BY <1>1, <2>1 DEF plan, At, AgentTypeOK, SearchInv
  <2>3. KeepsBest(<<>>, {})
    BY DEF KeepsBest, ToSet
  <2> QED
    BY <2>2, <2>3 DEF SearchInv, At, ContextIsBestFound
<1>2. CASE search
  <2>1. PICK hits \in Returned : seen' = seen \cup ToSet(hits) /\ state' = searched(hits)
    BY <1>2 DEF search
  <2> DEFINE merged == FoldLeft(Merge, state.merged, hits)
             found == seen \cup ToSet(hits)
  <2>2. /\ KeepsBest(merged, found)
        /\ HoldsBest(Best(merged), found, top_k + Extra)
    BY <1>2, SearchedIsBest DEF search
  <2>3. state' = IF state.left > 1 THEN [state EXCEPT !.left = @ - 1, !.merged = merged]
                 ELSE [state EXCEPT !.pc = "summarize", !.left = 0, !.merged = <<>>,
                                    !.context = Best(merged), !.steps = Append(@, "retrieve")]
    BY <2>1 DEF searched, Retrieved
  <2>4. seen' = found
    BY <2>1
  <2>5. state.pc = "search"
    BY <1>2 DEF search, At
  <2> HIDE DEF merged, found
  <2>6. CASE state.left > 1
    <3>1. state'.pc = "search" /\ state'.merged = merged
      BY <2>3, <2>5, <2>6 DEF AgentTypeOK
    <3> QED
      BY <2>2, <2>4, <3>1 DEF SearchInv, At, ContextIsBestFound
  <2>7. CASE ~(state.left > 1)
    <3>1. /\ state'.pc = "summarize" /\ state'.merged = <<>> /\ state'.context = Best(merged)
          /\ state'.attempts = state.attempts
      BY <2>3, <2>7 DEF AgentTypeOK
    <3>2. top_k' = top_k
      BY <3>1 DEF top_k
    <3>3. HoldsBest(state'.context, seen', top_k' + Extra)
      BY <2>2, <2>4, <3>1, <3>2
    <3>4. ContextIsBestFound'
      BY <3>3 DEF ContextIsBestFound
    <3> QED
      BY <3>1, <3>4 DEF SearchInv, At
  <2> QED
    BY <2>6, <2>7
<1>3. CASE summarize
  <2>1. state.pc = "summarize" /\ state'.pc = "verify" /\ state'.merged = state.merged
    BY <1>3 DEF summarize, At, AgentTypeOK
  <2> QED
    BY <2>1 DEF SearchInv, At, ContextIsBestFound
<1>4. CASE verify
  <2>1. /\ state.pc = "verify" /\ state'.merged = state.merged
        /\ \/ state'.pc = "search" /\ seen' = {}
           \/ state'.pc = "add_run"
    BY <1>4 DEF verify, At, AgentTypeOK
  <2>2. KeepsBest(<<>>, {})
    BY DEF KeepsBest, ToSet
  <2> QED
    BY <2>1, <2>2 DEF SearchInv, At, ContextIsBestFound
<1>5. CASE add_run
  <2>1. state.pc = "add_run" /\ state'.pc = "add_steps" /\ state'.merged = state.merged
    BY <1>5 DEF add_run, At, AgentTypeOK
  <2> QED
    BY <2>1 DEF SearchInv, At, ContextIsBestFound
<1>6. CASE add_steps
  <2>1. state.pc = "add_steps" /\ state'.pc = "commit" /\ state'.merged = state.merged
    BY <1>6 DEF add_steps, At, AgentTypeOK
  <2> QED
    BY <2>1 DEF SearchInv, At, ContextIsBestFound
<1>7. CASE commit
  <2>1. state.pc = "commit" /\ state'.pc = "done" /\ state'.merged = state.merged
    BY <1>7 DEF commit, At, AgentTypeOK
  <2> QED
    BY <2>1 DEF SearchInv, At, ContextIsBestFound
<1>8. CASE fail
  <2>1. state'.pc = "failed"
    BY <1>8 DEF fail, AgentTypeOK
  <2> QED
    BY <2>1 DEF SearchInv, At, ContextIsBestFound
<1>9. CASE UNCHANGED vars
  BY <1>9 DEF vars, SearchInv, At, ContextIsBestFound, top_k
<1> QED
  BY <1>1, <1>2, <1>3, <1>4, <1>5, <1>6, <1>7, <1>8, <1>9 DEF Next

LEMMA AgentGrounds ==
  ASSUME AgentTypeOK, GroundedInv, [Next]_vars
  PROVE  GroundedInv'
<1>1. CASE plan
  <2>1. state'.pc = "search"
    BY <1>1 DEF plan, AgentTypeOK
  <2> QED
    BY <2>1 DEF GroundedInv, Judged, At
<1>2. CASE search
  <2>1. PICK hits \in Returned : state' = searched(hits)
    BY <1>2 DEF search
  <2>2. state'.pc \in {"search", "summarize"}
    BY <1>2, <2>1 DEF search, searched, Retrieved, At, AgentTypeOK
  <2> QED
    BY <2>2 DEF GroundedInv, Judged, At
<1>3. CASE summarize
  <2>1. /\ state'.pc = "verify" /\ state'.context = state.context
        /\ state'.prompt = ChunksOf(state.context)
    BY <1>3 DEF summarize, AgentTypeOK
  <2> QED
    BY <2>1 DEF GroundedInv, Judged, At
<1>4. CASE verify
  <2> DEFINE citations == build_citations(state.answer, ChunksOf(state.context))
  <2>1. state.prompt = ChunksOf(state.context)
    BY <1>4 DEF verify, GroundedInv
  <2>2. state.attempts < 1 \/ state.attempts = 1
    BY DEF AgentTypeOK
  <2> HIDE DEF citations
  <2>3. \/ state'.pc = "search"
        \/ /\ state'.pc = "add_run"
           /\ state'.citations = citations
           /\ state'.verified = Verified(citations)
           /\ state'.prompt = state.prompt /\ state'.answer = state.answer
           /\ state'.attempts = state.attempts
           /\ Verified(citations) \/ ~(state.attempts < 1)
    BY ZenonT(60), <1>4 DEF verify, AgentTypeOK, citations
  <2>4. CASE state'.pc = "search"
    BY <2>4 DEF GroundedInv, Judged, At
  <2>5. CASE /\ state'.pc = "add_run"
             /\ state'.citations = citations
             /\ state'.verified = Verified(citations)
             /\ state'.prompt = state.prompt /\ state'.answer = state.answer
             /\ state'.attempts = state.attempts
             /\ Verified(citations) \/ ~(state.attempts < 1)
    <3>1. state'.citations = build_citations(state'.answer, state'.prompt)
      BY <2>1, <2>5 DEF citations
    <3>2. state'.verified => state'.citations # <<>>
      BY <2>5 DEF Verified
    <3>3. ~state'.verified => state'.attempts = 1
      BY <2>2, <2>5
    <3> QED
      BY <2>5, <3>1, <3>2, <3>3 DEF GroundedInv, Judged, At
  <2> QED
    BY <2>3, <2>4, <2>5
<1>5. CASE \/ add_run \/ add_steps \/ commit
  <2>1. /\ state'.pc \in {"add_steps", "commit", "done"}
        /\ state'.citations = state.citations /\ state'.verified = state.verified
        /\ state'.prompt = state.prompt /\ state'.answer = state.answer
        /\ state'.attempts = state.attempts
    BY <1>5 DEF add_run, add_steps, commit, AgentTypeOK
  <2>2. Judged
    BY <1>5 DEF add_run, add_steps, commit, At, Judged
  <2> QED
    BY <2>1, <2>2 DEF GroundedInv, Judged, At
<1>6. CASE fail
  <2>1. state'.pc = "failed"
    BY <1>6 DEF fail, AgentTypeOK
  <2> QED
    BY <2>1 DEF GroundedInv, Judged, At
<1>7. CASE UNCHANGED vars
  BY <1>7 DEF vars, GroundedInv, Judged, At
<1> QED
  BY <1>1, <1>2, <1>3, <1>4, <1>5, <1>6, <1>7 DEF Next

LEMMA AppendToOne ==
  ASSUME NEW S, NEW a \in S, NEW b \in S
  PROVE  Append(<<a>>, b) = <<a, b>>
<1> DEFINE s == <<a>>
           t == <<a, b>>
           u == Append(s, b)
<1>1. s \in Seq(S) /\ Len(s) = 1 /\ s[1] = a
  OBVIOUS
<1>2. t \in Seq(S) /\ Len(t) = 2 /\ t[1] = a /\ t[2] = b
  OBVIOUS
<1> HIDE DEF s, t
<1>3. u \in Seq(S) /\ Len(u) = 2 /\ u[1] = a /\ u[2] = b
  <2>1. u \in Seq(S) /\ Len(u) = Len(s) + 1 /\ u[Len(s) + 1] = b
    BY SMTT(40), <1>1, AppendProperties
  <2>2. \A i \in 1 .. Len(s) : u[i] = s[i]
    BY <1>1, AppendProperties
  <2> QED
    BY <1>1, <2>1, <2>2
<1> HIDE DEF u
<1>4. \A i \in 1 .. Len(u) : u[i] = t[i]
  BY <1>2, <1>3
<1>5. u = t
  BY <1>2, <1>3, <1>4, SeqEqual
<1> QED
  BY <1>5 DEF s, t, u

LEMMA AppendToTwo ==
  ASSUME NEW S, NEW a \in S, NEW b \in S, NEW c \in S
  PROVE  Append(<<a, b>>, c) = <<a, b, c>>
<1> DEFINE s == <<a, b>>
           t == <<a, b, c>>
           u == Append(s, c)
<1>1. s \in Seq(S) /\ Len(s) = 2 /\ s[1] = a /\ s[2] = b
  OBVIOUS
<1>2. t \in Seq(S) /\ Len(t) = 3 /\ t[1] = a /\ t[2] = b /\ t[3] = c
  OBVIOUS
<1> HIDE DEF s, t
<1>3. u \in Seq(S) /\ Len(u) = 3 /\ u[1] = a /\ u[2] = b /\ u[3] = c
  <2>1. s \in Seq(S)
    BY <1>1
  <2>2. u \in Seq(S) /\ Len(u) = Len(s) + 1 /\ u[Len(s) + 1] = c
    BY <2>1, AppendProperties
  <2>3. \A i \in 1 .. Len(s) : u[i] = s[i]
    BY <2>1, AppendProperties
  <2> QED
    BY <1>1, <2>2, <2>3
<1> HIDE DEF u
<1>4. \A i \in 1 .. Len(u) : u[i] = t[i]
  BY <1>2, <1>3
<1>5. u = t
  BY <1>2, <1>3, <1>4, SeqEqual
<1> QED
  BY <1>5 DEF s, t, u

StepNames == {"plan", "retrieve", "summarize", "verify"}

(* One more step of an attempt, after any steps.                            *)
LEMMA AttemptGrows ==
  ASSUME NEW before \in Seq(StepNames)
  PROVE  /\ Append(before \o <<>>, "retrieve") = before \o <<"retrieve">>
         /\ Append(before \o <<"retrieve">>, "summarize") = before \o <<"retrieve", "summarize">>
         /\ Append(before \o <<"retrieve", "summarize">>, "verify") = before \o Attempt
<1>1. {"retrieve", "summarize", "verify"} \subseteq StepNames
  BY DEF StepNames
<1>2. /\ <<>> \in Seq(StepNames)
      /\ <<"retrieve">> \in Seq(StepNames)
      /\ <<"retrieve", "summarize">> \in Seq(StepNames)
  BY <1>1
<1>3. Append(<<>>, "retrieve") = <<"retrieve">>
  OBVIOUS
<1>4. Append(<<"retrieve">>, "summarize") = <<"retrieve", "summarize">>
  BY <1>1, AppendToOne
<1>5. Append(<<"retrieve", "summarize">>, "verify") = Attempt
  BY <1>1, AppendToTwo DEF Attempt
<1>6. ASSUME NEW t \in Seq(StepNames), NEW x \in StepNames
      PROVE  Append(before \o t, x) = before \o Append(t, x)
  OBVIOUS
<1> QED
  BY ZenonT(60), <1>1, <1>2, <1>3, <1>4, <1>5, <1>6

(* The steps before the attempt in progress.                                *)
Behind(pc, attempts) ==
  (IF pc = "plan" THEN <<>> ELSE <<"plan">>) \o (IF attempts = 0 THEN <<>> ELSE Attempt)

LEMMA BehindIsTyped ==
  ASSUME NEW pc, NEW attempts
  PROVE  Behind(pc, attempts) \in Seq(StepNames)
<1>1. <<>> \in Seq(StepNames) /\ <<"plan">> \in Seq(StepNames) /\ Attempt \in Seq(StepNames)
  BY DEF StepNames, Attempt
<1> HIDE DEF Attempt
<1>2. (IF pc = "plan" THEN <<>> ELSE <<"plan">>) \in Seq(StepNames)
  BY <1>1
<1>3. (IF attempts = 0 THEN <<>> ELSE Attempt) \in Seq(StepNames)
  BY <1>1
<1> QED
  BY <1>2, <1>3, ConcatProperties DEF Behind

(* The second attempt follows the whole of the first.                       *)
LEMMA BehindASecond ==
  /\ Behind("plan", 0) = <<>>
  /\ \A pc : pc # "plan" => Behind(pc, 0) = <<"plan">>
  /\ Behind("search", 1) = Behind("verify", 0) \o Attempt
<1>1. <<>> \in Seq(StepNames) /\ <<"plan">> \in Seq(StepNames)
  BY DEF StepNames
<1>2. <<>> \o <<>> = <<>> /\ <<"plan">> \o <<>> = <<"plan">>
  BY <1>1, ConcatEmptySeq
<1> QED
  BY <1>2 DEF Behind

(* What is behind does not change within an attempt.                        *)
LEMMA AgentTimes ==
  ASSUME AgentTypeOK, SearchInv, GroundedInv, TimelineInv, [Next]_vars
  PROVE  TimelineInv'
<1> DEFINE before == Behind(state.pc, state.attempts)
<1>1. before \in Seq(StepNames)
  BY BehindIsTyped
<1>2. ~At("failed") => state.steps = before \o Done
  BY DEF TimelineInv, Behind, At
<1>3. At("plan") => state.attempts = 0
  BY DEF SearchInv
<1>4. \A p \in {"plan", "search", "summarize", "verify", "failed"} : state.pc = p =>
        tx = Nothing /\ db = Nothing
  BY DEF TimelineInv, At, Nothing
<1> HIDE DEF before
<1>5. ASSUME tx' = Nothing, db' = Nothing,
             state'.pc \notin {"add_steps", "commit", "done"},
             state'.pc # "failed" => state'.steps = Behind(state'.pc, state'.attempts) \o Done'
      PROVE  TimelineInv'
  BY <1>5 DEF TimelineInv, Behind, At, Nothing
<1>6. CASE plan
  <2>1. state.pc = "plan" /\ state'.pc = "search" /\ state'.attempts = 0 /\ state.attempts = 0
    BY <1>3, <1>6 DEF plan, At, AgentTypeOK
  <2>2. state.steps = <<>>
    <3>1. Done = <<>>
      BY <2>1 DEF Done, At
    <3>2. before = <<>>
      BY <2>1, BehindASecond DEF before
    <3>3. <<>> \o <<>> = <<>>
      OBVIOUS
    <3> QED
      BY <1>2, <2>1, <3>1, <3>2, <3>3 DEF At
  <2>3. state'.steps = <<"plan">>
    <3>1. state'.steps = Append(state.steps, "plan")
      BY <1>6 DEF plan, AgentTypeOK
    <3> QED
      BY <2>2, <3>1
  <2>4. Behind(state'.pc, state'.attempts) \o Done' = <<"plan">>
    <3>1. Done' = <<>>
      BY <2>1 DEF Done, At
    <3>2. Behind(state'.pc, state'.attempts) = <<"plan">>
      BY <2>1, BehindASecond
    <3>3. <<"plan">> \o <<>> = <<"plan">>
      OBVIOUS
    <3> QED
      BY <3>1, <3>2, <3>3
  <2> QED
    BY <1>4, <1>5, <1>6, <2>1, <2>3, <2>4 DEF plan
<1>7. CASE search
  <2>1. PICK hits \in Returned : state' = searched(hits)
    BY <1>7 DEF search
  <2>2. state.pc = "search"
    BY <1>7 DEF search, At
  <2>3. state.steps = before \o <<>>
    BY <1>2, <2>2 DEF Done, At
  <2>4. CASE state.left > 1
    <3>1. state'.pc = "search" /\ state'.steps = state.steps /\ state'.attempts = state.attempts
      BY <2>1, <2>2, <2>4 DEF searched, AgentTypeOK
    <3>2. Done' = <<>>
      BY <3>1 DEF Done, At
    <3> QED
      BY <1>4, <1>5, <1>7, <2>2, <2>3, <3>1, <3>2 DEF search, before
  <2>5. CASE ~(state.left > 1)
    <3>1. /\ state'.pc = "summarize" /\ state'.steps = Append(state.steps, "retrieve")
          /\ state'.attempts = state.attempts
      BY <2>1, <2>2, <2>5 DEF searched, Retrieved, AgentTypeOK
    <3>2. Done' = <<"retrieve">>
      BY <3>1 DEF Done, At
    <3>3. Behind(state'.pc, state'.attempts) = before
      BY <2>2, <3>1 DEF Behind, before
    <3>4. state'.steps = before \o <<"retrieve">>
      BY <1>1, <2>3, <3>1, AttemptGrows
    <3> QED
      BY <1>4, <1>5, <1>7, <2>2, <3>1, <3>2, <3>3, <3>4 DEF search
  <2> QED
    BY <2>4, <2>5
<1>8. CASE summarize
  <2>1. /\ state.pc = "summarize" /\ state'.pc = "verify"
        /\ state'.steps = Append(state.steps, "summarize")
        /\ state'.attempts = state.attempts
    BY <1>8 DEF summarize, At, AgentTypeOK
  <2>2. state.steps = before \o <<"retrieve">>
    BY <1>2, <2>1 DEF Done, At
  <2>3. Done' = <<"retrieve", "summarize">>
    BY <2>1 DEF Done, At
  <2>4. Behind(state'.pc, state'.attempts) = before
    BY <2>1 DEF Behind, before
  <2>5. state'.steps = before \o <<"retrieve", "summarize">>
    BY <1>1, <2>1, <2>2, AttemptGrows
  <2> QED
    BY <1>4, <1>5, <1>8, <2>1, <2>3, <2>4, <2>5 DEF summarize
<1>9. CASE verify
  <2>1. /\ state.pc = "verify"
        /\ state'.steps = Append(state.steps, "verify")
        /\ \/ state'.pc = "search" /\ state.attempts = 0 /\ state'.attempts = 1
           \/ state'.pc = "add_run" /\ state'.attempts = state.attempts
    <3> DEFINE citations == build_citations(state.answer, ChunksOf(state.context))
               verified == Verified(citations)
    <3>1. \/ /\ state.attempts < 1
             /\ state' = [state EXCEPT !.citations = citations, !.verified = verified,
                                       !.steps = Append(@, "verify"), !.pc = "search",
                                       !.attempts = @ + 1, !.left = state.questions]
          \/ state' = [state EXCEPT !.citations = citations, !.verified = verified,
                                    !.steps = Append(@, "verify"), !.pc = "add_run"]
      BY <1>9 DEF verify, AgentTypeOK
    <3> HIDE DEF citations, verified
    <3>2. state.pc = "verify" /\ (state.attempts < 1 => state.attempts = 0)
      BY <1>9 DEF verify, At, AgentTypeOK
    <3> DEFINE steps == Append(state.steps, "verify")
    <3> HIDE DEF steps
    <3>3. CASE /\ state.attempts < 1
               /\ state' = [state EXCEPT !.citations = citations, !.verified = verified,
                                         !.steps = steps, !.pc = "search",
                                         !.attempts = @ + 1, !.left = state.questions]
      BY <3>2, <3>3 DEF AgentTypeOK, steps
    <3>4. CASE state' = [state EXCEPT !.citations = citations, !.verified = verified,
                                      !.steps = steps, !.pc = "add_run"]
      BY <3>2, <3>4 DEF AgentTypeOK, steps
    <3> QED
      BY <3>1, <3>3, <3>4 DEF steps
  <2>2. state.steps = before \o <<"retrieve", "summarize">>
    BY <1>2, <2>1 DEF Done, At
  <2>3. state'.steps = before \o Attempt
    BY <1>1, <2>1, <2>2, AttemptGrows
  <2>4. Behind(state'.pc, state'.attempts) \o Done' = before \o Attempt
    <3>1. CASE state'.pc = "search" /\ state.attempts = 0 /\ state'.attempts = 1
      <4>1. Done' = <<>>
        BY <3>1 DEF Done, At
      <4>2. Behind(state'.pc, state'.attempts) = before \o Attempt
        BY <2>1, <3>1, BehindASecond DEF before
      <4>3. Behind(state'.pc, state'.attempts) \in Seq(StepNames)
        BY BehindIsTyped
      <4> QED
        BY <4>1, <4>2, <4>3, ConcatEmptySeq
    <3>2. CASE state'.pc = "add_run" /\ state'.attempts = state.attempts
      <4>1. Done' = Attempt
        BY <3>2 DEF Done, At
      <4>2. Behind(state'.pc, state'.attempts) = before
        BY <2>1, <3>2 DEF Behind, before
      <4> QED
        BY <4>1, <4>2
    <3> QED
      BY <2>1, <3>1, <3>2
  <2> QED
    BY <1>4, <1>5, <1>9, <2>1, <2>3, <2>4 DEF verify
<1>10. ASSUME Judged, Judged', state'.steps = state.steps, state'.attempts = state.attempts
       PROVE  state'.steps = (IF At("plan")' THEN <<>> ELSE <<"plan">>)
                              \o (IF state'.attempts = 0 THEN <<>> ELSE Attempt) \o Done'
  <2>1. Done = Attempt /\ Done' = Attempt
    BY <1>10 DEF Judged, Done, At
  <2>2. Behind(state'.pc, state'.attempts) = before
    BY <1>10 DEF Judged, Behind, before
  <2>3. ~At("failed") /\ ~At("plan") /\ ~At("plan")'
    BY <1>10 DEF Judged, At
  <2> QED
    BY <1>2, <1>10, <2>1, <2>2, <2>3 DEF Behind, At
<1>11. CASE add_run
  <2>1. /\ state.pc = "add_run" /\ state'.pc = "add_steps" /\ state'.steps = state.steps
        /\ state'.attempts = state.attempts /\ state'.verified = state.verified
        /\ state'.answer = state.answer /\ state'.citations = state.citations
    BY <1>11 DEF add_run, At, AgentTypeOK
  <2>2. Judged /\ Judged' /\ Row' = Row
    BY <2>1 DEF Judged, Row
  <2>3. tx = [runs |-> {}, steps |-> {}] /\ db = [runs |-> {}, steps |-> {}]
    BY <2>1 DEF TimelineInv, At
  <2>4. tx' = [runs |-> {Row}, steps |-> {}] /\ db' = db
    BY <1>11, <2>3 DEF add_run
  <2> QED
    BY <1>10, <2>1, <2>2, <2>3, <2>4 DEF TimelineInv, At
<1>12. CASE add_steps
  <2>1. /\ state.pc = "add_steps" /\ state'.pc = "commit" /\ state'.steps = state.steps
        /\ state'.attempts = state.attempts /\ state'.verified = state.verified
        /\ state'.answer = state.answer /\ state'.citations = state.citations
    BY <1>12 DEF add_steps, At, AgentTypeOK
  <2>2. Judged /\ Judged' /\ Row' = Row
    BY <2>1 DEF Judged, Row
  <2>3. tx = [runs |-> {Row}, steps |-> {}] /\ db = [runs |-> {}, steps |-> {}]
    BY <2>1 DEF TimelineInv, At
  <2>4. tx' = [runs |-> {Row}, steps |-> Numbered(state.steps)] /\ db' = db
    BY <1>12, <2>3 DEF add_steps, Numbered
  <2> QED
    BY <1>10, <2>1, <2>2, <2>3, <2>4 DEF TimelineInv, At
<1>13. CASE commit
  <2>1. /\ state.pc = "commit" /\ state'.pc = "done" /\ state'.steps = state.steps
        /\ state'.attempts = state.attempts /\ state'.verified = state.verified
        /\ state'.answer = state.answer /\ state'.citations = state.citations
    BY <1>13 DEF commit, At, AgentTypeOK
  <2>2. Judged /\ Judged' /\ Row' = Row
    BY <2>1 DEF Judged, Row
  <2>3. tx = [runs |-> {Row}, steps |-> Numbered(state.steps)]
    BY <2>1 DEF TimelineInv, At
  <2>4. tx' = [runs |-> {}, steps |-> {}] /\ db' = tx
    BY <1>13 DEF commit, Nothing
  <2> QED
    BY <1>10, <2>1, <2>2, <2>3, <2>4 DEF TimelineInv, At
<1>14. CASE fail
  <2>1. state'.pc = "failed" /\ state.pc \notin {"done", "failed"} /\ tx' = Nothing /\ db' = db
    BY <1>14 DEF fail, AgentTypeOK
  <2>2. db = Nothing
    BY <2>1 DEF TimelineInv, At, Nothing
  <2> QED
    BY <1>5, <2>1, <2>2
<1>15. CASE UNCHANGED vars
  BY <1>15 DEF vars, TimelineInv, At, Done, Row
<1> QED
  BY <1>6, <1>7, <1>8, <1>9, <1>11, <1>12, <1>13, <1>14, <1>15 DEF Next

LEMMA AgentStarts == Init => AgentInv
<1> SUFFICES ASSUME Init PROVE AgentInv
  OBVIOUS
<1>1. AgentTypeOK
  BY DEF Init, AgentTypeOK
<1>2. state.pc = "plan" /\ state.merged = <<>> /\ state.attempts = 0 /\ state.steps = <<>>
  BY DEF Init
<1>3. SearchInv /\ GroundedInv
  BY <1>2 DEF Init, SearchInv, GroundedInv, ContextIsBestFound, At, Judged
<1>4. TimelineInv
  <2>1. Done = <<>> /\ (<<>> \o <<>>) \o <<>> = <<>>
    BY <1>2 DEF Done, At
  <2> QED
    BY <1>2, <2>1 DEF Init, TimelineInv, At, Nothing
<1> QED
  BY <1>1, <1>3, <1>4 DEF AgentInv

LEMMA AgentInvariance == Spec => []AgentInv
<1>1. AgentInv /\ [Next]_vars => AgentInv'
  BY AgentTyped, AgentSearches, AgentGrounds, AgentTimes DEF AgentInv
<1> QED
  BY <1>1, AgentStarts, PTL DEF Spec

(* The context of an attempt is the best of everything its searches found,  *)
(* however many sub-questions there are and whatever each returned.         *)
THEOREM ContextsAreBestFound == Spec => []ContextIsBestFound
  BY AgentInvariance, PTL DEF AgentInv, SearchInv

(* A run recorded as succeeded cites every chunk its answer numbers, and    *)
(* what it cites is what the model was shown.                               *)
THEOREM SuccessesAreGrounded == Spec => []SuccessIsGrounded
<1>1. ASSUME AgentTypeOK, GroundedInv, TimelineInv PROVE SuccessIsGrounded
  <2>1. SUFFICES ASSUME At("done"), state.verified
                 PROVE  LET shown == {n \in ToSet(state.answer) : n \in DOMAIN state.prompt} IN
                        /\ Len(state.citations) = Cardinality(shown) /\ shown # {}
                        /\ \A i \in DOMAIN state.citations :
                             state.citations[i].chunk = state.prompt[state.citations[i].marker]
    <3>1. db.runs = IF At("done") THEN {Row} ELSE {}
      BY <1>1 DEF TimelineInv
    <3>2. /\ Row.status = "succeeded" => state.verified
          /\ Row.answer = state.answer
          /\ Row.citations = Len(state.citations)
      BY DEF Row
    <3> HIDE DEF Row
    <3> QED
      BY <3>1, <3>2 DEF SuccessIsGrounded
  <2> DEFINE cites == state.citations
             n == Len(cites)
             shown == {m \in ToSet(state.answer) : m \in DOMAIN state.prompt}
  <2>2. cites = build_citations(state.answer, state.prompt) /\ cites # <<>>
    BY <1>1, <2>1 DEF GroundedInv, Judged, At
  <2>3. state.answer \in Seq(Int) /\ state.prompt \in Seq(Chunks)
    BY <1>1 DEF AgentTypeOK
  <2>4. /\ cites \in Seq(Citation(Chunks))
        /\ Resolved(cites, state.prompt)
        /\ CitedOnce(cites)
        /\ Numbers(cites) = ToSet(state.answer) \cap DOMAIN state.prompt
    BY <2>2, <2>3, CitationsOnce
  <2>5. shown = Numbers(cites)
    BY <2>4
  <2> HIDE DEF cites, shown
  <2>6. n \in Nat /\ DOMAIN cites = 1 .. n /\ n # 0
    BY <2>2, <2>4
  <2>7. n = Cardinality(shown)
    <3> DEFINE f == [i \in 1 .. n |-> cites[i].marker]
    <3>1. f \in [1 .. n -> shown] /\ \A y \in shown : \E i \in 1 .. n : f[i] = y
      BY <2>5, <2>6 DEF Numbers
    <3>2. \A i, j \in 1 .. n : f[i] = f[j] => i = j
      BY <2>4, <2>6 DEF CitedOnce
    <3> HIDE DEF f, n
    <3>3. Lists(f, n, shown)
      BY <3>1, <3>2 DEF Lists
    <3> QED
      BY <2>6, <3>3, Counted
  <2>8. shown # {}
    <3>1. cites[1].marker \in shown
      BY <2>5, <2>6 DEF Numbers
    <3> QED
      BY <3>1
  <2> QED
    BY <2>4, <2>7, <2>8 DEF cites, shown, Resolved
<1> QED
  BY <1>1, AgentInvariance, PTL DEF AgentInv

(* A committed run has every step of its attempts and no other, and is      *)
(* unverified only after the second.                                        *)
THEOREM TimelinesAreWhole == Spec => []TimelineIsWhole
<1>1. ASSUME GroundedInv, TimelineInv PROVE TimelineIsWhole
  <2>1. CASE At("done")
    <3> DEFINE timeline == <<"plan">> \o Attempt
                             \o (IF state.attempts = 0 THEN <<>> ELSE Attempt)
    <3>1. state.steps = (<<"plan">> \o (IF state.attempts = 0 THEN <<>> ELSE Attempt)) \o Attempt
      BY <1>1, <2>1 DEF TimelineInv, At, Done
    <3>2. state.steps = timeline
      <4>1. <<"plan">> \in Seq(StepNames) /\ Attempt \in Seq(StepNames)
        BY DEF StepNames, Attempt
      <4> HIDE DEF Attempt
      <4>2. <<"plan">> \o <<>> = <<"plan">> /\ (<<"plan">> \o Attempt) \o <<>> = <<"plan">> \o Attempt
        BY <4>1
      <4> QED
        BY <3>1, <4>2
    <3>3. db.runs = {Row} /\ db.steps = Numbered(timeline)
      BY <1>1, <2>1, <3>2 DEF TimelineInv
    <3>4. Row.status = "unverified" => state.attempts = 1
      BY <1>1, <2>1 DEF Row, GroundedInv, Judged, At
    <3> HIDE DEF timeline
    <3>5. db.steps = IF db.runs = {} THEN {} ELSE {<<i, timeline[i]>> : i \in DOMAIN timeline}
      BY <3>3 DEF Numbered
    <3> QED
      BY <3>3, <3>4, <3>5 DEF TimelineIsWhole, timeline
  <2>2. CASE ~At("done")
    BY <1>1, <2>2 DEF TimelineInv, TimelineIsWhole
  <2> QED
    BY <2>1, <2>2
<1> QED
  BY <1>1, AgentInvariance, PTL DEF AgentInv

-----------------------------------------------------------------------------
(* The inductive invariant of the evaluation.                               *)

Fractions == 0 .. 1000

Scorings == UNION {[K -> Int] : K \in SUBSET Metrics}

DatasetRows == [id : Nat, org : Orgs, size : Nat]
SampleRows == [dataset : Nat, n : Nat, sample : Sample]
RunRows == [id : Nat, dataset : Nat, org : Orgs, metrics : Scorings]
ResultRows == [run : Nat, sample : SampleRows, answer : Answers, scores : Scorings]

Records == [datasets : SUBSET DatasetRows, samples : SUBSET SampleRows,
            runs : SUBSET RunRows, results : SUBSET ResultRows]

EvaluationTypeOK ==
  /\ tables \in Records
  /\ flushed \in [Requesters -> Records]
  /\ job \in [Requesters ->
       [pc : {"rest", "addDataset", "addSamples", "save", "getDataset", "listSamples",
              "openRun", "answer"},
        id : Nat, org : Orgs, samples : Seq(Sample), dataset : Nat,
        pending : SUBSET SampleRows, aggregate : Scorings, scored : SUBSET ResultRows]]
  /\ \A r \in Requesters : IsFiniteSet(job[r].scored)
  /\ studies \in Nat

(* The ids the committed rows are under.                                    *)
Ids(t) == {x.id : x \in t.datasets} \cup {x.dataset : x \in t.samples}
            \cup {x.id : x \in t.runs} \cup {x.run : x \in t.results}

(* A request in progress has a number of its own.                           *)
IdsInv ==
  /\ Ids(tables) \subseteq 1 .. studies
  /\ \A r \in Requesters : ~Is(r, "rest") => job[r].id \in (1 .. studies) \ Ids(tables)
  /\ \A r, q \in Requesters : ~Is(r, "rest") /\ ~Is(q, "rest") /\ r # q => job[r].id # job[q].id

SamplesOf(t, d) == {s \in t.samples : s.dataset = d}

Posted(j) == [id |-> j.id, org |-> j.org, size |-> Len(j.samples)]

PostedSamples(j) ==
  {[dataset |-> j.id, n |-> i, sample |-> j.samples[i]] : i \in DOMAIN j.samples}

Answered(j) == {x.sample : x \in j.scored}

(* What a request that stands at j has flushed, on tables t.                *)
FlushedIs(j, f) ==
  LET created == j.pc = "save" /\ j.dataset = 0
      scored  == j.pc = "save" /\ j.dataset # 0 IN
  /\ f.datasets = IF j.pc = "addSamples" \/ created THEN {Posted(j)} ELSE {}
  /\ f.samples = IF created THEN PostedSamples(j) ELSE {}
  /\ IF j.pc = "answer" \/ scored
     THEN \E x \in f.runs :
            f.runs = {[id |-> j.id, dataset |-> j.dataset, org |-> j.org, metrics |-> x.metrics]}
     ELSE f.runs = {}
  /\ f.results = IF scored THEN j.scored ELSE {}

(* What it has read and done: a run has a dataset of its organisation, and  *)
(* has answered every sample of it that is not pending, once.               *)
ScoredIs(j, t) ==
  /\ j.pc \in {"addDataset", "addSamples"} => j.dataset = 0
  /\ j.pc \in {"getDataset", "listSamples", "openRun", "answer"} => j.dataset # 0
  /\ j.pc \in {"getDataset", "listSamples", "openRun"} => j.scored = {}
  /\ j.dataset # 0 /\ j.pc \in {"listSamples", "openRun", "answer", "save"} =>
       \E d \in t.datasets : d.id = j.dataset /\ d.org = j.org
  /\ j.dataset # 0 /\ j.pc \in {"openRun", "answer", "save"} =>
       /\ j.pending \cup Answered(j) = SamplesOf(t, j.dataset)
       /\ j.pending \cap Answered(j) = {}
       /\ \A x, y \in j.scored : x.sample = y.sample => x = y
       /\ \A x \in j.scored : x.run = j.id
  /\ j.dataset # 0 /\ j.pc = "save" => j.pending = {}

JobsInv == \A r \in Requesters : FlushedIs(job[r], flushed[r]) /\ ScoredIs(job[r], tables)

(* A committed dataset has the samples it was posted with.                  *)
DatasetIsWhole(t, d) ==
  /\ {s.n : s \in SamplesOf(t, d.id)} = 1 .. d.size
  /\ \A s, x \in SamplesOf(t, d.id) : s.n = x.n => s = x

DatasetsAreWhole == \A d \in tables.datasets : DatasetIsWhole(tables, d)

EvaluationInv ==
  EvaluationTypeOK /\ IdsInv /\ JobsInv /\ DatasetsAreWhole /\ RunsAreWhole

(* What is missing from a hundred per cent is, but for the rounding, at     *)
(* least the share of one.                                                  *)
LEMMA ThousandthsAreFractions ==
  ASSUME NEW a \in Nat, NEW b \in Nat \ {0}, a <= b
  PROVE  /\ Thousandths(a, b) \in Fractions
         /\ a < b => 2000 <= b * (2 * (1000 - Thousandths(a, b)) + 1)
<1>1. PICK q : q = Thousandths(a, b)
  OBVIOUS
<1> DEFINE n == 2000 * a + b
           d == 2 * b
<1>2. n \in Nat /\ d \in Nat \ {0} /\ q = n \div d
  BY <1>1 DEF Thousandths
<1>3. q \in Int /\ d * q <= n /\ n < d * q + d
  <2> HIDE DEF n, d
  <2> QED
    BY <1>2
<1>4. PICK p : p = b * q
  OBVIOUS
<1>5. p \in Int /\ 2 * p <= 2000 * a + b /\ 2000 * a + b < 2 * p + 2 * b
  BY <1>3, <1>4
<1>6. 0 <= q
  <2>1. q < 0 => p <= -b
    BY <1>3, <1>4
  <2> QED
    BY <1>3, <1>5, <2>1
<1>7. q <= 1000
  <2>1. q >= 1001 => p >= 1001 * b
    BY <1>3, <1>4
  <2> QED
    BY <1>3, <1>5, <2>1
<1>8. b * (2 * (1000 - q) + 1) = 2000 * b - 2 * p + b
  BY <1>3, <1>4
<1>9. a < b => 2000 <= 2000 * b - 2 * p + b
  BY <1>5
<1>10. q \in Fractions
  BY <1>3, <1>6, <1>7 DEF Fractions
<1>11. a < b => 2000 <= b * (2 * (1000 - q) + 1)
  BY <1>8, <1>9
<1> HIDE DEF n, d
<1> QED
  BY <1>1, <1>10, <1>11

LEMMA CoverageIs ==
  ASSUME NEW target \in SUBSET Words, NEW source
  PROVE  /\ coverage(target, source) \in Fractions
         /\ ~(target \subseteq source) =>
              2000 <= Cardinality(target) * (2 * (1000 - coverage(target, source)) + 1)
<1>1. CASE target = {}
  <2>1. 0 \in Fractions
    BY DEF Fractions
  <2> QED
    BY <1>1, <2>1 DEF coverage
<1>2. CASE target # {}
  <2>1. IsFiniteSet(target)
    BY EvaluationAssumption, FS_Subset
  <2>2. Cardinality(target) \in Nat \ {0} /\ Cardinality(target \cap source) \in Nat
    BY <1>2, <2>1, FS_Subset, FS_CardinalityType, FS_EmptySet
  <2>3. /\ Cardinality(target \cap source) <= Cardinality(target)
        /\ target \cap source # target => Cardinality(target \cap source) < Cardinality(target)
    <3>1. target \cap source \in SUBSET target
      OBVIOUS
    <3>2. /\ Cardinality(target \cap source) <= Cardinality(target)
          /\ Cardinality(target \cap source) = Cardinality(target) => target \cap source = target
      BY <2>1, <3>1, FS_Subset
    <3> QED
      BY <2>2, <3>2
  <2>4. coverage(target, source) = Thousandths(Cardinality(target \cap source), Cardinality(target))
    BY <1>2 DEF coverage
  <2>5. ~(target \subseteq source) => target \cap source # target
    OBVIOUS
  <2> QED
    BY <2>2, <2>3, <2>4, <2>5, ThousandthsAreFractions
<1> QED
  BY <1>1, <1>2

LEMMA CoverageIsAFraction ==
  ASSUME NEW target \in SUBSET Words, NEW source
  PROVE  coverage(target, source) \in Fractions
<1>1. /\ coverage(target, source) \in Fractions
      /\ ~(target \subseteq source) =>
           2000 <= Cardinality(target) * (2 * (1000 - coverage(target, source)) + 1)
  BY CoverageIs
<1> QED
  BY <1>1, Zenon

LEMMA PrecisionIsAFraction ==
  ASSUME NEW reference, NEW contexts \in Seq(SUBSET Words)
  PROVE  context_precision(reference, contexts) \in Fractions
<1>1. CASE contexts = <<>>
  <2>1. 0 \in Fractions
    BY DEF Fractions
  <2> QED
    BY <1>1, <2>1 DEF context_precision
<1>2. CASE contexts # <<>>
  <2> DEFINE Relevant(c) == /\ reference # {}
                            /\ 10 * Cardinality(reference \cap c) >= Cardinality(reference)
             n == Len(contexts)
             relevant == {i \in DOMAIN contexts : Relevant(contexts[i])}
  <2>1. n \in Nat \ {0} /\ DOMAIN contexts = 1 .. n
    BY <1>2
  <2>2. IsFiniteSet(DOMAIN contexts) /\ Cardinality(DOMAIN contexts) \in Nat \ {0}
    BY <2>1, FS_Interval
  <2>3. IsFiniteSet(relevant) /\ Cardinality(relevant) <= Cardinality(DOMAIN contexts)
    BY <2>2, FS_Subset
  <2>4. Cardinality(relevant) \in Nat
    BY <2>3, FS_CardinalityType
  <2>5. context_precision(reference, contexts)
          = Thousandths(Cardinality(relevant), Cardinality(DOMAIN contexts))
    BY <1>2 DEF context_precision
  <2> HIDE DEF relevant
  <2> QED
    BY <2>2, <2>3, <2>4, <2>5, ThousandthsAreFractions
<1> QED
  BY <1>1, <1>2

(* The metrics of a sample, in thousandths: faithfulness and hallucination  *)
(* make a whole, and a word that is in no context is a part of the second.  *)
LEMMA ScoresAreFractions ==
  ASSUME NEW sample \in Sample, NEW answer \in SUBSET Words
  PROVE  LET scores == evaluate_sample(sample, answer) IN
         /\ DOMAIN scores \in SUBSET Metrics
         /\ {"faithfulness", "hallucination"} \subseteq DOMAIN scores
         /\ \A k \in DOMAIN scores : scores[k] \in Fractions
         /\ scores \in [DOMAIN scores -> Int]
         /\ scores["faithfulness"] + scores["hallucination"] = 1000
         /\ \A w \in answer : (\A i \in DOMAIN sample.contexts : w \notin sample.contexts[i]) =>
              2000 <= Cardinality(answer) * (2 * scores["hallucination"] + 1)
<1> DEFINE K == IF sample.truth = NoTruth THEN Metrics \ {"context_recall"} ELSE Metrics
           scores == evaluate_sample(sample, answer)
<1>1. /\ sample.question \in SUBSET Words
      /\ sample.truth # NoTruth => sample.truth \in SUBSET Words
      /\ sample.contexts \in Seq(SUBSET Words)
  <2>1. /\ sample.question \in SUBSET Words
        /\ sample.truth \in (SUBSET Words) \cup {NoTruth}
        /\ sample.contexts \in Seq(SUBSET Words)
    BY Zenon DEF Sample
  <2>2. sample.truth # NoTruth => sample.truth \in SUBSET Words
    BY <2>1, Zenon
  <2> QED
    BY <2>1, <2>2, Zenon
<1>2. PICK faith : faith = faithfulness(answer, sample.contexts)
  OBVIOUS
<1>3. faith \in Fractions /\ 1000 - faith \in Fractions
  <2>1. faith \in Fractions
    BY <1>2, CoverageIsAFraction DEF faithfulness
  <2> QED
    BY <2>1 DEF Fractions
<1>4. coverage(sample.question, answer) \in Fractions
  BY <1>1, CoverageIsAFraction
<1>5. context_precision(IF sample.truth = NoTruth THEN sample.question ELSE sample.truth,
                        sample.contexts) \in Fractions
  BY <1>1, PrecisionIsAFraction
<1>6. sample.truth # NoTruth => faithfulness(sample.truth, sample.contexts) \in Fractions
  BY <1>1, CoverageIsAFraction DEF faithfulness
<1>7. scores = [k \in K |->
                  CASE k = "faithfulness" -> faith
                    [] k = "answer_relevancy" -> coverage(sample.question, answer)
                    [] k = "context_precision" ->
                         context_precision(IF sample.truth = NoTruth THEN sample.question
                                           ELSE sample.truth, sample.contexts)
                    [] k = "hallucination" -> 1000 - faith
                    [] k = "context_recall" -> faithfulness(sample.truth, sample.contexts)]
  BY <1>2 DEF evaluate_sample
<1>8. ASSUME NEW k \in K PROVE scores[k] \in Fractions
  <2>1. /\ k \in Metrics
        /\ k = "context_recall" => sample.truth # NoTruth
    OBVIOUS
  <2> HIDE DEF K, scores
  <2> QED
    BY <1>3, <1>4, <1>5, <1>6, <1>7, <2>1 DEF Metrics
<1>9. K \in SUBSET Metrics /\ {"faithfulness", "hallucination"} \subseteq K
  BY DEF Metrics
<1>10. DOMAIN scores = K /\ scores \in [K -> Int]
  <2>1. Fractions \subseteq Int
    BY DEF Fractions
  <2> HIDE DEF K
  <2> QED
    BY ZenonT(60), <1>7, <1>8, <2>1
<1>11. scores["faithfulness"] = faith /\ scores["hallucination"] = 1000 - faith
  <2> HIDE DEF K, scores
  <2> QED
    BY <1>7, <1>9
<1>12. ASSUME NEW w \in answer, \A i \in DOMAIN sample.contexts : w \notin sample.contexts[i]
       PROVE  2000 <= Cardinality(answer) * (2 * (1000 - faith) + 1)
  <2>1. ~(answer \subseteq UNION {sample.contexts[i] : i \in DOMAIN sample.contexts})
    BY <1>12
  <2> QED
    BY <1>2, <2>1, CoverageIs DEF faithfulness
<1>13. scores["faithfulness"] + scores["hallucination"] = 1000
  BY <1>3, <1>11 DEF Fractions
<1> HIDE DEF scores, K
<1> QED
  BY <1>8, <1>9, <1>10, <1>11, <1>12, <1>13 DEF scores

LEMMA ScoresAreScorings ==
  ASSUME NEW sample \in Sample, NEW answer \in SUBSET Words
  PROVE  evaluate_sample(sample, answer) \in Scorings
BY ScoresAreFractions DEF Scorings

LEMMA AggregatesAreScorings ==
  ASSUME NEW aggregate \in Scorings, NEW scores \in Scorings
  PROVE  aggregated(aggregate, scores) \in Scorings
<1>1. PICK K \in SUBSET Metrics : aggregate \in [K -> Int]
  BY DEF Scorings
<1>2. PICK L \in SUBSET Metrics : scores \in [L -> Int]
  BY DEF Scorings
<1>3. aggregated(aggregate, scores) \in [K \cup L -> Int]
  BY <1>1, <1>2 DEF aggregated
<1> QED
  BY <1>3 DEF Scorings

LEMMA MeansAreScorings ==
  ASSUME NEW aggregate \in Scorings, NEW n \in Nat \ {0}, NEW up
  PROVE  Mean(aggregate, n, up) \in Scorings
<1>1. PICK K \in SUBSET Metrics : aggregate \in [K -> Int]
  BY DEF Scorings
<1>2. ASSUME NEW k \in K
      PROVE  (2 * aggregate[k] + n - (IF k \in up THEN 0 ELSE 1)) \div (2 * n) \in Int
  <2>1. aggregate[k] \in Int
    BY <1>1
  <2>2. 2 * aggregate[k] + n - (IF k \in up THEN 0 ELSE 1) \in Int /\ 2 * n \in Int /\ 2 * n > 0
    BY <2>1
  <2> QED
    BY <2>2
<1>3. Mean(aggregate, n, up) \in [K -> Int]
  BY <1>1, <1>2 DEF Mean
<1> QED
  BY <1>3 DEF Scorings

(* Tables and sessions. *)

LEMMA RestingIsTyped ==
  /\ Resting.pc = "rest" /\ Resting.id = 0 /\ Resting.org \in Orgs /\ Resting.samples = <<>>
  /\ Resting.dataset = 0 /\ Resting.pending = {} /\ Resting.aggregate = <<>>
  /\ Resting.scored = {}
  /\ <<>> \in Scorings
<1>1. (CHOOSE o \in Orgs : TRUE) \in Orgs
  BY EvaluationAssumption
<1>2. <<>> \in [{} -> Int]
  OBVIOUS
<1> QED
  BY <1>1, <1>2 DEF Resting, Scorings

(* The type of a request, and of the requests once one has moved.           *)
JobRows ==
  [pc : {"rest", "addDataset", "addSamples", "save", "getDataset", "listSamples", "openRun",
         "answer"},
   id : Nat, org : Orgs, samples : Seq(Sample), dataset : Nat,
   pending : SUBSET SampleRows, aggregate : Scorings, scored : SUBSET ResultRows]

LEMMA RestingIsARow == Resting \in JobRows
<1>1. (CHOOSE o \in Orgs : TRUE) \in Orgs /\ <<>> \in Scorings
  BY EvaluationAssumption, RestingIsTyped
<1> QED
  BY <1>1 DEF Resting, JobRows

LEMMA OneMoves ==
  ASSUME EvaluationTypeOK, NEW r \in Requesters, NEW j \in JobRows, IsFiniteSet(j.scored),
         job' = [job EXCEPT ![r] = j],
         NEW f \in Records, flushed' = [flushed EXCEPT ![r] = f],
         tables' \in Records, studies' \in Nat
  PROVE  /\ EvaluationTypeOK'
         /\ job'[r] = j /\ flushed'[r] = f
         /\ \A q \in Requesters \ {r} : job'[q] = job[q] /\ flushed'[q] = flushed[q]
<1>1. job \in [Requesters -> JobRows] /\ flushed \in [Requesters -> Records]
  BY DEF EvaluationTypeOK, JobRows
<1>2. job' \in [Requesters -> JobRows] /\ flushed' \in [Requesters -> Records]
  BY <1>1
<1>3. /\ job'[r] = j /\ flushed'[r] = f
      /\ \A q \in Requesters \ {r} : job'[q] = job[q] /\ flushed'[q] = flushed[q]
  BY <1>1
<1>4. \A q \in Requesters : IsFiniteSet(job'[q].scored)
  BY <1>3 DEF EvaluationTypeOK
<1>5. EvaluationTypeOK'
  BY <1>2, <1>4 DEF EvaluationTypeOK, JobRows
<1> QED
  BY <1>3, <1>5

(* A step of one request that commits nothing.                              *)
LEMMA OneAdvances ==
  ASSUME EvaluationInv, NEW r \in Requesters, NEW j \in JobRows, IsFiniteSet(j.scored),
         job' = [job EXCEPT ![r] = j],
         NEW f \in Records, flushed' = [flushed EXCEPT ![r] = f],
         FlushedIs(j, f), ScoredIs(j, tables),
         tables' = tables, studies' \in Nat,
         \/ j.pc = "rest" /\ studies' = studies
         \/ job[r].pc # "rest" /\ j.id = job[r].id /\ studies' = studies
         \/ j.id = studies + 1 /\ studies' = studies + 1
  PROVE  EvaluationInv'
<1>1. EvaluationTypeOK /\ IdsInv /\ JobsInv /\ DatasetsAreWhole /\ RunsAreWhole
  BY DEF EvaluationInv
<1>2. tables' \in Records /\ studies \in Nat
  BY <1>1 DEF EvaluationTypeOK
<1>3. /\ EvaluationTypeOK'
      /\ job'[r] = j /\ flushed'[r] = f
      /\ \A q \in Requesters \ {r} : job'[q] = job[q] /\ flushed'[q] = flushed[q]
  BY <1>1, <1>2, OneMoves
<1>4. JobsInv'
  <2>1. ASSUME NEW q \in Requesters PROVE (FlushedIs(job[q], flushed[q]) /\ ScoredIs(job[q], tables))'
    <3>1. CASE q = r
      BY <1>3, <3>1
    <3>2. CASE q # r
      <4>1. FlushedIs(job[q], flushed[q]) /\ ScoredIs(job[q], tables)
        BY <1>1 DEF JobsInv
      <4> QED
        BY <1>3, <3>2, <4>1
    <3> QED
      BY <3>1, <3>2
  <2> QED
    BY <2>1 DEF JobsInv
<1>5. IdsInv'
  <2>1. Ids(tables)' = Ids(tables)
    BY DEF Ids
  <2> DEFINE ids == Ids(tables)
  <2>2. /\ ids \subseteq 1 .. studies
        /\ \A q \in Requesters : job[q].pc # "rest" => job[q].id \in (1 .. studies) \ ids
        /\ \A p, q \in Requesters : job[p].pc # "rest" /\ job[q].pc # "rest" /\ p # q =>
             job[p].id # job[q].id
    BY <1>1 DEF IdsInv, Is
  <2> HIDE DEF ids
  <2>3. 1 .. studies \subseteq 1 .. studies'
    BY <1>2
  <2>4. ASSUME NEW q \in Requesters, job'[q].pc # "rest"
        PROVE  job'[q].id \in (1 .. studies') \ ids
    <3>1. CASE q # r
      BY <1>3, <2>2, <2>3, <2>4, <3>1
    <3>2. CASE q = r /\ job[r].pc # "rest" /\ j.id = job[r].id
      BY <1>3, <2>2, <2>3, <3>2
    <3>3. CASE q = r /\ j.id = studies + 1 /\ studies' = studies + 1
      BY <1>2, <1>3, <2>2, <3>3
    <3> QED
      BY <1>3, <2>4, <3>1, <3>2, <3>3
  <2>5. ASSUME NEW p \in Requesters, NEW q \in Requesters, job'[p].pc # "rest",
               job'[q].pc # "rest", p # q
        PROVE  job'[p].id # job'[q].id
    <3>1. CASE p # r /\ q # r
      BY <1>3, <2>2, <2>5, <3>1
    <3>2. CASE j.id = studies + 1
      BY <1>2, <1>3, <2>2, <2>5, <3>2
    <3>3. CASE job[r].pc # "rest" /\ j.id = job[r].id
      BY <1>3, <2>2, <2>5, <3>3
    <3> QED
      BY <1>3, <2>5, <3>1, <3>2, <3>3
  <2>6. ids \subseteq 1 .. studies'
    BY <2>2, <2>3
  <2> QED
    BY <2>1, <2>4, <2>5, <2>6 DEF IdsInv, Is, ids
<1>6. DatasetsAreWhole' /\ RunsAreWhole'
  BY <1>1 DEF DatasetsAreWhole, DatasetIsWhole, SamplesOf, RunsAreWhole, ResultsOf
<1> QED
  BY <1>3, <1>4, <1>5, <1>6 DEF EvaluationInv

(* Each step of a request, but the last, moves it and what it has flushed.  *)

LEMMA Here ==
  ASSUME EvaluationInv, NEW r \in Requesters
  PROVE  /\ job[r] \in JobRows /\ flushed[r] \in Records /\ IsFiniteSet(job[r].scored)
         /\ FlushedIs(job[r], flushed[r]) /\ ScoredIs(job[r], tables)
         /\ tables \in Records /\ studies \in Nat
         /\ flushed = [flushed EXCEPT ![r] = flushed[r]]
BY DEF EvaluationInv, EvaluationTypeOK, JobsInv, JobRows

LEMMA NothingFlushed ==
  /\ NoRecords \in Records
  /\ \A j \in JobRows : j.pc \in {"rest", "addDataset", "getDataset", "listSamples", "openRun"} =>
       FlushedIs(j, NoRecords)
  /\ \A j \in JobRows, f \in Records :
       j.pc \in {"rest", "addDataset", "getDataset", "listSamples", "openRun"} /\ FlushedIs(j, f)
         => f = NoRecords
<1>1. NoRecords \in Records
  BY DEF NoRecords, Records
<1>2. ASSUME NEW j \in JobRows,
             j.pc \in {"rest", "addDataset", "getDataset", "listSamples", "openRun"}
      PROVE  FlushedIs(j, NoRecords)
  BY <1>2 DEF FlushedIs, NoRecords
<1>3. ASSUME NEW j \in JobRows, NEW f \in Records, FlushedIs(j, f),
             j.pc \in {"rest", "addDataset", "getDataset", "listSamples", "openRun"}
      PROVE  f = NoRecords
  <2>1. f.datasets = {} /\ f.samples = {} /\ f.runs = {} /\ f.results = {}
    BY <1>3 DEF FlushedIs
  <2> QED
    BY <2>1 DEF Records, NoRecords
<1> QED
  BY <1>1, <1>2, <1>3

LEMMA RestingIsInv == FlushedIs(Resting, NoRecords) /\ ScoredIs(Resting, tables)
<1>1. FlushedIs(Resting, NoRecords)
  BY RestingIsARow, RestingIsTyped, NothingFlushed
<1>2. ScoredIs(Resting, tables)
  BY RestingIsTyped DEF ScoredIs
<1> QED
  BY <1>1, <1>2

LEMMA OverIsInv ==
  ASSUME EvaluationInv, NEW r \in Requesters, Over(r), UNCHANGED <<tables, studies>>
  PROVE  EvaluationInv'
<1>1. studies \in Nat
  BY Here
<1>2. IsFiniteSet(Resting.scored)
  BY RestingIsTyped, FS_EmptySet
<1> QED
  BY <1>1, <1>2, OneAdvances, NothingFlushed, RestingIsARow, RestingIsTyped, RestingIsInv DEF Over

LEMMA RequestIsInv ==
  ASSUME EvaluationInv, NEW r \in Requesters, request_study(r)
  PROVE  EvaluationInv'
<1>1. PICK o \in Orgs :
        \/ \E s \in Datasets :
             job' = [job EXCEPT ![r] = [Resting EXCEPT !.pc = "addDataset", !.id = studies + 1,
                                                       !.org = o, !.samples = s]]
        \/ \E d \in 1 .. studies :
             job' = [job EXCEPT ![r] = [Resting EXCEPT !.pc = "getDataset", !.id = studies + 1,
                                                       !.org = o, !.dataset = d]]
  BY DEF request_study
<1>2. studies' = studies + 1 /\ studies + 1 \in Nat /\ tables' = tables
  <2>1. studies' = studies + 1 /\ tables' = tables
    BY DEF request_study
  <2>2. studies \in Nat
    BY Here
  <2> QED
    BY <2>1, <2>2
<1>3. flushed[r] = NoRecords
  BY Here, NothingFlushed DEF request_study, Is
<1>4. flushed' = [flushed EXCEPT ![r] = NoRecords]
  <2>1. flushed' = flushed
    BY DEF request_study
  <2>2. flushed = [flushed EXCEPT ![r] = flushed[r]]
    BY Here
  <2> QED
    BY <1>3, <2>1, <2>2
<1>5. ASSUME NEW j \in JobRows, j.id = studies + 1, j.scored = {},
             job' = [job EXCEPT ![r] = j],
             \/ j.pc = "addDataset" /\ j.dataset = 0
             \/ j.pc = "getDataset" /\ j.dataset # 0
      PROVE  EvaluationInv'
  <2>1. IsFiniteSet(j.scored)
    BY <1>5, FS_EmptySet
  <2>2. FlushedIs(j, NoRecords) /\ NoRecords \in Records
    BY <1>5, NothingFlushed
  <2>3. ScoredIs(j, tables)
    BY <1>5 DEF ScoredIs
  <2>4. studies' \in Nat
    BY <1>2
  <2> QED
    BY <1>2, <1>4, <1>5, <2>1, <2>2, <2>3, <2>4, OneAdvances
<1>6. CASE \E s \in Datasets :
             job' = [job EXCEPT ![r] = [Resting EXCEPT !.pc = "addDataset", !.id = studies + 1,
                                                       !.org = o, !.samples = s]]
  <2>1. PICK s \in Datasets :
          job' = [job EXCEPT ![r] = [Resting EXCEPT !.pc = "addDataset", !.id = studies + 1,
                                                    !.org = o, !.samples = s]]
    BY <1>6
  <2> DEFINE j == [Resting EXCEPT !.pc = "addDataset", !.id = studies + 1, !.org = o,
                                  !.samples = s]
  <2>2. s \in Seq(Sample)
    BY EvaluationAssumption
  <2>3. /\ j \in JobRows /\ j.id = studies + 1 /\ j.scored = {}
        /\ j.pc = "addDataset" /\ j.dataset = 0
    BY <1>2, <2>2, RestingIsARow, RestingIsTyped DEF JobRows
  <2>4. job' = [job EXCEPT ![r] = j]
    BY <2>1
  <2> HIDE DEF j
  <2> QED
    BY <1>5, <2>3, <2>4
<1>7. CASE \E d \in 1 .. studies :
             job' = [job EXCEPT ![r] = [Resting EXCEPT !.pc = "getDataset", !.id = studies + 1,
                                                       !.org = o, !.dataset = d]]
  <2>1. PICK d \in 1 .. studies :
          job' = [job EXCEPT ![r] = [Resting EXCEPT !.pc = "getDataset", !.id = studies + 1,
                                                    !.org = o, !.dataset = d]]
    BY <1>7
  <2> DEFINE j == [Resting EXCEPT !.pc = "getDataset", !.id = studies + 1, !.org = o,
                                  !.dataset = d]
  <2>2. d \in Nat /\ d # 0
    BY Here
  <2>3. /\ j \in JobRows /\ j.id = studies + 1 /\ j.scored = {}
        /\ j.pc = "getDataset" /\ j.dataset # 0
    BY <1>2, <2>2, RestingIsARow, RestingIsTyped DEF JobRows
  <2>4. job' = [job EXCEPT ![r] = j]
    BY <2>1
  <2> HIDE DEF j
  <2> QED
    BY <1>5, <2>3, <2>4
<1> QED
  BY <1>1, <1>6, <1>7

(* A step to another place that keeps the rest of the request.              *)
LEMMA MoveIsInv ==
  ASSUME EvaluationInv, NEW r \in Requesters,
         NEW pc \in {"addSamples", "save", "listSamples", "answer"},
         job[r].pc # "rest", Become(r, pc),
         NEW f \in Records, flushed' = [flushed EXCEPT ![r] = f],
         FlushedIs([job[r] EXCEPT !.pc = pc], f), ScoredIs([job[r] EXCEPT !.pc = pc], tables),
         UNCHANGED <<tables, studies>>
  PROVE  EvaluationInv'
<1> DEFINE j == [job[r] EXCEPT !.pc = pc]
<1>1. job[r] \in JobRows /\ IsFiniteSet(job[r].scored) /\ studies \in Nat
  BY Here
<1>2. j \in JobRows /\ j.id = job[r].id /\ j.scored = job[r].scored
  BY <1>1 DEF JobRows
<1>3. job' = [job EXCEPT ![r] = j]
  BY DEF Become
<1> HIDE DEF j
<1>4. FlushedIs(j, f) /\ ScoredIs(j, tables)
  BY DEF j
<1> QED
  BY <1>1, <1>2, <1>3, <1>4, OneAdvances

LEMMA AddDatasetIsInv ==
  ASSUME EvaluationInv, NEW r \in Requesters, add_dataset(r)
  PROVE  EvaluationInv'
<1> DEFINE f == [flushed[r] EXCEPT !.datasets = @ \cup {Posted(job[r])}]
           j == [job[r] EXCEPT !.pc = "addSamples"]
<1>1. job[r] \in JobRows /\ job[r].pc = "addDataset" /\ job[r].dataset = 0
  BY Here DEF add_dataset, Is, ScoredIs
<1>2. flushed[r] = NoRecords
  BY <1>1, Here, NothingFlushed
<1>3. flushed' = [flushed EXCEPT ![r] = f]
  BY DEF add_dataset, Flush, Posted
<1>4. j.pc = "addSamples" /\ Posted(j) = Posted(job[r]) /\ j.dataset = 0
  BY <1>1 DEF JobRows, Posted
<1>5. Posted(job[r]) \in DatasetRows
  BY <1>1 DEF Posted, DatasetRows, JobRows
<1>6. f = [NoRecords EXCEPT !.datasets = {Posted(job[r])}]
  BY <1>2 DEF NoRecords
<1>7. /\ f.datasets = {Posted(job[r])} /\ f.samples = {} /\ f.runs = {} /\ f.results = {}
      /\ f \in Records
  BY <1>5, <1>6 DEF NoRecords, Records
<1> HIDE DEF f, j
<1>8. FlushedIs(j, f)
  BY <1>4, <1>7 DEF FlushedIs
<1>9. ScoredIs(j, tables)
  BY <1>4 DEF ScoredIs
<1> QED
  BY <1>1, <1>3, <1>7, <1>8, <1>9, MoveIsInv DEF add_dataset, j

LEMMA AddSamplesIsInv ==
  ASSUME EvaluationInv, NEW r \in Requesters, add_samples(r)
  PROVE  EvaluationInv'
<1> DEFINE f == [flushed[r] EXCEPT !.samples = @ \cup PostedSamples(job[r])]
           j == [job[r] EXCEPT !.pc = "save"]
<1>1. job[r] \in JobRows /\ job[r].pc = "addSamples" /\ job[r].dataset = 0
  BY Here DEF add_samples, Is, ScoredIs
<1>2. /\ flushed[r] \in Records
      /\ flushed[r].datasets = {Posted(job[r])} /\ flushed[r].samples = {}
      /\ flushed[r].runs = {} /\ flushed[r].results = {}
  BY <1>1, Here DEF FlushedIs
<1>3. flushed' = [flushed EXCEPT ![r] = f]
  BY DEF add_samples, Flush, PostedSamples
<1>4. /\ j.pc = "save" /\ j.dataset = 0
      /\ Posted(j) = Posted(job[r]) /\ PostedSamples(j) = PostedSamples(job[r])
  BY <1>1 DEF JobRows, Posted, PostedSamples
<1>5. PostedSamples(job[r]) \in SUBSET SampleRows
  BY <1>1 DEF PostedSamples, SampleRows, JobRows
<1>7. /\ f.datasets = {Posted(job[r])} /\ f.samples = PostedSamples(job[r])
      /\ f.runs = {} /\ f.results = {} /\ f \in Records
  BY <1>2, <1>5 DEF Records
<1> HIDE DEF f, j
<1>8. FlushedIs(j, f)
  BY <1>4, <1>7 DEF FlushedIs
<1>9. ScoredIs(j, tables)
  BY <1>4 DEF ScoredIs
<1> QED
  BY <1>1, <1>3, <1>7, <1>8, <1>9, MoveIsInv DEF add_samples, j

LEMMA GetDatasetIsInv ==
  ASSUME EvaluationInv, NEW r \in Requesters, get_dataset(r)
  PROVE  EvaluationInv'
<1> DEFINE j == [job[r] EXCEPT !.pc = "listSamples"]
<1>1. job[r] \in JobRows /\ job[r].pc = "getDataset" /\ job[r].dataset # 0 /\ job[r].scored = {}
  BY Here DEF get_dataset, Is, ScoredIs
<1>2. flushed[r] = NoRecords
  BY <1>1, Here, NothingFlushed
<1>3. CASE Over(r)
  BY <1>3, OverIsInv DEF get_dataset
<1>4. CASE /\ \E d \in Seen(r, "datasets") : d.id = job[r].dataset /\ d.org = job[r].org
           /\ Become(r, "listSamples") /\ UNCHANGED flushed
  <2>1. Seen(r, "datasets") = tables.datasets
    BY <1>2 DEF Seen, NoRecords
  <2>2. flushed' = [flushed EXCEPT ![r] = NoRecords]
    <3>1. flushed' = flushed
      BY <1>4
    <3>2. flushed = [flushed EXCEPT ![r] = flushed[r]]
      BY Here
    <3> QED
      BY <1>2, <3>1, <3>2
  <2>3. /\ j \in JobRows /\ j.pc = "listSamples" /\ j.dataset = job[r].dataset
        /\ j.org = job[r].org /\ j.scored = {} /\ j.dataset # 0
    BY <1>1 DEF JobRows
  <2> HIDE DEF j
  <2>4. NoRecords \in Records /\ FlushedIs(j, NoRecords)
    BY <2>3, NothingFlushed
  <2>5. ScoredIs(j, tables)
    BY <1>4, <2>1, <2>3 DEF ScoredIs
  <2> QED
    BY <1>1, <1>4, <2>2, <2>4, <2>5, MoveIsInv DEF get_dataset, j
<1> QED
  BY <1>3, <1>4 DEF get_dataset

LEMMA ListSamplesIsInv ==
  ASSUME EvaluationInv, NEW r \in Requesters, list_samples(r)
  PROVE  EvaluationInv'
<1> DEFINE p == SamplesOf(tables, job[r].dataset)
           j == [job[r] EXCEPT !.pc = "openRun", !.pending = p]
<1>1. /\ job[r] \in JobRows /\ job[r].pc = "listSamples" /\ job[r].dataset # 0
      /\ job[r].scored = {}
      /\ \E d \in tables.datasets : d.id = job[r].dataset /\ d.org = job[r].org
  BY Here DEF list_samples, Is, ScoredIs
<1>2. flushed[r] = NoRecords
  BY <1>1, Here, NothingFlushed
<1>3. flushed' = [flushed EXCEPT ![r] = NoRecords]
  <2>1. flushed' = flushed
    BY DEF list_samples
  <2>2. flushed = [flushed EXCEPT ![r] = flushed[r]]
    BY Here
  <2> QED
    BY <1>2, <2>1, <2>2
<1>4. {s \in Seen(r, "samples") : s.dataset = job[r].dataset} = p
  BY <1>2 DEF Seen, NoRecords, SamplesOf
<1>5. job' = [job EXCEPT ![r] = j]
  BY <1>4 DEF list_samples
<1>6. p \in SUBSET SampleRows
  BY Here DEF SamplesOf, Records
<1>7. /\ j \in JobRows /\ j.pc = "openRun" /\ j.dataset = job[r].dataset /\ j.pending = p
      /\ j.org = job[r].org /\ j.scored = {} /\ j.id = job[r].id
  <2> HIDE DEF p
  <2> QED
    BY <1>1, <1>6 DEF JobRows
<1> HIDE DEF j
<1>8. NoRecords \in Records /\ FlushedIs(j, NoRecords)
  BY <1>7, NothingFlushed
<1>9. ScoredIs(j, tables)
  BY <1>1, <1>7 DEF ScoredIs, Answered
<1>10. IsFiniteSet(j.scored)
  BY <1>7, FS_EmptySet
<1> QED
  BY <1>1, <1>3, <1>5, <1>7, <1>8, <1>9, <1>10, Here, OneAdvances DEF list_samples

LEMMA OpenRunIsInv ==
  ASSUME EvaluationInv, NEW r \in Requesters, open_run(r)
  PROVE  EvaluationInv'
<1> DEFINE run == [id |-> job[r].id, dataset |-> job[r].dataset, org |-> job[r].org,
                   metrics |-> <<>>]
           f == [flushed[r] EXCEPT !.runs = @ \cup {run}]
           j == [job[r] EXCEPT !.pc = "answer"]
<1>1. job[r] \in JobRows /\ job[r].pc = "openRun" /\ job[r].dataset # 0
  BY Here DEF open_run, Is, ScoredIs
<1>2. flushed[r] = NoRecords
  BY <1>1, Here, NothingFlushed
<1>3. flushed' = [flushed EXCEPT ![r] = f]
  BY DEF open_run, Flush
<1>4. /\ j.pc = "answer" /\ j.dataset = job[r].dataset /\ j.id = job[r].id
      /\ j.org = job[r].org /\ j.pending = job[r].pending /\ j.scored = job[r].scored
  BY <1>1 DEF JobRows
<1>5. run \in RunRows /\ run.metrics = <<>>
  BY <1>1, RestingIsTyped DEF RunRows, JobRows
<1>6. f = [NoRecords EXCEPT !.runs = {run}]
  BY <1>2 DEF NoRecords
<1>7. /\ f.datasets = {} /\ f.samples = {} /\ f.runs = {run} /\ f.results = {}
      /\ f \in Records
  <2> HIDE DEF run
  <2> QED
    BY <1>5, <1>6 DEF NoRecords, Records
<1>8. run = [id |-> j.id, dataset |-> j.dataset, org |-> j.org, metrics |-> run.metrics]
  BY <1>4
<1> HIDE DEF f, j, run
<1>9. FlushedIs(j, f)
  BY <1>4, <1>7, <1>8 DEF FlushedIs
<1>10. ScoredIs(job[r], tables)
  BY Here
<1>11. ScoredIs(j, tables)
  BY <1>1, <1>4, <1>10 DEF ScoredIs, Answered
<1> QED
  BY <1>1, <1>3, <1>7, <1>9, <1>11, MoveIsInv DEF open_run, j

LEMMA AnswerIsInv ==
  ASSUME EvaluationInv, NEW r \in Requesters, answer_sample(r)
  PROVE  EvaluationInv'
<1>1. PICK s \in job[r].pending, answer \in Answers :
        job' = [job EXCEPT ![r].pending = @ \ {s},
                           ![r].aggregate = aggregated(@, evaluate_sample(s.sample, answer)),
                           ![r].scored = @ \cup {[run |-> job[r].id, sample |-> s,
                                                  answer |-> answer,
                                                  scores |-> evaluate_sample(s.sample, answer)]}]
  BY DEF answer_sample
<1> DEFINE scores == evaluate_sample(s.sample, answer)
           x == [run |-> job[r].id, sample |-> s, answer |-> answer, scores |-> scores]
           total == aggregated(job[r].aggregate, scores)
           j == [job[r] EXCEPT !.pending = @ \ {s}, !.aggregate = total,
                               !.scored = @ \cup {x}]
<1>2. /\ job[r] \in JobRows /\ IsFiniteSet(job[r].scored)
      /\ FlushedIs(job[r], flushed[r]) /\ ScoredIs(job[r], tables)
  BY Here
<1>3. /\ job[r].pc = "answer" /\ job[r].dataset # 0
      /\ tables' = tables /\ flushed' = flushed /\ studies' = studies
  BY <1>2 DEF answer_sample, Is, ScoredIs
<1>4. flushed' = [flushed EXCEPT ![r] = flushed[r]] /\ flushed[r] \in Records /\ studies \in Nat
  BY <1>3, Here
<1>5. job' = [job EXCEPT ![r] = j]
  BY <1>1
<1>6. scores \in Scorings /\ s \in SampleRows
  <2>1. s \in SampleRows
    BY <1>2 DEF JobRows
  <2>2. s.sample \in Sample /\ answer \in SUBSET Words
    BY <2>1, EvaluationAssumption DEF SampleRows
  <2> QED
    BY <2>1, <2>2, ScoresAreScorings
<1> HIDE DEF scores
<1>7. total \in Scorings
  BY <1>2, <1>6, AggregatesAreScorings DEF JobRows
<1>8. x \in ResultRows /\ x.sample = s /\ x.run = job[r].id
  BY <1>2, <1>6 DEF ResultRows, JobRows
<1> HIDE DEF x, total
<1>9. /\ j \in JobRows /\ j.pc = "answer" /\ j.dataset = job[r].dataset /\ j.id = job[r].id
      /\ j.org = job[r].org /\ j.samples = job[r].samples
      /\ j.pending = job[r].pending \ {s} /\ j.scored = job[r].scored \cup {x}
  BY <1>2, <1>3, <1>7, <1>8 DEF JobRows
<1> HIDE DEF j
<1>10. IsFiniteSet(j.scored)
  BY SMTT(40), <1>2, <1>9, FS_AddElement
<1>11. FlushedIs(j, flushed[r])
  BY <1>2, <1>3, <1>9 DEF FlushedIs
<1>12. Answered(j) = Answered(job[r]) \cup {s}
  BY <1>8, <1>9 DEF Answered
<1>13. ScoredIs(j, tables)
  <2>1. /\ \E d \in tables.datasets : d.id = j.dataset /\ d.org = j.org
        /\ job[r].pending \cup Answered(job[r]) = SamplesOf(tables, j.dataset)
        /\ job[r].pending \cap Answered(job[r]) = {}
        /\ \A y, z \in job[r].scored : y.sample = z.sample => y = z
        /\ \A y \in job[r].scored : y.run = j.id
    BY <1>2, <1>3, <1>9 DEF ScoredIs
  <2>2. /\ j.pending \cup Answered(j) = SamplesOf(tables, j.dataset)
        /\ j.pending \cap Answered(j) = {}
    BY <1>9, <1>12, <2>1
  <2>3. \A y \in job[r].scored : y.sample # s
    BY <2>1 DEF Answered
  <2>4. /\ \A y, z \in j.scored : y.sample = z.sample => y = z
        /\ \A y \in j.scored : y.run = j.id
    BY <1>8, <1>9, <2>1, <2>3
  <2>5. j.pc = "answer" /\ j.dataset # 0
    BY <1>3, <1>9
  <2> QED
    BY <2>1, <2>2, <2>4, <2>5 DEF ScoredIs
<1> QED
  BY <1>3, <1>4, <1>5, <1>9, <1>10, <1>11, <1>13, OneAdvances

LEMMA AddResultsIsInv ==
  ASSUME EvaluationInv, NEW r \in Requesters, add_results(r)
  PROVE  EvaluationInv'
<1> DEFINE n == IF job[r].scored = {} THEN 1 ELSE Cardinality(job[r].scored)
<1>1. PICK up \in SUBSET DOMAIN job[r].aggregate :
        flushed' = [flushed EXCEPT
          ![r].runs = {[run EXCEPT !.metrics = Mean(job[r].aggregate, n, up)] : run \in @},
          ![r].results = job[r].scored]
  BY DEF add_results
<1> DEFINE metrics == Mean(job[r].aggregate, n, up)
           runs == {[run EXCEPT !.metrics = metrics] : run \in flushed[r].runs}
           f == [flushed[r] EXCEPT !.runs = runs, !.results = job[r].scored]
           j == [job[r] EXCEPT !.pc = "save"]
<1>2. /\ job[r] \in JobRows /\ IsFiniteSet(job[r].scored) /\ flushed[r] \in Records
      /\ FlushedIs(job[r], flushed[r]) /\ ScoredIs(job[r], tables)
  BY Here
<1>3. job[r].pc = "answer" /\ job[r].dataset # 0 /\ job[r].pending = {}
  BY <1>2 DEF add_results, Is, ScoredIs
<1>4. n \in Nat \ {0}
  BY <1>2, FS_CardinalityType, FS_EmptySet
<1> HIDE DEF n
<1>5. metrics \in Scorings
  BY <1>2, <1>4, MeansAreScorings DEF JobRows
<1>6. flushed' = [flushed EXCEPT ![r] = f]
  BY <1>1
<1> HIDE DEF metrics
<1>7. PICK m : flushed[r].runs = {[id |-> job[r].id, dataset |-> job[r].dataset,
                                   org |-> job[r].org, metrics |-> m]}
  BY <1>2, <1>3 DEF FlushedIs
<1> DEFINE row == [id |-> job[r].id, dataset |-> job[r].dataset, org |-> job[r].org,
                   metrics |-> metrics]
<1>8. runs = {row}
  BY <1>7
<1>9. row \in RunRows /\ row.metrics = metrics
  BY <1>2, <1>5 DEF RunRows, JobRows
<1> HIDE DEF runs
<1>10. /\ f \in Records /\ f.runs = {row} /\ f.results = job[r].scored
       /\ f.datasets = {} /\ f.samples = {}
  <2>1. flushed[r].datasets = {} /\ flushed[r].samples = {}
    BY <1>2, <1>3 DEF FlushedIs
  <2>2. job[r].scored \in SUBSET ResultRows
    BY <1>2 DEF JobRows
  <2> HIDE DEF row
  <2> QED
    BY <1>2, <1>8, <1>9, <2>1, <2>2 DEF Records
<1>11. /\ j.pc = "save" /\ j.dataset = job[r].dataset /\ j.id = job[r].id
       /\ j.org = job[r].org /\ j.pending = job[r].pending /\ j.scored = job[r].scored
  BY <1>2 DEF JobRows
<1>12. row = [id |-> j.id, dataset |-> j.dataset, org |-> j.org, metrics |-> row.metrics]
  BY <1>9, <1>11
<1> HIDE DEF f, j, row
<1>13. FlushedIs(j, f)
  BY <1>3, <1>10, <1>11, <1>12 DEF FlushedIs
<1>14. ScoredIs(j, tables)
  BY <1>2, <1>3, <1>11 DEF ScoredIs, Answered
<1> QED
  BY <1>3, <1>6, <1>10, <1>13, <1>14, MoveIsInv DEF add_results, j

(* The commit of a request adds rows under its own number only.             *)

ResultsIn(t, run) == {x \in t.results : x.run = run.id}

RunIsWhole(t, run) ==
  \E d \in t.datasets :
    /\ d.id = run.dataset /\ d.org = run.org
    /\ {x.sample.n : x \in ResultsIn(t, run)} = 1 .. d.size
    /\ \A x, y \in ResultsIn(t, run) : x.sample.n = y.sample.n => x = y

LEMMA EachRunIsWhole == RunsAreWhole <=> \A run \in tables.runs : RunIsWhole(tables, run)
BY DEF RunsAreWhole, RunIsWhole, ResultsOf, ResultsIn

LEMMA SavedRows ==
  ASSUME EvaluationInv, NEW r \in Requesters, save(r)
  PROVE  /\ job[r].pc = "save" /\ tables' \in Records
         /\ tables'.datasets = tables.datasets \cup flushed[r].datasets
         /\ tables'.samples = tables.samples \cup flushed[r].samples
         /\ tables'.runs = tables.runs \cup flushed[r].runs
         /\ tables'.results = tables.results \cup flushed[r].results
<1>1. /\ tables \in Records /\ flushed[r] \in Records
      /\ tables' = [t \in DOMAIN tables |-> tables[t] \cup flushed[r][t]]
      /\ job[r].pc = "save"
  BY Here DEF save, Is
<1>2. DOMAIN tables = {"datasets", "samples", "runs", "results"}
  BY <1>1 DEF Records
<1>3. tables' = [datasets |-> tables.datasets \cup flushed[r].datasets,
                 samples |-> tables.samples \cup flushed[r].samples,
                 runs |-> tables.runs \cup flushed[r].runs,
                 results |-> tables.results \cup flushed[r].results]
  BY <1>1, <1>2
<1> QED
  BY <1>1, <1>3 DEF Records

(* Either a dataset with its samples, or a run with its results.            *)
LEMMA SavedIs ==
  ASSUME EvaluationInv, NEW r \in Requesters, save(r)
  PROVE  \/ /\ job[r].dataset = 0
            /\ tables'.datasets = tables.datasets \cup {Posted(job[r])}
            /\ tables'.samples = tables.samples \cup PostedSamples(job[r])
            /\ tables'.runs = tables.runs /\ tables'.results = tables.results
         \/ /\ job[r].dataset # 0
            /\ tables'.datasets = tables.datasets /\ tables'.samples = tables.samples
            /\ \E m : tables'.runs = tables.runs \cup
                        {[id |-> job[r].id, dataset |-> job[r].dataset, org |-> job[r].org,
                          metrics |-> m]}
            /\ tables'.results = tables.results \cup job[r].scored
<1>1. FlushedIs(job[r], flushed[r]) /\ job[r].pc = "save"
  BY Here, SavedRows
<1>2. CASE job[r].dataset = 0
  <2>1. /\ flushed[r].datasets = {Posted(job[r])} /\ flushed[r].samples = PostedSamples(job[r])
        /\ flushed[r].runs = {} /\ flushed[r].results = {}
    BY <1>1, <1>2 DEF FlushedIs
  <2> QED
    BY <1>2, <2>1, SavedRows
<1>3. CASE job[r].dataset # 0
  <2>1. /\ flushed[r].datasets = {} /\ flushed[r].samples = {}
        /\ flushed[r].results = job[r].scored
    BY <1>1, <1>3 DEF FlushedIs
  <2>2. PICK x \in flushed[r].runs :
          flushed[r].runs = {[id |-> job[r].id, dataset |-> job[r].dataset, org |-> job[r].org,
                              metrics |-> x.metrics]}
    BY <1>1, <1>3 DEF FlushedIs
  <2> QED
    BY <1>3, <2>1, <2>2, SavedRows
<1> QED
  BY <1>2, <1>3

LEMMA SavedIds ==
  ASSUME EvaluationInv, NEW r \in Requesters, save(r)
  PROVE  /\ Ids(tables') \subseteq Ids(tables) \cup {job[r].id}
         /\ job[r].id \in (1 .. studies) \ Ids(tables)
         /\ \A d : d \in Ids(tables) => SamplesOf(tables', d) = SamplesOf(tables, d)
<1>1. job[r].id \in (1 .. studies) \ Ids(tables)
  BY SavedRows DEF EvaluationInv, IdsInv, Is
<1>2. /\ Posted(job[r]).id = job[r].id
      /\ \A s \in PostedSamples(job[r]) : s.dataset = job[r].id
  BY DEF Posted, PostedSamples
<1>3. job[r].dataset # 0 => \A x \in job[r].scored : x.run = job[r].id
  BY Here, SavedRows DEF ScoredIs
<1>4. CASE /\ job[r].dataset = 0
           /\ tables'.datasets = tables.datasets \cup {Posted(job[r])}
           /\ tables'.samples = tables.samples \cup PostedSamples(job[r])
           /\ tables'.runs = tables.runs /\ tables'.results = tables.results
  <2>1. Ids(tables') \subseteq Ids(tables) \cup {job[r].id}
    <3>1. {x.id : x \in tables'.datasets} \subseteq {x.id : x \in tables.datasets} \cup {job[r].id}
      BY <1>2, <1>4
    <3>2. {x.dataset : x \in tables'.samples}
            \subseteq {x.dataset : x \in tables.samples} \cup {job[r].id}
      BY <1>2, <1>4
    <3> QED
      BY <1>4, <3>1, <3>2 DEF Ids
  <2>2. ASSUME NEW d \in Ids(tables) PROVE SamplesOf(tables', d) = SamplesOf(tables, d)
    BY <1>1, <1>2, <1>4, <2>2 DEF SamplesOf
  <2> QED
    BY <1>1, <2>1, <2>2
<1>5. CASE /\ job[r].dataset # 0
           /\ tables'.datasets = tables.datasets /\ tables'.samples = tables.samples
           /\ \E m : tables'.runs = tables.runs \cup
                       {[id |-> job[r].id, dataset |-> job[r].dataset, org |-> job[r].org,
                         metrics |-> m]}
           /\ tables'.results = tables.results \cup job[r].scored
  <2>1. {x.id : x \in tables'.runs} \subseteq {x.id : x \in tables.runs} \cup {job[r].id}
    BY <1>5
  <2>2. {x.run : x \in tables'.results} \subseteq {x.run : x \in tables.results} \cup {job[r].id}
    BY <1>3, <1>5
  <2>3. Ids(tables') \subseteq Ids(tables) \cup {job[r].id}
    BY <1>5, <2>1, <2>2 DEF Ids
  <2> QED
    BY <1>1, <1>5, <2>3 DEF SamplesOf
<1> QED
  BY <1>4, <1>5, SavedIs

LEMMA SavedDatasetsAreWhole ==
  ASSUME EvaluationInv, NEW r \in Requesters, save(r)
  PROVE  DatasetsAreWhole'
<1>1. /\ \A d \in tables.datasets : DatasetIsWhole(tables, d)
      /\ \A d \in tables.datasets : SamplesOf(tables', d.id) = SamplesOf(tables, d.id)
  <2>1. \A d \in tables.datasets : d.id \in Ids(tables)
    BY DEF Ids
  <2> QED
    BY <2>1, SavedIds DEF EvaluationInv, DatasetsAreWhole
<1>2. ASSUME NEW d \in tables.datasets PROVE DatasetIsWhole(tables', d)
  BY <1>1 DEF DatasetIsWhole
<1>3. ASSUME job[r].dataset = 0, tables'.samples = tables.samples \cup PostedSamples(job[r])
      PROVE  DatasetIsWhole(tables', Posted(job[r]))
  <2> DEFINE posted == PostedSamples(job[r])
  <2>1. job[r].id \notin Ids(tables) /\ job[r].samples \in Seq(Sample)
    BY SavedIds, Here DEF JobRows
  <2>2. \A s \in tables.samples : s.dataset # job[r].id
    BY <2>1 DEF Ids
  <2>3. SamplesOf(tables', job[r].id) = posted
    BY <1>3, <2>2 DEF SamplesOf, PostedSamples
  <2>4. {s.n : s \in posted} = 1 .. Len(job[r].samples)
    <3> DEFINE row(i) == [dataset |-> job[r].id, n |-> i, sample |-> job[r].samples[i]]
    <3>1. DOMAIN job[r].samples = 1 .. Len(job[r].samples)
      BY <2>1
    <3>2. posted = {row(i) : i \in 1 .. Len(job[r].samples)}
      BY <3>1 DEF PostedSamples
    <3>3. \A i : row(i).n = i
      OBVIOUS
    <3> HIDE DEF row, posted
    <3> QED
      BY <3>2, <3>3
  <2>5. \A s, x \in posted : s.n = x.n => s = x
    BY DEF PostedSamples
  <2>6. Posted(job[r]).id = job[r].id /\ Posted(job[r]).size = Len(job[r].samples)
    BY DEF Posted
  <2> QED
    BY <2>3, <2>4, <2>5, <2>6 DEF DatasetIsWhole
<1>4. \A d \in tables'.datasets : DatasetIsWhole(tables', d)
  BY <1>2, <1>3, SavedIs
<1> QED
  BY <1>4 DEF DatasetsAreWhole

LEMMA SavedRunsAreWhole ==
  ASSUME EvaluationInv, NEW r \in Requesters, save(r)
  PROVE  RunsAreWhole'
<1>1. \A run \in tables.runs : RunIsWhole(tables, run)
  BY EachRunIsWhole DEF EvaluationInv
<1>2. job[r].id \notin Ids(tables) /\ job[r].pc = "save"
  BY SavedIds, SavedRows
<1>3. job[r].dataset # 0 =>
        /\ \E d \in tables.datasets : d.id = job[r].dataset /\ d.org = job[r].org
        /\ Answered(job[r]) = SamplesOf(tables, job[r].dataset)
        /\ \A x, y \in job[r].scored : x.sample = y.sample => x = y
        /\ \A x \in job[r].scored : x.run = job[r].id
  BY <1>2, Here DEF ScoredIs
<1>4. ASSUME NEW run \in tables.runs PROVE RunIsWhole(tables', run)
  <2>1. run.id # job[r].id
    BY <1>2 DEF Ids
  <2>2. ResultsIn(tables', run) = ResultsIn(tables, run)
    BY <1>3, <2>1, SavedIs DEF ResultsIn
  <2>3. tables.datasets \subseteq tables'.datasets
    BY SavedIs
  <2> QED
    BY <1>1, <2>2, <2>3 DEF RunIsWhole
<1>5. ASSUME job[r].dataset # 0, NEW run, run.id = job[r].id, run.dataset = job[r].dataset,
             run.org = job[r].org
      PROVE  RunIsWhole(tables', run)
  <2>1. /\ tables'.results = tables.results \cup job[r].scored
        /\ tables'.datasets = tables.datasets
    BY <1>5, SavedIs
  <2>2. \A x \in tables.results : x.run # job[r].id
    BY <1>2 DEF Ids
  <2>3. ResultsIn(tables', run) = job[r].scored
    BY <1>3, <1>5, <2>1, <2>2 DEF ResultsIn
  <2>4. PICK d \in tables.datasets : d.id = job[r].dataset /\ d.org = job[r].org
    BY <1>3, <1>5
  <2>5. /\ {s.n : s \in Answered(job[r])} = 1 .. d.size
        /\ \A s, x \in Answered(job[r]) : s.n = x.n => s = x
    BY <1>3, <1>5, <2>4 DEF EvaluationInv, DatasetsAreWhole, DatasetIsWhole
  <2>6. {x.sample.n : x \in job[r].scored} = {s.n : s \in Answered(job[r])}
    BY DEF Answered
  <2>7. \A x, y \in job[r].scored : x.sample.n = y.sample.n => x = y
    BY <1>3, <1>5, <2>5 DEF Answered
  <2> QED
    BY <1>5, <2>1, <2>3, <2>4, <2>5, <2>6, <2>7 DEF RunIsWhole
<1>6. ASSUME NEW run \in tables'.runs PROVE RunIsWhole(tables', run)
  <2>1. CASE run \in tables.runs
    BY <1>4, <2>1
  <2>2. CASE run \notin tables.runs
    <3>1. /\ job[r].dataset # 0
          /\ \E m : run = [id |-> job[r].id, dataset |-> job[r].dataset, org |-> job[r].org,
                           metrics |-> m]
      BY <1>6, <2>2, SavedIs
    <3> QED
      BY <1>5, <3>1
  <2> QED
    BY <2>1, <2>2
<1>7. \A run \in tables'.runs : RunIsWhole(tables', run)
  BY <1>6
<1>8. RunsAreWhole' <=> \A run \in tables'.runs : RunIsWhole(tables', run)
  BY DEF RunsAreWhole, RunIsWhole, ResultsOf, ResultsIn
<1> QED
  BY <1>7, <1>8

LEMMA SaveIsInv ==
  ASSUME EvaluationInv, NEW r \in Requesters, save(r)
  PROVE  EvaluationInv'
<1>1. EvaluationTypeOK /\ IdsInv /\ JobsInv
  BY DEF EvaluationInv
<1>2. /\ job' = [job EXCEPT ![r] = Resting] /\ flushed' = [flushed EXCEPT ![r] = NoRecords]
      /\ studies' = studies /\ studies \in Nat
  BY Here DEF save, Over
<1>3. IsFiniteSet(Resting.scored)
  BY RestingIsTyped, FS_EmptySet
<1>4. /\ EvaluationTypeOK'
      /\ job'[r] = Resting /\ flushed'[r] = NoRecords
      /\ \A q \in Requesters \ {r} : job'[q] = job[q] /\ flushed'[q] = flushed[q]
  BY <1>1, <1>2, <1>3, OneMoves, RestingIsARow, NothingFlushed, SavedRows
<1>5. IdsInv'
  <2>1. /\ Ids(tables) \subseteq 1 .. studies
        /\ \A q \in Requesters : job[q].pc # "rest" => job[q].id \in (1 .. studies) \ Ids(tables)
        /\ \A p, q \in Requesters : job[p].pc # "rest" /\ job[q].pc # "rest" /\ p # q =>
             job[p].id # job[q].id
    BY <1>1 DEF IdsInv, Is
  <2>2. job[r].pc # "rest" /\ job'[r].pc = "rest"
    BY <1>4, RestingIsTyped, SavedRows
  <2>3. \A q \in Requesters : job'[q].pc # "rest" =>
          q # r /\ job[q].pc # "rest" /\ job'[q].id = job[q].id
    BY <1>4, <2>2
  <2>4. Ids(tables') \subseteq 1 .. studies
    BY <2>1, SavedIds
  <2>5. \A q \in Requesters : job'[q].pc # "rest" => job'[q].id \in (1 .. studies) \ Ids(tables')
    <3>1. ASSUME NEW q \in Requesters, job'[q].pc # "rest"
          PROVE  job'[q].id \in (1 .. studies) \ Ids(tables')
      <4>1. /\ job[q].id \in (1 .. studies) \ Ids(tables) /\ job[q].id # job[r].id
            /\ job'[q].id = job[q].id
        BY <2>1, <2>2, <2>3, <3>1
      <4> QED
        BY <4>1, SavedIds
    <3> QED
      BY <3>1
  <2>6. \A p, q \in Requesters : job'[p].pc # "rest" /\ job'[q].pc # "rest" /\ p # q =>
          job'[p].id # job'[q].id
    BY <2>1, <2>3
  <2>7. Ids(tables)' = Ids(tables')
    BY DEF Ids
  <2> QED
    BY <1>2, <2>4, <2>5, <2>6, <2>7 DEF IdsInv, Is
<1>6. JobsInv'
  <2>1. ASSUME NEW q \in Requesters
        PROVE  FlushedIs(job'[q], flushed'[q]) /\ ScoredIs(job'[q], tables')
    <3>1. CASE q = r
      <4>1. FlushedIs(Resting, NoRecords)
        BY RestingIsInv
      <4>2. ScoredIs(Resting, tables')
        BY RestingIsTyped DEF ScoredIs
      <4> QED
        BY <1>4, <3>1, <4>1, <4>2
    <3>2. CASE q # r
      <4>1. FlushedIs(job[q], flushed[q]) /\ ScoredIs(job[q], tables)
        BY <1>1 DEF JobsInv
      <4>2. tables.datasets \subseteq tables'.datasets
        BY SavedIs
      <4>3. ASSUME NEW d \in tables.datasets
            PROVE  SamplesOf(tables', d.id) = SamplesOf(tables, d.id)
        BY SavedIds DEF Ids
      <4>4. job[q].dataset # 0 /\ job[q].pc \in {"openRun", "answer", "save"} =>
              SamplesOf(tables', job[q].dataset) = SamplesOf(tables, job[q].dataset)
        BY <4>1, <4>3 DEF ScoredIs
      <4>5. ScoredIs(job[q], tables')
        BY <4>1, <4>2, <4>4 DEF ScoredIs
      <4> QED
        BY <1>4, <3>2, <4>1, <4>5
    <3> QED
      BY <3>1, <3>2
  <2>2. JobsInv' <=> \A q \in Requesters : FlushedIs(job'[q], flushed'[q]) /\ ScoredIs(job'[q], tables')
    BY DEF JobsInv, FlushedIs, ScoredIs, Posted, PostedSamples, Answered, SamplesOf
  <2> QED
    BY <2>1, <2>2
<1> QED
  BY <1>4, <1>5, <1>6, SavedDatasetsAreWhole, SavedRunsAreWhole DEF EvaluationInv

LEMMA EvaluationStarts == EvaluationInit => EvaluationInv
<1> SUFFICES ASSUME EvaluationInit PROVE EvaluationInv
  OBVIOUS
<1>1. /\ tables = NoRecords /\ flushed = [r \in Requesters |-> NoRecords]
      /\ job = [r \in Requesters |-> Resting] /\ studies = 0
  BY DEF EvaluationInit
<1>2. EvaluationTypeOK
  <2>1. IsFiniteSet(Resting.scored)
    BY RestingIsTyped, FS_EmptySet
  <2> QED
    BY <1>1, <2>1, NothingFlushed, RestingIsARow DEF EvaluationTypeOK, JobRows
<1>3. IdsInv
  <2>1. Ids(tables) = {}
    BY <1>1 DEF Ids, NoRecords
  <2> QED
    BY <1>1, <2>1, RestingIsTyped DEF IdsInv, Is
<1>4. JobsInv
  BY <1>1, RestingIsInv DEF JobsInv
<1>5. DatasetsAreWhole /\ RunsAreWhole
  BY <1>1 DEF DatasetsAreWhole, RunsAreWhole, NoRecords
<1> QED
  BY <1>2, <1>3, <1>4, <1>5 DEF EvaluationInv

LEMMA EvaluationSteps == EvaluationInv /\ [EvaluationNext]_evaluation => EvaluationInv'
<1> SUFFICES ASSUME EvaluationInv, [EvaluationNext]_evaluation PROVE EvaluationInv'
  OBVIOUS
<1>1. CASE UNCHANGED evaluation
  <2>1. tables' = tables /\ flushed' = flushed /\ job' = job /\ studies' = studies
    BY <1>1 DEF evaluation
  <2>2. EvaluationTypeOK'
    BY <2>1 DEF EvaluationInv, EvaluationTypeOK
  <2>3. IdsInv'
    BY <2>1 DEF EvaluationInv, IdsInv, Ids, Is
  <2>4. JobsInv'
    <3>1. JobsInv' <=> \A q \in Requesters :
                          FlushedIs(job'[q], flushed'[q]) /\ ScoredIs(job'[q], tables')
      BY DEF JobsInv, FlushedIs, ScoredIs, Posted, PostedSamples, Answered, SamplesOf
    <3> QED
      BY <2>1, <3>1 DEF EvaluationInv, JobsInv
  <2>5. DatasetsAreWhole' /\ RunsAreWhole'
    BY <2>1 DEF EvaluationInv, DatasetsAreWhole, DatasetIsWhole, SamplesOf, RunsAreWhole,
                ResultsOf
  <2> QED
    BY <2>2, <2>3, <2>4, <2>5 DEF EvaluationInv
<1>2. ASSUME NEW r \in Requesters, Study(r) PROVE EvaluationInv'
  <2>1. CASE request_study(r)
    BY <2>1, RequestIsInv
  <2>2. CASE add_dataset(r)
    BY <2>2, AddDatasetIsInv
  <2>3. CASE add_samples(r)
    BY <2>3, AddSamplesIsInv
  <2>4. CASE get_dataset(r)
    BY <2>4, GetDatasetIsInv
  <2>5. CASE list_samples(r)
    BY <2>5, ListSamplesIsInv
  <2>6. CASE open_run(r)
    BY <2>6, OpenRunIsInv
  <2>7. CASE answer_sample(r)
    BY <2>7, AnswerIsInv
  <2>8. CASE add_results(r)
    BY <2>8, AddResultsIsInv
  <2>9. CASE save(r)
    BY <2>9, SaveIsInv
  <2>10. CASE abandon(r)
    BY <2>10, OverIsInv DEF abandon
  <2> QED
    BY <1>2, <2>1, <2>2, <2>3, <2>4, <2>5, <2>6, <2>7, <2>8, <2>9, <2>10 DEF Study
<1> QED
  BY <1>1, <1>2 DEF EvaluationNext

(* A committed run has one result for every sample its dataset was posted   *)
(* with, whatever order the sessions flush and commit in and wherever one   *)
(* fails (sql_repositories.py, eval_service.py).                            *)
THEOREM RunsAreWholeAlways == EvaluationSpec => []RunsAreWhole
<1>1. EvaluationInv => RunsAreWhole
  BY DEF EvaluationInv
<1> QED
  BY <1>1, EvaluationStarts, EvaluationSteps, PTL DEF EvaluationSpec

-----------------------------------------------------------------------------
(* The totals of the scores.                                                *)

Having(results, k) == {x \in results : k \in DOMAIN x.scores}

(* A total is the sum of a function on any set the results are in.          *)
LEMMA TotalIsASum ==
  ASSUME NEW U, IsFiniteSet(U), NEW k, NEW f \in [U -> Nat],
         NEW results, Having(results, k) \subseteq U,
         \A x \in Having(results, k) : f[x] = x.scores[k]
  PROVE  Total(results, k) = SumOf(f, Having(results, k))
<1> DEFINE S == Having(results, k)
           RecT(h) == h = [s \in SUBSET S |->
                            IF s = {} THEN 0
                            ELSE Picked(s).scores[k] + h[s \ {Picked(s)}]]
           RecF(h) == h = [s \in SUBSET S |->
                            IF s = {} THEN 0 ELSE f[Picked(s)] + h[s \ {Picked(s)}]]
<1>1. \A s \in SUBSET S : s # {} => Picked(s) \in s
  BY DEF Picked
<1>2. ASSUME NEW h PROVE RecT(h) <=> RecF(h)
  <2>1. \A s \in SUBSET S : s # {} => f[Picked(s)] = Picked(s).scores[k]
    BY <1>1
  <2>2. [s \in SUBSET S |-> IF s = {} THEN 0 ELSE Picked(s).scores[k] + h[s \ {Picked(s)}]]
        = [s \in SUBSET S |-> IF s = {} THEN 0 ELSE f[Picked(s)] + h[s \ {Picked(s)}]]
    BY <2>1, Zenon
  <2> QED
    BY <2>2
<1>3. (CHOOSE h : RecT(h)) = (CHOOSE h : RecF(h))
  <2> HIDE DEF RecT, RecF
  <2> QED
    BY <1>2, Zenon
<1>4. Total(results, k) = (CHOOSE h : RecT(h))[S]
  BY DEF Total, MapThenSumSet, MapThenFoldSet, Picked, Having
<1>5. SumOf(f, S) = (CHOOSE h : RecF(h))[S]
  BY DEF SumOf, MapThenSumSet, MapThenFoldSet, Picked
<1> QED
  BY <1>3, <1>4, <1>5

(* The rows of a run, each with its scores.                                 *)
Rated(results) ==
  /\ IsFiniteSet(results)
  /\ \A x \in results : \A k \in DOMAIN x.scores : x.scores[k] \in Nat

LEMMA TotalOfNone ==
  ASSUME NEW results, NEW k, Having(results, k) = {}
  PROVE  Total(results, k) = 0
<1> DEFINE f == [x \in {} |-> 0]
<1>1. f \in [{} -> Nat]
  OBVIOUS
<1> HIDE DEF f
<1>2. Total(results, k) = SumOf(f, {})
  BY ZenonT(60), <1>1, FS_EmptySet, TotalIsASum
<1> QED
  BY <1>1, <1>2, FS_EmptySet, SumPeels

(* One row more adds its score, if it has one.                              *)
LEMMA TotalGrows ==
  ASSUME NEW results, NEW x, x \notin results, Rated(results \cup {x}), NEW k
  PROVE  Total(results \cup {x}, k)
           = Total(results, k) + (IF k \in DOMAIN x.scores THEN x.scores[k] ELSE 0)
<1> DEFINE U == Having(results \cup {x}, k)
           f == [y \in U |-> y.scores[k]]
<1>1. Having(results, k) = U \ {x} /\ (x \in U <=> k \in DOMAIN x.scores)
  BY DEF Having
<1>2. IsFiniteSet(U) /\ f \in [U -> Nat]
  BY FS_Subset DEF Rated, Having
<1>3. Total(results \cup {x}, k) = SumOf(f, U)
  BY ZenonT(60), <1>2, TotalIsASum
<1>4. \A y \in U : f[y] = y.scores[k]
  OBVIOUS
<1> HIDE DEF U, f
<1>5. Total(results, k) = SumOf(f, U \ {x})
  <2>1. Having(results, k) \subseteq U /\ \A y \in Having(results, k) : f[y] = y.scores[k]
    BY <1>1, <1>4
  <2>2. Total(results, k) = SumOf(f, Having(results, k))
    BY <1>2, <2>1, TotalIsASum
  <2> QED
    BY <1>1, <2>2
<1>6. CASE k \in DOMAIN x.scores
  <2>1. SumOf(f, U) = f[x] + SumOf(f, U \ {x}) /\ SumOf(f, U \ {x}) \in Nat
    BY <1>1, <1>2, <1>6, SumPeels
  <2>2. f[x] = x.scores[k] /\ f[x] \in Nat
    BY <1>1, <1>2, <1>4, <1>6
  <2> QED
    BY <1>3, <1>5, <1>6, <2>1, <2>2
<1>7. CASE k \notin DOMAIN x.scores
  <2>1. U \ {x} = U
    BY <1>1, <1>7
  <2>2. SumOf(f, U) \in Nat
    BY <1>2, SumPeels
  <2>3. Total(results \cup {x}, k) = Total(results, k) /\ Total(results, k) \in Nat
    BY <1>3, <1>5, <2>1, <2>2
  <2> QED
    BY <1>7, <2>3
<1> QED
  BY <1>6, <1>7

(* A total is a number no score of it exceeds.                              *)
LEMMA TotalBounds ==
  ASSUME NEW results, Rated(results), NEW k
  PROVE  /\ Total(results, k) \in Nat
         /\ \A x \in results : k \in DOMAIN x.scores => x.scores[k] <= Total(results, k)
<1> DEFINE U == Having(results, k)
           f == [y \in U |-> y.scores[k]]
<1>1. IsFiniteSet(U) /\ f \in [U -> Nat]
  BY FS_Subset DEF Rated, Having
<1>2. Total(results, k) = SumOf(f, U)
  BY <1>1, TotalIsASum
<1>3. SumOf(f, U) \in Nat
  BY <1>1, SumPeels
<1>4. ASSUME NEW x \in results, k \in DOMAIN x.scores PROVE x.scores[k] <= SumOf(f, U)
  <2>1. x \in U /\ f[x] = x.scores[k] /\ f[x] \in Nat
    BY <1>1, <1>4 DEF Having
  <2>2. SumOf(f, U) = f[x] + SumOf(f, U \ {x}) /\ SumOf(f, U \ {x}) \in Nat
    BY <1>1, <2>1, SumPeels
  <2> QED
    BY <2>1, <2>2
<1> QED
  BY <1>2, <1>3, <1>4

(* The nearest number, a tie going down when e is 1.                        *)
Nearest(m, t, n, e) ==
  /\ m \in Int
  /\ -n <= 2 * (n * m - t) /\ 2 * (n * m - t) <= n
  /\ 2 * t + n - e <= 2 * (n * m) + 2 * n - 1
  /\ 2 * (n * m) <= 2 * t + n - e

Rounded(t, n, e) == (2 * t + n - e) \div (2 * n)

LEMMA NearestIs ==
  ASSUME NEW t \in Int, NEW n \in Nat \ {0}, NEW e \in {0, 1}
  PROVE  Nearest(Rounded(t, n, e), t, n, e)
<1>1. PICK m : m = Rounded(t, n, e)
  OBVIOUS
<1> DEFINE a == 2 * t + n - e
           b == 2 * n
<1>0. a \in Int /\ b \in Nat \ {0}
  OBVIOUS
<1>2. m \in Int /\ b * m <= a /\ a < b * m + b
  <2> HIDE DEF a, b
  <2>1. m = a \div b
    BY <1>1 DEF Rounded, a, b
  <2> QED
    BY <1>0, <2>1
<1>3. PICK p : p = n * m
  OBVIOUS
<1>4. p \in Int /\ b * m = 2 * p
  BY <1>2, <1>3
<1>5. 2 * (n * m - t) = 2 * p - 2 * t
  BY <1>3, <1>4
<1>6. 2 * p <= a /\ a < 2 * p + b
  BY <1>2, <1>4
<1>7. Nearest(m, t, n, e)
  BY <1>2, <1>3, <1>4, <1>5, <1>6 DEF Nearest
<1> HIDE DEF a, b
<1> QED
  BY <1>1, <1>7

(* The rows scored so far and their totals.                                 *)
IsScored(x) ==
  /\ x.sample.sample \in Sample /\ x.answer \in SUBSET Words
  /\ x.scores = evaluate_sample(x.sample.sample, x.answer)

Measured(aggregate, results) ==
  /\ IsFiniteSet(results)
  /\ \A x \in results : IsScored(x)
  /\ DOMAIN aggregate = UNION {DOMAIN x.scores : x \in results}
  /\ \A k \in DOMAIN aggregate : aggregate[k] = Total(results, k)
  /\ Total(results, "faithfulness") + Total(results, "hallucination")
       = 1000 * Cardinality(results)

LEMMA ScoredIsRated ==
  ASSUME NEW x, IsScored(x)
  PROVE  /\ \A k \in DOMAIN x.scores : x.scores[k] \in Nat
         /\ {"faithfulness", "hallucination"} \subseteq DOMAIN x.scores
         /\ x.scores["faithfulness"] + x.scores["hallucination"] = 1000
         /\ ~IsGrounded(x) => 2000 <= Cardinality(x.answer) * (2 * x.scores["hallucination"] + 1)
<1> DEFINE scores == evaluate_sample(x.sample.sample, x.answer)
           ungrounded == \E w \in x.answer : \A i \in DOMAIN x.sample.sample.contexts :
                           w \notin x.sample.sample.contexts[i]
           share == Cardinality(x.answer) * (2 * scores["hallucination"] + 1)
<1>1. /\ {"faithfulness", "hallucination"} \subseteq DOMAIN scores
      /\ scores["faithfulness"] + scores["hallucination"] = 1000
  BY ScoresAreFractions DEF IsScored
<1>2. \A k \in DOMAIN scores : scores[k] \in Fractions
  BY ScoresAreFractions DEF IsScored
<1>3. ungrounded => 2000 <= share
  BY ScoresAreFractions DEF IsScored
<1>4. Fractions \subseteq Nat
  BY DEF Fractions
<1>5. x.scores = scores
  BY DEF IsScored
<1>6. ~IsGrounded(x) => ungrounded
  BY DEF IsGrounded
<1> HIDE DEF scores, ungrounded, share
<1>7. \A k \in DOMAIN scores : scores[k] \in Nat
  BY <1>2, <1>4
<1>8. ~IsGrounded(x) => 2000 <= Cardinality(x.answer) * (2 * x.scores["hallucination"] + 1)
  BY <1>3, <1>5, <1>6 DEF share
<1> QED
  BY <1>1, <1>5, <1>7, <1>8

LEMMA MeasuredIsRated ==
  ASSUME NEW aggregate, NEW results, Measured(aggregate, results)
  PROVE  Rated(results)
BY ScoredIsRated DEF Measured, Rated

LEMMA NothingMeasured == Measured(<<>>, {})
<1>1. \A k : Having({}, k) = {}
  BY DEF Having
<1>2. \A k : Total({}, k) = 0
  BY <1>1, TotalOfNone
<1>3. DOMAIN <<>> = {}
  OBVIOUS
<1> QED
  BY <1>2, <1>3, FS_EmptySet DEF Measured

LEMMA MeasuredGrows ==
  ASSUME NEW aggregate, NEW results, Measured(aggregate, results),
         NEW x, x \notin results, IsScored(x)
  PROVE  Measured(aggregated(aggregate, x.scores), results \cup {x})
<1> DEFINE more == results \cup {x}
           total == aggregated(aggregate, x.scores)
<1>1. Rated(results) /\ Rated(more)
  <2>1. IsFiniteSet(more)
    BY FS_AddElement DEF Measured
  <2>2. \A y \in more : \A k \in DOMAIN y.scores : y.scores[k] \in Nat
    BY ScoredIsRated DEF Measured
  <2> QED
    BY <2>1, <2>2, MeasuredIsRated DEF Rated
<1>2. \A k : Total(more, k)
               = Total(results, k) + (IF k \in DOMAIN x.scores THEN x.scores[k] ELSE 0)
  BY <1>1, TotalGrows
<1>3. \A k : Total(results, k) \in Nat
  BY <1>1, TotalBounds
<1>4. \A k : k \notin DOMAIN aggregate => Total(results, k) = 0
  <2>1. \A k : k \notin DOMAIN aggregate => Having(results, k) = {}
    BY DEF Measured, Having
  <2> QED
    BY <2>1, TotalOfNone
<1>5. DOMAIN total = DOMAIN aggregate \cup DOMAIN x.scores
  BY DEF aggregated
<1>6. ASSUME NEW k \in DOMAIN total PROVE total[k] = Total(more, k)
  <2>1. total[k] = (IF k \in DOMAIN aggregate THEN aggregate[k] ELSE 0)
                    + (IF k \in DOMAIN x.scores THEN x.scores[k] ELSE 0)
    BY <1>5 DEF aggregated
  <2>2. (IF k \in DOMAIN aggregate THEN aggregate[k] ELSE 0) = Total(results, k)
    BY <1>4 DEF Measured
  <2> QED
    BY <1>2, <2>1, <2>2
<1>7. DOMAIN total = UNION {DOMAIN y.scores : y \in more}
  BY <1>5 DEF Measured
<1>8. Total(more, "faithfulness") + Total(more, "hallucination") = 1000 * Cardinality(more)
  <2>1. /\ Total(more, "faithfulness") = Total(results, "faithfulness") + x.scores["faithfulness"]
        /\ Total(more, "hallucination")
             = Total(results, "hallucination") + x.scores["hallucination"]
    <3>1. {"faithfulness", "hallucination"} \subseteq DOMAIN x.scores
      BY ScoredIsRated
    <3> QED
      BY <1>2, <3>1
  <2>2. Cardinality(more) = Cardinality(results) + 1 /\ Cardinality(results) \in Nat
    BY FS_AddElement, FS_CardinalityType DEF Measured
  <2>3. Total(results, "faithfulness") + Total(results, "hallucination")
          = 1000 * Cardinality(results)
    BY DEF Measured
  <2>4. /\ x.scores["faithfulness"] + x.scores["hallucination"] = 1000
        /\ x.scores["faithfulness"] \in Nat /\ x.scores["hallucination"] \in Nat
    BY ScoredIsRated
  <2>5. Total(results, "faithfulness") \in Nat /\ Total(results, "hallucination") \in Nat
    BY <1>3
  <2> HIDE DEF more
  <2> QED
    BY <2>1, <2>2, <2>3, <2>4, <2>5
<1>9. \A y \in more : IsScored(y)
  BY DEF Measured
<1> HIDE DEF more, total
<1>10. Measured(total, more)
  BY <1>1, <1>6, <1>7, <1>8, <1>9 DEF Measured, Rated
<1> QED
  BY <1>10 DEF more, total

(* Two numbers that make a thousand each keep theirs, rounded.              *)
LEMMA RoundedHalves ==
  ASSUME NEW n \in Nat \ {0}, NEW t \in Nat, NEW u \in Nat, t + u = 1000 * n,
         NEW d \in {0, 1}, NEW e \in {0, 1},
         NEW a, a = Rounded(t, n, d),
         NEW b, b = Rounded(u, n, e)
  PROVE  a + b \in 999 .. 1001
<1>0. t \in Int /\ u \in Int
  OBVIOUS
<1>1. PICK p : p = n * a
  OBVIOUS
<1>2. PICK q : q = n * b
  OBVIOUS
<1>3. /\ a \in Int /\ p \in Int /\ 2 * t + n - d <= 2 * p + 2 * n - 1 /\ 2 * p <= 2 * t + n - d
  <2>0. Nearest(a, t, n, d)
    BY <1>0, NearestIs
  <2>1. /\ a \in Int /\ 2 * t + n - d <= 2 * (n * a) + 2 * n - 1
        /\ 2 * (n * a) <= 2 * t + n - d
    BY <2>0 DEF Nearest
  <2>2. n * a \in Int
    BY <2>1
  <2> QED
    BY <1>1, <2>1, <2>2
<1>4. /\ b \in Int /\ q \in Int /\ 2 * u + n - e <= 2 * q + 2 * n - 1 /\ 2 * q <= 2 * u + n - e
  <2>0. Nearest(b, u, n, e)
    BY <1>0, NearestIs
  <2>1. /\ b \in Int /\ 2 * u + n - e <= 2 * (n * b) + 2 * n - 1
        /\ 2 * (n * b) <= 2 * u + n - e
    BY <2>0 DEF Nearest
  <2>2. n * b \in Int
    BY <2>1
  <2> QED
    BY <1>2, <2>1, <2>2
<1>5. PICK s : s = a + b
  OBVIOUS
<1>6. s \in Int /\ n * s = p + q
  BY <1>1, <1>2, <1>3, <1>4, <1>5
<1>7. PICK z : z = n * s
  OBVIOUS
<1>8. z \in Int /\ 999 * n <= z /\ z <= 1001 * n
  <2>1. 2 * (p + q) <= 2000 * n + 2 * n
    BY <1>3, <1>4
  <2>2. 2000 * n + 2 * n - d - e <= 2 * (p + q) + 4 * n - 2
    BY <1>3, <1>4
  <2> QED
    BY <1>3, <1>4, <1>6, <1>7, <2>1, <2>2
<1>9. 999 <= s
  <2>1. s < 999 => z <= 998 * n
    BY <1>6, <1>7
  <2> QED
    BY <1>6, <1>8, <2>1
<1>10. s <= 1001
  <2>1. s > 1001 => z >= 1002 * n
    BY <1>6, <1>7
  <2> QED
    BY <1>6, <1>8, <2>1
<1> QED
  BY <1>5, <1>6, <1>9, <1>10

(* A word that no context has shows in the mean, unless it is lost.         *)
LEMMA OneWordShows ==
  ASSUME NEW n \in Nat \ {0}, NEW t \in Nat, NEW e \in {0, 1}, Rounded(t, n, e) = 0,
         NEW h \in Nat, h <= t,
         NEW c \in Nat, 2000 <= c * (2 * h + 1)
  PROVE  2000 <= (n + 1) * c
<1>1. t \in Int /\ Nearest(0, t, n, e)
  BY NearestIs
<1>2. 2 * t <= n
  <2>1. 2 * (n * 0 - t) = -(2 * t)
    OBVIOUS
  <2> QED
    BY <1>1, <2>1 DEF Nearest
<1>3. 2 * h <= n
  BY <1>2
<1>4. c * (2 * h + 1) <= c * (n + 1)
  <2> DEFINE a == 2 * h + 1
             b == n + 1
  <2>1. a \in Nat /\ b \in Nat /\ a <= b
    BY <1>3
  <2>2. c * a <= c * b
    <3> HIDE DEF a, b
    <3> QED
      BY <2>1
  <2> QED
    BY <2>2
<1>5. c * (n + 1) = (n + 1) * c
  OBVIOUS
<1> QED
  BY <1>4, <1>5

(* The means of the rows scored match them.                                 *)
LEMMA MeansMatch ==
  ASSUME NEW aggregate, NEW results, Measured(aggregate, results),
         NEW up, NEW n, n = IF results = {} THEN 1 ELSE Cardinality(results)
  PROVE  MetricsMatch(Mean(aggregate, n, up), results)
<1>1. PICK metrics : metrics = Mean(aggregate, n, up)
  OBVIOUS
<1>2. PICK size : size = Cardinality(results)
  OBVIOUS
<1>3. /\ IsFiniteSet(results) /\ size \in Nat
      /\ results = {} => size = 0
      /\ results # {} => size = n
      /\ n \in Nat \ {0}
  <2>1. IsFiniteSet(results) /\ size \in Nat
    BY <1>2, FS_CardinalityType DEF Measured
  <2>2. results = {} <=> size = 0
    BY <1>2, <2>1, FS_EmptySet
  <2> QED
    BY <1>2, <2>1, <2>2
<1>4. Rated(results)
  BY MeasuredIsRated
<1>5. \A k : Total(results, k) \in Nat
  BY <1>4, TotalBounds
<1>6. DOMAIN metrics = UNION {DOMAIN x.scores : x \in results}
  BY <1>1 DEF Mean, Measured
<1>7. ASSUME NEW k \in DOMAIN metrics
      PROVE  \E e \in {0, 1} : metrics[k] = Rounded(Total(results, k), n, e)
  <2> DEFINE e == IF k \in up THEN 0 ELSE 1
  <2>1. aggregate[k] = Total(results, k) /\ k \in DOMAIN aggregate
    BY <1>1 DEF Mean, Measured
  <2>2. metrics[k] = Rounded(Total(results, k), n, e)
    BY <1>1, <2>1 DEF Mean, Rounded
  <2>3. e \in {0, 1}
    OBVIOUS
  <2> QED
    BY <2>2, <2>3
<1>8. \A x \in results : DOMAIN x.scores \subseteq DOMAIN metrics
  BY <1>6
<1>9. ASSUME NEW k \in DOMAIN metrics
      PROVE  LET d == 2 * (size * metrics[k] - Total(results, k)) IN -size <= d /\ d <= size
  <2>1. PICK e \in {0, 1} : metrics[k] = Rounded(Total(results, k), n, e)
    BY <1>7
  <2>2. PICK t : t = Total(results, k)
    OBVIOUS
  <2>3. Nearest(metrics[k], t, n, e)
    <3>1. t \in Int
      BY <1>5, <2>2
    <3> QED
      BY <1>3, <2>1, <2>2, <3>1, NearestIs
  <2>4. size = n
    BY <1>3, <1>6, <1>9
  <2> QED
    BY <2>2, <2>3, <2>4 DEF Nearest
<1>10. ASSUME size > 0
       PROVE  /\ {"faithfulness", "hallucination"} \subseteq DOMAIN metrics
              /\ size = n
  <2>1. PICK x : x \in results
    BY <1>3, <1>10
  <2>2. {"faithfulness", "hallucination"} \subseteq DOMAIN x.scores
    BY <2>1, ScoredIsRated DEF Measured
  <2> QED
    BY <1>3, <1>8, <2>1, <2>2
<1>11. size > 0 => metrics["faithfulness"] + metrics["hallucination"] \in 999 .. 1001
  <2>1. SUFFICES ASSUME size > 0
                 PROVE  metrics["faithfulness"] + metrics["hallucination"] \in 999 .. 1001
    OBVIOUS
  <2>2. PICK d \in {0, 1} : metrics["faithfulness"] = Rounded(Total(results, "faithfulness"), n, d)
    BY <1>7, <1>10, <2>1
  <2>3. PICK e \in {0, 1} : metrics["hallucination"]
                              = Rounded(Total(results, "hallucination"), n, e)
    BY <1>7, <1>10, <2>1
  <2>4. Total(results, "faithfulness") + Total(results, "hallucination") = 1000 * n
    BY <1>2, <1>10, <2>1 DEF Measured
  <2>5. Total(results, "faithfulness") \in Nat /\ Total(results, "hallucination") \in Nat
    BY <1>5
  <2> QED
    BY <1>3, <2>2, <2>3, <2>4, <2>5, RoundedHalves
<1>12. ASSUME size > 0, metrics["hallucination"] = 0, NEW x \in results,
              (size + 1) * Cardinality(x.answer) < 2000
       PROVE  IsGrounded(x)
  <2>1. SUFFICES ASSUME ~IsGrounded(x) PROVE FALSE
    OBVIOUS
  <2>2. PICK h : h = x.scores["hallucination"]
    OBVIOUS
  <2>3. PICK t : t = Total(results, "hallucination")
    OBVIOUS
  <2>4. PICK c : c = Cardinality(x.answer)
    OBVIOUS
  <2>5. IsScored(x)
    BY DEF Measured
  <2>6. c \in Nat
    <3>1. IsFiniteSet(x.answer)
      BY <2>5, EvaluationAssumption, FS_Subset DEF IsScored
    <3> QED
      BY <2>4, <3>1, FS_CardinalityType
  <2>7. h \in Nat /\ h <= t /\ t \in Nat
    <3>1. "hallucination" \in DOMAIN x.scores /\ x.scores["hallucination"] \in Nat
      BY <2>5, ScoredIsRated
    <3> QED
      BY <1>4, <1>5, <2>2, <2>3, <3>1, TotalBounds
  <2>8. 2000 <= c * (2 * h + 1)
    BY <2>1, <2>2, <2>4, <2>5, ScoredIsRated
  <2>9. PICK e \in {0, 1} : Rounded(t, n, e) = 0
    <3>1. PICK e \in {0, 1} : metrics["hallucination"]
                                = Rounded(Total(results, "hallucination"), n, e)
      BY <1>7, <1>10, <1>12
    <3> QED
      BY <1>12, <2>3, <3>1
  <2>10. 2000 <= (n + 1) * c
    <3>1. n \in Nat \ {0}
      BY <1>3
    <3>2. h \in Nat /\ t \in Nat /\ h <= t
      BY <2>7
    <3> QED
      BY <2>6, <2>8, <2>9, <3>1, <3>2, OneWordShows
  <2>11. (n + 1) * c < 2000
    BY <1>10, <1>12, <2>4
  <2>12. (n + 1) * c \in Int
    BY <1>3, <2>6
  <2> QED
    BY <2>10, <2>11, <2>12
<1>13. MetricsMatch(metrics, results)
  BY <1>2, <1>8, <1>9, <1>11, <1>12 DEF MetricsMatch
<1> QED
  BY <1>1, <1>13

-----------------------------------------------------------------------------
(* The metrics of the runs.                                                 *)

MeasuresIs(j, f) ==
  /\ j.pc \in {"rest", "getDataset", "listSamples", "openRun"} => j.aggregate = <<>>
  /\ j.pc = "answer" => Measured(j.aggregate, j.scored)
  /\ j.pc = "save" /\ j.dataset # 0 => \A run \in f.runs : MetricsMatch(run.metrics, j.scored)

(* The totals of a request that answers are those of the rows it has        *)
(* scored; the metrics it has flushed, or committed, match them.            *)
MeasuresInv ==
  /\ \A r \in Requesters : MeasuresIs(job[r], flushed[r])
  /\ MetricsMatchResults

LEMMA MeasureMoves ==
  ASSUME MeasuresInv, EvaluationTypeOK, NEW r \in Requesters, tables' = tables,
         \E j : job' = [job EXCEPT ![r] = j], \E f : flushed' = [flushed EXCEPT ![r] = f],
         MeasuresIs(job'[r], flushed'[r])
  PROVE  MeasuresInv'
<1>1. ASSUME NEW q \in Requesters PROVE MeasuresIs(job'[q], flushed'[q])
  <2>1. CASE q = r
    BY <2>1
  <2>2. CASE q # r
    <3>1. job'[q] = job[q] /\ flushed'[q] = flushed[q]
      BY <2>2 DEF EvaluationTypeOK
    <3> QED
      BY <3>1 DEF MeasuresInv
  <2> QED
    BY <2>1, <2>2
<1>2. MetricsMatchResults'
  BY DEF MeasuresInv, MetricsMatchResults, ResultsOf
<1>3. \A q \in Requesters : MeasuresIs(job'[q], flushed'[q])
  BY <1>1
<1> QED
  BY <1>2, <1>3 DEF MeasuresInv

LEMMA RestingMeasures == \A f : MeasuresIs(Resting, f)
BY RestingIsTyped DEF MeasuresIs

LEMMA OverMeasures ==
  ASSUME MeasuresInv, EvaluationInv, NEW r \in Requesters, Over(r), tables' = tables
  PROVE  MeasuresInv'
<1>1. EvaluationTypeOK /\ job'[r] = Resting
  BY DEF Over, EvaluationInv, EvaluationTypeOK
<1> QED
  BY <1>1, RestingMeasures, MeasureMoves DEF Over

LEMMA RequestHasNoTotals ==
  ASSUME NEW r \in Requesters, request_study(r)
  PROVE  \E j : /\ job' = [job EXCEPT ![r] = j]
                /\ j.pc \in {"addDataset", "getDataset"} /\ j.aggregate = <<>>
<1>1. Resting \in JobRows /\ Resting.aggregate = <<>>
  BY RestingIsARow, RestingIsTyped
<1>2. ASSUME NEW o, NEW s,
             job' = [job EXCEPT ![r] = [Resting EXCEPT !.pc = "addDataset", !.id = studies + 1,
                                                       !.org = o, !.samples = s]]
      PROVE  \E j : /\ job' = [job EXCEPT ![r] = j]
                    /\ j.pc \in {"addDataset", "getDataset"} /\ j.aggregate = <<>>
  <2> DEFINE j == [Resting EXCEPT !.pc = "addDataset", !.id = studies + 1, !.org = o,
                                  !.samples = s]
  <2>1. j.pc = "addDataset" /\ j.aggregate = <<>>
    BY <1>1 DEF JobRows
  <2>2. job' = [job EXCEPT ![r] = j]
    BY <1>2
  <2> HIDE DEF j
  <2> QED
    BY <2>1, <2>2
<1>3. ASSUME NEW o, NEW d,
             job' = [job EXCEPT ![r] = [Resting EXCEPT !.pc = "getDataset", !.id = studies + 1,
                                                       !.org = o, !.dataset = d]]
      PROVE  \E j : /\ job' = [job EXCEPT ![r] = j]
                    /\ j.pc \in {"addDataset", "getDataset"} /\ j.aggregate = <<>>
  <2> DEFINE j == [Resting EXCEPT !.pc = "getDataset", !.id = studies + 1, !.org = o,
                                  !.dataset = d]
  <2>1. j.pc = "getDataset" /\ j.aggregate = <<>>
    BY <1>1 DEF JobRows
  <2>2. job' = [job EXCEPT ![r] = j]
    BY <1>3
  <2> HIDE DEF j
  <2> QED
    BY <2>1, <2>2
<1> QED
  BY <1>2, <1>3 DEF request_study

(* The steps before the first answer.                                       *)
LEMMA EarlyMeasures ==
  ASSUME MeasuresInv, EvaluationInv, NEW r \in Requesters,
         \/ request_study(r) \/ add_dataset(r) \/ add_samples(r) \/ list_samples(r)
         \/ open_run(r)
  PROVE  MeasuresInv'
<1>1. EvaluationTypeOK /\ MeasuresIs(job[r], flushed[r]) /\ tables' = tables
  BY DEF EvaluationInv, MeasuresInv, request_study, add_dataset, add_samples, list_samples, open_run
<1>2. /\ job[r] \in JobRows /\ flushed[r] \in Records /\ ScoredIs(job[r], tables)
      /\ flushed = [flushed EXCEPT ![r] = flushed[r]]
  BY Here
<1>3. (\E j : job' = [job EXCEPT ![r] = j]) /\ \E f : flushed' = [flushed EXCEPT ![r] = f]
  <2>1. CASE request_study(r)
    BY <1>2, <2>1 DEF request_study
  <2>2. CASE add_dataset(r) \/ add_samples(r) \/ open_run(r)
    BY <2>2 DEF add_dataset, add_samples, open_run, Become, Flush
  <2>3. CASE list_samples(r)
    BY <1>2, <2>3 DEF list_samples
  <2> QED
    BY <2>1, <2>2, <2>3
<1>4. MeasuresIs(job'[r], flushed'[r])
  <2>1. CASE request_study(r)
    <3>1. job'[r].pc \in {"addDataset", "getDataset"} /\ job'[r].aggregate = <<>>
      BY <1>1, <2>1, RequestHasNoTotals DEF EvaluationTypeOK
    <3> QED
      BY <3>1 DEF MeasuresIs
  <2>2. CASE add_dataset(r)
    <3>1. job'[r].pc = "addSamples"
      BY <1>1, <1>2, <2>2 DEF add_dataset, Become, EvaluationTypeOK
    <3> QED
      BY <3>1 DEF MeasuresIs
  <2>3. CASE add_samples(r)
    <3>1. job[r].dataset = 0
      BY <1>2, <2>3 DEF add_samples, Is, ScoredIs
    <3>2. job'[r].pc = "save" /\ job'[r].dataset = 0
      BY <1>1, <1>2, <2>3, <3>1 DEF add_samples, Become, EvaluationTypeOK
    <3> QED
      BY <3>2 DEF MeasuresIs
  <2>4. CASE list_samples(r)
    <3>1. job[r].aggregate = <<>>
      BY <1>1, <2>4 DEF list_samples, Is, MeasuresIs
    <3>2. job'[r].pc = "openRun" /\ job'[r].aggregate = <<>>
      BY <1>1, <1>2, <2>4, <3>1 DEF list_samples, EvaluationTypeOK
    <3> QED
      BY <3>2 DEF MeasuresIs
  <2>5. CASE open_run(r)
    <3>1. job[r].aggregate = <<>> /\ job[r].scored = {}
      BY <1>1, <1>2, <2>5 DEF open_run, Is, MeasuresIs, ScoredIs
    <3>2. job'[r].pc = "answer" /\ job'[r].aggregate = <<>> /\ job'[r].scored = {}
      BY <1>1, <1>2, <2>5, <3>1 DEF open_run, Become, EvaluationTypeOK
    <3> QED
      BY <3>2, NothingMeasured DEF MeasuresIs
  <2> QED
    BY <2>1, <2>2, <2>3, <2>4, <2>5
<1> QED
  BY <1>1, <1>3, <1>4, MeasureMoves

LEMMA GetMeasures ==
  ASSUME MeasuresInv, EvaluationInv, NEW r \in Requesters, get_dataset(r)
  PROVE  MeasuresInv'
<1>1. /\ EvaluationTypeOK /\ MeasuresIs(job[r], flushed[r]) /\ tables' = tables
      /\ job[r].pc = "getDataset"
  BY DEF EvaluationInv, MeasuresInv, get_dataset, Is
<1>2. CASE Over(r)
  BY <1>1, <1>2, OverMeasures
<1>3. CASE Become(r, "listSamples") /\ flushed' = flushed
  <2>1. job[r] \in JobRows /\ flushed = [flushed EXCEPT ![r] = flushed[r]]
    BY Here
  <2>2. job'[r].pc = "listSamples" /\ job'[r].aggregate = job[r].aggregate
    BY <1>1, <1>3, <2>1 DEF Become, EvaluationTypeOK
  <2>3. MeasuresIs(job'[r], flushed'[r])
    BY <1>1, <2>2 DEF MeasuresIs
  <2>4. (\E j : job' = [job EXCEPT ![r] = j]) /\ \E f : flushed' = [flushed EXCEPT ![r] = f]
    BY <1>3, <2>1 DEF Become
  <2> QED
    BY <1>1, <2>3, <2>4, MeasureMoves
<1> QED
  BY <1>2, <1>3 DEF get_dataset

LEMMA AnswerMeasures ==
  ASSUME MeasuresInv, EvaluationInv, NEW r \in Requesters, answer_sample(r)
  PROVE  MeasuresInv'
<1>1. /\ EvaluationTypeOK /\ MeasuresIs(job[r], flushed[r]) /\ tables' = tables
      /\ flushed' = flushed /\ job[r].pc = "answer"
  BY DEF EvaluationInv, MeasuresInv, answer_sample, Is
<1>2. /\ job[r] \in JobRows /\ ScoredIs(job[r], tables)
      /\ flushed = [flushed EXCEPT ![r] = flushed[r]]
  BY Here
<1>3. PICK s \in job[r].pending, answer \in Answers :
        job' = [job EXCEPT ![r].pending = @ \ {s},
                           ![r].aggregate = aggregated(@, evaluate_sample(s.sample, answer)),
                           ![r].scored = @ \cup {[run |-> job[r].id, sample |-> s,
                                                  answer |-> answer,
                                                  scores |-> evaluate_sample(s.sample, answer)]}]
  BY DEF answer_sample
<1> DEFINE scores == evaluate_sample(s.sample, answer)
           x == [run |-> job[r].id, sample |-> s, answer |-> answer, scores |-> scores]
           total == aggregated(job[r].aggregate, scores)
           j == [job[r] EXCEPT !.pending = @ \ {s}, !.aggregate = total,
                               !.scored = @ \cup {x}]
<1>4. job' = [job EXCEPT ![r] = j]
  BY <1>3
<1>5. x.sample = s /\ x.answer = answer /\ x.scores = scores
  OBVIOUS
<1>6. IsScored(x)
  <2>1. s.sample \in Sample /\ answer \in SUBSET Words
    BY <1>2, EvaluationAssumption DEF JobRows, SampleRows
  <2> QED
    BY <1>5, <2>1 DEF IsScored
<1>7. x \notin job[r].scored
  <2>1. job[r].pending \cap Answered(job[r]) = {}
    <3>1. job[r].dataset # 0
      BY <1>1, <1>2 DEF ScoredIs
    <3> QED
      BY <1>1, <1>2, <3>1 DEF ScoredIs
  <2>2. \A y \in job[r].scored : y.sample # s
    BY <2>1 DEF Answered
  <2> QED
    BY <1>5, <2>2
<1> HIDE DEF x
<1>8. Measured(aggregated(job[r].aggregate, x.scores), job[r].scored \cup {x})
  BY <1>1, <1>6, <1>7, MeasuredGrows DEF MeasuresIs
<1>9. Measured(total, job[r].scored \cup {x})
  BY <1>5, <1>8
<1> HIDE DEF total, scores
<1>10. j.pc = "answer" /\ j.aggregate = total /\ j.scored = job[r].scored \cup {x}
  BY <1>1, <1>2 DEF JobRows
<1> HIDE DEF j
<1>11. MeasuresIs(j, flushed[r])
  BY <1>9, <1>10 DEF MeasuresIs
<1>12. job'[r] = j /\ flushed'[r] = flushed[r]
  BY <1>1, <1>4 DEF EvaluationTypeOK
<1>13. MeasuresIs(job'[r], flushed'[r])
  BY <1>11, <1>12
<1>14. (\E i : job' = [job EXCEPT ![r] = i]) /\ \E f : flushed' = [flushed EXCEPT ![r] = f]
  BY <1>1, <1>2, <1>4
<1> QED
  BY <1>1, <1>13, <1>14, MeasureMoves

LEMMA ResultsMeasure ==
  ASSUME MeasuresInv, EvaluationInv, NEW r \in Requesters, add_results(r)
  PROVE  MeasuresInv'
<1>1. /\ EvaluationTypeOK /\ MeasuresIs(job[r], flushed[r]) /\ tables' = tables
      /\ job[r].pc = "answer" /\ job' = [job EXCEPT ![r].pc = "save"]
  BY DEF EvaluationInv, MeasuresInv, add_results, Is, Become
<1>2. job[r] \in JobRows /\ flushed[r] \in Records
  BY Here
<1> DEFINE n == IF job[r].scored = {} THEN 1 ELSE Cardinality(job[r].scored)
<1>3. PICK up \in SUBSET DOMAIN job[r].aggregate :
        flushed' = [flushed EXCEPT
          ![r].runs = {[run EXCEPT !.metrics = Mean(job[r].aggregate, n, up)] : run \in @},
          ![r].results = job[r].scored]
  BY DEF add_results
<1>4. n = IF job[r].scored = {} THEN 1 ELSE Cardinality(job[r].scored)
  OBVIOUS
<1> HIDE DEF n
<1>5. PICK metrics : metrics = Mean(job[r].aggregate, n, up)
  OBVIOUS
<1> DEFINE runs == {[run EXCEPT !.metrics = metrics] : run \in flushed[r].runs}
           f == [flushed[r] EXCEPT !.runs = runs, !.results = job[r].scored]
<1>6. MetricsMatch(metrics, job[r].scored)
  BY <1>1, <1>4, <1>5, MeansMatch DEF MeasuresIs
<1>7. \A run \in runs : run.metrics = metrics
  BY <1>2 DEF Records, RunRows
<1>8. flushed' = [flushed EXCEPT ![r] = f]
  BY <1>3, <1>5
<1>9. f.runs = runs
  BY <1>2 DEF Records
<1> HIDE DEF f, runs
<1>10. flushed'[r] = f /\ job'[r].pc = "save" /\ job'[r].scored = job[r].scored
  BY <1>1, <1>2, <1>8 DEF EvaluationTypeOK, JobRows
<1>11. MeasuresIs(job'[r], flushed'[r])
  BY <1>6, <1>7, <1>9, <1>10 DEF MeasuresIs
<1>12. (\E j : job' = [job EXCEPT ![r] = j]) /\ \E g : flushed' = [flushed EXCEPT ![r] = g]
  BY <1>1, <1>8
<1> QED
  BY <1>1, <1>11, <1>12, MeasureMoves

(* A commit adds a run with its results and leaves those of the others.     *)
LEMMA SaveMeasures ==
  ASSUME MeasuresInv, EvaluationInv, NEW r \in Requesters, save(r)
  PROVE  MeasuresInv'
<1>1. job[r].pc = "save" /\ job[r].id \notin Ids(tables) /\ ScoredIs(job[r], tables)
  BY SavedRows, SavedIds, Here
<1>2. /\ tables'.runs = tables.runs \cup flushed[r].runs
      /\ tables'.results = tables.results \cup flushed[r].results
  BY SavedRows
<1>3. FlushedIs(job[r], flushed[r]) /\ MeasuresIs(job[r], flushed[r])
  BY Here DEF MeasuresInv
<1>4. \A x \in flushed[r].results : x.run = job[r].id
  BY <1>1, <1>3 DEF FlushedIs, ScoredIs
<1>5. ASSUME NEW run \in tables.runs
      PROVE  MetricsMatch(run.metrics, ResultsIn(tables', run))
  <2>1. run.id # job[r].id
    BY <1>1 DEF Ids
  <2>2. ResultsIn(tables', run) = ResultsIn(tables, run)
    BY <1>2, <1>4, <2>1 DEF ResultsIn
  <2>3. MetricsMatch(run.metrics, ResultsIn(tables, run))
    BY DEF MeasuresInv, MetricsMatchResults, ResultsOf, ResultsIn
  <2> QED
    BY <2>2, <2>3
<1>6. ASSUME NEW run \in flushed[r].runs
      PROVE  MetricsMatch(run.metrics, ResultsIn(tables', run))
  <2>1. job[r].dataset # 0 /\ run.id = job[r].id /\ flushed[r].results = job[r].scored
    BY <1>1, <1>3, <1>6 DEF FlushedIs
  <2>2. \A x \in tables.results : x.run # job[r].id
    BY <1>1 DEF Ids
  <2>3. ResultsIn(tables', run) = job[r].scored
    BY <1>2, <1>4, <2>1, <2>2 DEF ResultsIn
  <2> QED
    BY <1>1, <1>3, <1>6, <2>1, <2>3 DEF MeasuresIs
<1>7. \A run \in tables'.runs : MetricsMatch(run.metrics, ResultsIn(tables', run))
  BY <1>2, <1>5, <1>6
<1>8. MetricsMatchResults' <=>
        \A run \in tables'.runs : MetricsMatch(run.metrics, ResultsIn(tables', run))
  BY DEF MetricsMatchResults, ResultsOf, ResultsIn
<1>9. ASSUME NEW q \in Requesters PROVE MeasuresIs(job'[q], flushed'[q])
  <2>1. EvaluationTypeOK
    BY DEF EvaluationInv
  <2>2. CASE q = r
    <3>1. job'[q] = Resting
      BY <2>1, <2>2 DEF save, Over, EvaluationTypeOK
    <3> QED
      BY <3>1, RestingMeasures
  <2>3. CASE q # r
    <3>1. job'[q] = job[q] /\ flushed'[q] = flushed[q]
      BY <2>1, <2>3 DEF save, Over, EvaluationTypeOK
    <3> QED
      BY <3>1 DEF MeasuresInv
  <2> QED
    BY <2>2, <2>3
<1>10. \A q \in Requesters : MeasuresIs(job'[q], flushed'[q])
  BY <1>9
<1> QED
  BY <1>7, <1>8, <1>10 DEF MeasuresInv

LEMMA MeasuresStart == EvaluationInit => MeasuresInv
<1> SUFFICES ASSUME EvaluationInit PROVE MeasuresInv
  OBVIOUS
<1>1. tables.runs = {}
  BY DEF EvaluationInit, NoRecords
<1>2. \A r \in Requesters : job[r] = Resting
  BY DEF EvaluationInit
<1> QED
  BY <1>1, <1>2, RestingMeasures DEF MeasuresInv, MetricsMatchResults

LEMMA MeasuresStep ==
  EvaluationInv /\ MeasuresInv /\ [EvaluationNext]_evaluation => MeasuresInv'
<1> SUFFICES ASSUME EvaluationInv, MeasuresInv, [EvaluationNext]_evaluation PROVE MeasuresInv'
  OBVIOUS
<1>1. CASE UNCHANGED evaluation
  <2>1. tables' = tables /\ flushed' = flushed /\ job' = job
    BY <1>1 DEF evaluation
  <2>2. MetricsMatchResults'
    BY <2>1 DEF MeasuresInv, MetricsMatchResults, ResultsOf
  <2>3. \A r \in Requesters : MeasuresIs(job'[r], flushed'[r])
    BY <2>1 DEF MeasuresInv
  <2> QED
    BY <2>2, <2>3 DEF MeasuresInv
<1>2. ASSUME NEW r \in Requesters, Study(r) PROVE MeasuresInv'
  <2>1. CASE \/ request_study(r) \/ add_dataset(r) \/ add_samples(r) \/ list_samples(r)
             \/ open_run(r)
    BY <2>1, EarlyMeasures
  <2>2. CASE get_dataset(r)
    BY <2>2, GetMeasures
  <2>3. CASE answer_sample(r)
    BY <2>3, AnswerMeasures
  <2>4. CASE add_results(r)
    BY <2>4, ResultsMeasure
  <2>5. CASE save(r)
    BY <2>5, SaveMeasures
  <2>6. CASE abandon(r)
    BY <2>6, OverMeasures DEF abandon
  <2> QED
    BY <1>2, <2>1, <2>2, <2>3, <2>4, <2>5, <2>6 DEF Study
<1> QED
  BY <1>1, <1>2 DEF EvaluationNext

(* What a committed run reports agrees with the results stored beside it,   *)
(* whatever the samples, the answers and the size of the run: each metric   *)
(* is the mean of the scores to half a thousandth, faithfulness and         *)
(* hallucination make a whole to one, and no hallucination reported means   *)
(* no word outside the contexts but what rounding hides (eval_service.py,   *)
(* heuristics.py).                                                          *)
THEOREM MetricsMatchResultsAlways == EvaluationSpec => []MetricsMatchResults
<1>1. MeasuresInv => MetricsMatchResults
  BY DEF MeasuresInv
<1> QED
  BY <1>1, EvaluationStarts, EvaluationSteps, MeasuresStart, MeasuresStep, PTL DEF EvaluationSpec
=============================================================================
