--------------------------- MODULE Indexing_proofs ---------------------------
(***************************************************************************)
(* Results for any documents, workers, texts and plans.                    *)
(*                                                                         *)
(* No document is forgotten, as soon as Celery retries once.  The one way  *)
(* to lose a task for good is an exception with no retry left; the only    *)
(* exception that escapes a run is the lost race for the first embedding   *)
(* version.  So it is enough that a run loses that race only on its first  *)
(* try: a retried task was put back when a version was committed, versions *)
(* stay, and a run that finds one inserts none.                            *)
(*                                                                         *)
(* Vectors fit the chunks they were made of: a point's id is taken once,   *)
(* and a run upserts what it embedded.                                     *)
(*                                                                         *)
(* Explorations are exact: each fold of the code, a hop and the walk over  *)
(* the hops, is followed step by step, and keeps pace with the reference.  *)
(*                                                                         *)
(* Sizes hold: split and recursive_split are shown to be defined, by the   *)
(* length of the text and by the level of the separator; what they and the *)
(* folds of the chunkers gather is typed by how long it may be.            *)
(*                                                                         *)
(* Nothing is lost: what a list of texts says, its words in order, is kept *)
(* by cutting, packing, stripping, joining and grouping; pieces that each  *)
(* repeat the end of the one before are stitched together again; and a row *)
(* has its parent among the rows of its own page.                          *)
(*                                                                         *)
(* Structure is kept: the groups of lines are followed line by line to be  *)
(* the tables, and a code block begins where a definition opens a line.    *)
(***************************************************************************)
EXTENDS Indexing, Folding_proofs

Fields == {"pc", "doc", "retries", "id", "version", "chunks"}

(* Runs are records, whatever their chunks.                                 *)
Shape ==
  /\ run = [w \in DOMAIN run |-> run[w]]
  /\ \A w \in DOMAIN run : run[w] = [f \in Fields |-> run[w][f]]

(* Who tries again finds a version; who inserts one tries for the first     *)
(* time.                                                                    *)
RetriesFindVersions ==
  /\ \A t \in tasks : t.retries \in Nat /\ (t.retries # 0 => versions # {})
  /\ \A w \in DOMAIN run :
       /\ run[w].retries \in Nat
       /\ run[w].retries # 0 => versions # {}
       /\ run[w].pc = "addVersion" => run[w].retries = 0

(* A worker that rests holds no document.                                   *)
IdleHoldNone ==
  /\ DOMAIN status \subseteq Docs
  /\ \A w \in DOMAIN run : run[w].pc = "idle" => run[w].doc = None

IndexingInv == Shape /\ RetriesFindVersions /\ IdleHoldNone /\ NoneIsForgotten

-----------------------------------------------------------------------------
LEMMA IndexingInit == Init => IndexingInv
<1> SUFFICES ASSUME Init PROVE IndexingInv
    OBVIOUS
<1>1. PICK p \in Plans : pages \in [p.docs -> p.texts] /\ run = [w \in p.workers |-> IdleRun]
    BY DEF Init
<1>2. Shape
    BY <1>1 DEF Shape, IdleRun, Fields
<1>3. RetriesFindVersions
    BY <1>1 DEF Init, RetriesFindVersions, IdleRun
<1>4. NoneIsForgotten
  <2>1. ASSUME NEW d \in DOMAIN status PROVE \E t \in tasks : t.doc = d
    <3>1. d \in DOMAIN pages
        BY <2>1 DEF Init
    <3>2. [doc |-> d, retries |-> 0] \in tasks
        BY <3>1 DEF Init
    <3> QED BY <3>2
  <2> QED BY <2>1 DEF NoneIsForgotten
<1>5. IdleHoldNone
    BY <1>1, IndexingAssumption DEF Init, IdleHoldNone, IdleRun
<1> QED BY <1>2, <1>3, <1>4, <1>5 DEF IndexingInv

(* A run that goes on with its document, its tries and its id.              *)
LEMMA GoesOn ==
  ASSUME IndexingInv, NEW w \in DOMAIN run, NEW r,
         r = [f \in Fields |-> r[f]],
         r.doc = run[w].doc, r.retries = run[w].retries,
         r.pc = "addVersion" => r.retries = 0, r.pc # "idle",
         run' = [run EXCEPT ![w] = r],
         UNCHANGED <<status, versions, tasks>>
  PROVE  IndexingInv'
<1>1. Shape'
    BY DEF IndexingInv, Shape
<1>2. RetriesFindVersions'
    BY DEF IndexingInv, RetriesFindVersions
<1>3. NoneIsForgotten'
    BY DEF IndexingInv, NoneIsForgotten
<1>4. IdleHoldNone'
    BY DEF IndexingInv, IdleHoldNone
<1> QED BY <1>1, <1>2, <1>3, <1>4 DEF IndexingInv

(* A run that ends with its document back in the broker.                    *)
LEMMA GoesBack ==
  ASSUME IndexingInv, NEW w \in DOMAIN run, NEW n \in Nat,
         n # 0 => versions # {},
         run' = [run EXCEPT ![w] = IdleRun],
         tasks' = tasks \cup {[doc |-> run[w].doc, retries |-> n]},
         UNCHANGED <<status, versions>>
  PROVE  IndexingInv'
<1>1. Shape'
    BY DEF IndexingInv, Shape, IdleRun, Fields
<1>2. RetriesFindVersions'
    BY DEF IndexingInv, RetriesFindVersions, IdleRun
<1>3. NoneIsForgotten'
  <2>1. \A v \in DOMAIN run : v # w => v \in DOMAIN run' /\ run'[v] = run[v]
      BY DEF IndexingInv, Shape
  <2>2. [doc |-> run[w].doc, retries |-> n] \in tasks' /\ tasks \subseteq tasks'
      OBVIOUS
  <2>3. ASSUME NEW d \in DOMAIN status, status[d] = "uploaded"
        PROVE  (\E t \in tasks' : t.doc = d) \/ (\E v \in DOMAIN run' : run'[v].doc = d)
    <3>1. CASE \E t \in tasks : t.doc = d
        BY <2>2, <3>1
    <3>2. CASE run[w].doc = d
      <4>1. [doc |-> run[w].doc, retries |-> n].doc = d
          BY <3>2
      <4> QED BY <2>2, <4>1
    <3>3. CASE \E v \in DOMAIN run : v # w /\ run[v].doc = d
        BY <2>1, <3>3
    <3> QED BY <2>3, <3>1, <3>2, <3>3 DEF IndexingInv, NoneIsForgotten
  <2> QED BY <2>3 DEF NoneIsForgotten
<1>4. IdleHoldNone'
    BY DEF IndexingInv, IdleHoldNone, IdleRun
<1> QED BY <1>1, <1>2, <1>3, <1>4 DEF IndexingInv

(* A run that settles its document.                                         *)
LEMMA Settles ==
  ASSUME IndexingInv, NEW w \in DOMAIN run, NEW outcome \in {"indexed", "failed"},
         Settle(w, outcome), UNCHANGED tasks
  PROVE  IndexingInv'
<1>1. Shape'
    BY DEF IndexingInv, Shape, Settle, IdleRun, Fields
<1>2. RetriesFindVersions'
    BY DEF IndexingInv, RetriesFindVersions, Settle, IdleRun
<1>3. NoneIsForgotten'
  <2>1. ASSUME NEW d \in DOMAIN status, status'[d] = "uploaded"
        PROVE  d # run[w].doc /\ status[d] = "uploaded"
      BY <2>1 DEF Settle
  <2>2. ASSUME NEW v \in DOMAIN run, v # w PROVE v \in DOMAIN run' /\ run'[v] = run[v]
      BY <2>2 DEF Settle, IndexingInv, Shape
  <2> QED BY <2>1, <2>2 DEF IndexingInv, NoneIsForgotten, Settle
<1>4. IdleHoldNone'
    BY DEF IndexingInv, IdleHoldNone, Settle, IdleRun
<1> QED BY <1>1, <1>2, <1>3, <1>4 DEF IndexingInv

-----------------------------------------------------------------------------
LEMMA IndexingStep ==
  ASSUME MaxRetries > 0, IndexingInv, [Next]_vars PROVE IndexingInv'
<1>1. ASSUME UNCHANGED <<run, status, tasks, versions>> PROVE IndexingInv'
    BY <1>1 DEF IndexingInv, Shape, RetriesFindVersions, IdleHoldNone, NoneIsForgotten
<1>2. CASE UNCHANGED vars
    BY <1>1, <1>2 DEF vars
<1>3. CASE explore
    BY <1>1, <1>3 DEF explore
<1>4. ASSUME NEW d \in DOMAIN pages, reindex(d) PROVE IndexingInv'
  <2>1. Shape'
      BY <1>4 DEF reindex, IndexingInv, Shape
  <2>2. RetriesFindVersions'
      BY <1>4 DEF reindex, IndexingInv, RetriesFindVersions
  <2>3. NoneIsForgotten'
    <3>1. /\ [doc |-> d, retries |-> 0] \in tasks' /\ tasks \subseteq tasks'
          /\ run' = run
          /\ status' = [status EXCEPT ![d] = "uploaded"]
        BY <1>4 DEF reindex
    <3>2. [doc |-> d, retries |-> 0].doc = d
        OBVIOUS
    <3>3. ASSUME NEW e \in DOMAIN status', status'[e] = "uploaded"
          PROVE  e = d \/ (e \in DOMAIN status /\ status[e] = "uploaded")
        BY <3>1, <3>3
    <3> QED BY <3>1, <3>2, <3>3 DEF IndexingInv, NoneIsForgotten
  <2>4. IdleHoldNone'
      BY <1>4 DEF reindex, IndexingInv, IdleHoldNone
  <2> QED BY <2>1, <2>2, <2>3, <2>4 DEF IndexingInv
<1>5. ASSUME NEW w \in DOMAIN run, Work(w) \/ fail(w) \/ lose(w) PROVE IndexingInv'
  <2>r. /\ run = [v \in DOMAIN run |-> run[v]]
        /\ run[w] = [f \in Fields |-> run[w][f]]
        /\ run[w].retries \in Nat
        /\ run[w].retries # 0 => versions # {}
        /\ run[w].pc = "addVersion" => run[w].retries = 0
      BY <1>5 DEF IndexingInv, Shape, RetriesFindVersions
  <2>1. ASSUME begin(w) PROVE IndexingInv'
    <3>1. PICK t \in tasks :
            /\ tasks' = tasks \ {t}
            /\ run' = [run EXCEPT ![w] = [IdleRun EXCEPT !.pc = "chunk", !.doc = t.doc,
                                            !.retries = t.retries, !.id = runs + 1]]
        BY <2>1 DEF begin
    <3>2. UNCHANGED <<status, versions>> /\ run[w].pc = "idle"
        BY <2>1 DEF begin, Stage
    <3>3. DOMAIN run' = DOMAIN run
        BY <2>r, <3>1
    <3>4. /\ run'[w] = [f \in Fields |-> run'[w][f]]
          /\ run'[w].pc = "chunk" /\ run'[w].doc = t.doc /\ run'[w].retries = t.retries
        BY <2>r, <3>1, <1>5 DEF IdleRun, Fields
    <3>5. \A v \in DOMAIN run : v # w => run'[v] = run[v]
        BY <2>r, <3>1
    <3>6. Shape'
      <4>1. run' = [v \in DOMAIN run' |-> run'[v]]
          BY <3>1
      <4>2. \A v \in DOMAIN run' : run'[v] = [f \in Fields |-> run'[v][f]]
          BY <3>3, <3>4, <3>5 DEF IndexingInv, Shape
      <4> QED BY <4>1, <4>2 DEF Shape
    <3>7. RetriesFindVersions'
        BY <3>1, <3>2, <3>3, <3>4, <3>5 DEF IndexingInv, RetriesFindVersions
    <3>8. NoneIsForgotten'
      <4>1. ASSUME NEW d \in DOMAIN status, status[d] = "uploaded"
            PROVE  (\E u \in tasks' : u.doc = d) \/ (\E v \in DOMAIN run' : run'[v].doc = d)
        <5>1. CASE t.doc = d
            BY <1>5, <3>3, <3>4, <5>1
        <5>2. CASE \E u \in tasks : u.doc = d /\ u # t
            BY <3>1, <5>2
        <5>3. CASE \E v \in DOMAIN run : v # w /\ run[v].doc = d
            BY <3>3, <3>5, <5>3
        <5>4. run[w].doc # d
            BY <1>5, <3>2, <4>1, IndexingAssumption DEF IndexingInv, IdleHoldNone
        <5> QED BY <4>1, <5>1, <5>2, <5>3, <5>4 DEF IndexingInv, NoneIsForgotten
      <4> QED BY <3>2, <4>1 DEF NoneIsForgotten
    <3>9. IdleHoldNone'
        BY <3>2, <3>3, <3>4, <3>5 DEF IndexingInv, IdleHoldNone
    <3> QED BY <3>6, <3>7, <3>8, <3>9 DEF IndexingInv
  <2>2. ASSUME NEW pc, pc \notin {"addVersion", "idle"}, Advance(w, pc), UNCHANGED <<status, versions, tasks>>
        PROVE  IndexingInv'
    <3> DEFINE r == [run[w] EXCEPT !.pc = pc]
    <3>1. /\ r = [f \in Fields |-> r[f]]
          /\ r.pc = pc /\ r.doc = run[w].doc /\ r.retries = run[w].retries
        BY <2>r DEF Fields
    <3>2. run' = [run EXCEPT ![w] = r]
        BY <2>2 DEF Advance
    <3> HIDE DEF r
    <3> QED BY <1>5, <2>2, <3>1, <3>2, GoesOn
  <2>3. ASSUME chunk_document(w) PROVE IndexingInv'
    <3> DEFINE r == [run[w] EXCEPT !.pc = "version", !.chunks = RowsOf(plan.strategy, run[w].doc)]
    <3>1. /\ r = [f \in Fields |-> r[f]]
          /\ r.pc = "version" /\ r.doc = run[w].doc /\ r.retries = run[w].retries
        BY <2>r DEF Fields
    <3>2. run' = [run EXCEPT ![w] = r] /\ UNCHANGED <<status, versions, tasks>>
        BY <2>3 DEF chunk_document
    <3> HIDE DEF r
    <3> QED BY <1>5, <3>1, <3>2, GoesOn
  <2>4. ASSUME NEW v, run' = [run EXCEPT ![w].pc = "embed", ![w].version = v],
               UNCHANGED <<status, versions, tasks>>
        PROVE  IndexingInv'
    <3> DEFINE r == [run[w] EXCEPT !.pc = "embed", !.version = v]
    <3>1. /\ r = [f \in Fields |-> r[f]]
          /\ r.pc = "embed" /\ r.doc = run[w].doc /\ r.retries = run[w].retries
        BY <2>r DEF Fields
    <3>2. run' = [run EXCEPT ![w] = r]
        BY <2>4
    <3> HIDE DEF r
    <3> QED BY <1>5, <2>4, <3>1, <3>2, GoesOn
  <2>5. ASSUME find_version(w) PROVE IndexingInv'
    <3>1. CASE versions # {}
        BY <2>5, <3>1, <2>4 DEF find_version
    <3>2. CASE versions = {}
      <4> DEFINE r == [run[w] EXCEPT !.pc = "addVersion"]
      <4>1. /\ r = [f \in Fields |-> r[f]]
            /\ r.pc = "addVersion" /\ r.doc = run[w].doc /\ r.retries = run[w].retries
          BY <2>r DEF Fields
      <4>2. run' = [run EXCEPT ![w] = r] /\ UNCHANGED <<status, versions, tasks>>
          BY <2>5, <3>2 DEF find_version, Advance
      <4>3. r.retries = 0
          BY <2>r, <3>2, <4>1
      <4> HIDE DEF r
      <4> QED BY <1>5, <4>1, <4>2, <4>3, GoesOn
    <3> QED BY <3>1, <3>2
  <2>6. ASSUME add_version(w) PROVE IndexingInv'
    <3>1. CASE versions = {}
        BY <2>6, <3>1, <2>4 DEF add_version
    <3>2. CASE versions # {}
      <4>1. /\ run[w].retries = 0
            /\ Escape(w)
            /\ UNCHANGED <<status, versions>>
          BY <2>6, <2>r, <3>2 DEF add_version, Stage
      <4>2. /\ run' = [run EXCEPT ![w] = IdleRun]
            /\ tasks' = tasks \cup {[doc |-> run[w].doc, retries |-> 1]}
          BY <4>1, IndexingAssumption DEF Escape
      <4> QED BY <1>5, <3>2, <4>1, <4>2, GoesBack
    <3> QED BY <3>1, <3>2
  <2>7. ASSUME embed(w) PROVE IndexingInv'
    <3> DEFINE pc == IF Targets(w) = {} THEN "graph" ELSE "upsert"
    <3>0. pc \in {"graph", "upsert"}
        OBVIOUS
    <3> HIDE DEF pc
    <3>1. PICK chunks :
            /\ run' = [run EXCEPT ![w].pc = pc, ![w].chunks = chunks]
            /\ UNCHANGED <<status, versions, tasks>>
        BY <2>7 DEF embed, pc
    <3> DEFINE r == [run[w] EXCEPT !.pc = pc, !.chunks = chunks]
    <3>2. /\ r = [f \in Fields |-> r[f]]
          /\ r.pc = pc /\ r.doc = run[w].doc /\ r.retries = run[w].retries
        BY <2>r DEF Fields
    <3>3. run' = [run EXCEPT ![w] = r]
        BY <3>1
    <3> HIDE DEF r
    <3> QED BY <1>5, <3>0, <3>1, <3>2, <3>3, GoesOn
  <2>8. ASSUME upsert(w) PROVE IndexingInv'
      BY <2>8, <2>2 DEF upsert
  <2>9. ASSUME build_graph(w) PROVE IndexingInv'
      BY <2>9, <2>2 DEF build_graph
  <2>10. ASSUME skip_graph(w) PROVE IndexingInv'
      BY <2>10, <2>2 DEF skip_graph
  <2>11. ASSUME commit(w) PROVE IndexingInv'
      BY <1>5, <2>11, Settles DEF commit
  <2>12. ASSUME fail(w) PROVE IndexingInv'
      BY <1>5, <2>12, Settles DEF fail
  <2>13. ASSUME lose(w) PROVE IndexingInv'
    <3>1. /\ run' = [run EXCEPT ![w] = IdleRun]
          /\ tasks' = tasks \cup {[doc |-> run[w].doc, retries |-> run[w].retries]}
          /\ UNCHANGED <<status, versions>>
        BY <2>13 DEF lose
    <3> QED BY <1>5, <2>r, <3>1, GoesBack
  <2> QED BY <1>5, <2>1, <2>3, <2>5, <2>6, <2>7, <2>8, <2>9, <2>10, <2>11, <2>12, <2>13 DEF Work
<1> QED BY <1>2, <1>3, <1>4, <1>5 DEF Next

(* Whatever is lost, fails or loses the race for the first version: every   *)
(* document still waiting has a task or a run.                              *)
THEOREM NoDocumentIsForgotten ==
  ASSUME MaxRetries > 0 PROVE Spec => []NoneIsForgotten
<1>1. Init => IndexingInv
    BY IndexingInit
<1>2. IndexingInv /\ [Next]_vars => IndexingInv'
    BY IndexingStep
<1>3. IndexingInv => NoneIsForgotten
    BY DEF IndexingInv
<1> QED BY <1>1, <1>2, <1>3, PTL DEF Spec

-----------------------------------------------------------------------------
(* Vectors: which points the rows of a run, and of a document, have.        *)

Tables ==
  /\ fresh = [w \in DOMAIN run |-> fresh[w]]
  /\ rows = [d \in DOMAIN rows |-> rows[d]]
  /\ status = [d \in DOMAIN rows |-> status[d]]

(* A run has a number of its own, and points are filed under it.            *)
NumbersInv ==
  /\ runs \in Nat
  /\ \A w \in DOMAIN run : run[w].id \in Nat /\ run[w].id <= runs
  /\ \A v, w \in DOMAIN run :
       run[v].pc # "idle" /\ run[w].pc # "idle" /\ v # w => run[v].id # run[w].id
  /\ \A x \in points : x.id[1] \in Nat /\ x.id[1] <= runs

(* There is one version; one run at most is about to add it.                *)
VersionInv ==
  /\ \A u, v \in versions : u = v
  /\ \A w \in DOMAIN run : fresh[w] # None => versions = {}
  /\ \A v, w \in DOMAIN run : fresh[v] # None /\ fresh[w] # None => v = w

(* Of the points p, those of the chunk c of d are the one it was made of.   *)
Stored(c, d, p) ==
  {x \in p : x.id = c.vec} = {[id |-> c.vec, doc |-> d, vector |-> Embedding(c.version, c.content)]}

Dealt(r) ==
  \A i \in DOMAIN r.chunks :
    LET c == r.chunks[i] IN
    IF c.embed THEN c.vec = <<r.id, i>> /\ c.version = r.version ELSE c.vec = None

(* What a run r has made, with f the version it flushed, v the committed    *)
(* versions and p the points.                                               *)
RunFits(r, f, v, p) ==
  /\ r.pc \in {"chunk", "version", "addVersion", "embed", "upsert"} => \A x \in p : x.id[1] # r.id
  /\ r.pc \in {"embed", "upsert", "graph", "commit"} => r.version \in v \cup ({f} \ {None})
  /\ r.pc \in {"upsert", "graph", "commit"} => Dealt(r)
  /\ r.pc \in {"graph", "commit"} =>
       \A i \in DOMAIN r.chunks : r.chunks[i].embed => Stored(r.chunks[i], r.doc, p)

RowsFit(chunks, d, v, p) ==
  \A i \in DOMAIN chunks :
    LET c == chunks[i] IN
    IF c.embed THEN c.version \in v /\ Stored(c, d, p) ELSE c.vec = None

VectorsInv ==
  /\ Shape /\ Tables /\ NumbersInv /\ VersionInv
  /\ \A w \in DOMAIN run : RunFits(run[w], fresh[w], versions, points)
  /\ \A d \in DOMAIN rows : status[d] = "indexed" => RowsFit(rows[d], d, versions, points)

LEMMA IdleIsIdle ==
  /\ IdleRun = [f \in Fields |-> IdleRun[f]] /\ IdleRun.pc = "idle" /\ IdleRun.id = 0
  /\ \A f, v, p : RunFits(IdleRun, f, v, p)
<1>1. IdleRun = [f \in Fields |-> IdleRun[f]] /\ IdleRun.pc = "idle" /\ IdleRun.id = 0
  BY DEF IdleRun, Fields
<1> QED
  BY <1>1 DEF RunFits

(* What one run's move does to the runs.                                    *)
LEMMA RunMoves ==
  ASSUME VectorsInv, NEW w \in DOMAIN run, NEW r, r = [f \in Fields |-> r[f]],
         run' = [run EXCEPT ![w] = r],
         NEW f, fresh' = [fresh EXCEPT ![w] = f]
  PROVE  /\ Shape'
         /\ DOMAIN run' = DOMAIN run /\ fresh' = [v \in DOMAIN run' |-> fresh'[v]]
         /\ run'[w] = r /\ fresh'[w] = f
         /\ \A v \in DOMAIN run : v # w => run'[v] = run[v] /\ fresh'[v] = fresh[v]
<1>1. Shape /\ fresh = [v \in DOMAIN run |-> fresh[v]]
  BY DEF VectorsInv, Tables
<1>2. /\ DOMAIN run' = DOMAIN run /\ fresh' = [v \in DOMAIN run' |-> fresh'[v]]
      /\ run'[w] = r /\ fresh'[w] = f
      /\ \A v \in DOMAIN run : v # w => run'[v] = run[v] /\ fresh'[v] = fresh[v]
  BY <1>1 DEF Shape
<1>3. Shape'
  <2>1. run' = [v \in DOMAIN run' |-> run'[v]]
    OBVIOUS
  <2>2. ASSUME NEW v \in DOMAIN run' PROVE run'[v] = [g \in Fields |-> run'[v][g]]
    <3>1. CASE v = w
      BY <1>2, <3>1
    <3>2. CASE v # w
      BY <1>1, <1>2, <2>2, <3>2 DEF Shape
    <3> QED
      BY <3>1, <3>2
  <2> QED
    BY <2>1, <2>2 DEF Shape
<1> QED
  BY <1>2, <1>3

(* A step of a run that stores and commits nothing.                         *)
LEMMA RunGoes ==
  ASSUME VectorsInv, NEW w \in DOMAIN run, NEW r, r = [f \in Fields |-> r[f]],
         run' = [run EXCEPT ![w] = r],
         NEW f, fresh' = [fresh EXCEPT ![w] = f],
         f = fresh[w] \/ f = None \/ (versions = {} /\ \A v \in DOMAIN run : fresh[v] = None),
         \/ r.id = run[w].id /\ runs' = runs /\ run[w].pc # "idle"
         \/ r.id = runs + 1 /\ runs' = runs + 1
         \/ r.id = 0 /\ r.pc = "idle" /\ runs' = runs,
         RunFits(r, f, versions, points),
         UNCHANGED <<status, rows, versions, points>>
  PROVE  VectorsInv'
<1>1. /\ Shape'
      /\ DOMAIN run' = DOMAIN run /\ fresh' = [v \in DOMAIN run' |-> fresh'[v]]
      /\ run'[w] = r /\ fresh'[w] = f
      /\ \A v \in DOMAIN run : v # w => run'[v] = run[v] /\ fresh'[v] = fresh[v]
  BY RunMoves
<1>2. NumbersInv'
  <2>1. NumbersInv
    BY DEF VectorsInv
  <2>2. runs' \in Nat /\ runs <= runs'
    BY <2>1 DEF NumbersInv
  <2>3. ASSUME NEW v \in DOMAIN run' PROVE run'[v].id \in Nat /\ run'[v].id <= runs'
    BY <1>1, <2>1, <2>2 DEF NumbersInv
  <2>4. ASSUME NEW u \in DOMAIN run', NEW v \in DOMAIN run', run'[u].pc # "idle",
               run'[v].pc # "idle", u # v
        PROVE  run'[u].id # run'[v].id
    <3>1. CASE u # w /\ v # w
      BY <1>1, <2>1, <2>4, <3>1 DEF NumbersInv
    <3>2. CASE u = w
      BY <1>1, <2>1, <2>4, <3>2 DEF NumbersInv
    <3>3. CASE v = w
      BY <1>1, <2>1, <2>4, <3>3 DEF NumbersInv
    <3> QED
      BY <3>1, <3>2, <3>3
  <2>5. \A x \in points' : x.id[1] \in Nat /\ x.id[1] <= runs'
    BY <2>1, <2>2 DEF NumbersInv
  <2> QED
    BY <2>2, <2>3, <2>4, <2>5 DEF NumbersInv
<1>3. VersionInv'
  BY <1>1 DEF VectorsInv, VersionInv
<1>4. ASSUME NEW v \in DOMAIN run' PROVE RunFits(run'[v], fresh'[v], versions', points')
  <2>1. CASE v = w
    BY <1>1, <2>1
  <2>2. CASE v # w
    <3>1. RunFits(run[v], fresh[v], versions, points)
      BY <1>1, <1>4 DEF VectorsInv
    <3> QED
      BY <1>1, <1>4, <2>2, <3>1
  <2> QED
    BY <2>1, <2>2
<1>5. Tables'
  BY <1>1 DEF VectorsInv, Tables
<1>6. \A d \in DOMAIN rows' : status'[d] = "indexed" => RowsFit(rows'[d], d, versions', points')
  BY DEF VectorsInv
<1>7. (\A v \in DOMAIN run : RunFits(run[v], fresh[v], versions, points))'
  BY <1>4 DEF RunFits, Dealt, Stored
<1>8. (\A d \in DOMAIN rows : status[d] = "indexed" => RowsFit(rows[d], d, versions, points))'
  BY <1>6 DEF RowsFit, Stored
<1> QED
  BY <1>1, <1>2, <1>3, <1>5, <1>7, <1>8 DEF VectorsInv

(* The rows and the version of a run are committed.                         *)
LEMMA RunSettles ==
  ASSUME VectorsInv, NEW w \in DOMAIN run, run[w].pc # "idle", NEW outcome, Settle(w, outcome),
         outcome = "indexed" => run[w].pc = "commit",
         UNCHANGED <<points, runs>>
  PROVE  VectorsInv'
<1>1. /\ run' = [run EXCEPT ![w] = IdleRun] /\ fresh' = [fresh EXCEPT ![w] = None]
      /\ status' = [status EXCEPT ![run[w].doc] = outcome]
      /\ rows' = [rows EXCEPT ![run[w].doc] = run[w].chunks]
      /\ versions' = versions \cup ({fresh[w]} \ {None})
  BY DEF Settle
<1>2. /\ Shape'
      /\ DOMAIN run' = DOMAIN run /\ fresh' = [v \in DOMAIN run' |-> fresh'[v]]
      /\ run'[w] = IdleRun /\ fresh'[w] = None
      /\ \A v \in DOMAIN run : v # w => run'[v] = run[v] /\ fresh'[v] = fresh[v]
  BY <1>1, IdleIsIdle, RunMoves
<1>3. /\ NumbersInv /\ VersionInv /\ Tables
      /\ \A v \in DOMAIN run : RunFits(run[v], fresh[v], versions, points)
      /\ \A d \in DOMAIN rows : status[d] = "indexed" => RowsFit(rows[d], d, versions, points)
  BY DEF VectorsInv
<1>4. NumbersInv'
  BY <1>2, <1>3, IdleIsIdle DEF NumbersInv
<1>5. VersionInv'
  BY <1>1, <1>2, <1>3 DEF VersionInv
<1>6. ASSUME NEW v \in DOMAIN run' PROVE RunFits(run'[v], fresh'[v], versions', points')
  <2>1. CASE v = w
    BY <1>2, <2>1, IdleIsIdle
  <2>2. CASE v # w
    <3>1. RunFits(run[v], fresh[v], versions, points) /\ versions \subseteq versions'
      BY <1>1, <1>2, <1>3, <1>6
    <3>2. run'[v] = run[v] /\ fresh'[v] = fresh[v]
      BY <1>2, <1>6, <2>2
    <3> QED
      BY <3>1, <3>2 DEF RunFits
  <2> QED
    BY <2>1, <2>2
<1>7. Tables'
  <2>1. rows = [d \in DOMAIN rows |-> rows[d]] /\ status = [d \in DOMAIN rows |-> status[d]]
    BY <1>3 DEF Tables
  <2>2. rows' = [d \in DOMAIN rows' |-> rows'[d]] /\ DOMAIN rows' = DOMAIN rows
    BY <1>1, <2>1
  <2>3. status' = [d \in DOMAIN rows |-> status'[d]]
    BY <1>1, <2>1
  <2>4. fresh' = [v \in DOMAIN run' |-> fresh'[v]]
    BY <1>2
  <2> QED
    BY <2>2, <2>3, <2>4 DEF Tables
<1>8. ASSUME NEW d \in DOMAIN rows', status'[d] = "indexed"
      PROVE  RowsFit(rows'[d], d, versions', points')
  <2>1. d \in DOMAIN rows /\ versions \subseteq versions' /\ status = [e \in DOMAIN rows |-> status[e]]
    BY <1>1, <1>3, <1>8 DEF Tables
  <2>2. CASE d = run[w].doc
    <3>1. status'[d] = outcome /\ rows'[d] = run[w].chunks
      BY <1>1, <2>1, <2>2
    <3>2. run[w].pc = "commit" /\ RunFits(run[w], fresh[w], versions, points)
      BY <1>3, <1>8, <3>1
    <3>3. /\ run[w].version \in versions' /\ Dealt(run[w])
          /\ \A i \in DOMAIN run[w].chunks :
               run[w].chunks[i].embed => Stored(run[w].chunks[i], run[w].doc, points)
      BY <1>1, <3>2 DEF RunFits
    <3> QED
      BY <2>2, <3>1, <3>3 DEF RowsFit, Dealt
  <2>3. CASE d # run[w].doc
    <3>1. status'[d] = status[d] /\ rows'[d] = rows[d]
      BY <1>1, <2>1, <2>3
    <3>2. RowsFit(rows[d], d, versions, points)
      BY <1>3, <1>8, <2>1, <3>1
    <3> QED
      BY <2>1, <3>1, <3>2 DEF RowsFit
  <2> QED
    BY <2>2, <2>3
<1>9. (\A v \in DOMAIN run : RunFits(run[v], fresh[v], versions, points))'
  BY <1>6 DEF RunFits, Dealt, Stored
<1>10. (\A d \in DOMAIN rows : status[d] = "indexed" => RowsFit(rows[d], d, versions, points))'
  BY <1>8 DEF RowsFit, Stored
<1> QED
  BY <1>2, <1>4, <1>5, <1>7, <1>9, <1>10 DEF VectorsInv

(* A run's record, and its number.                                          *)
LEMMA RunHere ==
  ASSUME VectorsInv, NEW w \in DOMAIN run
  PROVE  /\ run[w] = [f \in Fields |-> run[w][f]]
         /\ run[w].id \in Nat /\ run[w].id <= runs /\ runs \in Nat
         /\ RunFits(run[w], fresh[w], versions, points)
         /\ fresh = [fresh EXCEPT ![w] = fresh[w]]
BY DEF VectorsInv, Shape, NumbersInv, Tables

(* A run that goes on to another stage, and keeps its number.               *)
LEMMA RunAdvances ==
  ASSUME VectorsInv, NEW w \in DOMAIN run, run[w].pc # "idle",
         NEW r, r = [f \in Fields |-> r[f]], r.id = run[w].id,
         run' = [run EXCEPT ![w] = r], RunFits(r, fresh[w], versions, points),
         UNCHANGED <<status, rows, versions, fresh, points, runs>>
  PROVE  VectorsInv'
<1>1. fresh' = [fresh EXCEPT ![w] = fresh[w]]
  BY RunHere
<1> QED
  BY <1>1, RunGoes

LEMMA BeginFits ==
  ASSUME VectorsInv, NEW w \in DOMAIN run, begin(w) PROVE VectorsInv'
<1>1. PICK t \in tasks :
        run' = [run EXCEPT ![w] = [IdleRun EXCEPT !.pc = "chunk", !.doc = t.doc,
                                     !.retries = t.retries, !.id = runs + 1]]
  BY DEF begin
<1> DEFINE r == [IdleRun EXCEPT !.pc = "chunk", !.doc = t.doc, !.retries = t.retries,
                                !.id = runs + 1]
<1>2. r = [f \in Fields |-> r[f]] /\ r.pc = "chunk" /\ r.id = runs + 1
  BY DEF IdleRun, Fields
<1>3. runs' = runs + 1 /\ UNCHANGED <<status, rows, versions, fresh, points>>
  BY DEF begin
<1>4. run' = [run EXCEPT ![w] = r]
  BY <1>1
<1> HIDE DEF r
<1>5. fresh' = [fresh EXCEPT ![w] = fresh[w]]
  BY <1>3, RunHere
<1>6. RunFits(r, fresh[w], versions, points)
  BY <1>2 DEF RunFits, VectorsInv, NumbersInv
<1> QED
  BY <1>2, <1>3, <1>4, <1>5, <1>6, RunGoes

LEMMA ChunkFits ==
  ASSUME VectorsInv, NEW w \in DOMAIN run, chunk_document(w) PROVE VectorsInv'
<1> DEFINE r == [run[w] EXCEPT !.pc = "version", !.chunks = RowsOf(plan.strategy, run[w].doc)]
<1>1. run' = [run EXCEPT ![w] = r] /\ run[w].pc = "chunk"
      /\ UNCHANGED <<status, rows, versions, fresh, points, runs>>
  BY DEF chunk_document, Stage
<1>2. r = [f \in Fields |-> r[f]] /\ r.pc = "version" /\ r.id = run[w].id
  BY RunHere DEF Fields
<1> HIDE DEF r
<1>3. RunFits(r, fresh[w], versions, points)
  BY <1>1, <1>2, RunHere DEF RunFits
<1> QED
  BY <1>1, <1>2, <1>3, RunAdvances

LEMMA FindFits ==
  ASSUME VectorsInv, NEW w \in DOMAIN run, find_version(w) PROVE VectorsInv'
<1>1. run[w].pc = "version" /\ UNCHANGED <<status, rows, versions, fresh, points, runs>>
  BY DEF find_version, Stage
<1>2. \A x \in points : x.id[1] # run[w].id
  BY <1>1, RunHere DEF RunFits
<1>3. CASE versions = {}
  <2> DEFINE r == [run[w] EXCEPT !.pc = "addVersion"]
  <2>1. run' = [run EXCEPT ![w] = r]
    BY <1>3 DEF find_version, Advance
  <2>2. r = [f \in Fields |-> r[f]] /\ r.pc = "addVersion" /\ r.id = run[w].id
    BY RunHere DEF Fields
  <2> HIDE DEF r
  <2>3. RunFits(r, fresh[w], versions, points)
    BY <1>2, <2>2 DEF RunFits
  <2> QED
    BY <1>1, <2>1, <2>2, <2>3, RunAdvances
<1>4. CASE versions # {}
  <2>1. PICK v \in versions : run' = [run EXCEPT ![w].pc = "embed", ![w].version = v]
    BY <1>4 DEF find_version
  <2> DEFINE r == [run[w] EXCEPT !.pc = "embed", !.version = v]
  <2>2. run' = [run EXCEPT ![w] = r]
    BY <2>1
  <2>3. r = [f \in Fields |-> r[f]] /\ r.pc = "embed" /\ r.id = run[w].id /\ r.version = v
    BY RunHere DEF Fields
  <2> HIDE DEF r
  <2>4. RunFits(r, fresh[w], versions, points)
    BY <1>2, <2>3 DEF RunFits
  <2> QED
    BY <1>1, <2>2, <2>3, <2>4, RunAdvances
<1> QED
  BY <1>3, <1>4

(* A run that ends without a commit.                                        *)
LEMMA RunEnds ==
  ASSUME VectorsInv, NEW w \in DOMAIN run,
         run' = [run EXCEPT ![w] = IdleRun], fresh' = [fresh EXCEPT ![w] = None],
         UNCHANGED <<status, rows, versions, points, runs>>
  PROVE  VectorsInv'
BY IdleIsIdle, RunGoes

LEMMA AddVersionFits ==
  ASSUME VectorsInv, NEW w \in DOMAIN run, add_version(w) PROVE VectorsInv'
<1>1. /\ run[w].pc = "addVersion" /\ \A v \in DOMAIN run : fresh[v] = None
      /\ UNCHANGED <<status, rows, versions, points, runs>>
  BY DEF add_version, Stage
<1>2. \A x \in points : x.id[1] # run[w].id
  BY <1>1, RunHere DEF RunFits
<1>3. CASE versions = {}
  <2> DEFINE r == [run[w] EXCEPT !.pc = "embed", !.version = run[w].id]
  <2>1. run' = [run EXCEPT ![w] = r] /\ fresh' = [fresh EXCEPT ![w] = run[w].id]
    BY <1>3 DEF add_version
  <2>2. /\ r = [f \in Fields |-> r[f]] /\ r.pc = "embed" /\ r.id = run[w].id
        /\ r.version = run[w].id
    BY RunHere DEF Fields
  <2>3. run[w].id # None
    BY RunHere, IndexingAssumption
  <2> HIDE DEF r
  <2>4. RunFits(r, run[w].id, versions, points)
    BY <1>2, <2>2, <2>3 DEF RunFits
  <2> QED
    BY <1>1, <1>3, <2>1, <2>2, <2>4, RunGoes
<1>4. CASE versions # {}
  BY <1>1, <1>4, RunEnds DEF add_version, Escape
<1> QED
  BY <1>3, <1>4

(* The chunks to embed, and no others, get a point of the run's own.        *)
LEMMA EmbedFits ==
  ASSUME VectorsInv, NEW w \in DOMAIN run, embed(w) PROVE VectorsInv'
<1> DEFINE chunks == [i \in DOMAIN run[w].chunks |->
                        LET c == run[w].chunks[i] IN
                        IF c.embed THEN Row(c, c.page, c.parent, <<run[w].id, i>>, run[w].version)
                        ELSE Row(c, c.page, c.parent, None, None)]
           pc == IF Targets(w) = {} THEN "graph" ELSE "upsert"
           r == [run[w] EXCEPT !.pc = pc, !.chunks = chunks]
<1>1. /\ run[w].pc = "embed" /\ run' = [run EXCEPT ![w] = r]
      /\ UNCHANGED <<status, rows, versions, fresh, points, runs>>
  BY DEF embed, Stage
<1>2. /\ r = [f \in Fields |-> r[f]] /\ r.pc = pc /\ r.chunks = chunks
      /\ r.id = run[w].id /\ r.version = run[w].version
  <2> HIDE DEF chunks, pc
  <2> QED
    BY RunHere DEF Fields
<1>3. /\ \A x \in points : x.id[1] # run[w].id
      /\ run[w].version \in versions \cup ({fresh[w]} \ {None})
  BY <1>1, RunHere DEF RunFits
<1>4. ASSUME NEW i \in DOMAIN chunks
      PROVE  /\ i \in DOMAIN run[w].chunks /\ chunks[i].embed = run[w].chunks[i].embed
             /\ IF chunks[i].embed
                THEN chunks[i].vec = <<run[w].id, i>> /\ chunks[i].version = run[w].version
                ELSE chunks[i].vec = None
  BY <1>4 DEF Row
<1>5. pc \in {"graph", "upsert"} /\ (pc = "graph" => Targets(w) = {})
  OBVIOUS
<1> HIDE DEF r, chunks, pc
<1>6. Dealt(r)
  BY <1>2, <1>4 DEF Dealt
<1>7. pc = "graph" => \A i \in DOMAIN r.chunks : ~r.chunks[i].embed
  BY <1>2, <1>4, <1>5 DEF Targets
<1>8. RunFits(r, fresh[w], versions, points)
  BY <1>2, <1>3, <1>5, <1>6, <1>7 DEF RunFits
<1> QED
  BY <1>1, <1>2, <1>8, RunAdvances

(* The points a run stores are new, and those of others are as they were.   *)
LEMMA UpsertFits ==
  ASSUME VectorsInv, NEW w \in DOMAIN run, upsert(w) PROVE VectorsInv'
<1> DEFINE PointOf(i) == [id |-> <<run[w].id, i>>, doc |-> run[w].doc,
                          vector |-> Embedding(run[w].version, run[w].chunks[i].content)]
           r == [run[w] EXCEPT !.pc = "graph"]
<1>1. /\ run[w].pc = "upsert" /\ run' = [run EXCEPT ![w] = r]
      /\ points' = points \cup {PointOf(i) : i \in Targets(w)}
      /\ UNCHANGED <<status, rows, versions, fresh, runs>>
  BY DEF upsert, Stage, Advance
<1>2. /\ r = [f \in Fields |-> r[f]] /\ r.pc = "graph" /\ r.chunks = run[w].chunks
      /\ r.id = run[w].id /\ r.version = run[w].version /\ r.doc = run[w].doc
  BY RunHere DEF Fields
<1>3. /\ \A x \in points : x.id[1] # run[w].id
      /\ run[w].version \in versions \cup ({fresh[w]} \ {None})
      /\ Dealt(run[w])
  BY <1>1, RunHere DEF RunFits
<1>4. \A i : PointOf(i).id = <<run[w].id, i>> /\ PointOf(i).id[1] = run[w].id
  OBVIOUS
<1>5. \A i, j : PointOf(i).id = PointOf(j).id => i = j
  OBVIOUS
<1>6. ASSUME NEW c, NEW d, Stored(c, d, points) PROVE Stored(c, d, points')
  <2>1. PICK x \in points : x.id = c.vec
    BY <1>6 DEF Stored
  <2>2. \A i : PointOf(i).id # c.vec
    BY <1>3, <1>4, <2>1
  <2> HIDE DEF PointOf
  <2>3. {y \in points' : y.id = c.vec} = {y \in points : y.id = c.vec}
    BY <1>1, <2>2
  <2> QED
    BY <1>6, <2>3 DEF Stored
<1>7. ASSUME NEW i \in DOMAIN run[w].chunks, run[w].chunks[i].embed
      PROVE  Stored(run[w].chunks[i], run[w].doc, points')
  <2>1. run[w].chunks[i].vec = <<run[w].id, i>> /\ run[w].chunks[i].version = run[w].version
    BY <1>3, <1>7 DEF Dealt
  <2>2. i \in Targets(w)
    BY <1>7 DEF Targets
  <2>3. \A x \in points : x.id # PointOf(i).id
    BY <1>3, <1>4
  <2>4. PointOf(i) = [id |-> run[w].chunks[i].vec, doc |-> run[w].doc,
                      vector |-> Embedding(run[w].chunks[i].version, run[w].chunks[i].content)]
    BY <2>1
  <2>5. PointOf(i).id = run[w].chunks[i].vec
    BY <2>1
  <2> HIDE DEF PointOf
  <2>6. {x \in points' : x.id = run[w].chunks[i].vec} = {PointOf(i)}
    BY <1>1, <1>5, <2>2, <2>3, <2>5
  <2> QED
    BY <2>4, <2>6 DEF Stored
<1> HIDE DEF r
<1>8. RunFits(r, fresh[w], versions, points')
  BY <1>2, <1>3, <1>7 DEF RunFits, Dealt
<1>9. fresh' = [fresh EXCEPT ![w] = fresh[w]]
  BY <1>1, RunHere
<1>10. /\ Shape'
       /\ DOMAIN run' = DOMAIN run
       /\ run'[w] = r
       /\ \A v \in DOMAIN run : v # w => run'[v] = run[v] /\ fresh'[v] = fresh[v]
  BY <1>1, <1>2, <1>9, RunMoves
<1>11. /\ NumbersInv /\ VersionInv /\ Tables
       /\ \A v \in DOMAIN run : RunFits(run[v], fresh[v], versions, points)
       /\ \A d \in DOMAIN rows : status[d] = "indexed" => RowsFit(rows[d], d, versions, points)
  BY DEF VectorsInv
<1>12. NumbersInv'
  <2>1. \A x \in points' : x.id[1] \in Nat /\ x.id[1] <= runs
    <3> HIDE DEF PointOf
    <3> QED
      BY <1>1, <1>4, <1>11, RunHere DEF NumbersInv
  <2> QED
    BY <1>1, <1>2, <1>10, <1>11, <2>1 DEF NumbersInv
<1>13. ASSUME NEW v \in DOMAIN run' PROVE RunFits(run'[v], fresh'[v], versions', points')
  <2>1. CASE v = w
    BY <1>1, <1>8, <1>10, <2>1
  <2>2. CASE v # w
    <3>1. RunFits(run[v], fresh[v], versions, points)
      BY <1>10, <1>11, <1>13
    <3>2. run[v].pc # "idle" => run[v].id # run[w].id
      BY <1>1, <1>10, <1>11, <1>13, <2>2 DEF NumbersInv
    <3>3. run[v].pc \in {"chunk", "version", "addVersion", "embed", "upsert"} =>
            \A x \in points' : x.id[1] # run[v].id
      <4> HIDE DEF PointOf
      <4> QED
        BY <1>1, <1>4, <3>1, <3>2 DEF RunFits
    <3>4. RunFits(run[v], fresh[v], versions, points')
      BY <1>6, <3>1, <3>3 DEF RunFits
    <3> QED
      BY <1>1, <1>10, <1>13, <2>2, <3>4
  <2> QED
    BY <2>1, <2>2
<1>14. ASSUME NEW d \in DOMAIN rows', status'[d] = "indexed"
       PROVE  RowsFit(rows'[d], d, versions', points')
  BY <1>1, <1>6, <1>11, <1>14 DEF RowsFit
<1>15. (\A v \in DOMAIN run : RunFits(run[v], fresh[v], versions, points))'
  BY <1>13 DEF RunFits, Dealt, Stored
<1>16. (\A d \in DOMAIN rows : status[d] = "indexed" => RowsFit(rows[d], d, versions, points))'
  BY <1>14 DEF RowsFit, Stored
<1>17. VersionInv' /\ Tables'
  BY <1>1, <1>10, <1>11 DEF VersionInv, Tables
<1> QED
  BY <1>10, <1>12, <1>15, <1>16, <1>17 DEF VectorsInv

LEMMA GraphFits ==
  ASSUME VectorsInv, NEW w \in DOMAIN run, run[w].pc = "graph", Advance(w, "commit"),
         UNCHANGED <<status, rows, versions, fresh, points, runs>>
  PROVE  VectorsInv'
<1> DEFINE r == [run[w] EXCEPT !.pc = "commit"]
<1>1. run' = [run EXCEPT ![w] = r]
  BY DEF Advance
<1>2. /\ r = [f \in Fields |-> r[f]] /\ r.pc = "commit" /\ r.chunks = run[w].chunks
      /\ r.id = run[w].id /\ r.version = run[w].version /\ r.doc = run[w].doc
  BY RunHere DEF Fields
<1> HIDE DEF r
<1>3. RunFits(r, fresh[w], versions, points)
  BY <1>2, RunHere DEF RunFits, Dealt
<1> QED
  BY <1>1, <1>2, <1>3, RunAdvances

LEMMA ReindexFits ==
  ASSUME VectorsInv, NEW d \in DOMAIN pages, reindex(d) PROVE VectorsInv'
<1>1. /\ status' = [status EXCEPT ![d] = "uploaded"]
      /\ UNCHANGED <<rows, versions, fresh, points, run, runs>>
  BY DEF reindex
<1>2. Tables'
  BY <1>1 DEF VectorsInv, Tables
<1>3. \A e \in DOMAIN rows : status'[e] = "indexed" => status[e] = "indexed"
  BY <1>1 DEF VectorsInv, Tables
<1>4. (\A e \in DOMAIN rows : status[e] = "indexed" => RowsFit(rows[e], e, versions, points))'
  BY <1>1, <1>3 DEF VectorsInv, RowsFit, Stored
<1>5. (\A v \in DOMAIN run : RunFits(run[v], fresh[v], versions, points))'
  BY <1>1 DEF VectorsInv, RunFits, Dealt, Stored
<1>6. Shape' /\ NumbersInv' /\ VersionInv'
  BY <1>1 DEF VectorsInv, Shape, NumbersInv, VersionInv
<1> QED
  BY <1>2, <1>4, <1>5, <1>6 DEF VectorsInv

LEMMA VectorsStart == Init => VectorsInv
<1> SUFFICES ASSUME Init PROVE VectorsInv
  OBVIOUS
<1>1. PICK p \in Plans : run = [w \in p.workers |-> IdleRun] /\ fresh = [w \in p.workers |-> None]
  BY DEF Init
<1>2. Shape /\ Tables
  BY <1>1, IdleIsIdle DEF Init, Shape, Tables
<1>3. NumbersInv /\ VersionInv
  BY SMTT(40), <1>1, IdleIsIdle DEF Init, NumbersInv, VersionInv
<1>4. \A w \in DOMAIN run : RunFits(run[w], fresh[w], versions, points)
  BY <1>1, IdleIsIdle
<1>5. \A d \in DOMAIN rows : status[d] # "indexed"
  BY DEF Init
<1> QED
  BY <1>2, <1>3, <1>4, <1>5 DEF VectorsInv

LEMMA VectorsStep == VectorsInv /\ [Next]_vars => VectorsInv'
<1> SUFFICES ASSUME VectorsInv, [Next]_vars PROVE VectorsInv'
  OBVIOUS
<1>1. ASSUME UNCHANGED <<run, status, rows, versions, fresh, points, runs>> PROVE VectorsInv'
  BY <1>1 DEF VectorsInv, Shape, Tables, NumbersInv, VersionInv, RunFits, Dealt, Stored, RowsFit
<1>2. CASE UNCHANGED vars
  BY <1>1, <1>2 DEF vars
<1>3. CASE explore
  BY <1>1, <1>3 DEF explore
<1>4. ASSUME NEW d \in DOMAIN pages, reindex(d) PROVE VectorsInv'
  BY <1>4, ReindexFits
<1>5. ASSUME NEW w \in DOMAIN run, Work(w) \/ fail(w) \/ lose(w) PROVE VectorsInv'
  <2>1. CASE begin(w)
    BY <2>1, BeginFits
  <2>2. CASE chunk_document(w)
    BY <2>2, ChunkFits
  <2>3. CASE find_version(w)
    BY <2>3, FindFits
  <2>4. CASE add_version(w)
    BY <2>4, AddVersionFits
  <2>5. CASE embed(w)
    BY <2>5, EmbedFits
  <2>6. CASE upsert(w)
    BY <2>6, UpsertFits
  <2>7. CASE build_graph(w)
    BY <2>7, GraphFits DEF build_graph, Stage
  <2>8. CASE skip_graph(w)
    BY <2>8, GraphFits DEF skip_graph, Stage
  <2>9. CASE commit(w)
    BY <2>9, RunSettles DEF commit, Stage
  <2>10. CASE fail(w)
    BY <2>10, RunSettles DEF fail
  <2>11. CASE lose(w)
    BY <2>11, RunEnds DEF lose
  <2> QED
    BY <1>5, <2>1, <2>2, <2>3, <2>4, <2>5, <2>6, <2>7, <2>8, <2>9, <2>10, <2>11 DEF Work
<1> QED
  BY <1>2, <1>3, <1>4, <1>5 DEF Next

(* Exactly the chunks to embed of an indexed document have a vector, made   *)
(* of their own text in the one version there is, whatever the chunkers     *)
(* return and however runs are lost, fail, race for the first version or    *)
(* index a document again (embedding_service.py, ingestion_service.py).     *)
THEOREM VectorsFitTheirChunks == Spec => []VectorsFit
<1>1. ASSUME VectorsInv PROVE VectorsFit
  <2>1. Cardinality(versions) <= 1
    <3>1. CASE versions = {}
      BY <3>1, FS_EmptySet
    <3>2. CASE versions # {}
      <4>1. PICK v : versions = {v}
        BY <1>1, <3>2 DEF VectorsInv, VersionInv
      <4>2. Cardinality({v}) = 1
        BY FS_Singleton
      <4> QED
        BY <4>1, <4>2
    <3> QED
      BY <3>1, <3>2
  <2>2. ASSUME NEW d \in DOMAIN rows, status[d] = "indexed" PROVE RowsFit(rows[d], d, versions, points)
    BY <1>1, <2>2 DEF VectorsInv
  <2> QED
    BY <2>1, <2>2 DEF VectorsFit, RowsFit, Stored
<1> QED
  BY <1>1, VectorsStart, VectorsStep, PTL DEF Spec

-----------------------------------------------------------------------------
PlanOK == plan.failures \in Nat /\ plan = [k \in DOMAIN plan |-> plan[k]] /\ "failures" \in DOMAIN plan

LEMMA PlanStart == Init => PlanOK
<1> SUFFICES ASSUME Init PROVE PlanOK
  OBVIOUS
<1>1. PICK p \in Plans : plan = p.may
  BY DEF Init
<1>2. plan \in [strategy : STRING, extractor : {"rules", "llm"},
                failures : Nat, losses : Nat, again : Nat, queries : Nat]
  BY <1>1, IndexingAssumption
<1> QED
  BY <1>2 DEF PlanOK

LEMMA PlanStep ==
  ASSUME PlanOK, [Next]_vars PROVE PlanOK'
<1>1. ASSUME NEW what, Spend(what) PROVE PlanOK'
  <2>1. plan' = [plan EXCEPT ![what] = plan[what] - 1] /\ plan[what] > 0
    BY <1>1 DEF Spend
  <2>2. CASE what = "failures"
    <3>1. plan.failures > 0 /\ plan' = [plan EXCEPT !.failures = plan.failures - 1]
      BY <2>1, <2>2
    <3>2. plan.failures \in Nat /\ "failures" \in DOMAIN plan
      BY DEF PlanOK
    <3>3. plan'.failures = plan.failures - 1 /\ DOMAIN plan' = DOMAIN plan
      BY <3>1, <3>2
    <3>4. plan' = [k \in DOMAIN plan' |-> plan'[k]]
      BY <3>1, <3>3
    <3> QED
      BY <3>1, <3>2, <3>3, <3>4 DEF PlanOK
  <2>3. CASE what # "failures"
    BY <2>1, <2>3 DEF PlanOK
  <2> QED
    BY <2>2, <2>3
<1>2. CASE plan' = plan
  BY <1>2 DEF PlanOK
<1>3. ASSUME NEW w \in DOMAIN run, fail(w) \/ lose(w) PROVE PlanOK'
  BY <1>1, <1>3 DEF fail, lose
<1>4. ASSUME NEW d \in DOMAIN pages, reindex(d) PROVE PlanOK'
  BY <1>1, <1>4 DEF reindex
<1>5. CASE explore
  BY <1>1, <1>5 DEF explore
<1>6. ASSUME NEW w \in DOMAIN run, Work(w) PROVE plan' = plan
  BY <1>6 DEF Work, begin, chunk_document, find_version, add_version, embed, upsert, build_graph,
              skip_graph, commit
<1> QED
  BY <1>2, <1>3, <1>4, <1>5, <1>6 DEF Next, vars

LEMMA WorkNeverFails ==
  ASSUME NEW w \in DOMAIN run, Work(w), NEW d \in DOMAIN status, status'[d] = "failed"
  PROVE  status[d] = "failed"
<1>1. CASE commit(w)
  BY <1>1 DEF commit, Settle
<1>2. CASE ~commit(w)
  <2>1. status' = status
    BY <1>2 DEF Work, begin, chunk_document, find_version, add_version, embed, upsert,
                build_graph, skip_graph
  <2> QED
    BY <2>1
<1> QED
  BY <1>1, <1>2

(* A document fails only in a step in which embedding it or storing its     *)
(* vectors does: neither a graph that cannot be built nor a lost race or    *)
(* worker fails one (ingestion_service.py).                                 *)
THEOREM NothingElseFails == Spec => OnlyIndexingFails
<1>1. ASSUME PlanOK, [Next]_vars
      PROVE  PlanOK' /\ [\A d \in DOMAIN status :
                           status[d] # "failed" /\ status'[d] = "failed" =>
                             plan'.failures < plan.failures]_vars
  <2>1. PlanOK'
    BY <1>1, PlanStep
  <2>2. ASSUME NEW d \in DOMAIN status, status[d] # "failed", status'[d] = "failed"
        PROVE  plan'.failures < plan.failures
    <3>1. CASE \E w \in DOMAIN run : Work(w)
      BY <2>2, <3>1, WorkNeverFails
    <3>2. CASE \E w \in DOMAIN run : fail(w)
      BY <1>1, <3>2 DEF fail, Spend, PlanOK
    <3>3. CASE \E e \in DOMAIN pages : reindex(e)
      BY <2>2, <3>3 DEF reindex
    <3>4. CASE UNCHANGED status \/ \E w \in DOMAIN run : lose(w)
      BY <2>2, <3>4 DEF lose
    <3> QED
      BY <1>1, <3>1, <3>2, <3>3, <3>4 DEF Next, vars, explore
  <2> QED
    BY <2>1, <2>2
<1> QED
  BY <1>1, PlanStart, PTL DEF Spec, OnlyIndexingFails

-----------------------------------------------------------------------------
(* One pass over the relations: what it finds are the neighbours of the     *)
(* frontier not seen before, each once.                                     *)

HopKey(state, rel) ==
  IF rel.source \in state.frontier /\ rel.target \notin state.seen THEN <<rel.target>>
  ELSE IF rel.target \in state.frontier /\ rel.source \notin state.seen THEN <<rel.source>>
  ELSE <<>>

HopStep(state, acc, rel) ==
  LET key == HopKey(state, rel) IN
  IF key = <<>> THEN acc
  ELSE [next |-> acc.next \cup {key[1]},
        out |-> IF key[1] \in ToSet(acc.out) THEN acc.out ELSE Append(acc.out, key[1])]

(* The relations are a sequence, and their ends are entities.               *)
Edges(links, n, E) ==
  /\ n \in Nat
  /\ DOMAIN links = 1 .. n
  /\ \A k \in 1 .. n : links[k].source \in E /\ links[k].target \in E

Passing(E) == [next : SUBSET E, out : Seq(E)]

LEMMA HopRun ==
  ASSUME NEW links, NEW nr, NEW E, Edges(links, nr, E),
         NEW state, state.out \in Seq(E)
  PROVE  \E it \in [0 .. nr -> Passing(E)] :
           /\ it[0] = [next |-> {}, out |-> state.out]
           /\ \A m \in 1 .. nr : it[m] = HopStep(state, it[m - 1], links[m])
           /\ Hop(state, links) = it[nr]
<1> DEFINE n == nr
           T == Passing(E)
           base == [next |-> {}, out |-> state.out]
           G == [p \in (1 .. n) \X T |-> HopStep(state, p[2], links[p[1]])]
           Rec(f) == f = [s \in SUBSET (1 .. n) |->
                            IF s = {} THEN base ELSE HopStep(state, f[s \ {Max(s)}], links[Max(s)])]
           iter == CHOOSE f : Rec(f)
<1>1. n \in Nat /\ base \in T
  BY DEF Edges, Passing
<1>2. \A t \in T, m \in 1 .. n : HopStep(state, t, links[m]) \in T
  <2>1. ASSUME NEW t \in T, NEW m \in 1 .. n PROVE HopStep(state, t, links[m]) \in T
    <3>1. links[m].source \in E /\ links[m].target \in E
      BY DEF Edges
    <3>2. HopKey(state, links[m]) = <<>> \/ \E x \in E : HopKey(state, links[m]) = <<x>>
      BY <3>1 DEF HopKey
    <3> QED
      BY <3>2 DEF HopStep, Passing
  <2> QED
    BY <2>1
<1>3. G \in [(1 .. n) \X T -> T] /\ \A m \in 1 .. n, t \in T : G[<<m, t>>] = HopStep(state, t, links[m])
  BY <1>2
<1>4. Hop(state, links) = iter[1 .. n]
  BY DEF Hop, Edges, FoldLeft, MapThenFoldSet, HopStep, HopKey
<1> HIDE DEF T, G, n, base
<1>5. PICK f : IsLeftFold(f, n, T, base, G)
  BY <1>1, <1>3, FoldLeftIsDefined
<1>6. Rec(f)
  <2>1. ASSUME NEW s \in SUBSET (1 .. n), s # {}
        PROVE  f[s] = HopStep(state, f[s \ {Max(s)}], links[Max(s)])
    <3>1. Max(s) \in 1 .. n
      BY <1>1, <2>1, MaxIsThere
    <3>2. s \ {Max(s)} \in SUBSET (1 .. n) /\ f[s \ {Max(s)}] \in T
      BY <1>5 DEF IsLeftFold
    <3> QED
      BY <1>3, <1>5, <2>1, <3>1, <3>2 DEF IsLeftFold
  <2>2. f = [s \in SUBSET (1 .. n) |-> f[s]]
    BY <1>5 DEF IsLeftFold
  <2> QED
    BY <1>5, <2>1, <2>2 DEF IsLeftFold
<1>7. Rec(iter)
  BY <1>6
<1> HIDE DEF iter
<1>8. ASSUME NEW s \in SUBSET (1 .. n), s # {}, iter[s \ {Max(s)}] \in T
      PROVE  iter[s] = G[<<Max(s), iter[s \ {Max(s)}]>>]
  <2>1. Max(s) \in 1 .. n
    BY <1>1, <1>8, MaxIsThere
  <2>2. iter[s] = HopStep(state, iter[s \ {Max(s)}], links[Max(s)])
    BY <1>7, <1>8
  <2> QED
    BY <1>3, <1>8, <2>1, <2>2
<1>9. FoldsBy(iter, n, T, base, G)
  <2>1. iter[{}] = base
    BY <1>7
  <2> QED
    BY <1>1, <1>3, <1>8, <2>1 DEF FoldsBy
<1>10. PICK it : IsRun(it, iter, n, T, base, G)
  BY <1>9, FoldRuns
<1>11. it \in [0 .. n -> T] /\ it[0] = base /\ it[n] = iter[1 .. n]
  BY <1>10 DEF IsRun
<1>12. ASSUME NEW m \in 1 .. n PROVE it[m] = HopStep(state, it[m - 1], links[m])
  <2>1. it[m - 1] \in T
    BY <1>1, <1>11
  <2> QED
    BY <1>3, <1>10, <2>1 DEF IsRun
<1> QED
  BY <1>4, <1>11, <1>12 DEF n, T, base

Joins(links, k, state, x) ==
  \/ links[k].source \in state.frontier /\ links[k].target = x
  \/ links[k].target \in state.frontier /\ links[k].source = x

Nearby(links, m, state, E) ==
  {x \in E \ state.seen : \E k \in 1 .. m : Joins(links, k, state, x)}

(* Where a walk over the relations stands: what was seen includes the       *)
(* frontier and the seeds, and what is out is what was seen but the seeds.  *)
Walking(state, seeds, E) ==
  /\ state.frontier \subseteq state.seen
  /\ seeds \subseteq state.seen
  /\ state.seen \subseteq E
  /\ state.out \in Seq(E)
  /\ Distinct(state.out)
  /\ ToSet(state.out) = state.seen \ seeds

(* The first m relations found just these.                                  *)
HopSoFar(acc, links, m, state, E) ==
  /\ acc.next = Nearby(links, m, state, E)
  /\ acc.out \in Seq(E)
  /\ Distinct(acc.out)
  /\ ToSet(acc.out) = ToSet(state.out) \cup acc.next

LEMMA HopGoesOn ==
  ASSUME NEW links, NEW n, NEW E, Edges(links, n, E),
         NEW state, NEW seeds, Walking(state, seeds, E),
         NEW m \in Nat, m + 1 <= n,
         NEW acc, HopSoFar(acc, links, m, state, E)
  PROVE  HopSoFar(HopStep(state, acc, links[m + 1]), links, m + 1, state, E)
<1> DEFINE s == links[m + 1].source
           t == links[m + 1].target
           new == IF s \in state.frontier /\ t \notin state.seen THEN {t}
                  ELSE IF t \in state.frontier /\ s \notin state.seen THEN {s} ELSE {}
           acc2 == HopStep(state, acc, links[m + 1])
<1>1. m + 1 \in 1 .. n /\ n \in Nat /\ s \in E /\ t \in E
  BY DEF Edges
<1>2. \A k : k \in 1 .. m + 1 <=> k \in 1 .. m \/ k = m + 1
  OBVIOUS
<1>3. Nearby(links, m + 1, state, E) = Nearby(links, m, state, E) \cup new
  <2>1. \A x \in E \ state.seen : Joins(links, m + 1, state, x) <=> x \in new
    BY DEF Joins, Walking
  <2>2. new \subseteq E \ state.seen
    BY <1>1
  <2> HIDE DEF new
  <2> QED
    BY <1>2, <2>1, <2>2 DEF Nearby
<1>4. CASE new = {}
  <2>1. acc2 = acc
    BY <1>4 DEF HopStep, HopKey
  <2> QED
    BY <1>3, <1>4, <2>1 DEF HopSoFar
<1>5. CASE new # {}
  <2>1. PICK x \in E : /\ new = {x} /\ HopKey(state, links[m + 1]) = <<x>>
    BY <1>1, <1>5 DEF HopKey
  <2>2. /\ acc2.next = acc.next \cup {x}
        /\ acc2.out = IF x \in ToSet(acc.out) THEN acc.out ELSE Append(acc.out, x)
    BY <2>1 DEF HopStep
  <2> HIDE DEF acc2
  <2>3. /\ acc2.out \in Seq(E)
        /\ Distinct(acc2.out)
        /\ ToSet(acc2.out) = ToSet(acc.out) \cup {x}
    <3>1. CASE x \in ToSet(acc.out)
      BY <2>2, <3>1 DEF HopSoFar
    <3>2. CASE x \notin ToSet(acc.out)
      BY <2>2, <3>2, DistinctGrows DEF HopSoFar
    <3> QED
      BY <3>1, <3>2
  <2>4. acc2.next = Nearby(links, m + 1, state, E)
    BY <1>3, <2>1, <2>2 DEF HopSoFar
  <2>5. ToSet(acc2.out) = ToSet(state.out) \cup acc2.next
    BY <2>2, <2>3 DEF HopSoFar
  <2> QED
    BY <2>3, <2>4, <2>5 DEF acc2, HopSoFar
<1> QED
  BY <1>4, <1>5

(* After all of them: the neighbours of the frontier not seen before.       *)
LEMMA HopFinds ==
  ASSUME NEW links, NEW n, NEW E, Edges(links, n, E),
         NEW state, NEW seeds, Walking(state, seeds, E)
  PROVE  LET hop == Hop(state, links) IN
         /\ hop.next = (UNION {Adjacent(links, x) : x \in state.frontier}) \ state.seen
         /\ hop.next \subseteq E
         /\ hop.out \in Seq(E)
         /\ Distinct(hop.out)
         /\ ToSet(hop.out) = ToSet(state.out) \cup hop.next
<1> DEFINE hop == Hop(state, links)
<1>1. PICK it \in [0 .. n -> Passing(E)] :
        /\ it[0] = [next |-> {}, out |-> state.out]
        /\ \A m \in 1 .. n : it[m] = HopStep(state, it[m - 1], links[m])
        /\ Hop(state, links) = it[n]
  BY HopRun DEF Walking
<1> DEFINE K == {m \in Nat : m <= n => HopSoFar(it[m], links, m, state, E)}
<1>2. n \in Nat /\ DOMAIN links = 1 .. n
  BY DEF Edges
<1>3. 0 \in K
  <2>1. Nearby(links, 0, state, E) = {}
    BY DEF Nearby
  <2>2. it[0].next = {} /\ it[0].out = state.out
    BY <1>1
  <2> QED
    BY <2>1, <2>2 DEF HopSoFar, Walking
<1>4. ASSUME NEW m \in Nat, m \in K PROVE m + 1 \in K
  <2>1. SUFFICES ASSUME m + 1 <= n PROVE HopSoFar(it[m + 1], links, m + 1, state, E)
    OBVIOUS
  <2>2. m <= n /\ m + 1 \in 1 .. n /\ (m + 1) - 1 = m
    BY <1>2, <2>1
  <2>3. it[m + 1] = HopStep(state, it[m], links[m + 1]) /\ HopSoFar(it[m], links, m, state, E)
    BY <1>1, <1>4, <2>2
  <2> QED
    BY <2>1, <2>3, HopGoesOn
<1>5. HopSoFar(hop, links, n, state, E)
  <2> HIDE DEF K
  <2>1. Nat \subseteq K
    BY <1>3, <1>4, SetInduction
  <2>2. n \in K
    BY <1>2, <2>1
  <2> QED
    BY <1>1, <1>2, <2>2 DEF K
<1>6. \A x \in state.frontier : x \in state.seen
  BY DEF Walking
<1>7. ASSUME NEW y \in hop.next
      PROVE  y \in (UNION {Adjacent(links, x) : x \in state.frontier}) \ state.seen
  <2>1. y \in E \ state.seen
    BY <1>5, <1>7 DEF HopSoFar, Nearby
  <2>2. PICK k \in 1 .. n : Joins(links, k, state, y)
    BY <1>5, <1>7 DEF HopSoFar, Nearby
  <2>3. PICK x \in state.frontier : \/ links[k].source = x /\ links[k].target = y
                                    \/ links[k].target = x /\ links[k].source = y
    BY <2>2 DEF Joins
  <2>4. y \in Adjacent(links, x)
    BY <1>2, <2>3 DEF Adjacent
  <2>5. Adjacent(links, x) \in {Adjacent(links, z) : z \in state.frontier}
    BY <2>3
  <2> QED
    BY <2>1, <2>4, <2>5
<1>8. ASSUME NEW x \in state.frontier, NEW y \in Adjacent(links, x), y \notin state.seen
      PROVE  y \in hop.next
  <2>1. PICK k \in 1 .. n : \/ links[k].source = x /\ links[k].target = y
                            \/ links[k].target = x /\ links[k].source = y
    BY <1>2, <1>8 DEF Adjacent
  <2>2. y \in E /\ Joins(links, k, state, y)
    BY <2>1 DEF Edges, Joins
  <2> QED
    BY <1>5, <1>8, <2>2 DEF HopSoFar, Nearby
<1>9. hop.next \subseteq E
  BY <1>5 DEF HopSoFar, Nearby
<1> HIDE DEF hop
<1>10. hop.next = (UNION {Adjacent(links, x) : x \in state.frontier}) \ state.seen
  <2>1. ASSUME NEW y \in UNION {Adjacent(links, x) : x \in state.frontier}, y \notin state.seen
        PROVE  y \in hop.next
    <3>1. PICK x \in state.frontier : y \in Adjacent(links, x)
      BY <2>1
    <3> QED
      BY <1>8, <2>1, <3>1
  <2> QED
    BY <1>7, <2>1
<1> QED
  BY <1>5, <1>9, <1>10 DEF HopSoFar, hop

-----------------------------------------------------------------------------
(* The walk, a hop at a time, and the reference beside it.                  *)

WalkStep(state, links) ==
  LET hop == Hop(state, links) IN
  [frontier |-> hop.next, seen |-> state.seen \cup hop.next, out |-> hop.out]

Walks(E) == [frontier : SUBSET E, seen : SUBSET E, out : Seq(E)]

IsWalk(it, links, seeds, hops, limit, E) ==
  /\ it \in [0 .. hops -> Walks(E)]
  /\ it[0] = [frontier |-> seeds, seen |-> seeds, out |-> <<>>]
  /\ \A m \in 1 .. hops : it[m] = WalkStep(it[m - 1], links)
  /\ neighbors(links, seeds, hops, limit) = SubSeq(it[hops].out, 1, Min({limit, Len(it[hops].out)}))

LEMMA WalkRun ==
  ASSUME NEW links, NEW nr, NEW E, Edges(links, nr, E),
         NEW seeds \in SUBSET E, NEW hops \in Nat, NEW limit
  PROVE  \E it : IsWalk(it, links, seeds, hops, limit, E)
<1> DEFINE n == hops
           T == Walks(E)
           base == [frontier |-> seeds, seen |-> seeds, out |-> <<>>]
           G == [p \in (1 .. n) \X T |-> WalkStep(p[2], links)]
           Rec(f) == f = [s \in SUBSET (1 .. n) |->
                            IF s = {} THEN base ELSE WalkStep(f[s \ {Max(s)}], links)]
           iter == CHOOSE f : Rec(f)
<1>1. n \in Nat /\ base \in T
  BY DEF Walks
<1>2. \A t \in T, m \in 1 .. n : WalkStep(t, links) \in T
  <2>1. ASSUME NEW t \in T PROVE WalkStep(t, links) \in T
    <3>1. t.out \in Seq(E) /\ t.seen \in SUBSET E
      BY DEF Walks
    <3>2. Hop(t, links) \in Passing(E)
      <4>1. PICK it \in [0 .. nr -> Passing(E)] :
              /\ it[0] = [next |-> {}, out |-> t.out]
              /\ \A k \in 1 .. nr : it[k] = HopStep(t, it[k - 1], links[k])
              /\ Hop(t, links) = it[nr]
        BY <3>1, HopRun
      <4>2. nr \in 0 .. nr
        BY DEF Edges
      <4> QED
        BY <4>1, <4>2
    <3> QED
      BY <3>1, <3>2 DEF WalkStep, Walks, Passing
  <2> QED
    BY <2>1
<1>3. G \in [(1 .. n) \X T -> T] /\ \A m \in 1 .. n, t \in T : G[<<m, t>>] = WalkStep(t, links)
  BY <1>2
<1>4. neighbors(links, seeds, hops, limit) = SubSeq(iter[1 .. n].out, 1, Min({limit, Len(iter[1 .. n].out)}))
  BY DEF neighbors, WalkStep, FoldLeft, MapThenFoldSet
<1> HIDE DEF T, G, n, base
<1>5. PICK f : IsLeftFold(f, n, T, base, G)
  BY <1>1, <1>3, FoldLeftIsDefined
<1>6. Rec(f)
  <2>1. ASSUME NEW s \in SUBSET (1 .. n), s # {}
        PROVE  f[s] = WalkStep(f[s \ {Max(s)}], links)
    <3>1. Max(s) \in 1 .. n
      BY <1>1, <2>1, MaxIsThere
    <3>2. s \ {Max(s)} \in SUBSET (1 .. n) /\ f[s \ {Max(s)}] \in T
      BY <1>5 DEF IsLeftFold
    <3> QED
      BY <1>3, <1>5, <2>1, <3>1, <3>2 DEF IsLeftFold
  <2>2. f = [s \in SUBSET (1 .. n) |-> f[s]]
    BY <1>5 DEF IsLeftFold
  <2> QED
    BY <1>5, <2>1, <2>2 DEF IsLeftFold
<1>7. Rec(iter)
  BY <1>6
<1> HIDE DEF iter
<1>8. ASSUME NEW s \in SUBSET (1 .. n), s # {}, iter[s \ {Max(s)}] \in T
      PROVE  iter[s] = G[<<Max(s), iter[s \ {Max(s)}]>>]
  <2>1. Max(s) \in 1 .. n
    BY <1>1, <1>8, MaxIsThere
  <2>2. iter[s] = WalkStep(iter[s \ {Max(s)}], links)
    BY <1>7, <1>8
  <2> QED
    BY <1>3, <1>8, <2>1, <2>2
<1>9. FoldsBy(iter, n, T, base, G)
  <2>1. iter[{}] = base
    BY <1>7
  <2> QED
    BY <1>1, <1>3, <1>8, <2>1 DEF FoldsBy
<1>10. PICK it : IsRun(it, iter, n, T, base, G)
  BY <1>9, FoldRuns
<1>11. it \in [0 .. n -> T] /\ it[0] = base /\ it[n] = iter[1 .. n]
  BY <1>10 DEF IsRun
<1>12. ASSUME NEW m \in 1 .. n PROVE it[m] = WalkStep(it[m - 1], links)
  <2>1. it[m - 1] \in T
    BY <1>1, <1>11
  <2> QED
    BY <1>3, <1>10, <2>1 DEF IsRun
<1> QED
  BY <1>4, <1>11, <1>12 DEF IsWalk, n, T, base

Around(links, S) == UNION {Adjacent(links, x) : x \in S}

LEMMA AdjacentAreEntities ==
  ASSUME NEW links, NEW n, NEW E, Edges(links, n, E), NEW S
  PROVE  Around(links, S) \subseteq E
BY DEF Around, Adjacent, Edges

IsReach(it, links, seeds, hops, E) ==
  /\ it \in [0 .. hops -> SUBSET E]
  /\ it[0] = seeds
  /\ \A m \in 1 .. hops : it[m] = it[m - 1] \cup Around(links, it[m - 1])
  /\ Within(links, seeds, hops) = it[hops]

LEMMA WithinRun ==
  ASSUME NEW links, NEW nr, NEW E, Edges(links, nr, E),
         NEW seeds \in SUBSET E, NEW hops \in Nat
  PROVE  \E it : IsReach(it, links, seeds, hops, E)
<1> DEFINE n == hops
           T == SUBSET E
           base == seeds
           G == [p \in (1 .. n) \X T |-> p[2] \cup Around(links, p[2])]
           Rec(f) == f = [s \in SUBSET (1 .. n) |->
                            IF s = {} THEN base ELSE f[s \ {Max(s)}] \cup Around(links, f[s \ {Max(s)}])]
           iter == CHOOSE f : Rec(f)
<1>1. n \in Nat /\ base \in T
  OBVIOUS
<1>2. \A t \in T, m \in 1 .. n : t \cup Around(links, t) \in T
  BY AdjacentAreEntities
<1>3. G \in [(1 .. n) \X T -> T] /\ \A m \in 1 .. n, t \in T : G[<<m, t>>] = t \cup Around(links, t)
  BY <1>2
<1>4. Within(links, seeds, hops) = iter[1 .. n]
  BY DEF Within, Around, FoldLeft, MapThenFoldSet
<1> HIDE DEF T, G, n, base
<1>5. PICK f : IsLeftFold(f, n, T, base, G)
  BY <1>1, <1>3, FoldLeftIsDefined
<1>6. Rec(f)
  <2>1. ASSUME NEW s \in SUBSET (1 .. n), s # {}
        PROVE  f[s] = f[s \ {Max(s)}] \cup Around(links, f[s \ {Max(s)}])
    <3>1. Max(s) \in 1 .. n
      BY <1>1, <2>1, MaxIsThere
    <3>2. s \ {Max(s)} \in SUBSET (1 .. n) /\ f[s \ {Max(s)}] \in T
      BY <1>5 DEF IsLeftFold
    <3> QED
      BY <1>3, <1>5, <2>1, <3>1, <3>2 DEF IsLeftFold
  <2>2. f = [s \in SUBSET (1 .. n) |-> f[s]]
    BY <1>5 DEF IsLeftFold
  <2> QED
    BY <1>5, <2>1, <2>2 DEF IsLeftFold
<1>7. Rec(iter)
  BY <1>6
<1> HIDE DEF iter
<1>8. ASSUME NEW s \in SUBSET (1 .. n), s # {}, iter[s \ {Max(s)}] \in T
      PROVE  iter[s] = G[<<Max(s), iter[s \ {Max(s)}]>>]
  <2>1. Max(s) \in 1 .. n
    BY <1>1, <1>8, MaxIsThere
  <2>2. iter[s] = iter[s \ {Max(s)}] \cup Around(links, iter[s \ {Max(s)}])
    BY <1>7, <1>8
  <2> QED
    BY <1>3, <1>8, <2>1, <2>2
<1>9. FoldsBy(iter, n, T, base, G)
  <2>1. iter[{}] = base
    BY <1>7
  <2> QED
    BY <1>1, <1>3, <1>8, <2>1 DEF FoldsBy
<1>10. PICK it : IsRun(it, iter, n, T, base, G)
  BY <1>9, FoldRuns
<1>11. it \in [0 .. n -> T] /\ it[0] = base /\ it[n] = iter[1 .. n]
  BY <1>10 DEF IsRun
<1>12. ASSUME NEW m \in 1 .. n PROVE it[m] = it[m - 1] \cup Around(links, it[m - 1])
  <2>1. it[m - 1] \in T
    BY <1>1, <1>11
  <2> QED
    BY <1>3, <1>10, <2>1 DEF IsRun
<1> QED
  BY <1>4, <1>11, <1>12 DEF IsReach, n, T, base

(* Nothing next to what was seen before the frontier is unseen.             *)
Closed(state, links) ==
  \A x \in state.seen \ state.frontier : Adjacent(links, x) \subseteq state.seen

LEMMA WalkGoesOn ==
  ASSUME NEW links, NEW n, NEW E, Edges(links, n, E), NEW state, NEW seeds,
         Walking(state, seeds, E), Closed(state, links),
         NEW next, next = WalkStep(state, links)
  PROVE  /\ Walking(next, seeds, E)
         /\ Closed(next, links)
         /\ next.seen = state.seen \cup Around(links, state.seen)
<1> DEFINE hop == Hop(state, links)
           new == hop.next
<1>1. /\ new = Around(links, state.frontier) \ state.seen
      /\ new \subseteq E
      /\ hop.out \in Seq(E)
      /\ Distinct(hop.out)
      /\ ToSet(hop.out) = ToSet(state.out) \cup new
  BY HopFinds DEF Around
<1>2. next.frontier = new /\ next.seen = state.seen \cup new /\ next.out = hop.out
  BY DEF WalkStep
<1> HIDE DEF hop, new
<1>3. \A x \in state.frontier : Adjacent(links, x) \subseteq state.seen \cup new
  <2>1. ASSUME NEW x \in state.frontier, NEW y \in Adjacent(links, x) PROVE y \in state.seen \cup new
    <3>1. y \in Around(links, state.frontier)
      BY <2>1 DEF Around
    <3> QED
      BY <1>1, <3>1
  <2> QED
    BY <2>1
<1>4. \A x \in state.seen : Adjacent(links, x) \subseteq state.seen \cup new
  BY <1>3 DEF Closed
<1>5. Around(links, state.seen) \subseteq state.seen \cup new
  <2>1. ASSUME NEW y \in Around(links, state.seen) PROVE y \in state.seen \cup new
    <3>1. PICK x \in state.seen : y \in Adjacent(links, x)
      BY <2>1 DEF Around
    <3> QED
      BY <1>4, <3>1
  <2> QED
    BY <2>1
<1>6. new \subseteq Around(links, state.seen)
  <2>1. ASSUME NEW y \in new PROVE y \in Around(links, state.seen)
    <3>1. PICK x \in state.frontier : y \in Adjacent(links, x)
      BY <1>1, <2>1 DEF Around
    <3>2. x \in state.seen
      BY <3>1 DEF Walking
    <3> QED
      BY <3>1, <3>2 DEF Around
  <2> QED
    BY <2>1
<1>7. next.seen = state.seen \cup Around(links, state.seen)
  BY <1>2, <1>5, <1>6
<1>8. Closed(next, links)
  BY <1>2, <1>4 DEF Closed
<1>9. Walking(next, seeds, E)
  <2>1. new \cap seeds = {}
    BY <1>1 DEF Walking
  <2>2. ToSet(next.out) = next.seen \ seeds
    BY <1>1, <1>2, <2>1 DEF Walking
  <2> QED
    BY <1>1, <1>2, <2>2 DEF Walking
<1> QED
  BY <1>7, <1>8, <1>9

(* What neighbors returns, whatever relations the graph holds: some of what *)
(* the reference reaches, each once, and all of it unless the limit cuts it *)
(* short.                                                                   *)
LEMMA NeighborsAre ==
  ASSUME NEW links, NEW n \in Nat, DOMAIN links = 1 .. n,
         NEW seeds, NEW hops \in Nat, NEW limit \in Nat
  PROVE  LET out == neighbors(links, seeds, hops, limit)
             reached == Within(links, seeds, hops) \ seeds
         IN /\ IsInjective(out)
            /\ ToSet(out) \subseteq reached
            /\ Len(out) = Min({limit, Cardinality(reached)})
<1> DEFINE start == [frontier |-> seeds, seen |-> seeds, out |-> <<>>]
<1>1. PICK E : Edges(links, n, E) /\ seeds \in SUBSET E
  <2> DEFINE E == seeds \cup {links[k].source : k \in 1 .. n}
                        \cup {links[k].target : k \in 1 .. n}
  <2>1. Edges(links, n, E) /\ seeds \in SUBSET E
    BY DEF Edges
  <2> HIDE DEF E
  <2> QED
    BY <2>1
<1> HIDE DEF start
<1>2. PICK walk : IsWalk(walk, links, seeds, hops, limit, E)
  BY <1>1, WalkRun
<1>3. PICK in : IsReach(in, links, seeds, hops, E)
  BY <1>1, WithinRun
<1>4. /\ walk[0] = start
      /\ \A m \in 1 .. hops : walk[m] = WalkStep(walk[m - 1], links)
      /\ neighbors(links, seeds, hops, limit)
           = SubSeq(walk[hops].out, 1, Min({limit, Len(walk[hops].out)}))
  BY <1>2 DEF IsWalk, start
<1>5. /\ in[0] = seeds
      /\ \A m \in 1 .. hops : in[m] = in[m - 1] \cup Around(links, in[m - 1])
      /\ Within(links, seeds, hops) = in[hops]
  BY <1>3 DEF IsReach
<1> DEFINE Right(m) == /\ Walking(walk[m], seeds, E)
                       /\ Closed(walk[m], links)
                       /\ walk[m].seen = in[m]
           K == {m \in Nat : m <= hops => Right(m)}
<1>6. 0 \in K
  <2>1. start.frontier = seeds /\ start.seen = seeds /\ start.out = <<>>
    BY DEF start
  <2>2. ToSet(<<>>) = {} /\ <<>> \in Seq(E) /\ Distinct(<<>>)
    BY DEF ToSet, Distinct
  <2>3. Walking(start, seeds, E) /\ Closed(start, links)
    BY <1>1, <2>1, <2>2 DEF Walking, Closed
  <2> QED
    BY <1>4, <1>5, <2>1, <2>3
<1>7. ASSUME NEW m \in Nat, m \in K PROVE m + 1 \in K
  <2>1. SUFFICES ASSUME m + 1 <= hops PROVE Right(m + 1)
    OBVIOUS
  <2>2. m <= hops /\ m + 1 \in 1 .. hops /\ (m + 1) - 1 = m
    BY <2>1
  <2>3. Right(m)
    BY <1>7, <2>2
  <2>4. walk[m + 1] = WalkStep(walk[m], links)
    BY <1>4, <2>2
  <2>5. in[m + 1] = in[m] \cup Around(links, in[m])
    BY <1>5, <2>2
  <2>6. /\ Walking(walk[m + 1], seeds, E)
        /\ Closed(walk[m + 1], links)
        /\ walk[m + 1].seen = walk[m].seen \cup Around(links, walk[m].seen)
    <3> HIDE DEF Right, K
    <3>1. Edges(links, n, E) /\ Walking(walk[m], seeds, E) /\ Closed(walk[m], links)
      BY <1>1, <2>3 DEF Right
    <3>2. PICK state : state = walk[m]
      OBVIOUS
    <3>3. PICK next : next = walk[m + 1]
      OBVIOUS
    <3>4. Edges(links, n, E)
      BY <3>1
    <3>5. Walking(state, seeds, E) /\ Closed(state, links)
      BY <3>1, <3>2
    <3>6. next = WalkStep(state, links)
      BY <2>4, <3>2, <3>3
    <3>7. /\ Walking(next, seeds, E)
          /\ Closed(next, links)
          /\ next.seen = state.seen \cup Around(links, state.seen)
      BY <3>4, <3>5, <3>6, WalkGoesOn
    <3> QED
      BY <3>2, <3>3, <3>7
  <2> QED
    BY <2>3, <2>5, <2>6
<1>8. Right(hops)
  <2> HIDE DEF K
  <2>1. Nat \subseteq K
    BY <1>6, <1>7, SetInduction
  <2>2. hops \in K
    BY <2>1
  <2> QED
    BY <2>2 DEF K
<1> DEFINE all == walk[hops].out
           reached == Within(links, seeds, hops) \ seeds
           l == Len(all)
           k == Min({limit, l})
           out == SubSeq(all, 1, k)
<1>9. all \in Seq(E) /\ Distinct(all) /\ ToSet(all) = reached
  BY <1>5, <1>8 DEF Walking
<1>10. l \in Nat /\ DOMAIN all = 1 .. l
  BY <1>9
<1> HIDE DEF all, reached
<1>11. Cardinality(reached) = l
  <2>1. Lists(all, l, reached)
    <3>1. all \in [1 .. l -> reached]
      <4>1. all = [i \in 1 .. l |-> all[i]]
        BY <1>9, <1>10
      <4>2. \A i \in 1 .. l : all[i] \in reached
        BY <1>9, <1>10 DEF ToSet
      <4> QED
        BY <4>1, <4>2
    <3>2. \A y \in reached : \E i \in 1 .. l : all[i] = y
      BY <1>9, <1>10 DEF ToSet
    <3> QED
      BY <1>9, <1>10, <3>1, <3>2 DEF Lists, Distinct
  <2> QED
    BY <1>10, <2>1, Counted
<1>12. k \in 0 .. l
  <2>1. k = IF limit <= l THEN limit ELSE l
    BY <1>10, SmallerOfTwo
  <2> QED
    BY <1>10, <2>1
<1> HIDE DEF k
<1>13. /\ Len(out) = k
       /\ DOMAIN out = 1 .. k
       /\ \A i \in 1 .. k : out[i] = all[i] /\ i \in DOMAIN all
  BY <1>9, <1>10, <1>12
<1> HIDE DEF out
<1>14. IsInjective(out)
  BY <1>9, <1>13 DEF IsInjective, Distinct
<1>15. ToSet(out) \subseteq ToSet(all)
  BY <1>13 DEF ToSet
<1>16. neighbors(links, seeds, hops, limit) = out
  BY <1>4 DEF out, k, l, all
<1> QED
  BY <1>9, <1>11, <1>13, <1>14, <1>15, <1>16 DEF k, l, reached

-----------------------------------------------------------------------------
(* The relations of a graph are a sequence: what the texts are cut into,    *)
(* the names of a sentence and their pairs are.                             *)

Places(s) == [i \in DOMAIN s |-> i]

CutStep(text, ends, acc, i) ==
  IF i \in ends \cup {Len(text)}
  THEN [pieces |-> Append(acc.pieces, SubSeq(text, acc.from, i)), from |-> i + 1]
  ELSE acc

LEMMA CutRun ==
  ASSUME NEW text \in Text, NEW ends
  PROVE  \E it \in [0 .. Len(text) -> [pieces : Seq(Text), from : Nat \ {0}]] :
           /\ it[0] = [pieces |-> <<>>, from |-> 1]
           /\ \A m \in 1 .. Len(text) : it[m] = CutStep(text, ends, it[m - 1], Places(text)[m])
           /\ CutAfter(text, ends) = it[Len(text)].pieces
<1> DEFINE n == Len(text)
           T == [pieces : Seq(Text), from : Nat \ {0}]
           base == [pieces |-> <<>>, from |-> 1]
           G == [p \in (1 .. n) \X T |-> CutStep(text, ends, p[2], Places(text)[p[1]])]
           Rec(f) == f = [s \in SUBSET (1 .. n) |->
                            IF s = {} THEN base
                            ELSE CutStep(text, ends, f[s \ {Max(s)}], Places(text)[Max(s)])]
           iter == CHOOSE f : Rec(f)
<1>1. n \in Nat /\ base \in T /\ DOMAIN Places(text) = 1 .. n
  BY DEF Text, Places
<1>2. \A t \in T, m \in 1 .. n : CutStep(text, ends, t, Places(text)[m]) \in T
  <2>1. ASSUME NEW t \in T, NEW m \in 1 .. n PROVE CutStep(text, ends, t, Places(text)[m]) \in T
    <3>1. t.pieces \in Seq(Text) /\ t.from \in Nat \ {0} /\ Places(text)[m] = m
      BY DEF Places, Text
    <3>2. SubSeq(text, t.from, m) \in Text
      BY <3>1 DEF Text
    <3> QED
      BY <3>1, <3>2 DEF CutStep
  <2> QED
    BY <2>1
<1>3. /\ G \in [(1 .. n) \X T -> T]
      /\ \A m \in 1 .. n, t \in T : G[<<m, t>>] = CutStep(text, ends, t, Places(text)[m])
  BY <1>2
<1>4. CutAfter(text, ends) = iter[1 .. n].pieces
  BY <1>1 DEF CutAfter, CutStep, Places, FoldLeft, MapThenFoldSet
<1> HIDE DEF T, G, n, base
<1>5. PICK f : IsLeftFold(f, n, T, base, G)
  BY <1>1, <1>3, FoldLeftIsDefined
<1>6. Rec(f)
  <2>1. ASSUME NEW s \in SUBSET (1 .. n), s # {}
        PROVE  f[s] = CutStep(text, ends, f[s \ {Max(s)}], Places(text)[Max(s)])
    <3>1. Max(s) \in 1 .. n
      BY <1>1, <2>1, MaxIsThere
    <3>2. s \ {Max(s)} \in SUBSET (1 .. n) /\ f[s \ {Max(s)}] \in T
      BY <1>5 DEF IsLeftFold
    <3> QED
      BY <1>3, <1>5, <2>1, <3>1, <3>2 DEF IsLeftFold
  <2>2. f = [s \in SUBSET (1 .. n) |-> f[s]]
    BY <1>5 DEF IsLeftFold
  <2> QED
    BY <1>5, <2>1, <2>2 DEF IsLeftFold
<1>7. Rec(iter)
  BY <1>6
<1> HIDE DEF iter
<1>8. ASSUME NEW s \in SUBSET (1 .. n), s # {}, iter[s \ {Max(s)}] \in T
      PROVE  iter[s] = G[<<Max(s), iter[s \ {Max(s)}]>>]
  <2>1. Max(s) \in 1 .. n
    BY <1>1, <1>8, MaxIsThere
  <2>2. iter[s] = CutStep(text, ends, iter[s \ {Max(s)}], Places(text)[Max(s)])
    BY <1>7, <1>8
  <2> QED
    BY <1>3, <1>8, <2>1, <2>2
<1>9. FoldsBy(iter, n, T, base, G)
  <2>1. iter[{}] = base
    BY <1>7
  <2> QED
    BY <1>1, <1>3, <1>8, <2>1 DEF FoldsBy
<1>10. PICK it : IsRun(it, iter, n, T, base, G)
  BY <1>9, FoldRuns
<1>11. it \in [0 .. n -> T] /\ it[0] = base /\ it[n] = iter[1 .. n]
  BY <1>10 DEF IsRun
<1>12. ASSUME NEW m \in 1 .. n PROVE it[m] = CutStep(text, ends, it[m - 1], Places(text)[m])
  <2>1. it[m - 1] \in T
    BY <1>1, <1>11
  <2> QED
    BY <1>3, <1>10, <2>1 DEF IsRun
<1> QED
  BY <1>4, <1>11, <1>12 DEF n, T, base

LEMMA CutsAreTexts ==
  ASSUME NEW text \in Text, NEW ends PROVE CutAfter(text, ends) \in Seq(Text)
<1>1. PICK it \in [0 .. Len(text) -> [pieces : Seq(Text), from : Nat \ {0}]] :
        /\ it[0] = [pieces |-> <<>>, from |-> 1]
        /\ \A m \in 1 .. Len(text) : it[m] = CutStep(text, ends, it[m - 1], Places(text)[m])
        /\ CutAfter(text, ends) = it[Len(text)].pieces
  BY CutRun
<1>2. Len(text) \in 0 .. Len(text)
  BY DEF Text
<1> QED
  BY <1>1, <1>2

NameStep(acc, c) ==
  IF c \in Capital THEN [acc EXCEPT !.current = Append(@, c)]
  ELSE IF Blank(c) THEN acc
  ELSE [found |-> Named(acc), current |-> <<>>]

LEMMA NamesRun ==
  ASSUME NEW text \in Text
  PROVE  \E it \in [0 .. Len(text) -> [found : Seq(Text), current : Text]] :
           /\ it[0] = [found |-> <<>>, current |-> <<>>]
           /\ \A m \in 1 .. Len(text) : it[m] = NameStep(it[m - 1], text[m])
           /\ names(text) = Named(it[Len(text)])
<1> DEFINE n == Len(text)
           T == [found : Seq(Text), current : Text]
           base == [found |-> <<>>, current |-> <<>>]
           G == [p \in (1 .. n) \X T |-> NameStep(p[2], text[p[1]])]
           Rec(f) == f = [s \in SUBSET (1 .. n) |->
                            IF s = {} THEN base ELSE NameStep(f[s \ {Max(s)}], text[Max(s)])]
           iter == CHOOSE f : Rec(f)
<1>1. n \in Nat /\ base \in T /\ DOMAIN text = 1 .. n
  BY DEF Text
<1>2. \A t \in T, m \in 1 .. n : NameStep(t, text[m]) \in T
  <2>1. ASSUME NEW t \in T, NEW m \in 1 .. n PROVE NameStep(t, text[m]) \in T
    <3>1. t.found \in Seq(Text) /\ t.current \in Text /\ text[m] \in Int
      BY DEF Text
    <3>2. Append(t.current, text[m]) \in Text
      BY <3>1 DEF Text
    <3>3. Named(t) \in Seq(Text) /\ <<>> \in Text
      BY <3>1 DEF Named, Text
    <3> QED
      BY <3>1, <3>2, <3>3 DEF NameStep
  <2> QED
    BY <2>1
<1>3. G \in [(1 .. n) \X T -> T] /\ \A m \in 1 .. n, t \in T : G[<<m, t>>] = NameStep(t, text[m])
  BY <1>2
<1>4. names(text) = Named(iter[1 .. n])
  BY <1>1 DEF names, NameStep, Text, FoldLeft, MapThenFoldSet
<1> HIDE DEF T, G, n, base
<1>5. PICK f : IsLeftFold(f, n, T, base, G)
  BY <1>1, <1>3, FoldLeftIsDefined
<1>6. Rec(f)
  <2>1. ASSUME NEW s \in SUBSET (1 .. n), s # {}
        PROVE  f[s] = NameStep(f[s \ {Max(s)}], text[Max(s)])
    <3>1. Max(s) \in 1 .. n
      BY <1>1, <2>1, MaxIsThere
    <3>2. s \ {Max(s)} \in SUBSET (1 .. n) /\ f[s \ {Max(s)}] \in T
      BY <1>5 DEF IsLeftFold
    <3> QED
      BY <1>3, <1>5, <2>1, <3>1, <3>2 DEF IsLeftFold
  <2>2. f = [s \in SUBSET (1 .. n) |-> f[s]]
    BY <1>5 DEF IsLeftFold
  <2> QED
    BY <1>5, <2>1, <2>2 DEF IsLeftFold
<1>7. Rec(iter)
  BY <1>6
<1> HIDE DEF iter
<1>8. ASSUME NEW s \in SUBSET (1 .. n), s # {}, iter[s \ {Max(s)}] \in T
      PROVE  iter[s] = G[<<Max(s), iter[s \ {Max(s)}]>>]
  <2>1. Max(s) \in 1 .. n
    BY <1>1, <1>8, MaxIsThere
  <2>2. iter[s] = NameStep(iter[s \ {Max(s)}], text[Max(s)])
    BY <1>7, <1>8
  <2> QED
    BY <1>3, <1>8, <2>1, <2>2
<1>9. FoldsBy(iter, n, T, base, G)
  <2>1. iter[{}] = base
    BY <1>7
  <2> QED
    BY <1>1, <1>3, <1>8, <2>1 DEF FoldsBy
<1>10. PICK it : IsRun(it, iter, n, T, base, G)
  BY <1>9, FoldRuns
<1>11. it \in [0 .. n -> T] /\ it[0] = base /\ it[n] = iter[1 .. n]
  BY <1>10 DEF IsRun
<1>12. ASSUME NEW m \in 1 .. n PROVE it[m] = NameStep(it[m - 1], text[m])
  <2>1. it[m - 1] \in T
    BY <1>1, <1>11
  <2> QED
    BY <1>3, <1>10, <2>1 DEF IsRun
<1> QED
  BY <1>4, <1>11, <1>12 DEF n, T, base

LEMMA NamesAreTexts ==
  ASSUME NEW text \in Text PROVE names(text) \in Seq(Text)
<1>1. PICK it \in [0 .. Len(text) -> [found : Seq(Text), current : Text]] :
        /\ it[0] = [found |-> <<>>, current |-> <<>>]
        /\ \A m \in 1 .. Len(text) : it[m] = NameStep(it[m - 1], text[m])
        /\ names(text) = Named(it[Len(text)])
  BY NamesRun
<1>2. Len(text) \in 0 .. Len(text)
  BY DEF Text
<1>3. it[Len(text)].found \in Seq(Text) /\ it[Len(text)].current \in Text
  BY <1>1, <1>2
<1> QED
  BY <1>1, <1>3 DEF Named

Joined(s, sep, x) == IF s = <<>> THEN x ELSE s \o sep \o x

LEMMA JoinRun ==
  ASSUME NEW ss \in Seq(Text), NEW sep \in Text
  PROVE  \E it \in [0 .. Len(ss) -> Text] :
           /\ it[0] = <<>>
           /\ \A m \in 1 .. Len(ss) : it[m] = Joined(it[m - 1], sep, ss[m])
           /\ join(ss, sep) = it[Len(ss)]
<1> DEFINE n == Len(ss)
           T == Text
           base == <<>>
           G == [p \in (1 .. n) \X T |-> Joined(p[2], sep, ss[p[1]])]
           Rec(f) == f = [s \in SUBSET (1 .. n) |->
                            IF s = {} THEN base ELSE Joined(f[s \ {Max(s)}], sep, ss[Max(s)])]
           iter == CHOOSE f : Rec(f)
<1>1. n \in Nat /\ base \in T /\ DOMAIN ss = 1 .. n
  BY DEF Text
<1>2. \A t \in T, m \in 1 .. n : Joined(t, sep, ss[m]) \in T
  <2>1. ASSUME NEW t \in T, NEW m \in 1 .. n PROVE ss[m] \in T /\ t \o sep \o ss[m] \in T
    <3>1. ss[m] \in Seq(Int) /\ t \in Seq(Int) /\ sep \in Seq(Int)
      BY DEF Text
    <3>2. t \o sep \in Seq(Int)
      BY <3>1
    <3> QED
      BY <3>1, <3>2 DEF Text
  <2> QED
    BY <2>1 DEF Joined
<1>3. G \in [(1 .. n) \X T -> T] /\ \A m \in 1 .. n, t \in T : G[<<m, t>>] = Joined(t, sep, ss[m])
  BY <1>2
<1>4. join(ss, sep) = iter[1 .. n]
  BY <1>1 DEF join, Joined, FoldLeft, MapThenFoldSet
<1> HIDE DEF T, G, n, base
<1>5. PICK f : IsLeftFold(f, n, T, base, G)
  BY <1>1, <1>3, FoldLeftIsDefined
<1>6. Rec(f)
  <2>1. ASSUME NEW s \in SUBSET (1 .. n), s # {}
        PROVE  f[s] = Joined(f[s \ {Max(s)}], sep, ss[Max(s)])
    <3>1. Max(s) \in 1 .. n
      BY <1>1, <2>1, MaxIsThere
    <3>2. s \ {Max(s)} \in SUBSET (1 .. n) /\ f[s \ {Max(s)}] \in T
      BY <1>5 DEF IsLeftFold
    <3> QED
      BY <1>3, <1>5, <2>1, <3>1, <3>2 DEF IsLeftFold
  <2>2. f = [s \in SUBSET (1 .. n) |-> f[s]]
    BY <1>5 DEF IsLeftFold
  <2> QED
    BY <1>5, <2>1, <2>2 DEF IsLeftFold
<1>7. Rec(iter)
  BY <1>6
<1> HIDE DEF iter
<1>8. ASSUME NEW s \in SUBSET (1 .. n), s # {}, iter[s \ {Max(s)}] \in T
      PROVE  iter[s] = G[<<Max(s), iter[s \ {Max(s)}]>>]
  <2>1. Max(s) \in 1 .. n
    BY <1>1, <1>8, MaxIsThere
  <2>2. iter[s] = Joined(iter[s \ {Max(s)}], sep, ss[Max(s)])
    BY <1>7, <1>8
  <2> QED
    BY <1>3, <1>8, <2>1, <2>2
<1>9. FoldsBy(iter, n, T, base, G)
  <2>1. iter[{}] = base
    BY <1>7
  <2> QED
    BY <1>1, <1>3, <1>8, <2>1 DEF FoldsBy
<1>10. PICK it : IsRun(it, iter, n, T, base, G)
  BY <1>9, FoldRuns
<1>11. it \in [0 .. n -> T] /\ it[0] = base /\ it[n] = iter[1 .. n]
  BY <1>10 DEF IsRun
<1>12. ASSUME NEW m \in 1 .. n PROVE it[m] = Joined(it[m - 1], sep, ss[m])
  <2>1. it[m - 1] \in T
    BY <1>1, <1>11
  <2> QED
    BY <1>3, <1>10, <2>1 DEF IsRun
<1> QED
  BY <1>4, <1>11, <1>12 DEF n, T, base

LEMMA JoinsAreTexts ==
  ASSUME NEW ss \in Seq(Text), NEW sep \in Text PROVE join(ss, sep) \in Text
<1>1. PICK it \in [0 .. Len(ss) -> Text] : join(ss, sep) = it[Len(ss)]
  <2>1. PICK it \in [0 .. Len(ss) -> Text] :
          /\ it[0] = <<>>
          /\ \A m \in 1 .. Len(ss) :
               it[m] = Joined(it[m - 1], sep, ss[m])
          /\ join(ss, sep) = it[Len(ss)]
    BY JoinRun
  <2> QED
    BY <2>1
<1>2. Len(ss) \in 0 .. Len(ss)
  OBVIOUS
<1> QED
  BY <1>1, <1>2

LEMMA PairsAreListed ==
  ASSUME NEW found \in Seq(Text) PROVE Pairs(found) \in Seq(Text \X Text)
<1> DEFINE row(i) == [j \in 1 .. Len(found) - i |-> <<found[i], found[i + j]>>]
           grid == [i \in DOMAIN found |-> row(i)]
<1>1. DOMAIN found = 1 .. Len(found) /\ Len(found) \in Nat
  OBVIOUS
<1>2. ASSUME NEW i \in 1 .. Len(found) PROVE row(i) \in Seq(Text \X Text)
  <2>1. Len(found) - i \in Nat
    BY <1>1
  <2>2. \A j \in 1 .. Len(found) - i : <<found[i], found[i + j]>> \in Text \X Text
    <3>1. ASSUME NEW j \in 1 .. Len(found) - i PROVE found[i] \in Text /\ found[i + j] \in Text
      <4>1. i + j \in 1 .. Len(found)
        BY <1>1
      <4> QED
        BY <4>1
    <3> QED
      BY <3>1
  <2> QED
    BY <2>1, <2>2
<1> HIDE DEF row
<1>3. grid \in Seq(Seq(Text \X Text))
  BY <1>1, <1>2
<1>4. FlattenSeq(grid) \in Seq(Text \X Text)
  <2> HIDE DEF grid
  <2> QED
    BY <1>3, FlatIsASequence
<1> QED
  BY <1>4 DEF Pairs, row

LEMMA ExtractsAreListed ==
  ASSUME NEW s \in Text PROVE extract(s).relations \in Seq(Text \X Text)
<1> DEFINE sentences == extract_sentences(s)
           found == [i \in DOMAIN sentences |-> names(sentences[i])]
           pairs == [i \in DOMAIN found |-> Pairs(found[i])]
<1>1. sentences \in Seq(Text)
  BY CutsAreTexts DEF extract_sentences
<1>2. DOMAIN sentences = 1 .. Len(sentences) /\ Len(sentences) \in Nat
  BY <1>1
<1>3. extract(s).relations = FlattenSeq(pairs)
  BY DEF extract
<1> HIDE DEF sentences
<1>4. \A i \in 1 .. Len(sentences) : names(sentences[i]) \in Seq(Text)
  BY <1>1, NamesAreTexts
<1>5. \A i \in 1 .. Len(sentences) : found[i] \in Seq(Text)
  BY <1>2, <1>4
<1>6. DOMAIN found = 1 .. Len(sentences)
  BY <1>2
<1> HIDE DEF found
<1>7. pairs \in Seq(Seq(Text \X Text))
  BY <1>2, <1>5, <1>6, PairsAreListed
<1> HIDE DEF pairs
<1> QED
  BY <1>3, <1>7, FlatIsASequence

LEMMA NothingIsNear ==
  ASSUME NEW links, NEW n \in Nat, DOMAIN links = 1 .. n, NEW hops \in Nat
  PROVE  Within(links, {}, hops) = {}
<1>1. PICK E : Edges(links, n, E)
  <2> DEFINE E == {links[k].source : k \in 1 .. n} \cup {links[k].target : k \in 1 .. n}
  <2>1. Edges(links, n, E)
    BY DEF Edges
  <2> HIDE DEF E
  <2> QED
    BY <2>1
<1>2. {} \in SUBSET E
  OBVIOUS
<1>3. PICK in : IsReach(in, links, {}, hops, E)
  BY <1>1, <1>2, WithinRun
<1>4. /\ in[0] = {}
      /\ \A m \in 1 .. hops : in[m] = in[m - 1] \cup Around(links, in[m - 1])
      /\ Within(links, {}, hops) = in[hops]
  BY <1>3 DEF IsReach
<1> DEFINE K == {m \in Nat : m <= hops => in[m] = {}}
<1>5. 0 \in K
  BY <1>4
<1>6. ASSUME NEW m \in Nat, m \in K PROVE m + 1 \in K
  <2>1. SUFFICES ASSUME m + 1 <= hops PROVE in[m + 1] = {}
    OBVIOUS
  <2>2. m <= hops /\ m + 1 \in 1 .. hops /\ (m + 1) - 1 = m
    BY <2>1
  <2>3. in[m] = {} /\ in[m + 1] = in[m] \cup Around(links, in[m])
    BY <1>4, <1>6, <2>2
  <2>4. Around(links, {}) = {}
    BY DEF Around
  <2> QED
    BY <2>3, <2>4
<1>7. hops \in K
  <2> HIDE DEF K
  <2> QED
    BY <1>5, <1>6, SetInduction
<1> QED
  BY <1>4, <1>7

-----------------------------------------------------------------------------
(* The graph of the organisation only grows: what an exploration saw of it  *)
(* stays its beginning.                                                     *)

Exact(s, known) ==
  LET reached == Within(known, s.seeds, s.hops) \ s.seeds IN
  /\ IsInjective(s.out)
  /\ ToSet(s.out) \subseteq reached
  /\ Len(s.out) = Min({s.limit, Cardinality(reached)})

GraphInv ==
  /\ DOMAIN pages \subseteq Docs /\ \A d \in DOMAIN pages : pages[d] \in Seq(Text)
  /\ \A t \in tasks : t.doc \in DOMAIN pages
  /\ \A w \in DOMAIN run : run[w].pc # "idle" => run[w].doc \in DOMAIN pages
  /\ relations \in Seq(Relation)
  /\ shown # None => /\ shown.upto \in 0 .. Len(relations)
                     /\ Exact(shown, SubSeq(relations, 1, shown.upto))

LEMMA FoundAreRelations ==
  ASSUME GraphInv, NEW d \in DOMAIN pages PROVE Found(d) \in Seq(Relation)
<1> DEFINE read == extract(FullText(d))
           found == [k \in DOMAIN read.relations |->
                       [source |-> read.relations[k][1], target |-> read.relations[k][2], doc |-> d]]
<1>1. FullText(d) \in Text
  <2>1. pages[d] \in Seq(Text) /\ <<Newline, Newline>> \in Text
    BY DEF GraphInv, Text, Newline
  <2> QED
    BY <2>1, JoinsAreTexts DEF FullText
<1>2. read.relations \in Seq(Text \X Text)
  BY <1>1, ExtractsAreListed
<1>3. Found(d) = IF read.entities = {} THEN <<>> ELSE found
  BY DEF Found
<1> HIDE DEF read
<1>4. found \in Seq(Relation)
  <2>1. d \in Nat
    BY IndexingAssumption DEF GraphInv
  <2>2. \A k \in 1 .. Len(read.relations) :
          read.relations[k][1] \in Text /\ read.relations[k][2] \in Text
    BY <1>2
  <2>3. DOMAIN read.relations = 1 .. Len(read.relations) /\ Len(read.relations) \in Nat
    BY <1>2
  <2> QED
    BY <2>1, <2>2, <2>3 DEF Relation
<1> QED
  BY <1>3, <1>4

(* An exploration that is kept while the graph grows.                       *)
LEMMA GraphGrows ==
  ASSUME GraphInv, NEW more \in Seq(Relation), relations' = relations \o more,
         UNCHANGED <<pages, shown>>,
         \A t \in tasks' : t.doc \in DOMAIN pages,
         \A w \in DOMAIN run' : run'[w].pc # "idle" => run'[w].doc \in DOMAIN pages
  PROVE  GraphInv'
<1>1. relations \in Seq(Relation)
  BY DEF GraphInv
<1>2. /\ relations' \in Seq(Relation)
      /\ Len(relations') = Len(relations) + Len(more)
      /\ \A i \in 1 .. Len(relations) : relations'[i] = relations[i]
      /\ Len(relations) \in Nat /\ Len(more) \in Nat
  BY <1>1
<1>3. ASSUME NEW u \in 0 .. Len(relations) PROVE SubSeq(relations', 1, u) = SubSeq(relations, 1, u)
  BY <1>1, <1>2
<1>4. ASSUME shown # None
      PROVE  /\ shown'.upto \in 0 .. Len(relations')
             /\ Exact(shown', SubSeq(relations', 1, shown'.upto))
  <2>1. shown.upto \in 0 .. Len(relations) /\ Exact(shown, SubSeq(relations, 1, shown.upto))
    BY <1>4 DEF GraphInv
  <2>2. SubSeq(relations', 1, shown.upto) = SubSeq(relations, 1, shown.upto)
    BY <1>3, <2>1
  <2>3. shown' = shown
    OBVIOUS
  <2>4. shown'.upto \in 0 .. Len(relations')
    BY <1>2, <2>1, <2>3
  <2>5. SubSeq(relations', 1, shown'.upto) = SubSeq(relations, 1, shown.upto)
    BY <2>2, <2>3
  <2> QED
    BY <2>1, <2>3, <2>4, <2>5
<1>5. (shown # None => /\ shown.upto \in 0 .. Len(relations)
                       /\ Exact(shown, SubSeq(relations, 1, shown.upto)))'
  BY <1>4 DEF Exact
<1> QED
  BY <1>2, <1>5 DEF GraphInv

LEMMA GraphStays ==
  ASSUME GraphInv, UNCHANGED <<pages, relations, shown>>,
         \A t \in tasks' : t.doc \in DOMAIN pages,
         \A w \in DOMAIN run' : run'[w].pc # "idle" => run'[w].doc \in DOMAIN pages
  PROVE  GraphInv'
<1>1. relations \in Seq(Relation)
  BY DEF GraphInv
<1>2. <<>> \in Seq(Relation) /\ relations' = relations \o <<>>
  BY <1>1
<1> QED
  BY <1>2, GraphGrows

LEMMA ExplorationIsExact ==
  ASSUME GraphInv, explore PROVE GraphInv'
<1>1. PICK q \in Questions, hops \in 1 .. 3, limit \in Limits :
        LET seeds == extract(q).entities IN
        shown' = [seeds |-> seeds, hops |-> hops, limit |-> limit, upto |-> Len(relations),
                  out |-> IF seeds = {} THEN <<>> ELSE neighbors(relations, seeds, hops, limit)]
  BY DEF explore
<1> DEFINE seeds == extract(q).entities
           out == IF seeds = {} THEN <<>> ELSE neighbors(relations, seeds, hops, limit)
<1>2. /\ shown'.seeds = seeds /\ shown'.hops = hops /\ shown'.limit = limit
      /\ shown'.upto = Len(relations) /\ shown'.out = out
  BY <1>1
<1>3. /\ relations \in Seq(Relation) /\ Len(relations) \in Nat /\ DOMAIN relations = 1 .. Len(relations)
      /\ hops \in Nat /\ limit \in Nat
  BY IndexingAssumption DEF GraphInv
<1>4. SubSeq(relations, 1, Len(relations)) = relations
  BY <1>3
<1> HIDE DEF seeds
<1> DEFINE reached == Within(relations, seeds, hops) \ seeds
<1>5. /\ IsInjective(out)
      /\ ToSet(out) \subseteq reached
      /\ Len(out) = Min({limit, Cardinality(reached)})
  <2>1. CASE seeds = {}
    <3>1. out = <<>>
      BY <2>1
    <3>2. Within(relations, seeds, hops) = {}
      BY <1>3, <2>1, NothingIsNear
    <3>3. Cardinality(reached) = 0
      BY <3>2, FS_EmptySet
    <3>4. Min({limit, 0}) = 0
      BY <1>3, SmallerOfTwo
    <3>5. IsInjective(<<>>) /\ ToSet(<<>>) = {} /\ Len(<<>>) = 0
      BY DEF IsInjective, ToSet
    <3> HIDE DEF reached, out
    <3> QED
      BY <3>1, <3>3, <3>4, <3>5
  <2>2. CASE seeds # {}
    <3>1. out = neighbors(relations, seeds, hops, limit)
      BY <2>2
    <3>2. /\ IsInjective(neighbors(relations, seeds, hops, limit))
          /\ ToSet(neighbors(relations, seeds, hops, limit)) \subseteq reached
          /\ Len(neighbors(relations, seeds, hops, limit)) = Min({limit, Cardinality(reached)})
      BY ZenonT(60), <1>3, NeighborsAre
    <3> QED
      BY <3>1, <3>2
  <2> QED
    BY <2>1, <2>2
<1> HIDE DEF out
<1>6. Exact(shown', relations)
  BY <1>2, <1>5 DEF Exact
<1>7. UNCHANGED <<pages, relations, tasks, run>>
  BY DEF explore
<1>8. shown'.upto \in 0 .. Len(relations') /\ Exact(shown', SubSeq(relations', 1, shown'.upto))
  <2>1. relations' = relations /\ shown'.upto = Len(relations)
    BY <1>2, <1>7
  <2>2. SubSeq(relations', 1, shown'.upto) = relations
    BY <1>4, <2>1
  <2>3. shown'.upto \in 0 .. Len(relations')
    BY <1>3, <2>1
  <2> QED
    BY <1>6, <2>2, <2>3
<1>9. (shown # None => /\ shown.upto \in 0 .. Len(relations)
                       /\ Exact(shown, SubSeq(relations, 1, shown.upto)))'
  BY <1>8 DEF Exact
<1> QED
  BY <1>7, <1>9 DEF GraphInv

(* A run that stays with its document.                                      *)
LEMMA GraphKeepsDoc ==
  ASSUME GraphInv, NEW w \in DOMAIN run, run[w].pc # "idle",
         DOMAIN run' = DOMAIN run, run'[w].doc = run[w].doc,
         \A v \in DOMAIN run : v # w => run'[v] = run[v],
         UNCHANGED <<pages, relations, shown, tasks>>
  PROVE  GraphInv'
<1>1. \A v \in DOMAIN run' : run'[v].pc # "idle" => run'[v].doc \in DOMAIN pages
  BY DEF GraphInv
<1>2. \A t \in tasks' : t.doc \in DOMAIN pages
  BY DEF GraphInv
<1> QED
  BY <1>1, <1>2, GraphStays

(* A run that ends, its document handed back or not.                        *)
LEMMA GraphEnds ==
  ASSUME GraphInv, NEW w \in DOMAIN run, run[w].pc # "idle", run' = [run EXCEPT ![w] = IdleRun],
         \A t \in tasks' : t \in tasks \/ t.doc = run[w].doc,
         UNCHANGED <<pages, relations, shown>>
  PROVE  GraphInv'
<1>1. \A v \in DOMAIN run' : run'[v].pc # "idle" => run'[v].doc \in DOMAIN pages
  BY IdleIsIdle DEF GraphInv
<1>2. \A t \in tasks' : t.doc \in DOMAIN pages
  BY DEF GraphInv
<1> QED
  BY <1>1, <1>2, GraphStays

LEMMA GraphStart == Init => GraphInv
<1> SUFFICES ASSUME Init PROVE GraphInv
  OBVIOUS
<1>1. PICK p \in Plans : pages \in [p.docs -> p.texts] /\ run = [w \in p.workers |-> IdleRun]
  BY DEF Init
<1>2. DOMAIN pages \subseteq Docs /\ \A d \in DOMAIN pages : pages[d] \in Seq(Text)
  BY <1>1, IndexingAssumption
<1>3. \A t \in tasks : t.doc \in DOMAIN pages
  BY DEF Init
<1>4. \A w \in DOMAIN run : run[w].pc = "idle"
  BY <1>1, IdleIsIdle
<1>5. relations \in Seq(Relation) /\ shown = None
  BY DEF Init
<1> QED
  BY <1>2, <1>3, <1>4, <1>5 DEF GraphInv

LEMMA GraphStep ==
  Shape /\ GraphInv /\ [Next]_vars => GraphInv'
<1> SUFFICES ASSUME Shape, GraphInv, [Next]_vars PROVE GraphInv'
  OBVIOUS
<1> DEFINE Stays(w) ==
      /\ run[w].pc # "idle"
      /\ DOMAIN run' = DOMAIN run
      /\ run'[w].doc = run[w].doc
      /\ \A v \in DOMAIN run : v # w => run'[v] = run[v]
<1>1. CASE UNCHANGED vars
  BY <1>1, GraphStays DEF vars, GraphInv
<1>2. CASE explore
  BY <1>2, ExplorationIsExact
<1>3. ASSUME NEW d \in DOMAIN pages, reindex(d) PROVE GraphInv'
  <2>1. UNCHANGED <<pages, relations, run, shown>> /\ tasks' = tasks \cup {[doc |-> d, retries |-> 0]}
    BY <1>3 DEF reindex
  <2> QED
    BY <1>3, <2>1, GraphStays DEF GraphInv
<1>4. ASSUME NEW w \in DOMAIN run, begin(w) PROVE GraphInv'
  <2>1. PICK t \in tasks :
          /\ tasks' = tasks \ {t}
          /\ run' = [run EXCEPT ![w] = [IdleRun EXCEPT !.pc = "chunk", !.doc = t.doc,
                                          !.retries = t.retries, !.id = runs + 1]]
    BY <1>4 DEF begin
  <2> DEFINE r == [IdleRun EXCEPT !.pc = "chunk", !.doc = t.doc, !.retries = t.retries, !.id = runs + 1]
  <2>2. r.doc = t.doc
    BY DEF IdleRun
  <2>3. run' = [run EXCEPT ![w] = r]
    BY <2>1
  <2> HIDE DEF r
  <2>4. \A v \in DOMAIN run' : run'[v].pc # "idle" => run'[v].doc \in DOMAIN pages
    BY <2>2, <2>3 DEF GraphInv
  <2>5. \A u \in tasks' : u.doc \in DOMAIN pages
    BY <2>1 DEF GraphInv
  <2>6. UNCHANGED <<pages, relations, shown>>
    BY <1>4 DEF begin
  <2> QED
    BY <2>4, <2>5, <2>6, GraphStays
<1>5. ASSUME NEW w \in DOMAIN run, Stays(w), UNCHANGED <<pages, relations, shown, tasks>> PROVE GraphInv'
  BY <1>5, GraphKeepsDoc
<1>r. ASSUME NEW w \in DOMAIN run PROVE run[w] = [f \in Fields |-> run[w][f]]
  BY DEF Shape
<1>6. ASSUME NEW w \in DOMAIN run, NEW pc, Advance(w, pc), run[w].pc # "idle" PROVE Stays(w)
  <2> DEFINE r == [run[w] EXCEPT !.pc = pc]
  <2>1. run' = [run EXCEPT ![w] = r] /\ r.doc = run[w].doc
    BY <1>6, <1>r DEF Advance, Fields
  <2> HIDE DEF r
  <2> QED
    BY <1>6, <2>1
<1>7. ASSUME NEW w \in DOMAIN run, chunk_document(w) PROVE GraphInv'
  <2> DEFINE r == [run[w] EXCEPT !.pc = "version", !.chunks = RowsOf(plan.strategy, run[w].doc)]
  <2>1. run' = [run EXCEPT ![w] = r] /\ r.doc = run[w].doc /\ run[w].pc = "chunk"
    BY <1>7, <1>r DEF chunk_document, Stage, Fields
  <2> HIDE DEF r
  <2>2. Stays(w)
    BY <2>1
  <2> QED
    BY <1>5, <1>7, <2>2 DEF chunk_document
<1>8. ASSUME NEW w \in DOMAIN run, find_version(w) PROVE GraphInv'
  <2>1. run[w].pc = "version" /\ UNCHANGED <<pages, relations, shown, tasks>>
    BY <1>8 DEF find_version, Stage
  <2>2. CASE Advance(w, "addVersion")
    BY <1>5, <1>6, <2>1, <2>2
  <2>3. ASSUME NEW v, run' = [run EXCEPT ![w].pc = "embed", ![w].version = v] PROVE GraphInv'
    <3> DEFINE r == [run[w] EXCEPT !.pc = "embed", !.version = v]
    <3>1. run' = [run EXCEPT ![w] = r] /\ r.doc = run[w].doc
      BY <2>3, <1>r DEF Fields
    <3> HIDE DEF r
    <3>2. Stays(w)
      BY <2>1, <3>1
    <3> QED
      BY <1>5, <2>1, <3>2
  <2> QED
    BY <1>8, <2>2, <2>3 DEF find_version
<1>9. ASSUME NEW w \in DOMAIN run, add_version(w) PROVE GraphInv'
  <2>1. run[w].pc = "addVersion" /\ UNCHANGED <<pages, relations, shown>>
    BY <1>9 DEF add_version, Stage
  <2>2. CASE versions = {}
    <3> DEFINE r == [run[w] EXCEPT !.pc = "embed", !.version = run[w].id]
    <3>1. run' = [run EXCEPT ![w] = r] /\ r.doc = run[w].doc /\ UNCHANGED tasks
      BY <1>9, <2>2, <1>r DEF add_version, Fields
    <3> HIDE DEF r
    <3>2. Stays(w)
      BY <2>1, <3>1
    <3> QED
      BY <1>5, <2>1, <3>1, <3>2
  <2>3. CASE versions # {}
    <3>1. Escape(w)
      BY <1>9, <2>3 DEF add_version
    <3>2. run' = [run EXCEPT ![w] = IdleRun]
      BY <3>1 DEF Escape
    <3>3. \A t \in tasks' : t \in tasks \/ t.doc = run[w].doc
      BY <3>1 DEF Escape
    <3> QED
      BY <2>1, <3>2, <3>3, GraphEnds
  <2> QED
    BY <2>2, <2>3
<1>10. ASSUME NEW w \in DOMAIN run, embed(w) PROVE GraphInv'
  <2> DEFINE pc == IF Targets(w) = {} THEN "graph" ELSE "upsert"
  <2>1. PICK chunks : run' = [run EXCEPT ![w].pc = pc, ![w].chunks = chunks]
    BY <1>10 DEF embed
  <2>2. run[w].pc = "embed" /\ UNCHANGED <<pages, relations, shown, tasks>>
    BY <1>10 DEF embed, Stage
  <2> HIDE DEF pc
  <2> DEFINE r == [run[w] EXCEPT !.pc = pc, !.chunks = chunks]
  <2>3. run' = [run EXCEPT ![w] = r] /\ r.doc = run[w].doc
    BY <2>1, <1>r DEF Fields
  <2> HIDE DEF r
  <2>4. Stays(w)
    BY <2>2, <2>3
  <2> QED
    BY <1>5, <2>2, <2>4
<1>11. ASSUME NEW w \in DOMAIN run, upsert(w) \/ skip_graph(w) PROVE GraphInv'
  BY <1>5, <1>6, <1>11 DEF upsert, skip_graph, Stage
<1>12. ASSUME NEW w \in DOMAIN run, build_graph(w) PROVE GraphInv'
  <2>1. /\ run[w].pc = "graph" /\ Advance(w, "commit") /\ relations' = relations \o Found(run[w].doc)
        /\ UNCHANGED <<pages, shown, tasks>>
    BY <1>12 DEF build_graph, Stage
  <2>2. run[w].doc \in DOMAIN pages
    BY <2>1 DEF GraphInv
  <2>3. Found(run[w].doc) \in Seq(Relation)
    BY <2>2, FoundAreRelations
  <2>4. \A v \in DOMAIN run' : run'[v].pc # "idle" => run'[v].doc \in DOMAIN pages
    <3>1. Stays(w)
      BY <1>6, <2>1
    <3> QED
      BY <2>2, <3>1 DEF GraphInv
  <2>5. \A t \in tasks' : t.doc \in DOMAIN pages
    BY <2>1 DEF GraphInv
  <2> QED
    BY <2>1, <2>3, <2>4, <2>5, GraphGrows
<1>13. ASSUME NEW w \in DOMAIN run, commit(w) \/ fail(w) PROVE GraphInv'
  <2>1. /\ run[w].pc # "idle" /\ run' = [run EXCEPT ![w] = IdleRun]
        /\ UNCHANGED <<pages, relations, shown, tasks>>
    BY <1>13 DEF commit, fail, Settle, Stage
  <2> QED
    BY <2>1, GraphEnds
<1>14. ASSUME NEW w \in DOMAIN run, lose(w) PROVE GraphInv'
  <2>1. /\ run[w].pc # "idle" /\ run' = [run EXCEPT ![w] = IdleRun]
        /\ tasks' = tasks \cup {[doc |-> run[w].doc, retries |-> run[w].retries]}
        /\ UNCHANGED <<pages, relations, shown>>
    BY <1>14 DEF lose, Stage
  <2>2. \A t \in tasks' : t \in tasks \/ t.doc = run[w].doc
    BY <2>1
  <2> QED
    BY <2>1, <2>2, GraphEnds
<1> QED
  BY <1>1, <1>2, <1>3, <1>4, <1>7, <1>8, <1>9, <1>10, <1>11, <1>12, <1>13, <1>14 DEF Next, Work

(* Whatever the texts, the documents and their order, the entities asked    *)
(* about, the hops and the limit: an exploration shows each entity once, no *)
(* seed, and all that the relations known then reach, unless the limit cut  *)
(* it short (in_memory.py, neighbors).                                      *)
THEOREM ExplorationsAreExact == Spec => []NeighborsAreExact
<1>1. GraphInv => NeighborsAreExact
  BY DEF GraphInv, Exact, NeighborsAreExact
<1>2. VectorsInv /\ GraphInv /\ [Next]_vars => GraphInv'
  BY GraphStep DEF VectorsInv
<1> QED
  BY VectorsStart, VectorsStep, GraphStart, <1>1, <1>2, PTL DEF Spec

-----------------------------------------------------------------------------
(* Sizes: what the chunkers cut, and how long it may be.  First, str.split. *)
SplitStep(f, sep, s) ==
  IF At(sep, s) = {} THEN <<s>>
  ELSE LET i == Min(At(sep, s)) IN
       <<SubSeq(s, 1, i - 1)>> \o f[SubSeq(s, i + Len(sep), Len(s))]

(* The rest after a separator is a shorter text.                            *)
LEMMA RestIsShorter ==
  ASSUME NEW sep \in Text \ {<<>>}, NEW s \in Text, At(sep, s) # {}
  PROVE  LET i == Min(At(sep, s))  rest == SubSeq(s, i + Len(sep), Len(s)) IN
         SubSeq(s, 1, i - 1) \in Text /\ rest \in Text /\ Len(rest) < Len(s)
<1> DEFINE i == Min(At(sep, s))
<1>1. At(sep, s) \in SUBSET Nat
  BY DEF At, Text
<1>2. i \in At(sep, s)
  BY <1>1, MinIsThere
<1>3. Len(sep) \in Nat \ {0} /\ i \in 1 .. Len(s) - Len(sep) + 1
  BY <1>2 DEF At, Text
<1>4. Len(s) \in Nat /\ i \in Nat \ {0} /\ i - 1 <= Len(s) /\ i + Len(sep) <= Len(s) + 1
  BY <1>3 DEF Text
<1> HIDE DEF i
<1>5. SubSeq(s, 1, i - 1) \in Seq(Int) /\ SubSeq(s, i + Len(sep), Len(s)) \in Seq(Int)
  BY SMTT(40), <1>3, <1>4 DEF Text
<1>6. Len(SubSeq(s, i + Len(sep), Len(s))) < Len(s)
  BY <1>3, <1>4 DEF Text
<1> QED
  BY <1>5, <1>6 DEF i, Text

LEMMA SplitIsDefined ==
  ASSUME NEW sep \in Text \ {<<>>}
  PROVE  \E f \in [Text -> Seq(Text)] : \A s \in Text : f[s] = SplitStep(f, sep, s)
<1> DEFINE T == Seq(Text)
           measure == [s \in Text |-> Len(s)]
           G == [p \in Text \X [Text -> T] |-> SplitStep(p[2], sep, p[1])]
<1>1. ASSUME NEW s \in Text, NEW f \in [Text -> T]
      PROVE  SplitStep(f, sep, s) \in T
  <2>1. CASE At(sep, s) = {}
    BY <2>1 DEF SplitStep
  <2>2. CASE At(sep, s) # {}
    <3> DEFINE i == Min(At(sep, s))
               rest == SubSeq(s, i + Len(sep), Len(s))
    <3>1. SubSeq(s, 1, i - 1) \in Text /\ rest \in Text
      BY <2>2, RestIsShorter
    <3>2. SplitStep(f, sep, s) = <<SubSeq(s, 1, i - 1)>> \o f[rest]
      BY <2>2 DEF SplitStep
    <3> HIDE DEF i, rest
    <3>3. f[rest] \in Seq(Text)
      BY <3>1
    <3>4. <<SubSeq(s, 1, i - 1)>> \in Seq(Text)
      BY <3>1
    <3> QED
      BY <3>2, <3>3, <3>4
  <2> QED
    BY <2>1, <2>2
<1>2. ASSUME NEW s \in Text, NEW f \in [Text -> T], NEW g \in [Text -> T],
             \A e \in Text : measure[e] < measure[s] => f[e] = g[e]
      PROVE  SplitStep(f, sep, s) = SplitStep(g, sep, s)
  <2>1. CASE At(sep, s) = {}
    BY <2>1 DEF SplitStep
  <2>2. CASE At(sep, s) # {}
    <3> DEFINE i == Min(At(sep, s))
               rest == SubSeq(s, i + Len(sep), Len(s))
    <3>1. rest \in Text /\ Len(rest) < Len(s)
      BY <2>2, RestIsShorter
    <3>2. \A h : SplitStep(h, sep, s) = <<SubSeq(s, 1, i - 1)>> \o h[rest]
      BY <2>2 DEF SplitStep
    <3> HIDE DEF i, rest
    <3>3. measure[rest] < measure[s]
      BY <3>1
    <3>4. f[rest] = g[rest]
      BY <1>2, <3>1, <3>3
    <3> QED
      BY <3>2, <3>4
  <2> QED
    BY <2>1, <2>2
<1>3. measure \in [Text -> Nat] /\ <<>> \in T
  BY DEF Text
<1>4. \A s \in Text, f \in [Text -> T] : G[<<s, f>>] = SplitStep(f, sep, s)
  OBVIOUS
<1> HIDE DEF T, measure, G
<1>5. Local(G, Text, T, measure)
  BY <1>1, <1>2, <1>4 DEF Local
<1>6. PICK f : IsRecursive(f, G, Text, T)
  BY <1>3, <1>5, RecursionIsDefined
<1> QED
  BY <1>4, <1>6 DEF T, IsRecursive

(* Cutting a text at a separator gives texts.                               *)
LEMMA SplitsAreTexts ==
  ASSUME NEW sep \in Text \ {<<>>}, NEW text \in Text PROVE split(sep, text) \in Seq(Text)
<1> DEFINE Rec(f) == f = [s \in Text |-> SplitStep(f, sep, s)]
           cut == CHOOSE f : Rec(f)
           Below(n) == \A s \in Text : Len(s) < n => cut[s] \in Seq(Text)
           U == {n \in Nat : Below(n)}
<1>1. PICK f \in [Text -> Seq(Text)] : \A s \in Text : f[s] = SplitStep(f, sep, s)
  BY SplitIsDefined
<1>2. Rec(f)
  BY <1>1
<1>3. split(sep, text) = cut[text]
  BY DEF split, SplitStep
<1>4. Rec(cut)
  BY <1>2
<1> HIDE DEF cut
<1>5. 0 \in U
  BY DEF Text
<1>6. ASSUME NEW n \in Nat, n \in U PROVE n + 1 \in U
  <2>1. SUFFICES ASSUME NEW s \in Text, Len(s) < n + 1 PROVE cut[s] \in Seq(Text)
    OBVIOUS
  <2>2. cut[s] = SplitStep(cut, sep, s)
    BY <1>4
  <2>3. CASE At(sep, s) = {}
    BY <2>2, <2>3 DEF SplitStep
  <2>4. CASE At(sep, s) # {}
    <3> DEFINE i == Min(At(sep, s))
               rest == SubSeq(s, i + Len(sep), Len(s))
    <3>1. SubSeq(s, 1, i - 1) \in Text /\ rest \in Text /\ Len(rest) < Len(s)
      BY <2>4, RestIsShorter
    <3>2. SplitStep(cut, sep, s) = <<SubSeq(s, 1, i - 1)>> \o cut[rest]
      BY <2>4 DEF SplitStep
    <3> HIDE DEF i, rest
    <3>3. Len(rest) \in Nat /\ Len(s) \in Nat
      BY <3>1 DEF Text
    <3>4. cut[rest] \in Seq(Text)
      BY <1>6, <2>1, <3>1, <3>3
    <3>5. <<SubSeq(s, 1, i - 1)>> \in Seq(Text)
      BY <3>1
    <3> QED
      BY <2>2, <3>2, <3>4, <3>5
  <2> QED
    BY <2>3, <2>4
<1> HIDE DEF U
<1>7. Nat \subseteq U
  BY <1>5, <1>6, SetInduction
<1>8. Len(text) + 1 \in U /\ Len(text) \in Nat /\ Len(text) < Len(text) + 1
  BY <1>7 DEF Text
<1> QED
  BY <1>3, <1>8 DEF U

-----------------------------------------------------------------------------
(* Texts of a bounded size.                                                 *)
Sized(n) == {t \in Text : Len(t) <= n}

LEMMA StripShortens ==
  ASSUME NEW s \in Text PROVE strip(s) \in Text /\ Len(strip(s)) <= Len(s)
<1> DEFINE solid == {i \in DOMAIN s : ~Blank(s[i])}
           a == Min(solid)
           b == Max(solid)
<1>1. s \in Seq(Int) /\ Len(s) \in Nat /\ DOMAIN s = 1 .. Len(s)
  BY DEF Text
<1>2. CASE solid = {}
  <2>1. strip(s) = <<>>
    BY <1>2 DEF strip
  <2>2. <<>> \in Text /\ Len(<<>>) = 0
    BY DEF Text
  <2> QED
    BY <1>1, <2>1, <2>2
<1>3. CASE solid # {}
  <2>1. strip(s) = SubSeq(s, a, b)
    BY <1>3 DEF strip
  <2>2. solid \in SUBSET Nat /\ solid \in SUBSET (1 .. Len(s))
    BY <1>1
  <2>3. a \in solid
    BY <1>3, <2>2, MinIsThere
  <2>4. b \in solid
    BY <1>1, <1>3, <2>2, MaxIsThere
  <2>5. a \in 1 .. Len(s) /\ b \in 1 .. Len(s)
    BY <2>2, <2>3, <2>4
  <2> HIDE DEF a, b
  <2>6. SubSeq(s, a, b) \in Seq(Int) /\ Len(SubSeq(s, a, b)) <= Len(s)
    BY <1>1, <2>5
  <2> QED
    BY <2>1, <2>6 DEF Text
<1> QED
  BY <1>2, <1>3

LEMMA StripIsSized ==
  ASSUME NEW n \in Nat, NEW s \in Sized(n) PROVE strip(s) \in Sized(n)
<1>1. Len(s) \in Nat /\ Len(strip(s)) \in Nat
  BY StripShortens DEF Sized, Text
<1> QED
  BY <1>1, StripShortens DEF Sized

Stripped(ss) == [i \in DOMAIN ss |-> strip(ss[i])]

LEMMA StripsAreSized ==
  ASSUME NEW n \in Nat, NEW ss \in Seq(Sized(n)) PROVE Stripped(ss) \in Seq(Sized(n))
<1>1. \A i \in 1 .. Len(ss) : strip(ss[i]) \in Sized(n)
  BY StripIsSized
<1> QED
  BY <1>1 DEF Stripped

LEMMA StripsAreTexts ==
  ASSUME NEW ss \in Seq(Text) PROVE Stripped(ss) \in Seq(Text)
<1>1. \A i \in 1 .. Len(ss) : strip(ss[i]) \in Text
  BY StripShortens
<1> QED
  BY <1>1 DEF Stripped

LEMMA NonEmptyAre ==
  ASSUME NEW X, NEW ss \in Seq(X) PROVE NonEmpty(ss) \in Seq(X)
<1> DEFINE one(i) == IF ss[i] # <<>> THEN <<ss[i]>> ELSE <<>>
           single == [i \in DOMAIN ss |-> one(i)]
<1>1. \A i \in 1 .. Len(ss) : one(i) \in Seq(X)
  OBVIOUS
<1>2. NonEmpty(ss) = FlattenSeq(single)
  BY DEF NonEmpty, Where
<1> HIDE DEF one
<1>3. single \in Seq(Seq(X))
  BY <1>1
<1> HIDE DEF single
<1> QED
  BY <1>2, <1>3, FlatIsASequence

(* The last n symbols.                                                      *)
LEMMA TailIsSized ==
  ASSUME NEW s \in Text, NEW n \in Nat \ {0} PROVE Tail_(s, n) \in Sized(n)
<1> DEFINE m == Max({1, Len(s) - n + 1})
<1>1. m \in {1, Len(s) - n + 1} /\ m >= 1 /\ m >= Len(s) - n + 1
  <2>1. Len(s) - n + 1 \in Int
    BY DEF Text
  <2>2. \E x \in {1, Len(s) - n + 1} : \A y \in {1, Len(s) - n + 1} : x >= y
    BY <2>1
  <2> QED
    BY <2>2 DEF Max
<1>2. m \in Nat \ {0} /\ m <= Len(s) + 1 /\ Len(s) - m + 1 <= n /\ Len(s) \in Nat
  BY <1>1 DEF Text
<1> HIDE DEF m
<1>3. SubSeq(s, m, Len(s)) \in Seq(Int) /\ Len(SubSeq(s, m, Len(s))) <= n
  BY <1>2 DEF Text
<1> QED
  BY <1>3 DEF m, Tail_, Sized, Text

LEMMA OverlapsAreSized ==
  ASSUME NEW n \in Nat, NEW overlap \in Nat, NEW chunks \in Seq(Sized(n))
  PROVE  apply_overlap(chunks, overlap)
           \in Seq(Sized(IF overlap = 0 THEN n ELSE n + overlap + 1))
<1>1. CASE overlap = 0
  BY <1>1 DEF apply_overlap
<1>2. CASE overlap # 0
  <2> DEFINE size == n + overlap + 1
             piece(i) == strip(strip(Tail_(chunks[i - 1], overlap)) \o <<Space>> \o chunks[i])
  <2>1. ASSUME NEW i \in 1 .. Len(chunks), i # 1 PROVE piece(i) \in Sized(size)
    <3> DEFINE t == strip(Tail_(chunks[i - 1], overlap))
    <3>1. i - 1 \in 1 .. Len(chunks)
      BY <2>1
    <3>2. chunks[i - 1] \in Text /\ chunks[i] \in Text /\ Len(chunks[i]) <= n
      BY <3>1 DEF Sized
    <3>3. Tail_(chunks[i - 1], overlap) \in Sized(overlap)
      BY <1>2, <3>2, TailIsSized
    <3>4. t \in Sized(overlap)
      BY <3>3, StripIsSized
    <3> HIDE DEF t
    <3>5. t \o <<Space>> \o chunks[i] \in Sized(size)
      <4>1. t \in Seq(Int) /\ Len(t) <= overlap /\ chunks[i] \in Seq(Int) /\ Space \in Int
        BY <3>2, <3>4 DEF Sized, Text, Space
      <4>2. t \o <<Space>> \in Seq(Int) /\ Len(t \o <<Space>>) = Len(t) + 1
        BY <4>1
      <4>3. /\ t \o <<Space>> \o chunks[i] \in Seq(Int)
            /\ Len(t \o <<Space>> \o chunks[i]) = Len(t) + 1 + Len(chunks[i])
        BY <4>1, <4>2
      <4>4. Len(t) \in Nat /\ Len(chunks[i]) \in Nat
        BY <4>1
      <4>5. Len(t \o <<Space>> \o chunks[i]) <= size
        <5>1. \A x, y \in Nat : x <= overlap /\ y <= n => x + 1 + y <= size
          OBVIOUS
        <5>2. Len(t) + 1 + Len(chunks[i]) <= size
          <6> HIDE DEF size
          <6> QED
            BY <3>2, <4>1, <4>4, <5>1
        <5> QED
          BY <4>3, <5>2
      <4>6. t \o <<Space>> \o chunks[i] \in Text
        BY <4>3 DEF Text
      <4> QED
        BY <4>5, <4>6 DEF Sized
    <3>6. size \in Nat
      OBVIOUS
    <3> QED
      BY <3>5, <3>6, StripIsSized DEF t
  <2>2. ASSUME NEW i \in 1 .. Len(chunks)
        PROVE  (IF i = 1 THEN chunks[i] ELSE piece(i)) \in Sized(size)
    <3>1. chunks[i] \in Text /\ Len(chunks[i]) <= n /\ Len(chunks[i]) \in Nat
      BY DEF Sized, Text
    <3>2. Len(chunks[i]) <= size
      BY <3>1
    <3>3. chunks[i] \in Sized(size)
      BY <3>1, <3>2 DEF Sized
    <3> QED
      BY <2>1, <3>3
  <2>3. apply_overlap(chunks, overlap) = [i \in 1 .. Len(chunks) |-> IF i = 1 THEN chunks[i] ELSE piece(i)]
    BY <1>2 DEF apply_overlap
  <2> HIDE DEF piece, size
  <2>4. apply_overlap(chunks, overlap) \in Seq(Sized(size))
    BY <2>2, <2>3
  <2> QED
    BY <1>2, <2>4 DEF size
<1> QED
  BY <1>1, <1>2

-----------------------------------------------------------------------------
(* The recursive splitter: no piece is longer than the size.                *)

LEMMA SeparatorsAre ==
  \A j \in 1 .. 4 : Separators[j] \in Text \ {<<>>}
<1>1. \A a \in Int : <<a>> \in Text \ {<<>>} /\ \A b \in Int : <<a, b>> \in Text \ {<<>>}
  <2>1. ASSUME NEW a \in Int PROVE <<a>> \in Seq(Int) /\ <<a>> # <<>>
    OBVIOUS
  <2>2. ASSUME NEW a \in Int, NEW b \in Int PROVE <<a, b>> \in Seq(Int) /\ <<a, b>> # <<>>
    OBVIOUS
  <2> QED
    BY <2>1, <2>2 DEF Text
<1>2. Newline \in Int /\ Dot \in Int /\ Space \in Int
  BY DEF Newline, Dot, Space
<1>3. /\ Separators[1] = <<Newline, Newline>> /\ Separators[2] = <<Newline>>
      /\ Separators[3] = <<Dot, Space>> /\ Separators[4] = <<Space>>
  BY DEF Separators
<1>4. \A j \in 1 .. 4 : j = 1 \/ j = 2 \/ j = 3 \/ j = 4
  OBVIOUS
<1> QED
  BY <1>1, <1>2, <1>3, <1>4

LEMMA CoarsestIs ==
  ASSUME NEW k \in 1 .. 5, NEW s \in Text PROVE Coarsest(k, s) \in k .. 5
<1> DEFINE found == {j \in k .. Len(Separators) : At(Separators[j], s) # {}}
<1>1. Len(Separators) = 4
  BY DEF Separators
<1>2. CASE found = {}
  <2>1. Coarsest(k, s) = 5
    BY <1>1, <1>2 DEF Coarsest
  <2> QED
    BY <2>1
<1>3. CASE found # {}
  <2>1. Coarsest(k, s) = Min(found)
    BY <1>3 DEF Coarsest
  <2>2. found \in SUBSET (k .. 4) /\ found \in SUBSET Nat
    BY <1>1
  <2> HIDE DEF found
  <2>3. Min(found) \in found
    BY <1>3, <2>2, MinIsThere
  <2>4. Min(found) \in k .. 4
    BY <2>2, <2>3
  <2> QED
    BY <2>1, <2>4
<1> QED
  BY <1>2, <1>3

LEMMA PartsAreTexts ==
  ASSUME NEW k \in 1 .. 5, NEW s \in Text
  PROVE  /\ Parts(k, s) \in Seq(Text)
         /\ k = 5 => \A i \in 1 .. Len(Parts(k, s)) : Len(Parts(k, s)[i]) = 1
<1>1. Len(Separators) = 4
  BY DEF Separators
<1>2. CASE k = 5
  <2>1. Parts(k, s) = [i \in 1 .. Len(s) |-> <<s[i]>>]
    BY <1>1, <1>2 DEF Parts, Text
  <2>2. \A i \in 1 .. Len(s) : <<s[i]>> \in Text /\ Len(<<s[i]>>) = 1
    BY DEF Text
  <2>3. Len(s) \in Nat
    BY DEF Text
  <2> QED
    BY <2>1, <2>2, <2>3
<1>3. CASE k # 5
  <2> DEFINE sep == Separators[k]
             parts == split(sep, s)
  <2>1. sep \in Text \ {<<>>}
    BY <1>3, SeparatorsAre
  <2>2. Parts(k, s) = [i \in DOMAIN parts |-> parts[i] \o sep]
    BY <1>1, <1>3 DEF Parts
  <2> HIDE DEF sep
  <2>3. parts \in Seq(Text)
    BY <2>1, SplitsAreTexts
  <2> HIDE DEF parts
  <2>4. ASSUME NEW i \in 1 .. Len(parts) PROVE parts[i] \o sep \in Text
    <3>1. parts[i] \in Seq(Int) /\ sep \in Seq(Int)
      BY <2>1, <2>3 DEF Text
    <3> QED
      BY <3>1 DEF Text
  <2>5. Parts(k, s) = [i \in 1 .. Len(parts) |-> parts[i] \o sep]
    BY <2>2, <2>3
  <2>6. Parts(k, s) \in Seq(Text)
    BY <2>3, <2>4, <2>5
  <2> QED
    BY <1>3, <2>6
<1> QED
  BY <1>2, <1>3

Levels == (1 .. 5) \X Text

Packing(size) == [chunks : Seq(Sized(size)), current : Sized(size)]

PackStep(cut, size, j, acc, piece) ==
  IF Len(piece) > size
  THEN [chunks |-> Flush(acc) \o cut[<<j + 1, piece>>], current |-> <<>>]
  ELSE IF Len(acc.current) + Len(piece) <= size
  THEN [acc EXCEPT !.current = @ \o piece]
  ELSE [chunks |-> Flush(acc), current |-> piece]

Packed(cut, size, j, pieces) ==
  FoldLeft(LAMBDA acc, piece : PackStep(cut, size, j, acc, piece),
           [chunks |-> <<>>, current |-> <<>>], pieces)

(* Who has to be split at a finer separator comes back in pieces.           *)
Finer(cut, size, j, pieces) ==
  \A m \in 1 .. Len(pieces) : Len(pieces[m]) > size => cut[<<j + 1, pieces[m]>>] \in Seq(Sized(size))

LEMMA FlushIsSized ==
  ASSUME NEW size \in Nat, NEW acc \in Packing(size) PROVE Flush(acc) \in Seq(Sized(size))
  BY DEF Flush, Packing

LEMMA PackStepIsSized ==
  ASSUME NEW size \in Nat \ {0}, NEW j \in 1 .. 5, NEW cut, NEW piece \in Text, NEW acc \in Packing(size),
         Len(piece) > size => cut[<<j + 1, piece>>] \in Seq(Sized(size))
  PROVE  PackStep(cut, size, j, acc, piece) \in Packing(size)
<1>1. acc.chunks \in Seq(Sized(size)) /\ acc.current \in Sized(size) /\ Flush(acc) \in Seq(Sized(size))
  BY FlushIsSized DEF Packing
<1>2. <<>> \in Sized(size)
  BY DEF Sized, Text
<1>3. CASE Len(piece) > size
  <2>1. Flush(acc) \o cut[<<j + 1, piece>>] \in Seq(Sized(size))
    BY <1>1, <1>3
  <2> QED
    BY <1>2, <1>3, <2>1 DEF PackStep, Packing
<1>4. CASE ~(Len(piece) > size) /\ Len(acc.current) + Len(piece) <= size
  <2>1. acc.current \in Seq(Int) /\ piece \in Seq(Int)
    BY <1>1 DEF Sized, Text
  <2>2. /\ acc.current \o piece \in Seq(Int)
        /\ Len(acc.current \o piece) = Len(acc.current) + Len(piece)
    BY <2>1
  <2>3. acc.current \o piece \in Sized(size)
    BY <1>4, <2>2 DEF Sized, Text
  <2>4. PackStep(cut, size, j, acc, piece) = [acc EXCEPT !.current = @ \o piece]
    BY <1>4 DEF PackStep
  <2> QED
    BY <1>1, <2>3, <2>4 DEF Packing
<1>5. CASE ~(Len(piece) > size) /\ ~(Len(acc.current) + Len(piece) <= size)
  <2>1. piece \in Sized(size)
    BY <1>5 DEF Sized, Text
  <2> QED
    BY <1>1, <1>5, <2>1 DEF PackStep, Packing
<1> QED
  BY <1>3, <1>4, <1>5

(* The packing, step by step.                                               *)
IsPacking(it, cut, size, j, pieces) ==
  /\ it \in [0 .. Len(pieces) -> Packing(size)]
  /\ it[0] = [chunks |-> <<>>, current |-> <<>>]
  /\ \A m \in 1 .. Len(pieces) : it[m] = PackStep(cut, size, j, it[m - 1], pieces[m])
  /\ Packed(cut, size, j, pieces) = it[Len(pieces)]

LEMMA PackRun ==
  ASSUME NEW cut, NEW size \in Nat \ {0}, NEW j \in 1 .. 5, NEW pieces \in Seq(Text),
         Finer(cut, size, j, pieces)
  PROVE  \E it : IsPacking(it, cut, size, j, pieces)
<1> DEFINE n == Len(pieces)
           T == Packing(size)
           base == [chunks |-> <<>>, current |-> <<>>]
           G == [p \in (1 .. n) \X T |-> PackStep(cut, size, j, p[2], pieces[p[1]])]
           Rec(f) == f = [s \in SUBSET (1 .. n) |->
                            IF s = {} THEN base ELSE PackStep(cut, size, j, f[s \ {Max(s)}], pieces[Max(s)])]
           iter == CHOOSE f : Rec(f)
<1>1. n \in Nat /\ base \in T /\ DOMAIN pieces = 1 .. n
  BY DEF Packing, Sized, Text
<1>2. \A t \in T, m \in 1 .. n : PackStep(cut, size, j, t, pieces[m]) \in T
  <2>1. ASSUME NEW t \in T, NEW m \in 1 .. n PROVE PackStep(cut, size, j, t, pieces[m]) \in T
    <3>1. pieces[m] \in Text
      OBVIOUS
    <3>2. Len(pieces[m]) > size => cut[<<j + 1, pieces[m]>>] \in Seq(Sized(size))
      BY DEF Finer
    <3> QED
      BY <3>1, <3>2, PackStepIsSized
  <2> QED
    BY <2>1
<1>3. /\ G \in [(1 .. n) \X T -> T]
      /\ \A m \in 1 .. n, t \in T : G[<<m, t>>] = PackStep(cut, size, j, t, pieces[m])
  BY <1>2
<1>4. Packed(cut, size, j, pieces) = iter[1 .. n]
  BY <1>1 DEF Packed, FoldLeft, MapThenFoldSet
<1> HIDE DEF T, G, n, base
<1>5. PICK f : IsLeftFold(f, n, T, base, G)
  BY <1>1, <1>3, FoldLeftIsDefined
<1>6. Rec(f)
  <2>1. ASSUME NEW s \in SUBSET (1 .. n), s # {}
        PROVE  f[s] = PackStep(cut, size, j, f[s \ {Max(s)}], pieces[Max(s)])
    <3>1. Max(s) \in 1 .. n
      BY <1>1, <2>1, MaxIsThere
    <3>2. s \ {Max(s)} \in SUBSET (1 .. n) /\ f[s \ {Max(s)}] \in T
      BY <1>5 DEF IsLeftFold
    <3> QED
      BY <1>3, <1>5, <2>1, <3>1, <3>2 DEF IsLeftFold
  <2>2. f = [s \in SUBSET (1 .. n) |-> f[s]]
    BY <1>5 DEF IsLeftFold
  <2> QED
    BY <1>5, <2>1, <2>2 DEF IsLeftFold
<1>7. Rec(iter)
  BY <1>6
<1> HIDE DEF iter
<1>8. ASSUME NEW s \in SUBSET (1 .. n), s # {}, iter[s \ {Max(s)}] \in T
      PROVE  iter[s] = G[<<Max(s), iter[s \ {Max(s)}]>>]
  <2>1. Max(s) \in 1 .. n
    BY <1>1, <1>8, MaxIsThere
  <2>2. iter[s] = PackStep(cut, size, j, iter[s \ {Max(s)}], pieces[Max(s)])
    BY <1>7, <1>8
  <2> QED
    BY <1>3, <1>8, <2>1, <2>2
<1>9. FoldsBy(iter, n, T, base, G)
  <2>1. iter[{}] = base
    BY <1>7
  <2> QED
    BY <1>1, <1>3, <1>8, <2>1 DEF FoldsBy
<1>10. PICK it : IsRun(it, iter, n, T, base, G)
  BY <1>9, FoldRuns
<1>11. it \in [0 .. n -> T] /\ it[0] = base /\ it[n] = iter[1 .. n]
  BY <1>10 DEF IsRun
<1>12. ASSUME NEW m \in 1 .. n PROVE it[m] = PackStep(cut, size, j, it[m - 1], pieces[m])
  <2>1. it[m - 1] \in T
    BY <1>1, <1>11
  <2> QED
    BY <1>3, <1>10, <2>1 DEF IsRun
<1> QED
  BY <1>4, <1>11, <1>12 DEF IsPacking, n, T, base

(* Two functions that split the long pieces alike pack alike.               *)
LEMMA PackingAgrees ==
  ASSUME NEW cut, NEW other, NEW size \in Nat \ {0}, NEW j \in 1 .. 5, NEW pieces \in Seq(Text),
         Finer(cut, size, j, pieces),
         \A m \in 1 .. Len(pieces) :
           Len(pieces[m]) > size => cut[<<j + 1, pieces[m]>>] = other[<<j + 1, pieces[m]>>]
  PROVE  Packed(cut, size, j, pieces) = Packed(other, size, j, pieces)
<1>1. Finer(other, size, j, pieces)
  BY DEF Finer
<1>2. PICK it : IsPacking(it, cut, size, j, pieces)
  BY PackRun
<1>3. PICK jt : IsPacking(jt, other, size, j, pieces)
  BY <1>1, PackRun
<1> DEFINE U == {m \in Nat : m <= Len(pieces) => it[m] = jt[m]}
<1>4. 0 \in U
  BY <1>2, <1>3 DEF IsPacking
<1>5. ASSUME NEW m \in Nat, m \in U PROVE m + 1 \in U
  <2>1. SUFFICES ASSUME m + 1 <= Len(pieces) PROVE it[m + 1] = jt[m + 1]
    OBVIOUS
  <2>2. m + 1 \in 1 .. Len(pieces) /\ (m + 1) - 1 = m /\ it[m] = jt[m]
    BY <1>5, <2>1
  <2> DEFINE piece == pieces[m + 1]
  <2>3. Len(piece) > size => cut[<<j + 1, piece>>] = other[<<j + 1, piece>>]
    BY <2>2
  <2>4. /\ it[m + 1] = PackStep(cut, size, j, it[m], piece)
        /\ jt[m + 1] = PackStep(other, size, j, jt[m], piece)
    BY <1>2, <1>3, <2>2 DEF IsPacking
  <2> HIDE DEF piece
  <2>5. PackStep(cut, size, j, it[m], piece) = PackStep(other, size, j, it[m], piece)
    BY <2>3 DEF PackStep
  <2> QED
    BY <2>2, <2>4, <2>5
<1> HIDE DEF U
<1>6. Nat \subseteq U
  BY <1>4, <1>5, SetInduction
<1>7. Len(pieces) \in Nat /\ Len(pieces) \in U
  BY <1>6
<1> QED
  BY <1>2, <1>3, <1>7 DEF U, IsPacking

LEMMA PackedIsSized ==
  ASSUME NEW cut, NEW size \in Nat \ {0}, NEW j \in 1 .. 5, NEW pieces \in Seq(Text),
         Finer(cut, size, j, pieces)
  PROVE  Flush(Packed(cut, size, j, pieces)) \in Seq(Sized(size))
<1>1. PICK it : IsPacking(it, cut, size, j, pieces)
  BY PackRun
<1>2. Len(pieces) \in 0 .. Len(pieces)
  OBVIOUS
<1>3. Packed(cut, size, j, pieces) \in Packing(size)
  BY <1>1, <1>2 DEF IsPacking
<1> QED
  BY <1>3, FlushIsSized

SplitAt(cut, size, p) ==
  LET s == p[2]
      j == Coarsest(p[1], s)
  IN IF s = <<>> THEN <<>>
     ELSE IF Len(s) <= size THEN <<s>>
     ELSE Flush(Packed(cut, size, j, Parts(j, s)))

Depth(p) == 5 - p[1]

(* What the finer levels give is what this level needs.                     *)
LEMMA LevelsDescend ==
  ASSUME NEW size \in Nat \ {0}, NEW p \in Levels
  PROVE  /\ Coarsest(p[1], p[2]) \in 1 .. 5
         /\ Parts(Coarsest(p[1], p[2]), p[2]) \in Seq(Text)
         /\ \A m \in 1 .. Len(Parts(Coarsest(p[1], p[2]), p[2])) :
              LET j == Coarsest(p[1], p[2])  piece == Parts(j, p[2])[m] IN
              Len(piece) > size => <<j + 1, piece>> \in Levels /\ Depth(<<j + 1, piece>>) < Depth(p)
<1> DEFINE k == p[1]
           s == p[2]
           j == Coarsest(k, s)
           parts == Parts(j, s)
<1>1. k \in 1 .. 5 /\ s \in Text
  BY DEF Levels
<1> HIDE DEF k, s
<1>2. j \in k .. 5 /\ j \in 1 .. 5
  <2>1. j \in k .. 5
    BY <1>1, CoarsestIs
  <2> QED
    BY <1>1, <2>1
<1> HIDE DEF j
<1>3. parts \in Seq(Text) /\ (j = 5 => \A i \in 1 .. Len(parts) : Len(parts[i]) = 1)
  BY <1>1, <1>2, PartsAreTexts
<1> HIDE DEF parts
<1>4. ASSUME NEW m \in 1 .. Len(parts), Len(parts[m]) > size
      PROVE  <<j + 1, parts[m]>> \in Levels /\ Depth(<<j + 1, parts[m]>>) < Depth(p)
  <2>1. j # 5
    <3>1. ~(1 > size)
      OBVIOUS
    <3>2. Len(parts[m]) # 1
      BY <1>4, <3>1
    <3> QED
      BY <1>3, <3>2
  <2>2. j + 1 \in 1 .. 5 /\ j + 1 > k
    BY <1>1, <1>2, <2>1
  <2>3. parts[m] \in Text
    BY <1>3
  <2>4. Depth(p) = 5 - k /\ Depth(<<j + 1, parts[m]>>) = 5 - (j + 1)
    BY DEF Depth, k
  <2> QED
    BY <1>1, <2>2, <2>3, <2>4 DEF Levels
<1> QED
  BY <1>2, <1>3, <1>4 DEF k, s, j, parts

LEMMA SplitAtIsSized ==
  ASSUME NEW size \in Nat \ {0}, NEW p \in Levels, NEW cut,
         \A q \in Levels : Depth(q) < Depth(p) => cut[q] \in Seq(Sized(size))
  PROVE  SplitAt(cut, size, p) \in Seq(Sized(size))
<1> DEFINE j == Coarsest(p[1], p[2])
           parts == Parts(j, p[2])
<1>1. /\ j \in 1 .. 5 /\ parts \in Seq(Text)
      /\ \A m \in 1 .. Len(parts) :
           Len(parts[m]) > size => <<j + 1, parts[m]>> \in Levels /\ Depth(<<j + 1, parts[m]>>) < Depth(p)
  BY LevelsDescend
<1>2. p[2] \in Text
  BY DEF Levels
<1>3. SplitAt(cut, size, p) = IF p[2] = <<>> THEN <<>>
                              ELSE IF Len(p[2]) <= size THEN <<p[2]>>
                              ELSE Flush(Packed(cut, size, j, parts))
  BY DEF SplitAt
<1> HIDE DEF j, parts
<1>4. Finer(cut, size, j, parts)
  BY <1>1 DEF Finer
<1>5. Flush(Packed(cut, size, j, parts)) \in Seq(Sized(size))
  BY <1>1, <1>4, PackedIsSized
<1>6. Len(p[2]) <= size => <<p[2]>> \in Seq(Sized(size))
  BY <1>2 DEF Sized
<1> QED
  BY <1>3, <1>5, <1>6

LEMMA SplitAtAgrees ==
  ASSUME NEW size \in Nat \ {0}, NEW p \in Levels, NEW cut, NEW other,
         \A q \in Levels : Depth(q) < Depth(p) => cut[q] \in Seq(Sized(size)) /\ cut[q] = other[q]
  PROVE  SplitAt(cut, size, p) = SplitAt(other, size, p)
<1> DEFINE j == Coarsest(p[1], p[2])
           parts == Parts(j, p[2])
<1>1. /\ j \in 1 .. 5 /\ parts \in Seq(Text)
      /\ \A m \in 1 .. Len(parts) :
           Len(parts[m]) > size => <<j + 1, parts[m]>> \in Levels /\ Depth(<<j + 1, parts[m]>>) < Depth(p)
  BY LevelsDescend
<1>2. \A f : SplitAt(f, size, p) = IF p[2] = <<>> THEN <<>>
                              ELSE IF Len(p[2]) <= size THEN <<p[2]>>
                              ELSE Flush(Packed(f, size, j, parts))
  BY DEF SplitAt
<1> HIDE DEF j, parts
<1>3. Finer(cut, size, j, parts)
  BY <1>1 DEF Finer
<1>4. \A m \in 1 .. Len(parts) :
        Len(parts[m]) > size => cut[<<j + 1, parts[m]>>] = other[<<j + 1, parts[m]>>]
  BY <1>1
<1>5. Packed(cut, size, j, parts) = Packed(other, size, j, parts)
  BY ZenonT(60), <1>1, <1>3, <1>4, PackingAgrees
<1> QED
  BY <1>2, <1>5

LEMMA RecursiveSplitIsDefined ==
  ASSUME NEW size \in Nat \ {0}
  PROVE  \E f : f = [p \in Levels |-> SplitAt(f, size, p)]
<1> DEFINE T == Seq(Sized(size))
           measure == [p \in Levels |-> Depth(p)]
           G == [x \in Levels \X [Levels -> T] |-> SplitAt(x[2], size, x[1])]
<1>1. measure \in [Levels -> Nat] /\ <<>> \in T
  BY DEF Depth, Levels
<1>2. \A p \in Levels, f \in [Levels -> T] : G[<<p, f>>] = SplitAt(f, size, p)
  OBVIOUS
<1>3. \A p \in Levels : measure[p] = Depth(p)
  OBVIOUS
<1>4. \A f \in [Levels -> T], p \in Levels : f[p] \in Seq(Sized(size))
  OBVIOUS
<1> HIDE DEF measure, G, T
<1>5. ASSUME NEW p \in Levels, NEW f \in [Levels -> T] PROVE G[<<p, f>>] \in T
  <2>1. SplitAt(f, size, p) \in Seq(Sized(size))
    BY <1>4, SplitAtIsSized
  <2> QED
    BY <1>2, <2>1 DEF T
<1>6. ASSUME NEW p \in Levels, NEW f \in [Levels -> T], NEW g \in [Levels -> T],
             \A e \in Levels : measure[e] < measure[p] => f[e] = g[e]
      PROVE  G[<<p, f>>] = G[<<p, g>>]
  <2>1. \A q \in Levels : Depth(q) < Depth(p) => f[q] \in Seq(Sized(size)) /\ f[q] = g[q]
    BY <1>3, <1>4, <1>6
  <2>2. SplitAt(f, size, p) = SplitAt(g, size, p)
    BY <2>1, SplitAtAgrees
  <2> QED
    BY <1>2, <2>2
<1>7. Local(G, Levels, T, measure)
  BY <1>5, <1>6 DEF Local
<1>8. PICK f : IsRecursive(f, G, Levels, T)
  BY <1>1, <1>7, RecursionIsDefined
<1>9. f = [p \in Levels |-> SplitAt(f, size, p)]
  BY <1>2, <1>8 DEF IsRecursive
<1> QED
  BY <1>9

(* _recursive_split keeps to the size it was given.                         *)
(* The function that recursive_split is.                                    *)
IsCutting(cut, size) ==
  /\ \A p \in Levels : cut[p] \in Seq(Sized(size)) /\ cut[p] = SplitAt(cut, size, p)
  /\ \A text \in Text : recursive_split(text, size) = cut[<<1, text>>]

LEMMA RecursiveSplitUnfolds ==
  ASSUME NEW size \in Nat \ {0} PROVE \E cut : IsCutting(cut, size)
<1> DEFINE Rec(f) == f = [p \in Levels |-> SplitAt(f, size, p)]
           cut == CHOOSE f : Rec(f)
           Below(n) == \A p \in Levels : Depth(p) < n => cut[p] \in Seq(Sized(size))
           U == {n \in Nat : Below(n)}
<1>1. \A text \in Text : recursive_split(text, size) = cut[<<1, text>>]
  <2>1. Len(Separators) + 1 = 5
    BY DEF Separators
  <2> QED
    BY <2>1 DEF recursive_split, SplitAt, Packed, PackStep, Levels
<1>2. Rec(cut)
  BY RecursiveSplitIsDefined
<1> HIDE DEF cut
<1>3. \A p \in Levels : Depth(p) \in Nat
  BY DEF Depth, Levels
<1>4. 0 \in U
  BY <1>3
<1>5. ASSUME NEW n \in Nat, n \in U PROVE n + 1 \in U
  <2>1. SUFFICES ASSUME NEW p \in Levels, Depth(p) < n + 1 PROVE cut[p] \in Seq(Sized(size))
    OBVIOUS
  <2>2. \A q \in Levels : Depth(q) < Depth(p) => cut[q] \in Seq(Sized(size))
    BY <1>3, <1>5, <2>1
  <2>3. SplitAt(cut, size, p) \in Seq(Sized(size))
    BY <2>2, SplitAtIsSized
  <2> QED
    BY <1>2, <2>3
<1> HIDE DEF U
<1>6. Nat \subseteq U
  BY <1>4, <1>5, SetInduction
<1>7. \A p \in Levels : Depth(p) < 5
  BY DEF Levels, Depth
<1>8. 5 \in U
  BY <1>6
<1>9. \A p \in Levels : cut[p] \in Seq(Sized(size))
  BY <1>7, <1>8 DEF U
<1>10. \A p \in Levels : cut[p] = SplitAt(cut, size, p)
  BY <1>2
<1> QED
  BY <1>1, <1>9, <1>10 DEF IsCutting

LEMMA RecursiveSplitsAreSized ==
  ASSUME NEW size \in Nat \ {0}, NEW text \in Text
  PROVE  recursive_split(text, size) \in Seq(Sized(size))
<1>1. PICK cut : IsCutting(cut, size)
  BY RecursiveSplitUnfolds
<1>2. <<1, text>> \in Levels
  BY DEF Levels
<1> QED
  BY <1>1, <1>2 DEF IsCutting

(* What split_text promises: the size, and room for the overlap.            *)
Room(size, overlap) == IF overlap = 0 THEN size ELSE size + overlap + 1

LEMMA SplitTextsAreSized ==
  ASSUME NEW size \in Nat \ {0}, NEW overlap \in Nat, NEW text \in Text
  PROVE  split_text(text, size, overlap) \in Seq(Sized(Room(size, overlap)))
<1> DEFINE raw == recursive_split(text, size)
<1>1. raw \in Seq(Sized(size))
  BY RecursiveSplitsAreSized
<1>2. split_text(text, size, overlap) = apply_overlap(NonEmpty(Stripped(raw)), overlap)
  BY DEF split_text, Stripped
<1> HIDE DEF raw
<1>3. Stripped(raw) \in Seq(Sized(size))
  BY <1>1, StripsAreSized
<1>4. NonEmpty(Stripped(raw)) \in Seq(Sized(size))
  BY <1>3, NonEmptyAre
<1> QED
  BY <1>2, <1>4, OverlapsAreSized DEF Room

-----------------------------------------------------------------------------
(* What the chunkers give.                                                  *)
Short(n) == {c \in Chunk : Len(c.content) <= n}

TableOr(n) == {c \in Chunk : c.type = "table" \/ Len(c.content) <= n}

LEMMA ChunksAreSized ==
  ASSUME NEW n \in Nat, NEW ss \in Seq(Sized(n)), NEW type \in {"text", "code"}
  PROVE  Chunks(ss, type) \in Seq(Short(n)) /\ Chunks(ss, type) \in Seq(TableOr(n))
<1>1. ASSUME NEW i \in 1 .. Len(ss)
      PROVE  TextChunk(ss[i], type) \in Short(n) /\ TextChunk(ss[i], type) \in TableOr(n)
  <2>1. ss[i] \in Text /\ Len(ss[i]) <= n
    BY DEF Sized
  <2>2. TextChunk(ss[i], type) \in Chunk /\ TextChunk(ss[i], type).content = ss[i]
    BY <2>1 DEF TextChunk, Chunk
  <2> QED
    BY <2>1, <2>2 DEF Short, TableOr
<1> QED
  BY <1>1 DEF Chunks

(* A list made of the lists for each place.                                 *)
LEMMA FlatOver ==
  ASSUME NEW S, NEW n \in Nat, NEW f, f = [i \in 1 .. n |-> f[i]], \A i \in 1 .. n : f[i] \in Seq(S)
  PROVE  FlattenSeq(f) \in Seq(S)
<1>1. f \in Seq(Seq(S))
  OBVIOUS
<1> QED
  BY <1>1, FlatIsASequence

LEMMA RecursiveChunksFit ==
  ASSUME NEW page \in Text
  PROVE  RecursiveChunker(page) \in Seq(TableOr(Room(Size, Overlap)))
<1>1. Size \in Nat \ {0} /\ Overlap \in Nat
  BY ChunkerAssumption
<1>2. split_text(page, Size, Overlap) \in Seq(Sized(Room(Size, Overlap)))
  BY <1>1, SplitTextsAreSized
<1>3. Room(Size, Overlap) \in Nat
  BY <1>1 DEF Room
<1> QED
  BY <1>2, <1>3, ChunksAreSized DEF RecursiveChunker

-----------------------------------------------------------------------------
(* Code: blocks, cut when they are too long.                                *)
LEMMA BlocksAreTexts ==
  ASSUME NEW page \in Text PROVE Blocks(page) \in Seq(Text)
<1> DEFINE starts == DefinitionStarts(page)
           blocks == CutAfter(page, {i - 1 : i \in starts})
<1>1. Blocks(page) = IF strip(page) = <<>> THEN <<>> ELSE IF starts = {} THEN <<page>>
                     ELSE NonEmpty(Stripped(blocks))
  BY DEF Blocks, Stripped
<1>2. blocks \in Seq(Text)
  BY CutsAreTexts
<1> HIDE DEF starts, blocks
<1>3. NonEmpty(Stripped(blocks)) \in Seq(Text)
  BY <1>2, StripsAreTexts, NonEmptyAre
<1> QED
  BY <1>1, <1>3

LEMMA CodeChunksFit ==
  ASSUME NEW page \in Text PROVE CodeAwareChunker(page) \in Seq(TableOr(Size))
<1> DEFINE blocks == Blocks(page)
           cut(block) == IF Len(block) <= Size THEN <<block>> ELSE split_text(block, Size, 0)
           f == [i \in DOMAIN blocks |-> cut(blocks[i])]
<1>1. Size \in Nat \ {0}
  BY ChunkerAssumption
<1>2. blocks \in Seq(Text)
  BY BlocksAreTexts
<1>3. ASSUME NEW block \in Text PROVE cut(block) \in Seq(Sized(Size))
  <2>1. split_text(block, Size, 0) \in Seq(Sized(Size))
    BY <1>1, SplitTextsAreSized DEF Room
  <2>2. Len(block) <= Size => <<block>> \in Seq(Sized(Size))
    BY DEF Sized
  <2> QED
    BY <2>1, <2>2
<1>4. CodeAwareChunker(page) = Chunks(FlattenSeq(f), "code")
  BY DEF CodeAwareChunker
<1> HIDE DEF cut, blocks
<1>5. DOMAIN blocks = 1 .. Len(blocks) /\ Len(blocks) \in Nat
  BY <1>2
<1>6. f = [i \in 1 .. Len(blocks) |-> f[i]] /\ \A i \in 1 .. Len(blocks) : f[i] \in Seq(Sized(Size))
  BY <1>2, <1>3, <1>5
<1> HIDE DEF f
<1>7. FlattenSeq(f) \in Seq(Sized(Size))
  BY <1>5, <1>6, FlatOver
<1> QED
  BY <1>1, <1>4, <1>7, ChunksAreSized

-----------------------------------------------------------------------------
(* Tables: segments of lines.                                               *)
LEMMA LinesAreTexts ==
  ASSUME NEW s \in Text PROVE splitlines(s) \in Seq(Text)
<1> DEFINE lines == split(<<Newline>>, s)
<1>1. <<Newline>> \in Text \ {<<>>}
  <2>1. Separators[2] = <<Newline>>
    BY DEF Separators
  <2> QED
    BY <2>1, SeparatorsAre
<1>2. lines \in Seq(Text)
  BY <1>1, SplitsAreTexts
<1>3. splitlines(s) = IF Last(lines) = <<>> THEN Front(lines) ELSE lines
  BY DEF splitlines
<1> HIDE DEF lines
<1>4. Front(lines) \in Seq(Text)
  BY <1>2 DEF Front
<1> QED
  BY <1>2, <1>3, <1>4

LEMMA UnlinesIsAText ==
  ASSUME NEW lines \in Seq(Text) PROVE unlines(lines) \in Text
<1> DEFINE f == [i \in DOMAIN lines |-> Append(lines[i], Newline)]
<1>1. DOMAIN lines = 1 .. Len(lines) /\ Len(lines) \in Nat
  OBVIOUS
<1>2. \A i \in 1 .. Len(lines) : Append(lines[i], Newline) \in Seq(Int)
  BY DEF Text, Newline
<1>3. f = [i \in 1 .. Len(lines) |-> f[i]] /\ \A i \in 1 .. Len(lines) : f[i] \in Seq(Int)
  BY <1>1, <1>2
<1>4. unlines(lines) = FlattenSeq(f)
  BY DEF unlines
<1> HIDE DEF f
<1> QED
  BY <1>1, <1>3, <1>4, FlatOver DEF Text

LEMMA TableLineIsBoolean ==
  ASSUME NEW line PROVE is_table_line(line) \in BOOLEAN
BY DEF is_table_line

Segment == [table : BOOLEAN, lines : Seq(Text)]

Grouped(acc, line) ==
  IF acc # <<>> /\ Last(acc).table = is_table_line(line)
  THEN [acc EXCEPT ![Len(acc)].lines = Append(@, line)]
  ELSE Append(acc, [table |-> is_table_line(line), lines |-> <<line>>])

LEMMA GroupedAreSegments ==
  ASSUME NEW acc \in Seq(Segment), NEW line \in Text PROVE Grouped(acc, line) \in Seq(Segment)
<1>1. [table |-> is_table_line(line), lines |-> <<line>>] \in Segment
  BY TableLineIsBoolean DEF Segment
<1>2. CASE acc = <<>>
  BY <1>1, <1>2 DEF Grouped
<1>3. CASE acc # <<>>
  <2> DEFINE n == Len(acc)
             r == [acc[n] EXCEPT !.lines = Append(@, line)]
  <2>1. n \in 1 .. Len(acc)
    BY <1>3
  <2>2. acc[n] \in Segment
    BY <2>1
  <2>3. r \in Segment
    <3>1. acc[n].lines \in Seq(Text) /\ Append(acc[n].lines, line) \in Seq(Text)
      BY <2>2 DEF Segment
    <3>2. \A x \in Segment, l \in Seq(Text) : [x EXCEPT !.lines = l] \in Segment
      BY DEF Segment
    <3> QED
      BY <2>2, <3>1, <3>2
  <2>4. [acc EXCEPT ![Len(acc)].lines = Append(@, line)] = [acc EXCEPT ![n] = r]
    OBVIOUS
  <2> HIDE DEF n, r
  <2>5. [acc EXCEPT ![n] = r] \in Seq(Segment)
    BY <2>1, <2>3
  <2>6. Append(acc, [table |-> is_table_line(line), lines |-> <<line>>]) \in Seq(Segment)
    BY <1>1
  <2>7. \/ Grouped(acc, line) = [acc EXCEPT ![Len(acc)].lines = Append(@, line)]
        \/ Grouped(acc, line) = Append(acc, [table |-> is_table_line(line), lines |-> <<line>>])
    BY DEF Grouped
  <2> QED
    BY <2>4, <2>5, <2>6, <2>7
<1> QED
  BY <1>2, <1>3

GroupedLines(lines) == FoldLeft(Grouped, <<>>, lines)

LEMMA SegmentRun ==
  ASSUME NEW lines \in Seq(Text)
  PROVE  \E it \in [0 .. Len(lines) -> Seq(Segment)] :
           /\ it[0] = <<>>
           /\ \A m \in 1 .. Len(lines) : it[m] = Grouped(it[m - 1], lines[m])
           /\ GroupedLines(lines) = it[Len(lines)]
<1> DEFINE n == Len(lines)
           T == Seq(Segment)
           base == <<>>
           G == [p \in (1 .. n) \X T |-> Grouped(p[2], lines[p[1]])]
           Rec(f) == f = [s \in SUBSET (1 .. n) |->
                            IF s = {} THEN base ELSE Grouped(f[s \ {Max(s)}], lines[Max(s)])]
           iter == CHOOSE f : Rec(f)
<1>1. n \in Nat /\ base \in T /\ DOMAIN lines = 1 .. n
  OBVIOUS
<1>2. \A t \in T, m \in 1 .. n : Grouped(t, lines[m]) \in T
  BY GroupedAreSegments
<1>3. G \in [(1 .. n) \X T -> T] /\ \A m \in 1 .. n, t \in T : G[<<m, t>>] = Grouped(t, lines[m])
  BY <1>2
<1>4. GroupedLines(lines) = iter[1 .. n]
  BY <1>1 DEF GroupedLines, FoldLeft, MapThenFoldSet
<1> HIDE DEF T, G, n, base
<1>5. PICK f : IsLeftFold(f, n, T, base, G)
  BY <1>1, <1>3, FoldLeftIsDefined
<1>6. Rec(f)
  <2>1. ASSUME NEW s \in SUBSET (1 .. n), s # {}
        PROVE  f[s] = Grouped(f[s \ {Max(s)}], lines[Max(s)])
    <3>1. Max(s) \in 1 .. n
      BY <1>1, <2>1, MaxIsThere
    <3>2. s \ {Max(s)} \in SUBSET (1 .. n) /\ f[s \ {Max(s)}] \in T
      BY <1>5 DEF IsLeftFold
    <3> QED
      BY <1>3, <1>5, <2>1, <3>1, <3>2 DEF IsLeftFold
  <2>2. f = [s \in SUBSET (1 .. n) |-> f[s]]
    BY <1>5 DEF IsLeftFold
  <2> QED
    BY <1>5, <2>1, <2>2 DEF IsLeftFold
<1>7. Rec(iter)
  BY <1>6
<1> HIDE DEF iter
<1>8. ASSUME NEW s \in SUBSET (1 .. n), s # {}, iter[s \ {Max(s)}] \in T
      PROVE  iter[s] = G[<<Max(s), iter[s \ {Max(s)}]>>]
  <2>1. Max(s) \in 1 .. n
    BY <1>1, <1>8, MaxIsThere
  <2>2. iter[s] = Grouped(iter[s \ {Max(s)}], lines[Max(s)])
    BY <1>7, <1>8
  <2> QED
    BY <1>3, <1>8, <2>1, <2>2
<1>9. FoldsBy(iter, n, T, base, G)
  <2>1. iter[{}] = base
    BY <1>7
  <2> QED
    BY <1>1, <1>3, <1>8, <2>1 DEF FoldsBy
<1>10. PICK it : IsRun(it, iter, n, T, base, G)
  BY <1>9, FoldRuns
<1>11. it \in [0 .. n -> T] /\ it[0] = base /\ it[n] = iter[1 .. n]
  BY <1>10 DEF IsRun
<1>12. ASSUME NEW m \in 1 .. n PROVE it[m] = Grouped(it[m - 1], lines[m])
  <2>1. it[m - 1] \in T
    BY <1>1, <1>11
  <2> QED
    BY <1>3, <1>10, <2>1 DEF IsRun
<1> QED
  BY <1>4, <1>11, <1>12 DEF n, T, base

LEMMA SegmentsAre ==
  ASSUME NEW s \in Text PROVE segment(s) \in Seq(Segment)
<1> DEFINE lines == splitlines(s)
<1>1. lines \in Seq(Text)
  BY LinesAreTexts
<1>2. segment(s) = GroupedLines(lines)
  BY DEF segment, GroupedLines, Grouped
<1> HIDE DEF lines
<1>3. PICK it \in [0 .. Len(lines) -> Seq(Segment)] : GroupedLines(lines) = it[Len(lines)]
  <2>1. PICK it \in [0 .. Len(lines) -> Seq(Segment)] :
          /\ it[0] = <<>>
          /\ \A m \in 1 .. Len(lines) : it[m] = Grouped(it[m - 1], lines[m])
          /\ GroupedLines(lines) = it[Len(lines)]
    BY <1>1, SegmentRun
  <2> QED
    BY <2>1
<1>4. Len(lines) \in 0 .. Len(lines)
  BY <1>1
<1> QED
  BY <1>2, <1>3, <1>4

LEMMA TableChunksFit ==
  ASSUME NEW page \in Text
  PROVE  TableAwareChunker(page) \in Seq(TableOr(Room(Size, Overlap)))
<1> DEFINE segments == segment(page)
           n == Room(Size, Overlap)
           cut(piece) == LET block == strip(unlines(piece.lines)) IN
             IF block = <<>> THEN <<>>
             ELSE IF piece.table THEN <<TextChunk(block, "table")>>
             ELSE Chunks(split_text(block, Size, Overlap), "text")
           f == [i \in DOMAIN segments |-> cut(segments[i])]
<1>1. Size \in Nat \ {0} /\ Overlap \in Nat /\ n \in Nat
  BY ChunkerAssumption DEF Room
<1>2. segments \in Seq(Segment)
  BY SegmentsAre
<1>3. ASSUME NEW piece \in Segment PROVE cut(piece) \in Seq(TableOr(n))
  <2> DEFINE block == strip(unlines(piece.lines))
  <2>1. block \in Text
    <3>1. piece.lines \in Seq(Text)
      BY DEF Segment
    <3> QED
      BY <3>1, UnlinesIsAText, StripShortens
  <2> HIDE DEF block
  <2>2. <<TextChunk(block, "table")>> \in Seq(TableOr(n))
    <3>1. TextChunk(block, "table") \in Chunk /\ TextChunk(block, "table").type = "table"
      BY <2>1 DEF TextChunk, Chunk
    <3> QED
      BY <3>1 DEF TableOr
  <2>3. split_text(block, Size, Overlap) \in Seq(Sized(n))
    BY <1>1, <2>1, SplitTextsAreSized
  <2> HIDE DEF n
  <2>4. Chunks(split_text(block, Size, Overlap), "text") \in Seq(TableOr(n))
    BY <1>1, <2>3, ChunksAreSized
  <2> QED
    BY <2>2, <2>4 DEF block
<1>4. TableAwareChunker(page) = FlattenSeq(f)
  BY DEF TableAwareChunker
<1> HIDE DEF cut, segments, n
<1>5. DOMAIN segments = 1 .. Len(segments) /\ Len(segments) \in Nat
  BY <1>2
<1>6. f = [i \in 1 .. Len(segments) |-> f[i]] /\ \A i \in 1 .. Len(segments) : f[i] \in Seq(TableOr(n))
  BY <1>2, <1>3, <1>5
<1> HIDE DEF f
<1>7. FlattenSeq(f) \in Seq(TableOr(n))
  BY <1>5, <1>6, FlatOver
<1> QED
  BY <1>4, <1>7 DEF n

-----------------------------------------------------------------------------
(* Sentences, gathered up to the target.                                    *)
LEMMA SentencesAreTexts ==
  ASSUME NEW page \in Text PROVE Sentences(page) \in Seq(Text)
<1> DEFINE paragraphs == split(<<Newline, Newline>>, page)
           cuts(p) == CutAfter(p, SentenceEnds(p))
           f == [i \in DOMAIN paragraphs |-> cuts(strip(paragraphs[i]))]
<1>1. <<Newline, Newline>> \in Text \ {<<>>}
  <2>1. Separators[1] = <<Newline, Newline>>
    BY DEF Separators
  <2> QED
    BY <2>1, SeparatorsAre
<1>2. paragraphs \in Seq(Text)
  BY <1>1, SplitsAreTexts
<1>3. \A p \in Text : cuts(p) \in Seq(Text)
  BY CutsAreTexts
<1>4. Sentences(page) = NonEmpty(Stripped(FlattenSeq(f)))
  BY DEF Sentences, Stripped
<1> HIDE DEF paragraphs, cuts
<1>5. DOMAIN paragraphs = 1 .. Len(paragraphs) /\ Len(paragraphs) \in Nat
  BY <1>2
<1>6. f = [i \in 1 .. Len(paragraphs) |-> f[i]] /\ \A i \in 1 .. Len(paragraphs) : f[i] \in Seq(Text)
  BY <1>2, <1>3, <1>5, StripShortens
<1> HIDE DEF f
<1>7. FlattenSeq(f) \in Seq(Text)
  BY <1>5, <1>6, FlatOver
<1> QED
  BY <1>4, <1>7, StripsAreTexts, NonEmptyAre

(* One more text joins the others behind the separator.                     *)
LEMMA JoinAppends ==
  ASSUME NEW ss \in Seq(Text), NEW s \in Text, NEW sep \in Text
  PROVE  join(Append(ss, s), sep) = Joined(join(ss, sep), sep, s)
<1> DEFINE more == Append(ss, s)
           n == Len(ss)
<1>1. /\ more \in Seq(Text) /\ n \in Nat /\ Len(more) = n + 1
      /\ more[n + 1] = s /\ \A m \in 1 .. n : more[m] = ss[m]
  OBVIOUS
<1>2. PICK it \in [0 .. Len(ss) -> Text] :
        /\ it[0] = <<>>
        /\ \A m \in 1 .. Len(ss) : it[m] = Joined(it[m - 1], sep, ss[m])
        /\ join(ss, sep) = it[Len(ss)]
  BY JoinRun
<1> HIDE DEF more
<1>3. PICK jt \in [0 .. Len(more) -> Text] :
        /\ jt[0] = <<>>
        /\ \A m \in 1 .. Len(more) : jt[m] = Joined(jt[m - 1], sep, more[m])
        /\ join(more, sep) = jt[Len(more)]
  BY <1>1, JoinRun
<1> DEFINE U == {m \in Nat : m <= n => it[m] = jt[m]}
<1>4. 0 \in U
  BY <1>2, <1>3
<1>5. ASSUME NEW m \in Nat, m \in U PROVE m + 1 \in U
  <2>1. SUFFICES ASSUME m + 1 <= n PROVE it[m + 1] = jt[m + 1]
    OBVIOUS
  <2>2. /\ m + 1 \in 1 .. n /\ m + 1 \in 1 .. Len(more) /\ (m + 1) - 1 = m
        /\ it[m] = jt[m]
    BY <1>1, <1>5, <2>1
  <2> QED
    BY <1>1, <1>2, <1>3, <2>2
<1>6. n \in U
  <2> HIDE DEF U
  <2> QED
    BY <1>1, <1>4, <1>5, SetInduction
<1>7. n + 1 \in 1 .. Len(more) /\ (n + 1) - 1 = n
  BY <1>1
<1> QED
  BY <1>1, <1>2, <1>3, <1>6, <1>7 DEF more

LEMMA JoinOfOne ==
  ASSUME NEW s \in Text, NEW sep \in Text PROVE join(<<>>, sep) = <<>> /\ join(<<s>>, sep) = s
<1>1. <<>> \in Seq(Text) /\ Len(<<>>) = 0 /\ Append(<<>>, s) = <<s>>
  OBVIOUS
<1>2. join(<<>>, sep) = <<>>
  <2> DEFINE e == <<>>
  <2>1. e \in Seq(Text) /\ Len(e) = 0
    OBVIOUS
  <2> HIDE DEF e
  <2>2. PICK it \in [0 .. Len(e) -> Text] : it[0] = <<>> /\ join(e, sep) = it[Len(e)]
    <3>1. PICK it \in [0 .. Len(e) -> Text] :
            /\ it[0] = <<>>
            /\ \A m \in 1 .. Len(e) : it[m] = Joined(it[m - 1], sep, e[m])
            /\ join(e, sep) = it[Len(e)]
      BY <2>1, JoinRun
    <3> QED
      BY <3>1
  <2> QED
    BY <2>1, <2>2 DEF e
<1>3. join(Append(<<>>, s), sep) = Joined(join(<<>>, sep), sep, s)
  BY <1>1, JoinAppends
<1> QED
  BY <1>1, <1>2, <1>3 DEF Joined

LEMMA ThreeTogether ==
  ASSUME NEW a \in Text, NEW b \in Text, NEW c \in Text
  PROVE  /\ a \o b \o c \in Text
         /\ Len(a \o b \o c) = Len(a) + Len(b) + Len(c)
         /\ Len(a) \in Nat /\ Len(b) \in Nat /\ Len(c) \in Nat
BY ThreeAre DEF Text

(* The length a gathering counts covers the spaces a join puts in.          *)
LEMMA LengthCovers ==
  ASSUME NEW ss \in Seq(Text), ss # <<>>
  PROVE  LengthOf(ss) \in Nat /\ Len(join(ss, <<Space>>)) + 1 <= LengthOf(ss)
<1> DEFINE n == Len(ss)
           sep == <<Space>>
<1>1. n \in Nat \ {0} /\ sep \in Text /\ Len(sep) = 1 /\ \A m \in 1 .. n : ss[m] \in Text
  BY DEF Text, Space
<1> HIDE DEF sep
<1>2. PICK it \in [0 .. Len(ss) -> Text] :
        /\ it[0] = <<>>
        /\ \A m \in 1 .. Len(ss) : it[m] = Joined(it[m - 1], sep, ss[m])
        /\ join(ss, sep) = it[Len(ss)]
  BY <1>1, JoinRun
<1>3. PICK lt \in [0 .. Len(ss) -> Nat] :
        /\ lt[0] = 0
        /\ \A m \in 1 .. Len(ss) : lt[m] = lt[m - 1] + Len(ss[m]) + 1
        /\ LengthOf(ss) = lt[Len(ss)]
  BY LengthRun DEF Text
<1>4. \A s \in Text, x \in Text : Len(Joined(s, sep, x)) = IF s = <<>> THEN Len(x) ELSE Len(s) + 1 + Len(x)
  <2>1. ASSUME NEW s \in Text, NEW x \in Text, s # <<>> PROVE Len(Joined(s, sep, x)) = Len(s) + 1 + Len(x)
    <3>1. Joined(s, sep, x) = s \o sep \o x
      BY <2>1 DEF Joined
    <3>2. Len(s \o sep \o x) = Len(s) + Len(sep) + Len(x)
      BY <1>1, ThreeTogether
    <3> QED
      BY <1>1, <3>1, <3>2
  <2>2. ASSUME NEW s \in Text, NEW x \in Text, s = <<>> PROVE Len(Joined(s, sep, x)) = Len(x)
    BY <2>2 DEF Joined
  <2> QED
    BY <2>1, <2>2
<1> DEFINE U == {m \in Nat : m <= n => IF m = 0 THEN it[m] = <<>> ELSE Len(it[m]) + 1 <= lt[m]}
<1>5. 0 \in U
  BY <1>2
<1>6. ASSUME NEW m \in Nat, m \in U PROVE m + 1 \in U
  <2>1. SUFFICES ASSUME m + 1 <= n PROVE Len(it[m + 1]) + 1 <= lt[m + 1]
    OBVIOUS
  <2>2. m + 1 \in 1 .. n /\ m \in 0 .. n /\ (m + 1) - 1 = m
    BY <1>1, <2>1
  <2>3. it[m] \in Text /\ lt[m] \in Nat /\ Len(it[m]) \in Nat /\ Len(ss[m + 1]) \in Nat
    <3>1. it[m] \in Text /\ lt[m] \in Nat /\ ss[m + 1] \in Text
      BY <1>1, <1>2, <1>3, <2>2
    <3>2. \A t \in Text : Len(t) \in Nat
      BY DEF Text
    <3> QED
      BY <3>1, <3>2
  <2>4. /\ Len(it[m + 1]) = IF it[m] = <<>> THEN Len(ss[m + 1]) ELSE Len(it[m]) + 1 + Len(ss[m + 1])
        /\ lt[m + 1] = lt[m] + Len(ss[m + 1]) + 1
    <3>1. it[m + 1] = Joined(it[m], sep, ss[m + 1]) /\ lt[m + 1] = lt[m] + Len(ss[m + 1]) + 1
      BY <1>2, <1>3, <2>2
    <3>2. ss[m + 1] \in Text
      BY <1>1, <2>2
    <3> QED
      BY <1>4, <2>3, <3>1, <3>2
  <2>5. CASE it[m] = <<>>
    BY <2>3, <2>4, <2>5
  <2>6. CASE it[m] # <<>>
    <3>1. Len(it[m]) + 1 <= lt[m]
      BY <1>6, <2>1, <2>2, <2>6
    <3> QED
      <4>1. Len(it[m + 1]) = Len(it[m]) + 1 + Len(ss[m + 1])
        BY <2>4, <2>6
      <4> QED
        <5>1. lt[m + 1] = lt[m] + Len(ss[m + 1]) + 1
          BY <2>4
        <5> DEFINE p == Len(it[m + 1])
                   q == Len(it[m])
                   u == Len(ss[m + 1])
        <5>2. p = q + 1 + u /\ q + 1 <= lt[m] /\ lt[m + 1] = lt[m] + u + 1
          BY <3>1, <4>1, <5>1
        <5>3. q \in Nat /\ u \in Nat /\ lt[m] \in Nat
          BY <2>3
        <5> HIDE DEF p, q, u
        <5>4. p + 1 <= lt[m + 1]
          BY <5>2, <5>3
        <5> QED
          BY <5>4 DEF p
  <2> QED
    BY <2>5, <2>6
<1>7. n \in U
  <2> HIDE DEF U
  <2> QED
    BY <1>1, <1>5, <1>6, SetInduction
<1> QED
  BY <1>1, <1>2, <1>3, <1>7 DEF sep

(* What may be a chunk: up to the target, or one sentence.                  *)
Sentence(page) == {t \in Text : Len(t) <= Target \/ t \in ToSet(Sentences(page))}

Gathering(page) ==
  [chunks : Seq(Sentence(page)),
   current : {q \in Seq(ToSet(Sentences(page))) : q = <<>> \/ join(q, <<Space>>) \in Sentence(page)}]

Gathered(acc, s) ==
  IF acc.current # <<>> /\ LengthOf(acc.current) + Len(s) > Target
  THEN [chunks |-> Append(acc.chunks, join(acc.current, <<Space>>)), current |-> <<s>>]
  ELSE [acc EXCEPT !.current = Append(@, s)]

AllGathered(ss) == FoldLeft(Gathered, [chunks |-> <<>>, current |-> <<>>], ss)

LEMMA SentencesFit ==
  ASSUME NEW page \in Text
  PROVE  ToSet(Sentences(page)) \subseteq Text /\ ToSet(Sentences(page)) \subseteq Sentence(page)
<1> DEFINE ss == Sentences(page)
<1>1. ss \in Seq(Text)
  BY SentencesAreTexts
<1>2. \A t \in ToSet(ss) : t \in Text
  BY <1>1 DEF ToSet
<1> QED
  BY <1>2 DEF Sentence

LEMMA GatheredFit ==
  ASSUME NEW page \in Text, NEW acc \in Gathering(page), NEW s \in ToSet(Sentences(page))
  PROVE  Gathered(acc, s) \in Gathering(page)
<1> DEFINE X == ToSet(Sentences(page))
           Y == Sentence(page)
           sep == <<Space>>
           Q == {q \in Seq(X) : q = <<>> \/ join(q, sep) \in Y}
<1>1. X \subseteq Text /\ X \subseteq Y /\ s \in X
  BY SentencesFit
<1>2. sep \in Text /\ Len(sep) = 1
  BY DEF Text, Space
<1>3. Gathering(page) = [chunks : Seq(Y), current : Q]
  BY DEF Gathering
<1>4. \A t \in Text : Len(t) <= Target => t \in Y
  BY DEF Sentence
<1> HIDE DEF X, Y, sep
<1>5. acc.chunks \in Seq(Y) /\ acc.current \in Seq(X) /\ (acc.current = <<>> \/ join(acc.current, sep) \in Y)
  BY <1>3
<1>6. acc = [chunks |-> acc.chunks, current |-> acc.current]
  BY <1>3
<1>7. acc.current \in Seq(Text) /\ s \in Text
  BY <1>1, <1>5
<1>8. join(<<s>>, sep) \in Y /\ <<s>> \in Seq(X)
  BY <1>1, <1>2, <1>7, JoinOfOne
<1>9. \A a, b : a \in Seq(Y) /\ b \in Q => [chunks |-> a, current |-> b] \in Gathering(page)
  BY <1>3
<1>10. CASE acc.current # <<>> /\ LengthOf(acc.current) + Len(s) > Target
  <2>1. Gathered(acc, s) = [chunks |-> Append(acc.chunks, join(acc.current, sep)), current |-> <<s>>]
    BY <1>10 DEF Gathered, sep
  <2>2. Append(acc.chunks, join(acc.current, sep)) \in Seq(Y)
    BY <1>5, <1>10
  <2>3. <<s>> \in Q
    BY <1>8
  <2> QED
    BY <1>9, <2>1, <2>2, <2>3
<1>11. CASE ~(acc.current # <<>> /\ LengthOf(acc.current) + Len(s) > Target)
  <2> DEFINE more == Append(acc.current, s)
  <2>1. Gathered(acc, s) = [chunks |-> acc.chunks, current |-> more]
    BY <1>6, <1>11 DEF Gathered
  <2>2. more \in Seq(X)
    BY <1>1, <1>5
  <2>3. join(more, sep) = Joined(join(acc.current, sep), sep, s)
    BY <1>2, <1>7, JoinAppends
  <2> HIDE DEF more
  <2>4. ASSUME join(acc.current, sep) = <<>> PROVE join(more, sep) \in Y
    BY <1>1, <2>3, <2>4 DEF Joined
  <2>5. ASSUME join(acc.current, sep) # <<>> PROVE join(more, sep) \in Y
    <3> DEFINE t == join(acc.current, sep)
    <3>1. acc.current # <<>>
      BY <1>2, <1>7, <2>5, JoinOfOne
    <3>2. LengthOf(acc.current) \in Nat /\ Len(t) + 1 <= LengthOf(acc.current)
      BY <1>7, <3>1, LengthCovers DEF sep
    <3>3. t \in Text
      BY <1>2, <1>7, JoinsAreTexts
    <3>4. join(more, sep) = t \o sep \o s
      BY <2>3, <2>5 DEF Joined
    <3> HIDE DEF t
    <3>5. /\ t \o sep \o s \in Text /\ Len(t \o sep \o s) = Len(t) + 1 + Len(s)
          /\ Len(t) \in Nat /\ Len(s) \in Nat
      <4>1. /\ t \o sep \o s \in Text /\ Len(t) \in Nat /\ Len(s) \in Nat
            /\ Len(t \o sep \o s) = Len(t) + Len(sep) + Len(s)
        BY <1>2, <1>7, <3>3, ThreeTogether
      <4> QED
        BY <1>2, <4>1
    <3>6. Target \in Nat /\ ~(LengthOf(acc.current) + Len(s) > Target)
      BY <1>11, <3>1, ChunkerAssumption
    <3>7. Len(t) + 1 + Len(s) <= Target
      BY <3>2, <3>5, <3>6
    <3> QED
      BY <1>4, <3>4, <3>5, <3>7
  <2>6. more \in Q
    BY <2>2, <2>4, <2>5
  <2> QED
    BY <1>5, <1>9, <2>1, <2>6
<1> QED
  BY <1>10, <1>11

LEMMA GatherRun ==
  ASSUME NEW page \in Text
  PROVE  \E it \in [0 .. Len(Sentences(page)) -> Gathering(page)] :
           /\ it[0] = [chunks |-> <<>>, current |-> <<>>]
           /\ \A m \in 1 .. Len(Sentences(page)) : it[m] = Gathered(it[m - 1], Sentences(page)[m])
           /\ AllGathered(Sentences(page)) = it[Len(Sentences(page))]
<1> DEFINE n == Len(Sentences(page))
           T == Gathering(page)
           base == [chunks |-> <<>>, current |-> <<>>]
           G == [p \in (1 .. n) \X T |-> Gathered(p[2], Sentences(page)[p[1]])]
           Rec(f) == f = [s \in SUBSET (1 .. n) |->
                            IF s = {} THEN base ELSE Gathered(f[s \ {Max(s)}], Sentences(page)[Max(s)])]
           iter == CHOOSE f : Rec(f)
<1>1. n \in Nat /\ base \in T /\ DOMAIN Sentences(page) = 1 .. n
  BY SentencesAreTexts DEF Gathering
<1>2. \A t \in T, m \in 1 .. n : Gathered(t, Sentences(page)[m]) \in T
  <2>1. \A m \in 1 .. n : Sentences(page)[m] \in ToSet(Sentences(page))
    BY <1>1 DEF ToSet
  <2> QED
    BY <2>1, GatheredFit
<1>3. G \in [(1 .. n) \X T -> T] /\ \A m \in 1 .. n, t \in T : G[<<m, t>>] = Gathered(t, Sentences(page)[m])
  BY <1>2
<1>4. AllGathered(Sentences(page)) = iter[1 .. n]
  BY <1>1 DEF AllGathered, FoldLeft, MapThenFoldSet
<1> HIDE DEF T, G, n, base
<1>5. PICK f : IsLeftFold(f, n, T, base, G)
  BY <1>1, <1>3, FoldLeftIsDefined
<1>6. Rec(f)
  <2>1. ASSUME NEW s \in SUBSET (1 .. n), s # {}
        PROVE  f[s] = Gathered(f[s \ {Max(s)}], Sentences(page)[Max(s)])
    <3>1. Max(s) \in 1 .. n
      BY <1>1, <2>1, MaxIsThere
    <3>2. s \ {Max(s)} \in SUBSET (1 .. n) /\ f[s \ {Max(s)}] \in T
      BY <1>5 DEF IsLeftFold
    <3> QED
      BY <1>3, <1>5, <2>1, <3>1, <3>2 DEF IsLeftFold
  <2>2. f = [s \in SUBSET (1 .. n) |-> f[s]]
    BY <1>5 DEF IsLeftFold
  <2> QED
    BY <1>5, <2>1, <2>2 DEF IsLeftFold
<1>7. Rec(iter)
  BY <1>6
<1> HIDE DEF iter
<1>8. ASSUME NEW s \in SUBSET (1 .. n), s # {}, iter[s \ {Max(s)}] \in T
      PROVE  iter[s] = G[<<Max(s), iter[s \ {Max(s)}]>>]
  <2>1. Max(s) \in 1 .. n
    BY <1>1, <1>8, MaxIsThere
  <2>2. iter[s] = Gathered(iter[s \ {Max(s)}], Sentences(page)[Max(s)])
    BY <1>7, <1>8
  <2> QED
    BY <1>3, <1>8, <2>1, <2>2
<1>9. FoldsBy(iter, n, T, base, G)
  <2>1. iter[{}] = base
    BY <1>7
  <2> QED
    BY <1>1, <1>3, <1>8, <2>1 DEF FoldsBy
<1>10. PICK it : IsRun(it, iter, n, T, base, G)
  BY <1>9, FoldRuns
<1>11. it \in [0 .. n -> T] /\ it[0] = base /\ it[n] = iter[1 .. n]
  BY <1>10 DEF IsRun
<1>12. ASSUME NEW m \in 1 .. n PROVE it[m] = Gathered(it[m - 1], Sentences(page)[m])
  <2>1. it[m - 1] \in T
    BY <1>1, <1>11
  <2> QED
    BY <1>3, <1>10, <2>1 DEF IsRun
<1> QED
  BY <1>4, <1>11, <1>12 DEF n, T, base

LEMMA SentenceChunks ==
  ASSUME NEW page \in Text, NEW ss \in Seq(Sentence(page))
  PROVE  Chunks(ss, "text") \in Seq({c \in Chunk : c.content \in Sentence(page)})
<1>1. \A t \in Sentence(page) : TextChunk(t, "text") \in {c \in Chunk : c.content \in Sentence(page)}
  BY DEF TextChunk, Chunk, Sentence
<1>2. Chunks(ss, "text") = [i \in 1 .. Len(ss) |-> TextChunk(ss[i], "text")] /\ Len(ss) \in Nat
  BY DEF Chunks
<1> QED
  BY <1>1, <1>2

LEMMA SemanticChunksFit ==
  ASSUME NEW page \in Text
  PROVE  SemanticChunker(page) \in Seq({c \in Chunk : c.content \in Sentence(page)})
<1> DEFINE end == AllGathered(Sentences(page))
           made == IF end.current = <<>> THEN end.chunks ELSE Append(end.chunks, join(end.current, <<Space>>))
<1>1. SemanticChunker(page) = Chunks(made, "text")
  BY DEF SemanticChunker, AllGathered, Gathered, LengthOf
<1>2. end \in Gathering(page)
  <2>1. PICK it \in [0 .. Len(Sentences(page)) -> Gathering(page)] : end = it[Len(Sentences(page))]
    <3>1. PICK it \in [0 .. Len(Sentences(page)) -> Gathering(page)] :
           /\ it[0] = [chunks |-> <<>>, current |-> <<>>]
           /\ \A m \in 1 .. Len(Sentences(page)) : it[m] = Gathered(it[m - 1], Sentences(page)[m])
           /\ AllGathered(Sentences(page)) = it[Len(Sentences(page))]
      BY GatherRun
    <3> QED
      BY <3>1
  <2>2. Len(Sentences(page)) \in 0 .. Len(Sentences(page))
    BY SentencesAreTexts
  <2> QED
    BY <2>1, <2>2
<1> HIDE DEF end
<1>3. made \in Seq(Sentence(page))
  BY <1>2 DEF Gathering
<1> HIDE DEF made
<1> QED
  BY <1>1, <1>3, SentenceChunks

-----------------------------------------------------------------------------
(* Parents, and the children they are cut into.                             *)
Related == {c \in Chunk : Len(c.content) <= IF c.parent = 0 THEN ParentSize ELSE ChildSize + ChildOverlap + 1}

Child(content, n) == [TextChunk(content, "text") EXCEPT !.parent = n]

ChildrenOf(parent, n) ==
  LET children == split_text(parent, ChildSize, ChildOverlap)
  IN [i \in DOMAIN children |-> Child(children[i], n)]

Family(chunks, parent) ==
  Append(chunks, [TextChunk(parent, "text") EXCEPT !.embed = FALSE]) \o ChildrenOf(parent, Len(chunks) + 1)

Families(parents) == FoldLeft(Family, <<>>, parents)

LEMMA FamiliesGrow ==
  ASSUME NEW chunks \in Seq(Related), NEW parent \in Sized(ParentSize)
  PROVE  Family(chunks, parent) \in Seq(Related)
<1> DEFINE children == split_text(parent, ChildSize, ChildOverlap)
           n == Len(chunks) + 1
           head == [TextChunk(parent, "text") EXCEPT !.embed = FALSE]
           room == Room(ChildSize, ChildOverlap)
<1>1. /\ ChildSize \in Nat \ {0} /\ ChildOverlap \in Nat /\ ParentSize \in Nat
      /\ room \in Nat /\ room <= ChildSize + ChildOverlap + 1
  BY ChunkerAssumption DEF Room
<1>2. parent \in Text /\ Len(parent) <= ParentSize
  BY DEF Sized
<1>3. children \in Seq(Sized(room))
  BY <1>1, <1>2, SplitTextsAreSized
<1>4. head \in Related
  <2> DEFINE c == TextChunk(parent, "text")
  <2>1. c \in Chunk /\ c.content = parent /\ c.parent = 0
    BY <1>2 DEF TextChunk, Chunk
  <2> HIDE DEF c
  <2>2. [c EXCEPT !.embed = FALSE] \in Chunk
    BY <2>1 DEF Chunk
  <2>3. [c EXCEPT !.embed = FALSE].content = parent /\ [c EXCEPT !.embed = FALSE].parent = 0
    BY <2>1 DEF Chunk
  <2>4. [c EXCEPT !.embed = FALSE] \in Related
    BY <1>2, <2>2, <2>3 DEF Related
  <2> QED
    BY <2>4 DEF c
<1>5. n \in Nat \ {0}
  OBVIOUS
<1> HIDE DEF children, n, room
<1>6. ASSUME NEW t \in Sized(room) PROVE Child(t, n) \in Related
  <2> DEFINE c == TextChunk(t, "text")
             kid == [c EXCEPT !.parent = n]
  <2>1. c \in Chunk /\ c.content = t
    BY DEF TextChunk, Chunk, Sized
  <2> HIDE DEF c
  <2>2. t \in Text /\ Len(t) <= ChildSize + ChildOverlap + 1
    <3>1. t \in Text /\ Len(t) <= room /\ Len(t) \in Nat
      BY DEF Sized, Text
    <3> QED
      BY <1>1, <3>1
  <2>3. kid \in Chunk /\ kid.content = t /\ kid.parent = n
    BY <1>5, <2>1 DEF Chunk
  <2> HIDE DEF kid
  <2>4. kid \in Related
    BY <1>5, <2>2, <2>3 DEF Related
  <2> QED
    BY <2>4 DEF Child, kid, c
<1>7. [i \in DOMAIN children |-> Child(children[i], n)] \in Seq(Related)
  <2>1. DOMAIN children = 1 .. Len(children) /\ Len(children) \in Nat
    BY <1>3
  <2>2. \A i \in 1 .. Len(children) : Child(children[i], n) \in Related
    BY <1>3, <1>6
  <2> QED
    BY <2>1, <2>2
<1> HIDE DEF head
<1>8. Append(chunks, head) \in Seq(Related)
  BY <1>4
<1>9. Family(chunks, parent) = Append(chunks, head) \o [i \in DOMAIN children |-> Child(children[i], n)]
  BY DEF Family, ChildrenOf, children, n, head
<1> QED
  BY <1>7, <1>8, <1>9

LEMMA FamilyRun ==
  ASSUME NEW parents \in Seq(Sized(ParentSize))
  PROVE  \E it \in [0 .. Len(parents) -> Seq(Related)] :
           /\ it[0] = <<>>
           /\ \A m \in 1 .. Len(parents) : it[m] = Family(it[m - 1], parents[m])
           /\ Families(parents) = it[Len(parents)]
<1> DEFINE n == Len(parents)
           T == Seq(Related)
           base == <<>>
           G == [p \in (1 .. n) \X T |-> Family(p[2], parents[p[1]])]
           Rec(f) == f = [s \in SUBSET (1 .. n) |->
                            IF s = {} THEN base ELSE Family(f[s \ {Max(s)}], parents[Max(s)])]
           iter == CHOOSE f : Rec(f)
<1>1. n \in Nat /\ base \in T /\ DOMAIN parents = 1 .. n
  OBVIOUS
<1>2. \A t \in T, m \in 1 .. n : Family(t, parents[m]) \in T
  BY FamiliesGrow
<1>3. G \in [(1 .. n) \X T -> T] /\ \A m \in 1 .. n, t \in T : G[<<m, t>>] = Family(t, parents[m])
  BY <1>2
<1>4. Families(parents) = iter[1 .. n]
  BY <1>1 DEF Families, FoldLeft, MapThenFoldSet
<1> HIDE DEF T, G, n, base
<1>5. PICK f : IsLeftFold(f, n, T, base, G)
  BY <1>1, <1>3, FoldLeftIsDefined
<1>6. Rec(f)
  <2>1. ASSUME NEW s \in SUBSET (1 .. n), s # {}
        PROVE  f[s] = Family(f[s \ {Max(s)}], parents[Max(s)])
    <3>1. Max(s) \in 1 .. n
      BY <1>1, <2>1, MaxIsThere
    <3>2. s \ {Max(s)} \in SUBSET (1 .. n) /\ f[s \ {Max(s)}] \in T
      BY <1>5 DEF IsLeftFold
    <3> QED
      BY <1>3, <1>5, <2>1, <3>1, <3>2 DEF IsLeftFold
  <2>2. f = [s \in SUBSET (1 .. n) |-> f[s]]
    BY <1>5 DEF IsLeftFold
  <2> QED
    BY <1>5, <2>1, <2>2 DEF IsLeftFold
<1>7. Rec(iter)
  BY <1>6
<1> HIDE DEF iter
<1>8. ASSUME NEW s \in SUBSET (1 .. n), s # {}, iter[s \ {Max(s)}] \in T
      PROVE  iter[s] = G[<<Max(s), iter[s \ {Max(s)}]>>]
  <2>1. Max(s) \in 1 .. n
    BY <1>1, <1>8, MaxIsThere
  <2>2. iter[s] = Family(iter[s \ {Max(s)}], parents[Max(s)])
    BY <1>7, <1>8
  <2> QED
    BY <1>3, <1>8, <2>1, <2>2
<1>9. FoldsBy(iter, n, T, base, G)
  <2>1. iter[{}] = base
    BY <1>7
  <2> QED
    BY <1>1, <1>3, <1>8, <2>1 DEF FoldsBy
<1>10. PICK it : IsRun(it, iter, n, T, base, G)
  BY <1>9, FoldRuns
<1>11. it \in [0 .. n -> T] /\ it[0] = base /\ it[n] = iter[1 .. n]
  BY <1>10 DEF IsRun
<1>12. ASSUME NEW m \in 1 .. n PROVE it[m] = Family(it[m - 1], parents[m])
  <2>1. it[m - 1] \in T
    BY <1>1, <1>11
  <2> QED
    BY <1>3, <1>10, <2>1 DEF IsRun
<1> QED
  BY <1>4, <1>11, <1>12 DEF n, T, base

LEMMA ParentChunksFit ==
  ASSUME NEW page \in Text PROVE ParentChildChunker(page) \in Seq(Related)
<1> DEFINE parents == split_text(page, ParentSize, 0)
<1>1. parents \in Seq(Sized(ParentSize))
  BY ChunkerAssumption, SplitTextsAreSized DEF Room
<1>2. ParentChildChunker(page) = Families(parents)
  BY DEF ParentChildChunker, Families, Family, ChildrenOf, Child
<1> HIDE DEF parents
<1>3. PICK it \in [0 .. Len(parents) -> Seq(Related)] : Families(parents) = it[Len(parents)]
  <2>1. PICK it \in [0 .. Len(parents) -> Seq(Related)] :
          /\ it[0] = <<>>
          /\ \A m \in 1 .. Len(parents) : it[m] = Family(it[m - 1], parents[m])
          /\ Families(parents) = it[Len(parents)]
    BY <1>1, FamilyRun
  <2> QED
    BY <2>1
<1>4. Len(parents) \in 0 .. Len(parents)
  BY <1>1
<1> QED
  BY <1>2, <1>3, <1>4

-----------------------------------------------------------------------------
(* What a strategy promises of a chunk of a page.                           *)
OverlapOf(strategy) == IF strategy \in {"parent_child", "semantic", "code_aware"} THEN 0 ELSE Overlap

Fits(strategy, page, c) ==
  CASE strategy = "semantic" -> c.content \in Sentence(page)
    [] strategy = "parent_child" ->
         Len(c.content) <= IF c.parent = 0 THEN ParentSize ELSE ChildSize + ChildOverlap + 1
    [] OTHER -> c.type = "table" \/ Len(c.content) <= Room(Size, OverlapOf(strategy))

Fitting(strategy, page) == {c \in Chunk : Fits(strategy, page, c)}

LEMMA ChunksFit ==
  ASSUME NEW strategy, NEW page \in Text
  PROVE  chunk(strategy, page) \in Seq(Fitting(strategy, page))
<1>1. CASE strategy = "parent_child"
  <2>1. chunk(strategy, page) = ParentChildChunker(page)
    BY <1>1 DEF chunk
  <2>2. Related = Fitting(strategy, page)
    BY <1>1 DEF Related, Fitting, Fits
  <2> QED
    BY <2>1, <2>2, ParentChunksFit
<1>2. CASE strategy = "semantic"
  <2>1. chunk(strategy, page) = SemanticChunker(page)
    BY <1>2 DEF chunk
  <2>2. {c \in Chunk : c.content \in Sentence(page)} = Fitting(strategy, page)
    BY <1>2 DEF Fitting, Fits
  <2> QED
    BY <2>1, <2>2, SemanticChunksFit
<1>3. ASSUME strategy \notin {"parent_child", "semantic"}
      PROVE  Fitting(strategy, page) = TableOr(Room(Size, OverlapOf(strategy)))
  BY <1>3 DEF Fitting, Fits, TableOr
<1>4. CASE strategy = "table_aware"
  <2>1. chunk(strategy, page) = TableAwareChunker(page) /\ OverlapOf(strategy) = Overlap
    BY <1>4 DEF chunk, OverlapOf
  <2> QED
    BY <1>3, <1>4, <2>1, TableChunksFit
<1>5. CASE strategy = "code_aware"
  <2>1. chunk(strategy, page) = CodeAwareChunker(page) /\ Room(Size, OverlapOf(strategy)) = Size
    BY <1>5 DEF chunk, OverlapOf, Room
  <2> QED
    BY <1>3, <1>5, <2>1, CodeChunksFit
<1>6. CASE strategy \notin {"parent_child", "semantic", "table_aware", "code_aware"}
  <2>1. chunk(strategy, page) = RecursiveChunker(page) /\ OverlapOf(strategy) = Overlap
    BY <1>6 DEF chunk, OverlapOf
  <2> QED
    BY <1>3, <1>6, <2>1, RecursiveChunksFit
<1> QED
  BY <1>1, <1>2, <1>4, <1>5, <1>6

(* Rows: the chunks of the pages, in order, each with its page.             *)
FittingRow(strategy, text) ==
  {r \in [content : Text, type : {"text", "table", "code"}, embed : BOOLEAN, page : DOMAIN text,
          parent : Nat, vec : {None}, version : {None}] : Fits(strategy, text[r.page], r)}

PageRows(cut, page, n) ==
  [i \in DOMAIN cut |-> LET parent == cut[i].parent IN
     Row(cut[i], page, IF parent = 0 THEN 0 ELSE parent + n, None, None)]

RowsStep(strategy, text, made, n) == made \o PageRows(chunk(strategy, text[n]), n, Len(made))

PagesRows(strategy, text) ==
  FoldLeft(LAMBDA made, n : RowsStep(strategy, text, made, n), <<>>, Places(text))

LEMMA RowFits ==
  ASSUME NEW strategy, NEW text \in Seq(Text), NEW page \in DOMAIN text, NEW n \in Nat,
         NEW c \in Fitting(strategy, text[page])
  PROVE  LET parent == c.parent IN
         Row(c, page, IF parent = 0 THEN 0 ELSE parent + n, None, None) \in FittingRow(strategy, text)
<1> DEFINE p == IF c.parent = 0 THEN 0 ELSE c.parent + n
           r == Row(c, page, p, None, None)
<1>1. c \in Chunk /\ Fits(strategy, text[page], c)
  BY DEF Fitting
<1>2. p \in Nat /\ (p = 0 <=> c.parent = 0)
  BY <1>1 DEF Chunk
<1> HIDE DEF p
<1>3. r = [content |-> c.content, type |-> c.type, embed |-> c.embed, page |-> page,
           parent |-> p, vec |-> None, version |-> None]
  BY DEF Row
<1>4. r \in [content : Text, type : {"text", "table", "code"}, embed : BOOLEAN, page : DOMAIN text,
             parent : Nat, vec : {None}, version : {None}]
  BY <1>1, <1>2, <1>3 DEF Chunk
<1>5. r.page = page /\ r.content = c.content /\ r.type = c.type /\ (r.parent = 0 <=> c.parent = 0)
  BY <1>2, <1>3
<1> HIDE DEF r
<1>6. Fits(strategy, text[page], r)
  BY <1>1, <1>5 DEF Fits
<1>7. r \in FittingRow(strategy, text)
  BY <1>4, <1>5, <1>6 DEF FittingRow
<1> QED
  BY <1>7 DEF r, p

LEMMA PageRowsFit ==
  ASSUME NEW strategy, NEW text \in Seq(Text), NEW page \in DOMAIN text, NEW n \in Nat,
         NEW cut \in Seq(Fitting(strategy, text[page]))
  PROVE  PageRows(cut, page, n) \in Seq(FittingRow(strategy, text))
<1> DEFINE row(c) == LET parent == c.parent IN
                     Row(c, page, IF parent = 0 THEN 0 ELSE parent + n, None, None)
<1>1. \A c \in Fitting(strategy, text[page]) : row(c) \in FittingRow(strategy, text)
  BY RowFits
<1>2. PageRows(cut, page, n) = [i \in DOMAIN cut |-> row(cut[i])]
  BY DEF PageRows
<1> HIDE DEF row
<1>3. DOMAIN cut = 1 .. Len(cut) /\ Len(cut) \in Nat
  OBVIOUS
<1>4. \A i \in 1 .. Len(cut) : row(cut[i]) \in FittingRow(strategy, text)
  BY <1>1
<1> QED
  BY <1>2, <1>3, <1>4

LEMMA RowsRun ==
  ASSUME NEW strategy, NEW text \in Seq(Text)
  PROVE  \E it \in [0 .. Len(text) -> Seq(FittingRow(strategy, text))] :
           /\ it[0] = <<>>
           /\ \A m \in 1 .. Len(text) : it[m] = RowsStep(strategy, text, it[m - 1], Places(text)[m])
           /\ PagesRows(strategy, text) = it[Len(text)]
<1> DEFINE n == Len(text)
           T == Seq(FittingRow(strategy, text))
           base == <<>>
           G == [p \in (1 .. n) \X T |-> RowsStep(strategy, text, p[2], Places(text)[p[1]])]
           Rec(f) == f = [s \in SUBSET (1 .. n) |->
                            IF s = {} THEN base
                            ELSE RowsStep(strategy, text, f[s \ {Max(s)}], Places(text)[Max(s)])]
           iter == CHOOSE f : Rec(f)
<1>1. n \in Nat /\ base \in T /\ DOMAIN Places(text) = 1 .. n
  BY DEF Places
<1>2. \A t \in T, m \in 1 .. n : RowsStep(strategy, text, t, Places(text)[m]) \in T
  <2>1. ASSUME NEW t \in T, NEW m \in 1 .. n PROVE RowsStep(strategy, text, t, Places(text)[m]) \in T
    <3>1. Places(text)[m] = m /\ m \in DOMAIN text /\ text[m] \in Text /\ Len(t) \in Nat
      BY DEF Places
    <3>2. PageRows(chunk(strategy, text[m]), m, Len(t)) \in Seq(FittingRow(strategy, text))
      BY <3>1, ChunksFit, PageRowsFit
    <3> QED
      BY <3>1, <3>2 DEF RowsStep
  <2> QED
    BY <2>1
<1>3. /\ G \in [(1 .. n) \X T -> T]
      /\ \A m \in 1 .. n, t \in T : G[<<m, t>>] = RowsStep(strategy, text, t, Places(text)[m])
  BY <1>2
<1>4. PagesRows(strategy, text) = iter[1 .. n]
  BY <1>1 DEF PagesRows, FoldLeft, MapThenFoldSet
<1> HIDE DEF T, G, n, base
<1>5. PICK f : IsLeftFold(f, n, T, base, G)
  BY <1>1, <1>3, FoldLeftIsDefined
<1>6. Rec(f)
  <2>1. ASSUME NEW s \in SUBSET (1 .. n), s # {}
        PROVE  f[s] = RowsStep(strategy, text, f[s \ {Max(s)}], Places(text)[Max(s)])
    <3>1. Max(s) \in 1 .. n
      BY <1>1, <2>1, MaxIsThere
    <3>2. s \ {Max(s)} \in SUBSET (1 .. n) /\ f[s \ {Max(s)}] \in T
      BY <1>5 DEF IsLeftFold
    <3> QED
      BY <1>3, <1>5, <2>1, <3>1, <3>2 DEF IsLeftFold
  <2>2. f = [s \in SUBSET (1 .. n) |-> f[s]]
    BY <1>5 DEF IsLeftFold
  <2> QED
    BY <1>5, <2>1, <2>2 DEF IsLeftFold
<1>7. Rec(iter)
  BY <1>6
<1> HIDE DEF iter
<1>8. ASSUME NEW s \in SUBSET (1 .. n), s # {}, iter[s \ {Max(s)}] \in T
      PROVE  iter[s] = G[<<Max(s), iter[s \ {Max(s)}]>>]
  <2>1. Max(s) \in 1 .. n
    BY <1>1, <1>8, MaxIsThere
  <2>2. iter[s] = RowsStep(strategy, text, iter[s \ {Max(s)}], Places(text)[Max(s)])
    BY <1>7, <1>8
  <2> QED
    BY <1>3, <1>8, <2>1, <2>2
<1>9. FoldsBy(iter, n, T, base, G)
  <2>1. iter[{}] = base
    BY <1>7
  <2> QED
    BY <1>1, <1>3, <1>8, <2>1 DEF FoldsBy
<1>10. PICK it : IsRun(it, iter, n, T, base, G)
  BY <1>9, FoldRuns
<1>11. it \in [0 .. n -> T] /\ it[0] = base /\ it[n] = iter[1 .. n]
  BY <1>10 DEF IsRun
<1>12. ASSUME NEW m \in 1 .. n PROVE it[m] = RowsStep(strategy, text, it[m - 1], Places(text)[m])
  <2>1. it[m - 1] \in T
    BY <1>1, <1>11
  <2> QED
    BY <1>3, <1>10, <2>1 DEF IsRun
<1> QED
  BY <1>4, <1>11, <1>12 DEF n, T, base

-----------------------------------------------------------------------------
(* Words: what a list of texts says is kept by all that the chunkers do.    *)
Letter == [c \in Int |-> IF Word(c) THEN <<c>> ELSE <<>>]

Spoken == [t \in Text |-> Words(t)]

Says(ss) == Mapped(ss, Spoken)

LEMMA LettersAre == Letter \in [Int -> Seq(Int)]
BY DEF Letter

LEMMA WordsAre ==
  ASSUME NEW s \in Text PROVE Words(s) = Mapped(s, Letter) /\ Words(s) \in Text
<1>1. [i \in DOMAIN s |-> IF Word(s[i]) THEN <<s[i]>> ELSE <<>>] = Each(s, Letter)
  <2>1. \A i \in DOMAIN s : s[i] \in Int
    BY DEF Text
  <2> QED
    BY <2>1 DEF Each, Letter
<1>2. Words(s) = Mapped(s, Letter)
  BY <1>1 DEF Words, Where, Mapped
<1>3. Mapped(s, Letter) \in Seq(Int)
  BY LettersAre, MapIsASequence DEF Text
<1> QED
  BY <1>2, <1>3 DEF Text

LEMMA SpokenAre == Spoken \in [Text -> Seq(Int)]
BY WordsAre DEF Spoken, Text

LEMMA WordsTogether ==
  ASSUME NEW s \in Text, NEW t \in Text PROVE s \o t \in Text /\ Words(s \o t) = Words(s) \o Words(t)
<1>1. s \o t \in Text
  BY DEF Text
<1>2. Mapped(s \o t, Letter) = Mapped(s, Letter) \o Mapped(t, Letter)
  BY ZenonT(60), LettersAre, MapTogether DEF Text
<1> QED
  BY <1>1, <1>2, WordsAre

LEMMA WordsOfOne ==
  ASSUME NEW c \in Int PROVE <<c>> \in Text /\ Words(<<c>>) = Letter[c]
<1>1. <<c>> \in Text
  BY DEF Text
<1> QED
  BY <1>1, WordsAre, LettersAre, MapOfOne

LEMMA WordsOfNone == <<>> \in Text /\ Words(<<>>) = <<>>
<1>1. <<>> \in Text
  BY DEF Text
<1> QED
  BY <1>1, WordsAre, MapOfNone

(* Text without a word.                                                     *)
LEMMA NoWords ==
  ASSUME NEW s \in Text, \A i \in DOMAIN s : ~Word(s[i]) PROVE Words(s) = <<>>
<1>1. \A i \in DOMAIN s : Letter[s[i]] = <<>>
  BY DEF Letter, Text
<1>2. Mapped(s, Letter) = <<>>
  BY <1>1, LettersAre, MapOfEmpty DEF Text
<1> QED
  BY <1>2, WordsAre

LEMMA SaysTogether ==
  ASSUME NEW ss \in Seq(Text), NEW tt \in Seq(Text)
  PROVE  Says(ss) \in Text /\ Says(ss \o tt) = Says(ss) \o Says(tt)
<1>1. Says(ss \o tt) = Says(ss) \o Says(tt)
  BY SpokenAre, MapTogether DEF Says
<1>2. Says(ss) \in Seq(Int)
  BY SpokenAre, MapIsASequence DEF Says
<1> QED
  BY <1>1, <1>2 DEF Text

LEMMA SaysAppends ==
  ASSUME NEW ss \in Seq(Text), NEW t \in Text PROVE Says(Append(ss, t)) = Says(ss) \o Words(t)
<1>1. Mapped(Append(ss, t), Spoken) = Mapped(ss, Spoken) \o Spoken[t]
  BY SpokenAre, MapAppends
<1> QED
  BY <1>1 DEF Says, Spoken

LEMMA SaysOfFew == Says(<<>>) = <<>> /\ \A t \in Text : Says(<<t>>) = Words(t)
<1>1. Says(<<>>) = <<>>
  BY MapOfNone DEF Says
<1>2. ASSUME NEW t \in Text PROVE Says(<<t>>) = Words(t)
  <2>1. Mapped(<<t>>, Spoken) = Spoken[t]
    BY SpokenAre, MapOfOne
  <2> QED
    BY <2>1 DEF Says, Spoken
<1> QED
  BY <1>1, <1>2

LEMMA SaysAgree ==
  ASSUME NEW ss \in Seq(Text), NEW tt \in Seq(Text), Len(ss) = Len(tt),
         \A i \in 1 .. Len(ss) : Words(ss[i]) = Words(tt[i])
  PROVE  Says(ss) = Says(tt)
<1>1. DOMAIN ss = 1 .. Len(ss) /\ DOMAIN tt = 1 .. Len(ss)
  OBVIOUS
<1>2. \A i \in 1 .. Len(ss) : ss[i] \in Text /\ tt[i] \in Text
  BY <1>1
<1>3. \A i \in DOMAIN ss : Spoken[ss[i]] = Spoken[tt[i]]
  BY <1>1, <1>2 DEF Spoken
<1> QED
  BY <1>1, <1>3, MapAgrees DEF Says

LEMMA WordsOfFlat ==
  ASSUME NEW ss \in Seq(Text) PROVE FlattenSeq(ss) \in Text /\ Words(FlattenSeq(ss)) = Says(ss)
<1> DEFINE same == [t \in Text |-> t]
<1>1. same \in [Seq(Int) -> Seq(Int)] /\ ss \in Seq(Seq(Int)) /\ \A t \in Seq(Int) : same[t] = t
  BY DEF Text
<1> HIDE DEF same
<1>2. FlattenSeq(ss) = Mapped(ss, same) /\ FlattenSeq(ss) \in Seq(Int)
  <2>1. FlattenSeq(ss) = Mapped(ss, same)
    BY <1>1, FlatIsMapped
  <2> QED
    BY <1>1, <2>1, FlatIsASequence
<1>3. \A t \in Seq(Int) : Spoken[t] = Mapped(same[t], Letter)
  BY <1>1, WordsAre DEF Spoken, Text
<1>4. Spoken \in [Seq(Int) -> Seq(Int)]
  BY SpokenAre DEF Text
<1>5. Mapped(Mapped(ss, same), Letter) = Mapped(ss, Spoken)
  <2>1. Composes(Spoken, same, Letter, Seq(Int), Int, Int)
    BY <1>1, <1>3, <1>4, LettersAre DEF Composes
  <2> QED
    BY <1>1, <2>1, MapOfMap
<1> QED
  BY <1>2, <1>5, WordsAre DEF Says, Text

(* Lists of lists of texts, each of which says what a text says.            *)
LEMMA SaysOfFlat ==
  ASSUME NEW sss \in Seq(Seq(Text)), NEW tt \in Seq(Text), Len(sss) = Len(tt),
         \A i \in 1 .. Len(tt) : Says(sss[i]) = Words(tt[i])
  PROVE  Says(FlattenSeq(sss)) = Says(tt)
<1> DEFINE same == [ss \in Seq(Text) |-> ss]
           saying == [ss \in Seq(Text) |-> Says(ss)]
<1>1. same \in [Seq(Text) -> Seq(Text)] /\ \A ss \in Seq(Text) : same[ss] = ss
  OBVIOUS
<1>2. saying \in [Seq(Text) -> Seq(Int)] /\ \A ss \in Seq(Text) : saying[ss] = Mapped(same[ss], Spoken)
  BY <1>1, SaysTogether DEF Says, Text
<1>3. \A i \in 1 .. Len(tt) : saying[sss[i]] = Spoken[tt[i]]
  BY DEF Spoken
<1>4. DOMAIN sss = 1 .. Len(tt) /\ DOMAIN tt = 1 .. Len(tt)
  OBVIOUS
<1> HIDE DEF same, saying
<1>5. FlattenSeq(sss) = Mapped(sss, same)
  BY <1>1, FlatIsMapped
<1>6. Mapped(Mapped(sss, same), Spoken) = Mapped(sss, saying)
  <2>1. Composes(saying, same, Spoken, Seq(Text), Text, Int)
    BY <1>1, <1>2, SpokenAre DEF Composes
  <2> QED
    BY <2>1, MapOfMap
<1>7. Mapped(sss, saying) = Mapped(tt, Spoken)
  <2>1. DOMAIN sss = DOMAIN tt /\ \A i \in DOMAIN sss : saying[sss[i]] = Spoken[tt[i]]
    BY <1>3, <1>4
  <2>2. Each(sss, saying) = Each(tt, Spoken)
    BY <2>1 DEF Each
  <2> QED
    BY <2>2 DEF Mapped
<1> QED
  BY <1>5, <1>6, <1>7 DEF Says

LEMMA NonEmptySays ==
  ASSUME NEW ss \in Seq(Text) PROVE Says(NonEmpty(ss)) = Says(ss)
<1> DEFINE kept == [t \in Text |-> IF t # <<>> THEN <<t>> ELSE <<>>]
<1>1. kept \in [Text -> Seq(Text)]
  OBVIOUS
<1>2. NonEmpty(ss) = Mapped(ss, kept)
  <2>1. [i \in DOMAIN ss |-> IF ss[i] # <<>> THEN <<ss[i]>> ELSE <<>>] = Each(ss, kept)
    BY DEF Each
  <2> QED
    BY <2>1 DEF NonEmpty, Where, Mapped
<1>3. \A t \in Text : Spoken[t] = Mapped(kept[t], Spoken)
  <2>1. ASSUME NEW t \in Text PROVE Spoken[t] = Mapped(kept[t], Spoken)
    <3>1. CASE t = <<>>
      <4>1. kept[t] = <<>> /\ Spoken[t] = <<>>
        BY <3>1, WordsOfNone DEF Spoken
      <4> QED
        BY <4>1, MapOfNone
    <3>2. CASE t # <<>>
      <4>1. kept[t] = <<t>>
        BY <3>2
      <4> QED
        BY ZenonT(60), <4>1, SpokenAre, MapOfOne
    <3> QED
      BY <3>1, <3>2
  <2> QED
    BY <2>1
<1> HIDE DEF kept
<1>4. Mapped(Mapped(ss, kept), Spoken) = Mapped(ss, Spoken)
  <2>1. Composes(Spoken, kept, Spoken, Text, Text, Int)
    BY <1>1, <1>3, SpokenAre DEF Composes
  <2> QED
    BY <2>1, MapOfMap
<1> QED
  BY <1>2, <1>4 DEF Says

(* A stretch of a text, cut in two.                                         *)
LEMMA CutInTwo ==
  ASSUME NEW s \in Text, NEW a \in 1 .. Len(s) + 1, NEW b \in 0 .. Len(s), NEW i \in a - 1 .. b
  PROVE  /\ SubSeq(s, a, i) \in Text /\ SubSeq(s, i + 1, b) \in Text /\ SubSeq(s, a, b) \in Text
         /\ SubSeq(s, a, b) = SubSeq(s, a, i) \o SubSeq(s, i + 1, b)
BY ZenonT(60), CutsInTwo DEF Text

LEMMA WordsCut ==
  ASSUME NEW s \in Text, NEW a \in 1 .. Len(s) + 1, NEW b \in 0 .. Len(s), NEW i \in a - 1 .. b
  PROVE  Words(SubSeq(s, a, b)) = Words(SubSeq(s, a, i)) \o Words(SubSeq(s, i + 1, b))
BY CutInTwo, WordsTogether

LEMMA WholeText ==
  ASSUME NEW s \in Text
  PROVE  SubSeq(s, 1, Len(s)) = s /\ SubSeq(s, 1, 0) = <<>> /\ Len(s) \in Nat
BY DEF Text

LEMMA StripSays ==
  ASSUME NEW s \in Text PROVE Words(strip(s)) = Words(s)
<1> DEFINE solid == {i \in DOMAIN s : ~Blank(s[i])}
           a == Min(solid)
           b == Max(solid)
           n == Len(s)
<1>1. n \in Nat /\ DOMAIN s = 1 .. n /\ \A i \in DOMAIN s : Blank(s[i]) => ~Word(s[i])
  BY DEF Text, Blank, Word, Space, Newline, Tab, Definition
<1>2. CASE solid = {}
  <2>1. strip(s) = <<>>
    BY <1>2 DEF strip
  <2>2. Words(s) = <<>>
    BY <1>1, <1>2, NoWords
  <2> QED
    BY <2>1, <2>2, WordsOfNone
<1>3. CASE solid # {}
  <2>1. strip(s) = SubSeq(s, a, b)
    BY <1>3 DEF strip
  <2>2. a \in solid /\ \A y \in solid : a <= y
    <3>1. solid \in SUBSET Nat
      BY <1>1
    <3> QED
      BY <1>3, <3>1, MinIsThere
  <2>3. b \in solid /\ \A y \in solid : y <= b
    <3>1. solid \in SUBSET (1 .. n)
      BY <1>1
    <3> HIDE DEF solid
    <3> QED
      BY <1>1, <1>3, <3>1, MaxIsThere
  <2>4. a \in 1 .. n /\ b \in 1 .. n /\ a <= b
    BY <1>1, <2>2, <2>3
  <2>5. \A i \in 1 .. n : i < a \/ i > b => ~Word(s[i])
    <3>1. ASSUME NEW i \in 1 .. n, i < a \/ i > b PROVE ~Word(s[i])
      <4>1. i \notin solid
        <5>1. i \in Int /\ a \in Int /\ b \in Int
          BY <2>4
        <5>2. i \in solid => a <= i /\ i <= b
          BY <2>2, <2>3
        <5> HIDE DEF solid, a, b
        <5> QED
          BY <3>1, <5>1, <5>2
      <4> QED
        BY <1>1, <4>1
    <3> QED
      BY <3>1
  <2> HIDE DEF solid, a, b, n
  <2>6. Words(s) = Words(SubSeq(s, 1, a - 1)) \o Words(SubSeq(s, a, n))
    <3>1. 1 \in 1 .. n + 1 /\ n \in 0 .. n /\ a - 1 \in 1 - 1 .. n /\ (a - 1) + 1 = a
      BY <1>1, <2>4
    <3>2. Words(SubSeq(s, 1, n)) = Words(SubSeq(s, 1, a - 1)) \o Words(SubSeq(s, (a - 1) + 1, n))
      BY <3>1, WordsCut DEF n
    <3> QED
      BY <3>1, <3>2, WholeText DEF n
  <2>7. Words(SubSeq(s, a, n)) = Words(SubSeq(s, a, b)) \o Words(SubSeq(s, b + 1, n))
    <3>1. a \in 1 .. n + 1 /\ n \in 0 .. n /\ b \in a - 1 .. n
      BY <1>1, <2>4
    <3> QED
      BY <3>1, WordsCut DEF n
  <2>8. Words(SubSeq(s, 1, a - 1)) = <<>>
    <3>1. SubSeq(s, 1, a - 1) \in Text /\ \A i \in DOMAIN SubSeq(s, 1, a - 1) : ~Word(SubSeq(s, 1, a - 1)[i])
      BY <1>1, <2>4, <2>5 DEF Text
    <3> QED
      BY <3>1, NoWords
  <2>9. Words(SubSeq(s, b + 1, n)) = <<>>
    <3>1. SubSeq(s, b + 1, n) \in Seq(Int) /\ Len(SubSeq(s, b + 1, n)) = n - b
      <4>1. b + 1 \in 1 .. n + 1 /\ n \in Nat /\ s \in Seq(Int) /\ n = Len(s) /\ (n + 1) - (b + 1) = n - b
        BY <1>1, <2>4 DEF Text, n
      <4> QED
        BY <4>1
    <3>4. \A i \in 1 .. n - b : b + i \in 1 .. n /\ b + i > b /\ (b + 1) + i - 1 = b + i
      BY <1>1, <2>4
    <3>5. \A i \in 1 .. n - b : SubSeq(s, b + 1, n)[i] = s[(b + 1) + i - 1]
      <4> DEFINE c == b + 1
      <4>1. c \in 1 .. n + 1 /\ n + 1 - c = n - b /\ n \in Nat /\ s \in Seq(Int) /\ n = Len(s)
        <5>1. n \in Nat /\ s \in Seq(Int) /\ n = Len(s)
          BY <1>1 DEF Text, n
        <5> QED
          BY <2>4, <5>1
      <4> HIDE DEF c
      <4>2. \A i \in 1 .. n + 1 - c : SubSeq(s, c, n)[i] = s[c + i - 1]
        BY SMTT(40), <4>1
      <4> QED
        BY <4>1, <4>2 DEF c
    <3>2. \A i \in 1 .. n - b : SubSeq(s, b + 1, n)[i] = s[b + i] /\ b + i \in 1 .. n /\ b + i > b
      BY <3>4, <3>5
    <3>3. \A i \in DOMAIN SubSeq(s, b + 1, n) : ~Word(SubSeq(s, b + 1, n)[i])
      BY <2>5, <3>1, <3>2
    <3> QED
      BY <3>1, <3>3, NoWords DEF Text
  <2>10. Words(SubSeq(s, a, b)) \in Seq(Int)
    <3>1. SubSeq(s, a, b) \in Text
      BY <2>1, StripShortens
    <3> QED
      BY <3>1, WordsAre DEF Text
  <2>11. Words(SubSeq(s, a, b)) \o <<>> = Words(SubSeq(s, a, b)) /\ <<>> \o Words(SubSeq(s, a, b)) = Words(SubSeq(s, a, b))
    BY <2>10
  <2> QED
    BY <2>1, <2>6, <2>7, <2>8, <2>9, <2>11
<1> QED
  BY <1>2, <1>3

(* The function that split is.                                              *)
IsSplitting(cut, sep) ==
  \A s \in Text : cut[s] \in Seq(Text) /\ cut[s] = SplitStep(cut, sep, s) /\ split(sep, s) = cut[s]

LEMMA SplitUnfolds ==
  ASSUME NEW sep \in Text \ {<<>>} PROVE \E cut : IsSplitting(cut, sep)
<1> DEFINE Rec(f) == f = [s \in Text |-> SplitStep(f, sep, s)]
           cut == CHOOSE f : Rec(f)
<1>1. PICK f \in [Text -> Seq(Text)] : \A s \in Text : f[s] = SplitStep(f, sep, s)
  BY SplitIsDefined
<1>2. Rec(f)
  BY <1>1
<1>3. \A s \in Text : split(sep, s) = cut[s]
  BY DEF split, SplitStep
<1>4. Rec(cut)
  BY <1>2
<1> HIDE DEF cut
<1>5. \A s \in Text : cut[s] \in Seq(Text)
  BY <1>3, SplitsAreTexts
<1>6. \A s \in Text : cut[s] = SplitStep(cut, sep, s)
  BY <1>4
<1> QED
  BY <1>3, <1>5, <1>6 DEF IsSplitting

(* What comes before a separator, the separator and the rest.               *)
LEMMA SeparatorCuts ==
  ASSUME NEW sep \in Text \ {<<>>}, Words(sep) = <<>>, NEW s \in Text, At(sep, s) # {}
  PROVE  LET i == Min(At(sep, s))  rest == SubSeq(s, i + Len(sep), Len(s)) IN
         Words(s) = Words(SubSeq(s, 1, i - 1)) \o Words(rest)
<1> DEFINE i == Min(At(sep, s))
           n == Len(s)
           m == Len(sep)
<1>1. At(sep, s) \in SUBSET Nat
  BY DEF At, Text
<1>2. i \in At(sep, s)
  BY <1>1, MinIsThere
<1>3. m \in Nat \ {0} /\ n \in Nat /\ i \in 1 .. n - m + 1 /\ SubSeq(s, i, i + m - 1) = sep
  <2>1. m \in Nat \ {0} /\ n \in Nat
    BY DEF Text
  <2>2. i \in 1 .. n - m + 1 /\ SubSeq(s, i, i + m - 1) = sep
    <3> HIDE DEF i
    <3> QED
      BY <1>2 DEF At
  <2> QED
    BY <2>1, <2>2
<1> HIDE DEF i
<1>4. /\ 1 \in 1 .. n + 1 /\ n \in 0 .. n /\ i - 1 \in 1 - 1 .. n /\ (i - 1) + 1 = i
      /\ i \in 1 .. n + 1 /\ i + m - 1 \in i - 1 .. n /\ (i + m - 1) + 1 = i + m
      /\ i - 1 \in 0 .. n
  BY <1>3
<1>5. Words(SubSeq(s, 1, n)) = Words(SubSeq(s, 1, i - 1)) \o Words(SubSeq(s, (i - 1) + 1, n))
  BY <1>4, WordsCut
<1>6. Words(SubSeq(s, i, n)) = Words(SubSeq(s, i, i + m - 1)) \o Words(SubSeq(s, (i + m - 1) + 1, n))
  BY <1>4, WordsCut
<1>7. Words(SubSeq(s, i + m, n)) \in Seq(Int)
  <2>1. SubSeq(s, i + m, n) \in Text
    BY <1>2, RestIsShorter DEF i
  <2> QED
    BY <2>1, WordsAre DEF Text
<1> HIDE DEF n, m
<1>8. Words(SubSeq(s, i, n)) = Words(SubSeq(s, i + m, n))
  <2> DEFINE w == Words(SubSeq(s, i + m, n))
  <2>1. Words(SubSeq(s, i, i + m - 1)) = <<>> /\ w = Words(SubSeq(s, (i + m - 1) + 1, n))
    BY <1>3, <1>4
  <2> HIDE DEF w
  <2>2. <<>> \o w = w
    BY <1>7 DEF w
  <2> QED
    BY <1>6, <2>1, <2>2 DEF w
<1>9. Words(s) = Words(SubSeq(s, 1, i - 1)) \o Words(SubSeq(s, i + m, n))
  BY <1>4, <1>5, <1>8, WholeText DEF n
<1> QED
  BY <1>9 DEF i, n, m

LEMMA SplitSays ==
  ASSUME NEW sep \in Text \ {<<>>}, Words(sep) = <<>>, NEW text \in Text
  PROVE  Says(split(sep, text)) = Words(text)
<1>1. PICK cut : IsSplitting(cut, sep)
  BY SplitUnfolds
<1> DEFINE U == {n \in Nat : \A s \in Text : Len(s) < n => Says(cut[s]) = Words(s)}
<1>2. 0 \in U
  BY WholeText
<1>3. ASSUME NEW n \in Nat, n \in U PROVE n + 1 \in U
  <2>1. SUFFICES ASSUME NEW s \in Text, Len(s) < n + 1 PROVE Says(cut[s]) = Words(s)
    OBVIOUS
  <2>2. cut[s] = SplitStep(cut, sep, s)
    BY <1>1 DEF IsSplitting
  <2>3. CASE At(sep, s) = {}
    BY <2>2, <2>3, SaysOfFew DEF SplitStep
  <2>4. CASE At(sep, s) # {}
    <3> DEFINE i == Min(At(sep, s))
               first == SubSeq(s, 1, i - 1)
               rest == SubSeq(s, i + Len(sep), Len(s))
    <3>1. first \in Text /\ rest \in Text /\ Len(rest) < Len(s)
      BY <2>4, RestIsShorter
    <3>2. Words(s) = Words(first) \o Words(rest)
      BY <2>4, SeparatorCuts
    <3>3. SplitStep(cut, sep, s) = <<first>> \o cut[rest]
      BY <2>4 DEF SplitStep
    <3> HIDE DEF i, first, rest
    <3>4. cut[rest] \in Seq(Text) /\ <<first>> \in Seq(Text)
      BY <1>1, <3>1 DEF IsSplitting
    <3>5. Says(<<first>> \o cut[rest]) = Says(<<first>>) \o Says(cut[rest])
      BY <3>4, SaysTogether
    <3>6. Says(<<first>>) = Words(first)
      BY <3>1, SaysOfFew
    <3>7. Len(rest) < n
      BY <2>1, <3>1, WholeText
    <3>8. Says(cut[rest]) = Words(rest)
      BY <1>3, <3>1, <3>7
    <3> QED
      BY <2>2, <3>2, <3>3, <3>5, <3>6, <3>8
  <2> QED
    BY <2>3, <2>4
<1> HIDE DEF U
<1>4. Nat \subseteq U
  BY <1>2, <1>3, SetInduction
<1>5. Len(text) + 1 \in U /\ Len(text) < Len(text) + 1
  BY <1>4, WholeText
<1> QED
  BY <1>1, <1>5 DEF U, IsSplitting

LEMMA SeparatorsSayNothing ==
  /\ \A j \in 1 .. 4 : Separators[j] \in Text \ {<<>>} /\ Words(Separators[j]) = <<>>
  /\ Words(<<Newline, Newline>>) = <<>> /\ Words(<<Newline>>) = <<>> /\ Words(<<Space>>) = <<>>
<1>1. ASSUME NEW s \in Text, \A i \in DOMAIN s : s[i] \in {Space, Newline, Dot} PROVE Words(s) = <<>>
  <2>1. \A i \in DOMAIN s : ~Word(s[i])
    BY <1>1 DEF Space, Newline, Dot, Word, Definition
  <2> QED
    BY <2>1, NoWords
<1>2. /\ <<Newline, Newline>> \in Text /\ <<Newline>> \in Text /\ <<Dot, Space>> \in Text /\ <<Space>> \in Text
  BY DEF Space, Newline, Dot, Text
<1>3. /\ \A i \in DOMAIN <<Newline, Newline>> : <<Newline, Newline>>[i] \in {Space, Newline, Dot}
      /\ \A i \in DOMAIN <<Newline>> : <<Newline>>[i] \in {Space, Newline, Dot}
      /\ \A i \in DOMAIN <<Dot, Space>> : <<Dot, Space>>[i] \in {Space, Newline, Dot}
      /\ \A i \in DOMAIN <<Space>> : <<Space>>[i] \in {Space, Newline, Dot}
  OBVIOUS
<1>4. /\ Words(<<Newline, Newline>>) = <<>> /\ Words(<<Newline>>) = <<>> /\ Words(<<Dot, Space>>) = <<>>
      /\ Words(<<Space>>) = <<>>
  BY <1>1, <1>2, <1>3
<1>5. \A j \in 1 .. 4 : Separators[j] \in {<<Newline, Newline>>, <<Newline>>, <<Dot, Space>>, <<Space>>}
  BY DEF Separators
<1> QED
  BY <1>4, <1>5, SeparatorsAre

(* The parts of a text say what it says.                                    *)
LEMMA PartsSay ==
  ASSUME NEW k \in 1 .. 5, NEW s \in Text PROVE Says(Parts(k, s)) = Words(s)
<1>0. Len(Separators) = 4
  BY DEF Separators
<1>1. CASE k = 5
  <2>1. Parts(k, s) = [i \in DOMAIN s |-> <<s[i]>>]
    BY <1>0, <1>1 DEF Parts
  <2>2. \A i \in DOMAIN s : Spoken[<<s[i]>>] = Letter[s[i]]
    BY WordsOfOne DEF Spoken, Text
  <2>3. Mapped([i \in DOMAIN s |-> <<s[i]>>], Spoken) = Mapped(s, Letter)
    <3> DEFINE ones == [i \in DOMAIN s |-> <<s[i]>>]
    <3>1. DOMAIN ones = DOMAIN s /\ \A i \in DOMAIN ones : Spoken[ones[i]] = Letter[s[i]]
      BY <2>2
    <3> HIDE DEF ones
    <3>2. Mapped(ones, Spoken) = Mapped(s, Letter)
      BY <3>1, MapAgrees
    <3> QED
      BY <3>2 DEF ones
  <2> QED
    BY <2>1, <2>3, WordsAre DEF Says
<1>2. CASE k # 5
  <2> DEFINE sep == Separators[k]
             parts == split(sep, s)
             more == [i \in DOMAIN parts |-> parts[i] \o sep]
  <2>0. k \in 1 .. 4 /\ ~(k > Len(Separators))
    BY <1>0, <1>2
  <2>1. Parts(k, s) = more
    BY <2>0 DEF Parts
  <2>2. sep \in Text \ {<<>>} /\ Words(sep) = <<>>
    BY <2>0, SeparatorsSayNothing
  <2>3. parts \in Seq(Text) /\ Says(parts) = Words(s)
    BY <2>2, SplitsAreTexts, SplitSays
  <2>7. more \in Seq(Text)
    BY <2>1, PartsAreTexts
  <2> HIDE DEF sep, parts
  <2>4. Len(more) = Len(parts) /\ \A i \in 1 .. Len(parts) : more[i] = parts[i] \o sep /\ parts[i] \in Text
    BY <2>3
  <2>5. \A i \in 1 .. Len(parts) : Words(more[i]) = Words(parts[i])
    <3>1. ASSUME NEW i \in 1 .. Len(parts) PROVE Words(more[i]) = Words(parts[i])
      <4>1. Words(parts[i] \o sep) = Words(parts[i]) \o Words(sep)
        BY <2>2, <2>4, WordsTogether
      <4>2. Words(parts[i]) \in Seq(Int)
        BY <2>4, WordsAre DEF Text
      <4> QED
        BY <2>2, <2>4, <4>1, <4>2
    <3> QED
      BY <3>1
  <2> HIDE DEF more
  <2>6. Says(more) = Says(parts)
    BY <2>3, <2>4, <2>5, <2>7, SaysAgree
  <2> QED
    BY <2>1, <2>3, <2>6
<1> QED
  BY <1>1, <1>2

(* Texts, one after the other.                                              *)
LEMMA TextsAssociate ==
  ASSUME NEW a \in Text, NEW b \in Text, NEW c \in Text PROVE (a \o b) \o c = a \o (b \o c)
<1>1. a \in Seq(Int) /\ b \in Seq(Int) /\ c \in Seq(Int)
  BY DEF Text
<1> QED
  BY SMTT(40), <1>1, Associative

LEMMA EmptyTexts ==
  ASSUME NEW a \in Text PROVE a \o <<>> = a /\ <<>> \o a = a /\ <<>> \in Text
BY DEF Text

(* What a packing says: its chunks, and what it gathers.                    *)
PackSays(acc) == Says(acc.chunks) \o Words(acc.current)

LEMMA SizedAreTexts ==
  ASSUME NEW size, NEW ss \in Seq(Sized(size)) PROVE ss \in Seq(Text)
BY DEF Sized

LEMMA FlushSays ==
  ASSUME NEW size \in Nat, NEW acc \in Packing(size)
  PROVE  Flush(acc) \in Seq(Text) /\ Says(Flush(acc)) = PackSays(acc) /\ PackSays(acc) \in Text
<1>1. acc.chunks \in Seq(Text) /\ acc.current \in Text
  BY DEF Packing, Sized
<1>2. Says(acc.chunks) \in Text /\ Words(acc.current) \in Text
  BY <1>1, SaysTogether, WordsAre
<1>3. PackSays(acc) \in Text
  BY <1>2 DEF PackSays, Text
<1>4. CASE acc.current = <<>>
  <2>1. Says(acc.chunks) \o <<>> = Says(acc.chunks)
    BY <1>2 DEF Text
  <2> QED
    BY <1>1, <1>3, <1>4, <2>1, WordsOfNone DEF Flush, PackSays
<1>5. CASE acc.current # <<>>
  <2>1. Says(Append(acc.chunks, acc.current)) = Says(acc.chunks) \o Words(acc.current)
    BY <1>1, SaysAppends
  <2> QED
    BY <1>1, <1>3, <1>5, <2>1 DEF Flush, PackSays
<1> QED
  BY <1>4, <1>5

LEMMA PackStepSays ==
  ASSUME NEW size \in Nat \ {0}, NEW j \in 1 .. 5, NEW cut, NEW piece \in Text, NEW acc \in Packing(size),
         Len(piece) > size => /\ cut[<<j + 1, piece>>] \in Seq(Sized(size))
                              /\ Says(cut[<<j + 1, piece>>]) = Words(piece)
  PROVE  PackSays(PackStep(cut, size, j, acc, piece)) = PackSays(acc) \o Words(piece)
<1>1. acc.chunks \in Seq(Text) /\ acc.current \in Text
  BY DEF Packing, Sized
<1>2. /\ Flush(acc) \in Seq(Text) /\ Says(Flush(acc)) = PackSays(acc) /\ PackSays(acc) \in Text
      /\ Says(acc.chunks) \in Text /\ Words(acc.current) \in Text /\ Words(piece) \in Text
  BY <1>1, FlushSays, SaysTogether, WordsAre
<1>3. CASE Len(piece) > size
  <2> DEFINE fine == cut[<<j + 1, piece>>]
  <2>1. fine \in Seq(Text) /\ Says(fine) = Words(piece)
    BY <1>3, SizedAreTexts
  <2>2. PackStep(cut, size, j, acc, piece) = [chunks |-> Flush(acc) \o fine, current |-> <<>>]
    BY <1>3 DEF PackStep
  <2> HIDE DEF fine
  <2>3. Says(Flush(acc) \o fine) = PackSays(acc) \o Words(piece)
    BY <1>2, <2>1, SaysTogether
  <2>4. (PackSays(acc) \o Words(piece)) \o <<>> = PackSays(acc) \o Words(piece)
    BY <1>2 DEF Text
  <2> QED
    BY <2>2, <2>3, <2>4, WordsOfNone DEF PackSays
<1>4. CASE ~(Len(piece) > size) /\ Len(acc.current) + Len(piece) <= size
  <2>1. PackStep(cut, size, j, acc, piece) = [acc EXCEPT !.current = @ \o piece]
    BY <1>4 DEF PackStep
  <2>2. /\ PackStep(cut, size, j, acc, piece).chunks = acc.chunks
        /\ PackStep(cut, size, j, acc, piece).current = acc.current \o piece
    BY <2>1 DEF Packing
  <2>3. Words(acc.current \o piece) = Words(acc.current) \o Words(piece)
    BY <1>1, WordsTogether
  <2>4. (Says(acc.chunks) \o Words(acc.current)) \o Words(piece)
          = Says(acc.chunks) \o (Words(acc.current) \o Words(piece))
    <3> DEFINE a == Says(acc.chunks)
               b == Words(acc.current)
               c == Words(piece)
    <3>1. a \in Text /\ b \in Text /\ c \in Text
      BY <1>2
    <3> HIDE DEF a, b, c
    <3>2. (a \o b) \o c = a \o (b \o c)
      BY ZenonT(60), <3>1, TextsAssociate
    <3> QED
      BY <3>2 DEF a, b, c
  <2> QED
    BY <2>2, <2>3, <2>4 DEF PackSays
<1>5. CASE ~(Len(piece) > size) /\ ~(Len(acc.current) + Len(piece) <= size)
  <2>1. PackStep(cut, size, j, acc, piece) = [chunks |-> Flush(acc), current |-> piece]
    BY <1>5 DEF PackStep
  <2>2. PackSays(PackStep(cut, size, j, acc, piece)) = Says(Flush(acc)) \o Words(piece)
    BY <2>1 DEF PackSays
  <2> QED
    BY <1>2, <2>2
<1> QED
  BY <1>3, <1>4, <1>5

LEMMA PackedSays ==
  ASSUME NEW cut, NEW size \in Nat \ {0}, NEW j \in 1 .. 5, NEW pieces \in Seq(Text),
         Finer(cut, size, j, pieces),
         \A m \in 1 .. Len(pieces) :
           Len(pieces[m]) > size => Says(cut[<<j + 1, pieces[m]>>]) = Words(pieces[m])
  PROVE  Says(Flush(Packed(cut, size, j, pieces))) = Says(pieces)
<1>1. PICK it : IsPacking(it, cut, size, j, pieces)
  BY PackRun
<1> DEFINE n == Len(pieces)
           U == {m \in Nat : m <= n => PackSays(it[m]) = Says(SubSeq(pieces, 1, m))}
<1>2. n \in Nat /\ it \in [0 .. n -> Packing(size)]
  BY <1>1 DEF IsPacking
<1>3. 0 \in U
  <2>1. it[0] = [chunks |-> <<>>, current |-> <<>>]
    BY <1>1 DEF IsPacking
  <2>2. PackSays(it[0]) = <<>>
    BY <2>1, SaysOfFew, WordsOfNone DEF PackSays
  <2> QED
    BY <2>2, SaysOfFew, WholeList
<1>4. ASSUME NEW m \in Nat, m \in U PROVE m + 1 \in U
  <2>1. SUFFICES ASSUME m + 1 <= n PROVE PackSays(it[m + 1]) = Says(SubSeq(pieces, 1, m + 1))
    OBVIOUS
  <2> DEFINE k == m + 1
             before == SubSeq(pieces, 1, m)
  <2>2. /\ before \in Seq(Text) /\ pieces[k] \in Text /\ k \in 1 .. n /\ k - 1 = m
        /\ SubSeq(pieces, 1, k) = Append(before, pieces[k])
    BY <2>1, PrefixGrows
  <2>3. PackSays(it[m]) = Says(before) /\ m \in 0 .. n
    BY <1>2, <1>4, <2>1
  <2> HIDE DEF k, before
  <2>4. it[k] = PackStep(cut, size, j, it[m], pieces[k])
    BY <1>1, <2>2 DEF IsPacking
  <2>5. it[m] \in Packing(size)
    BY <1>2, <2>3
  <2>6. Len(pieces[k]) > size => /\ cut[<<j + 1, pieces[k]>>] \in Seq(Sized(size))
                                 /\ Says(cut[<<j + 1, pieces[k]>>]) = Words(pieces[k])
    BY <2>2 DEF Finer
  <2>7. PackSays(PackStep(cut, size, j, it[m], pieces[k])) = PackSays(it[m]) \o Words(pieces[k])
    <3> DEFINE piece == pieces[k]
               acc == it[m]
    <3>1. piece \in Text /\ acc \in Packing(size)
      BY <2>2, <2>5
    <3>2. Len(piece) > size => /\ cut[<<j + 1, piece>>] \in Seq(Sized(size))
                               /\ Says(cut[<<j + 1, piece>>]) = Words(piece)
      BY <2>6
    <3> HIDE DEF piece, acc
    <3>3. PackSays(PackStep(cut, size, j, acc, piece)) = PackSays(acc) \o Words(piece)
      BY ZenonT(60), <3>1, <3>2, PackStepSays
    <3> QED
      BY <3>3 DEF piece, acc
  <2>8. Says(Append(before, pieces[k])) = Says(before) \o Words(pieces[k])
    BY <2>2, SaysAppends
  <2>9. PackSays(it[k]) = Says(SubSeq(pieces, 1, k))
    BY <2>2, <2>3, <2>4, <2>7, <2>8
  <2> QED
    BY <2>9 DEF k
<1>5. n \in U
  <2> HIDE DEF U
  <2> QED
    BY <1>2, <1>3, <1>4, SetInduction
<1>6. PackSays(it[n]) = Says(pieces)
  BY <1>2, <1>5, WholeList
<1>7. Says(Flush(it[n])) = PackSays(it[n])
  <2>1. it[n] \in Packing(size)
    BY <1>2
  <2> QED
    BY <2>1, FlushSays
<1> QED
  BY <1>1, <1>6, <1>7 DEF IsPacking

(* Cutting recursively keeps all that a text says.                          *)
LEMMA SplitAtSays ==
  ASSUME NEW size \in Nat \ {0}, NEW p \in Levels, NEW cut,
         \A q \in Levels : Depth(q) < Depth(p) =>
           cut[q] \in Seq(Sized(size)) /\ Says(cut[q]) = Words(q[2])
  PROVE  Says(SplitAt(cut, size, p)) = Words(p[2])
<1> DEFINE j == Coarsest(p[1], p[2])
           parts == Parts(j, p[2])
<1>1. /\ j \in 1 .. 5 /\ parts \in Seq(Text)
      /\ \A m \in 1 .. Len(parts) :
           Len(parts[m]) > size => <<j + 1, parts[m]>> \in Levels /\ Depth(<<j + 1, parts[m]>>) < Depth(p)
  BY LevelsDescend
<1>2. p[2] \in Text
  BY DEF Levels
<1>3. SplitAt(cut, size, p) = IF p[2] = <<>> THEN <<>>
                              ELSE IF Len(p[2]) <= size THEN <<p[2]>>
                              ELSE Flush(Packed(cut, size, j, parts))
  BY DEF SplitAt
<1>4. Says(parts) = Words(p[2])
  BY <1>1, <1>2, PartsSay
<1> HIDE DEF j, parts
<1>5. Finer(cut, size, j, parts)
  BY <1>1 DEF Finer
<1>6. \A m \in 1 .. Len(parts) : Len(parts[m]) > size => Says(cut[<<j + 1, parts[m]>>]) = Words(parts[m])
  <2>1. ASSUME NEW m \in 1 .. Len(parts), Len(parts[m]) > size
        PROVE  Says(cut[<<j + 1, parts[m]>>]) = Words(parts[m])
    <3> DEFINE q == <<j + 1, parts[m]>>
    <3>1. q \in Levels /\ Depth(q) < Depth(p) /\ q[2] = parts[m]
      BY <1>1, <2>1
    <3> HIDE DEF q
    <3>2. Says(cut[q]) = Words(q[2])
      BY <3>1
    <3> QED
      BY <3>1, <3>2 DEF q
  <2> QED
    BY <2>1
<1>7. Says(Flush(Packed(cut, size, j, parts))) = Says(parts)
  BY <1>1, <1>5, <1>6, PackedSays
<1> QED
  BY <1>2, <1>3, <1>4, <1>7, SaysOfFew, WordsOfNone

LEMMA RecursiveSplitSays ==
  ASSUME NEW size \in Nat \ {0}, NEW text \in Text
  PROVE  recursive_split(text, size) \in Seq(Text) /\ Says(recursive_split(text, size)) = Words(text)
<1>1. PICK cut : IsCutting(cut, size)
  BY RecursiveSplitUnfolds
<1> DEFINE U == {n \in Nat : \A p \in Levels : Depth(p) < n => Says(cut[p]) = Words(p[2])}
<1>2. \A p \in Levels : Depth(p) \in Nat /\ Depth(p) < 5
  BY DEF Depth, Levels
<1>3. 0 \in U
  BY <1>2
<1>4. ASSUME NEW n \in Nat, n \in U PROVE n + 1 \in U
  <2>1. SUFFICES ASSUME NEW p \in Levels, Depth(p) < n + 1 PROVE Says(cut[p]) = Words(p[2])
    OBVIOUS
  <2>2. \A q \in Levels : Depth(q) < Depth(p) => cut[q] \in Seq(Sized(size)) /\ Says(cut[q]) = Words(q[2])
    BY <1>1, <1>2, <1>4, <2>1 DEF IsCutting
  <2>3. Says(SplitAt(cut, size, p)) = Words(p[2])
    BY <2>2, SplitAtSays
  <2> QED
    BY <1>1, <2>3 DEF IsCutting
<1>5. 5 \in U
  <2> HIDE DEF U
  <2> QED
    BY <1>3, <1>4, SetInduction
<1>6. <<1, text>> \in Levels /\ <<1, text>>[2] = text
  BY DEF Levels
<1>7. Says(cut[<<1, text>>]) = Words(text) /\ cut[<<1, text>>] \in Seq(Sized(size))
  BY <1>1, <1>2, <1>5, <1>6 DEF IsCutting
<1> QED
  BY <1>1, <1>7, SizedAreTexts DEF IsCutting

LEMMA StrippedSay ==
  ASSUME NEW ss \in Seq(Text) PROVE Says(Stripped(ss)) = Says(ss)
<1>1. Stripped(ss) \in Seq(Text)
  BY StripsAreTexts
<1>2. Len(Stripped(ss)) = Len(ss) /\ \A i \in 1 .. Len(ss) : Stripped(ss)[i] = strip(ss[i]) /\ ss[i] \in Text
  BY DEF Stripped
<1>3. \A i \in 1 .. Len(ss) : Words(Stripped(ss)[i]) = Words(ss[i])
  BY <1>2, StripSays
<1> QED
  BY <1>1, <1>2, <1>3, SaysAgree

LEMMA FewWords ==
  ASSUME NEW s \in Text PROVE Len(Words(s)) \in Nat /\ Len(Words(s)) <= Len(s)
<1> DEFINE P == {q \in Seq(Int) : Len(Words(q)) <= Len(q)}
<1>1. <<>> \in P
  BY WordsOfNone
<1>2. ASSUME NEW q \in Seq(Int), NEW c \in Int, q \in P PROVE Append(q, c) \in P
  <2>1. /\ Append(q, c) \in Seq(Int) /\ Append(q, c) = q \o <<c>> /\ Len(Append(q, c)) = Len(q) + 1
        /\ q \in Text /\ <<c>> \in Text /\ Len(q) \in Nat
    BY SMTT(40) DEF Text
  <2>2. Words(q \o <<c>>) = Words(q) \o Letter[c]
    BY <2>1, WordsTogether, WordsOfOne
  <2>3. Letter[c] \in Seq(Int) /\ Len(Letter[c]) <= 1 /\ Words(q) \in Seq(Int)
    <3>1. Letter[c] = IF Word(c) THEN <<c>> ELSE <<>>
      BY DEF Letter
    <3>2. Letter[c] \in Seq(Int) /\ Len(Letter[c]) <= 1
      BY <3>1
    <3>3. Words(q) \in Seq(Int)
      BY <2>1, WordsAre DEF Text
    <3> QED
      BY <3>2, <3>3
  <2> DEFINE a == Words(q)
             b == Letter[c]
  <2>4. Len(a) <= Len(q)
    BY <1>2
  <2> HIDE DEF a, b
  <2>5. Len(a \o b) = Len(a) + Len(b) /\ Len(a) \in Nat /\ Len(b) \in Nat
    BY <2>3 DEF a, b
  <2>6. Len(a \o b) <= Len(q) + 1
    BY <2>1, <2>3, <2>4, <2>5 DEF b
  <2> QED
    BY <2>1, <2>2, <2>6 DEF a, b
<1>3. Seq(Int) \subseteq P
  <2> HIDE DEF P
  <2> QED
    BY <1>1, <1>2, SeqInduction
<1>4. s \in P
  BY <1>3 DEF Text
<1>5. Words(s) \in Seq(Int)
  BY WordsAre DEF Text
<1> QED
  BY <1>4, <1>5

(* The two halves of a text.                                                *)
LEMMA HalvesOf ==
  ASSUME NEW a \in Text, NEW b \in Text
  PROVE  /\ a \o b \in Text /\ Len(a \o b) = Len(a) + Len(b) /\ Len(a) \in Nat /\ Len(b) \in Nat
         /\ SubSeq(a \o b, 1, Len(a)) = a /\ SubSeq(a \o b, Len(a) + 1, Len(a \o b)) = b
BY HalvesAre DEF Text

(* The end of a chunk says the end of what it says.                         *)
LEMMA TailSays ==
  ASSUME NEW s \in Text, NEW n \in Nat \ {0}
  PROVE  /\ Tail_(s, n) \in Text /\ Len(Words(Tail_(s, n))) <= n
         /\ \E before \in Text : Words(s) = before \o Words(Tail_(s, n))
<1> DEFINE m == Max({1, Len(s) - n + 1})
<1>1. Tail_(s, n) \in Sized(n)
  BY TailIsSized
<1>2. Tail_(s, n) \in Text /\ Len(Words(Tail_(s, n))) <= n
  <2>1. Tail_(s, n) \in Text /\ Len(Tail_(s, n)) <= n /\ Len(Tail_(s, n)) \in Nat
    BY <1>1, WholeText DEF Sized
  <2>2. Len(Words(Tail_(s, n))) \in Nat /\ Len(Words(Tail_(s, n))) <= Len(Tail_(s, n))
    BY <2>1, FewWords
  <2> QED
    BY <2>1, <2>2
<1>3. Tail_(s, n) = SubSeq(s, m, Len(s))
  BY DEF Tail_
<1>4. m \in 1 .. Len(s) + 1
  <2>1. Len(s) \in Nat
    BY WholeText
  <2>2. m = IF Len(s) - n + 1 >= 1 THEN Len(s) - n + 1 ELSE 1
    BY <2>1 DEF Max
  <2> QED
    BY <2>1, <2>2
<1> HIDE DEF m
<1>5. /\ Len(s) \in Nat /\ 1 \in 1 .. Len(s) + 1 /\ Len(s) \in 0 .. Len(s)
      /\ m - 1 \in 1 - 1 .. Len(s) /\ (m - 1) + 1 = m
  BY <1>4, WholeText
<1>6. /\ Words(SubSeq(s, 1, Len(s))) = Words(SubSeq(s, 1, m - 1)) \o Words(SubSeq(s, (m - 1) + 1, Len(s)))
      /\ SubSeq(s, 1, m - 1) \in Text
  BY <1>5, WordsCut, CutInTwo
<1>7. Words(s) = Words(SubSeq(s, 1, m - 1)) \o Words(Tail_(s, n)) /\ Words(SubSeq(s, 1, m - 1)) \in Text
  BY <1>3, <1>5, <1>6, WholeText, WordsAre
<1> QED
  BY <1>2, <1>7

LEMMA OverlapSays ==
  ASSUME NEW a \in Text, NEW b \in Text
  PROVE  Words(strip(strip(a) \o <<Space>> \o b)) = Words(a) \o Words(b)
<1>1. strip(a) \in Text /\ <<Space>> \in Text
  BY StripShortens DEF Text, Space
<1>2. strip(a) \o <<Space>> \in Text /\ Words(strip(a) \o <<Space>>) = Words(strip(a)) \o Words(<<Space>>)
  BY <1>1, WordsTogether
<1>3. Words(strip(a) \o <<Space>>) = Words(a)
  BY <1>2, StripSays, SeparatorsSayNothing, EmptyTexts, WordsAre
<1>4. /\ (strip(a) \o <<Space>>) \o b \in Text
      /\ Words((strip(a) \o <<Space>>) \o b) = Words(strip(a) \o <<Space>>) \o Words(b)
  BY <1>2, WordsTogether
<1> QED
  BY <1>3, <1>4, StripSays

(* Pieces that repeat nothing.                                              *)
LEMMA StitchedWhole ==
  ASSUME NEW pieces \in Seq(Text), NEW overlap \in Nat PROVE Stitched(Says(pieces), pieces, overlap)
<1> DEFINE repeated == [i \in DOMAIN pieces |-> 0]
           here(i) == Words(pieces[i])
           rest == [i \in DOMAIN pieces |-> SubSeq(here(i), repeated[i] + 1, Len(here(i)))]
<1>1. repeated \in [DOMAIN pieces -> 0 .. overlap] /\ \A i \in DOMAIN pieces : repeated[i] = 0
  OBVIOUS
<1>2. rest = Each(pieces, Spoken)
  <2>1. ASSUME NEW i \in DOMAIN pieces PROVE SubSeq(here(i), repeated[i] + 1, Len(here(i))) = Spoken[pieces[i]]
    <3>1. here(i) \in Text /\ repeated[i] + 1 = 1 /\ pieces[i] \in Text
      BY WordsAre
    <3> HIDE DEF repeated
    <3>2. SubSeq(here(i), 1, Len(here(i))) = here(i)
      BY <3>1, WholeText
    <3> QED
      BY <3>1, <3>2 DEF Spoken
  <2> HIDE DEF here, repeated
  <2> QED
    BY <2>1 DEF Each
<1>3. Says(pieces) = FlattenSeq(rest)
  BY <1>2 DEF Says, Mapped
<1> HIDE DEF repeated
<1>4. \A i \in DOMAIN pieces : ~(repeated[i] > 0)
  BY <1>1
<1> QED
  BY <1>1, <1>3, <1>4 DEF Stitched

(* Pieces that each repeat the end of the one before.                       *)
Repeats(more, pieces, n) ==
  \A i \in 1 .. Len(pieces) :
    /\ i = 1 => more[i] = pieces[i]
    /\ i # 1 => more[i] = strip(strip(Tail_(pieces[i - 1], n)) \o <<Space>> \o pieces[i])

(* What piece i repeats.                                                    *)
Again(pieces, n, i) == IF i = 1 THEN <<>> ELSE Words(Tail_(pieces[i - 1], n))

LEMMA RepeatsSay ==
  ASSUME NEW pieces \in Seq(Text), NEW more \in Seq(Text), NEW n \in Nat \ {0}, Repeats(more, pieces, n),
         NEW i \in 1 .. Len(pieces)
  PROVE  /\ Again(pieces, n, i) \in Text /\ Len(Again(pieces, n, i)) <= n
         /\ Words(more[i]) = Again(pieces, n, i) \o Words(pieces[i])
         /\ i # 1 => \E before \in Text : Words(more[i - 1]) = before \o Again(pieces, n, i)
<1>1. ASSUME NEW k \in 1 .. Len(pieces)
      PROVE  /\ Again(pieces, n, k) \in Text /\ Len(Again(pieces, n, k)) <= n
             /\ Words(more[k]) = Again(pieces, n, k) \o Words(pieces[k])
  <2>1. pieces[k] \in Text /\ Words(pieces[k]) \in Text
    BY WordsAre
  <2>2. CASE k = 1
    <3>1. Again(pieces, n, k) = <<>> /\ more[k] = pieces[k] /\ Len(<<>>) = 0
      BY <2>2 DEF Again, Repeats
    <3> QED
      BY <2>1, <3>1, EmptyTexts
  <2>3. CASE k # 1
    <3> DEFINE a == pieces[k - 1]
               t == Tail_(a, n)
    <3>1. a \in Text
      BY <2>3
    <3>2. more[k] = strip(strip(t) \o <<Space>> \o pieces[k]) /\ Again(pieces, n, k) = Words(t)
      BY <2>3 DEF Again, Repeats
    <3> HIDE DEF a
    <3>3. t \in Text /\ Len(Words(t)) <= n
      BY <3>1, TailSays
    <3> HIDE DEF t
    <3>4. Words(strip(strip(t) \o <<Space>> \o pieces[k])) = Words(t) \o Words(pieces[k])
      BY <2>1, <3>3, OverlapSays
    <3> QED
      BY <3>2, <3>3, <3>4, WordsAre
  <2> QED
    BY <2>2, <2>3
<1>2. ASSUME i # 1 PROVE \E before \in Text : Words(more[i - 1]) = before \o Again(pieces, n, i)
  <2> DEFINE k == i - 1
             a == pieces[k]
             x == Again(pieces, n, k)
             y == Words(Tail_(a, n))
  <2>1. k \in 1 .. Len(pieces) /\ a \in Text
    BY <1>2
  <2>2. x \in Text /\ Words(more[k]) = x \o Words(a)
    BY <1>1, <2>1
  <2>3. Again(pieces, n, i) = y
    BY <1>2 DEF Again
  <2> HIDE DEF a, k, x
  <2>4. PICK before \in Text : Words(a) = before \o y
    BY <2>1, TailSays
  <2>5. y \in Text
    BY <2>1, TailSays, WordsAre
  <2> HIDE DEF y
  <2>6. x \o (before \o y) = (x \o before) \o y /\ x \o before \in Text
    BY ZenonT(60), <2>2, <2>5, TextsAssociate, HalvesOf
  <2>7. Words(more[k]) = (x \o before) \o y
    BY <2>2, <2>4, <2>6
  <2> QED
    BY <2>3, <2>6, <2>7 DEF k
<1> QED
  BY <1>1, <1>2

LEMMA StitchedRepeats ==
  ASSUME NEW pieces \in Seq(Text), NEW more \in Seq(Text), Len(more) = Len(pieces),
         NEW n \in Nat \ {0}, Repeats(more, pieces, n)
  PROVE  Stitched(Says(pieces), more, n)
<1> DEFINE again(i) == Again(pieces, n, i)
           repeated == [i \in DOMAIN more |-> Len(again(i))]
           here(i) == Words(more[i])
           rest == [i \in DOMAIN more |-> SubSeq(here(i), repeated[i] + 1, Len(here(i)))]
<1>1. DOMAIN more = 1 .. Len(pieces) /\ DOMAIN pieces = 1 .. Len(pieces)
  OBVIOUS
<1>2. ASSUME NEW i \in 1 .. Len(pieces)
      PROVE  /\ again(i) \in Text /\ Len(again(i)) <= n /\ Len(again(i)) \in Nat
             /\ here(i) = again(i) \o Words(pieces[i]) /\ Words(pieces[i]) \in Text
             /\ i # 1 => \E before \in Text : here(i - 1) = before \o again(i)
  <2>1. again(i) \in Text /\ Len(again(i)) <= n /\ here(i) = again(i) \o Words(pieces[i])
    BY RepeatsSay
  <2>2. i # 1 => \E before \in Text : here(i - 1) = before \o again(i)
    BY RepeatsSay
  <2>3. Words(pieces[i]) \in Text
    BY WordsAre
  <2> QED
    BY <2>1, <2>2, <2>3, WholeText
<1>3. repeated \in [DOMAIN more -> 0 .. n] /\ \A i \in DOMAIN more : repeated[i] = Len(again(i))
  BY <1>1, <1>2
<1> HIDE DEF repeated, again, here
<1>4. ASSUME NEW i \in DOMAIN more, repeated[i] > 0
      PROVE  /\ i > 1 /\ repeated[i] <= Len(here(i))
             /\ \E j \in DOMAIN here(i - 1) :
                  SubSeq(here(i - 1), j, Len(here(i - 1))) = SubSeq(here(i), 1, repeated[i])
  <2> DEFINE a == again(i)
             b == Words(pieces[i])
  <2>1. a \in Text /\ b \in Text /\ here(i) = a \o b /\ repeated[i] = Len(a)
    BY <1>1, <1>2, <1>3
  <2>2. i # 1
    BY <1>3, <1>4 DEF again, Again
  <2>3. PICK before \in Text : here(i - 1) = before \o a
    BY <1>1, <1>2, <2>2
  <2> HIDE DEF a, b
  <2>4. SubSeq(here(i), 1, repeated[i]) = a /\ Len(a) \in Nat /\ repeated[i] <= Len(here(i))
    <3>1. SubSeq(a \o b, 1, Len(a)) = a /\ Len(a \o b) = Len(a) + Len(b) /\ Len(a) \in Nat /\ Len(b) \in Nat
      BY <2>1, HalvesOf
    <3> QED
      BY <2>1, <3>1
  <2>5. /\ Len(before \o a) = Len(before) + Len(a) /\ Len(before) \in Nat
        /\ SubSeq(before \o a, Len(before) + 1, Len(before \o a)) = a /\ before \o a \in Text
    BY <2>1, <2>3, HalvesOf
  <2>6. Len(before) + 1 \in DOMAIN here(i - 1)
    <3>1. DOMAIN here(i - 1) = 1 .. Len(before) + Len(a)
      BY <2>3, <2>5 DEF Text
    <3> QED
      BY <1>4, <2>1, <2>4, <2>5, <3>1
  <2>7. SubSeq(here(i - 1), Len(before) + 1, Len(here(i - 1))) = SubSeq(here(i), 1, repeated[i])
    BY <2>3, <2>4, <2>5
  <2>8. i > 1
    BY <1>1, <2>2
  <2> QED
    BY <2>4, <2>6, <2>7, <2>8
<1>5. rest = Each(pieces, Spoken)
  <2>1. ASSUME NEW i \in DOMAIN more PROVE SubSeq(here(i), repeated[i] + 1, Len(here(i))) = Spoken[pieces[i]]
    <3> DEFINE a == again(i)
               b == Words(pieces[i])
    <3>1. a \in Text /\ b \in Text /\ here(i) = a \o b /\ repeated[i] = Len(a) /\ Spoken[pieces[i]] = b
      <4>1. i \in 1 .. Len(pieces) /\ pieces[i] \in Text
        BY <1>1
      <4>2. Spoken[pieces[i]] = b
        BY <4>1 DEF Spoken
      <4> QED
        BY <1>2, <1>3, <4>1, <4>2
    <3> HIDE DEF a, b
    <3>2. SubSeq(a \o b, Len(a) + 1, Len(a \o b)) = b
      BY <3>1, HalvesOf
    <3> QED
      BY <3>1, <3>2
  <2> QED
    BY <1>1, <2>1 DEF Each
<1>6. Says(pieces) = FlattenSeq(rest)
  BY <1>5 DEF Says, Mapped
<1> QED
  BY <1>3, <1>4, <1>6 DEF Stitched, here

LEMMA OverlapsStitch ==
  ASSUME NEW pieces \in Seq(Text), NEW overlap \in Nat
  PROVE  /\ apply_overlap(pieces, overlap) \in Seq(Text)
         /\ Stitched(Says(pieces), apply_overlap(pieces, overlap), overlap)
<1> DEFINE more == apply_overlap(pieces, overlap)
<1>1. CASE overlap = 0
  <2>1. more = pieces
    BY <1>1 DEF apply_overlap
  <2> QED
    BY <2>1, StitchedWhole
<1>2. CASE overlap # 0
  <2> DEFINE new(i) == strip(strip(Tail_(pieces[i - 1], overlap)) \o <<Space>> \o pieces[i])
  <2>1. more = [i \in DOMAIN pieces |-> IF i = 1 THEN pieces[i] ELSE new(i)]
    BY <1>2 DEF apply_overlap
  <2>2. ASSUME NEW i \in 1 .. Len(pieces), i # 1 PROVE new(i) \in Text
    <3> DEFINE t == Tail_(pieces[i - 1], overlap)
    <3>1. pieces[i - 1] \in Text /\ pieces[i] \in Text /\ overlap \in Nat \ {0}
      BY <1>2, <2>2
    <3>2. t \in Text
      BY <3>1, TailSays
    <3> HIDE DEF t
    <3>3. strip(t) \in Text /\ <<Space>> \in Text
      BY <3>2, StripShortens DEF Text, Space
    <3>4. strip(t) \o <<Space>> \in Text
      BY <3>3, WordsTogether
    <3>5. (strip(t) \o <<Space>>) \o pieces[i] \in Text
      BY <3>1, <3>4, WordsTogether
    <3> QED
      BY <3>5, StripShortens DEF t
  <2>4. Repeats(more, pieces, overlap)
    BY <2>1 DEF Repeats
  <2> HIDE DEF new
  <2>3. more \in Seq(Text) /\ Len(more) = Len(pieces)
    <3>1. Len(pieces) \in Nat /\ DOMAIN pieces = 1 .. Len(pieces) /\ \A i \in 1 .. Len(pieces) : pieces[i] \in Text
      OBVIOUS
    <3>2. more \in [1 .. Len(pieces) -> Text]
      BY <2>1, <2>2, <3>1
    <3> QED
      BY <3>1, <3>2
  <2> HIDE DEF more
  <2>5. overlap \in Nat \ {0}
    BY <1>2
  <2>6. Stitched(Says(pieces), more, overlap)
    BY <2>3, <2>4, <2>5, StitchedRepeats
  <2> QED
    BY <2>3, <2>6 DEF more
<1> QED
  BY <1>1, <1>2

(* split_text loses no word, and repeats no more than the overlap.          *)
LEMMA SplitTextSays ==
  ASSUME NEW size \in Nat \ {0}, NEW overlap \in Nat, NEW text \in Text
  PROVE  /\ split_text(text, size, overlap) \in Seq(Text)
         /\ Stitched(Words(text), split_text(text, size, overlap), overlap)
         /\ overlap = 0 => Says(split_text(text, size, overlap)) = Words(text)
<1> DEFINE raw == recursive_split(text, size)
           pieces == NonEmpty(Stripped(raw))
<1>1. raw \in Seq(Text) /\ Says(raw) = Words(text)
  BY RecursiveSplitSays
<1>2. split_text(text, size, overlap) = apply_overlap(pieces, overlap)
  BY DEF split_text, Stripped
<1> HIDE DEF raw
<1>3. Stripped(raw) \in Seq(Text) /\ Says(Stripped(raw)) = Words(text)
  BY <1>1, StripsAreTexts, StrippedSay
<1>4. pieces \in Seq(Text) /\ Says(pieces) = Words(text)
  BY <1>3, NonEmptyAre, NonEmptySays
<1> HIDE DEF pieces
<1>5. overlap = 0 => split_text(text, size, overlap) = pieces
  BY <1>2 DEF apply_overlap
<1> QED
  BY <1>2, <1>4, <1>5, OverlapsStitch

-----------------------------------------------------------------------------
(* Chunks, and what those of them say that are on a page or have a parent.  *)
Telling(R, P) == [c \in R |-> IF c \in P THEN <<c.content>> ELSE <<>>]

Told(cs, R, P) == Mapped(cs, Telling(R, P))

HaveTexts(R) == \A c \in R : c.content \in Text

LEMMA TellingIs ==
  ASSUME NEW R, HaveTexts(R), NEW P PROVE Telling(R, P) \in [R -> Seq(Text)]
BY DEF Telling, HaveTexts

LEMMA ToldTogether ==
  ASSUME NEW R, HaveTexts(R), NEW P, NEW cs \in Seq(R), NEW ds \in Seq(R)
  PROVE  Told(cs, R, P) \in Seq(Text) /\ Told(cs \o ds, R, P) = Told(cs, R, P) \o Told(ds, R, P)
<1>1. Told(cs, R, P) \in Seq(Text)
  BY TellingIs, MapIsASequence DEF Told
<1>2. Told(cs \o ds, R, P) = Told(cs, R, P) \o Told(ds, R, P)
  BY SMTT(40), TellingIs, MapTogether DEF Told
<1> QED
  BY <1>1, <1>2

LEMMA ToldNone ==
  ASSUME NEW R, HaveTexts(R), NEW P, NEW cs \in Seq(R), \A i \in DOMAIN cs : cs[i] \notin P
  PROVE  Told(cs, R, P) = <<>>
<1>1. \A i \in DOMAIN cs : Telling(R, P)[cs[i]] = <<>>
  BY DEF Telling
<1> QED
  BY <1>1, TellingIs, MapOfEmpty DEF Told

LEMMA ContentsAre ==
  ASSUME NEW R, HaveTexts(R), NEW cs \in Seq(R), NEW ds \in Seq(R)
  PROVE  Contents(cs) \in Seq(Text) /\ Contents(cs \o ds) = Contents(cs) \o Contents(ds)
<1> DEFINE g == [c \in R |-> c.content]
<1>1. g \in [R -> Text]
  BY DEF HaveTexts
<1>2. ASSUME NEW es \in Seq(R) PROVE Contents(es) = Each(es, g)
  BY <1>2 DEF Contents, Each
<1> HIDE DEF g
<1>3. cs \o ds \in Seq(R)
  OBVIOUS
<1>4. Each(cs \o ds, g) = Each(cs, g) \o Each(ds, g)
  BY <1>1, EachTogether
<1>5. Each(cs, g) \in Seq(Text)
  BY <1>1, EachIsASequence
<1> QED
  BY <1>2, <1>3, <1>4, <1>5

(* All of them.                                                             *)
LEMMA ToldAll ==
  ASSUME NEW R, HaveTexts(R), NEW P, NEW cs \in Seq(R), \A i \in DOMAIN cs : cs[i] \in P
  PROVE  Told(cs, R, P) = Contents(cs)
<1> DEFINE U == {q \in Seq(R) : (\A i \in DOMAIN q : q[i] \in P) => Told(q, R, P) = Contents(q)}
<1>1. <<>> \in U
  <2>1. Told(<<>>, R, P) = <<>> /\ Contents(<<>>) = <<>>
    BY MapOfNone DEF Told, Contents
  <2> QED
    BY <2>1
<1>2. ASSUME NEW q \in Seq(R), NEW c \in R, q \in U PROVE Append(q, c) \in U
  <2> DEFINE more == Append(q, c)
  <2>1. /\ more \in Seq(R) /\ more = q \o <<c>> /\ <<c>> \in Seq(R) /\ more[Len(q) + 1] = c
        /\ DOMAIN more = 1 .. Len(q) + 1 /\ DOMAIN q = 1 .. Len(q) /\ Len(q) \in Nat
        /\ \A i \in 1 .. Len(q) : more[i] = q[i]
    OBVIOUS
  <2> HIDE DEF more
  <2>2. SUFFICES ASSUME \A i \in DOMAIN more : more[i] \in P PROVE Told(more, R, P) = Contents(more)
    BY <2>1 DEF more
  <2>3. c \in P /\ \A i \in DOMAIN q : q[i] \in P
    BY <2>1, <2>2
  <2>4. Told(q, R, P) = Contents(q)
    BY <1>2, <2>3
  <2>5. Told(<<c>>, R, P) = <<c.content>>
    <3>1. Mapped(<<c>>, Telling(R, P)) = Telling(R, P)[c]
      BY ZenonT(60), TellingIs, MapOfOne
    <3> QED
      BY <2>3, <3>1 DEF Told, Telling
  <2>6. Contents(<<c>>) = <<c.content>>
    BY DEF Contents
  <2>7. Told(q \o <<c>>, R, P) = Told(q, R, P) \o Told(<<c>>, R, P)
    BY <2>1, ToldTogether
  <2>8. Contents(q \o <<c>>) = Contents(q) \o Contents(<<c>>)
    BY <2>1, ContentsAre
  <2> QED
    BY <2>1, <2>4, <2>5, <2>6, <2>7, <2>8
<1>3. Seq(R) \subseteq U
  <2> HIDE DEF U
  <2> QED
    BY <1>1, <1>2, SeqInduction
<1> QED
  BY <1>3

LEMMA ChosenAreTold ==
  ASSUME NEW R, HaveTexts(R), NEW P, NEW Q, NEW cs \in Seq(R)
  PROVE  Told(Mapped(cs, Choosing(R, P)), R, Q) = Told(cs, R, P \cap Q)
<1>1. Choosing(R, P) \in [R -> Seq(R)]
  BY DEF Choosing
<1>2. ASSUME NEW c \in R PROVE Telling(R, P \cap Q)[c] = Mapped(Choosing(R, P)[c], Telling(R, Q))
  <2>1. CASE c \in P
    <3>1. Choosing(R, P)[c] = <<c>>
      BY <2>1 DEF Choosing
    <3>2. Mapped(<<c>>, Telling(R, Q)) = Telling(R, Q)[c]
      BY TellingIs, MapOfOne
    <3> QED
      BY <2>1, <3>1, <3>2 DEF Telling
  <2>2. CASE c \notin P
    <3>1. Choosing(R, P)[c] = <<>>
      BY <2>2 DEF Choosing
    <3> QED
      BY <2>2, <3>1, MapOfNone DEF Telling
  <2> QED
    BY <2>1, <2>2
<1>3. Composes(Telling(R, P \cap Q), Choosing(R, P), Telling(R, Q), R, R, Text)
  BY <1>1, <1>2, TellingIs DEF Composes
<1> QED
  BY <1>3, MapOfMap DEF Told

LEMMA ChosenContents ==
  ASSUME NEW R, HaveTexts(R), NEW P, NEW cs \in Seq(R)
  PROVE  Contents(Mapped(cs, Choosing(R, P))) = Told(cs, R, P)
<1> DEFINE s == Mapped(cs, Choosing(R, P))
<1>1. s \in Seq(R)
  BY ChosenAre
<1>2. Told(s, R, R) = Told(cs, R, P)
  <2>1. Telling(R, P \cap R) = Telling(R, P)
    BY DEF Telling
  <2> QED
    BY <2>1, ChosenAreTold DEF Told
<1> HIDE DEF s
<1>3. Told(s, R, R) = Contents(s)
  <2>1. \A i \in DOMAIN s : s[i] \in R
    BY <1>1
  <2> QED
    BY <1>1, <2>1, ToldAll
<1> QED
  BY <1>2, <1>3 DEF s

(* The children of chunk i, the chunks without a parent, and those of them  *)
(* on page n, as texts.                                                     *)
Kids(cs, i) == FlattenSeq([j \in DOMAIN cs |-> IF cs[j].parent = i THEN <<cs[j].content>> ELSE <<>>])

Tops(cs, n) ==
  FlattenSeq([j \in DOMAIN cs |->
    IF cs[j].page = n /\ cs[j].parent = 0 THEN <<cs[j].content>> ELSE <<>>])

LEMMA KidsAreTold ==
  ASSUME NEW R, NEW cs \in Seq(R), NEW i PROVE Kids(cs, i) = Told(cs, R, {c \in R : c.parent = i})
<1> DEFINE P == {c \in R : c.parent = i}
<1>1. [j \in DOMAIN cs |-> IF cs[j].parent = i THEN <<cs[j].content>> ELSE <<>>] = Each(cs, Telling(R, P))
  <2>1. ASSUME NEW j \in DOMAIN cs
        PROVE  (IF cs[j].parent = i THEN <<cs[j].content>> ELSE <<>>) = Telling(R, P)[cs[j]]
    BY DEF Telling
  <2> HIDE DEF P
  <2> QED
    BY <2>1 DEF Each
<1> QED
  BY <1>1 DEF Kids, Told, Mapped

LEMMA TopsAreTold ==
  ASSUME NEW R, NEW cs \in Seq(R), NEW n
  PROVE  Tops(cs, n) = Told(cs, R, {c \in R : c.page = n /\ c.parent = 0})
<1> DEFINE P == {c \in R : c.page = n /\ c.parent = 0}
<1>1. [j \in DOMAIN cs |-> IF cs[j].page = n /\ cs[j].parent = 0 THEN <<cs[j].content>> ELSE <<>>]
        = Each(cs, Telling(R, P))
  <2>1. ASSUME NEW j \in DOMAIN cs
        PROVE  (IF cs[j].page = n /\ cs[j].parent = 0 THEN <<cs[j].content>> ELSE <<>>) = Telling(R, P)[cs[j]]
    BY DEF Telling
  <2> HIDE DEF P
  <2> QED
    BY <2>1 DEF Each
<1> QED
  BY <1>1 DEF Tops, Told, Mapped

(* Pieces of one text after pieces of another.                              *)
Laps(a, b, k) ==
  /\ k <= Len(Words(b))
  /\ \E j \in DOMAIN Words(a) : SubSeq(Words(a), j, Len(Words(a))) = SubSeq(Words(b), 1, k)

Beyond(b, k) == SubSeq(Words(b), k + 1, Len(Words(b)))

Stitching(repeated, words, pieces, overlap) ==
  /\ repeated \in [1 .. Len(pieces) -> 0 .. overlap]
  /\ \A i \in 1 .. Len(pieces) : repeated[i] > 0 => i > 1 /\ Laps(pieces[i - 1], pieces[i], repeated[i])
  /\ words = FlattenSeq([i \in 1 .. Len(pieces) |-> Beyond(pieces[i], repeated[i])])

LEMMA StitchedIs ==
  ASSUME NEW words, NEW pieces \in Seq(Text), NEW overlap
  PROVE  Stitched(words, pieces, overlap) <=> \E repeated : Stitching(repeated, words, pieces, overlap)
<1>1. DOMAIN pieces = 1 .. Len(pieces)
  OBVIOUS
<1>2. ASSUME Stitched(words, pieces, overlap) PROVE \E repeated : Stitching(repeated, words, pieces, overlap)
  BY <1>1, <1>2 DEF Stitched, Stitching, Laps, Beyond
<1>3. ASSUME NEW repeated, Stitching(repeated, words, pieces, overlap)
      PROVE  Stitched(words, pieces, overlap)
  BY <1>1, <1>3 DEF Stitched, Stitching, Laps, Beyond
<1> QED
  BY <1>2, <1>3

LEMMA BeyondIsAText ==
  ASSUME NEW b \in Text, NEW k \in Nat PROVE Beyond(b, k) \in Text
<1>1. Words(b) \in Seq(Int)
  BY WordsAre DEF Text
<1> QED
  BY <1>1 DEF Beyond, Text

LEMMA StitchedTogether ==
  ASSUME NEW v, NEW w, NEW pieces \in Seq(Text), NEW more \in Seq(Text), NEW overlap \in Nat,
         Stitched(v, pieces, overlap), Stitched(w, more, overlap)
  PROVE  Stitched(v \o w, pieces \o more, overlap)
<1> DEFINE u == pieces \o more
           n == Len(pieces)
           k == Len(more)
<1>1. PICK r : Stitching(r, v, pieces, overlap)
  BY StitchedIs
<1>2. PICK s : Stitching(s, w, more, overlap)
  BY StitchedIs
<1>3. u \in Seq(Text) /\ Follows(u, pieces, more)
  BY TwoTogether
<1>4. n \in Nat /\ k \in Nat /\ Len(u) = n + k
  BY <1>3 DEF Follows
<1> HIDE DEF u
<1> DEFINE q == [i \in 1 .. n + k |-> IF i <= n THEN r[i] ELSE s[i - n]]
           f == [i \in 1 .. n |-> Beyond(pieces[i], r[i])]
           g == [i \in 1 .. k |-> Beyond(more[i], s[i])]
           h == [i \in 1 .. n + k |-> Beyond(u[i], q[i])]
<1>5. /\ r \in [1 .. n -> 0 .. overlap] /\ s \in [1 .. k -> 0 .. overlap]
      /\ v = FlattenSeq(f) /\ w = FlattenSeq(g)
  BY <1>1, <1>2 DEF Stitching
<1>6. \A i \in 1 .. n : u[i] = pieces[i]
  BY <1>3 DEF Follows
<1>7. \A i \in 1 .. k : u[n + i] = more[i]
  BY <1>3 DEF Follows
<1>8. /\ q \in [1 .. n + k -> 0 .. overlap] /\ \A i \in 1 .. n : q[i] = r[i]
      /\ \A i \in 1 .. k : q[n + i] = s[i]
  <2>1. \A i \in 1 .. n + k : i <= n \/ i - n \in 1 .. k
    BY <1>4
  <2>2. \A i \in 1 .. n : i \in 1 .. n + k /\ i <= n
    BY <1>4
  <2>3. \A i \in 1 .. k : n + i \in 1 .. n + k /\ ~(n + i <= n) /\ (n + i) - n = i
    BY <1>4
  <2> QED
    BY <1>4, <1>5, <2>1, <2>2, <2>3
<1> HIDE DEF q
<1>9. ASSUME NEW i \in 1 .. n + k, q[i] > 0 PROVE i > 1 /\ Laps(u[i - 1], u[i], q[i])
  <2>1. CASE i <= n
    <3>1. i \in 1 .. n
      BY <1>4, <2>1
    <3>2. i > 1 /\ Laps(pieces[i - 1], pieces[i], r[i])
      BY <1>1, <1>8, <1>9, <3>1 DEF Stitching
    <3>3. i - 1 \in 1 .. n
      BY <1>4, <3>1, <3>2
    <3> QED
      BY <1>6, <1>8, <3>1, <3>2, <3>3
  <2>2. CASE i > n
    <3> DEFINE j == i - n
    <3>1. j \in 1 .. k /\ i = n + j
      BY <1>4, <2>2
    <3> HIDE DEF j
    <3>2. j > 1 /\ Laps(more[j - 1], more[j], s[j])
      BY <1>2, <1>8, <1>9, <3>1 DEF Stitching
    <3>3. j - 1 \in 1 .. k /\ i - 1 = n + (j - 1) /\ i > 1
      BY <1>4, <3>1, <3>2
    <3> QED
      BY <1>7, <1>8, <3>1, <3>2, <3>3
  <2> QED
    BY <1>4, <2>1, <2>2
<1>10. v \o w = FlattenSeq(h)
  <2>1. f \in Seq(Text) /\ Len(f) = n /\ \A i \in 1 .. n : f[i] = Beyond(pieces[i], r[i])
    <3>1. \A i \in 1 .. n : Beyond(pieces[i], r[i]) \in Text
      <4>1. \A i \in 1 .. n : pieces[i] \in Text /\ r[i] \in Nat
        BY <1>5
      <4> QED
        BY <4>1, BeyondIsAText
    <3> QED
      BY <1>4, <3>1
  <2>2. g \in Seq(Text) /\ Len(g) = k /\ \A i \in 1 .. k : g[i] = Beyond(more[i], s[i])
    <3>1. \A i \in 1 .. k : Beyond(more[i], s[i]) \in Text
      <4>1. \A i \in 1 .. k : more[i] \in Text /\ s[i] \in Nat
        BY <1>5
      <4> QED
        BY <4>1, BeyondIsAText
    <3> QED
      BY <1>4, <3>1
  <2>3. h \in Seq(Text) /\ Len(h) = n + k /\ \A i \in 1 .. n + k : h[i] = Beyond(u[i], q[i])
    <3>1. \A i \in 1 .. n + k : Beyond(u[i], q[i]) \in Text
      <4>1. \A i \in 1 .. n + k : u[i] \in Text /\ q[i] \in Nat
        BY SMTT(40), <1>3, <1>4, <1>8
      <4> QED
        BY <4>1, BeyondIsAText
    <3> QED
      BY <1>4, <3>1
  <2> HIDE DEF f, g, h
  <2>4. f \o g \in Seq(Text) /\ Follows(f \o g, f, g)
    BY <2>1, <2>2, TwoTogether
  <2> DEFINE fg == f \o g
  <2>5. /\ fg \in Seq(Text) /\ Len(fg) = n + k /\ \A i \in 1 .. n : fg[i] = f[i]
        /\ \A i \in 1 .. k : fg[n + i] = g[i]
    BY <2>1, <2>2, <2>4 DEF Follows
  <2> HIDE DEF fg
  <2>6. ASSUME NEW i \in 1 .. n + k PROVE fg[i] = h[i]
    <3>1. CASE i <= n
      <4>1. i \in 1 .. n
        BY <1>4, <3>1
      <4> QED
        BY <1>6, <1>8, <2>1, <2>3, <2>5, <4>1
    <3>2. CASE i > n
      <4> DEFINE j == i - n
      <4>1. j \in 1 .. k /\ i = n + j
        BY <1>4, <3>2
      <4> HIDE DEF j
      <4> QED
        BY <1>7, <1>8, <2>2, <2>3, <2>5, <4>1
    <3> QED
      BY <1>4, <3>1, <3>2
  <2>7. fg = h
    BY <2>3, <2>5, <2>6, SameList
  <2>8. FlattenSeq(fg) = FlattenSeq(f) \o FlattenSeq(g)
    BY <2>1, <2>2, FlatTogether DEF fg, Text
  <2> QED
    BY <1>5, <2>7, <2>8 DEF f, g
<1>11. Stitching(q, v \o w, u, overlap)
  BY <1>4, <1>8, <1>9, <1>10 DEF Stitching
<1> QED
  BY <1>3, <1>11, StitchedIs DEF u

LEMMA FlatStitched ==
  ASSUME NEW sss \in Seq(Seq(Text)), NEW tt \in Seq(Text), Len(sss) = Len(tt), NEW overlap \in Nat,
         \A i \in 1 .. Len(tt) : Stitched(Words(tt[i]), sss[i], overlap)
  PROVE  Stitched(Says(tt), FlattenSeq(sss), overlap)
<1> DEFINE n == Len(tt)
           U == {m \in Nat : m <= n =>
                   Stitched(Says(SubSeq(tt, 1, m)), FlattenSeq(SubSeq(sss, 1, m)), overlap)}
<1>1. n \in Nat
  OBVIOUS
<1>2. 0 \in U
  <2>1. SubSeq(tt, 1, 0) = <<>> /\ SubSeq(sss, 1, 0) = <<>>
    OBVIOUS
  <2>2. <<>> \in Seq(Text) /\ FlattenSeq(<<>>) = <<>>
    BY FlatOfNone
  <2>3. Stitched(Says(<<>>), <<>>, overlap)
    BY <2>2, StitchedWhole
  <2> QED
    BY <2>1, <2>2, <2>3
<1>3. ASSUME NEW m \in Nat, m \in U PROVE m + 1 \in U
  <2> SUFFICES ASSUME m + 1 <= n
      PROVE Stitched(Says(SubSeq(tt, 1, m + 1)), FlattenSeq(SubSeq(sss, 1, m + 1)), overlap)
    OBVIOUS
  <2> DEFINE a == SubSeq(tt, 1, m)
             b == SubSeq(sss, 1, m)
             t == tt[m + 1]
             ss == sss[m + 1]
  <2>1. /\ a \in Seq(Text) /\ t \in Text /\ m + 1 \in 1 .. n
        /\ SubSeq(tt, 1, m + 1) = Append(a, t)
    BY PrefixGrows
  <2>2. b \in Seq(Seq(Text)) /\ ss \in Seq(Text) /\ SubSeq(sss, 1, m + 1) = Append(b, ss)
    BY PrefixGrows
  <2>3. Stitched(Says(a), FlattenSeq(b), overlap)
    BY <1>1, <1>3, <2>1
  <2>4. Stitched(Words(t), ss, overlap)
    BY <2>1
  <2> HIDE DEF a, b, t, ss
  <2>5. Says(Append(a, t)) = Says(a) \o Words(t)
    BY <2>1, SaysAppends
  <2>6. FlattenSeq(Append(b, ss)) = FlattenSeq(b) \o ss /\ FlattenSeq(b) \in Seq(Text)
    BY <2>2, FlatAppends, FlatIsASequence
  <2> QED
    BY <2>1, <2>2, <2>3, <2>4, <2>5, <2>6, StitchedTogether
<1>4. n \in U
  <2> HIDE DEF U
  <2> QED
    BY <1>1, <1>2, <1>3, SetInduction
<1>5. SubSeq(tt, 1, n) = tt /\ SubSeq(sss, 1, n) = sss
  BY WholeList
<1>6. Stitched(Says(SubSeq(tt, 1, n)), FlattenSeq(SubSeq(sss, 1, n)), overlap)
  BY <1>1, <1>4
<1> QED
  BY <1>5, <1>6

(* A text cut after some of its places.                                     *)
LEMMA CutsSay ==
  ASSUME NEW text \in Text, NEW ends PROVE Says(CutAfter(text, ends)) = Words(text)
<1> DEFINE n == Len(text)
<1>1. PICK it \in [0 .. Len(text) -> [pieces : Seq(Text), from : Nat \ {0}]] :
        /\ it[0] = [pieces |-> <<>>, from |-> 1]
        /\ \A m \in 1 .. Len(text) : it[m] = CutStep(text, ends, it[m - 1], Places(text)[m])
        /\ CutAfter(text, ends) = it[Len(text)].pieces
  BY CutRun
<1> DEFINE told(m) == Says(it[m].pieces) \o Words(SubSeq(text, it[m].from, m))
           U == {m \in Nat : m <= n =>
                  /\ it[m].from \in 1 .. m + 1
                  /\ m = n => it[m].from = n + 1
                  /\ told(m) = Words(SubSeq(text, 1, m))}
<1>2. n \in Nat /\ SubSeq(text, 1, n) = text /\ SubSeq(text, 1, 0) = <<>>
  BY WholeText
<1>3. 0 \in U
  <2>1. told(0) = Words(SubSeq(text, 1, 0))
    <3>1. it[0].pieces = <<>> /\ it[0].from = 1
      BY <1>1
    <3>2. Words(SubSeq(text, 1, 0)) = <<>> /\ Says(<<>>) = <<>>
      BY <1>2, SaysOfFew, WordsOfNone
    <3>3. <<>> \o <<>> = <<>>
      OBVIOUS
    <3> QED
      BY <3>1, <3>2, <3>3
  <2> HIDE DEF told
  <2> QED
    BY <1>1, <1>2, <2>1
<1>4. ASSUME NEW m \in Nat, m \in U PROVE m + 1 \in U
  <2> SUFFICES ASSUME m + 1 <= n
      PROVE  /\ it[m + 1].from \in 1 .. (m + 1) + 1
             /\ m + 1 = n => it[m + 1].from = n + 1
             /\ told(m + 1) = Words(SubSeq(text, 1, m + 1))
    OBVIOUS
  <2> DEFINE a == it[m]
             b == it[m + 1]
             k == m + 1
  <2>0. SUFFICES /\ b.from \in 1 .. k + 1
                 /\ k = n => b.from = n + 1
                 /\ Says(b.pieces) \o Words(SubSeq(text, b.from, k)) = Words(SubSeq(text, 1, k))
    OBVIOUS
  <2>1. k \in 1 .. n /\ m \in 0 .. n /\ k - 1 = m /\ Places(text)[k] = k
    BY <1>2 DEF Places, Text
  <2>2. b = CutStep(text, ends, a, k)
    <3>1. it[k] = CutStep(text, ends, it[k - 1], Places(text)[k])
      BY <1>1, <2>1
    <3> QED
      BY <2>1, <3>1
  <2>3. a \in [pieces : Seq(Text), from : Nat \ {0}] /\ a.from \in 1 .. m + 1
    BY SMTT(40), <1>1, <1>4, <2>1
  <2>4. Says(a.pieces) \o Words(SubSeq(text, a.from, m)) = Words(SubSeq(text, 1, m))
    BY <1>4, <2>1
  <2> HIDE DEF a, b, k
  <2> DEFINE here == SubSeq(text, a.from, k)
             lst == SubSeq(text, k, k)
  <2>5. a.from \in 1 .. n + 1 /\ 1 \in 1 .. n + 1 /\ m \in a.from - 1 .. k /\ m \in 1 - 1 .. k /\ m + 1 = k
    BY <1>2, <2>1, <2>3 DEF k
  <2>6. /\ here \in Text /\ lst \in Text /\ SubSeq(text, a.from, m) \in Text
        /\ Words(here) = Words(SubSeq(text, a.from, m)) \o Words(lst)
    <3>1. k \in 0 .. n
      BY <2>1
    <3> QED
      BY <2>5, <3>1, CutInTwo, WordsCut
  <2>7. Words(SubSeq(text, 1, k)) = Words(SubSeq(text, 1, m)) \o Words(lst)
    <3>1. k \in 0 .. n
      BY <2>1
    <3> QED
      BY <2>5, <3>1, WordsCut
  <2> HIDE DEF here, lst
  <2>8. Says(a.pieces) \o Words(here) = Words(SubSeq(text, 1, k))
    <3>1. Says(a.pieces) \in Text
      BY <2>3, SaysTogether
    <3>2. Words(SubSeq(text, a.from, m)) \in Text /\ Words(lst) \in Text
      BY <2>6, WordsAre
    <3> DEFINE x == Says(a.pieces)
               y == Words(SubSeq(text, a.from, m))
               z == Words(lst)
    <3>3. x \in Text /\ y \in Text /\ z \in Text
      BY <3>1, <3>2
    <3>4. Words(here) = y \o z /\ Words(SubSeq(text, 1, m)) = x \o y
      BY <2>4, <2>6
    <3> HIDE DEF x, y, z
    <3>5. (x \o y) \o z = x \o (y \o z)
      BY ZenonT(60), <3>3, TextsAssociate
    <3> QED
      BY <2>7, <3>4, <3>5 DEF x, z
  <2>9. CASE k \in ends \cup {Len(text)}
    <3> DEFINE more == Append(a.pieces, here)
    <3>1. b = [pieces |-> more, from |-> k + 1]
      BY <2>2, <2>9 DEF CutStep, here
    <3>2. Says(more) = Says(a.pieces) \o Words(here) /\ Says(more) \in Text
      <4>1. more \in Seq(Text)
        BY <2>3, <2>6
      <4> QED
        BY <2>3, <2>6, <4>1, SaysAppends, SaysTogether
    <3> HIDE DEF more
    <3>3. SubSeq(text, k + 1, k) = <<>>
      BY <2>1 DEF Text
    <3>4. b.pieces = more /\ b.from = k + 1
      BY <3>1
    <3>5. Says(b.pieces) \o Words(SubSeq(text, b.from, k)) = Says(more)
      <4>1. Words(SubSeq(text, b.from, k)) = <<>>
        BY <3>3, <3>4, WordsOfNone
      <4>2. Says(more) \o <<>> = Says(more)
        BY <3>2, EmptyTexts
      <4> QED
        BY <3>4, <4>1, <4>2
    <3> QED
      <4> DEFINE from == b.from
      <4>0. from = k + 1 /\ k \in 1 .. n /\ n \in Nat
        BY <1>2, <2>1, <3>4
      <4> HIDE DEF from
      <4>1. from \in 1 .. k + 1 /\ (k = n => from = n + 1)
        BY <4>0
      <4>2. Says(b.pieces) \o Words(SubSeq(text, b.from, k)) = Words(SubSeq(text, 1, k))
        BY <2>8, <3>2, <3>5
      <4> QED
        BY <4>1, <4>2 DEF from
  <2>10. CASE k \notin ends \cup {Len(text)}
    <3>1. b = a /\ k # n
      BY <2>2, <2>10 DEF CutStep
    <3> QED
      <4> DEFINE from == b.from
      <4>0. from \in 1 .. m + 1 /\ m + 1 = k /\ k # n /\ k \in 1 .. n /\ n \in Nat
        BY <1>2, <2>1, <2>3, <2>5, <3>1
      <4> HIDE DEF from
      <4>1. from \in 1 .. k + 1 /\ (k = n => from = n + 1)
        BY <4>0
      <4>2. Says(b.pieces) \o Words(SubSeq(text, b.from, k)) = Words(SubSeq(text, 1, k))
        BY <2>8, <3>1 DEF here
      <4> QED
        BY <4>1, <4>2 DEF from
  <2> QED
    BY <2>9, <2>10
<1>5. n \in U
  <2> HIDE DEF U
  <2> QED
    BY <1>2, <1>3, <1>4, SetInduction
<1>6. it[n].from = n + 1 /\ told(n) = Words(text)
  <2>1. it[n].from = n + 1 /\ told(n) = Words(SubSeq(text, 1, n))
    <3> HIDE DEF told
    <3> QED
      BY <1>2, <1>5
  <2> HIDE DEF told
  <2> QED
    BY <1>2, <2>1
<1>7. it[n].pieces \in Seq(Text)
  BY <1>1, <1>2
<1>8. SubSeq(text, n + 1, n) = <<>>
  BY <1>2 DEF Text
<1>9. Says(it[n].pieces) = told(n)
  <2>1. Says(it[n].pieces) \in Text
    BY <1>7, SaysTogether
  <2>2. Words(SubSeq(text, it[n].from, n)) = <<>>
    BY <1>6, <1>8, WordsOfNone
  <2> QED
    BY <2>1, <2>2, EmptyTexts
<1> QED
  BY <1>1, <1>6, <1>9

LEMMA SentencesSay ==
  ASSUME NEW page \in Text PROVE Says(Sentences(page)) = Words(page)
<1> DEFINE sep == <<Newline, Newline>>
           paragraphs == split(sep, page)
           solid == Stripped(paragraphs)
           cuts(p) == CutAfter(p, SentenceEnds(p))
           f == [i \in DOMAIN paragraphs |-> cuts(strip(paragraphs[i]))]
<1>1. sep \in Text \ {<<>>} /\ Words(sep) = <<>>
  <2>1. Separators[1] = <<Newline, Newline>>
    BY DEF Separators
  <2> QED
    BY <2>1, SeparatorsAre, SeparatorsSayNothing
<1> HIDE DEF sep
<1>2. paragraphs \in Seq(Text) /\ Says(paragraphs) = Words(page)
  BY <1>1, SplitsAreTexts, SplitSays
<1>3. Sentences(page) = NonEmpty(Stripped(FlattenSeq(f)))
  BY DEF Sentences, Stripped, sep
<1>4. \A p \in Text : cuts(p) \in Seq(Text) /\ Says(cuts(p)) = Words(p)
  BY CutsAreTexts, CutsSay
<1>5. \A i \in DOMAIN paragraphs : solid[i] = strip(paragraphs[i])
  BY DEF Stripped
<1> HIDE DEF paragraphs, cuts
<1>6. DOMAIN paragraphs = 1 .. Len(paragraphs) /\ Len(paragraphs) \in Nat
  BY <1>2
<1>7. solid \in Seq(Text) /\ Len(solid) = Len(paragraphs) /\ Says(solid) = Words(page)
  <2>1. solid \in Seq(Text) /\ Says(solid) = Words(page)
    BY <1>2, StripsAreTexts, StrippedSay
  <2>2. Len(solid) = Len(paragraphs)
    BY <1>6 DEF Stripped
  <2> QED
    BY <2>1, <2>2
<1> HIDE DEF solid
<1>8. /\ f \in Seq(Seq(Text)) /\ Len(f) = Len(solid)
      /\ \A i \in 1 .. Len(solid) : Says(f[i]) = Words(solid[i])
  <2>1. \A i \in 1 .. Len(paragraphs) : f[i] = cuts(solid[i]) /\ solid[i] \in Text
    BY <1>5, <1>6, <1>7
  <2>2. \A i \in 1 .. Len(paragraphs) : f[i] \in Seq(Text) /\ Says(f[i]) = Words(solid[i])
    <3> HIDE DEF f
    <3> QED
      BY <1>4, <2>1
  <2>3. f = [i \in 1 .. Len(paragraphs) |-> f[i]]
    BY <1>6
  <2> HIDE DEF f
  <2> QED
    BY <1>6, <1>7, <2>2, <2>3
<1> HIDE DEF f
<1>9. FlattenSeq(f) \in Seq(Text) /\ Says(FlattenSeq(f)) = Words(page)
  <2>1. FlattenSeq(f) \in Seq(Text)
    BY <1>8, FlatIsASequence
  <2>2. Says(FlattenSeq(f)) = Says(solid)
    BY <1>7, <1>8, SaysOfFlat
  <2> QED
    BY <1>7, <2>1, <2>2
<1> DEFINE flat == FlattenSeq(f)
<1> HIDE DEF flat
<1>10. flat \in Seq(Text) /\ Says(flat) = Words(page)
  BY <1>9 DEF flat
<1>11. Stripped(flat) \in Seq(Text) /\ Says(Stripped(flat)) = Words(page)
  BY <1>10, StripsAreTexts, StrippedSay
<1>12. Says(NonEmpty(Stripped(flat))) = Words(page)
  BY <1>11, NonEmptySays
<1> QED
  BY <1>3, <1>12 DEF flat

LEMMA BlocksSay ==
  ASSUME NEW page \in Text PROVE Says(Blocks(page)) = Words(page)
<1> DEFINE starts == DefinitionStarts(page)
           blocks == CutAfter(page, {i - 1 : i \in starts})
<1>1. Blocks(page) = IF strip(page) = <<>> THEN <<>> ELSE IF starts = {} THEN <<page>>
                     ELSE NonEmpty(Stripped(blocks))
  BY DEF Blocks, Stripped
<1>2. blocks \in Seq(Text) /\ Says(blocks) = Words(page)
  BY CutsAreTexts, CutsSay
<1> HIDE DEF starts, blocks
<1>3. CASE strip(page) = <<>>
  <2>1. Words(page) = <<>>
    BY <1>3, StripSays, WordsOfNone
  <2> QED
    BY <1>1, <1>3, <2>1, SaysOfFew
<1>4. CASE strip(page) # <<>> /\ starts = {}
  BY <1>1, <1>4, SaysOfFew
<1>5. CASE strip(page) # <<>> /\ starts # {}
  <2>1. Stripped(blocks) \in Seq(Text) /\ Says(Stripped(blocks)) = Words(page)
    BY <1>2, StripsAreTexts, StrippedSay
  <2>2. Says(NonEmpty(Stripped(blocks))) = Words(page)
    BY <2>1, NonEmptySays
  <2> QED
    BY <1>1, <1>5, <2>2
<1> QED
  BY <1>3, <1>4, <1>5

(* Chunks without parents.                                                  *)
Plain == {c \in Chunk : c.parent = 0}

LEMMA PlainChunks ==
  ASSUME NEW ss \in Seq(Text), NEW type \in {"text", "table", "code"}
  PROVE  Chunks(ss, type) \in Seq(Plain) /\ Contents(Chunks(ss, type)) = ss
<1>1. \A t \in Text : TextChunk(t, type) \in Plain /\ TextChunk(t, type).content = t
  BY DEF TextChunk, Chunk, Plain
<1>2. Len(ss) \in Nat /\ DOMAIN ss = 1 .. Len(ss) /\ \A i \in 1 .. Len(ss) : ss[i] \in Text
  OBVIOUS
<1> DEFINE cs == Chunks(ss, type)
<1>3. cs = [i \in 1 .. Len(ss) |-> TextChunk(ss[i], type)]
  BY <1>2 DEF Chunks
<1>4. cs \in Seq(Plain) /\ DOMAIN cs = 1 .. Len(ss)
  BY <1>1, <1>2, <1>3
<1>5. \A i \in 1 .. Len(ss) : cs[i].content = ss[i]
  BY <1>1, <1>2, <1>3
<1> HIDE DEF cs
<1>6. Contents(cs) = [i \in 1 .. Len(ss) |-> ss[i]]
  BY <1>4, <1>5 DEF Contents
<1>7. [i \in 1 .. Len(ss) |-> ss[i]] = ss
  BY <1>2
<1> QED
  BY <1>4, <1>6, <1>7 DEF cs

LEMMA PlainsHaveTexts == HaveTexts(Plain) /\ HaveTexts(Chunk)
BY DEF HaveTexts, Plain, Chunk

LEMMA KidsOfPlain ==
  ASSUME NEW cut \in Seq(Plain) PROVE Kids(cut, 0) = Contents(cut) /\ cut \in Seq(Chunk)
<1>1. Kids(cut, 0) = Told(cut, Plain, {c \in Plain : c.parent = 0})
  BY KidsAreTold
<1>2. \A i \in DOMAIN cut : cut[i] \in {c \in Plain : c.parent = 0}
  BY DEF Plain
<1> DEFINE P == {c \in Plain : c.parent = 0}
<1> HIDE DEF P
<1>3. Told(cut, Plain, P) = Contents(cut)
  BY <1>2, PlainsHaveTexts, ToldAll DEF P
<1>4. cut \in Seq(Chunk)
  BY DEF Plain
<1> QED
  BY <1>1, <1>3, <1>4 DEF P

(* What a chunker without parents keeps of a page.                          *)
Keeps(cut, page, overlap) == cut \in Seq(Plain) /\ Stitched(Words(page), Contents(cut), overlap)

LEMMA RecursiveKeeps ==
  ASSUME NEW page \in Text PROVE Keeps(RecursiveChunker(page), page, Overlap)
<1> DEFINE ss == split_text(page, Size, Overlap)
<1>1. ss \in Seq(Text) /\ Stitched(Words(page), ss, Overlap)
  BY ChunkerAssumption, SplitTextSays
<1>2. RecursiveChunker(page) = Chunks(ss, "text")
  BY DEF RecursiveChunker
<1> HIDE DEF ss
<1> QED
  BY <1>1, <1>2, PlainChunks DEF Keeps

LEMMA WholeKept ==
  ASSUME NEW page \in Text, NEW ss \in Seq(Text), Says(ss) = Words(page), NEW type \in {"text", "table", "code"}
  PROVE  Keeps(Chunks(ss, type), page, 0)
<1>1. Stitched(Says(ss), ss, 0)
  BY StitchedWhole
<1>2. Chunks(ss, type) \in Seq(Plain) /\ Contents(Chunks(ss, type)) = ss
  BY PlainChunks
<1> QED
  BY <1>1, <1>2 DEF Keeps

LEMMA CodeKeeps ==
  ASSUME NEW page \in Text PROVE Keeps(CodeAwareChunker(page), page, 0)
<1> DEFINE blocks == Blocks(page)
           cut(block) == IF Len(block) <= Size THEN <<block>> ELSE split_text(block, Size, 0)
           f == [i \in DOMAIN blocks |-> cut(blocks[i])]
<1>1. Size \in Nat \ {0}
  BY ChunkerAssumption
<1>2. blocks \in Seq(Text) /\ Says(blocks) = Words(page)
  BY BlocksAreTexts, BlocksSay
<1>3. ASSUME NEW block \in Text PROVE cut(block) \in Seq(Text) /\ Says(cut(block)) = Words(block)
  <2>1. split_text(block, Size, 0) \in Seq(Text) /\ Says(split_text(block, Size, 0)) = Words(block)
    BY <1>1, SplitTextSays
  <2>2. <<block>> \in Seq(Text) /\ Says(<<block>>) = Words(block)
    BY SaysOfFew
  <2> QED
    BY <2>1, <2>2
<1>4. CodeAwareChunker(page) = Chunks(FlattenSeq(f), "code")
  BY DEF CodeAwareChunker
<1> HIDE DEF cut, blocks
<1>5. DOMAIN blocks = 1 .. Len(blocks) /\ Len(blocks) \in Nat
  BY <1>2
<1>6. /\ f = [i \in 1 .. Len(blocks) |-> f[i]]
      /\ \A i \in 1 .. Len(blocks) : f[i] \in Seq(Text) /\ Says(f[i]) = Words(blocks[i])
  BY <1>2, <1>3, <1>5
<1> HIDE DEF f
<1>7. f \in Seq(Seq(Text)) /\ Len(f) = Len(blocks)
  BY <1>5, <1>6
<1>8. FlattenSeq(f) \in Seq(Text) /\ Says(FlattenSeq(f)) = Words(page)
  <2>1. Says(FlattenSeq(f)) = Says(blocks)
    BY <1>2, <1>6, <1>7, SaysOfFlat
  <2> QED
    BY <1>2, <1>7, <2>1, FlatIsASequence
<1> DEFINE flat == FlattenSeq(f)
<1> HIDE DEF flat
<1>9. Keeps(Chunks(flat, "code"), page, 0)
  BY <1>8, WholeKept DEF flat
<1> QED
  BY <1>4, <1>9 DEF flat

(* Sentences that are joined say what they say.                             *)
LEMMA JoinSays ==
  ASSUME NEW ss \in Seq(Text)
  PROVE  join(ss, <<Space>>) \in Text /\ Words(join(ss, <<Space>>)) = Says(ss)
<1> DEFINE sep == <<Space>>
           U == {q \in Seq(Text) : join(q, sep) \in Text /\ Words(join(q, sep)) = Says(q)}
<1>1. sep \in Text /\ Words(sep) = <<>>
  BY SeparatorsSayNothing DEF Text, Space
<1> HIDE DEF sep
<1>2. <<>> \in U
  <2>1. join(<<>>, sep) = <<>>
    BY <1>1, WordsOfNone, JoinOfOne
  <2>2. <<>> \in Seq(Text)
    OBVIOUS
  <2> QED
    BY <2>1, <2>2, WordsOfNone, SaysOfFew
<1>3. ASSUME NEW q \in Seq(Text), NEW t \in Text, q \in U PROVE Append(q, t) \in U
  <2> DEFINE j == join(q, sep)
  <2>1. join(Append(q, t), sep) = Joined(j, sep, t)
    BY <1>1, JoinAppends
  <2>2. j \in Text /\ Words(j) = Says(q)
    BY <1>3
  <2>3. Says(Append(q, t)) = Says(q) \o Words(t) /\ Append(q, t) \in Seq(Text)
    BY SaysAppends
  <2> HIDE DEF j
  <2>4. Joined(j, sep, t) \in Text /\ Words(Joined(j, sep, t)) = Words(j) \o Words(t)
    <3>1. CASE j = <<>>
      <4>1. Joined(j, sep, t) = t
        BY <3>1 DEF Joined
      <4>2. Words(j) = <<>> /\ Words(t) \in Text
        BY <3>1, WordsOfNone, WordsAre
      <4> QED
        BY <4>1, <4>2, EmptyTexts
    <3>2. CASE j # <<>>
      <4>1. Joined(j, sep, t) = j \o sep \o t
        BY <3>2 DEF Joined
      <4> DEFINE a == j \o sep
      <4>2. a \in Text /\ Words(a) = Words(j) \o Words(sep)
        BY <1>1, <2>2, WordsTogether
      <4>3. Words(j) \in Text
        BY <2>2, WordsAre
      <4>4. Words(j) \o Words(sep) = Words(j)
        BY <1>1, <4>3, EmptyTexts
      <4> HIDE DEF a
      <4>5. a \o t \in Text /\ Words(a \o t) = Words(a) \o Words(t)
        BY <4>2, WordsTogether
      <4> QED
        BY <4>1, <4>2, <4>4, <4>5 DEF a
    <3> QED
      BY <3>1, <3>2
  <2> QED
    BY <2>1, <2>2, <2>3, <2>4 DEF j
<1>4. Seq(Text) \subseteq U
  <2> HIDE DEF U
  <2> QED
    BY <1>2, <1>3, SeqInduction
<1> QED
  BY <1>4 DEF sep

GatherSays(acc) == Says(acc.chunks) \o Says(acc.current)

LEMMA GatheredSays ==
  ASSUME NEW acc, acc = [chunks |-> acc.chunks, current |-> acc.current],
         acc.chunks \in Seq(Text), acc.current \in Seq(Text), NEW s \in Text
  PROVE  GatherSays(Gathered(acc, s)) = GatherSays(acc) \o Words(s)
<1> DEFINE a == Says(acc.chunks)
           b == Says(acc.current)
           w == Words(s)
<1>1. a \in Text /\ b \in Text /\ w \in Text
  BY SaysTogether, WordsAre
<1>2. GatherSays(acc) = a \o b
  BY DEF GatherSays
<1>3. CASE acc.current # <<>> /\ LengthOf(acc.current) + Len(s) > Target
  <2> DEFINE t == join(acc.current, <<Space>>)
  <2>1. t \in Text /\ Words(t) = b
    BY JoinSays
  <2> HIDE DEF t
  <2>2. Gathered(acc, s) = [chunks |-> Append(acc.chunks, t), current |-> <<s>>]
    BY <1>3 DEF Gathered, t
  <2>3. Says(Append(acc.chunks, t)) = a \o b /\ Says(<<s>>) = w
    BY <2>1, SaysAppends, SaysOfFew
  <2> DEFINE g == Gathered(acc, s)
  <2>4. g.chunks = Append(acc.chunks, t) /\ g.current = <<s>>
    BY <2>2
  <2> HIDE DEF g
  <2>5. GatherSays(g) = (a \o b) \o w
    BY <2>3, <2>4 DEF GatherSays
  <2> QED
    BY <1>2, <2>5 DEF g
<1>4. CASE ~(acc.current # <<>> /\ LengthOf(acc.current) + Len(s) > Target)
  <2>1. Gathered(acc, s) = [chunks |-> acc.chunks, current |-> Append(acc.current, s)]
    BY <1>4 DEF Gathered
  <2>2. Says(Append(acc.current, s)) = b \o w
    BY SaysAppends
  <2>3. GatherSays(Gathered(acc, s)) = a \o (b \o w)
    <3> DEFINE g == Gathered(acc, s)
    <3>1. g.chunks = acc.chunks /\ g.current = Append(acc.current, s)
      BY <2>1
    <3> HIDE DEF g
    <3>2. GatherSays(g) = a \o (b \o w)
      BY <2>2, <3>1 DEF GatherSays
    <3> QED
      BY <3>2 DEF g
  <2> HIDE DEF a, b, w
  <2>4. (a \o b) \o w = a \o (b \o w)
    BY <1>1, TextsAssociate
  <2> QED
    BY <1>2, <2>3, <2>4 DEF w
<1> QED
  BY <1>3, <1>4

LEMMA SemanticKeeps ==
  ASSUME NEW page \in Text PROVE Keeps(SemanticChunker(page), page, 0)
<1> DEFINE ss == Sentences(page)
           end == AllGathered(ss)
           made == IF end.current = <<>> THEN end.chunks ELSE Append(end.chunks, join(end.current, <<Space>>))
<1>1. SemanticChunker(page) = Chunks(made, "text")
  BY DEF SemanticChunker, AllGathered, Gathered, LengthOf
<1>2. PICK it \in [0 .. Len(ss) -> Gathering(page)] :
           /\ it[0] = [chunks |-> <<>>, current |-> <<>>]
           /\ \A m \in 1 .. Len(ss) : it[m] = Gathered(it[m - 1], ss[m])
           /\ end = it[Len(ss)]
  BY GatherRun
<1>3. ss \in Seq(Text) /\ Says(ss) = Words(page)
  BY SentencesAreTexts, SentencesSay
<1>4. ASSUME NEW acc \in Gathering(page)
      PROVE  /\ acc = [chunks |-> acc.chunks, current |-> acc.current]
             /\ acc.chunks \in Seq(Text) /\ acc.current \in Seq(Text)
  <2>1. acc.chunks \in Seq(Sentence(page)) /\ acc.current \in Seq(ToSet(Sentences(page)))
    BY DEF Gathering
  <2>2. Sentence(page) \subseteq Text /\ ToSet(Sentences(page)) \subseteq Text
    BY SentencesFit DEF Sentence
  <2>3. acc = [chunks |-> acc.chunks, current |-> acc.current]
    BY DEF Gathering
  <2> HIDE DEF ss, end, made
  <2> QED
    BY <2>1, <2>2, <2>3
<1> HIDE DEF ss, end
<1> DEFINE n == Len(ss)
           U == {m \in Nat : m <= n => GatherSays(it[m]) = Says(SubSeq(ss, 1, m))}
<1>5. n \in Nat /\ SubSeq(ss, 1, n) = ss /\ SubSeq(ss, 1, 0) = <<>>
  BY <1>3, WholeList
<1>6. 0 \in U
  <2>1. it[0].chunks = <<>> /\ it[0].current = <<>>
    BY <1>2
  <2>2. GatherSays(it[0]) = Says(<<>>)
    <3>1. Says(<<>>) = <<>> /\ <<>> \o <<>> = <<>>
      BY SaysOfFew
    <3> QED
      BY <2>1, <3>1 DEF GatherSays
  <2> QED
    BY <1>5, <2>2
<1>7. ASSUME NEW m \in Nat, m \in U PROVE m + 1 \in U
  <2> SUFFICES ASSUME m + 1 <= n PROVE GatherSays(it[m + 1]) = Says(SubSeq(ss, 1, m + 1))
    OBVIOUS
  <2> DEFINE a == SubSeq(ss, 1, m)
             s == ss[m + 1]
  <2>1. /\ a \in Seq(Text) /\ s \in Text /\ m + 1 \in 1 .. n /\ (m + 1) - 1 = m
        /\ SubSeq(ss, 1, m + 1) = Append(a, s)
    BY <1>3, PrefixGrows
  <2>2. it[m + 1] = Gathered(it[m], s) /\ it[m] \in Gathering(page)
    BY <1>2, <1>5, <2>1
  <2>3. GatherSays(it[m]) = Says(a)
    BY <1>5, <1>7, <2>1
  <2> HIDE DEF a, s
  <2>4. GatherSays(Gathered(it[m], s)) = GatherSays(it[m]) \o Words(s)
    BY <1>4, <2>1, <2>2, GatheredSays
  <2>5. Says(Append(a, s)) = Says(a) \o Words(s)
    BY <2>1, SaysAppends
  <2> QED
    BY <2>1, <2>2, <2>3, <2>4, <2>5
<1>8. GatherSays(end) = Words(page) /\ end \in Gathering(page)
  <2>1. n \in U
    <3> HIDE DEF U
    <3> QED
      BY <1>5, <1>6, <1>7, SetInduction
  <2>2. GatherSays(it[n]) = Says(SubSeq(ss, 1, n))
    BY <1>5, <2>1
  <2>3. n \in 0 .. n
    BY <1>5
  <2> QED
    BY <1>2, <1>3, <1>5, <2>2, <2>3
<1>9. /\ end = [chunks |-> end.chunks, current |-> end.current]
      /\ end.chunks \in Seq(Text) /\ end.current \in Seq(Text)
  BY <1>4, <1>8
<1>10. made \in Seq(Text) /\ Says(made) = Words(page)
  <2>1. CASE end.current = <<>>
    <3>1. Says(end.chunks) \in Text
      BY <1>9, SaysTogether
    <3>2. Says(end.chunks) \o <<>> = Says(end.chunks)
      BY <3>1, EmptyTexts
    <3>3. GatherSays(end) = Says(end.chunks) \o <<>>
      BY <2>1, SaysOfFew DEF GatherSays
    <3> QED
      BY <1>8, <1>9, <2>1, <3>2, <3>3
  <2>2. CASE end.current # <<>>
    <3> DEFINE t == join(end.current, <<Space>>)
    <3>1. t \in Text /\ Words(t) = Says(end.current)
      BY <1>9, JoinSays
    <3> HIDE DEF t
    <3>2. made = Append(end.chunks, t)
      BY <2>2 DEF t
    <3>3. Says(Append(end.chunks, t)) = Says(end.chunks) \o Words(t) /\ Append(end.chunks, t) \in Seq(Text)
      BY <1>9, <3>1, SaysAppends
    <3> QED
      BY <1>8, <3>1, <3>2, <3>3 DEF GatherSays
  <2> QED
    BY <2>1, <2>2
<1> HIDE DEF made
<1> QED
  BY <1>1, <1>10, WholeKept

(* The lines of a page, and the segments they make.                         *)
LEMMA LinesSay ==
  ASSUME NEW s \in Text PROVE Says(splitlines(s)) = Words(s)
<1> DEFINE lines == split(<<Newline>>, s)
<1>1. <<Newline>> \in Text \ {<<>>} /\ Words(<<Newline>>) = <<>>
  <2>1. Separators[2] = <<Newline>>
    BY DEF Separators
  <2> QED
    BY <2>1, SeparatorsAre, SeparatorsSayNothing
<1>2. lines \in Seq(Text) /\ Says(lines) = Words(s)
  BY <1>1, SplitsAreTexts, SplitSays
<1>3. splitlines(s) = IF Last(lines) = <<>> THEN Front(lines) ELSE lines
  BY DEF splitlines
<1> HIDE DEF lines
<1>4. CASE lines = <<>>
  <2>1. Front(lines) = lines
    BY <1>4 DEF Front
  <2> QED
    BY <1>2, <1>3, <2>1
<1>5. CASE lines # <<>> /\ Last(lines) = <<>>
  <2> DEFINE a == Front(lines)
  <2>1. a \in Seq(Text) /\ lines = Append(a, Last(lines))
    BY <1>2, <1>5 DEF Front, Last
  <2> HIDE DEF a
  <2>2. Says(Append(a, <<>>)) = Says(a) \o Words(<<>>) /\ Says(a) \in Text
    BY <2>1, WordsOfNone, SaysAppends, SaysTogether
  <2>3. Says(a) \o <<>> = Says(a)
    BY <2>2, EmptyTexts
  <2>4. Says(lines) = Says(a)
    BY <1>5, <2>1, <2>2, <2>3, WordsOfNone
  <2> QED
    BY <1>2, <1>3, <1>5, <2>4 DEF a
<1>6. CASE lines # <<>> /\ Last(lines) # <<>>
  BY <1>2, <1>3, <1>6
<1> QED
  BY <1>4, <1>5, <1>6

LEMMA UnlinesSay ==
  ASSUME NEW lines \in Seq(Text) PROVE Words(unlines(lines)) = Says(lines)
<1> DEFINE f == [i \in DOMAIN lines |-> Append(lines[i], Newline)]
<1>1. <<Newline>> \in Text /\ Words(<<Newline>>) = <<>>
  BY SeparatorsSayNothing DEF Text, Newline
<1>2. ASSUME NEW t \in Text PROVE Append(t, Newline) \in Text /\ Words(Append(t, Newline)) = Words(t)
  <2>1. Append(t, Newline) = t \o <<Newline>>
    BY DEF Text
  <2>2. t \o <<Newline>> \in Text /\ Words(t \o <<Newline>>) = Words(t) \o Words(<<Newline>>)
    BY <1>1, WordsTogether
  <2>3. Words(t) \o <<>> = Words(t)
    BY WordsAre, EmptyTexts
  <2> QED
    BY <1>1, <2>1, <2>2, <2>3
<1>3. DOMAIN lines = 1 .. Len(lines) /\ Len(lines) \in Nat /\ \A i \in 1 .. Len(lines) : lines[i] \in Text
  OBVIOUS
<1>4. f = [i \in 1 .. Len(lines) |-> f[i]] /\ \A i \in 1 .. Len(lines) : f[i] = Append(lines[i], Newline)
  BY <1>3
<1>5. unlines(lines) = FlattenSeq(f)
  BY DEF unlines
<1> HIDE DEF f
<1>6. \A i \in 1 .. Len(lines) : f[i] \in Text /\ Words(f[i]) = Words(lines[i])
  BY <1>2, <1>3, <1>4
<1>7. f \in Seq(Text) /\ Len(f) = Len(lines)
  BY <1>3, <1>4, <1>6
<1>8. Words(FlattenSeq(f)) = Says(f)
  BY <1>7, WordsOfFlat
<1>9. Says(f) = Says(lines)
  BY <1>6, <1>7, SaysAgree
<1> QED
  BY <1>5, <1>8, <1>9

SaidBy == [g \in Segment |-> Says(g.lines)]

LEMMA SaidByIs == SaidBy \in [Segment -> Seq(Int)]
<1>1. \A g \in Segment : Says(g.lines) \in Seq(Int)
  <2>1. \A g \in Segment : g.lines \in Seq(Text)
    BY DEF Segment
  <2> QED
    BY <2>1, SaysTogether DEF Text
<1> QED
  BY <1>1 DEF SaidBy

LEMMA GroupedSays ==
  ASSUME NEW acc \in Seq(Segment), NEW line \in Text
  PROVE  Mapped(Grouped(acc, line), SaidBy) = Mapped(acc, SaidBy) \o Words(line)
<1> DEFINE w == Words(line)
<1>1. CASE acc # <<>> /\ Last(acc).table = is_table_line(line)
  <2> DEFINE n == Len(acc)
             before == SubSeq(acc, 1, n - 1)
             g == acc[n]
             r == [acc[n] EXCEPT !.lines = Append(@, line)]
  <2>1. n \in Nat \ {0} /\ before \in Seq(Segment) /\ g \in Segment /\ acc = Append(before, g)
    BY <1>1
  <2>2. r \in Segment /\ r.lines = Append(g.lines, line) /\ g.lines \in Seq(Text)
    <3>1. g.lines \in Seq(Text) /\ Append(g.lines, line) \in Seq(Text)
      BY <2>1 DEF Segment
    <3>2. \A x \in Segment, l \in Seq(Text) :
            [x EXCEPT !.lines = l] \in Segment /\ [x EXCEPT !.lines = l].lines = l
      BY DEF Segment
    <3> QED
      BY <2>1, <3>1, <3>2
  <2>3. [acc EXCEPT ![Len(acc)].lines = Append(@, line)] = [acc EXCEPT ![n] = r]
    OBVIOUS
  <2>4. Grouped(acc, line) = [acc EXCEPT ![n] = r]
    BY <1>1, <2>3 DEF Grouped
  <2> HIDE DEF r
  <2>5. [acc EXCEPT ![n] = r] = Append(before, r)
    <3> DEFINE u == [acc EXCEPT ![n] = r]
               v == Append(before, r)
    <3>1. u \in Seq(Segment) /\ Len(u) = n /\ \A i \in 1 .. n : u[i] = IF i = n THEN r ELSE acc[i]
      BY <2>1, <2>2
    <3>2. Len(before) = n - 1 /\ \A i \in 1 .. n - 1 : before[i] = acc[i]
      BY <2>1
    <3> HIDE DEF before
    <3>3. v \in Seq(Segment) /\ Len(v) = n /\ \A i \in 1 .. n : v[i] = IF i = n THEN r ELSE acc[i]
      BY <2>1, <2>2, <3>2
    <3> HIDE DEF u, v
    <3>4. \A i \in 1 .. Len(u) : u[i] = v[i]
      BY <3>1, <3>3
    <3>5. u = v
      BY <3>1, <3>3, <3>4, SameList
    <3> QED
      BY <3>5 DEF u, v
  <2> HIDE DEF before, g, n
  <2>6. SaidBy[r] = SaidBy[g] \o w
    <3>1. Says(Append(g.lines, line)) = Says(g.lines) \o w
      BY <2>2, SaysAppends
    <3> QED
      BY <2>1, <2>2, <3>1 DEF SaidBy
  <2>7. /\ Mapped(Append(before, r), SaidBy) = Mapped(before, SaidBy) \o SaidBy[r]
        /\ Mapped(Append(before, g), SaidBy) = Mapped(before, SaidBy) \o SaidBy[g]
    <3>1. \A x \in Segment : Mapped(Append(before, x), SaidBy) = Mapped(before, SaidBy) \o SaidBy[x]
      BY ZenonT(60), <2>1, SaidByIs, MapAppends
    <3> QED
      BY <2>1, <2>2, <3>1
  <2> DEFINE a == Mapped(before, SaidBy)
             b == SaidBy[g]
  <2>8. a \in Text /\ b \in Text /\ w \in Text
    <3>1. a \in Seq(Int) /\ b \in Seq(Int)
      BY <2>1, SaidByIs, MapIsASequence
    <3> QED
      BY <3>1, WordsAre DEF Text
  <2> HIDE DEF a, b, w
  <2>9. (a \o b) \o w = a \o (b \o w)
    BY ZenonT(60), <2>8, TextsAssociate
  <2> QED
    BY <2>1, <2>4, <2>5, <2>6, <2>7, <2>9 DEF a, b, w
<1>2. CASE ~(acc # <<>> /\ Last(acc).table = is_table_line(line))
  <2> DEFINE r == [table |-> is_table_line(line), lines |-> <<line>>]
  <2>1. r \in Segment /\ r.lines = <<line>>
    BY TableLineIsBoolean DEF Segment
  <2>2. Grouped(acc, line) = Append(acc, r)
    BY <1>2 DEF Grouped
  <2> HIDE DEF r
  <2>3. SaidBy[r] = w
    BY <2>1, SaysOfFew DEF SaidBy
  <2>4. Mapped(Append(acc, r), SaidBy) = Mapped(acc, SaidBy) \o SaidBy[r]
    BY <2>1, SaidByIs, MapAppends
  <2> QED
    BY <2>2, <2>3, <2>4
<1> QED
  BY <1>1, <1>2

LEMMA SegmentsSay ==
  ASSUME NEW page \in Text PROVE Mapped(segment(page), SaidBy) = Words(page)
<1> DEFINE lines == splitlines(page)
<1>1. lines \in Seq(Text) /\ Says(lines) = Words(page)
  BY LinesAreTexts, LinesSay
<1>2. segment(page) = GroupedLines(lines)
  BY DEF segment, GroupedLines, Grouped
<1> HIDE DEF lines
<1>3. PICK it \in [0 .. Len(lines) -> Seq(Segment)] :
        /\ it[0] = <<>>
        /\ \A m \in 1 .. Len(lines) : it[m] = Grouped(it[m - 1], lines[m])
        /\ GroupedLines(lines) = it[Len(lines)]
  BY <1>1, SegmentRun
<1> DEFINE n == Len(lines)
           U == {m \in Nat : m <= n => Mapped(it[m], SaidBy) = Says(SubSeq(lines, 1, m))}
<1>4. n \in Nat /\ SubSeq(lines, 1, n) = lines /\ SubSeq(lines, 1, 0) = <<>>
  BY <1>1, WholeList
<1>5. 0 \in U
  BY <1>3, <1>4, MapOfNone, SaysOfFew
<1>6. ASSUME NEW m \in Nat, m \in U PROVE m + 1 \in U
  <2> SUFFICES ASSUME m + 1 <= n PROVE Mapped(it[m + 1], SaidBy) = Says(SubSeq(lines, 1, m + 1))
    OBVIOUS
  <2> DEFINE a == SubSeq(lines, 1, m)
             t == lines[m + 1]
  <2>1. /\ a \in Seq(Text) /\ t \in Text /\ m + 1 \in 1 .. n /\ (m + 1) - 1 = m
        /\ SubSeq(lines, 1, m + 1) = Append(a, t)
    BY <1>1, PrefixGrows
  <2>2. it[m + 1] = Grouped(it[m], t) /\ it[m] \in Seq(Segment)
    BY <1>3, <1>4, <2>1
  <2>3. Mapped(it[m], SaidBy) = Says(a)
    BY <1>4, <1>6, <2>1
  <2> HIDE DEF a, t
  <2>4. Mapped(Grouped(it[m], t), SaidBy) = Mapped(it[m], SaidBy) \o Words(t)
    BY <2>1, <2>2, GroupedSays
  <2>5. Says(Append(a, t)) = Says(a) \o Words(t)
    BY <2>1, SaysAppends
  <2> QED
    BY <2>1, <2>2, <2>3, <2>4, <2>5
<1>7. n \in U
  <2> HIDE DEF U
  <2> QED
    BY <1>4, <1>5, <1>6, SetInduction
<1>8. Mapped(it[n], SaidBy) = Says(SubSeq(lines, 1, n))
  BY <1>4, <1>7
<1> QED
  BY <1>1, <1>2, <1>3, <1>4, <1>8

LEMMA FlatContents ==
  ASSUME NEW fs \in Seq(Seq(Plain)), NEW texts, texts = [cs \in Seq(Plain) |-> Contents(cs)]
  PROVE  /\ Each(fs, texts) \in Seq(Seq(Text)) /\ FlattenSeq(fs) \in Seq(Plain)
         /\ Contents(FlattenSeq(fs)) = FlattenSeq(Each(fs, texts))
<1> DEFINE same == [cs \in Seq(Plain) |-> cs]
           g == Telling(Plain, Plain)
<1>1. same \in [Seq(Plain) -> Seq(Plain)] /\ \A cs \in Seq(Plain) : same[cs] = cs
  OBVIOUS
<1> HIDE DEF same
<1>2. FlattenSeq(fs) \in Seq(Plain) /\ FlattenSeq(fs) = Mapped(fs, same)
  BY <1>1, FlatIsASequence, FlatIsMapped
<1>3. ASSUME NEW cs \in Seq(Plain) PROVE Mapped(cs, g) = Contents(cs) /\ Contents(cs) \in Seq(Text)
  <2>1. \A i \in DOMAIN cs : cs[i] \in Plain
    OBVIOUS
  <2>2. Told(cs, Plain, Plain) = Contents(cs) /\ Contents(cs) \in Seq(Text)
    BY <2>1, PlainsHaveTexts, ToldAll, ContentsAre
  <2> QED
    BY <2>2 DEF Told
<1>4. g \in [Plain -> Seq(Text)]
  BY PlainsHaveTexts, TellingIs
<1> HIDE DEF g
<1>5. texts \in [Seq(Plain) -> Seq(Text)]
  BY <1>3
<1>6. Composes(texts, same, g, Seq(Plain), Plain, Text)
  BY <1>1, <1>3, <1>4, <1>5 DEF Composes
<1>7. Mapped(Mapped(fs, same), g) = Mapped(fs, texts)
  BY <1>6, MapOfMap
<1>8. Mapped(FlattenSeq(fs), g) = Contents(FlattenSeq(fs))
  <2> DEFINE flat == FlattenSeq(fs)
  <2> HIDE DEF flat
  <2>1. flat \in Seq(Plain)
    BY <1>2 DEF flat
  <2>2. Mapped(flat, g) = Contents(flat)
    BY <1>3, <2>1
  <2> QED
    BY <2>2 DEF flat
<1>9. Each(fs, texts) \in Seq(Seq(Text))
  BY <1>5, MapIsASequence
<1> QED
  BY <1>2, <1>7, <1>8, <1>9 DEF Mapped

LEMMA TableKeeps ==
  ASSUME NEW page \in Text PROVE Keeps(TableAwareChunker(page), page, Overlap)
<1> DEFINE segments == segment(page)
           solid(piece) == strip(unlines(piece.lines))
           cut(piece) == LET block == solid(piece) IN
             IF block = <<>> THEN <<>>
             ELSE IF piece.table THEN <<TextChunk(block, "table")>>
             ELSE Chunks(split_text(block, Size, Overlap), "text")
           f == [i \in DOMAIN segments |-> cut(segments[i])]
           tt == [i \in DOMAIN segments |-> solid(segments[i])]
           texts == [cs \in Seq(Plain) |-> Contents(cs)]
<1>1. Size \in Nat \ {0} /\ Overlap \in Nat
  BY ChunkerAssumption
<1>2. segments \in Seq(Segment) /\ Mapped(segments, SaidBy) = Words(page)
  BY SegmentsAre, SegmentsSay
<1>3. ASSUME NEW piece \in Segment PROVE solid(piece) \in Text /\ Words(solid(piece)) = SaidBy[piece]
  <2> DEFINE block == unlines(piece.lines)
  <2>1. block \in Text /\ Words(block) = Says(piece.lines)
    <3>1. piece.lines \in Seq(Text)
      BY DEF Segment
    <3> QED
      BY <3>1, UnlinesIsAText, UnlinesSay
  <2> HIDE DEF block
  <2>2. strip(block) \in Text /\ Words(strip(block)) = Words(block)
    BY <2>1, StripShortens, StripSays
  <2> QED
    BY <2>1, <2>2 DEF block, SaidBy
<1>4. ASSUME NEW piece \in Segment
      PROVE  cut(piece) \in Seq(Plain) /\ Stitched(Words(solid(piece)), Contents(cut(piece)), Overlap)
  <2> DEFINE block == solid(piece)
  <2>1. block \in Text
    BY <1>3
  <2>2. cut(piece) = IF block = <<>> THEN <<>>
                     ELSE IF piece.table THEN <<TextChunk(block, "table")>>
                     ELSE Chunks(split_text(block, Size, Overlap), "text")
    OBVIOUS
  <2> HIDE DEF cut, block
  <2>3. CASE block = <<>>
    <3>1. Contents(<<>>) = <<>> /\ <<>> \in Seq(Plain) /\ <<>> \in Seq(Text)
      BY DEF Contents
    <3>2. Stitched(Says(<<>>), <<>>, Overlap)
      BY <1>1, <3>1, StitchedWhole
    <3>3. Says(<<>>) = <<>> /\ Words(block) = <<>> /\ cut(piece) = <<>>
      BY <2>2, <2>3, WordsOfNone, SaysOfFew
    <3> QED
      BY <3>1, <3>2, <3>3 DEF block
  <2>4. CASE block # <<>> /\ piece.table
    <3>1. cut(piece) = Chunks(<<block>>, "table")
      <4>1. Chunks(<<block>>, "table") = <<TextChunk(block, "table")>>
        BY DEF Chunks
      <4> QED
        BY <2>2, <2>4, <4>1
    <3>2. <<block>> \in Seq(Text) /\ Says(<<block>>) = Words(block)
      BY <2>1, SaysOfFew
    <3>3. /\ Chunks(<<block>>, "table") \in Seq(Plain)
          /\ Contents(Chunks(<<block>>, "table")) = <<block>>
      BY <3>2, PlainChunks
    <3>4. Stitched(Says(<<block>>), <<block>>, Overlap)
      BY <1>1, <3>2, StitchedWhole
    <3> QED
      BY <3>1, <3>2, <3>3, <3>4 DEF block
  <2>5. CASE block # <<>> /\ ~piece.table
    <3> DEFINE ss == split_text(block, Size, Overlap)
    <3>1. ss \in Seq(Text) /\ Stitched(Words(block), ss, Overlap)
      BY <1>1, <2>1, SplitTextSays
    <3>2. cut(piece) = Chunks(ss, "text")
      BY <2>2, <2>5
    <3> HIDE DEF ss
    <3>3. Chunks(ss, "text") \in Seq(Plain) /\ Contents(Chunks(ss, "text")) = ss
      BY <3>1, PlainChunks
    <3> QED
      BY <3>1, <3>2, <3>3 DEF block
  <2> QED
    BY <2>3, <2>4, <2>5
<1>5. TableAwareChunker(page) = FlattenSeq(f)
  BY DEF TableAwareChunker
<1> HIDE DEF cut, solid, segments
<1>6. DOMAIN segments = 1 .. Len(segments) /\ Len(segments) \in Nat
  BY <1>2
<1>7. /\ f = [i \in 1 .. Len(segments) |-> f[i]] /\ \A i \in 1 .. Len(segments) : f[i] = cut(segments[i])
      /\ tt = [i \in 1 .. Len(segments) |-> tt[i]] /\ \A i \in 1 .. Len(segments) : tt[i] = solid(segments[i])
  BY <1>6
<1> HIDE DEF f, tt
<1>8. \A i \in 1 .. Len(segments) :
        /\ f[i] \in Seq(Plain) /\ tt[i] \in Text /\ Words(tt[i]) = SaidBy[segments[i]]
        /\ Stitched(Words(tt[i]), Contents(f[i]), Overlap)
  BY <1>2, <1>3, <1>4, <1>7
<1>9. f \in Seq(Seq(Plain)) /\ Len(f) = Len(segments) /\ tt \in Seq(Text) /\ Len(tt) = Len(segments)
  BY <1>6, <1>7, <1>8
<1>10. Says(tt) = Words(page)
  <2>1. DOMAIN tt = DOMAIN segments
    BY <1>6, <1>9
  <2>2. \A i \in DOMAIN tt : Spoken[tt[i]] = SaidBy[segments[i]]
    BY <1>6, <1>8, <2>1 DEF Spoken
  <2>3. Mapped(tt, Spoken) = Mapped(segments, SaidBy)
    BY <2>1, <2>2, MapAgrees
  <2> QED
    BY <1>2, <2>3 DEF Says
<1> HIDE DEF texts
<1>11. /\ Each(f, texts) \in Seq(Seq(Text)) /\ FlattenSeq(f) \in Seq(Plain)
       /\ Contents(FlattenSeq(f)) = FlattenSeq(Each(f, texts))
  BY <1>9, FlatContents DEF texts
<1> DEFINE sss == Each(f, texts)
<1>12. Len(sss) = Len(tt) /\ \A i \in 1 .. Len(tt) : sss[i] = Contents(f[i])
  <2>1. DOMAIN f = 1 .. Len(f)
    BY <1>9
  <2>2. sss = [i \in 1 .. Len(f) |-> texts[f[i]]]
    BY <2>1 DEF Each
  <2>3. \A i \in 1 .. Len(f) : texts[f[i]] = Contents(f[i])
    BY <1>8, <1>9 DEF texts
  <2> QED
    BY <1>6, <1>9, <2>2, <2>3
<1> HIDE DEF sss
<1>13. Stitched(Says(tt), FlattenSeq(sss), Overlap)
  <2>1. \A i \in 1 .. Len(tt) : Stitched(Words(tt[i]), sss[i], Overlap)
    BY <1>8, <1>9, <1>12
  <2>2. sss \in Seq(Seq(Text))
    BY <1>11 DEF sss
  <2> QED
    BY <1>1, <1>9, <1>12, <2>1, <2>2, FlatStitched
<1> QED
  BY <1>5, <1>10, <1>11, <1>13 DEF Keeps, sss

(* Chunks, one list after the other.                                        *)
LEMMA KidsTogether ==
  ASSUME NEW R, HaveTexts(R), NEW cs \in Seq(R), NEW ds \in Seq(R), NEW i
  PROVE  Kids(cs, i) \in Seq(Text) /\ Kids(cs \o ds, i) = Kids(cs, i) \o Kids(ds, i)
<1> DEFINE P == {c \in R : c.parent = i}
<1>1. cs \o ds \in Seq(R)
  OBVIOUS
<1>2. Kids(cs, i) = Told(cs, R, P) /\ Kids(ds, i) = Told(ds, R, P)
  BY KidsAreTold
<1> DEFINE u == cs \o ds
<1>3. Kids(u, i) = Told(u, R, P)
  BY <1>1, KidsAreTold
<1> HIDE DEF P, u
<1>4. Told(cs, R, P) \in Seq(Text) /\ Told(cs \o ds, R, P) = Told(cs, R, P) \o Told(ds, R, P)
  BY ToldTogether
<1> QED
  BY <1>2, <1>3, <1>4 DEF u

LEMMA NoKids ==
  ASSUME NEW R, HaveTexts(R), NEW cs \in Seq(R), NEW i, \A j \in 1 .. Len(cs) : cs[j].parent # i
  PROVE  Kids(cs, i) = <<>>
<1> DEFINE P == {c \in R : c.parent = i}
<1>1. Kids(cs, i) = Told(cs, R, P)
  BY KidsAreTold
<1>2. \A j \in DOMAIN cs : cs[j] \notin P
  OBVIOUS
<1> HIDE DEF P
<1>3. Told(cs, R, P) = <<>>
  BY <1>2, ToldNone
<1> QED
  BY <1>1, <1>3

LEMMA AllKids ==
  ASSUME NEW R, HaveTexts(R), NEW cs \in Seq(R), NEW i, \A j \in 1 .. Len(cs) : cs[j].parent = i
  PROVE  Kids(cs, i) = Contents(cs)
<1> DEFINE P == {c \in R : c.parent = i}
<1>1. Kids(cs, i) = Told(cs, R, P)
  BY KidsAreTold
<1>2. \A j \in DOMAIN cs : cs[j] \in P
  OBVIOUS
<1> HIDE DEF P
<1>3. Told(cs, R, P) = Contents(cs)
  BY <1>2, ToldAll
<1> QED
  BY <1>1, <1>3

(* The children of each chunk say what it says, and are in the same list.   *)
KidsKept(cs) ==
  \A i \in 1 .. Len(cs) :
    /\ cs[i].parent \in 0 .. Len(cs)
    /\ cs[i].parent = 0 => Stitched(Words(cs[i].content), Kids(cs, i), ChildOverlap)

(* A list whose chunks have their parents among each other, k places on.    *)
KeptAmong(ds, k) ==
  \A j \in 1 .. Len(ds) :
    /\ ds[j].parent = 0 \/ ds[j].parent \in k + 1 .. k + Len(ds)
    /\ ds[j].parent = 0 => Stitched(Words(ds[j].content), Kids(ds, k + j), ChildOverlap)

LEMMA KidsStayKept ==
  ASSUME NEW R, HaveTexts(R), NEW cs \in Seq(R), NEW ds \in Seq(R), KidsKept(cs), KeptAmong(ds, Len(cs))
  PROVE  KidsKept(cs \o ds)
<1> DEFINE u == cs \o ds
           k == Len(cs)
           n == Len(ds)
<1>1. u \in Seq(R) /\ Follows(u, cs, ds)
  BY TwoTogether
<1>2. k \in Nat /\ n \in Nat /\ Len(u) = k + n
  BY <1>1 DEF Follows
<1>3. ASSUME NEW i PROVE Kids(u, i) = Kids(cs, i) \o Kids(ds, i)
  BY KidsTogether
<1>4. \A i : Kids(cs, i) \in Seq(Text) /\ Kids(ds, i) \in Seq(Text)
  BY KidsTogether
<1> HIDE DEF u
<1>5. \A i \in 1 .. k : cs[i].parent \in 0 .. k
  BY DEF KidsKept
<1>6. \A j \in 1 .. n : ds[j].parent = 0 \/ ds[j].parent \in k + 1 .. k + n
  BY DEF KeptAmong
<1>7. ASSUME NEW i \in 1 .. k + n
      PROVE  /\ u[i].parent \in 0 .. k + n
             /\ u[i].parent = 0 => Stitched(Words(u[i].content), Kids(u, i), ChildOverlap)
  <2>1. CASE i <= k
    <3>1. i \in 1 .. k
      BY <1>2, <2>1
    <3>2. u[i] = cs[i]
      BY <1>1, <3>1 DEF Follows
    <3>3. Kids(ds, i) = <<>>
      <4>1. \A j \in 1 .. n : ds[j].parent # i
        BY <1>2, <1>6, <3>1
      <4> QED
        BY <4>1, NoKids
    <3>4. Kids(u, i) = Kids(cs, i)
      <4>1. Kids(cs, i) \o <<>> = Kids(cs, i)
        BY <1>4
      <4> QED
        BY <1>3, <3>3, <4>1
    <3>5. cs[i].parent \in 0 .. k + n
      BY <1>2, <1>5, <3>1
    <3>6. cs[i].parent = 0 => Stitched(Words(cs[i].content), Kids(cs, i), ChildOverlap)
      BY <3>1 DEF KidsKept
    <3> QED
      BY <3>2, <3>4, <3>5, <3>6
  <2>2. CASE i > k
    <3> DEFINE j == i - k
    <3>1. j \in 1 .. n /\ i = k + j
      BY <1>2, <2>2
    <3> HIDE DEF j
    <3>2. u[i] = ds[j]
      BY <1>1, <3>1 DEF Follows
    <3>3. Kids(cs, i) = <<>>
      <4>1. \A m \in 1 .. k : cs[m].parent # i
        BY <1>2, <1>5, <2>2
      <4> QED
        BY <4>1, NoKids
    <3>4. Kids(u, i) = Kids(ds, i)
      <4>1. <<>> \o Kids(ds, i) = Kids(ds, i)
        BY <1>4
      <4> QED
        BY <1>3, <3>3, <4>1
    <3>5. ds[j].parent \in 0 .. k + n
      BY <1>2, <1>6, <3>1
    <3>6. ds[j].parent = 0 => Stitched(Words(ds[j].content), Kids(ds, i), ChildOverlap)
      BY <3>1 DEF KeptAmong
    <3> QED
      BY <3>2, <3>4, <3>5, <3>6
  <2> QED
    BY <1>2, <2>1, <2>2
<1>8. KidsKept(u)
  BY <1>2, <1>7 DEF KidsKept
<1> QED
  BY <1>8 DEF u

(* A parent and its children.                                               *)
LEMMA FamilyKeeps ==
  ASSUME NEW cs \in Seq(Chunk), NEW parent \in Text, KidsKept(cs)
  PROVE  /\ Family(cs, parent) \in Seq(Chunk) /\ KidsKept(Family(cs, parent))
         /\ Kids(Family(cs, parent), 0) = Append(Kids(cs, 0), parent)
<1> DEFINE k == Len(cs)
           n == k + 1
           texts == split_text(parent, ChildSize, ChildOverlap)
           head == [TextChunk(parent, "text") EXCEPT !.embed = FALSE]
           kids == [i \in DOMAIN texts |-> Child(texts[i], n)]
           ds == <<head>> \o kids
<1>1. k \in Nat /\ n \in Nat /\ n # 0 /\ HaveTexts(Chunk)
  BY PlainsHaveTexts
<1>2. texts \in Seq(Text) /\ Stitched(Words(parent), texts, ChildOverlap)
  BY ChunkerAssumption, SplitTextSays
<1>3. head \in Chunk /\ head.content = parent /\ head.parent = 0
  <2> DEFINE c == TextChunk(parent, "text")
  <2>1. c \in Chunk /\ c.content = parent /\ c.parent = 0
    BY DEF TextChunk, Chunk
  <2> HIDE DEF c
  <2>2. /\ [c EXCEPT !.embed = FALSE] \in Chunk
        /\ [c EXCEPT !.embed = FALSE].content = parent /\ [c EXCEPT !.embed = FALSE].parent = 0
    BY <2>1 DEF Chunk
  <2> QED
    BY <2>2 DEF c
<1>4. Family(cs, parent) = Append(cs, head) \o kids
  BY DEF Family, ChildrenOf
<1> HIDE DEF texts, head, k
<1>5. ASSUME NEW t \in Text PROVE Child(t, n) \in Chunk /\ Child(t, n).content = t /\ Child(t, n).parent = n
  <2> DEFINE c == TextChunk(t, "text")
  <2>1. c \in Chunk /\ c.content = t
    BY DEF TextChunk, Chunk
  <2> HIDE DEF c
  <2>2. /\ [c EXCEPT !.parent = n] \in Chunk
        /\ [c EXCEPT !.parent = n].content = t /\ [c EXCEPT !.parent = n].parent = n
    BY <1>1, <2>1 DEF Chunk
  <2> QED
    BY <2>2 DEF Child, c
<1> HIDE DEF n
<1>6. /\ kids \in Seq(Chunk) /\ Contents(kids) = texts /\ Len(kids) = Len(texts) /\ Len(kids) \in Nat
      /\ \A j \in 1 .. Len(kids) : kids[j].parent = n
  <2>1. Len(texts) \in Nat /\ DOMAIN texts = 1 .. Len(texts) /\ \A i \in 1 .. Len(texts) : texts[i] \in Text
    BY <1>2
  <2>2. kids = [i \in 1 .. Len(texts) |-> Child(texts[i], n)]
    BY <2>1
  <2> HIDE DEF kids
  <2>3. kids \in Seq(Chunk) /\ Len(kids) = Len(texts) /\ DOMAIN kids = 1 .. Len(texts)
    BY <1>5, <2>1, <2>2
  <2>4. \A i \in 1 .. Len(texts) : kids[i].content = texts[i] /\ kids[i].parent = n
    BY <1>5, <2>1, <2>2
  <2>5. Contents(kids) = [i \in 1 .. Len(texts) |-> texts[i]]
    BY <2>3, <2>4 DEF Contents
  <2>6. [i \in 1 .. Len(texts) |-> texts[i]] = texts
    BY <1>2
  <2> QED
    BY <2>1, <2>3, <2>4, <2>5, <2>6
<1> HIDE DEF kids
<1> DEFINE one == <<head>>
<1>7. one \in Seq(Chunk) /\ Len(one) = 1 /\ one[1] = head /\ ds = one \o kids
  BY <1>3
<1>8. ds \in Seq(Chunk) /\ Follows(ds, one, kids)
  BY <1>6, <1>7, TwoTogether
<1>9. Append(cs, head) \o kids = cs \o ds
  <2>1. Append(cs, head) = cs \o one
    BY <1>3
  <2>2. (cs \o one) \o kids = cs \o (one \o kids)
    <3>1. one \in Seq(Chunk) /\ kids \in Seq(Chunk)
      BY <1>6, <1>7
    <3> HIDE DEF one
    <3> QED
      BY <3>1, Associative
  <2> QED
    BY <2>1, <2>2
<1>10. \A i : Kids(ds, i) = Kids(one, i) \o Kids(kids, i)
  <2>1. ASSUME NEW i PROVE Kids(one \o kids, i) = Kids(one, i) \o Kids(kids, i)
    <3> HIDE DEF one
    <3> QED
      BY SMTT(40), <1>1, <1>6, <1>7, KidsTogether
  <2> QED
    BY <2>1
<1> HIDE DEF one, ds
<1>11. Kids(one, n) = <<>> /\ Kids(one, 0) = <<parent>>
  <2>1. \A j \in 1 .. Len(one) : one[j].parent = 0 /\ one[j].parent # n
    BY <1>1, <1>3, <1>7
  <2>2. Contents(one) = <<parent>>
    BY <1>3 DEF Contents, one
  <2> QED
    BY <1>1, <1>7, <2>1, <2>2, NoKids, AllKids
<1>12. Kids(kids, n) = texts /\ Kids(kids, 0) = <<>>
  <2>1. \A j \in 1 .. Len(kids) : kids[j].parent = n /\ kids[j].parent # 0
    BY <1>1, <1>6
  <2> QED
    BY <1>1, <1>6, <2>1, NoKids, AllKids
<1>13. Kids(ds, n) = texts /\ Kids(ds, 0) = <<parent>>
  <2>1. <<>> \o texts = texts /\ <<parent>> \o <<>> = <<parent>>
    BY <1>2
  <2> QED
    BY <1>10, <1>11, <1>12, <2>1
<1>14. KeptAmong(ds, k)
  <2> SUFFICES ASSUME NEW j \in 1 .. Len(ds)
      PROVE /\ ds[j].parent = 0 \/ ds[j].parent \in k + 1 .. k + Len(ds)
            /\ ds[j].parent = 0 => Stitched(Words(ds[j].content), Kids(ds, k + j), ChildOverlap)
    BY DEF KeptAmong
  <2>1. Len(ds) = 1 + Len(kids)
    BY <1>7, <1>8 DEF Follows
  <2>2. CASE j = 1
    <3>1. ds[j] = head
      BY <1>7, <1>8, <2>2 DEF Follows
    <3> QED
      BY <1>2, <1>3, <1>13, <2>2, <3>1 DEF n
  <2>3. CASE j # 1
    <3> DEFINE i == j - 1
    <3>1. i \in 1 .. Len(kids) /\ j = 1 + i
      BY <1>6, <2>1, <2>3
    <3> HIDE DEF i
    <3>2. ds[j] = kids[i]
      BY <1>7, <1>8, <3>1 DEF Follows
    <3>3. ds[j].parent = n
      BY <1>6, <3>1, <3>2
    <3>4. n \in k + 1 .. k + Len(ds)
      BY <1>1, <1>6, <2>1 DEF n
    <3> QED
      BY <1>1, <3>3, <3>4
  <2> QED
    BY <2>2, <2>3
<1>15. KidsKept(cs \o ds)
  BY <1>1, <1>8, <1>14, KidsStayKept DEF k
<1>16. Kids(cs \o ds, 0) = Append(Kids(cs, 0), parent)
  <2>1. Kids(cs \o ds, 0) = Kids(cs, 0) \o Kids(ds, 0) /\ Kids(cs, 0) \in Seq(Text)
    BY <1>1, <1>8, KidsTogether
  <2>2. Kids(cs, 0) \o <<parent>> = Append(Kids(cs, 0), parent)
    BY <2>1
  <2> QED
    BY <1>13, <2>1, <2>2
<1>17. cs \o ds \in Seq(Chunk)
  BY <1>8
<1> QED
  BY <1>4, <1>9, <1>15, <1>16, <1>17

LEMMA FamiliesKeep ==
  ASSUME NEW page \in Text
  PROVE  /\ ParentChildChunker(page) \in Seq(Chunk) /\ KidsKept(ParentChildChunker(page))
         /\ Stitched(Words(page), Kids(ParentChildChunker(page), 0), 0)
<1> DEFINE parents == split_text(page, ParentSize, 0)
<1>1. parents \in Seq(Sized(ParentSize))
  BY ChunkerAssumption, SplitTextsAreSized DEF Room
<1>2. parents \in Seq(Text) /\ Says(parents) = Words(page)
  BY ChunkerAssumption, SplitTextSays
<1>3. ParentChildChunker(page) = Families(parents)
  BY DEF ParentChildChunker, Families, Family, ChildrenOf, Child
<1> HIDE DEF parents
<1>4. PICK it \in [0 .. Len(parents) -> Seq(Related)] :
        /\ it[0] = <<>>
        /\ \A m \in 1 .. Len(parents) : it[m] = Family(it[m - 1], parents[m])
        /\ Families(parents) = it[Len(parents)]
  BY <1>1, FamilyRun
<1> DEFINE n == Len(parents)
           good(m) == it[m] \in Seq(Chunk) /\ KidsKept(it[m]) /\ Kids(it[m], 0) = SubSeq(parents, 1, m)
           U == {m \in Nat : m <= n => good(m)}
<1>5. n \in Nat /\ SubSeq(parents, 1, n) = parents /\ SubSeq(parents, 1, 0) = <<>>
  BY <1>2, WholeList
<1>6. 0 \in U
  <2> DEFINE e == it[0]
  <2>1. e = <<>>
    BY <1>4
  <2>2. e \in Seq(Chunk) /\ Len(e) = 0
    BY <2>1
  <2> HIDE DEF e
  <2>3. KidsKept(e)
    BY <2>2 DEF KidsKept
  <2>4. Kids(e, 0) = <<>>
    BY <2>2, PlainsHaveTexts, NoKids
  <2> QED
    BY <1>5, <2>2, <2>3, <2>4 DEF e
<1>7. ASSUME NEW m \in Nat, m \in U PROVE m + 1 \in U
  <2> SUFFICES ASSUME m + 1 <= n PROVE good(m + 1)
    OBVIOUS
  <2> DEFINE t == parents[m + 1]
             a == SubSeq(parents, 1, m)
             cs == it[m]
  <2>1. t \in Text /\ m + 1 \in 1 .. n /\ (m + 1) - 1 = m /\ SubSeq(parents, 1, m + 1) = Append(a, t)
    BY <1>2, PrefixGrows
  <2>2. good(m)
    <3> HIDE DEF good
    <3> QED
      BY <1>5, <1>7, <2>1
  <2>3. cs \in Seq(Chunk) /\ KidsKept(cs) /\ Kids(cs, 0) = a
    BY <2>2
  <2>4. it[m + 1] = Family(cs, t)
    BY <1>4, <2>1
  <2> HIDE DEF t, a, cs
  <2>5. /\ Family(cs, t) \in Seq(Chunk) /\ KidsKept(Family(cs, t))
        /\ Kids(Family(cs, t), 0) = Append(Kids(cs, 0), t)
    BY <2>1, <2>3, FamilyKeeps
  <2> QED
    BY <2>1, <2>3, <2>4, <2>5
<1>8. good(n)
  <2>1. n \in U
    <3> HIDE DEF U
    <3> QED
      BY <1>5, <1>6, <1>7, SetInduction
  <2> HIDE DEF good
  <2> QED
    BY <1>5, <2>1
<1>9. Stitched(Words(page), parents, 0)
  <2>1. Stitched(Says(parents), parents, 0)
    BY <1>2, StitchedWhole
  <2> QED
    BY <1>2, <2>1
<1> QED
  BY <1>3, <1>4, <1>5, <1>8, <1>9

(* What every strategy keeps of a page.                                     *)
CutKept(strategy, page, cut) ==
  /\ cut \in Seq(Chunk)
  /\ Stitched(Words(page), Kids(cut, 0), OverlapOf(strategy))
  /\ \A i \in 1 .. Len(cut) : cut[i].parent \in 0 .. Len(cut)
  /\ strategy = "parent_child" => KidsKept(cut)

LEMMA PlainsAreKept ==
  ASSUME NEW strategy, strategy # "parent_child", NEW page, NEW cut, Keeps(cut, page, OverlapOf(strategy))
  PROVE  CutKept(strategy, page, cut)
<1>1. cut \in Seq(Plain) /\ Stitched(Words(page), Contents(cut), OverlapOf(strategy))
  BY DEF Keeps
<1>2. Kids(cut, 0) = Contents(cut) /\ cut \in Seq(Chunk)
  BY <1>1, KidsOfPlain
<1>3. \A i \in 1 .. Len(cut) : cut[i].parent \in 0 .. Len(cut)
  <2>1. \A i \in 1 .. Len(cut) : cut[i].parent = 0
    BY <1>1 DEF Plain
  <2>2. Len(cut) \in Nat
    BY <1>1
  <2> QED
    BY <2>1, <2>2
<1> QED
  BY <1>1, <1>2, <1>3 DEF CutKept

LEMMA ChunksKeep ==
  ASSUME NEW strategy, NEW page \in Text PROVE CutKept(strategy, page, chunk(strategy, page))
<1> DEFINE cut == chunk(strategy, page)
<1>1. CASE strategy = "parent_child"
  <2>1. cut = ParentChildChunker(page) /\ OverlapOf(strategy) = 0
    BY <1>1 DEF chunk, OverlapOf
  <2>2. /\ ParentChildChunker(page) \in Seq(Chunk) /\ KidsKept(ParentChildChunker(page))
        /\ Stitched(Words(page), Kids(ParentChildChunker(page), 0), 0)
    BY FamiliesKeep
  <2> HIDE DEF cut
  <2>3. cut \in Seq(Chunk) /\ KidsKept(cut) /\ Stitched(Words(page), Kids(cut, 0), OverlapOf(strategy))
    BY <2>1, <2>2
  <2>4. CutKept(strategy, page, cut)
    BY <2>3 DEF CutKept, KidsKept
  <2> QED
    BY <2>4 DEF cut
<1>2. ASSUME strategy # "parent_child", Keeps(cut, page, OverlapOf(strategy))
      PROVE  CutKept(strategy, page, cut)
  BY <1>2, PlainsAreKept
<1>3. CASE strategy = "semantic"
  <2>1. cut = SemanticChunker(page) /\ OverlapOf(strategy) = 0
    BY <1>3 DEF chunk, OverlapOf
  <2> HIDE DEF cut
  <2> QED
    BY <1>2, <1>3, <2>1, SemanticKeeps DEF cut
<1>4. CASE strategy = "table_aware"
  <2>1. cut = TableAwareChunker(page) /\ OverlapOf(strategy) = Overlap
    BY <1>4 DEF chunk, OverlapOf
  <2> HIDE DEF cut
  <2> QED
    BY <1>2, <1>4, <2>1, TableKeeps DEF cut
<1>5. CASE strategy = "code_aware"
  <2>1. cut = CodeAwareChunker(page) /\ OverlapOf(strategy) = 0
    BY <1>5 DEF chunk, OverlapOf
  <2> HIDE DEF cut
  <2> QED
    BY <1>2, <1>5, <2>1, CodeKeeps DEF cut
<1>6. CASE strategy \notin {"parent_child", "semantic", "table_aware", "code_aware"}
  <2>1. cut = RecursiveChunker(page) /\ OverlapOf(strategy) = Overlap
    BY <1>6 DEF chunk, OverlapOf
  <2> HIDE DEF cut
  <2> QED
    BY <1>2, <1>6, <2>1, RecursiveKeeps DEF cut
<1> QED
  BY <1>1, <1>3, <1>4, <1>5, <1>6

(* The rows of a page keep what its chunks keep.                            *)
LEMMA RowsHaveTexts ==
  ASSUME NEW strategy, NEW text PROVE HaveTexts(FittingRow(strategy, text))
BY DEF HaveTexts, FittingRow

LEMMA TopsTogether ==
  ASSUME NEW R, HaveTexts(R), NEW cs \in Seq(R), NEW ds \in Seq(R), NEW n
  PROVE  Tops(cs, n) \in Seq(Text) /\ Tops(cs \o ds, n) = Tops(cs, n) \o Tops(ds, n)
<1> DEFINE P == {c \in R : c.page = n /\ c.parent = 0}
           u == cs \o ds
<1>1. u \in Seq(R)
  OBVIOUS
<1>2. Tops(cs, n) = Told(cs, R, P) /\ Tops(ds, n) = Told(ds, R, P)
  BY TopsAreTold
<1>3. Tops(u, n) = Told(u, R, P)
  BY <1>1, TopsAreTold
<1> HIDE DEF P, u
<1>4. Told(cs, R, P) \in Seq(Text) /\ Told(cs \o ds, R, P) = Told(cs, R, P) \o Told(ds, R, P)
  BY ToldTogether
<1> QED
  BY <1>2, <1>3, <1>4 DEF u

LEMMA NoTops ==
  ASSUME NEW R, HaveTexts(R), NEW cs \in Seq(R), NEW n, \A j \in 1 .. Len(cs) : cs[j].page # n
  PROVE  Tops(cs, n) = <<>>
<1> DEFINE P == {c \in R : c.page = n /\ c.parent = 0}
<1>1. Tops(cs, n) = Told(cs, R, P)
  BY TopsAreTold
<1>2. \A j \in DOMAIN cs : cs[j] \notin P
  OBVIOUS
<1> HIDE DEF P
<1>3. Told(cs, R, P) = <<>>
  BY <1>2, ToldNone
<1> QED
  BY <1>1, <1>3

(* What is on page n, and what of it is a table; what of a page's chunks.   *)
Seen(cs, n, only) ==
  FlattenSeq([j \in DOMAIN cs |->
    IF cs[j].page = n /\ (only => cs[j].type = "table") THEN <<cs[j].content>> ELSE <<>>])

Typed(cut, only) ==
  FlattenSeq([j \in DOMAIN cut |->
    IF only => cut[j].type = "table" THEN <<cut[j].content>> ELSE <<>>])

LEMMA SeenIsTold ==
  ASSUME NEW R, NEW cs \in Seq(R), NEW n, NEW only \in BOOLEAN
  PROVE  Seen(cs, n, only) = Told(cs, R, {c \in R : c.page = n /\ (only => c.type = "table")})
<1> DEFINE P == {c \in R : c.page = n /\ (only => c.type = "table")}
<1>1. [j \in DOMAIN cs |-> IF cs[j].page = n /\ (only => cs[j].type = "table") THEN <<cs[j].content>> ELSE <<>>]
        = Each(cs, Telling(R, P))
  <2>1. ASSUME NEW j \in DOMAIN cs
        PROVE  (IF cs[j].page = n /\ (only => cs[j].type = "table") THEN <<cs[j].content>> ELSE <<>>)
                 = Telling(R, P)[cs[j]]
    BY DEF Telling
  <2> HIDE DEF P
  <2> QED
    BY <2>1 DEF Each
<1> QED
  BY <1>1 DEF Seen, Told, Mapped

LEMMA TypedIsTold ==
  ASSUME NEW R, NEW cs \in Seq(R), NEW only \in BOOLEAN
  PROVE  Typed(cs, only) = Told(cs, R, {c \in R : only => c.type = "table"})
<1> DEFINE P == {c \in R : only => c.type = "table"}
<1>1. [j \in DOMAIN cs |-> IF only => cs[j].type = "table" THEN <<cs[j].content>> ELSE <<>>]
        = Each(cs, Telling(R, P))
  <2>1. ASSUME NEW j \in DOMAIN cs
        PROVE  (IF only => cs[j].type = "table" THEN <<cs[j].content>> ELSE <<>>) = Telling(R, P)[cs[j]]
    BY DEF Telling
  <2> HIDE DEF P
  <2> QED
    BY <2>1 DEF Each
<1> QED
  BY <1>1 DEF Typed, Told, Mapped

LEMMA SeenTogether ==
  ASSUME NEW R, HaveTexts(R), NEW cs \in Seq(R), NEW ds \in Seq(R), NEW n, NEW only \in BOOLEAN
  PROVE  /\ Seen(cs, n, only) \in Seq(Text)
         /\ Seen(cs \o ds, n, only) = Seen(cs, n, only) \o Seen(ds, n, only)
<1> DEFINE P == {c \in R : c.page = n /\ (only => c.type = "table")}
           u == cs \o ds
<1>1. u \in Seq(R)
  OBVIOUS
<1>2. Seen(cs, n, only) = Told(cs, R, P) /\ Seen(ds, n, only) = Told(ds, R, P)
  BY SeenIsTold
<1>3. Seen(u, n, only) = Told(u, R, P)
  <2> HIDE DEF u
  <2> QED
    BY <1>1, SeenIsTold
<1> HIDE DEF P, u
<1>4. Told(cs, R, P) \in Seq(Text) /\ Told(cs \o ds, R, P) = Told(cs, R, P) \o Told(ds, R, P)
  BY ToldTogether
<1> QED
  BY <1>2, <1>3, <1>4 DEF u

LEMMA NoneSeen ==
  ASSUME NEW R, HaveTexts(R), NEW cs \in Seq(R), NEW n, \A j \in 1 .. Len(cs) : cs[j].page # n,
         NEW only \in BOOLEAN
  PROVE  Seen(cs, n, only) = <<>>
<1> DEFINE P == {c \in R : c.page = n /\ (only => c.type = "table")}
<1>1. Seen(cs, n, only) = Told(cs, R, P)
  BY SeenIsTold
<1>2. \A j \in DOMAIN cs : cs[j] \notin P
  OBVIOUS
<1> HIDE DEF P
<1>3. Told(cs, R, P) = <<>>
  BY <1>2, ToldNone
<1> QED
  BY <1>1, <1>3

(* Rows say of their chunks what is asked for.                              *)
RowsOfCut(ds, cut, page, k) ==
  /\ Len(ds) = Len(cut) /\ DOMAIN ds = 1 .. Len(cut) /\ DOMAIN cut = 1 .. Len(cut) /\ Len(cut) \in Nat
  /\ \A j \in 1 .. Len(cut) :
       /\ ds[j].page = page /\ ds[j].content = cut[j].content /\ ds[j].type = cut[j].type
       /\ ds[j].parent = IF cut[j].parent = 0 THEN 0 ELSE cut[j].parent + k

LEMMA PageRowsAre ==
  ASSUME NEW cut \in Seq(Chunk), NEW page, NEW k PROVE RowsOfCut(PageRows(cut, page, k), cut, page, k)
<1> DEFINE p(c) == IF c.parent = 0 THEN 0 ELSE c.parent + k
<1>1. Len(cut) \in Nat /\ DOMAIN cut = 1 .. Len(cut)
  OBVIOUS
<1>2. PageRows(cut, page, k) = [j \in 1 .. Len(cut) |-> Row(cut[j], page, p(cut[j]), None, None)]
  BY <1>1 DEF PageRows
<1> DEFINE ds == PageRows(cut, page, k)
<1>3. Len(ds) = Len(cut) /\ DOMAIN ds = 1 .. Len(cut)
  BY <1>1, <1>2
<1>4. ASSUME NEW j \in 1 .. Len(cut)
      PROVE  /\ ds[j].page = page /\ ds[j].content = cut[j].content /\ ds[j].type = cut[j].type
             /\ ds[j].parent = p(cut[j])
  <2>1. ds[j] = Row(cut[j], page, p(cut[j]), None, None)
    BY <1>2
  <2> HIDE DEF p, ds
  <2> QED
    BY <2>1 DEF Row
<1> HIDE DEF ds
<1>5. RowsOfCut(ds, cut, page, k)
  BY <1>1, <1>3, <1>4 DEF RowsOfCut
<1> QED
  BY <1>5 DEF ds

LEMMA PageRowsKeep ==
  ASSUME NEW strategy, NEW text \in Seq(Text), NEW page \in DOMAIN text, NEW k \in Nat,
         NEW cut \in Seq(Fitting(strategy, text[page])), CutKept(strategy, text[page], cut)
  PROVE  LET ds == PageRows(cut, page, k) IN
         /\ ds \in Seq(FittingRow(strategy, text)) /\ Tops(ds, page) = Kids(cut, 0)
         /\ \A j \in 1 .. Len(ds) : ds[j].page = page
         /\ \A only \in BOOLEAN : Seen(ds, page, only) = Typed(cut, only)
         /\ strategy = "parent_child" => KeptAmong(ds, k)
<1> DEFINE ds == PageRows(cut, page, k)
<1>1. ds \in Seq(FittingRow(strategy, text))
  BY PageRowsFit
<1>2. cut \in Seq(Chunk) /\ \A i \in 1 .. Len(cut) : cut[i].parent \in 0 .. Len(cut)
  BY DEF CutKept
<1>3. RowsOfCut(ds, cut, page, k)
  BY <1>2, PageRowsAre
<1> HIDE DEF ds
<1>4. /\ Len(ds) = Len(cut) /\ DOMAIN ds = 1 .. Len(cut) /\ DOMAIN cut = 1 .. Len(cut) /\ Len(cut) \in Nat
      /\ \A j \in 1 .. Len(cut) :
           /\ ds[j].page = page /\ ds[j].content = cut[j].content /\ ds[j].type = cut[j].type
           /\ ds[j].parent = IF cut[j].parent = 0 THEN 0 ELSE cut[j].parent + k
  BY <1>3 DEF RowsOfCut
<1>5. \A j \in 1 .. Len(cut) : ds[j].parent = 0 <=> cut[j].parent = 0
  BY <1>2, <1>4
<1>6. Tops(ds, page) = Kids(cut, 0)
  <2> DEFINE f == [j \in DOMAIN ds |->
                     IF ds[j].page = page /\ ds[j].parent = 0 THEN <<ds[j].content>> ELSE <<>>]
             g == [j \in DOMAIN cut |-> IF cut[j].parent = 0 THEN <<cut[j].content>> ELSE <<>>]
  <2>1. f = g
    BY <1>4, <1>5
  <2> QED
    BY <2>1 DEF Tops, Kids
<1>7. ASSUME NEW j \in 1 .. Len(cut) PROVE Kids(ds, k + j) = Kids(cut, j)
  <2> DEFINE f == [m \in DOMAIN ds |-> IF ds[m].parent = k + j THEN <<ds[m].content>> ELSE <<>>]
             g == [m \in DOMAIN cut |-> IF cut[m].parent = j THEN <<cut[m].content>> ELSE <<>>]
  <2>1. ASSUME NEW m \in 1 .. Len(cut) PROVE ds[m].parent = k + j <=> cut[m].parent = j
    <3> DEFINE p == cut[m].parent
               q == ds[m].parent
    <3>1. p \in 0 .. Len(cut) /\ q = IF p = 0 THEN 0 ELSE p + k
      BY <1>2, <1>4
    <3> HIDE DEF p, q
    <3>2. q = k + j <=> p = j
      BY <1>4, <3>1
    <3> QED
      BY <3>2 DEF p, q
  <2>2. f = g
    BY <1>4, <2>1
  <2> QED
    BY <2>2 DEF Kids
<1>8. ASSUME strategy = "parent_child" PROVE KeptAmong(ds, k)
  <2>1. KidsKept(cut)
    BY <1>8 DEF CutKept
  <2>2. ASSUME NEW j \in 1 .. Len(ds)
        PROVE  /\ ds[j].parent = 0 \/ ds[j].parent \in k + 1 .. k + Len(ds)
               /\ ds[j].parent = 0 => Stitched(Words(ds[j].content), Kids(ds, k + j), ChildOverlap)
    <3>1. j \in 1 .. Len(cut)
      BY <1>4
    <3>2. ds[j].parent = 0 \/ ds[j].parent \in k + 1 .. k + Len(ds)
      BY SMTT(40), <1>2, <1>4, <3>1
    <3>3. cut[j].parent = 0 => Stitched(Words(cut[j].content), Kids(cut, j), ChildOverlap)
      BY <2>1, <3>1 DEF KidsKept
    <3>4. ds[j].content = cut[j].content
      BY <1>4, <3>1
    <3> QED
      BY <1>5, <1>7, <3>1, <3>2, <3>3, <3>4
  <2> QED
    BY <2>2 DEF KeptAmong
<1>9. \A j \in 1 .. Len(ds) : ds[j].page = page
  BY <1>4
<1>10. ASSUME NEW only \in BOOLEAN PROVE Seen(ds, page, only) = Typed(cut, only)
  <2> DEFINE f == [j \in DOMAIN ds |->
                     IF ds[j].page = page /\ (only => ds[j].type = "table") THEN <<ds[j].content>> ELSE <<>>]
             g == [j \in DOMAIN cut |->
                     IF only => cut[j].type = "table" THEN <<cut[j].content>> ELSE <<>>]
  <2>1. f = g
    BY <1>4
  <2> QED
    BY <2>1 DEF Seen, Typed
<1> QED
  BY <1>1, <1>6, <1>8, <1>9, <1>10 DEF ds

(* The rows of a document keep what the chunks of each page keep.           *)
PagesKept(strategy, text, made, m) ==
  /\ \A j \in 1 .. Len(made) : made[j].page \in 1 .. m
  /\ \A n \in 1 .. m : Tops(made, n) = Kids(chunk(strategy, text[n]), 0)
  /\ \A n \in 1 .. m, only \in BOOLEAN : Seen(made, n, only) = Typed(chunk(strategy, text[n]), only)
  /\ strategy = "parent_child" => KidsKept(made)

LEMMA PagesStayKept ==
  ASSUME NEW strategy, NEW text \in Seq(Text), NEW m \in Nat, m + 1 \in DOMAIN text,
         NEW made \in Seq(FittingRow(strategy, text)), PagesKept(strategy, text, made, m)
  PROVE  PagesKept(strategy, text, RowsStep(strategy, text, made, m + 1), m + 1)
<1> DEFINE R == FittingRow(strategy, text)
           page == m + 1
           cut == chunk(strategy, text[page])
           k == Len(made)
           ds == PageRows(cut, page, k)
<1>1. text[page] \in Text /\ k \in Nat /\ made \in Seq(R) /\ page \in DOMAIN text
  OBVIOUS
<1>2. cut \in Seq(Fitting(strategy, text[page])) /\ CutKept(strategy, text[page], cut)
  BY <1>1, ChunksFit, ChunksKeep
<1>3. RowsStep(strategy, text, made, page) = made \o ds
  BY DEF RowsStep
<1> HIDE DEF cut
<1>4. /\ ds \in Seq(R) /\ Tops(ds, page) = Kids(cut, 0)
      /\ \A j \in 1 .. Len(ds) : ds[j].page = page
      /\ \A only \in BOOLEAN : Seen(ds, page, only) = Typed(cut, only)
      /\ strategy = "parent_child" => KeptAmong(ds, k)
  <2> HIDE DEF page, k
  <2> QED
    BY <1>1, <1>2, PageRowsKeep
<1> HIDE DEF ds, R
<1>5. HaveTexts(R)
  BY RowsHaveTexts DEF R
<1> DEFINE u == made \o ds
<1>6. u \in Seq(R) /\ Follows(u, made, ds)
  BY <1>1, <1>4, TwoTogether
<1>7. \A n : Tops(u, n) = Tops(made, n) \o Tops(ds, n)
  BY SMTT(40), <1>1, <1>4, <1>5, TopsTogether
<1>8. \A n : Tops(made, n) \in Seq(Text) /\ Tops(ds, n) \in Seq(Text)
  BY <1>1, <1>4, <1>5, TopsTogether
<1>9. strategy = "parent_child" => KidsKept(u)
  <2>1. strategy = "parent_child" => KidsKept(made)
    BY DEF PagesKept
  <2> QED
    BY <1>1, <1>4, <1>5, <2>1, KidsStayKept
<1>s. ASSUME NEW n, NEW only \in BOOLEAN
      PROVE  /\ Seen(u, n, only) = Seen(made, n, only) \o Seen(ds, n, only)
             /\ Seen(made, n, only) \in Seq(Text) /\ Seen(ds, n, only) \in Seq(Text)
  BY SMTT(40), <1>1, <1>4, <1>5, SeenTogether
<1> HIDE DEF u
<1>10. \A j \in 1 .. k : made[j].page \in 1 .. m
  BY DEF PagesKept
<1>11. \A j \in 1 .. Len(u) : u[j].page \in 1 .. page
  <2>1. Len(u) = k + Len(ds) /\ Len(ds) \in Nat
    BY <1>6 DEF Follows
  <2>2. ASSUME NEW j \in 1 .. Len(u) PROVE u[j].page \in 1 .. page
    <3>1. CASE j \in 1 .. k
      <4>1. u[j] = made[j]
        BY <1>6, <3>1 DEF Follows
      <4>2. made[j].page \in 1 .. m
        BY <1>10, <3>1
      <4> QED
        BY <4>1, <4>2
    <3>2. CASE j \notin 1 .. k
      <4> DEFINE i == j - k
      <4>1. i \in 1 .. Len(ds) /\ j = k + i
        BY <1>1, <2>1, <3>2
      <4> HIDE DEF i
      <4>2. u[j] = ds[i]
        BY <1>6, <4>1 DEF Follows
      <4> QED
        BY <1>4, <4>1, <4>2
    <3> QED
      BY <3>1, <3>2
  <2> QED
    BY <2>2
<1>12. ASSUME NEW n \in 1 .. page PROVE Tops(u, n) = Kids(chunk(strategy, text[n]), 0)
  <2>1. CASE n = page
    <3>1. Tops(made, n) = <<>>
      <4>1. \A j \in 1 .. k : made[j].page # n
        BY <1>10, <2>1
      <4> QED
        BY <1>1, <1>5, <4>1, NoTops
    <3>2. <<>> \o Tops(ds, n) = Tops(ds, n)
      BY <1>8
    <3>3. Tops(u, n) = Tops(ds, page)
      BY <1>7, <2>1, <3>1, <3>2
    <3> QED
      BY <1>4, <2>1, <3>3 DEF cut
  <2>2. CASE n # page
    <3>1. n \in 1 .. m
      BY <2>2
    <3>2. Tops(ds, n) = <<>>
      <4>1. \A j \in 1 .. Len(ds) : ds[j].page # n
        BY <1>4, <2>2
      <4> QED
        BY <1>4, <1>5, <4>1, NoTops
    <3>3. Tops(made, n) \o <<>> = Tops(made, n)
      BY <1>8
    <3>4. Tops(made, n) = Kids(chunk(strategy, text[n]), 0)
      BY <3>1 DEF PagesKept
    <3> QED
      BY <1>7, <3>2, <3>3, <3>4
  <2> QED
    BY <2>1, <2>2
<1>13. ASSUME NEW n \in 1 .. page, NEW only \in BOOLEAN
       PROVE  Seen(u, n, only) = Typed(chunk(strategy, text[n]), only)
  <2> DEFINE old == Seen(made, n, only)
             new == Seen(ds, n, only)
  <2>1. Seen(u, n, only) = old \o new /\ old \in Seq(Text) /\ new \in Seq(Text)
    BY <1>s
  <2>2. CASE n = page
    <3>1. old = <<>>
      <4>1. \A j \in 1 .. k : made[j].page # n
        BY <1>10, <2>2
      <4> QED
        BY <1>1, <1>5, <4>1, NoneSeen
    <3>2. new = Typed(cut, only)
      BY <1>4, <2>2
    <3> HIDE DEF old, new
    <3>3. <<>> \o new = new
      BY <2>1
    <3> QED
      BY <2>1, <2>2, <3>1, <3>2, <3>3 DEF cut
  <2>3. CASE n # page
    <3>1. n \in 1 .. m
      BY <2>3
    <3>2. new = <<>>
      <4>1. \A j \in 1 .. Len(ds) : ds[j].page # n
        BY <1>4, <2>3
      <4> QED
        BY <1>4, <1>5, <4>1, NoneSeen
    <3>3. old = Typed(chunk(strategy, text[n]), only)
      BY <3>1 DEF PagesKept
    <3> HIDE DEF old, new
    <3>4. old \o <<>> = old
      BY <2>1
    <3> QED
      BY <2>1, <3>2, <3>3, <3>4
  <2> QED
    BY <2>2, <2>3
<1>14. PagesKept(strategy, text, u, page)
  BY <1>9, <1>11, <1>12, <1>13 DEF PagesKept
<1> QED
  BY <1>3, <1>14 DEF u

LEMMA RowsKeep ==
  ASSUME NEW strategy, NEW text \in Seq(Text)
  PROVE  /\ PagesRows(strategy, text) \in Seq(FittingRow(strategy, text))
         /\ PagesKept(strategy, text, PagesRows(strategy, text), Len(text))
<1>1. PICK it \in [0 .. Len(text) -> Seq(FittingRow(strategy, text))] :
        /\ it[0] = <<>>
        /\ \A m \in 1 .. Len(text) : it[m] = RowsStep(strategy, text, it[m - 1], Places(text)[m])
        /\ PagesRows(strategy, text) = it[Len(text)]
  BY RowsRun
<1> DEFINE n == Len(text)
           U == {m \in Nat : m <= n => PagesKept(strategy, text, it[m], m)}
<1>2. n \in Nat /\ DOMAIN text = 1 .. n
  OBVIOUS
<1>3. 0 \in U
  <2> DEFINE e == it[0]
  <2>1. e = <<>>
    BY <1>1
  <2>2. Len(e) = 0
    BY <2>1
  <2> HIDE DEF e
  <2>3. PagesKept(strategy, text, e, 0)
    BY <2>2 DEF PagesKept, KidsKept
  <2> QED
    BY <2>3 DEF e
<1>4. ASSUME NEW m \in Nat, m \in U PROVE m + 1 \in U
  <2> SUFFICES ASSUME m + 1 <= n PROVE PagesKept(strategy, text, it[m + 1], m + 1)
    OBVIOUS
  <2>1. m + 1 \in 1 .. n /\ m \in 0 .. n /\ (m + 1) - 1 = m /\ Places(text)[m + 1] = m + 1
    BY <1>2 DEF Places
  <2>2. it[m + 1] = RowsStep(strategy, text, it[m], m + 1) /\ it[m] \in Seq(FittingRow(strategy, text))
    BY <1>1, <2>1
  <2>3. PagesKept(strategy, text, it[m], m)
    BY <1>4, <2>1
  <2> DEFINE made == it[m]
  <2> HIDE DEF made
  <2>4. made \in Seq(FittingRow(strategy, text)) /\ PagesKept(strategy, text, made, m)
    BY <2>2, <2>3 DEF made
  <2>5. PagesKept(strategy, text, RowsStep(strategy, text, made, m + 1), m + 1)
    BY <1>2, <2>1, <2>4, PagesStayKept
  <2> QED
    BY <2>2, <2>5 DEF made
<1>5. n \in U
  <2> HIDE DEF U
  <2> QED
    BY <1>2, <1>3, <1>4, SetInduction
<1>6. PagesKept(strategy, text, it[n], n) /\ n \in 0 .. n
  BY <1>2, <1>5
<1> QED
  BY <1>1, <1>6

-----------------------------------------------------------------------------
(* Rows that fit and that say what the pages say, whoever holds them: what  *)
(* is embedded later changes none of it.                                    *)
AllSaid(strategy, text, chunks) ==
  /\ \E k \in Nat : chunks = [i \in 1 .. k |-> chunks[i]]
  /\ \A i \in DOMAIN chunks : chunks[i].content \in Text
  /\ \A n \in DOMAIN text : Stitched(Words(text[n]), Tops(chunks, n), OverlapOf(strategy))
  /\ strategy = "parent_child" => \A i \in DOMAIN chunks : chunks[i].parent = 0 =>
       Stitched(Words(chunks[i].content), Kids(chunks, i), ChildOverlap)

AllSized(strategy, text, chunks) ==
  \A i \in DOMAIN chunks :
    chunks[i].page \in DOMAIN text /\ Fits(strategy, text[chunks[i].page], chunks[i])

AllSeen(strategy, text, chunks) ==
  \A n \in DOMAIN text :
    /\ text[n] \in Text
    /\ \A only \in BOOLEAN : Seen(chunks, n, only) = Typed(chunk(strategy, text[n]), only)

AllFit(strategy, text, chunks) ==
  AllSized(strategy, text, chunks) /\ AllSaid(strategy, text, chunks) /\ AllSeen(strategy, text, chunks)

LEMMA RowsFitTheirStrategy ==
  ASSUME NEW d \in DOMAIN pages, pages[d] \in Seq(Text), NEW strategy
  PROVE  AllFit(strategy, pages[d], RowsOf(strategy, d))
<1> DEFINE text == pages[d]
<1>1. RowsOf(strategy, d) = PagesRows(strategy, text)
  BY DEF RowsOf, PagesRows, RowsStep, PageRows, Places
<1> HIDE DEF text
<1>2. text \in Seq(Text)
  BY DEF text
<1>3. PICK it \in [0 .. Len(text) -> Seq(FittingRow(strategy, text))] :
        PagesRows(strategy, text) = it[Len(text)]
  <2>1. PICK it \in [0 .. Len(text) -> Seq(FittingRow(strategy, text))] :
          /\ it[0] = <<>>
          /\ \A m \in 1 .. Len(text) : it[m] = RowsStep(strategy, text, it[m - 1], Places(text)[m])
          /\ PagesRows(strategy, text) = it[Len(text)]
    BY <1>2, RowsRun
  <2> QED
    BY <2>1
<1>4. PagesRows(strategy, text) \in Seq(FittingRow(strategy, text))
  <2>1. Len(text) \in 0 .. Len(text)
    BY <1>2
  <2> QED
    BY <1>3, <2>1
<1> DEFINE made == PagesRows(strategy, text)
<1>5. \A i \in DOMAIN made : made[i] \in FittingRow(strategy, text)
  BY <1>4
<1> HIDE DEF made
<1>6. AllSized(strategy, text, made)
  BY <1>5 DEF AllSized, FittingRow
<1>7. made \in Seq(FittingRow(strategy, text)) /\ PagesKept(strategy, text, made, Len(text))
  BY <1>2, RowsKeep DEF made
<1>8. DOMAIN made = 1 .. Len(made) /\ Len(made) \in Nat /\ made = [i \in 1 .. Len(made) |-> made[i]]
  BY <1>7
<1>9. \A i \in DOMAIN made : made[i].content \in Text
  BY <1>5 DEF FittingRow
<1>10. ASSUME NEW n \in DOMAIN text
       PROVE  Stitched(Words(text[n]), Tops(made, n), OverlapOf(strategy))
  <2>1. n \in 1 .. Len(text) /\ text[n] \in Text
    BY <1>2
  <2>2. Tops(made, n) = Kids(chunk(strategy, text[n]), 0)
    BY <1>7, <2>1 DEF PagesKept
  <2>3. CutKept(strategy, text[n], chunk(strategy, text[n]))
    BY <2>1, ChunksKeep
  <2> QED
    BY <2>2, <2>3 DEF CutKept
<1>11. ASSUME strategy = "parent_child", NEW i \in DOMAIN made, made[i].parent = 0
       PROVE  Stitched(Words(made[i].content), Kids(made, i), ChildOverlap)
  <2>1. KidsKept(made)
    BY <1>7, <1>11 DEF PagesKept
  <2> QED
    BY <1>8, <1>11, <2>1 DEF KidsKept
<1>12. AllSaid(strategy, text, made)
  BY <1>8, <1>9, <1>10, <1>11 DEF AllSaid
<1>13. AllSeen(strategy, text, made)
  <2>1. DOMAIN text = 1 .. Len(text) /\ \A n \in DOMAIN text : text[n] \in Text
    BY <1>2
  <2> QED
    BY <1>7, <2>1 DEF AllSeen, PagesKept
<1>14. AllFit(strategy, text, made)
  BY <1>6, <1>12, <1>13 DEF AllFit
<1> QED
  BY <1>1, <1>14 DEF made, text

-----------------------------------------------------------------------------
(* Committed or not, rows fit the strategy in use once they are made.       *)
Made(r) == r.pc \notin {"idle", "chunk"}

SizesInv ==
  /\ plan = [k \in DOMAIN plan |-> plan[k]] /\ "strategy" \in DOMAIN plan
  /\ \A d \in Written : AllFit(plan.strategy, pages[d], rows[d])
  /\ \A w \in DOMAIN run : Made(run[w]) => AllFit(plan.strategy, pages[run[w].doc], run[w].chunks)

LEMMA StrategyStays ==
  ASSUME SizesInv, [Next]_vars
  PROVE  /\ pages' = pages
         /\ plan' = [k \in DOMAIN plan' |-> plan'[k]] /\ "strategy" \in DOMAIN plan'
         /\ plan'.strategy = plan.strategy
<1>1. ASSUME NEW what, what # "strategy", Spend(what)
      PROVE  /\ plan' = [k \in DOMAIN plan' |-> plan'[k]] /\ "strategy" \in DOMAIN plan'
             /\ plan'.strategy = plan.strategy
  <2>1. plan' = [plan EXCEPT ![what] = plan[what] - 1]
    BY <1>1 DEF Spend
  <2> QED
    BY <1>1, <2>1 DEF SizesInv
<1>2. CASE plan' = plan /\ pages' = pages
  BY <1>2 DEF SizesInv
<1>3. ASSUME NEW w \in DOMAIN run, fail(w) \/ lose(w)
      PROVE  pages' = pages /\ \E what : what # "strategy" /\ Spend(what)
  <2>1. CASE fail(w)
    BY <2>1 DEF fail
  <2>2. CASE lose(w)
    BY <2>2 DEF lose
  <2> QED
    BY <1>3, <2>1, <2>2
<1>4. ASSUME NEW d \in DOMAIN pages, reindex(d)
      PROVE  pages' = pages /\ \E what : what # "strategy" /\ Spend(what)
  BY <1>4 DEF reindex
<1>5. ASSUME explore PROVE pages' = pages /\ \E what : what # "strategy" /\ Spend(what)
  BY <1>5 DEF explore
<1>6. ASSUME NEW w \in DOMAIN run, Work(w) PROVE plan' = plan /\ pages' = pages
  BY <1>6 DEF Work, begin, chunk_document, find_version, add_version, embed, upsert, build_graph,
              skip_graph, commit
<1> QED
  BY <1>1, <1>2, <1>3, <1>4, <1>5, <1>6 DEF Next, vars

LEMMA SizesStay ==
  ASSUME SizesInv, [Next]_vars,
         \A d \in Written' : AllFit(plan.strategy, pages[d], rows'[d]),
         \A w \in DOMAIN run' :
           Made(run'[w]) => AllFit(plan.strategy, pages[run'[w].doc], run'[w].chunks)
  PROVE  SizesInv'
<1>1. /\ pages' = pages /\ plan'.strategy = plan.strategy
      /\ plan' = [k \in DOMAIN plan' |-> plan'[k]] /\ "strategy" \in DOMAIN plan'
  BY StrategyStays
<1>2. /\ \A d \in Written' : AllFit(plan'.strategy, pages'[d], rows'[d])
      /\ \A w \in DOMAIN run' :
           Made(run'[w]) => AllFit(plan'.strategy, pages'[run'[w].doc], run'[w].chunks)
  BY <1>1
<1> QED
  BY <1>1, <1>2 DEF SizesInv, AllFit, Made

(* A run that goes on, or ends, with rows that fit.                         *)
LEMMA SizesGoOn ==
  ASSUME SizesInv, [Next]_vars, NEW w \in DOMAIN run, NEW r, run' = [run EXCEPT ![w] = r],
         Made(r) => AllFit(plan.strategy, pages[r.doc], r.chunks), rows' = rows, status' = status
  PROVE  SizesInv'
<1>1. \A v \in DOMAIN run' : v \in DOMAIN run /\ (run'[v] = r \/ run'[v] = run[v])
  OBVIOUS
<1>2. \A v \in DOMAIN run' :
        Made(run'[v]) => AllFit(plan.strategy, pages[run'[v].doc], run'[v].chunks)
  BY <1>1 DEF SizesInv
<1>3. \A d \in Written' : AllFit(plan.strategy, pages[d], rows'[d])
  BY DEF SizesInv, Written
<1> QED
  BY <1>2, <1>3, SizesStay

LEMMA SizesSettle ==
  ASSUME Tables, SizesInv, [Next]_vars, NEW w \in DOMAIN run, Made(run[w]), NEW outcome,
         Settle(w, outcome)
  PROVE  SizesInv'
<1>1. /\ run' = [run EXCEPT ![w] = IdleRun] /\ rows' = [rows EXCEPT ![run[w].doc] = run[w].chunks]
      /\ status' = [status EXCEPT ![run[w].doc] = outcome]
  BY DEF Settle
<1>2. \A v \in DOMAIN run' : v \in DOMAIN run /\ (run'[v] = IdleRun \/ run'[v] = run[v])
  BY <1>1
<1>3. \A v \in DOMAIN run' :
        Made(run'[v]) => AllFit(plan.strategy, pages[run'[v].doc], run'[v].chunks)
  BY <1>2, IdleIsIdle DEF SizesInv, Made
<1>4. ASSUME NEW d \in Written'
      PROVE  \/ rows'[d] = rows[d] /\ d \in Written
             \/ rows'[d] = run[w].chunks /\ d = run[w].doc
  <2>1. d \in DOMAIN rows /\ (rows'[d] # <<>> \/ status'[d] = "indexed")
    BY <1>1 DEF Written
  <2>2. CASE d = run[w].doc
    BY <1>1, <2>1, <2>2
  <2>3. CASE d # run[w].doc
    BY <1>1, <2>1, <2>3 DEF Written, Tables
  <2> QED
    BY <2>2, <2>3
<1>5. \A d \in Written' : AllFit(plan.strategy, pages[d], rows'[d])
  BY <1>4 DEF SizesInv
<1> QED
  BY <1>3, <1>5, SizesStay

(* A point and a version change nothing a strategy promises.                *)
Repointed(more, chunks) ==
  /\ more = [i \in DOMAIN chunks |-> more[i]]
  /\ \A i \in DOMAIN chunks : \E vec, version :
       more[i] = Row(chunks[i], chunks[i].page, chunks[i].parent, vec, version)

LEMMA PointsKeepSizes ==
  ASSUME NEW strategy, NEW text, NEW chunks, NEW more, AllFit(strategy, text, chunks), Repointed(more, chunks)
  PROVE  AllFit(strategy, text, more)
<1>1. DOMAIN more = DOMAIN chunks /\ more = [i \in DOMAIN chunks |-> more[i]]
  BY DEF Repointed
<1>2. ASSUME NEW i \in DOMAIN chunks
      PROVE  /\ more[i].page = chunks[i].page /\ more[i].content = chunks[i].content
             /\ more[i].type = chunks[i].type /\ more[i].parent = chunks[i].parent
  <2> DEFINE c == chunks[i]
             m == more[i]
  <2>1. PICK vec, version : m = Row(c, c.page, c.parent, vec, version)
    BY DEF Repointed
  <2> HIDE DEF c, m
  <2>2. m.page = c.page /\ m.content = c.content /\ m.type = c.type /\ m.parent = c.parent
    BY <2>1 DEF Row
  <2> QED
    BY <2>2 DEF c, m
<1>3. AllSized(strategy, text, more)
  <2>1. ASSUME NEW i \in DOMAIN chunks
        PROVE  more[i].page \in DOMAIN text /\ Fits(strategy, text[more[i].page], more[i])
    <3> DEFINE c == chunks[i]
               m == more[i]
    <3>1. c.page \in DOMAIN text /\ Fits(strategy, text[c.page], c)
      BY DEF AllFit, AllSized
    <3>2. m.page = c.page /\ m.content = c.content /\ m.type = c.type /\ m.parent = c.parent
      BY <1>2
    <3> HIDE DEF c, m
    <3>3. m.page \in DOMAIN text /\ Fits(strategy, text[m.page], m)
      BY <3>1, <3>2 DEF Fits
    <3> QED
      BY <3>3 DEF m
  <2> QED
    BY <1>1, <2>1 DEF AllSized
<1>4. ASSUME NEW n PROVE Tops(more, n) = Tops(chunks, n)
  <2> DEFINE f == [j \in DOMAIN more |->
                     IF more[j].page = n /\ more[j].parent = 0 THEN <<more[j].content>> ELSE <<>>]
             g == [j \in DOMAIN chunks |->
                     IF chunks[j].page = n /\ chunks[j].parent = 0 THEN <<chunks[j].content>> ELSE <<>>]
  <2>1. f = g
    BY <1>1, <1>2
  <2> QED
    BY <2>1 DEF Tops
<1>5. ASSUME NEW i PROVE Kids(more, i) = Kids(chunks, i)
  <2> DEFINE f == [j \in DOMAIN more |-> IF more[j].parent = i THEN <<more[j].content>> ELSE <<>>]
             g == [j \in DOMAIN chunks |-> IF chunks[j].parent = i THEN <<chunks[j].content>> ELSE <<>>]
  <2>1. f = g
    BY <1>1, <1>2
  <2> QED
    BY <2>1 DEF Kids
<1>6. AllSaid(strategy, text, chunks)
  BY DEF AllFit
<1>7. \E k \in Nat : more = [i \in 1 .. k |-> more[i]]
  <2>1. PICK k \in Nat : chunks = [i \in 1 .. k |-> chunks[i]]
    BY <1>6 DEF AllSaid
  <2>2. DOMAIN chunks = 1 .. k
    BY <2>1
  <2> QED
    BY <1>1, <2>2
<1>8. AllSaid(strategy, text, more)
  <2>1. \A i \in DOMAIN more : more[i].content \in Text
    BY <1>1, <1>2, <1>6 DEF AllSaid
  <2>2. ASSUME NEW n \in DOMAIN text
        PROVE  Stitched(Words(text[n]), Tops(more, n), OverlapOf(strategy))
    BY <1>1, <1>4, <1>6 DEF AllSaid
  <2>3. ASSUME strategy = "parent_child", NEW i \in DOMAIN more, more[i].parent = 0
        PROVE  Stitched(Words(more[i].content), Kids(more, i), ChildOverlap)
    <3>1. i \in DOMAIN chunks /\ chunks[i].parent = 0 /\ more[i].content = chunks[i].content
      BY <1>1, <1>2, <2>3
    <3>2. Stitched(Words(chunks[i].content), Kids(chunks, i), ChildOverlap)
      BY <1>6, <2>3, <3>1 DEF AllSaid
    <3> QED
      BY <1>5, <3>1, <3>2
  <2> QED
    BY <1>7, <2>1, <2>2, <2>3 DEF AllSaid
<1>9. ASSUME NEW n, NEW only \in BOOLEAN PROVE Seen(more, n, only) = Seen(chunks, n, only)
  <2> DEFINE f == [j \in DOMAIN more |->
                     IF more[j].page = n /\ (only => more[j].type = "table") THEN <<more[j].content>> ELSE <<>>]
             g == [j \in DOMAIN chunks |->
                     IF chunks[j].page = n /\ (only => chunks[j].type = "table") THEN <<chunks[j].content>> ELSE <<>>]
  <2>1. f = g
    BY <1>1, <1>2
  <2> QED
    BY <2>1 DEF Seen
<1>10. AllSeen(strategy, text, more)
  <2>1. AllSeen(strategy, text, chunks)
    BY DEF AllFit
  <2> QED
    BY <1>1, <1>9, <2>1 DEF AllSeen
<1> QED
  BY <1>3, <1>8, <1>10 DEF AllFit

LEMMA SizesStart == Init => SizesInv
<1> SUFFICES ASSUME Init PROVE SizesInv
  OBVIOUS
<1>1. PICK p \in Plans : plan = p.may /\ run = [w \in p.workers |-> IdleRun]
  BY DEF Init
<1>2. plan \in [strategy : STRING, extractor : {"rules", "llm"},
                failures : Nat, losses : Nat, again : Nat, queries : Nat]
  BY <1>1, IndexingAssumption
<1>3. Written = {}
  BY DEF Init, Written
<1>4. \A w \in DOMAIN run : ~Made(run[w])
  BY <1>1, IdleIsIdle DEF Made
<1> QED
  BY <1>2, <1>3, <1>4 DEF SizesInv

LEMMA SizesStep ==
  Shape /\ Tables /\ GraphInv /\ SizesInv /\ [Next]_vars => SizesInv'
<1> SUFFICES ASSUME Shape, Tables, GraphInv, SizesInv, [Next]_vars PROVE SizesInv'
  OBVIOUS
<1>r. ASSUME NEW w \in DOMAIN run PROVE run[w] = [f \in Fields |-> run[w][f]]
  BY DEF Shape
<1>f. ASSUME NEW w \in DOMAIN run, Made(run[w])
      PROVE  AllFit(plan.strategy, pages[run[w].doc], run[w].chunks)
  BY <1>f DEF SizesInv
<1>1. CASE UNCHANGED <<rows, run>> /\ Written' \subseteq Written
  BY <1>1, SizesStay DEF SizesInv
<1>2. CASE UNCHANGED vars \/ explore
  <2>1. UNCHANGED <<rows, run, status>>
    BY <1>2 DEF vars, explore
  <2> QED
    BY <1>1, <2>1 DEF Written
<1>3. ASSUME NEW d \in DOMAIN pages, reindex(d) PROVE SizesInv'
  <2>1. UNCHANGED <<rows, run>> /\ status' = [status EXCEPT ![d] = "uploaded"]
    BY <1>3 DEF reindex
  <2>2. \A e \in DOMAIN rows : status'[e] = "indexed" => status[e] = "indexed"
    BY <2>1 DEF Tables
  <2> QED
    BY <1>1, <2>1, <2>2 DEF Written
<1>4. ASSUME NEW w \in DOMAIN run, begin(w) PROVE SizesInv'
  <2>1. PICK t : run' = [run EXCEPT ![w] = [IdleRun EXCEPT !.pc = "chunk", !.doc = t.doc,
                                             !.retries = t.retries, !.id = runs + 1]]
    BY <1>4 DEF begin
  <2> DEFINE r == [IdleRun EXCEPT !.pc = "chunk", !.doc = t.doc, !.retries = t.retries, !.id = runs + 1]
  <2>2. r.pc = "chunk" /\ run' = [run EXCEPT ![w] = r]
    BY <2>1 DEF IdleRun
  <2>3. rows' = rows /\ status' = status
    BY <1>4 DEF begin
  <2> HIDE DEF r
  <2>4. ~Made(r)
    BY <2>2 DEF Made
  <2> QED
    BY <2>2, <2>3, <2>4, SizesGoOn
<1>5. ASSUME NEW w \in DOMAIN run, Made(run[w]), NEW pc, Advance(w, pc), rows' = rows, status' = status
      PROVE  SizesInv'
  <2> DEFINE r == [run[w] EXCEPT !.pc = pc]
  <2>1. run' = [run EXCEPT ![w] = r] /\ r.doc = run[w].doc /\ r.chunks = run[w].chunks
    BY <1>5, <1>r DEF Advance, Fields
  <2> HIDE DEF r
  <2> QED
    BY <1>5, <1>f, <2>1, SizesGoOn
<1>6. ASSUME NEW w \in DOMAIN run, Made(run[w]), NEW v, rows' = rows, status' = status,
             run' = [run EXCEPT ![w].pc = "embed", ![w].version = v]
      PROVE  SizesInv'
  <2> DEFINE r == [run[w] EXCEPT !.pc = "embed", !.version = v]
  <2>1. run' = [run EXCEPT ![w] = r] /\ r.doc = run[w].doc /\ r.chunks = run[w].chunks
    BY <1>6, <1>r DEF Fields
  <2> HIDE DEF r
  <2> QED
    BY <1>6, <1>f, <2>1, SizesGoOn
<1>7. ASSUME NEW w \in DOMAIN run, run' = [run EXCEPT ![w] = IdleRun], rows' = rows, status' = status
      PROVE  SizesInv'
  <2>1. ~Made(IdleRun)
    BY IdleIsIdle DEF Made
  <2> QED
    BY <1>7, <2>1, SizesGoOn
<1>8. ASSUME NEW w \in DOMAIN run, chunk_document(w) PROVE SizesInv'
  <2> DEFINE d == run[w].doc
             made == RowsOf(plan.strategy, d)
             r == [run[w] EXCEPT !.pc = "version", !.chunks = made]
  <2>1. d \in DOMAIN pages /\ pages[d] \in Seq(Text)
    BY <1>8 DEF chunk_document, Stage, GraphInv
  <2>2. AllFit(plan.strategy, pages[d], made)
    BY <2>1, RowsFitTheirStrategy
  <2>3. run' = [run EXCEPT ![w] = r] /\ rows' = rows /\ status' = status
    BY <1>8 DEF chunk_document
  <2> HIDE DEF made
  <2>4. r.doc = d /\ r.chunks = made
    BY <1>r DEF Fields
  <2> HIDE DEF r, d
  <2> QED
    BY <2>2, <2>3, <2>4, SizesGoOn
<1>9. ASSUME NEW w \in DOMAIN run, find_version(w) PROVE SizesInv'
  <2>1. rows' = rows /\ status' = status /\ Made(run[w])
    BY <1>9 DEF find_version, Stage, Made
  <2>2. \/ Advance(w, "addVersion")
        \/ \E v \in versions : run' = [run EXCEPT ![w].pc = "embed", ![w].version = v]
    BY <1>9 DEF find_version
  <2> QED
    BY <1>5, <1>6, <2>1, <2>2
<1>10. ASSUME NEW w \in DOMAIN run, add_version(w) PROVE SizesInv'
  <2>1. rows' = rows /\ status' = status /\ Made(run[w])
    BY <1>10 DEF add_version, Stage, Made
  <2>2. \/ run' = [run EXCEPT ![w].pc = "embed", ![w].version = run[w].id]
        \/ run' = [run EXCEPT ![w] = IdleRun]
    BY <1>10 DEF add_version, Escape
  <2> QED
    BY <1>6, <1>7, <2>1, <2>2
<1>11. ASSUME NEW w \in DOMAIN run, embed(w) PROVE SizesInv'
  <2> DEFINE chunks == run[w].chunks
             more == [i \in DOMAIN chunks |->
                        LET c == chunks[i] IN
                        IF c.embed THEN Row(c, c.page, c.parent, <<run[w].id, i>>, run[w].version)
                        ELSE Row(c, c.page, c.parent, None, None)]
             pc == IF Targets(w) = {} THEN "graph" ELSE "upsert"
             r == [run[w] EXCEPT !.pc = pc, !.chunks = more]
  <2>1. run' = [run EXCEPT ![w] = r] /\ rows' = rows /\ status' = status
    BY <1>11 DEF embed
  <2>2. AllFit(plan.strategy, pages[run[w].doc], more)
    <3>1. \A i \in DOMAIN chunks : \E vec, version :
            more[i] = Row(chunks[i], chunks[i].page, chunks[i].parent, vec, version)
      OBVIOUS
    <3>2. Repointed(more, chunks)
      <4>1. more = [i \in DOMAIN chunks |-> more[i]]
        OBVIOUS
      <4> HIDE DEF chunks, more
      <4> QED
        BY <3>1, <4>1 DEF Repointed
    <3>3. AllFit(plan.strategy, pages[run[w].doc], chunks)
      BY <1>f, <1>11 DEF embed, Stage, Made
    <3> HIDE DEF chunks, more
    <3> QED
      BY <3>2, <3>3, PointsKeepSizes
  <2> HIDE DEF more, pc
  <2>3. r.doc = run[w].doc /\ r.chunks = more
    BY <1>r DEF Fields
  <2> HIDE DEF r
  <2> QED
    BY <2>1, <2>2, <2>3, SizesGoOn
<1>12. ASSUME NEW w \in DOMAIN run, upsert(w) \/ build_graph(w) \/ skip_graph(w) PROVE SizesInv'
  <2>1. rows' = rows /\ status' = status /\ Made(run[w]) /\ \E pc : Advance(w, pc)
    BY <1>12 DEF upsert, build_graph, skip_graph, Stage, Made
  <2> QED
    BY <1>5, <2>1
<1>13. ASSUME NEW w \in DOMAIN run, commit(w) \/ fail(w) PROVE SizesInv'
  <2>1. Made(run[w]) /\ \E outcome : Settle(w, outcome)
    BY <1>13 DEF commit, fail, Stage, Made
  <2> QED
    BY <2>1, SizesSettle
<1>14. ASSUME NEW w \in DOMAIN run, lose(w) PROVE SizesInv'
  BY <1>7, <1>14 DEF lose
<1> QED
  BY <1>2, <1>3, <1>4, <1>8, <1>9, <1>10, <1>11, <1>12, <1>13, <1>14 DEF Next, Work

LEMMA FittingHolds == SizesInv => SizesHold
<1> SUFFICES ASSUME SizesInv, NEW d \in Written, NEW i \in DOMAIN rows[d]
    PROVE  LET c == rows[d][i]  n == Len(c.content) IN
           CASE plan.strategy = "semantic" ->
                  n <= Target \/ c.content \in ToSet(Sentences(pages[d][c.page]))
             [] plan.strategy = "parent_child" ->
                  n <= IF c.parent = 0 THEN ParentSize ELSE ChildSize + ChildOverlap + 1
             [] OTHER -> c.type = "table" \/ n <= Size + (IF Overlaps = 0 THEN 0 ELSE Overlaps + 1)
  BY DEF SizesHold
<1> DEFINE c == rows[d][i]
           page == pages[d][c.page]
<1>1. Fits(plan.strategy, page, c)
  BY DEF SizesInv, AllFit, AllSized
<1>2. Room(Size, OverlapOf(plan.strategy)) = Size + (IF Overlaps = 0 THEN 0 ELSE Overlaps + 1)
  BY ChunkerAssumption DEF Room, OverlapOf, Overlaps
<1> HIDE DEF c, page
<1>3. CASE plan.strategy = "semantic"
  BY <1>1, <1>3 DEF Fits, Sentence, c, page
<1>4. CASE plan.strategy = "parent_child"
  BY <1>1, <1>4 DEF Fits, c
<1>5. CASE plan.strategy \notin {"semantic", "parent_child"}
  BY <1>1, <1>2, <1>5 DEF Fits, c
<1> QED
  BY <1>3, <1>4, <1>5

(* Whatever the page, the strategy and the sizes: no chunk outgrows what    *)
(* its strategy allows, but for its overlap, a table, or one long sentence  *)
(* (the chunkers, and split_text of recursive.py).                          *)
THEOREM ChunkSizesHold == Spec => []SizesHold
<1>1. VectorsInv /\ GraphInv /\ [Next]_vars => GraphInv'
  BY GraphStep DEF VectorsInv
<1>2. VectorsInv /\ GraphInv /\ SizesInv /\ [Next]_vars => SizesInv'
  BY SizesStep DEF VectorsInv
<1> QED
  BY VectorsStart, VectorsStep, GraphStart, SizesStart, FittingHolds, <1>1, <1>2, PTL DEF Spec

(* The rows of a document, chosen by their page or their parent.            *)
LEMMA SayingHolds == SizesInv => NothingLost
<1> SUFFICES ASSUME SizesInv, NEW d \in Written
    PROVE  /\ \A n \in DOMAIN pages[d] :
                Stitched(Words(pages[d][n]),
                         Contents(Where(Cut(d, n), LAMBDA c : c.parent = 0)), Overlaps)
           /\ plan.strategy = "parent_child" =>
                \A i \in DOMAIN rows[d] : rows[d][i].parent = 0 =>
                  Stitched(Words(rows[d][i].content),
                           Contents(Where(rows[d], LAMBDA c : c.parent = i)), ChildOverlap)
  BY DEF NothingLost
<1> DEFINE cs == rows[d]
           R == {cs[i] : i \in DOMAIN cs}
<1>1. AllSaid(plan.strategy, pages[d], cs)
  BY DEF SizesInv, AllFit
<1>2. cs \in Seq(R) /\ HaveTexts(R)
  <2>1. PICK k \in Nat : cs = [i \in 1 .. k |-> cs[i]]
    BY <1>1 DEF AllSaid
  <2> HIDE DEF cs
  <2>2. DOMAIN cs = 1 .. k
    BY <2>1
  <2>3. cs \in Seq(R)
    BY <2>1, <2>2
  <2>4. HaveTexts(R)
    BY <1>1 DEF AllSaid, HaveTexts
  <2> QED
    BY <2>3, <2>4
<1>3. Overlaps = OverlapOf(plan.strategy)
  BY DEF Overlaps, OverlapOf
<1> HIDE DEF cs, R
<1>4. ASSUME NEW n
      PROVE  Contents(Where(Cut(d, n), LAMBDA c : c.parent = 0)) = Tops(cs, n)
  <2> DEFINE P == {c \in R : c.page = n}
             Q == {c \in R : c.parent = 0}
             cut == Mapped(cs, Choosing(R, P))
  <2>1. Cut(d, n) = cut
    <3>1. [i \in DOMAIN cs |-> IF cs[i].page = n THEN <<cs[i]>> ELSE <<>>] = Each(cs, Choosing(R, P))
      <4>1. ASSUME NEW i \in DOMAIN cs
            PROVE  (IF cs[i].page = n THEN <<cs[i]>> ELSE <<>>) = Choosing(R, P)[cs[i]]
        BY <1>2 DEF Choosing
      <4> HIDE DEF P
      <4> QED
        BY <4>1 DEF Each
    <3>2. Cut(d, n) = FlattenSeq([i \in DOMAIN cs |-> IF cs[i].page = n THEN <<cs[i]>> ELSE <<>>])
      BY DEF Cut, Where, cs
    <3> QED
      BY <3>1, <3>2 DEF Mapped
  <2>2. cut \in Seq(R)
    BY <1>2, ChosenAre
  <2>3. Told(cut, R, Q) = Told(cs, R, P \cap Q)
    <3> HIDE DEF P, Q
    <3> QED
      BY <1>2, ChosenAreTold
  <2>4. P \cap Q = {c \in R : c.page = n /\ c.parent = 0}
    OBVIOUS
  <2>5. Tops(cs, n) = Told(cs, R, {c \in R : c.page = n /\ c.parent = 0})
    BY <1>2, TopsAreTold
  <2> HIDE DEF cut
  <2>6. Where(cut, LAMBDA c : c.parent = 0) = Mapped(cut, Choosing(R, Q))
    <3>1. [i \in DOMAIN cut |-> IF cut[i].parent = 0 THEN <<cut[i]>> ELSE <<>>] = Each(cut, Choosing(R, Q))
      <4>1. ASSUME NEW i \in DOMAIN cut
            PROVE  (IF cut[i].parent = 0 THEN <<cut[i]>> ELSE <<>>) = Choosing(R, Q)[cut[i]]
        BY <2>2 DEF Choosing
      <4> HIDE DEF Q
      <4> QED
        BY <4>1 DEF Each
    <3> QED
      BY <3>1 DEF Mapped, Where
  <2>7. Contents(Mapped(cut, Choosing(R, Q))) = Told(cut, R, Q)
    <3> HIDE DEF Q
    <3> QED
      BY <1>2, <2>2, ChosenContents
  <2> HIDE DEF P, Q
  <2> QED
    BY <2>1, <2>3, <2>4, <2>5, <2>6, <2>7
<1>5. ASSUME NEW i
      PROVE  Contents(Where(cs, LAMBDA c : c.parent = i)) = Kids(cs, i)
  <2> DEFINE Q == {c \in R : c.parent = i}
  <2>1. Where(cs, LAMBDA c : c.parent = i) = Mapped(cs, Choosing(R, Q))
    <3>1. [j \in DOMAIN cs |-> IF cs[j].parent = i THEN <<cs[j]>> ELSE <<>>] = Each(cs, Choosing(R, Q))
      <4>1. ASSUME NEW j \in DOMAIN cs
            PROVE  (IF cs[j].parent = i THEN <<cs[j]>> ELSE <<>>) = Choosing(R, Q)[cs[j]]
        BY <1>2 DEF Choosing
      <4> HIDE DEF Q
      <4> QED
        BY <4>1 DEF Each
    <3> QED
      BY <3>1 DEF Mapped, Where
  <2>2. Kids(cs, i) = Told(cs, R, Q)
    BY <1>2, KidsAreTold
  <2>3. Contents(Mapped(cs, Choosing(R, Q))) = Told(cs, R, Q)
    <3> HIDE DEF Q
    <3> QED
      BY <1>2, ChosenContents
  <2> QED
    BY <2>1, <2>2, <2>3
<1>6. ASSUME NEW n \in DOMAIN pages[d]
      PROVE  Stitched(Words(pages[d][n]),
                      Contents(Where(Cut(d, n), LAMBDA c : c.parent = 0)), Overlaps)
  <2>1. Stitched(Words(pages[d][n]), Tops(cs, n), OverlapOf(plan.strategy))
    BY <1>1, <1>2 DEF AllSaid
  <2> QED
    BY <1>3, <1>4, <2>1
<1>7. ASSUME plan.strategy = "parent_child", NEW i \in DOMAIN cs, cs[i].parent = 0
      PROVE  Stitched(Words(cs[i].content), Contents(Where(cs, LAMBDA c : c.parent = i)), ChildOverlap)
  <2>1. Stitched(Words(cs[i].content), Kids(cs, i), ChildOverlap)
    BY <1>1, <1>2, <1>7 DEF AllSaid
  <2> QED
    BY <1>5, <2>1
<1> QED
  BY <1>6, <1>7 DEF cs

(* Whatever the page, the strategy and the sizes: every word of a page is   *)
(* in its chunks, in order and on the right page, and every word of a       *)
(* parent in its children (the chunkers; chunking_service.py numbers the    *)
(* parents of a document's pages).                                          *)
THEOREM NothingIsLost == Spec => []NothingLost
<1>1. VectorsInv /\ GraphInv /\ [Next]_vars => GraphInv'
  BY GraphStep DEF VectorsInv
<1>2. VectorsInv /\ GraphInv /\ SizesInv /\ [Next]_vars => SizesInv'
  BY SizesStep DEF VectorsInv
<1> QED
  BY VectorsStart, VectorsStep, GraphStart, SizesStart, SayingHolds, <1>1, <1>2, PTL DEF Spec

-----------------------------------------------------------------------------
(* Calm texts: where a definition follows the beginning of a line, nothing  *)
(* but blanks comes before it.                                              *)
Calm(s) ==
  \A i \in DOMAIN s : \A j \in 2 .. i :
    s[i] = Definition /\ s[j - 1] = Newline /\ (\A m \in j .. i - 1 : Blank(s[m]))
      => \A m \in 1 .. i - 1 : Blank(s[m])

CalmText == {s \in Text : Calm(s)}

LEMMA CalmHalves ==
  ASSUME NEW a \in Text, NEW b \in Text, a \o b \in CalmText PROVE a \in CalmText /\ b \in CalmText
<1> DEFINE u == a \o b
           k == Len(a)
<1>1. a \in Seq(Int) /\ b \in Seq(Int)
  BY DEF Text
<1>2. /\ Len(u) = k + Len(b) /\ k \in Nat /\ Len(b) \in Nat /\ u \in Seq(Int)
      /\ \A i \in 1 .. k : u[i] = a[i]
      /\ \A i \in 1 .. Len(b) : u[k + i] = b[i]
  BY <1>1, TwoTogether DEF Follows
<1>3. DOMAIN u = 1 .. Len(u) /\ DOMAIN a = 1 .. k /\ DOMAIN b = 1 .. Len(b)
  BY <1>1, <1>2
<1>4. Calm(u)
  BY DEF CalmText
<1> HIDE DEF u, k
<1>5. Calm(a)
  <2> SUFFICES ASSUME NEW i \in 1 .. k, NEW j \in 2 .. i, a[i] = Definition, a[j - 1] = Newline,
                      \A m \in j .. i - 1 : Blank(a[m]), NEW m \in 1 .. i - 1
      PROVE  Blank(a[m])
    BY <1>3 DEF Calm
  <2>1. /\ i \in 1 .. Len(u) /\ u[i] = a[i] /\ j - 1 \in 1 .. k /\ u[j - 1] = a[j - 1]
        /\ \A x \in 1 .. i - 1 : x \in 1 .. k /\ u[x] = a[x]
    BY <1>2
  <2>2. \A x \in j .. i - 1 : Blank(u[x])
    BY <2>1
  <2>3. Blank(u[m])
    BY <1>3, <1>4, <2>1, <2>2 DEF Calm
  <2> QED
    BY <2>1, <2>3
<1>6. Calm(b)
  <2> SUFFICES ASSUME NEW i \in 1 .. Len(b), NEW j \in 2 .. i, b[i] = Definition, b[j - 1] = Newline,
                      \A m \in j .. i - 1 : Blank(b[m]), NEW m \in 1 .. i - 1
      PROVE  Blank(b[m])
    BY <1>3 DEF Calm
  <2> DEFINE ii == k + i
             jj == k + j
  <2>1. /\ ii \in 1 .. Len(u) /\ jj \in 2 .. ii /\ jj - 1 = k + (j - 1) /\ j - 1 \in 1 .. Len(b)
        /\ \A x \in jj .. ii - 1 : x - k \in j .. i - 1 /\ x - k \in 1 .. Len(b) /\ x = k + (x - k)
        /\ k + m \in 1 .. ii - 1 /\ m \in 1 .. Len(b)
    BY SMTT(40), <1>2
  <2>2. u[ii] = b[i] /\ u[jj - 1] = b[j - 1] /\ u[k + m] = b[m]
    BY <1>2, <2>1
  <2>3. ASSUME NEW x \in jj .. ii - 1 PROVE Blank(u[x])
    <3> DEFINE y == x - k
    <3>1. y \in j .. i - 1 /\ y \in 1 .. Len(b) /\ x = k + y
      BY <2>1
    <3> HIDE DEF y
    <3>2. u[x] = b[y]
      BY <1>2, <3>1
    <3> QED
      BY <3>1, <3>2
  <2> HIDE DEF ii, jj
  <2>4. \A x \in 1 .. ii - 1 : Blank(u[x])
    BY <1>3, <1>4, <2>1, <2>2, <2>3 DEF Calm
  <2> QED
    BY <2>1, <2>2, <2>4
<1> QED
  BY <1>5, <1>6 DEF CalmText

(* What ends without a definition adds none.                                *)
LEMMA CalmEnds ==
  ASSUME NEW a \in CalmText, NEW b \in Text, \A i \in DOMAIN b : b[i] # Definition
  PROVE  a \o b \in CalmText
<1> DEFINE u == a \o b
           k == Len(a)
<1>1. a \in Seq(Int) /\ b \in Seq(Int) /\ Calm(a)
  BY DEF Text, CalmText
<1>2. /\ Len(u) = k + Len(b) /\ k \in Nat /\ Len(b) \in Nat /\ u \in Seq(Int)
      /\ \A i \in 1 .. k : u[i] = a[i]
      /\ \A i \in 1 .. Len(b) : u[k + i] = b[i]
  BY <1>1, TwoTogether DEF Follows
<1>3. DOMAIN u = 1 .. Len(u) /\ DOMAIN a = 1 .. k /\ DOMAIN b = 1 .. Len(b)
  BY <1>1, <1>2
<1> HIDE DEF u, k
<1>4. Calm(u)
  <2> SUFFICES ASSUME NEW i \in 1 .. Len(u), NEW j \in 2 .. i, u[i] = Definition, u[j - 1] = Newline,
                      \A m \in j .. i - 1 : Blank(u[m]), NEW m \in 1 .. i - 1
      PROVE  Blank(u[m])
    BY <1>3 DEF Calm
  <2>1. i \in 1 .. k
    <3>1. ASSUME i \notin 1 .. k PROVE FALSE
      <4> DEFINE x == i - k
      <4>1. x \in 1 .. Len(b) /\ i = k + x
        BY <1>2, <3>1
      <4> HIDE DEF x
      <4> QED
        BY <1>2, <1>3, <4>1
    <3> QED
      BY <3>1
  <2>2. /\ u[i] = a[i] /\ j - 1 \in 1 .. k /\ u[j - 1] = a[j - 1]
        /\ \A x \in 1 .. i - 1 : x \in 1 .. k /\ u[x] = a[x]
    BY <1>2, <2>1
  <2>3. \A x \in j .. i - 1 : Blank(a[x])
    BY <2>1, <2>2
  <2>4. Blank(a[m])
    BY <1>1, <1>3, <2>1, <2>2, <2>3 DEF Calm
  <2> QED
    BY <2>2, <2>4
<1> QED
  BY <1>2, <1>4 DEF CalmText, Text, u

(* strip, by where the first and the last solid symbol are.                 *)
LEMMA StripOf ==
  ASSUME NEW s \in Text, NEW p \in 1 .. Len(s), NEW q \in 1 .. Len(s),
         ~Blank(s[p]), ~Blank(s[q]), \A i \in 1 .. Len(s) : i < p \/ i > q => Blank(s[i])
  PROVE  strip(s) = SubSeq(s, p, q)
<1> DEFINE solid == {i \in DOMAIN s : ~Blank(s[i])}
           n == Len(s)
<1>1. n \in Nat /\ DOMAIN s = 1 .. n
  BY DEF Text
<1>2. p \in solid /\ q \in solid /\ \A i \in solid : p <= i /\ i <= q
  BY <1>1
<1>3. strip(s) = SubSeq(s, Min(solid), Max(solid))
  BY <1>2 DEF strip
<1>4. solid \in SUBSET (1 .. n) /\ solid \in SUBSET Nat /\ solid # {}
  BY <1>1, <1>2
<1> HIDE DEF solid
<1>5. Min(solid) \in solid /\ \A i \in solid : Min(solid) <= i
  BY <1>4, MinIsThere
<1>6. Max(solid) \in solid /\ \A i \in solid : i <= Max(solid)
  BY <1>1, <1>4, MaxIsThere
<1> DEFINE a == Min(solid)
           b == Max(solid)
<1> HIDE DEF a, b
<1>7. a = p /\ b = q
  <2>1. a \in 1 .. n /\ b \in 1 .. n
    BY <1>4, <1>5, <1>6 DEF a, b
  <2>2. a <= p /\ p <= a /\ q <= b /\ b <= q
    BY <1>2, <1>5, <1>6 DEF a, b
  <2> QED
    BY <1>1, <2>1, <2>2
<1> QED
  BY <1>3, <1>7 DEF a, b

(* A text of blanks, or one with a first and a last solid symbol.           *)
LEMMA SolidEnds ==
  ASSUME NEW s \in Text
  PROVE  \/ strip(s) = <<>> /\ \A i \in 1 .. Len(s) : Blank(s[i])
         \/ \E p, q \in 1 .. Len(s) :
              /\ p <= q /\ ~Blank(s[p]) /\ ~Blank(s[q])
              /\ \A i \in 1 .. Len(s) : i < p \/ i > q => Blank(s[i])
              /\ strip(s) = SubSeq(s, p, q)
<1> DEFINE solid == {i \in DOMAIN s : ~Blank(s[i])}
           n == Len(s)
           a == Min(solid)
           b == Max(solid)
<1>1. n \in Nat /\ DOMAIN s = 1 .. n
  BY DEF Text
<1>2. CASE solid = {}
  BY <1>1, <1>2 DEF strip
<1>3. CASE solid # {}
  <2>1. solid \in SUBSET (1 .. n) /\ solid \in SUBSET Nat
    BY <1>1
  <2>2. strip(s) = SubSeq(s, a, b)
    BY <1>3 DEF strip
  <2>3. \A i \in 1 .. n : i \in solid <=> ~Blank(s[i])
    BY <1>1
  <2> HIDE DEF solid
  <2>4. a \in solid /\ \A i \in solid : a <= i
    BY <1>3, <2>1, MinIsThere
  <2>5. b \in solid /\ \A i \in solid : i <= b
    BY <1>1, <1>3, <2>1, MaxIsThere
  <2> HIDE DEF a, b
  <2>6. a \in 1 .. n /\ b \in 1 .. n /\ a <= b
    BY <2>1, <2>4, <2>5
  <2>7. \A i \in 1 .. n : i < a \/ i > b => Blank(s[i])
    BY <2>3, <2>4, <2>5, <2>6
  <2> QED
    BY <2>2, <2>3, <2>4, <2>5, <2>6, <2>7
<1> QED
  BY <1>2, <1>3

(* Firm texts are calm and begin with what is not blank.                    *)
Firm == {t \in CalmText : t # <<>> => ~Blank(t[1])}

LEMMA StripIsFirm ==
  ASSUME NEW s \in CalmText PROVE strip(s) \in Firm
<1>1. s \in Text /\ strip(s) \in Text
  BY StripShortens DEF CalmText
<1>2. CASE strip(s) = <<>>
  <2>1. <<>> \in CalmText
    <3>1. DOMAIN <<>> = {}
      OBVIOUS
    <3> QED
      BY <3>1 DEF CalmText, Calm, Text
  <2> QED
    BY <1>2, <2>1 DEF Firm
<1>3. ASSUME NEW p \in 1 .. Len(s), NEW q \in 1 .. Len(s), p <= q, ~Blank(s[p]), strip(s) = SubSeq(s, p, q)
      PROVE  strip(s) \in Firm
  <2> DEFINE n == Len(s)
             x == SubSeq(s, 1, p - 1)
             y == SubSeq(s, p, q)
             z == SubSeq(s, q + 1, n)
  <2>1. n \in Nat /\ SubSeq(s, 1, n) = s
    BY <1>1, WholeText
  <2>2. x \in Text /\ SubSeq(s, p, n) \in Text /\ s = x \o SubSeq(s, p, n)
    <3>1. 1 \in 1 .. n + 1 /\ n \in 0 .. n /\ p - 1 \in 1 - 1 .. n /\ (p - 1) + 1 = p
      BY <2>1
    <3> QED
      BY <1>1, <2>1, <3>1, CutInTwo
  <2>3. y \in Text /\ z \in Text /\ SubSeq(s, p, n) = y \o z
    <3>1. p \in 1 .. n + 1 /\ n \in 0 .. n /\ q \in p - 1 .. n
      BY <1>3, <2>1
    <3> QED
      BY <1>1, <3>1, CutInTwo
  <2>4. y \in CalmText
    <3> HIDE DEF x, y, z
    <3>1. SubSeq(s, p, n) \in CalmText
      BY <2>2, CalmHalves
    <3> QED
      BY <2>3, <3>1, CalmHalves
  <2>5. y[1] = s[p]
    BY <1>1, <1>3, <2>1 DEF Text
  <2> QED
    BY <1>3, <2>4, <2>5 DEF Firm
<1> QED
  BY <1>1, <1>2, <1>3, SolidEnds

(* In a firm text only the first symbol can open a line.                    *)
LEMMA FirmOpens ==
  ASSUME NEW t \in Firm, NEW i \in DOMAIN t, OpensLine(t, i) PROVE i = 1
<1>1. t \in Seq(Int) /\ DOMAIN t = 1 .. Len(t) /\ Len(t) \in Nat /\ Calm(t)
  BY DEF Firm, CalmText, Text
<1>2. PICK j \in 1 .. i : (j = 1 \/ t[j - 1] = Newline) /\ \A m \in j .. i - 1 : Blank(t[m])
  BY DEF OpensLine
<1>3. t[i] = Definition
  BY DEF OpensLine
<1>4. \A m \in 1 .. i - 1 : Blank(t[m])
  <2>1. CASE j = 1
    BY <1>2, <2>1
  <2>2. CASE j # 1
    <3>1. j \in 2 .. i
      BY <1>1, <2>2
    <3> QED
      BY <1>1, <1>2, <1>3, <2>2, <3>1 DEF Calm
  <2> QED
    BY <2>1, <2>2
<1>5. t # <<>> /\ ~Blank(t[1])
  BY <1>1 DEF Firm
<1>6. ASSUME i # 1 PROVE FALSE
  <2>1. 1 \in 1 .. i - 1
    BY <1>1, <1>6
  <2> QED
    BY <1>4, <1>5, <2>1
<1> QED
  BY <1>6

-----------------------------------------------------------------------------
(* The parts of a calm text are calm.                                       *)

(* What comes before a separator, the separator and the rest.               *)
LEMMA SplitsInThree ==
  ASSUME NEW sep \in Text \ {<<>>}, NEW s \in Text, At(sep, s) # {}
  PROVE  LET i == Min(At(sep, s))  first == SubSeq(s, 1, i - 1)  rest == SubSeq(s, i + Len(sep), Len(s)) IN
         first \in Text /\ rest \in Text /\ s = first \o (sep \o rest)
<1> DEFINE i == Min(At(sep, s))
           n == Len(s)
           m == Len(sep)
<1>1. At(sep, s) \in SUBSET Nat
  BY DEF At, Text
<1>2. i \in At(sep, s)
  BY <1>1, MinIsThere
<1>3. m \in Nat \ {0} /\ n \in Nat /\ i \in 1 .. n - m + 1 /\ SubSeq(s, i, i + m - 1) = sep
  <2>1. m \in Nat \ {0} /\ n \in Nat
    BY DEF Text
  <2>2. i \in 1 .. n - m + 1 /\ SubSeq(s, i, i + m - 1) = sep
    <3> HIDE DEF i
    <3> QED
      BY <1>2 DEF At
  <2> QED
    BY <2>1, <2>2
<1> HIDE DEF i
<1>4. /\ 1 \in 1 .. n + 1 /\ n \in 0 .. n /\ i - 1 \in 1 - 1 .. n /\ (i - 1) + 1 = i
      /\ i \in 1 .. n + 1 /\ i + m - 1 \in i - 1 .. n /\ (i + m - 1) + 1 = i + m
  BY <1>3
<1>5. SubSeq(s, 1, i - 1) \in Text /\ SubSeq(s, 1, n) = SubSeq(s, 1, i - 1) \o SubSeq(s, (i - 1) + 1, n)
  BY <1>4, CutInTwo
<1>6. /\ SubSeq(s, (i + m - 1) + 1, n) \in Text
      /\ SubSeq(s, i, n) = SubSeq(s, i, i + m - 1) \o SubSeq(s, (i + m - 1) + 1, n)
  BY <1>4, CutInTwo
<1>7. SubSeq(s, 1, n) = s
  BY WholeText
<1> HIDE DEF n, m
<1>8. /\ SubSeq(s, 1, i - 1) \in Text /\ SubSeq(s, i + m, n) \in Text
      /\ s = SubSeq(s, 1, i - 1) \o (sep \o SubSeq(s, i + m, n))
  BY <1>3, <1>4, <1>5, <1>6, <1>7
<1> QED
  BY <1>8 DEF i, n, m

(* Each part with the separator after it.                                   *)
Closing(sep) == [t \in Text |-> t \o sep]

LEMMA ClosingIs ==
  ASSUME NEW sep \in Text PROVE Closing(sep) \in [Text -> Seq(Int)]
<1>1. \A t \in Text : t \o sep \in Seq(Int)
  BY DEF Text
<1> QED
  BY <1>1 DEF Closing

LEMMA Regrouped ==
  ASSUME NEW a \in Text, NEW b \in Text, NEW c \in Text
  PROVE  (a \o b) \o (c \o b) = (a \o (b \o c)) \o b
<1> DEFINE x == b \o c
           y == c \o b
<1>1. x \in Text /\ y \in Text
  BY WordsTogether
<1>2. x \o b = b \o y
  BY ZenonT(60), TextsAssociate DEF x, y
<1> HIDE DEF x, y
<1>3. (a \o b) \o y = a \o (b \o y)
  BY ZenonT(60), <1>1, TextsAssociate
<1>4. (a \o x) \o b = a \o (x \o b)
  BY ZenonT(60), <1>1, TextsAssociate
<1> QED
  BY <1>2, <1>3, <1>4 DEF x, y

LEMMA SplitJoins ==
  ASSUME NEW sep \in Text \ {<<>>}, NEW text \in Text
  PROVE  Mapped(split(sep, text), Closing(sep)) = text \o sep
<1>1. PICK cut : IsSplitting(cut, sep)
  BY SplitUnfolds
<1> DEFINE g == Closing(sep)
           U == {n \in Nat : \A s \in Text : Len(s) < n => Mapped(cut[s], g) = s \o sep}
<1>0. g \in [Text -> Seq(Int)] /\ \A t \in Text : g[t] = t \o sep
  BY ClosingIs DEF Closing
<1> HIDE DEF g
<1>2. 0 \in U
  BY WholeText
<1>3. ASSUME NEW n \in Nat, n \in U PROVE n + 1 \in U
  <2>1. SUFFICES ASSUME NEW s \in Text, Len(s) < n + 1 PROVE Mapped(cut[s], g) = s \o sep
    OBVIOUS
  <2>2. cut[s] = SplitStep(cut, sep, s)
    BY <1>1 DEF IsSplitting
  <2>a. ASSUME NEW t \in Text PROVE Mapped(<<t>>, g) = t \o sep
    <3>1. Mapped(<<t>>, g) = g[t]
      BY ZenonT(60), <1>0, MapOfOne
    <3> QED
      BY <1>0, <3>1
  <2>3. CASE At(sep, s) = {}
    BY <2>2, <2>3, <2>a DEF SplitStep
  <2>4. CASE At(sep, s) # {}
    <3> DEFINE i == Min(At(sep, s))
               first == SubSeq(s, 1, i - 1)
               rest == SubSeq(s, i + Len(sep), Len(s))
    <3>1. first \in Text /\ rest \in Text /\ Len(rest) < Len(s)
      BY <2>4, RestIsShorter
    <3>2. s = first \o (sep \o rest)
      BY <2>4, SplitsInThree
    <3>3. SplitStep(cut, sep, s) = <<first>> \o cut[rest]
      BY <2>4 DEF SplitStep
    <3> HIDE DEF i, first, rest
    <3>4. cut[rest] \in Seq(Text) /\ <<first>> \in Seq(Text)
      BY <1>1, <3>1 DEF IsSplitting
    <3>5. Mapped(<<first>> \o cut[rest], g) = Mapped(<<first>>, g) \o Mapped(cut[rest], g)
      <4> DEFINE a == <<first>>
                 b == cut[rest]
      <4>1. a \in Seq(Text) /\ b \in Seq(Text)
        BY <3>4
      <4> HIDE DEF a, b
      <4>2. Mapped(a \o b, g) = Mapped(a, g) \o Mapped(b, g)
        BY ZenonT(60), <1>0, <4>1, MapTogether
      <4> QED
        BY <4>2 DEF a, b
    <3>6. Mapped(<<first>>, g) = first \o sep
      BY <2>a, <3>1
    <3>7. Len(rest) < n
      BY <2>1, <3>1, WholeText
    <3>8. Mapped(cut[rest], g) = rest \o sep
      BY <1>3, <3>1, <3>7
    <3>9. (first \o sep) \o (rest \o sep) = s \o sep
      <4>1. (first \o sep) \o (rest \o sep) = (first \o (sep \o rest)) \o sep
        <5>1. first \in Text /\ rest \in Text /\ sep \in Text
          BY <3>1
        <5> QED
          BY ZenonT(60), <5>1, Regrouped
      <4> QED
        BY <3>2, <4>1
    <3> QED
      BY <2>2, <3>3, <3>5, <3>6, <3>8, <3>9
  <2> QED
    BY <2>3, <2>4
<1> HIDE DEF U
<1>4. Nat \subseteq U
  BY <1>2, <1>3, SetInduction
<1>5. Len(text) + 1 \in U /\ Len(text) < Len(text) + 1
  BY <1>4, WholeText
<1> QED
  BY <1>1, <1>5 DEF U, IsSplitting, g

(* Separators have no definition.                                           *)
LEMMA SeparatorsDefineNothing ==
  \A j \in 1 .. 4 : \A i \in DOMAIN Separators[j] : Separators[j][i] # Definition
<1>1. /\ \A i \in DOMAIN <<Newline, Newline>> : <<Newline, Newline>>[i] \in {Space, Newline, Dot}
      /\ \A i \in DOMAIN <<Newline>> : <<Newline>>[i] \in {Space, Newline, Dot}
      /\ \A i \in DOMAIN <<Dot, Space>> : <<Dot, Space>>[i] \in {Space, Newline, Dot}
      /\ \A i \in DOMAIN <<Space>> : <<Space>>[i] \in {Space, Newline, Dot}
  OBVIOUS
<1>2. \A j \in 1 .. 4 : Separators[j] \in {<<Newline, Newline>>, <<Newline>>, <<Dot, Space>>, <<Space>>}
  BY DEF Separators
<1>3. Definition \notin {Space, Newline, Dot}
  BY DEF Definition, Space, Newline, Dot
<1>4. ASSUME NEW s \in {<<Newline, Newline>>, <<Newline>>, <<Dot, Space>>, <<Space>>}, NEW i \in DOMAIN s
      PROVE  s[i] # Definition
  BY <1>1, <1>3
<1> QED
  BY <1>2, <1>4

LEMMA PartsAreCalm ==
  ASSUME NEW k \in 1 .. 5, NEW s \in CalmText PROVE FlattenSeq(Parts(k, s)) \in CalmText
<1>0. Len(Separators) = 4 /\ s \in Text
  BY DEF Separators, CalmText
<1>1. CASE k = 5
  <2>1. Parts(k, s) = [i \in DOMAIN s |-> <<s[i]>>]
    BY <1>0, <1>1 DEF Parts
  <2> QED
    BY <1>0, <2>1, SymbolsJoin DEF Text
<1>2. CASE k # 5
  <2> DEFINE sep == Separators[k]
             parts == split(sep, s)
             more == [i \in DOMAIN parts |-> parts[i] \o sep]
  <2>0. k \in 1 .. 4 /\ ~(k > Len(Separators))
    BY <1>0, <1>2
  <2>1. Parts(k, s) = more
    BY <2>0 DEF Parts
  <2>2. sep \in Text \ {<<>>} /\ \A i \in DOMAIN sep : sep[i] # Definition
    BY <2>0, SeparatorsAre, SeparatorsDefineNothing
  <2>3. parts \in Seq(Text) /\ Mapped(parts, Closing(sep)) = s \o sep
    BY <1>0, <2>2, SplitsAreTexts, SplitJoins
  <2> HIDE DEF sep, parts
  <2>4. more = Each(parts, Closing(sep))
    <3>1. \A i \in DOMAIN parts : Closing(sep)[parts[i]] = parts[i] \o sep
      BY <2>3 DEF Closing
    <3> QED
      BY <3>1 DEF Each
  <2> HIDE DEF more
  <2>5. FlattenSeq(Parts(k, s)) = s \o sep
    BY <2>1, <2>3, <2>4 DEF Mapped
  <2> QED
    BY <2>2, <2>5, CalmEnds
<1> QED
  BY <1>1, <1>2

-----------------------------------------------------------------------------
(* What is packed of a calm text is calm.                                   *)

(* `said` was read, and the last of it is what is being gathered.           *)
PackCalm(acc, said) == acc.chunks \in Seq(CalmText) /\ \E before \in Text : said = before \o acc.current

LEMMA CalmIsText == CalmText \in SUBSET Text
BY DEF CalmText

LEMMA PackStepIsCalm ==
  ASSUME NEW size \in Nat \ {0}, NEW j \in 1 .. 5, NEW cut, NEW piece \in Text, NEW acc \in Packing(size),
         NEW said \in Text, PackCalm(acc, said), said \o piece \in CalmText,
         Len(piece) > size /\ piece \in CalmText => cut[<<j + 1, piece>>] \in Seq(CalmText)
  PROVE  PackCalm(PackStep(cut, size, j, acc, piece), said \o piece)
<1>1. acc.chunks \in Seq(CalmText) /\ acc.current \in Text
  BY DEF Packing, Sized, PackCalm
<1>2. PICK before \in Text : said = before \o acc.current
  BY DEF PackCalm
<1>3. said \in CalmText /\ piece \in CalmText
  BY CalmHalves
<1>4. acc.current \in CalmText
  BY <1>1, <1>2, <1>3, CalmHalves
<1>5. Flush(acc) \in Seq(CalmText)
  BY <1>1, <1>4 DEF Flush
<1>6. said \o piece \in Text
  BY CalmIsText
<1>7. CASE Len(piece) > size
  <2> DEFINE fine == cut[<<j + 1, piece>>]
  <2>1. fine \in Seq(CalmText)
    BY <1>3, <1>7
  <2>2. PackStep(cut, size, j, acc, piece) = [chunks |-> Flush(acc) \o fine, current |-> <<>>]
    BY <1>7 DEF PackStep
  <2> HIDE DEF fine
  <2>3. Flush(acc) \o fine \in Seq(CalmText)
    BY <1>5, <2>1
  <2>4. said \o piece = (said \o piece) \o <<>>
    BY <1>6, EmptyTexts
  <2> DEFINE next == PackStep(cut, size, j, acc, piece)
  <2>5. next.chunks = Flush(acc) \o fine /\ next.current = <<>>
    BY <2>2
  <2> HIDE DEF next
  <2>6. PackCalm(next, said \o piece)
    BY <1>6, <2>3, <2>4, <2>5 DEF PackCalm
  <2> QED
    BY <2>6 DEF next
<1>8. CASE ~(Len(piece) > size) /\ Len(acc.current) + Len(piece) <= size
  <2>1. PackStep(cut, size, j, acc, piece) = [acc EXCEPT !.current = @ \o piece]
    BY <1>8 DEF PackStep
  <2>2. /\ PackStep(cut, size, j, acc, piece).chunks = acc.chunks
        /\ PackStep(cut, size, j, acc, piece).current = acc.current \o piece
    BY <2>1 DEF Packing
  <2>3. (before \o acc.current) \o piece = before \o (acc.current \o piece)
    <3> DEFINE b == acc.current
    <3>1. b \in Text
      BY <1>1
    <3> HIDE DEF b
    <3>2. (before \o b) \o piece = before \o (b \o piece)
      BY ZenonT(60), <3>1, TextsAssociate
    <3> QED
      BY <3>2 DEF b
  <2> QED
    BY <1>1, <1>2, <2>2, <2>3 DEF PackCalm
<1>9. CASE ~(Len(piece) > size) /\ ~(Len(acc.current) + Len(piece) <= size)
  <2>1. PackStep(cut, size, j, acc, piece) = [chunks |-> Flush(acc), current |-> piece]
    BY <1>9 DEF PackStep
  <2> DEFINE next == PackStep(cut, size, j, acc, piece)
  <2>2. next.chunks = Flush(acc) /\ next.current = piece
    BY <2>1
  <2> HIDE DEF next
  <2>3. PackCalm(next, said \o piece)
    BY <1>5, <2>2 DEF PackCalm
  <2> QED
    BY <2>3 DEF next
<1> QED
  BY <1>7, <1>8, <1>9

LEMMA PackedIsCalm ==
  ASSUME NEW cut, NEW size \in Nat \ {0}, NEW j \in 1 .. 5, NEW pieces \in Seq(Text),
         Finer(cut, size, j, pieces), FlattenSeq(pieces) \in CalmText,
         \A m \in 1 .. Len(pieces) :
           Len(pieces[m]) > size /\ pieces[m] \in CalmText => cut[<<j + 1, pieces[m]>>] \in Seq(CalmText)
  PROVE  Flush(Packed(cut, size, j, pieces)) \in Seq(CalmText)
<1>1. PICK it : IsPacking(it, cut, size, j, pieces)
  BY PackRun
<1> DEFINE n == Len(pieces)
           flat(m) == FlattenSeq(SubSeq(pieces, 1, m))
           U == {m \in Nat : m <= n /\ flat(m) \in CalmText => PackCalm(it[m], flat(m))}
<1>2. n \in Nat /\ it \in [0 .. n -> Packing(size)]
  BY <1>1 DEF IsPacking
<1>3. 0 \in U
  <2>1. it[0] = [chunks |-> <<>>, current |-> <<>>]
    BY <1>1 DEF IsPacking
  <2>2. flat(0) = <<>>
    BY WholeList, FlatOfNone
  <2> HIDE DEF flat
  <2>3. <<>> \in Text /\ <<>> = <<>> \o <<>>
    BY DEF Text
  <2> DEFINE first == it[0]
  <2>4. first.chunks = <<>> /\ first.current = <<>>
    BY <2>1
  <2> HIDE DEF first
  <2>5. PackCalm(first, <<>>)
    BY <2>3, <2>4 DEF PackCalm
  <2> QED
    BY <2>2, <2>5 DEF first
<1>4. ASSUME NEW m \in Nat, m \in U PROVE m + 1 \in U
  <2>1. SUFFICES ASSUME m + 1 <= n, flat(m + 1) \in CalmText PROVE PackCalm(it[m + 1], flat(m + 1))
    OBVIOUS
  <2> DEFINE k == m + 1
             before == SubSeq(pieces, 1, m)
  <2>2. /\ before \in Seq(Text) /\ pieces[k] \in Text /\ k \in 1 .. n /\ k - 1 = m
        /\ SubSeq(pieces, 1, k) = Append(before, pieces[k])
    BY <2>1, PrefixGrows
  <2>3. flat(m) \in Text /\ flat(k) = flat(m) \o pieces[k]
    <3>1. FlattenSeq(before) \in Text
      BY <2>2, WordsOfFlat
    <3>2. FlattenSeq(Append(before, pieces[k])) = FlattenSeq(before) \o pieces[k]
      <4> DEFINE x == pieces[k]
      <4>1. before \in Seq(Seq(Int)) /\ x \in Seq(Int)
        BY <2>2 DEF Text
      <4> HIDE DEF before, x
      <4>2. FlattenSeq(Append(before, x)) = FlattenSeq(before) \o x
        BY <4>1, FlatAppends
      <4> QED
        BY <4>2 DEF x
    <3> QED
      BY <2>2, <3>1, <3>2
  <2> HIDE DEF flat, before
  <2>4. flat(m) \in CalmText /\ pieces[k] \in CalmText
    <3>1. flat(m) \o pieces[k] \in CalmText
      BY <2>1, <2>3
    <3> QED
      BY <2>2, <2>3, <3>1, CalmHalves
  <2>5. m <= n /\ m \in 0 .. n
    BY <1>2, <2>1
  <2>6. PackCalm(it[m], flat(m))
    BY <1>4, <2>4, <2>5
  <2> HIDE DEF k
  <2>7. it[k] = PackStep(cut, size, j, it[m], pieces[k])
    BY <1>1, <2>2 DEF IsPacking
  <2>8. it[m] \in Packing(size)
    BY <1>2, <2>5
  <2>9. Len(pieces[k]) > size /\ pieces[k] \in CalmText => cut[<<j + 1, pieces[k]>>] \in Seq(CalmText)
    BY <2>2
  <2>10. PackCalm(PackStep(cut, size, j, it[m], pieces[k]), flat(m) \o pieces[k])
    <3> DEFINE piece == pieces[k]
               acc == it[m]
               said == flat(m)
    <3>1. piece \in Text /\ acc \in Packing(size) /\ said \in Text /\ PackCalm(acc, said)
      BY <2>2, <2>3, <2>6, <2>8
    <3>2. said \o piece \in CalmText
      BY <2>1, <2>3 DEF k
    <3>3. Len(piece) > size /\ piece \in CalmText => cut[<<j + 1, piece>>] \in Seq(CalmText)
      BY <2>9
    <3> HIDE DEF piece, acc, said
    <3>4. PackCalm(PackStep(cut, size, j, acc, piece), said \o piece)
      BY <3>1, <3>2, <3>3, PackStepIsCalm
    <3> QED
      BY <3>4 DEF piece, acc, said
  <2> QED
    BY <2>3, <2>7, <2>10 DEF k
<1>5. n \in U
  <2> HIDE DEF U
  <2> QED
    BY <1>2, <1>3, <1>4, SetInduction
<1>6. PackCalm(it[n], FlattenSeq(pieces))
  <2>1. flat(n) = FlattenSeq(pieces)
    BY WholeList
  <2> HIDE DEF flat
  <2> QED
    BY <1>2, <1>5, <2>1
<1>7. it[n].chunks \in Seq(CalmText) /\ it[n].current \in CalmText
  <2>1. PICK before \in Text : FlattenSeq(pieces) = before \o it[n].current
    BY <1>6 DEF PackCalm
  <2>2. it[n].current \in Text
    BY <1>2 DEF Packing, Sized
  <2> QED
    BY <1>6, <2>1, <2>2, CalmHalves DEF PackCalm
<1>8. Flush(it[n]) \in Seq(CalmText)
  <2> DEFINE acc == it[n]
  <2> HIDE DEF acc
  <2>1. acc.chunks \in Seq(CalmText) /\ acc.current \in CalmText
    BY <1>7 DEF acc
  <2>2. Flush(acc) \in Seq(CalmText)
    BY <2>1 DEF Flush
  <2> QED
    BY <2>2 DEF acc
<1> QED
  BY <1>1, <1>8 DEF IsPacking

LEMMA SplitAtIsCalm ==
  ASSUME NEW size \in Nat \ {0}, NEW p \in Levels, NEW cut, p[2] \in CalmText,
         \A q \in Levels : Depth(q) < Depth(p) =>
           cut[q] \in Seq(Sized(size)) /\ (q[2] \in CalmText => cut[q] \in Seq(CalmText))
  PROVE  SplitAt(cut, size, p) \in Seq(CalmText)
<1> DEFINE j == Coarsest(p[1], p[2])
           parts == Parts(j, p[2])
<1>1. /\ j \in 1 .. 5 /\ parts \in Seq(Text)
      /\ \A m \in 1 .. Len(parts) :
           Len(parts[m]) > size => <<j + 1, parts[m]>> \in Levels /\ Depth(<<j + 1, parts[m]>>) < Depth(p)
  BY LevelsDescend
<1>3. SplitAt(cut, size, p) = IF p[2] = <<>> THEN <<>>
                              ELSE IF Len(p[2]) <= size THEN <<p[2]>>
                              ELSE Flush(Packed(cut, size, j, parts))
  BY DEF SplitAt
<1>4. FlattenSeq(parts) \in CalmText
  BY <1>1, PartsAreCalm
<1> HIDE DEF j, parts
<1>5. Finer(cut, size, j, parts)
  BY <1>1 DEF Finer
<1>6. ASSUME NEW m \in 1 .. Len(parts), Len(parts[m]) > size, parts[m] \in CalmText
      PROVE  cut[<<j + 1, parts[m]>>] \in Seq(CalmText)
  <2> DEFINE q == <<j + 1, parts[m]>>
  <2>1. q \in Levels /\ Depth(q) < Depth(p) /\ q[2] \in CalmText
    BY <1>1, <1>6
  <2> HIDE DEF q
  <2>2. cut[q] \in Seq(CalmText)
    BY <2>1
  <2> QED
    BY <2>2 DEF q
<1>7. Flush(Packed(cut, size, j, parts)) \in Seq(CalmText)
  BY <1>1, <1>4, <1>5, <1>6, PackedIsCalm
<1> QED
  BY <1>3, <1>7

(* A firm text is split into firm ones.                                     *)
LEMMA SplitTextIsFirm ==
  ASSUME NEW size \in Nat \ {0}, NEW text \in CalmText PROVE split_text(text, size, 0) \in Seq(Firm)
<1>1. PICK cut : IsCutting(cut, size)
  BY RecursiveSplitUnfolds
<1> DEFINE U == {n \in Nat : \A p \in Levels : Depth(p) < n /\ p[2] \in CalmText => cut[p] \in Seq(CalmText)}
<1>2. \A p \in Levels : Depth(p) \in Nat /\ Depth(p) < 5
  BY DEF Depth, Levels
<1>3. 0 \in U
  BY <1>2
<1>4. ASSUME NEW n \in Nat, n \in U PROVE n + 1 \in U
  <2>1. SUFFICES ASSUME NEW p \in Levels, Depth(p) < n + 1, p[2] \in CalmText PROVE cut[p] \in Seq(CalmText)
    OBVIOUS
  <2>2. \A q \in Levels : Depth(q) < Depth(p) =>
          cut[q] \in Seq(Sized(size)) /\ (q[2] \in CalmText => cut[q] \in Seq(CalmText))
    BY <1>1, <1>2, <1>4, <2>1 DEF IsCutting
  <2>3. SplitAt(cut, size, p) \in Seq(CalmText)
    BY <2>1, <2>2, SplitAtIsCalm
  <2> QED
    BY <1>1, <2>3 DEF IsCutting
<1>5. 5 \in U
  <2> HIDE DEF U
  <2> QED
    BY <1>3, <1>4, SetInduction
<1>6. <<1, text>> \in Levels /\ <<1, text>>[2] = text /\ text \in Text
  BY CalmIsText DEF Levels
<1> DEFINE raw == recursive_split(text, size)
<1>7. raw \in Seq(CalmText)
  BY <1>1, <1>2, <1>5, <1>6 DEF IsCutting
<1>8. split_text(text, size, 0) = NonEmpty(Stripped(raw))
  BY DEF split_text, Stripped, apply_overlap
<1> HIDE DEF raw
<1>9. Stripped(raw) \in Seq(Firm)
  <2>1. \A i \in 1 .. Len(raw) : strip(raw[i]) \in Firm
    BY <1>7, StripIsFirm
  <2>2. DOMAIN raw = 1 .. Len(raw) /\ Len(raw) \in Nat
    BY <1>7
  <2> QED
    BY <2>1, <2>2 DEF Stripped
<1> QED
  BY <1>8, <1>9, NonEmptyAre

-----------------------------------------------------------------------------

LEMMA NonEmptyHas ==
  ASSUME NEW ss \in Seq(Text) PROVE ToSet(NonEmpty(ss)) = ToSet(ss) \ {<<>>}
<1> DEFINE kept == [t \in Text |-> IF t # <<>> THEN <<t>> ELSE <<>>]
<1>1. kept \in [Text -> Seq(Text)]
  OBVIOUS
<1>2. NonEmpty(ss) = Mapped(ss, kept)
  <2>1. [i \in DOMAIN ss |-> IF ss[i] # <<>> THEN <<ss[i]>> ELSE <<>>] = Each(ss, kept)
    BY DEF Each
  <2> QED
    BY <2>1 DEF NonEmpty, Where, Mapped
<1>3. ASSUME NEW t \in Text PROVE ToSet(kept[t]) = {t} \ {<<>>}
  BY DEF ToSet
<1> HIDE DEF kept
<1>4. ToSet(Mapped(ss, kept)) = UNION {ToSet(kept[t]) : t \in ToSet(ss)}
  BY <1>1, MapHas
<1>5. ToSet(ss) \subseteq Text
  BY DEF ToSet
<1>6. UNION {ToSet(kept[t]) : t \in ToSet(ss)} = ToSet(ss) \ {<<>>}
  <2> DEFINE T == ToSet(ss)
  <2> HIDE DEF T
  <2>1. T \subseteq Text
    BY <1>5 DEF T
  <2>2. \A x : (\E t \in T : x \in ToSet(kept[t])) <=> x \in T \ {<<>>}
    BY <1>3, <2>1
  <2>3. UNION {ToSet(kept[t]) : t \in T} = T \ {<<>>}
    BY <2>2
  <2> QED
    BY <2>3 DEF T
<1> QED
  BY <1>2, <1>4, <1>6

LEMMA StrippedHas ==
  ASSUME NEW ss \in Seq(Text) PROVE ToSet(Stripped(ss)) = {strip(t) : t \in ToSet(ss)}
BY DEF Stripped, ToSet

-----------------------------------------------------------------------------

LEMMA CutsAre ==
  ASSUME NEW text \in Text, NEW ends
  PROVE  ToSet(CutAfter(text, ends)) = Pieces(text, Stretches(text, ends))
<1> DEFINE n == Len(text)
<1>1. PICK it \in [0 .. Len(text) -> [pieces : Seq(Text), from : Nat \ {0}]] :
        /\ it[0] = [pieces |-> <<>>, from |-> 1]
        /\ \A m \in 1 .. Len(text) : it[m] = CutStep(text, ends, it[m - 1], Places(text)[m])
        /\ CutAfter(text, ends) = it[Len(text)].pieces
  BY CutRun
<1> DEFINE Good(acc, m) ==
             /\ acc.from \in 1 .. m + 1
             /\ m < n => /\ acc.from = 1 \/ acc.from - 1 \in ends
                         /\ \A e \in acc.from .. m : e \notin ends
             /\ ToSet(acc.pieces) = Pieces(text, Upto_(text, ends, m))
           U == {m \in Nat : m <= n => Good(it[m], m)}
<1>2. n \in Nat /\ SubSeq(text, 1, n) = text
  BY WholeText
<1>3. 0 \in U
  <2> DEFINE first == it[0]
  <2>1. first.pieces = <<>> /\ first.from = 1
    BY <1>1
  <2> HIDE DEF first
  <2>2. Upto_(text, ends, 0) = {}
    BY DEF Upto_, Stretches
  <2>3. Pieces(text, {}) = {} /\ ToSet(<<>>) = {}
    BY DEF Pieces, ToSet
  <2>4. first.from \in 1 .. 0 + 1 /\ \A e \in first.from .. 0 : e \notin ends
    BY <2>1
  <2>5. Good(first, 0)
    BY <2>1, <2>2, <2>3, <2>4
  <2> QED
    BY <2>5 DEF first
<1>4. ASSUME NEW m \in Nat, m \in U PROVE m + 1 \in U
  <2> SUFFICES ASSUME m + 1 <= n PROVE Good(it[m + 1], m + 1)
    OBVIOUS
  <2> DEFINE a == it[m]
             b == it[m + 1]
             k == m + 1
             here == SubSeq(text, a.from, k)
  <2>1. k \in 1 .. n /\ m \in 0 .. n /\ k - 1 = m /\ Places(text)[k] = k /\ m < n /\ k <= Len(text)
    BY <1>2 DEF Places, Text
  <2>2. b = CutStep(text, ends, a, k)
    <3>1. it[k] = CutStep(text, ends, it[k - 1], Places(text)[k])
      BY <1>1, <2>1
    <3> QED
      BY <2>1, <3>1
  <2>3. a.pieces \in Seq(Text) /\ Good(a, m)
    BY <1>1, <1>4, <2>1
  <2> HIDE DEF a, b, k
  <2>4. /\ k \in ends \cup {Len(text)} => Upto_(text, ends, k) = Upto_(text, ends, m) \cup {<<a.from, k>>}
        /\ k \notin ends \cup {Len(text)} => Upto_(text, ends, k) = Upto_(text, ends, m)
    <3> DEFINE from == a.from
    <3>1. Begun(ends, from, m)
      BY <2>1, <2>3 DEF Begun
    <3> HIDE DEF from
    <3>2. k = m + 1
      BY DEF k
    <3>3. NextIs(text, ends, from, m, k)
      <4>1. k <= Len(text)
        BY <2>1
      <4> QED
        BY <3>1, <3>2, <4>1, NextStretch DEF Text
    <3> QED
      BY <3>3 DEF from, NextIs
  <2>5. CASE k \in ends \cup {Len(text)}
    <3>1. b.pieces = Append(a.pieces, here) /\ b.from = k + 1
      BY <2>2, <2>5 DEF CutStep
    <3>2. here \in Text
      <4>1. text \in Seq(Int) /\ a.from \in Nat /\ a.from >= 1 /\ k \in Nat /\ k <= Len(text) /\ Len(text) \in Nat
        BY <1>2, <2>1, <2>3 DEF Text
      <4> DEFINE from == a.from
      <4> HIDE DEF from
      <4>2. SubSeq(text, from, k) \in Seq(Int)
        BY <4>1 DEF from
      <4> QED
        BY <4>2 DEF Text, from
    <3>3. ToSet(Append(a.pieces, here)) = ToSet(a.pieces) \cup {here}
      BY ZenonT(60), <2>3, <3>2, HasAppended
    <3>4. Pieces(text, Upto_(text, ends, k)) = Pieces(text, Upto_(text, ends, m)) \cup {here}
      <4> DEFINE p == <<a.from, k>>
                 S == Upto_(text, ends, m)
      <4>1. SubSeq(text, p[1], p[2]) = here
        OBVIOUS
      <4>2. Upto_(text, ends, k) = S \cup {p}
        BY <2>4, <2>5
      <4> HIDE DEF here, p, S
      <4>3. Pieces(text, S \cup {p}) = Pieces(text, S) \cup {SubSeq(text, p[1], p[2])}
        BY DEF Pieces
      <4> QED
        BY <4>1, <4>2, <4>3 DEF S
    <3>5. k + 1 \in 1 .. k + 1 /\ (k + 1) - 1 = k /\ (k < n => k \in ends) /\ \A e \in k + 1 .. k : e \notin ends
      <4> HIDE DEF n
      <4>1. n \in Nat /\ k \in 1 .. n /\ (k \in ends \/ k = n)
        BY <1>2, <2>1, <2>5 DEF n
      <4> QED
        BY <4>1
    <3> HIDE DEF here
    <3>6. Good(b, k)
      BY <2>3, <3>1, <3>3, <3>4, <3>5
    <3> QED
      BY <3>6 DEF b, k
  <2>6. CASE k \notin ends \cup {Len(text)}
    <3>1. b = a
      BY <2>2, <2>6 DEF CutStep
    <3>2. \A e \in a.from .. k : e = k \/ e \in a.from .. m
      BY <2>1, <2>3
    <3>3. a.from \in 1 .. k + 1
      BY <2>1, <2>3
    <3>4. Good(b, k)
      BY <2>1, <2>3, <2>4, <2>6, <3>1, <3>2, <3>3
    <3> QED
      BY <3>4 DEF b, k
  <2> QED
    BY <2>5, <2>6
<1>5. n \in U
  <2> HIDE DEF U
  <2> QED
    BY <1>2, <1>3, <1>4, SetInduction
<1>6. ToSet(it[n].pieces) = Pieces(text, Upto_(text, ends, n))
  BY <1>2, <1>5
<1>7. Upto_(text, ends, n) = Stretches(text, ends)
  BY <1>2 DEF Upto_, Stretches
<1> QED
  BY <1>1, <1>6, <1>7

-----------------------------------------------------------------------------
(* The definitions that open a line, and the places they are led in from.   *)
Openings(s) == {i \in DOMAIN s : OpensLine(s, i)}

Leads(s, j) ==
  {i \in 1 .. j : (i = 1 \/ s[i - 1] = Newline) /\ \A m \in i .. j - 1 : Blank(s[m])}

First(s, j) == Min(Leads(s, j))

LEMMA FirstIs ==
  ASSUME NEW s \in Text, NEW j \in Openings(s)
  PROVE  /\ j \in 1 .. Len(s) /\ s[j] = Definition /\ First(s, j) \in Leads(s, j)
         /\ \A i \in Leads(s, j) : First(s, j) <= i
<1>1. j \in 1 .. Len(s) /\ s[j] = Definition /\ OpensLine(s, j)
  BY DEF Openings, OpensLine, Text
<1>2. Leads(s, j) \in SUBSET Nat /\ Leads(s, j) # {}
  <2>1. \E i \in 1 .. j : (i = 1 \/ s[i - 1] = Newline) /\ \A m \in i .. j - 1 : Blank(s[m])
    BY <1>1 DEF OpensLine
  <2> QED
    BY <2>1 DEF Leads
<1> QED
  BY <1>1, <1>2, MinIsThere DEF First

LEMMA DefinitionIsSolid == ~Blank(Definition)
BY DEF Blank, Definition, Space, Newline, Tab

(* Blocks begin where the definitions that open a line are led in from.     *)
LEMMA StartsAre ==
  ASSUME NEW s \in Text
  PROVE  DefinitionStarts(s) = {First(s, j) : j \in Openings(s)}
<1> DEFINE LineStart(i) == i = 1 \/ s[i - 1] = Newline
           Lead(i, j) == LineStart(i) /\ i <= j /\ s[j] = Definition /\ \A m \in i .. j - 1 : Blank(s[m])
<1>1. DOMAIN s = 1 .. Len(s) /\ Len(s) \in Nat
  BY DEF Text
<1>2. DefinitionStarts(s) = {i \in DOMAIN s : \E j \in DOMAIN s :
                               Lead(i, j) /\ \A m \in 1 .. i - 1 : ~Lead(m, j)}
  BY DEF DefinitionStarts
<1>3. ASSUME NEW j \in 1 .. Len(s), s[j] = Definition, NEW i \in Nat \ {0}
      PROVE  Lead(i, j) <=> i \in Leads(s, j)
  BY <1>3 DEF Leads
<1>4. ASSUME NEW i \in 1 .. Len(s), NEW j \in 1 .. Len(s), Lead(i, j), \A m \in 1 .. i - 1 : ~Lead(m, j)
      PROVE  j \in Openings(s) /\ i = First(s, j)
  <2>1. s[j] = Definition /\ i \in Leads(s, j)
    BY <1>3, <1>4
  <2>2. j \in Openings(s)
    BY <1>1, <1>4, <2>1 DEF Openings, OpensLine
  <2> DEFINE f == First(s, j)
  <2>3. f \in Leads(s, j) /\ f <= i
    BY <2>1, <2>2, FirstIs
  <2> HIDE DEF f
  <2>4. f \in Nat \ {0}
    BY <1>4, <2>3 DEF Leads
  <2>5. Lead(f, j)
    BY <1>3, <2>1, <2>3, <2>4
  <2>6. ~(f \in 1 .. i - 1)
    BY <1>4, <2>5
  <2>7. f = i
    BY <2>3, <2>4, <2>6
  <2> QED
    BY <2>2, <2>7 DEF f
<1>5. ASSUME NEW j \in Openings(s)
      PROVE  First(s, j) \in DOMAIN s /\ \E k \in DOMAIN s : Lead(First(s, j), k) /\ \A m \in 1 .. First(s, j) - 1 : ~Lead(m, k)
  <2> DEFINE f == First(s, j)
  <2>1. j \in 1 .. Len(s) /\ s[j] = Definition /\ f \in Leads(s, j) /\ \A i \in Leads(s, j) : f <= i
    BY FirstIs
  <2> HIDE DEF f
  <2>2. f \in 1 .. j
    BY <2>1 DEF Leads
  <2>3. Lead(f, j)
    BY <1>3, <2>1, <2>2
  <2>4. ASSUME NEW m \in 1 .. f - 1, Lead(m, j) PROVE FALSE
    <3>1. m \in Nat \ {0}
      BY <2>2
    <3>2. m \in Leads(s, j)
      BY <1>3, <2>1, <2>4, <3>1
    <3> QED
      BY <2>1, <2>2, <3>2
  <2>5. f \in DOMAIN s /\ j \in DOMAIN s
    BY <1>1, <2>1, <2>2
  <2> HIDE DEF Lead
  <2>6. \A m \in 1 .. f - 1 : ~Lead(m, j)
    BY <2>4
  <2> QED
    BY <2>3, <2>5, <2>6 DEF f
<1> HIDE DEF Lead
<1> QED
  BY <1>1, <1>2, <1>4, <1>5

(* A definition is led in from behind the one before it.                    *)
LEMMA LeadsFollow ==
  ASSUME NEW s \in Text, NEW i \in Openings(s), NEW j \in Openings(s), i < j
  PROVE  First(s, j) > i
<1>1. i \in 1 .. Len(s) /\ s[i] = Definition /\ j \in 1 .. Len(s) /\ First(s, j) \in Leads(s, j)
  BY FirstIs
<1> DEFINE f == First(s, j)
<1> HIDE DEF f
<1>2. f \in 1 .. j /\ \A m \in f .. j - 1 : Blank(s[m])
  BY <1>1 DEF Leads, f
<1>3. ASSUME f <= i PROVE FALSE
  <2>1. i \in f .. j - 1
    BY <1>1, <1>2, <1>3
  <2> QED
    BY <1>1, <1>2, <2>1, DefinitionIsSolid
<1> QED
  BY <1>1, <1>2, <1>3 DEF f

LEMMA StripWithin ==
  ASSUME NEW s \in Text, NEW a \in 1 .. Len(s), NEW b \in 1 .. Len(s), NEW p \in a .. b, NEW q \in a .. b,
         ~Blank(s[p]), ~Blank(s[q]), \A i \in a .. b : i < p \/ i > q => Blank(s[i])
  PROVE  strip(SubSeq(s, a, b)) = SubSeq(s, p, q)
<1> DEFINE t == SubSeq(s, a, b)
           x == p - a + 1
           y == q - a + 1
<1>1. s \in Seq(Int) /\ Len(s) \in Nat /\ a <= b /\ a \in Nat /\ b \in Nat /\ p \in Nat /\ q \in Nat
  BY DEF Text
<1>2. t \in Seq(Int) /\ Len(t) = b - a + 1 /\ \A i \in 1 .. b - a + 1 : t[i] = s[a + i - 1]
  <2> HIDE DEF x, y
  <2> QED
    BY SMTT(40), <1>1
<1> HIDE DEF t
<1>3. x \in 1 .. Len(t) /\ y \in 1 .. Len(t) /\ a + x - 1 = p /\ a + y - 1 = q
  <2>1. a <= p /\ p <= b /\ a <= q /\ q <= b
    BY <1>1
  <2> QED
    BY SMTT(40), <1>1, <1>2, <2>1
<1>4. ASSUME NEW i \in 1 .. Len(t)
      PROVE  a + i - 1 \in a .. b /\ (i < x => a + i - 1 < p) /\ (i > y => a + i - 1 > q)
  <2>1. i \in 1 .. b - a + 1 /\ a \in Nat /\ b \in Nat /\ p \in Nat /\ q \in Nat
    BY <1>1, <1>2
  <2> QED
    BY <2>1
<1> HIDE DEF x, y
<1>5. ~Blank(t[x]) /\ ~Blank(t[y]) /\ \A i \in 1 .. Len(t) : i < x \/ i > y => Blank(t[i])
  BY <1>2, <1>3, <1>4
<1>6. t \in Text
  BY <1>2 DEF Text
<1>7. strip(t) = SubSeq(t, x, y)
  BY <1>3, <1>5, <1>6, StripOf
<1>8. SubSeq(t, x, y) = SubSeq(s, p, q)
  <2>1. x \in Nat \ {0} /\ y \in Nat /\ a + y - 1 <= b
    <3>1. Len(t) \in Nat /\ a + y - 1 = q /\ q \in a .. b
      BY <1>2, <1>3
    <3> QED
      BY <1>3, <3>1
  <2>2. SubSeq(SubSeq(s, a, b), x, y) = SubSeq(s, a + x - 1, a + y - 1)
    BY <2>1, SubOfSub DEF Text
  <2> QED
    BY <1>3, <2>2 DEF t
<1> QED
  BY <1>7, <1>8 DEF t

(* Blanks at either end make no difference to what strip leaves.            *)
LEMMA StripsAgree ==
  ASSUME NEW s \in Text, NEW a \in 1 .. Len(s), NEW i \in a .. Len(s), NEW b \in i .. Len(s), NEW e \in b .. Len(s),
         ~Blank(s[i]), \A m \in a .. i - 1 : Blank(s[m]), \A m \in b + 1 .. e : Blank(s[m])
  PROVE  strip(SubSeq(s, a, b)) = strip(SubSeq(s, i, e)) /\ strip(SubSeq(s, i, e)) # <<>>
<1> DEFINE n == Len(s)
           solid == {m \in i .. b : ~Blank(s[m])}
           q == Max(solid)
<1>1. n \in Nat /\ s \in Seq(Int)
  BY DEF Text
<1>2. solid \in SUBSET (1 .. n) /\ solid # {} /\ i \in solid
  <2>1. i \in solid
    BY <1>1
  <2>2. i .. b \subseteq 1 .. n
    BY <1>1
  <2> QED
    BY <2>1, <2>2
<1>3. \A m \in i .. b : m \in solid <=> ~Blank(s[m])
  OBVIOUS
<1>4. q \in solid /\ \A y \in solid : y <= q
  <2> HIDE DEF solid
  <2> QED
    BY <1>1, <1>2, MaxIsThere
<1>5. solid \subseteq i .. b
  OBVIOUS
<1> HIDE DEF solid, q
<1>6. q \in i .. b /\ ~Blank(s[q]) /\ \A m \in i .. b : m > q => Blank(s[m])
  BY <1>1, <1>3, <1>4, <1>5
<1>7. strip(SubSeq(s, a, b)) = SubSeq(s, i, q)
  <2>1. b \in 1 .. n /\ i \in a .. b /\ q \in a .. b
    BY <1>1, <1>6
  <2>2. \A m \in a .. b : m < i \/ m > q => Blank(s[m])
    BY <1>1, <1>6
  <2> QED
    BY <1>6, <2>1, <2>2, StripWithin
<1>8. strip(SubSeq(s, i, e)) = SubSeq(s, i, q)
  <2>1. e \in 1 .. n /\ i \in 1 .. n /\ i \in i .. e /\ q \in i .. e
    BY <1>1, <1>6
  <2>2. \A m \in i .. e : m < i \/ m > q => Blank(s[m])
    BY <1>1, <1>6
  <2> QED
    BY <1>6, <2>1, <2>2, StripWithin
<1>9. SubSeq(s, i, q) # <<>>
  BY SMTT(40), <1>1, <1>6
<1> QED
  BY <1>7, <1>8, <1>9

-----------------------------------------------------------------------------
(* The blocks of a page with definitions, and the code chunker's chunks.    *)
Cuts(s) == {f - 1 : f \in DefinitionStarts(s)}

(* The end of the text, or the place before the next opening.               *)
BodyEnd(s, i) == Min({k - 1 : k \in {j \in Openings(s) : j > i}} \cup {Len(s)})

Body(s, i) == strip(SubSeq(s, i, BodyEnd(s, i)))

(* What lies between two cuts is calm.                                      *)
LEMMA StretchIsCalm ==
  ASSUME NEW s \in Text, NEW p \in Stretches(s, Cuts(s)) PROVE SubSeq(s, p[1], p[2]) \in CalmText
<1> DEFINE a == p[1]
           b == p[2]
           t == SubSeq(s, a, b)
<1>1. /\ s \in Seq(Int) /\ Len(s) \in Nat /\ a \in 1 .. Len(s) /\ b \in 1 .. Len(s) /\ a <= b
      /\ \A e \in a .. b - 1 : e \notin Cuts(s)
  BY DEF Text, Stretches
<1> HIDE DEF a, b
<1>2. t \in Seq(Int) /\ Len(t) = b - a + 1 /\ \A i \in 1 .. b - a + 1 : t[i] = s[a + i - 1]
  BY <1>1
<1> HIDE DEF t
<1>3. ASSUME NEW i \in 1 .. Len(t), NEW j \in 2 .. i, t[i] = Definition, t[j - 1] = Newline,
             \A m \in j .. i - 1 : Blank(t[m]), NEW m \in 1 .. i - 1
      PROVE  Blank(t[m])
  <2> DEFINE I == a + i - 1
             J == a + j - 1
             M == a + m - 1
             f == First(s, I)
  <2>1. /\ I \in 1 .. Len(s) /\ J \in 2 .. I /\ I <= b /\ J - 1 = a + (j - 1) - 1 /\ M \in a .. I - 1
        /\ i \in 1 .. b - a + 1 /\ j - 1 \in 1 .. b - a + 1 /\ m \in 1 .. b - a + 1
    BY <1>1, <1>2
  <2>2. s[I] = Definition /\ s[J - 1] = Newline /\ s[M] = t[m]
    BY <1>2, <1>3, <2>1
  <2>3. ASSUME NEW x \in J .. I - 1 PROVE Blank(s[x])
    <3> DEFINE y == x - a + 1
    <3>1. y \in j .. i - 1 /\ y \in 1 .. b - a + 1 /\ a + y - 1 = x
      BY <1>1, <2>1
    <3> HIDE DEF y, I, J
    <3>2. s[x] = t[y]
      BY <1>2, <3>1
    <3> QED
      BY <1>3, <3>1, <3>2
  <2>4. DOMAIN s = 1 .. Len(s)
    BY <1>1
  <2> HIDE DEF I, J, M
  <2>5. J \in Leads(s, I) /\ I \in Openings(s)
    <3>1. J \in 1 .. I
      BY <2>1
    <3> QED
      BY <2>1, <2>2, <2>3, <2>4, <3>1 DEF Leads, Openings, OpensLine
  <2>6. f \in Leads(s, I) /\ f <= J
    BY <2>5, FirstIs
  <2>7. f - 1 \in Cuts(s)
    BY <2>5, StartsAre DEF Cuts
  <2> HIDE DEF f
  <2>8. f \in 1 .. I /\ \A x \in f .. I - 1 : Blank(s[x])
    BY <2>6 DEF Leads
  <2>9. f <= a
    <3>1. ASSUME f > a PROVE FALSE
      <4>1. f - 1 \in a .. b - 1
        BY <1>1, <2>1, <2>6, <2>8, <3>1
      <4> QED
        BY <1>1, <2>7, <4>1
    <3> QED
      BY <1>1, <2>8, <3>1
  <2>10. M \in f .. I - 1
    BY <1>1, <2>1, <2>8, <2>9
  <2> QED
    BY <2>2, <2>8, <2>10
<1>4. DOMAIN t = 1 .. Len(t)
  BY <1>2
<1> QED
  BY <1>2, <1>3, <1>4 DEF CalmText, Calm, Text, t, a, b

(* The block a definition begins.                                           *)
LEMMA BodyIsStretch ==
  ASSUME NEW s \in Text, NEW i \in Openings(s)
  PROVE  \E p \in Stretches(s, Cuts(s)) : strip(SubSeq(s, p[1], p[2])) = Body(s, i) /\ Body(s, i) # <<>>
<1> DEFINE n == Len(s)
           a == First(s, i)
           later == {j \in Openings(s) : j > i}
           e == BodyEnd(s, i)
           nx == Min(later)
           b == IF later = {} THEN n ELSE First(s, nx) - 1
<1>1. n \in Nat /\ DOMAIN s = 1 .. n
  BY DEF Text
<1>2. \A j \in Openings(s) : j \in 1 .. n /\ ~Blank(s[j])
  BY FirstIs, DefinitionIsSolid
<1>3. a \in 1 .. i /\ (\A m \in a .. i - 1 : Blank(s[m])) /\ a - 1 \in Cuts(s)
  <2>1. a \in Leads(s, i)
    BY FirstIs
  <2>2. a \in 1 .. i /\ \A m \in a .. i - 1 : Blank(s[m])
    <3> HIDE DEF a
    <3> QED
      BY <2>1 DEF Leads
  <2>3. a - 1 \in Cuts(s)
    BY StartsAre DEF Cuts
  <2> QED
    BY <2>2, <2>3
<1>4. later \in SUBSET Nat
  BY <1>2
<1>5. later # {} => nx \in later /\ \A y \in later : nx <= y
  <2> HIDE DEF later
  <2> QED
    BY <1>4, MinIsThere
<1> HIDE DEF nx, a
<1>6. /\ b \in i .. n /\ e \in b .. n /\ \A m \in b + 1 .. e : Blank(s[m])
      /\ b = n \/ b \in Cuts(s)
      /\ \A j \in later : First(s, j) > b
  <2> DEFINE K == {k - 1 : k \in later} \cup {n}
  <2>1. K \in SUBSET Nat /\ K # {}
    BY <1>1, <1>2
  <2>2. e = Min(K)
    BY DEF BodyEnd
  <2>3. e \in K /\ \A y \in K : e <= y
    <3> HIDE DEF K, e
    <3> QED
      BY <2>1, <2>2, MinIsThere
  <2>4. CASE later = {}
    <3>1. K = {n}
      BY <2>4
    <3>2. e = n /\ b = n
      BY <2>3, <2>4, <3>1
    <3>3. i \in 1 .. n
      BY <1>2
    <3> HIDE DEF b, e, later
    <3> QED
      BY <1>1, <2>4, <3>2, <3>3
  <2>5. CASE later # {}
    <3>1. nx \in later /\ \A y \in later : nx <= y
      BY <1>5, <2>5
    <3>2. nx \in Openings(s) /\ nx > i /\ nx \in 1 .. n
      BY <1>2, <3>1
    <3>3. nx - 1 \in K /\ n \in K
      BY <3>1
    <3>4. \A y \in K : nx - 1 <= y
      BY <1>1, <1>2, <3>1, <3>2
    <3>5. e = nx - 1
      <4> HIDE DEF e, K
      <4>1. e <= nx - 1 /\ nx - 1 <= e /\ e \in Nat
        BY <2>1, <2>3, <3>3, <3>4
      <4> QED
        BY <3>2, <4>1
    <3> DEFINE f == First(s, nx)
    <3>6. f \in Leads(s, nx) /\ f - 1 \in Cuts(s) /\ f > i
      BY <3>2, FirstIs, StartsAre, LeadsFollow DEF Cuts
    <3>7. b = f - 1
      BY <2>5
    <3>8. \A j \in later : First(s, j) > b
      <4> SUFFICES ASSUME NEW j \in later PROVE First(s, j) > b
        OBVIOUS
      <4>1. j \in Openings(s) /\ (j = nx \/ j > nx) /\ j \in Nat
        BY <1>2, <3>1, <3>2
      <4>2. f \in 1 .. nx
        BY <3>6 DEF Leads
      <4>3. CASE j = nx
        <5> HIDE DEF f
        <5> QED
          BY <3>7, <4>2, <4>3 DEF f
      <4>4. CASE j > nx
        <5> DEFINE g == First(s, j)
        <5>1. g > nx /\ g \in Leads(s, j)
          BY <3>2, <4>1, <4>4, LeadsFollow, FirstIs
        <5> HIDE DEF f, g, b
        <5>2. g \in Nat
          BY <5>1 DEF Leads
        <5> QED
          BY <3>2, <3>7, <4>2, <5>1, <5>2 DEF g
      <4> QED
        BY <4>1, <4>3, <4>4
    <3> HIDE DEF f, b, e
    <3>9. f \in 1 .. nx /\ \A m \in f .. nx - 1 : Blank(s[m])
      BY <3>6 DEF Leads
    <3>10. i \in Nat
      BY <1>2
    <3>11. b \in i .. n /\ e \in b .. n /\ \A m \in b + 1 .. e : Blank(s[m])
      BY <1>1, <3>2, <3>5, <3>6, <3>7, <3>9, <3>10
    <3> QED
      BY <3>6, <3>7, <3>8, <3>11
  <2> QED
    BY <2>4, <2>5
<1> HIDE DEF b, e
<1>7. \A x \in a .. b - 1 : x \notin Cuts(s)
  <2> SUFFICES ASSUME NEW x \in a .. b - 1, x \in Cuts(s) PROVE FALSE
    OBVIOUS
  <2>1. PICK j \in Openings(s) : x = First(s, j) - 1
    BY StartsAre DEF Cuts
  <2> DEFINE f == First(s, j)
  <2>2. f \in Leads(s, j)
    BY FirstIs
  <2>3. j \in 1 .. n /\ i \in 1 .. n
    BY <1>2
  <2>4. f \in 1 .. j /\ x = f - 1
    <3> HIDE DEF f
    <3> QED
      BY <2>1, <2>2 DEF Leads, f
  <2>5. CASE j > i
    <3>1. f > b
      BY <1>6, <2>5
    <3> HIDE DEF f
    <3> QED
      BY <1>3, <1>6, <2>3, <2>4, <3>1
  <2>6. CASE j = i
    <3>1. f = a
      BY <2>6 DEF a
    <3> HIDE DEF f
    <3> QED
      BY <1>3, <1>6, <2>3, <2>4, <3>1
  <2>7. CASE j < i
    <3>1. a > j
      BY <2>7, LeadsFollow DEF a
    <3> HIDE DEF f
    <3> QED
      BY <1>3, <1>6, <2>3, <2>4, <3>1
  <2> QED
    BY <2>3, <2>5, <2>6, <2>7
<1>8. i \in 1 .. n /\ ~Blank(s[i]) /\ a \in 1 .. n /\ b \in 1 .. n /\ a <= b /\ i \in a .. n
  <2>1. i \in 1 .. n /\ ~Blank(s[i])
    BY <1>2
  <2>2. a \in 1 .. i /\ b \in i .. n
    BY <1>3, <1>6
  <2> HIDE DEF n, e, later
  <2>3. a \in 1 .. n /\ b \in 1 .. n /\ a <= b /\ i \in a .. n
    BY <1>1, <2>1, <2>2
  <2> QED
    BY <2>1, <2>3
<1>9. <<a, b>> \in Stretches(s, Cuts(s))
  BY <1>3, <1>6, <1>7, <1>8 DEF Stretches
<1>10. strip(SubSeq(s, a, b)) = strip(SubSeq(s, i, e)) /\ strip(SubSeq(s, i, e)) # <<>>
  BY <1>3, <1>6, <1>8, StripsAgree
<1>11. Body(s, i) = strip(SubSeq(s, i, e))
  BY DEF Body, e
<1> QED
  BY <1>9, <1>10, <1>11

Unfold(size) == [t \in Text |-> IF Len(t) <= size THEN <<t>> ELSE split_text(t, size, 0)]

(* What the contents of a page's chunks owe to its definitions.             *)
CodeWhole(s, contents) ==
  /\ \A i \in Openings(s) : Len(Body(s, i)) <= Size => Body(s, i) \in ToSet(contents)
  /\ Openings(s) # {} => ToSet(contents) \subseteq Firm

LEMMA BlocksAreWhole ==
  ASSUME NEW page \in Text, Openings(page) # {}
  PROVE  /\ ToSet(Blocks(page)) \subseteq Firm
         /\ \A i \in Openings(page) : Body(page, i) \in ToSet(Blocks(page))
<1> DEFINE starts == DefinitionStarts(page)
           blocks == CutAfter(page, Cuts(page))
           S == Stretches(page, Cuts(page))
<1>1. starts # {} /\ strip(page) # <<>>
  <2>1. PICK i \in Openings(page) : TRUE
    OBVIOUS
  <2>2. i \in 1 .. Len(page) /\ ~Blank(page[i])
    BY FirstIs, DefinitionIsSolid
  <2>3. strip(page) # <<>>
    <3>1. ASSUME NEW p \in 1 .. Len(page), NEW q \in 1 .. Len(page), p <= q PROVE SubSeq(page, p, q) # <<>>
      BY <3>1 DEF Text
    <3> QED
      BY <2>2, <3>1, SolidEnds
  <2> QED
    BY <2>3, StartsAre
<1>2. Blocks(page) = NonEmpty(Stripped(blocks))
  BY <1>1 DEF Blocks, Stripped, Cuts
<1>3. blocks \in Seq(Text)
  BY CutsAreTexts
<1>4. ToSet(blocks) = Pieces(page, S)
  BY CutsAre
<1> HIDE DEF blocks
<1>5. ToSet(Blocks(page)) = {strip(t) : t \in Pieces(page, S)} \ {<<>>}
  BY <1>2, <1>3, <1>4, StripsAreTexts, NonEmptyHas, StrippedHas
<1>6. \A t \in Pieces(page, S) : strip(t) \in Firm
  BY StretchIsCalm, StripIsFirm DEF Pieces
<1>7. ASSUME NEW i \in Openings(page) PROVE Body(page, i) \in ToSet(Blocks(page))
  <2>1. PICK p \in S : strip(SubSeq(page, p[1], p[2])) = Body(page, i) /\ Body(page, i) # <<>>
    BY BodyIsStretch
  <2>2. SubSeq(page, p[1], p[2]) \in Pieces(page, S)
    BY DEF Pieces
  <2> QED
    BY <1>5, <2>1, <2>2
<1> HIDE DEF S
<1> QED
  BY <1>5, <1>6, <1>7

LEMMA UnfoldIs ==
  ASSUME NEW size \in Nat \ {0} PROVE Unfold(size) \in [Text -> Seq(Text)]
<1>1. ASSUME NEW t \in Text PROVE split_text(t, size, 0) \in Seq(Text) /\ <<t>> \in Seq(Text)
  BY SplitTextSays
<1> QED
  BY <1>1 DEF Unfold

LEMMA CodeIsWhole ==
  ASSUME NEW page \in Text PROVE CodeWhole(page, Contents(CodeAwareChunker(page)))
<1> DEFINE blocks == Blocks(page)
           g == Unfold(Size)
           ss == Mapped(blocks, g)
<1>1. Size \in Nat \ {0}
  BY ChunkerAssumption
<1>2. blocks \in Seq(Text) /\ g \in [Text -> Seq(Text)]
  BY <1>1, BlocksAreTexts, UnfoldIs
<1>3. \A t \in Text : g[t] = IF Len(t) <= Size THEN <<t>> ELSE split_text(t, Size, 0)
  BY DEF Unfold
<1>4. CodeAwareChunker(page) = Chunks(ss, "code")
  <2> DEFINE f == [i \in DOMAIN blocks |-> IF Len(blocks[i]) <= Size THEN <<blocks[i]>> ELSE split_text(blocks[i], Size, 0)]
  <2>1. CodeAwareChunker(page) = Chunks(FlattenSeq(f), "code")
    BY DEF CodeAwareChunker
  <2>2. f = Each(blocks, g)
    <3> HIDE DEF blocks, g
    <3>1. \A i \in DOMAIN blocks : blocks[i] \in Text
      BY <1>2
    <3> QED
      BY <1>3, <3>1 DEF Each
  <2> QED
    BY <2>1, <2>2 DEF Mapped
<1> HIDE DEF g, blocks
<1>5. ss \in Seq(Text) /\ ToSet(ss) = UNION {ToSet(g[t]) : t \in ToSet(blocks)}
  BY <1>2, MapIsASequence, MapHas
<1> HIDE DEF ss
<1>6. Contents(CodeAwareChunker(page)) = ss
  BY <1>4, <1>5, PlainChunks
<1>7. ASSUME NEW i \in Openings(page), Len(Body(page, i)) <= Size PROVE Body(page, i) \in ToSet(ss)
  <2> DEFINE body == Body(page, i)
  <2>1. body \in ToSet(blocks)
    BY BlocksAreWhole DEF blocks
  <2>2. body \in Text
    BY <1>2, <2>1 DEF ToSet
  <2> HIDE DEF body
  <2>3. ToSet(g[body]) = {body}
    <3>1. g[body] = <<body>>
      BY <1>3, <1>7, <2>2 DEF body
    <3> QED
      BY <3>1 DEF ToSet
  <2> QED
    BY <1>5, <2>1, <2>3 DEF body
<1>8. ASSUME Openings(page) # {} PROVE ToSet(ss) \subseteq Firm
  <2>1. ToSet(blocks) \subseteq Firm
    BY <1>8, BlocksAreWhole DEF blocks
  <2>2. ASSUME NEW t \in Firm PROVE ToSet(g[t]) \subseteq Firm
    <3>1. t \in CalmText /\ t \in Text
      BY DEF Firm, CalmText
    <3>2. split_text(t, Size, 0) \in Seq(Firm)
      BY <1>1, <3>1, SplitTextIsFirm
    <3>3. g[t] \in Seq(Firm)
      <4>1. <<t>> \in Seq(Firm)
        OBVIOUS
      <4> QED
        BY <1>3, <3>1, <3>2, <4>1, Zenon
    <3> QED
      BY <3>3 DEF ToSet
  <2> QED
    BY <1>5, <2>1, <2>2
<1> QED
  BY <1>6, <1>7, <1>8 DEF CodeWhole

-----------------------------------------------------------------------------
(* Tables: the runs of table lines, and the groups segment makes of lines.  *)
TableLines(lines) == {i \in DOMAIN lines : is_table_line(lines[i])}

Begins(lines) ==
  [i \in 1 .. Len(lines) |->
     IF i \in TableLines(lines) /\ i - 1 \notin TableLines(lines) THEN <<i>> ELSE <<>>]

TableEnd(lines, i) == Min({j \in TableLines(lines) : j >= i /\ j + 1 \notin TableLines(lines)})

Block(ls) == strip(unlines(ls))

TableFrom(lines) == [i \in 1 .. Len(lines) |-> Block(SubSeq(lines, i, TableEnd(lines, i)))]

TableOf == [g \in Segment |-> IF g.table THEN <<Block(g.lines)>> ELSE <<>>]

LEMMA BlockIsAText ==
  ASSUME NEW ls \in Seq(Text) PROVE Block(ls) \in Text
BY UnlinesIsAText, StripShortens DEF Block

LEMMA TableOfIs == TableOf \in [Segment -> Seq(Text)]
<1>1. \A g \in Segment : Block(g.lines) \in Text
  BY BlockIsAText DEF Segment
<1> QED
  BY <1>1 DEF TableOf

LEMMA BeginsAre ==
  ASSUME NEW lines \in Seq(Text) PROVE Begins(lines) \in [1 .. Len(lines) -> Seq(1 .. Len(lines))]
<1> DEFINE D == 1 .. Len(lines)
<1> HIDE DEF D
<1>1. \A i \in D : <<i>> \in Seq(D) /\ <<>> \in Seq(D)
  OBVIOUS
<1>2. Begins(lines) = [i \in D |-> IF i \in TableLines(lines) /\ i - 1 \notin TableLines(lines) THEN <<i>> ELSE <<>>]
  BY DEF Begins, D
<1>3. Begins(lines) \in [D -> Seq(D)]
  BY <1>1, <1>2
<1> QED
  BY <1>3 DEF D

(* The last group goes on, or a new one begins.                             *)
LEMMA GroupedIs ==
  ASSUME NEW front \in Seq(Segment), NEW g \in Segment, NEW line \in Text
  PROVE  /\ g.table = is_table_line(line) =>
              Grouped(Append(front, g), line)
                = Append(front, [table |-> g.table, lines |-> Append(g.lines, line)])
         /\ g.table # is_table_line(line) =>
              Grouped(Append(front, g), line)
                = Append(Append(front, g), [table |-> is_table_line(line), lines |-> <<line>>])
<1> DEFINE acc == Append(front, g)
           n == Len(acc)
           r == [table |-> g.table, lines |-> Append(g.lines, line)]
           v == Append(front, r)
<1>1. /\ acc \in Seq(Segment) /\ n = Len(front) + 1 /\ Len(front) \in Nat /\ acc # <<>> /\ Last(acc) = g
      /\ acc[n] = g /\ \A i \in 1 .. n - 1 : acc[i] = front[i]
  BY DEF Last
<1>2. r \in Segment
  BY DEF Segment
<1>3. ASSUME g.table = is_table_line(line) PROVE Grouped(acc, line) = v
  <2> DEFINE u == [acc EXCEPT ![n] = r]
  <2>1. Grouped(acc, line) = [acc EXCEPT ![Len(acc)].lines = Append(@, line)]
    BY <1>1, <1>3 DEF Grouped
  <2>2. [g EXCEPT !.lines = Append(@, line)] = r
    <3>1. Append(g.lines, line) \in Seq(Text)
      BY DEF Segment
    <3>2. \A x \in Segment, l \in Seq(Text) : [x EXCEPT !.lines = l] = [table |-> x.table, lines |-> l]
      BY DEF Segment
    <3> QED
      BY <3>1, <3>2
  <2>3. [acc EXCEPT ![Len(acc)].lines = Append(@, line)] = [acc EXCEPT ![n] = [acc[n] EXCEPT !.lines = Append(@, line)]]
    OBVIOUS
  <2> HIDE DEF r, acc
  <2>4. n \in Nat /\ acc[n] = g
    BY <1>1
  <2>5. Grouped(acc, line) = u
    BY <2>1, <2>2, <2>3, <2>4
  <2>6. u \in Seq(Segment) /\ Len(u) = n /\ \A i \in 1 .. n : u[i] = IF i = n THEN r ELSE acc[i]
    BY <1>1, <1>2
  <2>7. v \in Seq(Segment) /\ Len(v) = n /\ \A i \in 1 .. n : v[i] = IF i = n THEN r ELSE acc[i]
    BY <1>1, <1>2
  <2> HIDE DEF u, v
  <2>8. u = v
    BY <2>6, <2>7, SameList
  <2> QED
    BY <2>5, <2>8
<1>4. ASSUME g.table # is_table_line(line)
      PROVE  Grouped(acc, line) = Append(acc, [table |-> is_table_line(line), lines |-> <<line>>])
  BY <1>1, <1>4 DEF Grouped
<1> QED
  BY <1>3, <1>4

(* The lines so far, in groups: those of earlier tables are listed, the     *)
(* last group began at b.                                                   *)
Segmented(acc, lines, m, b, front, before) ==
  LET T == TableLines(lines) IN
  /\ b \in 1 .. m /\ front \in Seq(Segment) /\ before \in Seq(1 .. Len(lines))
  /\ acc = Append(front, [table |-> is_table_line(lines[m]), lines |-> SubSeq(lines, b, m)])
  /\ m \in T => b - 1 \notin T /\ \A i \in b .. m : i \in T
  /\ Mapped(front, TableOf) = Each(before, TableFrom(lines))
  /\ Mapped(SubSeq(Places(lines), 1, m), Begins(lines))
       = IF m \in T THEN Append(before, b) ELSE before

LEMMA TableFromIs ==
  ASSUME NEW lines \in Seq(Text), NEW n, n = Len(lines), NEW i \in 1 .. n, NEW j \in i .. n,
         \A k \in i .. j : k \in TableLines(lines), j + 1 \notin TableLines(lines)
  PROVE  TableEnd(lines, i) = j /\ TableFrom(lines)[i] = Block(SubSeq(lines, i, j))
<1> DEFINE T == TableLines(lines)
           K == {k \in T : k >= i /\ k + 1 \notin T}
           e == Min(K)
<1>1. n \in Nat /\ T \subseteq 1 .. n
  BY DEF TableLines
<1>2. K \in SUBSET Nat /\ j \in K
  BY <1>1
<1>3. \A k \in K : k \in T /\ k >= i /\ k + 1 \notin T
  OBVIOUS
<1> HIDE DEF K
<1>4. e \in K /\ e <= j
  BY <1>2, MinIsThere
<1> HIDE DEF e
<1>5. e \in Nat /\ e >= i /\ e + 1 \notin T
  BY <1>2, <1>3, <1>4
<1>6. ASSUME e < j PROVE FALSE
  <2>1. e + 1 \in i .. j
    BY <1>1, <1>5, <1>6
  <2> QED
    BY <1>5, <2>1
<1>7. e = j
  BY <1>1, <1>4, <1>5, <1>6
<1>8. TableEnd(lines, i) = j
  BY <1>7 DEF TableEnd, e, K
<1> QED
  BY <1>8 DEF TableFrom

(* The next place in the list of where tables begin.                        *)
LEMMA NextBegin ==
  ASSUME NEW lines \in Seq(Text), NEW m \in Nat, m + 1 <= Len(lines)
  PROVE  /\ Mapped(SubSeq(Places(lines), 1, m), Begins(lines)) \in Seq(1 .. Len(lines))
         /\ Mapped(SubSeq(Places(lines), 1, m + 1), Begins(lines))
              = Mapped(SubSeq(Places(lines), 1, m), Begins(lines)) \o Begins(lines)[m + 1]
<1> DEFINE n == Len(lines)
           P == Places(lines)
           g == Begins(lines)
           D == 1 .. n
<1>1. P \in Seq(D) /\ Len(P) = n /\ \A i \in D : P[i] = i
  BY DEF Places
<1>2. g \in [D -> Seq(D)]
  BY BeginsAre
<1>3. m + 1 \in D
  BY <1>1
<1> HIDE DEF P, g, D
<1>4. SubSeq(P, 1, m) \in Seq(D) /\ SubSeq(P, 1, m + 1) = Append(SubSeq(P, 1, m), m + 1)
  BY <1>1, <1>3, PrefixGrows
<1> DEFINE q == SubSeq(P, 1, m)
<1> HIDE DEF q
<1>5. Mapped(Append(q, m + 1), g) = Mapped(q, g) \o g[m + 1] /\ Mapped(q, g) \in Seq(D)
  BY <1>2, <1>3, <1>4, MapAppends, MapIsASequence DEF q
<1> QED
  BY <1>4, <1>5 DEF q, P, g, D

LEMMA SegmentedGoesOn ==
  ASSUME NEW lines \in Seq(Text), NEW m \in Nat \ {0}, NEW k, k = m + 1, k <= Len(lines),
         NEW acc, NEW b, NEW front, NEW before, Segmented(acc, lines, m, b, front, before)
  PROVE  \E b2, front2, before2 :
           Segmented(Grouped(acc, lines[k]), lines, k, b2, front2, before2)
<1> DEFINE T == TableLines(lines)
           n == Len(lines)
           D == 1 .. n
           here == SubSeq(lines, b, m)
           g == [table |-> is_table_line(lines[m]), lines |-> here]
           line == lines[k]
           said == Mapped(SubSeq(Places(lines), 1, m), Begins(lines))
           more == Mapped(SubSeq(Places(lines), 1, k), Begins(lines))
<1>1. /\ b \in 1 .. m /\ front \in Seq(Segment) /\ before \in Seq(D) /\ acc = Append(front, g)
      /\ m \in T => b - 1 \notin T /\ \A i \in b .. m : i \in T
      /\ Mapped(front, TableOf) = Each(before, TableFrom(lines))
      /\ said = IF m \in T THEN Append(before, b) ELSE before
  BY DEF Segmented
<1>2. /\ n \in Nat /\ k \in D /\ m \in D /\ k - 1 = m /\ b \in D /\ line \in Text
      /\ k \in T <=> is_table_line(line)
      /\ m \in T <=> is_table_line(lines[m])
  <2>1. n \in Nat /\ k \in D /\ m \in D /\ k - 1 = m /\ b \in D /\ DOMAIN lines = D
    BY <1>1
  <2> QED
    BY <2>1 DEF TableLines
<1>3. here \in Seq(Text) /\ SubSeq(lines, b, k) = Append(here, line)
  <2>1. m \in Nat /\ b \in Nat \ {0} /\ b <= m /\ m + 1 <= n
    BY <1>1, <1>2
  <2> QED
    BY <2>1
<1>4. g \in Segment /\ g.table = is_table_line(lines[m]) /\ g.lines = here
  BY <1>3, TableLineIsBoolean DEF Segment
<1>5. said \in Seq(D) /\ more = said \o Begins(lines)[k]
  BY <1>2, NextBegin
<1>6. Begins(lines)[k] = IF k \in T /\ m \notin T THEN <<k>> ELSE <<>>
  BY <1>2 DEF Begins
<1> HIDE DEF T, D, here, g, line, said, more
<1>7. CASE k \in T <=> m \in T
  <2> DEFINE r == [table |-> is_table_line(line), lines |-> SubSeq(lines, b, k)]
  <2>1. is_table_line(line) = is_table_line(lines[m])
    BY <1>2, <1>7, TableLineIsBoolean
  <2>2. Grouped(acc, line) = Append(front, r)
    <3>1. Grouped(Append(front, g), line) = Append(front, [table |-> g.table, lines |-> Append(g.lines, line)])
      <4>1. g.table = is_table_line(line)
        BY <1>4, <2>1
      <4> QED
        BY ZenonT(60), <1>1, <1>2, <1>4, <4>1, GroupedIs
    <3>2. g.table = is_table_line(line) /\ Append(g.lines, line) = SubSeq(lines, b, k)
      BY <1>3, <1>4, <2>1
    <3> QED
      BY <1>1, <3>1, <3>2
  <2> HIDE DEF r
  <2>3. more = said
    <3>1. said \o <<>> = said
      BY <1>5
    <3> QED
      BY <1>5, <1>6, <1>7, <3>1
  <2>4. b \in 1 .. k /\ k \in T => b - 1 \notin T /\ \A i \in b .. k : i \in T
    <3>1. \A i \in b .. k : i = k \/ i \in b .. m
      BY <1>1, <1>2
    <3> QED
      BY <1>1, <1>7, <3>1
  <2>5. b \in 1 .. k
    BY <1>1
  <2>6. Segmented(Grouped(acc, line), lines, k, b, front, before)
    BY <1>1, <1>7, <2>2, <2>3, <2>4, <2>5 DEF Segmented, T, D, line, r, more
  <2> QED
    BY <2>6 DEF line
<1>8. CASE ~(k \in T <=> m \in T)
  <2> DEFINE r == [table |-> is_table_line(line), lines |-> SubSeq(lines, k, k)]
  <2>1. is_table_line(line) # is_table_line(lines[m]) /\ SubSeq(lines, k, k) = <<line>>
    <3>1. SubSeq(lines, k, k) = <<line>>
      <4>1. k \in 1 .. Len(lines)
        BY <1>2 DEF D
      <4> HIDE DEF D
      <4>2. SubSeq(lines, k, k) = <<lines[k]>>
        <5> DEFINE u == SubSeq(lines, k, k)
                   v == <<lines[k]>>
        <5>1. u \in Seq(Text) /\ Len(u) = 1 /\ u[1] = lines[k]
          BY <4>1
        <5>2. v \in Seq(Text) /\ Len(v) = 1 /\ v[1] = lines[k]
          BY <4>1
        <5> HIDE DEF u, v
        <5>3. u = v
          BY <5>1, <5>2, SameList
        <5> QED
          BY <5>3 DEF u, v
      <4> QED
        BY <4>2 DEF line
    <3> QED
      BY <1>2, <1>8, <3>1, TableLineIsBoolean
  <2>2. Grouped(acc, line) = Append(acc, r) /\ acc \in Seq(Segment)
    <3>1. g.table # is_table_line(line)
      BY <1>4, <2>1
    <3>2. Grouped(Append(front, g), line) = Append(Append(front, g), [table |-> is_table_line(line), lines |-> <<line>>])
      BY ZenonT(60), <1>1, <1>2, <1>4, <3>1, GroupedIs
    <3>3. acc \in Seq(Segment)
      BY <1>1, <1>4
    <3> QED
      BY <1>1, <2>1, <3>2, <3>3
  <2> HIDE DEF r
  <2>3. Mapped(acc, TableOf) = Each(before, TableFrom(lines)) \o TableOf[g]
    <3>1. Mapped(Append(front, g), TableOf) = Mapped(front, TableOf) \o TableOf[g]
      <4>1. front \in Seq(Segment) /\ g \in Segment /\ TableOf \in [Segment -> Seq(Text)]
        BY <1>1, <1>4, TableOfIs
      <4> QED
        BY ZenonT(60), <4>1, MapAppends
    <3> QED
      BY <1>1, <3>1
  <2>4. CASE m \in T
    <3> DEFINE after == Append(before, b)
    <3>1. TableFrom(lines)[b] = Block(here)
      <4>1. b \in 1 .. n /\ m \in b .. n /\ (\A i \in b .. m : i \in T) /\ m + 1 \notin T
        BY <1>1, <1>2, <1>8, <2>4 DEF D
      <4> QED
        BY <4>1, TableFromIs DEF T, here
    <3>3. TableOf[g] = <<TableFrom(lines)[b]>>
      <4>1. TableOf[g] = IF g.table THEN <<Block(g.lines)>> ELSE <<>>
        BY <1>4 DEF TableOf
      <4> QED
        BY <1>2, <1>4, <2>4, <3>1, <4>1
    <3>4. Each(after, TableFrom(lines)) = Each(before, TableFrom(lines)) \o <<TableFrom(lines)[b]>>
      <4> DEFINE f == TableFrom(lines)
      <4>1. DOMAIN f = D /\ before \in Seq(D) /\ b \in D
        BY <1>1, <1>2 DEF TableFrom, D
      <4> HIDE DEF f
      <4>2. Each(Append(before, b), f) = Each(before, f) \o <<f[b]>>
        BY ZenonT(60), <4>1, EachOver
      <4> QED
        BY <4>2 DEF f
    <3>5. k \notin T /\ after \in Seq(D)
      BY <1>1, <1>2, <1>8, <2>4
    <3>6. more = after
      <4>1. said = after
        BY <1>1, <2>4
      <4> HIDE DEF after
      <4>2. said \o <<>> = said
        BY <1>5
      <4> QED
        BY <1>5, <1>6, <3>5, <4>1, <4>2
    <3>7. k \in 1 .. k
      BY <1>2 DEF D
    <3> HIDE DEF after
    <3>8. Segmented(Append(acc, r), lines, k, k, acc, after)
      BY <2>2, <2>3, <3>3, <3>4, <3>5, <3>6, <3>7 DEF Segmented, T, D, line, r, more
    <3> QED
      BY <2>2, <3>8 DEF line
  <2>5. CASE m \notin T
    <3>1. TableOf[g] = <<>>
      BY <1>2, <1>4, <2>5 DEF TableOf
    <3>2. Mapped(acc, TableOf) = Each(before, TableFrom(lines))
      <4>1. Mapped(front, TableOf) \in Seq(Text)
        BY <1>1, TableOfIs, MapIsASequence
      <4> DEFINE q == Mapped(front, TableOf)
      <4> HIDE DEF q
      <4>2. q \o <<>> = q
        BY <4>1 DEF q
      <4> QED
        BY <1>1, <2>3, <3>1, <4>2 DEF q
    <3>3. k \in T /\ more = Append(before, k)
      <4>1. before \o <<k>> = Append(before, k)
        BY <1>1, <1>2
      <4> QED
        BY <1>1, <1>5, <1>6, <1>8, <2>5, <4>1
    <3>4. k \in 1 .. k /\ k - 1 \notin T /\ \A i \in k .. k : i \in T
      BY <1>2, <2>5, <3>3 DEF D
    <3>5. Segmented(Append(acc, r), lines, k, k, acc, before)
      BY <1>1, <2>2, <3>2, <3>3, <3>4 DEF Segmented, T, D, line, r, more
    <3> QED
      BY <2>2, <3>5 DEF line
  <2> QED
    BY <2>4, <2>5
<1> QED
  BY <1>7, <1>8

(* The contents of the tables of these lines, in order.                     *)
TablesIn(lines) == Each(Mapped(Places(lines), Begins(lines)), TableFrom(lines))

LEMMA GroupsAreTables ==
  ASSUME NEW lines \in Seq(Text) PROVE Mapped(GroupedLines(lines), TableOf) = TablesIn(lines)
<1> DEFINE n == Len(lines)
           D == 1 .. n
           T == TableLines(lines)
           P == Places(lines)
           Good(acc, m) == \E b, front, before : Segmented(acc, lines, m, b, front, before)
<1>1. PICK it \in [0 .. Len(lines) -> Seq(Segment)] :
        /\ it[0] = <<>>
        /\ \A m \in 1 .. Len(lines) : it[m] = Grouped(it[m - 1], lines[m])
        /\ GroupedLines(lines) = it[Len(lines)]
  BY SegmentRun
<1>2. n \in Nat /\ P \in Seq(D) /\ Len(P) = n /\ T \subseteq D
  BY DEF Places, TableLines
<1>3. CASE n = 0
  <2>1. lines = <<>> /\ P = <<>>
    BY <1>2, <1>3
  <2>2. GroupedLines(lines) = <<>>
    BY <1>1, <1>3
  <2>3. TablesIn(lines) = <<>>
    <3>1. Mapped(P, Begins(lines)) = <<>>
      BY <2>1, MapOfNone
    <3> QED
      BY <3>1 DEF TablesIn, Each
  <2> QED
    BY <2>2, <2>3, MapOfNone
<1>4. CASE n # 0
  <2> DEFINE U == {m \in Nat : m + 1 <= n => Good(it[m + 1], m + 1)}
  <2>1. 0 \in U
    <3> DEFINE g == [table |-> is_table_line(lines[1]), lines |-> SubSeq(lines, 1, 1)]
    <3>1. 1 \in D /\ lines[1] \in Text /\ 0 + 1 = 1 /\ 1 - 1 = 0 /\ 0 <= n /\ 0 + 1 <= n /\ 0 \notin T
      BY <1>2, <1>4
    <3>2. SubSeq(lines, 1, 1) = <<lines[1]>>
      <4>1. SubSeq(lines, 1, 0) = <<>> /\ SubSeq(lines, 1, 0 + 1) = Append(SubSeq(lines, 1, 0), lines[0 + 1])
        BY <3>1, PrefixGrows, WholeList
      <4>2. Append(<<>>, lines[1]) = <<lines[1]>>
        OBVIOUS
      <4> QED
        BY <4>1, <4>2
    <3>3. it[1] = Append(<<>>, g)
      <4>1. it[1] = Grouped(<<>>, lines[1])
        <5>1. it[1] = Grouped(it[1 - 1], lines[1])
          BY <1>1, <3>1
        <5> QED
          BY <1>1, <3>1, <5>1
      <4>2. Grouped(<<>>, lines[1]) = Append(<<>>, [table |-> is_table_line(lines[1]), lines |-> <<lines[1]>>])
        BY DEF Grouped
      <4> QED
        BY <3>2, <4>1, <4>2
    <3>4. Mapped(SubSeq(P, 1, 1), Begins(lines)) = IF 1 \in T THEN Append(<<>>, 1) ELSE <<>>
      <4>1. Mapped(SubSeq(P, 1, 0 + 1), Begins(lines)) = Mapped(SubSeq(P, 1, 0), Begins(lines)) \o Begins(lines)[0 + 1]
        BY <3>1, NextBegin
      <4>2. SubSeq(P, 1, 0) = <<>>
        BY <1>2
      <4>3. Mapped(<<>>, Begins(lines)) = <<>>
        BY MapOfNone
      <4>4. Begins(lines)[1] = IF 1 \in T THEN <<1>> ELSE <<>>
        BY <3>1 DEF Begins
      <4>5. <<>> \o <<1>> = <<1>> /\ <<>> \o <<>> = <<>> /\ Append(<<>>, 1) = <<1>>
        OBVIOUS
      <4> QED
        BY <3>1, <4>1, <4>2, <4>3, <4>4, <4>5
    <3>5. Mapped(<<>>, TableOf) = Each(<<>>, TableFrom(lines))
      BY MapOfNone DEF Each
    <3>6. 1 \in 1 .. 1 /\ <<>> \in Seq(Segment) /\ <<>> \in Seq(D) /\ (1 \in T => 1 - 1 \notin T /\ \A i \in 1 .. 1 : i \in T)
      BY <3>1
    <3> HIDE DEF g, P, T, D
    <3>7. Segmented(it[1], lines, 1, 1, <<>>, <<>>)
      BY <3>3, <3>4, <3>5, <3>6 DEF Segmented, g, P, T, D
    <3> QED
      BY <3>1, <3>7
  <2>2. ASSUME NEW m \in Nat, m \in U PROVE m + 1 \in U
    <3> SUFFICES ASSUME (m + 1) + 1 <= n PROVE Good(it[(m + 1) + 1], (m + 1) + 1)
      OBVIOUS
    <3> DEFINE j == m + 1
               k == (m + 1) + 1
    <3>1. j \in Nat \ {0} /\ k = j + 1 /\ k <= n /\ j <= n /\ k \in 1 .. n /\ k - 1 = j
      BY <1>2
    <3>2. PICK b, front, before : Segmented(it[j], lines, j, b, front, before)
      BY <2>2, <3>1
    <3>3. it[k] = Grouped(it[j], lines[k])
      <4>1. it[k] = Grouped(it[k - 1], lines[k])
        BY <1>1, <3>1
      <4> QED
        BY <3>1, <4>1
    <3> HIDE DEF j, k
    <3>4. \E b2, front2, before2 : Segmented(Grouped(it[j], lines[k]), lines, k, b2, front2, before2)
      BY ZenonT(60), <3>1, <3>2, SegmentedGoesOn
    <3> QED
      BY <3>3, <3>4 DEF k
  <2>3. n - 1 \in U /\ n - 1 \in Nat /\ (n - 1) + 1 = n
    <3> HIDE DEF U
    <3>1. n - 1 \in Nat
      BY <1>2, <1>4
    <3>2. Nat \subseteq U
      BY <2>1, <2>2, SetInduction
    <3> QED
      BY <1>2, <3>1, <3>2
  <2>4. PICK b, front, before : Segmented(it[n], lines, n, b, front, before)
    BY <1>2, <2>3
  <2> DEFINE here == SubSeq(lines, b, n)
             g == [table |-> is_table_line(lines[n]), lines |-> here]
  <2>5. /\ b \in 1 .. n /\ front \in Seq(Segment) /\ before \in Seq(D) /\ it[n] = Append(front, g)
        /\ n \in T => \A i \in b .. n : i \in T
        /\ Mapped(front, TableOf) = Each(before, TableFrom(lines))
        /\ Mapped(SubSeq(P, 1, n), Begins(lines)) = IF n \in T THEN Append(before, b) ELSE before
    BY <2>4 DEF Segmented
  <2>6. /\ n \in D /\ b \in D /\ n + 1 \notin T
        /\ n \in T <=> is_table_line(lines[n])
    BY SMTT(40), <1>2, <1>4, <2>5 DEF TableLines
  <2>7. here \in Seq(Text)
    BY <1>2, <2>5
  <2>8. g \in Segment /\ g.table = is_table_line(lines[n]) /\ g.lines = here
    BY <2>7, TableLineIsBoolean DEF Segment
  <2>9. SubSeq(P, 1, n) = P
    BY <1>2, WholeList
  <2> HIDE DEF P, g, T, D, here
  <2>10. Mapped(it[n], TableOf) = Each(before, TableFrom(lines)) \o TableOf[g]
    <3>1. Mapped(Append(front, g), TableOf) = Mapped(front, TableOf) \o TableOf[g]
      <4>1. front \in Seq(Segment) /\ g \in Segment /\ TableOf \in [Segment -> Seq(Text)]
        BY <2>5, <2>8, TableOfIs
      <4> QED
        BY <4>1, MapAppends
    <3> QED
      BY <2>5, <3>1
  <2>11. CASE n \in T
    <3>1. TableFrom(lines)[b] = Block(here)
      <4>1. b \in 1 .. n /\ n \in b .. n /\ (\A i \in b .. n : i \in T) /\ n + 1 \notin T
        BY <1>2, <2>5, <2>6, <2>11
      <4> QED
        BY <4>1, TableFromIs DEF T, here
    <3>3. TableOf[g] = <<TableFrom(lines)[b]>>
      <4>1. TableOf[g] = IF g.table THEN <<Block(g.lines)>> ELSE <<>>
        BY <2>8 DEF TableOf
      <4> QED
        BY <2>6, <2>8, <2>11, <3>1, <4>1
    <3>4. Each(Append(before, b), TableFrom(lines)) = Each(before, TableFrom(lines)) \o <<TableFrom(lines)[b]>>
      <4>1. DOMAIN TableFrom(lines) = D
        BY DEF TableFrom, D
      <4> QED
        <5>1. before \in Seq(D) /\ b \in D
          BY <2>5, <2>6
        <5> DEFINE h == TableFrom(lines)
        <5> HIDE DEF h
        <5>2. DOMAIN h = D
          BY <4>1 DEF h
        <5>3. Each(Append(before, b), h) = Each(before, h) \o <<h[b]>>
          BY <5>1, <5>2, EachOver
        <5> QED
          BY <5>3 DEF h
    <3> QED
      BY <1>1, <2>5, <2>9, <2>10, <2>11, <3>3, <3>4 DEF TablesIn, P
  <2>12. CASE n \notin T
    <3>1. TableOf[g] = <<>>
      BY <2>6, <2>8, <2>12 DEF TableOf
    <3>2. Mapped(front, TableOf) \in Seq(Text)
      BY <2>5, TableOfIs, MapIsASequence
    <3> DEFINE q == Mapped(front, TableOf)
    <3> HIDE DEF q
    <3>3. q \o <<>> = q
      BY <3>2 DEF q
    <3> QED
      BY <1>1, <2>5, <2>9, <2>10, <2>12, <3>1, <3>3 DEF TablesIn, P, q
  <2> QED
    BY <2>11, <2>12
<1> QED
  BY <1>3, <1>4

(* The table chunker's chunks for tables.                                   *)
LEMMA TablesAreTold ==
  ASSUME NEW page \in Text
  PROVE  Told(TableAwareChunker(page), Plain, {c \in Plain : c.type = "table"})
           = NonEmpty(TablesIn(splitlines(page)))
<1> DEFINE segments == segment(page)
           P == {c \in Plain : c.type = "table"}
           cut(block, table) ==
             IF block = <<>> THEN <<>>
             ELSE IF table THEN <<TextChunk(block, "table")>>
             ELSE Chunks(split_text(block, Size, Overlap), "text")
           f == [g \in Segment |-> cut(Block(g.lines), g.table)]
           kept == [t \in Text |-> IF t # <<>> THEN <<t>> ELSE <<>>]
           both == [g \in Segment |-> IF g.table /\ Block(g.lines) # <<>> THEN <<Block(g.lines)>> ELSE <<>>]
<1>1. Size \in Nat \ {0} /\ Overlap \in Nat
  BY ChunkerAssumption
<1>2. segments \in Seq(Segment) /\ Mapped(segments, TableOf) = TablesIn(splitlines(page))
  <2>1. segments = GroupedLines(splitlines(page))
    BY DEF segment, GroupedLines, Grouped
  <2> QED
    BY <2>1, SegmentsAre, LinesAreTexts, GroupsAreTables
<1>3. TableAwareChunker(page) = Mapped(segments, f)
  <2>1. TableAwareChunker(page) = FlattenSeq([i \in DOMAIN segments |-> cut(Block(segments[i].lines), segments[i].table)])
    BY DEF TableAwareChunker, Block
  <2>2. [i \in DOMAIN segments |-> cut(Block(segments[i].lines), segments[i].table)] = Each(segments, f)
    <3>1. \A i \in DOMAIN segments : segments[i] \in Segment
      BY <1>2
    <3> HIDE DEF segments, cut
    <3> QED
      BY <3>1 DEF Each
  <2> QED
    BY <2>1, <2>2 DEF Mapped
<1>4. ASSUME NEW block \in Text, NEW table \in BOOLEAN
      PROVE  /\ cut(block, table) \in Seq(Plain)
             /\ Told(cut(block, table), Plain, P)
                  = IF table /\ block # <<>> THEN <<block>> ELSE <<>>
  <2>1. CASE block = <<>>
    BY <2>1, MapOfNone DEF Told
  <2>2. CASE block # <<>> /\ table
    <3> DEFINE c == TextChunk(block, "table")
    <3>1. c \in Plain /\ c \in P /\ c.content = block
      BY DEF TextChunk, Plain, Chunk
    <3> HIDE DEF c, P
    <3>2. Mapped(<<c>>, Telling(Plain, P)) = Telling(Plain, P)[c]
      BY <3>1, PlainsHaveTexts, TellingIs, MapOfOne
    <3>3. Told(<<c>>, Plain, P) = <<block>> /\ <<c>> \in Seq(Plain)
      BY <3>1, <3>2 DEF Told, Telling
    <3>4. cut(block, table) = <<c>>
      BY <2>2 DEF c
    <3> QED
      BY <2>2, <3>3, <3>4
  <2>3. CASE block # <<>> /\ ~table
    <3> DEFINE ss == split_text(block, Size, Overlap)
               cs == Chunks(ss, "text")
    <3>1. ss \in Seq(Text)
      BY <1>1, SplitTextSays
    <3> HIDE DEF ss
    <3>2. cs \in Seq(Plain)
      BY <3>1, PlainChunks
    <3>3. \A i \in DOMAIN cs : cs[i].type = "text"
      BY DEF Chunks, TextChunk
    <3>4. cut(block, table) = cs
      BY <2>3 DEF ss
    <3> HIDE DEF cs, cut
    <3>5. \A i \in DOMAIN cs : cs[i] \notin P
      BY <3>3
    <3> HIDE DEF P
    <3>6. Told(cs, Plain, P) = <<>>
      BY <3>2, <3>5, PlainsHaveTexts, ToldNone
    <3> QED
      BY <2>3, <3>2, <3>4, <3>6
  <2> QED
    BY <2>1, <2>2, <2>3
<1>k. kept \in [Text -> Seq(Text)]
  OBVIOUS
<1> HIDE DEF cut, P, segments
<1>5. ASSUME NEW g \in Segment
      PROVE  /\ f[g] \in Seq(Plain) /\ both[g] = Told(f[g], Plain, P)
             /\ both[g] \in Seq(Text) /\ both[g] = Mapped(TableOf[g], kept)
  <2>1. Block(g.lines) \in Text /\ g.table \in BOOLEAN
    BY BlockIsAText DEF Segment
  <2>2. f[g] \in Seq(Plain) /\ both[g] = Told(f[g], Plain, P)
    BY <1>4, <2>1
  <2>3. both[g] \in Seq(Text)
    BY <2>1
  <2>4. \A t \in Text : Mapped(<<t>>, kept) = kept[t]
    <3> HIDE DEF kept
    <3> QED
      BY <1>k, MapOfOne
  <2>5. CASE g.table
    <3>1. TableOf[g] = <<Block(g.lines)>>
      BY <2>5 DEF TableOf
    <3> QED
      BY <2>1, <2>2, <2>3, <2>4, <2>5, <3>1
  <2>6. CASE ~g.table
    <3>1. TableOf[g] = <<>>
      BY <2>6 DEF TableOf
    <3> QED
      BY <2>2, <2>3, <2>6, <3>1, MapOfNone
  <2> QED
    BY <2>5, <2>6
<1>6. f \in [Segment -> Seq(Plain)] /\ both \in [Segment -> Seq(Text)]
  BY <1>5
<1> HIDE DEF f, both, kept
<1>7. Composes(both, f, Telling(Plain, P), Segment, Plain, Text)
  <2>1. Telling(Plain, P) \in [Plain -> Seq(Text)]
    BY PlainsHaveTexts, TellingIs
  <2> QED
    BY <1>5, <1>6, <2>1 DEF Composes, Told
<1>8. Mapped(Mapped(segments, f), Telling(Plain, P)) = Mapped(segments, both)
  BY <1>2, <1>7, MapOfMap
<1>9. Composes(both, TableOf, kept, Segment, Text, Text)
  BY <1>5, <1>6, <1>k, TableOfIs DEF Composes
<1>10. Mapped(Mapped(segments, TableOf), kept) = Mapped(segments, both)
  BY <1>2, <1>9, MapOfMap
<1>11. NonEmpty(Mapped(segments, TableOf)) = Mapped(Mapped(segments, TableOf), kept)
  <2> DEFINE ss == Mapped(segments, TableOf)
  <2>1. ss \in Seq(Text)
    BY <1>2, TableOfIs, MapIsASequence
  <2> HIDE DEF ss
  <2>2. [i \in DOMAIN ss |-> IF ss[i] # <<>> THEN <<ss[i]>> ELSE <<>>] = Each(ss, kept)
    BY <2>1 DEF Each, kept
  <2> QED
    BY <2>2 DEF NonEmpty, Where, Mapped, ss
<1> QED
  BY <1>2, <1>3, <1>8, <1>10, <1>11 DEF Told, P

-----------------------------------------------------------------------------
(* The chunkers that know a structure keep it, and so do the rows.          *)
LEMMA TypedTables ==
  ASSUME NEW page \in Text
  PROVE  Typed(chunk("table_aware", page), TRUE) = NonEmpty(TablesIn(splitlines(page)))
<1> DEFINE cut == TableAwareChunker(page)
           P == {c \in Plain : c.type = "table"}
           Q == {c \in Plain : TRUE => c.type = "table"}
<1>1. chunk("table_aware", page) = cut
  BY DEF chunk
<1>2. cut \in Seq(Plain)
  BY TableKeeps DEF Keeps
<1>3. Told(cut, Plain, P) = NonEmpty(TablesIn(splitlines(page)))
  BY TablesAreTold
<1>4. P = Q
  OBVIOUS
<1> HIDE DEF cut
<1>5. Typed(cut, TRUE) = Told(cut, Plain, Q)
  BY <1>2, TypedIsTold
<1> QED
  BY <1>1, <1>3, <1>4, <1>5

LEMMA TypedCode ==
  ASSUME NEW page \in Text
  PROVE  Typed(chunk("code_aware", page), FALSE) = Contents(CodeAwareChunker(page))
<1> DEFINE cut == CodeAwareChunker(page)
           Q == {c \in Plain : FALSE => c.type = "table"}
<1>1. chunk("code_aware", page) = cut
  BY DEF chunk
<1>2. cut \in Seq(Plain)
  BY CodeKeeps DEF Keeps
<1> HIDE DEF cut
<1>3. \A i \in DOMAIN cut : cut[i] \in Q
  BY <1>2
<1>4. Typed(cut, FALSE) = Told(cut, Plain, Q)
  BY <1>2, TypedIsTold
<1> HIDE DEF Q
<1>5. Told(cut, Plain, Q) = Contents(cut)
  BY <1>2, <1>3, PlainsHaveTexts, ToldAll
<1> QED
  BY <1>1, <1>4, <1>5 DEF cut

(* What is seen of the committed rows of a document.                        *)
LEMMA CutIsSeen ==
  ASSUME NEW d, NEW n, NEW R, HaveTexts(R), rows[d] \in Seq(R)
  PROVE  /\ Contents(Cut(d, n)) = Seen(rows[d], n, FALSE)
         /\ Contents(Where(Cut(d, n), LAMBDA c : c.type = "table")) = Seen(rows[d], n, TRUE)
<1> DEFINE cs == rows[d]
           P == {c \in R : c.page = n}
           Q == {c \in R : c.type = "table"}
           cut == Mapped(cs, Choosing(R, P))
<1>1. cs \in Seq(R)
  OBVIOUS
<1>2. Cut(d, n) = cut
  <2>1. [i \in DOMAIN cs |-> IF cs[i].page = n THEN <<cs[i]>> ELSE <<>>] = Each(cs, Choosing(R, P))
    <3> HIDE DEF cs
    <3>1. ASSUME NEW i \in DOMAIN cs
          PROVE  (IF cs[i].page = n THEN <<cs[i]>> ELSE <<>>) = Choosing(R, P)[cs[i]]
      BY <1>1 DEF Choosing
    <3> HIDE DEF P
    <3> QED
      BY <3>1 DEF Each
  <2>2. Cut(d, n) = FlattenSeq([i \in DOMAIN cs |-> IF cs[i].page = n THEN <<cs[i]>> ELSE <<>>])
    BY DEF Cut, Where
  <2> QED
    BY <2>1, <2>2 DEF Mapped
<1> HIDE DEF cs
<1>3. cut \in Seq(R)
  BY <1>1, ChosenAre
<1>4. Contents(cut) = Told(cs, R, P)
  <2> HIDE DEF P
  <2> QED
    BY <1>1, ChosenContents
<1>5. Told(cut, R, Q) = Told(cs, R, P \cap Q)
  <2> HIDE DEF P, Q
  <2> QED
    BY <1>1, ChosenAreTold
<1> HIDE DEF cut
<1>6. Where(cut, LAMBDA c : c.type = "table") = Mapped(cut, Choosing(R, Q))
  <2>1. [i \in DOMAIN cut |-> IF cut[i].type = "table" THEN <<cut[i]>> ELSE <<>>] = Each(cut, Choosing(R, Q))
    <3>1. ASSUME NEW i \in DOMAIN cut
          PROVE  (IF cut[i].type = "table" THEN <<cut[i]>> ELSE <<>>) = Choosing(R, Q)[cut[i]]
      BY <1>3 DEF Choosing
    <3> HIDE DEF Q
    <3> QED
      BY <3>1 DEF Each
  <2> QED
    BY <2>1 DEF Mapped, Where
<1>7. Contents(Mapped(cut, Choosing(R, Q))) = Told(cut, R, Q)
  <2> HIDE DEF Q
  <2> QED
    BY <1>3, ChosenContents
<1> DEFINE S(only) == {c \in R : c.page = n /\ (only => c.type = "table")}
<1>8. ASSUME NEW only \in BOOLEAN PROVE Seen(cs, n, only) = Told(cs, R, S(only))
  BY <1>1, SeenIsTold
<1>9. S(FALSE) = P /\ S(TRUE) = P \cap Q
  OBVIOUS
<1> HIDE DEF S
<1>10. Seen(cs, n, FALSE) = Told(cs, R, P) /\ Seen(cs, n, TRUE) = Told(cs, R, P \cap Q)
  BY <1>8, <1>9
<1> HIDE DEF P, Q
<1> QED
  BY <1>2, <1>4, <1>5, <1>6, <1>7, <1>10 DEF cs

LEMMA TablesHold ==
  ASSUME NEW d, NEW n, pages[d][n] \in Text,
         Contents(Where(Cut(d, n), LAMBDA c : c.type = "table"))
           = NonEmpty(TablesIn(splitlines(pages[d][n])))
  PROVE  TablesAreWhole(d, n)
<1> DEFINE lines == splitlines(pages[d][n])
           T == {i \in DOMAIN lines : is_table_line(lines[i])}
           starts == Where([i \in DOMAIN lines |-> i], LAMBDA i : i \in T /\ i - 1 \notin T)
           EndOf(i) == Min({j \in T : j >= i /\ j + 1 \notin T})
           D == 1 .. Len(lines)
<1>1. lines \in Seq(Text)
  BY LinesAreTexts
<1>2. TablesAreWhole(d, n) <=>
        Contents(Where(Cut(d, n), LAMBDA c : c.type = "table"))
          = NonEmpty([k \in DOMAIN starts |->
              strip(unlines(SubSeq(lines, starts[k], EndOf(starts[k]))))])
  BY DEF TablesAreWhole
<1> HIDE DEF lines
<1>3. DOMAIN lines = D /\ Places(lines) \in Seq(D) /\ DOMAIN Places(lines) = D
      /\ \A i \in D : Places(lines)[i] = i
  BY <1>1 DEF Places
<1>4. starts = Mapped(Places(lines), Begins(lines))
  <2>1. starts = FlattenSeq([k \in DOMAIN Places(lines) |->
                   IF Places(lines)[k] \in T /\ Places(lines)[k] - 1 \notin T THEN <<Places(lines)[k]>> ELSE <<>>])
    BY DEF Where, Places
  <2> DEFINE f == [k \in DOMAIN Places(lines) |->
                   IF Places(lines)[k] \in T /\ Places(lines)[k] - 1 \notin T THEN <<Places(lines)[k]>> ELSE <<>>]
  <2>2. f = Each(Places(lines), Begins(lines))
    <3>1. T = TableLines(lines)
      BY DEF TableLines
    <3> HIDE DEF T, D
    <3>2. \A i \in D : Begins(lines)[i] = IF i \in T /\ i - 1 \notin T THEN <<i>> ELSE <<>>
      BY <3>1 DEF Begins, D
    <3> QED
      BY <1>3, <3>2 DEF Each
  <2> QED
    BY <2>1, <2>2 DEF Mapped
<1> HIDE DEF starts
<1>5. starts \in Seq(D)
  BY <1>1, <1>3, <1>4, BeginsAre, MapIsASequence
<1>6. [k \in DOMAIN starts |-> strip(unlines(SubSeq(lines, starts[k], EndOf(starts[k]))))] = TablesIn(lines)
  <2>1. ASSUME NEW k \in DOMAIN starts
        PROVE  TableFrom(lines)[starts[k]] = strip(unlines(SubSeq(lines, starts[k], EndOf(starts[k]))))
    <3> DEFINE i == starts[k]
    <3>1. i \in 1 .. Len(lines)
      BY <1>5
    <3>2. TableEnd(lines, i) = EndOf(i)
      BY DEF TableEnd, TableLines
    <3> HIDE DEF EndOf, i
    <3>3. TableFrom(lines)[i] = strip(unlines(SubSeq(lines, i, EndOf(i))))
      BY <3>1, <3>2 DEF TableFrom, Block
    <3> QED
      BY <3>3 DEF i
  <2> HIDE DEF EndOf
  <2>2. TablesIn(lines) = Each(starts, TableFrom(lines))
    BY <1>4 DEF TablesIn
  <2> QED
    BY <2>1, <2>2 DEF Each
<1> QED
  BY <1>2, <1>6 DEF lines

LEMMA DefinitionsHold ==
  ASSUME NEW d, NEW n, pages[d][n] \in Text,
         CodeWhole(pages[d][n], Contents(Cut(d, n)))
  PROVE  DefinitionsAreWhole(d, n)
<1> DEFINE s == pages[d][n]
           starts == {i \in DOMAIN s : OpensLine(s, i)}
           EndOf(i) == Min({j - 1 : j \in {k \in starts : k > i}} \cup {Len(s)})
           contents == Contents(Cut(d, n))
<1>1. starts = Openings(s) /\ \A i : EndOf(i) = BodyEnd(s, i)
  BY DEF Openings, BodyEnd
<1>2. DefinitionsAreWhole(d, n) <=> LieWhole(d, n, starts)
        /\ (starts # {} => \A t \in ToSet(contents) : \A i \in DOMAIN t : IsTopLevel(t, i) => i = 1)
  BY DEF DefinitionsAreWhole
<1>3. LieWhole(d, n, starts) <=>
        \A i \in starts : LET body == strip(SubSeq(s, i, EndOf(i))) IN
          Len(body) <= Size => \E t \in ToSet(contents) : body \in SubSeqs(t)
  BY DEF LieWhole
<1> HIDE DEF starts, EndOf, s
<1>4. CodeWhole(s, contents) /\ s \in Text
  BY DEF s
<1> HIDE DEF contents
<1>5. ASSUME NEW t \in Text PROVE t \in SubSeqs(t)
  <2>1. t \in Seq(Int) /\ Len(t) \in 0 .. Len(t) /\ 0 \in 0 .. Len(t)
    BY DEF Text
  <2>2. SubSeq(t, 0 + 1, Len(t)) = t
    BY <2>1, WholeList
  <2> QED
    BY <2>1, <2>2 DEF SubSeqs
<1>6. ASSUME NEW i \in starts PROVE LET body == strip(SubSeq(s, i, EndOf(i))) IN
        Len(body) <= Size => \E t \in ToSet(contents) : body \in SubSeqs(t)
  <2> DEFINE body == strip(SubSeq(s, i, EndOf(i)))
  <2>1. body = Body(s, i) /\ (Len(body) <= Size => body \in ToSet(contents))
    BY <1>1, <1>4 DEF CodeWhole, Body
  <2>2. ToSet(contents) \subseteq Text
    BY <1>1, <1>4 DEF CodeWhole, Firm, CalmText
  <2> HIDE DEF body
  <2> QED
    BY <1>5, <2>1, <2>2 DEF body
<1>7. ASSUME starts # {}, NEW t \in ToSet(contents), NEW i \in DOMAIN t, IsTopLevel(t, i)
      PROVE  i = 1
  <2>1. t \in Firm
    BY <1>1, <1>4, <1>7 DEF CodeWhole
  <2>2. i \in 1 .. Len(t) /\ i \in Nat
    BY <1>7, <2>1 DEF Firm, CalmText, Text
  <2>3. i \in 1 .. i /\ (i = 1 \/ t[i - 1] = Newline) /\ i .. i - 1 = {} /\ t[i] = Definition
    BY <1>7, <2>2 DEF IsTopLevel
  <2>4. OpensLine(t, i)
    BY <2>3 DEF OpensLine
  <2> QED
    BY <1>7, <2>1, <2>4, FirmOpens
<1> QED
  BY <1>2, <1>3, <1>6, <1>7

LEMMA StructureHolds == Shape /\ GraphInv /\ SizesInv => StructureIsKept
<1> SUFFICES ASSUME Shape, GraphInv, SizesInv, NEW d \in Written, NEW n \in DOMAIN pages[d]
    PROVE  /\ plan.strategy = "table_aware" => TablesAreWhole(d, n)
           /\ plan.strategy = "code_aware" => DefinitionsAreWhole(d, n)
  BY DEF StructureIsKept
<1> DEFINE cs == rows[d]
           R == {cs[i] : i \in DOMAIN cs}
           page == pages[d][n]
<1>1. AllSaid(plan.strategy, pages[d], cs) /\ AllSeen(plan.strategy, pages[d], cs)
  BY DEF SizesInv, AllFit
<1>2. cs \in Seq(R) /\ HaveTexts(R)
  <2>1. PICK k \in Nat : cs = [i \in 1 .. k |-> cs[i]]
    BY <1>1 DEF AllSaid
  <2> HIDE DEF cs
  <2>2. DOMAIN cs = 1 .. k
    BY <2>1
  <2>3. cs \in Seq(R)
    BY <2>1, <2>2
  <2>4. HaveTexts(R)
    BY <1>1 DEF AllSaid, HaveTexts
  <2> QED
    BY <2>3, <2>4
<1>3. page \in Text
  BY <1>1, <1>2 DEF AllSeen
<1>4. \A only \in BOOLEAN : Seen(cs, n, only) = Typed(chunk(plan.strategy, page), only)
  BY <1>1, <1>2 DEF AllSeen
<1>5. /\ Contents(Cut(d, n)) = Seen(cs, n, FALSE)
      /\ Contents(Where(Cut(d, n), LAMBDA c : c.type = "table")) = Seen(cs, n, TRUE)
  BY <1>2, CutIsSeen
<1>6. ASSUME plan.strategy = "table_aware" PROVE TablesAreWhole(d, n)
  <2>1. Seen(cs, n, TRUE) = NonEmpty(TablesIn(splitlines(page)))
    BY <1>3, <1>4, <1>6, TypedTables
  <2> QED
    BY <1>3, <1>5, <2>1, TablesHold
<1>7. ASSUME plan.strategy = "code_aware" PROVE DefinitionsAreWhole(d, n)
  <2>1. Seen(cs, n, FALSE) = Contents(CodeAwareChunker(page))
    BY <1>3, <1>4, <1>7, TypedCode
  <2>2. CodeWhole(page, Contents(Cut(d, n)))
    BY <1>3, <1>5, <2>1, CodeIsWhole
  <2> QED
    BY <1>3, <2>2, DefinitionsHold
<1> QED
  BY <1>6, <1>7

(* Whatever the page and the sizes: a table that is not all blanks is one   *)
(* chunk, whole and in its place; a definition that opens a line, indented  *)
(* or not, is not cut from what follows it up to the next if both fit, and  *)
(* one that is not indented begins its chunk (TableAwareChunker._segment,   *)
(* CodeAwareChunker._split_on_defs).  That a class keeps its methods does   *)
(* not hold: ClassesStayIntact.                                             *)
THEOREM StructureIsKeptAlways == Spec => []StructureIsKept
<1>1. VectorsInv /\ GraphInv /\ [Next]_vars => GraphInv'
  BY GraphStep DEF VectorsInv
<1>2. VectorsInv /\ GraphInv /\ SizesInv /\ [Next]_vars => SizesInv'
  BY SizesStep DEF VectorsInv
<1>3. VectorsInv /\ GraphInv /\ SizesInv => StructureIsKept
  BY StructureHolds DEF VectorsInv
<1> QED
  BY VectorsStart, VectorsStep, GraphStart, SizesStart, <1>1, <1>2, <1>3, PTL DEF Spec
=============================================================================
