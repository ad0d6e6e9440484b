------------------------------ MODULE Indexing ------------------------------
(***************************************************************************)
(* What a pipeline run does with the text of a document, and what runs     *)
(* share while they do it: the chunk rows, the embedding versions, the     *)
(* points of the vector store and the knowledge graph.                     *)
(*                                                                         *)
(*   chunk -> version [-> addVersion] -> embed -> upsert -> graph -> commit*)
(*                                                                         *)
(* Rows and the version a run adds are visible at its commit; points and   *)
(* relations at once.  The API, deletion and edits are DocumentLifecycle's;*)
(* here every document was uploaded and waits for its first run.           *)
(***************************************************************************)
EXTENDS KnowledgeGraph

CONSTANTS
  Docs,
  Workers,
  None,
  MaxRetries,       \* Celery's max_retries
  Questions,        \* queries of explorations
  Limits,           \* and how much they ask for
  Plans             \* bounds: the documents, and what may happen to them

ASSUME IndexingAssumption ==
  /\ Docs \subseteq Nat
  /\ \A p \in Plans :
       /\ p.docs \subseteq Docs
       /\ p.texts \subseteq Seq(Text)
       /\ p.may \in [strategy : STRING, extractor : {"rules", "llm"},
                    failures : Nat, losses : Nat, again : Nat, queries : Nat]
  /\ Questions \subseteq Text /\ Limits \subseteq Nat
  /\ None \notin Nat
  /\ MaxRetries \in Nat

VARIABLES
  pages,            \* the text of each document, page by page
  status,           \* committed status of the documents
  rows,             \* committed chunk rows of the documents
  versions,         \* committed embedding versions (of the one provider used)
  fresh,            \* the version a run has flushed and not committed
  points,           \* points of the organisation's collection
  relations,        \* relations of the organisation's graph
  tasks,            \* ingestion tasks in the broker
  run,              \* runs: where they stand and what they made
  runs,             \* runs begun so far
  shown,            \* the last exploration of the graph
  plan              \* the strategy and extractor in use; what may still happen
                    \* (failures, losses, repeated ingestions, queries)

vars == <<pages, status, rows, versions, fresh, points, relations, tasks, run, runs,
          shown, plan>>

Stage(w, pc) == run[w].pc = pc

Advance(w, pc) == run' = [run EXCEPT ![w].pc = pc]

IdleRun == [pc |-> "idle", doc |-> None, retries |-> 0, id |-> 0, version |-> None, chunks |-> <<>>]

Spend(what) == plan[what] > 0 /\ plan' = [plan EXCEPT ![what] = @ - 1]

Init ==
  /\ \E p \in Plans : plan = p.may /\ pages \in [p.docs -> p.texts]
                    /\ run = [w \in p.workers |-> IdleRun] /\ fresh = [w \in p.workers |-> None]
  /\ status = [d \in DOMAIN pages |-> "uploaded"]
  /\ rows = [d \in DOMAIN pages |-> <<>>]
  /\ versions = {}
  /\ points = {}
  /\ relations = <<>>
  /\ tasks = {[doc |-> d, retries |-> 0] : d \in DOMAIN pages}
  /\ runs = 0
  /\ shown = None

-----------------------------------------------------------------------------
(* Chunk rows: a chunk, its page, its parent, its point and its version.    *)

Row(c, page, parent, vec, version) ==
  [content |-> c.content, type |-> c.type, embed |-> c.embed, page |-> page,
   parent |-> parent, vec |-> vec, version |-> version]

RowsOf(strategy, d) ==
  FoldLeft(LAMBDA made, n :
             LET cut == chunk(strategy, pages[d][n]) IN
             made \o [i \in DOMAIN cut |->
                        LET parent == cut[i].parent IN
                        Row(cut[i], n, IF parent = 0 THEN 0 ELSE parent + Len(made), None, None)],
           <<>>, [n \in DOMAIN pages[d] |-> n])

Targets(w) == {i \in DOMAIN run[w].chunks : run[w].chunks[i].embed}

Embedding(version, content) == <<version, content>>

-----------------------------------------------------------------------------
(* The stages.                                                              *)

(* A worker takes a task; the row lock of the document lets one run in.     *)
begin(w) ==
  /\ Stage(w, "idle")
  /\ \E t \in tasks :
       /\ \A v \in DOMAIN run : run[v].doc # t.doc
       /\ tasks' = tasks \ {t}
       /\ runs' = runs + 1
       /\ run' = [run EXCEPT ![w] = [IdleRun EXCEPT !.pc = "chunk", !.doc = t.doc,
                                       !.retries = t.retries, !.id = runs + 1]]
  /\ UNCHANGED <<pages, status, rows, versions, fresh, points, relations, shown, plan>>

chunk_document(w) ==
  /\ Stage(w, "chunk")
  /\ run' = [run EXCEPT ![w].pc = "version", ![w].chunks = RowsOf(plan.strategy, run[w].doc)]
  /\ UNCHANGED <<pages, status, rows, versions, fresh, points, relations, tasks, runs, shown, plan>>

(* get_or_create, its SELECT.                                               *)
find_version(w) ==
  /\ Stage(w, "version")
  /\ IF versions = {}
     THEN Advance(w, "addVersion")
     ELSE \E v \in versions : run' = [run EXCEPT ![w].pc = "embed", ![w].version = v]
  /\ UNCHANGED <<pages, status, rows, versions, fresh, points, relations, tasks, runs, shown, plan>>

(* Mutant: a task whose exception escaped is not retried.                   *)
Escape_final(w) ==
  /\ run' = [run EXCEPT ![w] = IdleRun]
  /\ fresh' = [fresh EXCEPT ![w] = None]
  /\ UNCHANGED tasks

(* The exception leaves the pipeline: the session needs a rollback, so      *)
(* FAILED cannot be committed either.  Celery retries, then gives up.       *)
Escape(w) ==
  /\ run' = [run EXCEPT ![w] = IdleRun]
  /\ fresh' = [fresh EXCEPT ![w] = None]
  /\ tasks' = IF run[w].retries < MaxRetries
              THEN tasks \cup {[doc |-> run[w].doc, retries |-> run[w].retries + 1]}
              ELSE tasks

(* Mutant: nobody waits, and there is no unique key.                       *)
add_version_unchecked(w) ==
  /\ Stage(w, "addVersion")
  /\ fresh' = [fresh EXCEPT ![w] = run[w].id]
  /\ run' = [run EXCEPT ![w].pc = "embed", ![w].version = run[w].id]
  /\ UNCHANGED <<pages, status, rows, versions, points, relations, tasks, runs, shown, plan>>

(* Its INSERT: waits for the run that inserted the same version, then fails *)
(* on the unique key if that run committed.                                 *)
add_version(w) ==
  /\ Stage(w, "addVersion")
  /\ \A v \in DOMAIN run : fresh[v] = None
  /\ IF versions = {}
     THEN /\ fresh' = [fresh EXCEPT ![w] = run[w].id]
          /\ run' = [run EXCEPT ![w].pc = "embed", ![w].version = run[w].id]
          /\ UNCHANGED tasks
     ELSE Escape(w)
  /\ UNCHANGED <<pages, status, rows, versions, points, relations, runs, shown, plan>>

(* Mutant: vectors are dealt out to all chunks, parents included.           *)
embed_shifted(w) ==
  /\ Stage(w, "embed")
  /\ LET r == run[w]
         chunks == [i \in DOMAIN r.chunks |->
                      IF i <= Cardinality(Targets(w))
                      THEN [r.chunks[i] EXCEPT !.vec = <<r.id, i>>, !.version = r.version]
                      ELSE r.chunks[i]]
     IN run' = [run EXCEPT ![w].pc = IF Targets(w) = {} THEN "graph" ELSE "upsert",
                           ![w].chunks = chunks]
  /\ UNCHANGED <<pages, status, rows, versions, fresh, points, relations, tasks, runs, shown, plan>>

(* embed_and_index up to the store: the chunks to embed get their point and *)
(* version.  (The cache in between is a new one in every run: it never has  *)
(* what is asked for.)                                                      *)
embed(w) ==
  /\ Stage(w, "embed")
  /\ LET r == run[w]
         chunks == [i \in DOMAIN r.chunks |->
                      LET c == r.chunks[i] IN
                      IF c.embed THEN Row(c, c.page, c.parent, <<r.id, i>>, r.version)
                      ELSE Row(c, c.page, c.parent, None, None)]
     IN run' = [run EXCEPT ![w].pc = IF Targets(w) = {} THEN "graph" ELSE "upsert",
                           ![w].chunks = chunks]
  /\ UNCHANGED <<pages, status, rows, versions, fresh, points, relations, tasks, runs, shown, plan>>

upsert(w) ==
  /\ Stage(w, "upsert")
  /\ LET r == run[w] IN
     points' = points \cup
       {[id |-> <<r.id, i>>, doc |-> r.doc, vector |-> Embedding(r.version, r.chunks[i].content)]
          : i \in Targets(w)}
  /\ Advance(w, "graph")
  /\ UNCHANGED <<pages, status, rows, versions, fresh, relations, tasks, runs, shown, plan>>

(* parsed.text: the pages, an empty line between them.                      *)
FullText(d) == join(pages[d], <<Newline, Newline>>)

Found(d) ==
  LET read == extract(FullText(d)) IN
  IF read.entities = {} THEN <<>>
  ELSE [k \in DOMAIN read.relations |->
          [source |-> read.relations[k][1], target |-> read.relations[k][2], doc |-> d]]

(* The GRAPH stage.  The LLM extractor, which production uses, raises       *)
(* before it asks anything: its prompt has braces that str.format takes for *)
(* fields.                                                                  *)
build_graph(w) ==
  /\ Stage(w, "graph")
  /\ plan.extractor = "rules"
  /\ relations' = relations \o Found(run[w].doc)
  /\ Advance(w, "commit")
  /\ UNCHANGED <<pages, status, rows, versions, fresh, points, tasks, runs, shown, plan>>

(* Mutant: a graph that cannot be built fails the document.                 *)
skip_graph_failing(w) ==
  /\ Stage(w, "graph")
  /\ plan.extractor = "llm"
  /\ status' = [status EXCEPT ![run[w].doc] = "failed"]
  /\ rows' = [rows EXCEPT ![run[w].doc] = run[w].chunks]
  /\ versions' = versions \cup ({fresh[w]} \ {None})
  /\ fresh' = [fresh EXCEPT ![w] = None]
  /\ run' = [run EXCEPT ![w] = IdleRun]
  /\ UNCHANGED <<pages, points, relations, tasks, runs, shown, plan>>

(* Whatever it raises is recorded and the run goes on.                      *)
skip_graph(w) ==
  /\ Stage(w, "graph")
  /\ plan.extractor = "llm"
  /\ Advance(w, "commit")
  /\ UNCHANGED <<pages, status, rows, versions, fresh, points, relations, tasks, runs, shown, plan>>

(* COMMIT: status, chunk rows and version become visible.                   *)
Settle(w, outcome) ==
  /\ status' = [status EXCEPT ![run[w].doc] = outcome]
  /\ rows' = [rows EXCEPT ![run[w].doc] = run[w].chunks]
  /\ versions' = versions \cup ({fresh[w]} \ {None})
  /\ fresh' = [fresh EXCEPT ![w] = None]
  /\ run' = [run EXCEPT ![w] = IdleRun]

commit(w) ==
  /\ Stage(w, "commit")
  /\ Settle(w, "indexed")
  /\ UNCHANGED <<pages, points, relations, tasks, runs, shown, plan>>

-----------------------------------------------------------------------------
(* Failures, and clients.                                                   *)

(* The embedding provider or the vector store raises: FAILED is committed,  *)
(* with the chunk rows and the version as they stand.                       *)
fail(w) ==
  /\ run[w].pc \in {"embed", "upsert"} /\ Targets(w) # {}
  /\ Spend("failures")
  /\ Settle(w, "failed")
  /\ UNCHANGED <<pages, points, relations, tasks, runs, shown>>

(* The worker is lost: what it did not commit is rolled back, and its task  *)
(* is delivered again.                                                      *)
lose(w) ==
  /\ ~Stage(w, "idle")
  /\ Spend("losses")
  /\ run' = [run EXCEPT ![w] = IdleRun]
  /\ fresh' = [fresh EXCEPT ![w] = None]
  /\ tasks' = tasks \cup {[doc |-> run[w].doc, retries |-> run[w].retries]}
  /\ UNCHANGED <<pages, status, rows, versions, points, relations, runs, shown>>

(* A client asks for the document to be ingested again.                     *)
reindex(d) ==
  /\ status[d] \in {"indexed", "failed"}
  /\ Spend("again")
  /\ \A w \in DOMAIN run : run[w].doc # d
  /\ \A t \in tasks : t.doc # d
  /\ status' = [status EXCEPT ![d] = "uploaded"]
  /\ tasks' = tasks \cup {[doc |-> d, retries |-> 0]}
  /\ UNCHANGED <<pages, rows, versions, fresh, points, relations, run, runs, shown>>

(* POST /graph/explore with a query that names some entities.               *)
explore ==
  /\ plan.extractor = "rules"
  /\ Spend("queries")
  /\ \E q \in Questions, hops \in 1 .. 3, limit \in Limits :
       LET seeds == extract(q).entities IN
       shown' = [seeds |-> seeds, hops |-> hops, limit |-> limit, upto |-> Len(relations),
                 out |-> IF seeds = {} THEN <<>> ELSE neighbors(relations, seeds, hops, limit)]
  /\ UNCHANGED <<pages, status, rows, versions, fresh, points, relations, tasks, run, runs>>

Work(w) ==
  \/ begin(w) \/ chunk_document(w) \/ find_version(w) \/ add_version(w) \/ embed(w)
  \/ upsert(w) \/ build_graph(w) \/ skip_graph(w) \/ commit(w)

Next ==
  \/ \E w \in DOMAIN run : Work(w) \/ fail(w) \/ lose(w)
  \/ \E d \in DOMAIN pages : reindex(d)
  \/ explore

Spec == Init /\ [][Next]_vars

-----------------------------------------------------------------------------
(* The committed chunks of a page, and what they say.                       *)
Cut(d, n) == Where(rows[d], LAMBDA c : c.page = n)

Contents(chunks) == [i \in DOMAIN chunks |-> chunks[i].content]

Written == {d \in DOMAIN rows : rows[d] # <<>> \/ status[d] = "indexed"}

Words(s) == Where(s, Word)

(* The words of the pieces, in order, are those of the text, but for what   *)
(* a piece repeats at its beginning of the one before: `overlap` words at   *)
(* most.                                                                    *)
Stitched(words, pieces, overlap) ==
  LET here(i) == Words(pieces[i]) IN
  \E repeated \in [DOMAIN pieces -> 0 .. overlap] :
    /\ \A i \in DOMAIN pieces : repeated[i] > 0 =>
         /\ i > 1 /\ repeated[i] <= Len(here(i))
         /\ \E j \in DOMAIN here(i - 1) :
              SubSeq(here(i - 1), j, Len(here(i - 1))) = SubSeq(here(i), 1, repeated[i])
    /\ words = FlattenSeq([i \in DOMAIN pieces |-> SubSeq(here(i), repeated[i] + 1, Len(here(i)))])

Overlaps == IF plan.strategy \in {"parent_child", "semantic", "code_aware"} THEN 0 ELSE Overlap

(* Whatever the strategy, every word of a page is in its chunks, in order   *)
(* and on the right page, and every word of a parent in its children.       *)
NothingLost ==
  \A d \in Written :
    /\ \A n \in DOMAIN pages[d] :
         Stitched(Words(pages[d][n]),
                  Contents(Where(Cut(d, n), LAMBDA c : c.parent = 0)), Overlaps)
    /\ plan.strategy = "parent_child" =>
         \A i \in DOMAIN rows[d] : rows[d][i].parent = 0 =>
           Stitched(Words(rows[d][i].content),
                    Contents(Where(rows[d], LAMBDA c : c.parent = i)), ChildOverlap)

(* No chunk outgrows its strategy's size, but for its overlap, a table and  *)
(* a sentence that is longer by itself: the separator _recursive_split      *)
(* gives every part, the last one too, never pushes a chunk over it.        *)
SizesHold ==
  \A d \in Written : \A i \in DOMAIN rows[d] :
    LET c == rows[d][i]  n == Len(c.content) IN
    CASE plan.strategy = "semantic" ->
           n <= Target \/ c.content \in ToSet(Sentences(pages[d][c.page]))
      [] plan.strategy = "parent_child" ->
           n <= IF c.parent = 0 THEN ParentSize ELSE ChildSize + ChildOverlap + 1
      [] OTHER -> c.type = "table" \/ n <= Size + (IF Overlaps = 0 THEN 0 ELSE Overlaps + 1)

(* The chunkers that know a structure keep it.  A table is one chunk: each  *)
(* longest run of table lines, whole, in order, if it is not all tabs and   *)
(* other blanks.                                                            *)
TablesAreWhole(d, n) ==
  LET lines == splitlines(pages[d][n])
      T == {i \in DOMAIN lines : is_table_line(lines[i])}
      starts == Where([i \in DOMAIN lines |-> i], LAMBDA i : i \in T /\ i - 1 \notin T)
      EndOf(i) == Min({j \in T : j >= i /\ j + 1 \notin T})
  IN Contents(Where(Cut(d, n), LAMBDA c : c.type = "table"))
       = NonEmpty([k \in DOMAIN starts |->
            strip(unlines(SubSeq(lines, starts[k], EndOf(starts[k]))))])

OpensLine(s, i) ==
  s[i] = Definition /\ \E j \in 1 .. i : /\ j = 1 \/ s[j - 1] = Newline
                                         /\ \A m \in j .. i - 1 : Blank(s[m])

IsTopLevel(s, i) == s[i] = Definition /\ (i = 1 \/ s[i - 1] = Newline)

(* What is between one of these beginnings and the next lies in one chunk,  *)
(* if it fits.                                                              *)
LieWhole(d, n, starts) ==
  LET s == pages[d][n]
      EndOf(i) == Min({j - 1 : j \in {k \in starts : k > i}} \cup {Len(s)})
  IN \A i \in starts : LET body == strip(SubSeq(s, i, EndOf(i))) IN
       Len(body) <= Size => \E c \in ToSet(Contents(Cut(d, n))) : body \in SubSeqs(c)

(* A definition at the beginning of a line, indented or not, is not cut if  *)
(* it fits with all that follows it up to the next; one that is not         *)
(* indented begins its chunk.                                               *)
DefinitionsAreWhole(d, n) ==
  LET starts == {i \in DOMAIN pages[d][n] : OpensLine(pages[d][n], i)} IN
  /\ LieWhole(d, n, starts)
  /\ starts # {} => \A c \in ToSet(Contents(Cut(d, n))) : \A i \in DOMAIN c :
                      IsTopLevel(c, i) => i = 1

StructureIsKept ==
  \A d \in Written : \A n \in DOMAIN pages[d] :
    /\ plan.strategy = "table_aware" => TablesAreWhole(d, n)
    /\ plan.strategy = "code_aware" => DefinitionsAreWhole(d, n)

(* What CodeAwareChunker's docstring says and its expression does not do:   *)
(* a class that fits, with its indented methods, stays within one chunk.    *)
ClassesStayIntact ==
  plan.strategy = "code_aware" => \A d \in Written : \A n \in DOMAIN pages[d] :
    LieWhole(d, n, {i \in DOMAIN pages[d][n] : IsTopLevel(pages[d][n], i)})

(* Vectors are dealt to the chunks they were made of: in an indexed         *)
(* document exactly the chunks to embed have one, and the point of each is  *)
(* the embedding of that chunk's content, in the one committed version.     *)
VectorsFit ==
  /\ Cardinality(versions) <= 1
  /\ \A d \in DOMAIN rows : status[d] = "indexed" => \A i \in DOMAIN rows[d] :
       LET c == rows[d][i] IN
       IF ~c.embed THEN c.vec = None
       ELSE /\ c.version \in versions
            /\ {p \in points : p.id = c.vec}
                 = {[id |-> c.vec, doc |-> d, vector |-> Embedding(c.version, c.content)]}

(* An exploration shows each entity once, and no seed: all that a walk of   *)
(* that many relations reaches, unless the limit cut it short.              *)
NeighborsAreExact ==
  shown # None =>
    LET reached == Within(SubSeq(relations, 1, shown.upto), shown.seeds, shown.hops) \ shown.seeds IN
    /\ IsInjective(shown.out)
    /\ ToSet(shown.out) \subseteq reached
    /\ Len(shown.out) = Min({shown.limit, Cardinality(reached)})

(* A graph that cannot be built never costs a document its index: a         *)
(* document fails only when embedding it or storing its vectors did.        *)
OnlyIndexingFails ==
  [][\A d \in DOMAIN status :
       status[d] # "failed" /\ status'[d] = "failed" => plan'.failures < plan.failures]_vars

(* A document that is not settled is in a worker's hands or in the broker:  *)
(* neither a lost worker nor losing the race for the first version, which   *)
(* leaves nothing committed, makes the system forget it.                    *)
NoneIsForgotten ==
  \A d \in DOMAIN status : status[d] = "uploaded" =>
    \/ \E t \in tasks : t.doc = d
    \/ \E w \in DOMAIN run : run[w].doc = d
=============================================================================
