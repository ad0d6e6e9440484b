------------------------- MODULE IngestionPipeline -------------------------
(***************************************************************************)
(* Ingestion workers: a delivered task runs the pipeline for one document  *)
(* in one transaction, from the first flush to the commit that ends it.    *)
(*                                                                         *)
(*   flush -> parse -> metadata -> chunk -> index -> commit                *)
(*                                                                         *)
(* The row is read before the first flush takes its lock, so what the run  *)
(* works from (`seen`) may be older than the row it writes.  Objects and   *)
(* points are written as the stages run; rows change at the commit.  The   *)
(* GRAPH stage, best-effort and outside the tables modelled here, lies     *)
(* between `index` and `commit`.                                           *)
(***************************************************************************)
EXTENDS DocumentState

CONSTANTS
  MaxFailures,      \* bound: stages that raise
  MaxFaults,        \* bound: exceptions that escape the pipeline
  MaxLosses,        \* bound: workers lost with a task in hand
  MaxRedeliveries   \* bound: tasks redelivered while they still run

ASSUME PipelineAssumption ==
  /\ MaxFailures \in Nat
  /\ MaxFaults \in Nat
  /\ MaxLosses \in Nat
  /\ MaxRedeliveries \in Nat

Stage(w, pc) == run[w].pc = pc

Advance(w, pc) == run' = [run EXCEPT ![w].pc = pc]

TaskOf(w) == [doc |-> run[w].doc, retries |-> run[w].retries]

(* The text_storage_key the commit leaves: the stage METADATA has set it    *)
(* from `seen`, and a value equal to the one loaded is not written.         *)
TextAfter(w) ==
  LET seen == run[w].seen IN
  IF run[w].pc \in {"chunk", "index", "commit"} /\ seen.text # seen.hash
  THEN seen.hash
  ELSE row[run[w].doc].text

(* COMMIT at the end of a run: status and text key become visible and the   *)
(* row lock is free again.                                                  *)
Settle(w, status) ==
  LET d == run[w].doc IN
  /\ row' = [row EXCEPT ![d].status = status, ![d].text = TextAfter(w)]
  /\ lock' = [lock EXCEPT ![d] = None]
  /\ run' = [run EXCEPT ![w] = IdleRun]

(* The chunk rows the run deleted are replaced by those it added.           *)
Replacement(w, vec) ==
  (chunks \ run[w].old)
    \cup {[doc |-> run[w].doc, gen |-> run[w].gen, hash |-> run[w].seen.hash, vec |-> vec]}

-----------------------------------------------------------------------------
(* A delivery starts: docs.get.  A task whose document is gone is done.     *)

start(w) ==
  /\ Stage(w, "idle")
  /\ \E t \in Task :
       /\ queue[t] > 0
       /\ queue' = [queue EXCEPT ![t] = @ - 1]
       /\ run' = IF Live(t.doc)
                 THEN [run EXCEPT ![w] = [IdleRun EXCEPT !.pc = "flush", !.doc = t.doc,
                                            !.retries = t.retries, !.seen = row[t.doc]]]
                 ELSE run
  /\ UNCHANGED <<row, lock, chunks, raw, texts, vectors, req, gen, used>>

(* status = PARSING, flushed: the UPDATE waits for the row lock and keeps   *)
(* it until the transaction ends.                                           *)
flush(w) ==
  LET d == run[w].doc IN
  /\ Stage(w, "flush")
  /\ Free(d)
  /\ Live(d)
  /\ lock' = [lock EXCEPT ![d] = w]
  /\ Advance(w, "parse")
  /\ UNCHANGED <<row, chunks, raw, texts, vectors, queue, req, gen, used>>

(* PARSE reads the object under the storage_key the run loaded.             *)
parse(w) ==
  /\ Stage(w, "parse")
  /\ run[w].seen.hash \in raw
  /\ Advance(w, "metadata")
  /\ UNCHANGED <<row, lock, chunks, raw, texts, vectors, queue, req, gen, used>>

parse_object_missing(w) ==
  /\ Stage(w, "parse")
  /\ run[w].seen.hash \notin raw
  /\ Settle(w, "failed")
  /\ UNCHANGED <<chunks, raw, texts, vectors, queue, req, gen, used>>

extract_metadata(w) ==
  /\ Stage(w, "metadata")
  /\ texts' = texts \cup {run[w].seen.hash}
  /\ Advance(w, "chunk")
  /\ UNCHANGED <<row, lock, chunks, raw, vectors, queue, req, gen, used>>

(* Mutant: chunk rows are added and none is deleted.                        *)
chunk_added(w) ==
  /\ Stage(w, "chunk")
  /\ gen' = gen + 1
  /\ run' = [run EXCEPT ![w].pc = "index", ![w].gen = gen + 1]
  /\ UNCHANGED <<row, lock, chunks, raw, texts, vectors, queue, req, used>>

(* chunk_document deletes the chunk rows it can see and adds its own.       *)
chunk(w) ==
  /\ Stage(w, "chunk")
  /\ gen' = gen + 1
  /\ run' = [run EXCEPT ![w].pc = "index",
                        ![w].gen = gen + 1,
                        ![w].old = GenerationsOf(run[w].doc)]
  /\ UNCHANGED <<row, lock, chunks, raw, texts, vectors, queue, req, used>>

(* embed_and_index upserts one point, under a new id, per chunk to embed.   *)
index(w) ==
  /\ Stage(w, "index")
  /\ vectors' = IF run[w].seen.hash \in Blank
                THEN vectors
                ELSE vectors \cup {[doc |-> run[w].doc, gen |-> run[w].gen]}
  /\ Advance(w, "commit")
  /\ UNCHANGED <<row, lock, chunks, raw, texts, queue, req, gen, used>>

commit(w) ==
  /\ Stage(w, "commit")
  /\ Settle(w, "indexed")
  /\ chunks' = Replacement(w, run[w].seen.hash \notin Blank)
  /\ UNCHANGED <<raw, texts, vectors, queue, req, gen, used>>

-----------------------------------------------------------------------------
(* A stage raises: FAILED is committed together with whatever the stages    *)
(* before it flushed, chunk rows included.                                  *)

Fail(w) ==
  /\ used.failures < MaxFailures
  /\ used' = [used EXCEPT !.failures = @ + 1]
  /\ Settle(w, "failed")

stage_failed(w) ==
  /\ run[w].pc \in {"parse", "metadata", "chunk"}
  /\ Fail(w)
  /\ UNCHANGED <<chunks, raw, texts, vectors, queue, req, gen>>

(* INDEX fails while embedding (no vector_id yet) or in the upsert (every   *)
(* row has its vector_id, whether or not the store took the points).        *)
index_failed(w) ==
  /\ Stage(w, "index")
  /\ Fail(w)
  /\ \/ /\ chunks' = Replacement(w, FALSE)
        /\ UNCHANGED vectors
     \/ /\ run[w].seen.hash \notin Blank
        /\ chunks' = Replacement(w, TRUE)
        /\ vectors' \in {vectors, vectors \cup {[doc |-> run[w].doc, gen |-> run[w].gen]}}
  /\ UNCHANGED <<raw, texts, queue, req, gen>>

(* Mutant: the session is dropped without being closed.                     *)
Rollback_leaking(w) ==
  /\ run' = [run EXCEPT ![w] = IdleRun]
  /\ UNCHANGED <<row, lock, chunks, raw, texts, vectors, req, gen>>

(* The transaction is rolled back and the run is over.                      *)
Rollback(w) ==
  /\ lock' = [d \in Docs |-> IF lock[d] = w THEN None ELSE lock[d]]
  /\ run' = [run EXCEPT ![w] = IdleRun]
  /\ UNCHANGED <<row, chunks, raw, texts, vectors, req, gen>>

(* An exception leaves the pipeline: the task is retried after a delay, or  *)
(* given up when its retries are used.                                      *)
retry(w) ==
  IF run[w].retries < MaxRetries
  THEN Send([doc |-> run[w].doc, retries |-> run[w].retries + 1])
  ELSE UNCHANGED queue

(* The first flush finds the row deleted: StaleDataError.                   *)
flush_stale_row(w) ==
  /\ Stage(w, "flush")
  /\ Free(run[w].doc)
  /\ ~Live(run[w].doc)
  /\ retry(w)
  /\ Rollback(w)
  /\ UNCHANGED used

(* The database fails the run at one of its flushes or at its commit.       *)
fault(w) ==
  /\ ~Stage(w, "idle")
  /\ used.faults < MaxFaults
  /\ used' = [used EXCEPT !.faults = @ + 1]
  /\ retry(w)
  /\ Rollback(w)

(* Mutant: tasks are acknowledged when they are taken.                      *)
worker_lost_acked(w) ==
  /\ ~Stage(w, "idle")
  /\ used.losses < MaxLosses
  /\ used' = [used EXCEPT !.losses = @ + 1]
  /\ Rollback(w)
  /\ UNCHANGED queue

(* acks_late, reject_on_worker_lost: the broker delivers the task again.    *)
worker_lost(w) ==
  /\ ~Stage(w, "idle")
  /\ used.losses < MaxLosses
  /\ used' = [used EXCEPT !.losses = @ + 1]
  /\ Send(TaskOf(w))
  /\ Rollback(w)

(* visibility_timeout: a task not acknowledged within the hour is delivered *)
(* to a second worker while the first goes on.                              *)
redeliver(w) ==
  /\ ~Stage(w, "idle")
  /\ used.redeliveries < MaxRedeliveries
  /\ used' = [used EXCEPT !.redeliveries = @ + 1]
  /\ Send(TaskOf(w))
  /\ UNCHANGED <<row, lock, chunks, raw, texts, vectors, req, run, gen>>

-----------------------------------------------------------------------------
(* What a worker does with its run.                                         *)
Work(w) ==
  \/ start(w) \/ flush(w) \/ flush_stale_row(w)
  \/ parse(w) \/ parse_object_missing(w) \/ extract_metadata(w)
  \/ chunk(w) \/ index(w) \/ commit(w)

(* What goes wrong with it.                                                 *)
Mishap(w) ==
  \/ stage_failed(w) \/ index_failed(w)
  \/ fault(w) \/ worker_lost(w) \/ redeliver(w)

Pipeline == \E w \in Workers : Work(w) \/ Mishap(w)
=============================================================================
