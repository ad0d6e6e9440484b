------------------------- MODULE DocumentLifecycle -------------------------
(***************************************************************************)
(* The document API and the ingestion workers together, over the shared    *)
(* state: every interleaving of calls, runs, failures and redeliveries.    *)
(***************************************************************************)
EXTENDS DocumentService, IngestionPipeline

Next == Service \/ Pipeline

Spec == Init /\ [][Next]_vars

(* The event loop resumes every call in progress, and a worker takes tasks  *)
(* and carries its run on.  Nothing obliges clients to call, or calls and   *)
(* runs to fail.                                                            *)
Fairness ==
  /\ \A r \in Requests : WF_vars(Handle(r))
  /\ \A w \in Workers : WF_vars(Work(w))

FairSpec == Spec /\ Fairness

-----------------------------------------------------------------------------
(* Safety, whatever clients call and whatever fails.                        *)

(* The row lock of a document is held by exactly the run that is between    *)
(* its first flush and its end, or by the re-upload whose flush is not yet  *)
(* rolled back; so no two runs of a document are ever inside the pipeline.  *)
LockDiscipline ==
  \A d \in Docs :
    /\ \A w \in Workers :
         lock[d] = w <=> run[w].pc \in LockedPc /\ run[w].doc = d
    /\ \A r \in Requests : lock[d] = r <=> req[r].pc = "close" /\ req[r].doc = d

(* A run never brings back, or writes chunk rows for, a document deleted    *)
(* while its task waited or before its first flush.                         *)
NoOrphanChunks == \A c \in chunks : Live(c.doc)

(* Duplicate deliveries and concurrent reindexing leave one generation of   *)
(* chunk rows: chunk_document replaces what is there, it never adds to it.  *)
OneGeneration == \A b, c \in chunks : b.doc = c.doc => b = c

(* A document reported INDEXED has a text artifact recorded and chunk rows  *)
(* that all carry a vector_id (unless there was nothing to embed), whichever*)
(* failed or repeated runs came before.                                     *)
IndexedIsEmbedded ==
  \A d \in Docs : row[d].status = "indexed" =>
    /\ row[d].text # None
    /\ \E c \in chunks : c.doc = d /\ (c.vec \/ c.hash \in Blank)

-----------------------------------------------------------------------------
(* Why these hold: the inductive invariant.  None of the three above is     *)
(* preserved by every step from every state that satisfies it; what calls   *)
(* and runs carry between their steps has to be part of the invariant.      *)

(* A handler past its read has the content it stores and a document that    *)
(* exists or did.                                                           *)
CallsInProgress ==
  \A r \in Requests :
    /\ req[r].pc \in {"put", "add", "putNew", "save", "extractCheck"}
         => req[r].content \in Contents
    /\ req[r].pc \notin {"idle", "put", "add", "extractRead", "extractCheck"}
         => req[r].doc \in Docs /\ row[req[r].doc].status # "unborn"

(* A run knows an existing document; once it holds the row lock, the row is *)
(* live until it ends.                                                      *)
RunsInProgress ==
  \A w \in Workers : run[w].pc # "idle" =>
    LET d == run[w].doc IN
    /\ d \in Docs
    /\ row[d].status # "unborn"
    /\ run[w].seen.hash \in Contents
    /\ Live(d) /\ run[w].seen.text # None => row[d].text # None
    /\ run[w].pc \in LockedPc => Live(d)

RowsAreFilled == \A d \in Docs : Live(d) => row[d].hash \in Contents

(* What a run is about to replace is still all there is, and is older.      *)
RunsReplaceAll ==
  /\ \A c \in chunks : c.gen <= gen
  /\ \A w \in Workers : run[w].pc \in {"index", "commit"} =>
       /\ run[w].gen <= gen
       /\ run[w].old = GenerationsOf(run[w].doc)
       /\ \A c \in run[w].old : c.gen < run[w].gen

(* A task of a live document has been retried once per fault, at most.      *)
RetriesCounted ==
  /\ \A t \in Task : queue[t] > 0 =>
       /\ row[t.doc].status # "unborn"
       /\ Live(t.doc) => t.retries <= used.faults
  /\ \A w \in Workers :
       run[w].pc # "idle" /\ Live(run[w].doc) => run[w].retries <= used.faults

IInv ==
  /\ TypeOK
  /\ CallsInProgress
  /\ RunsInProgress
  /\ RowsAreFilled
  /\ LockDiscipline
  /\ RunsReplaceAll
  /\ RetriesCounted
  /\ NoOrphanChunks
  /\ OneGeneration
  /\ IndexedIsEmbedded

-----------------------------------------------------------------------------
(* With them the system implements the catalogue clients rely on.           *)
Catalog == INSTANCE DocumentCatalog WITH
  status <- [d \in Docs |-> row[d].status],
  served <- [d \in Docs |-> {c.gen : c \in GenerationsOf(d)}]

(* Each step is a catalogue step or changes nothing clients see: chunk rows *)
(* are replaced whole and only by those of a later run, with the status.    *)
ImplementsCatalog == Catalog!CatalogSpec

-----------------------------------------------------------------------------
(* Nothing is forgotten.                                                    *)

(* Someone will still bring document d out of UPLOADED: a task in the       *)
(* broker, a run in progress, or a call that has yet to send its task.      *)
Owned(d) ==
  \/ \E t \in Task : t.doc = d /\ queue[t] > 0
  \/ \E w \in Workers : run[w].pc # "idle" /\ run[w].doc = d
  \/ \E r \in Requests : req[r].doc = d /\ req[r].pc \in {"dropOld", "dropStale", "enqueue"}

(* If calls are not cut short and a task meets no more faults than it has   *)
(* retries, an UPLOADED document always has someone to ingest it, across    *)
(* lost workers, redeliveries, retries and failed stages.                   *)
UploadedIsOwned == \A d \in Docs : row[d].status = "uploaded" => Owned(d)

(* Under the same bounds every document ends up INDEXED or FAILED.          *)
EventuallySettled == <>[](\A d \in Docs : row[d].status # "uploaded")

-----------------------------------------------------------------------------
(* Agreement of the stores.                                                 *)

(* Between calls.                                                           *)
Idle == \A r \in Requests : req[r].pc = "idle"

(* When documents are not edited, an INDEXED document can be searched: its  *)
(* chunk rows were cut from its content and their points are in the vector  *)
(* store, despite failed stages, lost workers and concurrent runs.          *)
IndexedIsSearchable ==
  Idle => \A d \in Docs : row[d].status = "indexed" =>
    \E c \in chunks :
      /\ c.doc = d
      /\ c.hash = row[d].hash
      /\ c.hash \notin Blank => [doc |-> d, gen |-> c.gen] \in vectors

(* Every document has its raw object, and the text artifact it names.  With *)
(* edits or concurrent uploads it fails: see NoTwins.                       *)

ObjectsKept ==
  Idle => \A d \in Docs : Live(d) =>
    row[d].hash \in raw /\ row[d].text \in texts \cup {None}

(* One document per content: what makes it safe to delete a document's      *)
(* content-addressed objects without counting who else uses them.           *)
NoTwins == \A d, e \in Docs : Live(d) /\ Live(e) /\ row[d].hash = row[e].hash => d = e

-----------------------------------------------------------------------------
(* What the documentation says of the program.                              *)

Quiet ==
  /\ Idle
  /\ \A w \in Workers : run[w].pc = "idle"
  /\ \A t \in Task : queue[t] = 0

(* "Celery tasks are idempotent": once all is done, a document has the      *)
(* points of one run, however often its task ran.                           *)
TaskIsIdempotent == Quiet => \A p, q \in vectors : p.doc = q.doc => p = q

(* "store new bytes, drop stale vectors, and re-run ingestion": once all is *)
(* done and no stage failed, a document is INDEXED from its own content.    *)
EditIsServed ==
  Quiet => \A d \in Docs : Live(d) =>
    /\ row[d].status = "indexed"
    /\ \E c \in chunks : c.doc = d /\ c.hash = row[d].hash

(* "Best-effort cleanup ..., then re-ingest": a call that has committed an  *)
(* edit goes on to send its task even if the cleanup fails.                 *)
CleanupIsBestEffort ==
  [][\A r \in Requests :
       req[r].pc \in {"dropOld", "dropStale"} => req'[r].pc # "idle"]_vars

(* "commit on success": the status a successful re-upload has set is the    *)
(* committed one when the call ends, unless a run has settled it since.     *)
ReuploadIsCommitted ==
  [][\A r \in Requests :
       req[r].pc = "close" => row'[req[r].doc].status # "failed"]_vars
=============================================================================
