-------------------------- MODULE DocumentService --------------------------
(***************************************************************************)
(* The document API: upload, reindex, update_content, extract_to_markdown  *)
(* and delete, as the request handlers of one organisation run them.       *)
(*                                                                         *)
(* A handler is cut where it awaits the database or object storage; what   *)
(* it read before the cut (`seen`) is what it uses after it.  An UPDATE    *)
(* writes only the columns whose value differs from the one loaded (the    *)
(* unit of work of the ORM) and waits for the row lock.  The handlers that *)
(* only read (get, list, status, get_content, read_bytes) and the answers  *)
(* that change nothing (404, not editable, unchanged content, duplicate)   *)
(* are stuttering steps.                                                   *)
(***************************************************************************)
EXTENDS DocumentState

CONSTANTS
  Ops,              \* the operations clients call
  MaxCalls,         \* bound: API calls
  MaxAborts         \* bound: calls cut short by an exception or a crash

ASSUME ServiceAssumption ==
  /\ Ops \subseteq {"upload", "reindex", "update", "extract", "delete"}
  /\ MaxCalls \in Nat
  /\ MaxAborts \in Nat

(* A call starts on an idle handler.                                        *)
Begin(r, op, to) ==
  /\ op \in Ops
  /\ req[r].pc = "idle"
  /\ used.calls < MaxCalls
  /\ used' = [used EXCEPT !.calls = @ + 1]
  /\ req' = [req EXCEPT ![r] = to]

At(r, pc) == req[r].pc = pc

Goto(r, pc) == req' = [req EXCEPT ![r].pc = pc]

Return(r) == req' = [req EXCEPT ![r] = IdleReq]

(* self._docs.get followed by the tenant check.                             *)
Loaded(pc, d, c) == [pc |-> pc, doc |-> d, content |-> c, seen |-> row[d]]

(* Mutant: only finished documents count as duplicates.                     *)
find_indexed_duplicate(c) == {d \in Docs : row[d].status = "indexed" /\ row[d].hash = c}

(* find_duplicate: the committed rows with this content hash.               *)
find_duplicate(c) == {d \in Docs : Live(d) /\ row[d].hash = c}

-----------------------------------------------------------------------------
(* upload                                                                   *)

upload(r, c) ==
  /\ find_duplicate(c) = {}
  /\ Begin(r, "upload", [pc |-> "put", doc |-> None, content |-> c, seen |-> NoRow])
  /\ UNCHANGED <<row, lock, chunks, raw, texts, vectors, queue, run, gen>>

(* The upload finds a FAILED duplicate and sets it back to UPLOADED.        *)
upload_failed_duplicate(r, c) ==
  /\ \E d \in find_duplicate(c) :
       /\ row[d].status = "failed"
       /\ Begin(r, "upload", Loaded("retry", d, None))
  /\ UNCHANGED <<row, lock, chunks, raw, texts, vectors, queue, run, gen>>

(* The flush takes the row lock, the task is sent, and the call answers.    *)
retry_flush(r) ==
  LET d == req[r].doc IN
  /\ At(r, "retry")
  /\ Free(d)
  /\ Live(d)
  /\ lock' = [lock EXCEPT ![d] = r]
  /\ enqueue_ingestion(d)
  /\ Goto(r, "close")
  /\ UNCHANGED <<row, chunks, raw, texts, vectors, run, gen, used>>

(* Nothing committed the flush: closing the session rolls it back.          *)
retry_close(r) ==
  /\ At(r, "close")
  /\ lock' = [lock EXCEPT ![req[r].doc] = None]
  /\ Return(r)
  /\ UNCHANGED <<row, chunks, raw, texts, vectors, queue, run, gen, used>>

put_object(r) ==
  /\ At(r, "put")
  /\ raw' = raw \cup {req[r].content}
  /\ Goto(r, "add")
  /\ UNCHANGED <<row, lock, chunks, texts, vectors, queue, run, gen, used>>

(* INSERT and COMMIT of the new document.                                   *)
add(r) ==
  /\ At(r, "add")
  /\ \E d \in Docs :
       /\ row[d].status = "unborn"
       /\ row' = [row EXCEPT ![d] = [status |-> "uploaded",
                                     hash   |-> req[r].content,
                                     text   |-> None]]
       /\ req' = [req EXCEPT ![r].pc = "enqueue", ![r].doc = d]
  /\ UNCHANGED <<lock, chunks, raw, texts, vectors, queue, run, gen, used>>

enqueue(r) ==
  /\ At(r, "enqueue")
  /\ enqueue_ingestion(req[r].doc)
  /\ Return(r)
  /\ UNCHANGED <<row, lock, chunks, raw, texts, vectors, run, gen, used>>

-----------------------------------------------------------------------------
(* extract_to_markdown: read the text artifact of a document, and store it  *)
(* as a new document unless one with that content exists.                   *)

extract(r, d) ==
  /\ Live(d)
  /\ row[d].text # None
  /\ Begin(r, "extract", Loaded("extractRead", d, None))
  /\ UNCHANGED <<row, lock, chunks, raw, texts, vectors, queue, run, gen>>

extract_read(r) ==
  LET key == req[r].seen.text IN
  /\ At(r, "extractRead")
  /\ IF key \in texts
     THEN req' = [req EXCEPT ![r].pc = "extractCheck", ![r].content = TextOf[key]]
     ELSE Return(r)
  /\ UNCHANGED <<row, lock, chunks, raw, texts, vectors, queue, run, gen, used>>

(* Mutant: extraction stores its text without looking for a duplicate.      *)
extract_always(r) ==
  /\ At(r, "extractCheck")
  /\ Goto(r, "put")
  /\ UNCHANGED <<row, lock, chunks, raw, texts, vectors, queue, run, gen, used>>

extract_check(r) ==
  /\ At(r, "extractCheck")
  /\ IF find_duplicate(req[r].content) = {}
     THEN req' = [req EXCEPT ![r] = [pc |-> "put", doc |-> None,
                                     content |-> req[r].content, seen |-> NoRow]]
     ELSE Return(r)
  /\ UNCHANGED <<row, lock, chunks, raw, texts, vectors, queue, run, gen, used>>

-----------------------------------------------------------------------------
(* reindex: UPLOADED again, then a new task.  A row loaded as UPLOADED has  *)
(* no changed column, so no UPDATE is sent for it.                          *)

reindex(r, d) ==
  /\ Live(d)
  /\ Begin(r, "reindex", Loaded("reindex", d, None))
  /\ UNCHANGED <<row, lock, chunks, raw, texts, vectors, queue, run, gen>>

(* Mutants: reindexing merges the row it loaded back in, deleted or not;    *)
(* answers without sending a task; or drops the points as an edit does.     *)
reindex_merge(r) ==
  /\ At(r, "reindex")
  /\ Free(req[r].doc)
  /\ row' = [row EXCEPT ![req[r].doc].status = "uploaded"]
  /\ Goto(r, "enqueue")
  /\ UNCHANGED <<lock, chunks, raw, texts, vectors, queue, run, gen, used>>

reindex_unsent(r) ==
  /\ At(r, "reindex")
  /\ Free(req[r].doc)
  /\ Live(req[r].doc)
  /\ row' = [row EXCEPT ![req[r].doc].status = "uploaded"]
  /\ Return(r)
  /\ UNCHANGED <<lock, chunks, raw, texts, vectors, queue, run, gen, used>>

reindex_dropping_points(r) ==
  LET d == req[r].doc IN
  /\ At(r, "reindex")
  /\ IF req[r].seen.status = "uploaded"
     THEN UNCHANGED row
     ELSE /\ Free(d)
          /\ Live(d)
          /\ row' = [row EXCEPT ![d].status = "uploaded"]
  /\ vectors' = vectors \ PointsOf(d)
  /\ Goto(r, "enqueue")
  /\ UNCHANGED <<lock, chunks, raw, texts, queue, run, gen, used>>

reindex_commit(r) ==
  LET d == req[r].doc IN
  /\ At(r, "reindex")
  /\ IF req[r].seen.status = "uploaded"
     THEN UNCHANGED row
     ELSE /\ Free(d)
          /\ Live(d)
          /\ row' = [row EXCEPT ![d].status = "uploaded"]
  /\ Goto(r, "enqueue")
  /\ UNCHANGED <<lock, chunks, raw, texts, vectors, queue, run, gen, used>>

-----------------------------------------------------------------------------
(* update_content: store the new bytes, commit the row, drop the old object *)
(* and the document's points, then send a task.                             *)

update_content(r, d, c) ==
  /\ Live(d)
  /\ row[d].hash \notin Binary
  /\ c \notin Binary
  /\ c # row[d].hash
  /\ Begin(r, "update", Loaded("putNew", d, c))
  /\ UNCHANGED <<row, lock, chunks, raw, texts, vectors, queue, run, gen>>

update_put(r) ==
  /\ At(r, "putNew")
  /\ raw' = raw \cup {req[r].content}
  /\ Goto(r, "save")
  /\ UNCHANGED <<row, lock, chunks, texts, vectors, queue, run, gen, used>>

(* The status column is written only if it was not UPLOADED when loaded.    *)
update_save(r) ==
  LET d == req[r].doc IN
  /\ At(r, "save")
  /\ Free(d)
  /\ Live(d)
  /\ row' = [row EXCEPT
               ![d].hash = req[r].content,
               ![d].status = IF req[r].seen.status = "uploaded" THEN @ ELSE "uploaded"]
  /\ Goto(r, "dropOld")
  /\ UNCHANGED <<lock, chunks, raw, texts, vectors, queue, run, gen, used>>

update_drop_object(r) ==
  /\ At(r, "dropOld")
  /\ raw' = raw \ {req[r].seen.hash}
  /\ Goto(r, "dropStale")
  /\ UNCHANGED <<row, lock, chunks, texts, vectors, queue, run, gen, used>>

update_drop_vectors(r) ==
  /\ At(r, "dropStale")
  /\ vectors' = vectors \ PointsOf(req[r].doc)
  /\ Goto(r, "enqueue")
  /\ UNCHANGED <<row, lock, chunks, raw, texts, queue, run, gen, used>>

-----------------------------------------------------------------------------
(* delete: points, raw object and text artifact go one by one, then the row *)
(* with its chunk rows.  A row that is gone already is not an error.        *)

delete(r, d) ==
  /\ Live(d)
  /\ Begin(r, "delete", Loaded("purgeVectors", d, None))
  /\ UNCHANGED <<row, lock, chunks, raw, texts, vectors, queue, run, gen>>

delete_vectors(r) ==
  /\ At(r, "purgeVectors")
  /\ vectors' = vectors \ PointsOf(req[r].doc)
  /\ Goto(r, "purgeRaw")
  /\ UNCHANGED <<row, lock, chunks, raw, texts, queue, run, gen, used>>

delete_raw(r) ==
  /\ At(r, "purgeRaw")
  /\ raw' = raw \ {req[r].seen.hash}
  /\ Goto(r, IF req[r].seen.text = None THEN "remove" ELSE "purgeText")
  /\ UNCHANGED <<row, lock, chunks, texts, vectors, queue, run, gen, used>>

delete_text(r) ==
  /\ At(r, "purgeText")
  /\ texts' = texts \ {req[r].seen.text}
  /\ Goto(r, "remove")
  /\ UNCHANGED <<row, lock, chunks, raw, vectors, queue, run, gen, used>>

(* Mutant: the foreign key of the chunk rows does not cascade.              *)
delete_row_only(r) ==
  LET d == req[r].doc IN
  /\ At(r, "remove")
  /\ Free(d)
  /\ row' = [row EXCEPT ![d] = [status |-> "deleted", hash |-> None, text |-> None]]
  /\ Return(r)
  /\ UNCHANGED <<lock, chunks, raw, texts, vectors, queue, run, gen, used>>

delete_row(r) ==
  LET d == req[r].doc IN
  /\ At(r, "remove")
  /\ Free(d)
  /\ row' = [row EXCEPT ![d] = [status |-> "deleted", hash |-> None, text |-> None]]
  /\ chunks' = chunks \ GenerationsOf(d)
  /\ Return(r)
  /\ UNCHANGED <<lock, raw, texts, vectors, queue, run, gen, used>>

-----------------------------------------------------------------------------
(* Failures.  An UPDATE of a row that another session deleted raises        *)
(* StaleDataError.  Any await may raise, and the process may die: the       *)
(* session rolls back, which frees the row lock, and the call ends there.   *)
(* Which await raises is free: delete_by_document is one of them, certainly *)
(* so on Qdrant while the organisation has no collection yet.               *)

stale_row(r) ==
  LET d == req[r].doc IN
  /\ \/ req[r].pc \in {"retry", "save"}
     \/ At(r, "reindex") /\ req[r].seen.status # "uploaded"
  /\ Free(d)
  /\ ~Live(d)
  /\ Return(r)
  /\ UNCHANGED <<row, lock, chunks, raw, texts, vectors, queue, run, gen, used>>

abort(r) ==
  /\ ~At(r, "idle")
  /\ used.aborts < MaxAborts
  /\ used' = [used EXCEPT !.aborts = @ + 1]
  /\ lock' = [d \in Docs |-> IF lock[d] = r THEN None ELSE lock[d]]
  /\ Return(r)
  /\ UNCHANGED <<row, chunks, raw, texts, vectors, queue, run, gen>>

-----------------------------------------------------------------------------
Call(r) ==
  \/ \E c \in Contents : upload(r, c) \/ upload_failed_duplicate(r, c)
  \/ \E d \in Docs : extract(r, d) \/ reindex(r, d) \/ delete(r, d)
  \/ \E d \in Docs, c \in Contents : update_content(r, d, c)

(* What the event loop does with a call in progress.                        *)
Handle(r) ==
  \/ retry_flush(r) \/ retry_close(r)
  \/ put_object(r) \/ add(r) \/ enqueue(r)
  \/ extract_read(r) \/ extract_check(r)
  \/ reindex_commit(r)
  \/ update_put(r) \/ update_save(r) \/ update_drop_object(r) \/ update_drop_vectors(r)
  \/ delete_vectors(r) \/ delete_raw(r) \/ delete_text(r) \/ delete_row(r)
  \/ stale_row(r)

Service == \E r \in Requests : Call(r) \/ Handle(r) \/ abort(r)
=============================================================================
