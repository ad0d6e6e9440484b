---------------------- MODULE DocumentLifecycle_proofs ----------------------
(***************************************************************************)
(* Proofs about the document lifecycle, for any number of documents,       *)
(* handlers and workers and any values of the bounds: its safety, then     *)
(* that no document is forgotten, that the stores agree when one client    *)
(* calls at a time, and that it implements the catalogue.                  *)
(***************************************************************************)
EXTENDS DocumentLifecycle, TLAPS

-----------------------------------------------------------------------------
(* Why the stores agree when one client calls at a time, nothing is edited  *)
(* and no call is cut short: what each call, run and row needs of the       *)
(* others.  Documents leave one step of deletion at a time, so each claim   *)
(* about a document lasts until a call that deletes it has passed a point.  *)
OneClient == \A r, s \in Requests : r = s

NoEdits == "update" \notin Ops

Purging == {"purgeVectors", "purgeRaw", "purgeText", "remove"}

Deleting(d, pcs) == \E r \in Requests : req[r].doc = d /\ req[r].pc \in pcs

(* Content on its way into the table is not in it.                          *)
TwinsInv ==
  /\ \A r \in Requests :
       /\ req[r].pc \notin {"putNew", "save", "dropOld", "dropStale"}
       /\ req[r].pc \in {"put", "add"} => find_duplicate(req[r].content) = {}
  /\ NoTwins

(* A call deletes what the row still names.                                 *)
CallsAgree ==
  \A r \in Requests :
    /\ req[r].pc = "add" => req[r].content \in raw
    /\ req[r].pc \in Purging =>
         /\ Live(req[r].doc)
         /\ req[r].seen.hash = row[req[r].doc].hash
         /\ req[r].seen.text \in {None, req[r].seen.hash}

(* A run works on the content of its row and finds what it has stored.      *)
RunAgrees(w) ==
  LET d == run[w].doc
      seen == run[w].seen
  IN
  /\ seen.hash = row[d].hash
  /\ seen.text \in {None, seen.hash}
  /\ run[w].pc \in {"chunk", "index", "commit"} =>
       seen.hash \in texts \/ Deleting(d, {"remove"})
  /\ run[w].pc = "commit" =>
       \/ seen.hash \in Blank
       \/ [doc |-> d, gen |-> run[w].gen] \in vectors
       \/ Deleting(d, {"purgeRaw", "purgeText", "remove"})

RunsAgree == \A w \in Workers : run[w].pc # "idle" /\ Live(run[w].doc) => RunAgrees(w)

(* A row finds its objects, its chunk rows and their points.                *)
Searchable(d) ==
  \E c \in chunks :
    /\ c.doc = d
    /\ c.hash = row[d].hash
    /\ \/ c.hash \in Blank
       \/ [doc |-> d, gen |-> c.gen] \in vectors
       \/ Deleting(d, {"purgeRaw", "purgeText", "remove"})

RowAgrees(d) ==
  /\ row[d].text \in {None, row[d].hash}
  /\ row[d].hash \in raw \/ Deleting(d, {"purgeText", "remove"})
  /\ row[d].text # None => row[d].text \in texts \/ Deleting(d, {"remove"})
  /\ row[d].status = "indexed" => Searchable(d)

StoresInv ==
  /\ CallsAgree
  /\ RunsAgree
  /\ \A d \in Docs : Live(d) => RowAgrees(d)

-----------------------------------------------------------------------------
-----------------------------------------------------------------------------
(* Updates of one entry keep the types of the tables.                       *)

LEMMA GotoType ==
  ASSUME req \in [Requests -> Req], NEW r \in Requests, NEW pc \in ReqPc, Goto(r, pc)
  PROVE  req' \in [Requests -> Req]
  BY DEF Goto, Req

LEMMA ReturnType ==
  ASSUME req \in [Requests -> Req], NEW r \in Requests, Return(r)
  PROVE  req' \in [Requests -> Req]
  BY DEF Return, IdleReq, NoRow, Req, ReqPc, Row

LEMMA SendType ==
  ASSUME queue \in [Task -> Nat], NEW t, Send(t)
  PROVE  queue' \in [Task -> Nat]
<1>1. queue' = [u \in Task |-> IF u = t THEN queue[t] + 1 ELSE queue[u]]
  BY DEF Send
<1>2. \A u \in Task : (IF u = t THEN queue[t] + 1 ELSE queue[u]) \in Nat
  OBVIOUS
<1>3. QED BY <1>1, <1>2

LEMMA AdvanceType ==
  ASSUME run \in [Workers -> Run], NEW w \in Workers, NEW pc \in RunPc, Advance(w, pc)
  PROVE  run' \in [Workers -> Run]
  BY DEF Advance, Run

LEMMA IdleRunType == IdleRun \in Run
  BY StateAssumption DEF IdleRun, Run, RunPc, NoRow, Row

LEMMA BeginType ==
  ASSUME TypeOK, NEW r \in Requests, NEW op, NEW to \in Req, Begin(r, op, to)
  PROVE  req' \in [Requests -> Req] /\ used' \in Counters
  BY DEF TypeOK, Begin, Counters

LEMMA LoadedType ==
  ASSUME TypeOK, NEW pc \in ReqPc, NEW d \in Docs, NEW c \in Contents \cup {None}
  PROVE  Loaded(pc, d, c) \in Req
  BY DEF TypeOK, Loaded, Req

-----------------------------------------------------------------------------
(* Type correctness.                                                        *)

LEMMA CallType ==
  ASSUME TypeOK, NEW r \in Requests, Call(r)
  PROVE  TypeOK'
<1>1. ASSUME NEW c \in Contents, upload(r, c) PROVE TypeOK'
  <2>1. [pc |-> "put", doc |-> None, content |-> c, seen |-> NoRow] \in Req
    BY DEF Req, ReqPc, NoRow, Row
  <2>2. QED BY <1>1, <2>1, BeginType DEF upload, TypeOK
<1>2. ASSUME NEW c \in Contents, upload_failed_duplicate(r, c) PROVE TypeOK'
  <2>1. PICK d \in Docs : Begin(r, "upload", Loaded("retry", d, None))
    BY <1>2 DEF upload_failed_duplicate, find_duplicate
  <2>2. Loaded("retry", d, None) \in Req
    BY LoadedType DEF ReqPc
  <2>3. QED BY <1>2, <2>1, <2>2, BeginType DEF upload_failed_duplicate, TypeOK
<1>3. ASSUME NEW d \in Docs, extract(r, d) PROVE TypeOK'
  <2>1. Loaded("extractRead", d, None) \in Req
    BY LoadedType DEF ReqPc
  <2>2. QED BY <1>3, <2>1, BeginType DEF extract, TypeOK
<1>4. ASSUME NEW d \in Docs, reindex(r, d) PROVE TypeOK'
  <2>1. Loaded("reindex", d, None) \in Req
    BY LoadedType DEF ReqPc
  <2>2. QED BY <1>4, <2>1, BeginType DEF reindex, TypeOK
<1>5. ASSUME NEW d \in Docs, delete(r, d) PROVE TypeOK'
  <2>1. Loaded("purgeVectors", d, None) \in Req
    BY LoadedType DEF ReqPc
  <2>2. QED BY <1>5, <2>1, BeginType DEF delete, TypeOK
<1>6. ASSUME NEW d \in Docs, NEW c \in Contents, update_content(r, d, c) PROVE TypeOK'
  <2>1. Loaded("putNew", d, c) \in Req
    BY LoadedType DEF ReqPc
  <2>2. QED BY <1>6, <2>1, BeginType DEF update_content, TypeOK
<1>7. QED BY <1>1, <1>2, <1>3, <1>4, <1>5, <1>6 DEF Call

LEMMA HandleType ==
  ASSUME TypeOK, CallsInProgress, NEW r \in Requests, Handle(r)
  PROVE  TypeOK'
<1>1. CASE retry_flush(r)
  <2>1. req' \in [Requests -> Req] BY <1>1, GotoType DEF retry_flush, TypeOK, ReqPc
  <2>2. queue' \in [Task -> Nat] BY <1>1, SendType DEF retry_flush, TypeOK, enqueue_ingestion
  <2>3. QED BY <1>1, <2>1, <2>2 DEF retry_flush, TypeOK
<1>2. CASE retry_close(r)
  BY <1>2, ReturnType DEF retry_close, TypeOK
<1>3. CASE put_object(r)
  <2>1. req' \in [Requests -> Req] BY <1>3, GotoType DEF put_object, TypeOK, ReqPc
  <2>2. QED BY <1>3, <2>1 DEF put_object, TypeOK, CallsInProgress, At
<1>4. CASE add(r)
  <2>1. PICK d \in Docs :
          /\ row' = [row EXCEPT ![d] = [status |-> "uploaded", hash |-> req[r].content,
                                        text |-> None]]
          /\ req' = [req EXCEPT ![r].pc = "enqueue", ![r].doc = d]
    BY <1>4 DEF add
  <2>2. req' \in [Requests -> Req]
    <3>1. [req[r] EXCEPT !.pc = "enqueue", !.doc = d] \in Req BY DEF TypeOK, Req, ReqPc
    <3>2. req' = [req EXCEPT ![r] = [req[r] EXCEPT !.pc = "enqueue", !.doc = d]]
      BY <2>1 DEF TypeOK, Req
    <3>3. QED BY <3>1, <3>2 DEF TypeOK
  <2>3. row' \in [Docs -> Row]
    BY <1>4, <2>1 DEF add, At, TypeOK, CallsInProgress, Row, LiveStatuses
  <2>4. QED BY <1>4, <2>2, <2>3 DEF add, TypeOK
<1>5. CASE enqueue(r)
  <2>1. queue' \in [Task -> Nat] BY <1>5, SendType DEF enqueue, TypeOK, enqueue_ingestion
  <2>2. QED BY <1>5, <2>1, ReturnType DEF enqueue, TypeOK
<1>6. CASE extract_read(r)
  <2>1. CASE req[r].seen.text \in texts
    <3>1. TextOf[req[r].seen.text] \in Contents BY <2>1, StateAssumption DEF TypeOK
    <3>2. req' \in [Requests -> Req]
      BY <1>6, <2>1, <3>1 DEF extract_read, TypeOK, Req, ReqPc
    <3>3. QED BY <1>6, <3>2 DEF extract_read, TypeOK
  <2>2. CASE req[r].seen.text \notin texts
    BY <1>6, <2>2, ReturnType DEF extract_read, TypeOK
  <2>3. QED BY <2>1, <2>2
<1>7. CASE extract_check(r)
  <2>1. req' \in [Requests -> Req]
    <3>1. CASE Return(r) BY <3>1, ReturnType DEF TypeOK
    <3>2. CASE ~Return(r)
      BY <1>7, <3>2 DEF extract_check, TypeOK, CallsInProgress, At, Req, ReqPc, NoRow, Row
    <3>3. QED BY <3>1, <3>2
  <2>2. QED BY <1>7, <2>1 DEF extract_check, TypeOK
<1>8. CASE reindex_commit(r)
  <2>1. req' \in [Requests -> Req] BY <1>8, GotoType DEF reindex_commit, TypeOK, ReqPc
  <2>2. row' \in [Docs -> Row]
    <3>1. CASE req[r].seen.status = "uploaded" BY <1>8, <3>1 DEF reindex_commit, TypeOK
    <3>2. CASE req[r].seen.status # "uploaded"
      BY <1>8, <3>2 DEF reindex_commit, TypeOK, Row, LiveStatuses
    <3>3. QED BY <3>1, <3>2
  <2>3. QED BY <1>8, <2>1, <2>2 DEF reindex_commit, TypeOK
<1>9. CASE update_put(r)
  <2>1. req' \in [Requests -> Req] BY <1>9, GotoType DEF update_put, TypeOK, ReqPc
  <2>2. QED BY <1>9, <2>1 DEF update_put, TypeOK, CallsInProgress, At
<1>10. CASE update_save(r)
  <2>1. req' \in [Requests -> Req] BY <1>10, GotoType DEF update_save, TypeOK, ReqPc
  <2>2. req[r].content \in Contents BY <1>10 DEF update_save, At, CallsInProgress
  <2>3. row' \in [Docs -> Row]
    <3> DEFINE new(x) ==
          [x EXCEPT !.hash = req[r].content,
                    !.status = IF req[r].seen.status = "uploaded" THEN @ ELSE "uploaded"]
    <3>1. \A x \in Row : new(x) \in Row BY <2>2 DEF Row, LiveStatuses
    <3>2. row' = [d \in Docs |-> IF d = req[r].doc THEN new(row[d]) ELSE row[d]]
      BY <1>10 DEF update_save, TypeOK, Row
    <3>3. QED BY <3>1, <3>2 DEF TypeOK
  <2>4. QED BY <1>10, <2>1, <2>3 DEF update_save, TypeOK
<1>11. CASE update_drop_object(r)
  BY <1>11, GotoType DEF update_drop_object, TypeOK, ReqPc
<1>12. CASE update_drop_vectors(r)
  BY <1>12, GotoType DEF update_drop_vectors, TypeOK, ReqPc
<1>13. CASE delete_vectors(r)
  BY <1>13, GotoType DEF delete_vectors, TypeOK, ReqPc
<1>14. CASE delete_raw(r)
  BY <1>14, GotoType DEF delete_raw, TypeOK, ReqPc
<1>15. CASE delete_text(r)
  BY <1>15, GotoType DEF delete_text, TypeOK, ReqPc
<1>16. CASE delete_row(r)
  <2>1. row' \in [Docs -> Row] BY <1>16 DEF delete_row, TypeOK, Row
  <2>2. QED BY <1>16, <2>1, ReturnType DEF delete_row, TypeOK
<1>17. CASE stale_row(r)
  BY <1>17, ReturnType DEF stale_row, TypeOK
<1>18. QED
  BY <1>1, <1>2, <1>3, <1>4, <1>5, <1>6, <1>7, <1>8, <1>9, <1>10, <1>11, <1>12, <1>13,
     <1>14, <1>15, <1>16, <1>17 DEF Handle

LEMMA AbortType ==
  ASSUME TypeOK, NEW r \in Requests, abort(r)
  PROVE  TypeOK'
<1>1. used' \in Counters BY DEF abort, TypeOK, Counters
<1>2. QED BY <1>1, ReturnType DEF abort, TypeOK

LEMMA RunTypes ==
  ASSUME TypeOK, RunsInProgress, NEW w \in Workers, run[w].pc # "idle"
  PROVE  /\ run[w].doc \in Docs
         /\ run[w].seen.hash \in Contents
         /\ run[w].gen \in Nat
         /\ TaskOf(w) \in Task
  BY DEF TypeOK, RunsInProgress, Run, TaskOf, Task

LEMMA SettleType ==
  ASSUME TypeOK, RunsInProgress, NEW w \in Workers, run[w].pc # "idle",
         NEW s \in LiveStatuses, Settle(w, s)
  PROVE  /\ row' \in [Docs -> Row]
         /\ lock' \in [Docs -> Workers \cup Requests \cup {None}]
         /\ run' \in [Workers -> Run]
<1>1. run[w].doc \in Docs /\ run[w].seen.hash \in Contents BY RunTypes
<1>2. TextAfter(w) \in Contents \cup {None} BY <1>1 DEF TextAfter, TypeOK, Row
<1>3. row' \in [Docs -> Row]
  <2> DEFINE new(x) == [x EXCEPT !.status = s, !.text = TextAfter(w)]
  <2>1. \A x \in Row : new(x) \in Row BY <1>2 DEF Row
  <2>2. row' = [d \in Docs |-> IF d = run[w].doc THEN new(row[d]) ELSE row[d]]
    BY DEF Settle, TypeOK, Row
  <2>3. QED BY <2>1, <2>2 DEF TypeOK
<1>4. run' \in [Workers -> Run] BY IdleRunType DEF Settle, TypeOK
<1>5. QED BY <1>3, <1>4 DEF Settle, TypeOK

LEMMA ReplacementType ==
  ASSUME TypeOK, RunsInProgress, NEW w \in Workers, run[w].pc # "idle", NEW v \in BOOLEAN
  PROVE  Replacement(w, v) \subseteq Generation
  BY RunTypes DEF Replacement, TypeOK, Generation

LEMMA RollbackType ==
  ASSUME TypeOK, NEW w \in Workers, Rollback(w)
  PROVE  /\ lock' \in [Docs -> Workers \cup Requests \cup {None}]
         /\ run' \in [Workers -> Run]
  BY IdleRunType DEF Rollback, TypeOK

LEMMA RetryType ==
  ASSUME TypeOK, NEW w \in Workers, retry(w)
  PROVE  queue' \in [Task -> Nat]
<1>1. CASE Send([doc |-> run[w].doc, retries |-> run[w].retries + 1])
  BY <1>1, SendType DEF TypeOK
<1>2. CASE UNCHANGED queue BY <1>2 DEF TypeOK
<1>3. QED BY <1>1, <1>2 DEF retry

LEMMA WorkType ==
  ASSUME TypeOK, RunsInProgress, NEW w \in Workers, Work(w)
  PROVE  TypeOK'
<1>1. CASE start(w)
  <2>1. PICK t \in Task :
          /\ queue[t] > 0
          /\ queue' = [queue EXCEPT ![t] = @ - 1]
          /\ run' = IF Live(t.doc)
                    THEN [run EXCEPT ![w] = [IdleRun EXCEPT !.pc = "flush", !.doc = t.doc,
                                               !.retries = t.retries, !.seen = row[t.doc]]]
                    ELSE run
    BY <1>1 DEF start
  <2>2. queue' \in [Task -> Nat] BY <2>1 DEF TypeOK
  <2>3. t.doc \in Docs /\ t.retries \in 0 .. MaxRetries BY DEF Task
  <2>4. [IdleRun EXCEPT !.pc = "flush", !.doc = t.doc, !.retries = t.retries,
                        !.seen = row[t.doc]] \in Run
    BY <2>3, IdleRunType DEF TypeOK, Run, RunPc
  <2>5. run' \in [Workers -> Run] BY <2>1, <2>4 DEF TypeOK
  <2>6. QED BY <1>1, <2>2, <2>5 DEF start, TypeOK
<1>2. CASE flush(w)
  BY <1>2, AdvanceType DEF flush, TypeOK, RunPc, LockedPc
<1>3. CASE flush_stale_row(w)
  BY <1>3, RollbackType, RetryType DEF flush_stale_row, Rollback, TypeOK
<1>4. CASE parse(w)
  BY <1>4, AdvanceType DEF parse, TypeOK, RunPc, LockedPc
<1>5. CASE parse_object_missing(w)
  BY <1>5, SettleType DEF parse_object_missing, Stage, LiveStatuses, TypeOK
<1>6. CASE extract_metadata(w)
  <2>1. run' \in [Workers -> Run]
    BY <1>6, AdvanceType DEF extract_metadata, TypeOK, RunPc, LockedPc
  <2>2. texts' \subseteq Contents BY <1>6, RunTypes DEF extract_metadata, Stage, TypeOK
  <2>3. QED BY <1>6, <2>1, <2>2 DEF extract_metadata, TypeOK
<1>7. CASE chunk(w)
  <2>1. GenerationsOf(run[w].doc) \subseteq Generation BY DEF GenerationsOf, TypeOK
  <2>2. run' \in [Workers -> Run]
    <3> DEFINE new == [run[w] EXCEPT !.pc = "index", !.gen = gen + 1,
                                     !.old = GenerationsOf(run[w].doc)]
    <3>1. \A x \in Run, g \in Nat, old \in SUBSET Generation :
            [x EXCEPT !.pc = "index", !.gen = g, !.old = old] \in Run
      BY DEF Run, RunPc, LockedPc
    <3>2. run[w] \in Run /\ gen + 1 \in Nat /\ GenerationsOf(run[w].doc) \in SUBSET Generation
      BY <2>1 DEF TypeOK
    <3>3. new \in Run BY <3>1, <3>2
    <3>4. run' = [run EXCEPT ![w] = new] BY <1>7 DEF chunk, TypeOK, Run
    <3>5. QED BY <3>3, <3>4 DEF TypeOK
  <2>3. QED BY <1>7, <2>2 DEF chunk, TypeOK
<1>8. CASE index(w)
  <2>1. run' \in [Workers -> Run] BY <1>8, AdvanceType DEF index, TypeOK, RunPc, LockedPc
  <2>2. [doc |-> run[w].doc, gen |-> run[w].gen] \in Point
    BY <1>8, RunTypes DEF index, Stage, Point
  <2>3. vectors' \subseteq Point BY <1>8, <2>2 DEF index, TypeOK
  <2>4. QED BY <1>8, <2>1, <2>3 DEF index, TypeOK
<1>9. CASE commit(w)
  <2>1. chunks' \subseteq Generation BY <1>9, ReplacementType DEF commit, Stage
  <2>2. QED BY <1>9, <2>1, SettleType DEF commit, Stage, LiveStatuses, TypeOK
<1>10. QED
  BY <1>1, <1>2, <1>3, <1>4, <1>5, <1>6, <1>7, <1>8, <1>9 DEF Work

LEMMA MishapType ==
  ASSUME TypeOK, RunsInProgress, NEW w \in Workers, Mishap(w)
  PROVE  TypeOK'
<1>1. CASE stage_failed(w)
  BY <1>1, SettleType DEF stage_failed, Fail, LiveStatuses, TypeOK, Counters
<1>2. CASE index_failed(w)
  <2>1. [doc |-> run[w].doc, gen |-> run[w].gen] \in Point
    BY <1>2, RunTypes DEF index_failed, Stage, Point
  <2>2. chunks' \subseteq Generation BY <1>2, ReplacementType DEF index_failed, Stage
  <2>3. vectors' \subseteq Point BY <1>2, <2>1 DEF index_failed, TypeOK
  <2>4. used' \in Counters BY <1>2 DEF index_failed, Fail, TypeOK, Counters
  <2>5. QED
    BY <1>2, <2>2, <2>3, <2>4, SettleType DEF index_failed, Stage, Fail, LiveStatuses, TypeOK
<1>3. CASE fault(w)
  <2>1. used' \in Counters BY <1>3 DEF fault, TypeOK, Counters
  <2>2. QED BY <1>3, <2>1, RollbackType, RetryType DEF fault, Rollback, TypeOK
<1>4. CASE worker_lost(w)
  <2>1. used' \in Counters BY <1>4 DEF worker_lost, TypeOK, Counters
  <2>2. queue' \in [Task -> Nat] BY <1>4, SendType DEF worker_lost, TypeOK
  <2>3. QED BY <1>4, <2>1, <2>2, RollbackType DEF worker_lost, Rollback, TypeOK
<1>5. CASE redeliver(w)
  <2>1. used' \in Counters BY <1>5 DEF redeliver, TypeOK, Counters
  <2>2. queue' \in [Task -> Nat] BY <1>5, SendType DEF redeliver, TypeOK
  <2>3. QED BY <1>5, <2>1, <2>2 DEF redeliver, TypeOK
<1>6. QED
  BY <1>1, <1>2, <1>3, <1>4, <1>5 DEF Mishap

-----------------------------------------------------------------------------
(* What a step of the API does to the tables, in the terms the invariants   *)
(* need: a row is created, rewritten while nobody holds its lock, or        *)
(* deleted together with its chunk rows while nobody holds its lock.        *)

Created(d) ==
  /\ row[d].status = "unborn"
  /\ row'[d].status = "uploaded"
  /\ row'[d].hash \in Contents

Rewritten(d) ==
  /\ Free(d)
  /\ Live(d)
  /\ row'[d].status \in {"uploaded", row[d].status}
  /\ row'[d].hash \in Contents
  /\ row'[d].text = row[d].text

Deleted(d) ==
  /\ Free(d)
  /\ row'[d].status = "deleted"
  /\ chunks' = chunks \ GenerationsOf(d)

RowStep(d) == row'[d] = row[d] \/ Created(d) \/ Rewritten(d) \/ Deleted(d)

ApiStep ==
  /\ \A d \in Docs : RowStep(d)
  /\ chunks' = chunks \/ \E d \in Docs : Deleted(d)
  /\ run' = run /\ gen' = gen
  /\ \A d \in Docs, w \in Workers : lock'[d] = w <=> lock[d] = w

LEMMA CallIsApiStep ==
  ASSUME NEW r \in Requests, Call(r)
  PROVE  ApiStep
  BY DEF Call, upload, upload_failed_duplicate, extract, reindex, delete, update_content,
         ApiStep, RowStep

LEMMA HandleIsApiStep ==
  ASSUME TypeOK, CallsInProgress, RowsAreFilled, LockDiscipline,
         NEW r \in Requests, Handle(r)
  PROVE  ApiStep
<1>0. \A w \in Workers : w # r /\ w # None
  BY StateAssumption
<1> USE DEF ApiStep, RowStep
<1>1. CASE retry_flush(r)
  BY <1>0, <1>1 DEF retry_flush, TypeOK, Free
<1>2. CASE retry_close(r)
  <2>1. req[r].doc \in Docs /\ lock[req[r].doc] = r
    BY <1>2 DEF retry_close, At, CallsInProgress, LockDiscipline
  <2>2. QED BY <1>0, <1>2, <2>1 DEF retry_close, TypeOK
<1>3. CASE add(r)
  <2>1. PICK d \in Docs :
          /\ row[d].status = "unborn"
          /\ row' = [row EXCEPT ![d] = [status |-> "uploaded", hash |-> req[r].content,
                                        text |-> None]]
    BY <1>3 DEF add
  <2>2. req[r].content \in Contents BY <1>3 DEF add, At, CallsInProgress
  <2>3. Created(d) BY <2>1, <2>2 DEF Created, TypeOK
  <2>4. \A e \in Docs : e # d => row'[e] = row[e] BY <2>1 DEF TypeOK
  <2>5. QED BY <1>3, <2>3, <2>4 DEF add
<1>4. CASE reindex_commit(r)
  <2>1. CASE row' = row BY <1>4, <2>1 DEF reindex_commit
  <2>2. CASE row' # row
    <3>1. Rewritten(req[r].doc)
      BY <1>4, <2>2 DEF reindex_commit, At, Rewritten, TypeOK, CallsInProgress, RowsAreFilled, Row
    <3>2. \A e \in Docs : e # req[r].doc => row'[e] = row[e]
      BY <1>4, <2>2 DEF reindex_commit, TypeOK
    <3>3. QED BY <1>4, <3>1, <3>2 DEF reindex_commit
  <2>3. QED BY <2>1, <2>2
<1>5. CASE update_save(r)
  <2>1. req[r].content \in Contents /\ req[r].doc \in Docs
    BY <1>5 DEF update_save, At, CallsInProgress
  <2>2. Rewritten(req[r].doc)
    BY <1>5, <2>1 DEF update_save, Rewritten, TypeOK, Row
  <2>3. \A e \in Docs : e # req[r].doc => row'[e] = row[e]
    BY <1>5 DEF update_save, TypeOK
  <2>4. QED BY <1>5, <2>2, <2>3 DEF update_save
<1>6. CASE delete_row(r)
  <2>1. req[r].doc \in Docs
    BY <1>6 DEF delete_row, At, CallsInProgress
  <2>2. Deleted(req[r].doc)
    BY <1>6, <2>1 DEF delete_row, Deleted, TypeOK
  <2>3. \A e \in Docs : e # req[r].doc => row'[e] = row[e]
    BY <1>6 DEF delete_row, TypeOK
  <2>4. QED BY <1>6, <2>1, <2>2, <2>3 DEF delete_row
<1>7. CASE UNCHANGED <<row, lock, chunks, run, gen>>
  BY <1>7
<1>8. QED
  BY <1>1, <1>2, <1>3, <1>4, <1>5, <1>6, <1>7
  DEF Handle, put_object, enqueue, extract_read, extract_check, update_put,
      update_drop_object, update_drop_vectors, delete_vectors, delete_raw, delete_text, stale_row

LEMMA AbortIsApiStep ==
  ASSUME TypeOK, NEW r \in Requests, abort(r)
  PROVE  ApiStep
<1>1. \A w \in Workers : w # r /\ w # None
  BY StateAssumption
<1>2. QED BY <1>1 DEF abort, ApiStep, RowStep, TypeOK

LEMMA ServiceIsApiStep ==
  ASSUME TypeOK, CallsInProgress, RowsAreFilled, LockDiscipline, Service
  PROVE  ApiStep
  BY CallIsApiStep, HandleIsApiStep, AbortIsApiStep DEF Service

(* What the end of a run does to the tables.                                *)
LEMMA SettleRow ==
  ASSUME TypeOK, RunsInProgress, NEW w \in Workers, run[w].pc \in LockedPc,
         NEW s \in LiveStatuses, Settle(w, s)
  PROVE  LET d == run[w].doc IN
         /\ d \in Docs /\ Live(d)
         /\ row'[d].status = s
         /\ row'[d].hash = row[d].hash
         /\ row'[d].text = TextAfter(w)
         /\ row[d].text # None => row'[d].text # None
         /\ \A e \in Docs : e # d => row'[e] = row[e]
         /\ run'[w] = IdleRun
         /\ \A v \in Workers : v # w => run'[v] = run[v]
<1>1. /\ run[w].doc \in Docs
      /\ run[w].seen.hash \in Contents
      /\ Live(run[w].doc)
  BY DEF RunsInProgress, LockedPc
<1>2. /\ row'[run[w].doc] = [row[run[w].doc] EXCEPT !.status = s, !.text = TextAfter(w)]
      /\ \A e \in Docs : e # run[w].doc => row'[e] = row[e]
  BY <1>1 DEF Settle, TypeOK, Row
<1>3. /\ run'[w] = IdleRun
      /\ \A v \in Workers : v # w => run'[v] = run[v]
  BY DEF Settle, TypeOK
<1>4. row[run[w].doc].text # None => TextAfter(w) # None
  BY <1>1, StateAssumption DEF TextAfter
<1>5. row[run[w].doc] \in Row BY <1>1 DEF TypeOK
<1>6. /\ row'[run[w].doc].status = s
      /\ row'[run[w].doc].hash = row[run[w].doc].hash
      /\ row'[run[w].doc].text = TextAfter(w)
  BY <1>2, <1>5 DEF Row
<1>7. QED BY <1>1, <1>2, <1>3, <1>4, <1>6

(* A step of a worker either ends a run, or leaves the committed rows alone.*)
Ends(w, s) ==
  /\ run[w].pc \in LockedPc
  /\ Settle(w, s)
  /\ gen' = gen
  /\ \/ s = "failed" /\ chunks' = chunks
     \/ /\ run[w].pc \in {"index", "commit"}
        /\ \E v \in BOOLEAN :
             /\ chunks' = Replacement(w, v)
             /\ s = "indexed" => v \/ run[w].seen.hash \in Blank

LEMMA PipelineFates ==
  ASSUME NEW w \in Workers, Work(w) \/ Mishap(w)
  PROVE  \/ commit(w)
         \/ Ends(w, "failed")
         \/ UNCHANGED <<row, chunks>>
<1>1. CASE index_failed(w) BY <1>1 DEF index_failed, Stage, LockedPc, Ends, Fail
<1>2. CASE stage_failed(w) BY <1>2 DEF stage_failed, LockedPc, Ends, Fail
<1>3. CASE parse_object_missing(w)
  BY <1>3 DEF parse_object_missing, Stage, LockedPc, Ends
<1>4. QED
  BY <1>1, <1>2, <1>3
  DEF Work, Mishap, start, flush, flush_stale_row, parse, extract_metadata, chunk, index,
      fault, worker_lost, redeliver, Rollback

LEMMA PipelineCases ==
  ASSUME NEW w \in Workers, Work(w) \/ Mishap(w)
  PROVE  \/ Ends(w, "indexed")
         \/ Ends(w, "failed")
         \/ UNCHANGED <<row, chunks>>
<1>1. CASE commit(w) BY <1>1 DEF commit, Stage, LockedPc, Ends
<1>2. QED BY <1>1, PipelineFates

-----------------------------------------------------------------------------
(* Each conjunct of the inductive invariant is preserved by every step.     *)

(* A document that was created stays created: it is rewritten or deleted.   *)
LEMMA RowsStayBorn ==
  ASSUME TypeOK, CallsInProgress, RunsInProgress, RowsAreFilled, LockDiscipline, Next,
         NEW d \in Docs, row[d].status # "unborn"
  PROVE  row'[d].status # "unborn"
<1>1. CASE Service
  BY <1>1, ServiceIsApiStep DEF ApiStep, RowStep, Created, Rewritten, Deleted
<1>2. ASSUME NEW w \in Workers, Work(w) \/ Mishap(w) PROVE row'[d].status # "unborn"
  <2>1. ASSUME NEW s \in LiveStatuses, Ends(w, s) PROVE row'[d].status # "unborn"
    BY <2>1, SettleRow DEF Ends, LiveStatuses
  <2>2. QED BY <1>2, <2>1, PipelineCases DEF LiveStatuses
<1>3. QED BY <1>1, <1>2 DEF Next, Pipeline

LEMMA CallsInProgressStep ==
  ASSUME TypeOK, CallsInProgress, RunsInProgress, RowsAreFilled, LockDiscipline, Next
  PROVE  CallsInProgress'
<1>0. \A d \in Docs : row[d].status # "unborn" => row'[d].status # "unborn"
  BY RowsStayBorn
<1>1. CASE Pipeline
  <2>1. req' = req
    BY <1>1 DEF Pipeline, Work, Mishap, start, flush, flush_stale_row, parse,
       parse_object_missing, extract_metadata, chunk, index, commit, stage_failed,
       index_failed, fault, worker_lost, redeliver, Rollback
  <2>2. QED BY <1>0, <2>1 DEF CallsInProgress
<1>2. ASSUME NEW r \in Requests, Call(r) \/ Handle(r) \/ abort(r)
      PROVE  CallsInProgress'
  <2> DEFINE Fine(x) ==
        /\ x.pc \in {"put", "add", "putNew", "save", "extractCheck"} => x.content \in Contents
        /\ x.pc \notin {"idle", "put", "add", "extractRead", "extractCheck"} 
             => x.doc \in Docs /\ row'[x.doc].status # "unborn"
  <2>1. \A q \in Requests : q # r => req'[q] = req[q]
    BY <1>2 DEF TypeOK, Call, upload, upload_failed_duplicate, extract, reindex, delete,
       update_content, Begin, Handle, abort, retry_flush, retry_close, put_object, add,
       enqueue, extract_read, extract_check, reindex_commit, update_put, update_save,
       update_drop_object, update_drop_vectors, delete_vectors, delete_raw, delete_text,
       delete_row, stale_row, Goto, Return
  <2>2. Fine(req[r]) BY <1>0 DEF CallsInProgress
  <2>3. \A q \in Requests : q # r => Fine(req'[q])
    BY <1>0, <2>1 DEF CallsInProgress
  <2>4. CASE Call(r)
    <3>1. PICK op, x : Begin(r, op, x) /\ Fine(x)
      <4>1. ASSUME NEW c \in Contents, upload(r, c)
            PROVE  \E op, x : Begin(r, op, x) /\ Fine(x)
        BY <4>1 DEF upload
      <4>2. ASSUME NEW c \in Contents, upload_failed_duplicate(r, c)
            PROVE  \E op, x : Begin(r, op, x) /\ Fine(x)
        BY <4>2 DEF upload_failed_duplicate, find_duplicate, Loaded, Live, LiveStatuses
      <4>3. ASSUME NEW d \in Docs, extract(r, d) \/ reindex(r, d) \/ delete(r, d)
            PROVE  \E op, x : Begin(r, op, x) /\ Fine(x)
        BY <4>3 DEF extract, reindex, delete, Loaded, Live, LiveStatuses
      <4>4. ASSUME NEW d \in Docs, NEW c \in Contents, update_content(r, d, c)
            PROVE  \E op, x : Begin(r, op, x) /\ Fine(x)
        BY <4>4 DEF update_content, Loaded, Live, LiveStatuses
      <4>5. QED BY <2>4, <4>1, <4>2, <4>3, <4>4 DEF Call
    <3>2. req'[r] = x BY <3>1 DEF Begin, TypeOK
    <3>3. QED BY <2>3, <3>1, <3>2 DEF CallsInProgress
  <2>5. CASE Handle(r) \/ abort(r)
    <3>1. Fine(req'[r])
      <4>1. CASE Return(r) BY <4>1 DEF Return, IdleReq, TypeOK
      <4>2. CASE ~Return(r)
        <5>1. CASE add(r) BY <5>1 DEF add, TypeOK, Req
        <5>2. CASE extract_read(r)
          BY <4>2, <5>2, StateAssumption DEF extract_read, TypeOK, Req
        <5>3. CASE extract_check(r)
          BY <2>2, <4>2, <5>3 DEF extract_check, At, TypeOK
        <5>4. ASSUME NEW from, NEW to, At(r, from), Goto(r, to),
                     to \in {"put", "add", "putNew", "save", "extractCheck"}
                       => from \in {"put", "add", "putNew", "save", "extractCheck"},
                     to \notin {"idle", "put", "add", "extractRead", "extractCheck"}
                       => from \notin {"idle", "put", "add", "extractRead", "extractCheck"}
              PROVE  Fine(req'[r])
          <6>1. /\ req'[r].pc = to
                /\ req'[r].content = req[r].content
                /\ req'[r].doc = req[r].doc
            BY <5>4 DEF Goto, TypeOK, Req
          <6>2. QED BY <2>2, <5>4, <6>1 DEF At
        <5>5. CASE put_object(r) BY <5>4, <5>5 DEF put_object
        <5>6. CASE update_put(r) BY <5>4, <5>6 DEF update_put
        <5>7. CASE retry_flush(r) BY <5>4, <5>7 DEF retry_flush
        <5>8. CASE reindex_commit(r) BY <5>4, <5>8 DEF reindex_commit
        <5>9. CASE update_save(r) BY <5>4, <5>9 DEF update_save
        <5>10. CASE update_drop_object(r) BY <5>4, <5>10 DEF update_drop_object
        <5>11. CASE update_drop_vectors(r) BY <5>4, <5>11 DEF update_drop_vectors
        <5>12. CASE delete_vectors(r) BY <5>4, <5>12 DEF delete_vectors
        <5>13. CASE delete_raw(r) BY <5>4, <5>13 DEF delete_raw
        <5>14. CASE delete_text(r) BY <5>4, <5>14 DEF delete_text
        <5>15. QED
          BY <2>5, <4>2, <5>1, <5>2, <5>3, <5>5, <5>6, <5>7, <5>8, <5>9, <5>10, <5>11, <5>12,
             <5>13, <5>14
          DEF Handle, abort, retry_close, enqueue, delete_row, stale_row
      <4>3. QED BY <4>1, <4>2
    <3>2. QED BY <2>3, <3>1 DEF CallsInProgress
  <2>6. QED BY <1>2, <2>4, <2>5
<1>3. QED BY <1>1, <1>2 DEF Next, Service

LEMMA RowsAreFilledStep ==
  ASSUME TypeOK, CallsInProgress, RunsInProgress, RowsAreFilled, LockDiscipline, Next
  PROVE  RowsAreFilled'
<1>1. CASE Service
  BY <1>1, ServiceIsApiStep
  DEF ApiStep, RowStep, Created, Rewritten, Deleted, RowsAreFilled, Live, LiveStatuses
<1>2. ASSUME NEW w \in Workers, Work(w) \/ Mishap(w) PROVE RowsAreFilled'
  <2>1. ASSUME NEW s \in LiveStatuses, Ends(w, s) PROVE RowsAreFilled'
    BY <2>1, SettleRow DEF Ends, RowsAreFilled, Live
  <2>2. CASE UNCHANGED <<row, chunks>> BY <2>2 DEF RowsAreFilled, Live
  <2>3. QED BY <1>2, <2>1, <2>2, PipelineCases DEF LiveStatuses
<1>3. QED BY <1>1, <1>2 DEF Next, Pipeline

LEMMA LockDisciplineCall ==
  ASSUME TypeOK, CallsInProgress, LockDiscipline,
         NEW r \in Requests, Call(r) \/ Handle(r) \/ abort(r)
  PROVE  LockDiscipline'
<1>0. /\ \A w \in Workers : w # r /\ w # None
      /\ \A q \in Requests : q # None
  BY StateAssumption
<1>1. \A q \in Requests : q # r => req'[q] = req[q]
  BY DEF TypeOK, Call, upload, upload_failed_duplicate, extract, reindex, delete,
     update_content, Begin, Handle, abort, retry_flush, retry_close, put_object, add,
     enqueue, extract_read, extract_check, reindex_commit, update_put, update_save,
     update_drop_object, update_drop_vectors, delete_vectors, delete_raw, delete_text,
     delete_row, stale_row, Goto, Return
<1>2. run' = run
  BY DEF Call, upload, upload_failed_duplicate, extract, reindex, delete,
     update_content, Begin, Handle, abort, retry_flush, retry_close, put_object, add,
     enqueue, extract_read, extract_check, reindex_commit, update_put, update_save,
     update_drop_object, update_drop_vectors, delete_vectors, delete_raw, delete_text,
     delete_row, stale_row
<1>3. CASE retry_flush(r)
  <2>1. req'[r].pc = "close" /\ req'[r].doc = req[r].doc
    BY <1>3 DEF retry_flush, Goto, TypeOK, Req
  <2>2. \A d \in Docs : lock'[d] = IF d = req[r].doc THEN r ELSE lock[d]
    BY <1>3 DEF retry_flush, TypeOK
  <2>3. req[r].doc \in Docs /\ lock[req[r].doc] = None /\ req[r].pc = "retry"
    BY <1>3 DEF retry_flush, At, CallsInProgress, Free
  <2>4. QED BY <1>0, <1>1, <1>2, <2>1, <2>2, <2>3 DEF LockDiscipline
<1>4. CASE retry_close(r)
  <2>1. req'[r].pc = "idle" BY <1>4 DEF retry_close, Return, IdleReq, TypeOK
  <2>2. \A d \in Docs : lock'[d] = IF d = req[r].doc THEN None ELSE lock[d]
    BY <1>4 DEF retry_close, TypeOK
  <2>3. req[r].pc = "close" BY <1>4 DEF retry_close, At
  <2>4. QED BY <1>0, <1>1, <1>2, <2>1, <2>2, <2>3 DEF LockDiscipline
<1>5. CASE abort(r)
  <2>1. req'[r].pc = "idle" BY <1>5 DEF abort, Return, IdleReq, TypeOK
  <2>2. \A d \in Docs : lock'[d] = IF lock[d] = r THEN None ELSE lock[d]
    BY <1>5 DEF abort
  <2>3. QED BY <1>0, <1>1, <1>2, <2>1, <2>2 DEF LockDiscipline
<1>6. CASE lock' = lock /\ req[r].pc # "close" /\ req'[r].pc # "close"
  BY <1>1, <1>2, <1>6 DEF LockDiscipline
<1>7. CASE Call(r)
  BY <1>6, <1>7
  DEF Call, upload, upload_failed_duplicate, extract, reindex, delete, update_content, Begin,
      Loaded, TypeOK
<1>8. CASE Handle(r) /\ ~retry_flush(r) /\ ~retry_close(r)
  <2>1. lock' = lock /\ req[r].pc # "close"
    BY <1>8
    DEF Handle, put_object, add, enqueue, extract_read, extract_check, reindex_commit,
        update_put, update_save, update_drop_object, update_drop_vectors, delete_vectors,
        delete_raw, delete_text, delete_row, stale_row, At
  <2>2. req'[r].pc # "close"
    <3>1. CASE Return(r) BY <3>1 DEF Return, IdleReq, TypeOK
    <3>2. ASSUME NEW pc, pc # "close", Goto(r, pc) PROVE req'[r].pc # "close"
      BY <3>2 DEF Goto, TypeOK, Req
    <3>3. CASE add(r) \/ extract_read(r) \/ extract_check(r)
      BY <3>1, <3>3 DEF add, extract_read, extract_check, TypeOK, Req
    <3>4. QED
      BY <1>8, <3>1, <3>2, <3>3
      DEF Handle, put_object, enqueue, reindex_commit, update_put, update_save,
          update_drop_object, update_drop_vectors, delete_vectors, delete_raw, delete_text,
          delete_row, stale_row
  <2>3. QED BY <1>6, <2>1, <2>2
<1>9. QED BY <1>3, <1>4, <1>5, <1>7, <1>8

LEMMA LockDisciplineWork ==
  ASSUME TypeOK, RunsInProgress, LockDiscipline, NEW w \in Workers, Work(w) \/ Mishap(w)
  PROVE  LockDiscipline'
<1>0. \A v \in Workers : v \notin Requests /\ v # None
  BY StateAssumption
<1>1. req' = req
  BY DEF Work, Mishap, start, flush, flush_stale_row, parse,
     parse_object_missing, extract_metadata, chunk, index, commit, stage_failed,
     index_failed, fault, worker_lost, redeliver, Rollback
<1>2. CASE flush(w)
  <2>1. /\ run'[w].pc \in LockedPc
        /\ run'[w].doc = run[w].doc
        /\ \A v \in Workers : v # w => run'[v] = run[v]
    BY <1>2 DEF flush, Advance, TypeOK, Run, LockedPc
  <2>2. \A d \in Docs : lock'[d] = IF d = run[w].doc THEN w ELSE lock[d]
    BY <1>2 DEF flush, TypeOK
  <2>3. /\ lock[run[w].doc] = None
        /\ run[w].doc \in Docs
        /\ run[w].pc = "flush" /\ "flush" \notin LockedPc
    BY <1>2 DEF flush, Stage, Free, RunsInProgress, LockedPc
  <2>4. \A d \in Docs, v \in Workers :
          lock'[d] = v <=> run'[v].pc \in LockedPc /\ run'[v].doc = d
    <3> SUFFICES ASSUME NEW d \in Docs, NEW v \in Workers
                 PROVE  lock'[d] = v <=> run'[v].pc \in LockedPc /\ run'[v].doc = d
      OBVIOUS
    <3>1. CASE v = w BY <2>1, <2>2, <2>3, <3>1 DEF LockDiscipline
    <3>2. CASE v # w BY <1>0, <2>1, <2>2, <2>3, <3>2 DEF LockDiscipline
    <3>3. QED BY <3>1, <3>2
  <2>5. \A d \in Docs, r \in Requests :
          lock'[d] = r <=> req'[r].pc = "close" /\ req'[r].doc = d
    BY <1>0, <1>1, <2>2, <2>3, StateAssumption DEF LockDiscipline
  <2>6. QED BY <2>4, <2>5 DEF LockDiscipline
<1>3. ASSUME NEW s, Settle(w, s), run[w].pc \in LockedPc PROVE LockDiscipline'
  <2>1. /\ run'[w].pc \notin LockedPc
        /\ \A v \in Workers : v # w => run'[v] = run[v]
    BY <1>3 DEF Settle, IdleRun, TypeOK, LockedPc
  <2>2. \A d \in Docs : lock'[d] = IF d = run[w].doc THEN None ELSE lock[d]
    BY <1>3 DEF Settle, TypeOK
  <2>3. run[w].doc \in Docs BY <1>3 DEF LockedPc, RunsInProgress
  <2>4. lock[run[w].doc] = w BY <1>3, <2>3 DEF LockDiscipline
  <2>5. QED BY <1>0, <1>1, <1>3, <2>1, <2>2, <2>3, <2>4, StateAssumption DEF LockDiscipline
<1>4. ASSUME Rollback(w) PROVE LockDiscipline'
  <2>1. /\ run'[w].pc \notin LockedPc
        /\ \A v \in Workers : v # w => run'[v] = run[v]
    BY <1>4 DEF Rollback, IdleRun, TypeOK, LockedPc
  <2>2. \A d \in Docs : lock'[d] = IF lock[d] = w THEN None ELSE lock[d]
    BY <1>4 DEF Rollback
  <2>3. \A d \in Docs, v \in Workers :
          lock'[d] = v <=> run'[v].pc \in LockedPc /\ run'[v].doc = d
    BY <1>0, <2>1, <2>2 DEF LockDiscipline
  <2>4. \A d \in Docs, r \in Requests :
          lock'[d] = r <=> req'[r].pc = "close" /\ req'[r].doc = d
    BY <1>0, <1>1, <2>2, StateAssumption DEF LockDiscipline
  <2>5. QED BY <2>3, <2>4 DEF LockDiscipline
<1>5. CASE /\ lock' = lock
           /\ run'[w].pc \in LockedPc <=> run[w].pc \in LockedPc
           /\ run[w].pc \in LockedPc => run'[w].doc = run[w].doc
           /\ \A v \in Workers : v # w => run'[v] = run[v]
  BY <1>1, <1>5 DEF LockDiscipline
<1>6. ASSUME NEW from, NEW to, Stage(w, from), Advance(w, to), lock' = lock,
             from \in LockedPc, to \in LockedPc
      PROVE  LockDiscipline'
  BY <1>5, <1>6 DEF Stage, Advance, TypeOK, Run
<1>7. CASE start(w)
  BY <1>5, <1>7 DEF start, Stage, IdleRun, LockedPc, TypeOK
<1>8. CASE parse(w) BY <1>6, <1>8 DEF parse, LockedPc
<1>9. CASE extract_metadata(w) BY <1>6, <1>9 DEF extract_metadata, LockedPc
<1>10. CASE chunk(w) BY <1>5, <1>10 DEF chunk, Stage, LockedPc, TypeOK, Run
<1>11. CASE index(w) BY <1>6, <1>11 DEF index, LockedPc
<1>12. CASE redeliver(w) BY <1>5, <1>12 DEF redeliver
<1>13. QED
  BY <1>2, <1>3, <1>4, <1>7, <1>8, <1>9, <1>10, <1>11, <1>12
  DEF Work, Mishap, flush_stale_row, parse_object_missing, commit, stage_failed, index_failed,
      Fail, fault, worker_lost, Stage, LockedPc

LEMMA RunsInProgressStep ==
  ASSUME TypeOK, CallsInProgress, RunsInProgress, RowsAreFilled, LockDiscipline, Next
  PROVE  RunsInProgress'
<1> DEFINE Fine(x) ==
      x.pc # "idle" =>
        /\ x.doc \in Docs
        /\ row'[x.doc].status # "unborn"
        /\ x.seen.hash \in Contents
        /\ row'[x.doc].status \in LiveStatuses /\ x.seen.text # None => row'[x.doc].text # None
        /\ x.pc \in LockedPc => row'[x.doc].status \in LiveStatuses
<1>1. (\A v \in Workers : Fine(run'[v])) => RunsInProgress'
  BY DEF RunsInProgress, Live
<1>2. CASE Service
  <2>1. ApiStep BY <1>2, ServiceIsApiStep
  <2>2. ASSUME NEW v \in Workers PROVE Fine(run[v])
    <3> SUFFICES ASSUME run[v].pc # "idle" PROVE Fine(run[v])
      OBVIOUS
    <3> DEFINE d == run[v].doc
    <3>1. /\ d \in Docs
          /\ row[d].status # "unborn"
          /\ run[v].seen.hash \in Contents
          /\ Live(d) /\ run[v].seen.text # None => row[d].text # None
          /\ run[v].pc \in LockedPc => Live(d)
      BY DEF RunsInProgress
    <3>2. run[v].pc \in LockedPc => ~Free(d)
      BY <3>1, StateAssumption DEF LockDiscipline, Free
    <3>3. RowStep(d) BY <2>1, <3>1 DEF ApiStep
    <3>4. QED
      BY <3>1, <3>2, <3>3 DEF RowStep, Created, Rewritten, Deleted, Live, LiveStatuses
  <2>3. QED BY <1>1, <2>1, <2>2 DEF ApiStep
<1>3. ASSUME NEW w \in Workers, Work(w) \/ Mishap(w) PROVE RunsInProgress'
  <2>1. ASSUME NEW s \in LiveStatuses, Settle(w, s), run[w].pc \in LockedPc
        PROVE  RunsInProgress'
    <3>1. LET d == run[w].doc IN
          /\ d \in Docs /\ Live(d)
          /\ row'[d].status = s
          /\ row[d].text # None => row'[d].text # None
          /\ \A e \in Docs : e # d => row'[e] = row[e]
          /\ run'[w] = IdleRun
          /\ \A v \in Workers : v # w => run'[v] = run[v]
      BY <2>1, SettleRow
    <3>2. Fine(run'[w]) BY <3>1 DEF IdleRun
    <3>3. ASSUME NEW v \in Workers, v # w PROVE Fine(run'[v])
      BY <3>1, <3>3 DEF RunsInProgress, Live, LiveStatuses
    <3>4. QED BY <1>1, <3>2, <3>3
  <2>2. CASE UNCHANGED <<row, chunks>>
    <3>1. ASSUME NEW v \in Workers PROVE Fine(run[v])
      BY <2>2 DEF RunsInProgress, Live
    <3>2. Fine(IdleRun) BY DEF IdleRun
    <3>3. ASSUME NEW from, NEW to \in LockedPc, Stage(w, from), from \in LockedPc, Advance(w, to)
          PROVE  RunsInProgress'
      <4>1. /\ run'[w].pc = to
            /\ run'[w].doc = run[w].doc
            /\ run'[w].seen = run[w].seen
            /\ \A v \in Workers : v # w => run'[v] = run[v]
        BY <3>3 DEF Advance, TypeOK, Run
      <4>2. Fine(run'[w]) BY <3>1, <3>3, <4>1 DEF Stage, LockedPc
      <4>3. QED BY <1>1, <3>1, <4>1, <4>2
    <3>4. CASE start(w)
      <4>1. PICK t \in Task :
              run' = IF Live(t.doc)
                     THEN [run EXCEPT ![w] = [IdleRun EXCEPT !.pc = "flush", !.doc = t.doc,
                                                !.retries = t.retries, !.seen = row[t.doc]]]
                     ELSE run
        BY <3>4 DEF start
      <4>2. CASE Live(t.doc)
        <5>1. t.doc \in Docs BY DEF Task
        <5>2. /\ run'[w].pc = "flush"
              /\ run'[w].doc = t.doc
              /\ run'[w].seen = row[t.doc]
              /\ \A v \in Workers : v # w => run'[v] = run[v]
          BY <4>1, <4>2 DEF TypeOK, IdleRun
        <5>3. Fine(run'[w])
          BY <2>2, <4>2, <5>1, <5>2 DEF RowsAreFilled, Live, LiveStatuses, LockedPc
        <5>4. QED BY <1>1, <3>1, <5>2, <5>3
      <4>3. CASE ~Live(t.doc) BY <1>1, <3>1, <4>1, <4>3
      <4>4. QED BY <4>2, <4>3
    <3>5. CASE flush(w)
      <4>1. /\ run'[w].pc = "parse"
            /\ run'[w].doc = run[w].doc
            /\ run'[w].seen = run[w].seen
            /\ \A v \in Workers : v # w => run'[v] = run[v]
        BY <3>5 DEF flush, Advance, TypeOK, Run
      <4>2. run[w].pc = "flush" /\ Live(run[w].doc) BY <3>5 DEF flush, Stage
      <4>3. Fine(run'[w]) BY <2>2, <3>1, <4>1, <4>2 DEF Live
      <4>4. QED BY <1>1, <3>1, <4>1, <4>3
    <3>6. CASE chunk(w)
      <4>1. /\ run[w].pc = "chunk" /\ run'[w].pc = "index"
            /\ run'[w].doc = run[w].doc
            /\ run'[w].seen = run[w].seen
            /\ \A v \in Workers : v # w => run'[v] = run[v]
        BY <3>6 DEF chunk, Stage, TypeOK, Run
      <4>2. Fine(run'[w]) BY <3>1, <4>1 DEF LockedPc
      <4>3. QED BY <1>1, <3>1, <4>1, <4>2
    <3>7. ASSUME Rollback(w) PROVE RunsInProgress'
      BY <1>1, <3>1, <3>2, <3>7 DEF Rollback, TypeOK
    <3>8. CASE redeliver(w) BY <1>1, <3>1, <3>8 DEF redeliver
    <3>9. CASE parse(w) BY <3>3, <3>9 DEF parse, LockedPc
    <3>10. CASE extract_metadata(w) BY <3>3, <3>10 DEF extract_metadata, LockedPc
    <3>11. CASE index(w) BY <3>3, <3>11 DEF index, LockedPc
    <3>12. QED
      BY <1>3, <2>1, <3>4, <3>5, <3>6, <3>7, <3>8, <3>9, <3>10, <3>11
      DEF Work, Mishap, flush_stale_row, parse_object_missing, commit, stage_failed,
          index_failed, Fail, fault, worker_lost, Stage, LockedPc, LiveStatuses
  <2>3. QED BY <1>3, <2>1, <2>2, PipelineCases DEF LiveStatuses, Ends
<1>4. QED BY <1>2, <1>3 DEF Next, Pipeline

LEMMA RunsReplaceAllStep ==
  ASSUME TypeOK, CallsInProgress, RunsInProgress, RowsAreFilled, LockDiscipline,
         RunsReplaceAll, Next
  PROVE  RunsReplaceAll'
<1>1. CASE Service
  <2>1. ApiStep BY <1>1, ServiceIsApiStep
  <2>2. CASE chunks' = chunks
    BY <2>1, <2>2 DEF ApiStep, RunsReplaceAll, GenerationsOf
  <2>3. ASSUME NEW d \in Docs, Deleted(d) PROVE RunsReplaceAll'
    <3>1. \A v \in Workers : run[v].pc \in LockedPc => run[v].doc # d
      BY <2>3, StateAssumption DEF Deleted, Free, LockDiscipline
    <3>2. \A e \in Docs : e # d => GenerationsOf(e)' = GenerationsOf(e)
      BY <2>3 DEF Deleted, GenerationsOf
    <3>3. chunks' \subseteq chunks BY <2>3 DEF Deleted
    <3>4. \A v \in Workers : run[v].pc \in {"index", "commit"} =>
            run[v].doc \in Docs /\ run[v].pc \in LockedPc
      BY DEF RunsInProgress, LockedPc
    <3>5. \A v \in Workers : run[v].pc \in {"index", "commit"} =>
            {c \in chunks' : c.doc = run[v].doc} = GenerationsOf(run[v].doc)
      BY <3>1, <3>2, <3>4 DEF GenerationsOf
    <3>6. QED BY <2>1, <3>3, <3>5 DEF ApiStep, RunsReplaceAll, GenerationsOf
  <2>4. QED BY <2>1, <2>2, <2>3 DEF ApiStep
<1>2. ASSUME NEW w \in Workers, Work(w) \/ Mishap(w) PROVE RunsReplaceAll'
  <2>1. ASSUME NEW s \in LiveStatuses, Ends(w, s) PROVE RunsReplaceAll'
    <3>1. /\ run'[w].pc = "idle"
          /\ \A v \in Workers : v # w => run'[v] = run[v]
      BY <2>1, SettleRow DEF Ends, IdleRun
    <3>2. \A v \in Workers : v # w /\ run[v].pc \in {"index", "commit"} =>
            run[v].doc # run[w].doc /\ run[v].doc \in Docs
      BY <2>1 DEF Ends, LockDiscipline, RunsInProgress, LockedPc
    <3>3. CASE chunks' = chunks
      BY <2>1, <3>1, <3>3 DEF Ends, RunsReplaceAll, GenerationsOf
    <3>4. CASE /\ run[w].pc \in {"index", "commit"}
               /\ \E b \in BOOLEAN : chunks' = Replacement(w, b)
      <4>1. PICK b \in BOOLEAN : chunks' = Replacement(w, b) BY <3>4
      <4>2. /\ run[w].gen <= gen
            /\ run[w].old = GenerationsOf(run[w].doc)
            /\ \A c \in chunks : c.gen <= gen
        BY <3>4 DEF RunsReplaceAll
      <4>3. \A c \in chunks' : c.gen <= gen
        BY <4>1, <4>2 DEF Replacement
      <4>4. \A v \in Workers : v # w /\ run[v].pc \in {"index", "commit"} =>
              {c \in chunks' : c.doc = run[v].doc} = GenerationsOf(run[v].doc)
        BY <3>2, <4>1, <4>2 DEF Replacement, GenerationsOf
      <4>5. QED BY <2>1, <3>1, <4>3, <4>4 DEF Ends, RunsReplaceAll, GenerationsOf
    <3>5. QED BY <2>1, <3>3, <3>4 DEF Ends
  <2>2. CASE UNCHANGED <<row, chunks>>
    <3>1. CASE chunk(w)
      <4>1. /\ run'[w].pc = "index" /\ run'[w].doc = run[w].doc
            /\ run'[w].gen = gen + 1
            /\ run'[w].old = GenerationsOf(run[w].doc)
            /\ \A v \in Workers : v # w => run'[v] = run[v]
            /\ gen' = gen + 1
        BY <3>1 DEF chunk, TypeOK, Run
      <4>2. gen \in Nat /\ \A c \in chunks : c.gen \in Nat /\ c.gen <= gen
        BY DEF TypeOK, Generation, RunsReplaceAll
      <4>3. \A v \in Workers : run[v].gen \in Nat BY DEF TypeOK, Run
      <4>4. /\ \A c \in chunks' : c.gen <= gen'
            /\ \A c \in run'[w].old : c.gen < run'[w].gen
        BY <2>2, <4>1, <4>2 DEF GenerationsOf
      <4>5. GenerationsOf(run[w].doc) = {c \in chunks' : c.doc = run[w].doc}
        BY <2>2 DEF GenerationsOf
      <4>6. QED BY <2>2, <4>1, <4>2, <4>3, <4>4, <4>5 DEF RunsReplaceAll, GenerationsOf
    <3>2. CASE gen' = gen /\ \A v \in Workers :
                 run'[v].pc \in {"index", "commit"} =>
                   /\ run[v].pc \in {"index", "commit"}
                   /\ run'[v].gen = run[v].gen
                   /\ run'[v].old = run[v].old
                   /\ run'[v].doc = run[v].doc
      BY <2>2, <3>2 DEF RunsReplaceAll, GenerationsOf
    <3>3. ASSUME NEW from, NEW to, Stage(w, from), Advance(w, to),
                 to \in {"index", "commit"} => from \in {"index", "commit"}, gen' = gen
          PROVE  RunsReplaceAll'
      BY <3>2, <3>3 DEF Stage, Advance, TypeOK, Run
    <3>4. ASSUME run' = [run EXCEPT ![w] = IdleRun], gen' = gen PROVE RunsReplaceAll'
      BY <3>2, <3>4 DEF IdleRun, TypeOK
    <3>5. CASE start(w) BY <3>2, <3>5 DEF start, IdleRun, TypeOK
    <3>6. CASE redeliver(w) BY <3>2, <3>6 DEF redeliver
    <3>7. CASE flush(w) BY <3>3, <3>7 DEF flush
    <3>8. CASE parse(w) BY <3>3, <3>8 DEF parse
    <3>9. CASE extract_metadata(w) BY <3>3, <3>9 DEF extract_metadata
    <3>10. CASE index(w) BY <3>3, <3>10 DEF index
    <3>11. QED
      BY <1>2, <3>1, <3>4, <3>5, <3>6, <3>7, <3>8, <3>9, <3>10
      DEF Work, Mishap, flush_stale_row, parse_object_missing, commit, stage_failed,
          index_failed, Fail, Settle, fault, worker_lost, Rollback
  <2>3. QED BY <1>2, <2>1, <2>2, PipelineCases DEF LiveStatuses
<1>3. QED BY <1>1, <1>2 DEF Next, Pipeline

LEMMA ChunksStep ==
  ASSUME IInv, Next
  PROVE  NoOrphanChunks' /\ OneGeneration'
<1> USE DEF IInv
<1>1. CASE Service
  <2>1. ApiStep BY <1>1, ServiceIsApiStep
  <2>2. OneGeneration'
    BY <2>1 DEF ApiStep, Deleted, OneGeneration
  <2>3. ASSUME NEW c \in chunks' PROVE row'[c.doc].status \in LiveStatuses
    <3>1. c \in chunks BY <2>1 DEF ApiStep, Deleted
    <3>2. c.doc \in Docs /\ Live(c.doc) BY <3>1 DEF NoOrphanChunks, TypeOK, Generation
    <3>3. ~Deleted(c.doc) BY <3>1 DEF Deleted, GenerationsOf
    <3>4. RowStep(c.doc) BY <2>1, <3>2 DEF ApiStep
    <3>5. QED BY <3>2, <3>3, <3>4 DEF RowStep, Created, Rewritten, Live, LiveStatuses
  <2>4. QED BY <2>2, <2>3 DEF NoOrphanChunks, Live
<1>2. ASSUME NEW w \in Workers, Work(w) \/ Mishap(w)
      PROVE  NoOrphanChunks' /\ OneGeneration'
  <2>1. ASSUME NEW s \in LiveStatuses, Ends(w, s) PROVE NoOrphanChunks' /\ OneGeneration'
    <3>1. LET d == run[w].doc IN
          /\ d \in Docs /\ Live(d)
          /\ row'[d].status = s
          /\ \A e \in Docs : e # d => row'[e] = row[e]
      BY <2>1, SettleRow DEF Ends
    <3>2. \A d \in Docs : Live(d) => row'[d].status \in LiveStatuses
      BY <3>1 DEF Live
    <3>3. CASE chunks' = chunks
      BY <3>2, <3>3 DEF NoOrphanChunks, OneGeneration, Live, TypeOK, Generation
    <3>4. CASE /\ run[w].pc \in {"index", "commit"}
               /\ \E b \in BOOLEAN : chunks' = Replacement(w, b)
      <4>1. PICK b \in BOOLEAN : chunks' = Replacement(w, b) BY <3>4
      <4>2. run[w].old = GenerationsOf(run[w].doc) BY <3>4 DEF RunsReplaceAll
      <4>3. OneGeneration'
        BY <4>1, <4>2 DEF Replacement, OneGeneration, GenerationsOf
      <4>4. NoOrphanChunks'
        BY <3>1, <3>2, <4>1 DEF Replacement, NoOrphanChunks, Live, TypeOK, Generation
      <4>5. QED BY <4>3, <4>4
    <3>5. QED BY <2>1, <3>3, <3>4 DEF Ends
  <2>2. CASE UNCHANGED <<row, chunks>>
    BY <2>2 DEF NoOrphanChunks, OneGeneration, Live
  <2>3. QED BY <1>2, <2>1, <2>2, PipelineCases DEF LiveStatuses
<1>3. QED BY <1>1, <1>2 DEF Next, Pipeline

LEMMA IndexedIsEmbeddedStep ==
  ASSUME IInv, Next
  PROVE  IndexedIsEmbedded'
<1> USE DEF IInv
<1> DEFINE Embedded(d, C) == \E c \in C : c.doc = d /\ (c.vec \/ c.hash \in Blank)
<1>1. CASE Service
  <2>1. ApiStep BY <1>1, ServiceIsApiStep
  <2>2. ASSUME NEW d \in Docs, row'[d].status = "indexed"
        PROVE  row'[d].text # None /\ Embedded(d, chunks')
    <3>1. RowStep(d) BY <2>1 DEF ApiStep
    <3>2. row[d].status = "indexed" /\ row'[d].text = row[d].text
      BY <2>2, <3>1 DEF RowStep, Created, Rewritten, Deleted
    <3>3. PICK c \in chunks : c.doc = d /\ (c.vec \/ c.hash \in Blank)
      BY <3>2 DEF IndexedIsEmbedded
    <3>4. c \in chunks'
      BY <2>1, <2>2, <3>3 DEF ApiStep, Deleted, GenerationsOf
    <3>5. QED BY <3>2, <3>3, <3>4 DEF IndexedIsEmbedded
  <2>3. QED BY <2>2 DEF IndexedIsEmbedded
<1>2. ASSUME NEW w \in Workers, Work(w) \/ Mishap(w) PROVE IndexedIsEmbedded'
  <2>1. ASSUME NEW s \in LiveStatuses, Ends(w, s) PROVE IndexedIsEmbedded'
    <3> DEFINE d == run[w].doc
    <3>1. /\ d \in Docs
          /\ row'[d].status = s
          /\ row'[d].text = TextAfter(w)
          /\ \A e \in Docs : e # d => row'[e] = row[e]
      BY <2>1, SettleRow DEF Ends
    <3>2. ASSUME NEW e \in Docs, e # d, row'[e].status = "indexed"
          PROVE  row'[e].text # None /\ Embedded(e, chunks')
      <4>1. row[e].status = "indexed" /\ row'[e].text = row[e].text BY <3>1, <3>2
      <4>2. PICK c \in chunks : c.doc = e /\ (c.vec \/ c.hash \in Blank)
        BY <4>1 DEF IndexedIsEmbedded
      <4>3. run[w].pc \in {"index", "commit"} => run[w].old = GenerationsOf(d)
        BY DEF RunsReplaceAll
      <4>4. c \in chunks'
        BY <2>1, <3>2, <4>2, <4>3 DEF Ends, Replacement, GenerationsOf
      <4>5. QED BY <4>1, <4>2, <4>4 DEF IndexedIsEmbedded
    <3>3. ASSUME s = "indexed" PROVE row'[d].text # None /\ Embedded(d, chunks')
      <4>1. /\ run[w].pc \in {"index", "commit"}
            /\ \E v \in BOOLEAN :
                 /\ chunks' = Replacement(w, v)
                 /\ v \/ run[w].seen.hash \in Blank
        BY <2>1, <3>3 DEF Ends
      <4>2. PICK v \in BOOLEAN : /\ chunks' = Replacement(w, v)
                                 /\ v \/ run[w].seen.hash \in Blank
        BY <4>1
      <4>3. /\ run[w].seen.hash \in Contents
            /\ Live(d) /\ (run[w].seen.text # None => row[d].text # None)
        BY <4>1 DEF RunsInProgress, LockedPc
      <4>4. TextAfter(w) # None BY <4>1, <4>3, StateAssumption DEF TextAfter
      <4>5. [doc |-> d, gen |-> run[w].gen, hash |-> run[w].seen.hash, vec |-> v] \in chunks'
        BY <4>2 DEF Replacement
      <4>6. Embedded(d, chunks')
        <5> DEFINE c == [doc |-> d, gen |-> run[w].gen, hash |-> run[w].seen.hash, vec |-> v]
        <5>1. c \in chunks' /\ c.doc = d /\ (c.vec \/ c.hash \in Blank) BY <4>2, <4>5
        <5>2. QED BY <5>1
      <4>7. QED BY <3>1, <4>4, <4>6
    <3>4. ASSUME NEW e \in Docs, row'[e].status = "indexed"
          PROVE  row'[e].text # None /\ Embedded(e, chunks')
      BY <3>1, <3>2, <3>3, <3>4
    <3>5. QED BY <3>4 DEF IndexedIsEmbedded
  <2>2. CASE UNCHANGED <<row, chunks>>
    BY <2>2 DEF IndexedIsEmbedded
  <2>3. QED BY <1>2, <2>1, <2>2, PipelineCases DEF LiveStatuses
<1>3. QED BY <1>1, <1>2 DEF Next, Pipeline

(* Retries are counted: a task is sent again by a fault, with one retry     *)
(* more, by a lost worker or a redelivery, with as many, or for a document  *)
(* that is deleted and stays so.                                            *)
Counted(d, n) ==
  /\ row'[d].status # "unborn"
  /\ row'[d].status \in LiveStatuses => n <= used'.faults

Sends ==
  \E t \in Task : Send(t) /\ Counted(t.doc, t.retries)

LEMMA CountedLater ==
  ASSUME IInv, Next, NEW d \in Docs, row[d].status # "unborn",
         NEW n \in Nat, Live(d) => n <= used.faults
  PROVE  Counted(d, n)
<1> USE DEF IInv
<1>1. row'[d].status # "unborn" BY RowsStayBorn
<1>2. Live(d)' => Live(d)
  <2>1. CASE Service
    BY <2>1, ServiceIsApiStep DEF ApiStep, RowStep, Created, Rewritten, Deleted, Live, LiveStatuses
  <2>2. ASSUME NEW w \in Workers, Work(w) \/ Mishap(w) PROVE Live(d)' => Live(d)
    <3>1. ASSUME NEW s \in LiveStatuses, Ends(w, s) PROVE Live(d)' => Live(d)
      BY <3>1, SettleRow DEF Ends, Live
    <3>2. QED BY <2>2, <3>1, PipelineCases DEF LiveStatuses, Live
  <2>3. QED BY <2>1, <2>2 DEF Next, Pipeline
<1>3. used.faults \in Nat /\ used'.faults \in Nat /\ used.faults <= used'.faults
  <2>1. used' = used \/ \E f \in {"calls", "aborts", "failures", "faults", "losses", "redeliveries"} :
                          used' = [used EXCEPT ![f] = @ + 1]
    BY ZenonT(60) DEF Next, Service, Call, upload, upload_failed_duplicate, extract, reindex, delete,
       update_content, Begin, Handle, abort, retry_flush, retry_close, put_object, add,
       enqueue, extract_read, extract_check, reindex_commit, update_put, update_save,
       update_drop_object, update_drop_vectors, delete_vectors, delete_raw, delete_text,
       delete_row, stale_row, Pipeline, Work, Mishap, start, flush, flush_stale_row, parse,
       parse_object_missing, extract_metadata, chunk, index, commit, stage_failed,
       index_failed, Fail, fault, worker_lost, redeliver
  <2>2. QED BY <2>1 DEF TypeOK, Counters
<1>4. QED BY <1>1, <1>2, <1>3 DEF Counted, Live

LEMMA SendsAreCounted ==
  ASSUME IInv, Next
  PROVE  Sends \/ \A t \in Task : queue'[t] > 0 => queue[t] > 0
<1> USE DEF IInv
<1>1. ASSUME NEW d \in Docs, row[d].status # "unborn", enqueue_ingestion(d) PROVE Sends
  <2>1. Counted(d, 0) BY <1>1, CountedLater DEF TypeOK, Counters
  <2>2. [doc |-> d, retries |-> 0] \in Task BY StateAssumption DEF Task
  <2>3. QED BY <1>1, <2>1, <2>2 DEF Sends, enqueue_ingestion
<1>2. ASSUME NEW r \in Requests, retry_flush(r) \/ enqueue(r) PROVE Sends
  BY <1>1, <1>2 DEF retry_flush, enqueue, At, CallsInProgress
<1>3. ASSUME NEW w \in Workers, NEW n \in 0 .. MaxRetries, ~Stage(w, "idle"),
             Counted(run[w].doc, n), Send([doc |-> run[w].doc, retries |-> n])
      PROVE  Sends
  <2>1. [doc |-> run[w].doc, retries |-> n] \in Task
    BY <1>3 DEF Stage, RunsInProgress, Task
  <2>2. QED BY <1>3, <2>1 DEF Sends
<1>4. ASSUME NEW w \in Workers, ~Stage(w, "idle")
      PROVE  /\ run[w].doc \in Docs
             /\ row[run[w].doc].status # "unborn"
             /\ run[w].retries \in 0 .. MaxRetries
             /\ Live(run[w].doc) => run[w].retries <= used.faults
  BY <1>4 DEF Stage, RunsInProgress, RetriesCounted, TypeOK, Run
<1>5. ASSUME NEW w \in Workers, worker_lost(w) \/ redeliver(w) PROVE Sends
  <2>1. ~Stage(w, "idle") /\ Send(TaskOf(w)) BY <1>5 DEF worker_lost, redeliver
  <2>2. Counted(run[w].doc, run[w].retries) BY <1>4, <2>1, StateAssumption, CountedLater
  <2>3. QED BY <1>3, <1>4, <2>1, <2>2 DEF TaskOf
<1>6. ASSUME NEW w \in Workers, fault(w) \/ flush_stale_row(w), run[w].retries < MaxRetries
      PROVE  Sends
  <2>1. /\ ~Stage(w, "idle")
        /\ Send([doc |-> run[w].doc, retries |-> run[w].retries + 1])
    BY <1>6 DEF fault, flush_stale_row, retry, Stage
  <2>2. Counted(run[w].doc, run[w].retries + 1)
    <3>1. CASE fault(w)
      <4>1. row' = row /\ used'.faults = used.faults + 1 /\ used.faults \in Nat
        BY <3>1 DEF fault, Rollback, TypeOK, Counters
      <4>2. run[w].retries \in Nat BY <1>4, <2>1, StateAssumption
      <4>3. QED BY <1>4, <2>1, <4>1, <4>2 DEF Counted, Live
    <3>2. CASE flush_stale_row(w)
      BY <1>4, <2>1, <3>2, StateAssumption, CountedLater DEF flush_stale_row
    <3>3. QED BY <1>6, <3>1, <3>2
  <2>3. run[w].retries + 1 \in 0 .. MaxRetries BY <1>4, <1>6, <2>1, StateAssumption
  <2>4. QED BY <1>3, <2>1, <2>2, <2>3
<1>7. ASSUME NEW w \in Workers, start(w)
      PROVE  \A t \in Task : queue'[t] > 0 => queue[t] > 0
  BY <1>7 DEF start, TypeOK
<1>8. CASE queue' = queue BY <1>8
<1>9. QED
  BY ZenonT(60), <1>2, <1>5, <1>6, <1>7, <1>8
  DEF Next, Service, Call, upload, upload_failed_duplicate, extract, reindex, delete,
      update_content, Handle, abort, retry_close, put_object, add,
      extract_read, extract_check, reindex_commit, update_put, update_save,
      update_drop_object, update_drop_vectors, delete_vectors, delete_raw, delete_text,
      delete_row, stale_row, Pipeline, Work, Mishap, flush, flush_stale_row, parse,
      parse_object_missing, extract_metadata, chunk, index, commit, stage_failed,
      index_failed, fault, retry

(* A run keeps its task; the one that starts takes a task of the queue.     *)
LEMMA RunsKeepTheirTask ==
  ASSUME IInv, Next, NEW w \in Workers, run'[w].pc # "idle"
  PROVE  \/ /\ run[w].pc # "idle"
            /\ run'[w].doc = run[w].doc
            /\ run'[w].retries = run[w].retries
         \/ \E t \in Task :
              queue[t] > 0 /\ run'[w].doc = t.doc /\ run'[w].retries = t.retries
<1> USE DEF IInv
<1>1. CASE Service
  BY <1>1, ServiceIsApiStep DEF ApiStep
<1>2. ASSUME NEW v \in Workers, Work(v) \/ Mishap(v), run'[v].pc # "idle"
      PROVE  \/ /\ run[v].pc # "idle"
                /\ run'[v].doc = run[v].doc
                /\ run'[v].retries = run[v].retries
             \/ \E t \in Task :
                  queue[t] > 0 /\ run'[v].doc = t.doc /\ run'[v].retries = t.retries
  <2>1. CASE start(v) BY <1>2, <2>1 DEF start, TypeOK, Stage, IdleRun
  <2>2. ASSUME NEW from, NEW to, Stage(v, from), from # "idle", Advance(v, to)
        PROVE  /\ run[v].pc # "idle"
               /\ run'[v].doc = run[v].doc
               /\ run'[v].retries = run[v].retries
    BY <2>2 DEF Stage, Advance, TypeOK, Run
  <2>3. CASE chunk(v) BY <2>3 DEF chunk, Stage, TypeOK, Run
  <2>4. ASSUME NEW s, Settle(v, s) PROVE FALSE BY <1>2, <2>4 DEF Settle, TypeOK, IdleRun
  <2>5. ASSUME Rollback(v) PROVE FALSE BY <1>2, <2>5 DEF Rollback, TypeOK, IdleRun
  <2>6. CASE flush(v) BY <2>2, <2>6 DEF flush
  <2>7. CASE parse(v) BY <2>2, <2>7 DEF parse
  <2>8. CASE extract_metadata(v) BY <2>2, <2>8 DEF extract_metadata
  <2>9. CASE index(v) BY <2>2, <2>9 DEF index
  <2>10. CASE redeliver(v) BY <1>2, <2>10 DEF redeliver
  <2>11. QED
    BY <1>2, <2>1, <2>3, <2>4, <2>5, <2>6, <2>7, <2>8, <2>9, <2>10
    DEF Work, Mishap, flush_stale_row, parse_object_missing, commit, stage_failed,
        index_failed, Fail, fault, worker_lost
<1>3. ASSUME NEW v \in Workers, Work(v) \/ Mishap(v), v # w PROVE run'[w] = run[w]
  BY <1>3
  DEF Work, Mishap, start, flush, flush_stale_row, parse, parse_object_missing,
      extract_metadata, chunk, index, commit, stage_failed, index_failed, Fail, Settle, fault,
      worker_lost, redeliver, Rollback, Advance, TypeOK
<1>4. QED BY <1>1, <1>2, <1>3 DEF Next, Pipeline

LEMMA RetriesCountedStep ==
  ASSUME IInv, Next
  PROVE  RetriesCounted'
<1> USE DEF IInv
<1>1. \A t \in Task : t.doc \in Docs /\ t.retries \in Nat
  BY StateAssumption DEF Task
<1>2. \A t \in Task : queue[t] > 0 => Counted(t.doc, t.retries)
  BY <1>1, CountedLater DEF RetriesCounted
<1>3. ASSUME NEW t \in Task, queue'[t] > 0 PROVE Counted(t.doc, t.retries)
  <2>1. CASE Sends
    <3>1. PICK u \in Task : Send(u) /\ Counted(u.doc, u.retries) BY <2>1 DEF Sends
    <3>2. t = u \/ queue[t] > 0 BY <1>3, <3>1 DEF Send, TypeOK
    <3>3. QED BY <1>2, <3>1, <3>2
  <2>2. QED BY <1>2, <1>3, <2>1, SendsAreCounted
<1>4. ASSUME NEW w \in Workers, run'[w].pc # "idle"
      PROVE  Counted(run'[w].doc, run'[w].retries)
  <2>1. CASE run[w].pc # "idle"
    <3>1. /\ run[w].doc \in Docs /\ row[run[w].doc].status # "unborn"
          /\ run[w].retries \in Nat
          /\ Live(run[w].doc) => run[w].retries <= used.faults
      BY <2>1, StateAssumption DEF RunsInProgress, RetriesCounted, TypeOK, Run
    <3>2. Counted(run[w].doc, run[w].retries) BY <3>1, CountedLater
    <3>3. QED BY <1>2, <1>4, <3>2, RunsKeepTheirTask
  <2>2. CASE run[w].pc = "idle" BY <1>2, <1>4, <2>2, RunsKeepTheirTask
  <2>3. QED BY <2>1, <2>2
<1>5. QED BY <1>3, <1>4 DEF RetriesCounted, Counted, Live

-----------------------------------------------------------------------------
(* The inductive invariant, and what follows from it.                       *)

(* No document, call or run exists yet, so every conjunct holds trivially.  *)
LEMMA InitIInv == Init => IInv
<1> SUFFICES ASSUME Init PROVE IInv
  OBVIOUS
<1>1. \A w \in Workers : run[w] = IdleRun /\ run[w].pc = "idle"
  BY DEF Init, IdleRun
<1>2. \A r \in Requests : req[r] = IdleReq /\ req[r].pc = "idle"
  BY DEF Init, IdleReq
<1>3. \A d \in Docs : row[d].status = "unborn"
  BY DEF Init, NoRow
<1>4. TypeOK
  <2>1. NoRow \in Row BY DEF NoRow, Row
  <2>2. IdleReq \in Req BY <2>1 DEF IdleReq, Req, ReqPc
  <2>3. used \in Counters BY DEF Init, Counters
  <2>4. QED BY <2>1, <2>2, <2>3, IdleRunType DEF Init, TypeOK
<1>5. CallsInProgress BY <1>2 DEF CallsInProgress
<1>6. RunsInProgress BY <1>1 DEF RunsInProgress
<1>7. RowsAreFilled BY <1>3 DEF RowsAreFilled, Live, LiveStatuses
<1>8. LockDiscipline
  <2>1. \A d \in Docs : lock[d] = None BY DEF Init
  <2>2. \A x \in Workers \cup Requests : x # None BY StateAssumption
  <2>3. QED BY <1>1, <1>2, <2>1, <2>2 DEF LockDiscipline, LockedPc
<1>9. RunsReplaceAll BY <1>1 DEF Init, RunsReplaceAll
<1>10. NoOrphanChunks /\ OneGeneration BY DEF Init, NoOrphanChunks, OneGeneration
<1>11. IndexedIsEmbedded BY <1>3 DEF IndexedIsEmbedded
<1>12. RetriesCounted
  <2>1. \A t \in Task : queue[t] = 0 BY DEF Init
  <2>2. QED BY <1>1, <2>1 DEF RetriesCounted
<1>13. QED
  BY <1>4, <1>5, <1>6, <1>7, <1>8, <1>9, <1>10, <1>11, <1>12 DEF IInv

(* Every step of a call, of a run, and of what can go wrong with either     *)
(* preserves it.                                                            *)
LEMMA StepIInv == IInv /\ [Next]_vars => IInv'
<1> SUFFICES ASSUME IInv, [Next]_vars PROVE IInv'
  OBVIOUS
<1>1. CASE Next
  <2>1. TypeOK'
    <3>1. CASE Service
      BY <3>1, CallType, HandleType, AbortType DEF Service, IInv
    <3>2. CASE Pipeline
      BY <3>2, WorkType, MishapType DEF Pipeline, IInv
    <3>3. QED BY <1>1, <3>1, <3>2 DEF Next
  <2>2. CallsInProgress' BY <1>1, CallsInProgressStep DEF IInv
  <2>3. RunsInProgress' BY <1>1, RunsInProgressStep DEF IInv
  <2>4. RowsAreFilled' BY <1>1, RowsAreFilledStep DEF IInv
  <2>5. LockDiscipline'
    BY <1>1, LockDisciplineCall, LockDisciplineWork DEF Next, Service, Pipeline, IInv
  <2>6. RunsReplaceAll' BY <1>1, RunsReplaceAllStep DEF IInv
  <2>7. RetriesCounted' BY <1>1, RetriesCountedStep
  <2>8. NoOrphanChunks' /\ OneGeneration' BY <1>1, ChunksStep
  <2>9. IndexedIsEmbedded' BY <1>1, IndexedIsEmbeddedStep
  <2>10. QED BY <2>1, <2>2, <2>3, <2>4, <2>5, <2>6, <2>7, <2>8, <2>9 DEF IInv
<1>2. CASE UNCHANGED vars
  <2>1. /\ row' = row /\ lock' = lock /\ chunks' = chunks
        /\ raw' = raw /\ texts' = texts /\ vectors' = vectors
        /\ queue' = queue /\ req' = req /\ run' = run /\ gen' = gen /\ used' = used
    BY <1>2 DEF vars
  <2>2. TypeOK' BY <2>1 DEF IInv, TypeOK
  <2>3. CallsInProgress' BY <2>1 DEF IInv, CallsInProgress
  <2>4. RunsInProgress' BY <2>1 DEF IInv, RunsInProgress, Live
  <2>5. RowsAreFilled' BY <2>1 DEF IInv, RowsAreFilled, Live
  <2>6. LockDiscipline' BY <2>1 DEF IInv, LockDiscipline
  <2>7. RunsReplaceAll' BY <2>1 DEF IInv, RunsReplaceAll, GenerationsOf
  <2>8. RetriesCounted' BY <2>1 DEF IInv, RetriesCounted, Live
  <2>9. NoOrphanChunks' /\ OneGeneration'
    BY <2>1 DEF IInv, NoOrphanChunks, OneGeneration, Live
  <2>10. IndexedIsEmbedded' BY <2>1 DEF IInv, IndexedIsEmbedded
  <2>11. QED BY <2>2, <2>3, <2>4, <2>5, <2>6, <2>7, <2>8, <2>9, <2>10 DEF IInv
<1>3. QED BY <1>1, <1>2

(* Every reachable state satisfies the inductive invariant.                 *)
THEOREM Invariance == Spec => []IInv
  BY InitIInv, StepIInv, PTL DEF Spec

(* Every variable keeps its type: no handler uses a document or a content   *)
(* it does not have, and no task exceeds Celery's max_retries.              *)
THEOREM TypeCorrectness == Spec => []TypeOK
<1>1. IInv => TypeOK BY DEF IInv
<1>2. QED BY <1>1, Invariance, PTL

(* However many workers and handlers there are, the run that has flushed    *)
(* PARSING and not ended is the one holder of its document's row lock.      *)
THEOREM RowLocksExclude == Spec => []LockDiscipline
<1>1. IInv => LockDiscipline BY DEF IInv
<1>2. QED BY <1>1, Invariance, PTL

(* No interleaving of a delete with a pipeline run leaves chunk rows of a   *)
(* document that is gone.                                                   *)
THEOREM ChunksBelongToDocuments == Spec => []NoOrphanChunks
<1>1. IInv => NoOrphanChunks BY DEF IInv
<1>2. QED BY <1>1, Invariance, PTL

(* No number of duplicate deliveries, retries and reindexing calls gives a  *)
(* document the chunk rows of two runs.                                     *)
THEOREM OneGenerationServed == Spec => []OneGeneration
<1>1. IInv => OneGeneration BY DEF IInv
<1>2. QED BY <1>1, Invariance, PTL

(* Whatever failed before, a document reported INDEXED has its text         *)
(* artifact recorded and chunk rows that carry their vectors.               *)
THEOREM IndexedDocumentsAreEmbedded == Spec => []IndexedIsEmbedded
<1>1. IInv => IndexedIsEmbedded BY DEF IInv
<1>2. QED BY <1>1, Invariance, PTL

-----------------------------------------------------------------------------
(***************************************************************************)
(* Nothing is forgotten: while calls are not cut short and the database    *)
(* fails a task no more often than Celery retries it, an UPLOADED document *)
(* always has a task, a run or a call that will ingest it.                 *)
(***************************************************************************)

(* The call or the run that owns a document.                                *)
Calls(d) ==
  \E r \in Requests : req[r].doc = d /\ req[r].pc \in {"dropOld", "dropStale", "enqueue"}

Runs(d) == \E w \in Workers : run[w].pc # "idle" /\ run[w].doc = d

Queued(d) == \E t \in Task : t.doc = d /\ queue[t] > 0

LEMMA OwnedBy ==
  ASSUME NEW d \in Docs
  PROVE  /\ Owned(d) <=> Queued(d) \/ Runs(d) \/ Calls(d)
         /\ Owned(d)' <=> Queued(d)' \/ Runs(d)' \/ Calls(d)'
  BY DEF Owned, Calls, Runs, Queued

(* A task that is sent is an owner, and tasks leave the broker only when a  *)
(* worker takes them.                                                       *)
LEMMA SendOwns ==
  ASSUME TypeOK, NEW t \in Task, Send(t)
  PROVE  Queued(t.doc)' /\ \A d \in Docs : Queued(d) => Queued(d)'
<1>1. queue'[t] = queue[t] + 1 /\ queue[t] \in Nat /\ \A u \in Task : u # t => queue'[u] = queue[u]
  BY DEF Send, TypeOK
<1>2. QED BY <1>1 DEF Queued

LEMMA EnqueueOwns ==
  ASSUME TypeOK, NEW d \in Docs, enqueue_ingestion(d)
  PROVE  Queued(d)' /\ \A e \in Docs : Queued(e) => Queued(e)'
<1>1. [doc |-> d, retries |-> 0] \in Task BY StateAssumption DEF Task
<1>2. QED BY <1>1, SendOwns DEF enqueue_ingestion

-----------------------------------------------------------------------------
(* The API keeps owned what it does not settle.                             *)

LEMMA ServiceOwns ==
  ASSUME MaxAborts = 0, IInv, UploadedIsOwned, Service,
         NEW d \in Docs, row'[d].status = "uploaded"
  PROVE  Owned(d)'
<1> USE DEF IInv
<1>1. PICK r \in Requests : Call(r) \/ Handle(r)
  BY DEF Service, abort, TypeOK, Counters
<1>2. run' = run BY ServiceIsApiStep DEF ApiStep
<1>3. Runs(d) => Runs(d)' BY <1>2 DEF Runs
<1>4. \A q \in Requests : q # r => req'[q] = req[q]
  BY <1>1
  DEF TypeOK, Call, upload, upload_failed_duplicate, extract, reindex, delete,
      update_content, Begin, Handle, retry_flush, retry_close, put_object, add,
      enqueue, extract_read, extract_check, reindex_commit, update_put, update_save,
      update_drop_object, update_drop_vectors, delete_vectors, delete_raw, delete_text,
      delete_row, stale_row, Goto, Return
<1>5. ASSUME Calls(d), req[r].pc \notin {"dropOld", "dropStale", "enqueue"} PROVE Calls(d)'
  BY <1>4, <1>5 DEF Calls
<1>6. ASSUME queue' = queue PROVE Queued(d) => Queued(d)'
  BY <1>6 DEF Queued
<1>7. ASSUME NEW pc \in {"dropOld", "dropStale", "enqueue"}, Goto(r, pc), req[r].doc = d
      PROVE  Calls(d)'
  BY <1>7 DEF Goto, TypeOK, Req, Calls
<1>8. CASE enqueue(r)
  <2>1. PICK e \in Docs : e = req[r].doc BY <1>8 DEF enqueue, At, CallsInProgress
  <2>2. Queued(e)' /\ (Queued(d) => Queued(d)')
    BY <1>8, <2>1, EnqueueOwns DEF enqueue
  <2>3. Calls(d) /\ e # d => Calls(d)' BY <1>4, <2>1 DEF Calls
  <2>4. row[d].status = "uploaded" BY <1>8 DEF enqueue
  <2>5. QED BY <1>3, <2>2, <2>3, <2>4, OwnedBy DEF UploadedIsOwned
<1>9. CASE retry_flush(r)
  <2>1. req[r].doc \in Docs BY <1>9 DEF retry_flush, At, CallsInProgress
  <2>2. Queued(d) => Queued(d)' BY <1>9, <2>1, EnqueueOwns DEF retry_flush
  <2>3. QED BY <1>3, <1>5, <1>9, <2>2, OwnedBy DEF retry_flush, At, UploadedIsOwned
<1>10. CASE add(r)
  <2>1. PICK e \in Docs :
          /\ row' = [row EXCEPT ![e] = [status |-> "uploaded", hash |-> req[r].content,
                                        text |-> None]]
          /\ req' = [req EXCEPT ![r].pc = "enqueue", ![r].doc = e]
    BY <1>10 DEF add
  <2>2. CASE d = e BY <2>1, <2>2, OwnedBy DEF Calls, TypeOK, Req
  <2>3. CASE d # e
    <3>1. row[d].status = "uploaded" BY <2>1, <2>3 DEF TypeOK
    <3>2. QED BY <1>3, <1>5, <1>6, <1>10, <3>1, OwnedBy DEF add, At, UploadedIsOwned
  <2>4. QED BY <2>2, <2>3
<1>11. CASE reindex_commit(r)
  <2>1. CASE req[r].doc = d BY <1>7, <1>11, <2>1, OwnedBy DEF reindex_commit
  <2>2. CASE req[r].doc # d
    <3>1. row[d].status = "uploaded" BY <1>11, <2>2 DEF reindex_commit, TypeOK
    <3>2. QED BY <1>3, <1>5, <1>6, <1>11, <3>1, OwnedBy DEF reindex_commit, At, UploadedIsOwned
  <2>3. QED BY <2>1, <2>2
<1>12. CASE update_save(r)
  <2>1. CASE req[r].doc = d BY <1>7, <1>12, <2>1, OwnedBy DEF update_save
  <2>2. CASE req[r].doc # d
    <3>1. row[d].status = "uploaded" BY <1>12, <2>2 DEF update_save, TypeOK
    <3>2. QED BY <1>3, <1>5, <1>6, <1>12, <3>1, OwnedBy DEF update_save, At, UploadedIsOwned
  <2>3. QED BY <2>1, <2>2
<1>13. CASE update_drop_object(r) \/ update_drop_vectors(r)
  <2>1. row[d].status = "uploaded" /\ queue' = queue
    BY <1>13 DEF update_drop_object, update_drop_vectors
  <2>2. Calls(d) /\ req[r].doc = d => Calls(d)'
    BY <1>7, <1>13 DEF update_drop_object, update_drop_vectors
  <2>3. Calls(d) /\ req[r].doc # d => Calls(d)' BY <1>4 DEF Calls
  <2>4. QED BY <1>3, <1>6, <2>1, <2>2, <2>3, OwnedBy DEF UploadedIsOwned
<1>14. CASE delete_row(r)
  <2>1. req[r].doc \in Docs BY <1>14 DEF delete_row, At, CallsInProgress
  <2>2. row[d].status = "uploaded" BY <1>14, <2>1 DEF delete_row, TypeOK
  <2>3. QED BY <1>3, <1>5, <1>6, <1>14, <2>2, OwnedBy DEF delete_row, At, UploadedIsOwned
<1>15. CASE /\ UNCHANGED <<row, queue>>
            /\ req[r].pc \notin {"dropOld", "dropStale", "enqueue"}
  BY <1>3, <1>5, <1>6, <1>15, OwnedBy DEF UploadedIsOwned
<1>16. QED
  BY <1>1, <1>8, <1>9, <1>10, <1>11, <1>12, <1>13, <1>14, <1>15
  DEF Call, upload, upload_failed_duplicate, extract, reindex, delete, update_content, Begin,
      Handle, retry_close, put_object, extract_read, extract_check, update_put,
      delete_vectors, delete_raw, delete_text, stale_row, At

-----------------------------------------------------------------------------
(* A run that ends without settling its document sends the task again.      *)

LEMMA PipelineOwns ==
  ASSUME MaxFaults <= MaxRetries, IInv, UploadedIsOwned,
         NEW w \in Workers, Work(w) \/ Mishap(w),
         NEW d \in Docs, row'[d].status = "uploaded"
  PROVE  Owned(d)'
<1> USE DEF IInv
<1>1. row[d].status = "uploaded" /\ row'[d] = row[d]
  <2>1. ASSUME NEW s \in {"indexed", "failed"}, Ends(w, s)
        PROVE  row[d].status = "uploaded" /\ row'[d] = row[d]
    BY <2>1, SettleRow DEF Ends, LiveStatuses
  <2>2. QED BY <2>1, PipelineCases
<1>2. Owned(d) /\ Live(d) BY <1>1 DEF UploadedIsOwned, Live, LiveStatuses
<1>3. Calls(d) => Calls(d)'
  BY DEF Calls, Work, Mishap, start, flush, flush_stale_row, parse, parse_object_missing,
     extract_metadata, chunk, index, commit, stage_failed, index_failed, fault, worker_lost,
     redeliver, Rollback
<1>4. ASSUME NEW v \in Workers, v # w PROVE run'[v] = run[v]
  BY <1>4
  DEF Work, Mishap, start, flush, flush_stale_row, parse, parse_object_missing,
      extract_metadata, chunk, index, commit, stage_failed, index_failed, Fail, Settle, fault,
      worker_lost, redeliver, Rollback, Advance, TypeOK
<1>5. Runs(d) /\ ~(run[w].pc # "idle" /\ run[w].doc = d) => Runs(d)'
  BY <1>4 DEF Runs
<1>6. run[w].pc # "idle" =>
        /\ run[w].doc \in Docs
        /\ run[w].retries \in 0 .. MaxRetries
        /\ Live(run[w].doc) => run[w].retries <= used.faults
  BY DEF RunsInProgress, RetriesCounted, TypeOK, Run
<1>7. ASSUME queue' = queue PROVE Queued(d) => Queued(d)'
  BY <1>7 DEF Queued
<1>8. CASE start(w)
  <2>1. PICK t \in Task :
          /\ queue[t] > 0
          /\ queue' = [queue EXCEPT ![t] = @ - 1]
          /\ run' = IF Live(t.doc)
                    THEN [run EXCEPT ![w] = [IdleRun EXCEPT !.pc = "flush", !.doc = t.doc,
                                               !.retries = t.retries, !.seen = row[t.doc]]]
                    ELSE run
    BY <1>8 DEF start
  <2>2. CASE t.doc = d
    <3>1. run'[w].pc = "flush" /\ run'[w].doc = d
      BY <1>2, <2>1, <2>2 DEF TypeOK, IdleRun
    <3>2. QED BY <3>1, OwnedBy DEF Runs
  <2>3. CASE t.doc # d
    <3>1. Queued(d) => Queued(d)' BY <2>1, <2>3 DEF Queued, TypeOK
    <3>2. QED BY <1>2, <1>3, <1>5, <1>8, <3>1, OwnedBy DEF start, Stage
  <2>4. QED BY <2>2, <2>3
<1>9. ASSUME NEW n \in 0 .. MaxRetries, run[w].pc # "idle",
             Send([doc |-> run[w].doc, retries |-> n])
      PROVE  Owned(d)'
  <2>1. PICK t \in Task : Send(t) /\ t.doc = run[w].doc BY <1>6, <1>9 DEF Task
  <2>2. PICK e \in Docs : e = t.doc BY <2>1 DEF Task
  <2>3. Queued(e)' /\ (Queued(d) => Queued(d)') BY <2>1, <2>2, SendOwns
  <2>4. QED BY <1>2, <1>3, <1>5, <2>1, <2>2, <2>3, OwnedBy
<1>10. CASE worker_lost(w) \/ redeliver(w)
  BY <1>6, <1>9, <1>10 DEF worker_lost, redeliver, TaskOf, Stage
<1>11. ASSUME run[w].pc # "idle", retry(w), run[w].doc = d => run[w].retries < MaxRetries
       PROVE  Owned(d)'
  <2>1. CASE run[w].retries < MaxRetries
    <3>1. run[w].retries + 1 \in 0 .. MaxRetries BY <1>6, <1>11, <2>1, StateAssumption
    <3>2. QED BY <1>9, <1>11, <2>1, <3>1 DEF retry
  <2>2. CASE ~(run[w].retries < MaxRetries)
    BY <1>2, <1>3, <1>5, <1>7, <1>11, <2>2, OwnedBy DEF retry
  <2>3. QED BY <2>1, <2>2
<1>12. CASE flush_stale_row(w)
  BY <1>2, <1>11, <1>12 DEF flush_stale_row, Stage
<1>13. CASE fault(w)
  <2>1. run[w].pc # "idle" /\ retry(w) /\ used.faults < MaxFaults /\ used.faults \in Nat
    BY <1>13 DEF fault, Stage, TypeOK, Counters
  <2>2. run[w].doc = d => run[w].retries < MaxRetries
    BY <1>2, <1>6, <2>1, StateAssumption, PipelineAssumption
  <2>3. QED BY <1>11, <2>1, <2>2
<1>14. ASSUME queue' = queue, NEW s \in LiveStatuses, Settle(w, s), run[w].pc \in LockedPc, s # "uploaded"
       PROVE  Owned(d)'
  <2>1. run[w].doc # d BY <1>1, <1>14, SettleRow
  <2>2. QED BY <1>2, <1>3, <1>5, <1>7, <1>14, <2>1, OwnedBy
<1>15. ASSUME queue' = queue, run[w].pc # "idle", run'[w].pc # "idle", run'[w].doc = run[w].doc
       PROVE  Owned(d)'
  <2>1. Runs(d) => Runs(d)' BY <1>4, <1>15 DEF Runs
  <2>2. QED BY <1>2, <1>3, <1>7, <1>15, <2>1, OwnedBy
<1>16. CASE flush(w) \/ parse(w) \/ extract_metadata(w) \/ chunk(w) \/ index(w)
  <2>1. /\ queue' = queue
        /\ run[w].pc # "idle"
        /\ run'[w].pc # "idle"
        /\ run'[w].doc = run[w].doc
    BY <1>16
    DEF flush, parse, extract_metadata, chunk, index, Stage, Advance, TypeOK, Run
  <2>2. QED BY <1>15, <2>1
<1>17. CASE commit(w) \/ parse_object_missing(w) \/ stage_failed(w) \/ index_failed(w)
  BY <1>14, <1>17
  DEF commit, parse_object_missing, stage_failed, index_failed, Fail, Stage, LockedPc,
      LiveStatuses
<1>18. QED
  BY <1>8, <1>10, <1>12, <1>13, <1>16, <1>17 DEF Work, Mishap

-----------------------------------------------------------------------------
LEMMA OwnedStep ==
  ASSUME MaxAborts = 0, MaxFaults <= MaxRetries, IInv, UploadedIsOwned, [Next]_vars
  PROVE  UploadedIsOwned'
<1>1. CASE Service
  BY <1>1, ServiceOwns DEF UploadedIsOwned
<1>2. ASSUME NEW w \in Workers, Work(w) \/ Mishap(w) PROVE UploadedIsOwned'
  BY <1>2, PipelineOwns DEF UploadedIsOwned
<1>3. CASE UNCHANGED vars
  BY <1>3 DEF vars, UploadedIsOwned, Owned
<1>4. QED BY <1>1, <1>2, <1>3 DEF Next, Pipeline

(* No schedule of workers, redeliveries, lost workers and failed stages     *)
(* strands a document in UPLOADED, as long as calls run to their end and    *)
(* the database faults are no more than Celery's retries.                   *)
THEOREM UploadedDocumentsAreOwned ==
  ASSUME MaxAborts = 0, MaxFaults <= MaxRetries
  PROVE  Spec => []UploadedIsOwned
<1>1. Init => UploadedIsOwned
  BY DEF Init, NoRow, UploadedIsOwned
<1>2. IInv /\ UploadedIsOwned /\ [Next]_vars => UploadedIsOwned'
  BY OwnedStep
<1>3. QED BY <1>1, <1>2, Invariance, PTL DEF Spec

-----------------------------------------------------------------------------
(***************************************************************************)
(* The stores agree when one client calls at a time, nothing is edited     *)
(* and no call is cut short.                                               *)
(***************************************************************************)

(* The three points of a deletion after which a document has lost its       *)
(* points, its raw object and its text.                                     *)
Unindexed == {"purgeRaw", "purgeText", "remove"}
Unstored  == {"purgeText", "remove"}
Untexted  == {"remove"}

(* No content enters the table.                                             *)
OldContent ==
  \A d \in Docs : Live(d)' => Live(d) /\ row'[d].hash = row[d].hash

LEMMA PipelineKeepsContent ==
  ASSUME IInv, NEW w \in Workers, Work(w) \/ Mishap(w)
  PROVE  /\ req' = req
         /\ raw' = raw
         /\ texts \subseteq texts'
         /\ vectors \subseteq vectors'
         /\ OldContent
         /\ \A d \in Docs : Live(d)' <=> Live(d)
<1> USE DEF IInv
<1>1. /\ req' = req
      /\ raw' = raw
      /\ texts \subseteq texts'
      /\ vectors \subseteq vectors'
  BY DEF Work, Mishap, start, flush, flush_stale_row, parse, parse_object_missing,
     extract_metadata, chunk, index, commit, stage_failed, index_failed, fault, worker_lost,
     redeliver, Rollback
<1>2. ASSUME NEW s \in {"indexed", "failed"}, Ends(w, s), NEW d \in Docs
      PROVE  (Live(d)' <=> Live(d)) /\ row'[d].hash = row[d].hash
  BY <1>2, SettleRow DEF Ends, Live, LiveStatuses
<1>3. ASSUME row' = row, NEW d \in Docs
      PROVE  (Live(d)' <=> Live(d)) /\ row'[d].hash = row[d].hash
  BY <1>3 DEF Live
<1>4. ASSUME NEW d \in Docs
      PROVE  (Live(d)' <=> Live(d)) /\ row'[d].hash = row[d].hash
  BY <1>2, <1>3, PipelineCases
<1> QED
  BY <1>1, <1>4 DEF OldContent

(* Only INSERT brings content in.                                           *)
LEMMA ServiceKeepsContent ==
  ASSUME IInv, TwinsInv, NEW r \in Requests, Call(r) \/ Handle(r) \/ abort(r), ~add(r)
  PROVE  OldContent
<1> USE DEF IInv
<1>1. CASE reindex_commit(r)
  BY <1>1 DEF reindex_commit, OldContent, Live, LiveStatuses, TypeOK, Row
<1>2. CASE delete_row(r)
  BY <1>2 DEF delete_row, OldContent, Live, LiveStatuses, TypeOK
<1>3. ~update_save(r)
  BY DEF update_save, At, TwinsInv
<1>4. CASE row' = row
  BY <1>4 DEF OldContent, Live
<1> QED
  BY <1>1, <1>2, <1>3, <1>4
  DEF Call, upload, upload_failed_duplicate, extract, reindex, delete, update_content, Handle,
      abort, retry_flush, retry_close, put_object, enqueue, extract_read, extract_check,
      update_put, update_drop_object, update_drop_vectors, delete_vectors, delete_raw,
      delete_text, stale_row

LEMMA OldContentIsNoTwin ==
  ASSUME OldContent
  PROVE  /\ NoTwins => NoTwins'
         /\ \A c : find_duplicate(c) = {} => find_duplicate(c)' = {}
  BY DEF OldContent, NoTwins, find_duplicate

LEMMA TwinsStep ==
  ASSUME OneClient, NoEdits, IInv, TwinsInv, [Next]_vars
  PROVE  TwinsInv'
<1> USE DEF IInv
<1>1. ASSUME NEW w \in Workers, Work(w) \/ Mishap(w) PROVE TwinsInv'
  BY <1>1, PipelineKeepsContent, OldContentIsNoTwin DEF TwinsInv
<1>2. ASSUME NEW r \in Requests, add(r) PROVE TwinsInv'
  <2>1. PICK e \in Docs :
          /\ row[e].status = "unborn"
          /\ row' = [row EXCEPT ![e] = [status |-> "uploaded", hash |-> req[r].content,
                                        text |-> None]]
          /\ req' = [req EXCEPT ![r].pc = "enqueue", ![r].doc = e]
    BY <1>2 DEF add
  <2>2. req'[r].pc = "enqueue" /\ \A q \in Requests : q = r
    BY <2>1 DEF OneClient, TypeOK, Req
  <2>3. \A d \in Docs : Live(d) => row[d].hash # req[r].content
    BY <1>2 DEF add, At, TwinsInv, find_duplicate
  <2>4. /\ row'[e].hash = req[r].content
        /\ \A d \in Docs : d # e => row'[d] = row[d]
    BY <2>1 DEF TypeOK
  <2>5. NoTwins'
    BY <2>3, <2>4 DEF NoTwins, Live, TwinsInv
  <2> QED
    BY <2>2, <2>5 DEF TwinsInv
<1>3. ASSUME NEW r \in Requests, Call(r) \/ Handle(r) \/ abort(r), ~add(r) PROVE TwinsInv'
  <2>1. OldContent
    BY <1>3, ServiceKeepsContent
  <2>2. \A q \in Requests : q = r
    BY DEF OneClient
  <2>3. req'[r].pc \notin {"putNew", "save", "dropOld", "dropStale"}
    BY SMTT(40), <1>3
    DEF TwinsInv, NoEdits, At, TypeOK, Req, Call, upload, upload_failed_duplicate, extract,
        reindex, delete, update_content, Begin, Loaded, Handle, abort, retry_flush, retry_close,
        put_object, enqueue, extract_read, extract_check, reindex_commit, update_put,
        update_save, update_drop_object, update_drop_vectors, delete_vectors, delete_raw,
        delete_text, delete_row, stale_row, Goto, Return, IdleReq
  <2>4. ASSUME req'[r].pc \in {"put", "add"}
        PROVE  find_duplicate(req'[r].content) = {}
    <3>1. CASE \E c \in Contents : upload(r, c)
      BY <3>1 DEF upload, Begin, TypeOK, Req
    <3>2. CASE put_object(r)
      BY <3>2 DEF put_object, Goto, At, TwinsInv, TypeOK, Req
    <3>3. CASE extract_check(r)
      BY <2>4, <3>3 DEF extract_check, Return, IdleReq, TypeOK, Req
    <3> QED
      BY SMTT(40), <1>3, <2>4, <3>1, <3>2, <3>3
      DEF TwinsInv, NoEdits, At, TypeOK, Req, Call, upload_failed_duplicate, extract,
          reindex, delete, update_content, Begin, Loaded, Handle, abort, retry_flush, retry_close,
          enqueue, extract_read, reindex_commit, update_put,
          update_save, update_drop_object, update_drop_vectors, delete_vectors, delete_raw,
          delete_text, delete_row, stale_row, Goto, Return, IdleReq
  <2> QED
    BY <2>1, <2>2, <2>3, <2>4, OldContentIsNoTwin DEF TwinsInv
<1>4. CASE UNCHANGED vars
  BY <1>4 DEF vars, TwinsInv, NoTwins, find_duplicate, Live
<1> QED
  BY <1>1, <1>2, <1>3, <1>4 DEF Next, Service, Pipeline

(* One client that edits nothing never stores a content twice, whatever     *)
(* workers do and whichever of its calls are cut short.                     *)
THEOREM NoContentIsStoredTwice ==
  ASSUME OneClient, NoEdits
  PROVE  Spec => []NoTwins
<1>1. Init => TwinsInv
  BY DEF Init, NoRow, IdleReq, TwinsInv, NoTwins, Live, LiveStatuses
<1>2. IInv /\ TwinsInv /\ [Next]_vars => TwinsInv'
  BY TwinsStep
<1>3. TwinsInv => NoTwins
  BY DEF TwinsInv
<1> QED
  BY <1>1, <1>2, <1>3, Invariance, PTL DEF Spec

-----------------------------------------------------------------------------
(* What a call of the one client leaves of a document that stays.           *)

StoresKept(d) ==
  /\ row'[d].hash = row[d].hash
  /\ row'[d].text = row[d].text
  /\ row'[d].status = "indexed" => row[d].status = "indexed"
  /\ \A c \in chunks : c.doc = d => c \in chunks'
  /\ \A p \in vectors : p.doc = d => p \in vectors' \/ Deleting(d, Unindexed)'
  /\ row[d].hash \in raw => row[d].hash \in raw' \/ Deleting(d, Unstored)'
  /\ row[d].hash \in texts => row[d].hash \in texts' \/ Deleting(d, Untexted)'
  /\ \A pcs \in {Unindexed, Unstored, Untexted} : Deleting(d, pcs) => Deleting(d, pcs)'

(* A deletion goes on until its row is gone.                                *)
LEMMA DeletionGoesOn ==
  ASSUME OneClient, MaxAborts = 0, IInv, NEW r \in Requests, Call(r) \/ Handle(r) \/ abort(r),
         NEW d \in Docs, Live(d)',
         NEW pcs \in {Unindexed, Unstored, Untexted}, Deleting(d, pcs)
  PROVE  Deleting(d, pcs)'
<1> USE DEF IInv
<1>1. req[r].doc = d /\ req[r].pc \in pcs
  BY DEF Deleting, OneClient
<1>2. req[r].pc \in Unindexed
  BY <1>1 DEF Unindexed, Unstored, Untexted
<1>3. ~delete_row(r)
  BY <1>1 DEF delete_row, TypeOK, Live, LiveStatuses
<1>4. ~abort(r)
  BY DEF abort, TypeOK, Counters
<1>5. delete_raw(r) \/ delete_text(r)
  BY <1>2, <1>3, <1>4
  DEF Unindexed, At, Call, upload, upload_failed_duplicate, extract, reindex, delete,
      update_content, Begin, Handle, retry_flush, retry_close, put_object, add, enqueue,
      extract_read, extract_check, reindex_commit, update_put, update_save,
      update_drop_object, update_drop_vectors, delete_vectors, stale_row
<1>6. req'[r].doc = d /\ req'[r].pc \in pcs
  BY <1>1, <1>5
  DEF delete_raw, delete_text, At, Goto, TypeOK, Req, Unindexed, Unstored, Untexted
<1> QED
  BY <1>6 DEF Deleting

LEMMA ServiceKeepsStores ==
  ASSUME OneClient, MaxAborts = 0, IInv, TwinsInv, CallsAgree,
         NEW r \in Requests, Call(r) \/ Handle(r) \/ abort(r),
         NEW d \in Docs, Live(d), Live(d)'
  PROVE  StoresKept(d)
<1> USE DEF IInv
<1>1. \A pcs \in {Unindexed, Unstored, Untexted} : Deleting(d, pcs) => Deleting(d, pcs)'
  BY DeletionGoesOn
<1>2. ~abort(r)
  BY DEF abort, TypeOK, Counters
<1>3. ~update_save(r) /\ ~update_drop_object(r) /\ ~update_drop_vectors(r) /\ ~update_put(r)
  BY DEF update_save, update_put, update_drop_object, update_drop_vectors, At, TwinsInv
<1>4. CASE add(r)
  <2>1. PICK e \in Docs :
          /\ row[e].status = "unborn"
          /\ row' = [row EXCEPT ![e] = [status |-> "uploaded", hash |-> req[r].content,
                                        text |-> None]]
    BY <1>4 DEF add
  <2>2. row'[d] = row[d]
    BY <2>1 DEF Live, LiveStatuses, TypeOK
  <2> QED
    BY <1>1, <1>4, <2>2 DEF add, StoresKept
<1>5. CASE reindex_commit(r)
  <2>1. /\ row'[d].hash = row[d].hash
        /\ row'[d].text = row[d].text
        /\ row'[d].status = "indexed" => row[d].status = "indexed"
    BY <1>5 DEF reindex_commit, TypeOK, Row
  <2> QED
    BY <1>1, <1>5, <2>1 DEF reindex_commit, StoresKept
<1>6. CASE put_object(r)
  BY <1>1, <1>6 DEF put_object, StoresKept
<1>7. CASE delete_row(r)
  <2>1. d # req[r].doc /\ row'[d] = row[d]
    BY <1>7 DEF delete_row, TypeOK, Live, LiveStatuses
  <2> QED
    BY <1>1, <1>7, <2>1 DEF delete_row, GenerationsOf, StoresKept
<1>8. CASE delete_vectors(r)
  <2>1. req'[r].doc = req[r].doc /\ req'[r].pc = "purgeRaw"
    BY <1>8 DEF delete_vectors, Goto, TypeOK, Req
  <2>2. d = req[r].doc => Deleting(d, Unindexed)'
    BY <2>1 DEF Deleting, Unindexed
  <2> QED
    BY <1>1, <1>8, <2>2 DEF delete_vectors, PointsOf, StoresKept
<1>9. CASE delete_raw(r)
  <2>1. req'[r].doc = req[r].doc /\ req'[r].pc \in Unstored
    BY <1>9 DEF delete_raw, Goto, TypeOK, Req, Unstored
  <2>2. row[d].hash = req[r].seen.hash => d = req[r].doc
    BY <1>9 DEF delete_raw, At, Purging, CallsAgree, TwinsInv, NoTwins, CallsInProgress
  <2>3. row[d].hash = req[r].seen.hash => Deleting(d, Unstored)'
    BY <2>1, <2>2 DEF Deleting
  <2> QED
    BY <1>1, <1>9, <2>3 DEF delete_raw, StoresKept
<1>10. CASE delete_text(r)
  <2>1. req'[r].doc = req[r].doc /\ req'[r].pc \in Untexted
    BY <1>10 DEF delete_text, Goto, TypeOK, Req, Untexted
  <2>2. row[d].hash # None
    BY StateAssumption DEF RowsAreFilled
  <2>3. row[d].hash = req[r].seen.text => d = req[r].doc
    BY <1>10, <2>2 DEF delete_text, At, Purging, CallsAgree, TwinsInv, NoTwins, CallsInProgress
  <2>4. row[d].hash = req[r].seen.text => Deleting(d, Untexted)'
    BY <2>1, <2>3 DEF Deleting
  <2> QED
    BY <1>1, <1>10, <2>4 DEF delete_text, StoresKept
<1>11. CASE UNCHANGED <<row, chunks, raw, texts, vectors>>
  BY <1>1, <1>11 DEF StoresKept
<1> QED
  BY <1>2, <1>3, <1>4, <1>5, <1>6, <1>7, <1>8, <1>9, <1>10, <1>11
  DEF Call, upload, upload_failed_duplicate, extract, reindex, delete, update_content, Handle,
      retry_flush, retry_close, enqueue, extract_read, extract_check, stale_row

LEMMA CallsAgreeStep ==
  ASSUME OneClient, NoEdits, MaxAborts = 0, IInv, TwinsInv, StoresInv, Service
  PROVE  CallsAgree'
<1> USE DEF IInv
<1>1. PICK r \in Requests : Call(r) \/ Handle(r) \/ abort(r)
  BY DEF Service
<1>2. \A q \in Requests : q = r
  BY DEF OneClient
<1>3. CASE \E d \in Docs : delete(r, d)
  <2>1. PICK d \in Docs : delete(r, d)
    BY <1>3
  <2>2. req'[r] = Loaded("purgeVectors", d, None) /\ row' = row /\ Live(d)
    BY <2>1 DEF delete, Begin, TypeOK
  <2>3. row[d].text \in {None, row[d].hash}
    BY <2>2 DEF StoresInv, RowAgrees
  <2> QED
    BY <1>2, <2>2, <2>3 DEF CallsAgree, Loaded, Live
<1>4. CASE put_object(r)
  BY <1>2, <1>4 DEF put_object, CallsAgree, Goto, TypeOK, Req, Purging
<1>5. CASE delete_vectors(r) \/ delete_raw(r) \/ delete_text(r)
  <2>1. /\ req'[r].pc \in Purging
        /\ req[r].pc \in Purging
        /\ req'[r].doc = req[r].doc
        /\ req'[r].seen = req[r].seen
        /\ row' = row
    BY <1>5 DEF delete_vectors, delete_raw, delete_text, At, Goto, TypeOK, Req, Purging
  <2> QED
    BY <1>2, <2>1 DEF CallsAgree, StoresInv, Live, Purging
<1>6. CASE req'[r].pc \notin Purging \cup {"add"}
  BY <1>2, <1>6 DEF CallsAgree
<1>7. ~abort(r)
  BY DEF abort, TypeOK, Counters
<1> QED
  BY SMTT(40), <1>1, <1>3, <1>4, <1>5, <1>6, <1>7
  DEF Purging, TypeOK, Req, Call, upload, upload_failed_duplicate, extract, reindex,
      update_content, Begin, Loaded, Handle, retry_flush, retry_close, add, enqueue,
      extract_read, extract_check, reindex_commit, update_put, update_save,
      update_drop_object, update_drop_vectors, delete_row, stale_row, Goto, Return, IdleReq

(* The claims about runs and rows survive the calls.                        *)
LEMMA ServiceKeepsAgreement ==
  ASSUME OneClient, NoEdits, MaxAborts = 0, IInv, TwinsInv, StoresInv, Service
  PROVE  /\ RunsAgree'
         /\ \A d \in Docs : Live(d)' => RowAgrees(d)'
<1> USE DEF IInv
<1>1. PICK r \in Requests : Call(r) \/ Handle(r) \/ abort(r)
  BY DEF Service
<1>2. CallsAgree /\ RunsAgree /\ \A d \in Docs : Live(d) => RowAgrees(d)
  BY DEF StoresInv
<1>3. ASSUME NEW d \in Docs, Live(d), Live(d)' PROVE StoresKept(d)
  BY <1>1, <1>2, <1>3, ServiceKeepsStores
<1>4. run' = run
  BY ServiceIsApiStep DEF ApiStep
<1>5. ASSUME NEW w \in Workers, run'[w].pc # "idle", Live(run[w].doc)'
      PROVE  RunAgrees(w)'
  <2> DEFINE d == run[w].doc
  <2>1. d \in Docs /\ row[d].status # "unborn" /\ run'[w] = run[w]
    BY <1>4, <1>5 DEF RunsInProgress
  <2>2. Live(d)
    <3>1. RowStep(d)
      BY <2>1, ServiceIsApiStep DEF ApiStep
    <3> QED
      BY <1>4, <1>5, <2>1, <3>1 DEF RowStep, Created, Rewritten, Deleted, Live, LiveStatuses
  <2>3. Live(d)'
    BY <1>4, <1>5
  <2>4. StoresKept(d) /\ RunAgrees(w)
    BY <1>2, <1>3, <1>4, <1>5, <2>1, <2>2, <2>3 DEF RunsAgree
  <2>5. run[w].seen.hash = row[d].hash
    BY <2>4 DEF RunAgrees
  <2>6. run[w].pc \in {"chunk", "index", "commit"} =>
          run[w].seen.hash \in texts' \/ Deleting(d, Untexted)'
    BY <2>4, <2>5 DEF RunAgrees, StoresKept, Untexted
  <2>7. run[w].pc = "commit" =>
          \/ run[w].seen.hash \in Blank
          \/ [doc |-> d, gen |-> run[w].gen] \in vectors'
          \/ Deleting(d, Unindexed)'
    BY <2>4 DEF RunAgrees, StoresKept, Unindexed
  <2>8. /\ run[w].seen.hash = row'[d].hash
        /\ run[w].seen.text \in {None, run[w].seen.hash}
    BY <2>4 DEF RunAgrees, StoresKept
  <2> QED
    BY <2>1, <2>6, <2>7, <2>8 DEF RunAgrees, Deleting, Untexted, Unindexed
<1>6. ASSUME NEW d \in Docs, Live(d)', Live(d) PROVE RowAgrees(d)'
  <2>1. StoresKept(d) /\ RowAgrees(d)
    BY <1>2, <1>3, <1>6
  <2>2. /\ row'[d].text \in {None, row'[d].hash}
        /\ row'[d].hash \in raw' \/ Deleting(d, Unstored)'
        /\ row'[d].text # None => row'[d].text \in texts' \/ Deleting(d, Untexted)'
    BY <2>1 DEF RowAgrees, StoresKept, Unstored, Untexted
  <2>3. ASSUME row'[d].status = "indexed" PROVE Searchable(d)'
    <3>1. PICK c \in chunks :
            /\ c.doc = d
            /\ c.hash = row[d].hash
            /\ \/ c.hash \in Blank
               \/ [doc |-> d, gen |-> c.gen] \in vectors
               \/ Deleting(d, Unindexed)
      BY <2>1, <2>3 DEF RowAgrees, StoresKept, Searchable, Unindexed
    <3>2. /\ c \in chunks'
          /\ c.hash = row'[d].hash
          /\ \/ c.hash \in Blank
             \/ [doc |-> d, gen |-> c.gen] \in vectors'
             \/ Deleting(d, Unindexed)'
      BY <2>1, <3>1 DEF StoresKept
    <3> QED
      BY <3>1, <3>2 DEF Searchable, Deleting, Unindexed
  <2> QED
    BY <2>2, <2>3 DEF RowAgrees, Deleting, Unstored, Untexted
<1>7. ASSUME NEW d \in Docs, Live(d)', ~Live(d) PROVE RowAgrees(d)'
  <2>1. add(r)
    BY <1>1, <1>7, ServiceKeepsContent DEF OldContent
  <2>2. PICK e \in Docs :
          row' = [row EXCEPT ![e] = [status |-> "uploaded", hash |-> req[r].content,
                                     text |-> None]]
    BY <2>1 DEF add
  <2>3. d = e
    BY <1>7, <2>2 DEF Live, TypeOK
  <2>4. row'[d] = [status |-> "uploaded", hash |-> req[r].content, text |-> None]
    BY <2>2, <2>3 DEF TypeOK
  <2>5. req[r].content \in raw'
    BY <1>2, <2>1 DEF add, At, CallsAgree
  <2> QED
    BY <2>4, <2>5 DEF RowAgrees
<1> QED
  BY <1>5, <1>6, <1>7 DEF RunsAgree

(* The run that steps has what it worked for.                               *)
LEMMA WorkKeepsRunAgreement ==
  ASSUME IInv, StoresInv, NEW w \in Workers, Work(w) \/ Mishap(w)
  PROVE  RunsAgree'
<1> USE DEF IInv
<1>1. RunsAgree /\ \A d \in Docs : Live(d) => RowAgrees(d)
  BY DEF StoresInv
<1>2. /\ req' = req
      /\ texts \subseteq texts'
      /\ vectors \subseteq vectors'
      /\ \A d \in Docs : Live(d)' => Live(d) /\ row'[d].hash = row[d].hash
  BY PipelineKeepsContent DEF OldContent
<1>3. ASSUME NEW v \in Workers, run'[v] = run[v], run'[v].pc # "idle", Live(run[v].doc)'
      PROVE  RunAgrees(v)'
  <2>1. /\ run[v].doc \in Docs
        /\ Live(run[v].doc)
        /\ row'[run[v].doc].hash = row[run[v].doc].hash
    BY <1>2, <1>3 DEF RunsInProgress
  <2>2. RunAgrees(v)
    BY <1>1, <1>3, <2>1 DEF RunsAgree
  <2> QED
    BY <1>2, <1>3, <2>1, <2>2 DEF RunAgrees, Deleting
<1>4. ASSUME NEW v \in Workers, v # w PROVE run'[v] = run[v]
  BY <1>4
  DEF Work, Mishap, start, flush, flush_stale_row, parse, parse_object_missing,
      extract_metadata, chunk, index, commit, stage_failed, index_failed, Fail, Settle, fault,
      worker_lost, redeliver, Rollback, Advance, TypeOK
<1>5. ASSUME run'[w].pc # "idle", Live(run[w].doc)' PROVE RunAgrees(w)'
  <2>1. CASE run' = run
    BY <1>3, <1>5, <2>1
  <2>2. CASE start(w) /\ run' # run
    <3>1. PICK t \in Task :
            /\ Live(t.doc)
            /\ run' = [run EXCEPT ![w] = [IdleRun EXCEPT !.pc = "flush", !.doc = t.doc,
                                             !.retries = t.retries, !.seen = row[t.doc]]]
      BY <2>2 DEF start
    <3>2. run'[w].pc = "flush" /\ run'[w].doc = t.doc /\ run'[w].seen = row[t.doc]
      BY <3>1 DEF TypeOK, IdleRun
    <3>3. t.doc \in Docs /\ row' = row
      BY <2>2 DEF start, Task
    <3>4. RowAgrees(t.doc)
      BY <1>1, <3>1, <3>3
    <3> QED
      BY <3>2, <3>3, <3>4 DEF RowAgrees, RunAgrees
  <2>3. ASSUME run[w].pc # "idle", run'[w].doc = run[w].doc, run'[w].seen = run[w].seen,
               run'[w].pc \in {"parse", "metadata", "chunk", "index", "commit"},
               run'[w].pc \in {"chunk", "index", "commit"} =>
                 \/ run[w].pc \in {"chunk", "index", "commit"}
                 \/ run[w].seen.hash \in texts',
               run'[w].pc = "commit" =>
                 \/ run[w].seen.hash \in Blank
                 \/ [doc |-> run[w].doc, gen |-> run'[w].gen] \in vectors'
        PROVE  RunAgrees(w)'
    <3>1. /\ run[w].doc \in Docs
          /\ Live(run[w].doc)
          /\ row'[run[w].doc].hash = row[run[w].doc].hash
      BY <1>2, <1>5, <2>3 DEF RunsInProgress
    <3>2. RunAgrees(w)
      BY <1>1, <2>3, <3>1 DEF RunsAgree
    <3> QED
      BY <1>2, <2>3, <3>1, <3>2 DEF RunAgrees, Deleting
  <2>4. CASE flush(w) \/ parse(w)
    <3>1. /\ run[w].pc # "idle"
          /\ run'[w].doc = run[w].doc
          /\ run'[w].seen = run[w].seen
          /\ run'[w].pc \in {"parse", "metadata"}
      BY <2>4 DEF flush, parse, Stage, Advance, TypeOK, Run
    <3> QED
      BY <2>3, <3>1
  <2>5. CASE extract_metadata(w)
    <3>1. /\ run[w].pc # "idle"
          /\ run'[w].doc = run[w].doc
          /\ run'[w].seen = run[w].seen
          /\ run'[w].pc = "chunk"
          /\ run[w].seen.hash \in texts'
      BY <2>5 DEF extract_metadata, Stage, Advance, TypeOK, Run
    <3> QED
      BY <2>3, <3>1
  <2>6. CASE chunk(w)
    <3>1. /\ run[w].pc = "chunk"
          /\ run'[w].doc = run[w].doc
          /\ run'[w].seen = run[w].seen
          /\ run'[w].pc = "index"
      BY <2>6 DEF chunk, Stage, TypeOK, Run
    <3> QED
      BY <2>3, <3>1
  <2>7. CASE index(w)
    <3>1. /\ run[w].pc = "index"
          /\ run'[w].doc = run[w].doc
          /\ run'[w].gen = run[w].gen
          /\ run'[w].seen = run[w].seen
          /\ run'[w].pc = "commit"
      BY <2>7 DEF index, Stage, Advance, TypeOK, Run
    <3>2. run[w].seen.hash \in Blank \/ [doc |-> run[w].doc, gen |-> run[w].gen] \in vectors'
      BY <2>7 DEF index
    <3> QED
      BY <2>3, <3>1, <3>2
  <2>8. CASE run'[w] = IdleRun
    BY <1>5, <2>8 DEF IdleRun
  <2> QED
    BY <2>1, <2>2, <2>4, <2>5, <2>6, <2>7, <2>8
    DEF Work, Mishap, start, flush_stale_row, parse_object_missing, commit, stage_failed,
        index_failed, Fail, Settle, fault, worker_lost, redeliver, Rollback, TypeOK
<1> QED
  BY <1>3, <1>4, <1>5 DEF RunsAgree

(* A run that ends leaves a row with its objects, and an INDEXED one with   *)
(* its chunk rows and their points.                                         *)
LEMMA WorkKeepsRowAgreement ==
  ASSUME IInv, StoresInv, NEW w \in Workers, Work(w) \/ Mishap(w), NEW d \in Docs, Live(d)'
  PROVE  RowAgrees(d)'
<1> USE DEF IInv
<1>1. RunsAgree /\ RowAgrees(d) /\ Live(d)
  BY PipelineKeepsContent DEF StoresInv
<1>2. /\ req' = req
      /\ raw' = raw
      /\ texts \subseteq texts'
      /\ vectors \subseteq vectors'
      /\ row'[d].hash = row[d].hash
  BY PipelineKeepsContent DEF OldContent
<1>3. ASSUME row'[d] = row[d], \A c \in chunks : c.doc = d => c \in chunks'
      PROVE  RowAgrees(d)'
  BY <1>1, <1>2, <1>3 DEF RowAgrees, Searchable, Deleting
<1>4. ASSUME NEW s \in {"indexed", "failed"}, Ends(w, s), s = "indexed" => commit(w)
      PROVE  RowAgrees(d)'
  <2>1. /\ run[w].pc # "idle"
        /\ s \in LiveStatuses
        /\ Settle(w, s)
    BY <1>4 DEF Ends, LockedPc, LiveStatuses
  <2>2. CASE d # run[w].doc
    <3>1. row'[d] = row[d]
      BY <1>4, <2>1, <2>2, SettleRow DEF Ends
    <3>2. ASSUME NEW c \in chunks, c.doc = d PROVE c \in chunks'
      <4>1. CASE chunks' = chunks
        BY <4>1
      <4>2. CASE run[w].pc \in {"index", "commit"} /\ \E v \in BOOLEAN : chunks' = Replacement(w, v)
        <5>1. c \notin run[w].old
          BY <2>2, <3>2, <4>2 DEF RunsReplaceAll, GenerationsOf
        <5> QED
          BY <4>2, <5>1 DEF Replacement
      <4> QED
        BY <1>4, <4>1, <4>2 DEF Ends
    <3> QED
      BY <1>3, <3>1, <3>2
  <2>3. CASE d = run[w].doc
    <3>1. RunAgrees(w)
      BY <1>1, <2>1, <2>3 DEF RunsAgree
    <3>2. /\ row'[d].status = s
          /\ row'[d].text = TextAfter(w)
      BY <1>4, <2>1, <2>3, SettleRow DEF Ends
    <3>3. /\ TextAfter(w) \in {None, row[d].hash}
          /\ TextAfter(w) # None => TextAfter(w) \in texts \/ Deleting(d, {"remove"})
      BY <1>1, <2>3, <3>1 DEF RunAgrees, RowAgrees, TextAfter
    <3>4. ASSUME s = "indexed" PROVE Searchable(d)'
      <4>1. run[w].pc = "commit" /\ \E v \in BOOLEAN : chunks' = Replacement(w, v)
        BY <1>4, <3>4 DEF commit, Stage
      <4>2. PICK v \in BOOLEAN : chunks' = Replacement(w, v)
        BY <4>1
      <4> DEFINE new == [doc |-> d, gen |-> run[w].gen, hash |-> run[w].seen.hash, vec |-> v]
      <4>3. new \in chunks' /\ new.doc = d /\ new.gen = run[w].gen /\ new.hash = row'[d].hash
        BY <1>2, <2>3, <3>1, <4>2 DEF Replacement, RunAgrees
      <4>4. \/ new.hash \in Blank
            \/ [doc |-> d, gen |-> new.gen] \in vectors'
            \/ Deleting(d, {"purgeRaw", "purgeText", "remove"})'
        BY <1>2, <2>3, <3>1, <4>1 DEF RunAgrees, Deleting
      <4> HIDE DEF new
      <4> QED
        BY <4>3, <4>4 DEF Searchable
    <3> QED
      BY <1>1, <1>2, <3>2, <3>3, <3>4 DEF RowAgrees, Deleting
  <2> QED
    BY <2>2, <2>3
<1>5. CASE commit(w)
  <2>1. Ends(w, "indexed")
    BY <1>5 DEF commit, Stage, LockedPc, Ends
  <2> QED
    BY <1>4, <1>5, <2>1
<1>6. CASE Ends(w, "failed")
  BY <1>4, <1>6
<1>7. CASE UNCHANGED <<row, chunks>>
  BY <1>3, <1>7
<1> QED
  BY <1>5, <1>6, <1>7, PipelineFates

LEMMA StoresStep ==
  ASSUME OneClient, NoEdits, MaxAborts = 0, IInv, TwinsInv, StoresInv, [Next]_vars
  PROVE  StoresInv'
<1>1. CASE Service
  BY <1>1, CallsAgreeStep, ServiceKeepsAgreement DEF StoresInv
<1>2. ASSUME NEW w \in Workers, Work(w) \/ Mishap(w) PROVE StoresInv'
  <2>1. CallsAgree'
    BY <1>2, PipelineKeepsContent
    DEF StoresInv, CallsAgree, OldContent, Purging, IInv, CallsInProgress
  <2> QED
    BY <1>2, <2>1, WorkKeepsRunAgreement, WorkKeepsRowAgreement DEF StoresInv
<1>3. CASE UNCHANGED vars
  BY <1>3
  DEF vars, StoresInv, CallsAgree, RunsAgree, RunAgrees, RowAgrees, Searchable, Deleting, Live
<1> QED
  BY <1>1, <1>2, <1>3 DEF Next, Pipeline

LEMMA StoresInvariance ==
  ASSUME OneClient, NoEdits, MaxAborts = 0
  PROVE  Spec => []StoresInv
<1>1. Init => TwinsInv /\ StoresInv
  BY DEF Init, NoRow, IdleReq, IdleRun, TwinsInv, NoTwins, Live, LiveStatuses, StoresInv,
     CallsAgree, RunsAgree, Purging
<1>2. IInv /\ TwinsInv /\ StoresInv /\ [Next]_vars => TwinsInv' /\ StoresInv'
  BY TwinsStep, StoresStep
<1> QED
  BY <1>1, <1>2, Invariance, PTL DEF Spec

LEMMA NoDeletionWhenIdle ==
  ASSUME Idle, NEW d \in Docs
  PROVE  \A pcs \in {Unindexed, Unstored, Untexted} : ~Deleting(d, pcs)
  BY DEF Idle, Deleting, Unindexed, Unstored, Untexted

(* Between the calls of one client that edits nothing, whatever workers do, *)
(* every document has its raw object and the text artifact it names: the    *)
(* content-addressed objects of one document are never another's.           *)
THEOREM DocumentsKeepTheirObjects ==
  ASSUME OneClient, NoEdits, MaxAborts = 0
  PROVE  Spec => []ObjectsKept
<1>1. StoresInv => ObjectsKept
  BY NoDeletionWhenIdle
  DEF StoresInv, RowAgrees, ObjectsKept, Unstored, Untexted
<1> QED
  BY <1>1, StoresInvariance, PTL

(* Under the same conditions an INDEXED document can be searched: it has    *)
(* chunk rows cut from its content, and their points.                       *)
THEOREM IndexedDocumentsAreSearchable ==
  ASSUME OneClient, NoEdits, MaxAborts = 0
  PROVE  Spec => []IndexedIsSearchable
<1>1. ASSUME StoresInv, Idle, NEW d \in Docs, row[d].status = "indexed"
      PROVE  \E c \in chunks :
               /\ c.doc = d
               /\ c.hash = row[d].hash
               /\ c.hash \notin Blank => [doc |-> d, gen |-> c.gen] \in vectors
  BY <1>1, NoDeletionWhenIdle
  DEF StoresInv, RowAgrees, Searchable, Live, LiveStatuses, Unindexed
<1>2. StoresInv => IndexedIsSearchable
  BY <1>1 DEF IndexedIsSearchable
<1> QED
  BY <1>2, StoresInvariance, PTL

-----------------------------------------------------------------------------
(***************************************************************************)
(* The lifecycle implements the catalogue clients rely on.                 *)
(***************************************************************************)

(* The catalogue's variables, as the tables give them.                      *)
Statuses == [d \in Docs |-> row[d].status]

Served == [d \in Docs |-> {c.gen : c \in GenerationsOf(d)}]

(* Only document d changes, and its new status is s.                        *)
OnlyRow(d, s) ==
  /\ row'[d].status = s
  /\ \A e \in Docs : e # d => row'[e] = row[e]

LEMMA StatusOfOneRow ==
  ASSUME NEW d \in Docs, NEW s, OnlyRow(d, s)
  PROVE  Statuses' = [Statuses EXCEPT ![d] = s]
<1>1. Statuses' = [e \in Docs |-> row'[e].status] BY DEF Statuses
<1>2. [Statuses EXCEPT ![d] = s] = [e \in Docs |-> IF e = d THEN s ELSE row[e].status]
  BY DEF Statuses
<1>3. \A e \in Docs : row'[e].status = IF e = d THEN s ELSE row[e].status
  BY DEF OnlyRow
<1>4. QED BY <1>1, <1>2, <1>3

LEMMA ServedStays ==
  ASSUME chunks' = chunks
  PROVE  Served' = Served
  BY DEF Served, GenerationsOf

(* The refinement mapping.                                                  *)
LEMMA Mapping ==
  /\ Catalog!Known = LiveStatuses
  /\ \A d \in Docs : Statuses[d] \in LiveStatuses <=> Live(d)
  BY DEF Catalog!Known, LiveStatuses, Statuses, Live

-----------------------------------------------------------------------------
(* A call changes one row at most, and chunk rows only with it.             *)

RowCase(d) ==
  \/ row[d].status = "unborn" /\ OnlyRow(d, "uploaded") /\ chunks' = chunks
  \/ Live(d) /\ OnlyRow(d, "uploaded") /\ chunks' = chunks
  \/ OnlyRow(d, row[d].status) /\ chunks' = chunks
  \/ /\ row[d].status # "unborn"
     /\ OnlyRow(d, "deleted")
     /\ chunks' = chunks \ GenerationsOf(d)

LEMMA ServiceCases ==
  ASSUME IInv, Service
  PROVE  UNCHANGED <<row, chunks>> \/ \E d \in Docs : RowCase(d)
<1> USE DEF IInv
<1>1. PICK r \in Requests : Call(r) \/ Handle(r) \/ abort(r)
  BY DEF Service
<1>2. CASE add(r)
  <2>1. PICK d \in Docs :
          /\ row[d].status = "unborn"
          /\ row' = [row EXCEPT ![d] = [status |-> "uploaded", hash |-> req[r].content,
                                        text |-> None]]
    BY <1>2 DEF add
  <2>2. OnlyRow(d, "uploaded") BY <2>1 DEF TypeOK, OnlyRow
  <2>3. QED BY <1>2, <2>1, <2>2 DEF add, RowCase
<1>3. CASE reindex_commit(r)
  <2>1. CASE row' = row BY <1>3, <2>1 DEF reindex_commit
  <2>2. CASE row' # row
    <3>1. req[r].doc \in Docs BY <1>3 DEF reindex_commit, At, CallsInProgress
    <3>2. OnlyRow(req[r].doc, "uploaded")
      BY <1>3, <2>2, <3>1 DEF reindex_commit, OnlyRow, TypeOK, Row
    <3>3. QED BY <1>3, <2>2, <3>1, <3>2 DEF reindex_commit, RowCase
  <2>3. QED BY <2>1, <2>2
<1>4. CASE update_save(r)
  <2>1. req[r].doc \in Docs BY <1>4 DEF update_save, At, CallsInProgress
  <2>2. OnlyRow(req[r].doc, "uploaded") \/ OnlyRow(req[r].doc, row[req[r].doc].status)
    BY <1>4, <2>1 DEF update_save, OnlyRow, TypeOK, Row
  <2>3. QED BY <1>4, <2>1, <2>2 DEF update_save, RowCase
<1>5. CASE delete_row(r)
  <2>1. req[r].doc \in Docs /\ row[req[r].doc].status # "unborn"
    BY <1>5 DEF delete_row, At, CallsInProgress
  <2>2. OnlyRow(req[r].doc, "deleted")
    BY <1>5, <2>1 DEF delete_row, OnlyRow, TypeOK
  <2>3. QED BY <1>5, <2>1, <2>2 DEF delete_row, RowCase
<1>6. CASE UNCHANGED <<row, chunks>>
  BY <1>6
<1>7. QED
  BY <1>1, <1>2, <1>3, <1>4, <1>5, <1>6
  DEF Call, upload, upload_failed_duplicate, extract, reindex, delete, update_content,
      Handle, abort, retry_flush, retry_close, put_object, enqueue, extract_read,
      extract_check, update_put, update_drop_object, update_drop_vectors,
      delete_vectors, delete_raw, delete_text, stale_row

-----------------------------------------------------------------------------
(* Each kind of step is a step of the catalogue.                            *)

LEMMA RowCaseIsCatalogStep ==
  ASSUME IInv, NEW d \in Docs, RowCase(d)
  PROVE  Catalog!CatalogNext \/ UNCHANGED <<Statuses, Served>>
<1>1. Statuses[d] = row[d].status BY DEF Statuses
<1>2. CASE row[d].status = "unborn" /\ OnlyRow(d, "uploaded") /\ chunks' = chunks
  <2>1. Catalog!Create(d)
    BY <1>1, <1>2, StatusOfOneRow, ServedStays
    DEF Catalog!Create, Catalog!Become, Statuses, Served
  <2>2. QED BY <2>1 DEF Catalog!CatalogNext
<1>3. CASE Live(d) /\ OnlyRow(d, "uploaded") /\ chunks' = chunks
  <2>1. Catalog!Invalidate(d)
    BY <1>1, <1>3, Mapping, StatusOfOneRow, ServedStays
    DEF Catalog!Invalidate, Catalog!Become, Statuses, Served
  <2>2. QED BY <2>1 DEF Catalog!CatalogNext
<1>4. CASE OnlyRow(d, row[d].status) /\ chunks' = chunks
  <2>1. Statuses' = [Statuses EXCEPT ![d] = Statuses[d]]
    BY <1>1, <1>4, StatusOfOneRow
  <2>2. QED BY <1>4, <2>1, ServedStays DEF Statuses
<1>5. CASE /\ row[d].status # "unborn"
           /\ OnlyRow(d, "deleted")
           /\ chunks' = chunks \ GenerationsOf(d)
  <2>1. Statuses' = [Statuses EXCEPT ![d] = "deleted"] BY <1>5, StatusOfOneRow
  <2>2. CASE Live(d)
    <3>1. Served' = [e \in Docs |-> IF e = d THEN {} ELSE Served[e]]
      <4>1. \A e \in Docs : GenerationsOf(e)' = IF e = d THEN {} ELSE GenerationsOf(e)
        BY <1>5 DEF GenerationsOf
      <4>2. QED BY <4>1 DEF Served
    <3>2. Served' = [Served EXCEPT ![d] = {}] BY <3>1 DEF Served
    <3>3. Catalog!Remove(d)
      BY <1>1, <2>1, <2>2, <3>2, Mapping DEF Catalog!Remove, Catalog!Become, Statuses, Served
    <3>4. QED BY <3>3 DEF Catalog!CatalogNext
  <2>3. CASE ~Live(d)
    <3>1. row[d].status = "deleted"
      BY <1>5, <2>3 DEF IInv, TypeOK, Row, Live, LiveStatuses
    <3>2. GenerationsOf(d) = {} BY <2>3 DEF IInv, NoOrphanChunks, GenerationsOf
    <3>3. chunks' = chunks BY <1>5, <3>2
    <3>4. Statuses' = Statuses BY <1>1, <2>1, <3>1 DEF Statuses
    <3>5. QED BY <3>3, <3>4, ServedStays
  <2>4. QED BY <2>2, <2>3
<1>6. QED BY <1>2, <1>3, <1>4, <1>5 DEF RowCase

LEMMA EndIsCatalogStep ==
  ASSUME IInv, NEW w \in Workers, NEW s \in {"indexed", "failed"}, Ends(w, s)
  PROVE  Catalog!CatalogNext
<1> USE DEF IInv
<1>0. PICK d \in Docs : d = run[w].doc
  BY SettleRow DEF Ends, LiveStatuses
<1>1. Live(d) /\ OnlyRow(d, s)
  BY <1>0, SettleRow DEF Ends, LiveStatuses, OnlyRow
<1>2. Statuses' = [Statuses EXCEPT ![d] = s] BY <1>1, StatusOfOneRow
<1>3. Statuses[d] \in Catalog!Known BY <1>1, Mapping
<1>4. CASE s = "failed" /\ chunks' = chunks
  <2>1. Catalog!Reject(d)
    BY <1>2, <1>3, <1>4, ServedStays DEF Catalog!Reject, Catalog!Become, Statuses, Served
  <2>2. QED BY <1>1, <2>1 DEF Catalog!CatalogNext
<1>5. CASE /\ run[w].pc \in {"index", "commit"}
           /\ \E v \in BOOLEAN : chunks' = Replacement(w, v)
  <2>1. PICK v \in BOOLEAN : chunks' = Replacement(w, v) BY <1>5
  <2>2. /\ run[w].old = GenerationsOf(d)
        /\ \A c \in GenerationsOf(d) : c.gen < run[w].gen
    BY <1>0, <1>5 DEF RunsReplaceAll
  <2> DEFINE new == [doc |-> d, gen |-> run[w].gen, hash |-> run[w].seen.hash, vec |-> v]
  <2>3. \A e \in Docs : GenerationsOf(e)' = IF e = d THEN {new} ELSE GenerationsOf(e)
    BY <1>0, <2>1, <2>2 DEF Replacement, GenerationsOf
  <2>4. ASSUME NEW e \in Docs PROVE Served'[e] = IF e = d THEN {run[w].gen} ELSE Served[e]
    <3>1. new.gen = run[w].gen OBVIOUS
    <3>2. Served'[e] = {c.gen : c \in GenerationsOf(e)'} BY DEF Served
    <3>3. GenerationsOf(e)' = IF e = d THEN {new} ELSE GenerationsOf(e) BY <2>3
    <3> HIDE DEF new
    <3>4. CASE e = d
      <4>1. {c.gen : c \in {new}} = {new.gen} OBVIOUS
      <4>2. QED BY <3>1, <3>2, <3>3, <3>4, <4>1
    <3>5. CASE e # d BY <3>2, <3>3, <3>5 DEF Served
    <3>6. QED BY <3>4, <3>5
  <2>5. Served' = [Served EXCEPT ![d] = {run[w].gen}]
    BY <2>4 DEF Served
  <2>6. \A h \in Served[d] : h < run[w].gen BY <1>1, <2>2 DEF Served
  <2>7. Served'[d] = {run[w].gen} BY <1>1, <2>4
  <2>8. Catalog!Replace(d)
    <3>1. \E g \in Served'[d] :
            /\ Served' = [Served EXCEPT ![d] = {g}]
            /\ \A h \in Served[d] : h < g
      BY <2>5, <2>6, <2>7
    <3>2. QED BY <3>1 DEF Catalog!Replace, Served
  <2>9. Catalog!Publish(d) \/ Catalog!Reject(d)
    BY <1>2, <1>3, <2>8 DEF Catalog!Publish, Catalog!Reject, Catalog!Become, Statuses
  <2>10. QED BY <1>1, <2>9 DEF Catalog!CatalogNext
<1>6. QED BY <1>4, <1>5 DEF Ends

LEMMA StepIsCatalogStep ==
  ASSUME IInv, [Next]_vars
  PROVE  [Catalog!CatalogNext]_Catalog!catalog
<1>0. Catalog!catalog = <<Statuses, Served>> /\ Catalog!catalog' = <<Statuses, Served>>'
  BY DEF Catalog!catalog, Statuses, Served
<1>1. CASE Service
  BY <1>0, <1>1, ServiceCases, RowCaseIsCatalogStep, ServedStays DEF Statuses
<1>2. ASSUME NEW w \in Workers, Work(w) \/ Mishap(w)
      PROVE  [Catalog!CatalogNext]_Catalog!catalog
  <2>1. CASE UNCHANGED <<row, chunks>>
    BY <1>0, <2>1, ServedStays DEF Statuses
  <2>2. QED BY <1>2, <2>1, PipelineCases, EndIsCatalogStep
<1>3. CASE UNCHANGED vars
  BY <1>0, <1>3, ServedStays DEF vars, Statuses
<1>4. QED BY <1>1, <1>2, <1>3 DEF Next, Pipeline

LEMMA InitIsCatalogInit == Init => Catalog!CatalogInit
  BY DEF Init, NoRow, GenerationsOf, Catalog!CatalogInit

(* Whatever calls, runs, retries and deletes overlap, what clients see of   *)
(* the tables changes only as the catalogue allows: a generation of chunks  *)
(* is replaced whole by a later run's, and goes with its document.          *)
THEOREM LifecycleImplementsCatalog == Spec => ImplementsCatalog
  BY InitIsCatalogInit, StepIsCatalogStep, Invariance, PTL
  DEF Spec, ImplementsCatalog, Catalog!CatalogSpec
=============================================================================
