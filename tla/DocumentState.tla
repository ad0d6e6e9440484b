--------------------------- MODULE DocumentState ---------------------------
(***************************************************************************)
(* The state that the document API and the ingestion workers share.        *)
(*                                                                         *)
(* PostgreSQL keeps the document rows, their row locks and the chunk rows; *)
(* object storage keeps raw bytes and extracted text; the vector store     *)
(* keeps points; the Celery broker keeps ingestion tasks.  Only PostgreSQL *)
(* is transactional: `row` and `chunks` are what other sessions see, i.e.  *)
(* committed data, while objects, points and tasks change at once.         *)
(*                                                                         *)
(* Data is abstracted to identity.  Storage keys are content-addressed, so *)
(* a raw object, its key and the content_hash of a row are one element of  *)
(* Contents; a text artifact is named by the hash of the raw bytes it was  *)
(* extracted from.                                                         *)
(***************************************************************************)
EXTENDS Naturals, FiniteSets

CONSTANTS
  Docs,             \* document ids (uuid4: never reused)
  Contents,         \* byte strings, identified with their SHA-256 digest
  Binary,           \* contents stored under a MIME type that is not editable
  Blank,            \* contents whose text has no chunk to embed
  TextOf,           \* TextOf[c]: the bytes of the text extracted from c
  Requests,         \* API request handlers, each with its own session
  Workers,          \* ingestion workers, each with its own session
  None,
  MaxRetries        \* Celery's max_retries

ASSUME StateAssumption ==
  /\ None \notin Docs \cup Contents \cup Requests \cup Workers
  /\ Requests \cap Workers = {}
  /\ Binary \subseteq Contents
  /\ Blank \subseteq Contents
  /\ TextOf \in [Contents -> Contents]
  /\ MaxRetries \in Nat

VARIABLES
  row,              \* the committed documents table
  lock,             \* who holds the row lock of a document
  chunks,           \* the committed generations of chunk rows
  raw,              \* raw objects in storage
  texts,            \* extracted-text objects in storage
  vectors,          \* points in the organisation's collection
  queue,            \* deliveries waiting in the broker, per task
  req,              \* request handlers: where they stand and what they read
  run,              \* pipeline runs: where they stand and what they read
  gen,              \* number of chunk generations written so far
  used              \* how much of each bound has been spent

vars == <<row, lock, chunks, raw, texts, vectors, queue, req, run, gen, used>>

-----------------------------------------------------------------------------
(* Rows.  Only these three live statuses are ever committed: a run flushes  *)
(* PARSING, CHUNKING and EMBEDDING inside its transaction.                  *)

LiveStatuses == {"uploaded", "indexed", "failed"}

Row == [status : LiveStatuses \cup {"unborn", "deleted"},
        hash   : Contents \cup {None},
        text   : Contents \cup {None}]

NoRow == [status |-> "unborn", hash |-> None, text |-> None]

Live(d) == row[d].status \in LiveStatuses

Free(d) == lock[d] = None

(* A generation is the set of chunk rows one run wrote for one document;    *)
(* `hash` is the content it was cut from and `vec` whether its rows carry a *)
(* vector_id.  A point carries the ids of its document and chunk.           *)

Generation == [doc : Docs, gen : Nat, hash : Contents \cup {None}, vec : BOOLEAN]

Point == [doc : Docs, gen : Nat]

GenerationsOf(d) == {c \in chunks : c.doc = d}

PointsOf(d) == {p \in vectors : p.doc = d}

-----------------------------------------------------------------------------
(* Tasks.  A task is the document id plus the retries already made.         *)

Task == [doc : Docs, retries : 0 .. MaxRetries]

Send(task) == queue' = [queue EXCEPT ![task] = @ + 1]

enqueue_ingestion(d) == Send([doc |-> d, retries |-> 0])

-----------------------------------------------------------------------------
(* Sessions.  A handler's local state is its position, the document and the *)
(* content it works on, and the row as it loaded it.                        *)

ReqPc == {"idle", "retry", "close", "put", "add", "extractRead", "extractCheck",
          "reindex", "putNew", "save", "dropOld", "dropStale",
          "purgeVectors", "purgeRaw", "purgeText", "remove", "enqueue"}

Req == [pc : ReqPc, doc : Docs \cup {None}, content : Contents \cup {None},
        seen : Row]

IdleReq == [pc |-> "idle", doc |-> None, content |-> None, seen |-> NoRow]

LockedPc == {"parse", "metadata", "chunk", "index", "commit"}

RunPc == {"idle", "flush"} \cup LockedPc

Run == [pc : RunPc, doc : Docs \cup {None}, retries : 0 .. MaxRetries,
        seen : Row, gen : Nat, old : SUBSET Generation]

IdleRun == [pc |-> "idle", doc |-> None, retries |-> 0, seen |-> NoRow,
            gen |-> 0, old |-> {}]

Counters == [calls : Nat, aborts : Nat, failures : Nat, faults : Nat,
             losses : Nat, redeliveries : Nat]

TypeOK ==
  /\ row \in [Docs -> Row]
  /\ lock \in [Docs -> Workers \cup Requests \cup {None}]
  /\ chunks \subseteq Generation
  /\ raw \subseteq Contents
  /\ texts \subseteq Contents
  /\ vectors \subseteq Point
  /\ queue \in [Task -> Nat]
  /\ req \in [Requests -> Req]
  /\ run \in [Workers -> Run]
  /\ gen \in Nat
  /\ used \in Counters

Init ==
  /\ row = [d \in Docs |-> NoRow]
  /\ lock = [d \in Docs |-> None]
  /\ chunks = {}
  /\ raw = {}
  /\ texts = {}
  /\ vectors = {}
  /\ queue = [t \in Task |-> 0]
  /\ req = [r \in Requests |-> IdleReq]
  /\ run = [w \in Workers |-> IdleRun]
  /\ gen = 0
  /\ used = [calls |-> 0, aborts |-> 0, failures |-> 0, faults |-> 0,
             losses |-> 0, redeliveries |-> 0]
=============================================================================
