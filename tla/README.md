# Verification of the Enterprise RAG platform

TLA+ models of the platform's backend, checked with TLC and proved with TLAPS.
Paths below are relative to the repository (`src/backend/app/` is written `app/`).

## 1. The system

A multi-tenant service that stores documents, ingests them in the background into
chunk rows, vectors and a knowledge graph, and answers questions over them.

| part | state it keeps | operations | talks to |
|---|---|---|---|
| documents (`domains/documents`) | `documents` rows: status, content hash, storage keys | upload, reindex, update_content, extract_to_markdown, delete, reads | object storage, vector store, task bus |
| ingestion (`domains/ingestion`, `workers/tasks`) | status and stage jobs of a document, its chunk rows | run: parse, metadata, chunk, index, graph | storage, vector store, graph store, OCR |
| task bus (`task_bus.py`, `workers/celery_app.py`) | messages in Redis | enqueue, deliver, redeliver, retry | API and workers |
| object storage, vector store (`integrations`) | objects by content-addressed key; points by organisation | put/get/delete; upsert/search/delete_by_document | — |
| chunking (`domains/chunking`) | — (pure) | recursive, semantic, parent-child, table- and code-aware chunkers | — |
| embeddings (`domains/embeddings`) | embedding versions, vector cache | get_or_create, embed_and_index | provider, cache, vector store |
| retrieval (`domains/retrieval`) | query log | dense, BM25, fusion, rerank, compression | vector store, chunk rows |
| rag (`domains/rag`) | — | answer, citations, confidence | retrieval, LLM |
| chat (`domains/chat`, `api/ws`) | conversations, messages | create, rename, delete, answer, stream | retrieval, LLM |
| agents (`domains/agents`) | runs and steps | plan, retrieve, summarise, verify, one retry | retrieval, LLM |
| graph rag (`domains/graphrag`) | entities, relations, mentions | build_from_text, query | graph store, LLM |
| evaluation (`domains/evaluation`) | datasets, samples, runs, results | create a dataset, run it, read | LLM |
| identity (`domains/identity`, `core/security.py`, `api/deps.py`) | users, organisations, memberships with a role and a status, linked accounts, keys; tokens at the clients | register, login, refresh, single sign-on, API keys, the check of permissions in every request | database, SSO provider |
| workspaces (`domains/workspaces`) | workspaces | create, list, get, delete | database |
| rate limiter (`core/ratelimit.py`) | a counter and a window per client and group of paths | allow | in front of every request |
| frontend (`frontend/src`) | tokens, page state | chat page, editor, completion, API client | API, WebSocket |
| configuration, logging, metrics, migrations, deployment | settings | — | — |

### Where it is hard

* **Two kinds of storage.** Only PostgreSQL is transactional. Objects, points and
  tasks change at once, before or after the commit that goes with them, and stay
  when a transaction rolls back.
* **Read, then write.** Handlers and runs read a row, await storage, and write
  back; sessions are READ COMMITTED and take a row lock only with the first
  flushed UPDATE.
* **At-least-once tasks.** Late acknowledgement, rejection on worker loss, a
  visibility timeout and Celery retries all deliver a task again, possibly while
  it still runs.
* **Content-addressed keys.** Two documents with one content share an object.
* **Long-lived sessions.** A WebSocket keeps one database session for all the
  turns of a chat.
* **Check, then insert.** An e-mail address, a slug, a single sign-on subject and the
  first embedding version are looked up before they are inserted; the unique keys
  decide who wins, and make the others wait for a transaction that may yet roll back.
* **Tokens outlive rights.** A token names a user and an organisation; what its owner
  may do is read anew by each request, between other people's changes of it.
* **Pages that await.** The chat page and the editor act on answers that may
  arrive after the user moved on.

What makes each part correct: documents — one document per content, objects that
exist as long as a row names them, an uploaded document always ends up indexed or
failed, what is indexed can be searched; ingestion — one run at a time per
document, chunk rows replaced whole, status and rows agree; chat — turns stored
whole and in order, a conversation's history is its own; retrieval — fusion and
compression keep every candidate once, in score order and within budget; chunking — no
word lost or moved, sizes kept, tables and definitions whole; embedding — a point holds
the vector of its own chunk, in the one version; graph — an exploration shows what is
connected and nothing else; identity — one account per e-mail and per subject, each
with a home, rights as they are and not as they were; limiter — a bounded rate, and no
refusal that was not earned; agents — at most one retry; evaluation — runs whole, and
metrics that agree with their results; frontend — a page shows the conversation it says
it shows.

## 2. Modules

| module | models |
|---|---|
| `DocumentState` | the shared tables, stores and broker; the local state of handlers and runs; `TypeOK`, `Init` |
| `DocumentService` | `document_service.py`: one action per handler step between two awaits |
| `IngestionPipeline` | `ingestion_service.py`, `workers/tasks/ingestion.py`, Celery: one action per stage, failure, retry, loss and redelivery |
| `DocumentCatalog` | abstract: what clients are promised of a document's status and chunks |
| `DocumentLifecycle` | the composition; fairness, invariants, refinement, liveness |
| `DocumentLifecycle_proofs` | the inductive invariant; nothing is forgotten; no twins, the stores agree; the refinement |
| `ChatSession` | `chat_service.py`, `api/ws/chat.py`, `routes/chat.py`: the sessions that work on one conversation |
| `ChatSession_proofs` | its inductive invariant; the memory of whole exchanges |
| `Ranking`, `Citations` | pure: fusion and packing of the context; markers and citations |
| `Retrieval` | `retrieval_service.py`, the retrievers, `rag_service.py`: one search or answer beside a corpus that changes |
| `Retrieval_proofs` | its invariant, live results, the lemmas on fusion, the citations, the packing of the context |
| `Folding_proofs` | lemmas: what a fold over a set or a sequence yields, when a recursion defines a function, sums over finite sets, texts and lists put together, the markers and citations of an answer |
| `ChatPage` | `ChatPage.tsx`, `ws.ts`: the page, its REST calls and its sockets |
| `ChatPage_proofs` | its inductive invariant, where questions go, the one live socket, what a user who waits is shown |
| `ResearchAgent` | `orchestrator.py`, `agent_service.py`: one run of the research agent and its rows |
| `Chunkers` | `domains/chunking/chunkers`: each chunker as a function of a page |
| `KnowledgeGraph` | `extraction.py`, `memory.py`: reading relations from a text, exploring them |
| `Indexing` | what a run does with a text: chunks, embedding version, vectors, graph; several runs at once |
| `Indexing_proofs` | its inductive invariants: no document is forgotten, vectors fit their chunks, explorations are exact, sizes hold, nothing is lost, structure is kept; what fails a document |
| `RateLimiter` | `ratelimit.py`: one bucket |
| `AccessState` | the tables with their unique keys, the sessions of handlers, tokens, buckets |
| `Accounts` | `auth_service.py`, `oauth_service.py`: one action per await |
| `Workspaces` | `deps.py`, `workspace_service.py`: the principal, its permission, the workspace operations |
| `Directory` | abstract: what identity promises |
| `Access` | the composition: arrival at the limiter, handling, lost requests, the administrator, the clock |
| `Access_proofs` | its inductive invariant, the authority of requests, that it implements the directory, and that the limiter is fair |
| `Evaluation` | `eval_service.py`, `heuristic.py`: datasets, runs, results, metrics |
| `Studies_proofs` | the invariants of `ResearchAgent` and `Evaluation`: contexts, grounded successes, whole timelines, whole runs, metrics |
| `MCDocuments`, `MCChat`, `MCRetrieval`, `MCAgent`, `MCPage`, `MCAccess`, `MCIndexing` | constants for TLC |

`DocumentLifecycle` composes `DocumentService` and `IngestionPipeline`, which share
`DocumentState`; `Retrieval` uses `Ranking` and `Citations`, `ResearchAgent` uses
`Citations`. How the documents change under a search is summarised in `Retrieval` by
three actions (`replace_rows`, `upsert`, `delete_by_document`): all that
`IngestionPipeline` and `DocumentService` do to rows and points, in any order.
`Indexing` looks into the stages that `IngestionPipeline` takes as single steps: there a
chunk is a generation with no content, here it is made of the text. `Access` composes
`Workspaces`, which extends `Accounts`, with `RateLimiter`, all over `AccessState`. `MCAgent`
explores the agent and the evaluation one after the other.

### Documents

`row[d]` is a `documents` row as other sessions see it; `lock[d]` is its
PostgreSQL row lock; `chunks` has one record per committed *generation*, the chunk
rows that one run wrote; `raw`/`texts` are the objects in storage; `vectors` has
one point per generation; `queue` counts deliveries per task (document, retries
so far). `req[r]` and `run[w]` are the local variables of a handler and of a run;
`seen` is the row as it was loaded. `used` counts the bounded events.

* **The unit of work of the ORM.** An UPDATE carries the columns whose value
  differs from the loaded one, so a handler that loaded UPLOADED and sets
  UPLOADED does not write the status: `update_save` and `reindex_commit` follow
  `seen.status`. An UPDATE that matches no row raises `StaleDataError`
  (`stale_row`, `flush_stale_row`); a DELETE of a row that is gone only warns.
* **Row locks** last from the first flush to the end of the transaction. The
  pipeline flushes PARSING first and commits once, so a run holds the lock from
  `flush` to its end, and the statuses in between are never seen by others.
* **Identity of data.** A raw object, its storage key and the content hash are one
  element of `Contents`; a text artifact is named by the hash of the raw bytes.
* **Failures.** Inside `try`: a stage raises and FAILED is committed with what the
  earlier stages flushed. Outside: the exception reaches the task, which retries
  up to `max_retries`. A lost worker rolls back and the task is delivered again.
* **Left out**: the graph stage (`Indexing` has it) and job rows (no other part reads
  them to decide anything), titles, sizes, languages, tenants (every query carries the
  organisation; the model is one organisation), and the inline bus of the demo mode.

### Chat

`conv` is the committed conversation (its title and whether it exists), `log` its
committed messages, `sess[s]` a database session: of a socket, which serves many
questions, or of a REST handler, which serves one. `edit` is the rename or delete in
progress. `clock` counts transactions begun.

* A message's `created_at` defaults to `now()`, which in PostgreSQL is the *start of
  the transaction*: all messages of a turn tie, and a socket's first turn carries the
  time at which it authenticated (`began`).
* A session keeps the conversation it loaded (`known`), which commits of others do
  not refresh: `expire_on_commit` is off.
* The update of the title or of `last_message_at` takes the row lock until the
  session commits; inserting a message shares the row, which only a DELETE waits for.
* `fail` is a search or a model that raises: the socket handler reports it and goes
  on in the same transaction. `db_error` is a failed statement, after which the
  session refuses work until somebody rolls back (`Break`); nobody does. `lost` is a
  client that disconnects: the session closes and rolls back.

### Retrieval and answers

`rows` and `points` are the chunks with a committed row and with a point, `born`
those that ever had a row (chunk ids are never reused), `search` the local state of
the search, `log` the committed query log. Statements run at READ COMMITTED, so the
dense list is joined with the rows of one moment and the full-text list comes from
those of a later one. What a retriever finds, and in what order, is any ranking of
what is there, and the reranker may order the candidates in any way. Scores of
the fusion are exact fractions; in floating point two sums that are equal as
fractions may differ in the last bit, in which case the order of ties differs from
the model's; no property depends on it. A chunk's digest and its token count are
constants of the instance.

### Research agent

`state` is the orchestrator's `_State`; `seen` is a history variable, the hits of the
attempt; `tx` is what its session has flushed and `db` what is committed. A search
returns any list of distinct chunks in score order, since the corpus moves between
searches. Scores are whole logits: `confidence_score >= 0.3` for an answer that does
not refuse is two citations, or one and a best score whose sigmoid is at least 0.1,
which for whole numbers is -2 or more and not exactly 0 (`if top else 0.0`).

### Chat page

JavaScript runs one task at a time, so each click, response and socket event is one
action of `page` (`selectedId`, `messages`, `streaming`). `calls` are REST calls in
flight, with what their continuation captured; `sockets` every socket opened, of
which the last is `socketRef.current`; `server` as much of the backend as answers
them (a conversation's history is the questions it answered: order and leftovers of
failed turns are `ChatSession`'s subject). After `close()` a socket delivers no more
messages and, some time later, its close event. An answer is one token and one
`done`. `calm` is a history variable: so far nothing was under way when the user
acted, no socket was replaced before it was closed, and no history failed to load.
Renaming, citations and leaving the page are not modelled.

### Chunking, embedding and the graph

A text is a sequence of symbols: words (some capitalised, which the graph takes for
names), space, newline, tab, full stop, the `|` of a table row and the keyword of a
definition. Two bars or two tabs make a line a table's; tabs are blanks as well. A chunker is a function of a page; `chunk` dispatches on the strategy as
`ChunkingService` does, unknown ones going to the recursive one. `Indexing` keeps the
committed `rows`, the embedding `versions`, the `points`, the graph's `relations` and, for each
run, the version it has flushed (`fresh`). A vector is the pair of version and content.

* Everything in one run is one transaction; points and relations are not part of it.
* The first run of an organisation inserts the embedding version. Another run that
  also found none waits for it and then fails on the unique key; the session needs a
  rollback that nobody does, so FAILED cannot be stored either, the exception leaves
  the pipeline and Celery retries (`Escape`).
* `get_embedding_cache` makes a new cache in each run, so it never has what is asked
  for; it is left out.
* The language-model extractor formats a prompt that contains braces
  (`llm.py:20-25`, `:36`), which raises `KeyError` each time: with it the graph stage
  is always the one that is skipped, and its fallback to rules (`llm.py:4`) is never
  reached. With the rule-based extractor the stage writes relations at once,
  outside the transaction, and again when a document is indexed again.
* A workspace's chunking strategy is stored and never read. The pipeline takes one as a
  parameter with a default, and the task that runs it never passes it: in production
  every document is cut by the recursive chunker, and `plan.strategy` explores what the
  pipeline can be given.
* **Left out**: Neo4j, token counts, text offsets, the numbers in vectors, page metadata.

### Identity, workspaces, the limiter

`db` is what is committed, `tx[r]` what the handler `r` has flushed; `Rows` is what its
queries see. An INSERT whose key is in another open transaction waits (`Waits`), one whose
key is committed raises `IntegrityError`, which no handler turns into an answer of its
own: 500. A request is numbered when it arrives and its number is the id of what it
inserts. `tokens` are those ever issued: a client may use any, on any of the
operations, at any later time. `held` is a history variable: the memberships a caller has
had since its request began, and whether its account was enabled or a superuser's.

* A limiter's bucket is a count and the second at which its window began; requests are
  grouped as `middleware.py` groups their paths.
* A membership has a status. `memberships.get`, by which rights are computed and a login by
  slug is let in, does not ask for it; `list_for_user`, by which a login without a slug
  chooses an organisation, takes the active ones.
* A superuser has every permission (`HasPermissions`). One whose token names no organisation
  runs into the routes' assertion that there is one: 500.
* No code changes a role, a status or a flag of a user, and none adds somebody to an
  organisation that exists or removes him; an operator does it in the database, at any
  moment (`administer`). Only the membership that came with an account is never removed.
* `abort` is a client or a connection that is lost, before the commit (rolled back)
  or after it (the answer is lost).
* The loser of a race for an e-mail address, a slug or a subject is answered 500: also
  the second of two first sign-ons of one person, though `oauth_service.py:5` says
  that the account is upserted.
* `uq_membership_org_user_ws` covers `workspace_id`, which is NULL in the memberships of
  an organisation, and so constrains nothing.
* DELETE and COMMIT of a workspace are one step: between them nobody else could do more than wait.
* **Left out**: API keys (a table no code uses), `last_login_at`, names, hashing and
  signatures (a token is genuine, a password right or wrong), the provider's side of a
  sign-on (a subject may bring any address). A random slug suffix is taken to be new.

### Evaluation

`tables` is committed, `flushed[r]` is not, `job[r]` the request. A text is its set of
content words, which is what the heuristic metrics compare; scores and means are in
thousandths, and a mean that lies between two of them may go either way, as floats
do. An empty answer is one without content words, grounded in nothing. The judge
that asks a language model is left out.

## 3. Runs

| run | instance | what it shows |
|---|---|---|
| `doc_interleavings` | 2 documents, 2 handlers, 2 workers, 3 calls of any kind, 1 aborted call, 1 redelivery | no orphan or mixed chunk rows, and every step is a step of `DocumentCatalog` |
| `doc_failures` | 1 document, 2 handlers, 2 workers, 2 calls; a failed stage, a fault, a lost worker, a redelivery; fairness | the inductive invariant, INDEXED implies embedded and lock discipline among its parts; nothing uploaded is forgotten; every document leaves UPLOADED for good |
| `doc_one_client` | 3 documents, 1 sequential client, 4 calls, no edits, one binary content, a failure, a lost worker | one document per content, objects are kept, INDEXED documents can be searched |
| `edit_race` | 1 document, 2 calls, 2 workers | violated: an edit is overwritten by FAILED |
| `chat` | 2 sockets, 1 handler, 3 questions, one failed answer, one failed statement, lost clients, one edit; fairness | answers with questions; nothing after deletion; memory in whole exchanges; turns and edits come to an end |
| `socket_units` | 1 socket, 2 questions, one failure | violated: a failed turn stays in the open transaction |
| `retrieval` | 2 documents with 4 chunks, 3 texts; top 2 of a pool of 4; 1 write; any ranking and answer | live results, what both retrievers find comes first, the best context in budget, citations that resolve |
| `search_logs` | the same | violated: an answered search is not in the log |
| `agent` | agent: 3 chunks, 3 scores, 2 sub-questions, top 1 (2 on retry), 1 extra, answers of 2 markers; evaluation: 2 organisations, 2 requests at once, 3 in all, 4 datasets, 4 answers | best context, grounded success, whole timeline; whole evaluation runs, metrics that match their results |
| `chat_page` | 2 conversations, 2 questions, 3 calls, 1 fault, fairness | questions go where they were asked, one live socket, no locked page; a user who waits sees each answer under its question |
| `access` | 2 handlers, 2 clients, up to 5 requests, 2 e-mails, 1 name, 1 subject, limit 2 in a window of 2; eight scenarios, up to 2 changes by an administrator; fairness | accounts whole or not at all, refusals without trace, tokens backed, rights no older than the request, a bounded rate and earned refusals, each request answered, and every step a step of `Directory` |
| `indexing` | every page of up to 5-9 symbols under each strategy, tables of bars and of tabs; 2 documents and 2 workers with a failure, a lost worker and a repeated ingestion; a graph of 3 names explored | no word lost, sizes kept, tables and definitions whole, vectors with their chunks, exact neighbours, no document forgotten, and a failed graph never fails a document |

Bounds. Two handlers and two workers are the least that interleave two calls, two
runs, or a call with two runs; the deepest counterexamples found need two calls and
two runs. `MaxRetries = 1` replaces Celery's 3 so that one fault spends a retry and
a second would exhaust it. `HistoryLimit = 2` replaces 8 and keeps what matters of it,
that it is even and smaller than what the sessions write. In `retrieval` the constant
of the fusion is 3 and the pool 4, the largest for which `SharedOutranks` holds; the
texts are such that the first alone, two, or only the first of a larger size fit in
the budget, and two chunks repeat one text. Scores -3, 0 and 1 of `agent` are one below the threshold, the special case zero,
and one above. In `indexing` chunks have 3 symbols with an overlap of 1, parents 4 and
children 2: pages are two or three chunks long, so that every separator falls on,
before and after every boundary, under a strategy that does not exist as well. The scenarios of `access` (`MCAccess`) each leave one thing
free: registrations, logins and sign-ons that race; ones that die; rights that change
under requests (one change, two handlers); two changes between one request and the next,
of a role, a status, a membership or a flag; a member who is added, logs in and is
removed; two organisations and their workspaces; a burst of calls over three
ticks; tokens that run out. One name for all makes every organisation and workspace
meet its slug. Of the two e-mail addresses and one subject, a subject can come back
with another address. Three requests of an evaluation are a dataset and two runs, or two
datasets of two organisations and a run. `CHECK_DEADLOCK` is off because calls, turns and writes are bounded:
once they are spent the system rightly stops. Symmetry is used in safety runs
only.

Fairness. Documents: `WF(Handle(r))`, the event loop resumes every call in progress,
and `WF(Work(w))`, a worker takes tasks and carries them on. Chat: `WF(Turn(s))` and
`WF(Edit)`. Chat page: each call in flight and each socket goes on. Access: `WF(handle(r))`, the
event loop resumes every request, and the database wakes an INSERT when the
transaction it waits for ends. Indexing states none: that a document is settled in the
end is `EventuallySettled` of the lifecycle, and `NoneIsForgotten` is its safety half. Nothing is assumed of clients, deliveries or failures.
`UploadedIsOwned` and `EventuallySettled` are about runs in which calls are not cut
short (`MaxAborts = 0`) and a task meets no more faults than it has retries: outside
these the code does lose tasks. `WorkEnds` is conditional on
`[]TurnsAreUnits`: a socket that sits on the remains of a failed turn keeps its row lock for
as long as its client stays connected, and nobody has to leave.

Each property of a passing run has a mutant (comments `Mutant:`), a plausible slip
in the code that breaks it.

## 4. What the code does not guarantee

Stated in the modules and violated by what the code does; the first three are runs
and findings of the project, the others have configurations to be run by hand.

| property | configuration | what happens |
|---|---|---|
| `EditIsServed` | `EditRace.cfg` | a run that read the row before an edit fails on the deleted object and marks the edit FAILED |
| `TurnsAreUnits` | `SocketUnits.cfg` | a failed turn keeps question, title and row lock in the socket's transaction |
| `QueriesAreLogged` | `SearchLogs.cfg` | the log row of a search is flushed and never committed |
| `NoTwins` | `DupUpload.cfg` | two uploads of one content pass the duplicate check together |
| `ObjectsKept` | `SharedObject.cfg` | an edit makes two documents share an object, the next one deletes it |
| `TaskIsIdempotent` | `TaskTwice.cfg` | a task that runs twice leaves two sets of points |
| `CleanupIsBestEffort` | `CleanupFails.cfg` | a cleanup error after the commit of an edit ends the call before it sends the task |
| `ReuploadIsCommitted` | `FailedReupload.cfg` | uploading a FAILED document again is flushed, answered and rolled back |
| `QuestionsAreTried` | `SocketTurns.cfg` | after a failed statement a socket answers every question with an error |
| `MemoryIsOrdered` | `SocketTurns.cfg` (with `-continue`) | question and answer tie in `created_at` and come back in either order |
| `TitleFromFirstQuestion` | `AutoTitle.cfg` | a stale session puts an automatic title over a chosen one |
| `SuspendedHaveNoRights` | `Suspended.cfg` (module `MCAccess`) | a membership that was suspended keeps all its permissions, and may be logged into by the organisation's slug: `membership_repository.py:26-34` does not ask for the status that `membership.py:34` keeps and `:41` and `auth_service.py:183` ("no active organization membership") go by |
| `ClassesStayIntact` | `CodeIntact.cfg` (module `MCIndexing`) | `_DEF_RE` (`code_aware.py:17`) also matches indented definitions, so a class that would fit is cut at its methods; the docstring (`:3-5`) says "a function or class stays intact" |
| `RecallIsMean` | `EvalMeans.cfg` (module `MCAgent`) | `context_recall` is summed over the samples with a ground truth and divided by all (`eval_service.py:79-80`; `:5` calls it a mean) |

So `NoStaleAuthority` is about what is asked for, roles, memberships and flags, and
`StructureIsKept` about definitions one by one. A table whose rows hold nothing but tabs
is blank to `strip` (`table_aware.py:75`) and yields no chunk; `TablesAreWhole` leaves it out.

On Qdrant `delete_by_document` raises while the organisation has no collection, that is
before any of its documents was indexed (`qdrant.py:80-94`; the in-memory store never
raises). A document cannot be deleted then, and an edit of one that failed ends before it
sends the task. The model has both outcomes of these calls: each goes on, or is cut short (`abort`). Runs and
theorems with `MaxAborts = 0` take the collection to exist.

The page makes no such promise to a user in a hurry: without `calm`, `StreamIsShown`
is violated by a history that arrives after the next question was sent, which the
comment at `ChatPage.tsx:41` means to rule out, and by the late close event of a
replaced socket; `AnswersMatch` then by tokens that go to the wrong message, and
`ShownIsSelected` by two questions asked before their conversations exist.

`SharedOutranks` has a condition, `pool <= RankConstant + 1`. With the service's 60
and four candidates per result it holds up to `top_k = 15`; the API accepts 50, and
beyond 15 a chunk that heads one list may outrank one that both lists have near their ends.

## 5. Proofs

An inductive invariant that a run also checks is defined with the model (`IInv`); the others
are at the head of the proofs that use them.

**Documents.** From `StateAssumption`, `ServiceAssumption` and `PipelineAssumption`,
for any sets of documents, handlers and workers and any bounds: `[]IInv` and its parts
`TypeOK`, `LockDiscipline`, `NoOrphanChunks`, `OneGeneration`, `IndexedIsEmbedded`
(`DocumentLifecycle_proofs`).
None of the last four is inductive. `IInv` adds what calls and runs carry between
their steps: `CallsInProgress` (a handler past its read has a document and a
content), `RunsInProgress` (a run knows an existing document, and the row is live
while it holds the lock), `RowsAreFilled`, `RunsReplaceAll` (what a run is
about to delete is still all there is) and `RetriesCounted` (a run or a task has
been retried no more often than there were faults). The argument: an API step
changes a row only while nobody holds its lock (`ApiStep`), a run changes it only at
its end (`Ends`), and between `chunk` and the end the run's lock keeps everyone else
from the chunk rows.

The refinement `Spec => Catalog!CatalogSpec`: with
`IInv`, an API step is `Create`, `Invalidate` or `Remove` of the catalogue or a stutter,
the end of a run is `Publish` or `Reject`, and everything else a stutter.
`[]UploadedIsOwned` holds under `MaxAborts = 0` and
`MaxFaults <= MaxRetries`: every step that ends an owner settles the document or
hands it to a task, by `RetriesCounted` even when the task has failed.

The agreement of the stores has the conditions the findings ask for, no more, and workers
stay as many and as unreliable as they are. With `OneClient` (one call at a time) and
`NoEdits`, `[]NoTwins`: `TwinsInv` says that content between its duplicate check
and its row is in no row. With `MaxAborts = 0` as well, `[]ObjectsKept` and
`[]IndexedIsSearchable`, from `StoresInv`: a deleting call holds what its row names
(`CallsAgree`), a run works on the content of its row and finds what it stored
(`RunsAgree`), a row finds its objects, rows and points (`RowAgrees`), each until
a call that deletes the document has passed the point where it removes just that. `MaxFaults`
is free here: stages fail, workers are lost and tasks come twice.

**Chat.** `ChatSession_proofs`: `[]ChatInv` from `ChatAssumption`, for any number of
sockets and handlers. `AnswersHaveQuestions` is not inductive, since the answer is flushed
in another step than the question; `TurnsHoldQuestions` says that past its flush a
turn holds its question in the same uncommitted set, with the same stamp, until both
are committed or neither, and `FinitelyMany` that there is always a next stamp.

`[]MemoryIsWhole` for every even `HistoryLimit` (the code's is 8). A memory is the last
messages of the log, so it needs that the log consists of pairs and that a pair is
never parted by others: `Whole` says that a stamp belongs to one turn and has both
sides of it, `OwnStamp` that what a session has flushed bears its stamp, that no one else
has it, and that a commit adds a question with its answer. Like the property, `MemoryInv`
claims this as long as no search or answer has failed.

**Retrieval.** `Retrieval_proofs`: `[]RetrievalInv` from `RankingAssumption` and
`RetrievalAssumption`, and from it `[]ResultsWereLive` and `[]SharedOutranks`.
`PoolsAreRankings` says that the two lists are rankings of no more than `pool` chunks and the
candidates their fusion; then `SharedComesFirst` follows from the arithmetic of
`TwoPlacesOutweighOne`: two places of at most `pool <= k + 1` weigh more than any
one place.

`[]ContextIsBest` and `[]CitationsResolve` are about folds, and hold of every search
because they hold of the operators. `CompressPacksBest`: after `m` chunks of the ranking,
what is kept is a selection of them in their order (`Selects`), within the budget, and
each chunk passed over found no room; `SizeRuns` gives the size of a list as the running sum
of its tokens. Citations: one of each number in the range of the context, at the place of
its first marker (`MarkersOnce`, `CitationsOnce`).

**Folds.** The library states what a fold yields with an operator for a parameter, which
the provers cannot instantiate. `Folding_proofs` goes by way of sets: `SetInduction` is
induction for a set of numbers, `FoldIsDefined` says that a step function and a way to pick
an element from a set determine a recursive function on the subsets, `FoldRuns` that
along a sequence it takes one step per element, and `SumIs`, `SumPeels`, `SumsAdd`,
`SumGrows` and `SumsOrdered` what a sum over a finite set is. Each fold of the models is then
shown to be one of these.

**Chat page.** `ChatPage_proofs`: `[]PageInv` from `PageAssumption`, for any number of
conversations, questions, calls and faults, and from it `[]QuestionsGoWhereAsked` and
`[]OneLiveSocket`. Neither is inductive alone: a question that waits for its
conversation to be created could be asked a second time, and one asked twice would change
`asked` under a socket that carries it. `QuestionsAreNew` excludes it: a
question not yet asked, or waiting with a `create` call, is in no socket and no history, and no
two calls wait with the same one. `SocketSteps` and `SocketEnsured` show that a
socket keeps its conversation, is never revived and carries nothing new but what
`Begin` gives it; `SocketsStep`, `HistoryStep` and `CallsStep` carry the parts through `Next`.

`[]CalmPageIsRight` from `CalmInv`, on top of `PageInv`. A user who waits has one call
or one answer under way, never both. `OthersAreClosed`: every socket but the last
is closed. `AnswerIsComing`: while the page streams, the last question is the one the
last socket carries or has answered, and `Coming` lists how far its answer can be, with what
the page has shown of it; else the socket is closed, at rest, or has only bad news.
`MessagesPair`: questions and answers take turns. `OneCall`: what the page shows belongs to
the selected conversation, except while its history is on its way. `ServerTurns`, `PageTurns`,
`ClicksAreCalm` and `CallsAreCalm` are the four kinds of step. TLC finds `CalmInv` kept
within the bounds of the run `chat_page` too.

**Indexing.** `Indexing_proofs`: `[]NoneIsForgotten` from `IndexingAssumption` and
`MaxRetries > 0`, for any documents, workers, texts and strategies. It is not inductive:
losing the race for the first version is survivable only if the retry does not lose it
again. `RetriesFindVersions` says so: once a task or a run has been retried, a version is committed,
because the only way to escape is to find one; then it never inserts and cannot
escape a second time. `IdleHoldNone` keeps a run's document with it until it ends, and
`Shape` are the types this rests on. With `MaxRetries = 0` the property fails, hence the condition.

`[]VectorsFit`, whatever the chunkers return: `NumbersInv` says that each run files
its points under a number of its own, `VersionInv` that there is one embedding version and
one run at most about to add it, `RunFits` what a run has stored at each of its stages,
and `RowsFit` that this is what an indexed document has. `OnlyIndexingFails`: by cases
on the steps, from the type of the plan of failures.

`[]NeighborsAreExact`, for any relations, seeds, hops and limit. `HopRun`, `WalkRun` and
`WithinRun` are the folds of the exploration and of its reference as runs of steps.
`HopFinds`: a hop over the frontier appends, once each, the neighbours not seen before,
until the limit is reached; `NeighborsAre`: as long as the limit is not, what the walk
has seen after each hop is what the reference reaches in as many, so both stop at the
same set or the limit has cut the walk short. In the state part, `GraphInv`, relations are a
sequence that only grows, so an exploration stays exact for the relations it was made of.
That they are a sequence of pairs of names rests on the types of all that makes them,
`Sentences`, `names` and `join` (`CutRun`, `NamesRun`, `JoinRun`), hence the part of
`IndexingAssumption` that says that the texts of a plan are texts.

`[]SizesHold`, for any pages, sizes and strategy, known or not. The chunkers recurse in two
places, and a recursion has to be shown to define something: `RecursionIsDefined` says that
it does when each value needs only values of smaller measure. For `split` the measure is the
length of what is left (`RestIsShorter`); for `recursive_split` it is the number of separators
that are still finer (`LevelsDescend`). Sizes are then types: `Sized(n)` are the texts of at most
`n` symbols, `PackRun` types the packing of the parts, and `RecursiveSplitsAreSized` the
result, the separator after the last part included. `Room` adds what an overlap and its
space may take. Each chunker is typed in the same way (`TableChunksFit`, `CodeChunksFit`,
`SemanticChunksFit`, where `LengthCovers` shows that the count the code keeps is no less than
the length of the joined sentences, and `ParentChunksFit`), and `SizesInv` says that
whatever a run has made or has committed (`Made`, `Written`) fits the strategy.

`[]NothingLost`, for the same pages, sizes and strategies. What a list of texts *says* is its
words in order (`Says`). `WordsTogether` and `WordsCut` are why this is easy to follow: it is a
concatenation, so a cut keeps it, and a separator, a blank at an end and the space a join adds
say nothing (`SeparatorsSayNothing`, `StripSays`, `JoinSays`). What a fold has gathered and
what is left then say the same at every step: `PackedSays` and `RecursiveSplitSays`,
`GatheredSays` for sentences, `GroupedSays` for lines and tables, `BlocksSay` for code. An
overlap repeats the end of the piece before, and what is left of the piece is the piece
(`TailSays`, `OverlapsStitch`); pieces that are stitched page by page or segment by segment are
stitched together (`StitchedTogether`). `ChunksKeep` is the result for each chunker. In a
document the parents are numbered through its pages: `KidsStayKept` and
`PagesStayKept` show that the rows of later pages leave the children and the words of
earlier ones alone. `AllSaid`, the second part of `SizesInv`, says it of what a run
has made or has committed.

`[]StructureIsKept`, for any pages and size. Tables: `segment` is followed line by line
(`Segmented`): the groups so far list the tables that have ended, and the last group is the
stretch of lines since its kind changed; at the end they are the longest runs of table lines
(`GroupsAreTables`), of which the chunker and the property drop the same, those of blanks only.
Definitions: a block begins where a definition that opens a line is led in from
(`StartsAre`), and what lies between two such places is the definition's
body up to the next, but for blanks (`BodyIsStretch`). A text is *calm* if no definition in it opens a
line after something solid. Blocks are calm, parts of calm texts are calm, and so is what
`recursive_split` packs of them, whose chunks are consecutive pieces of the block
(`PackedIsCalm`, `SplitTextIsFirm`); hence a definition that opens a line of a chunk is its
first symbol, and what follows it up to the next lies in that chunk if it fits. `AllSeen`,
the third part of `SizesInv`, says that the rows of a page, and the tables among
them, are the ones its chunker made.

The proofs changed the model three times. `split` and `recursive_split` had been written over
domains their own recursive calls leave, so that no function satisfied the equation. What a
piece repeats had only been bounded in length; it is now said to be the end of the piece
before. And a strategy nobody knows had been taken to have no overlap, in the property and in the pages
the run tried; it goes to the recursive chunker, which overlaps, and `NothingLost` failed as soon
as the run had a page long enough to show it.

**Identity and workspaces.** `Access_proofs`: `[]AccessInv` from `AccessAssumption`,
`BudgetAssumption` and `NoneIsNoToken`, for any handlers, clients, names and bounds, and
from it `[]NoStaleAuthority`, `[]EveryAccountHasAHome`, `[]RefusalsLeaveNothing`,
`WorkspacesChangeAtHome` and the refinement `Spec => D!DirectorySpec`. None of them is
inductive: what is committed was flushed steps before, while others committed. `AccessInv`
says what has to be known meanwhile:

* `RowsHaveMakers`: each row bears the number of the request that made it, which nobody
  else has and which was not refused; once committed, its maker only issues tokens.
* `HomesComeAlong`: a flushed user, organisation, membership and link belong together, and
  whoever was found in the tables is a member somewhere.
* `KeysAreUnique`: a key stands for one row, committed or open. `Inserted` shows that an
  INSERT that neither waits nor fails keeps it so.
* `TrustIsEarned`: `held` covers what the caller holds now, memberships and flags. A commit
  gives nobody a membership he had not: the new ones are in an organisation nobody had heard of.
* `AimsHold`: between the look-up of a workspace and its DELETE it stays in the
  caller's organisation, and its number is not used again.
* `FoundersStay`: an organisation keeps the member it was created with, whatever an
  administrator changes.

`OneStep` proves once what a step of one handler must show to keep all of it; `GoesOn`,
`Moves` and `Stops` specialise it to reads, INSERTs and ends, and each handler has a
lemma. For the refinement, `SessionIsPromised` maps a commit to `Register`,
`LinkKnown`, `OpenAndLink` or a stutter, `CreationIsPromised` and `DeletionIsPromised` map the
workspaces, and an administrator's change is a stutter.

**Limiter.** `[]LimitsAreFair`, for any limit, window and clients, from `LimiterInv`, which
holds of every bucket: `Counts` says that the open window began with an admitted request and
has admitted what it counts, up to the limit, and that any stretch ending just before it and
less than a window long admitted fewer than the limit; hence `Bounded`, fewer than twice
the limit in any window's length. A refusal is earned since the open window is then full.

**Agent and evaluation.** `Studies_proofs`, from `AgentAssumption` and `EvaluationAssumption`.
`[]ContextIsBestFound`: merging the hits of several searches keeps the best of
each chunk (`SearchKeepsBest`), and sorting and cutting them keeps the best of these
(`BestHoldsBest`; `SortExists` by induction, as the sort is a CHOOSE). `[]SuccessIsGrounded`
from `GroundedInv`, `[]TimelineIsWhole` from `TimelineInv`: the steps so far are
those of the attempts so far, and rows are written once they are all there.
`EvaluationSpec => []RunsAreWhole`: `JobsInv` says what a request has flushed and
scored so far, `IdsInv` that numbers are not used twice, `DatasetsAreWhole` that a dataset is
never seen without its samples; all of this across rollbacks and concurrent requests.

`[]MetricsMatchResults` from `MeasuresInv`, relative to the invariant of `RunsAreWhole`: while
a request scores, what it has flushed are results of its samples with measures in their
range, and what it is about to commit are their means. Each mean is a sum over the set of
results (`Total`), bounded by their number (`SumsOrdered`), and zero only if each summand is
(`SumOfZeros`). The attempt to prove the last conjunct, that the rate of hallucination is
zero only if every answer is supported, failed for a good reason: the rate is rounded to
thousandths, so one unsupported word in more than two thousand is not seen. The property
now has the condition `(n + 1) * Cardinality(answer) < 2000`, which is what the code provides.

Every safety invariant and action property a passing run checks is thus a theorem, for all
values of the constants the named assumptions allow. Only model-checked are the liveness properties
`EventuallySettled`, `WorkEnds`, `StreamingEnds` and `EveryCallEnds`: the provers do not reason about
ENABLED, which fairness needs.

## 6. Not modelled, and what could come next

* **API client and stores of the frontend** (`lib/api.ts`, `stores/`). Several requests that
  fail with 401 each refresh, and a refresh that fails clears the tokens another has
  stored. A model would be one of a browser, its tabs and its `localStorage`. The pages
  beside chat show one query each.
* **Demo mode**: inline task bus and in-memory stores, lost on restart.
* **Providers**: language models, embeddings, rerankers, OCR, parsers, Neo4j and Qdrant
  clients. Their answers are free choices where a property depends on them.
* **API keys**: a table no code uses. **Analytics, completion**: one statement or one call to a
  model each, with no state between requests.
* **Observability, configuration, deployment**: no protocol state. Migrations are used as
  the source of unique keys and seeded roles.
* **Job rows** of ingestion: written, never read to decide anything.

What could come next: the browser with its tabs and tokens; demo mode.
