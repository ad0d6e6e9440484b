---------------------------- MODULE ChatSession ----------------------------
(***************************************************************************)
(* One conversation, and the database sessions that work on it: WebSocket  *)
(* sessions, which serve many questions, and REST handlers, which serve    *)
(* one; beside them the REST calls that rename and delete it.              *)
(*                                                                         *)
(* A turn goes                                                             *)
(*   recent -> flush -> search -> answer -> persist -> finish              *)
(* and commits at its end only.  Its transaction began with the first      *)
(* statement after the last commit, which for a socket's first turn is the *)
(* one that authenticated it; every message is stamped with that time      *)
(* (created_at defaults to now()).  INSERT of a message shares the         *)
(* conversation's row, which only a DELETE waits for; UPDATE of its title  *)
(* or of last_message_at excludes other UPDATEs until the transaction ends.*)
(***************************************************************************)
EXTENDS Naturals, Sequences, FiniteSets

CONSTANTS
  Sockets,          \* WebSocket connections
  Handlers,         \* REST handlers that answer
  HistoryLimit,     \* _HISTORY_TURNS: messages read as memory
  MaxTurns,         \* bound: questions
  MaxConnects,      \* bound: sessions opened
  MaxFailures,      \* bound: searches and answers that raise
  MaxErrors,        \* bound: statements that the database fails
  MaxEdits          \* bound: renames and deletes

ASSUME ChatAssumption ==
  /\ Sockets \cap Handlers = {}
  /\ HistoryLimit \in Nat
  /\ \A bound \in {MaxTurns, MaxConnects, MaxFailures, MaxErrors, MaxEdits} : bound \in Nat

VARIABLES
  conv,             \* the committed conversation: does it exist, its title
  log,              \* its committed messages
  sess,             \* sessions: where they stand, what they read and wrote
  edit,             \* the rename or delete in progress
  clock,            \* transactions begun so far: the time now() returns
  used              \* how much of each bound has been spent

vars == <<conv, log, sess, edit, clock, used>>

Sessions == Sockets \cup Handlers

Title == [kind : {"default", "auto", "chosen"}, turn : Nat]

Default == [kind |-> "default", turn |-> 0]

(* A message is its turn, its role, and its created_at.                     *)
Message == [turn : Nat, role : {"user", "assistant"}, at : Nat \ {0}]

Turning == {"recent", "flush", "search", "answer", "persist", "finish"}

Session == [pc      : {"closed", "open"} \cup Turning,
            turn    : Nat,              \* the question being answered
            began   : Nat,              \* when its transaction began, or 0
            known   : Title,            \* the title in its identity map
            wrote   : BOOLEAN,          \* has it updated the conversation
            pending : SUBSET Message,   \* messages flushed, not committed
            memory  : Seq(Message),
            broken  : BOOLEAN]          \* does it need a rollback

NoMemory == <<>>

Closed == [pc |-> "closed", turn |-> 0, began |-> 0, known |-> Default, wrote |-> FALSE,
           pending |-> {}, memory |-> NoMemory, broken |-> FALSE]

TypeOK ==
  /\ conv \in [alive : BOOLEAN, title : Title]
  /\ log \subseteq Message
  /\ sess \in [Sessions -> Session]
  /\ edit \in {"none", "rename", "delete"}
  /\ clock \in Nat
  /\ used \in [turns : Nat, connects : Nat, failures : Nat, errors : Nat, edits : Nat]

Init ==
  /\ conv = [alive |-> TRUE, title |-> Default]
  /\ log = {}
  /\ sess = [s \in Sessions |-> Closed]
  /\ edit = "none"
  /\ clock = 0
  /\ used = [turns |-> 0, connects |-> 0, failures |-> 0, errors |-> 0, edits |-> 0]

-----------------------------------------------------------------------------
At(s, pc) == sess[s].pc = pc

(* No other session has an UPDATE of the conversation in its transaction.   *)
Updatable(s) == \A t \in Sessions \ {s} : ~sess[t].wrote

(* ORDER BY created_at DESC LIMIT k, reversed: ties come in any order, and  *)
(* any of them may be cut off.                                              *)
Recent(messages, k) ==
  LET n == IF Cardinality(messages) < k THEN Cardinality(messages) ELSE k IN
  {q \in [1 .. n -> messages] :
     /\ \A i, j \in 1 .. n : i < j => q[i] # q[j] /\ q[i].at <= q[j].at
     /\ \A m \in messages, j \in 1 .. n :
          (\A i \in 1 .. n : q[i] # m) => m.at <= q[j].at}

Visible(s) == log \cup sess[s].pending

Said(s, role) == [turn |-> sess[s].turn, role |-> role, at |-> sess[s].began]

(* The turn is over and the session waits for a question, its transaction   *)
(* as it is; or the session of a REST handler is closed.                    *)
Rest(s, session) ==
  sess' = [sess EXCEPT ![s] =
             IF s \in Sockets
             THEN [session EXCEPT !.pc = "open", !.turn = 0, !.memory = NoMemory]
             ELSE Closed]

(* A statement fails: the database has undone the transaction, and the      *)
(* session refuses all work until it is rolled back.                        *)
Break(s) ==
  Rest(s, [sess[s] EXCEPT !.began = 0, !.wrote = FALSE, !.pending = {}, !.broken = TRUE])

-----------------------------------------------------------------------------
(* Authentication begins a transaction; get_conversation loads the row.     *)
connect(s) ==
  /\ At(s, "closed")
  /\ conv.alive
  /\ used.connects < MaxConnects
  /\ used' = [used EXCEPT !.connects = @ + 1]
  /\ clock' = clock + 1
  /\ sess' = [sess EXCEPT ![s] = [Closed EXCEPT !.pc = "open", !.began = clock + 1,
                                                !.known = conv.title]]
  /\ UNCHANGED <<conv, log, edit>>

(* A question arrives.                                                      *)
receive(s) ==
  /\ At(s, "open")
  /\ used.turns < MaxTurns
  /\ used' = [used EXCEPT !.turns = @ + 1]
  /\ sess' = [sess EXCEPT ![s].pc = "recent", ![s].turn = used.turns + 1]
  /\ UNCHANGED <<conv, log, edit, clock>>

(* _prepare reads the memory, in a new transaction unless one is open.      *)
recent(s) ==
  /\ At(s, "recent")
  /\ ~sess[s].broken
  /\ \E q \in Recent(Visible(s), HistoryLimit) :
       sess' = [sess EXCEPT ![s].pc = "flush",
                            ![s].memory = q,
                            ![s].began = IF @ = 0 THEN clock + 1 ELSE @]
  /\ clock' = IF sess[s].began = 0 THEN clock + 1 ELSE clock
  /\ UNCHANGED <<conv, log, edit, used>>

recent_raises(s) ==
  /\ At(s, "recent")
  /\ sess[s].broken
  /\ Rest(s, sess[s])
  /\ UNCHANGED <<conv, log, edit, clock, used>>

(* The first question gives the conversation its title.                     *)
Titles(s) ==
  /\ sess[s].known.kind = "default"
  /\ ~\E i \in DOMAIN sess[s].memory : sess[s].memory[i].role = "user"

(* Mutant: the question is committed before it is answered.                 *)
flush_committing(s) ==
  /\ At(s, "flush")
  /\ conv.alive
  /\ log' = log \cup {Said(s, "user")}
  /\ sess' = [sess EXCEPT ![s].pc = "search", ![s].began = clock + 1]
  /\ clock' = clock + 1
  /\ UNCHANGED <<conv, edit, used>>

(* messages.add flushes the question, and the title with it.                *)
flush(s) ==
  /\ At(s, "flush")
  /\ conv.alive
  /\ Titles(s) => Updatable(s)
  /\ sess' = [sess EXCEPT
       ![s].pc = "search",
       ![s].pending = @ \cup {Said(s, "user")},
       ![s].wrote = @ \/ Titles(s),
       ![s].known = IF Titles(s) THEN [kind |-> "auto", turn |-> sess[s].turn] ELSE @]
  /\ UNCHANGED <<conv, log, edit, clock, used>>

(* The row is gone: the foreign key, or the UPDATE, fails.                  *)
flush_gone(s) ==
  /\ At(s, "flush")
  /\ ~conv.alive
  /\ Break(s)
  /\ UNCHANGED <<conv, log, edit, clock, used>>

(* Retrieval finds something to answer from, or nothing.                    *)
search(s) ==
  /\ At(s, "search")
  /\ \E pc \in {"answer", "persist"} : sess' = [sess EXCEPT ![s].pc = pc]
  /\ UNCHANGED <<conv, log, edit, clock, used>>

generate(s) ==
  /\ At(s, "answer")
  /\ sess' = [sess EXCEPT ![s].pc = "persist"]
  /\ UNCHANGED <<conv, log, edit, clock, used>>

_persist_assistant(s) ==
  /\ At(s, "persist")
  /\ sess' = [sess EXCEPT ![s].pc = "finish", ![s].pending = @ \cup {Said(s, "assistant")}]
  /\ UNCHANGED <<conv, log, edit, clock, used>>

(* touch updates last_message_at; then COMMIT.                              *)
finish(s) ==
  /\ At(s, "finish")
  /\ Updatable(s)
  /\ log' = log \cup sess[s].pending
  /\ conv' = IF sess[s].wrote THEN [conv EXCEPT !.title = sess[s].known] ELSE conv
  /\ Rest(s, [sess[s] EXCEPT !.began = 0, !.wrote = FALSE, !.pending = {}])
  /\ UNCHANGED <<edit, clock, used>>

-----------------------------------------------------------------------------
(* Failures.  The embedder, the stores, the reranker or the LLM raises: the *)
(* socket reports it and goes on, with its transaction open; get_db rolls   *)
(* a handler's back.                                                        *)

Raises(s) ==
  /\ sess[s].pc \in {"search", "answer"}
  /\ used.failures < MaxFailures
  /\ used' = [used EXCEPT !.failures = @ + 1]

fail(s) ==
  /\ Raises(s)
  /\ Rest(s, sess[s])
  /\ UNCHANGED <<conv, log, edit, clock>>

Errs(s) ==
  /\ sess[s].pc \in {"recent", "flush", "search", "persist", "finish"}
  /\ ~sess[s].broken
  /\ used.errors < MaxErrors
  /\ used' = [used EXCEPT !.errors = @ + 1]

(* Mutant: an error while searching is rolled back and passed over.         *)
db_error_ignored(s) ==
  /\ Errs(s)
  /\ IF At(s, "search")
     THEN sess' = [sess EXCEPT ![s].pc = "persist", ![s].wrote = FALSE, ![s].pending = {}]
     ELSE Break(s)
  /\ UNCHANGED <<conv, log, edit, clock>>

db_error(s) ==
  /\ Errs(s)
  /\ Break(s)
  /\ UNCHANGED <<conv, log, edit, clock>>

(* Mutant: the session of a lost client is not closed.                      *)
lost_leaking(s) ==
  /\ ~At(s, "closed")
  /\ sess' = [sess EXCEPT ![s].pc = "closed"]
  /\ UNCHANGED <<conv, log, edit, clock, used>>

(* The client disconnects, or the process dies: the session is closed.      *)
lost(s) ==
  /\ ~At(s, "closed")
  /\ sess' = [sess EXCEPT ![s] = Closed]
  /\ UNCHANGED <<conv, log, edit, clock, used>>

-----------------------------------------------------------------------------
(* rename_conversation and delete_conversation, each in one short session.  *)

request(op) ==
  /\ edit = "none"
  /\ used.edits < MaxEdits
  /\ used' = [used EXCEPT !.edits = @ + 1]
  /\ edit' = op
  /\ UNCHANGED <<conv, log, sess, clock>>

rename_conversation ==
  /\ edit = "rename"
  /\ conv.alive => \A s \in Sessions : ~sess[s].wrote
  /\ conv' = IF conv.alive THEN [conv EXCEPT !.title = [kind |-> "chosen", turn |-> 0]] ELSE conv
  /\ edit' = "none"
  /\ UNCHANGED <<log, sess, clock, used>>

(* Mutant: the conversation is marked deleted by an UPDATE.                 *)
delete_softly ==
  /\ edit = "delete"
  /\ conv.alive => \A s \in Sessions : ~sess[s].wrote
  /\ conv' = [conv EXCEPT !.alive = FALSE]
  /\ log' = {}
  /\ edit' = "none"
  /\ UNCHANGED <<sess, clock, used>>

(* DELETE waits for whoever shares the row; the messages go with it.        *)
delete_conversation ==
  /\ edit = "delete"
  /\ conv.alive => \A s \in Sessions : ~sess[s].wrote /\ sess[s].pending = {}
  /\ conv' = [conv EXCEPT !.alive = FALSE]
  /\ log' = {}
  /\ edit' = "none"
  /\ UNCHANGED <<sess, clock, used>>

-----------------------------------------------------------------------------
Turn(s) ==
  \/ recent(s) \/ recent_raises(s)
  \/ flush(s) \/ flush_gone(s)
  \/ search(s) \/ generate(s)
  \/ _persist_assistant(s) \/ finish(s)

Edit == rename_conversation \/ delete_conversation

Next ==
  \/ \E s \in Sessions :
       connect(s) \/ receive(s) \/ Turn(s) \/ fail(s) \/ db_error(s) \/ lost(s)
  \/ Edit \/ \E op \in {"rename", "delete"} : request(op)

Spec == Init /\ [][Next]_vars

(* Turns in progress and edits are carried on; nobody has to ask, to leave  *)
(* or to fail.                                                              *)
FairSpec == Spec /\ WF_vars(Edit) /\ \A s \in Sessions : WF_vars(Turn(s))

-----------------------------------------------------------------------------
(* An answer is committed with its question, or not at all: whatever fails  *)
(* or disconnects in between, no history shows an answer to nothing.        *)
Paired(messages) ==
  \A m \in messages : m.role = "assistant" => [m EXCEPT !.role = "user"] \in messages

AnswersHaveQuestions == Paired(log)

(* A deleted conversation keeps no message, and none is committed to it by  *)
(* a turn that was under way.                                               *)
DeletedIsEmpty ==
  ~conv.alive => log = {} /\ \A s \in Sessions : sess[s].pending = {}

(* Until a search or an answer fails, what the model is given as memory is  *)
(* whole exchanges: the limit, being even, never parts an answer from its   *)
(* question, however many sessions write to the conversation.               *)
MemoryIsWhole ==
  used.failures = 0 => \A s \in Sessions :
    LET q == sess[s].memory IN
    \A i \in DOMAIN q : \E j \in DOMAIN q : q[j].turn = q[i].turn /\ q[j].role # q[i].role

-----------------------------------------------------------------------------
(* What the repository says of the program.                                 *)

(* "transactions wrap service use cases": between questions a session has   *)
(* nothing written and not committed.                                       *)
TurnsAreUnits ==
  \A s \in Sessions : sess[s].pc = "open" => ~sess[s].wrote /\ sess[s].pending = {}

(* As long as no socket sits on the remains of a failed turn, every question*)
(* is answered or its failure reported, and every rename and delete comes to*)
(* its end, however the row locks are contended.                            *)
WorkEnds ==
  []TurnsAreUnits =>
    /\ \A s \in Sessions : sess[s].pc \in Turning ~> sess[s].pc \notin Turning
    /\ edit # "none" ~> edit = "none"

(* "report and keep the socket open": after an error was reported, the      *)
(* socket takes the next question up.                                       *)
QuestionsAreTried == \A s \in Sessions : sess[s].pc = "recent" => ~sess[s].broken

(* "roles == [user, assistant]": in the memory of a conversation a question *)
(* comes before its answer.                                                 *)
MemoryIsOrdered ==
  \A s \in Sessions :
    LET q == sess[s].memory IN
    \A i, j \in DOMAIN q : i < j /\ q[i].turn = q[j].turn => q[i].role = "user"

(* "Auto-title the conversation from its first question": an automatic      *)
(* title replaces the default one only.                                     *)
TitleFromFirstQuestion ==
  [][conv'.title # conv.title /\ conv'.title.kind = "auto" => conv.title.kind = "default"]_vars
=============================================================================
