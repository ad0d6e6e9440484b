------------------------ MODULE ChatSession_proofs ------------------------
(***************************************************************************)
(* Proofs about a conversation, for any number of sockets and handlers,    *)
(* any memory limit and any bounds.                                        *)
(***************************************************************************)
EXTENDS ChatSession, FiniteSetTheorems, TLAPS

(* Why answers have questions: past its flush a turn has its question among *)
(* what it will commit, stamped with the transaction that will stamp the    *)
(* answer.                                                                  *)
TurnsHoldQuestions ==
  \A s \in Sessions :
    /\ sess[s].pc \in Turning \ {"recent"} => sess[s].began # 0
    /\ sess[s].pc \in {"search", "answer", "persist"}
         => Said(s, "user") \in sess[s].pending
    /\ Paired(sess[s].pending)

FinitelyMany == IsFiniteSet(log) /\ \A s \in Sessions : IsFiniteSet(sess[s].pending)

ChatInv ==
  /\ TypeOK
  /\ FinitelyMany
  /\ TurnsHoldQuestions
  /\ AnswersHaveQuestions
  /\ DeletedIsEmpty

(* Why memories are whole: no two transactions share a stamp, so that of    *)
(* the messages with one stamp a turn has committed both or none.           *)
Whole(messages) ==
  /\ \A m \in messages : \E n \in messages :
       n.turn = m.turn /\ n.at = m.at /\ n.role # m.role
  /\ \A m, n \in messages : m.at = n.at => m.turn = n.turn

(* A session whose stamp is nobody else's and whose transaction holds what  *)
(* its turn has said so far, nothing more.                                  *)
OwnStamp(s) ==
  LET x == sess[s] IN
  /\ x.began <= clock
  /\ \A m \in log : m.at # x.began
  /\ \A t \in Sessions \ {s} : x.began # 0 => sess[t].began # x.began
  /\ \A m \in x.pending : m.at = x.began /\ m.turn = x.turn
  /\ x.pc \notin {"search", "answer", "persist", "finish"} => x.pending = {}
  /\ x.pc = "finish" => {Said(s, "user"), Said(s, "assistant")} \subseteq x.pending

MemoryInv ==
  used.failures = 0 =>
    /\ Whole(log)
    /\ \A m \in log : m.at <= clock
    /\ \A s \in Sessions : OwnStamp(s)
    /\ MemoryIsWhole

-----------------------------------------------------------------------------
-----------------------------------------------------------------------------
(* Messages and sessions.                                                   *)

LEMMA SaidType ==
  ASSUME NEW s \in Sessions, sess[s] \in Session, sess[s].began # 0,
         NEW role \in {"user", "assistant"}
  PROVE  /\ Said(s, role) \in Message
         /\ Said(s, role).role = role
         /\ [Said(s, "assistant") EXCEPT !.role = "user"] = Said(s, "user")
  BY DEF Said, Message, Session

LEMMA PairedQuestion ==
  ASSUME NEW s \in Sessions, NEW A, Paired(A)
  PROVE  Paired(A \cup {Said(s, "user")})
  BY DEF Paired, Said

LEMMA PairedAnswer ==
  ASSUME NEW s \in Sessions, sess[s] \in Session, sess[s].began # 0,
         NEW A, Paired(A), Said(s, "user") \in A
  PROVE  Paired(A \cup {Said(s, "assistant")})
  BY SaidType DEF Paired

LEMMA ClosedType == Closed \in Session /\ Default \in Title /\ Paired({})
  BY DEF Closed, Session, Title, Default, NoMemory, Paired

LEMMA RecentType ==
  ASSUME NEW A \in SUBSET Message, IsFiniteSet(A), NEW q \in Recent(A, HistoryLimit)
  PROVE  q \in Seq(Message)
<1>1. Cardinality(A) \in Nat /\ HistoryLimit \in Nat
  BY FS_CardinalityType, ChatAssumption
<1>2. PICK n \in Nat : q \in [1 .. n -> A]
  BY <1>1 DEF Recent
<1>3. QED BY <1>2

-----------------------------------------------------------------------------
(* What the invariant says of one session, and how a step of one session    *)
(* preserves it.                                                            *)

Sound(x, alive) ==
  /\ x \in Session
  /\ x.pc \in Turning \ {"recent"} => x.began # 0
  /\ x.pc \in {"search", "answer", "persist"}
       => [turn |-> x.turn, role |-> "user", at |-> x.began] \in x.pending
  /\ Paired(x.pending)
  /\ IsFiniteSet(x.pending)
  /\ ~alive => x.pending = {}

Kept == log' = log /\ conv' = conv /\ edit' = edit

LEMMA SessionsAreSound ==
  ASSUME ChatInv, NEW s \in Sessions
  PROVE  Sound(sess[s], conv.alive)
  BY DEF ChatInv, TypeOK, FinitelyMany, TurnsHoldQuestions, DeletedIsEmpty, Said, Sound

LEMMA OneSession ==
  ASSUME ChatInv, NEW s \in Sessions, NEW x, Sound(x, conv.alive),
         sess' = [sess EXCEPT ![s] = x], Kept,
         clock' \in Nat, used' \in [turns : Nat, connects : Nat, failures : Nat, errors : Nat, edits : Nat]
  PROVE  ChatInv'
<1>1. sess'[s] = x /\ \A t \in Sessions : t # s => sess'[t] = sess[t]
  BY DEF ChatInv, TypeOK
<1>2. \A t \in Sessions : Sound(sess'[t], conv.alive)
  BY <1>1, SessionsAreSound
<1>3. TypeOK' BY DEF ChatInv, TypeOK, Sound, Kept
<1>4. FinitelyMany' BY <1>2 DEF ChatInv, FinitelyMany, Kept, Sound
<1>5. TurnsHoldQuestions' BY <1>2 DEF TurnsHoldQuestions, Said, Sound
<1>6. AnswersHaveQuestions' /\ DeletedIsEmpty'
  BY <1>2 DEF ChatInv, AnswersHaveQuestions, DeletedIsEmpty, Kept, Sound
<1>7. QED BY <1>3, <1>4, <1>5, <1>6 DEF ChatInv

LEMMA UsedType ==
  ASSUME TypeOK, NEW f \in {"turns", "connects", "failures", "errors", "edits"},
         used' = [used EXCEPT ![f] = @ + 1]
  PROVE  used' \in [turns : Nat, connects : Nat, failures : Nat, errors : Nat, edits : Nat]
  BY DEF TypeOK

LEMMA OpenIsSound ==
  ASSUME NEW x, NEW alive, Sound(x, alive)
  PROVE  Sound([x EXCEPT !.pc = "open", !.turn = 0, !.memory = NoMemory], alive)
<1> DEFINE y == [x EXCEPT !.pc = "open", !.turn = 0, !.memory = NoMemory]
<1>1. NoMemory \in Seq(Message) BY DEF NoMemory
<1>2. y \in Session BY <1>1 DEF Sound, Session
<1>3. y.pc = "open" /\ y.pending = x.pending BY DEF Sound, Session
<1>4. QED BY <1>2, <1>3 DEF Sound, Turning

LEMMA ClosedIsSound ==
  ASSUME NEW alive
  PROVE  Sound(Closed, alive)
<1>1. Closed.pending = {} /\ Closed.pc = "closed" BY DEF Closed
<1>2. QED BY <1>1, ClosedType, FS_EmptySet DEF Sound, Turning

LEMMA BrokenIsSound ==
  ASSUME NEW x, NEW alive, Sound(x, alive)
  PROVE  Sound([x EXCEPT !.pc = "open", !.turn = 0, !.memory = NoMemory, !.began = 0,
                         !.wrote = FALSE, !.pending = {}, !.broken = TRUE], alive)
<1> DEFINE y == [x EXCEPT !.pc = "open", !.turn = 0, !.memory = NoMemory, !.began = 0,
                          !.wrote = FALSE, !.pending = {}, !.broken = TRUE]
<1>1. NoMemory \in Seq(Message) BY DEF NoMemory
<1>2. y \in Session BY <1>1 DEF Sound, Session
<1>3. y.pc = "open" /\ y.pending = {} BY DEF Sound, Session
<1>4. QED BY <1>2, <1>3, ClosedType, FS_EmptySet DEF Sound, Turning

(* A session at rest, rolled back or as the turn left it, is sound.         *)
LEMMA RestIsSound ==
  ASSUME ChatInv, NEW s \in Sessions, NEW x, Sound(x, conv.alive), Rest(s, x), Kept,
         clock' \in Nat, used' \in [turns : Nat, connects : Nat, failures : Nat, errors : Nat, edits : Nat]
  PROVE  ChatInv'
<1>1. CASE s \in Sockets
  BY <1>1, OpenIsSound, OneSession DEF Rest
<1>2. CASE s \notin Sockets
  BY <1>2, ClosedIsSound, OneSession DEF Rest
<1>3. QED BY <1>1, <1>2

-----------------------------------------------------------------------------
LEMMA BreakStep ==
  ASSUME ChatInv, NEW s \in Sessions, Break(s), Kept, UNCHANGED clock,
         used' \in [turns : Nat, connects : Nat, failures : Nat, errors : Nat, edits : Nat]
  PROVE  ChatInv'
<1> DEFINE y == [sess[s] EXCEPT !.pc = "open", !.turn = 0, !.memory = NoMemory, !.began = 0,
                                !.wrote = FALSE, !.pending = {}, !.broken = TRUE]
<1>1. Sound(y, conv.alive) BY SessionsAreSound, BrokenIsSound
<1>2. sess' = [sess EXCEPT ![s] = y] \/ sess' = [sess EXCEPT ![s] = Closed]
  BY SessionsAreSound DEF Break, Rest, Sound, Session
<1>3. clock' \in Nat BY DEF ChatInv, TypeOK
<1>4. QED BY <1>1, <1>2, <1>3, ClosedIsSound, OneSession

LEMMA TurnStep ==
  ASSUME ChatInv, NEW s \in Sessions, Turn(s) \/ connect(s) \/ receive(s)
  PROVE  ChatInv'
<1> DEFINE x == sess[s]
<1>0. Sound(x, conv.alive) BY SessionsAreSound
<1>1. TypeOK BY DEF ChatInv
<1>2. ASSUME NEW y, Sound(y, conv.alive), sess' = [sess EXCEPT ![s] = y], Kept,
             clock' \in Nat, UNCHANGED used
      PROVE  ChatInv'
  BY <1>1, <1>2, OneSession DEF TypeOK
<1>3. CASE connect(s)
  <2> DEFINE y == [Closed EXCEPT !.pc = "open", !.began = clock + 1, !.known = conv.title]
  <2>1. Sound(y, conv.alive)
    <3>1. Closed \in Session /\ Closed.pending = {} BY ClosedType DEF Closed
    <3>2. y \in Session
      <4>1. clock + 1 \in Nat /\ conv.title \in Title BY <1>1 DEF TypeOK
      <4>2. QED BY <3>1, <4>1 DEF Session
    <3>3. y.pc = "open" /\ y.pending = {} BY <3>1 DEF Session
    <3>4. QED BY <3>2, <3>3, ClosedType, FS_EmptySet DEF Sound, Turning
  <2>2. /\ sess' = [sess EXCEPT ![s] = y] /\ Kept /\ clock' \in Nat
        /\ used' = [used EXCEPT !["connects"] = @ + 1]
    <3>1. clock + 1 \in Nat BY <1>1 DEF TypeOK
    <3>2. sess' = [sess EXCEPT ![s] = y] BY <1>3 DEF connect
    <3>3. clock' = clock + 1 /\ Kept BY <1>3 DEF connect, Kept
    <3>4. used' = [used EXCEPT !["connects"] = @ + 1] BY <1>3 DEF connect
    <3>5. QED BY <3>1, <3>2, <3>3, <3>4
  <2>3. QED BY <1>1, <2>1, <2>2, UsedType, OneSession
<1>4. CASE receive(s)
  <2> DEFINE y == [x EXCEPT !.pc = "recent", !.turn = used.turns + 1]
  <2>1. Sound(y, conv.alive)
    <3>1. y \in Session
      <4>1. used.turns + 1 \in Nat BY <1>1 DEF TypeOK
      <4>2. QED BY <1>0, <4>1 DEF Sound, Session, Turning
    <3>2. y.pc = "recent" /\ y.pending = x.pending BY <1>0 DEF Sound, Session
    <3>3. QED BY <1>0, <3>1, <3>2 DEF Sound
  <2>2. /\ sess' = [sess EXCEPT ![s] = y] /\ Kept /\ clock' \in Nat
        /\ used' = [used EXCEPT !["turns"] = @ + 1]
    BY <1>1, <1>4 DEF receive, Kept, TypeOK
  <2>3. QED BY <1>1, <2>1, <2>2, UsedType, OneSession
<1>5. CASE recent(s)
  <2>1. PICK q \in Recent(Visible(s), HistoryLimit) :
          sess' = [sess EXCEPT ![s].pc = "flush", ![s].memory = q,
                               ![s].began = IF @ = 0 THEN clock + 1 ELSE @]
    BY <1>5 DEF recent
  <2>2. q \in Seq(Message)
    <3>1. Visible(s) \in SUBSET Message /\ IsFiniteSet(Visible(s))
      BY <1>0, FS_Union DEF ChatInv, TypeOK, FinitelyMany, Visible, Session, Sound
    <3>2. QED BY <3>1, RecentType
  <2> DEFINE began == IF x.began = 0 THEN clock + 1 ELSE x.began
             y == [x EXCEPT !.pc = "flush", !.memory = q, !.began = began]
  <2>3. Sound(y, conv.alive)
    <3>0. began \in Nat \ {0} BY <1>0, <1>1 DEF TypeOK, Sound, Session
    <3> HIDE DEF began
    <3>1. y \in Session BY <1>0, <2>2, <3>0 DEF Sound, Session, Turning
    <3>2. y.pc = "flush" /\ y.began # 0 /\ y.pending = x.pending
      BY <1>0, <3>0 DEF Sound, Session
    <3>3. QED BY <1>0, <3>1, <3>2 DEF Sound
  <2>4. sess' = [sess EXCEPT ![s] = y] BY <1>1, <2>1 DEF TypeOK, Session
  <2>5. clock' \in Nat
    <3>1. clock \in Nat /\ clock + 1 \in Nat BY <1>1 DEF TypeOK
    <3>2. clock' = clock + 1 \/ clock' = clock BY <1>5 DEF recent
    <3>3. QED BY <3>1, <3>2
  <2>6. UNCHANGED used /\ Kept BY <1>5 DEF recent, Kept
  <2>7. QED BY <1>2, <2>3, <2>4, <2>5, <2>6
<1>6. CASE recent_raises(s)
  BY <1>0, <1>1, <1>6, RestIsSound DEF recent_raises, Kept, TypeOK
<1>7. CASE flush(s)
  <2> DEFINE title == IF Titles(s) THEN [kind |-> "auto", turn |-> x.turn] ELSE x.known
             y == [x EXCEPT !.pc = "search", !.pending = @ \cup {Said(s, "user")},
                            !.wrote = @ \/ Titles(s), !.known = title]
  <2>1. x \in Session /\ x.began # 0 /\ conv.alive
    BY <1>0, <1>7 DEF flush, At, Sound, Turning
  <2>2. Said(s, "user") \in Message BY <2>1, SaidType
  <2>3. title \in Title BY <2>1 DEF Session, Title
  <2>4. y \in Session
    <3>1. (x.wrote \/ Titles(s)) \in BOOLEAN BY <2>1 DEF Session, Titles
    <3>2. QED BY <2>1, <2>2, <2>3, <3>1 DEF Session, Turning
  <2>5. /\ y.pc = "search" /\ y.began = x.began /\ y.turn = x.turn
        /\ y.pending = x.pending \cup {Said(s, "user")}
    BY <2>1 DEF Session
  <2>6. Paired(y.pending) /\ IsFiniteSet(y.pending)
    BY <1>0, <2>5, PairedQuestion, FS_AddElement DEF Sound
  <2>7. Sound(y, conv.alive) BY <2>1, <2>4, <2>5, <2>6 DEF Sound, Said
  <2>8. sess' = [sess EXCEPT ![s] = y] BY <1>1, <1>7 DEF flush, TypeOK, Session
  <2>9. QED BY <1>1, <1>2, <1>7, <2>7, <2>8 DEF flush, Kept, TypeOK
<1>8. CASE flush_gone(s)
  <2>1. UNCHANGED used /\ UNCHANGED clock /\ Kept /\ Break(s)
    BY <1>8 DEF flush_gone, Kept
  <2>2. QED BY <1>1, <2>1, BreakStep DEF TypeOK
<1>9. CASE search(s) \/ generate(s)
  <2>1. PICK pc \in {"answer", "persist"} : sess' = [sess EXCEPT ![s].pc = pc]
    BY <1>9 DEF search, generate
  <2>2. x.pc \in {"search", "answer"} BY <1>9 DEF search, generate, At
  <2> DEFINE y == [x EXCEPT !.pc = pc]
  <2>3. Sound(y, conv.alive) BY <1>0, <2>2 DEF Sound, Session, Turning
  <2>4. sess' = [sess EXCEPT ![s] = y] BY <1>1, <2>1 DEF TypeOK
  <2>5. QED BY <1>1, <1>2, <1>9, <2>3, <2>4 DEF search, generate, Kept, TypeOK
<1>10. CASE _persist_assistant(s)
  <2> DEFINE y == [x EXCEPT !.pc = "finish", !.pending = @ \cup {Said(s, "assistant")}]
  <2>1. x \in Session /\ x.began # 0 /\ Said(s, "user") \in x.pending
    BY <1>0, <1>10 DEF _persist_assistant, At, Sound, Turning, Said
  <2>2. Said(s, "assistant") \in Message BY <2>1, SaidType
  <2>3. y \in Session BY <2>1, <2>2 DEF Session, Turning
  <2>4. /\ y.pc = "finish" /\ y.began = x.began
        /\ y.pending = x.pending \cup {Said(s, "assistant")}
    BY <2>1 DEF Session
  <2>5. Paired(y.pending) /\ IsFiniteSet(y.pending)
    BY <1>0, <2>1, <2>4, PairedAnswer, FS_AddElement DEF Sound
  <2>6. conv.alive BY <1>0, <2>1 DEF Sound
  <2>7. Sound(y, conv.alive) BY <2>1, <2>3, <2>4, <2>5, <2>6 DEF Sound
  <2>8. sess' = [sess EXCEPT ![s] = y] BY <1>1, <1>10 DEF _persist_assistant, TypeOK, Session
  <2>9. QED BY <1>1, <1>2, <1>10, <2>7, <2>8 DEF _persist_assistant, Kept, TypeOK
<1>11. CASE finish(s)
  <2> DEFINE y == [x EXCEPT !.began = 0, !.wrote = FALSE, !.pending = {}, !.pc = "open", !.turn = 0, !.memory = NoMemory]
  <2>1. x \in Session /\ x.pending \subseteq Message BY <1>0 DEF Sound, Session
  <2>2. y \in Session
    <3>1. NoMemory \in Seq(Message) BY DEF NoMemory
    <3>2. QED BY <2>1, <3>1 DEF Session
  <2>3. y.pc = "open" /\ y.pending = {} BY <2>1 DEF Session
  <2>4. \A alive : Sound(y, alive) /\ Sound(Closed, alive)
    BY <2>2, <2>3, ClosedType, ClosedIsSound, FS_EmptySet DEF Sound, Turning
  <2>5. sess' = [sess EXCEPT ![s] = y] \/ sess' = [sess EXCEPT ![s] = Closed]
    BY <1>11, <2>1 DEF finish, Rest, Session
  <2>6. \A t \in Sessions : t # s => sess'[t] = sess[t] BY <1>1, <2>5 DEF TypeOK
  <2>7. sess'[s] = y \/ sess'[s] = Closed BY <1>1, <2>5 DEF TypeOK
  <2>8. conv' \in [alive : BOOLEAN, title : Title] /\ conv'.alive = conv.alive
    BY <1>1, <1>11, <2>1 DEF finish, TypeOK, Session
  <2>9. \A t \in Sessions : Sound(sess'[t], conv'.alive)
    BY <2>4, <2>6, <2>7, <2>8, SessionsAreSound
  <2>10. log' = log \cup x.pending BY <1>11 DEF finish
  <2>11. TypeOK'
    BY <1>1, <1>11, <2>1, <2>5, <2>8, <2>9, <2>10 DEF finish, TypeOK, Sound
  <2>12. FinitelyMany'
    BY <1>0, <2>9, <2>10, FS_Union DEF ChatInv, FinitelyMany, Sound
  <2>13. TurnsHoldQuestions' BY <2>9 DEF TurnsHoldQuestions, Said, Sound
  <2>14. AnswersHaveQuestions'
    BY <1>0, <2>10 DEF ChatInv, AnswersHaveQuestions, Paired, Sound
  <2>15. DeletedIsEmpty'
    BY <1>0, <2>8, <2>9, <2>10 DEF ChatInv, DeletedIsEmpty, Sound
  <2>16. QED BY <2>11, <2>12, <2>13, <2>14, <2>15 DEF ChatInv
<1>12. QED
  BY <1>3, <1>4, <1>5, <1>6, <1>7, <1>8, <1>9, <1>10, <1>11 DEF Turn

LEMMA FailureStep ==
  ASSUME ChatInv, NEW s \in Sessions, fail(s) \/ db_error(s) \/ lost(s)
  PROVE  ChatInv'
<1>0. Sound(sess[s], conv.alive) /\ TypeOK BY SessionsAreSound DEF ChatInv
<1>1. CASE fail(s)
  <2>1. used' = [used EXCEPT !["failures"] = @ + 1] BY <1>1 DEF fail, Raises
  <2>2. QED BY <1>0, <1>1, <2>1, UsedType, RestIsSound DEF fail, Kept, TypeOK
<1>2. CASE db_error(s)
  <2>1. used' = [used EXCEPT !["errors"] = @ + 1] BY <1>2 DEF db_error, Errs
  <2>2. QED BY <1>0, <1>2, <2>1, UsedType, BreakStep DEF db_error, Kept
<1>3. CASE lost(s)
  BY <1>0, <1>3, ClosedIsSound, OneSession DEF lost, Kept, TypeOK
<1>4. QED BY <1>1, <1>2, <1>3

LEMMA EditStep ==
  ASSUME ChatInv, Edit \/ \E op \in {"rename", "delete"} : request(op)
  PROVE  ChatInv'
<1>1. sess' = sess BY DEF Edit, rename_conversation, delete_conversation, request
<1>2. CASE rename_conversation
  <2>1. conv' \in [alive : BOOLEAN, title : Title] /\ conv'.alive = conv.alive
    BY <1>2 DEF rename_conversation, ChatInv, TypeOK, Title
  <2>2. QED
    BY <1>1, <1>2, <2>1
    DEF rename_conversation, ChatInv, TypeOK, FinitelyMany, TurnsHoldQuestions,
        AnswersHaveQuestions, DeletedIsEmpty, Said
<1>3. CASE delete_conversation
  <2>1. conv' \in [alive : BOOLEAN, title : Title]
    BY <1>3 DEF delete_conversation, ChatInv, TypeOK
  <2>2. DeletedIsEmpty'
    BY <1>1, <1>3 DEF delete_conversation, ChatInv, DeletedIsEmpty
  <2>3. QED
    BY <1>1, <1>3, <2>1, <2>2, ClosedType, FS_EmptySet
    DEF delete_conversation, ChatInv, TypeOK, FinitelyMany, TurnsHoldQuestions,
        AnswersHaveQuestions, Said
<1>4. ASSUME NEW op \in {"rename", "delete"}, request(op) PROVE ChatInv'
  <2>1. used' = [used EXCEPT !["edits"] = @ + 1] BY <1>4 DEF request
  <2>2. used' \in [turns : Nat, connects : Nat, failures : Nat, errors : Nat, edits : Nat]
    BY <2>1, UsedType DEF ChatInv
  <2>3. QED
    BY <1>1, <1>4, <2>2
    DEF request, ChatInv, TypeOK, FinitelyMany, TurnsHoldQuestions,
        AnswersHaveQuestions, DeletedIsEmpty, Said
<1>5. QED BY <1>2, <1>3, <1>4 DEF Edit

-----------------------------------------------------------------------------
LEMMA InitChatInv == Init => ChatInv
<1> SUFFICES ASSUME Init PROVE ChatInv
  OBVIOUS
<1>1. \A s \in Sessions : sess[s] = Closed BY DEF Init
<1>2. Closed.pc = "closed" /\ Closed.pending = {} BY DEF Closed
<1>3. TypeOK BY ClosedType DEF Init, TypeOK
<1>4. FinitelyMany BY <1>1, <1>2, FS_EmptySet DEF Init, FinitelyMany
<1>5. TurnsHoldQuestions BY <1>1, <1>2, ClosedType DEF TurnsHoldQuestions, Turning
<1>6. AnswersHaveQuestions /\ DeletedIsEmpty
  BY ClosedType DEF Init, AnswersHaveQuestions, DeletedIsEmpty
<1>7. QED BY <1>3, <1>4, <1>5, <1>6 DEF ChatInv

LEMMA StepChatInv == ChatInv /\ [Next]_vars => ChatInv'
<1> SUFFICES ASSUME ChatInv, [Next]_vars PROVE ChatInv'
  OBVIOUS
<1>1. CASE Next BY <1>1, TurnStep, FailureStep, EditStep DEF Next
<1>2. CASE UNCHANGED vars
  BY <1>2
  DEF vars, ChatInv, TypeOK, FinitelyMany, TurnsHoldQuestions, AnswersHaveQuestions,
      DeletedIsEmpty, Said
<1>3. QED BY <1>1, <1>2

(* Every reachable state of a conversation satisfies the invariant.         *)
THEOREM ChatInvariance == Spec => []ChatInv
  BY InitChatInv, StepChatInv, PTL DEF Spec

(* However many sockets and handlers work on a conversation, and wherever   *)
(* they fail, an answer is only ever committed together with its question.  *)
THEOREM AnswersAreCommittedWhole == Spec => []AnswersHaveQuestions
<1>1. ChatInv => AnswersHaveQuestions BY DEF ChatInv
<1>2. QED BY <1>1, ChatInvariance, PTL

(* No turn under way writes to a conversation that was deleted meanwhile.   *)
THEOREM DeletedConversationsStayEmpty == Spec => []DeletedIsEmpty
<1>1. ChatInv => DeletedIsEmpty BY DEF ChatInv
<1>2. QED BY <1>1, ChatInvariance, PTL

-----------------------------------------------------------------------------
(* Memory.  A whole set of messages has as many questions as answers.       *)

LEMMA WholeIsEven ==
  ASSUME NEW A \in SUBSET Message, IsFiniteSet(A), Whole(A)
  PROVE  \E n \in Nat : Cardinality(A) = 2 * n
<1> DEFINE Questions == {m \in A : m.role = "user"}
           Answers   == {m \in A : m.role = "assistant"}
           f == [m \in Questions |-> [m EXCEPT !.role = "assistant"]]
<1>1. \A m \in A : m \in Message /\ m.role \in {"user", "assistant"}
  BY DEF Message
<1>2. ASSUME NEW m \in Questions PROVE f[m] \in Answers
  <2>1. PICK n \in A : n.turn = m.turn /\ n.at = m.at /\ n.role # m.role
    BY DEF Whole
  <2>2. n = [m EXCEPT !.role = "assistant"] BY <1>1, <2>1 DEF Message
  <2>3. QED BY <1>1, <2>1, <2>2
<1>3. \A m, n \in Questions : f[m] = f[n] => m = n
  BY <1>1 DEF Message
<1>4. \A a \in Answers : \E m \in Questions : f[m] = a
  <2> SUFFICES ASSUME NEW a \in Answers PROVE \E m \in Questions : f[m] = a
    OBVIOUS
  <2>1. PICK n \in A : n.turn = a.turn /\ n.at = a.at /\ n.role # a.role
    BY DEF Whole
  <2>2. n \in Questions /\ f[n] = a BY <1>1, <2>1 DEF Message
  <2>3. QED BY <2>2
<1>5. ExistsBijection(Questions, Answers)
  <2>1. f \in Bijection(Questions, Answers)
    BY <1>2, <1>3, <1>4 DEF Bijection, Injection, Surjection, IsInjective
  <2>2. QED BY <2>1 DEF ExistsBijection
<1>6. IsFiniteSet(Questions) /\ IsFiniteSet(Answers) BY FS_Subset
<1>7. Cardinality(Answers) = Cardinality(Questions) /\ Cardinality(Questions) \in Nat
  BY <1>5, <1>6, FS_Bijection, FS_CardinalityType
<1>8. A = Questions \cup Answers /\ Questions \cap Answers = {} BY <1>1
<1> HIDE DEF Questions, Answers
<1>9. Cardinality(A) = 2 * Cardinality(Questions)
  <2>1. Cardinality({}) = 0 BY FS_EmptySet
  <2>2. Cardinality(A) = Cardinality(Questions) + Cardinality(Answers) - Cardinality({})
    BY <1>6, <1>8, FS_Union
  <2>3. QED BY <1>7, <2>1, <2>2
<1>10. QED BY <1>7, <1>9

(* An even number of the latest messages of whole exchanges is whole.       *)
LEMMA RecentIsWhole ==
  ASSUME NEW A \in SUBSET Message, IsFiniteSet(A), Whole(A), HistoryLimit % 2 = 0,
         NEW q \in Recent(A, HistoryLimit)
  PROVE  \A i \in DOMAIN q : \E j \in DOMAIN q : q[j].turn = q[i].turn /\ q[j].role # q[i].role
<1> DEFINE n == IF Cardinality(A) < HistoryLimit THEN Cardinality(A) ELSE HistoryLimit
           T == {q[i] : i \in 1 .. n}
<1>1. Cardinality(A) \in Nat /\ HistoryLimit \in Nat /\ n \in Nat
  BY FS_CardinalityType, ChatAssumption
<1>2. /\ q \in [1 .. n -> A]
      /\ \A i, j \in 1 .. n : i < j => q[i] # q[j] /\ q[i].at <= q[j].at
      /\ \A m \in A, j \in 1 .. n : (\A i \in 1 .. n : q[i] # m) => m.at <= q[j].at
  BY DEF Recent
<1>3. \A m \in A : m \in Message /\ m.at \in Nat /\ m.role \in {"user", "assistant"}
  BY DEF Message
<1>4. \E k \in Nat : Cardinality(A) = 2 * k BY WholeIsEven
<1>5. \E k \in Nat : n = 2 * k
  BY <1>1, <1>4
<1> HIDE DEF n
<1>6. IsFiniteSet(T) /\ Cardinality(T) = n
  <2>1. q \in [1 .. n -> T] BY <1>2
  <2>2. \A i, j \in 1 .. n : q[i] = q[j] => i = j
    BY <1>1, <1>2
  <2>3. ExistsBijection(1 .. n, T)
    <3>1. q \in Bijection(1 .. n, T)
      BY <2>1, <2>2 DEF Bijection, Injection, Surjection, IsInjective
    <3>2. QED BY <3>1 DEF ExistsBijection
  <2>4. IsFiniteSet(1 .. n) /\ Cardinality(1 .. n) = n
    <3>1. 1 \in Int /\ n \in Int BY <1>1
    <3>2. IsFiniteSet(1 .. n) /\ Cardinality(1 .. n) = IF 1 > n THEN 0 ELSE n - 1 + 1
      BY ONLY <3>1, FS_Interval
    <3>3. QED BY <1>1, <3>2
  <2>5. QED BY <2>3, <2>4, FS_Bijection
<1>7. T \subseteq A BY <1>2
<1>8. SUFFICES ASSUME NEW i \in 1 .. n,
                      \A j \in 1 .. n : q[j].turn = q[i].turn => q[j].role = q[i].role
               PROVE  FALSE
  BY <1>2
<1> DEFINE Later == {m \in A : m.at > q[i].at}
<1>9. q[i] \in A BY <1>2
<1>10. PICK p \in A : p.turn = q[i].turn /\ p.at = q[i].at /\ p.role # q[i].role
  BY <1>9 DEF Whole
<1>11. p \notin T BY <1>8, <1>10
<1>12. Later \subseteq T
  <2> SUFFICES ASSUME NEW m \in Later, m \notin T PROVE FALSE
    OBVIOUS
  <2>1. m.at <= q[i].at BY <1>2
  <2>2. QED BY <1>3, <1>9, <2>1
<1>13. \A m \in T : m = q[i] \/ m \in Later
  <2> SUFFICES ASSUME NEW m \in T, m # q[i] PROVE m.at > q[i].at
    BY <1>7
  <2>1. m \in A /\ \E j \in 1 .. n : m = q[j] BY <1>7
  <2>2. p.at <= m.at BY <1>2, <1>11, <2>1
  <2>3. m.at # q[i].at
    <3> SUFFICES ASSUME m.at = q[i].at PROVE FALSE
      OBVIOUS
    <3>1. m.turn = q[i].turn BY <1>9, <2>1 DEF Whole
    <3>2. m.role = q[i].role BY <1>8, <2>1, <3>1
    <3>3. m = q[i] BY <1>3, <1>9, <2>1, <3>1, <3>2 DEF Message
    <3>4. QED BY <3>3
  <2>4. QED BY <1>3, <1>9, <1>10, <2>1, <2>2, <2>3
<1>14. T = Later \cup {q[i]} /\ q[i] \notin Later
  <2>1. ~(q[i].at > q[i].at) BY <1>3, <1>9
  <2>2. q[i] \in T OBVIOUS
  <2>3. QED BY <1>12, <1>13, <2>1, <2>2
<1>15. Whole(Later)
  BY <1>3 DEF Whole
<1>16. IsFiniteSet(Later) /\ Later \in SUBSET Message BY FS_Subset
<1>17. \E k \in Nat : Cardinality(Later) = 2 * k
  BY <1>15, <1>16, WholeIsEven
<1> HIDE DEF Later, T
<1>18. Cardinality(T) = Cardinality(Later) + 1
  BY <1>14, <1>16, FS_AddElement
<1>19. QED BY <1>5, <1>6, <1>17, <1>18

(* What MemoryInv says of one session, as a record.                         *)
Stamped(x, messages, time) ==
  /\ x \in Session
  /\ x.began <= time
  /\ \A m \in messages : m.at # x.began
  /\ \A m \in x.pending : m.at = x.began /\ m.turn = x.turn
  /\ x.pc \notin {"search", "answer", "persist", "finish"} => x.pending = {}
  /\ x.pc = "finish" =>
       {[turn |-> x.turn, role |-> "user", at |-> x.began],
        [turn |-> x.turn, role |-> "assistant", at |-> x.began]} \subseteq x.pending
  /\ \A i \in DOMAIN x.memory : \E j \in DOMAIN x.memory :
       x.memory[j].turn = x.memory[i].turn /\ x.memory[j].role # x.memory[i].role

LEMMA SessionsAreStamped ==
  ASSUME ChatInv, MemoryInv, used.failures = 0, NEW s \in Sessions
  PROVE  Stamped(sess[s], log, clock)
  BY DEF ChatInv, TypeOK, MemoryInv, MemoryIsWhole, OwnStamp, Stamped, Said

(* A step of one session that commits nothing.  Its stamp is the one it     *)
(* had, none, or new.                                                       *)
LEMMA OneSessionRemembers ==
  ASSUME ChatInv, MemoryInv, used.failures = 0, NEW s \in Sessions, NEW y,
         sess' = [sess EXCEPT ![s] = y], log' = log, clock' \in {clock, clock + 1},
         Stamped(y, log, clock'),
         y.began \in {0, sess[s].began} \/ y.began = clock + 1
  PROVE  MemoryInv'
<1>1. clock \in Nat /\ clock' \in Nat /\ clock <= clock' BY DEF ChatInv, TypeOK
<1>2. sess'[s] = y /\ \A t \in Sessions : t # s => sess'[t] = sess[t]
  BY DEF ChatInv, TypeOK
<1>3. \A t \in Sessions : Stamped(sess[t], log, clock) /\ sess[t].began \in Nat
  BY SessionsAreStamped DEF Stamped, Session
<1>4. Whole(log') /\ \A m \in log' : m.at <= clock'
  <2>1. Whole(log) /\ \A m \in log : m.at <= clock /\ m.at \in Nat
    BY DEF MemoryInv, ChatInv, TypeOK, Message
  <2>2. QED BY <1>1, <2>1
<1>5. \A t \in Sessions : Stamped(sess'[t], log', clock')
  <2>1. ASSUME NEW t \in Sessions, t # s PROVE Stamped(sess'[t], log', clock')
    BY <1>1, <1>2, <1>3, <2>1 DEF Stamped
  <2>2. QED BY <1>2, <2>1
<1>6. ASSUME NEW t \in Sessions, NEW r \in Sessions \ {t}, sess'[t].began # 0
      PROVE  sess'[r].began # sess'[t].began
  <2>1. \A u, v \in Sessions : u # v /\ sess[u].began # 0 =>
          sess[v].began # sess[u].began
    BY DEF MemoryInv, OwnStamp
  <2>2. \A u \in Sessions : sess[u].began # clock + 1
    <3>1. \A u \in Sessions : sess[u].began <= clock BY <1>3 DEF Stamped
    <3>2. QED BY <1>1, <1>3, <3>1
  <2>3. CASE t = s BY <1>2, <1>6, <2>1, <2>2, <2>3
  <2>4. CASE r = s BY <1>2, <1>6, <2>1, <2>2, <2>4
  <2>5. CASE t # s /\ r # s BY <1>2, <1>6, <2>1, <2>5
  <2>6. QED BY <2>3, <2>4, <2>5
<1>7. QED BY <1>4, <1>5, <1>6
    DEF MemoryInv, MemoryIsWhole, OwnStamp, Stamped, Said

LEMMA ClosedIsStamped ==
  ASSUME NEW L \in SUBSET Message, NEW c \in Nat
  PROVE  Stamped(Closed, L, c) /\ Closed.began = 0
<1>1. \A m \in L : m.at # 0 BY DEF Message
<1>2. QED BY <1>1, ClosedType DEF Stamped, Closed, NoMemory

LEMMA OpenIsStamped ==
  ASSUME NEW x \in Session, x.pending = {}, NEW L, \A m \in L : m.at # x.began,
         NEW c \in Nat, x.began <= c,
         NEW y, y = [x EXCEPT !.pc = "open", !.turn = 0, !.memory = NoMemory]
  PROVE  Stamped(y, L, c)
<1>1. NoMemory \in Seq(Message) /\ DOMAIN NoMemory = {} BY DEF NoMemory
<1>2. /\ y \in Session /\ y.pc = "open" /\ y.pending = {} /\ y.began = x.began
      /\ y.memory = NoMemory
  BY <1>1 DEF Session
<1>3. QED BY <1>1, <1>2 DEF Stamped

(* A session that comes to rest with nothing to commit.                     *)
LEMMA RestRemembers ==
  ASSUME ChatInv, MemoryInv, used.failures = 0, NEW s \in Sessions, NEW x \in Session,
         Rest(s, x), log' = log, clock' = clock,
         x.pending = {}, x.began \in {0, sess[s].began}
  PROVE  MemoryInv'
<1>1. Stamped(sess[s], log, clock) /\ clock \in Nat /\ log \in SUBSET Message
  BY SessionsAreStamped DEF ChatInv, TypeOK
<1>2. x.began <= clock /\ \A m \in log : m.at # x.began
  BY <1>1 DEF Stamped, Message
<1> DEFINE y == [x EXCEPT !.pc = "open", !.turn = 0, !.memory = NoMemory]
<1>3. y.began = x.began BY DEF Session
<1>4. Stamped(y, log, clock) /\ Stamped(Closed, log, clock) /\ Closed.began = 0
  <2>1. y = [x EXCEPT !.pc = "open", !.turn = 0, !.memory = NoMemory] OBVIOUS
  <2> HIDE DEF y
  <2>2. QED BY <1>1, <1>2, <2>1, ClosedIsStamped, OpenIsStamped
<1>5. sess' = [sess EXCEPT ![s] = y] \/ sess' = [sess EXCEPT ![s] = Closed]
  BY DEF Rest
<1> HIDE DEF y
<1>6. QED BY <1>3, <1>4, <1>5, OneSessionRemembers

LEMMA BreakRemembers ==
  ASSUME ChatInv, MemoryInv, used.failures = 0, NEW s \in Sessions, Break(s),
         log' = log, clock' = clock
  PROVE  MemoryInv'
<1> DEFINE x == [sess[s] EXCEPT !.began = 0, !.wrote = FALSE, !.pending = {}, !.broken = TRUE]
<1>1. sess[s] \in Session BY DEF ChatInv, TypeOK
<1>2. x \in Session /\ x.pending = {} /\ x.began = 0 BY <1>1 DEF Session
<1>3. Rest(s, x) BY DEF Break
<1> HIDE DEF x
<1>4. QED BY <1>2, <1>3, RestRemembers

(* COMMIT: question and answer of the turn join the history together.       *)
LEMMA FinishRemembers ==
  ASSUME ChatInv, MemoryInv, used.failures = 0, NEW s \in Sessions, finish(s)
  PROVE  MemoryInv'
<1> DEFINE x == sess[s]
           Q == [turn |-> x.turn, role |-> "user", at |-> x.began]
           R == [turn |-> x.turn, role |-> "assistant", at |-> x.began]
           y == [x EXCEPT !.began = 0, !.wrote = FALSE, !.pending = {},
                          !.pc = "open", !.turn = 0, !.memory = NoMemory]
<1>1. /\ Stamped(x, log, clock) /\ clock \in Nat /\ log \in SUBSET Message
      /\ x \in Session /\ x.pc = "finish" /\ x.began # 0
  BY SessionsAreStamped, SessionsAreSound
     DEF ChatInv, TypeOK, finish, At, Sound, Turning
<1>2. x.pending = {Q, R}
  <2>1. {Q, R} \subseteq x.pending BY <1>1 DEF Stamped
  <2>2. \A m \in x.pending : m \in Message /\ m.at = x.began /\ m.turn = x.turn
    BY <1>1 DEF Stamped, Session
  <2>3. \A m \in x.pending : m = Q \/ m = R BY <2>2 DEF Message
  <2>4. QED BY <2>1, <2>3
<1>3. log' = log \cup {Q, R} /\ clock' = clock BY <1>2 DEF finish
<1>4. Q \in Message /\ R \in Message BY <1>1 DEF Session, Message
<1>5. Whole(log)
  BY DEF MemoryInv
<1>6. \A m \in log : m.at # x.began BY <1>1 DEF Stamped
<1>7. Whole(log')
  <2>1. \A m \in log' : \E n \in log' : n.turn = m.turn /\ n.at = m.at /\ n.role # m.role
    <3>1. \A m \in log : \E n \in log : n.turn = m.turn /\ n.at = m.at /\ n.role # m.role
      BY <1>5 DEF Whole
    <3>2. Q.turn = R.turn /\ Q.at = R.at /\ Q.role # R.role OBVIOUS
    <3> HIDE DEF Q, R
    <3>3. QED BY <1>3, <3>1, <3>2
  <2>2. \A m, n \in log' : m.at = n.at => m.turn = n.turn
    <3>1. \A m, n \in log : m.at = n.at => m.turn = n.turn BY <1>5 DEF Whole
    <3>2. QED BY <1>3, <1>6, <3>1
  <2>3. QED BY <2>1, <2>2 DEF Whole
<1>8. \A m \in log' : m.at <= clock'
  <2>1. \A m \in log : m.at <= clock BY DEF MemoryInv
  <2>2. x.began <= clock BY <1>1 DEF Stamped
  <2>3. QED BY <1>3, <2>1, <2>2
<1>9. sess' = [sess EXCEPT ![s] = y] \/ sess' = [sess EXCEPT ![s] = Closed]
  BY <1>1 DEF finish, Rest, Session
<1>10. \A t \in Sessions : t # s => sess'[t] = sess[t] BY <1>9 DEF ChatInv, TypeOK
<1>11. sess'[s] = y \/ sess'[s] = Closed BY <1>9 DEF ChatInv, TypeOK
<1>12. log' \in SUBSET Message BY <1>1, <1>3, <1>4
<1>13. Stamped(sess'[s], log', clock') /\ sess'[s].began = 0
  <2> DEFINE z == [x EXCEPT !.began = 0, !.wrote = FALSE, !.pending = {}]
  <2>1. z \in Session /\ z.began = 0 /\ z.pending = {} BY <1>1 DEF Session
  <2>2. y = [z EXCEPT !.pc = "open", !.turn = 0, !.memory = NoMemory]
        /\ y.began = 0
    BY <1>1 DEF Session
  <2>3. \A m \in log' : m.at # 0 BY <1>12 DEF Message
  <2> HIDE DEF y, z
  <2>4. clock' \in Nat /\ z.began <= clock' /\ \A m \in log' : m.at # z.began
    BY <1>1, <1>3, <2>1, <2>3
  <2>5. Stamped(y, log', clock') /\ Stamped(Closed, log', clock') /\ Closed.began = 0
    BY <1>12, <2>1, <2>2, <2>4, ClosedIsStamped, OpenIsStamped
  <2>6. QED BY <1>11, <2>2, <2>5
<1>14. \A t, r \in Sessions : t # r /\ sess[t].began # 0 => sess[r].began # sess[t].began
  BY DEF MemoryInv, OwnStamp
<1>15. \A t \in Sessions : Stamped(sess'[t], log', clock')
  <2>1. ASSUME NEW t \in Sessions, t # s PROVE Stamped(sess'[t], log', clock')
    <3>1. Stamped(sess[t], log, clock) /\ sess'[t] = sess[t]
      BY <1>10, <2>1, SessionsAreStamped
    <3>2. sess[t].began # x.began BY <1>1, <1>14, <2>1
    <3> HIDE DEF x
    <3>3. \A m \in log' : m.at # sess[t].began
      BY <1>3, <3>1, <3>2 DEF Stamped
    <3>4. QED BY <1>3, <3>1, <3>3 DEF Stamped
  <2>2. QED BY <1>13, <2>1
<1>16. ASSUME NEW t \in Sessions, NEW r \in Sessions \ {t}, sess'[t].began # 0
       PROVE  sess'[r].began # sess'[t].began
  <2>1. t # s BY <1>13, <1>16
  <2>2. QED BY <1>10, <1>13, <1>14, <1>16, <2>1
<1>17. QED BY <1>7, <1>8, <1>15, <1>16
     DEF MemoryInv, MemoryIsWhole, OwnStamp, Stamped, Said

LEMMA TurnRemembers ==
  ASSUME ChatInv, MemoryInv, used.failures = 0, HistoryLimit % 2 = 0,
         NEW s \in Sessions, Turn(s) \/ connect(s) \/ receive(s)
  PROVE  MemoryInv'
<1> DEFINE x == sess[s]
<1>1. /\ Stamped(x, log, clock) /\ Sound(x, conv.alive) /\ x \in Session
      /\ clock \in Nat /\ log \in SUBSET Message /\ TypeOK
  BY SessionsAreStamped, SessionsAreSound DEF ChatInv, TypeOK
<1>2. CASE connect(s)
  <2> DEFINE y == [Closed EXCEPT !.pc = "open", !.began = clock + 1, !.known = conv.title]
  <2>1. conv.title \in Title /\ clock + 1 \in Nat BY <1>1 DEF TypeOK
  <2>2. /\ y \in Session /\ y.pc = "open" /\ y.pending = {} /\ y.began = clock + 1
        /\ y.memory = NoMemory
    BY <2>1, ClosedType DEF Session, Closed
  <2>3. \A m \in log : m.at # clock + 1
    <3>1. \A m \in log : m.at <= clock /\ m.at \in Nat BY <1>1 DEF MemoryInv, Message
    <3>2. QED BY <1>1, <3>1
  <2>4. DOMAIN NoMemory = {} BY DEF NoMemory
  <2>5. sess' = [sess EXCEPT ![s] = y] /\ log' = log /\ clock' = clock + 1
    BY <1>2 DEF connect
  <2> HIDE DEF y
  <2>6. Stamped(y, log, clock') BY <1>1, <2>2, <2>3, <2>4, <2>5 DEF Stamped
  <2>7. QED BY <2>2, <2>5, <2>6, OneSessionRemembers
<1>3. CASE receive(s)
  <2> DEFINE y == [x EXCEPT !.pc = "recent", !.turn = used.turns + 1]
  <2>1. used.turns + 1 \in Nat BY <1>1 DEF TypeOK
  <2>2. /\ y \in Session /\ y.pc = "recent" /\ y.pending = x.pending /\ y.began = x.began
        /\ y.memory = x.memory
    BY <1>1, <2>1 DEF Session, Turning
  <2>3. x.pending = {} BY <1>1, <1>3 DEF receive, At, Stamped
  <2>4. sess' = [sess EXCEPT ![s] = y] /\ log' = log /\ clock' = clock
    BY <1>1, <1>3 DEF receive, TypeOK
  <2> HIDE DEF y
  <2>5. Stamped(y, log, clock') BY <1>1, <2>2, <2>3, <2>4 DEF Stamped
  <2>6. QED BY <2>2, <2>4, <2>5, OneSessionRemembers
<1>4. CASE recent(s)
  <2>1. PICK q \in Recent(Visible(s), HistoryLimit) :
          sess' = [sess EXCEPT ![s].pc = "flush", ![s].memory = q,
                               ![s].began = IF @ = 0 THEN clock + 1 ELSE @]
    BY <1>4 DEF recent
  <2>2. x.pending = {} BY <1>1, <1>4 DEF recent, At, Stamped
  <2>3. Visible(s) = log BY <2>2 DEF Visible
  <2>4. IsFiniteSet(log) /\ Whole(log) BY DEF ChatInv, FinitelyMany, MemoryInv
  <2>5. /\ q \in Seq(Message)
        /\ \A i \in DOMAIN q : \E j \in DOMAIN q :
             q[j].turn = q[i].turn /\ q[j].role # q[i].role
    BY <1>1, <2>3, <2>4, RecentType, RecentIsWhole
  <2> DEFINE began == IF x.began = 0 THEN clock + 1 ELSE x.began
             y == [x EXCEPT !.pc = "flush", !.memory = q, !.began = began]
  <2>6. began \in Nat BY <1>1 DEF Session
  <2>7. sess' = [sess EXCEPT ![s] = y] BY <1>1, <2>1 DEF TypeOK, Session
  <2>8. log' = log /\ clock' = IF x.began = 0 THEN clock + 1 ELSE clock
    BY <1>4 DEF recent
  <2>9. began <= clock' /\ \A m \in log : m.at # began
    <3>1. \A m \in log : m.at <= clock /\ m.at \in Nat /\ m.at # x.began
      BY <1>1 DEF MemoryInv, Message, Stamped
    <3>2. x.began <= clock BY <1>1 DEF Stamped
    <3>3. QED BY <1>1, <2>8, <3>1, <3>2
  <2>10. began \in {0, x.began} \/ began = clock + 1 OBVIOUS
  <2> HIDE DEF began
  <2>11. /\ y \in Session /\ y.pc = "flush" /\ y.pending = {} /\ y.began = began
         /\ y.memory = q
    BY <1>1, <2>2, <2>5, <2>6 DEF Session, Turning
  <2> HIDE DEF y
  <2>12. Stamped(y, log, clock') BY <2>5, <2>9, <2>11 DEF Stamped
  <2>13. QED BY <2>7, <2>8, <2>10, <2>11, <2>12, OneSessionRemembers
<1>5. CASE recent_raises(s)
  <2>1. x.pending = {} BY <1>1, <1>5 DEF recent_raises, At, Stamped
  <2>2. QED BY <1>1, <1>5, <2>1, RestRemembers DEF recent_raises
<1>6. CASE flush(s)
  <2> DEFINE title == IF Titles(s) THEN [kind |-> "auto", turn |-> x.turn] ELSE x.known
             y == [x EXCEPT !.pc = "search", !.pending = @ \cup {Said(s, "user")},
                            !.wrote = @ \/ Titles(s), !.known = title]
  <2>1. x.began # 0 /\ x.pending = {}
    BY <1>1, <1>6 DEF flush, At, Sound, Turning, Stamped
  <2>2. Said(s, "user") \in Message BY <1>1, <2>1, SaidType
  <2>3. title \in Title BY <1>1 DEF Session, Title
  <2>4. (x.wrote \/ Titles(s)) \in BOOLEAN BY <1>1 DEF Session, Titles
  <2>5. sess' = [sess EXCEPT ![s] = y] /\ log' = log /\ clock' = clock
    BY <1>1, <1>6 DEF flush, TypeOK, Session
  <2> HIDE DEF title
  <2>6. /\ y \in Session /\ y.pc = "search" /\ y.began = x.began /\ y.turn = x.turn
        /\ y.pending = {Said(s, "user")} /\ y.memory = x.memory
    BY <1>1, <2>1, <2>2, <2>3, <2>4 DEF Session, Turning
  <2> HIDE DEF y
  <2>7. Stamped(y, log, clock') BY <1>1, <2>5, <2>6 DEF Stamped, Said
  <2>8. QED BY <2>5, <2>6, <2>7, OneSessionRemembers
<1>7. CASE flush_gone(s)
  BY <1>7, BreakRemembers DEF flush_gone
<1>8. CASE search(s) \/ generate(s)
  <2>1. PICK pc \in {"answer", "persist"} : sess' = [sess EXCEPT ![s].pc = pc]
    BY <1>8 DEF search, generate
  <2>2. x.pc \in {"search", "answer"} BY <1>8 DEF search, generate, At
  <2> DEFINE y == [x EXCEPT !.pc = pc]
  <2>3. y \in Session /\ y.began = x.began BY <1>1 DEF Session, Turning
  <2>4. Stamped(y, log, clock)
    BY <1>1, <2>2, <2>3 DEF Stamped, Session
  <2>5. sess' = [sess EXCEPT ![s] = y] /\ log' = log /\ clock' = clock
    BY <1>1, <1>8, <2>1 DEF TypeOK, search, generate
  <2> HIDE DEF y
  <2>6. QED BY <2>3, <2>4, <2>5, OneSessionRemembers
<1>9. CASE _persist_assistant(s)
  <2> DEFINE y == [x EXCEPT !.pc = "finish", !.pending = @ \cup {Said(s, "assistant")}]
  <2>1. x.began # 0 /\ Said(s, "user") \in x.pending
    BY <1>1, <1>9 DEF _persist_assistant, At, Sound, Turning, Said
  <2>2. Said(s, "assistant") \in Message BY <1>1, <2>1, SaidType
  <2>3. /\ y \in Session /\ y.pc = "finish" /\ y.began = x.began /\ y.turn = x.turn
        /\ y.pending = x.pending \cup {Said(s, "assistant")} /\ y.memory = x.memory
    BY <1>1, <2>2 DEF Session, Turning
  <2>4. sess' = [sess EXCEPT ![s] = y] /\ log' = log /\ clock' = clock
    BY <1>1, <1>9 DEF _persist_assistant, TypeOK, Session
  <2> HIDE DEF y
  <2>5. Stamped(y, log, clock') BY <1>1, <2>1, <2>3, <2>4 DEF Stamped, Said
  <2>6. QED BY <2>3, <2>4, <2>5, OneSessionRemembers
<1>10. CASE finish(s) BY <1>10, FinishRemembers
<1>11. QED BY <1>2, <1>3, <1>4, <1>5, <1>6, <1>7, <1>8, <1>9, <1>10 DEF Turn

LEMMA FailureRemembers ==
  ASSUME ChatInv, MemoryInv, used.failures = 0, used'.failures = 0,
         NEW s \in Sessions, fail(s) \/ db_error(s) \/ lost(s)
  PROVE  MemoryInv'
<1>1. ~fail(s) BY DEF fail, Raises, ChatInv, TypeOK
<1>2. CASE db_error(s) BY <1>2, BreakRemembers DEF db_error
<1>3. CASE lost(s)
  <2>1. Stamped(Closed, log, clock) /\ Closed.began = 0 BY ClosedIsStamped DEF ChatInv, TypeOK
  <2>2. sess' = [sess EXCEPT ![s] = Closed] /\ log' = log /\ clock' = clock
    BY <1>3 DEF lost
  <2>3. QED BY <2>1, <2>2, OneSessionRemembers
<1>4. QED BY <1>1, <1>2, <1>3

LEMMA EditRemembers ==
  ASSUME MemoryInv, used.failures = 0, Edit \/ \E op \in {"rename", "delete"} : request(op)
  PROVE  MemoryInv'
<1>1. sess' = sess /\ clock' = clock /\ (log' = log \/ log' = {})
  BY DEF Edit, rename_conversation, delete_conversation, request
<1>2. QED BY <1>1 DEF MemoryInv, MemoryIsWhole, OwnStamp, Said, Whole

LEMMA InitMemoryInv == ASSUME Init PROVE MemoryInv
<1>1. \A s \in Sessions : sess[s] = Closed BY DEF Init
<1>2. /\ Closed.pc = "closed" /\ Closed.pending = {} /\ Closed.began = 0
      /\ DOMAIN Closed.memory = {}
  BY DEF Closed, NoMemory
<1>3. log = {} /\ clock = 0 BY DEF Init
<1> HIDE DEF Closed
<1>4. QED BY <1>1, <1>2, <1>3 DEF MemoryInv, MemoryIsWhole, OwnStamp, Whole

LEMMA StepMemoryInv ==
  ASSUME HistoryLimit % 2 = 0, ChatInv, MemoryInv, [Next]_vars
  PROVE  MemoryInv'
<1>1. SUFFICES ASSUME used'.failures = 0 PROVE MemoryInv'
  BY DEF MemoryInv
<1>2. used.failures = 0
  <2>1. used.failures \in Nat BY DEF ChatInv, TypeOK
  <2>2. used' \in {used} \/ used' = [used EXCEPT !.failures = @ + 1]
          \/ \E f \in {"turns", "connects", "errors", "edits"} : used' = [used EXCEPT ![f] = @ + 1]
    BY DEF Next, Turn, Edit, connect, receive, recent, recent_raises, flush, flush_gone, search,
           generate, _persist_assistant, finish, fail, Raises, db_error, Errs, lost,
           rename_conversation, delete_conversation, request, vars
  <2>3. QED BY <1>1, <2>1, <2>2 DEF ChatInv, TypeOK
<1>3. CASE Next BY <1>1, <1>2, <1>3, TurnRemembers, FailureRemembers, EditRemembers DEF Next
<1>4. CASE UNCHANGED vars
  BY <1>4 DEF vars, MemoryInv, MemoryIsWhole, OwnStamp, Said
<1>5. QED BY <1>3, <1>4

(* As long as no search or answer has failed, the model is given whole      *)
(* exchanges as memory, whatever number of sessions write to the            *)
(* conversation: for every even limit, as _HISTORY_TURNS = 8 is.            *)
THEOREM MemoryHoldsWholeExchanges ==
  ASSUME HistoryLimit % 2 = 0
  PROVE  Spec => []MemoryIsWhole
<1>1. MemoryInv => MemoryIsWhole BY DEF MemoryInv, MemoryIsWhole
<1>2. ChatInv /\ MemoryInv /\ [Next]_vars => MemoryInv' BY StepMemoryInv
<1>3. Init => MemoryInv BY InitMemoryInv
<1>4. QED BY <1>1, <1>2, <1>3, ChatInvariance, PTL DEF Spec
=============================================================================
