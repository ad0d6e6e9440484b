------------------------------ MODULE ChatPage ------------------------------
(***************************************************************************)
(* The chat page: what it shows, the REST calls and the WebSockets it has  *)
(* under way, and as much of the server as answers them.                   *)
(*                                                                         *)
(* The page runs one task at a time, a click, a response or an event of a  *)
(* socket, and each task is an action.  What a task captured when it was   *)
(* written down, the conversation selected at a click, stays what it was.  *)
(* An answer is one token and the word that it is done.                    *)
(***************************************************************************)
EXTENDS Naturals, Sequences, SequencesExt

CONSTANTS
  Convs,            \* conversation ids
  None,             \* no conversation
  MaxQuestions,     \* bound: questions submitted
  MaxCalls,         \* bound: REST calls
  MaxFaults         \* bound: calls and answers that fail, connections lost

ASSUME PageAssumption ==
  /\ None \notin Convs
  /\ {MaxQuestions, MaxCalls, MaxFaults} \subseteq Nat

VARIABLES
  page,             \* selectedId, messages, streaming
  calls,            \* REST calls in flight
  sockets,          \* every socket opened; the last is socketRef.current
  server,           \* the conversations and their histories
  asked,            \* where each question was asked
  used,             \* questions, calls and faults so far
  calm              \* so far the user has waited (see the properties)

vars == <<page, calls, sockets, server, asked, used, calm>>

Questions == 1 .. MaxQuestions

(* A user's message is its question; an assistant's, the questions whose    *)
(* tokens were appended to it.                                              *)
UIMessage == [role : {"user", "assistant"}, text : Seq(Nat), streaming : BOOLEAN]

(* A call keeps what it will need when its response arrives: the            *)
(* conversation, or the question, and whether it was about the selected one.*)
Call == [id : Nat, op : {"list", "create", "delete"}, conv : Convs \cup {None},
         turn : Nat, mine : BOOLEAN, pc : {"sent", "ok", "failed"}, data : Seq(Questions)]

Events == {"token", "done", "error", "close"}

Socket == [conv    : Convs,
           state   : {"connecting", "open", "closing", "closed"},
           waiting : Seq(Questions),       \* to be sent once it opens
           up      : Seq(Questions),       \* sent, not yet answered
           told    : BOOLEAN,              \* has the first of them had its token
           down    : Seq([event : Events, turn : Nat])]

TypeOK ==
  /\ page \in [selected : Convs \cup {None}, messages : Seq(UIMessage), streaming : BOOLEAN]
  /\ calls \subseteq Call
  /\ sockets \in Seq(Socket)
  /\ server \in [convs : SUBSET Convs, ever : SUBSET Convs, history : [Convs -> Seq(Questions)]]
  /\ asked \in [Questions -> Convs \cup {None}]
  /\ used \in [questions : Nat, calls : Nat, faults : Nat]
  /\ calm \in BOOLEAN

Init ==
  /\ page = [selected |-> None, messages |-> <<>>, streaming |-> FALSE]
  /\ calls = {}
  /\ sockets = <<>>
  /\ server = [convs |-> {}, ever |-> {}, history |-> [c \in Convs |-> <<>>]]
  /\ asked = [q \in Questions |-> None]
  /\ used = [questions |-> 0, calls |-> 0, faults |-> 0]
  /\ calm = TRUE

-----------------------------------------------------------------------------
(* The pieces of the page.                                                  *)

Live == {"connecting", "open"}

Said(role, q) == [role |-> role, text |-> <<q>>, streaming |-> FALSE]

(* The rows of a history, as messages.                                      *)
Shown(history) ==
  [i \in 1 .. 2 * Len(history) |->
     Said(IF i % 2 = 1 THEN "user" ELSE "assistant", history[(i + 1) \div 2])]

(* The messages when the last of an assistant, if there is one, has taken   *)
(* tokens or come to its end.                                               *)
updateLastAssistant(tokens, ends) ==
  LET said == {i \in DOMAIN page.messages : page.messages[i].role = "assistant"} IN
  [i \in DOMAIN page.messages |->
     IF i \in said /\ \A j \in said : j <= i
     THEN [page.messages[i] EXCEPT !.text = @ \o tokens, !.streaming = @ /\ ~ends]
     ELSE page.messages[i]]

Fault == used.faults < MaxFaults /\ used' = [used EXCEPT !.faults = @ + 1]

(* The user does something: is nothing under way?                           *)
Act == calm' = (calm /\ calls = {})

Request(op, conv, turn) ==
  /\ used.calls < MaxCalls
  /\ used' = [used EXCEPT !.calls = @ + 1, !.questions = IF op = "create" THEN turn ELSE @]
  /\ calls' = calls \cup {[id |-> used.calls, op |-> op, conv |-> conv, turn |-> turn,
                           mine |-> page.selected = conv, pc |-> "sent", data |-> <<>>]}

(* close() on a socket: what it waited to send is never sent, and no more   *)
(* messages are delivered.                                                  *)
Closing(sock) ==
  IF sock.state \in Live
  THEN [sock EXCEPT !.state = "closing", !.waiting = <<>>, !.down = <<>>] ELSE sock

Fresh(c) == [conv |-> c, state |-> "connecting", waiting |-> <<>>, up |-> <<>>,
             told |-> FALSE, down |-> <<>>]

Usable(c) == sockets # <<>> /\ Last(sockets).conv = c /\ Last(sockets).state \in Live

(* Mutant: whichever socket is live will do.                                *)
ensureSocket_any(c) ==
  IF sockets # <<>> /\ Last(sockets).state \in Live THEN sockets ELSE Append(sockets, Fresh(c))

(* Mutant: the socket that is replaced is not closed.                       *)
ensureSocket_leaking(c) == IF Usable(c) THEN sockets ELSE Append(sockets, Fresh(c))

ensureSocket(c) ==
  IF Usable(c) THEN sockets
  ELSE Append([s \in DOMAIN sockets |-> IF s = Len(sockets) THEN Closing(sockets[s]) ELSE sockets[s]],
              Fresh(c))

(* Mutant: only messages end the streaming.                                 *)
onClose_ignored == page

onClose == [page EXCEPT !.streaming = FALSE]

(* A question goes out on a socket, at once or when it opens.               *)
sendPayload(sock, q) ==
  IF sock.state = "open" THEN [sock EXCEPT !.up = Append(@, q)]
  ELSE [sock EXCEPT !.waiting = Append(@, q)]

(* The second half of send: the question is shown with an empty answer and  *)
(* goes out on the conversation's socket, at once or when it opens.         *)
Begin(c, q) ==
  /\ asked' = [asked EXCEPT ![q] = c]
  /\ page' = [selected |-> c, streaming |-> TRUE,
              messages |-> page.messages \o
                <<Said("user", q), [role |-> "assistant", text |-> <<>>, streaming |-> TRUE]>>]
  /\ LET socks == ensureSocket(c) IN
     sockets' = [socks EXCEPT ![Len(socks)] = sendPayload(@, q)]

-----------------------------------------------------------------------------
(* Clicks.                                                                  *)

selectConversation(c) ==
  /\ ~page.streaming
  /\ c \in server.ever
  /\ page' = [page EXCEPT !.selected = c]
  /\ Request("list", c, 0)
  /\ Act
  /\ UNCHANGED <<sockets, server, asked>>

newChat ==
  /\ ~page.streaming
  /\ page' = [page EXCEPT !.selected = None, !.messages = <<>>]
  /\ Act
  /\ UNCHANGED <<calls, sockets, server, asked, used>>

deleteConversation(c) ==
  /\ ~page.streaming
  /\ c \in server.ever
  /\ Request("delete", c, 0)
  /\ Act
  /\ UNCHANGED <<page, sockets, server, asked>>

(* A conversation is created for a question asked in none.                  *)
send_first ==
  /\ ~page.streaming
  /\ page.selected = None
  /\ used.questions < MaxQuestions
  /\ Request("create", None, used.questions + 1)
  /\ Act
  /\ UNCHANGED <<page, sockets, server, asked>>

Ask ==
  /\ page.selected # None
  /\ used.questions < MaxQuestions
  /\ used' = [used EXCEPT !.questions = @ + 1]
  /\ Begin(page.selected, used.questions + 1)
  /\ calm' = (calm /\ calls = {} /\
              (sockets = <<>> \/ Usable(page.selected) \/ Last(sockets).state = "closed"))
  /\ UNCHANGED <<calls, server>>

(* Mutant: a question may be sent while an answer streams.                  *)
send_always == Ask

send == ~page.streaming /\ Ask

Click ==
  \/ \E c \in Convs : selectConversation(c) \/ deleteConversation(c)
  \/ newChat \/ send_first \/ send

-----------------------------------------------------------------------------
(* REST calls: the server's answer, and the page's continuation.            *)

Answered(k, pc, conv, data) ==
  calls' = (calls \ {k}) \cup {[k EXCEPT !.pc = pc, !.conv = conv, !.data = data]}

list_messages(k) ==
  /\ k.op = "list" /\ k.pc = "sent"
  /\ IF k.conv \in server.convs THEN Answered(k, "ok", k.conv, server.history[k.conv])
     ELSE Answered(k, "failed", k.conv, <<>>)
  /\ UNCHANGED <<page, sockets, server, asked, used, calm>>

create_conversation(k) ==
  /\ k.op = "create" /\ k.pc = "sent"
  /\ \E c \in Convs \ server.ever :
       /\ server' = [server EXCEPT !.convs = @ \cup {c}, !.ever = @ \cup {c}]
       /\ Answered(k, "ok", c, <<>>)
  /\ UNCHANGED <<page, sockets, asked, used, calm>>

delete_conversation(k) ==
  /\ k.op = "delete" /\ k.pc = "sent"
  /\ server' = [server EXCEPT !.convs = @ \ {k.conv}, !.history[k.conv] = <<>>]
  /\ Answered(k, IF k.conv \in server.convs THEN "ok" ELSE "failed", k.conv, <<>>)
  /\ UNCHANGED <<page, sockets, asked, used, calm>>

(* A call fails before the server has acted, or its response is lost.       *)
call_fails(k) ==
  /\ k.pc # "failed"
  /\ Fault
  /\ Answered(k, "failed", k.conv, <<>>)
  /\ UNCHANGED <<page, sockets, server, asked, calm>>

(* The history arrives and takes the place of whatever the page shows.      *)
loaded(k) ==
  /\ k.op = "list" /\ k.pc = "ok"
  /\ page' = [page EXCEPT !.messages = Shown(k.data)]
  /\ calls' = calls \ {k}
  /\ UNCHANGED <<sockets, server, asked, used, calm>>

created(k) ==
  /\ k.op = "create" /\ k.pc = "ok"
  /\ Begin(k.conv, k.turn)
  /\ calls' = calls \ {k}
  /\ calm' = (calm /\ (sockets = <<>> \/ Last(sockets).state = "closed"))
  /\ UNCHANGED <<server, used>>

deleted(k) ==
  /\ k.op = "delete" /\ k.pc = "ok"
  /\ page' = [page EXCEPT !.selected = IF k.mine THEN None ELSE @,
                          !.messages = IF k.mine THEN <<>> ELSE @]
  /\ calls' = calls \ {k}
  /\ UNCHANGED <<sockets, server, asked, used, calm>>

(* The promise is rejected and nobody handles it: what was set before the   *)
(* call stays set.                                                          *)
rejected(k) ==
  /\ k.pc = "failed"
  /\ calls' = calls \ {k}
  /\ calm' = (calm /\ k.op # "list")
  /\ UNCHANGED <<page, sockets, server, asked, used>>

-----------------------------------------------------------------------------
(* Sockets.                                                                 *)

Deliver(sock, event, q) ==
  IF sock.state = "open"
  THEN [sock EXCEPT !.down = Append(@, [event |-> event, turn |-> q])] ELSE sock

(* The server accepts before it looks the conversation up.                  *)
opened(s) ==
  /\ sockets[s].state = "connecting"
  /\ LET open == [sockets[s] EXCEPT !.state = "open", !.waiting = <<>>] IN
     sockets' = [sockets EXCEPT ![s] =
       IF @.conv \in server.convs THEN [open EXCEPT !.up = open.up \o sockets[s].waiting]
       ELSE Deliver(Deliver(open, "error", 0), "close", 0)]
  /\ UNCHANGED <<page, calls, server, asked, used, calm>>

Answering(s) == sockets[s].state \in {"open", "closing"} /\ sockets[s].up # <<>>

token(s) ==
  /\ Answering(s) /\ ~sockets[s].told
  /\ sockets' = [sockets EXCEPT ![s] = [Deliver(@, "token", Head(@.up)) EXCEPT !.told = TRUE]]
  /\ UNCHANGED <<page, calls, server, asked, used, calm>>

Over(sock, event) ==
  [Deliver(sock, event, Head(sock.up)) EXCEPT !.up = Tail(@), !.told = FALSE]

answer(s) ==
  /\ Answering(s) /\ sockets[s].told
  /\ sockets[s].conv \in server.convs
  /\ server' = [server EXCEPT !.history[sockets[s].conv] = Append(@, Head(sockets[s].up))]
  /\ sockets' = [sockets EXCEPT ![s] = Over(@, "done")]
  /\ UNCHANGED <<page, calls, asked, used, calm>>

(* The conversation is gone, or the search or the model raises.             *)
refuse(s) ==
  /\ Answering(s)
  /\ sockets[s].conv \notin server.convs
  /\ sockets' = [sockets EXCEPT ![s] = Over(@, "error")]
  /\ UNCHANGED <<page, calls, server, asked, used, calm>>

error(s) ==
  /\ Answering(s)
  /\ Fault
  /\ sockets' = [sockets EXCEPT ![s] = Over(@, "error")]
  /\ UNCHANGED <<page, calls, server, asked, calm>>

onEvent(s) ==
  /\ sockets[s].state = "open" /\ sockets[s].down # <<>>
  /\ LET e == Head(sockets[s].down) IN
     /\ sockets' = [sockets EXCEPT ![s].down = Tail(@),
                                   ![s].state = IF e.event = "close" THEN "closed" ELSE @]
     /\ page' =
          CASE e.event = "token" ->
                 [page EXCEPT !.messages = updateLastAssistant(<<e.turn>>, FALSE)]
            [] e.event \in {"done", "error"} ->
                 [page EXCEPT !.messages = updateLastAssistant(<<>>, TRUE), !.streaming = FALSE]
            [] e.event = "close" -> onClose
  /\ UNCHANGED <<calls, server, asked, used, calm>>

Closed(s) ==
  sockets' = [sockets EXCEPT ![s] = [@ EXCEPT !.state = "closed", !.waiting = <<>>, !.up = <<>>,
                                             !.down = <<>>, !.told = FALSE]]

(* The close event of a socket the page has closed.                         *)
closed(s) ==
  /\ sockets[s].state = "closing"
  /\ Closed(s)
  /\ page' = onClose
  /\ UNCHANGED <<calls, server, asked, used, calm>>

(* The connection is lost.                                                  *)
lost(s) ==
  /\ sockets[s].state \in Live
  /\ Fault
  /\ Closed(s)
  /\ page' = onClose
  /\ UNCHANGED <<calls, server, asked, calm>>

-----------------------------------------------------------------------------
Rest(k) ==
  \/ list_messages(k) \/ create_conversation(k) \/ delete_conversation(k)
  \/ loaded(k) \/ created(k) \/ deleted(k) \/ rejected(k)

Run(s) ==
  \/ opened(s) \/ token(s) \/ answer(s) \/ refuse(s) \/ onEvent(s) \/ closed(s)

Next ==
  \/ Click
  \/ \E k \in calls : Rest(k) \/ call_fails(k)
  \/ \E s \in DOMAIN sockets : Run(s) \/ error(s) \/ lost(s)

Spec == Init /\ [][Next]_vars

(* Server, network and event loop go on; nobody has to click or to fail.    *)
FairSpec ==
  /\ Spec
  /\ \A s \in 1 .. MaxQuestions : WF_vars(s \in DOMAIN sockets /\ Run(s))
  /\ \A n \in 0 .. MaxCalls : WF_vars(\E k \in calls : k.id = n /\ Rest(k))

-----------------------------------------------------------------------------
(* What any user can rely on.                                               *)

Carried(sock) == ToSet(sock.waiting) \cup ToSet(sock.up)

(* A question goes to the conversation in which it was asked, however the   *)
(* selection has moved while a conversation was created or a socket opened  *)
(* (send, ensureSocket).                                                    *)
QuestionsGoWhereAsked ==
  /\ \A s \in DOMAIN sockets : \A q \in Carried(sockets[s]) : asked[q] = sockets[s].conv
  /\ \A c \in Convs : \A q \in ToSet(server.history[c]) : asked[q] = c

(* No two sockets can speak to the page: only the last one opened is live.  *)
OneLiveSocket == \A s \in DOMAIN sockets : sockets[s].state \in Live => s = Len(sockets)

(* The page does not stay locked: after an answer, an error or a lost       *)
(* connection it takes the next question.                                   *)
StreamingEnds == page.streaming ~> ~page.streaming

-----------------------------------------------------------------------------
(* While an answer streams, the message that takes its tokens is there.     *)
StreamIsShown ==
  page.streaming => page.messages # <<>> /\ Last(page.messages).streaming

(* What stands below a question is the answer to it, once.                  *)
AnswersMatch ==
  \A i \in DOMAIN page.messages :
    page.messages[i].role = "assistant" =>
      i > 1 /\ page.messages[i].text \in {<<>>, page.messages[i - 1].text}

(* At rest the page shows the conversation it says it shows.                *)
ShownIsSelected ==
  calls = {} =>
    \A m \in ToSet(page.messages) : \A q \in ToSet(m.text) : asked[q] = page.selected

(* What a user can rely on who waits for calls to return, asks in another   *)
(* conversation only when the socket of the one before is gone, and whose   *)
(* histories load: `calm`.                                                  *)
CalmPageIsRight == calm => StreamIsShown /\ AnswersMatch /\ ShownIsSelected
=============================================================================
