--------------------------- MODULE ChatPage_proofs ---------------------------
(***************************************************************************)
(* Questions go where they were asked, one socket at most can speak to the *)
(* page, and a user who waits sees the right answers, for any number of    *)
(* conversations, questions, calls and faults.                             *)
(***************************************************************************)
EXTENDS ChatPage, TLAPS, SequenceTheorems

(* Why questions go where they were asked: each is asked once.  One that    *)
(* has not been asked, or waits for its conversation, is nowhere else.      *)
QuestionsAreNew ==
  /\ \A q \in Questions : q > used.questions => asked[q] = None
  /\ \A k \in calls :
       IF k.op = "create"
       THEN /\ k.turn \in Questions /\ k.turn <= used.questions /\ asked[k.turn] = None
            /\ k.pc = "ok" => k.conv \in Convs
            /\ \A j \in calls : j.op = "create" /\ j.turn = k.turn => j = k
       ELSE k.conv \in Convs

PageInv == TypeOK /\ OneLiveSocket /\ QuestionsGoWhereAsked /\ QuestionsAreNew

-----------------------------------------------------------------------------
(* Why a calm page is right: a user who waits has one call or one answer    *)
(* under way, on the last socket, the others being closed; and the page     *)
(* knows how far each is.                                                   *)

News(event, q) == [event |-> event, turn |-> q]

(* The server has refused the conversation: nothing more will be heard.     *)
Doomed(sock) == sock.state = "open" /\ sock.down # <<>> /\ Head(sock.down).event = "close"

Resting(sock) ==
  sock.state = "open" /\ sock.waiting = <<>> /\ sock.up = <<>> /\ ~sock.told /\ sock.down = <<>>

(* How far the answer to q is, when its text is what the page shows of it.  *)
Coming(sock, q, text) ==
  \/ /\ sock.state = "connecting" /\ sock.waiting = <<q>> /\ sock.up = <<>>
     /\ ~sock.told /\ sock.down = <<>> /\ text = <<>>
  \/ /\ sock.state = "open" /\ sock.waiting = <<>> /\ sock.up = <<q>>
     /\ \/ ~sock.told /\ sock.down = <<>> /\ text = <<>>
        \/ sock.told /\ sock.down = <<News("token", q)>> /\ text = <<>>
        \/ sock.told /\ sock.down = <<>> /\ text = <<q>>
  \/ /\ sock.state = "open" /\ sock.waiting = <<>> /\ sock.up = <<>> /\ ~sock.told
     /\ \E end \in {"done", "error"}, p \in Questions \cup {0} :
          \/ sock.down = <<News("token", q), News(end, p)>> /\ text = <<>>
          \/ sock.down = <<News(end, p)>> /\ text \in {<<>>, <<q>>}
          \/ sock.down = <<News(end, p), News("close", 0)>> /\ text = <<>>

OthersAreClosed ==
  \A s \in DOMAIN sockets :
    /\ sockets[s].state # "closing"
    /\ s # Len(sockets) => sockets[s].state = "closed"

AnswerIsComing ==
  IF page.streaming
  THEN /\ calls = {} /\ sockets # <<>> /\ page.messages # <<>> /\ Last(page.messages).streaming
       /\ \/ Doomed(Last(sockets))
          \/ \E q \in Questions :
               /\ page.messages[Len(page.messages) - 1].text = <<q>>
               /\ Coming(Last(sockets), q, Last(page.messages).text)
  ELSE sockets # <<>> =>
         Last(sockets).state = "closed" \/ Doomed(Last(sockets)) \/ Resting(Last(sockets))

(* Questions and answers take turns.                                        *)
MessagesPair ==
  /\ Len(page.messages) % 2 = 0
  /\ \A i \in DOMAIN page.messages :
       IF i % 2 = 1 THEN page.messages[i].role = "user"
       ELSE /\ page.messages[i].role = "assistant"
            /\ page.messages[i].text \in {<<>>, page.messages[i - 1].text}

Belongs(messages, c) ==
  \A i \in DOMAIN messages : \A j \in DOMAIN messages[i].text :
    messages[i].text[j] \in Questions /\ asked[messages[i].text[j]] = c

OneCall ==
  /\ \A j, k \in calls : j = k
  /\ page.selected = None => page.messages = <<>>
  /\ \A k \in calls :
       /\ k.op = "create" => page.selected = None
       /\ k.op = "list" =>
            /\ k.conv = page.selected
            /\ k.pc = "ok" => \A i \in DOMAIN k.data : asked[k.data[i]] = k.conv
  /\ (\A k \in calls : k.op # "list") => Belongs(page.messages, page.selected)

CalmInv == calm => OthersAreClosed /\ AnswerIsComing /\ MessagesPair /\ OneCall

-----------------------------------------------------------------------------
USE PageAssumption

(* What is true of the sockets alone.                                       *)
SocketsInv ==
  /\ sockets \in Seq(Socket)
  /\ OneLiveSocket
  /\ \A s \in DOMAIN sockets : \A q \in Carried(sockets[s]) : asked[q] = sockets[s].conv

LEMMA QueuesOfQuestions ==
  ASSUME NEW a \in Seq(Questions), NEW q \in Questions
  PROVE  /\ ToSet(a) \subseteq Questions
         /\ Append(a, q) \in Seq(Questions)
         /\ ToSet(Append(a, q)) = ToSet(a) \cup {q}
         /\ a # <<>> => /\ Head(a) \in Questions
                        /\ Tail(a) \in Seq(Questions)
                        /\ ToSet(Tail(a)) \subseteq ToSet(a)
         /\ <<>> \in Seq(Questions) /\ ToSet(<<>>) = {}
<1>1. ToSet(a) \subseteq Questions /\ Append(a, q) \in Seq(Questions)
  BY DEF ToSet
<1>2. ToSet(Append(a, q)) = ToSet(a) \cup {q}
  <2>1. /\ Len(Append(a, q)) = Len(a) + 1 /\ Append(a, q)[Len(a) + 1] = q
        /\ \A i \in 1 .. Len(a) : Append(a, q)[i] = a[i]
        /\ DOMAIN a = 1 .. Len(a) /\ DOMAIN Append(a, q) = 1 .. Len(a) + 1 /\ Len(a) \in Nat
    OBVIOUS
  <2>2. ToSet(a) \cup {q} \subseteq ToSet(Append(a, q))
    <3>1. \A i \in DOMAIN a : a[i] = Append(a, q)[i] /\ i \in DOMAIN Append(a, q) BY <2>1
    <3>2. Len(a) + 1 \in DOMAIN Append(a, q) BY <2>1
    <3>3. QED BY <2>1, <3>1, <3>2 DEF ToSet
  <2>3. ASSUME NEW i \in DOMAIN Append(a, q) PROVE Append(a, q)[i] \in ToSet(a) \cup {q}
    <3>1. i \in DOMAIN a \/ i = Len(a) + 1 BY <2>1
    <3>2. QED BY <2>1, <3>1 DEF ToSet
  <2>4. QED BY <2>2, <2>3 DEF ToSet
<1>3. a # <<>> => Head(a) \in Questions /\ Tail(a) \in Seq(Questions)
  OBVIOUS
<1>4. a # <<>> => ToSet(Tail(a)) \subseteq ToSet(a)
  BY DEF ToSet
<1>5. <<>> \in Seq(Questions) /\ ToSet(<<>>) = {}
  BY DEF ToSet
<1>6. QED BY <1>1, <1>2, <1>3, <1>4, <1>5

LEMMA ToSetOfConcat ==
  ASSUME NEW a \in Seq(Questions), NEW b \in Seq(Questions)
  PROVE  a \o b \in Seq(Questions) /\ ToSet(a \o b) \subseteq ToSet(a) \cup ToSet(b)
<1>1. a \o b \in Seq(Questions)
  OBVIOUS
<1>2. ASSUME NEW i \in DOMAIN (a \o b) PROVE (a \o b)[i] \in ToSet(a) \cup ToSet(b)
  <2>1. CASE i <= Len(a) BY <2>1 DEF ToSet
  <2>2. CASE i > Len(a)
    <3>1. (a \o b)[i] = b[i - Len(a)] /\ i - Len(a) \in DOMAIN b BY <2>2
    <3>2. QED BY <3>1 DEF ToSet
  <2>3. QED BY <2>1, <2>2
<1>3. QED BY <1>1, <1>2 DEF ToSet

(* The provers need not see that the queues are sequences to see that a     *)
(* socket changed in some fields is a socket.                               *)
States == {"connecting", "open", "closing", "closed"}
Event == [event : Events, turn : Nat]
Asked == Seq(Questions)
Happened == Seq(Event)

LEMMA SocketIs ==
  Socket = [conv : Convs, state : States, waiting : Asked, up : Asked, told : BOOLEAN,
            down : Happened]
BY DEF Socket, States, Asked, Happened, Event

LEMMA TypesOfSocket ==
  ASSUME NEW k \in Socket
  PROVE  /\ k.conv \in Convs /\ k.state \in States
         /\ k.waiting \in Seq(Questions) /\ k.up \in Seq(Questions)
         /\ k.told \in BOOLEAN /\ k.down \in Seq(Event)
         /\ Carried(k) \subseteq Questions
<1>1. /\ k.conv \in Convs /\ k.state \in States
      /\ k.waiting \in Asked /\ k.up \in Asked
      /\ k.told \in BOOLEAN /\ k.down \in Happened
  BY SocketIs
<1>2. QED BY <1>1 DEF Carried, ToSet, Asked, Happened

-----------------------------------------------------------------------------
(* One socket moves on: it keeps its conversation, is not revived, and      *)
(* carries nothing it did not carry.                                        *)
LEMMA SocketMoves ==
  ASSUME SocketsInv, NEW s \in DOMAIN sockets, NEW r \in Socket,
         sockets' = [sockets EXCEPT ![s] = r],
         r.conv = sockets[s].conv,
         r.state \in Live => sockets[s].state \in Live,
         Carried(r) \subseteq Carried(sockets[s]),
         asked' = asked
  PROVE  SocketsInv'
<1>1. /\ sockets' \in Seq(Socket) /\ DOMAIN sockets' = DOMAIN sockets /\ Len(sockets') = Len(sockets)
      /\ \A t \in DOMAIN sockets : sockets'[t] = IF t = s THEN r ELSE sockets[t]
  BY DEF SocketsInv
<1>2. OneLiveSocket'
  BY <1>1 DEF SocketsInv, OneLiveSocket
<1>3. \A t \in DOMAIN sockets' : \A q \in Carried(sockets'[t]) : asked'[q] = sockets'[t].conv
  BY <1>1 DEF SocketsInv
<1>4. (\A t \in DOMAIN sockets : \A q \in Carried(sockets[t]) : asked[q] = sockets[t].conv)'
  BY <1>3 DEF Carried
<1>5. QED BY <1>1, <1>2, <1>4 DEF SocketsInv

(* Delivering an event touches nothing but the queue of events.             *)
LEMMA Delivering ==
  ASSUME NEW sock \in Socket, NEW event \in Events, NEW q \in Nat
  PROVE  /\ Deliver(sock, event, q) \in Socket
         /\ Deliver(sock, event, q).conv = sock.conv
         /\ Deliver(sock, event, q).state = sock.state
         /\ Deliver(sock, event, q).waiting = sock.waiting
         /\ Deliver(sock, event, q).up = sock.up
<1> DEFINE d == Append(sock.down, [event |-> event, turn |-> q])
<1>1. sock.down \in Seq(Event) /\ [event |-> event, turn |-> q] \in Event
  BY TypesOfSocket DEF Event
<1>2. d \in Happened
  BY <1>1 DEF Happened
<1>3. Deliver(sock, event, q) = IF sock.state = "open" THEN [sock EXCEPT !.down = d] ELSE sock
  BY DEF Deliver
<1> HIDE DEF d
<1>4. QED BY <1>2, <1>3, SocketIs

(* So does ending an answer, and it takes the question off.                 *)
LEMMA Ending ==
  ASSUME NEW sock \in Socket, sock.up # <<>>, NEW event \in Events
  PROVE  /\ Over(sock, event) \in Socket
         /\ Over(sock, event).conv = sock.conv
         /\ Over(sock, event).state = sock.state
         /\ Carried(Over(sock, event)) \subseteq Carried(sock)
<1>1. /\ sock.up \in Seq(Questions) /\ Head(sock.up) \in Nat
      /\ Tail(sock.up) \in Asked /\ ToSet(Tail(sock.up)) \subseteq ToSet(sock.up)
  <2>1. sock.up \in Seq(Questions) BY TypesOfSocket
  <2>2. Head(sock.up) \in Questions /\ Tail(sock.up) \in Seq(Questions) BY <2>1
  <2>3. QED BY <2>1, <2>2, QueuesOfQuestions DEF Questions, Asked
<1> DEFINE d == Deliver(sock, event, Head(sock.up))
           u == Tail(sock.up)
<1>2. /\ d \in Socket /\ d.conv = sock.conv /\ d.state = sock.state
      /\ d.waiting = sock.waiting /\ d.up = sock.up
  BY <1>1, Delivering
<1> HIDE DEF d
<1>3. Over(sock, event) = [d EXCEPT !.up = u, !.told = FALSE]
  BY <1>2 DEF Over, d
<1>4. u \in Asked /\ ToSet(u) \subseteq ToSet(sock.up)
  BY <1>1
<1> HIDE DEF u
<1>5. [d EXCEPT !.up = u, !.told = FALSE] \in Socket
  BY <1>2, <1>4, SocketIs
<1>6. Over(sock, event).conv = d.conv /\ Over(sock, event).state = d.state
      /\ Over(sock, event).waiting = d.waiting /\ Over(sock, event).up = u
  BY <1>2, <1>3, <1>4, SocketIs
<1>7. QED BY <1>2, <1>3, <1>4, <1>5, <1>6 DEF Carried

LEMMA SocketSteps ==
  ASSUME SocketsInv, NEW s \in DOMAIN sockets, Run(s) \/ error(s) \/ lost(s)
  PROVE  SocketsInv'
<1> DEFINE sock == sockets[s]
<1>1. sock \in Socket /\ sock.waiting \in Seq(Questions) /\ sock.up \in Seq(Questions)
  BY TypesOfSocket DEF SocketsInv
<1>2. /\ 0 \in Nat /\ {"token", "done", "error", "close"} \subseteq Events
      /\ <<>> \in Asked /\ <<>> \in Happened /\ ToSet(<<>>) = {}
  BY DEF Events, Asked, Happened, ToSet
<1>3. ASSUME NEW r \in Socket, sockets' = [sockets EXCEPT ![s] = r], r.conv = sock.conv,
             r.state \in Live => sock.state \in Live, Carried(r) \subseteq Carried(sock),
             asked' = asked
      PROVE  SocketsInv'
  BY <1>3, SocketMoves
<1>4. CASE opened(s)
  <2> DEFINE open == [sock EXCEPT !.state = "open", !.waiting = <<>>]
             both == sock.up \o sock.waiting
             right == [open EXCEPT !.up = both]
             first == Deliver(open, "error", 0)
             wrong == Deliver(first, "close", 0)
  <2>1. sockets' = [sockets EXCEPT ![s] = IF sock.conv \in server.convs THEN right ELSE wrong]
    <3>1. open.up = sock.up BY <1>1, SocketIs
    <3>2. QED BY <1>4, <3>1 DEF opened
  <2>2. sock.state \in Live /\ asked' = asked
    BY <1>4 DEF opened, Live
  <2>3. both \in Asked /\ ToSet(both) \subseteq ToSet(sock.up) \cup ToSet(sock.waiting)
    BY <1>1, ToSetOfConcat DEF Asked
  <2> HIDE DEF both
  <2>4. open \in Socket /\ open.conv = sock.conv /\ open.up = sock.up /\ open.waiting = <<>>
    BY <1>1, <1>2, SocketIs DEF States
  <2>5. right \in Socket /\ right.conv = sock.conv /\ right.waiting = <<>> /\ right.up = both
    <3> HIDE DEF open
    <3>1. QED BY <1>1, <2>3, <2>4, SocketIs
  <2>6. wrong \in Socket /\ wrong.conv = sock.conv /\ wrong.waiting = <<>> /\ wrong.up = sock.up
    <3> HIDE DEF open
    <3>1. first \in Socket /\ first.conv = sock.conv /\ first.waiting = <<>> /\ first.up = sock.up
      BY ZenonT(60), <1>2, <2>4, Delivering
    <3> HIDE DEF first
    <3>2. QED BY ZenonT(60), <1>2, <3>1, Delivering
  <2> HIDE DEF right, wrong
  <2>7. Carried(right) \subseteq Carried(sock) /\ Carried(wrong) \subseteq Carried(sock)
    BY <1>2, <2>3, <2>5, <2>6 DEF Carried
  <2>8. CASE sock.conv \in server.convs
    BY <1>3, <2>1, <2>2, <2>5, <2>7, <2>8
  <2>9. CASE sock.conv \notin server.convs
    BY <1>3, <2>1, <2>2, <2>6, <2>7, <2>9
  <2>10. QED BY <2>8, <2>9
<1>5. CASE token(s)
  <2> DEFINE q == Head(sock.up)
             d == Deliver(sock, "token", q)
             r == [d EXCEPT !.told = TRUE]
  <2>1. q \in Nat /\ "token" \in Events
    BY <1>1, <1>2, <1>5 DEF token, Answering, Questions
  <2>2. /\ d \in Socket /\ d.conv = sock.conv /\ d.state = sock.state
        /\ d.waiting = sock.waiting /\ d.up = sock.up
    <3> HIDE DEF q
    <3>1. QED BY SMTT(40), <1>1, <2>1, Delivering
  <2>3. sockets' = [sockets EXCEPT ![s] = r] /\ asked' = asked
    BY <1>5 DEF token
  <2> HIDE DEF d
  <2>4. r \in Socket /\ r.conv = d.conv /\ r.state = d.state
        /\ r.waiting = d.waiting /\ r.up = d.up
    BY <2>2, SocketIs
  <2> HIDE DEF r
  <2>5. QED BY <1>3, <2>2, <2>3, <2>4 DEF Carried
<1>6. CASE answer(s) \/ refuse(s) \/ error(s)
  <2>1. PICK event \in Events : sockets' = [sockets EXCEPT ![s] = Over(sock, event)]
    BY <1>2, <1>6 DEF answer, refuse, error
  <2>2. sock.up # <<>> /\ asked' = asked
    BY <1>6 DEF answer, refuse, error, Answering
  <2> DEFINE r == Over(sock, event)
  <2>3. r \in Socket /\ r.conv = sock.conv /\ r.state = sock.state
        /\ Carried(r) \subseteq Carried(sock)
    BY <1>1, <2>2, Ending
  <2>4. sockets' = [sockets EXCEPT ![s] = r]
    BY <2>1
  <2> HIDE DEF r
  <2>5. QED BY <1>3, <2>2, <2>3, <2>4
<1>7. CASE onEvent(s)
  <2> DEFINE state == IF Head(sock.down).event = "close" THEN "closed" ELSE sock.state
             rest == Tail(sock.down)
             r == [sock EXCEPT !.down = rest, !.state = state]
  <2>1. rest \in Happened
    <3>1. sock.down \in Seq(Event) /\ sock.down # <<>>
      BY <1>1, <1>7, TypesOfSocket DEF onEvent
    <3>2. QED BY <3>1 DEF Happened
  <2>2. state \in States /\ state \in {"closed", sock.state}
    BY <1>1, TypesOfSocket DEF States
  <2>3. sockets' = [sockets EXCEPT ![s] = r] /\ asked' = asked
    BY <1>1, <1>7 DEF onEvent, SocketsInv
  <2> HIDE DEF rest, state
  <2>4. r \in Socket /\ r.conv = sock.conv /\ r.waiting = sock.waiting /\ r.up = sock.up
        /\ r.state = state
    BY <1>1, <2>1, <2>2, SocketIs
  <2> HIDE DEF r
  <2>5. QED BY <1>3, <2>2, <2>3, <2>4 DEF Carried, Live
<1>8. CASE closed(s) \/ lost(s)
  <2> DEFINE r == [sock EXCEPT !.state = "closed", !.waiting = <<>>, !.up = <<>>,
                               !.down = <<>>, !.told = FALSE]
  <2>1. r \in Socket /\ r.conv = sock.conv /\ r.waiting = <<>> /\ r.up = <<>> /\ r.state = "closed"
    BY <1>1, <1>2, SocketIs DEF States
  <2>2. sockets' = [sockets EXCEPT ![s] = r] /\ asked' = asked
    BY <1>8 DEF closed, lost, Closed
  <2> HIDE DEF r
  <2>3. QED BY <1>2, <1>3, <2>1, <2>2 DEF Carried, Live
<1>9. QED BY <1>4, <1>5, <1>6, <1>7, <1>8 DEF Run

-----------------------------------------------------------------------------
(* A question is asked: the socket it goes out on is its conversation's.    *)
LEMMA SocketEnsured ==
  ASSUME SocketsInv, NEW c \in Convs, NEW socks, socks = ensureSocket(c)
  PROVE  /\ socks \in Seq(Socket) /\ Len(socks) \in DOMAIN socks
         /\ socks[Len(socks)].conv = c
         /\ \A s \in DOMAIN socks : socks[s].state \in Live => s = Len(socks)
         /\ \A s \in DOMAIN socks : \A q \in Carried(socks[s]) : asked[q] = socks[s].conv
<1>1. CASE Usable(c)
  <2>1. socks = sockets /\ sockets # <<>> /\ sockets[Len(sockets)].conv = c
    BY <1>1 DEF ensureSocket, Usable, Last
  <2>2. QED BY <2>1 DEF SocketsInv, OneLiveSocket
<1>2. CASE ~Usable(c)
  <2> DEFINE old == [s \in DOMAIN sockets |->
                       IF s = Len(sockets) THEN Closing(sockets[s]) ELSE sockets[s]]
  <2>1. socks = Append(old, Fresh(c))
    BY <1>2 DEF ensureSocket
  <2>2. ASSUME NEW k \in Socket
        PROVE  /\ Closing(k) \in Socket /\ Closing(k).conv = k.conv /\ Closing(k).state \notin Live
               /\ Carried(Closing(k)) \subseteq Carried(k)
    <3> DEFINE r == [k EXCEPT !.state = "closing", !.waiting = <<>>, !.down = <<>>]
    <3>1. <<>> \in Asked /\ <<>> \in Happened /\ ToSet(<<>>) = {}
      BY DEF Asked, Happened, ToSet
    <3>2. r \in Socket /\ r.conv = k.conv /\ r.state = "closing" /\ r.waiting = <<>> /\ r.up = k.up
      BY <3>1, SocketIs DEF States
    <3>3. Closing(k) = IF k.state \in Live THEN r ELSE k
      BY DEF Closing
    <3> HIDE DEF r
    <3>4. QED BY <3>1, <3>2, <3>3 DEF Carried, Live
  <2>3. Fresh(c) \in Socket /\ Fresh(c).conv = c /\ Carried(Fresh(c)) = {}
    <3>1. <<>> \in Asked /\ <<>> \in Happened /\ ToSet(<<>>) = {}
      BY DEF Asked, Happened, ToSet
    <3>2. QED BY <3>1, SocketIs DEF Fresh, Carried, States
  <2>4. \A s \in DOMAIN sockets :
          /\ sockets[s] \in Socket /\ old[s] \in Socket /\ old[s].conv = sockets[s].conv
          /\ old[s].state \notin Live /\ Carried(old[s]) \subseteq Carried(sockets[s])
    BY <2>2 DEF SocketsInv, OneLiveSocket
  <2>5. DOMAIN old = 1 .. Len(sockets) /\ Len(sockets) \in Nat
    BY DEF SocketsInv
  <2> HIDE DEF old
  <2>6. old \in Seq(Socket) /\ Len(old) = Len(sockets) /\ DOMAIN old = DOMAIN sockets
    <3>1. old \in [1 .. Len(sockets) -> Socket]
      BY <2>4, <2>5 DEF SocketsInv, old
    <3>2. QED BY <2>5, <3>1 DEF SocketsInv
  <2>7. /\ socks \in Seq(Socket) /\ Len(socks) = Len(old) + 1 /\ socks[Len(socks)] = Fresh(c)
        /\ \A s \in DOMAIN socks : s # Len(socks) => s \in DOMAIN old /\ socks[s] = old[s]
        /\ Len(socks) \in DOMAIN socks
    BY <2>1, <2>3, <2>6
  <2>8. \A s \in DOMAIN sockets : \A q \in Carried(sockets[s]) : asked[q] = sockets[s].conv
    BY DEF SocketsInv
  <2>9. QED BY <2>3, <2>4, <2>6, <2>7, <2>8
<1>3. QED BY <1>1, <1>2

AskedType == asked \in [Questions -> Convs \cup {None}]

LEMMA BeginStep ==
  ASSUME SocketsInv, AskedType, NEW c \in Convs, NEW q \in Questions, asked[q] = None, Begin(c, q)
  PROVE  SocketsInv' /\ AskedType'
<1> DEFINE socks == ensureSocket(c)
           n == Len(socks)
           sock == socks[n]
           ups == Append(sock.up, q)
           waits == Append(sock.waiting, q)
           now == [sock EXCEPT !.up = ups]
           later == [sock EXCEPT !.waiting = waits]
           r == IF sock.state = "open" THEN now ELSE later
<1>1. /\ socks \in Seq(Socket) /\ n \in DOMAIN socks /\ sock.conv = c
      /\ \A s \in DOMAIN socks : socks[s].state \in Live => s = n
      /\ \A s \in DOMAIN socks : \A p \in Carried(socks[s]) : asked[p] = socks[s].conv
  BY SocketEnsured
<1>2. asked' = [asked EXCEPT ![q] = c] /\ AskedType'
      /\ asked'[q] = c /\ \A p \in Questions : p # q => asked'[p] = asked[p]
  BY DEF Begin, AskedType
<1>3. sockets' = [socks EXCEPT ![n] = r]
  BY DEF Begin, sendPayload
<1> HIDE DEF socks, n
<1>4. sock \in Socket /\ sock.up \in Seq(Questions) /\ sock.waiting \in Seq(Questions)
  BY <1>1, TypesOfSocket
<1>5. /\ ups \in Asked /\ ToSet(ups) = ToSet(sock.up) \cup {q}
      /\ waits \in Asked /\ ToSet(waits) = ToSet(sock.waiting) \cup {q}
  <2> DEFINE u == sock.up
             w == sock.waiting
  <2>1. u \in Seq(Questions) /\ w \in Seq(Questions)
    BY <1>4
  <2> HIDE DEF u, w
  <2>2. /\ Append(u, q) \in Seq(Questions) /\ ToSet(Append(u, q)) = ToSet(u) \cup {q}
        /\ Append(w, q) \in Seq(Questions) /\ ToSet(Append(w, q)) = ToSet(w) \cup {q}
    BY <2>1, QueuesOfQuestions
  <2>3. QED BY <2>2 DEF u, w, Asked
<1> HIDE DEF sock, ups, waits
<1>6. /\ now \in Socket /\ now.conv = sock.conv /\ now.state = sock.state
      /\ now.up = ups /\ now.waiting = sock.waiting
      /\ later \in Socket /\ later.conv = sock.conv /\ later.state = sock.state
      /\ later.up = sock.up /\ later.waiting = waits
  BY <1>4, <1>5, SocketIs
<1> HIDE DEF now, later
<1>7. r \in Socket /\ r.conv = c /\ r.state = sock.state /\ Carried(r) = Carried(sock) \cup {q}
  BY <1>1, <1>5, <1>6 DEF Carried, sock
<1> HIDE DEF r
<1>8. /\ sockets' \in Seq(Socket) /\ DOMAIN sockets' = DOMAIN socks /\ Len(sockets') = n
      /\ \A s \in DOMAIN socks : sockets'[s] = IF s = n THEN r ELSE socks[s]
  BY <1>1, <1>3, <1>7 DEF n
<1>9. OneLiveSocket'
  BY <1>1, <1>7, <1>8 DEF OneLiveSocket, sock, n
<1>10. ASSUME NEW s \in DOMAIN sockets', NEW p \in Carried(sockets'[s])
       PROVE  asked'[p] = sockets'[s].conv
  <2>0. s \in DOMAIN socks /\ socks[s] \in Socket
    <3>1. \A i \in DOMAIN socks : socks[i] \in Socket
      BY <1>1
    <3>2. QED BY <1>8, <3>1
  <2>1. CASE p = q /\ s = n
    BY <1>2, <1>7, <1>8, <2>1
  <2>2. CASE p \in Carried(socks[s])
    <3>1. p \in Questions
      BY <2>2, <2>0, TypesOfSocket
    <3>2. asked[p] = socks[s].conv /\ socks[s].conv \in Convs
      BY <1>1, <2>2, <2>0, TypesOfSocket
    <3>3. p # q
      BY <3>2
    <3>4. sockets'[s].conv = socks[s].conv
      BY <1>1, <1>7, <1>8 DEF sock
    <3>5. QED BY <1>2, <3>1, <3>2, <3>3, <3>4
  <2>3. CASE s = n
    <3>1. p \in Carried(r)
      BY <1>1, <1>8, <2>3
    <3>2. p \in Carried(socks[s]) \/ p = q
      BY <1>7, <2>3, <3>1 DEF sock
    <3>3. QED BY <2>1, <2>2, <2>3, <3>2
  <2>4. CASE s # n
    <3>1. p \in Carried(socks[s])
      BY <1>8, <2>4
    <3>2. QED BY <2>2, <3>1
  <2>5. QED BY <2>3, <2>4
<1>11. (\A s \in DOMAIN sockets : \A p \in Carried(sockets[s]) : asked[p] = sockets[s].conv)'
  BY <1>10 DEF Carried
<1>12. QED BY <1>2, <1>8, <1>9, <1>11 DEF SocketsInv

-----------------------------------------------------------------------------
(* Types of the calls.                                                      *)
Ops == {"list", "create", "delete"}
Phases == {"sent", "ok", "failed"}

LEMMA CallIs ==
  Call = [id : Nat, op : Ops, conv : Convs \cup {None}, turn : Nat, mine : BOOLEAN,
          pc : Phases, data : Asked]
BY DEF Call, Ops, Phases, Asked

(* A step that answers a call.                                              *)
Moves(k, pc, conv) ==
  \E r \in Call : /\ calls' = (calls \ {k}) \cup {r}
                  /\ r.op = k.op /\ r.turn = k.turn /\ r.pc = pc /\ r.conv = conv

CallsInv ==
  /\ calls \subseteq Call
  /\ \A k \in calls : k.op # "create" => k.conv \in Convs
  /\ \A k \in calls : k.op = "create" /\ k.pc = "ok" => k.conv \in Convs

LEMMA CallsMove ==
  ASSUME TypeOK, CallsInv, NEW k \in calls,
         list_messages(k) \/ create_conversation(k) \/ delete_conversation(k) \/ call_fails(k)
  PROVE  \E pc \in Phases, conv \in Convs \cup {None} :
           /\ Moves(k, pc, conv)
           /\ k.op # "create" => conv = k.conv
           /\ pc = "ok" => conv \in Convs
           /\ k.op = "create" /\ pc # "failed" => k.pc = "sent"
<1>1. /\ k \in Call /\ k.conv \in Convs \cup {None} /\ k.op \in Ops
      /\ <<>> \in Asked /\ "ok" \in Phases /\ "failed" \in Phases
  BY CallIs DEF TypeOK, Asked, Phases
<1>2. \A c \in Convs : server.history[c] \in Asked
  BY DEF TypeOK, Asked
<1>3. ASSUME NEW pc \in Phases, NEW conv \in Convs \cup {None}, NEW data \in Asked,
             Answered(k, pc, conv, data)
      PROVE  Moves(k, pc, conv)
  <2> DEFINE r == [k EXCEPT !.pc = pc, !.conv = conv, !.data = data]
  <2>1. r \in Call /\ r.op = k.op /\ r.conv = conv /\ r.turn = k.turn /\ r.pc = pc
    BY <1>1, <1>3, CallIs
  <2>2. calls' = (calls \ {k}) \cup {r}
    BY <1>3 DEF Answered
  <2> HIDE DEF r
  <2>3. QED BY <2>1, <2>2 DEF Moves
<1>4. CASE list_messages(k)
  <2>1. k.conv \in Convs /\ k.op = "list"
    BY <1>4 DEF list_messages, CallsInv
  <2>2. CASE k.conv \in server.convs
    <3>1. Answered(k, "ok", k.conv, server.history[k.conv])
      BY <1>4, <2>2 DEF list_messages
    <3>2. Moves(k, "ok", k.conv)
      BY <1>1, <1>2, <1>3, <2>1, <3>1
    <3>3. QED BY <1>1, <2>1, <3>2
  <2>3. CASE k.conv \notin server.convs
    <3>1. Answered(k, "failed", k.conv, <<>>)
      BY <1>4, <2>3 DEF list_messages
    <3>2. Moves(k, "failed", k.conv)
      BY <1>1, <1>3, <3>1
    <3>3. QED BY <1>1, <2>1, <3>2
  <2>4. QED BY <2>2, <2>3
<1>5. CASE create_conversation(k)
  <2>1. PICK c \in Convs : Answered(k, "ok", c, <<>>) /\ k.op = "create" /\ k.pc = "sent"
    BY <1>5 DEF create_conversation
  <2>2. Moves(k, "ok", c)
    BY <1>1, <1>3, <2>1
  <2>3. QED BY <1>1, <2>1, <2>2
<1>6. CASE delete_conversation(k)
  <2> DEFINE pc == IF k.conv \in server.convs THEN "ok" ELSE "failed"
  <2>1. Answered(k, pc, k.conv, <<>>) /\ k.op = "delete" /\ k.conv \in Convs /\ pc \in Phases
    BY <1>1, <1>6 DEF delete_conversation, CallsInv
  <2>2. Moves(k, pc, k.conv)
    <3> HIDE DEF pc
    <3>1. QED BY <1>1, <1>3, <2>1
  <2>3. QED BY <1>1, <2>1, <2>2
<1>7. CASE call_fails(k)
  <2>1. Answered(k, "failed", k.conv, <<>>)
    BY <1>7 DEF call_fails
  <2>2. Moves(k, "failed", k.conv)
    BY <1>1, <1>3, <2>1
  <2>3. QED BY <1>1, <2>2
<1>8. QED BY <1>4, <1>5, <1>6, <1>7

-----------------------------------------------------------------------------
(* Types of the page.                                                       *)
Text == Seq(Nat)
Messages == Seq(UIMessage)

LEMMA UIMessageIs == UIMessage = [role : {"user", "assistant"}, text : Text, streaming : BOOLEAN]
BY DEF UIMessage, Text

LEMMA SaidIsMessage ==
  ASSUME NEW q \in Nat, NEW role \in {"user", "assistant"}
  PROVE  Said(role, q) \in UIMessage
<1>1. <<q>> \in Text
  BY DEF Text
<1>2. QED BY <1>1, UIMessageIs DEF Said

LEMMA ShownIsMessages ==
  ASSUME NEW history \in Seq(Questions)
  PROVE  Shown(history) \in Messages
<1>1. ASSUME NEW i \in 1 .. 2 * Len(history)
      PROVE  Said(IF i % 2 = 1 THEN "user" ELSE "assistant", history[(i + 1) \div 2]) \in UIMessage
  <2>1. (i + 1) \div 2 \in 1 .. Len(history)
    BY <1>1
  <2>2. history[(i + 1) \div 2] \in Questions
    BY <2>1
  <2>3. history[(i + 1) \div 2] \in Nat
    BY <2>2 DEF Questions
  <2>4. (IF i % 2 = 1 THEN "user" ELSE "assistant") \in {"user", "assistant"}
    OBVIOUS
  <2>5. QED BY <2>3, <2>4, SaidIsMessage
<1>2. Shown(history) \in [1 .. 2 * Len(history) -> UIMessage]
  BY <1>1 DEF Shown
<1>3. 2 * Len(history) \in Nat
  OBVIOUS
<1> DEFINE n == 2 * Len(history)
<1> HIDE DEF n
<1>4. Shown(history) \in [1 .. n -> UIMessage] /\ n \in Nat
  BY <1>2, <1>3 DEF n
<1>5. QED BY <1>4 DEF Messages

LEMMA UpdatedMessages ==
  ASSUME page.messages \in Messages, NEW tokens \in Text, NEW ends \in BOOLEAN
  PROVE  updateLastAssistant(tokens, ends) \in Messages
<1>1. ASSUME NEW m \in UIMessage
      PROVE  [m EXCEPT !.text = @ \o tokens, !.streaming = @ /\ ~ends] \in UIMessage
  <2> DEFINE text == m.text \o tokens
             streaming == m.streaming /\ ~ends
  <2>1. m.text \in Text
    BY UIMessageIs
  <2>2. text \in Text
    BY <2>1 DEF Text
  <2>3. streaming \in BOOLEAN
    OBVIOUS
  <2> HIDE DEF text, streaming
  <2>4. [m EXCEPT !.text = text, !.streaming = streaming] \in UIMessage
    BY <2>2, <2>3, UIMessageIs
  <2>5. QED BY <2>4 DEF text, streaming
<1>2. DOMAIN page.messages = 1 .. Len(page.messages) /\ Len(page.messages) \in Nat
      /\ \A i \in DOMAIN page.messages : page.messages[i] \in UIMessage
  BY DEF Messages
<1>3. updateLastAssistant(tokens, ends) \in [1 .. Len(page.messages) -> UIMessage]
  BY <1>1, <1>2 DEF updateLastAssistant
<1>4. QED BY <1>2, <1>3 DEF Messages

PageType == page \in [selected : Convs \cup {None}, messages : Messages, streaming : BOOLEAN]
ServerType ==
  server \in [convs : SUBSET Convs, ever : SUBSET Convs, history : [Convs -> Asked]]
UsedType == used \in [questions : Nat, calls : Nat, faults : Nat]

(* What the invariant says, by the parts the steps disturb.                 *)
HistoryInv == \A c \in Convs : \A q \in ToSet(server.history[c]) : asked[q] = c

Waiting(k) == k.op = "create"

AskedOnce ==
  /\ \A q \in Questions : q > used.questions => asked[q] = None
  /\ \A k \in calls : Waiting(k) =>
       /\ k.turn \in Questions /\ k.turn <= used.questions /\ asked[k.turn] = None
       /\ \A j \in calls : Waiting(j) /\ j.turn = k.turn => j = k

Parts ==
  /\ PageType /\ ServerType /\ UsedType /\ AskedType /\ calm \in BOOLEAN
  /\ SocketsInv /\ CallsInv /\ HistoryInv /\ AskedOnce

LEMMA PartsOfPageInv == PageInv <=> Parts
<1>1. TypeOK <=> /\ PageType /\ ServerType /\ UsedType /\ AskedType /\ calm \in BOOLEAN
                 /\ sockets \in Seq(Socket) /\ calls \subseteq Call
  BY DEF TypeOK, PageType, ServerType, UsedType, AskedType, Messages, Asked
<1>2. OneLiveSocket /\ QuestionsGoWhereAsked
        <=> /\ OneLiveSocket /\ HistoryInv
            /\ \A s \in DOMAIN sockets : \A q \in Carried(sockets[s]) : asked[q] = sockets[s].conv
  BY DEF QuestionsGoWhereAsked, HistoryInv
<1>3. ASSUME calls \subseteq Call
      PROVE  QuestionsAreNew <=> AskedOnce /\ CallsInv
  BY <1>3 DEF QuestionsAreNew, AskedOnce, CallsInv, Waiting
<1>4. QED BY <1>1, <1>2, <1>3 DEF PageInv, Parts, SocketsInv, CallsInv

LEMMA UsedStep ==
  ASSUME UsedType, Next
  PROVE  UsedType' /\ used'.questions >= used.questions
<1>1. CASE used' = used
  BY <1>1 DEF UsedType
<1>2. CASE Fault
  BY <1>2 DEF UsedType, Fault
<1>3. ASSUME NEW op, NEW conv, NEW turn \in {0, used.questions + 1}, Request(op, conv, turn),
             op = "create" => turn = used.questions + 1
      PROVE  UsedType' /\ used'.questions >= used.questions
  <2> DEFINE n == IF op = "create" THEN turn ELSE used.questions
             m == used.calls + 1
  <2>1. n \in Nat /\ m \in Nat /\ n >= used.questions
    BY <1>3 DEF UsedType
  <2>2. used' = [used EXCEPT !.calls = m, !.questions = n]
    BY <1>3 DEF UsedType, Request
  <2> HIDE DEF n, m
  <2>3. QED BY <2>1, <2>2 DEF UsedType
<1>4. CASE send
  BY <1>4 DEF UsedType, send, Ask
<1>5. CASE Click
  BY <1>1, <1>3, <1>4, <1>5 DEF Click, selectConversation, deleteConversation, newChat, send_first
<1>6. ASSUME NEW k \in calls, Rest(k) \/ call_fails(k)
      PROVE  UsedType' /\ used'.questions >= used.questions
  BY <1>1, <1>2, <1>6 DEF Rest, call_fails, list_messages, create_conversation, delete_conversation,
     loaded, created, deleted, rejected
<1>7. ASSUME NEW s \in DOMAIN sockets, Run(s) \/ error(s) \/ lost(s)
      PROVE  UsedType' /\ used'.questions >= used.questions
  BY <1>1, <1>2, <1>7 DEF Run, opened, token, answer, refuse, onEvent, closed, error, lost
<1>8. QED BY <1>5, <1>6, <1>7 DEF Next

(* Who begins an answer: a question typed into the selected conversation,   *)
(* or one whose conversation has just been created.                         *)
LEMMA Beginners ==
  ASSUME Parts, NEW c, NEW q,
         \/ send /\ c = page.selected /\ q = used.questions + 1
         \/ \E k \in calls : created(k) /\ c = k.conv /\ q = k.turn
  PROVE  c \in Convs /\ q \in Questions /\ asked[q] = None /\ Begin(c, q) /\ server' = server
<1>1. CASE send /\ c = page.selected /\ q = used.questions + 1
  <2>1. page.selected \in Convs \cup {None} /\ used.questions \in Nat
    BY DEF Parts, PageType, UsedType
  <2>2. q \in Questions /\ c \in Convs /\ q > used.questions
    BY <1>1, <2>1 DEF send, Ask, Questions
  <2>3. QED BY <1>1, <2>2 DEF send, Ask, Parts, AskedOnce
<1>2. ASSUME NEW k \in calls, created(k), c = k.conv, q = k.turn
      PROVE  c \in Convs /\ q \in Questions /\ asked[q] = None /\ Begin(c, q) /\ server' = server
  BY <1>2 DEF created, Parts, AskedOnce, CallsInv, Waiting
<1>3. QED BY <1>1, <1>2

LEMMA PageStep ==
  ASSUME Parts, Next
  PROVE  PageType' /\ calm' \in BOOLEAN
<1>1. /\ page.selected \in Convs \cup {None} /\ page.messages \in Messages
      /\ page.streaming \in BOOLEAN /\ <<>> \in Messages /\ <<>> \in Text /\ PageType
  BY DEF Parts, PageType, Messages, Text
<1>2. ASSUME page' = page \/ page' = onClose
      PROVE  PageType'
  BY <1>2 DEF Parts, PageType, onClose
<1>3. ASSUME NEW selected \in Convs \cup {None}, NEW messages \in Messages,
             \/ page' = [page EXCEPT !.selected = selected]
             \/ page' = [page EXCEPT !.messages = messages]
             \/ page' = [page EXCEPT !.selected = selected, !.messages = messages]
             \/ page' = [page EXCEPT !.messages = messages, !.streaming = FALSE]
      PROVE  PageType'
  BY <1>1, <1>3 DEF PageType
<1>4. ASSUME NEW c \in Convs, NEW q \in Questions, Begin(c, q)
      PROVE  PageType'
  <2> DEFINE empty == [role |-> "assistant", text |-> <<>>, streaming |-> TRUE]
             both == <<Said("user", q), empty>>
             messages == page.messages \o both
  <2>1. Said("user", q) \in UIMessage
    BY SaidIsMessage DEF Questions
  <2>2. empty \in UIMessage
    BY <1>1, UIMessageIs
  <2> HIDE DEF empty
  <2>3. both \in Seq(UIMessage)
    BY <2>1, <2>2
  <2> HIDE DEF both
  <2>4. messages \in Messages
    BY <1>1, <2>3 DEF Messages
  <2>5. page' = [selected |-> c, streaming |-> TRUE, messages |-> messages]
    BY <1>4 DEF Begin, messages, both, empty
  <2> HIDE DEF messages
  <2>6. QED BY <2>4, <2>5 DEF PageType
<1>5. ASSUME Click
      PROVE  PageType'
  <2>1. CASE send
    BY <1>4, <2>1, Beginners
  <2>2. CASE newChat
    BY <1>1, <1>3, <2>2 DEF newChat
  <2>3. ASSUME NEW c \in Convs, selectConversation(c)
        PROVE  PageType'
    BY <1>1, <1>3, <2>3 DEF selectConversation
  <2>4. CASE send_first \/ \E c \in Convs : deleteConversation(c)
    BY <1>2, <2>4 DEF send_first, deleteConversation
  <2>5. QED BY <1>5, <2>1, <2>2, <2>3, <2>4 DEF Click
<1>6. ASSUME NEW k \in calls, Rest(k) \/ call_fails(k)
      PROVE  PageType'
  <2>1. CASE created(k)
    <3>1. k.conv \in Convs /\ k.turn \in Questions /\ Begin(k.conv, k.turn)
      BY <2>1, Beginners
    <3>2. QED BY <1>4, <3>1
  <2>2. CASE loaded(k)
    <3>1. k.data \in Seq(Questions)
      BY CallIs DEF Parts, CallsInv, Asked
    <3>2. Shown(k.data) \in Messages /\ page' = [page EXCEPT !.messages = Shown(k.data)]
      BY <2>2, <3>1, ShownIsMessages DEF loaded
    <3>3. QED BY <1>1, <1>3, <3>2
  <2>3. CASE deleted(k)
    <3> DEFINE selected == IF k.mine THEN None ELSE page.selected
               messages == IF k.mine THEN <<>> ELSE page.messages
    <3>1. selected \in Convs \cup {None} /\ messages \in Messages
      BY <1>1
    <3>2. page' = [page EXCEPT !.selected = selected, !.messages = messages]
      BY <2>3 DEF deleted
    <3> HIDE DEF selected, messages
    <3>3. QED BY <1>3, <3>1, <3>2
  <2>4. CASE page' = page
    BY <1>2, <2>4
  <2>5. QED
    BY <1>6, <2>1, <2>2, <2>3, <2>4 DEF Rest, list_messages, create_conversation,
       delete_conversation, rejected, call_fails
<1>7. ASSUME NEW s \in DOMAIN sockets, Run(s) \/ error(s) \/ lost(s)
      PROVE  PageType'
  <2>1. CASE onEvent(s)
    <3> DEFINE e == Head(sockets[s].down)
    <3>1. e \in Event
      <4>1. sockets[s].down \in Seq(Event) /\ sockets[s].down # <<>>
        BY <2>1, TypesOfSocket DEF onEvent, Parts, SocketsInv
      <4>2. QED BY <4>1
    <3>2. e.event \in Events /\ <<e.turn>> \in Text
      BY <3>1 DEF Event, Text
    <3>3. /\ updateLastAssistant(<<e.turn>>, FALSE) \in Messages
          /\ updateLastAssistant(<<>>, TRUE) \in Messages
      BY <1>1, <3>2, UpdatedMessages
    <3>4. \/ page' = [page EXCEPT !.messages = updateLastAssistant(<<e.turn>>, FALSE)]
          \/ page' = [page EXCEPT !.messages = updateLastAssistant(<<>>, TRUE), !.streaming = FALSE]
          \/ page' = onClose
      BY <2>1, <3>2 DEF onEvent, Events
    <3> HIDE DEF e
    <3>5. QED BY <1>1, <1>2, <1>3, <3>3, <3>4
  <2>2. CASE page' = page \/ page' = onClose
    BY <1>2, <2>2
  <2>3. QED BY <1>7, <2>1, <2>2 DEF Run, opened, token, answer, refuse, error, closed, lost
<1>8. calm' \in BOOLEAN
  BY DEF Next, Click, Act, selectConversation, deleteConversation, newChat, send_first, send, Ask,
     Rest, list_messages, create_conversation, delete_conversation, call_fails, loaded, created,
     deleted, rejected, Run, opened, token, answer, refuse, onEvent, closed, error, lost, Parts
<1>9. QED BY <1>5, <1>6, <1>7, <1>8 DEF Next

LEMMA SocketsStep ==
  ASSUME Parts, Next
  PROVE  SocketsInv' /\ AskedType'
<1>1. SocketsInv /\ AskedType
  BY DEF Parts
<1>2. CASE UNCHANGED <<sockets, asked>>
  BY <1>1, <1>2 DEF SocketsInv, OneLiveSocket, Carried, AskedType
<1>3. ASSUME NEW c \in Convs, NEW q \in Questions, asked[q] = None, Begin(c, q)
      PROVE  SocketsInv' /\ AskedType'
  BY <1>1, <1>3, BeginStep
<1>4. CASE Click
  <2>1. CASE send
    BY <1>3, <2>1, Beginners
  <2>2. CASE newChat \/ send_first \/ \E c \in Convs : selectConversation(c) \/ deleteConversation(c)
    BY <1>2, <2>2 DEF newChat, send_first, selectConversation, deleteConversation
  <2>3. QED BY <1>4, <2>1, <2>2 DEF Click
<1>5. ASSUME NEW k \in calls, Rest(k) \/ call_fails(k)
      PROVE  SocketsInv' /\ AskedType'
  <2>1. CASE created(k)
    <3>1. k.conv \in Convs /\ k.turn \in Questions /\ asked[k.turn] = None /\ Begin(k.conv, k.turn)
      BY <2>1, Beginners
    <3>2. QED BY <1>3, <3>1
  <2>2. CASE ~created(k)
    BY <1>2, <1>5, <2>2 DEF Rest, list_messages, create_conversation, delete_conversation, loaded,
       deleted, rejected, call_fails
  <2>3. QED BY <2>1, <2>2
<1>6. ASSUME NEW s \in DOMAIN sockets, Run(s) \/ error(s) \/ lost(s)
      PROVE  SocketsInv' /\ AskedType'
  <2>1. asked' = asked
    BY <1>6 DEF Run, opened, token, answer, refuse, onEvent, closed, error, lost
  <2>2. AskedType'
    BY <1>1, <2>1 DEF AskedType
  <2>3. QED BY <1>1, <1>6, <2>2, SocketSteps
<1>7. QED BY <1>4, <1>5, <1>6 DEF Next

(* A history grows by a question asked there, or is emptied.                *)
LEMMA HistoryStep ==
  ASSUME Parts, Next
  PROVE  ServerType' /\ HistoryInv'
<1>1. /\ server.history \in [Convs -> Asked] /\ server.convs \in SUBSET Convs
      /\ server.ever \in SUBSET Convs /\ ServerType
  BY DEF Parts, ServerType
<1>2. <<>> \in Asked /\ ToSet(<<>>) = {}
  BY DEF Asked, ToSet
<1>3. \A c \in Convs : \A q \in ToSet(server.history[c]) : q \in Questions /\ asked[q] = c
  BY <1>1 DEF Parts, HistoryInv, Asked, ToSet
<1>4. ASSUME UNCHANGED <<asked, server>>
      PROVE  ServerType' /\ HistoryInv'
  BY <1>1, <1>3, <1>4 DEF ServerType, HistoryInv
<1>5. ASSUME NEW c \in Convs, NEW q \in Questions, asked[q] = None, Begin(c, q), server' = server
      PROVE  ServerType' /\ HistoryInv'
  <2>1. asked' = [asked EXCEPT ![q] = c] /\ asked \in [Questions -> Convs \cup {None}]
    BY <1>5 DEF Begin, Parts, AskedType
  <2>2. \A d \in Convs : \A p \in ToSet(server.history[d]) : p # q
    BY <1>3, <1>5
  <2>3. \A d \in Convs : \A p \in ToSet(server.history[d]) : asked'[p] = d
    BY <1>3, <2>1, <2>2
  <2>4. QED BY <1>1, <1>5, <2>3 DEF ServerType, HistoryInv
<1>6. CASE Click
  <2>1. CASE send
    BY <1>5, <2>1, Beginners
  <2>2. CASE newChat \/ send_first \/ \E c \in Convs : selectConversation(c) \/ deleteConversation(c)
    BY <1>4, <2>2 DEF newChat, send_first, selectConversation, deleteConversation
  <2>3. QED BY <1>6, <2>1, <2>2 DEF Click
<1>7. ASSUME NEW k \in calls, Rest(k) \/ call_fails(k)
      PROVE  ServerType' /\ HistoryInv'
  <2>1. CASE created(k)
    <3>1. /\ k.conv \in Convs /\ k.turn \in Questions /\ asked[k.turn] = None
          /\ Begin(k.conv, k.turn) /\ server' = server
      BY <2>1, Beginners
    <3>2. QED BY <1>5, <3>1
  <2>2. CASE create_conversation(k)
    <3>1. PICK c \in Convs : server' = [server EXCEPT !.convs = @ \cup {c}, !.ever = @ \cup {c}]
      BY <2>2 DEF create_conversation
    <3> DEFINE convs == server.convs \cup {c}
               ever == server.ever \cup {c}
    <3>2. convs \in SUBSET Convs /\ ever \in SUBSET Convs
      BY <1>1
    <3>3. server' = [server EXCEPT !.convs = convs, !.ever = ever]
      BY <3>1
    <3> HIDE DEF convs, ever
    <3>4. ServerType' /\ server'.history = server.history
      BY <1>1, <3>2, <3>3 DEF ServerType
    <3>5. asked' = asked
      BY <2>2 DEF create_conversation
    <3>6. QED BY <1>3, <3>4, <3>5 DEF HistoryInv
  <2>3. CASE delete_conversation(k)
    <3> DEFINE history == [server.history EXCEPT ![k.conv] = <<>>]
               convs == server.convs \ {k.conv}
    <3>1. server' = [server EXCEPT !.convs = convs, !.history = history]
      BY <2>3 DEF delete_conversation
    <3>2. /\ history \in [Convs -> Asked] /\ convs \in SUBSET Convs
          /\ \A c \in Convs : history[c] \in {<<>>, server.history[c]}
      BY <1>1, <1>2
    <3> HIDE DEF history, convs
    <3>3. ServerType' /\ server'.history = history
      BY <1>1, <3>1, <3>2 DEF ServerType
    <3>4. asked' = asked
      BY <2>3 DEF delete_conversation
    <3>5. \A c \in Convs : ToSet(history[c]) \subseteq ToSet(server.history[c])
      BY <1>2, <3>2
    <3>6. QED BY <1>3, <3>3, <3>4, <3>5 DEF HistoryInv
  <2>4. CASE UNCHANGED <<asked, server>>
    BY <1>4, <2>4
  <2>5. QED BY <1>7, <2>1, <2>2, <2>3, <2>4 DEF Rest, list_messages, loaded, deleted, rejected, call_fails
<1>8. ASSUME NEW s \in DOMAIN sockets, Run(s) \/ error(s) \/ lost(s)
      PROVE  ServerType' /\ HistoryInv'
  <2>1. CASE answer(s)
    <3> DEFINE c == sockets[s].conv
               q == Head(sockets[s].up)
               h == server.history[c]
               longer == Append(h, q)
               history == [server.history EXCEPT ![c] = longer]
    <3>1. sockets[s] \in Socket /\ sockets[s].up \in Seq(Questions) /\ sockets[s].up # <<>> /\ c \in Convs
      BY <2>1, TypesOfSocket DEF Parts, SocketsInv, answer, Answering
    <3>2. q \in Questions /\ q \in ToSet(sockets[s].up)
      BY <3>1 DEF ToSet
    <3>3. asked[q] = c
      BY <3>2 DEF Parts, SocketsInv, Carried
    <3>4. server' = [server EXCEPT !.history = history] /\ asked' = asked
      BY <2>1 DEF answer
    <3>5. h \in Seq(Questions)
      BY <1>1, <3>1 DEF Asked
    <3> HIDE DEF c, q, h
    <3>6. longer \in Asked /\ ToSet(longer) = ToSet(h) \cup {q}
      BY <3>2, <3>5, QueuesOfQuestions DEF Asked
    <3> HIDE DEF longer
    <3>7. /\ history \in [Convs -> Asked]
          /\ \A d \in Convs : history[d] = IF d = c THEN longer ELSE server.history[d]
      BY <1>1, <3>6
    <3> HIDE DEF history
    <3>8. ServerType' /\ server'.history = history
      BY <1>1, <3>4, <3>7 DEF ServerType
    <3>9. \A d \in Convs : \A p \in ToSet(history[d]) : asked[p] = d
      BY <1>3, <3>3, <3>6, <3>7 DEF h
    <3>10. QED BY <3>4, <3>8, <3>9 DEF HistoryInv
  <2>2. CASE ~answer(s)
    BY <1>4, <1>8, <2>2 DEF Run, opened, token, refuse, onEvent, closed, error, lost
  <2>3. QED BY <2>1, <2>2
<1>9. QED BY <1>6, <1>7, <1>8 DEF Next

-----------------------------------------------------------------------------
(* Calls: a question that waits for its conversation is no one else's.      *)
LEMMA Requests ==
  ASSUME Parts, NEW op \in Ops, NEW conv \in Convs \cup {None}, NEW turn, Request(op, conv, turn),
         op # "create" => conv \in Convs /\ turn = 0,
         op = "create" => turn = used.questions + 1 /\ turn \in Questions,
         asked' = asked
  PROVE  CallsInv' /\ AskedOnce'
<1> DEFINE n == IF op = "create" THEN turn ELSE used.questions
           m == used.calls + 1
           mine == page.selected = conv
           r == [id |-> used.calls, op |-> op, conv |-> conv, turn |-> turn, mine |-> mine,
                 pc |-> "sent", data |-> <<>>]
<1>1. used.questions \in Nat /\ used.calls \in Nat /\ UsedType
  BY DEF Parts, UsedType
<1>2. used' = [used EXCEPT !.calls = m, !.questions = n] /\ calls' = calls \cup {r}
  BY DEF Request
<1>3. used'.questions = n
  BY <1>1, <1>2 DEF UsedType
<1>4. /\ <<>> \in Asked /\ "sent" \in Phases /\ turn \in Nat /\ mine \in BOOLEAN
  BY <1>1 DEF Asked, Phases
<1> HIDE DEF mine
<1>5. r \in Call /\ r.op = op /\ r.turn = turn /\ r.conv = conv /\ r.pc = "sent"
  BY <1>1, <1>4, CallIs
<1> HIDE DEF r, m
<1>6. CallsInv'
  BY <1>2, <1>5 DEF Parts, CallsInv
<1>7. \A q \in Questions : q > used'.questions => asked'[q] = None
  BY <1>1, <1>3 DEF Parts, AskedOnce, Questions
<1>8. \A k \in calls : Waiting(k) =>
        /\ k.turn \in Questions /\ k.turn <= used.questions /\ asked[k.turn] = None
        /\ \A j \in calls : Waiting(j) /\ j.turn = k.turn => j = k
  BY DEF Parts, AskedOnce
<1>9. Waiting(r) => /\ turn \in Questions /\ turn = used.questions + 1 /\ asked[turn] = None
  BY <1>1, <1>5 DEF Waiting, Parts, AskedOnce, Questions
<1>10. \A k \in calls : k.turn \in Nat
  BY CallIs DEF Parts, CallsInv
<1>11. used'.questions \in Nat /\ used'.questions >= used.questions
       /\ (Waiting(r) => used'.questions = turn)
  BY <1>1, <1>3, <1>4, <1>5 DEF Waiting
<1>12. ASSUME NEW k \in calls', Waiting(k)
       PROVE  /\ k.turn \in Questions /\ k.turn <= used'.questions /\ asked'[k.turn] = None
              /\ \A j \in calls' : Waiting(j) /\ j.turn = k.turn => j = k
  <2>1. CASE k \in calls
    <3>1. k.turn \in Questions /\ k.turn <= used.questions /\ asked[k.turn] = None /\ k.turn \in Nat
      BY <1>8, <1>10, <1>12, <2>1
    <3>2. ASSUME NEW j \in calls', Waiting(j), j.turn = k.turn
          PROVE  j = k
      <4>1. CASE j \in calls
        BY <1>8, <1>12, <2>1, <3>2, <4>1
      <4>2. CASE j = r
        BY <1>1, <1>5, <1>9, <3>1, <3>2, <4>2
      <4>3. QED BY <1>2, <4>1, <4>2
    <3>3. QED BY <1>1, <1>11, <3>1, <3>2
  <2>2. CASE k = r
    <3>1. ASSUME NEW j \in calls', Waiting(j), j.turn = k.turn
          PROVE  j = k
      <4>1. CASE j \in calls
        BY <1>1, <1>5, <1>8, <1>9, <1>10, <1>12, <2>2, <3>1, <4>1
      <4>2. CASE j = r
        BY <2>2, <4>2
      <4>3. QED BY <1>2, <4>1, <4>2
    <3>2. QED BY <1>1, <1>5, <1>9, <1>11, <1>12, <2>2, <3>1
  <2>3. QED BY <1>2, <2>1, <2>2
<1>13. AskedOnce'
  BY <1>7, <1>12 DEF AskedOnce, Waiting
<1>14. QED BY <1>6, <1>13

LEMMA Answers ==
  ASSUME Parts, NEW k \in calls, UsedType', used'.questions = used.questions, asked' = asked,
         NEW pc \in Phases, NEW conv \in Convs \cup {None}, Moves(k, pc, conv),
         k.op # "create" => conv = k.conv,
         pc = "ok" => conv \in Convs
  PROVE  CallsInv' /\ AskedOnce'
<1>1. PICK r \in Call : /\ calls' = (calls \ {k}) \cup {r}
                        /\ r.op = k.op /\ r.turn = k.turn /\ r.pc = pc /\ r.conv = conv
  BY DEF Moves
<1>2. CallsInv'
  BY <1>1 DEF Parts, CallsInv
<1>3. /\ \A q \in Questions : q > used.questions => asked[q] = None
      /\ \A i \in calls : Waiting(i) =>
           /\ i.turn \in Questions /\ i.turn <= used.questions /\ asked[i.turn] = None
           /\ \A j \in calls : Waiting(j) /\ j.turn = i.turn => j = i
  BY DEF Parts, AskedOnce
<1>4. Waiting(r) <=> Waiting(k)
  BY <1>1 DEF Waiting
<1>5. ASSUME NEW i \in calls', Waiting(i)
      PROVE  /\ i.turn \in Questions /\ i.turn <= used.questions /\ asked[i.turn] = None
             /\ \A j \in calls' : Waiting(j) /\ j.turn = i.turn => j = i
  <2>1. CASE i = r
    BY <1>1, <1>3, <1>4, <1>5, <2>1
  <2>2. CASE i # r
    <3>1. i \in calls /\ i # k
      BY <1>1, <2>2
    <3>2. ASSUME NEW j \in calls', Waiting(j), j.turn = i.turn
          PROVE  j = i
      BY <1>1, <1>3, <1>4, <1>5, <3>1, <3>2
    <3>3. QED BY <1>3, <1>5, <3>1, <3>2
  <2>3. QED BY <2>1, <2>2
<1>6. AskedOnce'
  BY <1>3, <1>5 DEF AskedOnce, Waiting
<1>7. QED BY <1>2, <1>6

LEMMA Begins ==
  ASSUME Parts, UsedType', NEW c \in Convs, NEW q \in Questions, Begin(c, q), calls' \subseteq calls,
         used'.questions >= used.questions, q <= used'.questions,
         \A k \in calls' : Waiting(k) => k.turn # q
  PROVE  CallsInv' /\ AskedOnce'
<1>1. asked' = [asked EXCEPT ![q] = c] /\ asked \in [Questions -> Convs \cup {None}]
  BY DEF Begin, Parts, AskedType
<1>2. used.questions \in Nat /\ used'.questions \in Nat
  BY DEF Parts, UsedType
<1>3. \A p \in Questions : p # q => asked'[p] = asked[p]
  BY <1>1
<1>4. \A p \in Questions : p > used'.questions => asked'[p] = None
  BY <1>2, <1>3 DEF Parts, AskedOnce, Questions
<1>5. \A k \in calls' : Waiting(k) =>
        /\ k.turn \in Questions /\ k.turn <= used'.questions /\ asked'[k.turn] = None
        /\ \A j \in calls' : Waiting(j) /\ j.turn = k.turn => j = k
  BY <1>2, <1>3 DEF Parts, AskedOnce, Questions
<1>6. AskedOnce'
  BY <1>4, <1>5 DEF AskedOnce, Waiting
<1>7. CallsInv'
  BY DEF Parts, CallsInv
<1>8. QED BY <1>6, <1>7

LEMMA CallsStep ==
  ASSUME Parts, Next
  PROVE  CallsInv' /\ AskedOnce'
<1>1. UsedType' /\ used'.questions >= used.questions /\ used.questions \in Nat
  BY UsedStep DEF Parts, UsedType
<1>2. ASSUME calls' \subseteq calls, asked' = asked, used'.questions = used.questions
      PROVE  CallsInv' /\ AskedOnce'
  BY <1>2 DEF Parts, CallsInv, AskedOnce, Waiting
<1>3. ASSUME Fault \/ used' = used
      PROVE  used'.questions = used.questions
  BY <1>3 DEF Fault, Parts, UsedType
<1>4. \A k \in calls : Waiting(k) => k.turn \in Questions /\ k.turn <= used.questions
  BY DEF Parts, AskedOnce
<1>5. Convs \subseteq Convs \cup {None} /\ None \in Convs \cup {None} /\ "create" \in Ops
      /\ "list" \in Ops /\ "delete" \in Ops
  BY DEF Ops
<1>6. CASE Click
  <2>1. CASE send
    <3> DEFINE c == page.selected
               q == used.questions + 1
    <3>1. c \in Convs /\ q \in Questions /\ Begin(c, q)
      BY <2>1, Beginners
    <3>2. calls' = calls /\ used'.questions = q
      BY <2>1 DEF send, Ask, Parts, UsedType
    <3>3. \A k \in calls' : Waiting(k) => k.turn # q
      BY <1>1, <1>4, <3>2 DEF Questions
    <3>4. q <= used'.questions
      BY <1>1, <3>2
    <3> HIDE DEF c, q
    <3>5. QED BY <1>1, <3>1, <3>2, <3>3, <3>4, Begins
  <2>2. CASE newChat
    BY <1>2, <2>2 DEF newChat
  <2>3. CASE send_first
    <3> DEFINE turn == used.questions + 1
    <3>1. Request("create", None, turn) /\ asked' = asked /\ turn \in Questions
      BY <1>1, <2>3 DEF send_first, Questions
    <3>2. QED BY <1>5, <3>1, Requests
  <2>4. ASSUME NEW c \in Convs, selectConversation(c) \/ deleteConversation(c)
        PROVE  CallsInv' /\ AskedOnce'
    <3>1. PICK op \in {"list", "delete"} : Request(op, c, 0) /\ asked' = asked
      BY <2>4 DEF selectConversation, deleteConversation
    <3>2. op \in Ops /\ op # "create"
      BY <1>5, <3>1
    <3>3. QED BY <1>5, <3>1, <3>2, Requests
  <2>5. QED BY <1>6, <2>1, <2>2, <2>3, <2>4 DEF Click
<1>7. ASSUME NEW k \in calls, Rest(k) \/ call_fails(k)
      PROVE  CallsInv' /\ AskedOnce'
  <2>1. CASE created(k)
    <3> DEFINE c == k.conv
               q == k.turn
    <3>1. c \in Convs /\ q \in Questions /\ Begin(c, q) /\ Waiting(k)
      BY <2>1, Beginners DEF created, Waiting
    <3>2. calls' = calls \ {k} /\ used' = used
      BY <2>1 DEF created
    <3>3. \A j \in calls' : Waiting(j) => j.turn # q
      BY <3>1, <3>2 DEF Parts, AskedOnce
    <3>4. q <= used'.questions
      BY <1>4, <3>1, <3>2
    <3> HIDE DEF c, q
    <3>5. QED BY <1>1, <3>1, <3>2, <3>3, <3>4, Begins
  <2>2. CASE list_messages(k) \/ create_conversation(k) \/ delete_conversation(k) \/ call_fails(k)
    <3>1. TypeOK /\ CallsInv
      BY PartsOfPageInv DEF PageInv, Parts
    <3>2. PICK pc \in Phases, conv \in Convs \cup {None} :
            Moves(k, pc, conv) /\ (k.op # "create" => conv = k.conv) /\ (pc = "ok" => conv \in Convs)
      BY <2>2, <3>1, CallsMove
    <3>3. asked' = asked /\ used'.questions = used.questions
      BY <1>3, <2>2 DEF list_messages, create_conversation, delete_conversation, call_fails
    <3>4. QED BY <1>1, <3>2, <3>3, Answers
  <2>3. CASE loaded(k) \/ deleted(k) \/ rejected(k)
    BY <1>2, <1>3, <2>3 DEF loaded, deleted, rejected
  <2>4. QED BY <1>7, <2>1, <2>2, <2>3 DEF Rest
<1>8. ASSUME NEW s \in DOMAIN sockets, Run(s) \/ error(s) \/ lost(s)
      PROVE  CallsInv' /\ AskedOnce'
  BY <1>2, <1>3, <1>8 DEF Run, opened, token, answer, refuse, onEvent, closed, error, lost
<1>9. QED BY <1>6, <1>7, <1>8 DEF Next

-----------------------------------------------------------------------------
LEMMA PageInit == Init => PageInv
<1> SUFFICES ASSUME Init PROVE Parts
  BY PartsOfPageInv
<1>1. <<>> \in Messages /\ <<>> \in Asked /\ ToSet(<<>>) = {} /\ <<>> \in Seq(Socket)
  BY DEF Messages, Asked, ToSet
<1>2. PageType /\ ServerType /\ UsedType /\ AskedType /\ calm \in BOOLEAN
  BY <1>1 DEF Init, PageType, ServerType, UsedType, AskedType
<1>3. SocketsInv
  BY <1>1 DEF Init, SocketsInv, OneLiveSocket
<1>4. CallsInv /\ AskedOnce /\ HistoryInv
  BY <1>1 DEF Init, CallsInv, AskedOnce, HistoryInv
<1>5. QED BY <1>2, <1>3, <1>4 DEF Parts

LEMMA PageNext == PageInv /\ [Next]_vars => PageInv'
<1> SUFFICES ASSUME PageInv, [Next]_vars PROVE PageInv'
  OBVIOUS
<1>1. Parts
  BY PartsOfPageInv
<1>2. CASE Next
  <2>1. UsedType'
    BY <1>1, <1>2, UsedStep DEF Parts
  <2>2. PageType' /\ calm' \in BOOLEAN
    BY <1>1, <1>2, PageStep
  <2>3. SocketsInv' /\ AskedType'
    BY <1>1, <1>2, SocketsStep
  <2>4. ServerType' /\ HistoryInv'
    BY <1>1, <1>2, HistoryStep
  <2>5. CallsInv' /\ AskedOnce'
    BY <1>1, <1>2, CallsStep
  <2>6. Parts'
    BY <2>1, <2>2, <2>3, <2>4, <2>5 DEF Parts
  <2>7. QED BY <2>6, PartsOfPageInv, PTL
<1>3. CASE UNCHANGED vars
  BY <1>3 DEF vars, PageInv, TypeOK, OneLiveSocket, QuestionsGoWhereAsked, Carried, QuestionsAreNew
<1>4. QED BY <1>2, <1>3

(* The page's invariant: types, one live socket, each question carried by a *)
(* socket or kept in a history of the conversation in which it was asked,    *)
(* and no question asked twice.                                             *)
THEOREM PageInvariance == Spec => []PageInv
BY PageInit, PageNext, PTL DEF Spec

(* Whatever the selection does while a conversation is created or a socket  *)
(* opens, a question reaches the conversation in which it was asked.        *)
THEOREM QuestionsReachTheirConversation == Spec => []QuestionsGoWhereAsked
<1>1. PageInv => QuestionsGoWhereAsked
  BY DEF PageInv
<1>2. QED BY <1>1, PageInvariance, PTL

(* However often the page changes conversations, one socket at most can     *)
(* speak to it, the last one opened.                                        *)
THEOREM OneSocketIsLive == Spec => []OneLiveSocket
<1>1. PageInv => OneLiveSocket
  BY DEF PageInv
<1>2. QED BY <1>1, PageInvariance, PTL

-----------------------------------------------------------------------------
(* The user who waits.                                                      *)
LEMMA Short ==
  ASSUME NEW a, NEW b
  PROVE  /\ <<a>> # <<>> /\ Head(<<a>>) = a /\ Tail(<<a>>) = <<>>
         /\ <<a, b>> # <<>> /\ Head(<<a, b>>) = a /\ Tail(<<a, b>>) = <<b>>
         /\ Append(<<>>, a) = <<a>> /\ Append(<<a>>, b) = <<a, b>>
         /\ <<>> \o <<a>> = <<a>>
<1>1. <<a>> # <<>> /\ Head(<<a>>) = a
  OBVIOUS
<1>2. Tail(<<a>>) = <<>>
  OBVIOUS
<1>3. <<a, b>> # <<>> /\ Head(<<a, b>>) = a
  OBVIOUS
<1>4. Tail(<<a, b>>) = <<b>>
  OBVIOUS
<1>5. Append(<<>>, a) = <<a>>
  OBVIOUS
<1>6. Append(<<a>>, b) = <<a, b>>
  <2> DEFINE t == Append(<<a>>, b)
  <2>1. <<a>> \in Seq({a, b}) /\ Len(<<a>>) = 1 /\ <<a>>[1] = a
    OBVIOUS
  <2>2. t \in Seq({a, b}) /\ Len(t) = 2 /\ t[1] = a /\ t[2] = b
    BY <2>1
  <2>3. <<a, b>> \in Seq({a, b}) /\ Len(<<a, b>>) = 2 /\ <<a, b>>[1] = a /\ <<a, b>>[2] = b
    OBVIOUS
  <2>4. \A i \in 1 .. 2 : t[i] = <<a, b>>[i]
    BY <2>2, <2>3
  <2> HIDE DEF t
  <2>5. t = <<a, b>>
    BY <2>2, <2>3, <2>4, SeqEqual
  <2>6. QED BY <2>5 DEF t
<1>7. <<>> \o <<a>> = <<a>>
  <2>1. <<a>> \in Seq({a})
    OBVIOUS
  <2>2. QED BY <2>1
<1>8. QED BY <1>1, <1>2, <1>3, <1>4, <1>5, <1>6, <1>7

LEMMA NewsIsEvent ==
  ASSUME NEW event \in Events, NEW q \in Nat
  PROVE  /\ News(event, q) \in Event /\ News(event, q).event = event /\ News(event, q).turn = q
BY DEF News, Event

LEMMA Heard ==
  ASSUME NEW sock \in Socket, sock.state = "open", NEW event \in Events, NEW q \in Nat
  PROVE  /\ Deliver(sock, event, q).down = Append(sock.down, News(event, q))
         /\ Deliver(sock, event, q).told = sock.told
<1> DEFINE d == Append(sock.down, News(event, q))
<1>1. sock.down \in Seq(Event) /\ News(event, q) \in Event
  BY TypesOfSocket, NewsIsEvent
<1>2. d \in Happened
  BY <1>1 DEF Happened
<1>3. Deliver(sock, event, q) = [sock EXCEPT !.down = d]
  BY DEF Deliver, News
<1> HIDE DEF d
<1>4. Deliver(sock, event, q).down = d /\ Deliver(sock, event, q).told = sock.told
  BY <1>2, <1>3, SocketIs
<1>5. QED BY <1>4 DEF d

(* Nothing the server still says revives a refused conversation.            *)
LEMMA DoomedStays ==
  ASSUME NEW sock \in Socket, Doomed(sock), NEW r, r.state = "open", NEW e \in Event,
         r.down = Append(sock.down, e)
  PROVE  Doomed(r)
<1>1. sock.down \in Seq(Event) /\ sock.down # <<>>
  BY TypesOfSocket DEF Doomed
<1> DEFINE d == sock.down
<1>2. d \in Seq(Event) /\ d # <<>> /\ Head(d).event = "close"
  BY <1>1 DEF Doomed
<1> HIDE DEF d
<1>3. Append(d, e) # <<>> /\ Head(Append(d, e)) = Head(d)
  BY <1>2
<1>4. QED BY <1>2, <1>3 DEF Doomed, d

(* An answer goes on: its token, then its end.                              *)
Onward(sock, r) ==
  /\ Doomed(sock) => Doomed(r)
  /\ \A text : \A q \in Questions : Coming(sock, q, text) => Coming(r, q, text)
  /\ ~Resting(sock)

LEMMA TokenGoesOn ==
  ASSUME NEW sock \in Socket, sock.state = "open", sock.up # <<>>, ~sock.told,
         NEW r, r = [Deliver(sock, "token", Head(sock.up)) EXCEPT !.told = TRUE]
  PROVE  r \in Socket /\ r.state = "open" /\ Onward(sock, r)
<1> DEFINE p == Head(sock.up)
           d == Deliver(sock, "token", p)
<1>1. p \in Nat /\ "token" \in Events /\ News("token", p) \in Event
  <2>1. sock.up \in Seq(Questions)
    BY TypesOfSocket
  <2>2. p \in Questions
    BY <2>1
  <2>3. p \in Nat /\ "token" \in Events
    BY <2>2 DEF Questions, Events
  <2>4. QED BY <2>3, NewsIsEvent
<1>2. /\ d \in Socket /\ d.state = "open" /\ d.waiting = sock.waiting /\ d.up = sock.up
      /\ d.down = Append(sock.down, News("token", p))
  <2> HIDE DEF p
  <2>1. QED BY <1>1, Delivering, Heard
<1>3. r = [d EXCEPT !.told = TRUE]
  OBVIOUS
<1> HIDE DEF d
<1>4. /\ r \in Socket /\ r.state = "open" /\ r.waiting = sock.waiting /\ r.up = sock.up
      /\ r.down = Append(sock.down, News("token", p)) /\ r.told
  BY <1>2, <1>3, SocketIs
<1>5. Doomed(sock) => Doomed(r)
  BY <1>1, <1>4, DoomedStays
<1>6. ASSUME NEW q \in Questions, NEW text, Coming(sock, q, text) PROVE Coming(r, q, text)
  <2>1. /\ sock.waiting = <<>> /\ sock.up = <<q>> /\ sock.down = <<>> /\ text = <<>>
    BY <1>6 DEF Coming
  <2>2. p = q /\ r.down = <<News("token", q)>>
    BY <1>4, <2>1, Short
  <2>3. QED BY <1>4, <2>1, <2>2 DEF Coming
<1>7. ~Resting(sock)
  BY DEF Resting
<1>8. QED BY <1>4, <1>5, <1>6, <1>7 DEF Onward

LEMMA EndGoesOn ==
  ASSUME NEW sock \in Socket, sock.state = "open", sock.up # <<>>,
         NEW event \in {"done", "error"}, event = "done" => sock.told,
         NEW r, r = Over(sock, event)
  PROVE  r \in Socket /\ r.state = "open" /\ Onward(sock, r)
<1> DEFINE p == Head(sock.up)
           u == Tail(sock.up)
           d == Deliver(sock, event, p)
<1>1. p \in Nat /\ event \in Events /\ News(event, p) \in Event /\ p \in Questions /\ u \in Asked
  <2>1. sock.up \in Seq(Questions)
    BY TypesOfSocket
  <2>2. p \in Questions /\ u \in Asked
    BY <2>1 DEF Asked
  <2>3. p \in Nat /\ event \in Events
    BY <2>2 DEF Questions, Events
  <2>4. QED BY <2>2, <2>3, NewsIsEvent
<1>2. /\ d \in Socket /\ d.state = "open" /\ d.waiting = sock.waiting
      /\ d.up = sock.up /\ d.down = Append(sock.down, News(event, p))
  <2> HIDE DEF p
  <2>1. QED BY ZenonT(60), <1>1, Delivering, Heard
<1>3. r = [d EXCEPT !.up = u, !.told = FALSE]
  BY <1>2 DEF Over
<1> HIDE DEF d, u
<1>4. /\ r \in Socket /\ r.state = "open" /\ r.waiting = sock.waiting /\ r.up = u
      /\ r.down = Append(sock.down, News(event, p)) /\ ~r.told
  BY <1>1, <1>2, <1>3, SocketIs
<1>5. Doomed(sock) => Doomed(r)
  BY <1>1, <1>4, DoomedStays
<1>6. ASSUME NEW q \in Questions, NEW text, Coming(sock, q, text) PROVE Coming(r, q, text)
  <2>1. /\ sock.waiting = <<>> /\ sock.up = <<q>>
        /\ \/ sock.down = <<>> /\ text \in {<<>>, <<q>>}
           \/ sock.down = <<News("token", q)>> /\ text = <<>>
    BY <1>6 DEF Coming
  <2>2. p = q /\ u = <<>>
    BY <2>1, Short DEF u
  <2>a. Append(<<>>, News(event, p)) = <<News(event, p)>>
    BY Short
  <2>b. Append(<<News("token", q)>>, News(event, p)) = <<News("token", q), News(event, p)>>
    BY Short
  <2>3. \/ r.down = <<News(event, p)>> /\ text \in {<<>>, <<q>>}
        \/ r.down = <<News("token", q), News(event, p)>> /\ text = <<>>
    BY <1>4, <2>1, <2>a, <2>b
  <2>4. QED BY <1>1, <1>4, <2>1, <2>2, <2>3 DEF Coming
<1>7. ~Resting(sock)
  BY DEF Resting
<1>8. QED BY <1>4, <1>5, <1>6, <1>7 DEF Onward

LEMMA OpeningGoesOn ==
  ASSUME NEW sock \in Socket, sock.state = "connecting",
         NEW open \in Socket, open.state = "open", open.waiting = <<>>, open.up = sock.up,
         open.told = sock.told, open.down = sock.down, NEW r,
         \/ r = [open EXCEPT !.up = open.up \o sock.waiting]
         \/ r = Deliver(Deliver(open, "error", 0), "close", 0)
  PROVE  r \in Socket /\ r.state = "open" /\ Onward(sock, r)
<1>1. /\ 0 \in Nat /\ "error" \in Events /\ "close" \in Events /\ <<>> \in Asked
      /\ sock.up \in Seq(Questions) /\ sock.waiting \in Seq(Questions)
  BY TypesOfSocket DEF Events, Asked
<1>2. /\ open \in Socket /\ open.state = "open" /\ open.waiting = <<>> /\ open.up = sock.up
      /\ open.told = sock.told /\ open.down = sock.down
  OBVIOUS
<1>3. ~Doomed(sock) /\ ~Resting(sock)
  BY DEF Doomed, Resting
<1>4. CASE r = [open EXCEPT !.up = open.up \o sock.waiting]
  <2> DEFINE both == sock.up \o sock.waiting
  <2>1. both \in Asked
    BY <1>1 DEF Asked
  <2>2. r = [open EXCEPT !.up = both]
    BY <1>2, <1>4
  <2> HIDE DEF both
  <2>3. /\ r \in Socket /\ r.state = "open" /\ r.waiting = <<>> /\ r.up = both
        /\ r.told = sock.told /\ r.down = sock.down
    BY <1>2, <2>1, <2>2, SocketIs
  <2>4. ASSUME NEW q \in Questions, NEW text, Coming(sock, q, text) PROVE Coming(r, q, text)
    <3>1. sock.waiting = <<q>> /\ sock.up = <<>> /\ ~sock.told /\ sock.down = <<>> /\ text = <<>>
      BY <2>4 DEF Coming
    <3>2. both = <<q>>
      BY <3>1, Short DEF both
    <3>3. QED BY <2>3, <3>1, <3>2 DEF Coming
  <2>5. QED BY <1>3, <2>3, <2>4 DEF Onward
<1>5. CASE r = Deliver(Deliver(open, "error", 0), "close", 0)
  <2> DEFINE first == Deliver(open, "error", 0)
  <2>a. first \in Socket /\ first.state = open.state /\ first.waiting = open.waiting
        /\ first.up = open.up
    <3>1. first = Deliver(open, "error", 0) /\ open \in Socket /\ "error" \in Events /\ 0 \in Nat
      BY <1>1, <1>2
    <3> HIDE DEF first
    <3>2. QED BY <3>1, Delivering
  <2>b. first.told = open.told /\ first.down = Append(open.down, News("error", 0))
    BY <1>1, <1>2, Heard
  <2>1. /\ first \in Socket /\ first.state = "open" /\ first.waiting = <<>> /\ first.up = sock.up
        /\ first.told = sock.told /\ first.down = Append(sock.down, News("error", 0))
    BY <1>2, <2>a, <2>b
  <2>2. r = Deliver(first, "close", 0)
    BY <1>5
  <2> HIDE DEF first
  <2>3. /\ r \in Socket /\ r.state = "open" /\ r.waiting = <<>> /\ r.up = sock.up
        /\ r.told = sock.told
        /\ r.down = Append(Append(sock.down, News("error", 0)), News("close", 0))
    <3>1. r \in Socket /\ r.state = first.state /\ r.waiting = first.waiting /\ r.up = first.up
      BY <1>1, <2>1, <2>2, Delivering
    <3>2. r.told = first.told /\ r.down = Append(first.down, News("close", 0))
      BY <1>1, <2>1, <2>2, Heard
    <3>3. QED BY <2>1, <3>1, <3>2
  <2>4. ASSUME NEW q \in Questions, NEW text, Coming(sock, q, text) PROVE Coming(r, q, text)
    <3>1. sock.up = <<>> /\ ~sock.told /\ sock.down = <<>> /\ text = <<>>
      BY <2>4 DEF Coming
    <3>a. Append(<<>>, News("error", 0)) = <<News("error", 0)>>
      BY Short
    <3>b. Append(<<News("error", 0)>>, News("close", 0)) = <<News("error", 0), News("close", 0)>>
      BY Short
    <3>2. r.down = <<News("error", 0), News("close", 0)>>
      BY <2>3, <3>1, <3>a, <3>b
    <3>3. QED BY <2>3, <3>1, <3>2 DEF Coming
  <2>5. QED BY <1>3, <2>3, <2>4 DEF Onward
<1>6. QED BY <1>4, <1>5

LEMMA Hears ==
  ASSUME NEW sock \in Socket, sock.state = "open", sock.down # <<>>,
         NEW r, r = [sock EXCEPT !.down = Tail(sock.down),
                       !.state = IF Head(sock.down).event = "close" THEN "closed" ELSE sock.state]
  PROVE  /\ r \in Socket /\ r.state \in {"open", "closed"}
         /\ Doomed(sock) => r.state = "closed" /\ Head(sock.down).event = "close"
         /\ \A text : \A q \in Questions : Coming(sock, q, text) =>
              \/ Head(sock.down) = News("token", q) /\ text = <<>> /\ Coming(r, q, <<q>>)
              \/ Head(sock.down).event \in {"done", "error"} /\ (Resting(r) \/ Doomed(r))
         /\ ~Resting(sock)
<1> DEFINE d == sock.down
           rest == Tail(d)
           state == IF Head(d).event = "close" THEN "closed" ELSE sock.state
<1>1. d \in Seq(Event) /\ d # <<>>
  BY TypesOfSocket
<1>2. rest \in Happened /\ state \in States
  BY <1>1 DEF Happened, States
<1>3. r = [sock EXCEPT !.down = rest, !.state = state]
  OBVIOUS
<1> HIDE DEF rest, state
<1>4. /\ r \in Socket /\ r.down = rest /\ r.state = state /\ r.waiting = sock.waiting
      /\ r.up = sock.up /\ r.told = sock.told
  BY <1>2, <1>3, SocketIs
<1>5. state \in {"open", "closed"} /\ (Head(d).event # "close" => state = "open")
  BY DEF state
<1>6. Doomed(sock) => r.state = "closed" /\ Head(sock.down).event = "close"
  BY <1>4 DEF Doomed, state
<1>7. ASSUME NEW q \in Questions, NEW text, Coming(sock, q, text)
      PROVE  \/ Head(sock.down) = News("token", q) /\ text = <<>> /\ Coming(r, q, <<q>>)
             \/ Head(sock.down).event \in {"done", "error"} /\ (Resting(r) \/ Doomed(r))
  <2>1. CASE /\ sock.waiting = <<>> /\ sock.up = <<q>> /\ sock.told
             /\ sock.down = <<News("token", q)>> /\ text = <<>>
    <3>1. Head(d) = News("token", q) /\ rest = <<>>
      BY <2>1, Short DEF rest
    <3>2. state = "open"
      BY <1>5, <3>1 DEF News
    <3>3. QED BY <1>4, <2>1, <3>1, <3>2 DEF Coming
  <2>2. ASSUME NEW end \in {"done", "error"}, NEW p \in Questions \cup {0},
               sock.waiting = <<>>, sock.up = <<>>, ~sock.told,
               sock.down = <<News("token", q), News(end, p)>>, text = <<>>
        PROVE  Head(sock.down) = News("token", q) /\ Coming(r, q, <<q>>)
    <3>1. Head(d) = News("token", q) /\ rest = <<News(end, p)>>
      BY <2>2, Short DEF rest
    <3>2. state = "open"
      BY <1>5, <3>1 DEF News
    <3>3. r.down = <<News(end, p)>> /\ r.waiting = <<>> /\ r.up = <<>> /\ ~r.told /\ r.state = "open"
      BY <1>4, <2>2, <3>1, <3>2
    <3>4. QED BY <2>2, <3>1, <3>3 DEF Coming
  <2>3. ASSUME NEW end \in {"done", "error"}, NEW p \in Questions \cup {0},
               sock.waiting = <<>>, sock.up = <<>>, ~sock.told,
               \/ sock.down = <<News(end, p)>>
               \/ sock.down = <<News(end, p), News("close", 0)>>
        PROVE  Head(sock.down).event \in {"done", "error"} /\ (Resting(r) \/ Doomed(r))
    <3>1. Head(d) = News(end, p) /\ rest \in {<<>>, <<News("close", 0)>>}
      <4>1. CASE d = <<News(end, p)>>
        BY <4>1, Short DEF rest
      <4>2. CASE d = <<News(end, p), News("close", 0)>>
        BY <4>2, Short DEF rest
      <4>3. QED BY <2>3, <4>1, <4>2
    <3>2. Head(d).event = end /\ state = "open"
      BY <1>5, <3>1 DEF News
    <3>3. CASE rest = <<>>
      BY <1>4, <2>3, <3>2, <3>3 DEF Resting
    <3>4. CASE rest = <<News("close", 0)>>
      <4>1. rest # <<>> /\ Head(rest) = News("close", 0)
        BY <3>4, Short
      <4>2. QED BY <1>4, <3>2, <4>1 DEF Doomed, News
    <3>5. QED BY <3>1, <3>3, <3>4, <3>2
  <2>4. QED BY <1>7, <2>1, <2>2, <2>3 DEF Coming
<1>8. ~Resting(sock)
  BY DEF Resting
<1>9. QED BY <1>4, <1>5, <1>6, <1>7, <1>8

Calm == OthersAreClosed /\ AnswerIsComing /\ MessagesPair /\ OneCall

(* Only the last socket does anything.                                      *)
LEMMA OnLast ==
  ASSUME Parts, Calm, NEW s \in DOMAIN sockets, sockets[s].state # "closed"
  PROVE  /\ s = Len(sockets) /\ sockets # <<>> /\ Last(sockets) = sockets[s]
         /\ sockets[s] \in Socket /\ sockets[s].state \in Live
<1>1. sockets \in Seq(Socket) /\ sockets[s] \in Socket
  BY DEF Parts, SocketsInv
<1>2. s = Len(sockets) /\ sockets[s].state # "closing"
  BY DEF Calm, OthersAreClosed
<1>3. sockets[s].state \in States
  BY <1>1, TypesOfSocket
<1>4. QED BY <1>1, <1>2, <1>3 DEF Last, States, Live

LEMMA LastMoves ==
  ASSUME Parts, Calm, NEW s \in DOMAIN sockets, s = Len(sockets), NEW r \in Socket,
         sockets' = [sockets EXCEPT ![s] = r], r.state # "closing"
  PROVE  OthersAreClosed' /\ Last(sockets)' = r /\ sockets' # <<>>
<1>1. sockets \in Seq(Socket)
  BY DEF Parts, SocketsInv
<1>2. /\ Len(sockets') = Len(sockets) /\ DOMAIN sockets' = DOMAIN sockets /\ sockets' # <<>>
      /\ \A t \in DOMAIN sockets : sockets'[t] = IF t = s THEN r ELSE sockets[t]
  BY <1>1
<1>3. OthersAreClosed'
  BY <1>2 DEF Calm, OthersAreClosed
<1>4. QED BY <1>2, <1>3 DEF Last

LEMMA PageRests ==
  ASSUME Calm, page'.messages = page.messages, page'.selected = page.selected,
         calls' = calls, asked' = asked
  PROVE  MessagesPair' /\ OneCall'
<1>1. MessagesPair'
  BY DEF Calm, MessagesPair
<1>2. OneCall'
  BY DEF Calm, OneCall, Belongs
<1>3. QED BY <1>1, <1>2

(* The server goes on with an answer, the page waits.                       *)
LEMMA ServerTurns ==
  ASSUME Parts, Calm, NEW s \in DOMAIN sockets,
         opened(s) \/ token(s) \/ answer(s) \/ refuse(s) \/ error(s)
  PROVE  Calm'
<1> DEFINE sock == sockets[s]
<1>1. page' = page /\ calls' = calls /\ asked' = asked
  BY DEF opened, token, answer, refuse, error
<1>2. sock.state # "closed"
  BY DEF opened, token, answer, refuse, error, Answering
<1>3. s = Len(sockets) /\ sockets # <<>> /\ Last(sockets) = sock /\ sock \in Socket
      /\ sock.state \in Live
  BY <1>2, OnLast
<1>4. \E r \in Socket : sockets' = [sockets EXCEPT ![s] = r] /\ r.state = "open" /\ Onward(sock, r)
  <2>1. CASE opened(s)
    <3> DEFINE open == [sock EXCEPT !.state = "open", !.waiting = <<>>]
               r == IF sock.conv \in server.convs THEN [open EXCEPT !.up = open.up \o sock.waiting]
                    ELSE Deliver(Deliver(open, "error", 0), "close", 0)
    <3>1. sockets' = [sockets EXCEPT ![s] = r] /\ sock.state = "connecting"
      BY <2>1 DEF opened
    <3>2. /\ open \in Socket /\ open.state = "open" /\ open.waiting = <<>> /\ open.up = sock.up
          /\ open.told = sock.told /\ open.down = sock.down
      <4>1. <<>> \in Asked
        BY DEF Asked
      <4>2. QED BY <1>3, <4>1, SocketIs DEF States
    <3> HIDE DEF open
    <3>3. \/ r = [open EXCEPT !.up = open.up \o sock.waiting]
          \/ r = Deliver(Deliver(open, "error", 0), "close", 0)
      OBVIOUS
    <3> HIDE DEF r
    <3>4. r \in Socket /\ r.state = "open" /\ Onward(sock, r)
      BY <1>3, <3>1, <3>2, <3>3, OpeningGoesOn
    <3>5. QED BY <3>1, <3>4
  <2>2. CASE token(s)
    <3> DEFINE r == [Deliver(sock, "token", Head(sock.up)) EXCEPT !.told = TRUE]
    <3>1. sockets' = [sockets EXCEPT ![s] = r] /\ sock.up # <<>> /\ ~sock.told /\ sock.state = "open"
      BY <1>3, <2>2 DEF token, Answering, Live
    <3>2. r \in Socket /\ r.state = "open" /\ Onward(sock, r)
      BY <1>3, <3>1, TokenGoesOn
    <3> HIDE DEF r
    <3>3. QED BY <3>1, <3>2
  <2>3. CASE answer(s) \/ refuse(s) \/ error(s)
    <3>1. PICK event \in {"done", "error"} :
            sockets' = [sockets EXCEPT ![s] = Over(sock, event)] /\ (event = "done" => sock.told)
      BY <2>3 DEF answer, refuse, error
    <3>2. sock.up # <<>> /\ sock.state = "open"
      BY <1>3, <2>3 DEF answer, refuse, error, Answering, Live
    <3> DEFINE r == Over(sock, event)
    <3>3. r \in Socket /\ r.state = "open" /\ Onward(sock, r)
      BY <1>3, <3>1, <3>2, EndGoesOn
    <3>4. sockets' = [sockets EXCEPT ![s] = r]
      BY <3>1
    <3> HIDE DEF r
    <3>5. QED BY <3>3, <3>4
  <2>4. QED BY <2>1, <2>2, <2>3
<1>5. PICK r \in Socket : sockets' = [sockets EXCEPT ![s] = r] /\ r.state = "open" /\ Onward(sock, r)
  BY <1>4
<1>6. OthersAreClosed' /\ Last(sockets)' = r /\ sockets' # <<>>
  BY <1>3, <1>5, LastMoves
<1> HIDE DEF sock
<1>7. AnswerIsComing'
  <2>1. CASE page.streaming
    <3>1. /\ calls = {} /\ page.messages # <<>> /\ Last(page.messages).streaming
          /\ \/ Doomed(sock)
             \/ \E q \in Questions :
                  /\ page.messages[Len(page.messages) - 1].text = <<q>>
                  /\ Coming(sock, q, Last(page.messages).text)
      BY <1>3, <2>1 DEF Calm, AnswerIsComing
    <3>2. \/ Doomed(r)
          \/ \E q \in Questions :
               /\ page.messages[Len(page.messages) - 1].text = <<q>>
               /\ Coming(r, q, Last(page.messages).text)
      BY <1>5, <3>1 DEF Onward
    <3>3. Last(page.messages)' = Last(page.messages)
      BY <1>1 DEF Last
    <3>4. QED BY <1>1, <1>6, <2>1, <3>1, <3>2, <3>3 DEF AnswerIsComing
  <2>2. CASE ~page.streaming
    <3>1. Doomed(sock)
      BY <1>3, <1>5, <2>2 DEF Calm, AnswerIsComing, Onward, sock, Live
    <3>2. Doomed(r)
      BY <1>5, <3>1 DEF Onward
    <3>3. QED BY <1>1, <1>6, <2>2, <3>2 DEF AnswerIsComing
  <2>3. QED BY <2>1, <2>2
<1>8. QED BY <1>1, <1>6, <1>7, PageRests DEF Calm

LEMMA EvenIsTwo ==
  ASSUME NEW n \in Nat, n # 0, n % 2 = 0
  PROVE  n >= 2 /\ n % 2 # 1
OBVIOUS

(* The page takes the news: the last message grows, or has come to its end. *)
Grown(old, m, n, tokens, ends) ==
  /\ n \in Nat /\ n >= 2 /\ n % 2 = 0 /\ DOMAIN m = 1 .. n /\ Len(m) = n /\ m # <<>>
  /\ DOMAIN old = 1 .. n
  /\ \A i \in 1 .. n - 1 : m[i] = old[i]
  /\ m[n].role = old[n].role /\ m[n].text = old[n].text \o tokens
  /\ m[n].streaming = (old[n].streaming /\ ~ends)

LEMMA LastUpdated ==
  ASSUME Parts, MessagesPair, page.messages # <<>>, NEW tokens \in Text, NEW ends \in BOOLEAN,
         NEW n, n = Len(page.messages), NEW m, m = updateLastAssistant(tokens, ends)
  PROVE  Grown(page.messages, m, n, tokens, ends)
<1> DEFINE old == page.messages
           said == {i \in DOMAIN old : old[i].role = "assistant"}
<1>1. old \in Messages
  BY DEF Parts, PageType
<1>2. m \in Messages
  BY <1>1, UpdatedMessages
<1>3. n \in Nat /\ n >= 2 /\ n # 0 /\ n % 2 = 0 /\ DOMAIN old = 1 .. n /\ \A i \in 1 .. n : old[i] \in UIMessage
  <2>1. n \in Nat /\ n # 0 /\ DOMAIN old = 1 .. n /\ \A i \in 1 .. n : old[i] \in UIMessage
    BY <1>1 DEF Messages
  <2>2. n % 2 = 0
    BY DEF MessagesPair
  <2>3. n >= 2
    BY <2>1, <2>2, EvenIsTwo
  <2>4. QED BY <2>1, <2>2, <2>3
<1>4. n \in said /\ \A j \in said : j <= n
  <2>0. n \in DOMAIN old
    <3>1. n \in Nat /\ n >= 2 /\ DOMAIN old = 1 .. n
      BY <1>3
    <3> HIDE DEF old
    <3>2. n \in 1 .. n
      BY <3>1
    <3>3. QED BY <3>1, <3>2
  <2>1. n \in DOMAIN old /\ n % 2 # 1
    <3>1. n \in Nat /\ n # 0 /\ n % 2 = 0
      BY <1>3
    <3> HIDE DEF old
    <3>2. QED BY <2>0, <3>1, EvenIsTwo
  <2>2. old[n].role = "assistant"
    BY <2>1 DEF MessagesPair
  <2>3. \A j \in DOMAIN old : j <= n
    BY <1>3
  <2> HIDE DEF old
  <2>4. QED BY <2>1, <2>2, <2>3
<1>5. m = [i \in DOMAIN old |->
             IF i \in said /\ \A j \in said : j <= i
             THEN [old[i] EXCEPT !.text = @ \o tokens, !.streaming = @ /\ ~ends]
             ELSE old[i]]
  BY DEF updateLastAssistant
<1>a. n \in DOMAIN old /\ (n \in said /\ \A j \in said : j <= n)
  BY <1>3, <1>4
<1> HIDE DEF old, said
<1>6. DOMAIN m = 1 .. n
  BY <1>3, <1>5
<1>7. Len(m) = n /\ m # <<>>
  BY <1>2, <1>3, <1>6 DEF Messages
<1>8. \A i \in 1 .. n - 1 : m[i] = old[i]
  <2>1. ASSUME NEW i \in 1 .. n - 1 PROVE m[i] = old[i]
    <3>1. ~(n <= i) /\ i \in DOMAIN old
      BY <1>3
    <3>2. QED BY <1>4, <1>5, <3>1
  <2>2. QED BY <2>1
<1>9. m[n] = [old[n] EXCEPT !.text = @ \o tokens, !.streaming = @ /\ ~ends]
  BY <1>5, <1>a
<1>10. m[n].role = old[n].role /\ m[n].text = old[n].text \o tokens
       /\ m[n].streaming = (old[n].streaming /\ ~ends)
  <2> DEFINE o == old[n]
             text == o.text \o tokens
             streaming == o.streaming /\ ~ends
  <2>1. o \in UIMessage
    BY <1>3
  <2>2. text \in Text /\ streaming \in BOOLEAN
    <3>1. o.text \in Text
      BY <2>1, UIMessageIs
    <3>2. QED BY <3>1 DEF Text
  <2>3. m[n] = [o EXCEPT !.text = text, !.streaming = streaming]
    BY <1>9
  <2> HIDE DEF o, text, streaming
  <2>4. m[n].role = o.role /\ m[n].text = text /\ m[n].streaming = streaming
    BY <2>1, <2>2, <2>3, UIMessageIs
  <2>5. QED BY <2>4 DEF o, text, streaming
<1>11. QED BY <1>3, <1>6, <1>7, <1>8, <1>10 DEF old, Grown

(* The message that grows stays the answer to the one above it.             *)
LEMMA AnswerGrows ==
  ASSUME Parts, Calm, page.streaming, calls' = calls, asked' = asked,
         page'.selected = page.selected, NEW q \in Questions,
         page.messages[Len(page.messages) - 1].text = <<q>>,
         NEW tokens \in Text, NEW ends \in BOOLEAN,
         page'.messages = updateLastAssistant(tokens, ends),
         Last(page.messages).text \o tokens \in {<<>>, <<q>>}
  PROVE  /\ MessagesPair' /\ OneCall' /\ page'.messages # <<>>
         /\ page'.messages[Len(page'.messages) - 1].text = <<q>>
         /\ Last(page'.messages).text = Last(page.messages).text \o tokens
         /\ Last(page'.messages).streaming = ~ends
<1>0. PICK old, m, n : old = page.messages /\ m = page'.messages /\ n = Len(old)
  OBVIOUS
<1>1. calls = {} /\ page.messages # <<>> /\ Last(page.messages).streaming /\ MessagesPair /\ OneCall
  BY DEF Calm, AnswerIsComing
<1>2. /\ n \in Nat /\ n >= 2 /\ n % 2 = 0 /\ DOMAIN m = 1 .. n /\ Len(m) = n /\ m # <<>>
      /\ DOMAIN old = 1 .. n
      /\ \A i \in 1 .. n - 1 : m[i] = old[i]
      /\ m[n].role = old[n].role /\ m[n].text = old[n].text \o tokens
      /\ m[n].streaming = (old[n].streaming /\ ~ends)
  <2>1. m = updateLastAssistant(tokens, ends) /\ page.messages # <<>> /\ n = Len(page.messages)
    BY <1>0, <1>1
  <2>2. Grown(page.messages, m, n, tokens, ends)
    BY <1>1, <2>1, LastUpdated
  <2>3. QED BY <1>0, <2>2 DEF Grown
<1>3. Last(old) = old[n] /\ Last(m) = m[n]
  <2>1. Last(old) = old[n]
    BY <1>0 DEF Last
  <2>2. Last(m) = m[n]
    BY <1>2 DEF Last
  <2>3. QED BY <2>1, <2>2
<1>4. old[n - 1].text = <<q>> /\ m[n - 1] = old[n - 1] /\ n - 1 \in 1 .. n
  BY SMTT(40), <1>0, <1>2
<1>5. m[n].text \in {<<>>, <<q>>}
  BY <1>0, <1>2, <1>3
<1>6. /\ \A i \in 1 .. n : IF i % 2 = 1 THEN old[i].role = "user"
                           ELSE old[i].role = "assistant" /\ old[i].text \in {<<>>, old[i - 1].text}
      /\ Belongs(old, page.selected)
  BY <1>0, <1>1, <1>2 DEF MessagesPair, OneCall
<1>7. ASSUME NEW i \in 1 .. n
      PROVE  IF i % 2 = 1 THEN m[i].role = "user"
             ELSE m[i].role = "assistant" /\ m[i].text \in {<<>>, m[i - 1].text}
  <2>1. CASE i = n
    BY <1>2, <1>4, <1>5, <1>6, <2>1
  <2>2. CASE i # n
    <3>0. i \in Nat /\ i >= 1 /\ i < n /\ n \in Nat
      BY <1>2, <2>2
    <3>1. i \in 1 .. n - 1 /\ (i % 2 # 1 => i - 1 \in 1 .. n - 1)
      BY <3>0
    <3>2. QED BY <1>2, <1>6, <3>1
  <2>3. QED BY <2>1, <2>2
<1>8. MessagesPair'
  BY <1>0, <1>2, <1>7 DEF MessagesPair
<1>9. ASSUME NEW i \in 1 .. n, NEW j \in DOMAIN m[i].text
      PROVE  m[i].text[j] \in Questions /\ asked[m[i].text[j]] = page.selected
  <2>1. CASE i = n
    <3>1. m[n].text = <<q>>
      BY <1>5, <1>9, <2>1
    <3>2. j = 1 /\ m[n].text[j] = q /\ 1 \in DOMAIN old[n - 1].text /\ old[n - 1].text[1] = q
      BY <1>4, <1>9, <2>1, <3>1
    <3>3. asked[old[n - 1].text[1]] = page.selected
      <4>1. n - 1 \in DOMAIN old
        BY <1>2, <1>4
      <4>2. QED BY <1>6, <3>2, <4>1 DEF Belongs
    <3>4. QED BY <2>1, <3>2, <3>3
  <2>2. CASE i # n
    <3>1. i \in 1 .. n - 1
      BY <1>2, <2>2
    <3>2. i \in DOMAIN old /\ m[i] = old[i]
      BY <1>2, <3>1
    <3>3. QED BY <1>6, <1>9, <3>2 DEF Belongs
  <2>3. QED BY <2>1, <2>2
<1>10. OneCall'
  <2>1. \A i \in DOMAIN page'.messages : \A j \in DOMAIN page'.messages[i].text :
          /\ page'.messages[i].text[j] \in Questions
          /\ asked'[page'.messages[i].text[j]] = page'.selected
    BY <1>0, <1>2, <1>9
  <2>2. page'.selected = None => page'.messages = <<>>
    <3>1. page.selected # None
      BY <1>1 DEF OneCall
    <3>2. QED BY <3>1
  <2>3. Belongs(page.messages, page.selected)'
    BY <2>1 DEF Belongs
  <2>4. QED BY <1>1, <2>2, <2>3 DEF OneCall
<1>11. QED BY <1>0, <1>1, <1>2, <1>3, <1>4, <1>8, <1>10

LEMMA PageTurns ==
  ASSUME Parts, Calm, NEW s \in DOMAIN sockets, onEvent(s) \/ closed(s) \/ lost(s)
  PROVE  Calm'
<1> DEFINE sock == sockets[s]
<1>1. calls' = calls /\ asked' = asked
  BY DEF onEvent, closed, lost
<1>2. sock.state # "closed"
  BY DEF onEvent, closed, lost, Live
<1>3. s = Len(sockets) /\ sockets # <<>> /\ Last(sockets) = sock /\ sock \in Socket
      /\ sock.state \in Live
  BY <1>2, OnLast
<1>4. page \in [selected : Convs \cup {None}, messages : Messages, streaming : BOOLEAN]
  BY DEF Parts, PageType
<1>5. ASSUME page' = onClose, NEW r \in Socket, sockets' = [sockets EXCEPT ![s] = r],
             r.state = "closed"
      PROVE  Calm'
  <2>1. OthersAreClosed' /\ Last(sockets)' = r
    BY <1>3, <1>5, LastMoves
  <2>2. page'.messages = page.messages /\ page'.selected = page.selected /\ ~page'.streaming
    BY <1>4, <1>5 DEF onClose
  <2>3. AnswerIsComing'
    BY <1>5, <2>1, <2>2 DEF AnswerIsComing
  <2>4. QED BY <1>1, <2>1, <2>2, <2>3, PageRests DEF Calm
<1>6. CASE closed(s) \/ lost(s)
  <2> DEFINE r == [sock EXCEPT !.state = "closed", !.waiting = <<>>, !.up = <<>>,
                               !.down = <<>>, !.told = FALSE]
  <2>1. r \in Socket /\ r.state = "closed"
    <3>1. <<>> \in Asked /\ <<>> \in Happened
      BY DEF Asked, Happened
    <3>2. QED BY <1>3, <3>1, SocketIs DEF States
  <2>2. sockets' = [sockets EXCEPT ![s] = r] /\ page' = onClose
    BY <1>6 DEF closed, lost, Closed
  <2> HIDE DEF r
  <2>3. QED BY <1>5, <2>1, <2>2
<1>7. CASE onEvent(s)
  <2> DEFINE e == Head(sock.down)
             r == [sock EXCEPT !.down = Tail(sock.down),
                               !.state = IF e.event = "close" THEN "closed" ELSE sock.state]
  <2>1. /\ sockets' = [sockets EXCEPT ![s] = r] /\ sock.state = "open" /\ sock.down # <<>>
        /\ page' = CASE e.event = "token" ->
                          [page EXCEPT !.messages = updateLastAssistant(<<e.turn>>, FALSE)]
                     [] e.event \in {"done", "error"} ->
                          [page EXCEPT !.messages = updateLastAssistant(<<>>, TRUE),
                                       !.streaming = FALSE]
                     [] e.event = "close" -> onClose
    BY <1>3, <1>7 DEF onEvent, Parts, SocketsInv
  <2>2. /\ r \in Socket /\ r.state \in {"open", "closed"}
        /\ Doomed(sock) => r.state = "closed" /\ e.event = "close"
        /\ \A text : \A q \in Questions : Coming(sock, q, text) =>
             \/ e = News("token", q) /\ text = <<>> /\ Coming(r, q, <<q>>)
             \/ e.event \in {"done", "error"} /\ (Resting(r) \/ Doomed(r))
        /\ ~Resting(sock)
    BY <1>3, <2>1, Hears
  <2> HIDE DEF r, e
  <2>3. CASE Doomed(sock)
    BY <1>5, <2>1, <2>2, <2>3
  <2>4. CASE ~Doomed(sock)
    <3> DEFINE text == Last(page.messages).text
    <3>1. page.streaming
      BY <1>3, <2>1, <2>2, <2>4 DEF Calm, AnswerIsComing
    <3>2. PICK q \in Questions : /\ page.messages[Len(page.messages) - 1].text = <<q>>
                                 /\ Coming(sock, q, text)
      BY <1>3, <2>4, <3>1 DEF Calm, AnswerIsComing
    <3>3. OthersAreClosed' /\ Last(sockets)' = r /\ sockets' # <<>>
      BY <1>3, <2>1, <2>2, LastMoves
    <3>4. calls = {}
      BY <3>1 DEF Calm, AnswerIsComing
    <3>5. CASE e = News("token", q) /\ text = <<>> /\ Coming(r, q, <<q>>)
      <4>1. e.event = "token" /\ e.turn = q
        BY <3>5 DEF News
      <4>2. <<q>> \in Text /\ <<>> \o <<q>> = <<q>>
        BY Short DEF Text, Questions
      <4>3. /\ page'.messages = updateLastAssistant(<<q>>, FALSE)
            /\ page'.selected = page.selected /\ page'.streaming
        BY <1>4, <2>1, <3>1, <4>1
      <4>4. /\ MessagesPair' /\ OneCall' /\ page'.messages # <<>>
            /\ page'.messages[Len(page'.messages) - 1].text = <<q>>
            /\ Last(page'.messages).text = <<q>> /\ Last(page'.messages).streaming
        BY <1>1, <3>1, <3>2, <3>5, <4>2, <4>3, AnswerGrows
      <4>5. AnswerIsComing'
        <5>1. Last(page.messages)' = Last(page'.messages)
          BY DEF Last
        <5>2. QED BY <1>1, <3>3, <3>4, <3>5, <4>3, <4>4, <5>1 DEF AnswerIsComing
      <4>6. QED BY <3>3, <4>4, <4>5 DEF Calm
    <3>6. CASE e.event \in {"done", "error"} /\ (Resting(r) \/ Doomed(r))
      <4>1. text \in {<<>>, <<q>>} /\ text \o <<>> = text /\ <<>> \in Text
        <5>1. text \in {<<>>, <<q>>}
          BY <2>1, <3>2 DEF Coming
        <5>2. QED BY <5>1 DEF Text
      <4>2. /\ page'.messages = updateLastAssistant(<<>>, TRUE)
            /\ page'.selected = page.selected /\ ~page'.streaming
        BY <1>4, <2>1, <3>6
      <4>3. MessagesPair' /\ OneCall'
        BY <1>1, <3>1, <3>2, <4>1, <4>2, AnswerGrows
      <4>4. AnswerIsComing'
        BY <3>3, <3>6, <4>2 DEF AnswerIsComing
      <4>5. QED BY <3>3, <4>3, <4>4 DEF Calm
    <3>7. QED BY <2>2, <3>2, <3>5, <3>6
  <2>5. QED BY <2>3, <2>4
<1>8. QED BY <1>6, <1>7

-----------------------------------------------------------------------------
(* A user who waits asks a question: it goes out on a socket at rest, on    *)
(* one that has refused the conversation, or on a new one.                  *)
LEMMA BeginSocket ==
  ASSUME Parts, Calm, ~page.streaming, NEW c \in Convs, NEW q \in Questions, Begin(c, q),
         sockets = <<>> \/ Usable(c) \/ Last(sockets).state = "closed"
  PROVE  /\ OthersAreClosed' /\ sockets' # <<>>
         /\ Doomed(Last(sockets)') \/ Coming(Last(sockets)', q, <<>>)
<1>1. sockets \in Seq(Socket) /\ OthersAreClosed
  BY DEF Parts, SocketsInv, Calm
<1>2. CASE Usable(c)
  <2> DEFINE n == Len(sockets)
             sock == sockets[n]
             up == Append(sock.up, q)
             r == [sock EXCEPT !.up = up]
  <2>1. n \in DOMAIN sockets /\ sock \in Socket /\ Last(sockets) = sock /\ sock.state \in Live
    <3>1. sockets # <<>> /\ Last(sockets).state \in Live
      BY <1>2 DEF Usable
    <3>2. QED BY <1>1, <3>1 DEF Last
  <2>2. Doomed(sock) \/ Resting(sock)
    BY <2>1 DEF Calm, AnswerIsComing, Live
  <2>3. sock.state = "open"
    BY <2>2 DEF Doomed, Resting
  <2>4. ensureSocket(c) = sockets
    BY <1>2 DEF ensureSocket
  <2>5. sockets' = [sockets EXCEPT ![n] = r]
    <3>1. sockets' = [sockets EXCEPT ![n] = sendPayload(sock, q)]
      BY <2>4 DEF Begin
    <3>2. sendPayload(sock, q) = r
      BY <2>3 DEF sendPayload
    <3>3. QED BY <3>1, <3>2
  <2>6. up \in Asked /\ (sock.up = <<>> => up = <<q>>)
    <3>1. sock.up \in Seq(Questions)
      BY <2>1, TypesOfSocket
    <3>2. up \in Asked
      BY <3>1 DEF Asked
    <3>3. sock.up = <<>> => up = <<q>>
      BY Short
    <3>4. QED BY <3>2, <3>3
  <2> HIDE DEF up
  <2>7. /\ r \in Socket /\ r.state = "open" /\ r.up = up /\ r.waiting = sock.waiting
        /\ r.told = sock.told /\ r.down = sock.down
    BY <2>1, <2>3, <2>6, SocketIs
  <2> HIDE DEF r
  <2>8. Doomed(r) \/ Coming(r, q, <<>>)
    <3>1. CASE Doomed(sock)
      BY <2>7, <3>1 DEF Doomed
    <3>2. CASE Resting(sock)
      BY <2>6, <2>7, <3>2 DEF Resting, Coming
    <3>3. QED BY <2>2, <3>1, <3>2
  <2>9. OthersAreClosed' /\ Last(sockets)' = r /\ sockets' # <<>>
    <3> HIDE DEF sock
    <3>1. n = Len(sockets)
      OBVIOUS
    <3> HIDE DEF n
    <3>2. QED BY <2>1, <2>5, <2>7, <3>1, LastMoves
  <2>10. QED BY <2>8, <2>9
<1>3. CASE ~Usable(c)
  <2> DEFINE old == [s \in DOMAIN sockets |->
                       IF s = Len(sockets) THEN Closing(sockets[s]) ELSE sockets[s]]
             socks == Append(old, Fresh(c))
             waits == <<q>>
             r == [Fresh(c) EXCEPT !.waiting = waits]
  <2>1. \A s \in DOMAIN sockets : sockets[s].state = "closed" /\ Closing(sockets[s]) = sockets[s]
    <3>1. ASSUME NEW s \in DOMAIN sockets
          PROVE  sockets[s].state = "closed"
      <4>1. CASE s = Len(sockets)
        <5>1. sockets # <<>>
          BY <1>1
        <5>2. QED BY <1>3, <4>1, <5>1 DEF Last
      <4>2. CASE s # Len(sockets)
        BY <1>1, <4>2 DEF OthersAreClosed
      <4>3. QED BY <4>1, <4>2
    <3>2. QED BY <3>1 DEF Closing, Live
  <2>2. old = sockets
    <3>1. old = [s \in DOMAIN sockets |-> sockets[s]]
      BY <2>1
    <3>2. sockets = [s \in DOMAIN sockets |-> sockets[s]]
      BY <1>1
    <3>3. QED BY <3>1, <3>2
  <2>3. ensureSocket(c) = Append(sockets, Fresh(c))
    BY <1>3, <2>2 DEF ensureSocket
  <2> HIDE DEF old
  <2>4. /\ Fresh(c) \in Socket /\ waits \in Asked
    <3>1. <<>> \in Asked /\ <<>> \in Happened /\ waits \in Asked
      BY DEF Asked, Happened
    <3>2. QED BY <3>1, SocketIs DEF Fresh, States
  <2>5. Fresh(c).state = "connecting" /\ Fresh(c).waiting = <<>>
    BY DEF Fresh
  <2>6. sendPayload(Fresh(c), q) = r
    <3>1. Append(Fresh(c).waiting, q) = waits
      BY <2>5, Short
    <3>2. QED BY <2>5, <3>1 DEF sendPayload
  <2> DEFINE n == Len(sockets)
             longer == Append(sockets, Fresh(c))
  <2>7. /\ longer \in Seq(Socket) /\ Len(longer) = n + 1 /\ n \in Nat /\ longer[n + 1] = Fresh(c)
        /\ \A s \in 1 .. n : longer[s] = sockets[s] /\ s \in DOMAIN sockets
    <3> DEFINE f == Fresh(c)
    <3>1. f \in Socket
      BY <2>4
    <3> HIDE DEF f
    <3>2. /\ Append(sockets, f) \in Seq(Socket) /\ Len(Append(sockets, f)) = Len(sockets) + 1
          /\ Len(sockets) \in Nat /\ Append(sockets, f)[Len(sockets) + 1] = f
          /\ \A s \in 1 .. Len(sockets) : Append(sockets, f)[s] = sockets[s] /\ s \in DOMAIN sockets
      BY <1>1, <3>1
    <3>3. QED BY <3>2 DEF f
  <2>8. sockets' = [longer EXCEPT ![n + 1] = r]
    <3>1. sockets' = [longer EXCEPT ![Len(longer)] = sendPayload(longer[Len(longer)], q)]
      BY <2>3 DEF Begin
    <3>2. QED BY <2>6, <2>7, <3>1
  <2>9. /\ r \in Socket /\ r.state = "connecting" /\ r.waiting = <<q>> /\ r.up = <<>>
        /\ ~r.told /\ r.down = <<>>
    <3>1. /\ r \in Socket /\ r.state = Fresh(c).state /\ r.waiting = waits /\ r.up = Fresh(c).up
          /\ r.told = Fresh(c).told /\ r.down = Fresh(c).down
      <4> DEFINE f == Fresh(c)
      <4> HIDE DEF waits
      <4>1. f \in Socket /\ waits \in Asked /\ r = [f EXCEPT !.waiting = waits]
        BY <2>4
      <4> HIDE DEF f
      <4>2. /\ r \in Socket /\ r.state = f.state /\ r.waiting = waits /\ r.up = f.up
            /\ r.told = f.told /\ r.down = f.down
        BY <4>1, SocketIs
      <4>3. QED BY <4>2 DEF f
    <3>2. QED BY <3>1 DEF Fresh
  <2> HIDE DEF longer, r
  <2>10. /\ Len(sockets') = n + 1 /\ DOMAIN sockets' = 1 .. n + 1 /\ sockets'[n + 1] = r
         /\ \A s \in 1 .. n : sockets'[s] = sockets[s]
    BY <2>7, <2>8, <2>9
  <2>11. OthersAreClosed'
    <3>1. ASSUME NEW s \in DOMAIN sockets'
          PROVE  sockets'[s].state # "closing" /\ (s # Len(sockets') => sockets'[s].state = "closed")
      <4>1. CASE s = n + 1
        BY <2>9, <2>10, <4>1
      <4>2. CASE s # n + 1
        <5>1. s \in 1 .. n
          BY <2>7, <2>10, <4>2
        <5>2. QED BY <2>1, <2>7, <2>10, <5>1
      <4>3. QED BY <4>1, <4>2
    <3>2. QED BY <3>1 DEF OthersAreClosed
  <2>12. Last(sockets)' = r /\ sockets' # <<>>
    BY <2>7, <2>10 DEF Last
  <2>13. Coming(r, q, <<>>)
    BY <2>9 DEF Coming
  <2>14. QED BY <2>11, <2>12, <2>13
<1>4. QED BY <1>2, <1>3

(* The question is shown below the others, with an empty answer.            *)
LEMMA BeginMessages ==
  ASSUME Parts, MessagesPair, NEW c \in Convs, NEW q \in Questions, asked[q] = None, Begin(c, q),
         Belongs(page.messages, c)
  PROVE  /\ MessagesPair' /\ Belongs(page.messages, page.selected)'
         /\ page'.selected = c /\ page'.streaming /\ page'.messages # <<>>
         /\ page'.messages[Len(page'.messages) - 1].text = <<q>>
         /\ Last(page'.messages).text = <<>> /\ Last(page'.messages).streaming
<1>0. PICK old, m, n, first, second :
        /\ old = page.messages /\ m = page'.messages /\ n = Len(old)
        /\ first = Said("user", q)
        /\ second = [role |-> "assistant", text |-> <<>>, streaming |-> TRUE]
  OBVIOUS
<1>1. /\ m = old \o <<first, second>> /\ page'.selected = c /\ page'.streaming
      /\ asked' = [asked EXCEPT ![q] = c]
  BY <1>0 DEF Begin
<1>2. /\ first \in UIMessage /\ first.role = "user" /\ first.text = <<q>>
      /\ second \in UIMessage /\ second.role = "assistant" /\ second.text = <<>> /\ second.streaming
  <2>1. first \in UIMessage
    BY <1>0, SaidIsMessage DEF Questions
  <2>2. <<>> \in Text
    BY DEF Text
  <2>3. second \in UIMessage
    BY <1>0, <2>2, UIMessageIs
  <2>4. QED BY <1>0, <2>1, <2>3 DEF Said
<1>3. old \in Seq(UIMessage) /\ n \in Nat /\ n % 2 = 0 /\ DOMAIN old = 1 .. n
  <2>1. old \in Seq(UIMessage)
    BY <1>0 DEF Parts, PageType, Messages
  <2>2. n % 2 = 0
    BY <1>0 DEF MessagesPair
  <2>3. Len(old) \in Nat /\ DOMAIN old = 1 .. Len(old)
    BY <2>1
  <2>4. n = Len(old)
    BY <1>0
  <2>5. QED BY <2>1, <2>2, <2>3, <2>4
<1>4. /\ Len(m) = n + 2 /\ DOMAIN m = 1 .. n + 2 /\ m[n + 1] = first /\ m[n + 2] = second
      /\ \A i \in 1 .. n : m[i] = old[i]
  <2> DEFINE both == <<first, second>>
  <2>1. both \in Seq(UIMessage) /\ Len(both) = 2 /\ both[1] = first /\ both[2] = second
    BY <1>2
  <2>2. m = old \o both
    BY <1>1
  <2> HIDE DEF both
  <2>a. n = Len(old)
    BY <1>0
  <2>b. m \in Seq(UIMessage)
    BY <1>3, <2>1, <2>2
  <2>c. Len(m) = n + 2
    <3>1. old \in Seq(UIMessage) /\ both \in Seq(UIMessage)
      BY <1>3, <2>1
    <3>2. Len(old \o both) = Len(old) + Len(both)
      BY <3>1, ConcatProperties
    <3>3. QED BY <2>1, <2>2, <2>a, <3>2
  <2>d. \A i \in 1 .. n + 2 : m[i] = IF i <= n THEN old[i] ELSE both[i - n]
    BY <1>3, <2>1, <2>2, <2>a, ConcatProperties
  <2>3. Len(m) = n + 2 /\ DOMAIN m = 1 .. n + 2
    BY <2>b, <2>c
  <2>4. m[n + 1] = first /\ m[n + 2] = second
    <3>1. n + 1 \in 1 .. n + 2 /\ n + 2 \in 1 .. n + 2 /\ ~(n + 1 <= n) /\ ~(n + 2 <= n)
          /\ (n + 1) - n = 1 /\ (n + 2) - n = 2
      BY <1>3
    <3>2. QED BY <2>1, <2>d, <3>1
  <2>5. \A i \in 1 .. n : m[i] = old[i]
    <3>1. \A i \in 1 .. n : i \in 1 .. n + 2 /\ i <= n
      BY <1>3
    <3>2. QED BY <2>d, <3>1
  <2>6. QED BY <2>3, <2>4, <2>5
<1>5. m # <<>> /\ Last(m) = second /\ m[Len(m) - 1] = first
  <2>1. Len(m) = n + 2 /\ Len(m) - 1 = n + 1
    BY <1>3, <1>4
  <2>2. Last(m) = second
    BY <1>4, <2>1 DEF Last
  <2>3. m # <<>>
    BY <1>3, <1>4
  <2>4. QED BY <1>4, <2>1, <2>2, <2>3
<1>6. MessagesPair'
  <2>1. Len(m) % 2 = 0
    BY <1>3, <1>4
  <2>2. ASSUME NEW i \in 1 .. n + 2
        PROVE  IF i % 2 = 1 THEN m[i].role = "user"
               ELSE m[i].role = "assistant" /\ m[i].text \in {<<>>, m[i - 1].text}
    <3>1. CASE i \in 1 .. n
      <4>1. IF i % 2 = 1 THEN old[i].role = "user"
            ELSE old[i].role = "assistant" /\ old[i].text \in {<<>>, old[i - 1].text}
        BY <1>0, <1>3, <3>1 DEF MessagesPair
      <4>2. i % 2 # 1 => i - 1 \in 1 .. n
        BY <1>3, <3>1
      <4>3. QED BY <1>4, <3>1, <4>1, <4>2
    <3>2. CASE i = n + 1
      <4>1. i % 2 = 1
        BY <1>3, <3>2
      <4>2. QED BY <1>2, <1>4, <3>2, <4>1
    <3>3. CASE i = n + 2
      <4>1. i % 2 # 1
        BY <1>3, <3>3
      <4>2. QED BY <1>2, <1>4, <3>3, <4>1
    <3>4. QED BY <1>3, <3>1, <3>2, <3>3
  <2>3. QED BY <1>0, <1>4, <2>1, <2>2 DEF MessagesPair
<1>7. ASSUME NEW i \in 1 .. n + 2, NEW j \in DOMAIN m[i].text
      PROVE  m[i].text[j] \in Questions /\ asked'[m[i].text[j]] = c
  <2>1. CASE i \in 1 .. n
    <3>1. PICK x : x = m[i].text[j]
      OBVIOUS
    <3>2. x \in Questions /\ asked[x] = c
      <4>1. i \in DOMAIN old /\ m[i] = old[i] /\ j \in DOMAIN old[i].text /\ x = old[i].text[j]
        BY <1>3, <1>4, <1>7, <2>1, <3>1
      <4>2. Belongs(old, c)
        BY <1>0
      <4>3. QED BY <4>1, <4>2 DEF Belongs
    <3>3. x # q
      BY <3>2
    <3>4. asked'[x] = c
      BY <1>1, <3>2, <3>3 DEF Parts, AskedType
    <3>5. QED BY <3>1, <3>2, <3>4
  <2>2. CASE i = n + 1
    <3>1. m[i].text = <<q>>
      BY <1>2, <1>4, <2>2
    <3>2. m[i].text[j] = q
      BY <1>7, <3>1
    <3>3. asked'[q] = c
      BY <1>1 DEF Parts, AskedType
    <3>4. QED BY <3>2, <3>3
  <2>3. CASE i = n + 2
    BY <1>2, <1>4, <1>7, <2>3
  <2>4. QED BY <1>3, <2>1, <2>2, <2>3
<1>8. Belongs(page.messages, page.selected)'
  <2>1. \A i \in DOMAIN m : \A j \in DOMAIN m[i].text :
          m[i].text[j] \in Questions /\ asked'[m[i].text[j]] = page'.selected
    <3>1. DOMAIN m = 1 .. n + 2 /\ page'.selected = c
      BY <1>1, <1>4
    <3>2. QED BY <1>7, <3>1
  <2>2. m = page'.messages
    BY <1>0
  <2>3. QED BY <2>1, <2>2 DEF Belongs
<1>9. QED BY <1>0, <1>1, <1>2, <1>5, <1>6, <1>8

LEMMA BeginCalm ==
  ASSUME Parts, Calm, ~page.streaming, NEW c \in Convs, NEW q \in Questions, asked[q] = None,
         Begin(c, q), Belongs(page.messages, c), calls' = {},
         sockets = <<>> \/ Usable(c) \/ Last(sockets).state = "closed"
  PROVE  Calm'
<1>1. /\ OthersAreClosed' /\ sockets' # <<>>
      /\ Doomed(Last(sockets)') \/ Coming(Last(sockets)', q, <<>>)
  BY BeginSocket
<1>2. /\ MessagesPair' /\ Belongs(page.messages, page.selected)'
      /\ page'.selected = c /\ page'.streaming /\ page'.messages # <<>>
      /\ page'.messages[Len(page'.messages) - 1].text = <<q>>
      /\ Last(page'.messages).text = <<>> /\ Last(page'.messages).streaming
  BY BeginMessages DEF Calm
<1>3. Last(page.messages)' = Last(page'.messages)
  BY DEF Last
<1>4. AnswerIsComing'
  BY <1>1, <1>2, <1>3 DEF AnswerIsComing
<1>5. OneCall'
  BY <1>2 DEF OneCall
<1>6. QED BY <1>1, <1>2, <1>4, <1>5 DEF Calm

(* Where only the page and its calls change, and no answer streams.         *)
LEMMA QuietTurns ==
  ASSUME Calm, ~page.streaming, ~page'.streaming, sockets' = sockets, asked' = asked,
         MessagesPair', OneCall'
  PROVE  Calm'
<1>1. OthersAreClosed'
  BY DEF Calm, OthersAreClosed
<1>2. Last(sockets)' = Last(sockets)
  BY DEF Last
<1>3. AnswerIsComing'
  BY <1>2 DEF Calm, AnswerIsComing
<1>4. QED BY <1>1, <1>3 DEF Calm

LEMMA ClicksAreCalm ==
  ASSUME Parts, Calm, Click, calm'
  PROVE  Calm'
<1>1. page \in [selected : Convs \cup {None}, messages : Messages, streaming : BOOLEAN]
      /\ <<>> \in Messages
  BY DEF Parts, PageType, Messages
<1>2. calls = {} /\ ~page.streaming
  BY DEF Click, selectConversation, deleteConversation, newChat, send_first, send, Ask, Act
<1>3. Belongs(page.messages, page.selected) /\ (page.selected = None => page.messages = <<>>)
  BY <1>2 DEF Calm, OneCall
<1>4. CASE send
  <2>1. /\ page.selected \in Convs /\ used.questions + 1 \in Questions
        /\ asked[used.questions + 1] = None /\ Begin(page.selected, used.questions + 1)
    BY <1>4, Beginners
  <2>2. sockets = <<>> \/ Usable(page.selected) \/ Last(sockets).state = "closed"
    BY <1>4 DEF send, Ask
  <2>3. calls' = {}
    BY <1>2, <1>4 DEF send, Ask
  <2>4. QED BY <1>2, <1>3, <2>1, <2>2, <2>3, BeginCalm
<1>5. CASE newChat
  <2>1. /\ page'.messages = <<>> /\ page'.selected = None /\ page'.streaming = page.streaming
        /\ sockets' = sockets /\ asked' = asked /\ calls' = {}
    BY <1>1, <1>2, <1>5 DEF newChat
  <2>2. MessagesPair'
    BY <2>1 DEF MessagesPair
  <2>3. OneCall'
    BY <2>1 DEF OneCall, Belongs
  <2>4. QED BY <1>2, <2>1, <2>2, <2>3, QuietTurns
<1>6. ASSUME NEW op \in {"list", "create", "delete"}, NEW conv, NEW turn, Request(op, conv, turn),
             sockets' = sockets, asked' = asked, page'.messages = page.messages,
             page'.streaming = page.streaming,
             op = "list" => conv \in Convs /\ page'.selected = conv,
             op # "list" => page'.selected = page.selected,
             op = "create" => page.selected = None
      PROVE  Calm'
  <2>1. PICK r : calls' = {r} /\ r.op = op /\ r.conv = conv /\ r.pc = "sent"
    <3> DEFINE r == [id |-> used.calls, op |-> op, conv |-> conv, turn |-> turn,
                     mine |-> page.selected = conv, pc |-> "sent", data |-> <<>>]
    <3>1. calls' = calls \cup {r}
      BY <1>6 DEF Request
    <3>2. r.op = op /\ r.conv = conv /\ r.pc = "sent"
      OBVIOUS
    <3> HIDE DEF r
    <3>3. calls' = {r}
      BY <1>2, <3>1
    <3>4. QED BY <3>2, <3>3
  <2>2. MessagesPair'
    BY <1>6 DEF Calm, MessagesPair
  <2>3. Belongs(page.messages, page.selected) <=> Belongs(page.messages, page.selected)'
          \/ op = "list"
    <3>1. CASE op = "list"
      BY <1>3, <3>1
    <3>2. CASE op # "list"
      BY <1>6, <3>2 DEF Belongs
    <3>3. QED BY <3>1, <3>2
  <2>4. OneCall'
    BY <1>3, <1>6, <2>1, <2>3 DEF OneCall
  <2>5. QED BY <1>2, <1>6, <2>2, <2>4, QuietTurns
<1>7. CASE send_first
  <2>1. /\ Request("create", None, used.questions + 1) /\ page.selected = None
        /\ page' = page /\ sockets' = sockets /\ asked' = asked
    BY <1>7 DEF send_first
  <2>2. QED BY <1>6, <2>1
<1>8. ASSUME NEW c \in Convs, selectConversation(c)
      PROVE  Calm'
  <2>1. /\ Request("list", c, 0) /\ sockets' = sockets /\ asked' = asked
        /\ page'.selected = c /\ page'.messages = page.messages /\ page'.streaming = page.streaming
    BY <1>1, <1>8 DEF selectConversation
  <2>2. QED BY <1>6, <2>1
<1>9. ASSUME NEW c \in Convs, deleteConversation(c)
      PROVE  Calm'
  <2>1. Request("delete", c, 0) /\ page' = page /\ sockets' = sockets /\ asked' = asked
    BY <1>9 DEF deleteConversation
  <2>2. QED BY <1>6, <2>1
<1>10. QED BY <1>4, <1>5, <1>7, <1>8, <1>9 DEF Click

(* While a call is under way no answer streams, and it is the only call.    *)
LEMMA OnlyCall ==
  ASSUME Parts, Calm, NEW k \in calls
  PROVE  /\ ~page.streaming /\ calls \ {k} = {} /\ k \in Call
         /\ MessagesPair
         /\ page.selected = None => page.messages = <<>>
         /\ k.op = "create" => page.selected = None
         /\ k.op = "list" => k.conv = page.selected /\ k.conv \in Convs
         /\ k.op = "list" /\ k.pc = "ok" => \A i \in DOMAIN k.data : asked[k.data[i]] = k.conv
         /\ k.op # "list" => Belongs(page.messages, page.selected)
<1>1. ~page.streaming
  BY DEF Calm, AnswerIsComing
<1>2. calls \ {k} = {} /\ k \in Call
  BY DEF Calm, OneCall, Parts, CallsInv
<1>3. /\ page.selected = None => page.messages = <<>>
      /\ k.op = "create" => page.selected = None
      /\ k.op = "list" => k.conv = page.selected
      /\ k.op = "list" /\ k.pc = "ok" => \A i \in DOMAIN k.data : asked[k.data[i]] = k.conv
  BY DEF Calm, OneCall
<1>4. k.op = "list" => k.conv \in Convs
  BY DEF Parts, CallsInv
<1>5. k.op # "list" => Belongs(page.messages, page.selected)
  BY <1>2 DEF Calm, OneCall
<1>6. QED BY <1>1, <1>2, <1>3, <1>4, <1>5 DEF Calm

LEMMA AnsweredCalm ==
  ASSUME Parts, Calm, NEW k \in calls, NEW pc \in Phases, NEW conv \in Convs \cup {None},
         NEW data \in Asked, Answered(k, pc, conv, data),
         page' = page, sockets' = sockets, asked' = asked,
         k.op = "list" => conv = k.conv,
         k.op = "list" /\ pc = "ok" => \A i \in DOMAIN data : asked[data[i]] = conv
  PROVE  Calm'
<1>1. /\ ~page.streaming /\ calls \ {k} = {} /\ k \in Call
      /\ MessagesPair
      /\ page.selected = None => page.messages = <<>>
      /\ k.op = "create" => page.selected = None
      /\ k.op = "list" => k.conv = page.selected
      /\ k.op # "list" => Belongs(page.messages, page.selected)
  BY OnlyCall
<1>2. PICK r : calls' = {r} /\ r.op = k.op /\ r.pc = pc /\ r.conv = conv /\ r.data = data
  <2> DEFINE r == [k EXCEPT !.pc = pc, !.conv = conv, !.data = data]
  <2>1. r.op = k.op /\ r.pc = pc /\ r.conv = conv /\ r.data = data
    BY <1>1, CallIs
  <2>2. calls' = (calls \ {k}) \cup {r}
    BY DEF Answered
  <2> HIDE DEF r
  <2>3. calls' = {r}
    BY <1>1, <2>2
  <2>4. QED BY <2>1, <2>3
<1>3. MessagesPair'
  BY <1>1 DEF MessagesPair
<1>4. k.op # "list" => Belongs(page.messages, page.selected)'
  BY <1>1 DEF Belongs
<1>5. OneCall'
  BY <1>1, <1>2, <1>4 DEF OneCall
<1>6. QED BY <1>1, <1>3, <1>5, QuietTurns

(* A history is shown as the questions and answers of its conversation.     *)
LEMMA HistoryIsShown ==
  ASSUME NEW h \in Seq(Questions), NEW c, \A i \in DOMAIN h : asked[h[i]] = c,
         page'.messages = Shown(h), asked' = asked
  PROVE  MessagesPair' /\ Belongs(page.messages, c)'
<1>0. PICK m, n : m = page'.messages /\ n = Len(h)
  OBVIOUS
<1>1. n \in Nat /\ DOMAIN h = 1 .. n
  BY <1>0
<1>2. m = [i \in 1 .. 2 * n |->
             Said(IF i % 2 = 1 THEN "user" ELSE "assistant", h[(i + 1) \div 2])]
  BY <1>0 DEF Shown
<1>3. /\ DOMAIN m = 1 .. 2 * n
      /\ \A i \in 1 .. 2 * n :
           /\ m[i].role = IF i % 2 = 1 THEN "user" ELSE "assistant"
           /\ m[i].text = <<h[(i + 1) \div 2]>>
  BY <1>2 DEF Said
<1>4. Len(m) = 2 * n
  <2>1. 2 * n \in Nat
    BY <1>1
  <2>2. m \in Seq(UIMessage)
    BY <1>0, ShownIsMessages DEF Messages
  <2>3. QED BY <1>3, <2>1, <2>2
<1>5. ASSUME NEW i \in 1 .. 2 * n
      PROVE  /\ (i + 1) \div 2 \in 1 .. n
             /\ i % 2 # 1 => i - 1 \in 1 .. 2 * n /\ ((i - 1) + 1) \div 2 = (i + 1) \div 2
  BY <1>1
<1>6. Len(m) % 2 = 0
  BY <1>1, <1>4
<1>7. ASSUME NEW i \in 1 .. 2 * n
      PROVE  IF i % 2 = 1 THEN m[i].role = "user"
             ELSE m[i].role = "assistant" /\ m[i].text \in {<<>>, m[i - 1].text}
  BY <1>3, <1>5
<1>8. MessagesPair'
  BY <1>0, <1>3, <1>6, <1>7 DEF MessagesPair
<1>9. ASSUME NEW i \in 1 .. 2 * n, NEW j \in DOMAIN m[i].text
      PROVE  m[i].text[j] \in Questions /\ asked[m[i].text[j]] = c
  <2>1. PICK e : e = (i + 1) \div 2
    OBVIOUS
  <2>2. e \in 1 .. n /\ m[i].text = <<h[e]>>
    BY <1>3, <1>5, <2>1
  <2>3. m[i].text[j] = h[e]
    BY <1>9, <2>2
  <2>4. h[e] \in Questions /\ asked[h[e]] = c
    BY <1>1, <2>2
  <2>5. QED BY <2>3, <2>4
<1>10. Belongs(page.messages, c)'
  <2>1. \A i \in DOMAIN m : \A j \in DOMAIN m[i].text :
          m[i].text[j] \in Questions /\ asked'[m[i].text[j]] = c
    BY <1>3, <1>9
  <2>2. QED BY <1>0, <2>1 DEF Belongs
<1>11. QED BY <1>8, <1>10

LEMMA CallsAreCalm ==
  ASSUME Parts, Calm, NEW k \in calls, Rest(k) \/ call_fails(k), calm'
  PROVE  Calm'
<1>1. page \in [selected : Convs \cup {None}, messages : Messages, streaming : BOOLEAN]
      /\ <<>> \in Messages
  BY DEF Parts, PageType, Messages
<1>2. /\ ~page.streaming /\ calls \ {k} = {} /\ k \in Call
      /\ MessagesPair
      /\ page.selected = None => page.messages = <<>>
      /\ k.op = "create" => page.selected = None
      /\ k.op = "list" => k.conv = page.selected /\ k.conv \in Convs
      /\ k.op = "list" /\ k.pc = "ok" => \A i \in DOMAIN k.data : asked[k.data[i]] = k.conv
      /\ k.op # "list" => Belongs(page.messages, page.selected)
  BY OnlyCall
<1>3. /\ k.conv \in Convs \cup {None} /\ k.data \in Asked /\ <<>> \in Asked /\ DOMAIN <<>> = {}
      /\ "ok" \in Phases /\ "failed" \in Phases
  BY <1>2, CallIs DEF Asked, Phases
<1>4. CASE list_messages(k)
  <2>1. CASE k.conv \in server.convs
    <3> DEFINE h == server.history[k.conv]
    <3>1. Answered(k, "ok", k.conv, h) /\ k.conv \in Convs
      BY <1>2, <1>4, <2>1 DEF list_messages
    <3>2. h \in Asked /\ \A i \in DOMAIN h : asked[h[i]] = k.conv
      <4>1. h \in Asked
        BY <3>1 DEF Parts, ServerType
      <4>2. \A q \in ToSet(h) : asked[q] = k.conv
        BY <3>1 DEF Parts, HistoryInv
      <4>3. QED BY <4>1, <4>2 DEF ToSet
    <3>3. page' = page /\ sockets' = sockets /\ asked' = asked
      BY <1>4 DEF list_messages
    <3> HIDE DEF h
    <3>4. QED BY <1>3, <3>1, <3>2, <3>3, AnsweredCalm
  <2>2. CASE k.conv \notin server.convs
    <3>1. /\ Answered(k, "failed", k.conv, <<>>)
          /\ page' = page /\ sockets' = sockets /\ asked' = asked
      BY <1>4, <2>2 DEF list_messages
    <3>2. QED BY <1>3, <3>1, AnsweredCalm
  <2>3. QED BY <2>1, <2>2
<1>5. CASE create_conversation(k)
  <2>1. PICK c \in Convs : Answered(k, "ok", c, <<>>)
    BY <1>5 DEF create_conversation
  <2>2. k.op = "create" /\ page' = page /\ sockets' = sockets /\ asked' = asked
    BY <1>5 DEF create_conversation
  <2>3. QED BY <1>3, <2>1, <2>2, AnsweredCalm
<1>6. CASE delete_conversation(k)
  <2>1. PICK pc \in Phases : Answered(k, pc, k.conv, <<>>)
    BY <1>3, <1>6 DEF delete_conversation
  <2>2. k.op = "delete" /\ page' = page /\ sockets' = sockets /\ asked' = asked
    BY <1>6 DEF delete_conversation
  <2>3. QED BY <1>3, <2>1, <2>2, AnsweredCalm
<1>7. CASE call_fails(k)
  <2>1. /\ Answered(k, "failed", k.conv, <<>>)
        /\ page' = page /\ sockets' = sockets /\ asked' = asked
    BY <1>7 DEF call_fails
  <2>2. QED BY <1>3, <2>1, AnsweredCalm
<1>8. CASE created(k)
  <2>1. /\ k.conv \in Convs /\ k.turn \in Questions /\ asked[k.turn] = None
        /\ Begin(k.conv, k.turn)
    BY <1>8, Beginners
  <2>2. page.messages = <<>> /\ calls' = {}
    BY <1>2, <1>8 DEF created
  <2>3. Belongs(page.messages, k.conv)
    BY <2>2 DEF Belongs
  <2>4. sockets = <<>> \/ Last(sockets).state = "closed"
    BY <1>8 DEF created
  <2>5. QED BY <1>2, <2>1, <2>2, <2>3, <2>4, BeginCalm
<1>9. CASE loaded(k)
  <2>1. /\ page'.messages = Shown(k.data) /\ page'.selected = page.selected
        /\ page'.streaming = page.streaming
    BY <1>1, <1>9 DEF loaded
  <2>2. calls' = {} /\ sockets' = sockets /\ asked' = asked /\ k.op = "list" /\ k.pc = "ok"
    BY <1>2, <1>9 DEF loaded
  <2>3. k.data \in Seq(Questions) /\ \A i \in DOMAIN k.data : asked[k.data[i]] = page.selected
    BY <1>2, <1>3, <2>2 DEF Asked
  <2>4. MessagesPair' /\ Belongs(page.messages, page.selected)'
    <3>1. PICK c : c = page.selected
      OBVIOUS
    <3>2. MessagesPair' /\ Belongs(page.messages, c)'
      BY <2>1, <2>2, <2>3, <3>1, HistoryIsShown
    <3>3. QED BY <2>1, <3>1, <3>2 DEF Belongs
  <2>5. page.selected # None
    BY <1>2, <2>2
  <2>6. OneCall'
    BY <2>1, <2>2, <2>4, <2>5 DEF OneCall
  <2>7. QED BY <1>2, <2>1, <2>2, <2>4, <2>6, QuietTurns
<1>10. CASE deleted(k)
  <2>1. /\ page'.selected = IF k.mine THEN None ELSE page.selected
        /\ page'.messages = IF k.mine THEN <<>> ELSE page.messages
        /\ page'.streaming = page.streaming
    BY <1>1, <1>10 DEF deleted
  <2>2. calls' = {} /\ sockets' = sockets /\ asked' = asked /\ k.op = "delete"
    BY <1>2, <1>10 DEF deleted
  <2>3. MessagesPair' /\ OneCall'
    <3>1. CASE k.mine
      <4>1. page'.messages = <<>> /\ page'.selected = None
        BY <2>1, <3>1
      <4>2. QED BY <2>2, <4>1 DEF MessagesPair, OneCall, Belongs
    <3>2. CASE ~k.mine
      <4>1. page'.messages = page.messages /\ page'.selected = page.selected
        BY <2>1, <3>2
      <4>2. MessagesPair'
        BY <1>2, <4>1 DEF MessagesPair
      <4>3. Belongs(page.messages, page.selected)'
        BY <1>2, <2>2, <4>1 DEF Belongs
      <4>4. QED BY <1>2, <2>2, <4>1, <4>2, <4>3 DEF OneCall
    <3>3. QED BY <3>1, <3>2
  <2>4. QED BY <1>2, <2>1, <2>2, <2>3, QuietTurns
<1>11. CASE rejected(k)
  <2>1. calls' = {} /\ page' = page /\ sockets' = sockets /\ asked' = asked /\ k.op # "list"
    BY <1>2, <1>11 DEF rejected
  <2>2. MessagesPair'
    BY <1>2, <2>1 DEF MessagesPair
  <2>3. Belongs(page.messages, page.selected)'
    BY <1>2, <2>1 DEF Belongs
  <2>4. OneCall'
    BY <1>2, <2>1, <2>3 DEF OneCall
  <2>5. QED BY <1>2, <2>1, <2>2, <2>4, QuietTurns
<1>12. QED BY <1>4, <1>5, <1>6, <1>7, <1>8, <1>9, <1>10, <1>11 DEF Rest

LEMMA CalmInit == Init => CalmInv
<1> SUFFICES ASSUME Init PROVE Calm
  BY DEF CalmInv, Calm
<1>1. /\ page.selected = None /\ page.messages = <<>> /\ ~page.streaming
      /\ sockets = <<>> /\ calls = {}
  BY DEF Init
<1>2. OthersAreClosed /\ AnswerIsComing
  BY <1>1 DEF OthersAreClosed, AnswerIsComing
<1>3. MessagesPair
  BY <1>1 DEF MessagesPair
<1>4. OneCall
  BY <1>1 DEF OneCall, Belongs
<1>5. QED BY <1>2, <1>3, <1>4 DEF Calm

LEMMA CalmNext == PageInv /\ CalmInv /\ [Next]_vars => CalmInv'
<1> SUFFICES ASSUME Parts, CalmInv, [Next]_vars, calm' PROVE Calm'
  BY PartsOfPageInv DEF CalmInv, Calm
<1>1. calm \in BOOLEAN
  BY DEF Parts
<1>2. CASE UNCHANGED vars
  <2>1. Calm /\ UNCHANGED <<page, calls, sockets, asked>>
    BY <1>2 DEF CalmInv, Calm, vars
  <2>2. OthersAreClosed' /\ MessagesPair' /\ OneCall'
    BY <2>1 DEF Calm, OthersAreClosed, MessagesPair, OneCall, Belongs
  <2>3. Last(sockets)' = Last(sockets) /\ Last(page.messages)' = Last(page.messages)
    BY <2>1 DEF Last
  <2>4. AnswerIsComing'
    BY <2>1, <2>3 DEF Calm, AnswerIsComing
  <2>5. QED BY <2>2, <2>4 DEF Calm
<1>3. CASE Click
  <2>1. calm
    BY <1>1, <1>3 DEF Click, selectConversation, deleteConversation, newChat, send_first, send, Ask, Act
  <2>2. QED BY <1>3, <2>1, ClicksAreCalm DEF CalmInv, Calm
<1>4. ASSUME NEW k \in calls, Rest(k) \/ call_fails(k)
      PROVE  Calm'
  <2>1. calm
    BY <1>1, <1>4 DEF Rest, call_fails, list_messages, create_conversation, delete_conversation,
       loaded, created, deleted, rejected
  <2>2. QED BY <1>4, <2>1, CallsAreCalm DEF CalmInv, Calm
<1>5. ASSUME NEW s \in DOMAIN sockets, Run(s) \/ error(s) \/ lost(s)
      PROVE  Calm'
  <2>1. calm
    BY <1>1, <1>5 DEF Run, opened, token, answer, refuse, onEvent, closed, error, lost
  <2>2. Calm
    BY <2>1 DEF CalmInv, Calm
  <2>3. QED BY <1>5, <2>2, ServerTurns, PageTurns DEF Run
<1>6. QED BY <1>2, <1>3, <1>4, <1>5 DEF Next

(* A user who waits for calls to return, and asks in another conversation   *)
(* only when the socket of the one before is gone, sees under each question *)
(* the answer to it, and at rest the conversation that is selected.         *)
THEOREM CalmPagesAreRight == Spec => []CalmPageIsRight
<1>1. PageInv /\ CalmInv => CalmPageIsRight
  <2> SUFFICES ASSUME Parts, Calm PROVE StreamIsShown /\ AnswersMatch /\ ShownIsSelected
    BY PartsOfPageInv DEF CalmInv, Calm, CalmPageIsRight
  <2>1. StreamIsShown
    BY DEF Calm, AnswerIsComing, StreamIsShown
  <2>2. AnswersMatch
    <3>1. page.messages \in Messages
      BY DEF Parts, PageType
    <3>2. ASSUME NEW i \in DOMAIN page.messages, page.messages[i].role = "assistant"
          PROVE  i > 1 /\ page.messages[i].text \in {<<>>, page.messages[i - 1].text}
      <4>1. i % 2 # 1 /\ page.messages[i].text \in {<<>>, page.messages[i - 1].text}
        BY <3>2 DEF Calm, MessagesPair
      <4>2. i \in Nat /\ i >= 1
        BY <3>1 DEF Messages
      <4>3. QED BY <4>1, <4>2
    <3>3. QED BY <3>2 DEF AnswersMatch
  <2>3. ShownIsSelected
    <3>1. ASSUME calls = {} PROVE Belongs(page.messages, page.selected)
      BY <3>1 DEF Calm, OneCall
    <3>2. QED BY <3>1 DEF ShownIsSelected, Belongs, ToSet
  <2>4. QED BY <2>1, <2>2, <2>3
<1>2. Init => PageInv /\ CalmInv
  BY PageInit, CalmInit
<1>3. PageInv /\ CalmInv /\ [Next]_vars => PageInv' /\ CalmInv'
  BY PageNext, CalmNext
<1>4. QED BY <1>1, <1>2, <1>3, PTL DEF Spec
=============================================================================
