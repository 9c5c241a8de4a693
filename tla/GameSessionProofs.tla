------------------------- MODULE GameSessionProofs -------------------------
(***************************************************************************)
(* Proofs about GameSession, for any number of players, gateways,          *)
(* connections, logins and messages of clients.                            *)
(***************************************************************************)
EXTENDS GameSession, SequenceTheorems, FiniteSetTheorems, TLAPS

-----------------------------------------------------------------------------
(* The inductive invariant. *)

(* The messages in a queue, and that one of them is there once at most. *)
Msgs(q, s) == {q[s][k] : k \in DOMAIN q[s]}
Once(q, s, m) ==
  \A k, l \in DOMAIN q[s] : q[s][k] = m /\ q[s][l] = m => k = l

LoginMsg(i) == [type |-> "login", login |-> i]
ReqMsg(i)   == [type |-> "req_login", login |-> i]
NewHandler(i) == [at |-> "new_service", login |-> i, victim |-> None, by |-> None]
Made(i)     == attempt[i] # None

(* Whatever names a login attempt names one that was made. *)
QueueMade ==
  \A s \in Service : \A m \in Msgs(queue, s) :
    /\ m.type \in {"login", "req_login", "sure_agent"} => Made(m.login)
    /\ m.type = "reconnect" => Made(m.key)

MadeHandler(c) ==
  /\ c.login # None => Made(c.login)
  /\ c.victim # None => Made(c.victim)
  /\ c.at # "agent_kick" => c.login # None
  /\ c.at # "new_service" => c.victim # None
  /\ c.at = "new_service" => c = NewHandler(c.login)

HandlerMade == \A c \in co : MadeHandler(c)

MadeInv ==
  /\ \A i \in Attempt :
       \/ Made(i)
       \/ agent[i] = "none" /\ timers[i] = 0 /\ login[i] \notin {"started", "granted"}
  /\ \A i \in Attempt : Made(i) => sock[FdOf(i)] # "new"
  /\ \A g \in Gate, p \in Player : players[g][p] # None => Made(players[g][p])
  /\ \A p \in Player : mgr_players[p] # None => Made(mgr_players[p])
  /\ QueueMade /\ HandlerMade

TypeInv == TypeOK /\ MadeInv

(* No agent has been made for i, and no handler is at it. *)
Fresh(i) == agent[i] = "none" /\ \A c \in co : c.login # i

(* An attempt asks agent_mgr once: until then it is in one place. *)
RequestInv ==
  \A i \in Attempt :
    /\ \A s \in Service :
         /\ Once(queue, s, LoginMsg(i))
         /\ LoginMsg(i) \in Msgs(queue, s) =>
              /\ s = GateOf(i) /\ login[i] # "started"
              /\ Fresh(i) /\ ReqMsg(i) \notin Msgs(queue, AgentMgr)
    /\ login[i] = "started" => Fresh(i) /\ ReqMsg(i) \notin Msgs(queue, AgentMgr)
    /\ Once(queue, AgentMgr, ReqMsg(i))
    /\ ReqMsg(i) \in Msgs(queue, AgentMgr) => Fresh(i)

(* A handler that waits has the player's place in the table to itself. *)
HandlerInv ==
  /\ \A c \in co :
       /\ c.at = "new_service" =>
            /\ mgr_players[PlayerOf(c.login)] = c.login
            /\ status[c.login] = "LOGIN"
            /\ agent[c.login] \in {"loading", "running"}
       /\ c.at # "new_service" =>
            /\ mgr_players[PlayerOf(c.victim)] = c.victim
            /\ status[c.victim] = "LOGOUT"
            /\ c.login # None => agent[c.login] = "none" /\ PlayerOf(c.login) = PlayerOf(c.victim)
       /\ c.at = "agent_kick" =>
            /\ agent[c.victim] \in {"running", "saving", "saved"}
            /\ [type |-> "exit"] \notin Msgs(queue, c.victim)
       /\ c.at = "gate_kick" => agent[c.victim] \in {"saved", "gone"}
  /\ \A c, d \in co : c.login # None /\ c.login = d.login => c = d
  /\ \A c, d \in co : c.victim # None /\ c.victim = d.victim => c = d

(* A player in the table is attended to. *)
TableInv ==
  \A p \in Player : LET i == mgr_players[p] IN
    i # None =>
      /\ PlayerOf(i) = p
      /\ status[i] \in {"LOGIN", "GAME", "LOGOUT"}
      /\ status[i] = "LOGIN" => NewHandler(i) \in co
      /\ status[i] = "GAME" => agent[i] = "running"
      /\ status[i] = "LOGOUT" => \E c \in co : c.victim = i

(* An agent with data not saved is the one in the table, and is told to    *)
(* stop only after LOGOUT.                                                 *)
AgentInv ==
  \A i \in Attempt :
    /\ HasData(i) => mgr_players[PlayerOf(i)] = i
    /\ status[i] = "none" <=> agent[i] = "none"
    /\ status[i] # "LOGOUT" => \A m \in Msgs(queue, i) : m.type = "client"

(* What an answer says has happened. *)
AnswerInv ==
  /\ \A m \in Msgs(queue, AgentMgr) :
       m.type = "resume" =>
         /\ m.co.at = "agent_kick" =>
              m.co.victim # None /\ agent[m.co.victim] \in {"saved", "gone"}
         /\ m.co.at = "new_service" =>
              m.co.login # None /\ agent[m.co.login] \notin {"none", "loading"}
  /\ \A s \in Gate : \A m \in Msgs(queue, s) :
       m.type = "kick" => m.co = None \/ m.co.at = "gate_kick"
  /\ \A fd \in Fd : \A k \in DOMAIN closing[fd] :
       closing[fd][k] = None \/ closing[fd][k].at = "gate_kick"

SessionInv == RequestInv /\ HandlerInv /\ TableInv /\ AgentInv /\ AnswerInv
-----------------------------------------------------------------------------
(* Queues. *)

(* What q2 has that q has not is in new, a set of <<service, message>>,    *)
(* and nothing else is there more often than before.                       *)
Grows(q, q2, new) ==
  /\ q2 \in [Service -> Seq(Message)]
  /\ \A s \in Service :
       /\ \A m \in Msgs(q2, s) : m \in Msgs(q, s) \/ <<s, m>> \in new
       /\ \A m \in Message : <<s, m>> \notin new /\ Once(q, s, m) => Once(q2, s, m)

(* Posting nothing changes nothing. *)
LEMMA PostNothing ==
  ASSUME NEW q \in [Service -> Seq(Message)], NEW s
  PROVE  Post(q, s, << >>) = q
<1>1. \A t \in Service : t = s => q[t] \o << >> = q[t]
  OBVIOUS
<1> QED
  BY <1>1 DEF Post

(* Posting a message adds it, at the end. *)
LEMMA PostOne ==
  ASSUME NEW q \in [Service -> Seq(Message)], NEW s, NEW m \in Message
  PROVE  Grows(q, Post(q, s, <<m>>), {<<s, m>>})
<1> DEFINE r == Post(q, s, <<m>>)
<1>1. r \in [Service -> Seq(Message)]
  <2>1. ASSUME NEW t \in Service PROVE q[t] \o <<m>> \in Seq(Message)
    <3>1. q[t] \in Seq(Message) /\ <<m>> \in Seq(Message)
      OBVIOUS
    <3> QED
      BY <3>1
  <2> QED
    BY <2>1 DEF Post
<1>2. ASSUME NEW t \in Service, t # s PROVE r[t] = q[t]
  BY <1>2 DEF Post
<1>3. ASSUME NEW t \in Service, t = s
      PROVE  /\ Len(q[t]) \in Nat
             /\ DOMAIN q[t] = 1 .. Len(q[t]) /\ DOMAIN r[t] = 1 .. Len(q[t]) + 1
             /\ \A k \in 1 .. Len(q[t]) : r[t][k] = q[t][k]
             /\ r[t][Len(q[t]) + 1] = m
  <2>1. r[t] = q[t] \o <<m>> /\ q[t] \in Seq(Message)
    BY <1>3 DEF Post
  <2> QED
    BY <2>1
<1> HIDE DEF r
<1>4. ASSUME NEW t \in Service, NEW n \in Msgs(r, t)
      PROVE  n \in Msgs(q, t) \/ <<t, n>> \in {<<s, m>>}
  <2>1. CASE t # s
    BY <1>2, <2>1 DEF Msgs
  <2>2. CASE t = s
    <3>1. PICK k \in 1 .. Len(q[t]) + 1 : n = r[t][k]
      BY <1>3, <2>2 DEF Msgs
    <3>2. CASE k = Len(q[t]) + 1
      BY <1>3, <2>2, <3>1, <3>2
    <3>3. CASE k \in 1 .. Len(q[t])
      BY <1>3, <2>2, <3>1, <3>3 DEF Msgs
    <3> QED
      BY <1>3, <2>2, <3>1, <3>2, <3>3
  <2> QED
    BY <2>1, <2>2
<1>5. ASSUME NEW t \in Service, NEW n \in Message, <<t, n>> \notin {<<s, m>>}, Once(q, t, n)
      PROVE  Once(r, t, n)
  <2>1. CASE t # s
    BY <1>2, <1>5, <2>1 DEF Once
  <2>2. CASE t = s
    <3>1. n # m
      BY <1>5, <2>2
    <3>2. \A k \in DOMAIN r[t] : r[t][k] = n => k \in DOMAIN q[t] /\ q[t][k] = n
      BY <1>3, <2>2, <3>1
    <3> QED
      BY <1>5, <3>2 DEF Once
  <2> QED
    BY <2>1, <2>2
<1> QED
  BY <1>1, <1>4, <1>5 DEF Grows, r

(* A message that was not there is there once. *)
LEMMA PostFresh ==
  ASSUME NEW q \in [Service -> Seq(Message)], NEW s \in Service, NEW m,
         m \notin Msgs(q, s)
  PROVE  Once(Post(q, s, <<m>>), s, m)
<1> DEFINE r == Post(q, s, <<m>>)
<1>1. /\ Len(q[s]) \in Nat /\ DOMAIN q[s] = 1 .. Len(q[s])
      /\ DOMAIN r[s] = 1 .. Len(q[s]) + 1
      /\ \A k \in 1 .. Len(q[s]) : r[s][k] = q[s][k]
  <2>1. r[s] = q[s] \o <<m>> /\ q[s] \in Seq(Message)
    BY DEF Post
  <2> QED
    BY <2>1
<1> HIDE DEF r
<1>2. \A k \in DOMAIN r[s] : r[s][k] = m => k = Len(q[s]) + 1
  BY <1>1 DEF Msgs
<1>3. Once(r, s, m)
  BY <1>2 DEF Once
<1> QED
  BY <1>3 DEF r

(* Taking the first message adds none, and it is gone if it was there once.*)
LEMMA TakenQueue ==
  ASSUME queue \in [Service -> Seq(Message)],
         NEW s \in Service, queue[s] # << >>
  PROVE  /\ Grows(queue, Taken(s), {})
         /\ Head(queue[s]) \in Message /\ Head(queue[s]) \in Msgs(queue, s)
         /\ Once(queue, s, Head(queue[s])) => Head(queue[s]) \notin Msgs(Taken(s), s)
<1> DEFINE r == Taken(s)
           q == queue[s]
<1>1. /\ q \in Seq(Message) /\ Head(q) = q[1] /\ Head(q) \in Message
      /\ Tail(q) \in Seq(Message)
      /\ Len(q) \in Nat \ {0} /\ DOMAIN q = 1 .. Len(q) /\ DOMAIN Tail(q) = 1 .. Len(q) - 1
      /\ \A k \in 1 .. Len(q) - 1 : Tail(q)[k] = q[k + 1]
  OBVIOUS
<1>2. r \in [Service -> Seq(Message)] /\ r[s] = Tail(q)
  BY <1>1 DEF Taken
<1>3. \A t \in Service : t # s => r[t] = queue[t]
  BY DEF Taken
<1>4. 1 \in DOMAIN q /\ \A k \in DOMAIN Tail(q) : k + 1 \in DOMAIN q /\ k + 1 # 1
  BY <1>1
<1> HIDE DEF r
<1>5. Head(q) \in Msgs(queue, s)
  BY <1>1, <1>4 DEF Msgs
<1>6. ASSUME NEW t \in Service, NEW n \in Msgs(r, t) PROVE n \in Msgs(queue, t)
  <2>1. CASE t # s
    BY <1>3, <2>1 DEF Msgs
  <2>2. CASE t = s
    <3>1. PICK k \in DOMAIN Tail(q) : n = Tail(q)[k]
      BY <1>2, <2>2 DEF Msgs
    <3>2. k + 1 \in DOMAIN queue[t] /\ n = queue[t][k + 1]
      BY <1>1, <1>4, <2>2, <3>1
    <3> QED
      BY <3>2 DEF Msgs
  <2> QED
    BY <2>1, <2>2
<1>7. ASSUME NEW t \in Service, NEW n, Once(queue, t, n) PROVE Once(r, t, n)
  <2>1. CASE t # s
    BY <1>3, <1>7, <2>1 DEF Once
  <2>2. CASE t = s
    <3> SUFFICES ASSUME NEW k \in DOMAIN Tail(q), NEW l \in DOMAIN Tail(q),
                        Tail(q)[k] = n, Tail(q)[l] = n
                 PROVE  k = l
      BY <1>2, <2>2 DEF Once
    <3>1. /\ k + 1 \in DOMAIN q /\ q[k + 1] = n
          /\ l + 1 \in DOMAIN q /\ q[l + 1] = n
      BY <1>1, <1>4
    <3>2. k + 1 = l + 1
      BY <1>7, <2>2, <3>1 DEF Once
    <3> QED
      BY <1>1, <3>2
  <2> QED
    BY <2>1, <2>2
<1>8. ASSUME Once(queue, s, Head(q)) PROVE Head(q) \notin Msgs(r, s)
  BY <1>1, <1>2, <1>4, <1>8 DEF Once, Msgs
<1>9. Grows(queue, r, {})
  BY <1>2, <1>6, <1>7 DEF Grows
<1> QED
  BY <1>1, <1>5, <1>8, <1>9 DEF r

(* One change of the queues after another. *)
LEMMA GrowsTwice ==
  ASSUME NEW q, NEW r, NEW z, NEW A, NEW B, Grows(q, r, A), Grows(r, z, B)
  PROVE  Grows(q, z, A \cup B)
BY DEF Grows

(* Nothing is said of what stays. *)
LEMMA GrowsNot ==
  ASSUME queue \in [Service -> Seq(Message)]
  PROVE  Grows(queue, queue, {})
BY DEF Grows

(* A service that exits throws its messages away. *)
LEMMA EmptiedQueue ==
  ASSUME queue \in [Service -> Seq(Message)], NEW s \in Service,
         queue' = [queue EXCEPT ![s] = << >>]
  PROVE  Grows(queue, queue', {}) /\ Msgs(queue', s) = {}
<1>1. << >> \in Seq(Message) /\ DOMAIN << >> = {}
  OBVIOUS
<1>2. queue' \in [Service -> Seq(Message)]
  BY <1>1
<1>3. \A t \in Service : queue'[t] = IF t = s THEN << >> ELSE queue[t]
  OBVIOUS
<1> QED
  BY <1>1, <1>2, <1>3 DEF Grows, Msgs, Once

(* A message is taken and another one posted. *)
LEMMA TakenPost ==
  ASSUME queue \in [Service -> Seq(Message)],
         NEW s \in Service, queue[s] # << >>, NEW t, NEW m \in Message
  PROVE  Grows(queue, Post(Taken(s), t, <<m>>), {<<t, m>>})
<1>1. Grows(queue, Taken(s), {})
  BY TakenQueue
<1>2. Taken(s) \in [Service -> Seq(Message)]
  BY <1>1 DEF Grows
<1>3. Grows(Taken(s), Post(Taken(s), t, <<m>>), {<<t, m>>})
  BY <1>2, PostOne
<1>4. Grows(queue, Post(Taken(s), t, <<m>>), {} \cup {<<t, m>>})
  BY <1>1, <1>3, GrowsTwice
<1> QED
  BY <1>4

(* Two messages are posted together. *)
LEMMA PostTwo ==
  ASSUME NEW q \in [Service -> Seq(Message)], NEW s, NEW m \in Message, NEW n \in Message
  PROVE  Grows(q, Post(q, s, <<m, n>>), {<<s, m>>, <<s, n>>})
<1> DEFINE r == Post(q, s, <<m>>)
<1>1. Grows(q, r, {<<s, m>>})
  BY PostOne
<1>2. r \in [Service -> Seq(Message)]
  BY <1>1 DEF Grows
<1>3. Post(q, s, <<m, n>>) = Post(r, s, <<n>>)
  <2>1. ASSUME NEW x \in Seq(Message)
        PROVE  x \o <<m, n>> = (x \o <<m>>) \o <<n>>
    <3> DEFINE y == x \o <<m, n>>
               z == (x \o <<m>>) \o <<n>>
    <3>1. y \in Seq(Message) /\ z \in Seq(Message) /\ Len(y) = Len(x) + 2 /\ Len(z) = Len(x) + 2
      OBVIOUS
    <3>2. \A k \in 1 .. Len(x) + 2 : y[k] = z[k]
      OBVIOUS
    <3> HIDE DEF y, z
    <3>3. y = z
      BY <3>1, <3>2, SeqEqual
    <3> QED
      BY <3>3 DEF y, z
  <2> QED
    BY <2>1 DEF Post
<1>4. Grows(r, Post(r, s, <<n>>), {<<s, n>>})
  BY <1>2, PostOne
<1> HIDE DEF r
<1>5. Grows(q, Post(r, s, <<n>>), {<<s, m>>} \cup {<<s, n>>})
  BY <1>1, <1>4, GrowsTwice
<1>6. {<<s, m>>} \cup {<<s, n>>} = {<<s, m>>, <<s, n>>}
  OBVIOUS
<1> QED
  BY <1>3, <1>5, <1>6

Answer(c) == [type |-> "resume", co |-> c]

(* An answer is posted, if one is asked for. *)
LEMMA PostResume ==
  ASSUME NEW q \in [Service -> Seq(Message)], NEW s, NEW c \in Coroutine \cup {None}
  PROVE  Grows(q, Post(q, s, Resume(c)), IF c = None THEN {} ELSE {<<s, Answer(c)>>})
<1>1. CASE c = None
  <2>1. Post(q, s, Resume(c)) = q
    BY <1>1, PostNothing DEF Resume
  <2> QED
    BY <1>1, <2>1 DEF Grows
<1>2. CASE c # None
  <2>1. Resume(c) = <<Answer(c)>> /\ Answer(c) \in Message
    BY <1>2 DEF Resume, Answer, Message
  <2> QED
    BY <1>2, <2>1, PostOne
<1> QED
  BY <1>1, <1>2

(* Everybody who waits in close and must answer does. *)
LEMMA WokenQueue ==
  ASSUME NEW q \in [Service -> Seq(Message)], NEW fd,
         closing[fd] \in Seq(Coroutine \cup {None})
  PROVE  Grows(q, Woken(q, fd), {<<AgentMgr, Answer(closing[fd][k])>> :
                 k \in {k \in DOMAIN closing[fd] : closing[fd][k] # None}})
<1> DEFINE answer(k) == IF k \in DOMAIN closing[fd] THEN Resume(closing[fd][k]) ELSE << >>
           New == {<<AgentMgr, Answer(closing[fd][k])>> :
                     k \in {k \in DOMAIN closing[fd] : closing[fd][k] # None}}
<1>1. ASSUME NEW k \in {1, 2}, NEW r \in [Service -> Seq(Message)]
      PROVE  Grows(r, Post(r, AgentMgr, answer(k)), New)
  <2>1. CASE k \notin DOMAIN closing[fd]
    <3>1. Post(r, AgentMgr, answer(k)) = r
      BY <2>1, PostNothing
    <3> QED
      BY <3>1 DEF Grows
  <2>2. CASE k \in DOMAIN closing[fd]
    <3>1. closing[fd][k] \in Coroutine \cup {None} /\ answer(k) = Resume(closing[fd][k])
      BY <2>2
    <3>2. Grows(r, Post(r, AgentMgr, answer(k)),
               IF closing[fd][k] = None THEN {} ELSE {<<AgentMgr, Answer(closing[fd][k])>>})
      BY <3>1, PostResume
    <3>3. (IF closing[fd][k] = None THEN {} ELSE {<<AgentMgr, Answer(closing[fd][k])>>}) \subseteq New
      BY <2>2
    <3> HIDE DEF answer, New
    <3> QED
      BY <3>2, <3>3 DEF Grows
  <2> QED
    BY <2>1, <2>2
<1>2. answer(1) \in Seq(Message) /\ answer(2) \in Seq(Message)
  <2>1. ASSUME NEW k \in {1, 2} PROVE answer(k) \in Seq(Message)
    <3>1. CASE k \notin DOMAIN closing[fd]
      BY <3>1
    <3>2. CASE k \in DOMAIN closing[fd]
      <4>1. closing[fd][k] \in Coroutine \cup {None} /\ answer(k) = Resume(closing[fd][k])
        BY <3>2
      <4>2. closing[fd][k] # None => Answer(closing[fd][k]) \in Message
        BY <4>1 DEF Answer, Message
      <4> HIDE DEF answer
      <4> QED
        BY <4>1, <4>2 DEF Resume, Answer
    <3> QED
      BY <3>1, <3>2
  <2> HIDE DEF answer
  <2> QED
    BY <2>1
<1>3. Woken(q, fd) = Post(q, AgentMgr, answer(1) \o answer(2))
  BY DEF Woken
<1> HIDE DEF answer, New
<1>4. Post(q, AgentMgr, answer(1) \o answer(2)) = Post(Post(q, AgentMgr, answer(1)), AgentMgr, answer(2))
  <2>1. ASSUME NEW x \in Seq(Message)
        PROVE  x \o (answer(1) \o answer(2)) = (x \o answer(1)) \o answer(2)
    BY <1>2
  <2>2. AgentMgr \in Service
    BY DEF Service
  <2>3. q[AgentMgr] \o (answer(1) \o answer(2)) = (q[AgentMgr] \o answer(1)) \o answer(2)
    BY <2>1, <2>2
  <2> QED
    BY <2>2, <2>3 DEF Post
<1>5. Grows(q, Post(q, AgentMgr, answer(1)), New)
  BY <1>1
<1>6. Post(q, AgentMgr, answer(1)) \in [Service -> Seq(Message)]
  BY <1>5 DEF Grows
<1>7. Grows(Post(q, AgentMgr, answer(1)), Woken(q, fd), New)
  BY <1>1, <1>3, <1>4, <1>6
<1>8. Grows(q, Woken(q, fd), New \cup New)
  BY <1>5, <1>7, GrowsTwice
<1> QED
  BY <1>8 DEF New

-----------------------------------------------------------------------------
(* Types. *)

(* What a message carries. *)
LEMMA MessageFields ==
  ASSUME NEW m \in Message
  PROVE  /\ m.type \in {"login", "req_login", "sure_agent"} => m.login \in Attempt
         /\ m.type \in {"work", "close", "reconnect"} => m.fd \in Fd
         /\ m.type = "reconnect" => m.key \in Attempt
         /\ m.type \in {"send", "kick", "req_kick"} => m.player \in Player
         /\ m.type = "kick" => m.co \in Coroutine \cup {None}
         /\ m.type \in {"agent_kick", "resume"} => m.co \in Coroutine
         /\ m.type = "client" => m.gate \in Gate
         /\ m.type = "req_kick" => m.by \in Attempt \cup {None}
BY DEF Message

(* The initial state is typed. *)
LEMMA TypeInit == Init => TypeInv
<1> SUFFICES ASSUME Init PROVE TypeInv
  OBVIOUS
<1>1. 0 \in 0 .. MaxData /\ << >> \in Seq(Message) /\ << >> \in Seq(Coroutine \cup {None})
  BY BoundAssumption
<1>2. TypeOK
  BY <1>1 DEF Init, TypeOK, LoginState
<1>3. MadeInv
  <2>1. \A s \in Service : Msgs(queue, s) = {}
    BY DEF Init, Msgs
  <2> QED
    <3>1. QueueMade /\ HandlerMade
      BY <2>1 DEF Init, QueueMade, HandlerMade
    <3>2. \A i \in Attempt : ~Made(i) /\ agent[i] = "none" /\ timers[i] = 0 /\ login[i] = "none"
      BY DEF Init, Made
    <3>3. /\ \A g \in Gate, p \in Player : players[g][p] = None
          /\ \A p \in Player : mgr_players[p] = None
      BY DEF Init
    <3> QED
      BY <3>1, <3>2, <3>3 DEF MadeInv
<1> QED
  BY <1>2, <1>3 DEF TypeInv
(* What is in a queue is a message. *)
LEMMA QueuedTyped ==
  ASSUME TypeOK, NEW s \in Service, NEW m \in Msgs(queue, s)
  PROVE  m \in Message
<1>1. queue[s] \in Seq(Message)
  BY DEF TypeOK
<1>2. PICK k \in DOMAIN queue[s] : m = queue[s][k]
  BY DEF Msgs
<1> QED
  BY <1>1, <1>2

(* Attempts stay made, and messages that name only such keep QueueMade. *)
LEMMA QueueStaysMade ==
  ASSUME QueueMade, TypeOK, NEW new, Grows(queue, queue', new),
         \A i \in Attempt : attempt[i] # None => attempt'[i] # None,
         \A x \in new :
           /\ x[2].type \in {"login", "req_login", "sure_agent"} => attempt'[x[2].login] # None
           /\ x[2].type = "reconnect" => attempt'[x[2].key] # None
  PROVE  QueueMade'
<1> SUFFICES ASSUME NEW s \in Service, NEW m \in Msgs(queue', s)
             PROVE  /\ m.type \in {"login", "req_login", "sure_agent"} => attempt'[m.login] # None
                    /\ m.type = "reconnect" => attempt'[m.key] # None
  BY DEF QueueMade, Made
<1>1. CASE m \in Msgs(queue, s)
  <2>1. m \in Message
    BY <1>1, QueuedTyped
  <2> QED
    BY <1>1, <2>1, MessageFields DEF QueueMade, Made
<1>2. CASE <<s, m>> \in new
  <2>1. <<s, m>>[2] = m
    OBVIOUS
  <2> QED
    BY <1>2, <2>1
<1> QED
  BY <1>1, <1>2 DEF Grows

(* The same handlers name the same attempts. *)
LEMMA HandlersStayMade ==
  HandlerMade /\ co' = co /\ attempt' = attempt => HandlerMade'
BY DEF HandlerMade, MadeHandler, Made

(* What clients do keeps the types. *)
LEMMA ClientTypes ==
  ASSUME TypeInv, NEW fd \in Fd,
         \/ \E g \in Gate : Connect(fd, g)
         \/ \E p \in Player : ClientLogin(fd, p)
         \/ \E i \in Attempt : ClientReconnect(fd, i)
         \/ ClientWork(fd) \/ ClientClose(fd)
  PROVE  TypeInv'
<1> USE DEF TypeInv, cvars, gvars, lvars, mvars
<1>0. queue \in [Service -> Seq(Message)]
  BY DEF TypeOK
<1>1. ASSUME NEW g \in Gate, Connect(fd, g) PROVE TypeInv'
  <2>1. TypeOK'
    BY <1>1 DEF TypeOK, Connect
  <2>2. QueueMade' /\ HandlerMade'
    BY <1>1 DEF Connect, MadeInv, QueueMade, HandlerMade, MadeHandler, Made
  <2> QED
    BY <1>1, <2>1, <2>2 DEF TypeOK, Connect, MadeInv, Made, FdOf
<1>2. ASSUME NEW p \in Player, ClientLogin(fd, p) PROVE TypeInv'
  <2>1. PICK i \in Attempt :
          /\ attempt[i] = None
          /\ attempt' = [attempt EXCEPT ![i] = [fd |-> fd, player |-> p]]
          /\ queue' = Post(queue, port[fd], <<LoginMsg(i)>>)
    BY <1>2 DEF ClientLogin, LoginMsg
  <2>2. LoginMsg(i) \in Message
    BY DEF Message, LoginMsg
  <2>3. Grows(queue, queue', {<<port[fd], LoginMsg(i)>>})
    BY <1>0, <2>1, <2>2, PostOne
  <2>4. TypeOK'
    BY <1>2, <2>1, <2>3 DEF TypeOK, ClientLogin, Grows
  <2>5. /\ \A j \in Attempt : attempt[j] # None => attempt'[j] # None /\ attempt'[j] = attempt[j]
        /\ attempt'[i] # None /\ attempt'[i].fd = fd /\ attempt[i] = None
    BY <2>1, NameAssumption DEF TypeOK
  <2>6. QueueMade'
    BY <2>3, <2>5, QueueStaysMade DEF MadeInv, LoginMsg
  <2>7. HandlerMade'
    BY <1>2, <2>5 DEF ClientLogin, MadeInv, HandlerMade, MadeHandler, TypeOK, Coroutine, Made
  <2>8. \A j \in Attempt : attempt'[j] # None => sock'[attempt'[j].fd] # "new"
    <3>1. ASSUME NEW j \in Attempt, j # i, attempt'[j] # None
          PROVE  attempt[j] # None /\ attempt'[j] = attempt[j]
      BY <2>1, <3>1 DEF TypeOK
    <3> QED
      BY <1>2, <2>5, <3>1 DEF ClientLogin, MadeInv, FdOf, Made
  <2>9. /\ \A j \in Attempt : \/ attempt'[j] # None
                              \/ agent'[j] = "none" /\ timers'[j] = 0
                                 /\ login'[j] \notin {"started", "granted"}
        /\ \A g \in Gate, q \in Player : players'[g][q] # None => attempt'[players'[g][q]] # None
        /\ \A q \in Player : mgr_players'[q] # None => attempt'[mgr_players'[q]] # None
    BY <1>2, <2>5 DEF ClientLogin, MadeInv, TypeOK, Made
  <2> QED
    BY <2>4, <2>6, <2>7, <2>8, <2>9 DEF MadeInv, FdOf, Made
<1>3. ASSUME NEW m \in Message, ClientSend(fd, m), m.type \in {"work", "reconnect"},
             m.type = "reconnect" => Made(m.key)
      PROVE  TypeInv'
  <2>1. Grows(queue, queue', {<<port[fd], m>>})
    BY <1>0, <1>3, PostOne DEF ClientSend
  <2>2. TypeOK'
    <3>1. sent' \in 0 .. MaxData
      BY <1>3, BoundAssumption DEF TypeOK, ClientSend
    <3> QED
      BY <1>3, <2>1, <3>1 DEF TypeOK, ClientSend, Grows
  <2>3. QueueMade'
    BY <1>3, <2>1, QueueStaysMade DEF ClientSend, MadeInv, Made
  <2>4. HandlerMade'
    BY <1>3, HandlersStayMade DEF ClientSend, MadeInv
  <2> QED
    BY <1>3, <2>2, <2>3, <2>4 DEF ClientSend, MadeInv, Made, FdOf
<1>4. ASSUME NEW i \in Attempt, ClientReconnect(fd, i) PROVE TypeInv'
  <2> DEFINE m == [type |-> "reconnect", fd |-> fd, key |-> i]
  <2>1. m \in Message /\ m.type = "reconnect" /\ m.key = i
    BY DEF Message
  <2>2. ClientSend(fd, m) /\ Made(i)
    BY <1>4 DEF ClientReconnect, Made
  <2> HIDE DEF m
  <2> QED
    BY <1>3, <2>1, <2>2
<1>5. ASSUME ClientWork(fd) PROVE TypeInv'
  <2> DEFINE m == [type |-> "work", fd |-> fd]
  <2>1. m \in Message /\ m.type = "work"
    BY DEF Message
  <2>2. ClientSend(fd, m)
    BY <1>5 DEF ClientWork
  <2> HIDE DEF m
  <2> QED
    BY <1>3, <2>1, <2>2
<1>6. ASSUME ClientClose(fd) PROVE TypeInv'
  <2> DEFINE m == [type |-> "close", fd |-> fd]
  <2>1. m \in Message /\ m.type = "close"
    BY DEF Message
  <2>2. Grows(queue, queue', {<<port[fd], m>>})
    BY <1>0, <1>6, <2>1, PostOne DEF ClientClose
  <2> HIDE DEF m
  <2>3. TypeOK'
    BY <1>6, <2>2 DEF TypeOK, ClientClose, Grows
  <2>4. QueueMade'
    BY <1>6, <2>1, <2>2, QueueStaysMade DEF ClientClose, MadeInv, Made
  <2>5. HandlerMade'
    BY <1>6, HandlersStayMade DEF ClientClose, MadeInv
  <2>6. \A j \in Attempt : attempt'[j] # None => sock'[attempt'[j].fd] # "new"
    BY <1>6 DEF ClientClose, MadeInv, Made, FdOf, TypeOK
  <2> QED
    BY <1>6, <2>3, <2>4, <2>5, <2>6 DEF ClientClose, MadeInv, Made, FdOf
<1> QED
  BY <1>1, <1>2, <1>4, <1>5, <1>6

(* The first message of a queue is a message, and names made attempts. *)
LEMMA HeadMade ==
  ASSUME TypeInv, NEW s \in Service, queue[s] # << >>
  PROVE  /\ Head(queue[s]) \in Message /\ Head(queue[s]) \in Msgs(queue, s)
         /\ Head(queue[s]).type \in {"login", "req_login", "sure_agent"} =>
              attempt[Head(queue[s]).login] # None
         /\ Head(queue[s]).type = "reconnect" => attempt[Head(queue[s]).key] # None
<1>1. queue \in [Service -> Seq(Message)]
  BY DEF TypeInv, TypeOK
<1>2. Head(queue[s]) \in Message /\ Head(queue[s]) \in Msgs(queue, s)
  BY <1>1, TakenQueue
<1> QED
  BY <1>2 DEF TypeInv, MadeInv, QueueMade, Made

(* A step that makes no attempt, and puts no other one to work. *)
LEMMA StaysMade ==
  ASSUME TypeInv, TypeOK', attempt' = attempt, HandlerMade',
         NEW new, Grows(queue, queue', new),
         \A x \in new : x[2].type \in {"login", "req_login", "sure_agent"} =>
                           attempt[x[2].login] # None,
         \A x \in new : x[2].type # "reconnect",
         \A i \in Attempt : attempt[i] = None => agent'[i] = agent[i],
         \A i \in Attempt : attempt[i] = None => timers'[i] \in {timers[i], timers[i] - 1},
         \A i \in Attempt : attempt[i] = None => login'[i] \in {login[i], "fail"},
         \A fd \in Fd : sock[fd] # "new" => sock'[fd] # "new",
         \A g \in Gate, p \in Player :
           players'[g][p] # None => attempt[players'[g][p]] # None,
         \A p \in Player : mgr_players'[p] # None => attempt[mgr_players'[p]] # None
  PROVE  TypeInv'
<1>1. QueueMade'
  BY QueueStaysMade DEF TypeInv, MadeInv
<1>2. ASSUME NEW i \in Attempt, attempt[i] = None
      PROVE  agent'[i] = "none" /\ timers'[i] = 0 /\ login'[i] \notin {"started", "granted"}
  <2>1. agent[i] = "none" /\ timers[i] = 0 /\ login[i] \notin {"started", "granted"}
    BY <1>2 DEF TypeInv, MadeInv, Made
  <2>2. timers'[i] \in Nat
    BY DEF TypeOK
  <2>3. timers'[i] \in {timers[i], timers[i] - 1}
    BY <1>2
  <2>4. timers'[i] = 0
    BY <2>1, <2>2, <2>3
  <2> QED
    BY <1>2, <2>1, <2>4
<1>3. \A i \in Attempt : attempt'[i] # None => sock'[attempt'[i].fd] # "new"
  BY NameAssumption DEF TypeInv, TypeOK, MadeInv, Made, FdOf
<1> QED
  BY <1>1, <1>2, <1>3 DEF TypeInv, MadeInv, Made, FdOf

(* Messages that put no agent out of the game, and bring no answer of one. *)
Calm(new) ==
  \A x \in new :
    /\ x[1] \in Attempt => x[2].type = "client"
    /\ x[1] = AgentMgr /\ x[2].type = "resume" => x[2].co.at = "gate_kick"
    /\ x[2].type = "kick" => x[2].co = None \/ x[2].co.at = "gate_kick"

(* What a step that posts no others leaves alone. *)
CalmFrame ==
  /\ UNCHANGED <<mgr_players, status, co, agent>>
  /\ \A i \in Attempt : attempt[i] # None => attempt'[i] = attempt[i]
  /\ \A fd \in Fd : \A k \in DOMAIN closing'[fd] :
       \/ k \in DOMAIN closing[fd] /\ closing'[fd][k] = closing[fd][k]
       \/ closing'[fd][k] = None
       \/ closing'[fd][k].at = "gate_kick"

(* No requests of a login either. *)
Quiet(new) == Calm(new) /\ \A x \in new : x[2].type \notin {"login", "req_login"}

QuietFrame ==
  /\ CalmFrame /\ attempt' = attempt
  /\ \A i \in Attempt : attempt[i] # None => port'[attempt[i].fd] = port[attempt[i].fd]
  /\ \A i \in Attempt : login'[i] = "started" => login[i] = "started"

(* Types of the two requests. *)
LEMMA RequestTypes ==
  ASSUME NEW i \in Attempt
  PROVE  /\ LoginMsg(i) \in Message /\ LoginMsg(i).type = "login" /\ LoginMsg(i).login = i
         /\ ReqMsg(i) \in Message /\ ReqMsg(i).type = "req_login" /\ ReqMsg(i).login = i
BY DEF LoginMsg, ReqMsg, Message

(* The services are not one another. *)
LEMMA ServiceNames ==
  /\ AgentMgr \in Service /\ Gate \subseteq Service /\ Attempt \subseteq Service
  /\ AgentMgr \notin Gate /\ AgentMgr \notin Attempt /\ Gate \cap Attempt = {}
  /\ None \notin Attempt /\ None \notin Gate /\ None # AgentMgr
BY NameAssumption DEF Service

(* Requests stay where they are. *)
LEMMA QuietRequest ==
  ASSUME TypeInv, RequestInv, QuietFrame, NEW new, Grows(queue, queue', new), Quiet(new)
  PROVE  RequestInv'
<1> SUFFICES ASSUME NEW i \in Attempt
             PROVE  /\ \A s \in Service :
                         /\ Once(queue', s, LoginMsg(i))
                         /\ LoginMsg(i) \in Msgs(queue', s) =>
                              /\ s = port'[attempt'[i].fd] /\ login'[i] # "started"
                              /\ Fresh(i)' /\ ReqMsg(i) \notin Msgs(queue', AgentMgr)
                    /\ login'[i] = "started" => Fresh(i)' /\ ReqMsg(i) \notin Msgs(queue', AgentMgr)
                    /\ Once(queue', AgentMgr, ReqMsg(i))
                    /\ ReqMsg(i) \in Msgs(queue', AgentMgr) => Fresh(i)'
  BY DEF RequestInv, GateOf, FdOf
<1>1. \A s \in Service : <<s, LoginMsg(i)>> \notin new /\ <<s, ReqMsg(i)>> \notin new
  BY RequestTypes DEF Quiet, Calm
<1>2. /\ AgentMgr \in Service /\ LoginMsg(i) \in Message /\ ReqMsg(i) \in Message
  BY RequestTypes, ServiceNames
<1>3. Fresh(i)' <=> Fresh(i)
  BY DEF Fresh, QuietFrame, CalmFrame
<1>4. \A s \in Service : LoginMsg(i) \in Msgs(queue', s) => LoginMsg(i) \in Msgs(queue, s)
  BY <1>1 DEF Grows
<1>5. ReqMsg(i) \in Msgs(queue', AgentMgr) => ReqMsg(i) \in Msgs(queue, AgentMgr)
  BY <1>1, <1>2 DEF Grows
<1>6. /\ \A s \in Service : Once(queue, s, LoginMsg(i)) => Once(queue', s, LoginMsg(i))
      /\ Once(queue, AgentMgr, ReqMsg(i)) => Once(queue', AgentMgr, ReqMsg(i))
  BY <1>1, <1>2 DEF Grows
<1>7. ASSUME NEW s \in Service, LoginMsg(i) \in Msgs(queue, s)
      PROVE  port'[attempt'[i].fd] = port[attempt[i].fd]
  <2>1. attempt[i] # None
    BY <1>7, RequestTypes DEF TypeInv, MadeInv, QueueMade, Made
  <2> QED
    BY <2>1 DEF QuietFrame, CalmFrame
<1>8. login'[i] = "started" => login[i] = "started"
  BY DEF QuietFrame, CalmFrame
<1> QED
  BY <1>3, <1>4, <1>5, <1>6, <1>7, <1>8 DEF RequestInv, GateOf, FdOf

(* A calm step disturbs no handler and no agent. *)
LEMMA CalmStep ==
  ASSUME TypeInv, SessionInv, CalmFrame, NEW new, Grows(queue, queue', new), Calm(new)
  PROVE  HandlerInv' /\ TableInv' /\ AgentInv' /\ AnswerInv'
<1>0. /\ HandlerInv /\ TableInv /\ AgentInv /\ AnswerInv
      /\ UNCHANGED <<mgr_players, status, co, agent>>
  BY DEF SessionInv, CalmFrame
<1>1. ASSUME NEW i \in Attempt, attempt[i] # None
      PROVE  attempt'[i].player = attempt[i].player
  BY <1>1 DEF CalmFrame
<1>2. ASSUME NEW i \in Attempt, NEW m \in Msgs(queue', i)
      PROVE  m \in Msgs(queue, i) \/ m.type = "client"
  BY <1>2, ServiceNames DEF Grows, Calm
<1>3. HandlerInv'
  <2>1. \A i \in Attempt : [type |-> "exit"] \in Msgs(queue', i) => [type |-> "exit"] \in Msgs(queue, i)
    BY <1>2
  <2>2. ASSUME NEW c \in co
        PROVE  /\ c.login # None => attempt'[c.login].player = attempt[c.login].player
               /\ c.victim # None => attempt'[c.victim].player = attempt[c.victim].player
               /\ c.victim # None => c.victim \in Attempt
               /\ c.at # "agent_kick" => c.login # None
               /\ c.at # "new_service" => c.victim # None
    BY <1>1 DEF TypeInv, TypeOK, Coroutine, MadeInv, HandlerMade, MadeHandler, Made
  <2> QED
    BY <1>0, <2>1, <2>2 DEF HandlerInv, PlayerOf
<1>4. TableInv'
  <2>1. ASSUME NEW p \in Player, mgr_players[p] # None
        PROVE  attempt'[mgr_players[p]].player = attempt[mgr_players[p]].player
    BY <1>1, <2>1 DEF TypeInv, TypeOK, MadeInv, Made
  <2> QED
    BY <1>0, <2>1 DEF TableInv, PlayerOf
<1>5. AgentInv'
  <2>1. ASSUME NEW i \in Attempt, HasData(i)
        PROVE  attempt'[i].player = attempt[i].player
    BY <1>1, <2>1 DEF TypeInv, MadeInv, Made, HasData
  <2> QED
    BY <1>0, <1>2, <2>1 DEF AgentInv, PlayerOf, HasData
<1>6. AnswerInv'
  <2>1. ASSUME NEW m \in Msgs(queue', AgentMgr), m.type = "resume"
        PROVE  /\ m.co.at = "agent_kick" =>
                    m.co.victim # None /\ agent'[m.co.victim] \in {"saved", "gone"}
               /\ m.co.at = "new_service" =>
                    m.co.login # None /\ agent'[m.co.login] \notin {"none", "loading"}
    <3>1. m \in Msgs(queue, AgentMgr) \/ m.co.at = "gate_kick"
      BY <2>1, ServiceNames DEF Grows, Calm
    <3> QED
      BY <1>0, <2>1, <3>1 DEF AnswerInv
  <2>2. ASSUME NEW s \in Gate, NEW m \in Msgs(queue', s), m.type = "kick"
        PROVE  m.co = None \/ m.co.at = "gate_kick"
    BY <1>0, <2>2, ServiceNames DEF Grows, Calm, AnswerInv
  <2>3. ASSUME NEW fd \in Fd, NEW k \in DOMAIN closing'[fd]
        PROVE  closing'[fd][k] = None \/ closing'[fd][k].at = "gate_kick"
    BY <1>0, <2>3 DEF AnswerInv, CalmFrame
  <2> QED
    BY <2>1, <2>2, <2>3 DEF AnswerInv
<1> QED
  BY <1>3, <1>4, <1>5, <1>6

(* A quiet step disturbs nothing. *)
LEMMA QuietStep ==
  ASSUME TypeInv, SessionInv, QuietFrame, NEW new, Grows(queue, queue', new), Quiet(new)
  PROVE  SessionInv'
<1>1. RequestInv'
  BY QuietRequest DEF SessionInv
<1>2. CalmFrame /\ Calm(new)
  BY DEF QuietFrame, Quiet
<1> QED
  BY <1>1, <1>2, CalmStep DEF SessionInv

(* What most steps of a gateway leave alone, and what they do not post. *)
GateFrame ==
  /\ UNCHANGED <<attempt, co, agent, mgr_players>>
  /\ \A i \in Attempt : attempt[i] = None => timers'[i] = timers[i] /\ login'[i] = login[i]
  /\ \A fd \in Fd : sock[fd] # "new" => sock'[fd] # "new"
  /\ \A g \in Gate, p \in Player :
       \/ players'[g][p] \in {players[g][p], None}
       \/ attempt[players'[g][p]] # None

NamesNone(new) ==
  \A x \in new : x[2].type \notin {"login", "req_login", "sure_agent", "reconnect"}

LEMMA GateTypes ==
  ASSUME TypeInv, TypeOK', GateFrame, NEW new, Grows(queue, queue', new), NamesNone(new)
  PROVE  TypeInv'
<1>1. HandlerMade'
  BY HandlersStayMade DEF TypeInv, MadeInv, GateFrame
<1>2. \A x \in new : x[2].type # "reconnect"
  BY DEF NamesNone
<1>3. \A x \in new : x[2].type \in {"login", "req_login", "sure_agent"} =>
                           attempt[x[2].login] # None
  BY DEF NamesNone
<1>4. \A g \in Gate, p \in Player :
           players'[g][p] # None => attempt[players'[g][p]] # None
  BY DEF TypeInv, MadeInv, Made, GateFrame
<1>5. \A p \in Player : mgr_players'[p] # None => attempt[mgr_players'[p]] # None
  BY DEF TypeInv, MadeInv, Made, GateFrame
<1>6. \A i \in Attempt : attempt[i] = None => agent'[i] = agent[i]
  BY DEF GateFrame
<1>7. attempt' = attempt /\ \A fd \in Fd : sock[fd] # "new" => sock'[fd] # "new"
  BY DEF GateFrame
<1>8. \A i \in Attempt : attempt[i] = None => login'[i] \in {login[i], "fail"}
  BY DEF GateFrame
<1>9. \A i \in Attempt : attempt[i] = None => timers'[i] \in {timers[i], timers[i] - 1}
  BY DEF GateFrame
<1> QED
  BY <1>1, <1>2, <1>3, <1>4, <1>5, <1>6, <1>7, <1>8, <1>9, StaysMade

(* The step keeps types and sessions. *)
Keeps == TypeInv' /\ (SessionInv => SessionInv')

Harmless(new) == NamesNone(new) /\ (SessionInv => Quiet(new))

LEMMA GateKeeps ==
  ASSUME TypeInv, TypeOK', GateFrame, SessionInv => QuietFrame,
         NEW new, Grows(queue, queue', new), Harmless(new)
  PROVE  Keeps
<1>1. TypeInv'
  BY GateTypes DEF Harmless
<1>2. ASSUME SessionInv PROVE SessionInv'
  BY <1>2, QuietStep DEF Harmless
<1> QED
  BY <1>1, <1>2 DEF Keeps

(* What a gateway does with what its sockets bring keeps types and sessions. *)
LEMMA GateDataKeeps ==
  ASSUME TypeInv, NEW g \in Gate,
         \/ DataUnread(g) \/ DataFails(g) \/ DataWork(g)
         \/ DataReconnect(g) \/ Disconnect(g)
  PROVE  Keeps
<1> USE DEF cvars, gvars, lvars, mvars
<1>0. /\ TypeOK /\ queue \in [Service -> Seq(Message)] /\ g \in Service
      /\ HandlerMade
      /\ \A h \in Gate, p \in Player : players[h][p] # None => attempt[players[h][p]] # None
      /\ \A p \in Player : mgr_players[p] # None => attempt[mgr_players[p]] # None
  BY DEF TypeInv, TypeOK, Service, MadeInv, Made
<1> DEFINE m == Head(queue[g])
<1>1. ASSUME queue[g] # << >>
      PROVE  /\ Grows(queue, Taken(g), {}) /\ Taken(g) \in [Service -> Seq(Message)]
             /\ m \in Message
             /\ m.type \in {"login", "req_login", "sure_agent"} =>
                  attempt[m.login] # None /\ m.login \in Attempt
             /\ m.type = "reconnect" => attempt[m.key] # None /\ m.key \in Attempt /\ m.fd \in Fd
             /\ m.type \in {"work", "close"} => m.fd \in Fd
  <2>1. Grows(queue, Taken(g), {})
    BY <1>0, <1>1, TakenQueue
  <2>2. m \in Message /\ (m.type \in {"login", "req_login", "sure_agent"} => attempt[m.login] # None)
        /\ (m.type = "reconnect" => attempt[m.key] # None)
    BY <1>0, <1>1, HeadMade
  <2> HIDE DEF m
  <2> QED
    BY <2>1, <2>2, MessageFields DEF Grows
<1>2. \A i \in Attempt : attempt[i] # None => FdOf(i) \in Fd /\ PlayerOf(i) \in Player
  BY <1>0 DEF TypeOK, FdOf, PlayerOf
<1>3. ASSUME NEW fd \in Fd, queue[g] # << >>
      PROVE  \E new : /\ Grows(queue, Woken(Taken(g), fd), new)
                      /\ Harmless(new)
  <2> DEFINE new == {<<AgentMgr, Answer(closing[fd][k])>> :
                       k \in {k \in DOMAIN closing[fd] : closing[fd][k] # None}}
  <2>1. closing[fd] \in Seq(Coroutine \cup {None})
    BY <1>0 DEF TypeOK
  <2>2. Grows(Taken(g), Woken(Taken(g), fd), new)
    BY <1>1, <1>3, <2>1, WokenQueue
  <2>3. Grows(queue, Woken(Taken(g), fd), {} \cup new)
    <3> HIDE DEF new
    <3> QED
      BY <1>1, <1>3, <2>2, GrowsTwice
  <2>4. \A x \in new : \E k \in DOMAIN closing[fd] :
          x[1] = AgentMgr /\ x[2] = Answer(closing[fd][k]) /\ closing[fd][k] # None
    OBVIOUS
  <2> HIDE DEF new
  <2>5. Harmless(new)
    <3>0. \A k : Answer(closing[fd][k]).type = "resume"
      BY DEF Answer
    <3>1. \A x \in new : x[1] = AgentMgr /\ x[2].type = "resume"
      BY <2>4, <3>0
    <3>2. ASSUME SessionInv, NEW x \in new PROVE x[2].co.at = "gate_kick"
      <4>1. PICK k \in DOMAIN closing[fd] : x[2] = Answer(closing[fd][k]) /\ closing[fd][k] # None
        BY <2>4
      <4>2. closing[fd][k].at = "gate_kick"
        BY <3>2, <4>1 DEF SessionInv, AnswerInv
      <4> QED
        BY <4>1, <4>2 DEF Answer
    <3> QED
      BY <3>1, <3>2, ServiceNames DEF Harmless, NamesNone, Quiet, Calm
  <2> QED
    BY <2>3, <2>5
<1> HIDE DEF m
<1>4. ASSUME DataUnread(g) PROVE Keeps
  <2>1. Grows(queue, queue', {})
    BY <1>1, <1>4 DEF DataUnread, IsData, Receives
  <2>2. TypeOK'
    BY <1>0, <1>4, <2>1 DEF DataUnread, TypeOK, Grows
  <2>7. GateFrame
    BY <1>0, <1>4 DEF DataUnread, GateFrame
  <2>8. Harmless({})
    BY <1>0 DEF Harmless, NamesNone, Quiet, Calm
  <2>9. SessionInv => QuietFrame
    BY <1>4 DEF DataUnread, QuietFrame, CalmFrame
  <2> QED
    BY <2>1, <2>2, <2>7, <2>8, <2>9, GateKeeps
<1>5. ASSUME DataFails(g) PROVE Keeps
  <2>1. queue[g] # << >> /\ m.type \in {"login", "work", "reconnect"}
    BY <1>5 DEF DataFails, IsData, Receives, m
  <2>2. DataFd(g) \in Fd
    BY <1>1, <1>2, <2>1 DEF DataFd, m
  <2>3. PICK new : Grows(queue, queue', new) /\ Harmless(new)
    BY <1>3, <1>5, <2>1, <2>2 DEF DataFails
  <2>4. TypeOK'
    <3>1. << >> \in Seq(Coroutine \cup {None})
      OBVIOUS
    <3> QED
      BY <1>0, <1>5, <2>2, <2>3, <3>1 DEF DataFails, TypeOK, Grows
  <2>7. GateFrame
    BY <1>0, <1>5 DEF DataFails, GateFrame
  <2>8. SessionInv => QuietFrame
    BY <1>0, <1>5, <2>2 DEF DataFails, QuietFrame, CalmFrame, TypeOK
  <2> QED
    BY <2>3, <2>4, <2>7, <2>8, GateKeeps
<1>7. ASSUME DataWork(g) PROVE Keeps
  <2>1. queue[g] # << >>
    BY <1>7 DEF DataWork, Receives
  <2> DEFINE n == [type |-> "client", gate |-> g]
  <2>2. n \in Message /\ n.type = "client"
    BY DEF Message
  <2>3. \E s : queue' = Taken(g) \/ queue' = Post(Taken(g), s, <<n>>)
    BY <1>7 DEF DataWork
  <2> HIDE DEF n
  <2>4. PICK new : Grows(queue, queue', new) /\ \A x \in new : x[2] = n
    <3>1. CASE queue' = Taken(g)
      <4>1. Grows(queue, queue', {}) /\ \A x \in {} : x[2] = n
        BY <1>1, <2>1, <3>1
      <4> QED
        BY <4>1
    <3>2. ASSUME NEW s, queue' = Post(Taken(g), s, <<n>>)
          PROVE  \E z : Grows(queue, queue', z) /\ \A x \in z : x[2] = n
      <4>1. Grows(queue, queue', {<<s, n>>})
        BY <1>0, <2>1, <2>2, <3>2, TakenPost
      <4>2. \A x \in {<<s, n>>} : x[2] = n
        OBVIOUS
      <4> QED
        BY <4>1, <4>2
    <3> QED
      BY <2>3, <3>1, <3>2
  <2>5. TypeOK'
    BY <1>0, <1>7, <2>4 DEF DataWork, TypeOK, Grows
  <2>7. GateFrame
    BY <1>0, <1>7 DEF DataWork, GateFrame
  <2>8. Harmless(new)
    BY <2>2, <2>4 DEF Harmless, NamesNone, Quiet, Calm
  <2>9. SessionInv => QuietFrame
    BY <1>7 DEF DataWork, QuietFrame, CalmFrame
  <2> QED
    BY <2>4, <2>5, <2>7, <2>8, <2>9, GateKeeps
<1>8. ASSUME DataReconnect(g) PROVE Keeps
  <2>1. /\ Grows(queue, queue', {}) /\ m.key \in Attempt /\ attempt[m.key] # None /\ m.fd \in Fd
        /\ PlayerOf(m.key) \in Player
    BY <1>1, <1>2, <1>8 DEF DataReconnect, Receives, m
  <2>2. \/ /\ conn' = [conn EXCEPT ![m.key] = m.fd]
           /\ conn_player' = [conn_player EXCEPT ![m.fd] = PlayerOf(m.key)]
           /\ msg_cache' = [msg_cache EXCEPT ![m.key] = 0]
        \/ UNCHANGED <<conn, conn_player, msg_cache>>
    BY <1>8 DEF DataReconnect, m
  <2>3. TypeOK'
    <3>1. /\ conn' \in [Attempt -> Fd \cup {None}]
          /\ conn_player' \in [Fd -> Player \cup {None}]
          /\ msg_cache' \in [Attempt -> Nat]
      <4>1. CASE UNCHANGED <<conn, conn_player, msg_cache>>
        BY <1>0, <4>1 DEF TypeOK
      <4>2. CASE /\ conn' = [conn EXCEPT ![m.key] = m.fd]
                 /\ conn_player' = [conn_player EXCEPT ![m.fd] = PlayerOf(m.key)]
                 /\ msg_cache' = [msg_cache EXCEPT ![m.key] = 0]
        <5>1. /\ conn \in [Attempt -> Fd \cup {None}]
              /\ conn_player \in [Fd -> Player \cup {None}]
              /\ msg_cache \in [Attempt -> Nat]
          BY <1>0 DEF TypeOK
        <5> QED
          BY <2>1, <4>2, <5>1
      <4> QED
        BY <2>2, <4>1, <4>2
    <3> QED
      BY <1>0, <1>8, <2>1, <3>1 DEF DataReconnect, TypeOK, Grows
  <2>7. GateFrame
    BY <1>0, <1>8 DEF DataReconnect, GateFrame
  <2>8. Harmless({})
    BY <1>0 DEF Harmless, NamesNone, Quiet, Calm
  <2>9. SessionInv => QuietFrame
    BY <1>8 DEF DataReconnect, QuietFrame, CalmFrame
  <2> QED
    BY <2>1, <2>3, <2>7, <2>8, <2>9, GateKeeps
<1>9. ASSUME Disconnect(g) PROVE Keeps
  <2> DEFINE fd == m.fd
             p  == conn_player[fd]
             i  == players[g][p]
  <2>1. fd \in Fd /\ queue[g] # << >>
    BY <1>1, <1>9 DEF Disconnect, Receives, m
  <2>2. PICK new : Grows(queue, queue', new) /\ Harmless(new)
    BY <1>3, <1>9, <2>1 DEF Disconnect, m
  <2>3. /\ reader' \in [Fd -> {"none", "reading", "dead", "done"}]
        /\ \/ UNCHANGED <<conn, timers>>
           \/ /\ p \in Player /\ i # None
              /\ conn' = [conn EXCEPT ![i] = None]
              /\ timers' = [timers EXCEPT ![i] = @ + 1]
    <3>1. CASE reader[fd] # "reading" \/ ~conns[fd] \/ p = None
      BY <1>0, <1>9, <2>1, <3>1 DEF Disconnect, m, TypeOK
    <3>2. CASE ~(reader[fd] # "reading" \/ ~conns[fd] \/ p = None) /\ i = None
      BY <1>0, <1>9, <2>1, <3>2 DEF Disconnect, m, TypeOK
    <3>3. CASE ~(reader[fd] # "reading" \/ ~conns[fd] \/ p = None) /\ i # None
      <4>1. p \in Player
        BY <1>0, <2>1, <3>3 DEF TypeOK
      <4> QED
        BY <1>0, <1>9, <2>1, <3>3, <4>1 DEF Disconnect, m, TypeOK
    <3> QED
      BY <3>1, <3>2, <3>3
  <2>4. \/ UNCHANGED <<conn, timers>>
        \/ \E j \in Attempt : /\ attempt[j] # None
                              /\ conn' = [conn EXCEPT ![j] = None]
                              /\ timers' = [timers EXCEPT ![j] = @ + 1]
    <3>1. ASSUME p \in Player, i # None PROVE i \in Attempt /\ attempt[i] # None
      BY <1>0, <3>1 DEF TypeOK
    <3> HIDE DEF i, p
    <3> QED
      BY <2>3, <3>1
  <2>5. closing' = [closing EXCEPT ![fd] = << >>]
    BY <1>9 DEF Disconnect, m
  <2> HIDE DEF fd, p, i
  <2>6. TypeOK'
    <3>1. << >> \in Seq(Coroutine \cup {None})
      OBVIOUS
    <3>2. \A f \in Fd : closing'[f] \in Seq(Coroutine \cup {None})
      BY <1>0, <2>1, <2>5, <3>1 DEF TypeOK
    <3>3. conn' \in [Attempt -> Fd \cup {None}] /\ timers' \in [Attempt -> Nat]
      <4>1. conn \in [Attempt -> Fd \cup {None}] /\ timers \in [Attempt -> Nat]
        BY <1>0 DEF TypeOK
      <4> QED
        BY <2>4, <4>1
    <3> QED
      BY <1>0, <1>9, <2>2, <2>3, <3>2, <3>3 DEF Disconnect, TypeOK, Grows
  <2>7. \A j \in Attempt : attempt[j] = None => timers'[j] = timers[j]
    BY <1>0, <2>4 DEF TypeOK
  <2>8. GateFrame
    BY <1>0, <1>9, <2>7 DEF Disconnect, GateFrame
  <2>9. SessionInv => QuietFrame
    <3>1. UNCHANGED <<attempt, port, mgr_players, status, co, agent, login>>
      BY <1>9 DEF Disconnect
    <3>2. \A f \in Fd : \A k \in DOMAIN closing'[f] :
            k \in DOMAIN closing[f] /\ closing'[f][k] = closing[f][k]
      <4>1. \A f \in Fd : closing'[f] = closing[f] \/ closing'[f] = << >>
        BY <1>0, <2>1, <2>5 DEF TypeOK
      <4>2. DOMAIN << >> = {}
        OBVIOUS
      <4> QED
        BY <4>1, <4>2
    <3> QED
      BY <3>1, <3>2 DEF QuietFrame, CalmFrame
  <2> QED
    BY <2>2, <2>6, <2>8, <2>9, GateKeeps
<1> QED
  BY <1>4, <1>5, <1>7, <1>8, <1>9

(* The login of a client is handed to a login service. *)
LEMMA DataLoginKeeps ==
  ASSUME TypeInv, NEW g \in Gate, DataLogin(g)
  PROVE  Keeps
<1> USE DEF cvars, gvars, lvars, mvars
<1>0. TypeOK /\ queue \in [Service -> Seq(Message)] /\ g \in Service
  BY DEF TypeInv, TypeOK, Service
<1> DEFINE m == Head(queue[g])
           i == m.login
<1>1. /\ Grows(queue, queue', {}) /\ Harmless({})
      /\ Once(queue, g, m) => m \notin Msgs(queue', g)
  <2>1. queue[g] # << >> /\ queue' = Taken(g)
    BY DEF DataLogin, Receives
  <2> QED
    BY <1>0, <2>1, TakenQueue DEF Harmless, NamesNone, Quiet, Calm
<1>2. /\ i \in Attempt /\ attempt[i] # None
      /\ m = LoginMsg(i) /\ LoginMsg(i) \in Msgs(queue, g)
  <2>1. queue[g] # << >> /\ m.type = "login"
    BY DEF DataLogin, Receives
  <2>2. m \in Message /\ m \in Msgs(queue, g) /\ attempt[m.login] # None
    BY <1>0, <2>1, HeadMade
  <2> HIDE DEF m
  <2>3. m = [type |-> "login", login |-> m.login] /\ m.login \in Attempt
    BY <2>1, <2>2 DEF Message
  <2> QED
    BY <2>2, <2>3 DEF LoginMsg
<1>3. login' \in {[login EXCEPT ![i] = "started"], login}
  <2>1. login' = [login EXCEPT ![i] =
                    IF conn_player[FdOf(i)] = None THEN "started" ELSE login[i]]
    BY DEF DataLogin
  <2> HIDE DEF i
  <2> QED
    BY <1>0, <1>2, <2>1 DEF TypeOK
<1> HIDE DEF m, i
<1>4. TypeOK'
  BY <1>0, <1>1, <1>2, <1>3 DEF DataLogin, TypeOK, Grows, LoginState
<1>5. \A j \in Attempt : j # i => login'[j] = login[j]
  BY <1>0, <1>2, <1>3 DEF TypeOK
<1>6. GateFrame
  BY <1>0, <1>2, <1>5 DEF DataLogin, GateFrame
<1>7. TypeInv'
  BY <1>1, <1>4, <1>6, GateTypes DEF Harmless
<1>8. CASE login' = login
  <2>1. QuietFrame
    BY <1>8 DEF DataLogin, QuietFrame, CalmFrame
  <2> QED
    BY <1>1, <1>4, <1>6, <2>1, GateKeeps
<1>9. ASSUME SessionInv, login' # login PROVE SessionInv'
  <2>0. UNCHANGED <<attempt, port, co, mgr_players, status, agent, closing>>
    BY DEF DataLogin
  <2>1. RequestInv /\ HandlerInv /\ TableInv /\ AgentInv /\ AnswerInv
    BY <1>9 DEF SessionInv
  <2>2. \A s \in Service : \A n \in Msgs(queue', s) : n \in Msgs(queue, s)
    BY <1>1 DEF Grows
  <2>3. \A s \in Service, n \in Message : Once(queue, s, n) => Once(queue', s, n)
    BY <1>1 DEF Grows
  <2>4. \A s \in Service : LoginMsg(i) \notin Msgs(queue', s)
    <3>1. g = GateOf(i) /\ Once(queue, g, LoginMsg(i))
      BY <1>0, <1>2, <2>1 DEF RequestInv
    <3>2. LoginMsg(i) \notin Msgs(queue', g)
      BY <1>1, <1>2, <3>1
    <3> QED
      BY <1>2, <2>1, <2>2, <3>1, <3>2 DEF RequestInv
  <2>5. RequestInv'
    <3> SUFFICES ASSUME NEW j \in Attempt
                 PROVE  /\ \A s \in Service :
                             /\ Once(queue', s, LoginMsg(j))
                             /\ LoginMsg(j) \in Msgs(queue', s) =>
                                  /\ s = GateOf(j) /\ login'[j] # "started"
                                  /\ Fresh(j) /\ ReqMsg(j) \notin Msgs(queue', AgentMgr)
                        /\ login'[j] = "started" => Fresh(j) /\ ReqMsg(j) \notin Msgs(queue', AgentMgr)
                        /\ Once(queue', AgentMgr, ReqMsg(j))
                        /\ ReqMsg(j) \in Msgs(queue', AgentMgr) => Fresh(j)
      BY <2>0 DEF RequestInv, GateOf, FdOf, Fresh
    <3>1. /\ \A s \in Service : Once(queue', s, LoginMsg(j))
          /\ Once(queue', AgentMgr, ReqMsg(j))
          /\ ReqMsg(j) \in Msgs(queue', AgentMgr) => ReqMsg(j) \in Msgs(queue, AgentMgr)
      BY <2>1, <2>2, <2>3, RequestTypes, ServiceNames DEF RequestInv
    <3>2. CASE j = i
      <4>1. Fresh(i) /\ ReqMsg(i) \notin Msgs(queue, AgentMgr)
        BY <1>0, <1>2, <2>1 DEF RequestInv
      <4> QED
        BY <2>4, <3>1, <3>2, <4>1
    <3>3. CASE j # i
      <4>1. login'[j] = login[j]
        BY <1>5, <3>3
      <4> QED
        BY <2>1, <2>2, <3>1, <4>1 DEF RequestInv
    <3> QED
      BY <3>2, <3>3
  <2>6. CalmFrame /\ Calm({})
    BY <2>0 DEF CalmFrame, Calm
  <2> QED
    BY <1>1, <1>9, <2>5, <2>6, CalmStep DEF SessionInv
<1> QED
  BY <1>7, <1>8, <1>9 DEF Keeps

(* What a gateway does for other services keeps types and sessions. *)
LEMMA GateRequestKeeps ==
  ASSUME TypeInv, NEW g \in Gate, GateSend(g) \/ SureAgent(g) \/ Kick(g)
  PROVE  Keeps
<1> USE DEF cvars, gvars, lvars, mvars
<1>0. /\ TypeOK /\ queue \in [Service -> Seq(Message)] /\ g \in Service /\ AgentMgr \in Service
      /\ \A h \in Gate, p \in Player : players[h][p] # None => attempt[players[h][p]] # None
      /\ \A i \in Attempt : attempt[i] # None => FdOf(i) \in Fd /\ PlayerOf(i) \in Player
  BY DEF TypeInv, TypeOK, Service, MadeInv, Made, FdOf, PlayerOf
<1> DEFINE m == Head(queue[g])
<1>1. ASSUME queue[g] # << >>
      PROVE  /\ Grows(queue, Taken(g), {}) /\ Taken(g) \in [Service -> Seq(Message)]
             /\ m.type = "sure_agent" => attempt[m.login] # None /\ m.login \in Attempt
             /\ m.type \in {"send", "kick"} => m.player \in Player
             /\ m.type = "kick" => m.co \in Coroutine \cup {None}
  <2>1. Grows(queue, Taken(g), {})
    BY <1>0, <1>1, TakenQueue
  <2>2. m \in Message /\ (m.type = "sure_agent" => attempt[m.login] # None)
    BY <1>0, <1>1, HeadMade
  <2> HIDE DEF m
  <2> QED
    BY <2>1, <2>2, MessageFields DEF Grows
<1>2. ASSUME NEW p \in Player, NEW by \in Attempt \cup {None}
      PROVE  [type |-> "req_kick", player |-> p, by |-> by] \in Message
  BY DEF Message
<1> HIDE DEF m
<1>3. ASSUME GateSend(g) PROVE Keeps
  <2> DEFINE p == m.player
             i == players[g][p]
             n == [type |-> "req_kick", player |-> p, by |-> None]
  <2>1. p \in Player /\ queue[g] # << >>
    BY <1>1, <1>3 DEF GateSend, Receives, m
  <2>2. n \in Message /\ n.type = "req_kick"
    BY <1>2, <2>1
  <2>3. /\ queue' \in {Taken(g), Post(Taken(g), AgentMgr, <<n>>)}
        /\ \/ msg_cache' = msg_cache
           \/ i # None /\ msg_cache' = [msg_cache EXCEPT ![i] = @ + 1]
    BY <1>3 DEF GateSend, m
  <2> HIDE DEF n
  <2>4. PICK new : Grows(queue, queue', new) /\ Harmless(new)
    <3>1. CASE queue' = Taken(g)
      <4>1. Grows(queue, queue', {}) /\ Harmless({})
        BY <1>1, <2>1, <3>1 DEF Harmless, NamesNone, Quiet, Calm
      <4> QED
        BY <4>1
    <3>2. CASE queue' = Post(Taken(g), AgentMgr, <<n>>)
      <4>1. Grows(queue, queue', {<<AgentMgr, n>>})
        BY <1>0, <2>1, <2>2, <3>2, TakenPost
      <4>2. Harmless({<<AgentMgr, n>>})
        BY <2>2, ServiceNames DEF Harmless, NamesNone, Quiet, Calm
      <4> QED
        BY <4>1, <4>2
    <3> QED
      BY <2>3, <3>1, <3>2
  <2>5. msg_cache' \in [Attempt -> Nat]
    <3>1. msg_cache \in [Attempt -> Nat] /\ i \in Attempt \cup {None}
      BY <1>0, <2>1 DEF TypeOK
    <3> HIDE DEF i
    <3> QED
      BY <2>3, <3>1
  <2>6. TypeOK'
    BY <1>0, <1>3, <2>4, <2>5 DEF GateSend, TypeOK, Grows
  <2>7. GateFrame
    BY <1>3 DEF GateSend, GateFrame
  <2>8. SessionInv => QuietFrame
    BY <1>3 DEF GateSend, QuietFrame, CalmFrame
  <2> QED
    BY <2>4, <2>6, <2>7, <2>8, GateKeeps
<1>4. ASSUME SureAgent(g) PROVE Keeps
  <2> DEFINE i  == m.login
             fd == FdOf(i)
             p  == PlayerOf(i)
             n  == [type |-> "req_kick", player |-> p, by |-> i]
  <2>1. /\ queue[g] # << >> /\ i \in Attempt /\ attempt[i] # None
        /\ fd \in Fd /\ p \in Player
    BY <1>0, <1>1, <1>4 DEF SureAgent, Receives, m
  <2>2. n \in Message /\ n.type = "req_kick"
    BY <1>2, <2>1
  <2>3. \/ /\ conn_player' = [conn_player EXCEPT ![fd] = p]
           /\ conn' = [conn EXCEPT ![i] = fd]
           /\ players' = [players EXCEPT ![g][p] = i]
           /\ login' = [login EXCEPT ![i] = "ok"]
           /\ queue' = Taken(g)
        \/ /\ queue' = Post(Taken(g), AgentMgr, <<n>>)
           /\ UNCHANGED <<conn_player, conn, players, login>>
    BY <1>4 DEF SureAgent, m
  <2> HIDE DEF n, i, fd, p
  <2>4. PICK new : Grows(queue, queue', new) /\ Harmless(new)
    <3>1. CASE queue' = Taken(g)
      <4>1. Grows(queue, queue', {}) /\ Harmless({})
        BY <1>1, <2>1, <3>1 DEF Harmless, NamesNone, Quiet, Calm
      <4> QED
        BY <4>1
    <3>2. CASE queue' = Post(Taken(g), AgentMgr, <<n>>)
      <4>1. Grows(queue, queue', {<<AgentMgr, n>>})
        BY <1>0, <2>1, <2>2, <3>2, TakenPost
      <4>2. Harmless({<<AgentMgr, n>>})
        BY <2>2, ServiceNames DEF Harmless, NamesNone, Quiet, Calm
      <4> QED
        BY <4>1, <4>2
    <3> QED
      BY <2>3, <3>1, <3>2
  <2>5. /\ conn_player' \in [Fd -> Player \cup {None}]
        /\ conn' \in [Attempt -> Fd \cup {None}]
        /\ players' \in [Gate -> [Player -> Attempt \cup {None}]]
        /\ login' \in [Attempt -> LoginState]
    <3>1. /\ conn_player \in [Fd -> Player \cup {None}]
          /\ conn \in [Attempt -> Fd \cup {None}]
          /\ players \in [Gate -> [Player -> Attempt \cup {None}]]
          /\ login \in [Attempt -> LoginState] /\ "ok" \in LoginState
      BY <1>0 DEF TypeOK, LoginState
    <3>2. CASE UNCHANGED <<conn_player, conn, players, login>>
      BY <3>1, <3>2
    <3>3. CASE /\ conn_player' = [conn_player EXCEPT ![fd] = p]
               /\ conn' = [conn EXCEPT ![i] = fd]
               /\ players' = [players EXCEPT ![g][p] = i]
               /\ login' = [login EXCEPT ![i] = "ok"]
      <4>1. players' \in [Gate -> [Player -> Attempt \cup {None}]]
        BY <2>1, <3>1, <3>3
      <4>2. /\ conn_player' \in [Fd -> Player \cup {None}]
            /\ conn' \in [Attempt -> Fd \cup {None}]
        BY <2>1, <3>1, <3>3
      <4>3. login' \in [Attempt -> LoginState]
        BY <2>1, <3>1, <3>3
      <4> QED
        BY <4>1, <4>2, <4>3
    <3> QED
      BY <2>3, <3>2, <3>3
  <2>6. TypeOK'
    BY <1>0, <1>4, <2>4, <2>5 DEF SureAgent, TypeOK, Grows
  <2>7. GateFrame
    <3>1. \A j \in Attempt : attempt[j] = None => login'[j] = login[j]
      BY <1>0, <2>1, <2>3 DEF TypeOK
    <3>2. \A h \in Gate, q \in Player :
            players'[h][q] \in {players[h][q], None} \/ attempt[players'[h][q]] # None
      <4>1. players \in [Gate -> [Player -> Attempt \cup {None}]]
        BY <1>0 DEF TypeOK
      <4> QED
        BY <2>1, <2>3, <4>1
    <3>3. UNCHANGED <<attempt, co, agent, mgr_players, timers, sock>>
      BY <1>4 DEF SureAgent
    <3> QED
      BY <3>1, <3>2, <3>3 DEF GateFrame
  <2>8. SessionInv => QuietFrame
    BY <1>0, <1>4, <2>1, <2>3 DEF SureAgent, TypeOK, QuietFrame, CalmFrame
  <2> QED
    BY <2>4, <2>6, <2>7, <2>8, GateKeeps
<1>5. ASSUME Kick(g) PROVE Keeps
  <2> DEFINE p  == m.player
             c  == m.co
             i  == players[g][p]
             fd == conn[i]
             n  == [type |-> "close", fd |-> fd]
  <2>1. queue[g] # << >> /\ p \in Player /\ c \in Coroutine \cup {None} /\ i \in Attempt \cup {None}
    <3>1. queue[g] # << >> /\ m.type = "kick"
      BY <1>5 DEF Kick, Receives, m
    <3>2. p \in Player /\ c \in Coroutine \cup {None}
      BY <1>1, <3>1
    <3> HIDE DEF p, c
    <3> QED
      BY <1>0, <3>1, <3>2 DEF TypeOK
  <2>2. i # None => fd \in Fd \cup {None}
    BY <1>0, <2>1 DEF TypeOK
  <2>3. /\ players' = [players EXCEPT ![g][p] = None]
        /\ \/ queue' \in {Post(Taken(g), AgentMgr, Resume(c)), Taken(g)}
           \/ fd \in Fd /\ queue' = Post(Taken(g), g, <<n>>)
        /\ \/ UNCHANGED <<conns, sock, closing>>
           \/ /\ fd \in Fd
              /\ conns' = [conns EXCEPT ![fd] = FALSE]
              /\ sock' = [sock EXCEPT ![fd] = "closed"]
              /\ closing' \in {closing, [closing EXCEPT ![fd] = Append(@, c)]}
    <3> DEFINE q == Post(Taken(g), AgentMgr, Resume(c))
    <3>0. /\ players' = [players EXCEPT ![g][p] = None]
          /\ IF i = None \/ fd = None
             THEN queue' = q /\ UNCHANGED <<conns, sock, closing>>
             ELSE /\ conns' = [conns EXCEPT ![fd] = FALSE]
                  /\ sock' = [sock EXCEPT ![fd] = "closed"]
                  /\ IF ~Connected(g, fd) \/ ~MayClose(fd)
                     THEN queue' = q /\ UNCHANGED closing
                     ELSE /\ closing' = [closing EXCEPT ![fd] = Append(@, c)]
                          /\ queue' = IF sock[fd] = "closed" THEN Taken(g)
                                      ELSE Post(Taken(g), g, <<n>>)
      BY <1>5 DEF Kick, m
    <3> HIDE DEF n, q, p, c, i, fd
    <3>1. CASE i = None \/ fd = None
      BY <3>0, <3>1 DEF q
    <3>2. CASE ~(i = None \/ fd = None) /\ (~Connected(g, fd) \/ ~MayClose(fd))
      BY <2>2, <3>0, <3>2 DEF q
    <3>3. CASE ~(i = None \/ fd = None) /\ ~(~Connected(g, fd) \/ ~MayClose(fd))
      BY <2>2, <3>0, <3>3
    <3> QED
      BY <3>1, <3>2, <3>3
  <2>4. fd \in Fd => n \in Message /\ n.type = "close"
    BY DEF Message
  <2>10. SessionInv /\ c # None => c.at = "gate_kick"
    <3>1. m \in Msgs(queue, g) /\ m.type = "kick"
      BY <1>0, <1>5, HeadMade DEF Kick, Receives, m
    <3> HIDE DEF m
    <3> QED
      BY <3>1 DEF SessionInv, AnswerInv
  <2> HIDE DEF n, i, fd, p, c
  <2>5. PICK new : Grows(queue, queue', new) /\ Harmless(new)
    <3>1. CASE queue' = Taken(g)
      <4>1. Grows(queue, queue', {}) /\ Harmless({})
        BY <1>1, <2>1, <3>1 DEF Harmless, NamesNone, Quiet, Calm
      <4> QED
        BY <4>1
    <3>2. CASE queue' = Post(Taken(g), AgentMgr, Resume(c))
      <4> DEFINE z == IF c = None THEN {} ELSE {<<AgentMgr, Answer(c)>>}
      <4>1. Grows(Taken(g), queue', z)
        BY <1>1, <2>1, <3>2, PostResume
      <4>2. Grows(queue, queue', {} \cup z)
        <5> HIDE DEF z
        <5> QED
          BY <1>1, <2>1, <4>1, GrowsTwice
      <4>3. Harmless({} \cup z)
        BY <2>10, ServiceNames DEF Harmless, NamesNone, Quiet, Calm, Answer
      <4> HIDE DEF z
      <4> QED
        BY <4>2, <4>3
    <3>3. CASE fd \in Fd /\ queue' = Post(Taken(g), g, <<n>>)
      <4>1. Grows(queue, queue', {<<g, n>>})
        BY <1>0, <2>1, <2>4, <3>3, TakenPost
      <4>2. Harmless({<<g, n>>})
        BY <2>4, <3>3, ServiceNames DEF Harmless, NamesNone, Quiet, Calm
      <4> QED
        BY <4>1, <4>2
    <3> QED
      BY <2>3, <3>1, <3>2, <3>3
  <2>6. /\ conns' \in [Fd -> BOOLEAN]
        /\ sock' \in [Fd -> {"new", "open", "closed"}]
        /\ players' \in [Gate -> [Player -> Attempt \cup {None}]]
    <3>1. /\ conns \in [Fd -> BOOLEAN] /\ sock \in [Fd -> {"new", "open", "closed"}]
          /\ players \in [Gate -> [Player -> Attempt \cup {None}]]
      BY <1>0 DEF TypeOK
    <3> QED
      BY <2>1, <2>3, <3>1
  <2>12. ASSUME NEW f \in Fd
         PROVE  closing'[f] = closing[f] \/ closing'[f] = Append(closing[f], c)
    <3>1. CASE closing' = closing
      BY <3>1
    <3>2. CASE fd = f /\ closing' = [closing EXCEPT ![fd] = Append(@, c)]
      BY <1>0, <3>2 DEF TypeOK
    <3>3. CASE fd # f /\ closing' = [closing EXCEPT ![fd] = Append(@, c)]
      BY <1>0, <3>3 DEF TypeOK
    <3> QED
      BY <2>3, <3>1, <3>2, <3>3
  <2>7. \A f \in Fd : closing'[f] \in Seq(Coroutine \cup {None})
    <3> SUFFICES ASSUME NEW f \in Fd PROVE closing'[f] \in Seq(Coroutine \cup {None})
      OBVIOUS
    <3>1. closing[f] \in Seq(Coroutine \cup {None})
      BY <1>0 DEF TypeOK
    <3>2. Append(closing[f], c) \in Seq(Coroutine \cup {None})
      BY <2>1, <3>1
    <3>3. closing'[f] = closing[f] \/ closing'[f] = Append(closing[f], c)
      BY <2>12
    <3> QED
      BY <3>1, <3>2, <3>3
  <2>8. TypeOK'
    BY <1>0, <1>5, <2>5, <2>6, <2>7 DEF Kick, TypeOK, Grows
  <2>9. GateFrame
    <3>1. \A h \in Gate, q \in Player : players'[h][q] \in {players[h][q], None}
      <4>1. players \in [Gate -> [Player -> Attempt \cup {None}]]
        BY <1>0 DEF TypeOK
      <4> QED
        BY <2>1, <2>3, <4>1
    <3>2. \A f \in Fd : sock[f] # "new" => sock'[f] # "new"
      <4>1. sock \in [Fd -> {"new", "open", "closed"}]
        BY <1>0 DEF TypeOK
      <4> QED
        BY <2>3, <4>1
    <3>3. UNCHANGED <<attempt, co, agent, mgr_players, timers, login>>
      BY <1>5 DEF Kick
    <3> QED
      BY <3>1, <3>2, <3>3 DEF GateFrame
  <2>11. SessionInv => QuietFrame
    <3> SUFFICES ASSUME SessionInv PROVE QuietFrame
      OBVIOUS
    <3>1. ASSUME NEW f \in Fd, NEW k \in DOMAIN closing'[f]
          PROVE  \/ k \in DOMAIN closing[f] /\ closing'[f][k] = closing[f][k]
                 \/ closing'[f][k] = None
                 \/ closing'[f][k].at = "gate_kick"
      <4>1. closing[f] \in Seq(Coroutine \cup {None})
        BY <1>0 DEF TypeOK
      <4>2. CASE closing'[f] = closing[f]
        BY <3>1, <4>2
      <4>3. CASE closing'[f] = Append(closing[f], c)
        <5>1. \/ k \in DOMAIN closing[f] /\ closing'[f][k] = closing[f][k]
              \/ closing'[f][k] = c
          BY <2>1, <3>1, <4>1, <4>3
        <5> QED
          BY <2>10, <5>1
      <4> QED
        BY <2>12, <4>2, <4>3
    <3>2. UNCHANGED <<attempt, mgr_players, status, co, agent, port, login>>
      BY <1>5 DEF Kick
    <3> QED
      BY <3>1, <3>2 DEF QuietFrame, CalmFrame
  <2> QED
    BY <2>5, <2>8, <2>9, <2>11, GateKeeps
<1> QED
  BY <1>3, <1>4, <1>5

(* The end of a disconnect timer keeps types and sessions. *)
LEMMA TimeoutKeeps ==
  ASSUME TypeInv, NEW i \in Attempt, Timeout(i)
  PROVE  Keeps
<1> USE DEF cvars, gvars, lvars, mvars
<1>0. TypeOK /\ queue \in [Service -> Seq(Message)]
  BY DEF TypeInv, TypeOK
<1>1. attempt[i] # None
  <2>1. timers[i] \in Nat /\ timers[i] > 0
    BY <1>0 DEF TypeOK, Timeout
  <2> QED
    BY <2>1 DEF TypeInv, MadeInv, Made
<1>2. PlayerOf(i) \in Player
  BY <1>0, <1>1 DEF TypeOK, PlayerOf
<1> DEFINE n == [type |-> "req_kick", player |-> PlayerOf(i), by |-> None]
<1>3. n \in Message /\ n.type = "req_kick"
  BY <1>2 DEF Message
<1>4. queue' \in {queue, Post(queue, AgentMgr, <<n>>)}
  BY DEF Timeout
<1> HIDE DEF n
<1>5. PICK new : Grows(queue, queue', new) /\ Harmless(new)
  <2>1. CASE queue' = queue
    <3>1. Grows(queue, queue', {}) /\ Harmless({})
      BY <1>0, <2>1, GrowsNot DEF Harmless, NamesNone, Quiet, Calm
    <3> QED
      BY <3>1
  <2>2. CASE queue' = Post(queue, AgentMgr, <<n>>)
    <3>1. Grows(queue, queue', {<<AgentMgr, n>>})
      BY <1>0, <1>3, <2>2, PostOne
    <3>2. Harmless({<<AgentMgr, n>>})
      BY <1>3, ServiceNames DEF Harmless, NamesNone, Quiet, Calm
    <3> QED
      BY <3>1, <3>2
  <2> QED
    BY <1>4, <2>1, <2>2
<1>6. timers' \in [Attempt -> Nat]
  BY <1>0 DEF TypeOK, Timeout
<1>7. TypeOK'
  BY <1>0, <1>5, <1>6 DEF TypeOK, Timeout, Grows
<1>8. GateFrame
  <2>1. \A j \in Attempt : attempt[j] = None => timers'[j] = timers[j]
    BY <1>0, <1>1 DEF TypeOK, Timeout
  <2> QED
    BY <2>1 DEF Timeout, GateFrame
<1>9. SessionInv => QuietFrame
  BY DEF Timeout, QuietFrame, CalmFrame
<1> QED
  BY <1>5, <1>7, <1>8, <1>9, GateKeeps

(* A login service keeps the types. *)
LEMMA LoginTypes ==
  ASSUME TypeInv, NEW i \in Attempt, LoginStep(i)
  PROVE  TypeInv'
<1> USE DEF cvars, gvars, lvars, mvars
<1>0. TypeOK /\ queue \in [Service -> Seq(Message)] /\ HandlerMade
  BY DEF TypeInv, TypeOK, MadeInv
<1>1. attempt[i] # None
  BY DEF LoginStep, LoginStart, LoginGranted, TypeInv, MadeInv, Made
<1>2. PICK s \in {AgentMgr, GateOf(i)}, n \in {ReqMsg(i), [type |-> "sure_agent", login |-> i]} :
        /\ queue' = Post(queue, s, <<n>>)
        /\ login' \in {[login EXCEPT ![i] = "req_login"], [login EXCEPT ![i] = "sure_agent"]}
  BY DEF LoginStep, LoginStart, LoginGranted, ReqMsg
<1>3. n \in Message /\ n.type \in {"req_login", "sure_agent"} /\ n.login = i
  BY <1>2 DEF Message, ReqMsg
<1>4. Grows(queue, queue', {<<s, n>>})
  BY <1>0, <1>2, <1>3, PostOne
<1>5. UNCHANGED <<cvars, gvars, attempt, mvars, agent>>
  BY DEF LoginStep, LoginStart, LoginGranted
<1>6. login' \in [Attempt -> LoginState]
  BY <1>0, <1>2 DEF TypeOK, LoginState
<1>7. TypeOK'
  BY <1>0, <1>4, <1>5, <1>6 DEF TypeOK, Grows
<1>8. \A x \in {<<s, n>>} : x[2].type \in {"login", "req_login", "sure_agent"} =>
                               attempt[x[2].login] # None
  BY <1>1, <1>3
<1>9. \A x \in {<<s, n>>} : x[2].type # "reconnect"
  BY <1>3
<1>10. \A j \in Attempt : attempt[j] = None => login'[j] \in {login[j], "fail"}
  BY <1>0, <1>1, <1>2 DEF TypeOK
<1>11. HandlerMade'
  BY <1>0, <1>5, HandlersStayMade
<1>12. \A j \in Attempt : attempt[j] = None => timers'[j] \in {timers[j], timers[j] - 1}
  BY <1>5
<1>13. \A g \in Gate, p \in Player : players'[g][p] # None => attempt[players'[g][p]] # None
  BY <1>5 DEF TypeInv, MadeInv, Made
<1>14. \A p \in Player : mgr_players'[p] # None => attempt[mgr_players'[p]] # None
  BY <1>5 DEF TypeInv, MadeInv, Made
<1>15. /\ attempt' = attempt
       /\ \A fd \in Fd : sock[fd] # "new" => sock'[fd] # "new"
       /\ \A j \in Attempt : attempt[j] = None => agent'[j] = agent[j]
  BY <1>5
<1> QED
  BY <1>4, <1>7, <1>8, <1>9, <1>10, <1>11, <1>12, <1>13, <1>14, <1>15, StaysMade

(* A step of agent_mgr, from what it does to each of its variables. *)
LEMMA MgrStays ==
  ASSUME TypeInv, UNCHANGED <<cvars, gvars, attempt>>,
         NEW new, Grows(queue, queue', new), NamesNone(new),
         login' \in [Attempt -> LoginState],
         mgr_players' \in [Player -> Attempt \cup {None}],
         status' \in [Attempt -> {"none", "LOGIN", "GAME", "LOGOUT"}],
         agent' \in [Attempt -> {"none", "loading", "running", "saving", "saved", "gone"}],
         \A c \in co' : c \in co \/ (c \in Coroutine /\ MadeHandler(c)),
         \A i \in Attempt : attempt[i] = None => agent'[i] = agent[i],
         \A i \in Attempt : attempt[i] = None => login'[i] \in {login[i], "fail"},
         \A p \in Player : mgr_players'[p] \in {mgr_players[p], None}
                             \/ attempt[mgr_players'[p]] # None
  PROVE  TypeInv'
<1> USE DEF cvars, gvars
<1>0. TypeOK /\ HandlerMade
  BY DEF TypeInv, MadeInv
<1>1. co' \subseteq Coroutine
  BY <1>0 DEF TypeOK
<1>2. TypeOK'
  BY <1>0, <1>1 DEF TypeOK, Grows
<1>3. attempt' = attempt
  OBVIOUS
<1>4. HandlerMade'
  BY <1>0, <1>3 DEF HandlerMade, MadeHandler, Made
<1>5. \A i \in Attempt : attempt[i] = None => timers'[i] \in {timers[i], timers[i] - 1}
  OBVIOUS
<1>6. \A fd \in Fd : sock[fd] # "new" => sock'[fd] # "new"
  OBVIOUS
<1>7. \A g \in Gate, p \in Player : players'[g][p] # None => attempt[players'[g][p]] # None
  BY DEF TypeInv, MadeInv, Made
<1>8. \A p \in Player : mgr_players'[p] # None => attempt[mgr_players'[p]] # None
  BY DEF TypeInv, MadeInv, Made
<1>9. \A x \in new : x[2].type # "reconnect"
  BY DEF NamesNone
<1>10. \A x \in new : x[2].type \in {"login", "req_login", "sure_agent"} =>
                           attempt[x[2].login] # None
  BY DEF NamesNone
<1>11. \A i \in Attempt : attempt[i] = None => agent'[i] = agent[i]
  OBVIOUS
<1>12. \A i \in Attempt : attempt[i] = None => login'[i] \in {login[i], "fail"}
  OBVIOUS
<1> QED
  BY <1>2, <1>3, <1>4, <1>5, <1>6, <1>7, <1>8, <1>9, <1>10, <1>11, <1>12, StaysMade

(* What the manager's variables hold, and the message it reads. *)
LEMMA MgrReads ==
  ASSUME TypeInv, queue[AgentMgr] # << >>
  PROVE  LET m == Head(queue[AgentMgr]) IN
         /\ Grows(queue, Taken(AgentMgr), {})
         /\ Taken(AgentMgr) \in [Service -> Seq(Message)]
         /\ m \in Message /\ m \in Msgs(queue, AgentMgr)
         /\ m.type = "req_login" => m.login \in Attempt /\ attempt[m.login] # None
         /\ m.type = "req_kick" => m.player \in Player /\ m.by \in Attempt \cup {None}
         /\ m.type = "resume" => m.co \in Coroutine
<1> DEFINE m == Head(queue[AgentMgr])
<1>0. AgentMgr \in Service
  BY DEF Service
<1>1. Grows(queue, Taken(AgentMgr), {})
  BY <1>0, TakenQueue DEF TypeInv, TypeOK
<1>2. /\ m \in Message /\ m \in Msgs(queue, AgentMgr)
      /\ m.type = "req_login" => attempt[m.login] # None
  BY <1>0, HeadMade
<1> HIDE DEF m
<1>3. /\ m.type = "req_login" => m.login \in Attempt /\ attempt[m.login] # None
      /\ m.type = "req_kick" => m.player \in Player /\ m.by \in Attempt \cup {None}
      /\ m.type = "resume" => m.co \in Coroutine
  BY <1>2, MessageFields
<1> QED
  BY <1>1, <1>2, <1>3 DEF m, Grows

(* A new mgr_player and its agent. *)
LEMMA CreateTypes ==
  ASSUME TypeInv, queue[AgentMgr] # << >>, NEW i \in Attempt, attempt[i] # None,
         NEW waiting, CreateAgent(i, waiting), UNCHANGED <<cvars, gvars, attempt>>
  PROVE  TypeInv'
<1>0. TypeOK /\ PlayerOf(i) \in Player /\ i # None
  BY NameAssumption DEF TypeInv, TypeOK, PlayerOf
<1>1. Grows(queue, queue', {}) /\ NamesNone({})
  BY MgrReads DEF CreateAgent, NamesNone
<1>2. NewHandler(i) \in Coroutine /\ MadeHandler(NewHandler(i))
  BY <1>0 DEF NewHandler, Coroutine, MadeHandler, Made
<1>3. \A c \in co' : c \in co \/ (c \in Coroutine /\ MadeHandler(c))
  BY <1>2 DEF CreateAgent, NewHandler
<1>4. /\ login' \in [Attempt -> LoginState]
      /\ mgr_players' \in [Player -> Attempt \cup {None}]
      /\ status' \in [Attempt -> {"none", "LOGIN", "GAME", "LOGOUT"}]
      /\ agent' \in [Attempt -> {"none", "loading", "running", "saving", "saved", "gone"}]
  BY <1>0 DEF CreateAgent, TypeOK
<1>5. /\ \A j \in Attempt : attempt[j] = None => agent'[j] = agent[j]
      /\ \A j \in Attempt : attempt[j] = None => login'[j] \in {login[j], "fail"}
  BY <1>0 DEF CreateAgent, TypeOK
<1>6. \A p \in Player : mgr_players'[p] \in {mgr_players[p], None}
                             \/ attempt[mgr_players'[p]] # None
  BY <1>0 DEF CreateAgent, TypeOK
<1> QED
  BY <1>1, <1>3, <1>4, <1>5, <1>6, MgrStays

(* A handler that takes a mgr_player off. *)
LEMMA EvictTypes ==
  ASSUME TypeInv, queue[AgentMgr] # << >>, NEW v \in Attempt,
         NEW c \in Coroutine, MadeHandler(c), Evict(v, c),
         UNCHANGED <<cvars, gvars, lvars, mgr_players, agent>>
  PROVE  TypeInv'
<1> USE DEF lvars
<1>0. TypeOK /\ queue \in [Service -> Seq(Message)] /\ AgentMgr \in Service
  BY DEF TypeInv, TypeOK, Service
<1> DEFINE n == [type |-> "agent_kick", co |-> c]
<1>1. n \in Message /\ n.type = "agent_kick"
  BY DEF Message
<1>2. queue' = Post(Taken(AgentMgr), v, <<n>>)
  BY DEF Evict
<1> HIDE DEF n
<1>3. Grows(queue, queue', {<<v, n>>})
  BY <1>0, <1>1, <1>2, TakenPost
<1>4. NamesNone({<<v, n>>})
  BY <1>1 DEF NamesNone
<1>5. \A d \in co' : d \in co \/ (d \in Coroutine /\ MadeHandler(d))
  BY DEF Evict
<1>6. /\ login' \in [Attempt -> LoginState]
      /\ mgr_players' \in [Player -> Attempt \cup {None}]
      /\ status' \in [Attempt -> {"none", "LOGIN", "GAME", "LOGOUT"}]
      /\ agent' \in [Attempt -> {"none", "loading", "running", "saving", "saved", "gone"}]
  BY <1>0 DEF Evict, TypeOK
<1> QED
  BY <1>3, <1>4, <1>5, <1>6, MgrStays

(* The handler that an answer resumes. *)
LEMMA ResumedHandler ==
  ASSUME TypeInv, NEW at, Resumes(at)
  PROVE  LET c == Head(queue[AgentMgr]).co IN
         /\ queue[AgentMgr] # << >> /\ c \in co /\ c \in Coroutine /\ c.at = at
         /\ Answer(c) \in Msgs(queue, AgentMgr)
         /\ c.login \in Attempt \cup {None} /\ c.victim \in Attempt \cup {None}
         /\ c.by \in Attempt \cup {None}
         /\ c.login # None => c.login \in Attempt /\ attempt[c.login] # None
         /\ c.victim # None => c.victim \in Attempt /\ attempt[c.victim] # None
         /\ at # "agent_kick" => c.login # None
         /\ at # "new_service" => c.victim # None
         /\ at = "new_service" => c = NewHandler(c.login)
<1> DEFINE m == Head(queue[AgentMgr])
           c == m.co
<1>1. /\ queue[AgentMgr] # << >> /\ c \in co /\ c.at = at /\ m.type = "resume"
  BY DEF Resumes, Receives
<1>2. c \in Coroutine /\ m \in Message /\ m \in Msgs(queue, AgentMgr)
  BY <1>1, MgrReads
<1>3. MadeHandler(c)
  BY <1>1 DEF TypeInv, MadeInv, HandlerMade
<1>4. m = Answer(c)
  BY <1>1, <1>2 DEF Message, Answer
<1> HIDE DEF c, m
<1>5. c.login \in Attempt \cup {None} /\ c.victim \in Attempt \cup {None}
      /\ c.by \in Attempt \cup {None}
  BY <1>2 DEF Coroutine
<1>6. Answer(c) \in Msgs(queue, AgentMgr)
  BY <1>2, <1>4
<1>7. /\ queue[AgentMgr] # << >> /\ c \in co /\ c \in Coroutine /\ c.at = at
      /\ Answer(c) \in Msgs(queue, AgentMgr)
      /\ c.login \in Attempt \cup {None} /\ c.victim \in Attempt \cup {None}
      /\ c.by \in Attempt \cup {None}
      /\ c.login # None => c.login \in Attempt /\ attempt[c.login] # None
      /\ c.victim # None => c.victim \in Attempt /\ attempt[c.victim] # None
      /\ at # "agent_kick" => c.login # None
      /\ at # "new_service" => c.victim # None
      /\ at = "new_service" => c = NewHandler(c.login)
  BY <1>1, <1>2, <1>3, <1>5, <1>6 DEF MadeHandler, Made
<1> QED
  BY <1>7 DEF c, m

(* Whoever is answered fails. *)
LEMMA AnsweredTypes ==
  ASSUME TypeOK, NEW by \in Attempt \cup {None}, login' = Answered(by)
  PROVE  /\ login' \in [Attempt -> LoginState]
         /\ \A j \in Attempt : login'[j] \in {login[j], "fail"}
BY DEF TypeOK, Answered, LoginState

(* What agent_mgr does keeps the types. *)
LEMMA MgrTypes ==
  ASSUME TypeInv, MgrStep
  PROVE  TypeInv'
<1> USE DEF lvars
<1>0. /\ TypeOK /\ queue \in [Service -> Seq(Message)] /\ AgentMgr \in Service
      /\ \A i \in Attempt : attempt[i] # None => PlayerOf(i) \in Player
  BY DEF TypeInv, TypeOK, Service, PlayerOf
<1> DEFINE m == Head(queue[AgentMgr])
<1>1. ASSUME ReqLogin PROVE TypeInv'
  <2> DEFINE i == m.login
             v == mgr_players[PlayerOf(i)]
  <2>1. queue[AgentMgr] # << >> /\ i \in Attempt /\ attempt[i] # None
    <3>1. queue[AgentMgr] # << >> /\ m.type = "req_login"
      BY <1>1 DEF ReqLogin, Receives
    <3> QED
      BY <3>1, MgrReads
  <2>2. UNCHANGED <<cvars, gvars, attempt>>
    BY <1>1 DEF ReqLogin
  <2>3. v \in Attempt \cup {None} /\ (v # None => attempt[v] # None)
    BY <1>0, <2>1 DEF TypeOK, TypeInv, MadeInv, Made
  <2>4. CASE CreateAgent(i, {})
    BY <2>1, <2>2, <2>4, CreateTypes
  <2>5. CASE /\ login' = [login EXCEPT ![i] = "fail"]
             /\ queue' = Taken(AgentMgr)
             /\ UNCHANGED <<mvars, agent>>
    <3>1. Grows(queue, queue', {}) /\ NamesNone({})
      BY <2>1, <2>5, MgrReads DEF NamesNone
    <3>2. /\ login' \in [Attempt -> LoginState]
          /\ \A j \in Attempt : attempt[j] = None => login'[j] \in {login[j], "fail"}
      BY <1>0, <2>5 DEF TypeOK, LoginState
    <3>3. /\ mgr_players' \in [Player -> Attempt \cup {None}]
          /\ status' \in [Attempt -> {"none", "LOGIN", "GAME", "LOGOUT"}]
          /\ agent' \in [Attempt -> {"none", "loading", "running", "saving", "saved", "gone"}]
      BY <1>0, <2>5 DEF TypeOK, mvars
    <3>4. UNCHANGED <<mvars, agent>>
      BY <2>5
    <3>5. \A c \in co' : c \in co \/ (c \in Coroutine /\ MadeHandler(c))
      BY <3>4 DEF mvars
    <3>6. /\ \A j \in Attempt : attempt[j] = None => agent'[j] = agent[j]
          /\ \A p \in Player : mgr_players'[p] \in {mgr_players[p], None}
                             \/ attempt[mgr_players'[p]] # None
      BY <3>4 DEF mvars
    <3> QED
      BY <2>2, <3>1, <3>2, <3>3, <3>5, <3>6, MgrStays
  <2>6. CASE /\ v # None
             /\ Evict(v, [at |-> "agent_kick", login |-> i, victim |-> v, by |-> None])
             /\ UNCHANGED <<mgr_players, login, agent>>
    <3> DEFINE c == [at |-> "agent_kick", login |-> i, victim |-> v, by |-> None]
    <3>1. c \in Coroutine /\ MadeHandler(c)
      BY <2>1, <2>3, <2>6 DEF Coroutine, MadeHandler, Made
    <3>2. v \in Attempt /\ Evict(v, c) /\ UNCHANGED <<cvars, gvars, lvars, mgr_players, agent>>
      BY <2>2, <2>3, <2>6
    <3> HIDE DEF c
    <3> QED
      BY <2>1, <3>1, <3>2, EvictTypes
  <2> QED
    BY <1>1, <2>4, <2>5, <2>6 DEF ReqLogin
<1>2. ASSUME ReqKick PROVE TypeInv'
  <2> DEFINE v == mgr_players[m.player]
             by == m.by
  <2>1. queue[AgentMgr] # << >> /\ m.player \in Player /\ by \in Attempt \cup {None}
    <3>1. queue[AgentMgr] # << >> /\ m.type = "req_kick"
      BY <1>2 DEF ReqKick, Receives
    <3> QED
      BY <3>1, MgrReads
  <2>2. v \in Attempt \cup {None} /\ (v # None => attempt[v] # None)
    BY <1>0, <2>1 DEF TypeOK, TypeInv, MadeInv, Made
  <2>3. UNCHANGED <<cvars, gvars, attempt, mgr_players, agent>>
    BY <1>2 DEF ReqKick
  <2>4. CASE v # None /\ MayKick(v)
    <3> DEFINE c == [at |-> "agent_kick", login |-> None, victim |-> v, by |-> by]
    <3>1. c \in Coroutine /\ MadeHandler(c)
      BY <2>1, <2>2, <2>4 DEF Coroutine, MadeHandler, Made
    <3>2. v \in Attempt /\ Evict(v, c) /\ UNCHANGED <<cvars, gvars, lvars, mgr_players, agent>>
      BY <1>2, <2>2, <2>3, <2>4 DEF ReqKick
    <3> HIDE DEF c
    <3> QED
      BY <2>1, <3>1, <3>2, EvictTypes
  <2>5. CASE ~(v # None /\ MayKick(v))
    <3>0. /\ login' = Answered(by) /\ queue' = Taken(AgentMgr)
          /\ UNCHANGED <<status, co, mgr_players, agent>>
      BY <1>2, <2>3, <2>5 DEF ReqKick
    <3>1. Grows(queue, queue', {}) /\ NamesNone({})
      BY <2>1, <3>0, MgrReads DEF NamesNone
    <3> HIDE DEF by
    <3>2. /\ login' \in [Attempt -> LoginState]
          /\ \A j \in Attempt : attempt[j] = None => login'[j] \in {login[j], "fail"}
      BY <1>0, <2>1, <3>0, AnsweredTypes
    <3>3. /\ mgr_players' \in [Player -> Attempt \cup {None}]
          /\ status' \in [Attempt -> {"none", "LOGIN", "GAME", "LOGOUT"}]
          /\ agent' \in [Attempt -> {"none", "loading", "running", "saving", "saved", "gone"}]
      BY <1>0, <3>0 DEF TypeOK
    <3>4. \A c \in co' : c \in co \/ (c \in Coroutine /\ MadeHandler(c))
      BY <3>0
    <3>5. /\ \A j \in Attempt : attempt[j] = None => agent'[j] = agent[j]
          /\ \A p \in Player : mgr_players'[p] \in {mgr_players[p], None}
                             \/ attempt[mgr_players'[p]] # None
      BY <3>0
    <3> QED
      BY <2>3, <3>1, <3>2, <3>3, <3>4, <3>5, MgrStays
  <2> QED
    BY <2>4, <2>5
<1> DEFINE c == m.co
<1>3. ASSUME TakeOver PROVE TypeInv'
  <2> DEFINE d == [c EXCEPT !.at = "gate_kick"]
             p == PlayerOf(c.login)
             g == GateToTell(c)
             q == Post(Taken(AgentMgr), c.victim, <<[type |-> "exit"]>>)
             s1 == [type |-> "send", player |-> p]
             s2 == [type |-> "kick", player |-> p, co |-> d]
  <2>1. /\ queue[AgentMgr] # << >> /\ c \in co /\ c \in Coroutine /\ c.login # None
        /\ c.login \in Attempt /\ attempt[c.login] # None
        /\ c.victim # None /\ c.victim \in Attempt /\ attempt[c.victim] # None
    BY <1>3, ResumedHandler DEF TakeOver
  <2>2. d \in Coroutine /\ MadeHandler(d)
    <3> HIDE DEF c
    <3>1. c = [at |-> c.at, login |-> c.login, victim |-> c.victim, by |-> c.by]
          /\ c.by \in Attempt \cup {None}
      BY <2>1 DEF Coroutine
    <3>2. d = [at |-> "gate_kick", login |-> c.login, victim |-> c.victim, by |-> c.by]
      BY <3>1
    <3> QED
      BY <2>1, <3>1, <3>2 DEF Coroutine, MadeHandler, Made
  <2>3. /\ [type |-> "exit"] \in Message /\ s1 \in Message /\ s2 \in Message
        /\ [type |-> "exit"].type = "exit" /\ s1.type = "send" /\ s2.type = "kick"
    <3>1. p \in Player
      BY <1>0, <2>1
    <3> HIDE DEF p, d
    <3> QED
      BY <2>2, <3>1 DEF Message
  <2>4. /\ co' = (co \ {c}) \cup {d}
        /\ queue' = Post(q, g, <<s1, s2>>)
        /\ UNCHANGED <<cvars, gvars, lvars, mgr_players, status, agent>>
    BY <1>3 DEF TakeOver
  <2> HIDE DEF c, d, p, g, s1, s2
  <2>5. Grows(queue, q, {<<c.victim, [type |-> "exit"]>>})
    BY <1>0, <2>1, <2>3, TakenPost
  <2>6. q \in [Service -> Seq(Message)]
    BY <2>5 DEF Grows
  <2> HIDE DEF q
  <2>7. Grows(q, queue', {<<g, s1>>, <<g, s2>>})
    BY <2>3, <2>4, <2>6, PostTwo
  <2> DEFINE new == {<<c.victim, [type |-> "exit"]>>} \cup {<<g, s1>>, <<g, s2>>}
  <2>8. Grows(queue, queue', new)
    BY <2>5, <2>7, GrowsTwice
  <2>9. NamesNone(new)
    BY <2>3 DEF NamesNone
  <2> HIDE DEF new
  <2>10. \A e \in co' : e \in co \/ (e \in Coroutine /\ MadeHandler(e))
    BY <2>2, <2>4
  <2>11. /\ mgr_players' \in [Player -> Attempt \cup {None}]
         /\ status' \in [Attempt -> {"none", "LOGIN", "GAME", "LOGOUT"}]
         /\ agent' \in [Attempt -> {"none", "loading", "running", "saving", "saved", "gone"}]
         /\ login' \in [Attempt -> LoginState]
    BY <1>0, <2>4 DEF TypeOK
  <2>12. /\ \A j \in Attempt : attempt[j] = None => agent'[j] = agent[j]
         /\ \A j \in Attempt : attempt[j] = None => login'[j] \in {login[j], "fail"}
         /\ \A z \in Player : mgr_players'[z] \in {mgr_players[z], None}
                             \/ attempt[mgr_players'[z]] # None
         /\ UNCHANGED <<cvars, gvars, attempt>>
    BY <2>4
  <2> QED
    BY <2>8, <2>9, <2>10, <2>11, <2>12, MgrStays
<1>4. ASSUME TakenOver PROVE TypeInv'
  <2>1. /\ queue[AgentMgr] # << >> /\ c.login # None
        /\ c.login \in Attempt /\ attempt[c.login] # None
    BY <1>4, ResumedHandler DEF TakenOver
  <2>2. CreateAgent(c.login, {c}) /\ UNCHANGED <<cvars, gvars, attempt>>
    BY <1>4 DEF TakenOver
  <2> HIDE DEF c
  <2> QED
    BY <2>1, <2>2, CreateTypes
<1>5. ASSUME KickOff PROVE TypeInv'
  <2> DEFINE p == PlayerOf(c.victim)
             g == GateOf(c.victim)
             q == Post(Taken(AgentMgr), c.victim, <<[type |-> "exit"]>>)
             s == [type |-> "kick", player |-> p, co |-> None]
  <2>1. /\ queue[AgentMgr] # << >>
        /\ c.victim # None /\ c.victim \in Attempt /\ attempt[c.victim] # None
        /\ c.by \in Attempt \cup {None}
    BY <1>5, ResumedHandler DEF KickOff
  <2>2. p \in Player
    BY <1>0, <2>1
  <2>3. /\ co' = co \ {c}
        /\ mgr_players' = [mgr_players EXCEPT ![p] = None]
        /\ login' = Answered(c.by)
        /\ queue' = Post(q, g, <<s>>)
        /\ UNCHANGED <<cvars, gvars, attempt, status, agent>>
    BY <1>5 DEF KickOff
  <2> HIDE DEF p
  <2>4. /\ [type |-> "exit"] \in Message /\ s \in Message
        /\ [type |-> "exit"].type = "exit" /\ s.type = "kick"
    BY <2>2 DEF Message
  <2> HIDE DEF c, g, s
  <2>5. Grows(queue, q, {<<c.victim, [type |-> "exit"]>>})
    BY <1>0, <2>1, <2>4, TakenPost
  <2>6. q \in [Service -> Seq(Message)]
    BY <2>5 DEF Grows
  <2> HIDE DEF q
  <2>7. Grows(q, queue', {<<g, s>>})
    BY <2>3, <2>4, <2>6, PostOne
  <2> DEFINE new == {<<c.victim, [type |-> "exit"]>>} \cup {<<g, s>>}
  <2>8. Grows(queue, queue', new)
    BY <2>5, <2>7, GrowsTwice
  <2>9. NamesNone(new)
    BY <2>4 DEF NamesNone
  <2> HIDE DEF new
  <2>10. /\ login' \in [Attempt -> LoginState]
         /\ \A j \in Attempt : attempt[j] = None => login'[j] \in {login[j], "fail"}
    BY <1>0, <2>1, <2>3, AnsweredTypes
  <2>11. /\ mgr_players' \in [Player -> Attempt \cup {None}]
         /\ status' \in [Attempt -> {"none", "LOGIN", "GAME", "LOGOUT"}]
         /\ agent' \in [Attempt -> {"none", "loading", "running", "saving", "saved", "gone"}]
    BY <1>0, <2>2, <2>3 DEF TypeOK
  <2>12. /\ \A e \in co' : e \in co \/ (e \in Coroutine /\ MadeHandler(e))
         /\ \A j \in Attempt : attempt[j] = None => agent'[j] = agent[j]
         /\ UNCHANGED <<cvars, gvars, attempt>>
    BY <2>3
  <2>13. \A z \in Player : mgr_players'[z] \in {mgr_players[z], None}
                             \/ attempt[mgr_players'[z]] # None
    BY <1>0, <2>2, <2>3 DEF TypeOK
  <2> QED
    BY <2>8, <2>9, <2>10, <2>11, <2>12, <2>13, MgrStays
<1>6. ASSUME EnterGame PROVE TypeInv'
  <2>1. queue[AgentMgr] # << >> /\ c.login \in Attempt /\ attempt[c.login] # None
    BY <1>6, ResumedHandler DEF EnterGame
  <2>2. /\ status' = [status EXCEPT ![c.login] = "GAME"]
        /\ login' = [login EXCEPT ![c.login] = "granted"]
        /\ co' = co \ {c}
        /\ queue' = Taken(AgentMgr)
        /\ UNCHANGED <<cvars, gvars, attempt, mgr_players, agent>>
    BY <1>6 DEF EnterGame
  <2> HIDE DEF c
  <2>3. Grows(queue, queue', {}) /\ NamesNone({})
    BY <2>1, <2>2, MgrReads DEF NamesNone
  <2>4. /\ login' \in [Attempt -> LoginState]
        /\ \A j \in Attempt : attempt[j] = None => login'[j] \in {login[j], "fail"}
    BY <1>0, <2>1, <2>2 DEF TypeOK, LoginState
  <2>5. /\ mgr_players' \in [Player -> Attempt \cup {None}]
        /\ status' \in [Attempt -> {"none", "LOGIN", "GAME", "LOGOUT"}]
        /\ agent' \in [Attempt -> {"none", "loading", "running", "saving", "saved", "gone"}]
    BY <1>0, <2>1, <2>2 DEF TypeOK
  <2>6. /\ \A e \in co' : e \in co \/ (e \in Coroutine /\ MadeHandler(e))
        /\ \A j \in Attempt : attempt[j] = None => agent'[j] = agent[j]
        /\ \A z \in Player : mgr_players'[z] \in {mgr_players[z], None}
                             \/ attempt[mgr_players'[z]] # None
        /\ UNCHANGED <<cvars, gvars, attempt>>
    BY <2>2
  <2> QED
    BY <2>3, <2>4, <2>5, <2>6, MgrStays
<1> QED
  BY <1>1, <1>2, <1>3, <1>4, <1>5, <1>6 DEF MgrStep

(* A step of an agent, from what it does. *)
LEMMA AgentStays ==
  ASSUME TypeInv, NEW i \in Attempt, attempt[i] # None,
         NEW to \in {"loading", "running", "saving", "saved", "gone"},
         agent' = [agent EXCEPT ![i] = to],
         UNCHANGED <<cvars, gvars, lvars, mvars>>,
         NEW new, Grows(queue, queue', new), NamesNone(new)
  PROVE  TypeInv'
<1> USE DEF lvars, mvars
<1>0. TypeOK
  BY DEF TypeInv
<1>1. /\ mgr_players' \in [Player -> Attempt \cup {None}]
      /\ status' \in [Attempt -> {"none", "LOGIN", "GAME", "LOGOUT"}]
      /\ agent' \in [Attempt -> {"none", "loading", "running", "saving", "saved", "gone"}]
      /\ login' \in [Attempt -> LoginState]
  BY <1>0 DEF TypeOK
<1>2. \A j \in Attempt : attempt[j] = None => agent'[j] = agent[j]
  BY <1>0 DEF TypeOK
<1>3. /\ \A c \in co' : c \in co \/ (c \in Coroutine /\ MadeHandler(c))
      /\ \A j \in Attempt : attempt[j] = None => login'[j] \in {login[j], "fail"}
      /\ \A p \in Player : mgr_players'[p] \in {mgr_players[p], None}
                             \/ attempt[mgr_players'[p]] # None
      /\ UNCHANGED <<cvars, gvars, attempt>>
  OBVIOUS
<1> QED
  BY <1>1, <1>2, <1>3, MgrStays

(* What an agent does keeps the types. *)
LEMMA AgentTypes ==
  ASSUME TypeInv, NEW i \in Attempt, AgentStep(i)
  PROVE  TypeInv'
<1>0. /\ TypeOK /\ queue \in [Service -> Seq(Message)] /\ i \in Service /\ AgentMgr \in Service
      /\ agent \in [Attempt -> {"none", "loading", "running", "saving", "saved", "gone"}]
      /\ agent[i] # "none" => attempt[i] # None /\ PlayerOf(i) \in Player
      /\ Grows(queue, queue, {}) /\ NamesNone({})
  BY GrowsNot DEF TypeInv, TypeOK, Service, MadeInv, Made, PlayerOf, NamesNone
<1>1. ASSUME NEW c \in co
      PROVE  LET q == Post(queue, AgentMgr, Resume(c)) IN
             \E new : Grows(queue, q, new) /\ NamesNone(new)
  <2> DEFINE q == Post(queue, AgentMgr, Resume(c))
             new == IF c = None THEN {} ELSE {<<AgentMgr, Answer(c)>>}
  <2>1. Grows(queue, q, new)
    BY <1>0, PostResume DEF TypeOK
  <2>2. NamesNone(new)
    BY DEF NamesNone, Answer
  <2> HIDE DEF q, new
  <2>3. \E z : Grows(queue, q, z) /\ NamesNone(z)
    BY <2>1, <2>2
  <2> QED
    BY <2>3 DEF q
<1>2. ASSUME queue[i] # << >> PROVE Grows(queue, Taken(i), {})
  BY <1>0, <1>2, TakenQueue
<1>3. ASSUME AgentLoaded(i) PROVE TypeInv'
  <2>1. PICK c \in co : queue' = Post(queue, AgentMgr, Resume(c))
    BY <1>3 DEF AgentLoaded
  <2>2. PICK new : Grows(queue, queue', new) /\ NamesNone(new)
    BY <1>1, <2>1
  <2>3. /\ agent' = [agent EXCEPT ![i] = "running"] /\ attempt[i] # None
        /\ UNCHANGED <<cvars, gvars, lvars, mvars>>
    BY <1>0, <1>3 DEF AgentLoaded
  <2> QED
    BY <2>2, <2>3, AgentStays
<1>4. ASSUME AgentClient(i) PROVE TypeInv'
  <2> DEFINE n == [type |-> "send", player |-> PlayerOf(i)]
             g == Head(queue[i]).gate
  <2>1. /\ queue[i] # << >> /\ attempt[i] # None /\ PlayerOf(i) \in Player
        /\ queue' = Post(Taken(i), g, <<n>>)
        /\ agent' = agent /\ UNCHANGED <<cvars, gvars, lvars, mvars>>
    BY <1>0, <1>4 DEF AgentClient, Receives
  <2>2. n \in Message /\ n.type = "send"
    BY <2>1 DEF Message
  <2> HIDE DEF n, g
  <2>3. Grows(queue, queue', {<<g, n>>})
    BY <1>0, <2>1, <2>2, TakenPost
  <2>4. NamesNone({<<g, n>>})
    BY <2>2 DEF NamesNone
  <2>5. PICK to \in {"loading", "running", "saving", "saved", "gone"} :
          agent' = [agent EXCEPT ![i] = to]
    <3>1. agent[i] \in {"running", "saving", "saved"}
      BY <1>4 DEF AgentClient
    <3>2. agent' = [agent EXCEPT ![i] = agent[i]]
      BY <1>0, <2>1
    <3> QED
      BY <3>1, <3>2
  <2> QED
    BY <2>1, <2>3, <2>4, <2>5, AgentStays
<1>5. ASSUME AgentKick(i) PROVE TypeInv'
  <2>1. /\ queue[i] # << >> /\ attempt[i] # None /\ queue' = Taken(i)
        /\ agent' = [agent EXCEPT ![i] = "saving"] /\ UNCHANGED <<cvars, gvars, lvars, mvars>>
    BY <1>0, <1>5 DEF AgentKick, Receives
  <2> QED
    BY <1>0, <1>2, <2>1, AgentStays
<1>6. ASSUME AgentSaved(i) PROVE TypeInv'
  <2>1. PICK c \in co : queue' = Post(queue, AgentMgr, Resume(c))
    BY <1>6 DEF AgentSaved
  <2>2. PICK new : Grows(queue, queue', new) /\ NamesNone(new)
    BY <1>1, <2>1
  <2>3. /\ agent' = [agent EXCEPT ![i] = "saved"] /\ attempt[i] # None
        /\ UNCHANGED <<cvars, gvars, lvars, mvars>>
    BY <1>0, <1>6 DEF AgentSaved
  <2> QED
    BY <2>2, <2>3, AgentStays
<1>7. ASSUME AgentExit(i) PROVE TypeInv'
  <2>1. /\ attempt[i] # None /\ queue' = [queue EXCEPT ![i] = << >>]
        /\ agent' = [agent EXCEPT ![i] = "gone"] /\ UNCHANGED <<cvars, gvars, lvars, mvars>>
    BY <1>0, <1>7 DEF AgentExit
  <2>2. Grows(queue, queue', {})
    BY <1>0, <2>1, EmptiedQueue
  <2> QED
    BY <1>0, <2>1, <2>2, AgentStays
<1> QED
  BY <1>3, <1>4, <1>5, <1>6, <1>7 DEF AgentStep

-----------------------------------------------------------------------------
(* Sessions. *)

(* What a client does disturbs none. *)
LEMMA ClientSessions ==
  ASSUME TypeInv, SessionInv, NEW fd \in Fd,
         \/ \E g \in Gate : Connect(fd, g)
         \/ \E p \in Player : ClientLogin(fd, p)
         \/ \E i \in Attempt : ClientReconnect(fd, i)
         \/ ClientWork(fd) \/ ClientClose(fd)
  PROVE  SessionInv'
<1> USE DEF cvars, gvars, lvars, mvars
<1>0. TypeOK /\ queue \in [Service -> Seq(Message)] /\ port[fd] \in Gate \cup {None}
  BY DEF TypeInv, TypeOK
<1>1. ASSUME NEW g \in Gate, Connect(fd, g) PROVE SessionInv'
  <2>1. Grows(queue, queue', {}) /\ Quiet({})
    BY <1>0, <1>1, GrowsNot DEF Connect, Quiet, Calm
  <2>2. \A i \in Attempt : attempt[i] # None => port'[attempt[i].fd] = port[attempt[i].fd]
    BY <1>0, <1>1 DEF Connect, TypeInv, TypeOK, MadeInv, Made, FdOf
  <2>3. QuietFrame
    BY <1>1, <2>2 DEF Connect, QuietFrame, CalmFrame
  <2> QED
    BY <2>1, <2>3, QuietStep
<1>2. ASSUME NEW m \in Message, m.type \in {"work", "close", "reconnect"},
             queue' = Post(queue, port[fd], <<m>>),
             UNCHANGED <<port, gvars, lvars, mvars, agent>>
      PROVE  SessionInv'
  <2>1. Grows(queue, queue', {<<port[fd], m>>})
    BY <1>0, <1>2, PostOne
  <2>2. Quiet({<<port[fd], m>>})
    BY <1>0, <1>2, ServiceNames DEF Quiet, Calm
  <2>3. QuietFrame
    BY <1>2 DEF QuietFrame, CalmFrame
  <2> QED
    BY <2>1, <2>2, <2>3, QuietStep
<1>3. ASSUME NEW i \in Attempt, ClientReconnect(fd, i) PROVE SessionInv'
  <2> DEFINE m == [type |-> "reconnect", fd |-> fd, key |-> i]
  <2>1. m \in Message /\ m.type = "reconnect"
    BY DEF Message
  <2>2. /\ queue' = Post(queue, port[fd], <<m>>)
        /\ UNCHANGED <<port, gvars, lvars, mvars, agent>>
    BY <1>3 DEF ClientReconnect, ClientSend
  <2> HIDE DEF m
  <2> QED
    BY <1>2, <2>1, <2>2
<1>4. ASSUME ClientWork(fd) PROVE SessionInv'
  <2> DEFINE m == [type |-> "work", fd |-> fd]
  <2>1. m \in Message /\ m.type = "work"
    BY DEF Message
  <2>2. /\ queue' = Post(queue, port[fd], <<m>>)
        /\ UNCHANGED <<port, gvars, lvars, mvars, agent>>
    BY <1>4 DEF ClientWork, ClientSend
  <2> HIDE DEF m
  <2> QED
    BY <1>2, <2>1, <2>2
<1>5. ASSUME ClientClose(fd) PROVE SessionInv'
  <2> DEFINE m == [type |-> "close", fd |-> fd]
  <2>1. m \in Message /\ m.type = "close"
    BY DEF Message
  <2>2. /\ queue' = Post(queue, port[fd], <<m>>)
        /\ UNCHANGED <<port, gvars, lvars, mvars, agent>>
    BY <1>5 DEF ClientClose
  <2> HIDE DEF m
  <2> QED
    BY <1>2, <2>1, <2>2
<1>6. ASSUME NEW p \in Player, ClientLogin(fd, p) PROVE SessionInv'
  <2>1. PICK i \in Attempt :
          /\ attempt[i] = None
          /\ attempt' = [attempt EXCEPT ![i] = [fd |-> fd, player |-> p]]
          /\ queue' = Post(queue, port[fd], <<LoginMsg(i)>>)
    BY <1>6 DEF ClientLogin, LoginMsg
  <2> DEFINE new == {<<port[fd], LoginMsg(i)>>}
  <2>2. Grows(queue, queue', new)
    BY <1>0, <2>1, RequestTypes, PostOne
  <2>3. Calm(new)
    BY <1>0, RequestTypes, ServiceNames DEF Calm
  <2>4. CalmFrame
    BY <1>0, <1>6, <2>1 DEF ClientLogin, CalmFrame, TypeOK
  <2>5. UNCHANGED <<port, login, co, agent>>
    BY <1>6 DEF ClientLogin
  <2>6. /\ \A s \in Service : LoginMsg(i) \notin Msgs(queue, s) /\ ReqMsg(i) \notin Msgs(queue, s)
        /\ Fresh(i) /\ login[i] # "started"
    <3>1. \A s \in Service : LoginMsg(i) \notin Msgs(queue, s) /\ ReqMsg(i) \notin Msgs(queue, s)
      BY <2>1, RequestTypes DEF TypeInv, MadeInv, QueueMade, Made
    <3>2. agent[i] = "none" /\ login[i] # "started"
      BY <2>1 DEF TypeInv, MadeInv, Made
    <3>3. \A c \in co : c.login # i
      BY <2>1, ServiceNames DEF TypeInv, MadeInv, HandlerMade, MadeHandler, Made
    <3> QED
      BY <3>1, <3>2, <3>3 DEF Fresh
  <2>7. \A s \in Service : Once(queue', s, LoginMsg(i))
    <3>1. ASSUME NEW s \in Service, s = port[fd] PROVE Once(queue', s, LoginMsg(i))
      BY <1>0, <2>1, <2>6, <3>1, PostFresh
    <3>2. ASSUME NEW s \in Service, s # port[fd] PROVE Once(queue', s, LoginMsg(i))
      <4>1. Once(queue, s, LoginMsg(i))
        BY DEF SessionInv, RequestInv
      <4> QED
        BY <2>2, <3>2, <4>1, RequestTypes DEF Grows
    <3> QED
      BY <3>1, <3>2
  <2> HIDE DEF new
  <2>8. RequestInv'
    <3> SUFFICES ASSUME NEW j \in Attempt
                 PROVE  /\ \A s \in Service :
                             /\ Once(queue', s, LoginMsg(j))
                             /\ LoginMsg(j) \in Msgs(queue', s) =>
                                  /\ s = port[attempt'[j].fd] /\ login[j] # "started"
                                  /\ Fresh(j) /\ ReqMsg(j) \notin Msgs(queue', AgentMgr)
                        /\ login[j] = "started" => Fresh(j) /\ ReqMsg(j) \notin Msgs(queue', AgentMgr)
                        /\ Once(queue', AgentMgr, ReqMsg(j))
                        /\ ReqMsg(j) \in Msgs(queue', AgentMgr) => Fresh(j)
      BY <2>5 DEF RequestInv, GateOf, FdOf, Fresh
    <3>1. \A s \in Service : <<s, ReqMsg(j)>> \notin new
      BY RequestTypes DEF new
    <3>2. ReqMsg(j) \in Msgs(queue', AgentMgr) => ReqMsg(j) \in Msgs(queue, AgentMgr)
      BY <2>2, <3>1, ServiceNames DEF Grows
    <3>3. Once(queue', AgentMgr, ReqMsg(j))
      BY <2>2, <3>1, RequestTypes, ServiceNames DEF Grows, SessionInv, RequestInv
    <3>4. CASE j = i
      <4>1. \A s \in Service : LoginMsg(i) \in Msgs(queue', s) => s = port[fd]
        BY <2>2, <2>6 DEF Grows, new
      <4>2. attempt'[i].fd = fd
        BY <1>0, <2>1 DEF TypeOK
      <4> QED
        BY <2>6, <2>7, <3>2, <3>3, <3>4, <4>1, <4>2, ServiceNames
    <3>5. CASE j # i
      <4>1. LoginMsg(j) # LoginMsg(i)
        BY <3>5, RequestTypes
      <4>2. \A s \in Service : <<s, LoginMsg(j)>> \notin new
        BY <4>1 DEF new
      <4>3. \A s \in Service : /\ LoginMsg(j) \in Msgs(queue', s) => LoginMsg(j) \in Msgs(queue, s)
                               /\ Once(queue', s, LoginMsg(j))
        BY <2>2, <4>2, RequestTypes DEF Grows, SessionInv, RequestInv
      <4>4. attempt'[j] = attempt[j]
        BY <1>0, <2>1, <3>5 DEF TypeOK
      <4> QED
        BY <3>2, <3>3, <4>3, <4>4 DEF SessionInv, RequestInv, GateOf, FdOf
    <3> QED
      BY <3>4, <3>5
  <2> QED
    BY <2>2, <2>3, <2>4, <2>8, CalmStep DEF SessionInv
<1> QED
  BY <1>1, <1>3, <1>4, <1>5, <1>6

(* What a login service does disturbs none. *)
LEMMA LoginSessions ==
  ASSUME TypeInv, SessionInv, NEW i \in Attempt, LoginStep(i)
  PROVE  SessionInv'
<1> USE DEF cvars, gvars, lvars, mvars
<1>0. /\ TypeOK /\ queue \in [Service -> Seq(Message)]
      /\ AgentMgr \in Service /\ AgentMgr \notin Attempt
  BY ServiceNames DEF TypeInv, TypeOK
<1>1. CASE LoginGranted(i)
  <2> DEFINE n == [type |-> "sure_agent", login |-> i]
             new == {<<GateOf(i), n>>}
  <2>1. n \in Message /\ n.type = "sure_agent"
    BY DEF Message
  <2>2. queue' = Post(queue, GateOf(i), <<n>>)
    BY <1>1 DEF LoginGranted
  <2> HIDE DEF n
  <2>3. Grows(queue, queue', new)
    BY <1>0, <2>1, <2>2, PostOne
  <2>4. GateOf(i) \notin Attempt
    <3>1. attempt[i] # None
      BY <1>1 DEF LoginGranted, TypeInv, MadeInv, Made
    <3> QED
      BY <1>0, <3>1, ServiceNames DEF TypeOK, GateOf, FdOf
  <2>5. Quiet(new)
    BY <2>1, <2>4 DEF Quiet, Calm
  <2>6. QuietFrame
    BY <1>0, <1>1 DEF LoginGranted, QuietFrame, CalmFrame, TypeOK
  <2> QED
    BY <2>3, <2>5, <2>6, QuietStep
<1>2. CASE LoginStart(i)
  <2> DEFINE new == {<<AgentMgr, ReqMsg(i)>>}
  <2>1. /\ queue' = Post(queue, AgentMgr, <<ReqMsg(i)>>)
        /\ login[i] = "started" /\ login' = [login EXCEPT ![i] = "req_login"]
        /\ UNCHANGED <<port, attempt, co, agent, closing, mgr_players, status>>
    BY <1>2 DEF LoginStart, ReqMsg
  <2>2. Grows(queue, queue', new)
    BY <1>0, <2>1, RequestTypes, PostOne
  <2>3. Calm(new) /\ CalmFrame
    BY <1>0, <2>1, RequestTypes DEF Calm, CalmFrame
  <2>4. RequestInv
    BY DEF SessionInv
  <2>5. /\ Fresh(i) /\ ReqMsg(i) \notin Msgs(queue, AgentMgr)
        /\ \A s \in Service : LoginMsg(i) \notin Msgs(queue, s)
    BY <2>1, <2>4 DEF RequestInv
  <2>6. Once(queue', AgentMgr, ReqMsg(i))
    BY <1>0, <2>1, <2>5, PostFresh
  <2> HIDE DEF new
  <2>7. RequestInv'
    <3> SUFFICES ASSUME NEW j \in Attempt
                 PROVE  /\ \A s \in Service :
                             /\ Once(queue', s, LoginMsg(j))
                             /\ LoginMsg(j) \in Msgs(queue', s) =>
                                  /\ s = GateOf(j) /\ login'[j] # "started"
                                  /\ Fresh(j) /\ ReqMsg(j) \notin Msgs(queue', AgentMgr)
                        /\ login'[j] = "started" => Fresh(j) /\ ReqMsg(j) \notin Msgs(queue', AgentMgr)
                        /\ Once(queue', AgentMgr, ReqMsg(j))
                        /\ ReqMsg(j) \in Msgs(queue', AgentMgr) => Fresh(j)
      BY <2>1 DEF RequestInv, GateOf, FdOf, Fresh
    <3>1. \A s \in Service : <<s, LoginMsg(j)>> \notin new
      BY RequestTypes DEF new
    <3>2. \A s \in Service : /\ LoginMsg(j) \in Msgs(queue', s) => LoginMsg(j) \in Msgs(queue, s)
                             /\ Once(queue', s, LoginMsg(j))
      BY <2>2, <2>4, <3>1, RequestTypes DEF Grows, RequestInv
    <3>3. CASE j = i
      <4>1. login'[i] # "started"
        BY <1>0, <2>1 DEF TypeOK
      <4> QED
        BY <2>5, <2>6, <3>2, <3>3, <4>1
    <3>4. CASE j # i
      <4>1. ReqMsg(j) # ReqMsg(i)
        BY <3>4, RequestTypes
      <4>2. <<AgentMgr, ReqMsg(j)>> \notin new
        BY <4>1 DEF new
      <4>3. /\ ReqMsg(j) \in Msgs(queue', AgentMgr) => ReqMsg(j) \in Msgs(queue, AgentMgr)
            /\ Once(queue', AgentMgr, ReqMsg(j))
        BY <1>0, <2>2, <2>4, <4>2, RequestTypes DEF Grows, RequestInv
      <4>4. login'[j] = login[j]
        BY <1>0, <2>1, <3>4 DEF TypeOK
      <4> QED
        BY <2>4, <3>2, <4>3, <4>4 DEF RequestInv
    <3> QED
      BY <3>3, <3>4
  <2> QED
    BY <2>2, <2>3, <2>7, CalmStep DEF SessionInv
<1> QED
  BY <1>1, <1>2 DEF LoginStep

(* Nothing is left that could make attempt i ask once more. *)
Spent(i, q) ==
  /\ login[i] # "started"
  /\ \A s \in Service : LoginMsg(i) \notin Msgs(q, s)
  /\ ReqMsg(i) \notin Msgs(q, AgentMgr)

(* An attempt that is at agent_mgr has asked. *)
LEMMA AskedOnce ==
  ASSUME RequestInv, NEW i \in Attempt, ~Fresh(i)
  PROVE  Spent(i, queue)
BY DEF RequestInv, Spent

(* The attempt that asks now will not ask again. *)
LEMMA Asks ==
  ASSUME TypeInv, RequestInv, Receives(AgentMgr, "req_login")
  PROVE  LET i == Head(queue[AgentMgr]).login IN
         i \in Attempt /\ attempt[i] # None /\ Fresh(i) /\ Spent(i, Taken(AgentMgr))
<1> DEFINE m == Head(queue[AgentMgr])
           i == m.login
<1>0. AgentMgr \in Service /\ queue \in [Service -> Seq(Message)]
  BY ServiceNames DEF TypeInv, TypeOK
<1>1. queue[AgentMgr] # << >> /\ m.type = "req_login"
  BY DEF Receives
<1>2. m \in Message /\ m \in Msgs(queue, AgentMgr) /\ i \in Attempt /\ attempt[i] # None
  BY <1>1, MgrReads
<1>3. /\ Grows(queue, Taken(AgentMgr), {})
      /\ Once(queue, AgentMgr, m) => m \notin Msgs(Taken(AgentMgr), AgentMgr)
  BY <1>0, <1>1, TakenQueue
<1> HIDE DEF m
<1>4. m = ReqMsg(i)
  BY <1>1, <1>2 DEF Message, ReqMsg
<1> HIDE DEF i
<1>5. Fresh(i) /\ login[i] # "started" /\ \A s \in Service : LoginMsg(i) \notin Msgs(queue, s)
  BY <1>2, <1>4 DEF RequestInv
<1>6. ReqMsg(i) \notin Msgs(Taken(AgentMgr), AgentMgr)
  BY <1>2, <1>3, <1>4 DEF RequestInv
<1>7. \A s \in Service : LoginMsg(i) \notin Msgs(Taken(AgentMgr), s)
  BY <1>3, <1>5 DEF Grows
<1> QED
  BY <1>2, <1>5, <1>6, <1>7 DEF Spent, i, m

(* Requests stay in one place if who gets a handler will not ask again. *)
LEMMA RequestKept ==
  ASSUME TypeInv, RequestInv, UNCHANGED <<attempt, port>>,
         \A i \in Attempt : login'[i] = "started" => login[i] = "started",
         NEW new, Grows(queue, queue', new),
         \A x \in new : x[2].type \notin {"login", "req_login"},
         \A i \in Attempt : Fresh(i) =>
           \/ agent'[i] = "none" /\ \A c \in co' : c.login # i
           \/ Spent(i, queue')
  PROVE  RequestInv'
<1> SUFFICES ASSUME NEW i \in Attempt
             PROVE  /\ \A s \in Service :
                         /\ Once(queue', s, LoginMsg(i))
                         /\ LoginMsg(i) \in Msgs(queue', s) =>
                              /\ s = GateOf(i) /\ login'[i] # "started"
                              /\ Fresh(i)' /\ ReqMsg(i) \notin Msgs(queue', AgentMgr)
                    /\ login'[i] = "started" => Fresh(i)' /\ ReqMsg(i) \notin Msgs(queue', AgentMgr)
                    /\ Once(queue', AgentMgr, ReqMsg(i))
                    /\ ReqMsg(i) \in Msgs(queue', AgentMgr) => Fresh(i)'
  BY DEF RequestInv, GateOf, FdOf
<1>1. \A s \in Service : <<s, LoginMsg(i)>> \notin new /\ <<s, ReqMsg(i)>> \notin new
  BY RequestTypes
<1>2. /\ AgentMgr \in Service /\ LoginMsg(i) \in Message /\ ReqMsg(i) \in Message
  BY RequestTypes, ServiceNames
<1>3. \A s \in Service : LoginMsg(i) \in Msgs(queue', s) => LoginMsg(i) \in Msgs(queue, s)
  BY <1>1 DEF Grows
<1>4. ReqMsg(i) \in Msgs(queue', AgentMgr) => ReqMsg(i) \in Msgs(queue, AgentMgr)
  BY <1>1, <1>2 DEF Grows
<1>5. /\ \A s \in Service : Once(queue', s, LoginMsg(i))
      /\ Once(queue', AgentMgr, ReqMsg(i))
  BY <1>1, <1>2 DEF Grows, RequestInv
<1>6. login'[i] = "started" => login[i] = "started"
  OBVIOUS
<1>7. CASE Fresh(i)'
  BY <1>3, <1>4, <1>5, <1>6, <1>7 DEF RequestInv
<1>8. CASE ~Fresh(i)' /\ Fresh(i)
  <2>1. Spent(i, queue')
    BY <1>8 DEF Fresh
  <2> QED
    BY <1>5, <1>6, <2>1 DEF Spent
<1>9. CASE ~Fresh(i)
  <2>1. Spent(i, queue)
    BY <1>9, AskedOnce
  <2> QED
    BY <1>3, <1>4, <1>5, <1>6, <2>1 DEF Spent
<1> QED
  BY <1>7, <1>8, <1>9

(* A handler's attempts are typed, and were made. *)
LEMMA HandlerTypes ==
  ASSUME TypeInv, NEW c \in co
  PROVE  /\ c.at \in {"agent_kick", "gate_kick", "new_service"}
         /\ c.login \in Attempt \cup {None} /\ c.victim \in Attempt \cup {None}
         /\ c.login # None => c.login \in Attempt /\ attempt[c.login] # None
         /\ c.victim # None => c.victim \in Attempt /\ attempt[c.victim] # None
         /\ c.at # "agent_kick" => c.login # None
         /\ c.at # "new_service" => c.victim # None
         /\ c.at = "new_service" => c.victim = None /\ c = NewHandler(c.login)
BY DEF TypeInv, TypeOK, Coroutine, MadeInv, HandlerMade, MadeHandler, Made, NewHandler

(* A new mgr_player and its agent: whoever had the place has saved.        *)
LEMMA CreateSessions ==
  ASSUME TypeInv, SessionInv, queue[AgentMgr] # << >>,
         NEW i \in Attempt, attempt[i] # None, agent[i] = "none",
         NEW waiting \in SUBSET co,
         \A w \in waiting : /\ w.at = "gate_kick" /\ w.victim = mgr_players[PlayerOf(i)]
                            /\ w.login = i,
         mgr_players[PlayerOf(i)] # None => waiting # {},
         \A c \in co \ waiting : c.login # i,
         Spent(i, Taken(AgentMgr)),
         CreateAgent(i, waiting), UNCHANGED <<cvars, gvars, attempt>>
  PROVE  SessionInv'
<1> DEFINE p == PlayerOf(i)
<1>1. /\ TypeOK /\ p \in Player /\ i # None /\ AgentMgr \in Service
      /\ \A j \in Attempt : attempt[j] # None => PlayerOf(j) \in Player
  BY ServiceNames DEF TypeInv, TypeOK, PlayerOf
<1>2. RequestInv /\ HandlerInv /\ TableInv /\ AgentInv /\ AnswerInv
  BY DEF SessionInv
<1>3. Grows(queue, queue', {})
  BY MgrReads DEF CreateAgent
<1>4. \A s \in Service : \A m \in Msgs(queue', s) : m \in Msgs(queue, s)
  BY <1>3 DEF Grows
<1>5. UNCHANGED <<attempt, port, login, closing>>
  BY DEF CreateAgent, cvars, gvars
<1>6. /\ mgr_players' = [mgr_players EXCEPT ![p] = i]
      /\ status' = [status EXCEPT ![i] = "LOGIN"]
      /\ agent' = [agent EXCEPT ![i] = "loading"]
      /\ co' = (co \ waiting) \cup {NewHandler(i)}
      /\ queue' = Taken(AgentMgr)
  BY DEF CreateAgent, NewHandler
<1>7. /\ mgr_players'[p] = i /\ status'[i] = "LOGIN" /\ agent'[i] = "loading"
      /\ \A q \in Player : q # p => mgr_players'[q] = mgr_players[q]
      /\ \A j \in Attempt : j # i => status'[j] = status[j] /\ agent'[j] = agent[j]
      /\ NewHandler(i) \in co'
      /\ \A c \in co' : c = NewHandler(i) \/ (c \in co /\ c \notin waiting)
      /\ \A c \in co : c \in waiting \/ c \in co'
  BY <1>1, <1>6 DEF TypeOK
<1>8. /\ NewHandler(i).at = "new_service" /\ NewHandler(i).login = i
      /\ NewHandler(i).victim = None
  BY DEF NewHandler
<1> HIDE DEF p
(* Who had the place before is off, and its handler is done. *)
<1>9. ASSUME NEW j \in Attempt, mgr_players[p] = j
      PROVE  \E w \in waiting : /\ w.at = "gate_kick" /\ w.victim = j
                                /\ status[j] = "LOGOUT" /\ agent[j] \in {"saved", "gone"}
  <2>1. PICK w \in waiting : w.at = "gate_kick" /\ w.victim = j
    BY <1>9, ServiceNames DEF p
  <2> QED
    BY <1>2, <2>1 DEF HandlerInv
<1>10. ASSUME NEW c \in co, c \notin waiting
       PROVE  PlayerOf(IF c.at = "new_service" THEN c.login ELSE c.victim) # p
  <2> DEFINE k == IF c.at = "new_service" THEN c.login ELSE c.victim
  <2>1. k \in Attempt /\ k # None
    BY HandlerTypes
  <2>2. mgr_players[PlayerOf(k)] = k
    BY <1>2 DEF HandlerInv
  <2> SUFFICES ASSUME PlayerOf(k) = p PROVE FALSE
    OBVIOUS
  <2>3. PICK w \in waiting : /\ w.at = "gate_kick" /\ w.victim = k /\ status[k] = "LOGOUT"
    BY <1>9, <2>1, <2>2
  <2>4. CASE c.at = "new_service"
    BY <1>2, <2>3, <2>4 DEF HandlerInv
  <2>5. CASE c.at # "new_service"
    <3>1. w \in co /\ c.victim = w.victim /\ c.victim # None
      BY <2>1, <2>3, <2>5
    <3>2. c = w
      BY <1>2, <3>1 DEF HandlerInv
    <3> QED
      BY <1>10, <3>2
  <2> QED
    BY <2>4, <2>5
<1>11. ASSUME NEW j \in Attempt, HasData(j) PROVE PlayerOf(j) # p /\ j # i
  <2>1. mgr_players[PlayerOf(j)] = j
    BY <1>2, <1>11 DEF AgentInv
  <2> QED
    BY <1>9, <1>11, <2>1 DEF HasData
<1>12. RequestInv'
  <2>1. \A j \in Attempt : Fresh(j) => \/ agent'[j] = "none" /\ \A c \in co' : c.login # j
                                       \/ Spent(j, queue')
    BY <1>6, <1>7, <1>8 DEF Fresh
  <2> QED
    BY <1>2, <1>3, <1>5, <2>1, RequestKept
<1>13. HandlerInv'
  <2>1. ASSUME NEW c \in co'
        PROVE  /\ c.at = "new_service" =>
                    /\ mgr_players'[PlayerOf(c.login)] = c.login
                    /\ status'[c.login] = "LOGIN"
                    /\ agent'[c.login] \in {"loading", "running"}
               /\ c.at # "new_service" =>
                    /\ mgr_players'[PlayerOf(c.victim)] = c.victim
                    /\ status'[c.victim] = "LOGOUT"
                    /\ c.login # None => agent'[c.login] = "none" /\ PlayerOf(c.login) = PlayerOf(c.victim)
               /\ c.at = "agent_kick" =>
                    /\ agent'[c.victim] \in {"running", "saving", "saved"}
                    /\ [type |-> "exit"] \notin Msgs(queue', c.victim)
               /\ c.at = "gate_kick" => agent'[c.victim] \in {"saved", "gone"}
    <3>1. CASE c = NewHandler(i)
      BY <1>7, <1>8, <3>1 DEF p
    <3>2. CASE c \in co /\ c \notin waiting
      <4>0. /\ PlayerOf(IF c.at = "new_service" THEN c.login ELSE c.victim) # p
            /\ c.login # i
        BY <1>10, <3>2
      <4>1. CASE c.at = "new_service"
        <5>1. c.login \in Attempt /\ attempt[c.login] # None
          BY <3>2, <4>1, HandlerTypes
        <5> QED
          BY <1>1, <1>2, <1>7, <3>2, <4>0, <4>1, <5>1 DEF HandlerInv
      <4>2. CASE c.at # "new_service"
        <5>1. /\ c.victim \in Attempt /\ attempt[c.victim] # None
              /\ c.login # None => c.login \in Attempt
          BY <3>2, <4>2, HandlerTypes
        <5>2. c.victim # i
          <6>1. c.at \in {"agent_kick", "gate_kick"}
            BY <3>2, <4>2, HandlerTypes
          <6> QED
            BY <1>2, <3>2, <6>1 DEF HandlerInv
        <5>3. /\ mgr_players'[PlayerOf(c.victim)] = mgr_players[PlayerOf(c.victim)]
              /\ status'[c.victim] = status[c.victim] /\ agent'[c.victim] = agent[c.victim]
              /\ c.login # None => agent'[c.login] = agent[c.login]
          BY <1>1, <1>7, <4>0, <4>2, <5>1, <5>2
        <5>4. [type |-> "exit"] \in Msgs(queue', c.victim) => [type |-> "exit"] \in Msgs(queue, c.victim)
          BY <1>4, <5>1, ServiceNames
        <5> QED
          BY <1>2, <3>2, <4>2, <5>3, <5>4 DEF HandlerInv
      <4> QED
        BY <4>1, <4>2
    <3> QED
      BY <1>7, <3>1, <3>2
  <2>2. /\ \A c, d \in co' : c.login # None /\ c.login = d.login => c = d
        /\ \A c, d \in co' : c.victim # None /\ c.victim = d.victim => c = d
    BY <1>2, <1>7, <1>8 DEF HandlerInv
  <2> QED
    BY <1>5, <2>1, <2>2 DEF HandlerInv, PlayerOf
<1>14. TableInv'
  <2> SUFFICES ASSUME NEW q \in Player, NEW j, j = mgr_players'[q], j # None
               PROVE  /\ PlayerOf(j) = q
                      /\ status'[j] \in {"LOGIN", "GAME", "LOGOUT"}
                      /\ status'[j] = "LOGIN" => NewHandler(j) \in co'
                      /\ status'[j] = "GAME" => agent'[j] = "running"
                      /\ status'[j] = "LOGOUT" => \E c \in co' : c.victim = j
    BY <1>5 DEF TableInv, PlayerOf
  <2>1. CASE q = p
    BY <1>7, <2>1 DEF p
  <2>2. CASE q # p
    <3>1. j = mgr_players[q] /\ j \in Attempt /\ PlayerOf(j) = q /\ j # i
      BY <1>1, <1>2, <1>7, <2>2 DEF TypeOK, TableInv, p
    <3>2. status'[j] = status[j] /\ agent'[j] = agent[j]
      BY <1>7, <3>1
    <3>3. \A c \in waiting : c.at = "gate_kick" /\ c.victim # j
      <4>1. ASSUME NEW c \in waiting PROVE c.at = "gate_kick" /\ c.victim = mgr_players[p]
        BY DEF p
      <4>2. ASSUME mgr_players[p] = j PROVE FALSE
        BY <1>1, <1>2, <2>2, <3>1, <4>2 DEF TableInv
      <4> QED
        BY <4>1, <4>2
    <3>4. NewHandler(j).at = "new_service"
      BY DEF NewHandler
    <3>5. NewHandler(j) \in co => NewHandler(j) \in co'
      BY <1>7, <3>3, <3>4
    <3>6. (\E c \in co : c.victim = j) => \E c \in co' : c.victim = j
      BY <1>7, <3>3
    <3> QED
      BY <1>2, <3>1, <3>2, <3>5, <3>6 DEF TableInv
  <2> QED
    BY <2>1, <2>2
<1>15. AgentInv'
  <2> SUFFICES ASSUME NEW j \in Attempt
               PROVE  /\ agent'[j] \in {"loading", "running", "saving"} => mgr_players'[PlayerOf(j)] = j
                      /\ status'[j] = "none" <=> agent'[j] = "none"
                      /\ status'[j] # "LOGOUT" => \A m \in Msgs(queue', j) : m.type = "client"
    BY <1>5 DEF AgentInv, HasData, PlayerOf
  <2>1. CASE j = i
    <3>1. status[i] # "LOGOUT"
      BY <1>2 DEF AgentInv
    <3> QED
      BY <1>2, <1>4, <1>7, <2>1, <3>1, ServiceNames DEF AgentInv, p
  <2>2. CASE j # i
    <3>1. agent'[j] = agent[j] /\ status'[j] = status[j]
      BY <1>7, <2>2
    <3>2. ASSUME agent[j] \in {"loading", "running", "saving"} PROVE mgr_players'[PlayerOf(j)] = j
      <4>1. PlayerOf(j) # p /\ mgr_players[PlayerOf(j)] = j
        BY <1>2, <1>11, <3>2 DEF HasData, AgentInv
      <4>2. PlayerOf(j) \in Player
        BY <1>1, <3>2 DEF TypeInv, MadeInv, Made
      <4> QED
        BY <1>7, <4>1, <4>2
    <3> QED
      BY <1>2, <1>4, <3>1, <3>2, ServiceNames DEF AgentInv
  <2> QED
    BY <2>1, <2>2
<1>16. AnswerInv'
  <2>1. ASSUME NEW m \in Msgs(queue', AgentMgr), m.type = "resume"
        PROVE  /\ m.co.at = "agent_kick" =>
                    m.co.victim # None /\ agent'[m.co.victim] \in {"saved", "gone"}
               /\ m.co.at = "new_service" =>
                    m.co.login # None /\ agent'[m.co.login] \notin {"none", "loading"}
    <3>1. m \in Msgs(queue, AgentMgr) /\ m \in Message
      BY <1>1, <1>4, QueuedTyped
    <3>2. m.co \in Coroutine
      BY <2>1, <3>1, MessageFields
    <3>3. m.co.victim \in Attempt \cup {None} /\ m.co.login \in Attempt \cup {None}
      BY <3>2 DEF Coroutine
    <3> QED
      BY <1>2, <1>7, <2>1, <3>1, <3>3 DEF AnswerInv
  <2>2. \A s \in Gate : \A m \in Msgs(queue', s) :
          m.type = "kick" => m.co = None \/ m.co.at = "gate_kick"
    BY <1>2, <1>4, ServiceNames DEF AnswerInv
  <2>3. \A fd \in Fd : \A k \in DOMAIN closing'[fd] :
          closing'[fd][k] = None \/ closing'[fd][k].at = "gate_kick"
    BY <1>2, <1>5 DEF AnswerInv
  <2> QED
    BY <2>1, <2>2, <2>3 DEF AnswerInv
<1> QED
  BY <1>12, <1>13, <1>14, <1>15, <1>16 DEF SessionInv

(* A player in the game is taken off. *)
LEMMA EvictSessions ==
  ASSUME TypeInv, SessionInv, queue[AgentMgr] # << >>,
         NEW q \in Player, NEW v \in Attempt, mgr_players[q] = v, status[v] = "GAME",
         NEW c \in Coroutine, c.at = "agent_kick", c.victim = v,
         c.login # None => /\ Fresh(c.login) /\ PlayerOf(c.login) = q
                           /\ Spent(c.login, Taken(AgentMgr)),
         Evict(v, c), UNCHANGED <<cvars, gvars, lvars, mgr_players, agent>>
  PROVE  SessionInv'
<1> DEFINE n == [type |-> "agent_kick", co |-> c]
           new == {<<v, n>>}
<1>1. /\ TypeOK /\ queue \in [Service -> Seq(Message)] /\ v # None
      /\ AgentMgr \in Service /\ AgentMgr # v
  BY ServiceNames DEF TypeInv, TypeOK
<1>2. RequestInv /\ HandlerInv /\ TableInv /\ AgentInv /\ AnswerInv
  BY DEF SessionInv
<1>3. n \in Message /\ n.type = "agent_kick"
  BY DEF Message
<1>4. queue' = Post(Taken(AgentMgr), v, <<n>>)
  BY DEF Evict
<1> HIDE DEF n
<1>5. Grows(queue, queue', new) /\ Grows(Taken(AgentMgr), queue', new)
  <2>1. Grows(queue, queue', new)
    BY <1>1, <1>3, <1>4, TakenPost
  <2>2. Taken(AgentMgr) \in [Service -> Seq(Message)]
    BY MgrReads
  <2> QED
    BY <1>3, <1>4, <2>1, <2>2, PostOne
<1>6. \A s \in Service : \A m \in Msgs(queue', s) : m \in Msgs(queue, s) \/ (s = v /\ m = n)
  BY <1>5 DEF Grows
<1>7. UNCHANGED <<attempt, port, login, closing, mgr_players, agent>>
  BY DEF cvars, gvars, lvars
<1>8. /\ status'[v] = "LOGOUT" /\ co' = co \cup {c}
      /\ \A j \in Attempt : j # v => status'[j] = status[j]
  BY <1>1 DEF Evict, TypeOK
<1>9. agent[v] = "running" /\ PlayerOf(v) = q
  BY <1>1, <1>2 DEF TableInv
(* No handler has v yet. *)
<1>10. ASSUME NEW d \in co
       PROVE  /\ d.at = "new_service" => d.login # v
              /\ d.victim # v
              /\ d.login # None => d.login # c.login
  <2>1. d.at = "new_service" => d.login # v
    BY <1>2 DEF HandlerInv
  <2>2. d.at # "new_service" => d.victim # v
    BY <1>2 DEF HandlerInv
  <2>3. d.at = "new_service" => d.victim # v
    BY <1>1, HandlerTypes
  <2>4. d.login # None => d.login # c.login
    BY DEF Fresh
  <2> QED
    BY <2>1, <2>2, <2>3, <2>4
<1>11. RequestInv'
  <2>1. \A j \in Attempt : Fresh(j) => \/ agent'[j] = "none" /\ \A d \in co' : d.login # j
                                       \/ Spent(j, queue')
    <3>1. ASSUME NEW j \in Attempt, Fresh(j), c.login = j PROVE Spent(j, queue')
      <4>1. Spent(j, Taken(AgentMgr))
        BY <3>1, ServiceNames
      <4> QED
        BY <1>1, <1>3, <1>5, <4>1, RequestTypes DEF Grows, Spent
    <3> QED
      BY <1>7, <1>8, <3>1 DEF Fresh
  <2>2. \A x \in new : x[2].type \notin {"login", "req_login"}
    BY <1>3
  <2> HIDE DEF new
  <2> QED
    BY <1>2, <1>5, <1>7, <2>1, <2>2, RequestKept
<1> HIDE DEF new
<1>12. HandlerInv'
  <2>1. ASSUME NEW d \in co'
        PROVE  /\ d.at = "new_service" =>
                    /\ mgr_players[PlayerOf(d.login)] = d.login
                    /\ status'[d.login] = "LOGIN"
                    /\ agent[d.login] \in {"loading", "running"}
               /\ d.at # "new_service" =>
                    /\ mgr_players[PlayerOf(d.victim)] = d.victim
                    /\ status'[d.victim] = "LOGOUT"
                    /\ d.login # None => agent[d.login] = "none" /\ PlayerOf(d.login) = PlayerOf(d.victim)
               /\ d.at = "agent_kick" =>
                    /\ agent[d.victim] \in {"running", "saving", "saved"}
                    /\ [type |-> "exit"] \notin Msgs(queue', d.victim)
               /\ d.at = "gate_kick" => agent[d.victim] \in {"saved", "gone"}
    <3>1. CASE d = c
      <4>1. [type |-> "exit"] \notin Msgs(queue', v)
        <5>1. [type |-> "exit"] \notin Msgs(queue, v)
          BY <1>2 DEF AgentInv
        <5> QED
          BY <1>3, <1>6, <5>1, ServiceNames
      <4>2. c.login # None => agent[c.login] = "none"
        BY DEF Fresh
      <4> QED
        BY <1>8, <1>9, <3>1, <4>1, <4>2
    <3>2. CASE d \in co
      <4>1. CASE d.at = "new_service"
        <5>1. d.login \in Attempt /\ d.login # v
          BY <1>10, <3>2, <4>1, HandlerTypes
        <5> QED
          BY <1>2, <1>8, <3>2, <4>1, <5>1 DEF HandlerInv
      <4>2. CASE d.at # "new_service"
        <5>1. d.victim \in Attempt /\ d.victim # v
          BY <1>10, <3>2, <4>2, HandlerTypes
        <5>2. [type |-> "exit"] \in Msgs(queue', d.victim) => [type |-> "exit"] \in Msgs(queue, d.victim)
          BY <1>6, <5>1, ServiceNames
        <5> QED
          BY <1>2, <1>8, <3>2, <4>2, <5>1, <5>2 DEF HandlerInv
      <4> QED
        BY <4>1, <4>2
    <3> QED
      BY <1>8, <3>1, <3>2
  <2>2. /\ \A d, e \in co' : d.login # None /\ d.login = e.login => d = e
        /\ \A d, e \in co' : d.victim # None /\ d.victim = e.victim => d = e
    BY <1>2, <1>8, <1>10 DEF HandlerInv
  <2> QED
    BY <1>7, <2>1, <2>2 DEF HandlerInv, PlayerOf
<1>13. TableInv'
  <2> SUFFICES ASSUME NEW p \in Player, NEW j, j = mgr_players[p], j # None
               PROVE  /\ PlayerOf(j) = p
                      /\ status'[j] \in {"LOGIN", "GAME", "LOGOUT"}
                      /\ status'[j] = "LOGIN" => NewHandler(j) \in co'
                      /\ status'[j] = "GAME" => agent[j] = "running"
                      /\ status'[j] = "LOGOUT" => \E d \in co' : d.victim = j
    BY <1>7 DEF TableInv, PlayerOf
  <2>1. j \in Attempt
    BY <1>1 DEF TypeOK
  <2>2. CASE j = v
    BY <1>2, <1>8, <2>2 DEF TableInv
  <2>3. CASE j # v
    BY <1>2, <1>8, <2>1, <2>3 DEF TableInv
  <2> QED
    BY <2>2, <2>3
<1>14. AgentInv'
  <2> SUFFICES ASSUME NEW j \in Attempt
               PROVE  /\ HasData(j) => mgr_players[PlayerOf(j)] = j
                      /\ status'[j] = "none" <=> agent[j] = "none"
                      /\ status'[j] # "LOGOUT" => \A m \in Msgs(queue', j) : m.type = "client"
    BY <1>7 DEF AgentInv, HasData, PlayerOf
  <2>1. CASE j = v
    BY <1>2, <1>8, <1>9, <2>1 DEF AgentInv
  <2>2. CASE j # v
    BY <1>2, <1>6, <1>8, <2>2, ServiceNames DEF AgentInv
  <2> QED
    BY <2>1, <2>2
<1>15. AnswerInv'
  <2>1. \A m \in Msgs(queue', AgentMgr) : m \in Msgs(queue, AgentMgr)
    BY <1>1, <1>6
  <2>2. \A s \in Gate : \A m \in Msgs(queue', s) : m \in Msgs(queue, s)
    BY <1>6, ServiceNames
  <2> QED
    BY <1>2, <1>7, <2>1, <2>2 DEF AnswerInv
<1> QED
  BY <1>11, <1>12, <1>13, <1>14, <1>15 DEF SessionInv

(* What agent_mgr hears from logins and gateways. *)
LEMMA ReqSessions ==
  ASSUME TypeInv, SessionInv, ReqLogin \/ ReqKick
  PROVE  SessionInv'
<1> USE DEF lvars
<1>0. TypeOK /\ AgentMgr \in Service
  BY ServiceNames DEF TypeInv, TypeOK
<1>1. RequestInv /\ TableInv /\ AgentInv
  BY DEF SessionInv
<1> DEFINE m == Head(queue[AgentMgr])
<1>2. ASSUME queue[AgentMgr] # << >>, queue' = Taken(AgentMgr),
             UNCHANGED <<cvars, gvars, attempt, mvars, agent>>,
             \A i \in Attempt : login'[i] \in {login[i], "fail"}
      PROVE  SessionInv'
  <2>1. Grows(queue, queue', {}) /\ Quiet({})
    BY <1>2, MgrReads DEF Quiet, Calm
  <2>2. QuietFrame
    BY <1>2 DEF QuietFrame, CalmFrame, cvars, gvars, mvars
  <2> QED
    BY <2>1, <2>2, QuietStep
<1>3. ASSUME ReqLogin PROVE SessionInv'
  <2> DEFINE i == m.login
             v == mgr_players[PlayerOf(i)]
  <2>1. /\ queue[AgentMgr] # << >> /\ i \in Attempt /\ attempt[i] # None
        /\ Fresh(i) /\ Spent(i, Taken(AgentMgr))
    <3>1. Receives(AgentMgr, "req_login")
      BY <1>3 DEF ReqLogin
    <3>2. queue[AgentMgr] # << >>
      BY <3>1 DEF Receives
    <3> QED
      BY <1>1, <3>1, <3>2, Asks
  <2>2. UNCHANGED <<cvars, gvars, attempt>>
    BY <1>3 DEF ReqLogin
  <2>3. PlayerOf(i) \in Player /\ v \in Attempt \cup {None}
    BY <1>0, <2>1 DEF TypeOK, PlayerOf
  <2>4. CASE v = None /\ CreateAgent(i, {})
    <3>1. agent[i] = "none" /\ \A c \in co \ {} : c.login # i
      BY <2>1 DEF Fresh
    <3> HIDE DEF m
    <3> QED
      BY <2>1, <2>2, <2>4, <3>1, CreateSessions
  <2>5. CASE /\ login' = [login EXCEPT ![i] = "fail"]
             /\ queue' = Taken(AgentMgr)
             /\ UNCHANGED <<mvars, agent>>
    <3>1. \A j \in Attempt : login'[j] \in {login[j], "fail"}
      BY <1>0, <2>5 DEF TypeOK
    <3> QED
      BY <1>2, <2>1, <2>2, <2>5, <3>1
  <2>6. CASE /\ v # None /\ ~Refused(v)
             /\ Evict(v, [at |-> "agent_kick", login |-> i, victim |-> v, by |-> None])
             /\ UNCHANGED <<mgr_players, login, agent>>
    <3> DEFINE c == [at |-> "agent_kick", login |-> i, victim |-> v, by |-> None]
    <3>1. c \in Coroutine /\ c.at = "agent_kick" /\ c.victim = v /\ c.login = i
      BY <2>1, <2>3, <2>6 DEF Coroutine
    <3>2. Evict(v, c) /\ UNCHANGED <<cvars, gvars, lvars, mgr_players, agent>>
      BY <2>2, <2>6
    <3>3. status[v] = "GAME"
      BY <1>1, <2>3, <2>6 DEF TableInv, Refused
    <3> HIDE DEF c, m
    <3> QED
      BY <2>1, <2>3, <2>6, <3>1, <3>2, <3>3, EvictSessions
  <2> QED
    BY <1>3, <2>4, <2>5, <2>6 DEF ReqLogin
<1>4. ASSUME ReqKick PROVE SessionInv'
  <2> DEFINE v == mgr_players[m.player]
             by == m.by
  <2>1. queue[AgentMgr] # << >> /\ m.player \in Player /\ by \in Attempt \cup {None}
    <3>1. queue[AgentMgr] # << >> /\ m.type = "req_kick"
      BY <1>4 DEF ReqKick, Receives
    <3> QED
      BY <3>1, MgrReads
  <2>2. UNCHANGED <<cvars, gvars, attempt, mgr_players, agent>>
    BY <1>4 DEF ReqKick
  <2>3. CASE v # None /\ MayKick(v)
    <3> DEFINE c == [at |-> "agent_kick", login |-> None, victim |-> v, by |-> by]
    <3>1. /\ c \in Coroutine /\ c.at = "agent_kick" /\ c.victim = v /\ c.login = None
          /\ v \in Attempt /\ status[v] = "GAME"
      BY <1>0, <2>1, <2>3 DEF Coroutine, TypeOK, MayKick
    <3>2. Evict(v, c) /\ UNCHANGED <<cvars, gvars, lvars, mgr_players, agent>>
      BY <1>4, <2>2, <2>3 DEF ReqKick
    <3> HIDE DEF c, m
    <3> QED
      BY <2>1, <3>1, <3>2, EvictSessions
  <2>4. CASE ~(v # None /\ MayKick(v))
    <3>1. /\ login' = Answered(by) /\ queue' = Taken(AgentMgr)
          /\ UNCHANGED <<status, co, mgr_players, agent>>
      BY <1>4, <2>2, <2>4 DEF ReqKick
    <3> HIDE DEF by
    <3>2. \A j \in Attempt : login'[j] \in {login[j], "fail"}
      BY <1>0, <2>1, <3>1, AnsweredTypes
    <3> QED
      BY <1>2, <2>1, <2>2, <3>1, <3>2 DEF mvars
  <2> QED
    BY <2>3, <2>4
<1> QED
  BY <1>3, <1>4

(* The handler that an answer of the agent resumes: the agent has saved.   *)
LEMMA SavedHandler ==
  ASSUME TypeInv, SessionInv, Resumes("agent_kick")
  PROVE  LET c == Head(queue[AgentMgr]).co IN
         /\ c.victim \in Attempt /\ attempt[c.victim] # None
         /\ agent[c.victim] = "saved" /\ status[c.victim] = "LOGOUT"
         /\ mgr_players[PlayerOf(c.victim)] = c.victim
<1> DEFINE c == Head(queue[AgentMgr]).co
<1>1. c \in co /\ c.at = "agent_kick" /\ Answer(c) \in Msgs(queue, AgentMgr)
  BY ResumedHandler
<1> HIDE DEF c
<1>2. c.victim \in Attempt /\ attempt[c.victim] # None
  BY <1>1, HandlerTypes
<1>3. Answer(c).type = "resume" /\ Answer(c).co = c
  BY DEF Answer
<1>4. agent[c.victim] \in {"saved", "gone"}
  BY <1>1, <1>3 DEF SessionInv, AnswerInv
<1>5. /\ agent[c.victim] = "saved" /\ status[c.victim] = "LOGOUT"
      /\ mgr_players[PlayerOf(c.victim)] = c.victim
  BY <1>1, <1>4 DEF SessionInv, HandlerInv
<1> QED
  BY <1>2, <1>5 DEF c

(* The old agent has saved: it is told to exit, and the gateway to drop    *)
(* the player.                                                             *)
LEMMA TakeOverSessions ==
  ASSUME TypeInv, SessionInv, TakeOver
  PROVE  SessionInv'
<1> DEFINE c == Head(queue[AgentMgr]).co
           d == [c EXCEPT !.at = "gate_kick"]
           v == c.victim
           p == PlayerOf(c.login)
           g == GateToTell(c)
           q == Post(Taken(AgentMgr), v, <<[type |-> "exit"]>>)
           s1 == [type |-> "send", player |-> p]
           s2 == [type |-> "kick", player |-> p, co |-> d]
           new == {<<v, [type |-> "exit"]>>} \cup {<<g, s1>>, <<g, s2>>}
<1>1. /\ TypeOK /\ queue \in [Service -> Seq(Message)] /\ AgentMgr \in Service
      /\ AgentMgr \notin Attempt
  BY ServiceNames DEF TypeInv, TypeOK
<1>2. RequestInv /\ HandlerInv /\ TableInv /\ AgentInv /\ AnswerInv
  BY DEF SessionInv
<1>3. /\ queue[AgentMgr] # << >> /\ c \in co /\ c \in Coroutine /\ c.at = "agent_kick"
      /\ c.login # None /\ c.login \in Attempt /\ attempt[c.login] # None
  BY ResumedHandler DEF TakeOver
<1>4. /\ v \in Attempt /\ attempt[v] # None /\ agent[v] = "saved" /\ status[v] = "LOGOUT"
  BY SavedHandler DEF TakeOver
<1>5. /\ co' = (co \ {c}) \cup {d}
      /\ queue' = Post(q, g, <<s1, s2>>)
      /\ UNCHANGED <<cvars, gvars, lvars, mgr_players, status, agent>>
  BY DEF TakeOver
<1>6. /\ d \in Coroutine /\ d.at = "gate_kick" /\ d.login = c.login /\ d.victim = v
      /\ p \in Player /\ g \notin Attempt
  <2>1. d \in Coroutine /\ d.at = "gate_kick" /\ d.login = c.login /\ d.victim = v
    <3> HIDE DEF c
    <3>1. c = [at |-> c.at, login |-> c.login, victim |-> c.victim, by |-> c.by]
      BY <1>3 DEF Coroutine
    <3>2. d = [at |-> "gate_kick", login |-> c.login, victim |-> c.victim, by |-> c.by]
      BY <3>1
    <3> QED
      BY <1>3, <3>2 DEF Coroutine
  <2> HIDE DEF c
  <2>2. p \in Player /\ g \notin Attempt
    BY <1>1, <1>3, ServiceNames DEF TypeOK, PlayerOf, GateToTell, GateOf, FdOf
  <2> QED
    BY <2>1, <2>2
<1> HIDE DEF d, p, g, c, v
<1>7. /\ [type |-> "exit"] \in Message /\ s1 \in Message /\ s2 \in Message
      /\ s1.type = "send" /\ s2.type = "kick" /\ s2.co = d
  BY <1>6 DEF Message
<1> HIDE DEF s1, s2
<1>8. Grows(queue, queue', new)
  <2>1. Grows(queue, q, {<<v, [type |-> "exit"]>>})
    BY <1>1, <1>3, <1>7, TakenPost
  <2>2. q \in [Service -> Seq(Message)]
    BY <2>1 DEF Grows
  <2> HIDE DEF q
  <2>3. Grows(q, queue', {<<g, s1>>, <<g, s2>>})
    BY <1>5, <1>7, <2>2, PostTwo
  <2> QED
    BY <2>1, <2>3, GrowsTwice
<1> HIDE DEF q
<1>9. /\ \A x \in new : x[2].type \in {"exit", "send", "kick"}
      /\ \A x \in new : x[1] \in Attempt => x[1] = v /\ x[2].type = "exit"
      /\ \A x \in new : x[2].type = "kick" => x[2].co = d
  BY <1>6, <1>7
<1> HIDE DEF new
<1>10. UNCHANGED <<attempt, port, login, closing, mgr_players, status, agent>>
  BY <1>5 DEF cvars, gvars, lvars
<1>11. ASSUME NEW e \in co, e # c PROVE e.victim # v /\ e.login # c.login
  BY <1>2, <1>3, <1>4, <1>11, ServiceNames DEF HandlerInv, v
<1>12. RequestInv'
  <2>1. \A j \in Attempt : Fresh(j) => agent'[j] = "none" /\ \A e \in co' : e.login # j
    BY <1>3, <1>5, <1>6, <1>10 DEF Fresh
  <2>2. \A x \in new : x[2].type \notin {"login", "req_login"}
    BY <1>9
  <2> QED
    BY <1>2, <1>8, <1>10, <2>1, <2>2, RequestKept
<1>13. HandlerInv'
  <2>1. ASSUME NEW e \in co'
        PROVE  /\ e.at = "new_service" =>
                    /\ mgr_players[PlayerOf(e.login)] = e.login
                    /\ status[e.login] = "LOGIN"
                    /\ agent[e.login] \in {"loading", "running"}
               /\ e.at # "new_service" =>
                    /\ mgr_players[PlayerOf(e.victim)] = e.victim
                    /\ status[e.victim] = "LOGOUT"
                    /\ e.login # None => agent[e.login] = "none" /\ PlayerOf(e.login) = PlayerOf(e.victim)
               /\ e.at = "agent_kick" =>
                    /\ agent[e.victim] \in {"running", "saving", "saved"}
                    /\ [type |-> "exit"] \notin Msgs(queue', e.victim)
               /\ e.at = "gate_kick" => agent[e.victim] \in {"saved", "gone"}
    <3>1. CASE e = d
      <4>1. /\ mgr_players[PlayerOf(c.victim)] = c.victim
            /\ agent[c.login] = "none" /\ PlayerOf(c.login) = PlayerOf(c.victim)
        BY <1>2, <1>3 DEF HandlerInv
      <4> QED
        BY <1>4, <1>6, <3>1, <4>1 DEF v
    <3>2. CASE e \in co /\ e # c
      <4>1. e.at = "agent_kick" => [type |-> "exit"] \notin Msgs(queue', e.victim)
        <5> SUFFICES ASSUME e.at = "agent_kick" PROVE [type |-> "exit"] \notin Msgs(queue', e.victim)
          OBVIOUS
        <5>1. e.victim \in Attempt /\ e.victim # v
          BY <1>11, <3>2, HandlerTypes
        <5>2. <<e.victim, [type |-> "exit"]>> \notin new
          BY <1>9, <5>1
        <5>3. [type |-> "exit"] \notin Msgs(queue, e.victim)
          BY <1>2, <3>2 DEF HandlerInv
        <5> QED
          BY <1>8, <5>1, <5>2, <5>3, ServiceNames DEF Grows
      <4> QED
        BY <1>2, <3>2, <4>1 DEF HandlerInv
    <3> QED
      BY <1>5, <3>1, <3>2
  <2>2. /\ \A e, f \in co' : e.login # None /\ e.login = f.login => e = f
        /\ \A e, f \in co' : e.victim # None /\ e.victim = f.victim => e = f
    BY <1>2, <1>5, <1>6, <1>11 DEF HandlerInv, v
  <2> QED
    BY <1>10, <2>1, <2>2 DEF HandlerInv, PlayerOf
<1>14. TableInv'
  <2>1. \A j \in Attempt : NewHandler(j) \in co => NewHandler(j) \in co'
    BY <1>3, <1>5 DEF NewHandler
  <2>2. \A j \in Attempt : (\E e \in co : e.victim = j) => \E e \in co' : e.victim = j
    BY <1>5, <1>6 DEF v
  <2>3. \A r \in Player : mgr_players[r] # None => mgr_players[r] \in Attempt
    BY <1>1 DEF TypeOK
  <2> QED
    BY <1>2, <1>10, <2>1, <2>2, <2>3 DEF TableInv, PlayerOf
<1>15. AgentInv'
  <2>1. ASSUME NEW j \in Attempt, status[j] # "LOGOUT", NEW m \in Msgs(queue', j)
        PROVE  m \in Msgs(queue, j)
    BY <1>4, <1>8, <1>9, <2>1, ServiceNames DEF Grows
  <2> QED
    BY <1>2, <1>10, <2>1 DEF AgentInv, PlayerOf, HasData
<1>16. AnswerInv'
  <2>1. ASSUME NEW m \in Msgs(queue', AgentMgr), m.type = "resume" PROVE m \in Msgs(queue, AgentMgr)
    BY <1>1, <1>8, <1>9, <2>1 DEF Grows
  <2>2. ASSUME NEW s \in Gate, NEW m \in Msgs(queue', s), m.type = "kick"
        PROVE  m \in Msgs(queue, s) \/ m.co = d
    BY <1>8, <1>9, <2>2, ServiceNames DEF Grows
  <2>3. \A s \in Gate : \A m \in Msgs(queue', s) :
          m.type = "kick" => m.co = None \/ m.co.at = "gate_kick"
    BY <1>2, <1>6, <2>2 DEF AnswerInv
  <2> QED
    BY <1>2, <1>10, <2>1, <2>3 DEF AnswerInv
<1> QED
  BY <1>12, <1>13, <1>14, <1>15, <1>16 DEF SessionInv

(* The gateway has dropped the player: the login goes on. *)
LEMMA TakenOverSessions ==
  ASSUME TypeInv, SessionInv, TakenOver
  PROVE  SessionInv'
<1> DEFINE c == Head(queue[AgentMgr]).co
<1>1. /\ queue[AgentMgr] # << >> /\ c \in co /\ c.at = "gate_kick"
      /\ c.login # None /\ c.login \in Attempt /\ attempt[c.login] # None
  BY ResumedHandler DEF TakenOver
<1>2. CreateAgent(c.login, {c}) /\ UNCHANGED <<cvars, gvars, attempt>>
  BY DEF TakenOver
<1> HIDE DEF c
<1>3. /\ agent[c.login] = "none" /\ c.victim = mgr_players[PlayerOf(c.login)]
      /\ \A d \in co \ {c} : d.login # c.login
  BY <1>1 DEF SessionInv, HandlerInv
<1>4. Spent(c.login, Taken(AgentMgr))
  <2>1. Spent(c.login, queue)
    BY <1>1, AskedOnce DEF SessionInv, Fresh
  <2>2. Grows(queue, Taken(AgentMgr), {})
    BY <1>1, MgrReads
  <2> QED
    BY <2>1, <2>2, ServiceNames DEF Grows, Spent
<1> QED
  BY <1>1, <1>2, <1>3, <1>4, CreateSessions

(* A player who was kicked is off. *)
LEMMA KickOffSessions ==
  ASSUME TypeInv, SessionInv, KickOff
  PROVE  SessionInv'
<1> DEFINE c == Head(queue[AgentMgr]).co
           v == c.victim
           p == PlayerOf(v)
           g == GateOf(v)
           q == Post(Taken(AgentMgr), v, <<[type |-> "exit"]>>)
           s1 == [type |-> "kick", player |-> p, co |-> None]
           new == {<<v, [type |-> "exit"]>>} \cup {<<g, s1>>}
<1>1. /\ TypeOK /\ queue \in [Service -> Seq(Message)] /\ AgentMgr \in Service
      /\ AgentMgr \notin Attempt
  BY ServiceNames DEF TypeInv, TypeOK
<1>2. RequestInv /\ HandlerInv /\ TableInv /\ AgentInv /\ AnswerInv
  BY DEF SessionInv
<1>3. /\ queue[AgentMgr] # << >> /\ c \in co /\ c.at = "agent_kick" /\ c.login = None
      /\ c.by \in Attempt \cup {None}
  BY ResumedHandler DEF KickOff
<1>4. /\ v \in Attempt /\ attempt[v] # None /\ agent[v] = "saved" /\ status[v] = "LOGOUT"
      /\ mgr_players[p] = v
  BY SavedHandler DEF KickOff
<1>5. /\ co' = co \ {c}
      /\ mgr_players' = [mgr_players EXCEPT ![p] = None]
      /\ login' = Answered(c.by)
      /\ queue' = Post(q, g, <<s1>>)
      /\ UNCHANGED <<cvars, gvars, attempt, status, agent>>
  BY DEF KickOff
<1>6. p \in Player /\ g \notin Attempt /\ v # None
  <2> HIDE DEF c
  <2> QED
    BY <1>1, <1>4, ServiceNames DEF TypeOK, PlayerOf, GateOf, FdOf
<1> HIDE DEF p, g, c, v
<1>7. /\ [type |-> "exit"] \in Message /\ s1 \in Message
      /\ s1.type = "kick" /\ s1.co = None
  BY <1>6 DEF Message
<1> HIDE DEF s1
<1>8. Grows(queue, queue', new)
  <2>1. Grows(queue, q, {<<v, [type |-> "exit"]>>})
    BY <1>1, <1>3, <1>7, TakenPost
  <2>2. q \in [Service -> Seq(Message)]
    BY <2>1 DEF Grows
  <2> HIDE DEF q
  <2>3. Grows(q, queue', {<<g, s1>>})
    BY <1>5, <1>7, <2>2, PostOne
  <2> QED
    BY <2>1, <2>3, GrowsTwice
<1> HIDE DEF q
<1>9. /\ \A x \in new : x[2].type \in {"exit", "kick"}
      /\ \A x \in new : x[1] \in Attempt => x[1] = v /\ x[2].type = "exit"
      /\ \A x \in new : x[2].type = "kick" => x[2].co = None
  BY <1>6, <1>7
<1> HIDE DEF new
<1>10. /\ UNCHANGED <<attempt, port, closing, status, agent>>
       /\ \A j \in Attempt : login'[j] \in {login[j], "fail"}
       /\ mgr_players'[p] = None
       /\ \A r \in Player : r # p => mgr_players'[r] = mgr_players[r]
  BY <1>1, <1>3, <1>5, <1>6, AnsweredTypes DEF cvars, gvars, TypeOK
<1>11. ASSUME NEW e \in co, e # c
       PROVE  /\ e.victim # v
              /\ e.at = "new_service" => PlayerOf(e.login) # p
              /\ e.at # "new_service" => PlayerOf(e.victim) # p
  <2>1. e.victim # v
    BY <1>2, <1>3, <1>4, <1>6, <1>11 DEF HandlerInv, v
  <2>2. ASSUME e.at = "new_service" PROVE PlayerOf(e.login) # p
    BY <1>2, <1>4, <2>2 DEF HandlerInv
  <2>3. ASSUME e.at # "new_service" PROVE PlayerOf(e.victim) # p
    BY <1>2, <1>4, <2>1, <2>3 DEF HandlerInv
  <2> QED
    BY <2>1, <2>2, <2>3
<1>12. RequestInv'
  <2>1. \A j \in Attempt : Fresh(j) => agent'[j] = "none" /\ \A e \in co' : e.login # j
    BY <1>5, <1>10 DEF Fresh
  <2>2. \A x \in new : x[2].type \notin {"login", "req_login"}
    BY <1>9
  <2>3. \A j \in Attempt : login'[j] = "started" => login[j] = "started"
    BY <1>10
  <2> QED
    BY <1>2, <1>8, <1>10, <2>1, <2>2, <2>3, RequestKept
<1>13. HandlerInv'
  <2>1. ASSUME NEW e \in co, e # c
        PROVE  /\ e.at = "new_service" =>
                    /\ mgr_players'[PlayerOf(e.login)] = e.login
                    /\ status[e.login] = "LOGIN"
                    /\ agent[e.login] \in {"loading", "running"}
               /\ e.at # "new_service" =>
                    /\ mgr_players'[PlayerOf(e.victim)] = e.victim
                    /\ status[e.victim] = "LOGOUT"
                    /\ e.login # None => agent[e.login] = "none" /\ PlayerOf(e.login) = PlayerOf(e.victim)
               /\ e.at = "agent_kick" =>
                    /\ agent[e.victim] \in {"running", "saving", "saved"}
                    /\ [type |-> "exit"] \notin Msgs(queue', e.victim)
               /\ e.at = "gate_kick" => agent[e.victim] \in {"saved", "gone"}
    <3>1. e.at = "agent_kick" => [type |-> "exit"] \notin Msgs(queue', e.victim)
      <4> SUFFICES ASSUME e.at = "agent_kick" PROVE [type |-> "exit"] \notin Msgs(queue', e.victim)
        OBVIOUS
      <4>1. e.victim \in Attempt /\ e.victim # v
        BY <1>11, <2>1, HandlerTypes
      <4>2. <<e.victim, [type |-> "exit"]>> \notin new
        BY <1>9, <4>1
      <4>3. [type |-> "exit"] \notin Msgs(queue, e.victim)
        BY <1>2 DEF HandlerInv
      <4> QED
        BY <1>8, <4>1, <4>2, <4>3, ServiceNames DEF Grows
    <3>2. /\ e.at = "new_service" => PlayerOf(e.login) \in Player
          /\ e.at # "new_service" => PlayerOf(e.victim) \in Player
      BY <1>1, HandlerTypes DEF TypeOK, PlayerOf
    <3> QED
      BY <1>2, <1>10, <1>11, <2>1, <3>1, <3>2 DEF HandlerInv
  <2>2. /\ \A e, f \in co' : e.login # None /\ e.login = f.login => e = f
        /\ \A e, f \in co' : e.victim # None /\ e.victim = f.victim => e = f
    BY <1>2, <1>5 DEF HandlerInv
  <2> QED
    BY <1>5, <1>10, <2>1, <2>2 DEF HandlerInv, PlayerOf
<1>14. TableInv'
  <2>1. \A j \in Attempt : NewHandler(j) \in co => NewHandler(j) \in co'
    BY <1>3, <1>5 DEF NewHandler
  <2>2. \A j \in Attempt : j # v /\ (\E e \in co : e.victim = j) => \E e \in co' : e.victim = j
    BY <1>5 DEF v
  <2>3. \A r \in Player : mgr_players[r] # None => mgr_players[r] \in Attempt
    BY <1>1 DEF TypeOK
  <2>4. ASSUME NEW r \in Player, mgr_players'[r] # None
        PROVE  r # p /\ mgr_players'[r] = mgr_players[r] /\ mgr_players[r] # v
    BY <1>2, <1>6, <1>10, <2>4 DEF TableInv, p
  <2> QED
    BY <1>2, <1>10, <2>1, <2>2, <2>3, <2>4 DEF TableInv, PlayerOf
<1>15. AgentInv'
  <2>1. ASSUME NEW j \in Attempt, status[j] # "LOGOUT", NEW m \in Msgs(queue', j)
        PROVE  m \in Msgs(queue, j)
    BY <1>4, <1>8, <1>9, <2>1, ServiceNames DEF Grows
  <2>2. ASSUME NEW j \in Attempt, HasData(j)
        PROVE  mgr_players'[PlayerOf(j)] = j
    <3>1. mgr_players[PlayerOf(j)] = j /\ j # v
      BY <1>2, <1>4, <2>2 DEF AgentInv, HasData
    <3>2. PlayerOf(j) \in Player
      BY <1>1, <2>2 DEF HasData, TypeInv, TypeOK, MadeInv, Made, PlayerOf
    <3> QED
      BY <1>4, <1>10, <3>1, <3>2
  <2> QED
    BY <1>2, <1>10, <2>1, <2>2 DEF AgentInv, PlayerOf, HasData
<1>16. AnswerInv'
  <2>1. ASSUME NEW m \in Msgs(queue', AgentMgr), m.type = "resume" PROVE m \in Msgs(queue, AgentMgr)
    BY <1>1, <1>8, <1>9, <2>1 DEF Grows
  <2>2. ASSUME NEW s \in Gate, NEW m \in Msgs(queue', s), m.type = "kick"
        PROVE  m \in Msgs(queue, s) \/ m.co = None
    BY <1>8, <1>9, <2>2, ServiceNames DEF Grows
  <2>3. \A s \in Gate : \A m \in Msgs(queue', s) :
          m.type = "kick" => m.co = None \/ m.co.at = "gate_kick"
    BY <1>2, <2>2 DEF AnswerInv
  <2> QED
    BY <1>2, <1>10, <2>1, <2>3 DEF AnswerInv
<1> QED
  BY <1>12, <1>13, <1>14, <1>15, <1>16 DEF SessionInv

(* The new agent runs: its player is in the game. *)
LEMMA EnterSessions ==
  ASSUME TypeInv, SessionInv, EnterGame
  PROVE  SessionInv'
<1> DEFINE c == Head(queue[AgentMgr]).co
           i == c.login
<1>1. TypeOK /\ AgentMgr \in Service
  BY ServiceNames DEF TypeInv, TypeOK
<1>2. RequestInv /\ HandlerInv /\ TableInv /\ AgentInv /\ AnswerInv
  BY DEF SessionInv
<1>3. /\ queue[AgentMgr] # << >> /\ c \in co /\ c.at = "new_service" /\ c = NewHandler(i)
      /\ i # None /\ i \in Attempt /\ Answer(c) \in Msgs(queue, AgentMgr)
  BY ResumedHandler DEF EnterGame
<1>4. /\ status' = [status EXCEPT ![i] = "GAME"]
      /\ login' = [login EXCEPT ![i] = "granted"]
      /\ co' = co \ {c}
      /\ queue' = Taken(AgentMgr)
      /\ UNCHANGED <<cvars, gvars, attempt, mgr_players, agent>>
  BY DEF EnterGame
<1> HIDE DEF c
<1>5. Grows(queue, queue', {})
  BY <1>3, <1>4, MgrReads
<1>6. \A s \in Service : \A m \in Msgs(queue', s) : m \in Msgs(queue, s)
  BY <1>5 DEF Grows
<1>7. agent[i] = "running" /\ status[i] = "LOGIN" /\ c.victim = None
  <2>1. Answer(c).type = "resume" /\ Answer(c).co = c
    BY DEF Answer
  <2>2. agent[i] \notin {"none", "loading"}
    BY <1>2, <1>3, <2>1 DEF AnswerInv
  <2>3. agent[i] \in {"loading", "running"} /\ status[i] = "LOGIN"
    BY <1>2, <1>3 DEF HandlerInv
  <2> QED
    BY <1>3, <2>2, <2>3, HandlerTypes
<1> HIDE DEF i
<1>8. /\ UNCHANGED <<attempt, port, closing, mgr_players, agent>>
      /\ status'[i] = "GAME"
      /\ \A j \in Attempt : j # i => status'[j] = status[j] /\ login'[j] = login[j]
      /\ login'[i] = "granted"
  BY <1>1, <1>3, <1>4 DEF TypeOK, cvars, gvars
<1>9. ASSUME NEW e \in co, e # c
      PROVE  /\ e.at = "new_service" => e.login \in Attempt /\ e.login # i
             /\ e.at # "new_service" => e.victim \in Attempt /\ e.victim # i
  <2>1. e.at = "new_service" => e.login \in Attempt /\ e.login # i
    BY <1>2, <1>3, <1>9, HandlerTypes DEF HandlerInv, i
  <2>2. e.at # "new_service" => e.victim \in Attempt /\ e.victim # i
    BY <1>2, <1>7, HandlerTypes DEF HandlerInv
  <2> QED
    BY <2>1, <2>2
<1>10. RequestInv'
  <2>1. \A j \in Attempt : Fresh(j) => agent'[j] = "none" /\ \A e \in co' : e.login # j
    BY <1>4, <1>8 DEF Fresh
  <2>2. \A j \in Attempt : login'[j] = "started" => login[j] = "started"
    BY <1>8
  <2> QED
    BY <1>2, <1>5, <1>8, <2>1, <2>2, RequestKept
<1>11. HandlerInv'
  <2>1. ASSUME NEW e \in co, e # c
        PROVE  /\ e.at = "new_service" => status'[e.login] = status[e.login]
               /\ e.at # "new_service" => status'[e.victim] = status[e.victim]
               /\ e.at = "agent_kick" => [type |-> "exit"] \notin Msgs(queue', e.victim)
    BY <1>2, <1>6, <1>8, <1>9, <2>1, ServiceNames DEF HandlerInv
  <2>2. \A e \in co' : e \in co /\ e # c
    BY <1>4
  <2> QED
    BY <1>2, <1>8, <2>1, <2>2 DEF HandlerInv, PlayerOf
<1>12. TableInv'
  <2>1. \A j \in Attempt : j # i /\ NewHandler(j) \in co => NewHandler(j) \in co'
    BY <1>3, <1>4 DEF NewHandler
  <2>2. \A j \in Attempt : (\E e \in co : e.victim = j) => \E e \in co' : e.victim = j
    BY <1>4, <1>7, ServiceNames
  <2>3. \A r \in Player : mgr_players[r] # None => mgr_players[r] \in Attempt
    BY <1>1 DEF TypeOK
  <2> QED
    BY <1>2, <1>7, <1>8, <2>1, <2>2, <2>3 DEF TableInv, PlayerOf
<1>13. AgentInv'
  BY <1>2, <1>6, <1>7, <1>8, ServiceNames DEF AgentInv, PlayerOf, HasData
<1>14. AnswerInv'
  BY <1>1, <1>2, <1>6, <1>8, ServiceNames DEF AnswerInv
<1> QED
  BY <1>10, <1>11, <1>12, <1>13, <1>14 DEF SessionInv

(* Agent i may go to a state: no handler that waits, and no status, speaks *)
(* against it, and new holds only the answer that it is there.             *)
Due(i, to, new) ==
  /\ agent[i] # "none" /\ to \in {"running", "saving", "saved", "gone"}
  /\ \A x \in new :
       /\ x[1] = AgentMgr /\ x[2].type = "resume"
       /\ \/ x[2].co.at = "agent_kick" /\ x[2].co.victim = i /\ to \in {"saved", "gone"}
          \/ x[2].co.at = "new_service" /\ x[2].co.login = i
  /\ \A c \in co :
       /\ c.at = "new_service" /\ c.login = i => to = "running"
       /\ c.at = "agent_kick" /\ c.victim = i => to # "gone"
       /\ c.at = "gate_kick" /\ c.victim = i => to \in {"saved", "gone"}
  /\ status[i] = "GAME" => to = "running"
  /\ to \in {"running", "saving"} => HasData(i)

(* What one agent goes through disturbs none, if it is due.                *)
LEMMA AgentMoves ==
  ASSUME TypeInv, SessionInv, NEW i \in Attempt, NEW to, NEW new, Due(i, to, new),
         agent' = [agent EXCEPT ![i] = to], Grows(queue, queue', new),
         UNCHANGED <<cvars, gvars, lvars, mvars>>
  PROVE  SessionInv'
<1>0. /\ agent[i] # "none" /\ to \in {"running", "saving", "saved", "gone"}
      /\ \A x \in new :
           /\ x[1] = AgentMgr /\ x[2].type = "resume"
           /\ \/ x[2].co.at = "agent_kick" /\ x[2].co.victim = i /\ to \in {"saved", "gone"}
              \/ x[2].co.at = "new_service" /\ x[2].co.login = i
      /\ \A c \in co :
           /\ c.at = "new_service" /\ c.login = i => to = "running"
           /\ c.at = "agent_kick" /\ c.victim = i => to # "gone"
           /\ c.at = "gate_kick" /\ c.victim = i => to \in {"saved", "gone"}
      /\ status[i] = "GAME" => to = "running"
      /\ to \in {"running", "saving"} => HasData(i)
  BY DEF Due
<1>1. /\ TypeOK /\ AgentMgr \in Service /\ AgentMgr \notin Attempt /\ AgentMgr \notin Gate
      /\ i # None
  BY ServiceNames DEF TypeInv, TypeOK
<1>2. RequestInv /\ HandlerInv /\ TableInv /\ AgentInv /\ AnswerInv
  BY DEF SessionInv
<1>3. UNCHANGED <<attempt, port, login, closing, mgr_players, status, co>>
  BY DEF cvars, gvars, lvars, mvars
<1>4. agent'[i] = to /\ \A j \in Attempt : j # i => agent'[j] = agent[j]
  BY <1>1 DEF TypeOK
<1>5. ASSUME NEW s \in Service, s # AgentMgr, NEW m \in Msgs(queue', s) PROVE m \in Msgs(queue, s)
  BY <1>0, <1>5 DEF Grows
<1>6. RequestInv'
  <2>1. \A j \in Attempt : Fresh(j) => agent'[j] = "none" /\ \A e \in co' : e.login # j
    BY <1>0, <1>3, <1>4 DEF Fresh
  <2>2. \A x \in new : x[2].type \notin {"login", "req_login"}
    BY <1>0
  <2>3. \A j \in Attempt : login'[j] = "started" => login[j] = "started"
    BY <1>3
  <2> QED
    BY <1>2, <1>3, <2>1, <2>2, <2>3, RequestKept
<1>7. HandlerInv'
  <2>1. ASSUME NEW c \in co
        PROVE  /\ c.at = "new_service" => agent'[c.login] \in {"loading", "running"}
               /\ c.at = "agent_kick" => agent'[c.victim] \in {"running", "saving", "saved"}
               /\ c.at = "gate_kick" => agent'[c.victim] \in {"saved", "gone"}
               /\ c.at # "new_service" /\ c.login # None => agent'[c.login] = "none"
               /\ c.at = "agent_kick" => [type |-> "exit"] \notin Msgs(queue', c.victim)
    <3>1. /\ c.login # None => c.login \in Attempt
          /\ c.at = "new_service" => c.login # None
          /\ c.at # "new_service" => c.victim \in Attempt
      BY HandlerTypes
    <3>2. c.at = "new_service" => agent'[c.login] \in {"loading", "running"}
      BY <1>0, <1>2, <1>4, <3>1 DEF HandlerInv
    <3>3. c.at = "agent_kick" => agent'[c.victim] \in {"running", "saving", "saved"}
      BY <1>0, <1>2, <1>4, <3>1 DEF HandlerInv
    <3>4. c.at = "gate_kick" => agent'[c.victim] \in {"saved", "gone"}
      BY <1>0, <1>2, <1>4, <3>1 DEF HandlerInv
    <3>5. c.at # "new_service" /\ c.login # None => agent'[c.login] = "none"
      BY <1>0, <1>2, <1>4, <3>1 DEF HandlerInv
    <3>6. c.at = "agent_kick" => [type |-> "exit"] \notin Msgs(queue', c.victim)
      BY <1>1, <1>2, <1>5, <3>1, ServiceNames DEF HandlerInv
    <3> QED
      BY <3>2, <3>3, <3>4, <3>5, <3>6
  <2> QED
    BY <1>2, <1>3, <2>1 DEF HandlerInv, PlayerOf
<1>8. TableInv'
  <2>1. ASSUME NEW r \in Player, mgr_players[r] # None, status[mgr_players[r]] = "GAME"
        PROVE  agent'[mgr_players[r]] = "running"
    BY <1>0, <1>1, <1>2, <1>4, <2>1 DEF TableInv, TypeOK
  <2> QED
    BY <1>2, <1>3, <2>1 DEF TableInv, PlayerOf
<1>9. AgentInv'
  <2>1. \A j \in Attempt : agent'[j] \in {"loading", "running", "saving"} => HasData(j)
    BY <1>0, <1>4 DEF HasData
  <2>2. \A j \in Attempt : agent'[j] = "none" <=> agent[j] = "none"
    BY <1>0, <1>4
  <2>3. \A j \in Attempt : \A m \in Msgs(queue', j) : m \in Msgs(queue, j)
    BY <1>1, <1>5, ServiceNames
  <2> QED
    BY <1>2, <1>3, <2>1, <2>2, <2>3 DEF AgentInv, PlayerOf, HasData
<1>10. AnswerInv'
  <2>1. ASSUME NEW m \in Msgs(queue', AgentMgr), m.type = "resume"
        PROVE  /\ m.co.at = "agent_kick" =>
                    m.co.victim # None /\ agent'[m.co.victim] \in {"saved", "gone"}
               /\ m.co.at = "new_service" =>
                    m.co.login # None /\ agent'[m.co.login] \notin {"none", "loading"}
    <3>1. CASE <<AgentMgr, m>> \in new
      BY <1>0, <1>1, <1>4, <3>1
    <3>2. CASE m \in Msgs(queue, AgentMgr)
      <4>1. m \in Message
        BY <1>1, <3>2, QueuedTyped
      <4>2. m.co \in Coroutine
        BY <2>1, <4>1, MessageFields
      <4>3. m.co.victim \in Attempt \cup {None} /\ m.co.login \in Attempt \cup {None}
        BY <4>2 DEF Coroutine
      <4>4. agent[i] \in {"saved", "gone"} => to \in {"saved", "gone"}
        BY <1>0 DEF HasData
      <4> QED
        BY <1>0, <1>2, <1>4, <2>1, <3>2, <4>3, <4>4 DEF AnswerInv
    <3> QED
      BY <1>1, <3>1, <3>2 DEF Grows
  <2>2. \A s \in Gate : \A m \in Msgs(queue', s) : m \in Msgs(queue, s)
    BY <1>1, <1>5, ServiceNames
  <2> QED
    BY <1>2, <1>3, <2>1, <2>2 DEF AnswerInv
<1> QED
  BY <1>6, <1>7, <1>8, <1>9, <1>10 DEF SessionInv

(* What an agent does disturbs none. *)
LEMMA AgentSessions ==
  ASSUME TypeInv, SessionInv, NEW i \in Attempt, AgentStep(i)
  PROVE  SessionInv'
<1>1. /\ TypeOK /\ queue \in [Service -> Seq(Message)] /\ i \in Service /\ i # None
      /\ Gate \cap Attempt = {} /\ AgentMgr \in Service
  BY ServiceNames DEF TypeInv, TypeOK
<1>2. HandlerInv /\ TableInv /\ AgentInv /\ AnswerInv
  BY DEF SessionInv
<1>3. ASSUME queue[i] # << >>
      PROVE  /\ Grows(queue, Taken(i), {})
             /\ Head(queue[i]) \in Message /\ Head(queue[i]) \in Msgs(queue, i)
  BY <1>1, <1>3, TakenQueue
(* Who has been told to stop is off already. *)
<1>4. ASSUME queue[i] # << >>, Head(queue[i]).type # "client"
      PROVE  /\ status[i] = "LOGOUT"
             /\ \A c \in co : ~(c.at = "new_service" /\ c.login = i)
  BY <1>2, <1>3, <1>4 DEF AgentInv, HandlerInv
<1>5. ASSUME NEW c \in co
      PROVE  LET New == IF c = None THEN {} ELSE {<<AgentMgr, Answer(c)>>} IN
             /\ Grows(queue, Post(queue, AgentMgr, Resume(c)), New)
             /\ \A x \in New : x[1] = AgentMgr /\ x[2].type = "resume" /\ x[2].co = c
  <2>1. c \in Coroutine \cup {None}
    BY <1>1 DEF TypeOK
  <2>2. Grows(queue, Post(queue, AgentMgr, Resume(c)),
              IF c = None THEN {} ELSE {<<AgentMgr, Answer(c)>>})
    BY <1>1, <2>1, PostResume
  <2>3. Answer(c).type = "resume" /\ Answer(c).co = c
    BY DEF Answer
  <2> QED
    BY <2>2, <2>3
(* A handler finds its agent where it left it. *)
<1>6. ASSUME NEW c \in co
      PROVE  /\ c.at = "new_service" /\ c.login = i => agent[i] \in {"loading", "running"}
             /\ c.at = "agent_kick" /\ c.victim = i =>
                  agent[i] \in {"running", "saving", "saved"} /\ [type |-> "exit"] \notin Msgs(queue, i)
             /\ c.at = "gate_kick" /\ c.victim = i => agent[i] \in {"saved", "gone"}
  BY <1>2 DEF HandlerInv
<1>7. CASE AgentLoaded(i)
  <2>1. /\ agent[i] = "loading" /\ agent' = [agent EXCEPT ![i] = "running"]
        /\ UNCHANGED <<cvars, gvars, lvars, mvars>>
    BY <1>7 DEF AgentLoaded
  <2>2. PICK c \in co : /\ c.at = "new_service" /\ c.login = i
                        /\ queue' = Post(queue, AgentMgr, Resume(c))
    BY <1>7 DEF AgentLoaded
  <2> DEFINE New == IF c = None THEN {} ELSE {<<AgentMgr, Answer(c)>>}
  <2>3. /\ Grows(queue, queue', New)
        /\ \A x \in New : x[1] = AgentMgr /\ x[2].type = "resume" /\ x[2].co = c
    BY <1>5, <2>2
  <2> HIDE DEF New
  <2>4. \A d \in co : ~(d.at # "new_service" /\ d.victim = i)
    <3>1. ASSUME NEW d \in co PROVE d.at \in {"agent_kick", "gate_kick", "new_service"}
      BY HandlerTypes
    <3> QED
      BY <1>6, <2>1, <3>1
  <2>5. Due(i, "running", New)
    BY <2>1, <2>2, <2>3, <2>4 DEF Due, HasData
  <2> QED
    BY <2>1, <2>3, <2>5, AgentMoves
<1>8. CASE AgentSaved(i)
  <2>1. /\ agent[i] = "saving" /\ agent' = [agent EXCEPT ![i] = "saved"]
        /\ UNCHANGED <<cvars, gvars, lvars, mvars>>
    BY <1>8 DEF AgentSaved
  <2>2. PICK c \in co : /\ c.at = "agent_kick" /\ c.victim = i
                        /\ queue' = Post(queue, AgentMgr, Resume(c))
    BY <1>8 DEF AgentSaved
  <2> DEFINE New == IF c = None THEN {} ELSE {<<AgentMgr, Answer(c)>>}
  <2>3. /\ Grows(queue, queue', New)
        /\ \A x \in New : x[1] = AgentMgr /\ x[2].type = "resume" /\ x[2].co = c
    BY <1>5, <2>2
  <2> HIDE DEF New
  <2>4. status[i] # "GAME"
    <3>1. attempt[i] # None
      BY <2>1 DEF TypeInv, MadeInv, Made
    <3>2. PlayerOf(i) \in Player
      BY <1>1, <3>1 DEF TypeOK, PlayerOf
    <3>3. mgr_players[PlayerOf(i)] = i
      BY <1>2, <2>1 DEF AgentInv, HasData
    <3> QED
      BY <1>1, <1>2, <2>1, <3>2, <3>3 DEF TableInv
  <2>5. \A d \in co : ~(d.at = "new_service" /\ d.login = i)
    BY <1>6, <2>1
  <2>6. Due(i, "saved", New)
    BY <2>1, <2>2, <2>3, <2>4, <2>5 DEF Due
  <2> QED
    BY <2>1, <2>3, <2>6, AgentMoves
<1>9. CASE AgentKick(i)
  <2>1. /\ agent[i] = "running" /\ agent' = [agent EXCEPT ![i] = "saving"]
        /\ queue' = Taken(i) /\ queue[i] # << >> /\ Head(queue[i]).type = "agent_kick"
        /\ UNCHANGED <<cvars, gvars, lvars, mvars>>
    BY <1>9 DEF AgentKick, Receives
  <2>2. /\ status[i] # "GAME"
        /\ \A d \in co : ~(d.at = "new_service" /\ d.login = i)
    BY <1>4, <2>1
  <2>3. Grows(queue, queue', {})
    BY <1>3, <2>1
  <2>4. \A d \in co : ~(d.at = "gate_kick" /\ d.victim = i)
    BY <1>6, <2>1
  <2>5. Due(i, "saving", {})
    BY <2>1, <2>2, <2>4 DEF Due, HasData
  <2> QED
    BY <2>1, <2>3, <2>5, AgentMoves
<1>10. CASE AgentExit(i)
  <2>1. /\ agent[i] \in {"running", "saving", "saved"} /\ agent' = [agent EXCEPT ![i] = "gone"]
        /\ queue' = [queue EXCEPT ![i] = << >>]
        /\ queue[i] # << >> /\ Head(queue[i]).type = "exit"
        /\ UNCHANGED <<cvars, gvars, lvars, mvars>>
    BY <1>10 DEF AgentExit, Receives
  <2>2. /\ status[i] # "GAME"
        /\ \A d \in co : ~(d.at = "new_service" /\ d.login = i)
    BY <1>4, <2>1
  <2>3. Grows(queue, queue', {})
    BY <1>1, <2>1, EmptiedQueue
  <2>4. \A d \in co : ~(d.at = "agent_kick" /\ d.victim = i)
    <3>1. Head(queue[i]) = [type |-> "exit"]
      BY <1>3, <2>1 DEF Message
    <3> QED
      BY <1>3, <1>6, <2>1, <3>1
  <2>5. Due(i, "gone", {})
    BY <2>1, <2>2, <2>4 DEF Due
  <2> QED
    BY <2>1, <2>3, <2>5, AgentMoves
<1>11. CASE AgentClient(i)
  <2> DEFINE g == Head(queue[i]).gate
             m == [type |-> "send", player |-> PlayerOf(i)]
  <2>1. /\ queue[i] # << >> /\ Head(queue[i]).type = "client"
        /\ agent[i] # "none" /\ queue' = Post(Taken(i), g, <<m>>)
        /\ UNCHANGED <<cvars, gvars, lvars, mvars, agent>>
    BY <1>11 DEF AgentClient, Receives
  <2>2. g \in Gate
    BY <1>3, <2>1, MessageFields
  <2>3. m \in Message
    <3>1. attempt[i] # None
      BY <2>1 DEF TypeInv, MadeInv, Made
    <3>2. PlayerOf(i) \in Player
      BY <1>1, <3>1 DEF TypeOK, PlayerOf
    <3> QED
      BY <3>2 DEF Message
  <2>4. m.type = "send"
    OBVIOUS
  <2> HIDE DEF m, g
  <2>5. Grows(queue, queue', {<<g, m>>})
    BY <1>1, <2>1, <2>3, TakenPost
  <2>6. Quiet({<<g, m>>})
    BY <2>2, <2>4, ServiceNames DEF Quiet, Calm
  <2>7. QuietFrame
    BY <2>1 DEF QuietFrame, CalmFrame, cvars, gvars, lvars, mvars
  <2> QED
    BY <2>5, <2>6, <2>7, QuietStep
<1> QED
  BY <1>7, <1>8, <1>9, <1>10, <1>11 DEF AgentStep

(* No step breaks the types. *)
LEMMA TypeStep == TypeInv /\ [Next]_vars => TypeInv'
<1> SUFFICES ASSUME TypeInv, [Next]_vars PROVE TypeInv'
  OBVIOUS
<1>1. CASE ClientStep
  BY <1>1, ClientTypes DEF ClientStep
<1>2. ASSUME NEW g \in Gate, GateStep(g) PROVE TypeInv'
  BY <1>2, GateDataKeeps, DataLoginKeeps, GateRequestKeeps DEF GateStep, Keeps
<1>3. ASSUME NEW i \in Attempt, LoginStep(i) \/ AgentStep(i) \/ Timeout(i) PROVE TypeInv'
  BY <1>3, LoginTypes, AgentTypes, TimeoutKeeps DEF Keeps
<1>4. CASE MgrStep
  BY <1>4, MgrTypes
<1>5. CASE UNCHANGED vars
  BY <1>5 DEF vars, cvars, gvars, lvars, mvars, TypeInv, TypeOK, MadeInv, QueueMade,
              HandlerMade, MadeHandler, Made, Msgs, FdOf
<1> QED
  BY <1>1, <1>2, <1>3, <1>4, <1>5 DEF Next

(* Every variable keeps its type, and nothing names an attempt that was    *)
(* not made.                                                               *)
THEOREM TypeCorrect == Spec => []TypeInv
<1> QED
  BY TypeInit, TypeStep, PTL DEF Spec

-----------------------------------------------------------------------------
(* The inductive invariant holds. *)

LEMMA SessionInit == Init => SessionInv
<1> SUFFICES ASSUME Init PROVE SessionInv
  OBVIOUS
<1>1. \A s \in Service : Msgs(queue, s) = {} /\ queue[s] = << >>
  BY DEF Init, Msgs
<1>2. /\ AgentMgr \in Service /\ Gate \subseteq Service /\ Attempt \subseteq Service
  BY ServiceNames
<1>3. RequestInv
  <2>1. \A i \in Attempt : login[i] = "none" /\ Fresh(i)
    BY DEF Init, Fresh
  <2>2. \A s \in Service : \A m : Once(queue, s, m)
    BY <1>1 DEF Once
  <2> QED
    BY <1>1, <1>2, <2>1, <2>2 DEF RequestInv
<1>4. HandlerInv
  BY DEF Init, HandlerInv
<1>5. TableInv
  BY DEF Init, TableInv
<1>6. AgentInv
  BY <1>1, <1>2 DEF Init, AgentInv, HasData
<1>7. AnswerInv
  BY <1>1, <1>2 DEF Init, AnswerInv
<1> QED
  BY <1>3, <1>4, <1>5, <1>6, <1>7 DEF SessionInv

(* No step breaks the sessions. *)
LEMMA SessionStep == TypeInv /\ SessionInv /\ [Next]_vars => SessionInv'
<1> SUFFICES ASSUME TypeInv, SessionInv, [Next]_vars PROVE SessionInv'
  OBVIOUS
<1>1. CASE ClientStep
  BY <1>1, ClientSessions DEF ClientStep
<1>2. ASSUME NEW g \in Gate, GateStep(g) PROVE SessionInv'
  BY <1>2, GateDataKeeps, DataLoginKeeps, GateRequestKeeps DEF GateStep, Keeps
<1>3. ASSUME NEW i \in Attempt, LoginStep(i) \/ AgentStep(i) \/ Timeout(i) PROVE SessionInv'
  BY <1>3, LoginSessions, AgentSessions, TimeoutKeeps DEF Keeps
<1>4. CASE MgrStep
  BY <1>4, ReqSessions, TakeOverSessions, TakenOverSessions, KickOffSessions, EnterSessions
     DEF MgrStep
<1>5. CASE UNCHANGED vars
  <2>1. /\ UNCHANGED <<port, attempt, login, mgr_players, status, co, agent, queue, closing>>
    BY <1>5 DEF vars, cvars, gvars, lvars, mvars
  <2>2. RequestInv'
    BY <2>1 DEF SessionInv, RequestInv, Msgs, Once, Fresh, GateOf, FdOf
  <2>3. HandlerInv' /\ TableInv'
    BY <2>1 DEF SessionInv, HandlerInv, TableInv, Msgs, PlayerOf
  <2>4. AgentInv' /\ AnswerInv'
    BY <2>1 DEF SessionInv, AgentInv, AnswerInv, Msgs, PlayerOf, HasData
  <2> QED
    BY <2>2, <2>3, <2>4 DEF SessionInv
<1> QED
  BY <1>1, <1>2, <1>3, <1>4, <1>5 DEF Next

LEMMA SessionCorrect == Spec => [](TypeInv /\ SessionInv)
<1>1. Init => TypeInv /\ SessionInv
  BY TypeInit, SessionInit
<1>2. TypeInv /\ SessionInv /\ [Next]_vars => (TypeInv /\ SessionInv)'
  BY TypeStep, SessionStep
<1> QED
  BY <1>1, <1>2, PTL DEF Spec

(* A player's data is loaded only when no other agent of the player has    *)
(* data it has not saved: both would be the one in the table of agent_mgr. *)
THEOREM SavedBeforeLoadAlways == Spec => []SavedBeforeLoad
<1>1. SessionInv => SavedBeforeLoad
  BY DEF SessionInv, AgentInv, SavedBeforeLoad
<1> QED
  BY <1>1, SessionCorrect, PTL

(* What the sessions say of it. *)
LEMMA AttendedInv ==
  ASSUME TypeInv, SessionInv
  PROVE  StatusAttended
<1>0. TypeOK /\ HandlerInv /\ TableInv
  BY DEF TypeInv, SessionInv
<1>1. ASSUME NEW c \in co
      PROVE  LET i == IF c.at = "new_service" THEN c.login ELSE c.victim
             IN  mgr_players[PlayerOf(i)] = i /\ Attends(c, i)
  <2>1. CASE c.at = "new_service"
    BY <1>0, <2>1 DEF HandlerInv, Attends
  <2>2. CASE c.at # "new_service"
    BY <1>0, <2>2 DEF HandlerInv, Attends
  <2> QED
    BY <2>1, <2>2
<1>2. ASSUME NEW p \in Player, mgr_players[p] # None, status[mgr_players[p]] # "GAME"
      PROVE  Cardinality({c \in co : Attends(c, mgr_players[p])}) = 1
  <2> DEFINE i == mgr_players[p]
  <2>1. i \in Attempt /\ i # None /\ status[i] \in {"LOGIN", "LOGOUT"}
    BY <1>0, <1>2 DEF TypeOK, TableInv
  <2>2. /\ status[i] = "LOGIN" => NewHandler(i) \in co
        /\ status[i] = "LOGOUT" => \E c \in co : c.victim = i
    BY <1>0, <1>2 DEF TableInv
  <2> HIDE DEF i
  <2>3. \E c \in co : Attends(c, i)
    <3>1. CASE status[i] = "LOGIN"
      BY <2>2, <3>1 DEF Attends, NewHandler
    <3>2. CASE status[i] = "LOGOUT"
      <4>1. PICK c \in co : c.victim = i
        BY <2>2, <3>2
      <4>2. c.at # "new_service"
        BY <2>1, <4>1, HandlerTypes
      <4> QED
        BY <3>2, <4>1, <4>2 DEF Attends
    <3> QED
      BY <2>1, <3>1, <3>2
  <2>4. \A c, d \in co : Attends(c, i) /\ Attends(d, i) => c = d
    BY <1>0, <2>1 DEF Attends, HandlerInv
  <2>5. \E c : {d \in co : Attends(d, i)} = {c}
    BY <2>3, <2>4
  <2>6. Cardinality({d \in co : Attends(d, i)}) = 1
    BY <2>5, FS_Singleton
  <2> QED
    BY <2>6 DEF i
<1> QED
  BY <1>1, <1>2 DEF StatusAttended

(* A player on the way in or out has exactly one handler of agent_mgr that *)
(* takes it there, and each handler finds its own mgr_player in the table. *)
THEOREM StatusAttendedAlways == Spec => []StatusAttended
<1>1. TypeInv /\ SessionInv => StatusAttended
  BY AttendedInv
<1> QED
  BY <1>1, SessionCorrect, PTL

(* What the sessions say of it. *)
LEMMA HasAgentInv ==
  ASSUME TypeInv, SessionInv
  PROVE  GameHasAgent
<1>0. TypeOK /\ HandlerInv /\ TableInv /\ AgentInv
  BY DEF TypeInv, SessionInv
<1>1. ASSUME NEW p \in Player, mgr_players[p] # None, status[mgr_players[p]] = "GAME"
      PROVE  /\ agent[mgr_players[p]] = "running"
             /\ \A k \in DOMAIN queue[mgr_players[p]] :
                  queue[mgr_players[p]][k].type = "client"
  <2>1. mgr_players[p] \in Attempt /\ agent[mgr_players[p]] = "running"
    BY <1>0, <1>1 DEF TypeOK, TableInv
  <2>2. \A m \in Msgs(queue, mgr_players[p]) : m.type = "client"
    BY <1>0, <1>1, <2>1 DEF AgentInv
  <2> QED
    BY <2>1, <2>2 DEF Msgs
<1>2. \A c \in co : c.at = "agent_kick" => agent[c.victim] \notin {"none", "loading", "gone"}
  BY <1>0 DEF HandlerInv
<1> QED
  BY <1>1, <1>2 DEF GameHasAgent

(* A player in the game has a running agent that nobody has told to stop,  *)
(* and every kick of agent_mgr finds its agent there to answer.            *)
THEOREM GameHasAgentAlways == Spec => []GameHasAgent
<1>1. TypeInv /\ SessionInv => GameHasAgent
  BY HasAgentInv
<1> QED
  BY <1>1, SessionCorrect, PTL
=============================================================================
