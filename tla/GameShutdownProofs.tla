------------------------ MODULE GameShutdownProofs ------------------------
(***************************************************************************)
(* Proofs about the answers of agent_mgr and the shutdown.  In GameSession *)
(* no answer is lost: a handler that waits has its answer under way.  In   *)
(* GameShutdown the sessions keep their invariants while the servers are   *)
(* closed, and what abort leaves behind has been saved.                    *)
(***************************************************************************)
EXTENDS GameShutdown, GameSessionProofs

-----------------------------------------------------------------------------
(* The inductive invariant. *)

KickedMsg(c) == [type |-> "agent_kick", co |-> c]
CloseMsg(fd) == [type |-> "close", fd |-> fd]

(* The answer that c waits for is under way. *)
Coming(c) ==
  \/ Answer(c) \in Msgs(queue, AgentMgr)
  \/ /\ c.at = "new_service"
     /\ agent[c.login] = "loading"
  \/ /\ c.at = "agent_kick"
     /\ \/ KickedMsg(c) \in Msgs(queue, c.victim)
        \/ agent[c.victim] = "saving"
  \/ /\ c.at = "gate_kick"
     /\ \E g \in Gate :
          \/ [type |-> "kick", player |-> PlayerOf(c.login), co |-> c] \in Msgs(queue, g)
          \/ \E fd \in Fd : /\ \E k \in DOMAIN closing[fd] : closing[fd][k] = c
                            /\ CloseMsg(fd) \in Msgs(queue, g)

(* A message on the way: no reader is told of more kicks than wait for it, *)
(* and an attempt's gateway is one.                                        *)
WaitInv == \A fd \in Fd : Len(closing[fd]) <= 2
PortInv ==
  /\ \A fd \in Fd : sock[fd] = "open" => port[fd] \in Gate
  /\ \A i \in Attempt : attempt[i] # None => GateOf(i) \in Gate

ComingInv == /\ \A c \in co : Coming(c)
             /\ WaitInv /\ PortInv

LEMMA ComingMeans == AnswerComes <=> \A c \in co : Coming(c)
<1>1. ASSUME NEW s, NEW m PROVE InQueue(s, m) <=> m \in Msgs(queue, s)
  BY DEF InQueue, Msgs
<1> QED
  BY <1>1 DEF AnswerComes, Coming, Answer, KickedMsg, CloseMsg

-----------------------------------------------------------------------------
(* Queues. *)

(* What q has that q2 has not is in gone, a set of <<service, message>>. *)
Loses(q, q2, gone) ==
  \A s \in Service : \A m \in Msgs(q, s) : m \in Msgs(q2, s) \/ <<s, m>> \in gone

(* Posting loses nothing, and what was posted is there. *)
LEMMA PostLoses ==
  ASSUME NEW T, NEW q \in [Service -> Seq(T)], NEW s, NEW ms \in Seq(T)
  PROVE  /\ Post(q, s, ms) \in [Service -> Seq(T)]
         /\ Loses(q, Post(q, s, ms), {})
         /\ s \in Service => \A k \in DOMAIN ms : ms[k] \in Msgs(Post(q, s, ms), s)
<1> DEFINE r == Post(q, s, ms)
<1>1. ASSUME NEW t \in Service
      PROVE  q[t] \o ms \in Seq(T)
  <2>1. q[t] \in Seq(T)
    OBVIOUS
  <2> QED
    BY <2>1
<1>2. r \in [Service -> Seq(T)]
  BY <1>1 DEF Post
<1>3. ASSUME NEW t \in Service, t # s PROVE r[t] = q[t]
  BY <1>3 DEF Post
<1>4. ASSUME NEW t \in Service, t = s
      PROVE  /\ Len(q[t]) \in Nat /\ Len(ms) \in Nat /\ DOMAIN ms = 1 .. Len(ms)
             /\ DOMAIN q[t] = 1 .. Len(q[t]) /\ DOMAIN r[t] = 1 .. Len(q[t]) + Len(ms)
             /\ \A k \in 1 .. Len(q[t]) : r[t][k] = q[t][k]
             /\ \A k \in 1 .. Len(ms) : r[t][Len(q[t]) + k] = ms[k]
  <2>1. r[t] = q[t] \o ms /\ q[t] \in Seq(T)
    BY <1>4 DEF Post
  <2> HIDE DEF r
  <2> QED
    BY <2>1
<1> HIDE DEF r
<1>5. ASSUME NEW t \in Service, NEW m \in Msgs(q, t) PROVE m \in Msgs(r, t)
  <2>1. CASE t # s
    BY <1>3, <2>1 DEF Msgs
  <2>2. CASE t = s
    <3>1. PICK k \in DOMAIN q[t] : m = q[t][k]
      BY DEF Msgs
    <3>2. k \in DOMAIN r[t] /\ r[t][k] = m
      BY <1>4, <2>2, <3>1
    <3> QED
      BY <3>2 DEF Msgs
  <2> QED
    BY <2>1, <2>2
<1>6. ASSUME s \in Service, NEW k \in DOMAIN ms PROVE ms[k] \in Msgs(r, s)
  <2>1. /\ Len(q[s]) \in Nat /\ Len(ms) \in Nat /\ k \in 1 .. Len(ms)
        /\ DOMAIN r[s] = 1 .. Len(q[s]) + Len(ms) /\ r[s][Len(q[s]) + k] = ms[k]
    BY <1>4, <1>6, Zenon
  <2>2. Len(q[s]) + k \in DOMAIN r[s]
    BY <2>1
  <2> QED
    BY <2>1, <2>2 DEF Msgs
<1> QED
  BY <1>2, <1>5, <1>6 DEF Loses, r

(* Taking loses the first message at most. *)
LEMMA TakenLoses ==
  ASSUME queue \in [Service -> Seq(Message)], NEW s \in Service, queue[s] # << >>
  PROVE  /\ Taken(s) \in [Service -> Seq(Message)]
         /\ Loses(queue, Taken(s), {<<s, Head(queue[s])>>})
<1> DEFINE r == Taken(s)
           q == queue[s]
<1>1. /\ q \in Seq(Message) /\ Head(q) = q[1] /\ Tail(q) \in Seq(Message)
      /\ Len(q) \in Nat \ {0} /\ DOMAIN q = 1 .. Len(q) /\ DOMAIN Tail(q) = 1 .. Len(q) - 1
      /\ \A k \in 1 .. Len(q) - 1 : Tail(q)[k] = q[k + 1]
  OBVIOUS
<1>2. r \in [Service -> Seq(Message)] /\ r[s] = Tail(q)
  BY <1>1 DEF Taken
<1>3. \A t \in Service : t # s => r[t] = queue[t]
  BY DEF Taken
<1> HIDE DEF r
<1>4. ASSUME NEW t \in Service, NEW m \in Msgs(queue, t)
      PROVE  m \in Msgs(r, t) \/ <<t, m>> \in {<<s, Head(q)>>}
  <2>1. CASE t # s
    BY <1>3, <2>1 DEF Msgs
  <2>2. CASE t = s
    <3>1. PICK k \in DOMAIN q : m = q[k]
      BY <2>2 DEF Msgs
    <3>2. CASE k = 1
      BY <1>1, <2>2, <3>1, <3>2
    <3>3. CASE k # 1
      <4>1. k - 1 \in DOMAIN Tail(q) /\ Tail(q)[k - 1] = q[k]
        BY <1>1, <3>1, <3>3
      <4> QED
        BY <1>2, <2>2, <3>1, <4>1 DEF Msgs
    <3> QED
      BY <3>2, <3>3
  <2> QED
    BY <2>1, <2>2
<1> QED
  BY <1>2, <1>4 DEF Loses, r

(* One change of the queues after another. *)
LEMMA LosesTwice ==
  ASSUME NEW q, NEW r, NEW z, NEW A, Loses(q, r, A), Loses(r, z, {})
  PROVE  Loses(q, z, A)
BY DEF Loses

(* One message is posted. *)
LEMMA PostOneLoses ==
  ASSUME NEW q \in [Service -> Seq(Message)], NEW s, NEW m
  PROVE  /\ Loses(q, Post(q, s, <<m>>), {})
         /\ s \in Service => m \in Msgs(Post(q, s, <<m>>), s)
<1> DEFINE T == Message \cup {m}
<1>1. q \in [Service -> Seq(T)]
  <2>1. \A x \in Seq(Message) : x \in Seq(T)
    OBVIOUS
  <2> QED
    BY <2>1
<1> DEFINE ms == <<m>>
<1>2. ms \in Seq(T) /\ 1 \in DOMAIN ms /\ ms[1] = m
  OBVIOUS
<1> HIDE DEF T, ms
<1>3. /\ Loses(q, Post(q, s, ms), {})
      /\ s \in Service => \A k \in DOMAIN ms : ms[k] \in Msgs(Post(q, s, ms), s)
  BY <1>1, <1>2, PostLoses
<1>4. /\ Loses(q, Post(q, s, ms), {})
      /\ s \in Service => m \in Msgs(Post(q, s, ms), s)
  BY <1>2, <1>3
<1> QED
  BY <1>4 DEF ms

(* A message is taken and another one posted. *)
LEMMA TakenPostLoses ==
  ASSUME queue \in [Service -> Seq(Message)], NEW s \in Service, queue[s] # << >>,
         NEW t, NEW m
  PROVE  /\ Loses(queue, Post(Taken(s), t, <<m>>), {<<s, Head(queue[s])>>})
         /\ t \in Service => m \in Msgs(Post(Taken(s), t, <<m>>), t)
BY TakenLoses, PostOneLoses, LosesTwice

(* An answer is posted, if one is asked for. *)
LEMMA ResumeLoses ==
  ASSUME NEW q \in [Service -> Seq(Message)], NEW c \in Coroutine \cup {None}
  PROVE  /\ Loses(q, Post(q, AgentMgr, Resume(c)), {})
         /\ c # None => Answer(c) \in Msgs(Post(q, AgentMgr, Resume(c)), AgentMgr)
<1>1. CASE c = None
  <2>1. Post(q, AgentMgr, Resume(c)) = q
    BY <1>1, PostNothing DEF Resume
  <2> QED
    BY <1>1, <2>1 DEF Loses
<1>2. CASE c # None
  <2>1. Resume(c) = <<Answer(c)>>
    BY <1>2 DEF Resume, Answer
  <2> QED
    BY <2>1, PostOneLoses, ServiceNames
<1> QED
  BY <1>1, <1>2

(* Everybody who waits in close is answered: no more than two do. *)
LEMMA WokenLoses ==
  ASSUME NEW q \in [Service -> Seq(Message)], NEW fd,
         closing[fd] \in Seq(Coroutine \cup {None}), Len(closing[fd]) <= 2
  PROVE  /\ Loses(q, Woken(q, fd), {})
         /\ \A k \in DOMAIN closing[fd] :
              closing[fd][k] # None => Answer(closing[fd][k]) \in Msgs(Woken(q, fd), AgentMgr)
<1> DEFINE answer(k) == IF k \in DOMAIN closing[fd] THEN Resume(closing[fd][k]) ELSE << >>
           ms == answer(1) \o answer(2)
<1>1. Woken(q, fd) = Post(q, AgentMgr, ms)
  BY DEF Woken
<1>2. ASSUME NEW k \in {1, 2}
      PROVE  /\ answer(k) \in Seq(Message)
             /\ k \in DOMAIN closing[fd] /\ closing[fd][k] # None =>
                  answer(k) = <<Answer(closing[fd][k])>>
  <2>1. CASE k \notin DOMAIN closing[fd]
    BY <2>1
  <2>2. CASE k \in DOMAIN closing[fd]
    <3>1. closing[fd][k] \in Coroutine \cup {None} /\ answer(k) = Resume(closing[fd][k])
      BY <2>2
    <3>2. closing[fd][k] # None => Answer(closing[fd][k]) \in Message
      BY <3>1 DEF Answer, Message
    <3> HIDE DEF answer
    <3> QED
      BY <3>1, <3>2 DEF Resume, Answer
  <2> QED
    BY <2>1, <2>2
<1> HIDE DEF answer
<1>3. answer(1) \in Seq(Message) /\ answer(2) \in Seq(Message)
  BY <1>2
<1>4. /\ ms \in Seq(Message)
      /\ \A x : answer(1) = <<x>> => 1 \in DOMAIN ms /\ ms[1] = x
      /\ \A x : answer(2) = <<x>> => \E k \in DOMAIN ms : ms[k] = x
  <2>1. \A x \in Seq(Message), y \in Seq(Message) :
          /\ x \o y \in Seq(Message)
          /\ DOMAIN (x \o y) = 1 .. Len(x) + Len(y) /\ Len(x) \in Nat /\ Len(y) \in Nat
          /\ \A k \in 1 .. Len(x) : (x \o y)[k] = x[k]
          /\ \A k \in 1 .. Len(y) : (x \o y)[Len(x) + k] = y[k]
    OBVIOUS
  <2>2. \A x : Len(<<x>>) = 1 /\ <<x>>[1] = x
    OBVIOUS
  <2>3. /\ ms \in Seq(Message) /\ DOMAIN ms = 1 .. Len(answer(1)) + Len(answer(2))
        /\ Len(answer(1)) \in Nat /\ Len(answer(2)) \in Nat
        /\ \A k \in 1 .. Len(answer(1)) : ms[k] = answer(1)[k]
        /\ \A k \in 1 .. Len(answer(2)) : ms[Len(answer(1)) + k] = answer(2)[k]
    BY <1>3, <2>1
  <2> HIDE DEF ms
  <2>4. ASSUME NEW x, answer(1) = <<x>> PROVE 1 \in DOMAIN ms /\ ms[1] = x
    <3>1. 1 \in 1 .. Len(answer(1)) /\ answer(1)[1] = x
      BY <2>2, <2>4
    <3> QED
      BY <2>3, <3>1
  <2>5. ASSUME NEW x, answer(2) = <<x>> PROVE \E k \in DOMAIN ms : ms[k] = x
    <3>1. 1 \in 1 .. Len(answer(2)) /\ answer(2)[1] = x
      BY <2>2, <2>5
    <3>2. Len(answer(1)) + 1 \in DOMAIN ms /\ ms[Len(answer(1)) + 1] = x
      BY <2>3, <3>1
    <3> QED
      BY <3>2
  <2> QED
    BY <2>3, <2>4, <2>5
<1> HIDE DEF ms
<1>5. /\ Loses(q, Woken(q, fd), {})
      /\ \A k \in DOMAIN ms : ms[k] \in Msgs(Woken(q, fd), AgentMgr)
  BY <1>1, <1>4, PostLoses, ServiceNames
<1>6. ASSUME NEW k \in DOMAIN closing[fd], closing[fd][k] # None
      PROVE  Answer(closing[fd][k]) \in Msgs(Woken(q, fd), AgentMgr)
  <2>1. k \in {1, 2}
    BY <1>6
  <2>2. \E l \in DOMAIN ms : ms[l] = Answer(closing[fd][k])
    BY <1>2, <1>4, <1>6, <2>1
  <2> QED
    BY <1>5, <2>2
<1> QED
  BY <1>5, <1>6

-----------------------------------------------------------------------------
(* Handlers whose answer a step does not touch. *)

Safe(c, gone) ==
  /\ <<AgentMgr, Answer(c)>> \notin gone
  /\ c.at = "agent_kick" => <<c.victim, KickedMsg(c)>> \notin gone
  /\ \A x \in gone : x[1] \in Gate => ~(x[2].type = "kick" /\ x[2].co = c)
  /\ c.at = "new_service" => agent'[c.login] = agent[c.login]
  /\ c.at = "agent_kick" => agent'[c.victim] = agent[c.victim]
  /\ c.at = "gate_kick" => attempt'[c.login] = attempt[c.login]
  /\ \A fd \in Fd : \A k \in DOMAIN closing[fd] :
       closing[fd][k] = c =>
         /\ \E l \in DOMAIN closing'[fd] : closing'[fd][l] = c
         /\ \A s \in Gate : <<s, CloseMsg(fd)>> \notin gone

LEMMA SafeComes ==
  ASSUME TypeInv, NEW c \in co, Coming(c), NEW gone, Loses(queue, queue', gone), Safe(c, gone)
  PROVE  Coming(c)'
<1>0. /\ c.at \in {"agent_kick", "gate_kick", "new_service"}
      /\ c.at = "agent_kick" /\ c.victim # None => c.victim \in Service
      /\ c.at # "new_service" => c.victim \in Attempt
      /\ AgentMgr \in Service /\ Gate \subseteq Service /\ Attempt \subseteq Service
  BY HandlerTypes, ServiceNames
<1>1. CASE Answer(c) \in Msgs(queue, AgentMgr)
  <2>1. Answer(c) \in Msgs(queue', AgentMgr)
    BY <1>0, <1>1 DEF Loses, Safe
  <2> QED
    BY <2>1 DEF Coming
<1>2. CASE c.at = "new_service" /\ agent[c.login] = "loading"
  BY <1>2 DEF Coming, Safe
<1>3. CASE c.at = "agent_kick" /\ KickedMsg(c) \in Msgs(queue, c.victim)
  <2>1. KickedMsg(c) \in Msgs(queue', c.victim)
    BY <1>0, <1>3 DEF Loses, Safe
  <2> QED
    BY <1>3, <2>1 DEF Coming
<1>4. CASE c.at = "agent_kick" /\ agent[c.victim] = "saving"
  BY <1>4 DEF Coming, Safe
<1>5. ASSUME c.at = "gate_kick", NEW g \in Gate,
             [type |-> "kick", player |-> PlayerOf(c.login), co |-> c] \in Msgs(queue, g)
      PROVE  Coming(c)'
  <2> DEFINE m == [type |-> "kick", player |-> attempt[c.login].player, co |-> c]
  <2>1. m.type = "kick" /\ m.co = c /\ m \in Msgs(queue, g)
    BY <1>5 DEF PlayerOf
  <2> HIDE DEF m
  <2>2. m \in Msgs(queue', g)
    BY <1>0, <2>1 DEF Loses, Safe
  <2>3. attempt'[c.login] = attempt[c.login]
    BY <1>5 DEF Safe
  <2> QED
    BY <1>5, <2>2, <2>3 DEF Coming, PlayerOf, m
<1>6. ASSUME c.at = "gate_kick", NEW g \in Gate, NEW fd \in Fd, NEW k \in DOMAIN closing[fd],
             closing[fd][k] = c, CloseMsg(fd) \in Msgs(queue, g)
      PROVE  Coming(c)'
  <2>1. /\ \E l \in DOMAIN closing'[fd] : closing'[fd][l] = c
        /\ <<g, CloseMsg(fd)>> \notin gone
    BY <1>6 DEF Safe
  <2>2. CloseMsg(fd) \in Msgs(queue', g)
    BY <1>0, <1>6, <2>1 DEF Loses
  <2> QED
    BY <1>6, <2>1, <2>2 DEF Coming, CloseMsg
<1> QED
  BY <1>1, <1>2, <1>3, <1>4, <1>5, <1>6 DEF Coming

(* What most steps leave alone. *)
WaitFrame ==
  /\ UNCHANGED <<co, agent, closing>>
  /\ \A i \in Attempt : attempt[i] # None => attempt'[i] = attempt[i]

Unawaited(gone) ==
  \A x \in gone : x[2].type \notin {"resume", "agent_kick", "kick", "close"}

LEMMA UnawaitedStep ==
  ASSUME TypeInv, ComingInv, WaitFrame,
         NEW gone, Loses(queue, queue', gone), Unawaited(gone)
  PROVE  (\A c \in co : Coming(c))' /\ WaitInv'
<1>1. ASSUME NEW c \in co PROVE Coming(c)'
  <2>1. Answer(c).type = "resume" /\ KickedMsg(c).type = "agent_kick"
        /\ \A fd \in Fd : CloseMsg(fd).type = "close"
    BY DEF Answer, KickedMsg, CloseMsg
  <2>2. c.at = "gate_kick" => c.login \in Attempt /\ attempt[c.login] # None
    BY HandlerTypes
  <2>3. Safe(c, gone)
    BY <2>1, <2>2 DEF Safe, Unawaited, WaitFrame
  <2> QED
    BY <2>3, SafeComes DEF ComingInv
<1>2. co' = co /\ WaitInv'
  BY DEF WaitFrame, WaitInv, ComingInv
<1> QED
  BY <1>1, <1>2

(* An attempt stays with the gateway its connection was made to. *)
LEMMA PortKept ==
  ASSUME PortInv, UNCHANGED <<port, attempt>>,
         \A fd \in Fd : sock'[fd] = "open" => sock[fd] = "open"
  PROVE  PortInv'
BY DEF PortInv, GateOf, FdOf

(* A service takes its first message, and posts one at most. *)
TakesOne(s) ==
  /\ queue[s] # << >>
  /\ queue' = Taken(s) \/ \E t, m : queue' = Post(Taken(s), t, <<m>>)

LEMMA TakesOneLoses ==
  ASSUME TypeInv, NEW s \in Service, TakesOne(s)
  PROVE  Loses(queue, queue', {<<s, Head(queue[s])>>})
<1>1. queue \in [Service -> Seq(Message)] /\ queue[s] # << >>
  BY DEF TypeInv, TypeOK, TakesOne
<1>2. CASE queue' = Taken(s)
  BY <1>1, <1>2, TakenLoses
<1>3. ASSUME NEW t, NEW m, queue' = Post(Taken(s), t, <<m>>)
      PROVE  Loses(queue, queue', {<<s, Head(queue[s])>>})
  BY <1>1, <1>3, TakenPostLoses
<1> QED
  BY <1>2, <1>3 DEF TakesOne

(* Nobody waits for a message that asks for something new. *)
LEMMA TakenComing ==
  ASSUME TypeInv, ComingInv, WaitFrame, NEW s \in Service, TakesOne(s),
         Head(queue[s]).type \notin {"resume", "agent_kick", "kick", "close"},
         UNCHANGED <<cvars, attempt>>
  PROVE  ComingInv'
<1>1. Loses(queue, queue', {<<s, Head(queue[s])>>})
  BY TakesOneLoses
<1>2. Unawaited({<<s, Head(queue[s])>>})
  BY DEF Unawaited
<1>3. PortInv'
  BY PortKept DEF cvars, ComingInv
<1> QED
  BY <1>1, <1>2, <1>3, UnawaitedStep DEF ComingInv

(* A message is posted and none is taken. *)
LEMMA PostedComing ==
  ASSUME TypeInv, ComingInv, WaitFrame, NEW s, NEW m, queue' = Post(queue, s, <<m>>),
         PortInv'
  PROVE  ComingInv'
<1>1. Loses(queue, queue', {}) /\ Unawaited({})
  BY PostOneLoses DEF Unawaited, TypeInv, TypeOK
<1> QED
  BY <1>1, UnawaitedStep DEF ComingInv

-----------------------------------------------------------------------------
(* Clients, login services and timers. *)

LEMMA ClientComing ==
  ASSUME TypeInv, ComingInv, ClientStep
  PROVE  ComingInv'
<1> USE DEF cvars, gvars, lvars, mvars
<1>0. PICK fd \in Fd :
        \/ \E g \in Gate : Connect(fd, g)
        \/ \E p \in Player : ClientLogin(fd, p)
        \/ \E i \in Attempt : ClientReconnect(fd, i)
        \/ ClientWork(fd) \/ ClientClose(fd)
  BY DEF ClientStep
<1>1. ASSUME NEW g \in Gate, Connect(fd, g) PROVE ComingInv'
  <2>1. Loses(queue, queue', {}) /\ Unawaited({})
    BY <1>1 DEF Connect, Loses, Unawaited
  <2>2. WaitFrame
    BY <1>1 DEF Connect, WaitFrame
  <2>3. PortInv'
    <3>1. /\ sock' = [sock EXCEPT ![fd] = "open"] /\ port' = [port EXCEPT ![fd] = g]
          /\ attempt' = attempt
          /\ sock \in [Fd -> {"new", "open", "closed"}] /\ port \in [Fd -> Gate \cup {None}]
      BY <1>1 DEF Connect, TypeInv, TypeOK
    <3>2. \A i \in Attempt : attempt[i] # None => attempt[i].fd \in Fd
      BY DEF TypeInv, TypeOK
    <3>3. \A i \in Attempt : attempt[i] # None => port'[attempt[i].fd] \in Gate
      BY <3>1, <3>2 DEF ComingInv, PortInv, GateOf, FdOf
    <3>4. \A f \in Fd : sock'[f] = "open" => port'[f] \in Gate
      BY <3>1 DEF ComingInv, PortInv
    <3> QED
      BY <3>1, <3>3, <3>4 DEF PortInv, GateOf, FdOf
  <2> QED
    BY <2>1, <2>2, <2>3, UnawaitedStep DEF ComingInv
<1>2. ASSUME NEW m, queue' = Post(queue, port[fd], <<m>>),
             UNCHANGED <<port, gvars, lvars, mvars, agent>>,
             sock' \in {sock, [sock EXCEPT ![fd] = "closed"]}
      PROVE  ComingInv'
  <2>1. WaitFrame
    BY <1>2 DEF WaitFrame
  <2>2. \A f \in Fd : sock'[f] = "open" => sock[f] = "open"
    BY <1>2 DEF TypeInv, TypeOK
  <2>3. PortInv'
    BY <1>2, <2>2, PortKept DEF ComingInv
  <2> QED
    BY <1>2, <2>1, <2>3, PostedComing
<1>3. ASSUME NEW i \in Attempt, ClientReconnect(fd, i) PROVE ComingInv'
  BY <1>2, <1>3 DEF ClientReconnect, ClientSend
<1>4. ASSUME ClientWork(fd) PROVE ComingInv'
  BY <1>2, <1>4 DEF ClientWork, ClientSend
<1>5. ASSUME ClientClose(fd) PROVE ComingInv'
  BY <1>2, <1>5 DEF ClientClose
<1>6. ASSUME NEW p \in Player, ClientLogin(fd, p) PROVE ComingInv'
  <2>1. PICK i \in Attempt :
          /\ attempt[i] = None
          /\ attempt' = [attempt EXCEPT ![i] = [fd |-> fd, player |-> p]]
          /\ queue' = Post(queue, port[fd], <<LoginMsg(i)>>)
    BY <1>6 DEF ClientLogin, LoginMsg
  <2>2. sock[fd] = "open" /\ UNCHANGED <<sock, port, co, agent, closing>>
    BY <1>6 DEF ClientLogin
  <2>3. attempt'[i].fd = fd /\ \A j \in Attempt : j # i => attempt'[j] = attempt[j]
    BY <2>1 DEF TypeInv, TypeOK
  <2>4. WaitFrame
    BY <2>1, <2>2, <2>3 DEF WaitFrame
  <2>5. PortInv'
    BY <2>2, <2>3 DEF ComingInv, PortInv, GateOf, FdOf
  <2> QED
    BY <2>1, <2>4, <2>5, PostedComing
<1> QED
  BY <1>0, <1>1, <1>3, <1>4, <1>5, <1>6

LEMMA LoginComing ==
  ASSUME TypeInv, ComingInv, NEW i \in Attempt, LoginStep(i)
  PROVE  ComingInv'
<1>1. /\ UNCHANGED <<port, sock, attempt, co, agent, closing>>
      /\ \E s, m : queue' = Post(queue, s, <<m>>)
  BY DEF LoginStep, LoginStart, LoginGranted, cvars, gvars, mvars
<1>2. WaitFrame /\ PortInv'
  BY <1>1, PortKept DEF WaitFrame, ComingInv
<1> QED
  BY <1>1, <1>2, PostedComing

LEMMA TimeoutComing ==
  ASSUME TypeInv, ComingInv, NEW i \in Attempt, Timeout(i)
  PROVE  ComingInv'
<1>1. /\ UNCHANGED <<port, sock, attempt, co, agent, closing>>
      /\ queue' = queue \/ \E s, m : queue' = Post(queue, s, <<m>>)
  BY DEF Timeout, cvars, lvars, mvars
<1>2. WaitFrame /\ PortInv'
  BY <1>1, PortKept DEF WaitFrame, ComingInv
<1>3. CASE queue' = queue
  <2>1. Loses(queue, queue', {}) /\ Unawaited({})
    BY <1>3 DEF Loses, Unawaited
  <2> QED
    BY <1>2, <2>1, UnawaitedStep DEF ComingInv
<1> QED
  BY <1>1, <1>2, <1>3, PostedComing

-----------------------------------------------------------------------------
(* Gateways. *)

(* The reader leaves its wait: whoever waits for it is answered. *)
LEMMA WokenComing ==
  ASSUME TypeInv, ComingInv, NEW g \in Gate, queue[g] # << >>, NEW fd \in Fd,
         LET m == Head(queue[g]) IN
           m.type \in {"login", "work", "reconnect"} \/ m = CloseMsg(fd),
         queue' = Woken(Taken(g), fd),
         closing' = [closing EXCEPT ![fd] = << >>],
         UNCHANGED <<cvars, attempt, co, agent>>
  PROVE  ComingInv'
<1> DEFINE m == Head(queue[g])
           gone == {<<g, m>>}
<1>1. /\ queue \in [Service -> Seq(Message)] /\ g \in Service
      /\ closing \in [Fd -> Seq(Coroutine \cup {None})]
      /\ co \subseteq Coroutine
  BY ServiceNames DEF TypeInv, TypeOK
<1>2. Taken(g) \in [Service -> Seq(Message)] /\ Loses(queue, Taken(g), gone)
  BY <1>1, TakenLoses
<1>3. /\ Loses(Taken(g), queue', {})
      /\ \A k \in DOMAIN closing[fd] :
           closing[fd][k] # None => Answer(closing[fd][k]) \in Msgs(queue', AgentMgr)
  BY <1>1, <1>2, WokenLoses DEF ComingInv, WaitInv
<1>4. m.type \in {"login", "work", "reconnect"} \/ m = CloseMsg(fd)
  OBVIOUS
<1>5. CloseMsg(fd).type = "close" /\ \A f \in Fd : CloseMsg(f) = CloseMsg(fd) => f = fd
  BY DEF CloseMsg
<1>6. \A f \in Fd : CloseMsg(f).type = "close"
  BY DEF CloseMsg
<1> HIDE DEF m, gone
<1>7. Loses(queue, queue', gone)
  BY <1>2, <1>3, LosesTwice
<1>8. closing'[fd] = << >> /\ \A f \in Fd : f # fd => closing'[f] = closing[f]
  <2>1. closing'[fd] = << >>
    BY <1>1
  <2>2. ASSUME NEW f \in Fd, f # fd PROVE closing'[f] = closing[f]
    BY <1>1, <2>2
  <2> QED
    BY <2>1, <2>2
<1>9. ASSUME NEW c \in co PROVE Coming(c)'
  <2>1. CASE \E k \in DOMAIN closing[fd] : closing[fd][k] = c
    <3>1. c # None
      BY <1>1, CoroutineAssumption
    <3> QED
      BY <1>3, <2>1, <3>1 DEF Coming
  <2>2. CASE \A k \in DOMAIN closing[fd] : closing[fd][k] # c
    <3>1. Answer(c).type = "resume" /\ KickedMsg(c).type = "agent_kick"
      BY DEF Answer, KickedMsg
    <3>2. m.type \notin {"resume", "agent_kick", "kick"}
      BY <1>4, <1>5
    <3>3. ASSUME NEW f \in Fd, NEW k \in DOMAIN closing[f], closing[f][k] = c
          PROVE  /\ \E l \in DOMAIN closing'[f] : closing'[f][l] = c
                 /\ \A s \in Gate : <<s, CloseMsg(f)>> \notin gone
      <4>1. f # fd
        BY <2>2, <3>3
      <4>2. CloseMsg(f) # m
        BY <1>4, <1>5, <1>6, <4>1
      <4> QED
        BY <1>8, <3>3, <4>1, <4>2 DEF gone
    <3>4. Safe(c, gone)
      BY <3>1, <3>2, <3>3 DEF Safe, gone
    <3> QED
      BY <1>7, <3>4, SafeComes DEF ComingInv
  <2> QED
    BY <2>1, <2>2
<1>10. WaitInv'
  <2>1. Len(<< >>) = 0
    OBVIOUS
  <2>2. ASSUME NEW f \in Fd PROVE Len(closing'[f]) <= 2
    <3>1. CASE f = fd
      BY <1>8, <2>1, <3>1
    <3>2. CASE f # fd
      BY <1>8, <3>2 DEF ComingInv, WaitInv
    <3> QED
      BY <3>1, <3>2
  <2> QED
    BY <2>2 DEF WaitInv
<1>11. PortInv'
  BY PortKept DEF ComingInv, cvars
<1> QED
  BY <1>9, <1>10, <1>11 DEF ComingInv

(* A kick is answered, or waits for the end of a connection on its way. *)
LEMMA KickComing ==
  ASSUME TypeInv, SessionInv, ComingInv, NEW g \in Gate, Kick(g)
  PROVE  ComingInv'
<1> DEFINE m    == Head(queue[g])
           p    == m.player
           d    == m.co
           i    == players[g][p]
           fd   == conn[i]
           gone == {<<g, m>>}
           n    == [type |-> "close", fd |-> fd]
           q    == Post(Taken(g), AgentMgr, Resume(d))
<1>1. /\ queue \in [Service -> Seq(Message)] /\ g \in Service
      /\ closing \in [Fd -> Seq(Coroutine \cup {None})]
      /\ co \subseteq Coroutine /\ TypeOK
  BY ServiceNames DEF TypeInv, TypeOK
<1>2. /\ queue[g] # << >> /\ m.type = "kick" /\ m \in Message /\ m \in Msgs(queue, g)
      /\ UNCHANGED <<port, attempt, co, agent>>
      /\ IF i = None \/ fd = None
         THEN queue' = q /\ UNCHANGED <<conns, sock, closing>>
         ELSE /\ conns' = [conns EXCEPT ![fd] = FALSE]
              /\ sock' = [sock EXCEPT ![fd] = "closed"]
              /\ IF ~Connected(g, fd) \/ ~MayClose(fd)
                 THEN queue' = q /\ UNCHANGED closing
                 ELSE /\ closing' = [closing EXCEPT ![fd] = Append(@, d)]
                      /\ queue' = IF sock[fd] = "closed" THEN Taken(g)
                                  ELSE Post(Taken(g), g, <<n>>)
  BY <1>1, HeadMade DEF Kick, Receives, lvars, mvars
<1>3. Taken(g) \in [Service -> Seq(Message)] /\ Loses(queue, Taken(g), gone)
  BY <1>1, <1>2, TakenLoses
<1>4. /\ d \in Coroutine \cup {None} /\ p \in Player
      /\ d # None => d.at = "gate_kick"
  <2> HIDE DEF m
  <2>1. d \in Coroutine \cup {None} /\ p \in Player
    BY <1>2, MessageFields
  <2>2. d # None => d.at = "gate_kick"
    BY <1>2 DEF SessionInv, AnswerInv
  <2> QED
    BY <2>1, <2>2
<1>5. i \in Attempt \cup {None} /\ (i # None => fd \in Fd \cup {None})
  <2>1. i \in Attempt \cup {None}
    BY <1>1, <1>4 DEF TypeOK
  <2> HIDE DEF i
  <2> QED
    BY <1>1, <2>1 DEF TypeOK
<1> HIDE DEF m, p, d, i, fd
<1>6. n = CloseMsg(fd) /\ \A f : CloseMsg(f).type = "close"
  BY DEF CloseMsg
(* The others go on waiting. *)
<1>7. ASSUME NEW c \in co, c # d, Loses(queue, queue', gone),
             \A f \in Fd : \A k \in DOMAIN closing[f] : closing[f][k] = c =>
               \E l \in DOMAIN closing'[f] : closing'[f][l] = c
      PROVE  Coming(c)'
  <2>1. Answer(c).type = "resume" /\ KickedMsg(c).type = "agent_kick"
    BY DEF Answer, KickedMsg
  <2>2. Safe(c, gone)
    BY <1>2, <1>6, <1>7, <2>1 DEF Safe, d
  <2> QED
    BY <1>7, <2>2, SafeComes DEF ComingInv
<1>8. PortInv'
  <2>1. \A f \in Fd : sock'[f] = "open" => sock[f] = "open"
    BY <1>1, <1>2, <1>5 DEF TypeOK
  <2> QED
    BY <1>2, <2>1, PortKept DEF ComingInv
<1>9. CASE queue' = q /\ closing' = closing
  <2>1. /\ Loses(Taken(g), queue', {})
        /\ d # None => Answer(d) \in Msgs(queue', AgentMgr)
    BY <1>3, <1>4, <1>9, ResumeLoses
  <2>2. Loses(queue, queue', gone)
    <3> HIDE DEF gone
    <3> QED
      BY <1>3, <2>1, LosesTwice
  <2>3. ASSUME NEW c \in co PROVE Coming(c)'
    <3>1. CASE c = d
      <4>1. d # None
        BY <1>1, <3>1, CoroutineAssumption
      <4> QED
        BY <2>1, <3>1, <4>1 DEF Coming
    <3>2. CASE c # d
      BY <1>7, <1>9, <2>2, <3>2
    <3> QED
      BY <3>1, <3>2
  <2> QED
    BY <1>2, <1>8, <1>9, <2>3 DEF ComingInv, WaitInv
<1>10. CASE /\ fd \in Fd /\ Connected(g, fd) /\ MayClose(fd)
            /\ closing' = [closing EXCEPT ![fd] = Append(@, d)]
            /\ queue' = IF sock[fd] = "closed" THEN Taken(g) ELSE Post(Taken(g), g, <<n>>)
  <2>1. Loses(queue, queue', gone) /\ CloseMsg(fd) \in Msgs(queue', g)
    <3>1. CASE sock[fd] = "closed"
      <4>1. CloseMsg(fd) \in Msgs(queue, g)
        BY <1>10, <3>1 DEF Connected, CloseMsg, Msgs
      <4>2. CloseMsg(fd) # m
        BY <1>2, <1>6
      <4>3. queue' = Taken(g)
        BY <1>10, <3>1
      <4> QED
        BY <1>1, <1>3, <4>1, <4>2, <4>3 DEF Loses
    <3>2. CASE sock[fd] # "closed"
      <4>1. queue' = Post(Taken(g), g, <<n>>)
        BY <1>10, <3>2
      <4> HIDE DEF n, gone
      <4>2. Loses(Taken(g), queue', {}) /\ n \in Msgs(queue', g)
        BY <1>1, <1>3, <4>1, PostOneLoses
      <4> QED
        BY <1>3, <1>6, <4>2, LosesTwice
    <3> QED
      BY <3>1, <3>2
  <2>2. /\ closing'[fd] = Append(closing[fd], d)
        /\ \A f \in Fd : f # fd => closing'[f] = closing[f]
    <3>1. closing'[fd] = Append(closing[fd], d)
      BY <1>1, <1>10
    <3>2. ASSUME NEW f \in Fd, f # fd PROVE closing'[f] = closing[f]
      BY <1>1, <1>10, <3>2
    <3> QED
      BY <3>1, <3>2
  <2>3. /\ Len(closing[fd]) \in Nat /\ DOMAIN closing[fd] = 1 .. Len(closing[fd])
        /\ Len(closing'[fd]) = Len(closing[fd]) + 1
        /\ DOMAIN closing'[fd] = 1 .. Len(closing[fd]) + 1
        /\ \A k \in 1 .. Len(closing[fd]) : closing'[fd][k] = closing[fd][k]
        /\ closing'[fd][Len(closing[fd]) + 1] = d
    <3> DEFINE x == closing[fd]
               y == Append(x, d)
    <3>1. x \in Seq(Coroutine \cup {None})
      BY <1>1, <1>10
    <3> HIDE DEF x
    <3>2. /\ Len(x) \in Nat /\ DOMAIN x = 1 .. Len(x)
          /\ Len(y) = Len(x) + 1 /\ DOMAIN y = 1 .. Len(x) + 1
          /\ \A k \in 1 .. Len(x) : y[k] = x[k]
          /\ y[Len(x) + 1] = d
      BY <1>4, <3>1
    <3> HIDE DEF y
    <3>3. closing'[fd] = y
      BY <2>2 DEF x, y
    <3> QED
      BY <3>2, <3>3 DEF x
  <2>4. Len(closing[fd]) < 2
    BY <1>10, <2>3 DEF MayClose
  <2>5. ASSUME NEW c \in co PROVE Coming(c)'
    <3>1. CASE c = d
      <4>1. c.at = "gate_kick"
        BY <1>1, <1>4, <3>1, CoroutineAssumption
      <4>2. \E k \in DOMAIN closing'[fd] : closing'[fd][k] = c
        BY <2>3, <3>1
      <4> QED
        BY <1>10, <2>1, <4>1, <4>2 DEF Coming, CloseMsg
    <3>2. CASE c # d
      <4>1. \A f \in Fd : \A k \in DOMAIN closing[f] : closing[f][k] = c =>
              \E l \in DOMAIN closing'[f] : closing'[f][l] = c
        BY <2>2, <2>3
      <4> QED
        BY <1>7, <2>1, <3>2, <4>1
    <3> QED
      BY <3>1, <3>2
  <2>6. WaitInv'
    <3> SUFFICES ASSUME NEW f \in Fd PROVE Len(closing'[f]) <= 2
      BY DEF WaitInv
    <3>1. CASE f = fd
      BY <2>3, <2>4, <3>1
    <3>2. CASE f # fd
      BY <2>2, <3>2 DEF ComingInv, WaitInv
    <3> QED
      BY <3>1, <3>2
  <2> QED
    BY <1>2, <1>8, <2>5, <2>6 DEF ComingInv
<1>11. \/ queue' = q /\ closing' = closing
       \/ /\ fd \in Fd /\ Connected(g, fd) /\ MayClose(fd)
          /\ closing' = [closing EXCEPT ![fd] = Append(@, d)]
          /\ queue' = IF sock[fd] = "closed" THEN Taken(g) ELSE Post(Taken(g), g, <<n>>)
  <2> HIDE DEF n, q
  <2>1. CASE i = None \/ fd = None
    BY <1>2, <2>1
  <2>2. CASE ~(i = None \/ fd = None) /\ (~Connected(g, fd) \/ ~MayClose(fd))
    BY <1>2, <2>2
  <2>3. CASE ~(i = None \/ fd = None) /\ ~(~Connected(g, fd) \/ ~MayClose(fd))
    BY <1>2, <1>5, <2>3
  <2> QED
    BY <2>1, <2>2, <2>3
<1> QED
  BY <1>9, <1>10, <1>11

LEMMA GateComing ==
  ASSUME TypeInv, SessionInv, ComingInv, NEW g \in Gate, GateStep(g)
  PROVE  ComingInv'
<1> USE DEF lvars, mvars
<1> DEFINE m == Head(queue[g])
<1>0. /\ g \in Service /\ queue \in [Service -> Seq(Message)]
      /\ queue[g] # << >> => m \in Message
      /\ \A i \in Attempt : attempt[i] # None => attempt[i].fd \in Fd
  BY ServiceNames, HeadMade DEF TypeInv, TypeOK
<1>1. ASSUME TakesOne(g), m.type \notin {"resume", "agent_kick", "kick", "close"},
             UNCHANGED <<cvars, attempt, co, agent, closing>>
      PROVE  ComingInv'
  <2>1. WaitFrame
    BY <1>1 DEF WaitFrame
  <2> QED
    BY <1>0, <1>1, <2>1, TakenComing
<1>2. ASSUME DataUnread(g) PROVE ComingInv'
  BY <1>1, <1>2 DEF DataUnread, IsData, Receives, TakesOne, gvars
<1>3. ASSUME DataLogin(g) PROVE ComingInv'
  BY <1>1, <1>3 DEF DataLogin, Receives, TakesOne, gvars
<1>4. ASSUME DataWork(g) PROVE ComingInv'
  BY <1>1, <1>4 DEF DataWork, Receives, TakesOne, gvars
<1>5. ASSUME DataReconnect(g) PROVE ComingInv'
  BY <1>1, <1>5 DEF DataReconnect, Receives, TakesOne
<1>6. ASSUME GateSend(g) PROVE ComingInv'
  BY <1>1, <1>6 DEF GateSend, Receives, TakesOne
<1>7. ASSUME SureAgent(g) PROVE ComingInv'
  BY <1>1, <1>7 DEF SureAgent, Receives, TakesOne
<1>8. ASSUME DataFails(g) PROVE ComingInv'
  <2> DEFINE fd == DataFd(g)
  <2>1. /\ queue[g] # << >> /\ m.type \in {"login", "work", "reconnect"}
        /\ queue' = Woken(Taken(g), fd) /\ closing' = [closing EXCEPT ![fd] = << >>]
        /\ UNCHANGED <<cvars, attempt, co, agent>>
    BY <1>8 DEF DataFails, IsData, Receives
  <2>2. fd \in Fd
    <3>1. m.type = "login" => attempt[m.login] # None
      BY <1>0, <2>1, HeadMade
    <3>2. fd = IF m.type = "login" THEN FdOf(m.login) ELSE m.fd
      BY DEF DataFd
    <3>3. m \in Message
      BY <1>0, <2>1
    <3> HIDE DEF m, fd
    <3> QED
      BY <1>0, <2>1, <3>1, <3>2, <3>3, MessageFields DEF FdOf
  <2> HIDE DEF fd
  <2> QED
    BY <2>1, <2>2, WokenComing
<1>9. ASSUME Disconnect(g) PROVE ComingInv'
  <2> DEFINE fd == m.fd
  <2>1. /\ queue[g] # << >> /\ m.type = "close" /\ m \in Message
        /\ queue' = Woken(Taken(g), fd) /\ closing' = [closing EXCEPT ![fd] = << >>]
        /\ UNCHANGED <<cvars, attempt, co, agent>>
    BY <1>0, <1>9 DEF Disconnect, Receives
  <2>2. fd \in Fd /\ m = CloseMsg(fd)
    <3> HIDE DEF m
    <3> QED
      BY <2>1 DEF Message, CloseMsg
  <2> HIDE DEF fd
  <2> QED
    BY <2>1, <2>2, WokenComing
<1>10. ASSUME Kick(g) PROVE ComingInv'
  BY <1>10, KickComing
<1> QED
  BY <1>2, <1>3, <1>4, <1>5, <1>6, <1>7, <1>8, <1>9, <1>10 DEF GateStep

-----------------------------------------------------------------------------
(* agent_mgr. *)

(* Handlers of agent_mgr other than the one that runs go on waiting.       *)
LEMMA MgrWaits ==
  ASSUME TypeInv, ComingInv, NEW c \in co, queue[AgentMgr] # << >>,
         LET m == Head(queue[AgentMgr]) IN
           m.type \in {"req_login", "req_kick", "shutdown"} \/ (m.type = "resume" /\ m.co # c),
         Loses(queue, queue', {<<AgentMgr, Head(queue[AgentMgr])>>}),
         UNCHANGED <<attempt, closing>>,
         c.at = "new_service" => agent'[c.login] = agent[c.login],
         c.at = "agent_kick" => agent'[c.victim] = agent[c.victim]
  PROVE  Coming(c)'
<1> DEFINE m == Head(queue[AgentMgr])
           gone == {<<AgentMgr, m>>}
<1>1. /\ Answer(c).type = "resume" /\ Answer(c).co = c /\ KickedMsg(c).type = "agent_kick"
      /\ \A fd \in Fd : CloseMsg(fd).type = "close"
  BY DEF Answer, KickedMsg, CloseMsg
<1>2. m.type \in {"req_login", "req_kick", "shutdown"} \/ (m.type = "resume" /\ m.co # c)
  OBVIOUS
<1> HIDE DEF m
<1>3. Safe(c, gone)
  BY <1>1, <1>2 DEF Safe
<1> QED
  BY <1>3, SafeComes DEF ComingInv, m

(* A handler has told an agent to stop, and waits. *)
LEMMA EvictComing ==
  ASSUME TypeInv, ComingInv, queue[AgentMgr] # << >>,
         Head(queue[AgentMgr]).type \in {"req_login", "req_kick", "shutdown"},
         NEW v \in Attempt, NEW e, e.at = "agent_kick", e.victim = v, Evict(v, e),
         UNCHANGED <<cvars, closing, attempt, agent>>
  PROVE  ComingInv'
<1>1. /\ queue \in [Service -> Seq(Message)] /\ AgentMgr \in Service /\ v \in Service
  BY ServiceNames DEF TypeInv, TypeOK
<1>2. queue' = Post(Taken(AgentMgr), v, <<KickedMsg(e)>>) /\ co' = co \cup {e}
  BY DEF Evict, KickedMsg
<1>3. /\ Loses(queue, queue', {<<AgentMgr, Head(queue[AgentMgr])>>})
      /\ KickedMsg(e) \in Msgs(queue', v)
  BY <1>1, <1>2, TakenPostLoses
<1>4. \A c \in co : Coming(c)'
  BY <1>3, MgrWaits
<1>5. Coming(e)'
  BY <1>3 DEF Coming
<1>6. WaitInv' /\ PortInv'
  BY PortKept DEF ComingInv, WaitInv, cvars
<1> QED
  BY <1>2, <1>4, <1>5, <1>6 DEF ComingInv

(* A new agent loads: its answer comes when it has. *)
LEMMA CreateComing ==
  ASSUME TypeInv, SessionInv, ComingInv, queue[AgentMgr] # << >>,
         NEW i \in Attempt, agent[i] = "none", NEW waiting,
         LET m == Head(queue[AgentMgr]) IN
           m.type = "req_login" \/ (m.type = "resume" /\ m.co \in waiting),
         CreateAgent(i, waiting), UNCHANGED <<cvars, closing, attempt>>
  PROVE  ComingInv'
<1> DEFINE m == Head(queue[AgentMgr])
<1>1. /\ queue \in [Service -> Seq(Message)] /\ AgentMgr \in Service
  BY ServiceNames DEF TypeInv, TypeOK
<1>2. /\ queue' = Taken(AgentMgr) /\ agent' = [agent EXCEPT ![i] = "loading"]
      /\ co' = (co \ waiting) \cup {NewHandler(i)}
  BY DEF CreateAgent, NewHandler
<1>3. Loses(queue, queue', {<<AgentMgr, m>>})
  BY <1>1, <1>2, TakenLoses
<1>4. agent'[i] = "loading" /\ \A j \in Attempt : j # i => agent'[j] = agent[j]
  BY <1>2 DEF TypeInv, TypeOK
<1>5. ASSUME NEW c \in co, c \notin waiting PROVE Coming(c)'
  <2>1. /\ c.at = "new_service" => c.login \in Attempt /\ c.login # i
        /\ c.at = "agent_kick" => c.victim \in Attempt /\ c.victim # i
    <3>1. /\ c.at = "new_service" => c.login \in Attempt
          /\ c.at = "agent_kick" => c.victim \in Attempt
      BY HandlerTypes
    <3>2. /\ c.at = "new_service" => agent[c.login] # "none"
          /\ c.at = "agent_kick" => agent[c.victim] # "none"
      BY DEF SessionInv, HandlerInv
    <3> QED
      BY <3>1, <3>2
  <2>2. /\ c.at = "new_service" => agent'[c.login] = agent[c.login]
        /\ c.at = "agent_kick" => agent'[c.victim] = agent[c.victim]
    BY <1>4, <2>1
  <2>3. m.type \in {"req_login", "req_kick"} \/ (m.type = "resume" /\ m.co # c)
    BY <1>5
  <2> HIDE DEF m
  <2>4. queue[AgentMgr] # << >> /\ UNCHANGED <<attempt, closing>>
    OBVIOUS
  <2> QED
    BY <1>3, <2>2, <2>3, <2>4, MgrWaits DEF m
<1>6. Coming(NewHandler(i))'
  BY <1>4 DEF Coming, NewHandler
<1>7. WaitInv' /\ PortInv'
  BY PortKept DEF ComingInv, WaitInv, cvars
<1> QED
  BY <1>2, <1>5, <1>6, <1>7 DEF ComingInv

LEMMA MgrComing ==
  ASSUME TypeInv, SessionInv, ComingInv, MgrStep
  PROVE  ComingInv'
<1> USE DEF cvars, gvars, lvars, mvars
<1> DEFINE m == Head(queue[AgentMgr])
           c == m.co
<1>0. /\ queue \in [Service -> Seq(Message)] /\ AgentMgr \in Service
      /\ \A p \in Player : mgr_players[p] \in Attempt \cup {None}
      /\ queue[AgentMgr] # << >> =>
           /\ Taken(AgentMgr) \in [Service -> Seq(Message)]
           /\ m.type = "req_login" => m.login \in Attempt /\ attempt[m.login] # None
           /\ m.type = "req_kick" => m.player \in Player
  BY ServiceNames, MgrReads DEF TypeInv, TypeOK
<1>1. ASSUME TakesOne(AgentMgr), m.type \in {"req_login", "req_kick"},
             UNCHANGED <<cvars, attempt, co, agent, closing>>
      PROVE  ComingInv'
  <2>1. WaitFrame
    BY <1>1 DEF WaitFrame
  <2> QED
    BY <1>0, <1>1, <2>1, TakenComing
(* A handler that was answered goes on: the others wait as before.         *)
<1>2. ASSUME NEW at, Resumes(at), Loses(queue, queue', {<<AgentMgr, m>>}),
             UNCHANGED <<cvars, attempt, agent, closing>>,
             \A d \in co' : (d \in co /\ d # c) \/ Coming(d)'
      PROVE  ComingInv'
  <2>1. queue[AgentMgr] # << >> /\ m.type = "resume"
    BY <1>2 DEF Resumes, Receives
  <2>2. ASSUME NEW d \in co, d # c PROVE Coming(d)'
    <3>1. m.co # d
      BY <2>2
    <3> HIDE DEF m
    <3> QED
      BY <1>2, <2>1, <3>1, MgrWaits DEF m
  <2>3. WaitInv' /\ PortInv'
    BY <1>2, PortKept DEF ComingInv, WaitInv
  <2> QED
    BY <1>2, <2>2, <2>3 DEF ComingInv
<1>3. ASSUME ReqLogin PROVE ComingInv'
  <2> DEFINE i == m.login
             v == mgr_players[PlayerOf(i)]
             e == [at |-> "agent_kick", login |-> i, victim |-> v, by |-> None]
  <2>1. /\ queue[AgentMgr] # << >> /\ m.type = "req_login" /\ UNCHANGED <<cvars, gvars, attempt>>
        /\ \/ v = None /\ CreateAgent(i, {})
           \/ queue' = Taken(AgentMgr) /\ UNCHANGED <<mvars, agent>>
           \/ v # None /\ Evict(v, e) /\ UNCHANGED agent
    BY <1>3 DEF ReqLogin, Receives
  <2>2. i \in Attempt /\ agent[i] = "none" /\ v \in Attempt \cup {None}
    <3>1. i \in Attempt /\ attempt[i] # None /\ Fresh(i)
      BY <1>3, Asks DEF ReqLogin, SessionInv
    <3>2. PlayerOf(i) \in Player
      BY <3>1 DEF TypeInv, TypeOK, PlayerOf
    <3> QED
      BY <1>0, <3>1, <3>2 DEF Fresh
  <2>3. e.at = "agent_kick" /\ e.victim = v
    OBVIOUS
  <2> HIDE DEF e, v, i
  <2>4. CASE v = None /\ CreateAgent(i, {})
    BY <2>1, <2>2, <2>4, CreateComing
  <2>5. CASE queue' = Taken(AgentMgr) /\ UNCHANGED <<mvars, agent>>
    <3>1. TakesOne(AgentMgr)
      BY <2>1, <2>5 DEF TakesOne
    <3> QED
      BY <1>1, <2>1, <2>5, <3>1
  <2>6. CASE v # None /\ Evict(v, e) /\ UNCHANGED agent
    BY <2>1, <2>2, <2>3, <2>6, EvictComing
  <2> QED
    BY <2>1, <2>4, <2>5, <2>6
<1>4. ASSUME ReqKick PROVE ComingInv'
  <2> DEFINE v == mgr_players[m.player]
             e == [at |-> "agent_kick", login |-> None, victim |-> v, by |-> m.by]
  <2>1. /\ queue[AgentMgr] # << >> /\ m.type = "req_kick"
        /\ UNCHANGED <<cvars, gvars, attempt, mgr_players, agent>>
        /\ \/ v # None /\ Evict(v, e)
           \/ queue' = Taken(AgentMgr) /\ UNCHANGED co
    BY <1>4 DEF ReqKick, Receives
  <2>2. v \in Attempt \cup {None}
    BY <1>0, <2>1
  <2>3. e.at = "agent_kick" /\ e.victim = v
    OBVIOUS
  <2> HIDE DEF e, v
  <2>4. CASE v # None /\ Evict(v, e)
    BY <2>1, <2>2, <2>3, <2>4, EvictComing
  <2>5. CASE queue' = Taken(AgentMgr) /\ UNCHANGED co
    <3>1. TakesOne(AgentMgr)
      BY <2>1, <2>5 DEF TakesOne
    <3> QED
      BY <1>1, <2>1, <2>5, <3>1
  <2> QED
    BY <2>1, <2>4, <2>5
<1>5. ASSUME TakeOver PROVE ComingInv'
  <2> DEFINE d  == [c EXCEPT !.at = "gate_kick"]
             p  == PlayerOf(c.login)
             g  == GateToTell(c)
             q  == Post(Taken(AgentMgr), c.victim, <<[type |-> "exit"]>>)
             s1 == [type |-> "send", player |-> p]
             s2 == [type |-> "kick", player |-> p, co |-> d]
             ms == <<s1, s2>>
  <2>1. /\ Resumes("agent_kick") /\ c.login # None /\ co' = (co \ {c}) \cup {d}
        /\ queue' = Post(q, g, ms) /\ UNCHANGED <<cvars, gvars, lvars, agent>>
    BY <1>5 DEF TakeOver
  <2>2. /\ queue[AgentMgr] # << >> /\ c \in Coroutine
        /\ c.login \in Attempt /\ attempt[c.login] # None
    BY <2>1, ResumedHandler
  <2>3. d.at = "gate_kick" /\ d.login = c.login
    <3> HIDE DEF c
    <3> QED
      BY <2>2 DEF Coroutine
  <2>4. g \in Gate /\ g \in Service
    BY <2>2, ServiceNames DEF GateToTell, ComingInv, PortInv
  <2>5. q \in [Service -> Seq(Message)] /\ Loses(queue, q, {<<AgentMgr, m>>})
    <3>1. q \in [Service -> Seq(Message)]
      <4>1. <<[type |-> "exit"]>> \in Seq(Message)
        <5>1. [type |-> "exit"] \in Message
          BY DEF Message
        <5> QED
          BY <5>1
      <4> QED
        BY <1>0, <2>2, <4>1, PostLoses
    <3>2. Loses(queue, q, {<<AgentMgr, m>>})
      BY <1>0, <2>2, TakenPostLoses
    <3> QED
      BY <3>1, <3>2
  <2>6. Loses(q, queue', {}) /\ s2 \in Msgs(queue', g)
    <3> DEFINE T == Message \cup {s1, s2}
    <3>1. q \in [Service -> Seq(T)]
      <4>1. \A x \in Seq(Message) : x \in Seq(T)
        OBVIOUS
      <4> HIDE DEF T, q
      <4> QED
        BY <2>5, <4>1
    <3>2. ms \in Seq(T) /\ 2 \in DOMAIN ms /\ ms[2] = s2
      OBVIOUS
    <3> HIDE DEF T, ms, q, s1, s2, g, m
    <3> QED
      BY <2>1, <2>4, <3>1, <3>2, PostLoses
  <2>7. ASSUME NEW x, x = d PROVE Coming(x)'
    <3>1. [type |-> "kick", player |-> attempt'[x.login].player, co |-> x] = s2
      BY <2>1, <2>3, <2>7 DEF PlayerOf
    <3>2. x.at = "gate_kick"
      BY <2>3, <2>7
    <3> HIDE DEF s2, d, g, m
    <3> QED
      BY <2>4, <2>6, <3>1, <3>2 DEF Coming, PlayerOf
  <2> HIDE DEF d, q, g, ms, p, m
  <2>8. Loses(queue, queue', {<<AgentMgr, m>>})
    BY <2>5, <2>6, LosesTwice
  <2>9. \A x \in co' : (x \in co /\ x # c) \/ Coming(x)'
    BY <2>1, <2>7
  <2> HIDE DEF c
  <2> QED
    BY <1>2, <2>1, <2>8, <2>9
<1>6. ASSUME TakenOver PROVE ComingInv'
  <2>1. /\ Resumes("gate_kick") /\ CreateAgent(c.login, {c}) /\ UNCHANGED <<cvars, gvars, attempt>>
    BY <1>6 DEF TakenOver
  <2>2. /\ queue[AgentMgr] # << >> /\ m.type = "resume" /\ c \in co /\ c.at = "gate_kick"
        /\ c.login \in Attempt /\ c.login # None
    BY <2>1, ResumedHandler, ServiceNames DEF Resumes, Receives
  <2>3. agent[c.login] = "none"
    BY <2>2 DEF SessionInv, HandlerInv
  <2>4. m.co \in {c}
    OBVIOUS
  <2> QED
    BY <2>1, <2>2, <2>3, <2>4, CreateComing
<1>7. ASSUME KickOff PROVE ComingInv'
  <2> DEFINE x == [type |-> "exit"]
             y == [type |-> "kick", player |-> PlayerOf(c.victim), co |-> None]
             q == Post(Taken(AgentMgr), c.victim, <<x>>)
  <2>1. /\ Resumes("agent_kick") /\ co' = co \ {c}
        /\ queue' = Post(q, GateOf(c.victim), <<y>>) /\ UNCHANGED <<cvars, gvars, attempt, agent>>
    BY <1>7 DEF KickOff
  <2>2. queue[AgentMgr] # << >>
    BY <2>1, ResumedHandler
  <2>3. <<x>> \in Seq(Message)
    <3>1. x \in Message
      BY DEF Message
    <3> QED
      BY <3>1
  <2>4. q \in [Service -> Seq(Message)] /\ Loses(queue, q, {<<AgentMgr, m>>})
    <3> HIDE DEF x
    <3> QED
      BY <1>0, <2>2, <2>3, PostLoses, TakenPostLoses
  <2> HIDE DEF q, y, m
  <2>5. Loses(q, queue', {})
    BY <2>1, <2>4, PostOneLoses
  <2>6. Loses(queue, queue', {<<AgentMgr, m>>})
    BY <2>4, <2>5, LosesTwice
  <2> QED
    BY <1>2, <2>1, <2>6
<1>8. ASSUME EnterGame PROVE ComingInv'
  <2>1. /\ Resumes("new_service") /\ co' = co \ {c}
        /\ queue' = Taken(AgentMgr) /\ UNCHANGED <<cvars, gvars, attempt, agent>>
    BY <1>8 DEF EnterGame
  <2>2. Loses(queue, queue', {<<AgentMgr, m>>})
    BY <1>0, <2>1, TakenLoses DEF Resumes, Receives
  <2> HIDE DEF m
  <2> QED
    BY <1>2, <2>1, <2>2
<1> QED
  BY <1>3, <1>4, <1>5, <1>6, <1>7, <1>8 DEF MgrStep

-----------------------------------------------------------------------------
(* Agents. *)

(* What an agent takes out of its own queue only its own handlers wait for. *)
LEMMA AgentWaits ==
  ASSUME TypeInv, ComingInv, NEW i \in Attempt, NEW c \in co,
         NEW gone, Loses(queue, queue', gone), \A x \in gone : x[1] = i,
         UNCHANGED <<attempt, closing>>,
         \A j \in Attempt : j # i => agent'[j] = agent[j],
         ~(c.at = "new_service" /\ c.login = i),
         ~(c.at = "agent_kick" /\ c.victim = i)
  PROVE  Coming(c)'
<1>1. AgentMgr # i /\ i \notin Gate
  BY ServiceNames
<1>2. /\ c.at = "new_service" => c.login \in Attempt
      /\ c.at = "agent_kick" => c.victim \in Attempt
  BY HandlerTypes
<1>3. /\ <<AgentMgr, Answer(c)>> \notin gone
      /\ c.at = "agent_kick" => <<c.victim, KickedMsg(c)>> \notin gone
      /\ \A x \in gone : x[1] \notin Gate
      /\ \A s \in Gate : \A m : <<s, m>> \notin gone
  <2>1. \A s, m : <<s, m>> \in gone => s = i
    OBVIOUS
  <2> QED
    BY <1>1, <2>1
<1>4. Safe(c, gone)
  BY <1>2, <1>3 DEF Safe
<1> QED
  BY <1>4, SafeComes DEF ComingInv

LEMMA AgentComing ==
  ASSUME TypeInv, SessionInv, ComingInv, NEW i \in Attempt, AgentStep(i)
  PROVE  ComingInv'
<1> USE DEF cvars, gvars, lvars, mvars
<1>0. /\ queue \in [Service -> Seq(Message)] /\ i \in Service /\ i # None
      /\ agent \in [Attempt -> {"none", "loading", "running", "saving", "saved", "gone"}]
      /\ co \subseteq Coroutine
  BY ServiceNames DEF TypeInv, TypeOK
<1>1. HandlerInv /\ AgentInv
  BY DEF SessionInv
(* It is enough to look at the handlers that wait for this agent. *)
<1> DEFINE Waits(c) == (c.at = "new_service" /\ c.login = i) \/ (c.at = "agent_kick" /\ c.victim = i)
<1>2. ASSUME \A j \in Attempt : j # i => agent'[j] = agent[j],
             NEW gone, Loses(queue, queue', gone), \A x \in gone : x[1] = i,
             UNCHANGED <<port, sock, attempt, co, closing>>,
             \A c \in co : Waits(c) => Coming(c)'
      PROVE  ComingInv'
  <2>2. \A c \in co : Coming(c)'
    BY <1>2, AgentWaits
  <2>3. WaitInv' /\ PortInv'
    BY <1>2, PortKept DEF ComingInv, WaitInv
  <2> QED
    BY <1>2, <2>2, <2>3 DEF ComingInv
<1>3. ASSUME NEW c \in co
      PROVE  /\ c.at = "new_service" /\ c.login = i =>
                  agent[i] \in {"loading", "running"} /\ status[i] = "LOGIN"
             /\ c.at = "agent_kick" /\ c.victim = i =>
                  /\ agent[i] \in {"running", "saving", "saved"}
                  /\ [type |-> "exit"] \notin Msgs(queue, i)
  BY <1>1 DEF HandlerInv
<1>4. ASSUME NEW c \in co, queue' = Post(queue, AgentMgr, Resume(c))
      PROVE  Loses(queue, queue', {}) /\ Coming(c)'
  <2>1. c \in Coroutine \cup {None} /\ c # None
    BY <1>0, CoroutineAssumption
  <2>2. /\ Loses(queue, queue', {})
        /\ Answer(c) \in Msgs(queue', AgentMgr)
    BY <1>0, <1>4, <2>1, ResumeLoses
  <2> QED
    BY <2>2 DEF Coming
<1>5. ASSUME queue[i] # << >>
      PROVE  /\ Head(queue[i]) \in Message /\ Head(queue[i]) \in Msgs(queue, i)
             /\ Head(queue[i]).type # "client" => status[i] = "LOGOUT"
  <2>1. Head(queue[i]) \in Message /\ Head(queue[i]) \in Msgs(queue, i)
    BY <1>0, <1>5, TakenQueue
  <2> QED
    BY <1>1, <2>1 DEF AgentInv
<1>6. CASE AgentLoaded(i)
  <2>1. /\ agent[i] = "loading" /\ agent' = [agent EXCEPT ![i] = "running"]
        /\ UNCHANGED <<port, sock, attempt, co, closing>>
    BY <1>6 DEF AgentLoaded
  <2>2. PICK c \in co : /\ c.at = "new_service" /\ c.login = i
                        /\ queue' = Post(queue, AgentMgr, Resume(c))
    BY <1>6 DEF AgentLoaded
  <2>3. Loses(queue, queue', {}) /\ Coming(c)'
    BY <1>4, <2>2
  <2>4. ASSUME NEW d \in co, Waits(d) PROVE Coming(d)'
    <3>1. d.at = "new_service" /\ d.login = i
      BY <1>3, <2>1, <2>4
    <3>2. d = c
      BY <1>0, <1>1, <2>2, <3>1 DEF HandlerInv
    <3> QED
      BY <2>3, <3>2
  <2>5. \A j \in Attempt : j # i => agent'[j] = agent[j]
    BY <1>0, <2>1
  <2>6. \A x \in {} : x[1] = i
    OBVIOUS
  <2> HIDE DEF Waits
  <2> QED
    BY <1>2, <2>1, <2>3, <2>4, <2>5, <2>6
<1>7. CASE AgentSaved(i)
  <2>1. /\ agent[i] = "saving" /\ agent' = [agent EXCEPT ![i] = "saved"]
        /\ UNCHANGED <<port, sock, attempt, co, closing>>
    BY <1>7 DEF AgentSaved
  <2>2. PICK c \in co : /\ c.at = "agent_kick" /\ c.victim = i
                        /\ queue' = Post(queue, AgentMgr, Resume(c))
    BY <1>7 DEF AgentSaved
  <2>3. Loses(queue, queue', {}) /\ Coming(c)'
    BY <1>4, <2>2
  <2>4. ASSUME NEW d \in co, Waits(d) PROVE Coming(d)'
    <3>1. d.at = "agent_kick" /\ d.victim = i
      BY <1>3, <2>1, <2>4
    <3>2. d = c
      BY <1>0, <1>1, <2>2, <3>1 DEF HandlerInv
    <3> QED
      BY <2>3, <3>2
  <2>5. \A j \in Attempt : j # i => agent'[j] = agent[j]
    BY <1>0, <2>1
  <2>6. \A x \in {} : x[1] = i
    OBVIOUS
  <2> HIDE DEF Waits
  <2> QED
    BY <1>2, <2>1, <2>3, <2>4, <2>5, <2>6
<1>8. CASE AgentKick(i)
  <2>1. /\ agent' = [agent EXCEPT ![i] = "saving"] /\ queue' = Taken(i)
        /\ queue[i] # << >> /\ Head(queue[i]).type = "agent_kick"
        /\ UNCHANGED <<port, sock, attempt, co, closing>>
    BY <1>8 DEF AgentKick, Receives
  <2>2. Loses(queue, queue', {<<i, Head(queue[i])>>})
    BY <1>0, <2>1, TakenLoses
  <2>3. agent'[i] = "saving"
    BY <1>0, <2>1
  <2>4. ASSUME NEW d \in co, Waits(d) PROVE Coming(d)'
    <3>1. d.at = "agent_kick" /\ d.victim = i
      BY <1>3, <1>5, <2>1, <2>4
    <3> QED
      BY <2>3, <3>1 DEF Coming
  <2>5. \A x \in {<<i, Head(queue[i])>>} : x[1] = i
    OBVIOUS
  <2>6. \A j \in Attempt : j # i => agent'[j] = agent[j]
    BY <1>0, <2>1
  <2> HIDE DEF Waits
  <2> QED
    BY <1>2, <2>1, <2>2, <2>4, <2>5, <2>6
<1>9. CASE AgentExit(i)
  <2> DEFINE gone == {<<i, m>> : m \in Msgs(queue, i)}
  <2>1. /\ agent' = [agent EXCEPT ![i] = "gone"] /\ queue' = [queue EXCEPT ![i] = << >>]
        /\ queue[i] # << >> /\ Head(queue[i]).type = "exit"
        /\ UNCHANGED <<port, sock, attempt, co, closing>>
    BY <1>9 DEF AgentExit, Receives
  <2>2. Loses(queue, queue', gone)
    <3>1. \A s \in Service : s # i => queue'[s] = queue[s]
      BY <1>0, <2>1
    <3> QED
      BY <3>1 DEF Loses, Msgs
  <2>3. Head(queue[i]) = [type |-> "exit"]
    BY <1>5, <2>1 DEF Message
  <2>4. \A d \in co : ~Waits(d)
    BY <1>3, <1>5, <2>1, <2>3
  <2>5. \A x \in gone : x[1] = i
    OBVIOUS
  <2>6. \A j \in Attempt : j # i => agent'[j] = agent[j]
    BY <1>0, <2>1
  <2> HIDE DEF gone, Waits
  <2> QED
    BY <1>2, <2>1, <2>2, <2>4, <2>5, <2>6
<1>10. CASE AgentClient(i)
  <2>1. /\ TakesOne(i) /\ Head(queue[i]).type = "client"
        /\ UNCHANGED <<cvars, attempt, co, agent, closing>>
    BY <1>10 DEF AgentClient, Receives, TakesOne
  <2>2. WaitFrame
    BY <2>1 DEF WaitFrame
  <2> QED
    BY <1>0, <2>1, <2>2, TakenComing
<1> QED
  BY <1>6, <1>7, <1>8, <1>9, <1>10 DEF AgentStep

-----------------------------------------------------------------------------
(* The answers come. *)

LEMMA ComingInit == Init => ComingInv
<1> SUFFICES ASSUME Init PROVE ComingInv
  OBVIOUS
<1>1. co = {} /\ \A fd \in Fd : closing[fd] = << >> /\ sock[fd] = "new"
  BY DEF Init
<1>2. \A i \in Attempt : attempt[i] = None
  BY DEF Init
<1> QED
  BY <1>1, <1>2 DEF ComingInv, WaitInv, PortInv

(* No step loses an answer. *)
LEMMA ComingStep == TypeInv /\ SessionInv /\ ComingInv /\ [Next]_vars => ComingInv'
<1> SUFFICES ASSUME TypeInv, SessionInv, ComingInv, [Next]_vars PROVE ComingInv'
  OBVIOUS
<1>1. CASE ClientStep
  BY <1>1, ClientComing DEF ClientStep
<1>2. ASSUME NEW g \in Gate, GateStep(g) PROVE ComingInv'
  BY <1>2, GateComing
<1>3. ASSUME NEW i \in Attempt, LoginStep(i) \/ AgentStep(i) \/ Timeout(i) PROVE ComingInv'
  BY <1>3, LoginComing, AgentComing, TimeoutComing
<1>4. CASE MgrStep
  BY <1>4, MgrComing
<1>5. CASE UNCHANGED vars
  <2>1. UNCHANGED <<port, sock, attempt, co, agent, closing, queue>>
    BY <1>5 DEF vars, cvars, gvars, lvars, mvars
  <2>2. WaitFrame /\ PortInv' /\ Loses(queue, queue', {}) /\ Unawaited({})
    BY <2>1, PortKept DEF WaitFrame, Loses, Unawaited, ComingInv
  <2> QED
    BY <2>2, UnawaitedStep DEF ComingInv
<1> QED
  BY <1>1, <1>2, <1>3, <1>4, <1>5 DEF Next

(* A handler of agent_mgr that waits for an agent or a gateway has its     *)
(* answer under way, whatever the others have done meanwhile: no request   *)
(* and no answer is lost, and no two services wait for each other.         *)
THEOREM AnswerComesAlways == Spec => []AnswerComes
<1>1. Init => TypeInv /\ SessionInv /\ ComingInv
  BY TypeInit, SessionInit, ComingInit
<1>2. TypeInv /\ SessionInv /\ ComingInv /\ [Next]_vars
        => (TypeInv /\ SessionInv /\ ComingInv)'
  BY TypeStep, SessionStep, ComingStep
<1>3. ComingInv => AnswerComes
  BY ComingMeans DEF ComingInv
<1> QED
  BY <1>1, <1>2, <1>3, PTL DEF Spec

-----------------------------------------------------------------------------
(* GameShutdown: the invariant. *)

StopInv == StopTypeOK /\ AbortSaves
ShutdownInv == TypeInv /\ SessionInv /\ ComingInv /\ StopInv

-----------------------------------------------------------------------------
(* The sessions, while the servers are closed *)

(* A message of agent_mgr that leaves the sessions alone. *)
LEMMA StopQuiet ==
  ASSUME TypeInv, SessionInv, NEW new, Grows(queue, queue', new), NamesNone(new), Quiet(new),
         UNCHANGED <<cvars, gvars, lvars, mvars, agent>>
  PROVE  TypeInv' /\ SessionInv'
<1> USE DEF cvars, gvars, lvars, mvars
<1>1. TypeOK
  BY DEF TypeInv
<1>2. TypeInv'
  <2>1. /\ login' \in [Attempt -> LoginState]
        /\ mgr_players' \in [Player -> Attempt \cup {None}]
        /\ status' \in [Attempt -> {"none", "LOGIN", "GAME", "LOGOUT"}]
        /\ agent' \in [Attempt -> {"none", "loading", "running", "saving", "saved", "gone"}]
    BY <1>1 DEF TypeOK
  <2>2. UNCHANGED <<cvars, gvars, attempt>>
    OBVIOUS
  <2>3. \A c \in co' : c \in co \/ (c \in Coroutine /\ MadeHandler(c))
    OBVIOUS
  <2>4. /\ \A i \in Attempt : attempt[i] = None => agent'[i] = agent[i]
        /\ \A i \in Attempt : attempt[i] = None => login'[i] \in {login[i], "fail"}
        /\ \A p \in Player : mgr_players'[p] \in {mgr_players[p], None}
                               \/ attempt[mgr_players'[p]] # None
    OBVIOUS
  <2> QED
    BY <2>1, <2>2, <2>3, <2>4, MgrStays
<1>3. QuietFrame
  BY DEF QuietFrame, CalmFrame
<1> QED
  BY <1>2, <1>3, QuietStep

LEMMA StopAsks ==
  ASSUME TypeInv, SessionInv, ShutdownAgent
  PROVE  TypeInv' /\ SessionInv'
<1> DEFINE m   == [type |-> "shutdown"]
           new == {<<AgentMgr, m>>}
<1>1. m \in Message /\ m.type = "shutdown"
  BY DEF Message
<1>2. queue \in [Service -> Seq(Message)] /\ queue' = Post(queue, AgentMgr, <<m>>)
  BY DEF TypeInv, TypeOK, ShutdownAgent
<1> HIDE DEF m
<1>3. Grows(queue, queue', new)
  BY <1>1, <1>2, PostOne
<1>4. NamesNone(new) /\ Quiet(new)
  BY <1>1, ServiceNames DEF NamesNone, Quiet, Calm
<1>5. UNCHANGED <<cvars, gvars, lvars, mvars, agent>>
  BY DEF ShutdownAgent
<1> HIDE DEF new
<1> QED
  BY <1>3, <1>4, <1>5, StopQuiet

LEMMA StopKicks ==
  ASSUME TypeInv, SessionInv, ForkKick
  PROVE  TypeInv' /\ SessionInv'
<1>1. queue[AgentMgr] # << >> /\ TypeOK
  BY DEF ForkKick, Receives, TypeInv
<1>2. UNCHANGED <<cvars, gvars, lvars, mgr_players, agent>>
  BY DEF ForkKick
<1>3. ASSUME NEW p \in Listed, MayKick(mgr_players[p]),
             Evict(mgr_players[p], [at |-> "agent_kick", login |-> None,
                                    victim |-> mgr_players[p], by |-> None])
      PROVE  TypeInv' /\ SessionInv'
  <2> DEFINE v == mgr_players[p]
             c == [at |-> "agent_kick", login |-> None, victim |-> v, by |-> None]
  <2>1. p \in Player /\ v \in Attempt /\ status[v] = "GAME" /\ Made(v)
    BY <1>1, <1>3 DEF Listed, TypeOK, MayKick, TypeInv, MadeInv
  <2>2. c \in Coroutine /\ c.at = "agent_kick" /\ c.victim = v /\ c.login = None
    BY <2>1 DEF Coroutine
  <2>3. MadeHandler(c)
    BY <2>1, <2>2, ServiceNames DEF MadeHandler
  <2>4. Evict(v, c) /\ mgr_players[p] = v
    BY <1>3
  <2> HIDE DEF c, v
  <2>5. TypeInv'
    BY <1>1, <1>2, <2>1, <2>2, <2>3, <2>4, EvictTypes
  <2>6. SessionInv'
    BY <1>1, <1>2, <2>1, <2>2, <2>4, EvictSessions
  <2> QED
    BY <2>5, <2>6
<1>4. ASSUME queue' = Taken(AgentMgr), UNCHANGED <<status, co>>
      PROVE  TypeInv' /\ SessionInv'
  <2>1. Grows(queue, queue', {}) /\ NamesNone({}) /\ Quiet({})
    BY <1>1, <1>4, MgrReads DEF NamesNone, Quiet, Calm
  <2>2. UNCHANGED <<cvars, gvars, lvars, mvars, agent>>
    BY <1>2, <1>4 DEF mvars
  <2> QED
    BY <2>1, <2>2, StopQuiet
<1> QED
  BY <1>3, <1>4 DEF ForkKick

(* A gateway that takes no more connections. *)
LEMMA StopIgnores ==
  ASSUME TypeInv, SessionInv, NEW fd \in Fd, NEW g \in Gate, ConnectIgnored(fd, g)
  PROVE  TypeInv' /\ SessionInv'
<1> USE DEF cvars, gvars, lvars, mvars
<1>0. TypeOK /\ queue \in [Service -> Seq(Message)]
  BY DEF TypeInv, TypeOK
<1>1. TypeInv'
  <2>1. TypeOK'
    BY <1>0 DEF TypeOK, ConnectIgnored
  <2>2. QueueMade' /\ HandlerMade'
    BY DEF ConnectIgnored, TypeInv, MadeInv, QueueMade, HandlerMade, MadeHandler, Made, Msgs
  <2> QED
    BY <1>0, <2>1, <2>2 DEF TypeInv, TypeOK, ConnectIgnored, MadeInv, Made, FdOf
<1>2. SessionInv'
  <2>1. Grows(queue, queue', {}) /\ Quiet({})
    BY <1>0, GrowsNot DEF ConnectIgnored, Quiet, Calm
  <2>2. \A i \in Attempt : attempt[i] # None => port'[attempt[i].fd] = port[attempt[i].fd]
    BY <1>0 DEF ConnectIgnored, TypeInv, TypeOK, MadeInv, Made, FdOf
  <2>3. QuietFrame
    BY <2>2 DEF ConnectIgnored, QuietFrame, CalmFrame
  <2> QED
    BY <2>1, <2>3, QuietStep
<1> QED
  BY <1>1, <1>2

LEMMA StopSessions ==
  ASSUME TypeInv, SessionInv, [ShutdownNext]_gamevars
  PROVE  TypeInv' /\ SessionInv'
<1>1. ASSUME [Next]_vars PROVE TypeInv' /\ SessionInv'
  BY <1>1, TypeStep, SessionStep
<1>2. CASE Play
  BY <1>1, <1>2 DEF Play
<1>3. CASE StopCommand \/ Abort \/ CountOnline \/ \E g \in Gate : ShutdownGate(g)
  BY <1>1, <1>3 DEF StopCommand, Abort, CountOnline, ShutdownGate
<1>4. CASE UNCHANGED gamevars
  BY <1>1, <1>4 DEF gamevars
<1>5. CASE ShutdownAgent \/ ForkKick \/ \E g \in Gate : \E fd \in Fd : ConnectIgnored(fd, g)
  BY <1>5, StopAsks, StopKicks, StopIgnores
<1> QED
  BY <1>2, <1>3, <1>4, <1>5 DEF ShutdownNext

(* The answers are under way all the same: a kick that is forked waits for *)
(* an agent that has been told, and nobody waits for what admin sends.     *)
LEMMA StopComing ==
  ASSUME TypeInv, SessionInv, ComingInv, [ShutdownNext]_gamevars
  PROVE  ComingInv'
<1> USE DEF cvars, gvars, lvars, mvars
<1>1. ASSUME [Next]_vars PROVE ComingInv'
  BY <1>1, ComingStep
<1>2. CASE Play
  BY <1>1, <1>2 DEF Play
<1>3. CASE StopCommand \/ Abort \/ CountOnline \/ \E g \in Gate : ShutdownGate(g)
  BY <1>1, <1>3 DEF StopCommand, Abort, CountOnline, ShutdownGate
<1>4. CASE UNCHANGED gamevars
  BY <1>1, <1>4 DEF gamevars
<1>5. CASE ShutdownAgent
  <2>1. /\ queue' = Post(queue, AgentMgr, <<[type |-> "shutdown"]>>)
        /\ UNCHANGED <<port, sock, attempt, co, agent, closing>>
    BY <1>5 DEF ShutdownAgent
  <2>2. WaitFrame /\ PortInv'
    BY <2>1, PortKept DEF WaitFrame, ComingInv
  <2> QED
    BY <2>1, <2>2, PostedComing
<1>6. CASE ForkKick
  <2>1. /\ queue[AgentMgr] # << >> /\ Head(queue[AgentMgr]).type = "shutdown"
        /\ UNCHANGED <<cvars, closing, attempt, agent>> /\ AgentMgr \in Service
    BY <1>6, ServiceNames DEF ForkKick, Receives
  <2>2. ASSUME NEW p \in Listed,
               Evict(mgr_players[p], [at |-> "agent_kick", login |-> None,
                                      victim |-> mgr_players[p], by |-> None])
        PROVE  ComingInv'
    <3>1. mgr_players[p] \in Attempt
      BY DEF Listed, TypeInv, TypeOK
    <3> QED
      BY <2>1, <2>2, <3>1, EvictComing
  <2>3. ASSUME queue' = Taken(AgentMgr), UNCHANGED co PROVE ComingInv'
    <3>1. WaitFrame /\ TakesOne(AgentMgr)
      BY <2>1, <2>3 DEF WaitFrame, TakesOne
    <3> QED
      BY <2>1, <3>1, TakenComing
  <2> QED
    BY <1>6, <2>2, <2>3 DEF ForkKick
<1>7. ASSUME NEW fd \in Fd, NEW g \in Gate, ConnectIgnored(fd, g) PROVE ComingInv'
  <2>1. /\ queue' = queue /\ sock[fd] = "new"
        /\ sock' = [sock EXCEPT ![fd] = "open"] /\ port' = [port EXCEPT ![fd] = g]
        /\ UNCHANGED <<attempt, co, agent, closing>>
    BY <1>7 DEF ConnectIgnored
  <2>2. WaitFrame /\ Loses(queue, queue', {}) /\ Unawaited({})
    BY <2>1 DEF WaitFrame, Loses, Unawaited
  <2>3. PortInv'
    <3>1. \A f \in Fd : f # fd => port'[f] = port[f] /\ sock'[f] = sock[f]
      BY <2>1 DEF TypeInv, TypeOK
    <3>2. port'[fd] = g
      BY <2>1 DEF TypeInv, TypeOK
    <3>3. \A i \in Attempt : attempt[i] # None => FdOf(i) \in Fd /\ FdOf(i) # fd
      BY <2>1 DEF TypeInv, TypeOK, MadeInv, Made, FdOf
    <3> QED
      BY <2>1, <3>1, <3>2, <3>3 DEF ComingInv, PortInv, GateOf, FdOf
  <2> QED
    BY <2>2, <2>3, UnawaitedStep DEF ComingInv
<1> QED
  BY <1>2, <1>3, <1>4, <1>5, <1>6, <1>7 DEF ShutdownNext

-----------------------------------------------------------------------------
(* What has been saved *)

(* An agent that has saved its data loads no other. *)
LEMMA SavedStays ==
  ASSUME TypeInv, SessionInv, Next, NEW i \in Attempt, agent[i] \in {"saved", "gone"}
  PROVE  agent'[i] \in {"saved", "gone"}
<1>0. TypeOK /\ RequestInv /\ HandlerInv
  BY DEF TypeInv, SessionInv
<1>1. ASSUME agent' = agent PROVE agent'[i] \in {"saved", "gone"}
  BY <1>1
<1>2. CASE ClientStep
  BY <1>1, <1>2 DEF ClientStep, Connect, ClientLogin, ClientReconnect, ClientWork, ClientSend,
                    ClientClose
<1>3. ASSUME NEW g \in Gate, GateStep(g) PROVE agent'[i] \in {"saved", "gone"}
  BY <1>1, <1>3 DEF GateStep, DataUnread, DataFails, DataLogin, DataWork, DataReconnect,
                    Disconnect, GateSend, SureAgent, Kick
<1>4. ASSUME NEW j \in Attempt, LoginStep(j) \/ Timeout(j) PROVE agent'[i] \in {"saved", "gone"}
  BY <1>1, <1>4 DEF LoginStep, LoginStart, LoginGranted, Timeout
<1>5. ASSUME NEW j \in Attempt, AgentStep(j) PROVE agent'[i] \in {"saved", "gone"}
  <2>1. CASE AgentLoaded(j)
    BY <1>0, <2>1 DEF AgentLoaded, TypeOK
  <2>2. CASE AgentClient(j)
    BY <1>1, <2>2 DEF AgentClient
  <2>3. CASE AgentKick(j)
    BY <1>0, <2>3 DEF AgentKick, TypeOK
  <2>4. CASE AgentSaved(j)
    BY <1>0, <2>4 DEF AgentSaved, TypeOK
  <2>5. CASE AgentExit(j)
    BY <1>0, <2>5 DEF AgentExit, TypeOK
  <2> QED
    BY <1>5, <2>1, <2>2, <2>3, <2>4, <2>5 DEF AgentStep
<1>6. ASSUME NEW j \in Attempt, NEW waiting, CreateAgent(j, waiting), agent[j] = "none"
      PROVE  agent'[i] \in {"saved", "gone"}
  BY <1>0, <1>6 DEF CreateAgent, TypeOK
<1>7. CASE MgrStep
  <2>1. CASE ReqLogin
    <3> DEFINE j == Head(queue[AgentMgr]).login
    <3>1. j \in Attempt /\ Fresh(j)
      BY <1>0, <2>1, Asks DEF ReqLogin
    <3>2. CreateAgent(j, {}) \/ agent' = agent
      BY <2>1 DEF ReqLogin
    <3> HIDE DEF j
    <3> QED
      BY <1>1, <1>6, <3>1, <3>2 DEF Fresh
  <2>2. CASE TakenOver
    <3> DEFINE c == Head(queue[AgentMgr]).co
    <3>1. c \in co /\ c.at = "gate_kick" /\ c.login # None /\ c.login \in Attempt
      BY <2>2, ResumedHandler DEF TakenOver
    <3>2. CreateAgent(c.login, {c})
      BY <2>2 DEF TakenOver
    <3> HIDE DEF c
    <3>3. agent[c.login] = "none"
      BY <1>0, <3>1 DEF HandlerInv
    <3> QED
      BY <1>6, <3>1, <3>2, <3>3
  <2>3. CASE ReqKick \/ TakeOver \/ KickOff \/ EnterGame
    BY <1>1, <2>3 DEF ReqKick, TakeOver, KickOff, EnterGame
  <2> QED
    BY <1>7, <2>1, <2>2, <2>3 DEF MgrStep
<1> QED
  BY <1>2, <1>3, <1>4, <1>5, <1>7 DEF Next

(* agent_mgr lists no more players than there are attempts. *)
LEMMA ListedFinite ==
  ASSUME TypeInv, SessionInv
  PROVE  IsFiniteSet(Listed) /\ Cardinality(Listed) \in Nat
<1> DEFINE f == [p \in Listed |-> mgr_players[p]]
<1>1. \A p \in Listed : mgr_players[p] \in Attempt /\ PlayerOf(mgr_players[p]) = p
  BY DEF Listed, TypeInv, TypeOK, SessionInv, TableInv
<1>2. f \in Injection(Listed, Attempt)
  BY <1>1 DEF Injection, IsInjective
<1>3. IsFiniteSet(Attempt)
  BY BoundAssumption, FS_Interval DEF Attempt
<1>4. IsFiniteSet(Listed)
  BY <1>2, <1>3, FS_Injection
<1> QED
  BY <1>4, FS_CardinalityType

(* When nobody is listed, nobody has data that is not saved. *)
LEMMA NobodyListed ==
  ASSUME TypeInv, SessionInv, Cardinality(Listed) = 0, NEW i \in Attempt, agent[i] # "none"
  PROVE  agent[i] \in {"saved", "gone"}
<1>1. Listed = {}
  BY ListedFinite, FS_EmptySet
<1>2. Made(i) /\ TypeOK
  BY DEF TypeInv, MadeInv
<1>3. PlayerOf(i) \in Player /\ i # None
  BY <1>2, NameAssumption DEF TypeOK, PlayerOf, Made
<1>4. ~HasData(i)
  BY <1>1, <1>3 DEF Listed, SessionInv, AgentInv
<1> QED
  BY <1>2, <1>4 DEF TypeOK, HasData

LEMMA StopInit == ShutdownInit => ShutdownInv
<1> SUFFICES ASSUME ShutdownInit PROVE ShutdownInv
  OBVIOUS
<1>1. TypeInv /\ SessionInv /\ ComingInv
  BY TypeInit, SessionInit, ComingInit DEF ShutdownInit
<1>2. StopInv
  BY DEF ShutdownInit, StopInv, StopTypeOK, StopState, AbortSaves
<1> QED
  BY <1>1, <1>2 DEF ShutdownInv

LEMMA StopStep == ShutdownInv /\ [ShutdownNext]_gamevars => ShutdownInv'
<1> SUFFICES ASSUME ShutdownInv, [ShutdownNext]_gamevars PROVE StopInv'
  BY StopSessions, StopComing DEF ShutdownInv
<1> USE DEF StopState
<1>0. TypeInv /\ SessionInv /\ StopTypeOK /\ AbortSaves
  BY DEF ShutdownInv, StopInv
<1>1. ASSUME \A i \in Attempt : agent[i] \in {"saved", "gone"} => agent'[i] \in {"saved", "gone"},
             counted' = counted, stop' \in {"empty", "aborted"} => stop \in {"empty", "aborted"}
      PROVE  AbortSaves'
  BY <1>0, <1>1 DEF AbortSaves, StopTypeOK
<1>2. CASE Play
  <2>1. UNCHANGED stopvars /\ Next
    BY <1>2 DEF Play
  <2>2. AbortSaves'
    BY <1>0, <1>1, <2>1, SavedStays DEF stopvars
  <2> QED
    BY <1>0, <2>1, <2>2 DEF StopInv, StopTypeOK, stopvars
<1>3. CASE StopCommand \/ Abort \/ \E g \in Gate : ShutdownGate(g)
  <2>1. agent' = agent /\ counted' = counted /\ online' = online
    BY <1>3 DEF StopCommand, Abort, ShutdownGate, vars
  <2>2. stop' \in StopState /\ closed' \subseteq Gate
    BY <1>0, <1>3 DEF StopCommand, Abort, ShutdownGate, StopTypeOK
  <2>3. stop' \in {"empty", "aborted"} => stop \in {"empty", "aborted"}
    BY <1>3 DEF StopCommand, Abort, ShutdownGate
  <2>4. AbortSaves'
    BY <1>1, <2>1, <2>3
  <2> QED
    BY <1>0, <2>1, <2>2, <2>4 DEF StopInv, StopTypeOK
<1>4. CASE CountOnline
  <2>1. /\ agent' = agent /\ closed' = closed /\ online' = online
        /\ IF Cardinality(Listed) = 0
           THEN stop' = "empty" /\ counted' = {i \in Attempt : agent[i] # "none"}
           ELSE stop' = "agents" /\ counted' = counted
    BY <1>4 DEF CountOnline, vars
  <2>2. AbortSaves'
    BY <1>0, <2>1, NobodyListed DEF AbortSaves
  <2> QED
    BY <1>0, <2>1, <2>2 DEF StopInv, StopTypeOK
<1>5. CASE ShutdownAgent \/ ForkKick \/ \E g \in Gate : \E fd \in Fd : ConnectIgnored(fd, g)
  <2>1. /\ agent' = agent /\ counted' = counted /\ closed' = closed
        /\ \/ stop' = stop /\ online' = online
           \/ stop' = "asked" /\ online' = online
           \/ stop' = "forked" /\ online' = Cardinality(Listed)
    BY <1>5 DEF ShutdownAgent, ForkKick, ConnectIgnored, stopvars
  <2>2. AbortSaves'
    BY <1>1, <2>1
  <2> QED
    BY <1>0, <2>1, <2>2, ListedFinite DEF StopInv, StopTypeOK
<1>6. CASE UNCHANGED gamevars
  BY <1>0, <1>6 DEF gamevars, vars, stopvars, StopInv, StopTypeOK, AbortSaves
<1> QED
  BY <1>2, <1>3, <1>4, <1>5, <1>6 DEF ShutdownNext

LEMMA StopCorrect == ShutdownSpec => []ShutdownInv
BY StopInit, StopStep, PTL DEF ShutdownSpec

(* When agent_mgr reports that nobody is online, and when the node ends,   *)
(* the data of every player who was has been saved (shutdown of agent_mgr, *)
(* shutdown_agent and abort of admin).                                     *)
THEOREM AbortSavesAlways == ShutdownSpec => []AbortSaves
<1>1. ShutdownInv => AbortSaves
  BY DEF ShutdownInv, StopInv
<1> QED
  BY <1>1, StopCorrect, PTL

(* The kicks that agent_mgr forks for the shutdown run beside the logins   *)
(* and log-outs of the players themselves: still no agent loads a player's *)
(* data before the last one has saved it, each handler finds its own       *)
(* mgr_player, every kick an agent that will answer, and each handler that *)
(* waits, the shutdown's too, has its answer under way.                    *)
THEOREM ShutdownKeepsSessions ==
  ShutdownSpec => [](SavedBeforeLoad /\ StatusAttended /\ GameHasAgent /\ AnswerComes)
<1>1. ShutdownInv => SavedBeforeLoad /\ StatusAttended /\ GameHasAgent
  BY AttendedInv, HasAgentInv DEF ShutdownInv, SessionInv, AgentInv, SavedBeforeLoad
<1>2. ShutdownInv => AnswerComes
  BY ComingMeans DEF ShutdownInv, ComingInv
<1> QED
  BY <1>1, <1>2, StopCorrect, PTL

(* The types of the sessions and of the stop command.                      *)
THEOREM ShutdownTypeCorrect == ShutdownSpec => [](TypeOK /\ StopTypeOK)
<1>1. ShutdownInv => TypeOK /\ StopTypeOK
  BY DEF ShutdownInv, StopInv, TypeInv
<1> QED
  BY <1>1, StopCorrect, PTL
=============================================================================
