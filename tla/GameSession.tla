---------------------------- MODULE GameSession ----------------------------
(***************************************************************************)
(* Sessions of chapter 04: gateways, login services, agent_mgr, agents.    *)
(*                                                                         *)
(* A Skynet service handles its messages one at a time in the order they   *)
(* reached its queue.  A handler runs until it calls another service or    *)
(* waits for a socket; then the service goes on with its next message, and *)
(* the answer, which comes through the same queue, resumes the handler     *)
(* (skynet_mq.c, skynet.lua).  A step is one such segment and all it sends.*)
(*                                                                         *)
(* A login attempt i makes one of each: a handler in a login service, a    *)
(* handler of req_login, a mgr_player, an agent and a gate_player.  The    *)
(* attempt stands for all of them.                                         *)
(***************************************************************************)
EXTENDS Integers, Sequences, FiniteSets

CONSTANTS Player, Gate,
          Fd,          \* connections, one per number: they are not used again
          MaxLogin,    \* bound on the login attempts
          MaxData,     \* bound on the other messages of clients
          CacheLimit,  \* 500 in the code: what msg_cache holds before a kick
          AgentMgr, None

Attempt == 1..MaxLogin
Service == Gate \cup {AgentMgr} \cup Attempt  \* agent i is service i

ASSUME BoundAssumption ==
  MaxLogin \in Nat /\ MaxData \in Nat /\ CacheLimit \in Nat
ASSUME NameAssumption ==
  /\ AgentMgr \notin Gate \cup Attempt \cup {None}
  /\ None \notin Player \cup Gate \cup Fd \cup Attempt
  /\ None \notin [fd : Fd, player : Player]
  /\ Gate \cap Attempt = {}

VARIABLES
  (* clients and sockets *)
  port,         \* the gateway a connection was made to, None before that
  sock,         \* "new", "open" or "closed", by whichever side
  sent,         \* messages clients have sent, logins apart
  (* gateways *)
  conns,        \* conns[fd] is in the table of its gateway
  conn_player,  \* player_id of the conn object
  players,      \* players[g][p]: the gate_player, None if there is none
  conn,         \* conn[i]: the connection of gate_player i
  msg_cache,    \* how many messages it holds back
  timers,       \* disconnect timers that look at gate_player i
  reader,       \* recv_loop of a connection: "none", "reading", "dead", "done"
  closing,      \* handlers of kick that wait in socket.close
  (* login services *)
  attempt,      \* [fd, player], or None
  login,        \* how far the attempt is: see LoginState
  (* agent_mgr *)
  mgr_players,  \* the mgr_player of a player, None if there is none
  status,       \* status of mgr_player i
  co,           \* handlers that wait for an answer
  (* agents *)
  agent,        \* "none", "loading", "running", "saving", "saved", "gone"
  (* queues *)
  queue

cvars == <<port, sock, sent>>
gvars == <<conns, conn_player, players, conn, msg_cache, timers, reader, closing>>
lvars == <<attempt, login>>
mvars == <<mgr_players, status, co>>
vars  == <<cvars, gvars, lvars, mvars, agent, queue>>

LoginState == {"none", "started", "req_login", "granted", "sure_agent", "ok", "fail"}

(* A waiting handler of agent_mgr: req_login of an attempt, or req_kick    *)
(* (login is None) called by an attempt's sure_agent or by nobody it must  *)
(* answer; victim is the mgr_player it takes off.                          *)
Coroutine == [at     : {"agent_kick", "gate_kick", "new_service"},
              login  : Attempt \cup {None},
              victim : Attempt \cup {None},
              by     : Attempt \cup {None}]

ASSUME CoroutineAssumption == None \notin Coroutine

Message ==
       [type : {"login", "req_login", "sure_agent"}, login : Attempt]
  \cup [type : {"work", "close"}, fd : Fd]
  \cup [type : {"reconnect"}, fd : Fd, key : Attempt]
  \cup [type : {"send"}, player : Player]
  \cup [type : {"kick"}, player : Player, co : Coroutine \cup {None}]
  \cup [type : {"agent_kick", "resume"}, co : Coroutine]
  \cup [type : {"client"}, gate : Gate]
  \cup [type : {"exit", "shutdown"}]  \* shutdown: see GameShutdown
  \cup [type : {"req_kick"}, player : Player, by : Attempt \cup {None}]

TypeOK ==
  /\ port \in [Fd -> Gate \cup {None}]
  /\ sock \in [Fd -> {"new", "open", "closed"}]
  /\ sent \in 0..MaxData
  /\ conns \in [Fd -> BOOLEAN]
  /\ conn_player \in [Fd -> Player \cup {None}]
  /\ players \in [Gate -> [Player -> Attempt \cup {None}]]
  /\ conn \in [Attempt -> Fd \cup {None}]
  /\ msg_cache \in [Attempt -> Nat]
  /\ timers \in [Attempt -> Nat]
  /\ reader \in [Fd -> {"none", "reading", "dead", "done"}]
  /\ closing \in [Fd -> Seq(Coroutine \cup {None})]
  /\ attempt \in [Attempt -> [fd : Fd, player : Player] \cup {None}]
  /\ login \in [Attempt -> LoginState]
  /\ mgr_players \in [Player -> Attempt \cup {None}]
  /\ status \in [Attempt -> {"none", "LOGIN", "GAME", "LOGOUT"}]
  /\ co \subseteq Coroutine
  /\ agent \in [Attempt -> {"none", "loading", "running", "saving", "saved", "gone"}]
  /\ queue \in [Service -> Seq(Message)]

Init ==
  /\ port = [fd \in Fd |-> None]
  /\ sock = [fd \in Fd |-> "new"]
  /\ sent = 0
  /\ conns = [fd \in Fd |-> FALSE]
  /\ conn_player = [fd \in Fd |-> None]
  /\ players = [g \in Gate |-> [p \in Player |-> None]]
  /\ conn = [i \in Attempt |-> None]
  /\ msg_cache = [i \in Attempt |-> 0]
  /\ timers = [i \in Attempt |-> 0]
  /\ reader = [fd \in Fd |-> "none"]
  /\ closing = [fd \in Fd |-> << >>]
  /\ attempt = [i \in Attempt |-> None]
  /\ login = [i \in Attempt |-> "none"]
  /\ mgr_players = [p \in Player |-> None]
  /\ status = [i \in Attempt |-> "none"]
  /\ co = {}
  /\ agent = [i \in Attempt |-> "none"]
  /\ queue = [s \in Service |-> << >>]

-----------------------------------------------------------------------------
(* Queues *)

Post(q, s, ms) == [q EXCEPT ![s] = @ \o ms]

Taken(s) == [queue EXCEPT ![s] = Tail(@)]

Receives(s, type) == queue[s] # << >> /\ Head(queue[s]).type = type

(* Mutant: a send is answered like a call. *)
AlwaysAnswers(c) == <<[type |-> "resume", co |-> c]>>

(* The answer to a call; a send (c is None) has none. *)
Resume(c) == IF c = None THEN << >> ELSE <<[type |-> "resume", co |-> c]>>

FdOf(i)     == attempt[i].fd
PlayerOf(i) == attempt[i].player
GateOf(i)   == port[FdOf(i)]

-----------------------------------------------------------------------------
(* Clients: what reaches a gateway from its sockets *)

Connect(fd, g) ==
  /\ sock[fd] = "new"
  /\ sock' = [sock EXCEPT ![fd] = "open"]
  /\ port' = [port EXCEPT ![fd] = g]
  /\ conns' = [conns EXCEPT ![fd] = TRUE]
  /\ reader' = [reader EXCEPT ![fd] = "reading"]
  /\ UNCHANGED <<sent, conn_player, players, conn, msg_cache, timers, closing,
                 lvars, mvars, agent, queue>>

(* Attempts are numbered as they are sent. *)
ClientLogin(fd, p) ==
  /\ sock[fd] = "open"
  /\ \E i \in Attempt :
       /\ attempt[i] = None
       /\ \A j \in Attempt : j < i => attempt[j] # None
       /\ attempt' = [attempt EXCEPT ![i] = [fd |-> fd, player |-> p]]
       /\ queue' = Post(queue, port[fd], <<[type |-> "login", login |-> i]>>)
  /\ UNCHANGED <<cvars, gvars, login, mvars, agent>>

ClientSend(fd, m) ==
  /\ sock[fd] = "open"
  /\ sent < MaxData
  /\ sent' = sent + 1
  /\ queue' = Post(queue, port[fd], <<m>>)
  /\ UNCHANGED <<port, sock, gvars, lvars, mvars, agent>>

ClientWork(fd) == ClientSend(fd, [type |-> "work", fd |-> fd])

(* key i is the key of gate_player i; any other is refused *)
ClientReconnect(fd, i) ==
  /\ attempt[i] # None
  /\ ClientSend(fd, [type |-> "reconnect", fd |-> fd, key |-> i])

ClientClose(fd) ==
  /\ sock[fd] = "open"
  /\ sock' = [sock EXCEPT ![fd] = "closed"]
  /\ queue' = Post(queue, port[fd], <<[type |-> "close", fd |-> fd]>>)
  /\ UNCHANGED <<port, sent, gvars, lvars, mvars, agent>>

-----------------------------------------------------------------------------
(* Gateway: recv_loop *)

(* The connection the first message of g's queue came from. *)
DataFd(g) ==
  LET m == Head(queue[g])
  IN  IF m.type = "login" THEN FdOf(m.login) ELSE m.fd

IsData(g) == \E type \in {"login", "work", "reconnect"} : Receives(g, type)

(* process_msg raises an error: the conn object, or the gate_player it     *)
(* names, is not there.                                                    *)
Fails(g, fd) ==
  \/ ~conns[fd]
  \/ /\ conn_player[fd] # None
     /\ players[g][conn_player[fd]] = None
     /\ Head(queue[g]).type # "reconnect"

(* Whoever waits for the socket leaves suspend and wakes the kick that     *)
(* waits for it in close; each kick answers.                               *)
Woken(q, fd) ==
  LET answer(k) == IF k \in DOMAIN closing[fd] THEN Resume(closing[fd][k]) ELSE << >>
  IN  Post(q, AgentMgr, answer(1) \o answer(2))

(* recv_loop has ended: nobody reads what still arrives. *)
DataUnread(g) ==
  /\ IsData(g)
  /\ reader[DataFd(g)] # "reading"
  /\ queue' = Taken(g)
  /\ UNCHANGED <<cvars, gvars, lvars, mvars, agent>>

DataFails(g) ==
  LET fd == DataFd(g) IN
  /\ IsData(g)
  /\ reader[fd] = "reading"
  /\ Fails(g, fd)
  /\ reader' = [reader EXCEPT ![fd] = "dead"]
  /\ queue' = Woken(Taken(g), fd)
  /\ closing' = [closing EXCEPT ![fd] = << >>]
  /\ UNCHANGED <<cvars, conns, conn_player, players, conn, msg_cache, timers,
                 lvars, mvars, agent>>

(* Before a login any message goes to a login service, which knows one; an *)
(* agent has no handler of that name.                                      *)
DataLogin(g) ==
  /\ Receives(g, "login")
  /\ LET i == Head(queue[g]).login IN
     /\ reader[FdOf(i)] = "reading"
     /\ ~Fails(g, FdOf(i))
     /\ login' = [login EXCEPT ![i] =
                    IF conn_player[FdOf(i)] = None THEN "started" ELSE @]
  /\ queue' = Taken(g)
  /\ UNCHANGED <<cvars, gvars, attempt, mvars, agent>>

DataWork(g) ==
  /\ Receives(g, "work")
  /\ LET fd == Head(queue[g]).fd
         p  == conn_player[fd]
     IN  /\ reader[fd] = "reading"
         /\ ~Fails(g, fd)
         /\ queue' = IF p = None \/ agent[players[g][p]] = "gone"
                     THEN Taken(g)
                     ELSE Post(Taken(g), players[g][p],
                               <<[type |-> "client", gate |-> g]>>)
  /\ UNCHANGED <<cvars, gvars, lvars, mvars, agent>>

(* Only a player who is known, away, and names the right key *)
MayReconnect(g, i) ==
  /\ players[g][PlayerOf(i)] = i
  /\ conn[i] = None

DataReconnect(g) ==
  /\ Receives(g, "reconnect")
  /\ LET fd == Head(queue[g]).fd
         i  == Head(queue[g]).key
     IN  /\ reader[fd] = "reading"
         /\ ~Fails(g, fd)
         /\ IF MayReconnect(g, i)
            THEN /\ conn' = [conn EXCEPT ![i] = fd]
                 /\ conn_player' = [conn_player EXCEPT ![fd] = PlayerOf(i)]
                 /\ msg_cache' = [msg_cache EXCEPT ![i] = 0]
            ELSE UNCHANGED <<conn, conn_player, msg_cache>>
  /\ queue' = Taken(g)
  /\ UNCHANGED <<cvars, conns, players, timers, reader, closing,
                 lvars, mvars, agent>>

(* socket.read returns false: disconnect, then close.  conns[fd] stays. *)
Disconnect(g) ==
  /\ Receives(g, "close")
  /\ LET fd == Head(queue[g]).fd
         p  == conn_player[fd]
         i  == players[g][p]
     IN  /\ IF reader[fd] # "reading" \/ ~conns[fd] \/ p = None
            THEN /\ reader' = [reader EXCEPT ![fd] = IF @ = "reading" THEN "done" ELSE @]
                 /\ UNCHANGED <<conn, timers>>
            ELSE IF i = None
            THEN /\ reader' = [reader EXCEPT ![fd] = "dead"]
                 /\ UNCHANGED <<conn, timers>>
            ELSE /\ reader' = [reader EXCEPT ![fd] = "done"]
                 /\ conn' = [conn EXCEPT ![i] = None]
                 /\ timers' = [timers EXCEPT ![i] = @ + 1]
         /\ queue' = Woken(Taken(g), fd)
         /\ closing' = [closing EXCEPT ![fd] = << >>]
  /\ UNCHANGED <<cvars, conns, conn_player, players, msg_cache,
                 lvars, mvars, agent>>

(* The disconnect timer: it looks at the gate_player it was set for. *)
Timeout(i) ==
  /\ timers[i] > 0
  /\ timers' = [timers EXCEPT ![i] = @ - 1]
  /\ queue' = IF conn[i] # None THEN queue
              ELSE Post(queue, AgentMgr,
                        <<[type |-> "req_kick", player |-> PlayerOf(i), by |-> None]>>)
  /\ UNCHANGED <<cvars, conns, conn_player, players, conn, msg_cache, reader,
                 closing, lvars, mvars, agent>>

-----------------------------------------------------------------------------
(* Gateway: requests of other services *)

GateSend(g) ==
  /\ Receives(g, "send")
  /\ LET p == Head(queue[g]).player
         i == players[g][p]
     IN  IF i = None \/ conn[i] # None
         THEN queue' = Taken(g) /\ UNCHANGED msg_cache
         ELSE /\ msg_cache' = [msg_cache EXCEPT ![i] = @ + 1]
              /\ queue' = IF msg_cache[i] + 1 <= CacheLimit THEN Taken(g)
                          ELSE Post(Taken(g), AgentMgr,
                                 <<[type |-> "req_kick", player |-> p, by |-> None]>>)
  /\ UNCHANGED <<cvars, conns, conn_player, players, conn, timers, reader,
                 closing, lvars, mvars, agent>>

SureAgent(g) ==
  /\ Receives(g, "sure_agent")
  /\ LET i  == Head(queue[g]).login
         fd == FdOf(i)
         p  == PlayerOf(i)
     IN  IF conns[fd]
         THEN /\ conn_player' = [conn_player EXCEPT ![fd] = p]
              /\ conn' = [conn EXCEPT ![i] = fd]
              /\ players' = [players EXCEPT ![g][p] = i]
              /\ login' = [login EXCEPT ![i] = "ok"]
              /\ queue' = Taken(g)
         ELSE /\ queue' = Post(Taken(g), AgentMgr,
                            <<[type |-> "req_kick", player |-> p, by |-> i]>>)
              /\ UNCHANGED <<conn_player, conn, players, login>>
  /\ UNCHANGED <<cvars, conns, msg_cache, timers, reader, closing, attempt,
                 mvars, agent>>

(* Mutant: close waits although the end has been seen. *)
AlwaysWaits(g, fd) == TRUE

(* The end of the socket has not been seen yet. *)
Connected(g, fd) ==
  \/ sock[fd] = "open"
  \/ \E k \in DOMAIN queue[g] : queue[g][k] = [type |-> "close", fd |-> fd]

(* One may wait for the end of a socket, in place of the reader when that  *)
(* has gone, and one more for the first: assert(not s.closing).            *)
MayClose(fd) == Len(closing[fd]) < (IF reader[fd] = "reading" THEN 1 ELSE 2)

(* socket.close waits for the end of the socket; a close too many raises   *)
(* an error, which answers the caller at once.                             *)
Kick(g) ==
  /\ Receives(g, "kick")
  /\ LET p  == Head(queue[g]).player
         c  == Head(queue[g]).co
         i  == players[g][p]
         fd == conn[i]
         q  == Post(Taken(g), AgentMgr, Resume(c))
     IN  /\ players' = [players EXCEPT ![g][p] = None]
         /\ IF i = None \/ fd = None
            THEN queue' = q /\ UNCHANGED <<conns, sock, closing>>
            ELSE /\ conns' = [conns EXCEPT ![fd] = FALSE]
                 /\ sock' = [sock EXCEPT ![fd] = "closed"]
                 /\ IF ~Connected(g, fd) \/ ~MayClose(fd)
                    THEN queue' = q /\ UNCHANGED closing
                    ELSE /\ closing' = [closing EXCEPT ![fd] = Append(@, c)]
                         /\ queue' = IF sock[fd] = "closed" THEN Taken(g)
                                     ELSE Post(Taken(g), g, <<[type |-> "close", fd |-> fd]>>)
  /\ UNCHANGED <<port, sent, conn_player, conn, msg_cache, timers, reader,
                 lvars, mvars, agent>>

-----------------------------------------------------------------------------
(* Login services.  Handlers share nothing, so each attempt runs by itself; *)
(* a refused or finished attempt is answered to the client, which changes   *)
(* nothing here.  A wrong password ends there and is left out.              *)

LoginStart(i) ==
  /\ login[i] = "started"
  /\ login' = [login EXCEPT ![i] = "req_login"]
  /\ queue' = Post(queue, AgentMgr, <<[type |-> "req_login", login |-> i]>>)
  /\ UNCHANGED <<cvars, gvars, attempt, mvars, agent>>

LoginGranted(i) ==
  /\ login[i] = "granted"
  /\ login' = [login EXCEPT ![i] = "sure_agent"]
  /\ queue' = Post(queue, GateOf(i), <<[type |-> "sure_agent", login |-> i]>>)
  /\ UNCHANGED <<cvars, gvars, attempt, mvars, agent>>

-----------------------------------------------------------------------------
(* agent_mgr *)

(* A handler takes mgr_player v off: LOGOUT, and a call of the agent's kick. *)
Evict(v, c) ==
  /\ status' = [status EXCEPT ![v] = "LOGOUT"]
  /\ co' = co \cup {c}
  /\ queue' = Post(Taken(AgentMgr), v, <<[type |-> "agent_kick", co |-> c]>>)

(* The rest of req_login once nobody is in the way: a new mgr_player, and a *)
(* call of node_mgr, which answers when the agent has loaded its data.      *)
CreateAgent(i, waiting) ==
  /\ mgr_players' = [mgr_players EXCEPT ![PlayerOf(i)] = i]
  /\ status' = [status EXCEPT ![i] = "LOGIN"]
  /\ agent' = [agent EXCEPT ![i] = "loading"]
  /\ co' = (co \ waiting) \cup
             {[at |-> "new_service", login |-> i, victim |-> None, by |-> None]}
  /\ queue' = Taken(AgentMgr)
  /\ UNCHANGED login

(* Mutant: a player who is on the way in is taken over. *)
LogoutOnly(v) == status[v] = "LOGOUT"

(* No login takes over a player who is on the way in or out. *)
Refused(v) == status[v] \in {"LOGIN", "LOGOUT"}

ReqLogin ==
  /\ Receives(AgentMgr, "req_login")
  /\ LET i == Head(queue[AgentMgr]).login
         v == mgr_players[PlayerOf(i)]
     IN  \/ /\ v = None
            /\ CreateAgent(i, {})
         \/ /\ v # None /\ Refused(v)
            /\ login' = [login EXCEPT ![i] = "fail"]
            /\ queue' = Taken(AgentMgr)
            /\ UNCHANGED <<mvars, agent>>
         \/ /\ v # None /\ ~Refused(v)
            /\ Evict(v, [at |-> "agent_kick", login |-> i, victim |-> v, by |-> None])
            /\ UNCHANGED <<mgr_players, login, agent>>
  /\ UNCHANGED <<cvars, gvars, attempt>>

(* Mutant: sure_agent is not told. *)
NobodyTold(by) == login

(* Whoever called req_kick learns that it is over: sure_agent gives up. *)
Answered(by) == IF by = None THEN login ELSE [login EXCEPT ![by] = "fail"]

(* Mutant: a player on the way in is kicked too. *)
NotLeaving(v) == status[v] # "LOGOUT"

(* Only a player in the game is kicked. *)
MayKick(v) == status[v] = "GAME"

ReqKick ==
  /\ Receives(AgentMgr, "req_kick")
  /\ LET m == Head(queue[AgentMgr])
         v == mgr_players[m.player]
     IN  IF v # None /\ MayKick(v)
         THEN /\ Evict(v, [at |-> "agent_kick", login |-> None, victim |-> v, by |-> m.by])
              /\ UNCHANGED login
         ELSE /\ login' = Answered(m.by)
              /\ queue' = Taken(AgentMgr)
              /\ UNCHANGED <<status, co>>
  /\ UNCHANGED <<cvars, gvars, attempt, mgr_players, agent>>

Resumes(at) ==
  /\ Receives(AgentMgr, "resume")
  /\ Head(queue[AgentMgr]).co \in co
  /\ Head(queue[AgentMgr]).co.at = at

(* The gateway a take-over tells is the one of the new login. *)
GateToTell(c) == GateOf(c.login)

(* req_login, after the agent has saved *)
TakeOver ==
  /\ Resumes("agent_kick")
  /\ LET c == Head(queue[AgentMgr]).co
         d == [c EXCEPT !.at = "gate_kick"]
         p == PlayerOf(c.login)
     IN  /\ c.login # None
         /\ co' = (co \ {c}) \cup {d}
         /\ queue' = Post(Post(Taken(AgentMgr), c.victim, <<[type |-> "exit"]>>),
                          GateToTell(c),
                          <<[type |-> "send", player |-> p],
                            [type |-> "kick", player |-> p, co |-> d]>>)
  /\ UNCHANGED <<cvars, gvars, lvars, mgr_players, status, agent>>

(* req_login, after the gateway has closed the connection *)
TakenOver ==
  /\ Resumes("gate_kick")
  /\ LET c == Head(queue[AgentMgr]).co IN CreateAgent(c.login, {c})
  /\ UNCHANGED <<cvars, gvars, attempt>>

(* req_kick, after the agent has saved *)
KickOff ==
  /\ Resumes("agent_kick")
  /\ LET c == Head(queue[AgentMgr]).co
         p == PlayerOf(c.victim)
     IN  /\ c.login = None
         /\ co' = co \ {c}
         /\ mgr_players' = [mgr_players EXCEPT ![p] = None]
         /\ login' = Answered(c.by)
         /\ queue' = Post(Post(Taken(AgentMgr), c.victim, <<[type |-> "exit"]>>),
                          GateOf(c.victim),
                          <<[type |-> "kick", player |-> p, co |-> None]>>)
  /\ UNCHANGED <<cvars, gvars, attempt, status, agent>>

(* req_login, after node_mgr has answered *)
EnterGame ==
  /\ Resumes("new_service")
  /\ LET c == Head(queue[AgentMgr]).co
     IN  /\ status' = [status EXCEPT ![c.login] = "GAME"]
         /\ login' = [login EXCEPT ![c.login] = "granted"]
         /\ co' = co \ {c}
  /\ queue' = Taken(AgentMgr)
  /\ UNCHANGED <<cvars, gvars, attempt, mgr_players, agent>>

-----------------------------------------------------------------------------
(* Agents.  Loading and saving are sleeps of the code; what an agent does   *)
(* in a scene is not in this module.                                        *)

AgentLoaded(i) ==
  /\ agent[i] = "loading"
  /\ agent' = [agent EXCEPT ![i] = "running"]
  /\ \E c \in co : /\ c.at = "new_service" /\ c.login = i
                   /\ queue' = Post(queue, AgentMgr, Resume(c))
  /\ UNCHANGED <<cvars, gvars, lvars, mvars>>

AgentClient(i) ==
  /\ agent[i] \in {"running", "saving", "saved"}
  /\ Receives(i, "client")
  /\ queue' = Post(Taken(i), Head(queue[i]).gate,
                   <<[type |-> "send", player |-> PlayerOf(i)]>>)
  /\ UNCHANGED <<cvars, gvars, lvars, mvars, agent>>

(* Mutant: kick answers and saves afterwards. *)
AnswersFirst(i) ==
  /\ agent[i] = "running"
  /\ Receives(i, "agent_kick")
  /\ agent' = [agent EXCEPT ![i] = "saving"]
  /\ queue' = Post(Taken(i), AgentMgr, Resume(Head(queue[i]).co))
  /\ UNCHANGED <<cvars, gvars, lvars, mvars>>

AgentKick(i) ==
  /\ agent[i] = "running"
  /\ Receives(i, "agent_kick")
  /\ agent' = [agent EXCEPT ![i] = "saving"]
  /\ queue' = Taken(i)
  /\ UNCHANGED <<cvars, gvars, lvars, mvars>>

AgentSaved(i) ==
  /\ agent[i] = "saving"
  /\ agent' = [agent EXCEPT ![i] = "saved"]
  /\ \E c \in co : /\ c.at = "agent_kick" /\ c.victim = i
                   /\ queue' = Post(queue, AgentMgr, Resume(c))
  /\ UNCHANGED <<cvars, gvars, lvars, mvars>>

AgentExit(i) ==
  /\ agent[i] \in {"running", "saving", "saved"}
  /\ Receives(i, "exit")
  /\ agent' = [agent EXCEPT ![i] = "gone"]
  /\ queue' = [queue EXCEPT ![i] = << >>]
  /\ UNCHANGED <<cvars, gvars, lvars, mvars>>

-----------------------------------------------------------------------------
ClientStep ==
  \E fd \in Fd :
    \/ \E g \in Gate : Connect(fd, g)
    \/ \E p \in Player : ClientLogin(fd, p)
    \/ \E i \in Attempt : ClientReconnect(fd, i)
    \/ ClientWork(fd) \/ ClientClose(fd)

GateStep(g) ==
  \/ DataUnread(g) \/ DataFails(g) \/ DataLogin(g) \/ DataWork(g)
  \/ DataReconnect(g) \/ Disconnect(g) \/ GateSend(g) \/ SureAgent(g) \/ Kick(g)

LoginStep(i) == LoginStart(i) \/ LoginGranted(i)

MgrStep == ReqLogin \/ ReqKick \/ TakeOver \/ TakenOver \/ KickOff \/ EnterGame

AgentStep(i) ==
  AgentLoaded(i) \/ AgentClient(i) \/ AgentKick(i) \/ AgentSaved(i) \/ AgentExit(i)

Next ==
  \/ ClientStep
  \/ \E g \in Gate : GateStep(g)
  \/ \E i \in Attempt : LoginStep(i) \/ AgentStep(i) \/ Timeout(i)
  \/ MgrStep

Spec == Init /\ [][Next]_vars

(* Services run; clients and the five minutes of a timer owe nothing. *)
Fairness ==
  /\ \A g \in Gate : WF_vars(GateStep(g))
  /\ \A i \in Attempt : WF_vars(LoginStep(i)) /\ WF_vars(AgentStep(i))
  /\ WF_vars(MgrStep)

FairSpec == Spec /\ Fairness

-----------------------------------------------------------------------------
(* A player's data is loaded only when no other agent of the player has    *)
(* data it has not saved (agent_mgr calls kick and waits before it creates *)
(* the next agent, and refuses logins meanwhile).                          *)
HasData(i) == agent[i] \in {"loading", "running", "saving"}

SavedBeforeLoad ==
  \A i, j \in Attempt :
    i # j /\ HasData(i) /\ HasData(j) => PlayerOf(i) # PlayerOf(j)

(* Handlers of agent_mgr and the table agree across their waits: a player  *)
(* on the way in or out has exactly one handler that will take it there,   *)
(* and a handler that waits still finds its own mgr_player in the table,   *)
(* so players[player_id] = nil never removes another login's.              *)
Attends(c, i) ==
  IF status[i] = "LOGIN" THEN c.at = "new_service" /\ c.login = i
                         ELSE c.at # "new_service" /\ c.victim = i

StatusAttended ==
  /\ \A p \in Player : LET i == mgr_players[p] IN
       i # None /\ status[i] # "GAME" =>
         Cardinality({c \in co : Attends(c, i)}) = 1
  /\ \A c \in co : LET i == IF c.at = "new_service" THEN c.login ELSE c.victim IN
       mgr_players[PlayerOf(i)] = i /\ Attends(c, i)

(* A player in status GAME has a running agent that nobody has told to     *)
(* stop, and every kick finds its agent there to answer.                   *)
GameHasAgent ==
  /\ \A p \in Player : LET i == mgr_players[p] IN
       i # None /\ status[i] = "GAME" =>
         /\ agent[i] = "running"
         /\ \A k \in DOMAIN queue[i] : queue[i][k].type = "client"
  /\ \A c \in co : c.at = "agent_kick" => agent[c.victim] \notin {"none", "loading", "gone"}

(* A handler that waits has its answer under way: at the agent, at the      *)
(* gateway, at a connection that still has an end to report, or in the      *)
(* queue of agent_mgr.  No two services wait for each other for ever.       *)
InQueue(s, m) == \E k \in DOMAIN queue[s] : queue[s][k] = m

AnswerComes ==
  \A c \in co :
    \/ InQueue(AgentMgr, [type |-> "resume", co |-> c])
    \/ /\ c.at = "new_service"
       /\ agent[c.login] = "loading"
    \/ /\ c.at = "agent_kick"
       /\ \/ InQueue(c.victim, [type |-> "agent_kick", co |-> c])
          \/ agent[c.victim] = "saving"
    \/ /\ c.at = "gate_kick"
       /\ \E g \in Gate :
            \/ InQueue(g, [type |-> "kick", player |-> PlayerOf(c.login), co |-> c])
            \/ \E fd \in Fd : /\ \E k \in DOMAIN closing[fd] : closing[fd][k] = c
                              /\ InQueue(g, [type |-> "close", fd |-> fd])

(* Every login that reached a login service is answered (as many as         *)
(* MaxLogin are ever made), though gateways, agent_mgr and agents wait for  *)
(* each other in turn.                                                      *)
NonePending == \A i \in Attempt : login[i] \in {"none", "ok", "fail"}
LoginAnswered == ~NonePending ~> NonePending

(* gateway/init.lua:152: the disconnect timer asks for a log-out if the     *)
(* player is still away after its five minutes.                             *)
Online(g, p) ==
  LET i == players[g][p]
  IN  i # None /\ conn[i] # None /\ sock[conn[i]] = "open"

TimerKicksTheAway ==
  [][\A i \in Attempt :
       timers'[i] < timers[i] /\ queue' # queue =>
         \A g \in Gate : ~Online(g, PlayerOf(i))]_vars

(* agent_mgr/init.lua:25: a player who is online is kicked before the new   *)
(* login takes its place: no two clients have been told they play it.       *)
OneClient ==
  \A p \in Player, g, h \in Gate :
    g # h /\ Online(g, p) /\ Online(h, p) =>
      \E i \in Attempt : attempt[i] # None /\ PlayerOf(i) = p
                           /\ login[i] \notin {"none", "ok", "fail"}
=============================================================================
