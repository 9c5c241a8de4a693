------------------------------ MODULE SunnetNet ------------------------------
(***************************************************************************)
(* The connection table of chapters 06 and 07: the socket thread accepts   *)
(* clients and turns epoll events into messages, the chat service reads    *)
(* and closes (one message at a time, as SunnetScheduler shows), and both  *)
(* meet in Sunnet::conns, in epoll and in the numbers of the descriptors,  *)
(* which the kernel gives out again as soon as they are closed.            *)
(*                                                                         *)
(* The kernel and the clients are external.  Output is left to ConnWriter: *)
(* no script of the repository arms EPOLLOUT, so events are readable ones. *)
(***************************************************************************)
EXTENDS Integers, Sequences, FiniteSets, SequencesExt

CONSTANTS Client,    \* numbered in the order they connect, each once
          NetWorker,    \* the worker threads; each has its own errno
          Fd,        \* the descriptors accept gives out, lowest first
          Blocks,    \* bound on the blocks of data each client sends
          NoFd

ASSUME FdAssumption == Fd \subseteq Nat /\ IsFiniteSet(Fd) /\ NoFd \notin Fd
ASSUME ClientAssumption == Client \subseteq Nat /\ NoFd \notin Client
ASSUME WorkerAssumption == NoFd \notin NetWorker
ASSUME BlocksAssumption == Blocks \in Nat

VARIABLES
  conns,      \* descriptors in Sunnet::conns
  known,      \* those in Service::writers, and in the conns of the script
  mailbox,    \* the service's messages: [type, fd]
  spc, sfd,   \* where the service is in OnRWMsg, and for which descriptor
  by,         \* the worker it runs on
  errno,      \* errno[w] after the last failed call of w: "EAGAIN" or another
  tpc, tfd,   \* where the socket thread is, and what it just accepted
  events,     \* what it got from epoll_wait and has still to look at
  file,       \* kernel: the client at each descriptor, or NoFd
  armed,      \* kernel: descriptors registered with epoll
  ready,      \* kernel: those on the ready list; ListenFd is the listening one
  backlog,    \* kernel: clients connected and not accepted
  unread,     \* kernel: blocks of each client not read yet
  sends,      \* blocks each client may still send
  client,     \* "new", "up" or "ended" (no more input from it)
  due         \* history: due[f] is AddConn's calls minus OnSocketClose's

ListenFd == 0

netsvars == <<known, spc, sfd, by, errno>>
nettvars == <<tpc, tfd, events>>
kvars == <<file, armed, ready, backlog>>
cvars == <<unread, sends, client>>
netvars  == <<conns, due, mailbox, netsvars, nettvars, kvars, cvars>>

Message == [type : {"accept", "rw"}, fd : Fd]

(* The chat service has opened its port. *)
NetInit ==
  /\ conns = {} /\ due = [f \in Fd |-> 0] /\ known = {} /\ mailbox = << >>
  /\ spc = "idle" /\ sfd = NoFd /\ by = NoFd
  /\ errno = [w \in NetWorker |-> "other"]
  /\ tpc = "wait" /\ tfd = NoFd /\ events = {}
  /\ file = [f \in Fd |-> NoFd] /\ armed = {} /\ ready = {} /\ backlog = << >>
  /\ unread = [c \in Client |-> 0] /\ sends = [c \in Client |-> Blocks]
  /\ client = [c \in Client |-> "new"]

-----------------------------------------------------------------------------
(* Clients, and what the kernel does for them *)

Signal(c) == ready' = ready \cup {f \in armed : file[f] = c}

Connect(c) ==
  /\ client[c] = "new" /\ \A d \in Client : d < c => client[d] # "new"
  /\ client' = [client EXCEPT ![c] = "up"]
  /\ backlog' = Append(backlog, c)
  /\ ready' = ready \cup {ListenFd}
  /\ UNCHANGED <<conns, due, mailbox, netsvars, nettvars, file, armed, unread, sends>>

ClientSends(c) ==
  /\ client[c] = "up" /\ sends[c] > 0
  /\ sends' = [sends EXCEPT ![c] = @ - 1]
  /\ unread' = [unread EXCEPT ![c] = @ + 1]
  /\ Signal(c)
  /\ UNCHANGED <<conns, due, mailbox, netsvars, nettvars, file, armed, backlog, client>>

ClientEnds(c) ==
  /\ client[c] = "up"
  /\ client' = [client EXCEPT ![c] = "ended"]
  /\ Signal(c)
  /\ UNCHANGED <<conns, due, mailbox, netsvars, nettvars, file, armed, backlog, unread, sends>>

HasInput(f) == file[f] # NoFd /\ (unread[file[f]] > 0 \/ client[file[f]] = "ended")

-----------------------------------------------------------------------------
(* SocketWorker *)

Poller(label) == tpc' = label

(* epoll_wait returns a batch; what is in it is looked at one by one, in   *)
(* whatever order.                                                         *)
EpollWait ==
  /\ tpc = "wait" /\ events = {} /\ ready # {}
  /\ events' = {f \in ready : IF f = ListenFd THEN backlog # << >> ELSE HasInput(f)}
  /\ ready' = {}
  /\ UNCHANGED <<conns, due, mailbox, netsvars, tpc, tfd, file, armed, backlog, cvars>>

(* One accept per event of the listening socket. *)
Accept ==
  /\ tpc = "wait" /\ ListenFd \in events
  /\ backlog # << >> /\ \E f \in Fd : file[f] = NoFd
  /\ events' = events \ {ListenFd}
  /\ tfd' = CHOOSE f \in Fd : file[f] = NoFd /\ \A g \in Fd : file[g] = NoFd => f <= g
  /\ file' = [file EXCEPT ![tfd'] = Head(backlog)]
  /\ backlog' = Tail(backlog)
  /\ Poller("AddConn")
  /\ UNCHANGED <<conns, due, mailbox, netsvars, armed, ready, cvars>>

(* accept fails when no descriptor is left; the client stays in the backlog. *)
AcceptFails ==
  /\ tpc = "wait" /\ ListenFd \in events
  /\ \A f \in Fd : file[f] # NoFd
  /\ events' = events \ {ListenFd}
  /\ UNCHANGED <<conns, due, mailbox, netsvars, tpc, tfd, kvars, cvars>>

AddConn ==
  /\ tpc = "AddConn" /\ Poller("AddEvent")
  /\ conns' = conns \cup {tfd}
  /\ due' = [due EXCEPT ![tfd] = @ + 1]
  /\ UNCHANGED <<mailbox, netsvars, tfd, events, kvars, cvars>>

AddEvent ==
  /\ tpc = "AddEvent" /\ Poller("Send")
  /\ armed' = armed \cup {tfd}
  /\ ready' = IF HasInput(tfd) THEN ready \cup {tfd} ELSE ready
  /\ UNCHANGED <<conns, due, mailbox, netsvars, tfd, events, file, backlog, cvars>>

(* Mutant: the message names the listening descriptor. *)
SendsListen ==
  /\ tpc = "Send" /\ Poller("wait")
  /\ mailbox' = Append(mailbox, [type |-> "accept", fd |-> ListenFd])
  /\ tfd' = NoFd
  /\ UNCHANGED <<conns, due, netsvars, events, kvars, cvars>>

SendAccept ==
  /\ tpc = "Send" /\ Poller("wait")
  /\ mailbox' = Append(mailbox, [type |-> "accept", fd |-> tfd])
  /\ tfd' = NoFd
  /\ UNCHANGED <<conns, due, netsvars, events, kvars, cvars>>

(* OnEvent, OnRW: the event is of no use without a Conn. *)
OnEvent(f) ==
  /\ tpc = "wait" /\ f \in events \ {ListenFd}
  /\ events' = events \ {f}
  /\ mailbox' = IF f \in conns
                THEN Append(mailbox, [type |-> "rw", fd |-> f])
                ELSE mailbox
  /\ UNCHANGED <<conns, due, netsvars, tpc, tfd, kvars, cvars>>

-----------------------------------------------------------------------------
(* Service and CloseConn *)

Service(label) == spc' = label

(* writers.emplace and the script's OnAcceptMsg *)
OnAcceptMsg ==
  /\ spc = "idle" /\ mailbox # << >> /\ Head(mailbox).type = "accept"
  /\ known' = known \cup {Head(mailbox).fd}
  /\ mailbox' = Tail(mailbox)
  /\ UNCHANGED <<conns, due, spc, sfd, by, errno, nettvars, kvars, cvars>>

OnRWMsg(w) ==
  /\ spc = "idle" /\ mailbox # << >> /\ Head(mailbox).type = "rw"
  /\ sfd' = Head(mailbox).fd
  /\ mailbox' = Tail(mailbox)
  /\ Service("read") /\ by' = w
  /\ UNCHANGED <<conns, due, known, errno, nettvars, kvars, cvars>>

Finish == Service("idle") /\ sfd' = NoFd /\ by' = NoFd

(* OnSocketData; read is called again after a full block. *)
ReadData ==
  /\ spc = "read" /\ file[sfd] # NoFd
  /\ \E left \in 0 .. unread[file[sfd]] - 1, full \in BOOLEAN :
       /\ left > 0 => full
       /\ unread' = [unread EXCEPT ![file[sfd]] = left]
       /\ IF full THEN UNCHANGED <<spc, sfd, by>> ELSE Finish
  /\ UNCHANGED <<conns, due, mailbox, known, errno, nettvars, kvars, sends, client>>

(* read returns -1, or 0 with errno as it was.  What looks like EAGAIN is  *)
(* not taken for the end.                                                  *)
ReadFails ==
  /\ spc = "read"
  /\ file[sfd] # NoFd => unread[file[sfd]] = 0
  /\ LET e == IF file[sfd] = NoFd THEN "other"
              ELSE IF client[file[sfd]] = "up" THEN "EAGAIN" ELSE errno[by]
     IN  /\ errno' = [errno EXCEPT ![by] = e]
         /\ IF e = "EAGAIN" THEN Finish ELSE Service("GetConn") /\ UNCHANGED <<sfd, by>>
  /\ UNCHANGED <<conns, due, mailbox, known, nettvars, kvars, cvars>>

(* Mutant: GetConn is not asked. *)
GetConnSkipped ==
  /\ spc = "GetConn" /\ Service("OnSocketClose")
  /\ UNCHANGED <<conns, due, mailbox, known, sfd, by, errno, nettvars, kvars, cvars>>

GetConn ==
  /\ spc = "GetConn"
  /\ IF sfd \in conns THEN Service("OnSocketClose") /\ UNCHANGED <<sfd, by>> ELSE Finish
  /\ UNCHANGED <<conns, due, mailbox, known, errno, nettvars, kvars, cvars>>

(* Mutant: the descriptor is closed before its Conn is removed. *)
CloseFirst == <<"close", "RemoveConn", "RemoveEvent">>

(* The order of CloseConn's steps.  RemoveConn finds the Conn, since only  *)
(* the service removes it, so RemoveEvent is always called.                *)
CloseConn == <<"RemoveConn", "close", "RemoveEvent">>

At(i) == spc = CloseConn[i]
Then(i) == IF i = 3 THEN Finish ELSE Service(CloseConn[i + 1]) /\ UNCHANGED <<sfd, by>>

(* writers.erase and the script's OnSocketClose *)
OnSocketClose ==
  /\ spc = "OnSocketClose" /\ Service(CloseConn[1])
  /\ known' = known \ {sfd}
  /\ due' = [due EXCEPT ![sfd] = @ - 1]
  /\ UNCHANGED <<conns, mailbox, sfd, by, errno, nettvars, kvars, cvars>>

RemoveConn ==
  /\ spc = "RemoveConn" /\ \E i \in 1 .. 3 : At(i) /\ Then(i)
  /\ conns' = conns \ {sfd}
  /\ UNCHANGED <<due, mailbox, known, errno, nettvars, kvars, cvars>>

(* close(fd) also takes the socket out of epoll. *)
CloseFd ==
  /\ spc = "close" /\ \E i \in 1 .. 3 : At(i) /\ Then(i)
  /\ file' = [file EXCEPT ![sfd] = NoFd]
  /\ armed' = armed \ {sfd} /\ ready' = ready \ {sfd}
  /\ UNCHANGED <<conns, due, mailbox, known, errno, nettvars, backlog, cvars>>

(* epoll_ctl(EPOLL_CTL_DEL): the number may be another client's by now. *)
RemoveEvent ==
  /\ spc = "RemoveEvent" /\ Then(3)
  /\ armed' = armed \ {sfd} /\ ready' = ready \ {sfd}
  /\ UNCHANGED <<conns, due, mailbox, known, errno, nettvars, file, backlog, cvars>>

-----------------------------------------------------------------------------
Clients == \E c \in Client : Connect(c) \/ ClientSends(c) \/ ClientEnds(c)
SocketThread ==
  \/ EpollWait \/ Accept \/ AcceptFails \/ AddConn \/ AddEvent \/ SendAccept
  \/ \E f \in Fd : OnEvent(f)
ChatService ==
  \/ OnAcceptMsg \/ (\E w \in NetWorker : OnRWMsg(w)) \/ ReadData \/ ReadFails
  \/ GetConn \/ OnSocketClose \/ RemoveConn \/ CloseFd \/ RemoveEvent

NetNext == Clients \/ SocketThread \/ ChatService

NetSpec == NetInit /\ [][NetNext]_netvars

-----------------------------------------------------------------------------
NetTypeOK ==
  /\ {conns, known, armed} \subseteq SUBSET Fd
  /\ ready \subseteq Fd \cup {ListenFd} /\ events \subseteq Fd \cup {ListenFd}
  /\ mailbox \in Seq(Message)
  /\ spc \in {"idle", "read", "GetConn", "OnSocketClose"} \cup ToSet(CloseConn)
  /\ (sfd = NoFd <=> spc = "idle") /\ (by = NoFd <=> spc = "idle")
  /\ sfd \in Fd \cup {NoFd} /\ by \in NetWorker \cup {NoFd}
  /\ errno \in [NetWorker -> {"EAGAIN", "other"}]
  /\ tpc \in {"wait", "AddConn", "AddEvent", "Send"}
  /\ tfd \in Fd \cup {NoFd} /\ (tfd = NoFd <=> tpc = "wait")
  /\ file \in [Fd -> Client \cup {NoFd}] /\ backlog \in Seq(Client)
  /\ unread \in [Client -> 0 .. Blocks] /\ sends \in [Client -> 0 .. Blocks]
  /\ client \in [Client -> {"new", "up", "ended"}]
  /\ due \in [Fd -> Int]

(* The table names open descriptors only, and every open one but those     *)
(* just accepted or about to be closed: since CloseConn removes the Conn   *)
(* before it gives the number back, a client that gets the number at once  *)
(* never finds a Conn there, nor loses its own.                            *)
ConnMeansOpen ==
  \A f \in Fd :
    /\ f \in conns => file[f] # NoFd
    /\ file[f] # NoFd => \/ f \in conns
                         \/ tpc = "AddConn" /\ tfd = f
                         \/ spc = "close" /\ sfd = f

(* OnSocketClose is called once for each connection (Service.cpp:126, "保证  *)
(* OnSocketClose只调用一次"), whatever events are left in the mailbox when   *)
(* it is closed and its number is given to another client.                 *)
ClosedOnce == \A f \in Fd : due[f] \in {0, 1}

(* A connection in the table is registered with epoll once the socket      *)
(* thread has added it (SocketWorker.cpp:91).                              *)
Registered ==
  \A f \in conns : f \in armed \/ (tpc = "AddEvent" /\ tfd = f)
=============================================================================
