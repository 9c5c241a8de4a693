-------------------------- MODULE SunnetNetProofs --------------------------
(***************************************************************************)
(* Proofs about SunnetNet, for any set of clients, workers and             *)
(* descriptors and any number of blocks: the table of connections and the  *)
(* numbers of the kernel never disagree.                                   *)
(***************************************************************************)
EXTENDS SunnetNet, WellFoundedInduction, TLAPS

-----------------------------------------------------------------------------
(* The inductive invariants *)

(* A client sends no more blocks than it has. *)
SendsInv == \A c \in Client : unread[c] + sends[c] <= Blocks

(* What accept returned stays an open descriptor without a Conn, which the *)
(* service is not closing, until AddConn.                                  *)
AddInv ==
  tpc = "AddConn" => /\ file[tfd] # NoFd /\ tfd \notin conns
                     /\ ~(spc = "close" /\ sfd = tfd)

(* The service closes a connection it has found, and the number is not     *)
(* given out before close.                                                 *)
CloseInv ==
  /\ spc \in {"OnSocketClose", "RemoveConn"} => sfd \in conns
  /\ spc = "close" => file[sfd] # NoFd /\ sfd \notin conns

(* OnSocketClose is due for the connections of the table, but for the one  *)
(* for which it was just called.                                           *)
Closing(f) == spc = "RemoveConn" /\ sfd = f
DueInv == \A f \in Fd : due[f] = IF f \in conns /\ ~Closing(f) THEN 1 ELSE 0

-----------------------------------------------------------------------------
(* Lemmas about the operators *)

(* A set of numbers that is not empty has a least member. *)
LEMMA Least ==
  ASSUME NEW S, S \subseteq Nat, S # {}
  PROVE  \E f \in S : \A g \in S : f <= g
<1>1. PICK f \in S : \A g \in S : <<g, f>> \notin OpToRel(<, Nat)
  BY NatLessThanWellFounded, WFMin
<1>2. ASSUME NEW g \in S PROVE f <= g
  <2>1. f \in Nat /\ g \in Nat
    OBVIOUS
  <2>2. g < f => <<g, f>> \in OpToRel(<, Nat)
    BY <2>1 DEF OpToRel
  <2>3. ~(g < f)
    BY <1>1, <2>2, Zenon
  <2> QED
    BY <2>1, <2>3
<1> QED
  BY <1>2

(* accept takes a descriptor that is free. *)
LEMMA AcceptTakesFree ==
  ASSUME NetTypeOK, Accept
  PROVE  /\ tfd' \in Fd /\ file[tfd'] = NoFd /\ Head(backlog) \in Client
         /\ file' = [file EXCEPT ![tfd'] = Head(backlog)]
<1> DEFINE Free == {f \in Fd : file[f] = NoFd}
<1>1. Free \subseteq Nat /\ Free # {}
  BY FdAssumption DEF Accept
<1>2. \E f \in Free : \A g \in Free : f <= g
  BY <1>1, Least
<1>3. \E f \in Fd : file[f] = NoFd /\ \A g \in Fd : file[g] = NoFd => f <= g
  BY <1>2
<1>4. tfd' = CHOOSE f \in Fd : file[f] = NoFd /\ \A g \in Fd : file[g] = NoFd => f <= g
  BY DEF Accept
<1>5. tfd' \in Fd /\ file[tfd'] = NoFd
  BY <1>3, <1>4
<1>6. backlog \in Seq(Client) /\ backlog # << >>
  BY DEF NetTypeOK, Accept
<1>7. Head(backlog) \in Client
  BY <1>6
<1> QED
  BY <1>5, <1>7 DEF Accept

(* Where CloseConn's steps start and lead. *)
LEMMA CloseConnSteps ==
  /\ CloseConn[1] = "RemoveConn" /\ ToSet(CloseConn) = {"RemoveConn", "close", "RemoveEvent"}
  /\ RemoveConn => spc' = "close" /\ UNCHANGED <<sfd, by>>
  /\ CloseFd => spc' = "RemoveEvent" /\ UNCHANGED <<sfd, by>>
  /\ RemoveEvent => spc' = "idle" /\ sfd' = NoFd /\ by' = NoFd
<1>1. /\ CloseConn[1] = "RemoveConn" /\ CloseConn[2] = "close" /\ CloseConn[3] = "RemoveEvent"
      /\ DOMAIN CloseConn = 1 .. 3
  BY DEF CloseConn
<1>2. ToSet(CloseConn) = {"RemoveConn", "close", "RemoveEvent"}
  <2>1. 1 .. 3 = {1, 2, 3}
    OBVIOUS
  <2> QED
    BY <1>1, <2>1 DEF ToSet
<1>3. ASSUME RemoveConn PROVE spc' = "close" /\ UNCHANGED <<sfd, by>>
  <2>1. PICK i \in 1 .. 3 : spc = CloseConn[i] /\ Then(i)
    BY <1>3 DEF RemoveConn, At
  <2>2. spc = "RemoveConn"
    BY <1>3 DEF RemoveConn
  <2>3. i = 1
    <3>1. i \in {1, 2, 3}
      OBVIOUS
    <3> QED
      BY <3>1, <2>1, <2>2, <1>1
  <2>4. Then(1)
    BY <2>1, <2>3
  <2> QED
    BY <2>4, <1>1 DEF Then, Service
<1>4. ASSUME CloseFd PROVE spc' = "RemoveEvent" /\ UNCHANGED <<sfd, by>>
  <2>1. PICK i \in 1 .. 3 : spc = CloseConn[i] /\ Then(i)
    BY <1>4 DEF CloseFd, At
  <2>2. spc = "close"
    BY <1>4 DEF CloseFd
  <2>3. i = 2
    <3>1. i \in {1, 2, 3}
      OBVIOUS
    <3> QED
      BY <3>1, <2>1, <2>2, <1>1
  <2>4. Then(2)
    BY <2>1, <2>3
  <2> QED
    BY <2>4, <1>1 DEF Then, Service
<1>5. RemoveEvent => spc' = "idle" /\ sfd' = NoFd /\ by' = NoFd
  BY DEF RemoveEvent, Then, Finish, Service
<1> QED
  BY <1>1, <1>2, <1>3, <1>4, <1>5

-----------------------------------------------------------------------------
(* Types *)

LEMMA NetTypeInit == NetInit => NetTypeOK /\ SendsInv
BY FdAssumption, WorkerAssumption, BlocksAssumption, CloseConnSteps
   DEF NetInit, NetTypeOK, SendsInv, Message

LEMMA NetTypeClients ==
  NetTypeOK /\ SendsInv /\ Clients => NetTypeOK' /\ SendsInv'
<1> SUFFICES ASSUME NetTypeOK, SendsInv, NEW c \in Client,
                    Connect(c) \/ ClientSends(c) \/ ClientEnds(c)
             PROVE  NetTypeOK' /\ SendsInv'
  BY DEF Clients
<1> USE BlocksAssumption DEF netsvars, nettvars, Signal, NetTypeOK, SendsInv
<1>1. CASE Connect(c)
  BY <1>1 DEF Connect
<1>2. CASE ClientSends(c)
  BY <1>2 DEF ClientSends
<1>3. CASE ClientEnds(c)
  BY <1>3 DEF ClientEnds
<1> QED
  BY <1>1, <1>2, <1>3

LEMMA NetTypeSocketThread ==
  NetTypeOK /\ SendsInv /\ SocketThread => NetTypeOK' /\ SendsInv'
<1> SUFFICES ASSUME NetTypeOK, SendsInv, SocketThread PROVE NetTypeOK' /\ SendsInv'
  OBVIOUS
<1> USE FdAssumption DEF netsvars, nettvars, kvars, cvars, Poller, NetTypeOK, SendsInv
<1>1. CASE EpollWait
  BY <1>1 DEF EpollWait
<1>2. CASE Accept
  <2>1. /\ tfd' \in Fd /\ file' \in [Fd -> Client \cup {NoFd}]
    BY <1>2, AcceptTakesFree
  <2>2. Tail(backlog) \in Seq(Client)
    BY <1>2 DEF Accept
  <2> QED
    BY <1>2, <2>1, <2>2 DEF Accept
<1>3. CASE AcceptFails
  BY <1>3 DEF AcceptFails
<1>4. CASE AddConn
  BY <1>4 DEF AddConn
<1>5. CASE AddEvent
  BY <1>5 DEF AddEvent
<1>6. CASE SendAccept
  <2>1. [type |-> "accept", fd |-> tfd] \in Message
    BY <1>6 DEF SendAccept, Message
  <2>2. Append(mailbox, [type |-> "accept", fd |-> tfd]) \in Seq(Message)
    BY <2>1
  <2> QED
    BY <1>6, <2>2 DEF SendAccept
<1>7. ASSUME NEW f \in Fd, OnEvent(f) PROVE NetTypeOK' /\ SendsInv'
  <2>1. [type |-> "rw", fd |-> f] \in Message
    BY DEF Message
  <2>2. Append(mailbox, [type |-> "rw", fd |-> f]) \in Seq(Message)
    BY <2>1
  <2> QED
    BY <1>7, <2>2 DEF OnEvent
<1> QED
  BY <1>1, <1>2, <1>3, <1>4, <1>5, <1>6, <1>7 DEF SocketThread

LEMMA NetTypeService ==
  NetTypeOK /\ SendsInv /\ ChatService => NetTypeOK' /\ SendsInv'
<1> SUFFICES ASSUME NetTypeOK, SendsInv, ChatService PROVE NetTypeOK' /\ SendsInv'
  OBVIOUS
<1> USE FdAssumption, ClientAssumption, WorkerAssumption, CloseConnSteps
    DEF netsvars, nettvars, kvars, cvars, Service, Finish, NetTypeOK, SendsInv
<1>0. mailbox # << >> => /\ Head(mailbox).fd \in Fd /\ Tail(mailbox) \in Seq(Message)
  <2> SUFFICES ASSUME mailbox # << >> PROVE Head(mailbox) \in Message /\ Tail(mailbox) \in Seq(Message)
    BY DEF Message
  <2> QED
    OBVIOUS
<1>1. CASE OnAcceptMsg
  BY <1>0, <1>1 DEF OnAcceptMsg
<1>2. ASSUME NEW w \in NetWorker, OnRWMsg(w) PROVE NetTypeOK' /\ SendsInv'
  BY <1>0, <1>2 DEF OnRWMsg
<1>3. CASE ReadData
  <2> DEFINE c == file[sfd]
  <2>1. c \in Client /\ sfd \in Fd
    BY <1>3 DEF ReadData
  <2>2. PICK left \in 0 .. unread[c] - 1, full \in BOOLEAN :
          /\ unread' = [unread EXCEPT ![c] = left]
          /\ IF full THEN UNCHANGED <<spc, sfd, by>> ELSE Finish
    BY <1>3 DEF ReadData
  <2>3. left \in Nat /\ left < unread[c] /\ left \in 0 .. Blocks
    <3>1. unread[c] \in 0 .. Blocks
      BY <2>1
    <3> HIDE DEF c
    <3> QED
      BY <3>1, <2>2, BlocksAssumption
  <2>4. UNCHANGED <<conns, due, mailbox, known, errno, nettvars, kvars, sends, client>>
    BY <1>3 DEF ReadData
  <2> HIDE DEF c
  <2>5. unread' \in [Client -> 0 .. Blocks] /\ \A d \in Client : unread'[d] <= unread[d]
    BY <2>1, <2>2, <2>3, BlocksAssumption
  <2>6. SendsInv'
    BY <2>4, <2>5, BlocksAssumption
  <2>7. /\ spc' \in {"idle", "read"} /\ (sfd' = NoFd <=> spc' = "idle")
        /\ (by' = NoFd <=> spc' = "idle")
        /\ sfd' \in Fd \cup {NoFd} /\ by' \in NetWorker \cup {NoFd}
    BY <1>3, <2>2 DEF ReadData
  <2> QED
    BY <2>4, <2>5, <2>6, <2>7
<1>4. CASE ReadFails
  BY <1>4 DEF ReadFails
<1>5. CASE GetConn
  BY <1>5 DEF GetConn
<1>6. CASE OnSocketClose
  BY <1>6 DEF OnSocketClose
<1>7. CASE RemoveConn
  BY <1>7 DEF RemoveConn
<1>8. CASE CloseFd
  BY <1>8 DEF CloseFd
<1>9. CASE RemoveEvent
  BY <1>9 DEF RemoveEvent
<1> QED
  BY <1>1, <1>2, <1>3, <1>4, <1>5, <1>6, <1>7, <1>8, <1>9 DEF ChatService

LEMMA NetTypeStep ==
  NetTypeOK /\ SendsInv /\ [NetNext]_netvars => NetTypeOK' /\ SendsInv'
<1>1. ASSUME NetTypeOK, SendsInv, UNCHANGED netvars PROVE NetTypeOK' /\ SendsInv'
  BY <1>1 DEF netvars, netsvars, nettvars, kvars, cvars, NetTypeOK, SendsInv
<1> QED
  BY <1>1, NetTypeClients, NetTypeSocketThread, NetTypeService DEF NetNext

-----------------------------------------------------------------------------
(* The table, the kernel and the service *)

ConnInv == ConnMeansOpen /\ AddInv /\ CloseInv /\ DueInv

LEMMA ConnInit == NetInit => ConnInv
BY DEF NetInit, ConnInv, ConnMeansOpen, AddInv, CloseInv, DueInv, Closing

(* A step that changes neither the table nor the descriptors, and leads    *)
(* neither to AddConn nor into CloseConn.                                  *)
LEMMA ConnQuiet ==
  ASSUME NetTypeOK, ConnInv, UNCHANGED <<conns, due, file>>,
         \/ tpc' = tpc /\ tfd' = tfd
         \/ tpc # "AddConn" /\ tpc' # "AddConn",
         \/ spc' = spc /\ sfd' = sfd
         \/ /\ spc \in {"idle", "read", "GetConn", "RemoveEvent"}
            /\ spc' \in {"idle", "read", "GetConn"}
  PROVE  ConnInv'
BY DEF ConnInv, ConnMeansOpen, AddInv, CloseInv, DueInv, Closing

LEMMA ConnStep == NetTypeOK /\ ConnInv /\ [NetNext]_netvars => ConnInv'
<1> SUFFICES ASSUME NetTypeOK, ConnInv, [NetNext]_netvars PROVE ConnInv'
  OBVIOUS
<1> USE DEF netsvars, nettvars, kvars, cvars, Poller, Service
<1>1. CASE Clients
  <2>1. UNCHANGED <<conns, due, file, tpc, tfd, spc, sfd>>
    BY <1>1 DEF Clients, Connect, ClientSends, ClientEnds
  <2> QED
    BY <2>1, ConnQuiet
<1>2. CASE SocketThread
  <2>1. CASE EpollWait \/ AcceptFails \/ \E f \in Fd : OnEvent(f)
    <3>1. UNCHANGED <<conns, due, file, tpc, tfd, spc, sfd>>
      BY <2>1 DEF EpollWait, AcceptFails, OnEvent
    <3> QED
      BY <3>1, ConnQuiet
  <2>2. CASE Accept
    <3>1. /\ tfd' \in Fd /\ file[tfd'] = NoFd /\ Head(backlog) \in Client
          /\ file' = [file EXCEPT ![tfd'] = Head(backlog)]
      BY <2>2, AcceptTakesFree
    <3>2. tpc = "wait" /\ tpc' = "AddConn" /\ UNCHANGED <<conns, due, spc, sfd>>
      BY <2>2 DEF Accept
    <3>3. file \in [Fd -> Client \cup {NoFd}] /\ conns \subseteq Fd
      BY DEF NetTypeOK
    <3>4. file'[tfd'] # NoFd /\ \A f \in Fd : f # tfd' => file'[f] = file[f]
      BY <3>1, <3>3, ClientAssumption
    <3>5. tfd' \notin conns
      BY <3>1 DEF ConnInv, ConnMeansOpen
    <3>6. ConnMeansOpen'
      BY <3>2, <3>3, <3>4, <3>5 DEF ConnInv, ConnMeansOpen
    <3>7. AddInv' /\ CloseInv'
      BY <3>1, <3>2, <3>4, <3>5, <3>3 DEF ConnInv, AddInv, CloseInv, NetTypeOK
    <3>8. DueInv'
      BY <3>2 DEF ConnInv, DueInv, Closing
    <3> QED
      BY <3>6, <3>7, <3>8 DEF ConnInv
  <2>3. CASE AddConn
    <3>1. /\ tpc = "AddConn" /\ tpc' = "AddEvent" /\ conns' = conns \cup {tfd}
          /\ due' = [due EXCEPT ![tfd] = @ + 1] /\ UNCHANGED <<tfd, file, spc, sfd>>
      BY <2>3 DEF AddConn
    <3>2. tfd \in Fd /\ due \in [Fd -> Int]
      BY <3>1 DEF NetTypeOK
    <3>3. file[tfd] # NoFd /\ tfd \notin conns /\ ~(spc = "close" /\ sfd = tfd)
      BY <3>1 DEF ConnInv, AddInv
    <3>4. ConnMeansOpen'
      BY <3>1, <3>3 DEF ConnInv, ConnMeansOpen
    <3>5. AddInv' /\ CloseInv'
      BY <3>1, <3>3 DEF ConnInv, AddInv, CloseInv
    <3>6. ~Closing(tfd)
      BY <3>3 DEF ConnInv, CloseInv, Closing
    <3>7. DueInv'
      BY <3>1, <3>2, <3>3, <3>6 DEF ConnInv, DueInv, Closing
    <3> QED
      BY <3>4, <3>5, <3>7 DEF ConnInv
  <2>4. CASE AddEvent \/ SendAccept
    <3>1. UNCHANGED <<conns, due, file, spc, sfd>> /\ tpc # "AddConn" /\ tpc' # "AddConn"
      BY <2>4 DEF AddEvent, SendAccept
    <3> QED
      BY <3>1, ConnQuiet
  <2> QED
    BY <1>2, <2>1, <2>2, <2>3, <2>4 DEF SocketThread
<1>3. CASE ChatService
  <2>1. CASE OnAcceptMsg \/ (\E w \in NetWorker : OnRWMsg(w)) \/ ReadData \/ ReadFails \/ RemoveEvent
    <3>1. UNCHANGED <<conns, due, file, tpc, tfd>>
      BY <2>1 DEF OnAcceptMsg, OnRWMsg, ReadData, ReadFails, RemoveEvent
    <3>2. \/ spc' = spc /\ sfd' = sfd
          \/ /\ spc \in {"idle", "read", "GetConn", "RemoveEvent"}
             /\ spc' \in {"idle", "read", "GetConn"}
      BY <2>1, CloseConnSteps DEF OnAcceptMsg, OnRWMsg, ReadData, ReadFails, RemoveEvent, Finish
    <3> QED
      BY <3>1, <3>2, ConnQuiet
  <2>2. CASE GetConn
    <3>1. /\ UNCHANGED <<conns, due, file, tpc, tfd>> /\ spc = "GetConn"
          /\ \/ sfd \in conns /\ spc' = "OnSocketClose" /\ sfd' = sfd
             \/ spc' = "idle" /\ sfd' = NoFd
      BY <2>2 DEF GetConn, Finish
    <3> QED
      BY <3>1 DEF ConnInv, ConnMeansOpen, AddInv, CloseInv, DueInv, Closing
  <2>3. CASE OnSocketClose
    <3>1. /\ UNCHANGED <<conns, file, tpc, tfd, sfd>> /\ spc = "OnSocketClose"
          /\ spc' = "RemoveConn" /\ due' = [due EXCEPT ![sfd] = @ - 1]
      BY <2>3, CloseConnSteps DEF OnSocketClose
    <3>2. due \in [Fd -> Int] /\ conns \subseteq Fd /\ sfd \in conns
      BY <3>1 DEF NetTypeOK, ConnInv, CloseInv
    <3>3. DueInv'
      BY <3>1, <3>2 DEF ConnInv, DueInv, Closing
    <3> QED
      BY <3>1, <3>2, <3>3 DEF ConnInv, ConnMeansOpen, AddInv, CloseInv
  <2>4. CASE RemoveConn
    <3>1. /\ UNCHANGED <<due, file, tpc, tfd, sfd>> /\ spc = "RemoveConn"
          /\ spc' = "close" /\ conns' = conns \ {sfd}
      BY <2>4, CloseConnSteps DEF RemoveConn
    <3>2. conns \subseteq Fd /\ sfd \in conns
      BY <3>1 DEF NetTypeOK, ConnInv, CloseInv
    <3>3. file[sfd] # NoFd
      BY <3>2 DEF ConnInv, ConnMeansOpen
    <3>4. ConnMeansOpen'
      BY <3>1, <3>2 DEF ConnInv, ConnMeansOpen
    <3>5. AddInv' /\ CloseInv'
      BY <3>1, <3>2, <3>3 DEF ConnInv, AddInv, CloseInv
    <3>6. DueInv'
      BY <3>1, <3>2 DEF ConnInv, DueInv, Closing
    <3> QED
      BY <3>4, <3>5, <3>6 DEF ConnInv
  <2>5. CASE CloseFd
    <3>1. /\ UNCHANGED <<conns, due, tpc, tfd, sfd>> /\ spc = "close"
          /\ spc' = "RemoveEvent" /\ file' = [file EXCEPT ![sfd] = NoFd]
      BY <2>5, CloseConnSteps DEF CloseFd
    <3>2. /\ conns \subseteq Fd /\ file \in [Fd -> Client \cup {NoFd}] /\ sfd \in Fd
          /\ tpc = "AddConn" => tfd \in Fd
      BY <3>1 DEF NetTypeOK
    <3>3. sfd \notin conns
      BY <3>1 DEF ConnInv, CloseInv
    <3>4. ConnMeansOpen'
      BY <3>1, <3>2, <3>3 DEF ConnInv, ConnMeansOpen
    <3>5. AddInv' /\ CloseInv'
      BY <3>1, <3>2, <3>3 DEF ConnInv, AddInv, CloseInv
    <3>6. DueInv'
      BY <3>1 DEF ConnInv, DueInv, Closing
    <3> QED
      BY <3>4, <3>5, <3>6 DEF ConnInv
  <2> QED
    BY <1>3, <2>1, <2>2, <2>3, <2>4, <2>5 DEF ChatService
<1>4. CASE UNCHANGED netvars
  <2>1. UNCHANGED <<conns, due, file, tpc, tfd, spc, sfd>>
    BY <1>4 DEF netvars
  <2> QED
    BY <2>1, ConnQuiet
<1> QED
  BY <1>1, <1>2, <1>3, <1>4 DEF NetNext

-----------------------------------------------------------------------------
(* The theorems *)

LEMMA NetInvariant == NetSpec => [](NetTypeOK /\ SendsInv /\ ConnInv)
<1>1. NetInit => NetTypeOK /\ SendsInv /\ ConnInv
  BY NetTypeInit, ConnInit
<1>2. NetTypeOK /\ SendsInv /\ ConnInv /\ [NetNext]_netvars
        => NetTypeOK' /\ SendsInv' /\ ConnInv'
  BY NetTypeStep, ConnStep
<1> QED
  BY <1>1, <1>2, PTL DEF NetSpec

(* Every variable keeps its type; a client never has more unread and       *)
(* unsent blocks than it started with.                                     *)
THEOREM NetTypeCorrect == NetSpec => [](NetTypeOK /\ SendsInv)
BY NetInvariant, PTL

(* The table of connections and the kernel's descriptors agree, but for    *)
(* the moment between accept and AddConn and the one between RemoveConn    *)
(* and close: a number that is given out again never meets the Conn of the *)
(* client before.                                                          *)
THEOREM TableMeansOpen == NetSpec => []ConnMeansOpen
<1>1. NetTypeOK /\ SendsInv /\ ConnInv => ConnMeansOpen
  BY DEF ConnInv
<1> QED
  BY <1>1, NetInvariant, PTL

(* OnSocketClose is called once for each connection, whatever events for   *)
(* its number are still in the mailbox.                                    *)
THEOREM SocketClosedOnce == NetSpec => []ClosedOnce
<1>1. NetTypeOK /\ SendsInv /\ ConnInv => ClosedOnce
  BY DEF ConnInv, DueInv, ClosedOnce
<1> QED
  BY <1>1, NetInvariant, PTL
=============================================================================
