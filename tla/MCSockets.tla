----------------------------- MODULE MCSockets -----------------------------
(***************************************************************************)
(* Sockets and timers, side by side: a behaviour is one of Sunnet's table  *)
(* of connections, of skynet's socket server or of its timing wheel, which *)
(* part says; the other two stay as they started.  Three clients share two *)
(* descriptors, two ids one slot, two nodes a wheel of 32 ticks.           *)
(***************************************************************************)
EXTENDS SunnetNet, SkynetTimer, SocketServer

CONSTANTS w1, k1, k2, v1, v2

VARIABLE part

Senders == Permutations({v1, v2})

SocketsInit ==
  /\ part \in {"sunnet", "socket_server", "timer"}
  /\ NetInit /\ SockInit /\ TimerInit

SocketsNext ==
  /\ UNCHANGED part
  /\ \/ part = "sunnet" /\ NetNext /\ UNCHANGED <<sockvars, timervars>>
     \/ part = "socket_server" /\ SockNext /\ UNCHANGED <<netvars, timervars>>
     \/ part = "timer" /\ TimerNext /\ UNCHANGED <<netvars, sockvars>>

SocketsSpec == SocketsInit /\ [][SocketsNext]_<<part, netvars, sockvars, timervars>>

TypeOK == NetTypeOK /\ SockTypeOK /\ TimerTypeOK
=============================================================================
