---------------------------- MODULE GameShutdown ----------------------------
(***************************************************************************)
(* Closing the servers of chapter 04: the stop command of admin beside the *)
(* sessions of GameSession.  admin tells each gateway to take no more      *)
(* connections, then asks agent_mgr to log off one player after another    *)
(* until none is left, and ends the node.                                  *)
(***************************************************************************)
EXTENDS GameSession

VARIABLES
  stop,      \* stop() of admin: see StopState
  closed,    \* gateways whose closing is set
  online,    \* agent_mgr's count before the kick it waits for
  counted    \* history: the agents made by the time nobody was online

stopvars == <<stop, closed, online, counted>>
gamevars == <<vars, stopvars>>

(* "gates" and "agents" are the loops of shutdown_gate and shutdown_agent;  *)
(* agent_mgr has been "asked", has "forked" a kick, or nobody is left.     *)
StopState == {"no", "gates", "agents", "asked", "forked", "empty", "aborted"}

StopTypeOK ==
  /\ stop \in StopState /\ closed \subseteq Gate
  /\ online \in Nat /\ counted \subseteq Attempt

ShutdownInit ==
  Init /\ stop = "no" /\ closed = {} /\ online = 0 /\ counted = {}

(* Mutant: a player who is being logged out is not counted. *)
InGameOnly == {p \in Player : mgr_players[p] # None /\ status[mgr_players[p]] # "LOGOUT"}

(* The players get_online_count counts, whatever their status. *)
Listed == {p \in Player : mgr_players[p] # None}

-----------------------------------------------------------------------------
(* admin *)

StopCommand ==
  /\ stop = "no" /\ stop' = "gates"
  /\ UNCHANGED <<vars, closed, online, counted>>

(* shutdown_gate calls one gateway after the other; each sets closing. *)
ShutdownGate(g) ==
  /\ stop = "gates" /\ g \notin closed
  /\ closed' = closed \cup {g}
  /\ stop' = IF closed' = Gate THEN "agents" ELSE stop
  /\ UNCHANGED <<vars, online, counted>>

ShutdownAgent ==
  /\ stop = "agents" /\ stop' = "asked"
  /\ queue' = Post(queue, AgentMgr, <<[type |-> "shutdown"]>>)
  /\ UNCHANGED <<cvars, gvars, lvars, mvars, agent, closed, online, counted>>

Abort ==
  /\ stop = "empty" /\ stop' = "aborted"
  /\ UNCHANGED <<vars, closed, online, counted>>

-----------------------------------------------------------------------------
(* agent_mgr: shutdown(1).  The req_kick it forks runs up to its first call *)
(* before the next message; a player on the way in is not kicked.          *)
ForkKick ==
  /\ Receives(AgentMgr, "shutdown")
  /\ stop' = "forked"
  /\ online' = Cardinality(Listed)
  /\ \/ /\ \E p \in Listed : LET v == mgr_players[p] IN
            /\ MayKick(v)
            /\ Evict(v, [at |-> "agent_kick", login |-> None, victim |-> v, by |-> None])
     \/ /\ Listed = {} \/ \E p \in Listed : ~MayKick(mgr_players[p])
        /\ queue' = Taken(AgentMgr)
        /\ UNCHANGED <<status, co>>
  /\ UNCHANGED <<cvars, gvars, lvars, mgr_players, agent, closed, counted>>

(* It looks again every two seconds until somebody has gone. *)
CountOnline ==
  /\ stop = "forked"
  /\ LET left == Cardinality(Listed) IN
     /\ left = 0 \/ left < online
     /\ stop' = IF left = 0 THEN "empty" ELSE "agents"
     /\ counted' = IF left = 0 THEN {i \in Attempt : agent[i] # "none"} ELSE counted
  /\ UNCHANGED <<vars, closed, online>>

-----------------------------------------------------------------------------
(* connect of a gateway that is closing: the socket is left unstarted. *)
ConnectIgnored(fd, g) ==
  /\ g \in closed /\ sock[fd] = "new"
  /\ sock' = [sock EXCEPT ![fd] = "open"]
  /\ port' = [port EXCEPT ![fd] = g]
  /\ UNCHANGED <<sent, gvars, lvars, mvars, agent, queue, stopvars>>

(* The sessions go on, except that a closing gateway takes no connection. *)
Play ==
  /\ Next
  /\ \A fd \in Fd : conns'[fd] /\ ~conns[fd] => port'[fd] \notin closed
  /\ UNCHANGED stopvars

(* abort ends the node where it stands. *)
ShutdownNext ==
  /\ stop # "aborted"
  /\ \/ Play \/ StopCommand \/ ShutdownAgent \/ Abort \/ ForkKick \/ CountOnline
     \/ \E g \in Gate : ShutdownGate(g) \/ \E fd \in Fd : ConnectIgnored(fd, g)

ShutdownSpec == ShutdownInit /\ [][ShutdownNext]_gamevars

-----------------------------------------------------------------------------
(* When agent_mgr reports that nobody is online, the data of every player  *)
(* who was has been saved, and so it is when the node ends (admin:10);     *)
(* only a login that came after the count can lose what it has done.       *)
AbortSaves ==
  stop \in {"empty", "aborted"} => \A i \in counted : agent[i] \in {"saved", "gone"}
=============================================================================
