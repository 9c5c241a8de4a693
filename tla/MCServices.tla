----------------------------- MODULE MCServices -----------------------------
(***************************************************************************)
(* Skynet's queues and the sessions of the game, side by side, each under  *)
(* its own fairness: a behaviour is one of SkynetQueue or of GameSession,  *)
(* which part says; the other stays as it started.                         *)
(***************************************************************************)
EXTENDS SkynetQueue, GameSession

CONSTANTS w1, w2, m1, m2, p1, g1, g2, f1, f2, mgr

VARIABLE part

Queues   == part = "queues"
Sessions == part = "sessions"

MCWeight == (w1 :> -1) @@ (w2 :> 0)

ServicesInit == part \in {"queues", "sessions"} /\ QueueInit /\ Init

ServicesNext ==
  /\ UNCHANGED part
  /\ \/ Queues /\ QueueNext /\ UNCHANGED vars
     \/ Sessions /\ Next /\ UNCHANGED queuevars

servicevars == <<part, queuevars, vars>>

(* The fairness of QueueFairSpec, in its own part, and that of FairSpec,   *)
(* which asks nothing before a client has come.                            *)
ServicesSpec ==
  /\ ServicesInit /\ [][ServicesNext]_servicevars
  /\ \A t \in Thread : WF_queuevars(Queues /\ Inside(t))
  /\ \A w \in Worker : WF_queuevars(Queues /\ Dispatch(w)) /\ SF_queuevars(Queues /\ Sleep(w))
  /\ SF_queuevars(Queues /\ \E w \in Worker : WakeUp(w))
  /\ WF_queuevars(Queues /\ Abort)
  /\ Fairness
=============================================================================
