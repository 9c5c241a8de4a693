------------------------------ MODULE MCSunnet ------------------------------
(***************************************************************************)
(* Sunnet's scheduler and one of its connections, side by side: a          *)
(* behaviour is one of SunnetScheduler or one of ConnWriter, which part    *)
(* says; the other stays as it started.  The scheduler runs the services   *)
(* main (0) and chat (1) on two workers, and scripts may kill chat; the    *)
(* connection is sent two buffers, the first larger than SendBuf.          *)
(***************************************************************************)
EXTENDS SunnetScheduler, ConnWriter

CONSTANTS w1, w2, b1, b2, m1, m2

VARIABLE part

TwoWorkers     == {w1, w2}
ShiftedEachNum == w1 :> 2 @@ w2 :> 4
MainCallsMore  == [t \in Thread |-> IF t = Main THEN 2 ELSE 1]
MainCallsMost  == [t \in Thread |-> IF t = Main THEN 3 ELSE 1]
LargeThenSmall == b1 :> 3 @@ b2 :> 1

sunnetvars == <<part, vars, writervars>>
Writing == part = "writer"

SunnetInit == part \in {"scheduler", "writer"} /\ Init /\ WriterInit

SunnetNext ==
  /\ UNCHANGED part
  /\ \/ part = "scheduler" /\ Next /\ UNCHANGED writervars
     \/ Writing /\ WriterNext /\ UNCHANGED vars

(* WriterFairness, which asks nothing of the connection while the          *)
(* scheduler runs; of the scheduler only safety is checked here.           *)
SunnetSpec ==
  /\ SunnetInit /\ [][SunnetNext]_sunnetvars
  /\ WF_writervars(Writing /\ Handler) /\ SF_writervars(Writing /\ Take)
  /\ WF_writervars(Writing /\ EpollWait) /\ WF_writervars(Writing /\ OnEvent)
  /\ WF_writervars(Writing /\ PeerReads)

(* The scheduler alone, under its own fairness. *)
SchedulerInit == SunnetInit /\ ~Writing
SchedulerSpec == SchedulerInit /\ [][SunnetNext]_sunnetvars /\ Fairness
=============================================================================
