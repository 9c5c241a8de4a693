------------------------- MODULE MCSunnetScheduler -------------------------
(* The scheduler on two workers, with the services main (0) and chat (1). *)
EXTENDS SunnetScheduler, TLC

CONSTANTS w1, w2, m1, m2,
          Calls       \* API calls of main's OnInit; the other callbacks make one

TwoWorkers == {w1, w2}
ShiftedEachNum == w1 :> 2 @@ w2 :> 4
MainCallsMore == [t \in Thread |-> IF t = Main THEN Calls ELSE 1]
=============================================================================
