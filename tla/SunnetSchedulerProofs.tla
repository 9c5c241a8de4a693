------------------------ MODULE SunnetSchedulerProofs ------------------------
(***************************************************************************)
(* Proofs about SunnetScheduler, for any number of workers, services and   *)
(* messages and any scripts.                                               *)
(***************************************************************************)
EXTENDS SunnetScheduler, SequenceTheorems, TLAPS

-----------------------------------------------------------------------------
(* Queues without repetition. *)

(* Appending a new element keeps a queue without repetition. *)
LEMMA AppendDistinct ==
  ASSUME NEW S, NEW q \in Seq(S), NEW e \in S
  PROVE  /\ Append(q, e) \in Seq(S)
         /\ SeqSet(Append(q, e)) = SeqSet(q) \cup {e}
         /\ Distinct(q) /\ e \notin SeqSet(q) => Distinct(Append(q, e))
<1>1. /\ Append(q, e) \in Seq(S) /\ Len(q) \in Nat
      /\ DOMAIN q = 1 .. Len(q) /\ DOMAIN Append(q, e) = 1 .. Len(q) + 1
      /\ \A i \in 1 .. Len(q) : Append(q, e)[i] = q[i]
      /\ Append(q, e)[Len(q) + 1] = e
  OBVIOUS
<1>2. SeqSet(Append(q, e)) = SeqSet(q) \cup {e}
  <2>1. ASSUME NEW x \in SeqSet(Append(q, e)) PROVE x \in SeqSet(q) \cup {e}
    BY <1>1 DEF SeqSet
  <2>2. ASSUME NEW x \in SeqSet(q) PROVE x \in SeqSet(Append(q, e))
    <3>1. PICK i \in 1 .. Len(q) : x = q[i]
      BY <1>1 DEF SeqSet
    <3>2. i \in 1 .. Len(q) + 1 /\ x = Append(q, e)[i]
      BY <1>1, <3>1
    <3> QED
      BY <1>1, <3>2 DEF SeqSet
  <2>3. e \in SeqSet(Append(q, e))
    <3>1. Len(q) + 1 \in 1 .. Len(q) + 1
      BY <1>1
    <3> QED
      BY <1>1, <3>1 DEF SeqSet
  <2> QED
    BY <2>1, <2>2, <2>3
<1>3. ASSUME Distinct(q), e \notin SeqSet(q) PROVE Distinct(Append(q, e))
  <2> SUFFICES ASSUME NEW i \in 1 .. Len(q) + 1, NEW j \in 1 .. Len(q) + 1,
                      Append(q, e)[i] = Append(q, e)[j]
               PROVE  i = j
    BY <1>1 DEF Distinct
  <2>1. \A k \in 1 .. Len(q) : q[k] # e
    BY <1>1, <1>3 DEF SeqSet
  <2> QED
    BY <1>1, <1>3, <2>1 DEF Distinct
<1> QED
  BY <1>1, <1>2, <1>3

(* A queue without repetition loses its head for good. *)
LEMMA TailDistinct ==
  ASSUME NEW S, NEW q \in Seq(S), q # << >>, Distinct(q)
  PROVE  /\ Head(q) \in S /\ Tail(q) \in Seq(S)
         /\ Head(q) \in SeqSet(q)
         /\ SeqSet(Tail(q)) = SeqSet(q) \ {Head(q)}
         /\ Distinct(Tail(q))
<1>1. /\ Head(q) \in S /\ Tail(q) \in Seq(S)
      /\ Len(q) \in Nat \ {0} /\ Head(q) = q[1]
      /\ DOMAIN q = 1 .. Len(q) /\ DOMAIN Tail(q) = 1 .. Len(q) - 1
      /\ \A i \in 1 .. Len(q) - 1 : Tail(q)[i] = q[i + 1]
  OBVIOUS
<1>2. Head(q) \in SeqSet(q)
  <2>1. 1 \in 1 .. Len(q)
    BY <1>1
  <2> QED
    BY <1>1, <2>1 DEF SeqSet
<1>3. ASSUME NEW x \in SeqSet(Tail(q)) PROVE x \in SeqSet(q) \ {Head(q)}
  <2>1. PICK i \in 1 .. Len(q) - 1 : x = q[i + 1]
    BY <1>1 DEF SeqSet
  <2>2. i + 1 \in 1 .. Len(q) /\ 1 \in 1 .. Len(q) /\ i + 1 # 1
    BY <1>1
  <2> QED
    BY <1>1, <2>1, <2>2 DEF SeqSet, Distinct
<1>4. ASSUME NEW x \in SeqSet(q) \ {Head(q)} PROVE x \in SeqSet(Tail(q))
  <2>1. PICK i \in 1 .. Len(q) : x = q[i]
    BY <1>1 DEF SeqSet
  <2>2. i - 1 \in 1 .. Len(q) - 1 /\ (i - 1) + 1 = i
    BY <1>1, <1>4, <2>1
  <2>3. x = Tail(q)[i - 1]
    BY <1>1, <2>1, <2>2
  <2> QED
    BY <1>1, <2>2, <2>3 DEF SeqSet
<1>5. Distinct(Tail(q))
  <2> SUFFICES ASSUME NEW i \in 1 .. Len(q) - 1, NEW j \in 1 .. Len(q) - 1,
                      Tail(q)[i] = Tail(q)[j]
               PROVE  i = j
    BY <1>1 DEF Distinct
  <2>1. /\ i + 1 \in 1 .. Len(q) /\ j + 1 \in 1 .. Len(q)
        /\ q[i + 1] = q[j + 1]
    BY <1>1
  <2>2. i + 1 = j + 1
    BY <1>1, <2>1 DEF Distinct
  <2> QED
    BY <2>2
<1> QED
  BY <1>1, <1>2, <1>3, <1>4, <1>5

-----------------------------------------------------------------------------
(* Where the threads are, and what their registers then hold. *)
ControlInv ==
  /\ \A t \in Thread :
       /\ pc[t] = "Callback" => frames[t] # << >>
       /\ pc[t] \in InCall \ {"CheckAndWeakUp"} => arg[t] \in Sid
       /\ pc[t] = "PushMsg" => out[t] \in Msg
       /\ t \notin Worker => pc[t] \notin WorkerLoop \cup WorkerTurn
  /\ \A w \in Worker : cur[w] = None <=> pc[w] \in WorkerLoop

TypeInv == TypeOK /\ ControlInv

(* The initial state is typed. *)
LEMMA TypeInit == Init => TypeInv
BY BoundAssumption, ThreadAssumption, NoneAssumption
   DEF Init, TypeInv, TypeOK, ControlInv, Thread, Sid, PC, WorkerLoop, WorkerTurn, InCall

(* Each action keeps the types. *)
LEMMA TypeOKStep == TypeOK /\ ControlInv /\ [Next]_vars => TypeOK'
<1> SUFFICES ASSUME TypeOK, ControlInv, [Next]_vars PROVE TypeOK'
  OBVIOUS
<1> USE DEF svars, qvars, wvars, Goto, Return, Count
<1>1. /\ "PopGlobalQueue" \in PC /\ "WorkerWait" \in PC /\ "Asleep" \in PC
      /\ "Waking" \in PC /\ "PopMsg" \in PC /\ "CheckExit" \in PC
      /\ "CheckQueue" \in PC /\ "Requeue" \in PC /\ "ClearInGlobal" \in PC
      /\ "PushMsg" \in PC /\ "CheckInGlobal" \in PC /\ "PushGlobalQueue" \in PC
      /\ "SetInGlobal" \in PC /\ "CheckAndWeakUp" \in PC /\ "OnInit" \in PC
      /\ "SetExit" \in PC /\ "Erase" \in PC /\ "Callback" \in PC
      /\ \A w \in Worker : w \in Thread
  BY DEF PC, WorkerLoop, WorkerTurn, InCall, Thread
<1>0. ASSUME NEW t \in Thread, NEW fs PROVE Resume(t, fs) \in PC
  BY DEF PC, Resume
<1>2. \A t \in Thread : pc[t] \in InCall \ {"CheckAndWeakUp"} => arg[t] \in Sid
  BY DEF ControlInv, TypeOK
<1>3. \A t \in Thread : pc[t] = "Callback" =>
         Head(frames[t]) \in Frame /\ Tail(frames[t]) \in Seq(Frame)
  BY DEF ControlInv, TypeOK
<1>4. \A w \in Worker : pc[w] \notin WorkerLoop => cur[w] \in Sid
  BY DEF ControlInv, TypeOK
<1>5. \A k \in {"OnInit", "OnMsg", "OnExit"} : \A s \in Sid : \A fs \in Seq(Frame) :
        <<[kind |-> k, srv |-> s]>> \o fs \in Seq(Frame)
  BY DEF Frame
<1>6. ASSUME NEW t \in Thread, NEW s \in Sid, NEW m \in Msg, Send(t, s, m) PROVE TypeOK'
  <2>2. CASE s \in services
    <3>1. /\ pc' = [pc EXCEPT ![t] = "PushMsg"]
          /\ arg' = [arg EXCEPT ![t] = s]
          /\ out' = [out EXCEPT ![t] = m]
          /\ calls' = [calls EXCEPT ![t] = @ + 1]
          /\ UNCHANGED <<services, max_id, listening, is_exit, vm,
                            msg_queue, in_global, msg_queue_lock,
                            in_global_lock, global_queue, worker_sleep_count,
                            cur, n, hmsg, frames>>
      BY <1>6, <2>2 DEF Send, SendTo
    <3> QED
      BY <3>1, <1>1 DEF TypeOK
  <2>4. CASE s \notin services
    <3>1. /\ calls' = [calls EXCEPT ![t] = @ + 1]
          /\ UNCHANGED <<services, max_id, listening, is_exit, vm,
                            msg_queue, in_global, msg_queue_lock,
                            in_global_lock, global_queue, worker_sleep_count,
                            cur, n, hmsg, pc, frames, arg, out>>
      BY <1>6, <2>4 DEF Send, SendTo
    <3> QED
      BY <3>1, <1>1 DEF TypeOK
  <2> QED
    BY <2>2, <2>4
<1>7. ASSUME NEW s \in Sid, NEW m \in Msg, SocketSend(s, m) PROVE TypeOK'
  <2>1. CASE s \in services
    BY <1>7, <2>1, <1>1 DEF SocketSend, SendTo, TypeOK
  <2>2. CASE s \notin services
    BY <1>7, <2>2, <1>1 DEF SocketSend, SendTo, TypeOK
  <2> QED
    BY <2>1, <2>2
<1>8. ASSUME NEW t \in Thread, PushMsg(t) PROVE TypeOK'
  <2>1. arg[t] \in Sid /\ out[t] \in Msg
    BY <1>8 DEF PushMsg, ControlInv, InCall
  <2> QED
    BY <1>8, <2>1, <1>1 DEF PushMsg, TypeOK
<1>9. ASSUME NEW t \in Thread, CheckInGlobal(t) PROVE TypeOK'
  <2>2. CASE in_global[arg[t]]
    <3>1. /\ pc' = [pc EXCEPT ![t] = Resume(t, frames[t])]
          /\ arg' = [arg EXCEPT ![t] = None]
          /\ UNCHANGED <<services, max_id, listening, is_exit, vm,
                            msg_queue, in_global, msg_queue_lock,
                            in_global_lock, global_queue, worker_sleep_count,
                            cur, n, hmsg, frames, calls, out>>
      BY <1>9, <2>2 DEF CheckInGlobal
    <3> QED
      BY <3>1, <1>0, <1>1 DEF TypeOK
  <2>4. CASE ~in_global[arg[t]]
    <3>1. /\ pc' = [pc EXCEPT ![t] = "PushGlobalQueue"]
          /\ in_global_lock' = [in_global_lock EXCEPT ![arg[t]] = t]
          /\ UNCHANGED <<services, max_id, listening, is_exit, vm,
                            msg_queue, in_global, msg_queue_lock, global_queue,
                            worker_sleep_count, cur, n, hmsg, frames, calls,
                            arg, out>>
      BY <1>9, <2>4 DEF CheckInGlobal
    <3> QED
      BY <3>1, <1>1 DEF TypeOK
  <2> QED
    BY <2>2, <2>4
<1>10. ASSUME NEW t \in Thread, PushGlobalQueue(t) PROVE TypeOK'
  <2>1. arg[t] \in Sid
    BY <1>10, <1>2 DEF PushGlobalQueue, InCall
  <2> QED
    BY <1>10, <2>1, <1>1 DEF PushGlobalQueue, TypeOK
<1>11. ASSUME NEW t \in Thread, SetInGlobal(t) PROVE TypeOK'
  <2>1. arg[t] \in Sid
    BY <1>11, <1>2 DEF SetInGlobal, InCall
  <2> QED
    BY <1>11, <2>1, <1>1 DEF SetInGlobal, TypeOK
<1>12. ASSUME NEW t \in Thread, CheckAndWeakUp(t) PROVE TypeOK'
  <2>1. Resume(t, frames[t]) \in PC
    BY <1>0
  <2>2. pc' \in [Thread -> PC]
    <3>1. CASE NeedWakeUp /\ Sleeping # {}
      <4>1. PICK w \in Sleeping :
              pc' = [pc EXCEPT ![t] = Resume(t, frames[t]), ![w] = "Waking"]
        BY <1>12, <3>1 DEF CheckAndWeakUp
      <4> QED
        BY <4>1, <2>1, <1>1 DEF TypeOK
    <3>2. CASE ~(NeedWakeUp /\ Sleeping # {})
      <4>1. pc' = [pc EXCEPT ![t] = Resume(t, frames[t])]
        BY <1>12, <3>2 DEF CheckAndWeakUp
      <4> QED
        BY <4>1, <2>1 DEF TypeOK
    <3> QED
      BY <3>1, <3>2
  <2> QED
    BY <1>12, <2>2 DEF CheckAndWeakUp, TypeOK
<1>13. ASSUME NEW t \in Thread, NewService(t) PROVE TypeOK'
  <2>1. /\ max_id \in Sid
        /\ services' = services \cup {max_id} /\ max_id' = max_id + 1
        /\ arg' = [arg EXCEPT ![t] = max_id]
        /\ pc' = [pc EXCEPT ![t] = "OnInit"]
        /\ UNCHANGED <<listening, is_exit, vm, msg_queue, in_global, msg_queue_lock,
                       in_global_lock, global_queue, worker_sleep_count, cur, n,
                       hmsg, frames, out>>
    BY <1>13, BoundAssumption DEF NewService, TypeOK, Sid
  <2>2. calls' \in [Thread -> Nat]
    <3>1. calls' = [calls EXCEPT ![t] = @ + 1] \/ calls' = calls
      BY <1>13 DEF NewService
    <3>2. calls \in [Thread -> Nat]
      BY DEF TypeOK
    <3> QED
      BY <3>1, <3>2
  <2>3. max_id' \in 0 .. MaxServices
    BY <2>1, BoundAssumption DEF Sid
  <2> QED
    BY <2>1, <2>2, <2>3, <1>1 DEF TypeOK
<1>14. ASSUME NEW t \in Thread, OnInit(t) PROVE TypeOK'
  <2>1. arg[t] \in Sid
    BY <1>14, <1>2 DEF OnInit, InCall
  <2> QED
    BY <1>14, <2>1, <1>1, <1>5 DEF OnInit, Enter, TypeOK
<1>15. ASSUME NEW t \in Thread, NEW s \in Sid, KillService(t, s) PROVE TypeOK'
  <2>2. CASE s \in services
    <3>1. /\ calls' = [calls EXCEPT ![t] = @ + 1]
          /\ frames' = [frames EXCEPT ![t] = <<[kind |-> "OnExit", srv |-> s]>> \o @]
          /\ UNCHANGED <<services, max_id, listening, is_exit, vm,
                            msg_queue, in_global, msg_queue_lock,
                            in_global_lock, global_queue, worker_sleep_count,
                            cur, n, hmsg, pc, arg, out>>
      BY <1>15, <2>2 DEF KillService, Enter
    <3> QED
      BY <3>1, <1>1, <1>5 DEF TypeOK
  <2>4. CASE s \notin services
    <3>1. /\ calls' = [calls EXCEPT ![t] = @ + 1]
          /\ UNCHANGED <<services, max_id, listening, is_exit, vm,
                            msg_queue, in_global, msg_queue_lock,
                            in_global_lock, global_queue, worker_sleep_count,
                            cur, n, hmsg, pc, frames, arg, out>>
      BY <1>15, <2>4 DEF KillService, Enter
    <3> QED
      BY <3>1, <1>1, <1>5 DEF TypeOK
  <2> QED
    BY <2>2, <2>4
<1>16. ASSUME NEW t \in Thread, SetExit(t) PROVE TypeOK'
  <2>1. arg[t] \in Sid
    BY <1>16, <1>2 DEF SetExit, InCall
  <2> QED
    BY <1>16, <2>1, <1>1 DEF SetExit, TypeOK
<1>17. ASSUME NEW t \in Thread, Erase(t) PROVE TypeOK'
  <2>1. arg[t] \in Sid
    BY <1>17, <1>2 DEF Erase, InCall
  <2> QED
    BY <1>17, <2>1, <1>0 DEF Erase, TypeOK
<1>18. ASSUME NEW t \in Thread, Listen(t) PROVE TypeOK'
  BY <1>18, <1>1, BoundAssumption DEF Listen, TypeOK
<1>19. ASSUME NEW t \in Thread, ReturnOnInit(t) PROVE TypeOK'
  <2>1. Resume(t, Tail(frames[t])) \in PC /\ Tail(frames[t]) \in Seq(Frame)
    BY <1>19, <1>0, <1>3 DEF ReturnOnInit
  <2> QED
    BY <1>19, <2>1 DEF ReturnOnInit, TypeOK
<1>20. ASSUME NEW t \in Thread, ReturnOnExit(t) PROVE TypeOK'
  <2>1. Head(frames[t]).srv \in Sid
    BY <1>20, <1>3 DEF ReturnOnExit, Frame
  <2> QED
    BY <1>20, <2>1, <1>1, <1>3 DEF ReturnOnExit, TypeOK
<1>21. ASSUME NEW w \in Worker, PopGlobalQueue(w) PROVE TypeOK'
  <2>2. CASE global_queue = << >>
    <3>1. /\ pc' = [pc EXCEPT ![w] = "WorkerWait"]
          /\ UNCHANGED <<services, max_id, listening, is_exit, vm,
                            msg_queue, in_global, msg_queue_lock,
                            in_global_lock, global_queue, worker_sleep_count,
                            cur, n, hmsg, frames, calls, arg, out>>
      BY <1>21, <2>2 DEF PopGlobalQueue
    <3> QED
      BY <3>1, <1>1 DEF TypeOK
  <2>4. CASE global_queue # << >>
    <3>1. /\ pc' = [pc EXCEPT ![w] = "PopMsg"]
          /\ cur' = [cur EXCEPT ![w] = Head(global_queue)]
          /\ global_queue' = Tail(global_queue)
          /\ UNCHANGED <<services, max_id, listening, is_exit, vm,
                            msg_queue, in_global, msg_queue_lock,
                            in_global_lock, worker_sleep_count, n, hmsg,
                            frames, calls, arg, out>>
      BY <1>21, <2>4 DEF PopGlobalQueue
    <3>2. Head(global_queue) \in Sid /\ Tail(global_queue) \in Seq(Sid)
      BY <2>4 DEF TypeOK
    <3> QED
      BY <3>1, <3>2, <1>1 DEF TypeOK
  <2> QED
    BY <2>2, <2>4
<1>22. ASSUME NEW w \in Worker, WorkerWait(w) PROVE TypeOK'
  BY <1>22, <1>1 DEF WorkerWait, TypeOK
<1>23. ASSUME NEW w \in Worker, SpuriousWakeUp(w) PROVE TypeOK'
  BY <1>23, <1>1 DEF SpuriousWakeUp, TypeOK
<1>24. ASSUME NEW w \in Worker, WakeUp(w) PROVE TypeOK'
  BY <1>24, <1>1 DEF WakeUp, TypeOK
<1>25. ASSUME NEW w \in Worker, PopMsg(w) PROVE TypeOK'
  <2>1. cur[w] \in Sid
    BY <1>25, <1>4 DEF PopMsg, WorkerLoop
  <2>3. CASE msg_queue[cur[w]] = << >>
    <3>1. /\ pc' = [pc EXCEPT ![w] = "CheckExit"]
          /\ n' = [n EXCEPT ![w] = 0]
          /\ UNCHANGED <<services, max_id, listening, is_exit, vm,
                            msg_queue, in_global, msg_queue_lock,
                            in_global_lock, global_queue, worker_sleep_count,
                            cur, hmsg, frames, calls, arg, out>>
      BY <1>25, <2>3 DEF PopMsg, Enter
    <3> QED
      BY <3>1, <2>1, <1>1, <1>5 DEF TypeOK
  <2>5. CASE msg_queue[cur[w]] # << >>
    <3>1. /\ pc' = [pc EXCEPT ![w] = "Callback"]
          /\ hmsg' = [hmsg EXCEPT ![w] = Head(msg_queue[cur[w]])]
          /\ msg_queue' = [msg_queue EXCEPT ![cur[w]] = Tail(@)]
          /\ frames' = [frames EXCEPT ![w] = <<[kind |-> "OnMsg", srv |-> cur[w]]>> \o @]
          /\ UNCHANGED <<services, max_id, listening, is_exit, vm,
                            in_global, msg_queue_lock, in_global_lock,
                            global_queue, worker_sleep_count, cur, n, calls,
                            arg, out>>
      BY <1>25, <2>5 DEF PopMsg, Enter
    <3>2. /\ Head(msg_queue[cur[w]]) \in Msg /\ Tail(msg_queue[cur[w]]) \in Seq(Msg)
          /\ <<[kind |-> "OnMsg", srv |-> cur[w]]>> \o frames[w] \in Seq(Frame)
      BY <2>1, <2>5, <1>1, <1>5 DEF TypeOK
    <3> QED
      BY <3>1, <3>2, <2>1, <1>1 DEF TypeOK
  <2> QED
    BY <2>3, <2>5
<1>26. ASSUME NEW w \in Worker, ReturnOnMsg(w) PROVE TypeOK'
  <2>1. Tail(frames[w]) \in Seq(Frame)
    BY <1>26, <1>1, <1>3 DEF ReturnOnMsg
  <2>2. CASE n[w] + 1 < EachNum[w]
    <3>1. /\ pc' = [pc EXCEPT ![w] = "PopMsg"]
          /\ n' = [n EXCEPT ![w] = @ + 1]
          /\ frames' = [frames EXCEPT ![w] = Tail(@)]
          /\ hmsg' = [hmsg EXCEPT ![w] = None]
          /\ calls' = [calls EXCEPT ![w] = 0]
          /\ UNCHANGED <<services, max_id, listening, is_exit, vm,
                            msg_queue, in_global, msg_queue_lock,
                            in_global_lock, global_queue, worker_sleep_count,
                            cur, arg, out>>
      BY <1>26, <2>2 DEF ReturnOnMsg
    <3> QED
      BY <3>1, <2>1, <1>1 DEF TypeOK
  <2>4. CASE ~(n[w] + 1 < EachNum[w])
    <3>1. /\ pc' = [pc EXCEPT ![w] = "CheckExit"]
          /\ n' = [n EXCEPT ![w] = 0]
          /\ frames' = [frames EXCEPT ![w] = Tail(@)]
          /\ hmsg' = [hmsg EXCEPT ![w] = None]
          /\ calls' = [calls EXCEPT ![w] = 0]
          /\ UNCHANGED <<services, max_id, listening, is_exit, vm,
                            msg_queue, in_global, msg_queue_lock,
                            in_global_lock, global_queue, worker_sleep_count,
                            cur, arg, out>>
      BY <1>26, <2>4 DEF ReturnOnMsg
    <3> QED
      BY <3>1, <2>1, <1>1 DEF TypeOK
  <2> QED
    BY <2>2, <2>4
<1>27. ASSUME NEW w \in Worker, CheckExit(w) PROVE TypeOK'
  <2>1. CASE is_exit[cur[w]]
    BY <1>27, <2>1, <1>1 DEF CheckExit, TypeOK
  <2>2. CASE ~is_exit[cur[w]]
    BY <1>27, <2>2, <1>1 DEF CheckExit, TypeOK
  <2> QED
    BY <2>1, <2>2
<1>28. ASSUME NEW w \in Worker, CheckQueue(w) PROVE TypeOK'
  BY <1>28, <1>1 DEF CheckQueue, TypeOK
<1>29. ASSUME NEW w \in Worker, Requeue(w) PROVE TypeOK'
  <2>1. cur[w] \in Sid
    BY <1>29, <1>4 DEF Requeue, WorkerLoop
  <2> QED
    BY <1>29, <2>1, <1>1 DEF Requeue, EndTurn, TypeOK
<1>30. ASSUME NEW w \in Worker, ClearInGlobal(w) PROVE TypeOK'
  <2>1. cur[w] \in Sid
    BY <1>30, <1>4 DEF ClearInGlobal, WorkerLoop
  <2> QED
    BY <1>30, <2>1, <1>1 DEF ClearInGlobal, EndTurn, TypeOK
<1>31. CASE UNCHANGED vars
  BY <1>31 DEF vars, tvars, TypeOK
<1> QED
  BY <1>6, <1>7, <1>8, <1>9, <1>10, <1>11, <1>12, <1>13, <1>14, <1>15,
     <1>16, <1>17, <1>18, <1>19, <1>20, <1>21, <1>22, <1>23, <1>24,
     <1>25, <1>26, <1>27, <1>28, <1>29, <1>30, <1>31
     DEF Next, ApiCall, CallStep, WorkerStep

(* Each action keeps what program counters say of the other variables. *)
LEMMA ControlStep == TypeOK /\ ControlInv /\ [Next]_vars => ControlInv'
<1> SUFFICES ASSUME TypeOK, ControlInv, [Next]_vars PROVE ControlInv'
  OBVIOUS
<1> USE ThreadAssumption, NoneAssumption
        DEF ControlInv, svars, qvars, wvars, Goto, Count, WorkerLoop, WorkerTurn, InCall
<1>0. /\ pc \in [Thread -> PC] /\ arg \in [Thread -> Sid \cup {None}]
      /\ out \in [Thread -> Msg \cup {None}] /\ cur \in [Worker -> Sid \cup {None}]
      /\ frames \in [Thread -> Seq(Frame)] /\ global_queue \in Seq(Sid)
      /\ Main \in Thread /\ Socket \in Thread /\ \A w \in Worker : w \in Thread
  BY DEF TypeOK, Thread
<1>1. ASSUME NEW t \in Thread, NEW s \in Sid, NEW m \in Msg, Send(t, s, m) PROVE ControlInv'
  <2>1. CASE s \in services
    <3>1. /\ pc[t] = "Callback"
          /\ pc' = [pc EXCEPT ![t] = "PushMsg"]
          /\ arg' = [arg EXCEPT ![t] = s]
          /\ out' = [out EXCEPT ![t] = m]
          /\ UNCHANGED <<cur, frames>>
      BY <1>1, <2>1 DEF Send, SendTo, MayCall
    <3> QED
      BY <3>1, <1>0
  <2>2. CASE s \notin services
    BY <1>1, <2>2, <1>0 DEF Send, SendTo, MayCall
  <2> QED
    BY <2>1, <2>2
<1>2. ASSUME NEW s \in Sid, NEW m \in Msg, SocketSend(s, m) PROVE ControlInv'
  <2>1. CASE s \in services
    <3>1. /\ pc' = [pc EXCEPT ![Socket] = "PushMsg"]
          /\ arg' = [arg EXCEPT ![Socket] = s]
          /\ out' = [out EXCEPT ![Socket] = m]
          /\ UNCHANGED <<cur, frames>>
      BY <1>2, <2>1 DEF SocketSend, SendTo
    <3> QED
      BY <3>1, <1>0
  <2>2. CASE s \notin services
    BY <1>2, <2>2, <1>0 DEF SocketSend, SendTo
  <2> QED
    BY <2>1, <2>2
<1>3. ASSUME NEW t \in Thread, PushMsg(t) PROVE ControlInv'
  BY <1>3, <1>0 DEF PushMsg
<1>4. ASSUME NEW t \in Thread, CheckInGlobal(t) PROVE ControlInv'
  <2>1. CASE in_global[arg[t]]
    <3>1. /\ pc[t] = "CheckInGlobal"
          /\ pc' = [pc EXCEPT ![t] = Resume(t, frames[t])]
          /\ arg' = [arg EXCEPT ![t] = None]
          /\ UNCHANGED <<cur, frames, out>>
      BY <1>4, <2>1 DEF CheckInGlobal, Return
    <3>2. Resume(t, frames[t]) \in {"Idle", "Callback"}
          /\ (Resume(t, frames[t]) = "Callback" => frames[t] # << >>)
      BY DEF Resume
    <3> QED
      BY <3>1, <3>2, <1>0
  <2>2. CASE ~in_global[arg[t]]
    <3>1. /\ pc[t] = "CheckInGlobal"
          /\ pc' = [pc EXCEPT ![t] = "PushGlobalQueue"]
          /\ UNCHANGED <<arg, cur, frames, out>>
      BY <1>4, <2>2 DEF CheckInGlobal, Return
    <3> QED
      BY <3>1, <1>0
  <2> QED
    BY <2>1, <2>2
<1>5. ASSUME NEW t \in Thread, PushGlobalQueue(t) PROVE ControlInv'
  BY <1>5, <1>0 DEF PushGlobalQueue
<1>6. ASSUME NEW t \in Thread, SetInGlobal(t) PROVE ControlInv'
  BY <1>6, <1>0 DEF SetInGlobal
<1>7. ASSUME NEW t \in Thread, CheckAndWeakUp(t) PROVE ControlInv'
  <2>1. pc[t] = "CheckAndWeakUp" /\ UNCHANGED <<arg, out, cur, frames>>
    BY <1>7 DEF CheckAndWeakUp
  <2>2. Resume(t, frames[t]) \in {"Idle", "Callback"}
        /\ (Resume(t, frames[t]) = "Callback" => frames[t] # << >>)
    BY DEF Resume
  <2>3. CASE NeedWakeUp /\ Sleeping # {}
    <3>1. PICK w \in Sleeping :
            pc' = [pc EXCEPT ![t] = Resume(t, frames[t]), ![w] = "Waking"]
      BY <1>7, <2>3 DEF CheckAndWeakUp
    <3>2. w \in Worker /\ pc[w] = "Asleep"
      BY DEF Sleeping
    <3> QED
      BY <3>1, <3>2, <2>1, <2>2, <1>0
  <2>4. CASE ~(NeedWakeUp /\ Sleeping # {})
    <3>1. pc' = [pc EXCEPT ![t] = Resume(t, frames[t])]
      BY <1>7, <2>4 DEF CheckAndWeakUp, Return
    <3> QED
      BY <3>1, <2>1, <2>2, <1>0
  <2> QED
    BY <2>3, <2>4
<1>8. ASSUME NEW t \in Thread, NewService(t) PROVE ControlInv'
  <2>1. /\ pc[t] \in {"Callback", "Idle"} /\ max_id \in Sid
        /\ arg' = [arg EXCEPT ![t] = max_id]
        /\ pc' = [pc EXCEPT ![t] = "OnInit"]
        /\ UNCHANGED <<out, cur, frames>>
    BY <1>8, BoundAssumption DEF NewService, MayCall, TypeOK, Sid
  <2> QED
    BY <2>1, <1>0
<1>9. ASSUME NEW t \in Thread, OnInit(t) PROVE ControlInv'
  BY <1>9, <1>0 DEF OnInit, Enter
<1>10. ASSUME NEW t \in Thread, NEW s \in Sid, KillService(t, s) PROVE ControlInv'
  <2>1. CASE s \in services
    BY <1>10, <2>1, <1>0 DEF KillService, Enter, MayCall
  <2>2. CASE s \notin services
    BY <1>10, <2>2, <1>0 DEF KillService, Enter, MayCall
  <2> QED
    BY <2>1, <2>2
<1>11. ASSUME NEW t \in Thread, SetExit(t) PROVE ControlInv'
  BY <1>11, <1>0 DEF SetExit
<1>12. ASSUME NEW t \in Thread, Erase(t) PROVE ControlInv'
  BY <1>12, <1>0 DEF Erase, Return, Resume
<1>13. ASSUME NEW t \in Thread, Listen(t) PROVE ControlInv'
  BY <1>13, <1>0 DEF Listen
<1>14. ASSUME NEW t \in Thread, ReturnOnInit(t) PROVE ControlInv'
  BY <1>14, <1>0 DEF ReturnOnInit, Resume
<1>15. ASSUME NEW t \in Thread, ReturnOnExit(t) PROVE ControlInv'
  <2>1. pc[t] = "Callback" /\ frames[t] \in Seq(Frame) /\ frames[t] # << >>
    BY <1>15, <1>0 DEF ReturnOnExit
  <2>2. Head(frames[t]).srv \in Sid
    <3>1. Head(frames[t]) \in Frame
      BY <2>1
    <3> QED
      BY <3>1 DEF Frame
  <2>3. /\ arg' = [arg EXCEPT ![t] = Head(frames[t]).srv]
        /\ frames' = [frames EXCEPT ![t] = Tail(@)]
        /\ pc' = [pc EXCEPT ![t] = "SetExit"]
        /\ UNCHANGED <<out, cur>>
    BY <1>15 DEF ReturnOnExit
  <2> QED
    BY <2>1, <2>2, <2>3, <1>0
<1>16. ASSUME NEW w \in Worker, PopGlobalQueue(w) PROVE ControlInv'
  <2>1. CASE global_queue = << >>
    <3>1. /\ pc[w] = "PopGlobalQueue"
          /\ pc' = [pc EXCEPT ![w] = "WorkerWait"]
          /\ UNCHANGED <<arg, out, cur, frames>>
      BY <1>16, <2>1 DEF PopGlobalQueue
    <3> QED
      BY <3>1, <1>0
  <2>2. CASE global_queue # << >>
    <3>1. /\ pc[w] = "PopGlobalQueue"
          /\ Head(global_queue) \in Sid
          /\ pc' = [pc EXCEPT ![w] = "PopMsg"]
          /\ cur' = [cur EXCEPT ![w] = Head(global_queue)]
          /\ UNCHANGED <<arg, out, frames>>
      BY <1>16, <2>2, <1>0 DEF PopGlobalQueue
    <3> QED
      BY <3>1, <1>0
  <2> QED
    BY <2>1, <2>2
<1>17. ASSUME NEW w \in Worker, WorkerWait(w) PROVE ControlInv'
  BY <1>17, <1>0 DEF WorkerWait
<1>18. ASSUME NEW w \in Worker, SpuriousWakeUp(w) PROVE ControlInv'
  BY <1>18, <1>0 DEF SpuriousWakeUp
<1>19. ASSUME NEW w \in Worker, WakeUp(w) PROVE ControlInv'
  BY <1>19, <1>0 DEF WakeUp
<1>20. ASSUME NEW w \in Worker, PopMsg(w) PROVE ControlInv'
  <2>1. CASE msg_queue[cur[w]] = << >>
    <3>1. /\ pc[w] = "PopMsg"
          /\ pc' = [pc EXCEPT ![w] = "CheckExit"]
          /\ UNCHANGED <<arg, out, cur, frames>>
      BY <1>20, <2>1 DEF PopMsg, Goto
    <3> QED
      BY <3>1, <1>0
  <2>2. CASE msg_queue[cur[w]] # << >>
    <3>1. /\ pc[w] = "PopMsg"
          /\ pc' = [pc EXCEPT ![w] = "Callback"]
          /\ frames' = [frames EXCEPT ![w] = <<[kind |-> "OnMsg", srv |-> cur[w]]>> \o @]
          /\ UNCHANGED <<arg, out, cur>>
      BY <1>20, <2>2 DEF PopMsg, Enter
    <3>2. /\ frames[w] \in Seq(Frame)
          /\ <<[kind |-> "OnMsg", srv |-> cur[w]]>> \o frames[w] # << >>
      BY <1>0
    <3> QED
      BY <3>1, <3>2, <1>0
  <2> QED
    BY <2>1, <2>2
<1>21. ASSUME NEW w \in Worker, ReturnOnMsg(w) PROVE ControlInv'
  <2>1. PICK l \in {"PopMsg", "CheckExit"} :
          /\ pc[w] = "Callback"
          /\ pc' = [pc EXCEPT ![w] = l]
          /\ frames' = [frames EXCEPT ![w] = Tail(@)]
          /\ UNCHANGED <<arg, out, cur>>
    BY <1>21 DEF ReturnOnMsg
  <2> QED
    BY <2>1, <1>0
<1>22. ASSUME NEW w \in Worker, CheckExit(w) PROVE ControlInv'
  <2>1. CASE is_exit[cur[w]]
    <3>1. /\ pc[w] = "CheckExit"
          /\ pc' = [pc EXCEPT ![w] = "PopGlobalQueue"]
          /\ cur' = [cur EXCEPT ![w] = None]
          /\ UNCHANGED <<arg, out, frames>>
      BY <1>22, <2>1 DEF CheckExit
    <3> QED
      BY <3>1, <1>0
  <2>2. CASE ~is_exit[cur[w]]
    <3>1. /\ pc[w] = "CheckExit"
          /\ pc' = [pc EXCEPT ![w] = "CheckQueue"]
          /\ UNCHANGED <<arg, out, cur, frames>>
      BY <1>22, <2>2 DEF CheckExit
    <3> QED
      BY <3>1, <1>0
  <2> QED
    BY <2>1, <2>2
<1>23. ASSUME NEW w \in Worker, CheckQueue(w) PROVE ControlInv'
  BY <1>23, <1>0 DEF CheckQueue
<1>24. ASSUME NEW w \in Worker, Requeue(w) PROVE ControlInv'
  BY <1>24, <1>0 DEF Requeue, EndTurn
<1>25. ASSUME NEW w \in Worker, ClearInGlobal(w) PROVE ControlInv'
  BY <1>25, <1>0 DEF ClearInGlobal, EndTurn
<1>26. CASE UNCHANGED vars
  BY <1>26 DEF vars, tvars
<1> QED
  BY <1>1, <1>2, <1>3, <1>4, <1>5, <1>6, <1>7, <1>8, <1>9, <1>10, <1>11,
     <1>12, <1>13, <1>14, <1>15, <1>16, <1>17, <1>18, <1>19, <1>20,
     <1>21, <1>22, <1>23, <1>24, <1>25, <1>26
     DEF Next, ApiCall, CallStep, WorkerStep

(* The two together are inductive. *)
LEMMA TypeStep == TypeInv /\ [Next]_vars => TypeInv'
BY TypeOKStep, ControlStep DEF TypeInv

(* Every variable keeps its type, whatever the scripts do. *)
THEOREM TypeCorrect == Spec => []TypeOK
<1>1. Spec => []TypeInv
  BY TypeInit, TypeStep, PTL DEF Spec
<1>2. TypeInv => TypeOK
  BY DEF TypeInv
<1> QED
  BY <1>1, <1>2, PTL

-----------------------------------------------------------------------------
(* Who holds the two locks of a service, and what it has just seen. *)
LockInv ==
  /\ \A t \in Thread, s \in Sid :
       in_global_lock[s] = t <=>
         pc[t] \in {"PushGlobalQueue", "SetInGlobal"} /\ arg[t] = s
  /\ \A w \in Worker, s \in Sid :
       msg_queue_lock[s] = w <=>
         pc[w] \in {"Requeue", "ClearInGlobal"} /\ cur[w] = s
  /\ \A s \in Sid : msg_queue_lock[s] \in Worker \cup {None}

(* What the in_global flag and the locks say about the global queue. *)
FlagInv ==
  /\ \A s \in Sid : Queued(s) \/ Owned(s) =>
       in_global[s] \/ \E t \in Thread : pc[t] = "SetInGlobal" /\ arg[t] = s
  /\ \A s \in Sid : in_global[s] /\ ~is_exit[s] => Queued(s) \/ Owned(s)
  /\ \A t \in Thread :
       /\ pc[t] = "PushGlobalQueue" => ~in_global[arg[t]]
       /\ pc[t] = "SetInGlobal" /\ ~is_exit[arg[t]] => Queued(arg[t]) \/ Owned(arg[t])
  /\ \A w \in Worker : pc[w] = "ClearInGlobal" => msg_queue[cur[w]] = << >>

SafetyInv == LockInv /\ FlagInv /\ SingleOwner /\ NoStranded

(* Nothing is queued, held or locked at the start. *)
LEMMA SafetyInit == Init => SafetyInv
<1> SUFFICES ASSUME Init PROVE SafetyInv
  OBVIOUS
<1>1. /\ \A t \in Thread : pc[t] \in {"PopGlobalQueue", "Idle"} /\ t # None
      /\ \A w \in Worker : cur[w] = None /\ w # None /\ w \in Thread
      /\ None \notin Sid
      /\ global_queue = << >> /\ SeqSet(global_queue) = {}
      /\ \A s \in Sid : /\ msg_queue_lock[s] = None /\ in_global_lock[s] = None
                        /\ msg_queue[s] = << >> /\ in_global[s] = FALSE
  BY ThreadAssumption, NoneAssumption DEF Init, Thread, SeqSet
<1>2. LockInv
  BY <1>1 DEF LockInv
<1>3. FlagInv
  BY <1>1 DEF FlagInv, Queued, Owned
<1>4. SingleOwner
  BY <1>1 DEF SingleOwner, Queued, Distinct
<1>5. NoStranded
  BY <1>1 DEF NoStranded
<1> QED
  BY <1>2, <1>3, <1>4, <1>5 DEF SafetyInv

(* A thread about to push a service is alone with it. *)
LEMMA PushedIsFree ==
  ASSUME TypeInv, SafetyInv, NEW t \in Thread, pc[t] = "PushGlobalQueue"
  PROVE  arg[t] \in Sid /\ ~Queued(arg[t]) /\ ~Owned(arg[t])
<1>1. arg[t] \in Sid
  BY DEF TypeInv, ControlInv, InCall
<1>2. in_global_lock[arg[t]] = t
  BY <1>1 DEF SafetyInv, LockInv
<1>3. ASSUME NEW u \in Thread, pc[u] = "SetInGlobal", arg[u] = arg[t]
      PROVE  FALSE
  <2>1. in_global_lock[arg[t]] = u
    BY <1>1, <1>3 DEF SafetyInv, LockInv
  <2> QED
    BY <1>2, <1>3, <2>1
<1> QED
  BY <1>1, <1>3 DEF SafetyInv, FlagInv, TypeInv, TypeOK

(* Only these points of the code matter to SafetyInv. *)
Critical == {"CheckInGlobal", "PushGlobalQueue", "SetInGlobal", "Requeue", "ClearInGlobal"}

Quiet ==
  /\ UNCHANGED <<msg_queue, in_global, msg_queue_lock, in_global_lock,
                 global_queue, is_exit, cur>>
  /\ \A t \in Thread : \/ pc'[t] = pc[t] /\ arg'[t] = arg[t]
                       \/ pc[t] \notin Critical /\ pc'[t] \notin Critical

(* A step that touches no queue, flag, lock or critical point keeps SafetyInv. *)
LEMMA QuietStep ==
  ASSUME TypeInv, SafetyInv, Quiet
  PROVE  SafetyInv'
<1> USE DEF Critical, Quiet
<1>1. /\ \A w \in Worker : w \in Thread
      /\ \A s \in Sid : Queued(s)' = Queued(s) /\ Owned(s)' = Owned(s)
  BY DEF Thread, Queued, Owned
<1>2. LockInv'
  BY <1>1 DEF SafetyInv, LockInv
<1>3. FlagInv'
  <2>1. \A t \in Thread : pc'[t] \in {"PushGlobalQueue", "SetInGlobal"} =>
          pc'[t] = pc[t] /\ arg'[t] = arg[t] /\ arg[t] \in Sid
    BY DEF TypeInv, ControlInv, InCall
  <2>2. \A s \in Sid, t \in Thread : pc[t] = "SetInGlobal" /\ arg[t] = s =>
          pc'[t] = "SetInGlobal" /\ arg'[t] = s
    OBVIOUS
  <2> QED
    BY <1>1, <2>1, <2>2 DEF SafetyInv, FlagInv
<1>4. SingleOwner'
  BY <1>1 DEF SafetyInv, SingleOwner, Queued, Distinct
<1>5. NoStranded'
  BY <1>1 DEF SafetyInv, NoStranded, Sending
<1> QED
  BY <1>2, <1>3, <1>4, <1>5 DEF SafetyInv

-----------------------------------------------------------------------------
(* The steps that move a service, a message or a lock. *)

(* The pushed message has a sender that has still to look at in_global. *)
LEMMA PushMsgStep ==
  ASSUME TypeInv, SafetyInv, NEW t \in Thread, PushMsg(t)
  PROVE  SafetyInv'
<1> DEFINE s == arg[t]
<1>1. /\ pc[t] = "PushMsg" /\ s \in Sid /\ msg_queue_lock[s] = None
      /\ pc' = [pc EXCEPT ![t] = "CheckInGlobal"]
      /\ msg_queue' = [msg_queue EXCEPT ![s] = Append(@, out[t])]
      /\ UNCHANGED <<arg, in_global, msg_queue_lock, in_global_lock, global_queue,
                     is_exit, cur>>
  BY DEF PushMsg, TypeInv, ControlInv, InCall, svars, wvars, Goto
<1>2. /\ pc \in [Thread -> PC] /\ msg_queue \in [Sid -> Seq(Msg)]
      /\ cur \in [Worker -> Sid \cup {None}]
      /\ \A w \in Worker : w \in Thread /\ w # None
      /\ \A x \in Sid : Queued(x)' = Queued(x) /\ Owned(x)' = Owned(x)
  BY <1>1, ThreadAssumption DEF TypeInv, TypeOK, Thread, Queued, Owned
<1>3. LockInv'
  BY <1>1, <1>2 DEF SafetyInv, LockInv
<1>4. FlagInv'
  <2>1. ASSUME NEW w \in Worker, pc'[w] = "ClearInGlobal"
        PROVE  msg_queue'[cur'[w]] = << >>
    <3>1. pc[w] = "ClearInGlobal" /\ cur[w] \in Sid
      BY <1>1, <1>2, <2>1 DEF TypeInv, ControlInv, WorkerLoop
    <3>2. cur[w] # s
      BY <1>1, <1>2, <3>1 DEF SafetyInv, LockInv
    <3> QED
      BY <1>1, <1>2, <3>1, <3>2 DEF SafetyInv, FlagInv
  <2>2. \A u \in Thread : pc'[u] \in {"PushGlobalQueue", "SetInGlobal"} =>
          pc[u] = pc'[u] /\ arg[u] \in Sid
    BY <1>1, <1>2 DEF TypeInv, ControlInv, InCall
  <2>3. \A u \in Thread : pc[u] = "SetInGlobal" => pc'[u] = "SetInGlobal"
    BY <1>1, <1>2
  <2> QED
    BY <1>1, <1>2, <2>1, <2>2, <2>3 DEF SafetyInv, FlagInv
<1>5. SingleOwner'
  BY <1>1 DEF SafetyInv, SingleOwner, Queued, Distinct
<1>6. NoStranded'
  <2>1. Sending(s)'
    BY <1>1, <1>2 DEF Sending
  <2>2. ASSUME NEW x \in Sid, Sending(x) PROVE Sending(x)'
    BY <1>1, <1>2, <2>2 DEF Sending
  <2>3. \A x \in Sid : x # s => msg_queue'[x] = msg_queue[x]
    BY <1>1, <1>2
  <2> QED
    BY <1>1, <1>2, <2>1, <2>2, <2>3 DEF SafetyInv, NoStranded
<1> QED
  BY <1>3, <1>4, <1>5, <1>6 DEF SafetyInv

(* A flag found set means that the service is queued or held. *)
LEMMA CheckInGlobalStep ==
  ASSUME TypeInv, SafetyInv, NEW t \in Thread, CheckInGlobal(t)
  PROVE  SafetyInv'
<1> DEFINE s == arg[t]
<1>1. /\ pc[t] = "CheckInGlobal" /\ s \in Sid /\ in_global_lock[s] = None
      /\ UNCHANGED <<msg_queue, in_global, msg_queue_lock, global_queue, is_exit, cur>>
  BY DEF CheckInGlobal, TypeInv, ControlInv, InCall, svars, wvars
<1>2. /\ pc \in [Thread -> PC] /\ arg \in [Thread -> Sid \cup {None}]
      /\ in_global_lock \in [Sid -> Thread \cup {None}]
      /\ \A w \in Worker : w \in Thread /\ w # None
      /\ \A u \in Thread : u # None
      /\ \A x \in Sid : Queued(x)' = Queued(x) /\ Owned(x)' = Owned(x)
  BY <1>1, ThreadAssumption DEF TypeInv, TypeOK, Thread, Queued, Owned
<1>3. /\ t \notin Worker => pc[t] # "ClearInGlobal"
      /\ \A u \in Thread : pc[u] \in {"PushGlobalQueue", "SetInGlobal"} => arg[u] \in Sid
  BY DEF TypeInv, ControlInv, InCall, WorkerTurn
<1>4. SingleOwner'
  BY <1>1 DEF SafetyInv, SingleOwner, Queued, Distinct
<1>5. CASE in_global[s]
  <2>1. /\ pc' = [pc EXCEPT ![t] = Resume(t, frames[t])]
        /\ arg' = [arg EXCEPT ![t] = None]
        /\ UNCHANGED in_global_lock
        /\ Resume(t, frames[t]) \in {"Idle", "Callback"}
    BY <1>5 DEF CheckInGlobal, Return, Goto, Resume
  <2>2. LockInv'
    BY <1>1, <1>2, <2>1 DEF SafetyInv, LockInv
  <2>3. \A u \in Thread : u # t => pc'[u] = pc[u] /\ arg'[u] = arg[u]
    BY <1>2, <2>1
  <2>4. pc'[t] \notin Critical
    BY <1>2, <2>1 DEF Critical
  <2>5. FlagInv'
    BY <1>1, <1>2, <1>3, <2>3, <2>4 DEF SafetyInv, FlagInv, Critical
  <2>6. NoStranded'
    <3>1. ~is_exit[s] => Queued(s) \/ Owned(s)
      BY <1>1, <1>5 DEF SafetyInv, FlagInv
    <3>2. ASSUME NEW x \in Sid, x # s, Sending(x) PROVE Sending(x)'
      BY <2>3, <3>2 DEF Sending
    <3> QED
      BY <1>1, <1>2, <3>1, <3>2 DEF SafetyInv, NoStranded
  <2> QED
    BY <1>4, <2>2, <2>5, <2>6 DEF SafetyInv
<1>6. CASE ~in_global[s]
  <2>1. /\ pc' = [pc EXCEPT ![t] = "PushGlobalQueue"]
        /\ in_global_lock' = [in_global_lock EXCEPT ![s] = t]
        /\ UNCHANGED arg
    BY <1>6 DEF CheckInGlobal, Goto
  <2>2. LockInv'
    <3>1. \A u \in Thread :
            pc[u] \in {"PushGlobalQueue", "SetInGlobal"} => arg[u] # s
      BY <1>1, <1>2 DEF SafetyInv, LockInv
    <3>2. \A u \in Thread : u # t => pc'[u] = pc[u]
      BY <1>2, <2>1
    <3>3. pc'[t] = "PushGlobalQueue" /\ pc[t] = "CheckInGlobal"
      BY <1>1, <1>2, <2>1
    <3>4. \A u \in Thread, x \in Sid :
            in_global_lock'[x] = u <=> IF x = s THEN u = t ELSE in_global_lock[x] = u
      BY <1>1, <1>2, <2>1
    <3>5. ASSUME NEW u \in Thread, NEW x \in Sid
          PROVE  in_global_lock'[x] = u <=>
                   pc'[u] \in {"PushGlobalQueue", "SetInGlobal"} /\ arg'[u] = x
      BY <1>1, <2>1, <3>1, <3>2, <3>3, <3>4 DEF SafetyInv, LockInv
    <3>6. ASSUME NEW w \in Worker, NEW x \in Sid
          PROVE  msg_queue_lock'[x] = w <=>
                   pc'[w] \in {"Requeue", "ClearInGlobal"} /\ cur'[w] = x
      BY <1>1, <1>2, <3>2, <3>3 DEF SafetyInv, LockInv
    <3> QED
      BY <1>1, <3>5, <3>6 DEF SafetyInv, LockInv
  <2>3. FlagInv'
    <3>1. \A u \in Thread : u # t => pc'[u] = pc[u]
      BY <1>2, <2>1
    <3>2. pc'[t] = "PushGlobalQueue" /\ pc[t] = "CheckInGlobal"
      BY <1>1, <1>2, <2>1
    <3> QED
      BY <1>1, <1>2, <1>3, <1>6, <2>1, <3>1, <3>2 DEF SafetyInv, FlagInv
  <2>4. NoStranded'
    <3>1. ASSUME NEW x \in Sid, Sending(x) PROVE Sending(x)'
      BY <1>1, <1>2, <2>1, <3>1 DEF Sending
    <3> QED
      BY <1>1, <1>2, <3>1 DEF SafetyInv, NoStranded
  <2> QED
    BY <1>4, <2>2, <2>3, <2>4 DEF SafetyInv
<1> QED
  BY <1>5, <1>6

(* The flag was clear, so the service was neither queued nor held. *)
LEMMA PushGlobalQueueStep ==
  ASSUME TypeInv, SafetyInv, NEW t \in Thread, PushGlobalQueue(t)
  PROVE  SafetyInv'
<1> DEFINE s == arg[t]
<1>1. /\ pc[t] = "PushGlobalQueue"
      /\ pc' = [pc EXCEPT ![t] = "SetInGlobal"]
      /\ global_queue' = Append(global_queue, s)
      /\ UNCHANGED <<arg, msg_queue, in_global, msg_queue_lock, in_global_lock,
                     is_exit, cur>>
  BY DEF PushGlobalQueue, svars, wvars, Goto
<1>2. /\ pc \in [Thread -> PC] /\ global_queue \in Seq(Sid)
      /\ \A w \in Worker : w \in Thread
      /\ \A u \in Thread : pc[u] \in {"PushGlobalQueue", "SetInGlobal"} => arg[u] \in Sid
  BY DEF TypeInv, TypeOK, Thread, ControlInv, InCall
<1>3. s \in Sid /\ ~Queued(s) /\ ~Owned(s)
  BY <1>1, PushedIsFree
<1>4. /\ SeqSet(global_queue') = SeqSet(global_queue) \cup {s}
      /\ Distinct(global_queue')
  <2>1. Distinct(global_queue)
    BY DEF SafetyInv, SingleOwner
  <2> QED
    BY <1>1, <1>2, <1>3, <2>1, AppendDistinct DEF Queued
<1>5. \A x \in Sid : /\ Queued(x)' <=> Queued(x) \/ x = s
                     /\ Owned(x)' = Owned(x)
  BY <1>1, <1>4 DEF Queued, Owned
<1>6. /\ \A u \in Thread : u # t => pc'[u] = pc[u]
      /\ pc'[t] = "SetInGlobal"
  BY <1>1, <1>2
<1>7. LockInv'
  BY <1>1, <1>2, <1>6 DEF SafetyInv, LockInv
<1>8. FlagInv'
  BY <1>1, <1>2, <1>3, <1>5, <1>6 DEF SafetyInv, FlagInv
<1>9. SingleOwner'
  <2>1. \A w \in Worker : ~Queued(cur[w])' /\ cur'[w] = cur[w]
    BY <1>1, <1>3, <1>4 DEF SafetyInv, SingleOwner, Queued, Owned
  <2> QED
    BY <1>1, <1>4, <2>1 DEF SafetyInv, SingleOwner
<1>10. NoStranded'
  <2>1. ASSUME NEW x \in Sid, x # s, Sending(x) PROVE Sending(x)'
    BY <1>1, <1>6, <2>1 DEF Sending
  <2> QED
    BY <1>1, <1>5, <2>1 DEF SafetyInv, NoStranded
<1> QED
  BY <1>7, <1>8, <1>9, <1>10 DEF SafetyInv

(* The service has been queued, and possibly taken, by then. *)
LEMMA SetInGlobalStep ==
  ASSUME TypeInv, SafetyInv, NEW t \in Thread, SetInGlobal(t)
  PROVE  SafetyInv'
<1> DEFINE s == arg[t]
<1>1. /\ pc[t] = "SetInGlobal" /\ s \in Sid
      /\ pc' = [pc EXCEPT ![t] = "CheckAndWeakUp"]
      /\ arg' = [arg EXCEPT ![t] = None]
      /\ in_global' = [in_global EXCEPT ![s] = TRUE]
      /\ in_global_lock' = [in_global_lock EXCEPT ![s] = None]
      /\ UNCHANGED <<msg_queue, msg_queue_lock, global_queue, is_exit, cur>>
  BY DEF SetInGlobal, TypeInv, ControlInv, InCall, svars, wvars, Goto
<1>2. /\ pc \in [Thread -> PC] /\ arg \in [Thread -> Sid \cup {None}]
      /\ in_global \in [Sid -> BOOLEAN]
      /\ in_global_lock \in [Sid -> Thread \cup {None}]
      /\ \A w \in Worker : w \in Thread
      /\ \A u \in Thread : u # None
      /\ \A u \in Thread : pc[u] \in {"PushGlobalQueue", "SetInGlobal"} => arg[u] \in Sid
      /\ \A x \in Sid : Queued(x)' = Queued(x) /\ Owned(x)' = Owned(x)
  BY <1>1, ThreadAssumption DEF TypeInv, TypeOK, Thread, Queued, Owned, ControlInv, InCall
<1>3. /\ \A u \in Thread : u # t => pc'[u] = pc[u] /\ arg'[u] = arg[u]
      /\ pc'[t] = "CheckAndWeakUp"
      /\ \A x \in Sid : x # s => in_global'[x] = in_global[x]
      /\ in_global'[s] = TRUE
  BY <1>1, <1>2
<1>4. \A u \in Thread : u # t /\ pc[u] \in {"PushGlobalQueue", "SetInGlobal"} => arg[u] # s
  BY <1>1, <1>2 DEF SafetyInv, LockInv
<1>5. LockInv'
  <2>1. \A u \in Thread, x \in Sid :
          in_global_lock'[x] = u <=> x # s /\ in_global_lock[x] = u
    BY <1>1, <1>2
  <2>2. ASSUME NEW u \in Thread, NEW x \in Sid
        PROVE  in_global_lock'[x] = u <=>
                 pc'[u] \in {"PushGlobalQueue", "SetInGlobal"} /\ arg'[u] = x
    BY <1>1, <1>3, <1>4, <2>1 DEF SafetyInv, LockInv
  <2>3. ASSUME NEW w \in Worker, NEW x \in Sid
        PROVE  msg_queue_lock'[x] = w <=>
                 pc'[w] \in {"Requeue", "ClearInGlobal"} /\ cur'[w] = x
    BY <1>1, <1>2, <1>3 DEF SafetyInv, LockInv
  <2> QED
    BY <1>1, <2>2, <2>3 DEF SafetyInv, LockInv
<1>6. FlagInv'
  <2>1. ASSUME NEW x \in Sid, Queued(x) \/ Owned(x)
        PROVE  in_global'[x] \/ \E u \in Thread : pc'[u] = "SetInGlobal" /\ arg'[u] = x
    BY <1>1, <1>3, <2>1 DEF SafetyInv, FlagInv
  <2>2. ASSUME NEW x \in Sid, in_global'[x], ~is_exit[x]
        PROVE  Queued(x) \/ Owned(x)
    BY <1>1, <1>3, <2>2 DEF SafetyInv, FlagInv
  <2>3. ASSUME NEW u \in Thread
        PROVE  /\ pc'[u] = "PushGlobalQueue" => ~in_global'[arg'[u]]
               /\ pc'[u] = "SetInGlobal" /\ ~is_exit[arg'[u]]
                    => Queued(arg'[u]) \/ Owned(arg'[u])
    BY <1>2, <1>3, <1>4 DEF SafetyInv, FlagInv
  <2>4. \A w \in Worker : pc'[w] = "ClearInGlobal" => msg_queue[cur[w]] = << >>
    BY <1>2, <1>3 DEF SafetyInv, FlagInv
  <2>5. \A u \in Thread : pc'[u] = "SetInGlobal" => arg'[u] \in Sid
    BY <1>2, <1>3
  <2> QED
    BY <1>1, <1>2, <2>1, <2>2, <2>3, <2>4, <2>5 DEF FlagInv
<1>7. SingleOwner'
  BY <1>1 DEF SafetyInv, SingleOwner, Queued, Distinct
<1>8. NoStranded'
  <2>1. ASSUME NEW x \in Sid, Sending(x) PROVE Sending(x)'
    BY <1>1, <1>3, <2>1 DEF Sending
  <2> QED
    BY <1>1, <1>2, <2>1 DEF SafetyInv, NoStranded
<1> QED
  BY <1>5, <1>6, <1>7, <1>8 DEF SafetyInv

(* A killed service asks for less. *)
LEMMA SetExitStep ==
  ASSUME TypeInv, SafetyInv, NEW t \in Thread, SetExit(t)
  PROVE  SafetyInv'
<1>1. /\ pc[t] = "SetExit" /\ arg[t] \in Sid
      /\ pc' = [pc EXCEPT ![t] = "Erase"]
      /\ is_exit' = [is_exit EXCEPT ![arg[t]] = TRUE]
      /\ UNCHANGED <<arg, msg_queue, in_global, msg_queue_lock, in_global_lock,
                     global_queue, cur>>
  BY DEF SetExit, TypeInv, ControlInv, InCall, qvars, wvars, Goto
<1>2. /\ pc \in [Thread -> PC] /\ is_exit \in [Sid -> BOOLEAN]
      /\ \A w \in Worker : w \in Thread
      /\ \A u \in Thread : pc[u] \in {"PushGlobalQueue", "SetInGlobal"} => arg[u] \in Sid
      /\ \A x \in Sid : Queued(x)' = Queued(x) /\ Owned(x)' = Owned(x)
  BY <1>1 DEF TypeInv, TypeOK, Thread, Queued, Owned, ControlInv, InCall
<1>3. /\ \A u \in Thread : u # t => pc'[u] = pc[u]
      /\ pc'[t] = "Erase"
      /\ \A x \in Sid : ~is_exit'[x] => ~is_exit[x]
  BY <1>1, <1>2
<1>4. LockInv'
  BY <1>1, <1>2, <1>3 DEF SafetyInv, LockInv
<1>5. FlagInv'
  BY <1>1, <1>2, <1>3 DEF SafetyInv, FlagInv
<1>6. SingleOwner'
  BY <1>1 DEF SafetyInv, SingleOwner, Queued, Distinct
<1>7. NoStranded'
  <2>1. ASSUME NEW x \in Sid, Sending(x) PROVE Sending(x)'
    BY <1>1, <1>3, <2>1 DEF Sending
  <2> QED
    BY <1>1, <1>2, <1>3, <2>1 DEF SafetyInv, NoStranded
<1> QED
  BY <1>4, <1>5, <1>6, <1>7 DEF SafetyInv

(* The service passes from the queue to the worker. *)
LEMMA PopGlobalQueueStep ==
  ASSUME TypeInv, SafetyInv, NEW w \in Worker, PopGlobalQueue(w), global_queue # << >>
  PROVE  SafetyInv'
<1> DEFINE s == Head(global_queue)
<1>1. /\ pc[w] = "PopGlobalQueue"
      /\ pc' = [pc EXCEPT ![w] = "PopMsg"]
      /\ cur' = [cur EXCEPT ![w] = s]
      /\ global_queue' = Tail(global_queue)
      /\ UNCHANGED <<arg, msg_queue, in_global, msg_queue_lock, in_global_lock, is_exit>>
  BY DEF PopGlobalQueue, svars, Goto
<1>2. /\ pc \in [Thread -> PC] /\ cur \in [Worker -> Sid \cup {None}]
      /\ global_queue \in Seq(Sid) /\ None \notin Sid
      /\ \A v \in Worker : v \in Thread
      /\ \A u \in Thread : pc[u] \in {"PushGlobalQueue", "SetInGlobal"} => arg[u] \in Sid
      /\ cur[w] = None
  BY <1>1, NoneAssumption DEF TypeInv, TypeOK, Thread, ControlInv, InCall, WorkerLoop
<1>3. /\ s \in Sid /\ Queued(s)
      /\ SeqSet(global_queue') = SeqSet(global_queue) \ {s}
      /\ Distinct(global_queue')
  <2>1. Distinct(global_queue)
    BY DEF SafetyInv, SingleOwner
  <2> QED
    BY <1>1, <1>2, <2>1, TailDistinct DEF Queued
<1>4. /\ \A u \in Thread : u # w => pc'[u] = pc[u]
      /\ pc'[w] = "PopMsg"
      /\ \A v \in Worker : v # w => cur'[v] = cur[v]
      /\ cur'[w] = s
  BY <1>1, <1>2
<1>5. \A x \in Sid : (Queued(x) \/ Owned(x))' <=> Queued(x) \/ Owned(x)
  <2>1. \A x \in Sid : Queued(x)' <=> Queued(x) /\ x # s
    BY <1>3 DEF Queued
  <2>2. \A x \in Sid : Owned(x)' <=> Owned(x) \/ x = s
    BY <1>2, <1>3, <1>4 DEF Owned
  <2> QED
    BY <1>3, <2>1, <2>2
<1>6. LockInv'
  BY <1>1, <1>2, <1>4 DEF SafetyInv, LockInv
<1>7. FlagInv'
  <2>1. \A u \in Thread : pc'[u] \in {"PushGlobalQueue", "SetInGlobal"} <=>
                          pc[u] \in {"PushGlobalQueue", "SetInGlobal"}
    BY <1>1, <1>4
  <2>2. \A v \in Worker : pc'[v] = "ClearInGlobal" => pc[v] = "ClearInGlobal" /\ cur'[v] = cur[v]
    BY <1>2, <1>4
  <2> QED
    BY <1>1, <1>2, <1>4, <1>5, <2>1, <2>2 DEF SafetyInv, FlagInv
<1>8. SingleOwner'
  <2>1. \A v \in Worker : v # w => cur[v] # s
    BY <1>3 DEF SafetyInv, SingleOwner
  <2>2. \A v \in Worker : ~Queued(cur[v])'
    BY <1>3, <1>4 DEF SafetyInv, SingleOwner, Queued
  <2>3. \A v, x \in Worker : cur'[v] = cur'[x] /\ cur'[v] # None => v = x
    BY <1>4, <2>1 DEF SafetyInv, SingleOwner
  <2> QED
    BY <1>3, <2>2, <2>3 DEF SingleOwner
<1>9. NoStranded'
  <2>1. ASSUME NEW x \in Sid, Sending(x) PROVE Sending(x)'
    BY <1>1, <1>2, <1>4, <2>1 DEF Sending
  <2> QED
    BY <1>1, <1>5, <2>1 DEF SafetyInv, NoStranded
<1> QED
  BY <1>6, <1>7, <1>8, <1>9 DEF SafetyInv

(* The worker still holds the service whose message it took. *)
LEMMA PopMsgStep ==
  ASSUME TypeInv, SafetyInv, NEW w \in Worker, PopMsg(w), msg_queue[cur[w]] # << >>
  PROVE  SafetyInv'
<1> DEFINE s == cur[w]
<1>1. /\ pc[w] = "PopMsg"
      /\ pc' = [pc EXCEPT ![w] = "Callback"]
      /\ msg_queue' = [msg_queue EXCEPT ![s] = Tail(@)]
      /\ UNCHANGED <<arg, cur, in_global, msg_queue_lock, in_global_lock, global_queue,
                     is_exit>>
  BY DEF PopMsg, svars, Goto
<1>2. /\ pc \in [Thread -> PC] /\ msg_queue \in [Sid -> Seq(Msg)] /\ s \in Sid
      /\ \A v \in Worker : v \in Thread
      /\ \A u \in Thread : pc[u] \in {"PushGlobalQueue", "SetInGlobal"} => arg[u] \in Sid
      /\ \A v \in Worker : pc[v] = "ClearInGlobal" => cur[v] \in Sid
      /\ \A x \in Sid : Queued(x)' = Queued(x) /\ Owned(x)' = Owned(x)
  BY <1>1 DEF TypeInv, TypeOK, Thread, ControlInv, InCall, WorkerLoop, Queued, Owned
<1>3. /\ \A u \in Thread : u # w => pc'[u] = pc[u]
      /\ pc'[w] = "Callback"
      /\ \A x \in Sid : msg_queue'[x] # << >> => msg_queue[x] # << >>
  BY <1>1, <1>2
<1>4. LockInv'
  BY <1>1, <1>2, <1>3 DEF SafetyInv, LockInv
<1>5. FlagInv'
  <2>1. \A v \in Worker : pc'[v] = "ClearInGlobal" => msg_queue'[cur[v]] = << >>
    BY <1>2, <1>3 DEF SafetyInv, FlagInv
  <2>2. \A u \in Thread : pc'[u] \in {"PushGlobalQueue", "SetInGlobal"} => pc'[u] = pc[u]
    BY <1>3
  <2>3. \A u \in Thread : pc[u] = "SetInGlobal" => pc'[u] = pc[u]
    BY <1>1, <1>3
  <2> QED
    BY <1>1, <1>2, <2>1, <2>2, <2>3 DEF SafetyInv, FlagInv
<1>6. SingleOwner'
  BY <1>1 DEF SafetyInv, SingleOwner, Queued, Distinct
<1>7. NoStranded'
  <2>1. ASSUME NEW x \in Sid, Sending(x) PROVE Sending(x)'
    BY <1>1, <1>2, <1>3, <2>1 DEF Sending
  <2> QED
    BY <1>1, <1>2, <1>3, <2>1 DEF SafetyInv, NoStranded
<1> QED
  BY <1>4, <1>5, <1>6, <1>7 DEF SafetyInv

(* A worker only drops a service that has been killed. *)
LEMMA CheckExitStep ==
  ASSUME TypeInv, SafetyInv, NEW w \in Worker, CheckExit(w), is_exit[cur[w]]
  PROVE  SafetyInv'
<1> DEFINE s == cur[w]
<1>1. /\ pc[w] = "CheckExit"
      /\ pc' = [pc EXCEPT ![w] = "PopGlobalQueue"]
      /\ cur' = [cur EXCEPT ![w] = None]
      /\ UNCHANGED <<arg, msg_queue, in_global, msg_queue_lock, in_global_lock,
                     global_queue, is_exit>>
  BY DEF CheckExit, svars, qvars, Goto
<1>2. /\ pc \in [Thread -> PC] /\ cur \in [Worker -> Sid \cup {None}] /\ s \in Sid
      /\ None \notin Sid
      /\ \A v \in Worker : v \in Thread
      /\ \A u \in Thread : pc[u] \in {"PushGlobalQueue", "SetInGlobal"} => arg[u] \in Sid
      /\ \A x \in Sid : Queued(x)' = Queued(x)
  BY <1>1, NoneAssumption
     DEF TypeInv, TypeOK, Thread, ControlInv, InCall, WorkerLoop, Queued
<1>9. ~Queued(None)
  BY NoneAssumption DEF TypeInv, TypeOK, Queued, SeqSet
<1>3. /\ \A u \in Thread : u # w => pc'[u] = pc[u]
      /\ pc'[w] = "PopGlobalQueue"
      /\ \A v \in Worker : v # w => cur'[v] = cur[v]
      /\ cur'[w] = None
  BY <1>1, <1>2
<1>4. /\ \A x \in Sid : Owned(x)' => Owned(x)
      /\ \A x \in Sid : Owned(x) /\ x # s => Owned(x)'
  BY <1>2, <1>3 DEF Owned
<1>5. LockInv'
  BY <1>1, <1>2, <1>3 DEF SafetyInv, LockInv
<1>6. FlagInv'
  <2>1. \A u \in Thread : pc'[u] \in {"PushGlobalQueue", "SetInGlobal"} <=>
                          pc[u] \in {"PushGlobalQueue", "SetInGlobal"}
    BY <1>1, <1>3
  <2>2. \A v \in Worker : pc'[v] = "ClearInGlobal" => pc[v] = "ClearInGlobal" /\ cur'[v] = cur[v]
    BY <1>2, <1>3
  <2> QED
    BY <1>1, <1>2, <1>3, <1>4, <2>1, <2>2 DEF SafetyInv, FlagInv
<1>7. SingleOwner'
  <2>1. \A v \in Worker : ~Queued(cur[v])'
    BY <1>1, <1>2, <1>3, <1>9 DEF SafetyInv, SingleOwner, Queued
  <2>2. \A v, x \in Worker : cur'[v] = cur'[x] /\ cur'[v] # None => v = x
    BY <1>3 DEF SafetyInv, SingleOwner
  <2> QED
    BY <1>1, <2>1, <2>2 DEF SafetyInv, SingleOwner, Distinct
<1>8. NoStranded'
  <2>1. ASSUME NEW x \in Sid, Sending(x) PROVE Sending(x)'
    BY <1>1, <1>2, <1>3, <2>1 DEF Sending
  <2> QED
    BY <1>1, <1>2, <1>4, <2>1 DEF SafetyInv, NoStranded
<1> QED
  BY <1>5, <1>6, <1>7, <1>8 DEF SafetyInv

(* The worker decides under msg_queue_lock, so the decision stays true. *)
LEMMA CheckQueueStep ==
  ASSUME TypeInv, SafetyInv, NEW w \in Worker, CheckQueue(w)
  PROVE  SafetyInv'
<1> DEFINE s == cur[w]
<1>1. /\ pc[w] = "CheckQueue" /\ msg_queue_lock[s] = None
      /\ pc' = [pc EXCEPT ![w] = IF msg_queue[s] # << >> THEN "Requeue"
                                                        ELSE "ClearInGlobal"]
      /\ msg_queue_lock' = [msg_queue_lock EXCEPT ![s] = w]
      /\ UNCHANGED <<arg, cur, msg_queue, in_global, in_global_lock, global_queue, is_exit>>
  BY DEF CheckQueue, svars, wvars, Goto
<1>2. /\ pc \in [Thread -> PC] /\ s \in Sid
      /\ msg_queue_lock \in [Sid -> Thread \cup {None}]
      /\ \A v \in Worker : v \in Thread /\ v # None
      /\ \A u \in Thread : pc[u] \in {"PushGlobalQueue", "SetInGlobal"} => arg[u] \in Sid
      /\ \A x \in Sid : Queued(x)' = Queued(x) /\ Owned(x)' = Owned(x)
  BY <1>1, ThreadAssumption
     DEF TypeInv, TypeOK, Thread, ControlInv, InCall, WorkerLoop, Queued, Owned
<1>3. /\ \A u \in Thread : u # w => pc'[u] = pc[u]
      /\ pc'[w] \in {"Requeue", "ClearInGlobal"}
      /\ pc'[w] = "ClearInGlobal" => msg_queue[s] = << >>
  BY <1>1, <1>2
<1>4. LockInv'
  <2>1. \A v \in Worker : pc[v] \in {"Requeue", "ClearInGlobal"} => cur[v] # s
    BY <1>1, <1>2 DEF SafetyInv, LockInv
  <2>2. \A v \in Worker, x \in Sid :
          msg_queue_lock'[x] = v <=> IF x = s THEN v = w ELSE msg_queue_lock[x] = v
    BY <1>1, <1>2
  <2>3. ASSUME NEW v \in Worker, NEW x \in Sid
        PROVE  msg_queue_lock'[x] = v <=>
                 pc'[v] \in {"Requeue", "ClearInGlobal"} /\ cur'[v] = x
    BY <1>1, <1>2, <1>3, <2>1, <2>2 DEF SafetyInv, LockInv
  <2>4. ASSUME NEW u \in Thread, NEW x \in Sid
        PROVE  in_global_lock'[x] = u <=>
                 pc'[u] \in {"PushGlobalQueue", "SetInGlobal"} /\ arg'[u] = x
    BY <1>1, <1>2, <1>3 DEF SafetyInv, LockInv
  <2>5. \A x \in Sid : msg_queue_lock'[x] \in Worker \cup {None}
    BY <1>1, <1>2 DEF SafetyInv, LockInv
  <2> QED
    BY <2>3, <2>4, <2>5 DEF LockInv
<1>5. FlagInv'
  <2>1. \A u \in Thread : pc'[u] \in {"PushGlobalQueue", "SetInGlobal"} => pc'[u] = pc[u]
    BY <1>1, <1>3
  <2>2. \A u \in Thread : pc[u] = "SetInGlobal" => pc'[u] = pc[u]
    BY <1>1, <1>3
  <2>3. \A v \in Worker : pc'[v] = "ClearInGlobal" => msg_queue[cur[v]] = << >>
    BY <1>2, <1>3 DEF SafetyInv, FlagInv
  <2> QED
    BY <1>1, <1>2, <2>1, <2>2, <2>3 DEF SafetyInv, FlagInv
<1>6. SingleOwner'
  BY <1>1 DEF SafetyInv, SingleOwner, Queued, Distinct
<1>7. NoStranded'
  <2>1. ASSUME NEW x \in Sid, Sending(x) PROVE Sending(x)'
    BY <1>1, <1>2, <1>3, <2>1 DEF Sending
  <2> QED
    BY <1>1, <1>2, <2>1 DEF SafetyInv, NoStranded
<1> QED
  BY <1>4, <1>5, <1>6, <1>7 DEF SafetyInv

(* What Requeue and ClearInGlobal have in common. *)
LEMMA EndTurnStep ==
  ASSUME TypeInv, SafetyInv, NEW w \in Worker, EndTurn(w),
         pc[w] \in {"Requeue", "ClearInGlobal"}
  PROVE  /\ LockInv' /\ cur[w] \in Sid
         /\ \A u \in Thread : u # w => pc'[u] = pc[u]
         /\ pc'[w] = "PopGlobalQueue"
         /\ \A v \in Worker : v # w => cur'[v] = cur[v]
         /\ cur'[w] = None
         /\ \A x \in Sid : Owned(x)' <=> Owned(x) /\ x # cur[w]
         /\ \A x \in Sid : Sending(x) => Sending(x)'
         /\ \A u \in Thread : pc'[u] \in {"PushGlobalQueue", "SetInGlobal"} <=>
                              pc[u] \in {"PushGlobalQueue", "SetInGlobal"}
         /\ \A v \in Worker : pc'[v] = "ClearInGlobal" =>
                              pc[v] = "ClearInGlobal" /\ cur'[v] = cur[v]
         /\ UNCHANGED <<arg, msg_queue, in_global_lock, is_exit>>
<1> DEFINE s == cur[w]
<1>1. /\ pc' = [pc EXCEPT ![w] = "PopGlobalQueue"]
      /\ cur' = [cur EXCEPT ![w] = None]
      /\ msg_queue_lock' = [msg_queue_lock EXCEPT ![s] = None]
      /\ UNCHANGED <<arg, msg_queue, in_global_lock, is_exit>>
  BY DEF EndTurn, svars, Goto
<1>2. /\ pc \in [Thread -> PC] /\ cur \in [Worker -> Sid \cup {None}] /\ s \in Sid
      /\ msg_queue_lock \in [Sid -> Thread \cup {None}] /\ None \notin Sid
      /\ \A v \in Worker : v \in Thread /\ v # None
  BY ThreadAssumption, NoneAssumption
     DEF TypeInv, TypeOK, Thread, ControlInv, WorkerLoop
<1>3. /\ \A u \in Thread : u # w => pc'[u] = pc[u]
      /\ pc'[w] = "PopGlobalQueue"
      /\ \A v \in Worker : v # w => cur'[v] = cur[v]
      /\ cur'[w] = None
  BY <1>1, <1>2
<1>4. \A v \in Worker : v # w => cur[v] # s
  BY <1>2 DEF SafetyInv, SingleOwner
<1>5. \A x \in Sid : Owned(x)' <=> Owned(x) /\ x # s
  BY <1>2, <1>3, <1>4 DEF Owned
<1>6. LockInv'
  <2>1. \A v \in Worker, x \in Sid :
          msg_queue_lock'[x] = v <=> x # s /\ msg_queue_lock[x] = v
    BY <1>1, <1>2
  <2>2. ASSUME NEW v \in Worker, NEW x \in Sid
        PROVE  msg_queue_lock'[x] = v <=>
                 pc'[v] \in {"Requeue", "ClearInGlobal"} /\ cur'[v] = x
    BY <1>2, <1>3, <1>4, <2>1 DEF SafetyInv, LockInv
  <2>3. ASSUME NEW u \in Thread, NEW x \in Sid
        PROVE  in_global_lock'[x] = u <=>
                 pc'[u] \in {"PushGlobalQueue", "SetInGlobal"} /\ arg'[u] = x
    BY <1>1, <1>2, <1>3 DEF SafetyInv, LockInv
  <2>4. \A x \in Sid : msg_queue_lock'[x] \in Worker \cup {None}
    BY <1>1, <1>2 DEF SafetyInv, LockInv
  <2> QED
    BY <2>2, <2>3, <2>4 DEF LockInv
<1>7. \A x \in Sid : Sending(x) => Sending(x)'
  BY <1>1, <1>2, <1>3 DEF Sending
<1> QED
  BY <1>1, <1>2, <1>3, <1>5, <1>6, <1>7

(* The service passes from the worker back to the queue. *)
LEMMA RequeueStep ==
  ASSUME TypeInv, SafetyInv, NEW w \in Worker, Requeue(w)
  PROVE  SafetyInv'
<1> DEFINE s == cur[w]
<1>1. /\ pc[w] = "Requeue" /\ EndTurn(w)
      /\ global_queue' = Append(global_queue, s)
      /\ UNCHANGED in_global
  BY DEF Requeue
<1>2. /\ LockInv' /\ s \in Sid
      /\ \A v \in Worker : v # w => cur'[v] = cur[v]
      /\ cur'[w] = None
      /\ \A x \in Sid : Owned(x)' <=> Owned(x) /\ x # s
      /\ \A x \in Sid : Sending(x) => Sending(x)'
      /\ \A u \in Thread : pc'[u] \in {"PushGlobalQueue", "SetInGlobal"} => pc'[u] = pc[u]
      /\ \A u \in Thread : pc[u] = "SetInGlobal" => pc'[u] = pc[u]
      /\ \A v \in Worker : pc'[v] = "ClearInGlobal" =>
                           pc[v] = "ClearInGlobal" /\ cur'[v] = cur[v]
      /\ UNCHANGED <<arg, msg_queue, in_global_lock, is_exit>>
  <2>1. pc[w] \in {"Requeue", "ClearInGlobal"}
    BY <1>1
  <2> QED
    BY <1>1, <2>1, EndTurnStep
<1>3. /\ \A u \in Thread : pc[u] \in {"PushGlobalQueue", "SetInGlobal"} => arg[u] \in Sid
      /\ global_queue \in Seq(Sid) /\ None \notin Sid
  BY NoneAssumption DEF TypeInv, TypeOK, ControlInv, InCall
<1>4. /\ SeqSet(global_queue') = SeqSet(global_queue) \cup {s}
      /\ Distinct(global_queue')
  <2>1. Distinct(global_queue) /\ s \notin SeqSet(global_queue)
    BY DEF SafetyInv, SingleOwner, Queued
  <2> QED
    BY <1>1, <1>2, <1>3, <2>1, AppendDistinct
<1>5. \A x \in Sid : (Queued(x) \/ Owned(x))' <=> Queued(x) \/ Owned(x)
  <2>1. \A x \in Sid : Queued(x)' <=> Queued(x) \/ x = s
    BY <1>4 DEF Queued
  <2>2. Owned(s)
    BY DEF Owned
  <2> QED
    BY <1>2, <2>1, <2>2
<1>6. FlagInv'
  BY <1>1, <1>2, <1>3, <1>5 DEF SafetyInv, FlagInv
<1>7. SingleOwner'
  <2>1. \A v \in Worker : v # w => cur[v] # s
    BY <1>2, <1>3 DEF SafetyInv, SingleOwner
  <2>2. None \notin SeqSet(global_queue)
    BY <1>3 DEF SeqSet
  <2>3. \A v \in Worker : ~Queued(cur[v])'
    BY <1>2, <1>3, <1>4, <2>1, <2>2 DEF SafetyInv, SingleOwner, Queued
  <2>4. \A v, x \in Worker : cur'[v] = cur'[x] /\ cur'[v] # None => v = x
    BY <1>2 DEF SafetyInv, SingleOwner
  <2> QED
    BY <1>4, <2>3, <2>4 DEF SingleOwner
<1>8. NoStranded'
  BY <1>2, <1>5 DEF SafetyInv, NoStranded
<1> QED
  BY <1>2, <1>6, <1>7, <1>8 DEF SafetyInv

(* The flag is cleared while the queue is still known to be empty. *)
LEMMA ClearInGlobalStep ==
  ASSUME TypeInv, SafetyInv, NEW w \in Worker, ClearInGlobal(w)
  PROVE  SafetyInv'
<1> DEFINE s == cur[w]
<1>1. /\ pc[w] = "ClearInGlobal" /\ EndTurn(w) /\ in_global_lock[s] = None
      /\ in_global' = [in_global EXCEPT ![s] = FALSE]
      /\ UNCHANGED global_queue
  BY DEF ClearInGlobal
<1>2. /\ LockInv' /\ s \in Sid
      /\ \A v \in Worker : v # w => cur'[v] = cur[v]
      /\ cur'[w] = None
      /\ \A x \in Sid : Owned(x)' <=> Owned(x) /\ x # s
      /\ \A x \in Sid : Sending(x) => Sending(x)'
      /\ \A u \in Thread : pc'[u] \in {"PushGlobalQueue", "SetInGlobal"} => pc'[u] = pc[u]
      /\ \A u \in Thread : pc[u] = "SetInGlobal" => pc'[u] = pc[u]
      /\ \A v \in Worker : pc'[v] = "ClearInGlobal" =>
                           pc[v] = "ClearInGlobal" /\ cur'[v] = cur[v]
      /\ UNCHANGED <<arg, msg_queue, in_global_lock, is_exit>>
  <2>1. pc[w] \in {"Requeue", "ClearInGlobal"}
    BY <1>1
  <2> QED
    BY <1>1, <2>1, EndTurnStep
<1>3. /\ \A u \in Thread : pc[u] \in {"PushGlobalQueue", "SetInGlobal"} => arg[u] \in Sid
      /\ \A u \in Thread : u # None
      /\ in_global \in [Sid -> BOOLEAN]
      /\ global_queue \in Seq(Sid) /\ None \notin Sid
  BY NoneAssumption, ThreadAssumption DEF TypeInv, TypeOK, ControlInv, InCall
<1>4. \A x \in Sid : Queued(x)' = Queued(x)
  BY <1>1 DEF Queued
<1>5. ~Queued(s) /\ msg_queue[s] = << >>
  BY <1>1 DEF SafetyInv, SingleOwner, FlagInv
<1>6. \A u \in Thread : pc[u] \in {"PushGlobalQueue", "SetInGlobal"} => arg[u] # s
  BY <1>1, <1>2, <1>3 DEF SafetyInv, LockInv
<1>7. /\ \A x \in Sid : x # s => in_global'[x] = in_global[x]
      /\ in_global'[s] = FALSE
  BY <1>1, <1>2, <1>3
<1>8. FlagInv'
  BY <1>1, <1>2, <1>3, <1>4, <1>5, <1>6, <1>7 DEF SafetyInv, FlagInv
<1>9. SingleOwner'
  <2>1. None \notin SeqSet(global_queue)
    BY <1>3 DEF SeqSet
  <2>2. \A v \in Worker : ~Queued(cur[v])'
    BY <1>1, <1>2, <2>1 DEF SafetyInv, SingleOwner, Queued
  <2>3. \A v, x \in Worker : cur'[v] = cur'[x] /\ cur'[v] # None => v = x
    BY <1>2 DEF SafetyInv, SingleOwner
  <2> QED
    BY <1>1, <2>2, <2>3 DEF SafetyInv, SingleOwner, Distinct
<1>10. NoStranded'
  BY <1>2, <1>4, <1>5 DEF SafetyInv, NoStranded
<1> QED
  BY <1>2, <1>8, <1>9, <1>10 DEF SafetyInv

(* SafetyInv is inductive relative to TypeInv. *)
LEMMA SafetyStep == TypeInv /\ SafetyInv /\ [Next]_vars => SafetyInv'
<1> SUFFICES ASSUME TypeInv, SafetyInv, [Next]_vars PROVE SafetyInv'
  OBVIOUS
<1> USE DEF svars, qvars, wvars, Goto
<1>0. /\ pc \in [Thread -> PC] /\ arg \in [Thread -> Sid \cup {None}]
      /\ Socket \in Thread /\ \A w \in Worker : w \in Thread
  BY DEF TypeInv, TypeOK, Thread
<1>1. ASSUME NEW t \in Thread, NEW s \in Sid, NEW m \in Msg, Send(t, s, m) PROVE SafetyInv'
  <2>1. UNCHANGED <<msg_queue, in_global, msg_queue_lock, in_global_lock,
                           global_queue, is_exit, cur>>
    BY <1>1 DEF Send, SendTo, MayCall
  <2>2. ASSUME NEW u \in Thread
       PROVE  \/ pc'[u] = pc[u] /\ arg'[u] = arg[u]
              \/ pc[u] \notin Critical /\ pc'[u] \notin Critical
    BY <1>1, <1>0 DEF Send, SendTo, MayCall, Critical
  <2> QED
    BY <2>1, <2>2, QuietStep DEF Quiet
<1>2. ASSUME NEW s \in Sid, NEW m \in Msg, SocketSend(s, m) PROVE SafetyInv'
  <2>1. UNCHANGED <<msg_queue, in_global, msg_queue_lock, in_global_lock,
                           global_queue, is_exit, cur>>
    BY <1>2 DEF SocketSend, SendTo
  <2>2. ASSUME NEW u \in Thread
       PROVE  \/ pc'[u] = pc[u] /\ arg'[u] = arg[u]
              \/ pc[u] \notin Critical /\ pc'[u] \notin Critical
    BY <1>2, <1>0 DEF SocketSend, SendTo, Critical
  <2> QED
    BY <2>1, <2>2, QuietStep DEF Quiet
<1>3. ASSUME NEW t \in Thread, PushMsg(t) PROVE SafetyInv'
  BY <1>3, PushMsgStep
<1>4. ASSUME NEW t \in Thread, CheckInGlobal(t) PROVE SafetyInv'
  BY <1>4, CheckInGlobalStep
<1>5. ASSUME NEW t \in Thread, PushGlobalQueue(t) PROVE SafetyInv'
  BY <1>5, PushGlobalQueueStep
<1>6. ASSUME NEW t \in Thread, SetInGlobal(t) PROVE SafetyInv'
  BY <1>6, SetInGlobalStep
<1>7. ASSUME NEW t \in Thread, CheckAndWeakUp(t) PROVE SafetyInv'
  <2>1. UNCHANGED <<msg_queue, in_global, msg_queue_lock, in_global_lock,
                           global_queue, is_exit, cur>>
    BY <1>7 DEF CheckAndWeakUp, Return, Resume, Sleeping
  <2>2. ASSUME NEW u \in Thread
       PROVE  \/ pc'[u] = pc[u] /\ arg'[u] = arg[u]
              \/ pc[u] \notin Critical /\ pc'[u] \notin Critical
    BY <1>7, <1>0 DEF CheckAndWeakUp, Return, Resume, Sleeping, Critical
  <2> QED
    BY <2>1, <2>2, QuietStep DEF Quiet
<1>8. ASSUME NEW t \in Thread, NewService(t) PROVE SafetyInv'
  <2>1. UNCHANGED <<msg_queue, in_global, msg_queue_lock, in_global_lock,
                           global_queue, is_exit, cur>>
    BY <1>8 DEF NewService, MayCall
  <2>2. ASSUME NEW u \in Thread
       PROVE  \/ pc'[u] = pc[u] /\ arg'[u] = arg[u]
              \/ pc[u] \notin Critical /\ pc'[u] \notin Critical
    BY <1>8, <1>0 DEF NewService, MayCall, Critical
  <2> QED
    BY <2>1, <2>2, QuietStep DEF Quiet
<1>9. ASSUME NEW t \in Thread, OnInit(t) PROVE SafetyInv'
  <2>1. UNCHANGED <<msg_queue, in_global, msg_queue_lock, in_global_lock,
                           global_queue, is_exit, cur>>
    BY <1>9 DEF OnInit
  <2>2. ASSUME NEW u \in Thread
       PROVE  \/ pc'[u] = pc[u] /\ arg'[u] = arg[u]
              \/ pc[u] \notin Critical /\ pc'[u] \notin Critical
    BY <1>9, <1>0 DEF OnInit, Critical
  <2> QED
    BY <2>1, <2>2, QuietStep DEF Quiet
<1>10. ASSUME NEW t \in Thread, NEW s \in Sid, KillService(t, s) PROVE SafetyInv'
  <2>1. UNCHANGED <<msg_queue, in_global, msg_queue_lock, in_global_lock,
                           global_queue, is_exit, cur>>
    BY <1>10 DEF KillService
  <2>2. ASSUME NEW u \in Thread
       PROVE  \/ pc'[u] = pc[u] /\ arg'[u] = arg[u]
              \/ pc[u] \notin Critical /\ pc'[u] \notin Critical
    BY <1>10, <1>0 DEF KillService, Critical
  <2> QED
    BY <2>1, <2>2, QuietStep DEF Quiet
<1>11. ASSUME NEW t \in Thread, SetExit(t) PROVE SafetyInv'
  BY <1>11, SetExitStep
<1>12. ASSUME NEW t \in Thread, Erase(t) PROVE SafetyInv'
  <2>1. UNCHANGED <<msg_queue, in_global, msg_queue_lock, in_global_lock,
                           global_queue, is_exit, cur>>
    BY <1>12 DEF Erase, Return, Resume
  <2>2. ASSUME NEW u \in Thread
       PROVE  \/ pc'[u] = pc[u] /\ arg'[u] = arg[u]
              \/ pc[u] \notin Critical /\ pc'[u] \notin Critical
    BY <1>12, <1>0 DEF Erase, Return, Resume, Critical
  <2> QED
    BY <2>1, <2>2, QuietStep DEF Quiet
<1>13. ASSUME NEW t \in Thread, Listen(t) PROVE SafetyInv'
  <2>1. UNCHANGED <<msg_queue, in_global, msg_queue_lock, in_global_lock,
                           global_queue, is_exit, cur>>
    BY <1>13 DEF Listen
  <2>2. ASSUME NEW u \in Thread
       PROVE  \/ pc'[u] = pc[u] /\ arg'[u] = arg[u]
              \/ pc[u] \notin Critical /\ pc'[u] \notin Critical
    BY <1>13, <1>0 DEF Listen, Critical
  <2> QED
    BY <2>1, <2>2, QuietStep DEF Quiet
<1>14. ASSUME NEW t \in Thread, ReturnOnInit(t) PROVE SafetyInv'
  <2>1. UNCHANGED <<msg_queue, in_global, msg_queue_lock, in_global_lock,
                           global_queue, is_exit, cur>>
    BY <1>14 DEF ReturnOnInit, Resume
  <2>2. ASSUME NEW u \in Thread
       PROVE  \/ pc'[u] = pc[u] /\ arg'[u] = arg[u]
              \/ pc[u] \notin Critical /\ pc'[u] \notin Critical
    BY <1>14, <1>0 DEF ReturnOnInit, Resume, Critical
  <2> QED
    BY <2>1, <2>2, QuietStep DEF Quiet
<1>15. ASSUME NEW t \in Thread, ReturnOnExit(t) PROVE SafetyInv'
  <2>1. UNCHANGED <<msg_queue, in_global, msg_queue_lock, in_global_lock,
                           global_queue, is_exit, cur>>
    BY <1>15 DEF ReturnOnExit
  <2>2. ASSUME NEW u \in Thread
       PROVE  \/ pc'[u] = pc[u] /\ arg'[u] = arg[u]
              \/ pc[u] \notin Critical /\ pc'[u] \notin Critical
    BY <1>15, <1>0 DEF ReturnOnExit, Critical
  <2> QED
    BY <2>1, <2>2, QuietStep DEF Quiet
<1>16. ASSUME NEW w \in Worker, PopGlobalQueue(w) PROVE SafetyInv'
  <2>1. CASE global_queue # << >>
    BY <1>16, <2>1, PopGlobalQueueStep
  <2>2. CASE global_queue = << >>
    <3>1. UNCHANGED <<msg_queue, in_global, msg_queue_lock, in_global_lock,
                           global_queue, is_exit, cur>>
      BY <1>16, <2>2 DEF PopGlobalQueue
    <3>2. ASSUME NEW u \in Thread
       PROVE  \/ pc'[u] = pc[u] /\ arg'[u] = arg[u]
              \/ pc[u] \notin Critical /\ pc'[u] \notin Critical
      BY <1>16, <2>2, <1>0 DEF PopGlobalQueue, Critical
    <3> QED
      BY <3>1, <3>2, QuietStep DEF Quiet
  <2> QED
    BY <2>1, <2>2
<1>17. ASSUME NEW w \in Worker, WorkerWait(w) PROVE SafetyInv'
  <2>1. UNCHANGED <<msg_queue, in_global, msg_queue_lock, in_global_lock,
                           global_queue, is_exit, cur>>
    BY <1>17 DEF WorkerWait
  <2>2. ASSUME NEW u \in Thread
       PROVE  \/ pc'[u] = pc[u] /\ arg'[u] = arg[u]
              \/ pc[u] \notin Critical /\ pc'[u] \notin Critical
    BY <1>17, <1>0 DEF WorkerWait, Critical
  <2> QED
    BY <2>1, <2>2, QuietStep DEF Quiet
<1>18. ASSUME NEW w \in Worker, SpuriousWakeUp(w) PROVE SafetyInv'
  <2>1. UNCHANGED <<msg_queue, in_global, msg_queue_lock, in_global_lock,
                           global_queue, is_exit, cur>>
    BY <1>18 DEF SpuriousWakeUp
  <2>2. ASSUME NEW u \in Thread
       PROVE  \/ pc'[u] = pc[u] /\ arg'[u] = arg[u]
              \/ pc[u] \notin Critical /\ pc'[u] \notin Critical
    BY <1>18, <1>0 DEF SpuriousWakeUp, Critical
  <2> QED
    BY <2>1, <2>2, QuietStep DEF Quiet
<1>19. ASSUME NEW w \in Worker, WakeUp(w) PROVE SafetyInv'
  <2>1. UNCHANGED <<msg_queue, in_global, msg_queue_lock, in_global_lock,
                           global_queue, is_exit, cur>>
    BY <1>19 DEF WakeUp
  <2>2. ASSUME NEW u \in Thread
       PROVE  \/ pc'[u] = pc[u] /\ arg'[u] = arg[u]
              \/ pc[u] \notin Critical /\ pc'[u] \notin Critical
    BY <1>19, <1>0 DEF WakeUp, Critical
  <2> QED
    BY <2>1, <2>2, QuietStep DEF Quiet
<1>20. ASSUME NEW w \in Worker, PopMsg(w) PROVE SafetyInv'
  <2>1. CASE msg_queue[cur[w]] # << >>
    BY <1>20, <2>1, PopMsgStep
  <2>2. CASE msg_queue[cur[w]] = << >>
    <3>1. UNCHANGED <<msg_queue, in_global, msg_queue_lock, in_global_lock,
                           global_queue, is_exit, cur>>
      BY <1>20, <2>2 DEF PopMsg
    <3>2. ASSUME NEW u \in Thread
       PROVE  \/ pc'[u] = pc[u] /\ arg'[u] = arg[u]
              \/ pc[u] \notin Critical /\ pc'[u] \notin Critical
      BY <1>20, <2>2, <1>0 DEF PopMsg, Critical
    <3> QED
      BY <3>1, <3>2, QuietStep DEF Quiet
  <2> QED
    BY <2>1, <2>2
<1>21. ASSUME NEW w \in Worker, ReturnOnMsg(w) PROVE SafetyInv'
  <2>1. UNCHANGED <<msg_queue, in_global, msg_queue_lock, in_global_lock,
                           global_queue, is_exit, cur>>
    BY <1>21 DEF ReturnOnMsg
  <2>2. ASSUME NEW u \in Thread
       PROVE  \/ pc'[u] = pc[u] /\ arg'[u] = arg[u]
              \/ pc[u] \notin Critical /\ pc'[u] \notin Critical
    BY <1>21, <1>0 DEF ReturnOnMsg, Critical
  <2> QED
    BY <2>1, <2>2, QuietStep DEF Quiet
<1>22. ASSUME NEW w \in Worker, CheckExit(w) PROVE SafetyInv'
  <2>1. CASE is_exit[cur[w]]
    BY <1>22, <2>1, CheckExitStep
  <2>2. CASE ~is_exit[cur[w]]
    <3>1. UNCHANGED <<msg_queue, in_global, msg_queue_lock, in_global_lock,
                           global_queue, is_exit, cur>>
      BY <1>22, <2>2 DEF CheckExit
    <3>2. ASSUME NEW u \in Thread
       PROVE  \/ pc'[u] = pc[u] /\ arg'[u] = arg[u]
              \/ pc[u] \notin Critical /\ pc'[u] \notin Critical
      BY <1>22, <2>2, <1>0 DEF CheckExit, Critical
    <3> QED
      BY <3>1, <3>2, QuietStep DEF Quiet
  <2> QED
    BY <2>1, <2>2
<1>23. ASSUME NEW w \in Worker, CheckQueue(w) PROVE SafetyInv'
  BY <1>23, CheckQueueStep
<1>24. ASSUME NEW w \in Worker, Requeue(w) PROVE SafetyInv'
  BY <1>24, RequeueStep
<1>25. ASSUME NEW w \in Worker, ClearInGlobal(w) PROVE SafetyInv'
  BY <1>25, ClearInGlobalStep
<1>26. CASE UNCHANGED vars
  BY <1>26, QuietStep DEF vars, tvars, Quiet
<1> QED
  BY <1>1, <1>2, <1>3, <1>4, <1>5, <1>6, <1>7, <1>8, <1>9, <1>10, <1>11,
     <1>12, <1>13, <1>14, <1>15, <1>16, <1>17, <1>18, <1>19, <1>20,
     <1>21, <1>22, <1>23, <1>24, <1>25, <1>26
     DEF Next, ApiCall, CallStep, WorkerStep

(* Hence both hold in every reachable state. *)
LEMMA InductiveInvariant == Spec => [](TypeInv /\ SafetyInv)
<1>1. Init => TypeInv /\ SafetyInv
  BY TypeInit, SafetyInit
<1>2. TypeInv /\ SafetyInv /\ [Next]_vars => (TypeInv /\ SafetyInv)'
  BY TypeStep, SafetyStep
<1> QED
  BY <1>1, <1>2, PTL DEF Spec

(* No service is ever in the hands of two workers, or in two places of the *)
(* global queue, or in both: CheckAndPutGlobal and Send agree through      *)
(* in_global, even while services are killed.                              *)
THEOREM SingleOwnerAlways == Spec => []SingleOwner
<1>1. SafetyInv => SingleOwner
  BY DEF SafetyInv
<1> QED
  BY <1>1, InductiveInvariant, PTL

(* The messages of a live service are never left behind by the race between *)
(* a sender's PushMsg and a worker's CheckAndPutGlobal.                    *)
THEOREM NoStrandedAlways == Spec => []NoStranded
<1>1. SafetyInv => NoStranded
  BY DEF SafetyInv
<1> QED
  BY <1>1, InductiveInvariant, PTL

-----------------------------------------------------------------------------
(* What in_global says of the services that no script kills. *)

KillFrame(f) == f.kind = "OnExit" => f.srv \in KillTarget

(* Only a service that a script kills is ever on its way out. *)
KillInv ==
  /\ \A t \in Thread : \A i \in DOMAIN frames[t] : KillFrame(frames[t][i])
  /\ \A t \in Thread : pc[t] \in {"SetExit", "Erase"} => arg[t] \in KillTarget
  /\ \A s \in Sid : is_exit[s] => s \in KillTarget

(* Nobody is on the way out at the start. *)
LEMMA KillInit == Init => KillInv
BY DEF Init, KillInv

(* The callback that a thread enters goes in front of those it is in. *)
LEMMA EnterFrame ==
  ASSUME TypeOK, NEW t \in Thread, NEW f \in Frame, KillFrame(f),
         \A u \in Thread : \A i \in DOMAIN frames[u] : KillFrame(frames[u][i]),
         frames' = [frames EXCEPT ![t] = <<f>> \o @]
  PROVE  \A u \in Thread : \A i \in DOMAIN frames'[u] : KillFrame(frames'[u][i])
<1>1. frames \in [Thread -> Seq(Frame)] /\ <<f>> \in Seq(Frame)
  BY DEF TypeOK
<1>2. frames'[t] = <<f>> \o frames[t] /\ \A u \in Thread \ {t} : frames'[u] = frames[u]
  BY <1>1
<1>3. ASSUME NEW i \in DOMAIN frames'[t] PROVE KillFrame(frames'[t][i])
  <2>1. /\ frames[t] \in Seq(Frame) /\ i \in 1 .. Len(frames[t]) + 1
        /\ frames'[t][i] = IF i = 1 THEN f ELSE frames[t][i - 1]
        /\ i # 1 => i - 1 \in DOMAIN frames[t]
    BY <1>1, <1>2, <1>3
  <2> QED
    BY <2>1
<1> QED
  BY <1>2, <1>3

(* A callback that returns leaves those below it. *)
LEMMA LeaveFrame ==
  ASSUME TypeOK, NEW t \in Thread, frames[t] # << >>,
         \A u \in Thread : \A i \in DOMAIN frames[u] : KillFrame(frames[u][i]),
         frames' = [frames EXCEPT ![t] = Tail(@)]
  PROVE  \A u \in Thread : \A i \in DOMAIN frames'[u] : KillFrame(frames'[u][i])
<1>1. frames \in [Thread -> Seq(Frame)]
  BY DEF TypeOK
<1>2. frames'[t] = Tail(frames[t]) /\ \A u \in Thread \ {t} : frames'[u] = frames[u]
  BY <1>1
<1>3. ASSUME NEW i \in DOMAIN frames'[t] PROVE KillFrame(frames'[t][i])
  <2>1. /\ frames[t] \in Seq(Frame) /\ i + 1 \in DOMAIN frames[t]
        /\ frames'[t][i] = frames[t][i + 1]
    BY <1>1, <1>2, <1>3
  <2> QED
    BY <2>1
<1> QED
  BY <1>2, <1>3

(* KillService enters OnExit only for a target; the thread that returns    *)
(* from it sets the flag of that service.                                  *)
LEMMA KillStep == TypeInv /\ KillInv /\ [Next]_vars => KillInv'
<1> SUFFICES ASSUME TypeInv, KillInv, [Next]_vars PROVE KillInv'
  OBVIOUS
<1> USE DEF svars, qvars, wvars, Goto
<1>0. /\ TypeOK
      /\ pc \in [Thread -> PC] /\ arg \in [Thread -> Sid \cup {None}]
      /\ is_exit \in [Sid -> BOOLEAN]
      /\ Socket \in Thread /\ \A w \in Worker : w \in Thread
      /\ \A t \in Thread : pc[t] = "Callback" => frames[t] # << >>
  BY DEF TypeInv, TypeOK, ControlInv, Thread
(* A step that leaves the callbacks and the flags alone and does not bring *)
(* a thread to SetExit *)
<1>1. ASSUME UNCHANGED <<frames, is_exit>>,
             \A u \in Thread : \/ pc'[u] \notin {"SetExit", "Erase"}
                               \/ pc'[u] = pc[u] /\ arg'[u] = arg[u]
      PROVE  KillInv'
  BY <1>1 DEF KillInv
(* A step of one thread to a point elsewhere *)
<1>2. ASSUME NEW t \in Thread, NEW l, l \notin {"SetExit", "Erase"},
             pc' = [pc EXCEPT ![t] = l],
             \A u \in Thread : u # t => arg'[u] = arg[u], UNCHANGED <<frames, is_exit>>
      PROVE  KillInv'
  <2>1. \A u \in Thread : pc'[u] = IF u = t THEN l ELSE pc[u]
    BY <1>2, <1>0
  <2> QED
    BY <2>1, <1>1, <1>2
(* A step of one thread into or out of a callback *)
<1>3. ASSUME NEW t \in Thread, \A u \in Thread : u # t => pc'[u] = pc[u],
             pc'[t] \notin {"SetExit", "Erase"}, UNCHANGED <<is_exit>>,
             \A u \in Thread : u # t => arg'[u] = arg[u],
             \A u \in Thread : \A i \in DOMAIN frames'[u] : KillFrame(frames'[u][i])
      PROVE  KillInv'
  BY <1>3 DEF KillInv
<1>4. \A t \in Thread : \A fs : Resume(t, fs) \notin {"SetExit", "Erase"}
  BY DEF Resume
<1>5. ASSUME NEW t \in Thread, NEW s \in Sid, NEW m \in Msg, Send(t, s, m) PROVE KillInv'
  <2>1. UNCHANGED <<frames, is_exit>>
    BY <1>5 DEF Send, SendTo
  <2>2. CASE s \in services
    BY <1>2, <1>5, <1>0, <2>1, <2>2 DEF Send, SendTo
  <2>3. CASE s \notin services
    BY <1>1, <1>5, <2>1, <2>3 DEF Send, SendTo
  <2> QED
    BY <2>2, <2>3
<1>6. ASSUME NEW s \in Sid, NEW m \in Msg, SocketSend(s, m) PROVE KillInv'
  <2>1. UNCHANGED <<frames, is_exit>>
    BY <1>6 DEF SocketSend, SendTo
  <2>2. CASE s \in services
    BY <1>2, <1>6, <1>0, <2>1, <2>2 DEF SocketSend, SendTo
  <2>3. CASE s \notin services
    BY <1>1, <1>6, <2>1, <2>3 DEF SocketSend, SendTo
  <2> QED
    BY <2>2, <2>3
<1>7. ASSUME NEW t \in Thread, NewService(t) PROVE KillInv'
  BY <1>2, <1>7, <1>0 DEF NewService
<1>8. ASSUME NEW t \in Thread, NEW s \in Sid, KillService(t, s) PROVE KillInv'
  <2>1. UNCHANGED <<pc, arg, is_exit>> /\ s \in KillTarget /\ MayCall(t)
    BY <1>8 DEF KillService
  <2>2. CASE s \in services
    <3>1. frames' = [frames EXCEPT ![t] = <<[kind |-> "OnExit", srv |-> s]>> \o @]
      BY <1>8, <2>2 DEF KillService, Enter
    <3>2. [kind |-> "OnExit", srv |-> s] \in Frame /\ KillFrame([kind |-> "OnExit", srv |-> s])
      BY <2>1 DEF Frame, KillFrame
    <3> HIDE DEF Goto
    <3>3. \A u \in Thread : \A i \in DOMAIN frames'[u] : KillFrame(frames'[u][i])
      BY <3>1, <3>2, <1>0, EnterFrame DEF KillInv
    <3> QED
      BY <1>3, <2>1, <3>3 DEF MayCall
  <2>3. CASE s \notin services
    BY <1>1, <1>8, <2>1, <2>3 DEF KillService
  <2> QED
    BY <2>2, <2>3
<1>9. ASSUME NEW t \in Thread, Listen(t) PROVE KillInv'
  BY <1>1, <1>9 DEF Listen
<1>10. ASSUME NEW t \in Thread, PushMsg(t) PROVE KillInv'
  BY <1>2, <1>10 DEF PushMsg
<1>11. ASSUME NEW t \in Thread, CheckInGlobal(t) PROVE KillInv'
  <2>1. UNCHANGED <<frames, is_exit>> /\ \A u \in Thread : u # t => arg'[u] = arg[u]
    BY <1>11, <1>0 DEF CheckInGlobal
  <2> QED
    BY <1>2, <1>4, <1>11, <2>1 DEF CheckInGlobal, Return
<1>12. ASSUME NEW t \in Thread, PushGlobalQueue(t) PROVE KillInv'
  BY <1>2, <1>12 DEF PushGlobalQueue
<1>13. ASSUME NEW t \in Thread, SetInGlobal(t) PROVE KillInv'
  BY <1>2, <1>0, <1>13 DEF SetInGlobal
<1>14. ASSUME NEW t \in Thread, CheckAndWeakUp(t) PROVE KillInv'
  <2>1. CASE NeedWakeUp /\ Sleeping # {}
    <3>1. PICK w \in Sleeping :
            pc' = [pc EXCEPT ![t] = Resume(t, frames[t]), ![w] = "Waking"]
      BY <1>14, <2>1 DEF CheckAndWeakUp
    <3>2. \A u \in Thread : \/ pc'[u] = pc[u]
                            \/ pc'[u] \in {Resume(t, frames[t]), "Waking"}
      BY <3>1, <1>0
    <3> QED
      BY <1>1, <1>4, <1>14, <3>2 DEF CheckAndWeakUp
  <2>2. CASE ~(NeedWakeUp /\ Sleeping # {})
    BY <1>2, <1>4, <1>14, <2>2 DEF CheckAndWeakUp, Return
  <2> QED
    BY <2>1, <2>2
<1>15. ASSUME NEW t \in Thread, OnInit(t) PROVE KillInv'
  <2>1. /\ arg[t] \in Sid
        /\ frames' = [frames EXCEPT ![t] = <<[kind |-> "OnInit", srv |-> arg[t]]>> \o @]
        /\ pc' = [pc EXCEPT ![t] = "Callback"] /\ is_exit' = is_exit
        /\ arg' = [arg EXCEPT ![t] = None]
    BY <1>15 DEF OnInit, Enter, TypeInv, ControlInv, InCall
  <2>2. /\ [kind |-> "OnInit", srv |-> arg[t]] \in Frame
        /\ KillFrame([kind |-> "OnInit", srv |-> arg[t]])
    BY <2>1 DEF Frame, KillFrame
  <2>3. \A u \in Thread : \A i \in DOMAIN frames'[u] : KillFrame(frames'[u][i])
    BY <2>1, <2>2, <1>0, EnterFrame DEF KillInv
  <2> QED
    BY <1>0, <1>3, <2>1, <2>3
<1>16. ASSUME NEW t \in Thread, SetExit(t) PROVE KillInv'
  <2>1. /\ pc[t] = "SetExit" /\ arg[t] \in KillTarget
        /\ is_exit' = [is_exit EXCEPT ![arg[t]] = TRUE]
        /\ pc' = [pc EXCEPT ![t] = "Erase"] /\ UNCHANGED <<frames, arg>>
    BY <1>16 DEF SetExit, KillInv
  <2>2. \A s \in Sid : is_exit'[s] => is_exit[s] \/ s = arg[t]
    BY <2>1, <1>0
  <2>3. \A u \in Thread : pc'[u] = IF u = t THEN "Erase" ELSE pc[u]
    BY <2>1, <1>0
  <2> QED
    BY <2>1, <2>2, <2>3 DEF KillInv
<1>17. ASSUME NEW t \in Thread, Erase(t) PROVE KillInv'
  BY <1>2, <1>4, <1>0, <1>17 DEF Erase, Return
<1>18. ASSUME NEW t \in Thread, ReturnOnInit(t) PROVE KillInv'
  <2>1. /\ frames[t] # << >>
        /\ frames' = [frames EXCEPT ![t] = Tail(@)]
        /\ pc' = [pc EXCEPT ![t] = Resume(t, Tail(frames[t]))] /\ UNCHANGED <<arg, is_exit>>
    BY <1>0, <1>18 DEF ReturnOnInit
  <2>2. \A u \in Thread : \A i \in DOMAIN frames'[u] : KillFrame(frames'[u][i])
    BY <2>1, <1>0, LeaveFrame DEF KillInv
  <2> QED
    BY <1>0, <1>3, <1>4, <2>1, <2>2
<1>19. ASSUME NEW t \in Thread, ReturnOnExit(t) PROVE KillInv'
  <2>1. /\ frames[t] # << >> /\ Head(frames[t]).kind = "OnExit"
        /\ frames' = [frames EXCEPT ![t] = Tail(@)]
        /\ arg' = [arg EXCEPT ![t] = Head(frames[t]).srv]
        /\ pc' = [pc EXCEPT ![t] = "SetExit"] /\ is_exit' = is_exit
    BY <1>0, <1>19 DEF ReturnOnExit
  <2>2. \A u \in Thread : \A i \in DOMAIN frames'[u] : KillFrame(frames'[u][i])
    BY <2>1, <1>0, LeaveFrame DEF KillInv
  <2>3. Head(frames[t]) = frames[t][1] /\ 1 \in DOMAIN frames[t]
    BY <2>1, <1>0 DEF TypeOK
  <2>4. Head(frames[t]).srv \in KillTarget
    BY <2>1, <2>3 DEF KillInv, KillFrame
  <2>5. \A u \in Thread : /\ pc'[u] = IF u = t THEN "SetExit" ELSE pc[u]
                          /\ arg'[u] = IF u = t THEN Head(frames[t]).srv ELSE arg[u]
    BY <2>1, <1>0
  <2> QED
    BY <2>1, <2>2, <2>4, <2>5 DEF KillInv
<1>20. ASSUME NEW w \in Worker, PopGlobalQueue(w) PROVE KillInv'
  BY <1>0, <1>2, <1>20 DEF PopGlobalQueue
<1>21. ASSUME NEW w \in Worker, WorkerWait(w) \/ SpuriousWakeUp(w) \/ WakeUp(w) PROVE KillInv'
  BY <1>0, <1>2, <1>21 DEF WorkerWait, SpuriousWakeUp, WakeUp
<1>22. ASSUME NEW w \in Worker, PopMsg(w) PROVE KillInv'
  <2>1. CASE msg_queue[cur[w]] = << >>
    BY <1>0, <1>2, <1>22, <2>1 DEF PopMsg
  <2>2. CASE msg_queue[cur[w]] # << >>
    <3>1. /\ frames' = [frames EXCEPT ![w] = <<[kind |-> "OnMsg", srv |-> cur[w]]>> \o @]
          /\ pc' = [pc EXCEPT ![w] = "Callback"] /\ UNCHANGED <<arg, is_exit>>
          /\ cur[w] \in Sid
      BY <1>22, <2>2 DEF PopMsg, Enter, TypeInv, TypeOK, ControlInv, WorkerLoop
    <3>2. /\ [kind |-> "OnMsg", srv |-> cur[w]] \in Frame
          /\ KillFrame([kind |-> "OnMsg", srv |-> cur[w]])
      BY <3>1 DEF Frame, KillFrame
    <3>3. \A u \in Thread : \A i \in DOMAIN frames'[u] : KillFrame(frames'[u][i])
      BY <3>1, <3>2, <1>0, EnterFrame DEF KillInv
    <3> QED
      BY <1>0, <1>3, <3>1, <3>3
  <2> QED
    BY <2>1, <2>2
<1>23. ASSUME NEW w \in Worker, ReturnOnMsg(w) PROVE KillInv'
  <2>1. /\ frames[w] # << >>
        /\ frames' = [frames EXCEPT ![w] = Tail(@)]
        /\ \/ pc' = [pc EXCEPT ![w] = "PopMsg"]
           \/ pc' = [pc EXCEPT ![w] = "CheckExit"]
        /\ UNCHANGED <<arg, is_exit>>
    BY <1>0, <1>23 DEF ReturnOnMsg
  <2>2. \A u \in Thread : \A i \in DOMAIN frames'[u] : KillFrame(frames'[u][i])
    BY <2>1, <1>0, LeaveFrame DEF KillInv
  <2> QED
    BY <1>0, <1>3, <2>1, <2>2
<1>24. ASSUME NEW w \in Worker, CheckExit(w) PROVE KillInv'
  BY <1>0, <1>2, <1>24 DEF CheckExit
<1>25. ASSUME NEW w \in Worker, CheckQueue(w) PROVE KillInv'
  BY <1>0, <1>2, <1>25 DEF CheckQueue
<1>26. ASSUME NEW w \in Worker, Requeue(w) \/ ClearInGlobal(w) PROVE KillInv'
  BY <1>0, <1>2, <1>26 DEF Requeue, ClearInGlobal, EndTurn
<1>27. CASE UNCHANGED vars
  BY <1>1, <1>27 DEF vars, tvars
<1> QED
  BY <1>5, <1>6, <1>7, <1>8, <1>9, <1>10, <1>11, <1>12, <1>13, <1>14, <1>15,
     <1>16, <1>17, <1>18, <1>19, <1>20, <1>21, <1>22, <1>23, <1>24, <1>25,
     <1>26, <1>27
     DEF Next, ApiCall, CallStep, WorkerStep

(* Hence only a target's is_exit is ever set. *)
LEMMA KillCorrect == Spec => []KillInv
<1>1. TypeInv /\ KillInv /\ [Next]_vars => KillInv'
  BY KillStep
<1> QED
  BY <1>1, KillInit, InductiveInvariant, PTL DEF Spec

(* in_global of a service that no script kills says what the comment of    *)
(* Service.h:40 says: it is in the global queue or a worker has it.  The   *)
(* sender sets it after the push, while a worker may already have taken    *)
(* the service, but not have cleared it: CheckAndPutGlobal waits for       *)
(* in_global_lock.                                                         *)
THEOREM InGlobalOfLiving ==
  Spec => [](\A s \in Sid \ KillTarget : in_global[s] => Queued(s) \/ Owned(s))
<1>1. SafetyInv /\ KillInv => \A s \in Sid \ KillTarget : in_global[s] => Queued(s) \/ Owned(s)
  BY DEF SafetyInv, FlagInv, KillInv
<1> QED
  BY <1>1, InductiveInvariant, KillCorrect, PTL

(* Of any service in_global says so until it is told to exit, whatever the *)
(* scripts kill; the flag of a killed one stays set after the worker has   *)
(* dropped it.                                                             *)
THEOREM InGlobalMeans == Spec => []InGlobalMeaning
<1>1. SafetyInv => InGlobalMeaning
  BY DEF SafetyInv, FlagInv, InGlobalMeaning
<1> QED
  BY <1>1, InductiveInvariant, PTL

-----------------------------------------------------------------------------
(* SunnetScheduler implements ActorMailbox. *)

(* A worker between two messages handles none. *)
HmsgInv == \A w \in Worker : pc[w] \in WorkerLoop \cup WorkerTurn => hmsg[w] = None

(* No worker handles a message when the program starts. *)
LEMMA HmsgInit == Init => HmsgInv
BY DEF Init, HmsgInv

(* Only PopMsg takes a message, and leaves the turn; ReturnOnMsg, which     *)
(* goes back to it, has dropped the message.                               *)
LEMMA HmsgStep == TypeInv /\ HmsgInv /\ [Next]_vars => HmsgInv'
<1> SUFFICES ASSUME TypeInv, HmsgInv, [Next]_vars PROVE HmsgInv'
  OBVIOUS
<1> USE DEF svars, qvars, wvars, Goto, Return, WorkerLoop, WorkerTurn
<1>0. /\ pc \in [Thread -> PC] /\ hmsg \in [Worker -> Msg \cup {None}]
      /\ \A w \in Worker : w \in Thread
      /\ \A w \in Worker : pc[w] \in WorkerLoop \cup WorkerTurn => hmsg[w] = None
  BY DEF TypeInv, TypeOK, HmsgInv, Thread
(* A step of t that leaves the registers alone and enters no turn *)
<1>1. ASSUME NEW t \in Thread, NEW l, l \notin WorkerLoop \cup WorkerTurn,
             pc' = [pc EXCEPT ![t] = l], hmsg' = hmsg
      PROVE  HmsgInv'
  BY <1>0, <1>1 DEF HmsgInv
(* A step of t from one point of the loop or the turn to another *)
<1>2. ASSUME NEW w \in Worker, NEW l, pc[w] \in WorkerLoop \cup WorkerTurn,
             pc' = [pc EXCEPT ![w] = l], hmsg' = hmsg
      PROVE  HmsgInv'
  BY <1>0, <1>2 DEF HmsgInv
<1>3. ASSUME pc' = pc, hmsg' = hmsg PROVE HmsgInv'
  BY <1>0, <1>3 DEF HmsgInv
<1>4. ASSUME NEW t \in Thread, NEW fs
      PROVE  Resume(t, fs) \notin WorkerLoop \cup WorkerTurn
  BY DEF Resume
<1>5. ASSUME NEW t \in Thread, ApiCall(t) PROVE HmsgInv'
  <2>1. ASSUME NEW s \in Sid, NEW m \in Msg, Send(t, s, m) PROVE HmsgInv'
    <3>1. \/ pc' = [pc EXCEPT ![t] = "PushMsg"] /\ hmsg' = hmsg
          \/ pc' = pc /\ hmsg' = hmsg
      BY <2>1 DEF Send, SendTo
    <3> QED
      BY <3>1, <1>1, <1>3
  <2>2. ASSUME NewService(t) PROVE HmsgInv'
    <3>1. pc' = [pc EXCEPT ![t] = "OnInit"] /\ hmsg' = hmsg
      BY <2>2 DEF NewService
    <3> QED
      BY <3>1, <1>1
  <2>3. ASSUME NEW s \in Sid, KillService(t, s) PROVE HmsgInv'
    <3>1. \/ pc' = [pc EXCEPT ![t] = "Callback"] /\ hmsg' = hmsg
          \/ pc' = pc /\ hmsg' = hmsg
      BY <2>3 DEF KillService
    <3> QED
      BY <3>1, <1>1, <1>3
  <2>4. ASSUME Listen(t) PROVE HmsgInv'
    <3>1. pc' = pc /\ hmsg' = hmsg
      BY <2>4 DEF Listen
    <3> QED
      BY <3>1, <1>3
  <2> QED
    BY <1>5, <2>1, <2>2, <2>3, <2>4 DEF ApiCall
<1>6. ASSUME NEW t \in Thread, CallStep(t) PROVE HmsgInv'
  <2>1. CASE CheckAndWeakUp(t)
    <3>1. hmsg' = hmsg
      BY <2>1 DEF CheckAndWeakUp
    <3>2. CASE NeedWakeUp /\ Sleeping # {}
      <4>1. PICK w \in Sleeping :
              pc' = [pc EXCEPT ![t] = Resume(t, frames[t]), ![w] = "Waking"]
        BY <2>1, <3>2 DEF CheckAndWeakUp
      <4>2. w \in Worker /\ hmsg[w] = None
        BY <1>0 DEF Sleeping
      <4> QED
        BY <3>1, <4>1, <4>2, <1>0, <1>4 DEF HmsgInv
    <3>3. CASE ~(NeedWakeUp /\ Sleeping # {})
      <4>1. pc' = [pc EXCEPT ![t] = Resume(t, frames[t])]
        BY <2>1, <3>3 DEF CheckAndWeakUp
      <4> QED
        BY <3>1, <4>1, <1>1, <1>4
    <3> QED
      BY <3>2, <3>3
  <2>2. CASE ~CheckAndWeakUp(t)
    <3>1. PICK l \in {"CheckInGlobal", "PushGlobalQueue", "SetInGlobal",
                      "CheckAndWeakUp", "Callback", "SetExit", "Erase", "Idle"} :
            pc' = [pc EXCEPT ![t] = l] /\ hmsg' = hmsg
      <4>1. \A fs : Resume(t, fs) \in {"Idle", "Callback"}
        BY DEF Resume
      <4> QED
        BY <1>6, <2>2, <4>1
           DEF CallStep, PushMsg, CheckInGlobal, PushGlobalQueue, SetInGlobal,
               OnInit, SetExit, Erase, ReturnOnInit, ReturnOnExit
    <3> QED
      BY <3>1, <1>1
  <2> QED
    BY <2>1, <2>2
<1>7. ASSUME NEW w \in Worker, WorkerStep(w) \/ SpuriousWakeUp(w) PROVE HmsgInv'
  <2>1. CASE PopMsg(w) /\ msg_queue[cur[w]] # << >>
    <3>1. /\ pc' = [pc EXCEPT ![w] = "Callback"]
          /\ hmsg' = [hmsg EXCEPT ![w] = Head(msg_queue[cur[w]])]
      BY <2>1 DEF PopMsg
    <3> QED
      BY <3>1, <1>0 DEF HmsgInv
  <2>2. CASE ReturnOnMsg(w)
    <3>1. PICK l \in {"PopMsg", "CheckExit"} :
            pc' = [pc EXCEPT ![w] = l] /\ hmsg' = [hmsg EXCEPT ![w] = None]
      BY <2>2 DEF ReturnOnMsg
    <3> QED
      BY <3>1, <1>0 DEF HmsgInv
  <2>3. CASE PopMsg(w) /\ msg_queue[cur[w]] = << >>
    <3>1. pc[w] = "PopMsg" /\ pc' = [pc EXCEPT ![w] = "CheckExit"] /\ hmsg' = hmsg
      BY <2>3 DEF PopMsg
    <3> QED
      BY <3>1, <1>2
  <2>4. CASE ~PopMsg(w) /\ ~ReturnOnMsg(w)
    <3>1. /\ pc[w] \in WorkerLoop \cup WorkerTurn
          /\ hmsg' = hmsg
          /\ \E l \in PC : pc' = [pc EXCEPT ![w] = l]
      BY <1>7, <2>4
         DEF WorkerStep, SpuriousWakeUp, PopGlobalQueue, WorkerWait, WakeUp,
             CheckExit, CheckQueue, Requeue, ClearInGlobal, EndTurn, PC
    <3> QED
      BY <3>1, <1>2
  <2> QED
    BY <2>1, <2>2, <2>3, <2>4
<1>8. ASSUME NEW s \in Sid, NEW m \in Msg, SocketSend(s, m) PROVE HmsgInv'
  <2>1. \/ pc' = [pc EXCEPT ![Socket] = "PushMsg"] /\ hmsg' = hmsg
        \/ pc' = pc /\ hmsg' = hmsg
    BY <1>8 DEF SocketSend, SendTo
  <2> QED
    BY <2>1, <1>1, <1>3 DEF Thread
<1>9. CASE UNCHANGED vars
  BY <1>9, <1>3 DEF vars, tvars
<1> QED
  BY <1>5, <1>6, <1>7, <1>8, <1>9 DEF Next

-----------------------------------------------------------------------------
(* The refinement mapping. *)

(* Handling, for given registers. *)
HandlingOf(c, h) ==
  [s \in Sid |-> IF \E w \in Worker : c[w] = s
                 THEN h[CHOOSE w \in Worker : c[w] = s]
                 ELSE None]

OneEach(c) == \A v, w \in Worker : c[v] = c[w] /\ c[v] # None => v = w

(* With at most one worker per service, a service handles what its worker  *)
(* does, and nothing when it has none.                                     *)
LEMMA HandlingAt ==
  ASSUME NEW c, NEW h, OneEach(c), NEW s \in Sid
  PROVE  /\ \A w \in Worker : c[w] = s => HandlingOf(c, h)[s] = h[w]
         /\ (\A w \in Worker : c[w] # s) => HandlingOf(c, h)[s] = None
<1>1. ASSUME NEW w \in Worker, c[w] = s PROVE HandlingOf(c, h)[s] = h[w]
  <2>1. (CHOOSE v \in Worker : c[v] = s) \in Worker
        /\ c[CHOOSE v \in Worker : c[v] = s] = s
    BY <1>1
  <2>2. (CHOOSE v \in Worker : c[v] = s) = w
    BY <1>1, <2>1, NoneAssumption DEF OneEach
  <2> QED
    BY <1>1, <2>2 DEF HandlingOf
<1>2. ASSUME \A w \in Worker : c[w] # s PROVE HandlingOf(c, h)[s] = None
  BY <1>2 DEF HandlingOf
<1> QED
  BY <1>1, <1>2

(* A step of worker w that moves only w's service, while w handles nothing, *)
(* is not seen: w had no service, or gives up the one it has.              *)
LEMMA MoveUnseen ==
  ASSUME NEW c \in [Worker -> Sid \cup {None}], NEW d \in [Worker -> Sid \cup {None}],
         NEW h, OneEach(c), OneEach(d),
         NEW w \in Worker, h[w] = None,
         \A v \in Worker : v # w => d[v] = c[v]
  PROVE  HandlingOf(d, h) = HandlingOf(c, h)
<1> SUFFICES ASSUME NEW s \in Sid PROVE HandlingOf(d, h)[s] = HandlingOf(c, h)[s]
  BY DEF HandlingOf
<1>1. CASE \E v \in Worker : v # w /\ c[v] = s
  <2>1. PICK v \in Worker : v # w /\ c[v] = s
    BY <1>1
  <2>2. HandlingOf(c, h)[s] = h[v] /\ HandlingOf(d, h)[s] = h[v]
    BY <2>1, HandlingAt
  <2> QED
    BY <2>2
<1>2. CASE ~(\E v \in Worker : v # w /\ c[v] = s)
  <2>1. HandlingOf(c, h)[s] = None
    BY <1>2, HandlingAt
  <2>2. HandlingOf(d, h)[s] = None
    BY <1>2, HandlingAt
  <2> QED
    BY <2>1, <2>2
<1> QED
  BY <1>1, <1>2

(* A step of worker w that changes only what w handles changes what its    *)
(* service handles, and nothing else.                                      *)
LEMMA MessageSeen ==
  ASSUME NEW c, NEW h, NEW k, OneEach(c), NEW w \in Worker, c[w] \in Sid,
         \A v \in Worker : v # w => k[v] = h[v]
  PROVE  HandlingOf(c, k) = [HandlingOf(c, h) EXCEPT ![c[w]] = k[w]]
<1> SUFFICES ASSUME NEW s \in Sid
             PROVE  HandlingOf(c, k)[s] = [HandlingOf(c, h) EXCEPT ![c[w]] = k[w]][s]
  BY DEF HandlingOf
<1>0. DOMAIN HandlingOf(c, h) = Sid
  BY DEF HandlingOf
<1>1. CASE s = c[w]
  <2>1. HandlingOf(c, k)[s] = k[w]
    BY <1>1, HandlingAt
  <2> QED
    BY <2>1, <1>0, <1>1
<1>2. CASE s # c[w]
  <2>1. HandlingOf(c, k)[s] = HandlingOf(c, h)[s]
    <3>1. CASE \E v \in Worker : c[v] = s
      <4>1. PICK v \in Worker : c[v] = s
        BY <3>1
      <4>2. HandlingOf(c, k)[s] = k[v] /\ HandlingOf(c, h)[s] = h[v]
        BY <4>1, HandlingAt
      <4>3. k[v] = h[v]
        BY <4>1, <1>2
      <4> QED
        BY <4>2, <4>3
    <3>2. CASE ~(\E v \in Worker : c[v] = s)
      BY <3>2, HandlingAt
    <3> QED
      BY <3>1, <3>2
  <2> QED
    BY <2>1, <1>0, <1>2
<1> QED
  BY <1>1, <1>2

-----------------------------------------------------------------------------
(* Every mailbox starts empty and no service handles a message. *)
LEMMA MailboxInit == Init => Mailbox!MailboxInit
<1> SUFFICES ASSUME Init PROVE Mailbox!MailboxInit
  OBVIOUS
<1>1. \A s \in Sid, w \in Worker : cur[w] # s
  BY NoneAssumption DEF Init
<1>2. Handling = [s \in Sid |-> None]
  BY <1>1 DEF Handling
<1> QED
  BY <1>2 DEF Init, Mailbox!MailboxInit

(* A push delivers, a pop takes, the return of OnMsg finishes; every other *)
(* step leaves mailboxes and handled messages as they are.                 *)
LEMMA MailboxStep ==
  TypeInv /\ SafetyInv /\ SafetyInv' /\ TypeInv' /\ HmsgInv /\ [Next]_vars
    => [Mailbox!MailboxNext]_(Mailbox!mvars)
<1> SUFFICES ASSUME TypeInv, SafetyInv, SafetyInv', TypeInv', HmsgInv, [Next]_vars
             PROVE  [Mailbox!MailboxNext]_(Mailbox!mvars)
  OBVIOUS
<1> USE DEF svars, qvars, wvars, Goto
<1>0. /\ cur \in [Worker -> Sid \cup {None}] /\ cur' \in [Worker -> Sid \cup {None}]
      /\ hmsg \in [Worker -> Msg \cup {None}]
      /\ msg_queue \in [Sid -> Seq(Msg)]
      /\ OneEach(cur) /\ OneEach(cur')
      /\ \A w \in Worker : w \in Thread
  BY DEF TypeInv, TypeOK, SafetyInv, SingleOwner, OneEach, Thread
<1>1. Handling = HandlingOf(cur, hmsg) /\ Handling' = HandlingOf(cur', hmsg')
  BY DEF Handling, HandlingOf
<1>2. ASSUME UNCHANGED <<msg_queue, cur, hmsg>>
      PROVE  [Mailbox!MailboxNext]_(Mailbox!mvars)
  BY <1>1, <1>2 DEF Mailbox!mvars
<1>3. ASSUME NEW w \in Worker, UNCHANGED <<msg_queue, hmsg>>,
             pc[w] \in WorkerLoop \cup WorkerTurn,
             \A v \in Worker : v # w => cur'[v] = cur[v]
      PROVE  [Mailbox!MailboxNext]_(Mailbox!mvars)
  <2>1. hmsg[w] = None
    BY <1>3 DEF HmsgInv
  <2>2. HandlingOf(cur', hmsg) = HandlingOf(cur, hmsg)
    BY <1>0, <1>3, <2>1, MoveUnseen
  <2> QED
    BY <1>1, <1>3, <2>2 DEF Mailbox!mvars
<1>4. ASSUME NEW t \in Thread, PushMsg(t) PROVE [Mailbox!MailboxNext]_(Mailbox!mvars)
  <2>1. arg[t] \in Sid /\ out[t] \in Msg
    BY <1>4 DEF PushMsg, TypeInv, ControlInv, InCall
  <2>2. /\ msg_queue' = [msg_queue EXCEPT ![arg[t]] = Append(@, out[t])]
        /\ UNCHANGED <<cur, hmsg>>
    BY <1>4 DEF PushMsg
  <2>3. Mailbox!Deliver(arg[t], out[t])
    BY <1>1, <2>2 DEF Mailbox!Deliver
  <2> QED
    BY <2>1, <2>3 DEF Mailbox!MailboxNext
<1>5. ASSUME NEW w \in Worker, PopMsg(w) PROVE [Mailbox!MailboxNext]_(Mailbox!mvars)
  <2>1. CASE msg_queue[cur[w]] = << >>
    <3>1. UNCHANGED <<msg_queue, cur, hmsg>>
      BY <1>5, <2>1 DEF PopMsg
    <3> QED
      BY <3>1, <1>2
  <2>2. CASE msg_queue[cur[w]] # << >>
    <3> DEFINE s == cur[w]
    <3>1. pc[w] = "PopMsg" /\ s \in Sid /\ hmsg[w] = None
      BY <1>5, <1>0 DEF PopMsg, TypeInv, ControlInv, HmsgInv, WorkerLoop, WorkerTurn
    <3>2. /\ hmsg' = [hmsg EXCEPT ![w] = Head(msg_queue[s])]
          /\ msg_queue' = [msg_queue EXCEPT ![s] = Tail(@)]
          /\ cur' = cur
      BY <1>5, <2>2 DEF PopMsg
    <3>3. Handling' = [Handling EXCEPT ![s] = Head(msg_queue[s])]
      <4>1. /\ hmsg'[w] = Head(msg_queue[s])
            /\ \A v \in Worker : v # w => hmsg'[v] = hmsg[v]
        BY <1>0, <3>2
      <4>2. HandlingOf(cur, hmsg') = [HandlingOf(cur, hmsg) EXCEPT ![cur[w]] = hmsg'[w]]
        BY <1>0, <3>1, <4>1, MessageSeen
      <4>3. HandlingOf(cur', hmsg') = HandlingOf(cur, hmsg')
        BY <3>2 DEF HandlingOf
      <4> QED
        BY <1>1, <4>1, <4>2, <4>3
    <3>4. Handling[s] = None
      BY <1>0, <1>1, <3>1, HandlingAt
    <3>5. Mailbox!Take(s)
      BY <2>2, <3>2, <3>3, <3>4 DEF Mailbox!Take
    <3> QED
      BY <3>1, <3>5 DEF Mailbox!MailboxNext
  <2> QED
    BY <2>1, <2>2
<1>6. ASSUME NEW w \in Worker, ReturnOnMsg(w)
      PROVE  [Mailbox!MailboxNext]_(Mailbox!mvars)
  <2>1. cur[w] \in Sid
    BY <1>6, <1>0 DEF ReturnOnMsg, TypeInv, ControlInv, WorkerLoop
  <2>2. hmsg' = [hmsg EXCEPT ![w] = None] /\ UNCHANGED <<msg_queue, cur>>
    BY <1>6 DEF ReturnOnMsg
  <2>3. Handling' = [Handling EXCEPT ![cur[w]] = None]
    <3>0. hmsg'[w] = None
      BY <1>0, <2>2
    <3>1. \A v \in Worker : v # w => hmsg'[v] = hmsg[v]
      BY <1>0, <2>2
    <3>2. HandlingOf(cur, hmsg') = [HandlingOf(cur, hmsg) EXCEPT ![cur[w]] = hmsg'[w]]
      BY <1>0, <2>1, <3>1, MessageSeen
    <3>3. HandlingOf(cur', hmsg') = HandlingOf(cur, hmsg')
      BY <2>2 DEF HandlingOf
    <3> QED
      BY <1>1, <3>0, <3>2, <3>3
  <2>4. CASE Handling[cur[w]] = None
    <3>1. Handling' = Handling
      BY <2>3, <2>4 DEF Handling
    <3> QED
      BY <2>2, <3>1 DEF Mailbox!mvars
  <2>5. CASE Handling[cur[w]] # None
    <3>1. Mailbox!Finish(cur[w])
      BY <2>2, <2>3, <2>5 DEF Mailbox!Finish
    <3> QED
      BY <2>1, <3>1 DEF Mailbox!MailboxNext
  <2> QED
    BY <2>4, <2>5
<1>7. ASSUME NEW t \in Thread, ApiCall(t) \/ CallStep(t), ~PushMsg(t)
      PROVE  [Mailbox!MailboxNext]_(Mailbox!mvars)
  <2>1. UNCHANGED <<msg_queue, cur, hmsg>>
    BY <1>7
       DEF ApiCall, CallStep, Send, SendTo, NewService, KillService, Listen,
           CheckInGlobal, PushGlobalQueue, SetInGlobal, CheckAndWeakUp,
           OnInit, SetExit, Erase, ReturnOnInit, ReturnOnExit
  <2> QED
    BY <2>1, <1>2
<1>8. ASSUME NEW w \in Worker, WorkerStep(w) \/ SpuriousWakeUp(w),
             ~PopMsg(w), ~ReturnOnMsg(w)
      PROVE  [Mailbox!MailboxNext]_(Mailbox!mvars)
  <2>1. /\ UNCHANGED <<msg_queue, hmsg>>
        /\ pc[w] \in WorkerLoop \cup WorkerTurn
        /\ cur' = cur \/ \E s \in Sid \cup {None} : cur' = [cur EXCEPT ![w] = s]
    <3>1. CASE PopGlobalQueue(w)
      <4>1. CASE global_queue = << >>
        BY <3>1, <4>1 DEF PopGlobalQueue, WorkerLoop
      <4>2. CASE global_queue # << >>
        <5>1. Head(global_queue) \in Sid
          BY <4>2 DEF TypeInv, TypeOK
        <5> QED
          BY <3>1, <4>2, <5>1 DEF PopGlobalQueue, WorkerLoop
      <4> QED
        BY <4>1, <4>2
    <3>2. CASE CheckExit(w)
      BY <3>2 DEF CheckExit, WorkerTurn
    <3>3. CASE Requeue(w) \/ ClearInGlobal(w)
      BY <3>3 DEF Requeue, ClearInGlobal, EndTurn, WorkerTurn
    <3>4. CASE WorkerWait(w) \/ WakeUp(w) \/ SpuriousWakeUp(w) \/ CheckQueue(w)
      BY <3>4 DEF WorkerWait, WakeUp, SpuriousWakeUp, CheckQueue, WorkerLoop, WorkerTurn
    <3> QED
      BY <1>8, <3>1, <3>2, <3>3, <3>4 DEF WorkerStep
  <2>2. \A v \in Worker : v # w => cur'[v] = cur[v]
    BY <2>1, <1>0
  <2> QED
    BY <2>1, <2>2, <1>3
<1>9. ASSUME NEW s \in Sid, NEW m \in Msg, SocketSend(s, m)
      PROVE  [Mailbox!MailboxNext]_(Mailbox!mvars)
  <2>1. UNCHANGED <<msg_queue, cur, hmsg>>
    BY <1>9 DEF SocketSend, SendTo
  <2> QED
    BY <2>1, <1>2
<1>10. CASE UNCHANGED vars
  BY <1>10, <1>2 DEF vars
<1> QED
  BY <1>4, <1>5, <1>6, <1>7, <1>8, <1>9, <1>10 DEF Next

(* Each service gets the messages sent to it once and in the order of the  *)
(* pushes, and handles one at a time, whichever workers it passes through  *)
(* (Sunnet::Send, Service::PopMsg, Worker::CheckAndPutGlobal).             *)
THEOREM Refinement == Spec => ImplementsMailbox
<1>1. Init => HmsgInv /\ Mailbox!MailboxInit
  BY HmsgInit, MailboxInit
<1>2. TypeInv /\ HmsgInv /\ [Next]_vars => HmsgInv'
  BY HmsgStep
<1>3. TypeInv /\ SafetyInv /\ SafetyInv' /\ TypeInv' /\ HmsgInv /\ [Next]_vars
        => [Mailbox!MailboxNext]_(Mailbox!mvars)
  BY MailboxStep
<1> QED
  BY <1>1, <1>2, <1>3, InductiveInvariant, PTL
     DEF Spec, ImplementsMailbox, Mailbox!MailboxSpec
=============================================================================
