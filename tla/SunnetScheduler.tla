--------------------------- MODULE SunnetScheduler ---------------------------
(***************************************************************************)
(* The actor scheduler of 07_embed_lua (Sunnet, Worker, Service, LuaAPI):  *)
(* worker threads take services from a global queue and run their Lua      *)
(* callbacks on the messages of their queues.  A callback may call the     *)
(* API in turn: send, create, kill or listen.                              *)
(*                                                                         *)
(* A lock that is taken and released around a single access (global queue, *)
(* service table, the sleep lock outside wait) is one step.  The two locks *)
(* of a service are explicit, because Send holds in_global_lock, and       *)
(* CheckAndPutGlobal msg_queue_lock, while they take another one.          *)
(***************************************************************************)
EXTENDS Integers, Sequences, FiniteSets

CONSTANTS Worker,       \* the worker threads (WORKER_NUM of them)
          Main,         \* the thread of main(), which starts service "main"
          Socket,       \* the SocketWorker thread, which only sends
          None,
          Msg,          \* messages, reused once handled: bounds those in flight
          MaxServices,  \* bound on the services ever created
          EachNum,      \* EachNum[w]: messages w handles per turn (2 << i)
          CallBudget,   \* CallBudget[t]: bound on API calls per outermost callback
          KillTarget,   \* the services some script kills; {} if none does
          Listener      \* the services whose scripts listen on a port

Sid    == 0 .. MaxServices - 1
Thread == Worker \cup {Main, Socket}

ASSUME ThreadAssumption ==
  /\ IsFiniteSet(Worker)
  /\ Main \notin Worker /\ Socket \notin Worker /\ Main # Socket
  /\ None \notin Thread
ASSUME BoundAssumption ==
  /\ MaxServices \in Nat
  /\ EachNum \in [Worker -> Nat \ {0}]
  /\ CallBudget \in [Thread -> Nat]
  /\ KillTarget \subseteq Sid /\ Listener \subseteq Sid
ASSUME NoneAssumption == None \notin Sid /\ None \notin Msg

VARIABLES
  services,           \* ids in the table Sunnet::services
  max_id,             \* next id
  listening,          \* services some listening Conn belongs to
  msg_queue, in_global, is_exit,   \* fields of each Service
  vm,                 \* its lua_state: not created, open or closed
  msg_queue_lock, in_global_lock,  \* holder of each lock of a Service, or None
  global_queue,       \* Sunnet::global_queue; global_queue_len is its length
  worker_sleep_count,
  pc,                 \* where each thread is
  cur,                \* cur[w]: the service worker w holds between pop and put
  n,                  \* n[w]: the loop counter of ProcessMsgs
  hmsg,               \* hmsg[w]: the message worker w is handling
  frames,             \* frames[t]: the callbacks t is in, innermost first
  calls,              \* calls[t]: API calls made in the outermost callback
  arg, out            \* service and message of the API call t is in

svars == <<services, max_id, listening, is_exit, vm>>
qvars == <<msg_queue, in_global, msg_queue_lock, in_global_lock, global_queue>>
wvars == <<cur, n, hmsg>>
tvars == <<pc, frames, calls, arg, out>>
vars  == <<svars, qvars, worker_sleep_count, wvars, tvars>>

-----------------------------------------------------------------------------
Frame == [kind : {"OnInit", "OnMsg", "OnExit"}, srv : Sid]
WorkerLoop == {"PopGlobalQueue", "WorkerWait", "Asleep", "Waking"}
WorkerTurn == {"PopMsg", "CheckExit", "CheckQueue", "Requeue", "ClearInGlobal"}
InCall == {"PushMsg", "CheckInGlobal", "PushGlobalQueue", "SetInGlobal",
           "CheckAndWeakUp", "OnInit", "SetExit", "Erase"}
PC == WorkerLoop \cup WorkerTurn \cup InCall \cup {"Callback", "Idle"}

(* The program starts with no service: main() is about to create the first *)
(* one while the workers already run.                                      *)
Init ==
  /\ services = {} /\ max_id = 0 /\ listening = {}
  /\ msg_queue = [s \in Sid |-> << >>]
  /\ in_global = [s \in Sid |-> FALSE]
  /\ is_exit = [s \in Sid |-> FALSE]
  /\ vm = [s \in Sid |-> "none"]
  /\ msg_queue_lock = [s \in Sid |-> None]
  /\ in_global_lock = [s \in Sid |-> None]
  /\ global_queue = << >>
  /\ worker_sleep_count = 0
  /\ pc = [t \in Thread |-> IF t \in Worker THEN "PopGlobalQueue" ELSE "Idle"]
  /\ cur = [w \in Worker |-> None]
  /\ n = [w \in Worker |-> 0]
  /\ hmsg = [w \in Worker |-> None]
  /\ frames = [t \in Thread |-> << >>]
  /\ calls = [t \in Thread |-> 0]
  /\ arg = [t \in Thread |-> None]
  /\ out = [t \in Thread |-> None]

SeqSet(q) == {q[i] : i \in DOMAIN q}
InFlight == UNION {SeqSet(msg_queue[s]) : s \in Sid} \cup
            {hmsg[w] : w \in Worker} \cup {out[t] : t \in Thread}

Goto(t, label) == pc' = [pc EXCEPT ![t] = label]

(* An API call ends: back in the callback that made it, or in the loop of  *)
(* the thread that has none (main after NewService, the socket thread).    *)
Resume(t, fs) == IF fs = << >> THEN "Idle" ELSE "Callback"
Return(t) == Goto(t, Resume(t, frames[t]))

MayCall(t) ==
  /\ pc[t] = "Callback"
  /\ calls[t] < CallBudget[t]

Count(t) == calls' = [calls EXCEPT ![t] = @ + 1]

-----------------------------------------------------------------------------
(* Sunnet::Send *)

(* Send looks the receiver up; an unknown one ends the call.  The socket   *)
(* thread sends to the service that listens.                               *)
SendTo(t, s, m) ==
  /\ IF s \in services
     THEN /\ Goto(t, "PushMsg")
          /\ arg' = [arg EXCEPT ![t] = s]
          /\ out' = [out EXCEPT ![t] = m]
     ELSE UNCHANGED <<pc, arg, out>>
  /\ UNCHANGED <<svars, qvars, worker_sleep_count, wvars, frames>>

Send(t, s, m) ==
  /\ MayCall(t) /\ m \notin InFlight
  /\ Count(t)
  /\ SendTo(t, s, m)

SocketSend(s, m) ==
  /\ pc[Socket] = "Idle" /\ s \in listening /\ m \notin InFlight
  /\ SendTo(Socket, s, m)
  /\ UNCHANGED calls

(* Mutant: PushMsg does not take msg_queue_lock. *)
PushMsgUnlocked(t) ==
  /\ pc[t] = "PushMsg"
  /\ msg_queue' = [msg_queue EXCEPT ![arg[t]] = Append(@, out[t])]
  /\ out' = [out EXCEPT ![t] = None]
  /\ Goto(t, "CheckInGlobal")
  /\ UNCHANGED <<svars, in_global, msg_queue_lock, in_global_lock, global_queue,
                 worker_sleep_count, wvars, frames, calls, arg>>

(* Mutant: the sender pushes again as long as nobody has queued the service. *)
PushMsgAgain(t) ==
  /\ pc[t] = "PushMsg"
  /\ msg_queue_lock[arg[t]] = None
  /\ msg_queue' = [msg_queue EXCEPT ![arg[t]] = Append(@, out[t])]
  /\ out' = [out EXCEPT ![t] = None]
  /\ Goto(t, IF in_global[arg[t]] THEN "CheckInGlobal" ELSE "PushMsg")
  /\ UNCHANGED <<svars, in_global, msg_queue_lock, in_global_lock, global_queue,
                 worker_sleep_count, wvars, frames, calls, arg>>

PushMsg(t) ==
  /\ pc[t] = "PushMsg"
  /\ msg_queue_lock[arg[t]] = None
  /\ msg_queue' = [msg_queue EXCEPT ![arg[t]] = Append(@, out[t])]
  /\ out' = [out EXCEPT ![t] = None]
  /\ Goto(t, "CheckInGlobal")
  /\ UNCHANGED <<svars, in_global, msg_queue_lock, in_global_lock, global_queue,
                 worker_sleep_count, wvars, frames, calls, arg>>

(* Mutant: the lock is not released when the flag was set. *)
CheckInGlobalKeepsLock(t) ==
  /\ pc[t] = "CheckInGlobal"
  /\ in_global_lock[arg[t]] = None
  /\ in_global_lock' = [in_global_lock EXCEPT ![arg[t]] = t]
  /\ IF in_global[arg[t]]
     THEN Return(t) /\ arg' = [arg EXCEPT ![t] = None]
     ELSE Goto(t, "PushGlobalQueue") /\ UNCHANGED arg
  /\ UNCHANGED <<svars, msg_queue, in_global, msg_queue_lock, global_queue,
                 worker_sleep_count, wvars, frames, calls, out>>

(* in_global_lock is kept until the flag is set, or released at once. *)
CheckInGlobal(t) ==
  /\ pc[t] = "CheckInGlobal"
  /\ in_global_lock[arg[t]] = None
  /\ IF in_global[arg[t]]
     THEN /\ Return(t)
          /\ arg' = [arg EXCEPT ![t] = None]
          /\ UNCHANGED in_global_lock
     ELSE /\ Goto(t, "PushGlobalQueue")
          /\ in_global_lock' = [in_global_lock EXCEPT ![arg[t]] = t]
          /\ UNCHANGED arg
  /\ UNCHANGED <<svars, msg_queue, in_global, msg_queue_lock, global_queue,
                 worker_sleep_count, wvars, frames, calls, out>>

PushGlobalQueue(t) ==
  /\ pc[t] = "PushGlobalQueue"
  /\ global_queue' = Append(global_queue, arg[t])
  /\ Goto(t, "SetInGlobal")
  /\ UNCHANGED <<svars, msg_queue, in_global, msg_queue_lock, in_global_lock,
                 worker_sleep_count, wvars, frames, calls, arg, out>>

(* Mutant: the flag is not set. *)
SetInGlobalForgotten(t) ==
  /\ pc[t] = "SetInGlobal"
  /\ in_global_lock' = [in_global_lock EXCEPT ![arg[t]] = None]
  /\ arg' = [arg EXCEPT ![t] = None]
  /\ Goto(t, "CheckAndWeakUp")
  /\ UNCHANGED <<svars, msg_queue, in_global, msg_queue_lock, global_queue,
                 worker_sleep_count, wvars, frames, calls, out>>

SetInGlobal(t) ==
  /\ pc[t] = "SetInGlobal"
  /\ in_global' = [in_global EXCEPT ![arg[t]] = TRUE]
  /\ in_global_lock' = [in_global_lock EXCEPT ![arg[t]] = None]
  /\ arg' = [arg EXCEPT ![t] = None]
  /\ Goto(t, "CheckAndWeakUp")
  /\ UNCHANGED <<svars, msg_queue, msg_queue_lock, global_queue,
                 worker_sleep_count, wvars, frames, calls, out>>

(* notify_one if somebody sleeps and no more workers are awake than there  *)
(* are queued services.  worker_sleep_count also counts a worker that was  *)
(* notified and has not run yet.                                           *)
NeedWakeUp ==
  /\ worker_sleep_count # 0
  /\ Cardinality(Worker) - worker_sleep_count <= Len(global_queue)

Sleeping == {w \in Worker : pc[w] = "Asleep"}

CheckAndWeakUp(t) ==
  /\ pc[t] = "CheckAndWeakUp"
  /\ IF NeedWakeUp /\ Sleeping # {}
     THEN \E w \in Sleeping :
            pc' = [pc EXCEPT ![t] = Resume(t, frames[t]), ![w] = "Waking"]
     ELSE Return(t)
  /\ UNCHANGED <<svars, qvars, worker_sleep_count, wvars, frames, calls, arg, out>>

-----------------------------------------------------------------------------
(* Sunnet::NewService, KillService and Listen *)

(* The service is in the table before its OnInit has run. *)
NewService(t) ==
  /\ \/ MayCall(t) /\ Count(t)
     \/ t = Main /\ pc[t] = "Idle" /\ max_id = 0 /\ UNCHANGED calls
  /\ max_id < MaxServices
  /\ services' = services \cup {max_id}
  /\ max_id' = max_id + 1
  /\ arg' = [arg EXCEPT ![t] = max_id]
  /\ Goto(t, "OnInit")
  /\ UNCHANGED <<listening, is_exit, vm, qvars, worker_sleep_count, wvars,
                 frames, out>>

Enter(t, k, s) ==
  frames' = [frames EXCEPT ![t] = <<[kind |-> k, srv |-> s]>> \o @]

(* OnInit creates the virtual machine and calls the script's OnInit. *)
OnInit(t) ==
  /\ pc[t] = "OnInit"
  /\ vm' = [vm EXCEPT ![arg[t]] = "open"]
  /\ Enter(t, "OnInit", arg[t])
  /\ arg' = [arg EXCEPT ![t] = None]
  /\ Goto(t, "Callback")
  /\ UNCHANGED <<services, max_id, listening, is_exit, qvars,
                 worker_sleep_count, wvars, calls, out>>

(* KillService looks the service up and calls the script's OnExit. *)
KillService(t, s) ==
  /\ MayCall(t) /\ s \in KillTarget
  /\ Count(t)
  /\ IF s \in services THEN Enter(t, "OnExit", s) ELSE UNCHANGED frames
  /\ UNCHANGED <<svars, qvars, worker_sleep_count, wvars, pc, arg, out>>

SetExit(t) ==
  /\ pc[t] = "SetExit"
  /\ is_exit' = [is_exit EXCEPT ![arg[t]] = TRUE]
  /\ Goto(t, "Erase")
  /\ UNCHANGED <<services, max_id, listening, vm, qvars, worker_sleep_count,
                 wvars, frames, calls, arg, out>>

Erase(t) ==
  /\ pc[t] = "Erase"
  /\ services' = services \ {arg[t]}
  /\ arg' = [arg EXCEPT ![t] = None]
  /\ Return(t)
  /\ UNCHANGED <<max_id, listening, is_exit, vm, qvars, worker_sleep_count,
                 wvars, frames, calls, out>>

(* A script that opens a port does it for its own service. *)
Listen(t) ==
  /\ MayCall(t)
  /\ LET s == Head(frames[t]).srv
     IN  /\ s \in Listener \ listening
         /\ listening' = listening \cup {s}
  /\ Count(t)
  /\ UNCHANGED <<services, max_id, is_exit, vm, qvars, worker_sleep_count,
                 wvars, pc, frames, arg, out>>

(* A script's OnInit or OnExit returns; lua_close follows OnExit. *)
ReturnOnInit(t) ==
  /\ pc[t] = "Callback"
  /\ Head(frames[t]).kind = "OnInit"
  /\ frames' = [frames EXCEPT ![t] = Tail(@)]
  /\ Goto(t, Resume(t, Tail(frames[t])))
  /\ UNCHANGED <<svars, qvars, worker_sleep_count, wvars, calls, arg, out>>

ReturnOnExit(t) ==
  /\ pc[t] = "Callback"
  /\ Head(frames[t]).kind = "OnExit"
  /\ LET s == Head(frames[t]).srv
     IN  /\ vm' = [vm EXCEPT ![s] = "closed"]
         /\ arg' = [arg EXCEPT ![t] = s]
  /\ frames' = [frames EXCEPT ![t] = Tail(@)]
  /\ Goto(t, "SetExit")
  /\ UNCHANGED <<services, max_id, listening, is_exit, qvars,
                 worker_sleep_count, wvars, calls, out>>

-----------------------------------------------------------------------------
(* Worker::operator(), ProcessMsgs and CheckAndPutGlobal *)

PopGlobalQueue(w) ==
  /\ pc[w] = "PopGlobalQueue"
  /\ IF global_queue = << >>
     THEN /\ Goto(w, "WorkerWait")
          /\ UNCHANGED <<global_queue, cur>>
     ELSE /\ cur' = [cur EXCEPT ![w] = Head(global_queue)]
          /\ global_queue' = Tail(global_queue)
          /\ Goto(w, "PopMsg")
  /\ UNCHANGED <<svars, msg_queue, in_global, msg_queue_lock, in_global_lock,
                 worker_sleep_count, n, hmsg, frames, calls, arg, out>>

(* The emptiness of the queue is not looked at again before wait. *)
WorkerWait(w) ==
  /\ pc[w] = "WorkerWait"
  /\ worker_sleep_count' = worker_sleep_count + 1
  /\ Goto(w, "Asleep")
  /\ UNCHANGED <<svars, qvars, wvars, frames, calls, arg, out>>

(* condition_variable::wait may return without a notify. *)
SpuriousWakeUp(w) ==
  /\ pc[w] = "Asleep"
  /\ Goto(w, "Waking")
  /\ UNCHANGED <<svars, qvars, worker_sleep_count, wvars, frames, calls, arg, out>>

WakeUp(w) ==
  /\ pc[w] = "Waking"
  /\ worker_sleep_count' = worker_sleep_count - 1
  /\ Goto(w, "PopGlobalQueue")
  /\ UNCHANGED <<svars, qvars, wvars, frames, calls, arg, out>>

(* One turn of the loop of ProcessMsgs, up to the call of the callback. *)
PopMsg(w) ==
  LET s == cur[w] IN
  /\ pc[w] = "PopMsg"
  /\ msg_queue_lock[s] = None
  /\ IF msg_queue[s] = << >>
     THEN /\ Goto(w, "CheckExit")
          /\ n' = [n EXCEPT ![w] = 0]
          /\ UNCHANGED <<msg_queue, hmsg, frames>>
     ELSE /\ hmsg' = [hmsg EXCEPT ![w] = Head(msg_queue[s])]
          /\ msg_queue' = [msg_queue EXCEPT ![s] = Tail(@)]
          /\ Enter(w, "OnMsg", s)
          /\ Goto(w, "Callback")
          /\ UNCHANGED n
  /\ UNCHANGED <<svars, in_global, msg_queue_lock, in_global_lock, global_queue,
                 worker_sleep_count, cur, calls, arg, out>>

ReturnOnMsg(w) ==
  /\ pc[w] = "Callback"
  /\ Head(frames[w]).kind = "OnMsg"
  /\ frames' = [frames EXCEPT ![w] = Tail(@)]
  /\ hmsg' = [hmsg EXCEPT ![w] = None]
  /\ calls' = [calls EXCEPT ![w] = 0]
  /\ IF n[w] + 1 < EachNum[w]
     THEN Goto(w, "PopMsg") /\ n' = [n EXCEPT ![w] = @ + 1]
     ELSE Goto(w, "CheckExit") /\ n' = [n EXCEPT ![w] = 0]
  /\ UNCHANGED <<svars, qvars, worker_sleep_count, cur, arg, out>>

(* A killed service is dropped as it is: its flag stays set. *)
CheckExit(w) ==
  /\ pc[w] = "CheckExit"
  /\ IF is_exit[cur[w]]
     THEN Goto(w, "PopGlobalQueue") /\ cur' = [cur EXCEPT ![w] = None]
     ELSE Goto(w, "CheckQueue") /\ UNCHANGED cur
  /\ UNCHANGED <<svars, qvars, worker_sleep_count, n, hmsg, frames, calls, arg, out>>

CheckQueue(w) ==
  LET s == cur[w] IN
  /\ pc[w] = "CheckQueue"
  /\ msg_queue_lock[s] = None
  /\ msg_queue_lock' = [msg_queue_lock EXCEPT ![s] = w]
  /\ Goto(w, IF msg_queue[s] # << >> THEN "Requeue" ELSE "ClearInGlobal")
  /\ UNCHANGED <<svars, msg_queue, in_global, in_global_lock, global_queue,
                 worker_sleep_count, wvars, frames, calls, arg, out>>

(* msg_queue_lock is released with the last access it protects. *)
EndTurn(w) ==
  /\ msg_queue_lock' = [msg_queue_lock EXCEPT ![cur[w]] = None]
  /\ cur' = [cur EXCEPT ![w] = None]
  /\ Goto(w, "PopGlobalQueue")
  /\ UNCHANGED <<svars, msg_queue, in_global_lock, worker_sleep_count, n, hmsg,
                 frames, calls, arg, out>>

(* Mutant: the service goes back to the head of the global queue. *)
RequeueInFront(w) ==
  /\ pc[w] = "Requeue"
  /\ global_queue' = <<cur[w]>> \o global_queue
  /\ EndTurn(w)
  /\ UNCHANGED in_global

Requeue(w) ==
  /\ pc[w] = "Requeue"
  /\ global_queue' = Append(global_queue, cur[w])
  /\ EndTurn(w)
  /\ UNCHANGED in_global

(* Mutant: SetInGlobal(false) without in_global_lock. *)
ClearInGlobalUnlocked(w) ==
  /\ pc[w] = "ClearInGlobal"
  /\ in_global' = [in_global EXCEPT ![cur[w]] = FALSE]
  /\ EndTurn(w)
  /\ UNCHANGED global_queue

ClearInGlobal(w) ==
  /\ pc[w] = "ClearInGlobal"
  /\ in_global_lock[cur[w]] = None
  /\ in_global' = [in_global EXCEPT ![cur[w]] = FALSE]
  /\ EndTurn(w)
  /\ UNCHANGED global_queue

-----------------------------------------------------------------------------
ApiCall(t) ==
  \/ \E s \in Sid, m \in Msg : Send(t, s, m)
  \/ NewService(t)
  \/ \E s \in Sid : KillService(t, s)
  \/ Listen(t)

(* What a thread does by itself once it is in a call or a callback. *)
CallStep(t) ==
  \/ PushMsg(t) \/ CheckInGlobal(t) \/ PushGlobalQueue(t) \/ SetInGlobal(t)
  \/ CheckAndWeakUp(t) \/ OnInit(t) \/ SetExit(t) \/ Erase(t)
  \/ ReturnOnInit(t) \/ ReturnOnExit(t)

WorkerStep(w) ==
  \/ PopGlobalQueue(w) \/ WorkerWait(w) \/ WakeUp(w) \/ PopMsg(w)
  \/ ReturnOnMsg(w) \/ CheckExit(w) \/ CheckQueue(w) \/ Requeue(w)
  \/ ClearInGlobal(w)

Next ==
  \/ \E t \in Thread : ApiCall(t) \/ CallStep(t)
  \/ \E w \in Worker : WorkerStep(w) \/ SpuriousWakeUp(w)
  \/ \E s \in Sid, m \in Msg : SocketSend(s, m)

Spec == Init /\ [][Next]_vars

(* The operating system runs every thread, a mutex is not withheld from a  *)
(* thread for ever while others keep taking and releasing it, and the      *)
(* scripts' callbacks return.  Nobody has to call the API, and no wait has *)
(* to return without a notify.                                             *)
Step(t) == CallStep(t) \/ (t \in Worker /\ WorkerStep(t))
Fairness == \A t \in Thread : SF_vars(Step(t))

FairSpec == Spec /\ Fairness

-----------------------------------------------------------------------------
TypeOK ==
  /\ services \subseteq Sid /\ max_id \in 0 .. MaxServices
  /\ listening \subseteq Sid
  /\ msg_queue \in [Sid -> Seq(Msg)]
  /\ in_global \in [Sid -> BOOLEAN] /\ is_exit \in [Sid -> BOOLEAN]
  /\ vm \in [Sid -> {"none", "open", "closed"}]
  /\ msg_queue_lock \in [Sid -> Thread \cup {None}]
  /\ in_global_lock \in [Sid -> Thread \cup {None}]
  /\ global_queue \in Seq(Sid)
  /\ worker_sleep_count \in Int
  /\ pc \in [Thread -> PC]
  /\ cur \in [Worker -> Sid \cup {None}]
  /\ n \in [Worker -> Nat]
  /\ hmsg \in [Worker -> Msg \cup {None}]
  /\ frames \in [Thread -> Seq(Frame)]
  /\ calls \in [Thread -> Nat]
  /\ arg \in [Thread -> Sid \cup {None}]
  /\ out \in [Thread -> Msg \cup {None}]

Distinct(q) == \A i, j \in DOMAIN q : q[i] = q[j] => i = j
Queued(s)  == s \in SeqSet(global_queue)
Owned(s)   == \E w \in Worker : cur[w] = s
Sending(s) == \E t \in Thread :
                pc[t] \in {"CheckInGlobal", "PushGlobalQueue"} /\ arg[t] = s

(* A service is in the hands of one worker at most, in at most one place   *)
(* of the global queue, and never in both: in_global keeps two senders, or *)
(* a sender and CheckAndPutGlobal, from queueing it twice.  Otherwise two  *)
(* workers would run it at once and pop its messages out of order.         *)
SingleOwner ==
  /\ \A v, w \in Worker : cur[v] = cur[w] /\ cur[v] # None => v = w
  /\ Distinct(global_queue)
  /\ \A w \in Worker : ~Queued(cur[w])

(* A live service with messages is queued, is held by a worker that will   *)
(* look at its queue again, or has a sender about to queue it: a message   *)
(* pushed while the worker decides that the queue is empty is not left     *)
(* behind.                                                                 *)
NoStranded ==
  \A s \in Sid : msg_queue[s] # << >> /\ ~is_exit[s]
                   => Queued(s) \/ Owned(s) \/ Sending(s)

(* in_global set means that the service is in the global queue or being    *)
(* processed (include/Service.h:40).  Only a service that is told to exit  *)
(* in its own turn is dropped with the flag set.                           *)
InGlobalMeaning ==
  \A s \in Sid : in_global[s] /\ ~is_exit[s] => Queued(s) \/ Owned(s)

(* Send takes global_queue_lock inside in_global_lock, CheckAndPutGlobal   *)
(* takes in_global_lock or global_queue_lock inside msg_queue_lock.  The   *)
(* holder of a lock is never stuck: it can go on, or it waits for a holder *)
(* that can.                                                               *)
Holders == {t \in Thread :
              \E s \in Sid : t \in {msg_queue_lock[s], in_global_lock[s]}}
LockProgress ==
  \A t \in Holders :
    \/ ENABLED Step(t)
    \/ \E u \in Holders : /\ t \in Worker /\ in_global_lock[cur[t]] = u
                          /\ ENABLED Step(u)

(* The scheduler implements the mailboxes of ActorMailbox: each service    *)
(* gets every message sent to it once, in the order of the pushes, and     *)
(* handles one at a time, whichever workers it passes through.             *)
Handling ==
  [s \in Sid |-> IF \E w \in Worker : cur[w] = s
                 THEN hmsg[CHOOSE w \in Worker : cur[w] = s]
                 ELSE None]
Mailbox == INSTANCE ActorMailbox
             WITH Service <- Sid, Idle <- None,
                  mailbox <- msg_queue, handling <- Handling, ended <- {}
ImplementsMailbox == Mailbox!MailboxSpec

(* A queued service is taken as long as one worker has not gone to sleep:  *)
(* no run of messages to other services holds it back for ever.            *)
Awake(w) == pc[w] \notin {"WorkerWait", "Asleep"}
AwakeWorkerServes ==
  \A s \in Sid : (Queued(s) /\ \E w \in Worker : Awake(w)) ~> ~Queued(s)

(* A queued service is taken (Worker.cpp:6: a worker that finds the global *)
(* queue empty looks again after 100 microseconds).                        *)
QueuedIsServed == \A s \in Sid : Queued(s) ~> ~Queued(s)
=============================================================================
