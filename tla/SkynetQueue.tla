---------------------------- MODULE SkynetQueue ----------------------------
(***************************************************************************)
(* The core of skynet as vendored in 02_skynet: skynet_mq, skynet_server,  *)
(* skynet_handle and the worker and timer threads of skynet_start.         *)
(*                                                                         *)
(* A service is a context, found by its handle and counted by references,  *)
(* and a message queue that outlives it.  Workers take queues from the     *)
(* global queue; the rest of a C function that calls another is a frame on *)
(* its thread's stack.  Every spinlock guards one step; the mutex of the   *)
(* monitor is held between Sleep and Wait.                                 *)
(*                                                                         *)
(* Left out: harbors (other nodes), names, the growth of a queue's array,  *)
(* the overload warning, profiling, and the moment in which a new context  *)
(* is in the table without its handle or its queue.                        *)
(***************************************************************************)
EXTENDS Integers, FiniteSets, SequencesExt

CONSTANTS
  Worker,
  Socket,       \* stands for the threads that push messages from outside
  Sid,          \* handles; a handle is never used again
  Boot,         \* the services that run when the threads start
  Msg,          \* bound: the messages ever sent, errors not counted
  Weight,       \* Weight[w]: -1, 0, 1, ... as in start
  Nobody, Unsent

ASSUME WorkerAssumption == IsFiniteSet(Worker) /\ Socket \notin Worker
ASSUME SidAssumption    == IsFiniteSet(Sid) /\ Boot \subseteq Sid
ASSUME WeightAssumption == Weight \in [Worker -> -1 .. 3]

Thread == Worker \cup {Socket}

VARIABLES
  registered,   \* handles in the table H
  ctx,          \* a context: none, init (in its init function), live, freed
  ref,
  mqueue,        \* the messages in a queue, oldest first
  in_global, release, freed,
  global,       \* the queues in Q
  stack,        \* the frames of each thread, innermost first
  asleep,       \* workers in cond_wait
  quit,
  source,       \* who sent a message: a service, None, or nobody yet (Unsent)
  done          \* messages that were handled or refused to their sender

hvars == <<registered, ctx, ref>>
qvars == <<mqueue, in_global, release, freed, global>>
msgvars == <<source, done>>
queuevars  == <<hvars, qvars, stack, asleep, quit, msgvars>>

Say(m) == <<"msg", m>>
Err(m) == <<"error", m>>             \* what drop_message sends in its place
Mail == {Say(m) : m \in Msg} \cup {Err(m) : m \in Msg}

ASSUME NobodyAssumption == Nobody \notin Sid /\ Nobody \notin Mail /\ Unsent \notin Sid

(* A frame: where in the code, for which service, with which message, and  *)
(* for a turn how many messages it still takes (First: not known yet).     *)
First == -1
Points == {"Pop", "Grab", "PopMsg", "Callback", "NextPop", "PushBack", "Push",
           "Release", "Delete", "MqRelease", "Drop", "Init", "LaunchRelease",
           "SetInit", "LaunchPush", "Retire", "Sleep", "Wait", "Outside", "Stopped"}
Frame == [at : Points, svc : Sid \cup {Nobody}, msg : Mail \cup {Nobody}, n : Nat \cup {First}]
F(at, s) == [at |-> at, svc |-> s, msg |-> Nobody, n |-> 0]

Top(t) == Head(stack[t])
At(t, p) == Top(t).at = p
Becomes(t, fs) == stack' = [stack EXCEPT ![t] = fs \o Tail(@)]
Return(t) == Becomes(t, << >>)
Call(t, fs) == stack' = [stack EXCEPT ![t] = fs \o @]

QueueTypeOK ==
  /\ registered \subseteq Sid
  /\ ctx \in [Sid -> {"none", "init", "live", "freed"}]
  /\ ref \in [Sid -> Nat]
  /\ mqueue \in [Sid -> Seq(Mail)]
  /\ in_global \in [Sid -> BOOLEAN]
  /\ release \in [Sid -> BOOLEAN]
  /\ freed \in [Sid -> BOOLEAN]
  /\ global \in Seq(Sid)
  /\ stack \in [Thread -> Seq(Frame)] /\ \A t \in Thread : stack[t] # << >>
  /\ asleep \subseteq Worker
  /\ quit \in BOOLEAN
  /\ source \in [Msg -> Sid \cup {Nobody, Unsent}]
  /\ done \subseteq Mail

(* skynet_start has launched the first services before it starts threads.  *)
QueueInit ==
  /\ registered = Boot
  /\ ctx = [s \in Sid |-> IF s \in Boot THEN "live" ELSE "none"]
  /\ ref = [s \in Sid |-> IF s \in Boot THEN 1 ELSE 0]
  /\ mqueue = [s \in Sid |-> << >>]
  /\ in_global = [s \in Sid |-> s \in Boot]
  /\ release = [s \in Sid |-> FALSE]
  /\ freed = [s \in Sid |-> FALSE]
  /\ global = SetToSeq(Boot)
  /\ stack = [t \in Thread |-> <<F(IF t = Socket THEN "Outside" ELSE "Pop", Nobody)>>]
  /\ asleep = {}
  /\ quit = FALSE
  /\ source = [m \in Msg |-> Unsent]
  /\ done = {}

-----------------------------------------------------------------------------
(* What a callback, an init function or a thread outside may call. *)

InCallback(t) == At(t, "Callback") \/ At(t, "Init")

(* skynet_send: skynet_context_push up to the grab, or its refusal. *)
Send(t, s, m) ==
  /\ InCallback(t) \/ At(t, "Outside")
  /\ source[m] = Unsent
  /\ source' = [source EXCEPT ![m] = Top(t).svc]
  /\ \/ /\ s \in registered
        /\ ref' = [ref EXCEPT ![s] = @ + 1]
        /\ Call(t, <<[F("Push", s) EXCEPT !.msg = Say(m)]>>)
        /\ UNCHANGED done
     \/ /\ s \notin registered
        /\ done' = done \cup {Say(m)}
        /\ UNCHANGED <<ref, stack>>
  /\ UNCHANGED <<registered, ctx, qvars, asleep, quit>>

(* Mutant: a queue that is in a worker's turn is put in Q all the same. *)
PushAlways(t) ==
  /\ At(t, "Push")
  /\ LET s == Top(t).svc IN
       /\ mqueue' = [mqueue EXCEPT ![s] = Append(@, Top(t).msg)]
       /\ in_global' = [in_global EXCEPT ![s] = TRUE]
       /\ global' = Append(global, s)
       /\ Becomes(t, <<F("Release", s)>>)
  /\ UNCHANGED <<hvars, release, freed, asleep, quit, msgvars>>

(* skynet_mq_push *)
Push(t) ==
  /\ At(t, "Push")
  /\ LET s == Top(t).svc IN
       /\ mqueue' = [mqueue EXCEPT ![s] = Append(@, Top(t).msg)]
       /\ in_global' = [in_global EXCEPT ![s] = TRUE]
       /\ global' = IF in_global[s] THEN global ELSE Append(global, s)
       /\ Becomes(t, <<F("Release", s)>>)
  /\ UNCHANGED <<hvars, release, freed, asleep, quit, msgvars>>

(* skynet_context_release, and delete_context, whose mark_release leaves   *)
(* the queue to whoever finds it next.                                     *)
Release(t) ==
  /\ At(t, "Release")
  /\ LET s == Top(t).svc IN
       /\ ref' = [ref EXCEPT ![s] = @ - 1]
       /\ IF ref[s] = 1 THEN Becomes(t, <<F("Delete", s)>>) ELSE Return(t)
  /\ UNCHANGED <<registered, ctx, qvars, asleep, quit, msgvars>>

Delete(t) ==
  /\ At(t, "Delete")
  /\ LET s == Top(t).svc IN
       /\ ctx' = [ctx EXCEPT ![s] = "freed"]
       /\ release' = [release EXCEPT ![s] = TRUE]
       /\ global' = IF in_global[s] THEN global ELSE Append(global, s)
  /\ Return(t)
  /\ UNCHANGED <<registered, ref, mqueue, in_global, freed, asleep, quit, msgvars>>

(* skynet_handle_retire: a kill, of itself too, or a failed launch. *)
Retire(t) ==
  /\ At(t, "Retire")
  /\ LET s == Top(t).svc IN
       /\ registered' = registered \ {s}
       /\ IF s \in registered THEN Becomes(t, <<F("Release", s)>>) ELSE Return(t)
  /\ UNCHANGED <<ctx, ref, qvars, asleep, quit, msgvars>>

Kill(t, s) ==
  /\ InCallback(t)
  /\ s \in registered
  /\ Call(t, <<F("Retire", s)>>)
  /\ UNCHANGED <<hvars, qvars, asleep, quit, msgvars>>

-----------------------------------------------------------------------------
(* skynet_context_new *)

(* Mutant: the new queue is not marked as in global. *)
LaunchUnmarked(t, s) ==
  /\ InCallback(t)
  /\ ctx[s] = "none"
  /\ registered' = registered \cup {s}
  /\ ctx' = [ctx EXCEPT ![s] = "init"]
  /\ ref' = [ref EXCEPT ![s] = 2]
  /\ Call(t, <<F("Init", s)>>)
  /\ UNCHANGED <<mqueue, in_global, release, freed, global, asleep, quit, msgvars>>

Launch(t, s) ==
  /\ InCallback(t)
  /\ ctx[s] = "none"
  /\ registered' = registered \cup {s}
  /\ ctx' = [ctx EXCEPT ![s] = "init"]
  /\ ref' = [ref EXCEPT ![s] = 2]
  /\ in_global' = [in_global EXCEPT ![s] = TRUE]
  /\ Call(t, <<F("Init", s)>>)
  /\ UNCHANGED <<mqueue, release, freed, global, asleep, quit, msgvars>>

(* The init function returns, with 0 or not. *)
InitDone(t) ==
  /\ At(t, "Init")
  /\ LET s == Top(t).svc IN
       \/ Becomes(t, <<F("LaunchRelease", s)>>)
       \/ Becomes(t, <<F("Release", s), F("Retire", s), F("MqRelease", s)>>)
  /\ UNCHANGED <<hvars, qvars, asleep, quit, msgvars>>

LaunchRelease(t) ==
  /\ At(t, "LaunchRelease")
  /\ LET s == Top(t).svc IN
       /\ ref' = [ref EXCEPT ![s] = @ - 1]
       /\ Becomes(t, <<F(IF ref[s] = 1 THEN "Delete" ELSE "SetInit", s), F("LaunchPush", s)>>)
  /\ UNCHANGED <<registered, ctx, qvars, asleep, quit, msgvars>>

(* ret is used without a reference: the context may have gone. *)
SetInit(t) ==
  /\ At(t, "SetInit")
  /\ ctx' = [ctx EXCEPT ![Top(t).svc] = IF @ = "init" THEN "live" ELSE @]
  /\ Return(t)
  /\ UNCHANGED <<registered, ref, qvars, asleep, quit, msgvars>>

LaunchPush(t) ==
  /\ At(t, "LaunchPush")
  /\ global' = Append(global, Top(t).svc)
  /\ Return(t)
  /\ UNCHANGED <<hvars, mqueue, in_global, release, freed, asleep, quit, msgvars>>

-----------------------------------------------------------------------------
(* skynet_mq_release: the queue of a service that is no longer found.  It  *)
(* goes back while somebody still holds the context, else its messages are *)
(* dropped, each answered with an error, and it is freed.                  *)

MqRelease(t) ==
  /\ At(t, "MqRelease")
  /\ LET s == Top(t).svc IN
     \/ /\ release[s]
        /\ Becomes(t, <<F("Drop", s)>>)
        /\ UNCHANGED global
     \/ /\ ~release[s]
        /\ global' = Append(global, s)
        /\ Return(t)
  /\ UNCHANGED <<hvars, mqueue, in_global, release, freed, asleep, quit, msgvars>>

(* Mutant: drop_message only frees the message. *)
DropSilently(t) ==
  /\ At(t, "Drop")
  /\ LET s == Top(t).svc IN
     /\ mqueue' = [mqueue EXCEPT ![s] = IF @ = << >> THEN @ ELSE Tail(@)]
     /\ IF mqueue[s] = << >>
        THEN freed' = [freed EXCEPT ![s] = TRUE] /\ Return(t)
        ELSE UNCHANGED <<freed, stack>>
  /\ UNCHANGED <<hvars, in_global, release, global, asleep, quit, msgvars>>

(* The source of an error message is a service that has gone. *)
Drop(t) ==
  /\ At(t, "Drop")
  /\ LET s == Top(t).svc IN
     \/ /\ mqueue[s] = << >>
        /\ in_global' = [in_global EXCEPT ![s] = FALSE]
        /\ freed' = [freed EXCEPT ![s] = TRUE]
        /\ Return(t)
        /\ UNCHANGED <<ref, mqueue>>
     \/ /\ mqueue[s] # << >>
        /\ mqueue' = [mqueue EXCEPT ![s] = Tail(@)]
        /\ LET m  == Head(mqueue[s])
               to == IF m[1] = "msg" THEN source[m[2]] ELSE Nobody IN
           \/ /\ to \in registered
              /\ ref' = [ref EXCEPT ![to] = @ + 1]
              /\ Call(t, <<[F("Push", to) EXCEPT !.msg = Err(m[2])]>>)
           \/ /\ to \notin registered
              /\ UNCHANGED <<ref, stack>>
        /\ UNCHANGED <<in_global, freed>>
  /\ UNCHANGED <<registered, ctx, release, global, asleep, quit, msgvars>>

-----------------------------------------------------------------------------
(* skynet_context_message_dispatch *)

(* skynet_globalmq_pop, at the start of a dispatch or at its end. *)
Pop(w) ==
  /\ At(w, "Pop")
  /\ \/ /\ global = << >>
        /\ Becomes(w, <<F("Sleep", Nobody)>>)
        /\ UNCHANGED global
     \/ /\ global # << >>
        /\ Becomes(w, <<F("Grab", Head(global))>>)
        /\ global' = Tail(global)
  /\ UNCHANGED <<hvars, mqueue, in_global, release, freed, asleep, quit, msgvars>>

(* Mutant: the worker runs the service without a reference. *)
GrabWeak(w) ==
  /\ At(w, "Grab")
  /\ LET s == Top(w).svc IN
       Becomes(w, IF s \in registered THEN <<[F("PopMsg", s) EXCEPT !.n = First]>>
                                      ELSE <<F("MqRelease", s), F("Pop", Nobody)>>)
  /\ UNCHANGED <<hvars, qvars, asleep, quit, msgvars>>

Grab(w) ==
  /\ At(w, "Grab")
  /\ LET s == Top(w).svc IN
     \/ /\ s \in registered
        /\ ref' = [ref EXCEPT ![s] = @ + 1]
        /\ Becomes(w, <<[F("PopMsg", s) EXCEPT !.n = First]>>)
     \/ /\ s \notin registered
        /\ Becomes(w, <<F("MqRelease", s), F("Pop", Nobody)>>)
        /\ UNCHANGED ref
  /\ UNCHANGED <<registered, ctx, qvars, asleep, quit, msgvars>>

(* How many more messages, when length are left after the first. *)
Batch(w, length) ==
  IF Weight[w] < 0 \/ length \div 2^Weight[w] = 0 THEN 0 ELSE length \div 2^Weight[w] - 1

(* skynet_mq_pop, with the length that follows the first. *)
PopMsg(w) ==
  /\ At(w, "PopMsg")
  /\ LET s == Top(w).svc IN
     \/ /\ mqueue[s] = << >>
        /\ in_global' = [in_global EXCEPT ![s] = FALSE]
        /\ Becomes(w, <<F("Release", s), F("Pop", Nobody)>>)
        /\ UNCHANGED mqueue
     \/ /\ mqueue[s] # << >>
        /\ mqueue' = [mqueue EXCEPT ![s] = Tail(@)]
        /\ Becomes(w, <<[Top(w) EXCEPT !.at = "Callback", !.msg = Head(mqueue[s]),
                           !.n = IF @ = First THEN Batch(w, Len(mqueue[s]) - 1) ELSE @]>>)
        /\ UNCHANGED in_global
  /\ UNCHANGED <<hvars, release, freed, global, asleep, quit, msgvars>>

(* dispatch_message returns. *)
CallbackDone(w) ==
  /\ At(w, "Callback")
  /\ done' = done \cup {Top(w).msg}
  /\ LET s == Top(w).svc IN
       Becomes(w, IF Top(w).n > 0 THEN <<[F("PopMsg", s) EXCEPT !.n = Top(w).n - 1]>>
                                  ELSE <<F("NextPop", s)>>)
  /\ UNCHANGED <<hvars, qvars, asleep, quit, source>>

(* With another queue waiting this one goes back, else it is kept. *)
NextPop(w) ==
  /\ At(w, "NextPop")
  /\ LET s == Top(w).svc IN
     \/ /\ global = << >>
        /\ Becomes(w, <<F("Release", s), F("Grab", s)>>)
        /\ UNCHANGED global
     \/ /\ global # << >>
        /\ Becomes(w, <<F("PushBack", s), F("Grab", Head(global))>>)
        /\ global' = Tail(global)
  /\ UNCHANGED <<hvars, mqueue, in_global, release, freed, asleep, quit, msgvars>>

PushBack(w) ==
  /\ At(w, "PushBack")
  /\ global' = Append(global, Top(w).svc)
  /\ Becomes(w, <<F("Release", Top(w).svc)>>)
  /\ UNCHANGED <<hvars, mqueue, in_global, release, freed, asleep, quit, msgvars>>

-----------------------------------------------------------------------------
(* thread_worker, thread_timer *)

MutexFree == \A w \in Worker : ~At(w, "Wait")

(* m->sleep *)
Sleeping == {w \in Worker : At(w, "Wait")} \cup asleep

Sleep(w) ==
  /\ At(w, "Sleep") /\ w \notin asleep
  /\ MutexFree
  /\ Becomes(w, <<F("Wait", Nobody)>>)
  /\ UNCHANGED <<hvars, qvars, asleep, quit, msgvars>>

(* Up to cond_wait, which gives the mutex back; a worker that is told to   *)
(* quit first does not wait.                                               *)
Wait(w) ==
  /\ At(w, "Wait")
  /\ IF quit THEN /\ Becomes(w, <<F("Pop", Nobody)>>)
                  /\ UNCHANGED asleep
             ELSE /\ asleep' = asleep \cup {w}
                  /\ Becomes(w, <<F("Pop", Nobody)>>)
  /\ UNCHANGED <<hvars, qvars, quit, msgvars>>

(* Mutant: one sleeper more is needed. *)
WakeUpLate(w) ==
  /\ w \in asleep
  /\ Cardinality(Sleeping) > Cardinality(Worker)
  /\ asleep' = asleep \ {w}
  /\ UNCHANGED <<hvars, qvars, stack, quit, msgvars>>

(* wakeup(m, busy) by the timer thread, every 2.5 ms, while contexts exist,*)
(* or by the socket thread after an event; pthread wakes some worker.      *)
WakeUp(w) ==
  /\ w \in asleep /\ MutexFree
  /\ asleep' = asleep \ {w}
  /\ UNCHANGED <<hvars, qvars, stack, quit, msgvars>>

(* Mutant: a service that was retired is no longer counted. *)
TotalRegistered == Cardinality(registered)

(* skynet_context_total *)
Total == Cardinality({s \in Sid : ctx[s] \in {"init", "live"}})

(* The timer thread's CHECK_ABORT. *)
Abort ==
  /\ Total = 0 /\ ~quit /\ MutexFree
  /\ quit' = TRUE
  /\ asleep' = {}
  /\ UNCHANGED <<hvars, qvars, stack, msgvars>>

Stop(w) ==
  /\ quit /\ w \notin asleep
  /\ Len(stack[w]) = 1 /\ Top(w).at \in {"Pop", "Grab"}
  /\ Becomes(w, <<F("Stopped", Nobody)>>)
  /\ UNCHANGED <<hvars, qvars, asleep, quit, msgvars>>

(* The threads are joined: the process ends. *)
Joined == (\A w \in Worker : At(w, "Stopped")) /\ UNCHANGED queuevars

Inside(t) ==
  \/ Push(t) \/ Release(t) \/ Delete(t) \/ Retire(t)
  \/ InitDone(t) \/ LaunchRelease(t) \/ SetInit(t) \/ LaunchPush(t)
  \/ MqRelease(t) \/ Drop(t)

Dispatch(w) ==
  /\ w \notin asleep
  /\ \/ Pop(w) \/ Grab(w) \/ PopMsg(w) \/ CallbackDone(w) \/ NextPop(w) \/ PushBack(w)
     \/ Sleep(w) \/ Wait(w) \/ Stop(w)

QueueNext ==
  \/ \E t \in Thread :
       \/ Inside(t)
       \/ \E s \in Sid : Kill(t, s) \/ Launch(t, s) \/ \E m \in Msg : Send(t, s, m)
  \/ \E w \in Worker : Dispatch(w) \/ WakeUp(w)
  \/ Abort
  \/ Joined

QueueSpec == QueueInit /\ [][QueueNext]_queuevars

(* Threads run, callbacks return, the timer thread goes round. *)
QueueFairSpec ==
  /\ QueueSpec
  /\ \A t \in Thread : WF_queuevars(Inside(t))
  /\ \A w \in Worker : WF_queuevars(Dispatch(w)) /\ SF_queuevars(Sleep(w))
  /\ SF_queuevars(\E w \in Worker : WakeUp(w))
  /\ WF_queuevars(Abort)

-----------------------------------------------------------------------------
(* Properties. *)

(* The frames of all threads that Test accepts, for one service. *)
FramesAt(s, points) ==
  Cardinality({ti \in UNION {{t} \X DOMAIN stack[t] : t \in Thread} :
                 /\ stack[ti[1]][ti[2]].svc = s
                 /\ stack[ti[1]][ti[2]].at \in points})

Holding == {"Push", "Release", "PopMsg", "Callback", "NextPop", "PushBack", "Init", "LaunchRelease"}
Owning  == {"Grab", "PopMsg", "Callback", "NextPop", "PushBack", "MqRelease", "Drop",
            "Init", "LaunchRelease", "LaunchPush"}
One(b)  == IF b THEN 1 ELSE 0

(* A context's count is exactly the references there are: the table's and  *)
(* one for each thread that has grabbed it; a context is deleted by the    *)
(* release that makes it 0, and by no other (skynet_context_release).  The *)
(* types of the variables are part of it.                                  *)
RefCounted ==
  QueueTypeOK /\ \A s \in Sid :
    /\ ref[s] = One(s \in registered) + FramesAt(s, Holding)
    /\ ctx[s] \in {"init", "live"} <=> ref[s] > 0 \/ FramesAt(s, {"Delete"}) = 1

(* A queue that is marked in_global or for release is in one place, in Q   *)
(* or with one thread, until it is freed; any other is nowhere, and the    *)
(* next push finds it (skynet_mq.c:15, and the asserts on queue->next).    *)
QueueOwned ==
  ~quit =>
    \A s \in Sid :
      Cardinality({i \in DOMAIN global : global[i] = s}) + FramesAt(s, Owning)
        = One(ctx[s] # "none" /\ ~freed[s] /\ (in_global[s] \/ release[s]))

(* A message is with its receiver, or refused, or its sender, if it still  *)
(* runs, has or will have the error in its place (drop_message).           *)
Somewhere(x) ==
  \/ x \in done
  \/ \E s \in Sid : x \in Range(mqueue[s])
  \/ \E t \in Thread : \E i \in DOMAIN stack[t] : stack[t][i].msg = x
NoSilentLoss ==
  \A m \in Msg : source[m] \in registered => Somewhere(Say(m)) \/ Somewhere(Err(m))

(* A message is handled by a context whose init function has returned      *)
(* (assert(ctx->init) in dispatch_message), by one worker at a time.       *)
InitFirst ==
  \A s \in Sid :
    /\ FramesAt(s, {"Callback"}) > 0 => ctx[s] = "live"
    /\ FramesAt(s, {"Callback", "Init"}) <= 1

(* The threads are told to stop only when no service is left or to come.   *)
QuitMeansOver == quit => \A s \in Sid : ctx[s] \notin {"init", "live"}

(* Every message leaves its queue (as many as Msg allows are ever sent),   *)
(* though workers go to sleep without looking at Q again: the timer        *)
(* thread's wakeup sees to it.                                             *)
AllEmpty == \A s \in Sid : mqueue[s] = << >>
QueueDrains == ~AllEmpty ~> (AllEmpty \/ quit)

(* The queues implement ActorMailbox; messages of a service that has left  *)
(* the table may be dropped.                                               *)
Handling(s) ==
  IF FramesAt(s, {"Callback"}) = 0 THEN Nobody
  ELSE LET w == CHOOSE w \in Worker : \E i \in DOMAIN stack[w] :
                  stack[w][i].at = "Callback" /\ stack[w][i].svc = s
       IN stack[w][CHOOSE i \in DOMAIN stack[w] :
                     stack[w][i].at = "Callback" /\ stack[w][i].svc = s].msg

Mailbox == INSTANCE ActorMailbox WITH
  Service <- Sid, Msg <- Mail, Idle <- Nobody,
  mailbox <- mqueue, handling <- [s \in Sid |-> Handling(s)],
  ended <- {s \in Sid \ registered : ctx[s] # "none"}
ImplementsMailbox == Mailbox!MailboxSpec
=============================================================================
