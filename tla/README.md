# Verification of the game server examples

TLA+ models, TLC runs and TLAPS proofs for the programs of this repository: the
chapters of a course on game servers, each a program of its own. These carry
real concurrency and state, and they are what this project is about:

* **Sunnet** (`05_C++_concurrency`, `06_tcp_network_module`, `07_embed_lua`): an
  actor runtime in C++ whose worker threads run services, with a socket thread and
  Lua scripts. 07 contains 06 contains 05; the models follow 07.
* **the ball battle game** (`03_case_ball_battle`, `04_skynet_advanced`): Lua
  services on Skynet (gateway, login, agent manager, agents, scenes).
* **Skynet** (`02_skynet/lib/skynet`), the C runtime that chapters 03 and 04 run
  on, vendored in full: message queues, workers, timer, socket server.
* **single-threaded servers** (`01_role_start`, `21_network_programming_basic`).

## Inventory

| Part | State | Operations | What is hard | What makes it correct |
|---|---|---|---|---|
| Scheduler (07 `Sunnet`, `Worker`, `Service`) | service table, global queue, sleeping workers; per service: mailbox, `in_global`, two locks, `is_exit`, Lua state | `NewService`, `KillService`, `Send`, the worker loop, `CheckAndPutGlobal`, `CheckAndWeakUp`, `WorkerWait` | a push racing the check that the mailbox is empty; two lock orders; notify before wait; kill while running | one worker per service, no message stranded, mailbox order, no lock cycle, queued services are run |
| Socket thread and connection table (06, 07) | `conns`, epoll, descriptors, `writers` | `OnAccept`, `OnEvent`, `OnRW`, `OnRWMsg`, `CloseConn` | descriptors used again at once, late events, edge triggering | table and descriptors agree, one close per connection, live clients stay registered and open |
| Connection writer (06, 07) | `write_list`, `is_closing`, EPOLLOUT | `EntireWrite`, `OnWriteable`, `LingerClose` | partial writes, EAGAIN, `errno`, closing while data waits | bytes in order, none lost, what waits is written, closing ends |
| Skynet queues and threads (02) | handle table, reference counts, message queues, `Q`, sleeping workers | send, launch, kill, dispatch, release, drop, abort | a queue that outlives its context, references shared by threads, a service that is sent messages before it is ready | each queue in one place, a context freed by its last reference, no message lost in silence, queues drain |
| Skynet timer (02) | near list, four levels, a 32-bit time | add, update, shift, dispatch | the wrap, adds between ticks and during dispatch | fires at its tick, in order |
| Skynet socket server (02) | slots, two send lists and a direct write, commands in a pipe | connect, accept, start, pause, send, close, every event | services read and write the slot beside the socket thread; ids that use a slot again | items whole and in order, one close, a close flushes and ends |
| Gateway, login, agent_mgr, agent (03, 04) | `conns`, `players`, status per player, message cache | login, take-over, reconnect, disconnect timer, kick, shutdown | coroutines that interleave at every call, stale closures, several gateways | one agent and one client per player; kicks hit the session they are meant for |
| Scene and the agent's scene part (03, 04) | balls, foods, the agent's scene | enter, leave, shift, the 0.2 s update | state checked before a call and used after it | a ball for exactly the agents in the scene |
| Admin (04) | `closing` | shut gateways, then agents in batches | logins under way | everybody online when it began has been saved when it ends |
| Role server (01), echo server (21) | client table | accept, read, echo, remove | edge-triggered accept, clients that closed | - |
| Hot update (09) | old and new functions | reload | references kept to old code | - |

Interaction: worker threads and the socket thread meet only in `Sunnet` (locks,
queues) and in the kernel (epoll, descriptors). A service's callbacks call back
into `Sunnet`. Skynet's workers meet in the handle table, the queues and the monitor;
its socket thread takes commands from a pipe, but services also look at its slots
and write to descriptors themselves. The game's services only exchange messages; each handler is a
coroutine that gives way to others at every `call` and `sleep`.

`PROJECT.json` lists every component with its status and every hazard with its
line; see "Not modelled" below for what is left out.

## Modules

    ActorMailbox            what a scheduler promises: FIFO mailboxes, one message at a time
    SunnetScheduler         threads, locks, queues of 07; INSTANCEs ActorMailbox
    SunnetSchedulerProofs   TLAPS proofs about SunnetScheduler, ActorMailbox included
    ConnWriter              one connection: ConnWriter, OnRWMsg, socket thread, kernel
    ConnWriterProofs        TLAPS proofs about ConnWriter
    SunnetNet               many connections over few descriptors
    SunnetNetProofs         TLAPS proofs about SunnetNet
    SkynetQueue             Skynet's services, queues and workers; INSTANCEs ActorMailbox
    SkynetQueueProofs       TLAPS proofs about SkynetQueue, ActorMailbox included
    SkynetTimer             Skynet's timing wheel
    SocketServer            Skynet's socket server, one slot
    SocketServerProofs      TLAPS proofs about SocketServer
    GameSession             gateways, login services, agent_mgr and agents of 04
    GameSessionProofs       TLAPS proofs about GameSession
    GameShutdown            closing the servers: EXTENDS GameSession
    GameShutdownProofs      TLAPS proofs about GameShutdown, and about the answers
                            agent_mgr waits for, with and without it
    SceneAgents             scenes and the agents in them
    SceneAgentsProofs       TLAPS proofs about SceneAgents

    MCSunnetScheduler, MCConnWriter, MCSunnetNet, MCGameSession, MCScenes
                            constants for TLC
    MCSunnet                SunnetScheduler and ConnWriter
    MCServices              SkynetQueue and GameSession under fairness
    MCSockets               SunnetNet, SkynetTimer and SocketServer
    MCGame                  GameShutdown and SceneAgents

The last four check components that share no state in one run: a variable
`part` says, from the start, which of them the behaviour is of, and the others
stay as they began. Each property is about the variables of one component, so a
run says of each exactly what a run of its own would.

`ConnWriter` and `SunnetNet` take from the scheduler that a service handles one
message at a time in the order sent (`SingleOwner`, `ImplementsMailbox`): the
service there is one process with a FIFO mailbox.

### SunnetScheduler

A step is what happens between two points where another thread could matter. A
lock held around a single access is one step (`PushMsg`, `PushGlobalQueue`, the
table operations, `CheckAndWeakUp`). The locks of a service are variables, because
`Send` holds `in_global_lock` while it takes `global_queue_lock` and
`CheckAndPutGlobal` holds `msg_queue_lock` while it takes either of the others.

`pc[t]` is the point a thread has reached, named after the function; `frames[t]`
is its stack of Lua callbacks, so that a callback can create a service whose
`OnInit` runs inside it, or kill one whose `OnExit` does. Any callback may make
any calls of the API (`ApiCall`), up to `CallBudget`. Messages are model values
that may be used again once handled, which bounds what is in flight and nothing
else. `global_queue_len` is the length of the queue; the unlocked reads of it and
of `is_exit` see the current value, as the compiled code does on the platforms
the program runs on. `condition_variable::wait` may return by itself
(`SpuriousWakeUp`). Closing a Lua state that is in use has no defined outcome;
the model records it (`vm`) and lets the thread go on.

The workers' `each_num` is `2 << i`: 2 and 4 for the two workers of the runs.

| Run | Shows |
|---|---|
| `sunnet` | `SingleOwner`, `NoStranded`, `LockProgress`, `InGlobalMeaning` and the refinement `ImplementsMailbox`, with kills and a listening service; 2 workers, main, the socket thread, 2 services, 2 messages |
| `sched_live` | `AwakeWorkerServes` under fairness, without kills |
| `lost_wakeup` | violation of `QueuedIsServed`: all workers asleep, a service queued |

`InGlobalMeaning` is what the comment of `in_global` in `Service.h` says, for services
that were not told to exit: a worker drops one that was, with its flag set.

Bounds: every race here is between a sender and the worker of one service, or two
senders; two services add the order of the global queue and a second victim for a
kill, two messages let a queue be non-empty while one is handled. Main makes two
(three) calls in its `OnInit`, every other callback one. The proofs below remove
these bounds for the safety properties, as those of the other modules do for theirs.

### ConnWriter

The connection from the moment `OnAcceptMsg` has made its writer. The service's
handler is cut at the system calls. The kernel is external: a send buffer of
`SendBuf` bytes, `write` with its four outcomes, and edge-triggered epoll as Linux
implements it: the socket goes on the ready list when input or an end arrives,
when room appears after a write or poll that found none, and when
`epoll_ctl` finds it ready; `epoll_wait` takes it off and reports what then
holds. `errno` belongs to the worker thread and is changed by failed calls only.
The script may call `EntireWrite` and `LingerClose` whenever it runs; in 07 they are
C++ functions that no script reaches yet (the Lua API has `Write` and `CloseConn`),
so this models how they are meant to be used. No signal handler is installed, so EINTR
does not occur.

| Run | Shows |
|---|---|
| `sunnet` | `InOrderNoLoss`, `LingerSendsAll`, `NoStuckWriter`, and `Drains` under fairness; buffers of 3 bytes and 1, a send buffer of 2, so that full, partial and refused writes all occur, the peer sending, half-closing or resetting at any time |
| `writer_start` | violation of `StartIsWritten`: -1 counted as bytes |
| `writer_linger` | violation of `LingerCloses`: a stale EAGAIN hides the end |

`InOrderNoLoss` says at least once, in order, nothing skipped; that bytes are
repeated and foreign ones sent after EAGAIN is the finding of `writer_start`. The
first buffer is larger than the send buffer and the second is not, which is
enough for an object to be refused, sent in part, and followed by another. One
worker is enough there: two would only make a stale `errno` rarer.

Fairness: threads run, callbacks return, the peer keeps reading (a peer that
stops holds the data back for ever, which is not the writer's fault), and events
in the mailbox are taken, since a FIFO mailbox is not overtaken for ever. The last
one relies on the scheduler running a queued service, which it does while a worker
is awake (`AwakeWorkerServes`; see `lost_wakeup` for the rest).

### SunnetNet

The socket thread's loop, `OnAccept` in its four steps, and the chat service's
`OnRWMsg` and `CloseConn` in theirs. accept gives out the lowest free descriptor.
Clients send, and end with a FIN; output and resets are in `ConnWriter`.

| Run | Shows |
|---|---|
| `sockets` | `ConnMeansOpen` and `ClosedOnce`; three clients, two descriptors, so that numbers are used again and accept also fails |
| `net_registered` | violation of `Registered`: `RemoveEvent` after `close` hits the next client |

Every client may have come and gone, so deadlock is not checked there.

### SkynetQueue

A service is a context (`ctx`, `ref`, in the table when `registered`) and a
message queue that outlives it. `stack[t]` holds for each thread the rest of every
C function it is inside of: a worker's turn (`Grab`, `Batch`, `PopMsg`, `Callback`,
`NextPop`, `PushBack`), and over it what a callback calls (`Push`, `Release`,
`Delete`, `MqRelease`, `Drop`, and `Init` ... `LaunchPush` of
`skynet_context_new`). A spinlock, or one atomic operation, is one step. A callback
may send, launch a service or kill one, itself included, and so may `Socket`,
which stands for the threads that push from outside. The timer thread is
`WakeUp`, for the wakeup it sends every 2.5 ms, and `Abort`.

The same `ActorMailbox` that `SunnetScheduler` implements is what `SkynetQueue`
implements (`ImplementsMailbox`), with the same mapping: what is handled is in the
callback, and the end of a service drops what waits.

| Run | Shows |
|---|---|
| `services` | `RefCounted`, `QueueOwned`, `NoSilentLoss`, `InitFirst`, `QuitMeansOver`, `ImplementsMailbox`, and `QueueDrains` under fairness; two workers of weights -1 and 0, a service from the start that launches another, kills, two messages |

Two services give a sender, a receiver, and one that dies with messages in its
queue; both weights occur, so a turn is of one message or of all there are.
Handles grow and are not used again in a run (2^24 of them in the code).
Fairness: threads run, callbacks return, and the timer thread goes round
(`WakeUp`): `QueueDrains` fails without it, since a worker goes to sleep without
looking at `Q` again.

### SkynetTimer

`near`, `wheel`, the time and the fields of the nodes as in the code, with fewer
bits: `Near` and `Level` are 2 each in the run, so that all four levels and the
wrap of the time are met within 32 ticks, from every time on. `left` counts down
the ticks to each node's due time without looking at the wheel. The timer thread
gives up the lock to dispatch, and `UpdateTime` may find up to `MaxDiff` ticks
passed. In `sockets`: `FiresOnTime` and `SameTickInOrder` with two nodes that are
used again and again; order only concerns pairs.

### SocketServer

One slot of the table, from `reserve_id` on, with the ids that use it one after the
other. The socket thread's functions are steps (`force_close` in two, since it
frees the lists before it takes the lock); a service's `socket_server_send` is
cut at each look it takes at the slot: unlocked, locked, write, and the command
it writes to the pipe. An item is two halves. The kernel is external: a write
takes any part; `sp_wait` returns any non-empty set of the conditions that hold.

| Run | Shows |
|---|---|
| `sockets` | `SendingCounts`, `CloseOnce`, `WholeInOrder`, `WriteArmed`, `CloseFlushes`, `ClosingEnds`; two senders, two items, two ids, either priority, pauses, closes, shutdowns, a peer that ends or breaks off at any time |

Two items let one be written in part while another overtakes or waits, and two
ids let a late command or send of the first meet the second.

### GameSession

One variable `queue[s]` per service, a FIFO queue as `SkynetQueue` shows it. A step
is what a service does with the message at its head until the handler calls
another service, or the socket library, and waits; everything that segment sends
is appended at once. That is sound because a segment sends to one service last
and what it sends elsewhere (`exit` to an agent) causes nothing before that.
A handler of agent_mgr that waits is a record in `co`, carried by the call and
its answer. The handlers of login services share nothing and need no queue: each
login attempt is one process, and its number also names the mgr_player, the agent
and the gate_player it makes, which are objects with an identity in the code.

Clients connect, log in, send requests, reconnect with the right key or another
one, and close. The socket library's part is in `Connected`, `Woken` and the
variables `reader` and `closing`: a kick's `socket.close` waits until the reader
of the connection leaves its own wait. Agents load and save for as long as they
like. Messages to clients and passwords are left out, as are several nodes (where
the take-over's wrong handle would name some other service).

| Run | Shows |
|---|---|
| `game` | `SavedBeforeLoad`, `StatusAttended`, `GameHasAgent`, `AnswerComes`, with `GameShutdown`; two gateways, two connections, two logins of one player, two requests or reconnects, a cache that overflows at once |
| `services` | `LoginAnswered`, the same without requests and without shutdown |
| `session_timer` | violation of `TimerKicksTheAway`: an old timer kicks a later session; one gateway |
| `session_takeover` | violation of `OneClient`: the wrong gateway is told |

Two logins are enough for a login to be refused in each status, to take over, and
to race a kick or a timer of the other one; the safety properties of `game`
also held with three (1 295 198 states, no requests). Different players share
gateways and agent_mgr but no record, except where one connection logs in as two
players, which the runs do not cover. Gateways and connections are interchangeable,
which is the symmetry of `game`. Clients may stop at any time, so deadlock is
not checked; `AnswerComes` says for each waiting handler that its answer is under way.
Fairness in `services`: every service goes on with its messages and agents
finish loading and saving; timers and clients owe nothing. Without a client's
next message nothing is left to do, which is why the weak form is enough.

### GameShutdown

EXTENDS `GameSession` with admin's `stop`, the `closing` of the gateways and the
`shutdown` handler of agent_mgr: it forks the `req_kick` of some player, which is
refused for a player who is on the way in or out, and looks at its table until
somebody has gone. `Play` is a step of `GameSession`, except that a closing gateway
takes no connection; in the run the clients only log in and leave. `AbortSaves` (run `game`): when agent_mgr reports that nobody
is online, the data of everybody who was is saved. It says nothing of a login that
comes after the report on a connection that is already open: that one can be lost,
since closing stops new connections only; nor does it say that shutdown ends,
which it need not when the player it picked was just logging in.

### SceneAgents

An agent's handlers wait in calls (`call[a][k]`), so an enter, a kick and another
enter overlap; a scene's handlers and its update wait for nothing and are a step
each. What scenes send to an agent stays in order; the agent hands it on message by
message (`Forward`: `sends`, `view`). A call of an agent that has exited meanwhile
is still handled by the scene: that is how a kick during an enter leaves a ball
behind, which the model reaches.

agent_mgr makes a player's next agent once the last one has answered its kick
(`Saved`), not when it has handled `exit`, a message nobody waits for. Until then
the old agent goes on: it answers calls, forwards, and may enter a scene. So `Login`
only asks that no agent of the player is before its answer, and `Exit` is a later step;
two agents of one player may both be alive, and a scene, which knows
balls by player, refuses one while the other has a ball in it.

`view[a]` is what agent `a` has passed on to its client, as a client that takes each
message at its word: `odd` says that it was told of a ball or food it had, or of the
end of one it had not. It is kept for `Patient` agents, those whose client waits for
the answer to an enter before it sends another one. The other agents' clients send
several enters at once and may end up with balls in two scenes; `ScenesAgree` still
says of them that the scene they take themselves to be in has their ball.

| Run | Shows |
|---|---|
| `game` | `ScenesAgree`, `AgentTells`, `FoodsCounted`: two scenes, two coroutines waiting per agent, and either an agent each of two players (one food), or two agents of one player, of which the second need not wait for the first's exit (no food), or one agent, three foods and a limit of one |
| `food_limit` | violation of `FoodsLimited`: a scene with as many foods as the limit makes one more |

Two agents of one player are all that can be alive at once, and the only ones that
can take each other's ball; two scenes are enough to be in the wrong one.

What these properties do not say: a ball may stay behind in a scene when its agent has
exited, and keep the player out of that scene; a client that does not wait may have a
second ball; and the gateway, which sends by player, gives the new client also what
the old agent still passes on. The code does all three, and nothing in it says
otherwise.

## What is proved

`SunnetSchedulerProofs` proves, for any number of workers, services and messages,
any scripts and any `EachNum`, from the assumptions on the constants (threads are
distinct, `None` is none of them, bounds are naturals):

* `TypeCorrect`: `Spec => []TypeOK`. `TypeOK` alone is not inductive: `ControlInv`
  adds what a program counter says of the registers (a thread in a call has a
  service in `arg`, a worker outside its loop has one in `cur`).
* `SingleOwnerAlways` and `NoStrandedAlways`, from one inductive invariant,
  `TypeInv /\ SafetyInv`. The strengthening is
  - `LockInv`: who holds which lock is determined by the program counters;
  - `FlagInv`: a queued or held service has `in_global` set, or a sender that is
    just setting it; a live service with `in_global` set is queued or held; a
    sender past its check sees the flag clear; a worker about to clear the flag
    still has an empty mailbox.

  Neither property is inductive without it: `SingleOwner` survives a push because
  the flag was clear under the lock, and `NoStranded` survives the clearing of the
  flag because `msg_queue_lock` kept the mailbox empty since the check, and a
  sender that pushes later still has its own check before it.
  The proof has one lemma per action that moves a service, a message or a lock, and
  one (`QuietStep`) for all the others.

The same module proves that the scheduler implements `ActorMailbox`
(`Refinement`: `Spec => ImplementsMailbox`). The refinement mapping keeps the
mailboxes and lets a service handle what the worker that holds it handles. It is a
function of the state because `SingleOwner` gives a service at most one worker
(`HandlingAt`). One more invariant, `HmsgInv`, says that a worker between two
messages holds none, so taking a service or giving it up is not seen (`MoveUnseen`);
`PopMsg` and the return of `OnMsg` are seen as exactly `Take` and `Finish`
(`MessageSeen`), a push as `Deliver`, and every other step stutters.

`InGlobalMeans` (`Spec => []InGlobalMeaning`) is read off the invariant, whatever is
killed. `InGlobalOfLiving` adds, from `KillInv`, that a service that no script kills
is never told to exit and is in nobody's `DeleteService`: of those the comment of
`Service.h` is true without a condition.

`GameSessionProofs` proves, for any number of players, gateways, connections and
logins, any `CacheLimit` and any requests of clients, from `BoundAssumption` (bounds
are naturals), `NameAssumption` (services and `None` have names of their own) and
`CoroutineAssumption` (`None` is no handler):

* `TypeCorrect`: `Spec => []TypeInv`, where `TypeInv` adds to `TypeOK` that no
  table, queue or handler names a login that was not made (`MadeInv`); without it
  the records that handlers look up might not be there.
* `SavedBeforeLoadAlways`, `StatusAttendedAlways` and `GameHasAgentAlways`, from one
  inductive invariant, `TypeInv /\ SessionInv`:
  - `RequestInv`: a login asks agent_mgr once. Its request is in one place only and
    no agent has been made for it before that, so no handler makes a second one;
  - `HandlerInv`: a handler that waits has its player's place in the table to
    itself, in the status it left, and the agent where it left it; no two handlers
    are for the same login or the same victim;
  - `TableInv`: a player in the table is in the game with a running agent, or has
    such a handler;
  - `AgentInv`: an agent with data not saved is the one in the table, and is told to
    stop only after `LOGOUT`;
  - `AnswerInv`: what an answer says has happened, wherever it is on its way.

  `SavedBeforeLoad` follows since two agents with data would both be the one in the
  table. It is not inductive alone: that the take-over may load is known from an
  answer, written by the agent two services ago. Steps that only post messages
  nobody draws a conclusion from are handled together (`CalmStep`, `QuietStep`);
  each handler of agent_mgr has a lemma of its own (`TakeOverSessions` ...).

`GameShutdownProofs` proves, with the same assumptions:

* `AnswerComesAlways`. The invariant adds `ComingInv`: the
  answer of each handler is under way (`Coming`), at most two kicks wait for one
  socket (`WaitInv`: the code's assert on `closing`, and why `Woken` answers
  everybody), and the gateway of a login is one (`PortInv`). `Loses` says what a step
  takes out of the queues; a handler whose message is not among it goes on waiting
  (`SafeComes`), and the one whose message is taken is the subject of that step.
* `ShutdownTypeCorrect` and `ShutdownKeepsSessions`: all invariants of the sessions
  hold while the servers are closed. shutdown's kicks are handlers of agent_mgr
  like any others (`ForkKick` makes one only for a player in the game), and its own messages
  are such as no handler draws a conclusion from, so most of the invariants carry over by
  the lemmas of `GameSessionProofs`; a gateway that closes keeps the
  connections it has.
* `AbortSavesAlways`, from `StopInv`: whoever was online at the count and has not saved
  is still in the table, so a table that is found empty means that all have saved.
  It rests on `AgentInv` and `HandlerInv`: an agent leaves the table only when it
  has exited, and exits only after its save.

`SceneAgentsProofs` proves, for any agents, roles, scenes, foods and coroutines, from
`PlayerAssumption`, `NobodyAssumption`, `SlotAssumption` and `FoodAssumption` (the
constants have their types; `Nobody` is no agent and no scene), `SceneTypeCorrect`,
`FoodsCountedAlways`, `FoodsBounded` (one food beyond the limit at most, which is the
overrun of `food_limit`) and `ScenesAgreeAlways` from one inductive invariant, `SceneInv`:

* `CallInv`: what a call of an agent asks for goes with what the agent does meanwhile;
* `RoleInv`: a ball is that of an agent of its player, which of them is not said;
* `BallInv`: an agent has a ball of its own (`Keeps`) for each enter that a scene has
  granted and for the scene it takes itself to be in, unless that has let it go.
  Enter and leave find a ball by the player, so two agents of a player could take each
  other's: enter cannot, since a scene refuses while any ball of the player is there,
  and leave cannot, since the agent that leaves has the ball that is there;
* `HomeInv`: for patient agents also the converse, which they need since they
  enter in one coroutine at a time, and only when they are in no scene;
* `FoodInv`: the counter, and that a food's number is not given out again.

`AgentTellsAlways` is inductive beside it, with `Calm`: whatever a patient agent was told,
nothing was odd, also while it is in no scene, so that the lists of its next enter
bring its client up to date. It compares a fold over the messages under
way with the scene: what a step sends to an agent is a message more
(`FoldLeft` over an appended sequence), and what the agent forwards to the client is one
less at the front, for which the fold's own start moves. Both are proved by induction
on sets of lengths: the library's induction theorems take an operator, but
`SetInduction` is stated for a set and can be used. That no food is announced twice
is the numbering of `FoodInv`, that no ball is, `RoleInv` and the refusal above.

`ConnWriterProofs` proves, for any buffers of any length, any send buffer and any
peer, from `SizeAssumption` (lengths are naturals, the send buffer is not empty) and
`NilAssumption` (`Nil` is no worker and no event):

* `WriterTypeCorrect`: the type of the state, whose hard part is that an object
  leaves the list before its `start` reaches its end.
* `WritesInOrder`, from `BytesInv`: the list holds the last of the accepted buffers
  (`ListInv`), what was sent is of the others and of the first of the list
  (`SentInv`), in the order of the buffers (`OrderInv`), and every byte of an
  accepted buffer was sent or lies behind the `start` of an object in the list
  (`LossInv`). The two halves need each other: a byte is not skipped because the
  list is in order, and the order is kept because only the first object is written.
* `LingerCorrect`, from `LingerInv`: while the peer is there, reading ends and the
  socket is closed only after `LingerClose` with an empty list.
* `NeverStuck`, from `StuckInv`: a list that is not empty is armed for EPOLLOUT and
  its event is somewhere on its way, through epoll's ready list, the socket thread,
  the mailbox and the service, or due when the peer has read.

`SunnetNetProofs` proves, for any clients, workers, descriptors and blocks, from
`FdAssumption`, `ClientAssumption` and `BlocksAssumption` (they are numbers, finitely
many descriptors) and `WorkerAssumption` (`NoFd` is no worker),
`TableMeansOpen` and `SocketClosedOnce`. `AddInv` says that what accept
returned stays open, without a Conn, until `AddConn`; `CloseInv` that the service
closes a connection it has found, and that its number is not given out before
`close`; `DueInv` that `OnSocketClose` is due exactly for the connections in the
table. A number given out again is safe only since the Conn is removed before
`close`, which is what the two have in common.

`SocketServerProofs` proves, for any number of services, ids and items, any size of
the pipe and any pauses, from `BoundsAssumption`, `SenderAssumption` and
`ItemAssumption` (bounds are naturals, services and items finite) and
`EventAssumption` (`NoEvent` is no event):

* `SocketTypeCorrect`, `CountIsTrue` and `ClosedOnce`, from one inductive invariant,
  `SockInv`. `s->sending` is never negative only because `SendingCounts` holds, and
  that depends on who knows an id: `IdsInv` says that commands and calls name ids
  that services were told of, so that none waits for an id before it is given out;
  `TcpInv` that the tag of the count is the slot's id; `CloseInv` when SOCKET_CLOSE
  has been raised; `EmptyInv` and `LockInv` that a service holds the lock with
  nothing left by a direct write before it.
* `WritesAreArmed` and `ClosingHasAnEnd`: `WriteArmed` and `ClosingEnds` are inductive
  beside `SockInv`.
* `ItemsWhole`, from `SentInv` (a command carries an item to the id it was sent to),
  `ForInv` (so does everything queued and written) and `PairInv`: what is written,
  what a direct write left and the high list are, one after the other, whole items,
  and the low list is too. `LockInv` adds what lets a direct write go ahead of
  the lists: since its second look, only whole items were queued. `WireBuffer` is
  the step of `send_buffer_`, whose `raise_uncomplete` is what keeps the rest of an item
  of the low list from being overtaken.
* `FlushedWhenClosed`, which is `CloseFlushes`, from three more invariants. `EndInv` says
  how an id ends: nothing is owed once its connection is broken or shut down, and
  `force_close` runs only after that or after a close was asked for. `OrderInv` is the
  order in the pipe: the requests of what is owed are before the close, and the start
  of an accepted socket before every request. `FlushInv` has each item in one place, a
  call, the pipe or, both halves, the line of what is written, left by a direct
  write and queued; what is owed is in the pipe or that line, and when the socket
  closes all of it is written, since `close_socket` waits for the lists and the count.

`SkynetQueueProofs` proves, for any number of workers, services and messages, from
`WorkerAssumption` and `SidAssumption` (workers and handles are finite, the socket
thread is no worker, the first services are services), `WeightAssumption` (the weights
are those of `start`, -1 to 3) and `NobodyAssumption` (`Nobody` and `Unsent` are no
service and no message), all five invariants of the module and its refinement.

Its properties count: references, places of a queue, frames in a callback. So the
proof first says how the number of frames of a kind changes when a thread enters,
leaves or replaces a frame (`Cnt`, `G` for the places in `Q`), once for every stack,
and each action then only adds up. The inductive invariant, `QInv`, is

* `RefInv`: `ref` is the entry in the table and the frames that hold a reference, and
  one thread at most is deleting;
* `OwnInv`: the places of a queue and its two flags agree (`QueueOwned`);
* `GoneInv`: only the queue of a context that is gone is released, and is marked
  before it is dropped, so that no turn is of a queue whose messages are dropped;
* `TurnInv`: a turn is that of a live context, since `Grab` has taken a reference, and
  a context still in its init function is with the thread that launches it;
* `StackInv` and `AdjInv`: which frames lie on which. What `LaunchPush` and
  `MqRelease` rely on is done by the frame above them (the context is live or deleted,
  the handle has left the table), so it is known only once they are on top;
* `QuitMeansOver` itself: after `quit` nothing is launched and no turn begins.

`RefCountedAlways`, `QueueOwnedAlways`, `InitFirstAlways` and `QuitMeansOverAlways`
follow from it. `QueueOwned` speaks of the time before `quit`: a worker that stops may
leave the queue it has just popped, which is harmless only by `QuitMeansOver`.

`NoSilentLossAlways` adds `ErrInv`: an error message goes to the service that sent the
message, so when it is lost in its turn, that service has left.

`QueueRefinement` (`QueueSpec => ImplementsMailbox`) goes as for `SunnetScheduler`: by
`InitFirst` at most one frame handles a message of a service (`HandlingInv`), so the
mapping is a function of the state; a push is `Deliver`, `PopMsg` is `Take`, the
callback's return is `Finish`, `Drop` throws away only the messages of a service that
is gone, and all other steps stutter (`MailboxQuiet`).

All the invariants were checked by TLC, on the bounds of the runs, before they were
proved. Only model-checked:

* `LockProgress`, which speaks of ENABLED, and the liveness properties
  (`AwakeWorkerServes`, `Drains`, `QueueDrains`, `LoginAnswered`);
* `FiresOnTime` and `SameTickInOrder` of `SkynetTimer`, which are about powers of two
  and the shifting of whole lists.

`TypesOK` and `TypeOK` of `MCGame` and `MCSockets` are the conjunctions of the types of
the modules side by side, each of which has its theorem, `SkynetTimer` excepted. The
theorems about `GameSession` are about its own steps, those of `GameShutdownProofs` about
the steps of `GameShutdown` too; `game` checks both.

## Findings

`PROJECT.json` quotes the lines. In short: a queued service can be left with all
workers asleep; -1 is stored as a byte count; a stale EAGAIN keeps finished
connections open; closing a descriptor before removing it from epoll deafens the
next client with that number; a disconnect timer outlives its session and kicks the
next one; a take-over through another gateway leaves the old client connected; a scene
makes one food more than the 50 its comment allows.

`session_timer` may show its trace with a `sure_agent` that arrives late; the
plain case has the same length: log in, lose the connection, log in again within
five minutes.

## Not modelled

* Lua itself (`3rd/lua`, `07_embed_lua/3rd`, `01_lua_study`), which is most of the
  repository's lines: a sequential interpreter without state shared by threads.
  What its callers rely on, one thread in a state at a time, is `vm` in
  `SunnetScheduler` and `InitFirst` in `SkynetQueue`.
* Skynet's Lua library, C services, cluster and harbor: chapters 03 and 04 use
  `call`, `send`, `fork`, `sleep` and `socket.close`, which are in `GameSession`.
* UDP, listening, options and statistics of the socket server; the monitor thread
  of skynet, which only reports.
* Position synchronisation (08), whose Lua does not run; hot update (09), three
  demonstrations driven by hand; the library exercises of 04; configuration.
* The role server (01) and the echo server (21): one thread, one loop. What can go
  wrong in them is in the code of single functions.
* In the scene: `shift`, `move_update`, positions and sizes. Which foods a ball
  reaches is open, which covers every position.
* Malformed packets of clients, wrong passwords, several packets in one read.
