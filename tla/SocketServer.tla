---------------------------- MODULE SocketServer ----------------------------
(***************************************************************************)
(* The socket server of skynet (02_skynet, socket_server.c), seen through  *)
(* one slot of its table, which id after id uses.  The socket thread owns  *)
(* the socket; services give it commands through a pipe, but also look at  *)
(* the slot themselves and write to the descriptor when nothing is queued. *)
(*                                                                         *)
(* An item is two halves, so that a write may be partial.  What is read is *)
(* left out, and so are UDP, binding, listening, options and warnings.     *)
(* The next id takes the slot only when no event of the last one is held   *)
(* and no direct write is being considered: 65536 ids are given out in     *)
(* between.                                                                *)
(***************************************************************************)
EXTENDS Integers, FiniteSets, SequencesExt

CONSTANTS
  Sender,        \* services (threads) that use the socket
  MaxId,         \* bound: the ids that use the slot
  Item,          \* what is sent, numbered in the order it is
  Paused,        \* bound: the ids that services pause
  PipeSize,      \* commands the pipe holds: a write to it blocks
  NoEvent

Ids == 1 .. MaxId

ASSUME BoundsAssumption == MaxId \in Nat /\ PipeSize \in Nat
ASSUME SenderAssumption == IsFiniteSet(Sender)
ASSUME ItemAssumption == Item \subseteq Nat /\ IsFiniteSet(Item)
ASSUME EventAssumption ==
  NoEvent \notin [read : BOOLEAN, write : BOOLEAN, error : BOOLEAN, eof : BOOLEAN]

VARIABLES
  slot,          \* struct socket
  pipe,          \* commands on their way to the socket thread
  loop,          \* where the socket thread is in socket_server_poll
  ev,            \* the event of the slot that sp_wait returned
  api,           \* api[v]: where v is in a call, for which id and item
  told,          \* ids that services use
  peer,          \* kernel: open, fin (it has closed), error, gone
  sent,          \* history: the id each item is sent to, or 0
  (* and of the present id: *)
  wire,          \* the halves written
  closes,        \* SOCKET_CLOSE messages
  over,          \* it was asked to close, or its connection broke
  owed,          \* items taken before that
  cut,           \* its lists were freed within an item
  refused        \* an item was refused since it is closing

hist == <<sent, closes, over, owed, cut, refused>>
sockvars == <<slot, pipe, loop, ev, api, told, peer, wire, hist>>

Types == {"INVALID", "RESERVE", "CONNECTING", "CONNECTED", "PACCEPT",
          "HALFCLOSE_READ", "HALFCLOSE_WRITE"}
Slot == [type : Types, id : 0 .. MaxId, tcp : BOOLEAN, closing : BOOLEAN,
         reading : BOOLEAN, writing : BOOLEAN, tag : 0 .. MaxId, count : Nat,
         high : Seq(Item), low : Seq(Item), dw : Seq(Item), locked : BOOLEAN]

Command(c, id) == [cmd |-> c, id |-> id]
Request(c, id, m) == [cmd |-> c, id |-> id, item |-> m]
Commands == {Command(c, id) : c \in {"O", "R", "S", "W", "K", "shutdown"}, id \in Ids}
              \cup {Request(c, id, m) : c \in {"D", "P"}, id \in Ids, m \in Item}

Idle == [at |-> "idle"]
Calls == [at : {"check", "check2", "trylock", "recheck", "recheck2", "write",
                "trigger", "count", "request"}, id : Ids, item : Item, cmd : {"D", "P"}] \cup {Idle}
Loops == [at : {"wait", "ctrl", "event"}]
           \cup [at : {"force"}, back : {"ctrl", "wait"}, close : BOOLEAN]

SockTypeOK ==
  /\ slot \in Slot
  /\ pipe \in Seq(Commands) /\ Len(pipe) <= PipeSize
  /\ loop \in Loops
  /\ ev \in [read : BOOLEAN, write : BOOLEAN, error : BOOLEAN, eof : BOOLEAN] \cup {NoEvent}
  /\ api \in [Sender -> Calls]
  /\ told \subseteq Ids /\ sent \in [Item -> 0 .. MaxId]
  /\ peer \in {"open", "fin", "error", "gone"}
  /\ wire \in Seq(Item) /\ owed \subseteq Item
  /\ closes \in Nat /\ {over, cut, refused} \subseteq BOOLEAN

SockInit ==
  /\ slot = [type |-> "INVALID", id |-> 0, tcp |-> FALSE, closing |-> FALSE,
             reading |-> FALSE, writing |-> FALSE, tag |-> 0, count |-> 0,
             high |-> << >>, low |-> << >>, dw |-> << >>, locked |-> FALSE]
  /\ pipe = << >> /\ loop = [at |-> "wait"] /\ ev = NoEvent
  /\ api = [v \in Sender |-> Idle]
  /\ told = {} /\ peer = "open"
  /\ sent = [m \in Item |-> 0]
  /\ wire = << >> /\ closes = 0 /\ owed = {}
  /\ over = FALSE /\ cut = FALSE /\ refused = FALSE

SocketInvalid(id) == slot.id # id \/ slot.type = "INVALID"
ListsEmpty        == slot.high = << >> /\ slot.low = << >>
(* Mutant: what a direct write left is not thought of. *)
NomoreQueued      == (ListsEmpty /\ slot.count = 0) \/ slot.type = "HALFCLOSE_WRITE"
NomoreSendingData == \/ ListsEmpty /\ slot.dw = << >> /\ slot.count = 0
                     \/ slot.type = "HALFCLOSE_WRITE"
HalfcloseRead     == slot.type = "HALFCLOSE_READ"
InUse             == slot.type \notin {"INVALID", "RESERVE"}
Broken            == peer \in {"error", "gone"}

-----------------------------------------------------------------------------
(* Calls of the services *)

SendRequest(c) == Len(pipe) < PipeSize /\ pipe' = Append(pipe, c)

(* reserve_id *)
Reserved == [slot EXCEPT !.type = "RESERVE", !.id = @ + 1, !.tcp = FALSE]
Checking(v) == api[v].at \in {"check", "check2", "trylock", "recheck", "recheck2", "write"}
Reservable ==
  /\ slot.type = "INVALID" /\ slot.id < MaxId
  /\ ev = NoEvent /\ \A v \in Sender : ~Checking(v)

NewHistory ==
  /\ wire' = << >> /\ closes' = 0 /\ owed' = {}
  /\ over' = FALSE /\ cut' = FALSE /\ refused' = FALSE
  /\ UNCHANGED sent

(* socket_server_connect *)
SockConnect ==
  /\ Reservable
  /\ slot' = Reserved
  /\ SendRequest(Command("O", slot.id + 1))
  /\ NewHistory
  /\ UNCHANGED <<loop, ev, api, told, peer>>

(* socket_server_start: of what was accepted, or, as resume_socket of      *)
(* socket.lua does, of what was paused.                                    *)
SockStart(id) ==
  /\ slot.id = id
  /\ slot.type = "PACCEPT" \/ (id \in told \cap Paused /\ ~slot.reading)
  /\ told' = told \cup {id}
  /\ SendRequest(Command("R", id))
  /\ UNCHANGED <<slot, loop, ev, api, peer, wire, hist>>

(* socket_server_pause, which pause_socket calls when too much is unread.  *)
SockPause(id) ==
  /\ slot.id = id /\ id \in told \cap Paused /\ slot.reading
  /\ SendRequest(Command("S", id))
  /\ UNCHANGED <<slot, loop, ev, api, told, peer, wire, hist>>

(* socket_server_close; socket_server_shutdown, which socket.lua calls for *)
(* an id that has just had an error.                                       *)
SockClose(id, how) ==
  /\ id \in told /\ (how = "shutdown" => id = slot.id)
  /\ SendRequest(Command(how, id))
  /\ over' = (over \/ id = slot.id)
  /\ owed' = IF how = "shutdown" /\ id = slot.id THEN {} ELSE owed
  /\ UNCHANGED <<slot, loop, ev, api, told, peer, wire, sent, closes, cut, refused>>

Goes(v, label) == api' = [api EXCEPT ![v].at = label]
Calling(v, label) == api[v].at = label

(* The call returns 0. *)
Taken(v) ==
  /\ api' = [api EXCEPT ![v] = Idle]
  /\ owed' = IF over \/ api[v].id # slot.id THEN owed ELSE owed \cup {api[v].item}

(* socket_server_send, socket_server_send_lowpriority *)
SockSend(v, id, m, low) ==
  /\ api[v] = Idle /\ id \in told
  /\ sent[m] = 0 /\ \A k \in Item : k < m => sent[k] # 0
  /\ ~SocketInvalid(id) /\ (~low => ~slot.closing)
  /\ api' = [api EXCEPT ![v] = [at |-> IF low THEN "count" ELSE "check",
                                id |-> id, item |-> m, cmd |-> IF low THEN "P" ELSE "D"]]
  /\ sent' = [sent EXCEPT ![m] = id]
  /\ UNCHANGED <<slot, pipe, loop, ev, told, peer, wire, closes, over, owed, cut, refused>>

(* can_direct_write, in two looks; the lists and the count are the socket  *)
(* thread's, which does not stop.                                          *)
QueuesSeenEmpty(v) == slot.id = api[v].id /\ ListsEmpty /\ slot.dw = << >>
SeenConnected == slot.count = 0 /\ slot.type = "CONNECTED"

CheckQueues(v) ==
  /\ Calling(v, "check")
  /\ Goes(v, IF QueuesSeenEmpty(v) THEN "check2" ELSE "count")
  /\ UNCHANGED <<slot, pipe, loop, ev, told, peer, wire, hist>>

CheckSending(v) ==
  /\ Calling(v, "check2")
  /\ Goes(v, IF SeenConnected THEN "trylock" ELSE "count")
  /\ UNCHANGED <<slot, pipe, loop, ev, told, peer, wire, hist>>

(* Mutant: no double check. *)
TryLockOnce(v) ==
  /\ Calling(v, "trylock")
  /\ slot' = [slot EXCEPT !.locked = TRUE]
  /\ Goes(v, IF slot.locked THEN "count" ELSE "write")
  /\ UNCHANGED <<pipe, loop, ev, told, peer, wire, hist>>

TryLock(v) ==
  /\ Calling(v, "trylock")
  /\ slot' = [slot EXCEPT !.locked = TRUE]
  /\ Goes(v, IF slot.locked THEN "count" ELSE "recheck")
  /\ UNCHANGED <<pipe, loop, ev, told, peer, wire, hist>>

RecheckQueues(v) ==
  /\ Calling(v, "recheck")
  /\ Goes(v, IF QueuesSeenEmpty(v) THEN "recheck2" ELSE "count")
  /\ slot' = [slot EXCEPT !.locked = QueuesSeenEmpty(v)]
  /\ UNCHANGED <<pipe, loop, ev, told, peer, wire, hist>>

RecheckSending(v) ==
  /\ Calling(v, "recheck2")
  /\ Goes(v, IF SeenConnected THEN "write" ELSE "count")
  /\ slot' = [slot EXCEPT !.locked = SeenConnected]
  /\ UNCHANGED <<pipe, loop, ev, told, peer, wire, hist>>

Halves(m, n) == [i \in 1 .. n |-> m]

(* write(fd) takes n halves of the item, none after an error; the rest is  *)
(* left in dw_buffer, and the lock is given back.                          *)
DirectWrite(v, n) ==
  /\ Calling(v, "write")
  /\ Broken => n = 0
  /\ LET m == api[v].item IN
        /\ wire' = wire \o Halves(m, n)
        /\ slot' = [slot EXCEPT !.dw = Halves(m, 2 - n), !.locked = FALSE]
  /\ peer' = IF Broken THEN "gone" ELSE peer
  /\ IF n = 2 THEN Taken(v) ELSE Goes(v, "trigger") /\ UNCHANGED owed
  /\ UNCHANGED <<pipe, loop, ev, told, sent, closes, over, cut, refused>>

(* Mutant: the socket thread is not told. *)
TriggerForgotten(v) ==
  /\ Calling(v, "trigger")
  /\ Taken(v)
  /\ UNCHANGED <<slot, pipe, loop, ev, told, peer, wire, sent, closes, over, cut, refused>>

TriggerWrite(v) ==
  /\ Calling(v, "trigger")
  /\ SendRequest(Command("W", api[v].id))
  /\ Taken(v)
  /\ UNCHANGED <<slot, loop, ev, told, peer, wire, sent, closes, over, cut, refused>>

(* Mutant: whoever has the slot now is counted for. *)
IncAnySendingRef(v) ==
  /\ Calling(v, "count")
  /\ slot' = [slot EXCEPT !.count = IF slot.tcp THEN @ + 1 ELSE @]
  /\ Goes(v, "request")
  /\ UNCHANGED <<pipe, loop, ev, told, peer, wire, hist>>

IncSendingRef(v) ==
  /\ Calling(v, "count")
  /\ slot' = [slot EXCEPT !.count = IF slot.tcp /\ slot.tag = api[v].id THEN @ + 1 ELSE @]
  /\ Goes(v, "request")
  /\ UNCHANGED <<pipe, loop, ev, told, peer, wire, hist>>

RequestSend(v) ==
  /\ Calling(v, "request")
  /\ SendRequest(Request(api[v].cmd, api[v].id, api[v].item))
  /\ Taken(v)
  /\ UNCHANGED <<slot, loop, ev, told, peer, wire, sent, closes, over, cut, refused>>

-----------------------------------------------------------------------------
(* Closing, which frees the lists before it has the lock. *)

ForceClose(close) ==
  /\ slot' = [slot EXCEPT !.high = << >>, !.low = << >>]
  /\ cut' = (cut \/ Len(slot.high) % 2 = 1)
  /\ loop' = [at |-> "force", close |-> close,
               back |-> IF loop.at = "event" THEN "wait" ELSE "ctrl"]

(* With clear_closed_event; an event of an invalid socket is ignored anyway. *)
ForceClosed ==
  /\ loop.at = "force" /\ ~slot.locked
  /\ slot' = [slot EXCEPT !.type = "INVALID", !.dw = << >>]
  /\ closes' = IF loop.close THEN closes + 1 ELSE closes
  /\ loop' = [at |-> loop.back]
  /\ ev' = NoEvent
  /\ peer' = "open"
  /\ UNCHANGED <<pipe, api, told, wire, sent, over, owed, cut, refused>>

(* close_read, and SOCKET_CLOSE *)
CloseRead(s) ==
  /\ slot' = [s EXCEPT !.type = "HALFCLOSE_READ", !.reading = FALSE]
  /\ closes' = closes + 1

-----------------------------------------------------------------------------
(* ctrl_cmd *)

Handle(c, id) ==
  /\ loop.at = "ctrl" /\ pipe # << >>
  /\ Head(pipe).cmd = c /\ Head(pipe).id = id
  /\ pipe' = Tail(pipe)

(* new_fd *)
NewFd(s, type, reading, writing) ==
  /\ slot' = [s EXCEPT !.type = type, !.tcp = TRUE, !.closing = FALSE,
                       !.reading = reading, !.writing = writing,
                       !.tag = s.id, !.count = 0, !.dw = << >>]
  /\ peer' = "open"

(* open_socket fails, connects at once, or goes on connecting. *)
OpenSocket(id) ==
  /\ Handle("O", id)
  /\ \/ /\ slot' = [slot EXCEPT !.type = "INVALID"]
        /\ UNCHANGED <<told, peer>>
     \/ /\ NewFd(slot, "CONNECTED", TRUE, FALSE)
        /\ told' = told \cup {id}
     \/ /\ NewFd(slot, "CONNECTING", TRUE, TRUE)
        /\ UNCHANGED told
  /\ UNCHANGED <<loop, ev, api, wire, hist>>

ResumeSocket(id) ==
  /\ Handle("R", id)
  /\ slot' = IF SocketInvalid(id) \/ HalfcloseRead THEN slot
             ELSE [slot EXCEPT !.reading = TRUE,
                               !.type = IF @ = "PACCEPT" THEN "CONNECTED" ELSE @]
  /\ UNCHANGED <<loop, ev, api, told, peer, wire, hist>>

PauseSocket(id) ==
  /\ Handle("S", id)
  /\ slot' = IF SocketInvalid(id) THEN slot ELSE [slot EXCEPT !.reading = FALSE]
  /\ UNCHANGED <<loop, ev, api, told, peer, wire, hist>>

EnableWrite(id) ==
  /\ Handle("W", id)
  /\ slot' = IF SocketInvalid(id) THEN slot ELSE [slot EXCEPT !.writing = TRUE]
  /\ UNCHANGED <<loop, ev, api, told, peer, wire, hist>>

(* Mutant: the socket waits for a write that may never be. *)
CloseLater(id, how) ==
  /\ Handle(how, id)
  /\ IF SocketInvalid(id) THEN UNCHANGED <<slot, closes>>
                          ELSE CloseRead([slot EXCEPT !.closing = TRUE])
  /\ UNCHANGED <<loop, ev, api, told, peer, wire, sent, over, owed, cut, refused>>

CloseSocket(id, how) ==
  /\ Handle(how, id)
  /\ \/ /\ SocketInvalid(id)
        /\ UNCHANGED <<slot, loop, closes, cut>>
     \/ /\ ~SocketInvalid(id)
        /\ how = "shutdown" \/ NomoreSendingData
        /\ ForceClose(~HalfcloseRead)
        /\ UNCHANGED closes
     \/ /\ ~SocketInvalid(id)
        /\ how = "K" /\ ~NomoreSendingData
        /\ IF HalfcloseRead THEN /\ slot' = [slot EXCEPT !.closing = TRUE]
                                 /\ UNCHANGED closes
           ELSE CloseRead([slot EXCEPT !.closing = TRUE])
        /\ UNCHANGED <<loop, cut>>
  /\ UNCHANGED <<ev, api, told, peer, wire, sent, over, owed, refused>>

(* dec_sending_ref; the assert is SendingCounts. *)
Uncounted(s, id) == IF s.id = id /\ s.tcp THEN [s EXCEPT !.count = @ - 1] ELSE s

SendRefused(id) ==
  SocketInvalid(id) \/ slot.closing \/ slot.type \in {"HALFCLOSE_WRITE", "PACCEPT"}

(* send_socket: the first goes to high whatever its priority. *)
SendSocket(c, id) ==
  /\ c \in {"D", "P"} /\ Handle(c, id)
  /\ LET item == Halves(Head(pipe).item, 2) IN
       \/ /\ SendRefused(id)
          /\ slot' = Uncounted(slot, id)
          /\ refused' = (refused \/ ~SocketInvalid(id))
       \/ /\ ~SendRefused(id) /\ (ListsEmpty \/ c = "D")
          /\ slot' = Uncounted([slot EXCEPT !.high = @ \o item,
                                            !.writing = @ \/ ListsEmpty], id)
          /\ UNCHANGED refused
       \/ /\ ~SendRefused(id) /\ ~ListsEmpty /\ c = "P"
          /\ slot' = Uncounted([slot EXCEPT !.low = @ \o item], id)
          /\ UNCHANGED refused
  /\ UNCHANGED <<loop, ev, api, told, peer, wire, sent, closes, over, owed, cut>>

-----------------------------------------------------------------------------
(* socket_server_poll *)

(* What epoll has to say of the slot; writable: there is room to write. *)
Event(writable) ==
  [read  |-> slot.reading /\ peer # "open",
   write |-> slot.writing /\ (writable \/ Broken),
   error |-> peer = "error",
   eof   |-> Broken \/ (peer = "fin" /\ slot.type = "HALFCLOSE_WRITE")]
Something(e) == e.read \/ e.write \/ e.error \/ e.eof

(* sp_wait, for the slot or for the pipe. *)
SpWait(writable) ==
  /\ loop.at = "wait"
  /\ ev' = IF InUse /\ Something(Event(writable)) THEN Event(writable) ELSE NoEvent
  /\ ev' # NoEvent \/ pipe # << >>
  /\ loop' = [at |-> "ctrl"]
  /\ UNCHANGED <<slot, pipe, api, told, peer, wire, hist>>

(* The pipe is empty: the event, if there is one. *)
NoCommand ==
  /\ loop.at = "ctrl" /\ pipe = << >>
  /\ loop' = [at |-> IF ev = NoEvent THEN "wait" ELSE "event"]
  /\ UNCHANGED <<slot, pipe, ev, api, told, peer, wire, hist>>

(* report_accept: the event of a listening socket.  The service learns the *)
(* id, and starts it.                                                      *)
ReportAccept ==
  /\ loop.at = "wait" /\ Reservable
  /\ NewFd(Reserved, "PACCEPT", FALSE, FALSE)
  /\ NewHistory
  /\ UNCHANGED <<pipe, loop, ev, api, told>>

Consumed == ev' = NoEvent /\ loop' = [at |-> "wait"]

OnSlotEvent(flags) == loop.at = "event" /\ ev # NoEvent /\ InUse /\ flags

ReportConnect ==
  /\ OnSlotEvent(slot.type = "CONNECTING")
  /\ \/ /\ ForceClose(FALSE)
        /\ UNCHANGED <<ev, told>>
     \/ /\ slot' = [slot EXCEPT !.type = "CONNECTED",
                                !.writing = @ /\ ~NomoreSendingData]
        /\ told' = told \cup {slot.id}
        /\ Consumed
        /\ UNCHANGED cut
  /\ UNCHANGED <<pipe, api, peer, wire, sent, closes, over, owed, refused>>

ReadNext == OnSlotEvent(slot.type # "CONNECTING" /\ ev.read)

(* Mutant: recv 0 raises SOCKET_CLOSE whether or not it was raised before. *)
RecvZeroAgain ==
  /\ ReadNext /\ peer # "error"
  /\ IF slot.type = "HALFCLOSE_WRITE"
     THEN ForceClose(TRUE) /\ UNCHANGED <<ev, closes>>
     ELSE CloseRead(slot) /\ Consumed /\ UNCHANGED cut
  /\ UNCHANGED <<pipe, api, told, peer, wire, sent, over, owed, refused>>

(* forward_message_tcp: recv fails, or returns 0. *)
RecvError ==
  /\ ReadNext /\ peer = "error"
  /\ peer' = "gone"
  /\ Consumed
  /\ UNCHANGED <<slot, pipe, api, told, wire, hist>>

RecvZero ==
  /\ ReadNext /\ peer # "error"
  /\ \/ /\ slot.closing /\ NomoreSendingData
        /\ ForceClose(FALSE)
        /\ UNCHANGED <<ev, closes>>
     \/ /\ HalfcloseRead /\ (slot.closing => ~NomoreSendingData)
        /\ IF ev.write THEN ev' = [ev EXCEPT !.read = FALSE] /\ UNCHANGED loop
                       ELSE Consumed
        /\ UNCHANGED <<slot, closes, cut>>
     \/ /\ ~slot.closing /\ slot.type = "HALFCLOSE_WRITE"
        /\ ForceClose(TRUE)
        /\ UNCHANGED <<ev, closes>>
     \/ /\ ~slot.closing /\ slot.type \notin {"HALFCLOSE_READ", "HALFCLOSE_WRITE"}
        /\ CloseRead(slot)
        /\ Consumed
        /\ UNCHANGED cut
  /\ UNCHANGED <<pipe, api, told, peer, wire, sent, over, owed, refused>>

WriteNext == OnSlotEvent(slot.type # "CONNECTING" /\ ~ev.read /\ ev.write)

(* send_buffer is held off by a direct write. *)
SendBlocked ==
  /\ WriteNext /\ slot.locked
  /\ Consumed
  /\ UNCHANGED <<slot, pipe, api, told, peer, wire, hist>>

(* send_buffer_, once dw_buffer is in front of high: n halves go out. When *)
(* an item of low goes out in part, raise_uncomplete moves it to high.     *)
SendBuffer(n) ==
  /\ WriteNext /\ ~slot.locked
  /\ LET high == slot.dw \o slot.high
         all  == high \o slot.low
         rest == SubSeq(all, n + 1, Len(all))
         kept == IF n < Len(high) THEN Len(high) - n ELSE (n - Len(high)) % 2
     IN /\ n <= Len(all) /\ (Broken => n = 0 /\ all = << >>)
        /\ wire' = wire \o SubSeq(all, 1, n)
        /\ \/ /\ rest # << >>
              /\ slot' = [slot EXCEPT !.dw = << >>, !.high = SubSeq(rest, 1, kept),
                                      !.low = SubSeq(rest, kept + 1, Len(rest))]
              /\ Consumed
              /\ UNCHANGED cut
           \/ /\ rest = << >> /\ ~slot.closing
              /\ slot' = [slot EXCEPT !.dw = << >>, !.high = << >>, !.low = << >>,
                                      !.writing = FALSE]
              /\ Consumed
              /\ UNCHANGED cut
           \/ /\ rest = << >> /\ slot.closing
              /\ slot' = [slot EXCEPT !.dw = << >>, !.high = << >>, !.low = << >>]
              /\ loop' = [at |-> "force", back |-> "wait", close |-> FALSE]
              /\ UNCHANGED <<ev, cut>>
  /\ UNCHANGED <<pipe, api, told, sent, peer, closes, over, owed, refused>>

(* write fails: close_write. *)
SendError ==
  /\ WriteNext /\ ~slot.locked /\ Broken
  /\ slot.dw # << >> \/ ~ListsEmpty
  /\ peer' = "gone"
  /\ \/ /\ slot.closing \/ HalfcloseRead
        /\ ForceClose(FALSE)
        /\ UNCHANGED ev
     \/ /\ ~slot.closing /\ ~HalfcloseRead
        /\ slot' = [slot EXCEPT !.dw = << >>, !.high = slot.dw \o @,
                      !.writing = @ /\ slot.type = "HALFCLOSE_WRITE",
                      !.type = "HALFCLOSE_WRITE"]
        /\ Consumed
        /\ UNCHANGED cut
  /\ UNCHANGED <<pipe, api, told, wire, sent, closes, over, owed, refused>>

ReportError ==
  /\ OnSlotEvent(slot.type # "CONNECTING" /\ ~ev.read /\ ~ev.write /\ ev.error)
  /\ peer' = IF Broken THEN "gone" ELSE peer
  /\ Consumed
  /\ UNCHANGED <<slot, pipe, api, told, wire, hist>>

(* Hung up. *)
Eof ==
  /\ OnSlotEvent(slot.type # "CONNECTING" /\ ~ev.read /\ ~ev.write /\ ~ev.error)
  /\ ForceClose(~HalfcloseRead)
  /\ UNCHANGED <<pipe, ev, api, told, peer, wire, sent, closes, over, owed, refused>>

-----------------------------------------------------------------------------
(* The peer closes, or the connection breaks. *)

PeerEnds(how) ==
  /\ InUse /\ slot.type # "CONNECTING" /\ ~Broken /\ peer # how
  /\ peer' = how
  /\ IF how = "error" THEN over' = TRUE /\ owed' = {}
                     ELSE UNCHANGED <<over, owed>>
  /\ UNCHANGED <<slot, pipe, loop, ev, api, told, wire, sent, closes, cut, refused>>

Services ==
  \/ SockConnect
  \/ \E id \in Ids :
       \/ SockStart(id) \/ SockPause(id)
       \/ \E how \in {"K", "shutdown"} : SockClose(id, how)
       \/ \E v \in Sender, m \in Item, low \in BOOLEAN : SockSend(v, id, m, low)
  \/ \E v \in Sender :
       \/ CheckQueues(v) \/ CheckSending(v) \/ TryLock(v)
       \/ RecheckQueues(v) \/ RecheckSending(v)
       \/ \E n \in 0 .. 2 : DirectWrite(v, n)
       \/ TriggerWrite(v) \/ IncSendingRef(v) \/ RequestSend(v)

SockThread ==
  \/ \E writable \in BOOLEAN : SpWait(writable)
  \/ NoCommand \/ ReportAccept \/ ReportConnect
  \/ RecvError \/ RecvZero \/ SendBlocked \/ SendError \/ ReportError \/ Eof \/ ForceClosed
  \/ \E n \in 0 .. 2 * Cardinality(Item) : SendBuffer(n)
  \/ \E id \in Ids :
       \/ OpenSocket(id) \/ ResumeSocket(id) \/ PauseSocket(id) \/ EnableWrite(id)
       \/ \E how \in {"K", "shutdown"} : CloseSocket(id, how)
       \/ \E c \in {"D", "P"} : SendSocket(c, id)

SockNext ==
  \/ Services \/ SockThread
  \/ \E how \in {"fin", "error"} : PeerEnds(how)

SockSpec == SockInit /\ [][SockNext]_sockvars

-----------------------------------------------------------------------------
(* Properties. *)

(* s->sending counts the requests on their way for the present id, and no  *)
(* others, so that the assert of dec_sending_ref never fails and a direct  *)
(* write never overtakes them.                                             *)
SendingCounts ==
  slot.tcp =>
    slot.count = Cardinality({i \in DOMAIN pipe : pipe[i].cmd \in {"D", "P"} /\ pipe[i].id = slot.id})
                   + Cardinality({v \in Sender : Calling(v, "request") /\ api[v].id = slot.id})

(* SOCKET_CLOSE is raised once, by whichever of the service and the peer   *)
(* is first (the comment on close_socket).                                 *)
CloseOnce == closes <= 1

(* Items reach the wire whole, each after the other, whoever writes them,  *)
(* and on their own connection only; but force_close frees the lists       *)
(* before it takes the lock, and a direct write may follow half an item.   *)
WholeInOrder ==
  /\ cut \/ \A i \in 1 .. Len(wire) - 1 : i % 2 = 1 => wire[i] = wire[i + 1]
  /\ \A m \in ToSet(wire) : sent[m] = slot.id

(* While there is something to send, the write event is on, or the request *)
(* to turn it on is on its way (trigger_write, send_buffer step 4).        *)
WriteArmed ==
  InUse /\ slot.type # "HALFCLOSE_WRITE" /\ ~(ListsEmpty /\ slot.dw = << >>) =>
    \/ slot.writing
    \/ Contains(pipe, Command("W", slot.id))
    \/ \E v \in Sender : Calling(v, "trigger") /\ api[v].id = slot.id

(* What a send has taken before anybody asked for a close is written when  *)
(* the socket is closed, unless the connection breaks or is shut down.     *)
CloseFlushes ==
  slot.type = "INVALID" => \A m \in owed : Cardinality({i \in DOMAIN wire : wire[i] = m}) = 2

(* A closing socket has something left to send, and is closed after it; or *)
(* a request was counted when the close came and refused later, and then   *)
(* nothing may be left that closes the socket (close_socket, send_socket). *)
ClosingEnds ==
  InUse /\ slot.closing =>
    \/ loop.at = "force" \/ refused
    \/ slot.dw # << >> \/ ~ListsEmpty \/ slot.count > 0
=============================================================================
