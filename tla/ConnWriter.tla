----------------------------- MODULE ConnWriter -----------------------------
(***************************************************************************)
(* One accepted connection of chapters 06 and 07 with its ConnWriter: the  *)
(* service that owns it (one message at a time, on some worker thread, as  *)
(* SunnetScheduler shows), the socket thread that turns epoll events into  *)
(* messages, the kernel's side of the socket, and the peer.                *)
(*                                                                         *)
(* The kernel is external: edge-triggered epoll puts the socket on its     *)
(* ready list when data, an end of file or, after a failed write, room for *)
(* output arrives; epoll_wait takes it off and reports what holds by then. *)
(* A byte is <<buffer, index>>, counted from 0.                            *)
(***************************************************************************)
EXTENDS Integers, Sequences, FiniteSets, SequencesExt

CONSTANTS Runner,     \* the worker threads; each has its own errno
          Buf,        \* what the script may send; each is sent once at most
          Size,       \* Size[b]: its length in bytes
          SendBuf,    \* capacity of the kernel's send buffer
          MaxReceive, \* bound on the blocks of input the peer sends
          PeerMay,    \* what the peer may do: a subset of {"fin", "reset"}
          Nil

ASSUME SizeAssumption ==
  /\ Size \in [Buf -> Nat \ {0}]
  /\ SendBuf \in Nat \ {0} /\ MaxReceive \in Nat
ASSUME NilAssumption == Nil \notin Runner \cup [r : BOOLEAN, w : BOOLEAN]

VARIABLES
  write_list,  \* WriteObjects not yet written out: [buf, start]
  is_closing,
  conn,        \* the fd is in Sunnet::conns
  writer,      \* the fd is in Service::writers
  open,        \* the fd is open
  epollout,    \* the fd is registered for EPOLLOUT too
  mailbox,     \* SOCKET_RW messages of the service: [r, w]
  msg,         \* the one it handles
  at,          \* where the service is in its handler
  by,          \* the worker it runs on, Nil between two messages
  errno,       \* errno[w] after the last failed call of w: "EAGAIN" or another
  event,       \* what the socket thread got from epoll_wait, or Nil
  ready,       \* the socket is on epoll's ready list
  nospace,     \* a drained send buffer will be reported
  unsent,      \* bytes in the send buffer
  coming,      \* blocks of input the peer has still to send
  received,    \* blocks of input not read yet
  shut,        \* shutdown(SHUT_RD) was called
  peer,        \* "open", "fin" (sends no more), "reset" or "dead" (reset, reported)
  accepted,    \* history: the buffers EntireWrite took on, in order
  sent         \* history: the bytes handed to the kernel

listvars == <<write_list, is_closing>>
cvars == <<conn, writer, open>>
hvars == <<mailbox, msg, at, by>>
kvars == <<epollout, ready, nospace, unsent, coming,
           received, shut, peer>>
ovars == <<accepted, sent>>
writervars == <<listvars, cvars, hvars, errno, event, kvars, ovars>>

Event  == [r : BOOLEAN, w : BOOLEAN]
NoMsg  == [r |-> FALSE, w |-> FALSE]
Object == [buf : Buf, start : Int]
Full(b) == [i \in 1 .. Size[b] |-> <<b, i - 1>>]

(* Right after OnAcceptMsg: the peer is connected, nothing was exchanged.  *)
WriterInit ==
  /\ write_list = << >> /\ is_closing = FALSE
  /\ conn = TRUE /\ writer = TRUE /\ open = TRUE
  /\ epollout = FALSE
  /\ mailbox = << >> /\ msg = NoMsg /\ at = "idle" /\ by = Nil
  /\ errno = [w \in Runner |-> "other"]
  /\ event = Nil /\ ready = FALSE /\ nospace = FALSE
  /\ unsent = 0 /\ coming = MaxReceive /\ received = 0 /\ shut = FALSE /\ peer = "open"
  /\ accepted = << >> /\ sent = << >>

-----------------------------------------------------------------------------
(* The kernel *)

Gone     == peer \in {"reset", "dead"}
Readable == received > 0 \/ peer # "open" \/ shut
Writable == unsent < SendBuf \/ Gone

(* write(fd, bytes) by the service; only the service closes its socket, so *)
(* the fd is open.  Its outcomes: all, part, or -1 with errno.             *)
WriteResult(bytes) ==
  IF Gone THEN "error"
  ELSE IF unsent = SendBuf THEN "EAGAIN"
  ELSE IF Len(bytes) <= SendBuf - unsent THEN "all" ELSE "part"

Written(bytes) ==
  IF WriteResult(bytes) = "all" THEN bytes
  ELSE IF WriteResult(bytes) = "part" THEN SubSeq(bytes, 1, SendBuf - unsent)
  ELSE << >>

SetErrno(e) == errno' = [errno EXCEPT ![by] = e]

Write(bytes) ==
  LET res == WriteResult(bytes) IN
  /\ sent' = sent \o Written(bytes)
  /\ unsent' = unsent + Len(Written(bytes))
  /\ nospace' = (nospace \/ res \in {"EAGAIN", "part"})
  /\ peer' = IF res = "error" THEN "dead" ELSE peer
  /\ SetErrno(IF res = "EAGAIN" THEN "EAGAIN"
              ELSE IF res = "error" THEN "other" ELSE errno[by])

(* epoll_ctl(EPOLL_CTL_MOD) looks at the socket at once. *)
ModifyEvent(out) ==
  /\ epollout' = out
  /\ ready' = (ready \/ Readable \/ (out /\ Writable))
  /\ nospace' = (nospace \/ ~Writable)

(* epoll_wait; SocketWorker::operator() *)
EpollWait ==
  LET mask == [r |-> Readable, w |-> epollout /\ Writable] IN
  /\ ready /\ open /\ event = Nil
  /\ ready' = FALSE
  /\ nospace' = (nospace \/ ~Writable)
  /\ event' = IF mask = NoMsg THEN Nil ELSE mask
  /\ UNCHANGED <<listvars, cvars, hvars, errno, epollout, unsent, coming, received, shut,
                 peer, ovars>>

(* SocketWorker::OnEvent and OnRW *)
OnEvent ==
  /\ event # Nil
  /\ mailbox' = IF conn THEN Append(mailbox, event) ELSE mailbox
  /\ event' = Nil
  /\ UNCHANGED <<listvars, cvars, msg, at, by, errno, kvars, ovars>>

PeerReads ==
  /\ unsent > 0
  /\ \E k \in {1, unsent} : unsent' = unsent - k
  /\ nospace' = FALSE
  /\ ready' = (ready \/ (nospace /\ epollout))
  /\ UNCHANGED <<listvars, cvars, hvars, errno, event, epollout, coming, received, shut,
                 peer, ovars>>

PeerSends ==
  /\ peer = "open" /\ open /\ coming > 0
  /\ coming' = coming - 1
  /\ received' = received + 1
  /\ ready' = TRUE
  /\ UNCHANGED <<listvars, cvars, hvars, errno, event, epollout, nospace, unsent,
                 shut, peer, ovars>>

PeerEnds ==
  /\ open /\ ready' = TRUE
  /\ \/ "fin" \in PeerMay /\ peer = "open" /\ peer' = "fin" /\ UNCHANGED unsent
     \/ "reset" \in PeerMay /\ ~Gone /\ peer' = "reset" /\ unsent' = 0
  /\ UNCHANGED <<listvars, cvars, hvars, errno, event, epollout, nospace, coming, received,
                 shut, ovars>>

-----------------------------------------------------------------------------
(* ConnWriter::EntireWrite and LingerClose, called by the script *)

GoOn(label) == at' = label

(* EntireWrite returns at once when closing. *)
MayWrite(b) ==
  /\ at = "script" /\ writer /\ ~is_closing
  /\ ~Contains(accepted, b)

(* Mutant: only a partial write arms the socket. *)
ArmsOnPart(b) ==
  /\ MayWrite(b) /\ write_list = << >>
  /\ Write(Full(b))
  /\ LET res == WriteResult(Full(b))
         ret == IF res = "EAGAIN" THEN -1 ELSE Len(Written(Full(b)))
     IN  /\ accepted' = IF res = "error" THEN accepted ELSE Append(accepted, b)
         /\ IF res \in {"part", "EAGAIN"}
            THEN write_list' = <<[buf |-> b, start |-> ret]>> 
                 /\ GoOn(IF res = "part" THEN "arm" ELSE at)
            ELSE UNCHANGED <<write_list, at>>
  /\ UNCHANGED <<is_closing, cvars, mailbox, msg, by, event, epollout, ready,
                 coming, received, shut>>

(* EntireWriteWhenEmpty: what write left over becomes the first object,    *)
(* whose start is the return value of write, -1 included.  After an error  *)
(* the buffer is dropped.                                                  *)
EntireWriteWhenEmpty(b) ==
  /\ MayWrite(b) /\ write_list = << >>
  /\ Write(Full(b))
  /\ LET res == WriteResult(Full(b))
         ret == IF res = "EAGAIN" THEN -1 ELSE Len(Written(Full(b)))
     IN  /\ accepted' = IF res = "error" THEN accepted ELSE Append(accepted, b)
         /\ IF res \in {"part", "EAGAIN"}
            THEN write_list' = <<[buf |-> b, start |-> ret]>> /\ GoOn("arm")
            ELSE UNCHANGED <<write_list, at>>
  /\ UNCHANGED <<is_closing, cvars, mailbox, msg, by, event, epollout, ready,
                 coming, received, shut>>

(* The socket is armed after the object is in the list. *)
Arm ==
  /\ at = "arm"
  /\ ModifyEvent(TRUE)
  /\ GoOn("script")
  /\ UNCHANGED <<listvars, cvars, mailbox, msg, by, errno, event, unsent, coming, received,
                 shut, peer, ovars>>

(* Mutant: the object goes in front of those that wait. *)
PushesFront(b) ==
  /\ MayWrite(b) /\ write_list # << >>
  /\ write_list' = <<[buf |-> b, start |-> 0]>> \o write_list
  /\ accepted' = Append(accepted, b)
  /\ UNCHANGED <<is_closing, cvars, hvars, errno, event, kvars, sent>>

EntireWriteWhenNotEmpty(b) ==
  /\ MayWrite(b) /\ write_list # << >>
  /\ write_list' = Append(write_list, [buf |-> b, start |-> 0])
  /\ accepted' = Append(accepted, b)
  /\ UNCHANGED <<is_closing, cvars, hvars, errno, event, kvars, sent>>

(* Sunnet::CloseConn, where nothing but the service looks at the socket. *)
CloseConn ==
  /\ conn' = FALSE /\ open' = FALSE
  /\ epollout' = FALSE /\ ready' = FALSE

(* Mutant: the socket is closed whatever waits. *)
CloseAtOnce ==
  /\ at = "script" /\ writer /\ ~is_closing
  /\ is_closing' = TRUE
  /\ CloseConn
  /\ UNCHANGED <<write_list, writer, hvars, errno, event, nospace, unsent, coming,
                 received, shut, peer, ovars>>

LingerClose ==
  /\ at = "script" /\ writer /\ ~is_closing
  /\ is_closing' = TRUE
  /\ IF write_list = << >>
     THEN CloseConn
     ELSE UNCHANGED <<conn, open, epollout, ready>>
  /\ UNCHANGED <<write_list, writer, hvars, errno, event, nospace, unsent, coming,
                 received, shut, peer, ovars>>

-----------------------------------------------------------------------------
(* Service::OnMsg: another service's message runs the script, an event of  *)
(* the socket runs OnRWMsg.  Any worker may be the one that has the turn.  *)

OnServiceMsg(w) ==
  /\ at = "idle" /\ GoOn("script") /\ by' = w
  /\ UNCHANGED <<listvars, cvars, mailbox, msg, errno, event, kvars, ovars>>

OnRWMsg(w) ==
  /\ at = "idle" /\ mailbox # << >>
  /\ msg' = Head(mailbox)
  /\ mailbox' = Tail(mailbox)
  /\ GoOn("rw") /\ by' = w
  /\ UNCHANGED <<listvars, cvars, errno, event, kvars, ovars>>

ScriptReturns ==
  /\ at = "script" /\ GoOn("rw")
  /\ UNCHANGED <<listvars, cvars, mailbox, msg, by, errno, event, kvars, ovars>>

(* read gives data to OnSocketData, and is called again after a full block *)
ReadData ==
  /\ at = "rw" /\ msg.r /\ open /\ received > 0
  /\ \E left \in 0 .. received - 1, full \in BOOLEAN :
       /\ left > 0 => full
       /\ received' = left
       /\ msg' = [msg EXCEPT !.r = full]
  /\ GoOn("script")
  /\ UNCHANGED <<listvars, cvars, mailbox, by, errno, event, epollout, ready, nospace,
                 unsent, coming, shut, peer, ovars>>

(* ... or it fails, or returns 0 and leaves errno as an earlier call set   *)
(* it.  What looks like EAGAIN is not taken for the end.                   *)
ReadFails ==
  /\ at = "rw" /\ msg.r
  /\ ~open \/ received = 0
  /\ LET e == IF ~open \/ peer = "reset" THEN "other"
              ELSE IF peer = "open" /\ ~shut THEN "EAGAIN"
              ELSE errno[by]
     IN  /\ SetErrno(e)
         /\ GoOn(IF e = "EAGAIN" THEN "rw" ELSE "close")
  /\ peer' = IF open /\ peer = "reset" THEN "dead" ELSE peer
  /\ msg' = [msg EXCEPT !.r = FALSE]
  /\ UNCHANGED <<listvars, cvars, mailbox, by, event, epollout, ready, nospace,
                 unsent, coming, received, shut, ovars>>

(* OnSocketClose and CloseConn, once per connection. *)
Close ==
  /\ at = "close" /\ GoOn("rw")
  /\ IF conn
     THEN writer' = FALSE /\ CloseConn
     ELSE UNCHANGED <<cvars, epollout, ready>>
  /\ UNCHANGED <<listvars, mailbox, msg, by, errno, event, nospace, unsent, coming,
                 received, shut, peer, ovars>>

OnSocketWritable ==
  /\ at = "rw" /\ ~msg.r /\ msg.w
  /\ msg' = NoMsg
  /\ GoOn(IF conn THEN "front" ELSE "rw")
  /\ UNCHANGED <<listvars, cvars, mailbox, by, errno, event, kvars, ovars>>

(* What is left of an object, from start on; below 0 lies foreign memory.  *)
Rest(o) == [i \in 1 .. Size[o.buf] - o.start |-> <<o.buf, o.start + i - 1>>]

(* Mutant: an object that is written out stays in the list. *)
NeverPops ==
  /\ at = "front" /\ write_list # << >>
  /\ LET bytes == Rest(Head(write_list))
         res   == WriteResult(bytes)
         ret   == IF res = "EAGAIN" THEN -1 ELSE Len(Written(bytes))
     IN  /\ Write(bytes)
         /\ write_list' = [write_list EXCEPT ![1].start = @ + ret]
         /\ GoOn(IF res = "all" THEN "front" ELSE "rw")
  /\ UNCHANGED <<is_closing, cvars, mailbox, msg, by, event, epollout, ready, coming,
                 received, shut, accepted>>

(* Mutant: EPOLLOUT is given up although the object stays. *)
AlwaysDisarms ==
  /\ at = "front" /\ write_list # << >>
  /\ LET bytes == Rest(Head(write_list))
         res   == WriteResult(bytes)
         ret   == IF res = "EAGAIN" THEN -1 ELSE Len(Written(bytes))
     IN  /\ Write(bytes)
         /\ write_list' = IF res = "all" THEN Tail(write_list)
                          ELSE [write_list EXCEPT ![1].start = @ + ret]
         /\ GoOn(IF res = "all" THEN "front" ELSE "rw")
  /\ epollout' = (epollout /\ at' = "front")
  /\ UNCHANGED <<is_closing, cvars, mailbox, msg, by, event, ready, coming,
                 received, shut, accepted>>

(* One turn of the loop of OnWriteable, left when the object stays. *)
WriteFrontObj ==
  /\ at = "front" /\ write_list # << >>
  /\ LET bytes == Rest(Head(write_list))
         res   == WriteResult(bytes)
         ret   == IF res = "EAGAIN" THEN -1 ELSE Len(Written(bytes))
     IN  /\ Write(bytes)
         /\ write_list' = IF res = "all" THEN Tail(write_list)
                          ELSE [write_list EXCEPT ![1].start = @ + ret]
         /\ GoOn(IF res = "all" THEN "front" ELSE "rw")
  /\ UNCHANGED <<is_closing, cvars, mailbox, msg, by, event, epollout, ready, coming,
                 received, shut, accepted>>

Disarm ==
  /\ at = "front" /\ write_list = << >>
  /\ ModifyEvent(FALSE)
  /\ GoOn(IF is_closing THEN "shutdown" ELSE "rw")
  /\ UNCHANGED <<listvars, cvars, mailbox, msg, by, errno, event, unsent, coming,
                 received, shut, peer, ovars>>

(* shutdown(fd, SHUT_RD) wakes epoll; it fails when the peer is gone. *)
Shutdown ==
  /\ at = "shutdown" /\ GoOn("sendread")
  /\ IF Gone
     THEN SetErrno("other") /\ UNCHANGED <<shut, ready>>
     ELSE shut' = TRUE /\ ready' = TRUE /\ UNCHANGED errno
  /\ UNCHANGED <<listvars, cvars, mailbox, msg, by, event, epollout, nospace, unsent,
                 coming, received, peer, ovars>>

SendRead ==
  /\ at = "sendread" /\ GoOn("rw")
  /\ mailbox' = Append(mailbox, [r |-> TRUE, w |-> FALSE])
  /\ UNCHANGED <<listvars, cvars, msg, by, errno, event, kvars, ovars>>

Finish ==
  /\ at = "rw" /\ msg = NoMsg
  /\ GoOn("idle") /\ by' = Nil
  /\ UNCHANGED <<listvars, cvars, mailbox, msg, errno, event, kvars, ovars>>

-----------------------------------------------------------------------------
Kernel == PeerReads \/ PeerSends \/ PeerEnds
SocketThread == EpollWait \/ OnEvent
Script ==
  \/ \E b \in Buf : EntireWriteWhenEmpty(b) \/ EntireWriteWhenNotEmpty(b)
  \/ LingerClose
Handler ==
  \/ Arm \/ ScriptReturns \/ ReadData \/ ReadFails \/ Close
  \/ OnSocketWritable \/ WriteFrontObj \/ Disarm \/ Shutdown \/ SendRead \/ Finish
Take == \E w \in Runner : OnRWMsg(w)

WriterNext ==
  \/ Kernel \/ SocketThread \/ Script \/ Handler \/ Take
  \/ \E w \in Runner : OnServiceMsg(w)

WriterSpec == WriterInit /\ [][WriterNext]_writervars

(* Threads run, callbacks return, the peer keeps reading.  The mailbox is  *)
(* first in, first out: messages of other services do not overtake an      *)
(* event for ever.                                                         *)
WriterFairness ==
  /\ WF_writervars(Handler) /\ SF_writervars(Take)
  /\ WF_writervars(EpollWait) /\ WF_writervars(OnEvent) /\ WF_writervars(PeerReads)

WriterFairSpec == WriterSpec /\ WriterFairness

-----------------------------------------------------------------------------
WriterTypeOK ==
  /\ write_list \in Seq(Object)
  /\ \A o \in ToSet(write_list) : o.start < Size[o.buf]
  /\ {is_closing, conn, writer, open, epollout, ready, nospace, shut} \subseteq BOOLEAN
  /\ mailbox \in Seq(Event) /\ msg \in Event /\ event \in Event \cup {Nil}
  /\ at \in {"idle", "script", "rw", "arm", "close", "front", "shutdown", "sendread"}
  /\ by \in Runner \cup {Nil} /\ (by = Nil <=> at = "idle")
  /\ errno \in [Runner -> {"EAGAIN", "other"}]
  /\ unsent \in 0 .. SendBuf /\ coming \in Nat /\ received \in Nat
  /\ peer \in {"open", "fin", "reset", "dead"}
  /\ accepted \in Seq(Buf) /\ sent \in Seq(Buf \X Int)

Bytes(b) == {<<b, i>> : i \in 0 .. Size[b] - 1}

(* The kernel gets the bytes of every accepted buffer, those of one before *)
(* those of the next, and none is skipped: what an object's start says has *)
(* been written, and all of a buffer that has left the list, was written.  *)
InOrderNoLoss ==
  /\ \A i, j \in DOMAIN accepted, k, l \in DOMAIN sent :
       i < j /\ sent[k][1] = accepted[j] /\ sent[l][1] = accepted[i] => l < k
  /\ \A b \in ToSet(accepted) : \A i \in 0 .. Size[b] - 1 :
       \/ <<b, i>> \in ToSet(sent)
       \/ \E o \in ToSet(write_list) : o.buf = b /\ o.start <= i

(* LingerClose closes only when all is sent (ConnWriter.cpp:19, 25): while *)
(* the peer is there, a closed socket owes it nothing.                     *)
LingerSendsAll ==
  ~open /\ peer = "open" =>
    \A b \in ToSet(accepted) : Bytes(b) \subseteq ToSet(sent)

(* EPOLLOUT is edge-triggered: when everything is at rest and data waits   *)
(* in the list, the socket is armed and the kernel has an edge to report.  *)
NoStuckWriter ==
  write_list # << >> /\ conn /\ ~Gone
  /\ at = "idle" /\ mailbox = << >> /\ event = Nil /\ ~ready
    => epollout /\ nospace /\ unsent > 0

(* What waits in the list is written out as long as the peer reads on. *)
Drains ==
  write_list # << >> ~> (write_list = << >> \/ ~conn \/ Gone)

(* start is the number of bytes already written (ConnWriter.h:13). *)
StartIsWritten ==
  \A o \in ToSet(write_list) :
    o.start = Cardinality({k \in DOMAIN sent : sent[k][1] = o.buf})

(* After LingerClose and the last write, the read message that OnWriteable *)
(* sends to its own service closes the socket (ConnWriter.cpp:49-50).      *)
LingerCloses == is_closing /\ write_list = << >> ~> ~conn
=============================================================================
