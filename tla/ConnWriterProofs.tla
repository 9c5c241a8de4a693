-------------------------- MODULE ConnWriterProofs --------------------------
(***************************************************************************)
(* Proofs about ConnWriter, for any set of buffers of any length, any send *)
(* buffer and any peer: bytes leave in order and none is lost, a lingering *)
(* close sends them all, and no writer waits for an event that will not    *)
(* come.                                                                   *)
(***************************************************************************)
EXTENDS ConnWriter, SequenceTheorems, TLAPS

-----------------------------------------------------------------------------
(* The inductive invariants *)

(* The number of accepted buffers that have left the list. *)
Done == Len(accepted) - Len(write_list)

(* The list holds the last of the accepted buffers, none twice. *)
ListInv ==
  /\ Len(write_list) <= Len(accepted)
  /\ \A n \in 1 .. Len(write_list) : write_list[n].buf = accepted[Done + n]
  /\ \A i, j \in 1 .. Len(accepted) : accepted[i] = accepted[j] => i = j

(* Only the bytes of buffers up to the first of the list were sent, ...    *)
SentInv ==
  \A k \in 1 .. Len(sent) :
    \E i \in 1 .. Len(accepted) : i <= Done + 1 /\ sent[k][1] = accepted[i]

(* ... in the order of the buffers, ...                                    *)
OrderInv ==
  \A k, l \in 1 .. Len(sent), i, j \in 1 .. Len(accepted) :
    k < l /\ sent[k][1] = accepted[i] /\ sent[l][1] = accepted[j] => i <= j

(* ... and those not sent lie behind the start of an object of the list.   *)
WasSent(j, i) == \E k \in 1 .. Len(sent) : sent[k] = <<accepted[j], i>>
Waiting(j, i) == j > Done /\ write_list[j - Done].start <= i
LossInv ==
  \A j \in 1 .. Len(accepted) : \A i \in 0 .. Size[accepted[j]] - 1 :
    WasSent(j, i) \/ Waiting(j, i)

BytesInv == ListInv /\ SentInv /\ OrderInv /\ LossInv

(* While the peer is there, the service stops reading, and closes, only    *)
(* after LingerClose and with an empty list.                               *)
LingerDone == is_closing /\ write_list = << >>
LingerInv ==
  /\ conn = open
  /\ at = "shutdown" => LingerDone
  /\ shut => LingerDone
  /\ at = "close" /\ open /\ peer = "open" => shut
  /\ ~open /\ peer = "open" => LingerDone

(* An object in the list is armed, and its event is somewhere on its way:  *)
(* on epoll's ready list, with the socket thread, in the mailbox, with the *)
(* service, or due when the peer has read.                                 *)
Waits == write_list # << >> /\ conn /\ ~Gone
OnItsWay ==
  \/ ready \/ (event # Nil /\ event.w) \/ msg.w
  \/ \E i \in 1 .. Len(mailbox) : mailbox[i].w
  \/ nospace /\ unsent > 0
StuckInv ==
  /\ at = "idle" => msg = NoMsg
  /\ Waits /\ at # "arm" => epollout /\ (at = "front" \/ OnItsWay)

-----------------------------------------------------------------------------
(* Lemmas about write *)

LEMMA FullType ==
  ASSUME NEW b \in Buf
  PROVE  /\ Full(b) \in Seq(Buf \X Int) /\ Len(Full(b)) = Size[b]
         /\ \A i \in 1 .. Size[b] : Full(b)[i] = <<b, i - 1>>
<1>1. Size[b] \in Nat
  BY SizeAssumption
<1> QED
  BY <1>1 DEF Full

LEMMA RestType ==
  ASSUME NEW b \in Buf, NEW st \in Int, st < Size[b]
  PROVE  LET o == [buf |-> b, start |-> st] IN
         /\ Rest(o) \in Seq(Buf \X Int) /\ Len(Rest(o)) = Size[b] - st
         /\ \A i \in 1 .. Size[b] - st : Rest(o)[i] = <<b, st + i - 1>>
<1>1. Size[b] - st \in Nat /\ Size[b] - st > 0
  BY SizeAssumption
<1> QED
  BY <1>1 DEF Rest

(* What write takes is a prefix of the bytes, that fits the send buffer;   *)
(* when it is not all, the buffer is full or the peer is gone.             *)
LEMMA WriteTakes ==
  ASSUME WriterTypeOK, NEW bytes \in Seq(Buf \X Int), bytes # << >>
  PROVE  LET res == WriteResult(bytes)
             w   == Written(bytes)
         IN  /\ w \in Seq(Buf \X Int) /\ Len(w) \in 0 .. Len(bytes)
             /\ \A i \in 1 .. Len(w) : w[i] = bytes[i]
             /\ unsent + Len(w) \in 0 .. SendBuf
             /\ \/ res = "all" /\ Len(w) = Len(bytes)
                \/ /\ res = "part" /\ Len(w) < Len(bytes) /\ Len(w) > 0
                   /\ unsent + Len(w) = SendBuf
                \/ res = "EAGAIN" /\ Len(w) = 0 /\ unsent = SendBuf
                \/ res = "error" /\ Len(w) = 0 /\ Gone
             /\ Gone => res = "error"
<1> DEFINE res == WriteResult(bytes)
           w   == Written(bytes)
<1>0. Len(bytes) \in Nat /\ Len(bytes) > 0 /\ unsent \in 0 .. SendBuf /\ SendBuf \in Nat
  BY SizeAssumption DEF WriterTypeOK
<1>1. CASE Gone
  BY <1>0, <1>1 DEF WriteResult, Written
<1>2. CASE ~Gone /\ unsent = SendBuf
  BY <1>0, <1>2 DEF WriteResult, Written
<1>3. CASE ~Gone /\ unsent # SendBuf /\ Len(bytes) <= SendBuf - unsent
  BY <1>0, <1>3 DEF WriteResult, Written
<1>4. CASE ~Gone /\ unsent # SendBuf /\ ~(Len(bytes) <= SendBuf - unsent)
  <2>1. res = "part" /\ w = SubSeq(bytes, 1, SendBuf - unsent)
    BY <1>4 DEF WriteResult, Written
  <2>2. /\ w \in Seq(Buf \X Int) /\ Len(w) = SendBuf - unsent
        /\ \A i \in 1 .. Len(w) : w[i] = bytes[i]
    BY <1>0, <1>4, <2>1
  <2> QED
    BY <1>0, <1>4, <2>1, <2>2
<1> QED
  BY <1>1, <1>2, <1>3, <1>4

(* What write does to the variables. *)
LEMMA WriteDoes ==
  ASSUME WriterTypeOK, by # Nil, NEW bytes \in Seq(Buf \X Int), bytes # << >>, Write(bytes)
  PROVE  LET res == WriteResult(bytes)
             n   == Len(Written(bytes))
         IN  /\ sent' \in Seq(Buf \X Int) /\ Len(sent') = Len(sent) + n
             /\ \A k \in 1 .. Len(sent) : sent'[k] = sent[k]
             /\ \A i \in 1 .. n : sent'[Len(sent) + i] = bytes[i]
             /\ unsent' \in 0 .. SendBuf /\ unsent' >= unsent
             /\ nospace' \in BOOLEAN /\ (nospace => nospace')
             /\ res \in {"part", "EAGAIN"} => nospace' /\ unsent' = SendBuf
             /\ peer' = IF res = "error" THEN "dead" ELSE peer
             /\ errno' \in [Runner -> {"EAGAIN", "other"}]
<1> DEFINE w == Written(bytes)
           res == WriteResult(bytes)
<1>0. unsent \in 0 .. SendBuf /\ SendBuf \in Nat
  BY SizeAssumption DEF WriterTypeOK
<1>1. /\ w \in Seq(Buf \X Int) /\ Len(w) \in 0 .. Len(bytes)
      /\ \A i \in 1 .. Len(w) : w[i] = bytes[i]
      /\ unsent + Len(w) \in 0 .. SendBuf
      /\ res \in {"part", "EAGAIN"} => unsent + Len(w) = SendBuf
  <2>1. /\ w \in Seq(Buf \X Int) /\ Len(w) \in 0 .. Len(bytes)
        /\ \A i \in 1 .. Len(w) : w[i] = bytes[i]
        /\ unsent + Len(w) \in 0 .. SendBuf
        /\ \/ res = "all"
           \/ res = "part" /\ unsent + Len(w) = SendBuf
           \/ res = "EAGAIN" /\ Len(w) = 0 /\ unsent = SendBuf
           \/ res = "error"
    BY WriteTakes
  <2> HIDE DEF w, res
  <2> QED
    BY <1>0, <2>1
<1>2. /\ sent' = sent \o w /\ unsent' = unsent + Len(w)
      /\ nospace' = (nospace \/ res \in {"EAGAIN", "part"})
      /\ peer' = IF res = "error" THEN "dead" ELSE peer
      /\ errno' = [errno EXCEPT ![by] = IF res = "EAGAIN" THEN "EAGAIN"
                                        ELSE IF res = "error" THEN "other" ELSE errno[by]]
  BY DEF Write, SetErrno
<1>3. sent \in Seq(Buf \X Int) /\ unsent \in 0 .. SendBuf /\ nospace \in BOOLEAN
  BY DEF WriterTypeOK
<1>4. errno' \in [Runner -> {"EAGAIN", "other"}]
  BY <1>2 DEF WriterTypeOK
<1> HIDE DEF w, res
<1>5. /\ sent' \in Seq(Buf \X Int) /\ Len(sent') = Len(sent) + Len(w)
      /\ \A k \in 1 .. Len(sent) : sent'[k] = sent[k]
      /\ \A i \in 1 .. Len(w) : sent'[Len(sent) + i] = w[i]
  BY <1>1, <1>2, <1>3
<1>6. SendBuf \in Nat /\ Len(bytes) \in Nat
  BY SizeAssumption
<1>7. /\ unsent' \in 0 .. SendBuf /\ unsent' >= unsent
      /\ res \in {"part", "EAGAIN"} => unsent' = SendBuf
  BY <1>0, <1>1, <1>2, <1>3, <1>6
<1>8. /\ nospace' \in BOOLEAN /\ (nospace => nospace')
      /\ res \in {"part", "EAGAIN"} => nospace'
  BY <1>2, <1>3, Zenon
<1> QED
  BY <1>1, <1>2, <1>4, <1>5, <1>7, <1>8 DEF w, res

-----------------------------------------------------------------------------
(* What the script's and the service's writes do to the list and to the    *)
(* bytes sent, index by index.                                             *)

Longer(n) == Len(sent') = Len(sent) + n /\ \A k \in 1 .. Len(sent) : sent'[k] = sent[k]

LEMMA WhenEmptyDoes ==
  ASSUME WriterTypeOK, NEW b \in Buf, EntireWriteWhenEmpty(b)
  PROVE  /\ \A i \in 1 .. Len(accepted) : accepted[i] # b
         /\ write_list = << >> /\ sent' \in Seq(Buf \X Int)
         /\ \E n \in 0 .. Size[b] :
              /\ Longer(n)
              /\ \A k \in 1 .. n : sent'[Len(sent) + k] = <<b, k - 1>>
              /\ \/ /\ n = 0 /\ accepted' = accepted /\ write_list' = << >> /\ at' = at
                    /\ Gone /\ peer' = "dead"
                 \/ /\ n = Size[b] /\ accepted' = Append(accepted, b)
                    /\ write_list' = << >> /\ at' = at /\ peer' = peer
                 \/ /\ accepted' = Append(accepted, b) /\ at' = "arm" /\ peer' = peer
                    /\ \E st \in Int : /\ st <= n /\ st < Size[b]
                                     /\ write_list' = <<[buf |-> b, start |-> st]>>
<1> DEFINE bytes == Full(b)
           res   == WriteResult(bytes)
           n     == Len(Written(bytes))
<1>1. /\ bytes \in Seq(Buf \X Int) /\ Len(bytes) = Size[b] /\ Size[b] \in Nat \ {0}
      /\ \A i \in 1 .. Size[b] : bytes[i] = <<b, i - 1>>
  BY FullType, SizeAssumption
<1>2. bytes # << >>
  BY <1>1
<1>3. by # Nil /\ Write(bytes) /\ write_list = << >> /\ at = "script"
  BY DEF EntireWriteWhenEmpty, MayWrite, WriterTypeOK
<1>4. \A i \in 1 .. Len(accepted) : accepted[i] # b
  BY DEF EntireWriteWhenEmpty, MayWrite, Contains
<1>5. /\ sent' \in Seq(Buf \X Int) /\ Longer(n)
      /\ \A k \in 1 .. n : sent'[Len(sent) + k] = bytes[k]
      /\ peer' = IF res = "error" THEN "dead" ELSE peer
  BY <1>1, <1>2, <1>3, WriteDoes DEF Longer
<1>6. /\ n \in 0 .. Size[b]
      /\ \/ res = "all" /\ n = Size[b]
         \/ res = "part" /\ n < Size[b]
         \/ res = "EAGAIN" /\ n = 0
         \/ res = "error" /\ n = 0 /\ Gone
  BY <1>1, <1>2, WriteTakes
<1>7. /\ accepted' = IF res = "error" THEN accepted ELSE Append(accepted, b)
      /\ IF res \in {"part", "EAGAIN"}
         THEN /\ write_list' = <<[buf |-> b, start |-> IF res = "EAGAIN" THEN -1 ELSE n]>>
              /\ at' = "arm"
         ELSE UNCHANGED <<write_list, at>>
  BY DEF EntireWriteWhenEmpty, GoOn
<1> HIDE DEF bytes, res, n
<1>8. \A k \in 1 .. n : sent'[Len(sent) + k] = <<b, k - 1>>
  <2> SUFFICES ASSUME NEW k \in 1 .. n PROVE sent'[Len(sent) + k] = <<b, k - 1>>
    OBVIOUS
  <2>1. k \in 1 .. Size[b]
    BY <1>1, <1>6
  <2> QED
    BY <1>1, <1>5, <2>1
<1>9. CASE res = "all"
  BY <1>3, <1>4, <1>5, <1>6, <1>7, <1>8, <1>9
<1>10. CASE res = "error"
  BY <1>3, <1>4, <1>5, <1>6, <1>7, <1>8, <1>10
<1>11. CASE res \in {"part", "EAGAIN"}
  <2> DEFINE st == IF res = "EAGAIN" THEN -1 ELSE n
  <2>1. st \in Int /\ st <= n /\ st < Size[b] /\ n \in 0 .. Size[b]
    BY <1>1, <1>6, <1>11
  <2>2. /\ accepted' = Append(accepted, b) /\ at' = "arm" /\ peer' = peer
        /\ write_list' = <<[buf |-> b, start |-> st]>>
    BY <1>5, <1>7, <1>11
  <2> HIDE DEF st
  <2> QED
    BY <1>3, <1>4, <1>5, <1>8, <2>1, <2>2
<1> QED
  BY <1>6, <1>9, <1>10, <1>11

LEMMA FrontDoes ==
  ASSUME WriterTypeOK, WriteFrontObj
  PROVE  /\ sent' \in Seq(Buf \X Int) /\ accepted' = accepted /\ Len(write_list) > 0
         /\ \E n \in Nat :
              /\ Longer(n)
              /\ \A k \in 1 .. n :
                   sent'[Len(sent) + k] = <<write_list[1].buf, write_list[1].start + k - 1>>
              /\ \/ /\ n = Size[write_list[1].buf] - write_list[1].start
                    /\ write_list' = Tail(write_list) /\ at' = "front" /\ peer' = peer
                 \/ /\ at' = "rw"
                    /\ \E st \in Int :
                         /\ st <= write_list[1].start + n /\ st < Size[write_list[1].buf]
                         /\ write_list' = [write_list EXCEPT ![1] =
                                             [buf |-> write_list[1].buf, start |-> st]]
                    /\ \/ nospace' /\ unsent' = SendBuf /\ peer' = peer
                       \/ Gone /\ peer' = "dead"
<1> DEFINE o     == write_list[1]
           bytes == Rest(o)
           res   == WriteResult(bytes)
           n     == Len(Written(bytes))
           ret   == IF res = "EAGAIN" THEN -1 ELSE n
<1>1. write_list \in Seq(Object) /\ write_list # << >> /\ at = "front" /\ by # Nil
  BY DEF WriteFrontObj, WriterTypeOK
<1>2. Len(write_list) > 0 /\ o \in Object /\ o = Head(write_list) /\ 1 \in 1 .. Len(write_list)
  BY <1>1
<1>3. o \in ToSet(write_list)
  BY <1>1, <1>2 DEF ToSet
<1>4. /\ o.buf \in Buf /\ o.start \in Int /\ o.start < Size[o.buf]
      /\ o = [buf |-> o.buf, start |-> o.start] /\ Size[o.buf] \in Nat
  BY <1>2, <1>3, SizeAssumption DEF Object, WriterTypeOK
<1>5. /\ bytes \in Seq(Buf \X Int) /\ Len(bytes) = Size[o.buf] - o.start
      /\ \A i \in 1 .. Size[o.buf] - o.start : bytes[i] = <<o.buf, o.start + i - 1>>
  <2> HIDE DEF o
  <2> QED
    BY <1>4, RestType
<1>6. bytes # << >>
  BY <1>4, <1>5
<1>7. /\ Write(bytes) /\ accepted' = accepted
      /\ write_list' = IF res = "all" THEN Tail(write_list)
                       ELSE [write_list EXCEPT ![1].start = @ + ret]
      /\ at' = IF res = "all" THEN "front" ELSE "rw"
  BY <1>2 DEF WriteFrontObj, GoOn
<1>8. /\ sent' \in Seq(Buf \X Int) /\ Longer(n)
      /\ \A k \in 1 .. n : sent'[Len(sent) + k] = bytes[k]
      /\ peer' = IF res = "error" THEN "dead" ELSE peer
      /\ res \in {"part", "EAGAIN"} => nospace' /\ unsent' = SendBuf
  BY <1>1, <1>5, <1>6, <1>7, WriteDoes DEF Longer
<1>9. /\ n \in 0 .. Size[o.buf] - o.start
      /\ \/ res = "all" /\ n = Size[o.buf] - o.start
         \/ res = "part" /\ n < Size[o.buf] - o.start
         \/ res = "EAGAIN" /\ n = 0
         \/ res = "error" /\ n = 0 /\ Gone
  BY <1>5, <1>6, WriteTakes
<1>10. write_list' = IF res = "all" THEN Tail(write_list)
                     ELSE [write_list EXCEPT ![1] = [buf |-> o.buf, start |-> o.start + ret]]
  <2>1. [write_list[1] EXCEPT !.start = @ + ret] = [buf |-> o.buf, start |-> o.start + ret]
    BY <1>4
  <2>2. [write_list EXCEPT ![1].start = @ + ret]
          = [write_list EXCEPT ![1] = [write_list[1] EXCEPT !.start = @ + ret]]
    BY <1>1
  <2> HIDE DEF ret, res
  <2> QED
    BY <1>7, <2>1, <2>2
<1> HIDE DEF bytes, res, n
<1>11. \A k \in 1 .. n : sent'[Len(sent) + k] = <<o.buf, o.start + k - 1>>
  <2> SUFFICES ASSUME NEW k \in 1 .. n PROVE sent'[Len(sent) + k] = <<o.buf, o.start + k - 1>>
    OBVIOUS
  <2>1. k \in 1 .. Size[o.buf] - o.start
    <3> HIDE DEF o
    <3> QED
      BY <1>4, <1>9
  <2> QED
    BY <1>5, <1>8, <2>1
<1>12. n \in Nat
  BY <1>4, <1>9
<1>13. CASE res = "all"
  BY <1>2, <1>7, <1>8, <1>9, <1>10, <1>11, <1>12, <1>13
<1>14. CASE res # "all"
  <2>1. o.start + ret \in Int /\ o.start + ret <= o.start + n /\ o.start + ret < Size[o.buf]
    <3> HIDE DEF o
    <3> QED
      BY <1>4, <1>9, <1>14
  <2>2. \/ nospace' /\ unsent' = SendBuf /\ peer' = peer
        \/ Gone /\ peer' = "dead"
    BY <1>8, <1>9, <1>14
  <2>3. at' = "rw" /\ write_list' = [write_list EXCEPT ![1] = [buf |-> o.buf, start |-> o.start + ret]]
    BY <1>7, <1>10, <1>14
  <2> HIDE DEF ret
  <2> QED
    BY <1>2, <1>7, <1>8, <1>11, <1>12, <2>1, <2>2, <2>3
<1> QED
  BY <1>13, <1>14

-----------------------------------------------------------------------------
(* Types *)

LEMMA TypeInit == WriterInit => WriterTypeOK
<1> SUFFICES ASSUME WriterInit PROVE WriterTypeOK
  OBVIOUS
<1>1. /\ write_list \in Seq(Object) /\ mailbox \in Seq(Event)
      /\ accepted \in Seq(Buf) /\ sent \in Seq(Buf \X Int)
  BY DEF WriterInit
<1>2. \A o \in ToSet(write_list) : o.start < Size[o.buf]
  BY DEF WriterInit, ToSet
<1>3. msg \in Event
  BY DEF WriterInit, Event, NoMsg
<1>4. {is_closing, conn, writer, open, epollout, ready, nospace, shut} \subseteq BOOLEAN
  BY DEF WriterInit
<1>5. /\ by \in Runner \cup {Nil} /\ (by = Nil <=> at = "idle")
      /\ event \in Event \cup {Nil} /\ errno \in [Runner -> {"EAGAIN", "other"}]
      /\ at = "idle" /\ peer = "open"
  BY DEF WriterInit
<1>6. unsent \in 0 .. SendBuf /\ coming \in Nat /\ received \in Nat
  BY SizeAssumption DEF WriterInit
<1> QED
  BY <1>1, <1>2, <1>3, <1>4, <1>5, <1>6 DEF WriterTypeOK

(* The objects of a list of objects that each end behind their start. *)
StartsOK == \A i \in 1 .. Len(write_list) : write_list[i].start < Size[write_list[i].buf]

LEMMA StartsType ==
  ASSUME NEW q \in Seq(Object)
  PROVE  (\A i \in 1 .. Len(q) : q[i].start < Size[q[i].buf])
           <=> \A o \in ToSet(q) : o.start < Size[o.buf]
<1>1. ToSet(q) = {q[i] : i \in 1 .. Len(q)}
  BY DEF ToSet
<1> QED
  BY <1>1

LEMMA ObjectType ==
  ASSUME NEW b \in Buf, NEW st \in Int PROVE [buf |-> b, start |-> st] \in Object
BY DEF Object

(* A write leaves a list of the right type. *)
LEMMA ListType ==
  ASSUME WriterTypeOK,
         \/ \E b \in Buf : EntireWriteWhenEmpty(b) \/ EntireWriteWhenNotEmpty(b)
         \/ WriteFrontObj
  PROVE  /\ write_list' \in Seq(Object) /\ StartsOK'
         /\ accepted' \in Seq(Buf) /\ sent' \in Seq(Buf \X Int)
<1>0. /\ write_list \in Seq(Object) /\ StartsOK
      /\ accepted \in Seq(Buf) /\ sent \in Seq(Buf \X Int)
  BY StartsType DEF WriterTypeOK, StartsOK
<1>1. ASSUME NEW b \in Buf, EntireWriteWhenEmpty(b)
      PROVE  /\ write_list' \in Seq(Object) /\ StartsOK'
             /\ accepted' \in Seq(Buf) /\ sent' \in Seq(Buf \X Int)
  <2>1. /\ sent' \in Seq(Buf \X Int)
        /\ accepted' = accepted \/ accepted' = Append(accepted, b)
        /\ \/ write_list' = << >>
           \/ \E st \in Int : st < Size[b] /\ write_list' = <<[buf |-> b, start |-> st]>>
    BY <1>1, WhenEmptyDoes
  <2>2. write_list' \in Seq(Object) /\ StartsOK'
    <3>1. CASE write_list' = << >>
      BY <3>1 DEF StartsOK
    <3>2. ASSUME NEW st \in Int, st < Size[b], write_list' = <<[buf |-> b, start |-> st]>>
          PROVE  write_list' \in Seq(Object) /\ StartsOK'
      BY <3>2, ObjectType DEF StartsOK
    <3> QED
      BY <2>1, <3>1, <3>2
  <2>3. Append(accepted, b) \in Seq(Buf)
    BY <1>0
  <2>4. accepted' \in Seq(Buf)
    BY <1>0, <2>1, <2>3
  <2> QED
    BY <2>1, <2>2, <2>4
<1>2. ASSUME NEW b \in Buf, EntireWriteWhenNotEmpty(b)
      PROVE  /\ write_list' \in Seq(Object) /\ StartsOK'
             /\ accepted' \in Seq(Buf) /\ sent' \in Seq(Buf \X Int)
  <2> DEFINE new == [buf |-> b, start |-> 0]
  <2>1. /\ write_list' = Append(write_list, new) /\ accepted' = Append(accepted, b)
        /\ sent' = sent
    BY <1>2 DEF EntireWriteWhenNotEmpty
  <2>2. new \in Object /\ new.start < Size[new.buf]
    BY ObjectType, SizeAssumption
  <2> HIDE DEF new
  <2>3. /\ write_list' \in Seq(Object) /\ Len(write_list') = Len(write_list) + 1
        /\ \A i \in 1 .. Len(write_list) : write_list'[i] = write_list[i]
        /\ write_list'[Len(write_list) + 1] = new
    BY <1>0, <2>1, <2>2
  <2>4. \A i \in 1 .. Len(write_list') : i \in 1 .. Len(write_list) \/ i = Len(write_list) + 1
    BY <1>0, <2>3
  <2>5. StartsOK'
    BY <1>0, <2>2, <2>3, <2>4 DEF StartsOK
  <2> QED
    BY <1>0, <2>1, <2>3, <2>5
<1>3. ASSUME WriteFrontObj
      PROVE  /\ write_list' \in Seq(Object) /\ StartsOK'
             /\ accepted' \in Seq(Buf) /\ sent' \in Seq(Buf \X Int)
  <2>1. /\ sent' \in Seq(Buf \X Int) /\ accepted' = accepted /\ Len(write_list) > 0
        /\ \/ write_list' = Tail(write_list)
           \/ \E st \in Int :
                /\ st < Size[write_list[1].buf]
                /\ write_list' = [write_list EXCEPT ![1] =
                                    [buf |-> write_list[1].buf, start |-> st]]
    BY <1>3, FrontDoes
  <2>2. CASE write_list' = Tail(write_list)
    <3>1. /\ write_list' \in Seq(Object) /\ Len(write_list') = Len(write_list) - 1
          /\ \A i \in 1 .. Len(write_list') : write_list'[i] = write_list[i + 1]
      BY <1>0, <2>1, <2>2, HeadTailProperties
    <3>2. \A i \in 1 .. Len(write_list') : i + 1 \in 1 .. Len(write_list)
      BY <1>0, <3>1
    <3>3. ASSUME NEW i \in 1 .. Len(write_list') PROVE write_list'[i].start < Size[write_list'[i].buf]
      <4>1. write_list'[i] = write_list[i + 1] /\ i + 1 \in 1 .. Len(write_list)
        BY <3>1, <3>2
      <4> QED
        BY <1>0, <4>1 DEF StartsOK
    <3>4. StartsOK'
      BY <3>3 DEF StartsOK
    <3> QED
      BY <1>0, <2>1, <3>1, <3>4
  <2>3. ASSUME NEW st \in Int, st < Size[write_list[1].buf],
               write_list' = [write_list EXCEPT ![1] = [buf |-> write_list[1].buf, start |-> st]]
        PROVE  write_list' \in Seq(Object) /\ StartsOK'
    <3> DEFINE new == [buf |-> write_list[1].buf, start |-> st]
    <3>1. write_list[1].buf \in Buf
      <4>1. write_list[1] \in Object
        BY <1>0, <2>1
      <4> QED
        BY <4>1 DEF Object
    <3>2. new \in Object /\ new.start < Size[new.buf]
      BY <2>3, <3>1, ObjectType
    <3>3. write_list' = [write_list EXCEPT ![1] = new]
      BY <2>3
    <3> HIDE DEF new
    <3> QED
      BY <1>0, <2>1, <3>2, <3>3 DEF StartsOK
  <2> QED
    BY <1>0, <2>1, <2>2, <2>3
<1> QED
  BY <1>1, <1>2, <1>3

LEMMA TypeStep == WriterTypeOK /\ [WriterNext]_writervars => WriterTypeOK'
<1> SUFFICES ASSUME WriterTypeOK, [WriterNext]_writervars PROVE WriterTypeOK'
  OBVIOUS
<1> USE DEF listvars, cvars, hvars, kvars, ovars, GoOn
<1>0. /\ write_list \in Seq(Object) /\ StartsOK
      /\ accepted \in Seq(Buf) /\ sent \in Seq(Buf \X Int)
      /\ SendBuf \in Nat \ {0} /\ Nil \notin Runner
  BY StartsType, SizeAssumption, NilAssumption DEF WriterTypeOK, StartsOK
<1>1. CASE Kernel
  <2>1. CASE PeerReads
    <3>1. PICK k \in {1, unsent} : unsent' = unsent - k
      BY <2>1 DEF PeerReads
    <3>2. unsent' \in 0 .. SendBuf
      BY <1>0, <2>1, <3>1 DEF PeerReads, WriterTypeOK
    <3> QED
      BY <2>1, <3>2 DEF PeerReads, WriterTypeOK
  <2>2. CASE PeerSends
    BY <2>2 DEF PeerSends, WriterTypeOK
  <2>3. CASE PeerEnds
    BY <1>0, <2>3 DEF PeerEnds, WriterTypeOK
  <2> QED
    BY <1>1, <2>1, <2>2, <2>3 DEF Kernel
<1>2. CASE SocketThread
  <2>1. CASE EpollWait
    <3>1. Readable \in BOOLEAN /\ Writable \in BOOLEAN /\ epollout \in BOOLEAN /\ nospace \in BOOLEAN
      BY <1>0 DEF Readable, Writable, WriterTypeOK
    <3>2. event' \in Event \cup {Nil}
      BY <2>1, <3>1 DEF EpollWait, Event
    <3>3. nospace' \in BOOLEAN
      BY <2>1, <3>1 DEF EpollWait
    <3> QED
      BY <2>1, <3>2, <3>3 DEF EpollWait, WriterTypeOK
  <2>2. CASE OnEvent
    <3>1. event \in Event /\ Append(mailbox, event) \in Seq(Event)
      BY <2>2 DEF OnEvent, WriterTypeOK
    <3> QED
      BY <2>2, <3>1 DEF OnEvent, WriterTypeOK
  <2> QED
    BY <1>2, <2>1, <2>2 DEF SocketThread
<1>3. CASE Script
  <2>1. ASSUME NEW b \in Buf, EntireWriteWhenEmpty(b) PROVE WriterTypeOK'
    <3>1. /\ write_list' \in Seq(Object) /\ StartsOK'
          /\ accepted' \in Seq(Buf) /\ sent' \in Seq(Buf \X Int)
      BY <2>1, ListType
    <3>2. \A o \in ToSet(write_list') : o.start < Size[o.buf]
      BY <3>1, StartsType DEF StartsOK
    <3>3. Full(b) \in Seq(Buf \X Int) /\ Full(b) # << >> /\ by # Nil /\ Write(Full(b))
      BY <2>1, FullType, SizeAssumption DEF EntireWriteWhenEmpty, MayWrite, WriterTypeOK
    <3>4. /\ unsent' \in 0 .. SendBuf /\ nospace' \in BOOLEAN
          /\ peer' \in {"open", "fin", "reset", "dead"}
          /\ errno' \in [Runner -> {"EAGAIN", "other"}]
      BY <3>3, WriteDoes DEF WriterTypeOK
    <3>5. at' \in {"script", "arm"} /\ at = "script"
      BY <2>1 DEF EntireWriteWhenEmpty, MayWrite
    <3> QED
      BY <2>1, <3>1, <3>2, <3>4, <3>5 DEF EntireWriteWhenEmpty, WriterTypeOK
  <2>2. ASSUME NEW b \in Buf, EntireWriteWhenNotEmpty(b) PROVE WriterTypeOK'
    <3>1. /\ write_list' \in Seq(Object) /\ StartsOK'
          /\ accepted' \in Seq(Buf) /\ sent' \in Seq(Buf \X Int)
      BY <2>2, ListType
    <3>2. \A o \in ToSet(write_list') : o.start < Size[o.buf]
      BY <3>1, StartsType DEF StartsOK
    <3> QED
      BY <2>2, <3>1, <3>2 DEF EntireWriteWhenNotEmpty, WriterTypeOK
  <2>3. CASE LingerClose
    BY <2>3 DEF LingerClose, CloseConn, WriterTypeOK
  <2> QED
    BY <1>3, <2>1, <2>2, <2>3 DEF Script
<1>4. CASE Handler
  <2>1. CASE Arm
    BY <2>1 DEF Arm, ModifyEvent, WriterTypeOK, Readable, Writable, Gone
  <2>2. CASE ScriptReturns
    BY <2>2 DEF ScriptReturns, WriterTypeOK
  <2>3. CASE ReadData
    BY <2>3 DEF ReadData, WriterTypeOK, Event
  <2>4. CASE ReadFails
    BY <2>4 DEF ReadFails, SetErrno, WriterTypeOK, Event
  <2>5. CASE Close
    BY <2>5 DEF Close, CloseConn, WriterTypeOK
  <2>6. CASE OnSocketWritable
    BY <2>6 DEF OnSocketWritable, WriterTypeOK, Event, NoMsg
  <2>7. CASE WriteFrontObj
    <3>1. /\ write_list' \in Seq(Object) /\ StartsOK'
          /\ accepted' \in Seq(Buf) /\ sent' \in Seq(Buf \X Int)
      BY <2>7, ListType
    <3>2. \A o \in ToSet(write_list') : o.start < Size[o.buf]
      BY <3>1, StartsType DEF StartsOK
    <3> DEFINE b  == Head(write_list).buf
               st == Head(write_list).start
    <3>3. /\ Head(write_list) \in Object /\ Head(write_list) \in ToSet(write_list)
      BY <1>0, <2>7 DEF WriteFrontObj, ToSet
    <3>4. /\ b \in Buf /\ st \in Int /\ st < Size[b]
          /\ Head(write_list) = [buf |-> b, start |-> st]
      BY <3>3 DEF WriterTypeOK, Object
    <3> HIDE DEF b, st
    <3>5. Size[b] - st > 0 /\ Rest(Head(write_list)) \in Seq(Buf \X Int)
          /\ Len(Rest(Head(write_list))) = Size[b] - st
      <4>1. Size[b] \in Nat
        BY <3>4, SizeAssumption
      <4>2. /\ Rest([buf |-> b, start |-> st]) \in Seq(Buf \X Int)
            /\ Len(Rest([buf |-> b, start |-> st])) = Size[b] - st
        BY <3>4, RestType
      <4> QED
        BY <3>4, <4>1, <4>2
    <3>6. Rest(Head(write_list)) # << >> /\ by # Nil /\ Write(Rest(Head(write_list)))
      BY <2>7, <3>5 DEF WriteFrontObj, WriterTypeOK
    <3>7. /\ unsent' \in 0 .. SendBuf /\ nospace' \in BOOLEAN
          /\ peer' \in {"open", "fin", "reset", "dead"}
          /\ errno' \in [Runner -> {"EAGAIN", "other"}]
      BY <3>5, <3>6, WriteDoes DEF WriterTypeOK
    <3>8. at' \in {"front", "rw"} /\ at = "front"
      BY <2>7 DEF WriteFrontObj
    <3> QED
      BY <2>7, <3>1, <3>2, <3>7, <3>8 DEF WriteFrontObj, WriterTypeOK
  <2>8. CASE Disarm
    BY <2>8 DEF Disarm, ModifyEvent, WriterTypeOK, Readable, Writable, Gone
  <2>9. CASE Shutdown
    BY <2>9 DEF Shutdown, SetErrno, WriterTypeOK
  <2>10. CASE SendRead
    <3>1. [r |-> TRUE, w |-> FALSE] \in Event
      BY DEF Event
    <3>2. Append(mailbox, [r |-> TRUE, w |-> FALSE]) \in Seq(Event)
      BY <3>1 DEF WriterTypeOK
    <3> QED
      BY <2>10, <3>2 DEF SendRead, WriterTypeOK
  <2>11. CASE Finish
    BY <2>11 DEF Finish, WriterTypeOK
  <2> QED
    BY <1>4, <2>1, <2>2, <2>3, <2>4, <2>5, <2>6, <2>7, <2>8, <2>9, <2>10, <2>11 DEF Handler
<1>5. ASSUME NEW w \in Runner, OnRWMsg(w) PROVE WriterTypeOK'
  <2>1. Head(mailbox) \in Event /\ Tail(mailbox) \in Seq(Event)
    BY <1>5 DEF OnRWMsg, WriterTypeOK
  <2> QED
    BY <1>0, <1>5, <2>1 DEF OnRWMsg, WriterTypeOK
<1>6. ASSUME NEW w \in Runner, OnServiceMsg(w) PROVE WriterTypeOK'
  BY <1>0, <1>6 DEF OnServiceMsg, WriterTypeOK
<1>7. CASE UNCHANGED writervars
  BY <1>7 DEF writervars, WriterTypeOK
<1> QED
  BY <1>1, <1>2, <1>3, <1>4, <1>5, <1>6, <1>7 DEF WriterNext, Take

-----------------------------------------------------------------------------
(* The bytes *)

LEMMA BytesInit == WriterInit => BytesInv
BY DEF WriterInit, BytesInv, ListInv, SentInv, OrderInv, LossInv, Done

(* A step that leaves the list, the accepted buffers and the bytes alone   *)
LEMMA BytesQuiet ==
  ASSUME BytesInv, UNCHANGED <<write_list, accepted, sent>> PROVE BytesInv'
<1>0. write_list' = write_list /\ accepted' = accepted /\ sent' = sent
  OBVIOUS
<1>1. ListInv' /\ Done' = Done
  BY <1>0 DEF BytesInv, ListInv, Done
<1>2. SentInv'
  BY <1>0, <1>1 DEF BytesInv, SentInv
<1>3. OrderInv'
  BY <1>0 DEF BytesInv, OrderInv
<1>4. LossInv'
  BY <1>0, <1>1 DEF BytesInv, LossInv, WasSent, Waiting
<1> QED
  BY <1>1, <1>2, <1>3, <1>4 DEF BytesInv

LEMMA BytesWhenEmpty ==
  ASSUME WriterTypeOK, BytesInv, NEW b \in Buf, EntireWriteWhenEmpty(b) PROVE BytesInv'
<1>0. /\ Len(accepted) \in Nat /\ Len(sent) \in Nat /\ accepted \in Seq(Buf)
      /\ Size[b] \in Nat \ {0}
  BY SizeAssumption DEF WriterTypeOK
<1>1. /\ \A i \in 1 .. Len(accepted) : accepted[i] # b
      /\ write_list = << >> /\ Len(write_list) = 0
  BY WhenEmptyDoes
<1>2. PICK n \in 0 .. Size[b] :
        /\ Longer(n)
        /\ \A k \in 1 .. n : sent'[Len(sent) + k] = <<b, k - 1>>
        /\ \/ n = 0 /\ accepted' = accepted /\ write_list' = << >>
           \/ n = Size[b] /\ accepted' = Append(accepted, b) /\ write_list' = << >>
           \/ /\ accepted' = Append(accepted, b)
              /\ \E st \in Int : st <= n /\ write_list' = <<[buf |-> b, start |-> st]>>
  BY WhenEmptyDoes
<1>3. /\ Len(sent') = Len(sent) + n /\ n \in Nat
      /\ \A k \in 1 .. Len(sent) : sent'[k] = sent[k]
      /\ \A k \in 1 .. Len(sent') : k \in 1 .. Len(sent) \/ sent'[k] = <<b, k - Len(sent) - 1>>
  <2>1. /\ Len(sent') = Len(sent) + n /\ n \in Nat
        /\ \A k \in 1 .. Len(sent) : sent'[k] = sent[k]
    BY <1>2 DEF Longer
  <2>2. ASSUME NEW k \in 1 .. Len(sent'), k \notin 1 .. Len(sent)
        PROVE  sent'[k] = <<b, k - Len(sent) - 1>>
    <3>1. k - Len(sent) \in 1 .. n /\ k = Len(sent) + (k - Len(sent))
      BY <1>0, <2>1, <2>2
    <3> QED
      BY <1>2, <3>1
  <2> QED
    BY <2>1, <2>2
<1>4. CASE accepted' = accepted /\ n = 0 /\ write_list' = << >>
  <2>1. Len(sent') = Len(sent) /\ \A k \in 1 .. Len(sent') : sent'[k] = sent[k]
    BY <1>0, <1>3, <1>4
  <2>2. sent \in Seq(Buf \X Int) /\ sent' \in Seq(Buf \X Int)
    BY WhenEmptyDoes DEF WriterTypeOK
  <2>3. sent' = sent
    BY <2>1, <2>2, SeqEqual
  <2> QED
    BY <1>1, <1>4, <2>3, BytesQuiet
<1>5. CASE accepted' = Append(accepted, b)
  <2>1. /\ Len(accepted') = Len(accepted) + 1 /\ accepted'[Len(accepted) + 1] = b
        /\ \A i \in 1 .. Len(accepted) : accepted'[i] = accepted[i]
        /\ \A i \in 1 .. Len(accepted') : i \in 1 .. Len(accepted) \/ i = Len(accepted) + 1
    BY <1>0, <1>5
  <2>2. \/ n = Size[b] /\ write_list' = << >>
        \/ \E st \in Int : st <= n /\ write_list' = <<[buf |-> b, start |-> st]>>
    BY <1>0, <1>2, <1>5, <2>1
  <2>3. /\ Len(write_list') \in {0, 1} /\ Done' = Len(accepted) + 1 - Len(write_list')
        /\ Done' \in {Len(accepted), Len(accepted) + 1}
        /\ Len(write_list') = 1 => write_list'[1].buf = b
    <3>1. ASSUME write_list' = << >>
          PROVE  Len(write_list') = 0 /\ Done' = Len(accepted) + 1
      BY <1>0, <2>1, <3>1 DEF Done
    <3>2. ASSUME NEW st \in Int, write_list' = <<[buf |-> b, start |-> st]>>
          PROVE  /\ Len(write_list') = 1 /\ write_list'[1].buf = b
                 /\ Done' = Len(accepted)
      <4>1. Len(write_list') = 1 /\ write_list'[1] = [buf |-> b, start |-> st]
        BY <3>2
      <4> QED
        BY <1>0, <2>1, <4>1 DEF Done
    <3>3. CASE write_list' = << >>
      BY <1>0, <3>1, <3>3
    <3>4. CASE write_list' # << >>
      <4>1. PICK st \in Int : write_list' = <<[buf |-> b, start |-> st]>>
        BY <2>2, <3>4
      <4>2. /\ Len(write_list') = 1 /\ write_list'[1].buf = b
            /\ Done' = Len(accepted)
        BY <3>2, <4>1
      <4> QED
        BY <1>0, <4>2
    <3> QED
      BY <3>3, <3>4
  <2>4. ListInv'
    <3>1. \A i, j \in 1 .. Len(accepted') : accepted'[i] = accepted'[j] => i = j
      BY <1>0, <1>1, <2>1 DEF BytesInv, ListInv
    <3>2. \A i \in 1 .. Len(write_list') : write_list'[i].buf = accepted'[Done' + i]
      <4> SUFFICES ASSUME NEW i \in 1 .. Len(write_list')
                   PROVE  write_list'[i].buf = accepted'[Done' + i]
        OBVIOUS
      <4>1. i = 1 /\ Len(write_list') = 1 /\ Done' + i = Len(accepted) + 1
        BY <1>0, <2>3
      <4> QED
        BY <2>1, <2>3, <4>1
    <3>3. Len(write_list') <= Len(accepted')
      BY <1>0, <2>1, <2>3
    <3> QED
      BY <3>1, <3>2, <3>3 DEF ListInv
  <2>5. \A k \in 1 .. Len(sent) : \E i \in 1 .. Len(accepted) : sent[k][1] = accepted[i]
    BY DEF BytesInv, SentInv
  <2>6. \A k \in 1 .. Len(sent') : k \notin 1 .. Len(sent) => sent'[k][1] = accepted'[Len(accepted) + 1]
    BY <1>3, <2>1
  <2>7. SentInv'
    <3> SUFFICES ASSUME NEW k \in 1 .. Len(sent')
                 PROVE  \E i \in 1 .. Len(accepted') : i <= Done' + 1 /\ sent'[k][1] = accepted'[i]
      BY DEF SentInv
    <3>1. CASE k \in 1 .. Len(sent)
      <4>1. PICK i \in 1 .. Len(accepted) : sent[k][1] = accepted[i]
        BY <2>5, <3>1
      <4>2. i \in 1 .. Len(accepted') /\ i <= Done' + 1
        BY <1>0, <2>1, <2>3
      <4>3. sent'[k][1] = accepted'[i]
        BY <1>3, <2>1, <3>1, <4>1
      <4> QED
        BY <4>2, <4>3
    <3>2. CASE k \notin 1 .. Len(sent)
      <4>1. Len(accepted) + 1 \in 1 .. Len(accepted') /\ Len(accepted) + 1 <= Done' + 1
        BY <1>0, <2>1, <2>3
      <4> QED
        BY <2>6, <3>2, <4>1
    <3> QED
      BY <3>1, <3>2
  <2>8. OrderInv'
    <3> SUFFICES ASSUME NEW k \in 1 .. Len(sent'), NEW l \in 1 .. Len(sent'),
                        NEW i \in 1 .. Len(accepted'), NEW j \in 1 .. Len(accepted'),
                        k < l, sent'[k][1] = accepted'[i], sent'[l][1] = accepted'[j]
                 PROVE  i <= j
      BY DEF OrderInv
    <3>1. CASE l \in 1 .. Len(sent)
      <4>1. k \in 1 .. Len(sent) /\ sent'[k] = sent[k] /\ sent'[l] = sent[l]
        BY <1>0, <1>3, <3>1
      <4>2. i \in 1 .. Len(accepted) /\ j \in 1 .. Len(accepted)
        BY <1>1, <2>1, <2>5, <3>1, <4>1
      <4> QED
        BY <2>1, <4>1, <4>2, <3>1 DEF BytesInv, OrderInv
    <3>2. CASE l \notin 1 .. Len(sent)
      <4>1. j = Len(accepted) + 1
        BY <1>0, <1>1, <2>1, <2>6, <3>2
      <4> QED
        BY <1>0, <2>1, <4>1
    <3> QED
      BY <3>1, <3>2
  <2>9. LossInv'
    <3> SUFFICES ASSUME NEW j \in 1 .. Len(accepted'), NEW i \in 0 .. Size[accepted'[j]] - 1
                 PROVE  \/ \E k \in 1 .. Len(sent') : sent'[k] = <<accepted'[j], i>>
                        \/ j > Done' /\ write_list'[j - Done'].start <= i
      BY DEF LossInv, WasSent, Waiting
    <3>1. CASE j \in 1 .. Len(accepted)
      <4>1. accepted'[j] = accepted[j] /\ ~(j > Done)
        BY <1>0, <1>1, <2>1, <3>1 DEF Done
      <4>2. \E k \in 1 .. Len(sent) : sent[k] = <<accepted[j], i>>
        BY <3>1, <4>1 DEF BytesInv, LossInv, WasSent, Waiting
      <4>3. PICK k \in 1 .. Len(sent) : sent[k] = <<accepted[j], i>>
        BY <4>2
      <4> QED
        BY <1>0, <1>3, <4>1, <4>3
    <3>2. CASE j = Len(accepted) + 1
      <4>1. accepted'[j] = b
        BY <2>1, <3>2
      <4>2. CASE i < n
        <5>1. i + 1 \in 1 .. n /\ Len(sent) + (i + 1) \in 1 .. Len(sent')
          BY <1>0, <1>3, <4>1, <4>2
        <5>2. sent'[Len(sent) + (i + 1)] = <<b, (i + 1) - 1>>
          BY <1>2, <5>1
        <5>3. (i + 1) - 1 = i
          BY <1>0, <4>1
        <5> QED
          BY <4>1, <5>1, <5>2, <5>3
      <4>3. CASE ~(i < n)
        <5>1. PICK st \in Int : st <= n /\ write_list' = <<[buf |-> b, start |-> st]>>
          BY <1>0, <1>3, <2>2, <4>1, <4>3
        <5>2. Done' = Len(accepted) /\ write_list'[1].start = st
          BY <1>0, <2>1, <5>1 DEF Done
        <5>3. j > Done' /\ j - Done' = 1 /\ st <= i
          BY <1>0, <1>3, <3>2, <4>1, <4>3, <5>1, <5>2
        <5> QED
          BY <5>2, <5>3
      <4> QED
        BY <4>2, <4>3
    <3> QED
      BY <2>1, <3>1, <3>2
  <2> QED
    BY <2>4, <2>7, <2>8, <2>9 DEF BytesInv
<1> QED
  BY <1>2, <1>4, <1>5

LEMMA BytesWhenNotEmpty ==
  ASSUME WriterTypeOK, BytesInv, NEW b \in Buf, EntireWriteWhenNotEmpty(b) PROVE BytesInv'
<1> DEFINE new == [buf |-> b, start |-> 0]
<1>0. /\ accepted \in Seq(Buf) /\ write_list \in Seq(Object)
      /\ Len(accepted) \in Nat /\ Len(write_list) \in Nat /\ new.buf = b /\ new.start = 0
      /\ Len(write_list) <= Len(accepted)
  BY DEF WriterTypeOK, BytesInv, ListInv
<1>1. /\ \A i \in 1 .. Len(accepted) : accepted[i] # b
      /\ write_list' = Append(write_list, new) /\ accepted' = Append(accepted, b)
      /\ sent' = sent /\ write_list # << >>
  BY DEF EntireWriteWhenNotEmpty, MayWrite, Contains
<1> HIDE DEF new
<1>2. /\ Len(accepted') = Len(accepted) + 1 /\ accepted'[Len(accepted) + 1] = b
      /\ \A i \in 1 .. Len(accepted) : accepted'[i] = accepted[i]
      /\ \A i \in 1 .. Len(accepted') : i \in 1 .. Len(accepted) \/ i = Len(accepted) + 1
  <2>1. /\ Len(accepted') = Len(accepted) + 1 /\ accepted'[Len(accepted) + 1] = b
        /\ \A i \in 1 .. Len(accepted) : accepted'[i] = accepted[i]
    BY <1>0, <1>1
  <2>2. \A i \in 1 .. Len(accepted') : i \in 1 .. Len(accepted) \/ i = Len(accepted) + 1
    BY <1>0, <2>1
  <2> QED
    BY <2>1, <2>2
<1>3. /\ Len(write_list') = Len(write_list) + 1 /\ write_list'[Len(write_list) + 1] = new
      /\ \A i \in 1 .. Len(write_list) : write_list'[i] = write_list[i]
      /\ \A i \in 1 .. Len(write_list') : i \in 1 .. Len(write_list) \/ i = Len(write_list) + 1
      /\ Len(write_list) > 0
  BY <1>0, <1>1
<1>4. Done' = Done /\ Done \in Nat /\ Len(accepted) = Done + Len(write_list) /\ Done < Len(accepted)
  BY <1>0, <1>2, <1>3 DEF Done
<1>5. ListInv'
  <2>1. \A i, j \in 1 .. Len(accepted') : accepted'[i] = accepted'[j] => i = j
    BY <1>0, <1>1, <1>2 DEF BytesInv, ListInv
  <2>2. ASSUME NEW i \in 1 .. Len(write_list') PROVE write_list'[i].buf = accepted'[Done' + i]
    <3>1. CASE i \in 1 .. Len(write_list)
      <4>1. Done + i \in 1 .. Len(accepted)
        BY <1>0, <1>4, <3>1
      <4> QED
        BY <1>2, <1>3, <1>4, <3>1, <4>1 DEF BytesInv, ListInv
    <3>2. CASE i = Len(write_list) + 1
      <4>1. Done' + i = Len(accepted) + 1
        BY <1>0, <1>4, <3>2
      <4> QED
        BY <1>0, <1>2, <1>3, <3>2, <4>1
    <3> QED
      BY <1>3, <3>1, <3>2
  <2>3. Len(write_list') <= Len(accepted')
    BY <1>0, <1>2, <1>3
  <2> QED
    BY <2>1, <2>2, <2>3 DEF ListInv
<1>6. \A k \in 1 .. Len(sent) : \E i \in 1 .. Len(accepted) : i <= Done + 1 /\ sent[k][1] = accepted[i]
  BY DEF BytesInv, SentInv
<1>7. 1 .. Len(accepted) \subseteq 1 .. Len(accepted')
  BY <1>0, <1>2
<1>8. SentInv'
  <2> SUFFICES ASSUME NEW k \in 1 .. Len(sent)
               PROVE  \E i \in 1 .. Len(accepted') : i <= Done + 1 /\ sent[k][1] = accepted'[i]
    BY <1>1, <1>4 DEF SentInv
  <2>1. PICK i \in 1 .. Len(accepted) : i <= Done + 1 /\ sent[k][1] = accepted[i]
    BY <1>6
  <2> QED
    BY <1>2, <1>7, <2>1
<1>9. OrderInv'
  <2> SUFFICES ASSUME NEW k \in 1 .. Len(sent), NEW l \in 1 .. Len(sent),
                      NEW i \in 1 .. Len(accepted'), NEW j \in 1 .. Len(accepted'),
                      k < l, sent[k][1] = accepted'[i], sent[l][1] = accepted'[j]
               PROVE  i <= j
    BY <1>1 DEF OrderInv
  <2>1. i \in 1 .. Len(accepted) /\ j \in 1 .. Len(accepted)
    BY <1>1, <1>2, <1>6
  <2> QED
    BY <1>2, <2>1 DEF BytesInv, OrderInv
<1>10. LossInv'
  <2> SUFFICES ASSUME NEW j \in 1 .. Len(accepted'), NEW i \in 0 .. Size[accepted'[j]] - 1
               PROVE  \/ \E k \in 1 .. Len(sent) : sent[k] = <<accepted'[j], i>>
                      \/ j > Done /\ write_list'[j - Done].start <= i
    BY <1>1, <1>4 DEF LossInv, WasSent, Waiting
  <2>1. CASE j \in 1 .. Len(accepted)
    <3>1. accepted'[j] = accepted[j]
      BY <1>2, <2>1
    <3>2. WasSent(j, i) \/ Waiting(j, i)
      BY <2>1, <3>1 DEF BytesInv, LossInv
    <3>3. j > Done => j - Done \in 1 .. Len(write_list)
      BY <1>0, <1>4, <2>1
    <3> QED
      BY <1>3, <3>1, <3>2, <3>3 DEF WasSent, Waiting
  <2>2. CASE j = Len(accepted) + 1
    <3>1. j > Done /\ j - Done = Len(write_list) + 1 /\ 0 <= i
      BY <1>0, <1>4, <2>2
    <3> QED
      BY <1>0, <1>3, <3>1
  <2> QED
    BY <1>2, <2>1, <2>2
<1> QED
  BY <1>5, <1>8, <1>9, <1>10 DEF BytesInv

LEMMA BytesFront == ASSUME WriterTypeOK, BytesInv, WriteFrontObj PROVE BytesInv'
<1>0. /\ accepted \in Seq(Buf) /\ write_list \in Seq(Object)
      /\ Len(accepted) \in Nat /\ Len(write_list) \in Nat /\ Len(sent) \in Nat
      /\ Len(write_list) <= Len(accepted)
  BY DEF WriterTypeOK, BytesInv, ListInv
<1> DEFINE b  == write_list[1].buf
           st == write_list[1].start
<1>1. accepted' = accepted /\ Len(write_list) > 0
  BY FrontDoes
<1>2. PICK n \in Nat :
        /\ Longer(n)
        /\ \A k \in 1 .. n : sent'[Len(sent) + k] = <<b, st + k - 1>>
        /\ \/ n = Size[b] - st /\ write_list' = Tail(write_list)
           \/ \E t \in Int : /\ t <= st + n
                           /\ write_list' = [write_list EXCEPT ![1] = [buf |-> b, start |-> t]]
  BY FrontDoes
<1>3. /\ Done \in Nat /\ Len(accepted) = Done + Len(write_list)
      /\ Done + 1 \in 1 .. Len(accepted)
  BY <1>0, <1>1 DEF Done
<1>4. accepted[Done + 1] = b
  BY <1>0, <1>1 DEF BytesInv, ListInv
<1>5. b \in Buf /\ st \in Int /\ Size[b] \in Nat
  <2>1. write_list[1] \in Object
    BY <1>0, <1>1
  <2> QED
    BY <2>1, SizeAssumption DEF Object
<1> HIDE DEF b, st
<1>6. /\ Len(sent') = Len(sent) + n
      /\ \A k \in 1 .. Len(sent) : sent'[k] = sent[k]
      /\ \A k \in 1 .. Len(sent') : k \in 1 .. Len(sent) \/ sent'[k][1] = b
  <2>1. Len(sent') = Len(sent) + n /\ \A k \in 1 .. Len(sent) : sent'[k] = sent[k]
    BY <1>2 DEF Longer
  <2>2. ASSUME NEW k \in 1 .. Len(sent'), k \notin 1 .. Len(sent) PROVE sent'[k][1] = b
    <3>1. k - Len(sent) \in 1 .. n /\ k = Len(sent) + (k - Len(sent))
      BY <1>0, <2>1, <2>2
    <3>2. sent'[k] = <<b, st + (k - Len(sent)) - 1>>
      BY <1>2, <3>1
    <3> QED
      BY <3>2
  <2> QED
    BY <2>1, <2>2
<1>7. \/ /\ n = Size[b] - st /\ Len(write_list') = Len(write_list) - 1 /\ Done' = Done + 1
         /\ \A i \in 1 .. Len(write_list') : write_list'[i] = write_list[i + 1]
      \/ /\ Len(write_list') = Len(write_list) /\ Done' = Done /\ write_list'[1].buf = b
         /\ write_list'[1].start <= st + n
         /\ \A i \in 2 .. Len(write_list') : write_list'[i] = write_list[i]
  <2>1. CASE n = Size[b] - st /\ write_list' = Tail(write_list)
    <3>1. /\ Len(write_list') = Len(write_list) - 1
          /\ \A i \in 1 .. Len(write_list') : write_list'[i] = write_list[i + 1]
      BY <1>0, <1>1, <2>1, HeadTailProperties
    <3>2. Done' = Done + 1
      BY <1>0, <1>1, <3>1 DEF Done
    <3> QED
      BY <2>1, <3>1, <3>2
  <2>2. ASSUME NEW t \in Int, t <= st + n,
               write_list' = [write_list EXCEPT ![1] = [buf |-> b, start |-> t]]
        PROVE  /\ Len(write_list') = Len(write_list) /\ Done' = Done /\ write_list'[1].buf = b
               /\ write_list'[1].start <= st + n
               /\ \A i \in 2 .. Len(write_list') : write_list'[i] = write_list[i]
    <3>1. /\ Len(write_list') = Len(write_list) /\ write_list'[1] = [buf |-> b, start |-> t]
          /\ \A i \in 2 .. Len(write_list') : write_list'[i] = write_list[i]
      BY <1>0, <1>1, <2>2
    <3> QED
      BY <1>1, <2>2, <3>1 DEF Done
  <2> QED
    BY <1>2, <2>1, <2>2
<1>8. Done' \in {Done, Done + 1} /\ Len(write_list') <= Len(accepted)
  BY <1>0, <1>7
<1>9. ListInv'
  <2>1. ASSUME NEW i \in 1 .. Len(write_list') PROVE write_list'[i].buf = accepted[Done' + i]
    <3>1. CASE Done' = Done + 1
      <4>1. /\ i + 1 \in 1 .. Len(write_list) /\ write_list'[i] = write_list[i + 1]
            /\ Done' + i = Done + (i + 1)
        BY <1>0, <1>3, <1>7, <3>1
      <4> QED
        BY <4>1 DEF BytesInv, ListInv
    <3>2. CASE Done' = Done
      <4>1. /\ i \in 1 .. Len(write_list)
            /\ \/ i = 1 /\ write_list'[i].buf = b
               \/ i # 1 /\ write_list'[i] = write_list[i]
        BY <1>0, <1>3, <1>7, <3>2
      <4> QED
        BY <1>4, <3>2, <4>1 DEF BytesInv, ListInv
    <3> QED
      BY <1>8, <3>1, <3>2
  <2> QED
    BY <1>1, <1>8, <2>1 DEF BytesInv, ListInv
<1>10. \A k \in 1 .. Len(sent) : \E i \in 1 .. Len(accepted) : i <= Done + 1 /\ sent[k][1] = accepted[i]
  BY DEF BytesInv, SentInv
<1>11. SentInv'
  <2> SUFFICES ASSUME NEW k \in 1 .. Len(sent')
               PROVE  \E i \in 1 .. Len(accepted) : i <= Done' + 1 /\ sent'[k][1] = accepted[i]
    BY <1>1 DEF SentInv
  <2>1. CASE k \in 1 .. Len(sent)
    <3>1. PICK i \in 1 .. Len(accepted) : i <= Done + 1 /\ sent[k][1] = accepted[i]
      BY <1>10, <2>1
    <3>2. i <= Done' + 1
      BY <1>3, <1>8, <3>1
    <3> QED
      BY <1>6, <2>1, <3>1, <3>2
  <2>2. CASE k \notin 1 .. Len(sent)
    <3>1. Done + 1 <= Done' + 1
      <4>1. Done' = Done \/ Done' = Done + 1
        BY <1>8
      <4>2. Done \in Nat
        BY <1>3
      <4> HIDE DEF Done
      <4> QED
        BY <4>1, <4>2
    <3> QED
      BY <1>3, <1>4, <1>6, <2>2, <3>1
  <2> QED
    BY <2>1, <2>2
<1>12. OrderInv'
  <2> SUFFICES ASSUME NEW k \in 1 .. Len(sent'), NEW l \in 1 .. Len(sent'),
                      NEW i \in 1 .. Len(accepted), NEW j \in 1 .. Len(accepted),
                      k < l, sent'[k][1] = accepted[i], sent'[l][1] = accepted[j]
               PROVE  i <= j
    BY <1>1 DEF OrderInv
  <2>1. CASE l \in 1 .. Len(sent)
    <3>1. k \in 1 .. Len(sent) /\ sent'[k] = sent[k] /\ sent'[l] = sent[l]
      BY <1>0, <1>6, <2>1
    <3> QED
      BY <2>1, <3>1 DEF BytesInv, OrderInv
  <2>2. CASE l \notin 1 .. Len(sent)
    <3>1. j = Done + 1
      BY <1>3, <1>4, <1>6, <2>2 DEF BytesInv, ListInv
    <3>2. CASE k \in 1 .. Len(sent)
      <4>1. PICK h \in 1 .. Len(accepted) : h <= Done + 1 /\ sent[k][1] = accepted[h]
        BY <1>10, <3>2
      <4>2. h = i
        BY <1>6, <3>2, <4>1 DEF BytesInv, ListInv
      <4> QED
        BY <3>1, <4>1, <4>2
    <3>3. CASE k \notin 1 .. Len(sent)
      <4>1. i = Done + 1
        BY <1>3, <1>4, <1>6, <3>3 DEF BytesInv, ListInv
      <4> QED
        BY <1>3, <3>1, <4>1
    <3> QED
      BY <3>2, <3>3
  <2> QED
    BY <2>1, <2>2
<1>13. LossInv'
  <2> SUFFICES ASSUME NEW j \in 1 .. Len(accepted), NEW i \in 0 .. Size[accepted[j]] - 1
               PROVE  \/ \E k \in 1 .. Len(sent') : sent'[k] = <<accepted[j], i>>
                      \/ j > Done' /\ write_list'[j - Done'].start <= i
    BY <1>1 DEF LossInv, WasSent, Waiting
  <2>1. CASE WasSent(j, i)
    <3>1. PICK k \in 1 .. Len(sent) : sent[k] = <<accepted[j], i>>
      BY <2>1 DEF WasSent
    <3>2. k \in 1 .. Len(sent')
      BY <1>0, <1>6
    <3> QED
      BY <1>6, <3>1, <3>2
  <2>2. CASE Waiting(j, i) /\ j # Done + 1
    <3>1. j > Done /\ write_list[j - Done].start <= i /\ j > Done + 1
      BY <1>3, <2>2 DEF Waiting
    <3>2. CASE Done' = Done + 1
      <4>1. j - Done' \in 1 .. Len(write_list') /\ (j - Done') + 1 = j - Done
        BY <1>0, <1>3, <1>7, <3>1, <3>2
      <4>2. write_list'[j - Done'] = write_list[j - Done]
        BY <1>3, <1>7, <3>2, <4>1
      <4> QED
        BY <1>3, <3>1, <3>2, <4>2
    <3>3. CASE Done' = Done
      <4>1. j - Done \in 2 .. Len(write_list')
        BY <1>0, <1>3, <1>7, <3>1, <3>3
      <4>2. write_list'[j - Done] = write_list[j - Done]
        BY <1>3, <1>7, <3>3, <4>1
      <4> QED
        BY <3>1, <3>3, <4>2
    <3> QED
      BY <1>8, <3>2, <3>3
  <2>3. CASE Waiting(j, i) /\ j = Done + 1
    <3>1. accepted[j] = b /\ st <= i /\ i < Size[b] /\ i \in Nat
      <4>1. j - Done = 1 /\ accepted[j] = b
        BY <1>3, <1>4, <2>3
      <4> QED
        BY <1>5, <2>3, <4>1 DEF Waiting, st
    <3>2. CASE i < st + n
      <4>1. i - st + 1 \in 1 .. n /\ Len(sent) + (i - st + 1) \in 1 .. Len(sent')
            /\ st + (i - st + 1) - 1 = i
        BY <1>0, <1>5, <1>6, <3>1, <3>2
      <4>2. sent'[Len(sent) + (i - st + 1)] = <<b, st + (i - st + 1) - 1>>
        BY <1>2, <4>1
      <4>3. sent'[Len(sent) + (i - st + 1)] = <<accepted[j], i>>
        BY <3>1, <4>1, <4>2
      <4> QED
        BY <4>1, <4>3
    <3>3. CASE ~(i < st + n)
      <4>1. Done' = Done /\ write_list'[1].start <= st + n
        BY <1>3, <1>5, <1>7, <3>1, <3>3
      <4>2. write_list'[1].start \in Int
        <5>1. write_list' \in Seq(Object) /\ 1 \in 1 .. Len(write_list')
          BY <1>0, <1>1, <1>3, <1>7, <4>1, ListType
        <5>2. write_list'[1] \in Object
          BY <5>1
        <5> QED
          BY <5>2 DEF Object
      <4>3. write_list'[1].start <= i /\ j - Done' = 1 /\ j > Done'
        BY <1>3, <1>5, <2>3, <3>1, <3>3, <4>1, <4>2
      <4> QED
        BY <4>3
    <3> QED
      BY <3>2, <3>3
  <2> QED
    BY <2>1, <2>2, <2>3 DEF BytesInv, LossInv
<1> QED
  BY <1>9, <1>11, <1>12, <1>13 DEF BytesInv

LEMMA BytesStep == WriterTypeOK /\ BytesInv /\ [WriterNext]_writervars => BytesInv'
<1> SUFFICES ASSUME WriterTypeOK, BytesInv, [WriterNext]_writervars PROVE BytesInv'
  OBVIOUS
<1>1. ASSUME NEW b \in Buf, EntireWriteWhenEmpty(b) \/ EntireWriteWhenNotEmpty(b)
      PROVE  BytesInv'
  BY <1>1, BytesWhenEmpty, BytesWhenNotEmpty
<1>2. ASSUME WriteFrontObj PROVE BytesInv'
  BY <1>2, BytesFront
<1>3. \/ \E b \in Buf : EntireWriteWhenEmpty(b) \/ EntireWriteWhenNotEmpty(b)
      \/ WriteFrontObj
      \/ UNCHANGED <<write_list, accepted, sent>>
  <2> USE DEF listvars, cvars, hvars, kvars, ovars
  <2>1. Kernel \/ SocketThread => UNCHANGED <<write_list, accepted, sent>>
    BY DEF Kernel, PeerReads, PeerSends, PeerEnds, SocketThread, EpollWait, OnEvent
  <2>2. LingerClose => UNCHANGED <<write_list, accepted, sent>>
    BY DEF LingerClose
  <2>3. Handler => WriteFrontObj \/ UNCHANGED <<write_list, accepted, sent>>
    BY DEF Handler, Arm, ScriptReturns, ReadData, ReadFails, Close, OnSocketWritable,
           Disarm, Shutdown, SendRead, Finish
  <2>4. Take \/ (\E w \in Runner : OnServiceMsg(w)) => UNCHANGED <<write_list, accepted, sent>>
    BY DEF Take, OnRWMsg, OnServiceMsg
  <2>5. UNCHANGED writervars => UNCHANGED <<write_list, accepted, sent>>
    BY DEF writervars
  <2> QED
    BY <2>1, <2>2, <2>3, <2>4, <2>5 DEF WriterNext, Script
<1> QED
  BY <1>1, <1>2, <1>3, BytesQuiet

-----------------------------------------------------------------------------
(* Closing *)

LEMMA LingerInit == WriterInit => LingerInv
BY DEF WriterInit, LingerInv, LingerDone

(* A step that writes nothing, closes nothing and leaves the peer alone.   *)
LEMMA LingerQuiet ==
  ASSUME LingerInv, UNCHANGED <<is_closing, conn, open, shut>>,
         write_list = << >> => write_list' = << >>,
         (peer' = "open" => peer = "open"),
         at' \in {"shutdown", "close"} => at' = at
  PROVE  LingerInv'
BY DEF LingerInv, LingerDone

LEMMA LingerStep == WriterTypeOK /\ LingerInv /\ [WriterNext]_writervars => LingerInv'
<1> SUFFICES ASSUME WriterTypeOK, LingerInv, [WriterNext]_writervars PROVE LingerInv'
  OBVIOUS
<1> USE DEF listvars, cvars, hvars, kvars, ovars, GoOn
<1>1. CASE Kernel \/ SocketThread \/ Take \/ (\E w \in Runner : OnServiceMsg(w)) \/ UNCHANGED writervars
  <2>1. /\ UNCHANGED <<write_list, is_closing, conn, open, shut>>
        /\ peer' = "open" => peer = "open"
        /\ at' \in {"shutdown", "close"} => at' = at
    <3>1. Kernel \/ SocketThread
            => /\ UNCHANGED <<write_list, is_closing, conn, open, shut, at>>
               /\ peer' = "open" => peer = "open"
      BY DEF Kernel, PeerReads, PeerSends, PeerEnds, SocketThread, EpollWait, OnEvent
    <3>2. Take \/ (\E w \in Runner : OnServiceMsg(w))
            => /\ UNCHANGED <<write_list, is_closing, conn, open, shut, peer>>
               /\ at' \in {"rw", "script"}
      BY DEF Take, OnRWMsg, OnServiceMsg
    <3>3. UNCHANGED writervars => UNCHANGED <<write_list, is_closing, conn, open, shut, peer, at>>
      BY DEF writervars
    <3> QED
      BY <1>1, <3>1, <3>2, <3>3
  <2> QED
    BY <2>1, LingerQuiet
<1>2. CASE Script
  (* The script writes only before LingerClose *)
  <2>1. ASSUME NEW b \in Buf, EntireWriteWhenEmpty(b) PROVE LingerInv'
    <3>1. at' \in {"script", "arm"} /\ (peer' = "open" => peer = "open")
      BY <2>1, WhenEmptyDoes DEF EntireWriteWhenEmpty, MayWrite
    <3>2. UNCHANGED <<is_closing, conn, open, shut>> /\ ~is_closing
      BY <2>1 DEF EntireWriteWhenEmpty, MayWrite
    <3> QED
      BY <3>1, <3>2 DEF LingerInv, LingerDone
  <2>2. ASSUME NEW b \in Buf, EntireWriteWhenNotEmpty(b) PROVE LingerInv'
    <3>1. UNCHANGED <<is_closing, conn, open, shut, at, peer>> /\ ~is_closing
      BY <2>2 DEF EntireWriteWhenNotEmpty, MayWrite
    <3> QED
      BY <3>1 DEF LingerInv, LingerDone
  <2>3. CASE LingerClose
    <3>1. /\ at = "script" /\ ~is_closing /\ is_closing' = TRUE
          /\ UNCHANGED <<write_list, at, shut, peer>>
          /\ \/ write_list = << >> /\ conn' = FALSE /\ open' = FALSE
             \/ UNCHANGED <<conn, open>>
      BY <2>3 DEF LingerClose, CloseConn
    <3>2. /\ ~shut /\ (open \/ peer # "open") /\ conn = open
      BY <3>1 DEF LingerInv, LingerDone
    <3>3. CASE write_list = << >> /\ conn' = FALSE /\ open' = FALSE
      <4>1. LingerDone' /\ conn' = open'
        BY <3>1, <3>3 DEF LingerDone
      <4> QED
        BY <3>1, <4>1 DEF LingerInv
    <3>4. CASE UNCHANGED <<conn, open>>
      BY <3>1, <3>2, <3>4 DEF LingerInv
    <3> QED
      BY <3>1, <3>3, <3>4
  <2> QED
    BY <1>2, <2>1, <2>2, <2>3 DEF Script
<1>3. CASE Handler
  <2>1. CASE Arm \/ ScriptReturns \/ ReadData \/ OnSocketWritable \/ SendRead \/ Finish
    <3>1. /\ UNCHANGED <<write_list, is_closing, conn, open, shut, peer>>
          /\ at' \in {"script", "rw", "front", "idle"}
      BY <2>1 DEF Arm, ScriptReturns, ReadData, OnSocketWritable, SendRead, Finish
    <3> QED
      BY <3>1, LingerQuiet
  <2>2. CASE ReadFails
    <3>1. /\ UNCHANGED <<write_list, is_closing, conn, open, shut>>
          /\ (peer' = "open") <=> (peer = "open")
          /\ at' \in {"rw", "close"}
          /\ at' = "close" /\ open /\ peer = "open" => shut
      BY <2>2 DEF ReadFails
    <3> QED
      BY <3>1 DEF LingerInv, LingerDone
  <2>3. CASE Close
    <3>1. /\ UNCHANGED <<write_list, is_closing, shut, peer>> /\ at = "close" /\ at' = "rw"
          /\ \/ conn /\ ~conn' /\ ~open' /\ conn' = open'
             \/ ~conn /\ UNCHANGED <<conn, open>>
      BY <2>3 DEF Close, CloseConn
    <3> QED
      BY <3>1 DEF LingerInv, LingerDone
  <2>4. CASE WriteFrontObj
    <3>1. UNCHANGED <<is_closing, conn, open, shut>> /\ write_list # << >>
      BY <2>4 DEF WriteFrontObj
    <3>2. at' \in {"front", "rw"} /\ (peer' = "open" => peer = "open")
      BY <2>4, FrontDoes
    <3> QED
      BY <3>1, <3>2, LingerQuiet
  <2>5. CASE Disarm
    <3>1. /\ UNCHANGED <<write_list, is_closing, conn, open, shut, peer>>
          /\ write_list = << >> /\ at' \in {"shutdown", "rw"}
          /\ at' = "shutdown" => is_closing
      BY <2>5 DEF Disarm
    <3> QED
      BY <3>1 DEF LingerInv, LingerDone
  <2>6. CASE Shutdown
    <3>1. /\ UNCHANGED <<write_list, is_closing, conn, open, peer>>
          /\ at = "shutdown" /\ at' = "sendread" /\ shut' \in {TRUE, shut}
      BY <2>6 DEF Shutdown
    <3> QED
      BY <3>1 DEF LingerInv, LingerDone
  <2> QED
    BY <1>3, <2>1, <2>2, <2>3, <2>4, <2>5, <2>6 DEF Handler
<1> QED
  BY <1>1, <1>2, <1>3 DEF WriterNext

-----------------------------------------------------------------------------
(* The event that the list waits for *)

LEMMA StuckInit == WriterInit => StuckInv
BY DEF WriterInit, StuckInv, Waits

(* What arms the socket, and what may take an armed object's event away,   *)
(* are few steps; the others leave it on its way.                          *)
Kept ==
  /\ epollout => epollout'
  /\ ready => ready'
  /\ event # Nil /\ event.w => event' # Nil /\ event'.w
  /\ msg.w => msg'.w
  /\ \A i \in 1 .. Len(mailbox) : mailbox[i].w => \E j \in 1 .. Len(mailbox') : mailbox'[j].w
  /\ nospace /\ unsent > 0 => nospace' /\ unsent' > 0

LEMMA StuckKept ==
  ASSUME StuckInv, Kept, UNCHANGED <<write_list, conn>>,
         Gone => peer' \in {"reset", "dead"},
         at' = "idle" => msg' = NoMsg,
         at = "arm" => at' = "arm", at = "front" => at' = "front"
  PROVE  StuckInv'
<1>1. at' = "idle" => msg' = NoMsg
  OBVIOUS
<1>2. ASSUME Waits', at' # "arm" PROVE epollout' /\ (at' = "front" \/ OnItsWay')
  <2>1. Waits /\ at # "arm"
    BY <1>2 DEF Waits, Gone
  <2>2. epollout /\ (at = "front" \/ OnItsWay)
    BY <2>1 DEF StuckInv
  <2>3. OnItsWay => OnItsWay'
    BY DEF OnItsWay, Kept
  <2> QED
    BY <2>2, <2>3 DEF Kept
<1> QED
  BY <1>1, <1>2 DEF StuckInv

LEMMA NoMsgIsNone == ~NoMsg.w
BY DEF NoMsg

LEMMA StuckStep == WriterTypeOK /\ LingerInv /\ StuckInv /\ [WriterNext]_writervars => StuckInv'
<1> SUFFICES ASSUME WriterTypeOK, LingerInv, StuckInv, [WriterNext]_writervars PROVE StuckInv'
  OBVIOUS
<1> USE DEF listvars, cvars, hvars, kvars, ovars, GoOn
<1>0. /\ unsent \in 0 .. SendBuf /\ SendBuf \in Nat \ {0} /\ mailbox \in Seq(Event)
      /\ conn \in BOOLEAN
  BY SizeAssumption DEF WriterTypeOK
<1>1. CASE Kernel
  <2>1. CASE PeerReads
    <3>1. /\ UNCHANGED <<write_list, conn, epollout, peer, at, msg, event, mailbox>>
          /\ ready' = (ready \/ (nospace /\ epollout))
      BY <2>1 DEF PeerReads
    <3>2. at' = "idle" => msg' = NoMsg
      BY <3>1 DEF StuckInv
    <3>3. ASSUME Waits', at' # "arm" PROVE epollout' /\ (at' = "front" \/ OnItsWay')
      <4>1. Waits /\ at # "arm"
        BY <3>1, <3>3 DEF Waits, Gone
      <4>2. epollout /\ (at = "front" \/ OnItsWay)
        BY <4>1 DEF StuckInv
      <4>3. OnItsWay => OnItsWay'
        BY <3>1, <4>2 DEF OnItsWay
      <4> QED
        BY <3>1, <4>2, <4>3
    <3> QED
      BY <3>2, <3>3 DEF StuckInv
  <2>2. CASE PeerSends
    <3>1. /\ UNCHANGED <<write_list, conn, epollout, peer, at, msg, event, mailbox, nospace, unsent>>
          /\ ready'
      BY <2>2 DEF PeerSends
    <3> QED
      BY <3>1, StuckKept DEF Kept, Gone, StuckInv
  <2>3. CASE PeerEnds
    <3>1. /\ UNCHANGED <<write_list, conn, epollout, at, msg, event, mailbox, nospace>>
          /\ ready' /\ (Gone \/ Gone' \/ UNCHANGED unsent) /\ (Gone => Gone')
      BY <2>3 DEF PeerEnds, Gone
    <3> QED
      BY <3>1 DEF StuckInv, Waits, OnItsWay
  <2> QED
    BY <1>1, <2>1, <2>2, <2>3 DEF Kernel
<1>2. CASE SocketThread
  <2>1. CASE EpollWait
    <3> DEFINE mask == [r |-> Readable, w |-> epollout /\ Writable]
    <3>1. /\ UNCHANGED <<write_list, conn, epollout, peer, at, msg, mailbox, unsent>>
          /\ event' = IF mask = NoMsg THEN Nil ELSE mask
          /\ nospace' = (nospace \/ ~Writable) /\ event = Nil
      BY <2>1 DEF EpollWait
    <3>2. at' = "idle" => msg' = NoMsg
      BY <3>1 DEF StuckInv
    <3>3. ASSUME Waits', at' # "arm" PROVE epollout' /\ (at' = "front" \/ OnItsWay')
      <4>1. Waits /\ at # "arm"
        BY <3>1, <3>3 DEF Waits, Gone
      <4>2. epollout
        BY <4>1 DEF StuckInv
      <4>3. CASE Writable
        <5>1. mask.w /\ mask # NoMsg
          BY <4>2, <4>3 DEF NoMsg
        <5>2. mask \in Event
          BY <1>0 DEF Event, Readable, Writable, WriterTypeOK
        <5>3. event' # Nil /\ event'.w
          BY <3>1, <5>1, <5>2, NilAssumption DEF Event
        <5> QED
          BY <3>1, <4>2, <5>3 DEF OnItsWay
      <4>4. CASE ~Writable
        <5>1. nospace'
          BY <3>1, <4>4, Zenon
        <5>2. unsent' > 0
          BY <1>0, <3>1, <4>1, <4>4 DEF Writable, Waits
        <5> QED
          BY <3>1, <4>2, <5>1, <5>2 DEF OnItsWay
      <4> QED
        BY <4>3, <4>4
    <3> QED
      BY <3>2, <3>3 DEF StuckInv
  <2>2. CASE OnEvent
    <3>1. /\ UNCHANGED <<write_list, conn, epollout, peer, at, msg, nospace, unsent, ready>>
          /\ event # Nil /\ event \in Event
          /\ mailbox' = IF conn THEN Append(mailbox, event) ELSE mailbox
      BY <2>2 DEF OnEvent, WriterTypeOK
    <3>2. at' = "idle" => msg' = NoMsg
      BY <3>1 DEF StuckInv
    <3>3. ASSUME Waits', at' # "arm" PROVE epollout' /\ (at' = "front" \/ OnItsWay')
      <4>1. Waits /\ at # "arm" /\ conn
        BY <3>1, <3>3 DEF Waits, Gone
      <4>2. epollout /\ (at = "front" \/ OnItsWay)
        BY <4>1 DEF StuckInv
      <4>3. /\ Len(mailbox') = Len(mailbox) + 1 /\ mailbox'[Len(mailbox) + 1] = event
            /\ \A i \in 1 .. Len(mailbox) : mailbox'[i] = mailbox[i]
            /\ 1 .. Len(mailbox) \subseteq 1 .. Len(mailbox')
            /\ Len(mailbox) + 1 \in 1 .. Len(mailbox')
        BY <1>0, <3>1, <4>1
      <4>4. OnItsWay => OnItsWay'
        BY <3>1, <4>3 DEF OnItsWay
      <4> QED
        BY <3>1, <4>2, <4>4
    <3> QED
      BY <3>2, <3>3 DEF StuckInv
  <2> QED
    BY <1>2, <2>1, <2>2 DEF SocketThread
<1>3. CASE Script
  <2>1. ASSUME NEW b \in Buf, EntireWriteWhenEmpty(b) PROVE StuckInv'
    <3>1. at = "script" /\ (at' = "arm" \/ (at' = at /\ write_list' = << >>))
      BY <2>1, WhenEmptyDoes DEF EntireWriteWhenEmpty, MayWrite
    <3> QED
      BY <3>1 DEF StuckInv, Waits
  <2>2. ASSUME NEW b \in Buf, EntireWriteWhenNotEmpty(b) PROVE StuckInv'
    <3>1. /\ write_list # << >> /\ at = "script"
          /\ UNCHANGED <<conn, epollout, peer, at, msg, event, mailbox, nospace, unsent, ready>>
      BY <2>2 DEF EntireWriteWhenNotEmpty, MayWrite
    <3> QED
      BY <3>1 DEF StuckInv, Waits, Gone, OnItsWay
  <2>3. CASE LingerClose
    <3>1. /\ at = "script" /\ at' = at
          /\ \/ ~conn'
             \/ UNCHANGED <<write_list, conn, epollout, peer, msg, event, mailbox,
                            nospace, unsent, ready>>
      BY <2>3 DEF LingerClose, CloseConn
    <3> QED
      BY <3>1 DEF StuckInv, Waits, Gone, OnItsWay
  <2> QED
    BY <1>3, <2>1, <2>2, <2>3 DEF Script
<1>4. CASE Handler
  <2>1. CASE Arm
    <3>1. /\ UNCHANGED <<write_list, conn, peer, unsent>> /\ at' = "script" /\ epollout'
          /\ (Writable => ready') /\ (~Writable => nospace')
      BY <2>1 DEF Arm, ModifyEvent
    <3>2. ASSUME Waits' PROVE OnItsWay'
      <4>1. ~Writable => unsent' > 0
        BY <1>0, <3>1, <3>2 DEF Writable, Waits, Gone
      <4> QED
        BY <3>1, <4>1 DEF OnItsWay
    <3> QED
      BY <3>1, <3>2 DEF StuckInv
  <2>2. CASE ScriptReturns \/ ReadData \/ ReadFails
    <3>1. /\ UNCHANGED <<write_list, conn, epollout, event, mailbox, nospace, unsent, ready>>
          /\ at \in {"script", "rw"} /\ at' \in {"script", "rw", "close"}
          /\ Gone => peer' \in {"reset", "dead"}
      BY <2>2 DEF ScriptReturns, ReadData, ReadFails, Gone
    <3>2. msg.w => msg'.w
      BY <2>2 DEF ScriptReturns, ReadData, ReadFails, WriterTypeOK, Event
    <3> QED
      BY <3>1, <3>2, StuckKept DEF Kept
  <2>3. CASE Close
    <3>1. /\ at' = "rw" /\ at = "close"
          /\ \/ ~conn'
             \/ UNCHANGED <<write_list, conn, epollout, peer, msg, event, mailbox,
                            nospace, unsent, ready>>
      BY <2>3 DEF Close, CloseConn
    <3> QED
      BY <3>1 DEF StuckInv, Waits, Gone, OnItsWay
  <2>4. CASE OnSocketWritable
    <3>1. /\ UNCHANGED <<write_list, conn, epollout, peer>> /\ at = "rw"
          /\ at' = IF conn THEN "front" ELSE "rw"
      BY <2>4 DEF OnSocketWritable
    <3> QED
      BY <3>1 DEF StuckInv, Waits, Gone
  <2>5. CASE WriteFrontObj
    <3>1. /\ UNCHANGED <<conn, epollout, msg>> /\ write_list # << >> /\ at = "front"
      BY <2>5 DEF WriteFrontObj
    <3>2. \/ at' = "front" /\ peer' = peer
          \/ at' = "rw" /\ nospace' /\ unsent' = SendBuf /\ peer' = peer
          \/ at' = "rw" /\ peer' = "dead"
      BY <2>5, FrontDoes
    <3>3. ASSUME Waits' PROVE epollout' /\ (at' = "front" \/ OnItsWay')
      <4>1. Waits /\ peer' # "dead"
        BY <3>1, <3>2, <3>3 DEF Waits, Gone
      <4>2. epollout
        BY <3>1, <4>1 DEF StuckInv
      <4>3. at' = "rw" => nospace' /\ unsent' > 0
        BY <1>0, <3>2, <4>1
      <4> QED
        BY <3>1, <3>2, <4>2, <4>3 DEF OnItsWay
    <3> QED
      BY <3>2, <3>3 DEF StuckInv
  <2>6. CASE Disarm
    <3>1. write_list' = << >> /\ at' # "idle"
      BY <2>6 DEF Disarm
    <3> QED
      BY <3>1 DEF StuckInv, Waits
  <2>7. CASE Shutdown
    <3>1. /\ UNCHANGED <<write_list, conn, epollout, event, mailbox, nospace, unsent, msg, peer>>
          /\ at = "shutdown" /\ at' = "sendread" /\ (ready => ready')
      BY <2>7 DEF Shutdown
    <3> QED
      BY <3>1, StuckKept DEF Kept, Gone
  <2>8. CASE SendRead
    <3>1. /\ UNCHANGED <<write_list, conn, epollout, event, nospace, unsent, msg, peer, ready>>
          /\ at = "sendread" /\ at' = "rw"
          /\ mailbox' = Append(mailbox, [r |-> TRUE, w |-> FALSE])
      BY <2>8 DEF SendRead
    <3>2. \A i \in 1 .. Len(mailbox) : i \in 1 .. Len(mailbox') /\ mailbox'[i] = mailbox[i]
      BY <1>0, <3>1
    <3> QED
      BY <3>1, <3>2, StuckKept DEF Kept, Gone
  <2>9. CASE Finish
    <3>1. /\ UNCHANGED <<write_list, conn, epollout, event, nospace, unsent, msg, peer, ready, mailbox>>
          /\ at = "rw" /\ msg = NoMsg
      BY <2>9 DEF Finish
    <3> QED
      BY <3>1, StuckKept DEF Kept, Gone
  <2> QED
    BY <1>4, <2>1, <2>2, <2>3, <2>4, <2>5, <2>6, <2>7, <2>8, <2>9 DEF Handler
<1>5. ASSUME NEW w \in Runner, OnRWMsg(w) PROVE StuckInv'
  <2>1. /\ UNCHANGED <<write_list, conn, epollout, event, nospace, unsent, peer, ready>>
        /\ at = "idle" /\ at' = "rw" /\ mailbox # << >>
        /\ msg' = Head(mailbox) /\ mailbox' = Tail(mailbox)
    BY <1>5 DEF OnRWMsg
  <2>2. ASSUME Waits' PROVE epollout' /\ OnItsWay'
    <3>1. Waits
      BY <2>1, <2>2 DEF Waits, Gone
    <3>2. epollout /\ OnItsWay /\ ~msg.w
      BY <2>1, <3>1, NoMsgIsNone DEF StuckInv
    <3>3. ASSUME NEW i \in 1 .. Len(mailbox), mailbox[i].w
          PROVE  msg'.w \/ \E j \in 1 .. Len(mailbox') : mailbox'[j].w
      <4>1. CASE i = 1
        BY <1>0, <2>1, <3>3, <4>1
      <4>2. CASE i # 1
        <5>1. i - 1 \in 1 .. Len(mailbox') /\ mailbox'[i - 1] = mailbox[i]
          BY <1>0, <2>1, <4>2, HeadTailProperties
        <5> QED
          BY <3>3, <5>1
      <4> QED
        BY <4>1, <4>2
    <3> QED
      BY <2>1, <3>2, <3>3 DEF OnItsWay
  <2> QED
    BY <2>1, <2>2 DEF StuckInv
<1>6. ASSUME NEW w \in Runner, OnServiceMsg(w) PROVE StuckInv'
  <2>1. /\ UNCHANGED <<write_list, conn, epollout, event, nospace, unsent, peer, ready, msg, mailbox>>
        /\ at = "idle" /\ at' = "script"
    BY <1>6 DEF OnServiceMsg
  <2> QED
    BY <2>1, StuckKept DEF Kept, Gone
<1>7. CASE UNCHANGED writervars
  <2>1. UNCHANGED <<write_list, conn, epollout, event, nospace, unsent, peer, ready, msg, mailbox, at>>
    BY <1>7 DEF writervars
  <2> QED
    BY <2>1, StuckKept DEF Kept, Gone, StuckInv
<1> QED
  BY <1>1, <1>2, <1>3, <1>4, <1>5, <1>6, <1>7 DEF WriterNext, Take

-----------------------------------------------------------------------------
(* The theorems *)

LEMMA WriterInvariant == WriterSpec => [](WriterTypeOK /\ BytesInv /\ LingerInv /\ StuckInv)
<1>1. WriterInit => WriterTypeOK /\ BytesInv /\ LingerInv /\ StuckInv
  BY TypeInit, BytesInit, LingerInit, StuckInit
<1>2. WriterTypeOK /\ BytesInv /\ LingerInv /\ StuckInv /\ [WriterNext]_writervars
        => WriterTypeOK' /\ BytesInv' /\ LingerInv' /\ StuckInv'
  BY TypeStep, BytesStep, LingerStep, StuckStep
<1> QED
  BY <1>1, <1>2, PTL DEF WriterSpec

(* Every variable keeps its type: an object is dropped before its start    *)
(* reaches its end, and the kernel never holds more than the send buffer.  *)
THEOREM WriterTypeCorrect == WriterSpec => []WriterTypeOK
BY WriterInvariant, PTL

(* The list holds the last of the accepted buffers, the bytes of the       *)
(* others have all been sent, and what an object's start has passed too.   *)
LEMMA BytesInOrder ==
  ASSUME WriterTypeOK, BytesInv PROVE InOrderNoLoss
<1>0. /\ accepted \in Seq(Buf) /\ write_list \in Seq(Object) /\ sent \in Seq(Buf \X Int)
      /\ DOMAIN accepted = 1 .. Len(accepted) /\ DOMAIN sent = 1 .. Len(sent)
      /\ DOMAIN write_list = 1 .. Len(write_list)
      /\ Len(accepted) \in Nat /\ Len(write_list) \in Nat /\ Len(sent) \in Nat
  BY DEF WriterTypeOK
<1>1. ASSUME NEW i \in DOMAIN accepted, NEW j \in DOMAIN accepted,
             NEW k \in DOMAIN sent, NEW l \in DOMAIN sent,
             i < j, sent[k][1] = accepted[j], sent[l][1] = accepted[i]
      PROVE  l < k
  <2>1. ~(k < l)
    <3>1. i \in 1 .. Len(accepted) /\ j \in 1 .. Len(accepted)
          /\ k \in 1 .. Len(sent) /\ l \in 1 .. Len(sent) /\ ~(j <= i)
      BY <1>0, <1>1
    <3> QED
      BY <1>1, <3>1 DEF BytesInv, OrderInv
  <2>2. k # l
    BY <1>0, <1>1 DEF BytesInv, ListInv
  <2> QED
    BY <1>0, <2>1, <2>2
<1>2. ASSUME NEW b \in ToSet(accepted), NEW i \in 0 .. Size[b] - 1
      PROVE  \/ <<b, i>> \in ToSet(sent)
             \/ \E o \in ToSet(write_list) : o.buf = b /\ o.start <= i
  <2>1. PICK j \in 1 .. Len(accepted) : b = accepted[j]
    BY <1>0 DEF ToSet
  <2>2. WasSent(j, i) \/ Waiting(j, i)
    BY <2>1 DEF BytesInv, LossInv
  <2>3. CASE WasSent(j, i)
    BY <1>0, <2>1, <2>3 DEF WasSent, ToSet
  <2>4. CASE Waiting(j, i)
    <3> DEFINE n == j - Done
    <3>1. /\ n \in 1 .. Len(write_list) /\ Done + n = j
      BY <1>0, <2>4 DEF Waiting, Done, BytesInv, ListInv
    <3>2. write_list[n].buf = b
      BY <2>1, <3>1 DEF BytesInv, ListInv
    <3>3. write_list[n].start <= i
      BY <2>4 DEF Waiting
    <3>4. write_list[n] \in ToSet(write_list)
      BY <1>0, <3>1 DEF ToSet
    <3> QED
      BY <3>2, <3>3, <3>4
  <2> QED
    BY <2>2, <2>3, <2>4
<1> QED
  BY <1>1, <1>2 DEF InOrderNoLoss

(* Every byte of an accepted buffer is handed to the kernel, or waits in   *)
(* the list; those of one buffer before those of the next.                 *)
THEOREM WritesInOrder == WriterSpec => []InOrderNoLoss
BY WriterInvariant, BytesInOrder, PTL

(* A socket that is closed while the peer is there owes it nothing: what   *)
(* waited when LingerClose was called is sent first.                       *)
THEOREM LingerCorrect == WriterSpec => []LingerSendsAll
<1>1. ASSUME WriterTypeOK, BytesInv, LingerInv, StuckInv PROVE LingerSendsAll
  <2> SUFFICES ASSUME ~open, peer = "open", NEW b \in ToSet(accepted), NEW i \in 0 .. Size[b] - 1
               PROVE  <<b, i>> \in ToSet(sent)
    BY DEF LingerSendsAll, Bytes
  <2>1. write_list = << >>
    BY <1>1 DEF LingerInv, LingerDone
  <2>2. ToSet(write_list) = {}
    BY <2>1 DEF ToSet
  <2> QED
    BY <1>1, <2>2, BytesInOrder DEF InOrderNoLoss
<1> QED
  BY <1>1, WriterInvariant, PTL

(* When all is at rest and data waits, the socket is armed and the kernel  *)
(* has an edge to report: no order of steps leaves a writer stuck.         *)
THEOREM NeverStuck == WriterSpec => []NoStuckWriter
<1>1. ASSUME WriterTypeOK, StuckInv PROVE NoStuckWriter
  <2> SUFFICES ASSUME write_list # << >>, conn, ~Gone, at = "idle", mailbox = << >>,
                      event = Nil, ~ready
               PROVE  epollout /\ nospace /\ unsent > 0
    BY DEF NoStuckWriter
  <2>1. epollout /\ OnItsWay /\ ~msg.w
    BY <1>1, NoMsgIsNone DEF StuckInv, Waits
  <2> QED
    BY <2>1 DEF OnItsWay
<1> QED
  BY <1>1, WriterInvariant, PTL
=============================================================================
