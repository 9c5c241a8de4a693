------------------------- MODULE SocketServerProofs -------------------------
(***************************************************************************)
(* Proofs about SocketServer, for any number of services, ids, items and   *)
(* places in the pipe.                                                     *)
(***************************************************************************)
EXTENDS SocketServer, FiniteSetTheorems, SequenceTheorems, TLAPS

-----------------------------------------------------------------------------
(* The inductive invariants *)

(* Who knows which id: services are told of an id after it has a socket,   *)
(* and every command but the one that opens it comes from them.            *)
IdsInv ==
  /\ \A id \in told : id <= slot.id
  /\ slot.type \in {"RESERVE", "CONNECTING"} => slot.id \notin told
  /\ \A i \in 1 .. Len(pipe) : pipe[i].cmd # "O" => pipe[i].id \in told
  /\ \A i \in 1 .. Len(pipe) :
       pipe[i].cmd = "O" => slot.type = "RESERVE" /\ slot.id = pipe[i].id
  /\ \A i, j \in 1 .. Len(pipe) : pipe[i].cmd = "O" /\ pipe[j].cmd = "O" => i = j
  /\ \A v \in Sender : api[v] # Idle => api[v].id \in told

TcpInv ==
  /\ slot.tcp => slot.tag = slot.id
  /\ InUse => slot.tcp
  /\ slot.type = "RESERVE" => ~slot.tcp
  /\ slot.type # "INVALID" => slot.id # 0

(* The lists of a socket that is not in use are empty, as they are from    *)
(* force_close on.                                                         *)
EmptyInv ==
  /\ ~InUse => ListsEmpty /\ slot.dw = << >>
  /\ loop.at = "force" => InUse /\ ListsEmpty

(* One service at a time has the lock, and writes to the socket in which   *)
(* it found nothing queued; what is queued since then is queued whole.     *)
Holds(v) == api[v].at \in {"recheck", "recheck2", "write"}
LockInv ==
  /\ \A v \in Sender : Holds(v) => slot.locked
  /\ \A v, w \in Sender : Holds(v) /\ Holds(w) => v = w
  /\ \A v \in Sender : api[v].at \in {"recheck2", "write"} =>
       slot.id = api[v].id /\ slot.dw = << >> /\ (cut \/ Len(slot.high) % 2 = 0)
  /\ \A v \in Sender : Calling(v, "write") => InUse

(* SOCKET_CLOSE is raised when reading ends, or by a force_close before.   *)
CloseInv ==
  /\ closes \in {0, 1}
  /\ slot.type \notin {"HALFCLOSE_READ", "INVALID"} => closes = 0
  /\ loop.at = "force" /\ loop.close => closes = 0

(* Every item is on its way to the socket it was sent to.                  *)
IsFor(s, sentTo, id) == \A i \in 1 .. Len(s) : sentTo[s[i]] = id
SentInv ==
  /\ \A i \in 1 .. Len(pipe) : pipe[i].cmd \in {"D", "P"} => sent[pipe[i].item] = pipe[i].id
  /\ \A v \in Sender : api[v] # Idle => sent[api[v].item] = api[v].id
ForInv ==
  /\ IsFor(wire, sent, slot.id) /\ IsFor(slot.dw, sent, slot.id)
  /\ IsFor(slot.high, sent, slot.id) /\ IsFor(slot.low, sent, slot.id)

(* What is written, what a direct write left and the queues are halves in  *)
(* pairs, until an item is cut.                                            *)
PairPrefix(s) == \A i \in 1 .. Len(s) - 1 : i % 2 = 1 => s[i] = s[i + 1]
Whole(s) == PairPrefix(s) /\ Len(s) % 2 = 0
Ahead == (wire \o slot.dw) \o slot.high
PairInv ==
  /\ slot.type = "RESERVE" => wire = << >>
  /\ cut \/ PairPrefix(wire)
  /\ cut \/ ~InUse \/ (Whole(Ahead) /\ Whole(slot.low))

-----------------------------------------------------------------------------
(* Types *)

LEMMA CommandType ==
  /\ \A id \in Ids : \A c \in {"O", "R", "S", "W", "K", "shutdown"} : Command(c, id) \in Commands
  /\ \A id \in Ids, m \in Item : \A c \in {"D", "P"} : Request(c, id, m) \in Commands
  /\ \A c \in Commands : /\ c.id \in Ids
                         /\ c.cmd \in {"O", "R", "S", "W", "K", "shutdown", "D", "P"}
                         /\ c.cmd \in {"D", "P"} => c.item \in Item
<1>1. \A id \in Ids : \A c \in {"O", "R", "S", "W", "K", "shutdown"} : Command(c, id) \in Commands
  BY DEF Commands
<1>2. \A id \in Ids, m \in Item : \A c \in {"D", "P"} : Request(c, id, m) \in Commands
  BY DEF Commands
<1>3. ASSUME NEW c \in Commands
      PROVE  /\ c.id \in Ids
             /\ c.cmd \in {"O", "R", "S", "W", "K", "shutdown", "D", "P"}
             /\ c.cmd \in {"D", "P"} => c.item \in Item
  <2>1. \/ \E k \in {"O", "R", "S", "W", "K", "shutdown"}, id \in Ids : c = Command(k, id)
        \/ \E k \in {"D", "P"}, id \in Ids, m \in Item : c = Request(k, id, m)
    BY <1>3 DEF Commands
  <2> QED
    BY <2>1 DEF Command, Request
<1> QED
  BY <1>1, <1>2, <1>3

(* A call that goes on at another point. *)
LEMMA GoesType ==
  ASSUME api \in [Sender -> Calls], NEW v \in Sender, api[v] # Idle,
         NEW l \in {"check", "check2", "trylock", "recheck", "recheck2", "write",
                    "trigger", "count", "request"},
         Goes(v, l)
  PROVE  /\ api' \in [Sender -> Calls]
         /\ api'[v].at = l /\ api'[v].id = api[v].id /\ api'[v].item = api[v].item
         /\ api'[v].cmd = api[v].cmd /\ api'[v] # Idle
         /\ api[v].id \in Ids /\ api[v].item \in Item /\ api[v].cmd \in {"D", "P"}
         /\ \A w \in Sender : w # v => api'[w] = api[w]
<1>1. api' = [api EXCEPT ![v] = [api[v] EXCEPT !.at = l]]
  BY DEF Goes
<1>2. /\ api[v].id \in Ids /\ api[v].item \in Item /\ api[v].cmd \in {"D", "P"}
      /\ api[v] = [at |-> api[v].at, id |-> api[v].id, item |-> api[v].item, cmd |-> api[v].cmd]
  BY DEF Calls
<1>3. [api[v] EXCEPT !.at = l] = [at |-> l, id |-> api[v].id, item |-> api[v].item, cmd |-> api[v].cmd]
  BY <1>2
<1>4. [at |-> l, id |-> api[v].id, item |-> api[v].item, cmd |-> api[v].cmd] \in Calls
  BY <1>2 DEF Calls
<1>5. api'[v] = [at |-> l, id |-> api[v].id, item |-> api[v].item, cmd |-> api[v].cmd]
  BY <1>1, <1>3
<1>6. api'[v] # Idle
  BY <1>5 DEF Idle
<1> QED
  BY <1>1, <1>2, <1>3, <1>4, <1>5, <1>6

LEMMA TypeInit == SockInit => SockTypeOK
<1> SUFFICES ASSUME SockInit PROVE SockTypeOK
  OBVIOUS
<1>1. slot \in Slot
  BY BoundsAssumption DEF SockInit, Slot, Types
<1>2. pipe \in Seq(Commands) /\ Len(pipe) <= PipeSize
  BY BoundsAssumption DEF SockInit
<1>3. loop \in Loops /\ api \in [Sender -> Calls]
  BY DEF SockInit, Loops, Calls, Idle
<1>4. told \subseteq Ids /\ sent \in [Item -> 0 .. MaxId] /\ wire \in Seq(Item) /\ owed \subseteq Item
  BY BoundsAssumption DEF SockInit
<1>5. {over, cut, refused} \subseteq BOOLEAN
  BY Zenon DEF SockInit
<1>6. closes \in Nat /\ peer \in {"open", "fin", "error", "gone"} /\ ev = NoEvent
  BY DEF SockInit
<1> QED
  BY <1>1, <1>2, <1>3, <1>4, <1>5, <1>6 DEF SockTypeOK

(* The part of SockTypeOK that a step which leaves the rest alone keeps.   *)
LEMMA TypeServices ==
  ASSUME SockTypeOK, TcpInv, Services PROVE SockTypeOK'
<1> USE BoundsAssumption DEF hist
<1>0. /\ slot \in Slot /\ pipe \in Seq(Commands) /\ Len(pipe) <= PipeSize
      /\ api \in [Sender -> Calls] /\ MaxId \in Nat /\ Idle \in Calls
  BY DEF SockTypeOK, Calls
<1>1. ASSUME NEW c \in Commands, SendRequest(c)
      PROVE  pipe' \in Seq(Commands) /\ Len(pipe') <= PipeSize
  BY <1>0, <1>1 DEF SendRequest
<1>2. CASE SockConnect
  <2>1. slot' = Reserved /\ slot.id < MaxId /\ slot.id \in 0 .. MaxId
    BY <1>0, <1>2 DEF SockConnect, Reservable, Slot
  <2>a. slot.id + 1 \in Ids /\ slot.id + 1 \in 0 .. MaxId
    BY <1>0, <2>1 DEF Ids
  <2>b. slot' \in Slot
    BY <1>0, <2>1, <2>a DEF Reserved, Slot, Types
  <2>2. pipe' \in Seq(Commands) /\ Len(pipe') <= PipeSize
    BY <1>1, <1>2, <2>a, CommandType DEF SockConnect
  <2>3. wire' \in Seq(Item) /\ closes' \in Nat /\ owed' \subseteq Item /\ sent' = sent
    BY <1>2 DEF SockConnect, NewHistory
  <2>4. {over', cut', refused'} \subseteq BOOLEAN
    BY <1>2, Zenon DEF SockConnect, NewHistory
  <2> QED
    BY <1>2, <2>b, <2>2, <2>3, <2>4 DEF SockConnect, SockTypeOK
<1>3. ASSUME NEW id \in Ids, SockStart(id) PROVE SockTypeOK'
  <2>1. pipe' \in Seq(Commands) /\ Len(pipe') <= PipeSize
    BY <1>1, <1>3, CommandType DEF SockStart
  <2> QED
    BY <1>3, <2>1 DEF SockStart, SockTypeOK
<1>4. ASSUME NEW id \in Ids, SockPause(id) PROVE SockTypeOK'
  <2>1. pipe' \in Seq(Commands) /\ Len(pipe') <= PipeSize
    BY <1>1, <1>4, CommandType DEF SockPause
  <2> QED
    BY <1>4, <2>1 DEF SockPause, SockTypeOK
<1>5. ASSUME NEW id \in Ids, NEW how \in {"K", "shutdown"}, SockClose(id, how) PROVE SockTypeOK'
  <2>1. pipe' \in Seq(Commands) /\ Len(pipe') <= PipeSize
    BY <1>1, <1>5, CommandType DEF SockClose
  <2> QED
    BY <1>5, <2>1 DEF SockClose, SockTypeOK
<1>6. ASSUME NEW id \in Ids, NEW v \in Sender, NEW m \in Item, NEW low \in BOOLEAN,
             SockSend(v, id, m, low)
      PROVE  SockTypeOK'
  <2>1. [at |-> IF low THEN "count" ELSE "check", id |-> id, item |-> m,
         cmd |-> IF low THEN "P" ELSE "D"] \in Calls
    BY DEF Calls
  <2>2. api' \in [Sender -> Calls] /\ sent' \in [Item -> 0 .. MaxId]
    BY <1>0, <1>6, <2>1 DEF SockSend, SockTypeOK, Ids
  <2> QED
    BY <1>6, <2>2 DEF SockSend, SockTypeOK
<1>7. ASSUME NEW v \in Sender, CheckQueues(v) \/ CheckSending(v) PROVE SockTypeOK'
  <2>1. api[v] # Idle /\ \E l \in {"check2", "trylock", "count"} : Goes(v, l)
    BY <1>7 DEF CheckQueues, CheckSending, Calling, Idle
  <2>2. api' \in [Sender -> Calls]
    BY <1>0, <2>1, GoesType
  <2> QED
    BY <1>7, <2>2 DEF CheckQueues, CheckSending, SockTypeOK
<1>8. ASSUME NEW v \in Sender, TryLock(v) \/ RecheckQueues(v) \/ RecheckSending(v) PROVE SockTypeOK'
  <2>1. api[v] # Idle /\ \E l \in {"recheck", "recheck2", "write", "count"} : Goes(v, l)
    BY <1>8 DEF TryLock, RecheckQueues, RecheckSending, Calling, Idle
  <2>2. api' \in [Sender -> Calls]
    BY <1>0, <2>1, GoesType
  <2>3. \E b \in BOOLEAN : slot' = [slot EXCEPT !.locked = b]
    BY <1>8 DEF TryLock, RecheckQueues, RecheckSending, QueuesSeenEmpty, SeenConnected, ListsEmpty
  <2>4. slot' \in Slot
    BY <1>0, <2>3 DEF Slot
  <2> QED
    BY <1>8, <2>2, <2>4 DEF TryLock, RecheckQueues, RecheckSending, SockTypeOK
<1>9. ASSUME NEW v \in Sender, NEW n \in 0 .. 2, DirectWrite(v, n) PROVE SockTypeOK'
  <2>1. api[v] # Idle /\ api[v].item \in Item
    BY <1>0, <1>9 DEF DirectWrite, Calling, Idle, Calls
  <2>2. Halves(api[v].item, n) \in Seq(Item) /\ Halves(api[v].item, 2 - n) \in Seq(Item)
    BY <2>1 DEF Halves
  <2>3. slot' \in Slot
    BY <1>0, <1>9, <2>2 DEF DirectWrite, Slot
  <2>4. wire' \in Seq(Item) /\ peer' \in {"open", "fin", "error", "gone"}
    BY <1>9, <2>2 DEF DirectWrite, SockTypeOK
  <2>5. api' \in [Sender -> Calls] /\ owed' \subseteq Item
    <3>1. CASE n = 2
      BY <1>0, <1>9, <2>1, <3>1 DEF DirectWrite, Taken, SockTypeOK
    <3>2. CASE n # 2
      <4>1. Goes(v, "trigger") /\ owed' = owed
        BY <1>9, <3>2 DEF DirectWrite
      <4> QED
        BY <1>0, <2>1, <4>1, GoesType DEF SockTypeOK
    <3> QED
      BY <3>1, <3>2
  <2> QED
    BY <1>9, <2>3, <2>4, <2>5 DEF DirectWrite, SockTypeOK
<1>10. ASSUME NEW v \in Sender, TriggerWrite(v) \/ RequestSend(v) PROVE SockTypeOK'
  <2>1. api[v] # Idle /\ api[v].item \in Item /\ api[v].id \in Ids /\ api[v].cmd \in {"D", "P"}
    BY <1>0, <1>10 DEF TriggerWrite, RequestSend, Calling, Idle, Calls
  <2>2. pipe' \in Seq(Commands) /\ Len(pipe') <= PipeSize
    BY <1>1, <1>10, <2>1, CommandType DEF TriggerWrite, RequestSend
  <2>3. api' \in [Sender -> Calls] /\ owed' \subseteq Item
    BY <1>0, <1>10, <2>1 DEF TriggerWrite, RequestSend, Taken, SockTypeOK
  <2> QED
    BY <1>10, <2>2, <2>3 DEF TriggerWrite, RequestSend, SockTypeOK
<1>11. ASSUME NEW v \in Sender, IncSendingRef(v) PROVE SockTypeOK'
  <2>1. api[v] # Idle /\ Goes(v, "request")
    BY <1>11 DEF IncSendingRef, Calling, Idle
  <2>2. api' \in [Sender -> Calls]
    BY <1>0, <2>1, GoesType
  <2>3. slot' \in Slot
    <3>1. slot' = [slot EXCEPT !.count = slot.count] \/ slot' = [slot EXCEPT !.count = slot.count + 1]
      BY <1>11 DEF IncSendingRef
    <3>2. slot.count \in Nat /\ slot.count + 1 \in Nat
      BY <1>0 DEF Slot
    <3>3. \A k \in Nat : [slot EXCEPT !.count = k] \in Slot
      BY <1>0 DEF Slot
    <3> QED
      BY <3>1, <3>2, <3>3
  <2> QED
    BY <1>11, <2>2, <2>3 DEF IncSendingRef, SockTypeOK
<1> QED
  BY <1>2, <1>3, <1>4, <1>5, <1>6, <1>7, <1>8, <1>9, <1>10, <1>11 DEF Services

-----------------------------------------------------------------------------
(* The count of requests *)

Sending(c, id) == c.cmd \in {"D", "P"} /\ c.id = id
Places(s, id) == {i \in DOMAIN s : Sending(s[i], id)}
Asking(v, id) == Calling(v, "request") /\ api[v].id = id
Asks(id) == {v \in Sender : Asking(v, id)}

LEMMA CountsMeans ==
  SendingCounts <=> (slot.tcp => slot.count = Cardinality(Places(pipe, slot.id))
                                                + Cardinality(Asks(slot.id)))
BY DEF SendingCounts, Places, Sending, Asks, Asking

LEMMA CountsMeansNext ==
  SendingCounts' <=> (slot'.tcp => slot'.count = Cardinality(Places(pipe, slot.id)')
                                                   + Cardinality(Asks(slot.id)'))
BY DEF SendingCounts, Places, Sending, Asks, Asking

LEMMA PlacesFinite ==
  ASSUME NEW s \in Seq(Commands), NEW id
  PROVE  IsFiniteSet(Places(s, id)) /\ Cardinality(Places(s, id)) \in Nat
<1>1. IsFiniteSet(1 .. Len(s)) /\ Places(s, id) \in SUBSET (1 .. Len(s))
  BY FS_Interval DEF Places
<1> QED
  BY <1>1, FS_Subset, FS_CardinalityType

LEMMA AsksFinite == \A id : IsFiniteSet(Asks(id)) /\ Cardinality(Asks(id)) \in Nat
<1>1. \A id : Asks(id) \in SUBSET Sender
  BY DEF Asks
<1> QED
  BY <1>1, SenderAssumption, FS_Subset, FS_CardinalityType

LEMMA PlacesAppend ==
  ASSUME NEW s \in Seq(Commands), NEW c \in Commands, NEW id
  PROVE  Cardinality(Places(Append(s, c), id))
           = Cardinality(Places(s, id)) + IF Sending(c, id) THEN 1 ELSE 0
<1>0. DOMAIN Append(s, c) = 1 .. Len(s) + 1 /\ DOMAIN s = 1 .. Len(s) /\ Len(s) \in Nat
  BY AppendProperties, LenProperties
<1>1. /\ \A i \in 1 .. Len(s) : Append(s, c)[i] = s[i]
      /\ Append(s, c)[Len(s) + 1] = c
  BY AppendProperties
<1>a. Len(s) + 1 \notin Places(s, id)
  BY <1>0 DEF Places
<1>2. IsFiniteSet(Places(s, id)) /\ Cardinality(Places(s, id)) \in Nat
  BY PlacesFinite
<1>3. CASE Sending(c, id)
  <2>1. Places(Append(s, c), id) = Places(s, id) \cup {Len(s) + 1}
    BY <1>0, <1>1, <1>3 DEF Places
  <2> QED
    BY <1>a, <1>2, <1>3, <2>1, FS_AddElement
<1>4. CASE ~Sending(c, id)
  <2>1. Places(Append(s, c), id) = Places(s, id)
    BY <1>0, <1>1, <1>4 DEF Places
  <2> QED
    BY <1>2, <1>4, <2>1
<1> QED
  BY <1>3, <1>4

LEMMA PlacesTail ==
  ASSUME NEW s \in Seq(Commands), s # << >>, NEW id
  PROVE  Cardinality(Places(Tail(s), id))
           = Cardinality(Places(s, id)) - IF Sending(Head(s), id) THEN 1 ELSE 0
<1>0. /\ DOMAIN Tail(s) = 1 .. Len(s) - 1 /\ DOMAIN s = 1 .. Len(s) /\ Len(s) \in Nat \ {0}
      /\ Tail(s) \in Seq(Commands) /\ Head(s) = s[1]
      /\ \A i \in 1 .. Len(s) - 1 : Tail(s)[i] = s[i + 1]
  BY HeadTailProperties, LenProperties, EmptySeq
<1> DEFINE f == [i \in Places(Tail(s), id) |-> i + 1]
<1>1. \A i \in Places(Tail(s), id) : i + 1 \in Places(s, id) \ {1}
  BY <1>0 DEF Places
<1>2. \A i \in Places(s, id) \ {1} : i - 1 \in Places(Tail(s), id) /\ (i - 1) + 1 = i
  BY <1>0 DEF Places
<1>3. \A i \in Places(Tail(s), id) : i \in Nat
  BY <1>0 DEF Places
<1>4. f \in Bijection(Places(Tail(s), id), Places(s, id) \ {1})
  <2>1. f \in [Places(Tail(s), id) -> Places(s, id) \ {1}]
    BY <1>1
  <2>2. \A a, b \in Places(Tail(s), id) : f[a] = f[b] => a = b
    BY <1>3
  <2>3. \A t \in Places(s, id) \ {1} : \E a \in Places(Tail(s), id) : f[a] = t
    BY <1>2
  <2> HIDE DEF f
  <2> QED
    BY <2>1, <2>2, <2>3 DEF Bijection, Injection, Surjection, IsInjective
<1>5. ExistsBijection(Places(Tail(s), id), Places(s, id) \ {1})
  BY <1>4 DEF ExistsBijection
<1>6. IsFiniteSet(Places(s, id)) /\ IsFiniteSet(Places(Tail(s), id)) /\ Cardinality(Places(s, id)) \in Nat
  BY <1>0, PlacesFinite
<1>7. Cardinality(Places(Tail(s), id)) = Cardinality(Places(s, id) \ {1})
  BY <1>5, <1>6, FS_Bijection
<1>8. (1 \in Places(s, id)) <=> Sending(Head(s), id)
  BY <1>0 DEF Places
<1>9. Cardinality(Places(s, id) \ {1}) =
        IF 1 \in Places(s, id) THEN Cardinality(Places(s, id)) - 1 ELSE Cardinality(Places(s, id))
  BY <1>6, FS_RemoveElement
<1> QED
  BY <1>9, <1>6, <1>7, <1>8, FS_RemoveElement

(* A send that the socket thread takes from the pipe was counted.          *)
LEMMA CountedHead ==
  ASSUME SockTypeOK, SendingCounts, slot.tcp, pipe # << >>, Sending(Head(pipe), slot.id)
  PROVE  slot.count \in Nat /\ slot.count - 1 \in Nat
<1>1. pipe \in Seq(Commands) /\ Head(pipe) = pipe[1] /\ 1 \in DOMAIN pipe
  BY EmptySeq, LenProperties DEF SockTypeOK
<1>2. 1 \in Places(pipe, slot.id) /\ IsFiniteSet(Places(pipe, slot.id))
  BY <1>1, PlacesFinite DEF Places
<1>3. Cardinality(Places(pipe, slot.id)) \in Nat \ {0}
  BY <1>1, <1>2, FS_EmptySet, PlacesFinite
<1>4. Cardinality(Asks(slot.id)) \in Nat
  BY AsksFinite
<1> QED
  BY <1>3, <1>4, CountsMeans

(* What the services and the socket thread do with the pipe.               *)
PipeQuiet ==
  \/ pipe' = pipe
  \/ \E c \in Commands : c.cmd \notin {"D", "P"} /\ pipe' = Append(pipe, c)
  \/ pipe # << >> /\ Head(pipe).cmd \notin {"D", "P"} /\ pipe' = Tail(pipe)

LEMMA CountQuiet ==
  ASSUME SockTypeOK, SendingCounts, PipeQuiet,
         slot'.id = slot.id, slot'.tcp = slot.tcp, slot'.count = slot.count,
         \A v \in Sender : (api'[v].at = "request" /\ api'[v].id = slot.id) <=> Asking(v, slot.id)
  PROVE  SendingCounts'
<1>1. pipe \in Seq(Commands)
  BY DEF SockTypeOK
<1>2. Cardinality(Places(pipe', slot.id)) = Cardinality(Places(pipe, slot.id))
  <2>1. CASE pipe' = pipe
    BY <2>1
  <2>2. ASSUME NEW c \in Commands, c.cmd \notin {"D", "P"}, pipe' = Append(pipe, c)
        PROVE  Cardinality(Places(pipe', slot.id)) = Cardinality(Places(pipe, slot.id))
    BY <1>1, <2>2, PlacesAppend, PlacesFinite DEF Sending
  <2>3. CASE pipe # << >> /\ Head(pipe).cmd \notin {"D", "P"} /\ pipe' = Tail(pipe)
    BY <1>1, <2>3, PlacesTail, PlacesFinite DEF Sending
  <2> QED
    BY <2>1, <2>2, <2>3 DEF PipeQuiet
<1>3. {v \in Sender : api'[v].at = "request" /\ api'[v].id = slot.id} = Asks(slot.id)
  BY DEF Asks
<1>4. slot.tcp => slot.count = Cardinality(Places(pipe, slot.id)) + Cardinality(Asks(slot.id))
  BY CountsMeans
<1>5. Asks(slot.id)' = {v \in Sender : api'[v].at = "request" /\ api'[v].id = slot'.id}
  BY DEF Asks, Asking, Calling
<1>6. Places(pipe, slot.id)' = Places(pipe', slot'.id)
  OBVIOUS
<1>7. slot'.tcp => slot'.count = Cardinality(Places(pipe, slot.id)') + Cardinality(Asks(slot.id)')
  BY <1>2, <1>3, <1>4, <1>5, <1>6
<1> QED
  BY <1>7, CountsMeansNext

-----------------------------------------------------------------------------
(* Who knows which id *)

LEMMA PipeAppend ==
  ASSUME SockTypeOK, NEW c \in Commands, pipe' = Append(pipe, c)
  PROVE  /\ Len(pipe') = Len(pipe) + 1 /\ Len(pipe) \in Nat
         /\ \A i \in 1 .. Len(pipe') : \/ i \in 1 .. Len(pipe) /\ pipe'[i] = pipe[i]
                                       \/ i = Len(pipe) + 1 /\ pipe'[i] = c
<1>1. pipe \in Seq(Commands) /\ Len(pipe) \in Nat
  BY LenProperties DEF SockTypeOK
<1>2. /\ Len(pipe') = Len(pipe) + 1
      /\ \A i \in 1 .. Len(pipe) : pipe'[i] = pipe[i]
      /\ pipe'[Len(pipe) + 1] = c
  BY <1>1, AppendProperties
<1> QED
  BY <1>1, <1>2

LEMMA PipeTail ==
  ASSUME SockTypeOK, pipe # << >>, pipe' = Tail(pipe)
  PROVE  /\ pipe' \in Seq(Commands) /\ Len(pipe') = Len(pipe) - 1 /\ Len(pipe) \in Nat \ {0}
         /\ Head(pipe) = pipe[1] /\ 1 \in 1 .. Len(pipe) /\ Head(pipe) \in Commands
         /\ \A i \in 1 .. Len(pipe') : i + 1 \in 1 .. Len(pipe) /\ i + 1 # 1 /\ pipe'[i] = pipe[i + 1]
<1>1. pipe \in Seq(Commands) /\ Len(pipe) \in Nat \ {0}
  BY EmptySeq DEF SockTypeOK
<1>2. /\ pipe' \in Seq(Commands) /\ Len(pipe') = Len(pipe) - 1 /\ Head(pipe) \in Commands
      /\ \A i \in 1 .. Len(pipe') : pipe'[i] = pipe[i + 1]
  BY <1>1, HeadTailProperties
<1> QED
  BY <1>1, <1>2

(* The pipe is left alone, or takes a request for an id that is known, or  *)
(* gives its first.                                                        *)
PipeTold ==
  \/ pipe' = pipe
  \/ \E c \in Commands : c.cmd # "O" /\ c.id \in told' /\ pipe' = Append(pipe, c)
  \/ pipe # << >> /\ pipe' = Tail(pipe)

LEMMA IdsKept ==
  ASSUME SockTypeOK, IdsInv, slot'.id = slot.id,
         \/ told' = told
         \/ told' = told \cup {slot.id} /\ slot'.type \notin {"RESERVE", "CONNECTING"},
         slot'.type \in {"RESERVE", "CONNECTING"} => slot'.type = slot.type,
         slot.type = "RESERVE" => slot'.type = "RESERVE",
         PipeTold,
         \A v \in Sender : api'[v] # Idle => api'[v].id \in told'
  PROVE  IdsInv'
<1>0. slot.id \in Nat /\ told \subseteq told'
  BY BoundsAssumption DEF SockTypeOK, Slot
<1>1. \A id \in told' : id <= slot'.id
  BY <1>0 DEF IdsInv
<1>2. slot'.type \in {"RESERVE", "CONNECTING"} => slot'.id \notin told'
  BY DEF IdsInv
<1>3. \A i \in 1 .. Len(pipe') :
        \/ \E j \in 1 .. Len(pipe) : pipe'[i] = pipe[j]
        \/ pipe'[i].cmd # "O" /\ pipe'[i].id \in told'
  BY PipeAppend, PipeTail DEF PipeTold
<1>4. \A i \in 1 .. Len(pipe') : pipe'[i].cmd # "O" => pipe'[i].id \in told'
  BY <1>0, <1>3 DEF IdsInv
<1>5. \A i \in 1 .. Len(pipe') :
        pipe'[i].cmd = "O" => slot'.type = "RESERVE" /\ slot'.id = pipe'[i].id
  BY <1>3 DEF IdsInv
<1>6. ASSUME NEW i \in 1 .. Len(pipe'), NEW j \in 1 .. Len(pipe'),
             pipe'[i].cmd = "O", pipe'[j].cmd = "O"
      PROVE  i = j
  <2>1. CASE pipe' = pipe
    BY <1>6, <2>1 DEF IdsInv
  <2>2. ASSUME NEW c \in Commands, c.cmd # "O", pipe' = Append(pipe, c)
        PROVE  i = j
    <3>1. /\ i \in 1 .. Len(pipe) /\ pipe[i].cmd = "O"
          /\ j \in 1 .. Len(pipe) /\ pipe[j].cmd = "O"
      BY <1>6, <2>2, PipeAppend
    <3> QED
      BY <3>1 DEF IdsInv
  <2>3. CASE pipe # << >> /\ pipe' = Tail(pipe)
    <3>1. /\ i + 1 \in 1 .. Len(pipe) /\ pipe[i + 1].cmd = "O"
          /\ j + 1 \in 1 .. Len(pipe) /\ pipe[j + 1].cmd = "O"
      BY <1>6, <2>3, PipeTail
    <3>2. i + 1 = j + 1
      BY <3>1 DEF IdsInv
    <3> QED
      BY <3>2
  <2> QED
    BY <2>1, <2>2, <2>3 DEF PipeTold
<1> QED
  BY <1>1, <1>2, <1>4, <1>5, <1>6 DEF IdsInv

LEMMA IdsServices ==
  ASSUME SockTypeOK, IdsInv, TcpInv, Services PROVE IdsInv'
<1> USE DEF hist
<1>0. /\ slot \in Slot /\ api \in [Sender -> Calls] /\ told \subseteq Ids
      /\ \A v \in Sender : api[v] # Idle => api[v].id \in told
  BY DEF SockTypeOK, IdsInv
<1>1. CASE SockConnect
  <2>0. /\ Command("O", slot.id + 1) \in Commands /\ pipe' = Append(pipe, Command("O", slot.id + 1))
        /\ slot.id \in Nat /\ told' = told /\ api' = api
        /\ slot'.type = "RESERVE" /\ slot'.id = slot.id + 1 /\ slot.type = "INVALID"
    <3>1. slot.id + 1 \in Ids /\ slot.id \in Nat
      BY <1>0, <1>1, BoundsAssumption DEF SockConnect, Reservable, Slot, Ids
    <3> QED
      BY <1>0, <1>1, <3>1, CommandType DEF SockConnect, Reserved, Reservable, SendRequest, Slot
  <2>a. \A id \in told : id \in Nat /\ id <= slot.id
    <3>1. \A id \in Ids : id \in Nat
      BY DEF Ids
    <3>2. \A id \in told : id <= slot.id
      BY DEF IdsInv
    <3> QED
      BY <1>0, <3>1, <3>2, Zenon
  <2>b. \A id \in told : id <= slot.id + 1 /\ id # slot.id + 1
    BY <2>0, <2>a
  <2>1. \A id \in told' : id <= slot'.id
    BY <2>0, <2>b
  <2>2. slot'.id \notin told'
    BY <2>0, <2>b
  <2>3. \A i \in 1 .. Len(pipe) : pipe[i].cmd # "O"
    BY <2>0 DEF IdsInv
  <2>4. Command("O", slot.id + 1).cmd = "O" /\ Command("O", slot.id + 1).id = slot'.id
    BY <2>0 DEF Command
  <2>5. \A i \in 1 .. Len(pipe') :
          \/ i \in 1 .. Len(pipe) /\ pipe'[i] = pipe[i]
          \/ i = Len(pipe) + 1 /\ pipe'[i].cmd = "O" /\ pipe'[i].id = slot'.id
    BY <2>0, <2>4, PipeAppend
  <2>6. \A i \in 1 .. Len(pipe') : pipe'[i].cmd # "O" => pipe'[i].id \in told'
    BY <2>0, <2>5 DEF IdsInv
  <2>7. /\ \A i \in 1 .. Len(pipe') : pipe'[i].cmd = "O" => i = Len(pipe) + 1 /\ pipe'[i].id = slot'.id
        /\ \A v \in Sender : api'[v] # Idle => api'[v].id \in told'
    BY <1>0, <2>0, <2>3, <2>5
  <2> QED
    BY <2>0, <2>1, <2>2, <2>6, <2>7 DEF IdsInv
<1>2. ASSUME NEW id \in Ids, SockStart(id) PROVE IdsInv'
  <2>1. Command("R", id) \in Commands /\ Command("R", id).cmd # "O" /\ Command("R", id).id = id
    BY CommandType DEF Command
  <2>2. PipeTold
    BY <1>2, <2>1 DEF SockStart, SendRequest, PipeTold
  <2>3. \/ told' = told
        \/ told' = told \cup {slot.id} /\ slot'.type \notin {"RESERVE", "CONNECTING"}
    BY <1>2 DEF SockStart
  <2>4. slot' = slot /\ api' = api
    BY <1>2 DEF SockStart
  <2> QED
    BY <1>0, <2>2, <2>3, <2>4, IdsKept
<1>3. ASSUME NEW id \in Ids, SockPause(id) PROVE IdsInv'
  <2>1. Command("S", id) \in Commands /\ Command("S", id).cmd # "O" /\ Command("S", id).id = id
    BY CommandType DEF Command
  <2>2. PipeTold
    BY <1>3, <2>1 DEF SockPause, SendRequest, PipeTold
  <2>3. slot' = slot /\ api' = api /\ told' = told
    BY <1>3 DEF SockPause
  <2> QED
    BY <1>0, <2>2, <2>3, IdsKept
<1>4. ASSUME NEW id \in Ids, NEW how \in {"K", "shutdown"}, SockClose(id, how) PROVE IdsInv'
  <2>1. Command(how, id) \in Commands /\ Command(how, id).cmd # "O" /\ Command(how, id).id = id
    BY CommandType DEF Command
  <2>2. PipeTold
    BY <1>4, <2>1 DEF SockClose, SendRequest, PipeTold
  <2>3. slot' = slot /\ api' = api /\ told' = told
    BY <1>4 DEF SockClose
  <2> QED
    BY <1>0, <2>2, <2>3, IdsKept
<1>5. ASSUME NEW id \in Ids, NEW v \in Sender, NEW m \in Item, NEW low \in BOOLEAN,
             SockSend(v, id, m, low)
      PROVE  IdsInv'
  <2>1. slot' = slot /\ told' = told /\ pipe' = pipe /\ api'[v].id = id /\ id \in told
        /\ \A w \in Sender : w # v => api'[w] = api[w]
    BY <1>0, <1>5 DEF SockSend
  <2>2. \A w \in Sender : api'[w] # Idle => api'[w].id \in told'
    BY <1>0, <2>1
  <2> QED
    BY <1>0, <2>1, <2>2, IdsKept DEF PipeTold
<1>6. ASSUME NEW v \in Sender,
             \/ CheckQueues(v) \/ CheckSending(v) \/ TryLock(v) \/ RecheckQueues(v)
             \/ RecheckSending(v) \/ IncSendingRef(v)
      PROVE  IdsInv'
  <2>1. /\ api[v] # Idle /\ told' = told /\ pipe' = pipe
        /\ slot'.id = slot.id /\ slot'.type = slot.type
        /\ \E l \in {"check2", "trylock", "recheck", "recheck2", "write", "count", "request"} : Goes(v, l)
    BY <1>0, <1>6 DEF CheckQueues, CheckSending, TryLock, RecheckQueues, RecheckSending,
          IncSendingRef, Calling, Idle, Slot
  <2>2. \A w \in Sender : api'[w] # Idle => api'[w].id \in told'
    BY <1>0, <2>1, GoesType
  <2> QED
    BY <1>0, <2>1, <2>2, IdsKept DEF PipeTold
<1>7. ASSUME NEW v \in Sender, NEW n \in 0 .. 2, DirectWrite(v, n) PROVE IdsInv'
  <2>1. /\ api[v] # Idle /\ told' = told /\ pipe' = pipe
        /\ slot'.id = slot.id /\ slot'.type = slot.type
        /\ Goes(v, "trigger") \/ Taken(v)
    BY <1>0, <1>7 DEF DirectWrite, Calling, Idle, Slot
  <2>2. \A w \in Sender : api'[w] # Idle => api'[w].id \in told'
    BY <1>0, <2>1, GoesType DEF Taken
  <2> QED
    BY <1>0, <2>1, <2>2, IdsKept DEF PipeTold
<1>8. ASSUME NEW v \in Sender, TriggerWrite(v) \/ RequestSend(v) PROVE IdsInv'
  <2>1. /\ api[v] # Idle /\ api[v].id \in Ids /\ api[v].item \in Item /\ api[v].cmd \in {"D", "P"}
    BY <1>0, <1>8 DEF TriggerWrite, RequestSend, Calling, Calls, Idle
  <2>2. \E c \in Commands : c.cmd # "O" /\ c.id = api[v].id /\ pipe' = Append(pipe, c)
    <3>1. /\ Command("W", api[v].id) \in Commands
          /\ Command("W", api[v].id).cmd # "O" /\ Command("W", api[v].id).id = api[v].id
      BY <2>1, CommandType DEF Command
    <3>2. /\ Request(api[v].cmd, api[v].id, api[v].item) \in Commands
          /\ Request(api[v].cmd, api[v].id, api[v].item).cmd # "O"
          /\ Request(api[v].cmd, api[v].id, api[v].item).id = api[v].id
      BY <2>1, CommandType DEF Request
    <3> QED
      BY <1>8, <3>1, <3>2 DEF TriggerWrite, RequestSend, SendRequest
  <2>3. slot' = slot /\ told' = told /\ Taken(v)
    BY <1>8 DEF TriggerWrite, RequestSend
  <2>4. PipeTold /\ \A w \in Sender : api'[w] # Idle => api'[w].id \in told'
    BY <1>0, <2>1, <2>2, <2>3 DEF PipeTold, Taken
  <2> QED
    BY <1>0, <2>3, <2>4, IdsKept
<1> QED
  BY <1>1, <1>2, <1>3, <1>4, <1>5, <1>6, <1>7, <1>8 DEF Services

(* What a command says of the slot it is for.                              *)
LEMMA HeadKnown ==
  ASSUME SockTypeOK, IdsInv, NEW c, NEW id, Handle(c, id)
  PROVE  /\ pipe # << >> /\ pipe' = Tail(pipe) /\ loop.at = "ctrl"
         /\ Head(pipe) \in Commands /\ Head(pipe) = pipe[1] /\ 1 \in 1 .. Len(pipe)
         /\ Head(pipe).cmd = c /\ Head(pipe).id = id
         /\ c # "O" => id \in told /\ (slot.type \in {"RESERVE", "CONNECTING"} => slot.id # id)
         /\ c = "O" => slot.type = "RESERVE" /\ slot.id = id
<1>1. pipe # << >> /\ pipe' = Tail(pipe) /\ loop.at = "ctrl" /\ Head(pipe).cmd = c /\ Head(pipe).id = id
  BY DEF Handle
<1>2. Head(pipe) \in Commands /\ Head(pipe) = pipe[1] /\ 1 \in 1 .. Len(pipe)
  BY <1>1, PipeTail
<1> QED
  BY <1>1, <1>2 DEF IdsInv

LEMMA IdsThread ==
  ASSUME SockTypeOK, IdsInv, EmptyInv, SockThread PROVE IdsInv'
<1> USE DEF hist
<1>0. /\ slot \in Slot /\ slot.id \in 0 .. MaxId /\ MaxId \in Nat /\ told \subseteq Ids
      /\ \A v \in Sender : api[v] # Idle => api[v].id \in told
  BY BoundsAssumption DEF SockTypeOK, IdsInv, Slot
<1>1. ASSUME pipe' = pipe, api' = api, slot'.id = slot.id,
             \/ told' = told
             \/ told' = told \cup {slot.id} /\ slot'.type \notin {"RESERVE", "CONNECTING"},
             slot'.type \in {"RESERVE", "CONNECTING"} => slot'.type = slot.type,
             slot.type = "RESERVE" => slot'.type = "RESERVE"
      PROVE  IdsInv'
  BY <1>0, <1>1, IdsKept DEF PipeTold
<1>2. CASE \/ \E writable \in BOOLEAN : SpWait(writable)
           \/ NoCommand \/ RecvError \/ SendBlocked \/ ReportError
  BY <1>1, <1>2 DEF SpWait, NoCommand, RecvError, SendBlocked, ReportError
<1>3. CASE ReportAccept
  <2>1. /\ slot' .type = "PACCEPT" /\ slot'.id = slot.id + 1 /\ slot.type = "INVALID"
        /\ pipe' = pipe /\ told' = told /\ api' = api
    BY <1>0, <1>3 DEF ReportAccept, NewFd, Reserved, Reservable, Slot
  <2> QED
    BY <1>0, <2>1 DEF IdsInv, Ids
<1>4. CASE ReportConnect
  <2>1. InUse /\ slot.type = "CONNECTING" /\ pipe' = pipe /\ api' = api
    BY <1>4 DEF ReportConnect, OnSlotEvent
  <2>2. CASE ForceClose(FALSE) /\ told' = told
    BY <1>0, <1>1, <2>1, <2>2 DEF ForceClose, Slot
  <2>3. CASE slot' = [slot EXCEPT !.type = "CONNECTED", !.writing = @ /\ ~NomoreSendingData]
             /\ told' = told \cup {slot.id}
    BY <1>0, <1>1, <2>1, <2>3 DEF Slot
  <2> QED
    BY <1>4, <2>2, <2>3 DEF ReportConnect
<1>5. CASE RecvZero \/ SendError \/ Eof
  <2>1. /\ InUse /\ slot.type # "CONNECTING" /\ pipe' = pipe /\ api' = api /\ told' = told
    BY <1>5 DEF RecvZero, SendError, Eof, ReadNext, WriteNext, OnSlotEvent
  <2>2. slot'.id = slot.id /\ slot'.type \in {slot.type, "HALFCLOSE_READ", "HALFCLOSE_WRITE"}
    BY <1>0, <1>5 DEF RecvZero, SendError, Eof, ForceClose, CloseRead, Slot
  <2> QED
    BY <1>1, <2>1, <2>2 DEF InUse
<1>6. CASE ForceClosed
  BY <1>0, <1>1, <1>6 DEF ForceClosed, EmptyInv, InUse, Slot
<1>7. ASSUME NEW n, SendBuffer(n) PROVE IdsInv'
  <2>1. slot'.id = slot.id /\ slot'.type = slot.type
    BY <1>0, <1>7 DEF SendBuffer, Slot
  <2> QED
    BY <1>1, <1>7, <2>1 DEF SendBuffer
<1>8. ASSUME NEW id \in Ids, OpenSocket(id) PROVE IdsInv'
  <2>1. /\ Handle("O", id) /\ slot.type = "RESERVE" /\ slot.id = id /\ pipe[1].cmd = "O"
        /\ pipe # << >> /\ pipe' = Tail(pipe) /\ 1 \in 1 .. Len(pipe) /\ api' = api
    BY <1>8, HeadKnown DEF OpenSocket
  <2>2. /\ slot'.id = slot.id
        /\ \/ told' = told /\ slot'.type \in {"INVALID", "CONNECTING"}
           \/ told' = told \cup {id} /\ slot'.type = "CONNECTED"
    BY <1>0, <1>8 DEF OpenSocket, NewFd, Slot
  <2>3. \A i \in 1 .. Len(pipe') :
          /\ i + 1 \in 1 .. Len(pipe) /\ i + 1 # 1 /\ pipe'[i] = pipe[i + 1]
    BY <2>1, PipeTail
  <2>4. \A i \in 1 .. Len(pipe') : pipe'[i].cmd # "O" /\ pipe'[i].id \in told
    BY <2>1, <2>3 DEF IdsInv
  <2>5. slot.id \notin told
    BY <2>1 DEF IdsInv
  <2>6. /\ \A i \in told' : i <= slot'.id
        /\ \A v \in Sender : api'[v] # Idle => api'[v].id \in told'
    BY <1>0, <2>1, <2>2 DEF IdsInv
  <2> QED
    BY <2>2, <2>4, <2>5, <2>6 DEF IdsInv
<1>9. ASSUME NEW id \in Ids, ResumeSocket(id) \/ PauseSocket(id) \/ EnableWrite(id) PROVE IdsInv'
  <2>1. /\ \E c \in {"R", "S", "W"} : Handle(c, id)
        /\ api' = api /\ told' = told
        /\ slot'.id = slot.id
        /\ slot'.type = slot.type \/ (slot.type = "PACCEPT" /\ slot'.type = "CONNECTED")
    BY <1>0, <1>9 DEF ResumeSocket, PauseSocket, EnableWrite, Slot
  <2> QED
    BY <1>0, <2>1, HeadKnown, IdsKept DEF PipeTold
<1>10. ASSUME NEW id \in Ids, NEW how \in {"K", "shutdown"}, CloseSocket(id, how) PROVE IdsInv'
  <2>1. Handle(how, id) /\ how # "O" /\ api' = api /\ told' = told
    BY <1>10 DEF CloseSocket
  <2>2. /\ slot'.id = slot.id
        /\ slot'.type = slot.type \/ (slot.id = id /\ slot'.type = "HALFCLOSE_READ")
    BY <1>0, <1>10 DEF CloseSocket, ForceClose, CloseRead, SocketInvalid, Slot
  <2> QED
    BY <1>0, <2>1, <2>2, HeadKnown, IdsKept DEF PipeTold
<1>11. ASSUME NEW id \in Ids, NEW c \in {"D", "P"}, SendSocket(c, id) PROVE IdsInv'
  <2>1. /\ Handle(c, id) /\ api' = api /\ told' = told
        /\ slot'.id = slot.id /\ slot'.type = slot.type
    BY <1>0, <1>11 DEF SendSocket, Uncounted, Slot
  <2> QED
    BY <1>0, <2>1, HeadKnown, IdsKept DEF PipeTold
<1> QED
  BY <1>2, <1>3, <1>4, <1>5, <1>6, <1>7, <1>8, <1>9, <1>10, <1>11 DEF SockThread

LEMMA TcpStep ==
  ASSUME SockTypeOK, IdsInv, TcpInv, EmptyInv, SockNext PROVE TcpInv'
<1> USE DEF hist
<1>0. slot \in Slot
  BY DEF SockTypeOK
<1>a. slot.id \in Nat /\ slot.id + 1 # 0
  BY <1>0, BoundsAssumption DEF Slot
<1>1. ASSUME slot'.tcp = slot.tcp, slot'.tag = slot.tag, slot'.id = slot.id,
             \/ slot'.type = slot.type \/ slot'.type = "INVALID"
             \/ slot'.type \notin {"INVALID", "RESERVE"} /\ InUse
      PROVE  TcpInv'
  BY <1>1 DEF TcpInv, InUse
<1>2. CASE Services
  <2>1. CASE SockConnect
    BY <1>0, <1>a, <2>1 DEF SockConnect, Reserved, TcpInv, InUse, Slot
  <2>2. CASE ~SockConnect
    <3>1. slot'.tcp = slot.tcp /\ slot'.tag = slot.tag /\ slot'.id = slot.id /\ slot'.type = slot.type
      BY <1>0, <1>2, <2>2 DEF Services, SockStart, SockPause, SockClose, SockSend, CheckQueues,
         CheckSending, TryLock, RecheckQueues, RecheckSending, DirectWrite, TriggerWrite,
         IncSendingRef, RequestSend, Slot
    <3> QED
      BY <1>1, <3>1
  <2> QED
    BY <2>1, <2>2
<1>3. CASE SockThread
  <2>1. CASE ReportAccept
    BY <1>0, <1>a, <2>1 DEF ReportAccept, NewFd, Reserved, TcpInv, InUse, Slot
  <2>2. ASSUME NEW id \in Ids, OpenSocket(id) PROVE TcpInv'
    <3>1. slot.type = "RESERVE" /\ ~slot.tcp
      BY <2>2, HeadKnown DEF OpenSocket, TcpInv
    <3>2. \/ slot' = [slot EXCEPT !.type = "INVALID"]
          \/ NewFd(slot, "CONNECTED", TRUE, FALSE)
          \/ NewFd(slot, "CONNECTING", TRUE, TRUE)
      BY <2>2 DEF OpenSocket
    <3>3. \/ slot'.type = "INVALID" /\ slot'.tcp = slot.tcp
          \/ /\ slot'.type \in {"CONNECTED", "CONNECTING"}
             /\ slot'.tcp /\ slot'.tag = slot.id /\ slot'.id = slot.id
      BY <1>0, <3>2 DEF NewFd, Slot
    <3> QED
      BY <3>1, <3>3 DEF TcpInv, InUse
  <2>3. CASE \/ \E writable \in BOOLEAN : SpWait(writable)
             \/ NoCommand \/ RecvError \/ SendBlocked \/ ReportError
             \/ \E n \in 0 .. 2 * Cardinality(Item) : SendBuffer(n)
             \/ ForceClosed
    BY <1>0, <1>1, <2>3 DEF SpWait, NoCommand, RecvError, SendBlocked, ReportError, SendBuffer,
       ForceClosed, Slot
  <2>4. CASE ReportConnect \/ RecvZero \/ SendError \/ Eof
    <3>1. /\ slot'.tcp = slot.tcp /\ slot'.tag = slot.tag /\ slot'.id = slot.id /\ InUse
          /\ slot'.type \in {slot.type, "HALFCLOSE_READ", "HALFCLOSE_WRITE", "CONNECTED"}
      BY <1>0, <2>4 DEF ReportConnect, RecvZero, SendError, Eof, ReadNext, WriteNext, OnSlotEvent,
         ForceClose, CloseRead, Slot
    <3> QED
      BY <1>1, <3>1
  <2>5. ASSUME NEW id \in Ids, ResumeSocket(id) \/ PauseSocket(id) \/ EnableWrite(id) PROVE TcpInv'
    <3>1. /\ slot'.tcp = slot.tcp /\ slot'.tag = slot.tag /\ slot'.id = slot.id
          /\ slot'.type = slot.type \/ (slot.type = "PACCEPT" /\ slot'.type = "CONNECTED")
      BY <1>0, <2>5 DEF ResumeSocket, PauseSocket, EnableWrite, Slot
    <3> QED
      BY <1>1, <3>1 DEF InUse
  <2>6. ASSUME NEW id \in Ids, NEW how \in {"K", "shutdown"}, CloseSocket(id, how) PROVE TcpInv'
    <3>1. /\ Handle(how, id) /\ how # "O"
          /\ slot'.tcp = slot.tcp /\ slot'.tag = slot.tag /\ slot'.id = slot.id
          /\ \/ slot'.type = slot.type
             \/ slot.type # "INVALID" /\ slot.id = id /\ slot'.type = "HALFCLOSE_READ"
      BY <1>0, <2>6 DEF CloseSocket, ForceClose, CloseRead, SocketInvalid, Slot
    <3> QED
      BY <1>1, <3>1, HeadKnown DEF InUse
  <2>7. ASSUME NEW id \in Ids, NEW c \in {"D", "P"}, SendSocket(c, id) PROVE TcpInv'
    <3>1. slot'.tcp = slot.tcp /\ slot'.tag = slot.tag /\ slot'.id = slot.id /\ slot'.type = slot.type
      BY <1>0, <2>7 DEF SendSocket, Uncounted, Slot
    <3> QED
      BY <1>1, <3>1
  <2> QED
    BY <1>3, <2>1, <2>2, <2>3, <2>4, <2>5, <2>6, <2>7 DEF SockThread
<1>4. ASSUME NEW how, PeerEnds(how) PROVE TcpInv'
  BY <1>1, <1>4 DEF PeerEnds
<1> QED
  BY <1>2, <1>3, <1>4 DEF SockNext

(* What the helpers of the socket thread do.                               *)
LEMMA ForceCloseDoes ==
  ASSUME slot \in Slot, NEW close, ForceClose(close)
  PROVE  /\ loop'.at = "force" /\ loop'.close = close /\ loop'.back \in {"ctrl", "wait"}
         /\ loop' = [at |-> "force", close |-> close, back |-> loop'.back]
         /\ slot'.high = << >> /\ slot'.low = << >> /\ cut' = (cut \/ Len(slot.high) % 2 = 1)
         /\ slot'.type = slot.type /\ slot'.id = slot.id /\ slot'.tcp = slot.tcp
         /\ slot'.closing = slot.closing /\ slot'.writing = slot.writing /\ slot'.tag = slot.tag
         /\ slot'.count = slot.count /\ slot'.dw = slot.dw /\ slot'.locked = slot.locked
         /\ slot'.reading = slot.reading /\ slot' \in Slot
<1>1. slot' = [slot EXCEPT !.high = << >>, !.low = << >>]
  BY DEF ForceClose
<1>2. slot' \in Slot
  <2>1. << >> \in Seq(Item)
    BY EmptySeq
  <2> QED
    BY <1>1, <2>1 DEF Slot
<1> QED
  BY <1>1, <1>2 DEF ForceClose, Slot

LEMMA CloseReadDoes ==
  ASSUME NEW s \in Slot, CloseRead(s)
  PROVE  /\ slot'.type = "HALFCLOSE_READ" /\ closes' = closes + 1
         /\ slot'.id = s.id /\ slot'.tcp = s.tcp /\ slot'.closing = s.closing
         /\ slot'.writing = s.writing /\ slot'.tag = s.tag /\ slot'.count = s.count
         /\ slot'.high = s.high /\ slot'.low = s.low /\ slot'.dw = s.dw /\ slot'.locked = s.locked
         /\ slot' \in Slot
<1>1. slot' = [s EXCEPT !.type = "HALFCLOSE_READ", !.reading = FALSE]
  BY DEF CloseRead
<1>2. slot' \in Slot
  BY <1>1 DEF Slot, Types
<1> QED
  BY <1>1, <1>2 DEF CloseRead, Slot

LEMMA ConsumedDoes == Consumed => loop'.at = "wait" /\ loop' = [at |-> "wait"] /\ ev' = NoEvent
BY DEF Consumed

LEMMA EmptyStep ==
  ASSUME SockTypeOK, IdsInv, EmptyInv, LockInv, SockNext PROVE EmptyInv'
<1> USE DEF hist
<1>0. slot \in Slot /\ slot.high \in Seq(Item) /\ slot.low \in Seq(Item)
  BY DEF SockTypeOK, Slot
<1>1. ASSUME loop' = loop, InUse => slot'.type \notin {"INVALID", "RESERVE"},
             slot'.high = slot.high, slot'.low = slot.low, InUse \/ slot'.dw = slot.dw
      PROVE  EmptyInv'
  BY <1>1 DEF EmptyInv, InUse, ListsEmpty
<1>2. CASE Services
  <2>1. CASE SockConnect
    BY <1>0, <1>1, <2>1 DEF SockConnect, Reservable, Reserved, InUse, Slot
  <2>2. ASSUME NEW v \in Sender, NEW n \in 0 .. 2, DirectWrite(v, n) PROVE EmptyInv'
    <3>1. InUse
      BY <2>2 DEF DirectWrite, LockInv
    <3> QED
      BY <1>0, <1>1, <2>2, <3>1 DEF DirectWrite, InUse, Slot
  <2>3. CASE ~SockConnect /\ ~(\E v \in Sender : \E n \in 0 .. 2 : DirectWrite(v, n))
    <3>1. /\ slot'.high = slot.high /\ slot'.low = slot.low /\ slot'.dw = slot.dw
          /\ slot'.type = slot.type /\ loop' = loop
      BY <1>0, <1>2, <2>3 DEF Services, SockStart, SockPause, SockClose, SockSend, CheckQueues,
         CheckSending, TryLock, RecheckQueues, RecheckSending, TriggerWrite,
         IncSendingRef, RequestSend, Slot
    <3> QED
      BY <1>1, <3>1 DEF InUse
  <2> QED
    BY <2>1, <2>2, <2>3
<1>3. CASE SockThread
  <2>1. CASE ReportAccept
    BY <1>0, <2>1 DEF ReportAccept, Reservable, NewFd, Reserved, EmptyInv, InUse, ListsEmpty, Slot
  <2>2. ASSUME NEW id \in Ids, OpenSocket(id) PROVE EmptyInv'
    <3>1. slot.type = "RESERVE" /\ loop' = loop /\ loop.at = "ctrl"
      BY <2>2, HeadKnown DEF OpenSocket
    <3>2. \/ slot' = [slot EXCEPT !.type = "INVALID"]
          \/ NewFd(slot, "CONNECTED", TRUE, FALSE)
          \/ NewFd(slot, "CONNECTING", TRUE, TRUE)
      BY <2>2 DEF OpenSocket
    <3>3. slot'.high = slot.high /\ slot'.low = slot.low /\ slot'.dw \in {slot.dw, << >>}
      BY <1>0, <3>2 DEF NewFd, Slot
    <3> QED
      BY <3>1, <3>3 DEF EmptyInv, InUse, ListsEmpty
  <2>3. CASE \/ \E writable \in BOOLEAN : SpWait(writable)
             \/ NoCommand \/ RecvError \/ SendBlocked \/ ReportError
    BY <2>3 DEF SpWait, NoCommand, RecvError, SendBlocked, ReportError, Consumed, EmptyInv, InUse, ListsEmpty
  <2>4. CASE ForceClosed
    BY <1>0, <2>4 DEF ForceClosed, EmptyInv, InUse, ListsEmpty, Loops, SockTypeOK, Slot
  <2>5. CASE ReportConnect \/ RecvZero \/ SendError \/ Eof
    <3>1. /\ InUse /\ slot'.type \notin {"INVALID", "RESERVE"}
          /\ loop'.at = "force" => slot'.high = << >> /\ slot'.low = << >>
      <4>1. InUse /\ loop.at = "event"
        BY <2>5 DEF ReportConnect, RecvZero, SendError, Eof, ReadNext, WriteNext, OnSlotEvent
      <4>2. CASE ReportConnect
        BY <1>0, <4>1, <4>2, ForceCloseDoes, ConsumedDoes DEF ReportConnect, InUse, Slot
      <4>3. CASE RecvZero
        BY <1>0, <4>1, <4>3, ForceCloseDoes, ConsumedDoes, CloseReadDoes DEF RecvZero, InUse
      <4>4. CASE SendError
        BY <1>0, <4>1, <4>4, ForceCloseDoes, ConsumedDoes DEF SendError, InUse, Slot
      <4>5. CASE Eof
        BY <1>0, <4>1, <4>5, ForceCloseDoes DEF Eof, InUse
      <4> QED
        BY <2>5, <4>2, <4>3, <4>4, <4>5
    <3> QED
      BY <3>1 DEF EmptyInv, InUse, ListsEmpty
  <2>6. ASSUME NEW n, SendBuffer(n) PROVE EmptyInv'
    <3>1. /\ InUse /\ slot'.type = slot.type
          /\ loop'.at = "force" => slot'.high = << >> /\ slot'.low = << >>
      BY <1>0, <2>6, ConsumedDoes DEF SendBuffer, WriteNext, OnSlotEvent, Slot
    <3> QED
      BY <3>1 DEF EmptyInv, InUse, ListsEmpty
  <2>7. ASSUME NEW id \in Ids, ResumeSocket(id) \/ PauseSocket(id) \/ EnableWrite(id) PROVE EmptyInv'
    <3>1. /\ loop' = loop /\ slot'.high = slot.high /\ slot'.low = slot.low /\ slot'.dw = slot.dw
          /\ slot'.type = slot.type \/ (slot.type = "PACCEPT" /\ slot'.type = "CONNECTED")
      BY <1>0, <2>7 DEF ResumeSocket, PauseSocket, EnableWrite, Slot
    <3> QED
      BY <1>1, <3>1 DEF InUse
  <2>8. ASSUME NEW id \in Ids, NEW how \in {"K", "shutdown"}, CloseSocket(id, how) PROVE EmptyInv'
    <3>1. /\ Handle(how, id) /\ how # "O"
          /\ \/ slot' = slot /\ loop' = loop
             \/ /\ slot.type # "INVALID" /\ slot.id = id
                /\ slot'.type \in {slot.type, "HALFCLOSE_READ"}
                /\ loop'.at = "force" => loop' = loop \/ (slot'.high = << >> /\ slot'.low = << >>)
      BY <1>0, <2>8 DEF CloseSocket, ForceClose, CloseRead, SocketInvalid, Slot
    <3>2. loop.at = "ctrl" /\ (slot.id = id => slot.type # "RESERVE")
      BY <3>1, HeadKnown
    <3> QED
      BY <3>1, <3>2 DEF EmptyInv, InUse, ListsEmpty
  <2>9. ASSUME NEW id \in Ids, NEW c \in {"D", "P"}, SendSocket(c, id) PROVE EmptyInv'
    <3>1. /\ Handle(c, id) /\ loop' = loop
          /\ slot'.type = slot.type /\ slot'.dw = slot.dw
          /\ \/ slot'.high = slot.high /\ slot'.low = slot.low
             \/ slot.type # "INVALID" /\ slot.id = id
      BY <1>0, <2>9 DEF SendSocket, SendRefused, SocketInvalid, Uncounted, Slot
    <3>2. loop.at = "ctrl" /\ (slot.id = id => slot.type # "RESERVE")
      BY <3>1, HeadKnown
    <3> QED
      BY <3>1, <3>2 DEF EmptyInv, InUse, ListsEmpty
  <2> QED
    BY <1>3, <2>1, <2>2, <2>3, <2>4, <2>5, <2>6, <2>7, <2>8, <2>9 DEF SockThread
<1>4. ASSUME NEW how, PeerEnds(how) PROVE EmptyInv'
  BY <1>1, <1>4 DEF PeerEnds, InUse
<1> QED
  BY <1>2, <1>3, <1>4 DEF SockNext

LEMMA CloseStep ==
  ASSUME SockTypeOK, IdsInv, CloseInv, SockNext PROVE CloseInv'
<1> USE DEF hist
<1>0. slot \in Slot /\ loop \in Loops
  BY DEF SockTypeOK
<1>1. ASSUME closes' = closes, slot'.type = slot.type \/ closes = 0,
             loop' = loop \/ loop'.at # "force" \/ ~loop'.close
      PROVE  CloseInv'
  BY <1>1 DEF CloseInv
<1>2. CASE Services
  <2>1. CASE SockConnect
    <3>1. closes' = 0
      BY <2>1 DEF SockConnect, NewHistory
    <3> QED
      BY <3>1 DEF CloseInv
  <2>2. CASE ~SockConnect
    <3>1. slot'.type = slot.type /\ loop' = loop /\ closes' = closes
      BY <1>0, <1>2, <2>2 DEF Services, SockStart, SockPause, SockClose, SockSend, CheckQueues,
         CheckSending, TryLock, RecheckQueues, RecheckSending, DirectWrite, TriggerWrite,
         IncSendingRef, RequestSend, Slot
    <3> QED
      BY <1>1, <3>1
  <2> QED
    BY <2>1, <2>2
<1>3. CASE SockThread
  <2>1. CASE ReportAccept
    <3>1. closes' = 0
      BY <2>1 DEF ReportAccept, NewHistory
    <3> QED
      BY <3>1 DEF CloseInv
  <2>2. CASE \/ \E writable \in BOOLEAN : SpWait(writable)
             \/ NoCommand \/ RecvError \/ SendBlocked \/ ReportError
    BY <1>1, <2>2 DEF SpWait, NoCommand, RecvError, SendBlocked, ReportError, Consumed
  <2>3. CASE ForceClosed
    <3>1. slot'.type = "INVALID" /\ loop'.at \in {"ctrl", "wait"}
      BY <1>0, <2>3 DEF ForceClosed, Slot, Loops
    <3> QED
      BY <2>3, <3>1 DEF ForceClosed, CloseInv
  <2>4. CASE ReportConnect
    <3>1. slot.type = "CONNECTING" /\ closes = 0 /\ closes' = closes
      BY <2>4 DEF ReportConnect, OnSlotEvent, CloseInv
    <3> QED
      BY <1>0, <1>1, <2>4, <3>1, ForceCloseDoes, ConsumedDoes DEF ReportConnect
  <2>5. CASE RecvZero \/ SendError \/ Eof
    <3>0. slot.type # "INVALID" /\ loop.at = "event"
      BY <2>5 DEF RecvZero, SendError, Eof, ReadNext, WriteNext, OnSlotEvent, InUse
    <3>1. \/ closes' = closes /\ slot'.type = slot.type /\ (loop'.at = "force" => ~loop'.close)
          \/ closes' = closes /\ slot'.type = slot.type /\ slot.type # "HALFCLOSE_READ"
          \/ closes' = closes + 1 /\ slot.type # "HALFCLOSE_READ"
                /\ slot'.type = "HALFCLOSE_READ" /\ loop'.at # "force"
          \/ closes' = closes /\ slot.type # "HALFCLOSE_READ" /\ loop'.at # "force"
      <4>1. CASE RecvZero
        BY <1>0, <3>0, <4>1, ForceCloseDoes, CloseReadDoes, ConsumedDoes DEF RecvZero, HalfcloseRead
      <4>2. CASE SendError
        BY <1>0, <3>0, <4>2, ForceCloseDoes, ConsumedDoes DEF SendError, HalfcloseRead, Slot
      <4>3. CASE Eof
        BY <1>0, <3>0, <4>3, ForceCloseDoes DEF Eof, HalfcloseRead
      <4> QED
        BY <2>5, <4>1, <4>2, <4>3
    <3> QED
      BY <3>0, <3>1 DEF CloseInv
  <2>6. ASSUME NEW n, SendBuffer(n) PROVE CloseInv'
    <3>1. slot'.type = slot.type /\ closes' = closes /\ (loop'.at = "force" => ~loop'.close)
      <4>1. slot'.type = slot.type /\ closes' = closes
        BY <1>0, <2>6 DEF SendBuffer, Slot
      <4>2. loop' = [at |-> "force", back |-> "wait", close |-> FALSE] \/ loop'.at = "wait"
        BY <2>6, ConsumedDoes DEF SendBuffer
      <4>3. loop'.at = "wait" \/ ~loop'.close
        BY <4>2
      <4> QED
        BY <4>1, <4>3
    <3> QED
      BY <1>1, <3>1
  <2>7. ASSUME NEW id \in Ids, OpenSocket(id) PROVE CloseInv'
    <3>1. slot.type = "RESERVE" /\ loop' = loop /\ closes' = closes
      BY <2>7, HeadKnown DEF OpenSocket
    <3> QED
      BY <1>1, <3>1 DEF CloseInv
  <2>8. ASSUME NEW id \in Ids, ResumeSocket(id) \/ PauseSocket(id) \/ EnableWrite(id) PROVE CloseInv'
    <3>1. /\ loop' = loop /\ closes' = closes
          /\ slot'.type = slot.type \/ slot.type = "PACCEPT"
      BY <1>0, <2>8 DEF ResumeSocket, PauseSocket, EnableWrite, Slot
    <3> QED
      BY <1>1, <3>1 DEF CloseInv
  <2>9. ASSUME NEW id \in Ids, NEW how \in {"K", "shutdown"}, CloseSocket(id, how) PROVE CloseInv'
    <3>0. loop.at = "ctrl"
      BY <2>9 DEF CloseSocket, Handle
    <3>1. \/ slot'.type = slot.type /\ closes' = closes /\ loop' = loop
          \/ /\ slot.type # "INVALID" /\ slot'.type = slot.type /\ closes' = closes
             /\ loop'.close => slot.type # "HALFCLOSE_READ"
          \/ /\ slot.type \notin {"INVALID", "HALFCLOSE_READ"} /\ slot'.type = "HALFCLOSE_READ"
             /\ closes' = closes + 1 /\ loop' = loop
      <4>1. CASE ForceClose(~HalfcloseRead) /\ ~SocketInvalid(id) /\ closes' = closes
        BY <1>0, <4>1, ForceCloseDoes DEF SocketInvalid, HalfcloseRead
      <4>2. CASE /\ ~SocketInvalid(id) /\ loop' = loop
                 /\ IF HalfcloseRead THEN /\ slot' = [slot EXCEPT !.closing = TRUE]
                                          /\ UNCHANGED closes
                    ELSE CloseRead([slot EXCEPT !.closing = TRUE])
        <5>1. [slot EXCEPT !.closing = TRUE] \in Slot
          BY <1>0 DEF Slot
        <5> QED
          BY <1>0, <4>2, <5>1, CloseReadDoes DEF SocketInvalid, HalfcloseRead, Slot
      <4>3. CASE slot' = slot /\ loop' = loop /\ closes' = closes
        BY <4>3
      <4> QED
        BY <2>9, <4>1, <4>2, <4>3 DEF CloseSocket
    <3> QED
      BY <3>0, <3>1 DEF CloseInv
  <2>10. ASSUME NEW id \in Ids, NEW c \in {"D", "P"}, SendSocket(c, id) PROVE CloseInv'
    <3>1. slot'.type = slot.type /\ closes' = closes /\ loop' = loop
      BY <1>0, <2>10 DEF SendSocket, Uncounted, Slot
    <3> QED
      BY <1>1, <3>1
  <2> QED
    BY <1>3, <2>1, <2>2, <2>3, <2>4, <2>5, <2>6, <2>7, <2>8, <2>9, <2>10 DEF SockThread
<1>4. ASSUME NEW how, PeerEnds(how) PROVE CloseInv'
  BY <1>1, <1>4 DEF PeerEnds
<1> QED
  BY <1>2, <1>3, <1>4 DEF SockNext

LEMMA EvenSum ==
  /\ \A n \in Nat : (n + 2) % 2 = n % 2
  /\ \A n \in Nat : n % 2 \in {0, 1}
  /\ \A n, k \in Nat : n % 2 = 0 => (n + k) % 2 = k % 2
  /\ \A n, k \in Nat : k % 2 = 0 => (n + k) % 2 = n % 2
<1>1. \A n \in Nat : (n + 2) % 2 = n % 2
  OBVIOUS
<1>2. \A n \in Nat : n % 2 \in {0, 1}
  OBVIOUS
<1>3. \A n, k \in Nat : n % 2 = 0 => (n + k) % 2 = k % 2
  OBVIOUS
<1>4. \A n, k \in Nat : k % 2 = 0 => (n + k) % 2 = n % 2
  OBVIOUS
<1> QED
  BY <1>1, <1>2, <1>3, <1>4

(* Who has the lock keeps it, and finds nothing but whole items added.     *)
LEMMA LockKept ==
  ASSUME LockInv, \A v \in Sender : api'[v] = api[v] \/ ~Holds(v)',
         slot'.locked = slot.locked, slot'.id = slot.id, slot'.dw \in {slot.dw, << >>},
         InUse => slot'.type \notin {"INVALID", "RESERVE"},
         cut => cut', cut' \/ (Len(slot.high) % 2 = 0 => Len(slot'.high) % 2 = 0)
  PROVE  LockInv'
<1>1. \A v \in Sender : Holds(v)' => api'[v] = api[v] /\ Holds(v)
  BY DEF Holds
<1>2. \A v \in Sender : api'[v].at \in {"recheck2", "write"} =>
        slot'.id = api'[v].id /\ slot'.dw = << >> /\ (cut' \/ Len(slot'.high) % 2 = 0)
  <2> SUFFICES ASSUME NEW v \in Sender, api'[v].at \in {"recheck2", "write"}
               PROVE  slot'.id = api'[v].id /\ slot'.dw = << >> /\ (cut' \/ Len(slot'.high) % 2 = 0)
    OBVIOUS
  <2>1. api'[v] = api[v]
    BY <1>1 DEF Holds
  <2>2. slot.id = api[v].id /\ slot.dw = << >>
    BY <2>1 DEF LockInv
  <2>3. cut \/ Len(slot.high) % 2 = 0
    BY <2>1 DEF LockInv
  <2>4. cut' \/ Len(slot'.high) % 2 = 0
    BY <2>3, Zenon
  <2> QED
    BY <2>1, <2>2, <2>4
<1>3. \A v \in Sender : Calling(v, "write")' => InUse'
  BY <1>1 DEF LockInv, Holds, Calling, InUse
<1>4. /\ \A v \in Sender : Holds(v)' => slot'.locked
      /\ \A v, w \in Sender : Holds(v)' /\ Holds(w)' => v = w
  BY <1>1 DEF LockInv
<1> QED
  BY <1>2, <1>3, <1>4 DEF LockInv

LEMMA LockNone ==
  ASSUME \A v \in Sender : ~Holds(v)' PROVE LockInv'
BY DEF LockInv, Holds, Calling

LEMMA LockOne ==
  ASSUME NEW v \in Sender, \A w \in Sender : w # v => ~Holds(w)',
         Holds(v)' => slot'.locked,
         api'[v].at \in {"recheck2", "write"} =>
           slot'.id = api'[v].id /\ slot'.dw = << >> /\ (cut' \/ Len(slot'.high) % 2 = 0),
         api'[v].at = "write" => slot'.type \notin {"INVALID", "RESERVE"}
  PROVE  LockInv'
<1>1. \A w \in Sender : Holds(w)' => w = v
  OBVIOUS
<1>2. \A w \in Sender : api'[w].at \in {"recheck2", "write"} => w = v
  BY <1>1 DEF Holds
<1>3. \A w \in Sender : Calling(w, "write")' => InUse'
  BY <1>2 DEF Calling, InUse
<1>4. \A w \in Sender : api'[w].at \in {"recheck2", "write"} =>
        slot'.id = api'[w].id /\ slot'.dw = << >> /\ (cut' \/ Len(slot'.high) % 2 = 0)
  BY <1>2
<1> QED
  BY <1>1, <1>3, <1>4 DEF LockInv

LEMMA LockServices ==
  ASSUME SockTypeOK, LockInv, Services PROVE LockInv'
<1> USE DEF hist
<1>0. slot \in Slot /\ api \in [Sender -> Calls] /\ Len(slot.high) = Len(slot.high)
  BY DEF SockTypeOK
<1>1. CASE SockConnect
  <2>1. \A v \in Sender : ~Holds(v)'
    BY <1>1 DEF SockConnect, Reservable, Checking, Holds
  <2> QED
    BY <2>1, LockNone
<1>2. CASE \E id \in Ids : SockStart(id) \/ SockPause(id)
                             \/ \E how \in {"K", "shutdown"} : SockClose(id, how)
  <2>1. slot' = slot /\ api' = api /\ cut' = cut
    BY <1>2 DEF SockStart, SockPause, SockClose
  <2> QED
    BY <2>1, LockKept DEF InUse
<1>3. ASSUME NEW id \in Ids, NEW v \in Sender, NEW m \in Item, NEW low \in BOOLEAN,
             SockSend(v, id, m, low)
      PROVE  LockInv'
  <2>1. slot' = slot /\ cut' = cut /\ \A w \in Sender : w # v => api'[w] = api[w]
    BY <1>0, <1>3 DEF SockSend
  <2>2. api'[v].at \in {"count", "check"}
    BY <1>0, <1>3 DEF SockSend
  <2>3. ~Holds(v)'
    BY <2>2 DEF Holds
  <2> QED
    BY <2>1, <2>3, LockKept DEF InUse
<1>4. ASSUME NEW v \in Sender,
             CheckQueues(v) \/ CheckSending(v) \/ IncSendingRef(v) \/ TriggerWrite(v) \/ RequestSend(v)
      PROVE  LockInv'
  <2>1. /\ cut' = cut /\ slot'.id = slot.id /\ slot'.type = slot.type /\ slot'.locked = slot.locked
        /\ slot'.dw = slot.dw /\ slot'.high = slot.high
    BY <1>0, <1>4 DEF CheckQueues, CheckSending, IncSendingRef, TriggerWrite, RequestSend, Slot
  <2>2. /\ api[v] # Idle
        /\ Taken(v) \/ \E l \in {"check2", "trylock", "count", "request"} : Goes(v, l)
    BY <1>4 DEF CheckQueues, CheckSending, IncSendingRef, TriggerWrite, RequestSend, Calling, Idle
  <2>3. /\ \A w \in Sender : w # v => api'[w] = api[w]
        /\ api'[v].at \in {"idle", "check2", "trylock", "count", "request"}
    <3>1. CASE Taken(v)
      BY <1>0, <3>1 DEF Taken, Idle
    <3>2. ASSUME NEW l \in {"check2", "trylock", "count", "request"}, Goes(v, l)
          PROVE  /\ \A w \in Sender : w # v => api'[w] = api[w]
                 /\ api'[v].at = l
      BY <1>0, <2>2, <3>2, GoesType
    <3> QED
      BY <2>2, <3>1, <3>2
  <2>4. ~Holds(v)'
    BY <2>3 DEF Holds
  <2> QED
    BY <2>1, <2>3, <2>4, LockKept DEF InUse
<1>5. ASSUME NEW v \in Sender, TryLock(v) PROVE LockInv'
  <2>1. /\ api[v] # Idle /\ Goes(v, IF slot.locked THEN "count" ELSE "recheck") /\ cut' = cut
        /\ slot'.id = slot.id /\ slot'.type = slot.type /\ slot'.locked
        /\ slot'.dw = slot.dw /\ slot'.high = slot.high
    BY <1>0, <1>5 DEF TryLock, Calling, Idle, Slot
  <2>2. /\ \A w \in Sender : w # v => api'[w] = api[w]
        /\ api'[v].at = IF slot.locked THEN "count" ELSE "recheck"
    BY <1>0, <2>1, GoesType
  <2>3. CASE slot.locked
    <3>1. ~Holds(v)' /\ slot'.locked = slot.locked
      BY <1>0, <1>5, <2>2, <2>3 DEF Holds, TryLock, Slot
    <3> QED
      BY <2>1, <2>2, <3>1, LockKept DEF InUse
  <2>4. CASE ~slot.locked
    <3>1. \A w \in Sender : w # v => ~Holds(w)'
      BY <2>2, <2>4 DEF LockInv, Holds
    <3> QED
      BY <2>1, <2>2, <2>4, <3>1, LockOne
  <2> QED
    BY <2>3, <2>4
<1>6. ASSUME NEW v \in Sender, RecheckQueues(v) \/ RecheckSending(v) PROVE LockInv'
  <2>1. /\ api[v] # Idle /\ Holds(v)
        /\ \E l \in {"count", "recheck2", "write"} : Goes(v, l)
    BY <1>6 DEF RecheckQueues, RecheckSending, Calling, Holds, Idle
  <2>2. \A w \in Sender : w # v => api'[w] = api[w] /\ ~Holds(w)
    BY <1>0, <2>1, GoesType DEF LockInv
  <2>3. \A w \in Sender : w # v => ~Holds(w)'
    BY <2>2 DEF Holds
  <2>4. /\ cut' = cut /\ slot'.id = slot.id /\ slot'.type = slot.type
        /\ slot'.dw = slot.dw /\ slot'.high = slot.high
    BY <1>0, <1>6 DEF RecheckQueues, RecheckSending, Slot
  <2>5. CASE RecheckQueues(v)
    <3>1. /\ api'[v].at = (IF QueuesSeenEmpty(v) THEN "recheck2" ELSE "count")
          /\ api'[v].id = api[v].id
      BY <1>0, <2>1, <2>5, GoesType DEF RecheckQueues
    <3>2. CASE QueuesSeenEmpty(v)
      <4>1. slot.high = << >> /\ slot.dw = << >> /\ slot.id = api[v].id /\ slot'.locked
        BY <1>0, <2>5, <3>2 DEF RecheckQueues, QueuesSeenEmpty, ListsEmpty, Slot
      <4>2. Len(slot'.high) % 2 = 0
        BY <2>4, <4>1
      <4> QED
        BY <2>3, <2>4, <3>1, <3>2, <4>1, <4>2, LockOne
    <3>3. CASE ~QueuesSeenEmpty(v)
      <4>1. ~Holds(v)'
        BY <3>1, <3>3 DEF Holds
      <4> QED
        BY <2>3, <4>1, LockNone
    <3> QED
      BY <3>2, <3>3
  <2>6. CASE RecheckSending(v)
    <3>1. /\ api'[v].at = (IF SeenConnected THEN "write" ELSE "count")
          /\ api'[v].id = api[v].id
      BY <1>0, <2>1, <2>6, GoesType DEF RecheckSending
    <3>2. CASE SeenConnected
      <4>1. slot.type = "CONNECTED" /\ slot'.locked
        BY <1>0, <2>6, <3>2 DEF RecheckSending, SeenConnected, Slot
      <4>2. slot.id = api[v].id /\ slot.dw = << >> /\ (cut \/ Len(slot.high) % 2 = 0)
        BY <2>6 DEF RecheckSending, Calling, LockInv
      <4> QED
        BY <2>3, <2>4, <3>1, <3>2, <4>1, <4>2, LockOne
    <3>3. CASE ~SeenConnected
      <4>1. ~Holds(v)'
        BY <3>1, <3>3 DEF Holds
      <4> QED
        BY <2>3, <4>1, LockNone
    <3> QED
      BY <3>2, <3>3
  <2> QED
    BY <1>6, <2>5, <2>6
<1>7. ASSUME NEW v \in Sender, NEW n \in 0 .. 2, DirectWrite(v, n) PROVE LockInv'
  <2>1. api[v] # Idle /\ Holds(v) /\ (Goes(v, "trigger") \/ Taken(v))
    BY <1>7 DEF DirectWrite, Calling, Holds, Idle
  <2>2. (\A w \in Sender : w # v => api'[w] = api[w]) /\ api'[v].at \in {"trigger", "idle"}
    <3>1. CASE Taken(v)
      BY <1>0, <3>1 DEF Taken, Idle
    <3>2. CASE Goes(v, "trigger")
      BY <1>0, <2>1, <3>2, GoesType
    <3> QED
      BY <2>1, <3>1, <3>2
  <2>3. \A w \in Sender : ~Holds(w)'
    BY <2>1, <2>2 DEF LockInv, Holds
  <2> QED
    BY <2>3, LockNone
<1> QED
  BY <1>1, <1>2, <1>3, <1>4, <1>5, <1>6, <1>7 DEF Services

LEMMA LockThread ==
  ASSUME SockTypeOK, IdsInv, LockInv, SockThread \/ \E how \in {"fin", "error"} : PeerEnds(how)
  PROVE  LockInv'
<1> USE DEF hist
<1>0. slot \in Slot /\ slot.high \in Seq(Item) /\ slot.low \in Seq(Item) /\ Len(slot.high) \in Nat
  BY LenProperties DEF SockTypeOK, Slot
<1>1. ASSUME api' = api, ~slot.locked PROVE LockInv'
  <2>1. \A v \in Sender : ~Holds(v)'
    BY <1>1 DEF LockInv, Holds
  <2> QED
    BY <2>1, LockNone
<1>2. CASE ForceClosed \/ SendError \/ \E n \in 0 .. 2 * Cardinality(Item) : SendBuffer(n)
  BY <1>1, <1>2 DEF ForceClosed, SendError, SendBuffer
<1>3. CASE ReportAccept
  <2>1. \A v \in Sender : ~Holds(v)'
    BY <1>3 DEF ReportAccept, Reservable, Checking, Holds
  <2> QED
    BY <2>1, LockNone
<1>4. CASE \/ \E writable \in BOOLEAN : SpWait(writable)
           \/ NoCommand \/ RecvError \/ SendBlocked \/ ReportError
           \/ \E how \in {"fin", "error"} : PeerEnds(how)
  <2>1. slot' = slot /\ api' = api /\ cut' = cut
    BY <1>4 DEF SpWait, NoCommand, RecvError, SendBlocked, ReportError, PeerEnds
  <2> QED
    BY <2>1, LockKept DEF InUse
<1>5. ASSUME api' = api, slot'.locked = slot.locked, slot'.id = slot.id,
             slot'.dw \in {slot.dw, << >>}, slot'.type = slot.type \/ slot'.type \notin {"INVALID", "RESERVE"},
             cut => cut', slot'.high \in {slot.high, << >>}
      PROVE  LockInv'
  <2>1. Len(slot.high) % 2 = 0 => Len(slot'.high) % 2 = 0
    <3>1. CASE slot'.high = slot.high
      BY <3>1
    <3>2. CASE slot'.high = << >>
      <4>1. Len(slot'.high) = 0
        BY <3>2, EmptySeq
      <4> QED
        BY <4>1
    <3> QED
      BY <1>5, <3>1, <3>2
  <2> QED
    BY <1>5, <2>1, LockKept DEF InUse
<1>6. CASE ReportConnect
  <2>1. CASE ForceClose(FALSE)
    BY <1>0, <1>5, <1>6, <2>1, ForceCloseDoes DEF ReportConnect
  <2>2. CASE ~ForceClose(FALSE)
    <3>1. slot' = [slot EXCEPT !.type = "CONNECTED", !.writing = @ /\ ~NomoreSendingData]
      BY <1>6, <2>2 DEF ReportConnect
    <3>2. cut' = cut /\ api' = api
      BY <1>6, <2>2 DEF ReportConnect
    <3>3. /\ slot'.locked = slot.locked /\ slot'.id = slot.id /\ slot'.high = slot.high
          /\ slot'.dw = slot.dw /\ slot'.type = "CONNECTED"
      BY <1>0, <3>1 DEF Slot
    <3> QED
      BY <1>5, <3>2, <3>3
  <2> QED
    BY <2>1, <2>2
<1>7. CASE RecvZero
  <2>1. api' = api
    BY <1>7 DEF RecvZero
  <2>2. CASE \E c \in BOOLEAN : ForceClose(c)
    BY <1>0, <1>5, <2>1, <2>2, ForceCloseDoes
  <2>3. CASE ~(\E c \in BOOLEAN : ForceClose(c))
    <3>1. cut' = cut /\ (slot' = slot \/ CloseRead(slot))
      BY <1>7, <2>3 DEF RecvZero
    <3> QED
      BY <1>0, <1>5, <2>1, <3>1, CloseReadDoes
  <2> QED
    BY <2>2, <2>3
<1>8. CASE Eof
  BY <1>0, <1>5, <1>8, ForceCloseDoes DEF Eof
<1>9. ASSUME NEW id \in Ids, OpenSocket(id) PROVE LockInv'
  <2>1. slot.type = "RESERVE" /\ api' = api /\ cut' = cut
    BY <1>9, HeadKnown DEF OpenSocket
  <2>2. \/ slot' = [slot EXCEPT !.type = "INVALID"]
        \/ NewFd(slot, "CONNECTED", TRUE, FALSE)
        \/ NewFd(slot, "CONNECTING", TRUE, TRUE)
    BY <1>9 DEF OpenSocket
  <2>3. /\ slot'.locked = slot.locked /\ slot'.id = slot.id /\ slot'.high = slot.high
        /\ slot'.dw \in {slot.dw, << >>}
    BY <1>0, <2>2 DEF NewFd, Slot
  <2> QED
    BY <2>1, <2>3, LockKept DEF InUse
<1>10. ASSUME NEW id \in Ids, ResumeSocket(id) \/ PauseSocket(id) \/ EnableWrite(id) PROVE LockInv'
  <2>1. /\ slot'.locked = slot.locked /\ slot'.id = slot.id /\ slot'.high = slot.high
        /\ slot'.dw = slot.dw /\ cut' = cut /\ api' = api
        /\ slot'.type = slot.type \/ slot'.type = "CONNECTED"
    BY <1>0, <1>10 DEF ResumeSocket, PauseSocket, EnableWrite, Slot
  <2> QED
    BY <1>5, <2>1
<1>11. ASSUME NEW id \in Ids, NEW how \in {"K", "shutdown"}, CloseSocket(id, how) PROVE LockInv'
  <2>1. api' = api /\ [slot EXCEPT !.closing = TRUE] \in Slot
    BY <1>0, <1>11 DEF CloseSocket, Slot
  <2>2. CASE ForceClose(~HalfcloseRead)
    BY <1>0, <1>5, <2>1, <2>2, ForceCloseDoes
  <2>3. CASE ~ForceClose(~HalfcloseRead)
    <3>1. cut' = cut /\ \/ slot' = slot \/ slot' = [slot EXCEPT !.closing = TRUE]
                        \/ CloseRead([slot EXCEPT !.closing = TRUE])
      BY <1>11, <2>3 DEF CloseSocket
    <3> QED
      BY <1>0, <1>5, <2>1, <3>1, CloseReadDoes DEF Slot
  <2> QED
    BY <2>2, <2>3
<1>12. ASSUME NEW id \in Ids, NEW c \in {"D", "P"}, SendSocket(c, id) PROVE LockInv'
  <2>1. Handle(c, id) /\ Head(pipe).item \in Item /\ cut' = cut /\ api' = api
    <3>1. Handle(c, id) /\ cut' = cut /\ api' = api
      BY <1>12 DEF SendSocket
    <3> QED
      BY <3>1, HeadKnown, CommandType
  <2>2. Halves(Head(pipe).item, 2) \in Seq(Item) /\ Len(Halves(Head(pipe).item, 2)) = 2
    BY <2>1 DEF Halves
  <2>3. Len(slot.high \o Halves(Head(pipe).item, 2)) = Len(slot.high) + 2
    <3>1. Len(slot.high \o Halves(Head(pipe).item, 2))
            = Len(slot.high) + Len(Halves(Head(pipe).item, 2))
      BY <1>0, <2>2, ConcatProperties
    <3> QED
      BY <2>2, <3>1
  <2>4. /\ slot'.locked = slot.locked /\ slot'.id = slot.id /\ slot'.dw = slot.dw /\ slot'.type = slot.type
        /\ slot'.high \in {slot.high, slot.high \o Halves(Head(pipe).item, 2)}
    BY <1>0, <1>12 DEF SendSocket, Uncounted, Slot
  <2>5. Len(slot.high) % 2 = 0 => Len(slot'.high) % 2 = 0
    <3>1. Len(slot'.high) = Len(slot.high) \/ Len(slot'.high) = Len(slot.high) + 2
      BY <2>3, <2>4
    <3> QED
      BY <1>0, <3>1, EvenSum
  <2> QED
    BY <2>1, <2>4, <2>5, LockKept DEF InUse
<1> QED
  BY <1>2, <1>3, <1>4, <1>6, <1>7, <1>8, <1>9, <1>10, <1>11, <1>12 DEF SockThread

LEMMA CountServices ==
  ASSUME SockTypeOK, TcpInv, SendingCounts, Services PROVE SendingCounts'
<1> USE DEF hist
<1>0. slot \in Slot /\ api \in [Sender -> Calls] /\ pipe \in Seq(Commands) /\ slot.count \in Nat
  BY DEF SockTypeOK, Slot
<1>1. CASE SockConnect
  BY <1>0, <1>1 DEF SockConnect, Reserved, SendingCounts, Slot
<1>2. CASE \E id \in Ids : SockStart(id) \/ SockPause(id)
                             \/ \E how \in {"K", "shutdown"} : SockClose(id, how)
  <2>1. slot' = slot /\ api' = api
    BY <1>2 DEF SockStart, SockPause, SockClose
  <2>2. \E c \in {"R", "S", "K", "shutdown"}, id \in Ids : pipe' = Append(pipe, Command(c, id))
    BY <1>2 DEF SockStart, SockPause, SockClose, SendRequest
  <2>3. PipeQuiet
    BY <2>2, CommandType DEF PipeQuiet, Command
  <2> QED
    BY <2>1, <2>3, CountQuiet DEF Asking, Calling
<1>3. ASSUME NEW id \in Ids, NEW v \in Sender, NEW m \in Item, NEW low \in BOOLEAN,
             SockSend(v, id, m, low)
      PROVE  SendingCounts'
  <2>1. slot' = slot /\ pipe' = pipe /\ \A w \in Sender : w # v => api'[w] = api[w]
    BY <1>0, <1>3 DEF SockSend
  <2>2. api'[v].at \in {"count", "check"} /\ api[v].at = "idle"
    BY <1>0, <1>3 DEF SockSend, Idle
  <2> QED
    BY <2>1, <2>2, CountQuiet DEF Asking, Calling, PipeQuiet
<1>4. ASSUME NEW v \in Sender,
             \/ CheckQueues(v) \/ CheckSending(v) \/ TryLock(v) \/ RecheckQueues(v)
             \/ RecheckSending(v) \/ \E n \in 0 .. 2 : DirectWrite(v, n)
      PROVE  SendingCounts'
  <2>1. /\ api[v] # Idle /\ api[v].at # "request" /\ pipe' = pipe
        /\ \/ Taken(v)
           \/ \E l \in {"check2", "trylock", "recheck", "recheck2", "write", "count", "trigger"} : Goes(v, l)
    BY <1>4 DEF CheckQueues, CheckSending, TryLock, RecheckQueues, RecheckSending, DirectWrite,
       Calling, Idle
  <2>2. slot'.id = slot.id /\ slot'.tcp = slot.tcp /\ slot'.count = slot.count
    BY <1>0, <1>4 DEF CheckQueues, CheckSending, TryLock, RecheckQueues, RecheckSending,
       DirectWrite, Slot
  <2>3. api'[v].at # "request" /\ \A w \in Sender : w # v => api'[w] = api[w]
    <3>1. CASE Taken(v)
      BY <1>0, <3>1 DEF Taken, Idle
    <3>2. ASSUME NEW l \in {"check2", "trylock", "recheck", "recheck2", "write", "count", "trigger"}, Goes(v, l)
          PROVE  api'[v].at # "request" /\ \A w \in Sender : w # v => api'[w] = api[w]
      BY <1>0, <2>1, <3>2, GoesType
    <3> QED
      BY <2>1, <3>1, <3>2
  <2> QED
    BY <2>1, <2>2, <2>3, CountQuiet DEF Asking, Calling, PipeQuiet
<1>5. ASSUME NEW v \in Sender, TriggerWrite(v) PROVE SendingCounts'
  <2>1. /\ api[v].at = "trigger" /\ api[v].id \in Ids /\ slot' = slot
        /\ pipe' = Append(pipe, Command("W", api[v].id))
    BY <1>0, <1>5 DEF TriggerWrite, Calling, SendRequest, Calls, Idle
  <2>2. api'[v].at = "idle" /\ \A w \in Sender : w # v => api'[w] = api[w]
    BY <1>0, <1>5 DEF TriggerWrite, Taken, Idle
  <2>3. PipeQuiet
    BY <2>1, CommandType DEF PipeQuiet, Command
  <2> QED
    BY <2>1, <2>2, <2>3, CountQuiet DEF Asking, Calling
<1>6. ASSUME NEW v \in Sender, IncSendingRef(v) PROVE SendingCounts'
  <2>1. /\ api[v].at = "count" /\ api[v] # Idle /\ Goes(v, "request") /\ pipe' = pipe
        /\ slot'.id = slot.id /\ slot'.tcp = slot.tcp
    BY <1>0, <1>6 DEF IncSendingRef, Calling, Idle, Slot
  <2>2. /\ api'[v].at = "request" /\ api'[v].id = api[v].id
        /\ \A w \in Sender : w # v => api'[w] = api[w]
    BY <1>0, <2>1, GoesType
  <2>3. CASE slot.tcp /\ slot.id = api[v].id
    <3>1. slot.tag = slot.id /\ slot'.count = slot.count + 1
      BY <1>0, <1>6, <2>3 DEF IncSendingRef, TcpInv, Slot
    <3>2. Asks(slot.id)' = Asks(slot.id) \cup {v} /\ v \notin Asks(slot.id)
      BY <2>1, <2>2, <2>3 DEF Asks, Asking, Calling
    <3>3. Cardinality(Asks(slot.id)') = Cardinality(Asks(slot.id)) + 1
      BY <3>2, AsksFinite, FS_AddElement
    <3>4. Places(pipe, slot.id)' = Places(pipe, slot.id)
      BY <2>1 DEF Places, Sending
    <3>5. slot.count = Cardinality(Places(pipe, slot.id)) + Cardinality(Asks(slot.id))
      BY <2>3, CountsMeans
    <3>6. Cardinality(Places(pipe, slot.id)) \in Nat /\ Cardinality(Asks(slot.id)) \in Nat
      BY <1>0, PlacesFinite, AsksFinite
    <3> QED
      BY <2>1, <3>1, <3>3, <3>4, <3>5, <3>6, CountsMeansNext
  <2>4. CASE slot.tcp /\ slot.id # api[v].id
    <3>1. slot'.count = slot.count
      BY <1>0, <1>6, <2>4 DEF IncSendingRef, TcpInv, Slot
    <3> QED
      BY <2>1, <2>2, <2>4, <3>1, CountQuiet DEF Asking, Calling, PipeQuiet
  <2>5. CASE ~slot.tcp
    BY <2>1, <2>5, CountsMeansNext
  <2> QED
    BY <2>3, <2>4, <2>5
<1>7. ASSUME NEW v \in Sender, RequestSend(v) PROVE SendingCounts'
  <2> DEFINE c == Request(api[v].cmd, api[v].id, api[v].item)
  <2>1. /\ api[v].at = "request" /\ api[v].id \in Ids /\ api[v].item \in Item /\ api[v].cmd \in {"D", "P"}
        /\ slot' = slot /\ pipe' = Append(pipe, c)
    BY <1>0, <1>7 DEF RequestSend, Calling, SendRequest, Calls, Idle
  <2>2. api'[v].at = "idle" /\ \A w \in Sender : w # v => api'[w] = api[w]
    BY <1>0, <1>7 DEF RequestSend, Taken, Idle
  <2>3. c \in Commands /\ (Sending(c, slot.id) <=> api[v].id = slot.id)
    BY <2>1, CommandType DEF Request, Sending
  <2> HIDE DEF c
  <2>4. Asks(slot.id)' = Asks(slot.id) \ {v} /\ (v \in Asks(slot.id) <=> api[v].id = slot.id)
    BY <2>1, <2>2 DEF Asks, Asking, Calling
  <2>5. Cardinality(Asks(slot.id)') = Cardinality(Asks(slot.id)) - IF api[v].id = slot.id THEN 1 ELSE 0
    <3>1. Cardinality(Asks(slot.id) \ {v})
            = IF v \in Asks(slot.id) THEN Cardinality(Asks(slot.id)) - 1 ELSE Cardinality(Asks(slot.id))
      BY AsksFinite, FS_RemoveElement
    <3> QED
      BY <2>4, <3>1, AsksFinite
  <2>6. Cardinality(Places(pipe, slot.id)')
          = Cardinality(Places(pipe, slot.id)) + IF api[v].id = slot.id THEN 1 ELSE 0
    <3>1. Places(pipe, slot.id)' = Places(Append(pipe, c), slot.id)
      BY <2>1 DEF Places, Sending
    <3> QED
      BY <1>0, <2>3, <3>1, PlacesAppend
  <2>7. Cardinality(Places(pipe, slot.id)) \in Nat /\ Cardinality(Asks(slot.id)) \in Nat
    BY <1>0, PlacesFinite, AsksFinite
  <2>8. slot.tcp => slot.count = Cardinality(Places(pipe, slot.id)) + Cardinality(Asks(slot.id))
    BY CountsMeans
  <2>9. slot.tcp' => slot.count' = Cardinality(Places(pipe, slot.id)') + Cardinality(Asks(slot.id)')
    BY <2>1, <2>5, <2>6, <2>7, <2>8
  <2> QED
    BY <2>9, CountsMeansNext
<1> QED
  BY <1>1, <1>2, <1>3, <1>4, <1>5, <1>6, <1>7 DEF Services

(* Nothing is counted for an id that nobody knows.                         *)
LEMMA NoneCounted ==
  ASSUME NEW s \in Seq(Commands), NEW id,
         \A i \in 1 .. Len(s) : s[i].cmd \in {"D", "P"} => s[i].id # id,
         \A v \in Sender : ~Asking(v, id)
  PROVE  Cardinality(Places(s, id)) = 0 /\ Cardinality(Asks(id)) = 0
<1>1. Places(s, id) = {}
  BY LenProperties DEF Places, Sending
<1>2. Asks(id) = {}
  BY DEF Asks
<1> QED
  BY <1>1, <1>2, FS_EmptySet

LEMMA CountThread ==
  ASSUME SockTypeOK, IdsInv, TcpInv, SendingCounts,
         SockThread \/ \E how \in {"fin", "error"} : PeerEnds(how)
  PROVE  SendingCounts'
<1> USE DEF hist
<1>0. /\ slot \in Slot /\ slot.id \in Nat /\ slot.count \in Nat /\ pipe \in Seq(Commands)
      /\ api \in [Sender -> Calls] /\ told \subseteq Ids
  BY BoundsAssumption DEF SockTypeOK, Slot
<1>a. \A v \in Sender : \A id : Asking(v, id) => id \in told
  BY DEF Asking, Calling, Idle, IdsInv
<1>b. \A i \in 1 .. Len(pipe) : pipe[i].cmd \in {"D", "P"} => pipe[i].id \in told
  BY DEF IdsInv
<1>1. ASSUME api' = api, PipeQuiet,
             slot'.id = slot.id, slot'.tcp = slot.tcp, slot'.count = slot.count
      PROVE  SendingCounts'
  BY <1>1, CountQuiet DEF Asking, Calling
<1>2. CASE \/ \E writable \in BOOLEAN : SpWait(writable)
           \/ NoCommand \/ RecvError \/ SendBlocked \/ ReportError \/ ForceClosed
           \/ \E n \in 0 .. 2 * Cardinality(Item) : SendBuffer(n)
           \/ \E how \in {"fin", "error"} : PeerEnds(how)
  <2>1. api' = api /\ pipe' = pipe
    BY <1>2 DEF SpWait, NoCommand, RecvError, SendBlocked, ReportError, ForceClosed, SendBuffer, PeerEnds
  <2>2. slot'.id = slot.id /\ slot'.tcp = slot.tcp /\ slot'.count = slot.count
    BY <1>0, <1>2 DEF SpWait, NoCommand, RecvError, SendBlocked, ReportError, ForceClosed, SendBuffer,
       PeerEnds, Slot
  <2> QED
    BY <1>1, <2>1, <2>2 DEF PipeQuiet
<1>3. CASE ReportConnect \/ RecvZero \/ SendError \/ Eof
  <2>1. api' = api /\ pipe' = pipe
    BY <1>3 DEF ReportConnect, RecvZero, SendError, Eof
  <2>2. slot'.id = slot.id /\ slot'.tcp = slot.tcp /\ slot'.count = slot.count
    BY <1>0, <1>3, ForceCloseDoes, CloseReadDoes DEF ReportConnect, RecvZero, SendError, Eof, Slot
  <2> QED
    BY <1>1, <2>1, <2>2 DEF PipeQuiet
<1>4. CASE ReportAccept
  <2>1. /\ slot'.id = slot.id + 1 /\ slot'.count = 0 /\ pipe' = pipe /\ api' = api
    BY <1>0, <1>4 DEF ReportAccept, NewFd, Reserved, Slot
  <2>2. slot.id + 1 \notin told
    BY <1>0 DEF IdsInv, Ids
  <2>3. Cardinality(Places(pipe, slot.id + 1)) = 0 /\ Cardinality(Asks(slot.id + 1)) = 0
    BY <1>0, <1>a, <1>b, <2>2, NoneCounted
  <2>4. Places(pipe, slot.id)' = Places(pipe, slot.id + 1) /\ Asks(slot.id)' = Asks(slot.id + 1)
    BY <2>1 DEF Places, Sending, Asks, Asking, Calling
  <2> QED
    BY <2>1, <2>3, <2>4, CountsMeansNext
<1>5. ASSUME NEW id \in Ids, OpenSocket(id) PROVE SendingCounts'
  <2>1. /\ slot.type = "RESERVE" /\ slot.id = id /\ api' = api /\ ~slot.tcp
        /\ pipe # << >> /\ pipe' = Tail(pipe)
    BY <1>5, HeadKnown DEF OpenSocket, TcpInv
  <2>2. \/ slot' = [slot EXCEPT !.type = "INVALID"]
        \/ NewFd(slot, "CONNECTED", TRUE, FALSE)
        \/ NewFd(slot, "CONNECTING", TRUE, TRUE)
    BY <1>5 DEF OpenSocket
  <2>3. slot'.id = slot.id /\ (slot'.tcp = slot.tcp \/ slot'.count = 0)
    BY <1>0, <2>2 DEF NewFd, Slot
  <2>4. pipe' \in Seq(Commands) /\ \A i \in 1 .. Len(pipe') :
          pipe'[i].cmd \in {"D", "P"} => pipe'[i].id \in told
    BY <1>b, <2>1, PipeTail
  <2>5. slot.id \notin told
    BY <2>1 DEF IdsInv
  <2>6. Cardinality(Places(pipe', slot.id)) = 0 /\ Cardinality(Asks(slot.id)) = 0
    BY <1>a, <2>4, <2>5, NoneCounted
  <2>7. Places(pipe, slot.id)' = Places(pipe', slot.id) /\ Asks(slot.id)' = Asks(slot.id)
    BY <2>1, <2>3 DEF Places, Sending, Asks, Asking, Calling
  <2> QED
    BY <2>1, <2>3, <2>6, <2>7, CountsMeansNext
<1>6. ASSUME NEW id \in Ids, ResumeSocket(id) \/ PauseSocket(id) \/ EnableWrite(id) PROVE SendingCounts'
  <2>1. /\ \E c \in {"R", "S", "W"} : Handle(c, id)
        /\ api' = api /\ slot'.id = slot.id /\ slot'.tcp = slot.tcp /\ slot'.count = slot.count
    BY <1>0, <1>6 DEF ResumeSocket, PauseSocket, EnableWrite, Slot
  <2>2. PipeQuiet
    BY <2>1 DEF Handle, PipeQuiet
  <2> QED
    BY <1>1, <2>1, <2>2
<1>7. ASSUME NEW id \in Ids, NEW how \in {"K", "shutdown"}, CloseSocket(id, how) PROVE SendingCounts'
  <2>1. Handle(how, id) /\ api' = api /\ [slot EXCEPT !.closing = TRUE] \in Slot
    BY <1>0, <1>7 DEF CloseSocket, Slot
  <2>2. \/ ForceClose(~HalfcloseRead) \/ slot' = slot \/ slot' = [slot EXCEPT !.closing = TRUE]
        \/ CloseRead([slot EXCEPT !.closing = TRUE])
    BY <1>7 DEF CloseSocket
  <2>3. slot'.id = slot.id /\ slot'.tcp = slot.tcp /\ slot'.count = slot.count
    BY <1>0, <2>1, <2>2, ForceCloseDoes, CloseReadDoes DEF Slot
  <2>4. PipeQuiet
    BY <2>1 DEF Handle, PipeQuiet
  <2> QED
    BY <1>1, <2>1, <2>3, <2>4
<1>8. ASSUME NEW id \in Ids, NEW c \in {"D", "P"}, SendSocket(c, id) PROVE SendingCounts'
  <2>1. /\ pipe # << >> /\ pipe' = Tail(pipe) /\ Head(pipe).cmd = c /\ Head(pipe).id = id /\ api' = api
    BY <1>8 DEF SendSocket, Handle
  <2>2. /\ slot'.id = slot.id /\ slot'.tcp = slot.tcp
        /\ slot.tcp => slot'.count = slot.count - IF slot.id = id THEN 1 ELSE 0
    <3> DEFINE item == Halves(Head(pipe).item, 2)
    <3>1. CASE slot' = Uncounted(slot, id)
      BY <1>0, <3>1 DEF Uncounted, Slot
    <3>2. CASE slot' = Uncounted([slot EXCEPT !.high = @ \o item, !.writing = @ \/ ListsEmpty], id)
      BY <1>0, <3>2 DEF Uncounted, Slot
    <3>3. CASE slot' = Uncounted([slot EXCEPT !.low = @ \o item], id)
      BY <1>0, <3>3 DEF Uncounted, Slot
    <3> QED
      BY <1>8, <3>1, <3>2, <3>3 DEF SendSocket
  <2>3. Cardinality(Places(pipe', slot.id))
          = Cardinality(Places(pipe, slot.id)) - IF slot.id = id THEN 1 ELSE 0
    BY <1>0, <2>1, PlacesTail DEF Sending
  <2>4. Places(pipe, slot.id)' = Places(pipe', slot.id) /\ Asks(slot.id)' = Asks(slot.id)
    BY <2>1, <2>2 DEF Places, Sending, Asks, Asking, Calling
  <2>5. Cardinality(Places(pipe, slot.id)) \in Nat /\ Cardinality(Asks(slot.id)) \in Nat
    BY <1>0, PlacesFinite, AsksFinite
  <2>6. slot.tcp => slot.count = Cardinality(Places(pipe, slot.id)) + Cardinality(Asks(slot.id))
    BY CountsMeans
  <2>7. slot.tcp' => slot.count' = Cardinality(Places(pipe, slot.id)') + Cardinality(Asks(slot.id)')
    BY <2>2, <2>3, <2>4, <2>5, <2>6
  <2> QED
    BY <2>7, CountsMeansNext
<1> QED
  BY <1>2, <1>3, <1>4, <1>5, <1>6, <1>7, <1>8 DEF SockThread

LEMMA HeadType ==
  ASSUME SockTypeOK, NEW c, NEW id, Handle(c, id)
  PROVE  /\ pipe' \in Seq(Commands) /\ Len(pipe') <= PipeSize
         /\ pipe # << >> /\ Head(pipe).cmd = c /\ Head(pipe).id = id /\ Head(pipe) \in Commands
         /\ c \in {"D", "P"} => Head(pipe).item \in Item
<1>1. pipe # << >> /\ pipe' = Tail(pipe) /\ Head(pipe).cmd = c /\ Head(pipe).id = id
  BY DEF Handle
<1>2. /\ pipe' \in Seq(Commands) /\ Len(pipe') = Len(pipe) - 1 /\ Len(pipe) \in Nat \ {0}
      /\ Head(pipe) \in Commands
  BY <1>1, PipeTail
<1>3. Len(pipe') <= PipeSize
  BY <1>2, BoundsAssumption DEF SockTypeOK
<1> QED
  BY <1>1, <1>2, <1>3, CommandType

(* SendBuffer does not lose what is left, or put it in another order.      *)
LEMMA HalvesType ==
  ASSUME NEW m \in Item, NEW n \in 0 .. 2
  PROVE  /\ Halves(m, n) \in Seq(Item) /\ Len(Halves(m, n)) = n
         /\ \A i \in 1 .. n : Halves(m, n)[i] = m
BY DEF Halves

LEMMA AllType ==
  ASSUME slot \in Slot
  PROVE  /\ slot.high \in Seq(Item) /\ slot.low \in Seq(Item) /\ slot.dw \in Seq(Item)
         /\ slot.dw \o slot.high \in Seq(Item)
         /\ (slot.dw \o slot.high) \o slot.low \in Seq(Item)
<1>1. slot.high \in Seq(Item) /\ slot.low \in Seq(Item) /\ slot.dw \in Seq(Item)
  BY DEF Slot
<1> QED
  BY <1>1, ConcatProperties

LEMMA SubSeqType ==
  ASSUME NEW S, NEW s \in Seq(S), NEW a \in Nat, NEW b \in Int, a >= 1, b <= Len(s)
  PROVE  SubSeq(s, a, b) \in Seq(S)
<1>1. \A i \in a .. b : s[i] \in S
  BY ElementOfSeq, LenProperties
<1> QED
  BY <1>1, SubSeqProperties

LEMMA TypeThread ==
  ASSUME SockTypeOK, TcpInv, SendingCounts,
         SockThread \/ \E how \in {"fin", "error"} : PeerEnds(how)
  PROVE  SockTypeOK'
<1> USE DEF hist
<1>0. /\ slot \in Slot /\ slot.id \in 0 .. MaxId /\ MaxId \in Nat /\ slot.count \in Nat
      /\ wire \in Seq(Item) /\ << >> \in Seq(Item) /\ told \subseteq Ids /\ loop \in Loops
      /\ Len(slot.high) \in Nat
  <2>1. << >> \in Seq(Item) /\ \A s \in Seq(Item) : Len(s) \in Nat
    BY EmptySeq, LenProperties
  <2> QED
    BY <2>1, BoundsAssumption DEF SockTypeOK, Slot
<1>1. /\ [at |-> "wait"] \in Loops /\ [at |-> "ctrl"] \in Loops /\ [at |-> "event"] \in Loops
      /\ \A close \in BOOLEAN : \A back \in {"ctrl", "wait"} :
           [at |-> "force", close |-> close, back |-> back] \in Loops
  BY DEF Loops
<1>2. \A close \in BOOLEAN : ForceClose(close) => slot' \in Slot /\ loop' \in Loops
  BY <1>0, <1>1, ForceCloseDoes
<1>3. Consumed => loop' \in Loops /\ ev' = NoEvent
  BY <1>1, ConsumedDoes
<1>4. CASE \E writable \in BOOLEAN : SpWait(writable)
  <2>1. PICK writable \in BOOLEAN : SpWait(writable)
    BY <1>4
  <2>2. /\ (slot.reading /\ peer # "open") \in BOOLEAN /\ (slot.writing /\ (writable \/ Broken)) \in BOOLEAN
        /\ (peer = "error") \in BOOLEAN
        /\ (Broken \/ (peer = "fin" /\ slot.type = "HALFCLOSE_WRITE")) \in BOOLEAN
    BY Zenon
  <2>3. Event(writable) \in [read : BOOLEAN, write : BOOLEAN, error : BOOLEAN, eof : BOOLEAN]
    BY <2>2 DEF Event
  <2>4. ev' \in {Event(writable), NoEvent} /\ loop' = [at |-> "ctrl"]
    BY <2>1 DEF SpWait
  <2> QED
    BY <1>1, <2>1, <2>3, <2>4 DEF SpWait, SockTypeOK
<1>5. CASE NoCommand
  <2>1. loop' \in Loops
    BY <1>1, <1>5 DEF NoCommand
  <2> QED
    BY <1>5, <2>1 DEF NoCommand, SockTypeOK
<1>6. CASE RecvError \/ SendBlocked \/ ReportError
  BY <1>3, <1>6 DEF RecvError, SendBlocked, ReportError, SockTypeOK
<1>7. CASE ForceClosed
  <2>1. slot' \in Slot
    BY <1>0, <1>7 DEF ForceClosed, Slot, Types
  <2>2. loop' \in Loops /\ closes' \in Nat
    <3>1. loop.back \in {"ctrl", "wait"}
      BY <1>0, <1>7 DEF ForceClosed, Loops
    <3> QED
      BY <1>1, <1>7, <3>1 DEF ForceClosed, SockTypeOK
  <2> QED
    BY <1>7, <2>1, <2>2 DEF ForceClosed, SockTypeOK
<1>8. CASE ReportAccept
  <2>1. slot.id + 1 \in 0 .. MaxId
    BY <1>0, <1>8 DEF ReportAccept, Reservable
  <2>2. slot' \in Slot
    BY <1>0, <1>8, <2>1 DEF ReportAccept, NewFd, Reserved, Slot, Types
  <2>3. wire' \in Seq(Item) /\ closes' \in Nat /\ owed' \subseteq Item /\ sent' = sent
    BY <1>0, <1>8 DEF ReportAccept, NewHistory
  <2>4. {over', cut', refused'} \subseteq BOOLEAN
    BY <1>8, Zenon DEF ReportAccept, NewHistory
  <2> QED
    BY <1>8, <2>2, <2>3, <2>4 DEF ReportAccept, NewFd, SockTypeOK
<1>9. ASSUME \/ cut' = cut \/ cut' = (cut \/ Len(slot.high) % 2 = 1),
             \/ over' = over \/ over' = TRUE,
             \/ refused' = refused \/ \E id \in Ids : refused' = (refused \/ ~SocketInvalid(id))
      PROVE  {over', cut', refused'} \subseteq BOOLEAN
  <2>1. over \in BOOLEAN /\ cut \in BOOLEAN /\ refused \in BOOLEAN
    BY DEF SockTypeOK
  <2>2. cut' \in BOOLEAN
    BY <1>9, <2>1, Zenon
  <2>3. refused' \in BOOLEAN
    BY <1>9, <2>1, Zenon
  <2>4. over' \in BOOLEAN
    BY <1>9, <2>1, Zenon
  <2> QED
    BY <2>2, <2>3, <2>4
<1>10. CASE ReportConnect
  <2>1. CASE ForceClose(FALSE) /\ UNCHANGED <<ev, told>>
    <3>1. {over', cut', refused'} \subseteq BOOLEAN
      BY <1>9, <1>10, <2>1 DEF ReportConnect, ForceClose
    <3> QED
      BY <1>2, <1>10, <2>1, <3>1 DEF ReportConnect, SockTypeOK
  <2>2. CASE /\ slot' = [slot EXCEPT !.type = "CONNECTED", !.writing = @ /\ ~NomoreSendingData]
             /\ told' = told \cup {slot.id} /\ Consumed /\ UNCHANGED cut
    <3>1. slot' \in Slot
      BY <1>0, <2>2 DEF Slot, Types
    <3>2. slot.id \in Ids
      <4>1. slot.id # 0
        BY <1>10 DEF ReportConnect, OnSlotEvent, TcpInv
      <4> QED
        BY <1>0, <4>1 DEF Ids
    <3> QED
      BY <1>3, <1>10, <2>2, <3>1, <3>2 DEF ReportConnect, SockTypeOK
  <2> QED
    BY <1>10, <2>1, <2>2 DEF ReportConnect
<1>11. CASE RecvZero
  <2>1. UNCHANGED <<pipe, api, told, peer, wire, sent, over, owed, refused>>
    BY <1>11 DEF RecvZero
  <2>2. CASE (\E close \in BOOLEAN : ForceClose(close)) /\ UNCHANGED <<ev, closes>>
    <3>1. {over', cut', refused'} \subseteq BOOLEAN
      BY <1>9, <2>1, <2>2 DEF ForceClose
    <3> QED
      BY <1>2, <2>1, <2>2, <3>1 DEF SockTypeOK
  <2>3. CASE CloseRead(slot) /\ Consumed /\ UNCHANGED cut
    <3>1. slot' \in Slot /\ closes' \in Nat
      BY <1>0, <2>3, CloseReadDoes DEF SockTypeOK
    <3> QED
      BY <1>3, <2>1, <2>3, <3>1 DEF SockTypeOK
  <2>4. CASE UNCHANGED <<slot, closes, cut>> /\ Consumed
    BY <1>3, <2>1, <2>4 DEF SockTypeOK
  <2>5. CASE UNCHANGED <<slot, closes, cut>> /\ ev' = [ev EXCEPT !.read = FALSE] /\ UNCHANGED loop
    <3>1. ev # NoEvent
      BY <1>11 DEF RecvZero, ReadNext, OnSlotEvent
    <3>2. ev' \in [read : BOOLEAN, write : BOOLEAN, error : BOOLEAN, eof : BOOLEAN]
      BY <2>5, <3>1 DEF SockTypeOK
    <3> QED
      BY <2>1, <2>5, <3>2 DEF SockTypeOK
  <2> QED
    BY <1>11, <2>2, <2>3, <2>4, <2>5 DEF RecvZero
<1>12. CASE Eof
  <2>1. PICK close \in BOOLEAN : ForceClose(close)
    <3>1. (~HalfcloseRead) \in BOOLEAN
      BY DEF HalfcloseRead
    <3> QED
      BY <1>12, <3>1 DEF Eof
  <2>2. {over', cut', refused'} \subseteq BOOLEAN
    BY <1>9, <1>12, <2>1 DEF Eof, ForceClose
  <2> QED
    BY <1>2, <1>12, <2>1, <2>2 DEF Eof, SockTypeOK
<1>13. CASE SendError
  <2>1. UNCHANGED <<pipe, api, told, wire, sent, closes, over, owed, refused>> /\ peer' = "gone"
    BY <1>13 DEF SendError
  <2>2. CASE ForceClose(FALSE) /\ UNCHANGED ev
    <3>1. {over', cut', refused'} \subseteq BOOLEAN
      BY <1>9, <2>1, <2>2 DEF ForceClose
    <3> QED
      BY <1>2, <2>1, <2>2, <3>1 DEF SockTypeOK
  <2>3. CASE /\ slot' = [slot EXCEPT !.dw = << >>, !.high = slot.dw \o @,
                            !.writing = @ /\ slot.type = "HALFCLOSE_WRITE",
                            !.type = "HALFCLOSE_WRITE"]
             /\ Consumed /\ UNCHANGED cut
    <3>1. slot' \in Slot
      BY <1>0, <2>3, AllType DEF Slot, Types
    <3> QED
      BY <1>3, <2>1, <2>3, <3>1 DEF SockTypeOK
  <2> QED
    BY <1>13, <2>2, <2>3 DEF SendError
<1>14. ASSUME NEW n \in 0 .. 2 * Cardinality(Item), SendBuffer(n) PROVE SockTypeOK'
  <2> DEFINE high == slot.dw \o slot.high
             all  == high \o slot.low
             rest == SubSeq(all, n + 1, Len(all))
             kept == IF n < Len(high) THEN Len(high) - n ELSE (n - Len(high)) % 2
  <2>1. /\ all \in Seq(Item) /\ high \in Seq(Item) /\ Len(all) \in Nat /\ Len(high) \in Nat
        /\ Len(all) = Len(high) + Len(slot.low) /\ Len(slot.low) \in Nat
    BY <1>0, AllType, ConcatProperties, LenProperties
  <2>n. n \in Nat
    OBVIOUS
  <2>2. /\ n <= Len(all) /\ wire' = wire \o SubSeq(all, 1, n)
        /\ UNCHANGED <<pipe, api, told, sent, peer, closes, over, owed, refused>>
        /\ \/ /\ rest # << >>
              /\ slot' = [slot EXCEPT !.dw = << >>, !.high = SubSeq(rest, 1, kept),
                                      !.low = SubSeq(rest, kept + 1, Len(rest))]
              /\ Consumed /\ UNCHANGED cut
           \/ /\ slot' = [slot EXCEPT !.dw = << >>, !.high = << >>, !.low = << >>,
                                      !.writing = FALSE]
              /\ Consumed /\ UNCHANGED cut
           \/ /\ slot' = [slot EXCEPT !.dw = << >>, !.high = << >>, !.low = << >>]
              /\ loop' = [at |-> "force", back |-> "wait", close |-> FALSE]
              /\ UNCHANGED <<ev, cut>>
    BY <1>14, Zenon DEF SendBuffer
  <2> HIDE DEF high, all
  <2>3. /\ rest \in Seq(Item) /\ SubSeq(all, 1, n) \in Seq(Item)
        /\ Len(rest) = Len(all) - n
    <3>0. /\ all \in Seq(Item) /\ n <= Len(all) /\ Len(all) \in Int /\ Len(all) <= Len(all)
          /\ n + 1 \in Nat /\ n + 1 >= 1 /\ n \in Int /\ 1 \in Nat /\ 1 >= 1
      BY <2>n, <2>1, <2>2
    <3>a. rest \in Seq(Item)
      BY <3>0, SubSeqType
    <3>b. SubSeq(all, 1, n) \in Seq(Item)
      BY <3>0, SubSeqType
    <3>1. rest \in Seq(Item) /\ SubSeq(all, 1, n) \in Seq(Item)
      BY <3>a, <3>b
    <3>2. \A i \in n + 1 .. Len(all) : all[i] \in Item
      BY <2>n, <2>1, <2>2, ElementOfSeq
    <3> QED
      BY <2>n, <2>1, <2>2, <3>1, <3>2, SubSeqProperties
  <2> HIDE DEF rest
  <2>4. /\ wire' \in Seq(Item)
    BY <1>0, <2>2, <2>3, ConcatProperties
  <2>5. CASE /\ rest # << >>
             /\ slot' = [slot EXCEPT !.dw = << >>, !.high = SubSeq(rest, 1, kept),
                                     !.low = SubSeq(rest, kept + 1, Len(rest))]
             /\ Consumed /\ UNCHANGED cut
    <3>1. kept \in Nat /\ kept <= Len(rest)
      <4>1. CASE n < Len(high)
        BY <2>n, <2>1, <2>2, <2>3, <4>1
      <4>2. CASE ~(n < Len(high))
        <5>1. n - Len(high) \in Nat /\ kept \in {0, 1}
          BY <2>n, <2>1, <2>2, <4>2, EvenSum
        <5>2. Len(rest) \in Nat \ {0}
          BY <2>3, <2>5, EmptySeq
        <5> QED
          BY <5>1, <5>2
      <4> QED
        BY <4>1, <4>2
    <3> HIDE DEF kept
    <3>2. SubSeq(rest, 1, kept) \in Seq(Item) /\ SubSeq(rest, kept + 1, Len(rest)) \in Seq(Item)
      BY <2>3, <3>1, SubSeqType, LenProperties
    <3>3. slot' \in Slot
      BY <1>0, <2>5, <3>2 DEF Slot
    <3> QED
      BY <1>3, <2>2, <2>4, <2>5, <3>3 DEF SockTypeOK
  <2>6. CASE /\ slot' = [slot EXCEPT !.dw = << >>, !.high = << >>, !.low = << >>,
                                     !.writing = FALSE]
             /\ Consumed /\ UNCHANGED cut
    <3>1. slot' \in Slot
      BY <1>0, <2>6 DEF Slot
    <3> QED
      BY <1>3, <2>2, <2>4, <2>6, <3>1 DEF SockTypeOK
  <2>7. CASE /\ slot' = [slot EXCEPT !.dw = << >>, !.high = << >>, !.low = << >>]
             /\ loop' = [at |-> "force", back |-> "wait", close |-> FALSE]
             /\ UNCHANGED <<ev, cut>>
    <3>1. slot' \in Slot
      BY <1>0, <2>7 DEF Slot
    <3>2. loop' \in Loops
      BY <2>7 DEF Loops
    <3> QED
      BY <2>2, <2>4, <2>7, <3>1, <3>2 DEF SockTypeOK
  <2> QED
    BY <2>2, <2>5, <2>6, <2>7
<1>15. ASSUME NEW id \in Ids, OpenSocket(id) PROVE SockTypeOK'
  <2>1. pipe' \in Seq(Commands) /\ Len(pipe') <= PipeSize
    BY <1>15, HeadType DEF OpenSocket
  <2>2. \/ slot' = [slot EXCEPT !.type = "INVALID"] /\ peer' = peer
        \/ NewFd(slot, "CONNECTED", TRUE, FALSE)
        \/ NewFd(slot, "CONNECTING", TRUE, TRUE)
    BY <1>15 DEF OpenSocket
  <2>3. slot' \in Slot /\ peer' \in {"open", "fin", "error", "gone"}
    <3>1. CASE slot' = [slot EXCEPT !.type = "INVALID"] /\ peer' = peer
      BY <1>0, <3>1 DEF Slot, Types, SockTypeOK
    <3>2. ASSUME NEW type \in {"CONNECTED", "CONNECTING"}, NEW writing \in BOOLEAN,
                 NewFd(slot, type, TRUE, writing)
          PROVE  slot' \in Slot /\ peer' = "open"
      BY <1>0, <3>2 DEF NewFd, Slot, Types
    <3> QED
      BY <2>2, <3>1, <3>2
  <2>4. told' \subseteq Ids
    BY <1>0, <1>15 DEF OpenSocket
  <2> QED
    BY <1>15, <2>1, <2>3, <2>4 DEF OpenSocket, SockTypeOK
<1>16. ASSUME NEW id \in Ids, ResumeSocket(id) \/ PauseSocket(id) \/ EnableWrite(id) PROVE SockTypeOK'
  <2>1. pipe' \in Seq(Commands) /\ Len(pipe') <= PipeSize
    BY <1>16, HeadType DEF ResumeSocket, PauseSocket, EnableWrite
  <2>2. slot' \in Slot
    <3>1. \/ slot' = slot \/ slot' = [slot EXCEPT !.writing = TRUE]
          \/ slot' = [slot EXCEPT !.reading = FALSE]
          \/ slot' = [slot EXCEPT !.reading = TRUE,
                                  !.type = IF @ = "PACCEPT" THEN "CONNECTED" ELSE @]
      BY <1>16 DEF ResumeSocket, PauseSocket, EnableWrite
    <3>2. CASE slot' = slot \/ slot' = [slot EXCEPT !.writing = TRUE]
               \/ slot' = [slot EXCEPT !.reading = FALSE]
      BY <1>0, <3>2 DEF Slot
    <3>3. CASE slot' = [slot EXCEPT !.reading = TRUE,
                                    !.type = IF @ = "PACCEPT" THEN "CONNECTED" ELSE @]
      BY <1>0, <3>3 DEF Slot, Types
    <3> QED
      BY <3>1, <3>2, <3>3
  <2> QED
    BY <1>16, <2>1, <2>2 DEF ResumeSocket, PauseSocket, EnableWrite, SockTypeOK
<1>17. ASSUME NEW id \in Ids, NEW how \in {"K", "shutdown"}, CloseSocket(id, how) PROVE SockTypeOK'
  <2>1. pipe' \in Seq(Commands) /\ Len(pipe') <= PipeSize
    BY <1>17, HeadType DEF CloseSocket
  <2>2. UNCHANGED <<ev, api, told, peer, wire, sent, over, owed, refused>>
    BY <1>17 DEF CloseSocket
  <2>3. [slot EXCEPT !.closing = TRUE] \in Slot
    BY <1>0 DEF Slot
  <2>4. CASE UNCHANGED <<slot, loop, closes, cut>>
    BY <2>1, <2>2, <2>4 DEF SockTypeOK
  <2>5. CASE ForceClose(~HalfcloseRead) /\ UNCHANGED closes
    <3>1. (~HalfcloseRead) \in BOOLEAN
      BY DEF HalfcloseRead
    <3>2. {over', cut', refused'} \subseteq BOOLEAN
      BY <1>9, <2>2, <2>5 DEF ForceClose
    <3> QED
      BY <1>2, <2>1, <2>2, <2>5, <3>1, <3>2 DEF SockTypeOK
  <2>6. CASE /\ UNCHANGED <<loop, cut>>
             /\ \/ slot' = [slot EXCEPT !.closing = TRUE] /\ UNCHANGED closes
                \/ CloseRead([slot EXCEPT !.closing = TRUE])
    <3>1. slot' \in Slot /\ closes' \in Nat
      <4>1. CASE slot' = [slot EXCEPT !.closing = TRUE] /\ UNCHANGED closes
        BY <2>3, <4>1 DEF SockTypeOK
      <4>2. CASE CloseRead([slot EXCEPT !.closing = TRUE])
        BY <2>3, <4>2, CloseReadDoes DEF SockTypeOK
      <4> QED
        BY <2>6, <4>1, <4>2
    <3> QED
      BY <2>1, <2>2, <2>6, <3>1 DEF SockTypeOK
  <2> QED
    BY <1>17, <2>4, <2>5, <2>6 DEF CloseSocket
<1>18. ASSUME NEW id \in Ids, NEW c \in {"D", "P"}, SendSocket(c, id) PROVE SockTypeOK'
  <2> DEFINE item == Halves(Head(pipe).item, 2)
  <2>1. /\ pipe' \in Seq(Commands) /\ Len(pipe') <= PipeSize
        /\ pipe # << >> /\ Head(pipe).cmd = c /\ Head(pipe).id = id /\ Head(pipe).item \in Item
    BY <1>18, HeadType DEF SendSocket
  <2>2. item \in Seq(Item) /\ slot.high \o item \in Seq(Item) /\ slot.low \o item \in Seq(Item)
    BY <1>0, <2>1, HalvesType, AllType, ConcatProperties
  <2>3. slot.id = id /\ slot.tcp => slot.count - 1 \in Nat
    BY <2>1, CountedHead DEF Sending
  <2>4. ASSUME NEW s \in Slot, s.id = slot.id, s.tcp = slot.tcp, s.count = slot.count
        PROVE  Uncounted(s, id) \in Slot
    <3>1. CASE s.id = id /\ s.tcp
      BY <2>3, <2>4, <3>1 DEF Uncounted, Slot
    <3>2. CASE ~(s.id = id /\ s.tcp)
      BY <2>4, <3>2 DEF Uncounted
    <3> QED
      BY <3>1, <3>2
  <2> HIDE DEF item
  <2>5. /\ [slot EXCEPT !.high = @ \o item, !.writing = @ \/ ListsEmpty] \in Slot
        /\ [slot EXCEPT !.low = @ \o item] \in Slot
    BY <1>0, <2>2 DEF Slot
  <2>6. \/ slot' = Uncounted(slot, id)
        \/ slot' = Uncounted([slot EXCEPT !.high = @ \o item, !.writing = @ \/ ListsEmpty], id)
        \/ slot' = Uncounted([slot EXCEPT !.low = @ \o item], id)
    BY <1>18 DEF SendSocket, item
  <2>7. slot' \in Slot
    BY <1>0, <2>4, <2>5, <2>6 DEF Slot
  <2>8. {over', cut', refused'} \subseteq BOOLEAN
    BY <1>9, <1>18 DEF SendSocket
  <2> QED
    BY <1>18, <2>1, <2>7, <2>8 DEF SendSocket, SockTypeOK
<1>19. ASSUME NEW how \in {"fin", "error"}, PeerEnds(how) PROVE SockTypeOK'
  <2>1. {over', cut', refused'} \subseteq BOOLEAN
    BY <1>9, <1>19 DEF PeerEnds
  <2>2. owed' \subseteq Item
    BY <1>19 DEF PeerEnds, SockTypeOK
  <2> QED
    BY <1>19, <2>1, <2>2 DEF PeerEnds, SockTypeOK
<1> QED
  BY <1>4, <1>5, <1>6, <1>7, <1>8, <1>10, <1>11, <1>12, <1>13, <1>14, <1>15, <1>16, <1>17, <1>18, <1>19
  DEF SockThread

-----------------------------------------------------------------------------
(* The invariants together *)

SockInv == SockTypeOK /\ IdsInv /\ TcpInv /\ EmptyInv /\ LockInv /\ CloseInv /\ SendingCounts

LEMMA SockInvInit == SockInit => SockInv
<1> SUFFICES ASSUME SockInit PROVE SockInv
  OBVIOUS
<1>1. SockTypeOK
  BY TypeInit
<1>2. /\ slot.type = "INVALID" /\ slot.id = 0 /\ ~slot.tcp /\ slot.high = << >>
      /\ slot.low = << >> /\ slot.dw = << >> /\ loop.at = "wait" /\ pipe = << >> /\ told = {}
      /\ closes = 0 /\ \A v \in Sender : api[v] = Idle /\ api[v].at = "idle"
  BY DEF SockInit, Idle
<1>3. IdsInv
  BY <1>2 DEF IdsInv
<1>4. TcpInv /\ EmptyInv /\ CloseInv /\ SendingCounts
  BY <1>2 DEF TcpInv, EmptyInv, CloseInv, SendingCounts, InUse, ListsEmpty
<1>5. LockInv
  BY <1>2 DEF LockInv, Holds, Calling
<1> QED
  BY <1>1, <1>3, <1>4, <1>5 DEF SockInv

LEMMA SockInvStep == SockInv /\ [SockNext]_sockvars => SockInv'
<1> SUFFICES ASSUME SockInv, [SockNext]_sockvars PROVE SockInv'
  OBVIOUS
<1> USE DEF SockInv
<1>1. CASE SockNext
  <2>1. Services \/ SockThread \/ \E how \in {"fin", "error"} : PeerEnds(how)
    BY <1>1 DEF SockNext
  <2>2. SockTypeOK'
    BY <2>1, TypeServices, TypeThread
  <2>3. IdsInv'
    <3>1. ASSUME NEW how, PeerEnds(how) PROVE IdsInv'
      BY <3>1, IdsKept DEF PeerEnds, PipeTold, IdsInv, hist
    <3> QED
      BY <2>1, <3>1, IdsServices, IdsThread
  <2>4. TcpInv' /\ EmptyInv' /\ CloseInv'
    BY <1>1, TcpStep, EmptyStep, CloseStep
  <2>5. LockInv'
    BY <2>1, LockServices, LockThread
  <2>6. SendingCounts'
    BY <2>1, CountServices, CountThread
  <2> QED
    BY <2>2, <2>3, <2>4, <2>5, <2>6
<1>2. CASE UNCHANGED sockvars
  <2>1. SockTypeOK'
    BY <1>2 DEF sockvars, hist, SockTypeOK
  <2>2. IdsInv' /\ TcpInv' /\ EmptyInv' /\ CloseInv'
    BY <1>2 DEF sockvars, hist, IdsInv, TcpInv, EmptyInv, CloseInv, InUse, ListsEmpty
  <2>3. LockInv'
    BY <1>2, LockKept DEF sockvars, hist, InUse
  <2>4. SendingCounts'
    BY <1>2 DEF sockvars, hist, SendingCounts, Calling
  <2> QED
    BY <2>1, <2>2, <2>3, <2>4
<1> QED
  BY <1>1, <1>2

LEMMA SockInvAlways == SockSpec => []SockInv
BY SockInvInit, SockInvStep, PTL DEF SockSpec

(* The slot and the calls keep the shape that socket_server.c gives them:  *)
(* above all s->sending never goes below zero.                             *)
THEOREM SocketTypeCorrect == SockSpec => []SockTypeOK
<1>1. SockInv => SockTypeOK
  BY DEF SockInv
<1> QED
  BY <1>1, SockInvAlways, PTL

(* s->sending counts the sends on their way for the present id, and no     *)
(* others: inc_sending_ref, dec_sending_ref and the reuse of a slot by     *)
(* reserve_id and new_fd.                                                  *)
THEOREM CountIsTrue == SockSpec => []SendingCounts
<1>1. SockInv => SendingCounts
  BY DEF SockInv
<1> QED
  BY <1>1, SockInvAlways, PTL

(* SOCKET_CLOSE is raised at most once for an id, whichever of close_read, *)
(* close_socket and force_close raises it.                                 *)
THEOREM ClosedOnce == SockSpec => []CloseOnce
<1>1. SockInv => CloseOnce
  BY DEF SockInv, CloseInv, CloseOnce
<1> QED
  BY <1>1, SockInvAlways, PTL

-----------------------------------------------------------------------------
(* What is queued is written *)

Pending == InUse /\ slot.type # "HALFCLOSE_WRITE" /\ ~(ListsEmpty /\ slot.dw = << >>)
Triggers(v) == Calling(v, "trigger") /\ api[v].id = slot.id
Armed ==
  \/ slot.writing
  \/ \E i \in 1 .. Len(pipe) : pipe[i] = Command("W", slot.id)
  \/ \E v \in Sender : Triggers(v)

LEMMA ArmedMeans == WriteArmed <=> (Pending => Armed)
BY DEF WriteArmed, Pending, Armed, Contains, Triggers

LEMMA ArmedMeansNext == WriteArmed' <=> (Pending' => Armed')
BY DEF WriteArmed, Pending, Armed, Contains, Triggers

LEMMA ArmedStays ==
  ASSUME SockTypeOK, Armed, slot'.id = slot.id, slot.writing => slot'.writing,
         \/ pipe' = pipe
         \/ \E c \in Commands : pipe' = Append(pipe, c)
         \/ pipe # << >> /\ Head(pipe).cmd # "W" /\ pipe' = Tail(pipe)
         \/ pipe # << >> /\ Head(pipe).id # slot.id /\ pipe' = Tail(pipe),
         \A v \in Sender : Triggers(v) => api'[v] = api[v]
  PROVE  Armed'
<1>1. CASE slot.writing
  BY <1>1 DEF Armed
<1>2. ASSUME NEW i \in 1 .. Len(pipe), pipe[i] = Command("W", slot.id) PROVE Armed'
  <2>1. \E j \in 1 .. Len(pipe') : pipe'[j] = pipe[i]
    <3>0. pipe \in Seq(Commands) /\ Len(pipe) \in Nat /\ i \in 1 .. Len(pipe)
      BY <1>2, LenProperties DEF SockTypeOK
    <3>1. CASE pipe' = pipe
      BY <3>1
    <3>2. ASSUME NEW c \in Commands, pipe' = Append(pipe, c)
          PROVE  \E j \in 1 .. Len(pipe') : pipe'[j] = pipe[i]
      <4>1. Len(pipe') = Len(pipe) + 1 /\ pipe'[i] = pipe[i]
        BY <3>0, <3>2, AppendProperties
      <4> QED
        BY <3>0, <4>1
    <3>3. CASE /\ pipe # << >> /\ pipe' = Tail(pipe)
               /\ Head(pipe).cmd # "W" \/ Head(pipe).id # slot.id
      <4>0. Command("W", slot.id).cmd = "W" /\ Command("W", slot.id).id = slot.id
        BY DEF Command
      <4>1. Head(pipe) = pipe[1] /\ pipe[i].cmd = "W" /\ pipe[i].id = slot.id
        BY <1>2, <3>3, <4>0, PipeTail
      <4>2. i # 1
        BY <3>3, <4>1
      <4>3. /\ Len(pipe') = Len(pipe) - 1
            /\ \A j \in 1 .. Len(pipe') : pipe'[j] = pipe[j + 1]
        BY <3>3, PipeTail
      <4>4. i - 1 \in 1 .. Len(pipe') /\ (i - 1) + 1 = i
        BY <3>0, <4>2, <4>3
      <4>5. pipe'[i - 1] = pipe[i]
        BY <4>3, <4>4
      <4> QED
        BY <4>4, <4>5
    <3> QED
      BY <3>1, <3>2, <3>3
  <2> QED
    BY <1>2, <2>1 DEF Armed
<1>3. ASSUME NEW v \in Sender, Triggers(v) PROVE Armed'
  <2>1. Triggers(v)'
    BY <1>3 DEF Triggers, Calling
  <2> QED
    BY <2>1 DEF Armed
<1> QED
  BY <1>1, <1>2, <1>3 DEF Armed

LEMMA ArmedServices ==
  ASSUME SockInv, WriteArmed, Services PROVE WriteArmed'
<1> USE DEF hist, SockInv
<1>0. slot \in Slot /\ api \in [Sender -> Calls] /\ pipe \in Seq(Commands)
  BY DEF SockTypeOK
<1>1. ASSUME slot'.id = slot.id, slot'.type = slot.type, slot'.writing = slot.writing,
             slot'.high = slot.high, slot'.low = slot.low, slot'.dw \in {slot.dw, << >>},
             pipe' = pipe \/ \E c \in Commands : pipe' = Append(pipe, c),
             \A v \in Sender : Triggers(v) => api'[v] = api[v]
      PROVE  WriteArmed'
  <2>1. Pending' => Pending
    BY <1>1 DEF Pending, InUse, ListsEmpty
  <2>2. Armed => Armed'
    BY <1>1, ArmedStays
  <2> QED
    BY <2>1, <2>2, ArmedMeans, ArmedMeansNext
<1>2. CASE SockConnect
  <2>1. slot'.type = "RESERVE"
    BY <1>0, <1>2 DEF SockConnect, Reserved, Slot
  <2> QED
    BY <2>1 DEF WriteArmed, InUse
<1>3. CASE \E id \in Ids : SockStart(id) \/ SockPause(id)
                             \/ \E how \in {"K", "shutdown"} : SockClose(id, how)
  <2>1. slot' = slot /\ api' = api
    BY <1>3 DEF SockStart, SockPause, SockClose
  <2>2. \E c \in {"R", "S", "K", "shutdown"}, id \in Ids : pipe' = Append(pipe, Command(c, id))
    BY <1>3 DEF SockStart, SockPause, SockClose, SendRequest
  <2>3. \E c \in Commands : pipe' = Append(pipe, c)
    BY <2>2, CommandType
  <2> QED
    BY <1>1, <2>1, <2>3
<1>4. ASSUME NEW id \in Ids, NEW v \in Sender, NEW m \in Item, NEW low \in BOOLEAN,
             SockSend(v, id, m, low)
      PROVE  WriteArmed'
  <2>1. slot' = slot /\ pipe' = pipe /\ ~Triggers(v) /\ \A w \in Sender : w # v => api'[w] = api[w]
    BY <1>0, <1>4 DEF SockSend, Triggers, Calling, Idle
  <2> QED
    BY <1>1, <2>1
<1>5. ASSUME NEW v \in Sender,
             \/ CheckQueues(v) \/ CheckSending(v) \/ TryLock(v) \/ RecheckQueues(v)
             \/ RecheckSending(v) \/ IncSendingRef(v)
      PROVE  WriteArmed'
  <2>1. /\ slot'.id = slot.id /\ slot'.type = slot.type /\ slot'.writing = slot.writing
        /\ slot'.high = slot.high /\ slot'.low = slot.low /\ slot'.dw = slot.dw /\ pipe' = pipe
    BY <1>0, <1>5 DEF CheckQueues, CheckSending, TryLock, RecheckQueues, RecheckSending,
       IncSendingRef, Slot
  <2>2. ~Triggers(v) /\ \A w \in Sender : w # v => api'[w] = api[w]
    BY <1>0, <1>5 DEF CheckQueues, CheckSending, TryLock, RecheckQueues, RecheckSending,
       IncSendingRef, Triggers, Calling, Goes
  <2> QED
    BY <1>1, <2>1, <2>2
<1>6. ASSUME NEW v \in Sender, NEW n \in 0 .. 2, DirectWrite(v, n) PROVE WriteArmed'
  <2>1. /\ slot'.id = slot.id /\ slot'.type = slot.type /\ slot'.writing = slot.writing
        /\ slot'.high = slot.high /\ slot'.low = slot.low /\ slot'.dw = Halves(api[v].item, 2 - n)
        /\ pipe' = pipe
    BY <1>0, <1>6 DEF DirectWrite, Slot
  <2>a. api[v].at = "write"
    BY <1>6 DEF DirectWrite, Calling
  <2>b. slot.id = api[v].id
    BY <2>a DEF LockInv
  <2>c. ~Triggers(v) /\ api[v] # Idle
    BY <2>a DEF Calling, Triggers, Idle
  <2>2. slot.id = api[v].id /\ ~Triggers(v) /\ api[v] # Idle
    BY <2>b, <2>c
  <2>3. CASE n = 2
    <3>1. slot'.dw = << >>
      BY <2>1, <2>3 DEF Halves
    <3>2. \A w \in Sender : w # v => api'[w] = api[w]
      BY <1>0, <1>6, <2>3 DEF DirectWrite, Taken
    <3> QED
      BY <1>1, <2>1, <2>2, <3>1, <3>2
  <2>4. CASE n # 2
    <3>1. Goes(v, "trigger")
      BY <1>6, <2>4 DEF DirectWrite
    <3>2. api'[v].at = "trigger" /\ api'[v].id = api[v].id
      BY <1>0, <2>2, <3>1, GoesType
    <3>3. Armed'
      BY <2>1, <2>2, <3>2 DEF Armed, Triggers, Calling
    <3> QED
      BY <3>3, ArmedMeansNext
  <2> QED
    BY <2>3, <2>4
<1>7. ASSUME NEW v \in Sender, TriggerWrite(v) PROVE WriteArmed'
  <2>1. /\ slot' = slot /\ pipe' = Append(pipe, Command("W", api[v].id)) /\ api[v].id \in Ids
        /\ \A w \in Sender : w # v => api'[w] = api[w]
    BY <1>0, <1>7 DEF TriggerWrite, SendRequest, Taken, Calling, Calls, Idle
  <2>2. Command("W", api[v].id) \in Commands
    BY <2>1, CommandType
  <2>3. CASE api[v].id = slot.id
    <3>1. Len(pipe) + 1 \in 1 .. Len(pipe') /\ pipe'[Len(pipe) + 1] = Command("W", api[v].id)
      <4>1. /\ Len(pipe') = Len(pipe) + 1 /\ Len(pipe) \in Nat
            /\ pipe'[Len(pipe) + 1] = Command("W", api[v].id)
        BY <1>0, <2>1, <2>2, AppendProperties, LenProperties
      <4> QED
        BY <4>1
    <3>2. Armed'
      BY <2>1, <2>3, <3>1 DEF Armed
    <3> QED
      BY <3>2, ArmedMeansNext
  <2>4. CASE api[v].id # slot.id
    BY <1>1, <2>1, <2>2, <2>4 DEF Triggers
  <2> QED
    BY <2>3, <2>4
<1>8. ASSUME NEW v \in Sender, RequestSend(v) PROVE WriteArmed'
  <2>1. /\ slot' = slot /\ pipe' = Append(pipe, Request(api[v].cmd, api[v].id, api[v].item))
        /\ api[v].id \in Ids /\ api[v].item \in Item /\ api[v].cmd \in {"D", "P"}
        /\ ~Triggers(v) /\ \A w \in Sender : w # v => api'[w] = api[w]
    BY <1>0, <1>8 DEF RequestSend, SendRequest, Taken, Calling, Calls, Idle, Triggers
  <2>2. \E c \in Commands : pipe' = Append(pipe, c)
    BY <2>1, CommandType
  <2> QED
    BY <1>1, <2>1, <2>2
<1> QED
  BY <1>2, <1>3, <1>4, <1>5, <1>6, <1>7, <1>8 DEF Services

(* What send_buffer leaves: the halves in their order, the first of them   *)
(* in high until it ends where an item does.                               *)
All == (slot.dw \o slot.high) \o slot.low
Ends(n) == IF n < Len(slot.dw \o slot.high) THEN Len(slot.dw \o slot.high) - n
                                            ELSE (n - Len(slot.dw \o slot.high)) % 2

LEMMA SendBufferDoes ==
  ASSUME slot \in Slot, NEW n \in Nat, SendBuffer(n)
  PROVE  /\ All \in Seq(Item) /\ Len(All) \in Nat /\ n <= Len(All)
         /\ wire' = wire \o SubSeq(All, 1, n)
         /\ SubSeq(All, 1, n) \in Seq(Item) /\ Len(SubSeq(All, 1, n)) = n
         /\ slot'.type = slot.type /\ slot'.id = slot.id /\ slot'.closing = slot.closing
         /\ slot'.count = slot.count /\ slot'.dw = << >> /\ ~slot.locked /\ InUse
         /\ slot'.high \in Seq(Item) /\ slot'.low \in Seq(Item)
         /\ slot'.high \o slot'.low = SubSeq(All, n + 1, Len(All))
         /\ cut' = cut /\ api' = api /\ pipe' = pipe /\ told' = told /\ sent' = sent
         /\ refused' = refused /\ closes' = closes
         /\ \/ n < Len(All) /\ Len(slot'.high) = Ends(n) /\ slot'.writing = slot.writing
            \/ n = Len(All) /\ slot'.high = << >> /\ slot'.low = << >>
                 /\ (slot.closing => loop'.at = "force")
<1> DEFINE high == slot.dw \o slot.high
           rest == SubSeq(All, n + 1, Len(All))
<1>1. /\ All \in Seq(Item) /\ high \in Seq(Item) /\ Len(All) \in Nat /\ Len(high) \in Nat
      /\ Len(All) = Len(high) + Len(slot.low) /\ Len(slot.low) \in Nat
  BY AllType, ConcatProperties, LenProperties DEF All
<1>2. /\ n <= Len(All) /\ wire' = wire \o SubSeq(All, 1, n)
      /\ UNCHANGED <<pipe, api, told, sent, peer, closes, over, owed, refused>>
      /\ WriteNext /\ ~slot.locked
      /\ \/ /\ rest # << >>
            /\ slot' = [slot EXCEPT !.dw = << >>, !.high = SubSeq(rest, 1, Ends(n)),
                                    !.low = SubSeq(rest, Ends(n) + 1, Len(rest))]
            /\ Consumed /\ UNCHANGED cut
         \/ /\ rest = << >> /\ ~slot.closing
            /\ slot' = [slot EXCEPT !.dw = << >>, !.high = << >>, !.low = << >>,
                                    !.writing = FALSE]
            /\ Consumed /\ UNCHANGED cut
         \/ /\ rest = << >> /\ slot.closing
            /\ slot' = [slot EXCEPT !.dw = << >>, !.high = << >>, !.low = << >>]
            /\ loop' = [at |-> "force", back |-> "wait", close |-> FALSE]
            /\ UNCHANGED <<ev, cut>>
  BY Zenon DEF SendBuffer, All, Ends
<1> HIDE DEF high
<1>a. n \in Nat /\ n <= Len(All)
  BY <1>2
<1>b. \A i \in 1 .. Len(All) : All[i] \in Item
  BY <1>1, ElementOfSeq
<1>3. \A i \in n + 1 .. Len(All) : All[i] \in Item
  BY <1>1, <1>b
<1>4. \A i \in 1 .. n : All[i] \in Item
  BY <1>1, <1>a, <1>b
<1>5. /\ SubSeq(All, 1, n) \in Seq(Item) /\ Len(SubSeq(All, 1, n)) = n
  BY <1>4, SubSeqProperties
<1>6. rest \in Seq(Item) /\ Len(rest) = Len(All) - n
  BY <1>1, <1>a, <1>3, SubSeqProperties
<1>7. (rest = << >>) <=> n = Len(All)
  <2> HIDE DEF rest
  <2> QED
    BY <1>1, <1>a, <1>6, EmptySeq
<1>8. /\ slot'.type = slot.type /\ slot'.id = slot.id /\ slot'.closing = slot.closing
      /\ slot'.count = slot.count /\ slot'.dw = << >>
      /\ \/ rest # << >> /\ slot'.high = SubSeq(rest, 1, Ends(n)) /\ slot'.writing = slot.writing
              /\ slot'.low = SubSeq(rest, Ends(n) + 1, Len(rest))
         \/ rest = << >> /\ slot'.high = << >> /\ slot'.low = << >>
              /\ (slot.closing => loop'.at = "force")
  <2>1. CASE /\ rest # << >>
             /\ slot' = [slot EXCEPT !.dw = << >>, !.high = SubSeq(rest, 1, Ends(n)),
                                     !.low = SubSeq(rest, Ends(n) + 1, Len(rest))]
    BY <2>1 DEF Slot
  <2>2. CASE /\ rest = << >> /\ ~slot.closing
             /\ slot' = [slot EXCEPT !.dw = << >>, !.high = << >>, !.low = << >>,
                                     !.writing = FALSE]
    BY <2>2 DEF Slot
  <2>3. CASE /\ rest = << >> /\ loop' = [at |-> "force", back |-> "wait", close |-> FALSE]
             /\ slot' = [slot EXCEPT !.dw = << >>, !.high = << >>, !.low = << >>]
    BY <2>3 DEF Slot
  <2> QED
    BY <1>2, <2>1, <2>2, <2>3
<1> HIDE DEF rest
<1>9. cut' = cut /\ InUse
  BY <1>2 DEF WriteNext, OnSlotEvent
<1>10. CASE rest # << >>
  <2>1. Len(rest) \in Nat \ {0} /\ n < Len(All)
    BY <1>1, <1>6, <1>7, <1>10, EmptySeq
  <2>2. Ends(n) \in Nat /\ Ends(n) <= Len(rest)
    <3>1. CASE n < Len(high)
      <4>1. Ends(n) = Len(high) - n
        BY <3>1 DEF Ends, high
      <4> QED
        BY <1>1, <1>a, <1>6, <3>1, <4>1
    <3>2. CASE ~(n < Len(high))
      <4>1. n - Len(high) \in Nat
        BY <1>1, <3>2
      <4>2. Ends(n) \in {0, 1}
        BY <3>2, <4>1, EvenSum DEF Ends, high
      <4> QED
        BY <2>1, <4>2
    <3> QED
      BY <3>1, <3>2
  <2>3. SubSeq(rest, 1, Ends(n)) \in Seq(Item) /\ SubSeq(rest, Ends(n) + 1, Len(rest)) \in Seq(Item)
    BY <1>6, <2>1, <2>2, SubSeqType
  <2>4. Len(SubSeq(rest, 1, Ends(n))) = Ends(n)
    <3>1. \A i \in 1 .. Ends(n) : rest[i] \in Item
      BY <1>6, <2>1, <2>2, ElementOfSeq
    <3> QED
      BY <2>2, <3>1, SubSeqProperties
  <2>5. SubSeq(rest, 1, Ends(n)) \o SubSeq(rest, Ends(n) + 1, Len(rest)) = rest
    <3>1. /\ 1 \in 1 .. Len(rest) + 1 /\ Ends(n) \in 1 - 1 .. Len(rest)
          /\ Len(rest) \in Ends(n) .. Len(rest)
      BY <2>1, <2>2
    <3>2. SubSeq(rest, 1, Ends(n)) \o SubSeq(rest, Ends(n) + 1, Len(rest)) = SubSeq(rest, 1, Len(rest))
      BY <1>6, <3>1, ConcatAdjacentSubSeq
    <3> QED
      BY <1>6, <3>2, SubSeqFull
  <2>6. slot'.high \o slot'.low = SubSeq(All, n + 1, Len(All))
    BY <1>8, <1>10, <2>5 DEF rest
  <2> QED
    BY <1>1, <1>2, <1>5, <1>8, <1>9, <1>10, <2>1, <2>3, <2>4, <2>6
<1>11. CASE rest = << >>
  <2>1. slot'.high = << >> /\ slot'.low = << >> /\ << >> \in Seq(Item) /\ n = Len(All)
    BY <1>7, <1>8, <1>11, EmptySeq
  <2>2. slot'.high \o slot'.low = << >>
    BY <2>1, ConcatEmptySeq
  <2>3. slot'.high \o slot'.low = SubSeq(All, n + 1, Len(All))
    BY <1>11, <2>2 DEF rest
  <2> QED
    BY <1>1, <1>2, <1>5, <1>8, <1>9, <1>11, <2>1, <2>3
<1> QED
  BY <1>10, <1>11

LEMMA AllEmpty ==
  ASSUME slot \in Slot PROVE Len(All) = 0 <=> ListsEmpty /\ slot.dw = << >>
<1>1. /\ slot.dw \in Seq(Item) /\ slot.high \in Seq(Item) /\ slot.low \in Seq(Item)
      /\ slot.dw \o slot.high \in Seq(Item) /\ All \in Seq(Item)
  BY AllType DEF All
<1>2. Len(All) = 0 <=> All = << >>
  BY <1>1, EmptySeq
<1>3. All = << >> <=> slot.dw \o slot.high = << >> /\ slot.low = << >>
  BY <1>1, ConcatEqualIffEmpty DEF All
<1>4. slot.dw \o slot.high = << >> <=> slot.dw = << >> /\ slot.high = << >>
  BY <1>1, ConcatEqualIffEmpty
<1> QED
  BY <1>2, <1>3, <1>4 DEF ListsEmpty

LEMMA ArmedThread ==
  ASSUME SockInv, WriteArmed, SockThread \/ \E how \in {"fin", "error"} : PeerEnds(how)
  PROVE  WriteArmed'
<1> USE DEF hist, SockInv
<1>0. slot \in Slot /\ IdsInv /\ SockTypeOK /\ pipe \in Seq(Commands)
  BY DEF SockTypeOK
<1>a. ASSUME slot'.type \in {"INVALID", "RESERVE", "HALFCLOSE_WRITE"} PROVE WriteArmed'
  BY <1>a DEF WriteArmed, InUse
<1>b. ASSUME slot'.high = << >>, slot'.low = << >>, slot'.dw = << >> PROVE WriteArmed'
  BY <1>b DEF WriteArmed, ListsEmpty
<1>c. ASSUME Pending' => Pending, api' = api, slot'.id = slot.id, slot.writing => slot'.writing,
             \/ pipe' = pipe
             \/ pipe # << >> /\ Head(pipe).cmd # "W" /\ pipe' = Tail(pipe)
             \/ pipe # << >> /\ Head(pipe).id # slot.id /\ pipe' = Tail(pipe)
      PROVE  WriteArmed'
  <2>1. Armed => Armed'
    BY <1>c, ArmedStays
  <2> QED
    BY <1>c, <2>1, ArmedMeans, ArmedMeansNext
<1>d. ASSUME slot'.type = slot.type \/ (InUse /\ slot.type # "HALFCLOSE_WRITE"),
             slot'.high = slot.high \/ slot'.high = << >>,
             slot'.low = slot.low \/ slot'.low = << >>, slot'.dw = slot.dw
      PROVE  Pending' => Pending
  BY <1>d DEF Pending, InUse, ListsEmpty
<1>1. CASE \/ \E writable \in BOOLEAN : SpWait(writable)
           \/ NoCommand \/ RecvError \/ SendBlocked \/ ReportError
           \/ \E how \in {"fin", "error"} : PeerEnds(how)
  <2>1. slot' = slot /\ api' = api /\ pipe' = pipe
    BY <1>1 DEF SpWait, NoCommand, RecvError, SendBlocked, ReportError, PeerEnds
  <2> QED
    BY <1>c, <1>d, <2>1
<1>2. CASE ForceClosed
  <2>1. slot'.type = "INVALID"
    BY <1>0, <1>2 DEF ForceClosed, Slot
  <2> QED
    BY <1>a, <2>1
<1>3. CASE ReportAccept
  <2>1. slot'.high = slot.high /\ slot'.low = slot.low /\ slot'.dw = << >> /\ slot.type = "INVALID"
    BY <1>0, <1>3 DEF ReportAccept, Reservable, NewFd, Reserved, Slot
  <2> QED
    BY <1>b, <2>1 DEF EmptyInv, InUse, ListsEmpty
<1>4. CASE ReportConnect
  <2>1. InUse /\ slot.type = "CONNECTING" /\ api' = api /\ pipe' = pipe
    BY <1>4 DEF ReportConnect, OnSlotEvent
  <2>2. CASE ForceClose(FALSE)
    BY <1>0, <1>c, <1>d, <2>1, <2>2, ForceCloseDoes
  <2>3. CASE slot' = [slot EXCEPT !.type = "CONNECTED", !.writing = @ /\ ~NomoreSendingData]
    <3>1. /\ slot'.id = slot.id /\ slot'.high = slot.high /\ slot'.low = slot.low /\ slot'.dw = slot.dw
          /\ slot'.writing = (slot.writing /\ ~NomoreSendingData)
      BY <1>0, <2>3 DEF Slot
    <3>2. CASE ListsEmpty /\ slot.dw = << >>
      BY <1>b, <3>1, <3>2 DEF ListsEmpty
    <3>3. CASE ~(ListsEmpty /\ slot.dw = << >>)
      <4>1. ~NomoreSendingData
        BY <2>1, <3>3 DEF NomoreSendingData
      <4>2. slot.writing => slot'.writing
        BY <3>1, <4>1
      <4>3. Pending
        BY <2>1, <3>3 DEF Pending
      <4> QED
        BY <1>c, <2>1, <3>1, <4>2, <4>3
    <3> QED
      BY <3>2, <3>3
  <2> QED
    BY <1>4, <2>2, <2>3 DEF ReportConnect
<1>5. CASE RecvZero
  <2>1. InUse /\ api' = api /\ pipe' = pipe
    BY <1>5 DEF RecvZero, ReadNext, OnSlotEvent
  <2>2. CASE \E c \in BOOLEAN : ForceClose(c)
    BY <1>0, <1>c, <1>d, <2>1, <2>2, ForceCloseDoes
  <2>3. CASE CloseRead(slot) /\ slot.type # "HALFCLOSE_WRITE"
    BY <1>0, <1>c, <1>d, <2>1, <2>3, CloseReadDoes
  <2>4. CASE slot' = slot
    BY <1>c, <1>d, <2>1, <2>4
  <2> QED
    BY <1>5, <2>2, <2>3, <2>4 DEF RecvZero
<1>6. CASE SendError
  <2>1. InUse /\ api' = api /\ pipe' = pipe
    BY <1>6 DEF SendError, WriteNext, OnSlotEvent
  <2>2. CASE ForceClose(FALSE)
    BY <1>0, <1>c, <1>d, <2>1, <2>2, ForceCloseDoes
  <2>3. CASE ~ForceClose(FALSE)
    <3>1. slot'.type = "HALFCLOSE_WRITE"
      BY <1>0, <1>6, <2>3 DEF SendError, Slot
    <3> QED
      BY <1>a, <3>1
  <2> QED
    BY <2>2, <2>3
<1>7. CASE Eof
  <2>1. api' = api /\ pipe' = pipe
    BY <1>7 DEF Eof
  <2> QED
    BY <1>0, <1>7, <1>c, <1>d, <2>1, ForceCloseDoes DEF Eof
<1>8. ASSUME NEW n \in Nat, SendBuffer(n) PROVE WriteArmed'
  <2>1. /\ \/ n < Len(All) /\ slot'.writing = slot.writing
           \/ slot'.high = << >> /\ slot'.low = << >>
        /\ slot'.id = slot.id /\ slot'.type = slot.type /\ slot'.dw = << >> /\ Len(All) \in Nat
        /\ api' = api /\ pipe' = pipe
    BY <1>0, <1>8, SendBufferDoes
  <2>2. CASE n < Len(All) /\ slot'.writing = slot.writing
    <3>1. ~(ListsEmpty /\ slot.dw = << >>)
      BY <1>0, <2>1, <2>2, AllEmpty
    <3>2. Pending' => Pending
      BY <2>1, <3>1 DEF Pending, InUse
    <3> QED
      BY <1>c, <2>1, <2>2, <3>2
  <2>3. CASE slot'.high = << >> /\ slot'.low = << >>
    BY <1>b, <2>1, <2>3
  <2> QED
    BY <2>1, <2>2, <2>3
<1>9. ASSUME NEW id \in Ids, OpenSocket(id) PROVE WriteArmed'
  <2>1. slot.type = "RESERVE"
    BY <1>0, <1>9, HeadKnown DEF OpenSocket
  <2>2. \/ slot' = [slot EXCEPT !.type = "INVALID"]
        \/ NewFd(slot, "CONNECTED", TRUE, FALSE)
        \/ NewFd(slot, "CONNECTING", TRUE, TRUE)
    BY <1>9 DEF OpenSocket
  <2>3. slot'.high = slot.high /\ slot'.low = slot.low /\ slot'.dw \in {slot.dw, << >>}
    BY <1>0, <2>2 DEF NewFd, Slot
  <2> QED
    BY <1>b, <2>1, <2>3 DEF EmptyInv, InUse, ListsEmpty
<1>10. ASSUME NEW id \in Ids, ResumeSocket(id) \/ PauseSocket(id) PROVE WriteArmed'
  <2>1. /\ \E c \in {"R", "S"} : Handle(c, id)
        /\ api' = api /\ slot'.id = slot.id /\ slot'.writing = slot.writing
        /\ slot'.high = slot.high /\ slot'.low = slot.low /\ slot'.dw = slot.dw
        /\ slot'.type = slot.type \/ slot.type = "PACCEPT"
    BY <1>0, <1>10 DEF ResumeSocket, PauseSocket, Slot
  <2>2. pipe # << >> /\ Head(pipe).cmd # "W" /\ pipe' = Tail(pipe)
    BY <2>1 DEF Handle
  <2> QED
    BY <1>c, <1>d, <2>1, <2>2 DEF InUse
<1>11. ASSUME NEW id \in Ids, EnableWrite(id) PROVE WriteArmed'
  <2>1. /\ Handle("W", id) /\ api' = api /\ slot'.id = slot.id /\ slot'.type = slot.type
        /\ slot'.high = slot.high /\ slot'.low = slot.low /\ slot'.dw = slot.dw
        /\ slot'.writing = (slot.writing \/ ~SocketInvalid(id))
    <3>1. CASE SocketInvalid(id)
      BY <1>0, <1>11, <3>1 DEF EnableWrite, Slot
    <3>2. CASE ~SocketInvalid(id)
      BY <1>0, <1>11, <3>2 DEF EnableWrite, Slot
    <3> QED
      BY <3>1, <3>2
  <2>2. pipe # << >> /\ Head(pipe).id = id /\ pipe' = Tail(pipe)
    BY <2>1 DEF Handle
  <2>3. CASE slot.id # id
    BY <1>c, <1>d, <2>1, <2>2, <2>3
  <2>4. CASE slot.id = id
    <3>1. slot'.writing \/ slot'.type = "INVALID"
      BY <2>1, <2>4 DEF SocketInvalid
    <3> QED
      BY <1>a, <3>1 DEF WriteArmed
  <2> QED
    BY <2>3, <2>4
<1>12. ASSUME NEW id \in Ids, NEW how \in {"K", "shutdown"}, CloseSocket(id, how) PROVE WriteArmed'
  <2>1. Handle(how, id) /\ api' = api /\ [slot EXCEPT !.closing = TRUE] \in Slot
    BY <1>0, <1>12 DEF CloseSocket, Slot
  <2>2. pipe # << >> /\ Head(pipe).cmd # "W" /\ pipe' = Tail(pipe)
    BY <2>1 DEF Handle
  <2>3. CASE ForceClose(~HalfcloseRead)
    BY <1>0, <1>c, <1>d, <2>1, <2>2, <2>3, ForceCloseDoes
  <2>4. CASE slot' = slot \/ slot' = [slot EXCEPT !.closing = TRUE]
    <3>1. /\ slot'.id = slot.id /\ slot'.writing = slot.writing /\ slot'.type = slot.type
          /\ slot'.high = slot.high /\ slot'.low = slot.low /\ slot'.dw = slot.dw
      BY <1>0, <2>4 DEF Slot
    <3> QED
      BY <1>c, <1>d, <2>1, <2>2, <3>1
  <2>5. CASE CloseRead([slot EXCEPT !.closing = TRUE]) /\ ~SocketInvalid(id) /\ ~NomoreSendingData
    <3>1. /\ slot'.id = slot.id /\ slot'.writing = slot.writing
          /\ slot'.high = slot.high /\ slot'.low = slot.low /\ slot'.dw = slot.dw
      BY <1>0, <2>1, <2>5, CloseReadDoes DEF Slot
    <3>2. slot.id = id /\ slot.type # "INVALID" /\ slot.type # "HALFCLOSE_WRITE"
      BY <2>5 DEF SocketInvalid, NomoreSendingData
    <3>3. InUse
      BY <1>0, <2>1, <3>2, HeadKnown DEF InUse
    <3> QED
      BY <1>c, <1>d, <2>1, <2>2, <3>1, <3>2, <3>3
  <2> QED
    BY <1>12, <2>3, <2>4, <2>5 DEF CloseSocket
<1>13. ASSUME NEW id \in Ids, NEW c \in {"D", "P"}, SendSocket(c, id) PROVE WriteArmed'
  <2>1. Handle(c, id) /\ api' = api /\ pipe # << >> /\ Head(pipe).cmd # "W" /\ pipe' = Tail(pipe)
    BY <1>13 DEF SendSocket, Handle
  <2> DEFINE item == Halves(Head(pipe).item, 2)
  <2>2. CASE slot' = Uncounted(slot, id)
    <3>1. /\ slot'.id = slot.id /\ slot'.writing = slot.writing /\ slot'.type = slot.type
          /\ slot'.high = slot.high /\ slot'.low = slot.low /\ slot'.dw = slot.dw
      BY <1>0, <2>2 DEF Uncounted, Slot
    <3> QED
      BY <1>c, <1>d, <2>1, <3>1
  <2>3. CASE /\ slot' = Uncounted([slot EXCEPT !.high = @ \o item, !.writing = @ \/ ListsEmpty], id)
             /\ ~SendRefused(id)
    <3>1. /\ slot'.id = slot.id /\ slot'.writing = (slot.writing \/ ListsEmpty)
          /\ slot'.type = slot.type /\ slot'.dw = slot.dw
      BY <1>0, <2>3 DEF Uncounted, Slot
    <3>2. CASE ListsEmpty
      BY <3>1, <3>2 DEF WriteArmed
    <3>3. CASE ~ListsEmpty
      <4>1. Pending' => Pending
        BY <3>1, <3>3 DEF Pending, InUse
      <4>2. slot.writing => slot'.writing
        BY <3>1
      <4> QED
        BY <1>c, <2>1, <3>1, <4>1, <4>2
    <3> QED
      BY <3>2, <3>3
  <2>4. CASE slot' = Uncounted([slot EXCEPT !.low = @ \o item], id) /\ ~ListsEmpty
    <3>1. /\ slot'.id = slot.id /\ slot'.writing = slot.writing
          /\ slot'.type = slot.type /\ slot'.dw = slot.dw
      BY <1>0, <2>4 DEF Uncounted, Slot
    <3>2. Pending' => Pending
      BY <2>4, <3>1 DEF Pending, InUse
    <3> QED
      BY <1>c, <2>1, <3>1, <3>2
  <2> QED
    BY <1>13, <2>2, <2>3, <2>4 DEF SendSocket
<1> QED
  <2>1. CASE \E n \in 0 .. 2 * Cardinality(Item) : SendBuffer(n)
    <3>1. \E n \in Nat : SendBuffer(n)
      BY <2>1
    <3> QED
      BY <1>8, <3>1
  <2> QED
    BY <2>1, <1>1, <1>2, <1>3, <1>4, <1>5, <1>6, <1>7, <1>9, <1>10, <1>11, <1>12, <1>13 DEF SockThread

-----------------------------------------------------------------------------
(* Whoever is closing has a way to end *)

LEMMA ClosingStep ==
  ASSUME SockInv, ClosingEnds, SockNext PROVE ClosingEnds'
<1> USE DEF hist, SockInv
<1>0. slot \in Slot /\ api \in [Sender -> Calls] /\ IdsInv /\ SockTypeOK /\ slot.count \in Nat
  BY DEF SockTypeOK, Slot
<1>a. ASSUME slot'.type \in {"INVALID", "RESERVE"} \/ ~slot'.closing \/ loop'.at = "force"
      PROVE  ClosingEnds'
  BY <1>a DEF ClosingEnds, InUse
<1>b. ASSUME slot'.type = slot.type \/ InUse, slot'.closing = slot.closing, loop.at # "force",
             slot'.dw = slot.dw \/ slot.dw = << >>, slot'.high = slot.high, slot'.low = slot.low,
             slot'.count = slot.count \/ slot'.count = slot.count + 1, refused => refused'
      PROVE  ClosingEnds'
  <2>1. slot.count > 0 => slot'.count > 0
    BY <1>0, <1>b
  <2> QED
    BY <1>b, <2>1 DEF ClosingEnds, InUse, ListsEmpty
<1>1. CASE Services
  <2>1. CASE SockConnect
    <3>1. slot'.type = "RESERVE"
      BY <1>0, <2>1 DEF SockConnect, Reserved, Slot
    <3> QED
      BY <1>a, <3>1
  <2>2. CASE ~SockConnect
    <3>1. /\ slot'.type = slot.type /\ slot'.closing = slot.closing /\ slot'.high = slot.high
          /\ slot'.low = slot.low /\ loop' = loop /\ refused' = refused
          /\ slot'.count = slot.count \/ slot'.count = slot.count + 1
      BY <1>0, <1>1, <2>2 DEF Services, SockStart, SockPause, SockClose, SockSend, CheckQueues,
         CheckSending, TryLock, RecheckQueues, RecheckSending, DirectWrite, TriggerWrite,
         IncSendingRef, RequestSend, Slot
    <3>2. slot'.dw = slot.dw \/ slot.dw = << >>
      <4>1. ASSUME NEW v \in Sender, NEW n \in 0 .. 2, DirectWrite(v, n) PROVE slot.dw = << >>
        BY <4>1 DEF DirectWrite, Calling, LockInv
      <4>2. CASE ~(\E v \in Sender : \E n \in 0 .. 2 : DirectWrite(v, n))
        BY <1>0, <1>1, <2>2, <4>2 DEF Services, SockStart, SockPause, SockClose, SockSend,
           CheckQueues, CheckSending, TryLock, RecheckQueues, RecheckSending, TriggerWrite,
           IncSendingRef, RequestSend, Slot
      <4> QED
        BY <4>1, <4>2
    <3>3. CASE loop.at = "force"
      BY <1>a, <3>1, <3>3
    <3>4. CASE loop.at # "force"
      BY <1>b, <3>1, <3>2, <3>4
    <3> QED
      BY <3>3, <3>4
  <2> QED
    BY <2>1, <2>2
<1>2. CASE SockThread
  <2>1. CASE ForceClosed
    <3>1. slot'.type = "INVALID"
      BY <1>0, <2>1 DEF ForceClosed, Slot
    <3> QED
      BY <1>a, <3>1
  <2>2. CASE \/ \E writable \in BOOLEAN : SpWait(writable)
             \/ NoCommand \/ RecvError \/ SendBlocked \/ ReportError
    <3>1. slot' = slot /\ loop.at # "force" /\ refused' = refused
      BY <2>2 DEF SpWait, NoCommand, RecvError, SendBlocked, ReportError, ReadNext, WriteNext, OnSlotEvent
    <3> QED
      BY <1>b, <3>1
  <2>3. CASE ReportAccept
    <3>1. ~slot'.closing
      BY <1>0, <2>3 DEF ReportAccept, NewFd, Reserved, Slot
    <3> QED
      BY <1>a, <3>1
  <2>4. CASE ReportConnect \/ RecvZero \/ SendError \/ Eof
    <3>1. loop.at # "force" /\ InUse /\ refused' = refused
      BY <2>4 DEF ReportConnect, RecvZero, SendError, Eof, ReadNext, WriteNext, OnSlotEvent
    <3>2. CASE \E c \in BOOLEAN : ForceClose(c)
      BY <1>0, <1>a, <3>2, ForceCloseDoes
    <3>3. CASE ~(\E c \in BOOLEAN : ForceClose(c))
      <4>1. CASE ReportConnect
        <5>1. /\ slot'.closing = slot.closing /\ slot'.high = slot.high /\ slot'.low = slot.low
              /\ slot'.dw = slot.dw /\ slot'.count = slot.count
          BY <1>0, <3>3, <4>1 DEF ReportConnect, Slot
        <5> QED
          BY <1>b, <3>1, <5>1
      <4>2. CASE RecvZero
        <5>1. slot' = slot \/ CloseRead(slot)
          BY <3>3, <4>2 DEF RecvZero
        <5> QED
          BY <1>0, <1>b, <3>1, <5>1, CloseReadDoes
      <4>3. CASE SendError
        <5>1. ~slot'.closing
          BY <1>0, <3>3, <4>3 DEF SendError, Slot
        <5> QED
          BY <1>a, <5>1
      <4>4. CASE Eof
        BY <3>3, <4>4, ForceCloseDoes DEF Eof, HalfcloseRead
      <4> QED
        BY <2>4, <4>1, <4>2, <4>3, <4>4
    <3> QED
      BY <3>2, <3>3
  <2>5. ASSUME NEW n \in Nat, SendBuffer(n) PROVE ClosingEnds'
    <3>1. /\ slot'.closing = slot.closing
          /\ slot'.high \in Seq(Item) /\ slot'.low \in Seq(Item)
          /\ slot'.high \o slot'.low = SubSeq(All, n + 1, Len(All))
          /\ All \in Seq(Item) /\ Len(All) \in Nat /\ n <= Len(All)
          /\ n < Len(All) \/ (slot.closing => loop'.at = "force")
      BY <1>0, <2>5, SendBufferDoes
    <3>2. CASE n < Len(All)
      <4>1. \A i \in n + 1 .. Len(All) : All[i] \in Item
        BY <3>1, ElementOfSeq
      <4>2. Len(SubSeq(All, n + 1, Len(All))) = Len(All) - n
        BY <3>1, <3>2, <4>1, SubSeqProperties
      <4>3. Len(<< >>) = 0 /\ << >> \o << >> = << >>
        BY EmptySeq, ConcatEmptySeq
      <4>4. ~(slot'.high = << >> /\ slot'.low = << >>)
        <5> SUFFICES ASSUME slot'.high = << >>, slot'.low = << >> PROVE FALSE
          OBVIOUS
        <5>1. SubSeq(All, n + 1, Len(All)) = << >>
          BY <3>1, <4>3
        <5>2. Len(All) - n = 0
          BY <4>2, <4>3, <5>1
        <5> QED
          BY <3>1, <3>2, <5>2
      <4> QED
        BY <4>4 DEF ClosingEnds, ListsEmpty
    <3>3. CASE slot.closing => loop'.at = "force"
      BY <1>a, <3>1, <3>3
    <3> QED
      BY <3>1, <3>2, <3>3
  <2>6. ASSUME NEW id \in Ids, OpenSocket(id) PROVE ClosingEnds'
    <3>1. \/ slot' = [slot EXCEPT !.type = "INVALID"]
          \/ NewFd(slot, "CONNECTED", TRUE, FALSE)
          \/ NewFd(slot, "CONNECTING", TRUE, TRUE)
      BY <2>6 DEF OpenSocket
    <3>2. slot'.type = "INVALID" \/ ~slot'.closing
      BY <1>0, <3>1 DEF NewFd, Slot
    <3> QED
      BY <1>a, <3>2
  <2>7. ASSUME NEW id \in Ids, ResumeSocket(id) \/ PauseSocket(id) \/ EnableWrite(id) PROVE ClosingEnds'
    <3>1. /\ slot'.closing = slot.closing /\ slot'.high = slot.high /\ slot'.low = slot.low
          /\ slot'.dw = slot.dw /\ slot'.count = slot.count /\ loop.at = "ctrl" /\ refused' = refused
          /\ slot'.type = slot.type \/ slot.type = "PACCEPT"
      BY <1>0, <2>7 DEF ResumeSocket, PauseSocket, EnableWrite, Handle, Slot
    <3> QED
      BY <1>b, <3>1 DEF InUse
  <2>8. ASSUME NEW id \in Ids, NEW how \in {"K", "shutdown"}, CloseSocket(id, how) PROVE ClosingEnds'
    <3>1. loop.at = "ctrl" /\ refused' = refused /\ [slot EXCEPT !.closing = TRUE] \in Slot
      BY <1>0, <2>8 DEF CloseSocket, Handle, Slot
    <3>2. CASE ForceClose(~HalfcloseRead)
      BY <1>0, <1>a, <3>2, ForceCloseDoes
    <3>3. CASE slot' = slot
      BY <1>b, <3>1, <3>3
    <3>4. CASE /\ ~NomoreSendingData
               /\ slot' = [slot EXCEPT !.closing = TRUE] \/ CloseRead([slot EXCEPT !.closing = TRUE])
      <4>1. /\ slot'.high = slot.high /\ slot'.low = slot.low /\ slot'.dw = slot.dw
            /\ slot'.count = slot.count
        BY <1>0, <3>1, <3>4, CloseReadDoes DEF Slot
      <4>2. ~(ListsEmpty /\ slot.dw = << >> /\ slot.count = 0)
        BY <3>4 DEF NomoreSendingData
      <4> QED
        BY <1>0, <4>1, <4>2 DEF ClosingEnds, ListsEmpty
    <3> QED
      BY <2>8, <3>2, <3>3, <3>4 DEF CloseSocket
  <2>9. ASSUME NEW id \in Ids, NEW c \in {"D", "P"}, SendSocket(c, id) PROVE ClosingEnds'
    <3>1. loop.at = "ctrl"
      BY <2>9 DEF SendSocket, Handle
    <3> DEFINE item == Halves(Head(pipe).item, 2)
    <3>2. CASE SendRefused(id) /\ slot' = Uncounted(slot, id) /\ refused' = (refused \/ ~SocketInvalid(id))
      <4>1. CASE SocketInvalid(id)
        <5>1. CASE slot.type = "INVALID"
          <6>1. slot'.type = "INVALID"
            BY <1>0, <3>2, <5>1 DEF Uncounted, Slot
          <6> QED
            BY <1>a, <6>1
        <5>2. CASE slot.id # id
          <6>1. slot' = slot /\ (refused => refused')
            BY <3>2, <5>2 DEF Uncounted
          <6> QED
            BY <1>b, <3>1, <6>1
        <5> QED
          BY <4>1, <5>1, <5>2 DEF SocketInvalid
      <4>2. CASE ~SocketInvalid(id)
        BY <3>2, <4>2 DEF ClosingEnds
      <4> QED
        BY <4>1, <4>2
    <3>3. CASE /\ ~SendRefused(id)
               /\ \/ slot' = Uncounted([slot EXCEPT !.high = @ \o item, !.writing = @ \/ ListsEmpty], id)
                  \/ slot' = Uncounted([slot EXCEPT !.low = @ \o item], id)
      <4>1. slot'.closing = slot.closing
        BY <1>0, <3>3 DEF Uncounted, Slot
      <4> QED
        BY <1>a, <3>3, <4>1 DEF SendRefused
    <3> QED
      BY <2>9, <3>2, <3>3 DEF SendSocket
  <2>10. CASE \E n \in 0 .. 2 * Cardinality(Item) : SendBuffer(n)
    <3>1. \E n \in Nat : SendBuffer(n)
      BY <2>10
    <3> QED
      BY <2>5, <3>1
  <2> QED
    BY <1>2, <2>1, <2>2, <2>3, <2>4, <2>6, <2>7, <2>8, <2>9, <2>10 DEF SockThread
<1>3. ASSUME NEW how \in {"fin", "error"}, PeerEnds(how) PROVE ClosingEnds'
  <2>1. slot' = slot /\ loop' = loop /\ refused' = refused
    BY <1>3 DEF PeerEnds
  <2> QED
    BY <1>a, <1>b, <2>1
<1> QED
  BY <1>1, <1>2, <1>3 DEF SockNext

-----------------------------------------------------------------------------
(* Items are written whole, on their own connection *)

(* An item of two halves is even: one that has begun has one half left.    *)
LEMMA EvenCut ==
  ASSUME NEW w \in Nat, NEW h \in Nat, NEW n \in Nat, NEW x, (w + h) % 2 = 0,
         \/ n >= h /\ x = (n - h) % 2
         \/ x = 0 /\ \E k \in Nat : k % 2 = 0 /\ n = h + k
  PROVE  ((w + n) + x) % 2 = 0
<1>1. \A a, k \in Nat : a % 2 = 0 => (a + (k + (k % 2))) % 2 = 0
  OBVIOUS
<1>2. \A a, k \in Nat : a % 2 = 0 /\ k % 2 = 0 => (a + k) % 2 = 0
  OBVIOUS
<1>3. CASE n >= h /\ x = (n - h) % 2
  <2> DEFINE k == n - h
  <2>1. k \in Nat /\ n = h + k /\ x = k % 2
    BY <1>3
  <2> HIDE DEF k
  <2>2. x \in Nat /\ w + h \in Nat
    BY <2>1
  <2>3. (w + n) + x = (w + h) + (k + x)
    <3>1. n = h + k /\ k \in Nat
      BY <2>1
    <3> QED
      BY <2>2, <3>1
  <2> QED
    BY <1>1, <2>1, <2>2, <2>3
<1>4. ASSUME x = 0, NEW k \in Nat, k % 2 = 0, n = h + k PROVE ((w + n) + x) % 2 = 0
  <2>1. (w + n) + x = (w + h) + k /\ w + h \in Nat
    BY <1>4
  <2> QED
    BY <1>2, <1>4, <2>1
<1> QED
  BY <1>3, <1>4

LEMMA ConcatType ==
  ASSUME NEW s \in Seq(Item), NEW t \in Seq(Item)
  PROVE  s \o t \in Seq(Item) /\ Len(s \o t) = Len(s) + Len(t) /\ Len(s) \in Nat /\ Len(t) \in Nat
BY ConcatProperties, LenProperties

LEMMA ConcatThree ==
  ASSUME NEW s \in Seq(Item), NEW t \in Seq(Item), NEW u \in Seq(Item)
  PROVE  (s \o t) \o u = s \o (t \o u)
BY ConcatAssociative

LEMMA ForConcat ==
  ASSUME NEW s \in Seq(Item), NEW t \in Seq(Item), NEW f, NEW id
  PROVE  IsFor(s \o t, f, id) <=> IsFor(s, f, id) /\ IsFor(t, f, id)
<1>1. /\ Len(s) \in Nat /\ Len(t) \in Nat /\ Len(s \o t) = Len(s) + Len(t)
      /\ \A i \in 1 .. Len(s) + Len(t) : (s \o t)[i] = IF i <= Len(s) THEN s[i] ELSE t[i - Len(s)]
  BY ConcatProperties, LenProperties
<1>2. ASSUME IsFor(s \o t, f, id), NEW i \in 1 .. Len(s) PROVE f[s[i]] = id
  <2>1. i \in 1 .. Len(s \o t) /\ (s \o t)[i] = s[i]
    BY <1>1
  <2> QED
    BY <1>2, <2>1 DEF IsFor
<1>3. ASSUME IsFor(s \o t, f, id), NEW i \in 1 .. Len(t) PROVE f[t[i]] = id
  <2>1. Len(s) + i \in 1 .. Len(s) + Len(t) /\ ~(Len(s) + i <= Len(s)) /\ (Len(s) + i) - Len(s) = i
    BY <1>1
  <2>2. (s \o t)[Len(s) + i] = t[i] /\ Len(s) + i \in 1 .. Len(s \o t)
    BY <1>1, <2>1
  <2> QED
    BY <1>3, <2>2 DEF IsFor
<1>4. ASSUME IsFor(s, f, id), IsFor(t, f, id), NEW i \in 1 .. Len(s \o t) PROVE f[(s \o t)[i]] = id
  <2>1. CASE i <= Len(s)
    <3>1. i \in 1 .. Len(s) /\ (s \o t)[i] = s[i]
      BY <1>1, <2>1
    <3> QED
      BY <1>4, <3>1 DEF IsFor
  <2>2. CASE ~(i <= Len(s))
    <3>1. i - Len(s) \in 1 .. Len(t) /\ (s \o t)[i] = t[i - Len(s)]
      BY <1>1, <2>2
    <3> QED
      BY <1>4, <3>1 DEF IsFor
  <2> QED
    BY <2>1, <2>2
<1> QED
  BY <1>2, <1>3, <1>4 DEF IsFor

LEMMA ForEmpty == \A f, id : IsFor(<< >>, f, id)
BY EmptySeq DEF IsFor

LEMMA PairStart ==
  ASSUME NEW s \in Seq(Item), NEW t \in Seq(Item), PairPrefix(s \o t)
  PROVE  PairPrefix(s)
<1>1. /\ Len(s) \in Nat /\ Len(t) \in Nat /\ Len(s \o t) = Len(s) + Len(t)
      /\ \A i \in 1 .. Len(s) + Len(t) : (s \o t)[i] = IF i <= Len(s) THEN s[i] ELSE t[i - Len(s)]
  BY ConcatProperties, LenProperties
<1>2. ASSUME NEW i \in 1 .. Len(s) - 1, i % 2 = 1 PROVE s[i] = s[i + 1]
  <2>1. i \in 1 .. Len(s \o t) - 1 /\ (s \o t)[i] = s[i] /\ (s \o t)[i + 1] = s[i + 1]
    BY <1>1
  <2> QED
    BY <1>2, <2>1 DEF PairPrefix
<1> QED
  BY <1>2 DEF PairPrefix

LEMMA PairRest ==
  ASSUME NEW s \in Seq(Item), NEW t \in Seq(Item), PairPrefix(s \o t), Len(s) % 2 = 0
  PROVE  PairPrefix(t)
<1>0. Len(s) \in Nat /\ Len(t) \in Nat /\ Len(s \o t) = Len(s) + Len(t)
  BY ConcatProperties, LenProperties
<1>1. \A i \in 1 .. Len(s) + Len(t) : (s \o t)[i] = IF i <= Len(s) THEN s[i] ELSE t[i - Len(s)]
  BY ConcatProperties
<1>2. ASSUME NEW i \in 1 .. Len(t) - 1, i % 2 = 1 PROVE t[i] = t[i + 1]
  <2>1. /\ Len(s) + i \in 1 .. Len(s \o t) - 1
        /\ (s \o t)[Len(s) + i] = t[i] /\ (s \o t)[(Len(s) + i) + 1] = t[i + 1]
    <3>1. /\ Len(s) + i \in 1 .. Len(s) + Len(t) /\ ~(Len(s) + i <= Len(s)) /\ (Len(s) + i) - Len(s) = i
          /\ (Len(s) + i) + 1 \in 1 .. Len(s) + Len(t) /\ ~((Len(s) + i) + 1 <= Len(s))
          /\ ((Len(s) + i) + 1) - Len(s) = i + 1 /\ Len(s) + i \in 1 .. Len(s \o t) - 1
      BY <1>0
    <3>2. (s \o t)[Len(s) + i] = t[i]
      BY <1>1, <3>1
    <3>3. (s \o t)[(Len(s) + i) + 1] = t[i + 1]
      BY <1>1, <3>1
    <3> QED
      BY <3>1, <3>2, <3>3
  <2>2. (Len(s) + i) % 2 = 1
    <3>1. i \in Nat
      BY <1>0
    <3> QED
      BY <1>0, <1>2, <3>1, EvenSum
  <2> QED
    BY <2>1, <2>2 DEF PairPrefix
<1> QED
  BY <1>2 DEF PairPrefix

LEMMA PairJoin ==
  ASSUME NEW s \in Seq(Item), NEW t \in Seq(Item), PairPrefix(s), PairPrefix(t), Len(s) % 2 = 0
  PROVE  PairPrefix(s \o t)
<1>0. Len(s) \in Nat /\ Len(t) \in Nat /\ Len(s \o t) = Len(s) + Len(t)
  BY ConcatProperties, LenProperties
<1>1. \A i \in 1 .. Len(s) + Len(t) : (s \o t)[i] = IF i <= Len(s) THEN s[i] ELSE t[i - Len(s)]
  BY ConcatProperties
<1>2. ASSUME NEW i \in 1 .. Len(s \o t) - 1, i % 2 = 1 PROVE (s \o t)[i] = (s \o t)[i + 1]
  <2>1. CASE i < Len(s)
    <3>1. /\ i \in 1 .. Len(s) - 1 /\ i <= Len(s) /\ i + 1 <= Len(s)
          /\ i \in 1 .. Len(s) + Len(t) /\ i + 1 \in 1 .. Len(s) + Len(t)
      BY <1>0, <2>1
    <3>2. (s \o t)[i] = s[i]
      BY <1>1, <3>1
    <3>3. (s \o t)[i + 1] = s[i + 1]
      BY <1>1, <3>1
    <3> QED
      BY <1>2, <3>1, <3>2, <3>3 DEF PairPrefix
  <2>2. i # Len(s)
    BY <1>2
  <2>3. CASE i > Len(s)
    <3>1. /\ i - Len(s) \in 1 .. Len(t) - 1 /\ (i + 1) - Len(s) = (i - Len(s)) + 1
          /\ ~(i <= Len(s)) /\ ~(i + 1 <= Len(s)) /\ Len(s) + (i - Len(s)) = i
          /\ i \in 1 .. Len(s) + Len(t) /\ i + 1 \in 1 .. Len(s) + Len(t)
          /\ i - Len(s) \in Nat
      BY <1>0, <2>3
    <3>2. (s \o t)[i] = t[i - Len(s)]
      BY <1>1, <3>1
    <3>3. (s \o t)[i + 1] = t[(i - Len(s)) + 1]
      BY <1>1, <3>1
    <3>4. (i - Len(s)) % 2 = 1
      <4>1. (Len(s) + (i - Len(s))) % 2 = (i - Len(s)) % 2
        BY <1>0, <3>1, EvenSum
      <4> QED
        BY <1>2, <3>1, <4>1
    <3> QED
      BY <3>1, <3>2, <3>3, <3>4 DEF PairPrefix
  <2> QED
    <3>1. i \in Nat /\ (i < Len(s) \/ i = Len(s) \/ i > Len(s))
      BY <1>0
    <3> QED
      BY <2>1, <2>2, <2>3, <3>1
<1> QED
  BY <1>2 DEF PairPrefix

(* A sequence of pairs falls into two where the first part is even.        *)
LEMMA WholeParts ==
  ASSUME NEW s \in Seq(Item), NEW t \in Seq(Item), Len(s) % 2 = 0
  PROVE  Whole(s \o t) <=> Whole(s) /\ Whole(t)
<1>1. Len(s) \in Nat /\ Len(t) \in Nat /\ Len(s \o t) = Len(s) + Len(t)
  BY ConcatProperties, LenProperties
<1>2. Len(s \o t) % 2 = Len(t) % 2
  BY <1>1, EvenSum
<1> QED
  BY <1>2, PairStart, PairRest, PairJoin DEF Whole

LEMMA WholeItem ==
  ASSUME NEW m \in Item
  PROVE  Whole(Halves(m, 2)) /\ Whole(<< >>)
<1>1. Len(Halves(m, 2)) = 2 /\ Halves(m, 2)[1] = m /\ Halves(m, 2)[2] = m
  BY HalvesType
<1>2. ASSUME NEW s, Len(s) = 2, s[1] = m, s[2] = m PROVE Whole(s)
  <2>1. \A i \in 1 .. Len(s) - 1 : i = 1
    BY <1>2
  <2>2. PairPrefix(s)
    BY <1>2, <2>1 DEF PairPrefix
  <2>3. Len(s) % 2 = 0
    BY <1>2
  <2> QED
    BY <2>2, <2>3 DEF Whole
<1>3. Whole(<< >>)
  BY EmptySeq DEF Whole, PairPrefix
<1> QED
  BY <1>1, <1>2, <1>3

LEMMA SentKept ==
  ASSUME SockTypeOK, SentInv, sent' = sent,
         \/ pipe' = pipe
         \/ \E c \in Commands : /\ pipe' = Append(pipe, c)
                                /\ c.cmd \in {"D", "P"} => sent[c.item] = c.id
         \/ pipe # << >> /\ pipe' = Tail(pipe),
         \A v \in Sender : \/ api'[v] = Idle
                           \/ api[v] # Idle /\ api'[v].id = api[v].id /\ api'[v].item = api[v].item
  PROVE  SentInv'
<1>1. \A i \in 1 .. Len(pipe') :
        \/ \E j \in 1 .. Len(pipe) : pipe'[i] = pipe[j]
        \/ pipe'[i].cmd \in {"D", "P"} => sent[pipe'[i].item] = pipe'[i].id
  <2>1. CASE pipe' = pipe
    BY <2>1
  <2>2. ASSUME NEW c \in Commands, pipe' = Append(pipe, c),
               c.cmd \in {"D", "P"} => sent[c.item] = c.id,
               NEW i \in 1 .. Len(pipe')
        PROVE  \/ \E j \in 1 .. Len(pipe) : pipe'[i] = pipe[j]
               \/ pipe'[i].cmd \in {"D", "P"} => sent[pipe'[i].item] = pipe'[i].id
    <3>1. (i \in 1 .. Len(pipe) /\ pipe'[i] = pipe[i]) \/ pipe'[i] = c
      BY <2>2, PipeAppend
    <3> QED
      BY <2>2, <3>1
  <2>3. CASE pipe # << >> /\ pipe' = Tail(pipe)
    BY <2>3, PipeTail
  <2> QED
    BY <2>1, <2>2, <2>3
<1>2. \A i \in 1 .. Len(pipe') : pipe'[i].cmd \in {"D", "P"} => sent[pipe'[i].item] = pipe'[i].id
  BY <1>1 DEF SentInv
<1>3. \A v \in Sender : api'[v] # Idle => sent[api'[v].item] = api'[v].id
  BY DEF SentInv
<1> QED
  BY <1>2, <1>3 DEF SentInv

LEMMA SentStep ==
  ASSUME SockInv, SentInv, SockNext PROVE SentInv'
<1> USE DEF hist, SockInv
<1>0. /\ slot \in Slot /\ api \in [Sender -> Calls] /\ pipe \in Seq(Commands)
      /\ sent \in [Item -> 0 .. MaxId] /\ SockTypeOK
      /\ \A v \in Sender : api[v] # Idle =>
           api[v].id \in Ids /\ api[v].item \in Item /\ api[v].cmd \in {"D", "P"}
  BY DEF SockTypeOK, Calls
<1>1. CASE \/ SockConnect
           \/ \E id \in Ids : SockStart(id) \/ SockPause(id)
                                \/ \E how \in {"K", "shutdown"} : SockClose(id, how)
  <2>1. api' = api /\ sent' = sent
    BY <1>1 DEF SockConnect, SockStart, SockPause, SockClose, NewHistory
  <2>2. \E c \in {"O", "R", "S", "K", "shutdown"}, id \in Ids : pipe' = Append(pipe, Command(c, id))
    <3>1. SockConnect => slot.id + 1 \in Ids
      BY <1>0, BoundsAssumption DEF SockConnect, Reservable, Slot, Ids
    <3> QED
      BY <1>1, <3>1 DEF SockConnect, SockStart, SockPause, SockClose, SendRequest
  <2>3. \E c \in Commands : pipe' = Append(pipe, c) /\ c.cmd \notin {"D", "P"}
    BY <2>2, CommandType DEF Command
  <2> QED
    BY <2>1, <2>3, SentKept
<1>2. ASSUME NEW id \in Ids, NEW v \in Sender, NEW m \in Item, NEW low \in BOOLEAN,
             SockSend(v, id, m, low)
      PROVE  SentInv'
  <2>1. /\ pipe' = pipe /\ sent[m] = 0 /\ sent' = [sent EXCEPT ![m] = id]
        /\ api'[v].id = id /\ api'[v].item = m /\ \A w \in Sender : w # v => api'[w] = api[w]
    BY <1>0, <1>2 DEF SockSend
  <2>2. \A x \in Item : sent[x] # 0 => sent'[x] = sent[x]
    BY <1>0, <2>1
  <2>3. \A i \in 1 .. Len(pipe) : pipe[i].cmd \in {"D", "P"} =>
          pipe[i].item \in Item /\ pipe[i].id \in Ids
    BY <1>0, ElementOfSeq, CommandType
  <2>4. 0 \notin Ids
    BY DEF Ids
  <2>5. \A i \in 1 .. Len(pipe') : pipe'[i].cmd \in {"D", "P"} => sent'[pipe'[i].item] = pipe'[i].id
    BY <2>1, <2>2, <2>3, <2>4 DEF SentInv
  <2>6. \A w \in Sender : api'[w] # Idle => sent'[api'[w].item] = api'[w].id
    <3>1. sent'[m] = id
      BY <1>0, <2>1
    <3> QED
      BY <1>0, <2>1, <2>2, <2>4, <3>1 DEF SentInv
  <2> QED
    BY <2>5, <2>6 DEF SentInv
<1>3. ASSUME NEW v \in Sender,
             \/ CheckQueues(v) \/ CheckSending(v) \/ TryLock(v) \/ RecheckQueues(v)
             \/ RecheckSending(v) \/ IncSendingRef(v) \/ \E n \in 0 .. 2 : DirectWrite(v, n)
      PROVE  SentInv'
  <2>1. /\ api[v] # Idle /\ pipe' = pipe /\ sent' = sent
        /\ \/ Taken(v)
           \/ \E l \in {"check2", "trylock", "recheck", "recheck2", "write", "count", "trigger", "request"} :
                Goes(v, l)
    BY <1>3 DEF CheckQueues, CheckSending, TryLock, RecheckQueues, RecheckSending, DirectWrite,
       IncSendingRef, Calling, Idle
  <2>2. CASE Taken(v)
    BY <1>0, <2>1, <2>2, SentKept DEF Taken
  <2>3. CASE ~Taken(v)
    <3>1. PICK l \in {"check2", "trylock", "recheck", "recheck2", "write", "count", "trigger", "request"} :
            Goes(v, l)
      BY <2>1, <2>3
    <3>2. /\ api'[v].id = api[v].id /\ api'[v].item = api[v].item
          /\ \A w \in Sender : w # v => api'[w] = api[w]
      BY <1>0, <2>1, <3>1, GoesType
    <3> QED
      BY <2>1, <3>2, SentKept
  <2> QED
    BY <2>2, <2>3
<1>4. ASSUME NEW v \in Sender, TriggerWrite(v) \/ RequestSend(v) PROVE SentInv'
  <2>1. api[v] # Idle /\ Taken(v) /\ sent' = sent
    BY <1>4 DEF TriggerWrite, RequestSend, Calling, Idle
  <2>2. \E c \in Commands : pipe' = Append(pipe, c) /\ (c.cmd \in {"D", "P"} => sent[c.item] = c.id)
    <3>1. CASE TriggerWrite(v)
      <4>1. pipe' = Append(pipe, Command("W", api[v].id)) /\ Command("W", api[v].id) \in Commands
        BY <1>0, <2>1, <3>1, CommandType DEF TriggerWrite, SendRequest
      <4>2. Command("W", api[v].id).cmd \notin {"D", "P"}
        BY DEF Command
      <4> QED
        BY <4>1, <4>2
    <3>2. CASE RequestSend(v)
      <4> DEFINE c == Request(api[v].cmd, api[v].id, api[v].item)
      <4>1. pipe' = Append(pipe, c) /\ c \in Commands
        BY <1>0, <2>1, <3>2, CommandType DEF RequestSend, SendRequest
      <4>2. c.item = api[v].item /\ c.id = api[v].id
        BY DEF Request
      <4>3. sent[api[v].item] = api[v].id
        BY <2>1 DEF SentInv
      <4> QED
        BY <4>1, <4>2, <4>3
    <3> QED
      BY <1>4, <3>1, <3>2
  <2>3. \A w \in Sender : api'[w] = Idle \/ api'[w] = api[w]
    BY <1>0, <2>1 DEF Taken
  <2> QED
    BY <2>1, <2>2, <2>3, SentKept
<1>5. CASE SockThread \/ \E how \in {"fin", "error"} : PeerEnds(how)
  <2>1. api' = api /\ sent' = sent
    BY <1>5 DEF SockThread, SpWait, NoCommand, ReportAccept, ReportConnect, RecvError, RecvZero,
       SendBlocked, SendError, ReportError, Eof, ForceClosed, SendBuffer, OpenSocket, ResumeSocket,
       PauseSocket, EnableWrite, CloseSocket, SendSocket, PeerEnds, NewHistory
  <2>2. pipe' = pipe \/ (pipe # << >> /\ pipe' = Tail(pipe))
    BY <1>5 DEF SockThread, SpWait, NoCommand, ReportAccept, ReportConnect, RecvError, RecvZero,
       SendBlocked, SendError, ReportError, Eof, ForceClosed, SendBuffer, OpenSocket, ResumeSocket,
       PauseSocket, EnableWrite, CloseSocket, SendSocket, PeerEnds, Handle
  <2> QED
    BY <2>1, <2>2, SentKept
<1> QED
  BY <1>1, <1>2, <1>3, <1>4, <1>5 DEF SockNext, Services

WireInv == ForInv /\ PairInv

LEMMA AheadType ==
  ASSUME SockTypeOK
  PROVE  /\ wire \in Seq(Item) /\ slot.dw \in Seq(Item) /\ slot.high \in Seq(Item) /\ slot.low \in Seq(Item)
         /\ wire \o slot.dw \in Seq(Item) /\ Ahead \in Seq(Item) /\ << >> \in Seq(Item)
         /\ Ahead = wire \o (slot.dw \o slot.high)
<1>1. wire \in Seq(Item) /\ slot.dw \in Seq(Item) /\ slot.high \in Seq(Item) /\ slot.low \in Seq(Item)
  BY AllType DEF SockTypeOK
<1>2. wire \o slot.dw \in Seq(Item) /\ Ahead \in Seq(Item) /\ << >> \in Seq(Item)
  BY <1>1, ConcatProperties, EmptySeq DEF Ahead
<1>3. Ahead = wire \o (slot.dw \o slot.high)
  BY <1>1, ConcatThree DEF Ahead
<1> QED
  BY <1>1, <1>2, <1>3

(* Nothing is written or queued.                                           *)
LEMMA WireQuiet ==
  ASSUME WireInv, wire' = wire, sent' = sent, cut => cut', slot'.id = slot.id,
         slot'.dw = slot.dw, slot'.high = slot.high, slot'.low = slot.low,
         \/ slot'.type = slot.type
         \/ InUse /\ slot'.type # "RESERVE"
  PROVE  WireInv'
<1>1. ForInv'
  BY DEF WireInv, ForInv
<1>2. slot'.type = "RESERVE" => wire' = << >>
  BY DEF WireInv, PairInv, InUse
<1>3. cut' \/ PairPrefix(wire')
  BY DEF WireInv, PairInv
<1>4. Ahead' = Ahead
  BY DEF Ahead
<1>5. cut' \/ ~InUse' \/ (Whole(Ahead') /\ Whole(slot'.low))
  BY <1>4 DEF WireInv, PairInv, InUse
<1> QED
  BY <1>1, <1>2, <1>3, <1>4, <1>5 DEF WireInv, PairInv

LEMMA WireForced ==
  ASSUME SockTypeOK, WireInv, NEW close, ForceClose(close), InUse, wire' = wire, sent' = sent
  PROVE  WireInv'
<1>0. /\ slot \in Slot /\ wire \in Seq(Item) /\ slot.dw \in Seq(Item) /\ slot.high \in Seq(Item)
      /\ wire \o slot.dw \in Seq(Item) /\ << >> \in Seq(Item) /\ Len(slot.high) \in Nat
      /\ Len(wire \o slot.dw) \in Nat
  BY AheadType, LenProperties DEF SockTypeOK
<1>1. /\ slot'.type = slot.type /\ slot'.id = slot.id /\ slot'.dw = slot.dw
      /\ slot'.high = << >> /\ slot'.low = << >> /\ cut' = (cut \/ Len(slot.high) % 2 = 1)
  BY <1>0, ForceCloseDoes
<1>2. ForInv'
  BY <1>1, ForEmpty DEF WireInv, ForInv
<1>3. slot'.type # "RESERVE"
  BY <1>1 DEF InUse
<1>4. cut' \/ PairPrefix(wire')
  BY <1>1 DEF WireInv, PairInv
<1>5. Ahead' = wire \o slot.dw
  BY <1>0, <1>1, ConcatEmptySeq DEF Ahead
<1>6. ASSUME ~cut' PROVE Whole(Ahead') /\ Whole(slot'.low)
  <2>1. ~cut /\ Len(slot.high) % 2 = 0
    BY <1>0, <1>1, <1>6, EvenSum
  <2>2. Whole((wire \o slot.dw) \o slot.high)
    BY <2>1 DEF WireInv, PairInv, Ahead
  <2>3. Len((wire \o slot.dw) \o slot.high) = Len(wire \o slot.dw) + Len(slot.high)
    BY <1>0, ConcatProperties
  <2>4. Len(wire \o slot.dw) % 2 = 0
    <3>1. (Len(wire \o slot.dw) + Len(slot.high)) % 2 = 0
      BY <2>2, <2>3 DEF Whole
    <3> QED
      BY <1>0, <2>1, <3>1, EvenSum
  <2>5. Whole(wire \o slot.dw)
    BY <1>0, <2>2, <2>4, WholeParts
  <2>6. Whole(slot'.low)
    BY <1>1, EmptySeq DEF Whole, PairPrefix
  <2> QED
    BY <1>5, <2>5, <2>6
<1> QED
  BY <1>2, <1>3, <1>4, <1>6 DEF WireInv, PairInv

(* The next id starts with nothing written and nothing queued.             *)
LEMMA WireReset ==
  ASSUME wire' = << >>, slot'.dw = << >>, slot'.high = << >>, slot'.low = << >>
  PROVE  WireInv'
<1>1. ForInv'
  BY ForEmpty DEF ForInv
<1>2. << >> \in Seq(Item) /\ << >> \o << >> = << >>
  BY EmptySeq, ConcatEmptySeq
<1>3. Ahead' = << >>
  BY <1>2 DEF Ahead
<1>4. Whole(<< >>) /\ PairPrefix(<< >>)
  BY EmptySeq DEF Whole, PairPrefix
<1> QED
  BY <1>1, <1>3, <1>4 DEF WireInv, PairInv

(* An item is its first n halves and the rest of them.                     *)
LEMMA HalvesJoin ==
  ASSUME NEW m \in Item, NEW n \in 0 .. 2
  PROVE  /\ 2 - n \in 0 .. 2 /\ Halves(m, n) \in Seq(Item) /\ Halves(m, 2 - n) \in Seq(Item)
         /\ Halves(m, 2) \in Seq(Item)
         /\ Len(Halves(m, n)) = n /\ Len(Halves(m, 2 - n)) = 2 - n /\ Len(Halves(m, 2)) = 2
         /\ \A i \in 1 .. n : Halves(m, n)[i] = m
         /\ \A i \in 1 .. 2 - n : Halves(m, 2 - n)[i] = m
         /\ \A i \in 1 .. 2 : Halves(m, 2)[i] = m
         /\ Halves(m, n) \o Halves(m, 2 - n) = Halves(m, 2)
<1>1. /\ 2 - n \in 0 .. 2 /\ Halves(m, n) \in Seq(Item) /\ Halves(m, 2 - n) \in Seq(Item)
      /\ Halves(m, 2) \in Seq(Item)
      /\ Len(Halves(m, n)) = n /\ Len(Halves(m, 2 - n)) = 2 - n /\ Len(Halves(m, 2)) = 2
      /\ \A i \in 1 .. n : Halves(m, n)[i] = m
      /\ \A i \in 1 .. 2 - n : Halves(m, 2 - n)[i] = m
      /\ \A i \in 1 .. 2 : Halves(m, 2)[i] = m
  <2>1. 2 - n \in 0 .. 2 /\ 2 \in 0 .. 2
    OBVIOUS
  <2> QED
    BY <2>1, HalvesType
<1>2. /\ Halves(m, n) \o Halves(m, 2 - n) \in Seq(Item)
      /\ Len(Halves(m, n) \o Halves(m, 2 - n)) = n + (2 - n)
      /\ \A i \in 1 .. n + (2 - n) : (Halves(m, n) \o Halves(m, 2 - n))[i]
             = IF i <= n THEN Halves(m, n)[i] ELSE Halves(m, 2 - n)[i - n]
  BY <1>1, ConcatProperties
<1>3. n + (2 - n) = 2
  OBVIOUS
<1>4. ASSUME NEW i \in 1 .. 2 PROVE (Halves(m, n) \o Halves(m, 2 - n))[i] = m
  <2>1. CASE i <= n
    <3>1. i \in 1 .. n
      BY <2>1
    <3> QED
      BY <1>1, <1>2, <1>3, <2>1, <3>1
  <2>2. CASE ~(i <= n)
    <3>1. i - n \in 1 .. 2 - n
      BY <2>2
    <3> QED
      BY <1>1, <1>2, <1>3, <2>2, <3>1
  <2> QED
    BY <2>1, <2>2
<1>5. /\ Len(Halves(m, n) \o Halves(m, 2 - n)) = 2 /\ Len(Halves(m, 2)) = 2
      /\ Halves(m, n) \o Halves(m, 2 - n) \in Seq(Item) /\ Halves(m, 2) \in Seq(Item)
  BY <1>1, <1>2, <1>3
<1>6. \A i \in 1 .. 2 : (Halves(m, n) \o Halves(m, 2 - n))[i] = Halves(m, 2)[i]
  BY <1>1, <1>4
<1>7. Halves(m, n) \o Halves(m, 2 - n) = Halves(m, 2)
  BY <1>5, <1>6, SeqEqual
<1> QED
  BY <1>1, <1>7

LEMMA WireServices ==
  ASSUME SockInv, SentInv, WireInv, Services PROVE WireInv'
<1> USE DEF hist, SockInv
<1>0. /\ slot \in Slot /\ api \in [Sender -> Calls] /\ sent \in [Item -> 0 .. MaxId] /\ SockTypeOK
  BY DEF SockTypeOK
<1>1. CASE SockConnect
  <2>1. /\ wire' = << >> /\ slot'.dw = slot.dw /\ slot'.high = slot.high /\ slot'.low = slot.low
        /\ slot.type = "INVALID"
    BY <1>0, <1>1 DEF SockConnect, Reservable, Reserved, NewHistory, Slot
  <2> QED
    BY <2>1, WireReset DEF EmptyInv, InUse, ListsEmpty
<1>2. CASE \/ \E id \in Ids : SockStart(id) \/ SockPause(id)
                                \/ \E how \in {"K", "shutdown"} : SockClose(id, how)
           \/ \E v \in Sender : \/ CheckQueues(v) \/ CheckSending(v) \/ TryLock(v) \/ RecheckQueues(v)
                                \/ RecheckSending(v) \/ TriggerWrite(v) \/ IncSendingRef(v)
                                \/ RequestSend(v)
  <2>1. /\ wire' = wire /\ sent' = sent /\ cut' = cut
    BY <1>2 DEF SockStart, SockPause, SockClose, CheckQueues, CheckSending, TryLock, RecheckQueues,
       RecheckSending, TriggerWrite, IncSendingRef, RequestSend
  <2>2. /\ slot'.id = slot.id /\ slot'.type = slot.type /\ slot'.dw = slot.dw
        /\ slot'.high = slot.high /\ slot'.low = slot.low
    BY <1>0, <1>2 DEF SockStart, SockPause, SockClose, CheckQueues, CheckSending, TryLock,
       RecheckQueues, RecheckSending, TriggerWrite, IncSendingRef, RequestSend, Slot
  <2> QED
    BY <2>1, <2>2, WireQuiet
<1>3. ASSUME NEW id \in Ids, NEW v \in Sender, NEW m \in Item, NEW low \in BOOLEAN,
             SockSend(v, id, m, low)
      PROVE  WireInv'
  <2>1. /\ slot' = slot /\ wire' = wire /\ cut' = cut /\ sent[m] = 0 /\ sent' = [sent EXCEPT ![m] = id]
        /\ slot.id = id /\ id # 0
    BY <1>3 DEF SockSend, SocketInvalid, Ids
  <2>2. ASSUME NEW s \in Seq(Item), IsFor(s, sent, slot.id) PROVE IsFor(s, sent', slot.id)
    <3>1. \A i \in 1 .. Len(s) : s[i] \in Item
      BY ElementOfSeq
    <3>2. \A i \in 1 .. Len(s) : s[i] # m
      BY <2>1, <2>2 DEF IsFor
    <3> QED
      BY <1>0, <2>1, <2>2, <3>1, <3>2 DEF IsFor
  <2>3. ForInv'
    BY <2>1, <2>2, AheadType DEF WireInv, ForInv
  <2>4. PairInv'
    BY <2>1 DEF WireInv, PairInv, Ahead, InUse
  <2> QED
    BY <2>3, <2>4 DEF WireInv
<1>4. ASSUME NEW v \in Sender, NEW n \in 0 .. 2, DirectWrite(v, n) PROVE WireInv'
  <2> DEFINE m == api[v].item
  <2>1. api[v].at = "write" /\ api[v] # Idle
    BY <1>4 DEF DirectWrite, Calling, Idle
  <2>2. /\ slot.id = api[v].id /\ slot.dw = << >> /\ InUse
        /\ cut \/ Len(slot.high) % 2 = 0
    BY <2>1 DEF LockInv, Calling
  <2>3. m \in Item /\ sent[m] = slot.id
    BY <1>0, <2>1, <2>2 DEF SentInv, Calls
  <2>4. /\ wire' = wire \o Halves(m, n) /\ slot'.dw = Halves(m, 2 - n) /\ slot'.high = slot.high
        /\ slot'.low = slot.low /\ slot'.id = slot.id /\ slot'.type = slot.type
        /\ sent' = sent /\ cut' = cut
    BY <1>0, <1>4 DEF DirectWrite, Slot
  <2> HIDE DEF m
  <2>5. /\ 2 - n \in 0 .. 2 /\ Halves(m, n) \in Seq(Item) /\ Halves(m, 2 - n) \in Seq(Item)
        /\ Halves(m, 2) \in Seq(Item)
        /\ Len(Halves(m, n)) = n /\ Len(Halves(m, 2 - n)) = 2 - n /\ Len(Halves(m, 2)) = 2
        /\ \A i \in 1 .. n : Halves(m, n)[i] = m
        /\ \A i \in 1 .. 2 - n : Halves(m, 2 - n)[i] = m
        /\ \A i \in 1 .. 2 : Halves(m, 2)[i] = m
        /\ Halves(m, n) \o Halves(m, 2 - n) = Halves(m, 2)
    BY <2>3, HalvesJoin
  <2>7. /\ wire \in Seq(Item) /\ slot.high \in Seq(Item) /\ << >> \in Seq(Item)
        /\ Ahead = wire \o slot.high
    <3>1. /\ wire \in Seq(Item) /\ slot.high \in Seq(Item) /\ << >> \in Seq(Item)
      BY AheadType
    <3> QED
      BY <2>2, <3>1, ConcatEmptySeq DEF Ahead
  <2>12. (wire \o Halves(m, n)) \o Halves(m, 2 - n) = wire \o Halves(m, 2)
    <3>1. /\ wire \in Seq(Item) /\ Halves(m, n) \in Seq(Item) /\ Halves(m, 2 - n) \in Seq(Item)
      BY <2>5, <2>7
    <3>2. (wire \o Halves(m, n)) \o Halves(m, 2 - n) = wire \o (Halves(m, n) \o Halves(m, 2 - n))
      BY <3>1, ConcatThree
    <3> QED
      BY <2>5, <3>2
  <2>8. Ahead' = (wire \o Halves(m, 2)) \o slot.high
    BY <2>4, <2>12 DEF Ahead
  <2>9. ForInv'
    <3>1. IsFor(Halves(m, n), sent, slot.id) /\ IsFor(Halves(m, 2 - n), sent, slot.id)
      BY <2>3, <2>5 DEF IsFor
    <3>2. IsFor(wire \o Halves(m, n), sent, slot.id)
      BY <2>5, <2>7, <3>1, ForConcat DEF WireInv, ForInv
    <3> QED
      BY <2>4, <3>1, <3>2 DEF WireInv, ForInv
  <2>10. ASSUME ~cut PROVE Whole(Ahead') /\ Whole(slot'.low) /\ PairPrefix(wire')
    <3>1. Whole(wire \o slot.high) /\ Whole(slot.low) /\ Len(slot.high) % 2 = 0
      BY <2>2, <2>7, <2>10 DEF WireInv, PairInv
    <3>2. Len(wire) % 2 = 0
      <4>1. /\ Len(wire \o slot.high) = Len(wire) + Len(slot.high)
            /\ Len(wire) \in Nat /\ Len(slot.high) \in Nat
        BY <2>7, ConcatProperties, LenProperties
      <4>2. (Len(wire) + Len(slot.high)) % 2 = 0
        BY <3>1, <4>1 DEF Whole
      <4> QED
        BY <3>1, <4>1, <4>2, EvenSum
    <3>3. Whole(wire) /\ Whole(slot.high)
      BY <2>7, <3>1, <3>2, WholeParts
    <3>4. Whole(wire \o Halves(m, 2)) /\ wire \o Halves(m, 2) \in Seq(Item)
      BY <2>3, <2>5, <2>7, <3>2, <3>3, WholeParts, WholeItem, ConcatProperties
    <3>5. Whole((wire \o Halves(m, 2)) \o slot.high)
      <4>1. Len(wire \o Halves(m, 2)) % 2 = 0
        BY <3>4 DEF Whole
      <4> QED
        BY <2>7, <3>3, <3>4, <4>1, WholeParts
    <3>6. PairPrefix(wire \o Halves(m, n))
      <4>2. wire \o Halves(m, n) \in Seq(Item)
        BY <2>5, <2>7, ConcatProperties
      <4> QED
        BY <2>5, <2>12, <3>4, <4>2, PairStart DEF Whole
    <3> QED
      BY <2>4, <2>8, <3>1, <3>5, <3>6
  <2>11. PairInv'
    <3>1. slot'.type # "RESERVE"
      BY <2>2, <2>4 DEF InUse
    <3>2. cut' <=> cut
      BY <2>4
    <3> QED
      BY <2>10, <3>1, <3>2 DEF PairInv
  <2> QED
    BY <2>9, <2>11 DEF WireInv
<1> QED
  BY <1>1, <1>2, <1>3, <1>4 DEF Services

(* send_socket queues a whole item for the id it was sent to.              *)
LEMMA WireSend ==
  ASSUME SockInv, SentInv, WireInv, NEW id \in Ids, NEW c \in {"D", "P"}, SendSocket(c, id)
  PROVE  WireInv'
<1> USE DEF hist, SockInv
<1>0. slot \in Slot /\ IdsInv /\ SockTypeOK
  BY DEF SockTypeOK
<1> DEFINE m == Head(pipe).item
<1>1. wire' = wire /\ sent' = sent /\ cut' = cut /\ Handle(c, id)
  BY DEF SendSocket
<1>2. CASE slot' = Uncounted(slot, id)
  <2>1. /\ slot'.id = slot.id /\ slot'.type = slot.type /\ slot'.dw = slot.dw
        /\ slot'.high = slot.high /\ slot'.low = slot.low
    BY <1>0, <1>2 DEF Uncounted, Slot
  <2> QED
    BY <1>1, <2>1, WireQuiet
<1>3. ASSUME ~SendRefused(id)
      PROVE  m \in Item /\ sent[m] = slot.id /\ InUse
  <2>1. slot.id = id /\ slot.type # "INVALID"
    BY <1>3 DEF SendRefused, SocketInvalid
  <2>2. m \in Item
    BY <1>0, <1>1, HeadType
  <2>3. Head(pipe) = pipe[1] /\ 1 \in 1 .. Len(pipe) /\ Head(pipe).cmd = c /\ Head(pipe).id = id
        /\ (slot.type \in {"RESERVE", "CONNECTING"} => slot.id # id)
    BY <1>0, <1>1, HeadKnown
  <2>4. InUse
    BY <2>1, <2>3 DEF InUse
  <2>5. pipe[1].cmd \in {"D", "P"}
    BY <2>3
  <2>6. sent[pipe[1].item] = pipe[1].id
    BY <2>3, <2>5 DEF SentInv
  <2> QED
    BY <2>1, <2>2, <2>3, <2>4, <2>6
<1> HIDE DEF m
<1>4. ASSUME m \in Item, sent[m] = slot.id
      PROVE  /\ Halves(m, 2) \in Seq(Item) /\ Whole(Halves(m, 2))
             /\ IsFor(Halves(m, 2), sent, slot.id)
  <2>1. 2 \in 0 .. 2
    OBVIOUS
  <2>2. Halves(m, 2) \in Seq(Item) /\ Len(Halves(m, 2)) = 2 /\ \A i \in 1 .. 2 : Halves(m, 2)[i] = m
    BY <1>4, <2>1, HalvesType
  <2>3. IsFor(Halves(m, 2), sent, slot.id)
    BY <1>4, <2>2 DEF IsFor
  <2> QED
    BY <1>4, <2>2, <2>3, WholeItem
<1>5. CASE /\ ~SendRefused(id)
           /\ slot' = Uncounted([slot EXCEPT !.high = @ \o Halves(m, 2),
                                             !.writing = @ \/ ListsEmpty], id)
  <2>1. /\ slot'.id = slot.id /\ slot'.type = slot.type /\ slot'.dw = slot.dw
        /\ slot'.high = slot.high \o Halves(m, 2) /\ slot'.low = slot.low
    BY <1>0, <1>5 DEF Uncounted, Slot
  <2>2. /\ Halves(m, 2) \in Seq(Item) /\ Whole(Halves(m, 2)) /\ IsFor(Halves(m, 2), sent, slot.id)
        /\ InUse
    BY <1>3, <1>4, <1>5
  <2>3. /\ wire \o slot.dw \in Seq(Item) /\ slot.high \in Seq(Item) /\ Ahead \in Seq(Item)
    BY <1>0, AheadType
  <2>4. Ahead' = Ahead \o Halves(m, 2)
    <3>1. ((wire \o slot.dw) \o slot.high) \o Halves(m, 2)
            = (wire \o slot.dw) \o (slot.high \o Halves(m, 2))
      BY <2>2, <2>3, ConcatThree
    <3> QED
      BY <1>1, <2>1, <3>1 DEF Ahead
  <2>5. ForInv'
    <3>1. IsFor(slot.high \o Halves(m, 2), sent, slot.id)
      BY <2>2, <2>3, ForConcat DEF WireInv, ForInv
    <3> QED
      BY <1>1, <2>1, <3>1 DEF WireInv, ForInv
  <2>6. ASSUME ~cut PROVE Whole(Ahead') /\ Whole(slot'.low)
    <3>1. Whole(Ahead) /\ Whole(slot.low)
      BY <2>2, <2>6 DEF WireInv, PairInv
    <3>2. Len(Ahead) % 2 = 0
      BY <3>1 DEF Whole
    <3>3. Whole(Ahead \o Halves(m, 2))
      BY <2>2, <2>3, <3>1, <3>2, WholeParts
    <3> QED
      BY <2>1, <2>4, <3>1, <3>3
  <2>7. cut' \/ PairPrefix(wire')
    BY <1>1 DEF WireInv, PairInv
  <2>8. slot'.type # "RESERVE"
    BY <2>1, <2>2 DEF InUse
  <2> QED
    BY <1>1, <2>5, <2>6, <2>7, <2>8 DEF WireInv, PairInv
<1>6. CASE ~SendRefused(id) /\ slot' = Uncounted([slot EXCEPT !.low = @ \o Halves(m, 2)], id)
  <2>1. /\ slot'.id = slot.id /\ slot'.type = slot.type /\ slot'.dw = slot.dw
        /\ slot'.high = slot.high /\ slot'.low = slot.low \o Halves(m, 2)
    BY <1>0, <1>6 DEF Uncounted, Slot
  <2>2. /\ Halves(m, 2) \in Seq(Item) /\ Whole(Halves(m, 2)) /\ IsFor(Halves(m, 2), sent, slot.id)
        /\ InUse
    BY <1>3, <1>4, <1>6
  <2>3. slot.low \in Seq(Item) /\ Ahead' = Ahead
    <3>1. Ahead' = Ahead
      BY <1>1, <2>1 DEF Ahead
    <3> QED
      BY <1>0, <3>1, AheadType
  <2>4. ForInv'
    <3>1. IsFor(slot.low \o Halves(m, 2), sent, slot.id)
      BY <2>2, <2>3, ForConcat DEF WireInv, ForInv
    <3> QED
      BY <1>1, <2>1, <3>1 DEF WireInv, ForInv
  <2>5. ASSUME ~cut PROVE Whole(Ahead') /\ Whole(slot'.low)
    <3>1. Whole(Ahead) /\ Whole(slot.low)
      BY <2>2, <2>5 DEF WireInv, PairInv
    <3>2. Len(slot.low) % 2 = 0
      BY <3>1 DEF Whole
    <3>3. Whole(slot.low \o Halves(m, 2))
      BY <2>2, <2>3, <3>1, <3>2, WholeParts
    <3> QED
      BY <2>1, <2>3, <3>1, <3>3
  <2>6. cut' \/ PairPrefix(wire')
    BY <1>1 DEF WireInv, PairInv
  <2>7. slot'.type # "RESERVE"
    BY <2>1, <2>2 DEF InUse
  <2> QED
    BY <1>1, <2>4, <2>5, <2>6, <2>7 DEF WireInv, PairInv
<1> QED
  BY <1>2, <1>5, <1>6 DEF SendSocket, m

(* send_buffer writes the first halves and keeps the others in their order, *)
(* with an item that has begun alone in front of high.                      *)
LEMMA WireBuffer ==
  ASSUME SockInv, WireInv, NEW n \in Nat, SendBuffer(n)
  PROVE  WireInv'
<1> USE DEF SockInv
<1> DEFINE high == slot.dw \o slot.high
           out  == SubSeq(All, 1, n)
           rest == SubSeq(All, n + 1, Len(All))
<1>1. /\ All \in Seq(Item) /\ Len(All) \in Nat /\ n <= Len(All)
      /\ wire' = wire \o out /\ out \in Seq(Item) /\ Len(out) = n
      /\ slot'.type = slot.type /\ slot'.id = slot.id /\ slot'.dw = << >> /\ InUse
      /\ slot'.high \in Seq(Item) /\ slot'.low \in Seq(Item)
      /\ slot'.high \o slot'.low = rest /\ cut' = cut /\ sent' = sent
      /\ \/ n < Len(All) /\ Len(slot'.high) = Ends(n)
         \/ n = Len(All) /\ slot'.high = << >> /\ slot'.low = << >>
  BY SendBufferDoes DEF SockTypeOK
<1>2. /\ wire \in Seq(Item) /\ high \in Seq(Item) /\ slot.low \in Seq(Item) /\ Ahead \in Seq(Item)
      /\ slot.dw \in Seq(Item) /\ slot.high \in Seq(Item) /\ Ahead = wire \o high
      /\ All = high \o slot.low
  BY AheadType, ConcatType DEF All
<1>3. out \o rest = All
  <2>1. 1 \in 1 .. Len(All) + 1 /\ n \in 1 - 1 .. Len(All) /\ Len(All) \in n .. Len(All)
    BY <1>1
  <2>2. SubSeq(All, 1, n) \o SubSeq(All, n + 1, Len(All)) = SubSeq(All, 1, Len(All))
    BY <1>1, <2>1, ConcatAdjacentSubSeq
  <2>3. SubSeq(All, 1, Len(All)) = All
    BY <1>1, SubSeqFull
  <2> QED
    BY <2>2, <2>3
<1>4. /\ Len(Ahead) = Len(wire) + Len(high) /\ Len(All) = Len(high) + Len(slot.low)
      /\ Len(wire) \in Nat /\ Len(high) \in Nat /\ Len(slot.low) \in Nat /\ Len(slot'.high) \in Nat
  BY <1>1, <1>2, ConcatType, LenProperties
<1>e. Ends(n) = IF n < Len(high) THEN Len(high) - n ELSE (n - Len(high)) % 2
  BY DEF Ends
<1> HIDE DEF high, out, rest
<1>5. rest \in Seq(Item)
  BY <1>1, ConcatType
<1>6. wire' \in Seq(Item) /\ wire' \o slot'.high \in Seq(Item)
      /\ Len(wire' \o slot'.high) = (Len(wire) + n) + Len(slot'.high)
      /\ Ahead' = wire' \o slot'.high
  <2>1. wire' \in Seq(Item) /\ Len(wire') = Len(wire) + n
    BY <1>1, <1>2, ConcatType
  <2>2. wire' \o slot'.high \in Seq(Item) /\ Len(wire' \o slot'.high) = Len(wire') + Len(slot'.high)
    BY <1>1, <2>1, ConcatType
  <2>3. wire' \o << >> = wire'
    BY <2>1, ConcatEmptySeq
  <2> QED
    BY <1>1, <2>1, <2>2, <2>3 DEF Ahead
<1>7. /\ (wire' \o slot'.high) \o slot'.low = Ahead \o slot.low
      /\ wire' \o rest = Ahead \o slot.low
  <2>0. /\ wire \in Seq(Item) /\ out \in Seq(Item) /\ rest \in Seq(Item) /\ high \in Seq(Item)
        /\ slot.low \in Seq(Item) /\ wire' \in Seq(Item) /\ slot'.high \in Seq(Item)
        /\ slot'.low \in Seq(Item)
    BY <1>1, <1>2, <1>5, <1>6
  <2>1. (wire \o out) \o rest = wire \o (out \o rest)
    <3>1. wire \in Seq(Item) /\ out \in Seq(Item) /\ rest \in Seq(Item)
      BY <2>0
    <3> QED
      BY <3>1, ConcatThree
  <2>2. (wire \o high) \o slot.low = wire \o (high \o slot.low)
    <3>1. wire \in Seq(Item) /\ high \in Seq(Item) /\ slot.low \in Seq(Item)
      BY <2>0
    <3> QED
      BY <3>1, ConcatThree
  <2>3. (wire' \o slot'.high) \o slot'.low = wire' \o (slot'.high \o slot'.low)
    <3>1. wire' \in Seq(Item) /\ slot'.high \in Seq(Item) /\ slot'.low \in Seq(Item)
      BY <2>0
    <3> QED
      BY <3>1, ConcatThree
  <2>4. /\ wire' = wire \o out /\ out \o rest = All /\ All = high \o slot.low
        /\ Ahead = wire \o high /\ slot'.high \o slot'.low = rest
    BY <1>1, <1>2, <1>3
  <2>5. wire' \o rest = Ahead \o slot.low
    BY <2>1, <2>2, <2>4
  <2> QED
    BY <2>3, <2>4, <2>5
<1>8. ForInv'
  <2>1. IsFor(high, sent, slot.id)
    BY <1>2, ForConcat DEF WireInv, ForInv, high
  <2>2. IsFor(All, sent, slot.id)
    BY <1>2, <2>1, ForConcat DEF WireInv, ForInv
  <2>3. IsFor(out, sent, slot.id) /\ IsFor(rest, sent, slot.id)
    <3>1. out \in Seq(Item) /\ rest \in Seq(Item) /\ IsFor(out \o rest, sent, slot.id)
      BY <1>1, <1>3, <1>5, <2>2
    <3> QED
      BY <3>1, ForConcat
  <2>4. IsFor(slot'.high, sent, slot.id) /\ IsFor(slot'.low, sent, slot.id)
    BY <1>1, <2>3, ForConcat
  <2>5. IsFor(wire', sent, slot.id)
    BY <1>1, <1>2, <2>3, ForConcat DEF WireInv, ForInv
  <2>6. IsFor(<< >>, sent, slot.id)
    BY ForEmpty
  <2> QED
    BY <1>1, <2>4, <2>5, <2>6 DEF ForInv
<1>9. ASSUME ~cut PROVE PairPrefix(wire') /\ Whole(Ahead') /\ Whole(slot'.low)
  <2>1. Whole(Ahead) /\ Whole(slot.low)
    BY <1>1, <1>9 DEF WireInv, PairInv
  <2>2. Len(Ahead) % 2 = 0 /\ Len(slot.low) % 2 = 0
    BY <2>1 DEF Whole
  <2>3. Whole(Ahead \o slot.low)
    BY <1>2, <2>1, <2>2, WholeParts
  <2>4. PairPrefix(wire')
    BY <1>5, <1>6, <1>7, <2>3, PairStart DEF Whole
  <2>5. ((Len(wire) + n) + Len(slot'.high)) % 2 = 0
    <3>1. (Len(wire) + Len(high)) % 2 = 0
      BY <1>4, <2>2
    <3>2. CASE n < Len(All) /\ n < Len(high)
      <4>1. Len(slot'.high) = Len(high) - n
        BY <1>1, <1>e, <3>2
      <4>2. (Len(wire) + n) + Len(slot'.high) = Len(wire) + Len(high)
        BY <1>4, <4>1
      <4> QED
        BY <3>1, <4>2
    <3>3. CASE n < Len(All) /\ ~(n < Len(high))
      <4>1. Len(slot'.high) = (n - Len(high)) % 2 /\ n >= Len(high)
        BY <1>1, <1>4, <1>e, <3>3
      <4> QED
        BY <1>4, <3>1, <4>1, EvenCut
    <3>4. CASE n = Len(All) /\ slot'.high = << >>
      <4>1. Len(slot'.high) = 0
        BY <3>4
      <4>2. n = Len(high) + Len(slot.low)
        BY <1>4, <3>4
      <4>3. \E k \in Nat : k % 2 = 0 /\ n = Len(high) + k
        BY <1>4, <2>2, <4>2
      <4> QED
        BY <1>4, <3>1, <4>1, <4>3, EvenCut
    <3> QED
      BY <1>1, <3>2, <3>3, <3>4
  <2>6. Whole(wire' \o slot'.high) /\ Whole(slot'.low)
    <3>1. Len(wire' \o slot'.high) % 2 = 0
      BY <1>6, <2>5
    <3>2. Whole((wire' \o slot'.high) \o slot'.low)
      BY <1>7, <2>3
    <3> QED
      BY <1>1, <1>6, <3>1, <3>2, WholeParts
  <2> QED
    BY <1>6, <2>4, <2>6
<1>10. slot'.type # "RESERVE"
  BY <1>1 DEF InUse
<1> QED
  BY <1>1, <1>8, <1>9, <1>10 DEF WireInv, PairInv

LEMMA WireThread ==
  ASSUME SockInv, SentInv, WireInv, SockThread \/ \E how \in {"fin", "error"} : PeerEnds(how)
  PROVE  WireInv'
<1> USE DEF hist, SockInv
<1>0. slot \in Slot /\ IdsInv /\ SockTypeOK
  BY DEF SockTypeOK
<1>1. CASE \/ \E writable \in BOOLEAN : SpWait(writable)
           \/ NoCommand \/ RecvError \/ SendBlocked \/ ReportError
           \/ \E how \in {"fin", "error"} : PeerEnds(how)
  <2>1. slot' = slot /\ wire' = wire /\ sent' = sent /\ cut' = cut
    BY <1>1 DEF SpWait, NoCommand, RecvError, SendBlocked, ReportError, PeerEnds
  <2> QED
    BY <2>1, WireQuiet
<1>2. CASE ForceClosed
  <2>1. /\ wire' = wire /\ sent' = sent /\ cut' = cut
        /\ slot'.type = "INVALID" /\ slot'.id = slot.id /\ slot'.dw = << >>
        /\ slot'.high = slot.high /\ slot'.low = slot.low
    BY <1>0, <1>2 DEF ForceClosed, Slot
  <2>2. ForInv'
    BY <2>1, ForEmpty DEF WireInv, ForInv
  <2> QED
    BY <2>1, <2>2 DEF WireInv, PairInv, InUse
<1>3. CASE ReportAccept
  <2>1. /\ wire' = << >> /\ slot'.high = slot.high /\ slot'.low = slot.low /\ slot'.dw = << >>
        /\ slot.type = "INVALID"
    BY <1>0, <1>3 DEF ReportAccept, Reservable, NewFd, Reserved, NewHistory, Slot
  <2> QED
    BY <2>1, WireReset DEF EmptyInv, InUse, ListsEmpty
<1>4. CASE ReportConnect
  <2>1. InUse /\ wire' = wire /\ sent' = sent
    BY <1>4 DEF ReportConnect, OnSlotEvent
  <2>2. CASE ForceClose(FALSE)
    BY <1>0, <2>1, <2>2, WireForced
  <2>3. CASE slot' = [slot EXCEPT !.type = "CONNECTED", !.writing = @ /\ ~NomoreSendingData] /\ cut' = cut
    <3>1. /\ slot'.id = slot.id /\ slot'.high = slot.high /\ slot'.low = slot.low
          /\ slot'.dw = slot.dw /\ slot'.type = "CONNECTED"
      BY <1>0, <2>3 DEF Slot
    <3> QED
      BY <2>1, <2>3, <3>1, WireQuiet
  <2> QED
    BY <1>4, <2>2, <2>3 DEF ReportConnect
<1>5. CASE RecvZero
  <2>1. InUse /\ wire' = wire /\ sent' = sent
    BY <1>5 DEF RecvZero, ReadNext, OnSlotEvent
  <2>2. CASE \E c \in BOOLEAN : ForceClose(c)
    BY <1>0, <2>1, <2>2, WireForced
  <2>3. CASE CloseRead(slot) /\ cut' = cut
    <3>1. /\ slot'.id = slot.id /\ slot'.high = slot.high /\ slot'.low = slot.low
          /\ slot'.dw = slot.dw /\ slot'.type = "HALFCLOSE_READ"
      BY <1>0, <2>3, CloseReadDoes
    <3> QED
      BY <2>1, <2>3, <3>1, WireQuiet
  <2>4. CASE slot' = slot /\ cut' = cut
    BY <2>1, <2>4, WireQuiet
  <2> QED
    BY <1>5, <2>2, <2>3, <2>4 DEF RecvZero
<1>6. CASE SendError
  <2>1. InUse /\ wire' = wire /\ sent' = sent
    BY <1>6 DEF SendError, WriteNext, OnSlotEvent
  <2>2. CASE ForceClose(FALSE)
    BY <1>0, <2>1, <2>2, WireForced
  <2>3. CASE /\ cut' = cut
             /\ slot' = [slot EXCEPT !.dw = << >>, !.high = slot.dw \o @,
                           !.writing = @ /\ slot.type = "HALFCLOSE_WRITE",
                           !.type = "HALFCLOSE_WRITE"]
    <3>1. /\ slot'.id = slot.id /\ slot'.type = "HALFCLOSE_WRITE" /\ slot'.dw = << >>
          /\ slot'.high = slot.dw \o slot.high /\ slot'.low = slot.low
      BY <1>0, <2>3 DEF Slot
    <3>2. /\ wire \in Seq(Item) /\ slot.dw \in Seq(Item) /\ slot.high \in Seq(Item)
          /\ Ahead = wire \o (slot.dw \o slot.high) /\ wire \o << >> = wire
      BY <1>0, AheadType, ConcatEmptySeq
    <3>3. Ahead' = Ahead
      BY <2>1, <3>1, <3>2 DEF Ahead
    <3>4. IsFor(slot.dw \o slot.high, sent, slot.id)
      BY <3>2, ForConcat DEF WireInv, ForInv
    <3>5. ForInv'
      BY <2>1, <3>1, <3>4, ForEmpty DEF WireInv, ForInv
    <3>6. ~cut => PairPrefix(wire') /\ Whole(Ahead') /\ Whole(slot'.low)
      BY <2>1, <3>1, <3>3 DEF WireInv, PairInv
    <3> QED
      BY <2>3, <3>1, <3>5, <3>6 DEF WireInv, PairInv
  <2> QED
    BY <1>6, <2>2, <2>3 DEF SendError
<1>7. CASE Eof
  <2>1. InUse /\ wire' = wire /\ sent' = sent /\ ForceClose(~HalfcloseRead)
    BY <1>7 DEF Eof, OnSlotEvent
  <2> QED
    BY <1>0, <2>1, WireForced
<1>8. CASE \E n \in 0 .. 2 * Cardinality(Item) : SendBuffer(n)
  <2>1. \E n \in Nat : SendBuffer(n)
    BY <1>8
  <2> QED
    BY <2>1, WireBuffer
<1>9. ASSUME NEW id \in Ids, OpenSocket(id) PROVE WireInv'
  <2>1. slot.type = "RESERVE"
    BY <1>0, <1>9, HeadKnown DEF OpenSocket
  <2>2. \/ slot' = [slot EXCEPT !.type = "INVALID"]
        \/ NewFd(slot, "CONNECTED", TRUE, FALSE)
        \/ NewFd(slot, "CONNECTING", TRUE, TRUE)
    BY <1>9 DEF OpenSocket
  <2>3. slot'.high = slot.high /\ slot'.low = slot.low /\ slot'.dw \in {slot.dw, << >>}
    BY <1>0, <2>2 DEF NewFd, Slot
  <2>4. wire' = << >>
    BY <1>9, <2>1 DEF OpenSocket, WireInv, PairInv
  <2> QED
    BY <2>1, <2>3, <2>4, WireReset DEF EmptyInv, InUse, ListsEmpty
<1>10. ASSUME NEW id \in Ids, ResumeSocket(id) \/ PauseSocket(id) \/ EnableWrite(id) PROVE WireInv'
  <2>1. /\ slot'.id = slot.id /\ wire' = wire /\ sent' = sent /\ cut' = cut
        /\ slot'.high = slot.high /\ slot'.low = slot.low /\ slot'.dw = slot.dw
        /\ slot'.type = slot.type \/ (slot.type = "PACCEPT" /\ slot'.type = "CONNECTED")
    BY <1>0, <1>10 DEF ResumeSocket, PauseSocket, EnableWrite, Slot
  <2> QED
    BY <2>1, WireQuiet DEF InUse
<1>11. ASSUME NEW id \in Ids, NEW how \in {"K", "shutdown"}, CloseSocket(id, how) PROVE WireInv'
  <2>1. wire' = wire /\ sent' = sent /\ Handle(how, id) /\ [slot EXCEPT !.closing = TRUE] \in Slot
    BY <1>0, <1>11 DEF CloseSocket, Slot
  <2>2. ASSUME ~SocketInvalid(id) PROVE InUse
    BY <1>0, <2>1, <2>2, HeadKnown DEF SocketInvalid, InUse
  <2>3. CASE ForceClose(~HalfcloseRead) /\ ~SocketInvalid(id)
    BY <1>0, <2>1, <2>2, <2>3, WireForced
  <2>4. CASE (slot' = slot \/ slot' = [slot EXCEPT !.closing = TRUE]) /\ cut' = cut
    <3>1. /\ slot'.id = slot.id /\ slot'.type = slot.type
          /\ slot'.high = slot.high /\ slot'.low = slot.low /\ slot'.dw = slot.dw
      BY <1>0, <2>4 DEF Slot
    <3> QED
      BY <2>1, <2>4, <3>1, WireQuiet
  <2>5. CASE CloseRead([slot EXCEPT !.closing = TRUE]) /\ ~SocketInvalid(id) /\ cut' = cut
    <3>1. /\ slot'.id = slot.id /\ slot'.type = "HALFCLOSE_READ"
          /\ slot'.high = slot.high /\ slot'.low = slot.low /\ slot'.dw = slot.dw
      BY <1>0, <2>1, <2>5, CloseReadDoes DEF Slot
    <3> QED
      BY <2>1, <2>2, <2>5, <3>1, WireQuiet
  <2> QED
    BY <1>11, <2>3, <2>4, <2>5 DEF CloseSocket
<1> QED
  BY <1>1, <1>2, <1>3, <1>4, <1>5, <1>6, <1>7, <1>8, <1>9, <1>10, <1>11, WireSend DEF SockThread

-----------------------------------------------------------------------------
(* Theorems *)

LinesInv == SockInv /\ SentInv /\ WireInv /\ WriteArmed /\ ClosingEnds

LEMMA LinesInvInit == SockInit => LinesInv
<1> SUFFICES ASSUME SockInit PROVE LinesInv
  OBVIOUS
<1>1. /\ slot.type = "INVALID" /\ slot.high = << >> /\ slot.low = << >> /\ slot.dw = << >>
      /\ wire = << >> /\ pipe = << >> /\ \A v \in Sender : api[v] = Idle
  BY DEF SockInit
<1>2. SentInv /\ WriteArmed /\ ClosingEnds
  BY <1>1 DEF SentInv, WriteArmed, ClosingEnds, InUse
<1>3. ForInv
  BY <1>1, ForEmpty DEF ForInv
<1>4. PairInv
  BY <1>1 DEF PairInv, PairPrefix, InUse
<1> QED
  BY <1>2, <1>3, <1>4, SockInvInit DEF LinesInv, WireInv

LEMMA LinesInvStep == LinesInv /\ [SockNext]_sockvars => LinesInv'
<1> SUFFICES ASSUME LinesInv, [SockNext]_sockvars PROVE LinesInv'
  OBVIOUS
<1> USE DEF LinesInv
<1>1. SockInv'
  BY SockInvStep
<1>2. CASE SockNext
  <2>1. Services \/ SockThread \/ \E how \in {"fin", "error"} : PeerEnds(how)
    BY <1>2 DEF SockNext
  <2>2. SentInv' /\ ClosingEnds'
    BY <1>2, SentStep, ClosingStep
  <2>3. WireInv'
    BY <2>1, WireServices, WireThread
  <2>4. WriteArmed'
    BY <2>1, ArmedServices, ArmedThread
  <2> QED
    BY <1>1, <2>2, <2>3, <2>4
<1>3. CASE UNCHANGED sockvars
  <2>1. slot' = slot /\ wire' = wire /\ sent' = sent /\ cut' = cut
    BY <1>3 DEF sockvars, hist
  <2>2. SentInv'
    BY <1>3 DEF sockvars, hist, SentInv
  <2>3. WireInv'
    BY <2>1, WireQuiet
  <2>4. WriteArmed' /\ ClosingEnds'
    BY <1>3 DEF sockvars, hist, WriteArmed, ClosingEnds, InUse, ListsEmpty, Calling
  <2> QED
    BY <1>1, <2>2, <2>3, <2>4
<1> QED
  BY <1>2, <1>3

LEMMA LinesInvAlways == SockSpec => []LinesInv
BY LinesInvInit, LinesInvStep, PTL DEF SockSpec

(* While something is queued and the connection can be written, the write  *)
(* event is on or asked for: trigger_write, send_socket, send_buffer_ and  *)
(* report_connect never leave data behind that nobody will send.           *)
THEOREM WritesAreArmed == SockSpec => []WriteArmed
<1>1. LinesInv => WriteArmed
  BY DEF LinesInv
<1> QED
  BY <1>1, LinesInvAlways, PTL

(* A socket that is closing has data to send or requests to refuse, and is *)
(* closed after them; otherwise a request was refused (close_socket,       *)
(* send_socket, send_buffer_).                                             *)
THEOREM ClosingHasAnEnd == SockSpec => []ClosingEnds
<1>1. LinesInv => ClosingEnds
  BY DEF LinesInv
<1> QED
  BY <1>1, LinesInvAlways, PTL

(* A direct write of a service and the writes of the socket thread put     *)
(* whole items on the connection they were sent to, one after the other,   *)
(* unless force_close has cut an item (socket_server_send, send_buffer_).  *)
THEOREM ItemsWhole == SockSpec => []WholeInOrder
<1>1. ASSUME LinesInv PROVE WholeInOrder
  <2>1. cut \/ PairPrefix(wire)
    BY <1>1 DEF LinesInv, WireInv, PairInv
  <2>2. wire \in Seq(Item)
    BY <1>1 DEF LinesInv, SockInv, SockTypeOK
  <2>3. \A i \in 1 .. Len(wire) : sent[wire[i]] = slot.id
    BY <1>1 DEF LinesInv, WireInv, ForInv, IsFor
  <2>4. \A m \in ToSet(wire) : sent[m] = slot.id
    BY <2>2, <2>3 DEF ToSet
  <2> QED
    BY <2>1, <2>4 DEF WholeInOrder, PairPrefix
<1> QED
  BY <1>1, LinesInvAlways, PTL

-----------------------------------------------------------------------------
(* What is owed when a socket is closed *)

(* Each item is in one place: a call that sends it, a request in the pipe, *)
(* or the line of halves that are written, left over or queued.            *)
Line == Ahead \o slot.low
Lacks(s, m) == \A k \in 1 .. Len(s) : s[k] # m
Twice(s, m) ==
  \E i, j \in 1 .. Len(s) : /\ i # j /\ s[i] = m /\ s[j] = m
                            /\ \A k \in 1 .. Len(s) : s[k] = m => k = i \/ k = j
Carries(c, m) == c.cmd \in {"D", "P"} /\ c.item = m
InPipe(m) == \E i \in 1 .. Len(pipe) : Carries(pipe[i], m)

(* How an id ends: it is asked to close, or its connection breaks.         *)
EndInv ==
  /\ Broken \/ slot.type = "HALFCLOSE_WRITE" \/ (ev # NoEvent /\ ev.eof) => over /\ owed = {}
  /\ ~InUse => peer = "open"
  /\ ev # NoEvent => Something(ev)
  /\ \A i \in 1 .. Len(pipe) :
       pipe[i].cmd \in {"K", "shutdown"} /\ pipe[i].id = slot.id =>
         over /\ (pipe[i].cmd = "shutdown" => owed = {})
  /\ InUse /\ slot.closing => over
  /\ loop.at = "force" \/ slot.type = "INVALID" =>
       over \/ (slot.id \notin told /\ slot.type # "PACCEPT")
  /\ owed # {} => slot.id \in told

(* What precedes what in the pipe: the requests of items that are owed     *)
(* precede the close, the start of an accepted socket every request.       *)
OrderInv ==
  /\ \A i, j \in 1 .. Len(pipe), m \in Item : Carries(pipe[i], m) /\ Carries(pipe[j], m) => i = j
  /\ \A i, j \in 1 .. Len(pipe), m \in owed :
       pipe[i].cmd = "K" /\ pipe[i].id = slot.id /\ Carries(pipe[j], m) => j < i
  /\ slot.type = "PACCEPT" /\ slot.id \in told =>
       \E i \in 1 .. Len(pipe) : pipe[i] = Command("R", slot.id)
  /\ slot.type = "PACCEPT" =>
       \A j \in 1 .. Len(pipe) : pipe[j].cmd \in {"D", "P"} /\ pipe[j].id = slot.id =>
         \E i \in 1 .. Len(pipe) : i < j /\ pipe[i] = Command("R", slot.id)

(* Nobody else has an item that is in a call; one that is owed and not in  *)
(* the pipe is in the line, twice, and written when the socket is closed.  *)
ApiOnce ==
  \A v, w \in Sender : api[v] # Idle /\ api[w] # Idle /\ api[v].item = api[w].item => v = w
Placed(m) ==
  /\ \A v \in Sender : api[v] # Idle /\ api[v].item = m =>
       /\ m \notin owed /\ ~InPipe(m)
       /\ api[v].at # "trigger" => Lacks(Line, m)
       /\ api[v].at = "trigger" /\ api[v].id = slot.id /\ ~over => Twice(Line, m)
  /\ InPipe(m) => Lacks(Line, m)
  /\ m \in owed => sent[m] = slot.id /\ (Twice(Line, m) \/ InPipe(m))
  /\ (loop.at = "force" \/ slot.type = "INVALID") /\ m \in owed => Twice(wire, m)
  /\ InUse /\ slot.closing /\ m \in owed => ~InPipe(m)
FlushInv == ApiOnce /\ \A m \in Item : Placed(m)

LEMMA TwiceHas ==
  ASSUME NEW s, NEW m, Twice(s, m)
  PROVE  ~Lacks(s, m)
BY DEF Twice, Lacks

LEMMA LacksConcat ==
  ASSUME NEW s \in Seq(Item), NEW t \in Seq(Item), NEW m
  PROVE  Lacks(s \o t, m) <=> Lacks(s, m) /\ Lacks(t, m)
<1>1. /\ Len(s) \in Nat /\ Len(t) \in Nat /\ Len(s \o t) = Len(s) + Len(t)
      /\ \A i \in 1 .. Len(s) + Len(t) : (s \o t)[i] = IF i <= Len(s) THEN s[i] ELSE t[i - Len(s)]
  BY ConcatProperties, LenProperties
<1>2. ASSUME Lacks(s \o t, m), NEW i \in 1 .. Len(s) PROVE s[i] # m
  <2>1. i \in 1 .. Len(s \o t) /\ (s \o t)[i] = s[i]
    BY <1>1
  <2> QED
    BY <1>2, <2>1 DEF Lacks
<1>3. ASSUME Lacks(s \o t, m), NEW i \in 1 .. Len(t) PROVE t[i] # m
  <2>1. Len(s) + i \in 1 .. Len(s \o t) /\ (s \o t)[Len(s) + i] = t[i]
    BY <1>1
  <2> QED
    BY <1>3, <2>1 DEF Lacks
<1>4. ASSUME Lacks(s, m), Lacks(t, m), NEW i \in 1 .. Len(s \o t) PROVE (s \o t)[i] # m
  <2>1. CASE i <= Len(s)
    <3>1. i \in 1 .. Len(s) /\ (s \o t)[i] = s[i]
      BY <1>1, <2>1
    <3> QED
      BY <1>4, <3>1 DEF Lacks
  <2>2. CASE ~(i <= Len(s))
    <3>1. i - Len(s) \in 1 .. Len(t) /\ (s \o t)[i] = t[i - Len(s)]
      BY <1>1, <2>2
    <3> QED
      BY <1>4, <3>1 DEF Lacks
  <2> QED
    BY <2>1, <2>2
<1> QED
  BY <1>2, <1>3, <1>4 DEF Lacks

(* Where the halves are once an item is put between s and t.               *)
Put(s, a, t) == (s \o Halves(a, 2)) \o t
Moved(s, i) == IF i <= Len(s) THEN i ELSE i + 2

LEMMA PutPlaces ==
  ASSUME NEW s \in Seq(Item), NEW t \in Seq(Item), NEW a \in Item
  PROVE  /\ Len(s) \in Nat /\ Len(s \o t) \in Nat /\ Len(s) <= Len(s \o t)
         /\ Len(Put(s, a, t)) = Len(s \o t) + 2
         /\ Put(s, a, t)[Len(s) + 1] = a /\ Put(s, a, t)[Len(s) + 2] = a
         /\ \A i \in 1 .. Len(s \o t) : Put(s, a, t)[Moved(s, i)] = (s \o t)[i]
<1> DEFINE h == Halves(a, 2)
<1>0. h \in Seq(Item) /\ Len(h) = 2 /\ h[1] = a /\ h[2] = a
  <2>1. 2 \in 0 .. 2 /\ 1 \in 1 .. 2 /\ 2 \in 1 .. 2
    OBVIOUS
  <2> QED
    BY <2>1, HalvesType
<1> HIDE DEF h
<1>1. /\ Len(s) \in Nat /\ Len(t) \in Nat /\ Len(s \o t) = Len(s) + Len(t)
      /\ \A i \in 1 .. Len(s) + Len(t) : (s \o t)[i] = IF i <= Len(s) THEN s[i] ELSE t[i - Len(s)]
  BY ConcatProperties, LenProperties
<1>2. /\ s \o h \in Seq(Item) /\ Len(s \o h) = Len(s) + 2
      /\ \A i \in 1 .. Len(s) + 2 : (s \o h)[i] = IF i <= Len(s) THEN s[i] ELSE h[i - Len(s)]
  <2>1. /\ s \o h \in Seq(Item) /\ Len(s \o h) = Len(s) + Len(h)
        /\ \A i \in 1 .. Len(s) + Len(h) : (s \o h)[i] = IF i <= Len(s) THEN s[i] ELSE h[i - Len(s)]
    BY <1>0, ConcatProperties
  <2>2. Len(h) = 2
    BY <1>0
  <2> QED
    BY <2>1, <2>2, Zenon
<1> DEFINE u == s \o h
<1>3. /\ Len(u \o t) = (Len(s) + 2) + Len(t)
      /\ \A i \in 1 .. (Len(s) + 2) + Len(t) :
           (u \o t)[i] = IF i <= Len(s) + 2 THEN u[i] ELSE t[i - (Len(s) + 2)]
  <2>1. u \in Seq(Item) /\ Len(u) = Len(s) + 2
    BY <1>2
  <2> HIDE DEF u
  <2>2. /\ Len(u \o t) = Len(u) + Len(t)
        /\ \A i \in 1 .. Len(u) + Len(t) :
             (u \o t)[i] = IF i <= Len(u) THEN u[i] ELSE t[i - Len(u)]
    BY <2>1, ConcatProperties
  <2> QED
    BY <2>1, <2>2, Zenon
<1>4. ((s \o h) \o t)[Len(s) + 1] = a /\ ((s \o h) \o t)[Len(s) + 2] = a
  BY <1>0, <1>1, <1>2, <1>3
<1>5. ASSUME NEW i \in 1 .. Len(s \o t) PROVE ((s \o h) \o t)[Moved(s, i)] = (s \o t)[i]
  <2>1. CASE i <= Len(s)
    BY <1>1, <1>2, <1>3, <2>1 DEF Moved
  <2>2. CASE ~(i <= Len(s))
    <3>1. i + 2 \in 1 .. (Len(s) + 2) + Len(t) /\ ~(i + 2 <= Len(s) + 2)
          /\ (i + 2) - (Len(s) + 2) = i - Len(s)
      BY <1>1, <2>2
    <3> QED
      BY <1>1, <1>3, <2>2, <3>1 DEF Moved
  <2> QED
    BY <2>1, <2>2
<1>6. Put(s, a, t) = (s \o h) \o t
  BY Zenon DEF Put, h
<1>7. Len((s \o h) \o t) = Len(s \o t) + 2
  <2>1. Len((s \o h) \o t) = (Len(s) + 2) + Len(t)
    BY <1>3
  <2> QED
    BY <1>1, <2>1
<1>8. Len(s) \in Nat /\ Len(s \o t) \in Nat /\ Len(s) <= Len(s \o t)
  BY <1>1
<1> QED
  BY <1>4, <1>5, <1>6, <1>7, <1>8, Zenon

LEMMA PutOther ==
  ASSUME NEW s \in Seq(Item), NEW t \in Seq(Item), NEW a \in Item, NEW m, m # a
  PROVE  /\ Lacks(s \o t, m) => Lacks(Put(s, a, t), m)
         /\ Twice(s \o t, m) => Twice(Put(s, a, t), m)
<1> DEFINE q == s \o t
           r == Put(s, a, t)
<1>1. /\ Len(s) \in Nat /\ Len(q) \in Nat /\ Len(s) <= Len(q) /\ Len(r) = Len(q) + 2
      /\ r[Len(s) + 1] = a /\ r[Len(s) + 2] = a
      /\ \A i \in 1 .. Len(q) : r[Moved(s, i)] = q[i]
  BY PutPlaces
<1> HIDE DEF q, r
<1>2. ASSUME NEW k \in 1 .. Len(r), r[k] = m
      PROVE  \E i \in 1 .. Len(q) : k = Moved(s, i) /\ q[i] = m
  <2>1. k # Len(s) + 1 /\ k # Len(s) + 2
    BY <1>1, <1>2
  <2>2. CASE k <= Len(s)
    <3>1. k \in 1 .. Len(q) /\ Moved(s, k) = k
      BY <1>1, <2>2 DEF Moved
    <3> QED
      BY <1>1, <1>2, <3>1
  <2>3. CASE ~(k <= Len(s))
    <3>1. k - 2 \in 1 .. Len(q) /\ Moved(s, k - 2) = k
      BY <1>1, <2>1, <2>3 DEF Moved
    <3> QED
      BY <1>1, <1>2, <3>1
  <2> QED
    BY <2>2, <2>3
<1>3. \A i \in 1 .. Len(q) : Moved(s, i) \in 1 .. Len(r)
  BY <1>1 DEF Moved
<1>4. \A i, j \in 1 .. Len(q) : i # j => Moved(s, i) # Moved(s, j)
  BY <1>1 DEF Moved
<1>5. Lacks(q, m) => Lacks(r, m)
  BY <1>2 DEF Lacks
<1>6. ASSUME Twice(q, m) PROVE Twice(r, m)
  <2>1. PICK i, j \in 1 .. Len(q) : /\ i # j /\ q[i] = m /\ q[j] = m
                                    /\ \A k \in 1 .. Len(q) : q[k] = m => k = i \/ k = j
    BY <1>6 DEF Twice
  <2>2. /\ Moved(s, i) \in 1 .. Len(r) /\ Moved(s, j) \in 1 .. Len(r)
        /\ Moved(s, i) # Moved(s, j) /\ r[Moved(s, i)] = m /\ r[Moved(s, j)] = m
    BY <1>1, <1>3, <1>4, <2>1
  <2>3. \A k \in 1 .. Len(r) : r[k] = m => k = Moved(s, i) \/ k = Moved(s, j)
    BY <1>2, <2>1
  <2> QED
    BY <2>2, <2>3 DEF Twice
<1> QED
  BY <1>5, <1>6 DEF q, r

LEMMA PutSelf ==
  ASSUME NEW s \in Seq(Item), NEW t \in Seq(Item), NEW a \in Item, Lacks(s \o t, a)
  PROVE  Twice(Put(s, a, t), a)
<1> DEFINE q == s \o t
           r == Put(s, a, t)
<1>1. /\ Len(s) \in Nat /\ Len(q) \in Nat /\ Len(s) <= Len(q) /\ Len(r) = Len(q) + 2
      /\ r[Len(s) + 1] = a /\ r[Len(s) + 2] = a
      /\ \A i \in 1 .. Len(q) : r[Moved(s, i)] = q[i]
  BY PutPlaces
<1>0. Lacks(q, a)
  OBVIOUS
<1> HIDE DEF q, r
<1>2. ASSUME NEW k \in 1 .. Len(r), r[k] = a PROVE k = Len(s) + 1 \/ k = Len(s) + 2
  <2>1. CASE k <= Len(s)
    <3>1. k \in 1 .. Len(q) /\ Moved(s, k) = k
      BY <1>1, <2>1 DEF Moved
    <3> QED
      BY <1>0, <1>1, <1>2, <3>1 DEF Lacks
  <2>2. CASE k > Len(s) + 2
    <3>1. k - 2 \in 1 .. Len(q) /\ Moved(s, k - 2) = k
      BY <1>1, <2>2 DEF Moved
    <3> QED
      BY <1>0, <1>1, <1>2, <3>1 DEF Lacks
  <2> QED
    BY <1>1, <2>1, <2>2
<1>3. Len(s) + 1 \in 1 .. Len(r) /\ Len(s) + 2 \in 1 .. Len(r) /\ Len(s) + 1 # Len(s) + 2
  BY <1>1
<1>4. Twice(r, a)
  BY <1>1, <1>2, <1>3 DEF Twice
<1> QED
  BY <1>4 DEF r

(* What Twice says, in the words of CloseFlushes.                          *)
LEMMA TwiceCounts ==
  ASSUME NEW s \in Seq(Item), NEW m, Twice(s, m)
  PROVE  Cardinality({i \in DOMAIN s : s[i] = m}) = 2
<1>1. PICK i, j \in 1 .. Len(s) : /\ i # j /\ s[i] = m /\ s[j] = m
                                  /\ \A k \in 1 .. Len(s) : s[k] = m => k = i \/ k = j
  BY DEF Twice
<1>2. DOMAIN s = 1 .. Len(s)
  BY LenProperties
<1>3. {k \in DOMAIN s : s[k] = m} = {i} \cup {j}
  BY <1>1, <1>2
<1>4. IsFiniteSet({i}) /\ Cardinality({i}) = 1
  BY FS_Singleton
<1>5. Cardinality({i} \cup {j}) = Cardinality({i}) + 1
  <2>1. j \notin {i}
    BY <1>1
  <2> QED
    BY <1>4, <2>1, FS_AddElement
<1>6. Cardinality({i} \cup {j}) = 1 + 1 /\ 1 + 1 = 2
  <2>1. Cardinality({i} \cup {j}) = 1 + 1
    BY <1>4, <1>5, Zenon
  <2> QED
    BY <2>1
<1> QED
  BY <1>3, <1>6, Zenon

-----------------------------------------------------------------------------
(* How an id ends *)

(* What is in the pipe comes from what was there, and one command at most. *)
LEMMA PipeFrom ==
  ASSUME SockTypeOK,
         \/ pipe' = pipe
         \/ \E c \in Commands : pipe' = Append(pipe, c)
         \/ pipe # << >> /\ pipe' = Tail(pipe),
         NEW i \in 1 .. Len(pipe')
  PROVE  \/ \E j \in 1 .. Len(pipe) : pipe'[i] = pipe[j]
         \/ pipe' = Append(pipe, pipe'[i]) /\ pipe'[i] \in Commands
<1>1. CASE pipe' = pipe
  BY <1>1
<1>2. ASSUME NEW c \in Commands, pipe' = Append(pipe, c)
      PROVE  \/ \E j \in 1 .. Len(pipe) : pipe'[i] = pipe[j]
             \/ pipe' = Append(pipe, pipe'[i]) /\ pipe'[i] \in Commands
  <2>1. (i \in 1 .. Len(pipe) /\ pipe'[i] = pipe[i]) \/ pipe'[i] = c
    BY <1>2, PipeAppend
  <2> QED
    BY <1>2, <2>1
<1>3. CASE pipe # << >> /\ pipe' = Tail(pipe)
  BY <1>3, PipeTail
<1> QED
  BY <1>1, <1>2, <1>3

(* The commands that end an id. *)
EndPipe ==
  \A i \in 1 .. Len(pipe) :
    pipe[i].cmd \in {"K", "shutdown"} /\ pipe[i].id = slot.id =>
      over /\ (pipe[i].cmd = "shutdown" => owed = {})

LEMMA EndPipeKept ==
  ASSUME SockTypeOK, EndPipe, slot'.id = slot.id, over => over',
         over /\ owed = {} => owed' = {},
         \/ pipe' = pipe
         \/ pipe # << >> /\ pipe' = Tail(pipe)
         \/ \E c \in Commands :
              /\ pipe' = Append(pipe, c)
              /\ c.cmd \in {"K", "shutdown"} /\ c.id = slot.id =>
                   over' /\ (c.cmd = "shutdown" => owed' = {})
  PROVE  EndPipe'
<1> SUFFICES ASSUME NEW i \in 1 .. Len(pipe'),
                    pipe'[i].cmd \in {"K", "shutdown"}, pipe'[i].id = slot.id
             PROVE  over' /\ (pipe'[i].cmd = "shutdown" => owed' = {})
  BY DEF EndPipe
<1>1. CASE \E j \in 1 .. Len(pipe) : pipe'[i] = pipe[j]
  BY <1>1 DEF EndPipe
<1>2. ASSUME NEW c \in Commands, pipe' = Append(pipe, c),
             c.cmd \in {"K", "shutdown"} /\ c.id = slot.id =>
               over' /\ (c.cmd = "shutdown" => owed' = {})
      PROVE  over' /\ (pipe'[i].cmd = "shutdown" => owed' = {})
  <2>1. (i \in 1 .. Len(pipe) /\ pipe'[i] = pipe[i]) \/ pipe'[i] = c
    BY <1>2, PipeAppend
  <2> QED
    BY <1>1, <1>2, <2>1
<1>3. CASE pipe # << >> /\ pipe' = Tail(pipe)
  BY <1>1, <1>3, PipeTail
<1>4. CASE pipe' = pipe
  BY <1>1, <1>4
<1> QED
  BY <1>2, <1>3, <1>4

(* No command of the next id is in the pipe when it takes the slot.        *)
LEMMA PipeOld ==
  ASSUME SockTypeOK, IdsInv, NEW i \in 1 .. Len(pipe), pipe[i].cmd # "O"
  PROVE  pipe[i].id # slot.id + 1
<1>1. pipe[i].id \in told /\ slot.id \in Nat /\ \A id \in told : id \in Nat /\ id <= slot.id
  BY BoundsAssumption DEF IdsInv, SockTypeOK, Slot, Ids
<1> QED
  BY <1>1

EndState ==
  /\ Broken \/ slot.type = "HALFCLOSE_WRITE" \/ (ev # NoEvent /\ ev.eof) => over /\ owed = {}
  /\ ~InUse => peer = "open"
  /\ ev # NoEvent => Something(ev)
  /\ InUse /\ slot.closing => over
  /\ loop.at = "force" \/ slot.type = "INVALID" =>
       over \/ (slot.id \notin told /\ slot.type # "PACCEPT")
  /\ owed # {} => slot.id \in told

LEMMA EndParts == EndInv <=> EndState /\ EndPipe
BY DEF EndInv, EndState, EndPipe

LEMMA EndPartsNext == EndInv' <=> EndState' /\ EndPipe'
BY DEF EndInv, EndState, EndPipe

(* What most steps do. *)
LEMMA EndKept ==
  ASSUME EndState, slot'.id = slot.id, slot'.type = slot.type, over' = over,
         slot'.closing = slot.closing, ev' \in {ev, NoEvent}, Broken' <=> Broken,
         ~InUse => peer' = peer, loop'.at = "force" => loop.at = "force",
         \/ told' = told
         \/ told' = told \cup {slot.id} /\ (slot.type = "PACCEPT" \/ slot.id \in told),
         \/ owed' = owed
         \/ ~over /\ slot.id \in told'
  PROVE  EndState'
<1>1. InUse' <=> InUse
  BY DEF InUse
<1>2. Broken' \/ slot'.type = "HALFCLOSE_WRITE" \/ (ev' # NoEvent /\ ev'.eof) => over' /\ owed' = {}
  BY DEF EndState
<1>3. (~InUse' => peer' = "open") /\ (InUse' /\ slot'.closing => over')
  BY <1>1 DEF EndState
<1>4. ev' # NoEvent => Something(ev')
  BY DEF EndState
<1>5. loop'.at = "force" \/ slot'.type = "INVALID" =>
        over' \/ (slot'.id \notin told' /\ slot'.type # "PACCEPT")
  BY DEF EndState
<1>6. owed' # {} => slot'.id \in told'
  BY DEF EndState
<1> QED
  BY <1>2, <1>3, <1>4, <1>5, <1>6 DEF EndState

LEMMA TakenDoes ==
  ASSUME api \in [Sender -> Calls], NEW v \in Sender, Taken(v)
  PROVE  /\ api'[v] = Idle /\ \A w \in Sender : w # v => api'[w] = api[w]
         /\ owed' = IF over \/ api[v].id # slot.id THEN owed ELSE owed \cup {api[v].item}
BY DEF Taken

LEMMA EndServices ==
  ASSUME SockInv, EndInv, Services PROVE EndInv'
<1> USE DEF hist
<1>0. /\ SockTypeOK /\ IdsInv /\ EmptyInv /\ slot \in Slot /\ api \in [Sender -> Calls]
      /\ EndState /\ EndPipe /\ Idle \in Calls
      /\ \A v \in Sender : api[v] # Idle =>
           api[v].id \in told /\ api[v].id \in Ids /\ api[v].item \in Item /\ api[v].cmd \in {"D", "P"}
  BY EndParts DEF SockInv, SockTypeOK, IdsInv, Calls
<1>1. CASE SockConnect
  <2>1. /\ slot'.type = "RESERVE" /\ slot'.id = slot.id + 1
        /\ slot.type = "INVALID" /\ ev' = NoEvent /\ peer' = peer /\ loop' = loop /\ told' = told
        /\ ~over' /\ owed' = {}
        /\ pipe' = Append(pipe, Command("O", slot.id + 1)) /\ slot.id + 1 \in Ids
    BY <1>0, <1>1, BoundsAssumption DEF SockConnect, Reservable, Reserved, NewHistory, SendRequest, Slot, Ids
  <2>2. EndPipe'
    <3> SUFFICES ASSUME NEW i \in 1 .. Len(pipe'), pipe'[i].cmd \in {"K", "shutdown"}
                 PROVE  pipe'[i].id # slot.id + 1
      BY <2>1 DEF EndPipe
    <3>1. (i \in 1 .. Len(pipe) /\ pipe'[i] = pipe[i]) \/ pipe'[i] = Command("O", slot.id + 1)
      BY <1>0, <2>1, CommandType, PipeAppend
    <3> QED
      BY <1>0, <3>1, PipeOld DEF Command
  <2>3. loop.at # "force" /\ peer = "open"
    BY <1>0, <2>1 DEF EmptyInv, InUse, EndState
  <2>4. EndState'
    BY <2>1, <2>3 DEF EndState, InUse, Broken
  <2> QED
    BY <2>2, <2>4, EndPartsNext
<1>2. ASSUME NEW id \in Ids, SockStart(id) \/ SockPause(id) PROVE EndInv'
  <2>1. /\ slot' = slot /\ over' = over /\ owed' = owed /\ ev' = ev /\ peer' = peer /\ loop' = loop
        /\ \/ told' = told
           \/ told' = told \cup {slot.id} /\ (slot.type = "PACCEPT" \/ slot.id \in told)
        /\ \E c \in {"R", "S"} : pipe' = Append(pipe, Command(c, id))
    BY <1>2 DEF SockStart, SockPause, SendRequest
  <2>2. EndState'
    BY <1>0, <2>1, EndKept DEF Broken
  <2>3. EndPipe'
    BY <1>0, <2>1, EndPipeKept, CommandType DEF Command
  <2> QED
    BY <2>2, <2>3, EndPartsNext
<1>3. ASSUME NEW id \in Ids, NEW how \in {"K", "shutdown"}, SockClose(id, how) PROVE EndInv'
  <2>1. /\ slot' = slot /\ ev' = ev /\ peer' = peer /\ loop' = loop /\ told' = told /\ id \in told
        /\ over' = (over \/ id = slot.id)
        /\ owed' = IF how = "shutdown" /\ id = slot.id THEN {} ELSE owed
        /\ pipe' = Append(pipe, Command(how, id)) /\ Command(how, id) \in Commands
    BY <1>3, CommandType DEF SockClose, SendRequest
  <2>2. EndPipe'
    BY <1>0, <2>1, EndPipeKept DEF Command
  <2>3. EndState'
    BY <1>0, <2>1 DEF EndState, InUse, Broken
  <2> QED
    BY <2>2, <2>3, EndPartsNext
<1>4. ASSUME NEW id \in Ids, NEW v \in Sender, NEW m \in Item, NEW low \in BOOLEAN,
             SockSend(v, id, m, low)
      PROVE  EndInv'
  <2>1. /\ slot' = slot /\ over' = over /\ owed' = owed /\ ev' = ev /\ peer' = peer /\ loop' = loop
        /\ told' = told /\ pipe' = pipe
    BY <1>4 DEF SockSend
  <2> QED
    BY <1>0, <2>1, EndKept, EndPipeKept, EndPartsNext DEF Broken
<1>5. ASSUME NEW v \in Sender,
             \/ CheckQueues(v) \/ CheckSending(v) \/ TryLock(v) \/ RecheckQueues(v)
             \/ RecheckSending(v) \/ TriggerWrite(v) \/ IncSendingRef(v) \/ RequestSend(v)
             \/ \E n \in 0 .. 2 : DirectWrite(v, n)
      PROVE  EndInv'
  <2>1. /\ over' = over /\ ev' = ev /\ loop' = loop /\ told' = told /\ api[v] # Idle
        /\ peer' = peer \/ (Broken /\ peer' = "gone")
        /\ owed' = owed \/ Taken(v)
    BY <1>5 DEF CheckQueues, CheckSending, TryLock, RecheckQueues, RecheckSending, TriggerWrite,
       IncSendingRef, RequestSend, DirectWrite, Calling, Idle
  <2>2. slot'.id = slot.id /\ slot'.type = slot.type /\ slot'.closing = slot.closing
    BY <1>0, <1>5 DEF CheckQueues, CheckSending, TryLock, RecheckQueues, RecheckSending,
       TriggerWrite, IncSendingRef, RequestSend, DirectWrite, Slot
  <2>3. owed' = owed \/ (~over /\ slot.id \in told)
    BY <1>0, <2>1, TakenDoes
  <2>4. pipe' = pipe \/ \E c \in Commands : pipe' = Append(pipe, c) /\ c.cmd \in {"D", "P", "W"}
    <3>1. CASE pipe' = pipe
      BY <3>1
    <3>2. CASE TriggerWrite(v)
      <4>1. pipe' = Append(pipe, Command("W", api[v].id)) /\ Command("W", api[v].id) \in Commands
        BY <1>0, <2>1, <3>2, CommandType DEF TriggerWrite, SendRequest
      <4> QED
        BY <4>1 DEF Command
    <3>3. CASE RequestSend(v)
      <4> DEFINE c == Request(api[v].cmd, api[v].id, api[v].item)
      <4>1. pipe' = Append(pipe, c) /\ c \in Commands
        BY <1>0, <2>1, <3>3, CommandType DEF RequestSend, SendRequest
      <4>2. c.cmd \in {"D", "P"}
        BY <1>0, <2>1 DEF Request
      <4> QED
        BY <4>1, <4>2
    <3> QED
      BY <1>5, <3>1, <3>2, <3>3 DEF CheckQueues, CheckSending, TryLock, RecheckQueues,
         RecheckSending, IncSendingRef, DirectWrite
  <2>5. EndPipe'
    <3>1. over /\ owed = {} => owed' = {}
      BY <2>3
    <3> QED
      BY <1>0, <2>1, <2>2, <2>4, <3>1, EndPipeKept
  <2>6. EndState'
    <3>1. Broken' <=> Broken
      BY <2>1 DEF Broken
    <3>2. ~InUse => peer' = peer
      BY <1>0, <2>1 DEF EndState, Broken
    <3> QED
      BY <1>0, <2>1, <2>2, <2>3, <3>1, <3>2, EndKept
  <2> QED
    BY <2>5, <2>6, EndPartsNext
<1> QED
  BY <1>1, <1>2, <1>3, <1>4, <1>5 DEF Services

LEMMA EndThread ==
  ASSUME SockInv, EndInv, SockThread \/ \E how \in {"fin", "error"} : PeerEnds(how) PROVE EndInv'
<1> USE DEF hist
<1>0. /\ SockTypeOK /\ IdsInv /\ EmptyInv /\ slot \in Slot /\ loop \in Loops
      /\ EndState /\ EndPipe
  BY EndParts DEF SockInv, SockTypeOK
<1>a. ASSUME EndState', pipe' = pipe, slot'.id = slot.id, over => over', over /\ owed = {} => owed' = {}
      PROVE  EndInv'
  BY <1>0, <1>a, EndPipeKept, EndPartsNext
<1>1. CASE \E writable \in BOOLEAN : SpWait(writable)
  <2>1. PICK writable \in BOOLEAN : SpWait(writable)
    BY <1>1
  <2>2. /\ slot' = slot /\ peer' = peer /\ told' = told /\ over' = over /\ owed' = owed /\ pipe' = pipe
        /\ loop'.at = "ctrl" /\ loop.at = "wait"
        /\ ev' = IF InUse /\ Something(Event(writable)) THEN Event(writable) ELSE NoEvent
    BY <2>1 DEF SpWait
  <2>3. ev' # NoEvent => Something(ev') /\ (ev'.eof => Broken \/ slot.type = "HALFCLOSE_WRITE")
    BY <2>2 DEF Event
  <2>4. EndState'
    <3>1. Broken' \/ slot'.type = "HALFCLOSE_WRITE" \/ (ev' # NoEvent /\ ev'.eof)
            => Broken \/ slot.type = "HALFCLOSE_WRITE"
      BY <2>2, <2>3 DEF Broken
    <3> QED
      BY <1>0, <2>2, <2>3, <3>1 DEF EndState, InUse
  <2> QED
    BY <1>a, <2>2, <2>4
<1>2. CASE NoCommand \/ RecvError \/ SendBlocked \/ ReportError
  <2>1. /\ slot' = slot /\ told' = told /\ over' = over /\ owed' = owed /\ pipe' = pipe
        /\ loop'.at # "force" /\ ev' \in {ev, NoEvent}
        /\ peer' = peer \/ (Broken /\ peer' = "gone")
    BY <1>2, ConsumedDoes DEF NoCommand, RecvError, SendBlocked, ReportError, Broken
  <2>2. (Broken' <=> Broken) /\ (~InUse => peer' = peer)
    BY <1>0, <2>1 DEF EndState, Broken
  <2> QED
    BY <1>0, <1>a, <2>1, <2>2, EndKept
<1>3. CASE ForceClosed
  <2>1. /\ slot'.type = "INVALID" /\ slot'.id = slot.id /\ loop.at = "force" /\ loop'.at # "force"
        /\ ev' = NoEvent /\ peer' = "open" /\ told' = told /\ over' = over /\ owed' = owed /\ pipe' = pipe
    BY <1>0, <1>3 DEF ForceClosed, Slot, Loops
  <2>2. EndState'
    BY <1>0, <2>1 DEF EndState, InUse, Broken
  <2> QED
    BY <1>a, <2>1, <2>2
<1>4. CASE ReportAccept
  <2>1. /\ slot'.type = "PACCEPT" /\ slot'.id = slot.id + 1 /\ ~slot'.closing
        /\ ev' = NoEvent /\ peer' = "open" /\ loop'.at = "wait" /\ told' = told
        /\ ~over' /\ owed' = {} /\ pipe' = pipe
    BY <1>0, <1>4 DEF ReportAccept, Reservable, NewFd, Reserved, NewHistory, Slot
  <2>2. EndPipe'
    <3>1. \A i \in 1 .. Len(pipe) : pipe[i].cmd \in {"K", "shutdown"} => pipe[i].id # slot.id + 1
      BY <1>0, PipeOld
    <3> QED
      BY <2>1, <3>1 DEF EndPipe
  <2>3. EndState'
    BY <2>1 DEF EndState, InUse, Broken
  <2> QED
    BY <2>2, <2>3, EndPartsNext
<1>5. CASE ReportConnect
  <2>1. /\ slot.type = "CONNECTING" /\ InUse /\ slot.id \notin told /\ pipe' = pipe /\ peer' = peer
        /\ over' = over /\ owed' = owed
    BY <1>0, <1>5 DEF ReportConnect, OnSlotEvent, IdsInv
  <2>2. CASE ForceClose(FALSE) /\ UNCHANGED <<ev, told>>
    <3>1. slot'.type = slot.type /\ slot'.id = slot.id /\ slot'.closing = slot.closing
      BY <1>0, <2>2, ForceCloseDoes
    <3>2. EndState'
      BY <1>0, <2>1, <2>2, <3>1 DEF EndState, InUse, Broken
    <3> QED
      BY <1>a, <2>1, <3>1, <3>2
  <2>3. CASE /\ slot' = [slot EXCEPT !.type = "CONNECTED", !.writing = @ /\ ~NomoreSendingData]
             /\ told' = told \cup {slot.id} /\ Consumed
    <3>1. slot'.type = "CONNECTED" /\ slot'.id = slot.id /\ slot'.closing = slot.closing
      BY <1>0, <2>3 DEF Slot
    <3>2. ev' = NoEvent /\ loop'.at = "wait"
      BY <2>3, ConsumedDoes
    <3>3. EndState'
      BY <1>0, <2>1, <2>3, <3>1, <3>2 DEF EndState, InUse, Broken
    <3> QED
      BY <1>a, <2>1, <3>1, <3>3
  <2> QED
    BY <1>5, <2>2, <2>3 DEF ReportConnect
<1>6. CASE RecvZero
  <2>1. InUse /\ pipe' = pipe /\ peer' = peer /\ told' = told /\ over' = over /\ owed' = owed
        /\ ev # NoEvent
    BY <1>6 DEF RecvZero, ReadNext, OnSlotEvent
  <2>2. ASSUME NEW c \in BOOLEAN, ForceClose(c), ev' = ev, over PROVE EndInv'
    <3>1. slot'.type = slot.type /\ slot'.id = slot.id /\ slot'.closing = slot.closing
      BY <1>0, <2>2, ForceCloseDoes
    <3>2. EndState'
      BY <1>0, <2>1, <2>2, <3>1 DEF EndState, InUse, Broken
    <3> QED
      BY <1>a, <2>1, <3>1, <3>2
  <2>3. CASE slot.closing /\ NomoreSendingData /\ ForceClose(FALSE) /\ UNCHANGED ev
    BY <1>0, <2>1, <2>2, <2>3 DEF EndState
  <2>4. CASE ~slot.closing /\ slot.type = "HALFCLOSE_WRITE" /\ ForceClose(TRUE) /\ UNCHANGED ev
    BY <1>0, <2>1, <2>2, <2>4 DEF EndState
  <2>5. CASE slot' = slot /\ ev.write /\ ev' = [ev EXCEPT !.read = FALSE] /\ loop' = loop
    <3>1. ev \in [read : BOOLEAN, write : BOOLEAN, error : BOOLEAN, eof : BOOLEAN]
      BY <1>0, <2>1 DEF SockTypeOK
    <3>2. ev'.write /\ ev'.eof = ev.eof
      BY <2>5, <3>1
    <3>3. EndState'
      BY <1>0, <2>1, <2>5, <3>2 DEF EndState, InUse, Broken, Something
    <3> QED
      BY <1>a, <2>1, <2>5, <3>3
  <2>6. CASE slot' = slot /\ Consumed
    <3>1. EndState'
      BY <1>0, <2>1, <2>6, ConsumedDoes, EndKept DEF Broken
    <3> QED
      BY <1>a, <2>1, <2>6, <3>1
  <2>7. CASE CloseRead(slot) /\ Consumed
    <3>1. slot'.type = "HALFCLOSE_READ" /\ slot'.id = slot.id /\ slot'.closing = slot.closing
      BY <1>0, <2>7, CloseReadDoes
    <3>2. ev' = NoEvent /\ loop'.at = "wait"
      BY <2>7, ConsumedDoes
    <3>3. EndState'
      BY <1>0, <2>1, <3>1, <3>2 DEF EndState, InUse, Broken
    <3> QED
      BY <1>a, <2>1, <3>1, <3>3
  <2> QED
    BY <1>6, <2>3, <2>4, <2>5, <2>6, <2>7 DEF RecvZero
<1>7. CASE SendError
  <2>1. /\ InUse /\ pipe' = pipe /\ told' = told /\ over' = over /\ owed' = owed /\ Broken
        /\ peer' = "gone" /\ over /\ owed = {}
    BY <1>0, <1>7 DEF SendError, WriteNext, OnSlotEvent, EndState
  <2>2. /\ slot'.id = slot.id /\ slot'.type \notin {"INVALID", "RESERVE"}
        /\ ev' # NoEvent => ev' = ev
    <3>1. CASE ForceClose(FALSE) /\ UNCHANGED ev
      BY <1>0, <2>1, <3>1, ForceCloseDoes DEF InUse
    <3>2. CASE Consumed /\ slot' = [slot EXCEPT !.dw = << >>, !.high = slot.dw \o @,
                                      !.writing = @ /\ slot.type = "HALFCLOSE_WRITE",
                                      !.type = "HALFCLOSE_WRITE"]
      BY <1>0, <3>2, ConsumedDoes DEF Slot
    <3> QED
      BY <1>7, <3>1, <3>2 DEF SendError
  <2>3. EndState'
    BY <1>0, <2>1, <2>2 DEF EndState, InUse
  <2> QED
    BY <1>a, <2>1, <2>2, <2>3
<1>8. CASE Eof
  <2>1. /\ InUse /\ pipe' = pipe /\ told' = told /\ over' = over /\ owed' = owed /\ ev' = ev /\ peer' = peer
        /\ ForceClose(~HalfcloseRead) /\ over /\ owed = {}
    BY <1>0, <1>8 DEF Eof, OnSlotEvent, EndState, Something
  <2>2. slot'.type = slot.type /\ slot'.id = slot.id /\ slot'.closing = slot.closing
    BY <1>0, <2>1, ForceCloseDoes
  <2>3. EndState'
    BY <1>0, <2>1, <2>2 DEF EndState, InUse, Broken
  <2> QED
    BY <1>a, <2>1, <2>2, <2>3
<1>9. ASSUME NEW n, SendBuffer(n) PROVE EndInv'
  <2>1. /\ InUse /\ pipe' = pipe /\ told' = told /\ over' = over /\ owed' = owed /\ peer' = peer
    BY <1>9 DEF SendBuffer, WriteNext, OnSlotEvent
  <2>2. /\ slot'.id = slot.id /\ slot'.type = slot.type /\ slot'.closing = slot.closing
    BY <1>0, <1>9 DEF SendBuffer, Slot
  <2>3. /\ ev' \in {ev, NoEvent}
        /\ slot.closing \/ loop'.at = "wait"
    BY <1>9, ConsumedDoes DEF SendBuffer
  <2>4. EndState'
    BY <1>0, <2>1, <2>2, <2>3 DEF EndState, InUse, Broken
  <2> QED
    BY <1>a, <2>1, <2>2, <2>4
<1>10. ASSUME NEW id \in Ids, OpenSocket(id) PROVE EndInv'
  <2>1. /\ slot.type = "RESERVE" /\ slot.id = id /\ loop.at = "ctrl" /\ loop' = loop /\ ev' = ev
        /\ over' = over /\ owed' = owed /\ pipe # << >> /\ pipe' = Tail(pipe) /\ slot.id \notin told
    BY <1>0, <1>10, HeadKnown DEF OpenSocket, IdsInv
  <2>2. /\ slot'.id = slot.id
        /\ \/ slot'.type = "INVALID" /\ peer' = peer /\ told' = told
           \/ slot'.type = "CONNECTED" /\ ~slot'.closing /\ peer' = "open" /\ told' = told \cup {slot.id}
           \/ slot'.type = "CONNECTING" /\ ~slot'.closing /\ peer' = "open" /\ told' = told
    BY <1>0, <1>10, <2>1 DEF OpenSocket, NewFd, Slot
  <2>3. EndPipe'
    BY <1>0, <2>1, <2>2, EndPipeKept
  <2>4. EndState'
    BY <1>0, <2>1, <2>2 DEF EndState, InUse, Broken
  <2> QED
    BY <2>3, <2>4, EndPartsNext
<1>11. ASSUME NEW id \in Ids, NEW c \in {"D", "P", "R", "S", "W"}, Handle(c, id),
              slot'.id = slot.id, slot'.closing = slot.closing, UNCHANGED <<loop, ev, told, peer, over, owed>>,
              slot'.type = slot.type \/ (slot.type = "PACCEPT" /\ slot'.type = "CONNECTED")
       PROVE  EndInv'
  <2>1. pipe # << >> /\ pipe' = Tail(pipe)
    BY <1>11 DEF Handle
  <2>2. EndPipe'
    BY <1>0, <1>11, <2>1, EndPipeKept
  <2>3. EndState'
    BY <1>0, <1>11 DEF EndState, InUse, Broken
  <2> QED
    BY <2>2, <2>3, EndPartsNext
<1>12. ASSUME NEW id \in Ids, ResumeSocket(id) \/ PauseSocket(id) \/ EnableWrite(id) PROVE EndInv'
  <2>1. /\ \E c \in {"R", "S", "W"} : Handle(c, id)
        /\ slot'.id = slot.id /\ slot'.closing = slot.closing /\ UNCHANGED <<loop, ev, told, peer, over, owed>>
        /\ slot'.type = slot.type \/ (slot.type = "PACCEPT" /\ slot'.type = "CONNECTED")
    BY <1>0, <1>12 DEF ResumeSocket, PauseSocket, EnableWrite, Slot
  <2> QED
    BY <1>11, <2>1
<1>13. ASSUME NEW id \in Ids, NEW c \in {"D", "P"}, SendSocket(c, id) PROVE EndInv'
  <2>1. /\ Handle(c, id) /\ slot'.id = slot.id /\ slot'.closing = slot.closing
        /\ UNCHANGED <<loop, ev, told, peer, over, owed>> /\ slot'.type = slot.type
    BY <1>0, <1>13 DEF SendSocket, Uncounted, Slot
  <2> QED
    BY <1>11, <2>1
<1>14. ASSUME NEW id \in Ids, NEW how \in {"K", "shutdown"}, CloseSocket(id, how) PROVE EndInv'
  <2>1. /\ pipe # << >> /\ pipe' = Tail(pipe) /\ loop.at = "ctrl" /\ 1 \in 1 .. Len(pipe)
        /\ pipe[1].cmd = how /\ pipe[1].id = id
        /\ slot.type \in {"RESERVE", "CONNECTING"} => slot.id # id
        /\ UNCHANGED <<ev, told, peer, over, owed>> /\ [slot EXCEPT !.closing = TRUE] \in Slot
    BY <1>0, <1>14, HeadKnown DEF CloseSocket, Slot
  <2>2. slot.id = id => over
    BY <1>0, <2>1 DEF EndPipe
  <2>3. \/ slot' = slot /\ loop' = loop
        \/ ~SocketInvalid(id) /\ ForceClose(~HalfcloseRead)
        \/ ~SocketInvalid(id) /\ slot' = [slot EXCEPT !.closing = TRUE] /\ loop' = loop
        \/ ~SocketInvalid(id) /\ CloseRead([slot EXCEPT !.closing = TRUE]) /\ loop' = loop
    BY <1>14 DEF CloseSocket
  <2>4. /\ slot'.id = slot.id
        /\ \/ slot'.type = slot.type /\ slot'.closing = slot.closing /\ loop' = loop
           \/ /\ slot.id = id /\ slot.type # "INVALID"
              /\ slot'.type \in {slot.type, "HALFCLOSE_READ"}
    BY <1>0, <2>1, <2>3, ForceCloseDoes, CloseReadDoes DEF SocketInvalid, Slot
  <2>5. EndPipe'
    BY <1>0, <2>1, <2>4, EndPipeKept
  <2>6. EndState'
    BY <1>0, <2>1, <2>2, <2>4 DEF EndState, InUse, Broken
  <2> QED
    BY <2>5, <2>6, EndPartsNext
<1>15. ASSUME NEW how \in {"fin", "error"}, PeerEnds(how) PROVE EndInv'
  <2>1. /\ InUse /\ slot' = slot /\ pipe' = pipe /\ loop' = loop /\ ev' = ev /\ told' = told
        /\ peer' = how /\ ~Broken
        /\ IF how = "error" THEN over' = TRUE /\ owed' = {} ELSE over' = over /\ owed' = owed
    BY <1>15 DEF PeerEnds
  <2>2. EndState'
    BY <1>0, <2>1 DEF EndState, InUse, Broken
  <2> QED
    BY <1>a, <2>1, <2>2
<1> QED
  BY <1>1, <1>2, <1>3, <1>4, <1>5, <1>6, <1>7, <1>8, <1>9, <1>10, <1>12, <1>13, <1>14, <1>15
  DEF SockThread

-----------------------------------------------------------------------------
(* What precedes what in the pipe *)

NoClose == \A i \in 1 .. Len(pipe) : ~(pipe[i].cmd = "K" /\ pipe[i].id = slot.id)

LEMMA OrderSame ==
  ASSUME OrderInv, pipe' = pipe,
         slot'.type = "PACCEPT" => /\ slot.type = "PACCEPT" /\ slot'.id = slot.id
                                   /\ slot.id \in told' => slot.id \in told,
         \/ owed' = {}
         \/ slot'.id = slot.id /\ (owed' \subseteq owed \/ NoClose)
  PROVE  OrderInv'
<1>1. \A i, j \in 1 .. Len(pipe'), m \in owed' :
        pipe'[i].cmd = "K" /\ pipe'[i].id = slot'.id /\ Carries(pipe'[j], m) => j < i
  BY DEF OrderInv, NoClose
<1>2. \A i, j \in 1 .. Len(pipe'), m \in Item : Carries(pipe'[i], m) /\ Carries(pipe'[j], m) => i = j
  BY DEF OrderInv
<1>3. slot'.type = "PACCEPT" /\ slot'.id \in told' =>
        \E i \in 1 .. Len(pipe') : pipe'[i] = Command("R", slot'.id)
  BY DEF OrderInv
<1>4. slot'.type = "PACCEPT" =>
        \A j \in 1 .. Len(pipe') : pipe'[j].cmd \in {"D", "P"} /\ pipe'[j].id = slot'.id =>
          \E i \in 1 .. Len(pipe') : i < j /\ pipe'[i] = Command("R", slot'.id)
  BY DEF OrderInv
<1> QED
  BY <1>1, <1>2, <1>3, <1>4 DEF OrderInv, Carries

LEMMA OrderAppend ==
  ASSUME SockTypeOK, OrderInv, NEW c \in Commands, pipe' = Append(pipe, c),
         slot'.type = "PACCEPT" =>
           /\ slot.type = "PACCEPT" /\ slot'.id = slot.id
           /\ slot.id \in told' => slot.id \in told \/ c = Command("R", slot.id)
           /\ c.cmd \in {"D", "P"} /\ c.id = slot.id => slot.id \in told,
         \/ owed' = {}
         \/ slot'.id = slot.id /\ (owed' \subseteq owed \/ NoClose),
         c.cmd \in {"D", "P"} => ~InPipe(c.item) /\ (c.item \notin owed' \/ NoClose)
  PROVE  OrderInv'
<1> DEFINE n == Len(pipe)
<1>0. /\ n \in Nat /\ Len(pipe') = n + 1 /\ pipe'[n + 1] = c
      /\ \A i \in 1 .. n + 1 : i \in 1 .. n \/ i = n + 1
      /\ \A i \in 1 .. n : i \in 1 .. n + 1 /\ i < n + 1 /\ pipe'[i] = pipe[i]
  <2>1. n \in Nat /\ Len(pipe') = n + 1 /\ pipe'[n + 1] = c /\ \A i \in 1 .. n : pipe'[i] = pipe[i]
    BY AppendProperties, LenProperties DEF SockTypeOK
  <2> QED
    BY <2>1
<1> HIDE DEF n
<1>1. \A i, j \in 1 .. n + 1, m \in Item : Carries(pipe'[i], m) /\ Carries(pipe'[j], m) => i = j
  <2> SUFFICES ASSUME NEW i \in 1 .. n + 1, NEW j \in 1 .. n + 1, NEW m \in Item,
                      Carries(pipe'[i], m), Carries(pipe'[j], m), i # j
               PROVE  FALSE
    OBVIOUS
  <2>1. CASE i \in 1 .. n /\ j \in 1 .. n
    BY <1>0, <2>1 DEF OrderInv, n
  <2>2. ASSUME NEW k \in 1 .. n, Carries(pipe[k], m), Carries(c, m) PROVE FALSE
    <3>1. c.cmd \in {"D", "P"} /\ c.item = m /\ InPipe(m)
      BY <2>2 DEF Carries, InPipe, n
    <3> QED
      BY <3>1
  <2> QED
    BY <1>0, <2>1, <2>2
<1>2. \A i, j \in 1 .. n + 1, m \in owed' :
        pipe'[i].cmd = "K" /\ pipe'[i].id = slot'.id /\ Carries(pipe'[j], m) => j < i
  <2> SUFFICES ASSUME NEW i \in 1 .. n + 1, NEW j \in 1 .. n + 1, NEW m \in owed',
                      pipe'[i].cmd = "K", pipe'[i].id = slot'.id, Carries(pipe'[j], m)
               PROVE  j < i
    OBVIOUS
  <2>0. slot'.id = slot.id /\ (owed' \subseteq owed \/ NoClose)
    OBVIOUS
  <2>1. CASE i \in 1 .. n /\ j \in 1 .. n
    BY <1>0, <2>0, <2>1 DEF OrderInv, NoClose, n
  <2>2. CASE i = n + 1 /\ j \in 1 .. n
    BY <1>0, <2>2
  <2>3. CASE i \in 1 .. n /\ j = n + 1
    <3>1. c.cmd \in {"D", "P"} /\ c.item = m
      BY <1>0, <2>3 DEF Carries
    <3>2. ~NoClose
      BY <1>0, <2>0, <2>3 DEF NoClose, n
    <3> QED
      BY <3>1, <3>2
  <2>4. CASE i = n + 1 /\ j = n + 1
    BY <1>0, <2>4 DEF Carries
  <2> QED
    BY <1>0, <2>1, <2>2, <2>3, <2>4
<1>3. slot'.type = "PACCEPT" /\ slot'.id \in told' =>
        \E i \in 1 .. n + 1 : pipe'[i] = Command("R", slot'.id)
  <2> SUFFICES ASSUME slot'.type = "PACCEPT", slot'.id \in told'
               PROVE  \E i \in 1 .. n + 1 : pipe'[i] = Command("R", slot.id)
    OBVIOUS
  <2>1. slot.type = "PACCEPT" /\ (slot.id \in told \/ c = Command("R", slot.id))
    OBVIOUS
  <2>2. CASE slot.id \in told
    <3>1. \E i \in 1 .. n : pipe[i] = Command("R", slot.id)
      BY <2>1, <2>2 DEF OrderInv, n
    <3> QED
      BY <1>0, <3>1
  <2>3. CASE c = Command("R", slot.id)
    <3>1. n + 1 \in 1 .. n + 1
      BY <1>0
    <3> QED
      BY <1>0, <2>3, <3>1
  <2> QED
    BY <2>1, <2>2, <2>3
<1>4. slot'.type = "PACCEPT" =>
        \A j \in 1 .. n + 1 : pipe'[j].cmd \in {"D", "P"} /\ pipe'[j].id = slot'.id =>
          \E i \in 1 .. n + 1 : i < j /\ pipe'[i] = Command("R", slot'.id)
  <2> SUFFICES ASSUME slot'.type = "PACCEPT", NEW j \in 1 .. n + 1,
                      pipe'[j].cmd \in {"D", "P"}, pipe'[j].id = slot.id
               PROVE  \E i \in 1 .. n + 1 : i < j /\ pipe'[i] = Command("R", slot.id)
    OBVIOUS
  <2>1. slot.type = "PACCEPT"
    OBVIOUS
  <2>2. CASE j \in 1 .. n
    <3>1. \E i \in 1 .. n : i < j /\ pipe[i] = Command("R", slot.id)
      BY <1>0, <2>1, <2>2 DEF OrderInv, n
    <3> QED
      BY <1>0, <3>1
  <2>3. CASE j = n + 1
    <3>1. slot.id \in told
      BY <1>0, <2>3
    <3>2. \E i \in 1 .. n : pipe[i] = Command("R", slot.id)
      BY <2>1, <3>1 DEF OrderInv, n
    <3> QED
      BY <1>0, <2>3, <3>2
  <2> QED
    BY <1>0, <2>2, <2>3
<1>5. Len(pipe') = n + 1
  BY <1>0
<1> QED
  BY <1>1, <1>2, <1>3, <1>4, <1>5 DEF OrderInv, Carries

LEMMA OrderTail ==
  ASSUME SockTypeOK, OrderInv, pipe # << >>, pipe' = Tail(pipe), slot'.id = slot.id,
         slot'.type = "PACCEPT" =>
           slot.type = "PACCEPT" /\ told' = told /\ Head(pipe) # Command("R", slot.id),
         owed' \subseteq owed
  PROVE  OrderInv'
<1> DEFINE n == Len(pipe)
           k == Len(pipe')
<1>0. /\ n \in Nat \ {0} /\ k = n - 1 /\ pipe[1] = Head(pipe)
      /\ \A i \in 1 .. k : i + 1 \in 1 .. n /\ pipe'[i] = pipe[i + 1]
      /\ \A i \in 1 .. n : i = 1 \/ (i - 1 \in 1 .. k /\ (i - 1) + 1 = i /\ pipe'[i - 1] = pipe[i])
  <2>1. /\ Len(pipe') = Len(pipe) - 1 /\ Len(pipe) \in Nat \ {0} /\ Head(pipe) = pipe[1]
        /\ \A i \in 1 .. Len(pipe') : i + 1 \in 1 .. Len(pipe) /\ pipe'[i] = pipe[i + 1]
    BY PipeTail
  <2>2. \A i \in 1 .. Len(pipe) : i = 1 \/ (i - 1 \in 1 .. Len(pipe') /\ (i - 1) + 1 = i)
    BY <2>1
  <2>3. \A i \in 1 .. Len(pipe) : i = 1 \/ (i - 1 \in 1 .. Len(pipe') /\ (i - 1) + 1 = i
                                              /\ pipe'[i - 1] = pipe[i])
    BY <2>1, <2>2
  <2> QED
    BY <2>1, <2>3
<1>a. \A i, j \in 1 .. n, m \in Item : Carries(pipe[i], m) /\ Carries(pipe[j], m) => i = j
  BY DEF OrderInv
<1>b. \A i, j \in 1 .. n, m \in owed :
        pipe[i].cmd = "K" /\ pipe[i].id = slot.id /\ Carries(pipe[j], m) => j < i
  BY DEF OrderInv
<1>i. /\ slot.type = "PACCEPT" /\ slot.id \in told =>
           \E i \in 1 .. n : pipe[i] = Command("R", slot.id)
      /\ slot.type = "PACCEPT" =>
           \A j \in 1 .. n : pipe[j].cmd \in {"D", "P"} /\ pipe[j].id = slot.id =>
             \E i \in 1 .. n : i < j /\ pipe[i] = Command("R", slot.id)
  BY DEF OrderInv
<1> HIDE DEF n, k
<1>1. \A i, j \in 1 .. k, m \in Item : Carries(pipe'[i], m) /\ Carries(pipe'[j], m) => i = j
  <2> SUFFICES ASSUME NEW i \in 1 .. k, NEW j \in 1 .. k, NEW m \in Item,
                      Carries(pipe'[i], m), Carries(pipe'[j], m)
               PROVE  i = j
    OBVIOUS
  <2>1. i + 1 = j + 1
    BY <1>0, <1>a
  <2> QED
    BY <2>1
<1>2. \A i, j \in 1 .. k, m \in owed' :
        pipe'[i].cmd = "K" /\ pipe'[i].id = slot'.id /\ Carries(pipe'[j], m) => j < i
  <2> SUFFICES ASSUME NEW i \in 1 .. k, NEW j \in 1 .. k, NEW m \in owed',
                      pipe'[i].cmd = "K", pipe'[i].id = slot'.id, Carries(pipe'[j], m)
               PROVE  j < i
    OBVIOUS
  <2>1. /\ i + 1 \in 1 .. n /\ pipe'[i] = pipe[i + 1]
        /\ j + 1 \in 1 .. n /\ pipe'[j] = pipe[j + 1]
    BY <1>0
  <2>2. m \in owed /\ pipe[i + 1].cmd = "K" /\ pipe[i + 1].id = slot.id /\ Carries(pipe[j + 1], m)
    BY <2>1
  <2>3. j + 1 < i + 1
    BY <1>b, <2>1, <2>2
  <2> QED
    BY <2>3
<1>3. slot'.type = "PACCEPT" /\ slot'.id \in told' =>
        \E i \in 1 .. k : pipe'[i] = Command("R", slot'.id)
  <2> SUFFICES ASSUME slot'.type = "PACCEPT", slot'.id \in told'
               PROVE  \E i \in 1 .. k : pipe'[i] = Command("R", slot.id)
    OBVIOUS
  <2>1. PICK i \in 1 .. n : pipe[i] = Command("R", slot.id)
    BY <1>i
  <2>2. i # 1
    BY <1>0, <2>1
  <2> QED
    BY <1>0, <2>1, <2>2
<1>4. slot'.type = "PACCEPT" =>
        \A j \in 1 .. k : pipe'[j].cmd \in {"D", "P"} /\ pipe'[j].id = slot'.id =>
          \E i \in 1 .. k : i < j /\ pipe'[i] = Command("R", slot'.id)
  <2> SUFFICES ASSUME slot'.type = "PACCEPT", NEW j \in 1 .. k,
                      pipe'[j].cmd \in {"D", "P"}, pipe'[j].id = slot.id
               PROVE  \E i \in 1 .. k : i < j /\ pipe'[i] = Command("R", slot.id)
    OBVIOUS
  <2>1. j + 1 \in 1 .. n /\ pipe'[j] = pipe[j + 1]
    BY <1>0
  <2>2. PICK i \in 1 .. n : i < j + 1 /\ pipe[i] = Command("R", slot.id)
    BY <1>i, <2>1
  <2>3. i # 1
    BY <1>0, <2>2
  <2>4. i - 1 \in 1 .. k /\ pipe'[i - 1] = Command("R", slot.id)
    BY <1>0, <2>2, <2>3
  <2>5. i - 1 < j
    BY <2>2
  <2> QED
    BY <2>4, <2>5
<1>5. k = Len(pipe')
  BY DEF k
<1> QED
  BY <1>1, <1>2, <1>3, <1>4, <1>5 DEF OrderInv, Carries

LEMMA OrderServices ==
  ASSUME SockInv, EndInv, OrderInv, FlushInv, Services PROVE OrderInv'
<1> USE DEF hist
<1>0. /\ SockTypeOK /\ IdsInv /\ slot \in Slot /\ api \in [Sender -> Calls]
      /\ \A v \in Sender : api[v] # Idle =>
           api[v].id \in told /\ api[v].id \in Ids /\ api[v].item \in Item /\ api[v].cmd \in {"D", "P"}
  BY DEF SockInv, SockTypeOK, IdsInv, Calls
<1>1. CASE SockConnect
  <2>1. /\ slot'.type = "RESERVE" /\ owed' = {}
        /\ pipe' = Append(pipe, Command("O", slot.id + 1)) /\ slot.id + 1 \in Ids
    BY <1>0, <1>1, BoundsAssumption DEF SockConnect, Reservable, Reserved, NewHistory, SendRequest, Slot, Ids
  <2>2. Command("O", slot.id + 1) \in Commands /\ Command("O", slot.id + 1).cmd = "O"
    BY <2>1, CommandType DEF Command
  <2> QED
    BY <1>0, <2>1, <2>2, OrderAppend
<1>2. ASSUME NEW id \in Ids, SockStart(id) PROVE OrderInv'
  <2>1. /\ slot' = slot /\ owed' = owed /\ told' = told \cup {id} /\ slot.id = id
        /\ pipe' = Append(pipe, Command("R", id)) /\ Command("R", id) \in Commands
        /\ Command("R", id).cmd = "R"
    BY <1>2, CommandType DEF SockStart, SendRequest, Command
  <2> QED
    BY <1>0, <2>1, OrderAppend
<1>3. ASSUME NEW id \in Ids, SockPause(id) \/ \E how \in {"K", "shutdown"} : SockClose(id, how)
      PROVE  OrderInv'
  <2>1. /\ slot' = slot /\ owed' \subseteq owed /\ told' = told
        /\ \E c \in {"S", "K", "shutdown"} : pipe' = Append(pipe, Command(c, id))
    BY <1>3 DEF SockPause, SockClose, SendRequest
  <2>2. \E c \in Commands : pipe' = Append(pipe, c) /\ c.cmd \notin {"D", "P"}
    BY <2>1, CommandType DEF Command
  <2> QED
    BY <1>0, <2>1, <2>2, OrderAppend
<1>4. ASSUME NEW id \in Ids, NEW v \in Sender, NEW m \in Item, NEW low \in BOOLEAN,
             SockSend(v, id, m, low)
      PROVE  OrderInv'
  <2>1. slot' = slot /\ owed' = owed /\ told' = told /\ pipe' = pipe
    BY <1>4 DEF SockSend
  <2> QED
    BY <2>1, OrderSame
<1>5. ASSUME NEW v \in Sender, api[v] # Idle, owed' = owed \/ Taken(v)
      PROVE  owed' \subseteq owed \/ NoClose
  <2>1. CASE Taken(v) /\ ~over
    <3>1. NoClose
      BY <2>1 DEF EndInv, NoClose
    <3> QED
      BY <3>1
  <2>2. CASE Taken(v) /\ over
    BY <1>0, <2>2, TakenDoes
  <2> QED
    BY <1>5, <2>1, <2>2
<1>6. ASSUME NEW v \in Sender,
             \/ CheckQueues(v) \/ CheckSending(v) \/ TryLock(v) \/ RecheckQueues(v)
             \/ RecheckSending(v) \/ IncSendingRef(v) \/ \E n \in 0 .. 2 : DirectWrite(v, n)
      PROVE  OrderInv'
  <2>1. api[v] # Idle /\ pipe' = pipe /\ told' = told /\ (owed' = owed \/ Taken(v))
    BY <1>6 DEF CheckQueues, CheckSending, TryLock, RecheckQueues, RecheckSending,
       IncSendingRef, DirectWrite, Calling, Idle
  <2>2. slot'.id = slot.id /\ slot'.type = slot.type
    BY <1>0, <1>6 DEF CheckQueues, CheckSending, TryLock, RecheckQueues, RecheckSending,
       IncSendingRef, DirectWrite, Slot
  <2> QED
    BY <1>5, <2>1, <2>2, OrderSame
<1>7. ASSUME NEW v \in Sender, TriggerWrite(v) PROVE OrderInv'
  <2>1. /\ api[v] # Idle /\ slot' = slot /\ told' = told /\ Taken(v)
        /\ pipe' = Append(pipe, Command("W", api[v].id))
    BY <1>7 DEF TriggerWrite, SendRequest, Calling, Idle
  <2>2. Command("W", api[v].id) \in Commands /\ Command("W", api[v].id).cmd = "W"
    BY <1>0, <2>1, CommandType DEF Command
  <2> QED
    BY <1>0, <1>5, <2>1, <2>2, OrderAppend
<1>8. ASSUME NEW v \in Sender, RequestSend(v) PROVE OrderInv'
  <2> DEFINE c == Request(api[v].cmd, api[v].id, api[v].item)
  <2>1. /\ api[v] # Idle /\ slot' = slot /\ told' = told /\ Taken(v) /\ pipe' = Append(pipe, c)
    BY <1>8 DEF RequestSend, SendRequest, Calling, Idle
  <2>2. c \in Commands /\ c.item = api[v].item /\ c.id = api[v].id /\ api[v].id \in told
    BY <1>0, <2>1, CommandType DEF Request
  <2> HIDE DEF c
  <2>3. ~InPipe(c.item) /\ c.item \notin owed
    <3>1. api[v].item \in Item
      BY <1>0, <2>1
    <3>2. Placed(api[v].item)
      BY <3>1 DEF FlushInv
    <3> QED
      BY <2>1, <2>2, <3>2 DEF Placed
  <2>4. owed' \subseteq owed \/ NoClose
    BY <1>5, <2>1
  <2> QED
    BY <1>0, <2>1, <2>2, <2>3, <2>4, OrderAppend
<1> QED
  BY <1>1, <1>2, <1>3, <1>4, <1>6, <1>7, <1>8 DEF Services

LEMMA OrderThread ==
  ASSUME SockInv, EndInv, OrderInv, SockThread \/ \E how \in {"fin", "error"} : PeerEnds(how)
  PROVE  OrderInv'
<1> USE DEF hist
<1>0. SockTypeOK /\ IdsInv /\ slot \in Slot
  BY DEF SockInv, SockTypeOK
<1>1. CASE \/ \E writable \in BOOLEAN : SpWait(writable)
           \/ NoCommand \/ RecvError \/ SendBlocked \/ ReportError
           \/ \E how \in {"fin", "error"} : PeerEnds(how)
  <2>1. slot' = slot /\ told' = told /\ pipe' = pipe /\ owed' \subseteq owed
    BY <1>1 DEF SpWait, NoCommand, RecvError, SendBlocked, ReportError, PeerEnds
  <2> QED
    BY <2>1, OrderSame
<1>2. CASE ReportConnect \/ RecvZero \/ SendError \/ Eof \/ ForceClosed
           \/ \E n \in 0 .. 2 * Cardinality(Item) : SendBuffer(n)
  <2>1. pipe' = pipe /\ owed' = owed
    BY <1>2 DEF ReportConnect, RecvZero, SendError, Eof, ForceClosed, SendBuffer
  <2>2. /\ slot'.id = slot.id
        /\ slot'.type = "PACCEPT" => slot.type = "PACCEPT"
    BY <1>0, <1>2, ForceCloseDoes, CloseReadDoes
       DEF ReportConnect, RecvZero, SendError, Eof, ForceClosed, SendBuffer, Slot
  <2>3. slot'.type = "PACCEPT" => told' = told
    <3>1. CASE ReportConnect
      BY <2>2, <3>1 DEF ReportConnect, OnSlotEvent
    <3>2. CASE ~ReportConnect
      BY <1>2, <3>2 DEF RecvZero, SendError, Eof, ForceClosed, SendBuffer
    <3> QED
      BY <3>1, <3>2
  <2> QED
    BY <2>1, <2>2, <2>3, OrderSame
<1>3. CASE ReportAccept
  <2>1. /\ slot'.id = slot.id + 1 /\ told' = told /\ pipe' = pipe /\ owed' = {}
    BY <1>0, <1>3 DEF ReportAccept, NewFd, Reserved, NewHistory, Slot
  <2>2. slot.id + 1 \notin told
    BY <1>0, BoundsAssumption DEF IdsInv, Slot, Ids, SockTypeOK
  <2>3. \A i \in 1 .. Len(pipe) : pipe[i].cmd \in {"D", "P"} => pipe[i].id # slot.id + 1
    BY <1>0, PipeOld
  <2> QED
    BY <2>1, <2>2, <2>3 DEF OrderInv, Carries
<1>4. ASSUME NEW c, NEW id, Handle(c, id), c # "R", slot'.id = slot.id, owed' = owed,
             slot'.type = "PACCEPT" => slot.type = "PACCEPT" /\ told' = told
      PROVE  OrderInv'
  <2>1. pipe # << >> /\ pipe' = Tail(pipe) /\ Head(pipe).cmd # "R"
    BY <1>4 DEF Handle
  <2>2. Head(pipe) # Command("R", slot.id)
    BY <2>1 DEF Command
  <2> QED
    BY <1>0, <1>4, <2>1, <2>2, OrderTail
<1>5. ASSUME NEW id \in Ids, OpenSocket(id) PROVE OrderInv'
  <2>1. Handle("O", id) /\ owed' = owed
    BY <1>5 DEF OpenSocket
  <2>2. slot'.id = slot.id /\ slot'.type # "PACCEPT"
    BY <1>0, <1>5 DEF OpenSocket, NewFd, Slot
  <2> QED
    BY <1>4, <2>1, <2>2
<1>6. ASSUME NEW id \in Ids, PauseSocket(id) \/ EnableWrite(id)
                               \/ \E c \in {"D", "P"} : SendSocket(c, id)
      PROVE  OrderInv'
  <2>1. (\E c \in {"S", "W", "D", "P"} : Handle(c, id)) /\ owed' = owed /\ told' = told
    BY <1>6 DEF PauseSocket, EnableWrite, SendSocket
  <2>2. slot'.id = slot.id /\ slot'.type = slot.type
    BY <1>0, <1>6 DEF PauseSocket, EnableWrite, SendSocket, Uncounted, Slot
  <2> QED
    BY <1>4, <2>1, <2>2
<1>7. ASSUME NEW id \in Ids, NEW how \in {"K", "shutdown"}, CloseSocket(id, how) PROVE OrderInv'
  <2>1. Handle(how, id) /\ owed' = owed /\ told' = told /\ [slot EXCEPT !.closing = TRUE] \in Slot
    BY <1>0, <1>7 DEF CloseSocket, Slot
  <2>2. \/ ForceClose(~HalfcloseRead) \/ slot' = slot \/ slot' = [slot EXCEPT !.closing = TRUE]
        \/ CloseRead([slot EXCEPT !.closing = TRUE])
    BY <1>7 DEF CloseSocket
  <2>3. slot'.id = slot.id /\ slot'.type \in {slot.type, "HALFCLOSE_READ"}
    BY <1>0, <2>1, <2>2, ForceCloseDoes, CloseReadDoes DEF Slot
  <2> QED
    BY <1>4, <2>1, <2>3
<1>8. ASSUME NEW id \in Ids, ResumeSocket(id) PROVE OrderInv'
  <2>1. pipe # << >> /\ pipe' = Tail(pipe) /\ Head(pipe).id = id /\ owed' = owed /\ told' = told
    BY <1>8 DEF ResumeSocket, Handle
  <2>2. /\ slot'.id = slot.id /\ slot'.type = "PACCEPT" => slot.type = "PACCEPT" /\ slot.id # id
    BY <1>0, <1>8 DEF ResumeSocket, SocketInvalid, HalfcloseRead, Slot
  <2>3. slot'.id = slot.id
    BY <1>0, <1>8 DEF ResumeSocket, Slot
  <2>4. slot.id # id => Head(pipe) # Command("R", slot.id)
    BY <2>1 DEF Command
  <2> QED
    BY <1>0, <2>1, <2>2, <2>3, <2>4, OrderTail
<1> QED
  BY <1>1, <1>2, <1>3, <1>5, <1>6, <1>7, <1>8 DEF SockThread


-----------------------------------------------------------------------------
(* Where each item is *)

LEMMA TwiceStays ==
  ASSUME NEW s \in Seq(Item), NEW t \in Seq(Item), NEW m, Twice(s, m), Lacks(t, m)
  PROVE  Twice(s \o t, m)
<1>1. /\ Len(s) \in Nat /\ Len(t) \in Nat /\ Len(s \o t) = Len(s) + Len(t)
      /\ \A i \in 1 .. Len(s) + Len(t) : (s \o t)[i] = IF i <= Len(s) THEN s[i] ELSE t[i - Len(s)]
  BY ConcatProperties, LenProperties
<1>2. PICK i, j \in 1 .. Len(s) : /\ i # j /\ s[i] = m /\ s[j] = m
                                  /\ \A k \in 1 .. Len(s) : s[k] = m => k = i \/ k = j
  BY DEF Twice
<1>3. /\ i \in 1 .. Len(s \o t) /\ j \in 1 .. Len(s \o t)
      /\ (s \o t)[i] = m /\ (s \o t)[j] = m
  BY <1>1, <1>2
<1>4. ASSUME NEW k \in 1 .. Len(s \o t), (s \o t)[k] = m PROVE k = i \/ k = j
  <2>1. CASE k <= Len(s)
    <3>1. k \in 1 .. Len(s) /\ s[k] = m
      BY <1>1, <1>4, <2>1
    <3> QED
      BY <1>2, <3>1
  <2>2. CASE ~(k <= Len(s))
    <3>1. k - Len(s) \in 1 .. Len(t) /\ t[k - Len(s)] = m
      BY <1>1, <1>4, <2>2
    <3> QED
      BY <3>1 DEF Lacks
  <2> QED
    BY <2>1, <2>2
<1> QED
  BY <1>2, <1>3, <1>4 DEF Twice

Row(w, d, h, l) == ((w \o d) \o h) \o l

LEMMA LineRow == Line = Row(wire, slot.dw, slot.high, slot.low)
BY DEF Line, Ahead, Row

LEMMA LineRowNext == Line' = Row(wire', slot'.dw, slot'.high, slot'.low)
BY DEF Line, Ahead, Row

LEMMA RowParts ==
  ASSUME NEW w \in Seq(Item), NEW d \in Seq(Item), NEW h \in Seq(Item), NEW l \in Seq(Item), NEW m
  PROVE  /\ Row(w, d, h, l) \in Seq(Item)
         /\ Lacks(Row(w, d, h, l), m) <=> Lacks(w, m) /\ Lacks(d, m) /\ Lacks(h, m) /\ Lacks(l, m)
<1> DEFINE a == w \o d
           b == a \o h
<1>1. a \in Seq(Item) /\ (Lacks(a, m) <=> Lacks(w, m) /\ Lacks(d, m))
  BY LacksConcat, ConcatType
<1> HIDE DEF a
<1>2. b \in Seq(Item) /\ (Lacks(b, m) <=> Lacks(a, m) /\ Lacks(h, m))
  BY <1>1, LacksConcat, ConcatType
<1> HIDE DEF b
<1>3. b \o l \in Seq(Item) /\ (Lacks(b \o l, m) <=> Lacks(b, m) /\ Lacks(l, m))
  BY <1>2, LacksConcat, ConcatType
<1>4. Row(w, d, h, l) = b \o l
  BY Zenon DEF Row, a, b
<1> QED
  BY <1>1, <1>2, <1>3, <1>4

LEMMA RowEmpty == \A w \in Seq(Item) : Row(w, << >>, << >>, << >>) = w
BY ConcatEmptySeq DEF Row

(* What is written is the start of the line.                               *)
LEMMA LineParts ==
  ASSUME SockTypeOK, NEW m
  PROVE  /\ Line \in Seq(Item)
         /\ Lacks(Line, m) <=> /\ Lacks(wire, m) /\ Lacks(slot.dw, m)
                               /\ Lacks(slot.high, m) /\ Lacks(slot.low, m)
BY AheadType, LineRow, RowParts

LEMMA InPipeAppend ==
  ASSUME SockTypeOK, NEW c \in Commands, pipe' = Append(pipe, c), NEW m
  PROVE  InPipe(m)' <=> InPipe(m) \/ Carries(c, m)
<1>1. /\ Len(pipe') = Len(pipe) + 1 /\ Len(pipe) \in Nat /\ pipe'[Len(pipe) + 1] = c
      /\ \A i \in 1 .. Len(pipe) : pipe'[i] = pipe[i]
  BY AppendProperties, LenProperties DEF SockTypeOK
<1>2. InPipe(m)' <=> \E i \in 1 .. Len(pipe') : Carries(pipe'[i], m)
  BY DEF InPipe, Carries
<1>3. Len(pipe) + 1 \in 1 .. Len(pipe') /\ \A i \in 1 .. Len(pipe) : i \in 1 .. Len(pipe')
  BY <1>1
<1>4. \A i \in 1 .. Len(pipe') : i \in 1 .. Len(pipe) \/ i = Len(pipe) + 1
  BY <1>1
<1> QED
  BY <1>1, <1>2, <1>3, <1>4 DEF InPipe

LEMMA InPipeTail ==
  ASSUME SockTypeOK, pipe # << >>, pipe' = Tail(pipe), NEW m
  PROVE  InPipe(m) <=> InPipe(m)' \/ Carries(Head(pipe), m)
<1>1. /\ Len(pipe') = Len(pipe) - 1 /\ Len(pipe) \in Nat \ {0} /\ Head(pipe) = pipe[1]
      /\ 1 \in 1 .. Len(pipe)
      /\ \A i \in 1 .. Len(pipe') : i + 1 \in 1 .. Len(pipe) /\ pipe'[i] = pipe[i + 1]
  BY PipeTail
<1>2. InPipe(m)' <=> \E i \in 1 .. Len(pipe') : Carries(pipe'[i], m)
  BY DEF InPipe, Carries
<1>3. \A i \in 1 .. Len(pipe) : i = 1 \/ (i - 1 \in 1 .. Len(pipe') /\ (i - 1) + 1 = i)
  BY <1>1
<1>4. \A i \in 1 .. Len(pipe) : i = 1 \/ (i - 1 \in 1 .. Len(pipe') /\ pipe'[i - 1] = pipe[i])
  BY <1>1, <1>3
<1> QED
  BY <1>1, <1>2, <1>4 DEF InPipe

(* An item is in the pipe once.                                            *)
LEMMA InPipeOnce ==
  ASSUME SockTypeOK, OrderInv, pipe # << >>, pipe' = Tail(pipe),
         NEW m \in Item, Carries(Head(pipe), m)
  PROVE  InPipe(m) /\ ~InPipe(m)'
<1>1. /\ Head(pipe) = pipe[1] /\ 1 \in 1 .. Len(pipe)
      /\ \A i \in 1 .. Len(pipe') : i + 1 \in 1 .. Len(pipe) /\ i + 1 # 1 /\ pipe'[i] = pipe[i + 1]
  BY PipeTail
<1>2. InPipe(m)' <=> \E i \in 1 .. Len(pipe') : Carries(pipe'[i], m)
  BY DEF InPipe, Carries
<1>3. \A i \in 1 .. Len(pipe) : Carries(pipe[i], m) => i = 1
  BY <1>1 DEF OrderInv
<1> QED
  BY <1>1, <1>2, <1>3 DEF InPipe

(* A call that is where it was, or goes on, but not to trigger_write.      *)
CallKept(v) ==
  api'[v] # Idle =>
    /\ api[v] # Idle /\ api'[v].item = api[v].item /\ api'[v].id = api[v].id
    /\ api'[v].at = "trigger" <=> api[v].at = "trigger"

(* An item that the step does not move, though its line may be freed if    *)
(* nothing is owed.                                                        *)
LEMMA PlacedKept ==
  ASSUME IdsInv, NEW m \in Item, Placed(m), slot'.id = slot.id, over => over', sent'[m] = sent[m],
         m \in owed' => m \in owed,
         \A v \in Sender : api'[v] # Idle /\ api'[v].item = m => CallKept(v),
         Lacks(Line, m) => Lacks(Line', m),
         (~over' /\ slot.id \in told) \/ m \in owed' => (Twice(Line, m) => Twice(Line', m)),
         InPipe(m)' <=> InPipe(m),
         (loop'.at = "force" \/ slot'.type = "INVALID") /\ m \in owed' => Twice(wire', m),
         InUse' /\ slot'.closing /\ m \in owed' => ~InPipe(m)'
  PROVE  Placed(m)'
<1>1. ASSUME NEW v \in Sender, api'[v] # Idle, api'[v].item = m
      PROVE  /\ m \notin owed' /\ ~InPipe(m)'
             /\ api'[v].at # "trigger" => Lacks(Line', m)
             /\ api'[v].at = "trigger" /\ api'[v].id = slot'.id /\ ~over' => Twice(Line', m)
  <2>1. /\ api[v] # Idle /\ api[v].item = m /\ api'[v].id = api[v].id
        /\ api'[v].at = "trigger" <=> api[v].at = "trigger"
    BY <1>1 DEF CallKept
  <2>2. api[v].id \in told
    BY <2>1 DEF IdsInv
  <2>3. /\ m \notin owed /\ ~InPipe(m)
        /\ api[v].at # "trigger" => Lacks(Line, m)
        /\ api[v].at = "trigger" /\ api[v].id = slot.id /\ ~over => Twice(Line, m)
    BY <2>1 DEF Placed
  <2> QED
    BY <2>1, <2>2, <2>3
<1>2. InPipe(m)' => Lacks(Line', m)
  BY DEF Placed
<1>3. m \in owed' => sent'[m] = slot'.id /\ (Twice(Line', m) \/ InPipe(m)')
  BY DEF Placed
<1> QED
  BY <1>1, <1>2, <1>3 DEF Placed

LEMMA OnceKept ==
  ASSUME ApiOnce, \A v \in Sender : CallKept(v) PROVE ApiOnce'
<1>1. \A v \in Sender : api'[v] # Idle => api[v] # Idle /\ api'[v].item = api[v].item
  BY DEF CallKept
<1> QED
  BY <1>1 DEF ApiOnce

(* The line is as it was.                                                  *)
LEMMA FlushKept ==
  ASSUME IdsInv, FlushInv, slot'.id = slot.id, over => over', sent' = sent, owed' \subseteq owed,
         \A v \in Sender : CallKept(v), Line' = Line,
         \A m \in Item : InPipe(m)' <=> InPipe(m),
         loop'.at = "force" \/ slot'.type = "INVALID" =>
           \A m \in Item : m \in owed' => Twice(wire', m),
         InUse' /\ slot'.closing => \A m \in Item : m \in owed' => ~InPipe(m)
  PROVE  FlushInv'
<1>1. ASSUME NEW m \in Item PROVE Placed(m)'
  <2>1. Placed(m) /\ (InPipe(m)' <=> InPipe(m))
    BY DEF FlushInv
  <2>2. (loop'.at = "force" \/ slot'.type = "INVALID") /\ m \in owed' => Twice(wire', m)
    OBVIOUS
  <2>3. InUse' /\ slot'.closing /\ m \in owed' => ~InPipe(m)'
    BY <2>1
  <2> QED
    BY <2>1, <2>2, <2>3, PlacedKept
<1> QED
  BY <1>1, OnceKept DEF FlushInv

(* The line, what is written and how the slot stands are as they were.     *)
LEMMA FlushQuiet ==
  ASSUME IdsInv, FlushInv, slot'.id = slot.id, over => over', sent' = sent, owed' \subseteq owed,
         \A v \in Sender : CallKept(v), wire' = wire,
         slot'.dw = slot.dw, slot'.high = slot.high, slot'.low = slot.low,
         \A m \in Item : InPipe(m)' <=> InPipe(m),
         loop'.at = "force" => loop.at = "force",
         slot'.type = "INVALID" => slot.type = "INVALID",
         InUse' /\ slot'.closing => InUse /\ slot.closing
  PROVE  FlushInv'
<1>1. Line' = Line
  BY LineRow, LineRowNext
<1>2. \A m \in Item : Placed(m)
  BY DEF FlushInv
<1>3. loop'.at = "force" \/ slot'.type = "INVALID" =>
        \A m \in Item : m \in owed' => Twice(wire', m)
  BY <1>2 DEF Placed
<1>4. InUse' /\ slot'.closing => \A m \in Item : m \in owed' => ~InPipe(m)
  BY <1>2 DEF Placed
<1> QED
  BY <1>1, <1>3, <1>4, FlushKept

(* Queues are freed: nothing is owed that is not written.                  *)
LEMMA FlushFreed ==
  ASSUME SockTypeOK, IdsInv, FlushInv, slot'.id = slot.id, over' = over, sent' = sent, owed' = owed,
         api' = api, pipe' = pipe \/ \A m \in Item : InPipe(m)' <=> InPipe(m), wire' = wire,
         slot'.dw \in {slot.dw, << >>}, slot'.high = << >>, slot'.low = << >>,
         over \/ slot.id \notin told,
         \A m \in Item : m \in owed =>
           Twice(Line', m) /\ Twice(wire, m) /\ (InUse' /\ slot'.closing => ~InPipe(m))
  PROVE  FlushInv'
<1>1. ASSUME NEW m \in Item PROVE Placed(m)'
  <2>1. Placed(m)
    BY DEF FlushInv
  <2>2. InPipe(m)' <=> InPipe(m)
    BY DEF InPipe, Carries
  <2>3. Lacks(Line, m) => Lacks(Line', m)
    <3>1. /\ wire \in Seq(Item) /\ slot.dw \in Seq(Item) /\ << >> \in Seq(Item)
          /\ wire' \in Seq(Item) /\ slot'.dw \in Seq(Item)
          /\ slot'.high \in Seq(Item) /\ slot'.low \in Seq(Item)
      BY AheadType
    <3>2. Lacks(<< >>, m)
      BY DEF Lacks
    <3>3. Lacks(Line, m) => Lacks(wire, m) /\ Lacks(slot.dw, m)
      BY LineParts
    <3>4. Lacks(Line', m) <=> /\ Lacks(wire', m) /\ Lacks(slot'.dw, m)
                              /\ Lacks(slot'.high, m) /\ Lacks(slot'.low, m)
      <4>1. Lacks(Row(wire', slot'.dw, slot'.high, slot'.low), m)
              <=> /\ Lacks(wire', m) /\ Lacks(slot'.dw, m)
                  /\ Lacks(slot'.high, m) /\ Lacks(slot'.low, m)
        BY <3>1, RowParts
      <4> QED
        BY <4>1, LineRowNext
    <3> QED
      BY <3>2, <3>3, <3>4
  <2>4. \A v \in Sender : CallKept(v)
    BY DEF CallKept
  <2>5. m \in owed' => Twice(Line', m) /\ Twice(wire', m) /\ (InUse' /\ slot'.closing => ~InPipe(m)')
    BY <2>2
  <2> QED
    BY <2>1, <2>2, <2>3, <2>4, <2>5, PlacedKept
<1>2. \A v \in Sender : CallKept(v)
  BY DEF CallKept
<1> QED
  BY <1>1, <1>2, OnceKept DEF FlushInv

(* The next id takes the slot.                                             *)
LEMMA FlushReset ==
  ASSUME SockTypeOK, IdsInv, FlushInv, slot'.id = slot.id + 1, ~over', owed' = {}, sent' = sent,
         api' = api, wire' = << >>,
         slot'.dw = << >>, slot'.high = << >>, slot'.low = << >>,
         \A m \in Item : InPipe(m)' <=> InPipe(m)
  PROVE  FlushInv'
<1>1. \A v \in Sender : api[v] # Idle => api[v].id # slot'.id
  <2>1. slot.id \in Nat /\ \A id \in told : id \in Nat /\ id <= slot.id
    BY BoundsAssumption DEF IdsInv, SockTypeOK, Slot, Ids
  <2> QED
    BY <2>1 DEF IdsInv
<1>2. Line' = << >>
  <2>1. << >> \in Seq(Item)
    BY AheadType
  <2> QED
    BY <2>1, LineRowNext, RowEmpty
<1>3. \A m \in Item : Lacks(Line', m)
  BY <1>2 DEF Lacks
<1>4. ASSUME NEW m \in Item PROVE Placed(m)'
  <2>1. Placed(m) /\ (InPipe(m)' <=> InPipe(m)) /\ Lacks(Line', m)
    BY <1>3 DEF FlushInv
  <2>2. \A v \in Sender : api'[v] # Idle /\ api'[v].item = m => ~InPipe(m)' /\ api'[v].id # slot'.id
    BY <1>1, <2>1 DEF Placed
  <2> QED
    BY <2>1, <2>2 DEF Placed
<1>5. ApiOnce'
  BY DEF FlushInv, ApiOnce
<1> QED
  BY <1>4, <1>5 DEF FlushInv

-----------------------------------------------------------------------------
(* The steps that move an item *)

(* A step that is about the item a only.                                   *)
LEMMA FlushOne ==
  ASSUME IdsInv, FlushInv, slot'.id = slot.id, over' = over, NEW a \in Item,
         \A m \in Item : m # a =>
           /\ sent'[m] = sent[m] /\ (m \in owed' => m \in owed)
           /\ (Lacks(Line, m) => Lacks(Line', m)) /\ (Twice(Line, m) => Twice(Line', m))
           /\ InPipe(m)' <=> InPipe(m)
           /\ Twice(wire, m) => Twice(wire', m),
         \A v \in Sender : api'[v] # Idle /\ api'[v].item # a => CallKept(v),
         loop'.at = "force" => loop.at = "force",
         slot'.type = "INVALID" => slot.type = "INVALID",
         InUse' /\ slot'.closing => InUse /\ slot.closing,
         ApiOnce', Placed(a)'
  PROVE  FlushInv'
<1>1. ASSUME NEW m \in Item, m # a PROVE Placed(m)'
  <2>1. Placed(m)
    BY DEF FlushInv
  <2>2. /\ sent'[m] = sent[m] /\ (m \in owed' => m \in owed)
        /\ (Lacks(Line, m) => Lacks(Line', m)) /\ (Twice(Line, m) => Twice(Line', m))
        /\ InPipe(m)' <=> InPipe(m)
    BY <1>1
  <2>3. (loop'.at = "force" \/ slot'.type = "INVALID") /\ m \in owed' => Twice(wire', m)
    BY <1>1, <2>1 DEF Placed
  <2>4. InUse' /\ slot'.closing /\ m \in owed' => ~InPipe(m)'
    BY <2>1, <2>2 DEF Placed
  <2>5. \A v \in Sender : api'[v] # Idle /\ api'[v].item = m => CallKept(v)
    BY <1>1
  <2> QED
    BY <2>1, <2>2, <2>3, <2>4, <2>5, PlacedKept
<1> QED
  BY <1>1 DEF FlushInv

(* The call that Taken ends. *)
LEMMA FlushTaken ==
  ASSUME SockTypeOK, IdsInv, SentInv, EndInv, FlushInv, NEW v \in Sender, api[v] # Idle, Taken(v)
  PROVE  LET a == api[v].item
         IN  /\ a \in Item /\ api[v].id \in told /\ sent[a] = api[v].id
             /\ a \notin owed /\ ~InPipe(a) /\ Placed(a)
             /\ ApiOnce' /\ \A w \in Sender : api'[w] # Idle => CallKept(w) /\ api'[w].item # a
             /\ \A m \in Item : m # a => (m \in owed' => m \in owed)
             /\ a \in owed' => ~over /\ api[v].id = slot.id
<1> DEFINE a == api[v].item
<1>1. a \in Item /\ api[v].id \in told /\ sent[a] = api[v].id /\ api \in [Sender -> Calls]
  BY DEF SockTypeOK, IdsInv, SentInv, Calls
<1>2. Placed(a) /\ ApiOnce
  BY <1>1 DEF FlushInv
<1>3. a \notin owed /\ ~InPipe(a)
  BY <1>2 DEF Placed
<1>4. /\ api'[v] = Idle /\ \A w \in Sender : w # v => api'[w] = api[w]
      /\ owed' = IF over \/ api[v].id # slot.id THEN owed ELSE owed \cup {a}
  BY <1>1, TakenDoes
<1>5. \A w \in Sender : api'[w] # Idle => CallKept(w) /\ api'[w].item # a
  BY <1>2, <1>4 DEF ApiOnce, CallKept
<1>6. \A w \in Sender : CallKept(w)
  BY <1>5 DEF CallKept
<1>7. ApiOnce'
  BY <1>2, <1>6, OnceKept
<1> HIDE DEF a
<1>8. /\ \A m \in Item : m # a => (m \in owed' => m \in owed)
      /\ a \in owed' => ~over /\ api[v].id = slot.id
  BY <1>3, <1>4
<1>9. /\ a \in Item /\ api[v].id \in told /\ sent[a] = api[v].id
      /\ a \notin owed /\ ~InPipe(a) /\ Placed(a)
      /\ ApiOnce' /\ \A w \in Sender : api'[w] # Idle => CallKept(w) /\ api'[w].item # a
      /\ \A m \in Item : m # a => (m \in owed' => m \in owed)
      /\ a \in owed' => ~over /\ api[v].id = slot.id
  BY <1>1, <1>2, <1>3, <1>5, <1>7, <1>8
<1> QED
  BY <1>9 DEF a

(* An id that is not over is neither closed nor being closed.              *)
LEMMA NotOver ==
  ASSUME EndInv, ~over, slot.id \in told
  PROVE  loop.at # "force" /\ slot.type # "INVALID" /\ ~(InUse /\ slot.closing)
BY DEF EndInv

LEMMA FlushTrigger ==
  ASSUME SockInv, SentInv, EndInv, FlushInv, NEW v \in Sender, TriggerWrite(v)
  PROVE  FlushInv'
<1> USE DEF hist, SockInv
<1>0. api[v] # Idle /\ api[v].item \in Item /\ api \in [Sender -> Calls]
  BY DEF TriggerWrite, Calling, Idle, SockTypeOK, Calls
<1> PICK a \in Item : a = api[v].item
  BY <1>0
<1>1. /\ api[v] # Idle /\ api[v].at = "trigger" /\ Taken(v)
      /\ slot' = slot /\ loop' = loop /\ wire' = wire /\ sent' = sent /\ over' = over
      /\ pipe' = Append(pipe, Command("W", api[v].id))
  BY DEF TriggerWrite, SendRequest, Calling, Idle
<1>2. /\ a \in Item /\ api[v].id \in told /\ sent[a] = api[v].id
      /\ a \notin owed /\ ~InPipe(a) /\ Placed(a)
      /\ ApiOnce' /\ \A w \in Sender : api'[w] # Idle => CallKept(w) /\ api'[w].item # a
      /\ \A m \in Item : m # a => (m \in owed' => m \in owed)
      /\ a \in owed' => ~over /\ api[v].id = slot.id
  BY <1>1, FlushTaken
<1>3. \A m \in Item : InPipe(m)' <=> InPipe(m)
  <2>1. Command("W", api[v].id) \in Commands /\ Command("W", api[v].id).cmd = "W"
    BY <1>2, CommandType DEF Command, SockTypeOK
  <2> QED
    BY <1>1, <2>1, InPipeAppend DEF Carries
<1>4. Line' = Line
  BY <1>1, LineRow, LineRowNext
<1>5. a \in owed' => Twice(Line, a) /\ loop.at # "force" /\ slot.type # "INVALID" /\ ~(InUse /\ slot.closing)
  BY <1>1, <1>2, NotOver DEF Placed
<1>6. Placed(a)'
  BY <1>1, <1>2, <1>3, <1>4, <1>5 DEF Placed, InUse
<1> QED
  BY <1>1, <1>2, <1>3, <1>4, <1>6, FlushOne DEF InUse

LEMMA FlushRequest ==
  ASSUME SockInv, SentInv, EndInv, FlushInv, NEW v \in Sender, RequestSend(v)
  PROVE  FlushInv'
<1> USE DEF hist, SockInv
<1>0. api[v] # Idle /\ api[v].item \in Item /\ api \in [Sender -> Calls]
  BY DEF RequestSend, Calling, Idle, SockTypeOK, Calls
<1> PICK a \in Item : a = api[v].item
  BY <1>0
<1> DEFINE c == Request(api[v].cmd, api[v].id, api[v].item)
<1>1. /\ api[v] # Idle /\ api[v].at = "request" /\ Taken(v)
      /\ slot' = slot /\ loop' = loop /\ wire' = wire /\ sent' = sent /\ over' = over
      /\ pipe' = Append(pipe, c)
  BY DEF RequestSend, SendRequest, Calling, Idle
<1>2. /\ a \in Item /\ api[v].id \in told /\ sent[a] = api[v].id
      /\ a \notin owed /\ ~InPipe(a) /\ Placed(a)
      /\ ApiOnce' /\ \A w \in Sender : api'[w] # Idle => CallKept(w) /\ api'[w].item # a
      /\ \A m \in Item : m # a => (m \in owed' => m \in owed)
      /\ a \in owed' => ~over /\ api[v].id = slot.id
  BY <1>1, FlushTaken
<1>3. c \in Commands /\ \A m \in Item : Carries(c, m) <=> m = a
  <2>1. api[v].id \in Ids /\ api[v].item \in Item /\ api[v].cmd \in {"D", "P"}
    BY <1>1 DEF SockTypeOK, Calls
  <2> QED
    BY <2>1, CommandType DEF Request, Carries
<1>4. Lacks(Line, a)
  BY <1>1, <1>2 DEF Placed
<1>5. a \in owed' => loop.at # "force" /\ slot.type # "INVALID" /\ ~(InUse /\ slot.closing)
  BY <1>2, NotOver
<1> HIDE DEF c
<1>6. \A m \in Item : InPipe(m)' <=> InPipe(m) \/ m = a
  BY <1>1, <1>3, InPipeAppend
<1>7. Line' = Line
  BY <1>1, LineRow, LineRowNext
<1>8. Placed(a)'
  BY <1>1, <1>2, <1>4, <1>5, <1>6, <1>7 DEF Placed, InUse
<1>9. \A m \in Item : m # a => (InPipe(m)' <=> InPipe(m))
  BY <1>6
<1> QED
  BY <1>1, <1>2, <1>7, <1>8, <1>9, FlushOne DEF InUse

(* A direct write puts the item between what is written and what is queued. *)
LEMMA FlushDirect ==
  ASSUME SockInv, SentInv, EndInv, FlushInv, NEW v \in Sender, NEW n \in 0 .. 2, DirectWrite(v, n)
  PROVE  FlushInv'
<1> USE DEF hist, SockInv
<1>0. api[v] # Idle /\ api[v].item \in Item /\ api \in [Sender -> Calls]
  BY DEF DirectWrite, Calling, Idle, SockTypeOK, Calls
<1> PICK a \in Item : a = api[v].item
  BY <1>0
<1> DEFINE q == slot.high \o slot.low
<1>1. /\ api[v] # Idle /\ api[v].at = "write" /\ slot.id = api[v].id /\ slot.dw = << >> /\ InUse
      /\ loop' = loop /\ sent' = sent /\ over' = over /\ pipe' = pipe
      /\ n = 2 => Taken(v)
      /\ n # 2 => Goes(v, "trigger") /\ owed' = owed
  <2>1. api[v] # Idle /\ api[v].at = "write"
    BY DEF DirectWrite, Calling, Idle
  <2> QED
    BY <2>1 DEF LockInv, Calling, DirectWrite
<1>2. /\ wire' = wire \o Halves(a, n) /\ slot'.dw = Halves(a, 2 - n)
      /\ slot'.high = slot.high /\ slot'.low = slot.low
      /\ slot'.id = slot.id /\ slot'.type = slot.type /\ slot'.closing = slot.closing
  BY DEF DirectWrite, Slot, SockTypeOK
<1>3. /\ a \in Item /\ api[v].id \in told /\ sent[a] = slot.id /\ Placed(a) /\ ApiOnce
      /\ api \in [Sender -> Calls]
  BY <1>1 DEF SockTypeOK, IdsInv, SentInv, Calls, FlushInv
<1>4. a \notin owed /\ ~InPipe(a) /\ Lacks(Line, a)
  BY <1>1, <1>3 DEF Placed
<1>5. /\ wire \in Seq(Item) /\ slot.high \in Seq(Item) /\ slot.low \in Seq(Item) /\ q \in Seq(Item)
  BY AheadType, ConcatType
<1>6. /\ Halves(a, n) \in Seq(Item) /\ Halves(a, 2 - n) \in Seq(Item) /\ Halves(a, 2) \in Seq(Item)
      /\ Len(Halves(a, n)) = n /\ \A i \in 1 .. n : Halves(a, n)[i] = a
      /\ Halves(a, n) \o Halves(a, 2 - n) = Halves(a, 2)
  BY <1>3, HalvesJoin
<1>7. \A w \in Sender : w # v => api'[w] = api[w]
  BY <1>1, <1>3, TakenDoes, GoesType
<1>8. /\ api'[v] # Idle => /\ api'[v].item = a /\ api'[v].id = api[v].id /\ api'[v].at = "trigger"
                           /\ owed' = owed
      /\ \A m \in Item : m # a => (m \in owed' => m \in owed)
      /\ a \in owed' => ~over
      /\ \A w \in Sender : w # v /\ api[w] # Idle => api[w].item # a
  <2>1. \A w \in Sender : w # v /\ api[w] # Idle => api[w].item # a
    BY <1>1, <1>3 DEF ApiOnce
  <2>2. CASE n = 2
    BY <1>1, <1>3, <1>4, <2>1, <2>2, TakenDoes
  <2>3. CASE n # 2
    BY <1>1, <1>3, <1>4, <2>1, <2>3, GoesType
  <2> QED
    BY <2>2, <2>3
<1>9. Line = wire \o q /\ Line' = Put(wire, a, q)
  <2>1. /\ wire \o << >> = wire
        /\ (wire \o slot.high) \o slot.low = wire \o (slot.high \o slot.low)
        /\ (wire \o Halves(a, n)) \o Halves(a, 2 - n) = wire \o (Halves(a, n) \o Halves(a, 2 - n))
    <3>1. /\ wire \in Seq(Item) /\ slot.high \in Seq(Item) /\ slot.low \in Seq(Item)
          /\ Halves(a, n) \in Seq(Item) /\ Halves(a, 2 - n) \in Seq(Item)
      BY <1>5, <1>6
    <3>2. (wire \o slot.high) \o slot.low = wire \o (slot.high \o slot.low)
      <4>1. wire \in Seq(Item) /\ slot.high \in Seq(Item) /\ slot.low \in Seq(Item)
        BY <3>1
      <4> QED
        BY <4>1, ConcatThree
    <3>3. (wire \o Halves(a, n)) \o Halves(a, 2 - n) = wire \o (Halves(a, n) \o Halves(a, 2 - n))
      <4>1. wire \in Seq(Item) /\ Halves(a, n) \in Seq(Item) /\ Halves(a, 2 - n) \in Seq(Item)
        BY <3>1
      <4> QED
        BY <4>1, ConcatThree
    <3> QED
      BY <3>1, <3>2, <3>3, ConcatEmptySeq
  <2>2. ((wire \o Halves(a, 2)) \o slot.high) \o slot.low = (wire \o Halves(a, 2)) \o (slot.high \o slot.low)
    <3>1. wire \o Halves(a, 2) \in Seq(Item)
      BY <1>5, <1>6, ConcatType
    <3> QED
      BY <1>5, <3>1, ConcatThree
  <2>3. Line = (wire \o slot.high) \o slot.low
    BY <1>1, <2>1, Zenon DEF Line, Ahead
  <2>4. Line' = (((wire \o Halves(a, n)) \o Halves(a, 2 - n)) \o slot.high) \o slot.low
    BY <1>2, LineRowNext, Zenon DEF Row
  <2>5. Line' = (wire \o Halves(a, 2)) \o (slot.high \o slot.low)
    BY <1>6, <2>1, <2>2, <2>4, Zenon
  <2> QED
    BY <2>1, <2>3, <2>5, Zenon DEF Put
<1> HIDE DEF q
<1>10. Twice(Line', a)
  <2>1. Lacks(wire \o q, a)
    BY <1>4, <1>9
  <2> QED
    BY <1>3, <1>5, <1>9, <2>1, PutSelf
<1>11. ASSUME NEW m \in Item, m # a
       PROVE  /\ Lacks(Line, m) => Lacks(Line', m)
              /\ Twice(Line, m) => Twice(Line', m)
              /\ Twice(wire, m) => Twice(wire', m)
  <2>1. Lacks(Halves(a, n), m)
    BY <1>6, <1>11 DEF Lacks
  <2>2. Twice(wire, m) => Twice(wire', m)
    BY <1>2, <1>5, <1>6, <2>1, TwiceStays
  <2> QED
    BY <1>3, <1>5, <1>9, <1>11, <2>2, PutOther
<1>12. \A m \in Item : InPipe(m)' <=> InPipe(m)
  BY <1>1 DEF InPipe
<1>13. a \in owed' => loop.at # "force" /\ slot.type # "INVALID" /\ ~(InUse /\ slot.closing)
  BY <1>1, <1>3, <1>8, NotOver
<1>14. InUse' <=> InUse
  BY <1>2 DEF InUse
<1>15. ASSUME NEW w \in Sender, api'[w] # Idle, api'[w].item = a
       PROVE  a \notin owed' /\ ~InPipe(a)' /\ api'[w].at = "trigger"
  BY <1>3, <1>4, <1>7, <1>8, <1>12, <1>15
<1>16. Placed(a)'
  BY <1>1, <1>2, <1>3, <1>4, <1>10, <1>12, <1>13, <1>14, <1>15 DEF Placed
<1>17. \A w \in Sender : api'[w] # Idle /\ api'[w].item # a => CallKept(w)
  BY <1>7, <1>8 DEF CallKept
<1>18. ApiOnce'
  BY <1>3, <1>7, <1>8 DEF ApiOnce
<1> QED
  BY <1>1, <1>2, <1>3, <1>8, <1>11, <1>12, <1>14, <1>16, <1>17, <1>18, FlushOne

(* An item that nobody has sent is nowhere.                                *)
LEMMA FlushSockSend ==
  ASSUME SockInv, SentInv, WireInv, EndInv, FlushInv,
         NEW id \in Ids, NEW v \in Sender, NEW a \in Item, NEW low \in BOOLEAN, SockSend(v, id, a, low)
  PROVE  FlushInv'
<1> USE DEF hist, SockInv
<1>1. /\ api[v] = Idle /\ sent[a] = 0 /\ slot.id = id /\ id \in told
      /\ api \in [Sender -> Calls] /\ sent' = [sent EXCEPT ![a] = id] /\ sent \in [Item -> 0 .. MaxId]
      /\ UNCHANGED <<slot, pipe, loop, wire, over, owed>>
      /\ \A i \in Ids : i # 0
  BY DEF SockSend, SocketInvalid, SockTypeOK, Ids
<1>2. /\ api'[v].item = a /\ api'[v].id = id /\ api'[v].at # "trigger"
      /\ \A w \in Sender : w # v => api'[w] = api[w]
  BY <1>1 DEF SockSend
<1>3. a \notin owed
  BY <1>1 DEF FlushInv, Placed
<1>4. ~InPipe(a)
  <2>1. ASSUME NEW i \in 1 .. Len(pipe), Carries(pipe[i], a) PROVE FALSE
    <3>1. pipe[i] \in Commands
      BY ElementOfSeq DEF SockTypeOK
    <3>2. pipe[i].id \in Ids /\ sent[a] = pipe[i].id
      BY <2>1, <3>1, CommandType DEF Carries, SentInv
    <3> QED
      BY <1>1, <3>2
  <2> QED
    BY <2>1 DEF InPipe
<1>5. Lacks(Line, a)
  <2>1. Lacks(wire, a) /\ Lacks(slot.dw, a) /\ Lacks(slot.high, a) /\ Lacks(slot.low, a)
    BY <1>1 DEF WireInv, ForInv, IsFor, Lacks
  <2> QED
    BY <2>1, LineParts
<1>6. \A w \in Sender : api[w] # Idle => api[w].item # a
  <2>1. \A w \in Sender : api[w] # Idle => sent[api[w].item] = api[w].id /\ api[w].id \in Ids
    BY <1>1 DEF SentInv, Calls
  <2> QED
    BY <1>1, <2>1
<1>7. Line' = Line
  BY <1>1, LineRow, LineRowNext
<1>8. \A m \in Item : InPipe(m)' <=> InPipe(m)
  BY <1>1 DEF InPipe
<1>9. ApiOnce'
  BY <1>1, <1>2, <1>6 DEF FlushInv, ApiOnce
<1>10. Placed(a)'
  BY <1>1, <1>2, <1>3, <1>4, <1>5, <1>6, <1>7, <1>8 DEF Placed
<1>11. \A w \in Sender : api'[w] # Idle /\ api'[w].item # a => CallKept(w)
  BY <1>2 DEF CallKept
<1>12. \A m \in Item : m # a => sent'[m] = sent[m]
  BY <1>1
<1> QED
  BY <1>1, <1>7, <1>8, <1>9, <1>10, <1>11, <1>12, FlushOne DEF InUse

(* A request whose item is owed is not refused, and the item joins a list. *)
LEMMA FlushSend ==
  ASSUME SockInv, SentInv, EndInv, OrderInv, FlushInv,
         NEW id \in Ids, NEW c \in {"D", "P"}, SendSocket(c, id)
  PROVE  FlushInv'
<1> USE DEF hist, SockInv
<1>0. slot \in Slot /\ IdsInv /\ SockTypeOK
  BY DEF SockTypeOK
<1>a. Head(pipe).item \in Item
  <2>1. Handle(c, id)
    BY DEF SendSocket
  <2> QED
    BY <1>0, <2>1, HeadType
<1> PICK a \in Item : a = Head(pipe).item
  BY <1>a
<1>1. /\ Handle(c, id)
      /\ UNCHANGED <<loop, ev, api, told, peer, wire, sent, closes, over, owed, cut>>
      /\ \/ SendRefused(id) /\ slot' = Uncounted(slot, id)
         \/ /\ ~SendRefused(id)
            /\ slot' = Uncounted([slot EXCEPT !.high = @ \o Halves(a, 2),
                                              !.writing = @ \/ ListsEmpty], id)
         \/ /\ ~SendRefused(id)
            /\ slot' = Uncounted([slot EXCEPT !.low = @ \o Halves(a, 2)], id)
  BY DEF SendSocket
<1>2. /\ pipe # << >> /\ pipe' = Tail(pipe) /\ loop.at = "ctrl"
      /\ Head(pipe) = pipe[1] /\ 1 \in 1 .. Len(pipe) /\ Head(pipe).cmd = c /\ Head(pipe).id = id
      /\ id \in told /\ (slot.type \in {"RESERVE", "CONNECTING"} => slot.id # id)
  BY <1>0, <1>1, HeadKnown
<1>3. a \in Item /\ Carries(Head(pipe), a) /\ sent[a] = id
  <2>2. pipe[1].cmd \in {"D", "P"}
    BY <1>2
  <2>3. sent[pipe[1].item] = pipe[1].id
    BY <1>2, <2>2 DEF SentInv
  <2> QED
    BY <1>2, <2>2, <2>3 DEF Carries
<1>4. \A m \in Item : m # a => ~Carries(Head(pipe), m)
  BY DEF Carries
<1>5. /\ InPipe(a) /\ ~InPipe(a)'
      /\ \A m \in Item : m # a => (InPipe(m)' <=> InPipe(m))
  <2>1. InPipe(a) /\ ~InPipe(a)'
    BY <1>0, <1>2, <1>3, InPipeOnce
  <2>2. \A m \in Item : InPipe(m) <=> InPipe(m)' \/ Carries(Head(pipe), m)
    BY <1>0, <1>2, InPipeTail
  <2> QED
    BY <1>4, <2>1, <2>2
<1>6. Placed(a) /\ Lacks(Line, a) /\ \A v \in Sender : api[v] # Idle => api[v].item # a
  <2>1. Placed(a)
    BY <1>3 DEF FlushInv
  <2> QED
    BY <1>5, <2>1 DEF Placed
<1>7. /\ \A v \in Sender : CallKept(v)
      /\ ApiOnce'
  <2>1. \A v \in Sender : CallKept(v)
    BY <1>1 DEF CallKept
  <2> QED
    BY <2>1, OnceKept DEF FlushInv
<1>8. ASSUME NEW s \in Slot, slot' = Uncounted(s, id)
      PROVE  /\ slot'.id = s.id /\ slot'.type = s.type /\ slot'.closing = s.closing
             /\ slot'.dw = s.dw /\ slot'.high = s.high /\ slot'.low = s.low
  BY <1>8 DEF Uncounted, Slot
<1>9. CASE SendRefused(id) /\ slot' = Uncounted(slot, id)
  <2>1. /\ slot'.id = slot.id /\ slot'.type = slot.type /\ slot'.closing = slot.closing
        /\ slot'.dw = slot.dw /\ slot'.high = slot.high /\ slot'.low = slot.low
    BY <1>0, <1>8, <1>9
  <2>2. Line' = Line
    BY <1>1, <2>1, LineRow, LineRowNext
  <2>3. ASSUME a \in owed PROVE FALSE
    <3>1. slot.id = id
      BY <1>3, <1>6, <2>3 DEF Placed
    <3>2. CASE slot.type = "INVALID"
      <4>1. Twice(wire, a)
        BY <1>6, <2>3, <3>2 DEF Placed
      <4>2. Lacks(wire, a)
        BY <1>0, <1>6, LineParts
      <4> QED
        BY <4>1, <4>2, TwiceHas
    <3>3. CASE slot.type = "PACCEPT"
      <4>1. pipe[1].cmd \in {"D", "P"} /\ pipe[1].id = slot.id
        BY <1>2, <3>1
      <4>2. PICK i \in 1 .. Len(pipe) : i < 1
        BY <1>2, <3>3, <4>1 DEF OrderInv
      <4> QED
        BY <4>2
    <3>4. CASE slot.type = "HALFCLOSE_WRITE"
      BY <2>3, <3>4 DEF EndInv
    <3>5. CASE slot.closing /\ slot.type # "INVALID"
      <4>1. InUse
        BY <1>2, <3>1, <3>5 DEF InUse
      <4> QED
        BY <1>5, <1>6, <2>3, <3>5, <4>1 DEF Placed
    <3> QED
      BY <1>9, <3>1, <3>2, <3>3, <3>4, <3>5 DEF SendRefused, SocketInvalid
  <2>4. Placed(a)'
    BY <1>1, <1>5, <1>6, <2>3 DEF Placed
  <2>5. InUse' /\ slot'.closing => InUse /\ slot.closing
    BY <2>1 DEF InUse
  <2> QED
    BY <1>0, <1>1, <1>3, <1>5, <1>7, <2>1, <2>2, <2>4, <2>5, FlushOne
<1>10. ASSUME ~SendRefused(id), NEW s \in Seq(Item), NEW t \in Seq(Item),
              Line = s \o t, Line' = Put(s, a, t),
              slot'.id = slot.id, slot'.type = slot.type, slot'.closing = slot.closing
       PROVE  FlushInv'
  <2>1. Twice(Line', a)
    <3>1. Lacks(s \o t, a)
      BY <1>6, <1>10
    <3> QED
      BY <1>3, <1>10, <3>1, PutSelf
  <2>2. \A m \in Item : m # a =>
          (Lacks(Line, m) => Lacks(Line', m)) /\ (Twice(Line, m) => Twice(Line', m))
    BY <1>3, <1>10, PutOther
  <2>3. slot.type # "INVALID" /\ slot.id = id
    BY <1>10 DEF SendRefused, SocketInvalid
  <2>4. Placed(a)'
    BY <1>1, <1>2, <1>3, <1>5, <1>6, <1>10, <2>1, <2>3 DEF Placed
  <2>5. InUse' /\ slot'.closing => InUse /\ slot.closing
    BY <1>10 DEF InUse
  <2> QED
    BY <1>0, <1>1, <1>3, <1>5, <1>7, <1>10, <2>2, <2>4, <2>5, FlushOne
<1>11. /\ wire \in Seq(Item) /\ slot.dw \in Seq(Item) /\ slot.high \in Seq(Item)
       /\ slot.low \in Seq(Item) /\ wire \o slot.dw \in Seq(Item) /\ Ahead \in Seq(Item)
       /\ << >> \in Seq(Item) /\ Line \in Seq(Item)
  BY <1>0, AheadType, LineParts
<1>12. Halves(a, 2) \in Seq(Item)
  <2>1. 2 \in 0 .. 2
    OBVIOUS
  <2> QED
    BY <1>3, <2>1, HalvesType
<1>13. CASE /\ ~SendRefused(id)
            /\ slot' = Uncounted([slot EXCEPT !.high = @ \o Halves(a, 2),
                                              !.writing = @ \/ ListsEmpty], id)
  <2> DEFINE h == slot.high \o Halves(a, 2)
             s == [slot EXCEPT !.high = h, !.writing = @ \/ ListsEmpty]
  <2>1. h \in Seq(Item)
    BY <1>11, <1>12, ConcatType
  <2> HIDE DEF h
  <2>2. s \in Slot /\ s.id = slot.id /\ s.type = slot.type /\ s.closing = slot.closing
        /\ s.dw = slot.dw /\ s.high = h /\ s.low = slot.low
    BY <1>0, <2>1 DEF Slot
  <2>3. slot' = Uncounted(s, id)
    BY <1>13, Zenon DEF h
  <2> HIDE DEF s
  <2>4. /\ slot'.id = slot.id /\ slot'.type = slot.type /\ slot'.closing = slot.closing
        /\ slot'.dw = slot.dw /\ slot'.high = h /\ slot'.low = slot.low
    BY <1>8, <2>2, <2>3
  <2>5. Line' = ((wire \o slot.dw) \o (slot.high \o Halves(a, 2))) \o slot.low
    BY <1>1, <2>4, LineRowNext, Zenon DEF Row, h
  <2>6. (wire \o slot.dw) \o (slot.high \o Halves(a, 2)) = Ahead \o Halves(a, 2)
    <3>1. wire \o slot.dw \in Seq(Item) /\ slot.high \in Seq(Item) /\ Halves(a, 2) \in Seq(Item)
      BY <1>11, <1>12
    <3>2. ((wire \o slot.dw) \o slot.high) \o Halves(a, 2)
            = (wire \o slot.dw) \o (slot.high \o Halves(a, 2))
      BY <3>1, ConcatThree
    <3> QED
      BY <3>2, Zenon DEF Ahead
  <2>7. Line = Ahead \o slot.low /\ Line' = Put(Ahead, a, slot.low)
    BY <2>5, <2>6, Zenon DEF Line, Put
  <2> QED
    BY <1>10, <1>11, <1>13, <2>4, <2>7
<1>14. CASE ~SendRefused(id) /\ slot' = Uncounted([slot EXCEPT !.low = @ \o Halves(a, 2)], id)
  <2> DEFINE l == slot.low \o Halves(a, 2)
             s == [slot EXCEPT !.low = l]
  <2>1. l \in Seq(Item)
    BY <1>11, <1>12, ConcatType
  <2> HIDE DEF l
  <2>2. s \in Slot /\ s.id = slot.id /\ s.type = slot.type /\ s.closing = slot.closing
        /\ s.dw = slot.dw /\ s.high = slot.high /\ s.low = l
    BY <1>0, <2>1 DEF Slot
  <2>3. slot' = Uncounted(s, id)
    BY <1>14, Zenon DEF l
  <2> HIDE DEF s
  <2>4. /\ slot'.id = slot.id /\ slot'.type = slot.type /\ slot'.closing = slot.closing
        /\ slot'.dw = slot.dw /\ slot'.high = slot.high /\ slot'.low = l
    BY <1>8, <2>2, <2>3
  <2>5. Line' = Ahead \o (slot.low \o Halves(a, 2))
    BY <1>1, <2>4, LineRowNext, Zenon DEF Row, Ahead, l
  <2>6. Ahead \o (slot.low \o Halves(a, 2)) = Line \o Halves(a, 2)
    <3>1. Ahead \in Seq(Item) /\ slot.low \in Seq(Item) /\ Halves(a, 2) \in Seq(Item)
      BY <1>11, <1>12
    <3>2. (Ahead \o slot.low) \o Halves(a, 2) = Ahead \o (slot.low \o Halves(a, 2))
      BY <3>1, ConcatThree
    <3> QED
      BY <3>2, Zenon DEF Line
  <2>7. (Line \o Halves(a, 2)) \o << >> = Line \o Halves(a, 2) /\ Line \o << >> = Line
    <3>1. Line \o Halves(a, 2) \in Seq(Item)
      BY <1>11, <1>12, ConcatType
    <3> QED
      BY <1>11, <3>1, ConcatEmptySeq
  <2>8. Line = Line \o << >> /\ Line' = Put(Line, a, << >>)
    BY <2>5, <2>6, <2>7, Zenon DEF Put
  <2> QED
    BY <1>10, <1>11, <1>14, <2>4, <2>8
<1> QED
  BY <1>1, <1>9, <1>13, <1>14

(* send_buffer_ only moves what is in the line. *)
LEMMA FlushBuffer ==
  ASSUME SockInv, FlushInv, NEW n \in Nat, SendBuffer(n)
  PROVE  FlushInv'
<1> USE DEF SockInv
<1> DEFINE high == slot.dw \o slot.high
           out  == SubSeq(All, 1, n)
           rest == SubSeq(All, n + 1, Len(All))
<1>1. /\ All \in Seq(Item) /\ Len(All) \in Nat /\ n <= Len(All)
      /\ wire' = wire \o out /\ out \in Seq(Item)
      /\ slot'.type = slot.type /\ slot'.id = slot.id /\ slot'.closing = slot.closing
      /\ slot'.dw = << >> /\ InUse
      /\ slot'.high \in Seq(Item) /\ slot'.low \in Seq(Item)
      /\ slot'.high \o slot'.low = rest /\ sent' = sent /\ api' = api /\ pipe' = pipe
  BY SendBufferDoes DEF SockTypeOK
<1>2. /\ over' = over /\ owed' = owed
      /\ loop'.at = "force" => slot.closing /\ slot'.high = << >> /\ slot'.low = << >>
  <2>1. slot \in Slot
    BY DEF SockTypeOK
  <2> QED
    BY <2>1, ConsumedDoes DEF SendBuffer, hist, Slot
<1>3. /\ wire \in Seq(Item) /\ high \in Seq(Item) /\ slot.low \in Seq(Item) /\ << >> \in Seq(Item)
      /\ Ahead = wire \o high /\ All = high \o slot.low
  BY AheadType, ConcatType DEF All
<1>4. out \o rest = All
  <2>1. 1 \in 1 .. Len(All) + 1 /\ n \in 1 - 1 .. Len(All) /\ Len(All) \in n .. Len(All)
    BY <1>1
  <2>2. SubSeq(All, 1, n) \o SubSeq(All, n + 1, Len(All)) = SubSeq(All, 1, Len(All))
    BY <1>1, <2>1, ConcatAdjacentSubSeq
  <2>3. SubSeq(All, 1, Len(All)) = All
    BY <1>1, SubSeqFull
  <2> QED
    BY <2>2, <2>3
<1> HIDE DEF high, out, rest
<1>5. rest \in Seq(Item) /\ wire' \in Seq(Item)
  BY <1>1, <1>3, ConcatType
<1>6. Line' = Line
  <2>1. (wire \o out) \o rest = wire \o (out \o rest)
    <3>1. wire \in Seq(Item) /\ out \in Seq(Item) /\ rest \in Seq(Item)
      BY <1>1, <1>3, <1>5
    <3> QED
      BY <3>1, ConcatThree
  <2>2. (wire \o high) \o slot.low = wire \o (high \o slot.low)
    <3>1. wire \in Seq(Item) /\ high \in Seq(Item) /\ slot.low \in Seq(Item)
      BY <1>3
    <3> QED
      BY <3>1, ConcatThree
  <2>3. (wire' \o slot'.high) \o slot'.low = wire' \o (slot'.high \o slot'.low)
    <3>1. wire' \in Seq(Item) /\ slot'.high \in Seq(Item) /\ slot'.low \in Seq(Item)
      BY <1>1, <1>5
    <3> QED
      BY <3>1, ConcatThree
  <2>4. wire' \o << >> = wire'
    BY <1>5, ConcatEmptySeq
  <2>5. Line' = (wire' \o slot'.high) \o slot'.low
    BY <1>1, <2>4, LineRowNext, Zenon DEF Row
  <2>6. Line = wire \o All
    BY <1>3, <2>2, Zenon DEF Line
  <2>7. (wire' \o slot'.high) \o slot'.low = wire \o All
    BY <1>1, <1>4, <2>1, <2>3, Zenon
  <2> QED
    BY <2>5, <2>6, <2>7
<1>7. \A m \in Item : Placed(m) /\ (InPipe(m)' <=> InPipe(m))
  BY <1>1 DEF FlushInv, InPipe
<1>8. ASSUME loop'.at = "force" \/ slot'.type = "INVALID", NEW m \in Item, m \in owed'
      PROVE  Twice(wire', m)
  <2>1. slot'.high = << >> /\ slot'.low = << >> /\ slot.closing
    BY <1>1, <1>2, <1>8 DEF InUse
  <2>2. Line' = wire'
    BY <1>1, <1>5, <2>1, LineRowNext, RowEmpty
  <2>3. Twice(Line, m)
    BY <1>1, <1>2, <1>7, <1>8, <2>1 DEF Placed
  <2> QED
    BY <1>6, <2>2, <2>3
<1>9. InUse' /\ slot'.closing => \A m \in Item : m \in owed' => ~InPipe(m)
  BY <1>1, <1>2, <1>7 DEF Placed
<1>10. \A v \in Sender : CallKept(v)
  BY <1>1 DEF CallKept
<1> QED
  BY <1>1, <1>2, <1>6, <1>7, <1>8, <1>9, <1>10, FlushKept

LEMMA FlushServices ==
  ASSUME SockInv, SentInv, WireInv, EndInv, FlushInv, Services PROVE FlushInv'
<1> USE DEF hist, SockInv
<1>0. /\ SockTypeOK /\ IdsInv /\ EmptyInv /\ slot \in Slot /\ api \in [Sender -> Calls]
  BY DEF SockTypeOK
<1>1. CASE SockConnect
  <2>1. /\ slot'.id = slot.id + 1 /\ slot.type = "INVALID" /\ ~over' /\ owed' = {} /\ sent' = sent
        /\ api' = api /\ wire' = << >>
        /\ slot'.dw = slot.dw /\ slot'.high = slot.high /\ slot'.low = slot.low
        /\ pipe' = Append(pipe, Command("O", slot.id + 1)) /\ slot.id + 1 \in Ids
    BY <1>0, <1>1, BoundsAssumption DEF SockConnect, Reservable, Reserved, NewHistory, SendRequest, Slot, Ids
  <2>2. Command("O", slot.id + 1) \in Commands /\ Command("O", slot.id + 1).cmd = "O"
    BY <2>1, CommandType DEF Command
  <2>3. \A m \in Item : InPipe(m)' <=> InPipe(m)
    BY <1>0, <2>1, <2>2, InPipeAppend DEF Carries
  <2>4. slot.dw = << >> /\ slot.high = << >> /\ slot.low = << >>
    BY <1>0, <2>1 DEF EmptyInv, InUse, ListsEmpty
  <2> QED
    BY <1>0, <2>1, <2>3, <2>4, FlushReset
<1>2. ASSUME NEW id \in Ids,
             SockStart(id) \/ SockPause(id) \/ \E how \in {"K", "shutdown"} : SockClose(id, how)
      PROVE  FlushInv'
  <2>1. /\ slot' = slot /\ loop' = loop /\ wire' = wire /\ sent' = sent /\ api' = api
        /\ over => over'
        /\ owed' \subseteq owed
        /\ \E c \in {"R", "S", "K", "shutdown"} : pipe' = Append(pipe, Command(c, id))
    <3>1. CASE SockStart(id) \/ SockPause(id)
      BY <3>1 DEF SockStart, SockPause, SendRequest
    <3>2. ASSUME NEW how \in {"K", "shutdown"}, SockClose(id, how)
          PROVE  /\ slot' = slot /\ loop' = loop /\ wire' = wire /\ sent' = sent /\ api' = api
                 /\ over => over'
                 /\ owed' \subseteq owed
                 /\ pipe' = Append(pipe, Command(how, id))
      BY <3>2 DEF SockClose, SendRequest
    <3> QED
      BY <1>2, <3>1, <3>2
  <2>2. PICK c \in {"R", "S", "K", "shutdown"} : pipe' = Append(pipe, Command(c, id))
    BY <2>1
  <2>3. Command(c, id) \in Commands /\ Command(c, id).cmd \notin {"D", "P"}
    BY CommandType DEF Command
  <2>4. \A m \in Item : InPipe(m)' <=> InPipe(m)
    BY <1>0, <2>2, <2>3, InPipeAppend DEF Carries
  <2>5. \A v \in Sender : CallKept(v)
    BY <2>1 DEF CallKept
  <2>6. InUse' <=> InUse
    BY <2>1 DEF InUse
  <2>7. over => over'
    BY <2>1
  <2>8. owed' \subseteq owed
    BY <2>1
  <2> QED
    BY <1>0, <2>1, <2>4, <2>5, <2>6, <2>7, <2>8, FlushQuiet
<1>3. ASSUME NEW v \in Sender,
             \/ CheckQueues(v) \/ CheckSending(v) \/ TryLock(v) \/ RecheckQueues(v)
             \/ RecheckSending(v) \/ IncSendingRef(v)
      PROVE  FlushInv'
  <2>1. /\ api[v] # Idle /\ api[v].at # "trigger" /\ UNCHANGED <<pipe, loop, wire, sent, over, owed>>
        /\ \E l \in {"check2", "trylock", "recheck", "recheck2", "write", "count", "request"} : Goes(v, l)
    BY <1>3 DEF CheckQueues, CheckSending, TryLock, RecheckQueues, RecheckSending, IncSendingRef,
       Calling, Idle
  <2>2. /\ slot'.id = slot.id /\ slot'.type = slot.type /\ slot'.closing = slot.closing
        /\ slot'.dw = slot.dw /\ slot'.high = slot.high /\ slot'.low = slot.low
    BY <1>0, <1>3 DEF CheckQueues, CheckSending, TryLock, RecheckQueues, RecheckSending,
       IncSendingRef, Slot
  <2>3. \A w \in Sender : CallKept(w)
    BY <1>0, <2>1, GoesType DEF CallKept
  <2>4. \A m \in Item : InPipe(m)' <=> InPipe(m)
    BY <2>1 DEF InPipe
  <2>5. InUse' <=> InUse
    BY <2>2 DEF InUse
  <2> QED
    BY <1>0, <2>1, <2>2, <2>3, <2>4, <2>5, FlushQuiet
<1> QED
  BY <1>1, <1>2, <1>3, FlushSockSend, FlushDirect, FlushTrigger, FlushRequest DEF Services

LEMMA FlushThread ==
  ASSUME SockInv, SentInv, EndInv, OrderInv, FlushInv,
         SockThread \/ \E how \in {"fin", "error"} : PeerEnds(how)
  PROVE  FlushInv'
<1> USE DEF hist, SockInv
<1>0. /\ SockTypeOK /\ IdsInv /\ EmptyInv /\ slot \in Slot /\ loop \in Loops /\ owed \subseteq Item
      /\ \A m \in Item : Placed(m)
  BY DEF SockTypeOK, FlushInv
<1>a. ASSUME pipe' = pipe PROVE \A m \in Item : InPipe(m)' <=> InPipe(m)
  BY <1>a DEF InPipe
<1>b. ASSUME NEW c, NEW id, Handle(c, id), c \notin {"D", "P"}
      PROVE  \A m \in Item : InPipe(m)' <=> InPipe(m)
  <2>1. pipe # << >> /\ pipe' = Tail(pipe) /\ Head(pipe).cmd = c
    BY <1>b DEF Handle
  <2> QED
    BY <1>0, <1>b, <2>1, InPipeTail DEF Carries
<1>c. ASSUME api' = api PROVE \A v \in Sender : CallKept(v)
  BY <1>c DEF CallKept
<1>d. ASSUME \A m \in Item : InPipe(m)' <=> InPipe(m),
             UNCHANGED <<api, wire, sent>>, over => over', owed' \subseteq owed,
             slot'.id = slot.id, slot'.dw = slot.dw, slot'.high = slot.high, slot'.low = slot.low,
             loop'.at = "force" => loop.at = "force",
             slot'.type = "INVALID" => slot.type = "INVALID",
             InUse' /\ slot'.closing => InUse /\ slot.closing
      PROVE  FlushInv'
  BY <1>0, <1>c, <1>d, FlushQuiet
(* The lists are freed, though nothing is owed.                            *)
<1>e. ASSUME NEW close, ForceClose(close), \A m \in Item : InPipe(m)' <=> InPipe(m),
             UNCHANGED <<api, wire, sent, over, owed>>, owed = {}, over \/ slot.id \notin told
      PROVE  FlushInv'
  <2>1. slot'.id = slot.id /\ slot'.dw = slot.dw /\ slot'.high = << >> /\ slot'.low = << >>
    BY <1>0, <1>e, ForceCloseDoes
  <2> QED
    BY <1>0, <1>e, <2>1, FlushFreed
(* They were empty: the line is what is written.                           *)
<1>f. ASSUME NEW close, ForceClose(close), \A m \in Item : InPipe(m)' <=> InPipe(m),
             UNCHANGED <<api, wire, sent, over, owed>>, ListsEmpty, slot.dw = << >>,
             \A m \in Item : m \in owed => ~InPipe(m)
      PROVE  FlushInv'
  <2>1. slot'.id = slot.id /\ slot'.dw = << >> /\ slot'.high = << >> /\ slot'.low = << >>
    BY <1>0, <1>f, ForceCloseDoes
  <2>2. wire \in Seq(Item)
    BY <1>0, AheadType
  <2>3. Line = wire /\ Line' = wire
    BY <1>f, <2>1, <2>2, LineRow, LineRowNext, RowEmpty DEF ListsEmpty
  <2>4. \A m \in Item : m \in owed' => Twice(wire', m)
    BY <1>0, <1>f, <2>3 DEF Placed
  <2>5. /\ over => over' /\ owed' \subseteq owed
        /\ \A v \in Sender : CallKept(v)
    BY <1>c, <1>f
  <2> QED
    BY <1>0, <1>f, <2>1, <2>3, <2>4, <2>5, FlushKept
<1>1. CASE \/ \E writable \in BOOLEAN : SpWait(writable)
           \/ NoCommand \/ RecvError \/ SendBlocked \/ ReportError
           \/ \E how \in {"fin", "error"} : PeerEnds(how)
  <2>1. /\ UNCHANGED <<slot, pipe, api, wire, sent>>
        /\ over => over'
        /\ owed' \subseteq owed
        /\ loop'.at = "force" => loop.at = "force"
    BY <1>1, ConsumedDoes DEF SpWait, NoCommand, RecvError, SendBlocked, ReportError, PeerEnds
  <2>2. InUse' <=> InUse
    BY <2>1 DEF InUse
  <2> QED
    BY <1>a, <1>d, <2>1, <2>2
<1>2. CASE ForceClosed
  <2>1. /\ slot'.type = "INVALID" /\ slot'.id = slot.id /\ slot'.dw = << >> /\ loop.at = "force"
        /\ slot'.high = slot.high /\ slot'.low = slot.low
        /\ UNCHANGED <<pipe, api, wire, sent, over, owed>>
    BY <1>0, <1>2 DEF ForceClosed, Slot
  <2>2. slot.high = << >> /\ slot.low = << >> /\ (over \/ slot.id \notin told)
    BY <1>0, <2>1 DEF EmptyInv, ListsEmpty, EndInv
  <2>3. wire \in Seq(Item) /\ Line' = wire
    BY <1>0, <2>1, <2>2, AheadType, LineRowNext, RowEmpty
  <2>4. \A m \in Item : m \in owed => Twice(wire, m)
    BY <1>0, <2>1 DEF Placed
  <2>5. ~InUse'
    BY <2>1 DEF InUse
  <2> QED
    BY <1>0, <2>1, <2>2, <2>3, <2>4, <2>5, FlushFreed
<1>3. CASE ReportAccept
  <2>1. /\ slot'.id = slot.id + 1 /\ slot.type = "INVALID" /\ ~over' /\ owed' = {} /\ sent' = sent
        /\ api' = api /\ wire' = << >> /\ pipe' = pipe
        /\ slot'.dw = << >> /\ slot'.high = slot.high /\ slot'.low = slot.low
    BY <1>0, <1>3 DEF ReportAccept, Reservable, NewFd, Reserved, NewHistory, Slot
  <2>2. slot.high = << >> /\ slot.low = << >>
    BY <1>0, <2>1 DEF EmptyInv, InUse, ListsEmpty
  <2> QED
    BY <1>0, <1>a, <2>1, <2>2, FlushReset
<1>4. CASE ReportConnect
  <2>1. /\ slot.type = "CONNECTING" /\ InUse /\ slot.id \notin told /\ owed = {}
        /\ UNCHANGED <<pipe, api, wire, sent, over, owed>>
    BY <1>0, <1>4 DEF ReportConnect, OnSlotEvent, IdsInv, EndInv
  <2>2. CASE ForceClose(FALSE)
    BY <1>a, <1>e, <2>1, <2>2
  <2>3. CASE slot' = [slot EXCEPT !.type = "CONNECTED", !.writing = @ /\ ~NomoreSendingData] /\ Consumed
    <3>1. /\ slot'.type = "CONNECTED" /\ slot'.id = slot.id /\ slot'.closing = slot.closing
          /\ slot'.dw = slot.dw /\ slot'.high = slot.high /\ slot'.low = slot.low
      BY <1>0, <2>3 DEF Slot
    <3> QED
      BY <1>a, <1>d, <2>1, <2>3, <3>1, ConsumedDoes
  <2> QED
    BY <1>4, <2>2, <2>3 DEF ReportConnect
<1>5. CASE RecvZero
  <2>1. InUse /\ UNCHANGED <<pipe, api, wire, sent, over, owed>>
    BY <1>5 DEF RecvZero, ReadNext, OnSlotEvent
  <2>2. ASSUME slot.type = "HALFCLOSE_WRITE" PROVE over /\ owed = {}
    BY <2>2 DEF EndInv
  <2>3. CASE slot.closing /\ NomoreSendingData /\ ForceClose(FALSE)
    <3>1. \A m \in Item : m \in owed => ~InPipe(m)
      BY <1>0, <2>1, <2>3 DEF Placed
    <3>2. CASE slot.type = "HALFCLOSE_WRITE"
      BY <1>a, <1>e, <2>1, <2>2, <2>3, <3>2
    <3>3. CASE slot.type # "HALFCLOSE_WRITE"
      <4>1. ListsEmpty /\ slot.dw = << >>
        BY <2>3, <3>3 DEF NomoreSendingData
      <4> QED
        BY <1>a, <1>f, <2>1, <2>3, <3>1, <4>1
    <3> QED
      BY <3>2, <3>3
  <2>4. CASE slot.type = "HALFCLOSE_WRITE" /\ ForceClose(TRUE)
    BY <1>a, <1>e, <2>1, <2>2, <2>4
  <2>5. CASE slot' = slot /\ (loop' = loop \/ Consumed)
    <3>1. InUse' <=> InUse
      BY <2>5 DEF InUse
    <3> QED
      BY <1>a, <1>d, <2>1, <2>5, <3>1, ConsumedDoes
  <2>6. CASE CloseRead(slot) /\ Consumed
    <3>1. /\ slot'.type = "HALFCLOSE_READ" /\ slot'.id = slot.id /\ slot'.closing = slot.closing
          /\ slot'.dw = slot.dw /\ slot'.high = slot.high /\ slot'.low = slot.low
      BY <1>0, <2>6, CloseReadDoes
    <3> QED
      BY <1>a, <1>d, <2>1, <2>6, <3>1, ConsumedDoes
  <2> QED
    BY <1>5, <2>3, <2>4, <2>5, <2>6 DEF RecvZero
<1>6. CASE SendError
  <2>1. /\ InUse /\ UNCHANGED <<pipe, api, wire, sent, over, owed>> /\ over /\ owed = {}
    BY <1>6 DEF SendError, WriteNext, OnSlotEvent, EndInv
  <2>2. CASE ForceClose(FALSE)
    BY <1>a, <1>e, <2>1, <2>2
  <2>3. CASE slot' = [slot EXCEPT !.dw = << >>, !.high = slot.dw \o @,
                        !.writing = @ /\ slot.type = "HALFCLOSE_WRITE",
                        !.type = "HALFCLOSE_WRITE"]
    <3>1. /\ slot'.id = slot.id /\ slot'.dw = << >>
          /\ slot'.high = slot.dw \o slot.high /\ slot'.low = slot.low
      BY <1>0, <2>3 DEF Slot
    <3>2. /\ wire \in Seq(Item) /\ slot.dw \in Seq(Item) /\ slot.high \in Seq(Item)
          /\ Ahead = wire \o (slot.dw \o slot.high) /\ wire \o << >> = wire
      BY <1>0, AheadType, ConcatEmptySeq
    <3>3. Line' = Line
      <4>1. Ahead' = Ahead
        BY <2>1, <3>1, <3>2 DEF Ahead
      <4> QED
        BY <3>1, <4>1 DEF Line
    <3>4. \A m \in Item : m \notin owed'
      BY <2>1
    <3>5. \A v \in Sender : CallKept(v)
      BY <1>c, <2>1
    <3>6. over' /\ sent' = sent /\ owed' \subseteq owed
      BY <2>1
    <3> QED
      BY <1>0, <1>a, <2>1, <3>1, <3>3, <3>4, <3>5, <3>6, FlushKept
  <2> QED
    BY <1>6, <2>2, <2>3 DEF SendError
<1>7. CASE Eof
  <2>1. /\ UNCHANGED <<pipe, api, wire, sent, over, owed>> /\ ForceClose(~HalfcloseRead)
        /\ over /\ owed = {}
    BY <1>7 DEF Eof, OnSlotEvent, EndInv, Something
  <2> QED
    BY <1>a, <1>e, <2>1
<1>8. ASSUME NEW n \in 0 .. 2 * Cardinality(Item), SendBuffer(n) PROVE FlushInv'
  <2>1. n \in Nat
    BY <1>8
  <2> QED
    BY <1>8, <2>1, FlushBuffer
<1>9. ASSUME NEW id \in Ids, OpenSocket(id) PROVE FlushInv'
  <2>1. /\ Handle("O", id) /\ slot.type = "RESERVE" /\ slot.id = id /\ loop.at = "ctrl"
        /\ UNCHANGED <<loop, api, wire, sent, over, owed>>
    BY <1>0, <1>9, HeadKnown DEF OpenSocket
  <2>2. slot.dw = << >> /\ slot.high = << >> /\ slot.low = << >> /\ owed = {}
    BY <1>0, <2>1 DEF EmptyInv, InUse, ListsEmpty, IdsInv, EndInv
  <2>3. /\ slot'.id = slot.id /\ slot'.dw \in {slot.dw, << >>} /\ slot'.high = slot.high
        /\ slot'.low = slot.low
    BY <1>0, <1>9 DEF OpenSocket, NewFd, Slot
  <2>4. Line' = Line
    BY <2>1, <2>2, <2>3, LineRow, LineRowNext
  <2>5. /\ \A m \in Item : m \notin owed'
        /\ owed' \subseteq owed
        /\ over => over'
    BY <2>1, <2>2
  <2> QED
    BY <1>0, <1>b, <1>c, <2>1, <2>3, <2>4, <2>5, FlushKept
<1>10. ASSUME NEW id \in Ids, ResumeSocket(id) \/ PauseSocket(id) \/ EnableWrite(id) PROVE FlushInv'
  <2>1. /\ \E c \in {"R", "S", "W"} : Handle(c, id)
        /\ UNCHANGED <<loop, api, wire, sent, over, owed>>
    BY <1>10 DEF ResumeSocket, PauseSocket, EnableWrite
  <2>2. /\ slot'.id = slot.id /\ slot'.closing = slot.closing
        /\ slot'.dw = slot.dw /\ slot'.high = slot.high /\ slot'.low = slot.low
        /\ slot'.type = slot.type \/ (slot.type = "PACCEPT" /\ slot'.type = "CONNECTED")
    BY <1>0, <1>10 DEF ResumeSocket, PauseSocket, EnableWrite, Slot
  <2>3. InUse' <=> InUse
    BY <2>2 DEF InUse
  <2>4. \A m \in Item : InPipe(m)' <=> InPipe(m)
    BY <1>b, <2>1
  <2> QED
    BY <1>d, <2>1, <2>2, <2>3, <2>4
<1>11. ASSUME NEW id \in Ids, NEW how \in {"K", "shutdown"}, CloseSocket(id, how) PROVE FlushInv'
  <2>1. /\ Handle(how, id) /\ pipe # << >> /\ pipe' = Tail(pipe) /\ loop.at = "ctrl"
        /\ 1 \in 1 .. Len(pipe) /\ pipe[1].cmd = how /\ pipe[1].id = id
        /\ slot.type \in {"RESERVE", "CONNECTING"} => slot.id # id
        /\ UNCHANGED <<api, wire, sent, over, owed>>
        /\ [slot EXCEPT !.closing = TRUE] \in Slot
    BY <1>0, <1>11, HeadKnown DEF CloseSocket, Slot
  <2>2. \A m \in Item : InPipe(m)' <=> InPipe(m)
    <3>1. how \notin {"D", "P"}
      OBVIOUS
    <3> QED
      BY <1>b, <2>1, <3>1
  <2>3. slot.id = id => over /\ (how = "shutdown" => owed = {})
    BY <2>1 DEF EndInv
  <2>4. ASSUME slot.id = id, NEW m \in Item, m \in owed PROVE ~InPipe(m)
    <3>1. how = "K"
      BY <2>3, <2>4
    <3>2. ASSUME NEW j \in 1 .. Len(pipe), Carries(pipe[j], m) PROVE FALSE
      <4>1. j < 1
        BY <2>1, <2>4, <3>1, <3>2 DEF OrderInv
      <4> QED
        BY <4>1
    <3> QED
      BY <3>2 DEF InPipe
  <2>5. CASE slot' = slot /\ loop' = loop
    <3>1. InUse' <=> InUse
      BY <2>5 DEF InUse
    <3> QED
      BY <1>d, <2>1, <2>2, <2>5, <3>1
  <2>6. CASE ~SocketInvalid(id) /\ ForceClose(~HalfcloseRead) /\ (how = "shutdown" \/ NomoreSendingData)
    <3>1. slot.id = id
      BY <2>6 DEF SocketInvalid
    <3>2. CASE owed = {}
      BY <1>e, <2>1, <2>2, <2>3, <2>6, <3>1, <3>2
    <3>3. CASE owed # {}
      <4>1. slot.type # "HALFCLOSE_WRITE" /\ how # "shutdown"
        BY <2>3, <3>1, <3>3 DEF EndInv
      <4>2. ListsEmpty /\ slot.dw = << >>
        BY <2>6, <4>1 DEF NomoreSendingData
      <4> QED
        BY <1>f, <2>1, <2>2, <2>4, <2>6, <3>1, <4>2
    <3> QED
      BY <3>2, <3>3
  <2>7. CASE /\ ~SocketInvalid(id) /\ loop' = loop
             /\ \/ slot' = [slot EXCEPT !.closing = TRUE]
                \/ CloseRead([slot EXCEPT !.closing = TRUE])
    <3>1. /\ slot'.id = slot.id /\ slot'.type \in {slot.type, "HALFCLOSE_READ"}
          /\ slot'.dw = slot.dw /\ slot'.high = slot.high /\ slot'.low = slot.low
      BY <1>0, <2>1, <2>7, CloseReadDoes DEF Slot
    <3>2. slot.id = id /\ slot.type # "INVALID"
      BY <2>7 DEF SocketInvalid
    <3>3. Line' = Line
      BY <2>1, <3>1, LineRow, LineRowNext
    <3>4. /\ \A m \in Item : m \in owed' => ~InPipe(m)
          /\ owed' \subseteq owed
          /\ over => over'
      BY <2>1, <2>4, <3>2
    <3>5. ~(loop'.at = "force" \/ slot'.type = "INVALID")
      BY <2>1, <2>7, <3>1, <3>2
    <3> QED
      BY <1>0, <1>c, <2>1, <2>2, <3>1, <3>3, <3>4, <3>5, FlushKept
  <2> QED
    BY <1>11, <2>5, <2>6, <2>7 DEF CloseSocket
<1> QED
  BY <1>1, <1>2, <1>3, <1>4, <1>5, <1>6, <1>7, <1>8, <1>9, <1>10, <1>11, FlushSend DEF SockThread

-----------------------------------------------------------------------------
FlushesInv == LinesInv /\ EndInv /\ OrderInv /\ FlushInv

LEMMA FlushesInvInit == SockInit => FlushesInv
<1> SUFFICES ASSUME SockInit PROVE FlushesInv
  OBVIOUS
<1>1. /\ slot.type = "INVALID" /\ slot.id = 0 /\ ~slot.closing /\ pipe = << >> /\ owed = {} /\ told = {}
      /\ peer = "open" /\ ev = NoEvent /\ loop.at = "wait" /\ \A v \in Sender : api[v] = Idle
  BY DEF SockInit
<1>2. EndInv
  BY <1>1 DEF EndInv, Broken, InUse
<1>3. OrderInv
  BY <1>1 DEF OrderInv
<1>4. FlushInv
  BY <1>1 DEF FlushInv, ApiOnce, Placed, InPipe
<1> QED
  BY <1>2, <1>3, <1>4, LinesInvInit DEF FlushesInv

LEMMA FlushesInvStep == FlushesInv /\ [SockNext]_sockvars => FlushesInv'
<1> SUFFICES ASSUME FlushesInv, [SockNext]_sockvars PROVE FlushesInv'
  OBVIOUS
<1> USE DEF FlushesInv
<1>0. SockInv /\ SentInv /\ WireInv /\ LinesInv'
  BY LinesInvStep DEF LinesInv
<1>1. CASE SockNext
  <2>1. Services \/ SockThread \/ \E how \in {"fin", "error"} : PeerEnds(how)
    BY <1>1 DEF SockNext
  <2>2. EndInv' /\ OrderInv'
    BY <1>0, <2>1, EndServices, EndThread, OrderServices, OrderThread
  <2>3. FlushInv'
    BY <1>0, <2>1, FlushServices, FlushThread
  <2> QED
    BY <1>0, <2>2, <2>3
<1>2. CASE UNCHANGED sockvars
  <2>1. UNCHANGED <<slot, pipe, loop, ev, api, told, peer, wire, sent, over, owed>>
    BY <1>2 DEF sockvars, hist
  <2>2. EndInv' /\ OrderInv'
    BY <2>1 DEF EndInv, OrderInv, Broken, InUse, Something
  <2>3. FlushInv'
    <3>1. \A m \in Item : InPipe(m)' <=> InPipe(m)
      BY <2>1 DEF InPipe
    <3>2. \A v \in Sender : CallKept(v)
      BY <2>1 DEF CallKept
    <3>3. IdsInv /\ (InUse' <=> InUse)
      BY <1>0, <2>1 DEF SockInv, InUse
    <3>4. owed' \subseteq owed
      BY <2>1
    <3> QED
      BY <2>1, <3>1, <3>2, <3>3, <3>4, FlushQuiet
  <2> QED
    BY <1>0, <2>2, <2>3
<1> QED
  BY <1>1, <1>2

(* close_socket keeps a socket with something left to send until it is     *)
(* sent, whether it waits in the pipe, in a list or in what a direct write *)
(* left: the order in the pipe and the count of requests see to it.        *)
THEOREM FlushedWhenClosed == SockSpec => []CloseFlushes
<1>1. ASSUME FlushesInv PROVE CloseFlushes
  <2> SUFFICES ASSUME slot.type = "INVALID", NEW m \in owed
               PROVE  Cardinality({i \in DOMAIN wire : wire[i] = m}) = 2
    BY DEF CloseFlushes
  <2>1. wire \in Seq(Item) /\ m \in Item
    BY <1>1 DEF FlushesInv, LinesInv, SockInv, SockTypeOK
  <2>2. Twice(wire, m)
    BY <1>1, <2>1 DEF FlushesInv, FlushInv, Placed
  <2> QED
    BY <2>1, <2>2, TwiceCounts
<1> QED
  BY <1>1, FlushesInvInit, FlushesInvStep, PTL DEF SockSpec
=============================================================================
