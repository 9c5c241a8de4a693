---------------------------- MODULE SkynetTimer ----------------------------
(***************************************************************************)
(* The timing wheel of skynet (02_skynet, skynet_timer.c).  Time is an     *)
(* unsigned number of NearShift + 4 * LevelShift bits that wraps; a timer  *)
(* that is due in the present near block is in near, any other in a list   *)
(* of the level of the highest digit in which it differs from the time.    *)
(*                                                                         *)
(* Services add timers whenever the timer thread does not hold the lock,   *)
(* which it gives up to dispatch what is due.                              *)
(***************************************************************************)
EXTENDS Integers, FiniteSets, SequencesExt

CONSTANTS
  NearShift, LevelShift,  \* 8 and 6 in the code
  Timer,                  \* timer nodes, used again once they have fired
  MaxDelay,               \* bound: the delays asked for
  MaxDiff                 \* bound: the ticks one skynet_updatetime catches up

Near    == 2^NearShift
Level   == 2^LevelShift
Modulus == Near * Level^4

(* The argument of timer_add is a positive int, half the range of the time. *)
ASSUME DelayAssumption ==
  /\ NearShift \in Nat /\ LevelShift \in Nat
  /\ MaxDelay \in Nat /\ MaxDelay < Modulus \div 2 /\ MaxDiff \in Nat

VARIABLES
  near, wheel,      \* T->near and T->t: lists of nodes
  time,             \* T->time
  expire,           \* of each node
  updating,              \* the timer thread: idle, or in timer_update before,
                    \* at or after the shift
  ticks,            \* calls of timer_update still to make
  dispatching,      \* the list it dispatches without the lock
  left,              \* history: ticks until each pending node must fire
  added             \* history: pending nodes in the order they were added

twheel == <<near, wheel, time, expire>>
timervars  == <<twheel, updating, ticks, dispatching, left, added>>

Pending == Range(added)

TimerTypeOK ==
  /\ near \in [0 .. Near - 1 -> Seq(Timer)]
  /\ wheel \in [0 .. 3 -> [0 .. Level - 1 -> Seq(Timer)]]
  /\ time \in 0 .. Modulus - 1
  /\ expire \in [Timer -> 0 .. Modulus - 1]
  /\ updating \in {"idle", "before", "shift", "after"}
  /\ ticks \in 0 .. MaxDiff
  /\ dispatching \in Seq(Timer)
  /\ left \in [Timer -> Int]
  /\ added \in Seq(Timer)

TimerInit ==
  /\ near = [i \in 0 .. Near - 1 |-> << >>]
  /\ wheel = [l \in 0 .. 3 |-> [i \in 0 .. Level - 1 |-> << >>]]
  /\ time = 0
  /\ expire = [k \in Timer |-> 0]
  /\ updating = "idle" /\ ticks = 0
  /\ dispatching = << >>
  /\ left = [k \in Timer |-> 0]
  /\ added = << >>

-----------------------------------------------------------------------------
(* The low bits in which two times may differ to be in one block of level l; *)
(* a near block is a block of level -1.                                      *)
Block(l)       == Near * Level^(l + 1)
SameBlock(l, a, b) == a \div Block(l) = b \div Block(l)
Digit(l, a)    == (a \div Block(l - 1)) % Level

(* Mutant: the mask starts one level too high. *)
LevelOfHigh(e, now) ==
  CHOOSE l \in 0 .. 3 : /\ l = 3 \/ (l > 0 /\ SameBlock(l, e, now))
                        /\ \A k \in 1 .. l - 1 : ~SameBlock(k, e, now)

(* The level add_node finds for e. *)
LevelOf(e, now) ==
  CHOOSE l \in 0 .. 3 : /\ l = 3 \/ SameBlock(l, e, now)
                        /\ \A k \in 0 .. l - 1 : ~SameBlock(k, e, now)

InNear(e, now) == SameBlock(-1, e, now)

(* add_node for each of ks in turn, in lists n and w. *)
AddNodes(n, w, e, now, ks) ==
  LET ToNear(i)     == SelectSeq(ks, LAMBDA k : InNear(e[k], now) /\ e[k] % Near = i)
      ToWheel(l, i) == SelectSeq(ks, LAMBDA k : /\ ~InNear(e[k], now)
                                                /\ LevelOf(e[k], now) = l
                                                /\ Digit(l, e[k]) = i)
  IN /\ near' = [i \in DOMAIN n |-> n[i] \o ToNear(i)]
     /\ wheel' = [l \in DOMAIN w |-> [i \in DOMAIN w[l] |-> w[l][i] \o ToWheel(l, i)]]

(* skynet_timeout of a positive delay: timer_add, which needs the lock. *)
TimerAdd(k, delay) ==
  /\ updating = "idle" \/ dispatching # << >>
  /\ k \notin Pending
  /\ expire' = [expire EXCEPT ![k] = (time + delay) % Modulus]
  /\ AddNodes(near, wheel, expire', time, <<k>>)
  /\ left' = [left EXCEPT ![k] = delay]
  /\ added' = Append(added, k)
  /\ UNCHANGED <<time, updating, ticks, dispatching>>

(* skynet_updatetime: what the clock has gone on since the last call. *)
UpdateTime(diff) ==
  /\ updating = "idle" /\ ticks = 0
  /\ ticks' = diff
  /\ UNCHANGED <<twheel, updating, dispatching, left, added>>

(* timer_update takes the lock. *)
TimerUpdate ==
  /\ updating = "idle" /\ ticks > 0
  /\ updating' = "before"
  /\ ticks' = ticks - 1
  /\ UNCHANGED <<twheel, dispatching, left, added>>

(* timer_execute, before and after the shift: the list of this tick is     *)
(* taken, to be dispatched without the lock, until there is none.          *)
TimerExecute ==
  /\ updating \in {"before", "after"} /\ dispatching = << >>
  /\ LET i == time % Near IN
     \/ /\ near[i] = << >>
        /\ updating' = IF updating = "before" THEN "shift" ELSE "idle"
        /\ UNCHANGED <<near, dispatching>>
     \/ /\ near[i] # << >>
        /\ dispatching' = near[i]
        /\ near' = [near EXCEPT ![i] = << >>]
        /\ UNCHANGED updating
  /\ UNCHANGED <<wheel, time, expire, ticks, left, added>>

(* dispatch_list: the next event goes to its service, the node is freed. *)
TimerDispatch ==
  /\ dispatching # << >>
  /\ LET k == Head(dispatching) IN
       /\ dispatching' = Tail(dispatching)
       /\ expire' = [expire EXCEPT ![k] = 0]
       /\ left' = [left EXCEPT ![k] = 0]
       /\ added' = Remove(added, k)
  /\ UNCHANGED <<near, wheel, time, updating, ticks>>

(* move_list, at the time now. *)
MoveList(l, i, now) ==
  AddNodes(near, [wheel EXCEPT ![l][i] = << >>], expire, now, wheel[l][i])

(* Mutant: the search for the level that begins a block stops at the first.*)
ShiftFirstLevel ==
  /\ updating = "shift"
  /\ time' = (time + 1) % Modulus
  /\ IF time' = 0 THEN MoveList(3, 0, time')
     ELSE IF time' % Near # 0 THEN UNCHANGED <<near, wheel>>
     ELSE MoveList(0, Digit(0, time'), time')
  /\ left' = [k \in Timer |-> IF k \in Pending THEN left[k] - 1 ELSE left[k]]
  /\ updating' = "after"
  /\ UNCHANGED <<expire, ticks, dispatching, added>>

(* timer_shift: when a block begins, the list that holds its nodes is      *)
(* spread over the lower levels.                                           *)
TimerShift ==
  /\ updating = "shift"
  /\ time' = (time + 1) % Modulus
  /\ IF time' = 0 THEN MoveList(3, 0, time')
     ELSE IF time' % Near # 0 THEN UNCHANGED <<near, wheel>>
     ELSE LET l == CHOOSE l \in 0 .. 3 : /\ Digit(l, time') # 0
                                         /\ \A k \in 0 .. l - 1 : Digit(k, time') = 0
          IN MoveList(l, Digit(l, time'), time')
  /\ left' = [k \in Timer |-> IF k \in Pending THEN left[k] - 1 ELSE left[k]]
  /\ updating' = "after"
  /\ UNCHANGED <<expire, ticks, dispatching, added>>

TimerNext ==
  \/ \E k \in Timer, delay \in 1 .. MaxDelay : TimerAdd(k, delay)
  \/ \E diff \in 1 .. MaxDiff : UpdateTime(diff)
  \/ TimerUpdate \/ TimerExecute \/ TimerDispatch \/ TimerShift

TimerSpec == TimerInit /\ [][TimerNext]_timervars

-----------------------------------------------------------------------------
(* Properties. *)

(* A timer fires at its tick, neither early nor late nor never, over every *)
(* wrap of the time; and there is nothing to dispatch before the shift     *)
(* (timer_update: "rare condition").                                       *)
FiresOnTime ==
  \A k \in Pending : /\ left[k] = 0 => updating = "after"
                     /\ left[k] >= 0
                     /\ k \in Range(dispatching) => left[k] = 0

(* Timers of one tick fire in the order in which they were added, though   *)
(* the earlier ones come down through the levels and the later ones may    *)
(* enter near at once (link, move_list).                                   *)
SameTickInOrder ==
  \A i, j \in DOMAIN added :
    i < j /\ left[added[i]] = left[added[j]] =>
      \A list \in {dispatching} \cup Range(near) \cup UNION {Range(wheel[l]) : l \in 0 .. 3} :
        \A m \in DOMAIN list : list[m] = added[j] =>
          added[i] \in Range(dispatching) \cup Range(SubSeq(list, 1, m))
=============================================================================
