------------------------- MODULE SkynetQueueProofs -------------------------
(***************************************************************************)
(* Proofs about SkynetQueue, for any number of workers, services and       *)
(* messages, and any weights.                                              *)
(***************************************************************************)
EXTENDS SkynetQueue, FiniteSetTheorems, SequenceTheorems, TLAPS

-----------------------------------------------------------------------------
(* Counting frames *)

(* A frame is about a service, or about none where the thread is between   *)
(* two of them; it has a message while it is pushed or handled.            *)
Resting == {"Pop", "Sleep", "Wait", "Outside", "Stopped"}
Good == {f \in Frame : /\ f.svc \in Sid <=> f.at \notin Resting
                       /\ f.msg \in Mail <=> f.at \in {"Push", "Callback"}}

Counts(f, s, P) == f.svc = s /\ f.at \in P
N(f, s, P) == IF Counts(f, s, P) THEN 1 ELSE 0
Spots(st) == UNION {{t} \X DOMAIN st[t] : t \in Thread}
Frames(st, s, P) == {ti \in Spots(st) : Counts(st[ti[1]][ti[2]], s, P)}
Cnt(st, s, P) == Cardinality(Frames(st, s, P))
Stacks == [Thread -> Seq(Good)]
Over(f, t, st) == [st EXCEPT ![t] = <<f>> \o st[t]]
Under(t, st) == [st EXCEPT ![t] = Tail(st[t])]

LEMMA FramesMean ==
  /\ \A s, P : FramesAt(s, P) = Cnt(stack, s, P)
  /\ \A s, P : FramesAt(s, P)' = Cnt(stack', s, P)
BY DEF FramesAt, Cnt, Frames, Spots, Counts

LEMMA FrameIn ==
  ASSUME NEW st, NEW s, NEW P, NEW t, NEW i
  PROVE  <<t, i>> \in Frames(st, s, P) <=>
           t \in Thread /\ i \in DOMAIN st[t] /\ Counts(st[t][i], s, P)
<1>1. <<t, i>> \in Spots(st) <=> t \in Thread /\ i \in DOMAIN st[t]
  BY DEF Spots
<1> QED
  BY <1>1 DEF Frames

LEMMA FramePairs ==
  ASSUME NEW st, NEW s, NEW P, NEW x \in Frames(st, s, P)
  PROVE  /\ x[1] \in Thread /\ x[2] \in DOMAIN st[x[1]] /\ x = <<x[1], x[2]>>
         /\ Counts(st[x[1]][x[2]], s, P)
<1>1. x \in Spots(st) /\ Counts(st[x[1]][x[2]], s, P)
  BY DEF Frames
<1>2. PICK t \in Thread : x \in {t} \X DOMAIN st[t]
  BY <1>1 DEF Spots
<1> QED
  BY <1>1, <1>2

LEMMA FramesFinite ==
  ASSUME NEW st \in Stacks, NEW s, NEW P
  PROVE  IsFiniteSet(Frames(st, s, P)) /\ Cnt(st, s, P) \in Nat
<1> DEFINE X == [t \in Thread |-> {t} \X DOMAIN st[t]]
           Y == {{t} \X DOMAIN st[t] : t \in Thread}
<1>1. IsFiniteSet(Thread)
  BY WorkerAssumption, FS_AddElement DEF Thread
<1>2. X \in Surjection(Thread, Y)
  BY DEF Surjection
<1>3. IsFiniteSet(Y)
  <2> HIDE DEF X, Y
  <2> QED
    BY <1>1, <1>2, FS_Surjection
<1>4. ASSUME NEW t \in Thread PROVE IsFiniteSet({t} \X DOMAIN st[t])
  <2>1. st[t] \in Seq(Good)
    BY DEF Stacks
  <2>2. DOMAIN st[t] = 1 .. Len(st[t]) /\ Len(st[t]) \in Nat
    BY <2>1, LenProperties
  <2>3. 1 \in Int /\ Len(st[t]) \in Int
    BY <2>2
  <2>4. IsFiniteSet(DOMAIN st[t])
    BY <2>2, <2>3, FS_Interval
  <2>5. IsFiniteSet({t})
    BY FS_Singleton
  <2> QED
    BY <2>4, <2>5, FS_Product
<1>5. \A T \in Y : IsFiniteSet(T)
  BY <1>4
<1>6. IsFiniteSet(UNION Y)
  <2> HIDE DEF Y
  <2> QED
    BY <1>3, <1>5, FS_UNION
<1>7. Frames(st, s, P) \in SUBSET UNION Y
  BY DEF Frames, Spots
<1> HIDE DEF Y
<1> QED
  BY <1>6, <1>7, FS_Subset, FS_CardinalityType DEF Cnt

(* One more frame on top. *)
LEMMA OneMore ==
  ASSUME NEW st \in Stacks, NEW t \in Thread, NEW f \in Good, NEW s, NEW P
  PROVE  /\ Over(f, t, st) \in Stacks
         /\ Cnt(Over(f, t, st), s, P) = Cnt(st, s, P) + N(f, s, P)
<1> DEFINE new == [st EXCEPT ![t] = <<f>> \o st[t]]
           A   == Frames(st, s, P)
           B   == Frames(new, s, P)
           g   == [x \in A |-> IF x[1] = t THEN <<t, x[2] + 1>> ELSE x]
<1>1. /\ st[t] \in Seq(Good) /\ <<f>> \in Seq(Good)
      /\ Len(<<f>>) = 1 /\ <<f>>[1] = f
  BY DEF Stacks
<1>2. /\ new[t] = <<f>> \o st[t] /\ \A u \in Thread : u # t => new[u] = st[u]
      /\ DOMAIN new = Thread
  BY DEF Stacks
<1>3. /\ <<f>> \o st[t] \in Seq(Good) /\ Len(<<f>> \o st[t]) = Len(st[t]) + 1
      /\ Len(st[t]) \in Nat
      /\ (<<f>> \o st[t])[1] = f
      /\ \A i \in 1 .. Len(st[t]) : (<<f>> \o st[t])[i + 1] = st[t][i]
      /\ DOMAIN (<<f>> \o st[t]) = 1 .. Len(st[t]) + 1
      /\ DOMAIN st[t] = 1 .. Len(st[t])
  <2>1. /\ <<f>> \o st[t] \in Seq(Good) /\ Len(<<f>> \o st[t]) = 1 + Len(st[t])
        /\ \A i \in 1 .. 1 + Len(st[t]) :
             (<<f>> \o st[t])[i] = IF i <= 1 THEN <<f>>[i] ELSE st[t][i - 1]
        /\ Len(st[t]) \in Nat
    BY <1>1, ConcatProperties, LenProperties
  <2>2. DOMAIN (<<f>> \o st[t]) = 1 .. Len(<<f>> \o st[t]) /\ DOMAIN st[t] = 1 .. Len(st[t])
    BY <1>1, <2>1, LenProperties
  <2>3. \A i \in 1 .. Len(st[t]) : i + 1 \in 1 .. 1 + Len(st[t]) /\ ~(i + 1 <= 1) /\ (i + 1) - 1 = i
    BY <2>1
  <2>4. 1 \in 1 .. 1 + Len(st[t])
    BY <2>1
  <2> QED
    BY <1>1, <2>1, <2>2, <2>3, <2>4
<1>4. new \in Stacks
  <2>1. \A u \in Thread : new[u] \in Seq(Good)
    BY <1>2, <1>3 DEF Stacks
  <2> QED
    BY <1>2, <2>1 DEF Stacks
<1> HIDE DEF new
<1>5. \A x \in A : g[x] \in B \ {<<t, 1>>}
  <2> SUFFICES ASSUME NEW x \in A PROVE g[x] \in B \ {<<t, 1>>}
    OBVIOUS
  <2>1. x[1] \in Thread /\ x[2] \in DOMAIN st[x[1]] /\ x = <<x[1], x[2]>> /\ Counts(st[x[1]][x[2]], s, P)
    BY FramePairs
  <2>2. CASE x[1] = t
    <3>1. g[x] = <<t, x[2] + 1>> /\ x[2] \in 1 .. Len(st[t])
      BY <1>3, <2>1, <2>2
    <3>2. x[2] + 1 \in DOMAIN new[t] /\ new[t][x[2] + 1] = st[t][x[2]] /\ x[2] + 1 # 1
      BY <1>2, <1>3, <3>1
    <3>3. <<t, x[2] + 1>> \in B
      BY <2>1, <2>2, <3>2, FrameIn
    <3> QED
      BY <3>1, <3>2, <3>3
  <2>3. CASE x[1] # t
    <3>1. g[x] = x /\ new[x[1]] = st[x[1]]
      BY <1>2, <2>1, <2>3
    <3>2. <<x[1], x[2]>> \in B
      BY <2>1, <3>1, FrameIn
    <3> QED
      BY <2>1, <2>3, <3>1, <3>2
  <2> QED
    BY <2>2, <2>3
<1>6. \A x, y \in A : g[x] = g[y] => x = y
  <2> SUFFICES ASSUME NEW x \in A, NEW y \in A, g[x] = g[y] PROVE x = y
    OBVIOUS
  <2>1. /\ x = <<x[1], x[2]>> /\ y = <<y[1], y[2]>>
        /\ x[1] = t => x[2] \in 1 .. Len(st[t])
        /\ y[1] = t => y[2] \in 1 .. Len(st[t])
    BY <1>3, FramePairs
  <2>2. /\ g[x] = IF x[1] = t THEN <<t, x[2] + 1>> ELSE x
        /\ g[y] = IF y[1] = t THEN <<t, y[2] + 1>> ELSE y
    OBVIOUS
  <2>3. CASE x[1] = t /\ y[1] = t
    <3>1. x[2] + 1 = y[2] + 1
      BY <2>2, <2>3
    <3>2. x[2] = y[2]
      BY <1>3, <2>1, <2>3, <3>1
    <3> QED
      BY <2>1, <2>3, <3>2
  <2>4. CASE x[1] # t /\ y[1] # t
    BY <2>2, <2>4
  <2>5. CASE x[1] = t /\ y[1] # t
    BY <2>2, <2>5
  <2>6. CASE x[1] # t /\ y[1] = t
    BY <2>2, <2>6
  <2> QED
    BY <2>3, <2>4, <2>5, <2>6
<1>7. \A y \in B \ {<<t, 1>>} : \E x \in A : g[x] = y
  <2> SUFFICES ASSUME NEW y \in B, y # <<t, 1>> PROVE \E x \in A : g[x] = y
    OBVIOUS
  <2>1. y[1] \in Thread /\ y[2] \in DOMAIN new[y[1]] /\ y = <<y[1], y[2]>> /\ Counts(new[y[1]][y[2]], s, P)
    BY FramePairs
  <2>2. CASE y[1] = t
    <3>1. y[2] \in 1 .. Len(st[t]) + 1 /\ y[2] # 1
      BY <1>2, <1>3, <2>1, <2>2
    <3>2. y[2] - 1 \in 1 .. Len(st[t]) /\ (y[2] - 1) + 1 = y[2]
      BY <1>3, <3>1
    <3>3. new[t][y[2]] = st[t][y[2] - 1]
      BY <1>2, <1>3, <3>2
    <3>4. <<t, y[2] - 1>> \in A
      BY <1>3, <2>1, <2>2, <3>2, <3>3, FrameIn
    <3>5. g[<<t, y[2] - 1>>] = <<t, (y[2] - 1) + 1>>
      BY <3>4
    <3> QED
      BY <2>1, <2>2, <3>2, <3>4, <3>5
  <2>3. CASE y[1] # t
    <3>1. <<y[1], y[2]>> \in A
      BY <1>2, <2>1, <2>3, FrameIn
    <3> QED
      BY <2>1, <2>3, <3>1
  <2> QED
    BY <2>2, <2>3
<1>8. ExistsBijection(A, B \ {<<t, 1>>})
  <2>1. g \in [A -> B \ {<<t, 1>>}]
    <3>1. g \in [A -> {g[x] : x \in A}]
      OBVIOUS
    <3> QED
      BY <1>5
  <2> HIDE DEF g
  <2>2. g \in Bijection(A, B \ {<<t, 1>>})
    BY <1>6, <1>7, <2>1 DEF Bijection, Injection, Surjection, IsInjective
  <2> QED
    BY <2>2 DEF ExistsBijection
<1>9. (<<t, 1>> \in B) <=> Counts(f, s, P)
  <2>1. 1 \in DOMAIN new[t] /\ new[t][1] = f
    BY <1>2, <1>3
  <2> QED
    BY <2>1, FrameIn
<1>10. IsFiniteSet(A) /\ IsFiniteSet(B) /\ Cardinality(B) \in Nat
  BY <1>4, FramesFinite DEF Cnt
<1> HIDE DEF A, B
<1>11. Cardinality(B \ {<<t, 1>>}) = Cardinality(A)
  BY <1>8, <1>10, FS_Bijection
<1>12. Cardinality(B \ {<<t, 1>>}) = IF <<t, 1>> \in B THEN Cardinality(B) - 1 ELSE Cardinality(B)
  BY <1>10, FS_RemoveElement
<1>13. Cardinality(B) = Cardinality(A) + N(f, s, P)
  BY <1>9, <1>10, <1>11, <1>12 DEF N
<1> QED
  BY <1>4, <1>13 DEF A, B, new, Cnt, Over

(* Frames that are at points of P and those at points of Q. *)
LEMMA CntSum ==
  ASSUME NEW st \in Stacks, NEW s, NEW P, NEW Q, P \cap Q = {}
  PROVE  Cnt(st, s, P \cup Q) = Cnt(st, s, P) + Cnt(st, s, Q)
<1>1. Frames(st, s, P \cup Q) = Frames(st, s, P) \cup Frames(st, s, Q)
  BY DEF Frames, Counts
<1>2. Frames(st, s, P) \cap Frames(st, s, Q) = {}
  BY DEF Frames, Counts
<1>3. /\ IsFiniteSet(Frames(st, s, P)) /\ Cnt(st, s, P) \in Nat
      /\ IsFiniteSet(Frames(st, s, Q)) /\ Cnt(st, s, Q) \in Nat
  BY FramesFinite
<1> DEFINE A == Frames(st, s, P)
           B == Frames(st, s, Q)
<1>4. Cnt(st, s, P) = Cardinality(A) /\ Cnt(st, s, Q) = Cardinality(B)
      /\ Cnt(st, s, P \cup Q) = Cardinality(A \cup B)
  BY <1>1 DEF Cnt
<1> HIDE DEF A, B
<1>5. A \cap B = {} /\ IsFiniteSet(A) /\ IsFiniteSet(B)
  BY <1>2, <1>3 DEF A, B
<1>6. Cardinality(A \cup B) = Cardinality(A) + Cardinality(B) - Cardinality(A \cap B)
  BY <1>5, FS_Union
<1>7. Cardinality(A \cap B) = 0
  BY <1>5, FS_EmptySet
<1> QED
  BY <1>3, <1>4, <1>6, <1>7

LEMMA CntSub ==
  ASSUME NEW st \in Stacks, NEW s, NEW P, NEW Q, P \subseteq Q
  PROVE  Cnt(st, s, P) <= Cnt(st, s, Q)
<1>1. Frames(st, s, P) \in SUBSET Frames(st, s, Q)
  BY DEF Frames, Counts
<1> QED
  BY <1>1, FramesFinite, FS_Subset DEF Cnt

(* A frame that counts is counted. *)
LEMMA CntIn ==
  ASSUME NEW st \in Stacks, NEW s, NEW P, NEW t \in Thread, NEW i \in DOMAIN st[t],
         Counts(st[t][i], s, P)
  PROVE  Cnt(st, s, P) > 0
<1>1. <<t, i>> \in Frames(st, s, P)
  BY FrameIn
<1>2. Frames(st, s, P) # {} /\ IsFiniteSet(Frames(st, s, P)) /\ Cnt(st, s, P) \in Nat
  BY <1>1, FramesFinite
<1>3. Cnt(st, s, P) # 0
  BY <1>2, FS_EmptySet DEF Cnt
<1> QED
  BY <1>2, <1>3

LEMMA CntTop ==
  ASSUME stack \in Stacks, NEW t \in Thread, stack[t] # << >>, NEW P, Top(t).at \in P
  PROVE  Cnt(stack, Top(t).svc, P) > 0
<1>1. stack[t] \in Seq(Good)
  BY DEF Stacks
<1>2. 1 \in DOMAIN stack[t] /\ Top(t) = stack[t][1]
  BY <1>1, EmptySeq, LenProperties DEF Top
<1> QED
  BY <1>2, CntIn DEF Counts

-----------------------------------------------------------------------------
(* What Becomes does to the stacks *)

LEMMA NisNat == \A f, s, P : N(f, s, P) \in {0, 1}
BY DEF N

LEMMA TopAndRest ==
  ASSUME NEW q \in Seq(Good), q # << >>
  PROVE  Head(q) \in Good /\ Tail(q) \in Seq(Good) /\ <<Head(q)>> \o Tail(q) = q
<1>1. /\ Head(q) \in Good /\ Tail(q) \in Seq(Good) /\ Len(q) \in Nat \ {0}
      /\ Len(Tail(q)) = Len(q) - 1 /\ Head(q) = q[1]
      /\ \A i \in 1 .. Len(q) - 1 : Tail(q)[i] = q[i + 1]
  BY HeadTailProperties, LenProperties, EmptySeq
<1> DEFINE h == <<Head(q)>>
<1>2. h \in Seq(Good) /\ Len(h) = 1 /\ h[1] = Head(q)
  BY <1>1
<1> HIDE DEF h
<1>3. /\ h \o Tail(q) \in Seq(Good)
      /\ Len(h \o Tail(q)) = Len(h) + Len(Tail(q))
      /\ \A i \in 1 .. Len(h) + Len(Tail(q)) :
           (h \o Tail(q))[i] = IF i <= Len(h) THEN h[i] ELSE Tail(q)[i - Len(h)]
  BY <1>1, <1>2, ConcatProperties
<1>4. Len(h \o Tail(q)) = Len(q)
  BY <1>1, <1>2, <1>3
<1>5. ASSUME NEW i \in 1 .. Len(q) PROVE (h \o Tail(q))[i] = q[i]
  <2>1. CASE i = 1
    BY <1>1, <1>2, <1>3, <2>1
  <2>2. CASE i # 1
    <3>1. i - 1 \in 1 .. Len(q) - 1 /\ (i - 1) + 1 = i /\ ~(i <= 1)
      BY <1>1, <2>2
    <3> QED
      BY <1>1, <1>2, <1>3, <3>1
  <2> QED
    BY <2>1, <2>2
<1>6. h \o Tail(q) = q
  BY <1>3, <1>4, <1>5, SeqEqual
<1> QED
  BY <1>1, <1>6 DEF h

(* Without its top frame. *)
LEMMA OneLess ==
  ASSUME NEW st \in Stacks, NEW t \in Thread, st[t] # << >>, NEW s, NEW P
  PROVE  /\ Under(t, st) \in Stacks
         /\ Cnt(Under(t, st), s, P) = Cnt(st, s, P) - N(Head(st[t]), s, P)
<1> DEFINE low == [st EXCEPT ![t] = Tail(st[t])]
<1>1. st[t] \in Seq(Good)
  BY DEF Stacks
<1>2. Head(st[t]) \in Good /\ Tail(st[t]) \in Seq(Good) /\ <<Head(st[t])>> \o Tail(st[t]) = st[t]
  BY <1>1, TopAndRest
<1>3. low \in Stacks /\ low[t] = Tail(st[t])
  BY <1>2 DEF Stacks
<1>4. Over(Head(st[t]), t, low) = st
  <2>1. [low EXCEPT ![t] = st[t]] = st
    BY DEF Stacks
  <2> QED
    BY <1>2, <1>3, <2>1 DEF Over
<1> HIDE DEF low
<1>5. Cnt(st, s, P) = Cnt(low, s, P) + N(Head(st[t]), s, P)
  <2>1. Cnt(Over(Head(st[t]), t, low), s, P) = Cnt(low, s, P) + N(Head(st[t]), s, P)
    BY <1>2, <1>3, OneMore
  <2> QED
    BY <1>4, <2>1
<1>6. Cnt(st, s, P) \in Nat /\ Cnt(low, s, P) \in Nat /\ N(Head(st[t]), s, P) \in {0, 1}
  BY <1>3, FramesFinite, NisNat
<1>7. Cnt(low, s, P) = Cnt(st, s, P) - N(Head(st[t]), s, P)
  BY <1>5, <1>6
<1> QED
  BY <1>3, <1>7 DEF low, Under

LEMMA PairCat ==
  ASSUME NEW f \in Good, NEW g \in Good
  PROVE  <<f, g>> = <<f>> \o <<g>>
<1> DEFINE a == <<f>>
           b == <<g>>
           c == <<f, g>>
<1>1. /\ a \in Seq(Good) /\ Len(a) = 1 /\ a[1] = f
      /\ b \in Seq(Good) /\ Len(b) = 1 /\ b[1] = g
      /\ c \in Seq(Good) /\ Len(c) = 2 /\ c[1] = f /\ c[2] = g
  OBVIOUS
<1> HIDE DEF a, b, c
<1>2. a \o b \in Seq(Good) /\ Len(a \o b) = 1 + 1
      /\ \A i \in 1 .. 1 + 1 : (a \o b)[i] = IF i <= 1 THEN a[i] ELSE b[i - 1]
  BY <1>1, ConcatProperties
<1>3. Len(a \o b) = Len(c) /\ (a \o b)[1] = c[1] /\ (a \o b)[2] = c[2]
  BY <1>1, <1>2
<1>4. \A i \in 1 .. Len(c) : c[i] = (a \o b)[i]
  BY <1>1, <1>3
<1>5. c = a \o b
  BY <1>1, <1>2, <1>3, <1>4, SeqEqual
<1> QED
  BY <1>5 DEF a, b, c

LEMMA Two ==
  ASSUME NEW q \in Seq(Good), NEW f \in Good, NEW g \in Good
  PROVE  <<f, g>> \o q = <<f>> \o (<<g>> \o q)
<1>1. <<f>> \in Seq(Good) /\ <<g>> \in Seq(Good)
  OBVIOUS
<1>2. <<f, g>> = <<f>> \o <<g>>
  BY PairCat
<1>3. (<<f>> \o <<g>>) \o q = <<f>> \o (<<g>> \o q)
  BY <1>1, ConcatAssociative
<1> QED
  BY <1>2, <1>3

LEMMA Three ==
  ASSUME NEW q \in Seq(Good), NEW f \in Good, NEW g \in Good, NEW h \in Good
  PROVE  <<f, g, h>> \o q = <<f>> \o (<<g>> \o (<<h>> \o q))
<1>1. <<f>> \in Seq(Good) /\ <<g, h>> \in Seq(Good)
  OBVIOUS
<1>2. <<f, g, h>> = <<f>> \o <<g, h>>
  OBVIOUS
<1>3. (<<f>> \o <<g, h>>) \o q = <<f>> \o (<<g, h>> \o q)
  BY <1>1, ConcatAssociative
<1>4. <<g, h>> \o q = <<g>> \o (<<h>> \o q)
  BY Two
<1> QED
  BY <1>2, <1>3, <1>4

LEMMA OverTwice ==
  ASSUME NEW st \in Stacks, NEW t \in Thread, NEW a, NEW b
  PROVE  /\ [[st EXCEPT ![t] = a] EXCEPT ![t] = b] = [st EXCEPT ![t] = b]
         /\ [st EXCEPT ![t] = a][t] = a
BY DEF Stacks

(* The frames of a thread after Becomes, one by one. *)
LEMMA BecomesIs ==
  ASSUME stack \in Stacks, NEW t \in Thread, stack[t] # << >>,
         NEW f \in Good, NEW g \in Good, NEW h \in Good
  PROVE  /\ Becomes(t, << >>) => stack' = Under(t, stack)
         /\ Becomes(t, <<f>>) => stack' = Over(f, t, Under(t, stack))
         /\ Becomes(t, <<f, g>>) => stack' = Over(f, t, Over(g, t, Under(t, stack)))
         /\ Becomes(t, <<f, g, h>>) => stack' = Over(f, t, Over(g, t, Over(h, t, Under(t, stack))))
<1> DEFINE q  == Tail(stack[t])
           q1 == <<h>> \o q
           q2 == <<g>> \o q1
           q3 == <<g>> \o q
<1>1. stack[t] \in Seq(Good)
  BY DEF Stacks
<1>2. q \in Seq(Good)
  BY <1>1, TopAndRest
<1>3. /\ << >> \o q = q
      /\ <<f, g>> \o q = <<f>> \o q3
      /\ <<f, g, h>> \o q = <<f>> \o q2
  <2> HIDE DEF q
  <2>1. << >> \o q = q
    BY <1>2, ConcatEmptySeq
  <2>2. <<f, g>> \o q = <<f>> \o (<<g>> \o q)
    BY <1>2, Two
  <2>3. <<f, g, h>> \o q = <<f>> \o (<<g>> \o (<<h>> \o q))
    BY <1>2, Three
  <2> QED
    BY <2>1, <2>2, <2>3
<1>4. Under(t, stack) = [stack EXCEPT ![t] = q]
  BY DEF Under
<1>5. \A e : Over(e, t, Under(t, stack)) = [stack EXCEPT ![t] = <<e>> \o q]
  BY <1>4, OverTwice DEF Over
<1>6. ASSUME NEW e, NEW p, NEW st, st = [stack EXCEPT ![t] = p]
      PROVE  Over(e, t, st) = [stack EXCEPT ![t] = <<e>> \o p]
  BY <1>6, OverTwice DEF Over
<1>7. Over(f, t, Over(g, t, Under(t, stack))) = [stack EXCEPT ![t] = <<f>> \o q3]
  BY <1>5, <1>6
<1>8. Over(g, t, Over(h, t, Under(t, stack))) = [stack EXCEPT ![t] = q2]
  BY <1>5, <1>6
<1>9. Over(f, t, Over(g, t, Over(h, t, Under(t, stack)))) = [stack EXCEPT ![t] = <<f>> \o q2]
  BY <1>6, <1>8
<1>10. \A fs : Becomes(t, fs) => stack' = [stack EXCEPT ![t] = fs \o q]
  BY DEF Becomes
<1> QED
  BY <1>3, <1>4, <1>5, <1>7, <1>9, <1>10

(* The frames that count, after Becomes. *)
LEMMA Becomes0 ==
  ASSUME stack \in Stacks, NEW t \in Thread, stack[t] # << >>, Becomes(t, << >>)
  PROVE  /\ stack' \in Stacks
         /\ \A s, P : Cnt(stack', s, P) = Cnt(stack, s, P) - N(Top(t), s, P)
<1>1. PICK f \in Good : TRUE
  <2>1. stack[t] \in Seq(Good)
    BY DEF Stacks
  <2> QED
    BY <2>1, TopAndRest
<1>2. stack' = Under(t, stack)
  BY <1>1, BecomesIs
<1> QED
  BY <1>2, OneLess DEF Top

LEMMA Becomes1 ==
  ASSUME stack \in Stacks, NEW t \in Thread, stack[t] # << >>,
         NEW f \in Good, Becomes(t, <<f>>)
  PROVE  /\ stack' \in Stacks
         /\ \A s, P : Cnt(stack', s, P) = Cnt(stack, s, P) - N(Top(t), s, P) + N(f, s, P)
<1>1. stack' = Over(f, t, Under(t, stack))
  BY BecomesIs
<1>2. /\ Under(t, stack) \in Stacks
      /\ \A s, P : Cnt(Under(t, stack), s, P) = Cnt(stack, s, P) - N(Top(t), s, P)
  BY OneLess DEF Top
<1>3. /\ Over(f, t, Under(t, stack)) \in Stacks
      /\ \A s, P : Cnt(Over(f, t, Under(t, stack)), s, P) = Cnt(Under(t, stack), s, P) + N(f, s, P)
  BY <1>2, OneMore
<1> QED
  BY <1>1, <1>2, <1>3

LEMMA Becomes2 ==
  ASSUME stack \in Stacks, NEW t \in Thread, stack[t] # << >>,
         NEW f \in Good, NEW g \in Good, Becomes(t, <<f, g>>)
  PROVE  /\ stack' \in Stacks
         /\ \A s, P : Cnt(stack', s, P) =
              Cnt(stack, s, P) - N(Top(t), s, P) + N(g, s, P) + N(f, s, P)
<1>1. stack' = Over(f, t, Over(g, t, Under(t, stack)))
  BY BecomesIs
<1>2. /\ Under(t, stack) \in Stacks
      /\ \A s, P : Cnt(Under(t, stack), s, P) = Cnt(stack, s, P) - N(Top(t), s, P)
  BY OneLess DEF Top
<1>3. /\ Over(g, t, Under(t, stack)) \in Stacks
      /\ \A s, P : Cnt(Over(g, t, Under(t, stack)), s, P) = Cnt(Under(t, stack), s, P) + N(g, s, P)
  BY <1>2, OneMore
<1>4. /\ stack' \in Stacks
      /\ \A s, P : Cnt(stack', s, P) = Cnt(Over(g, t, Under(t, stack)), s, P) + N(f, s, P)
  BY <1>1, <1>3, OneMore
<1> QED
  BY <1>2, <1>3, <1>4

LEMMA Becomes3 ==
  ASSUME stack \in Stacks, NEW t \in Thread, stack[t] # << >>,
         NEW f \in Good, NEW g \in Good, NEW h \in Good, Becomes(t, <<f, g, h>>)
  PROVE  /\ stack' \in Stacks
         /\ \A s, P : Cnt(stack', s, P) =
              Cnt(stack, s, P) - N(Top(t), s, P) + N(h, s, P) + N(g, s, P) + N(f, s, P)
<1>1. stack' = Over(f, t, Over(g, t, Over(h, t, Under(t, stack))))
  BY BecomesIs
<1>2. /\ Under(t, stack) \in Stacks
      /\ \A s, P : Cnt(Under(t, stack), s, P) = Cnt(stack, s, P) - N(Top(t), s, P)
  BY OneLess DEF Top
<1>3. /\ Over(h, t, Under(t, stack)) \in Stacks
      /\ \A s, P : Cnt(Over(h, t, Under(t, stack)), s, P) = Cnt(Under(t, stack), s, P) + N(h, s, P)
  BY <1>2, OneMore
<1>4. /\ Over(g, t, Over(h, t, Under(t, stack))) \in Stacks
      /\ \A s, P : Cnt(Over(g, t, Over(h, t, Under(t, stack))), s, P) =
                     Cnt(Over(h, t, Under(t, stack)), s, P) + N(g, s, P)
  BY <1>3, OneMore
<1>5. /\ stack' \in Stacks
      /\ \A s, P : Cnt(stack', s, P) = Cnt(Over(g, t, Over(h, t, Under(t, stack))), s, P) + N(f, s, P)
  BY <1>1, <1>4, OneMore
<1> QED
  BY <1>2, <1>3, <1>4, <1>5

(* A call leaves the frame of its caller in place, below the new one. *)
LEMMA CallIs ==
  ASSUME stack \in Stacks, NEW t \in Thread, stack[t] # << >>,
         NEW f \in Good, Call(t, <<f>>)
  PROVE  Top(t) \in Good /\ Becomes(t, <<f, Top(t)>>)
<1>1. stack[t] \in Seq(Good)
  BY DEF Stacks
<1>2. /\ Top(t) \in Good /\ Tail(stack[t]) \in Seq(Good)
      /\ <<Top(t)>> \o Tail(stack[t]) = stack[t]
  BY <1>1, TopAndRest DEF Top
<1>3. <<f, Top(t)>> \o Tail(stack[t]) = <<f>> \o (<<Top(t)>> \o Tail(stack[t]))
  BY <1>2, Two
<1>4. stack' = [stack EXCEPT ![t] = <<f>> \o stack[t]]
  BY DEF Call
<1> QED
  BY <1>2, <1>3, <1>4 DEF Becomes

-----------------------------------------------------------------------------
(* The shape of a stack *)

(* Where a thread is when it has called nothing, and what the threads      *)
(* outside may run.                                                        *)
Bottom == Resting \cup {"Grab", "PopMsg", "Callback", "NextPop"}
Outer  == {"Outside", "Push", "Release", "Delete"}

StackInv ==
  /\ stack \in Stacks
  /\ \A t \in Thread : stack[t] # << >> /\ stack[t][Len(stack[t])].at \in Bottom
  /\ \A i \in DOMAIN stack[Socket] : stack[Socket][i].at \in Outer

(* A new context is between its launch and its return, a queue that is to  *)
(* be released is that of a service that is no longer found, except while  *)
(* the frame above sees to it.                                             *)
Above(q, i, P) == i > 1 /\ q[i - 1].at \in P /\ q[i - 1].svc = q[i].svc
Fine(q, i, c, r) ==
  /\ q[i].at = "LaunchPush" => c[q[i].svc] # "init" \/ Above(q, i, {"SetInit", "Delete"})
  /\ q[i].at = "MqRelease" => q[i].svc \notin r \/ Above(q, i, {"Retire"})
AdjInv == \A t \in Thread : \A i \in DOMAIN stack[t] : Fine(stack[t], i, ctx, registered)

LEMMA Elements ==
  ASSUME NEW p \in Seq(Good), p # << >>, NEW fs \in Seq(Good)
  PROVE  /\ fs \o Tail(p) \in Seq(Good)
         /\ Len(fs) \in Nat /\ Len(p) \in Nat \ {0} /\ DOMAIN p = 1 .. Len(p)
         /\ DOMAIN fs = 1 .. Len(fs)
         /\ Len(fs \o Tail(p)) = Len(fs) + Len(p) - 1
         /\ DOMAIN (fs \o Tail(p)) = 1 .. Len(fs) + Len(p) - 1
         /\ \A i \in 1 .. Len(fs) : (fs \o Tail(p))[i] = fs[i]
         /\ \A i \in 2 .. Len(p) : (fs \o Tail(p))[Len(fs) + i - 1] = p[i]
<1>1. /\ Tail(p) \in Seq(Good) /\ Len(p) \in Nat \ {0}
      /\ Len(Tail(p)) = Len(p) - 1
      /\ \A i \in 1 .. Len(p) - 1 : Tail(p)[i] = p[i + 1]
      /\ DOMAIN p = 1 .. Len(p) /\ DOMAIN fs = 1 .. Len(fs) /\ Len(fs) \in Nat
  BY HeadTailProperties, LenProperties, EmptySeq
<1> DEFINE q == fs \o Tail(p)
<1>2. /\ q \in Seq(Good) /\ Len(q) = Len(fs) + Len(Tail(p))
      /\ \A i \in 1 .. Len(fs) + Len(Tail(p)) :
           q[i] = IF i <= Len(fs) THEN fs[i] ELSE Tail(p)[i - Len(fs)]
  BY <1>1, ConcatProperties
<1>3. DOMAIN q = 1 .. Len(q)
  BY <1>2, LenProperties
<1> HIDE DEF q
<1>4. Len(q) = Len(fs) + Len(p) - 1
  BY <1>1, <1>2
<1>5. ASSUME NEW i \in 1 .. Len(fs) PROVE q[i] = fs[i]
  BY <1>1, <1>2
<1>6. ASSUME NEW i \in 2 .. Len(p) PROVE q[Len(fs) + i - 1] = p[i]
  <2>1. /\ Len(fs) + i - 1 \in 1 .. Len(fs) + Len(Tail(p))
        /\ ~(Len(fs) + i - 1 <= Len(fs))
        /\ (Len(fs) + i - 1) - Len(fs) = i - 1
        /\ i - 1 \in 1 .. Len(p) - 1 /\ (i - 1) + 1 = i
    BY <1>1
  <2>2. q[Len(fs) + i - 1] = Tail(p)[i - 1]
    BY <1>2, <2>1
  <2> QED
    BY <1>1, <2>1, <2>2
<1> QED
  BY <1>1, <1>2, <1>3, <1>4, <1>5, <1>6 DEF q

(* What Becomes leaves in the stacks. *)
LEMMA After ==
  ASSUME stack \in Stacks, NEW t \in Thread, stack[t] # << >>,
         NEW fs \in Seq(Good), Becomes(t, fs)
  PROVE  /\ stack' \in Stacks
         /\ \A u \in Thread : u # t => stack'[u] = stack[u]
         /\ stack'[t] = fs \o Tail(stack[t])
         /\ stack[t] \in Seq(Good) /\ Top(t) = stack[t][1]
<1>1. stack[t] \in Seq(Good)
  BY DEF Stacks
<1>2. fs \o Tail(stack[t]) \in Seq(Good)
  BY <1>1, Elements
<1>3. stack' = [stack EXCEPT ![t] = fs \o Tail(stack[t])]
  BY DEF Becomes
<1> QED
  BY <1>1, <1>2, <1>3 DEF Stacks, Top

LEMMA Where ==
  ASSUME NEW n \in Nat, NEW m \in Nat \ {0}, NEW j \in 1 .. n + m - 1, j > n
  PROVE  (j - n) + 1 \in 2 .. m /\ n + ((j - n) + 1) - 1 = j
OBVIOUS

(* The bottom of a stack stays one, and the socket thread stays outside.   *)
LEMMA Shape ==
  ASSUME StackInv, NEW t \in Thread, NEW fs \in Seq(Good), Becomes(t, fs),
         Top(t).at \in Bottom => fs # << >> /\ fs[Len(fs)].at \in Bottom,
         t = Socket => \A i \in DOMAIN fs : fs[i].at \in Outer
  PROVE  StackInv'
<1>0. /\ stack \in Stacks /\ \A u \in Thread : stack[u] # << >> /\ stack[u][Len(stack[u])].at \in Bottom
      /\ \A i \in DOMAIN stack[Socket] : stack[Socket][i].at \in Outer
  BY DEF StackInv
<1> DEFINE p == stack[t]
           q == fs \o Tail(p)
<1>1. /\ stack' \in Stacks /\ \A u \in Thread : u # t => stack'[u] = stack[u]
      /\ stack'[t] = q /\ p \in Seq(Good) /\ Top(t) = p[1] /\ p # << >>
  BY <1>0, After
<1> HIDE DEF p
<1>2. /\ Len(fs) \in Nat /\ Len(p) \in Nat \ {0} /\ DOMAIN p = 1 .. Len(p) /\ DOMAIN fs = 1 .. Len(fs)
      /\ Len(q) = Len(fs) + Len(p) - 1
      /\ DOMAIN q = 1 .. Len(fs) + Len(p) - 1
      /\ \A i \in 1 .. Len(fs) : q[i] = fs[i]
      /\ \A i \in 2 .. Len(p) : q[Len(fs) + i - 1] = p[i]
  BY <1>1, Elements
<1> HIDE DEF q
<1>3. p[Len(p)].at \in Bottom
  BY <1>0 DEF p
<1>4. q # << >> /\ q[Len(q)].at \in Bottom
  <2>1. CASE Len(p) = 1
    <3>1. fs # << >> /\ fs[Len(fs)].at \in Bottom
      BY <1>1, <1>3, <2>1
    <3>2. Len(fs) > 0
      BY <3>1, EmptySeq, <1>2
    <3>3. Len(q) = Len(fs) /\ Len(fs) \in 1 .. Len(fs)
      BY <1>2, <2>1, <3>2
    <3>4. 1 \in DOMAIN q
      BY <1>2, <3>3
    <3> QED
      BY <1>2, <3>1, <3>3, <3>4
  <2>2. CASE Len(p) # 1
    <3>1. Len(p) \in 2 .. Len(p) /\ Len(fs) + Len(p) - 1 >= 1
      BY <1>2, <2>2
    <3>2. 1 \in DOMAIN q /\ q[Len(q)] = p[Len(p)]
      BY <1>2, <3>1
    <3> QED
      BY <1>3, <3>2
  <2> QED
    BY <2>1, <2>2
<1>5. ASSUME t = Socket, NEW j \in DOMAIN q PROVE q[j].at \in Outer
  <2>0. j \in 1 .. Len(fs) + Len(p) - 1
    BY <1>2
  <2>1. CASE j <= Len(fs)
    <3>1. j \in 1 .. Len(fs)
      BY <1>2, <2>0, <2>1
    <3> QED
      BY <1>2, <1>5, <3>1
  <2>2. CASE j > Len(fs)
    <3>1. (j - Len(fs)) + 1 \in 2 .. Len(p) /\ Len(fs) + ((j - Len(fs)) + 1) - 1 = j
      BY <1>2, <2>0, <2>2, Where
    <3>2. q[j] = p[(j - Len(fs)) + 1] /\ (j - Len(fs)) + 1 \in DOMAIN p
      BY <1>2, <3>1
    <3> QED
      BY <1>0, <1>5, <3>2 DEF p
  <2> QED
    BY <1>2, <2>0, <2>1, <2>2
<1>6. \A u \in Thread : stack'[u] # << >> /\ stack'[u][Len(stack'[u])].at \in Bottom
  BY <1>0, <1>1, <1>4
<1>7. \A i \in DOMAIN stack'[Socket] : stack'[Socket][i].at \in Outer
  BY <1>0, <1>1, <1>5 DEF Thread
<1> QED
  BY <1>1, <1>6, <1>7 DEF StackInv

LEMMA AdjStep ==
  ASSUME StackInv, AdjInv, NEW t \in Thread, NEW fs \in Seq(Good), Becomes(t, fs),
         \A i \in 1 .. Len(fs) : Fine(fs, i, ctx', registered'),
         Top(t).at \in {"SetInit", "Delete"} => ctx'[Top(t).svc] # "init",
         Top(t).at = "Retire" => Top(t).svc \notin registered',
         \A s \in Sid : /\ Cnt(stack, s, {"LaunchPush"}) > 0 /\ ctx'[s] = "init" => ctx[s] = "init"
                        /\ Cnt(stack, s, {"MqRelease"}) > 0 /\ s \in registered' => s \in registered
  PROVE  AdjInv'
<1>0. stack \in Stacks /\ \A u \in Thread : stack[u] # << >> /\ stack[u] \in Seq(Good)
  BY DEF StackInv, Stacks
<1> DEFINE p == stack[t]
           q == fs \o Tail(p)
<1>1. /\ stack' \in Stacks /\ \A u \in Thread : u # t => stack'[u] = stack[u]
      /\ stack'[t] = q /\ p \in Seq(Good) /\ Top(t) = p[1] /\ p # << >>
  BY <1>0, After
<1> HIDE DEF p
<1>2. /\ Len(fs) \in Nat /\ Len(p) \in Nat \ {0} /\ DOMAIN p = 1 .. Len(p) /\ DOMAIN fs = 1 .. Len(fs)
      /\ DOMAIN q = 1 .. Len(fs) + Len(p) - 1
      /\ \A i \in 1 .. Len(fs) : q[i] = fs[i]
      /\ \A i \in 2 .. Len(p) : q[Len(fs) + i - 1] = p[i]
  BY <1>1, Elements
<1> HIDE DEF q
(* What was fine under the old context stays so under the new one. *)
<1>3. ASSUME NEW u \in Thread, NEW i \in DOMAIN stack[u]
      PROVE  Fine(stack[u], i, ctx', registered')
  <2>1. Fine(stack[u], i, ctx, registered) /\ stack[u][i] \in Good
    BY <1>0, ElementOfSeq, LenProperties DEF AdjInv
  <2>2. CASE stack[u][i].at = "LaunchPush"
    <3>1. stack[u][i].svc \in Sid /\ Cnt(stack, stack[u][i].svc, {"LaunchPush"}) > 0
      BY <1>0, <2>1, <2>2, CntIn DEF Good, Counts, Resting
    <3> QED
      BY <2>1, <2>2, <3>1 DEF Fine
  <2>3. CASE stack[u][i].at = "MqRelease"
    <3>1. stack[u][i].svc \in Sid /\ Cnt(stack, stack[u][i].svc, {"MqRelease"}) > 0
      BY <1>0, <2>1, <2>3, CntIn DEF Good, Counts, Resting
    <3> QED
      BY <2>1, <2>3, <3>1 DEF Fine
  <2>4. CASE stack[u][i].at \notin {"LaunchPush", "MqRelease"}
    BY <2>4 DEF Fine
  <2> QED
    BY <2>2, <2>3, <2>4
<1>4. ASSUME NEW j \in DOMAIN q PROVE Fine(q, j, ctx', registered')
  <2>0. j \in 1 .. Len(fs) + Len(p) - 1 /\ j \in Nat
    BY <1>2
  <2>1. CASE j <= Len(fs)
    <3>1. j \in 1 .. Len(fs) /\ (j > 1 => j - 1 \in 1 .. Len(fs))
      BY <1>2, <2>0, <2>1
    <3>2. q[j] = fs[j] /\ (j > 1 => q[j - 1] = fs[j - 1])
      BY <1>2, <3>1
    <3>3. Fine(fs, j, ctx', registered')
      BY <3>1
    <3> QED
      BY <3>2, <3>3 DEF Fine, Above
  <2>2. CASE j > Len(fs)
    <3> DEFINE i == (j - Len(fs)) + 1
    <3>1. i \in 2 .. Len(p) /\ Len(fs) + i - 1 = j /\ i \in DOMAIN p
      BY <1>2, <2>0, <2>2, Where
    <3>2. q[j] = p[i]
      BY <1>2, <3>1
    <3>3. Fine(p, i, ctx', registered')
      BY <1>3, <3>1 DEF p
    <3>4. CASE i = 2
      <4>1. p[i - 1] = Top(t)
        BY <1>1, <3>4
      <4>2. ~(p[i].at = "LaunchPush" /\ ctx'[p[i].svc] = "init" /\ Above(p, i, {"SetInit", "Delete"}))
        BY <4>1 DEF Above
      <4>3. ~(p[i].at = "MqRelease" /\ p[i].svc \in registered' /\ Above(p, i, {"Retire"}))
        BY <4>1 DEF Above
      <4> QED
        BY <3>2, <3>3, <4>2, <4>3 DEF Fine
    <3>5. CASE i # 2
      <4>1. i - 1 \in 2 .. Len(p) /\ Len(fs) + (i - 1) - 1 = j - 1 /\ j > 1 /\ i > 1
        BY <1>2, <2>0, <3>1, <3>5
      <4>2. q[j - 1] = p[i - 1]
        BY <1>2, <4>1
      <4>3. \A P : Above(p, i, P) => Above(q, j, P)
        BY <3>2, <4>1, <4>2 DEF Above
      <4> HIDE DEF i
      <4> QED
        BY <3>2, <3>3, <4>3 DEF Fine
    <3> QED
      BY <3>4, <3>5
  <2> QED
    BY <1>2, <2>0, <2>1, <2>2
<1>5. \A u \in Thread : \A i \in DOMAIN stack'[u] : Fine(stack'[u], i, ctx', registered')
  BY <1>1, <1>3, <1>4
<1> QED
  BY <1>5 DEF AdjInv

(* A frame on the stack of some thread. *)
In(st, f) == \E u \in Thread : \E i \in DOMAIN st[u] : st[u][i] = f

LEMMA FramesMoved ==
  ASSUME StackInv, NEW t \in Thread, NEW fs \in Seq(Good), Becomes(t, fs)
  PROVE  /\ \A f : In(stack, f) /\ f # Top(t) => In(stack', f)
         /\ \A i \in DOMAIN fs : In(stack', fs[i])
         /\ \A f : In(stack', f) => In(stack, f) \/ \E i \in DOMAIN fs : f = fs[i]
         /\ In(stack, Top(t))
<1>0. stack \in Stacks /\ \A u \in Thread : stack[u] # << >>
  BY DEF StackInv
<1> DEFINE p == stack[t]
           q == fs \o Tail(p)
<1>1. /\ stack' \in Stacks /\ \A u \in Thread : u # t => stack'[u] = stack[u]
      /\ stack'[t] = q /\ p \in Seq(Good) /\ Top(t) = p[1] /\ p # << >>
  BY <1>0, After
<1> HIDE DEF p
<1>2. /\ Len(fs) \in Nat /\ Len(p) \in Nat \ {0} /\ DOMAIN p = 1 .. Len(p) /\ DOMAIN fs = 1 .. Len(fs)
      /\ DOMAIN q = 1 .. Len(fs) + Len(p) - 1
      /\ \A i \in 1 .. Len(fs) : q[i] = fs[i]
      /\ \A i \in 2 .. Len(p) : q[Len(fs) + i - 1] = p[i]
  BY <1>1, Elements
<1> HIDE DEF q
<1>3. ASSUME NEW f, In(stack, f), f # Top(t) PROVE In(stack', f)
  <2>0. PICK u \in Thread : \E i \in DOMAIN stack[u] : stack[u][i] = f
    BY <1>3 DEF In
  <2>1. PICK i \in DOMAIN stack[u] : stack[u][i] = f
    BY <2>0
  <2>2. CASE u # t
    BY <1>1, <2>1, <2>2 DEF In
  <2>3. CASE u = t
    <3>1. i \in 1 .. Len(p) /\ p[i] = f /\ i # 1
      BY <1>1, <1>2, <1>3, <2>1, <2>3 DEF p
    <3>2. i \in 2 .. Len(p) /\ Len(fs) + i - 1 \in 1 .. Len(fs) + Len(p) - 1
      BY <1>2, <3>1
    <3>3. Len(fs) + i - 1 \in DOMAIN stack'[t] /\ stack'[t][Len(fs) + i - 1] = f
      BY <1>1, <1>2, <3>1, <3>2
    <3> QED
      BY <3>3 DEF In
  <2> QED
    BY <2>2, <2>3
<1>4. ASSUME NEW i \in DOMAIN fs PROVE In(stack', fs[i])
  <2>1. i \in 1 .. Len(fs) + Len(p) - 1 /\ i \in 1 .. Len(fs)
    BY <1>2
  <2>2. i \in DOMAIN stack'[t] /\ stack'[t][i] = fs[i]
    BY <1>1, <1>2, <2>1
  <2> QED
    BY <2>2 DEF In
<1>5. ASSUME NEW f, In(stack', f) PROVE In(stack, f) \/ \E i \in DOMAIN fs : f = fs[i]
  <2>0. PICK u \in Thread : \E j \in DOMAIN stack'[u] : stack'[u][j] = f
    BY <1>5 DEF In
  <2>1. PICK j \in DOMAIN stack'[u] : stack'[u][j] = f
    BY <2>0
  <2>2. CASE u # t
    BY <1>1, <2>1, <2>2 DEF In
  <2>3. CASE u = t
    <3>1. j \in 1 .. Len(fs) + Len(p) - 1 /\ q[j] = f /\ j \in Nat
      BY <1>1, <1>2, <2>1, <2>3
    <3>2. CASE j <= Len(fs)
      <4>1. j \in 1 .. Len(fs)
        BY <1>2, <3>1, <3>2
      <4> QED
        BY <1>2, <3>1, <4>1
    <3>3. CASE j > Len(fs)
      <4>1. (j - Len(fs)) + 1 \in 2 .. Len(p) /\ Len(fs) + ((j - Len(fs)) + 1) - 1 = j
        BY <1>2, <3>1, <3>3, Where
      <4>2. (j - Len(fs)) + 1 \in DOMAIN stack[t] /\ stack[t][(j - Len(fs)) + 1] = f
        BY <1>2, <3>1, <4>1 DEF p
      <4> QED
        BY <4>2 DEF In
    <3> QED
      BY <1>2, <3>1, <3>2, <3>3
  <2> QED
    BY <2>2, <2>3
<1>6. In(stack, Top(t))
  BY <1>1, <1>2 DEF In, p
<1> QED
  BY <1>3, <1>4, <1>5, <1>6

-----------------------------------------------------------------------------
(* Counting the places of a queue in Q *)

Places(q, s) == {i \in DOMAIN q : q[i] = s}
G(q, s) == Cardinality(Places(q, s))

LEMMA PlacesFinite ==
  ASSUME NEW q \in Seq(Sid), NEW s
  PROVE  IsFiniteSet(Places(q, s)) /\ G(q, s) \in Nat
<1>1. DOMAIN q = 1 .. Len(q) /\ Len(q) \in Nat
  BY LenProperties
<1>2. 1 \in Int /\ Len(q) \in Int
  BY <1>1
<1>3. IsFiniteSet(1 .. Len(q)) /\ Places(q, s) \in SUBSET (1 .. Len(q))
  BY <1>1, <1>2, FS_Interval DEF Places
<1> QED
  BY <1>3, FS_Subset, FS_CardinalityType DEF G

LEMMA PlacesAppend ==
  ASSUME NEW q \in Seq(Sid), NEW x \in Sid, NEW s
  PROVE  Append(q, x) \in Seq(Sid) /\ G(Append(q, x), s) = G(q, s) + (IF x = s THEN 1 ELSE 0)
<1>0. /\ Append(q, x) \in Seq(Sid)
      /\ DOMAIN Append(q, x) = 1 .. Len(q) + 1 /\ DOMAIN q = 1 .. Len(q) /\ Len(q) \in Nat
  BY AppendProperties, LenProperties
<1>1. /\ \A i \in 1 .. Len(q) : Append(q, x)[i] = q[i]
      /\ Append(q, x)[Len(q) + 1] = x
  BY AppendProperties
<1>2. IsFiniteSet(Places(q, s)) /\ G(q, s) \in Nat
  BY PlacesFinite
<1>3. CASE x = s
  <2>1. Places(Append(q, x), s) = Places(q, s) \cup {Len(q) + 1} /\ Len(q) + 1 \notin Places(q, s)
    BY <1>0, <1>1, <1>3 DEF Places
  <2> QED
    BY <1>0, <1>2, <1>3, <2>1, FS_AddElement DEF G
<1>4. CASE x # s
  <2>1. Places(Append(q, x), s) = Places(q, s)
    BY <1>0, <1>1, <1>4 DEF Places
  <2> QED
    BY <1>0, <1>2, <1>4, <2>1 DEF G
<1> QED
  BY <1>3, <1>4

LEMMA PlacesTail ==
  ASSUME NEW q \in Seq(Sid), q # << >>, NEW s
  PROVE  /\ Head(q) \in Sid /\ Tail(q) \in Seq(Sid)
         /\ G(Tail(q), s) = G(q, s) - (IF Head(q) = s THEN 1 ELSE 0)
<1>0. /\ DOMAIN Tail(q) = 1 .. Len(q) - 1 /\ DOMAIN q = 1 .. Len(q) /\ Len(q) \in Nat \ {0}
      /\ Tail(q) \in Seq(Sid) /\ Head(q) = q[1] /\ Head(q) \in Sid
      /\ \A i \in 1 .. Len(q) - 1 : Tail(q)[i] = q[i + 1]
  BY HeadTailProperties, LenProperties, EmptySeq
<1> DEFINE A == Places(Tail(q), s)
           B == Places(q, s) \ {1}
           f == [i \in A |-> i + 1]
<1>1. \A i \in A : i + 1 \in B
  BY <1>0 DEF Places
<1>2. \A i \in B : i - 1 \in A /\ (i - 1) + 1 = i
  BY <1>0 DEF Places
<1>3. \A i \in A : i \in Nat
  BY <1>0 DEF Places
<1>4. f \in Bijection(A, B)
  <2> HIDE DEF A, B
  <2>1. f \in [A -> B]
    BY <1>1
  <2>2. \A a, b \in A : f[a] = f[b] => a = b
    BY <1>3
  <2>3. \A b \in B : \E a \in A : f[a] = b
    BY <1>2
  <2> HIDE DEF f
  <2> QED
    BY <2>1, <2>2, <2>3 DEF Bijection, Injection, Surjection, IsInjective
<1>5. ExistsBijection(A, B)
  BY <1>4 DEF ExistsBijection
<1>6. IsFiniteSet(Places(q, s)) /\ IsFiniteSet(A) /\ G(q, s) \in Nat
  BY <1>0, PlacesFinite
<1>7. Cardinality(A) = Cardinality(B)
  BY <1>5, <1>6, FS_Bijection
<1>8. (1 \in Places(q, s)) <=> Head(q) = s
  BY <1>0 DEF Places
<1>9. Cardinality(B) = IF 1 \in Places(q, s) THEN G(q, s) - 1 ELSE G(q, s)
  BY <1>6, FS_RemoveElement DEF G
<1>10. G(Tail(q), s) = G(q, s) - (IF Head(q) = s THEN 1 ELSE 0)
  BY <1>6, <1>7, <1>8, <1>9 DEF G
<1> QED
  BY <1>0, <1>10

(* The booted services are in Q once each, in some order. *)
LEMMA PlacesBoot ==
  /\ SetToSeq(Boot) \in Seq(Sid)
  /\ \A s : G(SetToSeq(Boot), s) = IF s \in Boot THEN 1 ELSE 0
<1> DEFINE n == Cardinality(Boot)
           b == SetToSeq(Boot)
<1>1. IsFiniteSet(Boot) /\ n \in Nat /\ ExistsBijection(1 .. n, Boot)
  BY SidAssumption, FS_Subset, FS_CardinalityType
<1>2. PICK g \in Bijection(1 .. n, Boot) : TRUE
  BY <1>1 DEF ExistsBijection
<1>3. g \in [1 .. n -> Boot] /\ IsInjective(g)
  BY <1>2 DEF Bijection, Injection
<1>4. b \in [1 .. n -> Boot] /\ IsInjective(b)
  BY <1>3 DEF SetToSeq
<1> HIDE DEF b, n
<1>5. b \in Injection(1 .. n, Boot)
  BY <1>4 DEF Injection
<1>6. IsFiniteSet(1 .. n) /\ Cardinality(1 .. n) = n
  <2>1. 1 \in Int /\ n \in Int
    BY <1>1
  <2>2. /\ IsFiniteSet(1 .. n)
        /\ Cardinality(1 .. n) = IF 1 > n THEN 0 ELSE n - 1 + 1
    BY <2>1, FS_Interval
  <2> QED
    BY <1>1, <2>2
<1>7. b \in Surjection(1 .. n, Boot)
  BY <1>1, <1>5, <1>6, FS_Injection DEF n
<1>8. b \in Seq(Sid) /\ DOMAIN b = 1 .. n
  <2>1. b \in Seq(Boot)
    BY <1>1, <1>4
  <2> QED
    BY <1>4, <2>1, SidAssumption, SeqMonotonic
<1>9. ASSUME NEW s \in Boot PROVE G(b, s) = 1
  <2>1. PICK i \in 1 .. n : b[i] = s
    BY <1>7 DEF Surjection
  <2>2. Places(b, s) = {i}
    BY <1>4, <1>8, <2>1 DEF Places, IsInjective
  <2> QED
    BY <2>2, FS_Singleton DEF G
<1>10. ASSUME NEW s, s \notin Boot PROVE G(b, s) = 0
  <2>1. Places(b, s) = {}
    BY <1>4, <1>8, <1>10 DEF Places
  <2> QED
    BY <2>1, FS_EmptySet DEF G
<1> QED
  BY <1>8, <1>9, <1>10 DEF b

-----------------------------------------------------------------------------
(* The inductive invariant *)

(* In the middle of a turn; launched, and not yet put in Q or given up. *)
Turn      == {"PopMsg", "Callback", "NextPop", "PushBack"}
Launching == {"Init", "LaunchRelease", "LaunchPush", "MqRelease"}

VarInv ==
  /\ registered \subseteq Sid
  /\ ctx \in [Sid -> {"none", "init", "live", "freed"}]
  /\ ref \in [Sid -> Nat]
  /\ mqueue \in [Sid -> Seq(Mail)]
  /\ in_global \in [Sid -> BOOLEAN] /\ release \in [Sid -> BOOLEAN] /\ freed \in [Sid -> BOOLEAN]
  /\ global \in Seq(Sid)
  /\ asleep \subseteq Worker /\ quit \in BOOLEAN
  /\ source \in [Msg -> Sid \cup {Nobody, Unsent}] /\ done \subseteq Mail

(* The references of a context, and the one release that deletes it. *)
RefInv ==
  \A s \in Sid :
    /\ ref[s] = One(s \in registered) + Cnt(stack, s, Holding)
    /\ ctx[s] \in {"init", "live"} <=> ref[s] > 0 \/ Cnt(stack, s, {"Delete"}) > 0
    /\ Cnt(stack, s, {"Delete"}) > 0 => ref[s] = 0
    /\ Cnt(stack, s, {"Delete"}) <= 1

(* Only the queue of a context that is gone is released. *)
GoneInv ==
  \A s \in Sid :
    /\ release[s] \/ freed[s] => ctx[s] = "freed"
    /\ Cnt(stack, s, {"Drop"}) > 0 => release[s]

(* A turn is that of a live context; one that is still in its init         *)
(* function is with the thread that launches it.                           *)
TurnInv ==
  \A s \in Sid :
    /\ Cnt(stack, s, Turn) > 0 => ctx[s] = "live"
    /\ ctx[s] = "init" /\ s \in registered => Cnt(stack, s, Launching) > 0

OwnInv ==
  ~quit => \A s \in Sid :
    G(global, s) + Cnt(stack, s, Owning)
      = One(ctx[s] # "none" /\ ~freed[s] /\ (in_global[s] \/ release[s]))

QInv == VarInv /\ StackInv /\ AdjInv /\ RefInv /\ GoneInv /\ TurnInv /\ OwnInv /\ QuitMeansOver

(* The frame that a thread is in. *)
LEMMA TopGood ==
  ASSUME StackInv, NEW t \in Thread
  PROVE  /\ stack \in Stacks /\ stack[t] # << >>
         /\ Top(t) \in Good /\ Top(t) \in Frame
         /\ Top(t).at \notin Resting => Top(t).svc \in Sid
         /\ Top(t).at \in {"Push", "Callback"} => Top(t).msg \in Mail
         /\ \A P : Top(t).at \in P => Cnt(stack, Top(t).svc, P) > 0
         /\ \A s, P : Cnt(stack, s, P) \in Nat
         /\ t = Socket => Top(t).at \in Outer
<1>1. stack \in Stacks /\ stack[t] # << >> /\ stack[t] \in Seq(Good)
  BY DEF StackInv, Stacks
<1>2. Top(t) \in Good /\ Top(t) = stack[t][1] /\ 1 \in DOMAIN stack[t]
  BY <1>1, TopAndRest, EmptySeq, LenProperties DEF Top
<1>3. t = Socket => Top(t).at \in Outer
  BY <1>2 DEF StackInv
<1> QED
  BY <1>1, <1>2, <1>3, CntTop, FramesFinite DEF Good

LEMMA GoodFrames ==
  ASSUME NEW s \in Sid, NEW p \in Points
  PROVE  /\ p \notin Resting \cup {"Push", "Callback"} => F(p, s) \in Good
         /\ p \in Resting => F(p, Nobody) \in Good
         /\ \A m \in Mail : [F("Push", s) EXCEPT !.msg = m] \in Good
         /\ \A n \in Nat \cup {First} : [F("PopMsg", s) EXCEPT !.n = n] \in Good
BY NobodyAssumption DEF Good, Frame, F, Resting, First, Points

LEMMA Lists ==
  ASSUME NEW f \in Good, NEW g \in Good, NEW h \in Good
  PROVE  /\ << >> \in Seq(Good) /\ Len(<< >>) = 0 /\ DOMAIN << >> = {}
         /\ <<f>> \in Seq(Good) /\ Len(<<f>>) = 1 /\ DOMAIN <<f>> = {1} /\ <<f>>[1] = f
         /\ <<f, g>> \in Seq(Good) /\ Len(<<f, g>>) = 2 /\ DOMAIN <<f, g>> = {1, 2}
         /\ <<f, g>>[1] = f /\ <<f, g>>[2] = g
         /\ <<f, g, h>> \in Seq(Good) /\ Len(<<f, g, h>>) = 3 /\ DOMAIN <<f, g, h>> = {1, 2, 3}
         /\ <<f, g, h>>[1] = f /\ <<f, g, h>>[2] = g /\ <<f, g, h>>[3] = h
OBVIOUS

(* The shape of the stacks after each kind of step. *)
LEMMA Shape1 ==
  ASSUME StackInv, AdjInv, NEW t \in Thread, NEW f \in Good, Becomes(t, <<f>>),
         Top(t).at \in Bottom => f.at \in Bottom,
         t = Socket => f.at \in Outer,
         Fine(<<f>>, 1, ctx', registered'),
         Top(t).at \in {"SetInit", "Delete"} => ctx'[Top(t).svc] # "init",
         Top(t).at = "Retire" => Top(t).svc \notin registered',
         \A s \in Sid : /\ Cnt(stack, s, {"LaunchPush"}) > 0 /\ ctx'[s] = "init" => ctx[s] = "init"
                        /\ Cnt(stack, s, {"MqRelease"}) > 0 /\ s \in registered' => s \in registered
  PROVE  StackInv' /\ AdjInv'
<1> DEFINE fs == <<f>>
<1>1. fs \in Seq(Good) /\ Len(fs) = 1 /\ DOMAIN fs = {1} /\ fs[1] = f /\ fs # << >>
  BY Lists
<1>2. Becomes(t, fs) /\ Fine(fs, 1, ctx', registered')
  OBVIOUS
<1> HIDE DEF fs
<1>3. StackInv'
  BY <1>1, <1>2, Shape
<1>4. \A i \in 1 .. Len(fs) : Fine(fs, i, ctx', registered')
  BY <1>1, <1>2
<1>5. AdjInv'
  BY <1>1, <1>2, <1>4, AdjStep
<1> QED
  BY <1>3, <1>5

LEMMA Shape0 ==
  ASSUME StackInv, AdjInv, NEW t \in Thread, Becomes(t, << >>),
         Top(t).at \notin Bottom,
         Top(t).at \in {"SetInit", "Delete"} => ctx'[Top(t).svc] # "init",
         Top(t).at = "Retire" => Top(t).svc \notin registered',
         \A s \in Sid : /\ Cnt(stack, s, {"LaunchPush"}) > 0 /\ ctx'[s] = "init" => ctx[s] = "init"
                        /\ Cnt(stack, s, {"MqRelease"}) > 0 /\ s \in registered' => s \in registered
  PROVE  StackInv' /\ AdjInv'
<1> DEFINE fs == << >>
<1>1. fs \in Seq(Good) /\ Len(fs) = 0 /\ DOMAIN fs = {}
  OBVIOUS
<1>2. Becomes(t, fs)
  OBVIOUS
<1> HIDE DEF fs
<1>3. StackInv'
  BY <1>1, <1>2, Shape
<1>4. \A i \in 1 .. Len(fs) : Fine(fs, i, ctx', registered')
  BY <1>1
<1>5. AdjInv'
  BY <1>1, <1>2, <1>4, AdjStep
<1> QED
  BY <1>3, <1>5

LEMMA Shape2 ==
  ASSUME StackInv, AdjInv, NEW t \in Thread, NEW f \in Good, NEW g \in Good, Becomes(t, <<f, g>>),
         Top(t).at \in Bottom => g.at \in Bottom,
         t = Socket => f.at \in Outer /\ g.at \in Outer,
         Fine(<<f, g>>, 1, ctx', registered'), Fine(<<f, g>>, 2, ctx', registered'),
         Top(t).at \in {"SetInit", "Delete"} => ctx'[Top(t).svc] # "init",
         Top(t).at = "Retire" => Top(t).svc \notin registered',
         \A s \in Sid : /\ Cnt(stack, s, {"LaunchPush"}) > 0 /\ ctx'[s] = "init" => ctx[s] = "init"
                        /\ Cnt(stack, s, {"MqRelease"}) > 0 /\ s \in registered' => s \in registered
  PROVE  StackInv' /\ AdjInv'
<1> DEFINE fs == <<f, g>>
<1>1. fs \in Seq(Good) /\ Len(fs) = 2 /\ DOMAIN fs = {1, 2} /\ fs[1] = f /\ fs[2] = g /\ fs # << >>
  BY Lists
<1>2. Becomes(t, fs) /\ Fine(fs, 1, ctx', registered') /\ Fine(fs, 2, ctx', registered')
  OBVIOUS
<1> HIDE DEF fs
<1>3. StackInv'
  BY <1>1, <1>2, Shape
<1>4. \A i \in 1 .. Len(fs) : Fine(fs, i, ctx', registered')
  BY <1>1, <1>2
<1>5. AdjInv'
  BY <1>1, <1>2, <1>4, AdjStep
<1> QED
  BY <1>3, <1>5

(* A frame calls one that is no end of a launch or a release. *)
LEMMA ShapeCall ==
  ASSUME StackInv, AdjInv, NEW t \in Thread, NEW f \in Good, Call(t, <<f>>),
         t = Socket => f.at \in Outer,
         f.at \notin {"LaunchPush", "MqRelease"},
         Top(t).at \notin {"LaunchPush", "MqRelease", "SetInit", "Delete", "Retire"},
         \A s \in Sid : /\ Cnt(stack, s, {"LaunchPush"}) > 0 /\ ctx'[s] = "init" => ctx[s] = "init"
                        /\ Cnt(stack, s, {"MqRelease"}) > 0 /\ s \in registered' => s \in registered
  PROVE  /\ StackInv' /\ AdjInv'
         /\ \A s, P : Cnt(stack', s, P) = Cnt(stack, s, P) + N(f, s, P)
<1> DEFINE g == Top(t)
<1>1. /\ g \in Good /\ stack \in Stacks /\ stack[t] # << >> /\ \A s, P : Cnt(stack, s, P) \in Nat
      /\ t = Socket => g.at \in Outer
  BY TopGood
<1>2. Becomes(t, <<f, g>>)
  BY <1>1, CallIs
<1>3. \A s, P : Cnt(stack', s, P) = Cnt(stack, s, P) - N(g, s, P) + N(g, s, P) + N(f, s, P)
  BY <1>1, <1>2, Becomes2
<1>4. \A s, P : N(f, s, P) \in Nat /\ N(g, s, P) \in Nat
  BY NisNat
<1>5. <<f, g>>[1] = f /\ <<f, g>>[2] = g
  OBVIOUS
<1>6. Fine(<<f, g>>, 1, ctx', registered') /\ Fine(<<f, g>>, 2, ctx', registered')
  BY <1>5 DEF Fine
<1>7. /\ g.at \in Bottom => g.at \in Bottom
      /\ g.at \notin {"SetInit", "Delete", "Retire"}
  OBVIOUS
<1> HIDE DEF g
<1>8. Top(t) = g
  BY DEF g
<1>9. StackInv' /\ AdjInv'
  BY <1>1, <1>2, <1>6, <1>7, <1>8, Shape2
<1> QED
  BY <1>1, <1>3, <1>4, <1>9

-----------------------------------------------------------------------------
(* One step each *)

(* No frame of another service counts. *)
LEMMA Weighs ==
  ASSUME NEW f, NEW z, NEW P
  PROVE  N(f, z, P) = IF f.svc = z /\ f.at \in P THEN 1 ELSE 0
BY DEF N, Counts

LEMMA PushStep ==
  ASSUME QInv, NEW t \in Thread, Push(t)
  PROVE  QInv'
<1> DEFINE s == Top(t).svc
           f == F("Release", s)
<1>0. VarInv /\ StackInv /\ AdjInv /\ RefInv /\ GoneInv /\ TurnInv /\ OwnInv /\ QuitMeansOver
  BY DEF QInv
<1>1. /\ Top(t).at = "Push" /\ s \in Sid /\ Top(t).msg \in Mail /\ stack \in Stacks /\ stack[t] # << >>
      /\ Cnt(stack, s, Holding) > 0 /\ \A z, P : Cnt(stack, z, P) \in Nat
  BY <1>0, TopGood DEF Push, At, Resting, Holding
<1>2. /\ mqueue' = [mqueue EXCEPT ![s] = Append(@, Top(t).msg)]
      /\ in_global' = [in_global EXCEPT ![s] = TRUE]
      /\ global' = IF in_global[s] THEN global ELSE Append(global, s)
      /\ Becomes(t, <<f>>)
      /\ registered' = registered /\ ctx' = ctx /\ ref' = ref /\ release' = release /\ freed' = freed
      /\ asleep' = asleep /\ quit' = quit /\ source' = source /\ done' = done
  BY DEF Push, hvars, msgvars
<1>3. f \in Good /\ f.at = "Release" /\ f.svc = s
  BY <1>1, GoodFrames DEF F, Points, Resting
<1> HIDE DEF f, s
<1>4. \A z, P : Cnt(stack', z, P) = Cnt(stack, z, P) - N(Top(t), z, P) + N(f, z, P)
  BY <1>1, <1>2, <1>3, Becomes1
<1>5. StackInv' /\ AdjInv'
  BY <1>0, <1>1, <1>2, <1>3, Shape1 DEF Fine, Bottom, Resting, Outer
<1>6. \A z \in Sid : /\ Cnt(stack', z, Holding) = Cnt(stack, z, Holding)
                     /\ Cnt(stack', z, Owning) = Cnt(stack, z, Owning)
                     /\ Cnt(stack', z, {"Delete"}) = Cnt(stack, z, {"Delete"})
                     /\ Cnt(stack', z, {"Drop"}) = Cnt(stack, z, {"Drop"})
                     /\ Cnt(stack', z, Turn) = Cnt(stack, z, Turn)
                     /\ Cnt(stack', z, Launching) = Cnt(stack, z, Launching)
  BY <1>1, <1>3, <1>4, Weighs DEF s, Holding, Owning, Turn, Launching
<1>7. VarInv'
  BY <1>0, <1>1, <1>2, PlacesAppend DEF VarInv
<1>8. RefInv' /\ GoneInv' /\ TurnInv' /\ QuitMeansOver'
  BY <1>0, <1>2, <1>6 DEF RefInv, GoneInv, TurnInv, QuitMeansOver
<1>9. OwnInv'
  <2>0. ref[s] > 0
    BY <1>0, <1>1 DEF RefInv, One
  <2>1. ctx[s] \in {"init", "live"} /\ ~freed[s] /\ ~release[s] /\ ctx[s] # "none"
    BY <1>0, <1>1, <2>0 DEF RefInv, GoneInv
  <2>2. \A z : G(global, z) \in Nat /\ G(Append(global, s), z) = G(global, z) + (IF s = z THEN 1 ELSE 0)
    BY <1>0, <1>1, PlacesAppend, PlacesFinite DEF VarInv
  <2>3. ASSUME ~quit, NEW z \in Sid
        PROVE  G(global', z) + Cnt(stack', z, Owning)
                 = One(ctx[z] # "none" /\ ~freed[z] /\ (in_global'[z] \/ release[z]))
    <3>1. G(global, z) + Cnt(stack, z, Owning)
            = One(ctx[z] # "none" /\ ~freed[z] /\ (in_global[z] \/ release[z]))
      BY <1>0, <2>3 DEF OwnInv
    <3>2. CASE z = s /\ ~in_global[s]
      <4>1. G(global', z) = G(global, z) + 1 /\ in_global'[z]
        BY <1>0, <1>2, <2>2, <3>2 DEF VarInv
      <4> QED
        BY <1>1, <1>6, <2>1, <2>2, <3>1, <3>2, <4>1 DEF One
    <3>3. CASE z # s \/ in_global[s]
      <4>1. G(global', z) = G(global, z) /\ in_global'[z] = in_global[z]
        <5>1. CASE z # s
          BY <1>0, <1>2, <2>2, <5>1 DEF VarInv
        <5>2. CASE z = s /\ in_global[s]
          BY <1>0, <1>2, <5>2 DEF VarInv
        <5> QED
          BY <3>3, <5>1, <5>2
      <4> QED
        BY <1>6, <3>1, <4>1
    <3> QED
      BY <3>2, <3>3
  <2> QED
    BY <1>2, <2>3 DEF OwnInv
<1> QED
  BY <1>5, <1>7, <1>8, <1>9 DEF QInv

LEMMA Held ==
  ASSUME QInv, NEW s \in Sid, Cnt(stack, s, Holding) > 0
  PROVE  /\ ref[s] > 0 /\ ctx[s] \in {"init", "live"} /\ ctx[s] # "none" /\ ~freed[s] /\ ~release[s]
         /\ ~quit /\ Cnt(stack, s, {"Delete"}) = 0
<1>1. /\ stack \in Stacks /\ RefInv /\ GoneInv /\ QuitMeansOver /\ VarInv
      /\ Cnt(stack, s, Holding) \in Nat /\ Cnt(stack, s, {"Delete"}) \in Nat
  BY FramesFinite DEF QInv, StackInv
<1>2. ref[s] > 0
  BY <1>1 DEF RefInv, One
<1>3. ctx[s] \in {"init", "live"} /\ Cnt(stack, s, {"Delete"}) = 0
  BY <1>1, <1>2 DEF RefInv
<1> QED
  BY <1>1, <1>2, <1>3 DEF GoneInv, QuitMeansOver

LEMMA Registered ==
  ASSUME QInv, NEW s \in registered
  PROVE  /\ s \in Sid /\ ref[s] > 0 /\ ctx[s] \in {"init", "live"} /\ ~freed[s] /\ ~release[s]
         /\ ~quit /\ Cnt(stack, s, {"Delete"}) = 0
<1>1. /\ stack \in Stacks /\ RefInv /\ GoneInv /\ QuitMeansOver /\ s \in Sid
      /\ Cnt(stack, s, Holding) \in Nat /\ Cnt(stack, s, {"Delete"}) \in Nat
  BY FramesFinite DEF QInv, StackInv, VarInv
<1>2. ref[s] > 0
  BY <1>1 DEF RefInv, One
<1>3. ctx[s] \in {"init", "live"} /\ Cnt(stack, s, {"Delete"}) = 0
  BY <1>1, <1>2 DEF RefInv
<1> QED
  BY <1>1, <1>2, <1>3 DEF GoneInv, QuitMeansOver

(* What the frame above leaves is settled when there is none above. *)
LEMMA TopFine ==
  ASSUME StackInv, AdjInv, NEW t \in Thread
  PROVE  /\ Top(t).at = "LaunchPush" => ctx[Top(t).svc] # "init"
         /\ Top(t).at = "MqRelease" => Top(t).svc \notin registered
<1>1. stack[t] \in Seq(Good) /\ stack[t] # << >>
  BY DEF StackInv, Stacks
<1>2. Top(t) = stack[t][1] /\ 1 \in DOMAIN stack[t]
  BY <1>1, EmptySeq, LenProperties DEF Top
<1>3. Fine(stack[t], 1, ctx, registered)
  BY <1>2 DEF AdjInv
<1> QED
  BY <1>2, <1>3 DEF Fine, Above

(* The queues keep their owners when what one gains another gives up. *)
LEMMA OwnKept ==
  ASSUME OwnInv, quit' = quit, freed' = freed, in_global' = in_global, release' = release,
         \A z \in Sid : ctx'[z] = "none" <=> ctx[z] = "none",
         \A z \in Sid : G(global', z) + Cnt(stack', z, Owning) = G(global, z) + Cnt(stack, z, Owning)
  PROVE  OwnInv'
<1>1. ASSUME ~quit, NEW z \in Sid
      PROVE  G(global', z) + Cnt(stack', z, Owning)
               = One(ctx'[z] # "none" /\ ~freed[z] /\ (in_global[z] \/ release[z]))
  BY <1>1 DEF OwnInv
<1> QED
  BY <1>1 DEF OwnInv

LEMMA Shape3 ==
  ASSUME StackInv, AdjInv, NEW t \in Thread, NEW f \in Good, NEW g \in Good, NEW h \in Good,
         Becomes(t, <<f, g, h>>),
         Top(t).at \notin Bottom \cup Outer,
         Fine(<<f, g, h>>, 1, ctx', registered'), Fine(<<f, g, h>>, 2, ctx', registered'),
         Fine(<<f, g, h>>, 3, ctx', registered'),
         Top(t).at \notin {"SetInit", "Delete", "Retire"},
         \A s \in Sid : /\ Cnt(stack, s, {"LaunchPush"}) > 0 /\ ctx'[s] = "init" => ctx[s] = "init"
                        /\ Cnt(stack, s, {"MqRelease"}) > 0 /\ s \in registered' => s \in registered
  PROVE  StackInv' /\ AdjInv'
<1> DEFINE fs == <<f, g, h>>
<1>1. fs \in Seq(Good) /\ Len(fs) = 3
  BY Lists
<1>2. /\ Becomes(t, fs)
      /\ Fine(fs, 1, ctx', registered') /\ Fine(fs, 2, ctx', registered') /\ Fine(fs, 3, ctx', registered')
  OBVIOUS
<1> HIDE DEF fs
<1>3. t # Socket
  BY TopGood
<1>4. StackInv'
  BY <1>1, <1>2, <1>3, Shape
<1>5. \A i \in 1 .. Len(fs) : Fine(fs, i, ctx', registered')
  BY <1>1, <1>2
<1>6. AdjInv'
  BY <1>1, <1>2, <1>5, AdjStep
<1> QED
  BY <1>4, <1>6

(* A reference is given back; the last one leads to the deletion. *)
LEMMA RefLess ==
  ASSUME QInv, NEW s \in Sid, Cnt(stack, s, Holding) > 0, ref' = [ref EXCEPT ![s] = @ - 1],
         registered' = registered, ctx' = ctx,
         \A z \in Sid :
           /\ Cnt(stack', z, Holding) = Cnt(stack, z, Holding) - (IF z = s THEN 1 ELSE 0)
           /\ Cnt(stack', z, {"Delete"})
                = Cnt(stack, z, {"Delete"}) + (IF z = s /\ ref[s] = 1 THEN 1 ELSE 0)
  PROVE  RefInv' /\ ref' \in [Sid -> Nat]
<1>1. /\ RefInv /\ ref \in [Sid -> Nat] /\ ref[s] > 0 /\ ctx[s] \in {"init", "live"}
      /\ Cnt(stack, s, {"Delete"}) = 0 /\ stack \in Stacks
      /\ \A z, P : Cnt(stack, z, P) \in Nat
  BY Held, FramesFinite DEF QInv, VarInv, StackInv
<1>2. ASSUME NEW z \in Sid
      PROVE  /\ ref'[z] = One(z \in registered) + Cnt(stack', z, Holding)
             /\ ctx[z] \in {"init", "live"} <=> ref'[z] > 0 \/ Cnt(stack', z, {"Delete"}) > 0
             /\ Cnt(stack', z, {"Delete"}) > 0 => ref'[z] = 0
             /\ Cnt(stack', z, {"Delete"}) <= 1
  <2>1. CASE z = s
    <3>1. ref'[z] = ref[z] - 1 /\ ref[z] \in Nat
      BY <1>1, <2>1
    <3>2. /\ Cnt(stack', z, Holding) = Cnt(stack, z, Holding) - 1
          /\ Cnt(stack', z, {"Delete"}) = IF ref[z] = 1 THEN 1 ELSE 0
      BY <1>1, <2>1
    <3>3. ref[z] = One(z \in registered) + Cnt(stack, z, Holding)
      BY <1>1 DEF RefInv
    <3> QED
      BY <1>1, <2>1, <3>1, <3>2, <3>3 DEF One
  <2>2. CASE z # s
    <3>1. ref'[z] = ref[z]
      BY <1>1, <2>2
    <3>2. /\ Cnt(stack', z, Holding) = Cnt(stack, z, Holding)
          /\ Cnt(stack', z, {"Delete"}) = Cnt(stack, z, {"Delete"})
      BY <1>1, <2>2
    <3> QED
      BY <1>1, <3>1, <3>2 DEF RefInv
  <2> QED
    BY <2>1, <2>2
<1>3. RefInv'
  BY <1>2 DEF RefInv
<1>4. ref' \in [Sid -> Nat]
  BY <1>1
<1> QED
  BY <1>3, <1>4

LEMMA ReleaseStep ==
  ASSUME QInv, NEW t \in Thread, Release(t)
  PROVE  QInv'
<1> DEFINE s == Top(t).svc
           f == F("Delete", s)
<1>0. VarInv /\ StackInv /\ AdjInv /\ RefInv /\ GoneInv /\ TurnInv /\ OwnInv /\ QuitMeansOver
  BY DEF QInv
<1>1. /\ Top(t).at = "Release" /\ s \in Sid /\ stack \in Stacks /\ stack[t] # << >>
      /\ Cnt(stack, s, Holding) > 0 /\ \A z, P : Cnt(stack, z, P) \in Nat
  BY <1>0, TopGood DEF Release, At, Resting, Holding
<1>2. /\ ref' = [ref EXCEPT ![s] = @ - 1]
      /\ IF ref[s] = 1 THEN Becomes(t, <<f>>) ELSE Becomes(t, << >>)
      /\ registered' = registered /\ ctx' = ctx /\ mqueue' = mqueue /\ in_global' = in_global /\ release' = release /\ freed' = freed /\ global' = global /\ asleep' = asleep /\ quit' = quit /\ source' = source /\ done' = done
  BY DEF Release, Return, qvars, msgvars
<1>3. f \in Good /\ f.at = "Delete" /\ f.svc = s
  BY <1>1, GoodFrames DEF F, Points, Resting
<1> HIDE DEF f, s
<1>4. StackInv' /\ AdjInv' /\ \A z \in Sid : /\ Cnt(stack', z, Holding) = Cnt(stack, z, Holding) - (IF z = s THEN 1 ELSE 0)
                     /\ Cnt(stack', z, Owning) = Cnt(stack, z, Owning)
                     /\ Cnt(stack', z, {"Delete"}) = Cnt(stack, z, {"Delete"})
                                         + (IF z = s /\ ref[s] = 1 THEN 1 ELSE 0)
                     /\ Cnt(stack', z, {"Drop"}) = Cnt(stack, z, {"Drop"})
                     /\ Cnt(stack', z, Turn) = Cnt(stack, z, Turn)
                     /\ Cnt(stack', z, Launching) = Cnt(stack, z, Launching)
  <2>1. CASE ref[s] = 1
    <3>1. Becomes(t, <<f>>)
      BY <1>2, <2>1
    <3>2. \A z, P : Cnt(stack', z, P) = Cnt(stack, z, P) - N(Top(t), z, P) + N(f, z, P)
      BY <1>1, <1>3, <3>1, Becomes1
    <3>3. StackInv' /\ AdjInv'
      BY <1>0, <1>1, <1>2, <1>3, <3>1, Shape1 DEF Fine, Bottom, Resting, Outer
    <3> QED
      BY <1>1, <1>3, <2>1, <3>2, <3>3, Weighs DEF s, Holding, Owning, Turn, Launching
  <2>2. CASE ref[s] # 1
    <3>1. Becomes(t, << >>)
      BY <1>2, <2>2
    <3>2. \A z, P : Cnt(stack', z, P) = Cnt(stack, z, P) - N(Top(t), z, P)
      BY <1>1, <3>1, Becomes0
    <3>3. StackInv' /\ AdjInv'
      BY <1>0, <1>1, <1>2, <3>1, Shape0 DEF Bottom, Resting
    <3> QED
      BY <1>1, <2>2, <3>2, <3>3, Weighs DEF s, Holding, Owning, Turn, Launching
  <2> QED
    BY <2>1, <2>2
<1>5. RefInv' /\ ref' \in [Sid -> Nat]
  BY <1>1, <1>2, <1>4, RefLess
<1>6. OwnInv'
  BY <1>0, <1>2, <1>4, OwnKept
<1>7. GoneInv' /\ TurnInv' /\ QuitMeansOver'
  BY <1>0, <1>2, <1>4 DEF GoneInv, TurnInv, QuitMeansOver
<1>8. VarInv'
  BY <1>0, <1>2, <1>5 DEF VarInv
<1> QED
  BY <1>4, <1>5, <1>6, <1>7, <1>8 DEF QInv

LEMMA DeleteStep ==
  ASSUME QInv, NEW t \in Thread, Delete(t)
  PROVE  QInv'
<1> DEFINE s == Top(t).svc
<1>0. VarInv /\ StackInv /\ AdjInv /\ RefInv /\ GoneInv /\ TurnInv /\ OwnInv /\ QuitMeansOver
  BY DEF QInv
<1>1. /\ Top(t).at = "Delete" /\ s \in Sid /\ stack \in Stacks /\ stack[t] # << >>
      /\ Cnt(stack, s, {"Delete"}) > 0 /\ \A z, P : Cnt(stack, z, P) \in Nat
  BY <1>0, TopGood DEF Delete, At, Resting
<1>2. /\ ctx' = [ctx EXCEPT ![s] = "freed"]
      /\ release' = [release EXCEPT ![s] = TRUE]
      /\ global' = IF in_global[s] THEN global ELSE Append(global, s)
      /\ Becomes(t, << >>)
      /\ registered' = registered /\ ref' = ref /\ mqueue' = mqueue /\ in_global' = in_global /\ freed' = freed /\ asleep' = asleep /\ quit' = quit /\ source' = source /\ done' = done
  BY DEF Delete, Return, msgvars
<1> HIDE DEF s
<1>3. /\ ref[s] = 0 /\ ctx[s] \in {"init", "live"} /\ ~freed[s] /\ ~release[s]
      /\ Cnt(stack, s, {"Delete"}) = 1 /\ Cnt(stack, s, Holding) = 0
  <2>1. ref[s] = 0 /\ ctx[s] \in {"init", "live"} /\ Cnt(stack, s, {"Delete"}) = 1
    BY <1>0, <1>1 DEF RefInv
  <2>2. Cnt(stack, s, Holding) = 0
    BY <1>0, <1>1, <2>1 DEF RefInv, One
  <2> QED
    BY <1>0, <1>1, <2>1, <2>2 DEF GoneInv
<1>4. Cnt(stack, s, Turn) = 0
  <2>1. Turn \subseteq Holding
    BY DEF Turn, Holding
  <2>2. Cnt(stack, s, Turn) <= 0
    BY <1>1, <1>3, <2>1, CntSub
  <2> QED
    BY <1>1, <2>2
<1>5. \A z, P : Cnt(stack', z, P) = Cnt(stack, z, P) - N(Top(t), z, P)
  BY <1>1, <1>2, Becomes0
<1>6. ctx'[s] = "freed" /\ \A z \in Sid : z # s => ctx'[z] = ctx[z]
  BY <1>0, <1>1, <1>2 DEF VarInv
<1>7. StackInv' /\ AdjInv'
  <2>1. \A z \in Sid : ctx'[z] = "init" => ctx[z] = "init"
    BY <1>6
  <2>2. ctx'[Top(t).svc] # "init"
    BY <1>6 DEF s
  <2> QED
    BY <1>0, <1>1, <1>2, <2>1, <2>2, Shape0 DEF Bottom, Resting
<1>8. \A z \in Sid : /\ Cnt(stack', z, Holding) = Cnt(stack, z, Holding)
                     /\ Cnt(stack', z, Owning) = Cnt(stack, z, Owning)
                     /\ Cnt(stack', z, {"Delete"}) = Cnt(stack, z, {"Delete"}) - (IF z = s THEN 1 ELSE 0)
                     /\ Cnt(stack', z, {"Drop"}) = Cnt(stack, z, {"Drop"})
                     /\ Cnt(stack', z, Turn) = Cnt(stack, z, Turn)
                     /\ Cnt(stack', z, Launching) = Cnt(stack, z, Launching)
  BY <1>1, <1>5, Weighs DEF s, Holding, Owning, Turn, Launching
<1>9. RefInv' /\ GoneInv' /\ TurnInv' /\ QuitMeansOver'
  <2>1. ASSUME NEW z \in Sid
        PROVE  /\ ref[z] = One(z \in registered) + Cnt(stack', z, Holding)
               /\ ctx'[z] \in {"init", "live"} <=> ref[z] > 0 \/ Cnt(stack', z, {"Delete"}) > 0
               /\ Cnt(stack', z, {"Delete"}) > 0 => ref[z] = 0
               /\ Cnt(stack', z, {"Delete"}) <= 1
    <3>1. CASE z = s
      BY <1>0, <1>3, <1>6, <1>8, <3>1 DEF RefInv
    <3>2. CASE z # s
      <4>1. /\ ctx'[z] = ctx[z] /\ Cnt(stack', z, Holding) = Cnt(stack, z, Holding)
            /\ Cnt(stack', z, {"Delete"}) = Cnt(stack, z, {"Delete"})
        BY <1>1, <1>6, <1>8, <3>2
      <4> QED
        BY <1>0, <4>1 DEF RefInv
    <3> QED
      BY <3>1, <3>2
  <2>2. RefInv'
    BY <1>2, <2>1 DEF RefInv
  <2>3. GoneInv'
    BY <1>0, <1>2, <1>6, <1>8 DEF GoneInv, VarInv
  <2>4. TurnInv'
    BY <1>0, <1>2, <1>4, <1>6, <1>8 DEF TurnInv
  <2>5. QuitMeansOver'
    BY <1>0, <1>2, <1>6 DEF QuitMeansOver
  <2> QED
    BY <2>2, <2>3, <2>4, <2>5
<1>10. /\ global' \in Seq(Sid)
       /\ \A z \in Sid : /\ G(global, z) \in Nat
                          /\ G(global', z) = G(global, z) + (IF z = s /\ ~in_global[s] THEN 1 ELSE 0)
  BY <1>0, <1>1, <1>2, PlacesAppend, PlacesFinite DEF VarInv
<1>11. OwnInv'
  <2>1. ASSUME ~quit, NEW z \in Sid
        PROVE  G(global', z) + Cnt(stack', z, Owning)
                 = One(ctx'[z] # "none" /\ ~freed[z] /\ (in_global[z] \/ release'[z]))
    <3>1. G(global, z) + Cnt(stack, z, Owning)
            = One(ctx[z] # "none" /\ ~freed[z] /\ (in_global[z] \/ release[z]))
      BY <1>0, <2>1 DEF OwnInv
    <3>2. CASE z = s
      <4>1. release'[z] /\ ctx[z] # "none" /\ ctx'[z] # "none"
        BY <1>0, <1>2, <1>3, <1>6, <3>2 DEF VarInv
      <4> QED
        BY <1>1, <1>3, <1>8, <1>10, <3>1, <3>2, <4>1 DEF One
    <3>3. CASE z # s
      <4>1. release'[z] = release[z] /\ ctx'[z] = ctx[z]
        BY <1>0, <1>2, <1>6, <3>3 DEF VarInv
      <4> QED
        BY <1>8, <1>10, <3>1, <3>3, <4>1
    <3> QED
      BY <3>2, <3>3
  <2> QED
    BY <1>2, <2>1 DEF OwnInv
<1>12. VarInv'
  BY <1>0, <1>1, <1>2, <1>10 DEF VarInv
<1> QED
  BY <1>7, <1>9, <1>11, <1>12 DEF QInv

LEMMA RetireStep ==
  ASSUME QInv, NEW t \in Thread, Retire(t)
  PROVE  QInv'
<1> DEFINE s == Top(t).svc
           f == F("Release", s)
<1>0. VarInv /\ StackInv /\ AdjInv /\ RefInv /\ GoneInv /\ TurnInv /\ OwnInv /\ QuitMeansOver
  BY DEF QInv
<1>1. /\ Top(t).at = "Retire" /\ s \in Sid /\ stack \in Stacks /\ stack[t] # << >>
      /\ \A z, P : Cnt(stack, z, P) \in Nat
      /\ t # Socket
  BY <1>0, TopGood DEF Retire, At, Resting, Outer
<1>2. /\ registered' = registered \ {s}
      /\ IF s \in registered THEN Becomes(t, <<f>>) ELSE Becomes(t, << >>)
      /\ ctx' = ctx /\ ref' = ref /\ mqueue' = mqueue /\ in_global' = in_global /\ release' = release /\ freed' = freed /\ global' = global /\ asleep' = asleep /\ quit' = quit /\ source' = source /\ done' = done
  BY DEF Retire, Return, qvars, msgvars
<1>3. f \in Good /\ f.at = "Release" /\ f.svc = s
  BY <1>1, GoodFrames DEF F, Points, Resting
<1>4. Top(t).svc \notin registered'
  BY <1>2
<1> HIDE DEF f, s
<1>5. CASE s \in registered
  <2>1. Becomes(t, <<f>>)
    BY <1>2, <1>5
  <2>2. \A z, P : Cnt(stack', z, P) = Cnt(stack, z, P) - N(Top(t), z, P) + N(f, z, P)
    BY <1>1, <1>3, <2>1, Becomes1
  <2>3. StackInv' /\ AdjInv'
    <3>1. Fine(<<f>>, 1, ctx', registered')
      BY <1>3 DEF Fine
    <3> QED
      BY <1>0, <1>1, <1>2, <1>3, <1>4, <2>1, <3>1, Shape1 DEF Bottom, Resting
  <2>4. \A z \in Sid : /\ Cnt(stack', z, Holding) = Cnt(stack, z, Holding) + (IF z = s THEN 1 ELSE 0)
                     /\ Cnt(stack', z, Owning) = Cnt(stack, z, Owning)
                     /\ Cnt(stack', z, {"Delete"}) = Cnt(stack, z, {"Delete"})
                     /\ Cnt(stack', z, {"Drop"}) = Cnt(stack, z, {"Drop"})
                     /\ Cnt(stack', z, Turn) = Cnt(stack, z, Turn)
                     /\ Cnt(stack', z, Launching) = Cnt(stack, z, Launching)
    BY <1>1, <1>3, <2>2, Weighs DEF s, Holding, Owning, Turn, Launching
  <2>5. RefInv'
    <3> SUFFICES ASSUME NEW z \in Sid
        PROVE  ref[z] = One(z \in registered') + Cnt(stack', z, Holding)
      BY <1>0, <1>2, <2>4 DEF RefInv
    <3>1. CASE z = s
      <4>1. z \in registered /\ z \notin registered'
        BY <1>2, <1>5, <3>1
      <4> QED
        BY <1>0, <1>1, <2>4, <3>1, <4>1 DEF RefInv, One
    <3>2. CASE z # s
      <4>1. (z \in registered' <=> z \in registered) /\ Cnt(stack', z, Holding) = Cnt(stack, z, Holding)
        BY <1>1, <1>2, <2>4, <3>2
      <4> QED
        BY <1>0, <4>1 DEF RefInv, One
    <3> QED
      BY <3>1, <3>2
  <2>6. OwnInv'
    BY <1>0, <1>2, <2>4, OwnKept
  <2>7. GoneInv' /\ TurnInv' /\ QuitMeansOver'
    BY <1>0, <1>2, <2>4 DEF GoneInv, TurnInv, QuitMeansOver
  <2>8. VarInv'
    BY <1>0, <1>1, <1>2 DEF VarInv
  <2> QED
    BY <2>3, <2>5, <2>6, <2>7, <2>8 DEF QInv
<1>6. CASE s \notin registered
  <2>1. Becomes(t, << >>) /\ registered' = registered
    BY <1>2, <1>6
  <2>2. \A z, P : Cnt(stack', z, P) = Cnt(stack, z, P) - N(Top(t), z, P)
    BY <1>1, <2>1, Becomes0
  <2>3. StackInv' /\ AdjInv'
    BY <1>0, <1>1, <1>2, <1>4, <2>1, Shape0 DEF Bottom, Resting
  <2>4. \A z \in Sid : /\ Cnt(stack', z, Holding) = Cnt(stack, z, Holding)
                     /\ Cnt(stack', z, Owning) = Cnt(stack, z, Owning)
                     /\ Cnt(stack', z, {"Delete"}) = Cnt(stack, z, {"Delete"})
                     /\ Cnt(stack', z, {"Drop"}) = Cnt(stack, z, {"Drop"})
                     /\ Cnt(stack', z, Turn) = Cnt(stack, z, Turn)
                     /\ Cnt(stack', z, Launching) = Cnt(stack, z, Launching)
    BY <1>1, <2>2, Weighs DEF s, Holding, Owning, Turn, Launching
  <2>5. OwnInv'
    BY <1>0, <1>2, <2>4, OwnKept
  <2>6. RefInv' /\ GoneInv' /\ TurnInv' /\ QuitMeansOver'
    BY <1>0, <1>2, <2>1, <2>4 DEF RefInv, GoneInv, TurnInv, QuitMeansOver
  <2>7. VarInv'
    BY <1>0, <1>1, <1>2 DEF VarInv
  <2> QED
    BY <2>3, <2>5, <2>6, <2>7 DEF QInv
<1> QED
  BY <1>5, <1>6

(* A service that is found is grabbed. *)
LEMMA RefGain ==
  ASSUME QInv, NEW s \in registered, ref' = [ref EXCEPT ![s] = @ + 1],
         registered' = registered, ctx' = ctx,
         \A z \in Sid :
           /\ Cnt(stack', z, Holding) = Cnt(stack, z, Holding) + (IF z = s THEN 1 ELSE 0)
           /\ Cnt(stack', z, {"Delete"}) = Cnt(stack, z, {"Delete"})
  PROVE  RefInv' /\ ref' \in [Sid -> Nat]
<1>1. /\ RefInv /\ ref \in [Sid -> Nat] /\ s \in Sid /\ ref[s] > 0 /\ ctx[s] \in {"init", "live"}
      /\ Cnt(stack, s, {"Delete"}) = 0 /\ stack \in Stacks
      /\ \A z, P : Cnt(stack, z, P) \in Nat
  BY Registered, FramesFinite DEF QInv, VarInv, StackInv
<1>2. ASSUME NEW z \in Sid
      PROVE  /\ ref'[z] = One(z \in registered) + Cnt(stack', z, Holding)
             /\ ctx[z] \in {"init", "live"} <=> ref'[z] > 0 \/ Cnt(stack', z, {"Delete"}) > 0
             /\ Cnt(stack', z, {"Delete"}) > 0 => ref'[z] = 0
             /\ Cnt(stack', z, {"Delete"}) <= 1
  <2>1. CASE z = s
    <3>1. ref'[z] = ref[z] + 1
      BY <1>1, <2>1
    <3>2. /\ Cnt(stack', z, Holding) = Cnt(stack, z, Holding) + 1
          /\ Cnt(stack', z, {"Delete"}) = 0
      BY <1>1, <2>1
    <3>3. ref[z] = One(z \in registered) + Cnt(stack, z, Holding)
      BY <1>1 DEF RefInv
    <3> QED
      BY <1>1, <2>1, <3>1, <3>2, <3>3 DEF One
  <2>2. CASE z # s
    <3>1. ref'[z] = ref[z]
      BY <1>1, <2>2
    <3>2. /\ Cnt(stack', z, Holding) = Cnt(stack, z, Holding)
          /\ Cnt(stack', z, {"Delete"}) = Cnt(stack, z, {"Delete"})
      BY <1>1, <2>2
    <3> QED
      BY <1>1, <3>1, <3>2 DEF RefInv
  <2> QED
    BY <2>1, <2>2
<1>3. RefInv'
  BY <1>2 DEF RefInv
<1>4. ref' \in [Sid -> Nat]
  BY <1>1
<1> QED
  BY <1>3, <1>4

LEMMA KillStep ==
  ASSUME QInv, NEW t \in Thread, NEW s \in Sid, Kill(t, s)
  PROVE  QInv'
<1> DEFINE f == F("Retire", s)
<1>0. VarInv /\ StackInv /\ AdjInv /\ RefInv /\ GoneInv /\ TurnInv /\ OwnInv /\ QuitMeansOver
  BY DEF QInv
<1>1. /\ Top(t).at \in {"Callback", "Init"} /\ stack \in Stacks
      /\ \A z, P : Cnt(stack, z, P) \in Nat
      /\ t # Socket
  BY <1>0, TopGood DEF Kill, InCallback, At, Resting, Outer
<1>2. /\ Call(t, <<f>>)
      /\ registered' = registered /\ ctx' = ctx /\ ref' = ref /\ mqueue' = mqueue /\ in_global' = in_global /\ release' = release /\ freed' = freed /\ global' = global /\ asleep' = asleep /\ quit' = quit /\ source' = source /\ done' = done
  BY DEF Kill, hvars, qvars, msgvars
<1>3. f \in Good /\ f.at = "Retire" /\ f.svc = s
  BY <1>1, GoodFrames DEF F, Points, Resting
<1> HIDE DEF f
<1>4. StackInv' /\ AdjInv' /\ \A z, P : Cnt(stack', z, P) = Cnt(stack, z, P) + N(f, z, P)
  BY <1>0, <1>1, <1>2, <1>3, ShapeCall
<1>5. \A z \in Sid : /\ Cnt(stack', z, Holding) = Cnt(stack, z, Holding)
                     /\ Cnt(stack', z, Owning) = Cnt(stack, z, Owning)
                     /\ Cnt(stack', z, {"Delete"}) = Cnt(stack, z, {"Delete"})
                     /\ Cnt(stack', z, {"Drop"}) = Cnt(stack, z, {"Drop"})
                     /\ Cnt(stack', z, Turn) = Cnt(stack, z, Turn)
                     /\ Cnt(stack', z, Launching) = Cnt(stack, z, Launching)
  BY <1>1, <1>3, <1>4, Weighs DEF Holding, Owning, Turn, Launching
<1>6. OwnInv'
  BY <1>0, <1>2, <1>5, OwnKept
<1>7. RefInv' /\ GoneInv' /\ TurnInv' /\ QuitMeansOver'
  BY <1>0, <1>2, <1>5 DEF RefInv, GoneInv, TurnInv, QuitMeansOver
<1>8. VarInv'
  BY <1>0, <1>2 DEF VarInv
<1> QED
  BY <1>4, <1>6, <1>7, <1>8 DEF QInv

LEMMA SendStep ==
  ASSUME QInv, NEW t \in Thread, NEW s \in Sid, NEW m \in Msg, Send(t, s, m)
  PROVE  QInv'
<1> DEFINE f == [F("Push", s) EXCEPT !.msg = Say(m)]
<1>0. VarInv /\ StackInv /\ AdjInv /\ RefInv /\ GoneInv /\ TurnInv /\ OwnInv /\ QuitMeansOver
  BY DEF QInv
<1>1. /\ Top(t).at \in {"Callback", "Init", "Outside"} /\ stack \in Stacks
      /\ \A z, P : Cnt(stack, z, P) \in Nat
      /\ Top(t).svc \in Sid \cup {Nobody}
  BY <1>0, TopGood DEF Send, InCallback, At, Resting, Frame
<1>2. /\ source' = [source EXCEPT ![m] = Top(t).svc]
      /\ registered' = registered /\ ctx' = ctx /\ mqueue' = mqueue /\ in_global' = in_global /\ release' = release /\ freed' = freed /\ global' = global /\ asleep' = asleep /\ quit' = quit
  BY DEF Send, qvars
<1>3. Say(m) \in Mail
  BY DEF Mail
<1>4. f \in Good /\ f.at = "Push" /\ f.svc = s
  BY <1>3, GoodFrames DEF F, Points, Resting
<1>5. source' \in [Msg -> Sid \cup {Nobody, Unsent}]
  BY <1>0, <1>1, <1>2 DEF VarInv
<1>6. CASE s \in registered
  <2>1. ref' = [ref EXCEPT ![s] = @ + 1] /\ Call(t, <<f>>) /\ done' = done
    BY <1>6 DEF Send
  <2> HIDE DEF f
  <2>2. StackInv' /\ AdjInv' /\ \A z, P : Cnt(stack', z, P) = Cnt(stack, z, P) + N(f, z, P)
    BY <1>0, <1>1, <1>2, <1>4, <2>1, ShapeCall DEF Outer
  <2>3. \A z \in Sid : /\ Cnt(stack', z, Holding) = Cnt(stack, z, Holding) + (IF z = s THEN 1 ELSE 0)
                     /\ Cnt(stack', z, Owning) = Cnt(stack, z, Owning)
                     /\ Cnt(stack', z, {"Delete"}) = Cnt(stack, z, {"Delete"})
                     /\ Cnt(stack', z, {"Drop"}) = Cnt(stack, z, {"Drop"})
                     /\ Cnt(stack', z, Turn) = Cnt(stack, z, Turn)
                     /\ Cnt(stack', z, Launching) = Cnt(stack, z, Launching)
    BY <1>1, <1>4, <2>2, Weighs DEF Holding, Owning, Turn, Launching
  <2>4. OwnInv'
    BY <1>0, <1>2, <2>3, OwnKept
  <2>5. RefInv' /\ ref' \in [Sid -> Nat]
    BY <1>2, <1>6, <2>1, <2>3, RefGain
  <2>6. GoneInv' /\ TurnInv' /\ QuitMeansOver'
    BY <1>0, <1>2, <2>3 DEF GoneInv, TurnInv, QuitMeansOver
  <2>7. VarInv'
    BY <1>0, <1>2, <1>5, <2>1, <2>5 DEF VarInv
  <2> QED
    BY <2>2, <2>4, <2>5, <2>6, <2>7 DEF QInv
<1>7. CASE s \notin registered
  <2>1. ref' = ref /\ stack' = stack /\ done' = done \cup {Say(m)}
    BY <1>7 DEF Send
  <2>2. StackInv' /\ AdjInv' /\ RefInv' /\ GoneInv' /\ TurnInv' /\ OwnInv' /\ QuitMeansOver'
    BY <1>0, <1>2, <2>1 DEF StackInv, AdjInv, RefInv, GoneInv, TurnInv, OwnInv, QuitMeansOver
  <2>3. VarInv'
    BY <1>0, <1>2, <1>3, <1>5, <2>1 DEF VarInv
  <2> QED
    BY <2>2, <2>3 DEF QInv
<1> QED
  BY <1>6, <1>7

LEMMA LaunchStep ==
  ASSUME QInv, NEW t \in Thread, NEW s \in Sid, Launch(t, s)
  PROVE  QInv'
<1> DEFINE f == F("Init", s)
<1>0. VarInv /\ StackInv /\ AdjInv /\ RefInv /\ GoneInv /\ TurnInv /\ OwnInv /\ QuitMeansOver
  BY DEF QInv
<1>1. /\ Top(t).at \in {"Callback", "Init"} /\ Top(t).svc \in Sid /\ stack \in Stacks
      /\ \A z, P : Cnt(stack, z, P) \in Nat
      /\ t # Socket /\ Cnt(stack, Top(t).svc, Holding) > 0
  BY <1>0, TopGood DEF Launch, InCallback, At, Resting, Outer, Holding
<1>2. /\ ctx[s] = "none" /\ registered' = registered \cup {s}
      /\ ctx' = [ctx EXCEPT ![s] = "init"] /\ ref' = [ref EXCEPT ![s] = 2]
      /\ in_global' = [in_global EXCEPT ![s] = TRUE]
      /\ Call(t, <<f>>)
      /\ mqueue' = mqueue /\ release' = release /\ freed' = freed /\ global' = global /\ asleep' = asleep /\ quit' = quit /\ source' = source /\ done' = done
  BY DEF Launch, msgvars
<1>3. f \in Good /\ f.at = "Init" /\ f.svc = s
  BY <1>1, GoodFrames DEF F, Points, Resting
<1>4. ~quit
  BY <1>1, Held
<1> HIDE DEF f
(* Nothing is known of a service before it is launched. *)
<1>5. /\ ref[s] = 0 /\ s \notin registered /\ ~release[s] /\ ~freed[s]
      /\ Cnt(stack, s, Holding) = 0 /\ Cnt(stack, s, {"Delete"}) = 0 /\ Cnt(stack, s, Turn) = 0
  <2>0. ~(ref[s] > 0) /\ ~(Cnt(stack, s, {"Delete"}) > 0) /\ ref[s] \in Nat
    BY <1>0, <1>2 DEF RefInv, VarInv
  <2>1. ref[s] = 0 /\ Cnt(stack, s, {"Delete"}) = 0
    BY <1>1, <2>0
  <2>2. ref[s] = One(s \in registered) + Cnt(stack, s, Holding)
    BY <1>0 DEF RefInv
  <2>3. s \notin registered /\ Cnt(stack, s, Holding) = 0
    BY <1>1, <2>1, <2>2 DEF One
  <2>4. ~release[s] /\ ~freed[s]
    BY <1>0, <1>2 DEF GoneInv
  <2>5. Cnt(stack, s, Turn) = 0
    BY <1>0, <1>1, <1>2 DEF TurnInv
  <2> QED
    BY <2>1, <2>3, <2>4, <2>5
<1>6. G(global, s) \in Nat /\ G(global, s) = 0 /\ Cnt(stack, s, Owning) = 0
  <2>1. G(global, s) + Cnt(stack, s, Owning) = 0
    BY <1>0, <1>2, <1>4 DEF OwnInv, One
  <2>2. G(global, s) \in Nat
    BY <1>0, PlacesFinite DEF VarInv
  <2> QED
    BY <1>1, <2>1, <2>2
<1>7. Cnt(stack, s, {"LaunchPush"}) = 0 /\ Cnt(stack, s, {"MqRelease"}) = 0
  <2>1. {"LaunchPush"} \subseteq Owning /\ {"MqRelease"} \subseteq Owning
    BY DEF Owning
  <2>2. Cnt(stack, s, {"LaunchPush"}) <= 0 /\ Cnt(stack, s, {"MqRelease"}) <= 0
    BY <1>1, <1>6, <2>1, CntSub
  <2> QED
    BY <1>1, <2>2
<1>8. ctx'[s] = "init" /\ \A z \in Sid : z # s => ctx'[z] = ctx[z]
  BY <1>0, <1>2 DEF VarInv
<1>9. StackInv' /\ AdjInv' /\ \A z, P : Cnt(stack', z, P) = Cnt(stack, z, P) + N(f, z, P)
  <2>1. \A z \in Sid : /\ Cnt(stack, z, {"LaunchPush"}) > 0 /\ ctx'[z] = "init" => ctx[z] = "init"
                       /\ Cnt(stack, z, {"MqRelease"}) > 0 /\ z \in registered' => z \in registered
    BY <1>2, <1>7, <1>8
  <2> QED
    BY <1>0, <1>1, <1>2, <1>3, <2>1, ShapeCall
<1>10. \A z \in Sid : /\ Cnt(stack', z, Holding) = Cnt(stack, z, Holding) + (IF z = s THEN 1 ELSE 0)
                     /\ Cnt(stack', z, Owning) = Cnt(stack, z, Owning) + (IF z = s THEN 1 ELSE 0)
                     /\ Cnt(stack', z, {"Delete"}) = Cnt(stack, z, {"Delete"})
                     /\ Cnt(stack', z, {"Drop"}) = Cnt(stack, z, {"Drop"})
                     /\ Cnt(stack', z, Turn) = Cnt(stack, z, Turn)
                     /\ Cnt(stack', z, Launching) = Cnt(stack, z, Launching) + (IF z = s THEN 1 ELSE 0)
  BY <1>1, <1>3, <1>9, Weighs DEF Holding, Owning, Turn, Launching
<1>11. ASSUME NEW z \in Sid, z # s
       PROVE  /\ ref'[z] = ref[z] /\ ctx'[z] = ctx[z] /\ (z \in registered' <=> z \in registered)
              /\ in_global'[z] = in_global[z]
              /\ Cnt(stack', z, Holding) = Cnt(stack, z, Holding)
              /\ Cnt(stack', z, Owning) = Cnt(stack, z, Owning)
              /\ Cnt(stack', z, Launching) = Cnt(stack, z, Launching)
  <2>1. ref'[z] = ref[z] /\ in_global'[z] = in_global[z]
    BY <1>0, <1>2, <1>11 DEF VarInv
  <2>2. ctx'[z] = ctx[z] /\ (z \in registered' <=> z \in registered)
    BY <1>2, <1>8, <1>11
  <2>3. /\ Cnt(stack', z, Holding) = Cnt(stack, z, Holding)
        /\ Cnt(stack', z, Owning) = Cnt(stack, z, Owning)
        /\ Cnt(stack', z, Launching) = Cnt(stack, z, Launching)
    BY <1>1, <1>10, <1>11
  <2> QED
    BY <2>1, <2>2, <2>3
<1>12. /\ ref'[s] = 2 /\ s \in registered' /\ in_global'[s]
       /\ Cnt(stack', s, Holding) = 1 /\ Cnt(stack', s, Owning) = 1 /\ Cnt(stack', s, Launching) > 0
  <2>1. ref'[s] = 2 /\ s \in registered' /\ in_global'[s]
    BY <1>0, <1>2 DEF VarInv
  <2>2. Cnt(stack', s, Holding) = 1 /\ Cnt(stack', s, Owning) = 1 /\ Cnt(stack', s, Launching) > 0
    BY <1>1, <1>5, <1>6, <1>10
  <2> QED
    BY <2>1, <2>2
<1>13. RefInv'
  <2> SUFFICES ASSUME NEW z \in Sid
      PROVE  /\ ref'[z] = One(z \in registered') + Cnt(stack', z, Holding)
             /\ ctx'[z] \in {"init", "live"} <=> ref'[z] > 0 \/ Cnt(stack', z, {"Delete"}) > 0
             /\ Cnt(stack', z, {"Delete"}) > 0 => ref'[z] = 0
             /\ Cnt(stack', z, {"Delete"}) <= 1
    BY DEF RefInv
  <2>1. Cnt(stack', z, {"Delete"}) = Cnt(stack, z, {"Delete"})
    BY <1>10
  <2>2. CASE z = s
    BY <1>5, <1>8, <1>12, <2>1, <2>2 DEF One
  <2>3. CASE z # s
    BY <1>0, <1>11, <2>1, <2>3 DEF RefInv, One
  <2> QED
    BY <2>2, <2>3
<1>14. GoneInv'
  <2>1. \A z \in Sid : Cnt(stack', z, {"Drop"}) = Cnt(stack, z, {"Drop"})
    BY <1>10
  <2> QED
    BY <1>0, <1>2, <1>5, <1>8, <2>1 DEF GoneInv
<1>15. TurnInv'
  <2> SUFFICES ASSUME NEW z \in Sid
      PROVE  /\ Cnt(stack', z, Turn) > 0 => ctx'[z] = "live"
             /\ ctx'[z] = "init" /\ z \in registered' => Cnt(stack', z, Launching) > 0
    BY DEF TurnInv
  <2>1. Cnt(stack', z, Turn) = Cnt(stack, z, Turn)
    BY <1>10
  <2>2. CASE z = s
    BY <1>5, <1>12, <2>1, <2>2
  <2>3. CASE z # s
    BY <1>0, <1>11, <2>1, <2>3 DEF TurnInv
  <2> QED
    BY <2>2, <2>3
<1>16. OwnInv'
  <2> SUFFICES ASSUME NEW z \in Sid
      PROVE  G(global, z) + Cnt(stack', z, Owning)
               = One(ctx'[z] # "none" /\ ~freed[z] /\ (in_global'[z] \/ release[z]))
    BY <1>2 DEF OwnInv
  <2>1. CASE z = s
    BY <1>5, <1>6, <1>8, <1>12, <2>1 DEF One
  <2>2. CASE z # s
    BY <1>0, <1>4, <1>11, <2>2 DEF OwnInv
  <2> QED
    BY <2>1, <2>2
<1>17. QuitMeansOver'
  BY <1>2, <1>4 DEF QuitMeansOver
<1>18. VarInv'
  <2>1. ref' \in [Sid -> Nat] /\ ctx' \in [Sid -> {"none", "init", "live", "freed"}]
    BY <1>0, <1>2 DEF VarInv
  <2> QED
    BY <1>0, <1>2, <2>1 DEF VarInv
<1> QED
  BY <1>9, <1>13, <1>14, <1>15, <1>16, <1>17, <1>18 DEF QInv

LEMMA OneTheOther ==
  ASSUME NEW a \in Nat, NEW b \in Nat, NEW s, NEW z
  PROVE  (a + (IF s = z THEN 1 ELSE 0)) + (b - (IF z = s THEN 1 ELSE 0)) = a + b
OBVIOUS

LEMMA InitDoneStep ==
  ASSUME QInv, NEW t \in Thread, InitDone(t)
  PROVE  QInv'
<1> DEFINE s == Top(t).svc
           a == F("LaunchRelease", s)
           f == F("Release", s)
           g == F("Retire", s)
           h == F("MqRelease", s)
<1>0. VarInv /\ StackInv /\ AdjInv /\ RefInv /\ GoneInv /\ TurnInv /\ OwnInv /\ QuitMeansOver
  BY DEF QInv
<1>1. /\ Top(t).at = "Init" /\ s \in Sid /\ stack \in Stacks /\ stack[t] # << >>
      /\ \A z, P : Cnt(stack, z, P) \in Nat
  BY <1>0, TopGood DEF InitDone, At, Resting
<1>2. /\ Becomes(t, <<a>>) \/ Becomes(t, <<f, g, h>>)
      /\ registered' = registered /\ ctx' = ctx /\ ref' = ref /\ mqueue' = mqueue /\ in_global' = in_global /\ release' = release /\ freed' = freed /\ global' = global /\ asleep' = asleep /\ quit' = quit /\ source' = source /\ done' = done
  BY DEF InitDone, hvars, qvars, msgvars
<1>3. /\ a \in Good /\ a.at = "LaunchRelease" /\ a.svc = s
      /\ f \in Good /\ f.at = "Release" /\ f.svc = s
      /\ g \in Good /\ g.at = "Retire" /\ g.svc = s
      /\ h \in Good /\ h.at = "MqRelease" /\ h.svc = s
  BY <1>1, GoodFrames DEF F, Points, Resting
<1> HIDE DEF a, f, g, h, s
<1>4. StackInv' /\ AdjInv' /\ \A z \in Sid : /\ Cnt(stack', z, Holding) = Cnt(stack, z, Holding)
                     /\ Cnt(stack', z, Owning) = Cnt(stack, z, Owning)
                     /\ Cnt(stack', z, {"Delete"}) = Cnt(stack, z, {"Delete"})
                     /\ Cnt(stack', z, {"Drop"}) = Cnt(stack, z, {"Drop"})
                     /\ Cnt(stack', z, Turn) = Cnt(stack, z, Turn)
                     /\ Cnt(stack', z, Launching) = Cnt(stack, z, Launching)
  <2>1. CASE Becomes(t, <<a>>)
    <3>1. \A z, P : Cnt(stack', z, P) = Cnt(stack, z, P) - N(Top(t), z, P) + N(a, z, P)
      BY <1>1, <1>3, <2>1, Becomes1
    <3>2. StackInv' /\ AdjInv'
      <4>1. t # Socket
        BY <1>0, <1>1, TopGood DEF Outer
      <4> QED
        BY <1>0, <1>1, <1>2, <1>3, <2>1, <4>1, Shape1 DEF Fine, Bottom, Resting
    <3> QED
      BY <1>1, <1>3, <3>1, <3>2, Weighs DEF s, Holding, Owning, Turn, Launching
  <2>2. CASE Becomes(t, <<f, g, h>>)
    <3>1. \A z, P : Cnt(stack', z, P) =
            Cnt(stack, z, P) - N(Top(t), z, P) + N(h, z, P) + N(g, z, P) + N(f, z, P)
      BY <1>1, <1>3, <2>2, Becomes3
    <3>2. StackInv' /\ AdjInv'
      <4>1. /\ Fine(<<f, g, h>>, 1, ctx', registered') /\ Fine(<<f, g, h>>, 2, ctx', registered')
            /\ Fine(<<f, g, h>>, 3, ctx', registered')
        BY <1>3 DEF Fine, Above
      <4>2. Top(t).at \notin Bottom \cup Outer
        BY <1>1 DEF Bottom, Resting, Outer
      <4> QED
        BY <1>0, <1>1, <1>2, <1>3, <2>2, <4>1, <4>2, Shape3
    <3> QED
      BY <1>1, <1>3, <3>1, <3>2, Weighs DEF s, Holding, Owning, Turn, Launching
  <2> QED
    BY <1>2, <2>1, <2>2
<1>5. OwnInv'
  BY <1>0, <1>2, <1>4, OwnKept
<1>6. RefInv' /\ GoneInv' /\ TurnInv' /\ QuitMeansOver'
  BY <1>0, <1>2, <1>4 DEF RefInv, GoneInv, TurnInv, QuitMeansOver
<1>7. VarInv'
  BY <1>0, <1>2 DEF VarInv
<1> QED
  BY <1>4, <1>5, <1>6, <1>7 DEF QInv

LEMMA LaunchReleaseStep ==
  ASSUME QInv, NEW t \in Thread, LaunchRelease(t)
  PROVE  QInv'
<1> DEFINE s == Top(t).svc
           f == F(IF ref[s] = 1 THEN "Delete" ELSE "SetInit", s)
           g == F("LaunchPush", s)
<1>0. VarInv /\ StackInv /\ AdjInv /\ RefInv /\ GoneInv /\ TurnInv /\ OwnInv /\ QuitMeansOver
  BY DEF QInv
<1>1. /\ Top(t).at = "LaunchRelease" /\ s \in Sid /\ stack \in Stacks /\ stack[t] # << >>
      /\ \A z, P : Cnt(stack, z, P) \in Nat /\ Cnt(stack, s, Holding) > 0
  BY <1>0, TopGood DEF LaunchRelease, At, Resting, Holding
<1>2. /\ ref' = [ref EXCEPT ![s] = @ - 1]
      /\ Becomes(t, <<f, g>>)
      /\ registered' = registered /\ ctx' = ctx /\ mqueue' = mqueue /\ in_global' = in_global /\ release' = release /\ freed' = freed /\ global' = global /\ asleep' = asleep /\ quit' = quit /\ source' = source /\ done' = done
  BY DEF LaunchRelease, qvars, msgvars
<1>3. /\ f \in Good /\ f.svc = s /\ f.at \in {"Delete", "SetInit"} /\ (f.at = "Delete" <=> ref[s] = 1)
      /\ g \in Good /\ g.at = "LaunchPush" /\ g.svc = s
  BY <1>1, GoodFrames DEF F, Points, Resting
<1> HIDE DEF f, g, s
<1>4. \A z, P : Cnt(stack', z, P) = Cnt(stack, z, P) - N(Top(t), z, P) + N(g, z, P) + N(f, z, P)
  BY <1>1, <1>2, <1>3, Becomes2
<1>5. StackInv' /\ AdjInv'
  <2>1. t # Socket
    BY <1>0, <1>1, TopGood DEF Outer
  <2>2. Fine(<<f, g>>, 1, ctx', registered') /\ Fine(<<f, g>>, 2, ctx', registered')
    BY <1>3 DEF Fine, Above
  <2> QED
    BY <1>0, <1>1, <1>2, <1>3, <2>1, <2>2, Shape2 DEF Bottom, Resting
<1>6. \A z \in Sid : /\ Cnt(stack', z, Holding) = Cnt(stack, z, Holding) - (IF z = s THEN 1 ELSE 0)
                     /\ Cnt(stack', z, Owning) = Cnt(stack, z, Owning)
                     /\ Cnt(stack', z, {"Delete"}) = Cnt(stack, z, {"Delete"})
                                         + (IF z = s /\ ref[s] = 1 THEN 1 ELSE 0)
                     /\ Cnt(stack', z, {"Drop"}) = Cnt(stack, z, {"Drop"})
                     /\ Cnt(stack', z, Turn) = Cnt(stack, z, Turn)
                     /\ Cnt(stack', z, Launching) = Cnt(stack, z, Launching)
  <2>1. \A z \in Sid : N(f, z, {"Delete"}) = IF z = s /\ ref[s] = 1 THEN 1 ELSE 0
    BY <1>3, Weighs
  <2>2. \A z \in Sid : /\ N(f, z, Holding) = 0 /\ N(f, z, Owning) = 0 /\ N(f, z, {"Drop"}) = 0
                       /\ N(f, z, Turn) = 0 /\ N(f, z, Launching) = 0
    BY <1>3, Weighs DEF Holding, Owning, Turn, Launching
  <2>3. \A z \in Sid : /\ N(g, z, Holding) = 0 /\ N(g, z, {"Delete"}) = 0 /\ N(g, z, {"Drop"}) = 0
                       /\ N(g, z, Turn) = 0
                       /\ N(g, z, Owning) = IF z = s THEN 1 ELSE 0
                       /\ N(g, z, Launching) = IF z = s THEN 1 ELSE 0
    BY <1>3, Weighs DEF Holding, Owning, Turn, Launching
  <2>4. \A z \in Sid : /\ N(Top(t), z, {"Delete"}) = 0 /\ N(Top(t), z, {"Drop"}) = 0
                       /\ N(Top(t), z, Turn) = 0
                       /\ N(Top(t), z, Holding) = IF z = s THEN 1 ELSE 0
                       /\ N(Top(t), z, Owning) = IF z = s THEN 1 ELSE 0
                       /\ N(Top(t), z, Launching) = IF z = s THEN 1 ELSE 0
    BY <1>1, Weighs DEF s, Holding, Owning, Turn, Launching
  <2> QED
    BY <1>1, <1>4, <2>1, <2>2, <2>3, <2>4
<1>7. RefInv' /\ ref' \in [Sid -> Nat]
  BY <1>1, <1>2, <1>6, RefLess
<1>8. OwnInv'
  BY <1>0, <1>2, <1>6, OwnKept
<1>9. GoneInv' /\ TurnInv' /\ QuitMeansOver'
  BY <1>0, <1>2, <1>6 DEF GoneInv, TurnInv, QuitMeansOver
<1>10. VarInv'
  BY <1>0, <1>2, <1>7 DEF VarInv
<1> QED
  BY <1>5, <1>7, <1>8, <1>9, <1>10 DEF QInv

LEMMA SetInitStep ==
  ASSUME QInv, NEW t \in Thread, SetInit(t)
  PROVE  QInv'
<1> DEFINE s == Top(t).svc
<1>0. VarInv /\ StackInv /\ AdjInv /\ RefInv /\ GoneInv /\ TurnInv /\ OwnInv /\ QuitMeansOver
  BY DEF QInv
<1>1. /\ Top(t).at = "SetInit" /\ s \in Sid /\ stack \in Stacks /\ stack[t] # << >>
      /\ \A z, P : Cnt(stack, z, P) \in Nat
  BY <1>0, TopGood DEF SetInit, At, Resting
<1>2. /\ ctx' = [ctx EXCEPT ![s] = IF @ = "init" THEN "live" ELSE @]
      /\ Becomes(t, << >>)
      /\ registered' = registered /\ ref' = ref /\ mqueue' = mqueue /\ in_global' = in_global /\ release' = release /\ freed' = freed /\ global' = global /\ asleep' = asleep /\ quit' = quit /\ source' = source /\ done' = done
  BY DEF SetInit, Return, qvars, msgvars
<1> HIDE DEF s
<1>3. /\ ctx'[s] = (IF ctx[s] = "init" THEN "live" ELSE ctx[s])
      /\ \A z \in Sid : z # s => ctx'[z] = ctx[z]
  BY <1>0, <1>1, <1>2 DEF VarInv
<1>4. \A z, P : Cnt(stack', z, P) = Cnt(stack, z, P) - N(Top(t), z, P)
  BY <1>1, <1>2, Becomes0
<1>5. StackInv' /\ AdjInv'
  <2>1. \A z \in Sid : ctx'[z] = "init" => ctx[z] = "init"
    BY <1>3
  <2>2. ctx'[Top(t).svc] # "init"
    BY <1>3 DEF s
  <2> QED
    BY <1>0, <1>1, <1>2, <2>1, <2>2, Shape0 DEF Bottom, Resting
<1>6. \A z \in Sid : /\ Cnt(stack', z, Holding) = Cnt(stack, z, Holding)
                     /\ Cnt(stack', z, Owning) = Cnt(stack, z, Owning)
                     /\ Cnt(stack', z, {"Delete"}) = Cnt(stack, z, {"Delete"})
                     /\ Cnt(stack', z, {"Drop"}) = Cnt(stack, z, {"Drop"})
                     /\ Cnt(stack', z, Turn) = Cnt(stack, z, Turn)
                     /\ Cnt(stack', z, Launching) = Cnt(stack, z, Launching)
  BY <1>1, <1>4, Weighs DEF s, Holding, Owning, Turn, Launching
<1>7. \A z \in Sid : /\ ctx'[z] \in {"init", "live"} <=> ctx[z] \in {"init", "live"}
                     /\ ctx'[z] = "freed" <=> ctx[z] = "freed"
                     /\ ctx'[z] = "none" <=> ctx[z] = "none"
                     /\ ctx[z] = "live" => ctx'[z] = "live"
                     /\ ctx'[z] = "init" => ctx[z] = "init"
  BY <1>3
<1>8. OwnInv'
  BY <1>0, <1>2, <1>6, <1>7, OwnKept
<1>9. RefInv' /\ GoneInv' /\ TurnInv' /\ QuitMeansOver'
  <2>1. RefInv'
    BY <1>0, <1>2, <1>6, <1>7 DEF RefInv
  <2>2. GoneInv'
    BY <1>0, <1>2, <1>6, <1>7 DEF GoneInv
  <2>3. TurnInv'
    BY <1>0, <1>2, <1>6, <1>7 DEF TurnInv
  <2>4. QuitMeansOver'
    BY <1>0, <1>2, <1>7 DEF QuitMeansOver
  <2> QED
    BY <2>1, <2>2, <2>3, <2>4
<1>10. VarInv'
  BY <1>0, <1>1, <1>2 DEF VarInv
<1> QED
  BY <1>5, <1>8, <1>9, <1>10 DEF QInv

LEMMA LaunchPushStep ==
  ASSUME QInv, NEW t \in Thread, LaunchPush(t)
  PROVE  QInv'
<1> DEFINE s == Top(t).svc
<1>0. VarInv /\ StackInv /\ AdjInv /\ RefInv /\ GoneInv /\ TurnInv /\ OwnInv /\ QuitMeansOver
  BY DEF QInv
<1>1. /\ Top(t).at = "LaunchPush" /\ s \in Sid /\ stack \in Stacks /\ stack[t] # << >>
      /\ \A z, P : Cnt(stack, z, P) \in Nat /\ ctx[s] # "init"
  BY <1>0, TopGood, TopFine DEF LaunchPush, At, Resting
<1>2. /\ global' = Append(global, s)
      /\ Becomes(t, << >>)
      /\ registered' = registered /\ ctx' = ctx /\ ref' = ref /\ mqueue' = mqueue /\ in_global' = in_global /\ release' = release /\ freed' = freed /\ asleep' = asleep /\ quit' = quit /\ source' = source /\ done' = done
  BY DEF LaunchPush, Return, hvars, msgvars
<1> HIDE DEF s
<1>3. \A z, P : Cnt(stack', z, P) = Cnt(stack, z, P) - N(Top(t), z, P)
  BY <1>1, <1>2, Becomes0
<1>4. StackInv' /\ AdjInv'
  BY <1>0, <1>1, <1>2, Shape0 DEF Bottom, Resting
<1>5. \A z \in Sid : /\ Cnt(stack', z, Holding) = Cnt(stack, z, Holding)
                     /\ Cnt(stack', z, Owning) = Cnt(stack, z, Owning) - (IF z = s THEN 1 ELSE 0)
                     /\ Cnt(stack', z, {"Delete"}) = Cnt(stack, z, {"Delete"})
                     /\ Cnt(stack', z, {"Drop"}) = Cnt(stack, z, {"Drop"})
                     /\ Cnt(stack', z, Turn) = Cnt(stack, z, Turn)
                     /\ Cnt(stack', z, Launching) = Cnt(stack, z, Launching) - (IF z = s THEN 1 ELSE 0)
  <2>1. \A z \in Sid : /\ N(Top(t), z, Holding) = 0 /\ N(Top(t), z, {"Delete"}) = 0
                       /\ N(Top(t), z, {"Drop"}) = 0 /\ N(Top(t), z, Turn) = 0
                       /\ N(Top(t), z, Owning) = IF z = s THEN 1 ELSE 0
                       /\ N(Top(t), z, Launching) = IF z = s THEN 1 ELSE 0
    BY <1>1, Weighs DEF s, Holding, Owning, Turn, Launching
  <2> QED
    BY <1>1, <1>3, <2>1
<1>6. global' \in Seq(Sid) /\ \A z : G(global', z) = G(global, z) + (IF s = z THEN 1 ELSE 0)
  BY <1>0, <1>1, <1>2, PlacesAppend DEF VarInv
<1>7. OwnInv'
  <2>1. \A z \in Sid : G(global, z) \in Nat
    BY <1>0, PlacesFinite DEF VarInv
  <2>2. ASSUME NEW z \in Sid
        PROVE  G(global', z) + Cnt(stack', z, Owning) = G(global, z) + Cnt(stack, z, Owning)
    <3>1. G(global, z) \in Nat /\ Cnt(stack, z, Owning) \in Nat
      BY <1>1, <2>1
    <3>2. /\ G(global', z) = G(global, z) + (IF s = z THEN 1 ELSE 0)
          /\ Cnt(stack', z, Owning) = Cnt(stack, z, Owning) - (IF z = s THEN 1 ELSE 0)
      BY <1>5, <1>6
    <3> QED
      BY <3>1, <3>2, OneTheOther
  <2> QED
    BY <1>0, <1>2, <2>2, OwnKept
<1>8. RefInv' /\ GoneInv' /\ TurnInv' /\ QuitMeansOver'
  <2>1. TurnInv'
    BY <1>0, <1>1, <1>2, <1>5 DEF TurnInv
  <2> QED
    BY <1>0, <1>2, <1>5, <2>1 DEF RefInv, GoneInv, QuitMeansOver
<1>9. VarInv'
  BY <1>0, <1>2, <1>6 DEF VarInv
<1> QED
  BY <1>4, <1>7, <1>8, <1>9 DEF QInv

LEMMA MqReleaseStep ==
  ASSUME QInv, NEW t \in Thread, MqRelease(t)
  PROVE  QInv'
<1> DEFINE s == Top(t).svc
           f == F("Drop", s)
<1>0. VarInv /\ StackInv /\ AdjInv /\ RefInv /\ GoneInv /\ TurnInv /\ OwnInv /\ QuitMeansOver
  BY DEF QInv
<1>1. /\ Top(t).at = "MqRelease" /\ s \in Sid /\ stack \in Stacks /\ stack[t] # << >>
      /\ \A z, P : Cnt(stack, z, P) \in Nat /\ s \notin registered /\ t # Socket
  BY <1>0, TopGood, TopFine DEF MqRelease, At, Resting, Outer
<1>2. /\ \/ release[s] /\ Becomes(t, <<f>>) /\ global' = global
         \/ ~release[s] /\ Becomes(t, << >>) /\ global' = Append(global, s)
      /\ registered' = registered /\ ctx' = ctx /\ ref' = ref /\ mqueue' = mqueue /\ in_global' = in_global /\ release' = release /\ freed' = freed /\ asleep' = asleep /\ quit' = quit /\ source' = source /\ done' = done
  BY DEF MqRelease, Return, hvars, msgvars
<1>3. f \in Good /\ f.at = "Drop" /\ f.svc = s
  BY <1>1, GoodFrames DEF F, Points, Resting
<1> HIDE DEF f, s
<1>4. CASE release[s] /\ Becomes(t, <<f>>) /\ global' = global
  <2>1. \A z, P : Cnt(stack', z, P) = Cnt(stack, z, P) - N(Top(t), z, P) + N(f, z, P)
    BY <1>1, <1>3, <1>4, Becomes1
  <2>2. StackInv' /\ AdjInv'
    BY <1>0, <1>1, <1>2, <1>3, <1>4, Shape1 DEF Fine, Bottom, Resting
  <2>3. \A z \in Sid : /\ Cnt(stack', z, Holding) = Cnt(stack, z, Holding)
                     /\ Cnt(stack', z, Owning) = Cnt(stack, z, Owning)
                     /\ Cnt(stack', z, {"Delete"}) = Cnt(stack, z, {"Delete"})
                     /\ Cnt(stack', z, {"Drop"}) = Cnt(stack, z, {"Drop"}) + (IF z = s THEN 1 ELSE 0)
                     /\ Cnt(stack', z, Turn) = Cnt(stack, z, Turn)
                     /\ Cnt(stack', z, Launching) = Cnt(stack, z, Launching) - (IF z = s THEN 1 ELSE 0)
    BY <1>1, <1>3, <2>1, Weighs DEF s, Holding, Owning, Turn, Launching
  <2>4. OwnInv'
    BY <1>0, <1>2, <1>4, <2>3, OwnKept
  <2>5. RefInv' /\ QuitMeansOver'
    BY <1>0, <1>2, <2>3 DEF RefInv, QuitMeansOver
  <2>6. GoneInv'
    <3>1. ASSUME NEW z \in Sid, Cnt(stack', z, {"Drop"}) > 0 PROVE release[z]
      <4>1. CASE z = s
        BY <1>4, <4>1
      <4>2. CASE z # s
        <5>1. Cnt(stack, z, {"Drop"}) > 0
          BY <1>1, <2>3, <3>1, <4>2
        <5> QED
          BY <1>0, <5>1 DEF GoneInv
      <4> QED
        BY <4>1, <4>2
    <3> QED
      BY <1>0, <1>2, <3>1 DEF GoneInv
  <2>7. TurnInv'
    BY <1>0, <1>1, <1>2, <2>3 DEF TurnInv
  <2>8. VarInv'
    BY <1>0, <1>2, <1>4 DEF VarInv
  <2> QED
    BY <2>2, <2>4, <2>5, <2>6, <2>7, <2>8 DEF QInv
<1>5. CASE ~release[s] /\ Becomes(t, << >>) /\ global' = Append(global, s)
  <2>1. \A z, P : Cnt(stack', z, P) = Cnt(stack, z, P) - N(Top(t), z, P)
    BY <1>1, <1>5, Becomes0
  <2>2. StackInv' /\ AdjInv'
    BY <1>0, <1>1, <1>2, <1>5, Shape0 DEF Bottom, Resting
  <2>3. \A z \in Sid : /\ Cnt(stack', z, Holding) = Cnt(stack, z, Holding)
                     /\ Cnt(stack', z, Owning) = Cnt(stack, z, Owning) - (IF z = s THEN 1 ELSE 0)
                     /\ Cnt(stack', z, {"Delete"}) = Cnt(stack, z, {"Delete"})
                     /\ Cnt(stack', z, {"Drop"}) = Cnt(stack, z, {"Drop"})
                     /\ Cnt(stack', z, Turn) = Cnt(stack, z, Turn)
                     /\ Cnt(stack', z, Launching) = Cnt(stack, z, Launching) - (IF z = s THEN 1 ELSE 0)
    BY <1>1, <2>1, Weighs DEF s, Holding, Owning, Turn, Launching
  <2>4. global' \in Seq(Sid) /\ \A z : G(global', z) = G(global, z) + (IF s = z THEN 1 ELSE 0)
    BY <1>0, <1>1, <1>5, PlacesAppend DEF VarInv
  <2>5. OwnInv'
    <3>1. \A z \in Sid : G(global, z) \in Nat
      BY <1>0, PlacesFinite DEF VarInv
    <3>2. ASSUME NEW z \in Sid
          PROVE  G(global', z) + Cnt(stack', z, Owning) = G(global, z) + Cnt(stack, z, Owning)
      <4>1. G(global, z) \in Nat /\ Cnt(stack, z, Owning) \in Nat
        BY <1>1, <3>1
      <4>2. /\ G(global', z) = G(global, z) + (IF s = z THEN 1 ELSE 0)
            /\ Cnt(stack', z, Owning) = Cnt(stack, z, Owning) - (IF z = s THEN 1 ELSE 0)
        BY <2>3, <2>4
      <4> QED
        BY <4>1, <4>2, OneTheOther
    <3> QED
      BY <1>0, <1>2, <3>2, OwnKept
  <2>6. TurnInv'
    BY <1>0, <1>1, <1>2, <2>3 DEF TurnInv
  <2>7. RefInv' /\ GoneInv' /\ QuitMeansOver'
    BY <1>0, <1>2, <2>3 DEF RefInv, GoneInv, QuitMeansOver
  <2>8. VarInv'
    BY <1>0, <1>2, <2>4 DEF VarInv
  <2> QED
    BY <2>2, <2>5, <2>6, <2>7, <2>8 DEF QInv
<1> QED
  BY <1>2, <1>4, <1>5

LEMMA MailParts ==
  ASSUME NEW m \in Mail
  PROVE  /\ m[2] \in Msg /\ Say(m[2]) \in Mail /\ Err(m[2]) \in Mail
         /\ m[1] = "msg" => m = Say(m[2])
         /\ m[1] # "msg" => m = Err(m[2])
BY DEF Mail, Say, Err

LEMMA DropStep ==
  ASSUME QInv, NEW t \in Thread, Drop(t)
  PROVE  QInv'
<1> DEFINE s  == Top(t).svc
           m  == Head(mqueue[s])
           to == IF m[1] = "msg" THEN source[m[2]] ELSE Nobody
           f  == [F("Push", to) EXCEPT !.msg = Err(m[2])]
<1>0. VarInv /\ StackInv /\ AdjInv /\ RefInv /\ GoneInv /\ TurnInv /\ OwnInv /\ QuitMeansOver
  BY DEF QInv
<1>1. /\ Top(t).at = "Drop" /\ s \in Sid /\ stack \in Stacks /\ stack[t] # << >>
      /\ \A z, P : Cnt(stack, z, P) \in Nat /\ t # Socket
      /\ Cnt(stack, s, {"Drop"}) > 0 /\ Cnt(stack, s, Owning) > 0
  BY <1>0, TopGood DEF Drop, At, Resting, Outer, Owning
<1>2. /\ registered' = registered /\ ctx' = ctx /\ release' = release /\ global' = global /\ asleep' = asleep /\ quit' = quit /\ source' = source /\ done' = done
      /\ \/ /\ in_global' = [in_global EXCEPT ![s] = FALSE]
            /\ freed' = [freed EXCEPT ![s] = TRUE]
            /\ Becomes(t, << >>)
            /\ ref' = ref /\ mqueue' = mqueue
         \/ /\ mqueue[s] # << >>
            /\ mqueue' = [mqueue EXCEPT ![s] = Tail(@)]
            /\ in_global' = in_global /\ freed' = freed
            /\ \/ to \in registered /\ ref' = [ref EXCEPT ![to] = @ + 1] /\ Call(t, <<f>>)
               \/ ref' = ref /\ stack' = stack
  BY DEF Drop, Return, msgvars
<1>3. release[s] /\ ctx[s] = "freed"
  BY <1>0, <1>1 DEF GoneInv
(* The queue is empty: it is freed, and was nowhere else. *)
<1>4. CASE /\ in_global' = [in_global EXCEPT ![s] = FALSE]
           /\ freed' = [freed EXCEPT ![s] = TRUE]
           /\ Becomes(t, << >>)
           /\ ref' = ref /\ mqueue' = mqueue
  <2> HIDE DEF s, m, to, f
  <2>1. \A z, P : Cnt(stack', z, P) = Cnt(stack, z, P) - N(Top(t), z, P)
    BY <1>1, <1>4, Becomes0
  <2>2. StackInv' /\ AdjInv'
    BY <1>0, <1>1, <1>2, <1>4, Shape0 DEF Bottom, Resting
  <2>3. \A z \in Sid : /\ Cnt(stack', z, Holding) = Cnt(stack, z, Holding)
                     /\ Cnt(stack', z, Owning) = Cnt(stack, z, Owning) - (IF z = s THEN 1 ELSE 0)
                     /\ Cnt(stack', z, {"Delete"}) = Cnt(stack, z, {"Delete"})
                     /\ Cnt(stack', z, {"Drop"}) = Cnt(stack, z, {"Drop"}) - (IF z = s THEN 1 ELSE 0)
                     /\ Cnt(stack', z, Turn) = Cnt(stack, z, Turn)
                     /\ Cnt(stack', z, Launching) = Cnt(stack, z, Launching)
    <3>1. \A z \in Sid : /\ N(Top(t), z, Holding) = 0 /\ N(Top(t), z, {"Delete"}) = 0
                         /\ N(Top(t), z, Turn) = 0 /\ N(Top(t), z, Launching) = 0
                         /\ N(Top(t), z, Owning) = IF z = s THEN 1 ELSE 0
                         /\ N(Top(t), z, {"Drop"}) = IF z = s THEN 1 ELSE 0
      BY <1>1, Weighs DEF s, Holding, Owning, Turn, Launching
    <3> QED
      BY <1>1, <2>1, <3>1
  <2>4. /\ ~in_global'[s] /\ freed'[s]
        /\ \A z \in Sid : z # s => in_global'[z] = in_global[z] /\ freed'[z] = freed[z]
    BY <1>0, <1>1, <1>4 DEF VarInv
  <2>5. OwnInv'
    <3>1. ASSUME ~quit, NEW z \in Sid
          PROVE  G(global, z) + Cnt(stack', z, Owning)
                   = One(ctx[z] # "none" /\ ~freed'[z] /\ (in_global'[z] \/ release[z]))
      <4>1. G(global, z) + Cnt(stack, z, Owning)
              = One(ctx[z] # "none" /\ ~freed[z] /\ (in_global[z] \/ release[z]))
        BY <1>0, <3>1 DEF OwnInv
      <4>2. G(global, z) \in Nat
        BY <1>0, PlacesFinite DEF VarInv
      <4>3. CASE z = s
        <5>1. G(global, z) = 0 /\ Cnt(stack, z, Owning) = 1
          BY <1>1, <4>1, <4>2, <4>3 DEF One
        <5>2. Cnt(stack', z, Owning) = 0
          BY <2>3, <4>3, <5>1
        <5> QED
          BY <2>4, <4>3, <5>1, <5>2 DEF One
      <4>4. CASE z # s
        <5>1. Cnt(stack', z, Owning) = Cnt(stack, z, Owning)
          BY <1>1, <2>3, <4>4
        <5> QED
          BY <2>4, <4>1, <4>4, <5>1
      <4> QED
        BY <4>3, <4>4
    <3> QED
      BY <1>2, <3>1 DEF OwnInv
  <2>6. GoneInv'
    <3>1. ASSUME NEW z \in Sid, Cnt(stack', z, {"Drop"}) > 0 PROVE release[z]
      <4>1. CASE z = s
        BY <1>3, <4>1
      <4>2. CASE z # s
        <5>1. Cnt(stack, z, {"Drop"}) > 0
          BY <1>1, <2>3, <3>1, <4>2
        <5> QED
          BY <1>0, <5>1 DEF GoneInv
      <4> QED
        BY <4>1, <4>2
    <3>2. ASSUME NEW z \in Sid, release[z] \/ freed'[z] PROVE ctx[z] = "freed"
      BY <1>0, <1>3, <2>4, <3>2 DEF GoneInv
    <3> QED
      BY <1>2, <3>1, <3>2 DEF GoneInv
  <2>7. RefInv' /\ TurnInv' /\ QuitMeansOver'
    BY <1>0, <1>2, <1>4, <2>3 DEF RefInv, TurnInv, QuitMeansOver
  <2>8. VarInv'
    BY <1>0, <1>1, <1>2, <1>4 DEF VarInv
  <2> QED
    BY <2>2, <2>5, <2>6, <2>7, <2>8 DEF QInv
<1>5. CASE /\ mqueue[s] # << >>
           /\ mqueue' = [mqueue EXCEPT ![s] = Tail(@)]
           /\ in_global' = in_global /\ freed' = freed
           /\ \/ to \in registered /\ ref' = [ref EXCEPT ![to] = @ + 1] /\ Call(t, <<f>>)
              \/ ref' = ref /\ stack' = stack
  <2>1. m \in Mail /\ Tail(mqueue[s]) \in Seq(Mail)
    <3>1. mqueue[s] \in Seq(Mail)
      BY <1>0, <1>1 DEF VarInv
    <3> QED
      BY <1>5, <3>1, HeadTailProperties
  <2>2. Err(m[2]) \in Mail
    BY <2>1, MailParts
  <2>3. mqueue' \in [Sid -> Seq(Mail)]
    BY <1>0, <1>1, <1>5, <2>1 DEF VarInv
  <2>4. CASE to \in registered /\ ref' = [ref EXCEPT ![to] = @ + 1] /\ Call(t, <<f>>)
    <3>1. to \in Sid
      BY <1>0, <2>4 DEF VarInv
    <3>2. f \in Good /\ f.at = "Push" /\ f.svc = to
      <4> HIDE DEF to, m
      <4>1. f \in Good
        BY <2>2, <3>1, GoodFrames DEF Points
      <4>2. f.at = "Push" /\ f.svc = to
        BY DEF F
      <4> QED
        BY <4>1, <4>2
    <3> HIDE DEF s, m, to, f
    <3>3. StackInv' /\ AdjInv' /\ \A z, P : Cnt(stack', z, P) = Cnt(stack, z, P) + N(f, z, P)
      BY <1>0, <1>1, <1>2, <2>4, <3>2, ShapeCall DEF Outer
    <3>4. \A z \in Sid : /\ Cnt(stack', z, Holding) = Cnt(stack, z, Holding) + (IF z = to THEN 1 ELSE 0)
                     /\ Cnt(stack', z, Owning) = Cnt(stack, z, Owning)
                     /\ Cnt(stack', z, {"Delete"}) = Cnt(stack, z, {"Delete"})
                     /\ Cnt(stack', z, {"Drop"}) = Cnt(stack, z, {"Drop"})
                     /\ Cnt(stack', z, Turn) = Cnt(stack, z, Turn)
                     /\ Cnt(stack', z, Launching) = Cnt(stack, z, Launching)
      BY <1>1, <3>1, <3>2, <3>3, Weighs DEF Holding, Owning, Turn, Launching
    <3>5. OwnInv'
      BY <1>0, <1>2, <1>5, <3>4, OwnKept
    <3>6. RefInv' /\ ref' \in [Sid -> Nat]
      BY <1>2, <2>4, <3>4, RefGain
    <3>7. GoneInv' /\ TurnInv' /\ QuitMeansOver'
      BY <1>0, <1>2, <1>5, <3>4 DEF GoneInv, TurnInv, QuitMeansOver
    <3>8. VarInv'
      BY <1>0, <1>2, <1>5, <2>3, <3>6 DEF VarInv
    <3> QED
      BY <3>3, <3>5, <3>6, <3>7, <3>8 DEF QInv
  <2>5. CASE ref' = ref /\ stack' = stack
    <3> HIDE DEF s, m, to, f
    <3>1. StackInv' /\ AdjInv' /\ RefInv' /\ GoneInv' /\ TurnInv' /\ OwnInv' /\ QuitMeansOver'
      BY <1>0, <1>2, <1>5, <2>5 DEF StackInv, AdjInv, RefInv, GoneInv, TurnInv, OwnInv, QuitMeansOver
    <3>2. VarInv'
      BY <1>0, <1>2, <1>5, <2>3, <2>5 DEF VarInv
    <3> QED
      BY <3>1, <3>2 DEF QInv
  <2> QED
    BY <1>5, <2>4, <2>5
<1> QED
  BY <1>2, <1>4, <1>5

LEMMA PopStep ==
  ASSUME QInv, NEW w \in Worker, Pop(w)
  PROVE  QInv'
<1> DEFINE s == Head(global)
           f == F("Sleep", Nobody)
           g == F("Grab", s)
<1>0. VarInv /\ StackInv /\ AdjInv /\ RefInv /\ GoneInv /\ TurnInv /\ OwnInv /\ QuitMeansOver
  BY DEF QInv
<1>1. /\ Top(w).at = "Pop" /\ w \in Thread /\ w # Socket /\ Top(w).svc \notin Sid
      /\ stack \in Stacks /\ stack[w] # << >>
      /\ \A z, P : Cnt(stack, z, P) \in Nat
  <2>1. w \in Thread /\ w # Socket /\ Top(w).at = "Pop"
    BY WorkerAssumption DEF Thread, Pop, At
  <2>2. Top(w) \in Good
    BY <1>0, <2>1, TopGood
  <2> QED
    BY <1>0, <2>1, <2>2, TopGood DEF Good, Resting
<1>2. /\ \/ Becomes(w, <<f>>) /\ global' = global
         \/ global # << >> /\ Becomes(w, <<g>>) /\ global' = Tail(global)
      /\ registered' = registered /\ ctx' = ctx /\ ref' = ref /\ mqueue' = mqueue /\ in_global' = in_global /\ release' = release /\ freed' = freed /\ asleep' = asleep /\ quit' = quit /\ source' = source /\ done' = done
  BY DEF Pop, hvars, msgvars
<1>3. CASE Becomes(w, <<f>>) /\ global' = global
  <2>1. f \in Good /\ f.at = "Sleep" /\ f.svc = Nobody /\ Nobody \notin Sid
    BY NobodyAssumption DEF F, Points, Resting, Good, Frame
  <2> HIDE DEF f
  <2>2. \A z, P : Cnt(stack', z, P) = Cnt(stack, z, P) - N(Top(w), z, P) + N(f, z, P)
    BY <1>1, <1>3, <2>1, Becomes1
  <2>3. StackInv' /\ AdjInv'
    BY <1>0, <1>1, <1>2, <1>3, <2>1, Shape1 DEF Fine, Bottom, Resting
  <2>4. \A z \in Sid : \A P : Cnt(stack', z, P) = Cnt(stack, z, P)
    BY <1>1, <2>1, <2>2, Weighs
  <2>5. OwnInv'
    BY <1>0, <1>2, <1>3, <2>4, OwnKept
  <2>6. RefInv' /\ GoneInv' /\ TurnInv' /\ QuitMeansOver'
    BY <1>0, <1>2, <2>4 DEF RefInv, GoneInv, TurnInv, QuitMeansOver
  <2>7. VarInv'
    BY <1>0, <1>2, <1>3 DEF VarInv
  <2> QED
    BY <2>3, <2>5, <2>6, <2>7 DEF QInv
<1>4. CASE global # << >> /\ Becomes(w, <<g>>) /\ global' = Tail(global)
  <2>1. s \in Sid /\ Tail(global) \in Seq(Sid)
        /\ \A z : G(Tail(global), z) = G(global, z) - (IF s = z THEN 1 ELSE 0)
    BY <1>0, <1>4, PlacesTail DEF VarInv
  <2>2. g \in Good /\ g.at = "Grab" /\ g.svc = s
    BY <2>1, GoodFrames DEF F, Points, Resting
  <2> HIDE DEF g, s
  <2>3. \A z, P : Cnt(stack', z, P) = Cnt(stack, z, P) - N(Top(w), z, P) + N(g, z, P)
    BY <1>1, <1>4, <2>2, Becomes1
  <2>4. StackInv' /\ AdjInv'
    BY <1>0, <1>1, <1>2, <1>4, <2>2, Shape1 DEF Fine, Bottom, Resting
  <2>5. \A z \in Sid : /\ Cnt(stack', z, Holding) = Cnt(stack, z, Holding)
                     /\ Cnt(stack', z, Owning) = Cnt(stack, z, Owning) + (IF z = s THEN 1 ELSE 0)
                     /\ Cnt(stack', z, {"Delete"}) = Cnt(stack, z, {"Delete"})
                     /\ Cnt(stack', z, {"Drop"}) = Cnt(stack, z, {"Drop"})
                     /\ Cnt(stack', z, Turn) = Cnt(stack, z, Turn)
                     /\ Cnt(stack', z, Launching) = Cnt(stack, z, Launching)
    <3>1. \A z \in Sid : \A P : N(Top(w), z, P) = 0
      BY <1>1, Weighs
    <3>2. \A z \in Sid : /\ N(g, z, Holding) = 0 /\ N(g, z, {"Delete"}) = 0 /\ N(g, z, {"Drop"}) = 0
                         /\ N(g, z, Turn) = 0 /\ N(g, z, Launching) = 0
                         /\ N(g, z, Owning) = IF z = s THEN 1 ELSE 0
      BY <2>2, Weighs DEF Holding, Owning, Turn, Launching
    <3> QED
      BY <1>1, <2>3, <3>1, <3>2
  <2>6. OwnInv'
    <3>1. ASSUME NEW z \in Sid
          PROVE  G(global', z) + Cnt(stack', z, Owning) = G(global, z) + Cnt(stack, z, Owning)
      <4>1. G(global, z) \in Nat /\ Cnt(stack, z, Owning) \in Nat
        BY <1>0, <1>1, PlacesFinite DEF VarInv
      <4>2. /\ G(global', z) = G(global, z) - (IF s = z THEN 1 ELSE 0)
            /\ Cnt(stack', z, Owning) = Cnt(stack, z, Owning) + (IF z = s THEN 1 ELSE 0)
        BY <1>4, <2>1, <2>5
      <4> QED
        BY <4>1, <4>2, OneTheOther
    <3> QED
      BY <1>0, <1>2, <3>1, OwnKept
  <2>7. RefInv' /\ GoneInv' /\ TurnInv' /\ QuitMeansOver'
    BY <1>0, <1>2, <2>5 DEF RefInv, GoneInv, TurnInv, QuitMeansOver
  <2>8. VarInv'
    BY <1>0, <1>2, <1>4, <2>1 DEF VarInv
  <2> QED
    BY <2>4, <2>6, <2>7, <2>8 DEF QInv
<1> QED
  BY <1>2, <1>3, <1>4

LEMMA GrabStep ==
  ASSUME QInv, NEW w \in Worker, Grab(w)
  PROVE  QInv'
<1> DEFINE s == Top(w).svc
           f == [F("PopMsg", s) EXCEPT !.n = First]
           g == F("MqRelease", s)
           h == F("Pop", Nobody)
<1>a. w \in Thread /\ w # Socket
  BY WorkerAssumption DEF Thread
<1>0. VarInv /\ StackInv /\ AdjInv /\ RefInv /\ GoneInv /\ TurnInv /\ OwnInv /\ QuitMeansOver
  BY DEF QInv
<1>1. /\ Top(w).at = "Grab" /\ s \in Sid /\ stack \in Stacks /\ stack[w] # << >>
      /\ \A z, P : Cnt(stack, z, P) \in Nat
  BY <1>0, <1>a, TopGood DEF Grab, At, Resting
<1>2. /\ \/ /\ s \in registered
            /\ ref' = [ref EXCEPT ![s] = @ + 1]
            /\ Becomes(w, <<f>>)
         \/ /\ s \notin registered /\ ref' = ref
            /\ Becomes(w, <<g, h>>)
      /\ registered' = registered /\ ctx' = ctx /\ mqueue' = mqueue /\ in_global' = in_global /\ release' = release /\ freed' = freed /\ global' = global /\ asleep' = asleep /\ quit' = quit /\ source' = source /\ done' = done
  BY DEF Grab, qvars, msgvars
<1>3. /\ f \in Good /\ f.at = "PopMsg" /\ f.svc = s
      /\ g \in Good /\ g.at = "MqRelease" /\ g.svc = s
      /\ h \in Good /\ h.at = "Pop" /\ h.svc = Nobody /\ Nobody \notin Sid
  <2>1. f \in Good
    BY <1>1, GoodFrames DEF Points
  <2>2. g \in Good
    BY <1>1, GoodFrames DEF Points, Resting
  <2>3. h \in Good
    BY <1>1, GoodFrames DEF Points, Resting
  <2> QED
    BY <2>1, <2>2, <2>3, NobodyAssumption DEF F
<1>4. CASE s \in registered /\ ref' = [ref EXCEPT ![s] = @ + 1] /\ Becomes(w, <<f>>)
  (* Its launch is over: the queue would have two owners. *)
  <2>1. ctx[s] = "live"
    <3>1. ctx[s] \in {"init", "live"} /\ ~quit
      BY <1>4, Registered
    <3>2. ASSUME ctx[s] = "init" PROVE FALSE
      <4>1. Cnt(stack, s, Launching) > 0
        BY <1>0, <1>1, <1>4, <3>2 DEF TurnInv
      <4>2. Cnt(stack, s, {"Grab"}) > 0
        BY <1>0, <1>a, <1>1, TopGood
      <4>3. Cnt(stack, s, Launching \cup {"Grab"}) = Cnt(stack, s, Launching) + Cnt(stack, s, {"Grab"})
        <5>1. Launching \cap {"Grab"} = {}
          BY DEF Launching
        <5> QED
          BY <1>1, <5>1, CntSum
      <4>4. Cnt(stack, s, Launching \cup {"Grab"}) <= Cnt(stack, s, Owning)
        <5>1. Launching \cup {"Grab"} \subseteq Owning
          BY DEF Launching, Owning
        <5> QED
          BY <1>1, <5>1, CntSub
      <4>5. G(global, s) \in Nat
        BY <1>0, PlacesFinite DEF VarInv
      <4>6. G(global, s) + Cnt(stack, s, Owning) <= 1
        BY <1>0, <1>1, <3>1 DEF OwnInv, One
      <4>7. /\ Cnt(stack, s, Launching) \in Nat /\ Cnt(stack, s, {"Grab"}) \in Nat
            /\ Cnt(stack, s, Owning) \in Nat
        BY <1>1
      <4> QED
        BY <4>1, <4>2, <4>3, <4>4, <4>5, <4>6, <4>7
    <3> QED
      BY <3>1, <3>2
  <2> HIDE DEF s, f
  <2>2. \A z, P : Cnt(stack', z, P) = Cnt(stack, z, P) - N(Top(w), z, P) + N(f, z, P)
    BY <1>a, <1>1, <1>3, <1>4, Becomes1
  <2>3. StackInv' /\ AdjInv'
    BY <1>0, <1>a, <1>1, <1>2, <1>3, <1>4, Shape1 DEF Fine, Bottom, Resting
  <2>4. \A z \in Sid : /\ Cnt(stack', z, Holding) = Cnt(stack, z, Holding) + (IF z = s THEN 1 ELSE 0)
                     /\ Cnt(stack', z, Owning) = Cnt(stack, z, Owning)
                     /\ Cnt(stack', z, {"Delete"}) = Cnt(stack, z, {"Delete"})
                     /\ Cnt(stack', z, {"Drop"}) = Cnt(stack, z, {"Drop"})
                     /\ Cnt(stack', z, Turn) = Cnt(stack, z, Turn) + (IF z = s THEN 1 ELSE 0)
                     /\ Cnt(stack', z, Launching) = Cnt(stack, z, Launching)
    <3>1. \A z \in Sid : /\ N(Top(w), z, Holding) = 0 /\ N(Top(w), z, {"Delete"}) = 0
                         /\ N(Top(w), z, {"Drop"}) = 0 /\ N(Top(w), z, Turn) = 0
                         /\ N(Top(w), z, Launching) = 0
                         /\ N(Top(w), z, Owning) = IF z = s THEN 1 ELSE 0
      BY <1>1, Weighs DEF s, Holding, Owning, Turn, Launching
    <3>2. \A z \in Sid : /\ N(f, z, {"Delete"}) = 0 /\ N(f, z, {"Drop"}) = 0 /\ N(f, z, Launching) = 0
                         /\ N(f, z, Holding) = IF z = s THEN 1 ELSE 0
                         /\ N(f, z, Turn) = IF z = s THEN 1 ELSE 0
                         /\ N(f, z, Owning) = IF z = s THEN 1 ELSE 0
      BY <1>3, Weighs DEF Holding, Owning, Turn, Launching
    <3> QED
      BY <1>1, <2>2, <3>1, <3>2
  <2>5. OwnInv'
    BY <1>0, <1>2, <2>4, OwnKept
  <2>6. RefInv' /\ ref' \in [Sid -> Nat]
    BY <1>2, <1>4, <2>4, RefGain
  <2>7. GoneInv' /\ QuitMeansOver'
    BY <1>0, <1>2, <2>4 DEF GoneInv, QuitMeansOver
  <2>8. TurnInv'
    <3>1. ASSUME NEW z \in Sid, Cnt(stack', z, Turn) > 0 PROVE ctx[z] = "live"
      <4>1. CASE z = s
        BY <2>1, <4>1
      <4>2. CASE z # s
        <5>1. Cnt(stack, z, Turn) > 0
          BY <1>1, <2>4, <3>1, <4>2
        <5> QED
          BY <1>0, <5>1 DEF TurnInv
      <4> QED
        BY <4>1, <4>2
    <3> QED
      BY <1>0, <1>2, <2>4, <3>1 DEF TurnInv
  <2>9. VarInv'
    BY <1>0, <1>2, <2>6 DEF VarInv
  <2> QED
    BY <2>3, <2>5, <2>6, <2>7, <2>8, <2>9 DEF QInv
<1>5. CASE s \notin registered /\ ref' = ref /\ Becomes(w, <<g, h>>)
  <2> HIDE DEF s, g, h
  <2>1. \A z, P : Cnt(stack', z, P) = Cnt(stack, z, P) - N(Top(w), z, P) + N(h, z, P) + N(g, z, P)
    BY <1>a, <1>1, <1>3, <1>5, Becomes2
  <2>2. StackInv' /\ AdjInv'
    <3>1. Fine(<<g, h>>, 1, ctx', registered') /\ Fine(<<g, h>>, 2, ctx', registered')
      BY <1>2, <1>3, <1>5 DEF Fine
    <3> QED
      BY <1>0, <1>a, <1>1, <1>2, <1>3, <1>5, <3>1, Shape2 DEF Bottom, Resting
  <2>3. \A z \in Sid : /\ Cnt(stack', z, Holding) = Cnt(stack, z, Holding)
                     /\ Cnt(stack', z, Owning) = Cnt(stack, z, Owning)
                     /\ Cnt(stack', z, {"Delete"}) = Cnt(stack, z, {"Delete"})
                     /\ Cnt(stack', z, {"Drop"}) = Cnt(stack, z, {"Drop"})
                     /\ Cnt(stack', z, Turn) = Cnt(stack, z, Turn)
                     /\ Cnt(stack', z, Launching) = Cnt(stack, z, Launching) + (IF z = s THEN 1 ELSE 0)
    <3>1. \A z \in Sid : /\ N(Top(w), z, Holding) = 0 /\ N(Top(w), z, {"Delete"}) = 0
                         /\ N(Top(w), z, {"Drop"}) = 0 /\ N(Top(w), z, Turn) = 0
                         /\ N(Top(w), z, Launching) = 0
                         /\ N(Top(w), z, Owning) = IF z = s THEN 1 ELSE 0
      BY <1>1, Weighs DEF s, Holding, Owning, Turn, Launching
    <3>2. \A z \in Sid : /\ N(g, z, {"Delete"}) = 0 /\ N(g, z, {"Drop"}) = 0 /\ N(g, z, Turn) = 0
                         /\ N(g, z, Holding) = 0
                         /\ N(g, z, Launching) = IF z = s THEN 1 ELSE 0
                         /\ N(g, z, Owning) = IF z = s THEN 1 ELSE 0
      BY <1>3, Weighs DEF Holding, Owning, Turn, Launching
    <3>3. \A z \in Sid : \A P : N(h, z, P) = 0
      BY <1>3, Weighs
    <3> QED
      BY <1>1, <2>1, <3>1, <3>2, <3>3
  <2>4. OwnInv'
    BY <1>0, <1>2, <2>3, OwnKept
  <2>5. RefInv' /\ GoneInv' /\ QuitMeansOver'
    BY <1>0, <1>2, <1>5, <2>3 DEF RefInv, GoneInv, QuitMeansOver
  <2>6. TurnInv'
    <3>1. \A z \in Sid : Cnt(stack, z, Launching) > 0 => Cnt(stack', z, Launching) > 0
      BY <1>1, <2>3
    <3> QED
      BY <1>0, <1>2, <2>3, <3>1 DEF TurnInv
  <2>7. VarInv'
    BY <1>0, <1>2, <1>5 DEF VarInv
  <2> QED
    BY <2>2, <2>4, <2>5, <2>6, <2>7 DEF QInv
<1> QED
  BY <1>2, <1>4, <1>5

(* The weights that skynet_start gives leave a batch within the queue. *)
LEMMA BatchIsNat ==
  ASSUME NEW w \in Worker, NEW length \in Nat
  PROVE  Batch(w, length) \in Nat
<1>1. Weight[w] \in -1 .. 3
  BY WeightAssumption
<1>2. 2^0 = 1 /\ 2^1 = 2 /\ 2^2 = 4 /\ 2^3 = 8
  OBVIOUS
<1>3. ASSUME NEW d \in {1, 2, 4, 8} PROVE length \div d \in Nat
  <2>1. CASE d = 1
    BY <2>1
  <2>2. CASE d = 2
    BY <2>2
  <2>3. CASE d = 4
    BY <2>3
  <2>4. CASE d = 8
    BY <2>4
  <2> QED
    BY <2>1, <2>2, <2>3, <2>4
<1>4. CASE Weight[w] < 0
  BY <1>4 DEF Batch
<1>5. CASE ~(Weight[w] < 0)
  <2>1. Weight[w] \in {0, 1, 2, 3}
    BY <1>1, <1>5
  <2>2. 2^Weight[w] \in {1, 2, 4, 8}
    <3>1. CASE Weight[w] = 0
      BY <1>2, <3>1
    <3>2. CASE Weight[w] = 1
      BY <1>2, <3>2
    <3>3. CASE Weight[w] = 2
      BY <1>2, <3>3
    <3>4. CASE Weight[w] = 3
      BY <1>2, <3>4
    <3> QED
      BY <2>1, <3>1, <3>2, <3>3, <3>4
  <2> DEFINE k == length \div 2^Weight[w]
  <2>3. k \in Nat
    BY <1>3, <2>2
  <2>4. Batch(w, length) = IF k = 0 THEN 0 ELSE k - 1
    BY <1>5 DEF Batch
  <2> HIDE DEF k
  <2> QED
    BY <2>3, <2>4
<1> QED
  BY <1>4, <1>5

LEMMA PopMsgStep ==
  ASSUME QInv, NEW w \in Worker, PopMsg(w)
  PROVE  QInv'
<1> DEFINE s == Top(w).svc
           f == F("Release", s)
           g == F("Pop", Nobody)
           e == [Top(w) EXCEPT !.at = "Callback", !.msg = Head(mqueue[s]),
                    !.n = IF @ = First THEN Batch(w, Len(mqueue[s]) - 1) ELSE @]
<1>a. w \in Thread /\ w # Socket
  BY WorkerAssumption DEF Thread
<1>0. VarInv /\ StackInv /\ AdjInv /\ RefInv /\ GoneInv /\ TurnInv /\ OwnInv /\ QuitMeansOver
  BY DEF QInv
<1>1. /\ Top(w).at = "PopMsg" /\ s \in Sid /\ stack \in Stacks /\ stack[w] # << >>
      /\ \A z, P : Cnt(stack, z, P) \in Nat /\ Top(w) \in Frame
      /\ Cnt(stack, s, Holding) > 0 /\ Cnt(stack, s, Owning) > 0
  BY <1>0, <1>a, TopGood DEF PopMsg, At, Resting, Holding, Owning
<1>2. /\ registered' = registered /\ ctx' = ctx /\ ref' = ref /\ release' = release /\ freed' = freed /\ global' = global /\ asleep' = asleep /\ quit' = quit /\ source' = source /\ done' = done
      /\ \/ /\ in_global' = [in_global EXCEPT ![s] = FALSE]
            /\ Becomes(w, <<f, g>>)
            /\ mqueue' = mqueue
         \/ /\ mqueue[s] # << >>
            /\ mqueue' = [mqueue EXCEPT ![s] = Tail(@)]
            /\ Becomes(w, <<e>>)
            /\ in_global' = in_global
  BY DEF PopMsg, hvars, msgvars
<1>3. /\ f \in Good /\ f.at = "Release" /\ f.svc = s
      /\ g \in Good /\ g.at = "Pop" /\ g.svc = Nobody /\ Nobody \notin Sid
  BY <1>1, GoodFrames, NobodyAssumption DEF F, Points, Resting
<1>4. ~release[s] /\ ~freed[s] /\ ~quit
  BY <1>1, Held
<1>5. CASE in_global' = [in_global EXCEPT ![s] = FALSE] /\ Becomes(w, <<f, g>>) /\ mqueue' = mqueue
  <2> HIDE DEF s, f, g, e
  <2>1. \A z, P : Cnt(stack', z, P) = Cnt(stack, z, P) - N(Top(w), z, P) + N(g, z, P) + N(f, z, P)
    BY <1>a, <1>1, <1>3, <1>5, Becomes2
  <2>2. StackInv' /\ AdjInv'
    <3>1. Fine(<<f, g>>, 1, ctx', registered') /\ Fine(<<f, g>>, 2, ctx', registered')
      BY <1>3 DEF Fine
    <3> QED
      BY <1>0, <1>a, <1>1, <1>2, <1>3, <1>5, <3>1, Shape2 DEF Bottom, Resting
  <2>3. \A z \in Sid : /\ Cnt(stack', z, Holding) = Cnt(stack, z, Holding)
                     /\ Cnt(stack', z, Owning) = Cnt(stack, z, Owning) - (IF z = s THEN 1 ELSE 0)
                     /\ Cnt(stack', z, {"Delete"}) = Cnt(stack, z, {"Delete"})
                     /\ Cnt(stack', z, {"Drop"}) = Cnt(stack, z, {"Drop"})
                     /\ Cnt(stack', z, Turn) = Cnt(stack, z, Turn) - (IF z = s THEN 1 ELSE 0)
                     /\ Cnt(stack', z, Launching) = Cnt(stack, z, Launching)
    <3>1. \A z \in Sid : /\ N(Top(w), z, {"Delete"}) = 0 /\ N(Top(w), z, {"Drop"}) = 0
                         /\ N(Top(w), z, Launching) = 0
                         /\ N(Top(w), z, Holding) = IF z = s THEN 1 ELSE 0
                         /\ N(Top(w), z, Owning) = IF z = s THEN 1 ELSE 0
                         /\ N(Top(w), z, Turn) = IF z = s THEN 1 ELSE 0
      BY <1>1, Weighs DEF s, Holding, Owning, Turn, Launching
    <3>2. \A z \in Sid : /\ N(f, z, {"Delete"}) = 0 /\ N(f, z, {"Drop"}) = 0 /\ N(f, z, Turn) = 0
                         /\ N(f, z, Owning) = 0 /\ N(f, z, Launching) = 0
                         /\ N(f, z, Holding) = IF z = s THEN 1 ELSE 0
      BY <1>3, Weighs DEF Holding, Owning, Turn, Launching
    <3>3. \A z \in Sid : \A P : N(g, z, P) = 0
      BY <1>3, Weighs
    <3> QED
      BY <1>1, <2>1, <3>1, <3>2, <3>3
  <2>4. ~in_global'[s] /\ \A z \in Sid : z # s => in_global'[z] = in_global[z]
    BY <1>0, <1>1, <1>5 DEF VarInv
  <2>5. OwnInv'
    <3>1. ASSUME NEW z \in Sid
          PROVE  G(global, z) + Cnt(stack', z, Owning)
                   = One(ctx[z] # "none" /\ ~freed[z] /\ (in_global'[z] \/ release[z]))
      <4>1. G(global, z) + Cnt(stack, z, Owning)
              = One(ctx[z] # "none" /\ ~freed[z] /\ (in_global[z] \/ release[z]))
        BY <1>0, <1>4 DEF OwnInv
      <4>2. G(global, z) \in Nat
        BY <1>0, PlacesFinite DEF VarInv
      <4>3. CASE z = s
        <5>1. G(global, z) = 0 /\ Cnt(stack, z, Owning) = 1
          BY <1>1, <4>1, <4>2, <4>3 DEF One
        <5>2. Cnt(stack', z, Owning) = 0
          BY <2>3, <4>3, <5>1
        <5> QED
          BY <1>4, <2>4, <4>3, <5>1, <5>2 DEF One
      <4>4. CASE z # s
        <5>1. Cnt(stack', z, Owning) = Cnt(stack, z, Owning)
          BY <1>1, <2>3, <4>4
        <5> QED
          BY <2>4, <4>1, <4>4, <5>1
      <4> QED
        BY <4>3, <4>4
    <3> QED
      BY <1>2, <3>1 DEF OwnInv
  <2>6. RefInv' /\ GoneInv' /\ QuitMeansOver'
    BY <1>0, <1>2, <2>3 DEF RefInv, GoneInv, QuitMeansOver
  <2>7. TurnInv'
    <3>1. \A z \in Sid : Cnt(stack', z, Turn) > 0 => Cnt(stack, z, Turn) > 0
      BY <1>1, <2>3
    <3> QED
      BY <1>0, <1>2, <2>3, <3>1 DEF TurnInv
  <2>8. VarInv'
    BY <1>0, <1>1, <1>2, <1>5 DEF VarInv
  <2> QED
    BY <2>2, <2>5, <2>6, <2>7, <2>8 DEF QInv
<1>6. CASE /\ mqueue[s] # << >>
           /\ mqueue' = [mqueue EXCEPT ![s] = Tail(@)]
           /\ Becomes(w, <<e>>)
           /\ in_global' = in_global
  <2>1. mqueue[s] \in Seq(Mail)
    BY <1>0, <1>1 DEF VarInv
  <2>2. /\ Head(mqueue[s]) \in Mail /\ Tail(mqueue[s]) \in Seq(Mail) /\ Len(mqueue[s]) - 1 \in Nat
    <3>1. Len(mqueue[s]) \in Nat \ {0}
      BY <1>6, <2>1, EmptySeq
    <3> QED
      BY <1>6, <2>1, <3>1, HeadTailProperties
  <2>3. e \in Good /\ e.at = "Callback" /\ e.svc = s
    <3> DEFINE n == IF Top(w).n = First THEN Batch(w, Len(mqueue[s]) - 1) ELSE Top(w).n
    <3>1. n \in Nat \cup {First}
      BY <1>1, <2>2, BatchIsNat DEF Frame
    <3>2. e = [Top(w) EXCEPT !.at = "Callback", !.msg = Head(mqueue[s]), !.n = n]
      BY <1>1 DEF Frame
    <3> HIDE DEF n, e
    <3>3. e.at = "Callback" /\ e.svc = s /\ e.msg = Head(mqueue[s]) /\ e.n = n /\ e \in Frame
      BY <1>1, <2>2, <3>1, <3>2 DEF Frame, Points
    <3> HIDE DEF s
    <3> QED
      BY <1>1, <2>2, <3>3 DEF Good, Resting
  <2> HIDE DEF s, f, g, e
  <2>4. \A z, P : Cnt(stack', z, P) = Cnt(stack, z, P) - N(Top(w), z, P) + N(e, z, P)
    BY <1>a, <1>1, <1>6, <2>3, Becomes1
  <2>5. StackInv' /\ AdjInv'
    BY <1>0, <1>a, <1>1, <1>2, <1>6, <2>3, Shape1 DEF Fine, Bottom, Resting
  <2>6. \A z \in Sid : /\ Cnt(stack', z, Holding) = Cnt(stack, z, Holding)
                     /\ Cnt(stack', z, Owning) = Cnt(stack, z, Owning)
                     /\ Cnt(stack', z, {"Delete"}) = Cnt(stack, z, {"Delete"})
                     /\ Cnt(stack', z, {"Drop"}) = Cnt(stack, z, {"Drop"})
                     /\ Cnt(stack', z, Turn) = Cnt(stack, z, Turn)
                     /\ Cnt(stack', z, Launching) = Cnt(stack, z, Launching)
    BY <1>1, <2>3, <2>4, Weighs DEF s, Holding, Owning, Turn, Launching
  <2>7. OwnInv'
    BY <1>0, <1>2, <1>6, <2>6, OwnKept
  <2>8. RefInv' /\ GoneInv' /\ TurnInv' /\ QuitMeansOver'
    BY <1>0, <1>2, <2>6 DEF RefInv, GoneInv, TurnInv, QuitMeansOver
  <2>9. VarInv'
    BY <1>0, <1>1, <1>2, <1>6, <2>2 DEF VarInv
  <2> QED
    BY <2>5, <2>7, <2>8, <2>9 DEF QInv
<1> QED
  BY <1>2, <1>5, <1>6

LEMMA CallbackDoneStep ==
  ASSUME QInv, NEW w \in Worker, CallbackDone(w)
  PROVE  QInv'
<1> DEFINE s == Top(w).svc
           f == [F("PopMsg", s) EXCEPT !.n = Top(w).n - 1]
           g == F("NextPop", s)
           e == IF Top(w).n > 0 THEN f ELSE g
<1>a. w \in Thread /\ w # Socket
  BY WorkerAssumption DEF Thread
<1>0. VarInv /\ StackInv /\ AdjInv /\ RefInv /\ GoneInv /\ TurnInv /\ OwnInv /\ QuitMeansOver
  BY DEF QInv
<1>1. /\ Top(w).at = "Callback" /\ s \in Sid /\ stack \in Stacks /\ stack[w] # << >>
      /\ \A z, P : Cnt(stack, z, P) \in Nat /\ Top(w) \in Frame /\ Top(w).msg \in Mail
  BY <1>0, <1>a, TopGood DEF CallbackDone, At, Resting
<1>2. /\ Becomes(w, IF Top(w).n > 0 THEN <<f>> ELSE <<g>>)
      /\ done' = done \cup {Top(w).msg}
      /\ registered' = registered /\ ctx' = ctx /\ ref' = ref /\ mqueue' = mqueue /\ in_global' = in_global /\ release' = release /\ freed' = freed /\ global' = global /\ asleep' = asleep /\ quit' = quit /\ source' = source
  BY DEF CallbackDone, hvars, qvars
<1>3. e \in Good /\ e.at \in {"PopMsg", "NextPop"} /\ e.svc = s
  <2>1. Top(w).n > 0 => Top(w).n - 1 \in Nat
    BY <1>1 DEF Frame, First
  <2>2. Top(w).n > 0 => f \in Good
    BY <1>1, <2>1, GoodFrames DEF Points
  <2>3. g \in Good
    BY <1>1, GoodFrames DEF Points, Resting
  <2> QED
    BY <2>2, <2>3 DEF F
<1>4. Becomes(w, <<e>>)
  <2>1. CASE Top(w).n > 0
    BY <1>2, <2>1
  <2>2. CASE ~(Top(w).n > 0)
    BY <1>2, <2>2
  <2> QED
    BY <2>1, <2>2
<1> HIDE DEF s, f, g, e
<1>5. \A z, P : Cnt(stack', z, P) = Cnt(stack, z, P) - N(Top(w), z, P) + N(e, z, P)
  BY <1>a, <1>1, <1>3, <1>4, Becomes1
<1>6. StackInv' /\ AdjInv'
  BY <1>0, <1>a, <1>1, <1>2, <1>3, <1>4, Shape1 DEF Fine, Bottom, Resting
<1>7. \A z \in Sid : /\ Cnt(stack', z, Holding) = Cnt(stack, z, Holding)
                     /\ Cnt(stack', z, Owning) = Cnt(stack, z, Owning)
                     /\ Cnt(stack', z, {"Delete"}) = Cnt(stack, z, {"Delete"})
                     /\ Cnt(stack', z, {"Drop"}) = Cnt(stack, z, {"Drop"})
                     /\ Cnt(stack', z, Turn) = Cnt(stack, z, Turn)
                     /\ Cnt(stack', z, Launching) = Cnt(stack, z, Launching)
  BY <1>1, <1>3, <1>5, Weighs DEF s, Holding, Owning, Turn, Launching
<1>8. OwnInv'
  BY <1>0, <1>2, <1>7, OwnKept
<1>9. RefInv' /\ GoneInv' /\ TurnInv' /\ QuitMeansOver'
  BY <1>0, <1>2, <1>7 DEF RefInv, GoneInv, TurnInv, QuitMeansOver
<1>10. VarInv'
  BY <1>0, <1>1, <1>2 DEF VarInv
<1> QED
  BY <1>6, <1>8, <1>9, <1>10 DEF QInv

LEMMA NextPopStep ==
  ASSUME QInv, NEW w \in Worker, NextPop(w)
  PROVE  QInv'
<1> DEFINE s == Top(w).svc
           f == F("Release", s)
           g == F("Grab", s)
           h == F("PushBack", s)
           x == Head(global)
           k == F("Grab", x)
<1>a. w \in Thread /\ w # Socket
  BY WorkerAssumption DEF Thread
<1>0. VarInv /\ StackInv /\ AdjInv /\ RefInv /\ GoneInv /\ TurnInv /\ OwnInv /\ QuitMeansOver
  BY DEF QInv
<1>1. /\ Top(w).at = "NextPop" /\ s \in Sid /\ stack \in Stacks /\ stack[w] # << >>
      /\ \A z, P : Cnt(stack, z, P) \in Nat
  BY <1>0, <1>a, TopGood DEF NextPop, At, Resting
<1>2. /\ \/ Becomes(w, <<f, g>>) /\ global' = global
         \/ global # << >> /\ Becomes(w, <<h, k>>) /\ global' = Tail(global)
      /\ registered' = registered /\ ctx' = ctx /\ ref' = ref /\ mqueue' = mqueue /\ in_global' = in_global /\ release' = release /\ freed' = freed /\ asleep' = asleep /\ quit' = quit /\ source' = source /\ done' = done
  BY DEF NextPop, hvars, msgvars
<1>3. /\ f \in Good /\ f.at = "Release" /\ f.svc = s
      /\ g \in Good /\ g.at = "Grab" /\ g.svc = s
      /\ h \in Good /\ h.at = "PushBack" /\ h.svc = s
  BY <1>1, GoodFrames DEF F, Points, Resting
<1>4. CASE Becomes(w, <<f, g>>) /\ global' = global
  <2> HIDE DEF s, f, g, h, x, k
  <2>1. \A z, P : Cnt(stack', z, P) = Cnt(stack, z, P) - N(Top(w), z, P) + N(g, z, P) + N(f, z, P)
    BY <1>a, <1>1, <1>3, <1>4, Becomes2
  <2>2. StackInv' /\ AdjInv'
    <3>1. Fine(<<f, g>>, 1, ctx', registered') /\ Fine(<<f, g>>, 2, ctx', registered')
      BY <1>3 DEF Fine
    <3> QED
      BY <1>0, <1>a, <1>1, <1>2, <1>3, <1>4, <3>1, Shape2 DEF Bottom, Resting
  <2>3. \A z \in Sid : /\ Cnt(stack', z, Holding) = Cnt(stack, z, Holding)
                     /\ Cnt(stack', z, Owning) = Cnt(stack, z, Owning)
                     /\ Cnt(stack', z, {"Delete"}) = Cnt(stack, z, {"Delete"})
                     /\ Cnt(stack', z, {"Drop"}) = Cnt(stack, z, {"Drop"})
                     /\ Cnt(stack', z, Turn) = Cnt(stack, z, Turn) - (IF z = s THEN 1 ELSE 0)
                     /\ Cnt(stack', z, Launching) = Cnt(stack, z, Launching)
    <3>1. \A z \in Sid : /\ N(Top(w), z, {"Delete"}) = 0 /\ N(Top(w), z, {"Drop"}) = 0
                         /\ N(Top(w), z, Launching) = 0
                         /\ N(Top(w), z, Holding) = IF z = s THEN 1 ELSE 0
                         /\ N(Top(w), z, Owning) = IF z = s THEN 1 ELSE 0
                         /\ N(Top(w), z, Turn) = IF z = s THEN 1 ELSE 0
      BY <1>1, Weighs DEF s, Holding, Owning, Turn, Launching
    <3>2. \A z \in Sid : /\ N(f, z, {"Delete"}) = 0 /\ N(f, z, {"Drop"}) = 0 /\ N(f, z, Turn) = 0
                         /\ N(f, z, Owning) = 0 /\ N(f, z, Launching) = 0
                         /\ N(f, z, Holding) = IF z = s THEN 1 ELSE 0
      BY <1>3, Weighs DEF Holding, Owning, Turn, Launching
    <3>3. \A z \in Sid : /\ N(g, z, {"Delete"}) = 0 /\ N(g, z, {"Drop"}) = 0 /\ N(g, z, Turn) = 0
                         /\ N(g, z, Holding) = 0 /\ N(g, z, Launching) = 0
                         /\ N(g, z, Owning) = IF z = s THEN 1 ELSE 0
      BY <1>3, Weighs DEF Holding, Owning, Turn, Launching
    <3> QED
      BY <1>1, <2>1, <3>1, <3>2, <3>3
  <2>4. OwnInv'
    BY <1>0, <1>2, <1>4, <2>3, OwnKept
  <2>5. TurnInv'
    <3>1. \A z \in Sid : Cnt(stack', z, Turn) > 0 => Cnt(stack, z, Turn) > 0
      BY <1>1, <2>3
    <3> QED
      BY <1>0, <1>2, <2>3, <3>1 DEF TurnInv
  <2>6. RefInv' /\ GoneInv' /\ QuitMeansOver'
    BY <1>0, <1>2, <2>3 DEF RefInv, GoneInv, QuitMeansOver
  <2>7. VarInv'
    BY <1>0, <1>2, <1>4 DEF VarInv
  <2> QED
    BY <2>2, <2>4, <2>5, <2>6, <2>7 DEF QInv
<1>5. CASE global # << >> /\ Becomes(w, <<h, k>>) /\ global' = Tail(global)
  <2>1. x \in Sid /\ Tail(global) \in Seq(Sid)
        /\ \A z : G(Tail(global), z) = G(global, z) - (IF x = z THEN 1 ELSE 0)
    BY <1>0, <1>5, PlacesTail DEF VarInv
  <2>2. k \in Good /\ k.at = "Grab" /\ k.svc = x
    BY <2>1, GoodFrames DEF F, Points, Resting
  <2> HIDE DEF s, f, g, h, x, k
  <2>3. \A z, P : Cnt(stack', z, P) = Cnt(stack, z, P) - N(Top(w), z, P) + N(k, z, P) + N(h, z, P)
    BY <1>a, <1>1, <1>3, <1>5, <2>2, Becomes2
  <2>4. StackInv' /\ AdjInv'
    <3>1. Fine(<<h, k>>, 1, ctx', registered') /\ Fine(<<h, k>>, 2, ctx', registered')
      BY <1>3, <2>2 DEF Fine
    <3> QED
      BY <1>0, <1>a, <1>1, <1>2, <1>3, <1>5, <2>2, <3>1, Shape2 DEF Bottom, Resting
  <2>5. \A z \in Sid : /\ Cnt(stack', z, Holding) = Cnt(stack, z, Holding)
                     /\ Cnt(stack', z, Owning) = Cnt(stack, z, Owning) + (IF z = x THEN 1 ELSE 0)
                     /\ Cnt(stack', z, {"Delete"}) = Cnt(stack, z, {"Delete"})
                     /\ Cnt(stack', z, {"Drop"}) = Cnt(stack, z, {"Drop"})
                     /\ Cnt(stack', z, Turn) = Cnt(stack, z, Turn)
                     /\ Cnt(stack', z, Launching) = Cnt(stack, z, Launching)
    <3>1. \A z \in Sid : /\ N(Top(w), z, {"Delete"}) = 0 /\ N(Top(w), z, {"Drop"}) = 0
                         /\ N(Top(w), z, Launching) = 0
                         /\ N(Top(w), z, Holding) = IF z = s THEN 1 ELSE 0
                         /\ N(Top(w), z, Owning) = IF z = s THEN 1 ELSE 0
                         /\ N(Top(w), z, Turn) = IF z = s THEN 1 ELSE 0
      BY <1>1, Weighs DEF s, Holding, Owning, Turn, Launching
    <3>2. \A z \in Sid : /\ N(h, z, {"Delete"}) = 0 /\ N(h, z, {"Drop"}) = 0 /\ N(h, z, Launching) = 0
                         /\ N(h, z, Holding) = IF z = s THEN 1 ELSE 0
                         /\ N(h, z, Owning) = IF z = s THEN 1 ELSE 0
                         /\ N(h, z, Turn) = IF z = s THEN 1 ELSE 0
      BY <1>3, Weighs DEF Holding, Owning, Turn, Launching
    <3>3. \A z \in Sid : /\ N(k, z, {"Delete"}) = 0 /\ N(k, z, {"Drop"}) = 0 /\ N(k, z, Turn) = 0
                         /\ N(k, z, Holding) = 0 /\ N(k, z, Launching) = 0
                         /\ N(k, z, Owning) = IF z = x THEN 1 ELSE 0
      BY <2>2, Weighs DEF Holding, Owning, Turn, Launching
    <3> QED
      BY <1>1, <2>3, <3>1, <3>2, <3>3
  <2>6. OwnInv'
    <3>1. ASSUME NEW z \in Sid
          PROVE  G(global', z) + Cnt(stack', z, Owning) = G(global, z) + Cnt(stack, z, Owning)
      <4>1. G(global, z) \in Nat /\ Cnt(stack, z, Owning) \in Nat
        BY <1>0, <1>1, PlacesFinite DEF VarInv
      <4>2. /\ G(global', z) = G(global, z) - (IF x = z THEN 1 ELSE 0)
            /\ Cnt(stack', z, Owning) = Cnt(stack, z, Owning) + (IF z = x THEN 1 ELSE 0)
        BY <1>5, <2>1, <2>5
      <4> QED
        BY <4>1, <4>2, OneTheOther
    <3> QED
      BY <1>0, <1>2, <3>1, OwnKept
  <2>7. RefInv' /\ GoneInv' /\ TurnInv' /\ QuitMeansOver'
    BY <1>0, <1>2, <2>5 DEF RefInv, GoneInv, TurnInv, QuitMeansOver
  <2>8. VarInv'
    BY <1>0, <1>2, <1>5, <2>1 DEF VarInv
  <2> QED
    BY <2>4, <2>6, <2>7, <2>8 DEF QInv
<1> QED
  BY <1>2, <1>4, <1>5

LEMMA PushBackStep ==
  ASSUME QInv, NEW w \in Worker, PushBack(w)
  PROVE  QInv'
<1> DEFINE s == Top(w).svc
           f == F("Release", s)
<1>a. w \in Thread /\ w # Socket
  BY WorkerAssumption DEF Thread
<1>0. VarInv /\ StackInv /\ AdjInv /\ RefInv /\ GoneInv /\ TurnInv /\ OwnInv /\ QuitMeansOver
  BY DEF QInv
<1>1. /\ Top(w).at = "PushBack" /\ s \in Sid /\ stack \in Stacks /\ stack[w] # << >>
      /\ \A z, P : Cnt(stack, z, P) \in Nat
  BY <1>0, <1>a, TopGood DEF PushBack, At, Resting
<1>2. /\ Becomes(w, <<f>>) /\ global' = Append(global, s)
      /\ registered' = registered /\ ctx' = ctx /\ ref' = ref /\ mqueue' = mqueue /\ in_global' = in_global /\ release' = release /\ freed' = freed /\ asleep' = asleep /\ quit' = quit /\ source' = source /\ done' = done
  BY DEF PushBack, hvars, msgvars
<1>3. f \in Good /\ f.at = "Release" /\ f.svc = s
  BY <1>1, GoodFrames DEF F, Points, Resting
<1>4. Append(global, s) \in Seq(Sid)
      /\ \A z : G(Append(global, s), z) = G(global, z) + (IF s = z THEN 1 ELSE 0)
  BY <1>0, <1>1, PlacesAppend DEF VarInv
<1> HIDE DEF s, f
<1>5. \A z, P : Cnt(stack', z, P) = Cnt(stack, z, P) - N(Top(w), z, P) + N(f, z, P)
  BY <1>a, <1>1, <1>2, <1>3, Becomes1
<1>6. StackInv' /\ AdjInv'
  BY <1>0, <1>a, <1>1, <1>2, <1>3, Shape1 DEF Fine, Bottom, Resting
<1>7. \A z \in Sid : /\ Cnt(stack', z, Holding) = Cnt(stack, z, Holding)
                     /\ Cnt(stack', z, Owning) = Cnt(stack, z, Owning) - (IF z = s THEN 1 ELSE 0)
                     /\ Cnt(stack', z, {"Delete"}) = Cnt(stack, z, {"Delete"})
                     /\ Cnt(stack', z, {"Drop"}) = Cnt(stack, z, {"Drop"})
                     /\ Cnt(stack', z, Turn) = Cnt(stack, z, Turn) - (IF z = s THEN 1 ELSE 0)
                     /\ Cnt(stack', z, Launching) = Cnt(stack, z, Launching)
  <2>1. \A z \in Sid : /\ N(Top(w), z, {"Delete"}) = 0 /\ N(Top(w), z, {"Drop"}) = 0
                       /\ N(Top(w), z, Launching) = 0
                       /\ N(Top(w), z, Holding) = IF z = s THEN 1 ELSE 0
                       /\ N(Top(w), z, Owning) = IF z = s THEN 1 ELSE 0
                       /\ N(Top(w), z, Turn) = IF z = s THEN 1 ELSE 0
    BY <1>1, Weighs DEF s, Holding, Owning, Turn, Launching
  <2>2. \A z \in Sid : /\ N(f, z, {"Delete"}) = 0 /\ N(f, z, {"Drop"}) = 0 /\ N(f, z, Turn) = 0
                       /\ N(f, z, Owning) = 0 /\ N(f, z, Launching) = 0
                       /\ N(f, z, Holding) = IF z = s THEN 1 ELSE 0
    BY <1>3, Weighs DEF Holding, Owning, Turn, Launching
  <2> QED
    BY <1>1, <1>5, <2>1, <2>2
<1>8. OwnInv'
  <2>1. ASSUME NEW z \in Sid
        PROVE  G(global', z) + Cnt(stack', z, Owning) = G(global, z) + Cnt(stack, z, Owning)
    <3>1. G(global, z) \in Nat /\ Cnt(stack, z, Owning) \in Nat
      BY <1>0, <1>1, PlacesFinite DEF VarInv
    <3>2. /\ G(global', z) = G(global, z) + (IF s = z THEN 1 ELSE 0)
          /\ Cnt(stack', z, Owning) = Cnt(stack, z, Owning) - (IF z = s THEN 1 ELSE 0)
      BY <1>2, <1>4, <1>7
    <3> QED
      BY <3>1, <3>2, OneTheOther
  <2> QED
    BY <1>0, <1>2, <2>1, OwnKept
<1>9. TurnInv'
  <2>1. \A z \in Sid : Cnt(stack', z, Turn) > 0 => Cnt(stack, z, Turn) > 0
    BY <1>1, <1>7
  <2> QED
    BY <1>0, <1>2, <1>7, <2>1 DEF TurnInv
<1>10. RefInv' /\ GoneInv' /\ QuitMeansOver'
  BY <1>0, <1>2, <1>7 DEF RefInv, GoneInv, QuitMeansOver
<1>11. VarInv'
  BY <1>0, <1>2, <1>4 DEF VarInv
<1> QED
  BY <1>6, <1>8, <1>9, <1>10, <1>11 DEF QInv

(* A worker that is between two services. *)
LEMMA RestStep ==
  ASSUME QInv, NEW w \in Worker, NEW p \in Resting \ {"Outside"}, Top(w).at \in Resting,
         Becomes(w, <<F(p, Nobody)>>), asleep' \subseteq Worker,
         registered' = registered, ctx' = ctx, ref' = ref, mqueue' = mqueue, in_global' = in_global, release' = release, freed' = freed, global' = global, quit' = quit, source' = source, done' = done
  PROVE  QInv'
<1> DEFINE f == F(p, Nobody)
<1>a. w \in Thread /\ w # Socket
  BY WorkerAssumption DEF Thread
<1>0. VarInv /\ StackInv /\ AdjInv /\ RefInv /\ GoneInv /\ TurnInv /\ OwnInv /\ QuitMeansOver
  BY DEF QInv
<1>1. stack \in Stacks /\ stack[w] # << >> /\ Top(w).svc \notin Sid
      /\ \A z, P : Cnt(stack, z, P) \in Nat
  BY <1>0, <1>a, TopGood DEF Good
<1>2. f \in Good /\ f.at = p /\ f.svc \notin Sid
  BY NobodyAssumption DEF F, Points, Resting, Good, Frame
<1>3. Becomes(w, <<f>>)
  OBVIOUS
<1> HIDE DEF f
<1>4. \A z, P : Cnt(stack', z, P) = Cnt(stack, z, P) - N(Top(w), z, P) + N(f, z, P)
  BY <1>a, <1>1, <1>2, <1>3, Becomes1
<1>5. StackInv' /\ AdjInv'
  BY <1>0, <1>a, <1>1, <1>2, <1>3, Shape1 DEF Fine, Bottom, Resting
<1>6. \A z \in Sid : \A P : Cnt(stack', z, P) = Cnt(stack, z, P)
  BY <1>1, <1>2, <1>4, Weighs
<1>7. OwnInv'
  BY <1>0, <1>6, OwnKept
<1>8. RefInv' /\ GoneInv' /\ TurnInv' /\ QuitMeansOver'
  BY <1>0, <1>6 DEF RefInv, GoneInv, TurnInv, QuitMeansOver
<1>9. VarInv'
  BY <1>0 DEF VarInv
<1> QED
  BY <1>5, <1>7, <1>8, <1>9 DEF QInv

LEMMA SleepStep ==
  ASSUME QInv, NEW w \in Worker, Sleep(w)
  PROVE  QInv'
<1>1. /\ Top(w).at \in Resting /\ Becomes(w, <<F("Wait", Nobody)>>)
      /\ registered' = registered /\ ctx' = ctx /\ ref' = ref /\ mqueue' = mqueue /\ in_global' = in_global /\ release' = release /\ freed' = freed /\ global' = global /\ asleep' = asleep /\ quit' = quit /\ source' = source /\ done' = done
  BY DEF Sleep, At, Resting, hvars, qvars, msgvars
<1>2. "Wait" \in Resting \ {"Outside"} /\ asleep' \subseteq Worker
  BY <1>1 DEF QInv, VarInv, Resting
<1> QED
  BY <1>1, <1>2, RestStep

LEMMA WaitStep ==
  ASSUME QInv, NEW w \in Worker, Wait(w)
  PROVE  QInv'
<1>1. /\ Top(w).at \in Resting /\ Becomes(w, <<F("Pop", Nobody)>>)
      /\ asleep' \in {asleep, asleep \cup {w}}
      /\ registered' = registered /\ ctx' = ctx /\ ref' = ref /\ mqueue' = mqueue /\ in_global' = in_global /\ release' = release /\ freed' = freed /\ global' = global /\ quit' = quit /\ source' = source /\ done' = done
  BY DEF Wait, At, Resting, hvars, qvars, msgvars
<1>2. "Pop" \in Resting \ {"Outside"} /\ asleep' \subseteq Worker
  BY <1>1 DEF QInv, VarInv, Resting
<1> QED
  BY <1>1, <1>2, RestStep

(* A step that leaves the services and the stacks alone. *)
LEMMA AsideStep ==
  ASSUME QInv, asleep' \subseteq Worker, quit' \in {quit, TRUE}, QuitMeansOver', stack' = stack,
         registered' = registered, ctx' = ctx, ref' = ref, mqueue' = mqueue, in_global' = in_global, release' = release, freed' = freed, global' = global, source' = source, done' = done
  PROVE  QInv'
<1>0. VarInv /\ StackInv /\ AdjInv /\ RefInv /\ GoneInv /\ TurnInv /\ OwnInv /\ QuitMeansOver
  BY DEF QInv
<1>1. StackInv' /\ AdjInv'
  BY <1>0 DEF StackInv, AdjInv
<1>2. RefInv' /\ GoneInv' /\ TurnInv'
  BY <1>0 DEF RefInv, GoneInv, TurnInv
<1>3. OwnInv'
  BY <1>0 DEF OwnInv
<1>4. VarInv'
  BY <1>0 DEF VarInv
<1> QED
  BY <1>1, <1>2, <1>3, <1>4 DEF QInv

LEMMA WakeUpStep ==
  ASSUME QInv, NEW w \in Worker, WakeUp(w)
  PROVE  QInv'
<1>1. /\ asleep' = asleep \ {w} /\ stack' = stack
      /\ registered' = registered /\ ctx' = ctx /\ ref' = ref /\ mqueue' = mqueue /\ in_global' = in_global /\ release' = release /\ freed' = freed /\ global' = global /\ quit' = quit /\ source' = source /\ done' = done
  BY DEF WakeUp, hvars, qvars, msgvars
<1>2. asleep' \subseteq Worker /\ QuitMeansOver'
  BY <1>1 DEF QInv, VarInv, QuitMeansOver
<1> QED
  BY <1>1, <1>2, AsideStep

(* No context is left, and nobody is inside one to make another. *)
LEMMA AbortStep ==
  ASSUME QInv, Abort
  PROVE  QInv'
<1>1. /\ Total = 0 /\ quit' = TRUE /\ asleep' = {} /\ stack' = stack
      /\ registered' = registered /\ ctx' = ctx /\ ref' = ref /\ mqueue' = mqueue /\ in_global' = in_global /\ release' = release /\ freed' = freed /\ global' = global /\ source' = source /\ done' = done
  BY DEF Abort, hvars, qvars, msgvars
<1> DEFINE L == {s \in Sid : ctx[s] \in {"init", "live"}}
<1>2. L \in SUBSET Sid /\ IsFiniteSet(L) /\ Cardinality(L) = 0
  BY <1>1, SidAssumption, FS_Subset DEF Total
<1>3. L = {}
  BY <1>2, FS_EmptySet
<1>4. QuitMeansOver'
  BY <1>1, <1>3 DEF QuitMeansOver
<1> QED
  BY <1>1, <1>4, AsideStep

(* The contexts are gone: what is in a queue stays there. *)
LEMMA StopStep ==
  ASSUME QInv, NEW w \in Worker, Stop(w)
  PROVE  QInv'
<1> DEFINE f == F("Stopped", Nobody)
<1>a. w \in Thread /\ w # Socket
  BY WorkerAssumption DEF Thread
<1>0. VarInv /\ StackInv /\ AdjInv /\ RefInv /\ GoneInv /\ TurnInv /\ OwnInv /\ QuitMeansOver
  BY DEF QInv
<1>1. /\ Top(w).at \in {"Pop", "Grab"} /\ quit /\ stack \in Stacks /\ stack[w] # << >>
      /\ \A z, P : Cnt(stack, z, P) \in Nat
  BY <1>0, <1>a, TopGood DEF Stop
<1>2. /\ Becomes(w, <<f>>)
      /\ registered' = registered /\ ctx' = ctx /\ ref' = ref /\ mqueue' = mqueue /\ in_global' = in_global /\ release' = release /\ freed' = freed /\ global' = global /\ asleep' = asleep /\ quit' = quit /\ source' = source /\ done' = done
  BY DEF Stop, hvars, qvars, msgvars
<1>3. f \in Good /\ f.at = "Stopped" /\ f.svc \notin Sid
  BY NobodyAssumption DEF F, Points, Resting, Good, Frame
<1> HIDE DEF f
<1>4. \A z, P : Cnt(stack', z, P) = Cnt(stack, z, P) - N(Top(w), z, P) + N(f, z, P)
  BY <1>a, <1>1, <1>2, <1>3, Becomes1
<1>5. StackInv' /\ AdjInv'
  BY <1>0, <1>a, <1>1, <1>2, <1>3, Shape1 DEF Fine, Bottom, Resting
<1>6. \A z \in Sid : /\ Cnt(stack', z, Holding) = Cnt(stack, z, Holding)
                     /\ Cnt(stack', z, {"Delete"}) = Cnt(stack, z, {"Delete"})
                     /\ Cnt(stack', z, {"Drop"}) = Cnt(stack, z, {"Drop"})
                     /\ Cnt(stack', z, Turn) = Cnt(stack, z, Turn)
                     /\ Cnt(stack', z, Launching) = Cnt(stack, z, Launching)
  <2>1. \A z \in Sid : /\ N(Top(w), z, Holding) = 0 /\ N(Top(w), z, {"Delete"}) = 0
                       /\ N(Top(w), z, {"Drop"}) = 0 /\ N(Top(w), z, Turn) = 0
                       /\ N(Top(w), z, Launching) = 0
    BY <1>1, Weighs DEF Holding, Turn, Launching
  <2>2. \A z \in Sid : \A P : N(f, z, P) = 0
    BY <1>3, Weighs
  <2> QED
    BY <1>1, <1>4, <2>1, <2>2
<1>7. RefInv' /\ GoneInv' /\ TurnInv' /\ QuitMeansOver' /\ OwnInv'
  BY <1>0, <1>1, <1>2, <1>6 DEF RefInv, GoneInv, TurnInv, QuitMeansOver, OwnInv
<1>8. VarInv'
  BY <1>0, <1>2 DEF VarInv
<1> QED
  BY <1>5, <1>7, <1>8 DEF QInv

LEMMA StillStep ==
  ASSUME QInv, UNCHANGED queuevars
  PROVE  QInv'
<1>1. /\ stack' = stack
      /\ registered' = registered /\ ctx' = ctx /\ ref' = ref /\ mqueue' = mqueue /\ in_global' = in_global /\ release' = release /\ freed' = freed /\ global' = global /\ asleep' = asleep /\ quit' = quit /\ source' = source /\ done' = done
  BY DEF queuevars, hvars, qvars, msgvars
<1>2. asleep' \subseteq Worker /\ QuitMeansOver'
  BY <1>1 DEF QInv, VarInv, QuitMeansOver
<1> QED
  BY <1>1, <1>2, AsideStep

-----------------------------------------------------------------------------
(* The invariant *)

(* The invariant holds when the threads start. *)
LEMMA QueueInitInv ==
  ASSUME QueueInit
  PROVE  QInv
<1> DEFINE b(t) == F(IF t = Socket THEN "Outside" ELSE "Pop", Nobody)
<1>1. /\ registered = Boot
      /\ ctx = [s \in Sid |-> IF s \in Boot THEN "live" ELSE "none"]
      /\ ref = [s \in Sid |-> IF s \in Boot THEN 1 ELSE 0]
      /\ mqueue = [s \in Sid |-> << >>]
      /\ in_global = [s \in Sid |-> s \in Boot]
      /\ release = [s \in Sid |-> FALSE] /\ freed = [s \in Sid |-> FALSE]
      /\ global = SetToSeq(Boot)
      /\ stack = [t \in Thread |-> <<b(t)>>]
      /\ asleep = {} /\ quit = FALSE /\ source = [m \in Msg |-> Unsent] /\ done = {}
  BY DEF QueueInit
<1>2. \A t \in Thread : /\ b(t) \in Good /\ b(t).svc \notin Sid /\ b(t).at \in {"Outside", "Pop"}
                        /\ t = Socket => b(t).at = "Outside"
  <2>1. F("Outside", Nobody) \in Good /\ F("Pop", Nobody) \in Good
    BY NobodyAssumption DEF F, Points, Resting, Good, Frame
  <2>2. \A p : F(p, Nobody).svc \notin Sid /\ F(p, Nobody).at = p
    BY NobodyAssumption DEF F
  <2> QED
    BY <2>1, <2>2
<1> HIDE DEF b
<1>3. \A t \in Thread : /\ stack[t] \in Seq(Good) /\ stack[t] # << >> /\ Len(stack[t]) = 1
                        /\ DOMAIN stack[t] = {1} /\ stack[t][1] = b(t)
  BY <1>1, <1>2
<1>4. stack \in Stacks
  BY <1>1, <1>3 DEF Stacks
<1>5. StackInv
  BY <1>2, <1>3, <1>4 DEF StackInv, Bottom, Resting, Outer, Thread
<1>6. AdjInv
  BY <1>2, <1>3 DEF AdjInv, Fine
<1>7. ASSUME NEW s \in Sid, NEW P PROVE Cnt(stack, s, P) = 0
  <2>1. Frames(stack, s, P) = {}
    <3> SUFFICES ASSUME NEW x \in Frames(stack, s, P) PROVE FALSE
      OBVIOUS
    <3>1. x[1] \in Thread /\ x[2] \in DOMAIN stack[x[1]] /\ Counts(stack[x[1]][x[2]], s, P)
      BY FramePairs
    <3> QED
      BY <1>2, <1>3, <3>1 DEF Counts
  <2> QED
    BY <2>1, FS_EmptySet DEF Cnt
<1>8. VarInv
  <2>1. registered \subseteq Sid /\ global \in Seq(Sid)
    BY <1>1, PlacesBoot, SidAssumption
  <2>2. << >> \in Seq(Mail)
    OBVIOUS
  <2>3. /\ ctx \in [Sid -> {"none", "init", "live", "freed"}]
        /\ ref \in [Sid -> Nat] /\ mqueue \in [Sid -> Seq(Mail)]
    BY <1>1, <2>2
  <2>4. in_global \in [Sid -> BOOLEAN] /\ release \in [Sid -> BOOLEAN] /\ freed \in [Sid -> BOOLEAN]
    BY <1>1
  <2>5. /\ asleep \subseteq Worker /\ quit \in BOOLEAN
        /\ source \in [Msg -> Sid \cup {Nobody, Unsent}] /\ done \subseteq Mail
    BY <1>1
  <2> QED
    BY <2>1, <2>3, <2>4, <2>5 DEF VarInv
<1>9. RefInv
  BY <1>1, <1>7, SidAssumption DEF RefInv, One
<1>10. GoneInv /\ TurnInv /\ QuitMeansOver
  BY <1>1, <1>7 DEF GoneInv, TurnInv, QuitMeansOver
<1>11. OwnInv
  <2>1. ASSUME NEW s \in Sid
        PROVE  G(global, s) + Cnt(stack, s, Owning)
                 = One(ctx[s] # "none" /\ ~freed[s] /\ (in_global[s] \/ release[s]))
    <3>1. G(global, s) = (IF s \in Boot THEN 1 ELSE 0) /\ Cnt(stack, s, Owning) = 0
      BY <1>1, <1>7, PlacesBoot
    <3>2. (ctx[s] # "none" /\ ~freed[s] /\ (in_global[s] \/ release[s])) <=> s \in Boot
      BY <1>1
    <3> QED
      BY <3>1, <3>2 DEF One
  <2> QED
    BY <2>1 DEF OwnInv
<1> QED
  BY <1>5, <1>6, <1>8, <1>9, <1>10, <1>11 DEF QInv

(* Every step keeps it. *)
LEMMA QueueStepInv ==
  ASSUME QInv, [QueueNext]_queuevars
  PROVE  QInv'
<1>1. ASSUME NEW t \in Thread, Inside(t) PROVE QInv'
  BY <1>1, PushStep, ReleaseStep, DeleteStep, RetireStep, InitDoneStep, LaunchReleaseStep,
     SetInitStep, LaunchPushStep, MqReleaseStep, DropStep DEF Inside
<1>2. ASSUME NEW t \in Thread, NEW s \in Sid,
             Kill(t, s) \/ Launch(t, s) \/ \E m \in Msg : Send(t, s, m)
      PROVE  QInv'
  BY <1>2, KillStep, LaunchStep, SendStep
<1>3. ASSUME NEW w \in Worker, Dispatch(w) PROVE QInv'
  BY <1>3, PopStep, GrabStep, PopMsgStep, CallbackDoneStep, NextPopStep, PushBackStep,
     SleepStep, WaitStep, StopStep DEF Dispatch
<1>4. ASSUME NEW w \in Worker, WakeUp(w) PROVE QInv'
  BY <1>4, WakeUpStep
<1>5. CASE Abort
  BY <1>5, AbortStep
<1>6. CASE Joined
  BY <1>6, StillStep DEF Joined
<1>7. CASE UNCHANGED queuevars
  BY <1>7, StillStep
<1> QED
  BY <1>1, <1>2, <1>3, <1>4, <1>5, <1>6, <1>7 DEF QueueNext

(* What the theorems below rest on: QInv is an invariant. *)
LEMMA QueueInvariant == QueueSpec => []QInv
<1>1. QueueInit => QInv
  BY QueueInitInv
<1>2. QInv /\ [QueueNext]_queuevars => QInv'
  BY QueueStepInv
<1> QED
  BY <1>1, <1>2, PTL DEF QueueSpec

-----------------------------------------------------------------------------
(* What the services rely on *)

LEMMA InvTypes ==
  ASSUME QInv
  PROVE  QueueTypeOK
<1>1. VarInv /\ StackInv
  BY DEF QInv
<1>2. ASSUME NEW t \in Thread PROVE stack[t] \in Seq(Frame)
  <2>1. stack[t] \in Seq(Good) /\ Good \subseteq Frame
    BY <1>1 DEF StackInv, Stacks, Good
  <2> QED
    BY <2>1, SeqMonotonic
<1>3. stack \in [Thread -> Seq(Frame)] /\ \A t \in Thread : stack[t] # << >>
  BY <1>1, <1>2 DEF StackInv, Stacks
<1> QED
  BY <1>1, <1>3 DEF QueueTypeOK, VarInv

(* A context's count is exactly the references there are, and it is        *)
(* deleted by the release that makes it 0 and by no other                  *)
(* (skynet_context_release, skynet_server.c).                              *)
THEOREM RefCountedAlways == QueueSpec => []RefCounted
<1>1. ASSUME QInv PROVE RefCounted
  <2>1. QueueTypeOK
    BY <1>1, InvTypes
  <2>2. RefInv /\ stack \in Stacks
    BY <1>1 DEF QInv, StackInv
  <2>3. ASSUME NEW s \in Sid
        PROVE  /\ ref[s] = One(s \in registered) + FramesAt(s, Holding)
               /\ ctx[s] \in {"init", "live"} <=> ref[s] > 0 \/ FramesAt(s, {"Delete"}) = 1
    <3>1. FramesAt(s, Holding) = Cnt(stack, s, Holding)
          /\ FramesAt(s, {"Delete"}) = Cnt(stack, s, {"Delete"})
      BY FramesMean
    <3>2. Cnt(stack, s, {"Delete"}) \in Nat
      BY <2>2, FramesFinite
    <3>3. Cnt(stack, s, {"Delete"}) > 0 <=> Cnt(stack, s, {"Delete"}) = 1
      BY <2>2, <3>2 DEF RefInv
    <3> QED
      BY <2>2, <3>1, <3>3 DEF RefInv
  <2> QED
    BY <2>1, <2>3 DEF RefCounted
<1> QED
  BY <1>1, QueueInvariant, PTL

(* A queue that is marked in_global or for release is in one place, in Q   *)
(* or with one thread, and any other is nowhere (skynet_mq.c).             *)
THEOREM QueueOwnedAlways == QueueSpec => []QueueOwned
<1>1. ASSUME QInv PROVE QueueOwned
  <2>1. ASSUME ~quit, NEW s \in Sid
        PROVE  Cardinality({i \in DOMAIN global : global[i] = s}) + FramesAt(s, Owning)
                 = One(ctx[s] # "none" /\ ~freed[s] /\ (in_global[s] \/ release[s]))
    <3>1. G(global, s) + Cnt(stack, s, Owning)
            = One(ctx[s] # "none" /\ ~freed[s] /\ (in_global[s] \/ release[s]))
      BY <1>1, <2>1 DEF QInv, OwnInv
    <3>2. FramesAt(s, Owning) = Cnt(stack, s, Owning)
      BY FramesMean
    <3> QED
      BY <3>1, <3>2 DEF G, Places
  <2> QED
    BY <2>1 DEF QueueOwned
<1> QED
  BY <1>1, QueueInvariant, PTL

(* A message is handled by a context whose init function has returned      *)
(* (assert(ctx->init) in dispatch_message), by one worker at a time.       *)
THEOREM InitFirstAlways == QueueSpec => []InitFirst
<1>1. ASSUME QInv PROVE InitFirst
  <2>1. /\ RefInv /\ TurnInv /\ OwnInv /\ QuitMeansOver /\ stack \in Stacks /\ global \in Seq(Sid)
        /\ ref \in [Sid -> Nat]
    BY <1>1 DEF QInv, StackInv, VarInv
  <2>2. ASSUME NEW s \in Sid
        PROVE  /\ FramesAt(s, {"Callback"}) > 0 => ctx[s] = "live"
               /\ FramesAt(s, {"Callback", "Init"}) <= 1
    <3>1. /\ FramesAt(s, {"Callback"}) = Cnt(stack, s, {"Callback"})
          /\ FramesAt(s, {"Callback", "Init"}) = Cnt(stack, s, {"Callback", "Init"})
      BY FramesMean
    <3>2. /\ Cnt(stack, s, {"Callback"}) \in Nat /\ Cnt(stack, s, {"Callback", "Init"}) \in Nat
          /\ Cnt(stack, s, Turn) \in Nat /\ Cnt(stack, s, Owning) \in Nat
          /\ Cnt(stack, s, Holding) \in Nat /\ G(global, s) \in Nat /\ ref[s] \in Nat
      BY <2>1, FramesFinite, PlacesFinite
    <3>3. Cnt(stack, s, {"Callback"}) <= Cnt(stack, s, Turn)
      <4>1. {"Callback"} \subseteq Turn
        BY DEF Turn
      <4> QED
        BY <2>1, <4>1, CntSub
    <3>4. Cnt(stack, s, {"Callback", "Init"}) <= Cnt(stack, s, Owning)
      <4>1. {"Callback", "Init"} \subseteq Owning
        BY DEF Owning
      <4> QED
        BY <2>1, <4>1, CntSub
    <3>5. Cnt(stack, s, {"Callback", "Init"}) <= Cnt(stack, s, Holding)
      <4>1. {"Callback", "Init"} \subseteq Holding
        BY DEF Holding
      <4> QED
        BY <2>1, <4>1, CntSub
    <3>6. Cnt(stack, s, {"Callback"}) > 0 => ctx[s] = "live"
      BY <2>1, <3>2, <3>3 DEF TurnInv
    <3>7. CASE quit
      <4>1. ~(ref[s] > 0)
        BY <2>1, <3>7 DEF QuitMeansOver, RefInv
      <4>2. ref[s] = One(s \in registered) + Cnt(stack, s, Holding)
        BY <2>1 DEF RefInv
      <4>3. One(s \in registered) \in {0, 1}
        BY DEF One
      <4> QED
        BY <3>1, <3>2, <3>5, <3>6, <4>1, <4>2, <4>3
    <3>8. CASE ~quit
      <4>1. G(global, s) + Cnt(stack, s, Owning) <= 1
        BY <2>1, <3>8 DEF OwnInv, One
      <4> QED
        BY <3>1, <3>2, <3>4, <3>6, <4>1
    <3> QED
      BY <3>7, <3>8
  <2> QED
    BY <2>2 DEF InitFirst
<1> QED
  BY <1>1, QueueInvariant, PTL

(* The threads are told to stop only when no service is left or to come    *)
(* (CHECK_ABORT, skynet_start.c).                                          *)
THEOREM QuitMeansOverAlways == QueueSpec => []QuitMeansOver
<1>1. QInv => QuitMeansOver
  BY DEF QInv
<1> QED
  BY <1>1, QueueInvariant, PTL

-----------------------------------------------------------------------------
(* No message is lost in silence *)

(* An error message is on its way back to the sender, who is known and has *)
(* been a service; so its own loss is the loss of a service that has left. *)
ErrInv ==
  \A m \in Msg :
    /\ source[m] \in Sid => ctx[source[m]] # "none"
    /\ \A s \in Sid : Err(m) \in Range(mqueue[s]) => source[m] = s
    /\ \A f : In(stack, f) /\ f.at = "Push" /\ f.msg = Err(m) => source[m] = f.svc
LossInv == NoSilentLoss /\ ErrInv

(* Frames that hold no message. *)
Light == {f \in Good : f.at \notin {"Push", "Callback"}}

LEMMA LightFrames ==
  /\ \A f \in Light : f.msg \notin Mail
  /\ << >> \in Seq(Light)
  /\ \A s \in Sid : \A p \in Points \ (Resting \cup {"Push", "Callback"}) : F(p, s) \in Light
  /\ \A p \in Resting : F(p, Nobody) \in Light
  /\ \A s \in Sid : \A n \in Nat \cup {First} : [F("PopMsg", s) EXCEPT !.n = n] \in Light
<1>1. \A f \in Light : f.msg \notin Mail
  BY DEF Light, Good
<1>2. \A s \in Sid : \A p \in Points \ (Resting \cup {"Push", "Callback"}) : F(p, s) \in Light
  BY GoodFrames DEF Light, F
<1>3. \A p \in Resting : F(p, Nobody) \in Light
  BY NobodyAssumption DEF Light, F, Good, Frame, Resting, Points
<1>4. \A s \in Sid : \A n \in Nat \cup {First} : [F("PopMsg", s) EXCEPT !.n = n] \in Light
  <2> SUFFICES ASSUME NEW s \in Sid, NEW n \in Nat \cup {First}
               PROVE  [F("PopMsg", s) EXCEPT !.n = n] \in Light
    OBVIOUS
  <2>1. [F("PopMsg", s) EXCEPT !.n = n] \in Good
    BY GoodFrames DEF Points
  <2>2. [F("PopMsg", s) EXCEPT !.n = n].at = "PopMsg"
    BY DEF F
  <2> QED
    BY <2>1, <2>2 DEF Light
<1> QED
  BY <1>1, <1>2, <1>3, <1>4

(* The frames that hold a message stay when the one on top holds none. *)
LEMMA LightMove ==
  ASSUME StackInv, NEW t \in Thread, NEW fs \in Seq(Light), Becomes(t, fs), Top(t) \in Light
  PROVE  \A f : f.msg \in Mail => (In(stack', f) <=> In(stack, f))
<1>1. fs \in Seq(Good)
  BY SeqMonotonic DEF Light
<1>2. \A i \in DOMAIN fs : fs[i] \in Light
  BY ElementOfSeq, LenProperties
<1> QED
  BY <1>1, <1>2, FramesMoved, LightFrames

LEMMA CallMove ==
  ASSUME StackInv, NEW t \in Thread, NEW f \in Good, Call(t, <<f>>)
  PROVE  \A g : In(stack', g) <=> In(stack, g) \/ g = f
<1>1. Top(t) \in Good /\ stack \in Stacks /\ stack[t] # << >>
  BY TopGood
<1> DEFINE fs == <<f, Top(t)>>
<1>2. Becomes(t, fs)
  BY <1>1, CallIs
<1>3. fs \in Seq(Good) /\ DOMAIN fs = {1, 2} /\ fs[1] = f /\ fs[2] = Top(t)
  BY <1>1, Lists
<1> HIDE DEF fs
<1>4. /\ \A g : In(stack, g) /\ g # Top(t) => In(stack', g)
      /\ \A i \in DOMAIN fs : In(stack', fs[i])
      /\ \A g : In(stack', g) => In(stack, g) \/ \E i \in DOMAIN fs : g = fs[i]
      /\ In(stack, Top(t))
  BY <1>2, <1>3, FramesMoved
<1> QED
  BY <1>3, <1>4

(* The places where a message may be: in a queue, or with a thread. *)
Queued(q, x) == \E s \in Sid : x \in Range(q[s])
Loaded(st, x) == \E t \in Thread : \E i \in DOMAIN st[t] : st[t][i].msg = x

LEMMA SomewhereMeans ==
  ASSUME NEW x
  PROVE  /\ Somewhere(x) <=> x \in done \/ Queued(mqueue, x) \/ Loaded(stack, x)
         /\ Somewhere(x)' <=> x \in done' \/ Queued(mqueue', x) \/ Loaded(stack', x)
<1>1. Somewhere(x) <=> x \in done \/ Queued(mqueue, x) \/ Loaded(stack, x)
  BY Zenon DEF Somewhere, Queued, Loaded
<1>2. Somewhere(x)' <=> x \in done' \/ Queued(mqueue', x) \/ Loaded(stack', x)
  BY Zenon DEF Somewhere, Queued, Loaded
<1> QED
  BY <1>1, <1>2

LEMMA LoadedIn ==
  ASSUME NEW st, NEW f, In(st, f)
  PROVE  Loaded(st, f.msg)
BY DEF Loaded, In

LEMMA InLoaded ==
  ASSUME NEW st, NEW x, Loaded(st, x)
  PROVE  \E f : In(st, f) /\ f.msg = x
<1>1. PICK t \in Thread : \E i \in DOMAIN st[t] : st[t][i].msg = x
  BY DEF Loaded
<1>2. PICK i \in DOMAIN st[t] : st[t][i].msg = x
  BY <1>1
<1>3. In(st, st[t][i])
  BY DEF In
<1> QED
  BY <1>2, <1>3

LEMMA InGood ==
  ASSUME StackInv, NEW f, In(stack, f)
  PROVE  f \in Good
<1>1. PICK t \in Thread : \E i \in DOMAIN stack[t] : stack[t][i] = f
  BY DEF In
<1>2. stack[t] \in Seq(Good)
  BY DEF StackInv, Stacks
<1> QED
  BY <1>1, <1>2, ElementOfSeq, LenProperties

LEMMA RangeAppend ==
  ASSUME NEW q \in Seq(Mail), NEW x \in Mail
  PROVE  Range(Append(q, x)) = Range(q) \cup {x}
<1>1. /\ DOMAIN Append(q, x) = 1 .. Len(q) + 1 /\ DOMAIN q = 1 .. Len(q) /\ Len(q) \in Nat
      /\ \A i \in 1 .. Len(q) : Append(q, x)[i] = q[i]
      /\ Append(q, x)[Len(q) + 1] = x
  BY AppendProperties, LenProperties
<1>2. 1 .. Len(q) + 1 = (1 .. Len(q)) \cup {Len(q) + 1}
  BY <1>1
<1> QED
  BY <1>1, <1>2 DEF Range

LEMMA RangeTail ==
  ASSUME NEW q \in Seq(Mail), q # << >>
  PROVE  /\ Range(q) = {Head(q)} \cup Range(Tail(q)) /\ Head(q) \in Mail /\ Tail(q) \in Seq(Mail)
<1>1. /\ DOMAIN Tail(q) = 1 .. Len(q) - 1 /\ DOMAIN q = 1 .. Len(q) /\ Len(q) \in Nat \ {0}
      /\ \A i \in 1 .. Len(q) - 1 : Tail(q)[i] = q[i + 1]
      /\ Head(q) = q[1] /\ Head(q) \in Mail /\ Tail(q) \in Seq(Mail)
  BY HeadTailProperties, LenProperties, EmptySeq
<1>2. ASSUME NEW x \in Range(q) PROVE x \in {Head(q)} \cup Range(Tail(q))
  <2>1. PICK i \in 1 .. Len(q) : q[i] = x
    BY <1>1 DEF Range
  <2>2. CASE i = 1
    BY <1>1, <2>1, <2>2
  <2>3. CASE i # 1
    <3>1. i - 1 \in 1 .. Len(q) - 1 /\ (i - 1) + 1 = i
      BY <1>1, <2>3
    <3>2. Tail(q)[i - 1] = x
      BY <1>1, <2>1, <3>1
    <3> QED
      BY <1>1, <3>1, <3>2 DEF Range
  <2> QED
    BY <2>2, <2>3
<1>3. ASSUME NEW x \in {Head(q)} \cup Range(Tail(q)) PROVE x \in Range(q)
  <2>1. CASE x = Head(q)
    <3>1. 1 \in DOMAIN q
      BY <1>1
    <3> QED
      BY <1>1, <2>1, <3>1 DEF Range
  <2>2. CASE x \in Range(Tail(q))
    <3>1. PICK i \in 1 .. Len(q) - 1 : Tail(q)[i] = x
      BY <1>1, <2>2 DEF Range
    <3>2. i + 1 \in DOMAIN q /\ q[i + 1] = x
      BY <1>1, <3>1
    <3> QED
      BY <3>2 DEF Range
  <2> QED
    BY <1>3, <2>1, <2>2
<1> QED
  BY <1>1, <1>2, <1>3

(* A handle is registered once. *)
LEMMA SenderStays ==
  ASSUME ErrInv, VarInv, NEW m \in Msg, source'[m] = source[m], source'[m] \in registered',
         registered' \subseteq Sid,
         \A s \in Sid : s \in registered' => s \in registered \/ ctx[s] = "none"
  PROVE  source[m] \in registered
BY DEF ErrInv

(* What every step does that moves no message: a handle is registered      *)
(* once, and at most one service leaves.                                   *)
Ended == {s \in Sid \ registered : ctx[s] # "none"}
Quiet ==
  /\ mqueue' = mqueue /\ source' = source /\ done' = done
  /\ \A f : f.msg \in Mail => (In(stack', f) <=> In(stack, f))
  /\ \A s \in Sid : s \in registered' => s \in registered \/ ctx[s] = "none"
  /\ \A s \in Sid : ctx[s] # "none" => ctx'[s] # "none"
  /\ Ended' = Ended \/ \E s \in Sid : Ended' = Ended \cup {s}

LEMMA LossQuiet ==
  ASSUME QInv, QInv', LossInv, Quiet
  PROVE  LossInv'
<1>0. /\ mqueue' = mqueue /\ source' = source /\ done' = done
      /\ \A f : f.msg \in Mail => (In(stack', f) <=> In(stack, f))
      /\ \A s \in Sid : s \in registered' => s \in registered \/ ctx[s] = "none"
      /\ \A s \in Sid : ctx[s] # "none" => ctx'[s] # "none"
  BY DEF Quiet
<1>1. /\ VarInv /\ registered' \subseteq Sid /\ NoSilentLoss /\ ErrInv
  BY DEF QInv, VarInv, LossInv
<1>2. \A m \in Msg : Say(m) \in Mail /\ Err(m) \in Mail
  BY DEF Mail
<1>3. ASSUME NEW x \in Mail, Somewhere(x) PROVE Somewhere(x)'
  <2>1. CASE x \in done \/ Queued(mqueue, x)
    BY <1>0, <2>1, SomewhereMeans
  <2>2. CASE Loaded(stack, x)
    <3>1. PICK f : In(stack, f) /\ f.msg = x
      BY <2>2, InLoaded
    <3>2. In(stack', f)
      BY <1>0, <3>1
    <3>3. Loaded(stack', x)
      BY <3>1, <3>2, LoadedIn
    <3> QED
      BY <3>3, SomewhereMeans
  <2> QED
    BY <1>3, <2>1, <2>2, SomewhereMeans
<1>4. ASSUME NEW m \in Msg, source'[m] \in registered'
      PROVE  Somewhere(Say(m))' \/ Somewhere(Err(m))'
  <2>1. source[m] \in registered
    BY <1>0, <1>1, <1>4, SenderStays
  <2>2. Somewhere(Say(m)) \/ Somewhere(Err(m))
    BY <1>1, <2>1 DEF NoSilentLoss
  <2> QED
    BY <1>2, <1>3, <2>2
<1>5. NoSilentLoss'
  BY <1>4 DEF NoSilentLoss, Say, Err
<1>6. ErrInv'
  <2>1. ASSUME NEW m \in Msg
        PROVE  /\ source'[m] \in Sid => ctx'[source'[m]] # "none"
               /\ \A s \in Sid : Err(m) \in Range(mqueue'[s]) => source'[m] = s
               /\ \A f : In(stack', f) /\ f.at = "Push" /\ f.msg = Err(m) => source'[m] = f.svc
    BY <1>0, <1>1, <1>2 DEF ErrInv
  <2> QED
    BY <2>1 DEF ErrInv, Err
<1> QED
  BY <1>5, <1>6 DEF LossInv

LEMMA QuietBecomes ==
  ASSUME QInv, NEW t \in Thread, Top(t) \in Light,
         \E fs \in Seq(Light) : Becomes(t, fs),
         mqueue' = mqueue, source' = source, done' = done,
         registered' = registered \/ \E s \in Sid : registered' = registered \ {s},
         \A s \in Sid : ctx'[s] = "none" <=> ctx[s] = "none"
  PROVE  Quiet
<1>1. StackInv
  BY DEF QInv
<1>2. PICK fs \in Seq(Light) : Becomes(t, fs)
  OBVIOUS
<1>3. \A f : f.msg \in Mail => (In(stack', f) <=> In(stack, f))
  BY <1>1, <1>2, LightMove
<1>4. \A s \in Sid : s \in registered' => s \in registered \/ ctx[s] = "none"
  OBVIOUS
<1>5. Ended' = Ended \/ \E s \in Sid : Ended' = Ended \cup {s}
  <2>1. CASE registered' = registered
    BY <2>1 DEF Ended
  <2>2. ASSUME NEW s \in Sid, registered' = registered \ {s}
        PROVE  Ended' = Ended \/ Ended' = Ended \cup {s}
    <3>1. CASE s \in registered
      <4>1. ctx[s] # "none"
        BY <3>1, Registered
      <4> QED
        BY <2>2, <4>1 DEF Ended
    <3>2. CASE s \notin registered
      BY <2>2, <3>2 DEF Ended
    <3> QED
      BY <3>1, <3>2
  <2> QED
    BY <2>1, <2>2
<1> QED
  BY <1>3, <1>4, <1>5 DEF Quiet

(* The frames that are no turn, no push and no drop. *)
LEMMA QuietInside ==
  ASSUME QInv, NEW t \in Thread,
         \/ Release(t) \/ Delete(t) \/ Retire(t) \/ InitDone(t)
         \/ LaunchRelease(t) \/ SetInit(t) \/ LaunchPush(t) \/ MqRelease(t)
  PROVE  Quiet
<1> DEFINE s == Top(t).svc
<1>0. VarInv /\ StackInv
  BY DEF QInv
<1>1. Top(t) \in Light /\ s \in Sid
  <2>1. Top(t).at \in {"Release", "Delete", "Retire", "Init", "LaunchRelease", "SetInit",
                       "LaunchPush", "MqRelease"}
    BY DEF Release, Delete, Retire, InitDone, LaunchRelease, SetInit, LaunchPush, MqRelease, At
  <2>2. Top(t).at \notin Resting /\ Top(t).at \notin {"Push", "Callback"}
    BY <2>1 DEF Resting
  <2> QED
    BY <1>0, <2>2, TopGood DEF Light
<1> DEFINE Steps == {"Release", "Delete", "Retire", "LaunchRelease", "SetInit", "LaunchPush",
                     "MqRelease", "Drop"}
<1>2. \A p \in Steps : F(p, s) \in Light
  <2>1. Steps \subseteq Points \ (Resting \cup {"Push", "Callback"})
    BY DEF Points, Resting
  <2> HIDE DEF Steps, s
  <2> QED
    BY <1>1, <2>1, LightFrames
<1>3. /\ << >> \in Seq(Light)
      /\ \A p \in Steps : <<F(p, s)>> \in Seq(Light)
      /\ \A p, q \in Steps : <<F(p, s), F(q, s)>> \in Seq(Light)
      /\ \A p, q, r \in Steps : <<F(p, s), F(q, s), F(r, s)>> \in Seq(Light)
  <2> HIDE DEF Steps
  <2> QED
    BY <1>2
<1>4. CASE Release(t)
  <2>1. \E fs \in Seq(Light) : Becomes(t, fs)
    BY <1>4, <1>3 DEF Release, Return
  <2>2. /\ mqueue' = mqueue /\ source' = source /\ done' = done
        /\ registered' = registered \/ \E z \in Sid : registered' = registered \ {z}
    BY <1>1, <1>4 DEF Release, hvars, qvars, msgvars
  <2>3. \A z \in Sid : ctx'[z] = "none" <=> ctx[z] = "none"
    BY <1>0, <1>1, <1>4 DEF Release, hvars, VarInv
  <2> QED
    BY <1>1, <2>1, <2>2, <2>3, QuietBecomes
<1>5. CASE Delete(t)
  <2>1. \E fs \in Seq(Light) : Becomes(t, fs)
    BY <1>5, <1>3 DEF Delete, Return
  <2>2. /\ mqueue' = mqueue /\ source' = source /\ done' = done
        /\ registered' = registered \/ \E z \in Sid : registered' = registered \ {z}
    BY <1>1, <1>5 DEF Delete, hvars, qvars, msgvars
  <2>3. \A z \in Sid : ctx'[z] = "none" <=> ctx[z] = "none"
    <3>1. ctx[s] # "none"
      <4>1. Cnt(stack, s, {"Delete"}) > 0
        BY <1>0, <1>5, TopGood DEF Delete, At
      <4> QED
        BY <1>1, <4>1 DEF QInv, RefInv
    <3> QED
      BY <1>0, <1>1, <1>5, <3>1 DEF Delete, VarInv
  <2> QED
    BY <1>1, <2>1, <2>2, <2>3, QuietBecomes
<1>6. CASE Retire(t)
  <2>1. \E fs \in Seq(Light) : Becomes(t, fs)
    BY <1>6, <1>3 DEF Retire, Return
  <2>2. /\ mqueue' = mqueue /\ source' = source /\ done' = done
        /\ registered' = registered \/ \E z \in Sid : registered' = registered \ {z}
    BY <1>1, <1>6 DEF Retire, hvars, qvars, msgvars
  <2>3. \A z \in Sid : ctx'[z] = "none" <=> ctx[z] = "none"
    BY <1>0, <1>1, <1>6 DEF Retire, hvars, VarInv
  <2> QED
    BY <1>1, <2>1, <2>2, <2>3, QuietBecomes
<1>7. CASE InitDone(t)
  <2>1. \E fs \in Seq(Light) : Becomes(t, fs)
    BY <1>7, <1>3 DEF InitDone
  <2>2. /\ mqueue' = mqueue /\ source' = source /\ done' = done
        /\ registered' = registered \/ \E z \in Sid : registered' = registered \ {z}
    BY <1>1, <1>7 DEF InitDone, hvars, qvars, msgvars
  <2>3. \A z \in Sid : ctx'[z] = "none" <=> ctx[z] = "none"
    BY <1>0, <1>1, <1>7 DEF InitDone, hvars, VarInv
  <2> QED
    BY <1>1, <2>1, <2>2, <2>3, QuietBecomes
<1>8. CASE LaunchRelease(t)
  <2>1. \E fs \in Seq(Light) : Becomes(t, fs)
    BY <1>8, <1>3 DEF LaunchRelease
  <2>2. /\ mqueue' = mqueue /\ source' = source /\ done' = done
        /\ registered' = registered \/ \E z \in Sid : registered' = registered \ {z}
    BY <1>1, <1>8 DEF LaunchRelease, hvars, qvars, msgvars
  <2>3. \A z \in Sid : ctx'[z] = "none" <=> ctx[z] = "none"
    BY <1>0, <1>1, <1>8 DEF LaunchRelease, hvars, VarInv
  <2> QED
    BY <1>1, <2>1, <2>2, <2>3, QuietBecomes
<1>9. CASE SetInit(t)
  <2>1. \E fs \in Seq(Light) : Becomes(t, fs)
    BY <1>9, <1>3 DEF SetInit, Return
  <2>2. /\ mqueue' = mqueue /\ source' = source /\ done' = done
        /\ registered' = registered \/ \E z \in Sid : registered' = registered \ {z}
    BY <1>1, <1>9 DEF SetInit, hvars, qvars, msgvars
  <2>3. \A z \in Sid : ctx'[z] = "none" <=> ctx[z] = "none"
    BY <1>0, <1>1, <1>9 DEF SetInit, hvars, VarInv
  <2> QED
    BY <1>1, <2>1, <2>2, <2>3, QuietBecomes
<1>10. CASE LaunchPush(t)
  <2>1. \E fs \in Seq(Light) : Becomes(t, fs)
    BY <1>10, <1>3 DEF LaunchPush, Return
  <2>2. /\ mqueue' = mqueue /\ source' = source /\ done' = done
        /\ registered' = registered \/ \E z \in Sid : registered' = registered \ {z}
    BY <1>1, <1>10 DEF LaunchPush, hvars, qvars, msgvars
  <2>3. \A z \in Sid : ctx'[z] = "none" <=> ctx[z] = "none"
    BY <1>0, <1>1, <1>10 DEF LaunchPush, hvars, VarInv
  <2> QED
    BY <1>1, <2>1, <2>2, <2>3, QuietBecomes
<1>11. CASE MqRelease(t)
  <2>1. \E fs \in Seq(Light) : Becomes(t, fs)
    BY <1>11, <1>3 DEF MqRelease, Return
  <2>2. /\ mqueue' = mqueue /\ source' = source /\ done' = done
        /\ registered' = registered \/ \E z \in Sid : registered' = registered \ {z}
    BY <1>1, <1>11 DEF MqRelease, hvars, qvars, msgvars
  <2>3. \A z \in Sid : ctx'[z] = "none" <=> ctx[z] = "none"
    BY <1>0, <1>1, <1>11 DEF MqRelease, hvars, VarInv
  <2> QED
    BY <1>1, <2>1, <2>2, <2>3, QuietBecomes
<1> QED
  BY <1>4, <1>5, <1>6, <1>7, <1>8, <1>9, <1>10, <1>11

(* A kill and a launch put a frame without a message on top. *)
LEMMA QuietCalls ==
  ASSUME QInv, NEW t \in Thread, NEW s \in Sid, Kill(t, s) \/ Launch(t, s)
  PROVE  Quiet
<1>0. VarInv /\ StackInv
  BY DEF QInv
<1>1. F("Retire", s) \in Light /\ F("Init", s) \in Light
  BY LightFrames DEF Points, Resting
<1>2. PICK f \in {F("Retire", s), F("Init", s)} : Call(t, <<f>>)
  BY DEF Kill, Launch
<1>3. f \in Light /\ f \in Good
  BY <1>1 DEF Light
<1>4. \A g : g.msg \in Mail => (In(stack', g) <=> In(stack, g))
  BY <1>0, <1>2, <1>3, CallMove, LightFrames
<1>5. CASE Kill(t, s)
  <2>1. mqueue' = mqueue /\ source' = source /\ done' = done /\ registered' = registered /\ ctx' = ctx
    BY <1>5 DEF Kill, hvars, qvars, msgvars
  <2> QED
    BY <1>4, <2>1 DEF Quiet, Ended
<1>6. CASE Launch(t, s)
  <2>1. mqueue' = mqueue /\ source' = source /\ done' = done
    BY <1>6 DEF Launch, msgvars
  <2>2. \A z \in Sid : z \in registered' => z \in registered \/ ctx[z] = "none"
    BY <1>6 DEF Launch
  <2>3. \A z \in Sid : ctx[z] # "none" => ctx'[z] # "none"
    BY <1>0, <1>6 DEF Launch, VarInv
  <2>4. Ended' = Ended
    BY <1>0, <1>6 DEF Launch, VarInv, Ended
  <2> QED
    BY <1>4, <2>1, <2>2, <2>3, <2>4 DEF Quiet
<1> QED
  BY <1>5, <1>6

(* A worker between two messages. *)
LEMMA QuietWorker ==
  ASSUME QInv, NEW w \in Worker,
         Pop(w) \/ Grab(w) \/ NextPop(w) \/ PushBack(w) \/ Sleep(w) \/ Wait(w) \/ Stop(w)
  PROVE  Quiet
<1> DEFINE s == Top(w).svc
<1>0. VarInv /\ StackInv /\ w \in Thread
  BY DEF QInv, Thread
<1>1. Top(w) \in Light /\ (Top(w).at \notin Resting => s \in Sid)
  <2>1. Top(w).at \notin {"Push", "Callback"}
    BY DEF Pop, Grab, NextPop, PushBack, Sleep, Wait, Stop, At
  <2> QED
    BY <1>0, <2>1, TopGood DEF Light
<1>2. \A p \in Resting : <<F(p, Nobody)>> \in Seq(Light)
  BY LightFrames
<1>3. \A z \in Sid : /\ <<F("Grab", z)>> \in Seq(Light)
                     /\ <<[F("PopMsg", z) EXCEPT !.n = First]>> \in Seq(Light)
                     /\ <<F("Release", z)>> \in Seq(Light)
                     /\ <<F("MqRelease", z), F("Pop", Nobody)>> \in Seq(Light)
                     /\ <<F("Release", z), F("Grab", z)>> \in Seq(Light)
                     /\ \A x \in Sid : <<F("PushBack", z), F("Grab", x)>> \in Seq(Light)
  <2>1. \A z \in Sid : \A p \in {"Grab", "Release", "MqRelease", "PushBack"} : F(p, z) \in Light
    BY LightFrames DEF Points, Resting
  <2>2. F("Pop", Nobody) \in Light
    BY LightFrames DEF Resting
  <2>3. \A z \in Sid : [F("PopMsg", z) EXCEPT !.n = First] \in Light
    BY LightFrames DEF First
  <2> QED
    BY <2>1, <2>2, <2>3
<1>4. global # << >> => Head(global) \in Sid
  BY <1>0, PlacesTail DEF VarInv
<1>5. \E fs \in Seq(Light) : Becomes(w, fs)
  <2>1. CASE Pop(w)
    BY <1>2, <1>3, <1>4, <2>1 DEF Pop, Resting
  <2>2. CASE Grab(w) \/ NextPop(w) \/ PushBack(w)
    <3>1. s \in Sid
      BY <1>1, <2>2 DEF Grab, NextPop, PushBack, At, Resting
    <3> QED
      BY <1>3, <1>4, <2>2, <3>1 DEF Grab, NextPop, PushBack
  <2>3. CASE Sleep(w) \/ Wait(w) \/ Stop(w)
    BY <1>2, <2>3 DEF Sleep, Wait, Stop, Resting
  <2> QED
    BY <2>1, <2>2, <2>3
<1>6. mqueue' = mqueue /\ source' = source /\ done' = done /\ registered' = registered /\ ctx' = ctx
  BY DEF Pop, Grab, NextPop, PushBack, Sleep, Wait, Stop, hvars, qvars, msgvars
<1> QED
  BY <1>0, <1>1, <1>5, <1>6, QuietBecomes

LEMMA QuietAside ==
  ASSUME QInv, (\E w \in Worker : WakeUp(w)) \/ Abort \/ UNCHANGED queuevars
  PROVE  Quiet
<1>1. mqueue' = mqueue /\ source' = source /\ done' = done /\ registered' = registered /\ ctx' = ctx /\ stack' = stack
  BY DEF WakeUp, Abort, hvars, qvars, msgvars, queuevars
<1> QED
  BY <1>1 DEF Quiet, Ended

(* The same for a step that moves messages: each stays somewhere, or its   *)
(* sender has left, or its error takes its place.                          *)
LEMMA LossMoved ==
  ASSUME QInv, QInv', LossInv, source' = source, registered' = registered, ctx' = ctx,
         \A m \in Msg : source[m] \in registered /\ (Somewhere(Say(m)) \/ Somewhere(Err(m)))
                         => Somewhere(Say(m))' \/ Somewhere(Err(m))',
         \A m \in Msg : \A s \in Sid : Err(m) \in Range(mqueue'[s]) => source[m] = s,
         \A m \in Msg : \A f : In(stack', f) /\ f.at = "Push" /\ f.msg = Err(m) => source[m] = f.svc
  PROVE  LossInv'
<1>1. NoSilentLoss /\ ErrInv
  BY DEF LossInv
<1>2. ASSUME NEW m \in Msg, source'[m] \in registered'
      PROVE  Somewhere(Say(m))' \/ Somewhere(Err(m))'
  BY <1>1, <1>2 DEF NoSilentLoss
<1>3. NoSilentLoss'
  BY <1>2 DEF NoSilentLoss, Say, Err
<1>4. ErrInv'
  BY <1>1 DEF ErrInv, Err
<1> QED
  BY <1>3, <1>4 DEF LossInv

LEMMA LossPush ==
  ASSUME QInv, QInv', LossInv, NEW t \in Thread, Push(t)
  PROVE  LossInv'
<1> DEFINE s == Top(t).svc
           x == Top(t).msg
<1>0. VarInv /\ StackInv /\ ErrInv
  BY DEF QInv, LossInv
<1>1. /\ Top(t).at = "Push" /\ s \in Sid /\ x \in Mail
  BY <1>0, TopGood DEF Push, At, Resting
<1>2. /\ mqueue' = [mqueue EXCEPT ![s] = Append(@, x)]
      /\ Becomes(t, <<F("Release", s)>>)
      /\ source' = source /\ registered' = registered /\ ctx' = ctx /\ done' = done
  BY DEF Push, hvars, msgvars
<1>3. F("Release", s) \in Light
  BY <1>1, LightFrames DEF Points, Resting
<1> DEFINE fs == <<F("Release", s)>>
<1>4. fs \in Seq(Good) /\ Becomes(t, fs) /\ DOMAIN fs = {1} /\ fs[1] \in Light /\ fs[1].msg \notin Mail
  BY <1>2, <1>3, Lists, LightFrames DEF Light
<1> HIDE DEF fs
<1>5. /\ \A f : In(stack, f) /\ f # Top(t) => In(stack', f)
      /\ \A f : In(stack', f) /\ f.msg \in Mail => In(stack, f)
      /\ In(stack, Top(t))
  BY <1>0, <1>4, FramesMoved
<1>6. Range(mqueue'[s]) = Range(mqueue[s]) \cup {x}
      /\ \A z \in Sid : z # s => mqueue'[z] = mqueue[z]
  <2>1. mqueue[s] \in Seq(Mail) /\ mqueue'[s] = Append(mqueue[s], x)
    BY <1>0, <1>1, <1>2 DEF VarInv
  <2>2. Range(mqueue'[s]) = Range(mqueue[s]) \cup {x}
    BY <1>1, <2>1, RangeAppend
  <2> QED
    BY <1>0, <1>2, <2>2 DEF VarInv
<1>7. ASSUME NEW m \in Mail, Somewhere(m) PROVE Somewhere(m)'
  <2>1. CASE m \in done
    BY <1>2, <2>1, SomewhereMeans
  <2>2. CASE Queued(mqueue, m)
    <3>1. PICK z \in Sid : m \in Range(mqueue[z])
      BY <2>2 DEF Queued
    <3>2. m \in Range(mqueue'[z])
      BY <1>6, <3>1
    <3> QED
      BY <3>2, SomewhereMeans DEF Queued
  <2>3. CASE Loaded(stack, m)
    <3>1. PICK f : In(stack, f) /\ f.msg = m
      BY <2>3, InLoaded
    <3>2. CASE f = Top(t)
      <4>1. m \in Range(mqueue'[s])
        BY <1>6, <3>1, <3>2
      <4> QED
        BY <1>1, <4>1, SomewhereMeans DEF Queued
    <3>3. CASE f # Top(t)
      BY <1>5, <3>1, <3>3, LoadedIn, SomewhereMeans
    <3> QED
      BY <3>2, <3>3
  <2> QED
    BY <1>7, <2>1, <2>2, <2>3, SomewhereMeans
<1>8. ASSUME NEW m \in Msg, NEW z \in Sid, Err(m) \in Range(mqueue'[z]) PROVE source[m] = z
  <2>1. CASE Err(m) \in Range(mqueue[z])
    BY <1>0, <2>1 DEF ErrInv
  <2>2. CASE z = s /\ Err(m) = x
    BY <1>0, <1>1, <1>5, <2>2 DEF ErrInv
  <2> QED
    BY <1>6, <1>8, <2>1, <2>2
<1>9. ASSUME NEW m \in Msg, NEW f, In(stack', f), f.at = "Push", f.msg = Err(m)
      PROVE  source[m] = f.svc
  <2>1. Err(m) \in Mail
    BY DEF Mail
  <2> QED
    BY <1>0, <1>5, <1>9, <2>1 DEF ErrInv
<1>10. \A m \in Msg : Say(m) \in Mail /\ Err(m) \in Mail
  BY DEF Mail
<1> QED
  BY <1>2, <1>7, <1>8, <1>9, <1>10, LossMoved

LEMMA LossCallbackDone ==
  ASSUME QInv, QInv', LossInv, NEW w \in Worker, CallbackDone(w)
  PROVE  LossInv'
<1> DEFINE s == Top(w).svc
           x == Top(w).msg
<1>0. VarInv /\ StackInv /\ ErrInv /\ w \in Thread
  BY DEF QInv, LossInv, Thread
<1>1. /\ Top(w).at = "Callback" /\ s \in Sid /\ x \in Mail /\ Top(w) \in Frame
  BY <1>0, TopGood DEF CallbackDone, At, Resting
<1>2. /\ done' = done \cup {x}
      /\ source' = source /\ registered' = registered /\ ctx' = ctx /\ mqueue' = mqueue
  BY DEF CallbackDone, hvars, qvars
<1>3. PICK f \in Light : Becomes(w, <<f>>)
  <2>1. Top(w).n > 0 => Top(w).n - 1 \in Nat
    BY <1>1 DEF Frame, First
  <2>2. Top(w).n > 0 => [F("PopMsg", s) EXCEPT !.n = Top(w).n - 1] \in Light
    BY <1>1, <2>1, LightFrames
  <2>3. F("NextPop", s) \in Light
    BY <1>1, LightFrames DEF Points, Resting
  <2> QED
    BY <2>2, <2>3 DEF CallbackDone
<1> DEFINE fs == <<f>>
<1>4. fs \in Seq(Good) /\ Becomes(w, fs) /\ DOMAIN fs = {1} /\ fs[1] = f /\ f.msg \notin Mail
  BY <1>3, Lists, LightFrames DEF Light
<1> HIDE DEF fs
<1>5. /\ \A g : In(stack, g) /\ g # Top(w) => In(stack', g)
      /\ \A g : In(stack', g) /\ g.msg \in Mail => In(stack, g)
  BY <1>0, <1>4, FramesMoved
<1>6. ASSUME NEW m \in Mail, Somewhere(m) PROVE Somewhere(m)'
  <2>1. CASE m \in done \/ Queued(mqueue, m)
    BY <1>2, <2>1, SomewhereMeans
  <2>2. CASE Loaded(stack, m)
    <3>1. PICK g : In(stack, g) /\ g.msg = m
      BY <2>2, InLoaded
    <3>2. CASE g = Top(w)
      BY <1>2, <3>1, <3>2, SomewhereMeans
    <3>3. CASE g # Top(w)
      BY <1>5, <3>1, <3>3, LoadedIn, SomewhereMeans
    <3> QED
      BY <3>2, <3>3
  <2> QED
    BY <1>6, <2>1, <2>2, SomewhereMeans
<1>7. \A m \in Msg : Say(m) \in Mail /\ Err(m) \in Mail
  BY DEF Mail
<1>8. \A m \in Msg : \A z \in Sid : Err(m) \in Range(mqueue'[z]) => source[m] = z
  BY <1>0, <1>2 DEF ErrInv
<1>9. \A m \in Msg : \A g : In(stack', g) /\ g.at = "Push" /\ g.msg = Err(m) => source[m] = g.svc
  BY <1>0, <1>5, <1>7 DEF ErrInv
<1> QED
  BY <1>2, <1>6, <1>7, <1>8, <1>9, LossMoved

LEMMA LossPopMsg ==
  ASSUME QInv, QInv', LossInv, NEW w \in Worker, PopMsg(w)
  PROVE  LossInv'
<1> DEFINE s == Top(w).svc
           x == Head(mqueue[s])
           e == [Top(w) EXCEPT !.at = "Callback", !.msg = Head(mqueue[s]),
                    !.n = IF @ = First THEN Batch(w, Len(mqueue[s]) - 1) ELSE @]
<1>0. VarInv /\ StackInv /\ ErrInv /\ w \in Thread
  BY DEF QInv, LossInv, Thread
<1>1. /\ Top(w).at = "PopMsg" /\ s \in Sid /\ Top(w) \in Frame /\ Top(w) \in Good
  BY <1>0, TopGood DEF PopMsg, At, Resting
<1>2. Top(w) \in Light
  BY <1>1 DEF Light
<1>3. /\ source' = source /\ registered' = registered /\ ctx' = ctx /\ done' = done
      /\ \/ Becomes(w, <<F("Release", s), F("Pop", Nobody)>>) /\ mqueue' = mqueue
         \/ /\ mqueue[s] # << >>
            /\ mqueue' = [mqueue EXCEPT ![s] = Tail(@)]
            /\ Becomes(w, <<e>>)
  BY DEF PopMsg, hvars, msgvars
<1>4. CASE Becomes(w, <<F("Release", s), F("Pop", Nobody)>>) /\ mqueue' = mqueue
  <2>1. F("Release", s) \in Light /\ F("Pop", Nobody) \in Light
    BY <1>1, LightFrames DEF Points, Resting
  <2>2. <<F("Release", s), F("Pop", Nobody)>> \in Seq(Light)
    BY <2>1
  <2>3. \E fs \in Seq(Light) : Becomes(w, fs)
    BY <1>4, <2>2
  <2> QED
    BY <1>0, <1>2, <1>3, <1>4, <2>3, QuietBecomes, LossQuiet
<1>5. CASE /\ mqueue[s] # << >>
           /\ mqueue' = [mqueue EXCEPT ![s] = Tail(@)]
           /\ Becomes(w, <<e>>)
  <2>1. /\ mqueue[s] \in Seq(Mail) /\ Range(mqueue[s]) = {x} \cup Range(Tail(mqueue[s]))
        /\ x \in Mail
    BY <1>0, <1>1, <1>5, RangeTail DEF VarInv
  <2>2. mqueue'[s] = Tail(mqueue[s]) /\ \A z \in Sid : z # s => mqueue'[z] = mqueue[z]
    BY <1>0, <1>1, <1>5 DEF VarInv
  <2>3. e \in Good /\ e.at = "Callback" /\ e.msg = x
    <3> DEFINE n == IF Top(w).n = First THEN Batch(w, Len(mqueue[s]) - 1) ELSE Top(w).n
    <3>1. n \in Nat \cup {First}
      <4>1. Len(mqueue[s]) - 1 \in Nat
        <5>1. Len(mqueue[s]) \in Nat \ {0}
          BY <1>5, <2>1, EmptySeq
        <5> QED
          BY <5>1
      <4> QED
        BY <1>1, <4>1, BatchIsNat DEF Frame
    <3>2. e = [Top(w) EXCEPT !.at = "Callback", !.msg = Head(mqueue[s]), !.n = n]
      BY <1>1 DEF Frame
    <3> HIDE DEF n, e
    <3>3. e.at = "Callback" /\ e.svc = s /\ e.msg = x /\ e.n = n /\ e \in Frame
      BY <1>1, <2>1, <3>1, <3>2 DEF Frame, Points
    <3> HIDE DEF s, x
    <3> QED
      BY <1>1, <2>1, <3>3 DEF Good, Resting
  <2> DEFINE fs == <<e>>
  <2> HIDE DEF e
  <2>4. fs \in Seq(Good) /\ Becomes(w, fs) /\ DOMAIN fs = {1} /\ fs[1] = e
    BY <1>5, <2>3, Lists
  <2> HIDE DEF fs
  <2>5. /\ \A g : In(stack, g) /\ g # Top(w) => In(stack', g)
        /\ \A g : In(stack', g) => In(stack, g) \/ g = e
        /\ In(stack', e)
    BY <1>0, <2>4, FramesMoved
  <2>6. ASSUME NEW m \in Mail, Somewhere(m) PROVE Somewhere(m)'
    <3>1. CASE m \in done
      BY <1>3, <3>1, SomewhereMeans
    <3>2. CASE Queued(mqueue, m)
      <4>1. PICK z \in Sid : m \in Range(mqueue[z])
        BY <3>2 DEF Queued
      <4>2. CASE z = s /\ m = x
        BY <2>3, <2>5, <4>2, LoadedIn, SomewhereMeans
      <4>3. CASE ~(z = s /\ m = x)
        <5>1. m \in Range(mqueue'[z])
          BY <2>1, <2>2, <4>1, <4>3
        <5> QED
          BY <5>1, SomewhereMeans DEF Queued
      <4> QED
        BY <4>2, <4>3
    <3>3. CASE Loaded(stack, m)
      <4>1. PICK g : In(stack, g) /\ g.msg = m
        BY <3>3, InLoaded
      <4>2. g # Top(w)
        BY <1>2, <4>1, LightFrames
      <4> QED
        BY <2>5, <4>1, <4>2, LoadedIn, SomewhereMeans
    <3> QED
      BY <2>6, <3>1, <3>2, <3>3, SomewhereMeans
  <2>7. \A m \in Msg : Say(m) \in Mail /\ Err(m) \in Mail
    BY DEF Mail
  <2>8. \A m \in Msg : \A z \in Sid : Err(m) \in Range(mqueue'[z]) => source[m] = z
    <3>1. \A z \in Sid : Range(mqueue'[z]) \subseteq Range(mqueue[z])
      BY <2>1, <2>2
    <3> QED
      BY <1>0, <3>1 DEF ErrInv
  <2>9. \A m \in Msg : \A g : In(stack', g) /\ g.at = "Push" /\ g.msg = Err(m) => source[m] = g.svc
    BY <1>0, <2>3, <2>5 DEF ErrInv
  <2> QED
    BY <1>3, <2>6, <2>7, <2>8, <2>9, LossMoved
<1> QED
  BY <1>3, <1>4, <1>5

(* A message that is dropped has its error on the way, or nobody to tell.  *)
LEMMA LossDrop ==
  ASSUME QInv, QInv', LossInv, NEW t \in Thread, Drop(t)
  PROVE  LossInv'
<1> DEFINE s  == Top(t).svc
           x  == Head(mqueue[s])
           to == IF x[1] = "msg" THEN source[x[2]] ELSE Nobody
           f  == [F("Push", to) EXCEPT !.msg = Err(x[2])]
<1>0. VarInv /\ StackInv /\ ErrInv
  BY DEF QInv, LossInv
<1>1. /\ Top(t).at = "Drop" /\ s \in Sid /\ Top(t) \in Light /\ stack \in Stacks
      /\ Cnt(stack, s, {"Drop"}) > 0
  BY <1>0, TopGood DEF Drop, At, Resting, Light
<1>2. s \notin registered
  <2>1. release[s]
    BY <1>1 DEF QInv, GoneInv
  <2> QED
    BY <2>1, Registered
<1>3. /\ source' = source /\ registered' = registered /\ ctx' = ctx /\ done' = done
      /\ \/ Becomes(t, << >>) /\ mqueue' = mqueue
         \/ /\ mqueue[s] # << >>
            /\ mqueue' = [mqueue EXCEPT ![s] = Tail(@)]
            /\ \/ to \in registered /\ Call(t, <<f>>)
               \/ to \notin registered /\ stack' = stack
  BY DEF Drop, Return, msgvars
<1>4. CASE Becomes(t, << >>) /\ mqueue' = mqueue
  <2>1. \E fs \in Seq(Light) : Becomes(t, fs)
    BY <1>4, LightFrames
  <2> QED
    BY <1>1, <1>3, <1>4, <2>1, QuietBecomes, LossQuiet
<1>5. CASE /\ mqueue[s] # << >>
           /\ mqueue' = [mqueue EXCEPT ![s] = Tail(@)]
           /\ \/ to \in registered /\ Call(t, <<f>>)
              \/ to \notin registered /\ stack' = stack
  <2>1. /\ Range(mqueue[s]) = {x} \cup Range(Tail(mqueue[s])) /\ x \in Mail
    BY <1>0, <1>1, <1>5, RangeTail DEF VarInv
  <2>2. mqueue'[s] = Tail(mqueue[s]) /\ \A z \in Sid : z # s => mqueue'[z] = mqueue[z]
    BY <1>0, <1>1, <1>5 DEF VarInv
  <2>3. /\ x[2] \in Msg /\ Say(x[2]) \in Mail /\ Err(x[2]) \in Mail
        /\ x[1] = "msg" => x = Say(x[2])
        /\ x[1] # "msg" => x = Err(x[2])
    BY <2>1, MailParts
  <2>4. /\ \A m \in Msg : Say(m) \in Mail /\ Err(m) \in Mail
        /\ \A m, n \in Msg : Say(m) # Err(n) /\ (Say(m) = Say(n) => m = n) /\ (Err(m) = Err(n) => m = n)
    BY DEF Mail, Say, Err
  <2>5. to \in registered => /\ f \in Good /\ f.at = "Push" /\ f.svc = to /\ f.msg = Err(x[2])
                            /\ to \in Sid /\ x = Say(x[2]) /\ to = source[x[2]]
    <3>1. to \in registered => to \in Sid /\ to # Nobody
      BY <1>0, NobodyAssumption DEF VarInv
    <3>2. to \in registered => x[1] = "msg"
      BY <3>1
    <3>3. to \in Sid => f \in Good
      BY <2>3, GoodFrames DEF Points
    <3>4. f.at = "Push" /\ f.svc = to /\ f.msg = Err(x[2])
      BY DEF F
    <3> HIDE DEF f
    <3> QED
      BY <2>3, <3>1, <3>2, <3>3, <3>4
  <2>6. x[1] # "msg" \/ to = source[x[2]]
    OBVIOUS
  <2> HIDE DEF f, to, x
  <2>7. /\ \A g : In(stack, g) => In(stack', g)
        /\ \A g : In(stack', g) => In(stack, g) \/ (to \in registered /\ g = f)
        /\ to \in registered => In(stack', f)
    <3>1. CASE to \in registered /\ Call(t, <<f>>)
      BY <1>0, <2>5, <3>1, CallMove
    <3>2. CASE to \notin registered /\ stack' = stack
      BY <3>2
    <3> QED
      BY <1>5, <3>1, <3>2
  <2>8. ASSUME NEW m \in Mail, Somewhere(m) PROVE Somewhere(m)' \/ m = x
    <3>1. CASE m \in done
      BY <1>3, <3>1, SomewhereMeans
    <3>2. CASE Queued(mqueue, m) /\ m # x
      <4>1. PICK z \in Sid : m \in Range(mqueue[z])
        BY <3>2 DEF Queued
      <4>2. m \in Range(mqueue'[z])
        BY <2>1, <2>2, <3>2, <4>1
      <4> QED
        BY <4>2, SomewhereMeans DEF Queued
    <3>3. CASE Loaded(stack, m)
      <4>1. PICK g : In(stack, g) /\ g.msg = m
        BY <3>3, InLoaded
      <4> QED
        BY <2>7, <4>1, LoadedIn, SomewhereMeans
    <3> QED
      BY <2>8, <3>1, <3>2, <3>3, SomewhereMeans
  <2>9. ASSUME NEW m \in Msg, source[m] \in registered, Somewhere(Say(m)) \/ Somewhere(Err(m))
        PROVE  Somewhere(Say(m))' \/ Somewhere(Err(m))'
    <3>1. CASE x = Say(m)
      <4>1. x[1] = "msg" /\ x[2] = m
        BY <3>1 DEF Say
      <4>2. to \in registered /\ f.msg = Err(m)
        BY <2>5, <2>6, <2>9, <4>1
      <4>3. Loaded(stack', Err(m))
        BY <2>7, <4>2, LoadedIn
      <4> QED
        BY <4>3, SomewhereMeans
    <3>2. CASE x = Err(m)
      <4>1. source[m] = s
        BY <1>0, <1>1, <2>1, <3>2 DEF ErrInv
      <4> QED
        BY <1>2, <2>9, <4>1
    <3>3. CASE x # Say(m) /\ x # Err(m)
      BY <2>4, <2>8, <2>9, <3>3
    <3> QED
      BY <3>1, <3>2, <3>3
  <2>10. \A m \in Msg : \A z \in Sid : Err(m) \in Range(mqueue'[z]) => source[m] = z
    <3>1. \A z \in Sid : Range(mqueue'[z]) \subseteq Range(mqueue[z])
      BY <2>1, <2>2
    <3> QED
      BY <1>0, <3>1 DEF ErrInv
  <2>11. ASSUME NEW m \in Msg, NEW g, In(stack', g), g.at = "Push", g.msg = Err(m)
         PROVE  source[m] = g.svc
    <3>1. CASE In(stack, g)
      BY <1>0, <2>11, <3>1 DEF ErrInv
    <3>2. CASE to \in registered /\ g = f
      <4>1. x[2] = m
        BY <2>3, <2>4, <2>5, <2>11, <3>2
      <4> QED
        BY <2>5, <3>2, <4>1
    <3> QED
      BY <2>7, <2>11, <3>1, <3>2
  <2> QED
    BY <1>3, <2>9, <2>10, <2>11, LossMoved
<1> QED
  BY <1>3, <1>4, <1>5

(* A new message is pushed, or its sender is told that nobody takes it. *)
LEMMA LossSend ==
  ASSUME QInv, QInv', LossInv, NEW t \in Thread, NEW s \in Sid, NEW m \in Msg, Send(t, s, m)
  PROVE  LossInv'
<1> DEFINE f == [F("Push", s) EXCEPT !.msg = Say(m)]
<1>0. VarInv /\ StackInv /\ ErrInv /\ NoSilentLoss
  BY DEF QInv, LossInv
<1>1. /\ source[m] = Unsent /\ source' = [source EXCEPT ![m] = Top(t).svc]
      /\ registered' = registered /\ ctx' = ctx /\ mqueue' = mqueue
      /\ \/ Call(t, <<f>>) /\ done' = done
         \/ done' = done \cup {Say(m)} /\ stack' = stack
  BY DEF Send, qvars
<1>2. /\ \A n \in Msg : Say(n) \in Mail /\ Err(n) \in Mail
      /\ \A n, k \in Msg : Say(n) # Err(k)
      /\ Unsent \notin Sid
  BY NobodyAssumption DEF Mail, Say, Err
<1>3. f \in Good /\ f.at = "Push" /\ f.svc = s /\ f.msg = Say(m)
  <2>1. f \in Good
    BY <1>2, GoodFrames DEF Points
  <2> QED
    BY <2>1 DEF F
<1> HIDE DEF f
<1>4. Top(t).svc \in Sid => ctx[Top(t).svc] # "none"
  <2>1. Top(t).at \in {"Callback", "Init", "Outside"} /\ Top(t) \in Good /\ stack \in Stacks
        /\ \A P : Top(t).at \in P => Cnt(stack, Top(t).svc, P) > 0
    BY <1>0, TopGood DEF Send, InCallback, At
  <2>2. CASE Top(t).at = "Outside"
    BY <2>1, <2>2 DEF Good, Resting
  <2>3. CASE Top(t).at \in {"Callback", "Init"}
    <3>1. Cnt(stack, Top(t).svc, Holding) > 0
      BY <2>1, <2>3 DEF Holding
    <3> QED
      BY <3>1, Held
  <2> QED
    BY <2>1, <2>2, <2>3
<1>5. /\ \A g : In(stack, g) => In(stack', g)
      /\ \A g : In(stack', g) => In(stack, g) \/ g = f
  BY <1>0, <1>1, <1>3, CallMove
<1>6. ASSUME NEW n, Somewhere(n) PROVE Somewhere(n)'
  <2>1. CASE n \in done \/ Queued(mqueue, n)
    BY <1>1, <2>1, SomewhereMeans
  <2>2. CASE Loaded(stack, n)
    <3>1. PICK g : In(stack, g) /\ g.msg = n
      BY <2>2, InLoaded
    <3> QED
      BY <1>5, <3>1, LoadedIn, SomewhereMeans
  <2> QED
    BY <1>6, <2>1, <2>2, SomewhereMeans
<1>7. Somewhere(Say(m))'
  <2>1. CASE Call(t, <<f>>) /\ done' = done
    <3>1. In(stack', f)
      BY <1>0, <1>3, <2>1, CallMove
    <3> QED
      BY <1>3, <3>1, LoadedIn, SomewhereMeans
  <2>2. CASE done' = done \cup {Say(m)} /\ stack' = stack
    BY <2>2, SomewhereMeans
  <2> QED
    BY <1>1, <2>1, <2>2
<1>8. source'[m] = Top(t).svc /\ \A n \in Msg : n # m => source'[n] = source[n]
  BY <1>0, <1>1 DEF VarInv
<1>9. ASSUME NEW n \in Msg, source'[n] \in registered'
      PROVE  Somewhere(Say(n))' \/ Somewhere(Err(n))'
  <2>1. CASE n = m
    BY <1>7, <2>1
  <2>2. CASE n # m
    <3>1. Somewhere(Say(n)) \/ Somewhere(Err(n))
      BY <1>0, <1>1, <1>8, <1>9, <2>2 DEF NoSilentLoss
    <3> QED
      BY <1>6, <3>1
  <2> QED
    BY <2>1, <2>2
<1>10. NoSilentLoss'
  BY <1>9 DEF NoSilentLoss, Say, Err
<1>11. ASSUME NEW n \in Msg
       PROVE  /\ source'[n] \in Sid => ctx'[source'[n]] # "none"
              /\ \A z \in Sid : Err(n) \in Range(mqueue'[z]) => source'[n] = z
              /\ \A g : In(stack', g) /\ g.at = "Push" /\ g.msg = Err(n) => source'[n] = g.svc
  <2>1. \A g : In(stack', g) /\ g.msg = Err(n) => In(stack, g)
    BY <1>2, <1>3, <1>5
  <2>2. CASE n # m
    BY <1>0, <1>1, <1>8, <2>1, <2>2 DEF ErrInv
  <2>3. CASE n = m
    (* No error of a message that was never sent. *)
    <3>1. \A z \in Sid : Err(n) \notin Range(mqueue[z])
      BY <1>0, <1>1, <1>2, <2>3 DEF ErrInv
    <3>2. ASSUME NEW g, In(stack', g), g.at = "Push", g.msg = Err(n) PROVE FALSE
      <4>1. In(stack, g)
        BY <2>1, <3>2
      <4>2. g \in Good /\ g.svc \in Sid
        BY <1>0, <3>2, <4>1, InGood DEF Good, Resting
      <4> QED
        BY <1>0, <1>1, <1>2, <2>3, <3>2, <4>1, <4>2 DEF ErrInv
    <3> QED
      BY <1>1, <1>4, <1>8, <2>3, <3>1, <3>2
  <2> QED
    BY <2>2, <2>3
<1>12. ErrInv'
  BY <1>11 DEF ErrInv, Err
<1> QED
  BY <1>10, <1>12 DEF LossInv

LEMMA LossStep ==
  ASSUME QInv, QInv', LossInv, [QueueNext]_queuevars
  PROVE  LossInv'
<1>1. ASSUME NEW t \in Thread, Inside(t) PROVE LossInv'
  BY <1>1, QuietInside, LossQuiet, LossPush, LossDrop DEF Inside
<1>2. ASSUME NEW t \in Thread, NEW s \in Sid,
             Kill(t, s) \/ Launch(t, s) \/ \E m \in Msg : Send(t, s, m)
      PROVE  LossInv'
  BY <1>2, QuietCalls, LossQuiet, LossSend
<1>3. ASSUME NEW w \in Worker, Dispatch(w) PROVE LossInv'
  BY <1>3, QuietWorker, LossQuiet, LossPopMsg, LossCallbackDone DEF Dispatch
<1>4. CASE (\E w \in Worker : WakeUp(w)) \/ Abort \/ UNCHANGED queuevars
  BY <1>4, QuietAside, LossQuiet
<1> QED
  BY <1>1, <1>2, <1>3, <1>4 DEF QueueNext, Joined

(* While its sender runs a message is handled, or refused to it, or still  *)
(* on its way, or the error that takes its place is (drop_message,         *)
(* skynet_mq.c); none disappears, whoever kills whom.                      *)
THEOREM NoSilentLossAlways == QueueSpec => []NoSilentLoss
<1>1. QueueInit => LossInv
  <2> SUFFICES ASSUME QueueInit PROVE LossInv
    OBVIOUS
  <2>1. /\ source = [m \in Msg |-> Unsent] /\ mqueue = [s \in Sid |-> << >>]
        /\ stack = [t \in Thread |-> <<F(IF t = Socket THEN "Outside" ELSE "Pop", Nobody)>>]
        /\ Unsent \notin Sid /\ registered \subseteq Sid
    BY SidAssumption, NobodyAssumption DEF QueueInit
  <2>2. NoSilentLoss
    BY <2>1 DEF NoSilentLoss
  <2>3. \A s \in Sid : Range(mqueue[s]) = {}
    BY <2>1 DEF Range
  <2>4. \A f : In(stack, f) => f.at # "Push"
    BY <2>1 DEF In, F
  <2> QED
    BY <2>1, <2>2, <2>3, <2>4 DEF LossInv, ErrInv
<1>2. QInv /\ QInv' /\ LossInv /\ [QueueNext]_queuevars => LossInv'
  BY LossStep
<1>3. LossInv => NoSilentLoss
  BY DEF LossInv
<1> QED
  BY <1>1, <1>2, <1>3, QueueInvariant, PTL DEF QueueSpec

-----------------------------------------------------------------------------
(* The queues keep the promise of ActorMailbox *)

(* The one frame that handles a message of a service tells which. *)
HandlingInv ==
  \A s \in Sid :
    /\ \A f : In(stack, f) /\ f.at = "Callback" /\ f.svc = s => Handling(s) = f.msg
    /\ (\A f : In(stack, f) /\ f.at = "Callback" => f.svc # s) => Handling(s) = Nobody

LEMMA OnlyOne ==
  ASSUME NEW st \in Stacks, NEW s, NEW P, Cnt(st, s, P) <= 1,
         NEW x \in Frames(st, s, P), NEW y \in Frames(st, s, P)
  PROVE  x = y
<1> DEFINE A == Frames(st, s, P)
<1>1. IsFiniteSet(A) /\ Cardinality(A) \in Nat /\ Cardinality(A) <= 1
  BY FramesFinite DEF Cnt
<1> HIDE DEF A
<1>2. x \in A /\ y \in A
  BY DEF A
<1>3. ASSUME x # y PROVE FALSE
  <2>1. IsFiniteSet(A \ {x}) /\ Cardinality(A \ {x}) = Cardinality(A) - 1
    BY <1>1, <1>2, FS_RemoveElement
  <2>2. Cardinality(A \ {x}) = 0
    <3>1. Cardinality(A \ {x}) \in Nat
      BY <2>1, FS_CardinalityType
    <3> QED
      BY <1>1, <2>1, <3>1
  <2>3. A \ {x} = {}
    BY <2>1, <2>2, FS_EmptySet
  <2> QED
    BY <1>2, <1>3, <2>3
<1> QED
  BY <1>3

(* Two turns of one service never meet. *)
LEMMA OneCallback ==
  ASSUME QInv
  PROVE  \A s \in Sid : Cnt(stack, s, {"Callback"}) <= 1
<1> SUFFICES ASSUME NEW s \in Sid PROVE Cnt(stack, s, {"Callback"}) <= 1
  OBVIOUS
<1>1. /\ stack \in Stacks /\ OwnInv /\ VarInv
      /\ Cnt(stack, s, {"Callback"}) \in Nat /\ Cnt(stack, s, Owning) \in Nat
  BY FramesFinite DEF QInv, StackInv
<1>2. CASE Cnt(stack, s, {"Callback"}) > 0
  <2>1. {"Callback"} \subseteq Holding /\ {"Callback"} \subseteq Owning
    BY DEF Holding, Owning
  <2>2. /\ Cnt(stack, s, {"Callback"}) <= Cnt(stack, s, Holding)
        /\ Cnt(stack, s, {"Callback"}) <= Cnt(stack, s, Owning)
        /\ Cnt(stack, s, Holding) \in Nat
    BY <1>1, <2>1, CntSub, FramesFinite
  <2>3. ~quit
    BY <1>1, <1>2, <2>2, Held
  <2>4. G(global, s) + Cnt(stack, s, Owning) <= 1 /\ G(global, s) \in Nat
    <3>1. G(global, s) + Cnt(stack, s, Owning) <= 1
      BY <1>1, <2>3 DEF OwnInv, One
    <3>2. G(global, s) \in Nat
      BY <1>1, PlacesFinite DEF VarInv
    <3> QED
      BY <3>1, <3>2
  <2> QED
    BY <1>1, <2>2, <2>4
<1> QED
  BY <1>1, <1>2

LEMMA HandlingFacts == QInv => HandlingInv
<1> SUFFICES ASSUME QInv PROVE HandlingInv
  OBVIOUS
<1>1. StackInv /\ stack \in Stacks /\ \A s \in Sid : Cnt(stack, s, {"Callback"}) <= 1
  BY OneCallback DEF QInv, StackInv
<1>2. \A s : FramesAt(s, {"Callback"}) = Cnt(stack, s, {"Callback"})
  BY FramesMean
<1>3. ASSUME NEW s \in Sid, NEW f, In(stack, f), f.at = "Callback", f.svc = s
      PROVE  Handling(s) = f.msg
  <2>1. PICK t \in Thread : \E i \in DOMAIN stack[t] : stack[t][i] = f
    BY <1>3 DEF In
  <2>2. PICK i \in DOMAIN stack[t] : stack[t][i] = f
    BY <2>1
  <2>3. Counts(stack[t][i], s, {"Callback"})
    BY <1>3, <2>2 DEF Counts
  <2>4. <<t, i>> \in Frames(stack, s, {"Callback"})
    BY <2>3, FrameIn
  <2>5. FramesAt(s, {"Callback"}) # 0
    <3>1. Cnt(stack, s, {"Callback"}) > 0
      BY <1>1, <2>3, CntIn
    <3> QED
      BY <1>2, <3>1
  (* The thread is a worker. *)
  <2>6. t \in Worker
    BY <1>1, <1>3, <2>2 DEF StackInv, Outer, Thread
  <2> DEFINE u == CHOOSE w \in Worker : \E j \in DOMAIN stack[w] :
                    stack[w][j].at = "Callback" /\ stack[w][j].svc = s
             k == CHOOSE j \in DOMAIN stack[u] : stack[u][j].at = "Callback" /\ stack[u][j].svc = s
  <2>7. u \in Worker /\ \E j \in DOMAIN stack[u] : stack[u][j].at = "Callback" /\ stack[u][j].svc = s
    <3>1. \E w \in Worker : \E j \in DOMAIN stack[w] :
            stack[w][j].at = "Callback" /\ stack[w][j].svc = s
      BY <1>3, <2>2, <2>6
    <3> QED
      BY <3>1
  <2>8. Handling(s) = stack[u][k].msg
    BY <2>5 DEF Handling
  <2> HIDE DEF u
  <2>9. k \in DOMAIN stack[u] /\ stack[u][k].at = "Callback" /\ stack[u][k].svc = s
    BY <2>7
  <2> HIDE DEF k
  <2>10. <<u, k>> \in Frames(stack, s, {"Callback"})
    <3>1. Counts(stack[u][k], s, {"Callback"}) /\ u \in Thread
      BY <2>7, <2>9 DEF Counts, Thread
    <3> QED
      BY <2>9, <3>1, FrameIn
  <2>11. <<u, k>> = <<t, i>>
    BY <1>1, <2>4, <2>10, OnlyOne
  <2> QED
    BY <2>2, <2>8, <2>11
<1>4. ASSUME NEW s \in Sid, \A f : In(stack, f) /\ f.at = "Callback" => f.svc # s
      PROVE  Handling(s) = Nobody
  <2>1. Frames(stack, s, {"Callback"}) = {}
    <3> SUFFICES ASSUME NEW x \in Frames(stack, s, {"Callback"}) PROVE FALSE
      OBVIOUS
    <3>1. x[1] \in Thread /\ x[2] \in DOMAIN stack[x[1]] /\ Counts(stack[x[1]][x[2]], s, {"Callback"})
      BY FramePairs
    <3>2. In(stack, stack[x[1]][x[2]])
      BY <3>1 DEF In
    <3> QED
      BY <1>4, <3>1, <3>2 DEF Counts
  <2>2. FramesAt(s, {"Callback"}) = 0
    BY <1>2, <2>1, FS_EmptySet DEF Cnt
  <2> QED
    BY <2>2 DEF Handling
<1> QED
  BY <1>3, <1>4 DEF HandlingInv

(* Steps that start and end no callback. *)
LEMMA HandlingKept ==
  ASSUME HandlingInv, HandlingInv',
         \A f : f.at = "Callback" => (In(stack', f) <=> In(stack, f))
  PROVE  \A s \in Sid : Handling(s)' = Handling(s)
<1> SUFFICES ASSUME NEW s \in Sid PROVE Handling(s)' = Handling(s)
  OBVIOUS
<1>1. ASSUME NEW f, In(stack, f), f.at = "Callback", f.svc = s PROVE Handling(s)' = Handling(s)
  <2>1. Handling(s) = f.msg
    BY <1>1 DEF HandlingInv
  <2>2. In(stack', f)
    BY <1>1
  <2>3. Handling(s)' = f.msg
    BY <1>1, <2>2 DEF HandlingInv
  <2> QED
    BY <2>1, <2>3
<1>2. CASE \A f : In(stack, f) /\ f.at = "Callback" => f.svc # s
  <2>1. Handling(s) = Nobody
    BY <1>2 DEF HandlingInv
  <2>2. \A f : In(stack', f) /\ f.at = "Callback" => f.svc # s
    BY <1>2
  <2>3. Handling(s)' = Nobody
    BY <2>2 DEF HandlingInv
  <2> QED
    BY <2>1, <2>3
<1> QED
  BY <1>1, <1>2

LEMMA SameHandled ==
  ASSUME \A s \in Sid : Handling(s)' = Handling(s)
  PROVE  [s \in Sid |-> Handling(s)]' = [s \in Sid |-> Handling(s)]
OBVIOUS

LEMMA PrimedGood ==
  ASSUME StackInv', NEW f, In(stack', f), f.at = "Callback"
  PROVE  f.msg \in Mail
<1>1. PICK t \in Thread : \E i \in DOMAIN stack'[t] : stack'[t][i] = f
  BY DEF In
<1>2. stack'[t] \in Seq(Good)
  BY DEF StackInv, Stacks
<1>3. f \in Good
  BY <1>1, <1>2, ElementOfSeq, LenProperties
<1> QED
  BY <1>3 DEF Good

LEMMA MailboxQuiet ==
  ASSUME QInv, QInv', HandlingInv, HandlingInv', Quiet
  PROVE  [Mailbox!MailboxNext]_(Mailbox!mvars)
<1>1. mqueue' = mqueue /\ (Ended' = Ended \/ \E s \in Sid : Ended' = Ended \cup {s})
  BY DEF Quiet
<1>2. \A f : f.at = "Callback" => (In(stack', f) <=> In(stack, f))
  <2>1. \A f : In(stack, f) /\ f.at = "Callback" => f.msg \in Mail
    BY InGood DEF QInv, Good
  <2>2. \A f : In(stack', f) /\ f.at = "Callback" => f.msg \in Mail
    BY PrimedGood DEF QInv
  <2> QED
    BY <2>1, <2>2 DEF Quiet
<1>3. [s \in Sid |-> Handling(s)]' = [s \in Sid |-> Handling(s)]
  BY <1>2, HandlingKept
<1>4. CASE Ended' = Ended
  BY <1>1, <1>3, <1>4 DEF Mailbox!mvars, Ended
<1>5. ASSUME NEW s \in Sid, Ended' = Ended \cup {s} PROVE Mailbox!MailboxNext
  <2>1. Mailbox!End(s)
    BY <1>1, <1>3, <1>5 DEF Mailbox!End, Ended
  <2> QED
    BY <2>1 DEF Mailbox!MailboxNext
<1> QED
  BY <1>1, <1>4, <1>5

(* The frame of a turn that has taken a message. *)
LEMMA CallbackFrame ==
  ASSUME NEW w \in Worker, Top(w) \in Good, Top(w).at = "PopMsg", NEW q \in Seq(Mail), q # << >>
  PROVE  LET e == [Top(w) EXCEPT !.at = "Callback", !.msg = Head(q),
                      !.n = IF @ = First THEN Batch(w, Len(q) - 1) ELSE @]
         IN  e \in Good /\ e.at = "Callback" /\ e.msg = Head(q) /\ e.svc = Top(w).svc
<1> DEFINE e == [Top(w) EXCEPT !.at = "Callback", !.msg = Head(q),
                    !.n = IF @ = First THEN Batch(w, Len(q) - 1) ELSE @]
           n == IF Top(w).n = First THEN Batch(w, Len(q) - 1) ELSE Top(w).n
<1>0. Top(w) \in Frame /\ Top(w).svc \in Sid
  BY DEF Good, Resting
<1>1. Head(q) \in Mail /\ Len(q) - 1 \in Nat
  <2>1. Len(q) \in Nat \ {0}
    BY EmptySeq
  <2> QED
    BY <2>1, HeadTailProperties
<1>2. n \in Nat \cup {First}
  BY <1>0, <1>1, BatchIsNat DEF Frame
<1>3. e = [Top(w) EXCEPT !.at = "Callback", !.msg = Head(q), !.n = n]
  BY <1>0 DEF Frame
<1> HIDE DEF n, e
<1>4. e.at = "Callback" /\ e.svc = Top(w).svc /\ e.msg = Head(q) /\ e.n = n /\ e \in Frame
  BY <1>0, <1>1, <1>2, <1>3 DEF Frame, Points
<1>5. e \in Good
  BY <1>0, <1>1, <1>4 DEF Good, Resting
<1> QED
  BY <1>4, <1>5 DEF e

(* Nobody else is in a turn of the same service. *)
LEMMA TurnAlone ==
  ASSUME QInv, NEW s \in Sid, Cnt(stack, s, {"PopMsg"}) > 0
  PROVE  \A g : In(stack, g) /\ g.at = "Callback" => g.svc # s
<1> SUFFICES ASSUME NEW g, In(stack, g), g.at = "Callback", g.svc = s PROVE FALSE
  OBVIOUS
<1>1. /\ stack \in Stacks /\ OwnInv /\ VarInv
      /\ \A P : Cnt(stack, s, P) \in Nat
  BY FramesFinite DEF QInv, StackInv
<1>2. PICK u \in Thread : \E i \in DOMAIN stack[u] : stack[u][i] = g
  BY DEF In
<1>3. PICK i \in DOMAIN stack[u] : stack[u][i] = g
  BY <1>2
<1>4. Cnt(stack, s, {"Callback"}) > 0
  <2>1. Counts(stack[u][i], s, {"Callback"})
    BY <1>3 DEF Counts
  <2> QED
    BY <1>1, <2>1, CntIn
<1>5. Cnt(stack, s, {"PopMsg"} \cup {"Callback"}) = Cnt(stack, s, {"PopMsg"}) + Cnt(stack, s, {"Callback"})
  <2>1. {"PopMsg"} \cap {"Callback"} = {}
    OBVIOUS
  <2> QED
    BY <1>1, <2>1, CntSum
<1>6. /\ Cnt(stack, s, {"PopMsg"} \cup {"Callback"}) <= Cnt(stack, s, Owning)
      /\ Cnt(stack, s, {"PopMsg"}) <= Cnt(stack, s, Holding)
  <2>1. {"PopMsg"} \cup {"Callback"} \subseteq Owning /\ {"PopMsg"} \subseteq Holding
    BY DEF Owning, Holding
  <2> QED
    BY <1>1, <2>1, CntSub
<1>7. ~quit
  <2>1. Cnt(stack, s, Holding) > 0
    BY <1>1, <1>6
  <2> QED
    BY <2>1, Held
<1>8. G(global, s) + Cnt(stack, s, Owning) <= 1
  BY <1>1, <1>7 DEF OwnInv, One
<1>9. G(global, s) \in Nat
  BY <1>1, PlacesFinite DEF VarInv
<1> QED
  BY <1>1, <1>4, <1>5, <1>6, <1>8, <1>9

LEMMA MailboxPush ==
  ASSUME QInv, QInv', HandlingInv, HandlingInv', NEW t \in Thread, Push(t)
  PROVE  [Mailbox!MailboxNext]_(Mailbox!mvars)
<1> DEFINE s == Top(t).svc
           x == Top(t).msg
<1>0. VarInv /\ StackInv
  BY DEF QInv
<1>1. Top(t).at = "Push" /\ s \in Sid /\ x \in Mail
  BY <1>0, TopGood DEF Push, At, Resting
<1>2. /\ mqueue' = [mqueue EXCEPT ![s] = Append(@, x)]
      /\ Becomes(t, <<F("Release", s)>>)
      /\ registered' = registered /\ ctx' = ctx
  BY DEF Push, hvars
<1> DEFINE fs == <<F("Release", s)>>
<1>3. fs \in Seq(Good) /\ Becomes(t, fs) /\ DOMAIN fs = {1} /\ fs[1].at = "Release"
  <2>1. F("Release", s) \in Good /\ F("Release", s).at = "Release"
    BY <1>1, GoodFrames DEF F, Points, Resting
  <2> QED
    BY <1>2, <2>1, Lists
<1> HIDE DEF fs
<1>4. \A f : f.at = "Callback" => (In(stack', f) <=> In(stack, f))
  BY <1>0, <1>1, <1>3, FramesMoved
<1>5. [z \in Sid |-> Handling(z)]' = [z \in Sid |-> Handling(z)]
  BY <1>4, HandlingKept
<1> HIDE DEF s, x
<1>6. Mailbox!Deliver(s, x)
  BY <1>2, <1>5 DEF Mailbox!Deliver
<1> QED
  BY <1>1, <1>6 DEF Mailbox!MailboxNext

LEMMA MailboxSend ==
  ASSUME QInv, QInv', HandlingInv, HandlingInv', NEW t \in Thread, NEW s \in Sid, NEW m \in Msg, Send(t, s, m)
  PROVE  [Mailbox!MailboxNext]_(Mailbox!mvars)
<1> DEFINE f == [F("Push", s) EXCEPT !.msg = Say(m)]
<1>1. /\ registered' = registered /\ ctx' = ctx /\ mqueue' = mqueue
      /\ Call(t, <<f>>) \/ stack' = stack
  BY DEF Send, qvars
<1>2. f \in Good /\ f.at = "Push"
  <2>1. f \in Good
    BY GoodFrames DEF Points, Mail
  <2> QED
    BY <2>1 DEF F
<1> HIDE DEF f
<1>3. \A g : g.at = "Callback" => (In(stack', g) <=> In(stack, g))
  BY <1>1, <1>2, CallMove DEF QInv
<1>4. [z \in Sid |-> Handling(z)]' = [z \in Sid |-> Handling(z)]
  BY <1>3, HandlingKept
<1> QED
  BY <1>1, <1>4 DEF Mailbox!mvars

(* A callback ends: the service handles no message until the next turn.    *)
LEMMA MailboxCallbackDone ==
  ASSUME QInv, QInv', HandlingInv, HandlingInv', NEW w \in Worker, CallbackDone(w)
  PROVE  [Mailbox!MailboxNext]_(Mailbox!mvars)
<1> DEFINE s == Top(w).svc
<1>0. VarInv /\ StackInv /\ w \in Thread /\ stack \in Stacks
  BY DEF QInv, StackInv, Thread
<1>1. /\ Top(w).at = "Callback" /\ s \in Sid /\ Top(w).msg \in Mail /\ Top(w) \in Frame
      /\ stack[w] # << >>
  BY <1>0, TopGood DEF CallbackDone, At, Resting
<1>2. registered' = registered /\ ctx' = ctx /\ mqueue' = mqueue
  BY DEF CallbackDone, hvars, qvars
<1>3. PICK f \in Light : Becomes(w, <<f>>)
  <2>1. Top(w).n > 0 => Top(w).n - 1 \in Nat
    BY <1>1 DEF Frame, First
  <2>2. Top(w).n > 0 => [F("PopMsg", s) EXCEPT !.n = Top(w).n - 1] \in Light
    BY <1>1, <2>1, LightFrames
  <2>3. F("NextPop", s) \in Light
    BY <1>1, LightFrames DEF Points, Resting
  <2> QED
    BY <2>2, <2>3 DEF CallbackDone
<1> DEFINE fs == <<f>>
<1>4. /\ fs \in Seq(Good) /\ Becomes(w, fs) /\ DOMAIN fs = {1} /\ fs[1] = f
      /\ f \in Good /\ f.at # "Callback"
  BY <1>3, Lists DEF Light
<1> HIDE DEF fs
<1>5. /\ \A g : In(stack, g) /\ g # Top(w) => In(stack', g)
      /\ \A g : In(stack', g) /\ g.at = "Callback" => In(stack, g)
      /\ In(stack, Top(w))
  BY <1>0, <1>4, FramesMoved
<1>c. PICK c \in Sid : c = s
  BY <1>1
<1> HIDE DEF s
<1>6. Handling(c) = Top(w).msg
  BY <1>1, <1>c, <1>5 DEF s, HandlingInv
(* It was the only one. *)
<1>7. \A g : In(stack', g) /\ g.at = "Callback" => g.svc # c
  <2> SUFFICES ASSUME NEW g, In(stack', g), g.at = "Callback", g.svc = c PROVE FALSE
    OBVIOUS
  <2>1. \A z, P : Cnt(stack', z, P) = Cnt(stack, z, P) - N(Top(w), z, P) + N(f, z, P)
    BY <1>0, <1>1, <1>3, <1>4, Becomes1
  <2>2. N(Top(w), c, {"Callback"}) = 1 /\ N(f, c, {"Callback"}) = 0
    BY <1>1, <1>c, <1>4, Weighs DEF s
  <2>3. Cnt(stack, c, {"Callback"}) <= 1 /\ Cnt(stack, c, {"Callback"}) \in Nat
    BY <1>0, <1>1, OneCallback, FramesFinite
  <2>4. Cnt(stack', c, {"Callback"}) <= 0
    <3>1. Cnt(stack', c, {"Callback"})
            = Cnt(stack, c, {"Callback"}) - N(Top(w), c, {"Callback"}) + N(f, c, {"Callback"})
      BY <2>1
    <3> QED
      BY <2>2, <2>3, <3>1
  <2>5. PICK u \in Thread : \E i \in DOMAIN stack'[u] : stack'[u][i] = g
    BY DEF In
  <2>6. PICK i \in DOMAIN stack'[u] : stack'[u][i] = g
    BY <2>5
  <2>7. stack' \in Stacks /\ Counts(stack'[u][i], c, {"Callback"})
    BY <2>6 DEF QInv, StackInv, Counts
  <2>8. Cnt(stack', c, {"Callback"}) > 0
    BY <2>7, CntIn
  <2>9. Cnt(stack', c, {"Callback"}) \in Nat
    BY <2>7, FramesFinite
  <2> QED
    BY <2>4, <2>8, <2>9
<1>8. Handling(c)' = Nobody
  BY <1>7 DEF HandlingInv
<1>9. ASSUME NEW z \in Sid, z # c PROVE Handling(z)' = Handling(z)
  <2>1. \A g : g.at = "Callback" /\ g.svc = z => (In(stack', g) <=> In(stack, g))
    BY <1>5, <1>9, <1>c DEF s
  <2>2. CASE \A g : In(stack, g) /\ g.at = "Callback" => g.svc # z
    <3>1. \A g : In(stack', g) /\ g.at = "Callback" => g.svc # z
      BY <2>1, <2>2
    <3>2. Handling(z)' = Nobody
      BY <3>1 DEF HandlingInv
    <3>3. Handling(z) = Nobody
      BY <2>2 DEF HandlingInv
    <3> QED
      BY <3>2, <3>3
  <2>3. ASSUME NEW g, In(stack, g), g.at = "Callback", g.svc = z PROVE Handling(z)' = Handling(z)
    <3>1. In(stack', g)
      BY <2>1, <2>3
    <3>2. Handling(z)' = g.msg
      BY <2>3, <3>1 DEF HandlingInv
    <3>3. Handling(z) = g.msg
      BY <2>3 DEF HandlingInv
    <3> QED
      BY <3>2, <3>3
  <2> QED
    BY <2>2, <2>3
<1>10. Top(w).msg # Nobody
  BY <1>1, NobodyAssumption
<1>11. [z \in Sid |-> Handling(z)]' = [[z \in Sid |-> Handling(z)] EXCEPT ![c] = Nobody]
  BY <1>8, <1>9
<1>12. Mailbox!Finish(c)
  BY <1>2, <1>6, <1>10, <1>11 DEF Mailbox!Finish
<1> QED
  BY <1>12 DEF Mailbox!MailboxNext

(* A worker in a turn takes the oldest message, and no other is in one.    *)
LEMMA MailboxPopMsg ==
  ASSUME QInv, QInv', HandlingInv, HandlingInv', NEW w \in Worker, PopMsg(w)
  PROVE  [Mailbox!MailboxNext]_(Mailbox!mvars)
<1> DEFINE s == Top(w).svc
           x == Head(mqueue[s])
           e == [Top(w) EXCEPT !.at = "Callback", !.msg = Head(mqueue[s]),
                    !.n = IF @ = First THEN Batch(w, Len(mqueue[s]) - 1) ELSE @]
<1>0. VarInv /\ StackInv /\ w \in Thread /\ stack \in Stacks
  BY DEF QInv, StackInv, Thread
<1>1. /\ Top(w).at = "PopMsg" /\ s \in Sid /\ Top(w) \in Frame /\ Top(w) \in Good
      /\ Cnt(stack, s, {"PopMsg"}) > 0 /\ Cnt(stack, s, Holding) > 0
  BY <1>0, TopGood DEF PopMsg, At, Resting, Holding
<1>2. Top(w) \in Light
  BY <1>1 DEF Light
<1>3. /\ source' = source /\ registered' = registered /\ ctx' = ctx /\ done' = done
      /\ \/ Becomes(w, <<F("Release", s), F("Pop", Nobody)>>) /\ mqueue' = mqueue
         \/ /\ mqueue[s] # << >>
            /\ mqueue' = [mqueue EXCEPT ![s] = Tail(@)]
            /\ Becomes(w, <<e>>)
  BY DEF PopMsg, hvars, msgvars
<1>4. CASE Becomes(w, <<F("Release", s), F("Pop", Nobody)>>) /\ mqueue' = mqueue
  <2>1. F("Release", s) \in Light /\ F("Pop", Nobody) \in Light
    BY <1>1, LightFrames DEF Points, Resting
  <2>2. <<F("Release", s), F("Pop", Nobody)>> \in Seq(Light)
    BY <2>1
  <2>3. \E fs \in Seq(Light) : Becomes(w, fs)
    BY <1>4, <2>2
  <2>4. Quiet
    BY <1>0, <1>2, <1>3, <1>4, <2>3, QuietBecomes
  <2> QED
    BY <2>4, MailboxQuiet
<1>5. CASE /\ mqueue[s] # << >>
           /\ mqueue' = [mqueue EXCEPT ![s] = Tail(@)]
           /\ Becomes(w, <<e>>)
  <2>1. /\ mqueue[s] \in Seq(Mail) /\ x \in Mail
    BY <1>0, <1>1, <1>5, RangeTail DEF VarInv
  <2>2. e \in Good /\ e.at = "Callback" /\ e.msg = x /\ e.svc = s
    BY <1>1, <1>5, <2>1, CallbackFrame
  (* Its own turn is the only one. *)
  <2>3. \A g : In(stack, g) /\ g.at = "Callback" => g.svc # s
    BY <1>1, TurnAlone
  <2> DEFINE fs == <<e>>
  <2> HIDE DEF e
  <2>4. fs \in Seq(Good) /\ Becomes(w, fs) /\ DOMAIN fs = {1} /\ fs[1] = e
    BY <1>5, <2>2, Lists
  <2> HIDE DEF fs
  <2>5. /\ \A g : In(stack, g) /\ g # Top(w) => In(stack', g)
        /\ \A g : In(stack', g) => In(stack, g) \/ g = e
        /\ In(stack', e)
    BY <1>0, <2>4, FramesMoved
  <2>c. PICK c \in Sid : c = s
    BY <1>1
  <2>d. PICK y : y = x
    OBVIOUS
  <2>e. y = Head(mqueue[c])
    BY <2>c, <2>d
  <2> HIDE DEF s, x
  <2>6. Handling(c) = Nobody
    BY <2>c, <2>3 DEF HandlingInv
  <2>7. Handling(c)' = y
    BY <2>c, <2>d, <2>2, <2>5 DEF HandlingInv
  <2>8. ASSUME NEW z \in Sid, z # c PROVE Handling(z)' = Handling(z)
    <3>1. \A g : g.at = "Callback" /\ g.svc = z => (In(stack', g) <=> In(stack, g))
      BY <1>1, <2>c, <2>2, <2>5, <2>8
    <3>2. CASE \A g : In(stack, g) /\ g.at = "Callback" => g.svc # z
      <4>1. \A g : In(stack', g) /\ g.at = "Callback" => g.svc # z
        BY <3>1, <3>2
      <4>2. Handling(z)' = Nobody
        BY <4>1 DEF HandlingInv
      <4>3. Handling(z) = Nobody
        BY <3>2 DEF HandlingInv
      <4> QED
        BY <4>2, <4>3
    <3>3. ASSUME NEW g, In(stack, g), g.at = "Callback", g.svc = z PROVE Handling(z)' = Handling(z)
      <4>1. In(stack', g)
        BY <3>1, <3>3
      <4>2. Handling(z)' = g.msg
        BY <3>3, <4>1 DEF HandlingInv
      <4>3. Handling(z) = g.msg
        BY <3>3 DEF HandlingInv
      <4> QED
        BY <4>2, <4>3
    <3> QED
      BY <3>2, <3>3
  <2>9. [z \in Sid |-> Handling(z)]' = [[z \in Sid |-> Handling(z)] EXCEPT ![c] = y]
    BY <2>7, <2>8
  <2>11. Mailbox!Take(c)
    BY <1>3, <1>5, <2>c, <2>e, <2>6, <2>9 DEF Mailbox!Take
  <2> QED
    BY <2>11 DEF Mailbox!MailboxNext
<1> QED
  BY <1>3, <1>4, <1>5

LEMMA MailboxDrop ==
  ASSUME QInv, QInv', HandlingInv, HandlingInv', NEW t \in Thread, Drop(t)
  PROVE  [Mailbox!MailboxNext]_(Mailbox!mvars)
<1> DEFINE s  == Top(t).svc
           x  == Head(mqueue[s])
           to == IF x[1] = "msg" THEN source[x[2]] ELSE Nobody
           f  == [F("Push", to) EXCEPT !.msg = Err(x[2])]
<1>0. VarInv /\ StackInv
  BY DEF QInv
<1>1. /\ Top(t).at = "Drop" /\ s \in Sid /\ Top(t) \in Light /\ stack \in Stacks
      /\ Cnt(stack, s, {"Drop"}) > 0
  BY <1>0, TopGood DEF Drop, At, Resting, Light
<1>2. s \in Ended
  <2>1. release[s] /\ ctx[s] = "freed"
    BY <1>1 DEF QInv, GoneInv
  <2>2. s \notin registered
    BY <2>1, Registered
  <2> QED
    BY <1>1, <2>1, <2>2 DEF Ended
<1>3. /\ source' = source /\ registered' = registered /\ ctx' = ctx /\ done' = done
      /\ \/ Becomes(t, << >>) /\ mqueue' = mqueue
         \/ /\ mqueue[s] # << >>
            /\ mqueue' = [mqueue EXCEPT ![s] = Tail(@)]
            /\ \/ to \in registered /\ Call(t, <<f>>)
               \/ to \notin registered /\ stack' = stack
  BY DEF Drop, Return, msgvars
<1>4. CASE Becomes(t, << >>) /\ mqueue' = mqueue
  <2>1. \E fs \in Seq(Light) : Becomes(t, fs)
    BY <1>4, LightFrames
  <2>2. Quiet
    BY <1>1, <1>3, <1>4, <2>1, QuietBecomes
  <2> QED
    BY <2>2, MailboxQuiet
<1>5. CASE /\ mqueue[s] # << >>
           /\ mqueue' = [mqueue EXCEPT ![s] = Tail(@)]
           /\ \/ to \in registered /\ Call(t, <<f>>)
              \/ to \notin registered /\ stack' = stack
  <2>1. x \in Mail
    BY <1>0, <1>1, <1>5, RangeTail DEF VarInv
  <2>2. Err(x[2]) \in Mail
    BY <2>1, MailParts
  <2>3. to \in registered => f \in Good /\ f.at = "Push"
    <3>1. to \in registered => to \in Sid
      BY <1>0 DEF VarInv
    <3>2. to \in Sid => f \in Good
      BY <2>2, GoodFrames DEF Points
    <3>3. f.at = "Push"
      BY DEF F
    <3> HIDE DEF f, to
    <3> QED
      BY <3>1, <3>2, <3>3
  <2> HIDE DEF f, to, x
  <2>4. \A g : g.at = "Callback" => (In(stack', g) <=> In(stack, g))
    <3>1. CASE to \in registered /\ Call(t, <<f>>)
      BY <1>0, <2>3, <3>1, CallMove
    <3>2. CASE stack' = stack
      BY <3>2
    <3> QED
      BY <1>5, <3>1, <3>2
  <2>5. [z \in Sid |-> Handling(z)]' = [z \in Sid |-> Handling(z)]
    BY <2>4, HandlingKept
  <2> HIDE DEF s
  <2>6. Mailbox!Drop(s)
    BY <1>2, <1>3, <1>5, <2>5 DEF Mailbox!Drop, Ended
  <2> QED
    BY <1>1, <2>6 DEF Mailbox!MailboxNext
<1> QED
  BY <1>3, <1>4, <1>5

LEMMA MailboxStep ==
  ASSUME QInv, QInv', HandlingInv, HandlingInv', [QueueNext]_queuevars
  PROVE  [Mailbox!MailboxNext]_(Mailbox!mvars)
<1>1. ASSUME NEW t \in Thread, Inside(t) PROVE [Mailbox!MailboxNext]_(Mailbox!mvars)
  BY <1>1, QuietInside, MailboxQuiet, MailboxPush, MailboxDrop DEF Inside
<1>2. ASSUME NEW t \in Thread, NEW s \in Sid,
             Kill(t, s) \/ Launch(t, s) \/ \E m \in Msg : Send(t, s, m)
      PROVE  [Mailbox!MailboxNext]_(Mailbox!mvars)
  BY <1>2, QuietCalls, MailboxQuiet, MailboxSend
<1>3. ASSUME NEW w \in Worker, Dispatch(w) PROVE [Mailbox!MailboxNext]_(Mailbox!mvars)
  BY <1>3, QuietWorker, MailboxQuiet, MailboxPopMsg, MailboxCallbackDone DEF Dispatch
<1>4. CASE (\E w \in Worker : WakeUp(w)) \/ Abort \/ UNCHANGED queuevars
  BY <1>4, QuietAside, MailboxQuiet
<1> QED
  BY <1>1, <1>2, <1>3, <1>4 DEF QueueNext, Joined

(* Each service gets the messages sent to it once and in the order of the  *)
(* pushes and handles one at a time, whichever workers it passes through,  *)
(* and none is dropped before it has left (skynet_mq.c, skynet_server.c).  *)
THEOREM QueueRefinement == QueueSpec => ImplementsMailbox
<1>1. QueueInit => Mailbox!MailboxInit
  <2> SUFFICES ASSUME QueueInit PROVE Mailbox!MailboxInit
    OBVIOUS
  <2>1. QInv /\ HandlingInv
    BY QueueInitInv, HandlingFacts
  <2>2. /\ mqueue = [s \in Sid |-> << >>] /\ registered = Boot
        /\ ctx = [s \in Sid |-> IF s \in Boot THEN "live" ELSE "none"]
        /\ stack = [t \in Thread |-> <<F(IF t = Socket THEN "Outside" ELSE "Pop", Nobody)>>]
    BY DEF QueueInit
  <2>3. \A f : In(stack, f) => f.at # "Callback"
    BY <2>2 DEF In, F
  <2>4. \A s \in Sid : Handling(s) = Nobody
    BY <2>1, <2>3 DEF HandlingInv
  <2>5. {s \in Sid \ registered : ctx[s] # "none"} = {}
    BY <2>2
  <2> QED
    BY <2>2, <2>4, <2>5 DEF Mailbox!MailboxInit
<1>2. QInv /\ QInv' /\ HandlingInv /\ HandlingInv' /\ [QueueNext]_queuevars => [Mailbox!MailboxNext]_(Mailbox!mvars)
  BY MailboxStep
<1>3. QueueSpec => []HandlingInv
  BY QueueInvariant, HandlingFacts, PTL
<1> QED
  BY <1>1, <1>2, <1>3, QueueInvariant, PTL
     DEF QueueSpec, ImplementsMailbox, Mailbox!MailboxSpec
=============================================================================
