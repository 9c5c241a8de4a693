------------------------- MODULE SceneAgentsProofs -------------------------
(***************************************************************************)
(* Proofs about SceneAgents, for any number of players, agents, scenes and *)
(* coroutines, and any limit of foods.                                     *)
(***************************************************************************)
EXTENDS SceneAgents, SequenceTheorems, FiniteSetTheorems, WellFoundedInduction, TLAPS

-----------------------------------------------------------------------------
(* The invariants *)

(* The coroutines of an agent: the kick leaves, the others enter; and an   *)
(* agent is leaving while the kick waits for the scene.                    *)
CallInv ==
  \A a \in Agent :
    /\ call[a][Kicker] # Free <=> life[a] = "leaving"
    /\ call[a][Kicker] # Free => call[a][Kicker].op = "leave"
    /\ \A k \in Slot : call[a][k] # Free => call[a][k].op = "enter"

(* A ball is that of an agent of its player.                               *)
RoleInv == \A x \in Scene, p \in Role : balls[x][p] # Nobody => RoleOf[balls[x][p]] = p

(* An enter that the scene has granted, and the scene that an agent takes  *)
(* itself to be in, or has asked to let it go.                             *)
Granted(a, k) == call[a][k] # Free /\ call[a][k].answer = "yes"
Taken(a, x) ==
  \/ life[a] # "leaving" /\ sname[a] = x
  \/ life[a] = "leaving" /\ call[a][Kicker].to = x /\ call[a][Kicker].answer = "none"

(* Each of them has a ball of its own: no step but the agent's leave takes *)
(* it away, and that one no other.                                         *)
Keeps(a) ==
  /\ life[a] = "none" => sname[a] = Nobody /\ \A k \in Slot : call[a][k] = Free
  /\ Alive(a) =>
       /\ \A k \in Slot : Granted(a, k) => Owns(a, call[a][k].to)
       /\ \A j, k \in Slot :
            Granted(a, j) /\ Granted(a, k) /\ call[a][j].to = call[a][k].to => j = k
       /\ \A x \in Scene : Taken(a, x) =>
            Owns(a, x) /\ \A k \in Slot : Granted(a, k) => call[a][k].to # x
BallInv == \A a \in Agent : Keeps(a)

(* Where the ball of an agent is: in the scene it takes itself to be in,   *)
(* until that has let it go, or in the one that has just let it in.        *)
Home(a, x) ==
  \/ sname[a] = x /\ (life[a] = "leaving" => call[a][Kicker].answer = "none")
  \/ \E k \in Slot : call[a][k] # Free /\ call[a][k].to = x /\ call[a][k].answer = "yes"

AtHome(a) ==
  /\ life[a] = "none" => \A x \in Scene : ~Owns(a, x)
  /\ Alive(a) => /\ \A j, k \in Slot : call[a][j] # Free /\ call[a][k] # Free => j = k
                 /\ \A k \in Slot : call[a][k] # Free => sname[a] = Nobody
                 /\ life[a] = "leaving" => sname[a] # Nobody /\ call[a][Kicker].to = sname[a]
                 /\ \A x \in Scene : Owns(a, x) <=> Home(a, x)
HomeInv == \A a \in Patient : AtHome(a)

(* The foods are numbered up to food_max_id, and overrun the limit by one. *)
FoodInv ==
  /\ \A x \in Scene : /\ food_max_id[x] <= MaxFood[x] /\ foods[x] \subseteq 1 .. food_max_id[x]
                       /\ food_count[x] <= FoodLimit + 1
  /\ FoodsCounted

SceneInv == SceneTypeOK /\ CallInv /\ RoleInv /\ BallInv /\ HomeInv /\ FoodInv

-----------------------------------------------------------------------------
(* Calls *)

LEMMA CallFacts ==
  /\ Free \notin Calls /\ Kicker \notin Slot
  /\ \A op \in Ops, x \in Scene :
       Sent(op, x) \in Calls /\ Sent(op, x).op = op /\ Sent(op, x).to = x
         /\ Sent(op, x).answer = "none" /\ Sent(op, x) # Free
  /\ \A c \in Calls : c # Free /\ c.op \in Ops /\ c.to \in Scene
  /\ \A c \in Calls, w \in {"none", "yes", "no"} :
       LET d == [c EXCEPT !.answer = w]
       IN  d \in Calls /\ d # Free /\ d.op = c.op /\ d.to = c.to /\ d.answer = w
<1>1. \A c \in Calls : c # Free /\ c.op \in Ops /\ c.to \in Scene
  BY DEF Calls, Free, Ops
<1>2. \A op \in Ops, x \in Scene :
       Sent(op, x) \in Calls /\ Sent(op, x).op = op /\ Sent(op, x).to = x
         /\ Sent(op, x).answer = "none"
  BY DEF Calls, Ops, Sent
<1>3. \A c \in Calls, w \in {"none", "yes", "no"} :
       LET d == [c EXCEPT !.answer = w]
       IN  d \in Calls /\ d.op = c.op /\ d.to = c.to /\ d.answer = w
  BY DEF Calls
<1>4. Kicker \notin Slot
  BY SlotAssumption
<1> QED
  BY <1>1, <1>2, <1>3, <1>4

LEMMA CallSet ==
  ASSUME SceneTypeOK, NEW a \in Agent, NEW k \in Slot \cup {Kicker}, NEW c \in Calls \cup {Free},
         call' = [call EXCEPT ![a][k] = c]
  PROVE  /\ call' \in [Agent -> [Slot \cup {Kicker} -> Calls \cup {Free}]]
         /\ call'[a][k] = c
         /\ \A b \in Agent : b # a => call'[b] = call[b]
         /\ \A j \in Slot \cup {Kicker} : j # k => call'[a][j] = call[a][j]
BY DEF SceneTypeOK

LEMMA CallTo ==
  ASSUME SceneTypeOK, NEW a \in Agent, NEW k \in Slot \cup {Kicker}, call[a][k] # Free
  PROVE  call[a][k].to \in Scene
<1>1. call[a][k] \in Calls
  BY DEF SceneTypeOK
<1> QED
  BY <1>1, CallFacts

(* A step that leaves the foods alone. *)
LEMMA FoodKept ==
  ASSUME FoodInv, UNCHANGED <<foods, food_count, food_max_id>>
  PROVE  FoodInv'
BY DEF FoodInv, FoodsCounted

(* A step that leaves the balls alone. *)
LEMMA RoleKept ==
  ASSUME RoleInv, UNCHANGED balls
  PROVE  RoleInv'
BY DEF RoleInv

(* A step of others, which does not take a ball of the agent.              *)
LEMMA KeepsKept ==
  ASSUME NEW a \in Agent, Keeps(a),
         life'[a] = life[a], sname'[a] = sname[a], call'[a] = call[a],
         \A x \in Scene : Alive(a) /\ Owns(a, x) => Owns(a, x)',
         SceneTypeOK
  PROVE  Keeps(a)'
<1>1. \A k \in Slot : Granted(a, k) => call[a][k].to \in Scene
  BY CallTo DEF Granted
<1>2. (Alive(a)' <=> Alive(a)) /\ (\A k \in Slot : Granted(a, k)' <=> Granted(a, k))
  BY DEF Alive, Granted
<1>3. \A x \in Scene : Taken(a, x)' <=> Taken(a, x)
  BY DEF Taken
<1> QED
  BY <1>1, <1>2, <1>3 DEF Keeps

(* A step of which the scenes know nothing. *)
LEMMA BallKept ==
  ASSUME SceneTypeOK, BallInv, UNCHANGED <<life, sname, call, balls>>
  PROVE  BallInv'
BY KeepsKept DEF BallInv, Owns

-----------------------------------------------------------------------------
(* The agents *)

LEMMA LoginInv ==
  ASSUME SceneInv, NEW a \in Agent, Login(a)
  PROVE  SceneInv'
<1> USE DEF SceneInv
<1>1. /\ life[a] = "none" /\ life' = [life EXCEPT ![a] = "on"]
      /\ sname' = sname /\ call' = call /\ balls' = balls
      /\ foods' = foods /\ food_count' = food_count /\ food_max_id' = food_max_id
      /\ sends' = sends /\ view' = view
  BY DEF Login, svars, clvars
<1>2. life' \in [Agent -> {"none", "on", "leaving", "saving", "saved", "gone"}]
      /\ life'[a] = "on" /\ \A b \in Agent : b # a => life'[b] = life[b]
  BY <1>1 DEF SceneTypeOK
<1>3. SceneTypeOK'
  BY <1>1, <1>2 DEF SceneTypeOK
<1>4. CallInv'
  BY <1>1, <1>2 DEF CallInv
<1>5. BallInv'
  <2> SUFFICES ASSUME NEW b \in Agent PROVE Keeps(b)'
    BY DEF BallInv
  <2>1. CASE b = a
    <3>1. sname[a] = Nobody /\ \A k \in Slot : call[a][k] = Free
      BY <1>1 DEF BallInv, Keeps
    <3>2. \A x \in Scene : sname[a] # x
      BY <3>1, NobodyAssumption
    <3> QED
      BY <1>1, <1>2, <2>1, <3>1, <3>2 DEF Keeps, Granted, Taken
  <2>2. CASE b # a
    BY <1>1, <1>2, <2>2, KeepsKept DEF BallInv, Owns
  <2> QED
    BY <2>1, <2>2
<1>6. HomeInv'
  <2> SUFFICES ASSUME NEW b \in Patient PROVE AtHome(b)'
    BY DEF HomeInv
  <2>0. b \in Agent
    BY PlayerAssumption
  <2>1. CASE b = a
    <3>1. /\ sname[a] = Nobody /\ (\A k \in Slot : call[a][k] = Free)
          /\ \A x \in Scene : ~Owns(a, x)
      BY <1>1, <2>1 DEF HomeInv, AtHome, BallInv, Keeps
    <3>2. \A x \in Scene : sname[a] # x
      BY <3>1, NobodyAssumption
    <3> QED
      BY <1>1, <1>2, <2>1, <3>1, <3>2 DEF AtHome, Alive, Owns, Home
  <2>2. CASE b # a
    BY <1>1, <1>2, <2>0, <2>2 DEF HomeInv, AtHome, Alive, Owns, Home
  <2> QED
    BY <2>1, <2>2
<1> QED
  BY <1>1, <1>3, <1>4, <1>5, <1>6, FoodKept, RoleKept

LEMMA EnterInv ==
  ASSUME SceneInv, NEW a \in Agent, NEW k \in Slot, NEW x \in Scene, Enter(a, k, x)
  PROVE  SceneInv'
<1> USE DEF SceneInv
<1>1. /\ Alive(a) /\ call[a][k] = Free /\ (a \in Patient => ~Waits(a, "enter"))
      /\ sname[a] = Nobody /\ call' = [call EXCEPT ![a][k] = Sent("enter", x)]
      /\ life' = life /\ sname' = sname /\ balls' = balls
      /\ foods' = foods /\ food_count' = food_count /\ food_max_id' = food_max_id
      /\ sends' = sends /\ view' = view
  BY DEF Enter, Idle, svars, clvars
<1>2. /\ call' \in [Agent -> [Slot \cup {Kicker} -> Calls \cup {Free}]]
      /\ call'[a][k] = Sent("enter", x)
      /\ \A b \in Agent : b # a => call'[b] = call[b]
      /\ \A j \in Slot \cup {Kicker} : j # k => call'[a][j] = call[a][j]
      /\ Sent("enter", x) # Free /\ Sent("enter", x).op = "enter" /\ Sent("enter", x).answer = "none"
      /\ k # Kicker
  <2> DEFINE c == Sent("enter", x)
  <2>1. c \in Calls /\ c # Free /\ c.op = "enter" /\ c.answer = "none" /\ k # Kicker
    BY CallFacts DEF Ops
  <2>2. SceneTypeOK /\ call' = [call EXCEPT ![a][k] = c] /\ c \in Calls \cup {Free}
    BY <1>1, <2>1
  <2> HIDE DEF c
  <2>3. /\ call' \in [Agent -> [Slot \cup {Kicker} -> Calls \cup {Free}]]
        /\ call'[a][k] = c
        /\ \A b \in Agent : b # a => call'[b] = call[b]
        /\ \A j \in Slot \cup {Kicker} : j # k => call'[a][j] = call[a][j]
    BY <2>2, CallSet
  <2>4. c = Sent("enter", x)
    BY DEF c
  <2> QED
    BY <2>1, <2>3, <2>4
<1>3. SceneTypeOK'
  BY <1>1, <1>2 DEF SceneTypeOK
<1>4. CallInv'
  BY <1>1, <1>2 DEF CallInv
<1>5. BallInv'
  <2> SUFFICES ASSUME NEW b \in Agent PROVE Keeps(b)'
    BY DEF BallInv
  <2>1. CASE b = a
    <3>1. /\ \A j \in Slot : Granted(a, j)' <=> Granted(a, j)
          /\ \A j \in Slot : Granted(a, j) => call'[a][j] = call[a][j]
      BY <1>1, <1>2 DEF Granted
    <3>2. \A y \in Scene : Taken(a, y)' <=> Taken(a, y)
      BY <1>1, <1>2 DEF Taken
    <3>3. Keeps(a) /\ life[a] # "none"
      BY <1>1 DEF BallInv, Alive
    <3> QED
      BY <1>1, <2>1, <3>1, <3>2, <3>3 DEF Keeps, Alive, Owns
  <2>2. CASE b # a
    BY <1>1, <1>2, <2>2, KeepsKept DEF BallInv, Owns
  <2> QED
    BY <2>1, <2>2
<1>6. HomeInv'
  <2> SUFFICES ASSUME NEW b \in Patient PROVE AtHome(b)'
    BY DEF HomeInv
  <2>0. b \in Agent
    BY PlayerAssumption
  <2>1. CASE b = a
    <3>1. \A j \in Slot : call[a][j] = Free
      BY <1>1, <2>1 DEF Waits, CallInv
    <3>2. \A j \in Slot : call'[a][j] # Free => j = k
      BY <1>2, <3>1
    <3>3. \A y \in Scene : Home(a, y)' <=> Home(a, y)
      BY <1>1, <1>2, <3>1, <3>2 DEF Home
    <3> QED
      BY <1>1, <1>2, <2>1, <3>2, <3>3 DEF Owns, HomeInv, AtHome, Alive
  <2>2. CASE b # a
    BY <1>1, <1>2, <2>0, <2>2 DEF HomeInv, AtHome, Alive, Owns, Home
  <2> QED
    BY <2>1, <2>2
<1> QED
  BY <1>1, <1>3, <1>4, <1>5, <1>6, FoodKept, RoleKept

LEMMA KickInv ==
  ASSUME SceneInv, NEW a \in Agent, KickAgent(a)
  PROVE  SceneInv'
<1> USE DEF SceneInv
<1>1. /\ life[a] = "on" /\ sname' = sname /\ balls' = balls
      /\ foods' = foods /\ food_count' = food_count /\ food_max_id' = food_max_id
      /\ sends' = sends /\ view' = view
      /\ \/ sname[a] = Nobody /\ life' = [life EXCEPT ![a] = "saving"] /\ call' = call
         \/ /\ sname[a] # Nobody /\ life' = [life EXCEPT ![a] = "leaving"]
            /\ call' = [call EXCEPT ![a][Kicker] = Sent("leave", sname[a])]
  BY DEF KickAgent, svars, clvars
<1>2. /\ life' \in [Agent -> {"none", "on", "leaving", "saving", "saved", "gone"}]
      /\ life'[a] \in {"saving", "leaving"} /\ \A b \in Agent : b # a => life'[b] = life[b]
      /\ Kicker \notin Slot
  BY <1>1, SlotAssumption DEF SceneTypeOK
<1>3. /\ call' \in [Agent -> [Slot \cup {Kicker} -> Calls \cup {Free}]]
      /\ \A b \in Agent : b # a => call'[b] = call[b]
      /\ \A j \in Slot : call'[a][j] = call[a][j]
      /\ call[a][Kicker] = Free
      /\ \/ sname[a] = Nobody /\ life'[a] = "saving" /\ call'[a][Kicker] = Free
         \/ /\ sname[a] # Nobody /\ life'[a] = "leaving"
            /\ call'[a][Kicker] # Free /\ call'[a][Kicker].op = "leave"
            /\ call'[a][Kicker].to = sname[a] /\ call'[a][Kicker].answer = "none"
  <2>1. call[a][Kicker] = Free
    BY <1>1 DEF CallInv
  <2>2. CASE sname[a] = Nobody
    BY <1>1, <2>1, <2>2 DEF SceneTypeOK
  <2>3. CASE sname[a] # Nobody
    <3>1. sname[a] \in Scene
      BY <2>3 DEF SceneTypeOK
    <3>2. call' = [call EXCEPT ![a][Kicker] = Sent("leave", sname[a])] /\ life'[a] = "leaving"
      BY <1>1, <2>3 DEF SceneTypeOK
    <3> DEFINE c == Sent("leave", sname[a])
    <3>3. c \in Calls /\ c # Free /\ c.op = "leave" /\ c.to = sname[a] /\ c.answer = "none"
      BY <3>1, CallFacts DEF Ops
    <3>4. call' = [call EXCEPT ![a][Kicker] = c]
      BY <3>2
    <3> HIDE DEF c
    <3>5. SceneTypeOK /\ c \in Calls \cup {Free}
      BY <3>3
    <3>6. /\ call' \in [Agent -> [Slot \cup {Kicker} -> Calls \cup {Free}]]
          /\ call'[a][Kicker] = c
          /\ \A b \in Agent : b # a => call'[b] = call[b]
          /\ \A j \in Slot \cup {Kicker} : j # Kicker => call'[a][j] = call[a][j]
      BY <3>4, <3>5, CallSet
    <3> QED
      BY <1>2, <2>1, <2>3, <3>2, <3>3, <3>6
  <2> QED
    BY <2>2, <2>3
<1>4. SceneTypeOK'
  BY <1>1, <1>2, <1>3 DEF SceneTypeOK
<1>5. CallInv'
  BY <1>1, <1>2, <1>3 DEF CallInv
<1>6. BallInv'
  <2> SUFFICES ASSUME NEW b \in Agent PROVE Keeps(b)'
    BY DEF BallInv
  <2>1. CASE b = a
    <3>1. /\ \A j \in Slot : Granted(a, j)' <=> Granted(a, j)
          /\ \A j \in Slot : call'[a][j] = call[a][j]
      BY <1>3 DEF Granted
    <3>2. \A y \in Scene : Taken(a, y)' => Taken(a, y)
      BY <1>1, <1>2, <1>3, NobodyAssumption DEF Taken
    <3>3. Keeps(a) /\ Alive(a)
      BY <1>1 DEF BallInv, Alive
    <3> QED
      BY <1>1, <1>2, <2>1, <3>1, <3>2, <3>3 DEF Keeps, Owns
  <2>2. CASE b # a
    BY <1>1, <1>2, <1>3, <2>2, KeepsKept DEF BallInv, Owns
  <2> QED
    BY <2>1, <2>2
<1>7. HomeInv'
  <2> SUFFICES ASSUME NEW b \in Patient PROVE AtHome(b)'
    BY DEF HomeInv
  <2>0. b \in Agent
    BY PlayerAssumption
  <2>1. CASE b = a
    <3>1. \A y \in Scene : Home(a, y)' <=> Home(a, y)
      BY <1>1, <1>2, <1>3 DEF Home
    <3> QED
      BY <1>1, <1>2, <1>3, <2>1, <3>1 DEF Owns, HomeInv, AtHome, Alive
  <2>2. CASE b # a
    BY <1>1, <1>2, <1>3, <2>0, <2>2 DEF HomeInv, AtHome, Alive, Owns, Home
  <2> QED
    BY <2>1, <2>2
<1> QED
  BY <1>1, <1>4, <1>5, <1>6, <1>7, FoodKept, RoleKept

LEMMA ResumeInv ==
  ASSUME SceneInv, NEW a \in Agent, NEW k \in Slot \cup {Kicker}, ResumeCall(a, k)
  PROVE  SceneInv'
<1> USE DEF SceneInv
<1> DEFINE c == call[a][k]
<1>1. /\ Alive(a) /\ c # Free /\ c.answer # "none" /\ c \in Calls
      /\ sname' = [sname EXCEPT ![a] =
            CASE c.op = "enter" /\ c.answer = "yes" -> c.to
              [] c.op = "leave"                     -> Nobody
              [] OTHER                              -> @]
      /\ life' = [life EXCEPT ![a] = IF c.op = "leave" THEN "saving" ELSE @]
      /\ call' = [call EXCEPT ![a][k] = Free]
      /\ balls' = balls
      /\ foods' = foods /\ food_count' = food_count /\ food_max_id' = food_max_id
      /\ sends' = sends /\ view' = view
  BY DEF ResumeCall, svars, clvars, SceneTypeOK
<1>2. /\ call' \in [Agent -> [Slot \cup {Kicker} -> Calls \cup {Free}]]
      /\ call'[a][k] = Free
      /\ \A b \in Agent : b # a => call'[b] = call[b]
      /\ \A j \in Slot \cup {Kicker} : j # k => call'[a][j] = call[a][j]
  BY <1>1, CallSet
<1>3. Kicker \notin Slot /\ c.op \in Ops /\ c.to \in Scene
  BY <1>1, CallFacts
<1>4. /\ k = Kicker => c.op = "leave" /\ life[a] = "leaving"
      /\ k # Kicker => c.op = "enter" /\ k \in Slot
  BY <1>1 DEF CallInv
<1> HIDE DEF c
<1>5. /\ \A b \in Agent : b # a => life'[b] = life[b] /\ sname'[b] = sname[b]
      /\ k = Kicker => life'[a] = "saving" /\ sname'[a] = Nobody
      /\ k # Kicker => /\ life'[a] = life[a]
                       /\ sname'[a] = IF c.answer = "yes" THEN c.to ELSE sname[a]
      /\ life' \in [Agent -> {"none", "on", "leaving", "saving", "saved", "gone"}]
      /\ sname' \in [Agent -> Scene \cup {Nobody}]
  <2>1. CASE k = Kicker
    BY <1>1, <1>3, <1>4, <2>1 DEF SceneTypeOK
  <2>2. CASE k # Kicker
    BY <1>1, <1>3, <1>4, <2>2 DEF SceneTypeOK
  <2> QED
    BY <2>1, <2>2
<1>6. SceneTypeOK'
  BY <1>1, <1>2, <1>5 DEF SceneTypeOK
<1>7. CallInv'
  BY <1>2, <1>3, <1>4, <1>5 DEF CallInv
<1>8. BallInv'
  <2> SUFFICES ASSUME NEW b \in Agent PROVE Keeps(b)'
    BY DEF BallInv
  <2>1. CASE b = a
    <3>1. /\ \A j \in Slot : Granted(a, j)' => Granted(a, j) /\ j # k
          /\ \A j \in Slot : Granted(a, j)' => call'[a][j] = call[a][j]
      BY <1>2 DEF Granted
    <3>2. Keeps(a) /\ life'[a] # "none"
      BY <1>1, <1>5 DEF BallInv, Alive
    <3>3. ASSUME NEW y \in Scene, Taken(a, y)'
          PROVE  Taken(a, y) \/ (k \in Slot /\ Granted(a, k) /\ call[a][k].to = y)
      <4>1. CASE k = Kicker
        BY <1>5, <3>3, <4>1, NobodyAssumption DEF Taken
      <4>2. CASE k # Kicker
        <5>1. call'[a][Kicker] = call[a][Kicker] /\ life'[a] = life[a] /\ k \in Slot
          BY <1>2, <1>4, <1>5, <4>2
        <5>2. CASE c.answer = "yes"
          BY <1>1, <1>5, <3>3, <4>2, <5>1, <5>2 DEF Taken, Granted, c
        <5>3. CASE c.answer # "yes"
          BY <1>5, <3>3, <4>2, <5>1, <5>3 DEF Taken
        <5> QED
          BY <5>2, <5>3
      <4> QED
        BY <4>1, <4>2
    <3>4. \A y \in Scene : Owns(a, y)' <=> Owns(a, y)
      BY <1>1 DEF Owns
    <3>5. \A j \in Slot : Granted(a, j) => call[a][j].to \in Scene
      BY CallTo DEF Granted
    <3> QED
      BY <1>1, <2>1, <3>1, <3>2, <3>3, <3>4, <3>5 DEF Keeps
  <2>2. CASE b # a
    BY <1>1, <1>2, <1>5, <2>2, KeepsKept DEF BallInv, Owns
  <2> QED
    BY <2>1, <2>2
<1>9. HomeInv'
  <2> SUFFICES ASSUME NEW b \in Patient PROVE AtHome(b)'
    BY DEF HomeInv
  <2>0. b \in Agent
    BY PlayerAssumption
  <2>1. CASE b = a /\ k = Kicker
    <3>1. sname[a] # Nobody /\ (\A j \in Slot : call[a][j] = Free)
      BY <1>1, <1>4, <2>1 DEF HomeInv, AtHome
    <3>2. \A y \in Scene : ~Home(a, y)
      BY <1>1, <1>4, <2>1, <3>1 DEF Home, c
    <3>3. \A y \in Scene : ~Owns(a, y)
      BY <1>1, <2>1, <3>2 DEF HomeInv, AtHome
    <3>4. \A y \in Scene : ~Home(a, y)'
      BY <1>2, <1>3, <1>5, <2>1, <3>1, NobodyAssumption DEF Home
    <3> QED
      BY <1>1, <1>2, <1>3, <1>5, <2>1, <3>1, <3>3, <3>4 DEF AtHome, Owns
  <2>2. CASE b = a /\ k # Kicker
    <3>1. /\ sname[a] = Nobody /\ life[a] # "leaving"
          /\ \A j \in Slot : j # k => call[a][j] = Free
      BY <1>1, <1>4, <2>2 DEF HomeInv, AtHome, c
    <3>2. \A y \in Scene : Home(a, y) <=> c.to = y /\ c.answer = "yes"
      BY <1>1, <1>4, <2>2, <3>1, NobodyAssumption DEF Home, c
    <3>3. \A y \in Scene : Home(a, y)' <=> c.to = y /\ c.answer = "yes"
      BY <1>2, <1>5, <2>2, <3>1, NobodyAssumption DEF Home
    <3>4. \A y \in Scene : Owns(a, y) <=> Home(a, y)
      BY <1>1, <2>2 DEF HomeInv, AtHome
    <3> QED
      BY <1>1, <1>2, <1>5, <2>2, <3>1, <3>2, <3>3, <3>4 DEF AtHome, Alive, Owns
  <2>3. CASE b # a
    BY <1>1, <1>2, <1>5, <2>0, <2>3 DEF HomeInv, AtHome, Alive, Owns, Home
  <2> QED
    BY <2>1, <2>2, <2>3
<1> QED
  BY <1>1, <1>6, <1>7, <1>8, <1>9, FoodKept, RoleKept

LEMMA SavedInv ==
  ASSUME SceneInv, NEW a \in Agent, Saved(a)
  PROVE  SceneInv'
<1> USE DEF SceneInv
<1>1. /\ life[a] = "saving" /\ life' = [life EXCEPT ![a] = "saved"]
      /\ sname' = sname /\ call' = call /\ balls' = balls
      /\ foods' = foods /\ food_count' = food_count /\ food_max_id' = food_max_id
      /\ sends' = sends /\ view' = view
  BY DEF Saved, svars, clvars
<1>2. life' \in [Agent -> {"none", "on", "leaving", "saving", "saved", "gone"}]
      /\ life'[a] = "saved" /\ \A b \in Agent : b # a => life'[b] = life[b]
  BY <1>1 DEF SceneTypeOK
<1>3. SceneTypeOK'
  BY <1>1, <1>2 DEF SceneTypeOK
<1>4. CallInv'
  BY <1>1, <1>2 DEF CallInv
<1>5. BallInv'
  BY <1>1, <1>2 DEF BallInv, Keeps, Granted, Taken, Owns, Alive
<1>6. HomeInv'
  BY <1>1, <1>2, PlayerAssumption DEF HomeInv, AtHome, Alive, Owns, Home
<1> QED
  BY <1>1, <1>3, <1>4, <1>5, <1>6, FoodKept, RoleKept

LEMMA ExitInv ==
  ASSUME SceneInv, NEW a \in Agent, Exit(a)
  PROVE  SceneInv'
<1> USE DEF SceneInv
<1> DEFINE d == [k \in DOMAIN call[a] |-> IF call[a][k] # Free /\ call[a][k].answer = "none"
                                            THEN call[a][k] ELSE Free]
<1>1. /\ life[a] = "saved" /\ life' = [life EXCEPT ![a] = "gone"]
      /\ sname' = [sname EXCEPT ![a] = Nobody]
      /\ call' = [call EXCEPT ![a] = d]
      /\ sends' = [sends EXCEPT ![a] = << >>]
      /\ view' = [view EXCEPT ![a] = NoView]
      /\ balls' = balls
      /\ foods' = foods /\ food_count' = food_count /\ food_max_id' = food_max_id
  BY DEF Exit, svars
<1>2. /\ d \in [Slot \cup {Kicker} -> Calls \cup {Free}]
      /\ \A k \in Slot \cup {Kicker} : d[k] = call[a][k] \/ d[k] = Free
  <2>1. call[a] \in [Slot \cup {Kicker} -> Calls \cup {Free}]
    BY DEF SceneTypeOK
  <2>2. DOMAIN call[a] = Slot \cup {Kicker}
    BY <2>1
  <2> QED
    BY <2>1, <2>2
<1> HIDE DEF d
<1>3. /\ life' \in [Agent -> {"none", "on", "leaving", "saving", "saved", "gone"}]
      /\ life'[a] = "gone" /\ call'[a] = d
      /\ \A b \in Agent : b # a => /\ life'[b] = life[b] /\ sname'[b] = sname[b]
                                   /\ call'[b] = call[b]
  BY <1>1 DEF SceneTypeOK
<1>4. NoView \in [balls : SUBSET Role, foods : SUBSET FoodId, odd : BOOLEAN] /\ << >> \in Seq(Sends)
  BY EmptySeq DEF NoView
<1>5. SceneTypeOK'
  BY <1>1, <1>2, <1>3, <1>4 DEF SceneTypeOK
<1>6. CallInv'
  <2>1. call[a][Kicker] = Free
    BY <1>1 DEF CallInv
  <2> QED
    BY <1>1, <1>2, <1>3, <2>1 DEF CallInv
<1>7. BallInv'
  <2> SUFFICES ASSUME NEW b \in Agent PROVE Keeps(b)'
    BY DEF BallInv
  <2>1. CASE b = a
    BY <1>3, <2>1 DEF Keeps, Alive
  <2>2. CASE b # a
    BY <1>1, <1>3, <2>2, KeepsKept DEF BallInv, Owns
  <2> QED
    BY <2>1, <2>2
<1>8. HomeInv'
  <2> SUFFICES ASSUME NEW b \in Patient PROVE AtHome(b)'
    BY DEF HomeInv
  <2>0. b \in Agent
    BY PlayerAssumption
  <2>1. CASE b = a
    BY <1>3, <2>1 DEF AtHome, Alive
  <2>2. CASE b # a
    BY <1>1, <1>3, <2>0, <2>2 DEF HomeInv, AtHome, Alive, Owns, Home
  <2> QED
    BY <2>1, <2>2
<1> QED
  BY <1>1, <1>5, <1>6, <1>7, <1>8, FoodKept, RoleKept

-----------------------------------------------------------------------------
(* The scenes *)

Views == [balls : SUBSET Role, foods : SUBSET FoodId, odd : BOOLEAN]

LEMMA ToldType ==
  ASSUME NEW v \in Views, NEW m \in Sends
  PROVE  Told(v, m) \in Views
<1>1. /\ m.type \in {"enter", "leave", "balllist", "addfood", "eat", "foodlist"}
      /\ m.type \in {"enter", "leave", "balllist"} => m.what \subseteq Role
      /\ m.type \in {"addfood", "eat", "foodlist"} => m.what \subseteq FoodId
  BY DEF Sends
<1>2. /\ v = [balls |-> v.balls, foods |-> v.foods, odd |-> v.odd]
      /\ v.balls \subseteq Role /\ v.foods \subseteq FoodId /\ v.odd \in BOOLEAN
  BY DEF Views
<1>3. CASE m.type = "enter"
  BY <1>1, <1>2, <1>3 DEF Told, Views
<1>4. CASE m.type = "leave"
  BY <1>1, <1>2, <1>4 DEF Told, Views
<1>5. CASE m.type = "balllist"
  BY <1>1, <1>2, <1>5 DEF Told, Views
<1>6. CASE m.type = "addfood"
  BY <1>1, <1>2, <1>6 DEF Told, Views
<1>7. CASE m.type = "eat"
  BY <1>1, <1>2, <1>7 DEF Told, Views
<1>8. CASE m.type = "foodlist"
  BY <1>1, <1>2, <1>8 DEF Told, Views
<1> QED
  BY <1>1, <1>3, <1>4, <1>5, <1>6, <1>7, <1>8

LEMMA MsgType ==
  /\ \A p \in SUBSET Role, t \in {"enter", "leave", "balllist"} : Msg(t, p) \in Sends
  /\ \A f \in SUBSET FoodId, t \in {"addfood", "eat", "foodlist"} : Msg(t, f) \in Sends
BY DEF Msg, Sends

LEMMA SendsType ==
  ASSUME NEW s \in [Agent -> Seq(Sends)], NEW ms \in Seq(Sends)
  PROVE  /\ \A b : Broadcast(s, b, ms) \in [Agent -> Seq(Sends)]
         /\ \A a \in Agent : SendTo(s, a, ms) \in [Agent -> Seq(Sends)]
<1>1. \A a \in Agent : s[a] \o ms \in Seq(Sends)
  BY ConcatProperties
<1>2. \A b : Broadcast(s, b, ms) \in [Agent -> Seq(Sends)]
  BY <1>1 DEF Broadcast
<1>3. \A a \in Agent : SendTo(s, a, ms) \in [Agent -> Seq(Sends)]
  BY <1>1 DEF SendTo
<1> QED
  BY <1>2, <1>3

LEMMA ForwardInv ==
  ASSUME SceneInv, NEW a \in Agent, Forward(a)
  PROVE  SceneInv'
<1> USE DEF SceneInv
<1>1. /\ sends[a] # << >> /\ sends[a] \in Seq(Sends) /\ view[a] \in Views
      /\ \/ view' = [view EXCEPT ![a] = Told(view[a], Head(sends[a]))]
         \/ view' = view
      /\ sends' = [sends EXCEPT ![a] = Tail(sends[a])]
      /\ life' = life /\ sname' = sname /\ call' = call /\ balls' = balls
      /\ foods' = foods /\ food_count' = food_count /\ food_max_id' = food_max_id
  BY DEF Forward, avars, svars, SceneTypeOK, Views
<1>2. Head(sends[a]) \in Sends /\ Tail(sends[a]) \in Seq(Sends)
  BY <1>1, HeadTailProperties
<1>3. Told(view[a], Head(sends[a])) \in Views
  BY <1>1, <1>2, ToldType
<1>4. SceneTypeOK'
  <2> DEFINE w == Told(view[a], Head(sends[a]))
  <2>1. w \in Views /\ (view' = [view EXCEPT ![a] = w] \/ view' = view)
    BY <1>1, <1>3
  <2> HIDE DEF w
  <2>2. view' \in [Agent -> Views]
    BY <2>1 DEF SceneTypeOK, Views
  <2>3. sends' \in [Agent -> Seq(Sends)]
    BY <1>1, <1>2 DEF SceneTypeOK
  <2> QED
    BY <1>1, <2>2, <2>3 DEF SceneTypeOK, Views
<1>5. CallInv' /\ BallInv'
  BY <1>1, BallKept DEF CallInv
<1>6. HomeInv'
  BY <1>1 DEF HomeInv, AtHome, Alive, Owns, Home
<1> QED
  BY <1>1, <1>4, <1>5, <1>6, FoodKept, RoleKept

LEMMA AnswerSet ==
  ASSUME SceneTypeOK, NEW a \in Agent, NEW k \in Slot \cup {Kicker}, NEW ok \in BOOLEAN,
         call[a][k] # Free, Answer(a, k, ok)
  PROVE  /\ call' \in [Agent -> [Slot \cup {Kicker} -> Calls \cup {Free}]]
         /\ call[a][k] \in Calls /\ call[a][k].to \in Scene
         /\ ~Alive(a) => call'[a][k] = Free
         /\ Alive(a) => /\ call'[a][k] # Free
                        /\ call'[a][k].op = call[a][k].op /\ call'[a][k].to = call[a][k].to
                        /\ call'[a][k].answer = IF ok THEN "yes" ELSE "no"
         /\ \A b \in Agent : b # a => call'[b] = call[b]
         /\ \A j \in Slot \cup {Kicker} : j # k => call'[a][j] = call[a][j]
<1> DEFINE w == IF ok THEN "yes" ELSE "no"
           d == IF ~Alive(a) THEN Free ELSE [call[a][k] EXCEPT !.answer = w]
<1>1. call[a][k] \in Calls /\ w \in {"none", "yes", "no"}
  BY DEF SceneTypeOK
<1>2. /\ call[a][k].to \in Scene /\ d \in Calls \cup {Free}
      /\ Alive(a) => d # Free /\ d.op = call[a][k].op /\ d.to = call[a][k].to /\ d.answer = w
  BY <1>1, CallFacts
<1>3. call' = [call EXCEPT ![a][k] = d]
  BY DEF Answer
<1>4. ~Alive(a) => d = Free
  OBVIOUS
<1> HIDE DEF d, w
<1>5. /\ call' \in [Agent -> [Slot \cup {Kicker} -> Calls \cup {Free}]]
      /\ call'[a][k] = d
      /\ \A b \in Agent : b # a => call'[b] = call[b]
      /\ \A j \in Slot \cup {Kicker} : j # k => call'[a][j] = call[a][j]
  BY <1>2, <1>3, CallSet
<1> QED
  BY <1>1, <1>2, <1>4, <1>5 DEF w

LEMMA ListsType ==
  ASSUME NEW m \in Sends, NEW n \in Sends
  PROVE  <<m>> \in Seq(Sends) /\ <<m, n>> \in Seq(Sends) /\ << >> \in Seq(Sends)
OBVIOUS

LEMMA HandleEnterInv ==
  ASSUME SceneInv, NEW a \in Agent, NEW k \in Slot, HandleEnter(a, k)
  PROVE  SceneInv'
<1> USE DEF SceneInv
<1> DEFINE x == call[a][k].to
           p == RoleOf[a]
<1>1. /\ call[a][k] # Free /\ call[a][k].answer = "none"
      /\ life' = life /\ sname' = sname /\ view' = view
      /\ foods' = foods /\ food_count' = food_count /\ food_max_id' = food_max_id
  BY DEF HandleEnter, Called
<1>2. PICK w \in {"yes", "no"} :
        /\ Answer(a, k, w = "yes")
        /\ w = "no" => balls' = balls /\ sends' = sends
        /\ w = "yes" => /\ balls[x][p] = Nobody /\ balls' = [balls EXCEPT ![x][p] = a]
                        /\ sends' = SendTo(Broadcast(sends, balls[x], <<Msg("enter", {p})>>), a,
                           <<Msg("balllist", InScene(balls'[x])), Msg("foodlist", foods[x])>>)
  <2>1. CASE balls[x][p] # Nobody /\ Answer(a, k, FALSE) /\ balls' = balls /\ sends' = sends
    <3>1. Answer(a, k, "no" = "yes")
      BY <2>1
    <3> QED
      BY <2>1, <3>1
  <2>2. CASE /\ balls[x][p] = Nobody
             /\ balls' = [balls EXCEPT ![x][p] = a]
             /\ sends' = SendTo(Broadcast(sends, balls[x], <<Msg("enter", {p})>>), a,
                           <<Msg("balllist", InScene(balls'[x])), Msg("foodlist", foods[x])>>)
             /\ Answer(a, k, TRUE)
    <3>1. Answer(a, k, "yes" = "yes")
      BY <2>2
    <3> QED
      BY <2>2, <3>1
  <2> QED
    BY <2>1, <2>2 DEF HandleEnter
<1>3. p \in Role /\ a \in Agent /\ a # Nobody /\ k # Kicker /\ k \in Slot \cup {Kicker}
  BY PlayerAssumption, NobodyAssumption, SlotAssumption
<1>4. /\ call' \in [Agent -> [Slot \cup {Kicker} -> Calls \cup {Free}]]
      /\ x \in Scene
      /\ ~Alive(a) => call'[a][k] = Free
      /\ Alive(a) => /\ call'[a][k] # Free /\ call'[a][k].to = x
                     /\ call'[a][k].op = call[a][k].op
                     /\ call'[a][k].answer = w
      /\ \A b \in Agent : b # a => call'[b] = call[b]
      /\ \A j \in Slot \cup {Kicker} : j # k => call'[a][j] = call[a][j]
  <2>1. SceneTypeOK /\ Answer(a, k, w = "yes") /\ (w = "yes") \in BOOLEAN
        /\ (IF w = "yes" THEN "yes" ELSE "no") = w
    BY <1>2
  <2> HIDE DEF SceneInv
  <2> QED
    BY <1>1, <1>3, <2>1, AnswerSet
<1> HIDE DEF x, p
<1>5. /\ balls' \in [Scene -> [Role -> Agent \cup {Nobody}]]
      /\ \A y \in Scene, q \in Role : balls'[y][q] = IF w = "yes" /\ y = x /\ q = p THEN a ELSE balls[y][q]
  <2>1. balls \in [Scene -> [Role -> Agent \cup {Nobody}]]
    BY DEF SceneTypeOK
  <2>2. CASE w = "yes"
    <3>1. balls' = [balls EXCEPT ![x][p] = a]
      BY <1>2, <2>2
    <3> QED
      BY <1>3, <1>4, <2>1, <2>2, <3>1
  <2>3. CASE w = "no"
    BY <1>2, <2>1, <2>3
  <2> QED
    BY <2>2, <2>3
<1>6. sends' \in [Agent -> Seq(Sends)]
  <2>1. CASE w = "yes"
    <3>1. /\ Msg("enter", {p}) \in Sends /\ Msg("foodlist", foods[x]) \in Sends
          /\ Msg("balllist", InScene(balls'[x])) \in Sends
      <4>1. InScene(balls'[x]) \subseteq Role /\ foods[x] \subseteq FoodId
        BY <1>4 DEF InScene, SceneTypeOK
      <4> QED
        BY <1>3, <4>1, MsgType
    <3>2. sends \in [Agent -> Seq(Sends)]
      BY DEF SceneTypeOK
    <3>3. Broadcast(sends, balls[x], <<Msg("enter", {p})>>) \in [Agent -> Seq(Sends)]
      BY <3>1, <3>2, ListsType, SendsType
    <3> DEFINE old == Broadcast(sends, balls[x], <<Msg("enter", {p})>>)
               ms  == <<Msg("balllist", InScene(balls'[x])), Msg("foodlist", foods[x])>>
    <3>4. ms \in Seq(Sends) /\ old \in [Agent -> Seq(Sends)] /\ sends' = SendTo(old, a, ms)
      BY <1>2, <2>1, <3>1, <3>3, ListsType
    <3> HIDE DEF old, ms
    <3> QED
      BY <3>4, SendsType
  <2>2. CASE w = "no"
    BY <1>2, <2>2 DEF SceneTypeOK
  <2> QED
    BY <2>1, <2>2
<1>7. SceneTypeOK'
  BY <1>1, <1>4, <1>5, <1>6 DEF SceneTypeOK
<1>8. CallInv'
  <2>1. \A b \in Agent, j \in Slot \cup {Kicker} :
          call'[b][j] # Free => call[b][j] # Free /\ call'[b][j].op = call[b][j].op
    BY <1>1, <1>4
  <2>2. \A b \in Agent : call'[b][Kicker] = call[b][Kicker]
    BY <1>3, <1>4
  <2> QED
    BY <1>1, <2>1, <2>2 DEF CallInv
<1>9. RoleInv'
  BY <1>1, <1>5 DEF RoleInv, p
<1>b. BallInv'
  <2> SUFFICES ASSUME NEW b \in Agent PROVE Keeps(b)'
    BY DEF BallInv
  <2>0. /\ Keeps(b) /\ b # Nobody /\ RoleOf[b] \in Role
        /\ w = "yes" => balls[x][p] = Nobody
    BY <1>2, PlayerAssumption, NobodyAssumption DEF BallInv, x, p
  <2>1. \A y \in Scene : Owns(b, y) => Owns(b, y)'
    BY <1>5, <2>0 DEF Owns
  <2>2. CASE b = a
    <3>1. life[a] # "none"
      BY <1>1, <2>0, <2>2 DEF Keeps
    <3>2. SUFFICES ASSUME Alive(a) PROVE Keeps(a)'
      BY <1>1, <2>2, <3>1 DEF Keeps, Alive
    <3>3. /\ \A j \in Slot : j # k => (Granted(a, j)' <=> Granted(a, j)) /\ call'[a][j] = call[a][j]
          /\ Granted(a, k)' <=> w = "yes"
          /\ call'[a][k].to = x /\ ~Granted(a, k)
      BY <1>1, <1>3, <1>4, <3>2 DEF Granted
    <3>4. \A y \in Scene : Taken(a, y)' <=> Taken(a, y)
      <4>1. call'[a][Kicker] = call[a][Kicker]
        BY <1>3, <1>4
      <4> QED
        BY <1>1, <4>1 DEF Taken
    <3>5. w = "yes" => ~Owns(a, x) /\ \A y \in Scene : y = x => Owns(a, y)'
      BY <1>3, <1>4, <1>5, <2>0 DEF Owns, p
    <3>6. \A j \in Slot : Granted(a, j) => call[a][j].to \in Scene
      BY CallTo DEF Granted
    <3>7. ASSUME NEW j \in Slot, Granted(a, j)'
          PROVE  \A y \in Scene : y = call'[a][j].to => Owns(a, y)'
      BY <2>0, <2>1, <2>2, <3>2, <3>3, <3>5, <3>7 DEF Keeps
    <3>8. ASSUME NEW j \in Slot, NEW l \in Slot, Granted(a, j)', Granted(a, l)',
                 call'[a][j].to = call'[a][l].to
          PROVE  j = l
      BY <2>0, <2>2, <3>2, <3>3, <3>5, <3>8 DEF Keeps
    <3>9. ASSUME NEW y \in Scene, Taken(a, y)'
          PROVE  Owns(a, y)' /\ \A j \in Slot : Granted(a, j)' => call'[a][j].to # y
      BY <1>4, <2>0, <2>1, <2>2, <3>2, <3>3, <3>4, <3>5, <3>9 DEF Keeps
    <3>10. \A j \in Slot : Granted(a, j)' => call'[a][j].to \in Scene
      BY <1>4, <3>3, <3>6
    <3> QED
      BY <1>1, <3>1, <3>7, <3>8, <3>9, <3>10 DEF Keeps
  <2>3. CASE b # a
    BY <1>1, <1>4, <2>0, <2>1, <2>3, KeepsKept
  <2> QED
    BY <2>2, <2>3
<1>10. HomeInv'
  <2> SUFFICES ASSUME NEW b \in Patient PROVE AtHome(b)'
    BY DEF HomeInv
  <2>0. b \in Agent /\ b # Nobody /\ RoleOf[b] \in Role
    BY PlayerAssumption, NobodyAssumption
  <2>1. CASE b = a
    <3>1. life[a] # "none"
      BY <1>1, <2>1 DEF BallInv, Keeps
    <3>2. SUFFICES ASSUME Alive(a) PROVE AtHome(a)'
      BY <1>1, <2>1, <3>1 DEF AtHome, Alive
    <3>3. /\ sname[a] = Nobody /\ (\A j \in Slot : j # k => call[a][j] = Free)
          /\ life[a] # "leaving"
      BY <1>1, <2>1, <3>2 DEF HomeInv, AtHome
    <3>4. \A y \in Scene : ~Home(a, y)
      BY <1>1, <3>3, NobodyAssumption DEF Home
    <3>5. \A y \in Scene : ~Owns(a, y)
      BY <2>1, <3>2, <3>4 DEF HomeInv, AtHome
    <3>6. \A y \in Scene : Owns(a, y)' <=> w = "yes" /\ y = x
      BY <1>3, <1>5, <3>5 DEF Owns, p
    <3>7. \A y \in Scene : Home(a, y)' <=> w = "yes" /\ y = x
      BY <1>1, <1>4, <3>2, <3>3, NobodyAssumption DEF Home
    <3> QED
      BY <1>1, <1>3, <1>4, <3>1, <3>2, <3>3, <3>6, <3>7 DEF AtHome, Alive
  <2>2. CASE b # a
    <3>1. \A y \in Scene : Owns(b, y)' <=> Owns(b, y)
      BY <1>2, <1>5, <2>0, <2>2 DEF Owns
    <3> QED
      BY <1>1, <1>4, <2>0, <2>2, <3>1 DEF HomeInv, AtHome, Alive, Home
  <2> QED
    BY <2>1, <2>2
<1> QED
  BY <1>1, <1>7, <1>8, <1>9, <1>b, <1>10, FoodKept

LEMMA HandleLeaveInv ==
  ASSUME SceneInv, NEW a \in Agent, HandleLeave(a, Kicker)
  PROVE  SceneInv'
<1> USE DEF SceneInv
<1> DEFINE k == Kicker
           x == call[a][k].to
           p == RoleOf[a]
<1>1. /\ call[a][k] # Free /\ call[a][k].answer = "none" /\ Answer(a, k, FALSE)
      /\ life' = life /\ sname' = sname /\ view' = view
      /\ foods' = foods /\ food_count' = food_count /\ food_max_id' = food_max_id
      /\ \/ balls[x][p] = Nobody /\ balls' = balls /\ sends' = sends
         \/ /\ balls' = [balls EXCEPT ![x][p] = Nobody]
            /\ sends' = Broadcast(sends, balls'[x], <<Msg("leave", {p})>>)
  BY DEF HandleLeave, Called
<1>2. life[a] = "leaving" /\ Alive(a)
  BY <1>1 DEF CallInv, Alive
<1>3. p \in Role /\ k \notin Slot /\ k \in Slot \cup {Kicker}
  BY PlayerAssumption, SlotAssumption
<1>4. /\ call' \in [Agent -> [Slot \cup {Kicker} -> Calls \cup {Free}]]
      /\ x \in Scene
      /\ call'[a][k] # Free /\ call'[a][k].to = x
      /\ call'[a][k].op = call[a][k].op /\ call'[a][k].answer = "no"
      /\ \A b \in Agent : b # a => call'[b] = call[b]
      /\ \A j \in Slot \cup {Kicker} : j # k => call'[a][j] = call[a][j]
  BY <1>1, <1>2, <1>3, AnswerSet
<1> HIDE DEF k, x, p
<1>5. /\ balls' \in [Scene -> [Role -> Agent \cup {Nobody}]]
      /\ \A y \in Scene, q \in Role : balls'[y][q] = IF y = x /\ q = p THEN Nobody ELSE balls[y][q]
  <2>1. balls \in [Scene -> [Role -> Agent \cup {Nobody}]]
    BY DEF SceneTypeOK
  <2>2. CASE balls' = [balls EXCEPT ![x][p] = Nobody]
    BY <1>3, <1>4, <2>1, <2>2
  <2>3. CASE balls[x][p] = Nobody /\ balls' = balls
    BY <2>1, <2>3
  <2> QED
    BY <1>1, <2>2, <2>3
<1>6. sends' \in [Agent -> Seq(Sends)]
  <2>1. Msg("leave", {p}) \in Sends
    BY <1>3, MsgType
  <2>2. sends \in [Agent -> Seq(Sends)]
    BY DEF SceneTypeOK
  <2>3. Broadcast(sends, balls'[x], <<Msg("leave", {p})>>) \in [Agent -> Seq(Sends)]
    BY <2>1, <2>2, ListsType, SendsType
  <2> QED
    BY <1>1, <2>2, <2>3
<1>7. SceneTypeOK'
  BY <1>1, <1>4, <1>5, <1>6 DEF SceneTypeOK
<1>8. CallInv'
  <2>1. \A b \in Agent, j \in Slot \cup {Kicker} :
          /\ call'[b][j] # Free <=> call[b][j] # Free
          /\ call'[b][j] # Free => call'[b][j].op = call[b][j].op
    BY <1>1, <1>4
  <2> QED
    BY <1>1, <2>1 DEF CallInv
<1>9. RoleInv'
  BY <1>1, <1>5 DEF RoleInv
<1>a. Taken(a, x) /\ Keeps(a) /\ a # Nobody
  BY <1>1, <1>2, NobodyAssumption DEF Taken, BallInv, x, k
<1>b. balls[x][p] = a
  BY <1>2, <1>4, <1>a DEF Keeps, Owns, p
<1>c. \A b \in Agent, y \in Scene : b # a => (Owns(b, y)' <=> Owns(b, y))
  <2>1. \A b \in Agent : b # Nobody /\ RoleOf[b] \in Role
    BY PlayerAssumption, NobodyAssumption
  <2> QED
    BY <1>5, <1>b, <2>1 DEF Owns
<1>d. BallInv'
  <2> SUFFICES ASSUME NEW b \in Agent PROVE Keeps(b)'
    BY DEF BallInv
  <2>1. CASE b = a
    <3>1. \A j \in Slot : (Granted(a, j)' <=> Granted(a, j)) /\ call'[a][j] = call[a][j]
      BY <1>3, <1>4 DEF Granted
    <3>2. \A y \in Scene : ~Taken(a, y)'
      BY <1>1, <1>2, <1>4 DEF Taken, k
    <3>3. \A j \in Slot : Granted(a, j) => call[a][j].to \in Scene /\ call[a][j].to # x
      <4>1. \A j \in Slot : Granted(a, j) => call[a][j].to # x
        BY <1>2, <1>4, <1>a DEF Keeps
      <4> QED
        BY <4>1, CallTo DEF Granted
    <3>4. \A y \in Scene : y # x /\ Owns(a, y) => Owns(a, y)'
      BY <1>3, <1>5 DEF Owns, p
    <3> QED
      BY <1>1, <1>2, <1>a, <2>1, <3>1, <3>2, <3>3, <3>4 DEF Keeps, Alive
  <2>2. CASE b # a
    BY <1>1, <1>4, <1>c, <2>2, KeepsKept DEF BallInv
  <2> QED
    BY <2>1, <2>2
<1>10. HomeInv'
  <2> SUFFICES ASSUME NEW b \in Patient PROVE AtHome(b)'
    BY DEF HomeInv
  <2>0. b \in Agent /\ b # Nobody /\ RoleOf[b] \in Role
    BY PlayerAssumption, NobodyAssumption
  <2>1. CASE b = a
    <3>1. /\ sname[a] # Nobody /\ x = sname[a] /\ \A j \in Slot : call[a][j] = Free
      BY <1>2, <2>1 DEF HomeInv, AtHome, x, k
    <3>2. \A y \in Scene : Owns(a, y) <=> Home(a, y)
      BY <1>2, <2>1 DEF HomeInv, AtHome
    <3>3. \A y \in Scene : ~Home(a, y)'
      BY <1>1, <1>2, <1>3, <1>4, <3>1 DEF Home, k
    <3>4. \A y \in Scene : ~Owns(a, y)'
      BY <1>3, <1>4, <1>5, <2>0, <2>1, <3>1, <3>2 DEF Owns, Home, p
    <3> QED
      BY <1>1, <1>2, <1>3, <1>4, <2>1, <3>1, <3>3, <3>4 DEF AtHome, Alive, k
  <2>2. CASE b # a
    BY <1>1, <1>4, <1>c, <2>0, <2>2 DEF HomeInv, AtHome, Alive, Home
  <2> QED
    BY <2>1, <2>2
<1> QED
  BY <1>1, <1>7, <1>8, <1>9, <1>d, <1>10, FoodKept

LEMMA UpdateInv ==
  ASSUME SceneInv, NEW x \in Scene, Update(x)
  PROVE  SceneInv'
<1> USE DEF SceneInv
<1> DEFINE n == food_max_id[x]
<1>1. PICK new \in {{}, {n + 1}}, eaten \in SUBSET (foods[x] \cup {n + 1}) :
        /\ eaten \subseteq foods[x] \cup new
        /\ new # {} => food_count[x] <= FoodLimit /\ n < MaxFood[x]
        /\ food_max_id' = [food_max_id EXCEPT ![x] = @ + Cardinality(new)]
        /\ food_count' = [food_count EXCEPT ![x] = @ + Cardinality(new) - Cardinality(eaten)]
        /\ foods' = [foods EXCEPT ![x] = (@ \cup new) \ eaten]
        /\ sends' = Broadcast(sends, balls[x],
                      (IF new # {} THEN <<Msg("addfood", new)>> ELSE << >>)
                        \o (IF eaten # {} THEN <<Msg("eat", eaten)>> ELSE << >>))
        /\ life' = life /\ sname' = sname /\ call' = call /\ balls' = balls /\ view' = view
  BY DEF Update, MayGrow, Counted, avars
<1>2. /\ n \in Nat /\ MaxFood[x] \in Nat /\ n <= MaxFood[x] /\ foods[x] \subseteq 1 .. n
      /\ food_count[x] = Cardinality(foods[x]) /\ food_count[x] <= FoodLimit + 1
      /\ FoodLimit \in Nat
  BY FoodAssumption DEF SceneTypeOK, FoodInv, FoodsCounted, FoodId
<1>a. /\ new = {} \/ new = {n + 1}
      /\ new # {} => food_count[x] <= FoodLimit /\ n < MaxFood[x]
      /\ eaten \subseteq foods[x] \cup new
  BY <1>1
<1> DEFINE n2 == n + Cardinality(new)
           f2 == (foods[x] \cup new) \ eaten
           c2 == food_count[x] + Cardinality(new) - Cardinality(eaten)
<1>3. /\ Cardinality(new) \in Nat /\ IsFiniteSet(new) /\ new \subseteq 1 .. n2
      /\ n2 \in Nat /\ n2 <= MaxFood[x] /\ n <= n2 /\ new \cap foods[x] = {}
      /\ new = {} => Cardinality(new) = 0
      /\ new # {} => Cardinality(new) = 1
  <2>1. CASE new = {}
    BY <1>2, <2>1, FS_EmptySet
  <2>2. CASE new = {n + 1}
    <3>1. IsFiniteSet({n + 1}) /\ Cardinality({n + 1}) = 1
      BY FS_Singleton
    <3> HIDE DEF n
    <3> QED
      BY <1>a, <1>2, <2>2, <3>1
  <2> QED
    BY <1>a, <2>1, <2>2
<1> HIDE DEF n
<1>4. IsFiniteSet(foods[x]) /\ Cardinality(foods[x]) \in Nat
  <2>0. 1 \in Int /\ n \in Int
    BY <1>2
  <2>1. IsFiniteSet(1 .. n)
    BY <2>0, FS_Interval
  <2> QED
    BY <1>2, <2>1, FS_Subset, FS_CardinalityType
<1>5. /\ IsFiniteSet(foods[x] \cup new)
      /\ Cardinality(foods[x] \cup new) = Cardinality(foods[x]) + Cardinality(new)
  <2>1. foods[x] \cap new = {} /\ Cardinality({}) = 0
    BY <1>3, FS_EmptySet
  <2>2. /\ IsFiniteSet(foods[x] \cup new)
        /\ Cardinality(foods[x] \cup new)
             = Cardinality(foods[x]) + Cardinality(new) - Cardinality(foods[x] \cap new)
    BY <1>3, <1>4, FS_Union
  <2>3. Cardinality(foods[x] \cap new) = 0
    BY <2>1
  <2> QED
    BY <1>3, <1>4, <2>2, <2>3
<1>6. /\ IsFiniteSet(eaten) /\ Cardinality(eaten) \in Nat
      /\ Cardinality(f2) = Cardinality(foods[x] \cup new) - Cardinality(eaten)
  <2>1. (foods[x] \cup new) \cap eaten = eaten
    BY <1>a
  <2>2. IsFiniteSet(eaten)
    BY <1>a, <1>5, FS_Subset
  <2> QED
    BY <1>5, <2>1, <2>2, FS_CardinalityType, FS_Difference
<1>7. c2 = Cardinality(f2) /\ c2 <= FoodLimit + 1 /\ c2 \in Int
  BY <1>a, <1>2, <1>3, <1>4, <1>5, <1>6
<1>8. f2 \subseteq 1 .. n2 /\ f2 \subseteq FoodId
  <2>1. \A i \in 1 .. MaxFood[x] : i \in FoodId
    BY DEF FoodId
  <2> QED
    BY <1>2, <1>3, <2>1
<1>9. c2 \in 0 .. n2
  <2> HIDE DEF n2
  <2>1. IsFiniteSet(1 .. n2) /\ Cardinality(1 .. n2) = n2
    BY <1>3, FS_Interval
  <2>2. Cardinality(f2) <= n2 /\ Cardinality(f2) \in Nat
    BY <1>8, <2>1, FS_Subset, FS_CardinalityType
  <2> QED
    BY <1>3, <1>7, <2>2
<1>10. c2 \in {0} \cup FoodId /\ n2 \in {0} \cup FoodId
  <2>1. \A i \in 1 .. MaxFood[x] : i \in FoodId
    BY DEF FoodId
  <2> QED
    BY <1>2, <1>3, <1>9, <2>1
<1>11. sends' \in [Agent -> Seq(Sends)]
  <2> DEFINE ms == (IF new # {} THEN <<Msg("addfood", new)>> ELSE << >>)
                     \o (IF eaten # {} THEN <<Msg("eat", eaten)>> ELSE << >>)
  <2>1. new \subseteq FoodId /\ eaten \subseteq FoodId
    <3>1. \A i \in 1 .. MaxFood[x] : i \in FoodId
      BY DEF FoodId
    <3> QED
      BY <1>a, <1>2, <1>3, <3>1
  <2>2. Msg("addfood", new) \in Sends /\ Msg("eat", eaten) \in Sends
    BY <2>1, MsgType
  <2>3. ms \in Seq(Sends)
    <3>1. /\ (IF new # {} THEN <<Msg("addfood", new)>> ELSE << >>) \in Seq(Sends)
          /\ (IF eaten # {} THEN <<Msg("eat", eaten)>> ELSE << >>) \in Seq(Sends)
      BY <2>2, ListsType
    <3> QED
      BY <3>1, ConcatProperties
  <2>4. sends \in [Agent -> Seq(Sends)] /\ sends' = Broadcast(sends, balls[x], ms)
    BY <1>1 DEF SceneTypeOK
  <2> HIDE DEF ms
  <2> QED
    BY <2>3, <2>4, SendsType
<1>12. /\ food_max_id' = [food_max_id EXCEPT ![x] = n2]
       /\ food_count' = [food_count EXCEPT ![x] = c2]
       /\ foods' = [foods EXCEPT ![x] = f2]
  BY <1>1 DEF n
<1> HIDE DEF n2, f2, c2
<1>13. SceneTypeOK'
  <2>1. /\ foods' \in [Scene -> SUBSET FoodId]
        /\ food_count' \in [Scene -> {0} \cup FoodId]
        /\ food_max_id' \in [Scene -> {0} \cup FoodId]
    BY <1>8, <1>10, <1>12 DEF SceneTypeOK
  <2>2. life' = life /\ sname' = sname /\ call' = call /\ balls' = balls /\ view' = view
    BY <1>1
  <2> QED
    BY <1>11, <2>1, <2>2 DEF SceneTypeOK
<1>14. FoodInv'
  <2>1. SUFFICES ASSUME NEW y \in Scene
                 PROVE  /\ food_max_id'[y] <= MaxFood[y] /\ foods'[y] \subseteq 1 .. food_max_id'[y]
                        /\ food_count'[y] = Cardinality(foods'[y]) /\ food_count'[y] <= FoodLimit + 1
    BY DEF FoodInv, FoodsCounted
  <2>2. CASE y = x
    BY <1>3, <1>7, <1>8, <1>12, <2>2 DEF SceneTypeOK
  <2>3. CASE y # x
    BY <1>12, <2>3 DEF SceneTypeOK, FoodInv, FoodsCounted
  <2> QED
    BY <2>2, <2>3
<1>15. CallInv' /\ BallInv' /\ HomeInv'
  BY <1>1, BallKept DEF CallInv, HomeInv, AtHome, Alive, Owns, Home
<1> QED
  BY <1>1, <1>13, <1>14, <1>15, RoleKept

-----------------------------------------------------------------------------

LEMMA SceneInvInit == SceneInit => SceneInv
<1> SUFFICES ASSUME SceneInit PROVE SceneInv
  OBVIOUS
<1> USE DEF SceneInit
<1>1. /\ life \in [Agent -> {"none", "gone"}]
      /\ \A a \in Agent : \A k \in Slot \cup {Kicker} : call[a][k] = Free
      /\ \A x \in Scene : \A p \in Role : balls[x][p] = Nobody
  OBVIOUS
<1>2. << >> \in Seq(Sends) /\ NoView \in [balls : SUBSET Role, foods : SUBSET FoodId, odd : BOOLEAN]
  BY EmptySeq DEF NoView
<1>3. SceneTypeOK
  BY <1>1, <1>2 DEF SceneTypeOK
<1>4. CallInv
  BY <1>1 DEF CallInv
<1>5. RoleInv /\ BallInv
  BY <1>1 DEF RoleInv, BallInv, Keeps, Alive
<1>6. HomeInv
  BY <1>1, PlayerAssumption, NobodyAssumption DEF HomeInv, AtHome, Alive, Owns
<1>7. FoodInv
  BY FS_EmptySet, FoodAssumption DEF FoodInv, FoodsCounted
<1> QED
  BY <1>3, <1>4, <1>5, <1>6, <1>7 DEF SceneInv

LEMMA SceneInvStep == SceneInv /\ [SceneNext]_scenevars => SceneInv'
<1> SUFFICES ASSUME SceneInv, [SceneNext]_scenevars PROVE SceneInv'
  OBVIOUS
<1>1. ASSUME NEW a \in Agent, Login(a) \/ KickAgent(a) \/ Saved(a) \/ Exit(a) \/ Forward(a) PROVE SceneInv'
  BY <1>1, LoginInv, KickInv, SavedInv, ExitInv, ForwardInv
<1>2. ASSUME NEW a \in Agent, NEW k \in Slot, HandleEnter(a, k) PROVE SceneInv'
  BY <1>2, HandleEnterInv
<1>3. ASSUME NEW a \in Agent, NEW k \in Slot, NEW x \in Scene, Enter(a, k, x) PROVE SceneInv'
  BY <1>3, EnterInv
<1>4. ASSUME NEW a \in Agent, NEW k \in Slot \cup {Kicker}, ResumeCall(a, k) PROVE SceneInv'
  BY <1>4, ResumeInv
<1>5. ASSUME NEW a \in Agent, HandleLeave(a, Kicker) PROVE SceneInv'
  BY <1>5, HandleLeaveInv
<1>6. ASSUME NEW x \in Scene, Update(x) PROVE SceneInv'
  BY <1>6, UpdateInv
<1>7. CASE UNCHANGED scenevars
  <2>1. /\ life' = life /\ sname' = sname /\ call' = call /\ balls' = balls
        /\ foods' = foods /\ food_count' = food_count /\ food_max_id' = food_max_id
        /\ sends' = sends /\ view' = view
    BY <1>7 DEF scenevars, avars, svars, clvars
  <2>2. SceneTypeOK'
    BY <2>1 DEF SceneInv, SceneTypeOK
  <2>3. CallInv' /\ BallInv' /\ HomeInv'
    BY <2>1, BallKept DEF SceneInv, CallInv, HomeInv, AtHome, Home, Owns, Alive
  <2> QED
    BY <2>1, <2>2, <2>3, FoodKept, RoleKept DEF SceneInv
<1> QED
  BY <1>1, <1>2, <1>3, <1>4, <1>5, <1>6, <1>7 DEF SceneNext

LEMMA SceneInvariant == SceneSpec => []SceneInv
BY SceneInvInit, SceneInvStep, PTL DEF SceneSpec

(* The types of the scenes and of the agents in them.                      *)
THEOREM SceneTypeCorrect == SceneSpec => []SceneTypeOK
<1>1. SceneInv => SceneTypeOK
  BY DEF SceneInv
<1> QED
  BY <1>1, SceneInvariant, PTL

(* food_count is the number of the foods of a scene (food_update and       *)
(* eat_update of service/scene).                                           *)
THEOREM FoodsCountedAlways == SceneSpec => []FoodsCounted
<1>1. SceneInv => FoodsCounted
  BY DEF SceneInv, FoodInv
<1> QED
  BY <1>1, SceneInvariant, PTL

(* It goes one beyond the limit that FoodsLimited takes from the comment,  *)
(* and no further.                                                         *)
THEOREM FoodsBounded == SceneSpec => [](\A x \in Scene : food_count[x] <= FoodLimit + 1)
<1>1. SceneInv => \A x \in Scene : food_count[x] <= FoodLimit + 1
  BY DEF SceneInv, FoodInv
<1> QED
  BY <1>1, SceneInvariant, PTL

(* Every agent has its ball in the scene it takes itself to be in, however *)
(* its enters, its kick, the handlers of the scenes and another agent of   *)
(* its player overlap, and one whose client waits for answers has a ball   *)
(* in no other scene (agent/scene.lua, scene/init.lua).                    *)
THEOREM ScenesAgreeAlways == SceneSpec => []ScenesAgree
<1>1. SceneInv => ScenesAgree
  <2> SUFFICES ASSUME SceneInv, NEW a \in Agent, NEW x \in Scene,
                      Alive(a), life[a] # "leaving"
               PROVE  /\ sname[a] = x => Owns(a, x)
                      /\ a \in Patient /\ ~Waits(a, "enter") /\ Owns(a, x) => sname[a] = x
    BY DEF ScenesAgree
  <2>1. sname[a] = x => Owns(a, x)
    BY DEF SceneInv, BallInv, Keeps, Taken
  <2>2. ASSUME a \in Patient, ~Waits(a, "enter"), Owns(a, x) PROVE sname[a] = x
    <3>1. \A k \in Slot : call[a][k] = Free
      BY <2>2 DEF SceneInv, CallInv, Waits
    <3>2. Home(a, x)
      BY <2>2 DEF SceneInv, HomeInv, AtHome
    <3> QED
      BY <3>1, <3>2 DEF Home
  <2> QED
    BY <2>1, <2>2
<1> QED
  BY <1>1, SceneInvariant, PTL

-----------------------------------------------------------------------------
(* What an agent will have passed on: FoldLeft, a message after the other *)

(* Induction, as a property of sets of numbers.                            *)
LEMMA SetInduction ==
  ASSUME NEW S \in SUBSET Nat, 0 \in S, \A n \in S : n + 1 \in S
  PROVE  S = Nat
<1> SUFFICES ASSUME NEW m \in Nat, m \notin S PROVE FALSE
  OBVIOUS
<1> DEFINE U == 0 .. m
           T == {0 .. n : n \in U \ S}
<1>1. IsFiniteSet(U)
  BY FS_Interval
<1>2. IsWellFoundedOn(StrictSubsetOrdering(U), FiniteSubsetsOf(U))
  BY FS_StrictSubsetOrderingWellFounded
<1>3. FiniteSubsetsOf(U) = SUBSET U
  BY <1>1, FS_FiniteSubsetsOfFinite
<1>4. T \subseteq SUBSET U /\ T # {}
  OBVIOUS
<1>5. \E x \in T : \A y \in T : ~ (<<y, x>> \in StrictSubsetOrdering(U))
  <2> HIDE DEF T, U
  <2> QED
    BY <1>2, <1>3, <1>4, WFMin
<1>6. PICK x \in T : \A y \in T : ~ (<<y, x>> \in StrictSubsetOrdering(U))
  BY <1>5
<1>7. PICK n \in U \ S : x = 0 .. n
  BY <1>6
<1>8. n \in Nat /\ n # 0 /\ n - 1 \in U
  BY <1>7
<1>9. n - 1 \notin S
  BY <1>7, <1>8
<1>10. 0 .. n - 1 \in T
  BY <1>8, <1>9
<1>11. <<0 .. n - 1, 0 .. n>> \in StrictSubsetOrdering(U)
  BY <1>7, <1>8 DEF StrictSubsetOrdering
<1> QED
  BY <1>6, <1>7, <1>10, <1>11

(* FoldLeft folds over sets of places, the last place outermost.           *)
Folds(g, v, q, D) ==
  g = [s \in SUBSET D |-> IF s = {} THEN v ELSE Told(g[s \ {Max(s)}], q[Max(s)])]
Folding(v, q, D) == CHOOSE g : Folds(g, v, q, D)
Will(v, q) == FoldLeft(Told, v, q)

LEMMA FoldMeans ==
  ASSUME NEW v, NEW q
  PROVE  Will(v, q) = Folding(v, q, DOMAIN q)[DOMAIN q]
BY DEF Will, FoldLeft, MapThenFoldSet, Folding, Folds

LEMMA FoldExists ==
  ASSUME NEW v, NEW q, NEW n \in Nat
  PROVE  Folds(Folding(v, q, 1 .. n), v, q, 1 .. n)
<1> DEFINE S == {k \in Nat : \E g : Folds(g, v, q, 1 .. k)}
<1>1. 0 \in S
  <2> DEFINE g == [s \in SUBSET (1 .. 0) |-> v]
  <2>1. \A s \in SUBSET (1 .. 0) : s = {}
    OBVIOUS
  <2>2. Folds(g, v, q, 1 .. 0)
    BY <2>1 DEF Folds
  <2> QED
    BY <2>2
<1>2. ASSUME NEW k \in S PROVE k + 1 \in S
  <2>1. PICK g : Folds(g, v, q, 1 .. k)
    BY <1>2
  <2> DEFINE D == 1 .. (k + 1)
             h == [s \in SUBSET D |-> IF k + 1 \in s THEN Told(g[s \ {k + 1}], q[k + 1]) ELSE g[s]]
  <2>2. ASSUME NEW s \in SUBSET D
        PROVE  h[s] = IF s = {} THEN v ELSE Told(h[s \ {Max(s)}], q[Max(s)])
    <3>1. CASE k + 1 \in s
      <4>1. Max(s) = k + 1
        <5>1. \A y \in s : k + 1 >= y
          OBVIOUS
        <5>2. \A z \in s : (\A y \in s : z >= y) => z = k + 1
          BY <3>1
        <5> QED
          BY <3>1, <5>1, <5>2 DEF Max
      <4>2. s \ {k + 1} \in SUBSET D /\ k + 1 \notin s \ {k + 1}
        OBVIOUS
      <4>3. h[s \ {k + 1}] = g[s \ {k + 1}] /\ h[s] = Told(g[s \ {k + 1}], q[k + 1])
        BY <3>1, <4>2
      <4> HIDE DEF h
      <4> QED
        BY <3>1, <4>1, <4>3
    <3>2. CASE k + 1 \notin s
      <4>1. s \in SUBSET (1 .. k) /\ s \ {Max(s)} \in SUBSET D /\ k + 1 \notin s \ {Max(s)}
        <5>1. k \in Nat
          OBVIOUS
        <5>2. \A y \in s : y \in 1 .. k
          <6> HIDE DEF S, h
          <6> QED
            BY <3>2, <5>1
        <5> QED
          BY <3>2, <5>2
      <4>2. h[s] = g[s] /\ h[s \ {Max(s)}] = g[s \ {Max(s)}]
        BY <3>2, <4>1
      <4>3. g[s] = IF s = {} THEN v ELSE Told(g[s \ {Max(s)}], q[Max(s)])
        BY <2>1, <4>1 DEF Folds
      <4> HIDE DEF h
      <4> QED
        BY <4>2, <4>3
    <3> QED
      BY <3>1, <3>2
  <2>3. Folds(h, v, q, D)
    <3> DEFINE e == [s \in SUBSET D |-> IF s = {} THEN v ELSE Told(h[s \ {Max(s)}], q[Max(s)])]
    <3>1. \A s \in SUBSET D : h[s] = e[s]
      BY <2>2
    <3>2. h = [s \in SUBSET D |-> h[s]] /\ e = [s \in SUBSET D |-> e[s]]
      OBVIOUS
    <3> HIDE DEF h
    <3>3. e = h
      BY <3>1, <3>2
    <3> QED
      BY <3>3 DEF Folds
  <2>4. k + 1 \in Nat
    OBVIOUS
  <2> HIDE DEF h
  <2> QED
    BY <2>3, <2>4
<1>3. S = Nat
  <2> HIDE DEF S
  <2>1. S \in SUBSET Nat
    BY DEF S
  <2> QED
    BY <1>1, <1>2, <2>1, SetInduction
<1>4. \E g : Folds(g, v, q, 1 .. n)
  BY <1>3
<1> QED
  BY <1>4 DEF Folding

(* The fold of the first k of a sequence.                                  *)
FirstOnes(g, v, q, n) ==
  /\ g[1 .. 0] = v
  /\ \A k \in 0 .. n - 1 : g[1 .. (k + 1)] = Told(g[1 .. k], q[k + 1])

LEMMA FoldFirst ==
  ASSUME NEW v, NEW q, NEW n \in Nat, NEW g, Folds(g, v, q, 1 .. n)
  PROVE  FirstOnes(g, v, q, n)
<1>1. g[1 .. 0] = v
  <2>1. 1 .. 0 = {} /\ 1 .. 0 \in SUBSET (1 .. n)
    OBVIOUS
  <2> QED
    BY <2>1 DEF Folds
<1>2. ASSUME NEW k \in 0 .. n - 1 PROVE g[1 .. (k + 1)] = Told(g[1 .. k], q[k + 1])
  <2> DEFINE s == 1 .. (k + 1)
  <2>1. s \in SUBSET (1 .. n) /\ s # {} /\ k + 1 \in s /\ k \in Nat
    <3>1. k \in Nat /\ k + 1 <= n
      OBVIOUS
    <3>2. k + 1 \in s
      BY <3>1
    <3>3. \A y \in s : y \in 1 .. n
      BY <3>1
    <3> QED
      BY <3>1, <3>2, <3>3
  <2>2. Max(s) = k + 1
    <3>1. \A y \in s : k + 1 >= y
      OBVIOUS
    <3>2. \A z \in s : (\A y \in s : z >= y) => z = k + 1
      BY <2>1
    <3> QED
      BY <2>1, <3>1, <3>2 DEF Max
  <2>3. s \ {k + 1} = 1 .. k
    BY <2>1
  <2>4. g[s] = Told(g[s \ {Max(s)}], q[Max(s)])
    <3> HIDE DEF s
    <3> QED
      BY <2>1 DEF Folds
  <2> QED
    BY <2>2, <2>3, <2>4
<1> QED
  BY <1>1, <1>2 DEF FirstOnes

(* So it is a function of the places.                                      *)
LEMMA WillSteps ==
  ASSUME NEW v, NEW X, NEW q \in Seq(X)
  PROVE  \E f : /\ f[0] = v
                /\ \A k \in 0 .. Len(q) - 1 : f[k + 1] = Told(f[k], q[k + 1])
                /\ f[Len(q)] = Will(v, q)
<1> DEFINE n == Len(q)
           g == Folding(v, q, 1 .. n)
           f == [k \in 0 .. n |-> g[1 .. k]]
<1>1. n \in Nat /\ DOMAIN q = 1 .. n
  BY LenProperties
<1>2. Will(v, q) = g[1 .. n]
  BY <1>1, FoldMeans
<1>3. Folds(g, v, q, 1 .. n)
  BY <1>1, FoldExists
<1> HIDE DEF g, n
<1>4. /\ g[1 .. 0] = v
      /\ \A k \in 0 .. n - 1 : g[1 .. (k + 1)] = Told(g[1 .. k], q[k + 1])
  <2>1. FirstOnes(g, v, q, n)
    BY <1>1, <1>3, FoldFirst
  <2> QED
    BY <2>1 DEF FirstOnes
<1>5. f[0] = v /\ f[n] = Will(v, q)
  BY <1>1, <1>2, <1>4
<1>6. ASSUME NEW k \in 0 .. n - 1 PROVE f[k + 1] = Told(f[k], q[k + 1])
  <2>1. k \in 0 .. n /\ k + 1 \in 0 .. n
    BY <1>1
  <2>2. f[k] = g[1 .. k] /\ f[k + 1] = g[1 .. (k + 1)]
    BY <2>1
  <2> QED
    BY <1>4, <2>2
<1> QED
  BY <1>5, <1>6 DEF n

(* Two sequences that agree from a place on are read alike.                *)
Reads(f, q, n)       == \A k \in 0 .. n - 1 : f[k + 1] = Told(f[k], q[k + 1])
ReadsFrom(h, r, d, n) == \A k \in 0 .. n - 1 : h[k + d + 1] = Told(h[k + d], r[k + d + 1])
Alike(q, r, d, n)    == \A k \in 0 .. n - 1 : q[k + 1] = r[k + d + 1]

LEMMA StepsAgree ==
  ASSUME NEW n \in Nat, NEW f, NEW h, NEW q, NEW r, NEW d \in Nat,
         f[0] = h[d], Reads(f, q, n), ReadsFrom(h, r, d, n), Alike(q, r, d, n)
  PROVE  f[n] = h[n + d]
<1> USE DEF Reads, ReadsFrom, Alike
<1> DEFINE S == {k \in Nat : k <= n => f[k] = h[k + d]}
<1>1. 0 \in S
  OBVIOUS
<1>2. ASSUME NEW k \in S PROVE k + 1 \in S
  <2>1. k \in Nat /\ k + 1 \in Nat
    OBVIOUS
  <2>2. ASSUME k + 1 <= n PROVE f[k + 1] = h[(k + 1) + d]
    <3>1. k \in 0 .. n - 1 /\ k <= n /\ (k + 1) + d = k + d + 1
      BY <2>1, <2>2
    <3>2. f[k] = h[k + d]
      BY <3>1
    <3> QED
      BY <3>1, <3>2
  <2> QED
    BY <2>1, <2>2
<1>3. S = Nat
  <2> HIDE DEF S
  <2>1. S \in SUBSET Nat
    BY DEF S
  <2> QED
    BY <1>1, <1>2, <2>1, SetInduction
<1> QED
  BY <1>3

LEMMA WillEmpty == \A v : Will(v, << >>) = v
<1> SUFFICES ASSUME NEW v PROVE Will(v, << >>) = v
  OBVIOUS
<1> DEFINE q == << >>
<1>1. q \in Seq({})
  BY EmptySeq
<1>2. Len(q) = 0
  OBVIOUS
<1> HIDE DEF q
<1>3. PICK f : /\ f[0] = v
               /\ \A k \in 0 .. Len(q) - 1 : f[k + 1] = Told(f[k], q[k + 1])
               /\ f[Len(q)] = Will(v, q)
  BY <1>1, WillSteps
<1>4. Will(v, q) = f[0]
  BY <1>2, <1>3
<1> QED
  BY <1>3, <1>4 DEF q

LEMMA WillAppend ==
  ASSUME NEW v, NEW X, NEW q \in Seq(X), NEW m \in X
  PROVE  Will(v, Append(q, m)) = Told(Will(v, q), m)
<1> DEFINE n == Len(q)
           r == Append(q, m)
<1>1. r \in Seq(X) /\ Len(r) = n + 1 /\ n \in Nat /\ r[n + 1] = m
      /\ \A k \in 0 .. n - 1 : q[k + 1] = r[k + 1]
  BY AppendProperties, LenProperties
<1> HIDE DEF r
<1>2. PICK f : /\ f[0] = v
               /\ \A k \in 0 .. n - 1 : f[k + 1] = Told(f[k], q[k + 1])
               /\ f[n] = Will(v, q)
  BY WillSteps
<1>3. PICK h : /\ h[0] = v
               /\ \A k \in 0 .. Len(r) - 1 : h[k + 1] = Told(h[k], r[k + 1])
               /\ h[Len(r)] = Will(v, r)
  BY <1>1, WillSteps
<1> HIDE DEF n
<1>4. /\ n \in 0 .. Len(r) - 1 /\ f[0] = h[0]
      /\ Reads(f, q, n) /\ ReadsFrom(h, r, 0, n) /\ Alike(q, r, 0, n)
  BY <1>1, <1>2, <1>3 DEF Reads, ReadsFrom, Alike
<1>5. f[n] = h[n + 0]
  BY <1>1, <1>2, <1>4, StepsAgree
<1>6. h[n + 1] = Told(h[n], r[n + 1])
  BY <1>3, <1>4
<1> QED
  BY <1>1, <1>2, <1>3, <1>5, <1>6 DEF r

LEMMA WillTail ==
  ASSUME NEW v, NEW X, NEW q \in Seq(X), q # << >>
  PROVE  Will(Told(v, Head(q)), Tail(q)) = Will(v, q)
<1> DEFINE n == Len(Tail(q))
           r == Tail(q)
<1>1. /\ r \in Seq(X) /\ Len(q) = n + 1 /\ n \in Nat /\ Head(q) = q[1]
      /\ \A k \in 0 .. n - 1 : r[k + 1] = q[k + 1 + 1]
  BY HeadTailProperties, LenProperties
<1>2. PICK f : /\ f[0] = Told(v, Head(q))
               /\ \A k \in 0 .. Len(r) - 1 : f[k + 1] = Told(f[k], r[k + 1])
               /\ f[Len(r)] = Will(Told(v, Head(q)), r)
  BY <1>1, WillSteps
<1>3. PICK h : /\ h[0] = v
               /\ \A k \in 0 .. Len(q) - 1 : h[k + 1] = Told(h[k], q[k + 1])
               /\ h[Len(q)] = Will(v, q)
  BY WillSteps
<1>4. Len(r) = n
  OBVIOUS
<1> HIDE DEF n, r
<1>5. f[0] = h[1]
  <2>1. 0 \in 0 .. Len(q) - 1
    BY <1>1
  <2> QED
    BY <1>1, <1>2, <1>3, <2>1
<1>6. Reads(f, r, n) /\ ReadsFrom(h, q, 1, n) /\ Alike(r, q, 1, n)
  BY <1>1, <1>2, <1>3, <1>4 DEF Reads, ReadsFrom, Alike
<1>7. f[n] = h[n + 1]
  <2> DEFINE d == 1
  <2>1. /\ n \in Nat /\ d \in Nat /\ f[0] = h[d]
        /\ Reads(f, r, n) /\ ReadsFrom(h, q, d, n) /\ Alike(r, q, d, n)
    BY <1>1, <1>5, <1>6
  <2>2. f[n] = h[n + d]
    <3> HIDE DEF d
    <3> QED
      BY <2>1, StepsAgree
  <2> QED
    BY <2>2
<1> QED
  BY <1>1, <1>2, <1>3, <1>4, <1>7 DEF r

LEMMA WillType ==
  ASSUME NEW v \in Views, NEW q \in Seq(Sends)
  PROVE  Will(v, q) \in Views
<1> DEFINE n == Len(q)
<1>1. PICK f : /\ f[0] = v
               /\ \A k \in 0 .. n - 1 : f[k + 1] = Told(f[k], q[k + 1])
               /\ f[n] = Will(v, q)
  BY WillSteps
<1>2. n \in Nat /\ \A k \in 0 .. n - 1 : q[k + 1] \in Sends
  BY LenProperties, ElementOfSeq
<1> HIDE DEF n
<1> DEFINE S == {k \in Nat : k <= n => f[k] \in Views}
<1>3. 0 \in S
  BY <1>1
<1>4. ASSUME NEW k \in S PROVE k + 1 \in S
  <2>1. k \in Nat /\ k + 1 \in Nat
    OBVIOUS
  <2>2. ASSUME k + 1 <= n PROVE f[k + 1] \in Views
    <3>1. k \in 0 .. n - 1 /\ k <= n
      BY <1>2, <2>1, <2>2
    <3>2. f[k] \in Views /\ q[k + 1] \in Sends
      BY <1>2, <3>1
    <3>3. f[k + 1] = Told(f[k], q[k + 1])
      BY <1>1, <3>1
    <3> QED
      BY <3>2, <3>3, ToldType
  <2> QED
    BY <2>1, <2>2
<1>5. S = Nat
  <2> HIDE DEF S
  <2>1. S \in SUBSET Nat
    BY DEF S
  <2> QED
    BY <1>3, <1>4, <2>1, SetInduction
<1> QED
  BY <1>1, <1>2, <1>5

LEMMA WillOne ==
  ASSUME NEW v, NEW q \in Seq(Sends), NEW m \in Sends
  PROVE  Will(v, q \o <<m>>) = Told(Will(v, q), m) /\ q \o <<m>> \in Seq(Sends)
<1>1. Append(q, m) = q \o <<m>> /\ Append(q, m) \in Seq(Sends)
  BY AppendIsConcat, AppendProperties
<1>2. Will(v, Append(q, m)) = Told(Will(v, q), m)
  BY WillAppend
<1> QED
  BY <1>1, <1>2

LEMMA WillTwo ==
  ASSUME NEW v, NEW q \in Seq(Sends), NEW m \in Sends, NEW n \in Sends
  PROVE  Will(v, q \o <<m, n>>) = Told(Told(Will(v, q), m), n)
<1>1. q \o <<m, n>> = (q \o <<m>>) \o <<n>>
  <2>1. <<m>> \in Seq(Sends) /\ <<n>> \in Seq(Sends) /\ <<m, n>> \in Seq(Sends)
    OBVIOUS
  <2>2. <<m, n>> = <<m>> \o <<n>>
    <3> DEFINE one == <<m>> \o <<n>>
    <3>1. one \in Seq(Sends) /\ Len(one) = 2 /\ one[1] = m /\ one[2] = n
      BY <2>1, ConcatProperties
    <3> HIDE DEF one
    <3>2. \A i \in 1 .. 2 : <<m, n>>[i] = one[i]
      BY <3>1
    <3>3. <<m, n>> = one
      BY <2>1, <3>1, <3>2, SeqEqual
    <3> QED
      BY <3>3 DEF one
  <2> QED
    BY <2>1, <2>2, ConcatAssociative
<1> DEFINE r == q \o <<m>>
<1>2. r \in Seq(Sends) /\ Will(v, r) = Told(Will(v, q), m)
  BY WillOne
<1>3. Will(v, r \o <<n>>) = Told(Will(v, r), n)
  <2> HIDE DEF r
  <2> QED
    BY <1>2, WillOne
<1> QED
  BY <1>1, <1>2, <1>3

(* What a client has been told: the balls and the foods, each once. *)
Seen(b, f) == [balls |-> b, foods |-> f, odd |-> FALSE]

(* A message that is sent only when there is something to say. *)
LEMMA WillGrow ==
  ASSUME NEW v, NEW q \in Seq(Sends), NEW b, NEW f, Will(v, q) = Seen(b, f),
         NEW new \in SUBSET FoodId, f \cap new = {}
  PROVE  LET r == q \o (IF new # {} THEN <<Msg("addfood", new)>> ELSE << >>)
         IN  Will(v, r) = Seen(b, f \cup new) /\ r \in Seq(Sends)
<1>1. CASE new # {}
  <2> DEFINE m == Msg("addfood", new)
  <2>1. m \in Sends
    BY MsgType
  <2>2. Told(Seen(b, f), m) = Seen(b, f \cup new)
    BY DEF Told, Seen, Msg
  <2> HIDE DEF m
  <2>3. Will(v, q \o <<m>>) = Told(Will(v, q), m) /\ q \o <<m>> \in Seq(Sends)
    BY <2>1, WillOne
  <2> QED
    BY <1>1, <2>2, <2>3 DEF m
<1>2. CASE new = {}
  <2>1. q \o << >> = q /\ f \cup new = f \cup {}
    BY <1>2, ConcatEmptySeq
  <2>2. Seen(b, f \cup {}) = Seen(b, f)
    BY DEF Seen
  <2> QED
    BY <1>2, <2>1, <2>2
<1> QED
  BY <1>1, <1>2

LEMMA WillShrink ==
  ASSUME NEW v, NEW q \in Seq(Sends), NEW b, NEW f \in SUBSET FoodId, Will(v, q) = Seen(b, f),
         NEW eaten \in SUBSET FoodId, eaten \subseteq f
  PROVE  Will(v, q \o (IF eaten # {} THEN <<Msg("eat", eaten)>> ELSE << >>)) = Seen(b, f \ eaten)
<1>1. CASE eaten # {}
  <2> DEFINE m == Msg("eat", eaten)
  <2>1. m \in Sends
    BY MsgType
  <2>2. Told(Seen(b, f), m) = Seen(b, f \ eaten)
    BY DEF Told, Seen, Msg
  <2> HIDE DEF m
  <2>3. Will(v, q \o <<m>>) = Told(Will(v, q), m)
    BY <2>1, WillOne
  <2> QED
    BY <1>1, <2>2, <2>3 DEF m
<1>2. CASE eaten = {}
  <2>1. q \o << >> = q /\ f \ eaten = f
    BY <1>2, ConcatEmptySeq
  <2> QED
    BY <1>2, <2>1
<1> QED
  BY <1>1, <1>2

-----------------------------------------------------------------------------
(* What an agent tells its client *)

Knows(a, x) == Will(view[a], sends[a]) = Seen(InScene(balls[x]), foods[x])

LEMMA KnowsAll ==
  AgentTells <=> \A a \in Patient, x \in Scene : Alive(a) /\ Owns(a, x) => Knows(a, x)
BY DEF AgentTells, Knows, Will, Seen

LEMMA KnowsAllNext ==
  AgentTells' <=> \A a \in Patient, x \in Scene : (Alive(a) /\ Owns(a, x))' => Knows(a, x)'
BY DEF AgentTells, Knows, Will, Seen

(* Nothing is told twice, wherever the agent is: the lists that come when  *)
(* it enters leave what was told as it was.                                *)
Calm(a) == ~Will(view[a], sends[a]).odd
Telling == AgentTells /\ \A a \in Patient : Calm(a)

LEMMA KnowsCalm ==
  /\ \A a, x : Knows(a, x) => Calm(a)
  /\ \A a, x : Knows(a, x)' => Calm(a)'
BY DEF Knows, Calm, Seen

(* A patient agent has its ball in one scene. *)
LEMMA OneScene ==
  ASSUME SceneInv, NEW a \in Patient, Alive(a),
         NEW x \in Scene, NEW y \in Scene, Owns(a, x), Owns(a, y)
  PROVE  x = y
<1>1. Home(a, x) /\ Home(a, y)
  BY DEF SceneInv, HomeInv, AtHome
<1>2. /\ \A j, k \in Slot : call[a][j] # Free /\ call[a][k] # Free => j = k
      /\ \A k \in Slot : call[a][k] # Free => sname[a] = Nobody
  BY DEF SceneInv, HomeInv, AtHome
<1>3. x # Nobody /\ y # Nobody
  BY NobodyAssumption
<1> QED
  BY <1>1, <1>2, <1>3 DEF Home

(* A broadcast reaches an agent through the ball of its player.            *)
LEMMA Reached ==
  ASSUME NEW b \in [Role -> Agent \cup {Nobody}],
         \A p \in Role : b[p] # Nobody => RoleOf[b[p]] = p,
         NEW a \in Agent, NEW s, NEW ms
  PROVE  Broadcast(s, b, ms)[a] = IF Alive(a) /\ b[RoleOf[a]] = a THEN s[a] \o ms ELSE s[a]
<1>1. a # Nobody /\ RoleOf[a] \in Role
  BY PlayerAssumption, NobodyAssumption
<1>2. (\E p \in Role : b[p] = a) <=> b[RoleOf[a]] = a
  BY <1>1
<1> QED
  BY <1>2 DEF Broadcast

(* A step that leaves what an agent knows and where it is alone.           *)
LEMMA KnowsKept ==
  ASSUME Telling, NEW a \in Patient, NEW x \in Scene,
         Alive(a), Owns(a, x), view'[a] = view[a], sends'[a] = sends[a],
         InScene(balls'[x]) = InScene(balls[x]), foods'[x] = foods[x]
  PROVE  Knows(a, x)'
<1>1. Knows(a, x)
  BY KnowsAll DEF Telling
<1> QED
  BY <1>1 DEF Knows

(* An agent that is told nothing stays calm, and so does one that has a    *)
(* ball somewhere, as it tells what is so.                                 *)
LEMMA StaysCalm ==
  ASSUME Telling, AgentTells', NEW a \in Patient,
         \/ view'[a] = view[a] /\ sends'[a] = sends[a]
         \/ \E x \in Scene : (Alive(a) /\ Owns(a, x))'
  PROVE  Calm(a)'
<1>1. CASE view'[a] = view[a] /\ sends'[a] = sends[a]
  BY <1>1 DEF Telling, Calm
<1>2. CASE \E x \in Scene : (Alive(a) /\ Owns(a, x))'
  <2>1. PICK x \in Scene : (Alive(a) /\ Owns(a, x))'
    BY <1>2
  <2>2. Knows(a, x)'
    BY <2>1, KnowsAllNext
  <2> QED
    BY <2>2, KnowsCalm
<1> QED
  BY <1>1, <1>2

(* A broadcast to the balls of a scene passes by the other agents.         *)
LEMMA PassedBy ==
  ASSUME NEW b \in [Role -> Agent \cup {Nobody}],
         \A p \in Role : b[p] # Nobody => RoleOf[b[p]] = p,
         NEW a \in Agent, NEW s, NEW ms, ~Alive(a) \/ b[RoleOf[a]] # a
  PROVE  Broadcast(s, b, ms)[a] = s[a]
BY Reached

LEMMA AgentKnows ==
  ASSUME SceneInv, Telling, NEW b \in Agent,
         \/ Login(b) \/ KickAgent(b) \/ Saved(b) \/ Exit(b)
         \/ \E k \in Slot, x \in Scene : Enter(b, k, x)
         \/ \E k \in Slot \cup {Kicker} : ResumeCall(b, k)
  PROVE  AgentTells'
<1> SUFFICES ASSUME NEW a \in Patient, NEW x \in Scene, (Alive(a) /\ Owns(a, x))'
             PROVE  Knows(a, x)'
  BY KnowsAllNext
<1>1. a \in Agent /\ SceneTypeOK
  BY PlayerAssumption DEF SceneInv
<1>2. balls' = balls /\ foods' = foods /\ Owns(a, x)
  BY DEF Login, KickAgent, Saved, Exit, Enter, ResumeCall, svars, Owns
<1>3. CASE Login(b)
  <2>1. life[b] = "none" /\ life' = [life EXCEPT ![b] = "on"] /\ view' = view /\ sends' = sends
    BY <1>3 DEF Login, clvars
  <2>2. a # b
    BY <1>2, <2>1 DEF SceneInv, HomeInv, AtHome
  <2>3. Alive(a)
    BY <1>1, <2>1, <2>2 DEF Alive, SceneTypeOK
  <2> QED
    BY <1>2, <2>1, <2>3, KnowsKept
<1>4. CASE KickAgent(b) \/ Saved(b) \/ \E k \in Slot, y \in Scene : Enter(b, k, y)
  <2>1. view' = view /\ sends' = sends
    BY <1>4 DEF KickAgent, Saved, Enter, clvars
  <2>2. Alive(a)
    BY <1>1, <1>4 DEF KickAgent, Saved, Enter, Alive, SceneTypeOK
  <2> QED
    BY <1>2, <2>1, <2>2, KnowsKept
<1>5. CASE \E k \in Slot \cup {Kicker} : ResumeCall(b, k)
  <2>1. PICK k \in Slot \cup {Kicker} : ResumeCall(b, k)
    BY <1>5
  <2>2. /\ view' = view /\ sends' = sends /\ Alive(b)
        /\ \E w : life' = [life EXCEPT ![b] = w]
    BY <2>1 DEF ResumeCall, clvars
  <2>3. Alive(a)
    BY <1>1, <2>2 DEF Alive, SceneTypeOK
  <2> QED
    BY <1>2, <2>2, <2>3, KnowsKept
<1>6. CASE Exit(b)
  <2>1. /\ life' = [life EXCEPT ![b] = "gone"] /\ life[b] = "saved"
        /\ sends' = [sends EXCEPT ![b] = << >>] /\ view' = [view EXCEPT ![b] = NoView]
    BY <1>6 DEF Exit
  <2>2. a # b
    BY <1>1, <2>1 DEF Alive, SceneTypeOK
  <2>3. Alive(a) /\ view'[a] = view[a] /\ sends'[a] = sends[a]
    BY <1>1, <2>1, <2>2 DEF Alive, SceneTypeOK
  <2> QED
    BY <1>2, <2>3, KnowsKept
<1> QED
  BY <1>3, <1>4, <1>5, <1>6

LEMMA AgentCalm ==
  ASSUME SceneInv, Telling, NEW b \in Agent,
         \/ Login(b) \/ KickAgent(b) \/ Saved(b) \/ Exit(b)
         \/ \E k \in Slot, x \in Scene : Enter(b, k, x)
         \/ \E k \in Slot \cup {Kicker} : ResumeCall(b, k),
         NEW a \in Patient
  PROVE  Calm(a)'
<1>1. AgentTells' /\ a \in Agent /\ SceneTypeOK
  BY AgentKnows, PlayerAssumption DEF SceneInv
<1>2. CASE ~Exit(b)
  <2>1. view' = view /\ sends' = sends
    BY <1>2 DEF Login, KickAgent, Saved, Enter, ResumeCall, clvars
  <2> QED
    BY <1>1, <2>1, StaysCalm
<1>3. CASE Exit(b)
  <2>1. sends' = [sends EXCEPT ![b] = << >>] /\ view' = [view EXCEPT ![b] = NoView]
    BY <1>3 DEF Exit
  <2>2. CASE a = b
    <3>1. sends'[a] = << >> /\ view'[a] = NoView
      BY <1>1, <2>1, <2>2 DEF SceneTypeOK
    <3>2. Will(view'[a], sends'[a]) = NoView
      BY <3>1, WillEmpty
    <3> QED
      BY <3>2 DEF Calm, NoView
  <2>3. CASE a # b
    <3>1. sends'[a] = sends[a] /\ view'[a] = view[a]
      BY <1>1, <2>1, <2>3 DEF SceneTypeOK
    <3> QED
      BY <1>1, <3>1, StaysCalm
  <2> QED
    BY <2>2, <2>3
<1> QED
  BY <1>2, <1>3

LEMMA ForwardWill ==
  ASSUME SceneInv, NEW b \in Agent, Forward(b), NEW a \in Patient
  PROVE  Will(view'[a], sends'[a]) = Will(view[a], sends[a])
<1>1. a \in Agent /\ SceneTypeOK
  BY PlayerAssumption DEF SceneInv
<1>2. /\ sends[b] # << >> /\ sends' = [sends EXCEPT ![b] = Tail(sends[b])]
      /\ b \in Patient => view' = [view EXCEPT ![b] = Told(view[b], Head(sends[b]))]
      /\ b \notin Patient => view' = view
  BY DEF Forward
<1>3. CASE a = b
  <2>1. /\ view'[a] = Told(view[a], Head(sends[a])) /\ sends'[a] = Tail(sends[a])
        /\ sends[a] \in Seq(Sends) /\ sends[a] # << >>
    BY <1>1, <1>2, <1>3 DEF SceneTypeOK
  <2>2. Will(Told(view[a], Head(sends[a])), Tail(sends[a])) = Will(view[a], sends[a])
    BY <2>1, WillTail
  <2> QED
    BY <2>1, <2>2
<1>4. CASE a # b
  <2>1. view'[a] = view[a] /\ sends'[a] = sends[a]
    BY <1>1, <1>2, <1>4 DEF SceneTypeOK
  <2> QED
    BY <2>1
<1> QED
  BY <1>3, <1>4

LEMMA ForwardKnows ==
  ASSUME SceneInv, Telling, NEW b \in Agent, Forward(b)
  PROVE  Telling'
<1>1. balls' = balls /\ foods' = foods /\ life' = life
  BY DEF Forward, avars, svars
<1>2. ASSUME NEW a \in Patient, NEW x \in Scene, (Alive(a) /\ Owns(a, x))'
      PROVE  Knows(a, x)'
  <2>1. Alive(a) /\ Owns(a, x)
    BY <1>1, <1>2 DEF Alive, Owns
  <2>2. Knows(a, x)
    BY <2>1, KnowsAll DEF Telling
  <2> QED
    BY <1>1, <2>2, ForwardWill DEF Knows
<1>3. ASSUME NEW a \in Patient PROVE Calm(a)'
  <2>1. Calm(a)
    BY DEF Telling
  <2> QED
    BY <2>1, ForwardWill DEF Calm
<1>4. AgentTells'
  BY <1>2, KnowsAllNext
<1> QED
  BY <1>3, <1>4 DEF Telling

LEMMA EnterKnows ==
  ASSUME SceneInv, Telling, NEW b \in Agent, NEW k \in Slot, HandleEnter(b, k)
  PROVE  AgentTells'
<1> SUFFICES ASSUME NEW a \in Patient, NEW y \in Scene, (Alive(a) /\ Owns(a, y))'
             PROVE  Knows(a, y)'
  BY KnowsAllNext
<1>0. PICK x \in Scene : x = call[b][k].to
  <2>1. call[b][k] \in Calls
    BY DEF HandleEnter, Called, SceneInv, SceneTypeOK
  <2> QED
    BY <2>1, CallFacts
<1> DEFINE p  == RoleOf[b]
           m  == Msg("enter", {p})
           m1 == Msg("balllist", InScene(balls'[x]))
           m2 == Msg("foodlist", foods[x])
<1>1. /\ a \in Agent /\ a # Nobody /\ b # Nobody /\ p \in Role /\ SceneTypeOK /\ SceneInv'
      /\ RoleOf[a] \in Role
  BY PlayerAssumption, NobodyAssumption, HandleEnterInv DEF SceneInv
<1>2. life' = life /\ view' = view /\ foods' = foods /\ Alive(a)
  BY DEF HandleEnter, Alive
<1>3. /\ balls[y] \in [Role -> Agent \cup {Nobody}] /\ balls[x] \in [Role -> Agent \cup {Nobody}]
      /\ \A q \in Role : balls[x][q] # Nobody => RoleOf[balls[x][q]] = q
      /\ sends \in [Agent -> Seq(Sends)] /\ view[a] \in Views
  BY <1>1 DEF SceneInv, SceneTypeOK, RoleInv, Views
<1>4. CASE balls' = balls /\ sends' = sends
  <2>1. Owns(a, y)
    BY <1>4 DEF Owns
  <2> QED
    BY <1>2, <1>4, <2>1, KnowsKept
<1>5. CASE /\ balls[x][p] = Nobody /\ balls' = [balls EXCEPT ![x][p] = b]
           /\ sends' = SendTo(Broadcast(sends, balls[x], <<m>>), b, <<m1, m2>>)
  <2>1. \A z \in Scene, q \in Role : balls'[z][q] = IF z = x /\ q = p THEN b ELSE balls[z][q]
    BY <1>1, <1>5 DEF SceneTypeOK
  <2>2. m \in Sends /\ m1 \in Sends /\ m2 \in Sends
    <3>1. InScene(balls'[x]) \subseteq Role /\ foods[x] \subseteq FoodId
      BY <1>1 DEF InScene, SceneTypeOK
    <3> QED
      BY <1>1, <3>1, MsgType
  <2> DEFINE s == Broadcast(sends, balls[x], <<m>>)
  <2>3. /\ s \in [Agent -> Seq(Sends)]
        /\ s[a] = IF balls[x][RoleOf[a]] = a THEN sends[a] \o <<m>> ELSE sends[a]
    <3>1. <<m>> \in Seq(Sends)
      BY <2>2, ListsType
    <3> DEFINE ms == <<m>>
    <3> HIDE DEF ms, m
    <3>2. Broadcast(sends, balls[x], ms) \in [Agent -> Seq(Sends)]
      BY <1>3, <3>1, SendsType DEF ms
    <3>3. Broadcast(sends, balls[x], ms)[a]
            = IF Alive(a) /\ balls[x][RoleOf[a]] = a THEN sends[a] \o ms ELSE sends[a]
      <4> DEFINE c == balls[x]
      <4>1. c \in [Role -> Agent \cup {Nobody}] /\ \A q \in Role : c[q] # Nobody => RoleOf[c[q]] = q
        BY <1>3
      <4>2. Broadcast(sends, c, ms)[a] = IF Alive(a) /\ c[RoleOf[a]] = a THEN sends[a] \o ms ELSE sends[a]
        <5> HIDE DEF c
        <5> QED
          BY <1>1, <4>1, Reached
      <4> QED
        BY <4>2
    <3> QED
      BY <1>2, <3>2, <3>3 DEF ms
  <2> HIDE DEF s, m, p
  <2>4. CASE a = b
    <3>1. y = x
      <4>1. Owns(a, x)'
        BY <1>1, <2>1, <2>4 DEF Owns, p
      <4>2. Home(a, x)' /\ Home(a, y)'
        BY <1>1, <4>1 DEF SceneInv, HomeInv, AtHome
      <4>3. /\ \A j, l \in Slot : call'[a][j] # Free /\ call'[a][l] # Free => j = l
            /\ \A l \in Slot : call'[a][l] # Free => sname'[a] = Nobody
        BY <1>1 DEF SceneInv, HomeInv, AtHome
      <4> QED
        BY <1>1, <4>2, <4>3, NobodyAssumption DEF Home
    <3>2. sends'[a] = s[a] \o <<m1, m2>> /\ s[a] \in Seq(Sends)
      BY <1>1, <1>2, <1>5, <2>3, <2>4 DEF SendTo, s
    <3> DEFINE v == view[a]
               q == s[a]
               w == Will(v, q)
    <3>3. Will(v, q \o <<m1, m2>>) = Told(Told(w, m1), m2)
      <4>1. q \in Seq(Sends)
        BY <3>2
      <4> HIDE DEF q, v, m1, m2
      <4> QED
        BY <2>2, <4>1, WillTwo
    <3>4. w \in Views
      <4>1. q \in Seq(Sends) /\ v \in Views
        BY <1>3, <3>2
      <4> HIDE DEF q, v
      <4> QED
        BY <4>1, WillType
    <3>5. w = Seen(w.balls, w.foods)
      <4>1. q = sends[a]
        BY <1>1, <1>5, <2>3, <2>4 DEF p
      <4>2. ~w.odd
        BY <4>1 DEF Telling, Calm
      <4> HIDE DEF w
      <4> QED
        BY <3>4, <4>2 DEF Views, Seen
    <3>6. Told(Told(Seen(w.balls, w.foods), m1), m2) = Seen(InScene(balls'[x]), foods[x])
      <4> HIDE DEF w
      <4>1. Told(Seen(w.balls, w.foods), m1) = Seen(InScene(balls'[x]), w.foods)
        BY DEF Told, Seen, Msg
      <4>2. Told(Seen(InScene(balls'[x]), w.foods), m2) = Seen(InScene(balls'[x]), foods[x])
        BY DEF Told, Seen, Msg
      <4> HIDE DEF m1, m2
      <4> QED
        BY <4>1, <4>2
    <3>7. Will(view'[a], sends'[a]) = Will(v, q \o <<m1, m2>>)
      BY <1>2, <3>2
    <3>8. Told(Told(w, m1), m2) = Seen(InScene(balls'[x]), foods[x])
      <4> HIDE DEF w, m1, m2
      <4> QED
        BY <3>5, <3>6
    <3> QED
      BY <1>2, <3>1, <3>3, <3>7, <3>8 DEF Knows
  <2>5. CASE a # b
    <3>1. Owns(a, y)
      BY <1>1, <2>1, <2>5 DEF Owns
    <3>2. sends'[a] = s[a]
      BY <1>1, <1>5, <2>3, <2>5 DEF SendTo, s
    <3>3. CASE y = x
      <4>1. sends'[a] = sends[a] \o <<m>>
        BY <2>3, <3>1, <3>2, <3>3 DEF Owns
      <4>2. Will(view[a], sends[a] \o <<m>>) = Told(Will(view[a], sends[a]), m)
        BY <1>1, <1>3, <2>2, WillOne
      <4>3. Will(view[a], sends[a]) = Seen(InScene(balls[x]), foods[x])
        BY <1>2, <3>1, <3>3, KnowsAll DEF Telling, Knows
      <4>4. InScene(balls'[x]) = InScene(balls[x]) \cup {p}
        BY <1>1, <2>1 DEF InScene
      <4>5. Told(Seen(InScene(balls[x]), foods[x]), m) = Seen(InScene(balls[x]) \cup {p}, foods[x])
        <5>1. InScene(balls[x]) \cap {p} = {}
          BY <1>5 DEF InScene
        <5> QED
          BY <5>1 DEF Told, Seen, Msg, m
      <4> QED
        BY <1>2, <3>3, <4>1, <4>2, <4>3, <4>4, <4>5 DEF Knows
    <3>4. CASE y # x
      <4>1. ~Owns(a, x)
        BY <1>1, <1>2, <3>1, <3>4, OneScene
      <4>2. sends'[a] = sends[a]
        BY <2>3, <3>2, <4>1 DEF Owns
      <4>3. InScene(balls'[y]) = InScene(balls[y])
        BY <2>1, <3>4 DEF InScene
      <4> QED
        BY <1>2, <3>1, <4>2, <4>3, KnowsKept
    <3> QED
      BY <3>3, <3>4
  <2> QED
    BY <2>4, <2>5
<1> QED
  BY <1>0, <1>4, <1>5 DEF HandleEnter

LEMMA LeaveKnows ==
  ASSUME SceneInv, Telling, NEW b \in Agent, HandleLeave(b, Kicker)
  PROVE  AgentTells'
<1> SUFFICES ASSUME NEW a \in Patient, NEW y \in Scene, (Alive(a) /\ Owns(a, y))'
             PROVE  Knows(a, y)'
  BY KnowsAllNext
<1>0. PICK x \in Scene : x = call[b][Kicker].to
  <2>1. call[b][Kicker] \in Calls
    BY DEF HandleLeave, Called, SceneInv, SceneTypeOK
  <2> QED
    BY <2>1, CallFacts
<1> DEFINE p == RoleOf[b]
           m == Msg("leave", {p})
<1>1. /\ a \in Agent /\ a # Nobody /\ p \in Role /\ SceneTypeOK /\ SceneInv'
      /\ RoleOf[a] \in Role
  BY PlayerAssumption, NobodyAssumption, HandleLeaveInv DEF SceneInv
<1>2. life' = life /\ view' = view /\ foods' = foods /\ Alive(a)
  BY DEF HandleLeave, Alive
<1>3. sends \in [Agent -> Seq(Sends)] /\ view[a] \in Views
  BY <1>1 DEF SceneTypeOK, Views
<1>4. CASE balls' = balls /\ sends' = sends
  <2>1. Owns(a, y)
    BY <1>4 DEF Owns
  <2> QED
    BY <1>2, <1>4, <2>1, KnowsKept
<1>5. CASE /\ balls[x][p] # Nobody /\ balls' = [balls EXCEPT ![x][p] = Nobody]
           /\ sends' = Broadcast(sends, balls'[x], <<m>>)
  <2>1. \A z \in Scene, q \in Role : balls'[z][q] = IF z = x /\ q = p THEN Nobody ELSE balls[z][q]
    BY <1>1, <1>5 DEF SceneTypeOK
  <2>2. m \in Sends
    BY <1>1, MsgType
  <2>3. sends'[a] = IF balls'[x][RoleOf[a]] = a THEN sends[a] \o <<m>> ELSE sends[a]
    <3> DEFINE ms == <<m>>
               c == balls'[x]
    <3>1. c \in [Role -> Agent \cup {Nobody}] /\ \A q \in Role : c[q] # Nobody => RoleOf[c[q]] = q
      BY <1>1 DEF SceneInv, SceneTypeOK, RoleInv
    <3>2. sends' = Broadcast(sends, c, ms)
      BY <1>5
    <3> HIDE DEF c, ms
    <3>3. Broadcast(sends, c, ms)[a] = IF Alive(a) /\ c[RoleOf[a]] = a THEN sends[a] \o ms ELSE sends[a]
      BY <1>1, <3>1, Reached
    <3> QED
      BY <1>2, <3>2, <3>3 DEF c, ms
  <2> HIDE DEF m, p
  <2>4. Owns(a, y)
    BY <1>1, <2>1 DEF Owns
  <2>5. CASE y = x
    <3>1. sends'[a] = sends[a] \o <<m>>
      BY <2>3, <2>5 DEF Owns
    <3>2. Will(view[a], sends[a] \o <<m>>) = Told(Will(view[a], sends[a]), m)
      BY <1>1, <1>3, <2>2, WillOne
    <3>3. Will(view[a], sends[a]) = Seen(InScene(balls[x]), foods[x])
      BY <1>2, <2>4, <2>5, KnowsAll DEF Telling, Knows
    <3>4. InScene(balls'[x]) = InScene(balls[x]) \ {p}
      BY <1>1, <2>1 DEF InScene
    <3>5. Told(Seen(InScene(balls[x]), foods[x]), m) = Seen(InScene(balls[x]) \ {p}, foods[x])
      <4>1. {p} \subseteq InScene(balls[x])
        BY <1>1, <1>5 DEF InScene
      <4> QED
        BY <4>1 DEF Told, Seen, Msg, m
    <3> QED
      BY <1>2, <2>5, <3>1, <3>2, <3>3, <3>4, <3>5 DEF Knows
  <2>6. CASE y # x
    <3>1. ~Owns(a, x)
      BY <1>1, <1>2, <2>4, <2>6, OneScene
    <3>2. balls'[x][RoleOf[a]] # a
      BY <1>1, <2>1, <3>1 DEF Owns
    <3>3. sends'[a] = sends[a]
      BY <2>3, <3>2
    <3>4. InScene(balls'[y]) = InScene(balls[y])
      BY <2>1, <2>6 DEF InScene
    <3> QED
      BY <1>2, <2>4, <3>3, <3>4, KnowsKept
  <2> QED
    BY <2>5, <2>6
<1> QED
  BY <1>0, <1>4, <1>5 DEF HandleLeave

LEMMA UpdateKnows ==
  ASSUME SceneInv, Telling, NEW x \in Scene, Update(x)
  PROVE  AgentTells'
<1> SUFFICES ASSUME NEW a \in Patient, NEW y \in Scene, (Alive(a) /\ Owns(a, y))'
             PROVE  Knows(a, y)'
  BY KnowsAllNext
<1>1. PICK new \in {{}, {food_max_id[x] + 1}}, eaten \in SUBSET (foods[x] \cup {food_max_id[x] + 1}) :
        /\ eaten \subseteq foods[x] \cup new
        /\ new # {} => food_max_id[x] < MaxFood[x]
        /\ foods' = [foods EXCEPT ![x] = (@ \cup new) \ eaten]
        /\ sends' = Broadcast(sends, balls[x],
                      (IF new # {} THEN <<Msg("addfood", new)>> ELSE << >>)
                        \o (IF eaten # {} THEN <<Msg("eat", eaten)>> ELSE << >>))
        /\ life' = life /\ balls' = balls /\ view' = view
  BY DEF Update, MayGrow, avars
<1>2. /\ a \in Agent /\ RoleOf[a] \in Role /\ Alive(a) /\ Owns(a, y) /\ SceneTypeOK
      /\ sends \in [Agent -> Seq(Sends)] /\ foods[x] \in SUBSET FoodId
  BY <1>1, PlayerAssumption DEF SceneInv, SceneTypeOK, Alive, Owns
<1>3. new \in SUBSET FoodId /\ eaten \in SUBSET FoodId /\ foods[x] \cap new = {}
  <2>1. food_max_id[x] \in Nat /\ MaxFood[x] \in Nat
    <3>1. FoodId \subseteq Nat /\ MaxFood[x] \in Nat
      BY FoodAssumption DEF FoodId
    <3>2. food_max_id[x] \in {0} \cup FoodId
      BY <1>2 DEF SceneTypeOK
    <3>3. 0 \in Nat
      OBVIOUS
    <3>4. food_max_id[x] \in Nat
      BY <3>1, <3>2, <3>3, Zenon
    <3> QED
      BY <3>1, <3>4
  <2>2. new # {} => food_max_id[x] + 1 \in 1 .. MaxFood[x]
    BY <1>1, <2>1
  <2>3. \A i \in 1 .. MaxFood[x] : i \in FoodId
    BY DEF FoodId
  <2>4. new \in SUBSET FoodId
    BY <1>1, <2>2, <2>3
  <2>5. foods[x] \cap new = {}
    <3>1. foods[x] \subseteq 1 .. food_max_id[x]
      BY DEF SceneInv, FoodInv
    <3> QED
      BY <1>1, <2>1, <3>1
  <2> QED
    BY <1>1, <1>2, <2>4, <2>5
<1> DEFINE g  == IF new # {} THEN <<Msg("addfood", new)>> ELSE << >>
           e  == IF eaten # {} THEN <<Msg("eat", eaten)>> ELSE << >>
           ms == g \o e
<1>4. g \in Seq(Sends) /\ e \in Seq(Sends)
  BY <1>3, MsgType, ListsType
<1>5. sends'[a] = IF Owns(a, x) THEN sends[a] \o ms ELSE sends[a]
  <2> DEFINE c == balls[x]
  <2>1. c \in [Role -> Agent \cup {Nobody}] /\ \A q \in Role : c[q] # Nobody => RoleOf[c[q]] = q
    BY DEF SceneInv, SceneTypeOK, RoleInv
  <2>2. sends' = Broadcast(sends, c, ms)
    BY <1>1
  <2> HIDE DEF c, ms
  <2>3. Broadcast(sends, c, ms)[a] = IF Alive(a) /\ c[RoleOf[a]] = a THEN sends[a] \o ms ELSE sends[a]
    <3>1. a \in Agent
      BY <1>2
    <3> QED
      BY <2>1, <3>1, Reached
  <2> QED
    BY <1>2, <2>2, <2>3 DEF c, Owns
<1>6. CASE y = x
  <2> DEFINE v == view[a]
             q == sends[a]
             b == InScene(balls[x])
             f == foods[x]
             r == q \o g
  <2>1. q \in Seq(Sends) /\ f \in SUBSET FoodId /\ f \cap new = {}
    BY <1>2, <1>3
  <2>2. Will(v, q) = Seen(b, f)
    BY <1>2, <1>6, KnowsAll DEF Telling, Knows
  <2>3. Will(v, r) = Seen(b, f \cup new) /\ r \in Seq(Sends)
    <3> HIDE DEF v, q, b, f
    <3> QED
      BY <1>3, <2>1, <2>2, WillGrow
  <2>4. Will(v, r \o e) = Seen(b, (f \cup new) \ eaten)
    <3> DEFINE h == f \cup new
    <3>1. h \in SUBSET FoodId /\ Will(v, r) = Seen(b, h) /\ eaten \subseteq h
      BY <1>1, <1>3, <2>1, <2>3
    <3> HIDE DEF v, r, b, h
    <3>2. Will(v, r \o e) = Seen(b, h \ eaten)
      BY <1>3, <2>3, <3>1, WillShrink
    <3> QED
      BY <3>2 DEF h
  <2>5. r \o e = q \o ms
    <3> HIDE DEF q, g, e
    <3> QED
      BY <1>4, <2>1, ConcatAssociative
  <2>6. sends'[a] = q \o ms
    BY <1>2, <1>5, <1>6
  <2>7. foods'[x] = (f \cup new) \ eaten /\ balls'[x] = balls[x] /\ view'[a] = view[a]
    BY <1>1, <1>2 DEF SceneTypeOK
  <2> HIDE DEF q, g, e, ms, f, r
  <2> QED
    BY <1>6, <2>4, <2>5, <2>6, <2>7 DEF Knows
<1>7. CASE y # x
  <2>1. ~Owns(a, x)
    BY <1>2, <1>7, OneScene
  <2>2. sends'[a] = sends[a]
    BY <1>5, <2>1
  <2>3. foods'[y] = foods[y]
    BY <1>1, <1>2, <1>7 DEF SceneTypeOK
  <2> QED
    BY <1>1, <1>2, <2>2, <2>3, KnowsKept
<1> QED
  BY <1>6, <1>7

(* Those whom a scene tells something have a ball in it. *)
LEMMA SceneCalm ==
  ASSUME SceneInv, SceneInv', Telling, AgentTells',
         \/ \E b \in Agent, k \in Slot : HandleEnter(b, k)
         \/ \E b \in Agent : HandleLeave(b, Kicker)
         \/ \E x \in Scene : Update(x),
         NEW a \in Patient
  PROVE  Calm(a)'
<1>1. SUFFICES ASSUME ~\E y \in Scene : (Alive(a) /\ Owns(a, y))'
               PROVE  view'[a] = view[a] /\ sends'[a] = sends[a]
  BY StaysCalm
<1>2. /\ a \in Agent /\ a # Nobody /\ RoleOf[a] \in Role /\ SceneTypeOK /\ SceneTypeOK'
      /\ RoleInv /\ RoleInv'
  BY PlayerAssumption, NobodyAssumption DEF SceneInv
<1>3. view' = view /\ life' = life /\ (Alive(a)' <=> Alive(a))
  BY DEF HandleEnter, HandleLeave, Update, avars, Alive
<1>4. \A y \in Scene : ~Alive(a) \/ balls'[y][RoleOf[a]] # a
  BY <1>1, <1>3 DEF Owns
<1>5. /\ \A y \in Scene : /\ balls[y] \in [Role -> Agent \cup {Nobody}]
                          /\ \A q \in Role : balls[y][q] # Nobody => RoleOf[balls[y][q]] = q
      /\ \A y \in Scene : /\ balls'[y] \in [Role -> Agent \cup {Nobody}]
                          /\ \A q \in Role : balls'[y][q] # Nobody => RoleOf[balls'[y][q]] = q
  BY <1>2 DEF SceneTypeOK, RoleInv
<1>6. ASSUME NEW b \in Agent, NEW k \in Slot, HandleEnter(b, k) PROVE sends'[a] = sends[a]
  <2> DEFINE x == call[b][k].to
             p == RoleOf[b]
             ms == <<Msg("enter", {p})>>
             ns == <<Msg("balllist", InScene(balls'[x])), Msg("foodlist", foods[x])>>
  <2>1. x \in Scene /\ p \in Role
    BY <1>2, <1>6, CallTo, PlayerAssumption DEF HandleEnter, Called
  <2>2. CASE /\ balls[x][p] = Nobody /\ balls' = [balls EXCEPT ![x][p] = b]
             /\ sends' = SendTo(Broadcast(sends, balls[x], ms), b, ns)
    <3>1. \A q \in Role : balls'[x][q] = IF q = p THEN b ELSE balls[x][q]
      BY <1>2, <2>1, <2>2 DEF SceneTypeOK
    <3>2. ~Alive(a) \/ balls[x][RoleOf[a]] # a
      BY <1>2, <1>4, <2>1, <2>2, <3>1
    <3>3. ~Alive(a) \/ a # b
      BY <1>4, <2>1, <3>1
    <3> DEFINE c == balls[x]
               s == Broadcast(sends, c, ms)
    <3>4. s[a] = sends[a]
      <4>1. /\ c \in [Role -> Agent \cup {Nobody}]
            /\ \A q \in Role : c[q] # Nobody => RoleOf[c[q]] = q
            /\ ~Alive(a) \/ c[RoleOf[a]] # a
        BY <1>5, <2>1, <3>2
      <4> HIDE DEF c, ms
      <4> QED
        BY <1>2, <4>1, PassedBy
    <3>5. sends' = SendTo(s, b, ns)
      BY <2>2
    <3> HIDE DEF s, ns
    <3>6. SendTo(s, b, ns)[a] = s[a]
      BY <3>3 DEF SendTo
    <3> QED
      BY <3>4, <3>5, <3>6
  <2> QED
    BY <1>6, <2>2 DEF HandleEnter
<1>7. ASSUME NEW b \in Agent, HandleLeave(b, Kicker) PROVE sends'[a] = sends[a]
  <2> DEFINE x == call[b][Kicker].to
             ms == <<Msg("leave", {RoleOf[b]})>>
             c == balls'[x]
  <2>1. x \in Scene
    BY <1>2, <1>7, CallTo DEF HandleLeave, Called
  <2>2. /\ c \in [Role -> Agent \cup {Nobody}]
        /\ \A q \in Role : c[q] # Nobody => RoleOf[c[q]] = q
        /\ ~Alive(a) \/ c[RoleOf[a]] # a
    BY <1>4, <1>5, <2>1
  <2>3. sends' = sends \/ sends' = Broadcast(sends, c, ms)
    BY <1>7 DEF HandleLeave
  <2> HIDE DEF c, ms
  <2> QED
    BY <1>2, <2>2, <2>3, PassedBy
<1>8. ASSUME NEW x \in Scene, Update(x) PROVE sends'[a] = sends[a]
  <2> DEFINE c == balls[x]
  <2>1. /\ c \in [Role -> Agent \cup {Nobody}]
        /\ \A q \in Role : c[q] # Nobody => RoleOf[c[q]] = q
        /\ ~Alive(a) \/ c[RoleOf[a]] # a
    BY <1>4, <1>5, <1>8 DEF Update
  <2>2. \E ms : sends' = Broadcast(sends, c, ms)
    BY <1>8 DEF Update
  <2> HIDE DEF c
  <2> QED
    BY <1>2, <2>1, <2>2, PassedBy
<1> QED
  BY <1>3, <1>6, <1>7, <1>8

LEMMA KnowsInit == SceneInit => Telling
<1> SUFFICES ASSUME SceneInit PROVE Telling
  OBVIOUS
<1>1. AgentTells
  <2> SUFFICES ASSUME NEW a \in Patient, NEW x \in Scene, Alive(a), Owns(a, x)
               PROVE  FALSE
    BY DEF AgentTells
  <2>1. a \in Agent
    BY PlayerAssumption
  <2> QED
    BY <2>1 DEF SceneInit, Alive
<1>2. ASSUME NEW a \in Patient PROVE Calm(a)
  <2>1. view[a] = NoView /\ sends[a] = << >>
    BY PlayerAssumption DEF SceneInit
  <2>2. Will(view[a], sends[a]) = NoView
    BY <2>1, WillEmpty
  <2> QED
    BY <2>2 DEF Calm, NoView
<1> QED
  BY <1>1, <1>2 DEF Telling

(* An agent that has only been in one scene at a time passes on, once it   *)
(* has handled what is under way, exactly the balls and the foods of the   *)
(* scene, none of them twice: whatever is sent before, between and after   *)
(* the lists.                                                              *)
THEOREM AgentTellsAlways == SceneSpec => []AgentTells
<1>1. SceneInit => SceneInv /\ Telling
  BY SceneInvInit, KnowsInit
<1>2. SceneInv /\ Telling /\ [SceneNext]_scenevars => (SceneInv /\ Telling)'
  <2> SUFFICES ASSUME SceneInv, Telling, [SceneNext]_scenevars PROVE Telling'
    BY SceneInvStep
  <2>1. SceneInv'
    BY SceneInvStep
  <2>2. ASSUME NEW b \in Agent,
               \/ Login(b) \/ KickAgent(b) \/ Saved(b) \/ Exit(b)
               \/ \E k \in Slot, x \in Scene : Enter(b, k, x)
               \/ \E k \in Slot \cup {Kicker} : ResumeCall(b, k)
        PROVE  Telling'
    BY <2>2, AgentKnows, AgentCalm DEF Telling
  <2>3. CASE \/ \E b \in Agent, k \in Slot : HandleEnter(b, k)
             \/ \E b \in Agent : HandleLeave(b, Kicker)
             \/ \E x \in Scene : Update(x)
    <3>1. AgentTells'
      BY <2>3, EnterKnows, LeaveKnows, UpdateKnows
    <3>2. ASSUME NEW a \in Patient PROVE Calm(a)'
      BY <2>1, <2>3, <3>1, SceneCalm
    <3> QED
      BY <3>1, <3>2 DEF Telling
  <2>4. CASE UNCHANGED scenevars
    BY <2>4 DEF scenevars, avars, svars, clvars, Telling, AgentTells, Alive, Owns, Calm
  <2> QED
    BY <2>2, <2>3, <2>4, ForwardKnows DEF SceneNext
<1>3. Telling => AgentTells
  BY DEF Telling
<1> QED
  BY <1>1, <1>2, <1>3, PTL DEF SceneSpec
=============================================================================
