---------------------------- MODULE SceneAgents ----------------------------
(***************************************************************************)
(* Scenes and the agents in them: 04_skynet_advanced/service/scene and the *)
(* scene part of service/agent (the same code in 03).                      *)
(*                                                                         *)
(* An agent's handlers are coroutines that give way at every call, so an   *)
(* enter, a shift and a kick of one agent overlap.  A scene's handlers and *)
(* its update call nobody and are one step each.  Calls of agents of       *)
(* several nodes reach a scene in any order; what a scene sends an agent   *)
(* stays in order.  Positions, speeds and sizes are left out: which foods  *)
(* a ball reaches is open.                                                 *)
(*                                                                         *)
(* agent_mgr makes the next agent of a player once the last one has        *)
(* answered its kick; exit is a message it does not wait for, so for a     *)
(* time a player may have two agents.                                      *)
(***************************************************************************)
EXTENDS Naturals, FiniteSets, SequencesExt

CONSTANTS
  Role, Scene,
  Agent,          \* the agents made for the players, one per login
  RoleOf,       \* the player of each agent
  Logins,         \* which of them log in, in one run or another
  Patient,        \* agents whose client waits for the answer to an enter
  Slot,           \* the coroutines of an agent that may wait at once
  FoodLimit,      \* 50 in the code
  MaxFood,        \* bound: foods made in each scene
  MaxSends,       \* bound: what an agent may have to forward when a scene updates
  Nobody

VARIABLES
  life,         \* an agent's life: none, on, leaving, saving, saved, gone
  sname,          \* s.sname: the scene the agent takes itself to be in
  call,           \* the call each coroutine of an agent waits in
  balls,          \* balls of a scene: player -> agent
  foods, food_count, food_max_id,
  sends,          \* what scenes have sent an agent and it has not handled
  view            \* what it has passed on to its client: balls, foods, repeats

avars == <<life, sname, call>>
svars == <<balls, foods, food_count, food_max_id>>
clvars == <<sends, view>>
scenevars  == <<avars, svars, clvars>>

(* A call: to which scene, and its answer once there is one. *)
Ops    == {"enter", "leave"}
Calls  == [op : Ops, to : Scene, answer : {"none", "yes", "no"}]
Free   == [op |-> "free"]
Sent(op, x) == [op |-> op, to |-> x, answer |-> "none"]
Kicker == 0                       \* the coroutine of the kick

ASSUME PlayerAssumption == RoleOf \in [Agent -> Role] /\ Patient \subseteq Agent
ASSUME NobodyAssumption == Nobody \notin Agent \cup Scene
ASSUME SlotAssumption   == Slot \subseteq Nat \ {Kicker}
ASSUME FoodAssumption   == FoodLimit \in Nat /\ MaxFood \in [Scene -> Nat]

NoView == [balls |-> {}, foods |-> {}, odd |-> FALSE]
FoodId == UNION {1..MaxFood[x] : x \in Scene}
Alive(a) == life[a] \in {"on", "leaving", "saving", "saved"}
Sends == [type : {"enter", "leave", "balllist"}, what : SUBSET Role]
           \cup [type : {"addfood", "eat", "foodlist"}, what : SUBSET FoodId]
Idle(a, k) == call[a][k] = Free /\ \A j \in Slot : j < k => call[a][j] # Free
Waits(a, op) == \E k \in Slot : call[a][k] # Free /\ call[a][k].op = op

SceneTypeOK ==
  /\ life \in [Agent -> {"none", "on", "leaving", "saving", "saved", "gone"}]
  /\ sname \in [Agent -> Scene \cup {Nobody}]
  /\ call \in [Agent -> [Slot \cup {Kicker} -> Calls \cup {Free}]]
  /\ balls \in [Scene -> [Role -> Agent \cup {Nobody}]]
  /\ foods \in [Scene -> SUBSET FoodId]
  /\ food_count \in [Scene -> {0} \cup FoodId]
  /\ food_max_id \in [Scene -> {0} \cup FoodId]
  /\ sends \in [Agent -> Seq(Sends)]
  /\ view \in [Agent -> [balls : SUBSET Role, foods : SUBSET FoodId, odd : BOOLEAN]]

SceneInit ==
  /\ \E logins \in Logins :
       life = [a \in Agent |-> IF a \in logins THEN "none" ELSE "gone"]
  /\ sname = [a \in Agent |-> Nobody]
  /\ call = [a \in Agent |-> [k \in Slot \cup {Kicker} |-> Free]]
  /\ balls = [x \in Scene |-> [p \in Role |-> Nobody]]
  /\ foods = [x \in Scene |-> {}]
  /\ food_count = [x \in Scene |-> 0]
  /\ food_max_id = [x \in Scene |-> 0]
  /\ sends = [a \in Agent |-> << >>]
  /\ view = [a \in Agent |-> NoView]

-----------------------------------------------------------------------------
(* What a scene sends. *)

Owns(a, x) == balls[x][RoleOf[a]] = a
InScene(b) == {p \in Role : b[p] # Nobody}

Msg(type, what) == [type |-> type, what |-> what]

(* A client that is told m; odd once it is told of a ball or food it knew, *)
(* or of the end of one it did not know.                                   *)
Told(v, m) ==
  CASE m.type = "enter"    -> [v EXCEPT !.balls = @ \cup m.what,
                                        !.odd = @ \/ v.balls \cap m.what # {}]
    [] m.type = "leave"    -> [v EXCEPT !.balls = @ \ m.what,
                                        !.odd = @ \/ ~(m.what \subseteq v.balls)]
    [] m.type = "balllist" -> [v EXCEPT !.balls = m.what]
    [] m.type = "addfood"  -> [v EXCEPT !.foods = @ \cup m.what,
                                        !.odd = @ \/ v.foods \cap m.what # {}]
    [] m.type = "eat"      -> [v EXCEPT !.foods = @ \ m.what,
                                        !.odd = @ \/ ~(m.what \subseteq v.foods)]
    [] m.type = "foodlist" -> [v EXCEPT !.foods = m.what]

(* ms to the agents of the balls b; an agent that has exited gets nothing. *)
Broadcast(s, b, ms) ==
  [a \in Agent |-> IF Alive(a) /\ \E p \in Role : b[p] = a THEN s[a] \o ms ELSE s[a]]

SendTo(s, a, ms) == IF Alive(a) THEN [s EXCEPT ![a] = @ \o ms] ELSE s

-----------------------------------------------------------------------------
(* The agent. *)

(* new_service: agent_mgr makes an agent of a player who has none, or once *)
(* the last one has answered its kick.                                     *)
Login(a) ==
  /\ life[a] = "none"
  /\ \A b \in Agent : RoleOf[b] = RoleOf[a] => life[b] \notin {"on", "leaving", "saving"}
  /\ life' = [life EXCEPT ![a] = "on"]
  /\ UNCHANGED <<sname, call, svars, clvars>>

(* Mutant: an agent enters whether or not it is in a scene. *)
EnterAgain(a, k, x) ==
  /\ Alive(a) /\ Idle(a, k)
  /\ a \in Patient => ~Waits(a, "enter")
  /\ call' = [call EXCEPT ![a][k] = Sent("enter", x)]
  /\ UNCHANGED <<life, sname, svars, clvars>>

(* s.client.enter, up to the call of a random scene. *)
Enter(a, k, x) ==
  /\ Alive(a) /\ Idle(a, k)
  /\ a \in Patient => ~Waits(a, "enter")
  /\ sname[a] = Nobody
  /\ call' = [call EXCEPT ![a][k] = Sent("enter", x)]
  /\ UNCHANGED <<life, sname, svars, clvars>>

(* s.resp.kick: leave_scene, up to its call, or on to the saving. *)
KickAgent(a) ==
  /\ life[a] = "on"
  /\ \/ /\ sname[a] = Nobody
        /\ life' = [life EXCEPT ![a] = "saving"]
        /\ UNCHANGED call
     \/ /\ sname[a] # Nobody
        /\ life' = [life EXCEPT ![a] = "leaving"]
        /\ call' = [call EXCEPT ![a][Kicker] = Sent("leave", sname[a])]
  /\ UNCHANGED <<sname, svars, clvars>>

(* A call is answered: the rest of enter and of leave_scene. *)
ResumeCall(a, k) ==
  /\ Alive(a) /\ call[a][k] # Free /\ call[a][k].answer # "none"
  /\ LET c == call[a][k] IN
       /\ sname' = [sname EXCEPT ![a] =
            CASE c.op = "enter" /\ c.answer = "yes" -> c.to
              [] c.op = "leave"                     -> Nobody
              [] OTHER                              -> @]
       /\ life' = [life EXCEPT ![a] = IF c.op = "leave" THEN "saving" ELSE @]
  /\ call' = [call EXCEPT ![a][k] = Free]
  /\ UNCHANGED <<svars, clvars>>

(* The data is saved: the kick is answered.  The agent goes on with what   *)
(* its client has sent, an enter too, until it handles exit.               *)
Saved(a) ==
  /\ life[a] = "saving"
  /\ life' = [life EXCEPT ![a] = "saved"]
  /\ UNCHANGED <<sname, call, svars, clvars>>

(* s.resp.exit: the coroutines end, what they have called is still to be   *)
(* handled.                                                                *)
Exit(a) ==
  /\ life[a] = "saved"
  /\ life' = [life EXCEPT ![a] = "gone"]
  /\ sname' = [sname EXCEPT ![a] = Nobody]
  /\ call' = [call EXCEPT ![a] = [k \in DOMAIN @ |->
                IF @[k] # Free /\ @[k].answer = "none" THEN @[k] ELSE Free]]
  /\ sends' = [sends EXCEPT ![a] = << >>]
  /\ view' = [view EXCEPT ![a] = NoView]
  /\ UNCHANGED svars

(* s.resp.send: the next message goes to the client. *)
Forward(a) ==
  /\ Alive(a) /\ sends[a] # << >>
  /\ view' = IF a \in Patient THEN [view EXCEPT ![a] = Told(@, Head(sends[a]))] ELSE view
  /\ sends' = [sends EXCEPT ![a] = Tail(@)]
  /\ UNCHANGED <<avars, svars>>

-----------------------------------------------------------------------------
(* The scene. *)

Answer(a, k, ok) ==
  call' = [call EXCEPT ![a][k] = IF ~Alive(a) THEN Free
                                 ELSE [@ EXCEPT !.answer = IF ok THEN "yes" ELSE "no"]]

Called(a, k, op) == call[a][k] # Free /\ call[a][k].op = op /\ call[a][k].answer = "none"

(* Mutant: the enter is broadcast last, when the ball is recorded and its  *)
(* agent has the lists.                                                    *)
BroadcastLast(a, k) ==
  /\ Called(a, k, "enter")
  /\ LET x == call[a][k].to
         p == RoleOf[a] IN
     /\ balls[x][p] = Nobody
     /\ balls' = [balls EXCEPT ![x][p] = a]
     /\ sends' = Broadcast(SendTo(sends, a, <<Msg("balllist", InScene(balls'[x])),
                                              Msg("foodlist", foods[x])>>),
                           balls'[x], <<Msg("enter", {p})>>)
     /\ Answer(a, k, TRUE)
  /\ UNCHANGED <<life, sname, foods, food_count, food_max_id, view>>

(* s.resp.enter *)
HandleEnter(a, k) ==
  /\ Called(a, k, "enter")
  /\ LET x == call[a][k].to
         p == RoleOf[a] IN
     \/ /\ balls[x][p] # Nobody
        /\ Answer(a, k, FALSE)
        /\ UNCHANGED <<balls, sends>>
     \/ /\ balls[x][p] = Nobody
        /\ balls' = [balls EXCEPT ![x][p] = a]
        /\ sends' = SendTo(Broadcast(sends, balls[x], <<Msg("enter", {p})>>), a,
                           <<Msg("balllist", InScene(balls'[x])), Msg("foodlist", foods[x])>>)
        /\ Answer(a, k, TRUE)
  /\ UNCHANGED <<life, sname, foods, food_count, food_max_id, view>>

(* s.resp.leave *)
HandleLeave(a, k) ==
  /\ Called(a, k, "leave")
  /\ LET x == call[a][k].to
         p == RoleOf[a] IN
     \/ /\ balls[x][p] = Nobody
        /\ UNCHANGED <<balls, sends>>
     \/ /\ balls[x][p] # Nobody
        /\ balls' = [balls EXCEPT ![x][p] = Nobody]
        /\ sends' = Broadcast(sends, balls'[x], <<Msg("leave", {p})>>)
  /\ Answer(a, k, FALSE)
  /\ UNCHANGED <<life, sname, foods, food_count, food_max_id, view>>

(* food_update: at most one food, unless there are too many. *)
MayGrow(x) == food_count[x] <= FoodLimit /\ food_max_id[x] < MaxFood[x]

(* Mutant: what is eaten still counts. *)
CountedForEver(x, new, eaten) == food_count[x] + Cardinality(new)

(* food_count after new was made and eaten was eaten. *)
Counted(x, new, eaten) == food_count[x] + Cardinality(new) - Cardinality(eaten)

(* update: food_update, then eat_update, which takes a food from the table *)
(* when the first ball reaches it.                                         *)
Update(x) ==
  \E new \in {n \in {{}, {food_max_id[x] + 1}} : n # {} => MayGrow(x)} :
  \E eaten \in SUBSET (foods[x] \cup new) :
    /\ new # {} \/ eaten # {}
    /\ \A a \in Agent : Owns(a, x) => Len(sends[a]) <= MaxSends
    /\ eaten # {} => InScene(balls[x]) # {}
    /\ food_max_id' = [food_max_id EXCEPT ![x] = @ + Cardinality(new)]
    /\ food_count' = [food_count EXCEPT ![x] = Counted(x, new, eaten)]
    /\ foods' = [foods EXCEPT ![x] = (@ \cup new) \ eaten]
    /\ sends' = Broadcast(sends, balls[x],
                  (IF new # {} THEN <<Msg("addfood", new)>> ELSE << >>)
                    \o (IF eaten # {} THEN <<Msg("eat", eaten)>> ELSE << >>))
    /\ UNCHANGED <<avars, balls, view>>

SceneNext ==
  \/ \E a \in Agent :
       \/ Login(a) \/ KickAgent(a) \/ Saved(a) \/ Exit(a) \/ Forward(a)
       \/ \E k \in Slot : HandleEnter(a, k)
       \/ \E k \in Slot, x \in Scene : Enter(a, k, x)
       \/ \E k \in Slot \cup {Kicker} : ResumeCall(a, k)
       \/ HandleLeave(a, Kicker)
  \/ \E x \in Scene : Update(x)

SceneSpec == SceneInit /\ [][SceneNext]_scenevars

-----------------------------------------------------------------------------
(* Properties. *)

(* An agent has its ball in the scene it takes itself to be in, whatever   *)
(* its other enters, its kick and the player's next agent do; and when its *)
(* client waits for answers it has no ball elsewhere, outside a call that  *)
(* changes that (s.client.enter, leave_scene, resp.enter, resp.leave).     *)
ScenesAgree ==
  \A a \in Agent, x \in Scene :
    Alive(a) /\ life[a] # "leaving" =>
      /\ sname[a] = x => Owns(a, x)
      /\ a \in Patient /\ ~Waits(a, "enter") /\ Owns(a, x) => sname[a] = x

(* An agent that has only been in one scene at a time passes on, once it   *)
(* has handled what is under way, exactly the balls and the foods of its   *)
(* scene, and none of them twice: enter sends the lists and every later    *)
(* change, in order (balllist_msg, foodlist_msg, broadcast).               *)
AgentTells ==
  \A a \in Patient, x \in Scene :
    Alive(a) /\ Owns(a, x) =>
      FoldLeft(Told, view[a], sends[a])
        = [balls |-> InScene(balls[x]), foods |-> foods[x], odd |-> FALSE]

(* The counter that limits the foods is their number (food_update,         *)
(* eat_update).                                                            *)
FoodsCounted == \A x \in Scene : food_count[x] = Cardinality(foods[x])

(* A scene has FoodLimit foods at most (scene/init.lua:132).               *)
FoodsLimited == \A x \in Scene : food_count[x] <= FoodLimit
=============================================================================
