------------------------------- MODULE MCGame -------------------------------
(***************************************************************************)
(* The game, side by side: a behaviour is one of the sessions, of the      *)
(* sessions while the servers are closed (clients only log in), of the     *)
(* scenes with an agent each of two players and one food, of the scenes    *)
(* with two agents of one player and no food, or of the scenes with one    *)
(* agent and more foods than the limit; which part says.                   *)
(***************************************************************************)
EXTENDS GameShutdown, SceneAgents

CONSTANTS p1, g1, g2, f1, f2, mgr, ann, bob, a1, a2, b1, X, Y

VARIABLE part

Interchangeable == Permutations({g1, g2}) \cup Permutations({f1, f2})

(* Two logins of a player, or one each of two. *)
RoleOfAgent == a1 :> ann @@ a2 :> ann @@ b1 :> bob
FoodIn == X :> 3 @@ Y :> 0

LoggingIn == {a \in Agent : life[a] = "none"}

GameInit ==
  /\ part \in {"sessions", "shutdown", "scenes", "successors", "foods"}
  /\ SceneInit
  /\ part = "scenes" <=> LoggingIn = {a1, b1}
  /\ part = "successors" <=> LoggingIn = {a1, a2}
  /\ part = "foods" <=> LoggingIn = {b1}
  /\ ShutdownInit

GameNext ==
  /\ UNCHANGED part
  /\ \/ part = "sessions" /\ Next /\ UNCHANGED <<stopvars, scenevars>>
     \/ part = "shutdown" /\ ShutdownNext /\ sent' = 0 /\ UNCHANGED scenevars
     \/ /\ part \in {"scenes", "successors", "foods"}
        /\ SceneNext
        /\ part = "scenes" => food_max_id'[X] <= 1
        /\ part = "successors" => food_max_id' = food_max_id
        /\ UNCHANGED gamevars

GameSpec == GameInit /\ [][GameNext]_<<part, gamevars, scenevars>>

TypesOK == TypeOK /\ StopTypeOK /\ SceneTypeOK
=============================================================================
