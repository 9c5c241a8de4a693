------------------------------ MODULE MCScenes ------------------------------
(* One agent and one scene. *)
EXTENDS SceneAgents, TLC

CONSTANTS ann, a1, X

RoleOfAgent == a1 :> ann
FoodIn == X :> 3
=============================================================================
