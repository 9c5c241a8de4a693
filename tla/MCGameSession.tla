--------------------------- MODULE MCGameSession ---------------------------
(* One player, logins that meet on one or two gateways. *)
EXTENDS GameSession

CONSTANTS p1, g1, g2, f1, f2, mgr
=============================================================================
