---------------------------- MODULE MCConnWriter ----------------------------
(* A connection that is sent two buffers, the first larger than SendBuf. *)
EXTENDS ConnWriter

CONSTANTS w1, w2, b1, b2

LargeThenSmall == b1 :> 3 @@ b2 :> 2
=============================================================================
