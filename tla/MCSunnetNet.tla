---------------------------- MODULE MCSunnetNet ----------------------------
(* Two clients that get the same number, one after the other. *)
EXTENDS SunnetNet

CONSTANT w1
=============================================================================
