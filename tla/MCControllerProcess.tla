------------------------ MODULE MCControllerProcess -------------------------
(* ControllerProcess for TLC: two replicas. *)
EXTENDS ControllerProcess

CONSTANTS r1, r2
=============================================================================
