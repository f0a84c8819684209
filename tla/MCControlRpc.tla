---------------------------- MODULE MCControlRpc ----------------------------
(* ControlRpc for TLC: a leader and one node. *)
EXTENDS ControlRpc, TLC

CONSTANTS c, n1, u1, u2, u3, s1, s2

MCSymmetry == Permutations({u1, u2, u3}) \cup Permutations({s1, s2})
=============================================================================
