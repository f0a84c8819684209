------------------------------ MODULE MCSystem ------------------------------
(* System for TLC: a leading controller and one or two nodes. *)
EXTENDS System, TLC

CONSTANTS c, n1, n2, u1, u2, t1, s1, s2
=============================================================================
