--------------------------- MODULE MCAlcubManager ---------------------------
(* AlcubManager under its most general client, for TLC. *)
EXTENDS AlcubManager, TLC

CONSTANTS p1, p2, n1, u1, u2

MCProcs == {p1, p2}
MCNodes == {n1}
MCUuids == {u1, u2}
MCCaps == {1}

MCSymmetry == Permutations(MCProcs) \cup Permutations(MCUuids)
=============================================================================
