--------------------------- MODULE MCStoreClient ----------------------------
(* StoreClient for TLC: two handlers, a service with two addresses. *)
EXTENDS StoreClient, TLC

CONSTANTS s1, s2, b1, b2, u1, u2

MCLength == (u1 :> 2 @@ u2 :> 3)
=============================================================================
