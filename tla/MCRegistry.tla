----------------------------- MODULE MCRegistry -----------------------------
(* Two agents, one of which reconnects, and three jobs. *)
EXTENDS Registry, TLC

CONSTANTS a1, a2, c1, c2, c3

MCOwner == (c1 :> a1) @@ (c2 :> a1) @@ (c3 :> a2)
MCCapacity == (a1 :> 1) @@ (a2 :> 2)
=============================================================================
