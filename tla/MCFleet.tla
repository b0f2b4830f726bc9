------------------------------- MODULE MCFleet -------------------------------
(* An agent that reconnects once, another that does not, and their jobs. *)
EXTENDS Fleet, TLC

CONSTANTS a1, a2, c1, c2, c3

MCOwner == (c1 :> a1) @@ (c2 :> a1) @@ (c3 :> a2)
MCCapacity == (a1 :> 2) @@ (a2 :> 1)

\* Jobs are interchangeable.
MCSymmetry == Permutations(Job)
=============================================================================
