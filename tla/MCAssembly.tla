----------------------------- MODULE MCAssembly -----------------------------
(* Runs of a stage with one job, and an agent that connects once. *)
EXTENDS Assembly, TLC

CONSTANTS a1, c1, s, s1, r1

MCOwner == c1 :> a1
MCCapacity == a1 :> 1
MCRunOf == [q \in Reader |-> r1]

MCJob == Run \X NodeID

MCPipelines == {<<[id |-> s, dependsOn |-> {}, conditions |-> {},
                   kind |-> "stage", jobs |-> <<s1>>]>>}
MCContexts == {{}}
=============================================================================
