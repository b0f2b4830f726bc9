------------------------------ MODULE MCMaster ------------------------------
(* The empty spec, two independent jobs and a stage, with a delivery that   *)
(* passes the checks of the webhook and two that do not.                    *)
EXTENDS Master

CONSTANTS a, b, s, s1, onMain, onManual

MCJob(id, deps, conds) ==
    [id |-> id, dependsOn |-> deps, conditions |-> conds, kind |-> "job",
     jobs |-> <<>>]

MCPipelines == {
    <<>>,
    <<MCJob(a, {}, {}), MCJob(b, {}, {})>>,
    <<[id |-> s, dependsOn |-> {}, conditions |-> {}, kind |-> "stage",
       jobs |-> <<s1>>]>> }

ASSUME \A p \in MCPipelines : DistinctRows(p)

MCManual == {onManual}
MCContexts == {MCManual, {onMain}}

Push == [post |-> TRUE, readable |-> TRUE, signed |-> TRUE, event |-> "push",
         parses |-> TRUE, ctx |-> {onMain}]

MCRequest == {Push, [Push EXCEPT !.signed = FALSE], [Push EXCEPT !.post = FALSE]}
=============================================================================
