----------------------------- MODULE MCPipeline -----------------------------
(* Instances of Pipeline for TLC: DAGs with a dependency, a stage, failing  *)
(* conditions and a node without a kind.                                    *)
EXTENDS Pipeline

CONSTANTS a, b, s, s1, s2, onMain

Job(id, deps, conds) ==
    [id |-> id, dependsOn |-> deps, conditions |-> conds, kind |-> "job",
     jobs |-> <<>>]
Stage(id, deps, inner) ==
    [id |-> id, dependsOn |-> deps, conditions |-> {}, kind |-> "stage",
     jobs |-> inner]
Kindless(id, deps) ==
    [id |-> id, dependsOn |-> deps, conditions |-> {}, kind |-> "none",
     jobs |-> <<>>]

\* Listed out of dependency order, so that one Advance cannot reach all nodes.
MCPipelines == {
    <<Job(b, {a}, {onMain}), Job(a, {}, {})>>,
    <<Job(a, {}, {onMain}), Job(b, {}, {}), Job(s, {a, b}, {})>>,
    <<Stage(s, {a}, <<s1, s2>>), Job(a, {}, {onMain})>>,
    <<Kindless(a, {}), Job(b, {a}, {})>> }

MCContexts == {{}, {onMain}}

ASSUME \A p \in MCPipelines : DistinctRows(p)

\* The pipelines every run of which concludes: jobs only, no dependencies and
\* no conditions.
MCFlatPipelines == {
    <<Job(a, {}, {})>>,
    <<Job(a, {}, {}), Job(b, {}, {})>> }

MCNoContext == {{}}

\* A dependency that is satisfied only when its result arrives.
MCChain == {<<Job(a, {}, {}), Job(b, {a}, {})>>}
=============================================================================
