----------------------------- MODULE MCComponents -----------------------------
(* The components that stand by themselves. A behaviour is about one of them; *)
(* the others rest.                                                          *)
(* TopoSort: every spec of up to three nodes with up to two dependencies     *)
(* each, over three ids, some of them missing or double.  evalConditions:    *)
(* names and patterns of up to three characters, up to two conditions.       *)
(* Brazierfile: programs that change a builder after a stage or the pipeline *)
(* has taken it, that never call Run and that hang.                          *)
(* WorkflowLoader: the bounds are in the cfg.  Bus: two goroutines subscribe *)
(* and two publish, to handlers that publish and subscribe.  Executor: as    *)
(* in MCExecutor.                                                            *)
EXTENDS TopoSort, Conditions, Brazierfile, WorkflowLoader, Bus, MCExecutor

CONSTANTS a, b, c, ch1, ch2, onMain, h1, h2, h3, e1, e2

VARIABLE part

MCID == {a, b, c}
DepLists == {<<>>} \cup {<<x>> : x \in MCID}
            \cup {d \in MCID \X MCID : d[1] # d[2]}
MCNode == [id : MCID, dependsOn : DepLists]
MCSpecs == UNION {[1..n -> MCNode] : n \in 0..2}
           \cup {s \in [1..3 -> MCNode] : \A i \in 1..3 : s[i].id = <<a, b, c>>[i]}

MCChar == {ch1, ch2, "push", "manual"}
MCName == {<<ch1>>, <<ch1, ch2>>, <<ch2, ch1>>, <<ch1, ch2, ch1>>}
MCPattern == {<<>>, <<Star>>, <<ch1>>, <<ch1, ch2>>, <<ch1, Star>>, <<Star, ch1>>,
              <<Star, Star>>, <<ch1, ch2, Star>>, <<Star, ch2, ch1>>, <<ch1, Star, ch2>>,
              <<Star, ch1, Star>>, <<"push">>}

MCPrograms == {
    <<SDKCall("Job", a, <<>>), SDKCall("Job", b, <<>>),
      SDKCall("DependsOn", b, <<a>>), SDKCall("NewPipeline", a, <<a, b>>),
      SDKCall("When", b, <<onMain>>), SDKCall("Run", a, <<>>)>>,
    <<SDKCall("Job", a, <<>>), SDKCall("Job", b, <<>>),
      SDKCall("Stage", c, <<b>>), SDKCall("DependsOn", b, <<a>>),
      SDKCall("When", b, <<onMain>>), SDKCall("DependsOn", c, <<a>>),
      SDKCall("NewPipeline", a, <<c, a>>), SDKCall("Run", a, <<>>)>>,
    <<SDKCall("Job", a, <<>>)>>,
    <<SDKCall("Hang", a, <<>>)>> }

Sub(h, types) == [op |-> "Subscribe", h |-> h, types |-> types]
Pub(type) == [op |-> "Publish", type |-> type]
MCTask == <<Sub(h1, {e1}), Sub(h2, {e1, e2}), Pub(e1), Pub(e2)>>
MCReaction == (h1 :> <<Pub(e2)>>) @@ (h2 :> <<Sub(h3, {e1})>>) @@ (h3 :> <<>>)

\* Components that are not in use; the loader and the executor wait for a call.
NoSort ==
    /\ spec = <<>> /\ next = 1 /\ stack = <<>>
    /\ visited = {} /\ inStack = {} /\ sorted = <<>> /\ result = "sorted"
NoEvaluation == ref = Manual /\ conditions = <<>> /\ passes = "yes"
NoCommand == BrazierfileInit /\ files = [l \in Lang |-> NoFile]
NoCalls ==
    /\ handlers = [t \in EventType |-> <<>>] /\ frames = [t \in Thread |-> <<>>]
    /\ readers = {} /\ writer = {} /\ waiting = {} /\ subscribed = {}

MCInit ==
    /\ part \in {"sort", "conditions", "brazierfile", "loader", "bus", "executor"}
    /\ IF part = "sort" THEN Init ELSE NoSort
    /\ IF part = "conditions" THEN ConditionsInit ELSE NoEvaluation
    /\ IF part = "brazierfile" THEN BrazierfileInit ELSE NoCommand
    /\ IF part = "bus" THEN BusInit ELSE NoCalls
    /\ LoaderInit /\ ExecInit

MCNext ==
    /\ UNCHANGED part
    /\ \/ /\ part = "sort" /\ Next
          /\ UNCHANGED <<cvars, bvars, wvars, busvars, evars>>
       \/ /\ part = "conditions" /\ Evaluate
          /\ UNCHANGED <<tvars, bvars, wvars, busvars, evars>>
       \/ /\ part = "brazierfile" /\ BrazierfileNext
          /\ UNCHANGED <<tvars, cvars, wvars, busvars, evars>>
       \/ /\ part = "loader" /\ LoaderNext
          /\ UNCHANGED <<tvars, cvars, bvars, busvars, evars>>
       \/ /\ part = "bus" /\ BusNext
          /\ UNCHANGED <<tvars, cvars, bvars, wvars, evars>>
       \/ /\ part = "executor" /\ ExecNext
          /\ UNCHANGED <<tvars, cvars, bvars, wvars, busvars>>

MCSpec ==
    /\ MCInit /\ [][MCNext]_<<tvars, cvars, bvars, wvars, busvars, evars, part>>
    /\ LoaderFairness /\ BusFairness /\ ExecFairness
=============================================================================
