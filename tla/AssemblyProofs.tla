--------------------------- MODULE AssemblyProofs ---------------------------
(***************************************************************************)
(* Proofs about Assembly, for any number of runs, pipelines, agents,       *)
(* connections and status requests, with every failure.                    *)
(***************************************************************************)
EXTENDS Assembly, FleetProofs

-----------------------------------------------------------------------------
(* The inductive invariant of the manager's side. *)

\* k numbers a row of the i-th node of pipeline p.
InPipeline(p, i, k) == i \in 1..Len(p) /\ k \in 0..Len(P!Inner(p[i]))

\* Only the rows of the pipeline are written; seeding has written those
\* before the cursor, and Start all of them.
Written(r) ==
    /\ start[r].pc = "idle" => Rows(r) = {}
    /\ Rows(r) \subseteq RowSet(spec[r])
    /\ start[r].pc = "seed" =>
         /\ start[r].i \in 1..(Len(spec[r]) + 1)
         /\ start[r].j = 0 \/ InPipeline(spec[r], start[r].i, start[r].j)
    /\ \A i, k \in Nat :
         /\ InPipeline(spec[r], i, k)
         /\ \/ start[r].pc = "done"
            \/ /\ start[r].pc = "seed"
               /\ i < start[r].i \/ (i = start[r].i /\ k < start[r].j)
         => P!Row(spec[r][i], k) \in Rows(r)

\* Before Start is done nothing but Start works on a run.
Untouched(r) ==
    /\ start[r].pc # "done" => runs[r] # "running" /\ adv[r]["main"].pc = "idle"
    /\ start[r].pc = "idle" => runs[r] = P!Absent

\* The cursor of an Advance is within the pipeline.
Cursor(r) ==
    /\ adv[r]["main"].pc \in {"loop", "dispatch"} => adv[r]["main"].i >= 1
    /\ adv[r]["main"].pc = "dispatch" => adv[r]["main"].i <= Len(spec[r])

\* What a status request has read.
Asked(q) ==
    /\ query[q].pc = "list" => query[q].state # P!Absent /\ ~query[q].cut
    /\ query[q].pc # "idle" /\ query[q].state # P!Absent =>
         /\ start[RunOf[q]].pc # "idle"
         /\ query[q].state = "running" => start[RunOf[q]].pc = "done"
         /\ query[q].rows \subseteq RowSet(spec[RunOf[q]])
         /\ query[q].pc = "done" /\ query[q].state = "running" /\ ~query[q].cut =>
              query[q].rows = RowSet(spec[RunOf[q]])

QueryType == [pc : {"idle", "list", "done"},
              state : P!RunState \cup {P!Absent}, rows : SUBSET NodeID,
              cut : BOOLEAN]

AInv ==
    /\ FleetTypeOK
    /\ P!TypeOK
    /\ query \in [Reader -> QueryType]
    /\ \A r \in Run : Written(r) /\ Untouched(r) /\ Cursor(r)
    /\ \A q \in Reader : Asked(q)

-----------------------------------------------------------------------------
(* The inductive invariant of the jobs. *)

\* The rows the Advance of a run has not come to are as it has read them, and
\* the node it is dispatching is marked.
Fresh(r) ==
    /\ adv[r]["main"].pc \in {"loop", "dispatch"} =>
         \A i \in 1..Len(spec[r]) :
           adv[r]["main"].i < i \/ (adv[r]["main"].i = i /\ adv[r]["main"].pc = "loop")
           => nodes[r][spec[r][i].id] = adv[r]["main"].seen[spec[r][i].id]
    /\ adv[r]["main"].pc = "dispatch" =>
         nodes[r][P!Current(r, "main").id] = "running"

\* A job is out, or being sent, only while its node is marked, and is counted
\* when it is sent; before the end of Start there is none.
JobsOf(r) ==
    /\ start[r].pc # "done" => \A x \in NodeID : disp[<<r, x>>].pc = "idle"
    /\ \A x \in NodeID :
         dispatched[r][x] = IF disp[<<r, x>>].pc = "sent" THEN 1 ELSE 0
    /\ \A i \in 1..Len(spec[r]) : \A k \in 0..Len(P!Inner(spec[r][i])) :
         disp[<<r, P!Row(spec[r][i], k)>>].pc \in {"send", "sent"} =>
           nodes[r][spec[r][i].id] = "running"

JobsInv == AInv /\ \A r \in Run : Fresh(r) /\ JobsOf(r)

-----------------------------------------------------------------------------
(* Types of the manager, as it is wired here *)

LEMMA MainCalls == P!Caller = {"main"}
BY DEF P!Caller

LEMMA PLocalTypes ==
    /\ P!IdleAdvance \in P!AdvanceState
    /\ P!CalledAdvance \in P!AdvanceState
BY DEF P!IdleAdvance, P!CalledAdvance, P!NoRows, P!RowState, P!AdvanceState

LEMMA PGotoType ==
    ASSUME P!TypeOK, NEW r \in Run, NEW pc \in {"loop", "dispatch"},
           NEW i \in Nat, NEW j \in Nat, P!Goto(r, "main", pc, i, j)
    PROVE  adv' \in [Run -> [P!Caller -> P!AdvanceState]]
<1>1. adv[r]["main"] \in P!AdvanceState
  BY MainCalls DEF P!TypeOK
<1>2. [pc |-> pc, i |-> i, j |-> j, seen |-> adv[r]["main"].seen] \in P!AdvanceState
  BY <1>1 DEF P!AdvanceState
<1> QED
  BY <1>2, MainCalls DEF P!TypeOK, P!Goto

\* The manager's own steps, for one run.
ManagerMove(r) ==
    \/ P!StartCall(r) \/ P!SeedNode(r) \/ P!StartRunning(r) \/ P!StartFail(r)
    \/ P!AdvanceStep(r, "main")
    \/ P!AdvanceListFail(r, "main") \/ P!AdvanceMarkFail(r, "main")

LEMMA PTypeStep ==
    ASSUME P!TypeOK, NEW r \in Run, ManagerMove(r)
    PROVE  P!TypeOK'
<1>t. /\ adv \in [Run -> [P!Caller -> P!AdvanceState]]
      /\ start \in [Run -> P!StartState]
      /\ nodes \in [Run -> [NodeID -> P!RowState]]
      /\ dispatched \in [Run -> [NodeID -> Nat]]
  BY DEF P!TypeOK
<1>a. adv[r]["main"] \in P!AdvanceState /\ start[r] \in P!StartState
  BY <1>t, MainCalls
<1>1. CASE P!StartCall(r)
  BY <1>1 DEF P!TypeOK, P!StartCall, P!CreateRun, P!RunState, P!StartState
<1>2. CASE P!SeedNode(r)
  <2>1. start' \in [Run -> P!StartState]
    BY <1>t, <1>a, <1>2 DEF P!SeedNode, P!StartState
  <2>2. nodes' \in [Run -> [NodeID -> P!RowState]]
    BY <1>t, <1>2 DEF P!SeedNode, P!UpsertNode, P!RowState, P!NodeState
  <2> QED
    BY <1>2, <2>1, <2>2 DEF P!TypeOK, P!SeedNode
<1>3. CASE P!StartRunning(r)
  BY <1>3, PLocalTypes, MainCalls
     DEF P!TypeOK, P!StartRunning, P!UpdateRunState, P!RunState, P!StartState
<1>4. CASE P!StartFail(r)
  BY <1>4 DEF P!TypeOK, P!StartFail, P!StartState
<1>5. CASE P!AdvanceList(r, "main")
  BY <1>5 DEF P!TypeOK, P!AdvanceList, P!ListNodes, P!AdvanceState
<1>6. CASE P!AdvanceListFail(r, "main") \/ P!AdvanceReturn(r, "main")
  <2>1. adv' = [adv EXCEPT ![r]["main"] = P!IdleAdvance]
    BY <1>6 DEF P!AdvanceListFail, P!AdvanceReturn
  <2>2. adv' \in [Run -> [P!Caller -> P!AdvanceState]]
    BY <1>t, <2>1, PLocalTypes
  <2> QED
    BY <1>6, <2>2 DEF P!TypeOK, P!AdvanceListFail, P!AdvanceReturn
<1>7. ASSUME P!NextNode(r, "main")
      PROVE  adv' \in [Run -> [P!Caller -> P!AdvanceState]]
  <2>1. adv[r]["main"].i + 1 \in Nat
    BY <1>a DEF P!AdvanceState
  <2>2. P!Goto(r, "main", "loop", adv[r]["main"].i + 1, 0)
    BY <1>7 DEF P!NextNode
  <2> QED
    BY <2>1, <2>2, PGotoType
<1>8. CASE P!AdvancePass(r, "main") \/ P!AdvanceMarkFail(r, "main")
             \/ P!AdvanceNext(r, "main")
  BY <1>7, <1>8 DEF P!TypeOK, P!AdvancePass, P!AdvanceMarkFail, P!AdvanceNext
<1>9. CASE P!AdvanceSkip(r, "main")
  <2>1. nodes' \in [Run -> [NodeID -> P!RowState]]
    <3>1. \/ nodes' = nodes
          \/ \E x : nodes' = [nodes EXCEPT ![r][x] = "skipped"]
      BY <1>9 DEF P!AdvanceSkip, P!UpsertNode
    <3>2. "skipped" \in P!RowState
      BY DEF P!RowState, P!NodeState
    <3>3. ASSUME NEW x
          PROVE  [nodes EXCEPT ![r][x] = "skipped"] \in
                   [Run -> [NodeID -> P!RowState]]
      BY <1>t, <3>2
    <3>4. CASE nodes' = nodes
      BY <1>t, <3>4
    <3>5. CASE \E x : nodes' = [nodes EXCEPT ![r][x] = "skipped"]
      <4>1. PICK x : nodes' = [nodes EXCEPT ![r][x] = "skipped"]
        BY <3>5
      <4> QED
        BY <3>3, <4>1
    <3> QED
      BY <3>1, <3>4, <3>5
  <2> QED
    BY <1>7, <1>9, <2>1 DEF P!TypeOK, P!AdvanceSkip
<1>10. CASE P!AdvanceMark(r, "main")
  <2>1. nodes' \in [Run -> [NodeID -> P!RowState]]
    BY <1>t, <1>10 DEF P!AdvanceMark, P!UpsertNode, P!RowState, P!NodeState
  <2>2. adv' \in [Run -> [P!Caller -> P!AdvanceState]]
    BY <1>a, <1>10, PGotoType DEF P!AdvanceMark, P!AdvanceState, P!FirstTarget
  <2> QED
    BY <1>10, <2>1, <2>2 DEF P!TypeOK, P!AdvanceMark
<1>11. CASE P!AdvanceDispatch(r, "main")
  <2>1. adv' \in [Run -> [P!Caller -> P!AdvanceState]]
    <3>1. adv[r]["main"].i \in Nat /\ adv[r]["main"].j + 1 \in Nat
      BY <1>a DEF P!AdvanceState
    <3>2. P!Goto(r, "main", "dispatch", adv[r]["main"].i, adv[r]["main"].j + 1)
      BY <1>11 DEF P!AdvanceDispatch
    <3> QED
      BY <3>1, <3>2, PGotoType
  <2>2. dispatched' \in [Run -> [NodeID -> Nat]]
    <3> DEFINE y == P!Row(P!Current(r, "main"), adv[r]["main"].j)
    <3>1. dispatched' = dispatched \/ dispatched' = [dispatched EXCEPT ![r][y] = @ + 1]
      BY <1>11 DEF P!AdvanceDispatch
    <3> HIDE DEF y
    <3>2. ASSUME NEW x \in NodeID
          PROVE  [dispatched EXCEPT ![r][x] = @ + 1] \in [Run -> [NodeID -> Nat]]
      BY <1>t
    <3>3. ASSUME NEW x, x \notin NodeID
          PROVE  [dispatched EXCEPT ![r][x] = @ + 1] = dispatched
      <4>1. [dispatched[r] EXCEPT ![x] = @ + 1] = dispatched[r]
        BY <1>t, <3>3
      <4> QED
        BY <1>t, <4>1
    <3>4. CASE y \in NodeID
      BY <1>t, <3>1, <3>2, <3>4
    <3>5. CASE y \notin NodeID
      BY <1>t, <3>1, <3>3, <3>5
    <3> QED
      BY <3>4, <3>5
  <2> QED
    BY <1>11, <2>1, <2>2 DEF P!TypeOK, P!AdvanceDispatch
<1> QED
  BY <1>1, <1>2, <1>3, <1>4, <1>5, <1>6, <1>8, <1>9, <1>10, <1>11
     DEF ManagerMove, P!AdvanceStep

-----------------------------------------------------------------------------
(* Rows *)

LEMMA InnerLength ==
    ASSUME NEW n \in P!Node
    PROVE  Len(P!Inner(n)) \in Nat
BY DEF P!Node, P!Inner

LEMMA PipelineRows ==
    ASSUME NEW p \in Pipelines \cup {<<>>}
    PROVE  /\ Len(p) \in Nat
           /\ \A i, k \in Nat : InPipeline(p, i, k) =>
                /\ P!Row(p[i], k) \in RowSet(p)
                /\ P!Row(p[i], 0) = p[i].id /\ InPipeline(p, i, 0)
                /\ p[i].id \in NodeID
                /\ Len(P!Inner(p[i])) \in Nat
                /\ i \in 1..Len(p) /\ k \in 0..Len(P!Inner(p[i]))
           /\ \A x \in RowSet(p) :
                \E i, k \in Nat : InPipeline(p, i, k) /\ x = P!Row(p[i], k)
<1>1. p \in Seq(P!Node)
  <2>1. CASE p \in Pipelines
    BY <2>1, SpecAssumption
  <2>2. CASE p = <<>>
    BY <2>2
  <2> QED
    BY <2>1, <2>2
<1>2. Len(p) \in Nat
  BY <1>1
<1>3. ASSUME NEW i \in 1..Len(p)
      PROVE  p[i] \in P!Node /\ P!Inner(p[i]) \in Seq(NodeID)
  <2>1. p[i] \in P!Node
    BY <1>1
  <2> QED
    BY <2>1 DEF P!Node, P!Inner
<1>4. ASSUME NEW i \in Nat, NEW k \in Nat, InPipeline(p, i, k)
      PROVE  /\ P!Row(p[i], k) \in RowSet(p)
             /\ P!Row(p[i], 0) = p[i].id /\ InPipeline(p, i, 0)
             /\ p[i].id \in NodeID
             /\ Len(P!Inner(p[i])) \in Nat
             /\ i \in 1..Len(p) /\ k \in 0..Len(P!Inner(p[i]))
  <2>1. i \in 1..Len(p) /\ k \in 0..Len(P!Inner(p[i]))
    BY <1>4 DEF InPipeline
  <2>2. p[i] \in P!Node /\ Len(P!Inner(p[i])) \in Nat
    BY <1>3, <2>1
  <2>3. p[i].id \in NodeID
    BY <2>2 DEF P!Node
  <2>4. P!Row(p[i], k) \in NodeID
    <3>1. CASE k = 0
      BY <2>3, <3>1 DEF P!Row
    <3>2. CASE k # 0
      <4>1. k \in 1..Len(P!Inner(p[i])) /\ P!Inner(p[i]) = p[i].jobs
        BY <2>1, <2>2, <3>2 DEF P!Inner, P!Node
      <4> QED
        BY <1>3, <2>1, <3>2, <4>1 DEF P!Row
    <3> QED
      BY <3>1, <3>2
  <2> QED
    BY <2>1, <2>2, <2>3, <2>4 DEF RowSet, P!Row, InPipeline
<1>5. ASSUME NEW x \in RowSet(p)
      PROVE  \E i, k \in Nat : InPipeline(p, i, k) /\ x = P!Row(p[i], k)
  <2>1. PICK i \in 1..Len(p) :
          \E k \in 0..Len(P!Inner(p[i])) : x = P!Row(p[i], k)
    BY DEF RowSet
  <2>2. PICK k \in 0..Len(P!Inner(p[i])) : x = P!Row(p[i], k)
    BY <2>1
  <2> QED
    BY <1>2, <1>3, <2>2 DEF InPipeline
<1> QED
  BY <1>2, <1>4, <1>5

\* The row an Advance dispatches is one of the run's, and so is its job.
LEMMA DispatchedRow ==
    ASSUME AInv, NEW r \in Run, Dispatching(r)
    PROVE  /\ InPipeline(spec[r], adv[r]["main"].i, adv[r]["main"].j)
           /\ P!Row(P!Current(r, "main"), adv[r]["main"].j) \in NodeID
           /\ JobOf(r) \in Job
<1>1. adv[r]["main"] \in P!AdvanceState /\ spec[r] \in Pipelines \cup {<<>>}
  BY MainCalls DEF AInv, P!TypeOK
<1>2. adv[r]["main"].i \in Nat /\ adv[r]["main"].j \in Nat
  BY <1>1 DEF P!AdvanceState
<1>3. adv[r]["main"].i \in 1..Len(spec[r])
  BY <1>1, <1>2, PipelineRows DEF AInv, Cursor, Dispatching
<1>4. Len(P!Inner(spec[r][adv[r]["main"].i])) \in Nat
  <2>1. spec[r] \in Pipelines
    BY <1>1, <1>3
  <2>2. spec[r][adv[r]["main"].i] \in P!Node
    BY <1>3, <2>1, SpecAssumption
  <2> QED
    BY <2>2 DEF P!Node, P!Inner
<1>5. InPipeline(spec[r], adv[r]["main"].i, adv[r]["main"].j)
  BY <1>2, <1>3, <1>4 DEF Dispatching, P!LastTarget, P!Current, InPipeline
<1>6. P!Row(P!Current(r, "main"), adv[r]["main"].j) \in RowSet(spec[r])
  BY <1>1, <1>2, <1>5, PipelineRows DEF P!Current
<1> QED
  BY <1>5, <1>6, JobAssumption DEF RowSet, JobOf

-----------------------------------------------------------------------------
(* What a step is to the registry and to the manager *)

LEMMA AssemblyFleet ==
    ASSUME AInv, [AssemblyNext]_avars
    PROVE  [FleetNext]_fvars
<1>1. CASE AgentStep
  BY <1>1 DEF AgentStep, FleetNext, RegistryStep
<1>2. ASSUME NEW r \in Run, ManagerStep(r) \/ SubmitPipeline(r) \/ StoreFails(r)
      PROVE  [FleetNext]_fvars
  BY <1>2 DEF ManagerStep, SubmitPipeline, StoreFails
<1>3. ASSUME NEW r \in Run, DispatchBegins(r) \/ DispatchSends(r) \/ DispatchErrs(r)
      PROVE  FleetNext
  <2>1. JobOf(r) \in Job
    BY <1>3, DispatchedRow DEF DispatchBegins, DispatchSends, DispatchErrs
  <2> QED
    BY <1>3, <2>1 DEF DispatchBegins, DispatchSends, DispatchErrs, FleetNext,
                      RegistryStep
<1>4. ASSUME NEW q \in Reader, ReadRun(q) \/ ReadNodes(q)
      PROVE  [FleetNext]_fvars
  BY <1>4 DEF ReadNodes, ReadRun
<1>5. CASE UNCHANGED avars
  BY <1>5 DEF avars
<1> QED
  BY <1>1, <1>2, <1>3, <1>4, <1>5 DEF AssemblyNext

LEMMA AssemblyManager ==
    ASSUME [AssemblyNext]_avars
    PROVE  UNCHANGED pvars \/ \E r \in Run : ManagerMove(r) /\ query' = query
<1>1. CASE AgentStep
  BY <1>1 DEF AgentStep
<1>2. ASSUME NEW r \in Run, ManagerStep(r) \/ SubmitPipeline(r) \/ StoreFails(r)
      PROVE  ManagerMove(r) /\ query' = query
  BY <1>2 DEF ManagerStep, SubmitPipeline, StoreFails, ManagerMove, P!StartStep
<1>3. ASSUME NEW r \in Run, DispatchBegins(r)
      PROVE  UNCHANGED pvars
  BY <1>3 DEF DispatchBegins
<1>4. ASSUME NEW r \in Run, DispatchSends(r) \/ DispatchErrs(r)
      PROVE  ManagerMove(r) /\ query' = query
  BY <1>4 DEF DispatchSends, DispatchErrs, ManagerMove, P!AdvanceStep
<1>5. ASSUME NEW q \in Reader, ReadRun(q) \/ ReadNodes(q)
      PROVE  UNCHANGED pvars
  BY <1>5 DEF ReadNodes, ReadRun
<1>6. CASE UNCHANGED avars
  BY <1>6 DEF avars
<1> QED
  BY <1>1, <1>2, <1>3, <1>4, <1>5, <1>6 DEF AssemblyNext

-----------------------------------------------------------------------------
(* Steps of one run *)

SameRun(r) ==
    /\ runs'[r] = runs[r] /\ nodes'[r] = nodes[r] /\ spec'[r] = spec[r]
    /\ start'[r] = start[r] /\ adv'[r] = adv[r] /\ dispatched'[r] = dispatched[r]

LEMMA OtherRuns ==
    ASSUME P!TypeOK, NEW r \in Run, ManagerMove(r), NEW q \in Run, q # r
    PROVE  SameRun(q)
BY DEF P!TypeOK, SameRun, ManagerMove, P!StartCall, P!CreateRun, P!SeedNode,
       P!UpsertNode, P!StartRunning, P!UpdateRunState, P!StartFail, P!AdvanceStep,
       P!AdvanceList, P!AdvancePass, P!AdvanceSkip, P!AdvanceMark,
       P!AdvanceDispatch, P!AdvanceNext, P!AdvanceReturn, P!AdvanceListFail,
       P!AdvanceMarkFail, P!NextNode, P!Goto

LEMMA SameRunKeeps ==
    ASSUME NEW r \in Run, SameRun(r), Written(r), Untouched(r), Cursor(r)
    PROVE  Written(r)' /\ Untouched(r)' /\ Cursor(r)'
BY DEF SameRun, Written, Untouched, Cursor, Rows

LEMMA RowZero ==
    ASSUME AInv, NEW r \in Run, adv[r]["main"].i \in 1..Len(spec[r])
    PROVE  /\ adv[r]["main"].i \in Nat
           /\ InPipeline(spec[r], adv[r]["main"].i, 0)
<1>1. /\ adv[r]["main"] \in P!AdvanceState /\ spec[r] \in Pipelines \cup {<<>>}
  BY MainCalls DEF AInv, P!TypeOK
<1>2. spec[r] \in Pipelines
  BY <1>1
<1>3. spec[r][adv[r]["main"].i] \in P!Node
  BY <1>2, SpecAssumption
<1>4. Len(P!Inner(spec[r][adv[r]["main"].i])) \in Nat
  BY <1>3, InnerLength
<1> QED
  BY <1>1, <1>4 DEF P!AdvanceState, InPipeline

\* Where an Advance may go from its node.
LEMMA AdvanceMoves ==
    ASSUME AInv, NEW r \in Run,
           \/ P!AdvanceStep(r, "main") \/ P!AdvanceListFail(r, "main")
           \/ P!AdvanceMarkFail(r, "main")
    PROVE  /\ start[r].pc = "done" /\ UNCHANGED <<runs, spec, start>>
           /\ Cursor(r)'
           /\ \/ nodes' = nodes
              \/ \E state \in {"skipped", "running"} :
                   nodes' = [nodes EXCEPT ![r][P!Current(r, "main").id] = state]
           /\ nodes' # nodes =>
                adv[r]["main"].pc = "loop" /\ adv[r]["main"].i \in 1..Len(spec[r])
<1>1. /\ adv \in [Run -> [P!Caller -> P!AdvanceState]]
      /\ adv[r]["main"] \in P!AdvanceState /\ spec[r] \in Pipelines \cup {<<>>}
  BY MainCalls DEF AInv, P!TypeOK
<1>2. /\ adv[r]["main"].i \in Nat /\ Len(spec[r]) \in Nat /\ "main" \in P!Caller
      /\ Cursor(r) /\ Untouched(r)
  BY <1>1, PipelineRows, MainCalls DEF P!AdvanceState, AInv
<1> USE DEF P!AdvanceStep, P!AdvanceList, P!AdvancePass, P!AdvanceSkip,
       P!AdvanceMark, P!AdvanceDispatch, P!AdvanceNext, P!AdvanceReturn,
       P!AdvanceListFail, P!AdvanceMarkFail, P!Looping
<1>3. UNCHANGED <<runs, spec, start>> /\ adv[r]["main"].pc # "idle"
  OBVIOUS
<1>4. start[r].pc = "done"
  BY <1>2, <1>3 DEF Untouched
<1>5. \/ nodes' = nodes
      \/ \E state \in {"skipped", "running"} :
           nodes' = [nodes EXCEPT ![r][P!Current(r, "main").id] = state]
  BY DEF P!UpsertNode
<1>6. nodes' # nodes =>
        adv[r]["main"].pc = "loop" /\ adv[r]["main"].i \in 1..Len(spec[r])
  BY <1>2 DEF Cursor
<1>7. adv'[r]["main"].pc \in {"loop", "dispatch"} => adv'[r]["main"].i >= 1
  BY <1>1, <1>2 DEF P!NextNode, P!Goto, Cursor, P!IdleAdvance
<1>8. adv'[r]["main"].pc = "dispatch" => adv'[r]["main"].i <= Len(spec[r])
  BY <1>1, <1>2 DEF P!NextNode, P!Goto, Cursor, P!IdleAdvance
<1> QED
  BY <1>3, <1>4, <1>5, <1>6, <1>7, <1>8 DEF Cursor

\* Once Start is done the rows of a run are those of its pipeline.
LEMMA StartedComplete ==
    ASSUME AInv, NEW r \in Run, start[r].pc = "done"
    PROVE  Rows(r) = RowSet(spec[r])
<1>1. spec[r] \in Pipelines \cup {<<>>} /\ Written(r)
  BY DEF AInv, P!TypeOK
<1>2. ASSUME NEW x \in RowSet(spec[r])
      PROVE  x \in Rows(r)
  <2>1. PICK i, k \in Nat : InPipeline(spec[r], i, k) /\ x = P!Row(spec[r][i], k)
    BY <1>1, PipelineRows
  <2> QED
    BY <1>1, <2>1 DEF Written
<1> QED
  BY <1>1, <1>2 DEF Written

LEMMA MoveKeeps ==
    ASSUME AInv, NEW r \in Run, ManagerMove(r)
    PROVE  /\ \A q \in Run : Written(q)' /\ Untouched(q)' /\ Cursor(q)'
           /\ \A q \in Run : /\ start[q].pc = "done" => start'[q].pc = "done"
                             /\ start[q].pc # "idle" =>
                                  start'[q].pc # "idle" /\ spec'[q] = spec[q]
<1>1. \A q \in Run \ {r} : SameRun(q)
  BY OtherRuns DEF AInv
<1>2. \A q \in Run \ {r} : /\ Written(q)' /\ Untouched(q)' /\ Cursor(q)'
                           /\ start'[q] = start[q] /\ spec'[q] = spec[q]
  BY <1>1, SameRunKeeps DEF AInv, SameRun
<1>t. /\ adv \in [Run -> [P!Caller -> P!AdvanceState]] /\ "main" \in P!Caller
      /\ start \in [Run -> P!StartState]
      /\ runs \in [Run -> P!RunState \cup {P!Absent}]
      /\ nodes \in [Run -> [NodeID -> P!RowState]]
      /\ spec \in [Run -> Pipelines \cup {<<>>}]
      /\ adv[r] \in [P!Caller -> P!AdvanceState]
      /\ start[r] \in P!StartState
      /\ Written(r) /\ Untouched(r) /\ Cursor(r)
  BY MainCalls DEF AInv, P!TypeOK
<1>3. CASE P!StartCall(r)
  <2>1. /\ start[r].pc = "idle" /\ start'[r] = [pc |-> "seed", i |-> 1, j |-> 0]
        /\ runs'[r] = "pending" /\ UNCHANGED <<nodes, adv>>
        /\ spec'[r] \in Pipelines
    BY <1>t, <1>3 DEF P!StartCall, P!CreateRun
  <2>2. Rows(r)' = {} /\ Len(spec'[r]) \in Nat
    <3>1. Len(spec'[r]) \in Nat
      BY <2>1, PipelineRows
    <3> QED
      BY <1>t, <2>1, <3>1 DEF Written, Rows
  <2>3. Written(r)'
    BY <2>1, <2>2, PipelineRows DEF Written, InPipeline
  <2>4. Untouched(r)' /\ Cursor(r)'
    BY <1>t, <2>1 DEF Untouched, Cursor
  <2> QED
    BY <1>2, <2>1, <2>3, <2>4
<1>4. CASE P!SeedNode(r)
  <2> DEFINE i0 == start[r].i
             j0 == start[r].j
             x == P!Row(spec[r][i0], j0)
  <2>1. /\ start[r].pc = "seed" /\ i0 <= Len(spec[r])
        /\ nodes' = [nodes EXCEPT ![r][x] = "pending"]
        /\ start'[r] = IF j0 < Len(P!Inner(spec[r][i0]))
                       THEN [pc |-> "seed", i |-> i0, j |-> j0 + 1]
                       ELSE [pc |-> "seed", i |-> i0 + 1, j |-> 0]
        /\ UNCHANGED <<runs, spec, adv>>
    BY <1>t, <1>4 DEF P!SeedNode, P!UpsertNode
  <2>2. /\ i0 \in Nat /\ j0 \in Nat /\ Len(spec[r]) \in Nat
        /\ i0 \in 1..Len(spec[r])
    BY <1>t, <2>1, PipelineRows DEF P!StartState, Written
  <2>3. Len(P!Inner(spec[r][i0])) \in Nat
    <3>1. spec[r][i0] \in P!Node
      BY <1>t, <2>2, SpecAssumption
    <3> QED
      BY <3>1 DEF P!Node, P!Inner
  <2>4. InPipeline(spec[r], i0, j0)
    BY <1>t, <2>1, <2>2, <2>3 DEF Written, InPipeline
  <2>5. x \in RowSet(spec[r]) /\ x \in NodeID
    BY <1>t, <2>2, <2>4, PipelineRows DEF RowSet
  <2> HIDE DEF x
  <2>6. Rows(r)' = Rows(r) \cup {x}
    BY <1>t, <2>1, <2>5 DEF Rows, P!Absent
  <2>7. Rows(r)' \subseteq RowSet(spec[r])
    BY <1>t, <2>5, <2>6 DEF Written
  <2>8. /\ start'[r].pc = "seed" /\ start'[r].i \in 1..(Len(spec[r]) + 1)
        /\ start'[r].j = 0 \/ InPipeline(spec[r], start'[r].i, start'[r].j)
    BY <2>1, <2>2, <2>3, <2>4 DEF InPipeline
  <2>9. ASSUME NEW i \in Nat, NEW k \in Nat, InPipeline(spec[r], i, k),
               i < start'[r].i \/ (i = start'[r].i /\ k < start'[r].j)
        PROVE  P!Row(spec[r][i], k) \in Rows(r)'
    <3>1. CASE i = i0 /\ k = j0
      BY <2>6, <3>1 DEF x
    <3>2. CASE i < i0 \/ (i = i0 /\ k < j0)
      BY <1>t, <2>1, <2>6, <2>9, <3>2 DEF Written
    <3>3. k \in 0..Len(P!Inner(spec[r][i]))
      BY <2>9 DEF InPipeline
    <3> QED
      BY <2>1, <2>2, <2>3, <2>9, <3>1, <3>2, <3>3
  <2>10. Written(r)'
    BY <2>1, <2>7, <2>8, <2>9 DEF Written
  <2>11. Untouched(r)' /\ Cursor(r)'
    BY <1>t, <2>1, <2>8 DEF Untouched, Cursor
  <2> QED
    BY <1>2, <2>1, <2>10, <2>11
<1>5. CASE P!StartRunning(r)
  <2>1. /\ start[r].pc = "seed" /\ start'[r].pc = "done" /\ UNCHANGED <<nodes, spec>>
        /\ start[r].i > Len(spec[r]) /\ adv'[r]["main"] = P!CalledAdvance
    BY <1>t, <1>5 DEF P!StartRunning
  <2>2. start[r].i \in Nat /\ Len(spec[r]) \in Nat
    BY <1>t, PipelineRows DEF P!StartState
  <2>3. Written(r)'
    BY <1>t, <2>1, <2>2 DEF Written, Rows, InPipeline
  <2>4. Untouched(r)' /\ Cursor(r)'
    BY <2>1 DEF Untouched, Cursor, P!CalledAdvance
  <2> QED
    BY <1>2, <2>1, <2>3, <2>4
<1>6. CASE P!StartFail(r)
  <2>1. /\ start[r].pc = "seed" /\ start'[r].pc = "failed"
        /\ UNCHANGED <<runs, nodes, spec, adv>>
    BY <1>t, <1>6 DEF P!StartFail
  <2>2. Written(r)' /\ Untouched(r)' /\ Cursor(r)'
    BY <1>t, <2>1 DEF Written, Rows, Untouched, Cursor
  <2> QED
    BY <1>2, <2>1, <2>2
<1>7. CASE \/ P!AdvanceStep(r, "main") \/ P!AdvanceListFail(r, "main")
           \/ P!AdvanceMarkFail(r, "main")
  <2>1. /\ start[r].pc = "done" /\ UNCHANGED <<runs, spec, start>> /\ Cursor(r)'
    BY <1>7, AdvanceMoves
  <2>2. Rows(r)' = Rows(r)
    <3>1. CASE nodes' = nodes
      BY <3>1 DEF Rows
    <3>2. CASE nodes' # nodes
      <4>1. PICK state \in {"skipped", "running"} :
              nodes' = [nodes EXCEPT ![r][P!Current(r, "main").id] = state]
        BY <1>7, <3>2, AdvanceMoves
      <4>2. adv[r]["main"].i \in Nat /\ InPipeline(spec[r], adv[r]["main"].i, 0)
        BY <1>7, <3>2, AdvanceMoves, RowZero
      <4>3. P!Current(r, "main").id \in Rows(r)
        BY <1>t, <2>1, <4>2, PipelineRows DEF Written, P!Current
      <4> HIDE <1>7
      <4> QED
        BY <1>t, <4>1, <4>3 DEF Rows, P!Absent
    <3> QED
      BY <3>1, <3>2
  <2>3. Written(r)' /\ Untouched(r)'
    BY <1>t, <2>1, <2>2 DEF Written, Untouched
  <2> QED
    BY <1>2, <2>1, <2>3
<1> QED
  BY <1>3, <1>4, <1>5, <1>6, <1>7 DEF ManagerMove

-----------------------------------------------------------------------------
(* The manager's side *)

LEMMA AInvInit == AssemblyInit => AInv
<1> SUFFICES ASSUME AssemblyInit
             PROVE  AInv
  OBVIOUS
<1>1. FleetTypeOK
  <2>1. TypeOK
    BY TypeInit DEF AssemblyInit, FleetInit
  <2> QED
    BY <2>1 DEF AssemblyInit, FleetInit, Init, FleetTypeOK, JobState
<1>2. P!TypeOK
  BY PLocalTypes DEF AssemblyInit, P!Init, P!TypeOK, P!StartState, P!CompletedState,
     P!RowState
<1>3. query \in [Reader -> QueryType]
  <2>1. Idle \in QueryType
    BY DEF Idle, QueryType
  <2> QED
    BY <2>1 DEF AssemblyInit
<1>4. \A q \in Reader : query[q].pc = "idle"
  BY DEF AssemblyInit, Idle
<1>5. \A r \in Run : Written(r) /\ Untouched(r) /\ Cursor(r)
  BY MainCalls DEF AssemblyInit, P!Init, Written, Rows, Untouched, Cursor,
     P!IdleAdvance, P!Absent
<1> QED
  BY <1>1, <1>2, <1>3, <1>4, <1>5 DEF AInv, Asked

LEMMA AInvStep == AInv /\ [AssemblyNext]_avars => AInv'
<1> SUFFICES ASSUME AInv, [AssemblyNext]_avars
             PROVE  AInv'
  OBVIOUS
<1>1. FleetTypeOK'
  <2>1. [FleetNext]_fvars /\ TypeOK /\ FleetTypeOK
    BY AssemblyFleet DEF AInv, FleetTypeOK
  <2>2. TypeOK'
    BY <2>1, FleetStep, TypeStep
  <2> QED
    BY <2>1, <2>2, FleetTypeStep
<1>2. /\ P!TypeOK'
      /\ \A r \in Run : Written(r)' /\ Untouched(r)' /\ Cursor(r)'
      /\ \A r \in Run : /\ start[r].pc = "done" => start'[r].pc = "done"
                        /\ start[r].pc # "idle" =>
                             start'[r].pc # "idle" /\ spec'[r] = spec[r]
  <2>1. CASE UNCHANGED pvars
    BY <2>1 DEF pvars, AInv, P!TypeOK, Written, Rows, Untouched, Cursor
  <2>2. CASE \E r \in Run : ManagerMove(r)
    BY <2>2, MoveKeeps, PTypeStep DEF AInv
  <2> QED
    BY <2>1, <2>2, AssemblyManager
<1>t. /\ query \in [Reader -> QueryType]
      /\ runs \in [Run -> P!RunState \cup {P!Absent}]
  BY DEF AInv, P!TypeOK
<1>3. \A r \in Run : Rows(r) \subseteq NodeID
  BY DEF Rows
<1>4. ASSUME NEW q \in Reader, ReadRun(q)
      PROVE  query' \in [Reader -> QueryType] /\ \A p \in Reader : Asked(p)'
  <2> DEFINE r == RunOf[q]
  <2>1. UNCHANGED pvars /\ r \in Run /\ Asked(q) /\ query[q].pc = "idle"
    BY <1>4, RunOfAssumption DEF ReadRun, AInv
  <2>2. \/ UNCHANGED query
        \/ /\ runs[r] # P!Absent
           /\ query' = [query EXCEPT ![q] = [Idle EXCEPT !.pc = "list", !.state = runs[r]]]
    BY <1>4 DEF ReadRun
  <2>3. \A p \in Reader \ {q} : query'[p] = query[p]
    BY <1>t, <2>2
  <2>4. query' \in [Reader -> QueryType]
    <3>1. [Idle EXCEPT !.pc = "list", !.state = runs[r]] \in QueryType
      BY <1>t, <2>1 DEF QueryType, Idle
    <3> QED
      BY <1>t, <2>2, <3>1
  <2>5. Asked(q)'
    <3>1. start[r].pc = "idle" => runs[r] = P!Absent
      BY <2>1 DEF AInv, Untouched
    <3>2. start[r].pc # "done" => runs[r] # "running"
      BY <2>1 DEF AInv, Untouched
    <3>3. CASE UNCHANGED query
      BY <2>1, <3>3 DEF Asked, pvars
    <3>4. CASE query'[q] = [Idle EXCEPT !.pc = "list", !.state = runs[r]]
      BY <2>1, <2>2, <3>1, <3>2, <3>4 DEF Asked, pvars, Idle, P!Absent
    <3> QED
      BY <1>t, <2>2, <3>3, <3>4
  <2>6. \A p \in Reader \ {q} : Asked(p)'
    BY <2>1, <2>3 DEF AInv, Asked, pvars
  <2> QED
    BY <2>4, <2>5, <2>6
<1>5. ASSUME NEW q \in Reader, ReadNodes(q)
      PROVE  query' \in [Reader -> QueryType] /\ \A p \in Reader : Asked(p)'
  <2>1. /\ UNCHANGED pvars /\ query[q].pc = "list" /\ Asked(q)
        /\ RunOf[q] \in Run /\ start[RunOf[q]].pc # "idle"
        /\ query[q].state = "running" => start[RunOf[q]].pc = "done"
    BY <1>5, RunOfAssumption DEF ReadNodes, AInv, Asked
  <2>2. PICK rows \in SUBSET Rows(RunOf[q]), cut \in BOOLEAN :
          /\ query' = [query EXCEPT ![q].pc = "done", ![q].rows = rows, ![q].cut = cut]
          /\ ~cut => rows = Rows(RunOf[q])
    BY <1>5 DEF ReadNodes
  <2>3. \A p \in Reader \ {q} : query'[p] = query[p]
    BY <1>t, <2>2
  <2>4. /\ query'[q].pc = "done" /\ query'[q].rows = rows /\ query'[q].cut = cut
        /\ query'[q].state = query[q].state
    BY <1>t, <2>2 DEF QueryType
  <2>5. query' \in [Reader -> QueryType]
    <3>1. rows \in SUBSET NodeID /\ query[q] \in QueryType
      BY <1>t, <1>3, <2>1, <2>2
    <3>2. [query[q] EXCEPT !.pc = "done", !.rows = rows, !.cut = cut] \in QueryType
      BY <2>2, <3>1 DEF QueryType
    <3> QED
      BY <1>t, <2>2, <3>2
  <2>6. rows \subseteq RowSet(spec[RunOf[q]])
    BY <2>1, <2>2 DEF AInv, Written
  <2>7. ASSUME query[q].state = "running", ~cut
        PROVE  rows = RowSet(spec[RunOf[q]])
    BY <2>1, <2>2, <2>7, StartedComplete
  <2>8. Asked(q)'
    BY <2>1, <2>4, <2>6, <2>7 DEF Asked, pvars
  <2>9. \A p \in Reader \ {q} : Asked(p)'
    BY <2>1, <2>3 DEF AInv, Asked, pvars
  <2> QED
    BY <2>5, <2>8, <2>9
<1>k. ASSUME NEW r \in Run, start[r].pc # "idle"
      PROVE  /\ start'[r].pc # "idle" /\ spec'[r] = spec[r]
             /\ start[r].pc = "done" => start'[r].pc = "done"
  BY <1>2, <1>k
<1>6. ASSUME query' = query
      PROVE  query' \in [Reader -> QueryType] /\ \A p \in Reader : Asked(p)'
  <2>1. ASSUME NEW p \in Reader
        PROVE  Asked(p)'
    <3>1. query'[p] = query[p] /\ Asked(p)
      BY <1>6 DEF AInv
    <3>2. CASE query[p].pc # "idle" /\ query[p].state # P!Absent
      <4>1. /\ RunOf[p] \in Run /\ start[RunOf[p]].pc # "idle"
        BY <3>1, <3>2, RunOfAssumption DEF Asked
      <4>2. spec'[RunOf[p]] = spec[RunOf[p]]
        BY <1>k, <4>1
      <4> QED
        BY <1>k, <3>1, <4>1, <4>2 DEF Asked
    <3>3. CASE ~(query[p].pc # "idle" /\ query[p].state # P!Absent)
      BY <3>1, <3>3 DEF Asked
    <3> QED
      BY <3>2, <3>3
  <2> QED
    BY <1>t, <1>6, <2>1
<1>7. \/ query' = query
      \/ \E q \in Reader : ReadRun(q) \/ ReadNodes(q)
  BY DEF AssemblyNext, AgentStep, ManagerStep, SubmitPipeline, StoreFails,
         DispatchBegins, DispatchSends, DispatchErrs, avars
<1>8. query' \in [Reader -> QueryType] /\ \A q \in Reader : Asked(q)'
  BY <1>4, <1>5, <1>6, <1>7, <1>t
<1> QED
  BY <1>1, <1>2, <1>8 DEF AInv

\* AssemblyTypeCorrect: the types of the wired master, and what Start, Advance
\* and GetRun have done to the rows of a run at each of their program points
\* (run.go:35-80, scheduler.go:32-92, server.go:38-53).
THEOREM AssemblyTypeCorrect == AssemblySpec => []AInv
<1> QED
  BY AInvInit, AInvStep, PTL DEF AssemblySpec

\* AssemblyStatusComplete: for any number of runs, clients and failing reads, a
\* client is told of nodes of its run only, and of all of them when the run is
\* running and the list was not cut short by an error.
THEOREM AssemblyStatusComplete == AssemblySpec => []StatusComplete
<1>1. AInv => StatusComplete
  BY DEF AInv, Asked, StatusComplete
<1> QED
  BY <1>1, AssemblyTypeCorrect, PTL

\* AssemblyComposes: the wired master takes only the steps of the run manager's
\* own specification and only those of the fleet's: dispatching through the
\* registry, under its mutex, adds no behaviour to either (main.go:64-76, 131).
THEOREM AssemblyComposes == AssemblySpec => P!Spec /\ FleetSpec
<1>1. AssemblyInit => P!Init /\ FleetInit
  BY DEF AssemblyInit
<1>2. AInv /\ [AssemblyNext]_avars => [FleetNext]_fvars
  BY AssemblyFleet
<1>3. [AssemblyNext]_avars => [P!Next]_(P!vars)
  <2>1. ASSUME NEW r \in Run, ManagerMove(r)
        PROVE  P!Next
    BY <2>1, MainCalls DEF ManagerMove, P!Next, P!StartStep, P!Failure
  <2>2. UNCHANGED pvars => UNCHANGED P!vars
    BY DEF pvars, P!vars
  <2> QED
    BY <2>1, <2>2, AssemblyManager
<1> QED
  BY <1>1, <1>2, <1>3, AssemblyTypeCorrect, PTL DEF AssemblySpec, P!Spec, FleetSpec

-----------------------------------------------------------------------------
(* The jobs *)

\* Rows are identified by their ids.
LEMMA RowsDistinct ==
    ASSUME \A p \in Pipelines : P!DistinctRows(p),
           NEW r \in Run, AInv,
           NEW i \in Nat, NEW j \in Nat, InPipeline(spec[r], i, j),
           NEW k \in Nat, NEW l \in Nat, InPipeline(spec[r], k, l),
           P!Row(spec[r][i], j) = P!Row(spec[r][k], l)
    PROVE  i = k /\ j = l
<1>1. spec[r] \in Pipelines \cup {<<>>}
  BY DEF AInv, P!TypeOK
<1>2. spec[r] \in Pipelines
  BY <1>1 DEF InPipeline
<1> QED
  BY <1>2 DEF P!DistinctRows, InPipeline

\* The dispatches of run r.
SameJobs(r) == \A x \in NodeID : disp'[<<r, x>>] = disp[<<r, x>>]

\* A node of the pipeline of a run, and its own row.
LEMMA NodeRow ==
    ASSUME AInv, NEW r \in Run, NEW i \in 1..Len(spec[r])
    PROVE  /\ i \in Nat /\ InPipeline(spec[r], i, 0)
           /\ P!Row(spec[r][i], 0) = spec[r][i].id /\ spec[r][i].id \in NodeID
<1>1. spec[r] \in Pipelines \cup {<<>>} /\ Len(spec[r]) \in Nat
  BY PipelineRows DEF AInv, P!TypeOK
<1>2. spec[r] \in Pipelines
  BY <1>1
<1>3. spec[r][i] \in P!Node
  BY <1>2, SpecAssumption
<1>4. InPipeline(spec[r], i, 0) /\ i \in Nat
  BY <1>1, <1>3, InnerLength DEF InPipeline
<1> QED
  BY <1>3, <1>4 DEF P!Row, P!Node

LEMMA RowIds ==
    ASSUME AInv, NEW r \in Run
    PROVE  \A i \in 1..Len(spec[r]) : \A k \in 0..Len(P!Inner(spec[r][i])) :
             P!Row(spec[r][i], k) \in NodeID
<1>1. spec[r] \in Pipelines \cup {<<>>}
  BY DEF AInv, P!TypeOK
<1>2. ASSUME NEW i \in 1..Len(spec[r]), NEW k \in 0..Len(P!Inner(spec[r][i]))
      PROVE  P!Row(spec[r][i], k) \in NodeID
  <2>1. i \in Nat /\ k \in Nat /\ InPipeline(spec[r], i, k)
    BY DEF InPipeline
  <2> QED
    BY <1>1, <2>1, PipelineRows DEF RowSet
<1> QED
  BY <1>2

LEMMA JobsKept ==
    ASSUME NEW r \in Run, SameRun(r), SameJobs(r), AInv, Fresh(r), JobsOf(r)
    PROVE  Fresh(r)' /\ JobsOf(r)'
<1>1. Fresh(r)'
  BY DEF Fresh, SameRun, P!Current
<1>2. \A i \in 1..Len(spec[r]) : \A k \in 0..Len(P!Inner(spec[r][i])) :
        P!Row(spec[r][i], k) \in NodeID
  BY RowIds
<1>3. JobsOf(r)'
  BY <1>2 DEF JobsOf, SameRun, SameJobs
<1> QED
  BY <1>1, <1>3

\* The manager's steps other than those of Dispatch.
LEMMA MoveKeepsJobs ==
    ASSUME \A p \in Pipelines : P!DistinctRows(p),
           JobsInv, NEW r \in Run, UNCHANGED disp,
           \/ P!StartCall(r) \/ P!StartStep(r) \/ P!StartFail(r)
           \/ ~Dispatching(r) /\ P!AdvanceStep(r, "main")
           \/ P!AdvanceListFail(r, "main") \/ P!AdvanceMarkFail(r, "main")
    PROVE  Fresh(r)' /\ JobsOf(r)'
<1>t. /\ adv \in [Run -> [P!Caller -> P!AdvanceState]] /\ "main" \in P!Caller
      /\ start \in [Run -> P!StartState] /\ adv[r] \in [P!Caller -> P!AdvanceState]
      /\ nodes \in [Run -> [NodeID -> P!RowState]]
      /\ spec \in [Run -> Pipelines \cup {<<>>}]
      /\ dispatched \in [Run -> [NodeID -> Nat]]
      /\ AInv /\ Written(r) /\ Untouched(r) /\ Cursor(r) /\ Fresh(r) /\ JobsOf(r)
      /\ Len(spec[r]) \in Nat /\ adv[r]["main"] \in P!AdvanceState
  BY MainCalls, PipelineRows DEF JobsInv, AInv, P!TypeOK
<1>r. \A i \in 1..Len(spec[r]) : \A k \in 0..Len(P!Inner(spec[r][i])) :
        P!Row(spec[r][i], k) \in NodeID
  BY <1>t, RowIds
<1>1. CASE P!StartCall(r)
  <2>1. /\ start[r].pc = "idle" /\ start'[r].pc = "seed"
        /\ UNCHANGED <<adv, dispatched>>
        /\ spec'[r] \in Pipelines
    BY <1>t, <1>1 DEF P!StartCall
  <2>2. Fresh(r)'
    BY <1>t, <2>1 DEF Fresh, Untouched
  <2>3. \A i \in 1..Len(spec'[r]) : \A k \in 0..Len(P!Inner(spec'[r][i])) :
          P!Row(spec'[r][i], k) \in NodeID
    <3>1. ASSUME NEW i \in 1..Len(spec'[r]), NEW k \in 0..Len(P!Inner(spec'[r][i]))
          PROVE  P!Row(spec'[r][i], k) \in NodeID
      <4>1. i \in Nat /\ k \in Nat /\ InPipeline(spec'[r], i, k)
        BY DEF InPipeline
      <4> QED
        BY <2>1, <4>1, PipelineRows DEF RowSet
    <3> QED
      BY <3>1
  <2>4. JobsOf(r)'
    BY <1>t, <2>1, <2>3 DEF JobsOf
  <2> QED
    BY <2>2, <2>4
<1>2. CASE P!SeedNode(r)
  <2>1. /\ start[r].pc = "seed" /\ start'[r].pc = "seed"
        /\ UNCHANGED <<adv, dispatched, spec>>
    BY <1>t, <1>2 DEF P!SeedNode
  <2> QED
    BY <1>t, <1>r, <2>1 DEF Fresh, Untouched, JobsOf
<1>3. CASE P!StartRunning(r)
  <2>1. /\ adv'[r]["main"].pc = "list" /\ UNCHANGED <<nodes, dispatched, spec>>
        /\ start[r].pc = "seed"
    BY <1>t, <1>3 DEF P!StartRunning, P!CalledAdvance
  <2> QED
    BY <1>t, <1>r, <2>1 DEF Fresh, JobsOf
<1>4. CASE P!StartFail(r)
  <2>1. start[r].pc = "seed" /\ UNCHANGED <<adv, nodes, dispatched, spec>>
    BY <1>t, <1>4 DEF P!StartFail
  <2> QED
    BY <1>t, <1>r, <2>1 DEF Fresh, JobsOf, P!Current
<1>5. CASE P!AdvanceList(r, "main")
  <2>1. /\ UNCHANGED <<start, nodes, spec, dispatched>>
        /\ adv'[r]["main"].pc = "loop" /\ adv'[r]["main"].seen = nodes[r]
    BY <1>t, <1>5 DEF P!AdvanceList, P!ListNodes
  <2> QED
    BY <1>t, <2>1 DEF Fresh, JobsOf
<1>6. CASE P!AdvanceListFail(r, "main") \/ P!AdvanceReturn(r, "main")
  <2>1. UNCHANGED <<start, nodes, spec, dispatched>> /\ adv'[r]["main"].pc = "idle"
    BY <1>t, <1>6 DEF P!AdvanceListFail, P!AdvanceReturn, P!IdleAdvance
  <2> QED
    BY <1>t, <2>1 DEF Fresh, JobsOf
<1>7. ASSUME P!NextNode(r, "main")
      PROVE  /\ adv'[r]["main"].pc = "loop"
             /\ adv'[r]["main"].i = adv[r]["main"].i + 1
             /\ adv'[r]["main"].seen = adv[r]["main"].seen
             /\ adv[r]["main"].i \in Nat
  BY <1>t, <1>7 DEF P!NextNode, P!Goto, P!AdvanceState
<1>n. P!NextNode(r, "main") =>
           /\ adv'[r]["main"].pc = "loop"
           /\ adv'[r]["main"].seen = adv[r]["main"].seen
           /\ \A i \in 1..Len(spec[r]) :
                adv'[r]["main"].i < i \/ adv'[r]["main"].i = i => adv[r]["main"].i < i
  BY <1>t, <1>7
<1>8. CASE P!AdvancePass(r, "main") \/ P!AdvanceMarkFail(r, "main")
             \/ P!AdvanceNext(r, "main")
  <2>1. /\ UNCHANGED <<start, nodes, spec, dispatched>> /\ P!NextNode(r, "main")
        /\ adv[r]["main"].pc \in {"loop", "dispatch"}
    BY <1>8 DEF P!AdvancePass, P!AdvanceMarkFail, P!AdvanceNext, P!Looping
  <2>2. Fresh(r)'
    BY <1>t, <1>n, <2>1 DEF Fresh
  <2>3. JobsOf(r)'
    BY <1>t, <2>1 DEF JobsOf
  <2> QED
    BY <2>2, <2>3
<1>9. ASSUME NEW state, P!Looping(r, "main"),
             P!Ready(P!Current(r, "main"), adv[r]["main"].seen),
             nodes' = [nodes EXCEPT ![r][P!Current(r, "main").id] = state],
             UNCHANGED <<start, spec, dispatched>>,
             adv'[r]["main"].seen = adv[r]["main"].seen,
             \/ /\ adv'[r]["main"].pc = "loop"
                /\ adv'[r]["main"].i = adv[r]["main"].i + 1
             \/ /\ adv'[r]["main"].pc = "dispatch" /\ state = "running"
                /\ adv'[r]["main"].i = adv[r]["main"].i
      PROVE  Fresh(r)' /\ JobsOf(r)'
  <2> DEFINE i0 == adv[r]["main"].i
             y == spec[r][i0].id
  <2>1. i0 \in 1..Len(spec[r]) /\ i0 \in Nat /\ adv[r]["main"].pc = "loop"
    BY <1>t, <1>9 DEF P!Looping, Cursor, P!AdvanceState
  <2>2. InPipeline(spec[r], i0, 0) /\ P!Row(spec[r][i0], 0) = y
    BY <1>t, <2>1, RowZero DEF P!Row
  <2>3. y \in NodeID /\ y = P!Current(r, "main").id
    BY <1>r, <2>1, <2>2 DEF P!Current, InPipeline
  <2>4. nodes[r][y] = "pending"
    BY <1>t, <1>9, <2>1, <2>3 DEF Fresh, P!Ready
  <2>5. ASSUME NEW i \in 1..Len(spec[r]), i # i0
        PROVE  spec[r][i].id # y
    <3>1. /\ i \in Nat /\ InPipeline(spec[r], i, 0)
          /\ P!Row(spec[r][i], 0) = spec[r][i].id
      BY <1>t, NodeRow
    <3>2. spec[r] \in Pipelines
      BY <1>t, <2>1
    <3>3. P!DistinctRows(spec[r])
      BY <3>2
    <3>4. 0 \in 0..Len(P!Inner(spec[r][i])) /\ 0 \in 0..Len(P!Inner(spec[r][i0]))
      BY <2>2, <3>1 DEF InPipeline
    <3> HIDE DEF i0
    <3>5. P!Row(spec[r][i], 0) # P!Row(spec[r][i0], 0)
      BY <2>1, <2>5, <3>3, <3>4 DEF P!DistinctRows
    <3> QED
      BY <2>2, <3>1, <3>5
  <2> HIDE DEF y
  <2>6. nodes'[r] = [nodes[r] EXCEPT ![y] = state]
    BY <1>t, <1>9, <2>3
  <2>7. \A x \in NodeID : nodes'[r][x] = IF x = y THEN state ELSE nodes[r][x]
    BY <1>t, <2>6
  <2>8. \A i \in 1..Len(spec[r]) :
          i # i0 => nodes'[r][spec[r][i].id] = nodes[r][spec[r][i].id]
    <3>1. \A i \in 1..Len(spec[r]) : spec[r][i].id \in NodeID
      BY <1>t, NodeRow
    <3> QED
      BY <2>5, <2>7, <3>1
  <2>9. Fresh(r)'
    <3>1. adv'[r]["main"].pc = "dispatch" =>
            nodes'[r][P!Current(r, "main")'.id] = "running"
      BY <1>9, <2>3, <2>7 DEF P!Current, y
    <3>2. \A i \in 1..Len(spec[r]) :
            \/ adv'[r]["main"].i < i
            \/ adv'[r]["main"].i = i /\ adv'[r]["main"].pc = "loop"
            => i # i0 /\ i0 < i
      BY <1>9, <2>1
    <3> QED
      BY <1>t, <1>9, <2>1, <2>8, <3>1, <3>2 DEF Fresh
  <2>10. JobsOf(r)'
    <3>1. \A k \in 0..Len(P!Inner(spec[r][i0])) :
            disp[<<r, P!Row(spec[r][i0], k)>>].pc \notin {"send", "sent"}
      BY <1>t, <2>1, <2>4 DEF JobsOf, y
    <3> QED
      BY <1>t, <1>9, <2>8, <3>1 DEF JobsOf
  <2> QED
    BY <2>9, <2>10
<1>10. CASE P!AdvanceSkip(r, "main")
  <2>1. /\ P!Looping(r, "main") /\ P!Ready(P!Current(r, "main"), adv[r]["main"].seen)
        /\ UNCHANGED <<start, spec, dispatched>> /\ P!NextNode(r, "main")
        /\ \/ nodes' = nodes
           \/ nodes' = [nodes EXCEPT ![r][P!Current(r, "main").id] = "skipped"]
    BY <1>10 DEF P!AdvanceSkip, P!UpsertNode
  <2>2. CASE nodes' = nodes
    <3>1. Fresh(r)'
      BY <1>t, <1>n, <2>1, <2>2 DEF Fresh, P!Looping
    <3>2. JobsOf(r)'
      BY <1>t, <2>1, <2>2 DEF JobsOf
    <3> QED
      BY <3>1, <3>2
  <2>3. CASE nodes' = [nodes EXCEPT ![r][P!Current(r, "main").id] = "skipped"]
    BY <1>7, <1>9, <2>1, <2>3
  <2> QED
    BY <2>1, <2>2, <2>3
<1>11. CASE P!AdvanceMark(r, "main")
  <2>1. /\ P!Looping(r, "main") /\ P!Ready(P!Current(r, "main"), adv[r]["main"].seen)
        /\ UNCHANGED <<start, spec, dispatched>>
        /\ nodes' = [nodes EXCEPT ![r][P!Current(r, "main").id] = "running"]
        /\ adv'[r]["main"].seen = adv[r]["main"].seen
        /\ adv'[r]["main"].pc = "dispatch" /\ adv'[r]["main"].i = adv[r]["main"].i
    BY <1>t, <1>11 DEF P!AdvanceMark, P!UpsertNode, P!Goto
  <2> QED
    BY <1>9, <2>1
<1>12. P!AdvanceDispatch(r, "main") => Dispatching(r)
  BY DEF P!AdvanceDispatch, Dispatching
<1> QED
  BY <1>1, <1>2, <1>3, <1>4, <1>5, <1>6, <1>8, <1>10, <1>11, <1>12
     DEF P!StartStep, P!AdvanceStep

\* Dispatch takes up the row the Advance is at, sends it, or gives up.
LEMMA DispatchKeepsJobs ==
    ASSUME \A p \in Pipelines : P!DistinctRows(p),
           JobsInv, NEW r \in Run, Dispatching(r),
           UNCHANGED <<nodes, spec, start>>,
           NEW pc \in {"send", "sent", "failed"}, NEW c,
           disp' = [disp EXCEPT ![JobOf(r)] = [pc |-> pc, conn |-> c]],
           \/ /\ pc = "send" /\ disp[JobOf(r)].pc = "idle"
              /\ UNCHANGED <<adv, dispatched>>
           \/ /\ pc = "sent" /\ disp[JobOf(r)].pc = "send"
              /\ P!AdvanceDispatch(r, "main") /\ dispatched' # dispatched
           \/ /\ pc = "failed" /\ disp[JobOf(r)].pc \in {"idle", "send"}
              /\ P!AdvanceDispatch(r, "main") /\ dispatched' = dispatched
    PROVE  \A q \in Run : Fresh(q)' /\ JobsOf(q)'
<1> DEFINE i0 == adv[r]["main"].i
           j0 == adv[r]["main"].j
           y == P!Row(P!Current(r, "main"), j0)
<1>t. /\ adv \in [Run -> [P!Caller -> P!AdvanceState]] /\ "main" \in P!Caller
      /\ adv[r] \in [P!Caller -> P!AdvanceState]
      /\ disp \in [Job -> [pc : {"idle", "send", "sent", "failed"},
                           conn : Conn \cup {None}]]
      /\ dispatched \in [Run -> [NodeID -> Nat]]
      /\ AInv /\ \A q \in Run : Fresh(q) /\ JobsOf(q) /\ Untouched(q)
      /\ adv[r]["main"] \in P!AdvanceState
  BY MainCalls DEF JobsInv, AInv, P!TypeOK, FleetTypeOK, TypeOK
<1>1. /\ JobOf(r) = <<r, y>> /\ y \in NodeID /\ JobOf(r) \in Job
      /\ InPipeline(spec[r], i0, j0)
      /\ y = P!Row(spec[r][i0], j0)
  BY <1>t, DispatchedRow DEF JobOf, P!Current
<1>2. adv[r]["main"].pc = "dispatch" /\ start[r].pc = "done"
  BY <1>t DEF Dispatching, Untouched
<1>3. adv' = adv \/ P!Goto(r, "main", "dispatch", i0, j0 + 1)
  BY DEF P!AdvanceDispatch
<1>4. \/ dispatched' = dispatched
      \/ dispatched' = [dispatched EXCEPT ![r][y] = @ + 1]
  BY DEF P!AdvanceDispatch
<1> HIDE DEF y, i0, j0
<1>5. /\ adv'[r]["main"].pc = "dispatch" /\ adv'[r]["main"].i = i0
      /\ adv'[r]["main"].seen = adv[r]["main"].seen
      /\ \A q \in Run \ {r} : adv'[q] = adv[q]
  BY <1>t, <1>2, <1>3 DEF P!Goto, i0
<1>6. \A j \in Job : disp'[j].pc = IF j = <<r, y>> THEN pc ELSE disp[j].pc
  BY <1>t, <1>1
<1>7. /\ \A q \in Run \ {r} : dispatched'[q] = dispatched[q]
      /\ \A x \in NodeID \ {y} : dispatched'[r][x] = dispatched[r][x]
  BY <1>t, <1>4
<1>8. dispatched'[r][y] = IF pc = "sent" THEN 1 ELSE 0
  <2>1. dispatched[r][y] = IF disp[<<r, y>>].pc = "sent" THEN 1 ELSE 0
    BY <1>t, <1>1 DEF JobsOf
  <2>2. CASE pc = "sent"
    <3>1. disp[<<r, y>>].pc = "send" /\ dispatched' # dispatched
      BY <1>1, <2>2
    <3>2. dispatched' = [dispatched EXCEPT ![r][y] = @ + 1]
      BY <1>4, <3>1
    <3> QED
      BY <1>t, <1>1, <2>1, <2>2, <3>1, <3>2
  <2>3. CASE pc # "sent"
    <3>1. disp[<<r, y>>].pc # "sent" /\ dispatched' = dispatched
      BY <1>1, <2>3
    <3> QED
      BY <2>1, <2>3, <3>1
  <2> QED
    BY <2>2, <2>3
<1>9. ASSUME NEW q \in Run \ {r}
      PROVE  Fresh(q)' /\ JobsOf(q)'
  <2>1. \A x \in NodeID : <<q, x>> \in Job /\ <<q, x>> # <<r, y>>
    BY JobAssumption
  <2>2. Fresh(q)'
    BY <1>t, <1>5 DEF Fresh, P!Current
  <2>3. \A i \in 1..Len(spec[q]) : \A k \in 0..Len(P!Inner(spec[q][i])) :
          P!Row(spec[q][i], k) \in NodeID
    BY <1>t, RowIds
  <2>4. \A x \in NodeID : disp'[<<q, x>>].pc = disp[<<q, x>>].pc
    BY <1>6, <2>1
  <2>5. JobsOf(q)'
    BY <1>t, <1>7, <2>3, <2>4 DEF JobsOf
  <2> QED
    BY <2>2, <2>5
<1>10. Fresh(r)'
  <2>1. adv'[r]["main"].i = adv[r]["main"].i
    BY <1>5 DEF i0
  <2> QED
    BY <1>t, <1>2, <1>5, <2>1 DEF Fresh, P!Current
<1>11. JobsOf(r)'
  <2>1. \A x \in NodeID : <<r, x>> \in Job /\ (<<r, x>> = <<r, y>> <=> x = y)
    BY JobAssumption
  <2>2. \A x \in NodeID :
          disp'[<<r, x>>].pc = IF x = y THEN pc ELSE disp[<<r, x>>].pc
    BY <1>6, <2>1
  <2>3. ASSUME NEW x \in NodeID
        PROVE  dispatched'[r][x] = IF disp'[<<r, x>>].pc = "sent" THEN 1 ELSE 0
    <3>1. CASE x = y
      BY <1>8, <2>2, <3>1
    <3>2. CASE x # y
      BY <1>t, <1>7, <2>2, <3>2 DEF JobsOf
    <3> QED
      BY <3>1, <3>2
  <2>4. ASSUME NEW i \in 1..Len(spec[r]), NEW k \in 0..Len(P!Inner(spec[r][i])),
               disp'[<<r, P!Row(spec[r][i], k)>>].pc \in {"send", "sent"}
        PROVE  nodes[r][spec[r][i].id] = "running"
    <3>1. P!Row(spec[r][i], k) \in NodeID
      BY <1>t, RowIds
    <3>2. CASE P!Row(spec[r][i], k) = y
      <4>1. i \in Nat /\ k \in Nat /\ InPipeline(spec[r], i, k)
        BY DEF InPipeline
      <4>2. i0 \in Nat /\ j0 \in Nat
        BY <1>t DEF P!AdvanceState, i0, j0
      <4>3. i = i0
        BY <1>t, <1>1, <3>2, <4>1, <4>2, RowsDistinct
      <4> QED
        BY <1>t, <1>2, <4>3 DEF Fresh, P!Current, i0
    <3>3. CASE P!Row(spec[r][i], k) # y
      <4>1. disp[<<r, P!Row(spec[r][i], k)>>].pc \in {"send", "sent"}
        BY <2>2, <2>4, <3>1, <3>3
      <4> QED
        BY <1>t, <4>1 DEF JobsOf
    <3> QED
      BY <3>2, <3>3
  <2> QED
    BY <1>2, <2>3, <2>4 DEF JobsOf
<1> QED
  BY <1>9, <1>10, <1>11

LEMMA JobsInvStep ==
    ASSUME \A p \in Pipelines : P!DistinctRows(p)
    PROVE  JobsInv /\ [AssemblyNext]_avars => JobsInv'
<1> SUFFICES ASSUME JobsInv, [AssemblyNext]_avars
             PROVE  JobsInv'
  OBVIOUS
<1>0. AInv /\ AInv' /\ P!TypeOK
  BY AInvStep DEF JobsInv, AInv
<1>1. ASSUME UNCHANGED pvars, UNCHANGED disp
      PROVE  JobsInv'
  <2>1. \A r \in Run : SameRun(r) /\ SameJobs(r)
    BY <1>1 DEF SameRun, SameJobs, pvars
  <2> QED
    BY <1>0, <2>1, JobsKept DEF JobsInv
<1>2. CASE AgentStep
  <2>1. UNCHANGED pvars
    BY <1>2 DEF AgentStep
  <2>2. UNCHANGED disp
    BY <1>2 DEF AgentStep, connect, RegisterCall, RegisterInsert, RegisterDelete,
       StreamEnds, Disconnect, Recv, JobFinish, SendResult, JobDone, ResultLost, rvars
  <2> QED
    BY <1>1, <2>1, <2>2
<1>3. ASSUME NEW r \in Run, ManagerStep(r) \/ SubmitPipeline(r) \/ StoreFails(r)
      PROVE  JobsInv'
  <2>1. UNCHANGED disp
    BY <1>3 DEF ManagerStep, SubmitPipeline, StoreFails, fvars
  <2>2. ManagerMove(r)
    BY <1>3 DEF ManagerStep, SubmitPipeline, StoreFails, ManagerMove, P!StartStep
  <2>3. Fresh(r)' /\ JobsOf(r)'
    BY <1>3, <2>1, MoveKeepsJobs DEF ManagerStep, SubmitPipeline, StoreFails
  <2>4. \A q \in Run \ {r} : SameRun(q) /\ SameJobs(q)
    BY <1>0, <2>1, <2>2, OtherRuns DEF SameJobs
  <2>5. \A q \in Run \ {r} : Fresh(q)' /\ JobsOf(q)'
    BY <1>0, <2>4, JobsKept DEF JobsInv
  <2> QED
    BY <1>0, <2>3, <2>5 DEF JobsInv
<1>4. ASSUME NEW r \in Run, DispatchBegins(r)
      PROVE  JobsInv'
  <2>1. PICK c : disp' = [disp EXCEPT ![JobOf(r)] = [pc |-> "send", conn |-> c]]
    BY <1>4 DEF DispatchBegins, DispatchPick
  <2>2. /\ Dispatching(r) /\ disp[JobOf(r)].pc = "idle"
        /\ UNCHANGED <<nodes, spec, start, adv, dispatched>>
    BY <1>4 DEF DispatchBegins, DispatchPick, pvars
  <2> QED
    BY <1>0, <2>1, <2>2, DispatchKeepsJobs DEF JobsInv
<1>5. ASSUME NEW r \in Run, DispatchSends(r)
      PROVE  JobsInv'
  <2>1. PICK c : disp' = [disp EXCEPT ![JobOf(r)] = [pc |-> "sent", conn |-> c]]
    BY <1>5 DEF DispatchSends, Deliver, DispatchSend
  <2>2. /\ Dispatching(r) /\ disp[JobOf(r)].pc = "send"
        /\ P!AdvanceDispatch(r, "main") /\ dispatched' # dispatched
    BY <1>5 DEF DispatchSends, Deliver, DispatchSend
  <2>3. UNCHANGED <<nodes, spec, start>>
    BY <2>2 DEF P!AdvanceDispatch
  <2> QED
    BY <1>0, <2>1, <2>2, <2>3, DispatchKeepsJobs DEF JobsInv
<1>6. ASSUME NEW r \in Run, DispatchErrs(r)
      PROVE  JobsInv'
  <2>1. PICK c : disp' = [disp EXCEPT ![JobOf(r)] = [pc |-> "failed", conn |-> c]]
    BY <1>6 DEF DispatchErrs, DispatchNone, DispatchFail
  <2>2. /\ Dispatching(r) /\ disp[JobOf(r)].pc \in {"idle", "send"}
        /\ P!AdvanceDispatch(r, "main") /\ dispatched' = dispatched
    BY <1>6 DEF DispatchErrs, DispatchNone, DispatchFail
  <2>3. UNCHANGED <<nodes, spec, start>>
    BY <2>2 DEF P!AdvanceDispatch
  <2> QED
    BY <1>0, <2>1, <2>2, <2>3, DispatchKeepsJobs DEF JobsInv
<1>7. ASSUME NEW q \in Reader, ReadRun(q) \/ ReadNodes(q)
      PROVE  JobsInv'
  <2>1. UNCHANGED pvars /\ UNCHANGED disp
    BY <1>7 DEF ReadNodes, ReadRun, fvars
  <2> QED
    BY <1>1, <2>1
<1>8. CASE UNCHANGED avars
  <2>1. UNCHANGED pvars /\ UNCHANGED disp
    BY <1>8 DEF avars, fvars
  <2> QED
    BY <1>1, <2>1
<1> QED
  BY <1>2, <1>3, <1>4, <1>5, <1>6, <1>7, <1>8 DEF AssemblyNext

LEMMA JobsInvInit == AssemblyInit => JobsInv
<1> SUFFICES ASSUME AssemblyInit
             PROVE  JobsInv
  OBVIOUS
<1>1. AInv
  BY AInvInit
<1>2. /\ \A r \in Run, x \in NodeID : dispatched[r][x] = 0
      /\ \A r \in Run : adv[r]["main"].pc = "idle" /\ spec[r] = <<>>
      /\ \A r \in Run, x \in NodeID : disp[<<r, x>>].pc = "idle"
  BY MainCalls, JobAssumption DEF AssemblyInit, P!Init, P!IdleAdvance, FleetInit, Init
<1> QED
  BY <1>1, <1>2 DEF JobsInv, Fresh, JobsOf

\* AssemblySentOnGrounds: when the rows of each pipeline have distinct ids,
\* whatever an agent has, or had, is a job the store counts as dispatched once
\* and whose node it holds for running, for any number of runs, agents, lost
\* connections and failed sends (scheduler.go:62-86, main.go:131).
THEOREM AssemblySentOnGrounds ==
    ASSUME \A p \in Pipelines : P!DistinctRows(p)
    PROVE  AssemblySpec => []SentOnGrounds
<1>1. JobsInv => SentOnGrounds
  <2> SUFFICES ASSUME JobsInv, NEW r \in Run, NEW i \in 1..Len(spec[r]),
                      NEW k \in 0..Len(P!Inner(spec[r][i]))
               PROVE  LET x == P!Row(spec[r][i], k) IN
                        /\ job[<<r, x>>] # "none" <=> dispatched[r][x] = 1
                        /\ job[<<r, x>>] # "none" =>
                             nodes[r][spec[r][i].id] = "running"
    BY DEF SentOnGrounds
  <2> DEFINE x == P!Row(spec[r][i], k)
  <2>1. x \in NodeID /\ <<r, x>> \in Job
    BY RowIds, JobAssumption DEF JobsInv
  <2>2. job[<<r, x>>] # "none" <=> disp[<<r, x>>].pc = "sent"
    BY <2>1 DEF JobsInv, AInv, FleetTypeOK
  <2>3. /\ dispatched[r][x] = IF disp[<<r, x>>].pc = "sent" THEN 1 ELSE 0
        /\ disp[<<r, x>>].pc \in {"send", "sent"} =>
             nodes[r][spec[r][i].id] = "running"
    BY <2>1 DEF JobsInv, JobsOf
  <2> QED
    BY <2>2, <2>3
<1> QED
  BY <1>1, JobsInvInit, JobsInvStep, PTL DEF AssemblySpec
=============================================================================
