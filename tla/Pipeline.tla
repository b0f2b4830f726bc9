------------------------------ MODULE Pipeline ------------------------------
(***************************************************************************)
(* The run manager (internal/pipeline/run.go), the scheduler               *)
(* (internal/pipeline/scheduler.go) and the two tables they share          *)
(* (pipeline_runs and nodes, internal/db/sqlite.go).                       *)
(*                                                                         *)
(* Every database call is one atomic step, every goroutine that makes      *)
(* several of them has a program counter, and what a goroutine read        *)
(* earlier (the snapshot of Advance, the verdict of NodeCompleted) is kept *)
(* in its local state: other goroutines run between two calls.             *)
(*                                                                         *)
(* A condition is a model value and a RunContext the set of conditions     *)
(* that hold in it: evalCondition itself is modelled in Conditions.  The   *)
(* bus publications are left out, nothing in the master subscribes.        *)
(***************************************************************************)
EXTENDS Naturals, Sequences

CONSTANTS
    Run,         \* run ids, uuid.New() in Start
    NodeID,      \* ids of rows of nodes, "stage/job" ids included
    Condition,   \* condition strings
    Pipelines,   \* the PipelineSpecs that are submitted
    Contexts,    \* the RunContexts, each the set of conditions it satisfies
    Extra,       \* callers of Advance other than the goroutine of Start
    Serial,      \* TRUE: at most one Advance of a run is active at a time
    Completer,   \* goroutines that deliver job results to NodeCompleted
    Faults,      \* which calls may fail: "db", "dispatch"
    Cancellable  \* runs some client may pass to CancelRun

\* pb.Node. "none" is a node whose oneof is unset; jobs holds the row ids
\* ("stage/job") of the inner jobs of a stage.
Node == [id : NodeID, dependsOn : SUBSET NodeID, conditions : SUBSET Condition,
         kind : {"job", "stage", "none"}, jobs : Seq(NodeID)]

\* Inner nodes of a stage: GetStage() is nil for every other kind.
Inner(n) == IF n.kind = "stage" THEN n.jobs ELSE <<>>

\* The rows of a node: row 0 is its own, 1..Len(Inner(n)) those of its jobs.
Row(n, j) == IF j = 0 THEN n.id ELSE n.jobs[j]

ASSUME PipelinesAssumption == Pipelines \subseteq Seq(Node)
ASSUME ContextsAssumption == Contexts \subseteq SUBSET Condition
ASSUME SerialAssumption == Serial \in BOOLEAN
ASSUME FaultsAssumption == Faults \subseteq {"db", "dispatch"}
ASSUME CancellableAssumption == Cancellable \subseteq Run
ASSUME ExtraAssumption == "main" \notin Extra

\* The goroutine Start launches is the caller "main".
Caller == Extra \cup {"main"}

RunState == {"pending", "running", "success", "failed", "cancelled"}
NodeState == {"pending", "running", "success", "failed", "skipped"}
Absent == "absent"    \* no such row
RowState == NodeState \cup {Absent}

VARIABLES
    runs,       \* runs[r]: state column of the row of r in pipeline_runs
    nodes,      \* nodes[r][x]: state column of row (r, x) of nodes
    spec, rc,   \* spec[r], rc[r]: the arguments of the Start of r
    start,      \* start[r]: the goroutine of Start, at row j of node i
    adv,        \* adv[r][a]: call of Advance for r by caller a
    comp,       \* comp[c]: call of NodeCompleted by c
    dispatched, \* dispatched[r][x]: how often Dispatch sent job x of r
    reported    \* reported[r][x]: how many of those results were reported

vars == <<runs, nodes, spec, rc, start, adv, comp, dispatched, reported>>

NoRows == [x \in NodeID |-> Absent]
IdleAdvance == [pc |-> "idle", i |-> 0, j |-> 0, seen |-> NoRows]
CalledAdvance == [pc |-> "list", i |-> 0, j |-> 0, seen |-> NoRows]
IdleCompleted == [pc |-> "idle", run |-> "none", verdict |-> "none"]

\* Local state of a Start, an Advance and a NodeCompleted.
StartState == [pc : {"idle", "seed", "done", "failed"}, i : Nat, j : Nat]
AdvanceState == [pc : {"idle", "list", "loop", "dispatch"}, i : Nat, j : Nat,
                 seen : [NodeID -> RowState]]
CompletedState ==
    {IdleCompleted} \cup
    [pc : {"list"}, run : Run, verdict : {"none"}] \cup
    [pc : {"update"}, run : Run, verdict : {"success", "failed"}]

\* TypeOK: the tables hold only the states internal/db/db.go declares, and
\* the goroutines are at one of their program points.
TypeOK ==
    /\ runs \in [Run -> RunState \cup {Absent}]
    /\ nodes \in [Run -> [NodeID -> RowState]]
    /\ spec \in [Run -> Pipelines \cup {<<>>}]
    /\ rc \in [Run -> Contexts \cup {{}}]
    /\ start \in [Run -> StartState]
    /\ adv \in [Run -> [Caller -> AdvanceState]]
    /\ comp \in [Completer -> CompletedState]
    /\ dispatched \in [Run -> [NodeID -> Nat]]
    /\ reported \in [Run -> [NodeID -> Nat]]

Init ==
    /\ runs = [r \in Run |-> Absent]
    /\ nodes = [r \in Run |-> [x \in NodeID |-> Absent]]
    /\ spec = [r \in Run |-> <<>>]
    /\ rc = [r \in Run |-> {}]
    /\ start = [r \in Run |-> [pc |-> "idle", i |-> 0, j |-> 0]]
    /\ adv = [r \in Run |-> [a \in Caller |-> IdleAdvance]]
    /\ comp = [c \in Completer |-> IdleCompleted]
    /\ dispatched = [r \in Run |-> [x \in NodeID |-> 0]]
    /\ reported = [r \in Run |-> [x \in NodeID |-> 0]]

-----------------------------------------------------------------------------
(* The store. *)

\* INSERT ... ON CONFLICT (run_id, node_id) DO UPDATE SET state: whatever the
\* row held before.
UpsertNode(r, x, state) == nodes' = [nodes EXCEPT ![r][x] = state]

\* The run is running before its rows are seeded.
MutCreateRun(r) == runs' = [runs EXCEPT ![r] = "running"]

\* INSERT INTO pipeline_runs, in the state Start gives it.
CreateRun(r) == runs' = [runs EXCEPT ![r] = "pending"]

\* SELECT ... FROM nodes WHERE run_id = r: the rows as they are at this moment.
ListNodes(r) == nodes[r]

\* UPDATE pipeline_runs SET state WHERE id: no check of the previous state.
UpdateRunState(r, state) == runs' = [runs EXCEPT ![r] = state]

DBMayFail == "db" \in Faults

-----------------------------------------------------------------------------
(* Manager.Start *)

\* CreateRun, with the run id and the arguments fixed for the whole call.
StartCall(r) ==
    /\ start[r].pc = "idle"
    /\ runs[r] = Absent
    /\ \E p \in Pipelines, ctx \in Contexts :
         /\ spec' = [spec EXCEPT ![r] = p]
         /\ rc' = [rc EXCEPT ![r] = ctx]
    /\ CreateRun(r)
    /\ start' = [start EXCEPT ![r] = [pc |-> "seed", i |-> 1, j |-> 0]]
    /\ UNCHANGED <<nodes, adv, comp, dispatched, reported>>

\* One UpsertNode of the nested seeding loop: the node, then its inner jobs.
SeedNode(r) ==
    /\ start[r].pc = "seed"
    /\ start[r].i <= Len(spec[r])
    /\ LET n == spec[r][start[r].i] IN
         /\ UpsertNode(r, Row(n, start[r].j), "pending")
         /\ start' = [start EXCEPT ![r] =
               IF start[r].j < Len(Inner(n))
               THEN [pc |-> "seed", i |-> start[r].i, j |-> start[r].j + 1]
               ELSE [pc |-> "seed", i |-> start[r].i + 1, j |-> 0]]
    /\ UNCHANGED <<runs, spec, rc, adv, comp, dispatched, reported>>

\* All rows are seeded: the run is marked running and Advance is launched.
\* Only the database sees the update before Start returns, so the launch and
\* the return are part of the same step.
StartRunning(r) ==
    /\ start[r].pc = "seed"
    /\ start[r].i > Len(spec[r])
    /\ UpdateRunState(r, "running")
    /\ start' = [start EXCEPT ![r] = [pc |-> "done", i |-> 0, j |-> 0]]
    /\ adv' = [adv EXCEPT ![r]["main"] = CalledAdvance]
    /\ UNCHANGED <<nodes, spec, rc, comp, dispatched, reported>>

\* Any of the store calls after CreateRun fails: Start returns the error and
\* leaves the run and the rows it has written behind.
StartFail(r) ==
    /\ DBMayFail
    /\ start[r].pc = "seed"
    /\ start' = [start EXCEPT ![r] = [pc |-> "failed", i |-> 0, j |-> 0]]
    /\ UNCHANGED <<runs, nodes, spec, rc, adv, comp, dispatched, reported>>

-----------------------------------------------------------------------------
(* Scheduler.Advance *)

\* A failed dependency does not block.
MutDepsTerminal(deps, state) ==
    \A d \in deps : state[d] \in {"success", "failed", "skipped"}

\* A dependency without a row reads as the empty state and blocks, and so
\* does a failed one.
depsTerminal(deps, state) ==
    \A d \in deps : state[d] \in {"success", "skipped"}

evalConditions(conditions, ctx) == conditions \subseteq ctx

\* Every node that is not running is taken up, finished ones too.
MutReady(n, seen) ==
    seen[n.id] # "running" /\ depsTerminal(n.dependsOn, seen)

\* The two early continues of the loop, on the snapshot.
Ready(n, seen) == seen[n.id] = "pending" /\ depsTerminal(n.dependsOn, seen)

\* The rows Advance dispatches for a node it marked: its own for a job, the
\* inner ones for a stage, none when the oneof is unset.
FirstTarget(n) == IF n.kind = "job" THEN 0 ELSE 1
LastTarget(n) == Len(Inner(n))

\* The call goes on at pc with node i, row j and its snapshot.
Goto(r, a, pc, i, j) ==
    adv' = [adv EXCEPT ![r][a] = [pc |-> pc, i |-> i, j |-> j,
                                  seen |-> adv[r][a].seen]]

\* A call of the exported method by somebody else than Start: its run id is
\* known once Start has returned it.
AdvanceCall(r, a) ==
    /\ a \in Extra
    /\ start[r].pc = "done"
    /\ adv[r][a].pc = "idle"
    /\ Serial => \A b \in Caller : adv[r][b].pc = "idle"
    /\ adv' = [adv EXCEPT ![r][a] = CalledAdvance]
    /\ UNCHANGED <<runs, nodes, spec, rc, start, comp, dispatched, reported>>

\* ListNodes: the snapshot all decisions of this call are made on.
AdvanceList(r, a) ==
    /\ adv[r][a].pc = "list"
    /\ adv' = [adv EXCEPT ![r][a] =
                 [pc |-> "loop", i |-> 1, j |-> 0, seen |-> ListNodes(r)]]
    /\ UNCHANGED <<runs, nodes, spec, rc, start, comp, dispatched, reported>>

AdvanceListFail(r, a) ==
    /\ DBMayFail
    /\ adv[r][a].pc = "list"
    /\ adv' = [adv EXCEPT ![r][a] = IdleAdvance]
    /\ UNCHANGED <<runs, nodes, spec, rc, start, comp, dispatched, reported>>

\* Node under the loop's cursor; meaningful while Looping(r, a).
Current(r, a) == spec[r][adv[r][a].i]
Looping(r, a) == adv[r][a].pc = "loop" /\ adv[r][a].i <= Len(spec[r])

NextNode(r, a) == Goto(r, a, "loop", adv[r][a].i + 1, 0)

\* continue: not pending, or a dependency blocks it.
AdvancePass(r, a) ==
    /\ Looping(r, a)
    /\ ~Ready(Current(r, a), adv[r][a].seen)
    /\ NextNode(r, a)
    /\ UNCHANGED <<runs, nodes, spec, rc, start, comp, dispatched, reported>>

\* The conditions fail: the row becomes skipped. An error is only logged.
AdvanceSkip(r, a) ==
    /\ Looping(r, a)
    /\ Ready(Current(r, a), adv[r][a].seen)
    /\ ~evalConditions(Current(r, a).conditions, rc[r])
    /\ \/ UpsertNode(r, Current(r, a).id, "skipped")
       \/ DBMayFail /\ UNCHANGED nodes
    /\ NextNode(r, a)
    /\ UNCHANGED <<runs, spec, rc, start, comp, dispatched, reported>>

\* The job is dispatched without the mark.
MutAdvanceMark(r, a) ==
    /\ Looping(r, a)
    /\ Ready(Current(r, a), adv[r][a].seen)
    /\ evalConditions(Current(r, a).conditions, rc[r])
    /\ Goto(r, a, "dispatch", adv[r][a].i, FirstTarget(Current(r, a)))
    /\ UNCHANGED <<runs, nodes, spec, rc, start, comp, dispatched, reported>>

\* The row is marked running before anything is dispatched.
AdvanceMark(r, a) ==
    /\ Looping(r, a)
    /\ Ready(Current(r, a), adv[r][a].seen)
    /\ evalConditions(Current(r, a).conditions, rc[r])
    /\ UpsertNode(r, Current(r, a).id, "running")
    /\ Goto(r, a, "dispatch", adv[r][a].i, FirstTarget(Current(r, a)))
    /\ UNCHANGED <<runs, spec, rc, start, comp, dispatched, reported>>

\* The mark fails: the node is passed over and stays pending.
AdvanceMarkFail(r, a) ==
    /\ DBMayFail
    /\ Looping(r, a)
    /\ Ready(Current(r, a), adv[r][a].seen)
    /\ evalConditions(Current(r, a).conditions, rc[r])
    /\ NextNode(r, a)
    /\ UNCHANGED <<runs, nodes, spec, rc, start, comp, dispatched, reported>>

\* dispatch of one row. A failed Dispatch is logged and forgotten: the row
\* stays running (or, for an inner job, pending).
AdvanceDispatch(r, a) ==
    /\ adv[r][a].pc = "dispatch"
    /\ adv[r][a].j <= LastTarget(Current(r, a))
    /\ \/ dispatched' = [dispatched EXCEPT
                           ![r][Row(Current(r, a), adv[r][a].j)] = @ + 1]
       \/ "dispatch" \in Faults /\ UNCHANGED dispatched
    /\ Goto(r, a, "dispatch", adv[r][a].i, adv[r][a].j + 1)
    /\ UNCHANGED <<runs, nodes, spec, rc, start, comp, reported>>

\* The switch is done, the loop goes on with the next node.
AdvanceNext(r, a) ==
    /\ adv[r][a].pc = "dispatch"
    /\ adv[r][a].j > LastTarget(Current(r, a))
    /\ NextNode(r, a)
    /\ UNCHANGED <<runs, nodes, spec, rc, start, comp, dispatched, reported>>

AdvanceReturn(r, a) ==
    /\ adv[r][a].pc = "loop"
    /\ adv[r][a].i > Len(spec[r])
    /\ adv' = [adv EXCEPT ![r][a] = IdleAdvance]
    /\ UNCHANGED <<runs, nodes, spec, rc, start, comp, dispatched, reported>>

-----------------------------------------------------------------------------
(* Manager.NodeCompleted *)

\* A running row counts as finished.
MutAllTerminal(rows) == \A x \in NodeID : rows[x] # "pending"

allTerminal(rows) == \A x \in NodeID : rows[x] \notin {"pending", "running"}

\* The state of a node is written as the state of the run.
MutFinalState(rows) ==
    IF \E x \in NodeID : rows[x] = "failed" THEN "failed"
    ELSE IF \E x \in NodeID : rows[x] = "skipped" THEN "skipped" ELSE "success"

\* The verdict, meaningful when allTerminal(rows).
finalState(rows) ==
    IF \E x \in NodeID : rows[x] = "failed" THEN "failed" ELSE "success"

\* A job that was dispatched has finished and its result is delivered: one
\* report for each dispatch. The row is written whatever it held.
NodeCompleted(c, r, x, success) ==
    /\ comp[c].pc = "idle"
    /\ reported[r][x] < dispatched[r][x]
    /\ reported' = [reported EXCEPT ![r][x] = @ + 1]
    /\ UpsertNode(r, x, IF success THEN "success" ELSE "failed")
    /\ comp' = [comp EXCEPT ![c] = [pc |-> "list", run |-> r,
                                    verdict |-> "none"]]
    /\ UNCHANGED <<runs, spec, rc, start, adv, dispatched>>

\* The UpsertNode fails: the error is returned and the result is lost.
NodeCompletedFail(c, r, x) ==
    /\ DBMayFail
    /\ comp[c].pc = "idle"
    /\ reported[r][x] < dispatched[r][x]
    /\ reported' = [reported EXCEPT ![r][x] = @ + 1]
    /\ UNCHANGED <<runs, nodes, spec, rc, start, adv, comp, dispatched>>

\* ListNodes, allTerminal and the verdict, all on one snapshot. Nothing is
\* scheduled here.
CompletedList(c) ==
    /\ comp[c].pc = "list"
    /\ LET rows == ListNodes(comp[c].run) IN
         comp' = [comp EXCEPT ![c] =
                    IF allTerminal(rows)
                    THEN [pc |-> "update", run |-> comp[c].run,
                          verdict |-> finalState(rows)]
                    ELSE IdleCompleted]
    /\ UNCHANGED <<runs, nodes, spec, rc, start, adv, dispatched, reported>>

\* A later verdict turns a failed run into a successful one.
MutCompletedUpdate(c) ==
    /\ comp[c].pc = "update"
    /\ UpdateRunState(comp[c].run,
          IF runs[comp[c].run] = "failed" THEN "success" ELSE comp[c].verdict)
    /\ comp' = [comp EXCEPT ![c] = IdleCompleted]
    /\ UNCHANGED <<nodes, spec, rc, start, adv, dispatched, reported>>

CompletedUpdate(c) ==
    /\ comp[c].pc = "update"
    /\ UpdateRunState(comp[c].run, comp[c].verdict)
    /\ comp' = [comp EXCEPT ![c] = IdleCompleted]
    /\ UNCHANGED <<nodes, spec, rc, start, adv, dispatched, reported>>

\* ListNodes or UpdateRunState fails: the error is returned, the verdict lost.
CompletedFail(c) ==
    /\ DBMayFail
    /\ comp[c].pc \in {"list", "update"}
    /\ comp' = [comp EXCEPT ![c] = IdleCompleted]
    /\ UNCHANGED <<runs, nodes, spec, rc, start, adv, dispatched, reported>>

-----------------------------------------------------------------------------
(* BrazierServer.CancelRun: one unconditional UpdateRunState. *)
CancelRun(r) ==
    /\ r \in Cancellable
    /\ runs[r] # Absent
    /\ UpdateRunState(r, "cancelled")
    /\ UNCHANGED <<nodes, spec, rc, start, adv, comp, dispatched, reported>>

-----------------------------------------------------------------------------
StartStep(r) == SeedNode(r) \/ StartRunning(r)

AdvanceStep(r, a) ==
    \/ AdvanceList(r, a)
    \/ AdvancePass(r, a)
    \/ AdvanceSkip(r, a)
    \/ AdvanceMark(r, a)
    \/ AdvanceDispatch(r, a)
    \/ AdvanceNext(r, a)
    \/ AdvanceReturn(r, a)

CompletedStep(c) == CompletedList(c) \/ CompletedUpdate(c)

Failure ==
    \/ \E r \in Run : StartFail(r)
    \/ \E r \in Run, a \in Caller : AdvanceListFail(r, a) \/ AdvanceMarkFail(r, a)
    \/ \E c \in Completer, r \in Run, x \in NodeID : NodeCompletedFail(c, r, x)
    \/ \E c \in Completer : CompletedFail(c)

Next ==
    \/ \E r \in Run : StartCall(r) \/ StartStep(r) \/ CancelRun(r)
    \/ \E r \in Run, a \in Caller : AdvanceCall(r, a) \/ AdvanceStep(r, a)
    \/ \E c \in Completer, r \in Run, x \in NodeID, success \in BOOLEAN :
         NodeCompleted(c, r, x, success)
    \/ \E c \in Completer : CompletedStep(c)
    \/ Failure

Spec == Init /\ [][Next]_vars

\* Goroutines that have something to do are scheduled, and every dispatched
\* job is eventually reported. Nobody has to call Start, CancelRun or Advance,
\* and nothing has to fail.
Fairness ==
    /\ \A r \in Run : WF_vars(StartStep(r))
    /\ \A r \in Run, a \in Caller : WF_vars(AdvanceStep(r, a))
    /\ \A c \in Completer : WF_vars(CompletedStep(c))
    /\ \A r \in Run, x \in NodeID :
         WF_vars(\E c \in Completer, success \in BOOLEAN :
                   NodeCompleted(c, r, x, success))

LiveSpec == Spec /\ Fairness

-----------------------------------------------------------------------------
(* Properties *)

\* No two rows of a pipeline have the same id. Neither Start nor the SDK
\* checks it; the properties below need it.
DistinctRows(p) ==
    \A i, k \in 1..Len(p) :
      \A j \in 0..Len(Inner(p[i])), l \in 0..Len(Inner(p[k])) :
        Row(p[i], j) = Row(p[k], l) => i = k /\ j = l

\* DispatchOnce: however many callers run Advance one after the other, and
\* whatever fails in between, no job of a run is sent to an agent twice
\* (scheduler.go:32, "each call is idempotent").
DispatchOnce == \A r \in Run, x \in NodeID : dispatched[r][x] <= 1

\* DispatchJustified: a job is only out when the node it belongs to left
\* pending on grounds that still hold: all its dependencies are success or
\* skipped in the tables now, not just in the snapshot Advance decided on,
\* and its conditions hold (scheduler.go:46-76).
DispatchJustified ==
    \A r \in Run : \A i \in 1..Len(spec[r]) :
      LET n == spec[r][i] IN
        (\/ nodes[r][n.id] \in {"running", "success", "failed"}
         \/ \E j \in 0..Len(Inner(n)) : dispatched[r][Row(n, j)] > 0)
        => /\ nodes[r][n.id] \notin {Absent, "pending", "skipped"}
           /\ \A d \in n.dependsOn : nodes[r][d] \in {"success", "skipped"}
           /\ n.conditions \subseteq rc[r]

\* VerdictSound: the verdict NodeCompleted computes on an earlier snapshot is
\* true of the tables when and after it is written: a successful run has only
\* successful and skipped rows, a failed one has a failed row, and neither has
\* work left (run.go:97-111).
VerdictSound ==
    \A r \in Run : runs[r] \in {"success", "failed"} =>
      /\ \A i \in 1..Len(spec[r]) : \A j \in 0..Len(Inner(spec[r][i])) :
           nodes[r][Row(spec[r][i], j)] \in {"success", "failed", "skipped"}
      /\ (runs[r] = "failed") <=> \E x \in NodeID : nodes[r][x] = "failed"

\* What a step may do to row x of r.
LifecycleStep(r, x) ==
    LET from == nodes[r][x]  to == nodes'[r][x] IN
      \/ to = from
      \/ from = Absent /\ to = "pending"
      \/ from = "running" /\ to \in {"success", "failed"}
      \/ /\ from = "pending"
         /\ \E i \in 1..Len(spec[r]) :
              \/ spec[r][i].id = x /\ to \in {"running", "skipped"}
              \/ /\ nodes[r][spec[r][i].id] = "running"
                 /\ \E j \in 1..Len(Inner(spec[r][i])) : Row(spec[r][i], j) = x
                 /\ to \in {"success", "failed"}

\* NodeLifecycle: rows only move forward. A top-level row goes from pending to
\* running or skipped and from running to its result; the row of a stage's
\* job goes straight from pending to its result, and only while the stage is
\* running. In particular no stale write revives a finished row.
NodeLifecycle == [][\A r \in Run, x \in NodeID : LifecycleStep(r, x)]_vars

\* VerdictStable: once a run has a verdict only a CancelRun takes it away; a
\* second NodeCompleted that also saw every row terminal writes the same one.
VerdictStable ==
    [][\A r \in Run : runs[r] \in {"success", "failed"} =>
         runs'[r] \in {runs[r], "cancelled"}]_vars

\* How a row looks to a client that knows only ends.
Outcome(state) ==
    IF state = Absent THEN "none"
    ELSE IF state \in {"pending", "running"} THEN "open" ELSE state

Lifecycle == INSTANCE RunLifecycle WITH
    status <- runs,
    begun <- [r \in Run |-> start[r].pc = "done"],
    result <- [r \in Run |-> [x \in NodeID |-> Outcome(nodes[r][x])]]

\* ImplementsLifecycle: with all its separate reads and writes the manager does
\* what RunLifecycle does in single steps: no node is added after the work has
\* begun, no node ends twice, and the verdict CompletedUpdate writes is that of
\* the rows at this very moment, none of which is open (run.go:35-117).
ImplementsLifecycle == Lifecycle!Spec

\* ReadyNodesScheduled: a pending node whose dependencies have all finished
\* well is eventually marked running or skipped.
ReadyNodesScheduled ==
    \A r \in Run, x \in NodeID :
      (\E i \in 1..Len(spec[r]) : spec[r][i].id = x /\ runs[r] = "running"
                                  /\ Ready(spec[r][i], nodes[r]))
      ~> nodes[r][x] # "pending"
=============================================================================
