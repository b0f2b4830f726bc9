--------------------------- MODULE PipelineProofs ---------------------------
(***************************************************************************)
(* Proofs about Pipeline, for any set of runs, pipelines, callers of       *)
(* Advance and concurrent results, with every fault and with cancels.      *)
(* Beyond typing they assume what the scheduler relies on and does not     *)
(* check: the row ids of a pipeline are distinct, and the Advance calls of *)
(* one run do not overlap.                                                 *)
(***************************************************************************)
EXTENDS Pipeline, TLAPS

-----------------------------------------------------------------------------
(* The inductive invariant. *)

\* j numbers a row of the i-th node of pipeline p.
IsRow(p, i, j) == i \in 1..Len(p) /\ j \in 0..Len(Inner(p[i]))
RowOf(p, i, j) == Row(p[i], j)

\* Seeding has written every row before the cursor.
Seeded(r) ==
    /\ start[r].pc = "seed" =>
         /\ start[r].i \in 1..(Len(spec[r]) + 1)
         /\ start[r].j = 0 \/ IsRow(spec[r], start[r].i, start[r].j)
    /\ \A i, j \in Nat :
         /\ IsRow(spec[r], i, j)
         /\ \/ start[r].pc = "done"
            \/ /\ start[r].pc = "seed"
               /\ i < start[r].i \/ (i = start[r].i /\ j < start[r].j)
         => nodes[r][RowOf(spec[r], i, j)] # Absent

\* Nothing happens to a run before its Start is done.
Quiet(r) ==
    start[r].pc # "done" =>
      /\ runs[r] \notin {"success", "failed"}
      /\ \A a \in Caller : adv[r][a].pc = "idle"
      /\ \A x \in NodeID : /\ nodes[r][x] \in {Absent, "pending"}
                           /\ dispatched[r][x] = 0

\* At most one Advance of a run is active.
OneAdvance(r) ==
    \A a, b \in Caller :
      adv[r][a].pc # "idle" /\ adv[r][b].pc # "idle" => a = b

\* What dispatched and reported say about the rows.
Counts(r) ==
    \A x \in NodeID :
      /\ reported[r][x] <= dispatched[r][x]
      /\ dispatched[r][x] <= 1
      /\ nodes[r][x] \in {"success", "failed"} =>
           reported[r][x] = 1 /\ dispatched[r][x] = 1
      /\ dispatched[r][x] > 0 =>
           \E i, j \in Nat : /\ IsRow(spec[r], i, j) /\ x = RowOf(spec[r], i, j)
                             /\ FirstTarget(spec[r][i]) <= j
      /\ nodes[r][x] \in {"running", "skipped"} =>
           \E i \in Nat : IsRow(spec[r], i, 0) /\ x = RowOf(spec[r], i, 0)

\* As long as a node has not started none of its rows is dispatched.
Unstarted(r) ==
    \A i, j \in Nat :
      /\ IsRow(spec[r], i, j)
      /\ nodes[r][RowOf(spec[r], i, 0)] \in {Absent, "pending", "skipped"}
      => dispatched[r][RowOf(spec[r], i, j)] = 0

\* The part of the snapshot an Advance still uses is up to date, and of the
\* node it is dispatching the remaining targets are not out yet.
Snapshot(r, a) ==
    /\ adv[r][a].pc \in {"loop", "dispatch"} =>
         /\ adv[r][a].i >= 1
         /\ \A x \in NodeID : adv[r][a].seen[x] \in {"success", "skipped"} =>
              nodes[r][x] = adv[r][a].seen[x]
         /\ \A i \in Nat :
              /\ IsRow(spec[r], i, 0)
              /\ adv[r][a].i < i \/ (adv[r][a].i = i /\ adv[r][a].pc = "loop")
              /\ adv[r][a].seen[RowOf(spec[r], i, 0)] = "pending"
              => nodes[r][RowOf(spec[r], i, 0)] = "pending"
    /\ adv[r][a].pc = "dispatch" =>
         /\ IsRow(spec[r], adv[r][a].i, 0)
         /\ FirstTarget(spec[r][adv[r][a].i]) <= adv[r][a].j
         /\ nodes[r][RowOf(spec[r], adv[r][a].i, 0)] \in
              {"running", "success", "failed"}
         /\ \A j \in Nat : IsRow(spec[r], adv[r][a].i, j) /\ adv[r][a].j <= j =>
              dispatched[r][RowOf(spec[r], adv[r][a].i, j)] = 0

\* The grounds on which a node left pending still hold.
Grounds(r) ==
    \A i \in Nat :
      /\ IsRow(spec[r], i, 0)
      /\ nodes[r][RowOf(spec[r], i, 0)] \in {"running", "success", "failed"}
      => /\ depsTerminal(spec[r][i].dependsOn, nodes[r])
         /\ evalConditions(spec[r][i].conditions, rc[r])

\* A written verdict is the verdict of the tables.
Concluded(r) ==
    runs[r] \in {"success", "failed"} =>
      allTerminal(nodes[r]) /\ runs[r] = finalState(nodes[r])

RunInv(r) ==
    /\ Seeded(r)
    /\ Quiet(r)
    /\ OneAdvance(r)
    /\ Counts(r)
    /\ Unstarted(r)
    /\ \A a \in Caller : Snapshot(r, a)
    /\ Grounds(r)
    /\ Concluded(r)

\* Results are only delivered for started runs, and a verdict about to be
\* written is the verdict of the tables.
CompletedInv(c) ==
    comp[c].pc # "idle" =>
      /\ start[comp[c].run].pc = "done"
      /\ comp[c].pc = "update" =>
           /\ allTerminal(nodes[comp[c].run])
           /\ comp[c].verdict = finalState(nodes[comp[c].run])

IInv ==
    /\ TypeOK
    /\ \A r \in Run : RunInv(r)
    /\ \A c \in Completer : CompletedInv(c)

-----------------------------------------------------------------------------
(* Type correctness *)

LEMMA LocalTypes ==
    /\ IdleAdvance \in AdvanceState
    /\ CalledAdvance \in AdvanceState
    /\ NoRows \in [NodeID -> RowState]
BY DEF IdleAdvance, CalledAdvance, NoRows, RowState, AdvanceState

LEMMA UpsertType ==
    ASSUME TypeOK, NEW r \in Run, NEW x, NEW state \in RowState,
           UpsertNode(r, x, state)
    PROVE  nodes' \in [Run -> [NodeID -> RowState]]
BY DEF TypeOK, UpsertNode

LEMMA GotoType ==
    ASSUME TypeOK, NEW r \in Run, NEW a \in Caller,
           NEW pc \in {"loop", "dispatch"}, NEW i \in Nat, NEW j \in Nat,
           Goto(r, a, pc, i, j)
    PROVE  adv' \in [Run -> [Caller -> AdvanceState]]
<1>1. adv[r][a] \in AdvanceState
  BY DEF TypeOK
<1>2. [pc |-> pc, i |-> i, j |-> j, seen |-> adv[r][a].seen] \in AdvanceState
  BY <1>1 DEF AdvanceState
<1> QED
  BY <1>2 DEF TypeOK, Goto

LEMMA CountType ==
    ASSUME NEW d \in [Run -> [NodeID -> Nat]], NEW r \in Run, NEW x
    PROVE  [d EXCEPT ![r][x] = @ + 1] \in [Run -> [NodeID -> Nat]]
<1>1. CASE x \in NodeID
  BY <1>1
<1>2. CASE x \notin NodeID
  <2>1. [d[r] EXCEPT ![x] = @ + 1] = d[r]
    BY <1>2
  <2> QED
    BY <2>1
<1> QED
  BY <1>1, <1>2

LEMMA TypeInit == Init => TypeOK
BY LocalTypes DEF Init, TypeOK, StartState, CompletedState, RowState, NoRows

LEMMA TypeStep == TypeOK /\ [Next]_vars => TypeOK'
<1> SUFFICES ASSUME TypeOK, [Next]_vars
             PROVE  TypeOK'
  OBVIOUS
<1>1. ASSUME NEW r \in Run, StartCall(r)
      PROVE  TypeOK'
  BY <1>1 DEF TypeOK, StartCall, CreateRun, RunState, StartState
<1>2. ASSUME NEW r \in Run, SeedNode(r)
      PROVE  TypeOK'
  <2>1. start[r] \in StartState
    BY DEF TypeOK
  <2>2. start' \in [Run -> StartState]
    BY <1>2, <2>1 DEF TypeOK, SeedNode, StartState
  <2>3. nodes' \in [Run -> [NodeID -> RowState]]
    BY <1>2, UpsertType DEF SeedNode, RowState, NodeState
  <2> QED
    BY <1>2, <2>2, <2>3 DEF TypeOK, SeedNode
<1>3. ASSUME NEW r \in Run, StartRunning(r)
      PROVE  TypeOK'
  BY <1>3, LocalTypes
     DEF TypeOK, StartRunning, UpdateRunState, RunState, Caller, StartState
<1>4. ASSUME NEW r \in Run, CancelRun(r)
      PROVE  TypeOK'
  BY <1>4 DEF TypeOK, CancelRun, UpdateRunState, RunState
<1>5. ASSUME NEW r \in Run, StartFail(r)
      PROVE  TypeOK'
  BY <1>5 DEF TypeOK, StartFail, StartState
<1>6. ASSUME NEW r \in Run, NEW a \in Caller, AdvanceCall(r, a)
      PROVE  TypeOK'
  BY <1>6, LocalTypes DEF TypeOK, AdvanceCall
<1>7. ASSUME NEW r \in Run, NEW a \in Caller, AdvanceList(r, a)
      PROVE  TypeOK'
  BY <1>7 DEF TypeOK, AdvanceList, ListNodes, AdvanceState
<1>8. ASSUME NEW r \in Run, NEW a \in Caller,
             AdvanceListFail(r, a) \/ AdvanceReturn(r, a)
      PROVE  TypeOK'
  <2>1. adv' = [adv EXCEPT ![r][a] = IdleAdvance]
    BY <1>8 DEF AdvanceListFail, AdvanceReturn
  <2>2. adv' \in [Run -> [Caller -> AdvanceState]]
    BY <2>1, LocalTypes DEF TypeOK
  <2> QED
    BY <1>8, <2>2 DEF TypeOK, AdvanceListFail, AdvanceReturn
<1>9. ASSUME NEW r \in Run, NEW a \in Caller
      PROVE  adv[r][a] \in AdvanceState
  BY DEF TypeOK
<1>10. ASSUME NEW r \in Run, NEW a \in Caller, NextNode(r, a)
       PROVE  adv' \in [Run -> [Caller -> AdvanceState]]
  <2>1. adv[r][a].i + 1 \in Nat
    BY <1>9 DEF AdvanceState
  <2>2. Goto(r, a, "loop", adv[r][a].i + 1, 0)
    BY <1>10 DEF NextNode
  <2> QED
    BY <2>1, <2>2, GotoType
<1>11. ASSUME NEW r \in Run, NEW a \in Caller,
              AdvancePass(r, a) \/ AdvanceMarkFail(r, a) \/ AdvanceNext(r, a)
       PROVE  TypeOK'
  BY <1>10, <1>11 DEF TypeOK, AdvancePass, AdvanceMarkFail, AdvanceNext
<1>12. ASSUME NEW r \in Run, NEW a \in Caller, AdvanceSkip(r, a)
       PROVE  TypeOK'
  <2>1. nodes' \in [Run -> [NodeID -> RowState]]
    BY <1>12, UpsertType DEF TypeOK, AdvanceSkip, RowState, NodeState
  <2> QED
    BY <1>10, <1>12, <2>1 DEF TypeOK, AdvanceSkip
<1>13. ASSUME NEW r \in Run, NEW a \in Caller, AdvanceMark(r, a)
       PROVE  TypeOK'
  <2>1. nodes' \in [Run -> [NodeID -> RowState]]
    BY <1>13, UpsertType DEF AdvanceMark, RowState, NodeState
  <2>2. adv' \in [Run -> [Caller -> AdvanceState]]
    BY <1>9, <1>13, GotoType DEF AdvanceMark, AdvanceState, FirstTarget
  <2> QED
    BY <1>13, <2>1, <2>2 DEF TypeOK, AdvanceMark
<1>14. ASSUME NEW r \in Run, NEW a \in Caller, AdvanceDispatch(r, a)
       PROVE  TypeOK'
  <2>1. adv' \in [Run -> [Caller -> AdvanceState]]
    <3>1. adv[r][a].i \in Nat /\ adv[r][a].j + 1 \in Nat
      BY <1>9 DEF AdvanceState
    <3>2. Goto(r, a, "dispatch", adv[r][a].i, adv[r][a].j + 1)
      BY <1>14 DEF AdvanceDispatch
    <3> QED
      BY <3>1, <3>2, GotoType
  <2>2. dispatched' \in [Run -> [NodeID -> Nat]]
    <3>1. dispatched \in [Run -> [NodeID -> Nat]]
      BY DEF TypeOK
    <3>2. \/ dispatched' = dispatched
          \/ dispatched' = [dispatched EXCEPT
                              ![r][Row(Current(r, a), adv[r][a].j)] = @ + 1]
      BY <1>14 DEF AdvanceDispatch
    <3> QED
      BY <3>1, <3>2, CountType
  <2> QED
    BY <1>14, <2>1, <2>2 DEF TypeOK, AdvanceDispatch
<1>15. ASSUME NEW c \in Completer, NEW r \in Run, NEW x \in NodeID,
              NEW success \in BOOLEAN, NodeCompleted(c, r, x, success)
       PROVE  TypeOK'
  <2>1. nodes' \in [Run -> [NodeID -> RowState]]
    BY <1>15, UpsertType DEF NodeCompleted, RowState, NodeState
  <2>2. comp' \in [Completer -> CompletedState]
    BY <1>15 DEF TypeOK, NodeCompleted, CompletedState
  <2>3. reported' \in [Run -> [NodeID -> Nat]]
    BY <1>15 DEF TypeOK, NodeCompleted
  <2> QED
    BY <1>15, <2>1, <2>2, <2>3 DEF TypeOK, NodeCompleted
<1>16. ASSUME NEW c \in Completer, NEW r \in Run, NEW x \in NodeID,
              NodeCompletedFail(c, r, x)
       PROVE  TypeOK'
  BY <1>16 DEF TypeOK, NodeCompletedFail
<1>17. ASSUME NEW c \in Completer, CompletedList(c)
       PROVE  TypeOK'
  <2>1. comp[c] \in CompletedState
    BY DEF TypeOK
  <2>2. comp[c].run \in Run
    BY <1>17, <2>1 DEF CompletedList, ListNodes, CompletedState, IdleCompleted
  <2> QED
    BY <1>17, <2>2 DEF TypeOK, CompletedList, ListNodes, finalState, CompletedState
<1>18. ASSUME NEW c \in Completer, CompletedUpdate(c)
       PROVE  TypeOK'
  <2>1. comp[c] \in CompletedState
    BY DEF TypeOK
  <2>2. comp[c].verdict \in {"success", "failed"}
    BY <1>18, <2>1 DEF CompletedUpdate, CompletedState, IdleCompleted
  <2> QED
    BY <1>18, <2>2 DEF TypeOK, CompletedUpdate, UpdateRunState,
                       CompletedState, IdleCompleted, RunState
<1>19. ASSUME NEW c \in Completer, CompletedFail(c)
       PROVE  TypeOK'
  BY <1>19 DEF TypeOK, CompletedFail, CompletedState
<1>20. CASE UNCHANGED vars
  BY <1>20 DEF TypeOK, vars
<1> QED
  BY <1>1, <1>2, <1>3, <1>4, <1>5, <1>6, <1>7, <1>8, <1>11, <1>12, <1>13,
     <1>14, <1>15, <1>16, <1>17, <1>18, <1>19, <1>20
     DEF Next, StartStep, AdvanceStep, CompletedStep, Failure

\* TypeCorrect: the tables, the goroutines' local state and the counters keep
\* their types through every step of Start, Advance, NodeCompleted and
\* CancelRun, failing ones included.
THEOREM TypeCorrect == Spec => []TypeOK
<1> QED
  BY TypeInit, TypeStep, PTL DEF Spec

-----------------------------------------------------------------------------
(* Rows *)

LEMMA RowFacts ==
    ASSUME NEW p \in Pipelines \cup {<<>>}
    PROVE  /\ Len(p) \in Nat
           /\ \A i, j \in Nat : IsRow(p, i, j) =>
                /\ RowOf(p, i, j) \in NodeID
                /\ IsRow(p, i, 0)
                /\ RowOf(p, i, 0) = p[i].id
                /\ p[i].dependsOn \subseteq NodeID
                /\ Len(Inner(p[i])) \in Nat
                /\ FirstTarget(p[i]) \in {0, 1}
                /\ i \in 1..Len(p) /\ j \in 0..Len(Inner(p[i]))
<1>1. p \in Seq(Node)
  <2>1. CASE p \in Pipelines
    BY <2>1, PipelinesAssumption
  <2>2. CASE p = <<>>
    BY <2>2
  <2> QED
    BY <2>1, <2>2
<1>2. ASSUME NEW i \in Nat, NEW j \in Nat, IsRow(p, i, j)
      PROVE  /\ RowOf(p, i, j) \in NodeID
             /\ IsRow(p, i, 0)
             /\ RowOf(p, i, 0) = p[i].id
             /\ p[i].dependsOn \subseteq NodeID
             /\ Len(Inner(p[i])) \in Nat
             /\ FirstTarget(p[i]) \in {0, 1}
             /\ i \in 1..Len(p) /\ j \in 0..Len(Inner(p[i]))
  <2>1. i \in 1..Len(p) /\ j \in 0..Len(Inner(p[i]))
    BY <1>2 DEF IsRow
  <2>2. p[i] \in Node
    BY <1>1, <2>1
  <2>3. Inner(p[i]) \in Seq(NodeID)
    BY <2>2 DEF Node, Inner
  <2>4. RowOf(p, i, j) \in NodeID
    <3>1. CASE j = 0
      BY <2>2, <3>1 DEF Node, RowOf, Row
    <3>2. CASE j # 0
      <4>1. j \in 1..Len(Inner(p[i])) /\ Inner(p[i]) = p[i].jobs
        BY <2>1, <2>2, <2>3, <3>2 DEF Inner, Node
      <4> QED
        BY <2>3, <3>2, <4>1 DEF RowOf, Row
    <3> QED
      BY <3>1, <3>2
  <2> QED
    BY <2>1, <2>2, <2>3, <2>4 DEF Node, IsRow, RowOf, Row, FirstTarget
<1> QED
  BY <1>1, <1>2

\* Rows are identified by their ids.
LEMMA RowsDistinct ==
    ASSUME \A p \in Pipelines : DistinctRows(p),
           NEW p \in Pipelines \cup {<<>>},
           NEW i \in Nat, NEW j \in Nat, IsRow(p, i, j),
           NEW k \in Nat, NEW l \in Nat, IsRow(p, k, l),
           RowOf(p, i, j) = RowOf(p, k, l)
    PROVE  i = k /\ j = l
<1>1. p \in Pipelines
  BY DEF IsRow
<1> QED
  BY <1>1 DEF DistinctRows, IsRow, RowOf

\* A dependency that is satisfied stays so while its row does.
LEMMA DepsStable ==
    ASSUME NEW D \in SUBSET NodeID, NEW f, NEW g, depsTerminal(D, f),
           \A x \in NodeID : f[x] \in {"success", "skipped"} => g[x] = f[x]
    PROVE  depsTerminal(D, g)
BY DEF depsTerminal

-----------------------------------------------------------------------------
(* Steps of one run *)

SameRun(r) ==
    /\ runs'[r] = runs[r] /\ nodes'[r] = nodes[r] /\ spec'[r] = spec[r]
    /\ rc'[r] = rc[r] /\ start'[r] = start[r] /\ adv'[r] = adv[r]
    /\ dispatched'[r] = dispatched[r] /\ reported'[r] = reported[r]

\* A run that is started stays so, and tables without work left are frozen.
Settled(r) ==
    start[r].pc = "done" =>
      start'[r].pc = "done" /\ (allTerminal(nodes[r]) => nodes'[r] = nodes[r])

LEMMA SameRunKeeps ==
    ASSUME NEW r \in Run, RunInv(r), SameRun(r)
    PROVE  RunInv(r)' /\ Settled(r)
<1> USE DEF SameRun, RunInv
<1>1. Seeded(r)' /\ Quiet(r)' /\ OneAdvance(r)' /\ Concluded(r)'
  BY DEF Seeded, Quiet, OneAdvance, Concluded
<1>2. Counts(r)' /\ Unstarted(r)' /\ Grounds(r)'
  BY DEF Counts, Unstarted, Grounds
<1>3. ASSUME NEW a \in Caller
      PROVE  Snapshot(r, a)'
  BY DEF Snapshot
<1>4. Settled(r)
  BY DEF Settled
<1> QED
  BY <1>1, <1>2, <1>3, <1>4

LEMMA CompletedStays ==
    ASSUME IInv, TypeOK', \A r \in Run : Settled(r),
           NEW c \in Completer, comp'[c] = comp[c]
    PROVE  CompletedInv(c)'
<1>1. comp[c] \in CompletedState /\ CompletedInv(c)
  BY DEF IInv, TypeOK
<1>2. comp[c].pc = "idle" \/ comp[c].run \in Run
  BY <1>1 DEF CompletedState, IdleCompleted
<1> QED
  BY <1>1, <1>2 DEF CompletedInv, Settled

\* A step of run r that keeps its invariant and settles it keeps IInv, as long
\* as the calls of NodeCompleted it touches keep theirs.
LEMMA RunStep ==
    ASSUME IInv, TypeOK', NEW r \in Run,
           \A q \in Run : q # r => SameRun(q),
           RunInv(r)', Settled(r),
           \A c \in Completer : comp'[c] = comp[c] \/ CompletedInv(c)'
    PROVE  IInv'
<1>1. \A q \in Run : RunInv(q)' /\ Settled(q)
  BY SameRunKeeps DEF IInv
<1> QED
  BY <1>1, CompletedStays DEF IInv

\* The same for a step that changes no run.
LEMMA NoRunStep ==
    ASSUME IInv, TypeOK',
           UNCHANGED <<runs, nodes, spec, rc, start, adv, dispatched, reported>>,
           \A c \in Completer : comp'[c] = comp[c] \/ CompletedInv(c)'
    PROVE  IInv'
<1>1. \A q \in Run : SameRun(q)
  BY DEF SameRun
<1>2. \A q \in Run : RunInv(q)' /\ Settled(q)
  BY <1>1, SameRunKeeps DEF IInv
<1> QED
  BY <1>2, CompletedStays DEF IInv

LEMMA IInvInit == Init => IInv
<1> SUFFICES ASSUME Init
             PROVE  IInv
  OBVIOUS
<1>1. TypeOK
  BY TypeInit
<1>2. ASSUME NEW r \in Run
      PROVE  RunInv(r)
  <2>1. /\ runs[r] = Absent /\ start[r].pc = "idle"
        /\ \A x \in NodeID : /\ nodes[r][x] = Absent
                             /\ dispatched[r][x] = 0 /\ reported[r][x] = 0
        /\ \A a \in Caller : adv[r][a].pc = "idle"
        /\ spec[r] \in Pipelines \cup {<<>>}
    BY <1>1 DEF Init, TypeOK, IdleAdvance
  <2>2. Seeded(r) /\ Quiet(r) /\ OneAdvance(r) /\ Concluded(r)
    BY <2>1 DEF Seeded, Quiet, OneAdvance, Concluded, Absent
  <2>3. Counts(r) /\ Unstarted(r) /\ Grounds(r)
    BY <2>1, RowFacts DEF Counts, Unstarted, Grounds, Absent
  <2>4. \A a \in Caller : Snapshot(r, a)
    BY <2>1 DEF Snapshot
  <2> QED
    BY <2>2, <2>3, <2>4 DEF RunInv
<1>3. \A c \in Completer : CompletedInv(c)
  BY DEF Init, CompletedInv, IdleCompleted
<1> QED
  BY <1>1, <1>2, <1>3 DEF IInv

-----------------------------------------------------------------------------
(* Start preserves the invariant *)

LEMMA StartCallStep ==
    ASSUME IInv, TypeOK', NEW r \in Run, StartCall(r)
    PROVE  IInv'
<1> USE DEF IInv
<1>1. \A q \in Run : q # r => SameRun(q)
  BY DEF TypeOK, StartCall, CreateRun, SameRun
<1>2. /\ start[r].pc = "idle"
      /\ start'[r] = [pc |-> "seed", i |-> 1, j |-> 0]
      /\ runs'[r] = "pending"
      /\ UNCHANGED <<nodes, adv, comp, dispatched, reported>>
      /\ spec'[r] \in Pipelines \cup {<<>>} /\ Len(spec'[r]) \in Nat
  BY RowFacts DEF TypeOK, StartCall, CreateRun
<1>3. /\ \A a \in Caller : adv[r][a].pc = "idle"
      /\ \A x \in NodeID : /\ nodes[r][x] \in {Absent, "pending"}
                           /\ dispatched[r][x] = 0
  BY <1>2 DEF RunInv, Quiet
<1>4. Seeded(r)'
  BY <1>2, RowFacts DEF Seeded
<1>5. Quiet(r)' /\ OneAdvance(r)' /\ Concluded(r)'
  BY <1>2, <1>3 DEF Quiet, OneAdvance, Concluded
<1>6. Counts(r)' /\ Unstarted(r)' /\ Grounds(r)'
  <2>1. Counts(r)'
    BY <1>2, <1>3 DEF RunInv, Counts, Absent
  <2>2. Unstarted(r)' /\ Grounds(r)'
    BY <1>2, <1>3, RowFacts DEF Unstarted, Grounds, Absent
  <2> QED
    BY <2>1, <2>2
<1>7. \A a \in Caller : Snapshot(r, a)'
  BY <1>2, <1>3 DEF Snapshot
<1>8. RunInv(r)' /\ Settled(r)
  BY <1>2, <1>4, <1>5, <1>6, <1>7 DEF RunInv, Settled
<1> QED
  BY <1>1, <1>2, <1>8, RunStep
LEMMA SeedNodeStep ==
    ASSUME IInv, TypeOK', NEW r \in Run, SeedNode(r)
    PROVE  IInv'
<1> USE DEF IInv
<1> DEFINE i == start[r].i
           j == start[r].j
           p == spec[r]
           x == RowOf(p, i, j)
<1>1. \A q \in Run : q # r => SameRun(q)
  BY DEF TypeOK, SeedNode, UpsertNode, SameRun
<1>2. /\ p \in Pipelines \cup {<<>>}
      /\ i \in Nat /\ j \in Nat
      /\ start[r].pc = "seed" /\ i <= Len(p)
  BY DEF TypeOK, StartState, SeedNode
<1>3. IsRow(p, i, j) /\ x \in NodeID
  <2>1. i \in 1..Len(p) /\ (j = 0 \/ IsRow(p, i, j)) /\ Len(p) \in Nat
    BY <1>2, RowFacts DEF RunInv, Seeded
  <2>2. Len(Inner(p[i])) \in Nat
    <3>1. p \in Pipelines
      BY <1>2, <2>1
    <3>2. p[i] \in Node
      BY <2>1, <3>1, PipelinesAssumption
    <3> QED
      BY <3>2 DEF Node, Inner
  <2>3. IsRow(p, i, j)
    BY <2>1, <2>2 DEF IsRow
  <2> QED
    BY <1>2, <2>3, RowFacts
<1>4. /\ \A y \in NodeID : nodes'[r][y] = IF y = x THEN "pending" ELSE nodes[r][y]
      /\ start'[r] = IF j < Len(Inner(p[i]))
                     THEN [pc |-> "seed", i |-> i, j |-> j + 1]
                     ELSE [pc |-> "seed", i |-> i + 1, j |-> 0]
      /\ UNCHANGED <<runs, spec, rc, adv, comp, dispatched, reported>>
  BY <1>3 DEF TypeOK, SeedNode, UpsertNode, RowOf
<1>5. /\ \A a \in Caller : adv[r][a].pc = "idle"
      /\ \A y \in NodeID : /\ nodes[r][y] \in {Absent, "pending"}
                           /\ dispatched[r][y] = 0
      /\ runs[r] \notin {"success", "failed"}
  BY <1>2 DEF RunInv, Quiet
<1>6. /\ \A y \in NodeID : nodes'[r][y] \in {Absent, "pending"}
      /\ start'[r].pc = "seed"
  BY <1>4, <1>5
<1>7. Seeded(r)'
  <2>1. start'[r].i \in 1..(Len(p) + 1)
    BY <1>2, <1>3, <1>4, RowFacts
  <2>2. start'[r].j = 0 \/ IsRow(p, start'[r].i, start'[r].j)
    BY <1>2, <1>3, <1>4 DEF IsRow
  <2>3. ASSUME NEW k \in Nat, NEW l \in Nat, IsRow(p, k, l),
               k < start'[r].i \/ (k = start'[r].i /\ l < start'[r].j)
        PROVE  nodes'[r][RowOf(p, k, l)] # Absent
    <3>1. RowOf(p, k, l) \in NodeID /\ l <= Len(Inner(p[k]))
          /\ Len(Inner(p[k])) \in Nat
      BY <1>2, <2>3, RowFacts
    <3>2. k < i \/ (k = i /\ l < j) \/ (k = i /\ l = j)
      BY <1>2, <1>4, <2>3, <3>1
    <3>3. CASE k = i /\ l = j
      BY <1>3, <1>4, <3>3 DEF Absent
    <3>4. CASE k < i \/ (k = i /\ l < j)
      <4>1. nodes[r][RowOf(p, k, l)] # Absent
        BY <1>2, <2>3, <3>4 DEF RunInv, Seeded
      <4> QED
        BY <1>4, <3>1, <4>1 DEF Absent
    <3> QED
      BY <3>2, <3>3, <3>4
  <2> HIDE DEF i, j
  <2> QED
    BY <1>4, <1>6, <2>1, <2>2, <2>3 DEF Seeded
<1>8. Quiet(r)' /\ OneAdvance(r)' /\ Concluded(r)'
  BY <1>4, <1>5, <1>6 DEF RunInv, Quiet, OneAdvance, Concluded
<1>9. Counts(r)' /\ Unstarted(r)' /\ Grounds(r)'
  <2> HIDE DEF i, j, x
  <2>1. Counts(r)'
    BY <1>4, <1>5, <1>6 DEF RunInv, Counts, Absent
  <2>2. Unstarted(r)'
    BY <1>2, <1>4, <1>5, RowFacts DEF Unstarted
  <2>3. Grounds(r)'
    BY <1>2, <1>4, <1>6, RowFacts DEF Grounds, Absent
  <2> QED
    BY <2>1, <2>2, <2>3
<1>10. \A a \in Caller : Snapshot(r, a)'
  BY <1>4, <1>5 DEF Snapshot
<1>11. RunInv(r)' /\ Settled(r)
  BY <1>2, <1>7, <1>8, <1>9, <1>10 DEF RunInv, Settled
<1> QED
  BY <1>1, <1>4, <1>11, RunStep

LEMMA StartRunningStep ==
    ASSUME IInv, TypeOK', NEW r \in Run, StartRunning(r)
    PROVE  IInv'
<1> USE DEF IInv
<1>1. \A q \in Run : q # r => SameRun(q)
  BY DEF TypeOK, StartRunning, UpdateRunState, SameRun
<1>2. /\ \A a \in Caller :
           adv'[r][a] = IF a = "main" THEN CalledAdvance ELSE adv[r][a]
      /\ start[r].pc = "seed" /\ start[r].i > Len(spec[r])
      /\ start'[r].pc = "done" /\ runs'[r] = "running"
      /\ UNCHANGED <<nodes, spec, rc, comp, dispatched, reported>>
  BY DEF TypeOK, StartRunning, UpdateRunState, Caller
<1>3. \A a \in Caller : adv[r][a].pc = "idle"
  BY <1>2 DEF RunInv, Quiet
<1>4. Seeded(r)'
  <2>1. spec[r] \in Pipelines \cup {<<>>} /\ start[r].i \in Nat
    BY DEF TypeOK, StartState
  <2>2. \A i, j \in Nat : IsRow(spec[r], i, j) => i < start[r].i
    BY <1>2, <2>1, RowFacts
  <2> QED
    BY <1>2, <2>2 DEF RunInv, Seeded
<1>5. Quiet(r)' /\ OneAdvance(r)' /\ Concluded(r)'
  BY <1>2, <1>3 DEF Quiet, OneAdvance, Concluded
<1>6. Counts(r)' /\ Unstarted(r)' /\ Grounds(r)'
  BY <1>2 DEF RunInv, Counts, Unstarted, Grounds
<1>7. \A a \in Caller : Snapshot(r, a)'
  BY <1>2, <1>3 DEF Snapshot, CalledAdvance
<1>8. RunInv(r)' /\ Settled(r)
  BY <1>2, <1>4, <1>5, <1>6, <1>7 DEF RunInv, Settled
<1> QED
  BY <1>1, <1>2, <1>8, RunStep

LEMMA StartFailStep ==
    ASSUME IInv, TypeOK', NEW r \in Run, StartFail(r)
    PROVE  IInv'
<1> USE DEF IInv
<1>1. \A q \in Run : q # r => SameRun(q)
  BY DEF TypeOK, StartFail, SameRun
<1>2. /\ start[r].pc = "seed" /\ start'[r].pc = "failed"
      /\ UNCHANGED <<runs, nodes, spec, rc, adv, comp, dispatched, reported>>
  BY DEF TypeOK, StartFail
<1>3. Seeded(r)' /\ Quiet(r)' /\ OneAdvance(r)' /\ Concluded(r)'
  BY <1>2 DEF RunInv, Seeded, Quiet, OneAdvance, Concluded
<1>4. Counts(r)' /\ Unstarted(r)' /\ Grounds(r)'
  BY <1>2 DEF RunInv, Counts, Unstarted, Grounds
<1>5. \A a \in Caller : Snapshot(r, a)'
  BY <1>2 DEF RunInv, Snapshot
<1>6. RunInv(r)' /\ Settled(r)
  BY <1>2, <1>3, <1>4, <1>5 DEF RunInv, Settled
<1> QED
  BY <1>1, <1>2, <1>6, RunStep

LEMMA CancelRunStep ==
    ASSUME IInv, TypeOK', NEW r \in Run, CancelRun(r)
    PROVE  IInv'
<1> USE DEF IInv
<1>1. \A q \in Run : q # r => SameRun(q)
  BY DEF TypeOK, CancelRun, UpdateRunState, SameRun
<1>2. /\ runs'[r] = "cancelled"
      /\ UNCHANGED <<nodes, spec, rc, start, adv, comp, dispatched, reported>>
  BY DEF TypeOK, CancelRun, UpdateRunState
<1>3. Seeded(r)' /\ Quiet(r)' /\ OneAdvance(r)' /\ Concluded(r)'
  BY <1>2 DEF RunInv, Seeded, Quiet, OneAdvance, Concluded
<1>4. Counts(r)' /\ Unstarted(r)' /\ Grounds(r)'
  BY <1>2 DEF RunInv, Counts, Unstarted, Grounds
<1>5. \A a \in Caller : Snapshot(r, a)'
  BY <1>2 DEF RunInv, Snapshot
<1>6. RunInv(r)' /\ Settled(r)
  BY <1>2, <1>3, <1>4, <1>5 DEF RunInv, Settled
<1> QED
  BY <1>1, <1>2, <1>6, RunStep
-----------------------------------------------------------------------------
(* Advance preserves the invariant *)

\* An active Advance is the only one of its run, and the run is started.
LEMMA ActiveAdvance ==
    ASSUME IInv, NEW r \in Run, NEW a \in Caller, adv[r][a].pc # "idle"
    PROVE  /\ start[r].pc = "done"
           /\ \A b \in Caller : b # a => adv[r][b].pc = "idle"
BY DEF IInv, RunInv, Quiet, OneAdvance

\* A step that changes only the local state of one Advance.
LEMMA AdvanceOnly ==
    ASSUME IInv, TypeOK', NEW r \in Run, NEW a \in Caller, NEW new,
           adv' = [adv EXCEPT ![r][a] = new],
           UNCHANGED <<runs, nodes, spec, rc, start, comp, dispatched, reported>>,
           start[r].pc = "done",
           \A b \in Caller : b # a => adv[r][b].pc = "idle",
           Snapshot(r, a)'
    PROVE  IInv'
<1> USE DEF IInv
<1>1. \A q \in Run : q # r => SameRun(q)
  BY DEF TypeOK, SameRun
<1>2. \A b \in Caller : b # a => adv'[r][b] = adv[r][b]
  BY DEF TypeOK
<1>3. Seeded(r)' /\ Quiet(r)' /\ OneAdvance(r)' /\ Concluded(r)'
  BY <1>2 DEF RunInv, Seeded, Quiet, OneAdvance, Concluded
<1>4. Counts(r)' /\ Unstarted(r)' /\ Grounds(r)'
  BY DEF RunInv, Counts, Unstarted, Grounds
<1>5. ASSUME NEW b \in Caller, b # a
      PROVE  Snapshot(r, b)'
  BY <1>2, <1>5 DEF Snapshot
<1>6. RunInv(r)' /\ Settled(r)
  BY <1>3, <1>4, <1>5 DEF RunInv, Settled
<1> QED
  BY <1>1, <1>6, RunStep

LEMMA AdvanceCallStep ==
    ASSUME IInv, TypeOK', Serial = TRUE, NEW r \in Run, NEW a \in Caller,
           AdvanceCall(r, a)
    PROVE  IInv'
<1>1. adv'[r][a] = CalledAdvance
  BY DEF IInv, TypeOK, AdvanceCall
<1>2. Snapshot(r, a)'
  BY <1>1 DEF Snapshot, CalledAdvance
<1>3. /\ adv' = [adv EXCEPT ![r][a] = CalledAdvance]
      /\ start[r].pc = "done"
      /\ UNCHANGED <<runs, nodes, spec, rc, start, comp, dispatched, reported>>
  BY DEF AdvanceCall
<1>4. \A b \in Caller : b # a => adv[r][b].pc = "idle"
  BY Zenon DEF AdvanceCall
<1> QED
  BY <1>2, <1>3, <1>4, AdvanceOnly

LEMMA AdvanceListStep ==
    ASSUME IInv, TypeOK', NEW r \in Run, NEW a \in Caller, AdvanceList(r, a)
    PROVE  IInv'
<1> DEFINE new == [pc |-> "loop", i |-> 1, j |-> 0, seen |-> nodes[r]]
<1>1. adv'[r][a] = new /\ adv[r][a].pc # "idle" /\ UNCHANGED <<nodes, spec>>
  BY DEF IInv, TypeOK, AdvanceList, ListNodes
<1>2. Snapshot(r, a)'
  BY <1>1 DEF Snapshot
<1>3. /\ adv' = [adv EXCEPT ![r][a] = new]
      /\ UNCHANGED <<runs, nodes, spec, rc, start, comp, dispatched, reported>>
  BY DEF AdvanceList, ListNodes
<1>4. start[r].pc = "done" /\ \A b \in Caller : b # a => adv[r][b].pc = "idle"
  BY <1>1, ActiveAdvance
<1> HIDE DEF new
<1> QED
  BY <1>2, <1>3, <1>4, AdvanceOnly

LEMMA AdvanceEndStep ==
    ASSUME IInv, TypeOK', NEW r \in Run, NEW a \in Caller,
           AdvanceListFail(r, a) \/ AdvanceReturn(r, a)
    PROVE  IInv'
<1>1. /\ adv' = [adv EXCEPT ![r][a] = IdleAdvance] /\ adv[r][a].pc # "idle"
      /\ UNCHANGED <<runs, nodes, spec, rc, start, comp, dispatched, reported>>
  BY DEF AdvanceListFail, AdvanceReturn
<1>2. adv'[r][a] = IdleAdvance
  BY <1>1 DEF IInv, TypeOK
<1>3. Snapshot(r, a)'
  BY <1>2 DEF Snapshot, IdleAdvance
<1> QED
  BY <1>1, <1>3, ActiveAdvance, AdvanceOnly

LEMMA AdvancePassStep ==
    ASSUME IInv, TypeOK', NEW r \in Run, NEW a \in Caller, NextNode(r, a),
           adv[r][a].pc \in {"loop", "dispatch"},
           UNCHANGED <<runs, nodes, spec, rc, start, comp, dispatched, reported>>
    PROVE  IInv'
<1> DEFINE new == [pc |-> "loop", i |-> adv[r][a].i + 1, j |-> 0,
                   seen |-> adv[r][a].seen]
<1>1. adv' = [adv EXCEPT ![r][a] = new]
  BY DEF NextNode, Goto
<1>2. adv'[r][a] = new /\ adv[r][a].i \in Nat
  BY <1>1 DEF IInv, TypeOK, AdvanceState
<1>3. Snapshot(r, a)'
  <2>1. Snapshot(r, a)
    BY DEF IInv, RunInv
  <2> QED
    BY <1>2, <2>1 DEF Snapshot
<1>4. start[r].pc = "done" /\ \A b \in Caller : b # a => adv[r][b].pc = "idle"
  BY ActiveAdvance
<1> HIDE DEF new
<1> QED
  BY <1>1, <1>3, <1>4, AdvanceOnly
\* The row under the cursor is pending in the tables whenever the snapshot lets
\* the loop write it, and its dependencies are satisfied there.
LEMMA CursorRow ==
    ASSUME IInv, NEW r \in Run, NEW a \in Caller, Looping(r, a),
           Ready(Current(r, a), adv[r][a].seen)
    PROVE  /\ adv[r][a].i \in Nat
           /\ spec[r] \in Pipelines \cup {<<>>}
           /\ IsRow(spec[r], adv[r][a].i, 0)
           /\ Current(r, a).id = RowOf(spec[r], adv[r][a].i, 0)
           /\ RowOf(spec[r], adv[r][a].i, 0) \in NodeID
           /\ nodes[r][RowOf(spec[r], adv[r][a].i, 0)] = "pending"
           /\ depsTerminal(spec[r][adv[r][a].i].dependsOn, adv[r][a].seen)
<1> DEFINE i == adv[r][a].i
           p == spec[r]
<1>1. i \in Nat /\ p \in Pipelines \cup {<<>>} /\ Snapshot(r, a)
  BY DEF IInv, TypeOK, AdvanceState, RunInv
<1>2. i \in 1..Len(p)
  BY <1>1, RowFacts DEF Looping, Snapshot
<1>3. IsRow(p, i, 0)
  <2>1. p \in Pipelines
    BY <1>1, <1>2
  <2>2. p[i] \in Node
    BY <1>2, <2>1, PipelinesAssumption
  <2>3. Len(Inner(p[i])) \in Nat
    BY <2>2 DEF Node, Inner
  <2> QED
    BY <1>2, <2>3 DEF IsRow
<1>4. p[i].id = RowOf(p, i, 0) /\ RowOf(p, i, 0) \in NodeID
  BY <1>1, <1>3, RowFacts
<1>5. nodes[r][RowOf(p, i, 0)] = "pending"
  BY <1>1, <1>3, <1>4 DEF Looping, Snapshot, Ready, Current
<1> QED
  BY <1>1, <1>3, <1>4, <1>5 DEF Ready, Current

\* AdvanceSkip and AdvanceMark: the row under the cursor is written.
LEMMA AdvanceWriteStep ==
    ASSUME IInv, TypeOK', \A p \in Pipelines : DistinctRows(p),
           NEW r \in Run, NEW a \in Caller, NEW state \in {"skipped", "running"},
           Looping(r, a), Ready(Current(r, a), adv[r][a].seen),
           state = "running" => evalConditions(Current(r, a).conditions, rc[r]),
           UpsertNode(r, Current(r, a).id, state),
           IF state = "running"
           THEN Goto(r, a, "dispatch", adv[r][a].i, FirstTarget(Current(r, a)))
           ELSE Goto(r, a, "loop", adv[r][a].i + 1, 0),
           UNCHANGED <<runs, spec, rc, start, comp, dispatched, reported>>
    PROVE  IInv'
<1> DEFINE i == adv[r][a].i
           p == spec[r]
           x == RowOf(p, i, 0)
           new == IF state = "running"
                  THEN [pc |-> "dispatch", i |-> i, j |-> FirstTarget(p[i]),
                        seen |-> adv[r][a].seen]
                  ELSE [pc |-> "loop", i |-> i + 1, j |-> 0,
                        seen |-> adv[r][a].seen]
<1>1. /\ i \in Nat /\ p \in Pipelines \cup {<<>>}
      /\ IsRow(p, i, 0) /\ Current(r, a).id = x /\ x \in NodeID
      /\ nodes[r][x] = "pending"
      /\ depsTerminal(p[i].dependsOn, adv[r][a].seen)
  BY CursorRow
<1>2. /\ start[r].pc = "done"
      /\ \A b \in Caller : b # a => adv[r][b].pc = "idle"
  BY ActiveAdvance DEF Looping
<1>3. nodes' = [nodes EXCEPT ![r][x] = state] /\ adv' = [adv EXCEPT ![r][a] = new]
  BY <1>1 DEF UpsertNode, Goto, Current
<1>4. /\ \A q \in Run : q # r => SameRun(q)
      /\ \A y \in NodeID : nodes'[r][y] = IF y = x THEN state ELSE nodes[r][y]
      /\ \A b \in Caller : b # a => adv'[r][b] = adv[r][b]
      /\ adv'[r][a] = new
  BY <1>1, <1>3 DEF IInv, TypeOK, SameRun
<1>5. RunInv(r) /\ Snapshot(r, a) /\ adv[r][a].pc = "loop"
  BY DEF IInv, RunInv, Looping
<1> HIDE DEF x, p, i, new
<1>6. \A y \in NodeID : nodes[r][y] \in {"success", "skipped"} =>
                          nodes'[r][y] = nodes[r][y]
  BY <1>1, <1>4
<1>7. Seeded(r)' /\ Quiet(r)' /\ OneAdvance(r)'
  <2>1. Seeded(r)'
    BY <1>1, <1>2, <1>4, <1>5, RowFacts DEF RunInv, Seeded, Absent, p
  <2> QED
    BY <1>2, <1>4, <2>1 DEF Quiet, OneAdvance
<1>8. Concluded(r)' /\ Settled(r)
  <2>1. ~allTerminal(nodes[r])
    BY <1>1 DEF allTerminal
  <2> QED
    BY <1>5, <2>1 DEF RunInv, Concluded, Settled
<1>9. Counts(r)'
  BY <1>1, <1>4, <1>5 DEF RunInv, Counts, p, x
<1>10. Unstarted(r)'
  BY <1>1, <1>4, <1>5, RowFacts DEF RunInv, Unstarted, p
<1>11. Grounds(r)'
  <2> SUFFICES ASSUME NEW k \in Nat, IsRow(p, k, 0),
                      nodes'[r][RowOf(p, k, 0)] \in {"running", "success", "failed"}
               PROVE  /\ depsTerminal(p[k].dependsOn, nodes'[r])
                      /\ evalConditions(p[k].conditions, rc[r])
    BY DEF Grounds, p
  <2>1. p[k].dependsOn \in SUBSET NodeID /\ RowOf(p, k, 0) \in NodeID
    BY <1>1, RowFacts
  <2>2. CASE k = i
    <3>1. state = "running"
      BY <1>1, <1>4, <2>2 DEF x
    <3>2. \A y \in NodeID : adv[r][a].seen[y] \in {"success", "skipped"} =>
                              nodes'[r][y] = adv[r][a].seen[y]
      BY <1>5, <1>6 DEF Snapshot
    <3>3. depsTerminal(p[k].dependsOn, nodes'[r])
      BY <1>1, <2>1, <2>2, <3>2, DepsStable
    <3>4. evalConditions(p[k].conditions, rc[r])
      BY <2>2, <3>1 DEF Current, p, i
    <3> QED
      BY <3>3, <3>4
  <2>3. CASE k # i
    <3>1. RowOf(p, k, 0) # x
      BY <1>1, <2>3, RowsDistinct DEF x
    <3>2. /\ depsTerminal(p[k].dependsOn, nodes[r])
          /\ evalConditions(p[k].conditions, rc[r])
      BY <1>4, <1>5, <2>1, <3>1 DEF RunInv, Grounds, p
    <3> QED
      BY <1>6, <2>1, <3>2, DepsStable
  <2> QED
    BY <2>2, <2>3
<1>12. Snapshot(r, a)'
  <2>1. \A y \in NodeID : adv[r][a].seen[y] \in {"success", "skipped"} =>
                            nodes'[r][y] = adv[r][a].seen[y]
    BY <1>5, <1>6 DEF Snapshot
  <2>2. ASSUME NEW k \in Nat, IsRow(p, k, 0), i < k,
               adv[r][a].seen[RowOf(p, k, 0)] = "pending"
        PROVE  nodes'[r][RowOf(p, k, 0)] = "pending"
    <3>1. RowOf(p, k, 0) # x
      <4>1. k # i
        BY <1>1, <2>2
      <4> QED
        BY <1>1, <2>2, <4>1, RowsDistinct DEF x
    <3>2. nodes[r][RowOf(p, k, 0)] = "pending"
      BY <1>5, <2>2 DEF Snapshot, p, i
    <3> QED
      BY <1>1, <1>4, <2>2, <3>1, <3>2, RowFacts
  <2>3. \A l \in Nat : IsRow(p, i, l) => dispatched[r][RowOf(p, i, l)] = 0
    BY <1>1, <1>5 DEF RunInv, Unstarted, p, x
  <2>4. i >= 1 /\ FirstTarget(p[i]) \in Nat
    BY <1>1, RowFacts
  <2>5. CASE state = "running"
    <3>1. /\ adv'[r][a].pc = "dispatch" /\ adv'[r][a].i = i
          /\ adv'[r][a].j = FirstTarget(p[i])
          /\ adv'[r][a].seen = adv[r][a].seen
      BY <1>4, <2>5 DEF new
    <3> QED
      BY <1>1, <1>4, <2>1, <2>2, <2>3, <2>4, <2>5, <3>1 DEF Snapshot, p, x
  <2>6. CASE state = "skipped"
    <3>1. /\ adv'[r][a].pc = "loop" /\ adv'[r][a].i = i + 1
          /\ adv'[r][a].seen = adv[r][a].seen
      BY <1>4, <2>6 DEF new
    <3> QED
      BY <1>1, <2>1, <2>2, <2>4, <3>1 DEF Snapshot, p
  <2> QED
    BY <2>5, <2>6
<1>13. ASSUME NEW b \in Caller, b # a
       PROVE  Snapshot(r, b)'
  BY <1>2, <1>4, <1>13 DEF Snapshot
<1>14. RunInv(r)'
  BY <1>7, <1>8, <1>9, <1>10, <1>11, <1>12, <1>13 DEF RunInv
<1> QED
  BY <1>4, <1>8, <1>14, RunStep
LEMMA AdvanceDispatchStep ==
    ASSUME IInv, TypeOK', \A p \in Pipelines : DistinctRows(p),
           NEW r \in Run, NEW a \in Caller, AdvanceDispatch(r, a)
    PROVE  IInv'
<1> DEFINE i == adv[r][a].i
           j == adv[r][a].j
           p == spec[r]
           x == RowOf(p, i, j)
           new == [pc |-> "dispatch", i |-> i, j |-> j + 1,
                   seen |-> adv[r][a].seen]
<1>1. /\ i \in Nat /\ j \in Nat /\ p \in Pipelines \cup {<<>>}
      /\ adv[r][a].pc = "dispatch" /\ j <= Len(Inner(p[i]))
      /\ RunInv(r) /\ Snapshot(r, a)
  BY DEF IInv, TypeOK, AdvanceState, RunInv, AdvanceDispatch, LastTarget, Current
<1>2. /\ adv' = [adv EXCEPT ![r][a] = new]
      /\ UNCHANGED <<runs, nodes, spec, rc, start, comp, reported>>
      /\ \/ dispatched' = [dispatched EXCEPT ![r][x] = @ + 1]
         \/ dispatched' = dispatched
  BY DEF AdvanceDispatch, Goto, Current, RowOf
<1>3. /\ start[r].pc = "done"
      /\ \A b \in Caller : b # a => adv[r][b].pc = "idle"
  BY <1>1, ActiveAdvance
<1>4. /\ adv'[r][a] = new
      /\ \A b \in Caller : b # a => adv'[r][b] = adv[r][b]
  BY <1>2 DEF IInv, TypeOK
<1>5. /\ IsRow(p, i, 0) /\ FirstTarget(p[i]) <= j /\ FirstTarget(p[i]) \in Nat
      /\ nodes[r][RowOf(p, i, 0)] \in {"running", "success", "failed"}
      /\ \A l \in Nat : IsRow(p, i, l) /\ j <= l =>
                          dispatched[r][RowOf(p, i, l)] = 0
  <2>1. /\ IsRow(p, i, 0) /\ FirstTarget(p[i]) <= j
        /\ nodes[r][RowOf(p, i, 0)] \in {"running", "success", "failed"}
        /\ \A l \in Nat : IsRow(p, i, l) /\ j <= l =>
                            dispatched[r][RowOf(p, i, l)] = 0
    BY <1>1 DEF Snapshot
  <2>2. FirstTarget(p[i]) \in Nat
    BY <1>1, <2>1, RowFacts
  <2> QED
    BY <2>1, <2>2
<1>6. /\ IsRow(p, i, j) /\ x \in NodeID /\ dispatched[r][x] = 0
      /\ RowOf(p, i, 0) \in NodeID
  <2>1. IsRow(p, i, j)
    BY <1>1, <1>5 DEF IsRow
  <2> QED
    BY <1>1, <1>5, <2>1, RowFacts
<1> HIDE DEF x, p, i, j, new
<1>7. /\ adv'[r][a].pc = "dispatch" /\ adv'[r][a].i = i
      /\ adv'[r][a].j = j + 1 /\ adv'[r][a].seen = adv[r][a].seen
      /\ FirstTarget(p[i]) <= j + 1 /\ i >= 1
      /\ \A y \in NodeID : adv[r][a].seen[y] \in {"success", "skipped"} =>
           nodes[r][y] = adv[r][a].seen[y]
      /\ \A k \in Nat : /\ IsRow(p, k, 0) /\ i < k
                        /\ adv[r][a].seen[RowOf(p, k, 0)] = "pending"
                        => nodes[r][RowOf(p, k, 0)] = "pending"
  <2>1. FirstTarget(p[i]) <= j + 1
    BY <1>1, <1>5
  <2>2. /\ i >= 1
        /\ \A y \in NodeID : adv[r][a].seen[y] \in {"success", "skipped"} =>
             nodes[r][y] = adv[r][a].seen[y]
        /\ \A k \in Nat : /\ IsRow(p, k, 0) /\ i < k
                          /\ adv[r][a].seen[RowOf(p, k, 0)] = "pending"
                          => nodes[r][RowOf(p, k, 0)] = "pending"
    BY <1>1 DEF Snapshot, p, i
  <2> QED
    BY <1>4, <2>1, <2>2 DEF new
<1>8. ASSUME dispatched' = dispatched
      PROVE  IInv'
  <2>1. \A l \in Nat : IsRow(p, i, l) /\ j + 1 <= l =>
                         dispatched'[r][RowOf(p, i, l)] = 0
    BY <1>1, <1>5, <1>8
  <2>2. Snapshot(r, a)'
    BY <1>2, <1>5, <1>7, <2>1 DEF Snapshot, p
  <2> QED
    BY <1>2, <1>3, <1>8, <2>2, AdvanceOnly
<1>9. ASSUME dispatched' = [dispatched EXCEPT ![r][x] = @ + 1]
      PROVE  IInv'
  <2>1. /\ \A q \in Run : q # r => SameRun(q)
        /\ \A y \in NodeID : dispatched'[r][y] =
                               IF y = x THEN 1 ELSE dispatched[r][y]
    BY <1>2, <1>6, <1>9 DEF IInv, TypeOK, SameRun
  <2>2. Seeded(r)' /\ Quiet(r)' /\ OneAdvance(r)' /\ Concluded(r)' /\ Grounds(r)'
    BY <1>1, <1>2, <1>3, <1>4
       DEF RunInv, Seeded, Quiet, OneAdvance, Concluded, Grounds
  <2>3. Settled(r)
    BY <1>2 DEF Settled
  <2>4. Counts(r)'
    <3> SUFFICES ASSUME NEW y \in NodeID
                 PROVE  /\ reported[r][y] <= dispatched'[r][y]
                        /\ dispatched'[r][y] <= 1
                        /\ nodes[r][y] \in {"success", "failed"} =>
                             reported[r][y] = 1 /\ dispatched'[r][y] = 1
                        /\ dispatched'[r][y] > 0 =>
                             \E k, l \in Nat :
                               /\ IsRow(p, k, l) /\ y = RowOf(p, k, l)
                               /\ FirstTarget(p[k]) <= l
                        /\ nodes[r][y] \in {"running", "skipped"} =>
                             \E k \in Nat : IsRow(p, k, 0) /\ y = RowOf(p, k, 0)
      BY <1>2 DEF Counts, p
    <3>1. CASE y # x
      BY <1>1, <2>1, <3>1 DEF RunInv, Counts, p
    <3>2. CASE y = x
      <4>1. \E k, l \in Nat : /\ IsRow(p, k, l) /\ y = RowOf(p, k, l)
                              /\ FirstTarget(p[k]) <= l
        BY <1>1, <1>5, <1>6, <3>2 DEF x
      <4>2. /\ reported[r][y] \in Nat /\ reported[r][y] <= 0
            /\ nodes[r][y] \notin {"success", "failed"}
            /\ nodes[r][y] \in {"running", "skipped"} =>
                 \E k \in Nat : IsRow(p, k, 0) /\ y = RowOf(p, k, 0)
        BY <1>1, <1>6, <3>2 DEF RunInv, Counts, IInv, TypeOK, p
      <4> QED
        BY <2>1, <3>2, <4>1, <4>2
    <3> QED
      BY <3>1, <3>2
  <2>5. Unstarted(r)'
    <3> SUFFICES ASSUME NEW k \in Nat, NEW l \in Nat, IsRow(p, k, l),
                        nodes[r][RowOf(p, k, 0)] \in {Absent, "pending", "skipped"}
                 PROVE  dispatched'[r][RowOf(p, k, l)] = 0
      BY <1>2 DEF Unstarted, p
    <3>1. k # i
      BY <1>5 DEF Absent
    <3>2. RowOf(p, k, l) # x
      BY <1>1, <1>6, <3>1, RowsDistinct DEF x
    <3>3. dispatched[r][RowOf(p, k, l)] = 0 /\ RowOf(p, k, l) \in NodeID
      BY <1>1, RowFacts DEF RunInv, Unstarted, p
    <3> QED
      BY <2>1, <3>2, <3>3
  <2>6. Snapshot(r, a)'
    <3>1. ASSUME NEW l \in Nat, IsRow(p, i, l), j + 1 <= l
          PROVE  dispatched'[r][RowOf(p, i, l)] = 0
      <4>1. l # j /\ j <= l
        BY <1>1, <3>1
      <4>2. RowOf(p, i, l) # x
        BY <1>1, <1>6, <3>1, <4>1, RowsDistinct DEF x
      <4>3. dispatched[r][RowOf(p, i, l)] = 0 /\ RowOf(p, i, l) \in NodeID
        BY <1>1, <1>5, <3>1, <4>1, RowFacts
      <4> QED
        BY <2>1, <4>2, <4>3
    <3> QED
      BY <1>2, <1>5, <1>7, <3>1 DEF Snapshot, p
  <2>7. ASSUME NEW b \in Caller, b # a
        PROVE  Snapshot(r, b)'
    BY <1>3, <1>4, <2>7 DEF Snapshot
  <2>8. RunInv(r)'
    BY <2>2, <2>4, <2>5, <2>6, <2>7 DEF RunInv
  <2> QED
    BY <1>2, <2>1, <2>3, <2>8, RunStep
<1> QED
  BY <1>2, <1>8, <1>9
-----------------------------------------------------------------------------
(* NodeCompleted preserves the invariant *)

\* The row of a job whose result is outstanding still waits for it: it is
\* running, or pending if it belongs to a job inside a stage.
LEMMA OutstandingRow ==
    ASSUME IInv, \A p \in Pipelines : DistinctRows(p), NEW r \in Run,
           NEW x \in NodeID, reported[r][x] < dispatched[r][x]
    PROVE  /\ start[r].pc = "done"
           /\ reported[r][x] = 0 /\ dispatched[r][x] = 1
           /\ nodes[r][x] \in {"pending", "running"}
           /\ \A k \in Nat : IsRow(spec[r], k, 0) /\ x = RowOf(spec[r], k, 0) =>
                nodes[r][x] = "running"
<1> DEFINE p == spec[r]
<1>1. /\ RunInv(r) /\ p \in Pipelines \cup {<<>>}
      /\ reported[r][x] \in Nat /\ dispatched[r][x] \in Nat
      /\ nodes[r][x] \in RowState
  BY DEF IInv, TypeOK
<1>2. dispatched[r][x] <= 1
  BY <1>1 DEF RunInv, Counts
<1>3. reported[r][x] = 0 /\ dispatched[r][x] = 1
  BY <1>1, <1>2
<1>4. start[r].pc = "done"
  BY <1>1, <1>3 DEF RunInv, Quiet
<1>5. nodes[r][x] \notin {"success", "failed"}
  BY <1>1, <1>3 DEF RunInv, Counts
<1>6. PICK i, j \in Nat : IsRow(p, i, j) /\ x = RowOf(p, i, j)
  BY <1>1, <1>3 DEF RunInv, Counts
<1>7. nodes[r][x] # Absent
  BY <1>1, <1>4, <1>6 DEF RunInv, Seeded
<1>8. ASSUME NEW k \in Nat, IsRow(p, k, 0), x = RowOf(p, k, 0)
      PROVE  nodes[r][x] = "running"
  <2>1. nodes[r][x] \notin {Absent, "pending", "skipped"}
    BY <1>1, <1>3, <1>8 DEF RunInv, Unstarted
  <2> QED
    BY <1>1, <1>5, <2>1 DEF RowState, NodeState
<1>9. nodes[r][x] # "skipped"
  <2>1. nodes[r][x] = "skipped" =>
          \E k \in Nat : IsRow(p, k, 0) /\ x = RowOf(p, k, 0)
    BY <1>1 DEF RunInv, Counts
  <2> QED
    BY <1>8, <2>1
<1>10. nodes[r][x] \in {"pending", "running"}
  BY <1>1, <1>5, <1>7, <1>9 DEF RowState, NodeState
<1> QED
  BY <1>3, <1>4, <1>8, <1>10

LEMMA NodeCompletedStep ==
    ASSUME IInv, TypeOK', \A p \in Pipelines : DistinctRows(p),
           NEW c \in Completer, NEW r \in Run, NEW x \in NodeID,
           NEW success \in BOOLEAN, NodeCompleted(c, r, x, success)
    PROVE  IInv'
<1> DEFINE p == spec[r]
           state == nodes'[r][x]
<1>1. /\ start[r].pc = "done"
      /\ reported[r][x] = 0 /\ dispatched[r][x] = 1
      /\ nodes[r][x] \in {"pending", "running"}
      /\ \A k \in Nat : IsRow(p, k, 0) /\ x = RowOf(p, k, 0) =>
           nodes[r][x] = "running"
  BY OutstandingRow DEF NodeCompleted
<1>2. /\ \A q \in Run : q # r => SameRun(q)
      /\ UNCHANGED <<runs, spec, rc, start, adv, dispatched>>
  BY DEF IInv, TypeOK, NodeCompleted, UpsertNode, SameRun
<1>3. /\ state \in {"success", "failed"}
      /\ \A y \in NodeID : y # x => nodes'[r][y] = nodes[r][y]
  BY DEF IInv, TypeOK, NodeCompleted, UpsertNode
<1>4. \A y \in NodeID : reported'[r][y] = IF y = x THEN 1 ELSE reported[r][y]
  BY <1>1 DEF IInv, TypeOK, NodeCompleted
<1>5. /\ comp'[c] = [pc |-> "list", run |-> r, verdict |-> "none"]
      /\ \A d \in Completer : d # c => comp'[d] = comp[d]
  BY DEF IInv, TypeOK, NodeCompleted
<1>6. RunInv(r) /\ p \in Pipelines \cup {<<>>}
  BY DEF IInv, TypeOK
<1> HIDE DEF state
<1>7. \A y \in NodeID : nodes[r][y] \in {"success", "skipped"} =>
                          nodes'[r][y] = nodes[r][y]
  BY <1>1, <1>3
<1>8. Seeded(r)'
  <2>1. \A i, j \in Nat : IsRow(p, i, j) => nodes[r][RowOf(p, i, j)] # Absent
    BY <1>1, <1>6 DEF RunInv, Seeded
  <2>2. \A i, j \in Nat : IsRow(p, i, j) => nodes'[r][RowOf(p, i, j)] # Absent
    <3>1. state # Absent
      BY <1>3 DEF Absent
    <3> QED
      BY <1>3, <1>6, <2>1, <3>1, RowFacts DEF state
  <2> QED
    BY <1>1, <1>2, <2>2 DEF Seeded
<1>9. Quiet(r)' /\ OneAdvance(r)'
  BY <1>1, <1>2, <1>6 DEF RunInv, Quiet, OneAdvance
<1>10. Concluded(r)' /\ Settled(r)
  <2>1. ~allTerminal(nodes[r])
    BY <1>1 DEF allTerminal
  <2> QED
    BY <1>1, <1>2, <1>6, <2>1 DEF RunInv, Concluded, Settled
<1>11. Counts(r)'
  <2> SUFFICES ASSUME NEW y \in NodeID
               PROVE  /\ reported'[r][y] <= dispatched[r][y]
                      /\ dispatched[r][y] <= 1
                      /\ nodes'[r][y] \in {"success", "failed"} =>
                           reported'[r][y] = 1 /\ dispatched[r][y] = 1
                      /\ dispatched[r][y] > 0 =>
                           \E k, l \in Nat :
                             /\ IsRow(p, k, l) /\ y = RowOf(p, k, l)
                             /\ FirstTarget(p[k]) <= l
                      /\ nodes'[r][y] \in {"running", "skipped"} =>
                           \E k \in Nat : IsRow(p, k, 0) /\ y = RowOf(p, k, 0)
    BY <1>2 DEF Counts
  <2>1. CASE y # x
    BY <1>3, <1>4, <1>6, <2>1 DEF RunInv, Counts
  <2>2. CASE y = x
    <3>1. /\ dispatched[r][y] > 0 =>
               \E k, l \in Nat : /\ IsRow(p, k, l) /\ y = RowOf(p, k, l)
                                 /\ FirstTarget(p[k]) <= l
      BY <1>6 DEF RunInv, Counts
    <3> QED
      BY <1>1, <1>3, <1>4, <2>2, <3>1 DEF state
  <2> QED
    BY <2>1, <2>2
<1>12. Unstarted(r)'
  BY <1>2, <1>3, <1>6, RowFacts DEF RunInv, Unstarted, state, Absent
<1>13. Grounds(r)'
  <2> SUFFICES ASSUME NEW k \in Nat, IsRow(p, k, 0),
                      nodes'[r][RowOf(p, k, 0)] \in {"running", "success", "failed"}
               PROVE  /\ depsTerminal(p[k].dependsOn, nodes'[r])
                      /\ evalConditions(p[k].conditions, rc[r])
    BY <1>2 DEF Grounds
  <2>1. p[k].dependsOn \in SUBSET NodeID /\ RowOf(p, k, 0) \in NodeID
    BY <1>6, RowFacts
  <2>2. nodes[r][RowOf(p, k, 0)] \in {"running", "success", "failed"}
    BY <1>1, <1>3, <2>1
  <2>3. /\ depsTerminal(p[k].dependsOn, nodes[r])
        /\ evalConditions(p[k].conditions, rc[r])
    BY <1>6, <2>2 DEF RunInv, Grounds
  <2> QED
    BY <1>7, <2>1, <2>3, DepsStable
<1>14. ASSUME NEW a \in Caller
       PROVE  Snapshot(r, a)'
  <2>1. Snapshot(r, a)
    BY <1>6 DEF RunInv
  <2>2. \A k \in Nat : IsRow(p, k, 0) /\ nodes[r][RowOf(p, k, 0)] = "pending" =>
          nodes'[r][RowOf(p, k, 0)] = "pending"
    <3> SUFFICES ASSUME NEW k \in Nat, IsRow(p, k, 0),
                        nodes[r][RowOf(p, k, 0)] = "pending"
                 PROVE  nodes'[r][RowOf(p, k, 0)] = "pending"
      OBVIOUS
    <3>1. RowOf(p, k, 0) # x
      BY <1>1
    <3>2. RowOf(p, k, 0) \in NodeID
      BY <1>6, RowFacts
    <3> QED
      BY <1>3, <3>1, <3>2
  <2>3. \A k \in Nat :
          /\ IsRow(p, k, 0)
          /\ nodes[r][RowOf(p, k, 0)] \in {"running", "success", "failed"}
          => nodes'[r][RowOf(p, k, 0)] \in {"running", "success", "failed"}
    BY <1>3, <1>6, RowFacts DEF state
  <2>4. adv[r][a].i \in Nat
    BY DEF IInv, TypeOK, AdvanceState
  <2> QED
    BY <1>2, <1>7, <2>1, <2>2, <2>3, <2>4 DEF Snapshot
<1>15. RunInv(r)'
  BY <1>8, <1>9, <1>10, <1>11, <1>12, <1>13, <1>14 DEF RunInv
<1>16. CompletedInv(c)'
  BY <1>1, <1>2, <1>5 DEF CompletedInv
<1> QED
  BY <1>2, <1>5, <1>10, <1>15, <1>16, RunStep

LEMMA NodeCompletedFailStep ==
    ASSUME IInv, TypeOK', NEW c \in Completer, NEW r \in Run, NEW x \in NodeID,
           NodeCompletedFail(c, r, x)
    PROVE  IInv'
<1>1. /\ \A q \in Run : q # r => SameRun(q)
      /\ UNCHANGED <<runs, nodes, spec, rc, start, adv, comp, dispatched>>
      /\ reported[r][x] < dispatched[r][x]
      /\ \A y \in NodeID : reported'[r][y] =
                             IF y = x THEN reported[r][x] + 1 ELSE reported[r][y]
  BY DEF IInv, TypeOK, NodeCompletedFail, SameRun
<1>2. /\ RunInv(r)
      /\ \A y \in NodeID : reported[r][y] \in Nat /\ dispatched[r][y] \in Nat
  BY DEF IInv, TypeOK
<1>3. Seeded(r)' /\ Quiet(r)' /\ OneAdvance(r)' /\ Concluded(r)' /\ Settled(r)
  BY <1>1, <1>2 DEF RunInv, Seeded, Quiet, OneAdvance, Concluded, Settled
<1>4. Unstarted(r)' /\ Grounds(r)' /\ \A a \in Caller : Snapshot(r, a)'
  BY <1>1, <1>2 DEF RunInv, Unstarted, Grounds, Snapshot
<1>5. Counts(r)'
  BY <1>1, <1>2 DEF RunInv, Counts
<1>6. RunInv(r)'
  BY <1>3, <1>4, <1>5 DEF RunInv
<1> QED
  BY <1>1, <1>3, <1>6, RunStep

LEMMA CompletedListStep ==
    ASSUME IInv, TypeOK', NEW c \in Completer, CompletedList(c)
    PROVE  IInv'
<1>1. /\ UNCHANGED <<runs, nodes, spec, rc, start, adv, dispatched, reported>>
      /\ \A d \in Completer : d # c => comp'[d] = comp[d]
      /\ comp[c].pc = "list"
      /\ comp'[c] = IF allTerminal(nodes[comp[c].run])
                    THEN [pc |-> "update", run |-> comp[c].run,
                          verdict |-> finalState(nodes[comp[c].run])]
                    ELSE IdleCompleted
  BY DEF IInv, TypeOK, CompletedList, ListNodes
<1>2. CompletedInv(c)
  BY DEF IInv
<1>3. CompletedInv(c)'
  BY <1>1, <1>2 DEF CompletedInv, IdleCompleted
<1> QED
  BY <1>1, <1>3, NoRunStep

LEMMA CompletedUpdateStep ==
    ASSUME IInv, TypeOK', NEW c \in Completer, CompletedUpdate(c)
    PROVE  IInv'
<1>1. comp[c] \in CompletedState /\ comp[c].pc = "update" /\ CompletedInv(c)
  BY DEF IInv, TypeOK, CompletedUpdate
<1>2. PICK r \in Run : r = comp[c].run /\ RunInv(r)
  BY <1>1 DEF CompletedState, IdleCompleted, IInv
<1>3. /\ \A q \in Run : q # r => SameRun(q)
      /\ UNCHANGED <<nodes, spec, rc, start, adv, dispatched, reported>>
      /\ runs'[r] = comp[c].verdict
      /\ comp'[c] = IdleCompleted
      /\ \A d \in Completer : d # c => comp'[d] = comp[d]
  BY <1>2 DEF IInv, TypeOK, CompletedUpdate, UpdateRunState, SameRun
<1>4. /\ start[r].pc = "done" /\ allTerminal(nodes[r])
      /\ comp[c].verdict = finalState(nodes[r])
  BY <1>1, <1>2 DEF CompletedInv
<1>5. Seeded(r)' /\ Quiet(r)' /\ OneAdvance(r)' /\ Concluded(r)' /\ Settled(r)
  BY <1>2, <1>3, <1>4 DEF RunInv, Seeded, Quiet, OneAdvance, Concluded, Settled
<1>6. Counts(r)' /\ Unstarted(r)' /\ Grounds(r)'
  BY <1>2, <1>3 DEF RunInv, Counts, Unstarted, Grounds
<1>7. \A a \in Caller : Snapshot(r, a)'
  BY <1>2, <1>3 DEF RunInv, Snapshot
<1>8. RunInv(r)'
  BY <1>5, <1>6, <1>7 DEF RunInv
<1>9. CompletedInv(c)'
  BY <1>3 DEF CompletedInv, IdleCompleted
<1> QED
  BY <1>2, <1>3, <1>5, <1>8, <1>9, RunStep

LEMMA CompletedFailStep ==
    ASSUME IInv, TypeOK', NEW c \in Completer, CompletedFail(c)
    PROVE  IInv'
<1>1. /\ UNCHANGED <<runs, nodes, spec, rc, start, adv, dispatched, reported>>
      /\ \A d \in Completer : d # c => comp'[d] = comp[d]
      /\ comp'[c] = IdleCompleted
  BY DEF IInv, TypeOK, CompletedFail
<1>2. CompletedInv(c)'
  BY <1>1 DEF CompletedInv, IdleCompleted
<1> QED
  BY <1>1, <1>2, NoRunStep
-----------------------------------------------------------------------------
(* The theorems *)

LEMMA IInvStep ==
    ASSUME Serial = TRUE, \A p \in Pipelines : DistinctRows(p)
    PROVE  IInv /\ [Next]_vars => IInv'
<1> SUFFICES ASSUME IInv, [Next]_vars
             PROVE  IInv'
  OBVIOUS
<1>0. TypeOK'
  BY TypeStep DEF IInv
<1>1. ASSUME NEW r \in Run,
             StartCall(r) \/ StartStep(r) \/ CancelRun(r) \/ StartFail(r)
      PROVE  IInv'
  BY <1>0, <1>1, StartCallStep, SeedNodeStep, StartRunningStep, CancelRunStep,
     StartFailStep DEF StartStep
<1>2. ASSUME NEW r \in Run, NEW a \in Caller,
             \/ AdvanceCall(r, a) \/ AdvanceList(r, a)
             \/ AdvanceListFail(r, a) \/ AdvanceReturn(r, a)
      PROVE  IInv'
  BY <1>0, <1>2, AdvanceCallStep, AdvanceListStep, AdvanceEndStep
<1>3. ASSUME NEW r \in Run, NEW a \in Caller,
             AdvancePass(r, a) \/ AdvanceMarkFail(r, a) \/ AdvanceNext(r, a)
      PROVE  IInv'
  <2>1. /\ NextNode(r, a) /\ adv[r][a].pc \in {"loop", "dispatch"}
        /\ UNCHANGED <<runs, nodes, spec, rc, start, comp, dispatched, reported>>
    BY <1>3 DEF AdvancePass, AdvanceMarkFail, AdvanceNext, Looping
  <2> QED
    BY <1>0, <2>1, AdvancePassStep
<1>4. ASSUME NEW r \in Run, NEW a \in Caller, AdvanceSkip(r, a)
      PROVE  IInv'
  <2>1. CASE UNCHANGED nodes
    <3>1. /\ NextNode(r, a) /\ adv[r][a].pc \in {"loop", "dispatch"}
          /\ UNCHANGED <<runs, nodes, spec, rc, start, comp, dispatched, reported>>
      BY <1>4, <2>1 DEF AdvanceSkip, Looping
    <3> QED
      BY <1>0, <3>1, AdvancePassStep
  <2>2. CASE UpsertNode(r, Current(r, a).id, "skipped")
    <3>1. /\ Looping(r, a) /\ Ready(Current(r, a), adv[r][a].seen)
          /\ Goto(r, a, "loop", adv[r][a].i + 1, 0)
          /\ UNCHANGED <<runs, spec, rc, start, comp, dispatched, reported>>
      BY <1>4 DEF AdvanceSkip, NextNode
    <3> QED
      BY <1>0, <2>2, <3>1, AdvanceWriteStep
  <2> QED
    BY <1>4, <2>1, <2>2 DEF AdvanceSkip
<1>5. ASSUME NEW r \in Run, NEW a \in Caller, AdvanceMark(r, a)
      PROVE  IInv'
  <2>1. /\ Looping(r, a) /\ Ready(Current(r, a), adv[r][a].seen)
        /\ evalConditions(Current(r, a).conditions, rc[r])
        /\ UpsertNode(r, Current(r, a).id, "running")
        /\ Goto(r, a, "dispatch", adv[r][a].i, FirstTarget(Current(r, a)))
        /\ UNCHANGED <<runs, spec, rc, start, comp, dispatched, reported>>
    BY <1>5 DEF AdvanceMark
  <2> QED
    BY <1>0, <2>1, AdvanceWriteStep
<1>6. ASSUME NEW r \in Run, NEW a \in Caller, AdvanceDispatch(r, a)
      PROVE  IInv'
  BY <1>0, <1>6, AdvanceDispatchStep
<1>7. ASSUME NEW c \in Completer, NEW r \in Run, NEW x \in NodeID,
             NEW success \in BOOLEAN, NodeCompleted(c, r, x, success)
      PROVE  IInv'
  BY <1>0, <1>7, NodeCompletedStep
<1>8. ASSUME NEW c \in Completer, NEW r \in Run, NEW x \in NodeID,
             NodeCompletedFail(c, r, x)
      PROVE  IInv'
  BY <1>0, <1>8, NodeCompletedFailStep
<1>9. ASSUME NEW c \in Completer, CompletedStep(c) \/ CompletedFail(c)
      PROVE  IInv'
  BY <1>0, <1>9, CompletedListStep, CompletedUpdateStep, CompletedFailStep
     DEF CompletedStep
<1>10. CASE UNCHANGED vars
  <2>1. /\ UNCHANGED <<runs, nodes, spec, rc, start, adv, dispatched, reported>>
        /\ comp' = comp
    BY <1>10 DEF vars
  <2> QED
    BY <1>0, <2>1, NoRunStep
<1> QED
  BY <1>1, <1>2, <1>3, <1>4, <1>5, <1>6, <1>7, <1>8, <1>9, <1>10
     DEF Next, AdvanceStep, Failure

LEMMA IInvAlways ==
    ASSUME Serial = TRUE, \A p \in Pipelines : DistinctRows(p)
    PROVE  Spec => []IInv
<1> QED
  BY IInvInit, IInvStep, PTL DEF Spec

\* NoDoubleDispatch: whatever fails and however often Advance is called, as
\* long as the calls for a run do not overlap no job is sent out twice.
THEOREM NoDoubleDispatch ==
    ASSUME Serial = TRUE, \A p \in Pipelines : DistinctRows(p)
    PROVE  Spec => []DispatchOnce
<1>1. IInv => DispatchOnce
  BY DEF IInv, RunInv, Counts, DispatchOnce
<1> QED
  BY <1>1, IInvAlways, PTL

\* What the invariant says of the jobs that are out.
LEMMA InvJustifies == IInv => DispatchJustified
<1> SUFFICES ASSUME IInv, NEW r \in Run, NEW i \in 1..Len(spec[r]),
                    \/ nodes[r][spec[r][i].id] \in {"running", "success", "failed"}
                    \/ \E j \in 0..Len(Inner(spec[r][i])) :
                         dispatched[r][Row(spec[r][i], j)] > 0
             PROVE  /\ nodes[r][spec[r][i].id] \notin
                         {Absent, "pending", "skipped"}
                    /\ depsTerminal(spec[r][i].dependsOn, nodes[r])
                    /\ evalConditions(spec[r][i].conditions, rc[r])
  BY DEF DispatchJustified, depsTerminal, evalConditions
<1>1. /\ spec[r] \in Pipelines \cup {<<>>} /\ Len(spec[r]) \in Nat
      /\ RunInv(r) /\ i \in Nat
  BY RowFacts DEF IInv, TypeOK
<1>2. IsRow(spec[r], i, 0)
  <2>1. spec[r] \in Pipelines
    BY <1>1
  <2>2. spec[r][i] \in Node
    BY <2>1, PipelinesAssumption
  <2>3. Len(Inner(spec[r][i])) \in Nat
    BY <2>2 DEF Node, Inner
  <2> QED
    BY <2>3 DEF IsRow
<1>3. /\ RowOf(spec[r], i, 0) = spec[r][i].id
      /\ RowOf(spec[r], i, 0) \in NodeID
  BY <1>1, <1>2, RowFacts
<1>4. nodes[r][spec[r][i].id] \notin {Absent, "pending", "skipped"}
  <2>1. CASE nodes[r][spec[r][i].id] \in {"running", "success", "failed"}
    BY <2>1 DEF Absent
  <2>2. CASE \E j \in 0..Len(Inner(spec[r][i])) :
               dispatched[r][Row(spec[r][i], j)] > 0
    <3>1. PICK j \in Nat : /\ IsRow(spec[r], i, j)
                           /\ dispatched[r][RowOf(spec[r], i, j)] > 0
      BY <2>2 DEF IsRow, RowOf
    <3> QED
      BY <1>1, <1>3, <3>1 DEF RunInv, Unstarted
  <2> QED
    BY <2>1, <2>2
<1>5. nodes[r][spec[r][i].id] \in {"running", "success", "failed"}
  BY <1>3, <1>4 DEF IInv, TypeOK, RowState, NodeState
<1> QED
  BY <1>1, <1>2, <1>3, <1>4, <1>5 DEF RunInv, Grounds

\* OnlyJustifiedDispatch: the stale snapshot never makes Advance start a node
\* whose dependencies are not satisfied in the tables.
THEOREM OnlyJustifiedDispatch ==
    ASSUME Serial = TRUE, \A p \in Pipelines : DistinctRows(p)
    PROVE  Spec => []DispatchJustified
<1> QED
  BY InvJustifies, IInvAlways, PTL

\* What the invariant says of the verdicts.
LEMMA InvConcludes == IInv => VerdictSound
<1> SUFFICES ASSUME IInv, NEW r \in Run, runs[r] \in {"success", "failed"}
             PROVE  /\ \A i \in 1..Len(spec[r]) :
                         \A j \in 0..Len(Inner(spec[r][i])) :
                           nodes[r][Row(spec[r][i], j)] \in
                             {"success", "failed", "skipped"}
                    /\ (runs[r] = "failed") <=>
                         \E x \in NodeID : nodes[r][x] = "failed"
  BY DEF VerdictSound
<1>1. /\ spec[r] \in Pipelines \cup {<<>>} /\ RunInv(r)
      /\ nodes[r] \in [NodeID -> RowState]
  BY DEF IInv, TypeOK
<1>2. /\ start[r].pc = "done" /\ allTerminal(nodes[r])
      /\ runs[r] = finalState(nodes[r])
  BY <1>1 DEF RunInv, Quiet, Concluded
<1>3. ASSUME NEW i \in 1..Len(spec[r]), NEW j \in 0..Len(Inner(spec[r][i]))
      PROVE  nodes[r][Row(spec[r][i], j)] \in {"success", "failed", "skipped"}
  <2>1. i \in Nat /\ j \in Nat /\ IsRow(spec[r], i, j)
    BY DEF IsRow
  <2>2. /\ nodes[r][RowOf(spec[r], i, j)] # Absent
        /\ RowOf(spec[r], i, j) \in NodeID
    BY <1>1, <1>2, <2>1, RowFacts DEF RunInv, Seeded
  <2> QED
    BY <1>1, <1>2, <2>2 DEF allTerminal, RowState, NodeState, RowOf
<1>4. (runs[r] = "failed") <=> \E x \in NodeID : nodes[r][x] = "failed"
  BY <1>2 DEF finalState
<1> QED
  BY <1>3, <1>4

\* SoundVerdicts: a verdict agrees with the tables from the moment it is
\* written, although it was computed on an earlier reading of them.
THEOREM SoundVerdicts ==
    ASSUME Serial = TRUE, \A p \in Pipelines : DistinctRows(p)
    PROVE  Spec => []VerdictSound
<1> QED
  BY InvConcludes, IInvAlways, PTL

\* StableVerdicts: no later NodeCompleted, Advance or failing call changes a
\* verdict; only CancelRun does.
THEOREM StableVerdicts ==
    ASSUME Serial = TRUE, \A p \in Pipelines : DistinctRows(p)
    PROVE  Spec => VerdictStable
<1>1. IInv /\ [Next]_vars =>
        \A r \in Run : runs[r] \in {"success", "failed"} =>
                         runs'[r] \in {runs[r], "cancelled"}
  <2> SUFFICES ASSUME IInv, [Next]_vars, NEW r \in Run,
                      runs[r] \in {"success", "failed"}
               PROVE  runs'[r] \in {runs[r], "cancelled"}
    OBVIOUS
  <2>1. /\ runs \in [Run -> RunState \cup {Absent}] /\ start[r].pc = "done"
        /\ runs[r] = finalState(nodes[r])
    BY DEF IInv, TypeOK, RunInv, Quiet, Concluded
  <2>2. ASSUME NEW q \in Run, StartCall(q) \/ StartRunning(q) \/ CancelRun(q)
        PROVE  runs'[r] \in {runs[r], "cancelled"}
    BY <2>1, <2>2 DEF StartCall, CreateRun, StartRunning, CancelRun, UpdateRunState
  <2>3. ASSUME NEW c \in Completer, CompletedUpdate(c)
        PROVE  runs'[r] \in {runs[r], "cancelled"}
    <3>1. CompletedInv(c) /\ comp[c].pc = "update"
      BY <2>3 DEF IInv, CompletedUpdate
    <3> QED
      BY <2>1, <2>3, <3>1 DEF CompletedInv, CompletedUpdate, UpdateRunState
  <2>4. \/ runs' = runs
        \/ \E q \in Run : StartCall(q) \/ StartRunning(q) \/ CancelRun(q)
        \/ \E c \in Completer : CompletedUpdate(c)
    BY DEF Next, StartStep, AdvanceStep, CompletedStep, Failure, vars,
           SeedNode, StartFail, AdvanceCall, AdvanceList, ListNodes, AdvanceListFail,
           AdvancePass, AdvanceSkip, AdvanceMark, AdvanceMarkFail,
           AdvanceDispatch, AdvanceNext, AdvanceReturn, NodeCompleted,
           NodeCompletedFail, CompletedList, CompletedFail
  <2> QED
    BY <2>2, <2>3, <2>4
<1> QED
  BY <1>1, IInvAlways, PTL DEF Spec, VerdictStable
\* A job inside a stage is out only while the row of the stage is running:
\* stages are never dispatched, so nothing ever completes that row.
LEMMA StageRow ==
    ASSUME IInv, \A p \in Pipelines : DistinctRows(p), NEW r \in Run,
           NEW i \in Nat, NEW j \in Nat, IsRow(spec[r], i, j), j # 0,
           dispatched[r][RowOf(spec[r], i, j)] > 0
    PROVE  nodes[r][RowOf(spec[r], i, 0)] = "running"
<1> DEFINE p == spec[r]
           x == RowOf(p, i, 0)
<1>1. /\ p \in Pipelines \cup {<<>>} /\ RunInv(r)
      /\ dispatched[r] \in [NodeID -> Nat] /\ nodes[r] \in [NodeID -> RowState]
  BY DEF IInv, TypeOK
<1>2. IsRow(p, i, 0) /\ x \in NodeID /\ FirstTarget(p[i]) \in {0, 1}
  BY <1>1, RowFacts
<1>3. FirstTarget(p[i]) # 0
  BY DEF FirstTarget, IsRow, Inner
<1>4. dispatched[r][x] = 0
  <2> SUFFICES ASSUME dispatched[r][x] > 0
               PROVE  FALSE
    BY <1>1, <1>2
  <2>1. PICK k, l \in Nat : /\ IsRow(p, k, l) /\ x = RowOf(p, k, l)
                            /\ FirstTarget(p[k]) <= l
    BY <1>1, <1>2 DEF RunInv, Counts
  <2>2. k = i /\ l = 0
    BY <1>1, <1>2, <2>1, RowsDistinct
  <2> QED
    BY <1>2, <1>3, <2>1, <2>2
<1>5. nodes[r][x] \notin {"success", "failed"}
  BY <1>1, <1>2, <1>4 DEF RunInv, Counts
<1>6. nodes[r][x] \notin {Absent, "pending", "skipped"}
  BY <1>1 DEF RunInv, Unstarted
<1> QED
  BY <1>1, <1>2, <1>5, <1>6 DEF RowState, NodeState

\* RowsMoveForward: no write of a stale Advance or of a late result takes a
\* row back, and a stage's jobs report only while their stage is running.
THEOREM RowsMoveForward ==
    ASSUME Serial = TRUE, \A p \in Pipelines : DistinctRows(p)
    PROVE  Spec => NodeLifecycle
<1>1. IInv /\ [Next]_vars => \A r \in Run, x \in NodeID : LifecycleStep(r, x)
  <2> SUFFICES ASSUME IInv, [Next]_vars, NEW r \in Run, NEW x \in NodeID
               PROVE  LifecycleStep(r, x)
    OBVIOUS
  <2>1. nodes \in [Run -> [NodeID -> RowState]]
    BY DEF IInv, TypeOK
  <2>2. CASE nodes' = nodes
    BY <2>2 DEF LifecycleStep
  <2>3. ASSUME NEW q \in Run, SeedNode(q)
        PROVE  LifecycleStep(r, x)
    <3>1. q = r => nodes[r][x] \in {Absent, "pending"}
      BY <2>3 DEF SeedNode, IInv, RunInv, Quiet
    <3> QED
      BY <2>1, <2>3, <3>1 DEF SeedNode, UpsertNode, LifecycleStep
  <2>4. ASSUME NEW q \in Run, NEW a \in Caller, NEW state \in {"running", "skipped"},
               Looping(q, a), Ready(Current(q, a), adv[q][a].seen),
               UpsertNode(q, Current(q, a).id, state)
        PROVE  LifecycleStep(r, x)
    <3>1. /\ IsRow(spec[q], adv[q][a].i, 0)
          /\ Current(q, a).id \in NodeID
          /\ nodes[q][Current(q, a).id] = "pending"
      BY <2>4, CursorRow
    <3>2. adv[q][a].i \in 1..Len(spec[q]) /\ spec[q][adv[q][a].i] = Current(q, a)
      BY <3>1 DEF IsRow, Current
    <3>3. CASE q = r /\ x = Current(q, a).id
      <4>1. nodes'[r][x] = state /\ nodes[r][x] = "pending"
        BY <2>1, <2>4, <3>1, <3>3 DEF UpsertNode
      <4> QED
        BY <3>2, <3>3, <4>1 DEF LifecycleStep
    <3>4. CASE ~(q = r /\ x = Current(q, a).id)
      BY <2>1, <2>4, <3>4 DEF UpsertNode, LifecycleStep
    <3> QED
      BY <3>3, <3>4
  <2>5. ASSUME NEW c \in Completer, NEW q \in Run, NEW y \in NodeID,
               NEW success \in BOOLEAN, NodeCompleted(c, q, y, success)
        PROVE  LifecycleStep(r, x)
    <3>1. CASE ~(q = r /\ x = y)
      BY <2>1, <2>5, <3>1 DEF NodeCompleted, UpsertNode, LifecycleStep
    <3>2. CASE q = r /\ x = y
      <4>1. nodes'[r][x] \in {"success", "failed"}
        BY <2>1, <2>5, <3>2 DEF NodeCompleted, UpsertNode
      <4>2. /\ nodes[r][x] \in {"pending", "running"} /\ dispatched[r][x] = 1
            /\ \A k \in Nat : IsRow(spec[r], k, 0) /\ x = RowOf(spec[r], k, 0) =>
                 nodes[r][x] = "running"
        BY <2>5, <3>2, OutstandingRow DEF NodeCompleted
      <4>3. CASE nodes[r][x] = "running"
        BY <4>1, <4>3 DEF LifecycleStep
      <4>4. CASE nodes[r][x] = "pending"
        <5>1. PICK i, j \in Nat : IsRow(spec[r], i, j) /\ x = RowOf(spec[r], i, j)
          BY <4>2 DEF IInv, RunInv, Counts
        <5>2. j # 0
          BY <4>2, <4>4, <5>1
        <5>3. nodes[r][RowOf(spec[r], i, 0)] = "running"
          BY <4>2, <5>1, <5>2, StageRow
        <5>4. /\ i \in 1..Len(spec[r]) /\ j \in 1..Len(Inner(spec[r][i]))
              /\ Row(spec[r][i], j) = x
              /\ nodes[r][spec[r][i].id] = "running"
          BY <5>1, <5>2, <5>3, RowFacts DEF IsRow, RowOf, Row
        <5> QED
          BY <4>1, <4>4, <5>4 DEF LifecycleStep
      <4> QED
        BY <4>2, <4>3, <4>4
    <3> QED
      BY <3>1, <3>2
  <2>6. \/ nodes' = nodes
        \/ \E q \in Run : SeedNode(q)
        \/ \E q \in Run, a \in Caller :
             AdvanceSkip(q, a) \/ AdvanceMark(q, a)
        \/ \E c \in Completer, q \in Run, y \in NodeID, success \in BOOLEAN :
             NodeCompleted(c, q, y, success)
    BY DEF Next, StartStep, AdvanceStep, CompletedStep, Failure, vars,
           StartCall, CreateRun, StartRunning, StartFail, CancelRun, AdvanceCall,
           AdvanceList, ListNodes, AdvanceListFail, AdvancePass, AdvanceMarkFail,
           AdvanceDispatch, AdvanceNext, AdvanceReturn, NodeCompletedFail,
           CompletedList, CompletedUpdate, CompletedFail
  <2>7. ASSUME NEW q \in Run, NEW a \in Caller,
               AdvanceSkip(q, a) \/ AdvanceMark(q, a)
        PROVE  LifecycleStep(r, x)
    <3>1. \/ nodes' = nodes
          \/ /\ Looping(q, a) /\ Ready(Current(q, a), adv[q][a].seen)
             /\ \/ UpsertNode(q, Current(q, a).id, "skipped")
                \/ UpsertNode(q, Current(q, a).id, "running")
      BY <2>7 DEF AdvanceSkip, AdvanceMark
    <3> QED
      BY <2>2, <2>4, <3>1
  <2> QED
    BY <2>2, <2>3, <2>5, <2>6, <2>7
<1> QED
  BY <1>1, IInvAlways, PTL DEF Spec, NodeLifecycle

-----------------------------------------------------------------------------
(* The manager implements RunLifecycle *)

\* A run whose Start has been called has a row.
SubmittedInTable == \A r \in Run : start[r].pc # "idle" => runs[r] # Absent

LEMMA RowsOfSubmitted == Spec => []SubmittedInTable
<1>1. Init => SubmittedInTable
  BY DEF Init, SubmittedInTable
<1>2. TypeOK /\ SubmittedInTable /\ [Next]_vars => SubmittedInTable'
  <2> SUFFICES ASSUME TypeOK, SubmittedInTable, [Next]_vars
               PROVE  SubmittedInTable'
    OBVIOUS
  <2>1. runs \in [Run -> RunState \cup {Absent}] /\ start \in [Run -> StartState]
    BY DEF TypeOK
  <2>2. ASSUME NEW q \in Run,
               StartCall(q) \/ SeedNode(q) \/ StartRunning(q) \/ StartFail(q)
                 \/ CancelRun(q)
        PROVE  SubmittedInTable'
    BY <2>1, <2>2 DEF SubmittedInTable, Absent, StartCall, CreateRun, SeedNode,
         StartRunning, StartFail, CancelRun, UpdateRunState
  <2>3. ASSUME NEW c \in Completer, CompletedUpdate(c)
        PROVE  SubmittedInTable'
    <3>1. comp[c].verdict # Absent
      <4>1. comp[c] \in CompletedState /\ comp[c].pc = "update"
        BY <2>3 DEF TypeOK, CompletedUpdate
      <4> HIDE <2>3
      <4> QED
        BY <4>1 DEF CompletedState, IdleCompleted, Absent
    <3> QED
      BY <2>1, <2>3, <3>1 DEF SubmittedInTable, CompletedUpdate, UpdateRunState
  <2>4. \/ runs' = runs /\ start' = start
        \/ \E q \in Run : StartCall(q) \/ SeedNode(q) \/ StartRunning(q)
                           \/ StartFail(q) \/ CancelRun(q)
        \/ \E c \in Completer : CompletedUpdate(c)
    BY DEF Next, StartStep, AdvanceStep, CompletedStep, Failure, vars,
           AdvanceCall, AdvanceList, AdvanceListFail, AdvancePass, AdvanceSkip,
           AdvanceMark, AdvanceMarkFail, AdvanceDispatch, AdvanceNext,
           AdvanceReturn, NodeCompleted, NodeCompletedFail, CompletedList,
           CompletedFail
  <2> QED
    BY <2>2, <2>3, <2>4 DEF SubmittedInTable
<1> QED
  BY <1>1, <1>2, TypeCorrect, PTL DEF Spec

\* The state a client of RunLifecycle sees.
Begun == [r \in Run |-> start[r].pc = "done"]
Results == [r \in Run |-> [x \in NodeID |-> Outcome(nodes[r][x])]]

\* A write of one row is a write of one result.
LEMMA UpsertResult ==
    ASSUME nodes \in [Run -> [NodeID -> RowState]], NEW q \in Run,
           NEW y \in NodeID, NEW state, UpsertNode(q, y, state)
    PROVE  Results' = [Results EXCEPT ![q][y] = Outcome(state)]
BY DEF Results, UpsertNode

\* Writing what is there changes nothing.
LEMMA SameResult ==
    ASSUME NEW q \in Run, NEW y \in NodeID, NEW end, Results[q][y] = end,
           Results' = [Results EXCEPT ![q][y] = end]
    PROVE  Results' = Results
<1>1. \A r \in Run : Results[r] = [x \in NodeID |-> Results[r][x]]
  BY DEF Results
<1>2. Results = [r \in Run |-> Results[r]]
  BY DEF Results
<1>3. [Results[q] EXCEPT ![y] = end] = Results[q]
  BY <1>1
<1> QED
  BY <1>2, <1>3

LEMMA SeedIsAdd ==
    ASSUME IInv, SubmittedInTable, NEW q \in Run, SeedNode(q)
    PROVE  (\E x \in NodeID : Lifecycle!Add(q, x))
           \/ UNCHANGED <<runs, Begun, Results>>
<1> DEFINE y == Row(spec[q][start[q].i], start[q].j)
<1>1. /\ nodes \in [Run -> [NodeID -> RowState]] /\ start \in [Run -> StartState]
      /\ spec[q] \in Pipelines \cup {<<>>} /\ RunInv(q)
  BY DEF IInv, TypeOK
<1>2. start[q].pc = "seed" /\ runs[q] # Absent /\ runs' = runs
      /\ UpsertNode(q, y, "pending")
  BY DEF SeedNode, SubmittedInTable
<1>3. start[q].i \in Nat /\ start[q].j \in Nat
      /\ IsRow(spec[q], start[q].i, start[q].j)
  <2>1. start[q].i \in 1..Len(spec[q]) /\ Len(spec[q]) \in Nat
    BY <1>1, <1>2, RowFacts DEF SeedNode, RunInv, Seeded, StartState
  <2>2. IsRow(spec[q], start[q].i, 0)
    <3>1. spec[q][start[q].i] \in Node
      BY <1>1, <2>1, PipelinesAssumption
    <3> QED
      BY <2>1, <3>1 DEF IsRow, Node, Inner
  <2> QED
    BY <1>1, <1>2, <2>1, <2>2 DEF RunInv, Seeded, StartState
<1>4. y \in NodeID
  BY <1>1, <1>3, RowFacts DEF RowOf
<1>5. Results' = [Results EXCEPT ![q][y] = "open"]
  BY <1>1, <1>2, <1>4, UpsertResult DEF Outcome, Absent
<1>6. Begun' = Begun
  BY <1>1, <1>2 DEF Begun, SeedNode
<1>7. nodes[q][y] \in {Absent, "pending"}
  BY <1>1, <1>2, <1>4 DEF RunInv, Quiet
<1>8. CASE nodes[q][y] = Absent
  <2>1. Lifecycle!Add(q, y)
    BY <1>2, <1>4, <1>5, <1>6, <1>8
       DEF Lifecycle!Add, Results, Begun, Outcome, Absent
  <2> QED
    BY <1>4, <2>1
<1>9. CASE nodes[q][y] = "pending"
  <2>1. Results[q][y] = "open"
    BY <1>4, <1>9 DEF Results, Outcome, Absent
  <2>2. Results' = Results
    BY <1>4, <1>5, <2>1, SameResult
  <2> QED
    BY <1>2, <1>6, <2>2
<1> QED
  BY <1>7, <1>8, <1>9

\* A node that is skipped or reported ends there and then.
LEMMA EndIsFinish ==
    ASSUME IInv, NEW q \in Run, NEW y \in NodeID,
           NEW end \in {"success", "failed", "skipped"},
           nodes[q][y] \in {"pending", "running"}, UpsertNode(q, y, end),
           start[q].pc = "done", UNCHANGED <<runs, start>>
    PROVE  Lifecycle!Finish(q, y, end)
<1>1. Results' = [Results EXCEPT ![q][y] = end]
  <2>1. nodes \in [Run -> [NodeID -> RowState]] /\ Outcome(end) = end
    BY DEF IInv, TypeOK, Outcome, Absent
  <2>2. Results' = [Results EXCEPT ![q][y] = Outcome(end)]
    BY <2>1, UpsertResult
  <2> QED
    BY <2>1, <2>2
<1>2. Results[q][y] = "open" /\ Begun[q] /\ Begun' = Begun
  BY DEF Results, Outcome, Absent, Begun
<1> QED
  BY <1>1, <1>2, Zenon DEF Lifecycle!Finish, Results, Begun

LEMMA UpdateIsConclude ==
    ASSUME IInv, NEW c \in Completer, CompletedUpdate(c)
    PROVE  \E q \in Run : Lifecycle!Conclude(q)
<1> DEFINE q == comp[c].run
<1>1. CompletedInv(c) /\ comp[c].pc = "update" /\ q \in Run
      /\ runs' = [runs EXCEPT ![q] = comp[c].verdict]
      /\ nodes \in [Run -> [NodeID -> RowState]]
      /\ UNCHANGED <<nodes, start>>
  BY DEF IInv, TypeOK, CompletedUpdate, UpdateRunState, CompletedState,
         IdleCompleted
<1>2. Results' = Results /\ Begun' = Begun /\ Begun[q]
  BY <1>1 DEF Results, Begun, CompletedInv
<1>3. \A x \in NodeID : Results[q][x] # "open"
  BY <1>1 DEF CompletedInv, allTerminal, Results, Outcome, RowState, NodeState,
              Absent
<1>4. \A x \in NodeID : Results[q][x] = "failed" <=> nodes[q][x] = "failed"
  BY <1>1 DEF Results, Outcome, Absent
<1>5. comp[c].verdict = Lifecycle!Verdict(Results[q])
  <2>1. comp[c].verdict = finalState(nodes[q])
    BY <1>1 DEF CompletedInv
  <2> QED
    BY <1>4, <2>1 DEF finalState, Lifecycle!Verdict
<1>6. Lifecycle!Conclude(q)
  BY <1>1, <1>2, <1>3, <1>5, Zenon DEF Lifecycle!Conclude, Results, Begun
<1> QED
  BY <1>1, <1>6

\* ManagerImplements: every step of the manager is one step of RunLifecycle or
\* none, for any number of runs, nodes, callers and results.
THEOREM ManagerImplements ==
    ASSUME Serial = TRUE, \A p \in Pipelines : DistinctRows(p)
    PROVE  Spec => ImplementsLifecycle
<1>1. Init => Lifecycle!Init
  <2> SUFFICES ASSUME Init
               PROVE  Lifecycle!Init
    OBVIOUS
  <2>1. \A r \in Run : start[r].pc = "done" <=> FALSE
    BY DEF Init
  <2>2. \A r \in Run, x \in NodeID : Outcome(nodes[r][x]) = "none"
    BY DEF Init, Outcome
  <2>3. [r \in Run |-> start[r].pc = "done"] = [r \in Run |-> FALSE]
    BY <2>1, Zenon
  <2>4. [r \in Run |-> [x \in NodeID |-> Outcome(nodes[r][x])]]
          = [r \in Run |-> [x \in NodeID |-> "none"]]
    BY <2>2
  <2>5. runs = [r \in Run |-> "absent"]
    BY DEF Init, Absent
  <2> QED
    BY <2>3, <2>4, <2>5, Zenon DEF Lifecycle!Init
<1>2. IInv /\ SubmittedInTable /\ [Next]_vars => [Lifecycle!Next]_(Lifecycle!lvars)
  <2> SUFFICES ASSUME IInv, SubmittedInTable, [Next]_vars
               PROVE  Lifecycle!Next \/ UNCHANGED <<runs, Begun, Results>>
    BY DEF Lifecycle!lvars, Begun, Results
  <2>1. /\ runs \in [Run -> RunState \cup {Absent}] /\ start \in [Run -> StartState]
        /\ nodes \in [Run -> [NodeID -> RowState]]
    BY DEF IInv, TypeOK
  <2>2. ASSUME NEW q \in Run, StartCall(q)
        PROVE  Lifecycle!Submit(q)
    <3>1. Begun' = Begun /\ Results' = Results
      BY <2>1, <2>2 DEF Begun, Results, StartCall
    <3> QED
      BY <2>2, <3>1 DEF StartCall, CreateRun, Lifecycle!Submit, Begun, Results,
                        Absent
  <2>3. ASSUME NEW q \in Run, SeedNode(q)
        PROVE  Lifecycle!Next \/ UNCHANGED <<runs, Begun, Results>>
    BY <2>3, SeedIsAdd DEF Lifecycle!Next
  <2>4. ASSUME NEW q \in Run, StartRunning(q)
        PROVE  Lifecycle!Begin(q)
    <3>1. Begun' = [Begun EXCEPT ![q] = TRUE] /\ Results' = Results
          /\ runs[q] # Absent /\ ~Begun[q]
      BY <2>1, <2>4 DEF Begun, Results, StartRunning, SubmittedInTable
    <3> QED
      BY <2>4, <3>1 DEF StartRunning, UpdateRunState, Lifecycle!Begin, Begun,
                        Results, Absent
  <2>5. ASSUME NEW q \in Run, StartFail(q)
        PROVE  UNCHANGED <<runs, Begun, Results>>
    BY <2>1, <2>5 DEF StartFail, Begun, Results
  <2>6. ASSUME NEW q \in Run, CancelRun(q)
        PROVE  Lifecycle!Cancel(q)
    BY <2>6 DEF CancelRun, UpdateRunState, Lifecycle!Cancel, Absent
  <2>7. ASSUME NEW q \in Run, NEW a \in Caller,
               AdvanceSkip(q, a) \/ AdvanceMark(q, a)
        PROVE  Lifecycle!Next \/ UNCHANGED <<runs, Begun, Results>>
    <3>1. /\ Looping(q, a) /\ Ready(Current(q, a), adv[q][a].seen)
          /\ UNCHANGED <<runs, start>>
          /\ \/ nodes' = nodes
             \/ UpsertNode(q, Current(q, a).id, "skipped")
             \/ UpsertNode(q, Current(q, a).id, "running")
      BY <2>7 DEF AdvanceSkip, AdvanceMark
    <3>2. Current(q, a).id \in NodeID /\ nodes[q][Current(q, a).id] = "pending"
      BY <3>1, CursorRow
    <3>3. start[q].pc = "done"
      BY <3>1 DEF Looping, IInv, RunInv, Quiet
    <3>4. CASE nodes' = nodes
      BY <3>1, <3>4 DEF Begun, Results
    <3>5. CASE UpsertNode(q, Current(q, a).id, "skipped")
      <4>1. Lifecycle!Finish(q, Current(q, a).id, "skipped")
        BY <3>1, <3>2, <3>3, <3>5, EndIsFinish
      <4> QED
        BY <3>2, <4>1 DEF Lifecycle!Next
    <3>6. CASE UpsertNode(q, Current(q, a).id, "running")
      <4>1. Results' = [Results EXCEPT ![q][Current(q, a).id] = "open"]
        BY <2>1, <3>2, <3>6, UpsertResult DEF Outcome, Absent
      <4>2. Results[q][Current(q, a).id] = "open"
        BY <3>2 DEF Results, Outcome, Absent
      <4>3. Results' = Results
        BY <3>2, <4>1, <4>2, SameResult
      <4> QED
        BY <3>1, <4>3 DEF Begun
    <3> QED
      BY <3>1, <3>4, <3>5, <3>6
  <2>8. ASSUME NEW c \in Completer, NEW q \in Run, NEW y \in NodeID,
               NEW success \in BOOLEAN, NodeCompleted(c, q, y, success)
        PROVE  Lifecycle!Next
    <3>1. nodes[q][y] \in {"pending", "running"} /\ dispatched[q][y] = 1
      BY <2>8, OutstandingRow DEF NodeCompleted
    <3>2. start[q].pc = "done"
      BY <3>1 DEF IInv, RunInv, Quiet
    <3>3. PICK end \in {"success", "failed"} : UpsertNode(q, y, end)
      BY <2>8 DEF NodeCompleted
    <3>4. Lifecycle!Finish(q, y, end)
      BY <2>8, <3>1, <3>2, <3>3, EndIsFinish DEF NodeCompleted
    <3> QED
      BY <3>4 DEF Lifecycle!Next
  <2>9. ASSUME NEW c \in Completer, CompletedUpdate(c)
        PROVE  Lifecycle!Next
    BY <2>9, UpdateIsConclude DEF Lifecycle!Next
  <2>10. \/ UNCHANGED <<runs, nodes, start>>
         \/ \E q \in Run : StartCall(q) \/ SeedNode(q) \/ StartRunning(q)
                            \/ StartFail(q) \/ CancelRun(q)
         \/ \E q \in Run, a \in Caller : AdvanceSkip(q, a) \/ AdvanceMark(q, a)
         \/ \E c \in Completer, q \in Run, y \in NodeID, success \in BOOLEAN :
              NodeCompleted(c, q, y, success)
         \/ \E c \in Completer : CompletedUpdate(c)
    BY DEF Next, StartStep, AdvanceStep, CompletedStep, Failure, vars,
           AdvanceCall, AdvanceList, AdvanceListFail, AdvancePass,
           AdvanceMarkFail, AdvanceDispatch, AdvanceNext, AdvanceReturn,
           NodeCompletedFail, CompletedList, CompletedFail
  <2>11. CASE UNCHANGED <<runs, nodes, start>>
    BY <2>11 DEF Begun, Results
  <2> QED
    BY <2>2, <2>3, <2>4, <2>5, <2>6, <2>7, <2>8, <2>9, <2>10, <2>11
       DEF Lifecycle!Next
<1> QED
  BY <1>1, <1>2, IInvAlways, RowsOfSubmitted, PTL
     DEF Spec, ImplementsLifecycle, Lifecycle!Spec
=============================================================================
