---------------------------- MODULE MasterProofs ----------------------------
(***************************************************************************)
(* Proofs about Master, for any set of runs, deliveries and requests, any  *)
(* number of processes on one database, and every fault and crash.         *)
(***************************************************************************)
EXTENDS Master, PipelineProofs

-----------------------------------------------------------------------------
(* The inductive invariant. *)

\* A run whose Start is not over has no verdict, and nobody works on it.
Untouched(r) ==
    start[r].pc # "done" =>
      /\ runs[r] \notin {"success", "failed"}
      /\ \A a \in Caller : adv[r][a].pc = "idle"
      /\ \A x \in NodeID : dispatched[r][x] = 0

\* What the row of a run says about its Start.
RowOfStart(r) ==
    /\ runs[r] = Absent <=> start[r].pc = "idle"
    /\ start[r].pc = "done" => runs[r] # "pending"

\* What Master needs of the manager.  It holds whether or not the Advance
\* calls of a run overlap, and for any row ids.
ManagerInv ==
    /\ TypeOK
    /\ \A r \in Run : Untouched(r) /\ RowOfStart(r)
    /\ \A c \in Completer :
         comp[c].pc # "idle" => start[comp[c].run].pc = "done"

Phase == {"down", "config", "store", "listen", "serving", "draining", "closing"}
HookPlace == {"idle", "sent", "reading", "starting", "answered", "lost"}
Cause == {"none", "failed", "cancelled", "killed"}
HookState == [pc : HookPlace, req : Request, sends : Nat, run : Run \cup {NoRun},
              status : Nat]

MasterTypeOK ==
    /\ phase \in Phase
    /\ hook \in [Delivery -> HookState]
    /\ origin \in [Run -> Delivery \cup {"api", "none"}]
    /\ cause \in [Run -> Cause]

\* A Start that is under way has a caller that waits for it: an RPC, or the
\* handler of one delivery.
Owned(r) ==
    start[r].pc = "seed" =>
      \/ origin[r] = "api"
      \/ /\ origin[r] \in Delivery
         /\ hook[origin[r]].pc = "starting"
         /\ hook[origin[r]].run = r

\* A handler waits for a run whose Start was called; one that has answered
\* did not leave a Start behind.  A delivery nobody has handled has no run.
HookInv(d) ==
    /\ hook[d].pc \in {"idle", "sent", "reading"} => hook[d].run = NoRun
    /\ hook[d].pc = "starting" => /\ hook[d].run \in Run
                                  /\ start[hook[d].run].pc # "idle"
                                  /\ cause[hook[d].run] # "killed"
    /\ hook[d].pc = "answered" /\ hook[d].run # NoRun =>
         /\ start[hook[d].run].pc \in {"done", "failed"}
         /\ cause[hook[d].run] # "killed"

\* When GracefulStop has returned no RPC is left.
Drained ==
    phase = "closing" =>
      \A r \in Run : start[r].pc = "seed" => origin[r] # "api"

\* A Start has a cause if and only if it has failed.
CauseOf(r) == cause[r] # "none" <=> start[r].pc = "failed"

MasterInv ==
    /\ ManagerInv
    /\ MasterTypeOK
    /\ \A r \in Run : Owned(r)
    /\ \A r \in Run : Seeded(r) /\ CauseOf(r)
    /\ \A d \in Delivery : HookInv(d)
    /\ Drained

-----------------------------------------------------------------------------
(* The manager under the process *)

LEMMA ManagerInit == Init => ManagerInv
BY TypeInit DEF Init, ManagerInv, Untouched, RowOfStart, IdleAdvance,
                IdleCompleted, Absent

LEMMA ManagerStep == ManagerInv /\ [Next]_vars => ManagerInv'
<1> SUFFICES ASSUME ManagerInv, [Next]_vars
             PROVE  ManagerInv'
  OBVIOUS
<1>0. TypeOK /\ TypeOK'
  BY TypeStep DEF ManagerInv
<1>t. /\ runs \in [Run -> RunState \cup {Absent}]
      /\ start \in [Run -> StartState]
      /\ adv \in [Run -> [Caller -> AdvanceState]]
      /\ comp \in [Completer -> CompletedState]
      /\ dispatched \in [Run -> [NodeID -> Nat]]
      /\ reported \in [Run -> [NodeID -> Nat]]
  BY <1>0 DEF TypeOK
<1>c. \A c \in Completer :
        /\ comp[c].pc # "idle" => comp[c].run \in Run
        /\ comp[c].pc = "update" => comp[c].verdict \in {"success", "failed"}
  BY <1>t DEF CompletedState, IdleCompleted
<1> USE DEF ManagerInv, Untouched, RowOfStart
<1>1. ASSUME NEW r \in Run, StartCall(r)
      PROVE  ManagerInv'
  BY <1>0, <1>t, <1>c, <1>1 DEF StartCall, CreateRun, Absent
<1>2. ASSUME NEW r \in Run, SeedNode(r)
      PROVE  ManagerInv'
  BY <1>0, <1>t, <1>c, <1>2 DEF SeedNode
<1>3. ASSUME NEW r \in Run, StartRunning(r)
      PROVE  ManagerInv'
  BY <1>0, <1>t, <1>c, <1>3 DEF StartRunning, UpdateRunState, Absent
<1>4. ASSUME NEW r \in Run, StartFail(r)
      PROVE  ManagerInv'
  BY <1>0, <1>t, <1>c, <1>4 DEF StartFail
<1>5. ASSUME NEW r \in Run, CancelRun(r)
      PROVE  ManagerInv'
  BY <1>0, <1>t, <1>c, <1>5 DEF CancelRun, UpdateRunState, Absent
<1>6. ASSUME NEW r \in Run, NEW a \in Caller,
             AdvanceCall(r, a) \/ AdvanceStep(r, a)
               \/ AdvanceListFail(r, a) \/ AdvanceMarkFail(r, a)
      PROVE  ManagerInv'
  <2>1. start[r].pc = "done"
    BY <1>0, <1>t, <1>6
       DEF AdvanceCall, AdvanceStep, AdvanceListFail, AdvanceMarkFail, AdvanceList,
           AdvancePass, AdvanceSkip, AdvanceMark, AdvanceDispatch, AdvanceNext,
           AdvanceReturn, Looping
  <2>2. /\ UNCHANGED <<runs, start, comp>>
        /\ \A q \in Run \ {r} : adv'[q] = adv[q] /\ dispatched'[q] = dispatched[q]
    BY <1>0, <1>t, <1>6
       DEF AdvanceCall, AdvanceStep, AdvanceListFail, AdvanceMarkFail, AdvanceList,
           AdvancePass, AdvanceSkip, AdvanceMark, AdvanceDispatch, AdvanceNext,
           AdvanceReturn, Looping, NextNode, Goto
  <2> QED
    BY <1>0, <1>c, <2>1, <2>2
<1>7. ASSUME NEW c \in Completer, NEW r \in Run, NEW x \in NodeID,
             NEW success \in BOOLEAN, NodeCompleted(c, r, x, success)
      PROVE  ManagerInv'
  BY <1>0, <1>t, <1>c, <1>7 DEF NodeCompleted
<1>8. ASSUME NEW c \in Completer, NEW r \in Run, NEW x \in NodeID,
             NodeCompletedFail(c, r, x)
      PROVE  ManagerInv'
  BY <1>0, <1>t, <1>c, <1>8 DEF NodeCompletedFail
<1>9. ASSUME NEW c \in Completer, CompletedList(c)
      PROVE  ManagerInv'
  BY <1>0, <1>t, <1>c, <1>9 DEF CompletedList, IdleCompleted
<1>10. ASSUME NEW c \in Completer, CompletedUpdate(c)
       PROVE  ManagerInv'
  BY <1>0, <1>t, <1>c, <1>10
     DEF CompletedUpdate, UpdateRunState, IdleCompleted, Absent
<1>11. ASSUME NEW c \in Completer, CompletedFail(c)
       PROVE  ManagerInv'
  BY <1>0, <1>t, <1>c, <1>11 DEF CompletedFail, IdleCompleted
<1>12. CASE UNCHANGED vars
  BY <1>0, <1>12 DEF vars
<1> QED
  BY <1>1, <1>2, <1>3, <1>4, <1>5, <1>6, <1>7, <1>8, <1>9, <1>10, <1>11, <1>12
     DEF Next, StartStep, CompletedStep, Failure

\* What a step must keep for the rows of run r to stay where they are.
RowsStay(r) ==
    /\ spec'[r] = spec[r]
    /\ \A x \in NodeID : nodes[r][x] # Absent => nodes'[r][x] # Absent

\* The rows before the cursor of a Start stay written when its cursor does not
\* move, or is given up.
LEMMA SeededStays ==
    ASSUME TypeOK, NEW r \in Run, Seeded(r), RowsStay(r),
           start'[r] = start[r] \/ start'[r].pc \in {"failed", "idle"}
    PROVE  Seeded(r)'
<1>1. spec[r] \in Pipelines \cup {<<>>}
  BY DEF TypeOK
<1> QED
  BY <1>1, RowFacts DEF Seeded, RowsStay

\* A node is written, and no row disappears.
LEMMA UpsertKeepsRows ==
    ASSUME TypeOK, NEW r \in Run, NEW x, NEW state \in NodeState,
           UpsertNode(r, x, state), spec' = spec
    PROVE  \A q \in Run : RowsStay(q)
BY DEF TypeOK, UpsertNode, RowsStay, Absent, NodeState

LEMMA SeededNode ==
    ASSUME TypeOK, NEW r \in Run, Seeded(r), SeedNode(r)
    PROVE  Seeded(r)'
<1> DEFINE i == start[r].i
           j == start[r].j
           p == spec[r]
           x == RowOf(p, i, j)
<1>2. /\ p \in Pipelines \cup {<<>>}
      /\ i \in Nat /\ j \in Nat
      /\ start[r].pc = "seed" /\ i <= Len(p)
  BY DEF TypeOK, StartState, SeedNode
<1>3. IsRow(p, i, j) /\ x \in NodeID
  <2>1. i \in 1..Len(p) /\ (j = 0 \/ IsRow(p, i, j)) /\ Len(p) \in Nat
    BY <1>2, RowFacts DEF Seeded
  <2>2. Len(Inner(p[i])) \in Nat
    <3>1. p[i] \in Node
      BY <1>2, <2>1, PipelinesAssumption
    <3> QED
      BY <3>1 DEF Node, Inner
  <2>3. IsRow(p, i, j)
    BY <2>1, <2>2 DEF IsRow
  <2> QED
    BY <1>2, <2>3, RowFacts
<1>4. /\ \A y \in NodeID : nodes'[r][y] = IF y = x THEN "pending" ELSE nodes[r][y]
      /\ start'[r] = IF j < Len(Inner(p[i]))
                     THEN [pc |-> "seed", i |-> i, j |-> j + 1]
                     ELSE [pc |-> "seed", i |-> i + 1, j |-> 0]
      /\ spec' = spec
  BY <1>3 DEF TypeOK, SeedNode, UpsertNode, RowOf
<1>5. start'[r].i \in 1..(Len(p) + 1)
  BY <1>2, <1>3, <1>4, RowFacts
<1>6. start'[r].j = 0 \/ IsRow(p, start'[r].i, start'[r].j)
  BY <1>2, <1>3, <1>4 DEF IsRow
<1>7. ASSUME NEW k \in Nat, NEW l \in Nat, IsRow(p, k, l),
             k < start'[r].i \/ (k = start'[r].i /\ l < start'[r].j)
      PROVE  nodes'[r][RowOf(p, k, l)] # Absent
  <2>1. RowOf(p, k, l) \in NodeID /\ l <= Len(Inner(p[k])) /\ Len(Inner(p[k])) \in Nat
    BY <1>2, <1>7, RowFacts
  <2>2. k < i \/ (k = i /\ l < j) \/ (k = i /\ l = j)
    BY <1>2, <1>4, <1>7, <2>1
  <2>3. CASE k = i /\ l = j
    BY <1>3, <1>4, <2>3 DEF Absent
  <2>4. CASE k < i \/ (k = i /\ l < j)
    <3>1. nodes[r][RowOf(p, k, l)] # Absent
      BY <1>2, <1>7, <2>4 DEF Seeded
    <3> QED
      BY <1>4, <2>1, <3>1 DEF Absent
  <2> QED
    BY <2>2, <2>3, <2>4
<1>8. start'[r].pc = "seed"
  BY <1>4
<1> HIDE DEF i, j
<1> QED
  BY <1>4, <1>5, <1>6, <1>7, <1>8 DEF Seeded

LEMMA SeededKept ==
    TypeOK /\ (\A r \in Run : Seeded(r)) /\ [Next]_vars => \A r \in Run : Seeded(r)'
<1> SUFFICES ASSUME TypeOK, \A r \in Run : Seeded(r), [Next]_vars
             PROVE  \A r \in Run : Seeded(r)'
  OBVIOUS
<1>t. start \in [Run -> StartState] /\ spec \in [Run -> Pipelines \cup {<<>>}]
  BY DEF TypeOK
<1>1. ASSUME NEW r \in Run, StartCall(r)
      PROVE  \A q \in Run : Seeded(q)'
  <2>1. /\ \A q \in Run \ {r} : start'[q] = start[q] /\ RowsStay(q)
        /\ start'[r] = [pc |-> "seed", i |-> 1, j |-> 0]
        /\ spec'[r] \in Pipelines /\ nodes' = nodes
    BY <1>t, <1>1 DEF StartCall, RowsStay
  <2>2. Seeded(r)'
    BY <2>1, RowFacts DEF Seeded
  <2> QED
    BY <2>1, <2>2, SeededStays
<1>2. ASSUME NEW r \in Run, SeedNode(r)
      PROVE  \A q \in Run : Seeded(q)'
  <2>1. \A q \in Run \ {r} : start'[q] = start[q] /\ RowsStay(q)
    BY <1>t, <1>2 DEF TypeOK, SeedNode, UpsertNode, RowsStay
  <2> QED
    BY <1>2, <2>1, SeededStays, SeededNode
<1>3. ASSUME NEW r \in Run, StartRunning(r)
      PROVE  \A q \in Run : Seeded(q)'
  <2>1. /\ UNCHANGED <<nodes, spec>> /\ start[r].pc = "seed"
        /\ start[r].i > Len(spec[r]) /\ start'[r].pc = "done"
        /\ \A q \in Run \ {r} : start'[q] = start[q]
    BY <1>t, <1>3 DEF StartRunning
  <2>2. \A q \in Run : RowsStay(q)
    BY <2>1 DEF RowsStay
  <2>3. Seeded(r)'
    <3>1. ASSUME NEW i \in Nat, NEW j \in Nat, IsRow(spec[r], i, j)
          PROVE  nodes[r][RowOf(spec[r], i, j)] # Absent
      <4>1. i \in 1..Len(spec[r]) /\ Len(spec[r]) \in Nat /\ start[r].i \in Nat
        BY <1>t, <3>1, RowFacts DEF StartState
      <4>2. i < start[r].i
        BY <2>1, <4>1
      <4> QED
        BY <2>1, <3>1, <4>2 DEF Seeded
    <3> QED
      BY <2>1, <3>1 DEF Seeded
  <2> QED
    BY <2>1, <2>2, <2>3, SeededStays
<1>4. ASSUME NEW r \in Run, StartFail(r)
      PROVE  \A q \in Run : Seeded(q)'
  <2>1. \A q \in Run : RowsStay(q) /\ (start'[q] = start[q] \/ start'[q].pc = "failed")
    BY <1>t, <1>4 DEF StartFail, RowsStay
  <2> QED
    BY <2>1, SeededStays
<1>5. ASSUME NEW r \in Run, NEW a \in Caller, AdvanceSkip(r, a) \/ AdvanceMark(r, a)
      PROVE  \A q \in Run : Seeded(q)'
  <2>1. UNCHANGED <<start, spec>>
    BY <1>5 DEF AdvanceSkip, AdvanceMark
  <2>2. \/ nodes' = nodes
        \/ \E x : \E state \in NodeState : UpsertNode(r, x, state)
    BY <1>5 DEF AdvanceSkip, AdvanceMark, NodeState
  <2>3. \A q \in Run : RowsStay(q)
    BY <2>1, <2>2, UpsertKeepsRows DEF RowsStay
  <2> QED
    BY <2>1, <2>3, SeededStays
<1>6. ASSUME NEW c \in Completer, NEW r \in Run, NEW x \in NodeID,
             NEW success \in BOOLEAN, NodeCompleted(c, r, x, success)
      PROVE  \A q \in Run : Seeded(q)'
  <2>1. UNCHANGED <<start, spec>>
    BY <1>6 DEF NodeCompleted
  <2>2. \E state \in NodeState : UpsertNode(r, x, state)
    BY <1>6 DEF NodeCompleted, NodeState
  <2>3. \A q \in Run : RowsStay(q)
    BY <2>1, <2>2, UpsertKeepsRows
  <2> QED
    BY <2>1, <2>3, SeededStays
<1>7. CASE UNCHANGED <<start, spec, nodes>>
  <2>1. \A q \in Run : RowsStay(q) /\ start'[q] = start[q]
    BY <1>7 DEF RowsStay
  <2> QED
    BY <2>1, SeededStays
<1>8. \/ UNCHANGED <<start, spec, nodes>>
      \/ \E r \in Run : \/ StartCall(r) \/ SeedNode(r) \/ StartRunning(r) \/ StartFail(r)
                       \/ \E a \in Caller : AdvanceSkip(r, a) \/ AdvanceMark(r, a)
      \/ \E c \in Completer, r \in Run, x \in NodeID, success \in BOOLEAN :
           NodeCompleted(c, r, x, success)
  BY DEF Next, StartStep, AdvanceStep, CompletedStep, Failure, vars, CancelRun,
         AdvanceCall, AdvanceList, AdvanceListFail, AdvancePass, AdvanceMarkFail,
         AdvanceDispatch, AdvanceNext, AdvanceReturn, NodeCompletedFail,
         CompletedList, CompletedUpdate, CompletedFail
<1> QED
  BY <1>1, <1>2, <1>3, <1>4, <1>5, <1>6, <1>7, <1>8

\* The exit of a process, as the manager sees it.
LEMMA ManagerExit ==
    ASSUME ManagerInv, NEW how, Exit(how)
    PROVE  ManagerInv'
<1>1. start \in [Run -> StartState] /\ comp \in [Completer -> CompletedState]
  BY DEF ManagerInv, TypeOK
<1>2. start' \in [Run -> StartState]
  BY <1>1 DEF Exit, StartState
<1>3. adv' \in [Run -> [Caller -> AdvanceState]]
  BY LocalTypes DEF Exit
<1>4. TypeOK'
  BY <1>2, <1>3 DEF Exit, TypeOK, ManagerInv
<1>5. \A r \in Run : Untouched(r)' /\ RowOfStart(r)'
  BY <1>1 DEF Exit, ManagerInv, Untouched, RowOfStart, IdleAdvance
<1>6. ASSUME NEW c \in Completer, comp[c].pc # "idle"
      PROVE  start'[comp[c].run].pc = "done"
  <2>1. start[comp[c].run].pc = "done" /\ comp[c].run \in Run
    BY <1>1, <1>6 DEF ManagerInv, CompletedState, IdleCompleted
  <2> QED
    BY <2>1 DEF Exit
<1>7. comp' = comp
  BY DEF Exit
<1> QED
  BY <1>4, <1>5, <1>6, <1>7 DEF ManagerInv

\* A Start whose context is cancelled, as the manager sees it: it fails.
LEMMA ManagerCancelled ==
    ASSUME ManagerInv, NEW r \in Run, StartCancelled(r)
    PROVE  ManagerInv'
<1>1. start \in [Run -> StartState]
  BY DEF ManagerInv, TypeOK
<1>2. start' \in [Run -> StartState]
  BY <1>1 DEF StartCancelled, StartState
<1>3. TypeOK'
  BY <1>2 DEF StartCancelled, TypeOK, ManagerInv
<1> QED
  BY <1>1, <1>3 DEF StartCancelled, ManagerInv, Untouched, RowOfStart

-----------------------------------------------------------------------------
(* Steps of the process *)

\* The steps that end a process or cancel a Start; the others are steps of the
\* manager, or leave it alone.
LEMMA MasterIsPipeline ==
    ASSUME [MasterNext]_mvars
    PROVE  \/ [Next]_vars
           \/ \E how \in {"clean", "error"} : Exit(how)
           \/ \E r \in Run : StartCancelled(r)
<1>1. CASE Startup \/ UNCHANGED mvars
  BY <1>1 DEF Startup, Boot, Configure, OpenStore, Listen, migrate, vars, mvars
<1>2. CASE Ending
  BY <1>2 DEF Ending, ServeFails, Crash, Signal, GracefulStop, Shutdown
<1>3. ASSUME NEW d \in Delivery, Webhook(d)
      PROVE  [Next]_vars
  BY <1>3 DEF Webhook, Deliver, Receive, Refuse, TriggerFails, TriggerReturns,
              Trigger, Next
<1>4. ASSUME NEW p \in Peer, StreamOpens(p) \/ StreamEnds(p)
      PROVE  [Next]_vars
  BY <1>4 DEF StreamOpens, StreamEnds
<1>5. ASSUME NEW r \in Run, SubmitPipeline(r) \/ StartGoes(r) \/ StartFails(r)
      PROVE  Next
  BY <1>5 DEF SubmitPipeline, StartGoes, StartFails, Next, Failure
<1>6. ASSUME NEW r \in Run, NEW a \in Caller,
             AdvanceCalled(r, a) \/ AdvanceGoes(r, a) \/ AdvanceFails(r, a)
      PROVE  Next
  BY <1>6 DEF AdvanceCalled, AdvanceGoes, AdvanceFails, Next, Failure
<1> QED
  BY <1>1, <1>2, <1>3, <1>4, <1>5, <1>6 DEF MasterNext

LEMMA ManagerKept == ManagerInv /\ [MasterNext]_mvars => ManagerInv'
BY ManagerStep, ManagerExit, ManagerCancelled, MasterIsPipeline

LEMMA MasterSeeded ==
    ASSUME TypeOK, \A r \in Run : Seeded(r), [MasterNext]_mvars
    PROVE  \A r \in Run : Seeded(r)'
<1>t. start \in [Run -> StartState]
  BY DEF TypeOK
<1>1. ASSUME NEW how, Exit(how)
      PROVE  \A r \in Run : Seeded(r)'
  <2>1. \A r \in Run : RowsStay(r) /\ (start'[r] = start[r] \/ start'[r].pc = "failed")
    BY <1>1 DEF Exit, RowsStay
  <2> QED
    BY <2>1, SeededStays
<1>2. ASSUME NEW r \in Run, StartCancelled(r)
      PROVE  \A q \in Run : Seeded(q)'
  <2>1. \A q \in Run : RowsStay(q) /\ (start'[q] = start[q] \/ start'[q].pc = "failed")
    BY <1>t, <1>2 DEF StartCancelled, RowsStay
  <2> QED
    BY <2>1, SeededStays
<1> QED
  BY <1>1, <1>2, SeededKept, MasterIsPipeline

LEMMA MasterInvInit == MasterInit => MasterInv
<1> SUFFICES ASSUME MasterInit
             PROVE  MasterInv
  OBVIOUS
<1>1. ManagerInv
  BY ManagerInit DEF MasterInit
<1>2. MasterTypeOK
  BY DEF MasterInit, MasterTypeOK, Phase, HookState, HookPlace, Cause
<1>3. \A r \in Run : start[r].pc = "idle"
  BY DEF MasterInit, Init
<1>4. \A r \in Run : Seeded(r) /\ CauseOf(r)
  BY <1>3 DEF MasterInit, Seeded, CauseOf
<1> QED
  BY <1>1, <1>2, <1>3, <1>4 DEF MasterInit, MasterInv, Owned, HookInv, Drained

\* What MasterInvStep has to show beyond the manager's part.
HooksInv ==
    /\ MasterTypeOK
    /\ \A r \in Run : Owned(r) /\ CauseOf(r)
    /\ \A d \in Delivery : HookInv(d)
    /\ Drained

LEMMA MasterInvStep == MasterInv /\ [MasterNext]_mvars => MasterInv'
<1> SUFFICES ASSUME MasterInv, [MasterNext]_mvars
             PROVE  HooksInv'
  BY ManagerKept, MasterSeeded DEF MasterInv, ManagerInv, HooksInv
<1>t. /\ start \in [Run -> StartState]
      /\ hook \in [Delivery -> HookState]
      /\ origin \in [Run -> Delivery \cup {"api", "none"}]
      /\ cause \in [Run -> Cause] /\ phase \in Phase
  BY DEF MasterInv, MasterTypeOK, ManagerInv, TypeOK
<1>p. /\ {"sent", "reading", "starting", "answered", "lost"} \subseteq HookPlace
      /\ {"none", "failed", "cancelled", "killed"} \subseteq Cause
  BY DEF HookPlace, Cause
<1>r. \A d \in Delivery : hook[d].run \in Run \cup {NoRun}
  BY <1>t DEF HookState
<1> USE DEF MasterInv, MasterTypeOK, Owned, HookInv, Drained, CauseOf, HooksInv
<1>1. CASE Startup
  BY <1>t, <1>1 DEF Startup, Boot, Configure, OpenStore, Listen, migrate,
     vars, GiveUp, Phase
<1>2. CASE Signal \/ GracefulStop
  BY <1>t, <1>2 DEF Signal, GracefulStop, vars, Phase
<1>3. ASSUME NEW how, Exit(how)
      PROVE  HooksInv'
  <2>1. phase' = "down" /\ origin' = origin
    BY <1>3 DEF Exit
  <2>2. \A r \in Run :
          /\ start[r].pc = "seed" => start'[r].pc = "failed" /\ cause'[r] = "killed"
          /\ start[r].pc # "seed" => start'[r] = start[r] /\ cause'[r] = cause[r]
    BY <1>3 DEF Exit
  <2>3. \A d \in Delivery :
          /\ hook'[d].pc = IF InHandler(d) THEN "lost" ELSE hook[d].pc
          /\ hook'[d].run = hook[d].run
    BY <1>t, <1>3 DEF Exit, HookState
  <2>4. hook' \in [Delivery -> HookState]
    <3>1. \A d \in Delivery : [hook[d] EXCEPT !.pc = "lost"] \in HookState
      BY <1>t, <1>p DEF HookState
    <3> QED
      BY <1>t, <1>3, <3>1 DEF Exit
  <2>5. cause' \in [Run -> Cause]
    BY <1>t, <1>p, <1>3 DEF Exit
  <2>6. \A r \in Run : Owned(r)' /\ CauseOf(r)'
    BY <2>1, <2>2
  <2>7. \A d \in Delivery : HookInv(d)'
    BY <1>r, <2>2, <2>3 DEF InHandler
  <2> QED
    BY <1>t, <2>1, <2>4, <2>5, <2>6, <2>7 DEF Phase
<1>4. ASSUME NEW d \in Delivery,
             Deliver(d) \/ Receive(d) \/ Refuse(d) \/ TriggerFails(d)
      PROVE  HooksInv'
  <2>1. UNCHANGED <<start, phase, origin, cause>>
    BY <1>4 DEF Deliver, Receive, Refuse, TriggerFails, vars, process
  <2>2. hook[d].pc # "starting" /\ hook'[d].pc # "starting"
    BY <1>t, <1>4 DEF Deliver, Receive, Refuse, TriggerFails, Answer, HookState
  <2>3. hook' \in [Delivery -> HookState]
    <3>0. hook[d] \in HookState
      BY <1>t
    <3>1. CASE Deliver(d)
      BY <1>t, <1>p, <3>1 DEF Deliver, HookState
    <3>2. CASE Receive(d)
      BY <1>t, <1>p, <3>2 DEF Receive, Answer, HookState
    <3>3. CASE Refuse(d) \/ TriggerFails(d)
      <4>1. PICK n \in Nat :
              hook' = [hook EXCEPT ![d].pc = "answered", ![d].status = n]
        <5>1. Answer(d, 204) \/ Answer(d, Refusal(hook[d].req))
          BY <3>3 DEF Refuse, TriggerFails
        <5>2. Refusal(hook[d].req) \in Nat
          BY DEF Refusal
        <5> QED
          BY <5>1, <5>2 DEF Answer
      <4>2. [hook[d] EXCEPT !.pc = "answered", !.status = n] \in HookState
        BY <1>p, <3>0 DEF HookState
      <4> QED
        BY <1>t, <4>1, <4>2
    <3> QED
      BY <1>4, <3>1, <3>2, <3>3
  <2>4. \A e \in Delivery \ {d} : hook'[e] = hook[e]
    BY <1>t, <1>4 DEF Deliver, Receive, Refuse, TriggerFails, Answer
  <2>5. hook'[d].run = NoRun
    BY <1>t, <1>4 DEF Deliver, Receive, Refuse, TriggerFails, Answer, HookState
  <2>6. \A r \in Run : Owned(r)'
    BY <2>1, <2>2, <2>4
  <2>7. \A e \in Delivery : HookInv(e)'
    BY <2>1, <2>2, <2>4, <2>5
  <2> QED
    BY <1>t, <2>1, <2>3, <2>6, <2>7
<1>5. ASSUME NEW d \in Delivery, TriggerReturns(d)
      PROVE  HooksInv'
  <2>1. UNCHANGED <<start, phase, origin, cause>>
    BY <1>5 DEF TriggerReturns, vars, process
  <2>2. hook' \in [Delivery -> HookState]
    <3>0. hook[d] \in HookState /\ "answered" \in HookPlace
      BY <1>t, <1>p
    <3>1. [hook[d] EXCEPT !.pc = "answered", !.status = 204] \in HookState
      BY <3>0 DEF HookState
    <3> QED
      BY <1>t, <1>5, <3>1 DEF TriggerReturns, Answer
  <2>3. \A e \in Delivery \ {d} : hook'[e] = hook[e]
    BY <1>t, <1>5 DEF TriggerReturns, Answer
  <2>4. /\ hook[d].pc = "starting" /\ start[hook[d].run].pc \in {"done", "failed"}
        /\ hook'[d].pc = "answered" /\ hook'[d].run = hook[d].run
        /\ cause[hook[d].run] # "killed"
    BY <1>t, <1>5 DEF TriggerReturns, Answer, HookState
  <2>5. \A r \in Run : Owned(r)'
    BY <2>1, <2>3, <2>4
  <2>6. \A e \in Delivery : HookInv(e)'
    BY <2>1, <2>3, <2>4
  <2> QED
    BY <1>t, <2>1, <2>2, <2>5, <2>6
<1>6. ASSUME NEW d \in Delivery, NEW r \in Run, Trigger(d, r)
      PROVE  HooksInv'
  <2>1. /\ phase' = phase /\ cause' = cause /\ phase = "serving"
        /\ hook[d].pc = "reading" /\ start[r].pc = "idle"
        /\ start' = [start EXCEPT ![r] = [pc |-> "seed", i |-> 1, j |-> 0]]
        /\ hook' = [hook EXCEPT ![d].pc = "starting", ![d].run = r]
        /\ origin' = [origin EXCEPT ![r] = d]
    BY <1>6 DEF Trigger, StartCall, process
  <2>2. /\ hook' \in [Delivery -> HookState]
        /\ origin' \in [Run -> Delivery \cup {"api", "none"}]
    <3>0. hook[d] \in HookState /\ "starting" \in HookPlace
      BY <1>t, <1>p
    <3>1. [hook[d] EXCEPT !.pc = "starting", !.run = r] \in HookState
      BY <3>0 DEF HookState
    <3> QED
      BY <1>t, <2>1, <3>1
  <2>3. \A e \in Delivery \ {d} : hook'[e] = hook[e]
    BY <1>t, <2>1
  <2>4. hook'[d].pc = "starting" /\ hook'[d].run = r
    BY <1>t, <2>1 DEF HookState
  <2>5. \A q \in Run \ {r} : start'[q] = start[q] /\ origin'[q] = origin[q]
    BY <1>t, <2>1
  <2>6. start'[r].pc = "seed" /\ origin'[r] = d
    BY <1>t, <2>1
  <2>7. \A q \in Run : Owned(q)' /\ CauseOf(q)'
    BY <2>1, <2>3, <2>4, <2>5, <2>6
  <2>8. \A e \in Delivery : HookInv(e)'
    <3>1. ASSUME NEW e \in Delivery, e # d
          PROVE  HookInv(e)'
      BY <1>r, <2>1, <2>3, <2>5, <2>6, <3>1
    <3> QED
      BY <2>1, <2>4, <2>6, <3>1
  <2> QED
    BY <1>t, <2>1, <2>2, <2>5, <2>6, <2>7, <2>8
<1>7. ASSUME NEW p \in Peer, StreamOpens(p) \/ StreamEnds(p)
      PROVE  HooksInv'
  BY <1>t, <1>7 DEF StreamOpens, StreamEnds, vars
<1>8. ASSUME NEW r \in Run, SubmitPipeline(r)
      PROVE  HooksInv'
  <2>1. /\ UNCHANGED <<phase, cause, hook>> /\ phase = "serving"
        /\ start[r].pc = "idle" /\ start'[r].pc = "seed" /\ origin'[r] = "api"
        /\ \A q \in Run \ {r} : start'[q] = start[q] /\ origin'[q] = origin[q]
        /\ origin' \in [Run -> Delivery \cup {"api", "none"}]
    BY <1>t, <1>8 DEF SubmitPipeline, StartCall, process
  <2>2. \A q \in Run : Owned(q)' /\ CauseOf(q)'
    BY <2>1
  <2>3. \A d \in Delivery : HookInv(d)'
    BY <1>r, <2>1
  <2> QED
    BY <1>t, <2>1, <2>2, <2>3
<1>9. ASSUME NEW r \in Run, StartGoes(r)
      PROVE  HooksInv'
  <2>1. UNCHANGED <<phase, origin, cause, hook>> /\ start[r].pc = "seed"
    BY <1>9 DEF StartGoes, StartStep, SeedNode, StartRunning, process
  <2>2. \A q \in Run \ {r} : start'[q] = start[q]
    BY <1>t, <1>9 DEF StartGoes, StartStep, SeedNode, StartRunning
  <2>3. start'[r].pc \in {"seed", "done"}
    BY <1>t, <1>9 DEF StartGoes, StartStep, SeedNode, StartRunning
  <2>4. \A q \in Run : Owned(q)' /\ CauseOf(q)'
    BY <2>1, <2>2, <2>3
  <2>5. \A d \in Delivery : HookInv(d)'
    BY <1>r, <2>1, <2>2, <2>3
  <2> QED
    BY <1>t, <2>1, <2>2, <2>3, <2>4, <2>5
<1>10. ASSUME NEW r \in Run, StartCancelled(r) \/ StartFails(r)
       PROVE  HooksInv'
  <2>1. /\ UNCHANGED <<phase, origin, hook>> /\ start[r].pc = "seed"
        /\ start'[r].pc = "failed" /\ cause'[r] \in {"cancelled", "failed"}
        /\ \A q \in Run \ {r} : start'[q] = start[q] /\ cause'[q] = cause[q]
        /\ cause' \in [Run -> Cause]
    BY <1>t, <1>p, <1>10 DEF StartCancelled, StartFails, StartFail, process
  <2>2. \A q \in Run : Owned(q)' /\ CauseOf(q)'
    BY <2>1
  <2>3. \A d \in Delivery : HookInv(d)'
    BY <1>r, <2>1
  <2> QED
    BY <1>t, <2>1, <2>2, <2>3
<1>11. ASSUME NEW r \in Run, NEW a \in Caller,
             AdvanceCalled(r, a) \/ AdvanceGoes(r, a) \/ AdvanceFails(r, a)
       PROVE  HooksInv'
  <2>1. UNCHANGED <<start, phase, hook, origin, cause>>
    BY <1>11 DEF AdvanceCalled, AdvanceGoes, AdvanceFails, AdvanceCall, AdvanceStep,
       AdvanceList, AdvancePass, AdvanceSkip, AdvanceMark, AdvanceDispatch,
       AdvanceNext, AdvanceReturn, AdvanceListFail, AdvanceMarkFail, process
  <2> QED
    BY <1>t, <2>1
<1>12. CASE UNCHANGED mvars
  BY <1>t, <1>12 DEF mvars, vars
<1> QED
  BY <1>1, <1>2, <1>3, <1>4, <1>5, <1>6, <1>7, <1>8, <1>9, <1>10, <1>11, <1>12
     DEF MasterNext, Ending, Webhook, ServeFails, Crash, Shutdown

\* MasterTypeCorrect: startup, both servers, the signal, the stops and crashes
\* keep every part of the process in its type, and the ties between a Start,
\* the handler that waits for it and the phase of the process (main.go:35-125,
\* handler.go:40-71).
THEOREM MasterTypeCorrect == MasterSpec => []MasterInv
<1> QED
  BY MasterInvInit, MasterInvStep, PTL DEF MasterSpec

\* MasterAnsweredStarted: however deliveries, the signal, failures and crashes
\* interleave, a push that was answered with a run has its Start behind it
\* (handler.go:68-70, main.go:93).
THEOREM MasterAnsweredStarted == MasterSpec => []AnsweredStarted
<1>1. MasterInv => AnsweredStarted
  <2> SUFFICES ASSUME MasterInv, NEW d \in Delivery,
                      hook[d].pc = "answered", hook[d].run # NoRun
               PROVE  LET r == hook[d].run IN
                        \/ start[r].pc = "done" /\ runs[r] # "pending"
                        \/ start[r].pc = "failed" /\ cause[r] \in {"failed", "cancelled"}
    BY DEF AnsweredStarted
  <2>1. hook[d].run \in Run /\ cause[hook[d].run] \in Cause
    BY DEF MasterInv, MasterTypeOK, HookState
  <2> QED
    BY <2>1 DEF MasterInv, ManagerInv, RowOfStart, HookInv, CauseOf, Cause
<1> QED
  BY <1>1, MasterTypeCorrect, PTL

\* Only Shutdown ends a process without an error.
LEMMA CleanIsShutdown ==
    ASSUME [MasterNext]_mvars, phase # "down", phase' = "down", exit' = "clean"
    PROVE  Shutdown
<1> SUFFICES ASSUME ~Shutdown
             PROVE  FALSE
  OBVIOUS
<1>1. phase' = phase \/ Startup \/ Ending
  BY DEF MasterNext, Webhook, Deliver, Receive, Refuse, TriggerFails,
         TriggerReturns, Trigger, StreamOpens, StreamEnds, SubmitPipeline,
         StartGoes, StartFails, StartCancelled, AdvanceCalled, AdvanceGoes,
         AdvanceFails, process, mvars
<1> QED
  BY <1>1 DEF Startup, Boot, Configure, OpenStore, Listen, GiveUp, Ending,
              ServeFails, Crash, Signal, GracefulStop, Exit

\* A Start that is done has written every row, one that failed had a cause, and
\* neither has left anybody at work that should not be.
LEMMA OverIsWhole ==
    ASSUME MasterInv, NEW r \in Run, runs[r] # Absent, start[r].pc # "seed"
    PROVE  Whole(r) \/ GivenUp(r)
<1>1. start[r].pc \in {"idle", "done", "failed"} /\ spec[r] \in Pipelines \cup {<<>>}
  BY DEF MasterInv, ManagerInv, TypeOK, StartState
<1>2. start[r].pc # "idle"
  BY DEF MasterInv, ManagerInv, RowOfStart
<1>3. CASE start[r].pc = "done"
  <2>1. ASSUME NEW i \in 1..Len(spec[r]), NEW j \in 0..Len(Inner(spec[r][i]))
        PROVE  nodes[r][Row(spec[r][i], j)] # Absent
    <3>1. Len(spec[r]) \in Nat
      BY <1>1, RowFacts
    <3>2. i \in Nat /\ j \in Nat /\ IsRow(spec[r], i, j)
      BY <3>1 DEF IsRow
    <3>3. nodes[r][RowOf(spec[r], i, j)] # Absent
      BY <1>3, <3>2 DEF MasterInv, Seeded
    <3> QED
      BY <3>3 DEF RowOf
  <2>2. runs[r] # "pending"
    BY <1>3 DEF MasterInv, ManagerInv, RowOfStart
  <2> QED
    BY <1>3, <2>1, <2>2 DEF Whole
<1>4. CASE start[r].pc = "failed"
  BY <1>4 DEF MasterInv, ManagerInv, Untouched, CauseOf, GivenUp
<1> QED
  BY <1>1, <1>2, <1>3, <1>4

\* MasterCleanExit: what GracefulStop and then Shutdown wait for covers, between
\* them, every Start and every request of the webhook, although deliveries go on
\* while the gRPC server drains: each run is there with all its rows, or its
\* Start had given it up (main.go:116-119, run.go:35-76).
THEOREM MasterCleanExit == MasterSpec => CleanExit
<1> DEFINE Clean ==
      phase # "down" /\ phase' = "down" /\ exit' = "clean" =>
        /\ \A r \in Run : runs[r] # Absent => Whole(r) \/ GivenUp(r)
        /\ \A d \in Delivery : ~InHandler(d)
<1>1. MasterInv /\ [MasterNext]_mvars => Clean
  <2> SUFFICES ASSUME MasterInv, Shutdown
               PROVE  /\ \A r \in Run : runs[r] # Absent => Whole(r) \/ GivenUp(r)
                      /\ \A d \in Delivery : ~InHandler(d)
    BY CleanIsShutdown
  <2>1. phase = "closing" /\ \A d \in Delivery : ~InHandler(d)
    BY DEF Shutdown
  <2>2. \A r \in Run : start[r].pc # "seed"
    BY <2>1 DEF MasterInv, Owned, Drained, InHandler
  <2> QED
    BY <2>1, <2>2, OverIsWhole
<1>2. MasterInv /\ [MasterNext]_mvars => [Clean]_mvars
  BY <1>1
<1> QED
  BY <1>2, MasterTypeCorrect, PTL DEF MasterSpec, CleanExit

-----------------------------------------------------------------------------
(* The manager's promises across processes *)

LEMMA ExitStep ==
    ASSUME IInv, NEW how, Exit(how)
    PROVE  IInv'
<1>1. start \in [Run -> StartState] /\ comp \in [Completer -> CompletedState]
  BY DEF IInv, TypeOK
<1>2. start' \in [Run -> StartState]
  BY <1>1 DEF Exit, StartState
<1>3. adv' \in [Run -> [Caller -> AdvanceState]]
  BY LocalTypes DEF Exit
<1>4. TypeOK'
  BY <1>2, <1>3 DEF Exit, TypeOK, IInv
<1>5. UNCHANGED <<runs, nodes, spec, rc, comp, dispatched, reported>>
  BY DEF Exit
<1>6. ASSUME NEW r \in Run
      PROVE  RunInv(r)'
  <2>1. /\ start'[r].pc = "done" <=> start[r].pc = "done"
        /\ start'[r].pc # "seed"
    BY <1>1 DEF Exit
  <2>2. \A a \in Caller : adv'[r][a].pc = "idle"
    BY DEF Exit, IdleAdvance
  <2>3. RunInv(r)
    BY DEF IInv
  <2>4. Seeded(r)' /\ Quiet(r)' /\ OneAdvance(r)'
    BY <1>5, <2>1, <2>2, <2>3 DEF RunInv, Seeded, Quiet, OneAdvance
  <2>5. Counts(r)' /\ Unstarted(r)' /\ Grounds(r)' /\ Concluded(r)'
    BY <1>5, <2>3 DEF RunInv, Counts, Unstarted, Grounds, Concluded
  <2>6. \A a \in Caller : Snapshot(r, a)'
    BY <2>2 DEF Snapshot
  <2> QED
    BY <2>4, <2>5, <2>6 DEF RunInv
<1>7. ASSUME NEW c \in Completer
      PROVE  CompletedInv(c)'
  <2>1. CompletedInv(c) /\ (comp[c].pc # "idle" => comp[c].run \in Run)
    BY <1>1 DEF IInv, CompletedState, IdleCompleted
  <2> QED
    BY <1>5, <2>1 DEF Exit, CompletedInv
<1> QED
  BY <1>4, <1>6, <1>7 DEF IInv

LEMMA CancelledStep ==
    ASSUME IInv, NEW r \in Run, StartCancelled(r)
    PROVE  IInv'
<1>1. start \in [Run -> StartState]
  BY DEF IInv, TypeOK
<1>2. /\ start[r].pc = "seed"
      /\ start' = [start EXCEPT ![r] = [pc |-> "failed", i |-> 0, j |-> 0]]
      /\ UNCHANGED <<runs, nodes, spec, rc, adv, comp, dispatched, reported>>
  BY DEF StartCancelled
<1>3. start' \in [Run -> StartState]
  BY <1>1, <1>2 DEF StartState
<1>4. TypeOK'
  BY <1>2, <1>3 DEF TypeOK, IInv
<1>5. \A q \in Run \ {r} : SameRun(q)
  BY <1>2 DEF SameRun
<1>6. RunInv(r)
  BY DEF IInv
<1>7. Settled(r)
  BY <1>2 DEF Settled
<1>8. start'[r].pc = "failed"
  BY <1>1, <1>2
<1>9. Seeded(r)' /\ Quiet(r)' /\ OneAdvance(r)'
  BY <1>2, <1>6, <1>8 DEF RunInv, Seeded, Quiet, OneAdvance
<1>10. Counts(r)' /\ Unstarted(r)' /\ Grounds(r)' /\ Concluded(r)'
  BY <1>2, <1>6 DEF RunInv, Counts, Unstarted, Grounds, Concluded
<1>11. \A a \in Caller : Snapshot(r, a)'
  BY <1>2, <1>6 DEF RunInv, Snapshot
<1>12. RunInv(r)'
  BY <1>9, <1>10, <1>11 DEF RunInv
<1> QED
  BY <1>2, <1>4, <1>5, <1>7, <1>12, RunStep

\* MasterKeepsPromises: what the manager promises of one process it keeps over
\* any number of them on the same database: a job is sent once, and on grounds
\* that hold, whatever a signal or a crash left half done (run.go:35-76,
\* scheduler.go:32-92, main.go:33-125).
THEOREM MasterKeepsPromises ==
    ASSUME Serial = TRUE, \A p \in Pipelines : DistinctRows(p)
    PROVE  MasterSpec => [](DispatchOnce /\ DispatchJustified)
<1>1. MasterInit => IInv
  BY IInvInit DEF MasterInit
<1>2. IInv /\ [MasterNext]_mvars => IInv'
  BY IInvStep, ExitStep, CancelledStep, MasterIsPipeline
<1>3. IInv => DispatchOnce /\ DispatchJustified
  BY InvJustifies DEF IInv, RunInv, Counts, DispatchOnce
<1> QED
  BY <1>1, <1>2, <1>3, PTL DEF MasterSpec
=============================================================================
