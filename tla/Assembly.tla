------------------------------ MODULE Assembly ------------------------------
(***************************************************************************)
(* The master as cmd/master/main.go wires it: the scheduler of Pipeline    *)
(* sends its jobs through registryDispatcher to the registry and the       *)
(* agents of Fleet, and clients ask for the status of a run                *)
(* (internal/api/server.go).  A job is the row it was made for.  One call  *)
(* of Dispatch begins with the choice of an agent and ends with the result *)
(* of Send; the Advance that made it waits, for the mutex of the registry  *)
(* too.  SendResult, the only way back, calls JobDone and nothing else:    *)
(* NodeCompleted has no caller here.  CancelRun, one write that no part of *)
(* this module looks at, is left to the runs of Pipeline.                  *)
(***************************************************************************)
EXTENDS Fleet, Sequences

CONSTANTS Run, NodeID, Condition, Pipelines, Contexts,
          Faults,   \* which calls may fail; a Dispatch always may
          Reader,   \* calls of GetRun
          RunOf     \* RunOf[q]: the run the call q asks for

ASSUME JobAssumption == Job = Run \X NodeID
ASSUME DispatchMayFail == "dispatch" \in Faults
ASSUME RunOfAssumption == RunOf \in [Reader -> Run]

VARIABLES runs, nodes, spec, rc, start, adv, comp, dispatched, reported,
          query     \* query[q]: the call of GetRun q and its answer; cut: history,
                    \* its second read broke

\* The run manager: nobody but Start calls Advance, nobody calls NodeCompleted.
P == INSTANCE Pipeline WITH Extra <- {}, Serial <- TRUE, Completer <- {},
                         Cancellable <- {}

ASSUME SpecAssumption ==
    Pipelines \subseteq Seq(P!Node) /\ Contexts \subseteq SUBSET Condition

pvars == <<runs, nodes, spec, rc, start, adv, comp, dispatched, reported>>
avars == <<fvars, pvars, query>>

Idle == [pc |-> "idle", state |-> P!Absent, rows |-> {}, cut |-> FALSE]

AssemblyInit ==
    /\ FleetInit
    /\ P!Init
    /\ query = [q \in Reader |-> Idle]

-----------------------------------------------------------------------------
(* The run manager: everything but the calls of Dispatch. *)

\* The Advance of r has a row to dispatch.
Dispatching(r) ==
    /\ adv[r]["main"].pc = "dispatch"
    /\ adv[r]["main"].j <= P!LastTarget(P!Current(r, "main"))

ManagerStep(r) ==
    /\ \/ P!StartStep(r)
       \/ ~Dispatching(r) /\ P!AdvanceStep(r, "main")
    /\ UNCHANGED <<fvars, query>>

SubmitPipeline(r) ==
    /\ P!StartCall(r)
    /\ UNCHANGED <<fvars, query>>

StoreFails(r) ==
    /\ P!StartFail(r) \/ P!AdvanceListFail(r, "main") \/ P!AdvanceMarkFail(r, "main")
    /\ UNCHANGED <<fvars, query>>

-----------------------------------------------------------------------------
(* registryDispatcher.Dispatch *)

\* The job Dispatch is called for: the node id is its job id.
JobOf(r) == <<r, P!Row(P!Current(r, "main"), adv[r]["main"].j)>>

\* The mutex is free and an agent is chosen; Advance waits for the rest.
DispatchBegins(r) ==
    /\ Dispatching(r)
    /\ DispatchPick(JobOf(r))
    /\ UNCHANGED <<session, job, pvars, query>>

\* Send succeeds, Dispatch returns nil and Advance goes on.
DispatchSends(r) ==
    /\ Dispatching(r)
    /\ Deliver(JobOf(r))
    /\ P!AdvanceDispatch(r, "main") /\ dispatched' # dispatched
    /\ UNCHANGED query

\* No agent has capacity left, or Send fails: the error is logged.
DispatchErrs(r) ==
    /\ Dispatching(r)
    /\ DispatchNone(JobOf(r)) \/ DispatchFail(JobOf(r))
    /\ P!AdvanceDispatch(r, "main") /\ dispatched' = dispatched
    /\ UNCHANGED <<session, job, query>>

-----------------------------------------------------------------------------
(* The agents and their connections, as in Fleet. *)

AgentStep ==
    /\ \/ \E c \in Conn : \/ connect(c)
                          \/ /\ \/ RegisterInsert(c) \/ RegisterDelete(c)
                                \/ StreamEnds(c)
                             /\ UNCHANGED <<session, job>>
       \/ \E a \in Agent : Disconnect(a)
       \/ \E j \in Job : Recv(j) \/ JobFinish(j) \/ SendResult(j) \/ ResultLost(j)
    /\ UNCHANGED <<pvars, query>>

-----------------------------------------------------------------------------
(* BrazierServer.GetRun: two reads of the store. *)

Rows(r) == {x \in NodeID : nodes[r][x] # P!Absent}

\* The row of the run; without one, or when the read fails, the answer is
\* NotFound, and the client may ask again.
ReadRun(q) ==
    /\ query[q].pc = "idle"
    /\ \/ /\ runs[RunOf[q]] # P!Absent
          /\ query' = [query EXCEPT ![q] = [Idle EXCEPT !.pc = "list",
                                                        !.state = runs[RunOf[q]]]]
       \/ /\ runs[RunOf[q]] = P!Absent \/ P!DBMayFail
          /\ UNCHANGED query
    /\ UNCHANGED <<fvars, pvars>>

\* The rows of its nodes. A read that breaks returns the rows it has got so far
\* with its error, which GetRun drops: the answer has those.
ReadNodes(q) ==
    /\ query[q].pc = "list"
    /\ \E rows \in SUBSET Rows(RunOf[q]) :
         LET cut == rows # Rows(RunOf[q]) IN
         /\ cut => P!DBMayFail
         /\ query' = [query EXCEPT ![q].pc = "done", ![q].rows = rows, ![q].cut = cut]
    /\ UNCHANGED <<fvars, pvars>>

-----------------------------------------------------------------------------
AssemblyNext ==
    \/ AgentStep
    \/ \E r \in Run : \/ ManagerStep(r) \/ SubmitPipeline(r) \/ StoreFails(r)
                      \/ DispatchBegins(r) \/ DispatchSends(r) \/ DispatchErrs(r)
    \/ \E q \in Reader : ReadRun(q) \/ ReadNodes(q)

\* The manager's goroutines are scheduled, whoever waits for the mutex of the
\* registry gets it, Send returns, and agents do the jobs they have and report
\* them. No agent has to connect or to stay.
AssemblyFairness ==
    /\ \A r \in Run : /\ WF_avars(ManagerStep(r))
                      /\ SF_avars(DispatchBegins(r) \/ DispatchSends(r)
                                  \/ DispatchErrs(r))
    /\ \A c \in Conn : SF_avars(AgentStep /\ (RegisterInsert(c) \/ RegisterDelete(c)))
    /\ \A j \in Job : WF_avars(AgentStep /\ (Recv(j) \/ JobFinish(j) \/ SendResult(j)))

AssemblySpec == AssemblyInit /\ [][AssemblyNext]_avars /\ AssemblyFairness

-----------------------------------------------------------------------------
(* Properties *)

\* SentOnGrounds: whatever is at an agent, or was, is a job of a row that some
\* Advance marked: the row of its node is running in the store, which knows it
\* as dispatched exactly once (scheduler.go:62-86, main.go:131).
SentOnGrounds ==
    \A r \in Run : \A i \in 1..Len(spec[r]) :
      \A k \in 0..Len(P!Inner(spec[r][i])) :
        LET x == P!Row(spec[r][i], k) IN
          /\ job[<<r, x>>] # "none" <=> dispatched[r][x] = 1
          /\ job[<<r, x>>] # "none" => nodes[r][spec[r][i].id] = "running"

\* The row ids of a pipeline.
RowSet(p) == {x \in NodeID : \E i \in 1..Len(p) :
                \E k \in 0..Len(P!Inner(p[i])) : x = P!Row(p[i], k)}

\* StatusComplete: the two reads of GetRun are not atomic, and yet a client is
\* told of no node its run does not have, and one that is told that the run is
\* running gets all the nodes, unless the second read broke: only that, and no
\* read between two writes of Start, gives a part (server.go:38-53, run.go:52-70).
StatusComplete ==
    \A q \in Reader : LET answer == query[q] IN
      answer.pc = "done" /\ answer.state # P!Absent =>
        /\ answer.rows \subseteq RowSet(spec[RunOf[q]])
        /\ answer.state = "running" /\ ~answer.cut =>
             answer.rows = RowSet(spec[RunOf[q]])

\* AdvanceReturns: every Advance ends, although all runs share one mutex that is
\* held across the sends to agents which come, go and fail
\* (scheduler.go:46-78, registry.go:54-69).
AdvanceReturns ==
    \A r \in Run : adv[r]["main"].pc # "idle" ~> adv[r]["main"].pc = "idle"

\* ResultsReachRows: the result an agent has reported ends up in the row of its
\* job.
ResultsReachRows ==
    \A r \in Run, x \in NodeID :
      job[<<r, x>>] = "settled" ~> nodes[r][x] \in {"success", "failed"}
=============================================================================
