-------------------------------- MODULE Fleet --------------------------------
(***************************************************************************)
(* The registry together with the agents it talks to: the connect loop and *)
(* the job goroutines of internal/client/agent.go and the SendResult       *)
(* handler of internal/api/server.go.  The two ends of a connection fail   *)
(* on their own: the client may be connected again while the master still  *)
(* holds the stream of its previous connection for open.                   *)
(***************************************************************************)
EXTENDS Registry

VARIABLES
    session,    \* session[a]: the connection the client of a is using, or None
    job         \* job[j]: how far the job of j got after it was dispatched

fvars == <<agents, active, handler, stream, mu, disp, session, job>>

JobState == {"none", "transit", "running", "finished", "settled", "lost"}

\* FleetTypeOK: the registry is well typed, a client uses connections of its
\* own, and exactly the dispatches that were sent have a job.
FleetTypeOK ==
    /\ TypeOK
    /\ session \in [Agent -> Conn \cup {None}]
    /\ \A a \in Agent : session[a] # None => Owner[session[a]] = a
    /\ job \in [Job -> JobState]
    /\ \A j \in Job : job[j] # "none" <=> disp[j].pc = "sent"

FleetInit ==
    /\ Init
    /\ session = [a \in Agent |-> None]
    /\ job = [j \in Job |-> "none"]

-----------------------------------------------------------------------------
(* The connect loop *)

\* The client opens a new connection and calls Register on it; it has left
\* the previous one.
connect(c) ==
    /\ session[Owner[c]] = None
    /\ session' = [session EXCEPT ![Owner[c]] = c]
    /\ RegisterCall(c)
    /\ UNCHANGED job

\* Recv fails and the connection is closed: whatever was still on its way on
\* this stream is lost. The master learns of it later, by StreamEnds.
Disconnect(a) ==
    /\ session[a] # None
    /\ session' = [session EXCEPT ![a] = None]
    /\ job' = [j \in Job |->
         IF job[j] = "transit" /\ disp[j].conn = session[a] THEN "lost" ELSE job[j]]
    /\ UNCHANGED rvars

Connected(j) == session[Owner[disp[j].conn]] = disp[j].conn

\* Recv returns the job and a goroutine starts on it.
Recv(j) ==
    /\ job[j] = "transit" /\ Connected(j)
    /\ job' = [job EXCEPT ![j] = "running"]
    /\ UNCHANGED <<rvars, session>>

-----------------------------------------------------------------------------
(* handleJob *)

\* The executor is done. It runs under the context of the agent, not of the
\* connection: jobs outlive the connection they arrived on.
JobFinish(j) ==
    /\ job[j] = "running"
    /\ job' = [job EXCEPT ![j] = "finished"]
    /\ UNCHANGED <<rvars, session>>

\* SendResult on the connection the job came by. The handler passes the job
\* id to JobDone.
SendResult(j) ==
    /\ job[j] = "finished" /\ Connected(j)
    /\ JobDone(j)
    /\ job' = [job EXCEPT ![j] = "settled"]
    /\ UNCHANGED session

\* The connection is closed or the call fails: the error is only logged.
ResultLost(j) ==
    /\ job[j] = "finished"
    /\ job' = [job EXCEPT ![j] = "lost"]
    /\ UNCHANGED <<rvars, session>>

-----------------------------------------------------------------------------
(* The registry's own steps, and what a successful Send puts on its way. *)

Deliver(j) ==
    /\ DispatchSend(j)
    /\ job' = [job EXCEPT ![j] =
         IF session[Owner[disp[j].conn]] = disp[j].conn THEN "transit" ELSE "lost"]
    /\ UNCHANGED session

RegistryStep ==
    /\ \/ \E c \in Conn : \/ RegisterInsert(c) \/ RegisterDelete(c)
                          \/ StreamEnds(c)
       \/ \E j \in Job : DispatchNone(j) \/ DispatchPick(j) \/ DispatchFail(j)
    /\ UNCHANGED <<session, job>>

FleetNext ==
    \/ RegistryStep
    \/ \E c \in Conn : connect(c)
    \/ \E a \in Agent : Disconnect(a)
    \/ \E j \in Job : \/ Deliver(j) \/ Recv(j) \/ JobFinish(j)
                      \/ SendResult(j) \/ ResultLost(j)

FleetSpec == FleetInit /\ [][FleetNext]_fvars

-----------------------------------------------------------------------------
(* Properties *)

Busy(c) == {j \in Job : job[j] \in {"transit", "running", "finished"}
                        /\ disp[j].conn = c}

\* ConnWithinCapacity: whatever is lost, delayed or reported twice over, the
\* jobs an agent has received on one connection and not reported yet are no
\* more than its declared capacity: the count of the registry never falls
\* below them (registry.go:66, 82, 95; agent.go:70, 106).
ConnWithinCapacity ==
    \A c \in Conn : Cardinality(Busy(c)) <= Capacity[Owner[c]]

\* ImplementsRegistry: with real agents at the other end the registry does only
\* what Registry allows with callers that do as they please, so that what is
\* proved of Registry holds here.
ImplementsRegistry == Spec

\* ReportedFreesSlot: the count of a connection is the number of jobs that were
\* sent on it and have not been reported back.
ReportedFreesSlot ==
    \A c \in Conn :
      active[c] = Cardinality({j \in Job : disp[j].conn = c
                                           /\ job[j] \notin {"none", "settled"}})
=============================================================================
