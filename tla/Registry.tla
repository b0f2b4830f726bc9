------------------------------ MODULE Registry ------------------------------
(***************************************************************************)
(* The agent registry (internal/registry/registry.go) as the gRPC handlers *)
(* of the master use it. A connection is one call of Register, with its    *)
(* stream and its agentConn; an agent that reconnects is another           *)
(* connection of the same agent id. Every method is one critical section   *)
(* of mu, except Dispatch, which keeps mu while it sends on the stream.    *)
(***************************************************************************)
EXTENDS Integers, FiniteSets

CONSTANTS
    Agent,      \* agent ids
    Conn,       \* connections
    Owner,      \* Owner[c]: reg.AgentId of the registration on c
    Capacity,   \* Capacity[a]: reg.Capacity, the same in all registrations of a
    Job,        \* calls of Dispatch, one for each job
    None        \* no connection, no holder

ASSUME OwnerAssumption == Owner \in [Conn -> Agent]
ASSUME CapacityAssumption == Capacity \in [Agent -> Nat]
ASSUME NoneAssumption == None \notin Conn \cup Job

VARIABLES
    agents,     \* agents[a]: the connection the map holds for a, or None
    active,     \* active[c]: the active field of the agentConn of c
    handler,    \* handler[c]: where the Register call on c is
    stream,     \* stream[c]: "open" until the context of the stream is done
    mu,         \* the Dispatch that holds the mutex across Send, or None
    disp        \* disp[j]: the Dispatch call for j and the connection it took

rvars == <<agents, active, handler, stream, mu, disp>>

\* TypeOK: every entry of the map is a connection of that agent.
TypeOK ==
    /\ agents \in [Agent -> Conn \cup {None}]
    /\ \A a \in Agent : agents[a] # None => Owner[agents[a]] = a
    /\ active \in [Conn -> Nat]
    /\ handler \in [Conn -> {"idle", "lock", "wait", "done"}]
    /\ stream \in [Conn -> {"open", "closed"}]
    /\ mu \in Job \cup {None}
    /\ disp \in [Job -> [pc : {"idle", "send", "sent", "failed"},
                         conn : Conn \cup {None}]]

Init ==
    /\ agents = [a \in Agent |-> None]
    /\ active = [c \in Conn |-> 0]
    /\ handler = [c \in Conn |-> "idle"]
    /\ stream = [c \in Conn |-> "open"]
    /\ mu = None
    /\ disp = [j \in Job |-> [pc |-> "idle", conn |-> None]]

Unlocked == mu = None

-----------------------------------------------------------------------------
(* Register *)

\* The handler starts; it needs the mutex first.
RegisterCall(c) ==
    /\ handler[c] = "idle"
    /\ handler' = [handler EXCEPT ![c] = "lock"]
    /\ UNCHANGED <<agents, active, stream, mu, disp>>

\* The entry is written without the lock.
MutRegisterInsert(c) ==
    /\ handler[c] = "lock"
    /\ agents' = [agents EXCEPT ![Owner[c]] = c]
    /\ active' = [active EXCEPT ![c] = 0]
    /\ handler' = [handler EXCEPT ![c] = "wait"]
    /\ UNCHANGED <<stream, mu, disp>>

\* A new agentConn with active = 0 replaces whatever the map held for the id.
RegisterInsert(c) ==
    /\ handler[c] = "lock" /\ Unlocked
    /\ agents' = [agents EXCEPT ![Owner[c]] = c]
    /\ active' = [active EXCEPT ![c] = 0]
    /\ handler' = [handler EXCEPT ![c] = "wait"]
    /\ UNCHANGED <<stream, mu, disp>>

\* The handler returns without the delete.
MutRegisterDelete(c) ==
    /\ handler[c] = "wait" /\ stream[c] = "closed" /\ Unlocked
    /\ handler' = [handler EXCEPT ![c] = "done"]
    /\ UNCHANGED <<agents, active, stream, mu, disp>>

\* The context is done: the entry is deleted by agent id, whichever connection
\* it belongs to by now.
RegisterDelete(c) ==
    /\ handler[c] = "wait" /\ stream[c] = "closed" /\ Unlocked
    /\ agents' = [agents EXCEPT ![Owner[c]] = None]
    /\ handler' = [handler EXCEPT ![c] = "done"]
    /\ UNCHANGED <<active, stream, mu, disp>>

\* The server sees the end of the stream: disconnect, network or shutdown.
StreamEnds(c) ==
    /\ handler[c] \in {"lock", "wait"} /\ stream[c] = "open"
    /\ stream' = [stream EXCEPT ![c] = "closed"]
    /\ UNCHANGED <<agents, active, handler, mu, disp>>

-----------------------------------------------------------------------------
(* Dispatch *)

Listed == {agents[a] : a \in Agent} \ {None}

\* A full agent still counts as one with capacity.
MutSpare(c) == active[c] <= Capacity[Owner[c]]

Spare(c) == active[c] < Capacity[Owner[c]]

\* The connections leastLoaded may return: which of several equally loaded
\* ones depends on the iteration order of the map.
leastLoaded ==
    {c \in Listed : Spare(c) /\ \A d \in Listed : Spare(d) => active[c] <= active[d]}

\* No agent has capacity left: Dispatch returns an error.
DispatchNone(j) ==
    /\ disp[j].pc = "idle" /\ Unlocked
    /\ leastLoaded = {}
    /\ disp' = [disp EXCEPT ![j] = [pc |-> "failed", conn |-> None]]
    /\ UNCHANGED <<agents, active, handler, stream, mu>>

\* Dispatch has locked mu and chosen a connection.
DispatchPick(j) ==
    /\ disp[j].pc = "idle" /\ Unlocked
    /\ \E c \in leastLoaded :
         disp' = [disp EXCEPT ![j] = [pc |-> "send", conn |-> c]]
    /\ mu' = j
    /\ UNCHANGED <<agents, active, handler, stream>>

\* Send succeeds on a stream the server holds for open.
DispatchSend(j) ==
    /\ disp[j].pc = "send"
    /\ stream[disp[j].conn] = "open"
    /\ active' = [active EXCEPT ![disp[j].conn] = @ + 1]
    /\ disp' = [disp EXCEPT ![j] = [pc |-> "sent", conn |-> disp[j].conn]]
    /\ mu' = None
    /\ UNCHANGED <<agents, handler, stream>>

\* The early return of the error path forgets the mutex.
MutDispatchFail(j) ==
    /\ disp[j].pc = "send"
    /\ disp' = [disp EXCEPT ![j] = [pc |-> "failed", conn |-> None]]
    /\ UNCHANGED <<agents, active, handler, stream, mu>>

\* The error of Send is not looked at.
MutSendUnchecked(j) ==
    /\ disp[j].pc = "send"
    /\ active' = [active EXCEPT ![disp[j].conn] = @ + 1]
    /\ disp' = [disp EXCEPT ![j] = [pc |-> "sent", conn |-> disp[j].conn]]
    /\ mu' = None
    /\ UNCHANGED <<agents, handler, stream>>

\* Send fails, as it must once the stream's context is done.
DispatchFail(j) ==
    /\ disp[j].pc = "send"
    /\ disp' = [disp EXCEPT ![j] = [pc |-> "failed", conn |-> None]]
    /\ mu' = None
    /\ UNCHANGED <<agents, active, handler, stream>>

-----------------------------------------------------------------------------
(* JobDone *)

\* The argument is looked up among the agent ids; any other string, a job id
\* included, changes nothing.
JobDone(key) ==
    /\ Unlocked
    /\ active' = [c \in Conn |->
         IF key = Owner[c] /\ agents[Owner[c]] = c /\ active[c] > 0
         THEN active[c] - 1 ELSE active[c]]
    /\ UNCHANGED <<agents, handler, stream, mu, disp>>

-----------------------------------------------------------------------------
Next ==
    \/ \E c \in Conn : RegisterCall(c) \/ RegisterInsert(c) \/ RegisterDelete(c)
                       \/ StreamEnds(c)
    \/ \E j \in Job : \/ DispatchNone(j) \/ DispatchPick(j)
                      \/ DispatchSend(j) \/ DispatchFail(j)
    \/ \E key \in Agent \cup Job : JobDone(key)

Spec == Init /\ [][Next]_rvars

-----------------------------------------------------------------------------
(* Properties *)

\* WithinCapacity: the master never counts more jobs on a connection than its
\* agent declared, although the check of leastLoaded and the increment after
\* Send are two steps (registry.go:58-66, 82).
WithinCapacity == \A c \in Conn : active[c] <= Capacity[Owner[c]]

\* EntryHasHandler: whatever the order of connects and disconnects, every
\* entry of the map has a Register call behind it that will still delete it: no
\* entry is leaked (registry.go:36, 45).
EntryHasHandler == \A a \in Agent : agents[a] # None => handler[agents[a]] = "wait"

\* PickStaysLeastLoaded: at the moment of the send the chosen agent is still
\* one with spare capacity and no listed one has fewer jobs ("the least-loaded
\* connected agent", registry.go:52): nothing moves while mu is held.
PickStaysLeastLoaded ==
    \A j \in Job : disp[j].pc = "send" => disp[j].conn \in leastLoaded

\* DeadStreamsLeave: a connection whose stream has ended leaves the map.
DeadStreamsLeave == \A c \in Conn : stream[c] = "closed" ~> c \notin Listed

\* ConnectedListed: an agent with a registered, open stream is listed.
ConnectedListed ==
    \A c \in Conn : handler[c] = "wait" /\ stream[c] = "open" =>
      agents[Owner[c]] # None
=============================================================================
