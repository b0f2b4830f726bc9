----------------------------- MODULE FleetProofs -----------------------------
(***************************************************************************)
(* Proofs about Registry, for any number of agents, connections and        *)
(* dispatches, any capacities, and any callers of JobDone; and about       *)
(* Fleet: the registry with real agents at the other end implements        *)
(* Registry, and so inherits what is shown of it, and what an agent has    *)
(* received on one connection never exceeds its capacity, provided that no *)
(* job has the id of an agent: JobDone would take it for that agent's.     *)
(***************************************************************************)
EXTENDS Fleet, FiniteSetTheorems, TLAPS

-----------------------------------------------------------------------------
(* Types of the registry *)

LEMMA TypeInit == Init => TypeOK
BY DEF Init, TypeOK

LEMMA TypeStep == TypeOK /\ [Next]_rvars => TypeOK'
<1> SUFFICES ASSUME TypeOK, [Next]_rvars
             PROVE  TypeOK'
  OBVIOUS
<1> USE OwnerAssumption, NoneAssumption DEF TypeOK
<1>1. ASSUME NEW c \in Conn, RegisterCall(c) \/ StreamEnds(c)
      PROVE  TypeOK'
  BY <1>1 DEF RegisterCall, StreamEnds
<1>2. ASSUME NEW c \in Conn, RegisterInsert(c) \/ RegisterDelete(c)
      PROVE  TypeOK'
  BY <1>2 DEF RegisterInsert, RegisterDelete
<1>3. ASSUME NEW j \in Job, DispatchNone(j) \/ DispatchFail(j)
      PROVE  TypeOK'
  BY <1>3 DEF DispatchNone, DispatchFail
<1>4. ASSUME NEW j \in Job, DispatchPick(j)
      PROVE  TypeOK'
  <2>1. PICK c \in leastLoaded :
          disp' = [disp EXCEPT ![j] = [pc |-> "send", conn |-> c]]
    BY <1>4 DEF DispatchPick
  <2>2. c \in Conn
    BY <2>1 DEF leastLoaded, Listed
  <2> QED
    BY <1>4, <2>1, <2>2 DEF DispatchPick
<1>5. ASSUME NEW j \in Job, DispatchSend(j)
      PROVE  TypeOK'
  <2>1. active' \in [Conn -> Nat]
    <3>1. CASE disp[j].conn \in Conn
      BY <1>5, <3>1 DEF DispatchSend
    <3>2. CASE disp[j].conn \notin Conn
      <4>1. active' = active
        BY <1>5, <3>2 DEF DispatchSend
      <4> QED
        BY <4>1
    <3> QED
      BY <3>1, <3>2
  <2> QED
    BY <1>5, <2>1 DEF DispatchSend
<1>6. ASSUME NEW key \in Agent \cup Job, JobDone(key)
      PROVE  TypeOK'
  <2>1. active' \in [Conn -> Nat]
    BY <1>6 DEF JobDone
  <2> QED
    BY <1>6, <2>1 DEF JobDone
<1>7. CASE UNCHANGED rvars
  BY <1>7 DEF rvars
<1> QED
  BY <1>1, <1>2, <1>3, <1>4, <1>5, <1>6, <1>7 DEF Next

\* TypeCorrect: the map, the counts and the calls keep their types, and an
\* entry of the map is always a connection of the agent it is listed under.
THEOREM TypeCorrect == Spec => []TypeOK
BY TypeInit, TypeStep, PTL DEF Spec

-----------------------------------------------------------------------------
(* The invariant: the mutex is held by whoever is sending, the connection   *)
(* it sends on has room, and the entries of the map have their handlers.    *)

SenderHoldsMutex == \A j \in Job : disp[j].pc = "send" => mu = j

IInv ==
    /\ TypeOK
    /\ SenderHoldsMutex
    /\ PickStaysLeastLoaded
    /\ WithinCapacity
    /\ EntryHasHandler

LEMMA IInvInit == Init => IInv
BY TypeInit, OwnerAssumption, CapacityAssumption
   DEF Init, IInv, SenderHoldsMutex, PickStaysLeastLoaded, WithinCapacity,
       EntryHasHandler

\* Steps that leave the map and the counts alone and send nothing keep the
\* choice of the sender.
LEMMA PickKept ==
    ASSUME PickStaysLeastLoaded, UNCHANGED <<agents, active>>,
           \A j \in Job : disp'[j].pc = "send" => disp'[j] = disp[j]
    PROVE  PickStaysLeastLoaded'
BY DEF PickStaysLeastLoaded, leastLoaded, Listed, Spare

LEMMA IInvStep == IInv /\ [Next]_rvars => IInv'
<1> SUFFICES ASSUME IInv, [Next]_rvars
             PROVE  IInv'
  OBVIOUS
<1>0. TypeOK /\ TypeOK'
  BY TypeStep DEF IInv
<1> USE OwnerAssumption, CapacityAssumption, NoneAssumption
<1>1. ASSUME NEW c \in Conn, RegisterCall(c) \/ StreamEnds(c)
      PROVE  IInv'
  <2>1. UNCHANGED <<agents, active, mu, disp>>
    BY <1>1 DEF RegisterCall, StreamEnds
  <2>2. PickStaysLeastLoaded'
    BY <2>1, PickKept DEF IInv
  <2>3. EntryHasHandler'
    BY <1>0, <1>1, <2>1 DEF RegisterCall, StreamEnds, IInv, TypeOK, EntryHasHandler
  <2> QED
    BY <1>0, <2>1, <2>2, <2>3 DEF IInv, SenderHoldsMutex, WithinCapacity
<1>2. ASSUME NEW c \in Conn, RegisterInsert(c) \/ RegisterDelete(c)
      PROVE  IInv'
  <2>1. UNCHANGED <<mu, disp>> /\ mu = None
    BY <1>2 DEF RegisterInsert, RegisterDelete, Unlocked
  <2>2. SenderHoldsMutex' /\ PickStaysLeastLoaded'
    BY <2>1 DEF IInv, SenderHoldsMutex, PickStaysLeastLoaded
  <2>3. WithinCapacity'
    BY <1>0, <1>2 DEF RegisterInsert, RegisterDelete, IInv, TypeOK, WithinCapacity
  <2>4. EntryHasHandler'
    BY <1>0, <1>2 DEF RegisterInsert, RegisterDelete, IInv, TypeOK, EntryHasHandler
  <2> QED
    BY <1>0, <2>2, <2>3, <2>4 DEF IInv
<1>3. ASSUME NEW j \in Job, DispatchNone(j) \/ DispatchFail(j)
      PROVE  IInv'
  <2>1. /\ UNCHANGED <<agents, active, handler>>
        /\ disp'[j].pc = "failed"
        /\ \A k \in Job : k # j => disp'[k] = disp[k]
        /\ mu' = mu \/ (mu' = None /\ disp[j].pc = "send")
    BY <1>0, <1>3 DEF DispatchNone, DispatchFail, TypeOK
  <2>2. PickStaysLeastLoaded'
    BY <2>1, PickKept DEF IInv
  <2>3. SenderHoldsMutex'
    BY <2>1 DEF IInv, SenderHoldsMutex
  <2> QED
    BY <1>0, <2>1, <2>2, <2>3 DEF IInv, WithinCapacity, EntryHasHandler
<1>4. ASSUME NEW j \in Job, DispatchPick(j)
      PROVE  IInv'
  <2>1. PICK c \in leastLoaded :
          disp' = [disp EXCEPT ![j] = [pc |-> "send", conn |-> c]]
    BY <1>4 DEF DispatchPick
  <2>2. /\ UNCHANGED <<agents, active, handler>> /\ mu = None /\ mu' = j
    BY <1>4 DEF DispatchPick, Unlocked
  <2>3. \A k \in Job : k # j => disp[k].pc # "send" /\ disp'[k] = disp[k]
    BY <1>0, <2>1, <2>2 DEF IInv, SenderHoldsMutex, TypeOK
  <2>4. SenderHoldsMutex'
    BY <2>2, <2>3 DEF SenderHoldsMutex
  <2>5. disp'[j].conn = c
    BY <1>0, <2>1 DEF TypeOK
  <2>6. PickStaysLeastLoaded'
    BY <2>1, <2>2, <2>3, <2>5 DEF PickStaysLeastLoaded, leastLoaded, Listed, Spare
  <2> QED
    BY <1>0, <2>2, <2>4, <2>6 DEF IInv, WithinCapacity, EntryHasHandler
<1>5. ASSUME NEW j \in Job, DispatchSend(j)
      PROVE  IInv'
  <2>1. PICK c \in Conn : c = disp[j].conn /\ Spare(c)
    <3>1. disp[j].conn \in leastLoaded
      BY <1>5 DEF DispatchSend, IInv, PickStaysLeastLoaded
    <3> QED
      BY <1>0, <3>1 DEF leastLoaded, Listed, TypeOK
  <2>2. /\ UNCHANGED <<agents, handler>>
        /\ active' = [active EXCEPT ![c] = @ + 1]
        /\ disp'[j].pc = "sent"
        /\ \A k \in Job : k # j => disp'[k] = disp[k] /\ disp[k].pc # "send"
    BY <1>0, <1>5, <2>1 DEF DispatchSend, TypeOK, IInv, SenderHoldsMutex
  <2>3. SenderHoldsMutex' /\ PickStaysLeastLoaded'
    BY <2>2 DEF SenderHoldsMutex, PickStaysLeastLoaded
  <2>4. WithinCapacity'
    BY <1>0, <2>1, <2>2 DEF IInv, TypeOK, WithinCapacity, Spare
  <2> QED
    BY <1>0, <2>2, <2>3, <2>4 DEF IInv, EntryHasHandler
<1>6. ASSUME NEW key \in Agent \cup Job, JobDone(key)
      PROVE  IInv'
  <2>1. UNCHANGED <<agents, handler, mu, disp>> /\ mu = None
    BY <1>6 DEF JobDone, Unlocked
  <2>2. \A c \in Conn : active'[c] <= active[c]
    BY <1>0, <1>6 DEF JobDone, TypeOK
  <2>3. WithinCapacity'
    BY <1>0, <2>2 DEF IInv, TypeOK, WithinCapacity
  <2>4. SenderHoldsMutex' /\ PickStaysLeastLoaded'
    BY <2>1 DEF IInv, SenderHoldsMutex, PickStaysLeastLoaded
  <2> QED
    BY <1>0, <2>1, <2>3, <2>4 DEF IInv, EntryHasHandler
<1>7. CASE UNCHANGED rvars
  <2>1. PickStaysLeastLoaded'
    BY <1>7, PickKept DEF IInv, rvars
  <2> QED
    BY <1>0, <1>7, <2>1
       DEF rvars, IInv, SenderHoldsMutex, WithinCapacity, EntryHasHandler
<1> QED
  BY <1>1, <1>2, <1>3, <1>4, <1>5, <1>6, <1>7 DEF Next

LEMMA IInvAlways == Spec => []IInv
BY IInvInit, IInvStep, PTL DEF Spec

\* CapacityKept: no connection is ever counted above its agent's capacity, for
\* any interleaving of dispatches, reconnects and results.
THEOREM CapacityKept == Spec => []WithinCapacity
<1>1. IInv => WithinCapacity
  BY DEF IInv
<1> QED
  BY <1>1, IInvAlways, PTL

\* NoLeakedEntries: every entry of the map is owned by a Register call that is
\* still waiting for its stream to end.
THEOREM NoLeakedEntries == Spec => []EntryHasHandler
<1>1. IInv => EntryHasHandler
  BY DEF IInv
<1> QED
  BY <1>1, IInvAlways, PTL

\* ChoiceHolds: between the choice of leastLoaded and the send nothing makes
\* the choice wrong, because Dispatch keeps the mutex.
THEOREM ChoiceHolds == Spec => []PickStaysLeastLoaded
<1>1. IInv => PickStaysLeastLoaded
  BY DEF IInv
<1> QED
  BY <1>1, IInvAlways, PTL

-----------------------------------------------------------------------------
(* The fleet implements the registry *)

\* Every step of the fleet is a step of the registry or leaves it alone.
LEMMA FleetStep == [FleetNext]_fvars => [Next]_rvars
<1> SUFFICES ASSUME [FleetNext]_fvars PROVE [Next]_rvars
  OBVIOUS
<1>1. CASE RegistryStep
  BY <1>1 DEF RegistryStep, Next
<1>2. CASE \E c \in Conn : connect(c)
  BY <1>2 DEF connect, Next
<1>3. CASE \E a \in Agent : Disconnect(a)
  BY <1>3 DEF Disconnect
<1>4. ASSUME NEW j \in Job, Deliver(j) \/ Recv(j) \/ JobFinish(j) \/ SendResult(j)
                            \/ ResultLost(j)
      PROVE  [Next]_rvars
  <2>1. CASE Deliver(j)
    BY <2>1 DEF Deliver, Next
  <2>2. CASE SendResult(j)
    BY <2>2 DEF SendResult, Next
  <2>3. CASE Recv(j) \/ JobFinish(j) \/ ResultLost(j)
    BY <2>3 DEF Recv, JobFinish, ResultLost
  <2> QED
    BY <1>4, <2>1, <2>2, <2>3
<1>5. CASE UNCHANGED fvars
  BY <1>5 DEF fvars, rvars
<1> QED
  BY <1>1, <1>2, <1>3, <1>4, <1>5 DEF FleetNext

\* FleetRefines: whatever agents, connections and lost results do, the registry
\* takes only the steps of its own specification (registry.go:32-99 under
\* agent.go:31-110 and server.go:138-162).
THEOREM FleetRefines == FleetSpec => ImplementsRegistry
<1>1. FleetInit => Init
  BY DEF FleetInit
<1> QED
  BY <1>1, FleetStep, PTL DEF FleetSpec, ImplementsRegistry, Spec

-----------------------------------------------------------------------------
(* The type invariant. *)

LEMMA FleetTypeStep ==
    ASSUME FleetTypeOK, TypeOK', [FleetNext]_fvars
    PROVE  FleetTypeOK'
<1> USE OwnerAssumption, NoneAssumption
<1>0. /\ TypeOK /\ session \in [Agent -> Conn \cup {None}]
      /\ \A a \in Agent : session[a] # None => Owner[session[a]] = a
      /\ job \in [Job -> JobState]
      /\ \A j \in Job : job[j] # "none" <=> disp[j].pc = "sent"
  BY DEF FleetTypeOK
<1>1. CASE RegistryStep
  <2>1. UNCHANGED <<session, job>>
    BY <1>1 DEF RegistryStep
  <2>2. \A j \in Job : disp'[j].pc = "sent" <=> disp[j].pc = "sent"
    <3>1. ASSUME NEW c \in Conn,
                 RegisterInsert(c) \/ RegisterDelete(c) \/ StreamEnds(c)
          PROVE  disp' = disp
      BY <3>1 DEF RegisterInsert, RegisterDelete, StreamEnds
    <3>2. ASSUME NEW k \in Job, DispatchNone(k) \/ DispatchPick(k) \/ DispatchFail(k),
                 NEW j \in Job
          PROVE  disp'[j].pc = "sent" <=> disp[j].pc = "sent"
      <4>1. disp \in [Job -> [pc : {"idle", "send", "sent", "failed"},
                              conn : Conn \cup {None}]]
        BY <1>0 DEF TypeOK
      <4> QED
        BY <3>2, <4>1 DEF DispatchNone, DispatchPick, DispatchFail
    <3> QED
      BY <1>1, <3>1, <3>2 DEF RegistryStep
  <2> QED
    BY <1>0, <2>1, <2>2 DEF FleetTypeOK
<1>2. ASSUME NEW c \in Conn, connect(c)
      PROVE  FleetTypeOK'
  BY <1>0, <1>2 DEF FleetTypeOK, connect, RegisterCall
<1>3. ASSUME NEW a \in Agent, Disconnect(a)
      PROVE  FleetTypeOK'
  <2>1. UNCHANGED disp /\ session' = [session EXCEPT ![a] = None]
    BY <1>3 DEF Disconnect, rvars
  <2>2. /\ job' \in [Job -> JobState]
        /\ \A j \in Job : job'[j] = "none" <=> job[j] = "none"
    BY <1>0, <1>3 DEF Disconnect, JobState
  <2> QED
    BY <1>0, <2>1, <2>2 DEF FleetTypeOK
<1>4. ASSUME NEW j \in Job, Deliver(j)
      PROVE  FleetTypeOK'
  <2>1. /\ UNCHANGED session
        /\ disp' = [disp EXCEPT ![j] = [pc |-> "sent", conn |-> disp[j].conn]]
        /\ \E s \in {"transit", "lost"} : job' = [job EXCEPT ![j] = s]
    BY <1>4 DEF Deliver, DispatchSend
  <2>2. disp \in [Job -> [pc : {"idle", "send", "sent", "failed"},
                          conn : Conn \cup {None}]]
    BY <1>0 DEF TypeOK
  <2>3. \A k \in Job : disp'[k].pc = IF k = j THEN "sent" ELSE disp[k].pc
    BY <2>1, <2>2
  <2> QED
    BY <1>0, <2>1, <2>3 DEF FleetTypeOK, JobState
<1>5. ASSUME NEW j \in Job, Recv(j) \/ JobFinish(j) \/ SendResult(j) \/ ResultLost(j)
      PROVE  FleetTypeOK'
  <2>1. UNCHANGED <<session, disp>>
    BY <1>5 DEF Recv, JobFinish, SendResult, ResultLost, JobDone, rvars
  <2>2. job[j] # "none" /\ \E s \in JobState \ {"none"} : job' = [job EXCEPT ![j] = s]
    BY <1>5 DEF Recv, JobFinish, SendResult, ResultLost, JobState
  <2> QED
    BY <1>0, <2>1, <2>2 DEF FleetTypeOK
<1>6. CASE UNCHANGED fvars
  BY <1>0, <1>6 DEF fvars, FleetTypeOK
<1> QED
  BY <1>1, <1>2, <1>3, <1>4, <1>5, <1>6 DEF FleetNext

-----------------------------------------------------------------------------
(* The count of a connection is the number of jobs sent on it. *)

Sent(c) == {j \in Job : disp[j].pc = "sent" /\ disp[j].conn = c}

\* Whoever is sending or has sent did so on a connection that is registered
\* by then, so that its count is not set to zero again.
Registered ==
    \A j \in Job : disp[j].pc \in {"send", "sent"} =>
      disp[j].conn \in Conn /\ handler[disp[j].conn] \in {"wait", "done"}

Counted == \A c \in Conn : IsFiniteSet(Sent(c)) /\ Cardinality(Sent(c)) = active[c]

FInv == IInv /\ FleetTypeOK /\ Registered /\ Counted

LEMMA FInvInit == FleetInit => FInv
<1> SUFFICES ASSUME FleetInit PROVE FInv
  OBVIOUS
<1>1. Init /\ session = [a \in Agent |-> None] /\ job = [j \in Job |-> "none"]
  BY DEF FleetInit
<1>2. IInv
  BY <1>1, IInvInit
<1>3. \A j \in Job : disp[j].pc = "idle"
  BY <1>1 DEF Init
<1>4. FleetTypeOK
  BY <1>1, <1>2, <1>3 DEF FleetTypeOK, IInv, JobState
<1>5. Registered
  BY <1>3 DEF Registered
<1>6. \A c \in Conn : Sent(c) = {} /\ active[c] = 0
  BY <1>1, <1>3 DEF Sent, Init
<1>7. Counted
  BY <1>6, FS_EmptySet DEF Counted
<1> QED
  BY <1>2, <1>4, <1>5, <1>7 DEF FInv

\* A step that neither sends nor registers keeps the counts.
LEMMA SameCounts ==
    ASSUME FInv, UNCHANGED active,
           \A j \in Job : \/ disp'[j] = disp[j]
                          \/ disp[j].pc # "sent" /\ disp'[j].pc # "sent"
    PROVE  Counted'
<1>1. \A c \in Conn : Sent(c)' = Sent(c)
  BY DEF Sent
<1> QED
  BY <1>1 DEF FInv, Counted

\* A handler never goes back behind its registration.
LEMMA SameRegistered ==
    ASSUME FInv, UNCHANGED disp,
           \A c \in Conn : handler[c] \in {"wait", "done"} =>
                            handler'[c] \in {"wait", "done"}
    PROVE  Registered'
BY DEF FInv, Registered

LEMMA FInvStep ==
    ASSUME Job \cap Agent = {}, FInv, [FleetNext]_fvars
    PROVE  FInv'
<1> USE OwnerAssumption, NoneAssumption
<1>0. IInv' /\ FleetTypeOK'
  <2>1. IInv'
    BY FleetStep, IInvStep DEF FInv
  <2> QED
    BY <2>1, FleetTypeStep DEF FInv, IInv
<1>1. /\ handler \in [Conn -> {"idle", "lock", "wait", "done"}]
      /\ active \in [Conn -> Nat]
      /\ disp \in [Job -> [pc : {"idle", "send", "sent", "failed"},
                           conn : Conn \cup {None}]]
  BY DEF FInv, IInv, TypeOK
<1> SUFFICES Registered' /\ Counted'
  BY <1>0 DEF FInv
<1>2. ASSUME NEW c \in Conn, RegisterCall(c) \/ RegisterDelete(c) \/ StreamEnds(c)
      PROVE  Registered' /\ Counted'
  <2>1. UNCHANGED <<active, disp>>
    BY <1>2 DEF RegisterCall, RegisterDelete, StreamEnds
  <2>2. \A d \in Conn : handler[d] \in {"wait", "done"} =>
                         handler'[d] \in {"wait", "done"}
    BY <1>1, <1>2 DEF RegisterCall, RegisterDelete, StreamEnds
  <2> QED
    BY <2>1, <2>2, SameCounts, SameRegistered
<1>3. ASSUME NEW c \in Conn, RegisterInsert(c)
      PROVE  Registered' /\ Counted'
  <2>1. /\ handler[c] = "lock" /\ UNCHANGED disp
        /\ active' = [active EXCEPT ![c] = 0]
        /\ handler' = [handler EXCEPT ![c] = "wait"]
    BY <1>3 DEF RegisterInsert
  <2>2. Sent(c) = {}
    BY <2>1 DEF Sent, FInv, Registered
  <2>3. active[c] = 0
    BY <2>2, FS_EmptySet DEF FInv, Counted
  <2>4. active' = active
    BY <1>1, <2>1, <2>3
  <2>5. \A d \in Conn : handler[d] \in {"wait", "done"} =>
                         handler'[d] \in {"wait", "done"}
    BY <1>1, <2>1
  <2> QED
    BY <2>1, <2>4, <2>5, SameCounts, SameRegistered
<1>4. ASSUME NEW k \in Job, DispatchNone(k) \/ DispatchPick(k) \/ DispatchFail(k)
      PROVE  Registered' /\ Counted'
  <2>1. UNCHANGED <<active, handler>>
    BY <1>4 DEF DispatchNone, DispatchPick, DispatchFail
  <2>2. \A j \in Job : j # k => disp'[j] = disp[j]
    BY <1>1, <1>4 DEF DispatchNone, DispatchPick, DispatchFail
  <2>3. disp[k].pc # "sent" /\ disp'[k].pc # "sent"
    BY <1>1, <1>4 DEF DispatchNone, DispatchPick, DispatchFail
  <2>4. disp'[k].pc = "send" => disp'[k].conn \in Conn /\ handler[disp'[k].conn] = "wait"
    <3>1. CASE DispatchPick(k)
      <4>1. disp'[k].conn \in Listed
        BY <1>1, <3>1 DEF DispatchPick, leastLoaded
      <4> QED
        BY <4>1 DEF FInv, IInv, TypeOK, EntryHasHandler, Listed
    <3>2. CASE DispatchNone(k) \/ DispatchFail(k)
      BY <1>1, <3>2 DEF DispatchNone, DispatchFail
    <3> QED
      BY <1>4, <3>1, <3>2
  <2>5. Registered'
    BY <2>1, <2>2, <2>3, <2>4 DEF FInv, Registered
  <2> QED
    BY <2>1, <2>2, <2>3, <2>5, SameCounts
<1>5. ASSUME NEW k \in Job, Deliver(k)
      PROVE  Registered' /\ Counted'
  <2>0. disp[k].pc = "send" /\ disp[k].conn \in Conn
        /\ handler[disp[k].conn] \in {"wait", "done"}
    BY <1>5 DEF Deliver, DispatchSend, FInv, Registered
  <2>1. PICK c \in Conn : c = disp[k].conn
    BY <2>0
  <2>2. /\ UNCHANGED handler
        /\ active' = [active EXCEPT ![c] = @ + 1]
        /\ disp' = [disp EXCEPT ![k] = [pc |-> "sent", conn |-> c]]
    BY <1>5, <2>1 DEF Deliver, DispatchSend
  <2>3. /\ disp'[k].pc = "sent" /\ disp'[k].conn = c
        /\ \A j \in Job : j # k => disp'[j] = disp[j]
    BY <1>1, <2>2
  <2>4. Registered'
    BY <2>0, <2>1, <2>2, <2>3 DEF FInv, Registered
  <2>5. k \notin Sent(c) /\ Sent(c)' = Sent(c) \cup {k}
    BY <2>0, <2>3 DEF Sent
  <2>6. \A d \in Conn : d # c => Sent(d)' = Sent(d)
    BY <2>0, <2>3 DEF Sent
  <2>7. IsFiniteSet(Sent(c)) /\ Cardinality(Sent(c)) = active[c]
    BY DEF FInv, Counted
  <2>8. IsFiniteSet(Sent(c) \cup {k}) /\ Cardinality(Sent(c) \cup {k}) = active[c] + 1
    BY <2>5, <2>7, FS_AddElement
  <2>9. ASSUME NEW d \in Conn
        PROVE  IsFiniteSet(Sent(d)') /\ Cardinality(Sent(d)') = active'[d]
    <3>1. CASE d = c
      BY <1>1, <2>2, <2>5, <2>8, <3>1
    <3>2. CASE d # c
      <4>1. active'[d] = active[d] /\ Sent(d)' = Sent(d)
        BY <1>1, <2>2, <2>6, <3>2
      <4> QED
        BY <4>1 DEF FInv, Counted
    <3> QED
      BY <3>1, <3>2
  <2> QED
    BY <2>4, <2>9 DEF Counted
<1>6. ASSUME NEW k \in Job, SendResult(k)
      PROVE  Registered' /\ Counted'
  <2>1. UNCHANGED <<handler, disp>>
    BY <1>6 DEF SendResult, JobDone
  <2>2. active' = active
    <3>1. \A d \in Conn : k # Owner[d]
      OBVIOUS
    <3>2. active' = [d \in Conn |->
             IF k = Owner[d] /\ agents[Owner[d]] = d /\ active[d] > 0
             THEN active[d] - 1 ELSE active[d]]
      BY <1>6 DEF SendResult, JobDone
    <3> QED
      BY <1>1, <3>1, <3>2
  <2> QED
    BY <2>1, <2>2, SameCounts, SameRegistered
<1>7. CASE UNCHANGED rvars
  BY <1>7, SameCounts, SameRegistered DEF rvars
<1>8. CASE RegistryStep
  BY <1>2, <1>3, <1>4, <1>8 DEF RegistryStep
<1>9. CASE \E d \in Conn : connect(d)
  BY <1>2, <1>9 DEF connect
<1>10. CASE \E a \in Agent : Disconnect(a)
  BY <1>7, <1>10 DEF Disconnect
<1>11. CASE \E j \in Job : Recv(j) \/ JobFinish(j) \/ ResultLost(j)
  BY <1>7, <1>11 DEF Recv, JobFinish, ResultLost
<1>12. CASE UNCHANGED fvars
  BY <1>7, <1>12 DEF fvars, rvars
<1> QED
  BY <1>5, <1>6, <1>8, <1>9, <1>10, <1>11, <1>12 DEF FleetNext

\* FleetTypes: as long as no job has the id of an agent, clients use connections
\* of their own and exactly the dispatches that were sent have a job.
THEOREM FleetTypes == (Job \cap Agent = {}) /\ FleetSpec => []FleetTypeOK
<1> SUFFICES ASSUME Job \cap Agent = {} PROVE FleetSpec => []FleetTypeOK
  OBVIOUS
<1>1. FInv /\ [FleetNext]_fvars => FInv'
  BY FInvStep
<1>2. FInv => FleetTypeOK
  BY DEF FInv
<1> QED
  BY <1>1, <1>2, FInvInit, PTL DEF FleetSpec

\* ConnectionsWithinCapacity: as long as no job has the id of an agent, the jobs
\* an agent holds by one connection never exceed its capacity, for any number
\* of agents, reconnects, lost jobs and lost results: they are among those the
\* registry has counted (registry.go:66, 82; agent.go:65-110).
THEOREM ConnectionsWithinCapacity ==
    (Job \cap Agent = {}) /\ FleetSpec => []ConnWithinCapacity
<1> SUFFICES ASSUME Job \cap Agent = {} PROVE FleetSpec => []ConnWithinCapacity
  OBVIOUS
<1>1. FInv /\ [FleetNext]_fvars => FInv'
  BY FInvStep
<1>2. ASSUME FInv
      PROVE  ConnWithinCapacity
  <2> SUFFICES ASSUME NEW c \in Conn
               PROVE  Cardinality(Busy(c)) <= Capacity[Owner[c]]
    BY DEF ConnWithinCapacity
  <2>1. Busy(c) \in SUBSET Sent(c)
    BY <1>2 DEF FInv, FleetTypeOK, Busy, Sent
  <2>2. IsFiniteSet(Sent(c)) /\ Cardinality(Sent(c)) = active[c]
    BY <1>2 DEF FInv, Counted
  <2>3. Cardinality(Busy(c)) <= active[c] /\ IsFiniteSet(Busy(c))
    BY <2>1, <2>2, FS_Subset
  <2>4. Cardinality(Busy(c)) \in Nat
    BY <2>3, FS_CardinalityType
  <2>5. /\ active[c] \in Nat /\ Capacity[Owner[c]] \in Nat
        /\ active[c] <= Capacity[Owner[c]]
    BY <1>2, OwnerAssumption, CapacityAssumption DEF FInv, IInv, WithinCapacity, TypeOK
  <2> QED
    BY <2>3, <2>4, <2>5
<1> QED
  BY <1>1, <1>2, FInvInit, PTL DEF FleetSpec
=============================================================================
