--------------------------------- MODULE Bus ---------------------------------
(***************************************************************************)
(* The event bus (internal/bus/bus.go).  Publish copies the handlers of a  *)
(* type under the read lock and calls them, one after the other, on its    *)
(* own goroutine and without the lock; a handler may publish or subscribe  *)
(* itself.  A Lock that waits keeps new readers out, as sync.RWMutex does. *)
(* The master publishes and has no subscribers of its own: who subscribes, *)
(* and what a handler does, are parameters.                                *)
(***************************************************************************)
EXTENDS Naturals, Sequences

CONSTANTS
    Thread,     \* goroutines
    Handler,    \* handlers
    EventType,  \* event types
    Task,       \* Task[t]: the call goroutine t makes
    Reaction    \* Reaction[h]: the calls handler h makes, a sequence

\* A call of Subscribe (handler and types) or of Publish (type).
Calls == [op : {"Subscribe"}, h : Handler, types : SUBSET EventType]
         \cup [op : {"Publish"}, type : EventType]

ASSUME TaskAssumption == Task \in [Thread -> Calls]
ASSUME ReactionAssumption == \A h \in Handler : Reaction[h] \in Seq(Calls)

VARIABLES
    handlers,   \* handlers[e]: the handlers registered for e, in order
    readers,    \* goroutines that hold the read lock
    writer,     \* goroutines that hold the lock, at most one
    waiting,    \* goroutines whose Lock waits
    frames,     \* frames[t]: the calls goroutine t is in, the innermost last
    subscribed  \* history: handler and type of every Subscribe that returned

busvars == <<handlers, readers, writer, waiting, frames, subscribed>>

\* A call at its beginning. todo: what is left to be called, must (history): the
\* handlers whose Subscribe had returned when the Publish got the read lock.
Frame(call) ==
    [call |-> call, pc |-> "begin", todo |-> <<>>, called |-> {}, must |-> {}]

BusInit ==
    /\ handlers = [e \in EventType |-> <<>>]
    /\ readers = {} /\ writer = {} /\ waiting = {}
    /\ subscribed = {}
    /\ frames = [t \in Thread |-> <<Frame(Task[t])>>]

At(t, op, pc) ==
    /\ frames[t] # <<>>
    /\ LET f == frames[t][Len(frames[t])] IN f.call.op = op /\ f.pc = pc
Current(t) == frames[t][Len(frames[t])]
Change(t, f) == frames' = [frames EXCEPT ![t][Len(frames[t])] = f]
Pop(t) == frames' = [frames EXCEPT ![t] = SubSeq(@, 1, Len(@) - 1)]

-----------------------------------------------------------------------------
(* Subscribe *)

SubscribeLock(t) ==
    /\ At(t, "Subscribe", "begin")
    /\ waiting' = waiting \cup {t}
    /\ Change(t, [Current(t) EXCEPT !.pc = "lock"])
    /\ UNCHANGED <<handlers, readers, writer, subscribed>>

SubscribeLocked(t) ==
    /\ At(t, "Subscribe", "lock")
    /\ readers = {} /\ writer = {}
    /\ writer' = {t} /\ waiting' = waiting \ {t}
    /\ Change(t, [Current(t) EXCEPT !.pc = "append"])
    /\ UNCHANGED <<handlers, readers, subscribed>>

\* The handlers a type had are lost.
MutSubscribeAppend(t) ==
    /\ At(t, "Subscribe", "append")
    /\ handlers' = [e \in EventType |->
         IF e \in Current(t).call.types THEN <<Current(t).call.h>> ELSE handlers[e]]
    /\ writer' = {}
    /\ subscribed' = subscribed \cup ({Current(t).call.h} \X Current(t).call.types)
    /\ Pop(t)
    /\ UNCHANGED <<readers, waiting>>

\* Under the lock, for all types; the deferred Unlock.
SubscribeAppend(t) ==
    /\ At(t, "Subscribe", "append")
    /\ handlers' = [e \in EventType |->
         IF e \in Current(t).call.types THEN Append(handlers[e], Current(t).call.h)
         ELSE handlers[e]]
    /\ writer' = {}
    /\ subscribed' = subscribed \cup ({Current(t).call.h} \X Current(t).call.types)
    /\ Pop(t)
    /\ UNCHANGED <<readers, waiting>>

-----------------------------------------------------------------------------
(* Publish *)

PublishRLock(t) ==
    /\ At(t, "Publish", "begin")
    /\ writer = {} /\ waiting = {}
    /\ readers' = readers \cup {t}
    /\ Change(t, [Current(t) EXCEPT !.pc = "read",
         !.must = {h \in Handler : <<h, Current(t).call.type>> \in subscribed}])
    /\ UNCHANGED <<handlers, writer, waiting, subscribed>>

\* The read lock is kept until the handlers have returned.
MutPublishRead(t) ==
    /\ At(t, "Publish", "read")
    /\ Change(t, [Current(t) EXCEPT !.pc = "call",
                                    !.todo = handlers[Current(t).call.type]])
    /\ UNCHANGED <<handlers, readers, writer, waiting, subscribed>>

PublishRead(t) ==
    /\ At(t, "Publish", "read")
    /\ readers' = readers \ {t}
    /\ Change(t, [Current(t) EXCEPT !.pc = "call",
                                    !.todo = handlers[Current(t).call.type]])
    /\ UNCHANGED <<handlers, writer, waiting, subscribed>>

\* The next handler is called: its calls are made first, in their order.
PublishCall(t) ==
    /\ At(t, "Publish", "call") /\ Current(t).todo # <<>>
    /\ LET f == Current(t)
           h == Head(f.todo)
           calls == Reaction[h]
       IN frames' = [frames EXCEPT ![t] =
            Append(SubSeq(@, 1, Len(@) - 1),
                   [f EXCEPT !.todo = Tail(@), !.called = @ \cup {h}])
            \o [i \in 1..Len(calls) |-> Frame(calls[Len(calls) + 1 - i])]]
    /\ UNCHANGED <<handlers, readers, writer, waiting, subscribed>>

PublishReturn(t) ==
    /\ At(t, "Publish", "call") /\ Current(t).todo = <<>>
    /\ Pop(t)
    /\ UNCHANGED <<handlers, readers, writer, waiting, subscribed>>

-----------------------------------------------------------------------------
BusStep(t) ==
    \/ SubscribeLock(t) \/ SubscribeLocked(t) \/ SubscribeAppend(t)
    \/ PublishRLock(t) \/ PublishRead(t) \/ PublishCall(t) \/ PublishReturn(t)

BusNext == \E t \in Thread : BusStep(t)

\* Goroutines run.
BusFairness == \A t \in Thread : WF_busvars(BusStep(t))

BusSpec == BusInit /\ [][BusNext]_busvars /\ BusFairness

-----------------------------------------------------------------------------
(* Properties *)

\* NoEventMissed: a Publish that is done has called every handler whose
\* Subscribe had returned when the Publish got the read lock, however many
\* Subscribes and Publishes overlapped, those of handlers included
\* (bus.go:40-46, 50-57).
NoEventMissed ==
    \A t \in Thread : At(t, "Publish", "call") /\ Current(t).todo = <<>> =>
      Current(t).must \subseteq Current(t).called

\* CallsReturn: every call returns, although handlers call the bus they are
\* called by, and although a Lock waits for readers that wait for it
\* (bus.go:41, 50-52).
CallsReturn == <>(\A t \in Thread : frames[t] = <<>>)
=============================================================================
