----------------------------- MODULE SecretStore -----------------------------
(***************************************************************************)
(* What SecretBackend promises (internal/secrets/backend.go): the secrets  *)
(* are registers.  A Set or Delete has its effect at one moment, or never; *)
(* one that returns no error has had it, and a Get that returns no error   *)
(* returns what the register held at one moment of the call.  An error     *)
(* says nothing: what the call was for may have been done, and it may come *)
(* late.  Where requests are sent again a call may have its effect several *)
(* times, and late also when it returned no error.                         *)
(***************************************************************************)
CONSTANTS Caller, Secret, Datum, NoValue

VARIABLES
    resends,    \* whether writes are sent again
    register,   \* register[n]: the value of secret n, or NoValue
    op,         \* op[c]: the call caller c makes
    late        \* writes that may still come

Init ==
    /\ resends \in BOOLEAN
    /\ register = [n \in Secret |-> NoValue]
    /\ op \in [Caller -> [pc : {"idle"}, op : {"Get"}, name : Secret,
                          value : {NoValue}]]
    /\ late = {}

Begin(c) ==
    /\ op[c].pc \in {"idle", "succeeded", "failed"}
    /\ \E o \in {"Get", "Set", "Delete"}, n \in Secret, v \in Datum \cup {NoValue} :
         /\ v \in Datum <=> o = "Set"
         /\ op' = [op EXCEPT ![c] = [pc |-> "called", op |-> o, name |-> n,
                                     value |-> v]]
    /\ UNCHANGED <<resends, register, late>>

Effect(c) ==
    /\ op[c].pc = "called" \/ (op[c].pc = "done" /\ (resends \/ op[c].op = "Get"))
    /\ LET o == op[c] IN
         /\ register' = IF o.op = "Get" THEN register
                        ELSE [register EXCEPT ![o.name] = o.value]
         /\ op' = [op EXCEPT ![c] =
              [pc |-> "done", op |-> o.op, name |-> o.name,
               value |-> IF o.op = "Get" THEN register[o.name] ELSE o.value]]
    /\ UNCHANGED <<resends, late>>

\* What is left of the call c when it goes on without an answer.
Write(c) ==
    IF op[c].op = "Get" THEN {} ELSE {[name |-> op[c].name, value |-> op[c].value]}

Resend(c) ==
    /\ resends /\ op[c].pc \in {"called", "done"}
    /\ late' = late \cup Write(c)
    /\ UNCHANGED <<resends, register, op>>

Succeed(c) ==
    /\ op[c].pc = "done"
    /\ op[c].op = "Get" => op[c].value # NoValue
    /\ op' = [op EXCEPT ![c].pc = "succeeded"]
    /\ UNCHANGED <<resends, register, late>>

Fail(c) ==
    /\ op[c].pc \in {"called", "done"}
    /\ op' = [op EXCEPT ![c].pc = "failed"]
    /\ \/ UNCHANGED late
       \/ /\ op[c].pc = "called" \/ resends
          /\ late' = late \cup Write(c)
    /\ UNCHANGED <<resends, register>>

Late(w) ==
    /\ w \in late
    /\ register' \in {register, [register EXCEPT ![w.name] = w.value]}
    /\ late' \subseteq late
    /\ UNCHANGED <<resends, op>>

Next ==
    \/ \E c \in Caller : Begin(c) \/ Effect(c) \/ Resend(c) \/ Succeed(c) \/ Fail(c)
    \/ \E w \in late : Late(w)

Spec == Init /\ [][Next]_<<resends, register, op, late>>
=============================================================================
