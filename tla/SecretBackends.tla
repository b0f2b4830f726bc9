--------------------------- MODULE SecretBackends ---------------------------
(***************************************************************************)
(* The secret backends that are services: Vault, GCP Secret Manager and    *)
(* the AWS parameter store (internal/secrets/vault.go, gcp.go, awsssm.go). *)
(* A call makes one request, Set of the GCP backend two.  The service may  *)
(* refuse a request, its answer may be lost, and it may do a request long  *)
(* after the caller has given it up: the call cannot tell.                 *)
(*                                                                         *)
(* The client of the parameter store is made with the default retryer      *)
(* (awsssm.go:20-24), which sends any request again that failed on the     *)
(* way.  The HTTP client of Vault and the GCP client do so for reads only. *)
(* How often they try is left open.                                        *)
(***************************************************************************)
CONSTANTS
    Caller,     \* goroutines that call the backend
    Secret,     \* names of secrets
    Datum,      \* values
    NoValue     \* no value

\* What an entry can be instead of a value.
NoDatum == {"absent", "bare", "foreign"}

ASSUME DatumAssumption == (NoDatum \cup {NoValue}) \cap Datum = {}

VARIABLES
    backend,    \* which implementation the program uses
    entry,      \* entry[n]: what the service keeps under the name: a value, "absent",
                \* "bare" (a secret of GCP without a version) or "foreign" (another
                \* program's, without the field "value")
    call,       \* call[c]: the call caller c makes
    lost        \* requests given up that the service may still do; equal ones count
                \* as one, which it may do more than once

bvars == <<backend, entry, call, lost>>

\* What can be read under a name.
Stored(e) == IF e \in Datum THEN e ELSE NoValue

\* A call: the request that is on its way or answered, what came back, whether
\* the request is still out without an answer, and whether the service has done
\* what the call is for (history).
Idle(n) == [pc |-> "idle", op |-> "Get", name |-> n, value |-> NoValue,
            request |-> "none", status |-> "none", out |-> FALSE,
            took |-> FALSE, ok |-> FALSE]

BackendsInit ==
    /\ backend \in {"vault", "gcp", "ssm"}
    /\ entry = [n \in Secret |-> "absent"]
    /\ \E n \in Secret : call = [c \in Caller |-> Idle(n)]
    /\ lost = {}

-----------------------------------------------------------------------------
(* The services *)

\* Another program writes to the mount of Vault, under a name that is free.
Foreign(n) ==
    /\ backend = "vault" /\ entry[n] = "absent"
    /\ entry' = [entry EXCEPT ![n] = "foreign"]
    /\ UNCHANGED <<backend, call, lost>>

\* What a request finds and leaves under its name.
Answer(request, e) ==
    CASE request = "read" -> IF e \in Datum \cup {"foreign"} THEN "ok" ELSE "missing"
      [] request = "put" -> "ok"
      [] request = "create" -> IF e = "absent" THEN "ok" ELSE "exists"
      [] request \in {"add", "remove"} -> IF e = "absent" THEN "missing" ELSE "ok"

Leaves(request, e, v) ==
    CASE request = "read" -> e
      [] request = "put" -> v
      [] request = "create" -> IF e = "absent" THEN "bare" ELSE e
      [] request = "add" -> IF e = "absent" THEN e ELSE v
      [] request = "remove" -> "absent"

\* The service does what it is asked, and says so unless the answer is lost.
ServiceDoes(c) ==
    /\ call[c].pc = "sent"
    /\ LET r == call[c]
           answer == Answer(r.request, entry[r.name])
       IN /\ entry' = [entry EXCEPT ![r.name] = Leaves(r.request, @, r.value)]
          /\ \E status \in {answer, "failed"} : call' = [call EXCEPT
               ![c].pc = "answered", ![c].status = status,
               ![c].took = \/ @
                           \/ r.request \in {"read", "put", "remove"}
                           \/ r.request = "add" /\ answer = "ok",
               ![c].value = IF r.request = "read" THEN Stored(entry[r.name]) ELSE @]
    /\ UNCHANGED <<backend, lost>>

\* It answers with an error of its own, or nothing comes back from it: then the
\* request, unless it is a read, may still be done.
ServiceFails(c) ==
    /\ call[c].pc = "sent"
    /\ \E out \in BOOLEAN :
         /\ out => call[c].request # "read"
         /\ call' = [call EXCEPT ![c].pc = "answered", ![c].status = "failed",
                                 ![c].out = out]
    /\ UNCHANGED <<backend, entry, lost>>

\* What a call leaves behind when it goes on without an answer.
Left(r) ==
    IF r.out THEN {[request |-> r.request, name |-> r.name, value |-> r.value]} ELSE {}

\* The service does a request nobody waits for.
ServiceDoesLate(q) ==
    /\ q \in lost
    /\ entry' = [entry EXCEPT ![q.name] = Leaves(q.request, @, q.value)]
    /\ lost' \in {lost, lost \ {q}}
    /\ UNCHANGED <<backend, call>>

-----------------------------------------------------------------------------
(* The backends *)

\* The (first) request of an operation.
FirstRequest(o) == CASE o = "Get" -> "read"
                     [] o = "Delete" -> "remove"
                     [] o = "Set" -> IF backend = "gcp" THEN "create" ELSE "put"

CallBackend(c, o, n, v) ==
    /\ call[c].pc \in {"idle", "returned"}
    /\ v \in Datum <=> o = "Set"
    /\ call' = [call EXCEPT ![c] = [pc |-> "sent", op |-> o, name |-> n, value |-> v,
         request |-> FirstRequest(o), status |-> "none", out |-> FALSE,
         took |-> FALSE, ok |-> FALSE]]
    /\ UNCHANGED <<backend, entry, lost>>

\* The client library sends the request again.
Resend(c) ==
    /\ call[c].pc = "answered" /\ call[c].status = "failed"
    /\ backend = "ssm" \/ call[c].request = "read"
    /\ call' = [call EXCEPT ![c].pc = "sent", ![c].status = "none", ![c].out = FALSE]
    /\ lost' = lost \cup Left(call[c])
    /\ UNCHANGED <<backend, entry>>

Answered(c, b, request) ==
    call[c].pc = "answered" /\ backend = b /\ call[c].request = request

\* The call returns; its error is nil where ok.
Returns(c, ok) ==
    /\ call' = [call EXCEPT ![c].pc = "returned", ![c].ok = ok, ![c].out = FALSE]
    /\ lost' = lost \cup Left(call[c])
    /\ UNCHANGED <<backend, entry>>

\* The response must have the field "value".
VaultGet(c) == Answered(c, "vault", "read")
               /\ Returns(c, call[c].status = "ok" /\ call[c].value # NoValue)
VaultSet(c) == Answered(c, "vault", "put") /\ Returns(c, call[c].status = "ok")
\* 404 is not an error.
VaultDelete(c) == Answered(c, "vault", "remove")
                  /\ Returns(c, call[c].status \in {"ok", "missing"})

SSMGet(c) == Answered(c, "ssm", "read") /\ Returns(c, call[c].status = "ok")
SSMSet(c) == Answered(c, "ssm", "put") /\ Returns(c, call[c].status = "ok")
SSMDelete(c) == Answered(c, "ssm", "remove") /\ Returns(c, call[c].status = "ok")

GCPGet(c) == Answered(c, "gcp", "read") /\ Returns(c, call[c].status = "ok")

\* A secret that exists is taken for the outcome of the call.
MutGCPSetCreated(c) ==
    /\ Answered(c, "gcp", "create")
    /\ IF call[c].status = "ok"
       THEN call' = [call EXCEPT ![c].pc = "sent", ![c].request = "add"]
            /\ UNCHANGED <<backend, entry, lost>>
       ELSE Returns(c, call[c].status = "exists")

\* The secret exists now, or did already: its version is added.
GCPSetCreated(c) ==
    /\ Answered(c, "gcp", "create")
    /\ IF call[c].status \in {"ok", "exists"}
       THEN call' = [call EXCEPT ![c].pc = "sent", ![c].request = "add"]
            /\ UNCHANGED <<backend, entry, lost>>
       ELSE Returns(c, FALSE)

GCPSetAdded(c) == Answered(c, "gcp", "add") /\ Returns(c, call[c].status = "ok")
GCPDelete(c) == Answered(c, "gcp", "remove") /\ Returns(c, call[c].status = "ok")

-----------------------------------------------------------------------------
BackendsNext ==
    \/ \E n \in Secret : Foreign(n)
    \/ \E q \in lost : ServiceDoesLate(q)
    \/ \E c \in Caller :
         \/ \E o \in {"Get", "Set", "Delete"}, n \in Secret, v \in Datum \cup {NoValue} :
              CallBackend(c, o, n, v)
         \/ ServiceDoes(c) \/ ServiceFails(c) \/ Resend(c)
         \/ VaultGet(c) \/ VaultSet(c) \/ VaultDelete(c)
         \/ SSMGet(c) \/ SSMSet(c) \/ SSMDelete(c)
         \/ GCPGet(c) \/ GCPSetCreated(c) \/ GCPSetAdded(c) \/ GCPDelete(c)

BackendsSpec == BackendsInit /\ [][BackendsNext]_bvars

-----------------------------------------------------------------------------
(* Properties *)

\* A call has had an effect from the moment the service did what it is for.
Abstracted(r) ==
    [pc |-> CASE r.pc = "idle" -> "idle"
              [] r.pc = "returned" -> IF r.ok THEN "succeeded" ELSE "failed"
              [] OTHER -> IF r.took THEN "done" ELSE "called",
     op |-> r.op, name |-> r.name, value |-> r.value]

\* The writes that may still come. A secret GCP creates late has no version.
LateWrites == {[name |-> q.name, value |-> q.value] : q \in
                 {r \in lost : r.request # "create"}}

Promise == INSTANCE SecretStore WITH
    resends <- (backend = "ssm"),
    register <- [n \in Secret |-> Stored(entry[n])],
    op <- [c \in Caller |-> Abstracted(call[c])],
    late <- LateWrites

\* BackendsImplement: whatever is refused, lost, late or sent again, and however
\* the calls of several goroutines overlap, the backends keep the promise of the
\* interface. With Vault and GCP a Set or Delete that returns nil has been done
\* once, at one moment of the call, and with the parameter store at least once; a
\* Get returns what was stored at a moment of the call; what comes late is a write
\* of a call that got no answer; and the secret that GCP's Set creates first is
\* never read without its version (backend.go:7-11, vault.go:38-112,
\* gcp.go:32-81, awsssm.go:20-63).
BackendsImplement == Promise!Spec
=============================================================================
