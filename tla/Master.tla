------------------------------- MODULE Master -------------------------------
(***************************************************************************)
(* The master process (cmd/master/main.go) around the run manager of       *)
(* Pipeline: startup, the gRPC and the HTTP server, the webhook handler    *)
(* (internal/webhook/handler.go), the signal, GracefulStop and Shutdown,   *)
(* and the next process on the same database.                              *)
(*                                                                         *)
(* A call of Start by the webhook runs under the context the signal        *)
(* cancels; one of SubmitPipeline under that of its RPC, which             *)
(* GracefulStop waits for; Advance under none.  NodeCompleted is not a     *)
(* part of this module: nothing in the master calls it.  CancelRun, one    *)
(* write that no part of this module looks at, is left to the runs of      *)
(* Pipeline.                                                               *)
(***************************************************************************)
EXTENDS Pipeline

CONSTANTS
    Delivery,      \* deliveries GitHub sends
    Request,       \* what a delivery may be
    Secret,        \* TRUE: GITHUB_WEBHOOK_SECRET is set
    ManualContext, \* RunContext{Event: "manual"}
    Submitted,     \* bound: runs that SubmitPipeline may start, of Run
    Peer,          \* clients that hold a gRPC stream open (agents, log viewers)
    MaxBoots,      \* bound: processes started one after the other
    MaxSends,      \* bound: times one delivery is sent
    NoRun          \* no run

\* A request with the parts of it the handler looks at: its method, whether
\* the body can be read, has the right signature and parses as a push, the
\* event header, and the context its ref makes.
RequestType == [post : BOOLEAN, readable : BOOLEAN, signed : BOOLEAN,
                event : {"push", "ping", "other"}, parses : BOOLEAN,
                ctx : Contexts]

ASSUME RequestAssumption == Request \subseteq RequestType
ASSUME ManualAssumption == ManualContext \in Contexts
ASSUME SecretAssumption == Secret \in BOOLEAN
ASSUME MasterBounds == MaxBoots \in Nat /\ MaxSends \in Nat
ASSUME SubmittedAssumption == Submitted \subseteq Run
ASSUME NoRunAssumption == NoRun \notin Run
ASSUME EmptySpecAssumption == <<>> \in Pipelines

VARIABLES
    phase,     \* where run() is: "down", "config", "store", "listen", "serving",
               \* "draining" or "closing"
    exit,      \* what the process returned: "none" yet, "clean" or "error"
    boots,     \* processes started so far
    streams,   \* peers with an open stream
    hook,      \* hook[d]: the delivery d, "idle", "sent", "reading" while its body
               \* arrives, "starting", "answered" or "lost", its request, how often
               \* it was sent, the run its handler starts and the answer's status
    origin,    \* origin[r]: the delivery that started r, "api", or "none"
    cause      \* history: what ended the Start of r early: "failed" (a store call),
               \* "cancelled" (the signal), "killed" (the process), or "none"

mvars == <<vars, phase, exit, boots, streams, hook, origin, cause>>
process == <<phase, exit, boots, streams>>

MasterInit ==
    /\ Init
    /\ phase = "down" /\ exit = "none" /\ boots = 0
    /\ streams = {}
    /\ \E q \in [Delivery -> Request] :
         hook = [d \in Delivery |-> [pc |-> "idle", req |-> q[d], sends |-> 0,
                                     run |-> NoRun, status |-> 0]]
    /\ origin = [r \in Run |-> "none"]
    /\ cause = [r \in Run |-> "none"]

-----------------------------------------------------------------------------
(* Startup *)

Boot ==
    /\ phase = "down" /\ boots < MaxBoots
    /\ phase' = "config" /\ exit' = "none" /\ boots' = boots + 1
    /\ UNCHANGED <<vars, streams, hook, origin, cause>>

\* What LoadOptional makes of the file: no file is as good as the defaults.
LoadOptional(file) == IF file \in {"unreadable", "malformed"} THEN "error" ELSE "config"

\* run returns an error before anything is served.
GiveUp == phase' = "down" /\ exit' = "error"

Configure ==
    /\ phase = "config"
    /\ \E file \in {"absent", "good", "unreadable", "malformed"} :
         IF LoadOptional(file) = "error" THEN GiveUp
         ELSE phase' = "store" /\ UNCHANGED exit
    /\ UNCHANGED <<vars, boots, streams, hook, origin, cause>>

\* CREATE TABLE IF NOT EXISTS: what an earlier process wrote stays.
migrate == UNCHANGED <<runs, nodes>>

OpenStore ==
    /\ phase = "store"
    /\ \/ phase' = "listen" /\ migrate /\ UNCHANGED exit
       \/ DBMayFail /\ GiveUp /\ UNCHANGED <<runs, nodes>>
    /\ UNCHANGED <<spec, rc, start, adv, comp, dispatched, reported, boots,
                   streams, hook, origin, cause>>

\* The gRPC port is taken in run itself; both servers are then started.
Listen ==
    /\ phase = "listen"
    /\ \/ phase' = "serving" /\ UNCHANGED exit
       \/ GiveUp
    /\ UNCHANGED <<vars, boots, streams, hook, origin, cause>>

-----------------------------------------------------------------------------
(* The end of a process *)

\* ServeHTTP was called and has not returned.
InHandler(d) == hook[d].pc \in {"reading", "starting"}

\* The goroutines and the connections are gone, and with them every Start that
\* was not over.
Exit(how) ==
    /\ phase' = "down" /\ exit' = how
    /\ start' = [r \in Run |-> IF start[r].pc = "seed"
                                THEN [pc |-> "failed", i |-> 0, j |-> 0]
                                ELSE start[r]]
    /\ adv' = [r \in Run |-> [a \in Caller |-> IdleAdvance]]
    /\ streams' = {}
    /\ hook' = [d \in Delivery |->
                  IF InHandler(d) THEN [hook[d] EXCEPT !.pc = "lost"] ELSE hook[d]]
    /\ cause' = [r \in Run |-> IF start[r].pc = "seed" THEN "killed" ELSE cause[r]]
    /\ UNCHANGED <<runs, nodes, spec, rc, comp, dispatched, reported, boots, origin>>

\* A listener fails and run returns its error without stopping the other
\* server; or the process is killed.
ServeFails == phase = "serving" /\ Exit("error")
Crash == phase # "down" /\ Exit("error")

\* ctx.Done() and the beginning of GracefulStop: the context of the webhook's
\* Start calls is cancelled, and no RPC is accepted from here on.
Signal ==
    /\ phase = "serving"
    /\ phase' = "draining"
    /\ UNCHANGED <<vars, exit, boots, streams, hook, origin, cause>>

\* Stop instead of GracefulStop: no RPC is waited for.
MutGracefulStop ==
    /\ phase = "draining"
    /\ phase' = "closing"
    /\ UNCHANGED <<vars, exit, boots, streams, hook, origin, cause>>

\* GracefulStop returns when no RPC is left; the HTTP server still serves.
GracefulStop ==
    /\ phase = "draining"
    /\ streams = {}
    /\ \A r \in Run : start[r].pc = "seed" => origin[r] # "api"
    /\ phase' = "closing"
    /\ UNCHANGED <<vars, exit, boots, streams, hook, origin, cause>>

\* Shutdown, which is given no deadline, returns when no handler is left, one that
\* waits for the rest of a body included, and so do run and main.
Shutdown ==
    /\ phase = "closing"
    /\ \A d \in Delivery : ~InHandler(d)
    /\ Exit("clean")

-----------------------------------------------------------------------------
(* The webhook *)

\* The checks of ServeHTTP on the body, in their order; 0 when the trigger is
\* called.
Refusal(q) ==
    IF ~q.readable THEN 400
    ELSE IF Secret /\ ~q.signed THEN 401
    ELSE IF q.event # "push" \/ ~q.parses THEN 204
    ELSE 0

\* A delivery, or one more attempt at it.
Deliver(d) ==
    /\ hook[d].pc \in {"idle", "answered", "lost"}
    /\ hook[d].sends < MaxSends
    /\ hook' = [hook EXCEPT ![d].pc = "sent", ![d].sends = @ + 1,
                            ![d].run = NoRun, ![d].status = 0]
    /\ UNCHANGED <<vars, process, origin, cause>>

Answer(d, status) == hook' = [hook EXCEPT ![d].pc = "answered", ![d].status = status]

HTTPServing == phase \in {"serving", "draining"}

\* The goroutines of the process run.
Alive == phase \in {"serving", "draining", "closing"}

\* A request arrives: the method is checked, and io.ReadAll waits for the body,
\* for as long as the client takes.
Receive(d) ==
    /\ HTTPServing /\ hook[d].pc = "sent"
    /\ IF hook[d].req.post THEN hook' = [hook EXCEPT ![d].pc = "reading"]
       ELSE Answer(d, 405)
    /\ UNCHANGED <<vars, process, origin, cause>>

\* The body is there, or cannot be read.
Refuse(d) ==
    /\ Alive
    /\ hook[d].pc = "reading" /\ Refusal(hook[d].req) # 0
    /\ Answer(d, Refusal(hook[d].req))
    /\ UNCHANGED <<vars, process, origin, cause>>

\* The trigger function calls Start with an empty spec and the context of the
\* event; CreateRun succeeds.
Trigger(d, r) ==
    /\ phase = "serving"
    /\ hook[d].pc = "reading" /\ Refusal(hook[d].req) = 0
    /\ r \notin Submitted
    /\ StartCall(r) /\ spec'[r] = <<>> /\ rc'[r] = hook[d].req.ctx
    /\ hook' = [hook EXCEPT ![d].pc = "starting", ![d].run = r]
    /\ origin' = [origin EXCEPT ![r] = d]
    /\ UNCHANGED <<process, cause>>

\* CreateRun fails, or the context is cancelled: the error is logged and the
\* answer is the same.
TriggerFails(d) ==
    /\ Alive /\ (DBMayFail \/ phase # "serving")
    /\ hook[d].pc = "reading" /\ Refusal(hook[d].req) = 0
    /\ Answer(d, 204)
    /\ UNCHANGED <<vars, process, origin, cause>>

\* A later store call of Start under a cancelled context.
StartCancelled(r) ==
    /\ phase \in {"draining", "closing"}
    /\ origin[r] \in Delivery
    /\ start[r].pc = "seed"
    /\ start' = [start EXCEPT ![r] = [pc |-> "failed", i |-> 0, j |-> 0]]
    /\ cause' = [cause EXCEPT ![r] = "cancelled"]
    /\ UNCHANGED <<runs, nodes, spec, rc, adv, comp, dispatched, reported,
                   process, hook, origin>>

\* The handler answers only when Start succeeded.
MutTriggerReturns(d) ==
    /\ Alive
    /\ hook[d].pc = "starting"
    /\ start[hook[d].run].pc = "done"
    /\ Answer(d, 204)
    /\ UNCHANGED <<vars, process, origin, cause>>

\* The handler does not wait for Start.
MutTriggerEarly(d) ==
    /\ Alive
    /\ hook[d].pc = "starting"
    /\ Answer(d, 204)
    /\ UNCHANGED <<vars, process, origin, cause>>

\* Start has returned, with or without an error, and the handler answers.
TriggerReturns(d) ==
    /\ Alive
    /\ hook[d].pc = "starting"
    /\ start[hook[d].run].pc \in {"done", "failed"}
    /\ Answer(d, 204)
    /\ UNCHANGED <<vars, process, origin, cause>>

-----------------------------------------------------------------------------
(* The gRPC server: new RPCs only before the signal. *)

SubmitPipeline(r) ==
    /\ phase = "serving" /\ r \in Submitted
    /\ StartCall(r) /\ rc'[r] = ManualContext
    /\ origin' = [origin EXCEPT ![r] = "api"]
    /\ UNCHANGED <<process, hook, cause>>

StreamOpens(p) ==
    /\ phase = "serving" /\ p \notin streams
    /\ streams' = streams \cup {p}
    /\ UNCHANGED <<vars, phase, exit, boots, hook, origin, cause>>

StreamEnds(p) ==
    /\ p \in streams
    /\ streams' = streams \ {p}
    /\ UNCHANGED <<vars, phase, exit, boots, hook, origin, cause>>

-----------------------------------------------------------------------------
(* The goroutines of the run manager while there is a process *)

\* The store calls of a webhook's Start go through until the signal.
StartGoes(r) ==
    /\ Alive
    /\ origin[r] = "api" \/ phase = "serving"
    /\ StartStep(r)
    /\ UNCHANGED <<process, hook, origin, cause>>

\* Nobody has a reason to advance the empty spec of a webhook.
AdvanceCalled(r, a) ==
    /\ phase = "serving" /\ spec[r] # <<>>
    /\ AdvanceCall(r, a)
    /\ UNCHANGED <<process, hook, origin, cause>>

AdvanceGoes(r, a) ==
    /\ Alive
    /\ AdvanceStep(r, a)
    /\ UNCHANGED <<process, hook, origin, cause>>

\* A later store call of Start fails, or the client of SubmitPipeline has gone and
\* its context with it.
StartFails(r) ==
    /\ Alive
    /\ StartFail(r)
    /\ cause' = [cause EXCEPT ![r] = "failed"]
    /\ UNCHANGED <<process, hook, origin>>

AdvanceFails(r, a) ==
    /\ Alive
    /\ AdvanceListFail(r, a) \/ AdvanceMarkFail(r, a)
    /\ UNCHANGED <<process, hook, origin, cause>>

-----------------------------------------------------------------------------
Startup == Boot \/ Configure \/ OpenStore \/ Listen
Ending == ServeFails \/ Crash \/ Signal \/ GracefulStop \/ Shutdown
Webhook(d) == \/ Deliver(d) \/ Receive(d) \/ Refuse(d) \/ TriggerFails(d)
              \/ TriggerReturns(d)
              \/ \E r \in Run : Trigger(d, r)

MasterNext ==
    \/ Startup \/ Ending
    \/ \E d \in Delivery : Webhook(d)
    \/ \E p \in Peer : StreamOpens(p) \/ StreamEnds(p)
    \/ \E r \in Run : \/ SubmitPipeline(r) \/ StartGoes(r)
                      \/ StartFails(r) \/ StartCancelled(r)
    \/ \E r \in Run, a \in Caller : \/ AdvanceCalled(r, a) \/ AdvanceGoes(r, a)
                                    \/ AdvanceFails(r, a)

\* The goroutines of a living process are scheduled and the stops return once
\* what they wait for is over. No process has to be started, no client has to
\* leave or to finish what it sends, and nothing has to fail.
MasterFairness ==
    /\ WF_mvars(GracefulStop) /\ WF_mvars(Shutdown)
    /\ \A d \in Delivery : WF_mvars(TriggerReturns(d))
    /\ \A r \in Run : WF_mvars(StartGoes(r)) /\ WF_mvars(StartCancelled(r))

MasterSpec == MasterInit /\ [][MasterNext]_mvars /\ MasterFairness

-----------------------------------------------------------------------------
(* Properties *)

\* A run that is there in full: Start has returned its id, it is running or
\* further, and every node and inner job of the spec has its row.
Whole(r) ==
    /\ start[r].pc = "done" /\ runs[r] # "pending"
    /\ \A i \in 1..Len(spec[r]) : \A j \in 0..Len(Inner(spec[r][i])) :
         nodes[r][Row(spec[r][i], j)] # Absent

\* A run its Start has given up: it returned an error, or went down with an
\* earlier process, and nobody was ever set to work on it.
GivenUp(r) ==
    /\ start[r].pc = "failed" /\ cause[r] # "none"
    /\ \A a \in Caller : adv[r][a].pc = "idle"
    /\ \A x \in NodeID : dispatched[r][x] = 0

\* CleanExit: the exit after a signal cuts no Start and no request: each run is
\* there in full or was given up before, although the HTTP server goes on while
\* the gRPC server drains (main.go:116-119).  What a failed or cancelled Start
\* has written stays, and an Advance, which nothing waits for, may be cut.
CleanExit ==
    [][phase # "down" /\ phase' = "down" /\ exit' = "clean" =>
         /\ \A r \in Run : runs[r] # Absent => Whole(r) \/ GivenUp(r)
         /\ \A d \in Delivery : ~InHandler(d)]_mvars

\* No client keeps its request open for ever.
BodiesEnd == \A d \in Delivery : []<>(hook[d].pc # "reading")

\* ShutdownEnds: once the last stream is closed after a signal, the process
\* ends, if the clients of the webhook finish or drop their requests: GracefulStop
\* and Shutdown wait for each handler, and no handler waits for them
\* (main.go:118-119, handler.go:40-71).
ShutdownEnds ==
    BodiesEnd => (phase = "draining" /\ streams = {} ~> phase = "down")

\* AnsweredStarted: when a push that passes the checks has been answered and
\* has a run, the Start of this run is over; it left the run running, or
\* further, unless it returned an error (handler.go:68-70, main.go:93).
AnsweredStarted ==
    \A d \in Delivery : hook[d].pc = "answered" /\ hook[d].run # NoRun =>
      LET r == hook[d].run IN
        \/ start[r].pc = "done" /\ runs[r] # "pending"
        \/ start[r].pc = "failed" /\ cause[r] \in {"failed", "cancelled"}

=============================================================================
