# Brazier: TLA+ models, checks and proofs

Brazier is a CI system: a master keeps pipeline runs in a database, schedules
their jobs and sends them to agents that connect by gRPC; clients submit
pipelines, cancel runs and follow logs. This directory holds TLA+ models of the
parts that carry that logic, TLC configurations that check them on small
instances, and TLAPS proofs of the main results for every instance.

`PROJECT.json` lists components, runs, mutants, theorems and hazards, and maps
each definition to the lines of source it models.

## 1. The system

| Component | State it keeps | Operations | Talks to |
|---|---|---|---|
| Run manager `internal/pipeline/run.go` | none of its own; the tables | `Start`, `NodeCompleted` | store; launches `Advance` |
| Scheduler `internal/pipeline/scheduler.go` | a snapshot of the rows during `Advance` | `Advance`, `evalConditions`, `TopoSort` | store, `Dispatcher` |
| Store `internal/db/*` | tables `pipeline_runs`, `nodes`, `log_chunks` | `CreateRun`, `UpdateRunState`, `UpsertNode`, `ListNodes`, `AppendLog`, `GetLogs` | everyone |
| Registry `internal/registry/registry.go` | map agent id -> connection, active counts, one mutex | `Register`, `Dispatch`, `JobDone`, `List` | agents, by the streams of `Register` |
| Agent client `internal/client/agent.go` | its connection, job goroutines | `Run` (reconnect loop), `connect`, `handleJob` | master, executor |
| Executor `internal/executor/executor.go` | the process of a job | `Run`, `runCommand` with two scanners | agent client |
| gRPC API `internal/api/server.go` | none | `SubmitPipeline`, `CancelRun`, `StreamLogs`, `Register`, `SendLog`, `SendResult` | run manager, registry, store |
| Webhook `internal/webhook/handler.go` | none | `ServeHTTP`, `parseEvent` | run manager |
| Auth `internal/auth/*` | tables `sessions`, `api_keys` | `Create`, `Generate`, `Validate`, `Delete`, `DeleteExpired`, middleware | handlers, switched off in main |
| Secrets `internal/secrets/*` | table `secrets` | `Set`, `Get`, `Delete`, `InjectSecrets` | dispatch of jobs, not wired in |
| Other secret backends `internal/secrets/vault.go`, `gcp.go`, `awsssm.go` | none; the service keeps it | `Get`, `Set`, `Delete` | the services |
| Artifact stores `internal/artifacts/*` | files in a directory, objects of a service | `Upload`, `Download`, `List` | not wired in |
| Event bus `internal/bus/bus.go` | handlers by event type, a read-write mutex | `Subscribe`, `Publish` | run manager and scheduler publish |
| Brazierfile execution `internal/workflow/executor.go`, `sdk/go`, `sdk/ts`, `cmd/cli/cmd` | a process and its output | builders, `Run`, `ExecBrazierfile`, the commands `run` and `trigger` | gRPC API, workflow loader |
| Workflow loader `internal/workflow/loader.go` | cache, a clone and its work tree on disk | `Load` | git, go |
| Master `cmd/master/main.go` | phase of the process | start, serve, drain, shut down | all |

OAuth, the other runners and the web client are listed in `PROJECT.json` as not
modelled, with the reasons. Sessions, secrets, artifacts and subscribers of the
bus are code that the master of this version does not use yet; their models
say what it will rely on.

What is hard in this system, and what makes each part correct:

* **Runs.** `Start` seeds rows and launches `Advance`; `Advance` decides on a
  snapshot and writes row by row; results arrive concurrently; `CancelRun`
  comes at any time; every store call and every dispatch can fail. Correct
  means: a job is sent once, on grounds that still hold; rows move forward; the
  verdict agrees with the rows and stays; a run ends.
* **Registry.** Connections of one agent overlap, because the master notices a
  closed stream late. `Dispatch` holds the mutex over a network send. Correct
  means: capacity kept, entries removed, connected agents listed.
* **Fleet.** Jobs outlive connections, results are sent once and can be lost.
* **Master.** The process can fail while starting, crash, or drain after a signal
  while the webhook is still served; the next one finds the tables as they were
  left. Correct means: after a clean exit every run is there in full or was given
  up by its `Start`, no job is sent again, and the shutdown ends, which waits for
  streams, calls and the bodies of requests.
* **Jobs.** Pipes fill up, lines are too long, children outlive the shell, the
  timeout comes at any moment, the log stream breaks. Correct means: output is
  read before the pipes are closed, the log precedes the result, the job ends
  unless a child holds its pipes.
* **Logs.** A viewer polls a table by a job id and remembers a position in a list
  sorted by agents' clocks.
* **Credentials.** A row is read in one step and judged in another, while it is
  deleted, swept, replaced, or expires; time is cut to milliseconds on its way.
* **Wiring.** A job passes from a store to a goroutine, a mutex and a network.
  Correct means: what an agent has is marked in the store, a status is whole
  unless its read broke, and nobody waits for the mutex for ever.
* **Definitions.** Builders are references that change after they were handed on; the
  process that prints a spec crashes, is cut off, hangs or leaves a child with its
  output. Correct means: what is submitted is what the program declares.
* **Stores.** Backends make several requests, whose answers get lost, which client
  libraries send again and services do late, and callers overlap. Correct means:
  what succeeded was done, and only where requests are resent more than once.
* **Bus.** Handlers call the bus that calls them. Correct means: no event is
  missed and every call returns.
* **Loader.** Concurrent loads share one work tree; a clone can be killed half-way;
  the program that prints a DAG can outlive the `go run` that was killed.
* **TopoSort, conditions.** Pure code with edge cases: cycles, unknown and
  duplicate ids; patterns and empty names.

## 2. Modules

| Module | Models | Variables and the code they stand for |
|---|---|---|
| `Pipeline` | run manager, scheduler, tables, `CancelRun` | `runs`, `nodes`: state columns; `start`, `adv`, `comp`: goroutines of `Start`, `Advance`, `NodeCompleted` with their local variables; `dispatched`, `reported`: jobs sent and results delivered |
| `Registry` | registry and the `Register` handler | `agents`: the map; `active`: counts; `mu`: the mutex; `handler`, `stream`: a `Register` call and its stream; `disp`: a `Dispatch` call |
| `Fleet` | extends `Registry` by agents | `session`: the connection a client uses; `job`: where a dispatched job is |
| `RunLifecycle` | what the manager promises about a run; `Pipeline` implements it | `status`: the state `GetRun` tells; `begun`: the nodes are all there; `result`: how each ended |
| `Assembly` | `Fleet` with an instance of `Pipeline` as main.go wires them, and `GetRun` | those of both, and `query`: a call of `GetRun` |
| `TopoSort` | `TopoSort` | the loop index, the call stack of `visit`, `visited`, `inStack`, `sorted` |
| `Conditions` | `evalConditions`, `matchGlob`, `parseEvent` | the trigger, the conditions, the answer |
| `Master` | extends `Pipeline` by the process of main.go, the webhook, the start and end of RPCs | `phase`, `exit`, `boots`: where `run` is, what it returned, how often it was started; `streams`: open gRPC streams; `hook`: deliveries and their handlers; `origin`: who started a run; `cause`: why a `Start` ended early, history |
| `Logs` | scanners, log stream, `SendLog`, `AppendLog`, `GetLogs`, `StreamLogs` | `held`, `wire`, `table`: a chunk's way; `seen`, `sent`: the viewer; `polled`: history |
| `Executor` | extends `Logs` by `handleJob`, `Run`, `runCommand` and the processes | `job`: the goroutine and its command; `shell`, `orphan`: the shell and a child it left; `pipe`, `reader`: pipes and scanners; `expired`: the context; `logStream`; `long`, `dropped`: history |
| `Auth` | sessions, API keys, HTTP middleware, gRPC interceptors | `sessions`, `keys`: tables; `issued`, `stored`: calls of `Create`; `req`: a request and what its query returned; `revoked`, `faulty`, `wasLive`, `wasDead`: history |
| `Secrets` | encrypted secrets, `InjectSecrets`, `buildEnv` | `table`, `master`: rows and the key; `inject`, `env`: the call; `cmdEnv`: environment of the command; `held`: history |
| `SecretStore` | what `SecretBackend` promises: registers | `register`: the values; `op`: a call; `late`: writes that may still come; `resends`: whether a call may act twice |
| `SecretBackends` | the Vault, GCP and AWS backends; they implement `SecretStore` | `backend`: which one; `entry`: what the service keeps; `call`: a call, its request and the answer; `lost`: requests given up that the service may still do |
| `Artifacts` | the four artifact stores | `store`: which one; `object`: the chunks kept; `upload`, `download`, `listing`: calls; `settled`: history |
| `Bus` | the event bus | `handlers`: the map; `readers`, `writer`, `waiting`: the mutex; `frames`: the stack of calls of a goroutine; `subscribed`: history |
| `Brazierfile` | SDK builders, `ExecBrazierfile`, the commands that submit | `files`: the Brazierfiles; `proc`, `heap`, `nodeList`, `stdout`: the process, its builders and its output; `command`, `started`: the client and the runs it started |
| `WorkflowLoader` | `Loader.Load` and git as it uses it | `cache`, `git`, `known`, `tree`; `load`: a call; `overlapped`, `faulted`: history |
| `PipelineProofs`, `MasterProofs`, `AssemblyProofs` | proofs about the module they are named after | |
| `FleetProofs` | proofs about `Registry` and `Fleet` | |
| `ExecutorProofs` | proofs about `Executor` with its log streams | |
| `DefinitionsProofs` | proofs about `TopoSort`, `Conditions`, `Brazierfile` | |
| `LoaderBusProofs` | proofs about `WorkflowLoader`, `Bus` | |
| `StoresProofs` | proofs about `Auth`, `Artifacts`, `SecretBackends`, `Secrets` | |
| `MC*` | instances for TLC | |

A step is one call of the store, one critical section, one command or one pass of
a loop; whatever a goroutine has read stays in its local state until it uses it.
Data is abstract: ids, conditions, versions and agents are model values; a
`RunContext` of `Pipeline` is the set of conditions that hold in it, and
`Conditions` is where the conditions themselves are evaluated.

Each definition whose name starts with `Mut` is a variant of the definition it
precedes with one plausible mistake (a dropped guard, a missing reset, a
forgotten unlock). No specification uses them; they are there to show that
each property notices the mistake it is meant to notice.

Modelling decisions worth knowing:

* `Pipeline` assumes that every dispatched job's result reaches `NodeCompleted`
  once, as its comment describes (run.go:79). In the assembled master nobody
  calls it: `SendResult` (server.go:159) only calls the registry. `Fleet`,
  `Assembly` and `Master` have no such calls. Nothing anywhere claims that runs
  get a verdict.
* `Pipeline` has `Extra` callers of `Advance` besides the goroutine of `Start`, for
  the method is exported and documented as callable at any time. `Serial` says
  whether calls for one run may overlap.
* `Master` runs `Start` of the webhook under the context the signal cancels, `Start`
  of `SubmitPipeline` as part of an RPC that `GracefulStop` waits for, and `Advance`
  under no context, as main.go and run.go do. `Signal` is the cancelled context
  together with the beginning of `GracefulStop`; that store calls under the context
  may fail a little earlier is among the faults. A handler is three steps: it
  has the request, it has the body, it has called `Start`; the body takes as long
  as its client likes.
* A pipe of `Executor` has an end in the shell and in every child it started. The
  timeout kills the shell only. A process that has succeeded may still be
  counted as failed by `Wait` when the context is done.
* The clock of `Auth` has `Res` units to a millisecond: `Validate` compares units,
  `DeleteExpired` milliseconds, and the row has milliseconds. The clock does not
  go back.
* Of the bodies and signatures of the webhook only the outcome of the checks is
  modelled, in the order of the checks.
* `Pipeline` leaves its publications on the bus out: nothing subscribes to them.
  `Bus` takes goroutines and handlers as parameters, and lets a waiting `Lock` keep
  new readers out, as `sync.RWMutex` does.
* In `Assembly` a job is the row it was made for, and one Advance step of `Pipeline`
  that dispatches becomes a call of the registry that begins and ends.
* A program of `Brazierfile` is the sequence of SDK calls it executes, and well-formed:
  a builder is made once and before it is used, stages hold jobs (the compilers see
  to that), there is one pipeline, and nothing follows its `Run`, which exits. Its output is written in
  pieces, and a prefix of it decodes to a shorter spec, as a protobuf without
  its last fields does. The two SDKs differ in what they do about a write that
  fails: Go ends with 1, TypeScript with 0. `cmd.Run` reads to the end of the pipe,
  so it waits for children of the program too.
* The services of `SecretBackends` are external. Other programs write to Vault under
  names that are free, never over a secret of Brazier's. A request may be
  refused, its answer lost, or done after the caller has gone on. The client of the
  parameter store sends every request again that failed on the way, those of Vault
  and GCP reads only; how often they try is left open. The SDKs themselves are not
  under `src/`; the defaults are those of the versions in go.mod.
* An upload of `Artifacts` to a directory goes chunk by chunk into the file itself; the
  services put a whole object in the place of the one before.
* git is external and modelled by what `Load` relies on: `clone --no-tags` makes
  only the default branch known, `fetch --tags` makes tags known and does not move
  a local branch, `checkout` needs a known version. A killed clone leaves a
  directory that a later fetch may or may not be able to complete.
* A handler of a gRPC stream learns that the stream has ended (`StreamEnds`)
  independently of the client having left (`Disconnect`).

## 3. Runs

Passing runs:

| Run | Instance | What it shows |
|---|---|---|
| `pipeline` | 4 pipelines (chain listed backwards, skip, stage, node without a kind), 2 contexts, 2 callers of `Advance` one at a time, 2 concurrent results, all faults, cancel | `DispatchOnce`, `DispatchJustified`, `VerdictSound` as invariants, `NodeLifecycle` as an action property, and `ImplementsLifecycle`: the manager refines `RunLifecycle` |
| `master` | one submission of up to 2 independent jobs or a stage, and one delivery (signed or not, with another method), 2 callers of `Advance`, one stream, 2 processes, failing store calls, crash, failing listener and signal at any moment, fairness | `DispatchOnce` across restarts, `AnsweredStarted`; `CleanExit`, an action property of the exit; `ShutdownEnds` |
| `fleet` | 2 agents, 3 connections (one agent reconnects), 3 dispatches, jobs in transit, lost results | `FleetTypeOK`, `ConnWithinCapacity`, `EntryHasHandler`, `PickStaysLeastLoaded` |
| `assembly` | 2 runs of a stage with one job, one agent that connects once, failing store calls and dispatches, a `GetRun` for one of the runs, whose second read may break at any row; fairness | `SentOnGrounds`, `StatusComplete`; `AdvanceReturns`, `DeadStreamsLeave` |
| `components` | `TopoSort`: every spec of up to 2 nodes over 3 ids (so missing and duplicate ids occur) and every spec of 3 nodes a, b, c, with up to 2 dependencies each. Conditions: names and patterns of up to 3 characters, 0 to 2 conditions, branch, tag, other and manual triggers. `Brazierfile`: 4 programs (builders changed late, one that never calls `Run`, one that hangs), in either language, 2 commands, an edit in between. Loader: 2 calls, a tag and the branch, one push, all faults, kills and children. Bus: 2 subscriptions and 2 publications, a handler that publishes and one that subscribes. Executor: a job with a command and 2 pipes of 1 line, failing starts, overlong lines, orphans, timeout, a stream that breaks, chunks not stored, a viewer. Fairness | `DependenciesFirst`, `SortedComplete`, `ErrorsReal` against a definition of cycles without a search; `TagsSelect` against a reference glob; `SubmittedWhole`; `CacheExact`, `OthersSucceed`, `LoadReturns`; `NoEventMissed`, `CallsReturn`; `OutputRead`, `LogsPrecedeResult`, `JobEnds` |
| `stores` | Auth: 2 requests with any header, 1 session, 1 key, half milliseconds, failing queries. Secrets: a job with 2 secrets and 3 variables of its spec, 2 keys. Backends: 2 callers, 1 name, 2 values, each backend; refusals, lost answers, resends, late writes. Artifacts: 3 uploads of 2 and 1 chunks, 2 paths in 2 directories or pages, each store | `DecisionsRight`, `SessionLifetime`; `SecretsReach`; `BackendsImplement`: the backends refine `SecretStore`; `UploadedServed`, `ListedWhole` |

`components` and `stores` hold several components that share nothing; a behaviour is
about one of them and the others rest. Requests, callers, values and the short
uploads of `stores` are symmetric; where liveness is checked, no symmetry is used.

Runs that show the code doing something else than a comment beside it says:

| Run | Property | Code and comment |
|---|---|---|
| `pipeline_concurrent` | `DispatchOnce` with overlapping `Advance` | scheduler.go:32 says it is safe to call concurrently; two calls that read the same pending row both dispatch it |
| `pipeline_chain` | `ReadyNodesScheduled` | run.go:96 says the scheduler decides what comes next; `NodeCompleted` never calls it, so a node that becomes ready by a result stays pending |
| `registry_stale` | `ConnectedListed` | registry.go:101 says all connected agents are listed; the handler of an old connection deletes the entry of the new one |
| `assembly_results` | `ResultsReachRows` | run.go:79 says that the registry calls `NodeCompleted` when a job finishes; nobody does, so the row stays running |
| `fleet_slots` | `ReportedFreesSlot` | registry.go:92 says the count of the job's agent is decremented; `SendResult` passes a job id where an agent id is looked up |
| `executor_logs` | `LogsStreamed` | cmd/cli/cmd/logs.go:14 says the logs of a run are streamed; the query is for the job with the empty id |

Other disagreements met while modelling. The models behave as the code does, and
the properties are stated so as not to depend on the comment:

* `UpdateRunState` checks nothing: a cancelled run can become running or get a
  verdict, and a finished one cancelled, although server.go:105 stops streaming at
  a terminal state. `RunLifecycle` has these writes, and the theorem
  `StableVerdicts` allows the cancel.
* `leastLoaded` compares active counts, not remaining capacity (registry.go:77).
* A reconnected agent may execute more than its "Maximum concurrent jobs"
  (cmd/cli/cmd/agent.go:52): the count of its new connection starts at zero while
  the jobs of the old one go on (registry.go:36), although registry.go:17 calls it
  the jobs running on the agent. `ConnWithinCapacity` is therefore per connection.
* `TopoSort` looks nodes up by id, so of two nodes with one id it returns the last, and
  no error, although scheduler.go:152 says it returns the nodes or an error.
  `SortedComplete` says exactly which nodes are returned.
* `OnTag("*")` matches the empty tag of a branch or of a manual run, although
  sdk/go/brazier.go:198 says that the ref is a tag. `TagsSelect` is about tags.
* `CancelRun` stops nothing that runs, and a `Start` under way overwrites it.
* The row of a stage is never set after "running", a skipped stage leaves its jobs
  pending, and a job that finishes before a later node is skipped finds it
  pending: in none of these cases does `NodeCompleted`, if it is called, give the
  run a verdict. No property says that runs conclude.
* Once the viewer asks for the right job ids: when two scanners' lines are stored in
  another order than their stamps, the remembered position repeats one line and
  skips another, and lines stored between the last `GetLogs` and the `GetRun`
  that ends the stream are not sent.
* The webhook starts every run with an empty spec (main.go:93): no job reports and
  the run stays running. A push that arrives while the master drains, or whose
  `Start` fails, is answered 204 and dropped.
* `GracefulStop` waits for the streams of agents, which do not leave by themselves;
  `ShutdownEnds` starts when they are closed. `Shutdown` waits for every handler, and
  without a ReadTimeout (main.go:101) a client that never finishes its body keeps
  one for ever; `ShutdownEnds` is stated for clients that do (`BodiesEnd`).
* A run that a crash, a failed dispatch or a cancel has disturbed is not taken up
  again: its rows stay as they are. `CleanExit` therefore says how each run was
  left, not that it was finished; an `Advance` in progress may be cut by the exit.
* `buildEnv` does not merge the environment of the agent, as executor.go:99 says it
  does: a job with one variable has no `PATH`. Without any it inherits it all.
* A session is refused up to a millisecond before its `ExpiresAt`: the row is cut to
  milliseconds. `SessionLifetime` says exactly when.
* A stream is checked once, when it is opened, and outlives its credential.
* The timeout of `ExecBrazierfile` (workflow/executor.go:41) is made after the
  command was bound to the context without it: a Brazierfile that hangs is never
  stopped, nor is one whose child has its output. No property says that a command
  ends.
* The timeout of the loader kills `go run` and not the program it started, which has
  the pipe that `cmd.Run` reads: a load may wait for ever (loader.go:104-115).
  `LoadReturns` says that this is the only way.
* The work tree of the loader is shared between the checkout and the execution of a
  call (loader.go:49, 54), although loader.go:36 says that `Load` returns the DAG of
  the version: when calls overlap, the DAG of one version can be cached under another
  for good. `CacheExact` is about calls that do not overlap.
* The clone has no tags (loader.go:75), so the load that makes it fails for a tag.
  `OthersSucceed` says that no other load of a version that exists does.
* The timeout of a job kills the shell only; a child that keeps a pipe open keeps the
  scanners and the job for as long as it lives, although executor.go:32 says that the
  timeout cancels the job. `JobEnds` promises an end without such a child.
* `run` of the TypeScript SDK ignores the result of the write and exits with 0
  (sdk/ts/src/pipeline.ts:120-124), although it says that it writes the spec. A
  part of the nodes can be submitted then, and `SubmittedWhole` names this exception.
* A Brazierfile that never calls `Run` prints nothing, and the empty output is a valid
  spec: a run without nodes is started. `SubmittedWhole` says so.
* A failed upload to the local store leaves a shortened artifact in the place of the
  old one, and so does the GCS store, whose `Close` after a failed copy still
  commits (gcs.go:38). `UploadedServed` is about uploads that returned nil and
  overlapped no other.
* `GetRun` ignores the error of its second read, and `ListNodes` returns the rows it
  has got when the read breaks: a status can come with a part of the nodes.
  `StatusComplete` says that nothing else does this.
* A `PutParameter` that is sent again may put an old value over one that another
  caller has set in between, and a `DeleteParameter` that is sent again may report
  that there is none. `SecretStore` allows the first to this backend.
* Row ids of a spec are not checked to be distinct; with a duplicate one `Advance`
  sends two jobs for one row. `DistinctRows` is an explicit hypothesis.

### Bounds

* One run is enough for the safety of `Pipeline`: no step reads or writes the
  state of another run, except that a completer serves any run; `master` has
  two. The proofs cover every number of runs.
* Two callers and two completers are what it takes for a stale snapshot or
  verdict. Four pipelines contain one case of each branch of the loop.
* Two connections of one agent are what it takes for the handler of the first to
  meet the entry of the second; three dispatches exceed a capacity of 2.
* `MaxBoots = 2`, `MaxSends = 1`: one process leaves a database behind and one finds
  it. A second attempt at a delivery is a second delivery, for the handler keeps
  nothing.
* `MaxLines = 2`, `MaxTime = 1`, `PipeCap = 1`, one command: each pipe carries one line, by
  the shell or a child, and a further chunk reports a failed start; a full pipe
  blocks its writer, and stamps are equal or ordered. The timeout also comes before
  and after the command. Between two commands nothing is left but the stream and the
  time that has passed; the proofs cover any number of them.
* `Res = 2`, `TTL = 2`, `MaxTime = 4`: a session made at and between the
  milliseconds, and a clock that goes past its end.
* `Assembly`: two runs contend for the mutex and for one slot of one agent; the stage
  makes the row of the node and that of the job two different rows. The status is asked
  of one run, for the two are alike. Reconnecting
  agents are in `fleet`.
* `MaxCommands = 2`: the second command meets what an edit between the two left.
* One secret name: the backends keep no relation between names. Two callers
  are what it takes for a `Delete` between the two requests of GCP's `Set`, and for a
  resent write to follow one of the other caller.
* Three uploads at two paths: two of them overlap at one path while the other is
  listed; one has two chunks, so that a shorter one can follow a longer one.
  `PageSize = 1` puts the two paths on two pages.
* Four goroutines of the bus are two writers, of which one waits for readers, and
  two readers, of which one publishes again from a handler.
* `MaxConditions = 2`: two conditions of a node are what it takes for one to hold
  and the other not.
* `MaxCommit = 1`: the branch moves once after it was cloned. Two loads are what it
  takes for one to meet what the other left, or has under way.
* `CHECK_DEADLOCK FALSE` everywhere: every model is of a bounded amount of work
  (submissions, connections, calls) after which it stops.

### Fairness

* `Pipeline` (for `pipeline_chain` only): weak fairness for each goroutine's own steps
  (Go schedules runnable goroutines) and for the delivery of each dispatched job's
  result. Nobody has to submit, cancel or call `Advance`.
* `Master`: weak fairness for the steps of `Start` while there is a process, also for its
  end under a cancelled context; `GracefulStop` and `Shutdown` return once nothing is
  left that they wait for, and a handler whose `Start` has returned answers. No
  process has to be started, no stream has to end and no body has to arrive.
* `Executor`: goroutines run, timers fire, a kill succeeds and the master reads its
  streams. Processes may run, write and leave children for ever.
* `Assembly`: strong fairness for the critical sections of `Register` and for a
  `Dispatch` (Go's mutex hands over to a waiter after 1 ms at most, so it is not
  starved, and `Send` returns when the stream has gone), weak fairness for the
  other steps of the manager and for agents that have a job. No agent has to
  connect or to stay.
* `WorkflowLoader`: weak fairness for each call's steps: timeouts come, and git, whose
  output goes to no pipe of the loader, returns when it is killed. The program that
  prints the DAG need not end (`ProgramStep` has no fairness).
* `Bus`: weak fairness for each goroutine. The order in which the mutex lets
  waiting goroutines in is not assumed.

## 4. Proofs

Every safety property that a passing run checks is a theorem, for every value of the
constants that satisfies the named assumptions (`ASSUME`) of the module. Where a
theorem needs more, it says so as a hypothesis:

| Hypothesis | Needed by | Why it is not more than the code gives |
|---|---|---|
| `Serial`: the `Advance` calls of one run do not overlap | `PipelineProofs`, `MasterKeepsPromises` | main.go makes one call per run; `pipeline_concurrent` shows that the result is false without it. `Assembly` has only that call and needs no hypothesis |
| `DistinctRows`: the row ids of a pipeline are distinct | the same, `AssemblySentOnGrounds` | nothing checks it; a duplicate id makes the result false |
| no job has the id of an agent | `FleetTypes`, `ConnectionsWithinCapacity` | `JobDone` would take such a job's result for a report about that agent; nothing excludes it |
| history in the property itself (`~overlapped`, `~faulted`, `alone`) | `LoaderCacheExact`, `LoaderOthersSucceed`, `ArtifactsUploadedServed` | the runs show the property with it; section 3 says what happens otherwise |

None of the properties below is inductive alone, for each speaks of a table, a cache
or an answer while the next step depends on what some goroutine remembers of it.
What the invariants add is what these local copies are still worth.

### The run manager: `PipelineProofs`

* `TypeCorrect`: `TypeOK` is inductive by itself.
* `NoDoubleDispatch`, `OnlyJustifiedDispatch`, `SoundVerdicts`, `StableVerdicts`,
  `RowsMoveForward`: from one inductive invariant `IInv`. It says that seeding has
  written every row before its cursor; that nothing happens to a run before `Start`
  is done; that at most one `Advance` is active; how counts of dispatches and
  results relate to the row; that a node which has not started has nothing
  dispatched; that the part of a snapshot an `Advance` has still to use agrees with
  the tables, and the targets it has still to send are not out; and that a verdict
  waiting to be written agrees with rows that cannot change any more. The key point:
  terminal rows never change, hence a snapshot may be old in rows that have finished
  since, but never wrong where it says success or skipped, and for the rows after
  the cursor it is exact, for nobody else marks them.
* `ManagerImplements`: `Pipeline` implements `RunLifecycle`. Each step of a
  goroutine is one step of the run or none: the end of `Start` is `Begin`, and the
  write of a verdict is `Conclude`, because `IInv` makes what the completer counted
  earlier the truth at the moment it writes.

### The process: `MasterProofs`

* `MasterTypeCorrect`, `MasterAnsweredStarted`, `MasterCleanExit`: from `MasterInv`.
  A `Start` that is under way has somebody who waits for it, an RPC or the handler
  of one delivery (`Owned`); a handler that has answered with a run has its `Start`
  behind it (`HookInv`); and when `GracefulStop` has returned, no RPC is left
  (`Drained`). That `Shutdown` waits for handlers and `GracefulStop` for RPCs then
  covers every `Start`. How a `Start` that is over left its run follows from `Seeded`:
  the rows before its cursor are there, and it has a cause if it ended early
  (`CauseOf`); and until it is done nobody works on the run (`ManagerInv`).
* `MasterKeepsPromises`: the `IInv` of `Pipeline` is also preserved by what a
  process does around the manager: its end, which forgets every goroutine but not
  the tables, and a `Start` that a cancelled context stops. So a job is sent once
  even across crashes and restarts, and on grounds that hold.

### The registry and its agents: `FleetProofs`

* `TypeCorrect`, `CapacityKept`, `NoLeakedEntries`, `ChoiceHolds` of `Registry`. The
  strengthening is `SenderHoldsMutex`: a `Dispatch` between its choice and its
  increment holds the mutex, so nothing it chose on changes before it counts.
* `FleetRefines`: every step of the composed system is a step of `Registry` or
  leaves it alone, so that the theorems above hold with real agents at the other
  end.
* `FleetTypes`, `ConnectionsWithinCapacity`: the count of a connection is exactly
  the number of jobs ever sent on it (`Counted`), for which a connection must not be
  registered, and its count reset, after something was sent on it (`Registered`).
  `Counted` is also why an agent stops getting jobs: see `fleet_slots`.

### The wiring: `AssemblyProofs`

* `AssemblyComposes`: the assembled master takes only steps of the run manager's own
  specification and only steps of `Fleet`'s. It is a refinement of both at once; the
  mapping is the identity, and the work is in the dispatch, which is one step for
  the manager and the end of a call of the registry. With `FleetRefines` and
  `ManagerImplements` the parts keep their promises where they are put together.
* `AssemblyTypeCorrect`, `AssemblyStatusComplete`: from `AInv`. Rows before the
  cursor of `Start` are written and none of another pipeline is (`Written`); hence a
  status that read "running", which `Start` writes last, and then the rows, has them
  all unless that read broke (`Asked`).
* `AssemblySentOnGrounds`: `JobsInv` adds that the rows an `Advance` has not come to
  are as it has read them (`Fresh`), and that a job is with the registry or an agent
  only while its node is marked, and is counted exactly when it was sent (`JobsOf`).

### Jobs: `ExecutorProofs`

* `ExecutorTypeCorrect`, `ExecutorOutputRead`, `ExecutorLogsPrecedeResult`: from
  `ExecInv`. A scanner has seen the end of its pipe only if nobody can write to it
  any more and it is empty, and has stopped before only if a line was too long
  (`ScannerInv`); a job waits for its command only when both scanners are through,
  and there is nothing of a command before and after it (`JobInv`, `NoCommand`).

### Definitions: `DefinitionsProofs`

* `SortOrder`, `SortComplete`, `SortDecides`, for every spec. The invariant
  describes the recursion: `inStack` is the set of calls in progress, all for
  different unfinished nodes; each call is for the dependency its caller's loop has
  just passed; everything else a loop has passed is finished. A node found in
  `inStack` then closes a cycle, made of the calls from it on; and of any set of
  sorted nodes the first in the output depends on none of the others, so a sorted
  spec has no cycle. What the map of nodes keeps is the last node of each id, so that
  is what a sort that succeeds returns (`SortComplete`); every node, when no two have
  the same id.
* `TagsSelected`, for patterns and names of any length. The reference `Glob` says
  that the name can be cut into one piece for each character of the pattern, one
  character long except at a star. Between stars such cuts move by one (`Climb`),
  hence a pattern without a star matches itself, one with a last star what has the
  rest as a prefix, one with a first star what has it as a suffix (`PlainMatch`,
  `PrefixMatch`, `SuffixMatch`), which is what `matchGlob` computes.
* `BrazierfileSubmittedWhole`. `Built(p, n, b)` is the node of builder b as the
  first n calls of program p define it; the heap of the process is always that of
  the calls it has made, also for builders that are in a stage or in the pipeline
  already, and what is written is a part of its message until `Run` is done
  (`ProcessInv`). At `Run`, the last call, that is what the program declares
  (`Complete`). A write that fails ends a program in Go with 1, and one in TypeScript
  with 0 and a prefix of it. `Given`, the arguments a builder gets call by call, is a recursive
  function; its unfolding is proved by hand (`GivenRule`).

### Loader and bus: `LoaderBusProofs`

* `LoaderTypeCorrect`, `LoaderCacheExact`, `LoaderOthersSucceed`: from `LoaderInv`,
  which speaks of a past without overlaps. One load at most is in progress
  (`OneLoad`), so what it executes and stores was made from its own version
  (`OwnVersion`), at a commit of the past (`OfThePast`). While moreover nothing went
  wrong outside, one call makes the clone, and every other one has fetched all
  versions by the time it checks its own out (`CloneFirst`).
* `BusTypeCorrect`, `BusNoEventMissed`: from `BusInv`. A handler whose `Subscribe`
  has returned is registered (`Kept`), and a `Publish` that has read its list has
  every handler it must call in what it has called or has still to call, at every
  depth of the stack of calls (`FramesInv`).

### Stores: `StoresProofs`

* `AuthTypeCorrect`, `AuthDecisionsRight`, `AuthSessionLifetime`: from `AuthInv`. A
  row is the millisecond of the end that was issued, and one that is gone without a
  logout is past it (`SessionRow`); a request knows how its credential stood when it
  read it (`RequestInv`), and how it stood is in the history from the moment it
  arrived (`Witnessed`).
* `ArtifactsTypeCorrect`, `ArtifactsUploadedServed`, `ArtifactsListedWhole`: from
  `ArtInv`. A path whose last upload returned nil, alone, is being written by nobody
  and has all its chunks (`Whole`); a listing has passed every path that is not
  before it (`ListingInv`). The proof showed an assumption the model made silently:
  paths, and directories, are numbered from 1, because 0 is where a listing starts
  (`PathAssumption`).
* `BackendsKeepPromise`: the three backends implement `SecretStore`, for any
  callers, names and values. A call has its effect when the service does what the
  call is for, and the AWS backend may have it again, by a request that is resent or
  late. `BackendsInv` says what an answer tells: without an error the service has done
  it (404 counts for Vault's `Delete`), the `create` of GCP's `Set` has not (`Tells`);
  only a request that is sent again finds its call done (`Fresh`); and only the mount
  of Vault has entries without a value, which is why only its `Get` checks for one.
* `SecretsTypeCorrect`, `SecretsReachCommand`: from `SecretsInv`. What has been
  injected are the first secrets of the job, each with a value that was readable
  (`InjectInv`); and the last entry of a name in the environment, the one that
  counts, is that of the secret, because variables of the spec are only added for
  keys that are not there.

### Facts used in many places

Induction over numbers is done by a minimal counterexample (`LeastElement`, from the
library's theorem on well-founded relations). Sorting, matching and gathering, of
which proofs speak, are defined by ranks, cuts and recursive functions: `Unseen`,
`Glob`, `Given`.

### Only model-checked

* Liveness, for the prover does not handle fairness: `ShutdownEnds`, `AdvanceReturns`,
  `DeadStreamsLeave`, `LoadReturns`, `CallsReturn`, `JobEnds`.
* The properties of the runs that expect a violation are false of the code.

## 5. Not modelled

* OAuth (two calls to GitHub without state; nothing calls them), the other runners
  (stubs that return an error), the web client, of the TypeScript SDK its encoder and
  the workflow builders, flags and what commands print. The error of the `Close` of a
  local artifact (local.go:35), which the code drops.
* Time columns, `ListRuns`, `ListAgents` and other calls that only read, log text, the
  values of the configuration beyond whether they can be read.
* The end of an agent's process, and damaged frames of concurrent sends on one
  stream (executor.go:86).
* Generated protobuf code, except for the states it names.

## 6. Plan

Done: the modules of section 2 and the proofs of section 4. Next, in this order:

1. `Master` around `Assembly`: a crash while agents hold jobs, and the master that
   starts again while they still run; then what of `MasterKeepsPromises` holds with
   agents of their own at the other end.
2. The end of an agent's process with jobs in progress.
3. Proofs: what a client may conclude from the states it is told over several
   processes, as a refinement of `RunLifecycle` with crashes.
