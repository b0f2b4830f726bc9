------------------------------ MODULE Executor ------------------------------
(***************************************************************************)
(* A job on its agent: handleJob of internal/client/agent.go and Run and   *)
(* runCommand of internal/executor/executor.go, with the processes they    *)
(* start, in front of the log path of Logs.                                *)
(*                                                                         *)
(* The pipes of a command stay open until every process that inherited    *)
(* them is gone: a child the shell left behind (an orphan) keeps the       *)
(* scanners reading, also after the timeout has killed the shell.          *)
(***************************************************************************)
EXTENDS Logs

CONSTANTS
    Commands,   \* Commands[j]: number of commands of job j
    ErrOf,      \* ErrOf[j]: the scanner of stderr of j, for chunks of its own
    PipeCap,    \* lines a pipe holds before a writer blocks
    ExecFaults  \* "start", "long" (a line over the scanner's limit), "orphan"

ASSUME CommandsAssumption == Commands \in [JobID -> Nat]
ASSUME ErrOfAssumption == ErrOf \in [JobID -> Scanner] /\ \A j \in JobID : JobOf[ErrOf[j]] = j
ASSUME PipeAssumption == PipeCap \in Nat \ {0}

VARIABLES
    job,        \* job[j]: the goroutine of handleJob: place, command, result
    shell,      \* shell[j]: the shell of the current command
    orphan,     \* orphan[j]: a child of it holds the pipes without it
    pipe,       \* pipe[s]: lines written and not yet read
    reader,     \* reader[s]: the scanning goroutine
    expired,    \* expired[j]: the context of Run is done
    logStream,  \* logStream[j]: "none", "open" or "broken"
    long,       \* history: scanners that gave up on a line
    dropped     \* history: scanners whose pipe was closed with lines in it

xvars == <<job, shell, orphan, pipe, reader, expired, logStream, long, dropped>>
evars == <<lvars, xvars>>

Pipes(j) == {s \in Scanner : JobOf[s] = j}

ExecInit ==
    /\ LogsInit
    /\ job = [j \in JobID |-> [pc |-> "idle", i |-> 0, ok |-> FALSE]]
    /\ shell = [j \in JobID |-> "none"]
    /\ orphan = [j \in JobID |-> FALSE]
    /\ pipe = [s \in Scanner |-> 0]
    /\ reader = [s \in Scanner |-> "off"]
    /\ expired = [j \in JobID |-> FALSE]
    /\ logStream = [j \in JobID |-> "none"]
    /\ long = {} /\ dropped = {}

-----------------------------------------------------------------------------
(* handleJob and Run *)

Goto(j, pc, i, ok) == job' = [job EXCEPT ![j] = [pc |-> pc, i |-> i, ok |-> ok]]

\* The job arrives and its log stream is opened; without one it runs anyway.
handleJob(j) ==
    /\ job[j].pc = "idle"
    /\ Goto(j, "next", 1, FALSE)
    /\ \/ logStream' = [logStream EXCEPT ![j] = "open"]
       \/ "send" \in Faults /\ logStream' = [logStream EXCEPT ![j] = "broken"]
    /\ UNCHANGED <<lvars, shell, orphan, pipe, reader, expired, long, dropped>>

\* Both pipes and the process are there, and two goroutines scan.
StartCommand(j) ==
    /\ job[j].pc = "next" /\ job[j].i <= Commands[j] /\ ~expired[j]
    /\ Goto(j, "stream", job[j].i, FALSE)
    /\ shell' = [shell EXCEPT ![j] = "running"]
    /\ reader' = [s \in Scanner |-> IF s \in Pipes(j) THEN "on" ELSE reader[s]]
    /\ UNCHANGED <<lvars, orphan, pipe, expired, logStream, long, dropped>>

\* A pipe or Start fails, the latter always when the context is done: the
\* sink gets a chunk that says so, and Run returns.
StartFails(j) ==
    /\ job[j].pc = "next" /\ job[j].i <= Commands[j]
    /\ expired[j] \/ "start" \in ExecFaults
    /\ Goto(j, "close", job[j].i, FALSE)
    /\ LET s == ErrOf[j] IN
         /\ lines' = [lines EXCEPT ![s] = @ + 1]
         /\ wire' = IF logStream[j] # "open" THEN wire
                    ELSE [wire EXCEPT ![j] = Append(@,
                           [s |-> s, n |-> lines[s] + 1, job |-> j, ts |-> now + Skew[j]])]
    /\ UNCHANGED <<now, held, table, run, viewer, seen, sent, polled>>
    /\ UNCHANGED <<shell, orphan, pipe, reader, expired, logStream, long, dropped>>

\* All commands have succeeded.
RunReturns(j) ==
    /\ job[j].pc = "next" /\ job[j].i > Commands[j]
    /\ Goto(j, "close", job[j].i, TRUE)
    /\ UNCHANGED <<lvars, shell, orphan, pipe, reader, expired, logStream, long, dropped>>

-----------------------------------------------------------------------------
(* The scanners *)

\* Scan returns a line of the pipe.
Read(s) ==
    /\ reader[s] = "on" /\ pipe[s] > 0
    /\ Scan(s)
    /\ pipe' = [pipe EXCEPT ![s] = @ - 1]
    /\ UNCHANGED <<job, shell, orphan, reader, expired, logStream, long, dropped>>

\* The line is too long: Scan returns false and nobody reads the pipe any more.
ScanStops(s) ==
    /\ "long" \in ExecFaults
    /\ reader[s] = "on" /\ held[s] = <<>> /\ pipe[s] > 0
    /\ reader' = [reader EXCEPT ![s] = "stopped"]
    /\ long' = long \cup {s}
    /\ UNCHANGED <<lvars, job, shell, orphan, pipe, expired, logStream, dropped>>

\* The pipe is empty and no process has its other end.
ScanEnds(s) ==
    /\ reader[s] = "on" /\ held[s] = <<>> /\ pipe[s] = 0
    /\ shell[JobOf[s]] # "running" /\ ~orphan[JobOf[s]]
    /\ reader' = [reader EXCEPT ![s] = "eof"]
    /\ UNCHANGED <<lvars, job, shell, orphan, pipe, expired, logStream, long, dropped>>

\* The sink sends the chunk if there is a stream; after an error there is none.
Sink(s) ==
    /\ Send(s)
    /\ logStream[JobOf[s]] = "broken" => wire' = wire
    /\ logStream' = IF wire' = wire THEN [logStream EXCEPT ![JobOf[s]] = "broken"]
                    ELSE logStream
    /\ UNCHANGED <<job, shell, orphan, pipe, reader, expired, long, dropped>>

Scanned(j) == \A s \in Pipes(j) : reader[s] \in {"eof", "stopped"} /\ held[s] = <<>>

\* Wait is called as soon as the process is gone.
MutAwaitProcess(j) ==
    /\ job[j].pc = "stream" /\ shell[j] # "running"
    /\ Goto(j, "wait", job[j].i, FALSE)
    /\ reader' = [s \in Scanner |-> IF s \in Pipes(j) THEN "off" ELSE reader[s]]
    /\ UNCHANGED <<lvars, shell, orphan, pipe, expired, logStream, long, dropped>>

\* wg.Wait
AwaitScanners(j) ==
    /\ job[j].pc = "stream" /\ Scanned(j)
    /\ Goto(j, "wait", job[j].i, FALSE)
    /\ UNCHANGED <<lvars, shell, orphan, pipe, reader, expired, logStream, long, dropped>>

\* cmd.Wait: the process is reaped, our ends of the pipes are closed, and
\* its result decides whether Run goes on. A context done by now may count as
\* a failure of a process that had succeeded.
Wait(j) ==
    /\ job[j].pc = "wait" /\ shell[j] # "running"
    /\ \/ shell[j] = "ok" /\ Goto(j, "next", job[j].i + 1, FALSE)
       \/ (shell[j] # "ok" \/ expired[j]) /\ Goto(j, "close", job[j].i, FALSE)
    /\ shell' = [shell EXCEPT ![j] = "none"]
    /\ orphan' = [orphan EXCEPT ![j] = FALSE]
    /\ pipe' = [s \in Scanner |-> IF s \in Pipes(j) THEN 0 ELSE pipe[s]]
    /\ reader' = [s \in Scanner |-> IF s \in Pipes(j) THEN "off" ELSE reader[s]]
    /\ dropped' = dropped \cup {s \in Pipes(j) : pipe[s] > 0}
    /\ UNCHANGED <<lvars, expired, logStream, long>>

-----------------------------------------------------------------------------
(* The end of handleJob *)

\* CloseSend, without waiting for the answer.
MutCloseLog(j) ==
    /\ job[j].pc = "close"
    /\ Goto(j, "result", job[j].i, job[j].ok)
    /\ UNCHANGED <<lvars, shell, orphan, pipe, reader, expired, logStream, long, dropped>>

\* CloseAndRecv returns when the handler of the master has read everything
\* and returned, or when the stream breaks.
CloseLog(j) ==
    /\ job[j].pc = "close"
    /\ \/ logStream[j] = "broken" /\ UNCHANGED logStream
       \/ logStream[j] = "open" /\ wire[j] = <<>> /\ UNCHANGED logStream
       \/ logStream[j] = "open" /\ "send" \in Faults
          /\ logStream' = [logStream EXCEPT ![j] = "broken"]
    /\ Goto(j, "result", job[j].i, job[j].ok)
    /\ UNCHANGED <<lvars, shell, orphan, pipe, reader, expired, long, dropped>>

\* SendResult, whose error is logged. An agent that reports is done with j.
Report(j) ==
    /\ job[j].pc = "result"
    /\ Goto(j, "done", job[j].i, job[j].ok)
    /\ UNCHANGED <<lvars, shell, orphan, pipe, reader, expired, logStream, long, dropped>>

-----------------------------------------------------------------------------
(* The processes, and the context *)

\* A writer blocks while the pipe is full. One line is left to StartFails.
Write(s) ==
    /\ shell[JobOf[s]] = "running" \/ orphan[JobOf[s]]
    /\ pipe[s] < PipeCap
    /\ lines[s] + pipe[s] + 1 < MaxLines
    /\ pipe' = [pipe EXCEPT ![s] = @ + 1]
    /\ UNCHANGED <<lvars, job, shell, orphan, reader, expired, logStream, long, dropped>>

\* The shell ends by itself, or it is killed; a child may stay behind.
ShellEnds(j, how) ==
    /\ shell[j] = "running"
    /\ shell' = [shell EXCEPT ![j] = how]
    /\ \/ UNCHANGED orphan
       \/ "orphan" \in ExecFaults /\ orphan' = [orphan EXCEPT ![j] = TRUE]
    /\ UNCHANGED <<lvars, job, pipe, reader, expired, logStream, long, dropped>>

ShellExits(j) == \E how \in {"ok", "failed"} : ShellEnds(j, how)

\* The command is not bound to the context.
MutKill(j) == expired[j] /\ job[j].pc = "next" /\ ShellEnds(j, "killed")

\* CommandContext kills the shell, not its children.
Kill(j) == expired[j] /\ ShellEnds(j, "killed")

OrphanExits(j) ==
    /\ orphan[j]
    /\ orphan' = [orphan EXCEPT ![j] = FALSE]
    /\ UNCHANGED <<lvars, job, shell, pipe, reader, expired, logStream, long, dropped>>

\* The timeout of Run.
Timeout(j) ==
    /\ job[j].pc \in {"next", "stream", "wait"} /\ ~expired[j]
    /\ expired' = [expired EXCEPT ![j] = TRUE]
    /\ UNCHANGED <<lvars, job, shell, orphan, pipe, reader, logStream, long, dropped>>

-----------------------------------------------------------------------------
JobStep(j) ==
    \/ StartCommand(j) \/ StartFails(j) \/ RunReturns(j) \/ AwaitScanners(j)
    \/ Wait(j) \/ CloseLog(j) \/ Report(j)
ScannerStep(s) == Read(s) \/ ScanEnds(s) \/ Sink(s)
LogStep ==
    /\ \/ \E j \in JobID : SendLog(j)
       \/ Poll \/ Check \/ Abort \/ Tick \/ RunEnds
    /\ UNCHANGED xvars

ExecNext ==
    \/ \E j \in JobID : \/ handleJob(j) \/ JobStep(j) \/ Timeout(j) \/ Kill(j)
                        \/ ShellExits(j) \/ OrphanExits(j)
    \/ \E s \in Scanner : ScannerStep(s) \/ ScanStops(s) \/ Write(s)
    \/ LogStep

\* Goroutines run, timers fire, a kill succeeds, and the master reads what is
\* on its streams. Commands may run, write and leave children for ever.
ExecFairness ==
    /\ \A j \in JobID : /\ WF_evars(JobStep(j)) /\ WF_evars(Timeout(j))
                        /\ WF_evars(Kill(j))
                        /\ WF_evars(SendLog(j) /\ UNCHANGED xvars)
    /\ \A s \in Scanner : WF_evars(ScannerStep(s))

ExecSpec == ExecInit /\ [][ExecNext]_evars /\ ExecFairness

-----------------------------------------------------------------------------
(* Properties *)

\* OutputRead: all output of a command, also what its orphans wrote, is read
\* before its pipes are closed, except behind a line too long for the scanner:
\* Wait is never called on a pipe with lines in it (executor.go:85-90).
OutputRead == dropped \subseteq long

\* LogsPrecedeResult: when the result of a job is reported, no chunk of it is
\* held by a scanner or on its way, unless the stream broke: the master has
\* been given the whole log before the result (agent.go:92-106).
LogsPrecedeResult ==
    \A j \in JobID : job[j].pc \in {"result", "done"} =>
      /\ \A s \in Pipes(j) : held[s] = <<>> /\ reader[s] = "off"
      /\ logStream[j] = "open" => wire[j] = <<>>

\* JobEnds: a job that was received is reported, whatever its commands do and
\* whatever breaks, as long as no orphan holds its pipes: a full pipe that
\* nobody reads, a command that never ends and a stream that breaks are all
\* ended by the timeout (executor.go:34, 51, 88, agent.go:92-106).
JobEnds == \A j \in JobID : job[j].pc # "idle" ~> job[j].pc = "done" \/ orphan[j]
=============================================================================
