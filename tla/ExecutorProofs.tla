--------------------------- MODULE ExecutorProofs ---------------------------
(***************************************************************************)
(* Proofs about Executor, for any jobs, commands, pipes and scanners: the  *)
(* scanners finish before a command is waited for, and the log of a job is *)
(* handed over before its result, whatever fails, is killed or times out.  *)
(***************************************************************************)
EXTENDS Executor, TLAPS

-----------------------------------------------------------------------------
(* The inductive invariant. *)

JobPlace == {"idle", "next", "stream", "wait", "close", "result", "done"}
JobState == [pc : JobPlace, i : Nat, ok : BOOLEAN]
Process == {"none", "running", "ok", "failed", "killed"}

\* What is said of a chunk is that it is none of the empty places.
ExecTypeOK ==
    /\ job \in [JobID -> JobState]
    /\ shell \in [JobID -> Process]
    /\ orphan \in [JobID -> BOOLEAN]
    /\ pipe \in [Scanner -> Nat]
    /\ reader \in [Scanner -> {"off", "on", "eof", "stopped"}]
    /\ logStream \in [JobID -> {"none", "open", "broken"}]
    /\ DOMAIN held = Scanner
    /\ DOMAIN wire = JobID

\* Before and after a command there is nothing of it: no process, no child, no
\* scanner and no line in a pipe.
NoCommand(j) ==
    /\ shell[j] = "none" /\ ~orphan[j]
    /\ \A s \in Pipes(j) : reader[s] = "off" /\ pipe[s] = 0

\* A scanner holds a chunk only while it reads; it has seen the end of the pipe
\* only if nobody can write to it any more; and otherwise a line was too long.
ScannerInv(s) ==
    /\ reader[s] # "on" => held[s] = <<>>
    /\ reader[s] = "eof" =>
         pipe[s] = 0 /\ shell[JobOf[s]] # "running" /\ ~orphan[JobOf[s]]
    /\ reader[s] = "stopped" => s \in long

JobInv(j) ==
    /\ job[j].pc \notin {"stream", "wait"} => NoCommand(j)
    /\ job[j].pc = "wait" => \A s \in Pipes(j) : reader[s] \in {"eof", "stopped"}
    /\ job[j].pc \in {"result", "done"} /\ logStream[j] = "open" => wire[j] = <<>>

ExecInv ==
    /\ ExecTypeOK
    /\ \A j \in JobID : JobInv(j)
    /\ \A s \in Scanner : ScannerInv(s)
    /\ OutputRead

-----------------------------------------------------------------------------
(* Lemmas *)

\* Goto only moves the goroutine of its job, and to a well-typed place.
LEMMA GotoStep ==
    ASSUME ExecTypeOK, NEW j \in JobID, NEW pc \in JobPlace, NEW i \in Nat,
           NEW ok \in BOOLEAN, Goto(j, pc, i, ok)
    PROVE  /\ job' \in [JobID -> JobState]
           /\ job'[j].pc = pc
           /\ \A k \in JobID \ {j} : job'[k] = job[k]
BY DEF ExecTypeOK, Goto, JobState

\* Wait and CloseLog move the goroutine on.
LEMMA JobMoves ==
    ASSUME ExecTypeOK, NEW k \in JobID, Wait(k) \/ CloseLog(k)
    PROVE  /\ job' \in [JobID -> JobState]
           /\ \/ Wait(k) /\ job'[k].pc \in {"next", "close"}
              \/ CloseLog(k) /\ job'[k].pc = "result"
           /\ \A j \in JobID \ {k} : job'[j] = job[j]
<1>1. job[k].i \in Nat /\ job[k].ok \in BOOLEAN
  BY DEF ExecTypeOK, JobState
<1>2. CASE Wait(k)
  <2>1. \/ Goto(k, "next", job[k].i + 1, FALSE)
        \/ Goto(k, "close", job[k].i, FALSE)
    BY <1>2 DEF Wait
  <2>2. job[k].i + 1 \in Nat
    BY <1>1
  <2> QED
    BY <1>1, <1>2, <2>1, <2>2, GotoStep DEF JobPlace
<1>3. CASE CloseLog(k)
  <2>1. Goto(k, "result", job[k].i, job[k].ok)
    BY <1>3 DEF CloseLog
  <2> QED
    BY <1>1, <1>3, <2>1, GotoStep DEF JobPlace
<1> QED
  BY <1>2, <1>3

\* The steps of the master and of a viewer take chunks off a log stream and
\* leave the agent alone.
LEMMA LogFrame ==
    ASSUME ExecTypeOK, LogStep
    PROVE  /\ UNCHANGED <<held, xvars>>
           /\ DOMAIN wire' = JobID
           /\ \A j \in JobID : wire[j] = <<>> => wire'[j] = <<>>
<1>1. UNCHANGED xvars
  BY DEF LogStep
<1>2. ASSUME NEW k \in JobID, SendLog(k)
      PROVE  /\ UNCHANGED held
             /\ DOMAIN wire' = JobID
             /\ \A j \in JobID : wire[j] = <<>> => wire'[j] = <<>>
  <2>1. UNCHANGED held /\ wire[k] # <<>> /\ wire' = [wire EXCEPT ![k] = Tail(@)]
    BY <1>2 DEF SendLog
  <2> QED
    BY <2>1 DEF ExecTypeOK
<1>3. ASSUME Poll \/ Check \/ Abort \/ Tick \/ RunEnds
      PROVE  UNCHANGED <<held, wire>>
  BY <1>3 DEF Poll, Check, Abort, Tick, RunEnds
<1> QED
  BY <1>1, <1>2, <1>3 DEF LogStep, ExecTypeOK

-----------------------------------------------------------------------------
(* The invariant is inductive *)

\* In the beginning there is no command and no log stream.
LEMMA ExecInvInit == ExecInit => ExecInv
BY DEF ExecInit, LogsInit, ExecInv, ExecTypeOK, JobState, JobPlace, Process,
       JobInv, ScannerInv, NoCommand, Pipes, OutputRead

\* No step of the agent, its processes, its context or the master breaks it.
LEMMA ExecInvStep == ExecInv /\ [ExecNext]_evars => ExecInv'
<1> SUFFICES ASSUME ExecInv, [ExecNext]_evars
             PROVE  ExecInv'
  OBVIOUS
<1> USE JobOfAssumption, ErrOfAssumption
    DEF ExecInv, ExecTypeOK, JobState, JobPlace, Process, JobInv, ScannerInv,
        NoCommand, Pipes, OutputRead, lvars
<1>1. ASSUME NEW k \in JobID, handleJob(k)
      PROVE  ExecInv'
  BY <1>1 DEF handleJob, Goto
<1>2. ASSUME NEW k \in JobID, StartCommand(k)
      PROVE  ExecInv'
  BY <1>2 DEF StartCommand, Goto
<1>3. ASSUME NEW k \in JobID, StartFails(k)
      PROVE  ExecInv'
  BY <1>3 DEF StartFails, Goto
<1>4. ASSUME NEW k \in JobID, RunReturns(k)
      PROVE  ExecInv'
  BY <1>4 DEF RunReturns, Goto
<1>5. ASSUME NEW k \in JobID, AwaitScanners(k)
      PROVE  ExecInv'
  BY <1>5 DEF AwaitScanners, Scanned, Goto
<1>6. ASSUME NEW k \in JobID, Wait(k)
      PROVE  ExecInv'
  <2>1. /\ job' \in [JobID -> JobState]
        /\ job'[k].pc \in {"next", "close"}
        /\ \A j \in JobID \ {k} : job'[j] = job[j]
    BY <1>6, JobMoves DEF Wait, CloseLog
  <2>2. OutputRead'
    BY <1>6 DEF Wait
  <2>3. ExecTypeOK'
    BY <1>6, <2>1, <2>2 DEF Wait
  <2>4. ASSUME NEW j \in JobID
        PROVE  JobInv(j)'
    BY <1>6, <2>1, <2>2 DEF Wait
  <2>5. ASSUME NEW s \in Scanner
        PROVE  ScannerInv(s)'
    BY <1>6, <2>1, <2>2 DEF Wait
  <2> QED
    BY <2>1, <2>2, <2>3, <2>4, <2>5
<1>7. ASSUME NEW k \in JobID, CloseLog(k)
      PROVE  ExecInv'
  <2>1. /\ job' \in [JobID -> JobState]
        /\ job'[k].pc = "result"
        /\ \A j \in JobID \ {k} : job'[j] = job[j]
    BY <1>7, JobMoves DEF Wait, CloseLog
  <2>2. /\ job[k].pc = "close"
        /\ logStream' \in [JobID -> {"none", "open", "broken"}]
        /\ logStream'[k] = "open" => wire[k] = <<>>
        /\ \A j \in JobID \ {k} : logStream'[j] = logStream[j]
    BY <1>7 DEF CloseLog
  <2>3. UNCHANGED <<lvars, shell, orphan, pipe, reader, long, dropped>>
    BY <1>7 DEF CloseLog
  <2>4. ExecTypeOK'
    BY <2>1, <2>2, <2>3
  <2>5. ASSUME NEW j \in JobID
        PROVE  JobInv(j)'
    <3>1. CASE j = k
      <4>1. NoCommand(k)
        BY <2>2
      <4>2. NoCommand(k)'
        BY <2>3, <4>1
      <4> QED
        BY <2>1, <2>2, <2>3, <3>1, <4>2
    <3>2. CASE j # k
      BY <2>1, <2>2, <2>3, <3>2
    <3> QED
      BY <3>1, <3>2
  <2>6. ASSUME NEW s \in Scanner
        PROVE  ScannerInv(s)'
    BY <2>1, <2>2, <2>3
  <2> QED
    BY <2>1, <2>2, <2>3, <2>4, <2>5, <2>6
<1>8. ASSUME NEW k \in JobID, Report(k)
      PROVE  ExecInv'
  BY <1>8 DEF Report, Goto
<1>9. ASSUME NEW k \in JobID, Timeout(k)
      PROVE  ExecInv'
  BY <1>9 DEF Timeout
<1>10. ASSUME NEW k \in JobID, ShellExits(k) \/ Kill(k)
       PROVE  ExecInv'
  <2>1. PICK how \in {"ok", "failed", "killed"} : ShellEnds(k, how)
    BY <1>10 DEF ShellExits, Kill
  <2>2. /\ shell[k] = "running" /\ shell' = [shell EXCEPT ![k] = how]
        /\ orphan' \in [JobID -> BOOLEAN]
        /\ \A j \in JobID \ {k} : orphan'[j] = orphan[j]
    BY <2>1 DEF ShellEnds
  <2>3. UNCHANGED <<lvars, job, pipe, reader, logStream, long, dropped>>
    BY <2>1 DEF ShellEnds
  <2> QED
    BY <2>2, <2>3
<1>11. ASSUME NEW k \in JobID, OrphanExits(k)
       PROVE  ExecInv'
  BY <1>11 DEF OrphanExits
<1>12. ASSUME NEW t \in Scanner, Read(t)
       PROVE  ExecInv'
  BY <1>12 DEF Read, Scan
<1>13. ASSUME NEW t \in Scanner, ScanEnds(t)
       PROVE  ExecInv'
  BY <1>13 DEF ScanEnds
<1>14. ASSUME NEW t \in Scanner, Sink(t)
       PROVE  ExecInv'
  <2>1. job[JobOf[t]].pc = "stream"
    BY <1>14 DEF Sink, Send
  <2>2. /\ DOMAIN wire' = JobID
        /\ \A j \in JobID \ {JobOf[t]} : wire'[j] = wire[j]
    BY <1>14 DEF Sink, Send
  <2>3. /\ logStream' \in [JobID -> {"none", "open", "broken"}]
        /\ \A j \in JobID \ {JobOf[t]} : logStream'[j] = logStream[j]
    BY <1>14 DEF Sink
  <2>4. /\ held' = [held EXCEPT ![t] = <<>>]
        /\ UNCHANGED <<job, shell, orphan, pipe, reader, long, dropped>>
    BY <1>14 DEF Sink, Send
  <2>5. ExecTypeOK'
    BY <2>1, <2>2, <2>3, <2>4
  <2>6. ASSUME NEW j \in JobID
        PROVE  JobInv(j)'
    <3>1. CASE j = JobOf[t]
      BY <2>1, <2>2, <2>3, <2>4, <3>1
    <3>2. CASE j # JobOf[t]
      BY <2>1, <2>2, <2>3, <2>4, <3>2
    <3> QED
      BY <3>1, <3>2
  <2>7. ASSUME NEW s \in Scanner
        PROVE  ScannerInv(s)'
    BY <2>1, <2>2, <2>3, <2>4
  <2> QED
    BY <2>1, <2>2, <2>3, <2>4, <2>5, <2>6, <2>7
<1>15. ASSUME NEW t \in Scanner, ScanStops(t)
       PROVE  ExecInv'
  BY <1>15 DEF ScanStops
<1>16. ASSUME NEW t \in Scanner, Write(t)
       PROVE  ExecInv'
  BY <1>16 DEF Write
<1>17. CASE LogStep
  BY <1>17, LogFrame DEF xvars
<1>18. CASE UNCHANGED evars
  BY <1>18 DEF evars, xvars
<1> QED
  BY <1>1, <1>2, <1>3, <1>4, <1>5, <1>6, <1>7, <1>8, <1>9, <1>10, <1>11, <1>12,
     <1>13, <1>14, <1>15, <1>16, <1>17, <1>18
     DEF ExecNext, JobStep, ScannerStep

-----------------------------------------------------------------------------
(* Theorems *)

\* Every reachable state satisfies the invariant: the goroutines, processes and
\* pipes are in states that belong together (executor.go:46-98).
THEOREM ExecutorTypeCorrect == ExecSpec => []ExecInv
<1>1. ExecInit => ExecInv
  BY ExecInvInit
<1>2. ExecInv /\ [ExecNext]_evars => ExecInv'
  BY ExecInvStep
<1> QED
  BY <1>1, <1>2, PTL DEF ExecSpec

\* Wait closes no pipe with lines in it, for any jobs, commands and pipe sizes:
\* wg.Wait comes before it (executor.go:85-90).
THEOREM ExecutorOutputRead == ExecSpec => []OutputRead
<1>1. ExecInv => OutputRead
  BY DEF ExecInv
<1> QED
  BY <1>1, ExecutorTypeCorrect, PTL

\* No result overtakes the log it belongs to, for any number of jobs that share
\* the master and any failures of their streams (agent.go:92-106).
THEOREM ExecutorLogsPrecedeResult == ExecSpec => []LogsPrecedeResult
<1>1. ExecInv => LogsPrecedeResult
  BY DEF ExecInv, JobInv, ScannerInv, NoCommand, LogsPrecedeResult, Pipes
<1> QED
  BY <1>1, ExecutorTypeCorrect, PTL
=============================================================================
