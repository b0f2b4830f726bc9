-------------------------------- MODULE Logs --------------------------------
(***************************************************************************)
(* The way of a log line: the two scanners of runCommand                   *)
(* (internal/executor/executor.go) stamp it and send it on the log stream  *)
(* of handleJob (internal/client/agent.go), the SendLog handler of the     *)
(* master appends it to log_chunks, and the StreamLogs handler             *)
(* (internal/api/server.go) polls the table for a client. All of one run.  *)
(***************************************************************************)
EXTENDS Integers, Sequences, SequencesExt

CONSTANTS
    JobID,      \* ids of the jobs of the run
    Scanner,    \* goroutines that read a pipe of a command
    JobOf,      \* JobOf[s]: the job whose command s reads
    Skew,       \* Skew[j]: how far the clock of the agent of j is ahead
    MaxLines,   \* bound: lines a scanner reads
    MaxTime,    \* bound: time.Now() on the master
    Faults      \* "send": the client stream may lose a line; "db": AppendLog fails

ASSUME JobOfAssumption == JobOf \in [Scanner -> JobID]
ASSUME SkewAssumption == Skew \in [JobID -> Nat]
ASSUME BoundsAssumption == MaxLines \in Nat /\ MaxTime \in Nat

VARIABLES
    now,        \* time in milliseconds, coarse: several lines share one
    lines,      \* lines[s]: lines scanner s has read
    held,       \* held[s]: the chunk s has stamped and not yet sent, or <<>>
    wire,       \* wire[j]: chunks on the log stream of job j
    table,      \* log_chunks in the order of the ids
    run,        \* "running" or "terminal"
    viewer,     \* the StreamLogs handler: "poll", "check" or "done"
    seen,       \* its counter
    sent,       \* what it has sent to its client
    polled      \* history: length of the table at its last GetLogs

lvars == <<now, lines, held, wire, table, run, viewer, seen, sent, polled>>

LogsInit ==
    /\ now = 0
    /\ lines = [s \in Scanner |-> 0]
    /\ held = [s \in Scanner |-> <<>>]
    /\ wire = [j \in JobID |-> <<>>]
    /\ table = <<>>
    /\ run = "running"
    /\ viewer = "poll" /\ seen = 0 /\ sent = <<>> /\ polled = 0

-----------------------------------------------------------------------------
(* The agent *)

\* scanner.Scan returned a line: it gets its time stamp. A chunk is known by its
\* scanner and its number there.
Scan(s) ==
    /\ held[s] = <<>>
    /\ lines[s] < MaxLines
    /\ lines' = [lines EXCEPT ![s] = @ + 1]
    /\ held' = [held EXCEPT ![s] = [s |-> s, n |-> lines[s] + 1, job |-> JobOf[s],
                                    ts |-> now + Skew[JobOf[s]]]]
    /\ UNCHANGED <<now, wire, table, run, viewer, seen, sent, polled>>

\* logStream.Send: the two scanners of a job send in either order. An error
\* is only logged.
Send(s) ==
    /\ held[s] # <<>>
    /\ held' = [held EXCEPT ![s] = <<>>]
    /\ \/ wire' = [wire EXCEPT ![JobOf[s]] = Append(@, held[s])]
       \/ "send" \in Faults /\ UNCHANGED wire
    /\ UNCHANGED <<now, lines, table, run, viewer, seen, sent, polled>>

-----------------------------------------------------------------------------
(* The master *)

\* INSERT INTO log_chunks: the id is the position.
AppendLog(chunk) == table' = Append(table, chunk)

\* One Recv and AppendLog of SendLog; the error of AppendLog is dropped.
SendLog(j) ==
    /\ wire[j] # <<>>
    /\ wire' = [wire EXCEPT ![j] = Tail(@)]
    /\ \/ AppendLog(Head(wire[j]))
       \/ "db" \in Faults /\ UNCHANGED table
    /\ UNCHANGED <<now, lines, held, run, viewer, seen, sent, polled>>

\* ORDER BY timestamp, id.
Earlier(a, b) ==
    \/ table[a].ts < table[b].ts
    \/ table[a].ts = table[b].ts /\ a < b

\* SELECT ... WHERE job_id = j: the row ids in that order. At position k is the
\* row that has k of them up to itself.
GetLogs(j) ==
    LET rows == {i \in DOMAIN table : table[i].job = j}
        upTo(i) == {h \in rows : h = i \/ Earlier(h, i)}
    IN [k \in 1..Cardinality(rows) |->
          CHOOSE i \in rows : Cardinality(upTo(i)) = k]

\* The rows from position n + 1 on.
From(rows, n) == [i \in 1..(Len(rows) - n) |-> table[rows[n + i]]]

\* A tick of StreamLogs: GetLogs with an empty job id, which selects the chunks
\* of a job with that id, and everything from position seen on goes to the client.
Poll ==
    /\ viewer = "poll"
    /\ sent' = sent \o From(GetLogs(""), seen)
    /\ seen' = Len(GetLogs(""))
    /\ polled' = Len(table)
    /\ viewer' = "check"
    /\ UNCHANGED <<now, lines, held, wire, table, run>>

\* GetRun: the handler returns when the run is terminal by now. An error of
\* GetRun is ignored.
Check ==
    /\ viewer = "check"
    /\ \/ viewer' = IF run = "terminal" THEN "done" ELSE "poll"
       \/ "db" \in Faults /\ viewer' = "poll"
    /\ UNCHANGED <<now, lines, held, wire, table, run, seen, sent, polled>>

\* The client goes away, GetLogs fails or Send fails: the handler returns, and
\* what it sent last reaches nobody.
Abort ==
    /\ viewer = "poll"
    /\ viewer' = "done"
    /\ UNCHANGED <<now, lines, held, wire, table, run, seen, sent, polled>>

-----------------------------------------------------------------------------
(* The environment *)

Tick ==
    /\ now < MaxTime
    /\ now' = now + 1
    /\ UNCHANGED <<lines, held, wire, table, run, viewer, seen, sent, polled>>

\* A verdict, or CancelRun, which may come at any time.
RunEnds ==
    /\ run = "running"
    /\ run' = "terminal"
    /\ UNCHANGED <<now, lines, held, wire, table, viewer, seen, sent, polled>>

-----------------------------------------------------------------------------
(* Properties *)

\* LogsStreamed: after a tick the client has got every line of the run that the
\* master had stored when it asked for them (server.go:87-104). It does not
\* hold: the query is for the lines of the job with the empty id, and no job has
\* it.
LogsStreamed ==
    viewer = "check" => \A i \in 1..polled : \E k \in DOMAIN sent : sent[k] = table[i]

=============================================================================
