----------------------------- MODULE Brazierfile -----------------------------
(***************************************************************************)
(* From a Brazierfile to a run: the builders of the SDKs                   *)
(* (sdk/go/brazier.go, sdk/ts/src/pipeline.ts), the process that prints    *)
(* the spec, ExecBrazierfile (internal/workflow/executor.go), which runs   *)
(* it, and the commands run and trigger of the client, which submit it     *)
(* (cmd/cli/cmd).                                                          *)
(*                                                                         *)
(* A program is a sequence of SDK calls. A builder stands for its node and *)
(* for its id; in both languages a stage and a pipeline keep references to *)
(* the nodes, so that what is called on one afterwards still counts. The   *)
(* command runs under a context nothing cancels: the timeout               *)
(* ExecBrazierfile makes comes after the command was bound to the context  *)
(* without it. A program prints nothing of its own to its stdout.          *)
(***************************************************************************)
EXTENDS Naturals, Sequences

CONSTANTS
    Builder,     \* the JobNodes and StageNodes of a program
    Expression,  \* the conditions a program gives to its nodes
    Programs,    \* the programs, sequences of calls
    Mishaps,     \* "program", "write", "child", "rpc": what may go wrong
    MaxCommands, \* bound: commands given one after the other
    NoFile       \* no such file

\* One SDK call: its receiver or result, and its arguments.
SDKCall(op, on, args) == [op |-> op, on |-> on, args |-> args]
Op == {"Job", "Stage", "DependsOn", "When", "NewPipeline", "Run", "Hang"}
Makes(call, b) == call.op \in {"Job", "Stage"} /\ call.on = b
Lang == {"go", "ts"}

\* What the compiler sees to and what a call means: a builder is made once,
\* before it is used, and a stage holds jobs; a program makes one pipeline, and
\* nothing is executed after its Run. Listed are the calls a program executes,
\* in their order.
WellFormed(p) ==
    /\ p \in Seq([op : Op, on : Builder, args : Seq(Builder \cup Expression)])
    /\ \A i \in 1..Len(p) :
         LET Made(b) == \E k \in 1..(i - 1) : Makes(p[k], b)
             MadeJob(b) == \E k \in 1..(i - 1) : p[k].op = "Job" /\ p[k].on = b IN
         /\ \A k \in 1..Len(p) : Makes(p[i], p[i].on) /\ Makes(p[k], p[i].on) => k = i
         /\ p[i].op \in {"DependsOn", "When"} => Made(p[i].on)
         /\ p[i].op = "Stage" => \A j \in 1..Len(p[i].args) : MadeJob(p[i].args[j])
         /\ p[i].op = "NewPipeline" => \A j \in 1..Len(p[i].args) : Made(p[i].args[j])
         /\ p[i].op = "NewPipeline" =>
              \A k \in 1..Len(p) : p[k].op = "NewPipeline" => k = i
         /\ p[i].op = "Run" =>
              i = Len(p) /\ \E k \in 1..Len(p) : p[k].op = "NewPipeline"

ASSUME ProgramsAssumption == \A p \in Programs : WellFormed(p)

VARIABLES
    files,      \* files[lang]: the program in Brazierfile.lang, or NoFile
    proc,       \* the process: its program and where it is in it; child: another
                \* process has its stdout; cut: a write of it did not go through
    heap,       \* heap[b]: the pb.Node of builder b, once made
    nodeList,   \* the Nodes of the PipelineSpec: pointers
    stdout,     \* what the process has written
    command,    \* the command of the client: where it is, and what it read
    started,    \* the specs of the runs SubmitPipeline started, in order
    commands    \* commands given so far

bvars == <<files, proc, heap, nodeList, stdout, command, started, commands>>

NoNode == [kind |-> "nil", jobs |-> <<>>, dependsOn |-> <<>>, conditions |-> <<>>]
NoProcess == [pc |-> "none", lang |-> "go", prog |-> <<>>, at |-> 1,
              child |-> FALSE, cut |-> FALSE]

BrazierfileInit ==
    /\ files \in [Lang -> Programs \cup {NoFile}]
    /\ proc = NoProcess
    /\ heap = [b \in Builder |-> NoNode]
    /\ nodeList = <<>> /\ stdout = <<>>
    /\ command = [pc |-> "idle", spec |-> <<>>]
    /\ started = <<>> /\ commands = 0

-----------------------------------------------------------------------------
(* The SDK *)

\* proto.Marshal of a node: the message behind the pointer.
Message(h, b) == [id |-> b, kind |-> h[b].kind, dependsOn |-> h[b].dependsOn,
                  conditions |-> h[b].conditions]
Marshal(h, list) ==
    [i \in 1..Len(list) |->
       [node |-> Message(h, list[i]),
        jobs |-> [k \in 1..Len(h[list[i]].jobs) |-> Message(h, h[list[i]].jobs[k])]]]

\* Job makes a node; Stage one that keeps the pointers of its jobs.
JobNode == [NoNode EXCEPT !.kind = "Job"]
StageNode(jobs) == [NoNode EXCEPT !.kind = "Stage", !.jobs = jobs]

\* DependsOn and When append to the node of their receiver.
DependsOnMore(node, ids) == [node EXCEPT !.dependsOn = @ \o ids]
WhenMore(node, conds) == [node EXCEPT !.conditions = @ \o conds]

-----------------------------------------------------------------------------
(* The process *)

Running == proc.pc = "running" /\ proc.at <= Len(proc.prog)
Here == proc.prog[proc.at]
GoOn == proc' = [proc EXCEPT !.at = @ + 1]

\* A call on the builder b.
Build(b) ==
    /\ Running /\ Here.on = b
    /\ \E node \in CASE Here.op = "Job" -> {JobNode}
                   [] Here.op = "Stage" -> {StageNode(Here.args)}
                   [] Here.op = "DependsOn" -> {DependsOnMore(heap[b], Here.args)}
                   [] Here.op = "When" -> {WhenMore(heap[b], Here.args)}
                   [] OTHER -> {} :
         heap' = [heap EXCEPT ![b] = node]
    /\ GoOn
    /\ UNCHANGED <<files, nodeList, stdout, command, started, commands>>

\* Every option appends the pointer of its node.
NewPipeline ==
    /\ Running /\ Here.op = "NewPipeline"
    /\ nodeList' = Here.args
    /\ GoOn
    /\ UNCHANGED <<files, heap, stdout, command, started, commands>>

\* The program ends on its own: by a panic, or by os.Exit(1) of a Run that
\* cannot marshal; or main returns without a call of Run.
Quit(how) ==
    /\ proc' = [proc EXCEPT !.pc = how]
    /\ UNCHANGED <<files, heap, nodeList, stdout, command, started, commands>>
Panic == "program" \in Mishaps /\ Running /\ Quit("exit1")
ReturnMain == proc.pc = "running" /\ proc.at > Len(proc.prog) /\ Quit("exit0")

\* Run writes the bytes; each piece that reaches the reader is a whole field of
\* the message. os.Exit(0) when all is written.
RunWrite ==
    /\ Running /\ Here.op = "Run"
    /\ LET message == Marshal(heap, nodeList) IN
         IF Len(stdout) < Len(message)
         THEN /\ stdout' = Append(stdout, message[Len(stdout) + 1])
              /\ UNCHANGED proc
         ELSE proc' = [proc EXCEPT !.pc = "exit0"] /\ UNCHANGED stdout
    /\ UNCHANGED <<files, heap, nodeList, command, started, commands>>

\* The write fails, or is cut short, before all is written. Run of the Go SDK
\* looks at its result and ends with os.Exit(1); run of the TypeScript SDK does
\* not and ends with process.exit(0).
RunWriteFails ==
    /\ "write" \in Mishaps /\ Running /\ Here.op = "Run"
    /\ Len(stdout) < Len(nodeList)
    /\ proc' = [proc EXCEPT !.pc = IF proc.lang = "go" THEN "exit1" ELSE "exit0",
                            !.cut = TRUE]
    /\ UNCHANGED <<files, heap, nodeList, stdout, command, started, commands>>

\* The program starts a process that has its stdout and may outlive it.
SpawnChild ==
    /\ "child" \in Mishaps /\ Running /\ ~proc.child
    /\ proc' = [proc EXCEPT !.child = TRUE]
    /\ UNCHANGED <<files, heap, nodeList, stdout, command, started, commands>>
ChildEnds ==
    /\ proc.child
    /\ proc' = [proc EXCEPT !.child = FALSE]
    /\ UNCHANGED <<files, heap, nodeList, stdout, command, started, commands>>

-----------------------------------------------------------------------------
(* The client *)

\* detectBrazierfile: Brazierfile.go before Brazierfile.ts.
detectBrazierfile ==
    IF files["go"] # NoFile THEN "go" ELSE IF files["ts"] # NoFile THEN "ts" ELSE "none"

\* brazier run: the program is started on an empty heap, its output goes to an
\* empty buffer.
RunCommand ==
    /\ command.pc = "idle" /\ commands < MaxCommands
    /\ commands' = commands + 1
    /\ IF detectBrazierfile = "none"
       THEN command' = [pc |-> "failed", spec |-> <<>>] /\ UNCHANGED proc
       ELSE /\ command' = [pc |-> "exec", spec |-> <<>>]
            /\ proc' = [NoProcess EXCEPT !.pc = "running", !.lang = detectBrazierfile,
                                         !.prog = files[detectBrazierfile]]
    /\ heap' = [b \in Builder |-> NoNode]
    /\ nodeList' = <<>> /\ stdout' = <<>>
    /\ UNCHANGED <<files, started>>

\* The exit status is not looked at.
MutExecReturns ==
    /\ command.pc = "exec" /\ proc.pc \in {"exit0", "exit1"} /\ ~proc.child
    /\ command' = [pc |-> "submit", spec |-> stdout]
    /\ UNCHANGED <<files, proc, heap, nodeList, stdout, started, commands>>

\* cmd.Run returns when the process is gone and nobody else has the pipe to the
\* buffer; an error of it ends the command, and so do bytes that end within a
\* field of the message. No bytes at all are a valid, empty spec.
ExecReturns ==
    /\ command.pc = "exec" /\ proc.pc \in {"exit0", "exit1"} /\ ~proc.child
    /\ \/ /\ proc.pc = "exit0"
          /\ command' = [pc |-> "submit", spec |-> stdout]
       \/ /\ proc.pc = "exit1" \/ proc.cut
          /\ command' = [pc |-> "failed", spec |-> <<>>]
    /\ UNCHANGED <<files, proc, heap, nodeList, stdout, started, commands>>

\* brazier trigger: a spec without nodes.
TriggerCommand ==
    /\ command.pc = "idle" /\ commands < MaxCommands
    /\ commands' = commands + 1
    /\ command' = [pc |-> "submit", spec |-> <<>>]
    /\ UNCHANGED <<files, proc, heap, nodeList, stdout, started>>

\* submitPipeline: the call succeeds, or fails before or after the master has
\* started the run.
submitPipeline ==
    /\ command.pc = "submit"
    /\ \/ /\ started' = Append(started, command.spec)
          /\ \/ command' = [command EXCEPT !.pc = "printed"]
             \/ "rpc" \in Mishaps /\ command' = [command EXCEPT !.pc = "failed"]
       \/ /\ "rpc" \in Mishaps
          /\ UNCHANGED started
          /\ command' = [command EXCEPT !.pc = "failed"]
    /\ UNCHANGED <<files, proc, heap, nodeList, stdout, commands>>

\* The command ends and the user may give another one, after an edit too.
CommandEnds ==
    /\ command.pc \in {"printed", "failed"}
    /\ command' = [pc |-> "idle", spec |-> <<>>]
    /\ \E l \in Lang, p \in Programs \cup {NoFile} :
         files' \in {files, [files EXCEPT ![l] = p]}
    /\ proc' = NoProcess
    /\ UNCHANGED <<heap, nodeList, stdout, started, commands>>

BrazierfileNext ==
    \/ \E b \in Builder : Build(b)
    \/ NewPipeline \/ RunWrite \/ RunWriteFails \/ ReturnMain \/ Panic
    \/ SpawnChild \/ ChildEnds
    \/ RunCommand \/ ExecReturns \/ TriggerCommand \/ submitPipeline \/ CommandEnds

BrazierfileSpec == BrazierfileInit /\ [][BrazierfileNext]_bvars

-----------------------------------------------------------------------------
(* Properties *)

\* Given(p, op, b)[n]: all arguments of the calls of op on builder b among the
\* first n, in the order of the program.
Given(p, op, b) ==
    LET args[n \in 0..Len(p)] ==
          IF n = 0 THEN <<>>
          ELSE args[n - 1] \o (IF p[n].op = op /\ p[n].on = b THEN p[n].args ELSE <<>>)
    IN args
AllArgs(p, op, b) == Given(p, op, b)[Len(p)]

Kind(p, b) == (CHOOSE call \in {p[i] : i \in DOMAIN p} : Makes(call, b)).op

\* What a program declares, read off its text: whatever the order of the
\* calls, every node has all the dependencies and conditions given to it.
Declared(p) ==
    LET node(b) == [id |-> b, kind |-> Kind(p, b),
                    dependsOn |-> AllArgs(p, "DependsOn", b),
                    conditions |-> AllArgs(p, "When", b)]
        list == (CHOOSE call \in {p[i] : i \in DOMAIN p} : call.op = "NewPipeline").args
    IN [i \in 1..Len(list) |->
          [node |-> node(list[i]),
           jobs |-> LET jobs == AllArgs(p, "Stage", list[i])
                    IN [k \in 1..Len(jobs) |-> node(jobs[k])]]]

CallsRun(p) == \E i \in DOMAIN p : p[i].op = "Run"

\* SubmittedWhole: a program that crashed or was cut off never becomes a run: the
\* spec about to be submitted for a program that calls Run is the whole of what
\* the program declares, also where a builder was changed after a stage or the
\* pipeline had taken it, and for one that does not call Run it is empty
\* (executor.go:44-52, brazier.go:45-57, 72-130). The one exception is a program
\* in TypeScript whose write did not go through: the nodes that came out.
SubmittedWhole ==
    command.pc = "submit" /\ proc.pc # "none" =>
      LET whole == IF CallsRun(proc.prog) THEN Declared(proc.prog) ELSE <<>>
      IN \/ command.spec = whole
         \/ /\ proc.lang = "ts" /\ proc.cut
            /\ \E n \in 0..(Len(whole) - 1) : command.spec = SubSeq(whole, 1, n)
=============================================================================
