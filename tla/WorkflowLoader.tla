--------------------------- MODULE WorkflowLoader ---------------------------
(***************************************************************************)
(* Loader.Load of internal/workflow/loader.go: an in-memory cache in front *)
(* of one clone of the workflows repository, whose work tree every call    *)
(* that misses the cache switches to its version and then executes. The    *)
(* mutex covers the two accesses to the cache and nothing in between.      *)
(*                                                                         *)
(* All calls are for one workflow name: the work tree does not depend on   *)
(* it. What git does is modelled from the commands Load runs.              *)
(***************************************************************************)
EXTENDS Naturals

CONSTANTS
    Call,       \* calls of Load
    Tag,        \* versions that are tags of the repository
    Main,       \* the default branch, the other kind of version
    MaxCommit,  \* bound: commits pushed to the branch
    Failing,     \* "git", "exec": commands that may fail or time out
    None

Version == Tag \cup {Main}

ASSUME MainAssumption == Main \notin Tag
ASSUME NoneAssumption == None \notin Version /\ None \notin Nat
ASSUME BoundAssumption == MaxCommit \in Nat

VARIABLES
    load,       \* load[l]: program counter, version and DAG of call l, and whether it
                \* ran git clone; a DAG is known by the version and the commit the
                \* file that prints it is run from
    cache,      \* cache[v]: the DAG stored for v, or None
    origin,     \* origin[v]: commit of v in the remote repository
    known,      \* known[v]: commit of v the clone knows, or None
    git,        \* the .git directory: "absent", "cloning", "partial", "ready"
    tree,       \* what the work tree holds: version and commit, or None
    overlapped, \* history: a call began while another was in progress
    faulted     \* history: a command failed for a reason of its own, or was killed

wvars == <<load, cache, origin, known, git, tree, overlapped, faulted>>
hist == <<overlapped, faulted>>

LoaderInit ==
    /\ load = [l \in Call |->
         [pc |-> "idle", version |-> None, dag |-> None, first |-> FALSE]]
    /\ cache = [v \in Version |-> None]
    /\ origin = [v \in Version |-> 0]
    /\ known = [v \in Version |-> None]
    /\ git = "absent"
    /\ tree = None
    /\ overlapped = FALSE /\ faulted = FALSE

MoveTo(l, pc) == load' = [load EXCEPT ![l].pc = pc]

\* The call goes on, or returns an error the command had to give: no fault.
Continue(l, pc) == MoveTo(l, pc) /\ UNCHANGED hist

\* The command fails or is killed at its timeout, and so does the call.
MayFail(l, command) ==
    /\ command \in Failing
    /\ MoveTo(l, "failed")
    /\ faulted' = TRUE
    /\ UNCHANGED overlapped

InProgress(l) == load[l].pc \notin {"idle", "done", "failed"}

-----------------------------------------------------------------------------
(* Load *)

\* The first critical section: a hit returns at once.
Load(l, v) ==
    /\ load[l].pc = "idle"
    /\ load' = [load EXCEPT ![l] =
         [pc |-> IF cache[v] # None THEN "done" ELSE "stat",
          version |-> v, dag |-> cache[v], first |-> FALSE]]
    /\ overlapped' = (overlapped \/ \E k \in Call : InProgress(k))
    /\ UNCHANGED <<cache, origin, known, git, tree, faulted>>

\* execWorkflow runs go run, which builds the program that is in the work tree by
\* now and starts it.
ExecBegin(l) ==
    /\ load[l].pc = "exec"
    /\ load' = [load EXCEPT ![l].pc = "running", ![l].dag = tree]
    /\ UNCHANGED <<cache, origin, known, git, tree, hist>>

\* go run comes to its end. Its output is complete unless a process that the
\* program left behind has the pipe as well.
ExecEnds(l) ==
    /\ load[l].pc = "running"
    /\ \/ Continue(l, "store")
       \/ Continue(l, "held")
       \/ MayFail(l, "exec")
    /\ UNCHANGED <<cache, origin, known, git, tree>>

\* The 30 seconds are over: go run is killed and nothing else. The program, when
\* it has been started, lives on with the pipe that cmd.Run reads to its end.
ExecTimeout(l) ==
    /\ load[l].pc = "running"
    /\ MoveTo(l, "failed") \/ MoveTo(l, "killed")
    /\ faulted' = TRUE
    /\ UNCHANGED <<cache, origin, known, git, tree, overlapped>>

\* The last process that has the pipe ends, if it ever does, and cmd.Run returns.
PipeCloses(l) ==
    /\ \/ load[l].pc = "killed" /\ Continue(l, "failed")
       \/ load[l].pc = "held" /\ (Continue(l, "store") \/ MayFail(l, "exec"))
    /\ UNCHANGED <<cache, origin, known, git, tree>>

\* The second critical section.
Store(l) ==
    /\ load[l].pc = "store"
    /\ cache' = [cache EXCEPT ![load[l].version] = load[l].dag]
    /\ Continue(l, "done")
    /\ UNCHANGED <<origin, known, git, tree>>

-----------------------------------------------------------------------------
(* ensureRepo *)

Stat(l) ==
    /\ load[l].pc = "stat"
    /\ Continue(l, IF git = "absent" THEN "clone" ELSE "fetch")
    /\ UNCHANGED <<cache, origin, known, git, tree>>

\* git clone creates the directory, or refuses one that is there.
CloneBegin(l) ==
    /\ load[l].pc = "clone"
    /\ \/ /\ git = "absent" /\ git' = "cloning"
          /\ load' = [load EXCEPT ![l].pc = "cloning", ![l].first = TRUE]
          /\ UNCHANGED hist
       \/ git # "absent" /\ UNCHANGED git /\ Continue(l, "failed")
    /\ UNCHANGED <<cache, origin, known, tree>>

\* --no-tags: only the branch is known; it is checked out.
CloneEnd(l) ==
    /\ load[l].pc = "cloning"
    /\ git' = "ready"
    /\ known' = [known EXCEPT ![Main] = origin[Main]]
    /\ tree' = [version |-> Main, commit |-> origin[Main]]
    /\ Continue(l, "checkout")
    /\ UNCHANGED <<cache, origin>>

\* The clone fails and git removes what it made, or the context ends: git is
\* killed and what it made stays behind.
CloneFails(l) ==
    /\ load[l].pc = "cloning"
    /\ git' \in {"absent", "partial"}
    /\ MayFail(l, "git")
    /\ UNCHANGED <<cache, origin, known, tree>>

\* What is fetched for a version the clone does not know; a local branch does
\* not move.
Learn(v) == IF known[v] = None THEN origin[v] ELSE known[v]

\* --tags is missing as well.
MutFetch(l) ==
    /\ load[l].pc = "fetch"
    /\ \/ /\ git \in {"partial", "ready"}
          /\ Continue(l, "checkout")
          /\ known' = [known EXCEPT ![Main] = Learn(Main)]
          /\ git' = "ready"
       \/ /\ (git # "ready" /\ Continue(l, "failed")) \/ MayFail(l, "git")
          /\ UNCHANGED <<known, git>>
    /\ UNCHANGED <<cache, origin, tree>>

\* A failed fetch is tried again without end.
MutFetchRetry(l) ==
    /\ load[l].pc = "fetch"
    /\ \/ /\ git \in {"partial", "ready"}
          /\ Continue(l, "checkout")
          /\ known' = [v \in Version |-> Learn(v)]
          /\ git' = "ready"
       \/ /\ git # "ready" \/ "git" \in Failing
          /\ Continue(l, "stat")
          /\ UNCHANGED <<known, git>>
    /\ UNCHANGED <<cache, origin, tree>>

\* git fetch --tags: everything becomes known. It fails on a clone that is still
\* being made, and may complete or fail on a half-made one.
Fetch(l) ==
    /\ load[l].pc = "fetch"
    /\ \/ /\ git \in {"partial", "ready"}
          /\ Continue(l, "checkout")
          /\ known' = [v \in Version |-> Learn(v)]
          /\ git' = "ready"
       \/ /\ (git # "ready" /\ Continue(l, "failed")) \/ MayFail(l, "git")
          /\ UNCHANGED <<known, git>>
    /\ UNCHANGED <<cache, origin, tree>>

\* The work tree is left where the previous call put it.
MutCheckout(l) ==
    /\ load[l].pc = "checkout"
    /\ Continue(l, IF known[load[l].version] # None THEN "exec" ELSE "failed")
    /\ UNCHANGED <<cache, origin, known, git, tree>>

\* git checkout version: an unknown version is an error.
Checkout(l) ==
    LET v == load[l].version IN
    /\ load[l].pc = "checkout"
    /\ \/ /\ known[v] # None
          /\ tree' = [version |-> v, commit |-> known[v]]
          /\ Continue(l, "exec")
       \/ /\ (known[v] = None /\ Continue(l, "failed")) \/ MayFail(l, "git")
          /\ UNCHANGED tree
    /\ UNCHANGED <<cache, origin, known, git>>

-----------------------------------------------------------------------------
\* Somebody pushes to the default branch of the workflows repository.
Push ==
    /\ origin[Main] < MaxCommit
    /\ origin' = [origin EXCEPT ![Main] = @ + 1]
    /\ UNCHANGED <<load, cache, known, git, tree, hist>>

LoadStep(l) ==
    \/ Stat(l) \/ CloneBegin(l) \/ CloneEnd(l) \/ CloneFails(l) \/ Fetch(l)
    \/ Checkout(l) \/ ExecBegin(l) \/ ExecTimeout(l) \/ Store(l)

\* What the program that prints the DAG does.
ProgramStep(l) == ExecEnds(l) \/ PipeCloses(l)

LoaderNext ==
    \/ \E l \in Call, v \in Version : Load(l, v)
    \/ \E l \in Call : LoadStep(l) \/ ProgramStep(l)
    \/ Push

\* Goroutines are scheduled, the timeouts come, and git, whose output goes to no
\* pipe of Load, returns when it is killed. The program need not come to an end.
LoaderFairness == \A l \in Call : WF_wvars(LoadStep(l))

LoaderSpec == LoaderInit /\ [][LoaderNext]_wvars /\ LoaderFairness

-----------------------------------------------------------------------------
(* Properties *)

\* CacheExact: as long as calls do not overlap, what is cached for a version
\* was made from that version ("returns the WorkflowDAG for the given name and
\* version", loader.go:36) at a commit it has had, whatever failed, was killed
\* or was left half-made before. Calls that overlap do not have this: the work
\* tree is shared between checkout and execution (loader.go:49, 54).
CacheExact ==
    ~overlapped => \A v \in Version : cache[v] # None =>
      cache[v].version = v /\ cache[v].commit <= origin[v]

\* OthersSucceed: when calls do not overlap and no command fails by itself, a load
\* of a version that exists succeeds, unless it made the clone, which comes
\* without tags, and asked for a tag: every later call fetches the tags
\* (loader.go:75, 81). One call makes the clone.
OthersSucceed ==
    ~overlapped /\ ~faulted =>
      /\ \A l \in Call : load[l].pc = "failed" => load[l].first /\ load[l].version \in Tag
      /\ \A k, l \in Call : load[k].first /\ load[l].first => k = l

\* LoadReturns: every call returns, however calls and failures interleave and
\* whatever a failed clone leaves behind; all it can be kept by is a process that
\* outlives go run and has its output open (loader.go:49-63, 74-92, 104-115).
LoadReturns ==
    \A l \in Call :
      InProgress(l) ~> ~InProgress(l) \/ load[l].pc \in {"killed", "held"}
=============================================================================
