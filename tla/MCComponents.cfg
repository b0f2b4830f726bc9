\* All specs of up to three nodes; all nodes with up to two conditions, on
\* pushes of branches, tags and other refs and on manual runs; two commands of a
\* client; two loads of a tag and a branch that moves once; four goroutines on the
\* bus; a job with two lines on each pipe.
CONSTANTS
    a = a  b = b  c = c  ch1 = ch1  ch2 = ch2  onMain = onMain
    ID <- MCID
    Specs <- MCSpecs
    Char <- MCChar
    Name <- MCName
    Pattern <- MCPattern
    MaxConditions = 2
    Builder <- MCID
    Expression = {onMain}
    Programs <- MCPrograms
    Mishaps = {"program", "write", "child", "rpc"}
    MaxCommands = 2
    NoFile = NoFile
    Call = {l1, l2}
    Tag = {v1}
    Main = main
    MaxCommit = 1
    Failing = {"git", "exec"}
    None = None
    h1 = h1  h2 = h2  h3 = h3  e1 = e1  e2 = e2
    Thread = {1, 2, 3, 4}
    Handler = {h1, h2, h3}
    EventType = {e1, e2}
    Task <- MCTask
    Reaction <- MCReaction
    out = out  err = err
    JobID <- MCJobID
    Scanner = {out, err}
    JobOf <- MCJobOf
    Skew <- MCSkew
    MaxLines = 2
    MaxTime = 1
    Faults = {"send", "db"}
    Commands <- MCCommands
    ErrOf <- MCErrOf
    PipeCap = 1
    ExecFaults = {"start", "long", "orphan"}
SPECIFICATION MCSpec
INVARIANTS DependenciesFirst SortedComplete ErrorsReal TagsSelect SubmittedWhole CacheExact OthersSucceed NoEventMissed OutputRead LogsPrecedeResult
PROPERTIES LoadReturns CallsReturn JobEnds
CHECK_DEADLOCK FALSE
