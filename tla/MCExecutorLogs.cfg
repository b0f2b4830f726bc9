CONSTANTS
    out = out  err = err
    JobID <- MCJobID
    Scanner = {out, err}
    JobOf <- MCJobOf
    Skew <- MCSkew
    MaxLines = 2
    MaxTime = 1
    Faults = {"send", "db"}
    Commands <- MCCommands
    ErrOf <- MCErrOf
    PipeCap = 1
    ExecFaults = {"start", "long", "orphan"}
SPECIFICATION ExecSpec
INVARIANTS LogsStreamed
CHECK_DEADLOCK FALSE
