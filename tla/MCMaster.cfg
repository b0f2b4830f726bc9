\* A submission and a delivery, two processes, every fault.
CONSTANTS
    a = a  b = b  s = s  s1 = s1  onMain = onMain  onManual = onManual
    Run = {r1, r2}
    NodeID = {a, b, s, s1}
    Condition = {onMain, onManual}
    Pipelines <- MCPipelines
    Contexts <- MCContexts
    Extra = {"cli"}
    Serial = TRUE
    Completer = {}
    Faults = {"db", "dispatch"}
    Cancellable = {}
    Delivery = {d1}
    Request <- MCRequest
    Secret = TRUE
    ManualContext <- MCManual
    Submitted = {r1}
    Peer = {p1}
    MaxBoots = 2
    MaxSends = 1
    NoRun = NoRun
SPECIFICATION MasterSpec
INVARIANTS DispatchOnce AnsweredStarted
PROPERTIES CleanExit ShutdownEnds
CHECK_DEADLOCK FALSE
