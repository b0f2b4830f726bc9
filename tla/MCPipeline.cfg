\* One run, a second caller of Advance, two concurrent results, every fault.
CONSTANTS
    a = a  b = b  s = s  s1 = s1  s2 = s2  onMain = onMain
    Run = {r1}
    NodeID = {a, b, s, s1, s2}
    Condition = {onMain}
    Pipelines <- MCPipelines
    Contexts <- MCContexts
    Extra = {"webhook"}
    Serial = TRUE
    Completer = {c1, c2}
    Faults = {"db", "dispatch"}
    Cancellable = {r1}
SPECIFICATION Spec
INVARIANTS TypeOK DispatchOnce DispatchJustified VerdictSound
PROPERTIES NodeLifecycle ImplementsLifecycle
CHECK_DEADLOCK FALSE
