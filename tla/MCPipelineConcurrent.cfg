\* Two Advance calls of one run overlap.
CONSTANTS
    a = a  b = b  s = s  s1 = s1  s2 = s2  onMain = onMain
    Run = {r1}
    NodeID = {a, b, s, s1, s2}
    Condition = {onMain}
    Pipelines <- MCFlatPipelines
    Contexts <- MCNoContext
    Extra = {"webhook"}
    Serial = FALSE
    Completer = {c1}
    Faults = {}
    Cancellable = {}
SPECIFICATION Spec
INVARIANTS DispatchOnce
CHECK_DEADLOCK FALSE
