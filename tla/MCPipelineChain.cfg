\* Nothing calls Advance again after the result of a arrives.
CONSTANTS
    a = a  b = b  s = s  s1 = s1  s2 = s2  onMain = onMain
    Run = {r1}
    NodeID = {a, b, s, s1, s2}
    Condition = {onMain}
    Pipelines <- MCChain
    Contexts <- MCNoContext
    Extra = {}
    Serial = TRUE
    Completer = {c1}
    Faults = {}
    Cancellable = {}
SPECIFICATION LiveSpec
PROPERTIES ReadyNodesScheduled
CHECK_DEADLOCK FALSE
