\* The agent reports the result of its job.
CONSTANTS
    a1 = a1  c1 = c1  s = s  s1 = s1  r1 = r1
    Agent = {a1}
    Conn = {c1}
    Owner <- MCOwner
    Capacity <- MCCapacity
    Job <- MCJob
    None = None
    Run = {r1}
    NodeID = {s, s1}
    Condition = {}
    Pipelines <- MCPipelines
    Contexts <- MCContexts
    Faults = {"dispatch"}
    Reader = {}
    RunOf <- MCRunOf
SPECIFICATION AssemblySpec
PROPERTIES ResultsReachRows
CHECK_DEADLOCK FALSE
