\* Two runs, an agent that connects once, and a client that asks for one of them.
CONSTANTS
    a1 = a1  c1 = c1  s = s  s1 = s1  r1 = r1
    Agent = {a1}
    Conn = {c1}
    Owner <- MCOwner
    Capacity <- MCCapacity
    Job <- MCJob
    None = None
    Run = {r1, r2}
    NodeID = {s, s1}
    Condition = {}
    Pipelines <- MCPipelines
    Contexts <- MCContexts
    Faults = {"db", "dispatch"}
    Reader = {q1}
    RunOf <- MCRunOf
SPECIFICATION AssemblySpec
INVARIANTS SentOnGrounds StatusComplete
PROPERTIES AdvanceReturns DeadStreamsLeave
CHECK_DEADLOCK FALSE
