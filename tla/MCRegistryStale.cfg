\* The old stream of a reconnected agent ends late.
CONSTANTS
    a1 = a1  a2 = a2  c1 = c1  c2 = c2  c3 = c3
    Agent = {a1, a2}
    Conn = {c1, c2, c3}
    Owner <- MCOwner
    Capacity <- MCCapacity
    Job = {j1}
    None = None
SPECIFICATION Spec
INVARIANTS ConnectedListed
CHECK_DEADLOCK FALSE
