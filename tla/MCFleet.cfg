\* Two agents, one of which reconnects once, and three jobs.
CONSTANTS
    a1 = a1  a2 = a2  c1 = c1  c2 = c2  c3 = c3
    Agent = {a1, a2}
    Conn = {c1, c2, c3}
    Owner <- MCOwner
    Capacity <- MCCapacity
    Job = {j1, j2, j3}
    None = None
SYMMETRY MCSymmetry
SPECIFICATION FleetSpec
INVARIANTS FleetTypeOK ConnWithinCapacity EntryHasHandler PickStaysLeastLoaded
CHECK_DEADLOCK FALSE
