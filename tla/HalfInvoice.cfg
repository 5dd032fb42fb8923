CONSTANTS
    Web = {o1}
    Manual = {p1}
    Clients = {c1}
    None = None
    Lines = 2
    MaxNumber = 4
    MaxJobs = 3
    MaxLooks = 2
    MaxFaults = 2
    MaxHands = 1
SPECIFICATION Spec
CHECK_DEADLOCK FALSE
INVARIANTS LinkedIsWhole
