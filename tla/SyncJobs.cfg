CONSTANTS
    Tick = Tick
    MaxRuns = 2
    Accounts = {a1}
    Api = {p1}
    None = None
    MaxFaults = 2
SPECIFICATION LiveSpec
INVARIANTS TypeOK QueuedIsPending
PROPERTIES EndStands OpenEnds AccountIsFreed
CHECK_DEADLOCK FALSE
