CONSTANTS
    w1 = w1  w2 = w2  a1 = a1  r1 = r1  r2 = r2  r3 = r3  r4 = r4  c1 = c1  c2 = c2
    None = None
    Steps <- MCSteps
    Root = "trigger"
    StepType <- MCStepType
    Edges <- MCEdges
    StepRank <- MCRank
    Events <- MCEvents
    Awaits <- MCAwaits
    Troubles = {"failed", "raise"}
    Workers = {w1}
    Api = {a1}
    InlineEvents = TRUE
    Runs = {r1, r2}
    Contacts = {c1}
    Reentry = FALSE
    TriggerEvents = {"enter"}
    CancelEvents = {"stop"}
    CronTrigger = FALSE
    MaxSteps = 4
    MaxArrivals = 2
    MaxFaults = 1
SPECIFICATION Spec
SYMMETRY RunSymmetry
INVARIANTS SlotInv EndInv
