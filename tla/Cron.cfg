CONSTANTS
    w1 = w1  w2 = w2  a1 = a1  r1 = r1  r2 = r2  r3 = r3  r4 = r4  c1 = c1  c2 = c2
    None = None
    Steps <- LeadSteps
    Root = "trigger"
    StepType <- LeadStepType
    Edges <- LeadEdges
    StepRank <- LeadRank
    Events <- MCEvents
    Awaits <- LeadAwaits
    Troubles = {"deferred", "raise"}
    Workers = {w1}
    Api = {}
    InlineEvents = FALSE
    Runs = {r1, r2, r3, r4}
    Contacts = {c1, c2}
    Reentry = FALSE
    TriggerEvents = {"enter"}
    CancelEvents = {"stop"}
    CronTrigger = TRUE
    MaxSteps = 6
    MaxArrivals = 2
    MaxFaults = 0
SPECIFICATION Spec
SYMMETRY RunSymmetry
INVARIANTS EmailOnce
PROPERTIES KeepsPromise
