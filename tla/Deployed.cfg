CONSTANTS
    w1 = w1  w2 = w2  a1 = a1  r1 = r1  r2 = r2  r3 = r3  r4 = r4  c1 = c1  c2 = c2
    None = None
    Steps <- LongSteps
    Root = "trigger"
    StepType <- LongStepType
    Edges <- LongEdges
    StepRank <- LongRank
    Events <- MCEvents
    Awaits <- LongAwaits
    Troubles = {}
    Workers = {w1}
    Api = {a1}
    InlineEvents = FALSE
    Runs = {r1, r2}
    Contacts = {c1}
    Reentry = TRUE
    TriggerEvents = {"enter"}
    CancelEvents = {"stop"}
    CronTrigger = FALSE
    MaxSteps = 3
    MaxArrivals = 3
    MaxFaults = 0
SPECIFICATION LiveSpec
INVARIANTS WaitsAndEmailsAgree ListensIffParked EndedRunsLetGo TypeOK
PROPERTIES CancellingOnlyCloses CancellingEnds
