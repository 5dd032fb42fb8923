CONSTANTS
    Messages = {m1, m2}
    Clients = {c1, c2}
    Inbox = Inbox
    None = None
    ReplyToScheduled = FALSE
    MaxRequests = 4
    MaxFaults = 1
SPECIFICATION LiveSpec
INVARIANTS TypeOK PendingIsUnsent SentAtMostOnce FailedIsUnsent
PROPERTIES CancelHolds NoneLostUnsent PendingEnds
