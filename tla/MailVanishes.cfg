CONSTANTS
    Messages = {m1, m2}
    Clients = {c1, c2}
    Inbox = Inbox
    None = None
    ReplyToScheduled = TRUE
    MaxRequests = 4
    MaxFaults = 1
SPECIFICATION Spec
INVARIANTS SentIsKept
