CONSTANTS
    Workflows = {w1, w2}
    Contacts = {c1, c2}
    Reentry = {w2}
    Clients = {a1}
    None = None
    MaxMoves = 3
    MaxRequests = 2
    MaxFaults = 1
SPECIFICATION LiveSpec
INVARIANTS TypeOK FiresOnce MailedOncePerRun
PROPERTIES FiresOnTransition BaselineHolds ComesInIsNoted
