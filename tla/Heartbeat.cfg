CONSTANTS
    Interval = 30
    MaxStarts = 2
    MaxFaults = 1
SPECIFICATION LiveSpec
INVARIANTS TypeOK ChainAlive
PROPERTIES BeatsForever
