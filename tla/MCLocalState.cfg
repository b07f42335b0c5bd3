CONSTANTS
    p1 = p1
    p2 = p2
    hibp = hibp
    ipqs = ipqs
    Processes <- MCProcesses
    Keys <- MCKeys
    Cap = 2
    PeriodLength = 2
    MaxTime = 3
    MaxCommands = 3
    MaxReserved = 4
SPECIFICATION LocalSpec
SYMMETRY MCSymmetry
INVARIANTS
    CapHolds
    RefusedWhenSpent
    CountedBeforeMade
    NothingLostAlone
    HourBound
CHECK_DEADLOCK FALSE
