SPECIFICATION Spec
CONSTANTS
    h1 = h1
    h2 = h2
    Handler <- MCHandler
    MaxTime = 3
    MaxCalls = 3
    MaxFaults = 2
SYMMETRY MCSymmetry
INVARIANTS TypeOK CodesUnique UpdatesKeepOthers
PROPERTIES DeletedStaysDeleted
