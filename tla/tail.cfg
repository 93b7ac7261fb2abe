SPECIFICATION FairSpec
CONSTANTS
    MaxPieces = 3
    MaxStarts = 2
    MaxRuns = 2
    MaxWork = 5
    MaxChunk = 2
    MaxLeft = 2
    MaxErrors = 2
INVARIANTS TypeOK Conserved InOrder
PROPERTIES EveryLineLogged StartReturns
CHECK_DEADLOCK FALSE
