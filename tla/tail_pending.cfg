SPECIFICATION Spec
CONSTANTS
    MaxPieces = 1
    MaxStarts = 2
    MaxRuns = 2
    MaxWork = 5
    MaxChunk = 2
    MaxLeft = 2
    MaxErrors = 1
PROPERTY RestartDrains
CHECK_DEADLOCK FALSE
