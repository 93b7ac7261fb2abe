SPECIFICATION TaskSpec
CONSTANTS
    a1 = a1
    a2 = a2
    Callers = {a1}
    Settings <- PausedOnly
    MaxCalls = 3
PROPERTY StopOkMeansStopped
CHECK_DEADLOCK FALSE
