SPECIFICATION TaskFairSpec
CONSTANTS
    a1 = a1
    a2 = a2
    Callers = {a1, a2}
    Settings <- AllSettings
    MaxCalls = 6
INVARIANT UptimeIsCurrent
PROPERTIES RecordOutlivesTask  StopOkMeansStopped EveryCallReturns
CHECK_DEADLOCK FALSE
