SPECIFICATION FairSpec
CONSTANTS
    a1 = a1
    a2 = a2
    Callers = {a1, a2}
    Ops <- OpsOf
    Tests <- SomeTests
    Pids = {1, 2}
    MaxAttempts = 2
    MaxPolls = 2
    MaxOut = 2
    MaxCrashes = 1
    Cap = 1
INVARIANTS  ResultIsOwn
PROPERTY EveryCallReturns
CHECK_DEADLOCK FALSE
