SPECIFICATION FairSpec
CONSTANTS
    c1 = c1
    c2 = c2
    None = None
    Containers = {c1, c2}
    Bindings <- SomeBindings
    Ports = {8001, 8002}
    Forwards = {1, 2}
    Conns = {1}
    Settings <- AllSettings
    Pids = {1, 2}
    MaxDeletes = 1
INVARIANTS TypeOK DeleteReleasesPorts RunningIsReachable
PROPERTIES KillsOwn ForwardEnds
