SPECIFICATION FairSpec
CONSTANTS
    MaxRecords = 5
    RotateAt = 4
    MaxRotated = 2
    MaxErrors = 2
INVARIANTS TypeOK  DeliveredInOrder
PROPERTIES  StreamEnds WatcherEnds
CHECK_DEADLOCK FALSE
