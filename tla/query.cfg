SPECIFICATION Spec
CONSTANTS
    None = None
    Settings <- AllSettings
    MaxRecordBytes = 12
    MaxU64 = 999
    MaxRotated = 2
    MaxRecords = 4
    MaxFailures = 1
    Epoch = 20
INVARIANTS TypeOK QueryInOrder QueryComplete ParseRecovers
CHECK_DEADLOCK FALSE
