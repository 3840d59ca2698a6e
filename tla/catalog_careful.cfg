SPECIFICATION Spec
CONSTANTS
    NULL = NULL
    Machines <- SomeMachines
    DISK_NUM = 2
    PARTITION_NUM = 4
    MaxRebuilds = 3
    Careful = TRUE
INVARIANTS
    TypeOK
    NumbersResolve
    PartitionsOfTheirDisk
    ScanObjectsLive
