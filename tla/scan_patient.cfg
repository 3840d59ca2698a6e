SPECIFICATION FairSpec
CONSTANTS
    t1 = t1
    t2 = t2
    v1 = v1
    v2 = v2
    v3 = v3
    NULL = NULL
    Threads <- TwoThreads
    Volumes <- ThreeVolumes
    NTFS <- TwoVolumes
    Blocks = 3
    MaxBack = 1
    Patience = "patient"
INVARIANTS
    TypeOK
    ScanReadsItsObject
    ReadyListIsComplete
    StopIsHonoured
    NeverCrashes
    BusyHasOwner
PROPERTIES
    ImplementsService
    ProgressForward
    EveryScanEnds
