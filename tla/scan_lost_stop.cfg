SPECIFICATION Spec
CONSTANTS
    t1 = t1
    t2 = t2
    v1 = v1
    v2 = v2
    v3 = v3
    NULL = NULL
    Threads <- TwoThreads
    Volumes <- TwoVolumes
    NTFS <- OneVolume
    Blocks = 1
    MaxBack = 0
    Patience = "observant"
INVARIANTS
    StopIsHonoured
CHECK_DEADLOCK FALSE
