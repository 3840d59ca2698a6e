SPECIFICATION RecoverySpec
CONSTANTS
    NULL = NULL
    v1 = v1
    v2 = v2
    v3 = v3
    Volumes <- ThreeVolumes
    Damaged <- ThirdVolume
    Files <- ShortLists
    FILE_NUM = 4
    PER_PAGE = 2
    Careful = TRUE
    Records <- FiveRecords
    Clusters <- ThreeClusters
    FULL = 2
INVARIANTS
    TypeOK
    ReadyListIsFound
    PagesPartition
    RecoversWhatWasListed
    RecoversFromOpenVolume
    SuccessIsComplete
    FailureHasCause
    TruncationFits
CHECK_DEADLOCK FALSE
