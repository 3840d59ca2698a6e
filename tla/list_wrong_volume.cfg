SPECIFICATION Spec
CONSTANTS
    NULL = NULL
    v1 = v1
    v2 = v2
    v3 = v3
    Volumes <- ThreeVolumes
    Damaged <- ThirdVolume
    Files <- ShortLists
    FILE_NUM = 4
    PER_PAGE = 2
    Careful = FALSE
INVARIANTS
    RecoversWhatWasListed
CHECK_DEADLOCK FALSE
