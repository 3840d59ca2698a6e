SPECIFICATION FairSpec
CONSTANTS
    FIRST = 1
    LAST = 6
    CLUSTER = 2
    MAX_BLOCKSIZE = 4
    MAX_HEADERS = 2
    MAX_BACK = 1
    FRAGMENTS = 2
    BACK_SIZE = 4
INVARIANTS
    TypeOK
    RangesInOrder
    EverySectorOnce
    NeverGivesUp
    InUseIsLeftAlone
    NothingUnseen
PROPERTIES
    SearchEnds
    ImplementsCarving
CHECK_DEADLOCK FALSE
