SPECIFICATION Spec
CONSTANTS
    NULL = NULL
    w1 = w1
    w2 = w2
    Workers <- TwoWorkers
    Requests <- PairRequests
    PARAM_NUM = 2
    Reports = TRUE
INVARIANTS
    QuietIsClean
    ServedFromContexts
PROPERTIES
    StopsOnExit
SYMMETRY WorkerSymmetry
CHECK_DEADLOCK FALSE
