SPECIFICATION Spec
CONSTANTS
    NULL = NULL
    w1 = w1
    w2 = w2
    Workers <- TwoWorkers
    Requests <- FewRequests
    PARAM_NUM = 1
    Reports = FALSE
INVARIANTS
    AnswersItsRequest
SYMMETRY WorkerSymmetry
CHECK_DEADLOCK FALSE
