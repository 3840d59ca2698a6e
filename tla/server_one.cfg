SPECIFICATION Spec
CONSTANTS
    NULL = NULL
    w1 = w1
    w2 = w2
    Workers <- OneWorker
    Requests <- AllRequests
    PARAM_NUM = 2
    Reports = FALSE
INVARIANTS
    TypeOK
    DiesOfAFatalRequest
    AnswersItsRequest
CHECK_DEADLOCK FALSE
