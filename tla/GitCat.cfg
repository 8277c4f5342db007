SPECIFICATION Spec
CONSTANTS
    Objs <- Objs2
    Size <- Sizes
    MAX_INFLIGHT = 2
    ReqCap = 1
    RespCap = 2
    MaxReq = 3
    MaxDepth = 1
    MaxAlt = 1
    MaxCrash = 1
INVARIANT AnswerIsOwn
PROPERTY RequestsAnswered
CHECK_DEADLOCK FALSE
