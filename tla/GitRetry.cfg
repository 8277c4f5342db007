SPECIFICATION Spec
CONSTANTS
    Objs <- Objs2
    Size <- Sizes
    MAX_INFLIGHT = 2
    ReqCap = 3
    RespCap = 2
    MaxReq = 3
    MaxDepth = 1
    MaxAlt = 1
    MaxCrash = 0
INVARIANT RetryKeepsPairs
CHECK_DEADLOCK FALSE
