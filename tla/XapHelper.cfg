SPECIFICATION Spec
CONSTANTS
    NWorker = 2
    WORKER_MAX = 2
    PIPE_CAP = 1
    ForkFails = TRUE
    MaxPid = 4
    MaxReq = 2
    MaxSig = 2
    MaxKill = 1
INVARIANTS NoStrayWorker ServedOnce GivesUpAfterClose
PROPERTIES RequestsReceived EndsAfterClose
