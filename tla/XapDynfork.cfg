SPECIFICATION Spec
CONSTANTS
    p1 = p1
    p2 = p2
    p3 = p3
    Pids = {p1, p2, p3}
    MaxReq = 2
    PIPE_CAP = 1
    MaxSig = 1
    MaxKill = 1
INVARIANTS EndsOnlyAfterAll
PROPERTIES RequestsReceived EndsAfterClose
