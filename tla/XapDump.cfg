SPECIFICATION Spec
CONSTANTS
    w1 = w1
    w2 = w2
    Workers = {w1, w2}
    NDocs = 2
    NLines = 2
    FlushEvery = 2
    Tries = 2
    MaxModified = 2
    MaxKill = 1
INVARIANTS LinesIntact DoneIsComplete
PROPERTY AllEnd
