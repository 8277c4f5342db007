SPECIFICATION Spec
CONSTANTS
    m1 = m1
    m2 = m2
    m3 = m3
    i1 = i1
    i2 = i2
    i3 = i3
    NoMid = NoMid
    Msgs = {m1, m2, m3}
    Mid <- OwnMid
    Upstream <- Readded
    NShards = 2
    Parallel = {"index"}
    MaxEpoch = 1
    MaxCommit = 5
    MaxNum = 4
    MaxGen = 0
    MaxCrash = 1
    MaxFail = 0
INVARIANTS MirrorIndexed MirrorOrder
PROPERTIES  IndexEnds
