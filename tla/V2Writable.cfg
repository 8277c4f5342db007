SPECIFICATION Spec
CONSTANTS
    m1 = m1
    m2 = m2
    m3 = m3
    i1 = i1
    i2 = i2
    i3 = i3
    NoMid = NoMid
    Msgs = {m1, m2}
    Mid <- SameMid
    Upstream <- Fresh
    NShards = 1
    Parallel = {"index"}
    MaxEpoch = 1
    MaxCommit = 3
    MaxNum = 4
    MaxGen = 2
    MaxCrash = 1
    MaxFail = 1
INVARIANTS GitFirst OverNumbered KeptIsShown 

