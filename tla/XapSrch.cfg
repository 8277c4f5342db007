SPECIFICATION Spec
CONSTANTS
    code = code
    mail = mail
    k1 = k1
    k2 = k2
    k3 = k3
    NoKey = NoKey
    Indices = {code, mail}
    Code = {code}
    Keys = {k1, k2, k3}
    IndexOf <- KeyIndex
    NShards <- ShardCounts
    Bare = {k3}
    SHARD_COST = 1
    my_fd_max = 3
    Retries = 2
    MaxQry = 2
    MaxSwap <- Swaps
    MaxFail = 1
INVARIANTS FdsWithinLimit HandleIsLive OneGeneration FreshAnswer SwapIsInvisible
PROPERTIES WideOnlyUnderLoad RequestEnds
