SPECIFICATION Spec
CONSTANTS
    NKeys = 4
    W = 3
    Keys <- MCKeys
    Sizes <- MCSizes
    Hashes <- MCHashes
    NoKey = NoKey
INVARIANTS
    ProbeChain
PROPERTIES
    IsSet
