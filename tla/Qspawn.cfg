SPECIFICATION QSpec
CONSTANTS
    c1 = c1
    c2 = c2
    c3 = c3
    c4 = c4
    NoEnv = NoEnv
    Contexts = {c1, c2, c3, c4}
    Max = 1
    Depth = 1
    Ckhup = {c1, c2}
    Qx = {c4}
INVARIANTS SlotsCounted WorkConserving OneAnswer HeaderHasWcb ChildrenBounded
PROPERTIES QueuedIsServed EveryClientAnswered
