SPECIFICATION Spec
CONSTANTS
    Words <- MCWords
    Nows <- MCNows
    LocalOff = 60
    MaxWords = 4
    MaxUnits = 60
INVARIANTS
    ExplicitDateParsed
    RelativeIsPast
    RangeIsExact
CHECK_DEADLOCK FALSE
