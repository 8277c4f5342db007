SPECIFICATION Spec
CONSTANTS
    Words <- MCWords
    Nows <- MCNows
    LocalOff = 60
    MaxWords = 2
    MaxUnits = 60
INVARIANT FieldIsDay
CHECK_DEADLOCK FALSE
