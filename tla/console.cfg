\* Five keys: a command, its line end, two digits and one more.
SPECIFICATION FairSpec
CONSTANTS
    Digit <- MCDigit
    IdValues = 4
    MaxKeys = 5
    MaxFaults = 2
INVARIANTS
    IdInForce
PROPERTIES
    NothingBlankSaved
    ValueIsTaken
CHECK_DEADLOCK FALSE
