\* Two submissions that share an input, with the four attempts of the code.
CONSTANTS
    c1 = c1
    c2 = c2
    i1 = i1
    i2 = i2
    Calls = {c1, c2}
    Inputs = {i1, i2}
    Valid = {c1, c2}
    Spends <- MCSpends
    MaxRetries = 3
SPECIFICATION FairSpec
INVARIANTS
    Inv
    OneOfConflictingSent
    FirstRefusalIsFinal
PROPERTIES
    ImplementsContract
    EveryCallEnds
CHECK_DEADLOCK FALSE
