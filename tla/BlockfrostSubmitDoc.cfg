\* What the documentation says of BlockfrostBadRequest, against the retry loop.
CONSTANTS
    c1 = c1
    c2 = c2
    i1 = i1
    i2 = i2
    Calls = {c1}
    Inputs = {i1, i2}
    Valid = {c1}
    Spends <- MCSpends
    MaxRetries = 3
SPECIFICATION Spec
INVARIANT BadRequestMeansNotTaken
CHECK_DEADLOCK FALSE
