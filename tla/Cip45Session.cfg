\* Two screens, the second perhaps on top of the first; two connections; a request.
CONSTANTS
    Screens = {1, 2}
    Transports = {t1, t2}
    NoTransport = null
    Requests = {r1}
SPECIFICATION FairSpec
INVARIANTS OpenKnowsLive Inv
PROPERTIES OutlivingServesNothing LeftIsClosed ConnectEnds
CHECK_DEADLOCK FALSE
