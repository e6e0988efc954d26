SPECIFICATION Spec
CONSTANTS
    Pairs = {p1, p2}
    Workers = {w1, w2}
    Closer = closer
    MaxRequests = 1
    MaxCrashes = 0
    MaxFaults = 0
INVARIANT CompletionMeansAll
CHECK_DEADLOCK FALSE
