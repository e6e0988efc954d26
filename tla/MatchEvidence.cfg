SPECIFICATION FairSpec
CONSTANTS
    Pairs = {p1, p2}
    Workers = {w1, w2}
    Closer = closer
    MaxRequests = 1
    MaxCrashes = 1
    MaxFaults = 1
CONSTRAINT OneMishap
INVARIANTS TypeOK EvidenceBehindRecord CompletionBacked
PROPERTIES CompletionSealed EveryMatchEvidenced CompletionAnnounced
CHECK_DEADLOCK FALSE
