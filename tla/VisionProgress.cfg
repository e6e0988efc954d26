SPECIFICATION FairSpec
CONSTANTS
    Services = {"embedding", "keypoint"}
    Assets = {a1, a2}
    Totals = {0, 1, 2}
    Workers = {w1, w2}
    Batcher = batcher
    Threshold = 50
    High = 1000000
    MaxCrashes = 1
    MaxRequeues = 1
    MaxFaults = 1
CONSTRAINT OneMishap
INVARIANTS CompletionHonest OneCompletion CountSettles
PROPERTY KeypointsComplete
CHECK_DEADLOCK FALSE
