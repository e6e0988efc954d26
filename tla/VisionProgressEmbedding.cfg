SPECIFICATION FairSpec
CONSTANTS
    Services = {"embedding"}
    Assets = {a1, a2}
    Totals = {0, 1, 2}
    Workers = {w1, w2}
    Batcher = batcher
    Threshold = 90
    High = 1000000
    MaxCrashes = 0
    MaxRequeues = 0
    MaxFaults = 0
PROPERTY EmbeddingsComplete
CHECK_DEADLOCK FALSE
