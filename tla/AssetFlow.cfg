SPECIFICATION FlowSpec
CONSTANTS
    p1 = p1
    p2 = p2
    f1 = f1
    w1 = w1
    v1 = v1
    Queries <- MCQueries
    Found <- MCFound
    Shots <- MCShots
    Frames <- MCFrames
    ImageWorkers <- MCImageWorkers
    VideoWorkers <- MCVideoWorkers
    ItemSlots = 1
    MaxAttempts = 2
    MaxFinderCrashes = 1
    MaxFinderFaults = 1
    SegThreshold = 100
    SegHigh = 9
    MaxSegCrashes = 1
    MaxSegFaults = 1
    VideoTotals = {1}
CONSTRAINT OneAtATime
INVARIANTS
    FlowTypeOK
    ReadyBacked
    TotalCountsReady
    MaskedHonest
    OneMaskedBatch
PROPERTIES
    ImagesAnnounced
CHECK_DEADLOCK FALSE
