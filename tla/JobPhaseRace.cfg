SPECIFICATION Spec
CONSTANTS
    Handlers = {h1, h2}
    Requests = {}
    Copies = {c1}
    MaxRequests = 2
    AssetKinds = {"images"}
    MaxCrashes = 0
    MaxRequeues = 1
    MaxFaults = 0
SYMMETRY Symmetry
INVARIANTS CollectionBarrier FeatureBarrier NoConcurrentDuplicate
CHECK_DEADLOCK FALSE
