SPECIFICATION FairSpec
CONSTANTS
    Handlers = {h1, h2}
    Requests = {}
    Copies = {c1}
    MaxRequests = 1
    AssetKinds = {"images"}
    MaxCrashes = 0
    MaxRequeues = 0
    MaxFaults = 0
PROPERTIES EvidenceCompletes BarrierOpens
CHECK_DEADLOCK FALSE
