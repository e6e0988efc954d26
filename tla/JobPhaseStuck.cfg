SPECIFICATION FairSpec
CONSTANTS
    Handlers = {h1}
    Requests = {}
    Copies = {c1}
    MaxRequests = 2
    AssetKinds = {"images"}
    MaxCrashes = 0
    MaxRequeues = 0
    MaxFaults = 0
PROPERTY FeaturesLeadToMatching
CHECK_DEADLOCK FALSE
