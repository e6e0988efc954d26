SPECIFICATION Spec
CONSTANTS
    Handlers = {h1}
    Requests = {r1}
    Copies = {c1}
    MaxRequests = 2
    AssetKinds = {"images"}
    MaxCrashes = 0
    MaxRequeues = 0
    MaxFaults = 0
PROPERTY CancelledIsFinal
CHECK_DEADLOCK FALSE
