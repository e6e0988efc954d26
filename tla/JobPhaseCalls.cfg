SPECIFICATION Spec
CONSTANTS
    Handlers = {h1}
    Requests = {r1}
    Copies = {c1}
    MaxRequests = 2
    AssetKinds = {"images"}
    MaxCrashes = 2
    MaxRequeues = 0
    MaxFaults = 1
CONSTRAINT OneMishap
INVARIANTS TypeOK CompletionBacked RequestPerEvent CompletedOncePerEvidence
PROPERTIES CancelSealed LedgerKept
CHECK_DEADLOCK FALSE
