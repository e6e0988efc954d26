SPECIFICATION BrokerSpec
CONSTANTS
    Queues = {p, q}
    Events = {e}
    Prefetch = 1
    Retries = 1
    MaxHalts = 0
INVARIANT DeadLettersKept
CHECK_DEADLOCK FALSE
