CONSTANTS
    api = api
    worker = worker
    other = other
    Apis = {api}
    Workers = {worker, other}
    ConfigOf <- MCConfigOf
    OldQueues <- MCOldQueues
    MaxFaults = 2
SPECIFICATION FairSpec
INVARIANTS
    OpenIsRouted
    DeadLetterRouteComplete
PROPERTY
    EventuallyServing
CHECK_DEADLOCK FALSE
