CONSTANTS
    MaxApps = 2
    MaxEvents = 3
    Apps = {1, 2}
    Requests = {1, 2, 3}
    AppOf <- MCAppOf
    BadRequests = {}
SPECIFICATION GeneratorSpec
INVARIANTS
    SummaryIsReal
    AtMostOneUncounted
CHECK_DEADLOCK FALSE
