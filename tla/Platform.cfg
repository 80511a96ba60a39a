CONSTANTS
    r1 = r1
    r2 = r2
    a1 = a1
    Requests = {r1, r2}
    Apps = {a1}
    AppOf <- MCAppOf
    BadRequests = {}
    RetryOf <- MCRetryOf
    MaxRestarts = 1
SPECIFICATION PlatformFairSpec
INVARIANTS
    DuplicateNeedsDoubt
    StoredIsRegistered
PROPERTY
    AcceptedIsSettled
CHECK_DEADLOCK FALSE
