CONSTANTS
    r1 = r1
    r2 = r2
    r3 = r3
    a1 = a1
    a2 = a2
    Requests = {r1, r2, r3}
    Apps = {a1, a2}
    AppOf <- MCAppOf
    BadRequests = {r3}
SPECIFICATION FairSpec
INVARIANTS
    TypeOK
    AcceptedIsQueued
    OnlyCheckedEventsPublished
    PublisherSerialised
    CloseWaitsForPublish
    CleanExitIsComplete
PROPERTIES
    RequestsAnswered
    ShutdownEnds
CHECK_DEADLOCK FALSE
