CONSTANTS
    m1 = m1
    m2 = m2
    m3 = m3
    e1 = e1
    e2 = e2
    Messages = {m1, m3}
    Workers = {w1, w2}
    Events = {e1, e2}
    EventOf <- MCEventOf
    PoisonMessages = {}
    Prefetch = 2
    BatchSize = 1
    MaxInsertAttempts = 1
    MaxFaults = 1
    MaxSignals = 0
SPECIFICATION Spec
SYMMETRY RaceSymmetry
INVARIANTS
    SettlementsOutstanding
    NoDeliveryForgotten
PROPERTIES
    ImplementsDelivery
CHECK_DEADLOCK FALSE
