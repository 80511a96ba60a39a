CONSTANTS
    m1 = m1
    m2 = m2
    m3 = m3
    e1 = e1
    e2 = e2
    Messages = {m1, m2, m3}
    Workers = {w1}
    Events = {e1, e2}
    EventOf <- MCEventOf
    PoisonMessages = {m3}
    Prefetch = 2
    BatchSize = 2
    MaxInsertAttempts = 2
    MaxFaults = 1
    MaxSignals = 1
SPECIFICATION Spec
SYMMETRY CarrierSymmetry
INVARIANTS
    TypeOK
    AckedIsStored
    DeadLetterIsJustified
    NoDeliveryForgotten
    DuplicatesExplained
    GracefulShutdownDrains
CHECK_DEADLOCK FALSE
