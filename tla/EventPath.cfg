CONSTANTS
    Inputs <- MCInputs
    Registered = {"a"}
    FirstYear = 0
    LastYear = 16
    FirstStorable = 8
    LastStorable = 12
    TicksPerMs = 2
    ZeroTime = 4
SPECIFICATION Spec
INVARIANTS
    PublishedIsNeverPoison
    RowIsInput
CHECK_DEADLOCK FALSE
