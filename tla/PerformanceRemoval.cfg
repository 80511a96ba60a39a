CONSTANTS
    OptionInputs <- MCOptionInputs
    DefaultBatchSizes <- MCDefaultBatchSizes
    WarmupEvents = 2
    AnalysisEvents = 3
    AnalysisBatch = 2
    Durations = {1, 2, 4}
    MaxFaults = 1
SPECIFICATION Spec
INVARIANT
    TemporaryDatabaseRemoved
CHECK_DEADLOCK FALSE
