CONSTANTS
    Apps = {1, 2, 3}
    Rows = {1, 2, 3, 4, 5, 6}
    RowData <- MCRowData
    Days = {0, 1}
    DayLength = 2
    Limits = {0, 1, 2, 3}
    DefaultLimit = 1
    MaximumLimit = 2
    Int64Range = 4
SPECIFICATION Spec
INVARIANTS
    AdjacentRangesAddUp
    StatisticsCountAskedDays
    RankingIsExact
CHECK_DEADLOCK FALSE
