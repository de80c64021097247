\* reduce with ranges that have no start bound, such as ..=end.
CONSTANTS
    KeySlots = 4
    Order = 2
    TestedRangesOnly = FALSE
SPECIFICATION Spec
INVARIANT ReduceMatchesCount
CHECK_DEADLOCK FALSE
