\* reduce, first_key, first, last_key, last, get_range, get_range_indexes
\* and get_multiple over every tree of at most five keys and depth three;
\* reduce over the range shapes the repository's reduce test uses,
\* get_range over every range, get_multiple over every sorted key set.
CONSTANTS
    KeySlots = 5
    Order = 3
    TestedRangesOnly = TRUE
SPECIFICATION Spec
INVARIANT ReduceMatchesCount
INVARIANT FirstLastAreEnds
INVARIANT GetRangeIsSortedRange
INVARIANT GetMultipleIsPresentKeys
INVARIANT ScanSequencesIsIdRange
INVARIANT GetBySequenceIsPresentIds
CHECK_DEADLOCK FALSE
