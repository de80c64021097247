\* get_multiple_by_sequence with the caller's sequences in every order.
CONSTANTS
    KeySlots = 3
    Order = 2
    TestedRangesOnly = TRUE
SPECIFICATION Spec
INVARIANT GetBySequenceFindsAll
CHECK_DEADLOCK FALSE
