\* A crash during save_tree of a database that already has a root.
CONSTANTS
    PageSize = 16
    NodeLens = {1}
    MaxTxnId = 2
    MaxCrashes = 1
    TornWrites = TRUE
    Preloaded = TRUE
    WriteMayFail = FALSE
    MaxLen = 80
SPECIFICATION Spec
INVARIANT OpenSucceeds
CHECK_DEADLOCK FALSE
