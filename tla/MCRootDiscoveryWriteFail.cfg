\* A write fails part-way with an I/O error and the process goes on to
\* later saves, transactional or not, with or without a restart.
CONSTANTS
    PageSize = 16
    NodeLens = {1}
    MaxTxnId = 3
    MaxCrashes = 1
    TornWrites = FALSE
    Preloaded = FALSE
    WriteMayFail = TRUE
    MaxLen = 80
SPECIFICATION Spec
INVARIANT DiscoveryNeverWrong
CHECK_DEADLOCK FALSE
