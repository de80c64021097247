\* Root discovery after crashes that keep any prefix of the unsynced bytes,
\* and after writes that fail part-way.
CONSTANTS
    PageSize = 16
    NodeLens = {1}
    MaxTxnId = 3
    MaxCrashes = 1
    TornWrites = TRUE
    Preloaded = FALSE
    WriteMayFail = TRUE
    MaxLen = 80
SPECIFICATION Spec
INVARIANT WritesAtEnd
INVARIANT DiscoveryAfterCleanWrites
INVARIANT DiscoveryOnlyWritten
CHECK_DEADLOCK FALSE
