\* After a failed tree commit the next commit saves the leftover root under the failed transaction id; discovery after a restart skips it.
CONSTANTS
    Trees = {ta, tb}
    Keys = {k1}
    Vals = {v1}
    Workers = {w1}
    Readers = {}
    NoValue = NoValue
    NoOwner = NoOwner
    NoTree = NoTree
    MaxTxnId = 3
    MaxCrashes = 1
    MaxCompactions = 1
    MaxThreads = 2
    TreeCommitMayFail = TRUE
    LogCommitMayFail = FALSE
SPECIFICATION Spec
INVARIANT RecoveryMatchesCommitted
CHECK_DEADLOCK FALSE
