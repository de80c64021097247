\* Safety and refinement of the coordinator without I/O failures: two
\* workers running transactions on two trees, inline and pooled commits,
\* rollbacks, two compactions (the second on a handle the first made stale)
\* and a crash.
CONSTANTS
    Trees = {ta, tb}
    Keys = {k1}
    Vals = {v1}
    Workers = {w1, w2}
    Readers = {}
    NoValue = NoValue
    NoOwner = NoOwner
    NoTree = NoTree
    MaxTxnId = 3
    MaxCrashes = 1
    MaxCompactions = 2
    MaxThreads = 1
    TreeCommitMayFail = FALSE
    LogCommitMayFail = FALSE
SPECIFICATION Spec
INVARIANT TypeOK RecoveryMatchesCommitted
PROPERTY TxnStoreRefinement
SYMMETRY MCSymmetry
CHECK_DEADLOCK FALSE
