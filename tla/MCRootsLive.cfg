\* Every commit returns, even when tree commits and log writes fail, and
\* every Tree::get returns: the TreeCompacted retry loop ends.
CONSTANTS
    Trees = {ta, tb}
    Keys = {k1}
    Vals = {v1}
    Workers = {w1}
    Readers = {r1}
    NoValue = NoValue
    NoOwner = NoOwner
    NoTree = NoTree
    MaxTxnId = 2
    MaxCrashes = 1
    MaxCompactions = 2
    MaxThreads = 2
    TreeCommitMayFail = TRUE
    LogCommitMayFail = TRUE
SPECIFICATION Spec
PROPERTY CommitTerminates
PROPERTY ReadTerminates
