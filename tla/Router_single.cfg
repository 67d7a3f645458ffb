\* One client, fair executor: every step of a flush against writes and reads
SPECIFICATION FairSpec
CONSTANTS
    Keys = {k1, k2}
    Clients = {c1}
    MaxMemtable = 2
    Oversize = {FALSE}
    MaxTx = 5
    MaxJobs = 2
    MaxForgotten = 1
CHECK_DEADLOCK FALSE
INVARIANT TypeOK
INVARIANT MarkedIsDurable
INVARIANT ReadsLatest
INVARIANT CacheCoherent
INVARIANT FlushCountExact
INVARIANT RebuildAgrees
INVARIANT ReplayCorrect
PROPERTY WaitersProceed
PROPERTY FlushedIsMarked
