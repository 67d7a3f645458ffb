\* One client, a crash or a close after every step, one restart
SPECIFICATION DbSpec
CONSTANTS
    Keys = {k1, k2}
    Clients = {c1}
    Opener = c1
    MaxMemtable = 2
    Oversize = {FALSE, TRUE}
    MaxTx = 3
    MaxJobs = 1
    MaxForgotten = 0
    WalAhead = TRUE
    MaxOpens = 2
    MaxCrashes = 1
CHECK_DEADLOCK FALSE
SYMMETRY DbKeySymmetry
INVARIANT RestartReads
PROPERTY ImplementsKVStore
