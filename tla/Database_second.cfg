\* One client, closed and opened twice
SPECIFICATION DbSpec
CONSTANTS
    Keys = {k1}
    Clients = {c1}
    Opener = c1
    MaxMemtable = 2
    Oversize = {FALSE}
    MaxTx = 1
    MaxJobs = 0
    MaxForgotten = 0
    WalAhead = TRUE
    MaxOpens = 3
    MaxCrashes = 0
CHECK_DEADLOCK FALSE
INVARIANT RestartReads
