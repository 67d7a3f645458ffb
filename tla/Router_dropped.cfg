\* Two clients: an immutable memtable replaced while its flush runs
SPECIFICATION Spec
CONSTANTS
    Keys = {k1, k2}
    Clients = {c1, c2}
    MaxMemtable = 1
    Oversize = {FALSE}
    MaxTx = 3
    MaxJobs = 2
    MaxForgotten = 0
CHECK_DEADLOCK FALSE
SYMMETRY KeySymmetry
INVARIANT ReadsLatest
