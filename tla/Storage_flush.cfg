\* Small and large memtables flushed to a file of pages, beside a reader
SPECIFICATION StSpec
CONSTANTS
    MaxKey = 18
    T = 2
    PageSize = 39
    HeaderSize = 1
    SlotSize = 1
    Payloads <- MCPayloads
    SizeOf <- MCSizeOf
    Keys <- MCKeys
    Asked = {1, 2}
    Null = 0
    Batches <- MCBatches
    Torn = TRUE
    MaxMemtable = 2
    MaxCalls = 3
    MaxPages = 3
    MaxWrites = 3
    MaxCrashes = 1
CHECK_DEADLOCK FALSE
INVARIANT MemtableIsMap
INVARIANT ReadsReturnLatest
INVARIANT ScanNeverRaises
INVARIANT DiskKept
PROPERTY FullPagesKept
