\* One page, records of two lengths, two crashes between any two calls
SPECIFICATION FileSpec
CONSTANTS
    short = short
    long = long
    PageSize = 8
    HeaderSize = 1
    SlotSize = 1
    Payloads = {short, long}
    SizeOf <- MCSizeOf
    Torn = TRUE
    MaxPages = 1
    MaxWrites = 2
    MaxCrashes = 2
CHECK_DEADLOCK FALSE
INVARIANT PagesSound
INVARIANT SyncedSurvives
PROPERTY RecordsKept
