SPECIFICATION FairAccessSpec
CONSTANTS
    Threads = {t1, t2}
    WRITE_LOCKED = 4
    TotalPages = 4
    ALLOCATED_FLAG = 8
    INDEX_NULL = 99
    Requests = {1, 2, 5}
INVARIANTS WordCountsHolders WriterAlone FreeListExact ValidateExact ReadsInitialisedHeads
PROPERTIES ImplementsPageMap SomebodyGetsIn
