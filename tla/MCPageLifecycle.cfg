SPECIFICATION FairSpec
CONSTANTS
    Pages = {p0, p1}
    Pinned = {p0}
    UnitsPerPage = 2
    Threads = {t1, t2}
    WorkerCount = 2
    Null = Null
INVARIANTS TypeOK PageOwnedOnce FreeListsExact ChainKeepsEveryPage SweepsPagesInUse
PROPERTIES DropsOnlyDeadPages SweepEnds
