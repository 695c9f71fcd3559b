SPECIFICATION Spec
CONSTANTS
    Pages = {p1}
    Pinned = {}
    UnitsPerPage = 1
    Threads = {t1}
    WorkerCount = 1
    Null = Null
INVARIANTS SweepsPagesInUse
