SPECIFICATION FairSpec
CONSTANTS
    Users = {t1, t2}
    WorkerCount = 2
    Null = Null
INVARIANTS
    ThreadsEquipped
    NothingDangles
PROPERTIES
    CallsReturn
