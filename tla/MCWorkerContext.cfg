SPECIFICATION Spec
CONSTANTS
    Users = {t1}
    WorkerCount = 2
    Null = Null
INVARIANTS
    MarksForItself
