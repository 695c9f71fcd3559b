SPECIFICATION Spec
CONSTANTS
    Units = {u1, u2}
    Unswept = {}
    RootUnits = {u1}
    Mutators = {m1, m2}
    WorkerCount = 2
    MarkingContext <- ContextZero
    RoundModulus = 2
    Null = Null
    RootSet = RootSet
SYMMETRY Symmetry
CONSTRAINT Unbroken
VIEW RelativeTiming
INVARIANTS
    GarbageFreed
PROPERTIES
    FreesGarbageOrLost
