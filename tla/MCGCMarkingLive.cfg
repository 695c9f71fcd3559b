SPECIFICATION FairSpec
CONSTANTS
    u1 = u1
    u2 = u2
    u3 = u3
    Units = {u1, u2, u3}
    Mutators = {m1}
    Main = Main
    NoThread = NoThread
    NoUnit = NoUnit
    WorkerCount = 2
    Capacity = 1
    Children <- MCChildren
    RootUnits <- MCRoots
    MarkingContext <- MCContext
    SweepOwner <- MCSweepOwner
PROPERTIES CallReturns CycleCompletes
