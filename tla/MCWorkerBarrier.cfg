SPECIFICATION FairSpec
CONSTANTS
    WorkerCount = 3
    Main = Main
    Nobody = Nobody
INVARIANTS WorkInStep NoLostWakeup
PROPERTIES PhaseEnds WorkersJoined
