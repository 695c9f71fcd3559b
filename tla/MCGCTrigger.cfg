SPECIFICATION FairTriggerSpec
CONSTANTS
    Callers = {c1, c2}
    Main = Main
    Nobody = Nobody
CHECK_DEADLOCK FALSE
INVARIANTS RequestKept
PROPERTIES SyncTriggerReturns MainJoins
