SPECIFICATION FairSpec
CONSTANTS
    r1 = r1  r2 = r2
    Requests = {r1, r2}
INVARIANTS TypeOK StoresOutliveUse CleanExitCutsNothing
PROPERTIES ShutdownEnds ServesWithoutConsumer
CHECK_DEADLOCK FALSE
