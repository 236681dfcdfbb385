SPECIFICATION FairSpec
CONSTANTS
    Runnables = {r1, r2, r3}
INVARIANT ManagerWatchesAll
PROPERTY CancelledReturns
CHECK_DEADLOCK FALSE
