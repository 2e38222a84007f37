\* As many loads as connections, and one statement of another task.
SPECIFICATION FairSpec
CONSTANTS
    Loaders = {l1, l2}
    PoolSize = 2
    Cameras = 1
    Sensors = 2
    MaxBusy = 1
INVARIANTS
    
    SelfBlockTakesAll
PROPERTY EveryLoadReturns
CHECK_DEADLOCK FALSE
