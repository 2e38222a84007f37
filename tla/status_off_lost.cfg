\* A status message processed while the channel stops.
SPECIFICATION Spec
CONSTANTS
    Tasks = {t1, t2}
    Nil = Nil
    MaxFailed = 2
INVARIANT OffStays
CHECK_DEADLOCK FALSE
