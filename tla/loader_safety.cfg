\* Three concurrent messages and a push command.
SPECIFICATION FairSpec
CONSTANTS
    Messages = {m1, m2, m3}
    Nil = Nil
INVARIANTS
    ProcessedWhenRegistered
    DropExplained
    CrashNeedsAnother
PROPERTIES
    LogicSticks
    PushTakesEffect
CHECK_DEADLOCK FALSE
