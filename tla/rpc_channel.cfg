\* Two calls and a closer, with late and repeated answers.
SPECIFICATION FairSpec
CONSTANTS
    Calls = {c1, c2}
    Closers = {k1}
    Nil = Nil
    Plain = Plain
    Malformed = Malformed
    MaxReplies = 2
    MaxPlain = 1
    MaxQueue = 1
INVARIANTS
    PendingAreTheWaiting
    CrashOnlyWhenStopping
    BlockedReaderExplained
    PlainConserved
PROPERTIES
    KeepsPromise
    EveryCallReturns
    StoppedReaderEnds
CHECK_DEADLOCK FALSE
