\* A reply that meets a timed-out call.
SPECIFICATION FairSpec
CONSTANTS
    Calls = {c1}
    Closers = {k1}
    Nil = Nil
    Plain = Plain
    Malformed = Malformed
    MaxReplies = 1
    MaxPlain = 0
    MaxQueue = 1
PROPERTY CloseQuitsBlocked
CHECK_DEADLOCK FALSE
