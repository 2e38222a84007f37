\* Messages of one camera whose handlers and tasks overlap.
SPECIFICATION Spec
CONSTANTS
    s1 = s1
    s2 = s2
    Nil = Nil
    Servers <- MCServers
    Accounts <- MCAccounts
    Contents <- MCContents
    MaxMessages = 3
    MaxInFlight = 2
INVARIANTS
    UnpaidNeverRecorded
    LatestRequestWins
    AccountIsWhole
    StreamEndsRecording
    StreamIsRecorded
    MotionDecides
    
CHECK_DEADLOCK FALSE
