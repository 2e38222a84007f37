\* Measurements and events that overlap, while push is set and main stops.
SPECIFICATION FairSpec
CONSTANTS
    MaxData = 2
    MaxPush = 2
INVARIANTS
    LatestValueStored
    
    SilentMeansSilent
 
CHECK_DEADLOCK FALSE
