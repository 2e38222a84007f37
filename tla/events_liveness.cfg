\* The processor keeps up with the gateways.
SPECIFICATION FairSpec
CONSTANTS
    Gateways = {g1}
    MaxCreated = 3
PROPERTIES
    EventuallyFollowed
    KeepsRegistry
CHECK_DEADLOCK FALSE
