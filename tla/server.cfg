\* A request while gateways come and go and main stops.
SPECIFICATION FairSpec
CONSTANTS
    g1 = g1
    g2 = g2
    Gateways <- MCGateways
    Lists <- MCLists
    Requests = {r1}
    MaxChannels = 2
INVARIANTS
    ErrorMeansNothingDone
    SwitchReachesGateway
    GracefulStop
PROPERTIES
    ShutdownEnds
    RequestsAnswered
CHECK_DEADLOCK FALSE
