\* Two gateways that come, go and come back.
SPECIFICATION Spec
CONSTANTS
    Gateways = {g1, g2}
    MaxCreated = 2
SYMMETRY Symmetry
INVARIANTS
    TypeOK
    NoLeakedChannel
    NilChannelOnlyOffline
    SettledTracking
CHECK_DEADLOCK FALSE
