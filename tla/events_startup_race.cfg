\* A gateway that restarts before the event queue is bound.
SPECIFICATION Spec
CONSTANTS
    Gateways = {g1}
    MaxCreated = 2
INVARIANT RestartedIsTracked
CHECK_DEADLOCK FALSE
