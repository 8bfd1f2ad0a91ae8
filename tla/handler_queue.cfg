SPECIFICATION Spec
CONSTANTS
    Msgs = {m1, m2}
    Callers = {c1}
    MaxParts = 2
    Capacity = 1
    WithQueue = TRUE
    GatewayStats = {}
SYMMETRY HandlerSymmetry
INVARIANT AcceptedMeansQueued
INVARIANT DoneMeansReported
PROPERTY QueryNotAhead
CHECK_DEADLOCK FALSE
