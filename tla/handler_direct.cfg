SPECIFICATION Spec
CONSTANTS
    Msgs = {m1, m2}
    Callers = {c1}
    MaxParts = 2
    Capacity = 0
    WithQueue = FALSE
    GatewayStats = {}
SYMMETRY HandlerSymmetry
INVARIANT DoneMeansReported
CHECK_DEADLOCK FALSE
