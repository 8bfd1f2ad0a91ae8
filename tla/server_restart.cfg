SPECIFICATION Spec
CONSTANTS
    Conns = {c1}
    MaxConnections = 1
    BufferSize = 2
    MaxPDUs = 1
    MaxStarts = 2
INVARIANT RunningMeansAccepting
CHECK_DEADLOCK FALSE
