SPECIFICATION Spec
CONSTANTS
    Conns = {c1, c2}
    MaxConnections = 1
    BufferSize = 1
    MaxPDUs = 1
    MaxStarts = 1
SYMMETRY ConnSymmetry
INVARIANTS TypeOK NoStaleEntry ServedIsRegistered WaitGroupExact
CHECK_DEADLOCK FALSE
