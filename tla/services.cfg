SPECIFICATION ServicesSpec
CONSTANTS
    EventTypes = {t1}
    HandlerIDs = {h1, h2}
    ChanSize = 2
    MaxEvents = 3
    Borrowers = {u1, u2, u3}
    PoolLimit = 2
    MaxStolen = 1
    Callers = {c1, c2}
    Impatient = {c1}
    FailureThreshold = 2
    SuccessThreshold = 2
    MaxRetries = 1
INVARIANTS
    NoMissedEvent OneLateCall
    PoolBound
    ClosedBelowThreshold OneLateAttempt
PROPERTIES
    
    PutReturns
    CircuitRecovers
CHECK_DEADLOCK FALSE
