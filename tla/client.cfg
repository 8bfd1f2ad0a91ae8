SPECIFICATION FairSpec
CONSTANTS
    MaxAttempts = 2
    MaxDials = 2
    MaxBinds = 3
INVARIANTS ConnectedIsOpen 
PROPERTIES LossIsNoticed ReconnectEnds
CHECK_DEADLOCK FALSE
