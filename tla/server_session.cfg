SPECIFICATION FairSpec
CONSTANTS
    Conns = {c1}
    MaxConnections = 1
    BufferSize = 1
    MaxPDUs = 2
    MaxStarts = 2
PROPERTIES UnboundIsFinal StaleEntriesGo 
CHECK_DEADLOCK FALSE
