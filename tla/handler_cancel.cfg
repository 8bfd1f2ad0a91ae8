SPECIFICATION FairSpec
CONSTANTS
    Msgs = {m1}
    Callers = {c1, c2}
    MaxParts = 2
    Capacity = 1
    WithQueue = TRUE
    GatewayStats = {"DELIVRD", "ACCEPTD"}
PROPERTIES CancelIsFinal NoReceiptAfterCancel ProcessingEnds
CHECK_DEADLOCK FALSE
