SPECIFICATION Spec
CONSTANTS
    ByteSize = 8
    MaxSystemIDLength = 2
    MaxPasswordLength = 1
    MaxSystemTypeLength = 2
    MaxServiceTypeLength = 1
    MaxAddressLength = 1
    RangeLength = 1
    TimeLength = 1
    TagMessagePayload = 36
    Names <- NamesMC
    Messages <- MessagesMC
    StartSeqs <- StartSeqsMC
    AnswerSeqs = {2}
    Breaks = {1, 15, 16, 17, 24}
    MaxPdus = 2
INVARIANTS FramesInStep NoPduFromTornFrame ReaderFailsForCause
CHECK_DEADLOCK FALSE
