SPECIFICATION FairSpec
CONSTANTS
    x = x
    y = y
    p1 = p1
    Quorum = {p1, p2, p3}
    MayStop = {p1}
    Last = 4
    CorrelationID <- Repeated
    MaxCopies <- Once
    MaxReceiveBufferSize = 2
CHECK_DEADLOCK FALSE
INVARIANTS
    Aligned
    NoFalseDuplicate
    BufferSuffices
PROPERTIES
    AllFinish
