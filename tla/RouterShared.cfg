CONSTANTS
    a = a
    b = b
    stranger = stranger
    x = x
    y = y
    m1 = m1
    m2 = m2
    c1 = c1
    c2 = c2
    Callers = {c1, c2}
    MayCancel = {}
    Quorum = {a, b}
    CorrelationIDs = {x, y}
    UsedBy <- Separate
    Undecodable = Undecodable
    Traffic <- Orderly
    MaxReceiveBufferSize = 4
    MaxCalls = 1
SPECIFICATION FairSpec
PROPERTIES ExchangeEnds
CHECK_DEADLOCK FALSE
