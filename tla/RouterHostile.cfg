CONSTANTS
    a = a
    b = b
    stranger = stranger
    x = x
    y = y
    m1 = m1
    m2 = m2
    c1 = c1
    c2 = c2
    Callers = {c1}
    MayCancel = {c1}
    Quorum = {a, b}
    CorrelationIDs = {x, y}
    UsedBy <- Sequential
    Undecodable = Undecodable
    Traffic <- Hostile
    MaxReceiveBufferSize = 2
    MaxCalls = 2
SPECIFICATION Spec
INVARIANTS ResultSound Accounted LossIsReported BlameIsJust NoStranded
CHECK_DEADLOCK FALSE
