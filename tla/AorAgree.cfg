CONSTANTS
    p1 = p1
    p2 = p2
    p3 = p3
    p4 = p4
    b1 = b1
    b2 = b2
    Quorum = {p1, p2, p3, p4}
    Corrupt = {p4}
    Bits = {b1, b2}
    Unopenable = Unopenable
    ZeroDigest = ZeroDigest
    None = None
    MaxAttempts = 2
SYMMETRY Symmetry
SPECIFICATION Spec
INVARIANTS OutputIsXor TapesAgree BlameIsJust
PROPERTIES CommitBeforeOpen
CHECK_DEADLOCK FALSE
