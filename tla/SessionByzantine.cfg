CONSTANTS
    f1 = f1
    f2 = f2
    w1 = w1
    Quorum = {1, 2, 3}
    Corrupt = {2}
    Forged = {f1, f2}
    Witnesses = {w1}
    Unopenable = Unopenable
    Malformed = Malformed
    None = None
    MaxErrors = 2
SPECIFICATION Spec
INVARIANTS PairwiseDistinct BlameIsJust
    PairwiseSharesCancel ContextsSeparate
PROPERTIES PairCommittedFirst
CHECK_DEADLOCK FALSE
