\* The protocol of this run is chosen by the property, which is about signing.
SPECIFICATION Spec
CONSTANTS
    Quorum = {1, 2, 3, 4}
    Corrupt = {2}
    Qualified <- ThreeOfFour
    None = None
    MaxCalls = 1
    MaxSigningCalls = 1
    PrevShareholders = {1, 2, 3}
    NextShareholders = {2, 3, 4}
    Messages = {m1, m2}
    Order = 2
    Schemes <- PlainSchnorr
INVARIANT
    FailuresAreNamed
CHECK_DEADLOCK FALSE
