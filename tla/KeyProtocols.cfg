\* MaxCalls = 3 is needed for a contribution to be counted three times, which
\* cancels in rho but not in the verification vector.
\* Party 2 is the first peer of one cosigner and comes after an honest one for the
\* others: a loop over the peers fails at once or half-way.
SPECIFICATION Spec
CONSTANTS
    Quorum = {1, 2, 3, 4}
    Corrupt = {2}
    Qualified <- ThreeOfFour
    None = None
    MaxCalls = 3
    MaxSigningCalls = 2
    PrevShareholders = {1, 2, 3}
    NextShareholders = {2, 3, 4}
    Messages = {m1, m2}
    Order = 3
    Schemes <- AllSchemes
INVARIANTS
    OutputIsSum
    MisleadsOnlyAfterRepeat
    KeyIsCommitted
    AbortsAreIdentifiable
    ZeroSharesCancel
    KeyPreserved
    BlameFollowsAnchor
    SignersBlamedJustly
    AggregatesRightParts
    NonceSignsOnce
PROPERTIES
    FailureIsFinal
CHECK_DEADLOCK FALSE
