CONSTANTS
    p1 = p1
    p2 = p2
    p3 = p3
    m1 = m1
    m2 = m2
    Quorum = {p1, p2, p3}
    Corrupt = {p3}
    MayAbort = {p1, p2}
    Messages = {m1, m2}
    Undecodable = Undecodable
    NoBytes = NoBytes
    NotSent = NotSent
    NoOutput = NoOutput
SPECIFICATION FairSpec
INVARIANTS Consistency HonestDelivery
PROPERTIES ImplementsBroadcast Termination
