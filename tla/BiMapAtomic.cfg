SPECIFICATION Spec
CONSTANTS
    t1 = t1
    t2 = t2
    Threads = {t1, t2}
    Keys = {k1, k2}
    Values = {v1, v2}
    None = None
    View <- OneWrapper
    NestedReaders = {t1}
CHECK_DEADLOCK FALSE
INVARIANTS
    Bijective
    ReadersSeeOneState
PROPERTIES
    ImplementsBiMap
