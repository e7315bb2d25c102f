\* q is the smallest prime for which three levels over the IDs 1 to 3 pass
\* hierarchical.CheckConstraints; over four IDs they do not.
SPECIFICATION Spec
CONSTANTS
    q = 503
    Structures <- AllStructures
INVARIANTS
    MspRealizesPolicy
    CnfKeepsPolicy
    ConvertInvariant
    MaximalSetsExact
CHECK_DEADLOCK FALSE
