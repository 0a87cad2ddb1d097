CONSTANTS
    Stages = {s1, s2, s3, s4, s5}
    Plans = {p1, p2}
    MaxSuffix = 2
SPECIFICATION Spec
SYMMETRY Symmetry
INVARIANTS
    ExclusiveOwnership
    PlannedOnce
    ComponentsMatch
