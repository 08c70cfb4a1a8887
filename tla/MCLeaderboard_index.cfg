SPECIFICATION Spec
CONSTANTS
    Calls = {c1, c2}
    Players = {alice, bob, carol}
    Scores = {3, 5, 6}
    SortOrder = "desc"
    MaxExact = 4
    MaxSubmits = 3
    MaxRadius = 1
    DefaultLimit = 1
    MaxLimit = 2
SYMMETRY MCSymmetry
INVARIANTS IndexAgrees
PROPERTIES BestKept
CHECK_DEADLOCK FALSE
