SPECIFICATION Spec
CONSTANTS
    Jobs = {j1, j2, j3}
    MaxTime = 3
SYMMETRY JobSymmetry
INVARIANTS
    SortedList
    NoOversleep
PROPERTIES
    AbstractSpec
