SPECIFICATION Spec
CONSTANTS
    Halves = {2, 4}
    AttrHalf = 2
    MaxFloat = 20
    Operations <- MCOperations
INVARIANTS
    TypeOK
    CheckedExact
    SliceInside
    OnlyMixedShiftsLeft
PROPERTY
    KeepsRustMeaning
CHECK_DEADLOCK FALSE
