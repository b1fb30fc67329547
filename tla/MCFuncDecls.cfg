SPECIFICATION Spec
CONSTANTS
    Programs <- MCPrograms
    Represented <- MCRepresented
INVARIANTS
    TypeOK
    ArgumentsLand
    DeclInv
PROPERTY
    DecidesAgreement
CHECK_DEADLOCK FALSE
