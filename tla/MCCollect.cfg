SPECIFICATION Spec
CONSTANTS
  Crates <- MCCrates
  Foreign <- MCForeign
INVARIANTS TypeOK CollectsRequired DefinedOnce PlainUsesLand
PROPERTY TerminatesIfFinite
CHECK_DEADLOCK FALSE
