SPECIFICATION Spec
CONSTANTS
  Crates <- MCUseCrates
  Foreign <- MCForeign
INVARIANT UsesLand
CHECK_DEADLOCK FALSE
