SPECIFICATION Spec
CONSTANTS
  WordBits <- MCWordBits
  Widths <- MCWidths
  Modulus <- MCModulus
  Target <- MCTarget
  Switches <- MCSwitches
INVARIANTS NarrowSwitchAgrees NoForeignBranch
CHECK_DEADLOCK FALSE
