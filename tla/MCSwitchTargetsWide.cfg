SPECIFICATION Spec
CONSTANTS
  WordBits <- MCWordBits
  Widths <- MCWidths
  Modulus <- MCModulus
  Target <- MCTarget
  Switches <- MCSwitches
INVARIANTS SwitchAgrees
CHECK_DEADLOCK FALSE
