SPECIFICATION Spec
CONSTANTS
  Drivers <- MCDrivers
  Executes <- MCExecutes
  Plans <- MCPlans
  Units <- MCUnits
  CrateName <- MCCrateName
  BuildScript = "build_script_build"
  Primary <- MCPrimary
  Needs <- MCNeeds
  Symbols <- MCSymbols
  Pids <- MCPids
  Attempts = 2
  MaxTime = 1
  MaxKills = 1
  None = None
INVARIANTS MergesThisBuild CodeTells DirsHeld NothingLeft ExtractInv
PROPERTIES FragmentsKept DriversEnd
CHECK_DEADLOCK FALSE
