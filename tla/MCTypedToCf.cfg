SPECIFICATION Spec
CONSTANTS
  Programs <- MCPrograms
  CaseLabels <- MCCaseLabels
  CaseValue <- MCCaseValue
  Discr <- MCDiscr
  Types <- MCTypes
INVARIANTS KeptCanRun FallThroughAgrees BranchesKnown CfInv
PROPERTY ImplementsTypedBlocks
CHECK_DEADLOCK FALSE
