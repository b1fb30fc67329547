SPECIFICATION Spec
CONSTANTS
  Type <- MCType
  Kind <- MCKind
  Variants <- MCVariants
  ArrayLength <- MCArrayLength
  Discriminant <- MCImplicit
  HasDropImpl <- MCHasDropImpl
  ImplementsDrop <- MCImplementsDrop
  NeverDrops <- MCNeverDrops
  Funcs <- MCPairs
INVARIANTS FreshIndices TargetsKnown BlockDiscipline SyntheticEntered IndexInv BlockInv
PROPERTY ClosedBlocksAreFinal
CHECK_DEADLOCK FALSE
