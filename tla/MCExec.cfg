SPECIFICATION ExecSpec
CONSTANTS
  Type <- MCType
  Kind <- MCKind
  Variants <- MCVariants
  ArrayLength <- MCArrayLength
  Discriminant <- MCImplicit
  HasDropImpl <- MCHasDropImpl
  ImplementsDrop <- MCImplementsDrop
  NeverDrops <- MCNeverDrops
  Funcs <- MCFuncs
PROPERTY ImplementsRustDrop
CHECK_DEADLOCK FALSE
