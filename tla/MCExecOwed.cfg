SPECIFICATION ExecSpec
CONSTANTS
  Type <- MCType
  Kind <- MCKind
  Variants <- MCVariants
  ArrayLength <- MCArrayLength
  Discriminant <- MCExplicit
  HasDropImpl <- MCHasDropImpl
  ImplementsDrop <- MCImplementsDrop
  NeverDrops <- MCNeverDrops
  Funcs <- MCOwedFuncs
PROPERTY DropsWhatIsOwed
CHECK_DEADLOCK FALSE
