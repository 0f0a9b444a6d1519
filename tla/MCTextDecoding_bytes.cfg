SPECIFICATION Spec
CONSTANTS
  TabStop = 8
  Inputs <- McInputs
  Texts16 <- JavaTexts
  NamedReferences <- McNames
  Contexts <- McContexts
INVARIANTS
  TextTypeOK
  IteratorInBounds
  DeliveredTextIsTheText
  IteratorReportsWhatItReads
PROPERTIES
  EveryInputEnds
CHECK_DEADLOCK FALSE
