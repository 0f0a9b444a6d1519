SPECIFICATION Spec
CONSTANTS
  TabStop = 8
  Inputs <- JavaInputs
  Texts16 <- JavaTexts
  NamedReferences <- McNames
  Contexts <- McContexts
INVARIANTS
  JavaTextArrives
CHECK_DEADLOCK FALSE
