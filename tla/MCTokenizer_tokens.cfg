SPECIFICATION Spec
CONSTANTS
  Shapes <- MCShapes
  Letters <- MCLetters
  ScriptName <- MCScriptName
  TextStates <- MCTextStates
  ForeignNames <- MCForeignNames
INVARIANTS
  TokenizerTypeOK
  TemporaryBufferIsTheInput
  OwnedWhileOpen
  TokensAreTheInput
  EndTagsOfText
  AttributesAreTheFirst
  FirstDoctypeHasStrings
PROPERTY PageEnds
CHECK_DEADLOCK FALSE
