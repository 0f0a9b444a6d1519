SPECIFICATION Spec
CONSTANTS
  Texts <- McTexts
INVARIANTS
  CollapsedTextIsTheWords
  DedentedLinesAreTheLines
CHECK_DEADLOCK FALSE
