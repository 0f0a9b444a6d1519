SPECIFICATION Spec
CONSTANTS
  Shapes <- MCShapes
INVARIANTS
  LinksAgree
  AssertionsHold
  ListsAreSound
  TablesHoldTableContent
  PageHasItsShape
  TextIsInOrder
  TextStaysInItsBlock
PROPERTY
  PageIsParsed
CHECK_DEADLOCK FALSE
