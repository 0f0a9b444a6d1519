SPECIFICATION Spec
CONSTANTS
  Elements <- TextElements
  Rejected <- NoFilter
  Unresolvable <- BadLink
  HtmlNode <- McHtml
  HeadNode <- McHead
  BodyNode <- McBody
  HeadElements <- TextHead
  BodyElements <- TextBody
  Nesting <- TextNesting
  MaxElements = 3
  MaxDepth = 6
  MaxTexts = 2
INVARIANTS
  FlagsMirrorPath
  IgnoredDepthIsExact
  StacksMirrorPath
  BuildersMirrorPath
  WordsHaveTheirStyles
  WordsHaveNoForeignLink
  TextsAreLabelledByTheirPlace
  OnlyLinksThrow
  SourceIndexesInDocumentOrder
