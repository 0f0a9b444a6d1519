SPECIFICATION Spec
CONSTANTS
  Elements <- PageElements
  Rejected <- MenuFilter
  Unresolvable <- NoFilter
  HtmlNode <- McHtml
  HeadNode <- McHead
  BodyNode <- McBody
  HeadElements <- PageHead
  BodyElements <- PageBody
  Nesting <- PageNesting
  MaxElements = 4
  MaxDepth = 7
  MaxTexts = 2
INVARIANTS
  EveryElementHasOnePlace
PROPERTIES
  ReadsAsThePage
  IgnoredSubtreesAreSilent
