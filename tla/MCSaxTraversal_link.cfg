SPECIFICATION Spec
CONSTANTS
  Elements <- LinkElements
  Rejected <- NoFilter
  Unresolvable <- NoFilter
  HtmlNode <- McHtml
  HeadNode <- McHead
  BodyNode <- McBody
  HeadElements <- LinkHead
  BodyElements <- LinkBody
  Nesting <- LinkNesting
  MaxElements = 3
  MaxDepth = 6
  MaxTexts = 2
INVARIANTS
  AnchorsKeepTheirLink
