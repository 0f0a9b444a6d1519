SPECIFICATION Spec
CONSTANTS
  Elements <- AsymmetricElements
  Rejected <- AsymmetricFilter
  Unresolvable <- NoFilter
  HtmlNode <- McHtml
  HeadNode <- McHead
  BodyNode <- McBody
  HeadElements <- AsymmetricHead
  BodyElements <- AsymmetricBody
  Nesting <- AsymmetricNesting
  MaxElements = 4
  MaxDepth = 7
  MaxTexts = 1
INVARIANTS
  TypeOK
