--------------------------- MODULE MCSaxTraversal ---------------------------
(* Small documents for TLC: element nodes, filters and nesting rules.      *)
EXTENDS ArticleDocument

Plain(tag) == [tag |-> tag, id |-> "", href |-> "none", src |-> FALSE, class |-> ""]
WithId(tag, id) == [Plain(tag) EXCEPT !.id = id]
Anchor(href) == [Plain("a") EXCEPT !.href = href]
Image(src) == [Plain("img") EXCEPT !.src = src]
WithClass(tag, class) == [Plain(tag) EXCEPT !.class = class]

McHtml == Plain("html")
McHead == Plain("head")
McBody == WithId("body", "b")

AllElements(inBody, inHead) == {McHtml, McHead, McBody} \union inBody \union inHead

\* Elements without children, and those that hold only text.
VoidTags == {"img", "br", "meta", "input"}
TextOnlyTags == {"title", "script", "style"}

Tags(elements) == {e.tag : e \in elements}

\* Any element in any other, text everywhere it is rendered.
FreeNesting(inBody, inHead) ==
  LET parents == (Tags(inBody) \ (VoidTags \union TextOnlyTags)) \union {"body", "head"}
      texts == (Tags(inBody) \union Tags(inHead)) \ VoidTags
  IN  (parents \X Tags(inBody \union inHead)) \union ((texts \union {"body"}) \X {TextNode})

-----------------------------------------------------------------------------
(* text: all that decides the style, the link, the kind and the tag of a   *)
(* text, with a link that cannot be resolved and an ignored tag; lists,    *)
(* items and tables in any nesting.                                        *)

TextBody == {Plain("b"), Anchor("l1"), Anchor("none"), Anchor("bad"), Plain("div"), Plain("noscript"),
             Plain("h1"), Plain("pre"), Plain("blockquote"), Plain("q"), Image(TRUE), Image(FALSE),
             Plain("br"), Plain("ul"), WithId("li", "i"), Plain("table")}
TextHead == {Plain("title"), Plain("style")}
TextElements == AllElements(TextBody, TextHead)
TextNesting == FreeNesting(TextBody, TextHead)
BadLink == {"bad"}
NoFilter == {}

-----------------------------------------------------------------------------
(* link: a block in a link, as HTML5 allows; no link in a link.            *)

LinkBody == {Anchor("l1"), Plain("div"), Plain("b")}
LinkHead == {Plain("title")}
LinkElements == AllElements(LinkBody, LinkHead)
LinkNesting == FreeNesting(LinkBody, LinkHead) \ {<<"a", "a">>}

-----------------------------------------------------------------------------
(* page: well-nested lists, tables and quotations.  An item stands in a    *)
(* list and a list holds items.  The tbody the parser puts between table   *)
(* and tr may be left out, for it does nothing but take a place.  As in    *)
(* CustomTagFilterTest every <div class="menu"> is filtered out.           *)

PageBody == {Plain("ol"), Plain("li"), Plain("table"), Plain("tbody"), Plain("tr"), Plain("td"),
             Plain("blockquote"), Plain("div"), WithClass("div", "menu")}
PageHead == {Plain("title")}
PageElements == AllElements(PageBody, PageHead)
PageNesting ==
  LET flow == {"table", "blockquote", "div", TextNode}
  IN  ({"body", "li", "td", "div"} \X (flow \union {"ol"}))
        \union {<<"blockquote", TextNode>>, <<"ol", "li">>, <<"tr", "td">>}
        \union ({"table"} \X {"tbody", "tr"}) \union {<<"tbody", "tr">>}
        \union {<<"head", "title">>, <<"title", TextNode>>}
MenuFilter == {<<"div", "menu">>}

-----------------------------------------------------------------------------
(* asymmetric: a filter that accepts some lists and items by their class   *)
(* and rejects the bare tag, which is all that onEndTag can ask about.     *)

AsymmetricBody == {WithClass("ul", "x"), WithClass("li", "x"), Plain("li"), Plain("ol"), Plain("p")}
AsymmetricHead == {WithClass("meta", "x")}
AsymmetricElements == AllElements(AsymmetricBody, AsymmetricHead)
AsymmetricNesting == FreeNesting(AsymmetricBody, AsymmetricHead)
AsymmetricFilter == {<<"ul", "">>, <<"li", "">>, <<"meta", "">>}
=============================================================================
