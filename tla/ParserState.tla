---------------------------- MODULE ParserState ----------------------------
(***************************************************************************)
(* The state of Gumbo's tree construction (parser.c, GumboParserState) and *)
(* the operations its insertion modes are made of: the text buffer, the    *)
(* stack of open elements, its scopes, and the list of active formatting   *)
(* elements.  An operation takes a state and gives the next one.           *)
(*                                                                         *)
(* A token is a record [type, tag, attrs, char, selfClosing, quirks].      *)
(* Parse errors, source positions and parse flags are left out; a failing  *)
(* assertion of the code is remembered in the field sound.                 *)
(***************************************************************************)
EXTENDS GumboTree, FiniteSets

Marker == -1    \* kActiveFormattingScopeMarker

InitialState ==
  [nodes |-> NewDocument, root |-> NoNode, mode |-> "Initial", original |-> "Initial",
   templateModes |-> <<>>, open |-> <<>>, active |-> <<>>, head |-> NoNode, form |-> NoNode,
   buffer |-> <<>>, bufferType |-> "whitespace", reprocess |-> FALSE, framesetOk |-> TRUE,
   skipLinefeed |-> FALSE, foster |-> FALSE, quirks |-> FALSE, lexer |-> "data", rules |-> "none",
   sound |-> TRUE]

Greatest(S) == CHOOSE x \in S \union {0} : \A y \in S : y <= x

Top(v) == v[Len(v)]

In(v, e) == \E i \in DOMAIN v : v[i] = e

Claim(s, holds) == [s EXCEPT !.sound = @ /\ holds]

Go(s, mode) == [s EXCEPT !.mode = mode]
Again(s) == [s EXCEPT !.reprocess = TRUE]
NoFrameset(s) == [s EXCEPT !.framesetOk = FALSE]
Lexer(s, state) == [s EXCEPT !.lexer = state]

\* A handler that ends in a call of the handler of another mode (HtmlContent makes the call).
HandOn(s, mode) == [s EXCEPT !.rules = mode]

-----------------------------------------------------------------------------
(* Tokens and nodes by their tags.                                         *)

Starts(t, tags) == t.type = "StartTag" /\ t.tag \in tags
Ends(t, tags) == t.type = "EndTag" /\ t.tag \in tags
IsText(t) == t.type \in {"Character", "Whitespace"}
HasAttribute(t, name) == name \in DOMAIN t.attrs
IsHidden(t) == HasAttribute(t, "type") /\ t.attrs["type"] = "hidden"

IsElement(s, n, ns, tags) == s.nodes[n].ns = ns /\ s.nodes[n].tag \in tags
IsHtml(s, n, tags) == IsElement(s, n, "html", tags)

\* The document stands for the current node while the stack is empty.
Current(s) == IF s.open = <<>> THEN Document ELSE Top(s.open)
CurrentIs(s, tags) == IsHtml(s, Current(s), tags)

IsMathmlIntegrationPoint(s, n) == IsElement(s, n, "math", {"mi", "mo", "mn", "ms", "mtext"})

IsHtmlIntegrationPoint(s, n) ==
  \/ IsElement(s, n, "svg", {"foreignobject", "desc", "title"})
  \/ /\ IsElement(s, n, "math", {"annotation-xml"})
     /\ "encoding" \in DOMAIN s.nodes[n].attrs
     /\ s.nodes[n].attrs["encoding"] \in {"text/html", "application/xhtml+xml"}

TableParts == {"table", "tbody", "tfoot", "thead", "tr"}
Cells == {"td", "th"}
Sections == {"tbody", "tfoot", "thead"}
Headings == {"h1", "h2", "h3", "h4", "h5", "h6"}

SpecialTags ==
  {"address", "applet", "area", "article", "aside", "base", "basefont", "bgsound", "blockquote",
   "body", "br", "button", "caption", "center", "col", "colgroup", "menuitem", "dd", "details",
   "dir", "div", "dl", "dt", "embed", "fieldset", "figcaption", "figure", "footer", "form", "frame",
   "frameset", "head", "header", "hgroup", "hr", "html", "iframe", "img", "input", "isindex", "li",
   "link", "listing", "marquee", "menu", "meta", "nav", "noembed", "noframes", "noscript", "object",
   "ol", "p", "param", "plaintext", "pre", "script", "section", "select", "style", "summary",
   "table", "tbody", "td", "template", "textarea", "tfoot", "th", "thead", "title", "tr", "ul",
   "wbr", "xmp"} \union Headings

IsSpecial(s, n) ==
  \/ IsHtml(s, n, SpecialTags)
  \/ IsElement(s, n, "math", {"mi", "mo", "mn", "ms", "mtext", "annotation-xml"})
  \/ IsElement(s, n, "svg", {"foreignobject", "desc"})

-----------------------------------------------------------------------------
(* Where a node goes, and the text waiting for one.                        *)

\* The highest place in the stack of an element with one of these tags, or 0.
PlaceOf(s, tags) == Greatest({i \in DOMAIN s.open : IsHtml(s, s.open[i], tags)})

\* Mutant: the flag is not looked at.
LocationUnfostered(s, override) ==
  [target |-> IF override # NoNode THEN override ELSE IF s.root # NoNode THEN Current(s) ELSE Document,
   index |-> -1]

At(target, index) == [target |-> target, index |-> index]

BeforeTable(s, table, n) == IF n.parent # NoNode THEN At(n.parent, n.index) ELSE At(s.open[table - 1], -1)

FosterLocation(s, template, table) ==
  IF template > table THEN At(s.open[template], -1)
  ELSE IF table = 0 THEN At(s.open[1], -1)
  ELSE BeforeTable(s, table, s.nodes[s.open[table]])

LocationIn(s, target) ==
  IF s.foster /\ IsHtml(s, target, TableParts)
  THEN FosterLocation(s, PlaceOf(s, {"template"}), PlaceOf(s, {"table"})) ELSE At(target, -1)

InsertionLocation(s, override) ==
  LocationIn(s, IF override # NoNode THEN override ELSE IF s.root # NoNode THEN Current(s) ELSE Document)

Unlinked(s, n) == s.nodes[n].parent = NoNode /\ s.nodes[n].index = -1

Appended(s, parent, n) ==
  [Claim(s, Unlinked(s, n) /\ s.nodes[parent].type \in Elements \union {"document"})
     EXCEPT !.nodes = AppendNode(s.nodes, parent, n)]

Inserted(s, n, at) ==
  IF at.index = -1 THEN Appended(s, at.target, n)
  ELSE [Claim(s, /\ Unlinked(s, n)
                 /\ s.nodes[at.target].type \in Elements
                 /\ at.index < Len(s.nodes[at.target].children))
          EXCEPT !.nodes = InsertNode(s.nodes, n, at)]

Created(s, node) == [s EXCEPT !.nodes = Append(@, node)]
Newest(s) == Len(s.nodes)
Placed(s) == Inserted(s, Newest(s), InsertionLocation(s, NoNode))

\* The text the document cannot hold is dropped.
TextPlaced(s) ==
  IF InsertionLocation(s, NoNode).target = Document THEN s
  ELSE Placed(Created(s, [NewNode(s.bufferType) EXCEPT !.text = s.buffer]))

Flush(s) ==
  IF s.buffer = <<>> THEN s ELSE [TextPlaced(s) EXCEPT !.buffer = <<>>, !.bufferType = "whitespace"]

InsertText(s, t) ==
  [s EXCEPT !.buffer = Append(@, t.char),
            !.bufferType = CASE t.type = "Character" -> "text"
                             [] t.type = "CData" -> "cdata"
                             [] OTHER -> @]

AppendNewest(s, parent) == Appended(s, parent, Newest(s))
AppendComment(s, parent) == AppendNewest(Created(Flush(s), NewNode("comment")), parent)

-----------------------------------------------------------------------------
(* The stack of open elements.                                             *)

\* Mutant: the text that waits is not flushed.
PopToUnflushed(s, length) ==
  IF Len(s.open) <= length THEN s ELSE [s EXCEPT !.open = SubSeq(@, 1, length)]

\* pop_current_node until the stack has the given length, its bottom being the html element.
PopTo(s, length) ==
  IF Len(s.open) <= length THEN s
  ELSE [Claim(Flush(s), s.open # <<>> => IsHtml(s, s.open[1], {"html"})) EXCEPT !.open = SubSeq(@, 1, length)]

Pop(s) == PopTo(s, Len(s.open) - 1)

\* Pops until an element with one of these tags has been popped.
PopOff(s, place) == Claim(IF place = 0 THEN s ELSE PopTo(s, place - 1), place > 0)
PopThrough(s, tags) == PopOff(s, PlaceOf(s, tags))

\* Pops until an element with one of these tags is the current node.
ClearTo(s, tags) == PopTo(s, PlaceOf(s, tags))
ClearToTable(s) == ClearTo(s, {"html", "table", "template"})
ClearToTableBody(s) == ClearTo(s, Sections \union {"html", "template"})
ClearToTableRow(s) == ClearTo(s, {"html", "tr", "template"})

\* Pops while the current node has one of these tags.
PopWhile(s, tags) == PopTo(s, Greatest({i \in DOMAIN s.open : ~ IsHtml(s, s.open[i], tags)}))

ImpliedEndTags == {"dd", "dt", "li", "option", "optgroup", "p", "rp", "rb", "rt", "rtc"}
GenerateImpliedEndTags(s, except) == PopWhile(s, ImpliedEndTags \ except)
GenerateAllImpliedEndTags(s) ==
  PopWhile(s, {"caption", "colgroup", "dd", "dt", "li", "option", "optgroup", "p", "rp", "rt", "rtc",
               "tbody", "td", "tfoot", "th", "head", "tr"})

\* insert_element: the newest node becomes the current one.
Opened(s) == [Placed(s) EXCEPT !.open = Add(@, Newest(s))]

InsertNewElement(s, type, tag, ns, attrs) ==
  Opened(Created(Flush(s), [NewNode(type) EXCEPT !.tag = tag, !.ns = ns, !.attrs = attrs]))

InsertForeign(s, t, ns) == InsertNewElement(s, "element", t.tag, ns, t.attrs)
InsertTag(s, t) ==
  InsertNewElement(s, IF t.tag = "template" THEN "template" ELSE "element", t.tag, "html", t.attrs)
InsertImplied(s, tag) == InsertNewElement(s, "element", tag, "html", <<>>)
InsertVoid(s, t) == Pop(InsertTag(s, t))

\* The tag switches the tokenizer to the text of its element.
RunGenericParsing(s, t, lexer) ==
  [Lexer(InsertTag(s, t), lexer) EXCEPT !.original = s.mode, !.mode = "Text"]

\* The attributes an element does not have yet.
MergeAttributes(s, t, n) ==
  LET own == s.nodes[n].attrs
      merged == [a \in DOMAIN own \union DOMAIN t.attrs |-> IF a \in DOMAIN own THEN own[a] ELSE t.attrs[a]]
  IN  [s EXCEPT !.nodes[n].attrs = merged]

-----------------------------------------------------------------------------
(* Scopes: the first open element, from the top, that is the one looked    *)
(* for or ends the scope.                                                  *)

HasInScope(s, tags, Stops(_)) ==
  LET first == Greatest({i \in DOMAIN s.open : IsHtml(s, s.open[i], tags) \/ Stops(s.open[i])})
  IN  first > 0 /\ IsHtml(s, s.open[first], tags)

StopsScope(s, n, more) ==
  \/ IsHtml(s, n, more \union Cells \union {"applet", "caption", "html", "table", "marquee", "object",
                                            "template"})
  \/ IsElement(s, n, "math", {"mi", "mo", "mn", "ms", "mtext", "annotation-xml"})
  \/ IsElement(s, n, "svg", {"foreignobject", "desc", "title"})

HasOpen(s, tag) == HasInScope(s, {tag}, LAMBDA n : IsHtml(s, n, {"html"}))
InScope(s, tags) == HasInScope(s, tags, LAMBDA n : StopsScope(s, n, {}))
InListScope(s, tag) == HasInScope(s, {tag}, LAMBDA n : StopsScope(s, n, {"ol", "ul"}))
InButtonScope(s, tag) == HasInScope(s, {tag}, LAMBDA n : StopsScope(s, n, {"button"}))
InTableScope(s, tags) == HasInScope(s, tags, LAMBDA n : IsHtml(s, n, {"html", "table", "template"}))
InSelectScope(s, tag) == HasInScope(s, {tag}, LAMBDA n : ~ IsHtml(s, n, {"optgroup", "option"}))

NodeInScope(s, n) ==
  LET first == Greatest({i \in DOMAIN s.open : s.open[i] = n \/ StopsScope(s, s.open[i], {})})
  IN  first > 0 /\ s.open[first] = n

-----------------------------------------------------------------------------
(* Closing elements.                                                       *)

ImplicitlyClose(s, tags) == PopThrough(GenerateImpliedEndTags(s, tags), tags)

CloseP(s) == IF InButtonScope(s, "p") THEN ImplicitlyClose(s, {"p"}) ELSE s

\* li, or dd and dt: closes the innermost, unless a special element hides it.
CloseIfListed(s, tags, found) ==
  IF found > 0 /\ IsHtml(s, s.open[found], tags) THEN ImplicitlyClose(s, {s.nodes[s.open[found]].tag}) ELSE s
CloseListTag(s, tags) ==
  LET Stops(n) == IsSpecial(s, n) /\ ~ IsHtml(s, n, {"address", "div", "p"})
  IN  NoFrameset(CloseIfListed(s, tags,
                               Greatest({i \in DOMAIN s.open : IsHtml(s, s.open[i], tags) \/ Stops(s.open[i])})))

-----------------------------------------------------------------------------
(* The list of active formatting elements.                                 *)

AfterMarker(s) == (Greatest({i \in DOMAIN s.active : s.active[i] = Marker}) + 1) .. Len(s.active)

Identical(s, m, n) ==
  LET a == s.nodes[m] b == s.nodes[n] IN a.tag = b.tag /\ a.ns = b.ns /\ a.attrs = b.attrs

AddMarker(s) == [s EXCEPT !.active = Add(@, Marker)]

\* Mutant: a fourth element comes aboard.
AddFourth(s, n) ==
  LET same == {i \in AfterMarker(s) : Identical(s, s.active[i], n)}
      earliest == CHOOSE i \in same : \A j \in same : i <= j
      kept == IF Cardinality(same) > 3 THEN RemoveAt(s.active, earliest - 1) ELSE s.active
  IN  [s EXCEPT !.active = Add(kept, n)]

\* The Noah's Ark clause: the earliest of three identical elements makes place.
AddFormatting(s, n) ==
  LET same == {i \in AfterMarker(s) : Identical(s, s.active[i], n)}
      earliest == CHOOSE i \in same : \A j \in same : i <= j
      kept == IF Cardinality(same) >= 3 THEN RemoveAt(s.active, earliest - 1) ELSE s.active
  IN  [s EXCEPT !.active = Add(kept, n)]

\* Pops the list down to its last marker, the marker included.
ClearFormatting(s) ==
  LET marker == Greatest({i \in DOMAIN s.active : s.active[i] = Marker})
  IN  [s EXCEPT !.active = SubSeq(@, 1, marker - 1)]

\* Opens the formatting elements that were closed since the last one that is open.
Reconstruct(s) ==
  LET settled == Greatest({i \in DOMAIN s.active : s.active[i] = Marker \/ In(s.open, s.active[i])})
      Reopened(t, i) ==
        [Opened([t EXCEPT !.nodes = CloneNode(@, t.active[i])]) EXCEPT !.active[i] = Newest(t) + 1]
      upTo[i \in 0 .. Len(s.active)] == IF i <= settled THEN s ELSE Reopened(upTo[i - 1], i)
  IN  upTo[Len(s.active)]

-----------------------------------------------------------------------------
(* The insertion mode the stack asks for.                                  *)

\* The tag is looked at without its namespace.
AppropriateMode(s, i) ==
  LET tag == s.nodes[s.open[i]].tag
      around == Greatest({j \in 2 .. i : IsHtml(s, s.open[j], {"template", "table"})})
  IN  CASE tag = "select" -> IF around > 0 /\ IsHtml(s, s.open[around], {"table"})
                             THEN "InSelectInTable" ELSE "InSelect"
        [] tag \in Cells /\ i > 1 -> "InCell"
        [] tag = "tr" -> "InRow"
        [] tag \in Sections -> "InTableBody"
        [] tag = "caption" -> "InCaption"
        [] tag = "colgroup" -> "InColumnGroup"
        [] tag = "table" -> "InTable"
        [] tag = "template" -> IF s.templateModes = <<>> THEN "Initial" ELSE Top(s.templateModes)
        [] tag = "head" /\ i > 1 -> "InHead"
        [] tag = "body" -> "InBody"
        [] tag = "frameset" -> "InFrameset"
        [] tag = "html" -> IF s.head # NoNode THEN "AfterHead" ELSE "BeforeHead"
        [] OTHER -> IF i = 1 THEN "InBody" ELSE "Initial"

ResetMode(s) ==
  Go(s, AppropriateMode(s, Greatest({i \in DOMAIN s.open : AppropriateMode(s, i) # "Initial"})))

PushTemplateMode(s, mode) == [s EXCEPT !.templateModes = Add(@, mode)]
PopTemplateMode(s) == [s EXCEPT !.templateModes = Popped(@)]

CloseTable(s) == ResetMode(PopThrough(s, {"table"}))
CloseSelect(s) == ResetMode(PopThrough(s, {"select"}))

CloseCell(s, tag) ==
  Go(ClearFormatting(PopThrough(GenerateImpliedEndTags(s, {}), {tag})), "InRow")

CloseCurrentCell(s) ==
  IF InTableScope(s, {"td"})
  THEN CloseCell(Claim(s, ~ InTableScope(s, {"th"})), "td")
  ELSE CloseCell(Claim(s, InTableScope(s, {"th"})), "th")

CloseTemplate(s) ==
  ResetMode(PopTemplateMode(ClearFormatting(PopThrough(s, {"template"}))))
=============================================================================
