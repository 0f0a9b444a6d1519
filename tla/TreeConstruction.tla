-------------------------- MODULE TreeConstruction --------------------------
(***************************************************************************)
(* The main loop of Gumbo (gumbo_parse_with_options): it takes a token, or *)
(* the same one again, and hands it to the insertion mode or to the rules  *)
(* for foreign content, until the end of the page has been handled.        *)
(*                                                                         *)
(* A page is one of Shapes, a sequence of sets of tokens from which one    *)
(* token each is drawn; it may end anywhere.  The tokens are those         *)
(* gumbo_lex gives in the state the parser has put it in.                  *)
(***************************************************************************)
EXTENDS TableModes

CONSTANT Shapes

TokenTypes == {"StartTag", "EndTag", "Character", "Whitespace", "CData", "Comment", "Doctype", "Eof"}
TokenFields == {"type", "tag", "attrs", "char", "selfClosing", "quirks"}

\* What gumbo_lex gives are tokens.
ASSUME ShapesAssumption ==
  \A page \in Shapes : \A i \in DOMAIN page : \A t \in page[i] : t.type \in TokenTypes /\ DOMAIN t = TokenFields

VARIABLES
  parser,     \* the state of the parser
  token,      \* the current token
  shape, fed, \* the page, and how many of its tokens have been read
  homes,      \* what has been read of the page's text, and the block each character was read in
  finished,   \* whether gumbo_parse_with_options has returned
  turn        \* loop_count, modulo 2

vars == <<parser, token, shape, fed, homes, finished, turn>>

-----------------------------------------------------------------------------

\* The handlers other handlers may hand a token on to come last, in the order they hand it on.
OwnRules(s, t) ==
  CASE s.mode = "Initial" -> Initial(s, t)
    [] s.mode = "BeforeHtml" -> BeforeHtml(s, t)
    [] s.mode = "BeforeHead" -> BeforeHead(s, t)
    [] s.mode = "InHeadNoscript" -> InHeadNoscript(s, t)
    [] s.mode = "AfterHead" -> AfterHead(s, t)
    [] s.mode = "Text" -> TextMode(s, t)
    [] s.mode = "InTableText" -> InTableText(s, t)
    [] s.mode = "InCaption" -> InCaption(s, t)
    [] s.mode = "InColumnGroup" -> InColumnGroup(s, t)
    [] s.mode = "InTableBody" -> InTableBody(s, t)
    [] s.mode = "InRow" -> InRow(s, t)
    [] s.mode = "InCell" -> InCell(s, t)
    [] s.mode = "InSelectInTable" -> InSelectInTable(s, t)
    [] s.mode = "InTemplate" -> InTemplate(s, t)
    [] s.mode = "AfterBody" -> AfterBody(s, t)
    [] s.mode = "InFrameset" -> InFrameset(s, t)
    [] s.mode = "AfterFrameset" -> AfterFrameset(s, t)
    [] s.mode = "AfterAfterBody" -> AfterAfterBody(s, t)
    [] s.mode = "AfterAfterFrameset" -> AfterAfterFrameset(s, t)
    [] OTHER -> HandOn(s, s.mode)

TableOrSelect(s, t) ==
  CASE s.rules = "InTable" -> InTable(HandOn(s, "none"), t)
    [] s.rules = "InSelect" -> InSelect(HandOn(s, "none"), t)
    [] OTHER -> s

BodyRules(s, t) == IF s.rules = "InBody" THEN InBody(HandOn(s, "none"), t) ELSE s
HeadRules(s, t) == IF s.rules = "InHead" THEN InHead(HandOn(s, "none"), t) ELSE s

HtmlContent(s, t) ==
  [HeadRules(BodyRules(TableOrSelect(OwnRules(s, t), t), t), t) EXCEPT !.foster = FALSE]

\* The start tags that end foreign content.
BreakoutTags ==
  {"b", "big", "blockquote", "body", "br", "center", "code", "dd", "div", "dl", "dt", "em", "embed",
   "head", "hr", "i", "img", "li", "listing", "menu", "meta", "nobr", "ol", "p", "pre", "ruby", "s",
   "small", "span", "strong", "strike", "sub", "sup", "table", "tt", "u", "ul", "var"} \union Headings

IsForeign(s, n) == s.nodes[n].ns # "html"

BreaksOut(t) ==
  \/ Starts(t, BreakoutTags)
  \/ Starts(t, {"font"}) /\ \E name \in {"color", "face", "size"} : HasAttribute(t, name)

\* Pops the current node and then down to where html content may stand.
PopForeign(s) ==
  LET Holds(n) == ~ IsForeign(s, n) \/ IsMathmlIntegrationPoint(s, n) \/ IsHtmlIntegrationPoint(s, n)
  IN  PopTo(s, Greatest({i \in 1 .. Len(s.open) - 1 : Holds(s.open[i])}))

\* The place of the innermost foreign element with the name of the end tag, 0
\* if there is none or an html element hides it.
ForeignPlace(s, t) ==
  LET html == Greatest({i \in DOMAIN s.open : ~ IsForeign(s, s.open[i])})
  IN  Greatest({i \in html + 1 .. Len(s.open) : s.nodes[s.open[i]].tag = t.tag})

ForeignContent(s, t) ==
  CASE t.type = "Whitespace" -> InsertText(s, t)
    [] t.type \in {"Character", "CData"} -> NoFrameset(InsertText(s, t))
    [] t.type = "Comment" -> AppendComment(s, Current(s))
    [] t.type = "Doctype" -> s
    [] BreaksOut(t) -> Again(PopForeign(s))
    [] t.type = "StartTag" /\ ~ BreaksOut(t) ->
         EndAtOnce(InsertForeign(s, t, s.nodes[Current(s)].ns), t)
    [] t.type = "EndTag" -> PopTo(s, ForeignPlace(s, t) - 1)

\* What goes to the insertion mode though the current node may be foreign; the
\* end tag of no foreign element is handed on to it by handle_in_foreign_content.
TakesHtml(s, t) ==
  LET n == Current(s)
      annotation == IsElement(s, n, "math", {"annotation-xml"})
  IN  \/ s.open = <<>> \/ ~ IsForeign(s, n) \/ t.type = "Eof"
      \/ IsMathmlIntegrationPoint(s, n) /\ (IsText(t) \/ (t.type = "StartTag" /\ t.tag \notin {"mglyph", "malignmark"}))
      \/ annotation /\ Starts(t, {"svg"})
      \/ IsHtmlIntegrationPoint(s, n) /\ (IsText(t) \/ t.type = "StartTag")
      \/ t.type = "EndTag" /\ ForeignPlace(s, t) = 0

HandleToken(s, t) ==
  LET read == [s EXCEPT !.skipLinefeed = FALSE]
  IN  IF s.skipLinefeed /\ t.type = "Whitespace" /\ t.char = "\n" THEN read
      ELSE IF TakesHtml(read, t) THEN HtmlContent(read, t) ELSE ForeignContent(read, t)

-----------------------------------------------------------------------------

Eof == [type |-> "Eof", tag |-> "", attrs |-> <<>>, char |-> "", selfClosing |-> FALSE, quirks |-> FALSE]

\* What the tokenizer can give: in the content of a text element text and its
\* end tag, CDATA sections in foreign content only.
Readable(t) ==
  /\ t.type = "CData" => parser.open # <<>> /\ IsForeign(parser, Current(parser))
  /\ parser.lexer = "plaintext" => IsText(t)
  /\ parser.lexer = "text" => IsText(t) \/ Ends(t, {parser.nodes[Current(parser)].tag})

NextTokens == {Eof} \union (IF fed + 1 \in DOMAIN shape THEN {t \in shape[fed + 1] : Readable(t)} ELSE {})

\* The elements that are looked through when a character is looked for in the
\* tree: formatting elements come and go around a block.
LookedThrough == FormattingTags \union {"a", "nobr", "form"}
Block(s) == LET blocks == {i \in DOMAIN s.open : ~ IsHtml(s, s.open[i], LookedThrough)}
            IN  IF blocks = {} THEN NoNode ELSE s.open[Greatest(blocks)]

Init ==
  /\ parser = InitialState /\ token = [Eof EXCEPT !.type = "None"]
  /\ shape \in Shapes /\ fed = 0 /\ homes = <<>> /\ finished = FALSE /\ turn = 0

\* A turn of the loop: one of the actions below is possible until the parser has returned.
Turns == ~ finished /\ turn' = 1 - turn

\* The token of this turn: the one the parser has asked for again, or the next of the page.
TakeToken ==
  \/ parser.reprocess /\ UNCHANGED <<token, fed>>
  \/ ~ parser.reprocess /\ token.type # "Eof" /\ token' \in NextTokens /\ fed' = fed + 1

\* The end tag of a text element has taken the tokenizer back to the data state.
Ready == [parser EXCEPT !.reprocess = FALSE, !.lexer = IF token'.type = "EndTag" THEN "data" ELSE @]

ParseToken ==
  /\ Turns
  /\ TakeToken
  /\ parser' = HandleToken(Ready, token')
  /\ homes' = IF token'.type \in {"Character", "CData"} /\ ~ parser'.reprocess /\ parser'.mode # "InColumnGroup"
              THEN Append(homes, [char |-> token'.char, block |-> Block(parser')]) ELSE homes
  /\ UNCHANGED <<shape, finished>>

\* finish_parsing
FinishParsing ==
  /\ Turns
  /\ token.type = "Eof" /\ ~ parser.reprocess
  /\ parser' = PopTo(Flush(parser), 0) /\ finished' = TRUE
  /\ UNCHANGED <<token, shape, fed, homes>>

Next == ParseToken \/ FinishParsing

\* The loop runs on one thread until it is through: it takes its turns, whatever they do.
Spec == Init /\ [][Next]_vars /\ WF_turn(Turns)

-----------------------------------------------------------------------------
Nodes == parser.nodes
Live == {n \in DOMAIN Nodes : Nodes[n].type # "destroyed"}
Kids(n) == Nodes[n].children
Path(n) == \* n and the nodes above it, up to a number of them no tree exceeds
  LET up[k \in Nat, m \in Nat] ==
        IF k = 0 \/ Nodes[m].parent = NoNode THEN <<m>> ELSE <<m>> \o up[k - 1, Nodes[m].parent]
  IN  up[Len(Nodes), n]

Modes ==
  {"Initial", "BeforeHtml", "BeforeHead", "InHead", "InHeadNoscript", "AfterHead", "InBody", "Text",
   "InTable", "InTableText", "InCaption", "InColumnGroup", "InTableBody", "InRow", "InCell", "InSelect",
   "InSelectInTable", "InTemplate", "AfterBody", "InFrameset", "AfterFrameset", "AfterAfterBody",
   "AfterAfterFrameset"}

\* An element of foreign content bears a name that get_appropriate_insertion_mode answers for: it
\* looks at the tags on the stack without their namespaces, takes an svg td for a cell, and opens
\* the next table in a place where no html table may stand.
ModeTags ==
  {"select", "caption", "colgroup", "table", "template", "head", "body", "frameset", "html"}
    \union Cells \union Sections \union {"tr"}
Misnamed == \E n \in DOMAIN Nodes : Nodes[n].tag \in ModeTags /\ Nodes[n].ns # "html"

\* A body has been thrown away for a frameset (StartFrameset).
ThrownAway == Live # DOMAIN Nodes

\* The two sides of every link agree, whatever was built, taken apart or moved: a node is a child
\* of its parent and of no other node, once, at the place its index says (append_node,
\* insert_node, remove_from_parent, the adoption agency).  The children of the root in a frameset
\* page are left out of the index: StartFrameset.
LinksAgree ==
  /\ \A p \in Live : \A i \in DOMAIN Kids(p) :
       LET n == Kids(p)[i]
       IN  /\ n \in Live /\ Nodes[n].parent = p
           /\ Nodes[n].index = i - 1 \/ (p = parser.root /\ ThrownAway)
           /\ \A j \in DOMAIN Kids(p) : Kids(p)[j] = n => i = j
  /\ \A n \in Live : Nodes[n].parent # NoNode => Nodes[n].parent \in Live /\ In(Kids(Nodes[n].parent), n)

\* No assertion of the parser fails.
AssertionsHold == parser.sound

\* The two lists the parser finds its way by hold elements that exist, each once: the stack
\* begins with the root, is empty only before there is one (the assertion in get_current_node) and has a template mode for every template (reset_insertion_mode_-
\* appropriately reads it), an element is listed once as an active formatting element, and no
\* four elements of one kind are listed behind the last marker (the Noah's Ark clause), however
\* often a formatting element is opened, reopened as a clone, or put back by the adoption agency.
OpenTemplates(s) == {n \in DOMAIN s.nodes : In(s.open, n) /\ IsHtml(s, n, {"template"})}
ListsAreSound ==
  LET open == parser.open
      active == parser.active
  IN  /\ \A i \in DOMAIN open : open[i] \in Live /\ \A j \in DOMAIN open : open[i] = open[j] => i = j
      /\ open = <<>> => parser.root = NoNode \/ finished
      /\ open # <<>> => open[1] = parser.root
      /\ Cardinality(OpenTemplates(parser)) <= Len(parser.templateModes)
      /\ \A i \in DOMAIN active : active[i] # Marker =>
           active[i] \in Live /\ \A j \in DOMAIN active : active[i] = active[j] => i = j
      /\ \A i \in AfterMarker(parser) :
           Cardinality({j \in AfterMarker(parser) : Identical(parser, active[i], active[j])}) <= 3

\* More than three elements between a formatting element and a block: step 13.5 of the adoption
\* agency drops the fourth from one of the two lists only, and text may go astray.
Deep == \E n \in Live : LET path == Path(n)
                        IN  Cardinality({i \in DOMAIN path : Nodes[path[i]].type = "element" /\ ~ IsSpecial(parser, path[i])}) > 4

\* Content misnested in a table is "foster parented outside of the table", as the comment on the
\* flag _foster_parent_insertions has it: whatever is written between the parts of a table, its rows
\* and sections hold parts of the table only, and all other content stands in front of it
\* (handle_in_table and get_appropriate_insertion_location). On a deep page an element that step 13.5
\* left on the stack above a table can vouch for one below it, and the table becomes its furthest block.
TableContent ==
  {"caption", "colgroup", "col", "style", "script", "template", "form", "input"} \union TableParts \union Cells
TablesHoldTableContent ==
  ~ Deep => \A p \in Live : IsHtml(parser, p, TableParts) => \A i \in DOMAIN Kids(p) :
    LET n == Kids(p)[i]
    IN  \/ Nodes[n].type \in {"comment", "whitespace"}
        \/ Nodes[n].type \in Elements /\ IsHtml(parser, n, TableContent)

Frameset == \E n \in DOMAIN Nodes : Nodes[n].tag = "frameset"

\* One root, with a head and then a body or a frameset.
HtmlHeadBody ==
  LET Named(p) == SelectSeq(Kids(p), LAMBDA n : /\ Nodes[n].type \notin {"comment", "whitespace"}
                                                /\ ~ (Frameset /\ Nodes[n].tag = "noframes"))
      Tags(p) == [i \in DOMAIN Named(p) |-> Nodes[Named(p)[i]].tag]
  IN  /\ Tags(Document) = IF parser.root = NoNode THEN <<>> ELSE <<"html">>
      /\ parser.root # NoNode =>
           Tags(parser.root) \in {<<>>, <<"head">>, <<"head", "body">>, <<"head", "frameset">>}
      /\ finished => parser.root # NoNode /\ Len(Tags(parser.root)) = 2

\* The page the Java side walks is one tree: every node the parser made hangs below the document,
\* also after the adoption agency took it from its parent.  It has one root, with a head and then
\* a body or a frameset, and nothing else but comments and white space around them, and noframes
\* behind a frameset; the state is of its type.
PageHasItsShape ==
  /\ parser.mode \in Modes /\ parser.original \in Modes /\ parser.lexer \in {"data", "text", "plaintext"}
  /\ ~ Misnamed => (\A n \in Live : Top(Path(n)) = Document) /\ HtmlHeadBody

-----------------------------------------------------------------------------
\* The characters of the tree, in the order of the document.
TextNodes == {n \in Live : Nodes[n].type \in Texts}
Before(m, n) ==
  LET mp == Path(m) np == Path(n)
      meet == CHOOSE k \in 0 .. Len(mp) - 1 : /\ k < Len(np) /\ mp[Len(mp) - k] = np[Len(np) - k]
                                              /\ mp[Len(mp) - k - 1] # np[Len(np) - k - 1]
  IN  Nodes[mp[Len(mp) - meet - 1]].index < Nodes[np[Len(np) - meet - 1]].index
IsRead(c) == \E i \in DOMAIN homes : homes[i].char = c
Read(text) == SelectSeq(text, IsRead)
HomeOf(c) == homes[CHOOSE i \in DOMAIN homes : homes[i].char = c].block
PlaceInPage(c) == CHOOSE i \in DOMAIN homes : homes[i].char = c

HasTable == \E n \in DOMAIN Nodes : Nodes[n].tag \in TableParts

\* No character of a page is lost or shown twice, and all stand in the tree in the order in
\* which they were written, however up to three formatting elements were taken apart; only a table moves text
\* in front of itself, and only a frameset, or a template made of columns, drops it.
TextIsInOrder ==
  ~ Frameset =>
    /\ \A i \in DOMAIN homes :
         LET c == homes[i].char
             at == {n \in TextNodes : In(Nodes[n].text, c)}
         IN  \/ at = {} /\ In(parser.buffer, c)
             \/ Cardinality(at) = 1 /\ ~ In(parser.buffer, c)
    /\ ~ HasTable /\ ~ Deep => \A m \in TextNodes :
         /\ \A i \in DOMAIN Read(Nodes[m].text) : \A j \in 1 .. i - 1 :
              PlaceInPage(Read(Nodes[m].text)[j]) < PlaceInPage(Read(Nodes[m].text)[i])
         /\ \A n \in TextNodes \ {m} : Before(m, n) =>
              \A i \in DOMAIN Read(Nodes[m].text), j \in DOMAIN Read(Nodes[n].text) :
                PlaceInPage(Read(Nodes[m].text)[i]) < PlaceInPage(Read(Nodes[n].text)[j])

\* A character stays in the block it was read in, whatever becomes of the formatting elements
\* around it and though it is put into the tree only later: before an element is opened or
\* closed, the text that waits is flushed (pop_current_node, insert_element).  A form counts as a
\* formatting element here: handle_in_body takes it from the stack and does not flush.
TextStaysInItsBlock ==
  ~ Frameset => \A n \in TextNodes : \A i \in DOMAIN Nodes[n].text :
    LET c == Nodes[n].text[i]
        around == SelectSeq(Tail(Path(n)), LAMBDA m : ~ IsHtml(parser, m, LookedThrough))
    IN  IsRead(c) => HomeOf(c) = around[1] \/ IsHtml(parser, HomeOf(c), TableParts)

\* The parser returns, whatever the page: no token is handed back to the loop for ever.
PageIsParsed == <>finished
=============================================================================
