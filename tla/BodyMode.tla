------------------------------ MODULE BodyMode ------------------------------
(***************************************************************************)
(* handle_in_body of parser.c, the mode most other modes fall back on, and *)
(* handle_in_template, with which it shares the end of the page.           *)
(***************************************************************************)
EXTENDS HeadModes

BlockTags ==
  {"address", "article", "aside", "blockquote", "center", "details", "dir", "div", "dl", "fieldset",
   "figcaption", "figure", "footer", "header", "hgroup", "menu", "main", "nav", "ol", "p", "section",
   "summary", "ul"}

ClosedBlockTags == (BlockTags \ {"p"}) \union {"button", "listing", "pre"}

FormattingTags == {"b", "big", "code", "em", "font", "i", "s", "small", "strike", "strong", "tt", "u"}

ObjectTags == {"applet", "marquee", "object"}

\* Tags that mean something only in a table, a frameset or before the body.
MisplacedTags == {"caption", "col", "colgroup", "frame", "head", "tbody", "td", "tfoot", "th", "thead", "tr"}

\* A second body start tag gives its attributes to the body.
StartBody(s, t) ==
  IF Len(s.open) < 2 \/ ~ IsHtml(s, s.open[2], {"body"}) \/ HasOpen(s, "template") THEN s
  ELSE MergeAttributes(NoFrameset(s), t, s.open[2])

\* The frameset takes the place of a body that holds nothing that counts.
\* The children of the root that stood behind the body keep their index.
WithoutBody(s, nodes, body) ==
  [s EXCEPT !.nodes = DestroyNode(WithChildren(nodes, s.root, Remove(nodes[s.root].children, body)), body)]
DropBody(s, body) == WithoutBody(s, s.nodes, body)
StartFrameset(s, t) ==
  IF Len(s.open) < 2 \/ ~ IsHtml(s, s.open[2], {"body"}) \/ ~ s.framesetOk THEN s
  ELSE Go(InsertTag(DropBody(ClearFormatting(PopTo(s, 1)), s.open[2]), t), "InFrameset")

\* The end of the page inside a template closes it and asks again.
EndInTemplate(s) == IF HasOpen(s, "template") THEN Again(CloseTemplate(s)) ELSE s

EndBody(s, t) ==
  LET after == Go(s, "AfterBody")
  IN  IF ~ InScope(s, {"body"}) THEN s
      ELSE IF t.tag = "html" THEN Again(after) ELSE Claim(after, IsHtml(s, s.open[2], {"body"}))

CloseHeading(s) == IF CurrentIs(s, Headings) THEN Pop(s) ELSE s
StartHeading(s, t) == InsertTag(CloseHeading(CloseP(s)), t)

FormAllowed(s) == s.form = NoNode \/ HasOpen(s, "template")
PointToForm(s, n) == IF HasOpen(s, "template") THEN s ELSE [s EXCEPT !.form = n]
BegunForm(s) == PointToForm(s, Current(s))
StartForm(s, t) == IF FormAllowed(s) THEN BegunForm(InsertTag(CloseP(s), t)) ELSE s

\* Outside a template the form leaves the stack, whatever stands above it, and
\* the text that waits is not put into it.
LeaveForm(s) == IF CurrentIs(s, {"form"}) THEN Pop(s) ELSE s
TakeForm(s) == Claim([s EXCEPT !.form = NoNode, !.open = Remove(@, s.form)], In(s.open, s.form))
EndForm(s) ==
  IF HasOpen(s, "template")
  THEN IF InScope(s, {"form"}) THEN LeaveForm(GenerateImpliedEndTags(s, {})) ELSE s
  ELSE IF s.form = NoNode \/ ~ NodeInScope(s, s.form) THEN [s EXCEPT !.form = NoNode]
  ELSE TakeForm(GenerateImpliedEndTags(s, {}))

AddCurrent(s) == AddFormatting(s, Current(s))
StartFormatting(s, t) == AddCurrent(InsertTag(Reconstruct(s), t))

\* A link in a link closes the outer one, which must leave both lists.
WithoutAnchor(s, rest) ==
  IF rest = 0 THEN s ELSE [s EXCEPT !.active = RemoveAt(@, rest - 1), !.open = Remove(@, s.active[rest])]
CloseAnchor(s) == WithoutAnchor(s, FormattingPlace(s, "a"))
StartAnchor(s, t) ==
  StartFormatting(IF FormattingPlace(s, "a") = 0 THEN s ELSE CloseAnchor(Adopt(s, "a")), t)

CloseNobr(s) == IF InScope(s, {"nobr"}) THEN Reconstruct(Adopt(s, "nobr")) ELSE s
StartNobr(s, t) == AddCurrent(InsertTag(CloseNobr(Reconstruct(s)), t))

\* A form with a rule, a labelled input and another rule.
Rule(s) == Pop(InsertImplied(s, "hr"))
Prompt(s) == [InsertImplied(s, "label") EXCEPT !.buffer = <<"prompt">>, !.bufferType = "text"]
Labelled(s) == Pop(Pop(InsertImplied(Prompt(s), "input")))
StartIsindex(s) ==
  IF FormAllowed(s)
  THEN PointToForm(Pop(Rule(Labelled(Rule(BegunForm(InsertImplied(NoFrameset(CloseP(s)), "form")))))), NoNode)
  ELSE s

StartSelect(s, t) ==
  LET begun == NoFrameset(InsertTag(Reconstruct(s), t))
  IN  Go(begun, IF s.mode \in {"InTable", "InCaption", "InTableBody", "InRow", "InCell"}
                THEN "InSelectInTable" ELSE "InSelect")

StartRuby(s, t) ==
  LET except == IF t.tag \in {"rt", "rp"} THEN {"rtc"} ELSE {}
  IN  InsertTag(IF InScope(s, {"ruby"}) THEN GenerateImpliedEndTags(s, except) ELSE s, t)

EndAtOnce(s, t) == IF t.selfClosing THEN Pop(s) ELSE s
StartForeign(s, t, ns) == EndAtOnce(InsertForeign(Reconstruct(s), t, ns), t)

\* Mutant: the end tag of a paragraph that is not open is handed back and opens none.
EndPWithoutP(s) == IF InButtonScope(s, "p") THEN ImplicitlyClose(s, {"p"}) ELSE Again(s)

\* The end tag of a paragraph that is not open opens one.
EndP(s) ==
  IF InButtonScope(s, "p") THEN ImplicitlyClose(s, {"p"}) ELSE Again(InsertImplied(s, "p"))

\* Any other end tag: closes the innermost element with its tag, unless a
\* special element hides it.
EndFound(s, t, found) == IF IsHtml(s, s.open[found], {t.tag}) THEN PopTo(s, found - 1) ELSE s
EndOther(s, t) ==
  EndFound(s, t, Greatest({i \in DOMAIN s.open : IsHtml(s, s.open[i], {t.tag}) \/ IsSpecial(s, s.open[i])}))

-----------------------------------------------------------------------------

\* The start tags from that of the link on.
StartInline(s, t) ==
  LET tag == t.tag IN
  CASE tag = "a" -> StartAnchor(s, t)
    [] tag \in FormattingTags -> StartFormatting(s, t)
    [] tag = "nobr" -> StartNobr(s, t)
    [] tag \in ObjectTags -> NoFrameset(AddMarker(InsertTag(Reconstruct(s), t)))
    [] tag = "table" -> Go(NoFrameset(InsertTag(IF s.quirks THEN s ELSE CloseP(s), t)), "InTable")
    [] tag \in {"area", "br", "embed", "img", "keygen", "wbr"} -> NoFrameset(InsertVoid(Reconstruct(s), t))
    [] tag = "image" -> NoFrameset(InsertVoid(Reconstruct(s), [t EXCEPT !.tag = "img"]))
    [] tag = "input" -> InsertVoid(Reconstruct(IF IsHidden(t) THEN s ELSE NoFrameset(s)), t)
    [] tag \in {"param", "source", "track"} -> InsertVoid(s, t)
    [] tag = "hr" -> NoFrameset(InsertVoid(CloseP(s), t))
    [] tag = "isindex" -> StartIsindex(s)
    [] tag = "textarea" -> [NoFrameset(RunGenericParsing(s, t, "text")) EXCEPT !.skipLinefeed = TRUE]
    [] tag = "xmp" -> RunGenericParsing(NoFrameset(Reconstruct(CloseP(s))), t, "text")
    [] tag = "iframe" -> RunGenericParsing(NoFrameset(s), t, "text")
    [] tag = "noembed" -> RunGenericParsing(s, t, "text")
    [] tag = "select" -> StartSelect(s, t)
    [] tag \in {"option", "optgroup"} ->
         InsertTag(Reconstruct(IF CurrentIs(s, {"option"}) THEN Pop(s) ELSE s), t)
    [] tag \in {"rb", "rp", "rt", "rtc"} -> StartRuby(s, t)
    [] tag \in {"math", "svg"} -> StartForeign(s, t, tag)
    [] tag \in MisplacedTags -> s
    [] OTHER -> InsertTag(Reconstruct(s), t)

StartInBody(s, t) ==
  LET tag == t.tag IN
  CASE tag = "html" -> StartHtml(s, t)
    [] tag \in MetadataTags \union {"menuitem"} -> HandOn(s, "InHead")
    [] tag = "body" -> StartBody(s, t)
    [] tag = "frameset" -> StartFrameset(s, t)
    [] tag \in BlockTags -> InsertTag(CloseP(s), t)
    [] tag \in Headings -> StartHeading(s, t)
    [] tag \in {"pre", "listing"} ->
         [NoFrameset(InsertTag(CloseP(s), t)) EXCEPT !.skipLinefeed = TRUE]
    [] tag = "form" -> StartForm(s, t)
    [] tag = "li" -> InsertTag(CloseP(CloseListTag(s, {"li"})), t)
    [] tag \in {"dd", "dt"} -> InsertTag(CloseP(CloseListTag(s, {"dd", "dt"})), t)
    [] tag = "plaintext" -> Lexer(InsertTag(CloseP(s), t), "plaintext")
    [] tag = "button" -> IF InScope(s, {"button"}) THEN Again(ImplicitlyClose(s, {"button"}))
                         ELSE NoFrameset(InsertTag(Reconstruct(s), t))
    [] OTHER -> StartInline(s, t)

EndInBody(s, t) ==
  LET tag == t.tag IN
  CASE tag = "template" -> HandOn(s, "InHead")
    [] tag \in {"body", "html"} -> EndBody(s, t)
    [] tag \in ClosedBlockTags \union {"dd", "dt"} -> IF InScope(s, {tag}) THEN ImplicitlyClose(s, {tag}) ELSE s
    [] tag = "form" -> EndForm(s)
    [] tag = "p" -> EndP(s)
    [] tag = "li" -> IF InListScope(s, "li") THEN ImplicitlyClose(s, {"li"}) ELSE s
    [] tag \in Headings ->
         IF InScope(s, Headings) THEN PopThrough(GenerateImpliedEndTags(s, {}), Headings) ELSE s
    [] tag \in FormattingTags \union {"a", "nobr"} -> Adopt(s, tag)
    [] tag \in ObjectTags ->
         IF InTableScope(s, {tag}) THEN ClearFormatting(ImplicitlyClose(s, {tag})) ELSE s
    [] tag = "br" -> Pop(InsertImplied(Reconstruct(s), "br"))
    [] OTHER -> EndOther(s, t)

InBody(s, t) ==
  CASE t.type = "Whitespace" -> InsertText(Reconstruct(s), t)
    [] t.type \in {"Character", "CData"} -> NoFrameset(InsertText(Reconstruct(s), t))
    [] t.type = "Comment" -> AppendComment(s, Current(s))
    [] t.type = "Doctype" -> s
    [] t.type = "Eof" -> IF s.templateModes # <<>> THEN EndInTemplate(s) ELSE s
    [] t.type = "StartTag" -> StartInBody(s, t)
    [] t.type = "EndTag" -> EndInBody(s, t)

-----------------------------------------------------------------------------

\* The mode a start tag gives to the content of a template.
TemplateMode(tag) ==
  CASE tag \in {"caption", "colgroup"} \union Sections -> "InTable"
    [] tag = "col" -> "InColumnGroup"
    [] tag = "tr" -> "InTableBody"
    [] tag \in Cells -> "InRow"
    [] OTHER -> "InBody"

InTemplate(s, t) ==
  CASE IsText(t) \/ t.type \in {"Comment", "Doctype"} -> HandOn(s, "InBody")
    [] Starts(t, MetadataTags) \/ Ends(t, {"template"}) -> HandOn(s, "InHead")
    [] t.type = "StartTag" /\ t.tag \notin MetadataTags ->
         Again(Go(PushTemplateMode(PopTemplateMode(s), TemplateMode(t.tag)), TemplateMode(t.tag)))
    [] t.type = "Eof" -> EndInTemplate(s)
    [] t.type = "EndTag" /\ t.tag # "template" -> s
    [] OTHER -> Claim(s, FALSE)
=============================================================================
