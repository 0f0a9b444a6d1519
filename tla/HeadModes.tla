----------------------------- MODULE HeadModes -----------------------------
(***************************************************************************)
(* The insertion modes of parser.c up to the body, and the text mode.  A   *)
(* handler gives the state after a token; a token it ignores leaves the    *)
(* state as it is.  handle_in_head calls handle_in_body, which calls it,   *)
(* for the start tag of html only: that clause stands first.               *)
(***************************************************************************)
EXTENDS AdoptionAgency

\* The clause of handle_in_body for a start tag of html.
StartHtml(s, t) == IF HasOpen(s, "template") THEN s ELSE MergeAttributes(s, t, s.root)

MetadataTags == {"base", "basefont", "bgsound", "link", "meta", "noframes", "script", "style",
                 "template", "title"}

InHead(s, t) ==
  CASE t.type = "Whitespace" -> InsertText(s, t)
    [] t.type = "Doctype" -> s
    [] t.type = "Comment" -> AppendComment(s, Current(s))
    [] Starts(t, {"html"}) -> StartHtml(s, t)
    [] Starts(t, {"base", "basefont", "bgsound", "menuitem", "link", "meta"}) -> InsertVoid(s, t)
    [] Starts(t, {"title"}) -> RunGenericParsing(s, t, "text")
    [] Starts(t, {"noframes", "style"}) -> RunGenericParsing(s, t, "text")
    [] Starts(t, {"noscript"}) -> Go(InsertTag(s, t), "InHeadNoscript")
    [] Starts(t, {"script"}) -> RunGenericParsing(s, t, "text")
    [] Ends(t, {"head"}) -> Go(Pop(Claim(s, CurrentIs(s, {"head"}))), "AfterHead")
    [] Ends(t, {"body", "html", "br"}) -> Again(Go(Pop(s), "AfterHead"))
    [] Starts(t, {"template"}) ->
         PushTemplateMode(Go(NoFrameset(AddMarker(InsertTag(s, t))), "InTemplate"), "InTemplate")
    [] Ends(t, {"template"}) ->
         IF HasOpen(s, "template") THEN CloseTemplate(GenerateAllImpliedEndTags(s)) ELSE s
    [] \/ Starts(t, {"head"})
       \/ t.type = "EndTag" /\ t.tag \notin {"head", "body", "html", "br", "template"} -> s
    [] OTHER -> Again(Go(Pop(s), "AfterHead"))

Initial(s, t) ==
  CASE t.type = "Whitespace" -> s
    [] t.type = "Comment" -> AppendComment(s, Document)
    [] t.type = "Doctype" -> [Go(s, "BeforeHtml") EXCEPT !.quirks = t.quirks]
    [] OTHER -> Again([Go(s, "BeforeHtml") EXCEPT !.quirks = TRUE])

OtherEnd(t) == t.type = "EndTag" /\ t.tag \notin {"head", "body", "html", "br"}

WithRoot(s) == [s EXCEPT !.root = Current(s)]

BeforeHtml(s, t) ==
  CASE t.type \in {"Doctype", "Whitespace"} \/ OtherEnd(t) -> s
    [] t.type = "Comment" -> AppendComment(s, Document)
    [] Starts(t, {"html"}) -> Go(WithRoot(InsertTag(s, t)), "BeforeHead")
    [] OTHER -> Again(Go(WithRoot(InsertImplied(s, "html")), "BeforeHead"))

WithHead(s) == [s EXCEPT !.head = Current(s)]

BeforeHead(s, t) ==
  CASE t.type \in {"Doctype", "Whitespace"} \/ OtherEnd(t) -> s
    [] t.type = "Comment" -> AppendComment(s, Current(s))
    [] Starts(t, {"head"}) -> Go(WithHead(InsertTag(s, t)), "InHead")
    [] OTHER -> Again(Go(WithHead(InsertImplied(s, "head")), "InHead"))

InHeadNoscript(s, t) ==
  LET closed == Go(Pop(Claim(s, CurrentIs(s, {"noscript"}))), "InHead")
  IN  CASE t.type = "Doctype" -> s
        [] Starts(t, {"html"}) -> StartHtml(s, t)
        [] Ends(t, {"noscript"}) -> closed
        [] \/ t.type \in {"Whitespace", "Comment"}
           \/ Starts(t, {"basefont", "bgsound", "link", "meta", "noframes", "style"}) -> HandOn(s, "InHead")
        [] \/ Starts(t, {"head", "noscript"})
           \/ t.type = "EndTag" /\ t.tag \notin {"br", "noscript"} -> s
        [] OTHER -> Again(closed)

\* Mutant: the head stays on the stack.
IntoHeadLeavingHead(s, t) == InHead([Flush(s) EXCEPT !.open = Add(@, s.head)], t)

\* What belongs in the head goes there, though the head is closed.
IntoHead(s, t) ==
  LET pushed == [Flush(Claim(s, s.head # NoNode)) EXCEPT !.open = Add(@, s.head)]
  IN  [InHead(pushed, t) EXCEPT !.open = Remove(@, s.head)]

AfterHead(s, t) ==
  CASE t.type = "Whitespace" -> InsertText(s, t)
    [] t.type = "Doctype" \/ Starts(t, {"head"})
       \/ (t.type = "EndTag" /\ t.tag \notin {"body", "html", "br", "template"}) -> s
    [] t.type = "Comment" -> AppendComment(s, Current(s))
    [] Starts(t, {"html"}) -> StartHtml(s, t)
    [] Starts(t, {"body"}) -> Go(NoFrameset(InsertTag(s, t)), "InBody")
    [] Starts(t, {"frameset"}) -> Go(InsertTag(s, t), "InFrameset")
    [] Starts(t, MetadataTags) -> IntoHead(s, t)
    [] Ends(t, {"template"}) -> HandOn(s, "InHead")
    [] OTHER -> Again(Go(InsertImplied(s, "body"), "InBody"))

\* The content of an element the tokenizer reads as text, up to its end tag.
TextMode(s, t) ==
  IF IsText(t) THEN InsertText(s, t)
  ELSE LET closed == Go(Pop(s), s.original)
       IN  IF t.type = "Eof" THEN Again(closed) ELSE closed
=============================================================================
