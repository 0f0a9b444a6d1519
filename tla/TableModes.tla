----------------------------- MODULE TableModes -----------------------------
(***************************************************************************)
(* The insertion modes of parser.c for tables, selects and framesets, and  *)
(* those behind the body.  What a table cannot hold is handled as in the   *)
(* body, with the flag that sends what would become a child of a part of   *)
(* the table in front of the table.                                        *)
(***************************************************************************)
EXTENDS BodyMode

ColumnTags == {"caption", "col", "colgroup"}
RootTags == {"body", "html"}

Fostered(s) == HandOn([s EXCEPT !.foster = TRUE], "InBody")

InTable(s, t) ==
  LET cleared == ClearToTable(s) IN
  CASE IsText(t) ->
         Again([Claim(s, s.buffer = <<>>) EXCEPT !.original = s.mode, !.mode = "InTableText"])
    [] t.type = "Doctype" -> s
    [] t.type = "Comment" -> AppendComment(s, Current(s))
    [] Starts(t, {"caption"}) -> Go(InsertTag(AddMarker(cleared), t), "InCaption")
    [] Starts(t, {"colgroup"}) -> Go(InsertTag(cleared, t), "InColumnGroup")
    [] Starts(t, {"col"}) -> Again(Go(InsertImplied(cleared, "colgroup"), "InColumnGroup"))
    [] Starts(t, Sections) -> Go(InsertTag(cleared, t), "InTableBody")
    [] Starts(t, Cells \union {"tr"}) -> Again(Go(InsertImplied(cleared, "tbody"), "InTableBody"))
    [] Starts(t, {"table"}) -> IF InTableScope(s, {"table"}) THEN Again(CloseTable(s)) ELSE s
    [] Ends(t, {"table"}) -> IF InTableScope(s, {"table"}) THEN CloseTable(s) ELSE s
    [] Ends(t, RootTags \union ColumnTags \union Cells \union Sections \union {"tr"}) -> s
    [] Starts(t, {"style", "script", "template"}) \/ Ends(t, {"template"}) -> HandOn(s, "InHead")
    [] Starts(t, {"input"}) /\ IsHidden(t) -> InsertVoid(s, t)
    [] Starts(t, {"form"}) ->
         LET begun == InsertTag(s, t)
         IN  IF s.form # NoNode \/ HasOpen(s, "template") THEN s
             ELSE Pop([begun EXCEPT !.form = Current(begun)])
    [] t.type = "Eof" -> HandOn(s, "InBody")
    [] OTHER -> Fostered(s)

Blank == {" ", "\n"}

\* Text of a table, held back until it is known whether it is all white space.
InTableText(s, t) ==
  LET blank == \A i \in DOMAIN s.buffer : s.buffer[i] \in Blank
      flushed == Flush(IF blank THEN s ELSE Reconstruct([s EXCEPT !.foster = TRUE]))
  IN  IF IsText(t) THEN InsertText(s, t)
      ELSE Again([flushed EXCEPT !.foster = FALSE, !.mode = s.original])

InCaption(s, t) ==
  LET Closed(u) == Go(ClearFormatting(PopThrough(u, {"caption"})), "InTable")
      open == InTableScope(s, {"caption"})
  IN  CASE Ends(t, {"caption"}) -> IF open THEN Closed(GenerateImpliedEndTags(s, {})) ELSE s
        [] \/ Starts(t, ColumnTags \union Sections \union Cells \union {"tr"})
           \/ Ends(t, {"table"}) -> IF open THEN Again(Closed(s)) ELSE s
        [] Ends(t, RootTags \union Sections \union Cells \union {"col", "colgroup", "tr"}) -> s
        [] OTHER -> HandOn(s, "InBody")

InColumnGroup(s, t) ==
  LET left == Go(Pop(s), "InTable")
  IN  CASE t.type = "Whitespace" -> InsertText(s, t)
        [] t.type = "Doctype" \/ Ends(t, {"col"}) -> s
        [] t.type = "Comment" -> AppendComment(s, Current(s))
        [] Starts(t, {"html"}) -> StartHtml(s, t)
        [] Starts(t, {"col"}) -> InsertVoid(s, t)
        [] Ends(t, {"colgroup"}) -> IF CurrentIs(s, {"colgroup"}) THEN left ELSE s
        [] Starts(t, {"template"}) \/ Ends(t, {"template"}) -> HandOn(s, "InHead")
        [] t.type = "Eof" -> HandOn(s, "InBody")
        [] OTHER -> IF CurrentIs(s, {"colgroup"}) THEN Again(left) ELSE s

InTableBody(s, t) ==
  LET cleared == ClearToTableBody(s)
      left == Go(Pop(cleared), "InTable")
  IN  CASE Starts(t, {"tr"}) -> Go(InsertTag(cleared, t), "InRow")
        [] Starts(t, Cells) -> Again(Go(InsertImplied(cleared, "tr"), "InRow"))
        [] Ends(t, Sections) -> IF InTableScope(s, {t.tag}) THEN left ELSE s
        [] Starts(t, ColumnTags \union Sections) \/ Ends(t, {"table"}) ->
             IF \E tag \in Sections : InTableScope(s, {tag}) THEN Again(left) ELSE s
        [] Ends(t, RootTags \union ColumnTags \union Cells \union {"tr"}) -> s
        [] OTHER -> HandOn(s, "InTable")

InRow(s, t) ==
  LET cleared == ClearToTableRow(s)
      left == Go(Pop(cleared), "InTableBody")
      open == InTableScope(s, {"tr"})
  IN  CASE Starts(t, Cells) -> AddMarker(Go(InsertTag(cleared, t), "InCell"))
        [] Ends(t, {"tr"}) -> IF open THEN left ELSE s
        [] Starts(t, ColumnTags \union Sections \union {"tr"}) \/ Ends(t, {"table"}) ->
             IF open THEN Again(left) ELSE s
        [] Ends(t, Sections) -> IF InTableScope(s, {t.tag}) /\ open THEN Again(left) ELSE s
        [] Ends(t, RootTags \union ColumnTags \union Cells) -> s
        [] OTHER -> HandOn(s, "InTable")

InCell(s, t) ==
  CASE Ends(t, Cells) -> IF InTableScope(s, {t.tag}) THEN CloseCell(s, t.tag) ELSE s
    [] Starts(t, ColumnTags \union Sections \union Cells \union {"tr"}) ->
         IF InTableScope(s, {"th"}) \/ InTableScope(s, {"td"}) THEN CloseCurrentCell(Again(s)) ELSE s
    [] Ends(t, RootTags \union ColumnTags) -> s
    [] Ends(t, TableParts) -> IF InTableScope(s, {t.tag}) THEN CloseCurrentCell(Again(s)) ELSE s
    [] OTHER -> HandOn(s, "InBody")

-----------------------------------------------------------------------------

LeaveOption(s) == IF CurrentIs(s, {"option"}) THEN Pop(s) ELSE s
LeaveOptgroup(s) == IF CurrentIs(s, {"optgroup"}) THEN Pop(s) ELSE s

InSelect(s, t) ==
  LET open == InSelectScope(s, "select") IN
  CASE IsText(t) -> InsertText(s, t)
    [] t.type = "Comment" -> AppendComment(s, Current(s))
    [] Starts(t, {"html"}) -> StartHtml(s, t)
    [] Starts(t, {"option"}) -> InsertTag(LeaveOption(s), t)
    [] Starts(t, {"optgroup"}) -> InsertTag(LeaveOptgroup(LeaveOption(s)), t)
    [] Ends(t, {"optgroup"}) ->
         LeaveOptgroup(IF /\ CurrentIs(s, {"option"})
                          /\ IsHtml(s, s.open[Len(s.open) - 1], {"optgroup"}) THEN Pop(s) ELSE s)
    [] Ends(t, {"option"}) -> LeaveOption(s)
    [] Ends(t, {"select"}) \/ Starts(t, {"select"}) -> IF open THEN CloseSelect(s) ELSE s
    [] Starts(t, {"input", "keygen", "textarea"}) -> IF open THEN Again(CloseSelect(s)) ELSE s
    [] Starts(t, {"script", "template"}) \/ Ends(t, {"template"}) -> HandOn(s, "InHead")
    [] t.type = "Eof" -> HandOn(s, "InBody")
    [] OTHER -> s

InSelectInTable(s, t) ==
  LET parts == TableParts \union Cells \union {"caption"} IN
  CASE Starts(t, parts) -> Again(CloseSelect(s))
    [] Ends(t, parts) -> IF InTableScope(s, {t.tag}) THEN Again(CloseSelect(s)) ELSE s
    [] OTHER -> HandOn(s, "InSelect")

-----------------------------------------------------------------------------

AfterBody(s, t) ==
  CASE t.type = "Whitespace" \/ Starts(t, {"html"}) -> HandOn(s, "InBody")
    [] t.type = "Comment" -> AppendComment(s, s.root)
    [] t.type \in {"Doctype", "Eof"} -> s
    [] Ends(t, {"html"}) -> Claim(Go(s, "AfterAfterBody"), IsHtml(s, s.open[1], {"html"}))
    [] OTHER -> Again(Go(s, "InBody"))

InFrameset(s, t) ==
  LET popped == Pop(s) IN
  CASE t.type = "Whitespace" -> InsertText(s, t)
    [] t.type = "Comment" -> AppendComment(s, Current(s))
    [] Starts(t, {"html"}) -> StartHtml(s, t)
    [] Starts(t, {"frameset"}) -> InsertTag(s, t)
    [] Ends(t, {"frameset"}) -> IF CurrentIs(s, {"html"}) THEN s
                                ELSE IF CurrentIs(popped, {"frameset"}) THEN popped
                                ELSE Go(popped, "AfterFrameset")
    [] Starts(t, {"frame"}) -> InsertVoid(s, t)
    [] Starts(t, {"noframes"}) -> HandOn(s, "InHead")
    [] OTHER -> s

AfterFrameset(s, t) ==
  CASE t.type = "Whitespace" -> InsertText(s, t)
    [] t.type = "Comment" -> AppendComment(s, Current(s))
    [] Starts(t, {"html"}) -> StartHtml(s, t)
    [] Ends(t, {"html"}) -> Claim(Go(s, "AfterAfterFrameset"), IsHtml(s, s.open[1], {"html"}))
    [] Starts(t, {"noframes"}) -> HandOn(s, "InHead")
    [] OTHER -> s

AfterAfterBody(s, t) ==
  CASE t.type = "Comment" -> AppendComment(s, Document)
    [] t.type \in {"Doctype", "Whitespace"} \/ Starts(t, {"html"}) -> HandOn(s, "InBody")
    [] t.type = "Eof" -> s
    [] OTHER -> Again(Go(s, "InBody"))

AfterAfterFrameset(s, t) ==
  CASE t.type = "Comment" -> AppendComment(s, Document)
    [] t.type \in {"Doctype", "Whitespace"} \/ Starts(t, {"html"}) -> HandOn(s, "InBody")
    [] Starts(t, {"noframes"}) -> HandOn(s, "InHead")
    [] OTHER -> s
=============================================================================
