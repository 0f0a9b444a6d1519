---------------------------- MODULE TokenizerText ----------------------------
(***************************************************************************)
(* The handlers of the tokenizer for text: data, the content of elements   *)
(* read as RCDATA, raw text, script data and plain text, and the "<" that  *)
(* may end them.  A NUL, which each of them replaces, does not come.       *)
(***************************************************************************)
EXTENDS TokenizerState

\* What every text state does with a unit that means nothing to it.
EmitText(s, special) ==
  /\ In(s) /\ Current \notin special
  /\ EmitCurrentChar(s) /\ KeepTemporary

\* "<" may begin a tag: it goes to the temporary buffer, with the mark on it.
LessThan(s, next) ==
  /\ In(s) /\ Current = "<"
  /\ NextChar(next) /\ ClearTemporary(<<"<">>)

Ampersand(s, next) ==
  /\ In(s) /\ Current \in References
  /\ Reconsume(next) /\ KeepTemporary

CharRef(s, next) == In(s) /\ EmitCharRef(next)

DataState ==
  \/ EmitText("DATA", References \union {"<"})
  \/ LessThan("DATA", "TAG_OPEN")
  \/ Ampersand("DATA", "CHAR_REF_IN_DATA")
CharRefInDataState == CharRef("CHAR_REF_IN_DATA", "DATA")

RcdataState ==
  \/ EmitText("RCDATA", References \union {"<"})
  \/ LessThan("RCDATA", "RCDATA_LT")
  \/ Ampersand("RCDATA", "CHAR_REF_IN_RCDATA")
CharRefInRcdataState == CharRef("CHAR_REF_IN_RCDATA", "RCDATA")

RawtextState == EmitText("RAWTEXT", {"<"}) \/ LessThan("RAWTEXT", "RAWTEXT_LT")
ScriptState == EmitText("SCRIPT", {"<"}) \/ LessThan("SCRIPT", "SCRIPT_LT")
PlaintextState == EmitText("PLAINTEXT", {})

-----------------------------------------------------------------------------
TagOpenState ==
  /\ In("TAG_OPEN")
  /\ \/ Current = "!" /\ NextChar("MARKUP_DECLARATION") /\ ClearTemporary(<<>>) /\ KeepTag
     \/ Current = "/" /\ NextChar("END_TAG_OPEN") /\ AppendTemporary(<<"/">>) /\ KeepTag
     \/ Current = "?" /\ NextChar("BOGUS_COMMENT") /\ ClearTemporary(<<"?">>) /\ KeepTag
     \/ IsLetter /\ NextChar("TAG_NAME") /\ ChangeTag(NewTag(TRUE)) /\ KeepTemporary
     \/ /\ ~IsLetter /\ Current \notin {"!", "/", "?"}
        /\ EmitTemporary("DATA", temporary, scriptData) /\ KeepTag

EndTagOpenState ==
  /\ In("END_TAG_OPEN")
  /\ \/ Current = ">" /\ NextChar("DATA") /\ KeepTemporary /\ KeepTag
     \/ Current = EOF /\ EmitTemporary("DATA", temporary, scriptData) /\ KeepTag
     \/ IsLetter /\ NextChar("TAG_NAME") /\ ChangeTag(NewTag(FALSE)) /\ KeepTemporary
     \/ /\ ~IsLetter /\ Current \notin {">", EOF}
        /\ NextChar("BOGUS_COMMENT") /\ ClearTemporary(<<Current>>) /\ KeepTag

\* "<" in the text of an element: only "</" goes on.
TextLt(s, open, text) ==
  /\ In(s)
  /\ \/ Current = "/" /\ NextChar(open) /\ AppendTemporary(<<"/">>)
     \/ Current # "/" /\ EmitTemporary(text, temporary, scriptData)

\* "</": only a letter goes on, with an end tag that may yet be text.
TextEndTagOpen(s, name, text) ==
  /\ In(s)
  /\ \/ IsLetter /\ NextChar(name) /\ ChangeTag(NewTag(FALSE)) /\ AppendTemporary(<<Current>>)
     \/ ~IsLetter /\ EmitTemporary(text, temporary, scriptData) /\ KeepTag

EndsTagName == Current \in {" ", "/", ">"}

TextEndTagName(s, text) ==
  /\ In(s)
  /\ \/ IsLetter /\ NextChar(s) /\ ChangeTag(WithChar(Lower(Current))) /\ AppendTemporary(<<Current>>)
     \/ /\ IsAppropriateEndTag /\ KeepTemporary
        /\ \/ Current = " " /\ NextChar("BEFORE_ATTR_NAME") /\ ChangeTag(WithTagName)
           \/ Current = "/" /\ NextChar("SELF_CLOSING_START_TAG") /\ ChangeTag(WithTagName)
           \/ Current = ">" /\ EmitTag("DATA", WithTagName)
     \/ /\ ~IsLetter /\ ~(IsAppropriateEndTag /\ EndsTagName)
        /\ ChangeTag(Abandoned) /\ EmitTemporary(text, temporary, scriptData)

RcdataLtState == TextLt("RCDATA_LT", "RCDATA_END_TAG_OPEN", "RCDATA")
RcdataEndTagOpenState == TextEndTagOpen("RCDATA_END_TAG_OPEN", "RCDATA_END_TAG_NAME", "RCDATA")
RcdataEndTagNameState == TextEndTagName("RCDATA_END_TAG_NAME", "RCDATA")

RawtextLtState == TextLt("RAWTEXT_LT", "RAWTEXT_END_TAG_OPEN", "RAWTEXT")
RawtextEndTagOpenState == TextEndTagOpen("RAWTEXT_END_TAG_OPEN", "RAWTEXT_END_TAG_NAME", "RAWTEXT")
RawtextEndTagNameState == TextEndTagName("RAWTEXT_END_TAG_NAME", "RAWTEXT")

ScriptLtState ==
  \/ Current # "!" /\ TextLt("SCRIPT_LT", "SCRIPT_END_TAG_OPEN", "SCRIPT")
  \/ /\ In("SCRIPT_LT") /\ Current = "!"
     /\ EmitTemporary("SCRIPT_ESCAPED_START", Append(temporary, "!"), scriptData)
ScriptEndTagOpenState == TextEndTagOpen("SCRIPT_END_TAG_OPEN", "SCRIPT_END_TAG_NAME", "SCRIPT")
ScriptEndTagNameState == TextEndTagName("SCRIPT_END_TAG_NAME", "SCRIPT")

-----------------------------------------------------------------------------
\* "<!--" in a script.
EscapedStart(s, next) ==
  /\ In(s) /\ KeepTemporary
  /\ \/ Current = "-" /\ EmitCurrentChar(next)
     \/ Current # "-" /\ Reconsume("SCRIPT")

ScriptEscapedStartState == EscapedStart("SCRIPT_ESCAPED_START", "SCRIPT_ESCAPED_START_DASH")
ScriptEscapedStartDashState == EscapedStart("SCRIPT_ESCAPED_START_DASH", "SCRIPT_ESCAPED_DASH_DASH")

ScriptEscapedState ==
  \/ /\ In("SCRIPT_ESCAPED") /\ Current # "<" /\ KeepTemporary
     /\ EmitCurrentChar(IF Current = "-" THEN "SCRIPT_ESCAPED_DASH" ELSE "SCRIPT_ESCAPED")
  \/ LessThan("SCRIPT_ESCAPED", "SCRIPT_ESCAPED_LT")

ScriptEscapedDashState ==
  \/ /\ In("SCRIPT_ESCAPED_DASH") /\ Current \notin {"<", EOF} /\ KeepTemporary
     /\ EmitCurrentChar(IF Current = "-" THEN "SCRIPT_ESCAPED_DASH_DASH" ELSE "SCRIPT_ESCAPED")
  \/ LessThan("SCRIPT_ESCAPED_DASH", "SCRIPT_ESCAPED_LT")
  \/ In("SCRIPT_ESCAPED_DASH") /\ Current = EOF /\ NextChar("DATA") /\ KeepTemporary

\* Where "--" leads, escaped or double escaped: ">" ends both.
AfterDashDash(s, otherwise) == CASE Current = "-" -> s [] Current = ">" -> "SCRIPT" [] OTHER -> otherwise

ScriptEscapedDashDashState ==
  \/ /\ In("SCRIPT_ESCAPED_DASH_DASH") /\ Current \notin {"<", EOF} /\ KeepTemporary
     /\ EmitCurrentChar(AfterDashDash("SCRIPT_ESCAPED_DASH_DASH", "SCRIPT_ESCAPED"))
  \/ LessThan("SCRIPT_ESCAPED_DASH_DASH", "SCRIPT_ESCAPED_LT")
  \/ In("SCRIPT_ESCAPED_DASH_DASH") /\ Current = EOF /\ NextChar("DATA") /\ KeepTemporary

ScriptEscapedLtState ==
  /\ In("SCRIPT_ESCAPED_LT")
  /\ \/ Current = "/" /\ NextChar("SCRIPT_ESCAPED_END_TAG_OPEN") /\ AppendTemporary(<<"/">>)
     \/ /\ IsLetter
        /\ EmitTemporary("SCRIPT_DOUBLE_ESCAPED_START", Append(temporary, Current),
                         Append(scriptData, Lower(Current)))
     \/ Current # "/" /\ ~IsLetter /\ EmitTemporary("SCRIPT_ESCAPED", temporary, scriptData)

ScriptEscapedEndTagOpenState ==
  TextEndTagOpen("SCRIPT_ESCAPED_END_TAG_OPEN", "SCRIPT_ESCAPED_END_TAG_NAME", "SCRIPT_ESCAPED")
ScriptEscapedEndTagNameState == TextEndTagName("SCRIPT_ESCAPED_END_TAG_NAME", "SCRIPT_ESCAPED")

\* "<script" and "</script" within an escaped script: from one escape to the other.
DoubleEscape(s, ifScript, otherwise) ==
  /\ In(s)
  /\ \/ EndsTagName /\ EmitCurrentChar(IF scriptData = ScriptName THEN ifScript ELSE otherwise) /\ KeepTemporary
     \/ /\ IsLetter /\ EmitCurrentChar(s)
        /\ scriptData' = Append(scriptData, Lower(Current)) /\ UNCHANGED <<mark, temporary, emitAt>>
     \/ ~EndsTagName /\ ~IsLetter /\ Reconsume(otherwise) /\ KeepTemporary

ScriptDoubleEscapedStartState ==
  DoubleEscape("SCRIPT_DOUBLE_ESCAPED_START", "SCRIPT_DOUBLE_ESCAPED", "SCRIPT_ESCAPED")

\* In a double escaped script "<" is text at once.
DoubleEscaped(s, dash) ==
  /\ In(s) /\ KeepTemporary
  /\ \/ /\ Current # EOF
        /\ EmitCurrentChar(CASE Current = "-" -> dash
                             [] Current = "<" -> "SCRIPT_DOUBLE_ESCAPED_LT"
                             [] Current = ">" /\ s = "SCRIPT_DOUBLE_ESCAPED_DASH_DASH" -> "SCRIPT"
                             [] OTHER -> "SCRIPT_DOUBLE_ESCAPED")
     \/ Current = EOF /\ NextChar("DATA")

ScriptDoubleEscapedState == DoubleEscaped("SCRIPT_DOUBLE_ESCAPED", "SCRIPT_DOUBLE_ESCAPED_DASH")
ScriptDoubleEscapedDashState == DoubleEscaped("SCRIPT_DOUBLE_ESCAPED_DASH", "SCRIPT_DOUBLE_ESCAPED_DASH_DASH")
ScriptDoubleEscapedDashDashState ==
  DoubleEscaped("SCRIPT_DOUBLE_ESCAPED_DASH_DASH", "SCRIPT_DOUBLE_ESCAPED_DASH_DASH")

ScriptDoubleEscapedLtState ==
  /\ In("SCRIPT_DOUBLE_ESCAPED_LT")
  /\ \/ /\ Current = "/" /\ EmitCurrentChar("SCRIPT_DOUBLE_ESCAPED_END")
        /\ scriptData' = <<>> /\ UNCHANGED <<mark, temporary, emitAt>>
     \/ Current # "/" /\ Reconsume("SCRIPT_DOUBLE_ESCAPED") /\ KeepTemporary

ScriptDoubleEscapedEndState ==
  DoubleEscape("SCRIPT_DOUBLE_ESCAPED_END", "SCRIPT_ESCAPED", "SCRIPT_DOUBLE_ESCAPED")

-----------------------------------------------------------------------------
\* The handlers that leave the tag alone, and those that may start or end one.
PlainTextHandler ==
  \/ DataState \/ CharRefInDataState \/ RcdataState \/ CharRefInRcdataState
  \/ RawtextState \/ ScriptState \/ PlaintextState
  \/ RcdataLtState \/ RawtextLtState \/ ScriptLtState
  \/ ScriptEscapedStartState \/ ScriptEscapedStartDashState
  \/ ScriptEscapedState \/ ScriptEscapedDashState \/ ScriptEscapedDashDashState \/ ScriptEscapedLtState
  \/ ScriptDoubleEscapedStartState \/ ScriptDoubleEscapedState \/ ScriptDoubleEscapedDashState
  \/ ScriptDoubleEscapedDashDashState \/ ScriptDoubleEscapedLtState \/ ScriptDoubleEscapedEndState
OpeningHandler ==
  \/ TagOpenState \/ EndTagOpenState
  \/ RcdataEndTagOpenState \/ RcdataEndTagNameState
  \/ RawtextEndTagOpenState \/ RawtextEndTagNameState
  \/ ScriptEndTagOpenState \/ ScriptEndTagNameState
  \/ ScriptEscapedEndTagOpenState \/ ScriptEscapedEndTagNameState

TextHandler ==
  /\ (PlainTextHandler /\ KeepTag) \/ OpeningHandler
  /\ UNCHANGED <<doctype, inCdata>>
=============================================================================
