---------------------------- MODULE TokenizerTags ----------------------------
(***************************************************************************)
(* The handlers of the tokenizer for the inside of a tag: its name, its    *)
(* attributes and its end.  Where the input ends the tag is abandoned.     *)
(***************************************************************************)
EXTENDS TokenizerState

Abandon(s) == In(s) /\ Current = EOF /\ NextChar("DATA") /\ ChangeTag(Abandoned)

\* Mutant: the state is kept along with the end of the input.
AbandonForEver(s) == In(s) /\ Current = EOF /\ Reconsume(s) /\ ChangeTag(Abandoned)

AbandonHere(s) == In(s) /\ Current = EOF /\ Reconsume("DATA") /\ ChangeTag(Abandoned)

TagNameState ==
  \/ /\ In("TAG_NAME")
     /\ \/ Current = " " /\ NextChar("BEFORE_ATTR_NAME") /\ ChangeTag(WithTagName)
        \/ Current = "/" /\ NextChar("SELF_CLOSING_START_TAG") /\ ChangeTag(WithTagName)
        \/ Current = ">" /\ EmitTag("DATA", WithTagName)
        \/ /\ Current \notin {" ", "/", ">", EOF}
           /\ NextChar("TAG_NAME") /\ ChangeTag(WithChar(Lower(Current)))
  \/ Abandon("TAG_NAME")

\* White space is skipped, and "/" and ">" mean the same before and after a name.
AroundName(s) ==
  /\ In(s)
  /\ \/ Current = " " /\ NextChar(s) /\ KeepTag
     \/ Current = "/" /\ NextChar("SELF_CLOSING_START_TAG") /\ KeepTag
     \/ Current = ">" /\ EmitTag("DATA", tag)

BeginName(s, special) ==
  /\ In(s) /\ Current \notin {" ", "/", ">", EOF} \union special
  /\ NextChar("ATTR_NAME") /\ ChangeTag(WithChar(Lower(Current)))

BeforeAttrNameState ==
  AroundName("BEFORE_ATTR_NAME") \/ BeginName("BEFORE_ATTR_NAME", {}) \/ Abandon("BEFORE_ATTR_NAME")

AttrNameState ==
  \/ /\ In("ATTR_NAME")
     /\ \/ Current = " " /\ NextChar("AFTER_ATTR_NAME") /\ ChangeTag(WithAttributeName)
        \/ Current = "/" /\ NextChar("SELF_CLOSING_START_TAG") /\ ChangeTag(WithAttributeName)
        \/ Current = "=" /\ NextChar("BEFORE_ATTR_VALUE") /\ ChangeTag(WithAttributeName)
        \/ Current = ">" /\ EmitTag("DATA", WithAttributeName)
  \/ BeginName("ATTR_NAME", {"="})
  \/ Abandon("ATTR_NAME")

AfterAttrNameState ==
  \/ AroundName("AFTER_ATTR_NAME")
  \/ In("AFTER_ATTR_NAME") /\ Current = "=" /\ NextChar("BEFORE_ATTR_VALUE") /\ KeepTag
  \/ BeginName("AFTER_ATTR_NAME", {"="})
  \/ Abandon("AFTER_ATTR_NAME")

-----------------------------------------------------------------------------
BeforeAttrValueState ==
  \/ /\ In("BEFORE_ATTR_VALUE")
     /\ \/ Current = " " /\ NextChar("BEFORE_ATTR_VALUE") /\ KeepTag
        \/ Current = "dq" /\ NextChar("ATTR_VALUE_DOUBLE_QUOTED") /\ KeepTag
        \/ Current = "sq" /\ NextChar("ATTR_VALUE_SINGLE_QUOTED") /\ KeepTag
        \/ Current \in References /\ Reconsume("ATTR_VALUE_UNQUOTED") /\ KeepTag
        \/ Current = ">" /\ EmitTag("DATA", tag)
        \/ /\ Current \notin {" ", "dq", "sq", ">", EOF} \union References
           /\ NextChar("ATTR_VALUE_UNQUOTED") /\ ChangeTag(WithChar(Current))
  \/ AbandonHere("BEFORE_ATTR_VALUE")

ValueReference(s) ==
  /\ In(s) /\ Current \in References
  /\ Reconsume("CHAR_REF_IN_ATTR_VALUE")
  /\ attrValueState' = s /\ UNCHANGED <<tag, lastStartTag>>

ValueChar(s, special) ==
  /\ In(s) /\ Current \notin {EOF} \union References \union special
  /\ NextChar(s) /\ ChangeTag(WithChar(Current))

Quoted(s, quote) ==
  \/ In(s) /\ Current = quote /\ NextChar("AFTER_ATTR_VALUE_QUOTED") /\ KeepTag
  \/ ValueReference(s) \/ ValueChar(s, {quote}) \/ AbandonHere(s)

AttrValueDoubleQuotedState == Quoted("ATTR_VALUE_DOUBLE_QUOTED", "dq")
AttrValueSingleQuotedState == Quoted("ATTR_VALUE_SINGLE_QUOTED", "sq")

AttrValueUnquotedState ==
  \/ /\ In("ATTR_VALUE_UNQUOTED")
     /\ \/ Current = " " /\ NextChar("BEFORE_ATTR_NAME") /\ ChangeTag(WithAttributeValue)
        \/ Current = ">" /\ EmitTag("DATA", WithAttributeValue)
  \/ ValueReference("ATTR_VALUE_UNQUOTED")
  \/ ValueChar("ATTR_VALUE_UNQUOTED", {" ", ">"})
  \/ AbandonHere("ATTR_VALUE_UNQUOTED")

\* The value takes both characters of a reference, and the state it was in comes back.
CharRefInAttrValueState ==
  /\ In("CHAR_REF_IN_ATTR_VALUE")
  /\ NextChar(attrValueState)
  /\ ChangeTag([tag EXCEPT !.buffer = @ \o IF Current = "&2;" THEN <<"&2;", "second">> ELSE <<Current>>])
  /\ mark' = pos /\ UNCHANGED <<temporary, emitAt, scriptData>>

AfterAttrValueQuotedState ==
  /\ In("AFTER_ATTR_VALUE_QUOTED")
  /\ \/ Current = " " /\ NextChar("BEFORE_ATTR_NAME") /\ ChangeTag(WithAttributeValue)
     \/ Current = "/" /\ NextChar("SELF_CLOSING_START_TAG") /\ ChangeTag(WithAttributeValue)
     \/ Current = ">" /\ EmitTag("DATA", WithAttributeValue)
     \/ /\ Current = EOF /\ Reconsume("DATA")
        /\ ChangeTag([WithAttributeValue EXCEPT !.open = FALSE, !.attributes = <<>>])
     \/ Current \notin {" ", "/", ">", EOF} /\ Reconsume("BEFORE_ATTR_NAME") /\ ChangeTag(WithAttributeValue)

SelfClosingStartTagState ==
  \/ /\ In("SELF_CLOSING_START_TAG")
     /\ \/ Current = ">" /\ EmitTag("DATA", [tag EXCEPT !.selfClosing = TRUE])
        \/ Current \notin {">", EOF} /\ Reconsume("BEFORE_ATTR_NAME") /\ KeepTag
  \/ Abandon("SELF_CLOSING_START_TAG")

-----------------------------------------------------------------------------
TagHandler ==
  /\ \/ /\ \/ TagNameState \/ BeforeAttrNameState \/ AttrNameState \/ AfterAttrNameState
           \/ BeforeAttrValueState \/ AttrValueDoubleQuotedState \/ AttrValueSingleQuotedState
           \/ AttrValueUnquotedState \/ AfterAttrValueQuotedState \/ SelfClosingStartTagState
        /\ KeepTemporary
     \/ CharRefInAttrValueState
  /\ UNCHANGED <<doctype, inCdata>>
=============================================================================
