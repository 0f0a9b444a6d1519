--------------------------- MODULE TokenizerState ---------------------------
(***************************************************************************)
(* The state of the tokenizer of Gumbo (tokenizer.c) and the operations    *)
(* its handlers are made of: reading, the temporary buffer, tags, doctypes *)
(* and the emission of tokens.                                             *)
(*                                                                         *)
(* A unit of input is a character, a character reference ("&" alone, "&1;" *)
(* for one character that is not blank, "&2;" for two) or a run of letters *)
(* that every handler treats as one letter.  White space is " ", and "S"   *)
(* is the capital of "s".  The page is not known in advance: a shape says  *)
(* which units may come at each place, and a unit is chosen when the       *)
(* iterator first stands on it.  The page ends where EOF is chosen.        *)
(***************************************************************************)
EXTENDS Integers, Sequences

CONSTANTS
  Shapes,         \* sequences of sets of units
  Letters,        \* the units made of letters
  ScriptName,     \* kScriptTag
  TextStates,     \* [name -> state]: the elements whose content the parser has read as text
  ForeignNames    \* the elements that begin foreign content

EOF == "EOF"
None == "none"    \* kGumboNoChar

\* strlen() ended the input at the first NUL, so no unit is one.
ASSUME ShapesAssumption ==
  \A s \in Shapes : s \in Seq(SUBSET (STRING \ {EOF, None})) /\ s # <<>>

\* is_alpha: no unit with a meaning of its own is a letter, nor is the second character of a
\* reference, and a capital is one if the small letter is.
ASSUME LettersAssumption ==
  /\ Letters \subseteq STRING \ {EOF, " ", "<", "/", ">", "=", "dq", "sq", "&", "&1;", "&2;", "second"}
  /\ "s" \in Letters => "S" \in Letters

\* The states the parser switches to for the content of an element, whose name is made of letters.
ASSUME TextStatesAssumption ==
  \A name \in DOMAIN TextStates :
    /\ name \in Seq(Letters) /\ name # <<>>
    /\ TextStates[name] \in {"RCDATA", "RAWTEXT", "SCRIPT", "PLAINTEXT"}

VARIABLES
  shape, source,  \* the page, as far as it is read
  pos,            \* the current unit of the iterator
  mark,           \* utf8iterator_mark
  state,          \* _state
  foreign,        \* _is_current_node_foreign
  inCdata,        \* _is_in_cdata
  buffered,       \* _buffered_emit_char
  temporary,      \* _temporary_buffer
  emitAt,         \* _temporary_buffer_emit: the next unit to emit, 0 when it is NULL
  scriptData,     \* _script_data_buffer
  tag,            \* _tag_state
  lastStartTag,   \* _last_start_tag
  attrValueState, \* _attr_value_state
  doctype,        \* _doc_type_state
  tokenStart,     \* _token_start
  tokens,         \* every token emitted, with the stretch of source it stands for
  handled         \* how many of them the parser has handled

inputVars == <<shape, source, pos>>
modeVars == <<foreign, inCdata>>
temporaryVars == <<mark, temporary, emitAt, scriptData>>
tagVars == <<tag, lastStartTag, attrValueState>>
outputVars == <<tokenStart, tokens, handled>>
vars == <<inputVars, state, modeVars, buffered, temporaryVars, tagVars, doctype, outputVars>>

NoTag == [open |-> FALSE, name |-> <<>>, buffer |-> <<>>, attributes |-> <<>>,
          dropNext |-> FALSE, isStart |-> FALSE, selfClosing |-> FALSE]
NoDoctype == [strings |-> FALSE, name |-> <<>>, publicId |-> <<>>, systemId |-> <<>>,
              hasPublic |-> FALSE, hasSystem |-> FALSE, quirks |-> FALSE]

Following == IF Len(source) < Len(shape) THEN shape[Len(source) + 1] \union {EOF} ELSE {EOF}

Init ==
  /\ shape \in Shapes
  /\ \E u \in shape[1] \union {EOF} : source = <<u>>
  /\ pos = 1 /\ mark = 1 /\ tokenStart = 1
  /\ state = "DATA" /\ foreign = FALSE /\ inCdata = FALSE
  /\ buffered = None /\ temporary = <<>> /\ emitAt = 0 /\ scriptData = <<>>
  /\ tag = NoTag /\ lastStartTag = <<>> /\ attrValueState = None
  /\ doctype = NoDoctype
  /\ tokens = <<>> /\ handled = 0

-----------------------------------------------------------------------------
Current == source[pos]
IsLetter == Current \in Letters
Lower(u) == IF u = "S" THEN "s" ELSE u
References == {"&", "&1;", "&2;"}

\* gumbo_lex is called when the parser is through with the last token, and goes to the handler of
\* its state when nothing is left to emit.
Last == tokens[Len(tokens)]
Lexing == handled = Len(tokens) /\ (tokens # <<>> => Last.type # "eof")
In(s) == Lexing /\ buffered = None /\ emitAt = 0 /\ state = s

\* utf8iterator_next: the end of the input is never left.
AdvanceTo(p) ==
  /\ pos' = p
  /\ source' \in IF p <= Len(source) THEN {source} ELSE {Append(source, u) : u \in Following}
Advance == AdvanceTo(IF Current = EOF THEN pos ELSE pos + 1)

\* How a handler ends: with the next unit, with the same unit in another state, or with a token.
NextChar(next) ==
  /\ state' = next /\ Advance
  /\ UNCHANGED <<shape, buffered, foreign, outputVars>>

Reconsume(next) ==
  /\ state' = next
  /\ UNCHANGED <<inputVars, buffered, foreign, outputVars>>

\* finish_token: the token stands for the source up to where the iterator is then.
Finish(type, value) ==
  /\ tokens' = Append(tokens, [type |-> type, value |-> value, from |-> tokenStart, to |-> pos', then |-> None])
  /\ tokenStart' = pos'
  /\ UNCHANGED <<shape, foreign, handled>>

Emit(next, type, value) ==
  /\ state' = next /\ Advance /\ Finish(type, value)
  /\ UNCHANGED buffered

CharType(u) ==
  CASE u = EOF -> "eof" [] inCdata /\ u # EOF -> "cdata" [] u = " " /\ ~inCdata -> "whitespace" [] OTHER -> "character"
EmitCurrentChar(next) == Emit(next, CharType(Current), Current)

\* emit_char_ref, for what is not blank: the second character of a reference waits for the next call.
EmitCharRef(next) ==
  /\ state' = next /\ Advance /\ Finish("character", Current)
  /\ buffered' = IF Current = "&2;" THEN "second" ELSE None
  /\ mark' = pos /\ UNCHANGED <<temporary, emitAt, scriptData>>

-----------------------------------------------------------------------------
\* The temporary buffer.
KeepTemporary == UNCHANGED temporaryVars

\* clear_temporary_buffer, and what is then put into it.
ClearTemporary(data) ==
  /\ mark' = pos /\ temporary' = data /\ scriptData' = <<>>
  /\ UNCHANGED emitAt

\* Mutant: the temporary buffer takes the lower case the tag name takes.
AppendLowered(units) ==
  /\ temporary' = temporary \o [i \in DOMAIN units |-> Lower(units[i])]
  /\ UNCHANGED <<mark, emitAt, scriptData>>

AppendTemporary(units) ==
  /\ temporary' = temporary \o units
  /\ UNCHANGED <<mark, emitAt, scriptData>>

\* Mutant: the cursor is left behind the buffer.
EmitNextPastTheEnd(data, at) ==
  /\ Finish("character", data[at])
  /\ emitAt' = at + 1
  /\ UNCHANGED buffered

\* maybe_emit_from_temporary_buffer; the cursor is NULL again once nothing is left.
EmitNext(data, at) ==
  /\ Finish("character", data[at])
  /\ emitAt' = IF at = Len(data) THEN 0 ELSE at + 1
  /\ UNCHANGED buffered

\* emit_temporary_buffer: back to the mark, and the first unit of the buffer goes out.
EmitTemporary(next, data, script) ==
  /\ state' = next
  /\ pos' = mark + 1 /\ source' = source
  /\ EmitNext(data, 1)
  /\ temporary' = data /\ scriptData' = script /\ UNCHANGED mark

\* The two ways gumbo_lex answers before it comes to a handler.
EmitBuffered ==
  /\ Lexing /\ buffered # None
  /\ UNCHANGED <<source, pos, state>> /\ Finish("character", buffered)
  /\ buffered' = None
  /\ UNCHANGED <<temporaryVars, tagVars, doctype, inCdata>>

FlushTemporary ==
  /\ Lexing /\ buffered = None /\ emitAt # 0
  /\ Advance /\ EmitNext(temporary, emitAt)
  /\ UNCHANGED <<state, mark, temporary, scriptData, tagVars, doctype, inCdata>>

-----------------------------------------------------------------------------
\* Tags.
KeepTag == UNCHANGED tagVars
ChangeTag(t) == tag' = t /\ UNCHANGED <<lastStartTag, attrValueState>>

NewTag(isStart) ==
  [NoTag EXCEPT !.open = TRUE, !.name = tag.name, !.buffer = <<Lower(Current)>>, !.isStart = isStart]
WithChar(u) == [tag EXCEPT !.buffer = Append(@, u)]
WithTagName == [tag EXCEPT !.name = tag.buffer, !.buffer = <<>>]
\* Mutant: the attributes of an abandoned tag are not given back.
AbandonedUnfreed == [tag EXCEPT !.open = FALSE, !.buffer = <<>>]
Abandoned == [tag EXCEPT !.open = FALSE, !.attributes = <<>>, !.buffer = <<>>]

\* Mutant: a name without a value leaves the flag to the next attribute.
WithAttributeNameKeepingDrop ==
  IF \E a \in 1..Len(tag.attributes) : tag.attributes[a].name = tag.buffer
    THEN [tag EXCEPT !.dropNext = TRUE, !.buffer = <<>>]
    ELSE [tag EXCEPT !.attributes = Append(@, [name |-> tag.buffer, value |-> <<>>]), !.buffer = <<>>]

\* finish_attribute_name: the value of a name that was already given is dropped.
WithAttributeName ==
  IF \E a \in 1..Len(tag.attributes) : tag.attributes[a].name = tag.buffer
    THEN [tag EXCEPT !.dropNext = TRUE, !.buffer = <<>>]
    ELSE [tag EXCEPT !.dropNext = FALSE, !.buffer = <<>>,
                     !.attributes = Append(@, [name |-> tag.buffer, value |-> <<>>])]

WithAttributeValue ==
  IF tag.dropNext
    THEN [tag EXCEPT !.dropNext = FALSE, !.buffer = <<>>]
    ELSE [tag EXCEPT !.attributes[Len(tag.attributes)].value = tag.buffer, !.buffer = <<>>]

\* Mutant: any end tag ends the text.
AnyEndTag == lastStartTag # <<>>
IsAppropriateEndTag == lastStartTag # <<>> /\ lastStartTag = tag.buffer

\* emit_current_tag: a start tag takes the attributes with it, those of an end tag are freed.
EmitTag(next, t) ==
  /\ Emit(next, IF t.isStart THEN "start" ELSE "end",
          [name |-> t.name, selfClosing |-> t.selfClosing,
           attributes |-> IF t.isStart THEN t.attributes ELSE <<>>])
  /\ lastStartTag' = IF t.isStart THEN t.name ELSE lastStartTag
  /\ tag' = [t EXCEPT !.open = FALSE, !.attributes = <<>>, !.buffer = <<>>]
  /\ UNCHANGED attrValueState

-----------------------------------------------------------------------------
\* Comments and doctypes.
EmitComment(next) ==
  /\ Emit(next, "comment", temporary)
  /\ ClearTemporary(<<>>)

\* Mutant: the doctype is reset before it is copied.
EmitDoctypeAfterReset(next, d) ==
  /\ Emit(next, "doctype", NoDoctype)
  /\ doctype' = NoDoctype

\* The strings go to the token with the rest.
EmitDoctype(next, d) ==
  /\ Emit(next, "doctype", d)
  /\ doctype' = NoDoctype

-----------------------------------------------------------------------------
\* The parser handles a token: a start tag may have the content of its element read as text, and
\* the current node may be foreign from then on (gumbo_tokenizer_set_state,
\* gumbo_tokenizer_set_is_current_node_foreign).
ForeignSeen == \E i \in 1..Len(tokens) : tokens[i].type = "start" /\ tokens[i].value.name \in ForeignNames

HandleToken ==
  /\ handled < Len(tokens) /\ Last.type # "eof"
  /\ handled' = Len(tokens)
  /\ \/ /\ Last.type = "start" /\ Last.value.name \in DOMAIN TextStates
        /\ state' = TextStates[Last.value.name]
        /\ tokens' = [tokens EXCEPT ![Len(tokens)].then = state']
        /\ foreign' = FALSE
     \/ /\ foreign' \in IF Last.type \in {"start", "end"} /\ ForeignSeen THEN BOOLEAN ELSE {foreign}
        /\ UNCHANGED <<state, tokens>>
  /\ UNCHANGED <<inputVars, inCdata, buffered, temporaryVars, tagVars, doctype, tokenStart>>
=============================================================================
