--------------------------- MODULE TokenizerProofs ---------------------------
(***************************************************************************)
(* For every page and every element whose content is read as text: the     *)
(* buffers of the tokenizer hold what its assertions say, whatever it has  *)
(* begun and given up.                                                     *)
(*                                                                         *)
(* The handlers are many and their steps are few in kind: each handler is  *)
(* shown to take steps of some kinds, and each kind to keep the invariant. *)
(***************************************************************************)
EXTENDS Tokenizer, SequenceTheorems, TLAPS

-----------------------------------------------------------------------------
(***************************************************************************)
(* The inductive invariant.                                                *)
(***************************************************************************)

Attribute == [name : Seq(Unit), value : Seq(Unit)]
TagType ==
  [open : BOOLEAN, name : Seq(Unit), buffer : Seq(Unit), attributes : Seq(Attribute),
   dropNext : BOOLEAN, isStart : BOOLEAN, selfClosing : BOOLEAN]
DoctypeType ==
  [strings : BOOLEAN, name : Seq(Unit), publicId : Seq(Unit), systemId : Seq(Unit),
   hasPublic : BOOLEAN, hasSystem : BOOLEAN, quirks : BOOLEAN]
TagValue == [name : Seq(Unit), selfClosing : BOOLEAN, attributes : Seq(Attribute)]
TokenValue == Unit \union Seq(Unit) \union TagValue \union DoctypeType
TokenTypes == {"character", "whitespace", "cdata", "eof", "start", "end", "comment", "doctype"}
Token ==
  [type : TokenTypes, value : TokenValue, from : Nat, to : Nat,
   then : {None, "RCDATA", "RAWTEXT", "SCRIPT", "PLAINTEXT"}]

ValueTexts == {"ATTR_VALUE_DOUBLE_QUOTED", "ATTR_VALUE_SINGLE_QUOTED", "ATTR_VALUE_UNQUOTED"}

\* What is read: the iterator, the mark and the start of the token are on units that are known.
InputOK ==
  /\ shape \in Shapes /\ source \in Seq(Unit)
  /\ pos \in 1 .. Len(source) /\ mark \in 1 .. Len(source) /\ tokenStart \in 1 .. Len(source)

\* What is emitted: the parser is at most one token behind.
OutputOK ==
  /\ tokens \in Seq(Token) /\ handled \in Nat
  /\ handled = Len(tokens) \/ handled + 1 = Len(tokens)

BuffersOK ==
  /\ state \in States /\ foreign \in BOOLEAN /\ inCdata \in BOOLEAN
  /\ temporary \in Seq(Unit) /\ scriptData \in Seq(Unit) /\ emitAt \in 0 .. Len(temporary)
  /\ buffered \in {None, "second"}
  /\ tag \in TagType /\ lastStartTag \in Seq(Unit) /\ doctype \in DoctypeType
  /\ attrValueState \in ValueTexts \union {None}
  /\ state = "CHAR_REF_IN_ATTR_VALUE" => attrValueState \in ValueTexts

Text == DataStates \union ScriptStates
ReferenceStates == {"CHAR_REF_IN_DATA", "CHAR_REF_IN_RCDATA"}
Openers == LtStates \union EndTagOpenStates \union EndTagNameStates

\* What the tokenizer goes back over is no end of the page, and what is left to emit is text it has read.
PendingText ==
  /\ emitAt = 0 /\ state \in Openers => \A i \in 1 .. Len(temporary) : temporary[i] # EOF
  /\ emitAt # 0 =>
       /\ state \in Text \ ReferenceStates /\ mark + Len(temporary) - 1 <= Len(source)
       /\ \A i \in emitAt .. Len(temporary) : temporary[i] # EOF
  /\ buffered # None => emitAt = 0 /\ state \in {"DATA", "RCDATA"}

\* When the parser sees a token the next one has begun, and after a start tag nothing is pending.
JustEmitted ==
  handled < Len(tokens) =>
    /\ tokenStart = pos
    /\ Last.type = "start" => state = "DATA" /\ emitAt = 0 /\ buffered = None

DoctypeIsFresh == ~doctype.strings => doctype = NoDoctype

\* The rest of a doctype is skipped after one was emitted.
DoctypeGone ==
  state = "BOGUS_DOCTYPE" /\ ~doctype.strings =>
    \E j \in 1 .. Len(tokens) : tokens[j].type = "doctype" /\ tokens[j].value.strings

NamesAreDistinct ==
  /\ Distinct(tag.attributes)
  /\ \A i \in 1 .. Len(tokens) : tokens[i].type = "start" => Distinct(tokens[i].value.attributes)

IInv ==
  /\ InputOK /\ OutputOK /\ BuffersOK
  /\ PendingText /\ TemporaryBufferIsTheInput
  /\ OwnedWhileOpen /\ NamesAreDistinct
  /\ JustEmitted
  /\ DoctypeIsFresh /\ DoctypeGone /\ FirstDoctypeHasStrings

-----------------------------------------------------------------------------
(***************************************************************************)
(* The kinds of steps.  In the text of an element:                         *)
(***************************************************************************)
KeepDoctypeAndCdata == UNCHANGED <<doctype, inCdata>>
KeepsBuffer == UNCHANGED <<mark, temporary, emitAt>> /\ scriptData' \in Seq(Unit)

EmitsText ==
  /\ In(state) /\ state \in Text \ ReferenceStates /\ state' \in Text \ ReferenceStates
  /\ Current = "<" => state \in ScriptStates \union {"PLAINTEXT"}
  /\ EmitCurrentChar(state') /\ KeepsBuffer /\ KeepTag /\ KeepDoctypeAndCdata

OpensTag ==
  /\ In(state) /\ state \in Text \ ReferenceStates /\ state' \in LtStates
  /\ Current = "<" /\ NextChar(state') /\ ClearTemporary(<<"<">>)
  /\ KeepTag /\ KeepDoctypeAndCdata

MeetsReference ==
  /\ In(state)
  /\ <<state, state'>> \in {<<"DATA", "CHAR_REF_IN_DATA">>, <<"RCDATA", "CHAR_REF_IN_RCDATA">>}
  /\ Current \in References /\ Reconsume(state') /\ KeepsBuffer /\ KeepTag /\ KeepDoctypeAndCdata

EmitsReference ==
  /\ In(state)
  /\ <<state, state'>> \in {<<"CHAR_REF_IN_DATA", "DATA">>, <<"CHAR_REF_IN_RCDATA", "RCDATA">>}
  /\ EmitCharRef(state') /\ KeepTag /\ KeepDoctypeAndCdata

SwitchesScript ==
  /\ In(state) /\ state \in ScriptStates /\ state' \in ScriptStates \union {"SCRIPT"}
  /\ Reconsume(state') /\ KeepsBuffer /\ KeepTag /\ KeepDoctypeAndCdata

ScriptEnds ==
  /\ In(state) /\ state \in ScriptStates /\ state' = "DATA"
  /\ Current = EOF /\ NextChar("DATA") /\ KeepsBuffer /\ KeepTag /\ KeepDoctypeAndCdata

(***************************************************************************)
(* Where a "<" was read:                                                   *)
(***************************************************************************)
ReadsSlash ==
  /\ In(state) /\ state \in LtStates /\ state' \in EndTagOpenStates
  /\ Current = "/" /\ NextChar(state') /\ AppendTemporary(<<"/">>)
  /\ KeepTag /\ KeepDoctypeAndCdata

\* Why what was read is no end tag.
IsNoEndTag ==
  /\ state \in LtStates => Current # "/"
  /\ state \in EndTagOpenStates => ~IsLetter
  /\ state \in EndTagNameStates => ~IsLetter /\ ~(IsAppropriateEndTag /\ EndsTagName)

\* What was read goes out as text, with the unit after a "<" in a script.
GivesBack ==
  /\ In(state) /\ state \in Openers /\ state' \in Text \ ReferenceStates /\ IsNoEndTag
  /\ \E data, script :
       /\ \/ data = temporary
          \/ state \in LtStates /\ Current \notin {EOF, "<"} /\ data = temporary \o <<Current>>
       /\ script \in Seq(Unit)
       /\ EmitTemporary(state', data, script)
  /\ IF state \in EndTagNameStates THEN ChangeTag(Abandoned) ELSE KeepTag
  /\ KeepDoctypeAndCdata

BeginsMarkup ==
  /\ In("TAG_OPEN") /\ Current = "!" /\ NextChar("MARKUP_DECLARATION") /\ ClearTemporary(<<>>)
  /\ KeepTag /\ KeepDoctypeAndCdata

BeginsBogus ==
  /\ \/ In("TAG_OPEN") /\ Current = "?"
     \/ In("END_TAG_OPEN") /\ Current \notin {">", EOF}
  /\ NextChar("BOGUS_COMMENT") /\ ClearTemporary(<<Current>>)
  /\ KeepTag /\ KeepDoctypeAndCdata

SkipsEmptyEnd ==
  /\ In("END_TAG_OPEN") /\ Current = ">" /\ NextChar("DATA") /\ KeepsBuffer
  /\ KeepTag /\ KeepDoctypeAndCdata

BeginsTag ==
  /\ state \in {"TAG_OPEN", "END_TAG_OPEN"} /\ In(state) /\ IsLetter
  /\ NextChar("TAG_NAME") /\ (\E b \in BOOLEAN : ChangeTag(NewTag(b))) /\ KeepsBuffer
  /\ KeepDoctypeAndCdata

BeginsEndTag ==
  /\ In(state) /\ state \in EndTagOpenStates /\ state' \in EndTagNameStates /\ IsLetter
  /\ NextChar(state') /\ ChangeTag(NewTag(FALSE)) /\ AppendTemporary(<<Current>>)
  /\ KeepDoctypeAndCdata

ReadsEndTagName ==
  /\ In(state) /\ state \in EndTagNameStates /\ state' = state /\ IsLetter
  /\ NextChar(state') /\ ChangeTag(WithChar(Lower(Current))) /\ AppendTemporary(<<Current>>)
  /\ KeepDoctypeAndCdata

EntersEndTag ==
  /\ In(state) /\ state \in EndTagNameStates /\ IsAppropriateEndTag
  /\ state' \in {"BEFORE_ATTR_NAME", "SELF_CLOSING_START_TAG"} /\ Current # EOF
  /\ NextChar(state') /\ ChangeTag(WithTagName) /\ KeepsBuffer /\ KeepDoctypeAndCdata

(***************************************************************************)
(* Inside a tag:                                                           *)
(***************************************************************************)

\* What a step does to the tag it is in, from one state of a tag to another.
TagMoves ==
  \/ /\ KeepTag
     /\ \/ state' = state /\ state \notin ValueTexts \union {"CHAR_REF_IN_ATTR_VALUE"}
        \/ state \in {"BEFORE_ATTR_NAME", "AFTER_ATTR_NAME"} /\ state' = "SELF_CLOSING_START_TAG"
        \/ state = "AFTER_ATTR_NAME" /\ state' = "BEFORE_ATTR_VALUE"
        \/ state = "BEFORE_ATTR_VALUE" /\ state' \in ValueTexts
        \/ state \in ValueTexts /\ state' = "AFTER_ATTR_VALUE_QUOTED"
        \/ state = "SELF_CLOSING_START_TAG" /\ state' = "BEFORE_ATTR_NAME"
  \/ state = "TAG_NAME" /\ state' = "TAG_NAME" /\ ChangeTag(WithChar(Lower(Current)))
  \/ /\ state = "TAG_NAME" /\ state' \in {"BEFORE_ATTR_NAME", "SELF_CLOSING_START_TAG"}
     /\ ChangeTag(WithTagName)
  \/ /\ state \in {"BEFORE_ATTR_NAME", "ATTR_NAME", "AFTER_ATTR_NAME"} /\ state' = "ATTR_NAME"
     /\ ChangeTag(WithChar(Lower(Current)))
  \/ /\ state = "ATTR_NAME"
     /\ state' \in {"AFTER_ATTR_NAME", "SELF_CLOSING_START_TAG", "BEFORE_ATTR_VALUE"}
     /\ ChangeTag(WithAttributeName)
  \/ /\ state \in {"BEFORE_ATTR_VALUE"} \union ValueTexts /\ state' \in ValueTexts
     /\ ChangeTag(WithChar(Current))
  \/ /\ state \in {"ATTR_VALUE_UNQUOTED", "AFTER_ATTR_VALUE_QUOTED"}
     /\ state' \in {"BEFORE_ATTR_NAME", "SELF_CLOSING_START_TAG"}
     /\ ChangeTag(WithAttributeValue)
  \/ /\ state \in ValueTexts /\ state' = "CHAR_REF_IN_ATTR_VALUE"
     /\ attrValueState' = state /\ UNCHANGED <<tag, lastStartTag>>
  \/ /\ state = "CHAR_REF_IN_ATTR_VALUE" /\ state' = attrValueState
     /\ \E units \in Seq(Unit) : ChangeTag([tag EXCEPT !.buffer = @ \o units])

ReadsTag ==
  /\ In(state) /\ state \in TagStates
  /\ NextChar(state') \/ Reconsume(state')
  /\ TagMoves
  /\ mark' \in {mark, pos} /\ UNCHANGED <<temporary, emitAt, scriptData>> /\ KeepDoctypeAndCdata

\* The tag as it is emitted: with the name or the value that ends here.
TagToEmit(t) ==
  \/ state \in EndTagNameStates \union {"TAG_NAME"} /\ t = WithTagName
  \/ state \in {"BEFORE_ATTR_NAME", "AFTER_ATTR_NAME", "BEFORE_ATTR_VALUE"} /\ t = tag
  \/ state = "ATTR_NAME" /\ t = WithAttributeName
  \/ state \in {"ATTR_VALUE_UNQUOTED", "AFTER_ATTR_VALUE_QUOTED"} /\ t = WithAttributeValue
  \/ state = "SELF_CLOSING_START_TAG" /\ t = [tag EXCEPT !.selfClosing = TRUE]

EmitsTag ==
  /\ In(state) /\ Current = ">" /\ (state \in EndTagNameStates => IsAppropriateEndTag)
  /\ \E t : TagToEmit(t) /\ EmitTag("DATA", t)
  /\ KeepsBuffer /\ KeepDoctypeAndCdata

AbandonsTag ==
  /\ In(state) /\ state \in TagStates /\ Current = EOF
  /\ NextChar("DATA") \/ Reconsume("DATA")
  /\ \/ ChangeTag(Abandoned)
     \/ /\ state = "AFTER_ATTR_VALUE_QUOTED"
        /\ ChangeTag([WithAttributeValue EXCEPT !.open = FALSE, !.attributes = <<>>])
  /\ KeepsBuffer /\ KeepDoctypeAndCdata

(***************************************************************************)
(* In a comment, a CDATA section or a doctype:                             *)
(***************************************************************************)
BeginsComment ==
  /\ In("MARKUP_DECLARATION") /\ TwoDashes /\ AdvanceTo(pos + 2) /\ state' = "COMMENT_START"
  /\ UNCHANGED <<shape, buffered, foreign, outputVars>> /\ KeepsBuffer /\ KeepTag
  /\ KeepDoctypeAndCdata

BeginsBogusComment ==
  /\ In("MARKUP_DECLARATION") /\ ~TwoDashes /\ (Current = "-" => pos < Len(source))
  /\ Reconsume("BOGUS_COMMENT") /\ ClearTemporary(<<>>) /\ KeepTag /\ KeepDoctypeAndCdata

BeginsDoctype ==
  /\ In("MARKUP_DECLARATION") /\ Current = "DOCTYPE" /\ NextChar("DOCTYPE") /\ KeepsBuffer
  /\ doctype' = [doctype EXCEPT !.strings = TRUE] /\ UNCHANGED inCdata /\ KeepTag

BeginsCdata ==
  /\ In("MARKUP_DECLARATION") /\ foreign /\ Current = "[CDATA[" /\ NextChar("CDATA") /\ KeepsBuffer
  /\ inCdata' = TRUE /\ UNCHANGED doctype /\ KeepTag

EmitsCdata ==
  /\ In("CDATA") /\ Current \notin {EOF, "]]>"} /\ EmitCurrentChar("CDATA")
  /\ KeepsBuffer /\ KeepTag /\ KeepDoctypeAndCdata

LeavesCdata ==
  /\ In("CDATA") /\ Current \in {EOF, "]]>"}
  /\ state' = "DATA" /\ Advance /\ tokenStart' = pos' /\ inCdata' = FALSE
  /\ UNCHANGED <<shape, buffered, foreign, tokens, handled, doctype>> /\ KeepsBuffer /\ KeepTag

\* The part of a comment that may be the beginning of its end.
HeldIn(s) ==
  CASE s \in {"COMMENT_START_DASH", "COMMENT_END_DASH"} -> <<"-">>
    [] s = "COMMENT_END" -> <<"-", "-">>
    [] s = "COMMENT_END_BANG" -> <<"-", "-", "!">>
    [] OTHER -> <<>>

\* A unit is read: what is held and the unit make up what goes to the buffer and what is held then.
ReadsComment ==
  /\ In(state) /\ state \in CommentStates /\ state' \in CommentStates
  /\ state = "BOGUS_COMMENT" <=> state' = "BOGUS_COMMENT"
  /\ state' # "COMMENT_START"
  /\ Current # EOF /\ NextChar(state')
  /\ \E units \in Seq(Unit) :
       /\ AppendTemporary(units)
       /\ HeldIn(state) \o <<Current>> = units \o HeldIn(state')
       /\ state' = "COMMENT_START_DASH" => units = <<>> /\ state = "COMMENT_START"
  /\ KeepTag /\ KeepDoctypeAndCdata

EmitsComment ==
  /\ In(state) /\ state \in CommentStates /\ Current \in {">", EOF}
  /\ state \in {"COMMENT", "COMMENT_END_DASH"} => Current = EOF
  /\ EmitComment("DATA") /\ KeepTag /\ KeepDoctypeAndCdata

ReadsDoctype ==
  /\ In(state) /\ state \in DoctypeStates \union {"BOGUS_DOCTYPE"}
  /\ state' \in DoctypeStates \union {"BOGUS_DOCTYPE"} /\ (state = "BOGUS_DOCTYPE" => state' = state)
  /\ NextChar(state') \/ Reconsume(state')
  /\ \/ UNCHANGED doctype
     \/ doctype.strings /\ doctype' \in DoctypeType /\ doctype'.strings
  /\ mark' \in {mark, pos} /\ temporary' \in Seq(Unit) /\ scriptData' \in Seq(Unit)
  /\ UNCHANGED <<emitAt, inCdata>> /\ KeepTag

EmitsDoctype ==
  /\ In(state) /\ state \in DoctypeStates \union {"BOGUS_DOCTYPE"}
  /\ state' \in {"DATA", "BOGUS_DOCTYPE"}
  /\ \E d \in DoctypeType :
       /\ d = doctype \/ (doctype.strings /\ d.strings)
       /\ state' = "BOGUS_DOCTYPE" => d.strings
       /\ EmitDoctype(state', d)
  /\ mark' \in {mark, pos} /\ temporary' \in Seq(Unit) /\ scriptData' \in Seq(Unit)
  /\ UNCHANGED <<emitAt, inCdata>> /\ KeepTag

-----------------------------------------------------------------------------
(***************************************************************************)
(* Lemmas on sequences and on what the operations of the tokenizer do.     *)
(***************************************************************************)

\* What Append makes of a sequence.
LEMMA Appended ==
  ASSUME NEW S, NEW s \in Seq(S), NEW e \in S
  PROVE  /\ Append(s, e) \in Seq(S) /\ Append(s, e) # <<>>
         /\ Len(Append(s, e)) = Len(s) + 1
         /\ \A i \in 1 .. Len(s) : Append(s, e)[i] = s[i]
         /\ Append(s, e)[Len(s) + 1] = e
PROOF BY SMT

\* What the concatenation makes of two sequences.
LEMMA Joined ==
  ASSUME NEW S, NEW s \in Seq(S), NEW r \in Seq(S)
  PROVE  /\ s \o r \in Seq(S)
         /\ Len(s \o r) = Len(s) + Len(r)
         /\ \A i \in 1 .. Len(s) : (s \o r)[i] = s[i]
         /\ \A i \in 1 .. Len(r) : (s \o r)[Len(s) + i] = r[i]
PROOF BY SMT

\* Sequences of the same units are equal.
LEMMA SameUnits ==
  ASSUME NEW S, NEW s \in Seq(S), NEW r \in Seq(S), Len(s) = Len(r), \A i \in 1 .. Len(s) : s[i] = r[i]
  PROVE  s = r
PROOF BY SMT

\* Two and three units that are written one after the other.
LEMMA WrittenOut ==
  ASSUME NEW S, NEW a \in S, NEW b \in S, NEW c \in S
  PROVE  /\ <<a>> \o <<b>> = <<a, b>>
         /\ <<a, b>> \o <<c>> = <<a, b, c>>
         /\ <<a>> \o <<b, c>> = <<a, b, c>>
PROOF
<1> DEFINE two == <<a>> \o <<b>>
           left == <<a, b>> \o <<c>>
           right == <<a>> \o <<b, c>>
<1>1. /\ <<a>> \in Seq(S) /\ <<b>> \in Seq(S) /\ <<c>> \in Seq(S)
      /\ <<a, b>> \in Seq(S) /\ <<b, c>> \in Seq(S) /\ <<a, b, c>> \in Seq(S)
  OBVIOUS
<1>2. /\ Len(<<a>>) = 1 /\ <<a>>[1] = a /\ Len(<<b>>) = 1 /\ <<b>>[1] = b /\ Len(<<c>>) = 1 /\ <<c>>[1] = c
      /\ Len(<<a, b>>) = 2 /\ <<a, b>>[1] = a /\ <<a, b>>[2] = b
      /\ Len(<<b, c>>) = 2 /\ <<b, c>>[1] = b /\ <<b, c>>[2] = c
      /\ Len(<<a, b, c>>) = 3 /\ <<a, b, c>>[1] = a /\ <<a, b, c>>[2] = b /\ <<a, b, c>>[3] = c
  OBVIOUS
<1>3. two \in Seq(S) /\ Len(two) = 2 /\ two[1] = a /\ two[2] = b
  BY <1>1, <1>2, Joined
<1>4. left \in Seq(S) /\ Len(left) = 3 /\ left[1] = a /\ left[2] = b /\ left[3] = c
  BY <1>1, <1>2, Joined
<1>5. right \in Seq(S) /\ Len(right) = 3 /\ right[1] = a /\ right[2] = b /\ right[3] = c
  BY <1>1, <1>2, Joined
<1> HIDE DEF two, left, right
<1>6. two = <<a, b>>
  BY <1>1, <1>2, <1>3, SameUnits
<1>7. left = <<a, b, c>>
  BY <1>1, <1>2, <1>4, SameUnits
<1>8. right = <<a, b, c>>
  BY <1>1, <1>2, <1>5, SameUnits
<1> QED BY <1>6, <1>7, <1>8 DEF two, left, right

\* The units that may come are units.
LEMMA FollowingAreUnits ==
  ASSUME shape \in Shapes, source \in Seq(Unit)
  PROVE  Following \subseteq Unit
PROOF
<1>1. shape \in Seq(SUBSET (STRING \ {EOF, None}))
  BY ShapesAssumption
<1>2. ASSUME Len(source) < Len(shape)
      PROVE  shape[Len(source) + 1] \subseteq PageUnits
  <2>1. Len(source) + 1 \in DOMAIN shape
    BY <1>1, <1>2
  <2>2. shape[Len(source) + 1] \subseteq UNION {shape[i] : i \in DOMAIN shape}
    BY <2>1
  <2>3. UNION {shape[i] : i \in DOMAIN shape} \subseteq UNION {UNION {s[i] : i \in DOMAIN s} : s \in Shapes}
    BY Zenon
  <2> QED BY <2>2, <2>3 DEF PageUnits
<1> QED BY <1>2 DEF Following, Unit

\* What is known of the page stays known, and the iterator is on a unit of it.
Reading ==
  /\ source' \in Seq(Unit) /\ Len(source) <= Len(source')
  /\ \A i \in 1 .. Len(source) : source'[i] = source[i]

LEMMA AdvanceToReads ==
  ASSUME InputOK, NEW p \in Nat, 1 <= p, p <= Len(source) + 1, AdvanceTo(p)
  PROVE  Reading /\ pos' = p /\ p <= Len(source')
PROOF
<1> USE DEF InputOK
<1>1. Following \subseteq Unit
  BY FollowingAreUnits
<1>2. CASE p <= Len(source)
  <2> QED BY <1>2 DEF AdvanceTo, Reading
<1>3. CASE ~(p <= Len(source))
  <2>1. PICK u \in Following : source' = Append(source, u)
    BY <1>3 DEF AdvanceTo
  <2>2. u \in Unit
    BY <2>1, <1>1
  <2> QED BY <1>3, <2>1, <2>2, Appended DEF AdvanceTo, Reading
<1> QED BY <1>2, <1>3

\* The end of the page is never left, and every other unit is.
LEMMA AdvanceReads ==
  ASSUME InputOK, Advance
  PROVE  /\ Reading /\ pos' \in 1 .. Len(source')
         /\ pos' = IF Current = EOF THEN pos ELSE pos + 1
PROOF
<1> DEFINE p == IF Current = EOF THEN pos ELSE pos + 1
<1>1. p \in Nat /\ 1 <= p /\ p <= Len(source) + 1
  BY DEF InputOK
<1>2. AdvanceTo(p)
  BY DEF Advance
<1>3. Reading /\ pos' = p /\ p <= Len(source')
  BY <1>1, <1>2, AdvanceToReads
<1> QED BY <1>1, <1>3

\* What the iterator is on is a unit, and so is what the name of a tag takes.
LEMMA CurrentIsAUnit ==
  ASSUME InputOK
  PROVE  Current \in Unit /\ Lower(Current) \in Unit
PROOF
<1>1. Current \in Unit
  BY DEF InputOK, Current
<1>2. "s" \in Unit
  BY DEF Unit
<1> QED BY <1>1, <1>2 DEF Lower

\* Whatever a tag takes up, it keeps its name and its kind.
LEMMA TagKeepsItsName ==
  ASSUME tag \in TagType
  PROVE  /\ WithTagName.isStart = tag.isStart /\ WithTagName.name = tag.buffer
         /\ WithAttributeName.isStart = tag.isStart /\ WithAttributeName.name = tag.name
         /\ WithAttributeValue.isStart = tag.isStart /\ WithAttributeValue.name = tag.name
         /\ \A u : WithChar(u).isStart = tag.isStart /\ WithChar(u).name = tag.name
         /\ [tag EXCEPT !.selfClosing = TRUE].isStart = tag.isStart
         /\ [tag EXCEPT !.selfClosing = TRUE].name = tag.name
PROOF
<1> USE DEF TagType
<1>1. WithTagName.isStart = tag.isStart /\ WithTagName.name = tag.buffer
  BY DEF WithTagName
<1>2. WithAttributeName.isStart = tag.isStart /\ WithAttributeName.name = tag.name
  BY DEF WithAttributeName
<1>3. WithAttributeValue.isStart = tag.isStart /\ WithAttributeValue.name = tag.name
  BY DEF WithAttributeValue
<1>4. \A u : WithChar(u).isStart = tag.isStart /\ WithChar(u).name = tag.name
  BY DEF WithChar
<1> QED BY <1>1, <1>2, <1>3, <1>4

-----------------------------------------------------------------------------
(***************************************************************************)
(* The handlers take steps of these kinds.                                 *)
(***************************************************************************)
TextKind ==
  \/ EmitsText \/ OpensTag \/ MeetsReference \/ EmitsReference \/ SwitchesScript \/ ScriptEnds
  \/ ReadsSlash \/ GivesBack

\* What the buffer is given is made of units.
LEMMA KeptBuffer ==
  ASSUME BuffersOK, InputOK
  PROVE  /\ KeepTemporary => KeepsBuffer
         /\ UNCHANGED <<mark, temporary, emitAt>> /\ scriptData' \in {<<>>, Append(scriptData, Lower(Current))}
              => KeepsBuffer
PROOF
<1>1. scriptData \in Seq(Unit) /\ Append(scriptData, Lower(Current)) \in Seq(Unit) /\ <<>> \in Seq(Unit)
  BY CurrentIsAUnit DEF BuffersOK
<1> QED BY <1>1 DEF KeepTemporary, KeepsBuffer, temporaryVars

\* The state of a handler is the state the tokenizer is in.
LEMMA InIsTheState == ASSUME NEW s, In(s) PROVE state = s /\ In(state)
PROOF BY DEF In

\* Text that means nothing is emitted.
LEMMA TextIsEmitted ==
  ASSUME IInv, KeepTag, KeepDoctypeAndCdata, KeepsBuffer,
         NEW s \in Text \ ReferenceStates, In(s),
         NEW next \in Text \ ReferenceStates, EmitCurrentChar(next),
         Current = "<" => s \in ScriptStates \union {"PLAINTEXT"}
  PROVE  TextKind
PROOF
<1>1. state = s /\ In(state)
  BY InIsTheState
<1>2. state' = next
  BY DEF EmitCurrentChar, Emit
<1> QED BY <1>1, <1>2 DEF TextKind, EmitsText

\* A "<" is kept.
LEMMA LessThanIsKept ==
  ASSUME IInv, KeepTag, KeepDoctypeAndCdata,
         NEW s \in Text \ ReferenceStates, NEW next \in LtStates, LessThan(s, next)
  PROVE  TextKind
PROOF
<1>1. state = s /\ In(state)
  BY InIsTheState DEF LessThan
<1>2. state' = next
  BY DEF LessThan, NextChar
<1> QED BY <1>1, <1>2 DEF TextKind, OpensTag, LessThan

LEMMA DataSteps ==
  ASSUME IInv, KeepTag, KeepDoctypeAndCdata,
         \/ DataState \/ CharRefInDataState \/ RcdataState \/ CharRefInRcdataState
         \/ RawtextState \/ ScriptState \/ PlaintextState
  PROVE  TextKind
PROOF
<1> USE KeptBuffer DEF IInv
<1>1. ASSUME NEW s \in Text \ ReferenceStates, NEW special, EmitText(s, special),
             "<" \in special \/ s = "PLAINTEXT"
      PROVE TextKind
  <2>1. KeepsBuffer
    BY <1>1 DEF EmitText
  <2> QED BY <1>1, <2>1, TextIsEmitted DEF EmitText
<1>2. ASSUME NEW s, NEW next, Ampersand(s, next),
             <<s, next>> \in {<<"DATA", "CHAR_REF_IN_DATA">>, <<"RCDATA", "CHAR_REF_IN_RCDATA">>}
      PROVE TextKind
  <2>1. KeepsBuffer
    BY <1>2 DEF Ampersand
  <2>2. state = s /\ In(state)
    BY <1>2, InIsTheState DEF Ampersand
  <2>3. state' = next /\ Reconsume(state') /\ Current \in References
    BY <1>2 DEF Ampersand, Reconsume
  <2> QED BY <1>2, <2>1, <2>2, <2>3 DEF MeetsReference, TextKind
<1>3. ASSUME NEW s, NEW next, CharRef(s, next),
             <<s, next>> \in {<<"CHAR_REF_IN_DATA", "DATA">>, <<"CHAR_REF_IN_RCDATA", "RCDATA">>}
      PROVE TextKind
  <2>1. state = s /\ In(state)
    BY <1>3, InIsTheState DEF CharRef
  <2>2. state' = next
    BY <1>3 DEF CharRef, EmitCharRef, Emit
  <2> QED BY <1>3, <2>1, <2>2 DEF EmitsReference, TextKind, CharRef
<1>4. {"DATA", "RCDATA", "RAWTEXT", "SCRIPT", "PLAINTEXT"} \subseteq Text \ ReferenceStates
  BY DEF Text, DataStates, ReferenceStates
<1>5. {"TAG_OPEN", "RCDATA_LT", "RAWTEXT_LT", "SCRIPT_LT"} \subseteq LtStates
  BY DEF LtStates
<1>6. CASE DataState
  BY <1>1, <1>2, <1>4, <1>5, <1>6, LessThanIsKept DEF DataState
<1>7. CASE CharRefInDataState
  BY <1>3, <1>7 DEF CharRefInDataState
<1>8. CASE RcdataState
  BY <1>1, <1>2, <1>4, <1>5, <1>8, LessThanIsKept DEF RcdataState
<1>9. CASE CharRefInRcdataState
  BY <1>3, <1>9 DEF CharRefInRcdataState
<1>10. CASE RawtextState
  BY <1>1, <1>4, <1>5, <1>10, LessThanIsKept DEF RawtextState
<1>11. CASE ScriptState
  BY <1>1, <1>4, <1>5, <1>11, LessThanIsKept DEF ScriptState
<1>12. CASE PlaintextState
  BY <1>1, <1>4, <1>12 DEF PlaintextState
<1> QED BY <1>6, <1>7, <1>8, <1>9, <1>10, <1>11, <1>12

\* The classes of states have no state in common.
LEMMA ClassesAreDisjoint ==
  /\ \A s \in LtStates : s \notin EndTagOpenStates \union EndTagNameStates
  /\ \A s \in EndTagOpenStates : s \notin EndTagNameStates
  /\ \A s \in Openers : s \notin Text \union TagStates \union CommentStates \union DoctypeStates
                                   \union {"MARKUP_DECLARATION", "CDATA", "BOGUS_DOCTYPE"}
  /\ \A s \in Text : s \notin TagStates \union CommentStates \union DoctypeStates
                                   \union {"MARKUP_DECLARATION", "CDATA", "BOGUS_DOCTYPE"}
  /\ \A s \in TagStates : s \notin CommentStates \union DoctypeStates
                                   \union {"MARKUP_DECLARATION", "CDATA", "BOGUS_DOCTYPE"}
  /\ \A s \in CommentStates : s \notin DoctypeStates \union {"MARKUP_DECLARATION", "CDATA", "BOGUS_DOCTYPE"}
  /\ \A s \in DoctypeStates : s \notin {"MARKUP_DECLARATION", "CDATA", "BOGUS_DOCTYPE"}
PROOF
<1> USE DEF Text, DataStates, ScriptStates, LtStates, EndTagOpenStates, EndTagNameStates, Openers,
            TagStates, CommentStates, DoctypeStates
<1>1. \A s \in LtStates : s \notin EndTagOpenStates \union EndTagNameStates
  BY SMT
<1>2. \A s \in EndTagOpenStates : s \notin EndTagNameStates
  BY SMT
<1>3. \A s \in Openers : s \notin Text \union TagStates \union CommentStates \union DoctypeStates
                                   \union {"MARKUP_DECLARATION", "CDATA", "BOGUS_DOCTYPE"}
  BY SMTT(60)
<1>4. \A s \in Text : s \notin TagStates \union CommentStates \union DoctypeStates
                                   \union {"MARKUP_DECLARATION", "CDATA", "BOGUS_DOCTYPE"}
  BY SMTT(60)
<1>5. \A s \in TagStates : s \notin CommentStates \union DoctypeStates
                                   \union {"MARKUP_DECLARATION", "CDATA", "BOGUS_DOCTYPE"}
  BY SMTT(60)
<1>6. \A s \in CommentStates : s \notin DoctypeStates \union {"MARKUP_DECLARATION", "CDATA", "BOGUS_DOCTYPE"}
  BY SMTT(60)
<1>7. \A s \in DoctypeStates : s \notin {"MARKUP_DECLARATION", "CDATA", "BOGUS_DOCTYPE"}
  BY SMT
<1> QED BY <1>1, <1>2, <1>3, <1>4, <1>5, <1>6, <1>7, Zenon

\* Each state has its own reason to give up.
LEMMA GivesUp ==
  /\ state \in LtStates /\ Current # "/" => IsNoEndTag
  /\ state \in EndTagOpenStates /\ ~IsLetter => IsNoEndTag
  /\ state \in EndTagNameStates /\ ~IsLetter /\ ~(IsAppropriateEndTag /\ EndsTagName) => IsNoEndTag
PROOF BY ClassesAreDisjoint DEF IsNoEndTag

\* A handler gives back what the buffer holds.
LEMMA BufferIsGivenBack ==
  ASSUME IInv, KeepDoctypeAndCdata, In(state), state \in Openers,
         NEW next \in Text \ ReferenceStates, NEW data, NEW script \in Seq(Unit),
         EmitTemporary(next, data, script),
         \/ data = temporary
         \/ state \in LtStates /\ Current \notin {EOF, "<"} /\ data = temporary \o <<Current>>,
         state \notin EndTagNameStates => KeepTag,
         state \in EndTagNameStates => ChangeTag(Abandoned), IsNoEndTag
  PROVE  GivesBack
PROOF
<1>1. state' = next
  BY DEF EmitTemporary
<1> QED BY <1>1 DEF GivesBack

LEMMA TextLtSteps ==
  ASSUME IInv, KeepTag, KeepDoctypeAndCdata,
         NEW s \in LtStates, NEW open \in EndTagOpenStates, NEW text \in Text \ ReferenceStates,
         TextLt(s, open, text)
  PROVE  TextKind
PROOF
<1>1. state = s /\ In(state) /\ state \in Openers /\ state \notin EndTagNameStates
  BY InIsTheState, ClassesAreDisjoint DEF TextLt, Openers
<1>2. CASE Current = "/" /\ NextChar(open) /\ AppendTemporary(<<"/">>)
  <2>1. state' = open
    BY <1>2 DEF NextChar
  <2> QED BY <1>1, <1>2, <2>1 DEF TextKind, ReadsSlash
<1>3. CASE Current # "/" /\ EmitTemporary(text, temporary, scriptData)
  <2>1. scriptData \in Seq(Unit)
    BY DEF IInv, BuffersOK
  <2> QED BY <1>1, <1>3, <2>1, GivesUp, BufferIsGivenBack DEF TextKind
<1> QED BY <1>2, <1>3 DEF TextLt

LEMMA LtSteps ==
  ASSUME IInv, KeepTag, KeepDoctypeAndCdata,
         RcdataLtState \/ RawtextLtState \/ ScriptLtState \/ ScriptEscapedLtState
  PROVE  TextKind
PROOF
<1>1. {"RCDATA", "RAWTEXT", "SCRIPT", "SCRIPT_ESCAPED", "SCRIPT_ESCAPED_START", "SCRIPT_DOUBLE_ESCAPED_START"}
        \subseteq Text \ ReferenceStates
  BY DEF Text, DataStates, ReferenceStates, ScriptStates
<1>2. {"RCDATA_LT", "RAWTEXT_LT", "SCRIPT_LT", "SCRIPT_ESCAPED_LT"} \subseteq LtStates
  BY DEF LtStates
<1>3. {"RCDATA_END_TAG_OPEN", "RAWTEXT_END_TAG_OPEN", "SCRIPT_END_TAG_OPEN", "SCRIPT_ESCAPED_END_TAG_OPEN"}
        \subseteq EndTagOpenStates
  BY DEF EndTagOpenStates
<1>4. scriptData \in Seq(Unit) /\ temporary \in Seq(Unit) /\ Lower(Current) \in Unit
  BY CurrentIsAUnit DEF IInv, BuffersOK
<1>5. \A s \in LtStates : s \in Openers /\ s \notin EndTagNameStates
  BY ClassesAreDisjoint DEF Openers
<1>6. Append(scriptData, Lower(Current)) \in Seq(Unit)
  BY <1>4
<1>7. \A u : Append(temporary, u) = temporary \o <<u>>
  BY <1>4
<1>8. CASE RcdataLtState
  BY <1>1, <1>2, <1>3, <1>8, TextLtSteps DEF RcdataLtState
<1>9. CASE RawtextLtState
  BY <1>1, <1>2, <1>3, <1>9, TextLtSteps DEF RawtextLtState
<1>10. CASE ScriptLtState
  <2>1. CASE TextLt("SCRIPT_LT", "SCRIPT_END_TAG_OPEN", "SCRIPT")
    BY <1>1, <1>2, <1>3, <2>1, TextLtSteps
  <2>2. CASE /\ In("SCRIPT_LT") /\ Current = "!"
             /\ EmitTemporary("SCRIPT_ESCAPED_START", Append(temporary, "!"), scriptData)
    <3>1. state = "SCRIPT_LT" /\ In(state)
      BY <2>2, InIsTheState
    <3>2. Current \notin {EOF, "<"} /\ Append(temporary, "!") = temporary \o <<Current>>
      BY <2>2, <1>7 DEF EOF
    <3>3. IsNoEndTag
      BY <1>2, <2>2, <3>1, GivesUp
    <3> QED BY <1>1, <1>2, <1>4, <1>5, <2>2, <3>1, <3>2, <3>3, BufferIsGivenBack DEF TextKind
  <2> QED BY <1>10, <2>1, <2>2 DEF ScriptLtState
<1>11. CASE ScriptEscapedLtState
  <2>1. state = "SCRIPT_ESCAPED_LT" /\ In(state)
    BY <1>11, InIsTheState DEF ScriptEscapedLtState
  <2>2. CASE Current = "/" /\ NextChar("SCRIPT_ESCAPED_END_TAG_OPEN") /\ AppendTemporary(<<"/">>)
    <3>1. state' = "SCRIPT_ESCAPED_END_TAG_OPEN"
      BY <2>2 DEF NextChar
    <3> QED BY <1>2, <1>3, <2>1, <2>2, <3>1 DEF TextKind, ReadsSlash
  <2>3. CASE /\ IsLetter
             /\ EmitTemporary("SCRIPT_DOUBLE_ESCAPED_START", Append(temporary, Current),
                              Append(scriptData, Lower(Current)))
    <3>1. Current \notin {EOF, "<"} /\ Current # "/"
      BY <2>3, LettersAssumption DEF IsLetter
    <3>2. IsNoEndTag
      BY <1>2, <2>1, <3>1, GivesUp
    <3> QED BY <1>1, <1>2, <1>5, <1>6, <1>7, <2>1, <2>3, <3>1, <3>2, BufferIsGivenBack DEF TextKind
  <2>4. CASE Current # "/" /\ EmitTemporary("SCRIPT_ESCAPED", temporary, scriptData)
    <3>1. IsNoEndTag
      BY <1>2, <2>1, <2>4, GivesUp
    <3> QED BY <1>1, <1>2, <1>4, <1>5, <2>1, <2>4, <3>1, BufferIsGivenBack DEF TextKind
  <2> QED BY <1>11, <2>2, <2>3, <2>4 DEF ScriptEscapedLtState
<1> QED BY <1>8, <1>9, <1>10, <1>11

\* The handlers of an escaped script.
LEMMA ScriptSteps ==
  ASSUME IInv, KeepTag, KeepDoctypeAndCdata,
         \/ ScriptEscapedStartState \/ ScriptEscapedStartDashState
         \/ ScriptEscapedState \/ ScriptEscapedDashState \/ ScriptEscapedDashDashState
         \/ ScriptDoubleEscapedStartState \/ ScriptDoubleEscapedState \/ ScriptDoubleEscapedDashState
         \/ ScriptDoubleEscapedDashDashState \/ ScriptDoubleEscapedLtState \/ ScriptDoubleEscapedEndState
  PROVE  TextKind
PROOF
<1>1. BuffersOK /\ InputOK
  BY DEF IInv
<1>2. \A s \in ScriptStates \union {"SCRIPT"} : s \in Text \ ReferenceStates
  BY DEF Text, DataStates, ReferenceStates, ScriptStates
<1>3. \A s : s \in ScriptStates <=>
        s \in {"SCRIPT_ESCAPED_START", "SCRIPT_ESCAPED_START_DASH", "SCRIPT_ESCAPED", "SCRIPT_ESCAPED_DASH",
               "SCRIPT_ESCAPED_DASH_DASH", "SCRIPT_DOUBLE_ESCAPED_START", "SCRIPT_DOUBLE_ESCAPED",
               "SCRIPT_DOUBLE_ESCAPED_DASH", "SCRIPT_DOUBLE_ESCAPED_DASH_DASH", "SCRIPT_DOUBLE_ESCAPED_LT",
               "SCRIPT_DOUBLE_ESCAPED_END"}
  BY DEF ScriptStates
<1>4. "SCRIPT_ESCAPED_LT" \in LtStates
  BY DEF LtStates
\* The three ways such a handler ends.
<1>5. ASSUME NEW s \in ScriptStates, In(s), NEW next \in ScriptStates \union {"SCRIPT"},
             EmitCurrentChar(next), KeepsBuffer
      PROVE  TextKind
  BY <1>2, <1>5, TextIsEmitted
<1>6. ASSUME NEW s \in ScriptStates, In(s), NEW next \in ScriptStates \union {"SCRIPT"},
             Reconsume(next), KeepTemporary
      PROVE  TextKind
  <2>1. state = s /\ In(state) /\ state' = next
    BY <1>6, InIsTheState DEF Reconsume
  <2>2. KeepsBuffer
    BY <1>1, <1>6, KeptBuffer
  <2> QED BY <1>6, <2>1, <2>2 DEF TextKind, SwitchesScript
<1>7. ASSUME NEW s \in ScriptStates, In(s), Current = EOF, NextChar("DATA"), KeepTemporary
      PROVE  TextKind
  <2>1. state = s /\ In(state) /\ state' = "DATA"
    BY <1>7, InIsTheState DEF NextChar
  <2>2. KeepsBuffer
    BY <1>1, <1>7, KeptBuffer
  <2> QED BY <1>7, <2>1, <2>2 DEF TextKind, ScriptEnds
<1>8. ASSUME NEW s \in ScriptStates, NEW next \in ScriptStates, EscapedStart(s, next)
      PROVE  TextKind
  <2>1. KeepsBuffer /\ KeepTemporary /\ In(s)
    BY <1>1, <1>8, KeptBuffer DEF EscapedStart
  <2> QED BY <1>5, <1>6, <1>8, <2>1 DEF EscapedStart
<1>9. ASSUME NEW s \in ScriptStates, NEW a \in ScriptStates, NEW b \in ScriptStates, DoubleEscape(s, a, b)
      PROVE  TextKind
  <2>1. In(s)
    BY <1>9 DEF DoubleEscape
  <2>2. CASE /\ EndsTagName /\ EmitCurrentChar(IF scriptData = ScriptName THEN a ELSE b) /\ KeepTemporary
    <3>1. KeepsBuffer
      BY <1>1, <2>2, KeptBuffer
    <3> QED BY <1>5, <2>1, <2>2, <3>1
  <2>3. CASE /\ IsLetter /\ EmitCurrentChar(s)
             /\ scriptData' = Append(scriptData, Lower(Current)) /\ UNCHANGED <<mark, temporary, emitAt>>
    <3>1. KeepsBuffer
      BY <1>1, <2>3, KeptBuffer
    <3> QED BY <1>5, <2>1, <2>3, <3>1
  <2>4. CASE Reconsume(b) /\ KeepTemporary
    BY <1>6, <2>1, <2>4
  <2> QED BY <1>9, <2>2, <2>3, <2>4 DEF DoubleEscape
<1>10. ASSUME NEW s \in ScriptStates, NEW dash \in ScriptStates, DoubleEscaped(s, dash)
       PROVE  TextKind
  <2> DEFINE next == CASE Current = "-" -> dash
                       [] Current = "<" -> "SCRIPT_DOUBLE_ESCAPED_LT"
                       [] Current = ">" /\ s = "SCRIPT_DOUBLE_ESCAPED_DASH_DASH" -> "SCRIPT"
                       [] OTHER -> "SCRIPT_DOUBLE_ESCAPED"
  <2>1. next \in ScriptStates \union {"SCRIPT"}
    BY <1>3, <1>10
  <2> HIDE DEF next
  <2>2. In(s) /\ KeepTemporary /\ KeepsBuffer
    BY <1>1, <1>10, KeptBuffer DEF DoubleEscaped
  <2>3. EmitCurrentChar(next) \/ (Current = EOF /\ NextChar("DATA"))
    BY <1>10 DEF DoubleEscaped, next
  <2> QED BY <1>5, <1>7, <2>1, <2>2, <2>3
<1>11. CASE ScriptEscapedStartState \/ ScriptEscapedStartDashState
  BY <1>3, <1>8, <1>11 DEF ScriptEscapedStartState, ScriptEscapedStartDashState
<1>12. ASSUME NEW s \in ScriptStates, In(s), KeepTemporary, NEW dash \in ScriptStates,
              EmitCurrentChar(IF Current = "-" THEN dash ELSE "SCRIPT_ESCAPED")
       PROVE  TextKind
  <2>1. KeepsBuffer
    BY <1>1, <1>12, KeptBuffer
  <2>2. (IF Current = "-" THEN dash ELSE "SCRIPT_ESCAPED") \in ScriptStates
    BY <1>3
  <2> QED BY <1>5, <1>12, <2>1, <2>2
<1>13. CASE ScriptEscapedState
  BY <1>2, <1>3, <1>4, <1>12, <1>13, LessThanIsKept DEF ScriptEscapedState
<1>14. CASE ScriptEscapedDashState
  BY <1>2, <1>3, <1>4, <1>7, <1>12, <1>14, LessThanIsKept DEF ScriptEscapedDashState
<1>15. CASE ScriptEscapedDashDashState
  <2> DEFINE s == "SCRIPT_ESCAPED_DASH_DASH"
             next == AfterDashDash(s, "SCRIPT_ESCAPED")
  <2>1. next \in ScriptStates \union {"SCRIPT"} /\ s \in ScriptStates
    BY <1>3 DEF AfterDashDash
  <2>2. \/ In(s) /\ KeepTemporary /\ EmitCurrentChar(next)
        \/ LessThan(s, "SCRIPT_ESCAPED_LT")
        \/ In(s) /\ Current = EOF /\ NextChar("DATA") /\ KeepTemporary
    BY <1>15 DEF ScriptEscapedDashDashState
  <2> HIDE DEF next, s
  <2>3. KeepTemporary => KeepsBuffer
    BY <1>1, KeptBuffer
  <2> QED BY <1>2, <1>4, <1>5, <1>7, <2>1, <2>2, <2>3, LessThanIsKept
<1>16. CASE ScriptDoubleEscapedStartState \/ ScriptDoubleEscapedEndState
  BY <1>3, <1>9, <1>16 DEF ScriptDoubleEscapedStartState, ScriptDoubleEscapedEndState
<1>17. CASE ScriptDoubleEscapedState \/ ScriptDoubleEscapedDashState \/ ScriptDoubleEscapedDashDashState
  BY <1>3, <1>10, <1>17 DEF ScriptDoubleEscapedState, ScriptDoubleEscapedDashState, ScriptDoubleEscapedDashDashState
<1>18. CASE ScriptDoubleEscapedLtState
  <2>1. In("SCRIPT_DOUBLE_ESCAPED_LT")
    BY <1>18 DEF ScriptDoubleEscapedLtState
  <2>2. CASE /\ EmitCurrentChar("SCRIPT_DOUBLE_ESCAPED_END")
             /\ scriptData' = <<>> /\ UNCHANGED <<mark, temporary, emitAt>>
    <3>1. KeepsBuffer
      BY <1>1, <2>2, KeptBuffer
    <3> QED BY <1>3, <1>5, <2>1, <2>2, <3>1
  <2>3. CASE Reconsume("SCRIPT_DOUBLE_ESCAPED") /\ KeepTemporary
    BY <1>3, <1>6, <2>1, <2>3
  <2> QED BY <1>18, <2>2, <2>3 DEF ScriptDoubleEscapedLtState
<1> QED BY <1>11, <1>13, <1>14, <1>15, <1>16, <1>17, <1>18

OpeningKind ==
  \/ BeginsMarkup \/ BeginsBogus \/ SkipsEmptyEnd \/ BeginsTag \/ BeginsEndTag \/ ReadsEndTagName
  \/ EntersEndTag \/ EmitsTag

LEMMA TagOpenSteps ==
  ASSUME IInv, KeepDoctypeAndCdata, TagOpenState \/ EndTagOpenState
  PROVE  TextKind \/ OpeningKind
PROOF
<1>1. BuffersOK /\ InputOK /\ scriptData \in Seq(Unit)
  BY DEF IInv, BuffersOK
<1>2. KeepTemporary => KeepsBuffer
  BY <1>1, KeptBuffer
<1>3. "TAG_OPEN" \in LtStates /\ "END_TAG_OPEN" \in EndTagOpenStates /\ "DATA" \in Text \ ReferenceStates
  BY DEF LtStates, EndTagOpenStates, Text, DataStates, ReferenceStates
<1>4. "TAG_OPEN" \in Openers \ EndTagNameStates /\ "END_TAG_OPEN" \in Openers \ EndTagNameStates
  BY <1>3, ClassesAreDisjoint DEF Openers
<1>5. IsLetter => Current # EOF
  BY LettersAssumption DEF IsLetter
<1>6. CASE TagOpenState
  <2>1. state = "TAG_OPEN" /\ In(state)
    BY <1>6, InIsTheState DEF TagOpenState
  <2>2. CASE Current = "!" /\ NextChar("MARKUP_DECLARATION") /\ ClearTemporary(<<>>) /\ KeepTag
    BY <2>1, <2>2 DEF BeginsMarkup, OpeningKind
  <2>3. CASE Current = "/" /\ NextChar("END_TAG_OPEN") /\ AppendTemporary(<<"/">>) /\ KeepTag
    <3>1. state' = "END_TAG_OPEN"
      BY <2>3 DEF NextChar
    <3> QED BY <1>3, <2>1, <2>3, <3>1 DEF ReadsSlash, TextKind
  <2>4. CASE Current = "?" /\ NextChar("BOGUS_COMMENT") /\ ClearTemporary(<<"?">>) /\ KeepTag
    BY <2>1, <2>4 DEF BeginsBogus, OpeningKind
  <2>5. CASE IsLetter /\ NextChar("TAG_NAME") /\ ChangeTag(NewTag(TRUE)) /\ KeepTemporary
    BY <1>2, <2>1, <2>5 DEF BeginsTag, OpeningKind
  <2>6. CASE /\ ~IsLetter /\ Current \notin {"!", "/", "?"}
             /\ EmitTemporary("DATA", temporary, scriptData) /\ KeepTag
    <3>1. IsNoEndTag
      BY <1>3, <2>1, <2>6, GivesUp
    <3> QED BY <1>1, <1>3, <1>4, <2>1, <2>6, <3>1, BufferIsGivenBack DEF TextKind
  <2> QED BY <1>6, <2>2, <2>3, <2>4, <2>5, <2>6 DEF TagOpenState
<1>7. CASE EndTagOpenState
  <2>1. state = "END_TAG_OPEN" /\ In(state)
    BY <1>7, InIsTheState DEF EndTagOpenState
  <2>2. CASE Current = ">" /\ NextChar("DATA") /\ KeepTemporary /\ KeepTag
    BY <1>2, <2>1, <2>2 DEF SkipsEmptyEnd, OpeningKind
  <2>3. CASE Current = EOF /\ EmitTemporary("DATA", temporary, scriptData) /\ KeepTag
    <3>1. IsNoEndTag
      BY <1>3, <1>5, <2>1, <2>3, GivesUp
    <3> QED BY <1>1, <1>3, <1>4, <2>1, <2>3, <3>1, BufferIsGivenBack DEF TextKind
  <2>4. CASE IsLetter /\ NextChar("TAG_NAME") /\ ChangeTag(NewTag(FALSE)) /\ KeepTemporary
    BY <1>2, <2>1, <2>4 DEF BeginsTag, OpeningKind
  <2>5. CASE /\ ~IsLetter /\ Current \notin {">", EOF}
             /\ NextChar("BOGUS_COMMENT") /\ ClearTemporary(<<Current>>) /\ KeepTag
    BY <2>1, <2>5 DEF BeginsBogus, OpeningKind
  <2> QED BY <1>7, <2>2, <2>3, <2>4, <2>5 DEF EndTagOpenState
<1> QED BY <1>6, <1>7

LEMMA TextEndTagSteps ==
  ASSUME IInv, KeepDoctypeAndCdata,
         NEW s \in EndTagOpenStates, NEW name \in EndTagNameStates, NEW text \in Text \ ReferenceStates,
         TextEndTagOpen(s, name, text) \/ TextEndTagName(name, text)
  PROVE  TextKind \/ OpeningKind
PROOF
<1>1. BuffersOK /\ InputOK /\ scriptData \in Seq(Unit)
  BY DEF IInv, BuffersOK
<1>2. KeepTemporary => KeepsBuffer
  BY <1>1, KeptBuffer
<1>3. s \in Openers \ EndTagNameStates /\ name \in Openers
  BY ClassesAreDisjoint DEF Openers
<1>4. CASE TextEndTagOpen(s, name, text)
  <2>1. state = s /\ In(state)
    BY <1>4, InIsTheState DEF TextEndTagOpen
  <2>2. CASE IsLetter /\ NextChar(name) /\ ChangeTag(NewTag(FALSE)) /\ AppendTemporary(<<Current>>)
    <3>1. state' = name
      BY <2>2 DEF NextChar
    <3> QED BY <2>1, <2>2, <3>1 DEF BeginsEndTag, OpeningKind
  <2>3. CASE ~IsLetter /\ EmitTemporary(text, temporary, scriptData) /\ KeepTag
    <3>1. IsNoEndTag
      BY <2>1, <2>3, GivesUp
    <3> QED BY <1>1, <1>3, <2>1, <2>3, <3>1, BufferIsGivenBack DEF TextKind
  <2> QED BY <1>4, <2>2, <2>3 DEF TextEndTagOpen
<1>5. CASE TextEndTagName(name, text)
  <2>1. state = name /\ In(state)
    BY <1>5, InIsTheState DEF TextEndTagName
  <2>2. CASE IsLetter /\ NextChar(name) /\ ChangeTag(WithChar(Lower(Current))) /\ AppendTemporary(<<Current>>)
    <3>1. state' = name
      BY <2>2 DEF NextChar
    <3> QED BY <2>1, <2>2, <3>1 DEF ReadsEndTagName, OpeningKind
  <2>3. CASE IsAppropriateEndTag /\ KeepTemporary /\ Current = " " /\ NextChar("BEFORE_ATTR_NAME") /\ ChangeTag(WithTagName)
    <3>1. state' = "BEFORE_ATTR_NAME" /\ Current # EOF
      BY <2>3 DEF NextChar, EOF
    <3> QED BY <1>2, <2>1, <2>3, <3>1 DEF EntersEndTag, OpeningKind
  <2>4. CASE IsAppropriateEndTag /\ KeepTemporary /\ Current = "/" /\ NextChar("SELF_CLOSING_START_TAG") /\ ChangeTag(WithTagName)
    <3>1. state' = "SELF_CLOSING_START_TAG" /\ Current # EOF
      BY <2>4 DEF NextChar, EOF
    <3> QED BY <1>2, <2>1, <2>4, <3>1 DEF EntersEndTag, OpeningKind
  <2>5. CASE IsAppropriateEndTag /\ KeepTemporary /\ Current = ">" /\ EmitTag("DATA", WithTagName)
    <3>1. TagToEmit(WithTagName)
      BY <2>1 DEF TagToEmit
    <3> QED BY <1>2, <2>1, <2>5, <3>1 DEF EmitsTag, OpeningKind
  <2>6. CASE /\ ~IsLetter /\ ~(IsAppropriateEndTag /\ EndsTagName)
             /\ ChangeTag(Abandoned) /\ EmitTemporary(text, temporary, scriptData)
    <3>1. IsNoEndTag
      BY <2>1, <2>6, GivesUp
    <3> QED BY <1>1, <1>3, <2>1, <2>6, <3>1, BufferIsGivenBack DEF TextKind
  <2> QED BY <1>5, <2>2, <2>3, <2>4, <2>5, <2>6 DEF TextEndTagName
<1> QED BY <1>4, <1>5

LEMMA TextSteps ==
  ASSUME IInv, TextHandler
  PROVE  TextKind \/ OpeningKind
PROOF
<1>1. KeepDoctypeAndCdata
  BY DEF TextHandler, KeepDoctypeAndCdata
<1>2. CASE PlainTextHandler /\ KeepTag
  BY <1>1, <1>2, DataSteps, LtSteps, ScriptSteps DEF PlainTextHandler
<1>3. CASE OpeningHandler
  <2>1. {"RCDATA", "RAWTEXT", "SCRIPT", "SCRIPT_ESCAPED"} \subseteq Text \ ReferenceStates
    BY DEF Text, DataStates, ReferenceStates, ScriptStates
  <2>2. {"RCDATA_END_TAG_OPEN", "RAWTEXT_END_TAG_OPEN", "SCRIPT_END_TAG_OPEN", "SCRIPT_ESCAPED_END_TAG_OPEN"}
          \subseteq EndTagOpenStates
    BY DEF EndTagOpenStates
  <2>3. {"RCDATA_END_TAG_NAME", "RAWTEXT_END_TAG_NAME", "SCRIPT_END_TAG_NAME", "SCRIPT_ESCAPED_END_TAG_NAME"}
          \subseteq EndTagNameStates
    BY DEF EndTagNameStates
  <2>4. CASE TagOpenState \/ EndTagOpenState
    BY <1>1, <2>4, TagOpenSteps
  <2>5. CASE RcdataEndTagOpenState \/ RcdataEndTagNameState
    BY <1>1, <2>1, <2>2, <2>3, <2>5, TextEndTagSteps DEF RcdataEndTagOpenState, RcdataEndTagNameState
  <2>6. CASE RawtextEndTagOpenState \/ RawtextEndTagNameState
    BY <1>1, <2>1, <2>2, <2>3, <2>6, TextEndTagSteps DEF RawtextEndTagOpenState, RawtextEndTagNameState
  <2>7. CASE ScriptEndTagOpenState \/ ScriptEndTagNameState
    BY <1>1, <2>1, <2>2, <2>3, <2>7, TextEndTagSteps DEF ScriptEndTagOpenState, ScriptEndTagNameState
  <2>8. CASE ScriptEscapedEndTagOpenState \/ ScriptEscapedEndTagNameState
    BY <1>1, <2>1, <2>2, <2>3, <2>8, TextEndTagSteps
    DEF ScriptEscapedEndTagOpenState, ScriptEscapedEndTagNameState
  <2> QED BY <1>3, <2>4, <2>5, <2>6, <2>7, <2>8 DEF OpeningHandler
<1> QED BY <1>2, <1>3 DEF TextHandler

TagKind == ReadsTag \/ EmitsTag \/ AbandonsTag

\* The three ways a handler of a tag ends.
LEMMA TagIsRead ==
  ASSUME KeepTemporary, KeepDoctypeAndCdata, NEW s \in TagStates, In(s),
         NEW next, NextChar(next) \/ Reconsume(next), state' = next => TagMoves
  PROVE  TagKind
PROOF
<1>1. state = s /\ In(state) /\ state' = next
  BY InIsTheState DEF NextChar, Reconsume
<1>2. mark' \in {mark, pos} /\ UNCHANGED <<temporary, emitAt, scriptData>>
  BY DEF KeepTemporary, temporaryVars
<1> QED BY <1>1, <1>2 DEF ReadsTag, TagKind

LEMMA TagIsEmitted ==
  ASSUME BuffersOK, InputOK, KeepTemporary, KeepDoctypeAndCdata, NEW s \in TagStates, In(s), Current = ">",
         NEW t, EmitTag("DATA", t), state = s => TagToEmit(t)
  PROVE  TagKind
PROOF
<1>1. state = s /\ In(state) /\ KeepsBuffer
  BY InIsTheState, KeptBuffer
<1>2. state \notin EndTagNameStates
  BY <1>1, ClassesAreDisjoint DEF Openers
<1> QED BY <1>1, <1>2 DEF EmitsTag, TagKind

LEMMA TagIsAbandoned ==
  ASSUME BuffersOK, InputOK, KeepTemporary, KeepDoctypeAndCdata, NEW s \in TagStates,
         Abandon(s) \/ AbandonHere(s)
  PROVE  TagKind
PROOF
<1>1. In(s) /\ Current = EOF /\ ChangeTag(Abandoned) /\ (NextChar("DATA") \/ Reconsume("DATA"))
  BY DEF Abandon, AbandonHere
<1>2. state = s /\ In(state) /\ KeepsBuffer
  BY <1>1, InIsTheState, KeptBuffer
<1> QED BY <1>1, <1>2 DEF AbandonsTag, TagKind

LEMMA NameSteps ==
  ASSUME IInv, KeepTemporary, KeepDoctypeAndCdata,
         \/ TagNameState \/ BeforeAttrNameState \/ AttrNameState \/ AfterAttrNameState
         \/ SelfClosingStartTagState
  PROVE  TagKind
PROOF
<1>1. BuffersOK /\ InputOK
  BY DEF IInv
<1>2. \A s \in {"TAG_NAME", "BEFORE_ATTR_NAME", "ATTR_NAME", "AFTER_ATTR_NAME", "SELF_CLOSING_START_TAG"} :
        s \in TagStates
  BY DEF TagStates
<1>3. ASSUME NEW s \in TagStates, In(s), state = s,
             NEW next, NextChar(next) \/ Reconsume(next), state' = next => TagMoves
      PROVE  TagKind
  BY <1>3, TagIsRead
<1>4. ASSUME NEW s \in TagStates, In(s), Current = ">", NEW t, EmitTag("DATA", t), TagToEmit(t)
      PROVE  TagKind
  BY <1>1, <1>4, TagIsEmitted
<1>5. ASSUME NEW s \in TagStates, Abandon(s)
      PROVE  TagKind
  BY <1>1, <1>5, TagIsAbandoned
<1>6. ASSUME NEW s \in {"BEFORE_ATTR_NAME", "AFTER_ATTR_NAME"}, AroundName(s)
      PROVE  TagKind
  <2>1. In(s) /\ state = s
    BY <1>6, InIsTheState DEF AroundName
  <2>2. CASE Current = " " /\ NextChar(s) /\ KeepTag
    <3>1. state' = s => TagMoves
      BY <1>6, <2>1, <2>2 DEF TagMoves, ValueTexts
    <3> QED BY <1>2, <1>3, <2>1, <2>2, <3>1
  <2>3. CASE Current = "/" /\ NextChar("SELF_CLOSING_START_TAG") /\ KeepTag
    <3>1. state' = "SELF_CLOSING_START_TAG" => TagMoves
      BY <1>6, <2>1, <2>3 DEF TagMoves
    <3> QED BY <1>2, <1>3, <2>1, <2>3, <3>1
  <2>4. CASE Current = ">" /\ EmitTag("DATA", tag)
    BY <1>2, <1>4, <1>6, <2>1, <2>4 DEF TagToEmit
  <2> QED BY <1>6, <2>2, <2>3, <2>4 DEF AroundName
<1>7. ASSUME NEW s \in {"BEFORE_ATTR_NAME", "ATTR_NAME", "AFTER_ATTR_NAME"}, NEW special, BeginName(s, special)
      PROVE  TagKind
  <2>1. In(s) /\ state = s /\ NextChar("ATTR_NAME") /\ ChangeTag(WithChar(Lower(Current)))
    BY <1>7, InIsTheState DEF BeginName
  <2>2. state' = "ATTR_NAME" => TagMoves
    BY <1>7, <2>1 DEF TagMoves
  <2> QED BY <1>2, <1>3, <2>1, <2>2
<1>8. CASE TagNameState
  <2>1. CASE Abandon("TAG_NAME")
    BY <1>2, <1>5, <2>1
  <2>2. CASE ~Abandon("TAG_NAME")
    <3>1. In("TAG_NAME") /\ state = "TAG_NAME"
      BY <1>8, <2>2, InIsTheState DEF TagNameState
    <3>2. CASE Current = " " /\ NextChar("BEFORE_ATTR_NAME") /\ ChangeTag(WithTagName)
      <4>1. state' = "BEFORE_ATTR_NAME" => TagMoves
        BY <3>1, <3>2 DEF TagMoves
      <4> QED BY <1>2, <1>3, <3>1, <3>2, <4>1
    <3>3. CASE Current = "/" /\ NextChar("SELF_CLOSING_START_TAG") /\ ChangeTag(WithTagName)
      <4>1. state' = "SELF_CLOSING_START_TAG" => TagMoves
        BY <3>1, <3>3 DEF TagMoves
      <4> QED BY <1>2, <1>3, <3>1, <3>3, <4>1
    <3>4. CASE Current = ">" /\ EmitTag("DATA", WithTagName)
      BY <1>2, <1>4, <3>1, <3>4 DEF TagToEmit
    <3>5. CASE NextChar("TAG_NAME") /\ ChangeTag(WithChar(Lower(Current)))
      <4>1. state' = "TAG_NAME" => TagMoves
        BY <3>1, <3>5 DEF TagMoves
      <4> QED BY <1>2, <1>3, <3>1, <3>5, <4>1
    <3> QED BY <1>8, <2>2, <3>2, <3>3, <3>4, <3>5 DEF TagNameState
  <2> QED BY <2>1, <2>2
<1>9. CASE BeforeAttrNameState
  BY <1>2, <1>5, <1>6, <1>7, <1>9 DEF BeforeAttrNameState
<1>10. CASE AttrNameState
  <2>1. CASE BeginName("ATTR_NAME", {"="}) \/ Abandon("ATTR_NAME")
    BY <1>2, <1>5, <1>7, <2>1
  <2>2. CASE ~(BeginName("ATTR_NAME", {"="}) \/ Abandon("ATTR_NAME"))
    <3>1. In("ATTR_NAME") /\ state = "ATTR_NAME"
      BY <1>10, <2>2, InIsTheState DEF AttrNameState
    <3>2. CASE Current = ">" /\ EmitTag("DATA", WithAttributeName)
      BY <1>2, <1>4, <3>1, <3>2 DEF TagToEmit
    <3>3. ASSUME NEW next \in {"AFTER_ATTR_NAME", "SELF_CLOSING_START_TAG", "BEFORE_ATTR_VALUE"},
                 NextChar(next), ChangeTag(WithAttributeName)
          PROVE  TagKind
      <4>1. state' = next => TagMoves
        BY <3>1, <3>3 DEF TagMoves
      <4> QED BY <1>2, <1>3, <3>1, <3>3, <4>1
    <3> QED BY <1>10, <2>2, <3>2, <3>3 DEF AttrNameState
  <2> QED BY <2>1, <2>2
<1>11. CASE AfterAttrNameState
  <2>1. CASE /\ In("AFTER_ATTR_NAME") /\ Current = "="
             /\ NextChar("BEFORE_ATTR_VALUE") /\ KeepTag
    <3>1. state = "AFTER_ATTR_NAME"
      BY <2>1, InIsTheState
    <3>2. state' = "BEFORE_ATTR_VALUE" => TagMoves
      BY <2>1, <3>1 DEF TagMoves
    <3> QED BY <1>2, <1>3, <2>1, <3>1, <3>2
  <2> QED BY <1>2, <1>5, <1>6, <1>7, <1>11, <2>1 DEF AfterAttrNameState
<1>12. CASE SelfClosingStartTagState
  <2>1. CASE Abandon("SELF_CLOSING_START_TAG")
    BY <1>2, <1>5, <2>1
  <2>2. CASE ~Abandon("SELF_CLOSING_START_TAG")
    <3>1. In("SELF_CLOSING_START_TAG") /\ state = "SELF_CLOSING_START_TAG"
      BY <1>12, <2>2, InIsTheState DEF SelfClosingStartTagState
    <3>2. CASE Current = ">" /\ EmitTag("DATA", [tag EXCEPT !.selfClosing = TRUE])
      BY <1>2, <1>4, <3>1, <3>2 DEF TagToEmit
    <3>3. CASE Reconsume("BEFORE_ATTR_NAME") /\ KeepTag
      <4>1. state' = "BEFORE_ATTR_NAME" => TagMoves
        BY <3>1, <3>3 DEF TagMoves
      <4> QED BY <1>2, <1>3, <3>1, <3>3, <4>1
    <3> QED BY <1>12, <2>2, <3>2, <3>3 DEF SelfClosingStartTagState
  <2> QED BY <2>1, <2>2
<1> QED BY <1>8, <1>9, <1>10, <1>11, <1>12

LEMMA ValueSteps ==
  ASSUME IInv, KeepTemporary, KeepDoctypeAndCdata,
         \/ BeforeAttrValueState \/ AttrValueDoubleQuotedState \/ AttrValueSingleQuotedState
         \/ AttrValueUnquotedState \/ AfterAttrValueQuotedState
  PROVE  TagKind
PROOF
<1>1. BuffersOK /\ InputOK
  BY DEF IInv
<1>2. \A s \in {"BEFORE_ATTR_VALUE", "AFTER_ATTR_VALUE_QUOTED"} \union ValueTexts : s \in TagStates
  BY DEF TagStates, ValueTexts
<1>3. \A s : s \in ValueTexts <=>
        s \in {"ATTR_VALUE_DOUBLE_QUOTED", "ATTR_VALUE_SINGLE_QUOTED", "ATTR_VALUE_UNQUOTED"}
  BY DEF ValueTexts
<1>4. ASSUME NEW s \in TagStates, In(s), state = s,
             NEW next, NextChar(next) \/ Reconsume(next), state' = next => TagMoves
      PROVE  TagKind
  BY <1>4, TagIsRead
<1>5. ASSUME NEW s \in TagStates, In(s), Current = ">", NEW t, EmitTag("DATA", t), TagToEmit(t)
      PROVE  TagKind
  BY <1>1, <1>5, TagIsEmitted
<1>6. ASSUME NEW s \in TagStates, AbandonHere(s)
      PROVE  TagKind
  BY <1>1, <1>6, TagIsAbandoned
<1>7. ASSUME NEW s \in ValueTexts, ValueReference(s)
      PROVE  TagKind
  <2>1. In(s) /\ state = s /\ Reconsume("CHAR_REF_IN_ATTR_VALUE")
    BY <1>7, InIsTheState DEF ValueReference
  <2>2. state' = "CHAR_REF_IN_ATTR_VALUE" => TagMoves
    BY <1>7, <2>1 DEF TagMoves, ValueReference
  <2> QED BY <1>2, <1>4, <2>1, <2>2
<1>8. ASSUME NEW s \in ValueTexts, NEW special, ValueChar(s, special)
      PROVE  TagKind
  <2>1. In(s) /\ state = s /\ NextChar(s) /\ ChangeTag(WithChar(Current))
    BY <1>8, InIsTheState DEF ValueChar
  <2>2. state' = s => TagMoves
    BY <2>1 DEF TagMoves
  <2> QED BY <1>2, <1>4, <2>1, <2>2
<1>9. ASSUME NEW s \in ValueTexts, NEW quote, Quoted(s, quote)
      PROVE  TagKind
  <2>1. CASE In(s) /\ Current = quote /\ NextChar("AFTER_ATTR_VALUE_QUOTED") /\ KeepTag
    <3>1. state = s
      BY <2>1, InIsTheState
    <3>2. state' = "AFTER_ATTR_VALUE_QUOTED" => TagMoves
      BY <2>1, <3>1 DEF TagMoves
    <3> QED BY <1>2, <1>4, <2>1, <3>1, <3>2
  <2> QED BY <1>2, <1>6, <1>7, <1>8, <1>9, <2>1 DEF Quoted
<1>10. CASE AttrValueDoubleQuotedState \/ AttrValueSingleQuotedState
  BY <1>3, <1>9, <1>10 DEF AttrValueDoubleQuotedState, AttrValueSingleQuotedState
<1>11. ASSUME NEW s \in {"ATTR_VALUE_UNQUOTED", "AFTER_ATTR_VALUE_QUOTED"}, In(s),
              NEW next \in {"BEFORE_ATTR_NAME", "SELF_CLOSING_START_TAG"},
              NextChar(next) \/ Reconsume(next), ChangeTag(WithAttributeValue)
       PROVE  TagKind
  <2>1. state = s
    BY <1>11, InIsTheState
  <2>2. state' = next => TagMoves
    BY <1>11, <2>1 DEF TagMoves
  <2> QED BY <1>2, <1>3, <1>4, <1>11, <2>1, <2>2
<1>12. ASSUME NEW s \in {"ATTR_VALUE_UNQUOTED", "AFTER_ATTR_VALUE_QUOTED"}, In(s),
              Current = ">", EmitTag("DATA", WithAttributeValue)
       PROVE  TagKind
  <2>1. TagToEmit(WithAttributeValue)
    BY <1>12, InIsTheState DEF TagToEmit
  <2> QED BY <1>2, <1>3, <1>5, <1>12, <2>1
<1>13. CASE AttrValueUnquotedState
  <2>1. CASE /\ In("ATTR_VALUE_UNQUOTED")
             /\ \/ Current = " " /\ NextChar("BEFORE_ATTR_NAME") /\ ChangeTag(WithAttributeValue)
                \/ Current = ">" /\ EmitTag("DATA", WithAttributeValue)
    BY <1>11, <1>12, <2>1
  <2> QED BY <1>2, <1>3, <1>6, <1>7, <1>8, <1>13, <2>1 DEF AttrValueUnquotedState
<1>14. CASE AfterAttrValueQuotedState
  <2>1. In("AFTER_ATTR_VALUE_QUOTED")
    BY <1>14 DEF AfterAttrValueQuotedState
  <2>2. CASE /\ Current = EOF /\ Reconsume("DATA")
             /\ ChangeTag([WithAttributeValue EXCEPT !.open = FALSE, !.attributes = <<>>])
    <3>1. state = "AFTER_ATTR_VALUE_QUOTED" /\ In(state) /\ state \in TagStates /\ KeepsBuffer
      BY <1>1, <1>2, <2>1, InIsTheState, KeptBuffer
    <3> QED BY <2>2, <3>1 DEF AbandonsTag, TagKind
  <2> QED BY <1>11, <1>12, <1>14, <2>1, <2>2 DEF AfterAttrValueQuotedState
<1>15. CASE BeforeAttrValueState
  <2>1. CASE AbandonHere("BEFORE_ATTR_VALUE")
    BY <1>2, <1>6, <2>1
  <2>2. CASE ~AbandonHere("BEFORE_ATTR_VALUE")
    <3>1. In("BEFORE_ATTR_VALUE") /\ state = "BEFORE_ATTR_VALUE"
      BY <1>15, <2>2, InIsTheState DEF BeforeAttrValueState
    <3>2. CASE Current = ">" /\ EmitTag("DATA", tag)
      BY <1>2, <1>5, <3>1, <3>2 DEF TagToEmit
    <3>3. CASE NextChar("BEFORE_ATTR_VALUE") /\ KeepTag
      <4>1. state' = "BEFORE_ATTR_VALUE" => TagMoves
        BY <3>1, <3>3 DEF TagMoves, ValueTexts
      <4> QED BY <1>2, <1>4, <3>1, <3>3, <4>1
    <3>4. ASSUME NEW next \in ValueTexts, NextChar(next) \/ Reconsume(next),
                 KeepTag \/ ChangeTag(WithChar(Current))
          PROVE  TagKind
      <4>1. state' = next => TagMoves
        BY <3>1, <3>4 DEF TagMoves
      <4> QED BY <1>2, <1>4, <3>1, <3>4, <4>1
    <3> QED BY <1>3, <1>15, <2>2, <3>2, <3>3, <3>4 DEF BeforeAttrValueState
  <2> QED BY <2>1, <2>2
<1> QED BY <1>10, <1>13, <1>14, <1>15

LEMMA TagSteps ==
  ASSUME IInv, TagHandler
  PROVE  TagKind
PROOF
<1>1. KeepDoctypeAndCdata
  BY DEF TagHandler, KeepDoctypeAndCdata
<1>2. CASE CharRefInAttrValueState
  <2> DEFINE units == IF Current = "&2;" THEN <<"&2;", "second">> ELSE <<Current>>
  <2>1. Current \in Unit /\ "second" \in Unit
    BY CurrentIsAUnit DEF IInv, Unit
  <2>2. units \in Seq(Unit)
    <3>1. <<Current>> \in Seq(Unit) /\ <<Current, "second">> \in Seq(Unit)
      BY <2>1
    <3> QED BY <3>1
  <2>3. ChangeTag([tag EXCEPT !.buffer = @ \o units])
    BY <1>2 DEF CharRefInAttrValueState
  <2> HIDE DEF units
  <2>4. /\ In("CHAR_REF_IN_ATTR_VALUE") /\ NextChar(attrValueState) /\ state' = attrValueState
        /\ mark' = pos /\ UNCHANGED <<temporary, emitAt, scriptData>>
    BY <1>2 DEF CharRefInAttrValueState, NextChar
  <2>5. state = "CHAR_REF_IN_ATTR_VALUE" /\ In(state) /\ state \in TagStates
    BY <2>4, InIsTheState DEF TagStates
  <2>6. TagMoves
    BY <2>2, <2>3, <2>4, <2>5 DEF TagMoves
  <2> QED BY <1>1, <2>4, <2>5, <2>6 DEF ReadsTag, TagKind
<1>3. CASE ~CharRefInAttrValueState
  BY <1>1, <1>3, NameSteps, ValueSteps DEF TagHandler
<1> QED BY <1>2, <1>3

MarkupKind ==
  \/ BeginsComment \/ BeginsBogusComment \/ BeginsDoctype \/ BeginsCdata
  \/ EmitsCdata \/ LeavesCdata \/ ReadsComment \/ EmitsComment \/ ReadsDoctype \/ EmitsDoctype

LEMMA MarkupDeclarationSteps ==
  ASSUME IInv, MarkupDeclarationState \/ CdataState
  PROVE  MarkupKind
PROOF
<1>1. BuffersOK /\ InputOK
  BY DEF IInv
<1>2. KeepTemporary => KeepsBuffer
  BY <1>1, KeptBuffer
<1>3. CASE MarkupDeclarationState
  <2>1. In("MARKUP_DECLARATION") /\ (Current = "-" => pos < Len(source)) /\ KeepTag
    BY <1>3 DEF MarkupDeclarationState
  <2>2. CASE /\ TwoDashes /\ AdvanceTo(pos + 2) /\ state' = "COMMENT_START"
             /\ UNCHANGED <<shape, buffered, foreign, outputVars, doctype, inCdata>> /\ KeepTemporary
    BY <1>2, <2>1, <2>2 DEF BeginsComment, MarkupKind, KeepDoctypeAndCdata
  <2>3. CASE /\ Current = "DOCTYPE" /\ NextChar("DOCTYPE") /\ KeepTemporary
             /\ doctype' = [doctype EXCEPT !.strings = TRUE] /\ UNCHANGED inCdata
    BY <1>2, <2>1, <2>3 DEF BeginsDoctype, MarkupKind
  <2>4. CASE /\ foreign /\ Current = "[CDATA[" /\ NextChar("CDATA") /\ KeepTemporary
             /\ inCdata' = TRUE /\ UNCHANGED doctype
    BY <1>2, <2>1, <2>4 DEF BeginsCdata, MarkupKind
  <2>5. CASE /\ ~TwoDashes /\ Reconsume("BOGUS_COMMENT") /\ ClearTemporary(<<>>)
             /\ UNCHANGED <<doctype, inCdata>>
    BY <2>1, <2>5 DEF BeginsBogusComment, MarkupKind, KeepDoctypeAndCdata
  <2> QED BY <1>3, <2>2, <2>3, <2>4, <2>5 DEF MarkupDeclarationState
<1>4. CASE CdataState
  <2>1. In("CDATA") /\ KeepsBuffer /\ KeepTag /\ UNCHANGED doctype
    BY <1>2, <1>4 DEF CdataState
  <2> QED BY <1>4, <2>1 DEF CdataState, EmitsCdata, LeavesCdata, MarkupKind, KeepDoctypeAndCdata
<1> QED BY <1>3, <1>4

LEMMA CommentSteps ==
  ASSUME IInv, CommentHandler
  PROVE  MarkupKind
PROOF
<1>1. InputOK /\ temporary \in Seq(Unit) /\ Current \in Unit
  BY CurrentIsAUnit DEF IInv, BuffersOK
<1>2. KeepTag /\ KeepDoctypeAndCdata
  BY DEF CommentHandler, KeepDoctypeAndCdata
<1>3. \A s : s \in CommentStates <=>
        s \in {"BOGUS_COMMENT", "COMMENT_START", "COMMENT_START_DASH", "COMMENT", "COMMENT_END_DASH",
               "COMMENT_END", "COMMENT_END_BANG"}
  BY DEF CommentStates
<1>4. /\ <<>> \in Seq(Unit) /\ <<Current>> \in Seq(Unit) /\ <<"-">> \in Seq(Unit)
      /\ <<"-", "-">> \in Seq(Unit) /\ <<"-", "-", "!">> \in Seq(Unit)
  <2>1. "-" \in Unit /\ "!" \in Unit
    BY DEF Unit
  <2> QED BY <1>1, <2>1
\* The two ways a handler of a comment ends.
<1>5. ASSUME NEW s \in CommentStates, In(s), NEW next \in CommentStates, NextChar(next), Current # EOF,
             s = "BOGUS_COMMENT" <=> next = "BOGUS_COMMENT", next # "COMMENT_START",
             NEW units \in Seq(Unit), AppendTemporary(units),
             HeldIn(s) \o <<Current>> = units \o HeldIn(next),
             next = "COMMENT_START_DASH" => units = <<>> /\ s = "COMMENT_START"
      PROVE  MarkupKind
  <2>1. state = s /\ In(state) /\ state' = next
    BY <1>5, InIsTheState DEF NextChar
  <2> QED BY <1>2, <1>5, <2>1 DEF ReadsComment, MarkupKind
<1>6. ASSUME NEW s \in CommentStates, In(s), Current \in {">", EOF}, EmitComment("DATA"),
             s \in {"COMMENT", "COMMENT_END_DASH"} => Current = EOF
      PROVE  MarkupKind
  <2>1. state = s /\ In(state)
    BY <1>6, InIsTheState
  <2> QED BY <1>2, <1>6, <2>1 DEF EmitsComment, MarkupKind
<1>7. ASSUME NEW s \in CommentStates, NEW units \in SUBSET {">", EOF}, CommentEnds(s, units),
             s \in {"COMMENT", "COMMENT_END_DASH"} => units = {EOF}
      PROVE  MarkupKind
  <2>1. In(s) /\ Current \in {">", EOF} /\ EmitComment("DATA")
        /\ (s \in {"COMMENT", "COMMENT_END_DASH"} => Current = EOF)
    BY <1>7 DEF CommentEnds
  <2> QED BY <1>6, <1>7, <2>1
<1>8. ASSUME NEW s \in CommentStates \ {"BOGUS_COMMENT"}, NEW special, HeldIn(s) \in Seq(Unit),
             CommentGoesOn(s, HeldIn(s), special)
      PROVE  MarkupKind
  <2>1. In(s) /\ Current # EOF /\ NextChar("COMMENT") /\ AppendTemporary(HeldIn(s) \o <<Current>>)
    BY <1>8 DEF CommentGoesOn
  <2>2. HeldIn(s) \o <<Current>> \in Seq(Unit)
    BY <1>4, <1>8
  <2>3. HeldIn(s) \o <<Current>> = (HeldIn(s) \o <<Current>>) \o HeldIn("COMMENT")
    <3>1. HeldIn("COMMENT") = <<>>
      BY DEF HeldIn
    <3> QED BY <2>2, <3>1
  <2> QED BY <1>3, <1>5, <1>8, <2>1, <2>2, <2>3
<1>9. ASSUME NEW s \in CommentStates, NEW next \in CommentStates \ {"COMMENT_START", "BOGUS_COMMENT"},
             In(s), Current # EOF, NextChar(next), KeepTemporary, s # "BOGUS_COMMENT",
             HeldIn(s) \o <<Current>> = HeldIn(next),
             next = "COMMENT_START_DASH" => s = "COMMENT_START"
      PROVE  MarkupKind
  <2>1. temporary \o <<>> = temporary
    BY <1>1
  <2>2. AppendTemporary(<<>>)
    BY <1>9, <2>1 DEF AppendTemporary, KeepTemporary, temporaryVars
  <2>3. HeldIn(next) = <<>> \o HeldIn(next)
    BY <1>3, <1>9 DEF HeldIn
  <2> QED BY <1>4, <1>5, <1>9, <2>2, <2>3
<1> DEFINE H(s) == HeldIn(s)
<1>10. /\ H("BOGUS_COMMENT") = <<>> /\ H("COMMENT_START") = <<>> /\ H("COMMENT") = <<>>
       /\ H("COMMENT_START_DASH") = <<"-">> /\ H("COMMENT_END_DASH") = <<"-">>
       /\ H("COMMENT_END") = <<"-", "-">> /\ H("COMMENT_END_BANG") = <<"-", "-", "!">>
  BY DEF HeldIn
<1> HIDE DEF H
<1>11. /\ "-" # EOF /\ "!" # EOF
       /\ <<>> \o <<"-">> = <<"-">> /\ <<"-">> \o <<"-">> = <<"-", "-">>
       /\ <<"-", "-">> \o <<"!">> = <<"-", "-", "!">>
       /\ <<"-", "-">> \o <<"-">> = <<"-">> \o <<"-", "-">>
       /\ <<>> \o <<Current>> = <<Current>> \o <<>>
  <2>1. "-" \in Unit /\ "!" \in Unit
    BY DEF Unit
  <2>2. <<>> \o <<"-">> = <<"-">> /\ <<>> \o <<Current>> = <<Current>> \o <<>>
    BY <1>4
  <2> QED BY <2>1, <2>2, WrittenOut DEF EOF
<1>12. \A s : H(s) = HeldIn(s)
  BY DEF H
<1>13. CASE BogusCommentState
  <2>1. In("BOGUS_COMMENT")
    BY <1>13 DEF BogusCommentState
  <2>2. CASE Current \notin {">", EOF} /\ NextChar("BOGUS_COMMENT") /\ AppendTemporary(<<Current>>)
    BY <1>3, <1>4, <1>5, <1>10, <1>11, <1>12, <2>1, <2>2
  <2>3. CASE Current \in {">", EOF} /\ EmitComment("DATA")
    BY <1>3, <1>6, <2>1, <2>3
  <2> QED BY <1>13, <2>2, <2>3 DEF BogusCommentState
<1>14. ASSUME NEW s \in {"COMMENT_START", "COMMENT_START_DASH", "COMMENT", "COMMENT_END_DASH"},
              NEW next, Dash(s, next),
              <<s, next>> \in {<<"COMMENT_START", "COMMENT_START_DASH">>, <<"COMMENT_START_DASH", "COMMENT_END">>,
                               <<"COMMENT", "COMMENT_END_DASH">>, <<"COMMENT_END_DASH", "COMMENT_END">>}
       PROVE  MarkupKind
  <2>1. In(s) /\ Current = "-" /\ NextChar(next) /\ KeepTemporary
    BY <1>14 DEF Dash
  <2>2. HeldIn(s) \o <<Current>> = HeldIn(next)
    BY <1>10, <1>11, <1>12, <1>14, <2>1
  <2> QED BY <1>3, <1>9, <1>11, <1>14, <2>1, <2>2
<1>15. CASE CommentStartState
  BY <1>3, <1>4, <1>7, <1>8, <1>10, <1>12, <1>14, <1>15 DEF CommentStartState
<1>16. CASE CommentStartDashState
  BY <1>3, <1>4, <1>7, <1>8, <1>10, <1>12, <1>14, <1>16 DEF CommentStartDashState
<1>17. CASE CommentState
  BY <1>3, <1>4, <1>7, <1>8, <1>10, <1>12, <1>14, <1>17 DEF CommentState
<1>18. CASE CommentEndDashState
  BY <1>3, <1>4, <1>7, <1>8, <1>10, <1>12, <1>14, <1>18 DEF CommentEndDashState
<1>19. CASE CommentEndState
  <2>1. CASE In("COMMENT_END") /\ Current = "!" /\ NextChar("COMMENT_END_BANG") /\ KeepTemporary
    BY <1>3, <1>9, <1>10, <1>11, <1>12, <2>1
  <2>2. CASE In("COMMENT_END") /\ Current = "-" /\ NextChar("COMMENT_END") /\ AppendTemporary(<<"-">>)
    BY <1>3, <1>4, <1>5, <1>10, <1>11, <1>12, <2>2
  <2> QED BY <1>3, <1>4, <1>7, <1>8, <1>10, <1>12, <1>19, <2>1, <2>2 DEF CommentEndState
<1>20. CASE CommentEndBangState
  <2>1. CASE /\ In("COMMENT_END_BANG") /\ Current = "-"
             /\ NextChar("COMMENT_END_DASH") /\ AppendTemporary(<<"-", "-", "!">>)
    BY <1>3, <1>4, <1>5, <1>10, <1>11, <1>12, <2>1
  <2> QED BY <1>3, <1>4, <1>7, <1>8, <1>10, <1>12, <1>20, <2>1 DEF CommentEndBangState
<1> QED BY <1>13, <1>15, <1>16, <1>17, <1>18, <1>19, <1>20 DEF CommentHandler

\* What a doctype is given keeps its type and its strings.
LEMMA DoctypeIsFilled ==
  ASSUME BuffersOK
  PROVE  \A d \in {doctype, WithName, WithPublicId, WithSystemId} :
           /\ d \in DoctypeType /\ d.strings = doctype.strings
           /\ Quirky(d) \in DoctypeType /\ Quirky(d).strings = doctype.strings
PROOF
<1>1. doctype \in DoctypeType /\ temporary \in Seq(Unit)
  BY DEF BuffersOK
<1>2. WithName \in DoctypeType /\ WithName.strings = doctype.strings
  BY <1>1 DEF WithName, DoctypeType
<1>3. WithPublicId \in DoctypeType /\ WithPublicId.strings = doctype.strings
  BY <1>1 DEF WithPublicId, DoctypeType
<1>4. WithSystemId \in DoctypeType /\ WithSystemId.strings = doctype.strings
  BY <1>1 DEF WithSystemId, DoctypeType
<1>5. \A d \in DoctypeType : Quirky(d) \in DoctypeType /\ Quirky(d).strings = d.strings
  BY DEF Quirky, DoctypeType
<1> QED BY <1>1, <1>2, <1>3, <1>4, <1>5

LEMMA DoctypeSteps ==
  ASSUME IInv, DoctypeHandler
  PROVE  MarkupKind
PROOF
<1>1. /\ InputOK /\ BuffersOK
      /\ temporary \in Seq(Unit) /\ scriptData \in Seq(Unit) /\ <<>> \in Seq(Unit) /\ Current \in Unit
      /\ \A u \in Unit : temporary \o <<u>> \in Seq(Unit)
      /\ Lower(Current) \in Unit
      /\ doctype \in DoctypeType
  BY CurrentIsAUnit DEF IInv, BuffersOK
<1>2. KeepTag /\ UNCHANGED inCdata
  BY DEF DoctypeHandler
<1>3. \A s : s \in DoctypeStates <=>
        s \in {"DOCTYPE", "BEFORE_DOCTYPE_NAME", "DOCTYPE_NAME", "AFTER_DOCTYPE_NAME",
               "AFTER_DOCTYPE_PUBLIC_KEYWORD", "BEFORE_DOCTYPE_PUBLIC_ID", "DOCTYPE_PUBLIC_ID_DOUBLE_QUOTED",
               "DOCTYPE_PUBLIC_ID_SINGLE_QUOTED", "AFTER_DOCTYPE_PUBLIC_ID", "BETWEEN_DOCTYPE_PUBLIC_SYSTEM_ID",
               "AFTER_DOCTYPE_SYSTEM_KEYWORD", "BEFORE_DOCTYPE_SYSTEM_ID", "DOCTYPE_SYSTEM_ID_DOUBLE_QUOTED",
               "DOCTYPE_SYSTEM_ID_SINGLE_QUOTED", "AFTER_DOCTYPE_SYSTEM_ID"}
  BY DEF DoctypeStates
<1>4. state \in DoctypeStates => doctype.strings
  BY DEF IInv, OwnedWhileOpen
<1> DEFINE Buffers ==
             /\ mark' \in {mark, pos} /\ temporary' \in Seq(Unit) /\ scriptData' \in Seq(Unit)
             /\ UNCHANGED emitAt
<1>5. KeepTemporary => Buffers
  BY <1>1 DEF KeepTemporary, temporaryVars
<1>6. ClearTemporary(<<>>) => Buffers
  BY <1>1 DEF ClearTemporary
<1>7. \A u \in Unit : AppendTemporary(<<u>>) => Buffers
  BY <1>1 DEF AppendTemporary
<1> HIDE DEF Buffers
\* The two ways a handler of a doctype ends.
<1>8. ASSUME NEW s \in DoctypeStates \union {"BOGUS_DOCTYPE"}, In(s), Buffers,
             NEW next \in DoctypeStates \union {"BOGUS_DOCTYPE"}, NextChar(next) \/ Reconsume(next),
             s = "BOGUS_DOCTYPE" => next = s,
             UNCHANGED doctype \/ (doctype.strings /\ doctype' \in DoctypeType /\ doctype'.strings)
      PROVE  MarkupKind
  <2>1. state = s /\ In(state) /\ state' = next
    BY <1>8, InIsTheState DEF NextChar, Reconsume
  <2> QED BY <1>2, <1>8, <2>1 DEF ReadsDoctype, MarkupKind, Buffers
<1>9. ASSUME NEW s \in DoctypeStates \union {"BOGUS_DOCTYPE"}, In(s), Buffers,
             NEW next \in {"DATA", "BOGUS_DOCTYPE"}, NEW d \in DoctypeType, EmitDoctype(next, d),
             d = doctype \/ (doctype.strings /\ d.strings),
             next = "BOGUS_DOCTYPE" => d.strings
      PROVE  MarkupKind
  <2>1. state = s /\ In(state) /\ state' = next
    BY <1>9, InIsTheState DEF EmitDoctype, Emit
  <2> QED BY <1>2, <1>9, <2>1 DEF EmitsDoctype, MarkupKind, Buffers
<1>10. ASSUME NEW s \in DoctypeStates, In(s)
       PROVE  doctype.strings
  BY <1>4, <1>10, InIsTheState
<1>11. ASSUME NEW s \in DoctypeStates, NEW next \in DoctypeStates, SkipSpace(s, next)
       PROVE  MarkupKind
  <2>1. In(s) /\ NextChar(next) /\ Buffers /\ UNCHANGED doctype
    BY <1>5, <1>11 DEF SkipSpace, KeepDoctype
  <2> QED BY <1>8, <1>3, <1>11, <2>1
<1>12. ASSUME NEW s \in DoctypeStates, NEW units, NEW d \in {doctype, WithName, WithPublicId, WithSystemId},
              DoctypeEnds(s, units, d) \/ DoctypeEnds(s, units, Quirky(d))
       PROVE  MarkupKind
  <2>1. In(s) /\ Buffers /\ doctype.strings
    BY <1>5, <1>10, <1>12 DEF DoctypeEnds
  <2>2. EmitDoctype("DATA", d) \/ EmitDoctype("DATA", Quirky(d))
    BY <1>12 DEF DoctypeEnds
  <2> QED BY <1>1, <1>9, <1>12, <2>1, <2>2, DoctypeIsFilled
<1>13. ASSUME NEW s \in DoctypeStates, NEW a \in DoctypeStates, NEW b \in DoctypeStates, Quote(s, a, b)
       PROVE  MarkupKind
  <2>1. In(s) /\ Buffers /\ UNCHANGED doctype /\ (NextChar(a) \/ NextChar(b))
    BY <1>5, <1>13 DEF Quote, KeepDoctype
  <2> QED BY <1>8, <1>3, <1>13, <2>1
<1>14. ASSUME NEW s \in DoctypeStates, NEW special,
              Bogus(s, special, doctype) \/ Bogus(s, special, Quirky(doctype))
       PROVE  MarkupKind
  <2>1. In(s) /\ Buffers /\ doctype.strings /\ NextChar("BOGUS_DOCTYPE")
    BY <1>5, <1>10, <1>14 DEF Bogus, Otherwise
  <2>2. doctype' = doctype \/ doctype' = Quirky(doctype)
    BY <1>14 DEF Bogus
  <2> QED BY <1>1, <1>8, <1>3, <1>14, <2>1, <2>2, DoctypeIsFilled
<1>15. ASSUME NEW s \in DoctypeStates, NEW special, BogusNow(s, special)
       PROVE  MarkupKind
  <2>1. In(s) /\ Buffers /\ doctype.strings /\ EmitDoctype("BOGUS_DOCTYPE", Quirky(doctype))
    BY <1>5, <1>10, <1>15 DEF BogusNow, Otherwise
  <2> QED BY <1>1, <1>9, <1>15, <2>1, DoctypeIsFilled
<1>16. ASSUME NEW s \in {"BEFORE_DOCTYPE_NAME", "DOCTYPE_NAME"}, DoctypeNameChar(s)
       PROVE  MarkupKind
  <2>1. In(s) /\ Buffers /\ NextChar("DOCTYPE_NAME")
    BY <1>1, <1>7, <1>16 DEF DoctypeNameChar
  <2>2. doctype.strings /\ doctype' \in DoctypeType /\ doctype'.strings
    BY <1>1, <1>3, <1>10, <1>16, <2>1 DEF DoctypeNameChar, DoctypeType
  <2> QED BY <1>3, <1>8, <1>16, <2>1, <2>2
<1>17. ASSUME NEW s \in DoctypeStates, NEW quote, NEW next \in DoctypeStates,
              NEW d \in {WithPublicId, WithSystemId}, DoctypeId(s, quote, next, d)
       PROVE  MarkupKind
  <2>1. In(s) /\ doctype.strings
    BY <1>10, <1>17 DEF DoctypeId
  <2>2. CASE ClearTemporary(<<>>) /\ NextChar(next) /\ doctype' = d
    BY <1>1, <1>3, <1>6, <1>8, <1>17, <2>1, <2>2, DoctypeIsFilled
  <2>3. CASE ClearTemporary(<<>>) /\ EmitDoctype("DATA", Quirky(d))
    BY <1>1, <1>6, <1>9, <1>17, <2>1, <2>3, DoctypeIsFilled
  <2>4. CASE NextChar(s) /\ AppendTemporary(<<Current>>) /\ KeepDoctype
    <3>1. Buffers
      BY <1>1, <1>7, <2>4
    <3> QED BY <1>3, <1>8, <1>17, <2>1, <2>4, <3>1 DEF KeepDoctype
  <2> QED BY <1>17, <2>2, <2>3, <2>4 DEF DoctypeId
<1>18. CASE DoctypeState
  <2>1. CASE Otherwise("DOCTYPE", {}) /\ Reconsume("BEFORE_DOCTYPE_NAME") /\ doctype' = Quirky(doctype)
    <3>1. In("DOCTYPE") /\ Buffers /\ doctype.strings
      BY <1>3, <1>5, <1>10, <2>1 DEF Otherwise
    <3> QED BY <1>1, <1>3, <1>8, <2>1, <3>1, DoctypeIsFilled
  <2> QED BY <1>3, <1>11, <1>12, <1>18, <2>1 DEF DoctypeState
<1>19. CASE BeforeDoctypeNameState
  BY <1>3, <1>11, <1>12, <1>16, <1>19 DEF BeforeDoctypeNameState
<1>20. CASE DoctypeNameState
  <2>1. CASE In("DOCTYPE_NAME") /\ ClearTemporary(<<>>) /\ NextChar("AFTER_DOCTYPE_NAME") /\ doctype' = WithName
    <3>1. doctype.strings
      BY <1>3, <1>10, <2>1
    <3> QED BY <1>1, <1>3, <1>6, <1>8, <2>1, <3>1, DoctypeIsFilled
  <2>2. CASE /\ In("DOCTYPE_NAME") /\ ClearTemporary(<<>>)
             /\ EmitDoctype("DATA", WithName) \/ EmitDoctype("DATA", Quirky(WithName))
    <3>1. doctype.strings
      BY <1>3, <1>10, <2>2
    <3> QED BY <1>1, <1>3, <1>6, <1>9, <2>2, <3>1, DoctypeIsFilled
  <2> QED BY <1>16, <1>20, <2>1, <2>2 DEF DoctypeNameState
<1>21. CASE AfterDoctypeNameState
  <2>1. CASE /\ In("AFTER_DOCTYPE_NAME") /\ KeepTemporary /\ KeepDoctype
             /\ NextChar("AFTER_DOCTYPE_PUBLIC_KEYWORD") \/ NextChar("AFTER_DOCTYPE_SYSTEM_KEYWORD")
    BY <1>3, <1>5, <1>8, <2>1 DEF KeepDoctype
  <2> QED BY <1>3, <1>11, <1>12, <1>14, <1>21, <2>1 DEF AfterDoctypeNameState
<1>22. CASE AfterDoctypePublicKeywordState
  BY <1>3, <1>11, <1>12, <1>13, <1>15, <1>22 DEF AfterDoctypePublicKeywordState, QuotePublic
<1>23. CASE BeforeDoctypePublicIdState
  BY <1>3, <1>11, <1>12, <1>13, <1>15, <1>23 DEF BeforeDoctypePublicIdState, QuotePublic
<1>24. CASE DoctypePublicIdDoubleQuotedState \/ DoctypePublicIdSingleQuotedState
  BY <1>3, <1>17, <1>24 DEF DoctypePublicIdDoubleQuotedState, DoctypePublicIdSingleQuotedState
<1>25. CASE AfterDoctypePublicIdState
  BY <1>3, <1>11, <1>12, <1>13, <1>14, <1>25 DEF AfterDoctypePublicIdState, QuoteSystem
<1>26. CASE BetweenDoctypePublicSystemIdState
  BY <1>3, <1>11, <1>12, <1>13, <1>15, <1>26 DEF BetweenDoctypePublicSystemIdState, QuoteSystem
<1>27. CASE AfterDoctypeSystemKeywordState
  BY <1>3, <1>11, <1>12, <1>13, <1>14, <1>27 DEF AfterDoctypeSystemKeywordState, QuoteSystem
<1>28. CASE BeforeDoctypeSystemIdState
  BY <1>3, <1>11, <1>12, <1>13, <1>14, <1>28 DEF BeforeDoctypeSystemIdState, QuoteSystem
<1>29. CASE DoctypeSystemIdDoubleQuotedState \/ DoctypeSystemIdSingleQuotedState
  BY <1>3, <1>17, <1>29 DEF DoctypeSystemIdDoubleQuotedState, DoctypeSystemIdSingleQuotedState
<1>30. CASE AfterDoctypeSystemIdState
  BY <1>3, <1>11, <1>12, <1>14, <1>30 DEF AfterDoctypeSystemIdState
<1>31. CASE BogusDoctypeState
  <2>1. CASE DoctypeEnds("BOGUS_DOCTYPE", {">", EOF}, doctype)
    <3>1. In("BOGUS_DOCTYPE") /\ Buffers /\ EmitDoctype("DATA", doctype)
      BY <1>5, <2>1 DEF DoctypeEnds
    <3> QED BY <1>1, <1>9, <3>1
  <2>2. CASE In("BOGUS_DOCTYPE") /\ NextChar("BOGUS_DOCTYPE") /\ KeepTemporary /\ KeepDoctype
    BY <1>5, <1>8, <2>2 DEF KeepDoctype
  <2> QED BY <1>31, <2>1, <2>2 DEF BogusDoctypeState
<1> QED BY <1>18, <1>19, <1>20, <1>21, <1>22, <1>23, <1>24, <1>25, <1>26, <1>27, <1>28, <1>29,
           <1>30, <1>31 DEF DoctypeHandler

\* Every step of the tokenizer is of one of these kinds, a token that waited, or the parser's.
LEMMA KindsOfSteps ==
  ASSUME IInv, Next
  PROVE  TextKind \/ OpeningKind \/ TagKind \/ MarkupKind
           \/ EmitBuffered \/ FlushTemporary \/ LookAhead \/ HandleToken
PROOF BY TextSteps, TagSteps, MarkupDeclarationSteps, CommentSteps, DoctypeSteps DEF Next
-----------------------------------------------------------------------------
(***************************************************************************)
(* The parts of the invariant, each kept for reasons of its own.           *)
(***************************************************************************)
ModePart ==
  /\ state \in States /\ foreign \in BOOLEAN /\ inCdata \in BOOLEAN
  /\ inCdata => state = "CDATA"

TagPart ==
  /\ tag \in TagType /\ lastStartTag \in Seq(Unit)
  /\ attrValueState \in ValueTexts \union {None}
  /\ state = "CHAR_REF_IN_ATTR_VALUE" => attrValueState \in ValueTexts
  /\ tag.open <=> state \in TagStates \union EndTagNameStates
  /\ ~tag.open => tag.attributes = <<>>
  /\ ValuesHaveTheirAttribute
  /\ Distinct(tag.attributes)

BufferPart ==
  /\ temporary \in Seq(Unit) /\ scriptData \in Seq(Unit) /\ emitAt \in 0 .. Len(temporary)
  /\ buffered \in {None, "second"}
  /\ PendingText /\ TemporaryBufferIsTheInput

DoctypePart ==
  /\ doctype \in DoctypeType
  /\ state \in DoctypeStates => doctype.strings
  /\ doctype.strings => state \in DoctypeStates \union {"BOGUS_DOCTYPE"}
  /\ DoctypeIsFresh /\ DoctypeGone

OutputPart ==
  /\ OutputOK /\ JustEmitted /\ FirstDoctypeHasStrings
  /\ \A i \in 1 .. Len(tokens) : tokens[i].type = "start" => Distinct(tokens[i].value.attributes)

LEMMA PartsOfInvariant ==
  /\ IInv <=> InputOK /\ ModePart /\ TagPart /\ BufferPart /\ DoctypePart /\ OutputPart
  /\ IInv' <=> InputOK' /\ ModePart' /\ TagPart' /\ BufferPart' /\ DoctypePart' /\ OutputPart'
PROOF
<1>1. IInv <=> InputOK /\ ModePart /\ TagPart /\ BufferPart /\ DoctypePart /\ OutputPart
  BY Zenon DEF IInv, BuffersOK, ModePart, TagPart, BufferPart, DoctypePart, OutputPart, OwnedWhileOpen,
               NamesAreDistinct
<1>2. IInv' <=> InputOK' /\ ModePart' /\ TagPart' /\ BufferPart' /\ DoctypePart' /\ OutputPart'
  BY Zenon DEF IInv, BuffersOK, ModePart, TagPart, BufferPart, DoctypePart, OutputPart, OwnedWhileOpen,
               NamesAreDistinct
<1> QED BY <1>1, <1>2

\* The input: the iterator moves on, and the mark and the token begin where it is or stay.
LEMMA InputIsKept ==
  ASSUME InputOK, Reading, pos' \in 1 .. Len(source'), shape' = shape,
         mark' \in {mark, pos}, tokenStart' \in {tokenStart, pos'}
  PROVE  InputOK'
PROOF BY DEF InputOK, Reading

\* Where no tag is open none is changed.
LEMMA NoTagIsKept ==
  ASSUME TagPart, KeepTag, state \notin TagStates \union EndTagNameStates,
         state' \notin TagStates \union EndTagNameStates
  PROVE  TagPart'
PROOF
<1>1. /\ "CHAR_REF_IN_ATTR_VALUE" \in TagStates
      /\ \A s \in ValueStates \union {"AFTER_ATTR_NAME", "BEFORE_ATTR_NAME", "SELF_CLOSING_START_TAG"} :
           s \in TagStates
  BY DEF TagStates, ValueStates
<1>2. tag' = tag /\ lastStartTag' = lastStartTag /\ attrValueState' = attrValueState
  BY DEF KeepTag, tagVars
<1>3. ValuesHaveTheirAttribute'
  BY <1>1 DEF ValuesHaveTheirAttribute, ValueStates
<1>4. Distinct(tag.attributes)'
  BY <1>2 DEF TagPart, Distinct
<1> QED BY <1>1, <1>2, <1>3, <1>4 DEF TagPart

\* Where no doctype is read none is changed.
LEMMA NoDoctypeIsKept ==
  ASSUME DoctypePart, doctype' = doctype, state \notin DoctypeStates \union {"BOGUS_DOCTYPE"},
         state' \notin DoctypeStates \union {"BOGUS_DOCTYPE"}
  PROVE  DoctypePart'
PROOF BY DEF DoctypePart, DoctypeIsFresh, DoctypeGone

\* The mode.
LEMMA ModeIsKept ==
  ASSUME ModePart, state' \in States, foreign' = foreign, inCdata' = inCdata,
         state # "CDATA" \/ state' = "CDATA"
  PROVE  ModePart'
PROOF BY DEF ModePart

\* The temporary buffer, where nothing is to be given back.
LEMMA BufferIsLeft ==
  ASSUME BufferPart, emitAt' = 0, temporary' \in Seq(Unit), scriptData' \in Seq(Unit),
         buffered' \in {None, "second"}, buffered' # None => state' \in {"DATA", "RCDATA"},
         state' \notin Openers
  PROVE  BufferPart'
PROOF
<1>1. PendingText'
  BY DEF PendingText
<1>2. TemporaryBufferIsTheInput'
  <2>1. state' \notin LtStates \union EndTagOpenStates \union EndTagNameStates
    BY DEF Openers
  <2> QED BY <2>1 DEF TemporaryBufferIsTheInput
<1>3. emitAt' \in 0 .. Len(temporary')
  OBVIOUS
<1> QED BY <1>1, <1>2, <1>3 DEF BufferPart

\* No token, and the parser is through with the last one.
LEMMA NoTokenIsKept ==
  ASSUME OutputPart, Lexing, tokens' = tokens, handled' = handled
  PROVE  OutputPart'
PROOF
<1>1. JustEmitted'
  BY DEF Lexing, JustEmitted, OutputPart, OutputOK
<1>2. OutputOK' /\ FirstDoctypeHasStrings'
  BY DEF OutputPart, OutputOK, FirstDoctypeHasStrings
<1>3. ASSUME NEW i \in 1 .. Len(tokens'), tokens'[i].type = "start"
      PROVE  Distinct(tokens'[i].value.attributes)
  BY <1>3 DEF OutputPart
<1> QED BY <1>1, <1>2, <1>3 DEF OutputPart

\* A token.
LEMMA TokenIsKept ==
  ASSUME OutputPart, Lexing, NEW type \in TokenTypes, NEW value \in TokenValue, Finish(type, value),
         tokenStart \in Nat, pos' \in Nat,
         type = "start" => /\ state' = "DATA" /\ emitAt' = 0 /\ buffered' = None
                           /\ Distinct(value.attributes),
         type = "doctype" /\ ~value.strings =>
           /\ value = NoDoctype
           /\ \E j \in 1 .. Len(tokens) : tokens[j].type = "doctype" /\ tokens[j].value.strings
  PROVE  OutputPart'
PROOF
<1> DEFINE token == [type |-> type, value |-> value, from |-> tokenStart, to |-> pos', then |-> None]
<1>1. tokens' = Append(tokens, token) /\ tokenStart' = pos' /\ handled' = handled
  BY DEF Finish
<1>2. token \in Token /\ token.type = type /\ token.value = value
  BY DEF Token
<1>3. tokens \in Seq(Token) /\ handled = Len(tokens)
  BY DEF OutputPart, OutputOK, Lexing
<1> HIDE DEF token
<1>4. /\ tokens' \in Seq(Token) /\ Len(tokens') = Len(tokens) + 1
      /\ \A i \in 1 .. Len(tokens) : tokens'[i] = tokens[i]
      /\ tokens'[Len(tokens) + 1] = token
  BY <1>1, <1>2, <1>3, Appended
<1>5. OutputOK'
  BY <1>1, <1>3, <1>4 DEF OutputOK
<1>6. JustEmitted'
  BY <1>1, <1>2, <1>4 DEF JustEmitted, Last
<1>7. FirstDoctypeHasStrings'
  <2> SUFFICES ASSUME NEW i \in 1 .. Len(tokens'), tokens'[i].type = "doctype", ~tokens'[i].value.strings
               PROVE  /\ tokens'[i].value = NoDoctype
                      /\ \E j \in 1 .. i - 1 : tokens'[j].type = "doctype" /\ tokens'[j].value.strings
    BY DEF FirstDoctypeHasStrings
  <2>1. CASE i \in 1 .. Len(tokens)
    <3>1. tokens'[i] = tokens[i]
      BY <1>4, <2>1
    <3>2. tokens[i].value = NoDoctype
      BY <2>1, <3>1 DEF OutputPart, FirstDoctypeHasStrings
    <3>3. PICK j \in 1 .. i - 1 : tokens[j].type = "doctype" /\ tokens[j].value.strings
      BY <2>1, <3>1 DEF OutputPart, FirstDoctypeHasStrings
    <3>4. tokens'[j] = tokens[j]
      BY <1>3, <1>4, <2>1
    <3> QED BY <3>1, <3>2, <3>3, <3>4
  <2>2. CASE i = Len(tokens) + 1
    <3>1. tokens'[i] = token
      BY <1>4, <2>2
    <3>2. PICK j \in 1 .. Len(tokens) : tokens[j].type = "doctype" /\ tokens[j].value.strings
      BY <1>2, <3>1
    <3>3. tokens'[j] = tokens[j] /\ j \in 1 .. i - 1
      BY <1>3, <1>4, <2>2
    <3> QED BY <1>2, <3>1, <3>2, <3>3
  <2> QED BY <1>3, <1>4, <2>1, <2>2
<1>8. ASSUME NEW i \in 1 .. Len(tokens'), tokens'[i].type = "start"
      PROVE  Distinct(tokens'[i].value.attributes)
  <2>1. CASE i \in 1 .. Len(tokens)
    BY <1>4, <1>8, <2>1 DEF OutputPart
  <2>2. CASE i = Len(tokens) + 1
    BY <1>2, <1>4, <1>8, <2>2
  <2> QED BY <1>3, <1>4, <2>1, <2>2
<1> QED BY <1>5, <1>6, <1>7, <1>8 DEF OutputPart

-----------------------------------------------------------------------------
(***************************************************************************)
(* What the operations the handlers are made of do to the parts.           *)
(***************************************************************************)
LEMMA HandlerReadsOn ==
  ASSUME IInv, In(state), NEW next, NextChar(next) \/ Reconsume(next)
  PROVE  /\ Reading /\ pos' \in 1 .. Len(source') /\ shape' = shape
         /\ (NextChar(next) => pos' = IF Current = EOF THEN pos ELSE pos + 1)
         /\ state' = next /\ foreign' = foreign
         /\ UNCHANGED <<tokens, handled, tokenStart>>
         /\ buffered = None /\ buffered' = None /\ emitAt = 0 /\ Lexing
         /\ OutputPart'
PROOF
<1>1. InputOK /\ OutputPart
  BY PartsOfInvariant
<1>2. buffered = None /\ emitAt = 0 /\ Lexing
  BY DEF In
<1>3. CASE NextChar(next)
  <2>1. Advance /\ state' = next /\ UNCHANGED <<shape, buffered, foreign, tokenStart, tokens, handled>>
    BY <1>3 DEF NextChar, outputVars
  <2>2. OutputPart'
    BY <1>1, <1>2, <2>1, NoTokenIsKept
  <2> QED BY <1>1, <1>2, <2>1, <2>2, AdvanceReads
<1>4. CASE Reconsume(next) /\ ~NextChar(next)
  <2>1. state' = next /\ UNCHANGED <<shape, source, pos, buffered, foreign, tokenStart, tokens, handled>>
    BY <1>4 DEF Reconsume, outputVars, inputVars
  <2>2. OutputPart'
    BY <1>1, <1>2, <2>1, NoTokenIsKept
  <2>3. Reading /\ pos' \in 1 .. Len(source')
    BY <1>1, <2>1 DEF Reading, InputOK
  <2> QED BY <1>2, <1>4, <2>1, <2>2, <2>3
<1> QED BY <1>3, <1>4

LEMMA HandlerEmits ==
  ASSUME IInv, In(state), NEW next, NEW type, NEW value, Emit(next, type, value)
  PROVE  /\ Reading /\ pos' \in 1 .. Len(source') /\ pos' \in Nat /\ shape' = shape
         /\ pos' = IF Current = EOF THEN pos ELSE pos + 1
         /\ state' = next /\ foreign' = foreign /\ tokenStart' = pos'
         /\ buffered = None /\ buffered' = None /\ emitAt = 0 /\ Lexing
         /\ Finish(type, value) /\ tokenStart \in Nat
PROOF
<1>1. InputOK
  BY PartsOfInvariant
<1>2. buffered = None /\ emitAt = 0 /\ Lexing
  BY DEF In
<1>3. Advance /\ state' = next /\ Finish(type, value) /\ buffered' = buffered
  BY DEF Emit
<1>4. Reading /\ pos' \in 1 .. Len(source') /\ pos' = IF Current = EOF THEN pos ELSE pos + 1
  BY <1>1, <1>3, AdvanceReads
<1>5. shape' = shape /\ foreign' = foreign /\ tokenStart' = pos'
  BY <1>3 DEF Finish
<1>6. tokenStart \in Nat /\ pos' \in Nat
  BY <1>1, <1>4 DEF InputOK, Reading
<1> QED BY <1>2, <1>3, <1>4, <1>5, <1>6

\* A character is a token of its own.
LEMMA HandlerEmitsChar ==
  ASSUME IInv, In(state), NEW next, EmitCurrentChar(next)
  PROVE  /\ Reading /\ pos' \in 1 .. Len(source') /\ shape' = shape
         /\ pos' = IF Current = EOF THEN pos ELSE pos + 1
         /\ state' = next /\ foreign' = foreign /\ tokenStart' = pos'
         /\ buffered = None /\ buffered' = None /\ emitAt = 0
         /\ OutputPart'
PROOF
<1> DEFINE type == CharType(Current)
<1>1. type \in {"eof", "cdata", "whitespace", "character"}
  BY DEF CharType
<1>2. Emit(next, type, Current)
  BY DEF EmitCurrentChar
<1>3. type \in TokenTypes /\ type # "start" /\ type # "doctype"
  BY <1>1 DEF TokenTypes
<1> HIDE DEF type
<1>4. OutputPart /\ InputOK
  BY PartsOfInvariant
<1>5. Current \in TokenValue
  BY <1>4, CurrentIsAUnit DEF TokenValue
<1>6. /\ Reading /\ pos' \in 1 .. Len(source') /\ pos' \in Nat /\ shape' = shape
      /\ pos' = IF Current = EOF THEN pos ELSE pos + 1
      /\ state' = next /\ foreign' = foreign /\ tokenStart' = pos'
      /\ buffered = None /\ buffered' = None /\ emitAt = 0 /\ Lexing
      /\ Finish(type, Current) /\ tokenStart \in Nat
  BY <1>2, HandlerEmits
<1>7. OutputPart'
  BY <1>3, <1>4, <1>5, <1>6, TokenIsKept
<1> QED BY <1>6, <1>7

\* A unit that was read may go to the temporary buffer.
LEMMA BufferGrows ==
  ASSUME InputOK, BufferPart, emitAt = 0, state \in Openers, Current # EOF,
         Reading, pos' = pos + 1, AppendTemporary(<<Current>>), buffered' = None,
         \/ state \in LtStates /\ Current = "/" /\ state' \in EndTagOpenStates
         \/ state \in EndTagOpenStates \union EndTagNameStates /\ state' \in EndTagNameStates
  PROVE  BufferPart'
PROOF
<1>1. temporary \in Seq(Unit) /\ Current \in Unit /\ <<Current>> \in Seq(Unit)
  BY CurrentIsAUnit DEF BufferPart
<1>2. /\ temporary' \in Seq(Unit) /\ Len(temporary') = Len(temporary) + 1
      /\ \A i \in 1 .. Len(temporary) : temporary'[i] = temporary[i]
      /\ temporary'[Len(temporary) + 1] = Current
  <2>1. temporary' = temporary \o <<Current>>
    BY DEF AppendTemporary
  <2> QED BY <1>1, <2>1, Joined
<1>3. mark' = mark /\ emitAt' = 0 /\ scriptData' = scriptData
  BY DEF AppendTemporary
<1>4. /\ pos = mark + Len(temporary)
      /\ \A i \in 1 .. Len(temporary) : temporary[i] = source[mark + i - 1] /\ temporary[i] # EOF
  BY DEF BufferPart, TemporaryBufferIsTheInput, PendingText, Openers
<1>5. state' \in EndTagOpenStates \union EndTagNameStates /\ state' \in Openers
      /\ state' \notin LtStates
  BY ClassesAreDisjoint DEF Openers
<1>6. ASSUME NEW i \in 1 .. Len(temporary')
      PROVE  temporary'[i] = source'[mark' + i - 1] /\ temporary'[i] # EOF
  <2>1. CASE i \in 1 .. Len(temporary)
    <3>1. mark + i - 1 \in 1 .. Len(source)
      BY <1>1, <1>4, <2>1 DEF InputOK
    <3> QED BY <1>2, <1>3, <1>4, <2>1, <3>1 DEF Reading
  <2>2. CASE i = Len(temporary) + 1
    <3>1. mark + i - 1 = pos /\ pos \in 1 .. Len(source)
      BY <1>1, <1>4, <2>2 DEF InputOK
    <3> QED BY <1>2, <1>3, <2>2, <3>1 DEF Reading, Current
  <2> QED BY <1>1, <1>2, <2>1, <2>2
<1>7. PendingText'
  BY <1>3, <1>6 DEF PendingText
<1>8. state' \in EndTagOpenStates => temporary' = <<"<", "/">>
  <2> SUFFICES ASSUME state' \in EndTagOpenStates PROVE temporary' = <<"<", "/">>
    OBVIOUS
  <2>1. state \in LtStates /\ Current = "/" /\ temporary = <<"<">>
    BY ClassesAreDisjoint DEF BufferPart, TemporaryBufferIsTheInput
  <2>2. "<" \in Unit /\ "/" \in Unit
    BY DEF Unit
  <2> QED BY <2>1, <2>2, WrittenOut DEF AppendTemporary
<1>9. state' \in EndTagNameStates => Len(temporary') > 2
  <2> SUFFICES ASSUME state' \in EndTagNameStates PROVE Len(temporary') > 2
    OBVIOUS
  <2>1. state \in EndTagOpenStates => Len(temporary) = 2
    BY DEF BufferPart, TemporaryBufferIsTheInput
  <2>2. state \in EndTagNameStates => Len(temporary) > 2
    BY DEF BufferPart, TemporaryBufferIsTheInput
  <2> QED BY <1>1, <1>2, <2>1, <2>2, ClassesAreDisjoint
<1>10. TemporaryBufferIsTheInput'
  <2>1. pos' = mark' + Len(temporary')
    BY <1>1, <1>2, <1>3, <1>4 DEF InputOK
  <2> QED BY <1>3, <1>5, <1>6, <1>8, <1>9, <2>1 DEF TemporaryBufferIsTheInput
<1>11. emitAt' \in 0 .. Len(temporary') /\ scriptData' \in Seq(Unit)
  BY <1>2, <1>3 DEF BufferPart
<1> QED BY <1>2, <1>7, <1>10, <1>11 DEF BufferPart

-----------------------------------------------------------------------------
(***************************************************************************)
(* Each kind of step keeps the invariant.                                  *)
(***************************************************************************)

\* Where neither a tag nor a doctype is read, before and after the step.
Outside(s) == s \in Text \union LtStates \union EndTagOpenStates \union CommentStates
                      \union {"MARKUP_DECLARATION", "CDATA"}

LEMMA OutsideIsKept ==
  ASSUME IInv, Outside(state), Outside(state'), KeepTag, doctype' = doctype
  PROVE  TagPart' /\ DoctypePart' /\ state' \in States
PROOF
<1>1. TagPart /\ DoctypePart
  BY PartsOfInvariant
<1>2. \A s : Outside(s) => s \notin TagStates \union EndTagNameStates
  BY ClassesAreDisjoint DEF Outside, Openers
<1>3. \A s : Outside(s) => s \notin DoctypeStates \union {"BOGUS_DOCTYPE"}
  BY ClassesAreDisjoint DEF Outside, Openers
<1>4. \A s : Outside(s) => s \in States
  BY DEF Outside, States, Text
<1> QED BY <1>1, <1>2, <1>3, <1>4, NoTagIsKept, NoDoctypeIsKept

LEMMA KeptByText ==
  ASSUME IInv,
         \/ EmitsText \/ MeetsReference \/ SwitchesScript \/ ScriptEnds
  PROVE  IInv'
PROOF
<1>1. InputOK /\ ModePart /\ BufferPart /\ In(state)
  BY PartsOfInvariant DEF EmitsText, MeetsReference, SwitchesScript, ScriptEnds
<1>2. state \in Text /\ state' \in Text /\ Outside(state) /\ Outside(state')
      /\ KeepTag /\ doctype' = doctype /\ inCdata' = inCdata
      /\ mark' = mark /\ temporary' = temporary /\ emitAt' = emitAt /\ scriptData' \in Seq(Unit)
  <2>1. state \in Text /\ state' \in Text
    BY DEF EmitsText, MeetsReference, SwitchesScript, ScriptEnds, Text, DataStates
  <2> QED
    BY <2>1 DEF EmitsText, MeetsReference, SwitchesScript, ScriptEnds, Outside, KeepsBuffer, KeepDoctypeAndCdata
<1>3. TagPart' /\ DoctypePart' /\ state' \in States
  BY <1>2, OutsideIsKept
<1>4. /\ Reading /\ pos' \in 1 .. Len(source') /\ shape' = shape /\ foreign' = foreign
      /\ tokenStart' \in {tokenStart, pos'} /\ buffered' = None /\ emitAt = 0 /\ OutputPart'
  <2>1. CASE EmitsText
    BY <1>1, <2>1, HandlerEmitsChar DEF EmitsText
  <2>2. CASE MeetsReference \/ SwitchesScript \/ ScriptEnds
    <3>1. NextChar("DATA") \/ Reconsume(state')
      BY <2>2 DEF MeetsReference, SwitchesScript, ScriptEnds
    <3> QED BY <1>1, <3>1, HandlerReadsOn
  <2> QED BY <2>1, <2>2
<1>5. state # "CDATA" /\ state' \notin Openers
  BY <1>2, ClassesAreDisjoint
<1>6. BufferPart'
  BY <1>1, <1>2, <1>4, <1>5, BufferIsLeft DEF BufferPart
<1>7. InputOK' /\ ModePart'
  BY <1>1, <1>2, <1>3, <1>4, <1>5, InputIsKept, ModeIsKept
<1> QED BY <1>3, <1>4, <1>6, <1>7, PartsOfInvariant

LEMMA KeptByEmitsReference ==
  ASSUME IInv, EmitsReference
  PROVE  IInv'
PROOF
<1>1. InputOK /\ ModePart /\ BufferPart /\ OutputPart /\ In(state)
  BY PartsOfInvariant DEF EmitsReference
<1>2. state \in Text /\ state' \in {"DATA", "RCDATA"} /\ Outside(state) /\ Outside(state')
      /\ KeepTag /\ doctype' = doctype /\ inCdata' = inCdata
      /\ mark' = pos /\ temporary' = temporary /\ emitAt' = emitAt /\ scriptData' = scriptData
  <2>1. state \in Text /\ state' \in Text /\ state' \in {"DATA", "RCDATA"}
    BY DEF EmitsReference, Text, DataStates
  <2> QED
    BY <2>1 DEF EmitsReference, EmitCharRef, Outside, KeepDoctypeAndCdata
<1>3. TagPart' /\ DoctypePart' /\ state' \in States
  BY <1>2, OutsideIsKept
<1>4. Advance /\ Finish("character", Current) /\ buffered' \in {None, "second"} /\ emitAt = 0 /\ Lexing
  BY <1>1 DEF EmitsReference, EmitCharRef, Emit, In
<1>5. /\ Reading /\ pos' \in 1 .. Len(source') /\ pos' \in Nat /\ tokenStart \in Nat
      /\ shape' = shape /\ foreign' = foreign /\ tokenStart' = pos'
  BY <1>1, <1>4, AdvanceReads DEF Finish, Reading, InputOK
<1>6. OutputPart'
  <2>1. Current \in TokenValue /\ "character" \in TokenTypes
    BY <1>1, CurrentIsAUnit DEF TokenValue, TokenTypes
  <2> QED BY <1>1, <1>4, <1>5, <2>1, TokenIsKept
<1>7. state # "CDATA" /\ state' \notin Openers
  <2>1. state' \in Text
    BY <1>2 DEF Text, DataStates
  <2> QED BY <1>2, <2>1, ClassesAreDisjoint
<1>8. BufferPart'
  BY <1>1, <1>2, <1>4, <1>7, BufferIsLeft DEF BufferPart
<1>9. InputOK' /\ ModePart'
  BY <1>1, <1>2, <1>3, <1>5, <1>7, InputIsKept, ModeIsKept
<1> QED BY <1>3, <1>6, <1>8, <1>9, PartsOfInvariant

LEMMA KeptByOpensTag ==
  ASSUME IInv, OpensTag
  PROVE  IInv'
PROOF
<1>1. InputOK /\ ModePart /\ In(state) /\ NextChar(state')
  BY PartsOfInvariant DEF OpensTag
<1>2. state \in Text /\ state' \in LtStates /\ Outside(state) /\ Outside(state')
      /\ KeepTag /\ doctype' = doctype /\ inCdata' = inCdata
      /\ mark' = pos /\ temporary' = <<"<">> /\ emitAt' = emitAt /\ scriptData' = <<>> /\ Current = "<"
  BY DEF OpensTag, ClearTemporary, Outside, KeepDoctypeAndCdata
<1>3. TagPart' /\ DoctypePart' /\ state' \in States
  BY <1>2, OutsideIsKept
<1>4. /\ Reading /\ pos' \in 1 .. Len(source') /\ shape' = shape /\ foreign' = foreign
      /\ tokenStart' \in {tokenStart, pos'} /\ buffered' = None /\ emitAt' = 0 /\ OutputPart'
      /\ pos' = pos + 1
  BY <1>1, <1>2, HandlerReadsOn DEF EOF
<1>5. state # "CDATA" /\ state' \notin EndTagOpenStates \union EndTagNameStates
  BY <1>2, ClassesAreDisjoint
<1>6. BufferPart'
  <2>1. "<" \in Unit
    BY DEF Unit
  <2>2. temporary' \in Seq(Unit) /\ Len(temporary') = 1 /\ temporary'[1] = "<" /\ scriptData' \in Seq(Unit)
    BY <1>2, <2>1
  <2>3. source'[mark' + 1 - 1] = "<"
    BY <1>1, <1>2, <1>4 DEF Reading, InputOK, Current
  <2>4. PendingText'
    BY <1>4, <2>2 DEF PendingText, EOF
  <2>5. TemporaryBufferIsTheInput'
    BY <1>1, <1>2, <1>4, <1>5, <2>2, <2>3 DEF TemporaryBufferIsTheInput, InputOK
  <2> QED BY <1>4, <2>2, <2>4, <2>5 DEF BufferPart
<1>7. InputOK' /\ ModePart'
  BY <1>1, <1>2, <1>3, <1>4, <1>5, InputIsKept, ModeIsKept
<1> QED BY <1>3, <1>4, <1>6, <1>7, PartsOfInvariant

LEMMA KeptByReadsSlash ==
  ASSUME IInv, ReadsSlash
  PROVE  IInv'
PROOF
<1>1. InputOK /\ ModePart /\ BufferPart /\ In(state) /\ NextChar(state')
  BY PartsOfInvariant DEF ReadsSlash
<1>2. state \in LtStates /\ state' \in EndTagOpenStates /\ Outside(state) /\ Outside(state')
      /\ KeepTag /\ doctype' = doctype /\ inCdata' = inCdata
      /\ mark' = mark /\ AppendTemporary(<<Current>>) /\ Current = "/" /\ Current # EOF
  BY DEF ReadsSlash, AppendTemporary, Outside, KeepDoctypeAndCdata, EOF
<1>3. TagPart' /\ DoctypePart' /\ state' \in States
  BY <1>2, OutsideIsKept
<1>4. /\ Reading /\ pos' \in 1 .. Len(source') /\ shape' = shape /\ foreign' = foreign
      /\ tokenStart' \in {tokenStart, pos'} /\ buffered' = None /\ emitAt = 0 /\ OutputPart'
      /\ pos' = pos + 1
  BY <1>1, <1>2, HandlerReadsOn
<1>5. state # "CDATA" /\ state \in Openers
  BY <1>2, ClassesAreDisjoint DEF Openers
<1>6. BufferPart'
  BY <1>1, <1>2, <1>4, <1>5, BufferGrows
<1>7. InputOK' /\ ModePart'
  BY <1>1, <1>2, <1>3, <1>4, <1>5, InputIsKept, ModeIsKept
<1> QED BY <1>3, <1>4, <1>6, <1>7, PartsOfInvariant

LEMMA KeptByBeginnings ==
  ASSUME IInv, BeginsMarkup \/ BeginsBogus \/ SkipsEmptyEnd
  PROVE  IInv'
PROOF
<1>1. /\ InputOK /\ ModePart /\ BufferPart
      /\ state \in {"TAG_OPEN", "END_TAG_OPEN"} /\ In(state)
      /\ state' \in {"MARKUP_DECLARATION", "BOGUS_COMMENT", "DATA"} /\ NextChar(state')
  BY PartsOfInvariant, InIsTheState DEF BeginsMarkup, BeginsBogus, SkipsEmptyEnd, NextChar
<1>2. Outside(state) /\ Outside(state')
      /\ KeepTag /\ doctype' = doctype /\ inCdata' = inCdata
      /\ mark' \in {mark, pos} /\ temporary' \in Seq(Unit) /\ scriptData' \in Seq(Unit) /\ emitAt' = emitAt
  <2>1. state \in LtStates \union EndTagOpenStates
        /\ state' \in Text \union CommentStates \union {"MARKUP_DECLARATION"}
    BY <1>1 DEF LtStates, EndTagOpenStates, Text, DataStates, CommentStates
  <2>2. temporary \in Seq(Unit) /\ <<Current>> \in Seq(Unit) /\ <<>> \in Seq(Unit)
    BY <1>1, CurrentIsAUnit DEF BufferPart
  <2> QED
    BY <2>1, <2>2 DEF BeginsMarkup, BeginsBogus, SkipsEmptyEnd, ClearTemporary, Outside, KeepsBuffer,
                      KeepDoctypeAndCdata
<1>3. TagPart' /\ DoctypePart' /\ state' \in States
  BY <1>2, OutsideIsKept
<1>4. /\ Reading /\ pos' \in 1 .. Len(source') /\ shape' = shape /\ foreign' = foreign
      /\ tokenStart' \in {tokenStart, pos'} /\ buffered' = None /\ emitAt = 0 /\ OutputPart'
  BY <1>1, HandlerReadsOn
<1>5. state # "CDATA" /\ state' \notin Openers
  <2>1. state' \in Text \union CommentStates \union {"MARKUP_DECLARATION"}
    BY <1>1 DEF Text, DataStates, CommentStates
  <2> QED BY <1>1, <2>1, ClassesAreDisjoint
<1>6. BufferPart'
  BY <1>1, <1>2, <1>4, <1>5, BufferIsLeft
<1>7. InputOK' /\ ModePart'
  BY <1>1, <1>2, <1>3, <1>4, <1>5, InputIsKept, ModeIsKept
<1> QED BY <1>3, <1>4, <1>6, <1>7, PartsOfInvariant

-----------------------------------------------------------------------------
(***************************************************************************)
(* Tags.                                                                   *)
(***************************************************************************)

\* Whatever a handler makes of the tag is a tag.
LEMMA TagOperations ==
  ASSUME InputOK, tag \in TagType
  PROVE  /\ Abandoned \in TagType /\ ~Abandoned.open /\ Abandoned.attributes = <<>>
         /\ WithTagName \in TagType /\ WithTagName.buffer = <<>>
         /\ WithTagName.open = tag.open /\ WithTagName.attributes = tag.attributes
         /\ \A b \in BOOLEAN :
              NewTag(b) \in TagType /\ NewTag(b).open /\ NewTag(b).attributes = <<>>
         /\ \A u \in Unit :
              /\ WithChar(u) \in TagType /\ WithChar(u).open = tag.open
              /\ WithChar(u).attributes = tag.attributes /\ WithChar(u).dropNext = tag.dropNext
         /\ \A units \in Seq(Unit) :
              LET t == [tag EXCEPT !.buffer = @ \o units] IN
              /\ t \in TagType /\ t.open = tag.open
              /\ t.attributes = tag.attributes /\ t.dropNext = tag.dropNext
PROOF
<1>1. Lower(Current) \in Unit /\ <<Lower(Current)>> \in Seq(Unit) /\ <<>> \in Seq(Unit) /\ <<>> \in Seq(Attribute)
  BY CurrentIsAUnit
<1>2. Abandoned \in TagType /\ ~Abandoned.open /\ Abandoned.attributes = <<>>
  BY <1>1 DEF Abandoned, TagType
<1>3. /\ WithTagName \in TagType /\ WithTagName.buffer = <<>>
      /\ WithTagName.open = tag.open /\ WithTagName.attributes = tag.attributes
  BY <1>1 DEF WithTagName, TagType
<1>4. \A b \in BOOLEAN : NewTag(b) \in TagType /\ NewTag(b).open /\ NewTag(b).attributes = <<>>
  BY <1>1 DEF NewTag, NoTag, TagType
<1>5. ASSUME NEW u \in Unit
      PROVE  /\ WithChar(u) \in TagType /\ WithChar(u).open = tag.open
             /\ WithChar(u).attributes = tag.attributes /\ WithChar(u).dropNext = tag.dropNext
  <2> DEFINE b == Append(tag.buffer, u)
  <2>1. b \in Seq(Unit)
    BY DEF TagType
  <2>2. WithChar(u) = [tag EXCEPT !.buffer = b]
    BY DEF WithChar
  <2> HIDE DEF b
  <2> QED BY <2>1, <2>2 DEF TagType
<1>6. ASSUME NEW units \in Seq(Unit)
      PROVE  LET t == [tag EXCEPT !.buffer = @ \o units] IN
             /\ t \in TagType /\ t.open = tag.open
             /\ t.attributes = tag.attributes /\ t.dropNext = tag.dropNext
  <2> DEFINE b == tag.buffer \o units
  <2>1. b \in Seq(Unit)
    BY DEF TagType
  <2>2. [tag EXCEPT !.buffer = @ \o units] = [tag EXCEPT !.buffer = b]
    OBVIOUS
  <2> HIDE DEF b
  <2>3. LET t == [tag EXCEPT !.buffer = b] IN
          /\ t \in TagType /\ t.open = tag.open
          /\ t.attributes = tag.attributes /\ t.dropNext = tag.dropNext
    BY <2>1 DEF TagType
  <2> QED BY <2>2, <2>3
<1> QED BY <1>2, <1>3, <1>4, <1>5, <1>6

\* A name is new, or its value will be dropped.
LEMMA NameIsFinished ==
  ASSUME tag \in TagType, Distinct(tag.attributes)
  PROVE  /\ WithAttributeName \in TagType /\ WithAttributeName.open = tag.open
         /\ WithAttributeName.buffer = <<>>
         /\ Distinct(WithAttributeName.attributes)
         /\ WithAttributeName.attributes # <<>>
         /\ \/ WithAttributeName.dropNext
            \/ WithAttributeName.attributes[Len(WithAttributeName.attributes)].value = <<>>
PROOF
<1>1. <<>> \in Seq(Unit) /\ tag.attributes \in Seq(Attribute) /\ tag.buffer \in Seq(Unit)
  BY DEF TagType
<1>2. CASE \E a \in 1 .. Len(tag.attributes) : tag.attributes[a].name = tag.buffer
  <2>1. WithAttributeName = [tag EXCEPT !.dropNext = TRUE, !.buffer = <<>>]
    BY <1>2 DEF WithAttributeName
  <2>2. tag.attributes # <<>>
    BY <1>2
  <2>3. /\ WithAttributeName \in TagType /\ WithAttributeName.open = tag.open
        /\ WithAttributeName.buffer = <<>> /\ WithAttributeName.dropNext
        /\ WithAttributeName.attributes = tag.attributes
    BY <1>1, <2>1 DEF TagType
  <2> QED BY <2>2, <2>3
<1>3. CASE ~\E a \in 1 .. Len(tag.attributes) : tag.attributes[a].name = tag.buffer
  <2> DEFINE new == [name |-> tag.buffer, value |-> <<>>]
             all == Append(tag.attributes, new)
  <2>1. new \in Attribute /\ new.name = tag.buffer /\ new.value = <<>>
    BY <1>1 DEF Attribute
  <2>2. WithAttributeName = [tag EXCEPT !.dropNext = FALSE, !.buffer = <<>>, !.attributes = all]
    BY <1>3 DEF WithAttributeName
  <2> HIDE DEF new
  <2>3. /\ all \in Seq(Attribute) /\ all # <<>> /\ Len(all) = Len(tag.attributes) + 1
        /\ \A i \in 1 .. Len(tag.attributes) : all[i] = tag.attributes[i]
        /\ all[Len(tag.attributes) + 1] = new
    BY <1>1, <2>1, Appended
  <2> HIDE DEF all
  <2>4. /\ WithAttributeName \in TagType /\ WithAttributeName.open = tag.open
        /\ WithAttributeName.buffer = <<>> /\ WithAttributeName.attributes = all
    BY <1>1, <2>2, <2>3 DEF TagType
  <2>5. ASSUME NEW a \in 1 .. Len(all), NEW b \in 1 .. Len(all), all[a].name = all[b].name
        PROVE  a = b
    <3>1. CASE a \in 1 .. Len(tag.attributes) /\ b \in 1 .. Len(tag.attributes)
      BY <2>3, <2>5, <3>1 DEF Distinct
    <3>2. CASE a = Len(tag.attributes) + 1 /\ b \in 1 .. Len(tag.attributes)
      BY <1>3, <2>1, <2>3, <2>5, <3>2
    <3>3. CASE b = Len(tag.attributes) + 1 /\ a \in 1 .. Len(tag.attributes)
      BY <1>3, <2>1, <2>3, <2>5, <3>3
    <3> QED BY <1>1, <2>3, <3>1, <3>2, <3>3
  <2>6. Distinct(all)
    BY <2>5 DEF Distinct
  <2> QED BY <2>1, <2>3, <2>4, <2>6
<1> QED BY <1>2, <1>3

\* A value goes to the last name, and the names stay what they are.
LEMMA ValueIsFinished ==
  ASSUME tag \in TagType, tag.attributes # <<>>, Distinct(tag.attributes)
  PROVE  /\ WithAttributeValue \in TagType /\ WithAttributeValue.open = tag.open
         /\ WithAttributeValue.buffer = <<>>
         /\ Distinct(WithAttributeValue.attributes)
PROOF
<1>1. <<>> \in Seq(Unit) /\ tag.attributes \in Seq(Attribute) /\ tag.buffer \in Seq(Unit)
  BY DEF TagType
<1>2. CASE tag.dropNext
  <2>1. WithAttributeValue = [tag EXCEPT !.dropNext = FALSE, !.buffer = <<>>]
    BY <1>2 DEF WithAttributeValue
  <2> QED BY <1>1, <2>1 DEF TagType
<1>3. CASE ~tag.dropNext
  <2> DEFINE n == Len(tag.attributes)
             last == [tag.attributes[n] EXCEPT !.value = tag.buffer]
             all == [tag.attributes EXCEPT ![n] = last]
  <2>1. WithAttributeValue = [tag EXCEPT !.attributes = all, !.buffer = <<>>]
    BY <1>3 DEF WithAttributeValue
  <2>2. n \in 1 .. Len(tag.attributes) /\ tag.attributes[n] \in Attribute
    BY <1>1
  <2>3. last \in Attribute /\ last.name = tag.attributes[n].name
    BY <1>1, <2>2 DEF Attribute
  <2> HIDE DEF last
  <2>4. /\ all \in Seq(Attribute) /\ Len(all) = Len(tag.attributes) /\ all[n] = last
        /\ \A i \in 1 .. Len(tag.attributes) : i # n => all[i] = tag.attributes[i]
    BY <1>1, <2>2, <2>3
  <2> HIDE DEF all, n
  <2>5. /\ WithAttributeValue \in TagType /\ WithAttributeValue.open = tag.open
        /\ WithAttributeValue.buffer = <<>> /\ WithAttributeValue.attributes = all
    BY <1>1, <2>1, <2>4 DEF TagType
  <2>6. \A i \in 1 .. Len(all) : all[i].name = tag.attributes[i].name
    BY <2>3, <2>4
  <2>7. Distinct(all)
    BY <2>4, <2>6 DEF Distinct
  <2> QED BY <2>5, <2>7
<1> QED BY <1>2, <1>3

\* A tag that is over, emitted or abandoned.
LEMMA TagIsClosed ==
  ASSUME TagPart, tag' \in TagType, ~tag'.open, tag'.attributes = <<>>, lastStartTag' \in Seq(Unit),
         attrValueState' = attrValueState, state' \notin TagStates \union EndTagNameStates
  PROVE  TagPart'
PROOF
<1>1. /\ "CHAR_REF_IN_ATTR_VALUE" \in TagStates
      /\ \A s \in ValueStates \union {"AFTER_ATTR_NAME", "BEFORE_ATTR_NAME", "SELF_CLOSING_START_TAG"} :
           s \in TagStates
  BY DEF TagStates, ValueStates
<1>2. ValuesHaveTheirAttribute'
  BY <1>1 DEF ValuesHaveTheirAttribute, ValueStates
<1>3. Distinct(tag.attributes)'
  BY DEF Distinct
<1> QED BY <1>1, <1>2, <1>3 DEF TagPart

\* A tag that goes on.
LEMMA TagIsOpen ==
  ASSUME TagPart, tag' \in TagType, tag'.open, Distinct(tag'.attributes), lastStartTag' = lastStartTag,
         attrValueState' \in ValueTexts \union {None}, state' \in TagStates \union EndTagNameStates,
         state' = "CHAR_REF_IN_ATTR_VALUE" => attrValueState' \in ValueTexts,
         state' \in ValueStates \union {"AFTER_ATTR_NAME"} =>
           /\ tag'.attributes # <<>>
           /\ tag'.dropNext \/ tag'.attributes[Len(tag'.attributes)].value = <<>>,
         state' \in {"BEFORE_ATTR_NAME", "AFTER_ATTR_NAME", "BEFORE_ATTR_VALUE", "SELF_CLOSING_START_TAG"} =>
           tag'.buffer = <<>>
  PROVE  TagPart'
PROOF
<1>1. ValuesHaveTheirAttribute'
  BY DEF ValuesHaveTheirAttribute
<1>2. Distinct(tag.attributes)'
  BY DEF Distinct
<1> QED BY <1>1, <1>2 DEF TagPart

\* A tag and its text are no doctype and no section.
LEMMA OnlyTheTag ==
  ASSUME IInv, KeepDoctypeAndCdata, foreign' = foreign,
         state \in Text \union Openers \union TagStates, state' \in Text \union Openers \union TagStates
  PROVE  DoctypePart' /\ ModePart'
PROOF
<1>1. DoctypePart /\ ModePart
  BY PartsOfInvariant
<1>2. \A s \in Text \union Openers \union TagStates :
        s \notin DoctypeStates \union {"BOGUS_DOCTYPE"} /\ s # "CDATA"
  BY ClassesAreDisjoint
<1>3. state' \in States
  BY DEF Text, Openers, States
<1> QED BY <1>1, <1>2, <1>3, NoDoctypeIsKept, ModeIsKept DEF KeepDoctypeAndCdata

LEMMA KeptByGivesBack ==
  ASSUME IInv, GivesBack
  PROVE  IInv'
PROOF
<1>1. InputOK /\ TagPart /\ BufferPart /\ OutputPart
  BY PartsOfInvariant
<1>2. /\ In(state) /\ state \in Openers /\ state' \in Text \ ReferenceStates /\ KeepDoctypeAndCdata
      /\ emitAt = 0 /\ buffered = None /\ Lexing
      /\ (IF state \in EndTagNameStates THEN ChangeTag(Abandoned) ELSE KeepTag)
  BY DEF GivesBack, In
<1>3. PICK data, script :
        /\ \/ data = temporary
           \/ state \in LtStates /\ Current \notin {EOF, "<"} /\ data = temporary \o <<Current>>
        /\ script \in Seq(Unit)
        /\ EmitTemporary(state', data, script)
  BY DEF GivesBack
<1>4. /\ pos' = mark + 1 /\ source' = source /\ temporary' = data /\ scriptData' = script
      /\ mark' = mark /\ Finish("character", data[1]) /\ buffered' = buffered
      /\ emitAt' = IF 1 = Len(data) THEN 0 ELSE 1 + 1
  BY <1>3 DEF EmitTemporary, EmitNext
<1>5. /\ temporary \in Seq(Unit) /\ Current \in Unit
      /\ pos = mark + Len(temporary) /\ Len(temporary) >= 1
      /\ \A i \in 1 .. Len(temporary) : temporary[i] = source[mark + i - 1] /\ temporary[i] # EOF
  <2>1. Len(temporary) >= 1
    BY <1>1, <1>2 DEF BufferPart, TemporaryBufferIsTheInput, Openers
  <2> QED BY <1>1, <1>2, <2>1, CurrentIsAUnit DEF BufferPart, TemporaryBufferIsTheInput, PendingText, Openers
<1>6. /\ data \in Seq(Unit) /\ Len(data) >= 1 /\ data[1] \in Unit
      /\ \A i \in 1 .. Len(data) : data[i] = source[mark + i - 1] /\ data[i] # EOF
  <2>1. CASE data = temporary
    BY <1>5, <2>1
  <2>2. CASE Current # EOF /\ data = temporary \o <<Current>>
    <3>1. <<Current>> \in Seq(Unit) /\ Len(<<Current>>) = 1 /\ <<Current>>[1] = Current
      BY <1>5
    <3>2. /\ data \in Seq(Unit) /\ Len(data) = Len(temporary) + 1
          /\ \A i \in 1 .. Len(temporary) : data[i] = temporary[i]
          /\ data[Len(temporary) + 1] = Current
      BY <1>5, <2>2, <3>1, Joined
    <3>3. Current = source[mark + (Len(temporary) + 1) - 1]
      BY <1>1, <1>5 DEF Current, InputOK
    <3>4. ASSUME NEW i \in 1 .. Len(data)
          PROVE  data[i] = source[mark + i - 1] /\ data[i] # EOF
      <4>1. CASE i \in 1 .. Len(temporary)
        BY <1>5, <3>2, <4>1
      <4>2. CASE i = Len(temporary) + 1
        BY <2>2, <3>2, <3>3, <4>2
      <4> QED BY <1>5, <3>2, <4>1, <4>2
    <3>5. Len(data) >= 1 /\ data[1] \in Unit
      BY <1>5, <3>2
    <3> QED BY <3>2, <3>4, <3>5
  <2> QED BY <1>3, <2>1, <2>2
<1>7. /\ Reading /\ pos' \in 1 .. Len(source') /\ pos' \in Nat /\ tokenStart \in Nat
      /\ shape' = shape /\ foreign' = foreign /\ tokenStart' = pos'
  BY <1>1, <1>4, <1>5 DEF Finish, Reading, InputOK
<1>8. OutputPart'
  <2>1. data[1] \in TokenValue /\ "character" \in TokenTypes
    BY <1>6 DEF TokenValue, TokenTypes
  <2> QED BY <1>1, <1>2, <1>4, <1>7, <2>1, TokenIsKept
<1>9. DoctypePart' /\ ModePart'
  BY <1>2, <1>7, OnlyTheTag
<1>10. state' \notin TagStates \union EndTagNameStates /\ state' \notin Openers
       /\ state \notin TagStates
  BY <1>2, ClassesAreDisjoint DEF Openers
<1>11. TagPart'
  <2>1. CASE state \in EndTagNameStates
    <3>1. tag' = Abandoned /\ lastStartTag' = lastStartTag /\ attrValueState' = attrValueState
      BY <1>2, <2>1 DEF ChangeTag
    <3>2. Abandoned \in TagType /\ ~Abandoned.open /\ Abandoned.attributes = <<>>
      BY <1>1, TagOperations DEF TagPart
    <3> QED BY <1>1, <1>10, <3>1, <3>2, TagIsClosed DEF TagPart
  <2>2. CASE state \notin EndTagNameStates
    BY <1>1, <1>2, <1>10, <2>2, NoTagIsKept
  <2> QED BY <2>1, <2>2
<1>12. BufferPart'
  <2>1. PendingText'
    <3>1. mark + Len(data) - 1 <= Len(source)
      <4>1. Len(data) <= Len(temporary) + 1
        BY <1>3, <1>5, Joined
      <4> QED BY <1>1, <1>5, <1>6, <4>1 DEF InputOK
    <3> QED BY <1>2, <1>4, <1>6, <1>10, <3>1 DEF PendingText
  <2>2. TemporaryBufferIsTheInput'
    <3>1. \A i \in emitAt' .. Len(temporary') : emitAt' # 0 => temporary'[i] = source'[mark' + i - 1]
      BY <1>4, <1>6
    <3>2. emitAt' # 0 => pos' = mark' + emitAt' - 1 /\ tokenStart' = pos'
      BY <1>1, <1>4, <1>7 DEF InputOK
    <3> QED BY <1>10, <3>1, <3>2 DEF TemporaryBufferIsTheInput, Openers
  <2>3. emitAt' \in 0 .. Len(temporary')
    <3>1. Len(data) \in Nat /\ Len(data) >= 1
      BY <1>6
    <3> QED BY <1>4, <3>1
  <2> QED BY <1>2, <1>3, <1>4, <1>6, <2>1, <2>2, <2>3 DEF BufferPart
<1>13. InputOK'
  BY <1>1, <1>4, <1>7, InputIsKept
<1> QED BY <1>8, <1>9, <1>11, <1>12, <1>13, PartsOfInvariant

LEMMA KeptByOpenings ==
  ASSUME IInv, BeginsTag \/ BeginsEndTag \/ ReadsEndTagName \/ EntersEndTag
  PROVE  IInv'
PROOF
<1>1. InputOK /\ TagPart /\ BufferPart /\ tag \in TagType
  BY PartsOfInvariant DEF TagPart
<1>2. /\ In(state) /\ KeepDoctypeAndCdata /\ NextChar(state')
      /\ state \in Openers /\ state' \in EndTagNameStates \union TagStates /\ Current # EOF
  <2>1. IsLetter => Current # EOF
    BY LettersAssumption DEF IsLetter
  <2>2. CASE BeginsTag
    <3>1. state' = "TAG_NAME" /\ NextChar(state') /\ In(state)
      BY <2>2 DEF BeginsTag, NextChar
    <3> QED BY <2>1, <2>2, <3>1 DEF BeginsTag, Openers, LtStates, EndTagOpenStates, TagStates
  <2>3. CASE EntersEndTag
    BY <2>3 DEF EntersEndTag, Openers, TagStates
  <2>4. CASE BeginsEndTag \/ ReadsEndTagName
    BY <2>1, <2>4 DEF BeginsEndTag, ReadsEndTagName, Openers
  <2> QED BY <2>2, <2>3, <2>4
<1>3. /\ Reading /\ pos' \in 1 .. Len(source') /\ shape' = shape /\ foreign' = foreign
      /\ tokenStart' \in {tokenStart, pos'} /\ buffered' = None /\ emitAt = 0 /\ OutputPart'
      /\ pos' = pos + 1
  BY <1>2, HandlerReadsOn
<1>4. DoctypePart' /\ ModePart'
  BY <1>2, <1>3, OnlyTheTag DEF Openers
<1>5. state \notin TagStates /\ \A s \in EndTagNameStates : s \notin TagStates
  BY <1>2, ClassesAreDisjoint DEF Openers
<1>6. /\ "CHAR_REF_IN_ATTR_VALUE" \in TagStates
      /\ \A s \in ValueStates \union {"AFTER_ATTR_NAME", "BEFORE_ATTR_NAME", "SELF_CLOSING_START_TAG"} :
           s \in TagStates
  BY DEF TagStates, ValueStates
<1>7. Lower(Current) \in Unit
  BY <1>1, CurrentIsAUnit
<1>8. attrValueState' = attrValueState /\ lastStartTag' = lastStartTag
  BY DEF BeginsTag, BeginsEndTag, ReadsEndTagName, EntersEndTag, ChangeTag
<1>9. Distinct(<<>>)
  BY DEF Distinct
<1>10. TagPart'
  <2>1. CASE BeginsTag
    <3>1. PICK b \in BOOLEAN : tag' = NewTag(b)
      BY <2>1 DEF BeginsTag, ChangeTag
    <3>2. tag' \in TagType /\ tag'.open /\ tag'.attributes = <<>>
      BY <1>1, <3>1, TagOperations
    <3>3. state' = "TAG_NAME"
      BY <2>1 DEF BeginsTag, NextChar
    <3> QED BY <1>1, <1>2, <1>8, <1>9, <3>2, <3>3, TagIsOpen DEF TagPart, ValueStates
  <2>2. CASE BeginsEndTag
    <3>1. tag' = NewTag(FALSE) /\ state' \in EndTagNameStates
      BY <2>2 DEF BeginsEndTag, ChangeTag
    <3>2. tag' \in TagType /\ tag'.open /\ tag'.attributes = <<>>
      BY <1>1, <3>1, TagOperations
    <3> QED BY <1>1, <1>2, <1>5, <1>6, <1>8, <1>9, <3>1, <3>2, TagIsOpen DEF TagPart, ValueStates
  <2>3. CASE ReadsEndTagName
    <3>1. tag' = WithChar(Lower(Current)) /\ state' \in EndTagNameStates /\ state' = state
      BY <2>3 DEF ReadsEndTagName, ChangeTag
    <3>2. tag' \in TagType /\ tag'.open /\ tag'.attributes = tag.attributes
      BY <1>1, <1>7, <3>1, TagOperations DEF TagPart
    <3> QED BY <1>1, <1>2, <1>5, <1>6, <1>8, <3>1, <3>2, TagIsOpen DEF TagPart, ValueStates
  <2>4. CASE EntersEndTag
    <3>1. tag' = WithTagName /\ state' \in {"BEFORE_ATTR_NAME", "SELF_CLOSING_START_TAG"}
          /\ state \in EndTagNameStates
      BY <2>4 DEF EntersEndTag, ChangeTag
    <3>2. tag' \in TagType /\ tag'.open /\ tag'.attributes = tag.attributes /\ tag'.buffer = <<>>
      BY <1>1, <3>1, TagOperations DEF TagPart
    <3> QED BY <1>1, <1>2, <1>5, <1>6, <1>8, <3>1, <3>2, TagIsOpen DEF TagPart, ValueStates
  <2> QED BY <2>1, <2>2, <2>3, <2>4
<1>11. BufferPart' /\ mark' \in {mark, pos}
  <2>1. CASE BeginsTag \/ EntersEndTag
    <3>1. KeepsBuffer /\ state' \in TagStates
      BY <2>1 DEF BeginsTag, EntersEndTag, NextChar, TagStates
    <3>2. state' \notin Openers
      BY <3>1, ClassesAreDisjoint
    <3> QED BY <1>1, <1>3, <3>1, <3>2, BufferIsLeft DEF KeepsBuffer, BufferPart
  <2>2. CASE BeginsEndTag \/ ReadsEndTagName
    <3>1. AppendTemporary(<<Current>>) /\ state \in EndTagOpenStates \union EndTagNameStates
          /\ state' \in EndTagNameStates
      BY <2>2 DEF BeginsEndTag, ReadsEndTagName
    <3>2. mark' = mark
      BY <3>1 DEF AppendTemporary
    <3> QED BY <1>1, <1>2, <1>3, <3>1, <3>2, BufferGrows
  <2> QED BY <2>1, <2>2
<1>12. InputOK'
  BY <1>1, <1>3, <1>11, InputIsKept
<1> QED BY <1>3, <1>4, <1>10, <1>11, <1>12, PartsOfInvariant

\* Where a value may end there is an attribute for it.
LEMMA TagToEmitIsATag ==
  ASSUME InputOK, TagPart, NEW t, TagToEmit(t)
  PROVE  t \in TagType /\ Distinct(t.attributes)
PROOF
<1>1. tag \in TagType /\ Distinct(tag.attributes)
  BY DEF TagPart
<1>2. CASE t = WithTagName
  <2>1. t \in TagType /\ t.attributes = tag.attributes
    BY <1>1, <1>2, TagOperations
  <2> QED BY <1>1, <2>1
<1>3. CASE t = tag
  BY <1>1, <1>3
<1>4. CASE t = WithAttributeName
  BY <1>1, <1>4, NameIsFinished
<1>5. CASE state \in {"ATTR_VALUE_UNQUOTED", "AFTER_ATTR_VALUE_QUOTED"} /\ t = WithAttributeValue
  <2>1. tag.attributes # <<>>
    BY <1>5 DEF TagPart, ValuesHaveTheirAttribute, ValueStates
  <2> QED BY <1>1, <1>5, <2>1, ValueIsFinished
<1>6. CASE t = [tag EXCEPT !.selfClosing = TRUE]
  <2>1. t \in TagType /\ t.attributes = tag.attributes
    BY <1>1, <1>6 DEF TagType
  <2> QED BY <1>1, <2>1
<1> QED BY <1>2, <1>3, <1>4, <1>5, <1>6 DEF TagToEmit

LEMMA KeptByEmitsTag ==
  ASSUME IInv, EmitsTag
  PROVE  IInv'
PROOF
<1>1. InputOK /\ TagPart /\ BufferPart /\ OutputPart /\ In(state) /\ KeepDoctypeAndCdata /\ KeepsBuffer
  BY PartsOfInvariant DEF EmitsTag
<1>2. PICK t : TagToEmit(t) /\ EmitTag("DATA", t)
  BY DEF EmitsTag
<1>3. t \in TagType /\ Distinct(t.attributes)
  BY <1>1, <1>2, TagToEmitIsATag
<1> DEFINE type == IF t.isStart THEN "start" ELSE "end"
           value == [name |-> t.name, selfClosing |-> t.selfClosing,
                     attributes |-> IF t.isStart THEN t.attributes ELSE <<>>]
<1>4. Emit("DATA", type, value)
  BY <1>2 DEF EmitTag
<1>5. type \in TokenTypes /\ type # "doctype" /\ (type = "start" => t.isStart)
  BY DEF TokenTypes
<1>6. value \in TokenValue /\ (t.isStart => value.attributes = t.attributes)
  <2>1. <<>> \in Seq(Attribute)
    OBVIOUS
  <2>2. value \in TagValue
    BY <1>3, <2>1 DEF TagType, TagValue
  <2> QED BY <2>2 DEF TokenValue
<1> HIDE DEF type, value
<1>7. /\ Reading /\ pos' \in 1 .. Len(source') /\ pos' \in Nat /\ shape' = shape
      /\ state' = "DATA" /\ foreign' = foreign /\ tokenStart' = pos'
      /\ buffered = None /\ buffered' = None /\ emitAt = 0 /\ Lexing
      /\ Finish(type, value) /\ tokenStart \in Nat
  BY <1>1, <1>4, HandlerEmits
<1>8. mark' = mark /\ temporary' = temporary /\ emitAt' = 0 /\ scriptData' \in Seq(Unit)
  BY <1>1, <1>7 DEF KeepsBuffer
<1>9. OutputPart'
  BY <1>1, <1>3, <1>5, <1>6, <1>7, <1>8, TokenIsKept
<1>10. state \in Text \union Openers \union TagStates /\ state' \in Text
       /\ state' \notin Openers /\ state' \notin TagStates \union EndTagNameStates
  <2>1. state \in EndTagNameStates \union TagStates
    BY <1>2 DEF TagToEmit, TagStates
  <2>2. state' \in Text
    BY <1>7 DEF Text, DataStates
  <2> QED BY <2>1, <2>2, ClassesAreDisjoint DEF Openers
<1>11. DoctypePart' /\ ModePart'
  BY <1>1, <1>7, <1>10, OnlyTheTag
<1>12. TagPart'
  <2>1. lastStartTag' \in Seq(Unit) /\ attrValueState' = attrValueState
    BY <1>1, <1>2, <1>3 DEF EmitTag, TagPart, TagType
  <2>2. tag' = [t EXCEPT !.open = FALSE, !.attributes = <<>>, !.buffer = <<>>]
    BY <1>2 DEF EmitTag
  <2>3. <<>> \in Seq(Attribute) /\ <<>> \in Seq(Unit)
    OBVIOUS
  <2>4. tag' \in TagType /\ ~tag'.open /\ tag'.attributes = <<>>
    BY <1>3, <2>2, <2>3 DEF TagType
  <2> QED BY <1>1, <1>10, <2>1, <2>4, TagIsClosed
<1>13. BufferPart'
  BY <1>1, <1>7, <1>8, <1>10, BufferIsLeft DEF BufferPart
<1>14. InputOK'
  BY <1>1, <1>7, <1>8, InputIsKept
<1> QED BY <1>9, <1>11, <1>12, <1>13, <1>14, PartsOfInvariant

LEMMA KeptByAbandonsTag ==
  ASSUME IInv, AbandonsTag
  PROVE  IInv'
PROOF
<1>1. /\ InputOK /\ TagPart /\ BufferPart /\ In(state) /\ KeepDoctypeAndCdata /\ KeepsBuffer
      /\ NextChar("DATA") \/ Reconsume("DATA")
  BY PartsOfInvariant DEF AbandonsTag
<1>2. /\ Reading /\ pos' \in 1 .. Len(source') /\ shape' = shape /\ foreign' = foreign
      /\ tokenStart' \in {tokenStart, pos'} /\ buffered' = None /\ emitAt = 0 /\ OutputPart'
      /\ state' = "DATA"
  BY <1>1, HandlerReadsOn
<1>3. mark' = mark /\ temporary' = temporary /\ emitAt' = 0 /\ scriptData' \in Seq(Unit)
  BY <1>1, <1>2 DEF KeepsBuffer
<1>4. state \in TagStates /\ state' \in Text
      /\ state' \notin Openers /\ state' \notin TagStates \union EndTagNameStates
  <2>1. state \in TagStates
    BY DEF AbandonsTag
  <2>2. state' \in Text
    BY <1>2 DEF Text, DataStates
  <2> QED BY <2>1, <2>2, ClassesAreDisjoint DEF Openers
<1>5. DoctypePart' /\ ModePart'
  BY <1>1, <1>2, <1>4, OnlyTheTag
<1>6. tag' \in TagType /\ ~tag'.open /\ tag'.attributes = <<>>
      /\ lastStartTag' = lastStartTag /\ attrValueState' = attrValueState
  <2>1. CASE ChangeTag(Abandoned)
    <3>1. Abandoned \in TagType /\ ~Abandoned.open /\ Abandoned.attributes = <<>>
      BY <1>1, TagOperations DEF TagPart
    <3> QED BY <2>1, <3>1 DEF ChangeTag
  <2>2. CASE /\ state = "AFTER_ATTR_VALUE_QUOTED"
             /\ ChangeTag([WithAttributeValue EXCEPT !.open = FALSE, !.attributes = <<>>])
    <3>1. tag.attributes # <<>> /\ tag \in TagType /\ Distinct(tag.attributes)
      BY <1>1, <2>2 DEF TagPart, ValuesHaveTheirAttribute, ValueStates
    <3>2. WithAttributeValue \in TagType
      BY <3>1, ValueIsFinished
    <3>3. <<>> \in Seq(Attribute)
      OBVIOUS
    <3>4. tag' = [WithAttributeValue EXCEPT !.open = FALSE, !.attributes = <<>>]
          /\ lastStartTag' = lastStartTag /\ attrValueState' = attrValueState
      BY <2>2 DEF ChangeTag
    <3> QED BY <3>2, <3>3, <3>4 DEF TagType
  <2> QED BY <2>1, <2>2 DEF AbandonsTag
<1>7. TagPart'
  BY <1>1, <1>4, <1>6, TagIsClosed DEF TagPart
<1>8. BufferPart'
  BY <1>1, <1>2, <1>3, <1>4, BufferIsLeft DEF BufferPart
<1>9. InputOK'
  BY <1>1, <1>2, <1>3, InputIsKept
<1> QED BY <1>2, <1>5, <1>7, <1>8, <1>9, PartsOfInvariant

\* What a move inside of a tag makes of it.
LEMMA TagMovesKeepTheTag ==
  ASSUME InputOK, TagPart, state \in TagStates, TagMoves
  PROVE  TagPart' /\ state' \in TagStates
PROOF
<1>1. /\ tag \in TagType /\ Distinct(tag.attributes) /\ tag.open
      /\ attrValueState \in ValueTexts \union {None}
      /\ state = "CHAR_REF_IN_ATTR_VALUE" => attrValueState \in ValueTexts
  BY DEF TagPart
<1>2. /\ state \in ValueStates \union {"AFTER_ATTR_NAME"} =>
           /\ tag.attributes # <<>>
           /\ tag.dropNext \/ tag.attributes[Len(tag.attributes)].value = <<>>
      /\ state \in {"BEFORE_ATTR_NAME", "AFTER_ATTR_NAME", "BEFORE_ATTR_VALUE", "SELF_CLOSING_START_TAG"} =>
           tag.buffer = <<>>
  BY DEF TagPart, ValuesHaveTheirAttribute
<1>3. /\ \A s \in ValueTexts : s \in ValueStates /\ s \in TagStates
                               /\ s \notin {"AFTER_ATTR_NAME", "BEFORE_ATTR_NAME", "BEFORE_ATTR_VALUE",
                                            "SELF_CLOSING_START_TAG", "CHAR_REF_IN_ATTR_VALUE"}
      /\ \A s : s \in ValueStates <=>
           s \in ValueTexts \union {"BEFORE_ATTR_VALUE", "CHAR_REF_IN_ATTR_VALUE", "AFTER_ATTR_VALUE_QUOTED"}
      /\ "ATTR_VALUE_UNQUOTED" \in ValueTexts
      /\ \A s \in {"TAG_NAME", "BEFORE_ATTR_NAME", "ATTR_NAME", "AFTER_ATTR_NAME", "SELF_CLOSING_START_TAG",
                   "BEFORE_ATTR_VALUE", "CHAR_REF_IN_ATTR_VALUE", "AFTER_ATTR_VALUE_QUOTED"} :
           s \in TagStates /\ s \notin ValueTexts
  BY DEF ValueTexts, ValueStates, TagStates
<1>4. Current \in Unit /\ Lower(Current) \in Unit
  BY CurrentIsAUnit
<1>5. lastStartTag' = lastStartTag
  BY DEF TagMoves, KeepTag, ChangeTag, tagVars
\* From a tag with the same attributes.
<1>6. ASSUME tag' \in TagType, tag'.open = tag.open, tag'.attributes = tag.attributes,
             tag'.dropNext = tag.dropNext, state' \in TagStates,
             attrValueState' \in ValueTexts \union {None},
             state' = "CHAR_REF_IN_ATTR_VALUE" => attrValueState' \in ValueTexts,
             state' \in ValueStates \union {"AFTER_ATTR_NAME"} => state \in ValueStates \union {"AFTER_ATTR_NAME"},
             state' \in {"BEFORE_ATTR_NAME", "AFTER_ATTR_NAME", "BEFORE_ATTR_VALUE", "SELF_CLOSING_START_TAG"} =>
               tag'.buffer = <<>>
      PROVE  TagPart' /\ state' \in TagStates
  <2>1. state' \in ValueStates \union {"AFTER_ATTR_NAME"} =>
           /\ tag'.attributes # <<>>
           /\ tag'.dropNext \/ tag'.attributes[Len(tag'.attributes)].value = <<>>
    BY <1>2, <1>6
  <2> QED BY <1>1, <1>5, <1>6, <2>1, TagIsOpen
<1>7. CASE /\ KeepTag
           /\ \/ state' = state /\ state \notin ValueTexts \union {"CHAR_REF_IN_ATTR_VALUE"}
              \/ state \in {"BEFORE_ATTR_NAME", "AFTER_ATTR_NAME"} /\ state' = "SELF_CLOSING_START_TAG"
              \/ state = "AFTER_ATTR_NAME" /\ state' = "BEFORE_ATTR_VALUE"
              \/ state = "BEFORE_ATTR_VALUE" /\ state' \in ValueTexts
              \/ state \in ValueTexts /\ state' = "AFTER_ATTR_VALUE_QUOTED"
              \/ state = "SELF_CLOSING_START_TAG" /\ state' = "BEFORE_ATTR_NAME"
  <2>1. tag' = tag /\ attrValueState' = attrValueState
    BY <1>7 DEF KeepTag, tagVars
  <2> QED BY <1>1, <1>2, <1>3, <1>6, <1>7, <2>1
<1>8. CASE state = "TAG_NAME" /\ state' = "TAG_NAME" /\ ChangeTag(WithChar(Lower(Current)))
  <2>1. tag' = WithChar(Lower(Current)) /\ attrValueState' = attrValueState
    BY <1>8 DEF ChangeTag
  <2>2. /\ tag' \in TagType /\ tag'.open = tag.open /\ tag'.attributes = tag.attributes
        /\ tag'.dropNext = tag.dropNext
    BY <1>1, <1>4, <2>1, TagOperations
  <2> QED BY <1>1, <1>3, <1>6, <1>8, <2>1, <2>2
<1>9. CASE /\ state = "TAG_NAME" /\ state' \in {"BEFORE_ATTR_NAME", "SELF_CLOSING_START_TAG"}
           /\ ChangeTag(WithTagName)
  <2>1. tag' = WithTagName /\ attrValueState' = attrValueState
    BY <1>9 DEF ChangeTag
  <2>2. tag' \in TagType /\ tag'.open = tag.open /\ tag'.attributes = tag.attributes /\ tag'.buffer = <<>>
    BY <1>1, <2>1, TagOperations
  <2> QED BY <1>1, <1>3, <1>5, <1>9, <2>1, <2>2, TagIsOpen
<1>10. CASE /\ state \in {"BEFORE_ATTR_NAME", "ATTR_NAME", "AFTER_ATTR_NAME"} /\ state' = "ATTR_NAME"
            /\ ChangeTag(WithChar(Lower(Current)))
  <2>1. tag' = WithChar(Lower(Current)) /\ attrValueState' = attrValueState
    BY <1>10 DEF ChangeTag
  <2>2. /\ tag' \in TagType /\ tag'.open = tag.open /\ tag'.attributes = tag.attributes
        /\ tag'.dropNext = tag.dropNext
    BY <1>1, <1>4, <2>1, TagOperations
  <2> QED BY <1>1, <1>3, <1>6, <1>10, <2>1, <2>2
<1>11. CASE /\ state = "ATTR_NAME"
            /\ state' \in {"AFTER_ATTR_NAME", "SELF_CLOSING_START_TAG", "BEFORE_ATTR_VALUE"}
            /\ ChangeTag(WithAttributeName)
  <2>1. tag' = WithAttributeName /\ attrValueState' = attrValueState
    BY <1>11 DEF ChangeTag
  <2>2. /\ tag' \in TagType /\ tag'.open = tag.open /\ tag'.buffer = <<>>
        /\ Distinct(tag'.attributes) /\ tag'.attributes # <<>>
        /\ tag'.dropNext \/ tag'.attributes[Len(tag'.attributes)].value = <<>>
    BY <1>1, <2>1, NameIsFinished
  <2> QED BY <1>1, <1>3, <1>5, <1>11, <2>1, <2>2, TagIsOpen
<1>12. CASE /\ state \in {"BEFORE_ATTR_VALUE"} \union ValueTexts /\ state' \in ValueTexts
            /\ ChangeTag(WithChar(Current))
  <2>1. tag' = WithChar(Current) /\ attrValueState' = attrValueState
    BY <1>12 DEF ChangeTag
  <2>2. /\ tag' \in TagType /\ tag'.open = tag.open /\ tag'.attributes = tag.attributes
        /\ tag'.dropNext = tag.dropNext
    BY <1>1, <1>4, <2>1, TagOperations
  <2> QED BY <1>1, <1>3, <1>6, <1>12, <2>1, <2>2
<1>13. CASE /\ state \in {"ATTR_VALUE_UNQUOTED", "AFTER_ATTR_VALUE_QUOTED"}
            /\ state' \in {"BEFORE_ATTR_NAME", "SELF_CLOSING_START_TAG"}
            /\ ChangeTag(WithAttributeValue)
  <2>1. tag' = WithAttributeValue /\ attrValueState' = attrValueState
    BY <1>13 DEF ChangeTag
  <2>2. tag.attributes # <<>>
    BY <1>2, <1>3, <1>13
  <2>3. tag' \in TagType /\ tag'.open = tag.open /\ tag'.buffer = <<>> /\ Distinct(tag'.attributes)
    BY <1>1, <2>1, <2>2, ValueIsFinished
  <2> QED BY <1>1, <1>3, <1>5, <1>13, <2>1, <2>3, TagIsOpen
<1>14. CASE /\ state \in ValueTexts /\ state' = "CHAR_REF_IN_ATTR_VALUE"
            /\ attrValueState' = state /\ UNCHANGED <<tag, lastStartTag>>
  BY <1>1, <1>3, <1>6, <1>14
<1>15. CASE /\ state = "CHAR_REF_IN_ATTR_VALUE" /\ state' = attrValueState
            /\ \E units \in Seq(Unit) : ChangeTag([tag EXCEPT !.buffer = @ \o units])
  <2>1. PICK units \in Seq(Unit) : ChangeTag([tag EXCEPT !.buffer = @ \o units])
    BY <1>15
  <2>2. tag' = [tag EXCEPT !.buffer = @ \o units] /\ attrValueState' = attrValueState
    BY <2>1 DEF ChangeTag
  <2>3. /\ tag' \in TagType /\ tag'.open = tag.open /\ tag'.attributes = tag.attributes
        /\ tag'.dropNext = tag.dropNext
    BY <1>1, <2>2, TagOperations
  <2> QED BY <1>1, <1>3, <1>6, <1>15, <2>2, <2>3
<1> QED BY <1>7, <1>8, <1>9, <1>10, <1>11, <1>12, <1>13, <1>14, <1>15 DEF TagMoves

LEMMA KeptByReadsTag ==
  ASSUME IInv, ReadsTag
  PROVE  IInv'
PROOF
<1>1. /\ InputOK /\ TagPart /\ BufferPart /\ In(state) /\ KeepDoctypeAndCdata
      /\ NextChar(state') \/ Reconsume(state')
      /\ state \in TagStates /\ TagMoves
      /\ mark' \in {mark, pos} /\ UNCHANGED <<temporary, emitAt, scriptData>>
  BY PartsOfInvariant DEF ReadsTag
<1>2. /\ Reading /\ pos' \in 1 .. Len(source') /\ shape' = shape /\ foreign' = foreign
      /\ tokenStart' \in {tokenStart, pos'} /\ buffered' = None /\ emitAt = 0 /\ OutputPart'
  BY <1>1, HandlerReadsOn
<1>3. TagPart' /\ state' \in TagStates
  BY <1>1, TagMovesKeepTheTag
<1>4. DoctypePart' /\ ModePart'
  BY <1>1, <1>2, <1>3, OnlyTheTag
<1>5. state' \notin Openers
  BY <1>3, ClassesAreDisjoint
<1>6. BufferPart'
  BY <1>1, <1>2, <1>5, BufferIsLeft DEF BufferPart
<1>7. InputOK'
  BY <1>1, <1>2, InputIsKept
<1> QED BY <1>2, <1>3, <1>4, <1>6, <1>7, PartsOfInvariant

-----------------------------------------------------------------------------
(***************************************************************************)
(* Comments, sections and doctypes.                                        *)
(***************************************************************************)
LEMMA KeptByComments ==
  ASSUME IInv,
         BeginsComment \/ BeginsBogusComment \/ ReadsComment \/ EmitsComment
  PROVE  IInv'
PROOF
<1>1. InputOK /\ ModePart /\ BufferPart /\ OutputPart
  BY PartsOfInvariant
<1>2. temporary \in Seq(Unit) /\ scriptData \in Seq(Unit) /\ <<>> \in Seq(Unit)
  BY <1>1 DEF BufferPart
<1>3. /\ In(state) /\ state \in CommentStates \union {"MARKUP_DECLARATION"}
      /\ state' \in CommentStates \union {"DATA"} /\ KeepTag /\ doctype' = doctype /\ inCdata' = inCdata
  <2>1. CASE BeginsComment \/ BeginsBogusComment
    BY <2>1, InIsTheState
    DEF BeginsComment, BeginsBogusComment, Reconsume, CommentStates, KeepDoctypeAndCdata
  <2>2. CASE ReadsComment
    BY <2>2 DEF ReadsComment, KeepDoctypeAndCdata
  <2>3. CASE EmitsComment
    BY <2>3 DEF EmitsComment, EmitComment, Emit, KeepDoctypeAndCdata
  <2> QED BY <2>1, <2>2, <2>3
<1>4. Outside(state) /\ Outside(state') /\ state' \notin Openers /\ state # "CDATA"
  <2>1. "DATA" \in Text
    BY DEF Text, DataStates
  <2> QED BY <1>3, <2>1, ClassesAreDisjoint DEF Outside
<1>5. TagPart' /\ DoctypePart' /\ state' \in States
  BY <1>3, <1>4, OutsideIsKept
<1>6. mark' \in {mark, pos} /\ temporary' \in Seq(Unit) /\ scriptData' \in Seq(Unit) /\ emitAt' = emitAt
  <2>1. CASE BeginsComment
    BY <1>2, <2>1 DEF BeginsComment, KeepsBuffer
  <2>2. CASE BeginsBogusComment
    BY <1>2, <2>2 DEF BeginsBogusComment, ClearTemporary
  <2>3. CASE ReadsComment
    <3>1. PICK units \in Seq(Unit) : AppendTemporary(units)
      BY <2>3 DEF ReadsComment
    <3> QED BY <1>2, <3>1 DEF AppendTemporary
  <2>4. CASE EmitsComment
    BY <1>2, <2>4 DEF EmitsComment, EmitComment, ClearTemporary
  <2> QED BY <2>1, <2>2, <2>3, <2>4
<1>7. /\ Reading /\ pos' \in 1 .. Len(source') /\ shape' = shape /\ foreign' = foreign
      /\ tokenStart' \in {tokenStart, pos'} /\ buffered' = None /\ emitAt = 0 /\ OutputPart'
  <2>1. CASE BeginsComment
    <3>1. /\ AdvanceTo(pos + 2) /\ pos < Len(source)
          /\ UNCHANGED <<shape, buffered, foreign, tokenStart, tokens, handled>>
      BY <2>1 DEF BeginsComment, TwoDashes, outputVars
    <3>2. pos + 2 \in Nat /\ 1 <= pos + 2 /\ pos + 2 <= Len(source) + 1
      BY <1>1, <3>1 DEF InputOK
    <3>3. Reading /\ pos' = pos + 2 /\ pos + 2 <= Len(source')
      BY <1>1, <3>1, <3>2, AdvanceToReads
    <3>4. Lexing /\ buffered = None /\ emitAt = 0
      BY <1>3 DEF In
    <3>5. OutputPart'
      BY <1>1, <3>1, <3>4, NoTokenIsKept
    <3> QED BY <3>1, <3>2, <3>3, <3>4, <3>5
  <2>2. CASE BeginsBogusComment \/ ReadsComment
    <3>1. NextChar(state') \/ Reconsume("BOGUS_COMMENT")
      BY <2>2 DEF BeginsBogusComment, ReadsComment
    <3> QED BY <1>3, <3>1, HandlerReadsOn
  <2>3. CASE EmitsComment
    <3>1. Emit("DATA", "comment", temporary)
      BY <2>3 DEF EmitsComment, EmitComment
    <3>2. /\ Reading /\ pos' \in 1 .. Len(source') /\ pos' \in Nat /\ shape' = shape /\ foreign' = foreign
          /\ tokenStart' = pos' /\ buffered' = None /\ emitAt = 0 /\ Lexing
          /\ Finish("comment", temporary) /\ tokenStart \in Nat
      BY <1>3, <3>1, HandlerEmits
    <3>3. temporary \in TokenValue /\ "comment" \in TokenTypes
      BY <1>2 DEF TokenValue, TokenTypes
    <3>4. OutputPart'
      BY <1>1, <3>2, <3>3, TokenIsKept
    <3> QED BY <3>2, <3>4
  <2> QED BY <2>1, <2>2, <2>3
<1>8. BufferPart'
  BY <1>1, <1>4, <1>6, <1>7, BufferIsLeft
<1>9. InputOK' /\ ModePart'
  BY <1>1, <1>3, <1>4, <1>5, <1>6, <1>7, InputIsKept, ModeIsKept
<1> QED BY <1>5, <1>7, <1>8, <1>9, PartsOfInvariant

LEMMA KeptBySections ==
  ASSUME IInv, BeginsCdata \/ EmitsCdata \/ LeavesCdata
  PROVE  IInv'
PROOF
<1>1. InputOK /\ ModePart /\ BufferPart /\ OutputPart
  BY PartsOfInvariant
<1>2. /\ In(state) /\ state \in {"MARKUP_DECLARATION", "CDATA"} /\ state' \in {"CDATA", "DATA"}
      /\ KeepTag /\ doctype' = doctype /\ KeepsBuffer
      /\ inCdata' \in BOOLEAN /\ (inCdata' => state' = "CDATA")
  <2>1. CASE BeginsCdata
    BY <2>1, InIsTheState DEF BeginsCdata, NextChar
  <2>2. CASE EmitsCdata
    <3>1. state' = "CDATA"
      BY <2>2 DEF EmitsCdata, EmitCurrentChar, Emit
    <3> QED BY <1>1, <2>2, <3>1, InIsTheState DEF EmitsCdata, KeepDoctypeAndCdata, ModePart
  <2>3. CASE LeavesCdata
    BY <2>3, InIsTheState DEF LeavesCdata
  <2> QED BY <2>1, <2>2, <2>3
<1>3. Outside(state) /\ Outside(state') /\ state' \notin Openers
  <2>1. "DATA" \in Text
    BY DEF Text, DataStates
  <2> QED BY <1>2, <2>1, ClassesAreDisjoint DEF Outside
<1>4. TagPart' /\ DoctypePart' /\ state' \in States
  BY <1>2, <1>3, OutsideIsKept
<1>5. /\ Reading /\ pos' \in 1 .. Len(source') /\ shape' = shape /\ foreign' = foreign
      /\ tokenStart' \in {tokenStart, pos'} /\ buffered' = None /\ emitAt = 0 /\ OutputPart'
  <2>1. CASE BeginsCdata
    BY <1>2, <2>1, HandlerReadsOn DEF BeginsCdata
  <2>2. CASE EmitsCdata
    BY <1>2, <2>2, HandlerEmitsChar DEF EmitsCdata
  <2>3. CASE LeavesCdata
    <3>1. Advance /\ tokenStart' = pos' /\ UNCHANGED <<shape, buffered, foreign, tokens, handled>>
      BY <2>3 DEF LeavesCdata
    <3>2. Lexing /\ buffered = None /\ emitAt = 0
      BY <1>2 DEF In
    <3> QED BY <1>1, <3>1, <3>2, AdvanceReads, NoTokenIsKept
  <2> QED BY <2>1, <2>2, <2>3
<1>6. BufferPart'
  BY <1>1, <1>2, <1>3, <1>5, BufferIsLeft DEF KeepsBuffer, BufferPart
<1>7. InputOK' /\ ModePart'
  <2>1. mark' = mark
    BY <1>2 DEF KeepsBuffer
  <2> QED BY <1>1, <1>2, <1>4, <1>5, <2>1, InputIsKept DEF ModePart
<1> QED BY <1>4, <1>5, <1>6, <1>7, PartsOfInvariant

LEMMA KeptByDoctypes ==
  ASSUME IInv, BeginsDoctype \/ ReadsDoctype \/ EmitsDoctype
  PROVE  IInv'
PROOF
<1> DEFINE D == DoctypeStates \union {"BOGUS_DOCTYPE"}
<1>1. InputOK /\ ModePart /\ BufferPart /\ OutputPart /\ TagPart /\ DoctypePart
  BY PartsOfInvariant
<1>2. /\ In(state) /\ state \in D \union {"MARKUP_DECLARATION"} /\ state' \in D \union {"DATA"}
      /\ KeepTag /\ inCdata' = inCdata /\ emitAt' = emitAt
      /\ mark' \in {mark, pos} /\ temporary' \in Seq(Unit) /\ scriptData' \in Seq(Unit)
  <2>1. CASE BeginsDoctype
    <3>1. "DOCTYPE" \in DoctypeStates
      BY DEF DoctypeStates
    <3> QED BY <1>1, <2>1, <3>1, InIsTheState DEF BeginsDoctype, NextChar, KeepsBuffer, BufferPart
  <2>2. CASE ReadsDoctype
    BY <2>2 DEF ReadsDoctype
  <2>3. CASE EmitsDoctype
    BY <2>3 DEF EmitsDoctype
  <2> QED BY <2>1, <2>2, <2>3
<1>3. /\ state \notin TagStates \union EndTagNameStates /\ state' \notin TagStates \union EndTagNameStates
      /\ state' \notin Openers /\ state # "CDATA" /\ state' \in States
  <2>1. "DATA" \in Text /\ \A s \in D \union {"DATA"} : s \in States
    BY DEF Text, DataStates, States
  <2> QED BY <1>2, <2>1, ClassesAreDisjoint DEF Openers
<1>4. TagPart'
  BY <1>1, <1>2, <1>3, NoTagIsKept
<1>5. "DATA" \notin D /\ "BOGUS_DOCTYPE" \notin DoctypeStates /\ "MARKUP_DECLARATION" \notin D
  BY DEF DoctypeStates
<1>6. /\ Reading /\ pos' \in 1 .. Len(source') /\ shape' = shape /\ foreign' = foreign
      /\ tokenStart' \in {tokenStart, pos'} /\ buffered' = None /\ emitAt = 0 /\ OutputPart'
      /\ DoctypePart'
  <2>1. CASE BeginsDoctype
    <3>1. /\ Reading /\ pos' \in 1 .. Len(source') /\ shape' = shape /\ foreign' = foreign
          /\ tokenStart' \in {tokenStart, pos'} /\ buffered' = None /\ emitAt = 0 /\ OutputPart'
          /\ state' = "DOCTYPE"
      BY <1>2, <2>1, HandlerReadsOn DEF BeginsDoctype
    <3>2. doctype' = [doctype EXCEPT !.strings = TRUE]
      BY <2>1 DEF BeginsDoctype
    <3>3. doctype' \in DoctypeType /\ doctype'.strings
      BY <1>1, <3>2 DEF DoctypePart, DoctypeType
    <3>4. DoctypePart'
      BY <1>2, <1>5, <3>1, <3>3 DEF DoctypePart, DoctypeIsFresh, DoctypeGone
    <3> QED BY <3>1, <3>4
  <2>2. CASE ReadsDoctype
    <3>1. /\ Reading /\ pos' \in 1 .. Len(source') /\ shape' = shape /\ foreign' = foreign
          /\ tokenStart' \in {tokenStart, pos'} /\ buffered' = None /\ emitAt = 0 /\ OutputPart'
          /\ UNCHANGED tokens
      BY <1>2, <2>2, HandlerReadsOn DEF ReadsDoctype
    <3>2. state \in D /\ state' \in D /\ (state = "BOGUS_DOCTYPE" => state' = state)
      BY <2>2 DEF ReadsDoctype
    <3>3. DoctypePart'
      <4>1. CASE UNCHANGED doctype
        BY <1>1, <3>1, <3>2, <4>1 DEF DoctypePart, DoctypeIsFresh, DoctypeGone
      <4>2. CASE doctype' \in DoctypeType /\ doctype'.strings
        BY <3>2, <4>2 DEF DoctypePart, DoctypeIsFresh, DoctypeGone
      <4> QED BY <2>2, <4>1, <4>2 DEF ReadsDoctype
    <3> QED BY <3>1, <3>3
  <2>3. CASE EmitsDoctype
    <3>1. PICK d \in DoctypeType :
            /\ d = doctype \/ (doctype.strings /\ d.strings)
            /\ state' = "BOGUS_DOCTYPE" => d.strings
            /\ EmitDoctype(state', d)
      BY <2>3 DEF EmitsDoctype
    <3>2. Emit(state', "doctype", d) /\ doctype' = NoDoctype
      BY <3>1 DEF EmitDoctype
    <3>3. /\ Reading /\ pos' \in 1 .. Len(source') /\ pos' \in Nat /\ shape' = shape /\ foreign' = foreign
          /\ tokenStart' = pos' /\ buffered' = None /\ emitAt = 0 /\ Lexing
          /\ Finish("doctype", d) /\ tokenStart \in Nat
      BY <1>2, <3>2, HandlerEmits
    <3>4. d \in TokenValue /\ "doctype" \in TokenTypes
      BY DEF TokenValue, TokenTypes
    <3>5. state \in D /\ state' \in {"DATA", "BOGUS_DOCTYPE"}
      BY <2>3 DEF EmitsDoctype
    <3>6. ~d.strings =>
            /\ d = NoDoctype
            /\ \E j \in 1 .. Len(tokens) : tokens[j].type = "doctype" /\ tokens[j].value.strings
      BY <1>1, <3>1, <3>5 DEF DoctypePart, DoctypeIsFresh, DoctypeGone
    <3>7. OutputPart'
      BY <1>1, <3>3, <3>4, <3>6, TokenIsKept
    <3>8. NoDoctype \in DoctypeType /\ ~NoDoctype.strings
      <4>1. <<>> \in Seq(Unit)
        OBVIOUS
      <4> QED BY <4>1 DEF NoDoctype, DoctypeType
    <3>9. state' = "BOGUS_DOCTYPE" =>
            \E j \in 1 .. Len(tokens') : tokens'[j].type = "doctype" /\ tokens'[j].value.strings
      <4> SUFFICES ASSUME state' = "BOGUS_DOCTYPE"
                   PROVE  \E j \in 1 .. Len(tokens') : tokens'[j].type = "doctype" /\ tokens'[j].value.strings
        OBVIOUS
      <4> DEFINE token == [type |-> "doctype", value |-> d, from |-> tokenStart, to |-> pos', then |-> None]
      <4>1. tokens' = Append(tokens, token)
        BY <3>3 DEF Finish
      <4>2. token \in Token /\ token.type = "doctype" /\ token.value = d
        BY <3>3, <3>4 DEF Token
      <4> HIDE DEF token
      <4>3. Len(tokens') = Len(tokens) + 1 /\ tokens'[Len(tokens) + 1] = token
        BY <1>1, <4>1, <4>2, Appended DEF OutputPart, OutputOK
      <4>4. Len(tokens) + 1 \in 1 .. Len(tokens')
        BY <1>1, <4>3 DEF OutputPart, OutputOK
      <4> QED BY <3>1, <4>2, <4>3, <4>4
    <3>10. DoctypePart'
      BY <1>5, <3>2, <3>5, <3>8, <3>9 DEF DoctypePart, DoctypeIsFresh, DoctypeGone
    <3> QED BY <3>3, <3>7, <3>10
  <2> QED BY <2>1, <2>2, <2>3
<1>7. BufferPart'
  BY <1>1, <1>2, <1>3, <1>6, BufferIsLeft
<1>8. InputOK' /\ ModePart'
  BY <1>1, <1>2, <1>3, <1>6, InputIsKept, ModeIsKept
<1> QED BY <1>4, <1>6, <1>7, <1>8, PartsOfInvariant

-----------------------------------------------------------------------------
(***************************************************************************)
(* The steps that are no handler's: a token that waited goes out, a unit   *)
(* is looked at in advance, and the parser handles a token.                *)
(***************************************************************************)

LEMMA KeptByEmitBuffered ==
  ASSUME IInv, EmitBuffered
  PROVE  IInv'
PROOF
<1>1. InputOK /\ ModePart /\ BufferPart /\ OutputPart /\ TagPart /\ DoctypePart
  BY PartsOfInvariant
<1>2. /\ Lexing /\ buffered = "second" /\ Finish("character", buffered) /\ buffered' = None
      /\ source' = source /\ pos' = pos /\ state' = state /\ doctype' = doctype /\ inCdata' = inCdata
      /\ mark' = mark /\ temporary' = temporary /\ emitAt' = emitAt /\ scriptData' = scriptData /\ KeepTag
  BY <1>1 DEF EmitBuffered, BufferPart, temporaryVars, KeepTag
<1>3. emitAt = 0 /\ state \in {"DATA", "RCDATA"}
  BY <1>1, <1>2 DEF BufferPart, PendingText, None
<1>4. shape' = shape /\ foreign' = foreign /\ tokenStart' = pos' /\ tokenStart \in Nat /\ pos' \in Nat
  BY <1>1, <1>2 DEF Finish, InputOK
<1>5. Reading /\ pos' \in 1 .. Len(source')
  BY <1>1, <1>2 DEF Reading, InputOK
<1>6. state \in Text /\ Outside(state) /\ Outside(state') /\ state' \notin Openers /\ state # "CDATA"
  <2>1. state \in Text
    BY <1>3 DEF Text, DataStates
  <2> QED BY <1>2, <2>1, ClassesAreDisjoint DEF Outside
<1>7. TagPart' /\ DoctypePart' /\ state' \in States
  BY <1>2, <1>6, OutsideIsKept
<1>8. OutputPart'
  <2>1. buffered \in TokenValue /\ "character" \in TokenTypes
    BY <1>2 DEF TokenValue, TokenTypes, Unit
  <2> QED BY <1>1, <1>2, <1>4, <2>1, TokenIsKept
<1>9. BufferPart'
  BY <1>1, <1>2, <1>3, <1>6, BufferIsLeft DEF BufferPart
<1>10. InputOK' /\ ModePart'
  BY <1>1, <1>2, <1>4, <1>5, <1>6, <1>7, InputIsKept, ModeIsKept
<1> QED BY <1>7, <1>8, <1>9, <1>10, PartsOfInvariant

LEMMA KeptByFlush ==
  ASSUME IInv, FlushTemporary
  PROVE  IInv'
PROOF
<1>1. InputOK /\ ModePart /\ BufferPart /\ OutputPart /\ TagPart /\ DoctypePart
  BY PartsOfInvariant
<1>2. /\ Lexing /\ buffered = None /\ emitAt # 0 /\ Advance
      /\ Finish("character", temporary[emitAt]) /\ buffered' = buffered
      /\ emitAt' = IF emitAt = Len(temporary) THEN 0 ELSE emitAt + 1
      /\ state' = state /\ doctype' = doctype /\ inCdata' = inCdata
      /\ mark' = mark /\ temporary' = temporary /\ scriptData' = scriptData /\ KeepTag
  BY DEF FlushTemporary, EmitNext, KeepTag
<1>3. /\ emitAt \in 1 .. Len(temporary) /\ temporary \in Seq(Unit) /\ Len(temporary) \in Nat
      /\ state \in Text \ ReferenceStates /\ pos = mark + emitAt - 1 /\ mark + Len(temporary) - 1 <= Len(source)
      /\ \A i \in emitAt .. Len(temporary) : temporary[i] # EOF /\ temporary[i] = source[mark + i - 1]
  BY <1>1, <1>2 DEF BufferPart, PendingText, TemporaryBufferIsTheInput
<1>4. Current = temporary[emitAt] /\ temporary[emitAt] \in Unit /\ Current # EOF
  BY <1>3 DEF Current
<1>5. Reading /\ pos' \in 1 .. Len(source') /\ pos' = pos + 1
  BY <1>1, <1>2, <1>4, AdvanceReads
<1>6. shape' = shape /\ foreign' = foreign /\ tokenStart' = pos' /\ tokenStart \in Nat /\ pos' \in Nat
  BY <1>1, <1>2, <1>5 DEF Finish, InputOK
<1>7. Outside(state) /\ Outside(state') /\ state' \notin Openers /\ state # "CDATA"
  BY <1>2, <1>3, ClassesAreDisjoint DEF Outside
<1>8. TagPart' /\ DoctypePart' /\ state' \in States
  BY <1>2, <1>7, OutsideIsKept
<1>9. OutputPart'
  <2>1. temporary[emitAt] \in TokenValue /\ "character" \in TokenTypes
    BY <1>4 DEF TokenValue, TokenTypes
  <2> QED BY <1>1, <1>2, <1>6, <2>1, TokenIsKept
<1>10. BufferPart'
  <2>1. CASE emitAt = Len(temporary)
    BY <1>1, <1>2, <1>7, <2>1, BufferIsLeft DEF BufferPart
  <2>2. CASE emitAt # Len(temporary)
    <3>1. emitAt' = emitAt + 1 /\ emitAt' \in 1 .. Len(temporary) /\ emitAt' # 0
      BY <1>2, <1>3, <2>2
    <3>2. \A i \in emitAt' .. Len(temporary) : i \in emitAt .. Len(temporary) /\ i \in Int
      BY <1>3, <3>1
    <3>3. PendingText'
      <4>1. mark' + Len(temporary') - 1 <= Len(source')
        BY <1>1, <1>2, <1>3, <1>5 DEF Reading, InputOK
      <4> QED BY <1>2, <1>3, <1>7, <3>1, <3>2, <4>1 DEF PendingText
    <3>4. ASSUME NEW i \in emitAt' .. Len(temporary)
          PROVE  temporary[i] = source'[mark + i - 1]
      <4>1. temporary[i] = source[mark + i - 1]
        BY <1>3, <3>2
      <4>2. mark + i - 1 \in 1 .. Len(source)
        BY <1>1, <1>3, <3>1 DEF InputOK
      <4> QED BY <1>5, <4>1, <4>2 DEF Reading
    <3>5. TemporaryBufferIsTheInput'
      <4>1. pos' = mark' + emitAt' - 1
        BY <1>1, <1>2, <1>3, <1>5, <3>1 DEF InputOK
      <4> QED BY <1>2, <1>6, <3>1, <3>4, <4>1 DEF TemporaryBufferIsTheInput
    <3> QED BY <1>1, <1>2, <1>3, <3>1, <3>3, <3>5 DEF BufferPart
  <2> QED BY <2>1, <2>2
<1>11. InputOK' /\ ModePart'
  BY <1>1, <1>2, <1>5, <1>6, <1>7, <1>8, InputIsKept, ModeIsKept
<1> QED BY <1>8, <1>9, <1>10, <1>11, PartsOfInvariant


LEMMA KeptByLookAhead ==
  ASSUME IInv, LookAhead
  PROVE  IInv'
PROOF
<1>1. InputOK /\ ModePart /\ BufferPart /\ OutputPart /\ TagPart /\ DoctypePart
  BY PartsOfInvariant
<1>2. /\ Lexing /\ buffered = None /\ emitAt = 0 /\ state = "MARKUP_DECLARATION"
      /\ shape' = shape /\ pos' = pos /\ state' = state /\ foreign' = foreign /\ inCdata' = inCdata
      /\ buffered' = buffered /\ mark' = mark /\ temporary' = temporary /\ emitAt' = emitAt
      /\ scriptData' = scriptData /\ KeepTag /\ doctype' = doctype
      /\ tokenStart' = tokenStart /\ tokens' = tokens /\ handled' = handled
  BY DEF LookAhead, In, modeVars, temporaryVars, outputVars, KeepTag
<1>3. Reading /\ pos' \in 1 .. Len(source')
  <2>1. PICK u \in Following : source' = Append(source, u)
    BY DEF LookAhead
  <2>2. u \in Unit
    BY <1>1, <2>1, FollowingAreUnits DEF InputOK
  <2> QED BY <1>1, <1>2, <2>1, <2>2, Appended DEF InputOK, Reading
<1>4. Outside(state) /\ Outside(state') /\ state' \notin Openers
  BY <1>2, ClassesAreDisjoint DEF Outside
<1>5. TagPart' /\ DoctypePart' /\ state' \in States
  BY <1>2, <1>4, OutsideIsKept
<1>6. OutputPart'
  BY <1>1, <1>2, NoTokenIsKept
<1>7. BufferPart'
  BY <1>1, <1>2, <1>4, BufferIsLeft DEF BufferPart
<1>8. InputOK' /\ ModePart'
  <2>1. ModePart'
    BY <1>1, <1>2 DEF ModePart
  <2> QED BY <1>1, <1>2, <1>3, <2>1, InputIsKept
<1> QED BY <1>5, <1>6, <1>7, <1>8, PartsOfInvariant

\* What the parser notes of the state it has set changes nothing else of the token.
LEMMA TokenIsMarked ==
  ASSUME tokens \in Seq(Token), tokens # <<>>, NEW next \in {"RCDATA", "RAWTEXT", "SCRIPT", "PLAINTEXT"},
         tokens' = [tokens EXCEPT ![Len(tokens)].then = next]
  PROVE  /\ tokens' \in Seq(Token) /\ Len(tokens') = Len(tokens)
         /\ \A i \in 1 .. Len(tokens) :
              /\ tokens'[i].type = tokens[i].type /\ tokens'[i].value = tokens[i].value
              /\ tokens'[i].from = tokens[i].from /\ tokens'[i].to = tokens[i].to
              /\ tokens'[i].then = IF i = Len(tokens) THEN next ELSE tokens[i].then
PROOF
<1> DEFINE token == [tokens[Len(tokens)] EXCEPT !.then = next]
<1>1. Len(tokens) \in 1 .. Len(tokens) /\ tokens[Len(tokens)] \in Token
  OBVIOUS
<1>2. /\ token \in Token /\ token.type = tokens[Len(tokens)].type
      /\ token.value = tokens[Len(tokens)].value
      /\ token.from = tokens[Len(tokens)].from /\ token.to = tokens[Len(tokens)].to
      /\ token.then = next
  BY <1>1 DEF Token
<1>3. tokens' = [tokens EXCEPT ![Len(tokens)] = token]
  OBVIOUS
<1> HIDE DEF token
<1>4. /\ tokens' \in Seq(Token) /\ Len(tokens') = Len(tokens)
      /\ \A i \in 1 .. Len(tokens) : tokens'[i] = IF i = Len(tokens) THEN token ELSE tokens[i]
  BY <1>1, <1>2, <1>3
<1> QED BY <1>2, <1>4

LEMMA KeptByHandleToken ==
  ASSUME IInv, HandleToken
  PROVE  IInv'
PROOF
<1>1. InputOK /\ ModePart /\ BufferPart /\ OutputPart /\ TagPart /\ DoctypePart
  BY PartsOfInvariant
<1>2. /\ handled < Len(tokens) /\ handled' = Len(tokens)
      /\ shape' = shape /\ source' = source /\ pos' = pos /\ inCdata' = inCdata /\ buffered' = buffered
      /\ mark' = mark /\ temporary' = temporary /\ emitAt' = emitAt /\ scriptData' = scriptData
      /\ KeepTag /\ doctype' = doctype /\ tokenStart' = tokenStart
  BY DEF HandleToken, inputVars, temporaryVars, KeepTag
<1>3. tokens \in Seq(Token) /\ Len(tokens) \in Nat /\ handled \in Nat /\ tokens # <<>>
  BY <1>1, <1>2 DEF OutputPart, OutputOK
<1>4. InputOK'
  BY <1>1, <1>2 DEF InputOK
<1>5. ASSUME tokens' \in Seq(Token), Len(tokens') = Len(tokens),
             \A i \in 1 .. Len(tokens) :
               tokens'[i].type = tokens[i].type /\ tokens'[i].value = tokens[i].value
      PROVE  OutputPart'
  <2>1. OutputOK' /\ JustEmitted'
    BY <1>2, <1>3, <1>5 DEF OutputOK, JustEmitted
  <2>2. FirstDoctypeHasStrings'
    BY <1>1, <1>3, <1>5 DEF OutputPart, FirstDoctypeHasStrings
  <2>3. ASSUME NEW i \in 1 .. Len(tokens'), tokens'[i].type = "start"
        PROVE  Distinct(tokens'[i].value.attributes)
    BY <1>1, <1>5, <2>3 DEF OutputPart
  <2> QED BY <2>1, <2>2, <2>3 DEF OutputPart
<1>6. CASE /\ Last.type = "start" /\ Last.value.name \in DOMAIN TextStates
           /\ state' = TextStates[Last.value.name]
           /\ tokens' = [tokens EXCEPT ![Len(tokens)].then = state']
           /\ foreign' = FALSE
  <2>1. state = "DATA" /\ emitAt = 0 /\ buffered = None
    BY <1>1, <1>2, <1>6 DEF OutputPart, JustEmitted
  <2>2. state' \in {"RCDATA", "RAWTEXT", "SCRIPT", "PLAINTEXT"}
    BY <1>6, TextStatesAssumption
  <2>3. OutputPart'
    BY <1>3, <1>5, <1>6, <2>2, TokenIsMarked
  <2>4. /\ state \in Text /\ Outside(state) /\ Outside(state') /\ state' \notin Openers /\ state # "CDATA"
    <3>1. state \in Text /\ state' \in Text
      BY <2>1, <2>2 DEF Text, DataStates
    <3> QED BY <3>1, ClassesAreDisjoint DEF Outside
  <2>5. TagPart' /\ DoctypePart' /\ state' \in States
    BY <1>2, <2>4, OutsideIsKept
  <2>6. BufferPart'
    BY <1>1, <1>2, <2>1, <2>4, BufferIsLeft DEF BufferPart
  <2>7. ModePart'
    BY <1>1, <1>2, <1>6, <2>4, <2>5 DEF ModePart
  <2> QED BY <1>4, <2>3, <2>5, <2>6, <2>7, PartsOfInvariant
<1>7. CASE /\ foreign' \in IF Last.type \in {"start", "end"} /\ ForeignSeen THEN BOOLEAN ELSE {foreign}
           /\ state' = state /\ tokens' = tokens
  <2>1. OutputPart'
    BY <1>3, <1>5, <1>7
  <2>2. ModePart'
    BY <1>1, <1>2, <1>7 DEF ModePart
  <2>3. DoctypePart'
    BY <1>1, <1>2, <1>7 DEF DoctypePart, DoctypeIsFresh, DoctypeGone
  <2>4. TagPart'
    <3>1. tag' = tag /\ lastStartTag' = lastStartTag /\ attrValueState' = attrValueState
      BY <1>2 DEF KeepTag, tagVars
    <3>2. ValuesHaveTheirAttribute' /\ Distinct(tag.attributes)'
      BY <1>1, <1>7, <3>1 DEF TagPart, ValuesHaveTheirAttribute, Distinct
    <3> QED BY <1>1, <1>7, <3>1, <3>2 DEF TagPart
  <2>5. BufferPart'
    <3>1. PendingText'
      BY <1>1, <1>2, <1>7 DEF BufferPart, PendingText
    <3>2. TemporaryBufferIsTheInput'
      BY <1>1, <1>2, <1>7 DEF BufferPart, TemporaryBufferIsTheInput
    <3> QED BY <1>1, <1>2, <3>1, <3>2 DEF BufferPart
  <2> QED BY <1>4, <2>1, <2>2, <2>3, <2>4, <2>5, PartsOfInvariant
<1> QED BY <1>6, <1>7 DEF HandleToken

LEMMA KeptByStuttering ==
  ASSUME IInv, UNCHANGED vars
  PROVE  IInv'
PROOF
<1>1. /\ shape' = shape /\ source' = source /\ pos' = pos /\ state' = state /\ foreign' = foreign
      /\ inCdata' = inCdata /\ buffered' = buffered /\ mark' = mark /\ temporary' = temporary
      /\ emitAt' = emitAt /\ scriptData' = scriptData /\ tag' = tag /\ lastStartTag' = lastStartTag
      /\ attrValueState' = attrValueState /\ doctype' = doctype /\ tokenStart' = tokenStart
      /\ tokens' = tokens /\ handled' = handled
  BY DEF vars, inputVars, modeVars, temporaryVars, tagVars, outputVars
<1>2. InputOK' /\ OutputOK' /\ BuffersOK' /\ PendingText' /\ JustEmitted'
  BY <1>1 DEF IInv, InputOK, OutputOK, BuffersOK, PendingText, JustEmitted, Last
<1>3. TemporaryBufferIsTheInput' /\ OwnedWhileOpen' /\ ValuesHaveTheirAttribute'
  BY <1>1 DEF IInv, TemporaryBufferIsTheInput, OwnedWhileOpen, ValuesHaveTheirAttribute
<1>4. NamesAreDistinct'
  BY <1>1 DEF IInv, NamesAreDistinct, Distinct
<1>5. DoctypeIsFresh' /\ DoctypeGone' /\ FirstDoctypeHasStrings'
  BY <1>1 DEF IInv, DoctypeIsFresh, DoctypeGone, FirstDoctypeHasStrings
<1> QED BY <1>2, <1>3, <1>4, <1>5 DEF IInv

LEMMA Keeping ==
  ASSUME IInv, [Next]_vars
  PROVE  IInv'
PROOF
<1>1. CASE TextKind
  BY <1>1, KeptByText, KeptByEmitsReference, KeptByOpensTag, KeptByReadsSlash, KeptByGivesBack DEF TextKind
<1>2. CASE OpeningKind
  BY <1>2, KeptByBeginnings, KeptByOpenings, KeptByEmitsTag DEF OpeningKind
<1>3. CASE TagKind
  BY <1>3, KeptByReadsTag, KeptByEmitsTag, KeptByAbandonsTag DEF TagKind
<1>4. CASE MarkupKind
  BY <1>4, KeptByBeginnings, KeptByComments, KeptBySections, KeptByDoctypes DEF MarkupKind
<1>5. CASE EmitBuffered \/ FlushTemporary \/ LookAhead \/ HandleToken
  BY <1>5, KeptByEmitBuffered, KeptByFlush, KeptByLookAhead, KeptByHandleToken
<1>6. CASE UNCHANGED vars
  BY <1>6, KeptByStuttering
<1> QED BY <1>1, <1>2, <1>3, <1>4, <1>5, <1>6, KindsOfSteps

LEMMA Beginning ==
  ASSUME Init
  PROVE  IInv
PROOF
<1>1. PICK u \in shape[1] \union {EOF} : source = <<u>>
  BY DEF Init
<1>2. /\ shape \in Shapes /\ pos = 1 /\ mark = 1 /\ tokenStart = 1
      /\ state = "DATA" /\ foreign = FALSE /\ inCdata = FALSE
      /\ buffered = None /\ temporary = <<>> /\ emitAt = 0 /\ scriptData = <<>>
      /\ tag = NoTag /\ lastStartTag = <<>> /\ attrValueState = None
      /\ doctype = NoDoctype /\ tokens = <<>> /\ handled = 0
  BY DEF Init
<1>3. u \in Unit
  <2>1. shape \in Seq(SUBSET (STRING \ {EOF, None})) /\ shape # <<>>
    BY <1>2, ShapesAssumption
  <2>2. 1 \in DOMAIN shape
    BY <2>1
  <2>3. shape[1] \subseteq PageUnits
    BY <1>2, <2>2 DEF PageUnits
  <2> QED BY <2>3 DEF Unit
<1>4. InputOK
  BY <1>1, <1>2, <1>3 DEF InputOK
<1>5. <<>> \in Seq(Unit) /\ <<>> \in Seq(Attribute) /\ <<>> \in Seq(Token) /\ Len(<<>>) = 0
  OBVIOUS
<1>6. OutputPart
  BY <1>2, <1>5 DEF OutputPart, OutputOK, JustEmitted, FirstDoctypeHasStrings
<1>7. state \in Text /\ state \notin Openers
      /\ state \notin TagStates \union EndTagNameStates \union DoctypeStates \union {"BOGUS_DOCTYPE", "CDATA"}
  <2>1. state \in Text
    BY <1>2 DEF Text, DataStates
  <2> QED BY <2>1, ClassesAreDisjoint DEF Openers
<1>8. ModePart
  BY <1>2, <1>7 DEF ModePart, States, Text
<1>9. BufferPart
  BY <1>2, <1>5, <1>7 DEF BufferPart, PendingText, TemporaryBufferIsTheInput, Openers
<1>10. DoctypePart
  <2>1. NoDoctype \in DoctypeType /\ ~NoDoctype.strings
    BY <1>5 DEF NoDoctype, DoctypeType
  <2> QED BY <1>2, <1>7, <2>1 DEF DoctypePart, DoctypeIsFresh, DoctypeGone
<1>11. TagPart
  <2>1. NoTag \in TagType /\ ~NoTag.open /\ NoTag.attributes = <<>>
    BY <1>5 DEF NoTag, TagType
  <2>2. ValuesHaveTheirAttribute
    BY <1>2 DEF ValuesHaveTheirAttribute, ValueStates
  <2>3. Distinct(<<>>)
    BY DEF Distinct
  <2> QED BY <1>2, <1>5, <1>7, <2>1, <2>2, <2>3 DEF TagPart
<1> QED BY <1>4, <1>6, <1>8, <1>9, <1>10, <1>11, PartsOfInvariant

-----------------------------------------------------------------------------
(***************************************************************************)
(* The theorems.                                                           *)
(***************************************************************************)

\* The inductive invariant holds of every page, however it is cut into tokens.
THEOREM TokenizerInvariance == Spec => []IInv
PROOF
<1>1. Init => IInv
  BY Beginning
<1>2. IInv /\ [Next]_vars => IInv'
  BY Keeping
<1> QED BY <1>1, <1>2, PTL DEF Spec

\* The iterator, the mark and the start of the token stay within the page, and what is buffered was
\* on the page or was written by the tokenizer.
THEOREM TokenizerTypeCorrect == Spec => []TokenizerTypeOK
PROOF
<1>1. IInv => TokenizerTypeOK
  <2> SUFFICES ASSUME IInv PROVE TokenizerTypeOK
    OBVIOUS
  <2>1. tag.buffer \in Seq(Unit)
    BY DEF IInv, BuffersOK, TagType
  <2>2. handled \in {Len(tokens) - 1, Len(tokens)}
    BY DEF IInv, OutputOK
  <2> QED BY <2>1, <2>2 DEF IInv, InputOK, BuffersOK, TokenizerTypeOK
<1> QED BY <1>1, TokenizerInvariance, PTL

\* Whatever the tokenizer has begun to read as a tag, what it goes back over is what it had read:
\* the assertions of the "<" and "</" states and of maybe_emit_from_temporary_buffer hold.
THEOREM GoingBack == Spec => []TemporaryBufferIsTheInput
PROOF
<1>1. IInv => TemporaryBufferIsTheInput
  BY DEF IInv
<1> QED BY <1>1, TokenizerInvariance, PTL

\* What a tag or a doctype has allocated is there while it is read and at no other time: the
\* assertions of start_new_tag and gumbo_tokenizer_state_destroy hold, and finish_attribute_value
\* never writes to an attribute that is not there or that has a value.
THEOREM Ownership == Spec => []OwnedWhileOpen
PROOF
<1>1. IInv => OwnedWhileOpen
  BY DEF IInv
<1> QED BY <1>1, TokenizerInvariance, PTL

\* The parser is never given a tag with two attributes of one name.
THEOREM AttributeNames == Spec => []NamesAreDistinct
PROOF
<1>1. IInv => NamesAreDistinct
  BY DEF IInv
<1> QED BY <1>1, TokenizerInvariance, PTL

\* The parser is given a doctype without strings only after one with strings.
THEOREM DoctypesWithoutStrings == Spec => []FirstDoctypeHasStrings
PROOF
<1>1. IInv => FirstDoctypeHasStrings
  BY DEF IInv
<1> QED BY <1>1, TokenizerInvariance, PTL
=============================================================================
