-------------------------- MODULE TextContentProofs --------------------------
(***************************************************************************)
(* For every page and every element whose content is read as text: its     *)
(* content ends with its own end tag and with nothing else, and the first  *)
(* such tag does end it (is_appropriate_end_tag).                          *)
(***************************************************************************)
EXTENDS TokenizerProofs

-----------------------------------------------------------------------------
(***************************************************************************)
(* The inductive invariant, beside that of TokenizerProofs.                *)
(***************************************************************************)

\* The states in which the content of an element is read, for each way of reading it.
Escapes ==
  ScriptStates \union {"SCRIPT_ESCAPED_LT", "SCRIPT_ESCAPED_END_TAG_OPEN", "SCRIPT_ESCAPED_END_TAG_NAME"}
Content(way) ==
  CASE way = "RCDATA" -> {"RCDATA", "CHAR_REF_IN_RCDATA", "RCDATA_LT", "RCDATA_END_TAG_OPEN", "RCDATA_END_TAG_NAME"}
    [] way = "RAWTEXT" -> {"RAWTEXT", "RAWTEXT_LT", "RAWTEXT_END_TAG_OPEN", "RAWTEXT_END_TAG_NAME"}
    [] way = "SCRIPT" -> {"SCRIPT", "SCRIPT_LT", "SCRIPT_END_TAG_OPEN", "SCRIPT_END_TAG_NAME"} \union Escapes
    [] way = "PLAINTEXT" -> {"PLAINTEXT"}
    [] OTHER -> {}

\* What has been emitted since the i-th token.
Texts(i, j) == \A k \in i + 1 .. j : tokens[k].type \in TextTypes
Characters(i, j) == \A k \in i + 1 .. j : tokens[k].type = "character"
Bang(i, j) == \E k \in i + 1 .. j : tokens[k].value = "!"
Placeable(j, k) == \A m \in j .. k : tokens[m].value # "second"

\* The content of the element the i-th token began: it is being read, ...
Inside(i) ==
  /\ state \in Content(tokens[i].then) /\ lastStartTag = tokens[i].value.name
  /\ tokenStart = Last.to
  /\ state \in Text => tokenStart = pos
  /\ state \in Openers => tokenStart = mark
  /\ state \in Escapes => Bang(i, Len(tokens)) \/ (emitAt = 2 /\ temporary = <<"<", "!">>)

\* ... its end tag is, ...
Leaving(i) ==
  /\ state \in TagStates \ {"TAG_NAME"} /\ tokens[i].then # "PLAINTEXT"
  /\ ~tag.isStart /\ tag.name = tokens[i].value.name

\* ... the page has ended, ...
Over == state = "DATA" /\ Current = EOF /\ emitAt = 0 /\ buffered = None

\* ... or the end tag has been emitted.
Ends(i, k) ==
  tokens[k].type = "end" /\ tokens[k].value.name = tokens[i].value.name /\ tokens[i].then # "PLAINTEXT"
Closed(i) == \E k \in i + 1 .. Len(tokens) : Ends(i, k) /\ Texts(i, k - 1)

Open(i) == Texts(i, Len(tokens)) /\ (Inside(i) \/ Leaving(i) \/ Over)

\* What stands m units after the "<" of the end tag of a name.
Written(name, m) == IF m = 1 THEN "/" ELSE IF m = Len(name) + 2 THEN ">" ELSE name[m - 1]
Differs(s, p, name) == \E m \in 1 .. Len(name) + 2 : p + m <= Len(s) /\ Lower(s[p + m]) # Written(name, m)

\* The characters of the content follow one another on the page, and where one is a "<" no end
\* tag begins, unless a "!" has come before it.
Stands(i, j) ==
  /\ tokens[j].value # "second" =>
       /\ tokens[j].from \in 1 .. Len(source) /\ source[tokens[j].from] = tokens[j].value
       /\ tokens[j].to = tokens[j].from + 1
  /\ \A k \in i + 1 .. j : Placeable(k, j) => tokens[j].from = tokens[k].from + (j - k)
  /\ tokens[j].value = "<" =>
       \/ tokens[i].then = "PLAINTEXT" \/ Bang(i, j)
       \/ Differs(source, tokens[j].from, tokens[i].value.name)

ContentRead(i) ==
  /\ i <= handled
  /\ tokens[i].value.name \in DOMAIN TextStates /\ tokens[i].then = TextStates[tokens[i].value.name]
  /\ \A j \in i + 1 .. Len(tokens) : Characters(i, j) => Stands(i, j)
  /\ Closed(i) \/ Open(i)

\* The name of an end tag is what has been read of it.
EndTagRead ==
  state \in EndTagNameStates =>
    /\ ~tag.isStart /\ temporary[2] = "/" /\ Len(tag.buffer) = Len(temporary) - 2
    /\ \A k \in 1 .. Len(tag.buffer) : temporary[k + 2] \in Letters /\ tag.buffer[k] = Lower(temporary[k + 2])

\* A character reference is read where it begins.
AtReference == state \in ReferenceStates => Current \in References

\* Of what is given back only the first unit is a "<".
OnlyOneLt == emitAt # 0 => \A k \in emitAt .. Len(temporary) : temporary[k] # "<"

\* When the parser sees a token, the next one begins where it ended, and the tokenizer knows its name.
StartSeen ==
  handled < Len(tokens) =>
    tokenStart = Last.to /\ (Last.type = "start" => lastStartTag = Last.value.name)

ContentInv ==
  /\ EndTagRead /\ AtReference /\ OnlyOneLt /\ StartSeen
  /\ \A i \in 1 .. Len(tokens) : tokens[i].then # None => ContentRead(i)

-----------------------------------------------------------------------------
(***************************************************************************)
(* The content of an element is left in three ways only.                   *)
(***************************************************************************)
Ways == {"RCDATA", "RAWTEXT", "SCRIPT", "PLAINTEXT"}
StaysIn(s, r) == \A way \in Ways : s \in Content(way) => r \in Content(way)

Moves ==
  /\ \/ StaysIn(state, state')
     \/ state \in ScriptStates /\ state' = "DATA" /\ Current = EOF
     \/ state \in EndTagNameStates /\ IsAppropriateEndTag /\ EndsTagName
  /\ state' \in Escapes =>
       state \in Escapes \/ (state = "SCRIPT_LT" /\ Current = "!" /\ temporary' = Append(temporary, "!"))
  /\ state = "DATA" /\ Current = EOF => state' = "DATA"

\* The states of each way, written out.
LEMMA Contents ==
  /\ Content("RCDATA") =
       {"RCDATA", "CHAR_REF_IN_RCDATA", "RCDATA_LT", "RCDATA_END_TAG_OPEN", "RCDATA_END_TAG_NAME"}
  /\ Content("RAWTEXT") = {"RAWTEXT", "RAWTEXT_LT", "RAWTEXT_END_TAG_OPEN", "RAWTEXT_END_TAG_NAME"}
  /\ Content("SCRIPT") = {"SCRIPT", "SCRIPT_LT", "SCRIPT_END_TAG_OPEN", "SCRIPT_END_TAG_NAME"} \union Escapes
  /\ Content("PLAINTEXT") = {"PLAINTEXT"}
PROOF BY DEF Content

LEMMA ScriptContents ==
  \A s : s \in Content("SCRIPT") <=>
    s \in {"SCRIPT", "SCRIPT_LT", "SCRIPT_END_TAG_OPEN", "SCRIPT_END_TAG_NAME",
           "SCRIPT_ESCAPED_START", "SCRIPT_ESCAPED_START_DASH", "SCRIPT_ESCAPED", "SCRIPT_ESCAPED_DASH",
           "SCRIPT_ESCAPED_DASH_DASH", "SCRIPT_DOUBLE_ESCAPED_START", "SCRIPT_DOUBLE_ESCAPED",
           "SCRIPT_DOUBLE_ESCAPED_DASH", "SCRIPT_DOUBLE_ESCAPED_DASH_DASH", "SCRIPT_DOUBLE_ESCAPED_LT",
           "SCRIPT_DOUBLE_ESCAPED_END", "SCRIPT_ESCAPED_LT", "SCRIPT_ESCAPED_END_TAG_OPEN",
           "SCRIPT_ESCAPED_END_TAG_NAME"}
PROOF
<1>1. Content("SCRIPT") = {"SCRIPT", "SCRIPT_LT", "SCRIPT_END_TAG_OPEN", "SCRIPT_END_TAG_NAME"} \union Escapes
  BY Contents
<1> QED BY <1>1, SMT DEF Escapes, ScriptStates

\* No state belongs to two of them, and none to them that is no state of text.
LEMMA ContentsApart ==
  /\ \A v, w \in Ways : \A s : s \in Content(v) /\ s \in Content(w) => v = w
  /\ \A w \in Ways : \A s \in Content(w) : s \in Text \union Openers /\ s \notin {"DATA", "CHAR_REF_IN_DATA", "TAG_OPEN", "END_TAG_OPEN"}
  /\ Content("PLAINTEXT") \subseteq Text
PROOF
<1>1. \A s : s \in Content("RCDATA") => s \notin Content("RAWTEXT") \union Content("SCRIPT") \union Content("PLAINTEXT")
  BY Contents, ScriptContents
<1>2. \A s : s \in Content("RAWTEXT") => s \notin Content("SCRIPT") \union Content("PLAINTEXT")
  BY Contents, ScriptContents
<1>3. \A s : s \in Content("SCRIPT") => s \notin Content("PLAINTEXT")
  BY Contents, ScriptContents
<1>4. \A v, w \in Ways : \A s : s \in Content(v) /\ s \in Content(w) => v = w
  BY <1>1, <1>2, <1>3 DEF Ways
<1>5. \A s \in Content("RCDATA") \union Content("RAWTEXT") \union Content("PLAINTEXT") :
        s \in Text \union Openers /\ s \notin {"DATA", "CHAR_REF_IN_DATA", "TAG_OPEN", "END_TAG_OPEN"}
  BY Contents, SMTT(60) DEF Text, DataStates, Openers, LtStates, EndTagOpenStates, EndTagNameStates
<1>6. \A s \in Content("SCRIPT") :
        s \in Text \union Openers /\ s \notin {"DATA", "CHAR_REF_IN_DATA", "TAG_OPEN", "END_TAG_OPEN"}
  BY ScriptContents, SMTT(60)
  DEF Text, DataStates, ScriptStates, Openers, LtStates, EndTagOpenStates, EndTagNameStates
<1>7. "PLAINTEXT" \in Text
  BY DEF Text, DataStates
<1> QED BY <1>4, <1>5, <1>6, <1>7, Contents, Zenon DEF Ways

\* A step within the content stays in it.
LEMMA MovesWithin ==
  ASSUME NEW way \in Ways, state \in Content(way), state' \in Content(way),
         state' \in Escapes => state \in Escapes \/ (state = "SCRIPT_LT" /\ Current = "!" /\ temporary' = Append(temporary, "!"))
  PROVE  Moves
PROOF
<1>1. StaysIn(state, state')
  BY ContentsApart DEF StaysIn
<1>2. state # "DATA"
  BY ContentsApart
<1> QED BY <1>1, <1>2 DEF Moves

\* A step outside of all content that does not enter an escaped script.
LEMMA MovesOutside ==
  ASSUME \A way \in Ways : state \notin Content(way), state' \notin Escapes,
         state = "DATA" /\ Current = EOF => state' = "DATA"
  PROVE  Moves
PROOF BY DEF Moves, StaysIn

\* Where the operations go.
LEMMA Goes ==
  /\ \A s, special : EmitText(s, special) => state = s /\ state' = s
  /\ \A s, next : LessThan(s, next) => state = s /\ state' = next /\ Current = "<"
  /\ \A s, next : Ampersand(s, next) => state = s /\ state' = next /\ Current \in References
  /\ \A s, open, text : TextLt(s, open, text) => state = s /\ state' \in {open, text}
  /\ \A s, name, text : TextEndTagOpen(s, name, text) => state = s /\ state' \in {name, text}
  /\ \A s, text : TextEndTagName(s, text) => state = s /\ (state' \in {s, text} \/ (IsAppropriateEndTag /\ EndsTagName))
  /\ \A s, next : EscapedStart(s, next) => state = s /\ state' \in {next, "SCRIPT"}
  /\ \A s, a, b : DoubleEscape(s, a, b) => state = s /\ state' \in {a, b, s}
  /\ \A s, dash : DoubleEscaped(s, dash) =>
       /\ state = s
       /\ \/ state' \in {dash, "SCRIPT_DOUBLE_ESCAPED_LT", "SCRIPT", "SCRIPT_DOUBLE_ESCAPED"}
          \/ Current = EOF /\ state' = "DATA"
PROOF
<1> USE DEF In, Emit, EmitCurrentChar, NextChar, Reconsume, EmitTemporary
<1>1. \A s, special : EmitText(s, special) => state = s /\ state' = s
  BY DEF EmitText
<1>2. \A s, next : LessThan(s, next) => state = s /\ state' = next /\ Current = "<"
  BY DEF LessThan
<1>3. \A s, next : Ampersand(s, next) => state = s /\ state' = next /\ Current \in References
  BY DEF Ampersand
<1>4. \A s, open, text : TextLt(s, open, text) => state = s /\ state' \in {open, text}
  BY DEF TextLt
<1>5. \A s, name, text : TextEndTagOpen(s, name, text) => state = s /\ state' \in {name, text}
  BY DEF TextEndTagOpen
<1>6. \A s, text : TextEndTagName(s, text) => state = s /\ (state' \in {s, text} \/ (IsAppropriateEndTag /\ EndsTagName))
  BY DEF TextEndTagName, EndsTagName
<1>7. \A s, next : EscapedStart(s, next) => state = s /\ state' \in {next, "SCRIPT"}
  BY DEF EscapedStart
<1>8. \A s, a, b : DoubleEscape(s, a, b) => state = s /\ state' \in {a, b, s}
  BY DEF DoubleEscape
<1>9. \A s, dash : DoubleEscaped(s, dash) =>
        /\ state = s
        /\ \/ state' \in {dash, "SCRIPT_DOUBLE_ESCAPED_LT", "SCRIPT", "SCRIPT_DOUBLE_ESCAPED"}
           \/ Current = EOF /\ state' = "DATA"
  <2> SUFFICES ASSUME NEW s, NEW dash, DoubleEscaped(s, dash)
               PROVE  /\ state = s
                      /\ \/ state' \in {dash, "SCRIPT_DOUBLE_ESCAPED_LT", "SCRIPT", "SCRIPT_DOUBLE_ESCAPED"}
                         \/ Current = EOF /\ state' = "DATA"
    OBVIOUS
  <2> QED BY DEF DoubleEscaped
<1> QED BY Zenon, <1>1, <1>2, <1>3, <1>4, <1>5, <1>6, <1>7, <1>8, <1>9

\* Where a reference goes.
LEMMA ReferenceGoes == \A s, next : CharRef(s, next) => state = s /\ state' = next
PROOF BY Zenon DEF CharRef, EmitCharRef, In

\* The handlers of data, RCDATA, raw text and plain text.
LEMMA PlainMoves ==
  ASSUME \/ DataState \/ CharRefInDataState \/ RcdataState \/ CharRefInRcdataState
         \/ RawtextState \/ PlaintextState \/ RcdataLtState \/ RawtextLtState
  PROVE  Moves
PROOF
<1>1. /\ {"RCDATA", "CHAR_REF_IN_RCDATA", "RCDATA_LT", "RCDATA_END_TAG_OPEN"} \subseteq Content("RCDATA")
      /\ {"RAWTEXT", "RAWTEXT_LT", "RAWTEXT_END_TAG_OPEN"} \subseteq Content("RAWTEXT")
      /\ "PLAINTEXT" \in Content("PLAINTEXT")
  BY Contents
<1>2. "RCDATA" \in Ways /\ "RAWTEXT" \in Ways /\ "PLAINTEXT" \in Ways
  BY DEF Ways
<1>3. \A s \in {"DATA", "CHAR_REF_IN_DATA", "TAG_OPEN", "RCDATA", "CHAR_REF_IN_RCDATA", "RCDATA_LT",
                "RCDATA_END_TAG_OPEN", "RAWTEXT", "RAWTEXT_LT", "RAWTEXT_END_TAG_OPEN", "PLAINTEXT"} : s \notin Escapes
  BY DEF Escapes, ScriptStates
<1>4. \A s \in {"DATA", "CHAR_REF_IN_DATA"} : \A way \in Ways : s \notin Content(way)
  BY ContentsApart
<1>5. EOF # "<" /\ EOF \notin References
  BY Zenon DEF EOF, References
<1>6. CASE DataState
  <2>1. state = "DATA" /\ state' \in {"DATA", "TAG_OPEN", "CHAR_REF_IN_DATA"}
        /\ (state' # "DATA" => Current = "<" \/ Current \in References)
    BY <1>6, Goes DEF DataState
  <2> QED BY <1>3, <1>4, <1>5, <2>1, MovesOutside
<1>7. CASE CharRefInDataState
  <2>1. state = "CHAR_REF_IN_DATA" /\ state' = "DATA"
    BY <1>7, ReferenceGoes DEF CharRefInDataState
  <2> QED BY <1>3, <1>4, <2>1, MovesOutside
<1>8. CASE RcdataState \/ CharRefInRcdataState \/ RcdataLtState
  <2>1. /\ state \in {"RCDATA", "CHAR_REF_IN_RCDATA", "RCDATA_LT"}
        /\ state' \in {"RCDATA", "CHAR_REF_IN_RCDATA", "RCDATA_LT", "RCDATA_END_TAG_OPEN"}
    BY <1>8, Goes, ReferenceGoes DEF RcdataState, CharRefInRcdataState, RcdataLtState
  <2> QED BY <1>1, <1>2, <1>3, <2>1, MovesWithin
<1>9. CASE RawtextState \/ RawtextLtState
  <2>1. state \in {"RAWTEXT", "RAWTEXT_LT"} /\ state' \in {"RAWTEXT", "RAWTEXT_LT", "RAWTEXT_END_TAG_OPEN"}
    BY <1>9, Goes DEF RawtextState, RawtextLtState
  <2> QED BY <1>1, <1>2, <1>3, <2>1, MovesWithin
<1>10. CASE PlaintextState
  <2>1. state = "PLAINTEXT" /\ state' = "PLAINTEXT"
    BY <1>10, Goes DEF PlaintextState
  <2> QED BY <1>1, <1>2, <1>3, <2>1, MovesWithin
<1> QED BY <1>6, <1>7, <1>8, <1>9, <1>10

\* A script stays a script, unless the page ends.
LEMMA ScriptMoves ==
  ASSUME \/ ScriptState \/ ScriptLtState \/ ScriptEscapedLtState
         \/ ScriptEscapedStartState \/ ScriptEscapedStartDashState
         \/ ScriptEscapedState \/ ScriptEscapedDashState \/ ScriptEscapedDashDashState
         \/ ScriptDoubleEscapedStartState \/ ScriptDoubleEscapedState \/ ScriptDoubleEscapedDashState
         \/ ScriptDoubleEscapedDashDashState \/ ScriptDoubleEscapedLtState \/ ScriptDoubleEscapedEndState
  PROVE  Moves
PROOF
<1>1. "SCRIPT" \in Ways /\ Escapes \subseteq Content("SCRIPT")
      /\ {"SCRIPT", "SCRIPT_LT", "SCRIPT_END_TAG_OPEN"} \subseteq Content("SCRIPT")
  BY Contents DEF Ways
<1>2. \A s : s \in ScriptStates <=>
        s \in {"SCRIPT_ESCAPED_START", "SCRIPT_ESCAPED_START_DASH", "SCRIPT_ESCAPED", "SCRIPT_ESCAPED_DASH",
               "SCRIPT_ESCAPED_DASH_DASH", "SCRIPT_DOUBLE_ESCAPED_START", "SCRIPT_DOUBLE_ESCAPED",
               "SCRIPT_DOUBLE_ESCAPED_DASH", "SCRIPT_DOUBLE_ESCAPED_DASH_DASH", "SCRIPT_DOUBLE_ESCAPED_LT",
               "SCRIPT_DOUBLE_ESCAPED_END"}
  BY DEF ScriptStates
<1>3. /\ ScriptStates \subseteq Escapes
      /\ "SCRIPT_ESCAPED_LT" \in Escapes /\ "SCRIPT_ESCAPED_END_TAG_OPEN" \in Escapes
      /\ "SCRIPT" \notin Escapes /\ "SCRIPT_LT" \notin Escapes /\ "SCRIPT_END_TAG_OPEN" \notin Escapes
  BY <1>2 DEF Escapes
\* Steps within an escaped script, or out of the escape, and those that find the end of the page.
<1>4. ASSUME state \in Escapes, state' \in Escapes \union {"SCRIPT"}
      PROVE  Moves
  BY <1>1, <1>3, <1>4, MovesWithin
<1>5. ASSUME state \in ScriptStates, state' = "DATA", Current = EOF
      PROVE  Moves
  <2>1. state' \notin Escapes /\ state # "DATA"
    BY <1>2, <1>5 DEF Escapes
  <2> QED BY <1>5, <2>1 DEF Moves
<1>6. CASE ScriptState
  <2>1. state = "SCRIPT" /\ state' \in {"SCRIPT", "SCRIPT_LT"}
    BY <1>6, Goes DEF ScriptState
  <2> QED BY <1>1, <1>3, <2>1, MovesWithin
<1>7. CASE ScriptLtState
  <2>1. CASE TextLt("SCRIPT_LT", "SCRIPT_END_TAG_OPEN", "SCRIPT")
    <3>1. state = "SCRIPT_LT" /\ state' \in {"SCRIPT_END_TAG_OPEN", "SCRIPT"}
      BY <2>1, Goes
    <3> QED BY <1>1, <1>3, <3>1, MovesWithin
  <2>2. CASE /\ In("SCRIPT_LT") /\ Current = "!"
             /\ EmitTemporary("SCRIPT_ESCAPED_START", Append(temporary, "!"), scriptData)
    <3>1. state = "SCRIPT_LT" /\ state' = "SCRIPT_ESCAPED_START" /\ temporary' = Append(temporary, "!")
      BY <2>2 DEF In, EmitTemporary
    <3>2. state' \in Content("SCRIPT")
      BY <1>1, <1>2, <1>3, <3>1
    <3> QED BY <1>1, <2>2, <3>1, <3>2, MovesWithin
  <2> QED BY <1>7, <2>1, <2>2 DEF ScriptLtState
<1>8. CASE ScriptEscapedLtState
  <2>1. state = "SCRIPT_ESCAPED_LT"
        /\ state' \in {"SCRIPT_ESCAPED_END_TAG_OPEN", "SCRIPT_DOUBLE_ESCAPED_START", "SCRIPT_ESCAPED"}
    BY <1>8 DEF ScriptEscapedLtState, In, NextChar, EmitTemporary
  <2> QED BY <1>2, <1>3, <1>4, <2>1
<1>9. CASE ScriptEscapedStartState \/ ScriptEscapedStartDashState
  <2>1. /\ state \in {"SCRIPT_ESCAPED_START", "SCRIPT_ESCAPED_START_DASH"}
        /\ state' \in {"SCRIPT_ESCAPED_START_DASH", "SCRIPT_ESCAPED_DASH_DASH", "SCRIPT"}
    BY <1>9, Goes DEF ScriptEscapedStartState, ScriptEscapedStartDashState
  <2> QED BY <1>2, <1>3, <1>4, <2>1
<1>10. CASE ScriptEscapedState \/ ScriptEscapedDashState
  <2>1. /\ state \in {"SCRIPT_ESCAPED", "SCRIPT_ESCAPED_DASH"}
        /\ \/ state' \in {"SCRIPT_ESCAPED", "SCRIPT_ESCAPED_DASH", "SCRIPT_ESCAPED_DASH_DASH", "SCRIPT_ESCAPED_LT"}
           \/ state' = "DATA" /\ Current = EOF
    BY <1>10, Goes DEF ScriptEscapedState, ScriptEscapedDashState, In, NextChar, EmitCurrentChar, Emit
  <2> QED BY <1>2, <1>3, <1>4, <1>5, <2>1
<1>11. CASE ScriptEscapedDashDashState
  <2>1. AfterDashDash("SCRIPT_ESCAPED_DASH_DASH", "SCRIPT_ESCAPED")
          \in {"SCRIPT_ESCAPED", "SCRIPT", "SCRIPT_ESCAPED_DASH_DASH"}
    BY DEF AfterDashDash
  <2>2. /\ state = "SCRIPT_ESCAPED_DASH_DASH"
        /\ \/ state' \in {"SCRIPT_ESCAPED", "SCRIPT", "SCRIPT_ESCAPED_DASH_DASH", "SCRIPT_ESCAPED_LT"}
           \/ state' = "DATA" /\ Current = EOF
    BY <1>11, <2>1, Goes DEF ScriptEscapedDashDashState, In, NextChar, EmitCurrentChar, Emit
  <2> QED BY <1>2, <1>3, <1>4, <1>5, <2>2
<1>12. CASE ScriptDoubleEscapedStartState \/ ScriptDoubleEscapedEndState
  <2>1. /\ state \in {"SCRIPT_DOUBLE_ESCAPED_START", "SCRIPT_DOUBLE_ESCAPED_END"}
        /\ state' \in {"SCRIPT_DOUBLE_ESCAPED", "SCRIPT_ESCAPED", "SCRIPT_DOUBLE_ESCAPED_START", "SCRIPT_DOUBLE_ESCAPED_END"}
    BY <1>12, Goes DEF ScriptDoubleEscapedStartState, ScriptDoubleEscapedEndState
  <2> QED BY <1>2, <1>3, <1>4, <2>1
<1>13. CASE ScriptDoubleEscapedState \/ ScriptDoubleEscapedDashState \/ ScriptDoubleEscapedDashDashState
  <2>1. /\ state \in {"SCRIPT_DOUBLE_ESCAPED", "SCRIPT_DOUBLE_ESCAPED_DASH", "SCRIPT_DOUBLE_ESCAPED_DASH_DASH"}
        /\ \/ state' \in {"SCRIPT_DOUBLE_ESCAPED_DASH", "SCRIPT_DOUBLE_ESCAPED_DASH_DASH", "SCRIPT_DOUBLE_ESCAPED_LT",
                          "SCRIPT", "SCRIPT_DOUBLE_ESCAPED"}
           \/ Current = EOF /\ state' = "DATA"
    BY <1>13, Goes
    DEF ScriptDoubleEscapedState, ScriptDoubleEscapedDashState, ScriptDoubleEscapedDashDashState
  <2> QED BY <1>2, <1>3, <1>4, <1>5, <2>1
<1>14. CASE ScriptDoubleEscapedLtState
  <2>1. /\ state = "SCRIPT_DOUBLE_ESCAPED_LT"
        /\ state' \in {"SCRIPT_DOUBLE_ESCAPED_END", "SCRIPT_DOUBLE_ESCAPED"}
    BY <1>14 DEF ScriptDoubleEscapedLtState, In, EmitCurrentChar, Emit, Reconsume
  <2> QED BY <1>2, <1>3, <1>4, <2>1
<1> QED BY <1>6, <1>7, <1>8, <1>9, <1>10, <1>11, <1>12, <1>13, <1>14

\* The handlers of "</" and of the name after it, of one way of reading.
LEMMA EndTagMoves ==
  ASSUME NEW way \in Ways, NEW open \in Content(way), NEW name \in Content(way) \intersect EndTagNameStates, NEW text \in Content(way),
         {open, name, text} \intersect Escapes # {} => {open, name, text} \subseteq Escapes,
         TextEndTagOpen(open, name, text) \/ TextEndTagName(name, text)
  PROVE  Moves \/ (state = name /\ IsAppropriateEndTag /\ EndsTagName)
PROOF
<1>1. CASE TextEndTagOpen(open, name, text)
  <2>1. state = open /\ state' \in {name, text}
    BY <1>1, Goes
  <2> QED BY <2>1, MovesWithin
<1>2. CASE TextEndTagName(name, text)
  <2>1. state = name /\ (state' \in {name, text} \/ (IsAppropriateEndTag /\ EndsTagName))
    BY <1>2, Goes
  <2> QED BY <2>1, MovesWithin
<1> QED BY <1>1, <1>2


\* The handlers of "<" and "</" in data.
LEMMA OpenMoves ==
  ASSUME TagOpenState \/ EndTagOpenState
  PROVE  Moves
PROOF
<1>1. /\ state \in {"TAG_OPEN", "END_TAG_OPEN"}
      /\ state' \in {"MARKUP_DECLARATION", "END_TAG_OPEN", "BOGUS_COMMENT", "TAG_NAME", "DATA"}
  BY DEF TagOpenState, EndTagOpenState, In, NextChar, EmitTemporary
<1>2. \A s \in {"MARKUP_DECLARATION", "END_TAG_OPEN", "BOGUS_COMMENT", "TAG_NAME", "DATA"} : s \notin Escapes
  BY DEF Escapes, ScriptStates
<1>3. \A way \in Ways : state \notin Content(way)
  BY <1>1, ContentsApart
<1> QED BY <1>1, <1>2, <1>3, MovesOutside

\* A step of a handler of text.
LEMMA ContentMoves ==
  ASSUME TextHandler
  PROVE  Moves
PROOF
<1>1. ASSUME NEW way \in Ways, NEW open \in Content(way), NEW name \in Content(way) \intersect EndTagNameStates,
             NEW text \in Content(way),
             {open, name, text} \intersect Escapes # {} => {open, name, text} \subseteq Escapes,
             TextEndTagOpen(open, name, text) \/ TextEndTagName(name, text)
      PROVE  Moves
  <2>1. CASE state = name /\ IsAppropriateEndTag /\ EndsTagName
    <3>1. state' \in {name, text} \/ state' \in {"DATA", "BEFORE_ATTR_NAME", "SELF_CLOSING_START_TAG"}
      <4>1. CASE TextEndTagOpen(open, name, text)
        BY <4>1, Goes
      <4>2. CASE TextEndTagName(name, text)
        BY <4>2 DEF TextEndTagName, NextChar, EmitTemporary, EmitTag, Emit
      <4> QED BY <1>1, <4>1, <4>2
    <3>2. \A s \in {"DATA", "BEFORE_ATTR_NAME", "SELF_CLOSING_START_TAG"} : s \notin Escapes
      BY DEF Escapes, ScriptStates
    <3>3. state' \in Escapes => state \in Escapes
      BY <1>1, <2>1, <3>1, <3>2
    <3>4. state # "DATA"
      BY <2>1 DEF EndTagNameStates
    <3> QED BY <2>1, <3>3, <3>4 DEF Moves
  <2> QED BY <1>1, <2>1, EndTagMoves
<1>2. {"RCDATA", "RAWTEXT", "SCRIPT"} \subseteq Ways
  BY DEF Ways
<1>3. \A s \in {"RCDATA", "RCDATA_END_TAG_OPEN", "RCDATA_END_TAG_NAME", "RAWTEXT", "RAWTEXT_END_TAG_OPEN",
                "RAWTEXT_END_TAG_NAME", "SCRIPT", "SCRIPT_END_TAG_OPEN", "SCRIPT_END_TAG_NAME"} : s \notin Escapes
  BY DEF Escapes, ScriptStates
<1>4. {"RCDATA_END_TAG_NAME", "RAWTEXT_END_TAG_NAME", "SCRIPT_END_TAG_NAME", "SCRIPT_ESCAPED_END_TAG_NAME"}
        \subseteq EndTagNameStates
  BY DEF EndTagNameStates
<1>5. CASE RcdataEndTagOpenState \/ RcdataEndTagNameState
  <2>1. {"RCDATA_END_TAG_OPEN", "RCDATA_END_TAG_NAME", "RCDATA"} \subseteq Content("RCDATA")
    BY Contents
  <2> QED BY <1>1, <1>2, <1>3, <1>4, <1>5, <2>1 DEF RcdataEndTagOpenState, RcdataEndTagNameState
<1>6. CASE RawtextEndTagOpenState \/ RawtextEndTagNameState
  <2>1. {"RAWTEXT_END_TAG_OPEN", "RAWTEXT_END_TAG_NAME", "RAWTEXT"} \subseteq Content("RAWTEXT")
    BY Contents
  <2> QED BY <1>1, <1>2, <1>3, <1>4, <1>6, <2>1 DEF RawtextEndTagOpenState, RawtextEndTagNameState
<1>7. CASE ScriptEndTagOpenState \/ ScriptEndTagNameState
  <2>1. {"SCRIPT_END_TAG_OPEN", "SCRIPT_END_TAG_NAME", "SCRIPT"} \subseteq Content("SCRIPT")
    BY Contents
  <2> QED BY <1>1, <1>2, <1>3, <1>4, <1>7, <2>1 DEF ScriptEndTagOpenState, ScriptEndTagNameState
<1>8. CASE ScriptEscapedEndTagOpenState \/ ScriptEscapedEndTagNameState
  <2>1. {"SCRIPT_ESCAPED_END_TAG_OPEN", "SCRIPT_ESCAPED_END_TAG_NAME", "SCRIPT_ESCAPED"} \subseteq Escapes
    BY DEF Escapes, ScriptStates
  <2>2. {"SCRIPT_ESCAPED_END_TAG_OPEN", "SCRIPT_ESCAPED_END_TAG_NAME", "SCRIPT_ESCAPED"} \subseteq Content("SCRIPT")
    BY <2>1, Contents
  <2> QED BY <1>1, <1>2, <1>4, <1>8, <2>1, <2>2 DEF ScriptEscapedEndTagOpenState, ScriptEscapedEndTagNameState
<1> QED
  BY <1>5, <1>6, <1>7, <1>8, PlainMoves, ScriptMoves, OpenMoves, Zenon
  DEF TextHandler, PlainTextHandler, OpeningHandler

-----------------------------------------------------------------------------
(***************************************************************************)
(* What has been read of a content stays as it is.                         *)
(***************************************************************************)
Grows ==
  /\ tokens \in Seq(Token) /\ tokens' \in Seq(Token) /\ Len(tokens) <= Len(tokens')
  /\ \A k \in 1 .. Len(tokens) : tokens'[k] = tokens[k]

LEMMA TokensHavePlaces ==
  ASSUME tokens \in Seq(Token), NEW k \in 1 .. Len(tokens)
  PROVE  tokens[k].from \in Nat /\ tokens[k].type \in TokenTypes
PROOF
<1>1. tokens[k] \in Token
  OBVIOUS
<1> QED BY <1>1 DEF Token

LEMMA ClosedStays ==
  ASSUME Grows, NEW i \in 1 .. Len(tokens), Closed(i)
  PROVE  Closed(i)'
PROOF
<1>1. PICK k \in i + 1 .. Len(tokens) : Ends(i, k) /\ Texts(i, k - 1)
  BY DEF Closed
<1>2. k \in i + 1 .. Len(tokens') /\ tokens'[k] = tokens[k] /\ tokens'[i] = tokens[i]
  BY <1>1 DEF Grows
<1>3. Ends(i, k)'
  BY <1>1, <1>2, Zenon DEF Ends
<1>4. Texts(i, k - 1)'
  <2>1. \A m \in i + 1 .. k - 1 : tokens'[m] = tokens[m]
    BY <1>1 DEF Grows
  <2> QED BY <1>1, <2>1, Zenon DEF Texts
<1> QED BY <1>2, <1>3, <1>4, Zenon DEF Closed

LEMMA DiffersStays ==
  ASSUME source \in Seq(Unit), Reading, NEW p \in Nat, NEW name \in Seq(Letters), Differs(source, p, name)
  PROVE  Differs(source', p, name)
PROOF
<1>1. PICK m \in 1 .. Len(name) + 2 : p + m <= Len(source) /\ Lower(source[p + m]) # Written(name, m)
  BY DEF Differs
<1>2. p + m <= Len(source') /\ source'[p + m] = source[p + m]
  BY <1>1 DEF Reading
<1> QED BY <1>1, <1>2, Zenon DEF Differs

LEMMA BangStays ==
  ASSUME Grows, NEW i \in 1 .. Len(tokens), NEW j \in i .. Len(tokens), Bang(i, j)
  PROVE  Bang(i, j)' /\ Bang(i, Len(tokens))'
PROOF
<1>1. PICK k \in i + 1 .. j : tokens[k].value = "!"
  BY DEF Bang
<1>2. tokens'[k] = tokens[k] /\ k \in i + 1 .. Len(tokens')
  BY <1>1 DEF Grows
<1> QED BY <1>1, <1>2, Zenon DEF Bang

LEMMA StandsStays ==
  ASSUME Grows, source \in Seq(Unit), Reading,
         NEW i \in 1 .. Len(tokens), tokens[i].value.name \in Seq(Letters),
         NEW j \in i + 1 .. Len(tokens), Stands(i, j)
  PROVE  Stands(i, j)'
PROOF
<1>1. j \in 1 .. Len(tokens) /\ j \in i .. Len(tokens) /\ tokens[j].from \in Nat
  <2>1. j \in 1 .. Len(tokens) /\ j \in i .. Len(tokens)
    BY DEF Grows
  <2> QED BY <2>1, TokensHavePlaces DEF Grows
<1>2. tokens'[i] = tokens[i] /\ tokens'[j] = tokens[j] /\ \A k \in i + 1 .. j : tokens'[k] = tokens[k]
  BY DEF Grows
<1>3. tokens[j].value # "second" =>
        /\ tokens[j].from \in 1 .. Len(source') /\ source'[tokens[j].from] = tokens[j].value
        /\ tokens[j].to = tokens[j].from + 1
  <2>1. tokens[j].value # "second" =>
          /\ tokens[j].from \in 1 .. Len(source) /\ source[tokens[j].from] = tokens[j].value
          /\ tokens[j].to = tokens[j].from + 1
    BY Zenon DEF Stands
  <2> QED BY <1>1, <2>1 DEF Reading
<1>4. ASSUME NEW k \in i + 1 .. j, Placeable(k, j)'
      PROVE  tokens[j].from = tokens[k].from + (j - k)
  <2>1. \A m \in k .. j : tokens'[m] = tokens[m]
    BY <1>4 DEF Grows
  <2>2. Placeable(k, j)
    BY <1>4, <2>1, Zenon DEF Placeable
  <2> QED BY <1>4, <2>2, Zenon DEF Stands
<1>5. tokens[j].value = "<" =>
        \/ tokens[i].then = "PLAINTEXT" \/ Bang(i, j)'
        \/ Differs(source', tokens[j].from, tokens[i].value.name)
  <2>1. tokens[j].value = "<" =>
          \/ tokens[i].then = "PLAINTEXT" \/ Bang(i, j)
          \/ Differs(source, tokens[j].from, tokens[i].value.name)
    BY Zenon DEF Stands
  <2>2. Bang(i, j) => Bang(i, j)'
    BY <1>1, BangStays
  <2> QED BY <1>1, <2>1, <2>2, DiffersStays
<1> QED BY <1>2, <1>3, <1>4, <1>5, Zenon DEF Stands

\* The next character stands after the last one.
Placed(i, value) ==
  /\ tokenStart = Last.to
  /\ value # "second" => tokenStart \in 1 .. Len(source) /\ source[tokenStart] = value /\ pos' = tokenStart + 1
  /\ value = "<" =>
       \/ tokens[i].then = "PLAINTEXT" \/ Bang(i, Len(tokens))
       \/ Differs(source', tokenStart, tokens[i].value.name)

LEMMA FinishedToken ==
  ASSUME tokens \in Seq(Token), tokens' \in Seq(Token), NEW type, NEW value, Finish(type, value)
  PROVE  /\ Grows /\ Len(tokens') = Len(tokens) + 1
         /\ tokens'[Len(tokens')].type = type /\ tokens'[Len(tokens')].value = value
         /\ tokens'[Len(tokens')].from = tokenStart /\ tokens'[Len(tokens')].to = pos'
         /\ tokens'[Len(tokens')].then = None
         /\ Last' = tokens'[Len(tokens')] /\ tokenStart' = pos' /\ handled' = handled
PROOF
<1> DEFINE t == [type |-> type, value |-> value, from |-> tokenStart, to |-> pos', then |-> None]
<1>1. t.type = type /\ t.value = value /\ t.from = tokenStart /\ t.to = pos' /\ t.then = None
  OBVIOUS
<1>2. tokens' = Append(tokens, t) /\ tokenStart' = pos' /\ handled' = handled
  BY DEF Finish
<1> HIDE DEF t
<1>3. Len(tokens') = Len(tokens) + 1 /\ tokens'[Len(tokens) + 1] = t
      /\ \A k \in 1 .. Len(tokens) : tokens'[k] = tokens[k]
  BY <1>2
<1> QED BY <1>1, <1>2, <1>3 DEF Grows, Last

LEMMA NextStands ==
  ASSUME InputOK, tokens \in Seq(Token), tokens' \in Seq(Token), Reading, pos' \in Nat,
         NEW value, Finish("character", value),
         NEW i \in 1 .. Len(tokens), tokens[i].value.name \in Seq(Letters),
         \A j \in i + 1 .. Len(tokens) : Characters(i, j) => Stands(i, j),
         Characters(i, Len(tokens)), Placed(i, value),
         NEW n, n = Len(tokens) + 1
  PROVE  Stands(i, n)'
PROOF
<1>1. /\ Grows /\ Len(tokens') = n /\ n \in Nat /\ i \in 1 .. n - 1
      /\ tokens'[n].value = value /\ tokens'[n].from = tokenStart /\ tokens'[n].to = pos'
  BY FinishedToken
<1>2. tokenStart \in Nat /\ source' \in Seq(Unit) /\ Len(source) <= Len(source')
      /\ \A k \in 1 .. Len(source) : source'[k] = source[k]
  BY DEF InputOK, Reading
<1>3. \A k \in 1 .. n - 1 : tokens'[k] = tokens[k] /\ tokens[k].from \in Nat
  <2> SUFFICES ASSUME NEW k \in 1 .. n - 1
               PROVE  tokens'[k] = tokens[k] /\ tokens[k].from \in Nat
    OBVIOUS
  <2>1. k \in 1 .. Len(tokens)
    BY <1>1
  <2>2. tokens[k].from \in Nat
    BY <2>1, TokensHavePlaces
  <2>3. tokens'[k] = tokens[k]
    BY <1>1, <2>1 DEF Grows
  <2> QED BY <2>2, <2>3
<1>4. value # "second" => tokenStart \in 1 .. Len(source') /\ source'[tokenStart] = value /\ pos' = tokenStart + 1
  BY <1>2 DEF Placed
<1>5. ASSUME NEW k \in i + 1 .. n, Placeable(k, n)'
      PROVE  tokens'[n].from = tokens'[k].from + (n - k)
  <2>1. CASE k = n
    BY <1>1, <1>2, <2>1
  <2>2. CASE k # n
    <3>1. k \in i + 1 .. n - 1 /\ n - 1 \in i + 1 .. Len(tokens) /\ n - 1 \in k .. n - 1
          /\ n - 1 = Len(tokens) /\ n - 1 \in k .. n /\ n - 1 \in 1 .. n - 1 /\ k \in 1 .. n - 1
      BY <1>1, <2>2
    <3>2. Stands(i, n - 1)
      BY <3>1
    <3>3. Placeable(k, n - 1)
      <4>1. \A m \in k .. n - 1 : m \in k .. n /\ m \in 1 .. n - 1
        BY <1>1, <3>1
      <4> QED BY <1>3, <1>5, <4>1, Zenon DEF Placeable
    <3>4. tokens[n - 1].from = tokens[k].from + ((n - 1) - k)
      BY <3>1, <3>2, <3>3, Zenon DEF Stands
    <3>5. tokens[n - 1].to = tokens[n - 1].from + 1
      <4>1. tokens[n - 1].value # "second"
        BY <3>1, <3>3, Zenon DEF Placeable
      <4> QED BY <3>2, <4>1, Zenon DEF Stands
    <3>6. tokenStart = tokens[n - 1].to
      BY <3>1 DEF Placed, Last
    <3>7. tokens'[k].from = tokens[k].from /\ tokens[k].from \in Nat
      BY <1>3, <3>1
    <3>8. tokens'[n].from = (tokens[k].from + ((n - 1) - k)) + 1
      BY <1>1, <3>4, <3>5, <3>6, Zenon
    <3> DEFINE f == tokens[k].from
    <3>9. k \in Int /\ n \in Int /\ f \in Int /\ tokens'[n].from = (f + ((n - 1) - k)) + 1
      BY <1>1, <3>1, <3>7, <3>8
    <3> HIDE DEF f
    <3>10. (f + ((n - 1) - k)) + 1 = f + (n - k)
      BY <3>9
    <3> QED BY <3>7, <3>9, <3>10, Zenon DEF f
  <2> QED BY <2>1, <2>2
<1>6. value = "<" =>
        \/ tokens'[i].then = "PLAINTEXT" \/ Bang(i, n)'
        \/ Differs(source', tokenStart, tokens'[i].value.name)
  <2>1. Bang(i, Len(tokens)) => Bang(i, n)'
    <3>1. Bang(i, Len(tokens)) => Bang(i, Len(tokens))'
      <4>1. Len(tokens) \in i .. Len(tokens)
        BY <1>1
      <4> QED BY <1>1, <4>1, BangStays
    <3> QED BY <1>1, <3>1
  <2>2. tokens'[i] = tokens[i]
    BY <1>1, <1>3
  <2> QED BY <2>1, <2>2 DEF Placed
<1> QED BY <1>1, <1>4, <1>5, <1>6, Zenon DEF Stands

\* The names of the elements, and the ways their content is read.
LEMMA NameOfContent ==
  ASSUME NEW i, ContentRead(i)
  PROVE  /\ tokens[i].value.name \in Seq(Letters) /\ tokens[i].value.name # <<>>
         /\ tokens[i].then \in Ways
PROOF BY TextStatesAssumption DEF ContentRead, Ways

\* What a step within the content leads to.
Opened(i) == Inside(i) \/ Leaving(i) \/ Over

\* A step that emits nothing keeps what was read.
LEMMA QuietRead ==
  ASSUME tokens \in Seq(Token), source \in Seq(Unit), UNCHANGED <<tokens, handled>>, Reading,
         NEW i \in 1 .. Len(tokens), ContentRead(i), Open(i) => Opened(i)'
  PROVE  ContentRead(i)'
PROOF
<1>1. Grows /\ tokens' = tokens /\ handled' = handled
  BY DEF Grows
<1>2. /\ i <= handled
      /\ tokens[i].value.name \in DOMAIN TextStates /\ tokens[i].then = TextStates[tokens[i].value.name]
      /\ \A j \in i + 1 .. Len(tokens) : Characters(i, j) => Stands(i, j)
      /\ Closed(i) \/ Open(i)
  BY Zenon DEF ContentRead
<1>3. \A j \in i + 1 .. Len(tokens) : Characters(i, j)' => Stands(i, j)'
  <2>1. \A j : Characters(i, j)' <=> Characters(i, j)
    BY <1>1, Zenon DEF Characters
  <2> QED BY <1>1, <1>2, <2>1, StandsStays, NameOfContent
<1>4. Closed(i)' \/ Open(i)'
  <2>1. CASE Closed(i)
    BY <1>1, <2>1, ClosedStays
  <2>2. CASE Open(i)
    <3>1. Texts(i, Len(tokens))'
      BY <1>1, <2>2, Zenon DEF Open, Texts
    <3> QED BY <2>2, <3>1, Zenon DEF Open, Opened
  <2> QED BY <1>2, <2>1, <2>2
<1> QED BY <1>1, <1>2, <1>3, <1>4, Zenon DEF ContentRead

\* What is emitted while the content is open: text in its place, or the end tag.
GoesOn(i, type, value) ==
  \/ type \in TextTypes /\ Opened(i)' /\ (type = "character" => Placed(i, value))
  \/ type = "end" /\ value.name = tokens[i].value.name /\ tokens[i].then # "PLAINTEXT"

LEMMA EmittedRead ==
  ASSUME InputOK, tokens \in Seq(Token), tokens' \in Seq(Token), Reading, pos' \in Nat,
         NEW type, NEW value, Finish(type, value),
         NEW i \in 1 .. Len(tokens), ContentRead(i), Open(i) => GoesOn(i, type, value)
  PROVE  ContentRead(i)'
PROOF
<1>0. PICK n \in Nat : n = Len(tokens) + 1
  OBVIOUS
<1>1. /\ Grows /\ Len(tokens') = n /\ handled' = handled /\ tokens'[n].type = type /\ tokens'[n].value = value
  BY <1>0, FinishedToken
<1>2. /\ i <= handled
      /\ tokens[i].value.name \in DOMAIN TextStates /\ tokens[i].then = TextStates[tokens[i].value.name]
      /\ \A j \in i + 1 .. Len(tokens) : Characters(i, j) => Stands(i, j)
      /\ Closed(i) \/ Open(i)
  BY Zenon DEF ContentRead
<1>3. n \in Nat /\ i \in 1 .. n - 1 /\ n \in i + 1 .. n /\ n - 1 = Len(tokens) /\ i \in Nat
  BY <1>0
<1>4. tokens[i].value.name \in Seq(Letters) /\ source \in Seq(Unit)
  BY NameOfContent DEF InputOK
<1>5. \A k \in 1 .. n - 1 : tokens'[k] = tokens[k]
  BY <1>1, <1>3 DEF Grows
<1>6. ASSUME NEW j \in i + 1 .. n, Characters(i, j)'
      PROVE  Stands(i, j)'
  <2>1. CASE j # n
    <3>1. j \in i + 1 .. Len(tokens) /\ \A k \in i + 1 .. j : k \in 1 .. n - 1
      BY <1>3, <2>1
    <3>2. Characters(i, j)
      BY <1>5, <1>6, <3>1, Zenon DEF Characters
    <3> QED BY <1>1, <1>2, <1>4, <3>1, <3>2, StandsStays
  <2>2. CASE j = n
    <3>1. type = "character"
      BY <1>1, <1>3, <1>6, <2>2, Zenon DEF Characters
    <3>2. Characters(i, Len(tokens))
      <4>1. \A k \in i + 1 .. n - 1 : k \in i + 1 .. n /\ k \in 1 .. n - 1
        BY <1>3
      <4> QED BY <1>3, <1>5, <1>6, <2>2, <4>1, Zenon DEF Characters
    <3>3. ~Closed(i)
      <4> SUFFICES ASSUME Closed(i) PROVE FALSE
        OBVIOUS
      <4>1. PICK k \in i + 1 .. Len(tokens) : Ends(i, k)
        BY DEF Closed
      <4> QED BY <3>2, <4>1 DEF Characters, Ends
    <3>4. Placed(i, value)
      BY <1>2, <3>1, <3>3 DEF GoesOn
    <3>5. Finish("character", value)
      BY <3>1
    <3>6. n = Len(tokens) + 1
      BY <1>3
    <3>7. Stands(i, n)'
      BY <1>2, <1>4, <3>2, <3>4, <3>5, <3>6, NextStands
    <3> QED BY <2>2, <3>7
  <2> QED BY <2>1, <2>2
<1>7. Closed(i)' \/ Open(i)'
  <2>1. CASE Closed(i)
    BY <1>1, <2>1, ClosedStays
  <2>2. CASE Open(i)
    <3>1. Texts(i, n - 1)'
      <4>1. Texts(i, n - 1)
        BY <1>3, <2>2, Zenon DEF Open
      <4>2. \A k \in i + 1 .. n - 1 : k \in 1 .. n - 1
        BY <1>3
      <4> QED BY <1>5, <4>1, <4>2, Zenon DEF Texts
    <3>2. CASE type \in TextTypes /\ Opened(i)'
      <4>1. Texts(i, n)'
        <5>1. \A k \in i + 1 .. n : k = n \/ k \in i + 1 .. n - 1
          BY <1>3
        <5> QED BY <1>1, <3>1, <3>2, <5>1, Zenon DEF Texts
      <4>2. Texts(i, Len(tokens))'
        BY <1>1, <4>1, Zenon DEF Texts
      <4> QED BY <3>2, <4>2, Zenon DEF Open, Opened
    <3>3. CASE type = "end" /\ value.name = tokens[i].value.name /\ tokens[i].then # "PLAINTEXT"
      <4>1. Ends(i, n)'
        BY <1>1, <1>3, <1>5, <3>3, Zenon DEF Ends
      <4> QED BY <1>1, <1>3, <3>1, <4>1, Zenon DEF Closed
    <3> QED BY <2>2, <3>2, <3>3 DEF GoesOn
  <2> QED BY <1>2, <2>1, <2>2
<1>8. i <= handled' /\ tokens'[i] = tokens[i]
  BY <1>1, <1>2, <1>3, <1>5
<1> QED BY <1>1, <1>2, <1>6, <1>7, <1>8, Zenon DEF ContentRead

\* A step that emits nothing, and one that emits a token.
LEMMA QuietContent ==
  ASSUME IInv, ContentInv, Lexing, UNCHANGED <<tokens, handled>>, Reading, EndTagRead', AtReference', OnlyOneLt',
         \A i \in 1 .. Len(tokens) : tokens[i].then \in Ways /\ Open(i) => Opened(i)'
  PROVE  ContentInv'
PROOF
<1>1. tokens \in Seq(Token) /\ source \in Seq(Unit) /\ tokens' = tokens /\ handled' = handled
  BY DEF IInv, InputOK, OutputOK
<1>2. StartSeen'
  <2>1. handled = Len(tokens)
    BY DEF Lexing
  <2>2. ~(handled' < Len(tokens'))
    BY <1>1, <2>1
  <2> QED BY <2>2, Zenon DEF StartSeen
<1>3. ASSUME NEW i \in 1 .. Len(tokens), tokens[i].then # None
      PROVE  ContentRead(i)'
  <2>1. ContentRead(i)
    BY <1>3, Zenon DEF ContentInv
  <2>2. tokens[i].then \in Ways
    BY <2>1, NameOfContent
  <2> QED BY <1>1, <2>1, <2>2, QuietRead
<1> QED BY <1>1, <1>2, <1>3, Zenon DEF ContentInv

LEMMA EmittedContent ==
  ASSUME IInv, IInv', ContentInv, Lexing, NEW type, NEW value, Finish(type, value), Reading,
         EndTagRead', AtReference', OnlyOneLt', type = "start" => lastStartTag' = value.name,
         \A i \in 1 .. Len(tokens) : tokens[i].then \in Ways /\ Open(i) => GoesOn(i, type, value)
  PROVE  ContentInv'
PROOF
<1>1. /\ tokens \in Seq(Token) /\ tokens' \in Seq(Token) /\ source \in Seq(Unit) /\ InputOK /\ pos' \in Nat
      /\ Len(tokens) \in Nat
  BY DEF IInv, InputOK, OutputOK
<1>2. /\ Grows /\ Len(tokens') = Len(tokens) + 1
      /\ tokens'[Len(tokens')].type = type /\ tokens'[Len(tokens')].value = value
      /\ tokens'[Len(tokens')].to = pos'
      /\ tokens'[Len(tokens')].then = None
      /\ Last' = tokens'[Len(tokens')] /\ tokenStart' = pos'
  BY <1>1, FinishedToken
<1>3. StartSeen'
  BY <1>2, Zenon DEF StartSeen
<1>4. ASSUME NEW i \in 1 .. Len(tokens), tokens[i].then # None
      PROVE  ContentRead(i)'
  <2>1. ContentRead(i)
    BY <1>4, Zenon DEF ContentInv
  <2>2. tokens[i].then \in Ways
    BY <2>1, NameOfContent
  <2> QED BY <1>1, <2>1, <2>2, EmittedRead
<1>5. ASSUME NEW i \in 1 .. Len(tokens'), tokens'[i].then # None
      PROVE  i \in 1 .. Len(tokens) /\ tokens[i].then # None
  <2>1. i # Len(tokens')
    BY <1>2, <1>5
  <2>2. i \in 1 .. Len(tokens)
    BY <1>1, <1>2, <2>1
  <2> QED BY <1>2, <1>5, <2>2 DEF Grows
<1>6. \A i \in 1 .. Len(tokens') : tokens'[i].then # None => ContentRead(i)'
  BY <1>4, <1>5
<1> QED BY <1>3, <1>6, Zenon DEF ContentInv

\* Where nothing is open.
LEMMA NothingIsOpen ==
  ASSUME state # "DATA", state \notin TagStates \ {"TAG_NAME"}, \A way \in Ways : state \notin Content(way),
         NEW i, tokens[i].then \in Ways
  PROVE  ~Open(i)
PROOF BY Zenon DEF Open, Inside, Leaving, Over

\* The states that are no text.
LEMMA StatesApart ==
  /\ \A s : s \notin Text \union Openers => \A way \in Ways : s \notin Content(way)
  /\ "DATA" \in Text /\ \A s \in Text \union Openers : s \notin TagStates
PROOF
<1>1. \A way \in Ways : \A s \in Content(way) : s \in Text \union Openers
  BY ContentsApart
<1>2. "DATA" \in Text
  BY DEF Text, DataStates
<1> QED BY <1>1, <1>2, ClassesAreDisjoint

LEMMA PageIsOver ==
  ASSUME Reading, pos \in 1 .. Len(source), Current = EOF, pos' = pos, state' = "DATA", emitAt' = 0, buffered' = None
  PROVE  Over'
PROOF
<1>1. source'[pos'] = EOF
  BY DEF Reading, Current
<1> QED BY <1>1, Zenon DEF Over, Current

LEMMA InsideStays ==
  ASSUME Grows, NEW i \in 1 .. Len(tokens), tokens[i].then \in Ways, Inside(i), StaysIn(state, state'),
         lastStartTag' = lastStartTag, tokenStart' = Last'.to,
         state' \in Text => tokenStart' = pos', state' \in Openers => tokenStart' = mark',
         state' \in Escapes => Bang(i, Len(tokens)) \/ Bang(i, Len(tokens))' \/ (emitAt' = 2 /\ temporary' = <<"<", "!">>)
  PROVE  Inside(i)'
PROOF
<1>1. tokens'[i] = tokens[i]
  BY DEF Grows
<1>2. state \in Content(tokens[i].then) /\ lastStartTag = tokens[i].value.name
  BY Zenon DEF Inside
<1>3. state' \in Content(tokens[i].then)
  BY <1>2, Zenon DEF StaysIn
<1>4. Bang(i, Len(tokens)) => Bang(i, Len(tokens))'
  <2>1. Len(tokens) \in i .. Len(tokens)
    BY DEF Grows
  <2> QED BY <2>1, BangStays
<1>5. (state \in Content(tokens[i].then))'
  BY <1>1, <1>3, Zenon DEF Content
<1> QED BY <1>1, <1>2, <1>4, <1>5, Zenon DEF Inside

\* An escaped script comes after a "!".
LEMMA EscapesHaveABang ==
  ASSUME NEW i, Inside(i), In(state)
  PROVE  /\ state \in Escapes => Bang(i, Len(tokens))
         /\ Moves /\ state' \in Escapes =>
              \/ Bang(i, Len(tokens))
              \/ state = "SCRIPT_LT" /\ Current = "!" /\ temporary' = Append(temporary, "!")
PROOF
<1>1. emitAt = 0
  BY DEF In
<1>2. state \in Escapes => Bang(i, Len(tokens)) \/ emitAt = 2
  BY Zenon DEF Inside
<1> QED BY <1>1, <1>2 DEF Moves

-----------------------------------------------------------------------------
(***************************************************************************)
(* Each kind of step keeps the invariant: those in text, ...               *)
(***************************************************************************)

\* Nothing is pending when a handler leaves the cursor alone, and no end tag and no reference is
\* read in most states.
LEMMA NothingPending ==
  /\ emitAt' = 0 => OnlyOneLt'
  /\ state' \notin EndTagNameStates => EndTagRead'
  /\ state' \notin ReferenceStates => AtReference'
PROOF BY Zenon DEF OnlyOneLt, EndTagRead, AtReference

\* In text, what is open is the content or the page is over.
LEMMA OpenInText ==
  ASSUME state \in Text \union Openers, NEW i, Open(i)
  PROVE  Inside(i) \/ Over
PROOF BY StatesApart, Zenon DEF Open, Leaving

LEMMA ContentKeptByEmitsText ==
  ASSUME IInv, IInv', ContentInv, Moves, EmitsText
  PROVE  ContentInv'
PROOF
<1> DEFINE type == CharType(Current)
<1>1. /\ In(state) /\ state \in Text \ ReferenceStates /\ state' \in Text \ ReferenceStates
      /\ Current = "<" => state \in ScriptStates \union {"PLAINTEXT"}
      /\ EmitCurrentChar(state') /\ UNCHANGED <<mark, temporary, emitAt>>
      /\ lastStartTag' = lastStartTag
  BY DEF EmitsText, KeepsBuffer, KeepTag, tagVars
<1>2. Emit(state', type, Current)
  BY <1>1 DEF EmitCurrentChar
<1> HIDE DEF type
<1>3. /\ Reading /\ pos' \in 1 .. Len(source') /\ pos' \in Nat
      /\ pos' = IF Current = EOF THEN pos ELSE pos + 1
      /\ tokenStart' = pos' /\ buffered' = None /\ emitAt = 0 /\ Lexing /\ Finish(type, Current)
  BY <1>1, <1>2, HandlerEmits
<1>4. /\ type \in TextTypes /\ (type = "character" => Current # EOF) /\ type # "start"
  BY DEF type, CharType, TextTypes
<1>5. /\ InputOK /\ tokens \in Seq(Token) /\ tokens' \in Seq(Token) /\ pos \in 1 .. Len(source)
  BY DEF IInv, InputOK, OutputOK
<1>6. Grows /\ tokenStart' = Last'.to
  BY <1>3, <1>5, FinishedToken
<1>7. state \notin EndTagNameStates /\ state' \notin Openers /\ state' \notin EndTagNameStates
  BY <1>1, ClassesAreDisjoint DEF Openers
<1>8. ASSUME NEW i \in 1 .. Len(tokens), tokens[i].then \in Ways, Open(i)
      PROVE  GoesOn(i, type, Current)
  <2>1. CASE Inside(i)
    <3>1. tokenStart = Last.to /\ tokenStart = pos /\ state \in Content(tokens[i].then)
      BY <1>1, <2>1, Zenon DEF Inside
    <3>2. ASSUME StaysIn(state, state')
          PROVE  Opened(i)'
      <4>1. state' \in Escapes => Bang(i, Len(tokens))
        <5>1. state # "SCRIPT_LT"
          BY <1>1, ClassesAreDisjoint DEF Openers, LtStates
        <5> QED BY <1>1, <2>1, <5>1, EscapesHaveABang
      <4> QED BY <1>1, <1>3, <1>6, <1>7, <1>8, <2>1, <3>2, <4>1, InsideStays DEF Opened
    <3>3. ASSUME state' = "DATA", Current = EOF
          PROVE  Opened(i)'
      BY <1>1, <1>3, <1>5, <3>3, PageIsOver DEF Opened
    <3>4. Opened(i)'
      BY <1>7, <3>2, <3>3 DEF Moves
    <3>5. type = "character" => Placed(i, Current)
      <4>1. Current = "<" => tokens[i].then = "PLAINTEXT" \/ Bang(i, Len(tokens))
        <5>1. state \in ScriptStates => state \in Escapes
          BY DEF Escapes
        <5>2. state = "PLAINTEXT" => tokens[i].then = "PLAINTEXT"
          BY <1>8, <3>1, Contents, ContentsApart DEF Ways
        <5> QED BY <1>1, <2>1, <5>1, <5>2, EscapesHaveABang
      <4>2. type = "character" => tokenStart \in 1 .. Len(source) /\ source[tokenStart] = Current /\ pos' = tokenStart + 1
        BY <1>3, <1>4, <1>5, <3>1 DEF Current
      <4> QED BY <3>1, <4>1, <4>2, Zenon DEF Placed
    <3> QED BY <1>4, <3>4, <3>5 DEF GoesOn
  <2>2. CASE Over
    <3>1. state = "DATA" /\ Current = EOF
      BY <2>2, Zenon DEF Over
    <3>2. state' = "DATA" /\ pos' = pos
      BY <1>3, <3>1 DEF Moves
    <3>3. Over'
      BY <1>1, <1>3, <1>5, <3>1, <3>2, PageIsOver
    <3> QED BY <1>4, <3>1, <3>3 DEF GoesOn, Opened
  <2> QED BY <1>1, <1>8, <2>1, <2>2, OpenInText
<1>9. OnlyOneLt' /\ EndTagRead' /\ AtReference'
  BY <1>1, <1>3, <1>7, NothingPending
<1> QED BY <1>3, <1>4, <1>8, <1>9, EmittedContent

\* A handler of text that reads on.
LEMMA TextReadsOn ==
  ASSUME IInv, IInv', ContentInv, Moves, In(state), state \in Text \union Openers,
         NEW next, NextChar(next) \/ Reconsume(next),
         lastStartTag' = lastStartTag, emitAt' = emitAt, EndTagRead', AtReference',
         tokenStart = pos /\ state \in Text => (state' \in Text => tokenStart = pos'),
         state \in Openers => state' \notin Text,
         mark' = IF state \in Text /\ state' \in Openers THEN pos ELSE mark,
         state \in EndTagNameStates => state' = state,
         state = "SCRIPT_LT" => Current # "!",
         state = "DATA" => Current # EOF,
         state' = "DATA" /\ state # "CHAR_REF_IN_DATA" => Current = EOF /\ pos' = pos
  PROVE  ContentInv'
PROOF
<1>1. /\ Reading /\ pos' \in 1 .. Len(source') /\ state' = next
      /\ UNCHANGED <<tokens, handled, tokenStart>>
      /\ buffered' = None /\ emitAt = 0 /\ Lexing
  BY HandlerReadsOn
<1>2. tokens \in Seq(Token) /\ pos \in 1 .. Len(source)
  BY DEF IInv, InputOK, OutputOK
<1>3. Grows /\ Last' = Last /\ tokenStart' = tokenStart
  BY <1>1, <1>2 DEF Grows, Last
<1>4. ASSUME NEW i \in 1 .. Len(tokens), tokens[i].then \in Ways, Open(i)
      PROVE  Opened(i)'
  <2>1. CASE Inside(i)
    <3>1. /\ state \in Content(tokens[i].then) /\ tokenStart = Last.to
          /\ state \in Text => tokenStart = pos
          /\ state \in Openers => tokenStart = mark
      BY <2>1, Zenon DEF Inside
    <3>2. state \notin {"DATA", "CHAR_REF_IN_DATA"}
      BY <1>4, <3>1, ContentsApart
    <3>3. CASE state' = "DATA"
      BY <1>1, <1>2, <3>2, <3>3, PageIsOver DEF Opened
    <3>4. CASE state' # "DATA"
      <4>1. StaysIn(state, state')
        <5>1. CASE state \in EndTagNameStates
          BY <5>1 DEF StaysIn
        <5> QED BY <3>4, <5>1 DEF Moves
      <4>2. state' \in Escapes => Bang(i, Len(tokens))
        BY <2>1, EscapesHaveABang
      <4>3. state' \in Text => tokenStart' = pos'
        BY <1>3, <3>1, <2>1
      <4>4. state' \in Openers => tokenStart' = mark'
        BY <1>3, <3>1
      <4>5. tokenStart' = Last'.to
        BY <1>3, <3>1
      <4>6. Inside(i)'
        BY <1>3, <1>4, <2>1, <4>1, <4>2, <4>3, <4>4, <4>5, InsideStays
      <4> QED BY <4>6 DEF Opened
    <3> QED BY <3>3, <3>4
  <2>2. CASE Over
    BY <2>2, Zenon DEF Over
  <2> QED BY <1>4, <2>1, <2>2, OpenInText
<1>5. OnlyOneLt'
  BY <1>1, NothingPending
<1> QED BY <1>1, <1>4, <1>5, QuietContent

LEMMA ContentKeptByText ==
  ASSUME IInv, IInv', ContentInv, Moves, MeetsReference \/ SwitchesScript \/ ScriptEnds \/ OpensTag \/ ReadsSlash
  PROVE  ContentInv'
PROOF
<1>1. In(state)
  BY DEF MeetsReference, SwitchesScript, ScriptEnds, OpensTag, ReadsSlash
<1>2. KeepTag => lastStartTag' = lastStartTag
  BY DEF KeepTag, tagVars
<1>3. \A s \in ScriptStates \union LtStates \union EndTagOpenStates \union {"SCRIPT", "DATA"} : s \notin ReferenceStates
  BY DEF ReferenceStates, ScriptStates, LtStates, EndTagOpenStates
<1>4. \A next : Reconsume(next) => pos' = pos /\ Current' = Current
  BY DEF Reconsume, inputVars, Current
<1>5. /\ "<" # EOF /\ EOF \notin References /\ "/" # "!" /\ "DATA" \notin ScriptStates
      /\ \A s \in ScriptStates : s \notin {"SCRIPT_LT", "CHAR_REF_IN_DATA"} /\ s \in Text
      /\ \A s \in EndTagOpenStates \union LtStates : s # "DATA"
      /\ {"DATA", "SCRIPT", "RCDATA", "CHAR_REF_IN_DATA", "CHAR_REF_IN_RCDATA"} \subseteq Text
  BY DEF EOF, References, ScriptStates, LtStates, EndTagOpenStates, Text, DataStates
<1>6. \A s \in Text : s \notin Openers
  BY ClassesAreDisjoint
<1>7. /\ LtStates \union EndTagOpenStates \union EndTagNameStates \subseteq Openers
      /\ \A s \in LtStates \union EndTagOpenStates : s \notin EndTagNameStates
  BY ClassesAreDisjoint DEF Openers
<1>8. CASE MeetsReference
  <2>1. /\ state \in {"DATA", "RCDATA"} /\ state' \in {"CHAR_REF_IN_DATA", "CHAR_REF_IN_RCDATA"}
        /\ Current \in References /\ Reconsume(state')
        /\ UNCHANGED <<mark, temporary, emitAt>> /\ KeepTag
    BY <1>8 DEF MeetsReference, KeepsBuffer
  <2>2. state \in Text /\ state' \in Text
    BY <1>5, <2>1
  <2>3. EndTagRead' /\ AtReference'
    <3>1. Current' \in References
      BY <1>4, <2>1 DEF References
    <3> QED BY <1>6, <1>7, <2>2, <3>1, NothingPending DEF AtReference
  <2> QED BY <1>1, <1>2, <1>4, <1>5, <1>6, <1>7, <2>1, <2>2, <2>3, TextReadsOn
<1>9. CASE SwitchesScript
  <2>1. /\ state \in ScriptStates /\ state' \in ScriptStates \union {"SCRIPT"}
        /\ Reconsume(state') /\ UNCHANGED <<mark, temporary, emitAt>> /\ KeepTag
    BY <1>9 DEF SwitchesScript, KeepsBuffer
  <2>2. state \in Text /\ state' \in Text /\ state # "SCRIPT_LT" /\ state' # "DATA" /\ state # "DATA"
    BY <1>5, <2>1
  <2>3. EndTagRead' /\ AtReference'
    BY <1>3, <1>6, <1>7, <2>1, <2>2, NothingPending
  <2> QED BY <1>1, <1>2, <1>4, <1>5, <1>6, <1>7, <2>1, <2>2, <2>3, TextReadsOn
<1>10. CASE ScriptEnds
  <2>1. /\ state \in ScriptStates /\ state' = "DATA" /\ Current = EOF
        /\ NextChar("DATA") /\ UNCHANGED <<mark, temporary, emitAt>> /\ KeepTag
    BY <1>10 DEF ScriptEnds, KeepsBuffer
  <2>2. state \in Text /\ state' \in Text /\ state # "SCRIPT_LT" /\ state # "DATA"
    BY <1>5, <2>1
  <2>3. EndTagRead' /\ AtReference'
    BY <1>3, <1>6, <1>7, <2>1, <2>2, NothingPending
  <2>4. pos' = pos
    BY <1>1, <2>1, HandlerReadsOn
  <2> QED BY <1>1, <1>2, <1>5, <1>6, <1>7, <2>1, <2>2, <2>3, <2>4, TextReadsOn
<1>11. CASE OpensTag
  <2>1. /\ state \in Text /\ state' \in LtStates /\ Current = "<" /\ NextChar(state') /\ KeepTag
        /\ mark' = pos /\ emitAt' = emitAt
    BY <1>11 DEF OpensTag, ClearTemporary
  <2>2. state' \in Openers /\ state' \notin Text /\ state' # "DATA" /\ state' \notin EndTagNameStates
        /\ state \notin EndTagNameStates /\ state # "SCRIPT_LT"
    BY <1>5, <1>6, <1>7, <2>1 DEF LtStates
  <2>3. EndTagRead' /\ AtReference'
    BY <1>3, <2>1, <2>2, NothingPending
  <2> QED BY <1>1, <1>2, <1>5, <1>6, <1>7, <2>1, <2>2, <2>3, TextReadsOn
<1>12. CASE ReadsSlash
  <2>1. /\ state \in LtStates /\ state' \in EndTagOpenStates /\ Current = "/" /\ NextChar(state') /\ KeepTag
        /\ mark' = mark /\ emitAt' = emitAt
    BY <1>12 DEF ReadsSlash, AppendTemporary
  <2>2. state' \in Openers /\ state' \notin Text /\ state \in Openers /\ state \notin Text
        /\ state' # "DATA" /\ state # "DATA" /\ state' \notin EndTagNameStates /\ state \notin EndTagNameStates
    BY <1>5, <1>6, <1>7, <2>1
  <2>3. EndTagRead' /\ AtReference'
    BY <1>3, <2>1, <2>2, NothingPending
  <2> QED BY <1>1, <1>2, <1>5, <1>6, <1>7, <2>1, <2>2, <2>3, TextReadsOn
<1> QED BY <1>8, <1>9, <1>10, <1>11, <1>12

\* A step that emits a character of the content.
LEMMA CharacterGoesOn ==
  ASSUME IInv, IInv', ContentInv, Lexing, NEW value, Finish("character", value), Reading,
         state \in Text \union Openers, state' \in Text, EndTagRead', AtReference', OnlyOneLt',
         lastStartTag' = lastStartTag, ~Over,
         \A i \in 1 .. Len(tokens) : tokens[i].then \in Ways /\ Inside(i) =>
           /\ StaysIn(state, state') /\ Placed(i, value)
           /\ state' \in Escapes => \/ Bang(i, Len(tokens)) \/ value = "!"
                                    \/ (emitAt' = 2 /\ temporary' = <<"<", "!">>)
  PROVE  ContentInv'
PROOF
<1>1. tokens \in Seq(Token) /\ tokens' \in Seq(Token)
  BY DEF IInv, OutputOK
<1>2. /\ Grows /\ tokenStart' = Last'.to /\ tokenStart' = pos' /\ Len(tokens') = Len(tokens) + 1
      /\ tokens'[Len(tokens')].value = value
  BY <1>1, FinishedToken
<1>3. state' \notin Openers
  BY ClassesAreDisjoint
<1>4. ASSUME NEW i \in 1 .. Len(tokens), tokens[i].then \in Ways, Open(i)
      PROVE  GoesOn(i, "character", value)
  <2>1. Inside(i)
    BY <1>4, OpenInText
  <2>2. value = "!" => Bang(i, Len(tokens))'
    <3>1. Len(tokens') \in i + 1 .. Len(tokens')
      BY <1>1, <1>2
    <3> QED BY <1>2, <3>1, Zenon DEF Bang
  <2>3. StaysIn(state, state') /\ Placed(i, value)
        /\ (state' \in Escapes => \/ Bang(i, Len(tokens)) \/ value = "!"
                                  \/ (emitAt' = 2 /\ temporary' = <<"<", "!">>))
    BY <1>4, <2>1
  <2>4. state' \in Escapes => \/ Bang(i, Len(tokens)) \/ Bang(i, Len(tokens))'
                              \/ (emitAt' = 2 /\ temporary' = <<"<", "!">>)
    BY <2>2, <2>3, Zenon
  <2>5. Inside(i)'
    BY <1>2, <1>3, <1>4, <2>1, <2>3, <2>4, InsideStays
  <2> QED BY <2>3, <2>5 DEF GoesOn, TextTypes, Opened
<1> QED BY <1>4, EmittedContent

LEMMA ContentKeptByEmitsReference ==
  ASSUME IInv, IInv', ContentInv, Moves, EmitsReference
  PROVE  ContentInv'
PROOF
<1>1. /\ In(state) /\ state \in ReferenceStates /\ state' \in {"DATA", "RCDATA"}
      /\ EmitCharRef(state') /\ lastStartTag' = lastStartTag
      /\ Lexing /\ emitAt = 0
  BY DEF EmitsReference, ReferenceStates, KeepTag, tagVars, In
<1>2. Advance /\ Finish("character", Current) /\ emitAt' = 0
  BY <1>1 DEF EmitCharRef
<1>3. Current \in References /\ Current \notin {EOF, "<"}
  BY <1>1 DEF ContentInv, AtReference, References, EOF
<1>4. InputOK
  BY DEF IInv
<1>5. Reading /\ pos' = pos + 1
  BY <1>2, <1>3, <1>4, AdvanceReads
<1>6. /\ state \in Text /\ state' \in Text /\ state' \notin ReferenceStates /\ state # "DATA" /\ state' \notin Escapes
      /\ state \notin ScriptStates /\ state \notin EndTagNameStates
      /\ state' \notin EndTagNameStates
  <2>1. state \in Text /\ state' \in Text /\ state' \notin ReferenceStates /\ state # "DATA" /\ state' \notin Escapes
        /\ state \notin ScriptStates
    BY <1>1 DEF Text, DataStates, ReferenceStates, Escapes, ScriptStates
  <2> QED BY <2>1, ClassesAreDisjoint DEF Openers
<1>7. EndTagRead' /\ AtReference' /\ OnlyOneLt' /\ ~Over
  BY <1>2, <1>6, NothingPending DEF Over
<1>8. StaysIn(state, state')
  BY <1>6 DEF Moves
<1>9. ASSUME NEW i, Inside(i)
      PROVE  Placed(i, Current)
  <2>1. tokenStart = Last.to /\ tokenStart = pos
    BY <1>6, <1>9, Zenon DEF Inside
  <2> QED BY <1>3, <1>4, <1>5, <2>1 DEF Placed, InputOK, Current
<1> QED BY <1>1, <1>2, <1>5, <1>6, <1>7, <1>8, <1>9, CharacterGoesOn

\* The second character of a reference.
LEMMA ContentKeptByEmitBuffered ==
  ASSUME IInv, IInv', ContentInv, EmitBuffered
  PROVE  ContentInv'
PROOF
<1>1. /\ Lexing /\ buffered = "second" /\ Finish("character", "second")
      /\ source' = source /\ pos' = pos /\ state' = state /\ emitAt' = emitAt /\ lastStartTag' = lastStartTag
  BY DEF IInv, EmitBuffered, BuffersOK, temporaryVars, tagVars
<1>2. emitAt = 0 /\ state \in {"DATA", "RCDATA"}
  BY <1>1 DEF IInv, PendingText, None
<1>3. Reading
  BY <1>1 DEF IInv, InputOK, Reading
<1>4. state \in Text /\ state \notin Escapes /\ state \notin ReferenceStates /\ state \notin EndTagNameStates
  BY <1>2 DEF Text, DataStates, Escapes, ScriptStates, ReferenceStates, EndTagNameStates
<1>5. EndTagRead' /\ AtReference' /\ OnlyOneLt' /\ ~Over
  BY <1>1, <1>2, <1>4, NothingPending DEF Over, None
<1>6. StaysIn(state, state')
  BY <1>1 DEF StaysIn
<1>7. ASSUME NEW i, Inside(i)
      PROVE  Placed(i, "second")
  BY <1>7, Zenon DEF Placed, Inside
<1> QED BY <1>1, <1>3, <1>4, <1>5, <1>6, <1>7, CharacterGoesOn

\* What is left of the temporary buffer.
LEMMA ContentKeptByFlush ==
  ASSUME IInv, IInv', ContentInv, FlushTemporary
  PROVE  ContentInv'
PROOF
<1>1. /\ Lexing /\ buffered = None /\ emitAt # 0 /\ Advance
      /\ Finish("character", temporary[emitAt])
      /\ emitAt' = IF emitAt = Len(temporary) THEN 0 ELSE emitAt + 1
      /\ state' = state /\ temporary' = temporary /\ lastStartTag' = lastStartTag
  BY DEF FlushTemporary, EmitNext, tagVars
<1>2. /\ emitAt \in 1 .. Len(temporary) /\ temporary \in Seq(Unit) /\ Len(temporary) \in Nat
      /\ state \in Text \ ReferenceStates /\ pos = mark + emitAt - 1
      /\ \A i \in emitAt .. Len(temporary) : temporary[i] # EOF /\ temporary[i] = source[mark + i - 1]
  BY <1>1 DEF IInv, BuffersOK, PendingText, TemporaryBufferIsTheInput
<1>3. InputOK /\ Current = temporary[emitAt] /\ Current # EOF
  BY <1>2 DEF IInv, Current
<1>4. Reading /\ pos' = pos + 1
  BY <1>1, <1>3, AdvanceReads
<1>5. \A i \in emitAt .. Len(temporary) : temporary[i] # "<"
  BY <1>1 DEF ContentInv, OnlyOneLt
<1>6. Current # "<"
  BY <1>2, <1>3, <1>5
<1>7. OnlyOneLt'
  <2>1. CASE emitAt = Len(temporary)
    BY <1>1, <2>1, NothingPending
  <2>2. CASE emitAt # Len(temporary)
    <3>1. emitAt' = emitAt + 1 /\ \A i \in emitAt' .. Len(temporary) : i \in emitAt .. Len(temporary)
      BY <1>1, <1>2, <2>2
    <3> QED BY <1>1, <1>5, <3>1 DEF OnlyOneLt
  <2> QED BY <2>1, <2>2
<1>8. state \notin EndTagNameStates
  BY <1>2, ClassesAreDisjoint DEF Openers
<1>9. EndTagRead' /\ AtReference' /\ ~Over
  BY <1>1, <1>2, <1>8, NothingPending DEF Over
<1>10. StaysIn(state, state')
  BY <1>1 DEF StaysIn
<1>11. ASSUME NEW i, Inside(i)
       PROVE  /\ Placed(i, Current)
              /\ state \in Escapes => Bang(i, Len(tokens)) \/ Current = "!"
  <2>1. tokenStart = Last.to /\ tokenStart = pos
        /\ (state \in Escapes => Bang(i, Len(tokens)) \/ (emitAt = 2 /\ temporary = <<"<", "!">>))
    BY <1>2, <1>11, Zenon DEF Inside
  <2>2. Placed(i, Current)
    BY <1>3, <1>4, <1>6, <2>1 DEF Placed, InputOK, Current
  <2>3. emitAt = 2 /\ temporary = <<"<", "!">> => Current = "!"
    BY <1>3
  <2> QED BY <2>1, <2>2, <2>3
<1> QED BY <1>1, <1>2, <1>3, <1>4, <1>7, <1>9, <1>10, <1>11, CharacterGoesOn

\* Lower case keeps apart what is a letter and what is none.
LEMMA LowerLetters ==
  /\ \A u : Lower(u) \in Letters => u \in Letters
  /\ \A u \in Letters : Lower(u) \notin {"/", ">"}
  /\ \A u : u \notin {"/", ">"} => Lower(u) \notin {"/", ">"}
PROOF
<1>1. "s" \in Letters => "S" \in Letters
  BY LettersAssumption
<1>2. \A u \in Letters : u \notin {"/", ">"}
  BY LettersAssumption
<1>3. \A u : u \notin {"/", ">"} => Lower(u) \notin {"/", ">"}
  BY DEF Lower
<1> QED BY <1>1, <1>2, <1>3 DEF Lower

\* What is given back is not the end tag of the element.
LEMMA NoEndTagIsGivenBack ==
  ASSUME IInv, EndTagRead, In(state), state \in Openers, IsNoEndTag,
         lastStartTag \in Seq(Letters), lastStartTag # <<>>
  PROVE  Differs(source, mark, lastStartTag)
PROOF
<1> DEFINE name == lastStartTag
           l == Len(temporary)
           n == Len(name)
<1>1. /\ emitAt = 0 /\ temporary \in Seq(Unit) /\ mark \in Nat /\ pos = mark + l /\ pos <= Len(source)
      /\ \A i \in 1 .. l : temporary[i] = source[mark + i - 1]
      /\ Len(source) \in Nat
  BY DEF IInv, In, InputOK, BuffersOK, TemporaryBufferIsTheInput, Openers
<1>2. /\ state \in LtStates => temporary = <<"<">>
      /\ state \in EndTagOpenStates => temporary = <<"<", "/">>
      /\ state \in EndTagNameStates => l > 2
  BY <1>1 DEF IInv, TemporaryBufferIsTheInput
<1>3. l \in Nat /\ n \in Nat /\ n >= 1 /\ \A k \in 1 .. n : name[k] \in Letters
  BY <1>1
<1>4. Current = source[mark + l]
  BY <1>1 DEF Current
<1> HIDE DEF l, n, name
\* The units of the end tag.
<1>5. /\ Written(name, 1) = "/" /\ Written(name, n + 2) = ">"
      /\ \A m \in 2 .. n + 1 : Written(name, m) = name[m - 1] /\ name[m - 1] \in Letters
  <2>1. n + 2 # 1 /\ \A m \in 2 .. n + 1 : m # 1 /\ m # n + 2 /\ m - 1 \in 1 .. n
    BY <1>3
  <2> QED BY <1>3, <2>1 DEF Written, n
<1>6. ASSUME NEW m \in 1 .. n + 2, mark + m <= Len(source), Lower(source[mark + m]) # Written(name, m)
      PROVE  Differs(source, mark, name)
  BY <1>6, Zenon DEF Differs, n
<1>7. CASE state \in LtStates
  <2>1. l = 1 /\ Current # "/"
    BY <1>2, <1>7 DEF l, IsNoEndTag
  <2>2. Lower(source[mark + 1]) # Written(name, 1) /\ mark + 1 <= Len(source) /\ 1 \in 1 .. n + 2
    BY <1>1, <1>3, <1>4, <1>5, <2>1 DEF Lower
  <2> QED BY <1>6, <2>2 DEF name
<1>8. CASE state \in EndTagOpenStates
  <2>1. l = 2 /\ Current \notin Letters
    BY <1>2, <1>8 DEF l, IsNoEndTag, IsLetter
  <2>2. 2 \in 1 .. n + 2 /\ 2 \in 2 .. n + 1 /\ mark + 2 <= Len(source)
    BY <1>1, <1>3, <2>1
  <2>3. Lower(source[mark + 2]) # Written(name, 2)
    BY <1>4, <1>5, <2>1, <2>2, LowerLetters
  <2> QED BY <1>6, <2>2, <2>3 DEF name
<1>9. CASE state \in EndTagNameStates
  <2>1. /\ l > 2 /\ Len(tag.buffer) = l - 2
        /\ \A k \in 1 .. Len(tag.buffer) : temporary[k + 2] \in Letters /\ tag.buffer[k] = Lower(temporary[k + 2])
        /\ Current \notin Letters /\ ~(IsAppropriateEndTag /\ EndsTagName)
    BY <1>2, <1>9 DEF EndTagRead, l, IsNoEndTag, IsLetter
  <2>2. CASE l - 2 < n
    <3>1. l \in 1 .. n + 2 /\ l \in 2 .. n + 1
      BY <1>3, <2>1, <2>2
    <3>2. Lower(source[mark + l]) # Written(name, l)
      BY <1>4, <1>5, <2>1, <3>1, LowerLetters
    <3>3. mark + l <= Len(source)
      BY <1>1
    <3> QED BY <1>6, <3>1, <3>2, <3>3 DEF name
  <2>3. CASE l - 2 > n
    <3>1. n + 2 \in 1 .. n + 2 /\ n + 1 \in 1 .. Len(tag.buffer) /\ n + 3 \in 1 .. l /\ mark + (n + 2) <= Len(source)
          /\ (n + 1) + 2 = n + 3 /\ mark + (n + 3) - 1 = mark + (n + 2)
      BY <1>1, <1>3, <2>1, <2>3
    <3>2. temporary[n + 3] = source[mark + (n + 2)] /\ temporary[n + 3] \in Letters
      BY <1>1, <2>1, <3>1
    <3>3. Lower(source[mark + (n + 2)]) # Written(name, n + 2)
      BY <1>5, <3>2, LowerLetters
    <3> QED BY <1>6, <3>1, <3>3 DEF name
  <2>4. CASE l - 2 = n
    <3>1. CASE \E k \in 1 .. n : tag.buffer[k] # name[k]
      <4>1. PICK k \in 1 .. n : tag.buffer[k] # name[k]
        BY <3>1
      <4>2. /\ k \in 1 .. Len(tag.buffer) /\ k + 1 \in 1 .. n + 2 /\ k + 1 \in 2 .. n + 1 /\ (k + 1) - 1 = k
            /\ mark + (k + 1) <= Len(source) /\ k + 2 \in 1 .. l /\ mark + (k + 2) - 1 = mark + (k + 1)
        BY <1>1, <1>3, <2>1, <2>4
      <4>3. temporary[k + 2] = source[mark + (k + 1)] /\ tag.buffer[k] = Lower(temporary[k + 2])
        BY <1>1, <2>1, <4>2
      <4>4. Lower(source[mark + (k + 1)]) # Written(name, k + 1)
        BY <1>5, <4>1, <4>2, <4>3
      <4> QED BY <1>6, <4>2, <4>4 DEF name
    <3>2. CASE \A k \in 1 .. n : tag.buffer[k] = name[k]
      <4>1. tag.buffer \in Seq(Unit) /\ name \in Seq(Unit)
        BY DEF IInv, BuffersOK, TagType, name
      <4>2. tag.buffer = name
        <5>1. Len(tag.buffer) = Len(name)
          BY <2>1, <2>4 DEF n
        <5>2. \A k \in 1 .. Len(tag.buffer) : tag.buffer[k] = name[k]
          BY <2>1, <2>4, <3>2
        <5> QED BY <4>1, <5>1, <5>2, SameUnits
      <4>3. IsAppropriateEndTag
        BY <4>2 DEF IsAppropriateEndTag, name
      <4>4. Current \notin {"/", ">"}
        BY <2>1, <4>3 DEF EndsTagName
      <4>5. Lower(source[mark + l]) # ">" /\ l = n + 2 /\ mark + l <= Len(source) /\ n + 2 \in 1 .. n + 2
        BY <1>1, <1>3, <1>4, <2>1, <2>4, <4>4, LowerLetters
      <4>6. mark + (n + 2) <= Len(source) /\ Lower(source[mark + (n + 2)]) # Written(name, n + 2)
        BY <1>5, <4>5
      <4> QED BY <1>6, <4>5, <4>6 DEF name
    <3> QED BY <3>1, <3>2
  <2> QED BY <1>3, <2>1, <2>2, <2>3, <2>4
<1> QED BY <1>7, <1>8, <1>9 DEF Openers

LEMMA ContentKeptByGivesBack ==
  ASSUME IInv, IInv', ContentInv, Moves, GivesBack
  PROVE  ContentInv'
PROOF
<1>1. /\ In(state) /\ state \in Openers /\ state' \in Text \ ReferenceStates /\ IsNoEndTag
      /\ emitAt = 0 /\ Lexing
      /\ (IF state \in EndTagNameStates THEN ChangeTag(Abandoned) ELSE KeepTag)
  BY DEF GivesBack, In
<1>2. lastStartTag' = lastStartTag
  BY <1>1 DEF ChangeTag, KeepTag, tagVars
<1>3. PICK data, script :
        /\ \/ data = temporary
           \/ state \in LtStates /\ Current \notin {EOF, "<"} /\ data = temporary \o <<Current>>
        /\ EmitTemporary(state', data, script)
  BY DEF GivesBack
<1>4. /\ pos' = mark + 1 /\ source' = source /\ temporary' = data
      /\ Finish("character", data[1])
      /\ emitAt' = IF 1 = Len(data) THEN 0 ELSE 2
  BY <1>3 DEF EmitTemporary, EmitNext
<1>5. /\ temporary \in Seq(Unit) /\ Current \in Unit /\ InputOK /\ EndTagRead
      /\ pos = mark + Len(temporary) /\ Len(temporary) >= 1
      /\ \A i \in 1 .. Len(temporary) : temporary[i] = source[mark + i - 1]
      /\ mark \in 1 .. Len(source) /\ Len(temporary) \in Nat
  <2>1. InputOK /\ temporary \in Seq(Unit)
    BY DEF IInv, BuffersOK
  <2>3. Len(temporary) >= 1
    <3>1. /\ state \in LtStates => temporary = <<"<">>
          /\ state \in EndTagOpenStates => temporary = <<"<", "/">>
          /\ state \in EndTagNameStates => Len(temporary) > 2
      BY <1>1 DEF IInv, TemporaryBufferIsTheInput
    <3> QED BY <1>1, <3>1 DEF Openers
  <2>2. EndTagRead
    BY Zenon DEF ContentInv
  <2> QED BY <1>1, <2>1, <2>2, <2>3, CurrentIsAUnit DEF IInv, InputOK, TemporaryBufferIsTheInput, Openers
<1>6. /\ state \in LtStates => temporary = <<"<">>
      /\ state \in EndTagOpenStates => temporary = <<"<", "/">>
      /\ state \in EndTagNameStates => Len(temporary) > 2
  BY <1>1 DEF IInv, TemporaryBufferIsTheInput
\* Of what goes back to the text, only the first unit is a "<".
<1>7. \A k \in 2 .. Len(temporary) : temporary[k] # "<"
  <2>1. CASE state \in LtStates
    <3>1. Len(temporary) = 1
      BY <1>6, <2>1
    <3> QED BY <3>1
  <2>2. CASE state \in EndTagOpenStates
    <3>1. Len(temporary) = 2 /\ temporary[2] = "/"
      BY <1>6, <2>2
    <3>2. \A k \in 2 .. Len(temporary) : k = 2
      BY <3>1
    <3> QED BY <3>1, <3>2
  <2>3. CASE state \in EndTagNameStates
    <3>1. /\ temporary[2] = "/" /\ Len(tag.buffer) = Len(temporary) - 2
          /\ \A k \in 1 .. Len(tag.buffer) : temporary[k + 2] \in Letters
      BY <1>5, <2>3 DEF EndTagRead
    <3>2. \A k \in 3 .. Len(temporary) : k - 2 \in 1 .. Len(tag.buffer) /\ (k - 2) + 2 = k
      BY <1>5, <3>1
    <3>3. \A k \in 3 .. Len(temporary) : temporary[k] \in Letters
      BY <3>1, <3>2
    <3>4. \A k \in 2 .. Len(temporary) : k = 2 \/ k \in 3 .. Len(temporary)
      BY <1>5
    <3> QED BY <3>1, <3>3, <3>4, LettersAssumption
  <2> QED BY <1>1, <2>1, <2>2, <2>3 DEF Openers
<1>8. /\ data[1] = temporary[1] /\ Len(data) \in Nat
      /\ \A k \in 2 .. Len(data) : data[k] # "<"
  <2>1. CASE data = temporary
    BY <1>5, <1>7, <2>1
  <2>2. CASE Current \notin {EOF, "<"} /\ data = temporary \o <<Current>>
    <3>1. <<Current>> \in Seq(Unit) /\ Len(<<Current>>) = 1 /\ <<Current>>[1] = Current
      BY <1>5
    <3>2. /\ data \in Seq(Unit) /\ Len(data) = Len(temporary) + 1
          /\ \A i \in 1 .. Len(temporary) : data[i] = temporary[i]
          /\ data[Len(temporary) + 1] = Current
      BY <1>5, <2>2, <3>1, Joined
    <3>3. \A k \in 2 .. Len(data) : (k \in 2 .. Len(temporary) /\ k \in 1 .. Len(temporary)) \/ k = Len(temporary) + 1
      BY <1>5, <3>2
    <3> QED BY <1>5, <1>7, <2>2, <3>2, <3>3
  <2> QED BY <1>3, <2>1, <2>2
<1>9. OnlyOneLt'
  <2>1. emitAt' # 0 => \A k \in emitAt' .. Len(data) : k \in 2 .. Len(data)
    BY <1>4, <1>8
  <2> QED BY <1>4, <1>8, <2>1 DEF OnlyOneLt
<1>10. /\ state' \notin EndTagNameStates /\ state \notin Text /\ "DATA" \in Text
  BY <1>1, ClassesAreDisjoint, StatesApart DEF Openers
<1>11. EndTagRead' /\ AtReference' /\ ~Over /\ Reading
  <2>1. ~Over
    BY <1>10 DEF Over
  <2> QED BY <1>1, <1>4, <1>5, <1>10, <2>1, NothingPending DEF Reading, InputOK
<1>12. StaysIn(state, state')
  <2>1. ~(state \in EndTagNameStates /\ IsAppropriateEndTag /\ EndsTagName)
    BY <1>1 DEF IsNoEndTag
  <2>2. state \notin ScriptStates
    BY <1>10 DEF Text
  <2> QED BY <2>1, <2>2 DEF Moves
<1>13. ASSUME NEW i \in 1 .. Len(tokens), tokens[i].then \in Ways, Inside(i)
       PROVE  /\ Placed(i, data[1])
              /\ state' \in Escapes => Bang(i, Len(tokens)) \/ (emitAt' = 2 /\ temporary' = <<"<", "!">>)
  <2>1. tokenStart = Last.to /\ tokenStart = mark /\ lastStartTag = tokens[i].value.name
    BY <1>1, <1>13, Zenon DEF Inside
  <2>2. tokenStart \in 1 .. Len(source) /\ source[tokenStart] = data[1] /\ pos' = tokenStart + 1
    BY <1>4, <1>5, <1>8, <2>1
  <2>3. Differs(source', tokenStart, tokens[i].value.name)
    <3>1. ContentRead(i)
      BY <1>13 DEF ContentInv, Ways, None
    <3> QED BY <1>1, <1>4, <1>5, <2>1, <3>1, NameOfContent, NoEndTagIsGivenBack
  <2>4. ASSUME state' \in Escapes, ~Bang(i, Len(tokens))
        PROVE  emitAt' = 2 /\ temporary' = <<"<", "!">>
    <3>1. state = "SCRIPT_LT" /\ Current = "!" /\ temporary' = Append(temporary, "!")
      BY <1>1, <1>13, <2>4, EscapesHaveABang
    <3>2. temporary = <<"<">>
      BY <1>6, <3>1 DEF LtStates
    <3>3. temporary' = <<"<", "!">>
      <4>1. "<" \in Unit /\ "!" \in Unit
        BY DEF Unit
      <4>2. temporary' = <<"<">> \o <<"!">>
        BY <3>1, <3>2, <4>1
      <4> QED BY <4>1, <4>2, WrittenOut
    <3>4. Len(data) = 2
      BY <1>4, <3>3
    <3> QED BY <1>4, <3>3, <3>4
  <2> QED BY <2>1, <2>2, <2>3, <2>4 DEF Placed
<1> QED BY <1>1, <1>2, <1>4, <1>9, <1>11, <1>12, <1>13, CharacterGoesOn

-----------------------------------------------------------------------------
(***************************************************************************)
(* ... those that begin and read a tag, ...                                *)
(***************************************************************************)

\* A handler that reads on where no content is open.
LEMMA ReadsOnElsewhere ==
  ASSUME IInv, ContentInv, In(state), NEW next, NextChar(next) \/ Reconsume(next),
         state # "DATA", state \notin TagStates \ {"TAG_NAME"}, \A way \in Ways : state \notin Content(way),
         emitAt' = emitAt, state' \notin EndTagNameStates, state' \notin ReferenceStates
  PROVE  ContentInv'
PROOF
<1>1. Reading /\ UNCHANGED <<tokens, handled>> /\ emitAt = 0 /\ Lexing
  BY HandlerReadsOn
<1>2. EndTagRead' /\ AtReference' /\ OnlyOneLt'
  BY <1>1, NothingPending
<1>3. \A i \in 1 .. Len(tokens) : tokens[i].then \in Ways => ~Open(i)
  BY NothingIsOpen
<1> QED BY <1>1, <1>2, <1>3, QuietContent

\* The states markup is read in are neither text nor end tags of text.
LEMMA ElsewhereStates ==
  /\ \A s \in {"TAG_OPEN", "END_TAG_OPEN"} :
       s # "DATA" /\ s \notin TagStates /\ \A way \in Ways : s \notin Content(way)
  /\ \A s \in TagStates \union CommentStates \union DoctypeStates \union {"MARKUP_DECLARATION", "CDATA", "BOGUS_DOCTYPE"} :
       s # "DATA" /\ s \notin EndTagNameStates /\ s \notin ReferenceStates /\ \A way \in Ways : s \notin Content(way)
  /\ \A s \in CommentStates \union DoctypeStates \union {"MARKUP_DECLARATION", "CDATA", "BOGUS_DOCTYPE"} : s \notin TagStates
  /\ "DATA" \notin EndTagNameStates /\ "DATA" \notin ReferenceStates
PROOF
<1>1. \A s \in {"TAG_OPEN", "END_TAG_OPEN"} :
        s # "DATA" /\ s \notin TagStates /\ \A way \in Ways : s \notin Content(way)
  <2>1. {"TAG_OPEN", "END_TAG_OPEN"} \subseteq Openers
    BY DEF Openers, LtStates, EndTagOpenStates
  <2> QED BY <2>1, ContentsApart, ClassesAreDisjoint
<1>2. \A s \in TagStates \union CommentStates \union DoctypeStates \union {"MARKUP_DECLARATION", "CDATA", "BOGUS_DOCTYPE"} :
        s \notin Text \union Openers
  BY ClassesAreDisjoint
<1>3. "DATA" \in Text /\ ReferenceStates \subseteq Text /\ EndTagNameStates \subseteq Openers
  BY DEF Text, DataStates, ReferenceStates, Openers
<1>4. "DATA" \notin EndTagNameStates /\ "DATA" \notin ReferenceStates
  BY DEF EndTagNameStates, ReferenceStates
<1> QED BY <1>1, <1>2, <1>3, <1>4, ContentsApart, ClassesAreDisjoint

LEMMA ContentKeptByBeginnings ==
  ASSUME IInv, ContentInv, BeginsMarkup \/ BeginsBogus \/ SkipsEmptyEnd \/ BeginsTag
  PROVE  ContentInv'
PROOF
<1>1. /\ In(state) /\ state \in {"TAG_OPEN", "END_TAG_OPEN"} /\ emitAt' = emitAt
      /\ \E next \in {"MARKUP_DECLARATION", "BOGUS_COMMENT", "DATA", "TAG_NAME"} : NextChar(next)
  BY DEF BeginsMarkup, BeginsBogus, SkipsEmptyEnd, BeginsTag, In, ClearTemporary, KeepsBuffer
<1>2. PICK next \in {"MARKUP_DECLARATION", "BOGUS_COMMENT", "DATA", "TAG_NAME"} : NextChar(next)
  BY <1>1
<1>3. state' = next
  BY <1>2 DEF NextChar
<1>4. state' \notin EndTagNameStates /\ state' \notin ReferenceStates
  BY <1>3 DEF EndTagNameStates, ReferenceStates
<1> QED BY <1>1, <1>2, <1>4, ElsewhereStates, ReadsOnElsewhere

\* The name of an end tag of text.
LEMMA EndTagIsRead ==
  ASSUME IInv, ContentInv, BeginsEndTag \/ ReadsEndTagName
  PROVE  EndTagRead' /\ lastStartTag' = lastStartTag
PROOF
<1>1. /\ In(state) /\ Current \in Letters /\ Current \in Unit /\ Lower(Current) \in Unit
      /\ temporary \in Seq(Unit) /\ emitAt = 0 /\ tag \in TagType
  BY CurrentIsAUnit DEF IInv, BuffersOK, BeginsEndTag, ReadsEndTagName, In, IsLetter
<1>2. <<Current>> \in Seq(Unit) /\ Len(<<Current>>) = 1 /\ <<Current>>[1] = Current
  BY <1>1
<1>3. AppendTemporary(<<Current>>) => 
        /\ Len(temporary') = Len(temporary) + 1 /\ temporary'[Len(temporary) + 1] = Current
        /\ \A k \in 1 .. Len(temporary) : temporary'[k] = temporary[k]
  BY <1>1, <1>2, Joined DEF AppendTemporary
<1>4. CASE BeginsEndTag
  <2>1. /\ state \in EndTagOpenStates /\ tag' = NewTag(FALSE) /\ lastStartTag' = lastStartTag
        /\ AppendTemporary(<<Current>>)
    BY <1>4 DEF BeginsEndTag, ChangeTag
  <2>2. temporary = <<"<", "/">>
    BY <1>1, <2>1 DEF IInv, TemporaryBufferIsTheInput
  <2>3. Len(temporary) = 2 /\ temporary[2] = "/"
    BY <2>2
  <2>4. tag'.isStart = FALSE /\ tag'.buffer = <<Lower(Current)>>
    BY <2>1 DEF NewTag, NoTag
  <2>5. Len(tag'.buffer) = 1 /\ tag'.buffer[1] = Lower(Current)
    BY <1>1, <2>4
  <2>6. temporary'[2] = "/" /\ Len(temporary') = 3 /\ temporary'[3] = Current
    BY <1>3, <2>1, <2>3
  <2>7. \A k \in 1 .. Len(tag'.buffer) : temporary'[k + 2] \in Letters /\ tag'.buffer[k] = Lower(temporary'[k + 2])
    <3>1. \A k \in 1 .. Len(tag'.buffer) : k = 1 /\ k + 2 = 3
      BY <2>5
    <3> QED BY <1>1, <2>5, <2>6, <3>1
  <2>8. Len(tag'.buffer) = Len(temporary') - 2 /\ ~tag'.isStart
    BY <2>4, <2>5, <2>6
  <2> QED BY <2>1, <2>6, <2>7, <2>8 DEF EndTagRead
<1>5. CASE ReadsEndTagName
  <2>1. /\ state \in EndTagNameStates /\ tag' = WithChar(Lower(Current)) /\ lastStartTag' = lastStartTag
        /\ AppendTemporary(<<Current>>)
    BY <1>5 DEF ReadsEndTagName, ChangeTag
  <2>2. /\ ~tag.isStart /\ temporary[2] = "/" /\ Len(tag.buffer) = Len(temporary) - 2 /\ Len(temporary) > 2
        /\ \A k \in 1 .. Len(tag.buffer) : temporary[k + 2] \in Letters /\ tag.buffer[k] = Lower(temporary[k + 2])
    BY <1>1, <2>1 DEF ContentInv, EndTagRead, IInv, TemporaryBufferIsTheInput
  <2>3. tag'.isStart = tag.isStart /\ tag'.buffer = Append(tag.buffer, Lower(Current)) /\ tag.buffer \in Seq(Unit)
    BY <1>1, <2>1 DEF WithChar, TagType
  <2>4. /\ Len(tag'.buffer) = Len(tag.buffer) + 1 /\ tag'.buffer[Len(tag.buffer) + 1] = Lower(Current)
        /\ \A k \in 1 .. Len(tag.buffer) : tag'.buffer[k] = tag.buffer[k]
    BY <1>1, <2>3, Appended
  <2>5. /\ Len(temporary') = Len(temporary) + 1 /\ temporary'[Len(temporary) + 1] = Current
        /\ \A k \in 1 .. Len(temporary) : temporary'[k] = temporary[k]
    BY <1>3, <2>1
  <2>6. Len(temporary) \in Nat /\ Len(tag.buffer) \in Nat
    BY <1>1, <2>3
  <2>7. temporary'[2] = "/" /\ Len(tag'.buffer) = Len(temporary') - 2
    BY <2>2, <2>4, <2>5, <2>6
  <2>8. ASSUME NEW k \in 1 .. Len(tag'.buffer)
        PROVE  temporary'[k + 2] \in Letters /\ tag'.buffer[k] = Lower(temporary'[k + 2])
    <3>1. CASE k \in 1 .. Len(tag.buffer)
      <4>1. k + 2 \in 1 .. Len(temporary)
        BY <2>2, <2>6, <3>1
      <4> QED BY <2>2, <2>4, <2>5, <3>1, <4>1
    <3>2. CASE k = Len(tag.buffer) + 1
      <4>1. k + 2 = Len(temporary) + 1
        BY <2>2, <2>6, <3>2
      <4> QED BY <1>1, <2>4, <2>5, <3>2, <4>1
    <3> QED BY <2>4, <2>6, <3>1, <3>2
  <2> QED BY <2>1, <2>2, <2>3, <2>7, <2>8 DEF EndTagRead
<1> QED BY <1>4, <1>5

LEMMA ContentKeptByEndTag ==
  ASSUME IInv, IInv', ContentInv, Moves, BeginsEndTag \/ ReadsEndTagName
  PROVE  ContentInv'
PROOF
<1>1. /\ In(state) /\ state \in EndTagOpenStates \union EndTagNameStates /\ state' \in EndTagNameStates
      /\ NextChar(state') /\ AppendTemporary(<<Current>>)
      /\ state \in EndTagNameStates => state' = state
  BY ClassesAreDisjoint DEF BeginsEndTag, ReadsEndTagName
<1>2. mark' = mark /\ emitAt' = emitAt
  BY <1>1 DEF AppendTemporary
<1>3. /\ state \in Openers /\ state' \in Openers /\ state \notin Text /\ state' \notin Text
      /\ state \notin LtStates /\ "SCRIPT_LT" \in LtStates /\ "DATA" \in Text
      /\ ReferenceStates \subseteq Text
  BY <1>1, ClassesAreDisjoint, StatesApart DEF Openers, LtStates, ReferenceStates, Text, DataStates
<1>4. AtReference'
  BY <1>3, NothingPending
<1> QED BY <1>1, <1>2, <1>3, <1>4, EndTagIsRead, TextReadsOn

\* The end tag of the content has been found.
LEMMA ContentKeptByEntersEndTag ==
  ASSUME IInv, IInv', ContentInv, EntersEndTag
  PROVE  ContentInv'
PROOF
<1>1. /\ In(state) /\ state \in EndTagNameStates /\ lastStartTag = tag.buffer
      /\ state' \in {"BEFORE_ATTR_NAME", "SELF_CLOSING_START_TAG"}
      /\ NextChar(state') /\ tag' = WithTagName /\ emitAt' = emitAt
  BY DEF EntersEndTag, IsAppropriateEndTag, ChangeTag, KeepsBuffer
<1>2. Reading /\ UNCHANGED <<tokens, handled>> /\ emitAt = 0 /\ Lexing
  BY <1>1, HandlerReadsOn
<1>3. tag'.isStart = FALSE /\ tag'.name = lastStartTag
  <2>1. tag.isStart = FALSE /\ tag \in TagType
    BY <1>1 DEF ContentInv, EndTagRead, IInv, BuffersOK, TagType
  <2> QED BY <1>1, <2>1 DEF WithTagName, TagType
<1>4. state' \in TagStates \ {"TAG_NAME"}
  BY <1>1 DEF TagStates
<1>5. EndTagRead' /\ AtReference' /\ OnlyOneLt'
  BY <1>1, <1>2, <1>4, ElsewhereStates, NothingPending
<1>6. ASSUME NEW i \in 1 .. Len(tokens), tokens[i].then \in Ways, Open(i)
      PROVE  Opened(i)'
  <2>1. state \in Openers /\ state \notin Text
    BY <1>1, ClassesAreDisjoint DEF Openers
  <2>2. Inside(i)
    <3>1. ~Over
      BY <2>1, StatesApart DEF Over
    <3> QED BY <1>6, <2>1, <3>1, OpenInText
  <2>3. state \in Content(tokens[i].then) /\ lastStartTag = tokens[i].value.name
    BY <2>2, Zenon DEF Inside
  <2>4. tokens[i].then # "PLAINTEXT"
    BY <2>1, <2>3, ContentsApart
  <2>5. Leaving(i)'
    BY <1>2, <1>3, <1>4, <2>3, <2>4 DEF Leaving
  <2> QED BY <2>5 DEF Opened
<1> QED BY <1>2, <1>5, <1>6, QuietContent

\* In a tag, what is open is being left.
LEMMA OpenInTag ==
  ASSUME state \in TagStates, NEW i, tokens[i].then \in Ways, Open(i)
  PROVE  Leaving(i)
PROOF BY ElsewhereStates, Zenon DEF Open, Inside, Over

LEMMA ContentKeptByEmitsTag ==
  ASSUME IInv, IInv', ContentInv, EmitsTag
  PROVE  ContentInv'
PROOF
<1>1. /\ In(state) /\ Current = ">" /\ (state \in EndTagNameStates => IsAppropriateEndTag)
      /\ emitAt' = emitAt
  BY DEF EmitsTag, KeepsBuffer
<1>2. PICK t : TagToEmit(t) /\ EmitTag("DATA", t)
  BY DEF EmitsTag
<1> DEFINE type == IF t.isStart THEN "start" ELSE "end"
           value == [name |-> t.name, selfClosing |-> t.selfClosing,
                     attributes |-> IF t.isStart THEN t.attributes ELSE <<>>]
<1>3. /\ Emit("DATA", type, value)
      /\ lastStartTag' = IF t.isStart THEN t.name ELSE lastStartTag
  BY <1>2 DEF EmitTag
<1>4. value.name = t.name
  OBVIOUS
<1> HIDE DEF value
<1>5. /\ Reading /\ state' = "DATA" /\ emitAt = 0 /\ Lexing /\ Finish(type, value)
  BY <1>1, <1>3, HandlerEmits
<1>6. EndTagRead' /\ AtReference' /\ OnlyOneLt'
  BY <1>1, <1>5, ElsewhereStates, NothingPending
<1>7. type = "start" => lastStartTag' = value.name
  BY <1>3, <1>4
<1>8. tag \in TagType /\ state \in TagStates \union EndTagNameStates
  BY <1>2 DEF IInv, BuffersOK, TagToEmit, TagStates
<1>9. ASSUME NEW i \in 1 .. Len(tokens), tokens[i].then \in Ways, Open(i)
      PROVE  GoesOn(i, type, value)
  <2>1. CASE state \in EndTagNameStates
    <3>1. state \in Openers /\ state \notin Text /\ state \notin TagStates
      BY <2>1, ClassesAreDisjoint DEF Openers
    <3>2. ~Over
      BY <3>1, StatesApart DEF Over
    <3>3. Inside(i)
      BY <1>9, <3>1, <3>2, OpenInText
    <3>4. state \in Content(tokens[i].then) /\ lastStartTag = tokens[i].value.name
      BY <3>3, Zenon DEF Inside
    <3>5. tokens[i].then # "PLAINTEXT"
      BY <3>1, <3>4, ContentsApart
    <3>6. t = WithTagName
      BY <1>2, <2>1, <3>1 DEF TagToEmit, TagStates
    <3>7. tag.isStart = FALSE /\ tag.buffer = lastStartTag
      BY <1>1, <1>8, <2>1 DEF ContentInv, EndTagRead, IsAppropriateEndTag, TagType
    <3>8. t.isStart = FALSE /\ t.name = lastStartTag
      BY <1>8, <3>6, <3>7, TagKeepsItsName
    <3>9. type = "end"
      BY <3>8
    <3> QED BY <1>4, <3>4, <3>5, <3>8, <3>9, Zenon DEF GoesOn
  <2>2. CASE state \in TagStates
    <3>1. Leaving(i)
      BY <1>9, <2>2, OpenInTag
    <3>2. state # "TAG_NAME" /\ tokens[i].then # "PLAINTEXT" /\ ~tag.isStart /\ tag.name = tokens[i].value.name
      BY <3>1, Zenon DEF Leaving
    <3>3. state \notin EndTagNameStates
      BY <2>2, ElsewhereStates
    <3>4. t \in {tag, WithAttributeName, WithAttributeValue, [tag EXCEPT !.selfClosing = TRUE]}
      BY <1>2, <3>2, <3>3 DEF TagToEmit
    <3>5. t.isStart = tag.isStart /\ t.name = tag.name
      BY <1>8, <3>4, TagKeepsItsName
    <3>6. type = "end"
      BY <3>2, <3>5
    <3> QED BY <1>4, <3>2, <3>5, <3>6, Zenon DEF GoesOn
  <2> QED BY <1>8, <2>1, <2>2
<1> QED BY <1>5, <1>6, <1>7, <1>9, EmittedContent

LEMMA ContentKeptByReadsTag ==
  ASSUME IInv, IInv', ContentInv, ReadsTag
  PROVE  ContentInv'
PROOF
<1>1. /\ In(state) /\ state \in TagStates /\ (NextChar(state') \/ Reconsume(state'))
      /\ TagMoves /\ emitAt' = emitAt
  BY DEF ReadsTag
<1>2. Reading /\ UNCHANGED <<tokens, handled>> /\ emitAt = 0 /\ Lexing
  BY <1>1, HandlerReadsOn
<1>3. tag \in TagType /\ (state = "CHAR_REF_IN_ATTR_VALUE" => attrValueState \in ValueTexts)
  BY DEF IInv, BuffersOK
<1>4. state' \in TagStates /\ (state # "TAG_NAME" => state' # "TAG_NAME")
  BY <1>1, <1>3 DEF TagMoves, ValueTexts, TagStates
<1>5. EndTagRead' /\ AtReference' /\ OnlyOneLt'
  BY <1>1, <1>2, <1>4, ElsewhereStates, NothingPending
<1>6. state # "TAG_NAME" => tag'.isStart = tag.isStart /\ tag'.name = tag.name
  <2>1. state # "TAG_NAME" =>
          \/ tag' = tag \/ (\E u : tag' = WithChar(u)) \/ tag' = WithAttributeName \/ tag' = WithAttributeValue
          \/ \E units : tag' = [tag EXCEPT !.buffer = tag.buffer \o units]
    BY <1>1 DEF TagMoves, KeepTag, tagVars, ChangeTag
  <2>2. ASSUME NEW units, tag' = [tag EXCEPT !.buffer = tag.buffer \o units]
        PROVE  tag'.isStart = tag.isStart /\ tag'.name = tag.name
    BY <1>3, <2>2 DEF TagType
  <2>3. tag' = tag => tag'.isStart = tag.isStart /\ tag'.name = tag.name
    OBVIOUS
  <2>4. (\E u : tag' = WithChar(u)) \/ tag' = WithAttributeName \/ tag' = WithAttributeValue
          => tag'.isStart = tag.isStart /\ tag'.name = tag.name
    BY <1>3, TagKeepsItsName, Zenon
  <2> QED BY <2>1, <2>2, <2>3, <2>4, Zenon
<1>7. ASSUME NEW i \in 1 .. Len(tokens), tokens[i].then \in Ways, Open(i)
      PROVE  Opened(i)'
  <2>1. Leaving(i)
    BY <1>1, <1>7, OpenInTag
  <2>2. state # "TAG_NAME" /\ tokens[i].then # "PLAINTEXT" /\ ~tag.isStart /\ tag.name = tokens[i].value.name
    BY <2>1, Zenon DEF Leaving
  <2>3. Leaving(i)'
    BY <1>2, <1>4, <1>6, <2>2 DEF Leaving
  <2> QED BY <2>3 DEF Opened
<1> QED BY <1>2, <1>5, <1>7, QuietContent

LEMMA ContentKeptByAbandonsTag ==
  ASSUME IInv, IInv', ContentInv, AbandonsTag
  PROVE  ContentInv'
PROOF
<1>1. /\ In(state) /\ state \in TagStates /\ Current = EOF /\ (NextChar("DATA") \/ Reconsume("DATA"))
      /\ emitAt' = emitAt
  BY DEF AbandonsTag, KeepsBuffer
<1>2. /\ Reading /\ UNCHANGED <<tokens, handled>> /\ emitAt = 0 /\ Lexing
      /\ state' = "DATA" /\ buffered' = None
      /\ NextChar("DATA") => pos' = pos
  BY <1>1, HandlerReadsOn
<1>3. pos' = pos
  BY <1>1, <1>2 DEF Reconsume, inputVars
<1>4. EndTagRead' /\ AtReference' /\ OnlyOneLt'
  BY <1>1, <1>2, ElsewhereStates, NothingPending
<1>5. Over'
  BY <1>1, <1>2, <1>3, PageIsOver DEF IInv, InputOK
<1> QED BY <1>2, <1>4, <1>5, QuietContent DEF Opened

-----------------------------------------------------------------------------
(***************************************************************************)
(* ... those in markup, where no content is open, and those of the parser. *)
(***************************************************************************)
MarkupStates == CommentStates \union DoctypeStates \union {"MARKUP_DECLARATION", "CDATA", "BOGUS_DOCTYPE"}

LEMMA NothingIsOpenInMarkup ==
  ASSUME state \in MarkupStates, NEW i, tokens[i].then \in Ways
  PROVE  ~Open(i)
PROOF BY NothingIsOpen, ElsewhereStates DEF MarkupStates

LEMMA QuietInMarkup ==
  ASSUME IInv, ContentInv, Lexing, UNCHANGED <<tokens, handled>>, Reading, emitAt' = 0,
         state \in MarkupStates, state' \in MarkupStates \union {"DATA"}
  PROVE  ContentInv'
PROOF
<1>1. EndTagRead' /\ AtReference' /\ OnlyOneLt'
  BY NothingPending, ElsewhereStates DEF MarkupStates
<1> QED BY <1>1, NothingIsOpenInMarkup, QuietContent

LEMMA EmittedInMarkup ==
  ASSUME IInv, IInv', ContentInv, Lexing, NEW type, NEW value, Finish(type, value), type # "start", Reading, emitAt' = 0,
         state \in MarkupStates, state' \in MarkupStates \union {"DATA"}
  PROVE  ContentInv'
PROOF
<1>1. EndTagRead' /\ AtReference' /\ OnlyOneLt'
  BY NothingPending, ElsewhereStates DEF MarkupStates
<1> QED BY <1>1, NothingIsOpenInMarkup, EmittedContent

LEMMA ContentKeptByMarkup ==
  ASSUME IInv, IInv', ContentInv, MarkupKind
  PROVE  ContentInv'
PROOF
<1>1. /\ "MARKUP_DECLARATION" \in MarkupStates /\ "CDATA" \in MarkupStates /\ "BOGUS_DOCTYPE" \in MarkupStates
      /\ CommentStates \subseteq MarkupStates /\ DoctypeStates \subseteq MarkupStates
      /\ {"COMMENT_START", "BOGUS_COMMENT", "DOCTYPE"} \subseteq MarkupStates
  BY DEF MarkupStates, CommentStates, DoctypeStates
<1>2. ASSUME In(state), state \in MarkupStates, state' \in MarkupStates \union {"DATA"}, emitAt' = emitAt,
             NextChar(state') \/ Reconsume(state')
      PROVE  ContentInv'
  <2>1. Reading /\ UNCHANGED <<tokens, handled>> /\ emitAt = 0 /\ Lexing
    BY <1>2, HandlerReadsOn
  <2> QED BY <1>2, <2>1, QuietInMarkup
<1>3. ASSUME In(state), state \in MarkupStates, NEW next \in MarkupStates \union {"DATA"}, emitAt' = emitAt,
             NEW type, NEW value, type # "start", Emit(next, type, value)
      PROVE  ContentInv'
  <2>1. Reading /\ emitAt = 0 /\ Lexing /\ Finish(type, value) /\ state' = next
    BY <1>3, HandlerEmits
  <2> QED BY <1>3, <2>1, EmittedInMarkup
<1>4. \A s : In(s) => In(state) /\ state = s
  BY InIsTheState
<1>5. \A next : NextChar(next) \/ Reconsume(next) => state' = next
  BY DEF NextChar, Reconsume
<1>6. \A data : ClearTemporary(data) \/ AppendTemporary(data) \/ KeepsBuffer => emitAt' = emitAt
  BY DEF ClearTemporary, AppendTemporary, KeepsBuffer
<1>7. CASE BeginsBogusComment \/ BeginsDoctype \/ BeginsCdata
  <2>1. /\ In("MARKUP_DECLARATION") /\ emitAt' = emitAt
        /\ \E next \in {"BOGUS_COMMENT", "DOCTYPE", "CDATA"} : NextChar(next) \/ Reconsume(next)
    BY <1>6, <1>7 DEF BeginsBogusComment, BeginsDoctype, BeginsCdata
  <2> QED BY <1>1, <1>2, <1>4, <1>5, <2>1
<1>8. CASE ReadsComment
  <2>1. In(state) /\ state \in CommentStates /\ state' \in CommentStates /\ NextChar(state') /\ emitAt' = emitAt
    BY <1>6, <1>8 DEF ReadsComment
  <2> QED BY <1>1, <1>2, <2>1
<1>9. CASE ReadsDoctype
  <2>1. /\ In(state) /\ state \in DoctypeStates \union {"BOGUS_DOCTYPE"}
        /\ state' \in DoctypeStates \union {"BOGUS_DOCTYPE"} /\ (NextChar(state') \/ Reconsume(state')) /\ emitAt' = emitAt
    BY <1>9 DEF ReadsDoctype
  <2> QED BY <1>1, <1>2, <2>1
<1>10. CASE BeginsComment
  <2>1. /\ In("MARKUP_DECLARATION") /\ TwoDashes /\ AdvanceTo(pos + 2) /\ state' = "COMMENT_START"
        /\ UNCHANGED outputVars /\ emitAt' = emitAt
    BY <1>6, <1>10 DEF BeginsComment
  <2>2. InputOK /\ pos \in 1 .. Len(source) /\ Len(source) \in Nat
    BY DEF IInv, InputOK
  <2>3. pos + 2 \in Nat /\ 1 <= pos + 2 /\ pos + 2 <= Len(source) + 1
    BY <2>1, <2>2 DEF TwoDashes
  <2>4. Reading
    BY <2>1, <2>2, <2>3, AdvanceToReads
  <2>5. emitAt = 0 /\ Lexing /\ state = "MARKUP_DECLARATION"
    BY <2>1 DEF In
  <2>6. UNCHANGED <<tokens, handled>>
    BY <2>1 DEF outputVars
  <2> QED BY <1>1, <2>1, <2>4, <2>5, <2>6, QuietInMarkup
<1>11. CASE LeavesCdata
  <2>1. /\ state = "CDATA" /\ state' = "DATA" /\ Advance /\ UNCHANGED <<tokens, handled>> /\ emitAt' = emitAt
        /\ emitAt = 0 /\ Lexing
    BY <1>6, <1>11 DEF LeavesCdata, In
  <2>2. Reading
    BY <2>1, AdvanceReads DEF IInv
  <2> QED BY <1>1, <2>1, <2>2, QuietInMarkup
<1>12. CASE EmitsComment
  <2>1. In(state) /\ state \in CommentStates /\ Emit("DATA", "comment", temporary) /\ emitAt' = emitAt
    BY <1>6, <1>12 DEF EmitsComment, EmitComment
  <2> QED BY <1>1, <1>3, <2>1
<1>13. CASE EmitsDoctype
  <2>1. /\ In(state) /\ state \in DoctypeStates \union {"BOGUS_DOCTYPE"} /\ emitAt' = emitAt
        /\ state' \in {"DATA", "BOGUS_DOCTYPE"}
        /\ \E d : Emit(state', "doctype", d)
    BY <1>13 DEF EmitsDoctype, EmitDoctype
  <2> QED BY <1>1, <1>3, <2>1
<1>14. CASE EmitsCdata
  <2>1. In("CDATA") /\ emitAt' = emitAt /\ Emit("CDATA", CharType(Current), Current)
    BY <1>6, <1>14 DEF EmitsCdata, EmitCurrentChar
  <2>2. CharType(Current) # "start"
    BY DEF CharType
  <2> QED BY <1>1, <1>3, <1>4, <2>1, <2>2
<1> QED BY <1>7, <1>8, <1>9, <1>10, <1>11, <1>12, <1>13, <1>14 DEF MarkupKind

LEMMA ContentKeptByLookAhead ==
  ASSUME IInv, ContentInv, LookAhead
  PROVE  ContentInv'
PROOF
<1>1. /\ In("MARKUP_DECLARATION") /\ UNCHANGED <<tokens, handled>> /\ emitAt' = emitAt /\ state' = state
      /\ \E u \in Following : source' = Append(source, u)
  BY DEF LookAhead, outputVars, temporaryVars
<1>2. state = "MARKUP_DECLARATION" /\ emitAt = 0 /\ Lexing
  BY <1>1 DEF In
<1>3. Reading
  <2>1. source \in Seq(Unit) /\ Following \subseteq Unit
    BY FollowingAreUnits DEF IInv, InputOK
  <2>2. PICK u \in Unit : source' = Append(source, u)
    BY <1>1, <2>1
  <2> QED BY <2>1, <2>2, Appended DEF Reading
<1> QED BY <1>1, <1>2, <1>3, QuietInMarkup DEF MarkupStates

\* What is read does not depend on how many tokens the parser has seen.
LEMMA SameContent ==
  ASSUME NEW i, ContentRead(i), i <= handled',
         UNCHANGED <<state, tokens, source, pos, tag, lastStartTag, tokenStart, mark, temporary, emitAt, buffered>>
  PROVE  ContentRead(i)'
PROOF
<1>1. /\ state' = state /\ tokens' = tokens /\ source' = source /\ pos' = pos /\ tag' = tag
      /\ lastStartTag' = lastStartTag /\ tokenStart' = tokenStart /\ mark' = mark /\ temporary' = temporary
      /\ emitAt' = emitAt /\ buffered' = buffered
  OBVIOUS
<1>2. /\ tokens[i].value.name \in DOMAIN TextStates /\ tokens[i].then = TextStates[tokens[i].value.name]
      /\ \A j \in i + 1 .. Len(tokens) : Characters(i, j) => Stands(i, j)
      /\ Closed(i) \/ Open(i)
  BY Zenon DEF ContentRead
<1>3. Closed(i) => Closed(i)'
  BY <1>1, Zenon DEF Closed, Ends, Texts
<1>4. \A j, k : Bang(j, k)' <=> Bang(j, k)
  BY <1>1, Zenon DEF Bang
<1>5. Inside(i) => Inside(i)'
  <2>1. state \in Content(tokens[i].then) => (state \in Content(tokens[i].then))'
    BY <1>1, Zenon DEF Content
  <2>2. Bang(i, Len(tokens)) => Bang(i, Len(tokens))'
    BY <1>1, Zenon DEF Bang
  <2> QED BY <1>1, <2>1, <2>2, Zenon DEF Inside, Last
<1>6. Leaving(i) => Leaving(i)'
  BY <1>1, Zenon DEF Leaving
<1>7. Over => Over'
  BY <1>1, Zenon DEF Over, Current
<1>8. Open(i) => Open(i)'
  BY <1>1, <1>5, <1>6, <1>7, Zenon DEF Open, Texts
<1>9. \A j : Characters(i, j)' => Characters(i, j)
  BY <1>1, Zenon DEF Characters
<1>10. \A j : Stands(i, j) => Stands(i, j)'
  BY <1>1, Zenon DEF Stands, Bang, Placeable
<1> QED BY <1>1, <1>2, <1>3, <1>8, <1>9, <1>10, Zenon DEF ContentRead

LEMMA ContentKeptByStuttering ==
  ASSUME ContentInv, UNCHANGED vars
  PROVE  ContentInv'
PROOF
<1>1. /\ UNCHANGED <<state, tokens, source, pos, tag, lastStartTag, tokenStart, mark, temporary, emitAt, buffered>>
      /\ handled' = handled
  BY DEF vars, inputVars, modeVars, temporaryVars, tagVars, outputVars
<1>2. EndTagRead' /\ AtReference' /\ OnlyOneLt' /\ StartSeen'
  BY <1>1, Zenon DEF ContentInv, EndTagRead, AtReference, OnlyOneLt, StartSeen, Last, Current
<1>3. ASSUME NEW i \in 1 .. Len(tokens'), tokens'[i].then # None
      PROVE  ContentRead(i)'
  <2>1. ContentRead(i)
    BY <1>1, <1>3 DEF ContentInv
  <2>2. i <= handled'
    BY <1>1, <2>1 DEF ContentRead
  <2> QED BY <1>1, <2>1, <2>2, SameContent
<1> QED BY <1>2, <1>3, Zenon DEF ContentInv

\* The parser sees a token that has no content of its own.
LEMMA ContentKeptByPassing ==
  ASSUME IInv, ContentInv, HandleToken, UNCHANGED <<state, tokens>>
  PROVE  ContentInv'
PROOF
<1>1. /\ UNCHANGED <<state, tokens, source, pos, tag, lastStartTag, tokenStart, mark, temporary, emitAt, buffered>>
      /\ handled' = Len(tokens)
  BY DEF HandleToken, inputVars, temporaryVars, tagVars
<1>2. EndTagRead' /\ AtReference' /\ OnlyOneLt'
  BY <1>1, Zenon DEF ContentInv, EndTagRead, AtReference, OnlyOneLt, Current
<1>3. StartSeen'
  <2>1. ~(handled' < Len(tokens'))
    BY <1>1 DEF IInv, OutputOK
  <2> QED BY <2>1, Zenon DEF StartSeen
<1>4. ASSUME NEW i \in 1 .. Len(tokens'), tokens'[i].then # None
      PROVE  ContentRead(i)'
  <2>1. ContentRead(i)
    BY <1>1, <1>4 DEF ContentInv
  <2>2. i <= handled'
    BY <1>1, <1>4
  <2> QED BY <1>1, <2>1, <2>2, SameContent
<1> QED BY <1>2, <1>3, <1>4, Zenon DEF ContentInv

\* The parser has the content of the element it sees read as text.
LEMMA ContentKeptBySwitching ==
  ASSUME IInv, ContentInv, HandleToken, Last.type = "start", Last.value.name \in DOMAIN TextStates,
         state' = TextStates[Last.value.name],
         tokens' = [tokens EXCEPT ![Len(tokens)].then = state']
  PROVE  ContentInv'
PROOF
<1>1. PICK n \in Nat : n = Len(tokens)
  BY DEF IInv, OutputOK
<1>2. /\ handled < n /\ handled' = n /\ handled \in Nat /\ tokens \in Seq(Token) /\ n \in 1 .. n /\ tokens # <<>>
      /\ UNCHANGED <<source, pos, tag, lastStartTag, tokenStart, mark, temporary, emitAt, buffered>>
  BY <1>1 DEF HandleToken, IInv, OutputOK, inputVars, temporaryVars, tagVars
<1>3. state' \in {"RCDATA", "RAWTEXT", "SCRIPT", "PLAINTEXT"} /\ Last = tokens[n]
  BY <1>1, TextStatesAssumption DEF Last
<1>4. /\ tokens' \in Seq(Token) /\ Len(tokens') = n /\ tokens'[n].then = state'
      /\ \A i \in 1 .. n : /\ tokens'[i].type = tokens[i].type /\ tokens'[i].value = tokens[i].value
                           /\ tokens'[i].from = tokens[i].from /\ tokens'[i].to = tokens[i].to
                           /\ i # n => tokens'[i].then = tokens[i].then
  <2>1. /\ tokens' \in Seq(Token) /\ Len(tokens') = Len(tokens)
        /\ \A i \in 1 .. Len(tokens) :
             /\ tokens'[i].type = tokens[i].type /\ tokens'[i].value = tokens[i].value
             /\ tokens'[i].from = tokens[i].from /\ tokens'[i].to = tokens[i].to
             /\ tokens'[i].then = IF i = Len(tokens) THEN state' ELSE tokens[i].then
    BY <1>2, <1>3, TokenIsMarked
  <2> QED BY <1>1, <1>2, <2>1
<1>5. /\ state' \in Text /\ state' \notin Openers /\ state' \notin ReferenceStates /\ state' \notin Escapes
      /\ state' \notin EndTagNameStates
  <2>1. state' \in Text /\ state' \notin ReferenceStates /\ state' \notin Escapes
    BY <1>3 DEF Text, DataStates, ReferenceStates, Escapes, ScriptStates
  <2> QED BY <1>4, <2>1, ClassesAreDisjoint DEF Openers
<1>6. EndTagRead' /\ AtReference' /\ OnlyOneLt'
  BY <1>2, <1>5, NothingPending DEF ContentInv, OnlyOneLt
<1>7. StartSeen'
  <2>1. ~(handled' < Len(tokens'))
    BY <1>2, <1>4
  <2> QED BY <2>1, Zenon DEF StartSeen
\* The contents before it are closed.
<1>8. ASSUME NEW i \in 1 .. n, i # n, tokens[i].then # None
      PROVE  ContentRead(i)'
  <2>1. ContentRead(i)
    BY <1>1, <1>8 DEF ContentInv
  <2>2. /\ i <= handled /\ tokens[i].value.name \in DOMAIN TextStates /\ tokens[i].then = TextStates[tokens[i].value.name]
        /\ \A j \in i + 1 .. Len(tokens) : Characters(i, j) => Stands(i, j)
        /\ Closed(i) \/ Open(i)
    BY <2>1, Zenon DEF ContentRead
  <2>3. \A k \in i + 1 .. n : k \in 1 .. n
    BY <1>2
  <2>4. ~Open(i)
    <3>1. n \in i + 1 .. n
      BY <1>2, <1>8
    <3>2. tokens[n].type \notin TextTypes
      BY <1>3 DEF TextTypes
    <3> QED BY <1>1, <3>1, <3>2, Zenon DEF Open, Texts
  <2>5. Closed(i)'
    <3>1. PICK k \in i + 1 .. n : Ends(i, k) /\ Texts(i, k - 1)
      BY <1>1, <2>2, <2>4 DEF Closed
    <3>2. Ends(i, k)'
      BY <1>4, <1>8, <2>3, <3>1, Zenon DEF Ends
    <3>3. Texts(i, k - 1)'
      <4>1. \A m \in i + 1 .. k - 1 : m \in 1 .. n
        BY <1>2, <3>1
      <4> QED BY <1>4, <3>1, <4>1, Zenon DEF Texts
    <3> QED BY <1>4, <3>1, <3>2, <3>3, Zenon DEF Closed
  <2>6. ASSUME NEW j \in i + 1 .. n, Characters(i, j)'
        PROVE  Stands(i, j)'
    <3>1. \A k \in i + 1 .. j : k \in 1 .. n
      BY <1>2, <2>6
    <3>2. Characters(i, j)
      BY <1>4, <2>6, <3>1, Zenon DEF Characters
    <3>3. Stands(i, j)
      BY <1>1, <2>2, <2>6, <3>2
    <3>4. \A k \in i + 1 .. j : Placeable(k, j)' => Placeable(k, j)
      <4>1. \A k \in i + 1 .. j : \A m \in k .. j : m \in i + 1 .. j
        OBVIOUS
      <4> QED BY <1>4, <3>1, <4>1, Zenon DEF Placeable
    <3>5. Bang(i, j) => Bang(i, j)'
      BY <1>4, <3>1, Zenon DEF Bang
    <3> QED BY <1>2, <1>4, <1>8, <2>3, <2>6, <3>1, <3>3, <3>4, <3>5, Zenon DEF Stands
  <2>7. i <= handled'
    BY <1>2, <1>8
  <2> QED BY <1>4, <1>8, <2>2, <2>5, <2>6, <2>7, Zenon DEF ContentRead
\* Its own begins where it ended.
<1>9. ContentRead(n)'
  <2>1. tokenStart = Last.to /\ lastStartTag = Last.value.name /\ tokenStart = pos
    BY <1>1, <1>2 DEF ContentInv, StartSeen, IInv, JustEmitted
  <2>2. Last' = tokens'[n]
    BY <1>4 DEF Last
  <2>3. Inside(n)'
    <3>1. (state \in Content(tokens[n].then))'
      <4>1. state' \in Content(state')
        BY <1>3, Contents
      <4> QED BY <1>4, <4>1, Zenon DEF Content
    <3>2. tokenStart' = Last'.to /\ tokenStart' = pos' /\ lastStartTag' = tokens'[n].value.name
      BY <1>2, <1>3, <1>4, <2>1, <2>2
    <3> QED BY <1>5, <3>1, <3>2, Zenon DEF Inside
  <2>4. \A j : ~(j \in n + 1 .. n)
    BY <1>2
  <2>5. Open(n)'
    BY <1>4, <2>3, <2>4, Zenon DEF Open, Texts
  <2>6. tokens'[n].value.name \in DOMAIN TextStates /\ tokens'[n].then = TextStates[tokens'[n].value.name]
    BY <1>2, <1>3, <1>4
  <2>7. n <= handled'
    BY <1>2
  <2> QED BY <1>4, <2>4, <2>5, <2>6, <2>7, Zenon DEF ContentRead
<1>10. \A i \in 1 .. Len(tokens') : tokens'[i].then # None => ContentRead(i)'
  BY <1>4, <1>8, <1>9
<1> QED BY <1>6, <1>7, <1>10, Zenon DEF ContentInv

LEMMA ContentKeeping ==
  ASSUME IInv, IInv', ContentInv, [Next]_vars
  PROVE  ContentInv'
PROOF
<1>1. CASE TextHandler
  <2>1. Moves /\ (TextKind \/ OpeningKind)
    BY <1>1, ContentMoves, TextSteps
  <2>2. CASE TextKind
    BY <2>1, <2>2, ContentKeptByEmitsText, ContentKeptByText, ContentKeptByEmitsReference,
       ContentKeptByGivesBack
    DEF TextKind
  <2>3. CASE OpeningKind
    BY <2>1, <2>3, ContentKeptByBeginnings, ContentKeptByEndTag, ContentKeptByEntersEndTag,
       ContentKeptByEmitsTag
    DEF OpeningKind
  <2> QED BY <2>1, <2>2, <2>3
<1>2. CASE TagHandler
  BY <1>2, TagSteps, ContentKeptByReadsTag, ContentKeptByEmitsTag, ContentKeptByAbandonsTag DEF TagKind
<1>3. CASE MarkupDeclarationState \/ CdataState \/ CommentHandler \/ DoctypeHandler
  BY <1>3, MarkupDeclarationSteps, CommentSteps, DoctypeSteps, ContentKeptByMarkup
<1>4. CASE HandleToken
  <2>1. \/ UNCHANGED <<state, tokens>>
        \/ /\ Last.type = "start" /\ Last.value.name \in DOMAIN TextStates
           /\ state' = TextStates[Last.value.name]
           /\ tokens' = [tokens EXCEPT ![Len(tokens)].then = state']
    BY <1>4 DEF HandleToken
  <2> QED BY <1>4, <2>1, ContentKeptByPassing, ContentKeptBySwitching
<1>5. CASE EmitBuffered \/ FlushTemporary \/ LookAhead
  BY <1>5, ContentKeptByEmitBuffered, ContentKeptByFlush, ContentKeptByLookAhead
<1>6. CASE UNCHANGED vars
  BY <1>6, ContentKeptByStuttering
<1> QED BY <1>1, <1>2, <1>3, <1>4, <1>5, <1>6, Zenon DEF Next

LEMMA ContentBeginning ==
  ASSUME Init
  PROVE  ContentInv
PROOF
<1>1. state = "DATA" /\ emitAt = 0 /\ tokens = <<>> /\ handled = 0
  BY DEF Init
<1>2. Len(tokens) = 0
  BY <1>1
<1>3. EndTagRead /\ AtReference /\ OnlyOneLt
  BY <1>1, ElsewhereStates DEF EndTagRead, AtReference, OnlyOneLt
<1>4. StartSeen
  BY <1>1, <1>2 DEF StartSeen
<1>5. \A i \in 1 .. Len(tokens) : tokens[i].then # None => ContentRead(i)
  BY <1>2
<1> QED BY <1>3, <1>4, <1>5, Zenon DEF ContentInv

-----------------------------------------------------------------------------
(***************************************************************************)
(* The theorems.                                                           *)
(***************************************************************************)

\* The characters of a content stand on the page one after the other.
LEMMA RunsStand ==
  ASSUME IInv, NEW i \in 1 .. Len(tokens), ContentRead(i), NEW j \in i + 1 .. Len(tokens), NEW k \in j .. Len(tokens),
         Characters(i, k), Placeable(j, k)
  PROVE  /\ tokens[j].from \in Nat /\ tokens[k].from = tokens[j].from + (k - j)
         /\ tokens[k].from \in 1 .. Len(source) /\ source[tokens[k].from] = tokens[k].value
PROOF
<1>1. k \in i + 1 .. Len(tokens) /\ j \in i + 1 .. k /\ k \in j .. k /\ j \in 1 .. Len(tokens)
  BY DEF IInv, OutputOK
<1>2. Stands(i, k)
  BY <1>1 DEF ContentRead
<1>3. tokens[k].value # "second"
  BY <1>1 DEF Placeable
<1>4. tokens[j].from \in Nat
  BY <1>1, TokensHavePlaces DEF IInv, OutputOK
<1> QED BY <1>1, <1>2, <1>3, <1>4, Zenon DEF Stands

\* The n + 3 tokens from the j-th spell the run, with nothing but characters before them.
Spelled(i, j, n, run) ==
  /\ j + n + 2 <= Len(tokens)
  /\ \A k \in i + 1 .. j + n + 2 : tokens[k].type = "character"
  /\ \A k \in i + 1 .. j : tokens[k].value # "!"
  /\ \A k \in j .. j + n + 2 : Lower(tokens[k].value) = run[k]

LEMMA EndTagsOfTextFollow ==
  ASSUME IInv, ContentInv
  PROVE  EndTagsOfText
PROOF
<1>1. tokens \in Seq(Token) /\ Len(tokens) \in Nat
  BY DEF IInv, OutputOK
<1>2. ASSUME NEW i \in 1 .. Len(tokens), tokens[i].then # None, NEW j \in i + 1 .. Len(tokens)
      PROVE  \/ tokens[j].type \in TextTypes
             \/ \E k \in i + 1 .. j :
                  tokens[k].type = "end" /\ tokens[k].value.name = tokens[i].value.name /\ tokens[i].then # "PLAINTEXT"
  <2>1. ContentRead(i)
    BY <1>2 DEF ContentInv
  <2>2. CASE Open(i)
    BY <1>2, <2>2, Zenon DEF Open, Texts
  <2>3. CASE Closed(i)
    <3>1. PICK k \in i + 1 .. Len(tokens) : Ends(i, k) /\ Texts(i, k - 1)
      BY <2>3 DEF Closed
    <3>2. j \in i + 1 .. k - 1 \/ k \in i + 1 .. j
      BY <1>1, <3>1
    <3> QED BY <3>1, <3>2, Zenon DEF Ends, Texts
  <2> QED BY <2>1, <2>2, <2>3 DEF ContentRead
<1>3. OnlyItsEndTagEndsText
  BY <1>2, Zenon DEF OnlyItsEndTagEndsText
<1>4. ASSUME NEW i \in 1 .. Len(tokens), tokens[i].then \in {"RCDATA", "RAWTEXT", "SCRIPT"},
             NEW j \in i + 1 .. Len(tokens), NEW name, name = tokens[i].value.name, NEW n, n = Len(name),
             NEW run,
             run = [k \in j..j + n + 2 |-> IF k = j THEN "<" ELSE IF k = j + 1 THEN "/" ELSE IF k = j + n + 2 THEN ">" ELSE name[k - j - 1]],
             Spelled(i, j, n, run)
      PROVE  FALSE
  <2> j + n + 2 <= Len(tokens) /\ \A k \in i + 1 .. j + n + 2 : tokens[k].type = "character"
    BY <1>4, Zenon DEF Spelled
  <2> /\ \A k \in i + 1 .. j : tokens[k].value # "!"
      /\ \A k \in j .. j + n + 2 : Lower(tokens[k].value) = run[k]
    BY <1>4, Zenon DEF Spelled
  <2>1. ContentRead(i)
    BY <1>4 DEF ContentInv, None
  <2>2. name \in Seq(Letters) /\ n \in Nat /\ n >= 1 /\ i \in Nat /\ j \in Nat /\ i < j
    BY <1>1, <1>4, <2>1, NameOfContent
  <2>3. ASSUME NEW m \in 0 .. n + 2
        PROVE  /\ run[j + m] = IF m = 0 THEN "<" ELSE Written(name, m)
               /\ Lower(tokens[j + m].value) = run[j + m] /\ run[j + m] \in Letters \union {"<", "/", ">"}
    <3>1. /\ j + m \in j .. j + n + 2 /\ (j + m = j <=> m = 0) /\ (j + m = j + 1 <=> m = 1)
          /\ (j + m = j + n + 2 <=> m = n + 2) /\ (j + m) - j - 1 = m - 1
      BY <2>2
    <3>2. run[j + m] = IF m = 0 THEN "<" ELSE IF m = 1 THEN "/" ELSE IF m = n + 2 THEN ">" ELSE name[m - 1]
      BY <1>4, <3>1
    <3>3. m \notin {0, 1, n + 2} => m - 1 \in 1 .. n /\ name[m - 1] \in Letters
      <4>1. m \notin {0, 1, n + 2} => m - 1 \in 1 .. n
        BY <2>2
      <4> QED BY <1>4, <2>2, <4>1
    <3>4. run[j + m] \in Letters \union {"<", "/", ">"}
      BY <3>2, <3>3
    <3> QED BY <1>4, <3>1, <3>2, <3>4 DEF Written
  <2>4. ASSUME NEW m \in 0 .. n + 2
        PROVE  tokens[j + m].value # "second"
    <3>1. "second" \notin Letters \union {"<", "/", ">"}
      BY LettersAssumption
    <3> QED BY <2>3, <3>1 DEF Lower
  <2>5. tokens[j].value = "<"
    <3>1. Lower(tokens[j + 0].value) = "<" /\ j + 0 = j
      BY <2>2, <2>3
    <3> QED BY <3>1 DEF Lower
  <2>6. Characters(i, j)
    <3>1. \A k \in i + 1 .. j : k \in i + 1 .. j + n + 2
      BY <2>2
    <3> QED BY <1>4, <3>1 DEF Characters
  <2>7. Differs(source, tokens[j].from, name)
    <3>1. ~Bang(i, j)
      BY <1>4, Zenon DEF Bang
    <3>2. Stands(i, j)
      BY <2>1, <2>6 DEF ContentRead
    <3> QED BY <1>4, <2>5, <3>1, <3>2 DEF Stands
  <2>8. PICK m \in 1 .. n + 2 : Lower(source[tokens[j].from + m]) # Written(name, m)
    BY <1>4, <2>7 DEF Differs
  <2>9. /\ j + m \in j .. Len(tokens) /\ m \in 0 .. n + 2 /\ m # 0 /\ (j + m) - j = m
        /\ \A k \in i + 1 .. j + m : k \in i + 1 .. j + n + 2
        /\ \A k \in j .. j + m : k - j \in 0 .. n + 2 /\ j + (k - j) = k
    BY <1>1, <1>4, <2>2
  <2>10. Characters(i, j + m) /\ Placeable(j, j + m)
    <3>1. Characters(i, j + m)
      BY <1>4, <2>9, Zenon DEF Characters
    <3>2. ASSUME NEW k \in j .. j + m
          PROVE  tokens[k].value # "second"
      <4>1. k - j \in 0 .. n + 2 /\ j + (k - j) = k
        BY <2>9
      <4>2. tokens[j + (k - j)].value # "second"
        BY <2>4, <4>1, Zenon
      <4> QED BY <4>1, <4>2
    <3> QED BY <3>1, <3>2, Zenon DEF Placeable
  <2>11. tokens[j + m].from = tokens[j].from + m /\ source[tokens[j + m].from] = tokens[j + m].value
    BY <2>1, <2>9, <2>10, RunsStand
  <2>12. Lower(tokens[j + m].value) = Written(name, m)
    BY <2>3, <2>9
  <2> QED BY <2>8, <2>11, <2>12
<1>5. ASSUME NEW i \in 1 .. Len(tokens), tokens[i].then \in {"RCDATA", "RAWTEXT", "SCRIPT"},
             NEW j \in i + 1 .. Len(tokens)
      PROVE  LET name == tokens[i].value.name
                 n == Len(name)
                 run == [k \in j .. j + n + 2 |-> IF k = j THEN "<" ELSE IF k = j + 1 THEN "/" ELSE IF k = j + n + 2 THEN ">" ELSE name[k - j - 1]]
             IN ~ /\ j + n + 2 <= Len(tokens)
                  /\ \A k \in i + 1 .. j + n + 2 : tokens[k].type = "character"
                  /\ \A k \in i + 1 .. j : tokens[k].value # "!"
                  /\ \A k \in j .. j + n + 2 : Lower(tokens[k].value) = run[k]
  <2>1. PICK name : name = tokens[i].value.name
    OBVIOUS
  <2>2. PICK n : n = Len(name)
    OBVIOUS
  <2>3. PICK run : run = [k \in j .. j + n + 2 |-> IF k = j THEN "<" ELSE IF k = j + 1 THEN "/" ELSE IF k = j + n + 2 THEN ">" ELSE name[k - j - 1]]
    OBVIOUS
  <2>4. ~Spelled(i, j, n, run)
    BY <1>4, <1>5, <2>1, <2>2, <2>3, Zenon
  <2> QED BY <2>1, <2>2, <2>3, <2>4, Zenon DEF Spelled
<1>6. ItsEndTagEndsText
  BY <1>5, Zenon DEF ItsEndTagEndsText
<1> QED BY <1>3, <1>6 DEF EndTagsOfText

\* What has been read of the content of an element is the page, and the content is open or closed.
THEOREM ContentInvariance == Spec => []ContentInv
PROOF
<1>1. Init => ContentInv
  BY ContentBeginning
<1>2. IInv /\ IInv' /\ ContentInv /\ [Next]_vars => ContentInv'
  BY ContentKeeping
<1> QED BY <1>1, <1>2, TokenizerInvariance, PTL DEF Spec

\* The content of a title, a style or a script ends with the end tag of the same name and with
\* nothing else, the content of plain text only with the page (is_appropriate_end_tag), and the
\* first such tag does end it, outside of an escaped script: whatever looked like the end tag and
\* was given back as text was another.
THEOREM TextEndsWithItsTag == Spec => []EndTagsOfText
PROOF
<1>1. IInv /\ ContentInv => EndTagsOfText
  BY EndTagsOfTextFollow
<1> QED BY <1>1, TokenizerInvariance, ContentInvariance, PTL
=============================================================================
