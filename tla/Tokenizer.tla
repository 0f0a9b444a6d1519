------------------------------ MODULE Tokenizer ------------------------------
(***************************************************************************)
(* The tokenizer as a whole: gumbo_lex, called by the parser for one token *)
(* after the other until the end of the page, and what its tokens have to  *)
(* do with the page.                                                       *)
(***************************************************************************)
EXTENDS TokenizerText, TokenizerTags, TokenizerMarkup, FiniteSets

Next ==
  \/ EmitBuffered \/ FlushTemporary
  \/ TextHandler \/ TagHandler \/ LookAhead \/ MarkupDeclarationState \/ CdataState
  \/ CommentHandler \/ DoctypeHandler
  \/ HandleToken

\* The loop of gumbo_lex and the loop of the parser run on one thread until they are through.
Spec == Init /\ [][Next]_vars /\ WF_vars(Next)

-----------------------------------------------------------------------------
DataStates == {"DATA", "RCDATA", "RAWTEXT", "SCRIPT", "PLAINTEXT", "CHAR_REF_IN_DATA", "CHAR_REF_IN_RCDATA"}
ScriptStates ==
  {"SCRIPT_ESCAPED_START", "SCRIPT_ESCAPED_START_DASH", "SCRIPT_ESCAPED", "SCRIPT_ESCAPED_DASH",
   "SCRIPT_ESCAPED_DASH_DASH", "SCRIPT_DOUBLE_ESCAPED_START", "SCRIPT_DOUBLE_ESCAPED",
   "SCRIPT_DOUBLE_ESCAPED_DASH", "SCRIPT_DOUBLE_ESCAPED_DASH_DASH", "SCRIPT_DOUBLE_ESCAPED_LT",
   "SCRIPT_DOUBLE_ESCAPED_END"}
LtStates == {"TAG_OPEN", "RCDATA_LT", "RAWTEXT_LT", "SCRIPT_LT", "SCRIPT_ESCAPED_LT"}
EndTagOpenStates ==
  {"END_TAG_OPEN", "RCDATA_END_TAG_OPEN", "RAWTEXT_END_TAG_OPEN", "SCRIPT_END_TAG_OPEN",
   "SCRIPT_ESCAPED_END_TAG_OPEN"}
EndTagNameStates ==
  {"RCDATA_END_TAG_NAME", "RAWTEXT_END_TAG_NAME", "SCRIPT_END_TAG_NAME", "SCRIPT_ESCAPED_END_TAG_NAME"}
TagStates ==
  {"TAG_NAME", "BEFORE_ATTR_NAME", "ATTR_NAME", "AFTER_ATTR_NAME", "BEFORE_ATTR_VALUE",
   "ATTR_VALUE_DOUBLE_QUOTED", "ATTR_VALUE_SINGLE_QUOTED", "ATTR_VALUE_UNQUOTED",
   "CHAR_REF_IN_ATTR_VALUE", "AFTER_ATTR_VALUE_QUOTED", "SELF_CLOSING_START_TAG"}
CommentStates ==
  {"BOGUS_COMMENT", "COMMENT_START", "COMMENT_START_DASH", "COMMENT", "COMMENT_END_DASH",
   "COMMENT_END", "COMMENT_END_BANG"}
DoctypeStates ==
  {"DOCTYPE", "BEFORE_DOCTYPE_NAME", "DOCTYPE_NAME", "AFTER_DOCTYPE_NAME",
   "AFTER_DOCTYPE_PUBLIC_KEYWORD", "BEFORE_DOCTYPE_PUBLIC_ID", "DOCTYPE_PUBLIC_ID_DOUBLE_QUOTED",
   "DOCTYPE_PUBLIC_ID_SINGLE_QUOTED", "AFTER_DOCTYPE_PUBLIC_ID", "BETWEEN_DOCTYPE_PUBLIC_SYSTEM_ID",
   "AFTER_DOCTYPE_SYSTEM_KEYWORD", "BEFORE_DOCTYPE_SYSTEM_ID", "DOCTYPE_SYSTEM_ID_DOUBLE_QUOTED",
   "DOCTYPE_SYSTEM_ID_SINGLE_QUOTED", "AFTER_DOCTYPE_SYSTEM_ID"}
States ==
  DataStates \union ScriptStates \union LtStates \union EndTagOpenStates \union EndTagNameStates
    \union TagStates \union CommentStates \union DoctypeStates
    \union {"MARKUP_DECLARATION", "CDATA", "BOGUS_DOCTYPE"}

\* The units of the pages, and those the tokenizer writes by itself.
PageUnits == UNION {UNION {s[i] : i \in DOMAIN s} : s \in Shapes}
Unit == PageUnits \union {EOF, "<", "/", "!", "-", "s", "second"}

\* The iterator, the mark and the start of the token stay within the page, the state is known, and
\* whatever is buffered was on the page or was written by the tokenizer itself.
TokenizerTypeOK ==
  /\ shape \in Shapes /\ source \in Seq(Unit)
  /\ pos \in 1..Len(source) /\ mark \in 1..Len(source) /\ tokenStart \in 1..Len(source)
  /\ state \in States /\ foreign \in BOOLEAN /\ inCdata \in BOOLEAN
  /\ temporary \in Seq(Unit) /\ scriptData \in Seq(Unit) /\ emitAt \in 0..Len(temporary)
  /\ tag.buffer \in Seq(Unit) /\ handled \in {Len(tokens) - 1, Len(tokens)}

\* While the tokenizer may yet go back, the temporary buffer holds, unit by unit, the input since
\* the mark, and while the buffer is emitted, what is left of it is what the iterator stands on:
\* the assertions of the "<" and "</" states and of maybe_emit_from_temporary_buffer.
TemporaryBufferIsTheInput ==
  /\ emitAt = 0 /\ state \in LtStates \union EndTagOpenStates \union EndTagNameStates =>
       /\ pos = mark + Len(temporary)
       /\ \A i \in 1..Len(temporary) : temporary[i] = source[mark + i - 1]
       /\ state \in LtStates => temporary = <<"<">>
       /\ state \in EndTagOpenStates => temporary = <<"<", "/">>
       /\ state \in EndTagNameStates => Len(temporary) > 2
  /\ emitAt # 0 =>
       /\ pos = mark + emitAt - 1 /\ tokenStart = pos
       /\ \A i \in emitAt..Len(temporary) : temporary[i] = source[mark + i - 1]

ValueStates ==
  {"BEFORE_ATTR_VALUE", "ATTR_VALUE_DOUBLE_QUOTED", "ATTR_VALUE_SINGLE_QUOTED", "ATTR_VALUE_UNQUOTED",
   "CHAR_REF_IN_ATTR_VALUE", "AFTER_ATTR_VALUE_QUOTED"}

\* finish_attribute_value writes to the last attribute without asking whether there is one or
\* whether it has a value: wherever a value may follow there is, and unless the value is dropped
\* it has none yet.  The tag buffer, which names and values share, is empty between them.
ValuesHaveTheirAttribute ==
  /\ state \in ValueStates \union {"AFTER_ATTR_NAME"} =>
       /\ tag.attributes # <<>>
       /\ tag.dropNext \/ tag.attributes[Len(tag.attributes)].value = <<>>
  /\ state \in {"BEFORE_ATTR_NAME", "AFTER_ATTR_NAME", "BEFORE_ATTR_VALUE", "SELF_CLOSING_START_TAG"} =>
       tag.buffer = <<>>

\* What a tag or a doctype has allocated is handed over with its token or freed: it is there in the
\* states of a tag and of a doctype and in no other, so a new one never finds an old one
\* (the assertions of start_new_tag and gumbo_tokenizer_state_destroy), and a value that is
\* finished always finds the attribute it belongs to.
OwnedWhileOpen ==
  /\ tag.open <=> state \in TagStates \union EndTagNameStates
  /\ ~tag.open => tag.attributes = <<>>
  /\ ValuesHaveTheirAttribute
  /\ state \in DoctypeStates => doctype.strings
  /\ doctype.strings => state \in DoctypeStates \union {"BOGUS_DOCTYPE"}
  /\ inCdata => state = "CDATA"

-----------------------------------------------------------------------------
TextTypes == {"character", "whitespace", "cdata", "eof"}
Tag(i) == tokens[i].type \in {"start", "end"}

\* The text of a token, and the empty end tags "</>" it may begin with: they are read, and no token
\* of theirs is emitted.
TextOf(i) == SubSeq(source, tokens[i].from, tokens[i].to - 1)
EmptyEndTags(s) ==
  LET Runs == {k \in 0..(Len(s) \div 3) : \A j \in 1..(3 * k) : s[j] = <<"<", "/", ">">>[((j - 1) % 3) + 1]}
  IN 3 * (CHOOSE k \in Runs : \A r \in Runs : r <= k)
Shown(i) == SubSeq(TextOf(i), EmptyEndTags(TextOf(i)) + 1, Len(TextOf(i)))

\* The tokens follow one another, without a gap but for the end of a CDATA section.
Follows(i) ==
  \/ tokens[i].from = IF i = 1 THEN 1 ELSE tokens[i - 1].to
  \/ /\ i > 1 /\ tokens[i].from > tokens[i - 1].to
     /\ source[tokens[i].from - 1] = "]]>" \/ source[tokens[i].from] = EOF

TextIsTheInput ==
  \A i \in 1..Len(tokens) :
    /\ Follows(i)
    /\ tokens[i].type \in {"character", "whitespace", "cdata"} =>
         \/ Shown(i) = <<tokens[i].value>>
         \/ tokens[i].type = "cdata" /\ Shown(i) = <<"<", "!", "[CDATA[", tokens[i].value>>
         \/ tokens[i].value = "second" /\ i > 1 /\ tokens[i - 1].value = "&2;" /\ TextOf(i) = <<>>

TagsAreDelimited ==
  \A i \in 1..Len(tokens) :
    /\ Tag(i) => LET s == TextOf(i) IN Len(s) >= 2 /\ s[1] = "<" /\ s[Len(s)] = ">"
    /\ Len(TextOf(i)) > EmptyEndTags(TextOf(i)) + 1 /\ tokens[i].type \in TextTypes =>
         tokens[i].type = "cdata" \/ source[tokens[i].to] = EOF

Held == {<<>>, <<"-">>, <<"-", "-">>, <<"-", "-", "!">>}
CommentIsTheInput ==
  \A i \in 1..Len(tokens) : tokens[i].type = "comment" =>
    LET s == Shown(i)
        value == tokens[i].value
        AtEnd == source[tokens[i].to] = EOF
        begin == IF Len(s) > 3 /\ SubSeq(s, 1, 4) = <<"<", "!", "-", "-">> THEN SubSeq(s, 1, 4)
                 ELSE IF s[2] = "?" THEN <<"<">> ELSE SubSeq(s, 1, 2)
    IN IF Len(begin) = 4
         THEN \/ \E h \in Held : Len(h) > 1 /\ s = begin \o value \o h \o <<">">>
              \/ \E h \in Held : AtEnd /\ s = begin \o value \o h
              \/ value = <<>> /\ SubSeq(s, 5, Len(s)) \in {<<">">>, <<"-", ">">>}
         ELSE s = begin \o value \o <<">">> \/ (AtEnd /\ s = begin \o value)

\* The tokens are the page, read once and in order:
\* no text of the page is lost, invented or emitted twice, however often the tokenizer has gone back
\* over a tag that was none: a character token is the unit at its place, after at most the
\* beginning of its CDATA section; the second character of a reference has no place of its own.
\* A tag goes from "<" to ">" (the assertions at the end of emit_current_tag); only at the end of
\* the page is the text of a tag that was begun part of no tag.
\* A comment is the text between its delimiters: the dashes that did not end it are in it, and
\* those the page ends with are not.
TokensAreTheInput == TextIsTheInput /\ TagsAreDelimited /\ CommentIsTheInput

OnlyItsEndTagEndsText ==
  \A i \in 1..Len(tokens) : tokens[i].then # None =>
    \A j \in i + 1..Len(tokens) :
      \/ tokens[j].type \in TextTypes
      \/ \E k \in i + 1..j :
           tokens[k].type = "end" /\ tokens[k].value.name = tokens[i].value.name /\ tokens[i].then # "PLAINTEXT"

ItsEndTagEndsText ==
  \A i \in 1..Len(tokens) : tokens[i].then \in {"RCDATA", "RAWTEXT", "SCRIPT"} =>
    \A j \in i + 1..Len(tokens) :
      LET name == tokens[i].value.name
          n == Len(name)
          run == [k \in j..j + n + 2 |-> IF k = j THEN "<" ELSE IF k = j + 1 THEN "/" ELSE IF k = j + n + 2 THEN ">" ELSE name[k - j - 1]]
      IN ~ /\ j + n + 2 <= Len(tokens)
           /\ \A k \in i + 1..j + n + 2 : tokens[k].type = "character"
           /\ \A k \in i + 1..j : tokens[k].value # "!"
           /\ \A k \in j..j + n + 2 : Lower(tokens[k].value) = run[k]

\* The content of a title, a style or a script ends with the end tag of the same name and with
\* nothing else, the content of plain text only with the page (is_appropriate_end_tag).
\* The first such tag does end it, outside of an escaped script.
EndTagsOfText == OnlyItsEndTagEndsText /\ ItsEndTagEndsText

Distinct(attributes) ==
  \A a, b \in 1..Len(attributes) : attributes[a].name = attributes[b].name => a = b

\* The text of a tag without quotes, references and slashes, and without blanks behind a "=".
Blank == " "
PlainUnits == Letters \union {"<", Blank, "=", ">"}
Unquoted(s) ==
  \A k \in 1..Len(s) : s[k] \in PlainUnits /\ (k > 1 /\ s[k] = Blank => s[k - 1] # "=")

\* A name is written from k to m, and no other before it.
NameEnds == {Blank, "=", ">"}
Named(s, k, m) ==
  /\ 3 <= k /\ k <= m /\ m < Len(s)
  /\ s[k - 1] = Blank /\ s[m + 1] \in NameEnds /\ \A j \in k..m : s[j] \notin NameEnds
NameIn(s, k, m) == [j \in 1..m - k + 1 |-> Lower(s[k + j - 1])]
FirstNamed(s, k, m) ==
  Named(s, k, m) /\ ~\E j, n \in 1..k - 1 : Named(s, j, n) /\ NameIn(s, j, n) = NameIn(s, k, m)

\* Behind the name that ends at m, and blanks, the value is written or something else than a value.
ValueEnds == {Blank, ">"}
Blanks(s, j, k) == \A b \in j..k : s[b] = Blank
Given(s, m, value) ==
  \/ \E e, v \in m + 1..Len(s) - 1 :
       /\ e <= v /\ Blanks(s, m + 1, e - 1) /\ s[e] = "="
       /\ s[v + 1] \in ValueEnds /\ \A j \in e + 1..v : s[j] \notin ValueEnds
       /\ value = SubSeq(s, e + 1, v)
  \/ \E e \in m + 1..Len(s) : Blanks(s, m + 1, e - 1) /\ s[e] \notin {Blank, "="} /\ value = <<>>

\* No attribute is given twice.  In a tag without quotes each name gives an attribute, in small
\* letters, with the value written behind the first of its kind: the value of a repeated name is
\* dropped, and that of the next name is not.  Only what begins with "=" may be a name besides.
AttributesAreTheFirst ==
  \A i \in 1..Len(tokens) : tokens[i].type = "start" =>
    LET s == TextOf(i)
        attributes == tokens[i].value.attributes
    IN /\ Distinct(attributes)
       /\ Unquoted(s) =>
            /\ \A k, m \in 1..Len(s) : FirstNamed(s, k, m) =>
                 \E a \in 1..Len(attributes) : attributes[a].name = NameIn(s, k, m) /\ Given(s, m, attributes[a].value)
            /\ \A a \in 1..Len(attributes) :
                 \/ attributes[a].name[1] = "="
                 \/ \E k, m \in 1..Len(s) : Named(s, k, m) /\ attributes[a].name = NameIn(s, k, m)

\* A doctype without strings, which the parser would compare, comes only after one with strings.
FirstDoctypeHasStrings ==
  \A i \in 1..Len(tokens) : tokens[i].type = "doctype" /\ ~tokens[i].value.strings =>
    /\ tokens[i].value = NoDoctype
    /\ \E j \in 1..i - 1 : tokens[j].type = "doctype" /\ tokens[j].value.strings

\* The parser gets the end of the page, whatever the page is: no state reads the same unit for ever.
PageEnds == <>(tokens # <<>> /\ tokens[Len(tokens)].type = "eof")
=============================================================================
