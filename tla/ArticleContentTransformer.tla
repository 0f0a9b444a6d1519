---------------------- MODULE ArticleContentTransformer ----------------------
(***************************************************************************)
(* The Kotlin class ArticleContentTransformer: the receiver of the         *)
(* SAX-style callbacks onStartTag, onEndTag and onText that turns an HTML  *)
(* tree into a list of article elements.  The module is the component      *)
(* alone: one action per callback and guard; SaxTraversal drives it.       *)
(*                                                                         *)
(* Data abstraction.  A text node is a numbered word, or blank without or  *)
(* with a line break; a link, an id and a class are names; an              *)
(* AnnotatedString is the sequence of the styled words it holds and        *)
(* whether blanks were appended to it.  Element objects are kept in        *)
(* output.built in the order of their creation and builders refer to them  *)
(* by position, as Kotlin lists hold references.                           *)
(***************************************************************************)
EXTENDS Integers, Sequences, SequencesExt

CONSTANTS
  Elements,      \* the element nodes the parser can hand over: [tag, id, href, src, class]
  Rejected,      \* the custom filter: the pairs <<tag, class>> for which it returns false
  Unresolvable   \* the hrefs that java.net.URI.resolve refuses with an exception

NoId == ""
NoClass == ""       \* the class attribute of a tag without one, and of emptyMap()
NoHref == "none"
NoTag == ""

\* Tag names, ids and classes, "" for none.
Name == STRING \union {""}

ElementType == [tag: Name, id: Name, href: STRING, src: BOOLEAN, class: Name]

ASSUME ElementsAssumption == Elements \subseteq ElementType
ASSUME UnresolvableAssumption == NoHref \notin Unresolvable

-----------------------------------------------------------------------------
(* Tag classes. *)

IgnoredTags == {"noscript", "script", "svg", "button", "input", "style"}

\* Mutant: headings and quotations do not separate texts.
BlockTagsWithoutQuotation ==
  {"p", "div", "img", "br", "pre", "li", "tr", "td", "th", "ul", "ol"}

BlockTags == {"p", "h1", "h2", "h3", "h4", "h5", "h6", "div", "img", "br", "pre",
              "blockquote", "li", "tr", "td", "th", "ul", "ol"}

ListTags == {"ul", "ol"}
CellTags == {"td", "th"}
BoldTags == {"b", "strong"}
ItalicTags == {"i", "em", "address"}
UnderlineTags == {"u", "a"}
StyledTags == BoldTags \union ItalicTags \union UnderlineTags

\* Tags whose start or end does something of its own to the output.
SpecialTags == ListTags \union CellTags \union {"li", "table", "tr", "a", "q", "img", "br"}

Styles == {"bold", "italic", "underline"}

StyleOf(tag) ==
  CASE tag \in BoldTags -> "bold"
    [] tag \in ItalicTags -> "italic"
    [] OTHER -> "underline"

\* onStartTag asks with the attributes; onEndTag asks with emptyMap().
Rejects(tag, class) == tag \in IgnoredTags \/ <<tag, class>> \in Rejected

-----------------------------------------------------------------------------
VARIABLES
  output,              \* builder stack, finished elements, source index counter, text being built
  styleStack,          \* mStyleStack
  idStack,             \* mIdStack
  tagStack,            \* mTagStack
  ignoredTagDepth,     \* mIgnoredTagDepth
  isInsidePreTag,      \* mIsInsidePreTag
  isInsideBody,        \* mIsInsideBody
  isInsideTitle,       \* mIsInsideTitle
  isInsideBlockquote,  \* mIsInsideBlockquote
  title,               \* mTitle: the number of the text it was set to, 0 for null or blank
  article,             \* the elements transform() returned, by position in output.built
  raised               \* the exception a callback ended with, or "none"

stacks == <<idStack, tagStack>>
flags == <<isInsidePreTag, isInsideBody, isInsideTitle, isInsideBlockquote>>
transformerVars == <<output, styleStack, stacks, ignoredTagDepth, flags, title, article,
                     raised>>

(* Types. *)
Word == [n: Nat, styles: SUBSET Styles, links: SUBSET STRING]
Text == [words: Seq(Word), blank: {"none", "space", "lines"}, links: Seq(STRING)]

\* A builder, and a finished element, whose content is among the elements refs.
Builder(refs) ==
       [kind: {"Root", "Item"}, content: Seq(refs)]
  \cup [kind: {"List"}, isOrdered: BOOLEAN, ids: SUBSET Name, sourceIndex: Nat, items: Seq(Seq(refs))]
  \cup [kind: {"Table"}, ids: SUBSET Name, sourceIndex: Nat,
        rows: Seq(Seq(Seq(refs))), row: Seq(Seq(refs)), cell: Seq(refs)]

ArticleElement(refs) ==
       [kind: {"Text"}, sourceIndex: Nat, ids: SUBSET Name, tag: Name, words: Seq(Word)]
  \cup [kind: {"Quote"}, sourceIndex: Nat, ids: SUBSET Name, words: Seq(Word)]
  \cup [kind: {"Image"}, sourceIndex: Nat, ids: SUBSET Name]
  \cup [kind: {"ContentList"}, sourceIndex: Nat, ids: SUBSET Name, isOrdered: BOOLEAN, items: Seq(Seq(refs))]
  \cup [kind: {"ContentTable"}, sourceIndex: Nat, ids: SUBSET Name, rows: Seq(Seq(Seq(refs)))]

Output(n) == [builders: Seq(Builder(1 .. n)), built: Seq(ArticleElement(1 .. n)),
              sourceIndexCounter: Nat, text: Text]

\* No builder and no element refers to an element that does not exist.
IsOutput(o) == o \in Output(Len(o.built))

TransformerTypeOK ==
  /\ IsOutput(output)
  /\ styleStack \in Seq(Styles)
  /\ idStack \in Seq(Name)
  /\ tagStack \in Seq(Name)
  /\ ignoredTagDepth \in Nat
  /\ isInsidePreTag \in BOOLEAN
  /\ isInsideBody \in BOOLEAN
  /\ isInsideTitle \in BOOLEAN
  /\ isInsideBlockquote \in BOOLEAN
  /\ title \in Nat
  /\ article \in Seq(1 .. Len(output.built))
  /\ raised \in {"none", "ClassCast", "EmptyStack", "NoSuchElement", "IllegalArgument"}

-----------------------------------------------------------------------------
(* The builders. *)

EmptyText == [words |-> <<>>, blank |-> "none", links |-> <<>>]
RootBuilder == [kind |-> "Root", content |-> <<>>]
ListItemBuilder == [kind |-> "Item", content |-> <<>>]

ListBuilder(o, tag, ids) ==
  [kind |-> "List", isOrdered |-> tag = "ol", ids |-> ids,
   sourceIndex |-> o.sourceIndexCounter, items |-> <<>>]

TableBuilder(o, ids) ==
  [kind |-> "Table", ids |-> ids, sourceIndex |-> o.sourceIndexCounter,
   rows |-> <<>>, row |-> <<>>, cell |-> <<>>]

AppendIfAny(seq, part) == IF part = <<>> THEN seq ELSE Append(seq, part)

StartNewCell(b) == [b EXCEPT !.row = AppendIfAny(@, b.cell), !.cell = <<>>]

\* Mutant: the cell that is still open is lost with its row.
StartNewRowDroppingCell(b) == [b EXCEPT !.rows = AppendIfAny(@, b.row), !.row = <<>>, !.cell = <<>>]

StartNewRow(b) ==
  [b EXCEPT !.rows = AppendIfAny(@, AppendIfAny(b.row, b.cell)), !.row = <<>>, !.cell = <<>>]

\* addElement of a builder: a list keeps texts, images and lists only.
Added(b, kind, ref) ==
  CASE b.kind \in {"Root", "Item"} -> [b EXCEPT !.content = Append(@, ref)]
    [] b.kind = "Table" -> [b EXCEPT !.cell = Append(@, ref)]
    [] b.kind = "List" /\ kind \in {"Text", "Image", "ContentList"} ->
         [b EXCEPT !.items = Append(@, <<ref>>)]
    [] OTHER -> b

\* mBuilderStack.peek().addElement(built[ref])
AddElement(o, ref) ==
  [o EXCEPT !.builders[Len(o.builders)] = Added(@, o.built[ref].kind, ref)]

\* A new element object, given to the builder on top.
AddNewElement(o, element) ==
  AddElement([o EXCEPT !.built = Append(@, element)], Len(o.built) + 1)

\* The same for an element that draws its own source index.
EmitElement(o, element) ==
  AddNewElement([o EXCEPT !.sourceIndexCounter = @ + 1], element)

PushBuilder(o, b) == [o EXCEPT !.builders = Append(@, b)]

\* For the builders that draw a source index when they are created.
\* Mutant: the source index is read and not drawn.
PushBuilderWithoutDrawing(o, b) == PushBuilder(o, b)

PushIndexedBuilder(o, b) == [PushBuilder(o, b) EXCEPT !.sourceIndexCounter = @ + 1]

RefsOfItems(items) == UNION {{items[i][j] : j \in DOMAIN items[i]} : i \in DOMAIN items}
RefsOfRows(rows) == UNION {RefsOfItems(rows[i]) : i \in DOMAIN rows}

\* build() of the list and the table builder: the ids are its own and those of its direct content.
BuiltContainer(b, built) ==
  IF b.kind = "List"
  THEN [kind |-> "ContentList", sourceIndex |-> b.sourceIndex, isOrdered |-> b.isOrdered,
        ids |-> b.ids \union UNION {built[r].ids : r \in RefsOfItems(b.items)}, items |-> b.items]
  ELSE LET rows == StartNewRow(b).rows
       IN  [kind |-> "ContentTable", sourceIndex |-> b.sourceIndex,
            ids |-> b.ids \union UNION {built[r].ids : r \in RefsOfRows(rows)}, rows |-> rows]

\* val finished = mBuilderStack.pop(); mBuilderStack.peek().addElement(finished.build().first())
FinishBuilder(o) ==
  LET b == Last(o.builders)
      below == [o EXCEPT !.builders = Front(@)]
  IN  IF b.kind = "Item" THEN AddElement(below, b.content[1])
                         ELSE AddNewElement(below, BuiltContainer(b, o.built))

\* Mutant: the item is popped only when there is a list to take it.
FinishItemOfList(o) ==
  LET below == [o EXCEPT !.builders = Front(@)]
  IN  IF Last(below.builders).kind = "List"
      THEN [below EXCEPT !.builders[Len(below.builders)].items = Append(@, Last(o.builders).content)]
      ELSE o

\* An item goes to the list below it as one entry; below anything else it is dropped.
FinishItem(o) ==
  LET below == [o EXCEPT !.builders = Front(@)]
  IN  IF Last(below.builders).kind = "List"
      THEN [below EXCEPT !.builders[Len(below.builders)].items = Append(@, Last(o.builders).content)]
      ELSE below

-----------------------------------------------------------------------------
(* The text being built. *)

NonEmptyIds(ids) == {ids[i] : i \in DOMAIN ids} \ {""}
IdsInForce == NonEmptyIds(idStack)

CurrentTag == IF tagStack = <<>> THEN NoTag ELSE Last(tagStack)

TextHasLength(t) == t.words # <<>> \/ t.blank # "none"

\* What is left of a text: outside <pre> runs of blanks collapse and the ends are
\* trimmed; inside it dedent keeps a single blank line and drops several.
TextIsVisible(t) == t.words # <<>> \/ (isInsidePreTag /\ t.blank = "space")

FlushedElement(t) ==
  IF isInsideBlockquote
  THEN [kind |-> "Quote", sourceIndex |-> output.sourceIndexCounter, ids |-> IdsInForce,
        words |-> t.words]
  ELSE [kind |-> "Text", sourceIndex |-> output.sourceIndexCounter, ids |-> IdsInForce,
        tag |-> CurrentTag, words |-> t.words]

\* Mutant: the text builder is not replaced after a text was made of it.
FlushTextWithoutClearing ==
  IF TextHasLength(output.text) /\ TextIsVisible(output.text)
  THEN EmitElement(output, FlushedElement(output.text))
  ELSE output

\* flushText(): only a builder that has length is replaced, and with it the links pushed on it.
FlushText ==
  LET cleared == [output EXCEPT !.text = EmptyText]
  IN  IF ~TextHasLength(output.text) THEN output
      ELSE IF TextIsVisible(output.text) THEN EmitElement(cleared, FlushedElement(output.text))
      ELSE cleared

Flushed(tag) == IF tag \in BlockTags THEN FlushText ELSE output

\* The quotation mark of <q> and the line break of <br> carry no number.
AppendQuoteMark(o) ==
  [o EXCEPT !.text.words = Append(@, [n |-> 0, styles |-> {}, links |-> Range(o.text.links)])]

AppendLineBreak(o) == [o EXCEPT !.text.blank = "lines"]

-----------------------------------------------------------------------------
(* transform(): the state it resets, and what it returns. *)

TransformerReset ==
  /\ output' = [builders |-> <<RootBuilder>>, built |-> <<>>, sourceIndexCounter |-> 0,
                text |-> EmptyText]
  /\ styleStack' = <<>>
  /\ idStack' = <<>>
  /\ tagStack' = <<>>
  /\ ignoredTagDepth' = 0
  /\ isInsidePreTag' = FALSE
  /\ isInsideBody' = FALSE
  /\ isInsideTitle' = FALSE
  /\ isInsideBlockquote' = FALSE
  /\ title' = 0
  /\ article' = <<>>
  /\ raised' = "none"

\* flushText() after the parse; what the builder on top builds is the article.
TransformerFinish ==
  LET top == Last(FlushText.builders)
      rest == [FlushText EXCEPT !.builders = Front(@)]
  IN  /\ IF top.kind \in {"Root", "Item"}
         THEN /\ output' = rest
              /\ article' = top.content
         ELSE /\ output' = [rest EXCEPT !.built = Append(@, BuiltContainer(top, @))]
              /\ article' = <<Len(rest.built) + 1>>
      /\ UNCHANGED <<styleStack, stacks, ignoredTagDepth, flags, title, raised>>

-----------------------------------------------------------------------------
(* onStartTag(tagName, attributes), e the element it is called for. *)

\* Mutant: inside an ignored element only rejected tags are counted.
StartIgnoredCountingRejected(e) ==
  /\ ignoredTagDepth > 0 \/ Rejects(e.tag, e.class)
  /\ ignoredTagDepth' = IF Rejects(e.tag, e.class) THEN ignoredTagDepth + 1 ELSE ignoredTagDepth
  /\ idStack' = Append(idStack, NoId)
  /\ tagStack' = Append(tagStack, NoTag)
  /\ UNCHANGED <<output, styleStack, flags, title, article, raised>>

\* Mutant: only the outermost ignored element has its entries on the stacks.
StartIgnoredWithOneEntry(e) ==
  /\ ignoredTagDepth > 0 \/ Rejects(e.tag, e.class)
  /\ ignoredTagDepth' = ignoredTagDepth + 1
  /\ idStack' = IF ignoredTagDepth = 0 THEN Append(idStack, NoId) ELSE idStack
  /\ tagStack' = IF ignoredTagDepth = 0 THEN Append(tagStack, NoTag) ELSE tagStack
  /\ UNCHANGED <<output, styleStack, flags, title, article, raised>>

\* Mutant: an ignored element has no entries on the stacks.
StartIgnoredWithoutEntries(e) ==
  /\ ignoredTagDepth > 0 \/ Rejects(e.tag, e.class)
  /\ ignoredTagDepth' = ignoredTagDepth + 1
  /\ UNCHANGED <<output, styleStack, stacks, flags, title, article, raised>>

\* Inside an ignored element every tag only deepens it; a rejected tag opens one.
StartIgnored(e) ==
  /\ ignoredTagDepth > 0 \/ Rejects(e.tag, e.class)
  /\ ignoredTagDepth' = ignoredTagDepth + 1
  /\ idStack' = Append(idStack, NoId)
  /\ tagStack' = Append(tagStack, NoTag)
  /\ UNCHANGED <<output, styleStack, flags, title, article, raised>>

Accepted(e) == ignoredTagDepth = 0 /\ ~Rejects(e.tag, e.class)

Inside(e) == isInsideBody \/ isInsideTitle \/ e.tag \in {"body", "title"}

\* Outside the body and the title a tag leaves no trace, not even on the stacks.
StartOutside(e) ==
  /\ Accepted(e)
  /\ ~Inside(e)
  /\ UNCHANGED transformerVars

\* What every tag does that is taken in, beside its effect on the output.
TakeIn(e) ==
  /\ Accepted(e)
  /\ Inside(e)
  /\ isInsideBody' = (isInsideBody \/ e.tag = "body")
  /\ isInsideTitle' = (isInsideTitle \/ e.tag = "title")
  /\ isInsideBlockquote' = (isInsideBlockquote \/ e.tag = "blockquote")
  /\ isInsidePreTag' = (isInsidePreTag \/ e.tag = "pre")
  /\ idStack' = Append(idStack, e.id)
  /\ tagStack' = Append(tagStack, e.tag)
  /\ styleStack' = IF e.tag \in StyledTags THEN Append(styleStack, StyleOf(e.tag)) ELSE styleStack
  /\ UNCHANGED <<ignoredTagDepth, title, article>>

Enter(e) == TakeIn(e) /\ UNCHANGED raised

\* The ids a builder or an image of the entered tag is created with.
IdsWith(e) == NonEmptyIds(Append(idStack, e.id))

StartList(e) ==
  /\ e.tag \in ListTags
  /\ Enter(e)
  /\ LET o == Flushed(e.tag)
     IN  output' = PushIndexedBuilder(o, ListBuilder(o, e.tag, IdsWith(e)))

StartItem(e) ==
  /\ e.tag = "li"
  /\ Enter(e)
  /\ output' = PushBuilder(Flushed(e.tag), ListItemBuilder)

\* <table> is not a block tag: the text before it stays pending.
StartTable(e) ==
  /\ e.tag = "table"
  /\ Enter(e)
  /\ LET o == Flushed(e.tag)
     IN  output' = PushIndexedBuilder(o, TableBuilder(o, IdsWith(e)))

\* (mBuilderStack.peek() as? TableBuilder)
TopIsTable(o) == Last(o.builders).kind = "Table"

StartRow(e) ==
  /\ e.tag = "tr"
  /\ Enter(e)
  /\ LET o == Flushed(e.tag)
     IN  output' = IF TopIsTable(o) THEN [o EXCEPT !.builders[Len(o.builders)] = StartNewRow(@)]
                                    ELSE o

StartCell(e) ==
  /\ e.tag \in CellTags
  /\ Enter(e)
  /\ LET o == Flushed(e.tag)
     IN  output' = IF TopIsTable(o) THEN [o EXCEPT !.builders[Len(o.builders)] = StartNewCell(@)]
                                    ELSE o

StartQuotation(e) ==
  /\ e.tag = "q"
  /\ Enter(e)
  /\ output' = AppendQuoteMark(Flushed(e.tag))

StartBreak(e) ==
  /\ e.tag = "br"
  /\ Enter(e)
  /\ output' = AppendLineBreak(Flushed(e.tag))

StartImage(e) ==
  /\ e.tag = "img"
  /\ Enter(e)
  /\ LET o == Flushed(e.tag)
     IN  output' = IF e.src
                   THEN EmitElement(o, [kind |-> "Image", sourceIndex |-> o.sourceIndexCounter,
                                        ids |-> IdsWith(e)])
                   ELSE o

\* The link is resolved before it is pushed; a reference URI.resolve refuses is not caught.
StartAnchor(e) ==
  /\ e.tag = "a"
  /\ e.href \notin Unresolvable
  /\ Enter(e)
  /\ output' = IF e.href = NoHref THEN output
               ELSE [output EXCEPT !.text.links = Append(@, e.href)]

StartPlain(e) ==
  /\ e.tag \notin SpecialTags
  /\ Enter(e)
  /\ output' = Flushed(e.tag)

\* What URI.resolve throws comes between: the entries and the style stay on their stacks,
\* without a link, until the next transform resets them.
StartThrows(e) ==
  /\ e.tag = "a"
  /\ e.href \in Unresolvable
  /\ TakeIn(e)
  /\ raised' = "IllegalArgument"
  /\ UNCHANGED output

OnStartTag(e) ==
  \/ StartIgnored(e)
  \/ StartOutside(e)
  \/ StartList(e)
  \/ StartItem(e)
  \/ StartTable(e)
  \/ StartRow(e)
  \/ StartCell(e)
  \/ StartQuotation(e)
  \/ StartBreak(e)
  \/ StartImage(e)
  \/ StartAnchor(e)
  \/ StartPlain(e)
  \/ StartThrows(e)
-----------------------------------------------------------------------------
(* onEndTag(tagName), e the element that ends.  It learns only the name.   *)

\* The last thing an end tag does; mIdStack.pop() may throw, after all the rest was done.
PopStacks ==
  \/ /\ idStack # <<>>
     /\ idStack' = Front(idStack)
     /\ tagStack' = Front(tagStack)
     /\ UNCHANGED raised
  \/ /\ idStack = <<>>
     /\ raised' = "EmptyStack"
     /\ UNCHANGED stacks

EndsIgnored(e) == ignoredTagDepth > 0 \/ Rejects(e.tag, NoClass)

\* Mutant: the depth is lowered without a look at it.
EndIgnoredUnguarded(e) ==
  /\ EndsIgnored(e)
  /\ ignoredTagDepth' = ignoredTagDepth - 1
  /\ PopStacks
  /\ UNCHANGED <<output, styleStack, flags, title, article>>

EndIgnored(e) ==
  /\ EndsIgnored(e)
  /\ ignoredTagDepth' = IF ignoredTagDepth > 0 THEN ignoredTagDepth - 1 ELSE 0
  /\ PopStacks
  /\ UNCHANGED <<output, styleStack, flags, title, article>>

\* The flags an accepted end tag leaves behind, and whether it is still inside.
InsideBodyAfter(e) == isInsideBody /\ e.tag # "body"
InsideTitleAfter(e) == isInsideTitle /\ e.tag # "title"
InsideAfter(e) == InsideBodyAfter(e) \/ InsideTitleAfter(e)

\* Mutant: </title> does not end the title.
EndFlagsOfBody(e) ==
  /\ isInsideBody' = InsideBodyAfter(e)
  /\ UNCHANGED isInsideTitle

EndFlags(e) ==
  /\ isInsideBody' = InsideBodyAfter(e)
  /\ isInsideTitle' = InsideTitleAfter(e)

\* </body>, and </title> in the head, return here: their entries stay on the stacks.
EndOutside(e) ==
  /\ ~EndsIgnored(e)
  /\ ~InsideAfter(e)
  /\ EndFlags(e)
  /\ UNCHANGED <<output, styleStack, stacks, ignoredTagDepth, isInsidePreTag, isInsideBlockquote,
                 title, article, raised>>

Leave(e) ==
  /\ ~EndsIgnored(e)
  /\ InsideAfter(e)
  /\ EndFlags(e)
  /\ isInsideBlockquote' = (isInsideBlockquote /\ e.tag # "blockquote")
  /\ isInsidePreTag' = (isInsidePreTag /\ e.tag # "pre")
  /\ styleStack' = IF e.tag \in StyledTags /\ styleStack # <<>> THEN Front(styleStack) ELSE styleStack
  /\ PopStacks
  /\ UNCHANGED <<ignoredTagDepth, title, article>>

\* mBuilderStack.pop() as ListItemBuilder
EndItem(e) ==
  /\ e.tag = "li"
  /\ Leave(e)
  /\ LET o == Flushed(e.tag)
     IN  /\ Last(o.builders).kind = "Item"
         /\ output' = FinishItem(o)

\* The builder on top is finished whatever it is; the root stays.
EndContainer(e) ==
  /\ e.tag \in ListTags \union {"table"}
  /\ Leave(e)
  /\ LET o == Flushed(e.tag)
     IN  IF Len(o.builders) > 1
         THEN /\ Last(o.builders).kind = "Item" => Last(o.builders).content # <<>>
              /\ output' = FinishBuilder(o)
         ELSE output' = o

EndQuotation(e) ==
  /\ e.tag = "q"
  /\ Leave(e)
  /\ output' = AppendQuoteMark(Flushed(e.tag))

\* Mutant: </a> does not pop the text builder.
PopNothing(o) == o

\* AnnotatedString.Builder.pop() takes the last link pushed on the current builder, whoever
\* pushed it; its exception for an empty stack is caught.
PopLink(o) ==
  [o EXCEPT !.text.links = IF @ = <<>> THEN @ ELSE Front(@)]

EndAnchor(e) ==
  /\ e.tag = "a"
  /\ Leave(e)
  /\ output' = PopLink(output)

EndPlain(e) ==
  /\ e.tag \notin ListTags \union {"table", "li", "q", "a"}
  /\ Leave(e)
  /\ output' = Flushed(e.tag)

EndReachesBuilders(e) == ~EndsIgnored(e) /\ InsideAfter(e)

WrongItem(e) == e.tag = "li" /\ Last(Flushed(e.tag).builders).kind # "Item"

EmptyItemOnTop(e) ==
  LET top == Last(Flushed(e.tag).builders)
  IN  e.tag \in ListTags \union {"table"} /\ top.kind = "Item" /\ top.content = <<>>

\* The cast of </li>, and first() of an empty item, fail when the text is flushed and the
\* builder popped; of the entries and flags nothing is taken back.
EndThrows(e) ==
  /\ EndReachesBuilders(e)
  /\ \/ WrongItem(e) /\ raised' = "ClassCast"
     \/ EmptyItemOnTop(e) /\ raised' = "NoSuchElement"
  /\ output' = [Flushed(e.tag) EXCEPT !.builders = Front(@)]
  /\ EndFlags(e)
  /\ UNCHANGED <<styleStack, stacks, ignoredTagDepth, isInsidePreTag, isInsideBlockquote, title, article>>

OnEndTag(e) ==
  \/ EndIgnored(e)
  \/ EndOutside(e)
  \/ EndItem(e)
  \/ EndContainer(e)
  \/ EndQuotation(e)
  \/ EndAnchor(e)
  \/ EndPlain(e)
  \/ EndThrows(e)

-----------------------------------------------------------------------------
(* onText(content): the n-th text of the document, a word or blank. *)

TextKinds == {"word", "space", "lines"}

TextIgnored ==
  /\ ignoredTagDepth > 0 \/ (~isInsideTitle /\ ~isInsideBody)
  /\ UNCHANGED transformerVars

TextOfTitle(kind, n) ==
  /\ ignoredTagDepth = 0
  /\ isInsideTitle
  /\ title' = IF kind = "word" THEN n ELSE 0
  /\ UNCHANGED <<output, styleStack, stacks, ignoredTagDepth, flags, article, raised>>

\* Mutant: of the open styles only the innermost one is applied.
TextOfBodyInTopStyle(kind, n) ==
  /\ ignoredTagDepth = 0
  /\ ~isInsideTitle
  /\ isInsideBody
  /\ output' =
       IF kind = "word"
       THEN [output EXCEPT !.text.words =
               Append(@, [n |-> n, styles |-> IF styleStack = <<>> THEN {} ELSE {Last(styleStack)},
                          links |-> Range(output.text.links)])]
       ELSE [output EXCEPT !.text.blank = IF @ = "lines" THEN @ ELSE kind]
  /\ UNCHANGED <<styleStack, stacks, ignoredTagDepth, flags, title, article, raised>>

\* Mutant: a text is taken whatever is ignored around it.
TextOfBodyAnywhere(kind, n) ==
  /\ ~isInsideTitle
  /\ isInsideBody
  /\ output' =
       IF kind = "word"
       THEN [output EXCEPT !.text.words =
               Append(@, [n |-> n, styles |-> Range(styleStack), links |-> Range(output.text.links)])]
       ELSE [output EXCEPT !.text.blank = IF @ = "lines" THEN @ ELSE kind]
  /\ UNCHANGED <<styleStack, stacks, ignoredTagDepth, flags, title, article, raised>>

TextOfBody(kind, n) ==
  /\ ignoredTagDepth = 0
  /\ ~isInsideTitle
  /\ isInsideBody
  /\ output' =
       IF kind = "word"
       THEN [output EXCEPT !.text.words =
               Append(@, [n |-> n, styles |-> Range(styleStack), links |-> Range(output.text.links)])]
       ELSE [output EXCEPT !.text.blank = IF @ = "lines" THEN @ ELSE kind]
  /\ UNCHANGED <<styleStack, stacks, ignoredTagDepth, flags, title, article, raised>>

OnText(kind, n) ==
  \/ TextIgnored
  \/ TextOfTitle(kind, n)
  \/ TextOfBody(kind, n)
=============================================================================
