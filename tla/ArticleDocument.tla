--------------------------- MODULE ArticleDocument ---------------------------
(***************************************************************************)
(* The article read as a document: the order of its elements and words,    *)
(* where its words came from, and the refinement of ArticleStream.         *)
(***************************************************************************)
EXTENDS SaxTraversal

\* The sequences f[1] to f[n], one after the other.
Joined(f, n) ==
  LET join[i \in 0 .. n] == IF i = 0 THEN <<>> ELSE join[i - 1] \o f[i]
  IN  join[n]

Flat(seqs) == Joined(seqs, Len(seqs))

(* The elements in a builder and in a finished container, as they are read. *)

BuilderContent(b) ==
  CASE b.kind \in {"Root", "Item"} -> b.content
    [] b.kind = "List" -> Flat(b.items)
    [] OTHER -> Flat(Flat(b.rows)) \o Flat(b.row) \o b.cell

Children(element) ==
  CASE element.kind = "ContentList" -> Flat(element.items)
    [] element.kind = "ContentTable" -> Flat(Flat(element.rows))
    [] OTHER -> <<>>

\* Each element followed by all that is in it.  A container is built after its content.
Preorder(built) ==
  LET preorder[i \in DOMAIN built] ==
        LET children == Children(built[i])
        IN  <<i>> \o Joined([k \in DOMAIN children |-> preorder[children[k]]], Len(children))
  IN  preorder

PreorderOf(built, refs) ==
  LET preorder == Preorder(built)
  IN  Joined([k \in DOMAIN refs |-> preorder[refs[k]]], Len(refs))

\* What the transform has gathered so far: the returned article, or the content of the
\* open builders from the root upwards.
GatheredIn(o) ==
  Joined([k \in DOMAIN o.builders |-> PreorderOf(o.built, BuilderContent(o.builders[k]))], Len(o.builders))

Gathered == IF stage = "returned" THEN PreorderOf(output.built, article) ELSE GatheredIn(output)

IndexesOf(built, order) == [k \in DOMAIN order |-> built[order[k]].sourceIndex]

BuilderIndexes(built, b) ==
  (IF b.kind \in {"List", "Table"} THEN <<b.sourceIndex>> ELSE <<>>)
    \o IndexesOf(built, PreorderOf(built, BuilderContent(b)))

IndexesIn(o) ==
  Joined([k \in DOMAIN o.builders |-> BuilderIndexes(o.built, o.builders[k])], Len(o.builders))

SourceIndexes == IF stage = "returned" THEN IndexesOf(output.built, Gathered) ELSE IndexesIn(output)

-----------------------------------------------------------------------------
(* Read from the first element to the last, containers before their        *)
(* content, the source indexes increase: compositionKey is unique, and     *)
(* sorting by sourceIndex is document order.  Source indexes are drawn by  *)
(* a list or table at its start tag but by a text at its flush, which may  *)
(* come several tags later and in another builder (flushText, onStartTag). *)
SourceIndexesInDocumentOrder ==
  LET indexes == SourceIndexes
  IN  /\ \A i \in DOMAIN indexes : i > 1 => indexes[i - 1] < indexes[i]
      /\ indexes # <<>> => Last(indexes) < output.sourceIndexCounter

\* An element object, once made, has one place in the builders or the article, until
\* the next transform: none is dropped, none is in two places (addElement, addItemList).
EveryElementHasOnePlace ==
  LET gathered == Gathered
  IN  Range(gathered) = DOMAIN output.built /\ Len(gathered) = Len(output.built)

-----------------------------------------------------------------------------
(* Words and the places of the page they come from. *)

Leaves == {i \in DOMAIN output.built : output.built[i].kind \in {"Text", "Quote"}}

Numbered(words) == {w \in Range(words) : w.n > 0}
WordsOf(i) == IF i \in Leaves THEN Numbered(output.built[i].words) ELSE {}
AllWords == Numbered(output.text.words) \union UNION {WordsOf(i) : i \in Leaves}

\* The numbers of the words gathered and of those of the text being built, in reading order.
NumbersOf(words) ==
  Joined([k \in DOMAIN words |-> IF words[k].n > 0 THEN <<words[k].n>> ELSE <<>>], Len(words))

NumbersIn(element) == IF element.kind \in {"Text", "Quote"} THEN NumbersOf(element.words) ELSE <<>>

Content ==
  LET gathered == Gathered
  IN  Joined([k \in DOMAIN gathered |-> NumbersIn(output.built[gathered[k]])], Len(gathered))
        \o NumbersOf(output.text.words)

TagsAround(n) == {received[n].path[i].tag : i \in DOMAIN received[n].path}

\* Every word carries the styles of the formatting elements it stood in and no other
\* (mStyleStack, merged in onText), whatever was opened, ignored and closed before it.
WordsHaveTheirStyles ==
  \A w \in AllWords : w.styles = {StyleOf(tag) : tag \in TagsAround(w.n) \intersect StyledTags}

\* A word is only ever linked to an <a> it stood in: no link outlives its element
\* (pushLink in onStartTag, pop in onEndTag, a new builder in flushText).
WordsHaveNoForeignLink ==
  \A w \in AllWords : w.links \subseteq
    {received[w.n].path[i].href : i \in {j \in DOMAIN received[w.n].path : received[w.n].path[j].tag = "a"}}

HeadingTags == {"h1", "h2", "h3", "h4", "h5", "h6"}

\* flushText labels a text by what is open when it is flushed, later than its words came:
\* still a title holds only words of its heading, preformatted text only words of its
\* <pre>, and a Quote only words of a <blockquote>.
TextsAreLabelledByTheirPlace ==
  \A i \in Leaves : \A w \in WordsOf(i) :
    LET element == output.built[i]
        around == TagsAround(w.n)
    IN  /\ element.kind = "Quote" => "blockquote" \in around
        /\ element.kind = "Text" /\ element.tag \in HeadingTags \union {"pre"} => element.tag \in around

\* Nothing inside an ignored element reaches the article, the title or the styles.
IgnoredSubtreesAreSilent ==
  [][(\E i \in DOMAIN path : RejectsElement(path[i])) /\ Running
       => UNCHANGED <<output, styleStack, title>>]_vars

-----------------------------------------------------------------------------
(* What a comment and the documentation say of the code.  Both are         *)
(* contradicted by it: see the findings in the README.                     *)

\* onEndTag: pop() of the text builder fails "for an <a> tag without an href attribute":
\* while an <a href> is the innermost open element its link is there to be popped.
AnchorsKeepTheirLink ==
  (Running /\ isInsideBody /\ ignoredTagDepth = 0 /\ Last(path).tag = "a" /\ Last(path).href # NoHref)
    => output.text.links # <<>>

\* ArticleElement.ContentTable: a cell is "The list of ContentElements within the cell":
\* its words stood in a table.
CellsHoldTableContent ==
  \A i \in DOMAIN output.built : output.built[i].kind = "ContentTable" =>
    \A r \in RefsOfRows(output.built[i].rows) : \A w \in WordsOf(r) :
      "table" \in TagsAround(w.n)

-----------------------------------------------------------------------------
(* The abstract specification. *)

IsVisible(open) ==
  /\ Len(open) >= 2 /\ open[2] = BodyNode
  /\ \A i \in DOMAIN open : ~RejectsElement(open[i]) /\ open[i].tag # "title"

Stream == INSTANCE ArticleStream WITH
  Nodes <- Elements,
  Kinds <- TextKinds,
  Visible <- IsVisible,
  open <- path,
  texts <- [i \in DOMAIN received |-> received[i].kind],
  content <- Content

\* The nesting of lists and titles in valid HTML: a list holds items and nothing else, an
\* item stands in a list, a title holds text.
WellNested ==
  \A pair \in Nesting :
    /\ pair[2] = "li" <=> pair[1] \in ListTags
    /\ pair[1] = "title" => pair[2] = TextNode

\* transform() implements ArticleStream on pages whose lists and titles are well nested.
ReadsAsThePage == Stream!Spec
=============================================================================
