---------------------------- MODULE SaxTraversal ----------------------------
(***************************************************************************)
(* One call of transform(): traverse_gumbo_node_sax of native-lib.cpp      *)
(* walks the tree the HTML parser built, depth first, and calls the        *)
(* transformer back: onStartTag, the children, onEndTag for an element,    *)
(* onText for a text or whitespace node; comments, CDATA and templates are *)
(* passed over.  The calls are synchronous, on one thread: a callback is   *)
(* one step.                                                               *)
(*                                                                         *)
(* The tree is not stored: the walk chooses each node when it comes to it, *)
(* among the trees the parser builds: html with a head and a body, any     *)
(* nesting below them that the constant Nesting allows.                    *)
(***************************************************************************)
EXTENDS ArticleContentTransformer, FiniteSets

CONSTANTS
  HtmlNode, HeadNode, BodyNode,   \* the three elements every document has
  HeadElements,       \* the elements found below head
  BodyElements,       \* the elements found below body
  Nesting,            \* the pairs <<tag, tag>> or <<tag, TextNode>> of parent and child
  MaxElements,        \* bound: the elements below head and body, in one document
  MaxDepth,           \* bound: the length of the path of open elements
  MaxTexts            \* bound: the text nodes in one document

TextNode == "#text"

ASSUME DocumentAssumption ==
  /\ {HtmlNode, HeadNode, BodyNode} \union HeadElements \union BodyElements \subseteq Elements
  /\ HtmlNode.tag = "html" /\ HeadNode.tag = "head" /\ BodyNode.tag = "body"
  /\ \A e \in HeadElements \union BodyElements : e.tag \notin {"html", "head", "body"}
  /\ \A e \in HeadElements : <<"title", e.tag>> \notin Nesting  \* a title in the head holds only text
  /\ \A e \in Elements : e.tag # TextNode  \* a tag name begins with a letter

ASSUME BoundsAssumption == MaxElements \in Nat /\ MaxDepth \in Nat /\ MaxTexts \in Nat

VARIABLES
  path,      \* the elements whose onStartTag was called and whose onEndTag was not, outermost first
  stage,     \* the part of the document that comes next, or "returned"
  started,   \* how many elements below head and body were started
  received   \* history: the texts delivered, [path, kind], in document order

walkVars == <<path, stage, started, received>>
vars == <<transformerVars, walkVars>>

Stages == {"html", "head", "body", "end", "returned"}

\* The fields of the transformer, the walk and its history keep their types (transform(), traverse()).
TypeOK ==
  /\ TransformerTypeOK
  /\ path \in Seq(Elements)
  /\ stage \in Stages
  /\ started \in Nat
  /\ received \in Seq([path: Seq(Elements), kind: TextKinds])

Init ==
  /\ output = [builders |-> <<RootBuilder>>, built |-> <<>>, sourceIndexCounter |-> 0,
               text |-> EmptyText]
  /\ styleStack = <<>> /\ idStack = <<>> /\ tagStack = <<>>
  /\ ignoredTagDepth = 0
  /\ isInsidePreTag = FALSE /\ isInsideBody = FALSE
  /\ isInsideTitle = FALSE /\ isInsideBlockquote = FALSE
  /\ title = 0 /\ article = <<>> /\ raised = "none"
  /\ path = <<>> /\ stage = "html" /\ started = 0 /\ received = <<>>

-----------------------------------------------------------------------------
Running == raised = "none" /\ stage # "returned"

InHead == Len(path) >= 2 /\ path[2] = HeadNode

\* The element node the walk comes to: the skeleton of the document ...
Skeleton(e) ==
  /\ \/ path = <<>> /\ stage = "html" /\ e = HtmlNode /\ stage' = "head"
     \/ path = <<HtmlNode>> /\ stage = "head" /\ e = HeadNode /\ stage' = "body"
     \/ path = <<HtmlNode>> /\ stage = "body" /\ e = BodyNode /\ stage' = "end"
  /\ UNCHANGED started

\* ... or an element below head or body.
Descendant(e) ==
  /\ Len(path) \in 2 .. (MaxDepth - 1)
  /\ started < MaxElements
  /\ e \in IF InHead THEN HeadElements ELSE BodyElements
  /\ <<Last(path).tag, e.tag>> \in Nesting
  /\ started' = started + 1
  /\ UNCHANGED stage

\* GUMBO_NODE_ELEMENT: onStartTag before the children ...
Start(e) ==
  /\ Running
  /\ Skeleton(e) \/ Descendant(e)
  /\ path' = Append(path, e)
  /\ UNCHANGED received

\* ... and onEndTag after them.  html ends when its two children were walked.
End(e) ==
  /\ Running
  /\ path # <<>>
  /\ e = Last(path)
  /\ Len(path) = 1 => stage = "end"
  /\ path' = Front(path)
  /\ UNCHANGED <<stage, started, received>>

\* GUMBO_NODE_TEXT and GUMBO_NODE_WHITESPACE.
Deliver(kind) ==
  /\ Running
  /\ path # <<>>
  /\ <<Last(path).tag, TextNode>> \in Nesting
  /\ Len(received) < MaxTexts
  /\ received' = Append(received, [path |-> path, kind |-> kind])
  /\ UNCHANGED <<path, stage, started>>

StartTag == \E e \in Elements : Start(e) /\ OnStartTag(e)
EndTag == \E e \in Elements : End(e) /\ OnEndTag(e)
TextOrWhitespace == \E kind \in TextKinds : Deliver(kind) /\ OnText(kind, Len(received) + 1)

\* The walk is over: transform() flushes and returns.
Return ==
  /\ Running
  /\ path = <<>>
  /\ stage = "end"
  /\ stage' = "returned"
  /\ TransformerFinish
  /\ UNCHANGED <<path, started, received>>

\* The next call of transform() on the same object, after a return or an exception.
TransformAgain ==
  /\ ~Running
  /\ TransformerReset
  /\ path' = <<>> /\ stage' = "html" /\ started' = 0 /\ received' = <<>>

Next ==
  \/ StartTag
  \/ EndTag
  \/ TextOrWhitespace
  \/ Return
  \/ TransformAgain

Spec == Init /\ [][Next]_vars
-----------------------------------------------------------------------------
(* The open elements the transformer took in: those above the outermost    *)
(* rejected one.                                                           *)

AcceptedDepth == Len(path) - ignoredTagDepth

RejectsElement(e) == Rejects(e.tag, e.class)

\* A filter that accepts a tag by its attributes must accept it without them,
\* for onEndTag does not know them.
FilterIsMonotone ==
  \A e \in Elements : Rejects(e.tag, NoClass) => RejectsElement(e)

\* mIgnoredTagDepth is the number of open elements from the outermost rejected one
\* inwards (onStartTag, onEndTag): a count kept by every tag, of any name, in between.
IgnoredDepthIsExact ==
  Running =>
    /\ ignoredTagDepth <= Len(path)
    /\ \A i \in 1 .. AcceptedDepth : ~RejectsElement(path[i])
    /\ ignoredTagDepth > 0 => RejectsElement(path[AcceptedDepth + 1])

\* In the body the tops of mTagStack and mIdStack are the open elements, with "" for
\* the ignored ones; only what </title> and </body> leave behind may lie below.
StacksMirrorPath ==
  Running =>
    /\ Len(idStack) = Len(tagStack)
    /\ ignoredTagDepth <= Len(idStack)
    /\ \A i \in 1 .. ignoredTagDepth : idStack[Len(idStack) + 1 - i] = NoId
    /\ LET below == Len(tagStack) - ignoredTagDepth - AcceptedDepth
       IN  isInsideBody =>
             /\ below >= -1
             /\ \A i \in 2 .. AcceptedDepth :
                  tagStack[below + i] = path[i].tag /\ idStack[below + i] = path[i].id

\* The flag of the body tells whether body is open and taken in; the flag of the title
\* is only up while a title is.
FlagsMirrorPath ==
  Running =>
    /\ isInsideBody <=> (AcceptedDepth >= 2 /\ path[2] = BodyNode)
    /\ isInsideTitle => \E i \in 2 .. AcceptedDepth : path[i].tag = "title"
    /\ isInsideBlockquote => \E i \in 2 .. AcceptedDepth : path[i].tag = "blockquote"
    /\ isInsidePreTag => \E i \in 2 .. AcceptedDepth : path[i].tag = "pre"

-----------------------------------------------------------------------------
(* Two stacks that hold something for some of the open elements.           *)

ContainerTags == ListTags \union {"table", "li"}

BuilderKind(tag) ==
  CASE tag \in ListTags -> "List" [] tag = "table" -> "Table" [] OTHER -> "Item"

\* The accepted elements in the body whose tag is in tags, by their place in the path.
OpenInBody(tags) ==
  IF isInsideBody THEN {i \in 2 .. AcceptedDepth : path[i].tag \in tags} ELSE {}

\* f lists the k members of a set of positions in increasing order.
Enumerates(f, k, positions) ==
  /\ f \in [1 .. k -> positions]
  /\ \A i, j \in 1 .. k : i < j => f[i] < f[j]
  /\ \A p \in positions : \E i \in 1 .. k : f[i] = p

\* Above the root mBuilderStack holds one builder per open list, item and table, of its
\* kind and in their order, so that each end tag finds the builder its start tag pushed.
BuildersMirrorPath ==
  Running =>
    /\ output.builders # <<>>
    /\ output.builders[1].kind = "Root"
    /\ LET above == Len(output.builders) - 1
       IN  \E f \in [1 .. above -> OpenInBody(ContainerTags)] :
             /\ Enumerates(f, above, OpenInBody(ContainerTags))
             /\ \A k \in 1 .. above : output.builders[k + 1].kind = BuilderKind(path[f[k]].tag)

\* No callback throws ClassCastException, EmptyStackException or NoSuchElementException;
\* what may be thrown is URI.resolve's refusal of the reference of the <a> being started.
OnlyLinksThrow ==
  raised # "none" =>
    /\ raised = "IllegalArgument"
    /\ path # <<>> /\ Last(path).tag = "a" /\ Last(path).href \in Unresolvable
=============================================================================
