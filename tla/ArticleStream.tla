---------------------------- MODULE ArticleStream ----------------------------
(***************************************************************************)
(* What transform() promises about text, without builders, stacks or       *)
(* flags: the article reads as the words a reader of the page sees, each   *)
(* once, in document order.  open is the path of open elements, texts the  *)
(* kinds of the texts so far, content the numbers of the words that        *)
(* reached the article.                                                    *)
(***************************************************************************)
EXTENDS Naturals, Sequences

CONSTANTS
  Nodes,          \* the element nodes
  Kinds,          \* the kinds of text: "word", the others are blank
  Visible(_)      \* whether a text at the given path is shown on the page

VARIABLES open, texts, content

streamVars == <<open, texts, content>>

Init == open = <<>> /\ texts = <<>> /\ content = <<>>

Open(e) ==
  /\ open' = Append(open, e)
  /\ UNCHANGED <<texts, content>>

Close ==
  /\ open # <<>>
  /\ open' = SubSeq(open, 1, Len(open) - 1)
  /\ UNCHANGED <<texts, content>>

\* A word in a visible place is the next word of the article.
ShowWord ==
  /\ Visible(open)
  /\ texts' = Append(texts, "word")
  /\ content' = Append(content, Len(texts) + 1)
  /\ UNCHANGED open

\* A word in a hidden place is not in the article ...
HideWord ==
  /\ ~Visible(open)
  /\ texts' = Append(texts, "word")
  /\ UNCHANGED <<open, content>>

\* ... and neither is a blank text.
Blank ==
  /\ \E kind \in Kinds \ {"word"} : texts' = Append(texts, kind)
  /\ UNCHANGED <<open, content>>

\* The next document.
Restart == open' = <<>> /\ texts' = <<>> /\ content' = <<>>

Next ==
  \/ \E e \in Nodes : Open(e)
  \/ Close
  \/ ShowWord
  \/ HideWord
  \/ Blank
  \/ Restart

Spec == Init /\ [][Next]_streamVars
=============================================================================
