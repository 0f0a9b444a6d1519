--------------------------- MODULE MCTextDecoding ---------------------------
(***************************************************************************)
(* Instances of TextDecoding for TLC.  Sources are put together from       *)
(* fragments: single bytes of every class of the decoder for the malformed *)
(* input, and pieces of references for the character references.           *)
(***************************************************************************)
EXTENDS JniText, TLC

Chains(fragments, n) == {FlattenSeq(s) : s \in UNION {[1..k -> fragments] : k \in 0..n}}

\* A letter, newlines, a tab, a C0 control, and leads and continuations of each kind.
Soup == {<<65>>, <<TAB>>, <<LF>>, <<CR>>, <<1>>, <<130>>, <<150>>, <<195>>, <<224>>, <<237>>, <<226, 130>>,
         <<130, 150>>, <<240>>, <<244>>, <<240, 159, 152>>}
\* "&", "&#", "&#x", digits, names and what may follow them, a stop, a malformed byte, a newline.
Pieces == {<<38>>, <<38, 35>>, <<38, 35, 120>>, <<49, 50, 56>>, <<49, 48, 48, 48, 48, 48, 48, 50, 56>>,
           <<59>>, <<61>>, <<38, 110, 111, 116>>, <<105, 110, 59>>, <<60>>, <<255>>, <<13, 10>>}

McNames ==
  {[name |-> <<110, 111, 116>>, first |-> 172, second |-> NoChar],                       \* not
   [name |-> <<110, 111, 116, 59>>, first |-> 172, second |-> NoChar],                   \* not;
   [name |-> <<110, 111, 116, 105, 110, 59>>, first |-> 8713, second |-> NoChar],        \* notin;
   [name |-> <<105, 110, 59>>, first |-> 8712, second |-> 65024]}                        \* a pair

TextContext == [additional |-> 32, inAttribute |-> FALSE, stops |-> {LESS_THAN}]
QuotedContext == [additional |-> 34, inAttribute |-> TRUE, stops |-> {34}]
UnquotedContext == [additional |-> 62, inAttribute |-> TRUE, stops |-> Whitespace \union {62}]
McContexts == {TextContext, QuotedContext, UnquotedContext}

\* A value is read up to the character that ends it; bytes are the same to every reader.
SoupInputs == {[source |-> s, context |-> TextContext] : s \in Chains(Soup, 3)}
PieceInputs ==
  {[source |-> s, context |-> TextContext] : s \in Chains(Pieces, 3)} \union
  {[source |-> s \o <<34>>, context |-> QuotedContext] : s \in Chains(Pieces, 3)} \union
  {[source |-> s \o t, context |-> UnquotedContext] : s \in Chains(Pieces, 2), t \in {<<>>, <<62>>}}
McInputs == SoupInputs \union PieceInputs

\* What GetStringUTFChars makes of Java strings: a letter, the euro sign, an emoji, a "<".
JavaTexts == UNION {[1..n -> {65, 8364, 128512, LESS_THAN}] : n \in 0..2}
JavaInputs == {[source |-> ModifiedUtf8(t), context |-> TextContext] : t \in JavaTexts}
=============================================================================
