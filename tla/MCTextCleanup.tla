--------------------------- MODULE MCTextCleanup ---------------------------
(* Instances of TextCleanup for TLC: all short texts with a style and a    *)
(* link on any part of them, and all texts of a few lines with a style.    *)
EXTENDS TextCleanup

MaxLength == 5
Collapsed ==
  {[chars |-> chars, items |-> {"bold", "link"}, pre |-> FALSE] :
     chars \in UNION {[1 .. n -> {"x", SPACE, LF}] : n \in 1 .. MaxLength}}

MaxLines == 3
SomeLines == {<<>>, <<SPACE>>, <<SPACE, SPACE, SPACE>>, <<"x">>, <<SPACE, "x">>, <<SPACE, SPACE, "x">>,
              <<SPACE, "x", SPACE>>}
Joined(lines, end) == FoldLeft(LAMBDA all, part : all \o end \o part, lines[1], Tail(lines))
Indented ==
  {[chars |-> chars, items |-> {"bold"}, pre |-> TRUE] :
     chars \in {Joined(lines, end) : lines \in UNION {[1 .. n -> SomeLines] : n \in 1 .. MaxLines},
                                     end \in {<<LF>>, <<CR>>, <<CR, LF>>}} \ {<<>>}}

McTexts == Collapsed \union Indented
=============================================================================
