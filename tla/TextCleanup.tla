---------------------------- MODULE TextCleanup ----------------------------
(***************************************************************************)
(* What flushText makes of the text it has gathered: dedent in <pre>,      *)
(* collapseWhitespace and trimWhitespace elsewhere, loop by loop, over an  *)
(* annotated string with its ranges.  ArticleContentTransformer only asks  *)
(* whether anything is left (TextIsVisible).                               *)
(*                                                                         *)
(* Positions are those of the code: the first character is at 0 and a      *)
(* range does not hold its end.  A range is of a style or of a link; both  *)
(* are carried over by the same condition.                                 *)
(***************************************************************************)
EXTENDS Integers, Sequences, SequencesExt, FiniteSetsExt

CONSTANTS
  Texts           \* what flushText may find: [chars, items, pre], the characters of the builder, the
                  \* styles and links that may lie on any part of them, and mIsInsidePreTag

SPACE == " "
LF == "\n"
CR == "\r"
Whitespace == {SPACE, LF, CR}

VARIABLES
  text,           \* the annotated string the builder made
  pre,            \* mIsInsidePreTag
  stage,          \* the loop that is run
  at,             \* i of collapseWhitespace, currentPos of dedent
  line,           \* the line dedent is at, counted from 1
  result          \* the builder of the loop, and at the end what is left

vars == <<text, pre, stage, at, line, result>>

-----------------------------------------------------------------------------
(* AnnotatedString and its builder, as they are used.                      *)

Plain(chars) == [chars |-> chars, ranges |-> {}]
Empty == Plain(<<>>)
Length(a) == Len(a.chars)
Char(a, i) == a.chars[i + 1]
Covers(range, i) == range.start <= i /\ i < range.end

\* The ranges that meet the part, cut to it.
SubSequence(a, start, end) ==
  [chars |-> SubSeq(a.chars, start + 1, end),
   ranges |-> {[item |-> r.item, start |-> Max({r.start, start}) - start, end |-> Min({r.end, end}) - start] :
                 r \in {s \in a.ranges : s.start < end /\ start < s.end}}]

Plus(a, b) ==
  [chars |-> a.chars \o b.chars,
   ranges |-> a.ranges \union
              {[item |-> r.item, start |-> r.start + Length(a), end |-> r.end + Length(a)] : r \in b.ranges}]

\* The first and the last place of each line of lines(): it ends at CR LF, CR or LF.
LineBounds(chars) ==
  LET IsEnd(i) == chars[i] = CR \/ (chars[i] = LF /\ ~ (i > 1 /\ chars[i - 1] = CR))
      ends == SetToSortSeq({i \in DOMAIN chars : IsEnd(i)}, <)
      After(i) == IF chars[i] = CR /\ i < Len(chars) /\ chars[i + 1] = LF THEN i + 2 ELSE i + 1
  IN  [k \in 1 .. Len(ends) + 1 |->
         [first |-> IF k = 1 THEN 1 ELSE After(ends[k - 1]),
          last |-> IF k > Len(ends) THEN Len(chars) ELSE ends[k] - 1]]

Lines(chars) ==
  LET bounds == LineBounds(chars)
  IN  [k \in DOMAIN bounds |-> SubSeq(chars, bounds[k].first, bounds[k].last)]

Blank(chars) == \A i \in DOMAIN chars : chars[i] \in Whitespace

\* line.takeWhile { it.isWhitespace() }.length
Indent(chars) == Max({n \in 0 .. Len(chars) : Blank(SubSeq(chars, 1, n))})

-----------------------------------------------------------------------------
\* The parts of n characters, and none.
Parts(n) == {p \in (0 .. n) \X (0 .. n) : p[1] < p[2] \/ p = <<0, 0>>}

Init ==
  /\ \E t \in Texts : \E part \in [t.items -> Parts(Len(t.chars))] :
       /\ pre = t.pre
       /\ text = [chars |-> t.chars,
                  ranges |-> {[item |-> i, start |-> part[i][1], end |-> part[i][2]] :
                                i \in {j \in t.items : part[j] # <<0, 0>>}}]
  /\ stage = IF pre THEN "dedent" ELSE "collapse"
  /\ at = 0 /\ line = 0 /\ result = Empty

\* The end of the run of blanks, or of other characters, that begins at i.
EndOfRun(i) ==
  Min({j \in i + 1 .. Length(text) :
         j = Length(text) \/ ((Char(text, j) \in Whitespace) # (Char(text, i) \in Whitespace))})

\* Mutant: a range that ends at the blanks is taken over them.
CollapseBlanksOfRangeBefore ==
  /\ stage = "collapse" /\ at < Length(text) /\ Char(text, at) \in Whitespace
  /\ LET space == [chars |-> <<SPACE>>,
                   ranges |-> {[item |-> r.item, start |-> 0, end |-> 1] :
                                 r \in {s \in text.ranges : s.start <= at /\ s.end >= at}}]
     IN  result' = Plus(result, space)
  /\ at' = EndOfRun(at)
  /\ UNCHANGED <<text, pre, stage, line>>

\* One space in the place of a run of blanks, with the styles and links of the first of them.
CollapseBlanks ==
  /\ stage = "collapse" /\ at < Length(text) /\ Char(text, at) \in Whitespace
  /\ LET space == [chars |-> <<SPACE>>,
                   ranges |-> {[item |-> r.item, start |-> 0, end |-> 1] :
                                 r \in {s \in text.ranges : Covers(s, at)}}]
     IN  result' = Plus(result, space)
  /\ at' = EndOfRun(at)
  /\ UNCHANGED <<text, pre, stage, line>>

CollapseWord ==
  /\ stage = "collapse" /\ at < Length(text) /\ Char(text, at) \notin Whitespace
  /\ result' = Plus(result, SubSequence(text, at, EndOfRun(at)))
  /\ at' = EndOfRun(at)
  /\ UNCHANGED <<text, pre, stage, line>>

Trim ==
  /\ stage = "collapse" /\ at = Length(text)
  /\ LET visible == {i \in 0 .. Length(result) - 1 : Char(result, i) \notin Whitespace}
     IN  result' = IF visible = {} THEN Empty ELSE SubSequence(result, Min(visible), Max(visible) + 1)
  /\ stage' = "done"
  /\ UNCHANGED <<text, pre, at, line>>

-----------------------------------------------------------------------------
(* The values of dedent: it trims the blank lines at both ends and the     *)
(* indent the other lines share.                                           *)
TextLines == Lines(text.chars)
ContentLines == {k \in DOMAIN TextLines : ~ Blank(TextLines[k])}
FirstContentLine == Min(ContentLines)
LastContentLine == Max(ContentLines)
MinIndent == Min({Indent(TextLines[k]) : k \in ContentLines})

NothingToDedent ==
  \/ Len(TextLines) = 1
  \/ ContentLines # {} /\ MinIndent = 0 /\ FirstContentLine = 1 /\ LastContentLine = Len(TextLines)

DedentNothing ==
  /\ stage = "dedent" /\ (NothingToDedent \/ ContentLines = {})
  /\ result' = IF NothingToDedent THEN text ELSE Empty
  /\ stage' = "done"
  /\ UNCHANGED <<text, pre, at, line>>

\* Skips the blank lines at the beginning.
Dedent ==
  /\ stage = "dedent" /\ ~ NothingToDedent /\ ContentLines # {}
  /\ at' = FoldLeft(LAMBDA pos, skipped : pos + Len(skipped) + 1, 0, SubSeq(TextLines, 1, FirstContentLine - 1))
  /\ line' = FirstContentLine
  /\ stage' = "lines"
  /\ UNCHANGED <<text, pre, result>>

\* The line at currentPos without its indent, and a line end of its own unless it is the last.
DedentedLine ==
  LET chars == TextLines[line]
      start == at + Min({MinIndent, Indent(chars)})
      kept == IF start < at + Len(chars) THEN SubSequence(text, start, at + Len(chars)) ELSE Empty
  IN  IF line < LastContentLine THEN Plus(kept, Plain(<<LF>>)) ELSE kept

\* Mutant: the line end is not counted.
DedentLineUncounted ==
  /\ stage = "lines" /\ line <= LastContentLine
  /\ result' = Plus(result, DedentedLine)
  /\ at' = at + Len(TextLines[line]) /\ line' = line + 1
  /\ UNCHANGED <<text, pre, stage>>

DedentLine ==
  /\ stage = "lines" /\ line <= LastContentLine
  /\ result' = Plus(result, DedentedLine)
  /\ at' = at + Len(TextLines[line]) + 1 /\ line' = line + 1
  /\ UNCHANGED <<text, pre, stage>>

DedentEnd ==
  /\ stage = "lines" /\ line > LastContentLine
  /\ stage' = "done"
  /\ UNCHANGED <<text, pre, at, line, result>>

Next == CollapseBlanks \/ CollapseWord \/ Trim \/ DedentNothing \/ Dedent \/ DedentLine \/ DedentEnd

Spec == Init /\ [][Next]_vars

-----------------------------------------------------------------------------
\* The characters of a string at some places, each with the styles and links that are on it.
Styled(a, places) ==
  [k \in DOMAIN places |->
     [char |-> a.chars[places[k]], items |-> {r.item : r \in {s \in a.ranges : Covers(s, places[k] - 1)}}]]
All(a) == Styled(a, [i \in DOMAIN a.chars |-> i])
Between(first, last) == [k \in 1 .. last - first + 1 |-> first + k - 1]

\* What is left outside <pre> is the words of the text with every style and link they had, one
\* space between two of them, in the style of the first of the blanks it stands for, and nothing
\* before the first and after the last word (collapseWhitespace, trimWhitespace).
CollapsedTextIsTheWords ==
  stage = "done" /\ ~ pre =>
    LET chars == text.chars
        Visible(i) == chars[i] \notin Whitespace
        kept == {i \in DOMAIN chars :
                   Visible(i) \/ (i > 1 /\ Visible(i - 1) /\ \E j \in DOMAIN chars : j > i /\ Visible(j))}
        Space(c) == IF c.char \in Whitespace THEN [c EXCEPT !.char = SPACE] ELSE c
        expected == Styled(text, SetToSortSeq(kept, <))
    IN  All(result) = [k \in DOMAIN expected |-> Space(expected[k])]

\* What is left in <pre> is the lines of the text from the first to the last that is not blank,
\* with all their styles and links, each without the indent they share and no character more; a
\* text of one line is left as it is, blank or not, and of blank lines nothing is left (dedent).
\* Every part taken lies in the text.  CR LF, which the positions take for one character, is left
\* out.
DedentedLinesAreTheLines ==
  pre =>
    LET bounds == LineBounds(text.chars)
        left == LineBounds(result.chars)
        First(k) == bounds[k].first + Min({MinIndent, Indent(TextLines[k])})
        CrLf == \E i \in DOMAIN text.chars : i > 1 /\ text.chars[i] = LF /\ text.chars[i - 1] = CR
    IN  /\ stage = "lines" /\ line <= LastContentLine => at + Len(TextLines[line]) <= Length(text)
        /\ stage = "done" /\ Len(bounds) = 1 => result = text
        /\ stage = "done" /\ Len(bounds) > 1 /\ ContentLines = {} => result = Empty
        /\ stage = "done" /\ Len(bounds) > 1 /\ ContentLines # {} /\ ~ CrLf =>
             /\ Len(left) = LastContentLine - FirstContentLine + 1
             /\ \A k \in FirstContentLine .. LastContentLine :
                  LET part == left[k - FirstContentLine + 1]
                  IN  Styled(result, Between(part.first, part.last)) = Styled(text, Between(First(k), bounds[k].last))
=============================================================================
