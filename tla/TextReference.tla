---------------------------- MODULE TextReference ----------------------------
(***************************************************************************)
(* What the text of a page is, said without an iterator: the definitions   *)
(* of the Unicode standard (well-formed UTF-8, one U+FFFD for each maximal *)
(* subpart of an ill-formed sequence) and of HTML (newlines, forbidden     *)
(* characters, character references), as functions of the whole input.     *)
(* TextDecoding is checked against them.                                   *)
(***************************************************************************)
EXTENDS TextDecoding, SequencesExt

Continuation == 128..191

WellFormed(s) ==
  \/ Len(s) = 1 /\ s[1] < 128
  \/ Len(s) = 2 /\ s[1] \in 194..223 /\ s[2] \in Continuation
  \/ Len(s) = 3 /\ s[1] \in 224..239 /\ {s[2], s[3]} \subseteq Continuation
     /\ (s[1] = 224 => s[2] >= 160) /\ (s[1] = 237 => s[2] < 160)
  \/ Len(s) = 4 /\ s[1] \in 240..244 /\ {s[2], s[3], s[4]} \subseteq Continuation
     /\ (s[1] = 240 => s[2] >= 144) /\ (s[1] = 244 => s[2] < 144)

ScalarValue(s) ==
  CASE Len(s) = 1 -> s[1]
    [] Len(s) = 2 -> (s[1] - 192) * 64 + (s[2] - 128)
    [] Len(s) = 3 -> (s[1] - 224) * 4096 + (s[2] - 128) * 64 + (s[3] - 128)
    [] OTHER -> (s[1] - 240) * 262144 + (s[2] - 128) * 4096 + (s[3] - 128) * 64 + (s[4] - 128)

Tails == {<<a>> : a \in {128, 144, 160}} \union {<<a, 128>> : a \in {128, 144, 160}} \union
         {<<a, 128, 128>> : a \in {128, 144, 160}}
BeginsACharacter(s) == \E t \in Tails : WellFormed(s \o t)

\* The lengths a character, and a broken one, may have at place i of the bytes b.
Slices(b, i) == {SubSeq(b, i, j) : j \in i..IF i + 3 < Len(b) THEN i + 3 ELSE Len(b)}
Longer(s, t) == Len(s) >= Len(t)
Subpart(b, i) ==
  LET parts == {s \in Slices(b, i) : Len(s) = 1 \/ BeginsACharacter(s)}
  IN CHOOSE s \in parts : \A t \in parts : Longer(s, t)

\* The characters of the bytes b, each with the byte it is found at and whether it is malformed.
CharAt(b, i) ==
  LET whole == {s \in Slices(b, i) : WellFormed(s)}
      value == IF whole = {} THEN -1 ELSE ScalarValue(CHOOSE s \in whole : TRUE)
      folded == value = CR /\ i < Len(b) /\ b[i + 1] = LF
      bad == value = -1 \/ IsInvalidCodePoint(value)
      at == IF folded THEN i + 1 ELSE i
  IN [char |-> IF bad THEN Replacement ELSE IF value = CR THEN LF ELSE value,
      bad |-> bad, at |-> at,
      next |-> IF folded THEN i + 2
               ELSE i + Len(IF whole = {} THEN Subpart(b, i) ELSE CHOOSE s \in whole : TRUE)]

Characters(b) ==
  LET from[i \in 1..Len(b) + 1] ==
        IF i > Len(b) THEN <<>> ELSE LET c == CharAt(b, i) IN <<c>> \o from[c.next]
  IN from[1]

-----------------------------------------------------------------------------
(* References, over the characters t.                                      *)

Run(t, i, class) == CHOOSE n \in 0..Len(t) + 1 - i :
                      /\ \A k \in i..i + n - 1 : t[k] \in class
                      /\ i + n > Len(t) \/ t[i + n] \notin class

HexDigits == Digits \union (97..102) \union (65..70)
Value(digits, base) ==      \* no digits denote a character beyond U+10FFFF
  FoldLeft(LAMBDA v, c : LET n == v * base + DigitOf(c, base = 16) IN IF n > 1114111 THEN 1114112 ELSE n,
           0, digits)

NoReference(i) == [chars |-> <<AMP>>, next |-> i + 1]
Skip(t, i) == IF i <= Len(t) /\ t[i] = SEMICOLON THEN i + 1 ELSE i

NumericAt(t, i) ==          \* t[i] = "#"
  LET hex == i < Len(t) /\ t[i + 1] \in XMarks
      first == IF hex THEN i + 2 ELSE i + 1
      n == IF first > Len(t) THEN 0 ELSE Run(t, first, IF hex THEN HexDigits ELSE Digits)
      v == Value(SubSeq(t, first, first + n - 1), IF hex THEN 16 ELSE 10)
  IN IF n = 0 THEN NoReference(i - 1)
     ELSE [chars |-> <<NumericValue(v)>>, next |-> Skip(t, first + n)]

NamedAt(t, i, inAttribute) ==
  LET here == {e \in NamedReferences : IsPrefix(e.name, SubSeq(t, i, Len(t)))}
      e == CHOOSE x \in here : \A y \in here : Longer(x.name, y.name)
      next == i + Len(e.name)
  IN IF here = {} \/ (inAttribute /\ Last(e.name) # SEMICOLON /\ next <= Len(t)
                      /\ t[next] \in {EQUALS} \union Alphanumeric)
     THEN NoReference(i - 1)
     ELSE [chars |-> IF e.second = NoChar THEN <<e.first>> ELSE <<e.first, e.second>>, next |-> next]

ReferenceAt(t, i, inAttribute) ==
  IF i < Len(t) /\ t[i + 1] = HASH THEN NumericAt(t, i + 1)
  ELSE NamedAt(t, i + 1, inAttribute)

\* The texts of t: its characters up to the stops, with the references replaced.
Texts(t, c) ==
  LET Piece(i) == IF t[i] = AMP THEN ReferenceAt(t, i, c.inAttribute)
                  ELSE [chars |-> <<t[i]>>, next |-> i + 1]
      text[i \in 1..Len(t) + 1] ==
        IF i > Len(t) \/ t[i] \in c.stops THEN <<>>
        ELSE LET p == Piece(i) IN p.chars \o text[p.next]
      stop[i \in 1..Len(t) + 1] ==
        IF i > Len(t) \/ t[i] \in c.stops THEN i ELSE stop[Piece(i).next]
      texts[i \in 1..Len(t) + 1] ==
        (IF text[i] = <<>> THEN <<>> ELSE <<text[i]>>)
          \o (IF stop[i] > Len(t) THEN <<>> ELSE texts[stop[i] + 1])
  IN IF c.inAttribute THEN <<text[1]>> ELSE texts[1]

Bytes(text) == FlattenSeq([i \in 1..Len(text) |-> Encoded(text[i])])
PlainText(b) == LET chars == Characters(b) IN [i \in 1..Len(chars) |-> chars[i].char]

-----------------------------------------------------------------------------
\* Eight digits or more can overflow the int of consume_numeric_ref, whatever they denote.
MayOverflow == \E i \in 1..Len(source) - 7 : \A j \in i..i + 7 : source[j] \in HexDigits

\* When the reader is done, the bytes it delivered are the UTF-8 encoding of the text the standards
\* give the source: malformed bytes replaced one by one, CR and CR LF turned to LF, the references of
\* the longest name or of the number replaced, nothing skipped and nothing read twice.
DeliveredTextIsTheText ==
  stage = "done" /\ ~MayOverflow =>
    LET texts == Texts(PlainText(source), context)
    IN delivered = [i \in 1..Len(texts) |-> Bytes(texts[i])]

\* What the iterator says of its input is what the input says: line and column are, after marks and
\* resets too, what counting the characters before it gives, and every malformed or forbidden
\* character it has reached is in the error list, at its own offset, and no other character is
\* (update_position, utf8iterator_mark, utf8iterator_reset, add_error of utf8.c).
IteratorReportsWhatItReads ==
  LET chars == Characters(source)
      before == SelectSeq(chars, LAMBDA c : c.at < iter.start)
      ends == {i \in 1..Len(before) : before[i].char = LF}
      lineStart == IF ends = {} THEN 1 ELSE 1 + CHOOSE i \in ends : \A j \in ends : j <= i
      bad == {i \in 1..Len(chars) : chars[i].bad}
      reported == {e.offset : e \in {e \in errors : e.type \in {"utf8-invalid", "utf8-truncated"}}}
  IN /\ iter.start = End \/ \E i \in 1..Len(chars) : iter.start = chars[i].at
     /\ iter.pos.line = 1 + Cardinality(ends)
     /\ iter.pos.column =
          FoldLeft(LAMBDA n, c : IF c.char = TAB THEN n + TabStop - (n % TabStop) ELSE n + 1,
                   1, SubSeq(before, lineStart, Len(before)))
     /\ reported \subseteq {chars[i].at - 1 : i \in bad}
     /\ {chars[i].at - 1 : i \in {i \in bad : chars[i].at <= iter.start}} \subseteq reported
=============================================================================
