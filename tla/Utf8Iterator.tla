---------------------------- MODULE Utf8Iterator ----------------------------
(***************************************************************************)
(* The input of the HTML parser: Utf8Iterator of utf8.c.  It stands on one *)
(* character of the source bytes, keeps its line, column and byte offset,  *)
(* can be moved to the next character, marked, and reset to the mark.      *)
(* Bytes and code points are numbers; positions in the source count from 1 *)
(* and the offset, as in the code, from 0.                                 *)
(***************************************************************************)
EXTENDS Integers, Sequences, FiniteSets

CONSTANT TabStop          \* GumboOptions.tab_stop

ASSUME TabStopAssumption == TabStop \in Nat \ {0}

VARIABLES
  source,   \* the bytes of the buffer passed to gumbo_parse_with_options
  iter,     \* the Utf8Iterator
  errors    \* the errors recorded so far, [type, offset]

iteratorVars == <<source, iter, errors>>

EndOfInput == -1
Replacement == 65533      \* kUtf8ReplacementChar
NoMark == 0               \* _mark before the first utf8iterator_mark

TAB == 9
LF == 10
CR == 13

Position == [line: Nat, column: Nat, offset: Nat]
End == Len(source) + 1    \* _end

-----------------------------------------------------------------------------
(* decode(): the states of the table are what the next byte has to be.     *)

ACCEPT == [left |-> 0, low |-> 0, high |-> 0]
REJECT == [left |-> -1, low |-> 0, high |-> 0]
Expecting(left, low, high) == [left |-> left, low |-> low, high |-> high]

AfterFirst(byte) ==
  CASE byte \in 0..127            -> ACCEPT
    [] byte \in 194..223          -> Expecting(1, 128, 191)
    [] byte = 224                 -> Expecting(2, 160, 191)
    [] byte = 237                 -> Expecting(2, 128, 159)
    [] byte \in 225..239 \ {237}  -> Expecting(2, 128, 191)
    [] byte = 240                 -> Expecting(3, 144, 191)
    [] byte \in 241..243          -> Expecting(3, 128, 191)
    [] byte = 244                 -> Expecting(3, 128, 143)
    [] OTHER                      -> REJECT

NextState(state, byte) ==
  IF state = ACCEPT THEN AfterFirst(byte)
  ELSE IF byte \notin state.low..state.high THEN REJECT
  ELSE IF state.left = 1 THEN ACCEPT
  ELSE Expecting(state.left - 1, 128, 191)

FirstBits(byte) == IF byte < 224 THEN byte % 64 ELSE IF byte < 240 THEN byte % 16 ELSE byte % 8

Decoded(d, byte) ==
  [state |-> NextState(d.state, byte),
   code |-> IF d.state = ACCEPT
            THEN IF byte < 128 THEN byte ELSE FirstBits(byte)
            ELSE (d.code * 64) + (byte % 64)]

MaxWidth == 4             \* the table leaves every other state within four bytes
Least(a, b) == IF a < b THEN a ELSE b
Rest(start) == Least(MaxWidth, End - start)    \* how many bytes the loop of read_char may look at

\* What the decoder says after the first n bytes from `start`.
Begun == [state |-> ACCEPT, code |-> 0]
Prefix(start) ==
  LET one == Decoded(Begun, source[start])
      two == Decoded(one, source[start + 1])
      three == Decoded(two, source[start + 2])
      four == Decoded(three, source[start + 3])
  IN [n \in 1..Rest(start) |-> CASE n = 1 -> one [] n = 2 -> two [] n = 3 -> three [] n = 4 -> four]

-----------------------------------------------------------------------------
(* utf8_is_invalid_code_point *)
IsInvalidCodePoint(c) ==
  \/ c \in 1..8 \/ c = 11 \/ c \in 14..31 \/ c \in 127..159 \/ c \in 64976..65007
  \/ c % 65536 \in {65534, 65535}

\* read_char at the place `it` stands on: its character, its width, and the errors found there.
Read(it, current, width) == [it EXCEPT !.current = current, !.width = width]
Reports(it, type) == {[type |-> type, offset |-> it.pos.offset]}

\* The lengths at which the decoder accepts or rejects what it has seen, and the first of them.
Stops(start) == {n \in 1..Rest(start) : Prefix(start)[n].state \in {ACCEPT, REJECT}}
FirstStop(start) == CHOOSE n \in Stops(start) : \A m \in Stops(start) : n <= m

FoldedCR(it) == source[it.start] = CR /\ it.start + 1 < End /\ source[it.start + 1] = LF

\* The CR of a CR LF pair is stepped over as if it did not exist.
SkipFoldedCR(it) ==
  IF FoldedCR(it) THEN [it EXCEPT !.start = @ + 1, !.pos.offset = @ + 1] ELSE it

ReadAccepted(it, width, code) ==
  IF source[it.start] = CR THEN [iter |-> Read(SkipFoldedCR(it), LF, width), errors |-> {}]
  ELSE IF IsInvalidCodePoint(code)
  THEN [iter |-> Read(it, Replacement, width), errors |-> Reports(it, "utf8-invalid")]
  ELSE [iter |-> Read(it, code, width), errors |-> {}]

\* Mutant: the byte that broke the sequence is skipped with it.
RejectedWithBreaker(n) == n

RejectedWidth(n) == IF n = 1 THEN 1 ELSE n - 1   \* the byte that broke the sequence is left, unless it is the first

ReadChar(it) ==
  IF it.start >= End THEN [iter |-> Read(it, EndOfInput, 0), errors |-> {}]
  ELSE IF Stops(it.start) = {}
  THEN [iter |-> Read(it, Replacement, End - it.start), errors |-> Reports(it, "utf8-truncated")]
  ELSE LET n == FirstStop(it.start)
       IN IF Prefix(it.start)[n].state = ACCEPT
          THEN ReadAccepted(it, n, Prefix(it.start)[n].code)
          ELSE [iter |-> Read(it, Replacement, RejectedWidth(n)),
                errors |-> Reports(it, "utf8-invalid")]

UpdatedPosition(it) ==
  [line |-> IF it.current = LF THEN it.pos.line + 1 ELSE it.pos.line,
   column |-> CASE it.current = LF -> 1
                [] it.current = TAB -> (it.pos.column \div TabStop + 1) * TabStop
                [] it.current = EndOfInput -> it.pos.column
                [] OTHER -> it.pos.column + 1,
   offset |-> it.pos.offset + it.width]

NextChar(it) ==
  ReadChar([it EXCEPT !.start = it.start + it.width, !.pos = UpdatedPosition(it)])
Marked(it) == [it EXCEPT !.mark = it.start, !.markPos = it.pos]
\* Mutant: the position of the mark is not restored.
ResetStartToMark(it) == ReadChar([it EXCEPT !.start = it.mark])

ResetToMark(it) == ReadChar([it EXCEPT !.start = it.mark, !.pos = it.markPos])

-----------------------------------------------------------------------------
StartPosition == [line |-> 1, column |-> 1, offset |-> 0]

\* utf8iterator_init leaves the mark alone.
Unread ==
  [start |-> 1, width |-> 0, current |-> 0, pos |-> StartPosition,
   mark |-> NoMark, markPos |-> StartPosition]

IteratorInit == iter = ReadChar(Unread).iter /\ errors = ReadChar(Unread).errors

Becomes(read, reported) ==
  \E r \in {read} : iter' = r.iter /\ errors' = errors \union r.errors \union reported
Advance(reported) == Becomes(NextChar(iter), reported)          \* utf8iterator_next
MarkAndAdvance == Becomes(NextChar(Marked(iter)), {})           \* utf8iterator_mark, then _next
Reset(reported) == Becomes(ResetToMark(iter), reported)         \* utf8iterator_reset
AtMark(type) == {[type |-> type, offset |-> iter.markPos.offset]}   \* utf8iterator_fill_error_at_mark

\* The bytes that follow, as maybe_consume_match compares them.
Upcoming(bytes) ==
  /\ iter.start + Len(bytes) <= End
  /\ \A i \in 1..Len(bytes) : source[iter.start + i - 1] = bytes[i]
=============================================================================
