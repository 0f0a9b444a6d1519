------------------------- MODULE TextDecodingProofs -------------------------
(***************************************************************************)
(* Two theorems of the decoding of text, for every source, every table of  *)
(* references and every reader: that the character iterator stays within   *)
(* the source (IteratorInBounds), and that everything the decoder keeps    *)
(* has its type (TextTypeOK): what it reads is a code point or the end,    *)
(* what it appends fits in the buffer, and every error lies in the page.   *)
(* The inductive invariants add what the arithmetic needs.                 *)
(***************************************************************************)
EXTENDS TextDecoding, SequenceTheorems, NaturalsInduction, WellFoundedInduction, TLAPS

IteratorSet ==
  [start: Nat, width: Nat, current: Int, pos: [line: Int, column: Int, offset: Int],
   mark: Nat, markPos: [line: Int, column: Int, offset: Int]]

Placed(it) ==
  /\ it.start \in 1..End
  /\ it.pos.offset = it.start - 1
  /\ it.mark = NoMark \/ (it.mark \in 1..End /\ it.markPos.offset = it.mark - 1)

InBounds(it) ==
  /\ Placed(it)
  /\ it.start + it.width <= End
  /\ it.width = 0 <=> it.start = End

SameMark(it, other) == it.mark = other.mark /\ it.markPos = other.markPos

Calling == stage \notin {"text", "done", "dropped"}

IInv ==
  /\ source \in Seq(1..255)
  /\ iter \in IteratorSet
  /\ InBounds(iter)
  /\ Calling => iter.mark # NoMark

-----------------------------------------------------------------------------
\* The least of the lengths at which the decoder stops is one of them (read_char).
LEMMA FirstStopIsLeast ==
  ASSUME NEW start \in Nat, Stops(start) # {}
  PROVE  FirstStop(start) \in Stops(start) /\ \A m \in Stops(start) : FirstStop(start) <= m
<1>1. Stops(start) \subseteq 1..4
  BY DEF Stops, Rest, Least, MaxWidth, End
<1>2. \E n \in Stops(start) : \A m \in Stops(start) : n <= m
  <2>1. CASE 1 \in Stops(start) BY <1>1, <2>1
  <2>2. CASE 1 \notin Stops(start) /\ 2 \in Stops(start) BY <1>1, <2>2
  <2>3. CASE {1, 2} \cap Stops(start) = {} /\ 3 \in Stops(start) BY <1>1, <2>3
  <2>4. CASE {1, 2, 3} \cap Stops(start) = {} BY <1>1, <2>4
  <2> QED BY <2>1, <2>2, <2>3, <2>4
<1> QED BY <1>2 DEF FirstStop

\* What the decoder computes of a byte is an integer (decode).
LEMMA DecodedIsInt ==
  ASSUME NEW d, d.code \in Int, NEW byte \in Int
  PROVE  Decoded(d, byte).code \in Int
<1>1. byte % 64 \in Int /\ FirstBits(byte) \in Int BY DEF FirstBits
<1> QED BY <1>1 DEF Decoded

\* The code point of a prefix is an integer, whatever the bytes are.
LEMMA PrefixCodeIsInt ==
  ASSUME source \in Seq(1..255), NEW start \in 1..Len(source), NEW n \in 1..Rest(start)
  PROVE  Prefix(start)[n].code \in Int
<1> DEFINE one == Decoded(Begun, source[start])
           two == Decoded(one, source[start + 1])
           three == Decoded(two, source[start + 2])
           four == Decoded(three, source[start + 3])
<1>r. Rest(start) <= 4 /\ start + Rest(start) <= Len(source) + 1 /\ Rest(start) \in Nat
  BY DEF Rest, Least, MaxWidth, End
<1>b. ASSUME NEW k \in 0..Rest(start) - 1 PROVE source[start + k] \in Int
  <2>1. start + k \in 1..Len(source) BY <1>r
  <2>2. source[start + k] \in 1..255 BY <2>1, ElementOfSeq
  <2>3. 1..255 \subseteq Int OBVIOUS
  <2> QED BY <2>2, <2>3, Zenon
<1>0. Begun.code \in Int BY DEF Begun
<1>1. one.code \in Int
  <2>1. 0 \in 0..Rest(start) - 1 /\ start + 0 = start BY <1>r
  <2>2. source[start] \in Int BY <2>1, <1>b
  <2> QED BY <1>0, <2>2, DecodedIsInt
<1>2. ASSUME n >= 2 PROVE two.code \in Int
  <2>1. 1 \in 0..Rest(start) - 1 BY <1>2, <1>r
  <2>2. source[start + 1] \in Int BY <2>1, <1>b
  <2>3. one.code \in Int BY <1>2, <1>1
  <2> HIDE DEF one
  <2> QED BY <2>2, <2>3, DecodedIsInt
<1>3. ASSUME n >= 3 PROVE three.code \in Int
  <2>1. 2 \in 0..Rest(start) - 1 BY <1>3, <1>r
  <2>2. source[start + 2] \in Int BY <2>1, <1>b
  <2>3. two.code \in Int BY <1>3, <1>2
  <2> HIDE DEF two
  <2> QED BY <2>2, <2>3, DecodedIsInt
<1>4. ASSUME n >= 4 PROVE four.code \in Int
  <2>1. 3 \in 0..Rest(start) - 1 BY <1>4, <1>r
  <2>2. source[start + 3] \in Int BY <2>1, <1>b
  <2>3. three.code \in Int BY <1>4, <1>3
  <2> HIDE DEF three
  <2> QED BY <2>2, <2>3, DecodedIsInt
<1>5. Prefix(start)[n] = CASE n = 1 -> one [] n = 2 -> two [] n = 3 -> three [] n = 4 -> four
  BY DEF Prefix
<1> HIDE DEF one, two, three, four
<1>6. n \in 1..4 BY <1>r
<1>7. CASE n = 1 BY <1>7, <1>5, <1>1
<1>8. CASE n = 2 BY <1>8, <1>5, <1>2
<1>9. CASE n = 3 BY <1>9, <1>5, <1>3
<1>10. CASE n = 4 BY <1>10, <1>5, <1>4
<1> QED BY <1>6, <1>7, <1>8, <1>9, <1>10

\* A carriage return is accepted as it is, alone: the assertion of read_char.
LEMMA CarriageReturnHasWidthOne ==
  ASSUME source \in Seq(1..255), NEW start \in 1..Len(source), source[start] = CR, Stops(start) # {}
  PROVE  FirstStop(start) = 1
<1>1. 1 \in 1..Rest(start) BY DEF Rest, Least, MaxWidth, End
<1>2. Prefix(start)[1] = Decoded(Begun, source[start]) BY <1>1 DEF Prefix
<1>3. AfterFirst(CR) = ACCEPT BY DEF AfterFirst, CR
<1>4. Decoded(Begun, CR).state = ACCEPT BY <1>3 DEF Decoded, Begun, NextState
<1>5. 1 \in Stops(start) BY <1>1, <1>2, <1>4 DEF Stops
<1>6. FirstStop(start) \in Stops(start) /\ FirstStop(start) <= 1 BY <1>5, FirstStopIsLeast
<1>7. Stops(start) \subseteq Nat /\ 0 \notin Stops(start) BY DEF Stops, Rest, Least, MaxWidth, End
<1> QED BY <1>6, <1>7

\* Reading a character of a possible width leaves the iterator in bounds.
LEMMA ReadStaysInBounds ==
  ASSUME NEW it \in IteratorSet, Placed(it), NEW c \in Int, NEW w \in Nat,
         it.start + w <= End, w = 0 <=> it.start = End
  PROVE  Read(it, c, w) \in IteratorSet /\ InBounds(Read(it, c, w)) /\ SameMark(Read(it, c, w), it)
BY DEF Read, IteratorSet, InBounds, Placed, SameMark

\* Stepping over the CR of a CR LF pair keeps offset and place together.
LEMMA SkipStaysPlaced ==
  ASSUME NEW it \in IteratorSet, Placed(it), FoldedCR(it), End \in Nat
  PROVE  LET r == SkipFoldedCR(it)
         IN r \in IteratorSet /\ Placed(r) /\ SameMark(r, it) /\ r.start + 1 <= End
<1>1. SkipFoldedCR(it) = [it EXCEPT !.start = @ + 1, !.pos.offset = @ + 1] BY DEF SkipFoldedCR
<1>2. it.start \in Nat /\ it.start + 1 < End BY DEF FoldedCR, IteratorSet
<1> DEFINE moved == [it.pos EXCEPT !.offset = @ + 1]
<1>3. it.pos \in [line: Int, column: Int, offset: Int] BY DEF IteratorSet
<1>4. moved \in [line: Int, column: Int, offset: Int] /\ moved.offset = it.pos.offset + 1 BY <1>3
<1>5. SkipFoldedCR(it) = [it EXCEPT !.start = it.start + 1, !.pos = moved] BY <1>1 DEF IteratorSet
<1> HIDE DEF moved
<1>6. /\ SkipFoldedCR(it) \in IteratorSet
      /\ SkipFoldedCR(it).start = it.start + 1 /\ SkipFoldedCR(it).pos = moved
      /\ SkipFoldedCR(it).mark = it.mark /\ SkipFoldedCR(it).markPos = it.markPos
  <2>1. it.start + 1 \in Nat BY <1>2
  <2>2. moved \in [line: Int, column: Int, offset: Int] BY <1>4
  <2> QED BY <2>1, <2>2, <1>5 DEF IteratorSet
<1> QED BY <1>2, <1>3, <1>4, <1>6 DEF Placed, SameMark

\* read_char leaves an iterator that was placed within the source in bounds, and its mark alone.
LEMMA ReadCharStaysInBounds ==
  ASSUME source \in Seq(1..255), NEW it \in IteratorSet, Placed(it)
  PROVE  LET r == ReadChar(it).iter
         IN r \in IteratorSet /\ InBounds(r) /\ SameMark(r, it)
<1>e. End \in Nat /\ End = Len(source) + 1 BY DEF End
<1>s. it.start \in Nat /\ it.start >= 1 /\ it.start <= End BY <1>e DEF Placed
<1>c. EndOfInput \in Int /\ Replacement \in Int /\ LF \in Int BY DEF EndOfInput, Replacement, LF
<1>1. CASE it.start >= End
  <2>1. ReadChar(it).iter = Read(it, EndOfInput, 0) BY <1>1 DEF ReadChar
  <2> QED BY <1>1, <1>s, <1>e, <1>c, <2>1, ReadStaysInBounds
<1>2. CASE ~(it.start >= End) /\ Stops(it.start) = {}
  <2>1. ReadChar(it).iter = Read(it, Replacement, End - it.start) BY <1>2 DEF ReadChar
  <2>2. End - it.start \in Nat /\ it.start + (End - it.start) <= End /\ End - it.start # 0 /\ it.start # End
    BY <1>2, <1>s, <1>e
  <2> QED BY <2>1, <2>2, <1>c, ReadStaysInBounds
<1>3. CASE ~(it.start >= End) /\ Stops(it.start) # {}
  <2> DEFINE n == FirstStop(it.start)
  <2>n. n \in Stops(it.start) /\ it.start \in 1..Len(source) BY <1>3, <1>s, <1>e, FirstStopIsLeast
  <2>1. n \in 1..Rest(it.start) BY <2>n DEF Stops
  <2>2. n \in Nat /\ n >= 1 /\ it.start + n <= End /\ it.start # End
    BY <2>1, <2>n, <1>e DEF Rest, Least, MaxWidth
  <2>3. Prefix(it.start)[n].code \in Int BY <2>1, <2>n, PrefixCodeIsInt
  <2>4. CASE Prefix(it.start)[n].state = ACCEPT /\ source[it.start] = CR
    <3>1. n = 1 BY <1>3, <2>n, <2>4, CarriageReturnHasWidthOne
    <3>2. ReadChar(it).iter = Read(SkipFoldedCR(it), LF, 1)
      BY <1>3, <2>4, <3>1 DEF ReadChar, ReadAccepted
    <3>3. CASE FoldedCR(it)
      <4>1. SkipFoldedCR(it).start # End /\ SkipFoldedCR(it) \in IteratorSet /\ Placed(SkipFoldedCR(it))
            /\ SameMark(SkipFoldedCR(it), it) /\ SkipFoldedCR(it).start + 1 <= End
        <5>1. SkipFoldedCR(it) \in IteratorSet /\ Placed(SkipFoldedCR(it))
              /\ SameMark(SkipFoldedCR(it), it) /\ SkipFoldedCR(it).start + 1 <= End
          BY <3>3, <1>e, SkipStaysPlaced
        <5>2. SkipFoldedCR(it).start \in Nat BY <5>1 DEF IteratorSet
        <5> QED BY <5>1, <5>2, <1>e
      <4>2. Read(SkipFoldedCR(it), LF, 1) \in IteratorSet /\ InBounds(Read(SkipFoldedCR(it), LF, 1))
            /\ SameMark(Read(SkipFoldedCR(it), LF, 1), SkipFoldedCR(it))
        BY <4>1, <1>c, ReadStaysInBounds
      <4> QED BY <3>2, <4>1, <4>2 DEF SameMark
    <3>4. CASE ~FoldedCR(it)
      <4>1. SkipFoldedCR(it) = it BY <3>4 DEF SkipFoldedCR
      <4> QED BY <3>1, <3>2, <4>1, <2>2, <1>c, ReadStaysInBounds
    <3> QED BY <3>3, <3>4
  <2>5. CASE Prefix(it.start)[n].state = ACCEPT /\ source[it.start] # CR
    <3>1. ReadChar(it) = ReadAccepted(it, n, Prefix(it.start)[n].code) BY <1>3, <2>5 DEF ReadChar
    <3> HIDE DEF n
    <3>2. ReadAccepted(it, n, Prefix(it.start)[n].code).iter = Read(it, Replacement, n)
          \/ ReadAccepted(it, n, Prefix(it.start)[n].code).iter = Read(it, Prefix(it.start)[n].code, n)
      BY <2>5 DEF ReadAccepted
    <3> QED BY <3>1, <3>2, <2>2, <2>3, <1>c, ReadStaysInBounds
  <2>6. CASE Prefix(it.start)[n].state # ACCEPT
    <3>1. ReadChar(it).iter = Read(it, Replacement, RejectedWidth(n)) BY <1>3, <2>6 DEF ReadChar
    <3> HIDE DEF n
    <3>2. RejectedWidth(n) \in Nat /\ RejectedWidth(n) # 0 /\ it.start + RejectedWidth(n) <= End
      BY <2>2, <1>s, <1>e DEF RejectedWidth
    <3> QED BY <3>1, <3>2, <2>2, <1>c, ReadStaysInBounds
  <2> QED BY <2>4, <2>5, <2>6
<1> QED BY <1>1, <1>2, <1>3

\* utf8iterator_next, utf8iterator_mark and utf8iterator_reset keep the iterator in bounds.
LEMMA NextCharStaysInBounds ==
  ASSUME source \in Seq(1..255), NEW it \in IteratorSet, InBounds(it)
  PROVE  LET r == NextChar(it).iter
         IN r \in IteratorSet /\ InBounds(r) /\ SameMark(r, it)
<1> DEFINE moved == [it EXCEPT !.start = it.start + it.width, !.pos = UpdatedPosition(it)]
<1>1. UpdatedPosition(it) \in [line: Int, column: Int, offset: Int]
  <2>1. (it.pos.column \div TabStop + 1) * TabStop \in Int BY TabStopAssumption DEF IteratorSet
  <2> QED BY <2>1 DEF UpdatedPosition, IteratorSet
<1>2. UpdatedPosition(it).offset = it.pos.offset + it.width BY DEF UpdatedPosition
<1>3. moved \in IteratorSet
  <2>1. it.start + it.width \in Nat BY DEF IteratorSet
  <2> QED BY <1>1, <2>1 DEF IteratorSet
<1>4. Placed(moved) /\ SameMark(moved, it)
  BY <1>2 DEF InBounds, Placed, IteratorSet, SameMark, End
<1>5. NextChar(it) = ReadChar(moved) BY DEF NextChar
<1> HIDE DEF moved
<1> QED BY <1>3, <1>4, <1>5, ReadCharStaysInBounds DEF SameMark

LEMMA MarkedStaysInBounds ==
  ASSUME source \in Seq(1..255), NEW it \in IteratorSet, InBounds(it)
  PROVE  Marked(it) \in IteratorSet /\ InBounds(Marked(it)) /\ Marked(it).mark # NoMark
<1>1. /\ Marked(it) \in IteratorSet
      /\ Marked(it).start = it.start /\ Marked(it).width = it.width /\ Marked(it).pos = it.pos
      /\ Marked(it).mark = it.start /\ Marked(it).markPos = it.pos
  BY DEF Marked, IteratorSet
<1>2. End \in Nat BY DEF End
<1> QED BY <1>1, <1>2 DEF InBounds, Placed, NoMark

LEMMA ResetStaysInBounds ==
  ASSUME source \in Seq(1..255), NEW it \in IteratorSet, InBounds(it), it.mark # NoMark
  PROVE  LET r == ResetToMark(it).iter
         IN r \in IteratorSet /\ InBounds(r) /\ SameMark(r, it)
<1> DEFINE back == [it EXCEPT !.start = it.mark, !.pos = it.markPos]
<1>1. back \in IteratorSet BY DEF IteratorSet
<1>2. Placed(back) /\ SameMark(back, it) BY DEF InBounds, Placed, IteratorSet, SameMark
<1>3. ResetToMark(it) = ReadChar(back) BY DEF ResetToMark
<1> HIDE DEF back
<1> QED BY <1>1, <1>2, <1>3, ReadCharStaysInBounds DEF SameMark

-----------------------------------------------------------------------------
\* The steps that move the iterator, as the actions take them.
LEMMA AdvanceKeepsBounds ==
  ASSUME IInv, NEW reported, Advance(reported), source' = source
  PROVE  iter' \in IteratorSet /\ InBounds(iter)' /\ iter'.mark = iter.mark
<1>1. iter' = NextChar(iter).iter BY DEF Advance, Becomes
<1> QED BY <1>1, NextCharStaysInBounds DEF IInv, SameMark, InBounds, Placed, End

LEMMA MarkAndAdvanceKeepsBounds ==
  ASSUME IInv, MarkAndAdvance, source' = source
  PROVE  iter' \in IteratorSet /\ InBounds(iter)' /\ iter'.mark # NoMark
<1>1. iter' = NextChar(Marked(iter)).iter BY DEF MarkAndAdvance, Becomes
<1>2. Marked(iter) \in IteratorSet /\ InBounds(Marked(iter)) /\ Marked(iter).mark # NoMark
  BY MarkedStaysInBounds DEF IInv
<1> HIDE DEF MarkAndAdvance
<1> QED BY <1>1, <1>2, NextCharStaysInBounds DEF IInv, SameMark, InBounds, Placed, End

LEMMA ResetKeepsBounds ==
  ASSUME IInv, NEW reported, Reset(reported), source' = source, iter.mark # NoMark
  PROVE  iter' \in IteratorSet /\ InBounds(iter)' /\ iter'.mark = iter.mark
<1>1. iter' = ResetToMark(iter).iter BY DEF Reset, Becomes
<1> QED BY <1>1, ResetStaysInBounds DEF IInv, SameMark, InBounds, Placed, End

\* The initial iterator stands on the first character (utf8iterator_init).
LEMMA InitIsInBounds == Init => IInv
<1> SUFFICES ASSUME Init PROVE IInv OBVIOUS
<1>1. source \in Seq(1..255) BY InputsAssumption DEF Init
<1>2. Unread \in IteratorSet /\ Placed(Unread)
  BY <1>1 DEF Unread, IteratorSet, Placed, StartPosition, NoMark, End
<1>3. iter = ReadChar(Unread).iter /\ stage = "text" BY DEF Init, IteratorInit
<1> QED BY <1>1, <1>2, <1>3, ReadCharStaysInBounds DEF IInv, Calling

\* Every step of consume_char_ref keeps the invariant: it marks first, and only then resets.
LEMMA ReferenceStepKeepsBounds ==
  ASSUME IInv, ConsumeReference
  PROVE  IInv'
<1>s. source' = source
  BY DEF ConsumeReference, ConsumeCharRef, NotAReference, NumericReference, HexMark, NoDigits, Digit,
         EndOfDigits, NamedReference, Parameter, ConsumeMatch, UnknownName, ScanName, EndOfName, iteratorVars
<1>t. source' \in Seq(1..255) BY <1>s DEF IInv
<1>1. CASE ConsumeCharRef
  BY <1>1, <1>s, <1>t, MarkAndAdvanceKeepsBounds DEF ConsumeCharRef, IInv
<1>2. CASE NotAReference
  BY <1>2, <1>s, <1>t, ResetKeepsBounds DEF NotAReference, IInv, Calling, GiveUp
<1>3. CASE NumericReference
  BY <1>3, <1>s, <1>t, AdvanceKeepsBounds DEF NumericReference, IInv, Calling
<1>4. CASE HexMark
  BY <1>4, <1>s, <1>t, AdvanceKeepsBounds DEF HexMark, IInv, Calling
<1>5. CASE NoDigits
  BY <1>5, <1>s, <1>t, ResetKeepsBounds DEF NoDigits, IInv, Calling, GiveUp
<1>6. CASE Digit
  BY <1>6, <1>s, <1>t, AdvanceKeepsBounds DEF Digit, IInv, Calling
<1>7. CASE EndOfDigits
  <2>1. CASE iter.current = SEMICOLON
    BY <1>7, <2>1, <1>s, <1>t, AdvanceKeepsBounds DEF EndOfDigits, IInv, Calling
  <2>2. CASE iter.current # SEMICOLON
    <3>1. iter' = iter /\ stage = "digits" BY <1>7, <2>2 DEF EndOfDigits
    <3> QED BY <3>1, <1>s, <1>t DEF IInv, Calling, InBounds, Placed, End
  <2> QED BY <2>1, <2>2
<1>8. CASE NamedReference \/ UnknownName
  <2>1. iter' = iter /\ stage = "reference"
    BY <1>8 DEF NamedReference, UnknownName, NameFollows, iteratorVars
  <2> QED BY <2>1, <1>s, <1>t DEF IInv, Calling, InBounds, Placed, End
<1>9. CASE Parameter
  BY <1>9, <1>s, <1>t, ResetKeepsBounds DEF Parameter, NameFollows, IInv, Calling, GiveUp
<1>10. CASE ConsumeMatch
  BY <1>10, <1>s, <1>t, AdvanceKeepsBounds DEF ConsumeMatch, IInv, Calling
<1>11. CASE ScanName
  BY <1>11, <1>s, <1>t, AdvanceKeepsBounds DEF ScanName, IInv, Calling
<1>12. CASE EndOfName
  BY <1>12, <1>s, <1>t, ResetKeepsBounds DEF EndOfName, IInv, Calling, GiveUp
<1> QED
  BY <1>1, <1>2, <1>3, <1>4, <1>5, <1>6, <1>7, <1>8, <1>9, <1>10, <1>11, <1>12 DEF ConsumeReference

\* Every step of the reader, its calls of consume_char_ref included, keeps the invariant.
LEMMA StepKeepsBounds == IInv /\ [Next]_vars => IInv'
<1> SUFFICES ASSUME IInv, [Next]_vars PROVE IInv' OBVIOUS
<1>1. CASE ReadCharacter \/ FlushText
  <2>1. source' = source /\ stage = "text" /\ stage' = stage /\ Advance({})
    BY <1>1 DEF ReadCharacter, FlushText
  <2> QED BY <2>1, AdvanceKeepsBounds DEF IInv, Calling
<1>2. CASE ConsumeReference
  BY <1>2, ReferenceStepKeepsBounds
<1>3. CASE TakeReference
  <2>1. source' = source /\ stage' = "text" /\ (iter' = iter \/ Advance({})) BY <1>3 DEF TakeReference
  <2>2. CASE iter' = iter BY <2>1, <2>2 DEF IInv, Calling, InBounds, Placed, End
  <2>3. CASE Advance({}) BY <2>1, <2>3, AdvanceKeepsBounds DEF IInv, Calling
  <2> QED BY <2>1, <2>2, <2>3
<1>4. CASE Finishing \/ UNCHANGED vars
  <2>1. source' = source /\ iter' = iter /\ (stage' = stage \/ stage' \in {"done", "dropped"})
    BY <1>4 DEF Finishing, FinishText, FinishValue, AbandonTag, vars, charRefVars, iteratorVars
  <2> QED BY <2>1 DEF IInv, Calling, InBounds, Placed, End
<1> QED BY <1>1, <1>2, <1>3, <1>4 DEF Next, Reading

\* The iterator never leaves the source, and is never reset to a mark that was not set.
THEOREM IteratorStaysInBounds == Spec => []IteratorInBounds
<1>1. IInv => IteratorInBounds
  BY DEF IInv, IteratorInBounds, InBounds, Placed, Calling, IteratorSet, NoMark
<1> QED BY InitIsInBounds, StepKeepsBounds, <1>1, PTL DEF Spec

(***************************************************************************)
(* The buffer: doubling ends, and the capacity is enough.                  *)
(***************************************************************************)

\* The pairs of natural numbers of which the first is less.
LessThan == {p \in Nat \X Nat : p[1] < p[2]}

\* The library states it for the operator <; here it is a relation.
LEMMA LessThanIsWellFounded == IsWellFoundedOn(LessThan, Nat)
<1>1. OpToRel(<, Nat) = LessThan
  BY Zenon DEF OpToRel, LessThan
<1> QED
  BY <1>1, NatLessThanWellFounded, Zenon

\* A set of natural numbers that is not empty has a least element.
LEMMA LeastElement ==
  ASSUME NEW T \in SUBSET Nat, T # {}
  PROVE  \E x \in T : \A y \in T : x <= y
<1>1. PICK x \in T : \A y \in T : ~ (<<y, x>> \in LessThan)
  BY LessThanIsWellFounded, WFMin
<1>2. ASSUME NEW y \in T
      PROVE  x <= y
  <2>1. ~(<<y, x>> \in LessThan)
    BY <1>1
  <2>2. <<y, x>> \in Nat \X Nat
    OBVIOUS
  <2>3. ~(y < x)
    BY <2>1, <2>2 DEF LessThan
  <2> QED
    BY <2>3
<1> QED
  BY <1>2

\* One that stays below a number has a greatest.
LEMMA GreatestElement ==
  ASSUME NEW bound \in Nat, NEW T \in SUBSET (0..bound), T # {}
  PROVE  \E x \in T : \A y \in T : y <= x
<1> DEFINE U == {u \in 0..bound : bound - u \in T}
<1>1. PICK t \in T : TRUE
  OBVIOUS
<1>2. bound - t \in 0..bound /\ bound - (bound - t) = t
  OBVIOUS
<1>3. U \in SUBSET Nat /\ bound - t \in U
  BY <1>2
<1>4. PICK u \in U : \A v \in U : u <= v
  BY <1>3, LeastElement
<1>5. ASSUME NEW y \in T
      PROVE  y <= bound - u
  <2>1. bound - y \in 0..bound /\ bound - (bound - y) = y
    OBVIOUS
  <2>2. bound - y \in U
    BY <2>1
  <2>3. u <= bound - y
    BY <1>4, <2>2
  <2> QED
    BY <2>1, <2>3
<1> QED
  BY <1>4, <1>5

\* The function the loop of maybe_resize_string_buffer computes.
Doubles(g, length) == g = [n \in Nat |-> IF n >= length THEN n ELSE g[n * 2]]

\* What doubling makes of n.
Orbit(n) == {m \in Nat : \A S \in SUBSET Nat : n \in S /\ (\A x \in S : x * 2 \in S) => m \in S}

LEMMA OrbitHasIt ==
  ASSUME NEW n \in Nat
  PROVE  /\ n \in Orbit(n)
         /\ \A x \in Orbit(n) : x * 2 \in Orbit(n)
         /\ \A x \in Orbit(n) : x >= n
<1>1. n \in Orbit(n)
  BY DEF Orbit
<1>2. ASSUME NEW x \in Orbit(n)
      PROVE  x * 2 \in Orbit(n)
  <2>1. x \in Nat /\ x * 2 \in Nat
    BY DEF Orbit
  <2>2. ASSUME NEW S \in SUBSET Nat, n \in S, \A y \in S : y * 2 \in S
        PROVE  x * 2 \in S
    <3>1. x \in S
      BY <2>2 DEF Orbit
    <3> QED
      BY <2>2, <3>1
  <2> QED
    BY <2>1, <2>2 DEF Orbit
<1>3. ASSUME NEW x \in Orbit(n)
      PROVE  x >= n
  <2> DEFINE S == {y \in Nat : y >= n}
  <2>1. S \in SUBSET Nat /\ n \in S
    OBVIOUS
  <2>2. \A y \in S : y * 2 \in S
    OBVIOUS
  <2>3. x \in S
    BY <2>1, <2>2 DEF Orbit
  <2> QED
    BY <2>3
<1> QED
  BY <1>1, <1>2, <1>3

\* Beyond n itself, n and its double make the same.
LEMMA OrbitOfDouble ==
  ASSUME NEW n \in Nat
  PROVE  Orbit(n) \subseteq {n} \union Orbit(n * 2) /\ Orbit(n * 2) \subseteq Orbit(n)
<1>0. n * 2 \in Nat
  OBVIOUS
<1>1. ASSUME NEW m \in Orbit(n)
      PROVE  m \in {n} \union Orbit(n * 2)
  <2> DEFINE S == {n} \union Orbit(n * 2)
  <2>1. S \in SUBSET Nat /\ n \in S
    BY DEF Orbit
  <2>2. \A x \in Orbit(n * 2) : x * 2 \in Orbit(n * 2)
    BY <1>0, OrbitHasIt
  <2>3. n * 2 \in Orbit(n * 2)
    BY <1>0, OrbitHasIt
  <2>4. \A x \in S : x * 2 \in S
    BY <2>2, <2>3
  <2> HIDE DEF S
  <2>5. m \in S
    BY <2>1, <2>4 DEF Orbit
  <2> QED
    BY <2>5 DEF S
<1>2. ASSUME NEW m \in Orbit(n * 2)
      PROVE  m \in Orbit(n)
  <2>1. m \in Nat
    BY DEF Orbit
  <2>2. ASSUME NEW S \in SUBSET Nat, n \in S, \A y \in S : y * 2 \in S
        PROVE  m \in S
    <3>1. n * 2 \in S
      BY <2>2
    <3> QED
      BY <2>2, <3>1 DEF Orbit
  <2> QED
    BY <2>1, <2>2 DEF Orbit
<1> QED
  BY <1>1, <1>2

\* The loop has a result: the least number it reaches that is not below the length.
LEMMA DoublesExists ==
  ASSUME NEW length \in Nat
  PROVE  \E g : Doubles(g, length)
<1> DEFINE fit(n) == {m \in Orbit(n) : m >= length}
           IsLeast(T, m) == m \in T /\ \A k \in T : m <= k
           least(T) == CHOOSE m : IsLeast(T, m)
           h == [n \in Nat |-> least(fit(n))]
<1>1. ASSUME NEW n \in Nat
      PROVE  h[n] = IF n >= length THEN n ELSE h[n * 2]
  <2>1. CASE n >= length
    <3>1. IsLeast(fit(n), n)
      BY <2>1, OrbitHasIt
    <3>2. ASSUME NEW m, IsLeast(fit(n), m)
          PROVE  m = n
      <4>1. m \in Nat /\ m <= n /\ n <= m
        BY <3>1, <3>2 DEF Orbit
      <4> QED
        BY <4>1
    <3> HIDE DEF fit, IsLeast
    <3>3. IsLeast(fit(n), least(fit(n)))
      BY <3>1
    <3>4. least(fit(n)) = n
      BY <3>2, <3>3
    <3> QED
      BY <2>1, <3>4
  <2>2. CASE ~(n >= length)
    <3>1. n * 2 \in Nat
      OBVIOUS
    <3>2. n \notin fit(n)
      BY <2>2
    <3>3. fit(n) = fit(n * 2)
      BY <3>2, OrbitOfDouble
    <3>4. h[n] = least(fit(n)) /\ h[n * 2] = least(fit(n * 2))
      BY <3>1
    <3> HIDE DEF h, least, fit
    <3> QED
      BY <2>2, <3>3, <3>4
  <2> QED
    BY <2>1, <2>2
<1>2. h = [n \in Nat |-> h[n]]
  OBVIOUS
<1> HIDE DEF h
<1>3. h = [n \in Nat |-> IF n >= length THEN n ELSE h[n * 2]]
  BY <1>1, <1>2
<1>4. Doubles(h, length)
  BY <1>3 DEF Doubles
<1> QED
  BY <1>4

\* Doubling a capacity that is not 0 comes to one that holds the length.
LEMMA GrownFits ==
  ASSUME NEW capacity \in Nat \ {0}, NEW length \in Nat
  PROVE  /\ Grown(capacity, length) \in Nat
         /\ Grown(capacity, length) >= length /\ Grown(capacity, length) >= capacity
<1> DEFINE g == CHOOSE h : Doubles(h, length)
           Good(n) == g[n] \in Nat /\ g[n] >= length /\ g[n] >= n
           T == {n \in 0..length : n # 0 /\ ~Good(n)}
<1>1. Doubles(g, length)
  BY DoublesExists
<1>2. Grown(capacity, length) = g[capacity]
  BY DEF Grown, Doubles
<1> HIDE DEF g
<1>3. ASSUME NEW n \in Nat
      PROVE  g[n] = IF n >= length THEN n ELSE g[n * 2]
  BY <1>1 DEF Doubles
<1>4. ASSUME NEW n \in Nat, n >= length
      PROVE  Good(n)
  BY <1>3, <1>4
<1>5. T = {}
  <2> SUFFICES ASSUME T # {} PROVE FALSE
    OBVIOUS
  <2>1. PICK n \in T : \A m \in T : m <= n
    <3>1. T \in SUBSET (0..length)
      OBVIOUS
    <3> HIDE DEF T
    <3> QED
      BY <3>1, GreatestElement
  <2>2. n \in Nat /\ n # 0 /\ ~Good(n)
    OBVIOUS
  <2>3. ~(n >= length)
    BY <1>4, <2>2
  <2>4. g[n] = g[n * 2] /\ n * 2 \in Nat /\ n * 2 > n /\ n * 2 # 0
    BY <1>3, <2>2, <2>3
  <2>5. Good(n * 2)
    <3>1. CASE n * 2 >= length
      BY <1>4, <2>4, <3>1
    <3>2. CASE ~(n * 2 >= length)
      <4>1. n * 2 \in 0..length /\ ~(n * 2 <= n)
        BY <2>2, <2>4, <3>2
      <4>2. n * 2 \notin T
        BY <2>1, <4>1
      <4> QED
        BY <2>4, <4>1, <4>2
    <3> QED
      BY <3>1, <3>2
  <2> QED
    BY <2>2, <2>4, <2>5
<1>6. Good(capacity)
  <2>1. CASE capacity >= length
    BY <1>4, <2>1
  <2>2. CASE ~(capacity >= length)
    BY <1>5, <2>2
  <2> QED
    BY <2>1, <2>2
<1> QED
  BY <1>2, <1>6

\* A buffer whose bytes fit in its allocation.
Fits(b) == b \in Buffer /\ b.capacity # 0 /\ Len(b.data) <= b.capacity

\* append_codepoint writes one byte for the lead and one for each continuation.
LEMMA EncodedIsBytes ==
  ASSUME NEW c \in Int
  PROVE  /\ Continuations(c) \in 0..3
         /\ Encoded(c) \in Seq(0..255) /\ Len(Encoded(c)) = Continuations(c) + 1
<1> DEFINE n == Continuations(c)
           byte(i) == IF i = 1 THEN (LeadBits(n) + Shifted(c, n)) % 256
                      ELSE 128 + (Shifted(c, n + 1 - i) % 64)
<1>1. n \in 0..3
  BY DEF Continuations
<1>2. ASSUME NEW k \in 0..3
      PROVE  Shifted(c, k) \in Int
  <2>1. c \div 64 \in Int /\ c \div 4096 \in Int /\ c \div 262144 \in Int
    OBVIOUS
  <2> QED
    BY <2>1 DEF Shifted
<1>3. LeadBits(n) \in Int
  BY <1>1 DEF LeadBits
<1>4. ASSUME NEW i \in 1..n + 1
      PROVE  byte(i) \in 0..255
  <2>1. CASE i = 1
    <3>1. Shifted(c, n) \in Int
      BY <1>1, <1>2
    <3> DEFINE x == LeadBits(n) + Shifted(c, n)
    <3>2. x \in Int
      BY <1>3, <3>1
    <3> HIDE DEF x
    <3>3. x % 256 \in 0..255
      BY <3>2
    <3> QED
      BY <2>1, <3>3 DEF x
  <2>2. CASE i # 1
    <3> DEFINE x == Shifted(c, n + 1 - i)
    <3>1. n + 1 - i \in 0..3
      BY <1>1, <2>2
    <3>2. x \in Int
      BY <1>2, <3>1
    <3> HIDE DEF x
    <3>3. 128 + (x % 64) \in 0..255
      BY <3>2
    <3> QED
      BY <2>2, <3>3 DEF x
  <2> QED
    BY <2>1, <2>2
<1>5. Encoded(c) = [i \in 1..n + 1 |-> byte(i)]
  BY DEF Encoded
<1> HIDE DEF byte, n
<1>6. n + 1 \in Nat
  BY <1>1
<1>7. Encoded(c) \in [1..n + 1 -> 0..255]
  BY <1>4, <1>5
<1>8. Encoded(c) \in Seq(0..255) /\ Len(Encoded(c)) = n + 1
  <2>1. Encoded(c) \in Seq(0..255)
    BY Zenon, <1>6, <1>7, SeqDef
  <2>2. DOMAIN Encoded(c) = 1..n + 1
    BY <1>7
  <2> QED
    BY <1>6, <2>1, <2>2, LenProperties
<1> QED
  BY <1>1, <1>8 DEF n

\* Every append stays within the allocation (gumbo_string_buffer_append_codepoint).
LEMMA AppendFits ==
  ASSUME NEW b, Fits(b), NEW c \in Int
  PROVE  Fits(AppendCodepoint(b, c))
<1> DEFINE n == Continuations(c) + 1
           room == Grown(b.capacity, Len(b.data) + n)
           bytes == Encoded(c)
<1>1. n \in Nat /\ bytes \in Seq(0..255) /\ Len(bytes) = n
  BY EncodedIsBytes
<1>2. b.data \in Seq(0..255) /\ b.capacity \in Nat \ {0} /\ Len(b.data) \in Nat
  BY LenProperties DEF Fits, Buffer
<1>3. room \in Nat /\ room >= Len(b.data) + n /\ room # 0
  <2>1. Len(b.data) + n \in Nat
    BY <1>1, <1>2
  <2>2. room \in Nat /\ room >= Len(b.data) + n /\ room >= b.capacity
    BY <1>2, <2>1, GrownFits
  <2> QED
    BY <1>2, <2>2
<1>4. AppendCodepoint(b, c) = [[b EXCEPT !.capacity = room] EXCEPT !.data = @ \o bytes]
  BY DEF AppendCodepoint, Written, Resized
<1> HIDE DEF n, room, bytes
<1>5. b \in Buffer
  BY DEF Fits
<1>6. AppendCodepoint(b, c) = [data |-> b.data \o bytes, capacity |-> room]
  BY <1>4, <1>5 DEF Buffer
<1>7. b.data \o bytes \in Seq(0..255) /\ Len(b.data \o bytes) = Len(b.data) + n
  BY <1>1, <1>2, ConcatProperties
<1> QED
  BY <1>3, <1>6, <1>7 DEF Fits, Buffer

\* A new buffer and a cleared one hold nothing.
LEMMA NewBufferFits ==
  /\ Fits(NewBuffer)
  /\ \A b : Fits(b) => Fits(Cleared(b))
<1>1. <<>> \in Seq(0..255) /\ Len(<<>>) = 0
  OBVIOUS
<1>2. Fits(NewBuffer)
  BY <1>1 DEF Fits, NewBuffer, Buffer, DefaultSize
<1>3. ASSUME NEW b, Fits(b)
      PROVE  Fits(Cleared(b))
  <2>1. Cleared(b) = [data |-> <<>>, capacity |-> b.capacity]
    BY <1>3 DEF Cleared, Fits, Buffer
  <2> QED
    BY <1>1, <1>3, <2>1 DEF Fits, Buffer
<1> QED
  BY <1>2, <1>3

(***************************************************************************)
(* The iterator: what it reads is a code point or the end.                 *)
(***************************************************************************)

\* Between two bytes of a sequence: what the bytes still to come can make of the code point.
Promising(d) ==
  /\ d.code \in Nat
  /\ d.state.left \in 1..3 /\ d.state.low \in 128..191 /\ d.state.high \in 128..191
  /\ d.state.left = 1 => d.code * 64 + (d.state.high - 128) <= 1114111
  /\ d.state.left = 2 => d.code * 64 + (d.state.high - 128) <= 17407
  /\ d.state.left = 3 => d.code * 64 + (d.state.high - 128) <= 271

\* The code points, without the interval.
LEMMA CodePointsAre == \A c : c \in CodePoints <=> c \in Int /\ 0 <= c /\ c <= 1114111
<1>1. LastCodePoint = 1114111
  BY SMTT(30) DEF LastCodePoint
<1>2. LastCodePoint \in Int
  BY SMTT(30) DEF LastCodePoint
<1>3. \A c : c \in CodePoints <=> c \in Int /\ 0 <= c /\ c <= LastCodePoint
  BY <1>2 DEF CodePoints
<1> QED
  BY <1>1, <1>3

Ended(d) == d.state \in {ACCEPT, REJECT}

\* The first byte of a sequence (decode).
LEMMA FirstByteIs ==
  ASSUME NEW byte \in 1..255
  PROVE  LET d == Decoded(Begun, byte)
         IN  /\ d.state = ACCEPT => d.code \in CodePoints
             /\ ~Ended(d) => Promising(d)
<1> DEFINE d == Decoded(Begun, byte)
<1>1. d.state = AfterFirst(byte) /\ d.code = IF byte < 128 THEN byte ELSE FirstBits(byte)
  <2>1. ASSUME NEW state, state = ACCEPT
        PROVE  NextState(state, byte) = AfterFirst(byte)
    BY <2>1 DEF NextState
  <2>2. Begun.state = ACCEPT
    BY DEF Begun
  <2>3. NextState(Begun.state, byte) = AfterFirst(byte)
    BY <2>1, <2>2
  <2> QED
    BY <2>2, <2>3 DEF Decoded
<1> HIDE DEF d
<1>2. CASE byte \in 0..127
  <2>1. d.state = ACCEPT /\ d.code = byte
    BY <1>1, <1>2 DEF AfterFirst
  <2>2. byte \in CodePoints
    BY SMTT(30), CodePointsAre
  <2> QED
    BY <2>1, <2>2 DEF Ended, d
<1>3. CASE byte \in 194..223
  <2>1. d.state = Expecting(1, 128, 191) /\ d.code = byte % 64
    BY <1>1, <1>3 DEF AfterFirst, FirstBits
  <2>2. byte % 64 \in 0..63
    OBVIOUS
  <2> QED
    BY SMTT(30), <2>1, <2>2 DEF Ended, Promising, Expecting, ACCEPT, d
<1>4. CASE byte \in 224..239
  <2>1. d.state \in {Expecting(2, 160, 191), Expecting(2, 128, 159), Expecting(2, 128, 191)} /\ d.code = byte % 16
    BY <1>1, <1>4 DEF AfterFirst, FirstBits
  <2>2. byte % 16 \in 0..15
    OBVIOUS
  <2> QED
    BY SMTT(30), <2>1, <2>2 DEF Ended, Promising, Expecting, ACCEPT, d
<1>5. CASE byte \in 240..243
  <2>1. d.state \in {Expecting(3, 144, 191), Expecting(3, 128, 191)} /\ d.code = byte % 8
    BY <1>1, <1>5 DEF AfterFirst, FirstBits
  <2>2. byte % 8 \in 0..3
    BY <1>5
  <2> QED
    BY SMTT(30), <2>1, <2>2 DEF Ended, Promising, Expecting, ACCEPT, d
<1>6. CASE byte = 244
  <2>1. d.state = Expecting(3, 128, 143) /\ d.code = 4
    BY <1>1, <1>6 DEF AfterFirst, FirstBits
  <2> QED
    BY SMTT(30), <2>1 DEF Ended, Promising, Expecting, ACCEPT, d
<1>7. CASE byte \in 128..193 \/ byte \in 245..255
  <2>1. d.state = REJECT
    BY <1>1, <1>7 DEF AfterFirst
  <2> QED
    BY <2>1 DEF Ended, ACCEPT, REJECT, d
<1> QED
  BY <1>2, <1>3, <1>4, <1>5, <1>6, <1>7

\* Every other byte.
LEMMA NextByteIs ==
  ASSUME NEW d, Promising(d), NEW byte \in 1..255
  PROVE  LET e == Decoded(d, byte)
         IN  /\ e.state = ACCEPT => e.code \in CodePoints
             /\ ~Ended(e) => Promising(e) /\ e.state.left = d.state.left - 1
<1> DEFINE e == Decoded(d, byte)
           inRange == byte \in d.state.low..d.state.high
<1>1. d.state # ACCEPT
  BY SMTT(30) DEF Promising, ACCEPT
<1>2. e.state = (IF inRange THEN IF d.state.left = 1 THEN ACCEPT ELSE Expecting(d.state.left - 1, 128, 191) ELSE REJECT)
      /\ e.code = d.code * 64 + (byte % 64)
  <2>1. ASSUME NEW state, state # ACCEPT
        PROVE  NextState(state, byte) =
                 IF byte \in state.low..state.high
                 THEN IF state.left = 1 THEN ACCEPT ELSE Expecting(state.left - 1, 128, 191)
                 ELSE REJECT
    BY <2>1 DEF NextState
  <2>2. NextState(d.state, byte) =
          IF inRange THEN IF d.state.left = 1 THEN ACCEPT ELSE Expecting(d.state.left - 1, 128, 191) ELSE REJECT
    BY <1>1, <2>1
  <2> QED
    BY <1>1, <2>2 DEF Decoded
<1> HIDE DEF e
<1>3. CASE ~inRange
  BY <1>2, <1>3 DEF Ended, ACCEPT, REJECT, e
<1>4. CASE inRange
  <2>1. byte \in 128..191 /\ byte <= d.state.high
    BY SMTT(30), <1>4 DEF Promising
  <2>2. byte % 64 = byte - 128
    BY <2>1
  <2>3. d.code * 64 \in Nat
    BY SMTT(30) DEF Promising
  <2>4. e.code \in Nat /\ e.code <= d.code * 64 + (d.state.high - 128)
    BY SMTT(30), <1>2, <2>1, <2>2, <2>3 DEF Promising
  <2>5. CASE d.state.left = 1
    <3>1. e.state = ACCEPT
      BY <1>2, <1>4, <2>5
    <3>2. e.code <= 1114111
      BY SMTT(30), <2>3, <2>4, <2>5 DEF Promising
    <3>3. e.code \in CodePoints
      BY SMTT(30), <2>4, <3>2, CodePointsAre
    <3> QED
      BY <3>1, <3>3 DEF Ended, e
  <2>6. CASE d.state.left = 2
    <3>1. e.state = Expecting(1, 128, 191)
      BY <1>2, <1>4, <2>6
    <3>2. e.code <= 17407
      BY SMTT(30), <2>3, <2>4, <2>6 DEF Promising
    <3> QED
      BY SMTT(30), <2>4, <2>6, <3>1, <3>2 DEF Promising, Expecting, ACCEPT, e
  <2>7. CASE d.state.left = 3
    <3>1. e.state = Expecting(2, 128, 191)
      BY <1>2, <1>4, <2>7
    <3>2. e.code <= 271
      BY SMTT(30), <2>3, <2>4, <2>7 DEF Promising
    <3> QED
      BY SMTT(30), <2>4, <2>7, <3>1, <3>2 DEF Promising, Expecting, ACCEPT, e
  <2> QED
    BY SMTT(30), <2>5, <2>6, <2>7 DEF Promising
<1> QED
  BY <1>3, <1>4

\* The bytes of the source.
LEMMA SourceByte ==
  ASSUME source \in Seq(1..255), NEW start \in 1..Len(source), NEW k \in 0..Rest(start) - 1
  PROVE  source[start + k] \in 1..255
<1>1. start + k \in 1..Len(source)
  BY DEF Rest, Least, MaxWidth, End
<1> QED
  BY <1>1, ElementOfSeq

\* How many bytes the loop of read_char may look at.
LEMMA RestIs ==
  ASSUME source \in Seq(1..255), NEW start \in 1..Len(source)
  PROVE  Rest(start) \in 1..4 /\ (Rest(start) = 4 \/ Rest(start) = End - start)
BY DEF Rest, Least, MaxWidth, End

\* Each prefix goes on where the one before it stopped.
LEMMA PrefixSteps ==
  ASSUME source \in Seq(1..255), NEW start \in 1..Len(source)
  PROVE  /\ Prefix(start)[1] = Decoded(Begun, source[start])
         /\ \A n \in 1..3 : n + 1 <= Rest(start) =>
              Prefix(start)[n + 1] = Decoded(Prefix(start)[n], source[start + n])
<1> DEFINE one == Decoded(Begun, source[start])
           two == Decoded(one, source[start + 1])
           three == Decoded(two, source[start + 2])
           four == Decoded(three, source[start + 3])
<1>1. Prefix(start) =
        [n \in 1..Rest(start) |-> CASE n = 1 -> one [] n = 2 -> two [] n = 3 -> three [] n = 4 -> four]
  BY DEF Prefix
<1>2. Rest(start) \in 1..4
  BY RestIs
<1>3. /\ two = Decoded(one, source[start + 1])
      /\ three = Decoded(two, source[start + 2])
      /\ four = Decoded(three, source[start + 3])
  OBVIOUS
<1>4. one = Decoded(Begun, source[start])
  OBVIOUS
<1> HIDE DEF one, two, three, four
<1>5. Prefix(start)[1] = one
  BY <1>1, <1>2
<1>6. Rest(start) >= 2 => Prefix(start)[2] = two
  BY <1>1, <1>2
<1>7. Rest(start) >= 3 => Prefix(start)[3] = three
  BY <1>1, <1>2
<1>8. Rest(start) >= 4 => Prefix(start)[4] = four
  BY <1>1, <1>2
<1>9. ASSUME NEW n \in 1..3, n + 1 <= Rest(start)
      PROVE  Prefix(start)[n + 1] = Decoded(Prefix(start)[n], source[start + n])
  <2>1. CASE n = 1
    BY <1>2, <1>3, <1>5, <1>6, <1>9, <2>1
  <2>2. CASE n = 2
    BY <1>2, <1>3, <1>6, <1>7, <1>9, <2>2
  <2>3. CASE n = 3
    BY <1>2, <1>3, <1>7, <1>8, <1>9, <2>3
  <2> QED
    BY <2>1, <2>2, <2>3
<1> QED
  BY <1>4, <1>5, <1>9

\* What a prefix says that no shorter one has ended, when it is n bytes long.
Read4(d, n) ==
  /\ d.state = ACCEPT => d.code \in CodePoints
  /\ ~Ended(d) => Promising(d) /\ d.state.left <= 4 - n

\* Up to the first end of a sequence, every prefix is a beginning of a character (decode).
LEMMA PrefixIsPromising ==
  ASSUME source \in Seq(1..255), NEW start \in 1..Len(source), NEW n \in 1..Rest(start),
         \A m \in 1..n - 1 : m \notin Stops(start)
  PROVE  Read4(Prefix(start)[n], n)
<1>1. Rest(start) \in 1..4 /\ n \in Nat
  BY RestIs
<1>2. ASSUME NEW m \in 1..n - 1
      PROVE  ~Ended(Prefix(start)[m])
  <2>1. m \in 1..Rest(start)
    BY <1>1
  <2> QED
    BY <2>1 DEF Stops, Ended
<1>3. Read4(Prefix(start)[1], 1)
  <2>1. source[start] \in 1..255
    BY ElementOfSeq
  <2> DEFINE d == Decoded(Begun, source[start])
  <2>2. /\ d.state = ACCEPT => d.code \in CodePoints
        /\ ~Ended(d) => Promising(d)
    BY <2>1, FirstByteIs
  <2>3. Prefix(start)[1] = d
    BY PrefixSteps
  <2> HIDE DEF d
  <2> QED
    BY SMTT(30), <2>2, <2>3 DEF Read4, Promising
<1>4. ASSUME NEW k \in 1..3, k + 1 <= n, Read4(Prefix(start)[k], k)
      PROVE  Read4(Prefix(start)[k + 1], k + 1)
  <2>1. k \in 1..n - 1 /\ k + 1 <= Rest(start) /\ k \in 0..Rest(start) - 1
    BY <1>1, <1>4
  <2> DEFINE d == Prefix(start)[k]
             byte == source[start + k]
             e == Decoded(d, byte)
  <2>2. Promising(d) /\ d.state.left <= 4 - k
    BY <1>2, <1>4, <2>1 DEF Read4
  <2>3. byte \in 1..255
    BY <2>1, SourceByte
  <2>4. Prefix(start)[k + 1] = e
    BY <2>1, PrefixSteps
  <2> HIDE DEF d, byte
  <2>5. /\ e.state = ACCEPT => e.code \in CodePoints
        /\ ~Ended(e) => Promising(e) /\ e.state.left = d.state.left - 1
    BY <2>2, <2>3, NextByteIs
  <2> HIDE DEF e
  <2>6. d.state.left \in 1..3
    BY SMTT(30), <2>2 DEF Promising
  <2> QED
    BY <2>2, <2>4, <2>5, <2>6 DEF Read4
<1>5. CASE n = 1
  BY <1>3, <1>5
<1>6. CASE n = 2
  BY <1>3, <1>4, <1>6
<1>7. CASE n = 3
  BY <1>3, <1>4, <1>7
<1>8. CASE n = 4
  BY <1>3, <1>4, <1>8
<1> QED
  BY <1>1, <1>5, <1>6, <1>7, <1>8

\* A sequence ends within four bytes.
LEMMA FourBytesEnd ==
  ASSUME source \in Seq(1..255), NEW start \in 1..Len(source), Stops(start) = {}
  PROVE  End - start \in 0..3
<1>1. Rest(start) # 4
  <2> SUFFICES ASSUME Rest(start) = 4 PROVE FALSE
    OBVIOUS
  <2>1. Read4(Prefix(start)[4], 4)
    BY PrefixIsPromising
  <2>2. ~Ended(Prefix(start)[4])
    BY DEF Stops, Ended
  <2> QED
    BY SMTT(30), <2>1, <2>2 DEF Read4, Promising
<1> QED
  BY <1>1, RestIs

-----------------------------------------------------------------------------
Character(c) == c = EndOfInput \/ c \in CodePoints
Width(w) == w \in 0..4
ErrorSet == [type: ErrorTypes, offset: Nat]

\* What read_char leaves: a character of a possible width, with the positions as they were, or one
\* further, and errors at the place it stands on.
Typed(it) == Character(it.current) /\ Width(it.width) /\ it.pos \in Position /\ it.markPos \in Position

LEMMA ReadIsTyped ==
  ASSUME NEW it \in IteratorSet, it.pos \in Position, it.markPos \in Position,
         NEW c, Character(c), NEW w, Width(w)
  PROVE  Typed(Read(it, c, w))
BY DEF Read, IteratorSet, Typed

LEMMA ReportsAreErrors ==
  ASSUME NEW it, it.pos \in Position, NEW type \in ErrorTypes
  PROVE  Reports(it, type) \subseteq ErrorSet
BY DEF Reports, ErrorSet, Position

LEMMA SkipKeepsPosition ==
  ASSUME NEW it \in IteratorSet, it.pos \in Position, it.markPos \in Position
  PROVE  LET r == SkipFoldedCR(it) IN r.pos \in Position /\ r.markPos \in Position
<1> DEFINE moved == [it.pos EXCEPT !.offset = @ + 1]
<1>1. moved \in Position
  BY DEF Position
<1>2. CASE FoldedCR(it)
  <2>1. SkipFoldedCR(it) = [it EXCEPT !.start = it.start + 1, !.pos = moved]
    BY <1>2 DEF SkipFoldedCR, IteratorSet
  <2> HIDE DEF moved
  <2>2. SkipFoldedCR(it).pos = moved /\ SkipFoldedCR(it).markPos = it.markPos
    BY <2>1 DEF IteratorSet
  <2> QED
    BY <1>1, <2>2
<1>3. CASE ~FoldedCR(it)
  BY <1>3 DEF SkipFoldedCR
<1> QED
  BY <1>2, <1>3

\* read_char finds a code point or the end, in at most four bytes.
LEMMA ReadCharIsTyped ==
  ASSUME source \in Seq(1..255), NEW it \in IteratorSet, Placed(it),
         it.pos \in Position, it.markPos \in Position
  PROVE  LET r == ReadChar(it) IN Typed(r.iter) /\ r.errors \subseteq ErrorSet
<1>e. End \in Nat /\ End = Len(source) + 1
  BY LenProperties DEF End
<1>s. it.start \in 1..End
  BY DEF Placed
<1>c. Character(EndOfInput) /\ Character(Replacement) /\ Character(LF)
  BY SMTT(30), CodePointsAre DEF Character, Replacement, LF
<1>w. Width(0) /\ Width(1)
  BY DEF Width
<1>t. "utf8-invalid" \in ErrorTypes /\ "utf8-truncated" \in ErrorTypes
  BY DEF ErrorTypes
<1>1. CASE it.start >= End
  <2>1. ReadChar(it) = [iter |-> Read(it, EndOfInput, 0), errors |-> {}]
    BY <1>1 DEF ReadChar
  <2> QED
    BY <1>c, <1>w, <2>1, ReadIsTyped
<1>2. CASE ~(it.start >= End) /\ Stops(it.start) = {}
  <2>1. ReadChar(it) = [iter |-> Read(it, Replacement, End - it.start), errors |-> Reports(it, "utf8-truncated")]
    BY <1>2 DEF ReadChar
  <2>2. it.start \in 1..Len(source)
    BY <1>2, <1>e, <1>s
  <2>3. Width(End - it.start)
    BY <1>2, <2>2, FourBytesEnd DEF Width
  <2> QED
    BY <1>c, <1>t, <2>1, <2>3, ReadIsTyped, ReportsAreErrors
<1>3. CASE ~(it.start >= End) /\ Stops(it.start) # {}
  <2> DEFINE n == FirstStop(it.start)
             code == Prefix(it.start)[n].code
  <2>1. it.start \in 1..Len(source)
    BY <1>3, <1>e, <1>s
  <2>2. n \in Stops(it.start) /\ \A m \in Stops(it.start) : n <= m
    BY <1>3, <2>1, FirstStopIsLeast
  <2>3. n \in 1..Rest(it.start) /\ Rest(it.start) \in 1..4
    BY <2>1, <2>2, RestIs DEF Stops
  <2>4. \A m \in 1..n - 1 : m \notin Stops(it.start)
    BY <2>2, <2>3
  <2> HIDE DEF n
  <2>5. Read4(Prefix(it.start)[n], n)
    BY <2>1, <2>3, <2>4, PrefixIsPromising
  <2>6. Width(n) /\ Width(RejectedWidth(n))
    BY <2>3 DEF Width, RejectedWidth
  <2>7. CASE Prefix(it.start)[n].state = ACCEPT
    <3>1. ReadChar(it) = ReadAccepted(it, n, code)
      BY <1>3, <2>7 DEF ReadChar, n
    <3>2. Character(code)
      BY <2>5, <2>7 DEF Read4, Character
    <3> HIDE DEF code
    <3>3. CASE source[it.start] = CR
      <4>1. ReadChar(it) = [iter |-> Read(SkipFoldedCR(it), LF, n), errors |-> {}]
        BY <3>1, <3>3 DEF ReadAccepted
      <4>2. SkipFoldedCR(it) \in IteratorSet
        <5>1. CASE FoldedCR(it)
          BY <1>e, <5>1, SkipStaysPlaced
        <5>2. CASE ~FoldedCR(it)
          BY <5>2 DEF SkipFoldedCR
        <5> QED
          BY <5>1, <5>2
      <4>3. SkipFoldedCR(it).pos \in Position /\ SkipFoldedCR(it).markPos \in Position
        BY SkipKeepsPosition
      <4>4. Typed(Read(SkipFoldedCR(it), LF, n))
        BY <1>c, <2>6, <4>2, <4>3, ReadIsTyped
      <4> QED
        BY <4>1, <4>4
    <3>4. CASE source[it.start] # CR /\ IsInvalidCodePoint(code)
      <4>1. ReadChar(it) = [iter |-> Read(it, Replacement, n), errors |-> Reports(it, "utf8-invalid")]
        BY <3>1, <3>4 DEF ReadAccepted
      <4> QED
        BY <1>c, <1>t, <2>6, <4>1, ReadIsTyped, ReportsAreErrors
    <3>5. CASE source[it.start] # CR /\ ~IsInvalidCodePoint(code)
      <4>1. ReadChar(it) = [iter |-> Read(it, code, n), errors |-> {}]
        BY <3>1, <3>5 DEF ReadAccepted
      <4> QED
        BY <2>6, <3>2, <4>1, ReadIsTyped
    <3> QED
      BY <3>3, <3>4, <3>5
  <2>8. CASE Prefix(it.start)[n].state # ACCEPT
    <3>1. ReadChar(it) = [iter |-> Read(it, Replacement, RejectedWidth(n)), errors |-> Reports(it, "utf8-invalid")]
      BY <1>3, <2>8 DEF ReadChar, n
    <3> QED
      BY <1>c, <1>t, <2>6, <3>1, ReadIsTyped, ReportsAreErrors
  <2> QED
    BY <2>7, <2>8
<1> QED
  BY <1>1, <1>2, <1>3

Reference == [hex: BOOLEAN, code: Int, left: Nat, first: Int, second: Int, ok: BOOLEAN]

\* The type invariant with what it needs to be kept: the bounds of the iterator, and that a match
\* has a character left while it is consumed.
TInv ==
  /\ IInv
  /\ Typed(iter) /\ errors \subseteq ErrorSet
  /\ context \in Contexts /\ stage \in Stages
  /\ ref \in Reference /\ (stage = "match" => ref.left # 0)
  /\ Fits(buffer)

-----------------------------------------------------------------------------
LEMMA QuotientIsNat == \A a \in Nat, b \in Nat \ {0} : a \div b \in Nat
OBVIOUS

\* utf8iterator_next moves to a position of the page.
LEMMA NextCharIsTyped ==
  ASSUME source \in Seq(1..255), NEW it \in IteratorSet, InBounds(it), Typed(it)
  PROVE  LET r == NextChar(it) IN Typed(r.iter) /\ r.errors \subseteq ErrorSet
<1> DEFINE moved == [it EXCEPT !.start = it.start + it.width, !.pos = UpdatedPosition(it)]
<1>1. UpdatedPosition(it) \in Position
  <2>1. it.pos.line \in Nat /\ it.pos.column \in Nat /\ it.pos.offset \in Nat /\ it.width \in Nat
    BY DEF Typed, Position, Width
  <2>2. (it.pos.column \div TabStop + 1) * TabStop \in Nat
    <3>1. TabStop \in Nat /\ TabStop # 0
      BY TabStopAssumption
    <3>2. it.pos.column \div TabStop \in Nat
      BY <2>1, <3>1, QuotientIsNat
    <3> QED
      BY <3>1, <3>2
  <2> QED
    BY <2>1, <2>2 DEF UpdatedPosition, Position
<1>2. UpdatedPosition(it).offset = it.pos.offset + it.width
  BY DEF UpdatedPosition
<1>3. it.start + it.width \in Nat /\ UpdatedPosition(it) \in [line: Int, column: Int, offset: Int]
  BY <1>1 DEF IteratorSet, Position
<1>4. moved \in IteratorSet /\ moved.pos = UpdatedPosition(it) /\ moved.markPos = it.markPos
      /\ moved.start = it.start + it.width /\ moved.mark = it.mark
  BY <1>3 DEF IteratorSet
<1> HIDE DEF moved
<1>5. Placed(moved)
  <2>1. End \in Nat
    BY LenProperties DEF End
  <2>2. it.start \in Nat /\ it.width \in Nat /\ it.start >= 1
    BY <2>1 DEF IteratorSet, InBounds, Placed
  <2>3. moved.start \in 1..End
    BY <1>4, <2>1, <2>2 DEF InBounds
  <2>4. it.pos.offset = it.start - 1
    BY DEF InBounds, Placed
  <2>5. moved.pos.offset = moved.start - 1
    BY <1>2, <1>4, <2>2, <2>4
  <2> QED
    BY <1>4, <2>3, <2>5 DEF InBounds, Placed
<1>6. moved.pos \in Position /\ moved.markPos \in Position
  BY <1>1, <1>4 DEF Typed
<1>7. NextChar(it) = ReadChar(moved)
  BY DEF NextChar, moved
<1> QED
  BY <1>4, <1>5, <1>6, <1>7, ReadCharIsTyped

\* The steps that move the iterator, as the actions take them.
LEMMA AdvanceIsTyped ==
  ASSUME TInv, NEW reported \in SUBSET ErrorSet, Advance(reported)
  PROVE  Typed(iter') /\ errors' \subseteq ErrorSet
<1>1. iter' = NextChar(iter).iter /\ errors' = errors \union NextChar(iter).errors \union reported
  BY DEF Advance, Becomes
<1>2. Typed(NextChar(iter).iter) /\ NextChar(iter).errors \subseteq ErrorSet
  BY NextCharIsTyped DEF TInv, IInv
<1> QED
  BY <1>1, <1>2 DEF TInv

LEMMA MarkAndAdvanceIsTyped ==
  ASSUME TInv, MarkAndAdvance
  PROVE  Typed(iter') /\ errors' \subseteq ErrorSet
<1> DEFINE m == Marked(iter)
<1>1. iter' = NextChar(m).iter /\ errors' = errors \union NextChar(m).errors \union {}
  BY DEF MarkAndAdvance, Becomes
<1>2. m \in IteratorSet /\ InBounds(m)
  BY MarkedStaysInBounds DEF TInv, IInv
<1>3. Typed(m)
  BY DEF TInv, IInv, Typed, Marked, IteratorSet
<1> HIDE DEF m
<1>4. Typed(NextChar(m).iter) /\ NextChar(m).errors \subseteq ErrorSet
  BY <1>2, <1>3, NextCharIsTyped DEF TInv, IInv
<1> QED
  BY <1>1, <1>4 DEF TInv

LEMMA ResetIsTyped ==
  ASSUME TInv, NEW reported \in SUBSET ErrorSet, Reset(reported), iter.mark # NoMark
  PROVE  Typed(iter') /\ errors' \subseteq ErrorSet
<1> DEFINE back == [iter EXCEPT !.start = iter.mark, !.pos = iter.markPos]
<1>0. iter \in IteratorSet /\ InBounds(iter) /\ Typed(iter) /\ source \in Seq(1..255)
  BY DEF TInv, IInv
<1>1. ResetToMark(iter) = ReadChar(back)
  BY DEF ResetToMark
<1>2. back \in IteratorSet /\ Placed(back)
  BY <1>0 DEF InBounds, Placed, IteratorSet
<1>3. back.pos \in Position /\ back.markPos \in Position
  BY <1>0 DEF Typed, IteratorSet
<1> HIDE DEF back
<1>4. Typed(ReadChar(back).iter) /\ ReadChar(back).errors \subseteq ErrorSet
  BY <1>0, <1>2, <1>3, ReadCharIsTyped
<1>5. iter' = ReadChar(back).iter /\ errors' = errors \union ReadChar(back).errors \union reported
  BY <1>1 DEF Reset, Becomes
<1> QED
  BY <1>4, <1>5 DEF TInv

\* An error at the mark is an error.
LEMMA AtMarkIsError ==
  ASSUME TInv, NEW type \in ErrorTypes
  PROVE  AtMark(type) \in SUBSET ErrorSet
<1>1. iter.markPos \in Position
  BY DEF TInv, Typed
<1>2. iter.markPos.offset \in Nat
  BY <1>1 DEF Position
<1> QED
  BY <1>2 DEF AtMark, ErrorSet

-----------------------------------------------------------------------------
\* The number of a reference is an integer, whatever it overflowed to (parse_digit, handle_replacement).
LEMMA AccumulatedIsInt ==
  ASSUME NEW code \in Int, NEW base \in {10, 16}, NEW digit \in Int
  PROVE  Accumulated(code, base, digit) \in Int
<1> DEFINE low == (code % 65536) * base + digit
           high == (code \div 65536) * base + (low \div 65536)
<1>1. low \in Int
  <2>1. code % 65536 \in Int
    OBVIOUS
  <2> QED
    BY <2>1
<1>2. high \in Int
  <2>1. code \div 65536 \in Int
    OBVIOUS
  <2> HIDE DEF low
  <2>2. low \div 65536 \in Int
    BY <1>1
  <2> QED
    BY <2>1, <2>2
<1> HIDE DEF low, high
<1>3. (((high + 32768) % 65536) - 32768) * 65536 + (low % 65536) \in Int
  BY <1>1, <1>2
<1> QED
  BY <1>3 DEF Accumulated, low, high

LEMMA DigitIsInt == \A c, hex : DigitOf(c, hex) \in Int
<1> SUFFICES ASSUME NEW c, NEW hex PROVE DigitOf(c, hex) \in Int
  OBVIOUS
<1>1. CASE c \in Digits
  BY <1>1 DEF DigitOf, Digits
<1>2. CASE c \notin Digits /\ hex /\ c \in 97..102
  BY <1>2 DEF DigitOf
<1>3. CASE c \notin Digits /\ hex /\ c \notin 97..102 /\ c \in 65..70
  BY <1>3 DEF DigitOf
<1>4. CASE c \notin Digits /\ ~(hex /\ c \in 97..102) /\ ~(hex /\ c \in 65..70)
  BY <1>4 DEF DigitOf
<1> QED
  BY <1>1, <1>2, <1>3, <1>4

LEMMA NumericValueIsInt ==
  ASSUME NEW code \in Int
  PROVE  NumericValue(code) \in Int
<1>1. C1Replacements \in Seq(Int) /\ Len(C1Replacements) = 32
  BY DEF C1Replacements
<1>2. ASSUME code \in 128..159
      PROVE  C1Replacements[code - 127] \in Int
  <2>1. code - 127 \in 1..32
    BY <1>2
  <2> QED
    BY <1>1, <2>1, ElementOfSeq
<1>3. Replacement \in Int /\ CR \in Int
  BY DEF Replacement, CR
<1>4. CASE IsReplaced(code)
  <2>1. ReplacementOf(code) \in Int
    <3>1. CASE code = 0
      BY <1>3, <3>1 DEF ReplacementOf
    <3>2. CASE code = CR
      BY <1>3, <3>2 DEF ReplacementOf, CR
    <3>3. CASE code \in 128..159
      BY <1>2, <3>3 DEF ReplacementOf, CR
    <3> QED
      BY <1>4, <3>1, <3>2, <3>3 DEF IsReplaced
  <2> QED
    BY <1>4, <2>1 DEF NumericValue
<1>5. CASE ~IsReplaced(code)
  BY <1>3, <1>5 DEF NumericValue
<1> QED
  BY <1>4, <1>5

\* The longest match is an entry of the table, and its name is not empty (consume_named_ref).
LEMMA LongestIsAnEntry ==
  ASSUME IInv, Matches # {}
  PROVE  /\ Longest \in NamedReferences
         /\ Len(Longest.name) \in Nat /\ Len(Longest.name) # 0
<1> DEFINE lengths == {Len(e.name) : e \in Matches}
<1>1. End \in Nat /\ iter.start \in Nat
  BY LenProperties DEF IInv, IteratorSet, End
<1>2. ASSUME NEW e \in NamedReferences
      PROVE  Len(e.name) \in Nat /\ Len(e.name) # 0
  <2>1. e.name \in Seq(1..255) /\ e.name # <<>>
    BY NamedReferencesAssumption
  <2> QED
    BY <2>1, EmptySeq, LenProperties
<1>3. ASSUME NEW e \in Matches
      PROVE  e \in NamedReferences /\ Len(e.name) \in 0..End
  <2>1. e \in NamedReferences /\ iter.start + Len(e.name) <= End
    BY DEF Matches, Upcoming
  <2> QED
    BY <1>1, <1>2, <2>1
<1>4. lengths \in SUBSET (0..End) /\ lengths # {}
  BY <1>3
<1> HIDE DEF lengths
<1>5. PICK x \in lengths : \A y \in lengths : y <= x
  BY <1>1, <1>4, GreatestElement
<1>6. \E e \in Matches : \A f \in Matches : Len(f.name) <= Len(e.name)
  BY <1>5 DEF lengths
<1>7. Longest \in Matches
  BY <1>6 DEF Longest
<1> QED
  BY <1>2, <1>3, <1>7

\* NoRef is what consume_char_ref starts from and what it gives up with.
LEMMA NoRefIsReference ==
  /\ NoRef \in Reference
  /\ \A ok \in BOOLEAN : [NoRef EXCEPT !.ok = ok] \in Reference
<1>1. NoRef \in Reference
  <2>1. -1 \in Int /\ 0 \in Nat /\ 0 \in Int /\ FALSE \in BOOLEAN /\ TRUE \in BOOLEAN
    OBVIOUS
  <2> QED
    BY <2>1 DEF NoRef, Reference, NoChar
<1>2. ASSUME NEW ok \in BOOLEAN
      PROVE  [NoRef EXCEPT !.ok = ok] \in Reference
  BY <1>1 DEF Reference
<1> QED
  BY <1>1, <1>2

\* What the steps of consume_char_ref leave: the source, the reader and the buffer as they are.
Settled(r, s) == r \in Reference /\ s \in Stages /\ (s = "match" => r.left # 0)

LEMMA ReferenceStepIsTyped ==
  ASSUME TInv, ConsumeReference
  PROVE  /\ Typed(iter') /\ errors' \subseteq ErrorSet /\ context' = context
         /\ Settled(ref', stage')
<1>0. /\ {} \in SUBSET ErrorSet /\ ref \in Reference /\ iter.current \in Int
      /\ Typed(iter) /\ errors \subseteq ErrorSet /\ (stage = "match" => ref.left # 0)
  BY DEF TInv, IInv, IteratorSet
<1>m. stage \notin {"text", "done", "dropped"} => iter.mark # NoMark
  BY DEF TInv, IInv, Calling
<1>g. ASSUME NEW ok \in BOOLEAN, GiveUp(ok)
      PROVE  Settled(ref', stage')
  BY <1>g, NoRefIsReference DEF GiveUp, Settled, Stages
<1>1. CASE ConsumeCharRef
  <2>1. MarkAndAdvance /\ stage' = "reference" /\ ref' = NoRef /\ context' = context
    BY <1>1 DEF ConsumeCharRef
  <2>2. Settled(ref', stage')
    BY <2>1, NoRefIsReference DEF Settled, Stages
  <2> QED
    BY <2>1, <2>2, MarkAndAdvanceIsTyped
<1>2. CASE NotAReference \/ Parameter
  <2>1. Reset({}) /\ GiveUp(TRUE) /\ stage = "reference" /\ context' = context
    BY <1>2 DEF NotAReference, Parameter, NameFollows
  <2>2. Settled(ref', stage')
    BY <1>g, <2>1
  <2> QED
    BY <1>0, <1>m, <2>1, <2>2, ResetIsTyped
<1>3. CASE NumericReference
  <2>1. Advance({}) /\ stage' = "hash" /\ ref' = ref /\ context' = context
    BY <1>3 DEF NumericReference
  <2>2. Settled(ref', stage')
    BY <1>0, <2>1 DEF Settled, Stages
  <2> QED
    BY <1>0, <2>1, <2>2, AdvanceIsTyped
<1>4. CASE HexMark
  <2>1. Advance({}) /\ stage' = "firstDigit" /\ ref' = [ref EXCEPT !.hex = TRUE] /\ context' = context
    BY <1>4 DEF HexMark
  <2>2. Settled(ref', stage')
    BY <1>0, <2>1 DEF Settled, Stages, Reference
  <2> QED
    BY <1>0, <2>1, <2>2, AdvanceIsTyped
<1>5. CASE NoDigits
  <2>1. /\ Reset(AtMark("numeric-no-digits")) /\ GiveUp(FALSE)
        /\ stage \in {"firstDigit", "hash"} /\ context' = context
    BY <1>5 DEF NoDigits
  <2>2. Settled(ref', stage')
    BY <1>g, <2>1
  <2>3. AtMark("numeric-no-digits") \in SUBSET ErrorSet
    BY AtMarkIsError DEF ErrorTypes
  <2> QED
    BY <1>m, <2>1, <2>2, <2>3, ResetIsTyped
<1>6. CASE Digit
  <2> DEFINE base == IF ref.hex THEN 16 ELSE 10
             digit == DigitOf(iter.current, ref.hex)
             code == Accumulated(ref.code, base, digit)
  <2>1. Advance({}) /\ stage' = "digits" /\ ref' = [ref EXCEPT !.code = code] /\ context' = context
    BY <1>6 DEF Digit
  <2>2. base \in {10, 16} /\ digit \in Int /\ ref.code \in Int
    BY <1>0, DigitIsInt DEF Reference
  <2> HIDE DEF base, digit
  <2>3. code \in Int
    BY <2>2, AccumulatedIsInt
  <2> HIDE DEF code
  <2>4. Settled(ref', stage')
    BY <1>0, <2>1, <2>3 DEF Settled, Stages, Reference
  <2> QED
    BY <1>0, <2>1, <2>4, AdvanceIsTyped
<1>7. CASE EndOfDigits
  <2> DEFINE clean == NumericErrors = {}
             value == NumericValue(ref.code)
  <2>1. /\ iter.current = SEMICOLON => Advance(NumericErrors)
        /\ iter.current # SEMICOLON => iter' = iter /\ errors' = errors \union NumericErrors
        /\ stage' = "result" /\ ref' = [ref EXCEPT !.first = value, !.ok = clean] /\ context' = context
    BY <1>7 DEF EndOfDigits
  <2>2. NumericErrors \in SUBSET ErrorSet
    <3>1. AtMark("numeric-without-semicolon") \in SUBSET ErrorSet /\ AtMark("numeric-invalid") \in SUBSET ErrorSet
      BY AtMarkIsError DEF ErrorTypes
    <3> QED
      BY <3>1 DEF NumericErrors
  <2>3. value \in Int
    BY <1>0, NumericValueIsInt DEF Reference
  <2>4. clean \in BOOLEAN
    OBVIOUS
  <2> HIDE DEF clean, value
  <2>5. ref' \in Reference
    BY <1>0, <2>1, <2>3, <2>4 DEF Reference
  <2>6. Settled(ref', stage')
    BY <2>1, <2>5 DEF Settled, Stages
  <2>7. CASE iter.current = SEMICOLON
    BY <2>1, <2>2, <2>6, <2>7, AdvanceIsTyped
  <2>8. CASE iter.current # SEMICOLON
    BY <1>0, <2>1, <2>2, <2>6, <2>8
  <2> QED
    BY <2>7, <2>8
<1>8. CASE NamedReference
  <2> DEFINE clean == LastByte(Longest.name) = SEMICOLON
             reported == IF clean THEN {} ELSE AtMark("named-without-semicolon")
             left == Len(Longest.name)
  <2>1. /\ Matches # {} /\ iter' = iter /\ errors' = errors \union reported
        /\ stage' = "match" /\ context' = context
        /\ ref' = [ref EXCEPT !.left = left, !.first = Longest.first, !.second = Longest.second, !.ok = clean]
    BY <1>8 DEF NamedReference
  <2>2. Longest \in NamedReferences /\ left \in Nat /\ left # 0
    BY <2>1, LongestIsAnEntry DEF TInv
  <2>3. Longest.first \in Int /\ Longest.second \in Int
    BY SMTT(30), <2>2, NamedReferencesAssumption, CodePointsAre DEF NoChar
  <2>4. reported \in SUBSET ErrorSet
    BY AtMarkIsError DEF ErrorTypes
  <2>5. clean \in BOOLEAN
    OBVIOUS
  <2> HIDE DEF clean, reported, left
  <2>6. ref' \in Reference /\ ref'.left = left
    BY <1>0, <2>1, <2>2, <2>3, <2>5 DEF Reference
  <2>7. Settled(ref', stage')
    BY <2>1, <2>2, <2>6 DEF Settled, Stages
  <2> QED
    BY <1>0, <2>1, <2>4, <2>7
<1>9. CASE ConsumeMatch
  <2>1. /\ stage = "match" /\ Advance({}) /\ ref' = [ref EXCEPT !.left = @ - 1] /\ context' = context
        /\ stage' = IF ref.left = 1 THEN "result" ELSE "match"
    BY <1>9 DEF ConsumeMatch
  <2>2. ref.left \in Nat /\ ref.left # 0
    BY <1>0, <2>1 DEF Reference
  <2>3. ref' \in Reference /\ ref'.left = ref.left - 1
    BY <1>0, <2>1, <2>2 DEF Reference
  <2>4. Settled(ref', stage')
    BY <2>1, <2>2, <2>3 DEF Settled, Stages
  <2> QED
    BY <1>0, <2>1, <2>4, AdvanceIsTyped
<1>10. CASE UnknownName
  <2>1. iter' = iter /\ errors' = errors /\ ref' = ref /\ context' = context /\ stage' = "scan"
    BY <1>10 DEF UnknownName, iteratorVars
  <2> QED
    BY <1>0, <2>1 DEF Settled, Stages
<1>11. CASE ScanName
  <2>1. Advance({}) /\ stage' = stage /\ stage = "scan" /\ ref' = ref /\ context' = context
    BY <1>11 DEF ScanName
  <2>2. Settled(ref', stage')
    BY <1>0, <2>1 DEF Settled, Stages
  <2> QED
    BY <1>0, <2>1, <2>2, AdvanceIsTyped
<1>12. CASE EndOfName
  <2> DEFINE reported == IF iter.current = SEMICOLON THEN AtMark("named-invalid") ELSE {}
             ok == iter.current # SEMICOLON
  <2>1. stage = "scan" /\ Reset(reported) /\ GiveUp(ok) /\ context' = context
    BY <1>12 DEF EndOfName
  <2>2. reported \in SUBSET ErrorSet
    BY AtMarkIsError DEF ErrorTypes
  <2>3. ok \in BOOLEAN
    OBVIOUS
  <2> HIDE DEF reported, ok
  <2>4. Settled(ref', stage')
    BY <1>g, <2>1, <2>3
  <2> QED
    BY <1>m, <2>1, <2>2, <2>4, ResetIsTyped
<1> QED
  BY <1>1, <1>2, <1>3, <1>4, <1>5, <1>6, <1>7, <1>8, <1>9, <1>10, <1>11, <1>12 DEF ConsumeReference

\* The initial state is typed: an empty buffer, and the first character read.
LEMMA InitIsTyped == Init => TInv
<1> SUFFICES ASSUME Init PROVE TInv
  OBVIOUS
<1>1. IInv
  BY InitIsInBounds
<1>2. source \in Seq(1..255) /\ context \in Contexts
  BY InputsAssumption DEF Init
<1>3. Unread \in IteratorSet /\ Placed(Unread)
  BY <1>2 DEF Unread, IteratorSet, Placed, StartPosition, NoMark, End
<1>4. Unread.pos \in Position /\ Unread.markPos \in Position
  BY DEF Unread, StartPosition, Position
<1>5. iter = ReadChar(Unread).iter /\ errors = ReadChar(Unread).errors
  BY DEF Init, IteratorInit
<1>6. Typed(iter) /\ errors \subseteq ErrorSet
  BY <1>2, <1>3, <1>4, <1>5, ReadCharIsTyped
<1>7. stage = "text" /\ ref = NoRef /\ buffer = NewBuffer
  BY DEF Init
<1> QED
  BY <1>1, <1>2, <1>6, <1>7, NoRefIsReference, NewBufferFits DEF TInv, Stages

\* Every step of the reader keeps the types, and every append stays in the buffer.
LEMMA StepIsTyped == TInv /\ [Next]_vars => TInv'
<1> SUFFICES ASSUME TInv, [Next]_vars PROVE TInv'
  OBVIOUS
<1>1. IInv'
  BY StepKeepsBounds DEF TInv
<1>2. Fits(buffer) /\ {} \in SUBSET ErrorSet /\ ref \in Reference /\ iter.current \in Int
  BY DEF TInv, IInv, IteratorSet
<1>3. CASE ReadCharacter
  <2>1. Advance({}) /\ context' = context /\ stage' = stage /\ ref' = ref
        /\ buffer' = AppendCodepoint(buffer, iter.current)
    BY <1>3 DEF ReadCharacter
  <2>2. Fits(buffer')
    BY <1>2, <2>1, AppendFits
  <2>3. Typed(iter') /\ errors' \subseteq ErrorSet
    BY <1>2, <2>1, AdvanceIsTyped
  <2> QED
    BY <1>1, <2>1, <2>2, <2>3 DEF TInv, ErrorSet, Reference, Stages
<1>4. CASE FlushText
  <2>1. Advance({}) /\ context' = context /\ stage' = stage /\ ref' = ref /\ buffer' = Cleared(buffer)
    BY <1>4 DEF FlushText
  <2>2. Fits(buffer')
    BY <1>2, <2>1, NewBufferFits
  <2>3. Typed(iter') /\ errors' \subseteq ErrorSet
    BY <1>2, <2>1, AdvanceIsTyped
  <2> QED
    BY <1>1, <2>1, <2>2, <2>3 DEF TInv
<1>5. CASE ConsumeReference /\ UNCHANGED <<buffer, delivered>>
  <2>1. Typed(iter') /\ errors' \subseteq ErrorSet /\ context' = context /\ Settled(ref', stage')
    BY <1>5, ReferenceStepIsTyped
  <2>2. buffer' = buffer
    BY <1>5
  <2> QED
    BY <1>1, <1>2, <2>1, <2>2 DEF TInv, Settled
<1>6. CASE TakeReference
  <2>1. stage' = "text" /\ context' = context /\ ref' = ref
    BY <1>6 DEF TakeReference
  <2>2. CASE ref.first # NoChar
    <3>1. buffer' = AppendReference /\ iter' = iter /\ errors' = errors
      BY <1>6, <2>2 DEF TakeReference
    <3>2. Fits(AppendCodepoint(buffer, ref.first)) /\ ref.second \in Int
      BY <1>2, AppendFits DEF Reference
    <3>3. Fits(AppendCodepoint(AppendCodepoint(buffer, ref.first), ref.second))
      BY <3>2, AppendFits
    <3>4. Fits(buffer')
      BY <3>1, <3>2, <3>3 DEF AppendReference
    <3> QED
      BY <1>1, <2>1, <3>1, <3>4 DEF TInv, Stages
  <2>3. CASE ref.first = NoChar
    <3>1. buffer' = AppendCodepoint(buffer, AMP) /\ Advance({})
      BY <1>6, <2>3 DEF TakeReference
    <3>2. AMP \in Int
      BY DEF AMP
    <3>3. Fits(buffer')
      BY <1>2, <3>1, <3>2, AppendFits
    <3>4. Typed(iter') /\ errors' \subseteq ErrorSet
      BY <1>2, <3>1, AdvanceIsTyped
    <3> QED
      BY <1>1, <2>1, <3>3, <3>4 DEF TInv, Stages
  <2> QED
    BY <2>2, <2>3
<1>7. CASE Finishing
  <2>1. iter' = iter /\ errors' = errors /\ context' = context /\ ref' = ref
        /\ stage' \in {"done", "dropped"} /\ (buffer' = Cleared(buffer) \/ buffer' = NewBuffer)
    BY <1>7 DEF Finishing, FinishText, FinishValue, AbandonTag, iteratorVars
  <2>2. Fits(buffer')
    BY <1>2, <2>1, NewBufferFits
  <2> QED
    BY <1>1, <2>1, <2>2 DEF TInv, Stages
<1>8. CASE UNCHANGED vars
  BY <1>1, <1>8 DEF TInv, vars, charRefVars, iteratorVars
<1> QED
  BY <1>3, <1>4, <1>5, <1>6, <1>7, <1>8 DEF Next, Reading

\* For every source, reader and table of references: the iterator stands on a code point or the end
\* of the input, every error has a place, and no append writes past the allocation of the buffer,
\* however often it was doubled (read_char, consume_char_ref, maybe_resize_string_buffer).
THEOREM TextTypeCorrect == Spec => []TextTypeOK
<1>1. TInv => TextTypeOK
  <2> SUFFICES ASSUME TInv PROVE TextTypeOK
    OBVIOUS
  <2>1. iter.current \in EndOfInput..LastCodePoint
    <3>1. LastCodePoint \in Int /\ LastCodePoint >= 0 /\ EndOfInput = -1
      BY SMTT(30) DEF LastCodePoint, EndOfInput
    <3>2. iter.current = EndOfInput \/ (iter.current \in Int /\ 0 <= iter.current /\ iter.current <= LastCodePoint)
      BY <3>1 DEF TInv, Typed, Character, CodePoints
    <3> QED
      BY <3>1, <3>2
  <2>2. iter.width \in 0..MaxWidth
    BY DEF TInv, Typed, Width, MaxWidth
  <2>3. buffer.data \in Seq(0..255) /\ buffer.capacity \in Nat /\ Len(buffer.data) <= buffer.capacity
    BY DEF TInv, Fits, Buffer
  <2> QED
    BY <2>1, <2>2, <2>3 DEF TInv, IInv, TextTypeOK, Typed, ErrorSet, Reference
<1> QED
  BY InitIsTyped, StepIsTyped, <1>1, PTL DEF Spec
=============================================================================
