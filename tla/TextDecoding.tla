---------------------------- MODULE TextDecoding ----------------------------
(***************************************************************************)
(* From the bytes of the page to the text of a node or of an attribute:    *)
(* the character iterator (Utf8Iterator), character references (CharRef)   *)
(* and the string buffer (GumboStringBuffer), driven as the data state,    *)
(* the attribute value states and the text node buffer of the parser drive *)
(* them.  The rest of the markup is one "<" that ends a text node.         *)
(***************************************************************************)
EXTENDS CharRef, GumboStringBuffer

CONSTANTS
  Contexts,       \* the readers: text, and the quoted and unquoted attribute values
  Inputs          \* what they may read: [source, context]

ASSUME ContextsAssumption ==
  \A c \in Contexts : c.inAttribute \in BOOLEAN /\ AMP \notin c.stops /\ EndOfInput \notin c.stops

\* strlen() ended the source at the first NUL.
ASSUME InputsAssumption == \A i \in Inputs : i.source \in Seq(1..255) /\ i.context \in Contexts

VARIABLES
  buffer,         \* the text node buffer, or the tag buffer of an attribute value
  delivered       \* the texts of the nodes, or the value of the attribute, made from the buffer

vars == <<charRefVars, buffer, delivered>>

Init ==
  /\ \E i \in Inputs : source = i.source /\ context = i.context
  /\ IteratorInit
  /\ stage = "text" /\ ref = NoRef
  /\ buffer = NewBuffer /\ delivered = <<>>

-----------------------------------------------------------------------------
ReadCharacter ==
  /\ stage = "text"
  /\ iter.current \notin context.stops \union {AMP, EndOfInput}
  /\ buffer' = AppendCodepoint(buffer, iter.current)
  /\ Advance({})
  /\ UNCHANGED <<source, context, stage, ref, delivered>>

AppendReference ==
  IF ref.second = NoChar THEN AppendCodepoint(buffer, ref.first)
  ELSE AppendCodepoint(AppendCodepoint(buffer, ref.first), ref.second)

\* The reader takes the characters of the reference; without one the "&" is a character like any other.
TakeReference ==
  /\ stage = "result"
  /\ stage' = "text"
  /\ \/ /\ ref.first # NoChar
        /\ buffer' = AppendReference
        /\ UNCHANGED <<iter, errors>>
     \/ /\ ref.first = NoChar
        /\ buffer' = AppendCodepoint(buffer, AMP)
        /\ Advance({})
  /\ UNCHANGED <<source, context, ref, delivered>>

Flushed == IF buffer.data = <<>> THEN delivered ELSE Append(delivered, buffer.data)

\* A tag flushes the text node buffer, which is then used again.
FlushText ==
  /\ stage = "text" /\ ~context.inAttribute /\ iter.current \in context.stops
  /\ delivered' = Flushed /\ buffer' = Cleared(buffer)
  /\ Advance({})
  /\ UNCHANGED <<source, context, stage, ref>>

FinishText ==
  /\ stage = "text" /\ ~context.inAttribute /\ iter.current = EndOfInput
  /\ delivered' = Flushed /\ buffer' = Cleared(buffer)
  /\ stage' = "done"
  /\ UNCHANGED <<iteratorVars, context, ref>>

\* finish_attribute_value copies the tag buffer and starts a new one.
FinishValue ==
  /\ stage = "text" /\ context.inAttribute /\ iter.current \in context.stops
  /\ delivered' = <<buffer.data>> /\ buffer' = NewBuffer
  /\ stage' = "done"
  /\ UNCHANGED <<iteratorVars, context, ref>>

\* The input ends within an attribute value: the tag is abandoned.
AbandonTag ==
  /\ stage = "text" /\ context.inAttribute /\ iter.current = EndOfInput
  /\ buffer' = NewBuffer
  /\ stage' = "dropped"
  /\ UNCHANGED <<iteratorVars, context, ref, delivered>>

Reading ==
  \/ ReadCharacter \/ FlushText
  \/ (ConsumeReference /\ UNCHANGED <<buffer, delivered>>) \/ TakeReference
Finishing == FinishText \/ FinishValue \/ AbandonTag
Next == Reading \/ Finishing

\* gumbo_lex runs on one thread until the input is used up: a step that can be taken is taken.
Spec == Init /\ [][Next]_vars /\ WF_vars(Next)

-----------------------------------------------------------------------------
\* The iterator, the error list, the local state of the reader and its buffer keep their types, and
\* no append writes past the allocation of the buffer (maybe_resize_string_buffer).
TextTypeOK ==
  /\ source \in Seq(1..255) /\ context \in Contexts
  /\ iter.current \in EndOfInput..LastCodePoint /\ iter.width \in 0..MaxWidth
  /\ iter.pos \in Position /\ iter.markPos \in Position
  /\ errors \subseteq [type: ErrorTypes, offset: Nat]
  /\ stage \in Stages
  /\ ref \in [hex: BOOLEAN, code: Int, left: Nat, first: Int, second: Int, ok: BOOLEAN]
  /\ buffer.data \in Seq(0..255) /\ buffer.capacity \in Nat /\ Len(buffer.data) <= buffer.capacity

\* The iterator never stands or reads past the end of the source, its byte offset is the place it
\* stands on through CR LF folding, marks and resets, only the end of the input has no width, and
\* consume_char_ref never resets to a mark that was not set (read_char, utf8iterator_reset).
IteratorInBounds ==
  /\ iter.start \in 1..End /\ iter.start + iter.width <= End
  /\ iter.pos.offset = iter.start - 1
  /\ iter.width = 0 <=> iter.start = End
  /\ iter.mark = NoMark \/ (iter.mark \in 1..End /\ iter.markPos.offset = iter.mark - 1)
  /\ stage \notin {"text", "done", "dropped"} => iter.mark # NoMark

\* Every input is read to its end: the loops of read_char, consume_char_ref and the reader come to
\* an end on any bytes, a malformed sequence at the very end included.
EveryInputEnds == <>(stage \in {"done", "dropped"})
=============================================================================
