------------------------------- MODULE CharRef -------------------------------
(***************************************************************************)
(* consume_char_ref of char_ref.c: "&" and what follows it, as read by the *)
(* tokenizer in text and in attribute values.  Every call of               *)
(* utf8iterator_next is a step, so that the loops of the code are loops of *)
(* the model; the generated automaton of the named references is its       *)
(* longest match in a table of names.                                      *)
(***************************************************************************)
EXTENDS Utf8Iterator

CONSTANT NamedReferences  \* the table of the automaton: [name, first, second], names as bytes

VARIABLES
  context,  \* who reads: [additional, inAttribute, stops], the caller's arguments and terminators
  stage,    \* where consume_char_ref, or its caller, stands
  ref       \* its local variables and its result

charRefVars == <<iteratorVars, context, stage, ref>>

NoChar == -1              \* kGumboNoChar
LastCodePoint == 1114111
CodePoints == 0..LastCodePoint

\* The entries of char_ref.rl: a name that is not empty, and one code point or two.
ASSUME NamedReferencesAssumption ==
  \A e \in NamedReferences :
    /\ e.name \in Seq(1..255) /\ e.name # <<>>
    /\ e.first \in CodePoints
    /\ e.second = NoChar \/ e.second \in CodePoints

AMP == 38
SEMICOLON == 59
EQUALS == 61
HASH == 35
NUL == 0

Digits == 48..57
Letters == (65..90) \union (97..122)
Alphanumeric == Digits \union Letters
XMarks == {88, 120}
Whitespace == {TAB, LF, 12, 32}
LESS_THAN == 60

NoRef == [hex |-> FALSE, code |-> 0, left |-> 0, first |-> NoChar, second |-> NoChar, ok |-> TRUE]
ErrorTypes == {"utf8-invalid", "utf8-truncated", "numeric-no-digits", "numeric-without-semicolon",
               "numeric-invalid", "named-without-semicolon", "named-invalid"}   \* of GumboErrorType
Stages == {"text", "reference", "hash", "firstDigit", "digits", "match", "scan", "result", "done", "dropped"}

-----------------------------------------------------------------------------
\* parse_digit, and the accumulation in an int of 32 bits.
DigitOf(c, hex) ==
  CASE c \in Digits -> c - 48
    [] hex /\ c \in 97..102 -> c - 87
    [] hex /\ c \in 65..70 -> c - 55
    [] OTHER -> -1

\* code * base + digit, wrapped to 32 bits, computed on its two halves.
Accumulated(code, base, digit) ==
  LET low == (code % 65536) * base + digit
      high == (code \div 65536) * base + (low \div 65536)
  IN (((high + 32768) % 65536) - 32768) * 65536 + (low % 65536)

\* kCharReplacements: the references to C1 controls are read as Windows-1252.
C1Replacements ==
  <<8364, 129, 8218, 402, 8222, 8230, 8224, 8225, 710, 8240, 352, 8249, 338, 141, 381, 143,
    144, 8216, 8217, 8220, 8221, 8226, 8211, 8212, 732, 8482, 353, 8250, 339, 157, 382, 376>>
IsReplaced(code) == code \in {0, CR} \union 128..159
ReplacementOf(code) ==
  CASE code = 0 -> Replacement [] code = CR -> CR [] OTHER -> C1Replacements[code - 127]

IsNotACharacter(code) == code \in 55296..57343 \/ code > LastCodePoint

NumericValue(code) ==
  IF IsReplaced(code) THEN ReplacementOf(code)
  ELSE IF IsNotACharacter(code) THEN Replacement ELSE code
NumericIsInvalid(code) ==
  IsReplaced(code) \/ IsNotACharacter(code) \/ IsInvalidCodePoint(code) \/ code = 11

-----------------------------------------------------------------------------
Matches == {e \in NamedReferences : Upcoming(e.name)}
Longest == CHOOSE e \in Matches : \A f \in Matches : Len(f.name) <= Len(e.name)
LastByte(s) == s[Len(s)]
After(name) == IF iter.start + Len(name) < End THEN source[iter.start + Len(name)] ELSE NUL

\* "&copy=" in an attribute value is not a reference.
\* Mutant: what follows the name is looked at in text too.
LooksLikeParameterAnywhere(e) ==
  LastByte(e.name) # SEMICOLON /\ After(e.name) \in {EQUALS} \union Alphanumeric

LooksLikeParameter(e) ==
  /\ context.inAttribute
  /\ LastByte(e.name) # SEMICOLON
  /\ After(e.name) \in {EQUALS} \union Alphanumeric

GiveUp(ok) == ref' = [NoRef EXCEPT !.ok = ok] /\ stage' = "result"

\* consume_char_ref is called: the "&" is marked and stepped over.
ConsumeCharRef ==
  /\ stage = "text" /\ iter.current = AMP
  /\ MarkAndAdvance
  /\ stage' = "reference" /\ ref' = NoRef
  /\ UNCHANGED <<source, context>>

NotAReference ==
  /\ stage = "reference"
  /\ iter.current \in {context.additional, LESS_THAN, AMP, EndOfInput} \union Whitespace
  /\ Reset({}) /\ GiveUp(TRUE)
  /\ UNCHANGED <<source, context>>

NumericReference ==
  /\ stage = "reference" /\ iter.current = HASH
  /\ Advance({}) /\ stage' = "hash"
  /\ UNCHANGED <<source, context, ref>>

HexMark ==
  /\ stage = "hash" /\ iter.current \in XMarks
  /\ Advance({}) /\ stage' = "firstDigit"
  /\ ref' = [ref EXCEPT !.hex = TRUE]
  /\ UNCHANGED <<source, context>>

NoDigits ==
  /\ stage = "firstDigit" \/ (stage = "hash" /\ iter.current \notin XMarks)
  /\ DigitOf(iter.current, ref.hex) = -1
  /\ Reset(AtMark("numeric-no-digits")) /\ GiveUp(FALSE)
  /\ UNCHANGED <<source, context>>

Digit ==
  /\ stage \in {"hash", "firstDigit", "digits"}
  /\ DigitOf(iter.current, ref.hex) # -1
  /\ ref' = [ref EXCEPT !.code = Accumulated(@, IF ref.hex THEN 16 ELSE 10, DigitOf(iter.current, ref.hex))]
  /\ Advance({}) /\ stage' = "digits"
  /\ UNCHANGED <<source, context>>

NumericErrors ==
  (IF iter.current = SEMICOLON THEN {} ELSE AtMark("numeric-without-semicolon"))
    \union (IF NumericIsInvalid(ref.code) THEN AtMark("numeric-invalid") ELSE {})

EndOfDigits ==
  /\ stage = "digits"
  /\ DigitOf(iter.current, ref.hex) = -1
  /\ IF iter.current = SEMICOLON THEN Advance(NumericErrors)
     ELSE iter' = iter /\ errors' = errors \union NumericErrors
  /\ ref' = [ref EXCEPT !.first = NumericValue(ref.code), !.ok = NumericErrors = {}]
  /\ stage' = "result"
  /\ UNCHANGED <<source, context>>

NameFollows ==
  /\ stage = "reference"
  /\ iter.current \notin {context.additional, LESS_THAN, AMP, HASH, EndOfInput} \union Whitespace

NamedReference ==
  /\ NameFollows /\ Matches # {} /\ ~LooksLikeParameter(Longest)
  /\ ref' = [ref EXCEPT !.left = Len(Longest.name), !.first = Longest.first, !.second = Longest.second,
                        !.ok = LastByte(Longest.name) = SEMICOLON]
  /\ errors' = errors \union (IF LastByte(Longest.name) = SEMICOLON THEN {} ELSE AtMark("named-without-semicolon"))
  /\ stage' = "match"
  /\ UNCHANGED <<source, iter, context>>

Parameter ==
  /\ NameFollows /\ Matches # {} /\ LooksLikeParameter(Longest)
  /\ Reset({}) /\ GiveUp(TRUE)
  /\ UNCHANGED <<source, context>>

\* utf8iterator_maybe_consume_match goes on for each character of the name.
ConsumeMatch ==
  /\ stage = "match"
  /\ Advance({})
  /\ ref' = [ref EXCEPT !.left = @ - 1]
  /\ stage' = IF ref.left = 1 THEN "result" ELSE "match"
  /\ UNCHANGED <<source, context>>

UnknownName ==
  /\ NameFollows /\ Matches = {}
  /\ stage' = "scan"
  /\ UNCHANGED <<iteratorVars, context, ref>>

ScanName ==
  /\ stage = "scan" /\ iter.current \in Alphanumeric
  /\ Advance({})
  /\ UNCHANGED <<source, context, stage, ref>>

\* Mutant: only a semicolon ends the name.
EndOfNameAtSemicolon ==
  /\ stage = "scan" /\ iter.current = SEMICOLON
  /\ Reset(AtMark("named-invalid")) /\ GiveUp(FALSE)
  /\ UNCHANGED <<source, context>>

EndOfName ==
  /\ stage = "scan" /\ iter.current \notin Alphanumeric
  /\ Reset(IF iter.current = SEMICOLON THEN AtMark("named-invalid") ELSE {})
  /\ GiveUp(iter.current # SEMICOLON)
  /\ UNCHANGED <<source, context>>

ConsumeReference ==
  \/ ConsumeCharRef \/ NotAReference \/ NumericReference \/ HexMark \/ NoDigits \/ Digit
  \/ EndOfDigits \/ NamedReference \/ Parameter \/ ConsumeMatch
  \/ UnknownName \/ ScanName \/ EndOfName
=============================================================================
