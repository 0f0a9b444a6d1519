------------------------------- MODULE JniText -------------------------------
(***************************************************************************)
(* How parse() of native-lib.cpp comes by the bytes it gives the parser:   *)
(* GetStringUTFChars of the Java VM.  Its encoding is not UTF-8: a         *)
(* character outside the basic plane is written as its two UTF-16          *)
(* surrogates, three bytes each, and U+0000 as two bytes.                  *)
(***************************************************************************)
EXTENDS TextReference

CONSTANT Texts16         \* Java strings, as sequences of code points

Utf16(c) ==
  IF c <= 65535 THEN <<c>> ELSE <<55296 + (c - 65536) \div 1024, 56320 + ((c - 65536) % 1024)>>

ModifiedUtf8(text) ==
  LET units == FlattenSeq([i \in 1..Len(text) |-> Utf16(text[i])])
  IN FlattenSeq([i \in 1..Len(units) |-> IF units[i] = 0 THEN <<192, 128>> ELSE Encoded(units[i])])

\* The text of a Java string arrives as it was written: the parser, which takes UTF-8 only (gumbo.h),
\* is given the encoding it expects.
JavaTextArrives ==
  stage = "done" =>
    \A t \in Texts16 : source = ModifiedUtf8(t) =>
      delivered = LET texts == Texts(t, context) IN [i \in 1..Len(texts) |-> Bytes(texts[i])]
=============================================================================
