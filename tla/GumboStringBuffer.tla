-------------------------- MODULE GumboStringBuffer --------------------------
(***************************************************************************)
(* The growable byte buffer of string_buffer.c.  `data` holds the bytes    *)
(* written so far (its length is the buffer's length), `capacity` is the   *)
(* size of the allocation they have to fit in.                             *)
(***************************************************************************)
EXTENDS Integers, Sequences

DefaultSize == 5          \* kDefaultStringBufferSize

Buffer == [data: Seq(0..255), capacity: Nat]
NewBuffer == [data |-> <<>>, capacity |-> DefaultSize]

\* maybe_resize_string_buffer: the capacity is doubled until the new length fits.
Grown(capacity, length) ==
  LET grow[n \in Nat] == IF n >= length THEN n ELSE grow[n * 2] IN grow[capacity]
Resized(buffer, additional) ==
  [buffer EXCEPT !.capacity = Grown(@, Len(buffer.data) + additional)]

\* The lead and continuation bytes of append_codepoint; `char` keeps the low eight bits.
Continuations(c) == IF c <= 127 THEN 0 ELSE IF c <= 2047 THEN 1 ELSE IF c <= 65535 THEN 2 ELSE 3
LeadBits(n) == CASE n = 0 -> 0 [] n = 1 -> 192 [] n = 2 -> 224 [] n = 3 -> 240
Shifted(c, places) ==     \* c >> (places * 6)
  CASE places = 0 -> c [] places = 1 -> c \div 64 [] places = 2 -> c \div 4096 [] places = 3 -> c \div 262144
Encoded(c) ==
  LET n == Continuations(c)
  IN [i \in 1..n + 1 |-> IF i = 1 THEN (LeadBits(n) + Shifted(c, n)) % 256
                         ELSE 128 + (Shifted(c, n + 1 - i) % 64)]

Written(buffer, bytes) == [buffer EXCEPT !.data = @ \o bytes]
\* Mutant: room is made for the continuation bytes only.
AppendCodepointWithoutLead(buffer, c) == Written(Resized(buffer, Continuations(c)), Encoded(c))

AppendCodepoint(buffer, c) == Written(Resized(buffer, Continuations(c) + 1), Encoded(c))
Cleared(buffer) == [buffer EXCEPT !.data = <<>>]     \* gumbo_string_buffer_clear keeps the allocation
=============================================================================
