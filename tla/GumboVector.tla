---------------------------- MODULE GumboVector ----------------------------
(***************************************************************************)
(* The growable array of Gumbo (vector.c): sequences, with the indices of  *)
(* the code, which start at 0.                                             *)
(***************************************************************************)
EXTENDS Integers, Sequences

Add(v, e) == Append(v, e)

Popped(v) == SubSeq(v, 1, Len(v) - 1)

IndexOf(v, e) ==
  LET places == {i \in DOMAIN v : v[i] = e}
  IN  IF places = {} THEN -1 ELSE (CHOOSE i \in places : \A j \in places : i <= j) - 1

InsertAt(v, index, e) == SubSeq(v, 1, index) \o <<e>> \o SubSeq(v, index + 1, Len(v))

RemoveAt(v, index) == SubSeq(v, 1, index) \o SubSeq(v, index + 2, Len(v))

Remove(v, e) == IF IndexOf(v, e) = -1 THEN v ELSE RemoveAt(v, IndexOf(v, e))
=============================================================================
