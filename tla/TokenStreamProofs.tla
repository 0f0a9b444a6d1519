-------------------------- MODULE TokenStreamProofs --------------------------
(***************************************************************************)
(* For every page: the tokens are the page, read once and in order.  What  *)
(* each token says is proved of the units at its place, and what is read   *)
(* of the next token of the units from its start on.  Then the attributes  *)
(* of a start tag: each is the first of its name that is written there.    *)
(***************************************************************************)
EXTENDS TokenizerProofs

-----------------------------------------------------------------------------
(***************************************************************************)
(* The inductive invariant.                                                *)
(***************************************************************************)

\* Nothing but empty end tags stands from a up to b.
EmptyEnds(s, a, b) ==
  \E k \in Nat :
    /\ b = a + 3 * k
    /\ \A j \in 0 .. k - 1 : s[a + 3 * j] = "<" /\ s[a + 3 * j + 1] = "/" /\ s[a + 3 * j + 2] = ">"

\* The units stand one after the other from a on.
Reads(units, s, a) == \A i \in 1 .. Len(units) : s[a + i - 1] = units[i]

\* At m a comment is opened by o units, two of them the dashes of a proper one or none.
OpensComment(s, m, o) ==
  /\ s[m] = "<"
  /\ \/ o = 4 /\ s[m + 1] = "!" /\ s[m + 2] = "-" /\ s[m + 3] = "-"
     \/ o = 2 /\ s[m + 1] = "!" /\ (s[m + 2] = "-" => m + 3 <= Len(s) /\ s[m + 3] # "-")
     \/ o = 2 /\ s[m + 1] = "/" /\ s[m + 2] # ">"
     \/ o = 1 /\ s[m + 1] = "?"

-----------------------------------------------------------------------------
(***************************************************************************)
(* What a token says of the page, unit by unit.                            *)
(***************************************************************************)
CharacterStands(s, t) ==
  t.from < t.to /\ EmptyEnds(s, t.from, t.to - 1) /\ s[t.to - 1] = t.value

SectionStands(s, t) ==
  /\ t.from + 4 <= t.to /\ EmptyEnds(s, t.from, t.to - 4)
  /\ s[t.to - 4] = "<" /\ s[t.to - 3] = "!" /\ s[t.to - 2] = "[CDATA[" /\ s[t.to - 1] = t.value

TagStands(s, t) == t.from + 2 <= t.to /\ s[t.from] = "<" /\ s[t.to - 1] = ">"

CommentStands(s, t) ==
  /\ t.value \in Seq(Unit)
  /\ \E m \in Nat, o \in {1, 2, 4}, h \in Held :
       /\ t.from <= m /\ EmptyEnds(s, t.from, m) /\ OpensComment(s, m, o)
       /\ Reads(t.value, s, m + o) /\ Reads(h, s, m + o + Len(t.value))
       /\ o # 4 => h = <<>>
       /\ o = 2 /\ s[m + 1] = "/" => t.value # <<>>
       /\ LET end == m + o + Len(t.value) + Len(h)
          IN \/ t.to = end /\ s[end] = EOF
             \/ /\ t.to = end + 1 /\ s[end] = ">"
                /\ o = 4 /\ Len(h) < 2 => t.value = <<>>

\* A token among the others.
TokenStands(s, ts, i) ==
  /\ ts[i].from \in 1 .. ts[i].to /\ ts[i].to <= Len(s)
  /\ \/ ts[i].from = IF i = 1 THEN 1 ELSE ts[i - 1].to
     \/ /\ i > 1 /\ ts[i].from > ts[i - 1].to /\ ts[i].from > 1
        /\ s[ts[i].from - 1] = "]]>" \/ s[ts[i].from] = EOF
  /\ ts[i].type \in {"character", "whitespace"} =>
       \/ CharacterStands(s, ts[i])
       \/ ts[i].value = "second" /\ i > 1 /\ ts[i - 1].value = "&2;" /\ ts[i].from = ts[i].to
  /\ ts[i].type = "cdata" => CharacterStands(s, ts[i]) \/ SectionStands(s, ts[i])
  /\ ts[i].type = "eof" => s[ts[i].to] = EOF
  /\ ts[i].type \in {"start", "end"} => TagStands(s, ts[i])
  /\ ts[i].type = "comment" => CommentStands(s, ts[i])

-----------------------------------------------------------------------------
(***************************************************************************)
(* What is read of the next token.                                         *)
(***************************************************************************)
NextFollows ==
  \/ tokenStart = IF tokens = <<>> THEN 1 ELSE Last.to
  \/ /\ tokens # <<>> /\ tokenStart > Last.to
     /\ source[tokenStart - 1] = "]]>" \/ source[tokenStart] = EOF

\* A reference that stands for two characters has been read and emitted once.
SecondBegun == buffered # None => tokenStart = pos /\ tokens # <<>> /\ Last.value = "&2;"

\* Foreign content begins with a tag.
ForeignBegun == foreign \/ inCdata => tokens # <<>>

TextBegun ==
  /\ state \in {"DATA", "CHAR_REF_IN_DATA"} => EmptyEnds(source, tokenStart, pos) \/ Current = EOF
  /\ state \in Text \ {"DATA", "CHAR_REF_IN_DATA"} => tokenStart = pos
  /\ state \in ReferenceStates => Current \in References

OpenerBegun ==
  state \in Openers =>
    tokenStart <= mark /\ mark < pos /\ EmptyEnds(source, tokenStart, mark) /\ source[mark] = "<"

TagBegun == state \in TagStates => tokenStart < pos /\ source[tokenStart] = "<"

DeclarationBegun ==
  state = "MARKUP_DECLARATION" =>
    /\ tokenStart + 2 <= pos /\ EmptyEnds(source, tokenStart, pos - 2)
    /\ source[pos - 2] = "<" /\ source[pos - 1] = "!" /\ temporary = <<>>

SectionBegun ==
  state = "CDATA" =>
    /\ inCdata
    /\ \/ tokenStart = pos
       \/ /\ tokenStart + 3 <= pos /\ EmptyEnds(source, tokenStart, pos - 3)
          /\ source[pos - 3] = "<" /\ source[pos - 2] = "!" /\ source[pos - 1] = "[CDATA["

CommentBegun ==
  state \in CommentStates =>
    /\ \E m \in Nat, o \in {1, 2, 4} :
         /\ tokenStart <= m /\ EmptyEnds(source, tokenStart, m) /\ OpensComment(source, m, o)
         /\ Reads(temporary, source, m + o) /\ Reads(HeldIn(state), source, m + o + Len(temporary))
         /\ pos = m + o + Len(temporary) + Len(HeldIn(state))
         /\ o = 4 <=> state # "BOGUS_COMMENT"
         /\ o = 2 /\ source[m + 1] = "/" => temporary # <<>>
    /\ state \in {"COMMENT_START", "COMMENT_START_DASH"} => temporary = <<>>

TokensStand == \A i \in 1 .. Len(tokens) : TokenStands(source, tokens, i)

\* What has been read since the last token, by the state it has led to.
Begun ==
  /\ TextBegun /\ OpenerBegun /\ TagBegun /\ DeclarationBegun /\ SectionBegun /\ CommentBegun

StreamInv ==
  /\ tokenStart <= pos
  /\ NextFollows /\ SecondBegun /\ ForeignBegun /\ Begun /\ TokensStand

-----------------------------------------------------------------------------
(***************************************************************************)
(* Lemmas: what is known of a page stays known while more of it is read.   *)
(***************************************************************************)
Extends(s, r) ==
  /\ s \in Seq(Unit) /\ r \in Seq(Unit) /\ Len(s) <= Len(r)
  /\ \A i \in 1 .. Len(s) : r[i] = s[i]

LEMMA NoEmptyEnds ==
  ASSUME NEW s, NEW a \in Nat
  PROVE  EmptyEnds(s, a, a)
PROOF
<1>1. a = a + 3 * 0 /\ \A j \in 0 .. 0 - 1 : s[a + 3 * j] = "<" /\ s[a + 3 * j + 1] = "/" /\ s[a + 3 * j + 2] = ">"
  OBVIOUS
<1> QED BY <1>1 DEF EmptyEnds

LEMMA OneMoreEmptyEnd ==
  ASSUME NEW s, NEW a \in Nat, NEW b \in Nat, EmptyEnds(s, a, b),
         s[b] = "<", s[b + 1] = "/", s[b + 2] = ">"
  PROVE  EmptyEnds(s, a, b + 3)
PROOF
<1>1. PICK k \in Nat :
        /\ b = a + 3 * k
        /\ \A j \in 0 .. k - 1 : s[a + 3 * j] = "<" /\ s[a + 3 * j + 1] = "/" /\ s[a + 3 * j + 2] = ">"
  BY DEF EmptyEnds
<1>2. ASSUME NEW j \in 0 .. (k + 1) - 1
      PROVE  s[a + 3 * j] = "<" /\ s[a + 3 * j + 1] = "/" /\ s[a + 3 * j + 2] = ">"
  <2>1. CASE j \in 0 .. k - 1
    BY <1>1, <2>1
  <2>2. CASE j = k
    BY <1>1, <2>2
  <2> QED BY <2>1, <2>2
<1>3. k + 1 \in Nat /\ b + 3 = a + 3 * (k + 1)
  BY <1>1
<1> QED BY <1>2, <1>3 DEF EmptyEnds

LEMMA EmptyEndsAhead ==
  ASSUME NEW s, NEW a \in Nat, NEW b, EmptyEnds(s, a, b)
  PROVE  b \in Nat /\ a <= b /\ (s[b] = "<" => s[a] = "<")
PROOF
<1>1. PICK k \in Nat :
        /\ b = a + 3 * k
        /\ \A j \in 0 .. k - 1 : s[a + 3 * j] = "<" /\ s[a + 3 * j + 1] = "/" /\ s[a + 3 * j + 2] = ">"
  BY DEF EmptyEnds
<1>2. CASE k = 0
  BY <1>1, <1>2
<1>3. CASE k > 0
  <2>1. 0 \in 0 .. k - 1 /\ a + 3 * 0 = a
    BY <1>3
  <2> QED BY <1>1, <2>1
<1> QED BY <1>2, <1>3

LEMMA EmptyEndsStay ==
  ASSUME NEW s, NEW r, Extends(s, r), NEW a \in Nat, NEW b, 1 <= a, b <= Len(s) + 1, EmptyEnds(s, a, b)
  PROVE  EmptyEnds(r, a, b)
PROOF
<1>1. PICK k \in Nat :
        /\ b = a + 3 * k
        /\ \A j \in 0 .. k - 1 : s[a + 3 * j] = "<" /\ s[a + 3 * j + 1] = "/" /\ s[a + 3 * j + 2] = ">"
  BY DEF EmptyEnds
<1>2. ASSUME NEW j \in 0 .. k - 1
      PROVE  r[a + 3 * j] = "<" /\ r[a + 3 * j + 1] = "/" /\ r[a + 3 * j + 2] = ">"
  <2>1. /\ a + 3 * j \in 1 .. Len(s) /\ a + 3 * j + 1 \in 1 .. Len(s) /\ a + 3 * j + 2 \in 1 .. Len(s)
    BY <1>1 DEF Extends
  <2> QED BY <1>1, <2>1 DEF Extends
<1> QED BY <1>1, <1>2 DEF EmptyEnds

LEMMA ReadsStays ==
  ASSUME NEW s, NEW r, Extends(s, r), NEW units \in Seq(Unit), NEW a \in Nat, 1 <= a,
         a + Len(units) <= Len(s) + 1, Reads(units, s, a)
  PROVE  Reads(units, r, a)
PROOF
<1>1. ASSUME NEW i \in 1 .. Len(units)
      PROVE  r[a + i - 1] = units[i]
  <2>1. a + i - 1 \in 1 .. Len(s)
    BY DEF Extends
  <2> QED BY <2>1 DEF Reads, Extends
<1> QED BY <1>1 DEF Reads

LEMMA ReadsBoth ==
  ASSUME NEW s, NEW u \in Seq(Unit), NEW v \in Seq(Unit), NEW a \in Nat
  PROVE  Reads(u \o v, s, a) <=> Reads(u, s, a) /\ Reads(v, s, a + Len(u))
PROOF
<1> DEFINE w == u \o v
<1>1. /\ w \in Seq(Unit) /\ Len(w) = Len(u) + Len(v) /\ Len(u) \in Nat /\ Len(v) \in Nat
      /\ \A i \in 1 .. Len(u) : w[i] = u[i]
      /\ \A i \in 1 .. Len(v) : w[Len(u) + i] = v[i]
  BY Joined
<1> HIDE DEF w
<1>2. ASSUME Reads(w, s, a)
      PROVE  Reads(u, s, a) /\ Reads(v, s, a + Len(u))
  <2>1. \A i \in 1 .. Len(u) : s[a + i - 1] = u[i]
    BY <1>1, <1>2 DEF Reads
  <2>2. ASSUME NEW i \in 1 .. Len(v)
        PROVE  s[a + Len(u) + i - 1] = v[i]
    <3>1. Len(u) + i \in 1 .. Len(w) /\ a + (Len(u) + i) - 1 = a + Len(u) + i - 1
      BY <1>1
    <3>2. s[a + (Len(u) + i) - 1] = w[Len(u) + i]
      BY <1>2, <3>1 DEF Reads
    <3> QED BY <1>1, <3>1, <3>2
  <2> QED BY <2>1, <2>2 DEF Reads
<1>3. ASSUME Reads(u, s, a), Reads(v, s, a + Len(u))
      PROVE  Reads(w, s, a)
  <2>1. ASSUME NEW i \in 1 .. Len(w)
        PROVE  s[a + i - 1] = w[i]
    <3>1. CASE i \in 1 .. Len(u)
      BY <1>1, <1>3, <3>1 DEF Reads
    <3>2. CASE i \notin 1 .. Len(u)
      <4>1. i - Len(u) \in 1 .. Len(v)
        BY <1>1, <3>2
      <4>2. Len(u) + (i - Len(u)) = i /\ a + Len(u) + (i - Len(u)) - 1 = a + i - 1
        BY <1>1
      <4>3. s[a + Len(u) + (i - Len(u)) - 1] = v[i - Len(u)]
        BY <1>3, <4>1 DEF Reads
      <4>4. w[Len(u) + (i - Len(u))] = v[i - Len(u)]
        BY <1>1, <4>1
      <4> QED BY <4>2, <4>3, <4>4
    <3> QED BY <3>1, <3>2
  <2> QED BY <2>1 DEF Reads
<1> QED BY <1>2, <1>3 DEF w

LEMMA ReadsNothing ==
  ASSUME NEW s, NEW a
  PROVE  Reads(<<>>, s, a)
PROOF BY DEF Reads

LEMMA ReadsOne ==
  ASSUME NEW s, NEW u \in Unit, NEW a \in Nat, s[a] = u
  PROVE  Reads(<<u>>, s, a)
PROOF
<1>1. Len(<<u>>) = 1 /\ <<u>>[1] = u
  OBVIOUS
<1>2. \A i \in 1 .. 1 : s[a + i - 1] = <<u>>[i]
  BY <1>1
<1> QED BY <1>1, <1>2 DEF Reads

LEMMA CommentIsOpened ==
  ASSUME NEW s, NEW r, Extends(s, r), NEW m \in Nat, NEW o \in {1, 2, 4}, 1 <= m, m + o <= Len(s) + 1,
         o # 4 => m + 1 <= Len(s), o = 2 => m + 2 <= Len(s), OpensComment(s, m, o)
  PROVE  OpensComment(r, m, o)
PROOF
<1>1. Len(s) \in Nat /\ Len(r) \in Nat
  BY DEF Extends
<1>2. CASE o = 4
  <2>1. m \in 1 .. Len(s) /\ m + 1 \in 1 .. Len(s) /\ m + 2 \in 1 .. Len(s) /\ m + 3 \in 1 .. Len(s)
    BY <1>1, <1>2
  <2> QED BY <1>2, <2>1 DEF OpensComment, Extends
<1>3. CASE o = 2
  <2>1. m \in 1 .. Len(s) /\ m + 1 \in 1 .. Len(s) /\ m + 2 \in 1 .. Len(s)
    BY <1>1, <1>3
  <2>2. m + 3 <= Len(s) => m + 3 \in 1 .. Len(s) /\ m + 3 <= Len(r)
    BY <1>1 DEF Extends
  <2>3. r[m] = s[m] /\ r[m + 1] = s[m + 1] /\ r[m + 2] = s[m + 2]
        /\ (m + 3 <= Len(s) => r[m + 3] = s[m + 3] /\ m + 3 <= Len(r))
    BY <2>1, <2>2 DEF Extends
  <2> QED BY <1>3, <2>3 DEF OpensComment
<1>4. CASE o = 1
  <2>1. m \in 1 .. Len(s) /\ m + 1 \in 1 .. Len(s)
    BY <1>1, <1>4
  <2> QED BY <1>4, <2>1 DEF OpensComment, Extends
<1> QED BY <1>2, <1>3, <1>4

\* A token stands where it stood, whatever is read, emitted and noted after it.
LEMMA CharacterStays ==
  ASSUME NEW s, NEW r, Extends(s, r), NEW t \in Token, 1 <= t.from, t.to <= Len(s),
         CharacterStands(s, t)
  PROVE  CharacterStands(r, t)
PROOF
<1>1. t.from \in Nat /\ t.to \in Nat /\ Len(s) \in Nat
  BY DEF Token, Extends
<1>2. EmptyEnds(r, t.from, t.to - 1)
  BY <1>1, EmptyEndsStay DEF CharacterStands
<1>3. t.to - 1 \in 1 .. Len(s)
  BY <1>1 DEF CharacterStands
<1> QED BY <1>2, <1>3 DEF CharacterStands, Extends

LEMMA SectionStays ==
  ASSUME NEW s, NEW r, Extends(s, r), NEW t \in Token, 1 <= t.from, t.to <= Len(s),
         SectionStands(s, t)
  PROVE  SectionStands(r, t)
PROOF
<1>1. t.from \in Nat /\ t.to \in Nat /\ Len(s) \in Nat
  BY DEF Token, Extends
<1>2. EmptyEnds(r, t.from, t.to - 4)
  BY <1>1, EmptyEndsStay DEF SectionStands
<1>3. t.to - 4 \in 1 .. Len(s) /\ t.to - 3 \in 1 .. Len(s) /\ t.to - 2 \in 1 .. Len(s) /\ t.to - 1 \in 1 .. Len(s)
  <2>1. t.from + 4 <= t.to
    BY DEF SectionStands
  <2> QED BY <1>1, <2>1
<1> QED BY <1>2, <1>3 DEF SectionStands, Extends

LEMMA CommentStays ==
  ASSUME NEW s, NEW r, Extends(s, r), NEW t \in Token, 1 <= t.from, t.to <= Len(s),
         CommentStands(s, t)
  PROVE  CommentStands(r, t)
PROOF
<1> DEFINE value == t.value
<1>1. t.from \in Nat /\ t.to \in Nat /\ Len(s) \in Nat
  BY DEF Token, Extends
<1>2. value \in Seq(Unit)
  BY DEF CommentStands
<1>3. PICK m \in Nat, o \in {1, 2, 4}, h \in Held :
       /\ t.from <= m /\ EmptyEnds(s, t.from, m) /\ OpensComment(s, m, o)
       /\ Reads(value, s, m + o) /\ Reads(h, s, m + o + Len(value))
       /\ o # 4 => h = <<>>
       /\ o = 2 /\ s[m + 1] = "/" => value # <<>>
       /\ LET end == m + o + Len(value) + Len(h)
          IN \/ t.to = end /\ s[end] = EOF
             \/ /\ t.to = end + 1 /\ s[end] = ">"
                /\ o = 4 /\ Len(h) < 2 => value = <<>>
  BY Zenon DEF CommentStands
<1> HIDE DEF value
<1> DEFINE end == m + o + Len(value) + Len(h)
<1>4. h \in Seq(Unit) /\ Len(h) \in Nat /\ Len(value) \in Nat
  <2>1. <<>> \in Seq(Unit) /\ <<"-">> \in Seq(Unit) /\ <<"-", "-">> \in Seq(Unit) /\ <<"-", "-", "!">> \in Seq(Unit)
    BY DEF Unit
  <2>2. h \in Seq(Unit)
    BY <2>1 DEF Held
  <2> QED BY <1>2, <2>2
<1>5. end \in Nat /\ end \in 1 .. Len(s) /\ 1 <= m /\ m \in 1 .. Len(s) /\ m + o <= end
  BY <1>1, <1>3, <1>4
<1> HIDE DEF end
<1>6. EmptyEnds(r, t.from, m)
  BY <1>1, <1>3, <1>5, EmptyEndsStay
<1>7. Reads(value, r, m + o) /\ Reads(h, r, m + o + Len(value))
  BY <1>2, <1>3, <1>4, <1>5, ReadsStays DEF end
<1>8. OpensComment(r, m, o)
  <2>1. m + o <= Len(s)
    BY <1>1, <1>5
  <2> QED BY <1>3, <1>5, <2>1, CommentIsOpened
<1>9. r[end] = s[end]
  BY <1>5 DEF Extends
<1>10. o = 2 => r[m + 1] = s[m + 1]
  <2>1. o = 2 => m + 1 \in 1 .. Len(s)
    BY <1>5
  <2> QED BY <2>1 DEF Extends
<1>11. /\ \/ t.to = end /\ r[end] = EOF
          \/ /\ t.to = end + 1 /\ r[end] = ">"
             /\ o = 4 /\ Len(h) < 2 => value = <<>>
       /\ o = 2 /\ r[m + 1] = "/" => value # <<>>
  BY <1>3, <1>9, <1>10 DEF end
<1>12. \E m1 \in Nat, o1 \in {1, 2, 4}, h1 \in Held :
         /\ t.from <= m1 /\ EmptyEnds(r, t.from, m1) /\ OpensComment(r, m1, o1)
         /\ Reads(value, r, m1 + o1) /\ Reads(h1, r, m1 + o1 + Len(value))
         /\ o1 # 4 => h1 = <<>>
         /\ o1 = 2 /\ r[m1 + 1] = "/" => value # <<>>
         /\ LET e1 == m1 + o1 + Len(value) + Len(h1)
            IN \/ t.to = e1 /\ r[e1] = EOF
               \/ /\ t.to = e1 + 1 /\ r[e1] = ">"
                  /\ o1 = 4 /\ Len(h1) < 2 => value = <<>>
  <2> WITNESS m \in Nat, o \in {1, 2, 4}, h \in Held
  <2> QED BY Zenon, <1>3, <1>6, <1>7, <1>8, <1>11 DEF end
<1> QED BY Zenon, <1>2, <1>12 DEF CommentStands, value

LEMMA TagStays ==
  ASSUME NEW s, NEW r, Extends(s, r), NEW t \in Token, 1 <= t.from, t.to <= Len(s),
         TagStands(s, t)
  PROVE  TagStands(r, t)
PROOF
<1>1. t.from \in Nat /\ t.to \in Nat /\ Len(s) \in Nat
  BY DEF Token, Extends
<1>2. t.from \in 1 .. Len(s) /\ t.to - 1 \in 1 .. Len(s)
  BY <1>1 DEF TagStands
<1> QED BY <1>2 DEF TagStands, Extends

LEMMA TokenStays ==
  ASSUME NEW s, NEW r, Extends(s, r), NEW ts \in Seq(Token), NEW i \in 1 .. Len(ts), TokenStands(s, ts, i)
  PROVE  TokenStands(r, ts, i)
PROOF
<1> DEFINE t == ts[i]
<1>1. t \in Token
  OBVIOUS
<1>2. t.from \in Nat /\ t.to \in Nat /\ Len(s) \in Nat /\ Len(r) \in Nat
  BY <1>1 DEF Token, Extends
<1>3. 1 <= t.from /\ t.from <= t.to /\ t.to <= Len(s) /\ t.to <= Len(r)
  <2>1. t.from \in 1 .. t.to /\ t.to <= Len(s)
    BY Zenon DEF TokenStands
  <2> QED BY <1>2, <2>1 DEF Extends
<1>4. t.from \in 1 .. Len(s) /\ t.to \in 1 .. Len(s) /\ (t.from > 1 => t.from - 1 \in 1 .. Len(s))
  BY <1>2, <1>3
<1>5. r[t.from] = s[t.from] /\ r[t.to] = s[t.to] /\ (t.from > 1 => r[t.from - 1] = s[t.from - 1])
  BY <1>4 DEF Extends
<1>6. \/ t.from = IF i = 1 THEN 1 ELSE ts[i - 1].to
      \/ /\ i > 1 /\ t.from > ts[i - 1].to /\ t.from > 1
         /\ r[t.from - 1] = "]]>" \/ r[t.from] = EOF
  BY Zenon, <1>5 DEF TokenStands
<1>7. t.type \in {"character", "whitespace"} =>
       \/ CharacterStands(r, t)
       \/ t.value = "second" /\ i > 1 /\ ts[i - 1].value = "&2;" /\ t.from = t.to
  BY Zenon, <1>1, <1>3, CharacterStays DEF TokenStands
<1>8. t.type = "cdata" => CharacterStands(r, t) \/ SectionStands(r, t)
  BY <1>1, <1>3, CharacterStays, SectionStays DEF TokenStands
<1>9. t.type \in {"start", "end"} => TagStands(r, t)
  BY Zenon, <1>1, <1>3, TagStays DEF TokenStands
<1>10. t.type = "comment" => CommentStands(r, t)
  BY <1>1, <1>3, CommentStays DEF TokenStands
<1>11. t.type = "eof" => r[t.to] = EOF
  BY <1>5 DEF TokenStands
<1>12. t.from \in 1 .. t.to
  BY <1>2, <1>3
<1> QED BY Zenon, <1>3, <1>6, <1>7, <1>8, <1>9, <1>10, <1>11, <1>12 DEF TokenStands

\* What a token is among the others rests on it and on the one before it.
LEMMA TokenIsAmong ==
  ASSUME NEW s, NEW ts, NEW us, NEW i, us[i] = ts[i], i = 1 \/ us[i - 1] = ts[i - 1],
         TokenStands(s, ts, i)
  PROVE  TokenStands(s, us, i)
PROOF
<1>1. CASE i = 1
  <2>1. ~(1 > 1)
    OBVIOUS
  <2> QED BY Zenon, <1>1, <2>1 DEF TokenStands
<1>2. CASE us[i - 1] = ts[i - 1]
  BY Zenon, <1>2 DEF TokenStands
<1> QED BY <1>1, <1>2

-----------------------------------------------------------------------------
(***************************************************************************)
(* What a step does to the tokens and to the start of the next one.        *)
(***************************************************************************)
Behind == tokenStart <= pos /\ NextFollows /\ ForeignBegun /\ TokensStand

LEMMA PageIsExtended ==
  ASSUME IInv, Reading
  PROVE  /\ Extends(source, source') /\ tokens \in Seq(Token)
         /\ pos \in 1 .. Len(source) /\ tokenStart \in 1 .. Len(source) /\ mark \in 1 .. Len(source)
         /\ Len(source) \in Nat /\ Len(source') \in Nat
         /\ \A i \in 1 .. Len(source) : source'[i] = source[i]
PROOF BY DEF IInv, InputOK, OutputOK, Reading, Extends

\* No token.
LEMMA StepsBehind ==
  ASSUME IInv, StreamInv, Reading, tokens' = tokens, tokenStart' = tokenStart,
         pos' \in Nat, pos <= pos', foreign' \/ inCdata' => foreign \/ inCdata
  PROVE  Behind'
PROOF
<1>1. /\ Extends(source, source') /\ tokens \in Seq(Token) /\ tokenStart \in 1 .. Len(source)
      /\ pos \in Nat /\ tokenStart \in Nat /\ Len(source) \in Nat
      /\ \A i \in 1 .. Len(source) : source'[i] = source[i]
  BY PageIsExtended
<1>2. tokenStart' <= pos'
  BY <1>1 DEF StreamInv
<1>3. NextFollows'
  <2>1. Last' = Last
    BY DEF Last
  <2>2. source'[tokenStart] = source[tokenStart]
    BY <1>1
  <2>3. CASE tokenStart = IF tokens = <<>> THEN 1 ELSE Last.to
    BY <2>1, <2>3 DEF NextFollows
  <2>4. CASE /\ tokens # <<>> /\ tokenStart > Last.to
             /\ source[tokenStart - 1] = "]]>" \/ source[tokenStart] = EOF
    <3>1. Last \in Token /\ Len(tokens) \in 1 .. Len(tokens)
      BY <1>1, <2>4 DEF Last
    <3>2. TokenStands(source, tokens, Len(tokens))
      BY <3>1 DEF StreamInv, TokensStand
    <3>3. Last.from \in 1 .. Last.to
      BY Zenon, <3>2 DEF TokenStands, Last
    <3>4. tokenStart - 1 \in 1 .. Len(source)
      BY <1>1, <2>4, <3>1, <3>3 DEF Token
    <3>5. source'[tokenStart - 1] = source[tokenStart - 1]
      BY <1>1, <3>4
    <3> QED BY <2>1, <2>2, <2>4, <3>5 DEF NextFollows
  <2> QED BY <2>3, <2>4 DEF StreamInv, NextFollows
<1>4. ForeignBegun'
  BY DEF StreamInv, ForeignBegun
<1>5. TokensStand'
  <2>1. \A i \in 1 .. Len(tokens) : TokenStands(source', tokens, i)
    BY <1>1, TokenStays DEF StreamInv, TokensStand
  <2> QED BY <2>1 DEF TokensStand
<1> QED BY <1>2, <1>3, <1>4, <1>5 DEF Behind

\* A token, which stands where it says it does.
NewToken(type, value) ==
  [type |-> type, value |-> value, from |-> tokenStart, to |-> pos', then |-> None]

NewTokenStands(t) ==
  /\ t.type \in {"character", "whitespace"} =>
       \/ CharacterStands(source', t)
       \/ t.value = "second" /\ tokens # <<>> /\ Last.value = "&2;" /\ t.from = t.to
  /\ t.type = "cdata" => CharacterStands(source', t) \/ SectionStands(source', t)
  /\ t.type = "eof" => source'[t.to] = EOF
  /\ t.type \in {"start", "end"} => TagStands(source', t)
  /\ t.type = "comment" => CommentStands(source', t)

LEMMA EmitsBehind ==
  ASSUME IInv, StreamInv, Reading, NEW type \in TokenTypes, NEW value \in TokenValue, Finish(type, value),
         pos' \in 1 .. Len(source'), tokenStart <= pos', NewTokenStands(NewToken(type, value))
  PROVE  Behind' /\ Last' = NewToken(type, value) /\ tokens' # <<>>
PROOF
<1> DEFINE t == NewToken(type, value)
           n == Len(tokens) + 1
<1>1. /\ Extends(source, source') /\ tokens \in Seq(Token) /\ tokenStart \in 1 .. Len(source)
      /\ pos' \in Nat /\ tokenStart \in Nat /\ Len(tokens) \in Nat
  BY PageIsExtended
<1>2. tokens' = Append(tokens, t) /\ tokenStart' = pos'
  BY DEF Finish, NewToken
<1>3. /\ t \in Token /\ t.type = type /\ t.value = value /\ t.from = tokenStart /\ t.to = pos'
  BY <1>1 DEF Token, NewToken
<1>4. NewTokenStands(t)
  OBVIOUS
<1> HIDE DEF t
<1>5. /\ tokens' \in Seq(Token) /\ tokens' # <<>> /\ Len(tokens') = n
      /\ \A i \in 1 .. Len(tokens) : tokens'[i] = tokens[i]
      /\ tokens'[n] = t
  BY <1>1, <1>2, <1>3, Appended
<1>6. Last' = t /\ Len(tokens') = n
  BY <1>5 DEF Last
<1>7. NextFollows' /\ tokenStart' <= pos'
  BY <1>1, <1>2, <1>3, <1>5, <1>6 DEF NextFollows
<1>8. ForeignBegun'
  BY <1>5 DEF ForeignBegun
<1>9. ASSUME NEW i \in 1 .. Len(tokens)
      PROVE  TokenStands(source', tokens', i)
  <2>1. TokenStands(source', tokens, i)
    BY <1>1, TokenStays DEF StreamInv, TokensStand
  <2>2. tokens'[i] = tokens[i] /\ (i = 1 \/ tokens'[i - 1] = tokens[i - 1])
    BY <1>1, <1>5
  <2> QED BY <2>1, <2>2, TokenIsAmong
<1>10. TokenStands(source', tokens', n)
  <2>1. n # 1 => tokens # <<>> /\ n > 1 /\ tokens'[n - 1] = Last
    BY <1>1, <1>5 DEF Last
  <2>2. n = 1 => tokens = <<>>
    BY <1>1
  <2>3. \/ t.from = IF n = 1 THEN 1 ELSE tokens'[n - 1].to
        \/ /\ n > 1 /\ t.from > tokens'[n - 1].to /\ t.from > 1
           /\ source'[t.from - 1] = "]]>" \/ source'[t.from] = EOF
    <3>1. CASE tokenStart = IF tokens = <<>> THEN 1 ELSE Last.to
      <4>1. tokens = <<>> => n = 1
        BY <1>5
      <4> QED BY <1>3, <2>1, <2>2, <3>1, <4>1
    <3>2. CASE /\ tokens # <<>> /\ tokenStart > Last.to
               /\ source[tokenStart - 1] = "]]>" \/ source[tokenStart] = EOF
      <4>1. n > 1 /\ n # 1 /\ Last \in Token
        BY <1>1, <3>2 DEF Last
      <4>2. Len(tokens) \in 1 .. Len(tokens)
        BY <1>1, <4>1
      <4>3. TokenStands(source, tokens, Len(tokens))
        BY <4>2 DEF StreamInv, TokensStand
      <4>4. Last.from \in 1 .. Last.to
        BY Zenon, <4>3 DEF TokenStands, Last
      <4>5. tokenStart > 1
        BY <1>1, <3>2, <4>1, <4>4 DEF Token
      <4>6. tokenStart - 1 \in 1 .. Len(source)
        BY <1>1, <4>5 DEF Extends
      <4>7. source'[tokenStart - 1] = source[tokenStart - 1] /\ source'[tokenStart] = source[tokenStart]
        BY <1>1, <4>6 DEF Extends
      <4> QED BY <1>3, <2>1, <3>2, <4>1, <4>5, <4>7
    <3> QED BY <3>1, <3>2 DEF StreamInv, NextFollows
  <2>4. t.type \in {"character", "whitespace"} =>
         \/ CharacterStands(source', t)
         \/ t.value = "second" /\ n > 1 /\ tokens'[n - 1].value = "&2;" /\ t.from = t.to
    BY Zenon, <1>4, <2>1, <2>2 DEF NewTokenStands
  <2>5. t.from \in 1 .. t.to /\ t.to <= Len(source')
    BY <1>1, <1>3
  <2>6. /\ t.type = "cdata" => CharacterStands(source', t) \/ SectionStands(source', t)
        /\ t.type = "eof" => source'[t.to] = EOF
        /\ t.type \in {"start", "end"} => TagStands(source', t)
        /\ t.type = "comment" => CommentStands(source', t)
    BY Zenon, <1>4 DEF NewTokenStands
  <2> HIDE DEF n
  <2> QED BY <1>5, <2>3, <2>4, <2>5, <2>6, Zenon DEF TokenStands
<1>11. TokensStand'
  <2>1. \A i \in 1 .. Len(tokens') : i \in 1 .. Len(tokens) \/ i = n
    BY <1>1, <1>5
  <2>2. \A i \in 1 .. Len(tokens') : TokenStands(source', tokens', i)
    BY <1>9, <1>10, <2>1
  <2> QED BY <2>2 DEF TokensStand
<1> QED BY <1>5, <1>6, <1>7, <1>8, <1>11 DEF Behind, t

\* Each state is in one class, and has to stand for what its class says.
LEMMA TextHasBegun == ASSUME state' \in Text, TextBegun' PROVE Begun'
PROOF
<1>1. state' \notin Openers \union TagStates \union CommentStates \union {"MARKUP_DECLARATION", "CDATA"}
  BY ClassesAreDisjoint
<1> QED BY <1>1 DEF Begun, OpenerBegun, TagBegun, DeclarationBegun, SectionBegun, CommentBegun

LEMMA OpenerHasBegun == ASSUME state' \in Openers, OpenerBegun' PROVE Begun'
PROOF
<1>1. state' \notin Text \union TagStates \union CommentStates \union {"MARKUP_DECLARATION", "CDATA"}
  BY ClassesAreDisjoint
<1>2. state' \notin {"DATA", "CHAR_REF_IN_DATA"} \union ReferenceStates
  BY <1>1 DEF Text, DataStates, ReferenceStates
<1> QED BY <1>1, <1>2 DEF Begun, TextBegun, TagBegun, DeclarationBegun, SectionBegun, CommentBegun

LEMMA TagHasBegun == ASSUME state' \in TagStates, TagBegun' PROVE Begun'
PROOF
<1>1. state' \notin Text \union Openers \union CommentStates \union {"MARKUP_DECLARATION", "CDATA"}
  BY ClassesAreDisjoint
<1>2. state' \notin {"DATA", "CHAR_REF_IN_DATA"} \union ReferenceStates
  BY <1>1 DEF Text, DataStates, ReferenceStates
<1> QED BY <1>1, <1>2 DEF Begun, TextBegun, OpenerBegun, DeclarationBegun, SectionBegun, CommentBegun

LEMMA DeclarationHasBegun == ASSUME state' = "MARKUP_DECLARATION", DeclarationBegun' PROVE Begun'
PROOF
<1>1. state' \notin Text \union Openers \union TagStates \union CommentStates
  BY ClassesAreDisjoint
<1>2. state' \notin {"DATA", "CHAR_REF_IN_DATA"} \union ReferenceStates
  BY <1>1 DEF Text, DataStates, ReferenceStates
<1> QED BY <1>1, <1>2 DEF Begun, TextBegun, OpenerBegun, TagBegun, SectionBegun, CommentBegun

LEMMA SectionHasBegun == ASSUME state' = "CDATA", SectionBegun' PROVE Begun'
PROOF
<1>1. state' \notin Text \union Openers \union TagStates \union CommentStates
  BY ClassesAreDisjoint
<1>2. state' \notin {"DATA", "CHAR_REF_IN_DATA"} \union ReferenceStates
  BY <1>1 DEF Text, DataStates, ReferenceStates
<1> QED BY <1>1, <1>2 DEF Begun, TextBegun, OpenerBegun, TagBegun, DeclarationBegun, CommentBegun

LEMMA CommentHasBegun == ASSUME state' \in CommentStates, CommentBegun' PROVE Begun'
PROOF
<1>1. state' \notin Text \union Openers \union TagStates \union {"MARKUP_DECLARATION", "CDATA"}
  BY ClassesAreDisjoint
<1>2. state' \notin {"DATA", "CHAR_REF_IN_DATA"} \union ReferenceStates
  BY <1>1 DEF Text, DataStates, ReferenceStates
<1> QED BY <1>1, <1>2 DEF Begun, TextBegun, OpenerBegun, TagBegun, DeclarationBegun, SectionBegun

LEMMA DoctypeHasBegun == ASSUME state' \in DoctypeStates \union {"BOGUS_DOCTYPE"} PROVE Begun'
PROOF
<1>1. state' \notin Text \union Openers \union TagStates \union CommentStates \union {"MARKUP_DECLARATION", "CDATA"}
  BY ClassesAreDisjoint
<1>2. state' \notin {"DATA", "CHAR_REF_IN_DATA"} \union ReferenceStates
  BY <1>1 DEF Text, DataStates, ReferenceStates
<1> QED BY <1>1, <1>2 DEF Begun, TextBegun, OpenerBegun, TagBegun, DeclarationBegun, SectionBegun, CommentBegun

\* After a token text goes on where the token ended.
LEMMA TextGoesOn ==
  ASSUME state' \in Text \ ReferenceStates, tokenStart' = pos', pos' \in Nat
  PROVE  Begun'
PROOF
<1>1. EmptyEnds(source', tokenStart', pos')
  BY NoEmptyEnds
<1>2. TextBegun'
  BY <1>1 DEF TextBegun
<1> QED BY <1>2, TextHasBegun

LEMMA PartsOfStream ==
  ASSUME Behind', SecondBegun', Begun'
  PROVE  StreamInv'
PROOF BY DEF Behind, StreamInv

-----------------------------------------------------------------------------
(***************************************************************************)
(* The steps that emit no token.                                           *)
(***************************************************************************)
LEMMA SecondIsOut == ASSUME buffered' = None PROVE SecondBegun'
PROOF BY Zenon DEF SecondBegun

LEMMA HandlerStepsBehind ==
  ASSUME IInv, StreamInv, In(state), NEW next, NextChar(next) \/ Reconsume(next),
         inCdata' => foreign \/ inCdata
  PROVE  /\ Behind' /\ SecondBegun' /\ Reading /\ Begun
         /\ state' = next /\ tokenStart' = tokenStart
         /\ pos' \in 1 .. Len(source') /\ pos <= pos'
         /\ NextChar(next) => pos' = IF Current = EOF THEN pos ELSE pos + 1
         /\ ~NextChar(next) => pos' = pos /\ source' = source
         /\ Current = EOF => Current' = EOF
PROOF
<1>1. /\ Reading /\ pos' \in 1 .. Len(source') /\ state' = next /\ foreign' = foreign
      /\ (NextChar(next) => pos' = IF Current = EOF THEN pos ELSE pos + 1)
      /\ UNCHANGED <<tokens, handled, tokenStart>> /\ buffered' = None
  BY HandlerReadsOn
<1>2. /\ pos \in 1 .. Len(source) /\ pos \in Nat /\ pos' \in Nat
      /\ \A i \in 1 .. Len(source) : source'[i] = source[i]
  BY <1>1, PageIsExtended DEF Reading
<1>3. ~NextChar(next) => pos' = pos /\ source' = source
  BY DEF Reconsume, inputVars
<1>4. pos <= pos'
  BY <1>1, <1>2, <1>3
<1>5. Behind'
  BY <1>1, <1>2, <1>4, StepsBehind
<1>6. Current = EOF => Current' = EOF
  <2> SUFFICES ASSUME Current = EOF PROVE Current' = EOF
    OBVIOUS
  <2>1. pos' = pos
    BY <1>1, <1>3
  <2> QED BY <1>2, <2>1 DEF Current
<1> QED BY <1>1, <1>3, <1>4, <1>5, <1>6, SecondIsOut DEF StreamInv

\* What is read of the next token is known of the page as it is after the step.
LEMMA BegunEmptyEnds ==
  ASSUME IInv, Reading, NEW b \in Nat, b <= Len(source) + 1, EmptyEnds(source, tokenStart, b)
  PROVE  EmptyEnds(source', tokenStart, b)
PROOF
<1>1. Extends(source, source') /\ tokenStart \in 1 .. Len(source) /\ tokenStart \in Nat
  BY PageIsExtended
<1> QED BY <1>1, EmptyEndsStay

LEMMA StreamAfterText ==
  ASSUME IInv, StreamInv, MeetsReference \/ SwitchesScript \/ ScriptEnds
  PROVE  StreamInv'
PROOF
<1>1. In(state) /\ inCdata' = inCdata /\ (NextChar(state') \/ Reconsume(state'))
  BY DEF MeetsReference, SwitchesScript, ScriptEnds, KeepDoctypeAndCdata
<1>2. /\ Behind' /\ SecondBegun' /\ Reading /\ Begun /\ tokenStart' = tokenStart
      /\ (Current = EOF => Current' = EOF)
  BY <1>1, HandlerStepsBehind
<1>3. CASE MeetsReference
  <2>1. /\ <<state, state'>> \in {<<"DATA", "CHAR_REF_IN_DATA">>, <<"RCDATA", "CHAR_REF_IN_RCDATA">>}
        /\ Current \in References /\ source' = source /\ pos' = pos
    BY <1>3 DEF MeetsReference, Reconsume, inputVars
  <2>2. Current # EOF
    BY Zenon, <2>1 DEF References, EOF
  <2>3. state' \in Text /\ Current' = Current
    BY <2>1 DEF Text, DataStates, Current
  <2>4. CASE state = "DATA" /\ state' = "CHAR_REF_IN_DATA"
    <3>1. EmptyEnds(source', tokenStart', pos')
      BY <1>2, <2>1, <2>2, <2>4 DEF Begun, TextBegun
    <3>2. TextBegun'
      BY <2>1, <2>3, <2>4, <3>1 DEF TextBegun
    <3> QED BY <1>2, <2>3, <3>2, TextHasBegun, PartsOfStream
  <2>5. CASE state = "RCDATA" /\ state' = "CHAR_REF_IN_RCDATA"
    <3>1. tokenStart = pos
      BY <1>2, <2>5 DEF Begun, TextBegun, Text, DataStates
    <3>2. TextBegun'
      BY <1>2, <2>1, <2>3, <2>5, <3>1 DEF TextBegun
    <3> QED BY <1>2, <2>3, <3>2, TextHasBegun, PartsOfStream
  <2> QED BY <2>1, <2>4, <2>5
<1>4. CASE SwitchesScript
  <2>1. state \in ScriptStates /\ state' \in ScriptStates \union {"SCRIPT"} /\ source' = source /\ pos' = pos
    BY <1>4 DEF SwitchesScript, Reconsume, inputVars
  <2>2. /\ \A s \in ScriptStates \union {"SCRIPT"} : s \in Text
        /\ \A s \in ScriptStates \union {"SCRIPT"} : s \notin {"DATA", "CHAR_REF_IN_DATA"} \union ReferenceStates
    BY DEF Text, DataStates, ScriptStates, ReferenceStates
  <2>3. tokenStart = pos
    BY <1>2, <2>1, <2>2 DEF Begun, TextBegun
  <2>4. TextBegun'
    BY <1>2, <2>1, <2>2, <2>3 DEF TextBegun
  <2> QED BY <1>2, <2>1, <2>2, <2>4, TextHasBegun, PartsOfStream
<1>5. CASE ScriptEnds
  <2>1. state' = "DATA" /\ Current = EOF
    BY <1>5 DEF ScriptEnds
  <2>2. state' \in Text /\ state' \notin ReferenceStates
    BY <2>1 DEF Text, DataStates, ReferenceStates
  <2>3. TextBegun'
    BY <1>2, <2>1, <2>2 DEF TextBegun
  <2> QED BY <1>2, <2>2, <2>3, TextHasBegun, PartsOfStream
<1> QED BY <1>3, <1>4, <1>5

\* A "<" may begin a tag.
LEMMA StreamAfterOpensTag ==
  ASSUME IInv, StreamInv, OpensTag
  PROVE  StreamInv'
PROOF
<1>1. /\ In(state) /\ inCdata' = inCdata /\ NextChar(state') /\ Current = "<" /\ mark' = pos
      /\ state \in Text \ ReferenceStates /\ state' \in LtStates
  BY DEF OpensTag, KeepDoctypeAndCdata, ClearTemporary
<1>2. /\ Behind' /\ SecondBegun' /\ Reading /\ Begun /\ tokenStart' = tokenStart
      /\ pos' = IF Current = EOF THEN pos ELSE pos + 1
  BY <1>1, HandlerStepsBehind
<1>3. pos' = pos + 1
  BY <1>1, <1>2 DEF EOF
<1>4. pos \in 1 .. Len(source) /\ pos \in Nat /\ Len(source) \in Nat /\ tokenStart \in Nat
  BY <1>2, PageIsExtended
<1>5. EmptyEnds(source, tokenStart, pos)
  <2>1. CASE state \in {"DATA", "CHAR_REF_IN_DATA"}
    BY <1>1, <1>2, <2>1 DEF Begun, TextBegun, EOF
  <2>2. CASE state \notin {"DATA", "CHAR_REF_IN_DATA"}
    <3>1. tokenStart = pos
      BY <1>1, <1>2, <2>2 DEF Begun, TextBegun
    <3> QED BY <1>4, <3>1, NoEmptyEnds
  <2> QED BY <2>1, <2>2
<1>6. EmptyEnds(source', tokenStart, pos) /\ source'[pos] = "<"
  BY <1>1, <1>2, <1>4, <1>5, BegunEmptyEnds DEF Reading, Current
<1>7. OpenerBegun'
  BY <1>1, <1>2, <1>3, <1>4, <1>6 DEF OpenerBegun, StreamInv
<1>8. state' \in Openers
  BY <1>1 DEF Openers
<1> QED BY <1>2, <1>7, <1>8, OpenerHasBegun, PartsOfStream

\* What is read of an end tag.
LEMMA StreamAfterOpener ==
  ASSUME IInv, StreamInv, ReadsSlash \/ BeginsEndTag \/ ReadsEndTagName
  PROVE  StreamInv'
PROOF
<1>1. /\ In(state) /\ inCdata' = inCdata /\ NextChar(state') /\ mark' = mark
      /\ state \in Openers /\ state' \in Openers
  BY DEF ReadsSlash, BeginsEndTag, ReadsEndTagName, KeepDoctypeAndCdata, AppendTemporary, Openers
<1>2. /\ Behind' /\ SecondBegun' /\ Reading /\ Begun /\ tokenStart' = tokenStart
      /\ pos' \in 1 .. Len(source') /\ pos <= pos'
  BY <1>1, HandlerStepsBehind
<1>3. /\ pos \in Nat /\ Len(source) \in Nat /\ mark \in 1 .. Len(source) /\ tokenStart \in Nat
      /\ pos' \in Nat
  BY <1>2, PageIsExtended
<1>4. tokenStart <= mark /\ mark < pos /\ EmptyEnds(source, tokenStart, mark) /\ source[mark] = "<"
  BY <1>1, <1>2 DEF Begun, OpenerBegun
<1>5. EmptyEnds(source', tokenStart, mark) /\ source'[mark] = "<"
  BY <1>2, <1>3, <1>4, BegunEmptyEnds DEF Reading
<1>6. OpenerBegun'
  BY <1>1, <1>2, <1>3, <1>4, <1>5 DEF OpenerBegun
<1> QED BY <1>1, <1>2, <1>6, OpenerHasBegun, PartsOfStream

\* What an opener has read begins with a "<".
LEMMA OpenerIsLessThan ==
  ASSUME IInv, StreamInv, In(state), state \in Openers
  PROVE  /\ source[mark] = "<" /\ source[tokenStart] = "<"
         /\ tokenStart <= mark /\ mark < pos /\ EmptyEnds(source, tokenStart, mark)
         /\ pos = mark + Len(temporary) /\ temporary \in Seq(Unit) /\ mark \in Nat /\ tokenStart \in Nat
         /\ \A i \in 1 .. Len(temporary) : temporary[i] = source[mark + i - 1]
PROOF
<1>1. /\ emitAt = 0 /\ temporary \in Seq(Unit) /\ mark \in Nat /\ tokenStart \in Nat /\ pos \in Nat
  BY DEF In, IInv, BuffersOK, InputOK
<1>2. /\ pos = mark + Len(temporary)
      /\ \A i \in 1 .. Len(temporary) : temporary[i] = source[mark + i - 1]
  BY <1>1 DEF IInv, TemporaryBufferIsTheInput, Openers
<1>3. tokenStart <= mark /\ mark < pos /\ EmptyEnds(source, tokenStart, mark) /\ source[mark] = "<"
  BY DEF StreamInv, Begun, OpenerBegun
<1>4. source[tokenStart] = "<"
  BY <1>1, <1>3, EmptyEndsAhead
<1> QED BY <1>1, <1>2, <1>3, <1>4

LEMMA StreamAfterEmptyEnd ==
  ASSUME IInv, StreamInv, SkipsEmptyEnd
  PROVE  StreamInv'
PROOF
<1>1. In(state) /\ state = "END_TAG_OPEN" /\ Current = ">" /\ NextChar("DATA") /\ inCdata' = inCdata
  BY DEF SkipsEmptyEnd, In, KeepDoctypeAndCdata
<1>2. /\ Behind' /\ SecondBegun' /\ Reading /\ tokenStart' = tokenStart /\ state' = "DATA"
      /\ pos' = IF Current = EOF THEN pos ELSE pos + 1
  BY <1>1, HandlerStepsBehind
<1>3. pos' = pos + 1
  BY <1>1, <1>2 DEF EOF
<1>4. "END_TAG_OPEN" \in EndTagOpenStates /\ "END_TAG_OPEN" \in Openers
  BY DEF EndTagOpenStates, Openers
<1>5. /\ source[mark] = "<" /\ EmptyEnds(source, tokenStart, mark) /\ tokenStart \in Nat
      /\ pos = mark + Len(temporary) /\ temporary \in Seq(Unit) /\ mark \in Nat
      /\ \A i \in 1 .. Len(temporary) : temporary[i] = source[mark + i - 1]
  BY <1>1, <1>4, OpenerIsLessThan
<1>6. temporary = <<"<", "/">>
  BY <1>1, <1>4 DEF In, IInv, TemporaryBufferIsTheInput
<1>7. pos = mark + 2 /\ source[mark + 1] = "/" /\ source[mark + 2] = ">"
  <2>1. Len(temporary) = 2 /\ temporary[2] = "/" /\ 2 \in 1 .. Len(temporary)
    BY <1>6
  <2>2. temporary[2] = source[mark + 2 - 1]
    BY <1>5, <2>1
  <2> QED BY <1>1, <1>5, <2>1, <2>2 DEF Current
<1>8. EmptyEnds(source, tokenStart, mark + 3)
  BY <1>5, <1>7, OneMoreEmptyEnd
<1>9. pos \in 1 .. Len(source) /\ Len(source) \in Nat
  BY <1>2, PageIsExtended
<1>10. EmptyEnds(source', tokenStart, mark + 3)
  BY <1>2, <1>5, <1>7, <1>8, <1>9, BegunEmptyEnds
<1>11. pos' = mark + 3
  BY <1>3, <1>5, <1>7
<1>12. TextBegun'
  BY <1>2, <1>10, <1>11 DEF TextBegun, ReferenceStates
<1>13. state' \in Text
  BY <1>2 DEF Text, DataStates
<1> QED BY <1>2, <1>12, <1>13, TextHasBegun, PartsOfStream

-----------------------------------------------------------------------------
\* A tag.
LEMMA StreamInTag ==
  ASSUME IInv, StreamInv, In(state), NEW next \in TagStates, NextChar(next) \/ Reconsume(next),
         inCdata' = inCdata, tokenStart < pos, source[tokenStart] = "<"
  PROVE  StreamInv'
PROOF
<1>1. /\ Behind' /\ SecondBegun' /\ Reading /\ tokenStart' = tokenStart /\ state' = next
      /\ pos' \in 1 .. Len(source') /\ pos <= pos'
  BY HandlerStepsBehind
<1>2. /\ tokenStart \in 1 .. Len(source) /\ pos \in Nat /\ tokenStart \in Nat /\ pos' \in Nat
      /\ \A i \in 1 .. Len(source) : source'[i] = source[i]
  BY <1>1, PageIsExtended
<1>3. TagBegun'
  BY <1>1, <1>2 DEF TagBegun
<1> QED BY <1>1, <1>3, TagHasBegun, PartsOfStream

LEMMA StreamAfterTagBegins ==
  ASSUME IInv, StreamInv, BeginsTag \/ EntersEndTag \/ ReadsTag
  PROVE  StreamInv'
PROOF
<1>1. CASE BeginsTag \/ EntersEndTag
  <2>1. In(state) /\ state \in Openers /\ state' \in TagStates /\ NextChar(state') /\ inCdata' = inCdata
    <3>1. {"TAG_OPEN", "END_TAG_OPEN"} \subseteq Openers /\ EndTagNameStates \subseteq Openers
      BY DEF Openers, LtStates, EndTagOpenStates
    <3>2. {"TAG_NAME", "BEFORE_ATTR_NAME", "SELF_CLOSING_START_TAG"} \subseteq TagStates
      BY DEF TagStates
    <3>3. CASE BeginsTag
      <4>1. state' = "TAG_NAME"
        BY <3>3 DEF BeginsTag, NextChar
      <4> QED BY <3>1, <3>2, <3>3, <4>1 DEF BeginsTag, KeepDoctypeAndCdata
    <3>4. CASE EntersEndTag
      BY <3>1, <3>2, <3>4 DEF EntersEndTag, KeepDoctypeAndCdata
    <3> QED BY <1>1, <3>3, <3>4
  <2>2. source[tokenStart] = "<" /\ tokenStart <= mark /\ mark < pos /\ mark \in Nat /\ tokenStart \in Nat
    BY <2>1, OpenerIsLessThan
  <2>3. pos \in Nat
    BY DEF IInv, InputOK
  <2> QED BY <2>1, <2>2, <2>3, StreamInTag
<1>2. CASE ReadsTag
  <2>1. In(state) /\ state \in TagStates /\ (NextChar(state') \/ Reconsume(state')) /\ inCdata' = inCdata
    BY <1>2 DEF ReadsTag, KeepDoctypeAndCdata
  <2>2. state' \in TagStates
    BY <1>2, <2>1, TagMovesKeepTheTag, PartsOfInvariant DEF ReadsTag
  <2>3. tokenStart < pos /\ source[tokenStart] = "<"
    BY <2>1 DEF StreamInv, Begun, TagBegun
  <2> QED BY <2>1, <2>2, <2>3, StreamInTag
<1> QED BY <1>1, <1>2

LEMMA StreamAfterAbandonsTag ==
  ASSUME IInv, StreamInv, AbandonsTag
  PROVE  StreamInv'
PROOF
<1>1. In(state) /\ Current = EOF /\ (NextChar("DATA") \/ Reconsume("DATA")) /\ inCdata' = inCdata
  BY DEF AbandonsTag, KeepDoctypeAndCdata
<1>2. Behind' /\ SecondBegun' /\ state' = "DATA" /\ Current' = EOF
  BY <1>1, HandlerStepsBehind
<1>3. TextBegun'
  BY <1>2 DEF TextBegun, ReferenceStates
<1>4. state' \in Text
  BY <1>2 DEF Text, DataStates
<1> QED BY <1>2, <1>3, <1>4, TextHasBegun, PartsOfStream

-----------------------------------------------------------------------------
(***************************************************************************)
(* Comments, sections and doctypes, as far as they are read.               *)
(***************************************************************************)
LEMMA StreamAfterBeginsMarkup ==
  ASSUME IInv, StreamInv, BeginsMarkup
  PROVE  StreamInv'
PROOF
<1>1. /\ In(state) /\ state = "TAG_OPEN" /\ Current = "!" /\ NextChar("MARKUP_DECLARATION")
      /\ temporary' = <<>> /\ inCdata' = inCdata
  BY DEF BeginsMarkup, In, ClearTemporary, KeepDoctypeAndCdata
<1>2. /\ Behind' /\ SecondBegun' /\ Reading /\ tokenStart' = tokenStart /\ state' = "MARKUP_DECLARATION"
      /\ pos' = IF Current = EOF THEN pos ELSE pos + 1
  BY <1>1, HandlerStepsBehind
<1>3. "TAG_OPEN" \in LtStates /\ "TAG_OPEN" \in Openers
  BY DEF LtStates, Openers
<1>4. /\ source[mark] = "<" /\ tokenStart <= mark /\ EmptyEnds(source, tokenStart, mark)
      /\ pos = mark + Len(temporary) /\ mark \in Nat /\ tokenStart \in Nat
  BY <1>1, <1>3, OpenerIsLessThan
<1>5. temporary = <<"<">>
  BY <1>1, <1>3 DEF In, IInv, TemporaryBufferIsTheInput
<1>6. pos = mark + 1 /\ pos' = mark + 2
  BY <1>1, <1>2, <1>4, <1>5 DEF EOF
<1>7. /\ pos \in 1 .. Len(source) /\ mark \in 1 .. Len(source) /\ Len(source) \in Nat
      /\ \A i \in 1 .. Len(source) : source'[i] = source[i]
  BY <1>2, PageIsExtended
<1>8. EmptyEnds(source', tokenStart, mark)
  BY <1>2, <1>4, <1>7, BegunEmptyEnds
<1>9. source'[mark] = "<" /\ source'[mark + 1] = "!"
  BY <1>1, <1>4, <1>6, <1>7 DEF Current
<1>10. DeclarationBegun'
  <2>1. pos' - 2 = mark /\ pos' - 1 = mark + 1 /\ tokenStart + 2 <= pos'
    BY <1>4, <1>6
  <2> QED BY <1>1, <1>2, <1>8, <1>9, <2>1 DEF DeclarationBegun
<1> QED BY <1>2, <1>10, DeclarationHasBegun, PartsOfStream

\* How a comment is begun: m is where it is opened, by o units.
LEMMA CommentBegins ==
  ASSUME Behind', SecondBegun', state' \in {"BOGUS_COMMENT", "COMMENT_START"},
         NEW m \in Nat, NEW o \in {1, 2, 4},
         tokenStart' <= m, EmptyEnds(source', tokenStart', m), OpensComment(source', m, o),
         Reads(temporary', source', m + o), temporary' \in Seq(Unit), pos' = m + o + Len(temporary'),
         o = 4 <=> state' # "BOGUS_COMMENT",
         o = 2 /\ source'[m + 1] = "/" => temporary' # <<>>,
         o = 4 => temporary' = <<>>
  PROVE  StreamInv'
PROOF
<1>1. HeldIn(state') = <<>> /\ Len(HeldIn(state')) = 0
  <2>1. HeldIn(state') = <<>>
    BY DEF HeldIn
  <2> QED BY <2>1
<1>2. Reads(HeldIn(state'), source', m + o + Len(temporary'))
  BY <1>1, ReadsNothing
<1>3. pos' = m + o + Len(temporary') + Len(HeldIn(state'))
  BY <1>1
<1>4. state' \in {"COMMENT_START", "COMMENT_START_DASH"} => temporary' = <<>>
  OBVIOUS
<1>5. CommentBegun'
  BY <1>2, <1>3, <1>4 DEF CommentBegun
<1>6. state' \in CommentStates
  BY DEF CommentStates
<1> QED BY <1>5, <1>6, CommentHasBegun, PartsOfStream

LEMMA StreamAfterBeginsBogus ==
  ASSUME IInv, StreamInv, BeginsBogus
  PROVE  StreamInv'
PROOF
<1>1. /\ In(state) /\ NextChar("BOGUS_COMMENT") /\ temporary' = <<Current>> /\ inCdata' = inCdata
      /\ \/ state = "TAG_OPEN" /\ Current = "?"
         \/ state = "END_TAG_OPEN" /\ Current \notin {">", EOF}
  BY DEF BeginsBogus, In, ClearTemporary, KeepDoctypeAndCdata
<1>2. /\ Behind' /\ SecondBegun' /\ Reading /\ tokenStart' = tokenStart /\ state' = "BOGUS_COMMENT"
      /\ pos' = IF Current = EOF THEN pos ELSE pos + 1
  BY <1>1, HandlerStepsBehind
<1>3. /\ "TAG_OPEN" \in LtStates /\ "TAG_OPEN" \in Openers
      /\ "END_TAG_OPEN" \in EndTagOpenStates /\ "END_TAG_OPEN" \in Openers
  BY DEF LtStates, EndTagOpenStates, Openers
<1>4. /\ source[mark] = "<" /\ tokenStart <= mark /\ EmptyEnds(source, tokenStart, mark)
      /\ pos = mark + Len(temporary) /\ mark \in Nat /\ tokenStart \in Nat
      /\ temporary \in Seq(Unit) /\ \A i \in 1 .. Len(temporary) : temporary[i] = source[mark + i - 1]
  BY <1>1, <1>3, OpenerIsLessThan
<1>5. /\ pos \in 1 .. Len(source) /\ mark \in 1 .. Len(source) /\ Len(source) \in Nat
      /\ \A i \in 1 .. Len(source) : source'[i] = source[i]
  BY <1>2, PageIsExtended
<1>6. EmptyEnds(source', tokenStart', mark) /\ source'[mark] = "<" /\ source'[pos] = Current
  BY <1>2, <1>4, <1>5, BegunEmptyEnds DEF Current
<1>7. /\ Current \in Unit /\ temporary' \in Seq(Unit) /\ Len(temporary') = 1 /\ temporary' # <<>>
      /\ pos' = pos + 1
  <2>1. Current \in Unit
    BY CurrentIsAUnit DEF IInv
  <2>2. pos' = pos + 1
    BY <1>1, <1>2 DEF EOF
  <2> QED BY <1>1, <2>1, <2>2
<1>8. Reads(temporary', source', pos)
  BY <1>1, <1>5, <1>6, <1>7, ReadsOne
<1>9. CASE state = "TAG_OPEN" /\ Current = "?"
  <2>1. temporary = <<"<">>
    BY <1>1, <1>3, <1>9 DEF In, IInv, TemporaryBufferIsTheInput
  <2>2. pos = mark + 1
    BY <1>4, <2>1
  <2>3. OpensComment(source', mark, 1)
    BY <1>6, <1>9, <2>2 DEF OpensComment
  <2>4. pos' = mark + 1 + Len(temporary') /\ tokenStart' <= mark
    BY <1>2, <1>4, <1>7, <2>2
  <2> QED BY <1>2, <1>4, <1>6, <1>7, <1>8, <2>2, <2>3, <2>4, CommentBegins
<1>10. CASE state = "END_TAG_OPEN" /\ Current \notin {">", EOF}
  <2>1. temporary = <<"<", "/">>
    BY <1>1, <1>3, <1>10 DEF In, IInv, TemporaryBufferIsTheInput
  <2>2. pos = mark + 2 /\ source[mark + 1] = "/"
    <3>1. Len(temporary) = 2 /\ temporary[2] = "/" /\ 2 \in 1 .. Len(temporary)
      BY <2>1
    <3>2. temporary[2] = source[mark + 2 - 1]
      BY <1>4, <3>1
    <3> QED BY <1>4, <3>1, <3>2
  <2>3. source'[mark + 1] = "/" /\ source'[mark + 2] # ">"
    BY <1>5, <1>6, <1>10, <2>2
  <2>4. OpensComment(source', mark, 2)
    BY <1>6, <2>3 DEF OpensComment
  <2>5. pos' = mark + 2 + Len(temporary') /\ tokenStart' <= mark
    BY <1>2, <1>4, <1>7, <2>2
  <2> QED BY <1>2, <1>4, <1>6, <1>7, <1>8, <2>2, <2>4, <2>5, CommentBegins
<1> QED BY <1>1, <1>9, <1>10

\* Where a declaration has been opened.
LEMMA DeclarationOpened ==
  ASSUME IInv, StreamInv, Reading, state = "MARKUP_DECLARATION"
  PROVE  /\ pos - 2 \in Nat /\ tokenStart <= pos - 2 /\ EmptyEnds(source', tokenStart, pos - 2)
         /\ source'[pos - 2] = "<" /\ source'[pos - 1] = "!" /\ source'[pos] = source[pos]
         /\ temporary = <<>> /\ pos \in 1 .. Len(source) /\ Len(source) \in Nat /\ tokenStart \in Nat
         /\ \A i \in 1 .. Len(source) : source'[i] = source[i]
PROOF
<1>1. /\ pos \in 1 .. Len(source) /\ Len(source) \in Nat /\ tokenStart \in 1 .. Len(source)
      /\ \A i \in 1 .. Len(source) : source'[i] = source[i]
  BY PageIsExtended
<1>2. /\ tokenStart + 2 <= pos /\ EmptyEnds(source, tokenStart, pos - 2)
      /\ source[pos - 2] = "<" /\ source[pos - 1] = "!" /\ temporary = <<>>
  BY DEF StreamInv, Begun, DeclarationBegun
<1>3. pos - 2 \in Nat /\ pos - 2 \in 1 .. Len(source) /\ pos - 1 \in 1 .. Len(source)
  BY <1>1, <1>2
<1>4. EmptyEnds(source', tokenStart, pos - 2)
  BY <1>1, <1>2, <1>3, BegunEmptyEnds
<1> QED BY <1>1, <1>2, <1>3, <1>4

LEMMA StreamAfterDeclaration ==
  ASSUME IInv, StreamInv, BeginsComment \/ BeginsBogusComment \/ BeginsCdata
  PROVE  StreamInv'
PROOF
<1>1. In(state) /\ state = "MARKUP_DECLARATION"
  BY DEF BeginsComment, BeginsBogusComment, BeginsCdata, In
<1>2. CASE BeginsComment
  <2>1. /\ TwoDashes /\ AdvanceTo(pos + 2) /\ state' = "COMMENT_START" /\ temporary' = temporary
        /\ foreign' = foreign /\ inCdata' = inCdata /\ buffered' = buffered
        /\ tokens' = tokens /\ tokenStart' = tokenStart
    BY <1>2 DEF BeginsComment, KeepsBuffer, KeepDoctypeAndCdata, outputVars
  <2>2. InputOK /\ pos + 2 \in Nat /\ 1 <= pos + 2 /\ pos + 2 <= Len(source) + 1
    BY <2>1 DEF IInv, InputOK, TwoDashes
  <2>3. Reading /\ pos' = pos + 2
    BY <2>1, <2>2, AdvanceToReads
  <2>4. Behind' /\ SecondBegun'
    <3>1. buffered' = None
      BY <1>1, <2>1 DEF In
    <3>2. pos \in Nat
      BY <2>2 DEF InputOK
    <3> QED BY <2>1, <2>3, <3>1, <3>2, StepsBehind, SecondIsOut
  <2>5. /\ pos - 2 \in Nat /\ tokenStart <= pos - 2 /\ EmptyEnds(source', tokenStart, pos - 2)
        /\ source'[pos - 2] = "<" /\ source'[pos - 1] = "!" /\ source'[pos] = source[pos]
        /\ temporary = <<>> /\ pos \in 1 .. Len(source) /\ Len(source) \in Nat
        /\ \A i \in 1 .. Len(source) : source'[i] = source[i]
    BY <1>1, <2>3, DeclarationOpened
  <2>6. source'[pos] = "-" /\ source'[pos + 1] = "-"
    <3>1. source[pos] = "-" /\ source[pos + 1] = "-" /\ pos + 1 \in 1 .. Len(source)
      BY <2>1, <2>5 DEF TwoDashes, Current
    <3> QED BY <2>5, <3>1
  <2>7. OpensComment(source', pos - 2, 4)
    <3>1. (pos - 2) + 1 = pos - 1 /\ (pos - 2) + 2 = pos /\ (pos - 2) + 3 = pos + 1
      BY <2>5
    <3> QED BY <2>5, <2>6, <3>1 DEF OpensComment
  <2>8. /\ temporary' = <<>> /\ temporary' \in Seq(Unit) /\ Len(temporary') = 0
        /\ pos' = (pos - 2) + 4 + Len(temporary')
    BY <2>1, <2>3, <2>5
  <2>9. Reads(temporary', source', (pos - 2) + 4)
    BY <2>8, ReadsNothing
  <2>10. tokenStart' <= pos - 2 /\ EmptyEnds(source', tokenStart', pos - 2)
    BY <2>1, <2>5
  <2> HIDE DEF TwoDashes
  <2> QED BY <2>1, <2>4, <2>5, <2>7, <2>8, <2>9, <2>10, CommentBegins
<1>3. CASE BeginsBogusComment
  <2>1. /\ ~TwoDashes /\ (Current = "-" => pos < Len(source)) /\ Reconsume("BOGUS_COMMENT")
        /\ temporary' = <<>> /\ inCdata' = inCdata /\ source' = source /\ pos' = pos
    BY <1>3 DEF BeginsBogusComment, ClearTemporary, KeepDoctypeAndCdata, Reconsume, inputVars
  <2>2. Behind' /\ SecondBegun' /\ Reading /\ tokenStart' = tokenStart /\ state' = "BOGUS_COMMENT"
    BY <1>1, <2>1, HandlerStepsBehind
  <2>3. /\ pos - 2 \in Nat /\ tokenStart <= pos - 2 /\ EmptyEnds(source', tokenStart, pos - 2)
        /\ source'[pos - 2] = "<" /\ source'[pos - 1] = "!" /\ source'[pos] = source[pos]
        /\ pos \in 1 .. Len(source) /\ Len(source) \in Nat
    BY <1>1, <2>2, DeclarationOpened
  <2>4. OpensComment(source', pos - 2, 2)
    <3>1. (pos - 2) + 1 = pos - 1 /\ (pos - 2) + 2 = pos /\ (pos - 2) + 3 = pos + 1
      BY <2>3
    <3>2. source'[pos] = "-" => pos + 1 <= Len(source') /\ source'[pos + 1] # "-"
      BY <2>1, <2>3 DEF TwoDashes, Current
    <3> QED BY <2>3, <3>1, <3>2 DEF OpensComment
  <2>5. /\ temporary' \in Seq(Unit) /\ Len(temporary') = 0 /\ pos' = (pos - 2) + 2 + Len(temporary')
    BY <2>1, <2>3
  <2>6. Reads(temporary', source', (pos - 2) + 2)
    BY <2>1, ReadsNothing
  <2>7. source'[(pos - 2) + 1] # "/"
    <3>1. (pos - 2) + 1 = pos - 1
      BY <2>3
    <3> QED BY <2>3, <3>1
  <2>8. tokenStart' <= pos - 2 /\ EmptyEnds(source', tokenStart', pos - 2)
    BY <2>2, <2>3
  <2> QED BY <2>2, <2>3, <2>4, <2>5, <2>6, <2>7, <2>8, CommentBegins
<1>4. CASE BeginsCdata
  <2>1. foreign /\ Current = "[CDATA[" /\ NextChar("CDATA") /\ inCdata' = TRUE
    BY <1>4 DEF BeginsCdata
  <2>2. /\ Behind' /\ SecondBegun' /\ Reading /\ tokenStart' = tokenStart /\ state' = "CDATA"
        /\ pos' = IF Current = EOF THEN pos ELSE pos + 1
    BY <1>1, <2>1, HandlerStepsBehind
  <2>3. /\ pos - 2 \in Nat /\ tokenStart <= pos - 2 /\ EmptyEnds(source', tokenStart, pos - 2)
        /\ source'[pos - 2] = "<" /\ source'[pos - 1] = "!" /\ source'[pos] = source[pos]
        /\ pos \in 1 .. Len(source) /\ Len(source) \in Nat /\ tokenStart \in Nat
    BY <1>1, <2>2, DeclarationOpened
  <2>4. pos' = pos + 1 /\ source'[pos] = "[CDATA["
    BY <2>1, <2>2, <2>3 DEF EOF, Current
  <2>5. pos' - 3 = pos - 2 /\ pos' - 2 = pos - 1 /\ pos' - 1 = pos /\ tokenStart + 3 <= pos'
    BY <2>3, <2>4
  <2>6. SectionBegun'
    BY <2>1, <2>2, <2>3, <2>4, <2>5 DEF SectionBegun
  <2> QED BY <2>2, <2>6, SectionHasBegun, PartsOfStream
<1> QED BY <1>2, <1>3, <1>4

LEMMA StreamAfterLookAhead ==
  ASSUME IInv, StreamInv, LookAhead
  PROVE  StreamInv'
PROOF
<1>1. /\ In(state) /\ state = "MARKUP_DECLARATION" /\ pos' = pos /\ state' = state
      /\ foreign' = foreign /\ inCdata' = inCdata /\ buffered' = None /\ temporary' = temporary
      /\ tokens' = tokens /\ tokenStart' = tokenStart
  BY DEF LookAhead, In, modeVars, temporaryVars, outputVars
<1>2. InputOK /\ pos \in Nat
  BY DEF IInv, InputOK
<1>3. Reading
  <2>1. PICK u \in Following : source' = Append(source, u)
    BY DEF LookAhead
  <2>2. u \in Unit /\ source \in Seq(Unit) /\ Len(source) \in Nat
    BY <1>2, <2>1, FollowingAreUnits DEF InputOK
  <2> QED BY <2>1, <2>2, Appended DEF Reading
<1>4. Behind' /\ SecondBegun'
  BY <1>1, <1>2, <1>3, StepsBehind, SecondIsOut
<1>5. /\ tokenStart <= pos - 2 /\ EmptyEnds(source', tokenStart, pos - 2) /\ tokenStart \in Nat
      /\ source'[pos - 2] = "<" /\ source'[pos - 1] = "!" /\ temporary = <<>>
  BY <1>1, <1>3, DeclarationOpened
<1>6. DeclarationBegun'
  <2>1. tokenStart + 2 <= pos
    BY <1>2, <1>5
  <2> QED BY <1>1, <1>5, <2>1 DEF DeclarationBegun
<1> QED BY <1>1, <1>4, <1>6, DeclarationHasBegun, PartsOfStream

LEMMA StreamAfterDoctype ==
  ASSUME IInv, StreamInv, BeginsDoctype \/ ReadsDoctype
  PROVE  StreamInv'
PROOF
<1>1. /\ In(state) /\ inCdata' = inCdata /\ state' \in DoctypeStates \union {"BOGUS_DOCTYPE"}
      /\ NextChar(state') \/ Reconsume(state')
  <2>1. CASE BeginsDoctype
    <3>1. In(state) /\ state' = "DOCTYPE" /\ NextChar("DOCTYPE") /\ inCdata' = inCdata
      BY <2>1 DEF BeginsDoctype, In, NextChar
    <3> QED BY <3>1 DEF DoctypeStates
  <2>2. CASE ReadsDoctype
    BY <2>2 DEF ReadsDoctype
  <2> QED BY <2>1, <2>2
<1>2. Behind' /\ SecondBegun'
  BY <1>1, HandlerStepsBehind
<1> QED BY <1>1, <1>2, DoctypeHasBegun, PartsOfStream

\* What is held of a comment is made of units.
LEMMA HeldIsUnits ==
  ASSUME NEW s
  PROVE  HeldIn(s) \in Held /\ HeldIn(s) \in Seq(Unit) /\ Len(HeldIn(s)) \in Nat
PROOF
<1>1. HeldIn(s) \in Held
  BY DEF HeldIn, Held
<1>2. <<>> \in Seq(Unit) /\ <<"-">> \in Seq(Unit) /\ <<"-", "-">> \in Seq(Unit) /\ <<"-", "-", "!">> \in Seq(Unit)
  BY DEF Unit
<1>3. HeldIn(s) \in Seq(Unit)
  BY <1>1, <1>2 DEF Held
<1> QED BY <1>1, <1>3

\* What has been read of a comment, on the page as it is after the step.
LEMMA CommentSoFar ==
  ASSUME IInv, StreamInv, Reading, state \in CommentStates
  PROVE  \E m \in Nat, o \in {1, 2, 4} :
           /\ tokenStart <= m /\ EmptyEnds(source', tokenStart, m) /\ OpensComment(source', m, o)
           /\ Reads(temporary, source', m + o) /\ Reads(HeldIn(state), source', m + o + Len(temporary))
           /\ pos = m + o + Len(temporary) + Len(HeldIn(state))
           /\ o = 4 <=> state # "BOGUS_COMMENT"
           /\ o = 2 /\ source'[m + 1] = "/" => temporary # <<>>
PROOF
<1> DEFINE h == HeldIn(state)
<1>1. h \in Seq(Unit) /\ Len(h) \in Nat
  BY HeldIsUnits
<1>2. /\ Extends(source, source') /\ pos \in 1 .. Len(source) /\ tokenStart \in 1 .. Len(source)
      /\ Len(source) \in Nat /\ \A i \in 1 .. Len(source) : source'[i] = source[i]
  BY PageIsExtended
<1>3. temporary \in Seq(Unit) /\ Len(temporary) \in Nat
  BY DEF IInv, BuffersOK
<1>4. PICK m \in Nat, o \in {1, 2, 4} :
         /\ tokenStart <= m /\ EmptyEnds(source, tokenStart, m) /\ OpensComment(source, m, o)
         /\ Reads(temporary, source, m + o) /\ Reads(h, source, m + o + Len(temporary))
         /\ pos = m + o + Len(temporary) + Len(h)
         /\ o = 4 <=> state # "BOGUS_COMMENT"
         /\ o = 2 /\ source[m + 1] = "/" => temporary # <<>>
  BY Zenon DEF StreamInv, Begun, CommentBegun
<1> HIDE DEF h
<1>5. m + o <= pos /\ 1 <= m /\ m + 1 \in 1 .. Len(source) /\ m \in 1 .. Len(source)
  BY <1>1, <1>2, <1>3, <1>4
<1>6. EmptyEnds(source', tokenStart, m)
  BY <1>2, <1>4, <1>5, BegunEmptyEnds
<1>7. OpensComment(source', m, o)
  BY <1>2, <1>4, <1>5, CommentIsOpened
<1>8. Reads(temporary, source', m + o) /\ Reads(h, source', m + o + Len(temporary))
  BY <1>1, <1>2, <1>3, <1>4, ReadsStays
<1>9. source'[m + 1] = source[m + 1]
  BY <1>2, <1>5
<1>10. /\ tokenStart <= m /\ EmptyEnds(source', tokenStart, m) /\ OpensComment(source', m, o)
       /\ Reads(temporary, source', m + o) /\ Reads(h, source', m + o + Len(temporary))
       /\ pos = m + o + Len(temporary) + Len(h)
       /\ o = 4 <=> state # "BOGUS_COMMENT"
       /\ o = 2 /\ source'[m + 1] = "/" => temporary # <<>>
  BY <1>4, <1>6, <1>7, <1>8, <1>9
<1> QED BY Zenon, <1>10 DEF h

\* A unit more: it goes to the buffer behind what was held, or is held itself.
Grows(s, a, u, h, c, units, held) ==
  /\ u \in Seq(Unit) /\ h \in Seq(Unit) /\ c \in Unit /\ units \in Seq(Unit) /\ held \in Seq(Unit)
  /\ a \in Nat /\ Reads(u, s, a) /\ Reads(h, s, a + Len(u)) /\ s[a + Len(u) + Len(h)] = c
  /\ h \o <<c>> = units \o held

LEMMA CommentReadsOn ==
  ASSUME NEW s, NEW a, NEW u, NEW h, NEW c, NEW units, NEW held, Grows(s, a, u, h, c, units, held)
  PROVE  /\ u \o units \in Seq(Unit)
         /\ Reads(u \o units, s, a) /\ Reads(held, s, a + Len(u \o units))
         /\ Len(u \o units) + Len(held) = Len(u) + Len(h) + 1
         /\ Len(u \o units) \in Nat /\ Len(held) \in Nat
         /\ u # <<>> => u \o units # <<>>
PROOF
<1>0. /\ u \in Seq(Unit) /\ h \in Seq(Unit) /\ c \in Unit /\ units \in Seq(Unit) /\ held \in Seq(Unit)
      /\ a \in Nat /\ Reads(u, s, a) /\ Reads(h, s, a + Len(u)) /\ s[a + Len(u) + Len(h)] = c
      /\ h \o <<c>> = units \o held
  BY Zenon DEF Grows
<1> USE <1>0
<1>1. <<c>> \in Seq(Unit) /\ Len(<<c>>) = 1
  OBVIOUS
<1>2. Len(u) \in Nat /\ Len(h) \in Nat /\ Len(units) \in Nat /\ Len(held) \in Nat
  OBVIOUS
<1> DEFINE b == a + Len(u)
<1>3. b \in Nat /\ b + Len(h) \in Nat
  BY <1>2
<1>4. Reads(h, s, b) /\ s[b + Len(h)] = c
  OBVIOUS
<1> HIDE DEF b
<1>5. Reads(units, s, b) /\ Reads(held, s, b + Len(units))
  <2>1. Reads(<<c>>, s, b + Len(h))
    BY <1>3, <1>4, ReadsOne
  <2>2. Reads(h \o <<c>>, s, b)
    BY Zenon, <1>1, <1>3, <1>4, <2>1, ReadsBoth
  <2>3. Reads(units \o held, s, b)
    BY Zenon, <2>2
  <2> QED BY Zenon, <1>3, <2>3, ReadsBoth
<1>6. Reads(u \o units, s, a)
  <2>1. Reads(units, s, a + Len(u))
    BY <1>5 DEF b
  <2> QED BY Zenon, <2>1, ReadsBoth
<1>7. u \o units \in Seq(Unit) /\ Len(u \o units) = Len(u) + Len(units)
  BY Joined
<1>8. Len(h) + 1 = Len(units) + Len(held)
  <2>1. Len(h \o <<c>>) = Len(h) + Len(<<c>>)
    BY <1>1, Joined
  <2>2. Len(units \o held) = Len(units) + Len(held)
    BY Joined
  <2> QED BY <1>1, <2>1, <2>2
<1>9. b + Len(units) = a + Len(u \o units) /\ Len(u \o units) \in Nat
  BY <1>2, <1>7 DEF b
<1>10. Len(u \o units) + Len(held) = Len(u) + Len(h) + 1
  <2> DEFINE x == Len(u)
             y == Len(units)
             z == Len(held)
             w == Len(h)
             v == Len(u \o units)
  <2>1. x \in Nat /\ y \in Nat /\ z \in Nat /\ w \in Nat /\ v = x + y /\ w + 1 = y + z
    BY Zenon, <1>2, <1>7, <1>8
  <2> HIDE DEF x, y, z, w, v
  <2>2. v + z = x + w + 1
    BY <2>1
  <2> QED BY <2>2 DEF x, z, w, v
<1>11. u # <<>> => u \o units # <<>>
  BY <1>2, <1>7
<1>12. Reads(held, s, a + Len(u \o units))
  BY Zenon, <1>5, <1>9
<1> QED BY Zenon, <1>2, <1>6, <1>7, <1>9, <1>10, <1>11, <1>12

LEMMA StreamAfterReadsComment ==
  ASSUME IInv, StreamInv, ReadsComment
  PROVE  StreamInv'
PROOF
<1>1. /\ In(state) /\ state \in CommentStates /\ state' \in CommentStates
      /\ state = "BOGUS_COMMENT" <=> state' = "BOGUS_COMMENT"
      /\ state' # "COMMENT_START" /\ Current # EOF /\ NextChar(state') /\ inCdata' = inCdata
  BY DEF ReadsComment, KeepDoctypeAndCdata
<1>2. PICK units \in Seq(Unit) :
        /\ AppendTemporary(units)
        /\ HeldIn(state) \o <<Current>> = units \o HeldIn(state')
        /\ state' = "COMMENT_START_DASH" => units = <<>> /\ state = "COMMENT_START"
  BY Zenon DEF ReadsComment
<1>3. /\ Behind' /\ SecondBegun' /\ Reading /\ Begun /\ tokenStart' = tokenStart /\ pos' = pos + 1
  BY <1>1, HandlerStepsBehind
<1>4. PICK m \in Nat, o \in {1, 2, 4} :
         /\ tokenStart <= m /\ EmptyEnds(source', tokenStart, m) /\ OpensComment(source', m, o)
         /\ Reads(temporary, source', m + o) /\ Reads(HeldIn(state), source', m + o + Len(temporary))
         /\ pos = m + o + Len(temporary) + Len(HeldIn(state))
         /\ o = 4 <=> state # "BOGUS_COMMENT"
         /\ o = 2 /\ source'[m + 1] = "/" => temporary # <<>>
  BY Zenon, <1>1, <1>3, CommentSoFar
<1> DEFINE u == temporary
           h == HeldIn(state)
           held == HeldIn(state')
           a == m + o
<1>5. u \in Seq(Unit) /\ h \in Seq(Unit) /\ held \in Seq(Unit) /\ a \in Nat /\ Len(u) \in Nat /\ Len(h) \in Nat
  BY HeldIsUnits DEF IInv, BuffersOK
<1>6. Current \in Unit /\ source'[pos] = Current /\ pos = a + Len(u) + Len(h)
  <2>1. Current \in Unit
    BY CurrentIsAUnit DEF IInv
  <2>2. source'[pos] = source[pos]
    BY <1>3, PageIsExtended
  <2> QED BY <1>4, <2>1, <2>2 DEF Current
<1>7. temporary' = u \o units
  BY <1>2 DEF AppendTemporary
<1>8. Reads(u, source', a) /\ Reads(h, source', a + Len(u)) /\ h \o <<Current>> = units \o held
  BY <1>2, <1>4
<1> HIDE DEF u, h, held, a
<1>13. source'[a + Len(u) + Len(h)] = Current
  BY <1>6
<1>14. Grows(source', a, u, h, Current, units, held)
  BY Zenon, <1>5, <1>6, <1>8, <1>13 DEF Grows
<1>9. /\ u \o units \in Seq(Unit)
      /\ Reads(u \o units, source', a) /\ Reads(held, source', a + Len(u \o units))
      /\ Len(u \o units) + Len(held) = Len(u) + Len(h) + 1
      /\ Len(u \o units) \in Nat /\ Len(held) \in Nat
      /\ u # <<>> => u \o units # <<>>
  BY Zenon, <1>14, CommentReadsOn
<1>10. /\ pos' = m + o + Len(temporary') + Len(HeldIn(state'))
       /\ Reads(temporary', source', m + o)
       /\ Reads(HeldIn(state'), source', m + o + Len(temporary'))
       /\ o = 2 /\ source'[m + 1] = "/" => temporary' # <<>>
  <2>1. pos + 1 = a + Len(u \o units) + Len(held)
    <3> DEFINE v == Len(u \o units)
               x == Len(u)
               w == Len(h)
               z == Len(held)
    <3>1. /\ v + z = x + w + 1 /\ v \in Nat /\ x \in Nat /\ w \in Nat /\ z \in Nat
          /\ pos = a + x + w /\ a \in Nat
      BY Zenon, <1>5, <1>6, <1>9
    <3> HIDE DEF v, x, w, z
    <3>2. pos + 1 = a + v + z
      BY <3>1
    <3> QED BY <3>2 DEF v, z
  <2>2. o = 2 /\ source'[m + 1] = "/" => u # <<>>
    BY <1>4 DEF u
  <2> QED BY <1>3, <1>7, <1>9, <2>1, <2>2 DEF a, held
<1>11. state' \in {"COMMENT_START", "COMMENT_START_DASH"} => temporary' = <<>>
  <2> SUFFICES ASSUME state' = "COMMENT_START_DASH" PROVE temporary' = <<>>
    BY <1>1
  <2>1. units = <<>> /\ state = "COMMENT_START"
    BY <1>2
  <2>2. u = <<>>
    BY <1>1, <1>3, <2>1 DEF Begun, CommentBegun, u
  <2>3. u \o units = <<>>
    BY <2>1, <2>2
  <2> QED BY <1>7, <2>3
<1>12. CommentBegun'
  <2>1. /\ tokenStart' <= m /\ EmptyEnds(source', tokenStart', m) /\ OpensComment(source', m, o)
        /\ o = 4 <=> state' # "BOGUS_COMMENT"
    BY <1>1, <1>3, <1>4
  <2> QED BY Zenon, <1>10, <1>11, <2>1 DEF CommentBegun
<1> QED BY <1>1, <1>3, <1>12, CommentHasBegun, PartsOfStream

-----------------------------------------------------------------------------
\* The end of a section belongs to no token.
LEMMA StreamAfterLeavesCdata ==
  ASSUME IInv, StreamInv, LeavesCdata
  PROVE  StreamInv'
PROOF
<1>1. /\ In(state) /\ state = "CDATA" /\ Current \in {EOF, "]]>"} /\ Advance /\ state' = "DATA"
      /\ tokenStart' = pos' /\ inCdata' = FALSE /\ foreign' = foreign
      /\ tokens' = tokens /\ buffered' = None
  BY DEF LeavesCdata, In
<1>2. Reading /\ pos' \in 1 .. Len(source') /\ pos' = IF Current = EOF THEN pos ELSE pos + 1
  BY <1>1, AdvanceReads DEF IInv
<1>3. /\ Extends(source, source') /\ tokens \in Seq(Token) /\ Len(tokens) \in Nat /\ pos \in 1 .. Len(source)
      /\ Len(source) \in Nat /\ tokenStart \in Nat /\ pos' \in Nat
      /\ \A i \in 1 .. Len(source) : source'[i] = source[i]
  BY <1>2, PageIsExtended
<1>4. tokens # <<>> /\ Last \in Token /\ Last' = Last /\ Last.to \in Nat
  <2>1. tokens # <<>>
    BY <1>1 DEF StreamInv, ForeignBegun, Begun, SectionBegun
  <2>2. Last \in Token /\ Last' = Last
    BY <1>1, <1>3, <2>1 DEF Last
  <2>3. \A t \in Token : t.to \in Nat
    BY DEF Token
  <2> QED BY <2>1, <2>2, <2>3
<1>5. Last.to <= tokenStart /\ tokenStart <= pos
  BY <1>3, <1>4 DEF StreamInv, NextFollows
<1>6. source'[pos] = Current
  BY <1>3 DEF Current
<1>7. NextFollows'
  <2>1. CASE Current = EOF
    <3>1. pos' = pos
      BY <1>2, <2>1
    <3>2. CASE pos = Last.to
      BY <1>1, <1>4, <3>1, <3>2 DEF NextFollows
    <3>3. CASE pos # Last.to
      <4>1. tokenStart' > Last.to /\ source'[tokenStart'] = EOF
        BY <1>1, <1>3, <1>4, <1>5, <1>6, <2>1, <3>1, <3>3
      <4> QED BY <1>1, <1>4, <4>1 DEF NextFollows
    <3> QED BY <3>2, <3>3
  <2>2. CASE Current = "]]>"
    <3>1. pos' = pos + 1
      BY <1>2, <2>2 DEF EOF
    <3>2. tokenStart' > Last.to /\ source'[tokenStart' - 1] = "]]>"
      BY <1>1, <1>3, <1>4, <1>5, <1>6, <2>2, <3>1
    <3> QED BY <1>1, <1>4, <3>2 DEF NextFollows
  <2> QED BY <1>1, <2>1, <2>2
<1>8. TokensStand'
  <2>1. \A i \in 1 .. Len(tokens) : TokenStands(source', tokens, i)
    BY <1>3, TokenStays DEF StreamInv, TokensStand
  <2> QED BY <1>1, <2>1 DEF TokensStand
<1>9. Behind'
  BY <1>1, <1>3, <1>4, <1>7, <1>8 DEF Behind, ForeignBegun
<1>10. state' \in Text \ ReferenceStates
  BY <1>1 DEF Text, DataStates, ReferenceStates
<1>11. Begun'
  BY <1>1, <1>3, <1>10, TextGoesOn
<1> QED BY <1>1, <1>9, <1>11, SecondIsOut, PartsOfStream

-----------------------------------------------------------------------------
(***************************************************************************)
(* The steps that emit a token.                                            *)
(***************************************************************************)

\* A token of text that is the unit the iterator is on, which is left.
LEMMA CharacterIsEmitted ==
  ASSUME IInv, StreamInv, Advance, NEW type \in {"character", "whitespace", "cdata"}, Finish(type, Current),
         Current # EOF, EmptyEnds(source, tokenStart, pos)
  PROVE  Behind' /\ Last' = NewToken(type, Current) /\ tokens' # <<>>
PROOF
<1>1. Reading /\ pos' \in 1 .. Len(source') /\ pos' = pos + 1
  BY AdvanceReads DEF IInv
<1>2. /\ pos \in 1 .. Len(source) /\ Len(source) \in Nat /\ tokenStart \in Nat
      /\ \A i \in 1 .. Len(source) : source'[i] = source[i]
  BY <1>1, PageIsExtended
<1>3. tokenStart <= pos
  BY DEF StreamInv
<1>4. type \in TokenTypes /\ Current \in TokenValue
  <2>1. Current \in Unit
    BY CurrentIsAUnit DEF IInv
  <2> QED BY <2>1 DEF TokenTypes, TokenValue
<1> DEFINE t == NewToken(type, Current)
<1>5. t.type = type /\ t.from = tokenStart /\ t.to = pos + 1 /\ t.value = Current
  BY <1>1 DEF NewToken
<1>6. CharacterStands(source', t)
  <2>1. EmptyEnds(source', tokenStart, pos)
    BY <1>1, <1>2, BegunEmptyEnds
  <2>2. source'[pos] = Current
    BY <1>2 DEF Current
  <2>3. t.to - 1 = pos /\ t.from < t.to
    BY <1>2, <1>3, <1>5
  <2> HIDE DEF t
  <2> QED BY <1>5, <2>1, <2>2, <2>3 DEF CharacterStands
<1>7. NewTokenStands(t)
  <2>1. t.type \notin {"eof", "start", "end", "comment"}
    BY <1>5
  <2> HIDE DEF t
  <2> QED BY <1>6, <2>1 DEF NewTokenStands
<1>8. tokenStart <= pos'
  BY <1>1, <1>2, <1>3
<1> QED BY <1>1, <1>4, <1>7, <1>8, EmitsBehind

LEMMA StreamAfterEmitsText ==
  ASSUME IInv, StreamInv, EmitsText
  PROVE  StreamInv'
PROOF
<1> DEFINE type == CharType(Current)
<1>1. /\ In(state) /\ state \in Text \ ReferenceStates /\ state' \in Text \ ReferenceStates
      /\ Emit(state', type, Current)
  BY DEF EmitsText, EmitCurrentChar
<1>2. /\ Reading /\ pos' \in 1 .. Len(source') /\ pos' \in Nat
      /\ pos' = IF Current = EOF THEN pos ELSE pos + 1
      /\ tokenStart' = pos' /\ buffered' = None /\ Finish(type, Current) /\ tokenStart \in Nat
  BY <1>1, HandlerEmits
<1>3. ~inCdata
  <2>1. state # "CDATA"
    BY <1>1, ClassesAreDisjoint
  <2> QED BY <2>1 DEF IInv, OwnedWhileOpen
<1>4. type \in {"eof", "character", "whitespace"} /\ (type = "eof" <=> Current = EOF)
  BY Zenon, <1>3 DEF CharType, EOF
<1> HIDE DEF type
<1>5. Behind'
  <2>1. CASE Current = EOF
    <3>1. type = "eof" /\ pos' = pos
      BY <1>2, <1>4, <2>1
    <3>2. type \in TokenTypes /\ Current \in TokenValue
      <4>1. Current \in Unit
        BY CurrentIsAUnit DEF IInv
      <4> QED BY <3>1, <4>1 DEF TokenTypes, TokenValue
    <3>3. source'[pos'] = EOF
      <4>1. source'[pos] = source[pos]
        BY <1>2, PageIsExtended
      <4> QED BY <2>1, <3>1, <4>1 DEF Current
    <3> DEFINE t == NewToken(type, Current)
    <3>4. t.type = "eof" /\ t.to = pos'
      BY <3>1 DEF NewToken
    <3> HIDE DEF t
    <3>5. NewTokenStands(t)
      BY <3>3, <3>4 DEF NewTokenStands
    <3>6. tokenStart <= pos'
      BY <3>1 DEF StreamInv
    <3> QED BY <1>2, <3>2, <3>5, <3>6, EmitsBehind DEF t
  <2>2. CASE Current # EOF
    <3>1. type \in {"character", "whitespace", "cdata"}
      BY <1>4, <2>2
    <3>2. EmptyEnds(source, tokenStart, pos)
      <4>1. CASE state \in {"DATA", "CHAR_REF_IN_DATA"}
        BY <2>2, <4>1 DEF StreamInv, Begun, TextBegun
      <4>2. CASE state \notin {"DATA", "CHAR_REF_IN_DATA"}
        <5>1. tokenStart = pos
          BY <1>1, <4>2 DEF StreamInv, Begun, TextBegun
        <5> QED BY <1>2, <5>1, NoEmptyEnds
      <4> QED BY <4>1, <4>2
    <3>3. Advance
      BY <1>1 DEF Emit
    <3> QED BY <1>2, <2>2, <3>1, <3>2, <3>3, CharacterIsEmitted
  <2> QED BY <2>1, <2>2
<1>6. Begun'
  BY <1>1, <1>2, TextGoesOn
<1> QED BY <1>2, <1>5, <1>6, SecondIsOut, PartsOfStream

\* The first character of a reference; the second may have to wait.
LEMMA StreamAfterEmitsReference ==
  ASSUME IInv, StreamInv, EmitsReference
  PROVE  StreamInv'
PROOF
<1>1. /\ In(state) /\ state \in ReferenceStates /\ state' \in {"DATA", "RCDATA"}
      /\ Advance /\ Finish("character", Current)
      /\ buffered' = IF Current = "&2;" THEN "second" ELSE None
      /\ <<state, state'>> \in {<<"CHAR_REF_IN_DATA", "DATA">>, <<"CHAR_REF_IN_RCDATA", "RCDATA">>}
  <2>1. <<state, state'>> \in {<<"CHAR_REF_IN_DATA", "DATA">>, <<"CHAR_REF_IN_RCDATA", "RCDATA">>}
    BY DEF EmitsReference
  <2>2. state \in ReferenceStates /\ state' \in {"DATA", "RCDATA"}
    BY <2>1 DEF ReferenceStates
  <2> QED BY Zenon, <2>1, <2>2 DEF EmitsReference, EmitCharRef
<1>2. Current \in References /\ Current # EOF
  <2>1. Current \in References
    BY Zenon, <1>1 DEF StreamInv, Begun, TextBegun
  <2> QED BY Zenon, <2>1 DEF References, EOF
<1>3. EmptyEnds(source, tokenStart, pos)
  <2>1. CASE state = "CHAR_REF_IN_DATA"
    BY <1>2, <2>1 DEF StreamInv, Begun, TextBegun
  <2>2. CASE state = "CHAR_REF_IN_RCDATA"
    <3>1. tokenStart = pos
      BY <2>2 DEF StreamInv, Begun, TextBegun, Text, DataStates
    <3> QED BY <3>1, NoEmptyEnds DEF IInv, InputOK
  <2> QED BY Zenon, <1>1, <2>1, <2>2 DEF ReferenceStates
<1>4. Behind' /\ Last' = NewToken("character", Current) /\ tokens' # <<>>
  BY Zenon, <1>1, <1>2, <1>3, CharacterIsEmitted
<1>5. tokenStart' = pos' /\ pos' \in Nat
  <2>1. pos' \in 1 .. Len(source')
    BY Zenon, <1>1, AdvanceReads DEF IInv
  <2>2. tokenStart' = pos'
    BY Zenon, <1>1 DEF Finish
  <2> QED BY <2>1, <2>2
<1>6. SecondBegun'
  <2>1. Last'.value = Current
    BY <1>4 DEF NewToken
  <2> QED BY Zenon, <1>1, <1>4, <1>5, <2>1 DEF SecondBegun
<1>7. state' \in Text \ ReferenceStates
  BY Zenon, <1>1 DEF Text, DataStates, ReferenceStates
<1> QED BY <1>4, <1>5, <1>6, <1>7, TextGoesOn, PartsOfStream

\* The "<" of what was no tag.
LEMMA StreamAfterGivesBack ==
  ASSUME IInv, StreamInv, GivesBack
  PROVE  StreamInv'
PROOF
<1>1. In(state) /\ state \in Openers /\ state' \in Text \ ReferenceStates /\ buffered = None
  BY DEF GivesBack, In
<1>2. PICK data, script :
        /\ \/ data = temporary
           \/ state \in LtStates /\ Current # EOF /\ data = temporary \o <<Current>>
        /\ script \in Seq(Unit)
        /\ EmitTemporary(state', data, script)
  BY DEF GivesBack
<1>3. pos' = mark + 1 /\ source' = source /\ Finish("character", data[1]) /\ buffered' = None
  BY <1>1, <1>2 DEF EmitTemporary, EmitNext
<1>4. /\ source[mark] = "<" /\ tokenStart <= mark /\ mark < pos /\ EmptyEnds(source, tokenStart, mark)
      /\ pos = mark + Len(temporary) /\ temporary \in Seq(Unit) /\ mark \in Nat /\ tokenStart \in Nat
      /\ \A i \in 1 .. Len(temporary) : temporary[i] = source[mark + i - 1]
  BY <1>1, OpenerIsLessThan
<1>5. /\ pos \in 1 .. Len(source) /\ mark \in 1 .. Len(source) /\ Len(source) \in Nat /\ source \in Seq(Unit)
  BY DEF IInv, InputOK
<1>6. data[1] = "<"
  <2>1. 1 \in 1 .. Len(temporary) /\ temporary[1] = source[mark + 1 - 1]
    BY <1>4, <1>5
  <2>2. temporary[1] = "<"
    BY <1>4, <2>1
  <2>3. CASE data = temporary
    BY <2>2, <2>3
  <2>4. CASE data = temporary \o <<Current>>
    <3>1. <<Current>> \in Seq(Unit)
      BY CurrentIsAUnit DEF IInv
    <3> QED BY <1>4, <2>1, <2>2, <2>4, <3>1, Joined
  <2> QED BY <1>2, <2>3, <2>4
<1>7. Reading /\ pos' \in 1 .. Len(source') /\ tokenStart <= pos'
  BY <1>3, <1>4, <1>5 DEF Reading
<1>8. "character" \in TokenTypes /\ data[1] \in TokenValue
  BY <1>6 DEF TokenTypes, TokenValue, Unit
<1> DEFINE t == NewToken("character", data[1])
<1>9. t.type = "character" /\ t.value = "<" /\ t.from = tokenStart /\ t.to = mark + 1
  BY <1>3, <1>6 DEF NewToken
<1> HIDE DEF t
<1>10. CharacterStands(source', t)
  <2>1. t.to - 1 = mark /\ t.from < t.to
    BY <1>4, <1>9
  <2> QED BY <1>3, <1>4, <1>9, <2>1 DEF CharacterStands
<1>11. NewTokenStands(t)
  BY <1>9, <1>10 DEF NewTokenStands
<1>12. Behind'
  BY <1>3, <1>7, <1>8, <1>11, EmitsBehind DEF t
<1>13. tokenStart' = pos' /\ pos' \in Nat
  BY <1>3, <1>4 DEF Finish
<1> QED BY <1>1, <1>3, <1>12, <1>13, TextGoesOn, SecondIsOut, PartsOfStream

\* What is left of it.
LEMMA StreamAfterFlush ==
  ASSUME IInv, StreamInv, FlushTemporary
  PROVE  StreamInv'
PROOF
<1>1. /\ buffered' = None /\ emitAt # 0 /\ Advance /\ Finish("character", temporary[emitAt])
      /\ state' = state
  BY DEF FlushTemporary, EmitNext
<1>2. /\ emitAt \in 0 .. Len(temporary) /\ Len(temporary) \in Nat /\ mark \in Nat /\ pos \in Nat /\ tokenStart \in Nat
      /\ state \in Text \ ReferenceStates /\ pos = mark + emitAt - 1 /\ tokenStart = pos
      /\ \A i \in emitAt .. Len(temporary) : temporary[i] # EOF /\ temporary[i] = source[mark + i - 1]
  BY <1>1 DEF IInv, BuffersOK, InputOK, PendingText, TemporaryBufferIsTheInput
<1>3. Current = temporary[emitAt] /\ Current # EOF
  <2>1. emitAt \in emitAt .. Len(temporary)
    BY <1>1, <1>2
  <2> QED BY <1>2, <2>1 DEF Current
<1>4. EmptyEnds(source, tokenStart, pos)
  BY <1>2, NoEmptyEnds
<1>5. Behind'
  <2>1. Finish("character", Current)
    BY <1>1, <1>3
  <2> QED BY <1>1, <1>3, <1>4, <2>1, CharacterIsEmitted
<1>6. tokenStart' = pos' /\ pos' \in Nat
  <2>1. pos' \in 1 .. Len(source')
    BY <1>1, AdvanceReads DEF IInv
  <2> QED BY <1>1, <2>1 DEF Finish
<1> QED BY <1>1, <1>2, <1>5, <1>6, TextGoesOn, SecondIsOut, PartsOfStream

\* The second character of a reference has no place of its own.
LEMMA StreamAfterEmitBuffered ==
  ASSUME IInv, StreamInv, EmitBuffered
  PROVE  StreamInv'
PROOF
<1>1. /\ buffered # None /\ source' = source /\ pos' = pos /\ state' = state
      /\ Finish("character", buffered) /\ buffered' = None
  BY DEF EmitBuffered
<1>2. buffered = "second" /\ state \in {"DATA", "RCDATA"}
  BY <1>1 DEF IInv, BuffersOK, PendingText
<1>3. tokenStart = pos /\ tokens # <<>> /\ Last.value = "&2;"
  BY Zenon, <1>1 DEF StreamInv, SecondBegun
<1>4. Reading /\ pos' \in 1 .. Len(source') /\ tokenStart <= pos' /\ pos' \in Nat
  <2>1. tokenStart = pos
    BY Zenon, <1>3
  <2> QED BY <1>1, <2>1 DEF IInv, InputOK, Reading
<1>5. "character" \in TokenTypes /\ buffered \in TokenValue
  BY <1>2 DEF TokenTypes, TokenValue, Unit
<1> DEFINE t == NewToken("character", buffered)
<1>6. t.type = "character" /\ t.value = "second" /\ t.from = t.to
  BY Zenon, <1>1, <1>2, <1>3 DEF NewToken
<1> HIDE DEF t
<1>7. NewTokenStands(t)
  BY Zenon, <1>3, <1>6 DEF NewTokenStands
<1>8. Behind' /\ tokenStart' = pos'
  <2>1. Behind'
    BY <1>1, <1>4, <1>5, <1>7, EmitsBehind DEF t
  <2> QED BY <1>1, <2>1 DEF Finish
<1>9. state' \in Text \ ReferenceStates
  BY <1>1, <1>2 DEF Text, DataStates, ReferenceStates
<1> QED BY <1>1, <1>4, <1>8, <1>9, TextGoesOn, SecondIsOut, PartsOfStream

LEMMA StreamAfterEmitsTag ==
  ASSUME IInv, StreamInv, EmitsTag
  PROVE  StreamInv'
PROOF
<1>1. In(state) /\ Current = ">"
  BY DEF EmitsTag
<1>2. PICK t : TagToEmit(t) /\ EmitTag("DATA", t)
  BY DEF EmitsTag
<1> DEFINE type == IF t.isStart THEN "start" ELSE "end"
           value == [name |-> t.name, selfClosing |-> t.selfClosing,
                     attributes |-> IF t.isStart THEN t.attributes ELSE <<>>]
<1>3. type \in {"start", "end"} /\ type \in TokenTypes /\ value \in TokenValue
  <2>1. t \in TagType
    BY <1>1, <1>2, PartsOfInvariant, TagToEmitIsATag
  <2>2. /\ t.name \in Seq(Unit) /\ t.selfClosing \in BOOLEAN /\ t.attributes \in Seq(Attribute)
        /\ <<>> \in Seq(Attribute)
    BY <2>1 DEF TagType
  <2>3. value \in TagValue
    BY <2>2 DEF TagValue
  <2> QED BY <2>3 DEF TokenTypes, TokenValue
<1>4. Emit("DATA", type, value)
  BY <1>2 DEF EmitTag
<1> HIDE DEF type, value
<1>5. /\ Reading /\ pos' \in 1 .. Len(source') /\ pos' \in Nat
      /\ pos' = IF Current = EOF THEN pos ELSE pos + 1
      /\ state' = "DATA" /\ tokenStart' = pos' /\ buffered' = None /\ Finish(type, value)
  BY <1>1, <1>4, HandlerEmits
<1>6. pos' = pos + 1
  BY <1>1, <1>5 DEF EOF
<1>7. /\ pos \in 1 .. Len(source) /\ tokenStart \in 1 .. Len(source) /\ Len(source) \in Nat
      /\ \A i \in 1 .. Len(source) : source'[i] = source[i]
  BY <1>5, PageIsExtended
<1>8. tokenStart < pos /\ source[tokenStart] = "<"
  <2>1. state \in Openers \/ state \in TagStates
    BY <1>2 DEF TagToEmit, Openers, TagStates
  <2>2. CASE state \in Openers
    <3>1. source[tokenStart] = "<" /\ tokenStart <= mark /\ mark < pos /\ mark \in Nat
      BY <1>1, <2>2, OpenerIsLessThan
    <3> QED BY <1>7, <3>1
  <2>3. CASE state \in TagStates
    BY <2>3 DEF StreamInv, Begun, TagBegun
  <2> QED BY <2>1, <2>2, <2>3
<1> DEFINE token == NewToken(type, value)
<1>9. token.type = type /\ token.from = tokenStart /\ token.to = pos + 1
  BY <1>6 DEF NewToken
<1> HIDE DEF token
<1>10. TagStands(source', token)
  <2>1. source'[tokenStart] = "<" /\ source'[pos] = ">"
    BY <1>1, <1>7, <1>8 DEF Current
  <2>2. token.to - 1 = pos /\ token.from + 2 <= token.to
    BY <1>7, <1>8, <1>9
  <2> QED BY <1>9, <2>1, <2>2 DEF TagStands
<1>11. NewTokenStands(token)
  <2>1. token.type \notin {"character", "whitespace", "cdata", "eof", "comment"}
    BY <1>3, <1>9
  <2> QED BY Zenon, <1>10, <2>1 DEF NewTokenStands
<1>12. tokenStart <= pos'
  BY <1>6, <1>7, <1>8
<1>13. Behind'
  BY <1>3, <1>5, <1>11, <1>12, EmitsBehind DEF token
<1>14. state' \in Text \ ReferenceStates
  BY <1>5 DEF Text, DataStates, ReferenceStates
<1> QED BY <1>5, <1>13, <1>14, TextGoesOn, SecondIsOut, PartsOfStream

\* A character of a section; the first one takes the beginning of the section with it.
LEMMA StreamAfterEmitsCdata ==
  ASSUME IInv, StreamInv, EmitsCdata
  PROVE  StreamInv'
PROOF
<1>1. /\ In(state) /\ state = "CDATA" /\ Current # EOF /\ inCdata' = inCdata
      /\ Emit("CDATA", CharType(Current), Current)
  BY DEF EmitsCdata, In, EmitCurrentChar, KeepDoctypeAndCdata
<1>2. inCdata /\ \/ tokenStart = pos
                 \/ /\ tokenStart + 3 <= pos /\ EmptyEnds(source, tokenStart, pos - 3)
                    /\ source[pos - 3] = "<" /\ source[pos - 2] = "!" /\ source[pos - 1] = "[CDATA["
  BY <1>1 DEF StreamInv, Begun, SectionBegun
<1>3. CharType(Current) = "cdata"
  BY Zenon, <1>1, <1>2 DEF CharType
<1>4. /\ Reading /\ pos' \in 1 .. Len(source') /\ pos' \in Nat
      /\ pos' = IF Current = EOF THEN pos ELSE pos + 1
      /\ state' = "CDATA" /\ tokenStart' = pos' /\ buffered' = None /\ Finish("cdata", Current)
  BY <1>1, <1>3, HandlerEmits
<1>5. /\ pos \in 1 .. Len(source) /\ tokenStart \in 1 .. Len(source) /\ Len(source) \in Nat
      /\ \A i \in 1 .. Len(source) : source'[i] = source[i]
      /\ pos' = pos + 1
  BY <1>1, <1>4, PageIsExtended
<1>6. Behind'
  <2>1. CASE tokenStart = pos
    <3>1. EmptyEnds(source, tokenStart, pos)
      BY <1>5, <2>1, NoEmptyEnds
    <3>2. Advance
      BY <1>1 DEF Emit
    <3> QED BY <1>1, <1>4, <3>1, <3>2, CharacterIsEmitted
  <2>2. CASE /\ tokenStart + 3 <= pos /\ EmptyEnds(source, tokenStart, pos - 3)
             /\ source[pos - 3] = "<" /\ source[pos - 2] = "!" /\ source[pos - 1] = "[CDATA["
    <3> DEFINE token == NewToken("cdata", Current)
    <3>1. /\ token.type = "cdata" /\ token.from = tokenStart /\ token.to = pos + 1
          /\ token.value = Current
      BY <1>5 DEF NewToken
    <3> HIDE DEF token
    <3>2. /\ pos - 3 \in 1 .. Len(source) /\ pos - 2 \in 1 .. Len(source) /\ pos - 1 \in 1 .. Len(source)
          /\ pos - 3 \in Nat
      BY <1>5, <2>2
    <3>3. EmptyEnds(source', tokenStart, pos - 3)
      BY <1>4, <1>5, <2>2, <3>2, BegunEmptyEnds
    <3>4. /\ token.to - 4 = pos - 3 /\ token.to - 3 = pos - 2 /\ token.to - 2 = pos - 1 /\ token.to - 1 = pos
          /\ token.from + 4 <= token.to
      BY <1>5, <2>2, <3>1
    <3>5. source'[pos] = Current
      BY <1>5 DEF Current
    <3>6. SectionStands(source', token)
      BY <1>5, <2>2, <3>1, <3>2, <3>3, <3>4, <3>5 DEF SectionStands
    <3>7. NewTokenStands(token)
      <4>1. token.type \notin {"character", "whitespace", "eof", "start", "end", "comment"}
        BY <3>1
      <4> QED BY Zenon, <3>6, <4>1 DEF NewTokenStands
    <3>8. "cdata" \in TokenTypes /\ Current \in TokenValue
      <4>1. Current \in Unit
        BY CurrentIsAUnit DEF IInv
      <4> QED BY <4>1 DEF TokenTypes, TokenValue
    <3>9. tokenStart <= pos'
      BY <1>5, <2>2
    <3> QED BY <1>4, <3>7, <3>8, <3>9, EmitsBehind DEF token
  <2> QED BY <1>2, <2>1, <2>2
<1>7. SectionBegun'
  BY <1>1, <1>2, <1>4 DEF SectionBegun
<1> QED BY <1>4, <1>6, <1>7, SectionHasBegun, SecondIsOut, PartsOfStream

LEMMA StreamAfterEmitsComment ==
  ASSUME IInv, StreamInv, EmitsComment
  PROVE  StreamInv'
PROOF
<1>1. /\ In(state) /\ state \in CommentStates /\ Current \in {">", EOF}
      /\ state \in {"COMMENT", "COMMENT_END_DASH"} => Current = EOF
      /\ Emit("DATA", "comment", temporary)
  BY DEF EmitsComment, EmitComment
<1>2. /\ Reading /\ pos' \in 1 .. Len(source') /\ pos' \in Nat
      /\ pos' = IF Current = EOF THEN pos ELSE pos + 1
      /\ state' = "DATA" /\ tokenStart' = pos' /\ buffered' = None /\ Finish("comment", temporary)
  BY <1>1, HandlerEmits
<1>3. PICK m \in Nat, o \in {1, 2, 4} :
         /\ tokenStart <= m /\ EmptyEnds(source', tokenStart, m) /\ OpensComment(source', m, o)
         /\ Reads(temporary, source', m + o) /\ Reads(HeldIn(state), source', m + o + Len(temporary))
         /\ pos = m + o + Len(temporary) + Len(HeldIn(state))
         /\ o = 4 <=> state # "BOGUS_COMMENT"
         /\ o = 2 /\ source'[m + 1] = "/" => temporary # <<>>
  BY Zenon, <1>1, <1>2, CommentSoFar
<1> DEFINE h == HeldIn(state)
<1>4. h \in Held /\ Len(h) \in Nat
  BY HeldIsUnits
<1>5. o # 4 => h = <<>>
  BY <1>3 DEF HeldIn
<1>6. o = 4 /\ Len(h) < 2 /\ Current = ">" => temporary = <<>>
  <2> SUFFICES ASSUME o = 4, Len(h) < 2, Current = ">" PROVE temporary = <<>>
    OBVIOUS
  <2>1. state \notin {"BOGUS_COMMENT", "COMMENT", "COMMENT_END_DASH"}
    BY <1>1, <1>3 DEF EOF
  <2>2. state \notin {"COMMENT_END", "COMMENT_END_BANG"}
    BY DEF HeldIn
  <2>3. state \in {"COMMENT_START", "COMMENT_START_DASH"}
    BY <1>1, <2>1, <2>2 DEF CommentStates
  <2> QED BY <1>1, <2>3 DEF StreamInv, Begun, CommentBegun
<1>7. temporary \in Seq(Unit) /\ Len(temporary) \in Nat
  BY DEF IInv, BuffersOK
<1>8. pos \in Nat /\ source'[pos] = Current /\ tokenStart <= pos
  <2>1. source'[pos] = source[pos] /\ pos \in Nat
    BY <1>2, PageIsExtended
  <2> QED BY <2>1 DEF Current, StreamInv
<1> DEFINE token == NewToken("comment", temporary)
           end == m + o + Len(temporary) + Len(h)
<1>9. token.type = "comment" /\ token.from = tokenStart /\ token.to = pos' /\ token.value = temporary
  BY DEF NewToken
<1>10. end = pos /\ end \in Nat
  BY <1>3, <1>8
<1>11. \/ token.to = end /\ source'[end] = EOF
       \/ /\ token.to = end + 1 /\ source'[end] = ">"
          /\ o = 4 /\ Len(h) < 2 => temporary = <<>>
  <2> HIDE DEF token, end, h
  <2>1. CASE Current = EOF
    BY <1>2, <1>8, <1>9, <1>10, <2>1
  <2>2. CASE Current = ">"
    <3>1. pos' = pos + 1
      BY <1>2, <2>2 DEF EOF
    <3> QED BY <1>6, <1>8, <1>9, <1>10, <2>2, <3>1
  <2> QED BY <1>1, <2>1, <2>2
<1>12. /\ tokenStart <= m /\ EmptyEnds(source', tokenStart, m) /\ OpensComment(source', m, o)
       /\ Reads(temporary, source', m + o) /\ Reads(h, source', m + o + Len(temporary))
       /\ o = 2 /\ source'[m + 1] = "/" => temporary # <<>>
  BY Zenon, <1>3
<1>13. CommentStands(source', token)
  <2> HIDE DEF token, h
  <2>1. \E m1 \in Nat, o1 \in {1, 2, 4}, h1 \in Held :
         /\ token.from <= m1 /\ EmptyEnds(source', token.from, m1) /\ OpensComment(source', m1, o1)
         /\ Reads(token.value, source', m1 + o1) /\ Reads(h1, source', m1 + o1 + Len(token.value))
         /\ o1 # 4 => h1 = <<>>
         /\ o1 = 2 /\ source'[m1 + 1] = "/" => token.value # <<>>
         /\ LET e1 == m1 + o1 + Len(token.value) + Len(h1)
            IN \/ token.to = e1 /\ source'[e1] = EOF
               \/ /\ token.to = e1 + 1 /\ source'[e1] = ">"
                  /\ o1 = 4 /\ Len(h1) < 2 => token.value = <<>>
    <3>1. h \in Held
      BY <1>4
    <3> WITNESS m \in Nat, o \in {1, 2, 4}, h \in Held
    <3> QED BY Zenon, <1>5, <1>9, <1>11, <1>12
  <2> QED BY Zenon, <1>7, <1>9, <2>1 DEF CommentStands
<1> HIDE DEF token
<1>14. NewTokenStands(token)
  <2>1. token.type \notin {"character", "whitespace", "cdata", "eof", "start", "end"}
    BY <1>9
  <2> QED BY Zenon, <1>13, <2>1 DEF NewTokenStands
<1>15. "comment" \in TokenTypes /\ temporary \in TokenValue
  BY <1>7 DEF TokenTypes, TokenValue
<1>16. tokenStart <= pos'
  <2>1. tokenStart \in Nat
    BY <1>2, PageIsExtended
  <2> QED BY <1>2, <1>8, <2>1
<1>17. Behind'
  BY <1>2, <1>14, <1>15, <1>16, EmitsBehind DEF token
<1>18. state' \in Text \ ReferenceStates
  BY <1>2 DEF Text, DataStates, ReferenceStates
<1> QED BY <1>2, <1>17, <1>18, TextGoesOn, SecondIsOut, PartsOfStream

LEMMA StreamAfterEmitsDoctype ==
  ASSUME IInv, StreamInv, EmitsDoctype
  PROVE  StreamInv'
PROOF
<1>1. In(state) /\ state' \in {"DATA", "BOGUS_DOCTYPE"}
  BY DEF EmitsDoctype
<1>2. PICK d \in DoctypeType : EmitDoctype(state', d)
  BY DEF EmitsDoctype
<1>3. Emit(state', "doctype", d)
  BY <1>2 DEF EmitDoctype
<1>4. /\ Reading /\ pos' \in 1 .. Len(source') /\ pos' \in Nat
      /\ pos' = IF Current = EOF THEN pos ELSE pos + 1
      /\ tokenStart' = pos' /\ buffered' = None /\ Finish("doctype", d)
  BY <1>1, <1>3, HandlerEmits
<1>5. "doctype" \in TokenTypes /\ d \in TokenValue
  BY DEF TokenTypes, TokenValue
<1> DEFINE token == NewToken("doctype", d)
<1>6. NewTokenStands(token)
  <2>1. token.type = "doctype"
    BY DEF NewToken
  <2> HIDE DEF token
  <2>2. token.type \notin {"character", "whitespace", "cdata", "eof", "start", "end", "comment"}
    BY <2>1
  <2> QED BY Zenon, <2>2 DEF NewTokenStands
<1>7. tokenStart <= pos'
  <2>1. tokenStart \in Nat /\ pos \in Nat
    BY <1>4, PageIsExtended
  <2> QED BY <1>4, <2>1 DEF StreamInv
<1>8. Behind'
  BY <1>4, <1>5, <1>6, <1>7, EmitsBehind
<1>9. Begun'
  <2>1. CASE state' = "DATA"
    <3>1. state' \in Text \ ReferenceStates
      BY <2>1 DEF Text, DataStates, ReferenceStates
    <3> QED BY <1>4, <3>1, TextGoesOn
  <2>2. CASE state' = "BOGUS_DOCTYPE"
    BY <2>2, DoctypeHasBegun
  <2> QED BY <1>1, <2>1, <2>2
<1> QED BY <1>4, <1>8, <1>9, SecondIsOut, PartsOfStream

-----------------------------------------------------------------------------
(***************************************************************************)
(* The parser's step, the beginning, and every step.                       *)
(***************************************************************************)

\* What a token says does not depend on what the parser notes of it.
LEMMA StandsAsMarked ==
  ASSUME NEW s, NEW t, NEW u, u.type = t.type, u.value = t.value, u.from = t.from, u.to = t.to
  PROVE  /\ CharacterStands(s, t) => CharacterStands(s, u)
         /\ SectionStands(s, t) => SectionStands(s, u)
         /\ TagStands(s, t) => TagStands(s, u)
         /\ CommentStands(s, t) => CommentStands(s, u)
PROOF
<1>1. CharacterStands(s, t) => CharacterStands(s, u)
  BY Zenon DEF CharacterStands
<1>2. SectionStands(s, t) => SectionStands(s, u)
  BY Zenon DEF SectionStands
<1>3. TagStands(s, t) => TagStands(s, u)
  BY Zenon DEF TagStands
<1>4. CommentStands(s, t) => CommentStands(s, u)
  <2> SUFFICES ASSUME CommentStands(s, t) PROVE CommentStands(s, u)
    OBVIOUS
  <2>1. PICK m \in Nat, o \in {1, 2, 4}, h \in Held :
         /\ t.from <= m /\ EmptyEnds(s, t.from, m) /\ OpensComment(s, m, o)
         /\ Reads(t.value, s, m + o) /\ Reads(h, s, m + o + Len(t.value))
         /\ o # 4 => h = <<>>
         /\ o = 2 /\ s[m + 1] = "/" => t.value # <<>>
         /\ LET end == m + o + Len(t.value) + Len(h)
            IN \/ t.to = end /\ s[end] = EOF
               \/ /\ t.to = end + 1 /\ s[end] = ">"
                  /\ o = 4 /\ Len(h) < 2 => t.value = <<>>
    BY Zenon DEF CommentStands
  <2>2. \E m1 \in Nat, o1 \in {1, 2, 4}, h1 \in Held :
         /\ u.from <= m1 /\ EmptyEnds(s, u.from, m1) /\ OpensComment(s, m1, o1)
         /\ Reads(u.value, s, m1 + o1) /\ Reads(h1, s, m1 + o1 + Len(u.value))
         /\ o1 # 4 => h1 = <<>>
         /\ o1 = 2 /\ s[m1 + 1] = "/" => u.value # <<>>
         /\ LET end == m1 + o1 + Len(u.value) + Len(h1)
            IN \/ u.to = end /\ s[end] = EOF
               \/ /\ u.to = end + 1 /\ s[end] = ">"
                  /\ o1 = 4 /\ Len(h1) < 2 => u.value = <<>>
    <3> WITNESS m \in Nat, o \in {1, 2, 4}, h \in Held
    <3> QED BY Zenon, <2>1
  <2>3. u.value \in Seq(Unit)
    BY Zenon DEF CommentStands
  <2> QED BY Zenon, <2>2, <2>3 DEF CommentStands
<1> QED BY <1>1, <1>2, <1>3, <1>4

LEMMA MarkedTokenStands ==
  ASSUME NEW s, NEW ts \in Seq(Token), NEW us, NEW i \in 1 .. Len(ts), TokenStands(s, ts, i),
         \A j \in 1 .. Len(ts) : /\ us[j].type = ts[j].type /\ us[j].value = ts[j].value
                                 /\ us[j].from = ts[j].from /\ us[j].to = ts[j].to
  PROVE  TokenStands(s, us, i)
PROOF
<1>1. us[i].type = ts[i].type /\ us[i].value = ts[i].value /\ us[i].from = ts[i].from /\ us[i].to = ts[i].to
  OBVIOUS
<1>2. i # 1 => i - 1 \in 1 .. Len(ts)
  OBVIOUS
<1>3. i # 1 => us[i - 1].value = ts[i - 1].value /\ us[i - 1].to = ts[i - 1].to
  BY <1>2
<1>4. i > 1 => i # 1
  OBVIOUS
<1>5. /\ CharacterStands(s, ts[i]) => CharacterStands(s, us[i])
      /\ SectionStands(s, ts[i]) => SectionStands(s, us[i])
      /\ TagStands(s, ts[i]) => TagStands(s, us[i])
      /\ CommentStands(s, ts[i]) => CommentStands(s, us[i])
  BY Zenon, <1>1, StandsAsMarked
<1>6. /\ us[i].from \in 1 .. us[i].to /\ us[i].to <= Len(s)
      /\ \/ us[i].from = IF i = 1 THEN 1 ELSE us[i - 1].to
         \/ /\ i > 1 /\ us[i].from > us[i - 1].to /\ us[i].from > 1
            /\ s[us[i].from - 1] = "]]>" \/ s[us[i].from] = EOF
  BY Zenon, <1>1, <1>3, <1>4 DEF TokenStands
<1>7. us[i].type \in {"character", "whitespace"} =>
       \/ CharacterStands(s, us[i])
       \/ us[i].value = "second" /\ i > 1 /\ us[i - 1].value = "&2;" /\ us[i].from = us[i].to
  BY Zenon, <1>1, <1>3, <1>4, <1>5 DEF TokenStands
<1>8. /\ us[i].type = "cdata" => CharacterStands(s, us[i]) \/ SectionStands(s, us[i])
      /\ us[i].type = "eof" => s[us[i].to] = EOF
      /\ us[i].type \in {"start", "end"} => TagStands(s, us[i])
      /\ us[i].type = "comment" => CommentStands(s, us[i])
  BY Zenon, <1>1, <1>5 DEF TokenStands
<1> QED BY Zenon, <1>6, <1>7, <1>8 DEF TokenStands

LEMMA StreamAfterHandleToken ==
  ASSUME IInv, StreamInv, HandleToken
  PROVE  StreamInv'
PROOF
<1>1. /\ handled < Len(tokens) /\ source' = source /\ pos' = pos /\ inCdata' = inCdata /\ buffered' = buffered
      /\ mark' = mark /\ temporary' = temporary /\ tokenStart' = tokenStart
  BY DEF HandleToken, inputVars, temporaryVars
<1>2. tokens \in Seq(Token) /\ Len(tokens) \in Nat /\ tokens # <<>>
  BY <1>1 DEF IInv, OutputOK
<1>3. CASE /\ Last.type = "start" /\ Last.value.name \in DOMAIN TextStates
           /\ state' = TextStates[Last.value.name]
           /\ tokens' = [tokens EXCEPT ![Len(tokens)].then = state']
           /\ foreign' = FALSE
  <2>1. buffered = None /\ tokenStart = pos
    BY <1>1, <1>3 DEF IInv, JustEmitted
  <2>2. state' \in {"RCDATA", "RAWTEXT", "SCRIPT", "PLAINTEXT"}
    BY <1>3, TextStatesAssumption
  <2>3. /\ tokens' \in Seq(Token) /\ Len(tokens') = Len(tokens)
        /\ \A i \in 1 .. Len(tokens) :
              /\ tokens'[i].type = tokens[i].type /\ tokens'[i].value = tokens[i].value
              /\ tokens'[i].from = tokens[i].from /\ tokens'[i].to = tokens[i].to
    BY <1>2, <1>3, <2>2, TokenIsMarked
  <2>4. TokensStand'
    <3>1. \A i \in 1 .. Len(tokens) : TokenStands(source, tokens', i)
      BY <1>2, <2>3, MarkedTokenStands DEF StreamInv, TokensStand
    <3> QED BY <1>1, <2>3, <3>1 DEF TokensStand
  <2>5. tokens' # <<>> /\ Last'.to = Last.to
    <3>1. Len(tokens) \in 1 .. Len(tokens)
      BY <1>2
    <3> QED BY <1>2, <2>3, <3>1 DEF Last
  <2>6. NextFollows'
    BY <1>1, <1>2, <2>5 DEF StreamInv, NextFollows
  <2>7. Behind'
    BY <1>1, <2>4, <2>5, <2>6 DEF Behind, StreamInv, ForeignBegun
  <2>8. state' \in Text \ ReferenceStates /\ pos \in Nat
    BY <2>2 DEF Text, DataStates, ReferenceStates, IInv, InputOK
  <2>9. Begun' /\ SecondBegun'
    BY <1>1, <2>1, <2>8, TextGoesOn, SecondIsOut
  <2> QED BY <2>7, <2>9, PartsOfStream
<1>4. CASE state' = state /\ tokens' = tokens
  <2>1. Last' = Last
    BY <1>4 DEF Last
  <2>2. NextFollows' /\ TokensStand' /\ ForeignBegun' /\ tokenStart' <= pos'
    BY <1>1, <1>2, <1>4, <2>1 DEF StreamInv, NextFollows, TokensStand, ForeignBegun
  <2>3. SecondBegun'
    BY Zenon, <1>1, <1>4, <2>1 DEF StreamInv, SecondBegun
  <2>4. Begun'
    <3>1. Current' = Current
      BY <1>1 DEF Current
    <3>2. TextBegun' /\ OpenerBegun' /\ TagBegun' /\ DeclarationBegun' /\ SectionBegun'
      BY Zenon, <1>1, <1>4, <3>1
      DEF StreamInv, Begun, TextBegun, OpenerBegun, TagBegun, DeclarationBegun, SectionBegun
    <3>3. CommentBegun'
      BY Zenon, <1>1, <1>4 DEF StreamInv, Begun, CommentBegun
    <3> QED BY <3>2, <3>3 DEF Begun
  <2> QED BY <2>2, <2>3, <2>4 DEF StreamInv
<1> QED BY <1>3, <1>4 DEF HandleToken

LEMMA StreamAfterStuttering ==
  ASSUME StreamInv, UNCHANGED vars
  PROVE  StreamInv'
PROOF
<1>1. /\ source' = source /\ pos' = pos /\ state' = state /\ foreign' = foreign
      /\ inCdata' = inCdata /\ buffered' = buffered /\ mark' = mark /\ temporary' = temporary
      /\ tokenStart' = tokenStart /\ tokens' = tokens
  BY DEF vars, inputVars, modeVars, temporaryVars, outputVars
<1>2. Last' = Last /\ Current' = Current
  BY <1>1 DEF Last, Current
<1>3. NextFollows' /\ TokensStand' /\ ForeignBegun' /\ tokenStart' <= pos'
  BY <1>1, <1>2 DEF StreamInv, NextFollows, TokensStand, ForeignBegun
<1>4. SecondBegun'
  BY Zenon, <1>1, <1>2 DEF StreamInv, SecondBegun
<1>5. TextBegun' /\ OpenerBegun' /\ TagBegun' /\ DeclarationBegun' /\ SectionBegun'
  BY Zenon, <1>1, <1>2
  DEF StreamInv, Begun, TextBegun, OpenerBegun, TagBegun, DeclarationBegun, SectionBegun
<1>6. CommentBegun'
  BY Zenon, <1>1 DEF StreamInv, Begun, CommentBegun
<1> QED BY <1>3, <1>4, <1>5, <1>6 DEF StreamInv, Begun

LEMMA StreamKept ==
  ASSUME IInv, StreamInv, [Next]_vars
  PROVE  StreamInv'
PROOF
<1>1. CASE TextKind
  BY <1>1, StreamAfterEmitsText, StreamAfterOpensTag, StreamAfterText, StreamAfterEmitsReference,
     StreamAfterOpener, StreamAfterGivesBack DEF TextKind
<1>2. CASE OpeningKind
  BY <1>2, StreamAfterOpener, StreamAfterGivesBack, StreamAfterBeginsMarkup, StreamAfterBeginsBogus,
     StreamAfterEmptyEnd, StreamAfterTagBegins, StreamAfterEmitsTag DEF OpeningKind
<1>3. CASE TagKind
  BY <1>3, StreamAfterTagBegins, StreamAfterEmitsTag, StreamAfterAbandonsTag DEF TagKind
<1>4. CASE MarkupKind
  BY <1>4, StreamAfterDeclaration, StreamAfterDoctype, StreamAfterEmitsCdata, StreamAfterLeavesCdata,
     StreamAfterReadsComment, StreamAfterEmitsComment, StreamAfterEmitsDoctype DEF MarkupKind
<1>5. CASE EmitBuffered \/ FlushTemporary \/ LookAhead \/ HandleToken
  BY <1>5, StreamAfterEmitBuffered, StreamAfterFlush, StreamAfterLookAhead, StreamAfterHandleToken
<1>6. CASE UNCHANGED vars
  BY <1>6, StreamAfterStuttering
<1> QED BY <1>1, <1>2, <1>3, <1>4, <1>5, <1>6, KindsOfSteps

LEMMA StreamBegins ==
  ASSUME Init
  PROVE  StreamInv
PROOF
<1>1. /\ pos = 1 /\ tokenStart = 1 /\ state = "DATA" /\ foreign = FALSE /\ inCdata = FALSE
      /\ buffered = None /\ tokens = <<>>
  BY DEF Init
<1>2. EmptyEnds(source, tokenStart, pos)
  BY <1>1, NoEmptyEnds
<1>3. state \in Text /\ state \notin Openers \union TagStates \union CommentStates
      /\ state \notin {"MARKUP_DECLARATION", "CDATA"} \union ReferenceStates
  <2>1. state \in Text
    BY <1>1 DEF Text, DataStates
  <2>2. state \notin ReferenceStates
    BY <1>1 DEF ReferenceStates
  <2> QED BY <2>1, <2>2, ClassesAreDisjoint
<1>4. Begun
  BY <1>1, <1>2, <1>3
  DEF Begun, TextBegun, OpenerBegun, TagBegun, DeclarationBegun, SectionBegun, CommentBegun
<1>5. NextFollows /\ ForeignBegun /\ TokensStand /\ tokenStart <= pos
  BY <1>1 DEF NextFollows, ForeignBegun, TokensStand
<1>6. SecondBegun
  BY Zenon, <1>1 DEF SecondBegun
<1> QED BY <1>4, <1>5, <1>6 DEF StreamInv

\* What every token says is what stands at its place, and what is read of the next one is what its
\* state says: for every page, of any length.
THEOREM StreamInvariance == Spec => [](IInv /\ StreamInv)
PROOF
<1>1. Init => IInv /\ StreamInv
  BY Beginning, StreamBegins
<1>2. IInv /\ StreamInv /\ [Next]_vars => IInv' /\ StreamInv'
  BY Keeping, StreamKept
<1> QED BY <1>1, <1>2, PTL DEF Spec

-----------------------------------------------------------------------------
(***************************************************************************)
(* From what stands at its place to what a token is of the page.           *)
(***************************************************************************)

\* A part of a sequence.
LEMMA PartOf ==
  ASSUME NEW S, NEW s \in Seq(S), NEW m \in Nat, NEW n \in Nat, 1 <= m, m <= n + 1, n <= Len(s)
  PROVE  /\ SubSeq(s, m, n) \in Seq(S) /\ Len(SubSeq(s, m, n)) = n - m + 1
         /\ \A i \in 1 .. n - m + 1 : SubSeq(s, m, n)[i] = s[m + i - 1]
PROOF
<1>1. \A i \in m .. n : s[i] \in S
  OBVIOUS
<1> QED BY <1>1, SubSeqProperties

\* How many units of a text are empty end tags that it begins with.
LEMMA CountedEmptyEnds ==
  ASSUME NEW r \in Seq(Unit), NEW n \in Nat, 3 * n <= Len(r),
         \A j \in 0 .. n - 1 : r[3 * j + 1] = "<" /\ r[3 * j + 2] = "/" /\ r[3 * j + 3] = ">",
         ~(3 * n + 3 <= Len(r) /\ r[3 * n + 1] = "<" /\ r[3 * n + 2] = "/" /\ r[3 * n + 3] = ">")
  PROVE  EmptyEndTags(r) = 3 * n
PROOF
<1> DEFINE Runs == {k \in 0 .. (Len(r) \div 3) : \A j \in 1 .. (3 * k) : r[j] = <<"<", "/", ">">>[((j - 1) % 3) + 1]}
<1>1. Len(r) \in Nat
  OBVIOUS
<1>2. \A l \in Nat : /\ \A k \in Nat : k <= l \div 3 <=> 3 * k <= l
                     /\ l \div 3 \in Nat
  OBVIOUS
<1>3. \A j \in Nat : \E q \in Nat : \/ j = 3 * q /\ j % 3 = 0
                                    \/ j = 3 * q + 1 /\ j % 3 = 1
                                    \/ j = 3 * q + 2 /\ j % 3 = 2
  <2> TAKE j \in Nat
  <2>1. j \div 3 \in Nat /\ j % 3 \in 0 .. 2 /\ j = (3 * (j \div 3)) + (j % 3)
    OBVIOUS
  <2> WITNESS j \div 3 \in Nat
  <2> QED BY <2>1
<1>4. n \in Runs
  <2>1. n \in 0 .. (Len(r) \div 3)
    BY <1>1, <1>2
  <2>2. ASSUME NEW j \in 1 .. (3 * n)
        PROVE  r[j] = <<"<", "/", ">">>[((j - 1) % 3) + 1]
    <3>1. j - 1 \in Nat
      OBVIOUS
    <3>2. PICK q \in Nat : \/ j - 1 = 3 * q /\ (j - 1) % 3 = 0
                           \/ j - 1 = 3 * q + 1 /\ (j - 1) % 3 = 1
                           \/ j - 1 = 3 * q + 2 /\ (j - 1) % 3 = 2
      BY <1>3, <3>1
    <3>3. q \in 0 .. n - 1
      BY <3>2
    <3>4. r[3 * q + 1] = "<" /\ r[3 * q + 2] = "/" /\ r[3 * q + 3] = ">"
      BY <3>3
    <3>5. CASE j - 1 = 3 * q /\ (j - 1) % 3 = 0
      <4>1. j = 3 * q + 1 /\ ((j - 1) % 3) + 1 = 1
        BY <3>5
      <4> QED BY <3>4, <4>1
    <3>6. CASE j - 1 = 3 * q + 1 /\ (j - 1) % 3 = 1
      <4>1. j = 3 * q + 2 /\ ((j - 1) % 3) + 1 = 2
        BY <3>6
      <4> QED BY <3>4, <4>1
    <3>7. CASE j - 1 = 3 * q + 2 /\ (j - 1) % 3 = 2
      <4>1. j = 3 * q + 3 /\ ((j - 1) % 3) + 1 = 3
        BY <3>7
      <4> QED BY <3>4, <4>1
    <3> QED BY <3>2, <3>5, <3>6, <3>7
  <2> QED BY <2>1, <2>2
<1>5. ASSUME NEW k \in Runs PROVE k <= n /\ k \in Nat
  <2>1. /\ k \in Nat /\ 3 * k <= Len(r)
        /\ \A j \in 1 .. (3 * k) : r[j] = <<"<", "/", ">">>[((j - 1) % 3) + 1]
    BY <1>1, <1>2
  <2>2. CASE k > n
    <3>1. 3 * n + 3 <= Len(r) /\ 3 * n + 1 \in 1 .. (3 * k) /\ 3 * n + 2 \in 1 .. (3 * k) /\ 3 * n + 3 \in 1 .. (3 * k)
      BY <1>1, <2>1, <2>2
    <3>2. /\ ((3 * n + 1 - 1) % 3) + 1 = 1 /\ ((3 * n + 2 - 1) % 3) + 1 = 2 /\ ((3 * n + 3 - 1) % 3) + 1 = 3
      OBVIOUS
    <3>3. r[3 * n + 1] = "<" /\ r[3 * n + 2] = "/" /\ r[3 * n + 3] = ">"
      BY <2>1, <3>1, <3>2
    <3> QED BY <3>1, <3>3
  <2> QED BY <2>1, <2>2
<1> HIDE DEF Runs
<1>6. (CHOOSE k \in Runs : \A l \in Runs : l <= k) = n
  <2> DEFINE c == CHOOSE k \in Runs : \A l \in Runs : l <= k
  <2>1. c \in Runs /\ \A l \in Runs : l <= c
    BY Zenon, <1>4, <1>5
  <2> HIDE DEF c
  <2>2. c <= n /\ c \in Nat /\ n <= c
    BY <1>4, <1>5, <2>1
  <2>3. c = n
    BY <2>2
  <2> QED BY <2>3 DEF c
<1> QED BY Zenon, <1>6 DEF EmptyEndTags, Runs

\* What a text shows: what it is after the empty end tags that it begins with.
ShownOf(r) == SubSeq(r, EmptyEndTags(r) + 1, Len(r))

\* From a up to c the page is empty end tags and then, from b on, these units.
Stands(s, a, b, w, c) ==
  /\ s \in Seq(Unit) /\ a \in Nat /\ 1 <= a /\ EmptyEnds(s, a, b)
  /\ w \in Seq(Unit) /\ c \in Nat /\ c = b + Len(w) /\ c <= Len(s) + 1 /\ Reads(w, s, b)
  /\ ~(Len(w) >= 3 /\ w[1] = "<" /\ w[2] = "/" /\ w[3] = ">")

Shows(s, a, b, w, c) ==
  LET r == SubSeq(s, a, c - 1)
  IN ShownOf(r) = w /\ EmptyEndTags(r) = b - a /\ Len(r) = c - a

LEMMA TextShows ==
  ASSUME NEW s, NEW a, NEW b, NEW w, NEW c, Stands(s, a, b, w, c)
  PROVE  Shows(s, a, b, w, c)
PROOF
<1> DEFINE r == SubSeq(s, a, c - 1)
<1>0. /\ s \in Seq(Unit) /\ a \in Nat /\ 1 <= a /\ EmptyEnds(s, a, b)
      /\ w \in Seq(Unit) /\ c \in Nat /\ c = b + Len(w) /\ c <= Len(s) + 1 /\ Reads(w, s, b)
      /\ ~(Len(w) >= 3 /\ w[1] = "<" /\ w[2] = "/" /\ w[3] = ">")
  BY DEF Stands
<1> USE <1>0
<1>1. PICK n \in Nat :
        /\ b = a + 3 * n
        /\ \A j \in 0 .. n - 1 : s[a + 3 * j] = "<" /\ s[a + 3 * j + 1] = "/" /\ s[a + 3 * j + 2] = ">"
  BY DEF EmptyEnds
<1>2. Len(w) \in Nat /\ Len(s) \in Nat /\ b \in Nat /\ a <= b /\ b <= c /\ c - 1 \in Nat
  BY <1>1
<1>3. r \in Seq(Unit) /\ Len(r) = c - a /\ \A i \in 1 .. c - a : r[i] = s[a + i - 1]
  <2>1. (c - 1) - a + 1 = c - a /\ a <= (c - 1) + 1 /\ c - 1 <= Len(s)
    BY <1>2
  <2>2. /\ r \in Seq(Unit) /\ Len(r) = (c - 1) - a + 1
        /\ \A i \in 1 .. (c - 1) - a + 1 : r[i] = s[a + i - 1]
    BY <1>2, <2>1, PartOf
  <2> QED BY <2>1, <2>2
<1> HIDE DEF r
<1>4. ASSUME NEW i \in 1 .. Len(w)
      PROVE  b - a + i \in 1 .. Len(r) /\ r[b - a + i] = w[i]
  <2>1. b - a + i \in 1 .. c - a /\ a + (b - a + i) - 1 = b + i - 1
    BY <1>2
  <2>2. s[b + i - 1] = w[i]
    BY DEF Reads
  <2>3. r[b - a + i] = s[a + (b - a + i) - 1]
    BY <1>3, <2>1
  <2> QED BY <1>3, <2>1, <2>2, <2>3
<1>5. EmptyEndTags(r) = 3 * n
  <2>1. 3 * n <= Len(r)
    BY <1>1, <1>2, <1>3
  <2>2. ASSUME NEW j \in 0 .. n - 1
        PROVE  r[3 * j + 1] = "<" /\ r[3 * j + 2] = "/" /\ r[3 * j + 3] = ">"
    <3>1. 3 * j + 1 \in 1 .. c - a /\ 3 * j + 2 \in 1 .. c - a /\ 3 * j + 3 \in 1 .. c - a
      BY <1>1, <1>2
    <3>2. r[3 * j + 1] = s[a + (3 * j + 1) - 1] /\ r[3 * j + 2] = s[a + (3 * j + 2) - 1] /\ r[3 * j + 3] = s[a + (3 * j + 3) - 1]
      BY <1>3, <3>1
    <3>3. a + (3 * j + 1) - 1 = a + 3 * j /\ a + (3 * j + 2) - 1 = a + 3 * j + 1 /\ a + (3 * j + 3) - 1 = a + 3 * j + 2
      OBVIOUS
    <3> QED BY <1>1, <3>2, <3>3
  <2>3. ~(3 * n + 3 <= Len(r) /\ r[3 * n + 1] = "<" /\ r[3 * n + 2] = "/" /\ r[3 * n + 3] = ">")
    <3> SUFFICES ASSUME 3 * n + 3 <= Len(r), r[3 * n + 1] = "<", r[3 * n + 2] = "/", r[3 * n + 3] = ">"
                 PROVE  FALSE
      OBVIOUS
    <3>1. b - a = 3 * n /\ 1 \in 1 .. Len(w) /\ 2 \in 1 .. Len(w) /\ 3 \in 1 .. Len(w) /\ Len(w) >= 3
      BY <1>1, <1>2, <1>3
    <3>2. w[1] = r[3 * n + 1] /\ w[2] = r[3 * n + 2] /\ w[3] = r[3 * n + 3]
      BY <1>4, <3>1
    <3> QED BY <3>1, <3>2
  <2> QED BY <1>3, <2>1, <2>2, <2>3, CountedEmptyEnds
<1>6. EmptyEndTags(r) = b - a
  BY <1>1, <1>5
<1>7. ShownOf(r) = w
  <2> DEFINE m == (b - a) + 1
             n2 == Len(r)
             v == SubSeq(r, m, n2)
  <2>1. m \in Nat /\ n2 \in Nat /\ 1 <= m /\ m <= n2 + 1 /\ n2 <= Len(r) /\ n2 - m + 1 = Len(w)
    BY <1>2, <1>3
  <2>2. \A i \in 1 .. Len(w) : m + i - 1 = b - a + i
    BY <1>2
  <2> HIDE DEF m, n2
  <2>5. /\ v \in Seq(Unit) /\ Len(v) = n2 - m + 1
        /\ \A i \in 1 .. n2 - m + 1 : v[i] = r[m + i - 1]
    <3>1. r \in Seq(Unit)
      BY <1>3
    <3> QED BY <3>1, <2>1, PartOf, SMTT(60)
  <2> HIDE DEF v
  <2>3. ASSUME NEW i \in 1 .. Len(w) PROVE v[i] = w[i]
    <3> QED BY <1>4, <2>1, <2>2, <2>5
  <2>4. v = w
    BY <2>1, <2>5, <2>3, SameUnits
  <2> QED BY <1>6, <2>4 DEF ShownOf, v, m, n2
<1> QED BY <1>3, <1>6, <1>7 DEF r, Shows

-----------------------------------------------------------------------------
\* What is read at the same place is the same.
LEMMA SameReading ==
  ASSUME NEW s, NEW a, NEW u \in Seq(Unit), NEW v \in Seq(Unit), Len(u) = Len(v), Reads(u, s, a), Reads(v, s, a)
  PROVE  u = v
PROOF
<1>1. \A i \in 1 .. Len(u) : u[i] = v[i]
  BY DEF Reads
<1> QED BY <1>1, SameUnits

\* The part of the page from m up to c reads as itself.
LEMMA ReadsPart ==
  ASSUME NEW s \in Seq(Unit), NEW m \in Nat, NEW c \in Nat, 1 <= m, m <= c, c <= Len(s) + 1
  PROVE  /\ SubSeq(s, m, c - 1) \in Seq(Unit) /\ Len(SubSeq(s, m, c - 1)) = c - m
         /\ Reads(SubSeq(s, m, c - 1), s, m)
PROOF
<1> DEFINE n == c - 1
           w == SubSeq(s, m, n)
<1>1. n \in Nat /\ m <= n + 1 /\ n <= Len(s) /\ n - m + 1 = c - m
  OBVIOUS
<1> HIDE DEF n
<1>2. w \in Seq(Unit) /\ Len(w) = n - m + 1 /\ \A i \in 1 .. n - m + 1 : w[i] = s[m + i - 1]
  BY <1>1, PartOf
<1> HIDE DEF w
<1>3. Reads(w, s, m)
  BY <1>2 DEF Reads
<1> QED BY <1>1, <1>2, <1>3 DEF w, n

\* The text of a character is the character.
LEMMA CharacterShows ==
  ASSUME NEW s \in Seq(Unit), NEW t, t.from \in Nat, 1 <= t.from, t.to \in Nat, t.to <= Len(s), CharacterStands(s, t)
  PROVE  LET r == SubSeq(s, t.from, t.to - 1)
         IN ShownOf(r) = <<t.value>> /\ Len(r) = EmptyEndTags(r) + 1
PROOF
<1> DEFINE a == t.from
           c == t.to
           b == t.to - 1
           w == <<t.value>>
<1>1. a \in Nat /\ 1 <= a /\ c \in Nat /\ b \in 1 .. Len(s) /\ EmptyEnds(s, a, b) /\ s[b] = t.value /\ c <= Len(s) + 1
  BY DEF CharacterStands
<1>2. t.value \in Unit /\ s[b] \in Unit
  BY <1>1
<1>3. w \in Seq(Unit) /\ Len(w) = 1
  BY <1>2
<1>4. Reads(w, s, b) /\ c = b + Len(w) /\ c - a = (b - a) + 1
  BY <1>1, <1>2, <1>3, ReadsOne
<1>5. ~(Len(w) >= 3 /\ w[1] = "<" /\ w[2] = "/" /\ w[3] = ">")
  BY <1>3
<1> HIDE DEF a, b, c, w
<1>6. /\ ShownOf(SubSeq(s, a, c - 1)) = w
      /\ EmptyEndTags(SubSeq(s, a, c - 1)) = b - a /\ Len(SubSeq(s, a, c - 1)) = c - a
  <2>1. Stands(s, a, b, w, c)
    BY <1>1, <1>3, <1>4, <1>5 DEF Stands
  <2>2. Shows(s, a, b, w, c)
    BY Zenon, <2>1, TextShows
  <2> QED BY <2>2 DEF Shows
<1>7. Len(SubSeq(s, a, c - 1)) = EmptyEndTags(SubSeq(s, a, c - 1)) + 1
  BY <1>4, <1>6
<1> QED BY <1>6, <1>7 DEF a, c, w

\* The text of the first character of a CDATA section shows how the section begins.
LEMMA SectionShows ==
  ASSUME NEW s \in Seq(Unit), NEW t, t.from \in Nat, 1 <= t.from, t.to \in Nat, t.to <= Len(s), SectionStands(s, t)
  PROVE  ShownOf(SubSeq(s, t.from, t.to - 1)) = <<"<", "!", "[CDATA[", t.value>>
PROOF
<1> DEFINE a == t.from
           c == t.to
           b == t.to - 4
           w == <<"<", "!", "[CDATA[", t.value>>
<1>1. /\ a \in Nat /\ 1 <= a /\ c \in Nat /\ a <= b /\ EmptyEnds(s, a, b) /\ c <= Len(s) + 1
      /\ b \in 1 .. Len(s) /\ b + 1 \in 1 .. Len(s) /\ b + 2 \in 1 .. Len(s) /\ b + 3 \in 1 .. Len(s)
      /\ c - 3 = b + 1 /\ c - 2 = b + 2 /\ c - 1 = b + 3
  <2>1. a \in Nat /\ 1 <= a /\ c \in Nat /\ a + 4 <= c /\ EmptyEnds(s, a, b) /\ c <= Len(s)
    BY DEF SectionStands
  <2>2. b = c - 4 /\ Len(s) \in Nat
    OBVIOUS
  <2> HIDE DEF a, b, c
  <2> QED BY <2>1, <2>2
<1>2. s[b] = "<" /\ s[b + 1] = "!" /\ s[b + 2] = "[CDATA[" /\ s[b + 3] = t.value
  BY <1>1 DEF SectionStands
<1>3. s[b] \in Unit /\ s[b + 1] \in Unit /\ s[b + 2] \in Unit /\ s[b + 3] \in Unit
  BY <1>1
<1>4. "<" \in Unit /\ "!" \in Unit /\ "[CDATA[" \in Unit /\ t.value \in Unit
  BY <1>2, <1>3
<1>5. w \in Seq(Unit) /\ Len(w) = 4 /\ w[1] = "<" /\ w[2] = "!" /\ w[3] = "[CDATA[" /\ w[4] = t.value
  BY <1>4
<1> HIDE DEF a, b, c, w
<1>6. \A i \in 1 .. 4 : s[b + i - 1] = w[i]
  <2>1. b + 1 - 1 = b /\ b + 2 - 1 = b + 1 /\ b + 3 - 1 = b + 2 /\ b + 4 - 1 = b + 3
    BY <1>1
  <2>2. \A i \in 1 .. 4 : i = 1 \/ i = 2 \/ i = 3 \/ i = 4
    OBVIOUS
  <2> QED BY <1>2, <1>5, <2>1, <2>2
<1>7. Reads(w, s, b) /\ ~(Len(w) >= 3 /\ w[1] = "<" /\ w[2] = "/" /\ w[3] = ">")
  BY <1>5, <1>6 DEF Reads
<1>8. c = b + Len(w)
  BY <1>1, <1>5
<1>9. ShownOf(SubSeq(s, a, c - 1)) = w
  <2>1. Stands(s, a, b, w, c)
    BY <1>1, <1>5, <1>7, <1>8 DEF Stands
  <2>2. Shows(s, a, b, w, c)
    BY Zenon, <2>1, TextShows
  <2> QED BY <2>2 DEF Shows
<1> QED BY <1>9 DEF a, c, w

\* The text of the second character of a reference is empty.
LEMMA SecondShows ==
  ASSUME NEW s \in Seq(Unit), NEW a \in Nat
  PROVE  SubSeq(s, a, a - 1) = <<>> /\ EmptyEndTags(<<>>) = 0
PROOF
<1>1. SubSeq(s, a, a - 1) = <<>>
  <2>1. a > a - 1
    OBVIOUS
  <2> QED BY <2>1, SubSeqEmpty
<1>2. <<>> \in Seq(Unit) /\ Len(<<>>) = 0
  OBVIOUS
<1>3. EmptyEndTags(<<>>) = 3 * 0
  <2> DEFINE r == <<>>
             n == 0
  <2>1. r \in Seq(Unit) /\ n \in Nat /\ 3 * n <= Len(r) /\ ~(3 * n + 3 <= Len(r)) /\ \A j \in 0 .. n - 1 : FALSE
    BY <1>2
  <2> HIDE DEF r, n
  <2>2. EmptyEndTags(r) = 3 * n
    BY <2>1, CountedEmptyEnds
  <2> QED BY <2>2 DEF r, n
<1> QED BY <1>1, <1>3

-----------------------------------------------------------------------------
\* What the text of a comment says of its value, next the unit after it.
Begin(s) ==
  IF Len(s) > 3 /\ SubSeq(s, 1, 4) = <<"<", "!", "-", "-">> THEN SubSeq(s, 1, 4)
  ELSE IF s[2] = "?" THEN <<"<">> ELSE SubSeq(s, 1, 2)

CommentSays(s, value, next) ==
  IF Len(Begin(s)) = 4
    THEN \/ \E h \in Held : Len(h) > 1 /\ s = Begin(s) \o value \o h \o <<">">>
         \/ \E h \in Held : next = EOF /\ s = Begin(s) \o value \o h
         \/ value = <<>> /\ SubSeq(s, 5, Len(s)) \in {<<">">>, <<"-", ">">>}
    ELSE s = Begin(s) \o value \o <<">">> \/ (next = EOF /\ s = Begin(s) \o value)

\* Up to c a comment stands at m: opened by o units, its value and what the dashes before its end are.
CommentAt(s, m, o, value, h, c) ==
  /\ s \in Seq(Unit) /\ m \in Nat /\ 1 <= m /\ o \in {1, 2, 4} /\ value \in Seq(Unit) /\ h \in Held
  /\ c \in Nat /\ c <= Len(s) /\ OpensComment(s, m, o)
  /\ Reads(value, s, m + o) /\ Reads(h, s, m + o + Len(value))
  /\ o # 4 => h = <<>>
  /\ o = 2 /\ s[m + 1] = "/" => value # <<>>
  /\ LET end == m + o + Len(value) + Len(h)
     IN \/ c = end /\ s[end] = EOF
        \/ /\ c = end + 1 /\ s[end] = ">"
           /\ o = 4 /\ Len(h) < 2 => value = <<>>

\* The units that open a comment.
OpenedBy(s, m, o) == SubSeq(s, m, m + o - 1)

LEMMA HeldAreUnits ==
  ASSUME "-" \in Unit, "!" \in Unit, NEW h \in Held
  PROVE  h \in Seq(Unit) /\ Len(h) \in 0 .. 3
PROOF
<1>1. <<>> \in Seq(Unit) /\ <<"-">> \in Seq(Unit) /\ <<"-", "-">> \in Seq(Unit) /\ <<"-", "-", "!">> \in Seq(Unit)
  OBVIOUS
<1>2. h = <<>> \/ h = <<"-">> \/ h = <<"-", "-">> \/ h = <<"-", "-", "!">>
  BY DEF Held
<1>3. Len(<<>>) = 0 /\ Len(<<"-">>) = 1 /\ Len(<<"-", "-">>) = 2 /\ Len(<<"-", "-", "!">>) = 3
  OBVIOUS
<1>4. h \in Seq(Unit)
  BY Zenon, <1>1, <1>2
<1>5. Len(h) = 0 \/ Len(h) = 1 \/ Len(h) = 2 \/ Len(h) = 3
  BY Zenon, <1>2, <1>3
<1> QED BY <1>4, <1>5

\* The text of a comment: how it is opened, its value, the dashes, and ">" unless the page ends.
ReadAs(s, m, o, value, h, c, w) ==
  LET opened == OpenedBy(s, m, o)
      all == opened \o value \o h
  IN /\ opened \in Seq(Unit) /\ Len(opened) = o /\ Reads(opened, s, m)
     /\ w \in Seq(Unit) /\ Len(w) = c - m /\ Reads(w, s, m)
     /\ \/ s[c] = EOF /\ w = all
        \/ /\ w = all \o <<">">> /\ c = m + o + Len(value) + Len(h) + 1
           /\ ">" \in Unit /\ Reads(h \o <<">">>, s, m + o + Len(value))
           /\ o = 4 /\ Len(h) < 2 => value = <<>>

LEMMA CommentReads ==
  ASSUME NEW s, NEW m, NEW o, NEW value, NEW h, NEW c, CommentAt(s, m, o, value, h, c)
  PROVE  ReadAs(s, m, o, value, h, c, SubSeq(s, m, c - 1))
PROOF
<1> DEFINE w == SubSeq(s, m, c - 1)
           opened == OpenedBy(s, m, o)
           all == (opened \o value) \o h
           end == m + o + Len(value) + Len(h)
<1>1. /\ s \in Seq(Unit) /\ m \in Nat /\ 1 <= m /\ o \in {1, 2, 4} /\ value \in Seq(Unit)
      /\ c \in Nat /\ c <= Len(s)
      /\ Reads(value, s, m + o) /\ Reads(h, s, m + o + Len(value))
      /\ \/ c = end /\ s[end] = EOF
         \/ c = end + 1 /\ s[end] = ">" /\ (o = 4 /\ Len(h) < 2 => value = <<>>)
  BY DEF CommentAt
<1>2. h \in Seq(Unit) /\ Len(h) \in 0 .. 3
  <2>1. "-" \in Unit /\ "!" \in Unit
    BY DEF Unit
  <2> QED BY <2>1, HeldAreUnits DEF CommentAt
<1>3. /\ Len(value) \in Nat /\ m + o \in Nat /\ end \in Nat /\ m + o <= c /\ m <= c /\ m <= m + o
      /\ c <= Len(s) + 1 /\ m + o <= Len(s) + 1 /\ m + o + Len(value) \in Nat
  BY <1>1, <1>2
<1>4. opened \in Seq(Unit) /\ Len(opened) = o /\ Reads(opened, s, m)
  <2>1. (m + o) - m = o
    BY <1>1
  <2> QED BY <1>1, <1>3, <2>1, ReadsPart DEF OpenedBy
<1>5. w \in Seq(Unit) /\ Len(w) = c - m /\ Reads(w, s, m)
  BY <1>1, <1>3, ReadsPart
<1> HIDE DEF w, opened
<1>6. opened \o value \in Seq(Unit) /\ Len(opened \o value) = o + Len(value) /\ Reads(opened \o value, s, m)
  <2>1. Reads(opened \o value, s, m)
    BY <1>1, <1>4, ReadsBoth
  <2> QED BY <1>1, <1>4, <2>1, Joined
<1>7. all \in Seq(Unit) /\ Len(all) = o + Len(value) + Len(h) /\ Reads(all, s, m)
  <2>1. m + (o + Len(value)) = m + o + Len(value) /\ Len(h) \in Nat
    BY <1>1, <1>2, <1>3
  <2>2. Reads(all, s, m)
    BY <1>1, <1>2, <1>6, <2>1, ReadsBoth
  <2>3. all \in Seq(Unit) /\ Len(all) = Len(opened \o value) + Len(h)
    BY <1>2, <1>6, Joined
  <2> HIDE DEF all
  <2> QED BY <1>6, <2>2, <2>3
<1> HIDE DEF all
<1>8. CASE c = end /\ s[end] = EOF
  <2>1. Len(w) = Len(all)
    BY <1>1, <1>2, <1>3, <1>5, <1>7, <1>8
  <2>2. w = all
    BY <1>5, <1>7, <2>1, SameReading
  <2> QED BY <1>4, <1>5, <1>8, <2>2 DEF ReadAs, w, all, opened
<1>9. CASE c = end + 1 /\ s[end] = ">" /\ (o = 4 /\ Len(h) < 2 => value = <<>>)
  <2> DEFINE closed == all \o <<">">>
             tail == h \o <<">">>
  <2>1. end \in 1 .. Len(s)
    BY <1>1, <1>3, <1>9
  <2>2. ">" \in Unit
    <3>1. s[end] \in Unit
      BY <1>1, <2>1
    <3> QED BY <1>9, <3>1
  <2>3. Reads(<<">">>, s, end) /\ <<">">> \in Seq(Unit) /\ Len(<<">">>) = 1
    BY <1>3, <1>9, <2>2, ReadsOne
  <2>4. closed \in Seq(Unit) /\ Len(closed) = o + Len(value) + Len(h) + 1 /\ Reads(closed, s, m)
    <3>1. m + Len(all) = end
      BY <1>1, <1>2, <1>3, <1>7
    <3>2. Reads(closed, s, m)
      BY <1>1, <1>7, <2>3, <3>1, ReadsBoth
    <3>3. closed \in Seq(Unit) /\ Len(closed) = Len(all) + 1
      BY <1>7, <2>3, Joined
    <3> HIDE DEF closed
    <3> QED BY <1>7, <3>2, <3>3
  <2>5. Reads(tail, s, m + o + Len(value))
    BY <1>1, <1>2, <1>3, <2>3, ReadsBoth
  <2> HIDE DEF closed, tail
  <2>6. Len(w) = Len(closed)
    BY <1>1, <1>2, <1>3, <1>5, <1>9, <2>4
  <2>7. w = closed
    BY <1>5, <2>4, <2>6, SameReading
  <2>8. c = m + o + Len(value) + Len(h) + 1
    BY <1>9
  <2> HIDE DEF end
  <2> QED BY <1>4, <1>5, <1>9, <2>2, <2>5, <2>7, <2>8 DEF ReadAs, w, all, opened, closed, tail
<1> QED BY <1>1, <1>8, <1>9

\* The first units of a text.
LEMMA BeginningOf ==
  ASSUME NEW w \in Seq(Unit), NEW k \in Nat, k <= Len(w)
  PROVE  SubSeq(w, 1, k) \in Seq(Unit) /\ Len(SubSeq(w, 1, k)) = k /\ \A i \in 1 .. k : SubSeq(w, 1, k)[i] = w[i]
PROOF
<1>1. \A i \in 1 .. k : w[i] \in Unit
  OBVIOUS
<1> QED BY <1>1, SubSeqProperties

\* The page from m up to c, and that it is no empty end tag.
Covers(w, s, m, c) == w \in Seq(Unit) /\ Len(w) = c - m /\ Reads(w, s, m)
NoEmptyEnd(w) == ~(Len(w) >= 3 /\ w[1] = "<" /\ w[2] = "/" /\ w[3] = ">")

\* A comment begins with what has opened it, and that is no empty end tag.
LEMMA CommentBegin ==
  ASSUME NEW s, NEW m, NEW o, NEW value, NEW h, NEW c, CommentAt(s, m, o, value, h, c),
         NEW w, Covers(w, s, m, c)
  PROVE  Begin(w) = OpenedBy(s, m, o) /\ NoEmptyEnd(w)
PROOF
<1> DEFINE q == <<"<", "!", "-", "-">>
           opened == OpenedBy(s, m, o)
<1>0. w \in Seq(Unit) /\ Len(w) = c - m /\ Reads(w, s, m)
  BY DEF Covers
<1> USE <1>0
<1>1. /\ s \in Seq(Unit) /\ m \in Nat /\ 1 <= m /\ o \in {1, 2, 4} /\ value \in Seq(Unit)
      /\ c \in Nat /\ c <= Len(s) /\ OpensComment(s, m, o)
      /\ \/ c = m + o + Len(value) + Len(h) /\ s[c] = EOF
         \/ c = m + o + Len(value) + Len(h) + 1
  BY DEF CommentAt
<1>2. Len(h) \in 0 .. 3 /\ Len(value) \in Nat /\ Len(w) \in Nat /\ Len(s) \in Nat
  <2>1. "-" \in Unit /\ "!" \in Unit
    BY DEF Unit
  <2>2. h \in Held
    BY DEF CommentAt
  <2> QED BY <1>1, <2>1, <2>2, HeldAreUnits
<1>3. Len(w) >= o /\ m + o <= Len(s) + 1 /\ m <= m + o /\ m + o \in Nat /\ (m + o) - m = o
  BY <1>1, <1>2
<1>4. opened \in Seq(Unit) /\ Len(opened) = o /\ Reads(opened, s, m)
  BY <1>1, <1>3, ReadsPart DEF OpenedBy
<1>5. \A i \in 1 .. Len(w) : w[i] = s[m + i - 1]
  BY DEF Reads
<1>6. /\ 1 <= Len(w) => w[1] = s[m]
      /\ 2 <= Len(w) => w[2] = s[m + 1]
      /\ 3 <= Len(w) => w[3] = s[m + 2]
      /\ 4 <= Len(w) => w[4] = s[m + 3]
  <2>1. m + 1 - 1 = m /\ m + 2 - 1 = m + 1 /\ m + 3 - 1 = m + 2 /\ m + 4 - 1 = m + 3
    BY <1>1
  <2>2. /\ 1 <= Len(w) => 1 \in 1 .. Len(w)
        /\ 2 <= Len(w) => 2 \in 1 .. Len(w)
        /\ 3 <= Len(w) => 3 \in 1 .. Len(w)
        /\ 4 <= Len(w) => 4 \in 1 .. Len(w)
    BY <1>2
  <2> QED BY <1>5, <2>1, <2>2
<1>7. Len(opened) = o /\ \A i \in 1 .. o : opened[i] = s[m + i - 1] /\ opened[i] = w[i]
  <2>1. \A i \in 1 .. o : opened[i] = s[m + i - 1]
    BY <1>4 DEF Reads
  <2>2. \A i \in 1 .. o : i \in 1 .. Len(w)
    BY <1>1, <1>2, <1>3
  <2> QED BY <1>4, <1>5, <2>1, <2>2
<1> HIDE DEF opened
\* The beginning of w, and when it is that of a proper comment.
<1>8. ASSUME NEW k \in {2, 4}, k <= Len(w)
      PROVE  SubSeq(w, 1, k) \in Seq(Unit) /\ Len(SubSeq(w, 1, k)) = k /\ \A i \in 1 .. k : SubSeq(w, 1, k)[i] = w[i]
  BY <1>8, BeginningOf
<1>9. ASSUME Len(w) > 3, SubSeq(w, 1, 4) = q
      PROVE  s[m + 1] = "!" /\ s[m + 2] = "-" /\ s[m + 3] = "-"
  <2>1. q[2] = "!" /\ q[3] = "-" /\ q[4] = "-"
    OBVIOUS
  <2>2. 2 \in 1 .. 4 /\ 3 \in 1 .. 4 /\ 4 \in 1 .. 4 /\ 4 \in {2, 4} /\ 4 <= Len(w)
    BY <1>2, <1>9
  <2>3. w[2] = SubSeq(w, 1, 4)[2] /\ w[3] = SubSeq(w, 1, 4)[3] /\ w[4] = SubSeq(w, 1, 4)[4]
    BY Zenon, <1>8, <2>2
  <2>4. w[2] = "!" /\ w[3] = "-" /\ w[4] = "-"
    BY Zenon, <1>9, <2>1, <2>3
  <2> QED BY <1>2, <1>6, <1>9, <2>4
<1>10. NoEmptyEnd(w)
  <2> SUFFICES ASSUME Len(w) >= 3, w[1] = "<", w[2] = "/", w[3] = ">"
               PROVE  FALSE
    BY DEF NoEmptyEnd
  <2>1. s[m + 1] = "/" /\ s[m + 2] = ">"
    BY <1>2, <1>6
  <2> QED BY <1>1, <2>1 DEF OpensComment
<1>11. CASE o = 4
  <2>1. w[1] = "<" /\ w[2] = "!" /\ w[3] = "-" /\ w[4] = "-"
    BY <1>1, <1>2, <1>3, <1>6, <1>11 DEF OpensComment
  <2>2. q \in Seq(Unit) /\ Len(q) = 4 /\ q[1] = "<" /\ q[2] = "!" /\ q[3] = "-" /\ q[4] = "-"
    <3>1. "<" \in Unit /\ "!" \in Unit /\ "-" \in Unit
      BY DEF Unit
    <3> QED BY <3>1
  <2> HIDE DEF q
  <2>3. \A i \in 1 .. 4 : w[i] = q[i]
    <3>1. \A i \in 1 .. 4 : i = 1 \/ i = 2 \/ i = 3 \/ i = 4
      OBVIOUS
    <3> QED BY <2>1, <2>2, <3>1
  <2>5. SubSeq(w, 1, 4) = q
    BY <1>2, <1>3, <1>8, <1>11, <2>2, <2>3, SameUnits
  <2>6. opened = q
    BY <1>4, <1>7, <1>11, <2>2, <2>3, SameUnits
  <2>7. Begin(w) = SubSeq(w, 1, 4)
    BY <1>2, <1>3, <1>11, <2>5 DEF Begin, q
  <2> QED BY <1>7, <1>10, <2>5, <2>6, <2>7 DEF opened
<1>12. CASE o = 2
  <2>1. ~(Len(w) > 3 /\ SubSeq(w, 1, 4) = q)
    BY <1>1, <1>9, <1>12 DEF OpensComment
  <2>2. w[2] # "?"
    BY <1>1, <1>2, <1>3, <1>6, <1>12 DEF OpensComment
  <2>3. Begin(w) = SubSeq(w, 1, 2)
    BY Zenon, <2>1, <2>2 DEF Begin
  <2>4. SubSeq(w, 1, 2) = opened
    BY <1>3, <1>4, <1>7, <1>8, <1>12, SameUnits
  <2> QED BY <1>7, <1>10, <2>3, <2>4 DEF opened
<1>13. CASE o = 1
  <2>1. s[m] = "<" /\ s[m + 1] = "?"
    BY <1>1, <1>13 DEF OpensComment
  <2>2. ~(Len(w) > 3 /\ SubSeq(w, 1, 4) = q)
    BY <1>9, <2>1
  <2>3. Len(w) >= 2
    <3>1. CASE c = m + 1 /\ s[c] = EOF
      BY <2>1, <3>1 DEF EOF
    <3>2. CASE c # m + 1 \/ s[c] # EOF
      BY <1>1, <1>2, <1>13, <3>2
    <3> QED BY <3>1, <3>2
  <2>4. Begin(w) = <<"<">>
    BY <1>2, <1>6, <2>1, <2>2, <2>3 DEF Begin
  <2>5. <<"<">> \in Seq(Unit) /\ Len(<<"<">>) = 1 /\ <<"<">>[1] = "<"
    BY DEF Unit
  <2>6. opened = <<"<">>
    <3>1. opened[1] = "<"
      BY <1>2, <1>6, <1>7, <1>13, <2>1, <2>3
    <3> QED BY <1>4, <1>13, <2>5, <3>1, SameUnits
  <2> QED BY <1>7, <1>10, <2>4, <2>6 DEF opened
<1> QED BY <1>1, <1>11, <1>12, <1>13

\* What the text of a comment says.
LEMMA CommentIsSaid ==
  ASSUME NEW s, NEW m, NEW o, NEW value, NEW h, NEW c, CommentAt(s, m, o, value, h, c)
  PROVE  LET w == SubSeq(s, m, c - 1)
         IN CommentSays(w, value, s[c]) /\ Covers(w, s, m, c) /\ NoEmptyEnd(w)
PROOF
<1> DEFINE w == SubSeq(s, m, c - 1)
           b == OpenedBy(s, m, o)
           all == (b \o value) \o h
<1>1. ReadAs(s, m, o, value, h, c, w)
  BY Zenon, CommentReads
<1>2. w \in Seq(Unit) /\ Len(w) = c - m /\ Reads(w, s, m) /\ b \in Seq(Unit) /\ Len(b) = o
  BY Zenon, <1>1 DEF ReadAs
<1>0. Covers(w, s, m, c)
  BY <1>2 DEF Covers
<1>3. \/ s[c] = EOF /\ w = all
      \/ /\ w = all \o <<">">> /\ c = m + o + Len(value) + Len(h) + 1
         /\ ">" \in Unit /\ Reads(h \o <<">">>, s, m + o + Len(value))
         /\ o = 4 /\ Len(h) < 2 => value = <<>>
  BY Zenon, <1>1 DEF ReadAs
<1>4. /\ o \in {1, 2, 4} /\ h \in Held /\ (o # 4 => h = <<>>) /\ value \in Seq(Unit) /\ m \in Nat /\ c \in Nat
  BY Zenon DEF CommentAt
<1>5. "-" \in Unit /\ "!" \in Unit
  BY DEF Unit
<1>6. h \in Seq(Unit) /\ Len(h) \in 0 .. 3
  BY <1>4, <1>5, HeldAreUnits
<1> HIDE DEF w
<1>7. Begin(w) = b /\ NoEmptyEnd(w)
  BY Zenon, <1>0, CommentBegin
<1> HIDE DEF b
<1>8. CASE o = 4
  <2>0. Len(Begin(w)) = 4
    BY <1>2, <1>7, <1>8
  <2>1. CASE s[c] = EOF /\ w = all
    <3>1. CommentSays(w, value, s[c])
      BY Zenon, <1>4, <1>7, <2>0, <2>1 DEF CommentSays
    <3> QED BY <1>0, <1>7, <3>1 DEF w
  <2>2. CASE w = all \o <<">">> /\ Len(h) > 1
    <3>1. CommentSays(w, value, s[c])
      BY Zenon, <1>4, <1>7, <2>0, <2>2 DEF CommentSays
    <3> QED BY <1>0, <1>7, <3>1 DEF w
  <2>3. CASE /\ value = <<>> /\ Len(h) < 2 /\ c = m + o + Len(value) + Len(h) + 1
             /\ ">" \in Unit /\ Reads(h \o <<">">>, s, m + o + Len(value))
    <3> DEFINE tail == h \o <<">">>
               n == Len(w)
               rest == SubSeq(w, 5, n)
    <3>1. Len(value) = 0 /\ n = Len(h) + 5 /\ n \in Nat /\ m + o + Len(value) = m + 4
      BY <1>2, <1>4, <1>6, <1>8, <2>3
    <3>2. h = <<>> \/ h = <<"-">>
      <4>1. Len(<<"-", "-">>) = 2 /\ Len(<<"-", "-", "!">>) = 3
        OBVIOUS
      <4> QED BY <1>4, <2>3, <4>1 DEF Held
    <3>3. tail \in {<<">">>, <<"-", ">">>}
      <4>1. <<"-">> \o <<">">> = <<"-", ">">>
        BY Zenon, <1>5, <2>3, WrittenOut
      <4>2. <<">">> \in Seq(Unit)
        BY <2>3
      <4>3. <<>> \o <<">">> = <<">">>
        BY <4>2
      <4> QED BY <3>2, <4>1, <4>3
    <3>4. tail \in Seq(Unit) /\ Len(tail) = Len(h) + 1 /\ Reads(tail, s, m + 4)
      <4>1. <<">">> \in Seq(Unit) /\ Len(<<">">>) = 1
        BY <2>3
      <4> QED BY <1>6, <2>3, <3>1, <4>1, Joined
    <3> HIDE DEF n, tail
    <3>5. rest \in Seq(Unit) /\ Len(rest) = n - 5 + 1 /\ \A i \in 1 .. n - 5 + 1 : rest[i] = w[5 + i - 1]
      <4>1. 5 \in Nat /\ 1 <= 5 /\ 5 <= n + 1 /\ n <= Len(w)
        BY <1>6, <3>1 DEF n
      <4> QED BY <1>2, <3>1, <4>1, PartOf
    <3> HIDE DEF rest
    <3>6. Len(rest) = Len(tail)
      BY <1>6, <3>1, <3>4, <3>5
    <3>7. ASSUME NEW i \in 1 .. Len(rest)
          PROVE  s[(m + 4) + i - 1] = rest[i]
      <4>1. 5 + i - 1 \in 1 .. Len(w) /\ m + (5 + i - 1) - 1 = (m + 4) + i - 1 /\ i \in 1 .. n - 5 + 1
        BY <1>4, <1>6, <3>1, <3>5 DEF n
      <4>2. s[m + (5 + i - 1) - 1] = w[5 + i - 1]
        BY <1>2, <4>1 DEF Reads
      <4> QED BY <3>5, <4>1, <4>2
    <3>8. rest = tail
      <4>1. Reads(rest, s, m + 4)
        BY <3>7 DEF Reads
      <4> QED BY <3>4, <3>5, <3>6, <4>1, SameReading
    <3>9. CommentSays(w, value, s[c])
      BY Zenon, <1>7, <2>0, <2>3, <3>3, <3>8 DEF CommentSays, rest, n
    <3> QED BY <1>0, <1>7, <3>9 DEF w
  <2>4. Len(h) > 1 \/ Len(h) < 2
    BY <1>6
  <2> QED BY Zenon, <1>3, <1>8, <2>1, <2>2, <2>3, <2>4
<1>9. CASE o # 4
  <2>1. h = <<>> /\ b \o value \in Seq(Unit)
    BY <1>2, <1>4, <1>9, Joined
  <2>2. all = b \o value
    BY <2>1
  <2>3. Len(Begin(w)) # 4
    BY <1>2, <1>7, <1>9
  <2>4. CommentSays(w, value, s[c])
    BY Zenon, <1>3, <1>7, <2>2, <2>3 DEF CommentSays
  <2> QED BY <1>0, <1>7, <2>4 DEF w
<1> QED BY <1>8, <1>9

-----------------------------------------------------------------------------
(***************************************************************************)
(* Every token is the page at its place.                                   *)
(***************************************************************************)

\* A comment that stands at its place is the text between its delimiters.
LEMMA CommentShows ==
  ASSUME NEW s \in Seq(Unit), NEW t, t.from \in Nat, 1 <= t.from, t.to \in Nat, t.to <= Len(s), CommentStands(s, t)
  PROVE  CommentSays(ShownOf(SubSeq(s, t.from, t.to - 1)), t.value, s[t.to])
PROOF
<1> DEFINE a == t.from
           c == t.to
           v == t.value
<1>0. a \in Nat /\ 1 <= a /\ c \in Nat /\ c <= Len(s)
  OBVIOUS
<1>1. PICK m \in Nat, o \in {1, 2, 4}, h \in Held :
        /\ a <= m /\ EmptyEnds(s, a, m) /\ OpensComment(s, m, o)
        /\ Reads(v, s, m + o) /\ Reads(h, s, m + o + Len(v))
        /\ o # 4 => h = <<>>
        /\ o = 2 /\ s[m + 1] = "/" => v # <<>>
        /\ LET end == m + o + Len(v) + Len(h)
           IN \/ c = end /\ s[end] = EOF
              \/ /\ c = end + 1 /\ s[end] = ">"
                 /\ o = 4 /\ Len(h) < 2 => v = <<>>
  BY Zenon DEF CommentStands
<1>2. v \in Seq(Unit)
  BY Zenon DEF CommentStands
<1> HIDE DEF a, c, v
<1>3. 1 <= m /\ m \in Nat /\ o \in {1, 2, 4} /\ h \in Held
  BY <1>0, <1>1
<1>4. CommentAt(s, m, o, v, h, c)
  BY Zenon, <1>0, <1>1, <1>2, <1>3 DEF CommentAt
<1> DEFINE w == SubSeq(s, m, c - 1)
<1>5. CommentSays(w, v, s[c]) /\ Covers(w, s, m, c) /\ NoEmptyEnd(w)
  BY Zenon, <1>4, CommentIsSaid
<1> HIDE DEF w
<1>6. Stands(s, a, m, w, c)
  <2>1. w \in Seq(Unit) /\ Len(w) = c - m /\ Reads(w, s, m)
    BY <1>5 DEF Covers
  <2>2. c = m + Len(w) /\ c <= Len(s) + 1
    BY <1>0, <1>3, <2>1
  <2> QED BY <1>0, <1>1, <1>5, <2>1, <2>2 DEF Stands, NoEmptyEnd
<1>7. Shows(s, a, m, w, c)
  BY Zenon, <1>6, TextShows
<1>8. ShownOf(SubSeq(s, a, c - 1)) = w
  BY Zenon, <1>7 DEF Shows
<1> QED BY Zenon, <1>5, <1>8 DEF a, c, v

\* The text of a tag is delimited.
LEMMA TagShows ==
  ASSUME NEW s \in Seq(Unit), NEW t, t.from \in Nat, 1 <= t.from, t.to \in Nat, t.to <= Len(s), TagStands(s, t)
  PROVE  LET r == SubSeq(s, t.from, t.to - 1)
         IN Len(r) >= 2 /\ r[1] = "<" /\ r[Len(r)] = ">"
PROOF
<1> DEFINE a == t.from
           n == t.to - 1
           r == SubSeq(s, a, n)
<1>1. /\ a \in Nat /\ n \in Nat /\ 1 <= a /\ a <= n + 1 /\ n <= Len(s) /\ a + 1 <= n
      /\ s[a] = "<" /\ s[n] = ">"
  BY DEF TagStands
<1> HIDE DEF a, n
<1>2. Len(r) = n - a + 1 /\ \A i \in 1 .. n - a + 1 : r[i] = s[a + i - 1]
  BY <1>1, PartOf
<1> HIDE DEF r
<1>3. 1 \in 1 .. n - a + 1 /\ n - a + 1 \in 1 .. n - a + 1 /\ a + 1 - 1 = a /\ a + (n - a + 1) - 1 = n
  BY <1>1
<1>4. r[1] = "<" /\ r[n - a + 1] = ">"
  BY <1>1, <1>2, <1>3
<1>5. Len(r) >= 2 /\ r[1] = "<" /\ r[Len(r)] = ">"
  BY <1>1, <1>2, <1>4
<1> QED BY <1>5 DEF r, a, n

\* A token whose text stands at its place is the text of the page.
TextFits(s, ts, i) ==
  LET r == SubSeq(s, ts[i].from, ts[i].to - 1)
  IN /\ ts[i].type \in {"character", "whitespace", "cdata"} =>
          \/ ShownOf(r) = <<ts[i].value>>
          \/ ts[i].type = "cdata" /\ ShownOf(r) = <<"<", "!", "[CDATA[", ts[i].value>>
          \/ ts[i].value = "second" /\ i > 1 /\ ts[i - 1].value = "&2;" /\ r = <<>>
     /\ Len(r) > EmptyEndTags(r) + 1 /\ ts[i].type \in {"character", "whitespace", "cdata", "eof"} =>
          ts[i].type = "cdata" \/ s[ts[i].to] = EOF
     /\ ts[i].type \in {"start", "end"} => Len(r) >= 2 /\ r[1] = "<" /\ r[Len(r)] = ">"
     /\ ts[i].type = "comment" => CommentSays(ShownOf(r), ts[i].value, s[ts[i].to])

LEMMA TokenFits ==
  ASSUME NEW s \in Seq(Unit), NEW ts \in Seq(Token), NEW i \in 1 .. Len(ts), TokenStands(s, ts, i)
  PROVE  TextFits(s, ts, i)
PROOF
<1> DEFINE t == ts[i]
           r == SubSeq(s, t.from, t.to - 1)
<1>1. /\ t.from \in 1 .. t.to /\ t.to <= Len(s)
      /\ t.type \in {"character", "whitespace"} =>
           \/ CharacterStands(s, t)
           \/ t.value = "second" /\ i > 1 /\ ts[i - 1].value = "&2;" /\ t.from = t.to
      /\ t.type = "cdata" => CharacterStands(s, t) \/ SectionStands(s, t)
      /\ t.type = "eof" => s[t.to] = EOF
      /\ t.type \in {"start", "end"} => TagStands(s, t)
      /\ t.type = "comment" => CommentStands(s, t)
  BY Zenon DEF TokenStands
<1>2. t.from \in Nat /\ 1 <= t.from /\ t.to \in Nat /\ t.to <= Len(s)
  <2>1. t.from \in 1 .. t.to /\ t.to <= Len(s)
    BY Zenon, <1>1
  <2>2. t \in Token
    OBVIOUS
  <2> QED BY <2>1, <2>2 DEF Token
<1> HIDE DEF t
<1>3. CharacterStands(s, t) => ShownOf(r) = <<t.value>> /\ Len(r) = EmptyEndTags(r) + 1
  BY Zenon, <1>2, CharacterShows
<1>4. SectionStands(s, t) => ShownOf(r) = <<"<", "!", "[CDATA[", t.value>>
  BY Zenon, <1>2, SectionShows
<1>5. t.from = t.to => r = <<>> /\ ~(Len(r) > EmptyEndTags(r) + 1)
  <2> SUFFICES ASSUME t.from = t.to PROVE r = <<>> /\ ~(Len(r) > EmptyEndTags(r) + 1)
    OBVIOUS
  <2>1. r = <<>> /\ EmptyEndTags(<<>>) = 0
    BY Zenon, <1>2, SecondShows
  <2>2. ~(Len(<<>>) > 0 + 1)
    OBVIOUS
  <2> QED BY Zenon, <2>1, <2>2
<1>6. CharacterStands(s, t) => ~(Len(r) > EmptyEndTags(r) + 1)
  <2> SUFFICES ASSUME CharacterStands(s, t) PROVE ~(Len(r) > EmptyEndTags(r) + 1)
    OBVIOUS
  <2> DEFINE n == Len(r)
  <2>1. r \in Seq(Unit) /\ n \in Nat
    BY <1>2, ReadsPart
  <2>2. n = EmptyEndTags(r) + 1
    BY Zenon, <1>3
  <2> HIDE DEF n, r
  <2>3. ~(n > n)
    BY <2>1
  <2> QED BY Zenon, <2>2, <2>3 DEF n
<1>7. TagStands(s, t) => Len(r) >= 2 /\ r[1] = "<" /\ r[Len(r)] = ">"
  BY Zenon, <1>2, TagShows
<1>8. CommentStands(s, t) => CommentSays(ShownOf(r), t.value, s[t.to])
  BY Zenon, <1>2, CommentShows
<1> HIDE DEF r
<1>9. t.type \in {"character", "whitespace", "cdata"} =>
          \/ ShownOf(r) = <<t.value>>
          \/ t.type = "cdata" /\ ShownOf(r) = <<"<", "!", "[CDATA[", t.value>>
          \/ t.value = "second" /\ i > 1 /\ ts[i - 1].value = "&2;" /\ r = <<>>
  BY Zenon, <1>1, <1>3, <1>4, <1>5
<1>10. Len(r) > EmptyEndTags(r) + 1 /\ t.type \in {"character", "whitespace", "cdata", "eof"} =>
          t.type = "cdata" \/ s[t.to] = EOF
  BY Zenon, <1>1, <1>5, <1>6
<1>11. t.type \in {"start", "end"} => Len(r) >= 2 /\ r[1] = "<" /\ r[Len(r)] = ">"
  BY Zenon, <1>1, <1>7
<1>12. t.type = "comment" => CommentSays(ShownOf(r), t.value, s[t.to])
  BY Zenon, <1>1, <1>8
<1> QED BY Zenon, <1>9, <1>10, <1>11, <1>12 DEF TextFits, t, r

LEMMA TokensFit ==
  ASSUME InputOK, OutputOK, TokensStand
  PROVE  TokensAreTheInput
PROOF
<1>1. source \in Seq(Unit) /\ tokens \in Seq(Token)
  BY DEF InputOK, OutputOK
<1>2. ASSUME NEW i \in 1 .. Len(tokens)
      PROVE  Follows(i) /\ TextFits(source, tokens, i)
  <2>1. TokenStands(source, tokens, i)
    BY DEF TokensStand
  <2>2. Follows(i)
    BY Zenon, <2>1 DEF TokenStands, Follows
  <2> QED BY Zenon, <1>1, <2>1, <2>2, TokenFits
<1>3. TextIsTheInput
  BY Zenon, <1>2 DEF TextIsTheInput, TextFits, Shown, ShownOf, TextOf
<1>4. TagsAreDelimited
  BY Zenon, <1>2 DEF TagsAreDelimited, TextFits, TextOf, Tag, TextTypes
<1>5. CommentIsTheInput
  BY Zenon, <1>2 DEF CommentIsTheInput, TextFits, CommentSays, Begin, Shown, ShownOf, TextOf
<1> QED BY <1>3, <1>4, <1>5 DEF TokensAreTheInput

\* Every token is the page at its place, read once and in order: no text is lost, invented or emitted
\* twice, however often the tokenizer goes back over what was no tag.  It holds for every page, of
\* any length, and whatever the parser makes of the tokens.
THEOREM TokensAreThePage == Spec => []TokensAreTheInput
PROOF
<1>1. IInv /\ StreamInv => TokensAreTheInput
  BY TokensFit DEF IInv, StreamInv
<1> QED BY <1>1, StreamInvariance, PTL

-----------------------------------------------------------------------------
(***************************************************************************)
(* The attributes of a tag are those written in it.  What has been read of *)
(* a tag without quotes says where its last name or value began, and which *)
(* names have their value; the last one may still be waiting for it.       *)
(***************************************************************************)
Read == SubSeq(source, tokenStart, pos - 1)

UnquotedStates ==
  {"TAG_NAME", "BEFORE_ATTR_NAME", "ATTR_NAME", "AFTER_ATTR_NAME", "BEFORE_ATTR_VALUE", "ATTR_VALUE_UNQUOTED"}

\* The buffer is the name from the k-th unit on, or the value behind the e-th.
NameFrom(s, buffer, k) ==
  /\ k \in 3 .. Len(s) /\ s[k - 1] = Blank /\ s[k] \notin ValueEnds
  /\ \A j \in k + 1 .. Len(s) : s[j] \notin NameEnds
  /\ Len(buffer) = Len(s) - k + 1 /\ \A j \in 1 .. Len(buffer) : buffer[j] = Lower(s[k + j - 1])
ValueFrom(s, buffer, e) ==
  /\ e \in 1 .. Len(s) /\ s[e] = "="
  /\ \A j \in e + 1 .. Len(s) : s[j] \notin ValueEnds
  /\ Len(buffer) = Len(s) - e /\ \A j \in 1 .. Len(buffer) : buffer[j] = s[e + j]

\* What was read last, in each state of a tag.
ReadLast(s, r, t) ==
  /\ r \in UnquotedStates /\ Len(s) >= 1 /\ s[1] = "<"
  /\ r = "TAG_NAME" => t.attributes = <<>> /\ \A k \in 1 .. Len(s) : s[k] # Blank
  /\ r \in {"BEFORE_ATTR_NAME", "AFTER_ATTR_NAME"} => s[Len(s)] = Blank
  /\ r = "ATTR_NAME" => \E k \in 1 .. Len(s) : NameFrom(s, t.buffer, k)
  /\ r = "BEFORE_ATTR_VALUE" => s[Len(s)] = "="
  /\ r = "ATTR_VALUE_UNQUOTED" => \E e \in 1 .. Len(s) : ValueFrom(s, t.buffer, e)

\* The last attribute waits for its value, which is looked for behind the m-th unit.
Waits(r, t, a) ==
  /\ r \in {"AFTER_ATTR_NAME", "BEFORE_ATTR_VALUE", "ATTR_VALUE_UNQUOTED"}
  /\ ~t.dropNext /\ a = Len(t.attributes)
Awaited(s, r, t, m) ==
  /\ m < Len(s)
  /\ r = "AFTER_ATTR_NAME" => Blanks(s, m + 1, Len(s))
  /\ r = "BEFORE_ATTR_VALUE" => Blanks(s, m + 1, Len(s) - 1)
  /\ r = "ATTR_VALUE_UNQUOTED" => \E e \in m + 1 .. Len(s) : Blanks(s, m + 1, e - 1) /\ ValueFrom(s, t.buffer, e)

\* The a-th attribute is what the name from k to m has given.
Gives(s, r, t, k, m, a) ==
  /\ t.attributes[a].name = NameIn(s, k, m)
  /\ IF Waits(r, t, a) THEN Awaited(s, r, t, m) ELSE Given(s, m, t.attributes[a].value)
AllGiven(s, r, t) ==
  \A k, m \in 1 .. Len(s) : FirstNamed(s, k, m) => \E a \in 1 .. Len(t.attributes) : Gives(s, r, t, k, m, a)

IsWritten(s, name) == name[1] = "=" \/ \E k, m \in 1 .. Len(s) : Named(s, k, m) /\ name = NameIn(s, k, m)
AllWritten(s, t) == \A a \in 1 .. Len(t.attributes) : IsWritten(s, t.attributes[a].name)

TagSaid(s, r, t) == ReadLast(s, r, t) /\ AllGiven(s, r, t) /\ AllWritten(s, t)

-----------------------------------------------------------------------------
(***************************************************************************)
(* Lemmas on a text and the text with one more unit.                       *)
(***************************************************************************)
Longer(s, w, u) ==
  /\ s \in Seq(Unit) /\ w \in Seq(Unit) /\ Len(w) = Len(s) + 1
  /\ \A i \in 1 .. Len(s) : w[i] = s[i]
  /\ w[Len(s) + 1] = u

\* White space, "=" and ">" are told apart.
LEMMA EndsApart ==
  /\ Blank # "=" /\ Blank # ">" /\ Blank # "<"
  /\ Blank \in NameEnds /\ "=" \in NameEnds /\ ">" \in NameEnds
  /\ Blank \in ValueEnds /\ ">" \in ValueEnds /\ "=" \notin ValueEnds
  /\ \A u : u \notin NameEnds => u \notin ValueEnds /\ u # "="
  /\ \A u : u \notin ValueEnds => u # ">" /\ u # Blank
  /\ \A u : u \in ValueEnds => u \in NameEnds
PROOF
<1>1. Blank # "=" /\ Blank # ">" /\ Blank # "<"
  BY Zenon DEF Blank
<1> QED BY Zenon, <1>1 DEF NameEnds, ValueEnds

\* A name in small letters.
LEMMA NamesAreUnits ==
  ASSUME NEW s \in Seq(Unit), NEW k \in 1 .. Len(s), NEW m \in k .. Len(s)
  PROVE  /\ NameIn(s, k, m) \in Seq(Unit) /\ Len(NameIn(s, k, m)) = m - k + 1
         /\ \A j \in 1 .. m - k + 1 : NameIn(s, k, m)[j] = Lower(s[k + j - 1])
PROOF
<1>1. "s" \in Unit
  BY DEF Unit
<1>2. ASSUME NEW j \in 1 .. m - k + 1
      PROVE  Lower(s[k + j - 1]) \in Unit
  <2>1. k + j - 1 \in 1 .. Len(s)
    OBVIOUS
  <2> QED BY <1>1, <2>1 DEF Lower
<1>3. m - k + 1 \in Nat
  OBVIOUS
<1> QED BY <1>2, <1>3 DEF NameIn

\* Where the text was known, its names and their values are what they were.
LEMMA NamesStay ==
  ASSUME NEW s, NEW w, NEW u, Longer(s, w, u), NEW k \in Nat, NEW m \in Nat, m < Len(s)
  PROVE  /\ Named(w, k, m) <=> Named(s, k, m)
         /\ 1 <= k => NameIn(w, k, m) = NameIn(s, k, m)
PROOF
<1>1. Len(s) \in Nat /\ Len(w) = Len(s) + 1
  BY DEF Longer
<1>2. \A i \in 1 .. m + 1 : w[i] = s[i]
  BY <1>1 DEF Longer
<1>3. Named(w, k, m) <=> Named(s, k, m)
  <2>1. ASSUME 3 <= k, k <= m
        PROVE  w[k - 1] = s[k - 1] /\ w[m + 1] = s[m + 1] /\ \A j \in k .. m : w[j] = s[j]
    BY <1>1, <1>2, <2>1
  <2>2. m < Len(w)
    BY <1>1
  <2> QED BY <1>1, <2>1, <2>2, Zenon DEF Named
<1>4. ASSUME 1 <= k
      PROVE  NameIn(w, k, m) = NameIn(s, k, m)
  <2>1. \A j \in 1 .. m - k + 1 : w[k + j - 1] = s[k + j - 1]
    <3>1. \A j \in 1 .. m - k + 1 : k + j - 1 \in 1 .. m + 1
      BY <1>4
    <3> QED BY <1>2, <3>1
  <2> QED BY <2>1, Zenon DEF NameIn
<1> QED BY <1>3, <1>4

LEMMA FirstStays ==
  ASSUME NEW s, NEW w, NEW u, Longer(s, w, u), NEW k \in Nat, NEW m \in Nat, m < Len(s), FirstNamed(w, k, m)
  PROVE  FirstNamed(s, k, m)
PROOF
<1>1. Named(w, k, m)
  BY Zenon DEF FirstNamed
<1>a. 3 <= k /\ k <= m
  BY <1>1, Zenon DEF Named
<1>b. Len(s) \in Nat /\ 1 <= k
  BY <1>a DEF Longer
<1>2. Named(s, k, m) /\ NameIn(w, k, m) = NameIn(s, k, m)
  BY <1>1, <1>b, NamesStay
<1>3. ASSUME NEW j \in 1 .. k - 1, NEW n \in 1 .. k - 1, Named(s, j, n), NameIn(s, j, n) = NameIn(s, k, m)
      PROVE  FALSE
  <2>1. j \in Nat /\ n \in Nat /\ n < Len(s) /\ 1 <= j
    BY <1>a, <1>b
  <2>2. Named(w, j, n) /\ NameIn(w, j, n) = NameIn(s, j, n)
    BY <1>3, <2>1, NamesStay
  <2> QED BY <1>2, <1>3, <2>2 DEF FirstNamed
<1> QED BY <1>2, <1>3, Zenon DEF FirstNamed

LEMMA GivenStays ==
  ASSUME NEW s, NEW w, NEW u, Longer(s, w, u), NEW m \in Nat, NEW value, Given(s, m, value)
  PROVE  Given(w, m, value)
PROOF
<1>1. s \in Seq(Unit) /\ w \in Seq(Unit) /\ Len(s) \in Nat /\ Len(w) = Len(s) + 1 /\ \A i \in 1 .. Len(s) : w[i] = s[i]
  BY DEF Longer
<1>2. CASE \E e, v \in m + 1 .. Len(s) - 1 :
             /\ e <= v /\ Blanks(s, m + 1, e - 1) /\ s[e] = "="
             /\ s[v + 1] \in ValueEnds /\ \A j \in e + 1 .. v : s[j] \notin ValueEnds
             /\ value = SubSeq(s, e + 1, v)
  <2>1. PICK e \in m + 1 .. Len(s) - 1, v \in m + 1 .. Len(s) - 1 :
             /\ e <= v /\ Blanks(s, m + 1, e - 1) /\ s[e] = "="
             /\ s[v + 1] \in ValueEnds /\ \A j \in e + 1 .. v : s[j] \notin ValueEnds
             /\ value = SubSeq(s, e + 1, v)
    BY <1>2
  <2>2. /\ e \in m + 1 .. Len(w) - 1 /\ v \in m + 1 .. Len(w) - 1 /\ w[e] = s[e] /\ w[v + 1] = s[v + 1]
        /\ \A j \in e + 1 .. v : w[j] = s[j]
        /\ \A j \in m + 1 .. e - 1 : w[j] = s[j]
    BY <1>1
  <2>3. Blanks(w, m + 1, e - 1)
    BY <2>1, <2>2 DEF Blanks
  <2>4. SubSeq(w, e + 1, v) = SubSeq(s, e + 1, v)
    <3>a. e <= v
      BY <2>1
    <3>1. e + 1 \in Nat /\ v \in Nat /\ 1 <= e + 1 /\ e + 1 <= v + 1 /\ v <= Len(s) /\ v <= Len(w)
      BY <1>1, <3>a
    <3>2. \A i \in 1 .. v - (e + 1) + 1 : w[e + 1 + i - 1] = s[e + 1 + i - 1]
      <4>1. \A i \in 1 .. v - (e + 1) + 1 : e + 1 + i - 1 \in 1 .. Len(s)
        BY <1>1, <3>1
      <4> QED BY <1>1, <4>1, Zenon
    <3>3. /\ SubSeq(s, e + 1, v) \in Seq(Unit) /\ Len(SubSeq(s, e + 1, v)) = v - (e + 1) + 1
          /\ \A i \in 1 .. v - (e + 1) + 1 : SubSeq(s, e + 1, v)[i] = s[e + 1 + i - 1]
      BY <1>1, <3>1, PartOf
    <3>4. /\ SubSeq(w, e + 1, v) \in Seq(Unit) /\ Len(SubSeq(w, e + 1, v)) = v - (e + 1) + 1
          /\ \A i \in 1 .. v - (e + 1) + 1 : SubSeq(w, e + 1, v)[i] = w[e + 1 + i - 1]
      BY <1>1, <3>1, PartOf
    <3> QED BY <3>2, <3>3, <3>4, SameUnits
  <2> QED BY <2>1, <2>2, <2>3, <2>4 DEF Given
<1>3. CASE \E e \in m + 1 .. Len(s) : Blanks(s, m + 1, e - 1) /\ s[e] \notin {Blank, "="} /\ value = <<>>
  <2>1. PICK e \in m + 1 .. Len(s) : Blanks(s, m + 1, e - 1) /\ s[e] \notin {Blank, "="} /\ value = <<>>
    BY <1>3
  <2>2. e \in m + 1 .. Len(w) /\ w[e] = s[e] /\ \A j \in m + 1 .. e - 1 : w[j] = s[j]
    BY <1>1
  <2>3. Blanks(w, m + 1, e - 1)
    BY <2>1, <2>2 DEF Blanks
  <2> QED BY <2>1, <2>2, <2>3 DEF Given
<1> QED BY <1>2, <1>3 DEF Given

\* What was written is still written.
LEMMA WrittenStays ==
  ASSUME NEW s, NEW w, NEW u, Longer(s, w, u), NEW name, IsWritten(s, name)
  PROVE  IsWritten(w, name)
PROOF
<1>1. CASE \E k, m \in 1 .. Len(s) : Named(s, k, m) /\ name = NameIn(s, k, m)
  <2>1. PICK k \in 1 .. Len(s), m \in 1 .. Len(s) : Named(s, k, m) /\ name = NameIn(s, k, m)
    BY <1>1
  <2>a. m < Len(s)
    BY <2>1, Zenon DEF Named
  <2>b. Len(s) \in Nat /\ Len(w) = Len(s) + 1
    BY DEF Longer
  <2>2. k \in Nat /\ m \in Nat /\ m < Len(s) /\ 1 <= k /\ k \in 1 .. Len(w) /\ m \in 1 .. Len(w)
    BY <2>a, <2>b
  <2>3. Named(w, k, m) /\ name = NameIn(w, k, m)
    BY <2>1, <2>2, NamesStay
  <2> QED BY <2>2, <2>3 DEF IsWritten
<1> QED BY <1>1 DEF IsWritten

-----------------------------------------------------------------------------
(***************************************************************************)
(* What one more unit of a tag without quotes does to what is said of it.  *)
(***************************************************************************)
UnquotedMove(next, t) ==
  \/ state = "TAG_NAME" /\ next = "TAG_NAME" /\ Current \notin ValueEnds /\ t = WithChar(Lower(Current))
  \/ /\ state = "TAG_NAME" /\ <<Current, next>> \in {<<Blank, "BEFORE_ATTR_NAME">>, <<">", "DATA">>}
     /\ t = WithTagName
  \/ state \in {"BEFORE_ATTR_NAME", "AFTER_ATTR_NAME"} /\ next = state /\ Current = Blank /\ t = tag
  \/ /\ state \in {"BEFORE_ATTR_NAME", "AFTER_ATTR_NAME", "BEFORE_ATTR_VALUE"}
     /\ next = "DATA" /\ Current = ">" /\ t = tag
  \/ /\ state \in {"BEFORE_ATTR_NAME", "ATTR_NAME", "AFTER_ATTR_NAME"} /\ next = "ATTR_NAME"
     /\ Current \notin ValueEnds /\ (state # "BEFORE_ATTR_NAME" => Current # "=")
     /\ t = WithChar(Lower(Current))
  \/ /\ state = "ATTR_NAME"
     /\ <<Current, next>> \in {<<Blank, "AFTER_ATTR_NAME">>, <<"=", "BEFORE_ATTR_VALUE">>, <<">", "DATA">>}
     /\ t = WithAttributeName
  \/ state = "AFTER_ATTR_NAME" /\ next = "BEFORE_ATTR_VALUE" /\ Current = "=" /\ t = tag
  \/ /\ state \in {"BEFORE_ATTR_VALUE", "ATTR_VALUE_UNQUOTED"} /\ next = "ATTR_VALUE_UNQUOTED"
     /\ Current \notin ValueEnds /\ t = WithChar(Current)
  \/ /\ state = "ATTR_VALUE_UNQUOTED"
     /\ <<Current, next>> \in {<<Blank, "BEFORE_ATTR_NAME">>, <<">", "DATA">>}
     /\ t = WithAttributeValue

\* A name that ends where the text ended is the one the buffer holds.
LEMMA NewName ==
  ASSUME NEW s, NEW w, NEW u, Longer(s, w, u), NEW r, NEW t \in TagType, ReadLast(s, r, t),
         NEW k \in Nat, NEW m \in Nat, Named(w, k, m), ~(m < Len(s))
  PROVE  /\ r = "ATTR_NAME" /\ m = Len(s) /\ u \in NameEnds /\ k \in 1 .. Len(s)
         /\ NameFrom(s, t.buffer, k) /\ NameIn(w, k, m) = t.buffer
PROOF
<1>1. /\ s \in Seq(Unit) /\ w \in Seq(Unit) /\ Len(s) \in Nat /\ Len(w) = Len(s) + 1 /\ w[Len(s) + 1] = u
      /\ \A i \in 1 .. Len(s) : w[i] = s[i]
  BY DEF Longer
<1>2. /\ 3 <= k /\ k <= m /\ m < Len(w)
      /\ w[k - 1] = Blank /\ w[m + 1] \in NameEnds /\ \A j \in k .. m : w[j] \notin NameEnds
  BY Zenon DEF Named
<1>a. Len(s) \in Nat /\ Len(w) = Len(s) + 1 /\ 3 <= k /\ k <= m /\ m < Len(w)
  BY <1>1, <1>2, Zenon
<1>b. m = Len(s)
  BY <1>a
<1>3. m = Len(s) /\ u \in NameEnds
  BY <1>1, <1>2, <1>b, Zenon
<1>4. k - 1 \in 1 .. Len(s) /\ k \in 1 .. Len(s) /\ Len(s) \in 1 .. Len(s) /\ m \in k .. m
  BY <1>a, <1>b
<1>5. /\ s[k - 1] = Blank /\ s[Len(s)] \notin NameEnds
      /\ \A j \in k .. Len(s) : s[j] \notin NameEnds
  <2>1. \A j \in k .. Len(s) : j \in 1 .. Len(s)
    BY <1>1, <1>4
  <2> QED BY <1>1, <1>2, <1>3, <1>4, <2>1
<1>6. Blank \in NameEnds /\ "=" \in NameEnds /\ Blank # "="
  BY EndsApart
<1>7. r \in UnquotedStates /\ r \notin {"TAG_NAME", "BEFORE_ATTR_NAME", "AFTER_ATTR_NAME", "BEFORE_ATTR_VALUE"}
  BY <1>4, <1>5, <1>6 DEF ReadLast
<1>8. r # "ATTR_VALUE_UNQUOTED"
  <2>1. SUFFICES ASSUME r = "ATTR_VALUE_UNQUOTED"
                 PROVE  FALSE
    OBVIOUS
  <2>2. PICK e \in 1 .. Len(s) : ValueFrom(s, t.buffer, e)
    BY <2>1 DEF ReadLast
  <2>3. s[e] = "=" /\ \A j \in e + 1 .. Len(s) : s[j] # Blank
    BY Zenon, <2>2, EndsApart DEF ValueFrom
  <2>4. ~(k - 1 \in e + 1 .. Len(s)) /\ ~(e \in k .. Len(s)) /\ k - 1 # e
    BY <1>5, <1>6, <2>3
  <2> QED BY <1>1, <1>4, <2>4
<1>9. r = "ATTR_NAME"
  BY <1>7, <1>8 DEF UnquotedStates
<1>10. PICK b \in 1 .. Len(s) : NameFrom(s, t.buffer, b)
  BY <1>9 DEF ReadLast
<1>11. /\ s[b - 1] = Blank /\ s[b] # Blank /\ b \in 3 .. Len(s)
       /\ \A j \in b + 1 .. Len(s) : s[j] \notin NameEnds
  BY Zenon, <1>10, EndsApart DEF NameFrom
<1>12. b = k
  <2>1. ~(k - 1 \in b + 1 .. Len(s)) /\ k - 1 # b /\ ~(b - 1 \in k .. Len(s))
    BY <1>5, <1>6, <1>11
  <2>2. b \in 3 .. Len(s)
    BY <1>11
  <2> QED BY <1>a, <1>4, <2>1, <2>2
<1>13. NameIn(w, k, m) = t.buffer
  <2>1. /\ NameIn(w, k, m) \in Seq(Unit) /\ Len(NameIn(w, k, m)) = m - k + 1
        /\ \A j \in 1 .. m - k + 1 : NameIn(w, k, m)[j] = Lower(w[k + j - 1])
    <3>1. k \in 1 .. Len(w) /\ m \in k .. Len(w)
      BY <1>a
    <3> QED BY <1>1, <3>1, NamesAreUnits
  <2>2. /\ t.buffer \in Seq(Unit) /\ Len(t.buffer) = Len(s) - k + 1
        /\ \A j \in 1 .. Len(t.buffer) : t.buffer[j] = Lower(s[k + j - 1])
    BY <1>10, <1>12 DEF NameFrom, TagType
  <2>3. \A j \in 1 .. m - k + 1 : w[k + j - 1] = s[k + j - 1]
    <3>1. \A j \in 1 .. m - k + 1 : k + j - 1 \in 1 .. Len(s)
      BY <1>1, <1>3, <1>4
    <3> QED BY <1>1, <3>1, Zenon
  <2>4. m - k + 1 = Len(s) - k + 1
    BY <1>3
  <2>5. \A j \in 1 .. m - k + 1 : NameIn(w, k, m)[j] = t.buffer[j]
    BY <2>1, <2>2, <2>3, <2>4
  <2> HIDE DEF NameIn
  <2> QED BY <2>1, <2>2, <2>4, <2>5, SameUnits
<1> QED BY <1>3, <1>4, <1>9, <1>10, <1>12, <1>13

\* What is to hold of an attribute when the tag becomes t.
Passes(s, w, next, t, a) ==
  /\ t.attributes[a].name = tag.attributes[a].name
  /\ ~Waits(state, tag, a) => ~Waits(next, t, a) /\ t.attributes[a].value = tag.attributes[a].value
  /\ \A m \in 1 .. Len(s) : Waits(state, tag, a) /\ Awaited(s, state, tag, m) =>
       IF Waits(next, t, a) THEN Awaited(w, next, t, m) ELSE Given(w, m, t.attributes[a].value)

\* The attributes of names that were written before.
LEMMA GivenOn ==
  ASSUME NEW s, NEW w, NEW u, Longer(s, w, u), NEW t, NEW next, AllGiven(s, state, tag),
         NEW k \in Nat, NEW m \in Nat, m < Len(s), FirstNamed(w, k, m),
         \A a \in 1 .. Len(tag.attributes) : Passes(s, w, next, t, a)
  PROVE  \E a \in 1 .. Len(tag.attributes) : Gives(w, next, t, k, m, a)
PROOF
<1>1. Named(w, k, m) /\ 3 <= k /\ k <= m
  BY Zenon DEF FirstNamed, Named
<1>2. Len(s) \in Nat /\ k \in 1 .. Len(s) /\ m \in 1 .. Len(s) /\ 1 <= k
  BY <1>1 DEF Longer
<1>3. FirstNamed(s, k, m) /\ NameIn(w, k, m) = NameIn(s, k, m)
  BY <1>2, FirstStays, NamesStay
<1>4. PICK a \in 1 .. Len(tag.attributes) :
        /\ tag.attributes[a].name = NameIn(s, k, m)
        /\ IF Waits(state, tag, a) THEN Awaited(s, state, tag, m) ELSE Given(s, m, tag.attributes[a].value)
  BY <1>2, <1>3, Zenon DEF AllGiven, Gives
<1>5. t.attributes[a].name = NameIn(w, k, m)
  BY <1>3, <1>4, Zenon DEF Passes
<1>6. CASE Waits(state, tag, a)
  <2>1. IF Waits(next, t, a) THEN Awaited(w, next, t, m) ELSE Given(w, m, t.attributes[a].value)
    BY <1>2, <1>4, <1>6, Zenon DEF Passes
  <2> QED BY Zenon, <1>5, <2>1 DEF Gives
<1>7. CASE ~Waits(state, tag, a)
  <2>1. ~Waits(next, t, a) /\ t.attributes[a].value = tag.attributes[a].value
    BY <1>7, Zenon DEF Passes
  <2>2. Given(w, m, t.attributes[a].value)
    BY <1>4, <1>7, <2>1, GivenStays
  <2> QED BY Zenon, <1>5, <2>1, <2>2 DEF Gives
<1> QED BY <1>6, <1>7

\* A step that ends no name.
LEMMA NoNameEnds ==
  ASSUME NEW s, NEW w, NEW u, Longer(s, w, u), tag \in TagType, NEW t, NEW next, TagSaid(s, state, tag),
         state # "ATTR_NAME" \/ u \notin NameEnds, Len(t.attributes) = Len(tag.attributes),
         \A a \in 1 .. Len(tag.attributes) : Passes(s, w, next, t, a)
  PROVE  AllGiven(w, next, t) /\ AllWritten(w, t)
PROOF
<1>1. ReadLast(s, state, tag) /\ AllGiven(s, state, tag) /\ AllWritten(s, tag)
  BY DEF TagSaid
<1>2. ASSUME NEW k \in 1 .. Len(w), NEW m \in 1 .. Len(w), FirstNamed(w, k, m)
      PROVE  \E a \in 1 .. Len(t.attributes) : Gives(w, next, t, k, m, a)
  <2>1. Named(w, k, m) /\ k \in Nat /\ m \in Nat
    BY <1>2 DEF FirstNamed
  <2>2. m < Len(s)
    BY <1>1, <2>1, NewName
  <2>3. \E a \in 1 .. Len(tag.attributes) : Gives(w, next, t, k, m, a)
    <3>1. \A a \in 1 .. Len(tag.attributes) : Passes(s, w, next, t, a)
      OBVIOUS
    <3> QED BY Zenon, <1>1, <1>2, <2>1, <2>2, <3>1, GivenOn
  <2> QED BY <2>3, Zenon
<1>3. ASSUME NEW a \in 1 .. Len(t.attributes)
      PROVE  IsWritten(w, t.attributes[a].name)
  <2>1. t.attributes[a].name = tag.attributes[a].name /\ IsWritten(s, tag.attributes[a].name)
    BY <1>1, <1>3, Zenon DEF Passes, AllWritten
  <2> QED BY <2>1, WrittenStays
<1> QED BY <1>2, <1>3, Zenon DEF AllGiven, AllWritten

\* Blanks, names and values with one more unit.
LEMMA BlanksStay ==
  ASSUME NEW s, NEW w, NEW u, Longer(s, w, u), NEW j \in Nat, 1 <= j, NEW k \in Int, k <= Len(s), Blanks(s, j, k)
  PROVE  Blanks(w, j, k) /\ (u = Blank /\ k = Len(s) => Blanks(w, j, Len(w)))
PROOF
<1>1. Len(s) \in Nat /\ Len(w) = Len(s) + 1 /\ w[Len(s) + 1] = u /\ \A i \in 1 .. Len(s) : w[i] = s[i]
  BY DEF Longer
<1>2. \A b \in j .. k : b \in 1 .. Len(s)
  BY <1>1
<1>3. \A b \in j .. k : w[b] = Blank
  BY <1>1, <1>2 DEF Blanks
<1>4. \A b \in j .. Len(w) : b \in j .. Len(s) \/ b = Len(s) + 1
  BY <1>1
<1> QED BY <1>1, <1>3, <1>4 DEF Blanks

LEMMA NameGrows ==
  ASSUME NEW s, NEW w, NEW u \in Unit, Longer(s, w, u), NEW buffer \in Seq(Unit),
         NEW k \in 1 .. Len(s), NameFrom(s, buffer, k), u \notin NameEnds
  PROVE  NameFrom(w, Append(buffer, Lower(u)), k)
PROOF
<1> DEFINE grown == Append(buffer, Lower(u))
<1>1. Len(s) \in Nat /\ Len(w) = Len(s) + 1 /\ w[Len(s) + 1] = u /\ \A i \in 1 .. Len(s) : w[i] = s[i]
  BY DEF Longer
<1>2. /\ k \in 3 .. Len(s) /\ s[k - 1] = Blank /\ s[k] \notin ValueEnds
      /\ \A j \in k + 1 .. Len(s) : s[j] \notin NameEnds
      /\ Len(buffer) = Len(s) - k + 1 /\ \A j \in 1 .. Len(buffer) : buffer[j] = Lower(s[k + j - 1])
  BY DEF NameFrom
<1>3. Lower(u) \in Unit
  BY DEF Lower, Unit
<1>4. /\ Len(grown) = Len(buffer) + 1 /\ grown[Len(buffer) + 1] = Lower(u)
      /\ \A j \in 1 .. Len(buffer) : grown[j] = buffer[j]
  BY <1>3, Appended
<1> HIDE DEF grown
<1>5. k \in 3 .. Len(w) /\ w[k - 1] = Blank /\ w[k] = s[k]
  BY <1>1, <1>2
<1>6. \A j \in k + 1 .. Len(w) : w[j] \notin NameEnds
  <2>1. \A j \in k + 1 .. Len(w) : (j \in k + 1 .. Len(s) /\ j \in 1 .. Len(s)) \/ j = Len(s) + 1
    BY <1>1
  <2> QED BY <1>1, <1>2, <2>1
<1>7. Len(grown) = Len(w) - k + 1
  BY <1>1, <1>2, <1>4
<1>8. ASSUME NEW j \in 1 .. Len(grown)
      PROVE  grown[j] = Lower(w[k + j - 1])
  <2>1. CASE j \in 1 .. Len(buffer)
    <3>1. k + j - 1 \in 1 .. Len(s)
      BY <1>1, <1>2, <2>1
    <3> QED BY <1>1, <1>2, <1>4, <2>1, <3>1
  <2>2. CASE j \notin 1 .. Len(buffer)
    <3>a. Len(buffer) \in Nat /\ Len(grown) = Len(buffer) + 1
      BY <1>4
    <3>b. j = Len(buffer) + 1
      BY <2>2, <3>a
    <3>c. Len(buffer) = Len(s) - k + 1 /\ Len(s) \in Nat /\ k \in Nat
      BY <1>1, <1>2
    <3>1. k + j - 1 = Len(s) + 1
      BY <3>b, <3>c
    <3> QED BY <1>1, <1>4, <3>b, <3>1
  <2> QED BY <2>1, <2>2
<1> QED BY <1>2, <1>5, <1>6, <1>7, <1>8 DEF NameFrom, grown

LEMMA NameBegins ==
  ASSUME NEW s, NEW w, NEW u \in Unit, Longer(s, w, u), s[Len(s)] = Blank, Len(s) >= 2, u \notin ValueEnds
  PROVE  NameFrom(w, <<Lower(u)>>, Len(w))
PROOF
<1>1. Len(s) \in Nat /\ Len(w) = Len(s) + 1 /\ w[Len(s) + 1] = u /\ \A i \in 1 .. Len(s) : w[i] = s[i]
  BY DEF Longer
<1>2. Len(w) \in 3 .. Len(w) /\ w[Len(w) - 1] = Blank /\ w[Len(w)] = u
  <2>1. Len(s) \in 1 .. Len(s) /\ Len(w) - 1 = Len(s) /\ Len(w) \in 3 .. Len(w)
    BY <1>1
  <2> QED BY <1>1, <2>1
<1>3. Len(<<Lower(u)>>) = 1 /\ <<Lower(u)>>[1] = Lower(u)
  OBVIOUS
<1>4. Len(w) - Len(w) + 1 = 1 /\ Len(w) + 1 - 1 = Len(w) /\ \A j \in 1 .. 1 : j = 1
  BY <1>1
<1>5. \A j \in Len(w) + 1 .. Len(w) : w[j] \notin NameEnds
  BY <1>1
<1>6. \A j \in 1 .. Len(<<Lower(u)>>) : <<Lower(u)>>[j] = Lower(w[Len(w) + j - 1])
  BY <1>2, <1>3, <1>4
<1> QED BY <1>2, <1>3, <1>4, <1>5, <1>6 DEF NameFrom

LEMMA ValueGrows ==
  ASSUME NEW s, NEW w, NEW u \in Unit, Longer(s, w, u), NEW buffer \in Seq(Unit),
         NEW e \in 1 .. Len(s), ValueFrom(s, buffer, e), u \notin ValueEnds
  PROVE  ValueFrom(w, Append(buffer, u), e)
PROOF
<1> DEFINE grown == Append(buffer, u)
<1>1. Len(s) \in Nat /\ Len(w) = Len(s) + 1 /\ w[Len(s) + 1] = u /\ \A i \in 1 .. Len(s) : w[i] = s[i]
  BY DEF Longer
<1>2. /\ s[e] = "=" /\ \A j \in e + 1 .. Len(s) : s[j] \notin ValueEnds
      /\ Len(buffer) = Len(s) - e /\ \A j \in 1 .. Len(buffer) : buffer[j] = s[e + j]
  BY DEF ValueFrom
<1>3. /\ Len(grown) = Len(buffer) + 1 /\ grown[Len(buffer) + 1] = u
      /\ \A j \in 1 .. Len(buffer) : grown[j] = buffer[j]
  BY Appended
<1> HIDE DEF grown
<1>4. e \in 1 .. Len(w) /\ w[e] = "=" /\ Len(grown) = Len(w) - e
  BY <1>1, <1>2, <1>3
<1>5. \A j \in e + 1 .. Len(w) : w[j] \notin ValueEnds
  <2>1. \A j \in e + 1 .. Len(w) : (j \in e + 1 .. Len(s) /\ j \in 1 .. Len(s)) \/ j = Len(s) + 1
    BY <1>1
  <2> QED BY <1>1, <1>2, <2>1
<1>6. ASSUME NEW j \in 1 .. Len(grown)
      PROVE  grown[j] = w[e + j]
  <2>1. CASE j \in 1 .. Len(buffer)
    <3>1. e + j \in 1 .. Len(s)
      BY <1>1, <1>2, <2>1
    <3> QED BY <1>1, <1>2, <1>3, <2>1, <3>1
  <2>2. CASE j \notin 1 .. Len(buffer)
    <3>1. j = Len(buffer) + 1 /\ e + j = Len(s) + 1
      BY <1>1, <1>2, <1>3, <2>2
    <3> QED BY <1>1, <1>3, <3>1
  <2> QED BY <2>1, <2>2
<1> QED BY <1>4, <1>5, <1>6 DEF ValueFrom, grown

\* Behind a "=" the value is still empty.
LEMMA ValueBegins ==
  ASSUME NEW s \in Seq(Unit), Len(s) >= 1, s[Len(s)] = "="
  PROVE  ValueFrom(s, <<>>, Len(s))
PROOF
<1>1. Len(s) \in 1 .. Len(s) /\ \A j \in Len(s) + 1 .. Len(s) : s[j] \notin ValueEnds
  OBVIOUS
<1>2. Len(<<>>) = Len(s) - Len(s) /\ \A j \in 1 .. Len(<<>>) : <<>>[j] = s[Len(s) + j]
  OBVIOUS
<1> QED BY <1>1, <1>2 DEF ValueFrom

LEMMA ValueIsGiven ==
  ASSUME NEW s, NEW w, NEW u, Longer(s, w, u), NEW buffer \in Seq(Unit), NEW m \in Nat,
         NEW e \in m + 1 .. Len(s), ValueFrom(s, buffer, e), Blanks(s, m + 1, e - 1), u \in ValueEnds
  PROVE  Given(w, m, buffer)
PROOF
<1>1. /\ s \in Seq(Unit) /\ w \in Seq(Unit) /\ Len(s) \in Nat /\ Len(w) = Len(s) + 1 /\ w[Len(s) + 1] = u
      /\ \A i \in 1 .. Len(s) : w[i] = s[i]
  BY DEF Longer
<1>2. /\ s[e] = "=" /\ \A j \in e + 1 .. Len(s) : s[j] \notin ValueEnds
      /\ Len(buffer) = Len(s) - e /\ \A j \in 1 .. Len(buffer) : buffer[j] = s[e + j]
  BY DEF ValueFrom
<1>3. /\ e \in m + 1 .. Len(w) - 1 /\ Len(s) \in m + 1 .. Len(w) - 1 /\ e <= Len(s)
      /\ e \in 1 .. Len(s) /\ e \in Nat /\ e - 1 \in Int /\ e - 1 <= Len(s) /\ m + 1 \in Nat /\ 1 <= m + 1
  BY <1>1
<1>4. Blanks(w, m + 1, e - 1)
  BY <1>3, BlanksStay
<1>5. w[e] = "=" /\ w[Len(s) + 1] \in ValueEnds /\ \A j \in e + 1 .. Len(s) : w[j] \notin ValueEnds
  <2>1. \A j \in e + 1 .. Len(s) : j \in 1 .. Len(s)
    BY <1>1, <1>3
  <2> QED BY <1>1, <1>2, <1>3, <2>1
<1>6. buffer = SubSeq(w, e + 1, Len(s))
  <2>1. e + 1 \in Nat /\ 1 <= e + 1 /\ e + 1 <= Len(s) + 1 /\ Len(s) <= Len(w)
    BY <1>1, <1>3
  <2>2. /\ SubSeq(w, e + 1, Len(s)) \in Seq(Unit) /\ Len(SubSeq(w, e + 1, Len(s))) = Len(s) - (e + 1) + 1
        /\ \A i \in 1 .. Len(s) - (e + 1) + 1 : SubSeq(w, e + 1, Len(s))[i] = w[e + 1 + i - 1]
    BY <1>1, <2>1, PartOf
  <2>3. \A i \in 1 .. Len(buffer) : e + i \in 1 .. Len(s) /\ e + 1 + i - 1 = e + i /\ i \in 1 .. Len(s) - (e + 1) + 1
    BY <1>1, <1>2, <1>3
  <2>4. \A i \in 1 .. Len(buffer) : buffer[i] = SubSeq(w, e + 1, Len(s))[i]
    BY <1>1, <1>2, <2>2, <2>3
  <2>5. Len(buffer) = Len(SubSeq(w, e + 1, Len(s)))
    BY <1>1, <1>2, <1>3, <2>2
  <2> QED BY <2>2, <2>4, <2>5, SameUnits
<1> QED BY <1>3, <1>4, <1>5, <1>6 DEF Given

LEMMA NoValue ==
  ASSUME NEW s, NEW w, NEW u, Longer(s, w, u), NEW m \in Nat, m <= Len(s), Blanks(s, m + 1, Len(s)), u \notin {Blank, "="}
  PROVE  Given(w, m, <<>>)
PROOF
<1>1. Len(s) \in Nat /\ Len(w) = Len(s) + 1 /\ w[Len(s) + 1] = u
  BY DEF Longer
<1>2. Len(w) \in m + 1 .. Len(w) /\ Len(w) - 1 = Len(s) /\ m + 1 \in Nat /\ 1 <= m + 1 /\ Len(s) \in Int
  BY <1>1
<1>3. Blanks(w, m + 1, Len(w) - 1)
  BY <1>1, <1>2, BlanksStay
<1>4. w[Len(w)] \notin {Blank, "="}
  BY <1>1
<1> QED BY <1>2, <1>3, <1>4 DEF Given


-----------------------------------------------------------------------------
(***************************************************************************)
(* Each move of a tag without quotes keeps what is said of it.             *)
(***************************************************************************)
SaidNow(w, next, t) == (next # "DATA" => ReadLast(w, next, t)) /\ AllGiven(w, next, t) /\ AllWritten(w, t)

LEMMA NextUnit ==
  ASSUME NEW s, NEW w, NEW u, Longer(s, w, u), TagSaid(s, state, tag)
  PROVE  /\ Len(s) \in Nat /\ Len(s) >= 1 /\ s[1] = "<"
         /\ Len(w) = Len(s) + 1 /\ Len(w) - 1 = Len(s) /\ Len(w) >= 1 /\ w[1] = "<" /\ w[Len(w)] = u
         /\ \A i \in 1 .. Len(s) : w[i] = s[i]
PROOF
<1>1. Len(s) \in Nat /\ Len(w) = Len(s) + 1 /\ w[Len(s) + 1] = u /\ \A i \in 1 .. Len(s) : w[i] = s[i]
  BY DEF Longer
<1>2. Len(s) >= 1 /\ s[1] = "<"
  BY Zenon DEF TagSaid, ReadLast
<1>3. 1 \in 1 .. Len(s) /\ Len(w) - 1 = Len(s) /\ Len(w) >= 1
  BY <1>1, <1>2
<1> QED BY <1>1, <1>2, <1>3

\* The name of the tag.
LEMMA NameOfTagMoves ==
  ASSUME NEW s, NEW w, NEW u \in Unit, Longer(s, w, u), tag \in TagType, TagSaid(s, state, tag),
         NEW next, NEW t, state = "TAG_NAME", t.attributes = tag.attributes,
         \/ next = "TAG_NAME" /\ u \notin ValueEnds
         \/ next = "BEFORE_ATTR_NAME" /\ u = Blank
         \/ next = "DATA"
  PROVE  SaidNow(w, next, t)
PROOF
<1>1. ReadLast(s, state, tag)
  BY Zenon DEF TagSaid
<1>2. tag.attributes = <<>> /\ \A k \in 1 .. Len(s) : s[k] # Blank
  BY Zenon, <1>1 DEF ReadLast
<1>3. /\ Len(s) \in Nat /\ Len(w) = Len(s) + 1 /\ Len(w) >= 1 /\ w[1] = "<" /\ w[Len(w)] = u
      /\ \A i \in 1 .. Len(s) : w[i] = s[i]
  BY NextUnit
<1>4. AllGiven(w, next, t) /\ AllWritten(w, t)
  <2>1. \A a \in 1 .. Len(tag.attributes) : Passes(s, w, next, t, a)
    BY <1>2
  <2>2. state # "ATTR_NAME" \/ u \notin NameEnds
    OBVIOUS
  <2>3. Len(t.attributes) = Len(tag.attributes)
    OBVIOUS
  <2> QED BY Zenon, <2>1, <2>2, <2>3, NoNameEnds
<1>5. ASSUME next = "TAG_NAME", u \notin ValueEnds
      PROVE  ReadLast(w, next, t)
  <2>1. \A k \in 1 .. Len(w) : k \in 1 .. Len(s) \/ k = Len(w)
    BY <1>3
  <2>2. u # Blank
    BY <1>5, EndsApart
  <2>3. \A k \in 1 .. Len(w) : w[k] # Blank
    BY <1>2, <1>3, <2>1, <2>2
  <2> QED BY <1>2, <1>3, <1>5, <2>3 DEF ReadLast, UnquotedStates
<1>6. ASSUME next = "BEFORE_ATTR_NAME", u = Blank
      PROVE  ReadLast(w, next, t)
  BY <1>3, <1>6 DEF ReadLast, UnquotedStates
<1> QED BY Zenon, <1>4, <1>5, <1>6 DEF SaidNow

\* White space around a name.
LEMMA BlankMoves ==
  ASSUME NEW s, NEW w, Longer(s, w, Blank), tag \in TagType, TagSaid(s, state, tag),
         state \in {"BEFORE_ATTR_NAME", "AFTER_ATTR_NAME"}
  PROVE  SaidNow(w, state, tag)
PROOF
<1>3. /\ Len(s) \in Nat /\ Len(w) = Len(s) + 1 /\ Len(w) >= 1 /\ w[1] = "<" /\ w[Len(w)] = Blank
  BY NextUnit
<1>1. ReadLast(w, state, tag)
  BY <1>3 DEF ReadLast, UnquotedStates
<1>2. ASSUME NEW m \in 1 .. Len(s), Awaited(s, state, tag, m)
      PROVE  Awaited(w, state, tag, m)
  <2>1. m < Len(s) /\ (state = "AFTER_ATTR_NAME" => Blanks(s, m + 1, Len(s)))
    BY Zenon, <1>2 DEF Awaited
  <2>2. m < Len(w) /\ m + 1 \in Nat /\ 1 <= m + 1 /\ Len(s) \in Int /\ Len(s) <= Len(s)
    BY <1>3, <2>1
  <2>3. state = "AFTER_ATTR_NAME" => Blanks(w, m + 1, Len(w))
    BY <2>1, <2>2, BlanksStay
  <2> QED BY <2>2, <2>3 DEF Awaited
<1>4. \A a \in 1 .. Len(tag.attributes) : Passes(s, w, state, tag, a)
  <2>1. ASSUME NEW a \in 1 .. Len(tag.attributes), NEW m \in 1 .. Len(s), Waits(state, tag, a), Awaited(s, state, tag, m)
        PROVE  IF Waits(state, tag, a) THEN Awaited(w, state, tag, m) ELSE Given(w, m, tag.attributes[a].value)
    BY Zenon, <1>2, <2>1
  <2> QED BY Zenon, <2>1 DEF Passes
<1>5. AllGiven(w, state, tag) /\ AllWritten(w, tag)
  <2>1. state # "ATTR_NAME" \/ Blank \notin NameEnds
    OBVIOUS
  <2> QED BY Zenon, <1>4, <2>1, NoNameEnds
<1> QED BY Zenon, <1>1, <1>5 DEF SaidNow

\* An attribute that waits for its value has none yet.
LEMMA WaitingIsEmpty ==
  ASSUME ValuesHaveTheirAttribute, NEW a, Waits(state, tag, a), state \in {"AFTER_ATTR_NAME", "BEFORE_ATTR_VALUE"}
  PROVE  tag.attributes[a].value = <<>>
PROOF
<1>1. ~tag.dropNext /\ a = Len(tag.attributes)
  BY Zenon DEF Waits
<1>2. tag.dropNext \/ tag.attributes[Len(tag.attributes)].value = <<>>
  <2>1. state \in ValueStates \union {"AFTER_ATTR_NAME"}
    BY DEF ValueStates
  <2> QED BY Zenon, <2>1 DEF ValuesHaveTheirAttribute
<1> QED BY <1>1, <1>2

\* It gets none where something else is read.
LEMMA NoValueMoves ==
  ASSUME NEW s, NEW w, NEW u \in Unit, Longer(s, w, u), tag \in TagType, TagSaid(s, state, tag),
         ValuesHaveTheirAttribute, NEW next, NEW t, t.attributes = tag.attributes,
         \/ next = "DATA" /\ state \in {"BEFORE_ATTR_NAME", "AFTER_ATTR_NAME", "BEFORE_ATTR_VALUE"} /\ u = ">"
         \/ next = "ATTR_NAME" /\ state \in {"BEFORE_ATTR_NAME", "AFTER_ATTR_NAME"} /\ u # Blank /\ (state = "AFTER_ATTR_NAME" => u # "=")
         \/ next = "ATTR_NAME" /\ state = "ATTR_NAME" /\ u \notin NameEnds
  PROVE  AllGiven(w, next, t) /\ AllWritten(w, t)
PROOF
<1>1. Len(s) \in Nat /\ Len(w) = Len(s) + 1 /\ Len(s) >= 1
  BY NextUnit
<1>2. ASSUME NEW m \in 1 .. Len(s), NEW a, Waits(state, tag, a), Awaited(s, state, tag, m)
      PROVE  Given(w, m, <<>>)
  <2>1. state \in {"AFTER_ATTR_NAME", "BEFORE_ATTR_VALUE"}
    BY <1>2 DEF Waits
  <2>2. /\ m < Len(s)
        /\ state = "AFTER_ATTR_NAME" => Blanks(s, m + 1, Len(s))
        /\ state = "BEFORE_ATTR_VALUE" => Blanks(s, m + 1, Len(s) - 1)
    BY Zenon, <1>2 DEF Awaited
  <2>3. m \in Nat /\ m <= Len(s) /\ Len(s) \in m + 1 .. Len(s)
    BY <1>1, <2>2
  <2>4. CASE state = "AFTER_ATTR_NAME"
    <3>1. u \notin {Blank, "="}
      BY <2>4, EndsApart
    <3> QED BY Zenon, <2>2, <2>3, <2>4, <3>1, NoValue
  <2>5. CASE state = "BEFORE_ATTR_VALUE"
    <3>1. s[Len(s)] = "="
      BY Zenon, <2>5 DEF TagSaid, ReadLast
    <3>2. s \in Seq(Unit)
      BY DEF Longer
    <3>3. ValueFrom(s, <<>>, Len(s))
      BY <1>1, <3>1, <3>2, ValueBegins
    <3>4. u \in ValueEnds /\ <<>> \in Seq(Unit)
      BY <2>5, EndsApart
    <3> QED BY <2>2, <2>3, <2>5, <3>3, <3>4, ValueIsGiven
  <2> QED BY <2>1, <2>4, <2>5
<1>3. ASSUME NEW a \in 1 .. Len(tag.attributes)
      PROVE  Passes(s, w, next, t, a)
  <2>1. ~Waits(next, t, a)
    BY DEF Waits
  <2>2. ASSUME NEW m \in 1 .. Len(s), Waits(state, tag, a), Awaited(s, state, tag, m)
        PROVE  IF Waits(next, t, a) THEN Awaited(w, next, t, m) ELSE Given(w, m, t.attributes[a].value)
    <3>0. state \in {"AFTER_ATTR_NAME", "BEFORE_ATTR_VALUE"}
      BY <2>2 DEF Waits
    <3>1. t.attributes[a].value = <<>>
      BY <2>2, <3>0, WaitingIsEmpty
    <3>2. Given(w, m, <<>>)
      BY Zenon, <1>2, <2>2
    <3> QED BY Zenon, <2>1, <3>1, <3>2
  <2> QED BY Zenon, <2>1, <2>2 DEF Passes
<1>4. state # "ATTR_NAME" \/ u \notin NameEnds
  OBVIOUS
<1>5. Len(t.attributes) = Len(tag.attributes)
  OBVIOUS
<1> QED BY Zenon, <1>3, <1>4, <1>5, NoNameEnds

LEMMA EndMoves ==
  ASSUME NEW s, NEW w, Longer(s, w, ">"), tag \in TagType, TagSaid(s, state, tag), ">" \in Unit,
         ValuesHaveTheirAttribute, state \in {"BEFORE_ATTR_NAME", "AFTER_ATTR_NAME", "BEFORE_ATTR_VALUE"}
  PROVE  SaidNow(w, "DATA", tag)
BY NoValueMoves DEF SaidNow

\* A name begins or goes on.
LEMMA NameMoves ==
  ASSUME NEW s, NEW w, NEW u \in Unit, Longer(s, w, u), tag \in TagType, TagSaid(s, state, tag),
         ValuesHaveTheirAttribute, state \in {"BEFORE_ATTR_NAME", "ATTR_NAME", "AFTER_ATTR_NAME"},
         u \notin ValueEnds, state # "BEFORE_ATTR_NAME" => u # "="
  PROVE  SaidNow(w, "ATTR_NAME", WithChar(Lower(u)))
PROOF
<1> DEFINE t == WithChar(Lower(u))
<1>1. /\ Len(s) \in Nat /\ Len(s) >= 1 /\ s[1] = "<" /\ Len(w) = Len(s) + 1 /\ Len(w) >= 1 /\ w[1] = "<" /\ w[Len(w)] = u
  BY NextUnit
<1>2. t.attributes = tag.attributes /\ t.buffer = Append(tag.buffer, Lower(u)) /\ tag.buffer \in Seq(Unit)
  BY DEF WithChar, TagType
<1> HIDE DEF t
<1>3. u # Blank /\ u # ">"
  BY EndsApart
<1>a. u # "=" => u \notin NameEnds
  BY Zenon, <1>3 DEF NameEnds
<1>4. AllGiven(w, "ATTR_NAME", t) /\ AllWritten(w, t)
  <2>1. \/ state \in {"BEFORE_ATTR_NAME", "AFTER_ATTR_NAME"} /\ (state = "AFTER_ATTR_NAME" => u # "=")
        \/ state = "ATTR_NAME" /\ u \notin NameEnds
    BY <1>a
  <2> QED BY <1>2, <1>3, <2>1, NoValueMoves
<1>5. \E k \in 1 .. Len(w) : NameFrom(w, t.buffer, k)
  <2>1. CASE state = "ATTR_NAME"
    <3>1. PICK k \in 1 .. Len(s) : NameFrom(s, tag.buffer, k)
      BY Zenon, <2>1 DEF TagSaid, ReadLast
    <3>2. NameFrom(w, t.buffer, k)
      BY <1>2, <1>a, <2>1, <3>1, NameGrows
    <3>3. k \in 1 .. Len(w)
      BY <1>1
    <3> QED BY <3>2, <3>3
  <2>2. CASE state # "ATTR_NAME"
    <3>1. s[Len(s)] = Blank
      BY <2>2 DEF TagSaid, ReadLast
    <3>2. tag.buffer = <<>>
      BY <2>2 DEF ValuesHaveTheirAttribute
    <3>3. t.buffer = <<Lower(u)>>
      BY <1>2, <3>2
    <3>4. Len(s) >= 2
      <4>1. Len(s) # 1
        BY <1>1, <3>1, EndsApart
      <4> QED BY <1>1, <4>1
    <3>5. NameFrom(w, <<Lower(u)>>, Len(w))
      BY <3>1, <3>4, NameBegins
    <3>6. Len(w) \in 1 .. Len(w)
      BY <1>1
    <3> QED BY <3>3, <3>5, <3>6
  <2> QED BY <2>1, <2>2
<1>6. ReadLast(w, "ATTR_NAME", t)
  BY <1>1, <1>5 DEF ReadLast, UnquotedStates
<1> QED BY Zenon, <1>4, <1>6 DEF SaidNow, t

\* "=" behind a name and white space.
LEMMA EqualsMoves ==
  ASSUME NEW s, NEW w, Longer(s, w, "="), tag \in TagType, TagSaid(s, state, tag), state = "AFTER_ATTR_NAME"
  PROVE  SaidNow(w, "BEFORE_ATTR_VALUE", tag)
PROOF
<1>1. /\ Len(s) \in Nat /\ Len(w) = Len(s) + 1 /\ Len(w) - 1 = Len(s) /\ Len(w) >= 1 /\ w[1] = "<" /\ w[Len(w)] = "="
  BY NextUnit
<1>2. ReadLast(w, "BEFORE_ATTR_VALUE", tag)
  BY <1>1 DEF ReadLast, UnquotedStates
<1>3. ASSUME NEW m \in 1 .. Len(s), Awaited(s, state, tag, m)
      PROVE  Awaited(w, "BEFORE_ATTR_VALUE", tag, m)
  <2>1. m < Len(s) /\ Blanks(s, m + 1, Len(s))
    BY Zenon, <1>3 DEF Awaited
  <2>2. m < Len(w) /\ m + 1 \in Nat /\ 1 <= m + 1 /\ Len(s) \in Int /\ Len(s) <= Len(s)
    BY <1>1, <2>1
  <2>3. Blanks(w, m + 1, Len(w) - 1)
    BY <1>1, <2>1, <2>2, BlanksStay
  <2> QED BY <2>2, <2>3 DEF Awaited
<1>4. ASSUME NEW a \in 1 .. Len(tag.attributes)
      PROVE  Passes(s, w, "BEFORE_ATTR_VALUE", tag, a)
  <2>1. Waits(state, tag, a) <=> Waits("BEFORE_ATTR_VALUE", tag, a)
    BY DEF Waits
  <2>2. ASSUME NEW m \in 1 .. Len(s), Waits(state, tag, a), Awaited(s, state, tag, m)
        PROVE  Waits("BEFORE_ATTR_VALUE", tag, a) /\ Awaited(w, "BEFORE_ATTR_VALUE", tag, m)
    BY Zenon, <1>3, <2>1, <2>2
  <2> QED BY Zenon, <2>1, <2>2 DEF Passes
<1>5. AllGiven(w, "BEFORE_ATTR_VALUE", tag) /\ AllWritten(w, tag)
  <2>1. state # "ATTR_NAME" \/ "=" \notin NameEnds
    OBVIOUS
  <2> QED BY Zenon, <1>4, <2>1, NoNameEnds
<1> QED BY Zenon, <1>2, <1>5 DEF SaidNow

\* A value begins or goes on.
LEMMA ValueMoves ==
  ASSUME NEW s, NEW w, NEW u \in Unit, Longer(s, w, u), tag \in TagType, TagSaid(s, state, tag),
         ValuesHaveTheirAttribute, state \in {"BEFORE_ATTR_VALUE", "ATTR_VALUE_UNQUOTED"}, u \notin ValueEnds
  PROVE  SaidNow(w, "ATTR_VALUE_UNQUOTED", WithChar(u))
PROOF
<1> DEFINE t == WithChar(u)
           next == "ATTR_VALUE_UNQUOTED"
<1>1. /\ Len(s) \in Nat /\ Len(s) >= 1 /\ s[1] = "<" /\ Len(w) = Len(s) + 1 /\ Len(w) >= 1 /\ w[1] = "<" /\ w[Len(w)] = u
  BY NextUnit
<1>2. /\ t.attributes = tag.attributes /\ t.dropNext = tag.dropNext
      /\ t.buffer = Append(tag.buffer, u) /\ tag.buffer \in Seq(Unit)
  BY DEF WithChar, TagType
<1> HIDE DEF t
<1>3. ASSUME NEW e \in 1 .. Len(s), ValueFrom(s, tag.buffer, e)
      PROVE  ValueFrom(w, t.buffer, e)
  BY <1>2, <1>3, ValueGrows
<1>4. ASSUME state = "BEFORE_ATTR_VALUE"
      PROVE  ValueFrom(s, tag.buffer, Len(s)) /\ s[Len(s)] = "=" /\ Len(s) \in 1 .. Len(s)
  <2>1. s[Len(s)] = "="
    BY Zenon, <1>4 DEF TagSaid, ReadLast
  <2>2. tag.buffer = <<>>
    BY <1>4 DEF ValuesHaveTheirAttribute
  <2>3. s \in Seq(Unit)
    BY DEF Longer
  <2>4. ValueFrom(s, <<>>, Len(s))
    BY <1>1, <2>1, <2>3, ValueBegins
  <2> QED BY <1>1, <2>1, <2>2, <2>4
<1>5. ReadLast(w, next, t)
  <2>1. PICK e \in 1 .. Len(s) : ValueFrom(s, tag.buffer, e)
    <3>1. CASE state = "BEFORE_ATTR_VALUE"
      BY <1>4, <3>1
    <3>2. CASE state = "ATTR_VALUE_UNQUOTED"
      BY Zenon, <3>2 DEF TagSaid, ReadLast
    <3> QED BY <3>1, <3>2
  <2>2. ValueFrom(w, t.buffer, e) /\ e \in 1 .. Len(w)
    BY <1>1, <1>3, <2>1
  <2> QED BY <1>1, <2>2 DEF ReadLast, UnquotedStates
<1>6. ASSUME NEW m \in 1 .. Len(s), Awaited(s, state, tag, m)
      PROVE  Awaited(w, next, t, m)
  <2>1. /\ m < Len(s)
        /\ state = "BEFORE_ATTR_VALUE" => Blanks(s, m + 1, Len(s) - 1)
        /\ state = "ATTR_VALUE_UNQUOTED" => \E e \in m + 1 .. Len(s) : Blanks(s, m + 1, e - 1) /\ ValueFrom(s, tag.buffer, e)
    BY Zenon, <1>6 DEF Awaited
  <2>2. PICK e \in m + 1 .. Len(s) : Blanks(s, m + 1, e - 1) /\ ValueFrom(s, tag.buffer, e)
    <3>1. CASE state = "BEFORE_ATTR_VALUE"
      <4>1. Len(s) \in m + 1 .. Len(s)
        BY <1>1, <2>1
      <4> QED BY <1>4, <2>1, <3>1, <4>1
    <3>2. CASE state = "ATTR_VALUE_UNQUOTED"
      BY <2>1, <3>2
    <3> QED BY <3>1, <3>2
  <2>3. /\ e \in 1 .. Len(s) /\ e \in m + 1 .. Len(w) /\ m + 1 \in Nat /\ 1 <= m + 1
        /\ e - 1 \in Int /\ e - 1 <= Len(s) /\ m < Len(w)
    BY <1>1, <2>1
  <2>4. Blanks(w, m + 1, e - 1) /\ ValueFrom(w, t.buffer, e)
    BY <1>3, <2>2, <2>3, BlanksStay
  <2> QED BY <2>3, <2>4 DEF Awaited
<1>7. ASSUME NEW a \in 1 .. Len(tag.attributes)
      PROVE  Passes(s, w, next, t, a)
  <2>1. Waits(state, tag, a) <=> Waits(next, t, a)
    BY <1>2 DEF Waits
  <2>2. ASSUME NEW m \in 1 .. Len(s), Waits(state, tag, a), Awaited(s, state, tag, m)
        PROVE  Waits(next, t, a) /\ Awaited(w, next, t, m)
    BY Zenon, <1>6, <2>1, <2>2
  <2>3. t.attributes[a].name = tag.attributes[a].name /\ t.attributes[a].value = tag.attributes[a].value
    BY <1>2
  <2> HIDE DEF next
  <2> QED BY Zenon, <2>1, <2>2, <2>3 DEF Passes
<1>8. AllGiven(w, next, t) /\ AllWritten(w, t)
  <2>1. state # "ATTR_NAME" \/ u \notin NameEnds
    OBVIOUS
  <2>2. Len(t.attributes) = Len(tag.attributes)
    BY <1>2
  <2> QED BY Zenon, <1>7, <2>1, <2>2, NoNameEnds
<1> QED BY Zenon, <1>5, <1>8 DEF SaidNow, t

\* A value ends: it is given, or dropped with the name it was for.
LEMMA ValueEndMoves ==
  ASSUME NEW s, NEW w, NEW u \in Unit, Longer(s, w, u), tag \in TagType, TagSaid(s, state, tag),
         ValuesHaveTheirAttribute, state = "ATTR_VALUE_UNQUOTED", NEW next,
         \/ next = "BEFORE_ATTR_NAME" /\ u = Blank
         \/ next = "DATA" /\ u = ">"
  PROVE  SaidNow(w, next, WithAttributeValue)
PROOF
<1> DEFINE t == WithAttributeValue
           n == Len(tag.attributes)
<1>1. /\ Len(s) \in Nat /\ Len(w) = Len(s) + 1 /\ Len(w) >= 1 /\ w[1] = "<" /\ w[Len(w)] = u
  BY NextUnit
<1>2. tag.attributes \in Seq(Attribute) /\ tag.buffer \in Seq(Unit) /\ n \in Nat
  BY DEF TagType
<1>3. n >= 1
  <2>1. tag.attributes # <<>>
    BY DEF ValuesHaveTheirAttribute, ValueStates
  <2> QED BY <1>2, <2>1
<1>4. /\ Len(t.attributes) = n
      /\ \A a \in 1 .. n : t.attributes[a].name = tag.attributes[a].name
      /\ \A a \in 1 .. n : a # n \/ tag.dropNext => t.attributes[a].value = tag.attributes[a].value
      /\ ~tag.dropNext => t.attributes[n].value = tag.buffer
  <2>1. CASE tag.dropNext
    <3>1. t.attributes = tag.attributes
      BY <2>1 DEF WithAttributeValue, TagType
    <3> QED BY <2>1, <3>1
  <2>2. CASE ~tag.dropNext
    <3>1. t.attributes = [tag.attributes EXCEPT ![n].value = tag.buffer]
      BY <2>2 DEF WithAttributeValue, TagType
    <3> HIDE DEF t
    <3>2. n \in 1 .. n
      BY <1>2, <1>3
    <3>3. tag.attributes[n] \in Attribute
      BY <1>2, <3>2
    <3>4. Len(t.attributes) = n /\ \A a \in 1 .. n : a # n => t.attributes[a] = tag.attributes[a]
      BY <1>2, <3>1
    <3>5. t.attributes[n] = [tag.attributes[n] EXCEPT !.value = tag.buffer]
      BY <1>2, <3>1, <3>2
    <3>6. t.attributes[n].name = tag.attributes[n].name /\ t.attributes[n].value = tag.buffer
      BY <3>3, <3>5 DEF Attribute
    <3> HIDE DEF n
    <3> QED BY Zenon, <2>2, <3>4, <3>6
  <2> QED BY <2>1, <2>2
<1> HIDE DEF t
<1>5. ASSUME NEW m \in 1 .. Len(s), Awaited(s, state, tag, m)
      PROVE  Given(w, m, tag.buffer)
  <2>1. PICK e \in m + 1 .. Len(s) : Blanks(s, m + 1, e - 1) /\ ValueFrom(s, tag.buffer, e)
    BY Zenon, <1>5 DEF Awaited
  <2>2. u \in ValueEnds
    BY EndsApart
  <2>3. m \in Nat
    OBVIOUS
  <2> QED BY <1>2, <2>1, <2>2, <2>3, ValueIsGiven
<1>6. ASSUME NEW a \in 1 .. n
      PROVE  Passes(s, w, next, t, a)
  <2>1. ~Waits(next, t, a)
    BY DEF Waits
  <2>2. Waits(state, tag, a) <=> ~tag.dropNext /\ a = n
    BY DEF Waits
  <2>3. ASSUME NEW m \in 1 .. Len(s), Waits(state, tag, a), Awaited(s, state, tag, m)
        PROVE  Given(w, m, t.attributes[a].value)
    <3>1. t.attributes[a].value = tag.buffer
      BY <1>4, <2>2, <2>3
    <3> QED BY <1>5, <2>3, <3>1
  <2>4. ~Waits(state, tag, a) => t.attributes[a].value = tag.attributes[a].value
    BY <1>4, <2>2
  <2>5. t.attributes[a].name = tag.attributes[a].name
    BY Zenon, <1>4
  <2> QED BY Zenon, <2>1, <2>3, <2>4, <2>5 DEF Passes
<1>7. AllGiven(w, next, t) /\ AllWritten(w, t)
  <2>1. state # "ATTR_NAME" \/ u \notin NameEnds
    OBVIOUS
  <2> QED BY Zenon, <1>4, <1>6, <2>1, NoNameEnds
<1>8. next # "DATA" => ReadLast(w, next, t)
  BY <1>1 DEF ReadLast, UnquotedStates
<1> QED BY Zenon, <1>7, <1>8 DEF SaidNow, t

\* A name has ended: it is the one the buffer holds, or begins with "=".
LEMMA EndedName ==
  ASSUME NEW s, NEW w, NEW u, Longer(s, w, u), tag \in TagType, u \in NameEnds,
         NEW k \in 1 .. Len(s), NameFrom(s, tag.buffer, k)
  PROVE  IsWritten(w, tag.buffer)
PROOF
<1>1. /\ s \in Seq(Unit) /\ w \in Seq(Unit) /\ Len(s) \in Nat /\ Len(w) = Len(s) + 1 /\ w[Len(s) + 1] = u
      /\ \A i \in 1 .. Len(s) : w[i] = s[i]
  BY DEF Longer
<1>2. /\ k \in 3 .. Len(s) /\ s[k - 1] = Blank /\ s[k] \notin ValueEnds
      /\ \A j \in k + 1 .. Len(s) : s[j] \notin NameEnds
      /\ Len(tag.buffer) = Len(s) - k + 1 /\ \A j \in 1 .. Len(tag.buffer) : tag.buffer[j] = Lower(s[k + j - 1])
  BY Zenon DEF NameFrom
<1>3. CASE s[k] = "="
  <2>1. 1 \in 1 .. Len(tag.buffer) /\ k + 1 - 1 = k
    BY <1>1, <1>2
  <2>2. tag.buffer[1] = Lower("=")
    BY <1>2, <1>3, <2>1
  <2>3. tag.buffer[1] = "="
    BY <2>2 DEF Lower
  <2> QED BY <2>3 DEF IsWritten
<1>4. CASE s[k] # "="
  <2>1. s[k] \notin NameEnds
    BY Zenon, <1>2, <1>4 DEF NameEnds, ValueEnds
  <2>2. /\ k \in 1 .. Len(w) /\ Len(s) \in 1 .. Len(w) /\ k \in Nat /\ Len(s) \in Nat /\ 3 <= k /\ k <= Len(s)
        /\ Len(s) < Len(w) /\ k - 1 \in 1 .. Len(s) /\ Len(s) \in k .. Len(w)
    BY <1>1, <1>2
  <2>3. \A j \in k .. Len(s) : w[j] \notin NameEnds
    <3>1. \A j \in k .. Len(s) : j \in 1 .. Len(s) /\ (j = k \/ j \in k + 1 .. Len(s))
      BY <2>2
    <3> QED BY <1>1, <1>2, <2>1, <3>1
  <2>4. Named(w, k, Len(s))
    BY <1>1, <1>2, <2>2, <2>3 DEF Named
  <2>5. tag.buffer = NameIn(w, k, Len(s))
    <3>1. /\ NameIn(w, k, Len(s)) \in Seq(Unit) /\ Len(NameIn(w, k, Len(s))) = Len(s) - k + 1
          /\ \A j \in 1 .. Len(s) - k + 1 : NameIn(w, k, Len(s))[j] = Lower(w[k + j - 1])
      BY <1>1, <2>2, NamesAreUnits
    <3>2. \A j \in 1 .. Len(s) - k + 1 : w[k + j - 1] = s[k + j - 1]
      <4>1. \A j \in 1 .. Len(s) - k + 1 : k + j - 1 \in 1 .. Len(s)
        BY <2>2
      <4> QED BY <1>1, <4>1, Zenon
    <3>3. tag.buffer \in Seq(Unit)
      BY DEF TagType
    <3>4. \A j \in 1 .. Len(tag.buffer) : tag.buffer[j] = NameIn(w, k, Len(s))[j]
      BY <1>2, <3>1, <3>2
    <3>5. Len(tag.buffer) = Len(NameIn(w, k, Len(s)))
      BY <1>2, <3>1
    <3> QED BY <3>1, <3>3, <3>4, <3>5, SameUnits
  <2> QED BY Zenon, <2>2, <2>4, <2>5 DEF IsWritten
<1> QED BY <1>3, <1>4

\* A name that is given already is not the first of its kind.
LEMMA GivenIsNotFirst ==
  ASSUME NEW s, NEW w, NEW u, Longer(s, w, u), tag \in TagType, TagSaid(s, state, tag),
         NEW a \in 1 .. Len(tag.attributes), tag.attributes[a].name = tag.buffer,
         NEW k \in Nat, NEW m \in Nat, ~(m < Len(s))
  PROVE  ~FirstNamed(w, k, m)
PROOF
<1> SUFFICES ASSUME FirstNamed(w, k, m)
             PROVE  FALSE
  OBVIOUS
<1>1. Named(w, k, m) /\ ~\E j, n \in 1 .. k - 1 : Named(w, j, n) /\ NameIn(w, j, n) = NameIn(w, k, m)
  BY Zenon DEF FirstNamed
<1>2. /\ m = Len(s) /\ k \in 1 .. Len(s) /\ NameFrom(s, tag.buffer, k) /\ NameIn(w, k, m) = tag.buffer
  <2>1. ReadLast(s, state, tag)
    BY Zenon DEF TagSaid
  <2> QED BY <1>1, <2>1, NewName
<1>3. Len(s) \in Nat /\ Len(w) = Len(s) + 1 /\ \A i \in 1 .. Len(s) : w[i] = s[i]
  BY DEF Longer
<1>4. 3 <= k /\ k <= m /\ \A j \in k .. m : w[j] \notin NameEnds
  BY Zenon, <1>1 DEF Named
<1>5. IsWritten(s, tag.buffer)
  BY Zenon DEF TagSaid, AllWritten
<1>6. tag.buffer[1] # "="
  <2>1. tag.buffer[1] = Lower(s[k])
    <3>1. 1 \in 1 .. Len(tag.buffer) /\ k + 1 - 1 = k
      BY <1>2, <1>3 DEF NameFrom
    <3> QED BY <1>2, <3>1 DEF NameFrom
  <2>2. w[k] = s[k] /\ w[k] \notin NameEnds
    <3>1. k \in k .. m /\ k \in 1 .. Len(s)
      BY <1>2, <1>4
    <3> QED BY <1>3, <1>4, <3>1
  <2>3. s[k] # "="
    BY <2>2, EndsApart
  <2> QED BY <2>1, <2>3 DEF Lower
<1>7. PICK j \in 1 .. Len(s), n \in 1 .. Len(s) : Named(s, j, n) /\ tag.buffer = NameIn(s, j, n)
  BY Zenon, <1>5, <1>6 DEF IsWritten
<1>8. 3 <= j /\ j <= n /\ n < Len(s) /\ s[n + 1] \in NameEnds
  BY Zenon, <1>7 DEF Named
<1>9. Named(w, j, n) /\ NameIn(w, j, n) = NameIn(w, k, m)
  <2>1. j \in Nat /\ n \in Nat /\ n < Len(s) /\ 1 <= j
    BY <1>8
  <2> QED BY <1>2, <1>7, <2>1, NamesStay
<1>10. n \in 1 .. k - 1 /\ j \in 1 .. k - 1
  <2>1. n + 1 \in 1 .. Len(s)
    BY <1>3, <1>8
  <2>2. w[n + 1] \in NameEnds
    BY <1>3, <1>8, <2>1
  <2>3. ~(n + 1 \in k .. m)
    BY <1>4, <2>2
  <2>4. n + 1 <= m /\ k \in Nat /\ m \in Nat
    BY <1>2, <1>8
  <2> QED BY <1>8, <2>3, <2>4
<1> QED BY Zenon, <1>1, <1>9, <1>10

\* A name ends: it is given, or was given before and its value will be dropped.
LEMMA NameEndMoves ==
  ASSUME NEW s, NEW w, NEW u \in Unit, Longer(s, w, u), tag \in TagType, TagSaid(s, state, tag),
         state = "ATTR_NAME", NEW next,
         \/ next = "AFTER_ATTR_NAME" /\ u = Blank
         \/ next = "BEFORE_ATTR_VALUE" /\ u = "="
         \/ next = "DATA" /\ u = ">"
  PROVE  SaidNow(w, next, WithAttributeName)
PROOF
<1> DEFINE t == WithAttributeName
           n == Len(tag.attributes)
           new == [name |-> tag.buffer, value |-> <<>>]
<1>1. /\ Len(s) \in Nat /\ Len(w) = Len(s) + 1 /\ Len(w) - 1 = Len(s) /\ Len(w) >= 1 /\ w[1] = "<" /\ w[Len(w)] = u
      /\ \A i \in 1 .. Len(s) : w[i] = s[i]
  BY NextUnit
<1>2. tag.attributes \in Seq(Attribute) /\ tag.buffer \in Seq(Unit) /\ n \in Nat /\ new \in Attribute
  BY DEF TagType, Attribute
<1>3. u \in NameEnds
  BY EndsApart
<1>4. ReadLast(s, state, tag) /\ AllGiven(s, state, tag) /\ AllWritten(s, tag)
  BY DEF TagSaid
<1>5. next # "DATA" => ReadLast(w, next, t)
  BY <1>1 DEF ReadLast, UnquotedStates
<1>6. \A a \in 1 .. n : ~Waits(state, tag, a)
  BY DEF Waits
<1>7. CASE \E a \in 1 .. n : tag.attributes[a].name = tag.buffer
  <2>1. t.attributes = tag.attributes /\ t.dropNext = TRUE
    BY <1>7 DEF WithAttributeName, TagType
  <2> HIDE DEF t
  <2>2. \A a : ~Waits(next, t, a)
    BY <2>1 DEF Waits
  <2>3. \A a \in 1 .. n : Passes(s, w, next, t, a)
    BY Zenon, <1>6, <2>1, <2>2 DEF Passes
  <2>4. ASSUME NEW k \in 1 .. Len(w), NEW m \in 1 .. Len(w), FirstNamed(w, k, m)
        PROVE  \E a \in 1 .. Len(t.attributes) : Gives(w, next, t, k, m, a)
    <3>1. PICK a \in 1 .. n : tag.attributes[a].name = tag.buffer
      BY <1>7
    <3>2. k \in Nat /\ m \in Nat
      OBVIOUS
    <3>3. m < Len(s)
      BY <2>4, <3>1, <3>2, GivenIsNotFirst
    <3>4. \E b \in 1 .. n : Gives(w, next, t, k, m, b)
      BY Zenon, <1>4, <2>3, <2>4, <3>2, <3>3, GivenOn
    <3> QED BY Zenon, <2>1, <3>4
  <2>5. ASSUME NEW a \in 1 .. Len(t.attributes)
        PROVE  IsWritten(w, t.attributes[a].name)
    <3>1. t.attributes[a].name = tag.attributes[a].name /\ IsWritten(s, tag.attributes[a].name)
      BY Zenon, <1>4, <2>1, <2>5 DEF AllWritten
    <3> QED BY <3>1, WrittenStays
  <2> QED BY Zenon, <1>5, <2>4, <2>5 DEF SaidNow, AllGiven, AllWritten, t
<1>8. CASE ~\E a \in 1 .. n : tag.attributes[a].name = tag.buffer
  <2>1. t.attributes = Append(tag.attributes, new) /\ t.dropNext = FALSE
    BY <1>8 DEF WithAttributeName, TagType
  <2> HIDE DEF t
  <2>2. /\ Len(t.attributes) = n + 1 /\ t.attributes[n + 1] = new
        /\ \A a \in 1 .. n : t.attributes[a] = tag.attributes[a]
    BY <1>2, <2>1
  <2>3. n + 1 \in 1 .. n + 1 /\ \A a \in 1 .. n : a \in 1 .. n + 1 /\ a # n + 1
    BY <1>2
  <2>4. \A a \in 1 .. n : ~Waits(next, t, a)
    BY <2>2, <2>3 DEF Waits
  <2>a. t.attributes[n + 1].name = tag.buffer /\ t.attributes[n + 1].value = <<>>
    BY <2>2
  <2> HIDE DEF new
  <2>5. ASSUME NEW a \in 1 .. n
        PROVE  Passes(s, w, next, t, a)
    BY Zenon, <1>6, <2>2, <2>4 DEF Passes
  <2>6. ASSUME NEW k \in 1 .. Len(w), NEW m \in 1 .. Len(w), FirstNamed(w, k, m)
        PROVE  \E a \in 1 .. Len(t.attributes) : Gives(w, next, t, k, m, a)
    <3>2. k \in Nat /\ m \in Nat
      OBVIOUS
    <3>3. CASE m < Len(s)
      <4>1. \E b \in 1 .. n : Gives(w, next, t, k, m, b)
        BY Zenon, <1>4, <2>5, <2>6, <3>2, <3>3, GivenOn
      <4> QED BY Zenon, <2>2, <2>3, <4>1
    <3>4. CASE ~(m < Len(s))
      <4>1. Named(w, k, m)
        BY Zenon, <2>6 DEF FirstNamed
      <4>2. m = Len(s) /\ NameIn(w, k, m) = tag.buffer
        BY <1>4, <3>2, <3>4, <4>1, NewName
      <4>3. m < Len(w) /\ m + 1 = Len(w) /\ Len(w) \in m + 1 .. Len(w)
        BY <1>1, <4>2
      <4>4. Blanks(w, m + 1, Len(w) - 1)
        BY <1>1, <4>3 DEF Blanks
      <4>5. CASE next = "DATA"
        <5>1. ~Waits(next, t, n + 1)
          BY <4>5 DEF Waits
        <5>2. w[Len(w)] \notin {Blank, "="}
          BY Zenon, <1>1, <4>5 DEF Blank
        <5>3. Given(w, m, <<>>)
          BY Zenon, <4>3, <4>4, <5>2 DEF Given
        <5> QED BY Zenon, <2>2, <2>3, <2>a, <4>2, <5>1, <5>3 DEF Gives
      <4>6. CASE next # "DATA"
        <5>1. Waits(next, t, n + 1)
          BY <2>1, <2>2, <4>6 DEF Waits
        <5>2. next = "AFTER_ATTR_NAME" => Blanks(w, m + 1, Len(w))
          <6>1. \A b \in m + 1 .. Len(w) : b = Len(w)
            BY <1>1, <4>3
          <6>2. next = "AFTER_ATTR_NAME" => u = Blank
            BY Zenon
          <6> QED BY Zenon, <1>1, <6>1, <6>2 DEF Blanks
        <5>3. next # "ATTR_VALUE_UNQUOTED"
          BY Zenon
        <5>4. Awaited(w, next, t, m)
          BY Zenon, <4>3, <4>4, <5>2, <5>3 DEF Awaited
        <5> QED BY Zenon, <2>2, <2>3, <2>a, <4>2, <5>1, <5>4 DEF Gives
      <4> QED BY <4>5, <4>6
    <3> QED BY <3>3, <3>4
  <2>7. ASSUME NEW a \in 1 .. Len(t.attributes)
        PROVE  IsWritten(w, t.attributes[a].name)
    <3>1. CASE a \in 1 .. n
      <4>1. t.attributes[a].name = tag.attributes[a].name /\ IsWritten(s, tag.attributes[a].name)
        BY Zenon, <1>4, <2>2, <3>1 DEF AllWritten
      <4> QED BY <4>1, WrittenStays
    <3>2. CASE a \notin 1 .. n
      <4>1. a = n + 1
        BY <1>2, <2>2, <3>2
      <4>2. PICK k \in 1 .. Len(s) : NameFrom(s, tag.buffer, k)
        BY Zenon, <1>4 DEF ReadLast
      <4>3. IsWritten(w, tag.buffer)
        BY <1>3, <4>2, EndedName
      <4> QED BY <2>a, <4>1, <4>3
    <3> QED BY <3>1, <3>2
  <2> QED BY Zenon, <1>5, <2>6, <2>7 DEF SaidNow, AllGiven, AllWritten, t
<1> QED BY <1>7, <1>8

-----------------------------------------------------------------------------
(***************************************************************************)
(* All moves of a tag without quotes, and that its handlers make no other. *)
(***************************************************************************)
LEMMA PlainApart ==
  /\ "/" \notin PlainUnits /\ EOF \notin PlainUnits /\ "dq" \notin PlainUnits /\ "sq" \notin PlainUnits
  /\ \A u \in References : u \notin PlainUnits
  /\ EOF \notin References
  /\ \A u \in Letters : u # Blank
PROOF
<1>1. Letters \subseteq STRING \ {EOF, " ", "<", "/", ">", "=", "dq", "sq", "&", "&1;", "&2;", "second"}
  BY Zenon, LettersAssumption
<1>2. \A u \in Letters : u # " " /\ u # "/" /\ u # "dq" /\ u # "sq" /\ u # EOF /\ u # "&" /\ u # "&1;" /\ u # "&2;"
  BY <1>1, Zenon
<1>3. EOF \notin References
  BY Zenon DEF EOF, References
<1>4. \A u \in {"/", EOF, "dq", "sq", "&", "&1;", "&2;"} : u # "<" /\ u # " " /\ u # "=" /\ u # ">"
  BY Zenon DEF EOF
<1> QED BY <1>2, <1>3, <1>4, Zenon DEF PlainUnits, Blank, References

LEMMA MoveKept ==
  ASSUME NEW s, NEW w, Longer(s, w, Current), Current \in Unit, tag \in TagType, TagSaid(s, state, tag),
         ValuesHaveTheirAttribute, NEW next, NEW t, UnquotedMove(next, t)
  PROVE  SaidNow(w, next, t)
PROOF
<1>1. CASE state = "TAG_NAME" /\ next = "TAG_NAME" /\ Current \notin ValueEnds /\ t = WithChar(Lower(Current))
  <2>1. t.attributes = tag.attributes
    BY <1>1 DEF WithChar, TagType
  <2> QED BY Zenon, <1>1, <2>1, NameOfTagMoves
<1>2. CASE /\ state = "TAG_NAME" /\ <<Current, next>> \in {<<Blank, "BEFORE_ATTR_NAME">>, <<">", "DATA">>}
           /\ t = WithTagName
  <2>1. t.attributes = tag.attributes
    BY <1>2 DEF WithTagName, TagType
  <2>2. (next = "BEFORE_ATTR_NAME" /\ Current = Blank) \/ next = "DATA"
    BY <1>2
  <2> QED BY Zenon, <1>2, <2>1, <2>2, NameOfTagMoves
<1>3. CASE state \in {"BEFORE_ATTR_NAME", "AFTER_ATTR_NAME"} /\ next = state /\ Current = Blank /\ t = tag
  BY <1>3, BlankMoves
<1>4. CASE /\ state \in {"BEFORE_ATTR_NAME", "AFTER_ATTR_NAME", "BEFORE_ATTR_VALUE"}
           /\ next = "DATA" /\ Current = ">" /\ t = tag
  BY <1>4, EndMoves
<1>5. CASE /\ state \in {"BEFORE_ATTR_NAME", "ATTR_NAME", "AFTER_ATTR_NAME"} /\ next = "ATTR_NAME"
           /\ Current \notin ValueEnds /\ (state # "BEFORE_ATTR_NAME" => Current # "=")
           /\ t = WithChar(Lower(Current))
  BY Zenon, <1>5, NameMoves
<1>6. CASE /\ state = "ATTR_NAME"
           /\ <<Current, next>> \in {<<Blank, "AFTER_ATTR_NAME">>, <<"=", "BEFORE_ATTR_VALUE">>, <<">", "DATA">>}
           /\ t = WithAttributeName
  <2>1. \/ next = "AFTER_ATTR_NAME" /\ Current = Blank
        \/ next = "BEFORE_ATTR_VALUE" /\ Current = "="
        \/ next = "DATA" /\ Current = ">"
    BY <1>6
  <2> QED BY Zenon, <1>6, <2>1, NameEndMoves
<1>7. CASE state = "AFTER_ATTR_NAME" /\ next = "BEFORE_ATTR_VALUE" /\ Current = "=" /\ t = tag
  BY <1>7, EqualsMoves
<1>8. CASE /\ state \in {"BEFORE_ATTR_VALUE", "ATTR_VALUE_UNQUOTED"} /\ next = "ATTR_VALUE_UNQUOTED"
           /\ Current \notin ValueEnds /\ t = WithChar(Current)
  BY Zenon, <1>8, ValueMoves
<1>9. CASE /\ state = "ATTR_VALUE_UNQUOTED"
           /\ <<Current, next>> \in {<<Blank, "BEFORE_ATTR_NAME">>, <<">", "DATA">>}
           /\ t = WithAttributeValue
  <2>1. (next = "BEFORE_ATTR_NAME" /\ Current = Blank) \/ (next = "DATA" /\ Current = ">")
    BY <1>9
  <2> QED BY Zenon, <1>9, <2>1, ValueEndMoves
<1> QED BY <1>1, <1>2, <1>3, <1>4, <1>5, <1>6, <1>7, <1>8, <1>9, Zenon DEF UnquotedMove

\* What a handler does with a unit of a tag without quotes.
PlainStep ==
  \/ state' = "DATA" /\ Current = EOF /\ (NextChar("DATA") \/ Reconsume("DATA"))
  \/ Current \in References /\ state' \in {"ATTR_VALUE_UNQUOTED", "CHAR_REF_IN_ATTR_VALUE"} /\ Reconsume(state')
  \/ Current \notin PlainUnits \union {EOF} /\ NextChar(state')
  \/ state = "BEFORE_ATTR_VALUE" /\ Current = Blank /\ NextChar(state')
  \/ Current # EOF /\ NextChar(state') /\ UnquotedMove(state', tag')
  \/ \E t : EmitTag("DATA", t) /\ UnquotedMove("DATA", t)

LEMMA OperatorsGo ==
  /\ \A next : NextChar(next) => state' = next
  /\ \A next : Reconsume(next) => state' = next
  /\ \A t : ChangeTag(t) => tag' = t
  /\ KeepTag => tag' = tag
PROOF
<1>1. /\ \A next : NextChar(next) => state' = next
      /\ \A next : Reconsume(next) => state' = next
  BY Zenon DEF NextChar, Reconsume
<1>2. \A t : ChangeTag(t) => tag' = t
  BY Zenon DEF ChangeTag
<1>3. KeepTag => tag' = tag
  BY DEF KeepTag, tagVars
<1> QED BY <1>1, <1>2, <1>3

\* The ends of a handler: with the end of the page, with a unit that is not plain, with a move.
LEMMA StepAtEnd ==
  ASSUME Current = EOF, NextChar("DATA") \/ Reconsume("DATA")
  PROVE  PlainStep
PROOF BY OperatorsGo, Zenon DEF PlainStep

LEMMA StepAtSlash ==
  ASSUME Current = "/", NEW next, NextChar(next)
  PROVE  PlainStep
PROOF
<1>1. Current \notin PlainUnits \union {EOF}
  BY PlainApart DEF EOF
<1>2. NextChar(state')
  BY OperatorsGo
<1> QED BY <1>1, <1>2, Zenon DEF PlainStep

LEMMA StepMoves ==
  ASSUME Current # EOF, NEW next, NextChar(next), UnquotedMove(next, tag')
  PROVE  PlainStep
PROOF
<1>1. state' = next
  BY OperatorsGo
<1> QED BY <1>1, Zenon DEF PlainStep

LEMMA StepEmits ==
  ASSUME NEW t, EmitTag("DATA", t), UnquotedMove("DATA", t)
  PROVE  PlainStep
PROOF BY Zenon DEF PlainStep

LEMMA PlainTagName ==
  ASSUME TagNameState
  PROVE  PlainStep
PROOF
<1>1. CASE In("TAG_NAME") /\ Current = " " /\ NextChar("BEFORE_ATTR_NAME") /\ ChangeTag(WithTagName)
  <2>1. state = "TAG_NAME" /\ tag' = WithTagName /\ Current = Blank /\ Current # EOF
    BY Zenon, <1>1, OperatorsGo, InIsTheState DEF Blank, EOF
  <2>2. UnquotedMove("BEFORE_ATTR_NAME", tag')
    BY Zenon, <2>1 DEF UnquotedMove
  <2> QED BY Zenon, <1>1, <2>1, <2>2, StepMoves
<1>2. CASE Current = "/" /\ NextChar("SELF_CLOSING_START_TAG")
  BY <1>2, StepAtSlash
<1>3. CASE In("TAG_NAME") /\ Current = ">" /\ EmitTag("DATA", WithTagName)
  <2>1. UnquotedMove("DATA", WithTagName)
    BY Zenon, <1>3, InIsTheState DEF UnquotedMove
  <2> QED BY <1>3, <2>1, StepEmits
<1>4. CASE /\ In("TAG_NAME") /\ Current \notin {" ", "/", ">", EOF}
           /\ NextChar("TAG_NAME") /\ ChangeTag(WithChar(Lower(Current)))
  <2>1. state = "TAG_NAME" /\ tag' = WithChar(Lower(Current)) /\ Current \notin ValueEnds /\ Current # EOF
    BY Zenon, <1>4, OperatorsGo, InIsTheState DEF Blank, ValueEnds
  <2>2. UnquotedMove("TAG_NAME", tag')
    BY Zenon, <2>1 DEF UnquotedMove
  <2> QED BY Zenon, <1>4, <2>1, <2>2, StepMoves
<1>5. CASE Abandon("TAG_NAME")
  BY <1>5, StepAtEnd DEF Abandon
<1> QED BY <1>1, <1>2, <1>3, <1>4, <1>5, Zenon DEF TagNameState

LEMMA PlainAroundName ==
  ASSUME NEW s \in {"BEFORE_ATTR_NAME", "AFTER_ATTR_NAME"}, AroundName(s) \/ Abandon(s)
  PROVE  PlainStep
PROOF
<1>1. CASE In(s) /\ Current = " " /\ NextChar(s) /\ KeepTag
  <2>1. state = s /\ tag' = tag /\ Current = Blank /\ Current # EOF
    BY Zenon, <1>1, OperatorsGo, InIsTheState DEF Blank, EOF
  <2>2. UnquotedMove(s, tag')
    BY Zenon, <2>1 DEF UnquotedMove
  <2> QED BY Zenon, <1>1, <2>1, <2>2, StepMoves
<1>2. CASE Current = "/" /\ NextChar("SELF_CLOSING_START_TAG")
  BY <1>2, StepAtSlash
<1>3. CASE In(s) /\ Current = ">" /\ EmitTag("DATA", tag)
  <2>1. state = s /\ s \in {"BEFORE_ATTR_NAME", "AFTER_ATTR_NAME", "BEFORE_ATTR_VALUE"}
    BY Zenon, <1>3, InIsTheState
  <2>2. UnquotedMove("DATA", tag)
    BY Zenon, <1>3, <2>1 DEF UnquotedMove
  <2> QED BY <1>3, <2>2, StepEmits
<1>4. CASE Abandon(s)
  BY <1>4, StepAtEnd DEF Abandon
<1> QED BY <1>1, <1>2, <1>3, <1>4, Zenon DEF AroundName

LEMMA PlainBeginName ==
  ASSUME NEW s \in {"BEFORE_ATTR_NAME", "ATTR_NAME", "AFTER_ATTR_NAME"}, NEW special, BeginName(s, special),
         s # "BEFORE_ATTR_NAME" => "=" \in special
  PROVE  PlainStep
PROOF
<1>1. /\ state = s /\ tag' = WithChar(Lower(Current)) /\ Current \notin ValueEnds /\ Current # EOF
      /\ NextChar("ATTR_NAME")
  BY Zenon, OperatorsGo, InIsTheState DEF BeginName, Blank, ValueEnds
<1>2. state # "BEFORE_ATTR_NAME" => Current # "="
  BY Zenon, <1>1 DEF BeginName
<1>3. UnquotedMove("ATTR_NAME", tag')
  BY Zenon, <1>1, <1>2 DEF UnquotedMove
<1> QED BY <1>1, <1>3, StepMoves

LEMMA PlainAttrName ==
  ASSUME AttrNameState
  PROVE  PlainStep
PROOF
<1>1. CASE In("ATTR_NAME") /\ Current = " " /\ NextChar("AFTER_ATTR_NAME") /\ ChangeTag(WithAttributeName)
  <2>1. state = "ATTR_NAME" /\ tag' = WithAttributeName /\ Current = Blank /\ Current # EOF
    BY Zenon, <1>1, OperatorsGo, InIsTheState DEF Blank, EOF
  <2>2. UnquotedMove("AFTER_ATTR_NAME", tag')
    BY Zenon, <2>1 DEF UnquotedMove
  <2> QED BY Zenon, <1>1, <2>1, <2>2, StepMoves
<1>2. CASE Current = "/" /\ NextChar("SELF_CLOSING_START_TAG")
  BY <1>2, StepAtSlash
<1>3. CASE In("ATTR_NAME") /\ Current = "=" /\ NextChar("BEFORE_ATTR_VALUE") /\ ChangeTag(WithAttributeName)
  <2>1. state = "ATTR_NAME" /\ tag' = WithAttributeName /\ Current = "=" /\ Current # EOF
    BY Zenon, <1>3, OperatorsGo, InIsTheState DEF EOF
  <2>2. UnquotedMove("BEFORE_ATTR_VALUE", tag')
    BY Zenon, <2>1 DEF UnquotedMove
  <2> QED BY <1>3, <2>1, <2>2, StepMoves
<1>4. CASE In("ATTR_NAME") /\ Current = ">" /\ EmitTag("DATA", WithAttributeName)
  <2>1. UnquotedMove("DATA", WithAttributeName)
    BY Zenon, <1>4, InIsTheState DEF UnquotedMove
  <2> QED BY <1>4, <2>1, StepEmits
<1>5. CASE BeginName("ATTR_NAME", {"="})
  BY <1>5, PlainBeginName
<1>6. CASE Abandon("ATTR_NAME")
  BY <1>6, StepAtEnd DEF Abandon
<1> QED BY <1>1, <1>2, <1>3, <1>4, <1>5, <1>6, Zenon DEF AttrNameState

LEMMA PlainAfterAttrName ==
  ASSUME AfterAttrNameState
  PROVE  PlainStep
PROOF
<1>1. CASE In("AFTER_ATTR_NAME") /\ Current = "=" /\ NextChar("BEFORE_ATTR_VALUE") /\ KeepTag
  <2>1. state = "AFTER_ATTR_NAME" /\ tag' = tag /\ Current = "=" /\ Current # EOF
    BY Zenon, <1>1, OperatorsGo, InIsTheState DEF EOF
  <2>2. UnquotedMove("BEFORE_ATTR_VALUE", tag')
    BY Zenon, <2>1 DEF UnquotedMove
  <2> QED BY <1>1, <2>1, <2>2, StepMoves
<1>2. CASE AroundName("AFTER_ATTR_NAME") \/ Abandon("AFTER_ATTR_NAME")
  BY <1>2, PlainAroundName
<1>3. CASE BeginName("AFTER_ATTR_NAME", {"="})
  BY <1>3, PlainBeginName
<1> QED BY <1>1, <1>2, <1>3, Zenon DEF AfterAttrNameState

LEMMA PlainBeforeAttrValue ==
  ASSUME BeforeAttrValueState
  PROVE  PlainStep
PROOF
<1>1. CASE In("BEFORE_ATTR_VALUE") /\ Current = " " /\ NextChar("BEFORE_ATTR_VALUE") /\ KeepTag
  <2>1. state = "BEFORE_ATTR_VALUE" /\ Current = Blank /\ NextChar(state')
    BY Zenon, <1>1, OperatorsGo, InIsTheState DEF Blank
  <2> QED BY <2>1, Zenon DEF PlainStep
<1>2. CASE \/ Current = "dq" /\ NextChar("ATTR_VALUE_DOUBLE_QUOTED")
           \/ Current = "sq" /\ NextChar("ATTR_VALUE_SINGLE_QUOTED")
  <2>1. Current \notin PlainUnits \union {EOF} /\ NextChar(state')
    BY Zenon, <1>2, OperatorsGo, PlainApart DEF EOF
  <2> QED BY <2>1, Zenon DEF PlainStep
<1>3. CASE Current \in References /\ Reconsume("ATTR_VALUE_UNQUOTED")
  BY <1>3, OperatorsGo, Zenon DEF PlainStep
<1>4. CASE In("BEFORE_ATTR_VALUE") /\ Current = ">" /\ EmitTag("DATA", tag)
  <2>1. state = "BEFORE_ATTR_VALUE" /\ state \in {"BEFORE_ATTR_NAME", "AFTER_ATTR_NAME", "BEFORE_ATTR_VALUE"}
    BY Zenon, <1>4, InIsTheState
  <2>2. UnquotedMove("DATA", tag)
    BY Zenon, <1>4, <2>1 DEF UnquotedMove
  <2> QED BY <1>4, <2>2, StepEmits
<1>5. CASE /\ In("BEFORE_ATTR_VALUE") /\ Current \notin {" ", "dq", "sq", ">", EOF} \union References
           /\ NextChar("ATTR_VALUE_UNQUOTED") /\ ChangeTag(WithChar(Current))
  <2>1. state = "BEFORE_ATTR_VALUE" /\ tag' = WithChar(Current) /\ Current \notin ValueEnds /\ Current # EOF
    BY Zenon, <1>5, OperatorsGo, InIsTheState DEF Blank, ValueEnds
  <2>2. UnquotedMove("ATTR_VALUE_UNQUOTED", tag')
    BY Zenon, <2>1 DEF UnquotedMove
  <2> QED BY Zenon, <1>5, <2>1, <2>2, StepMoves
<1>6. CASE AbandonHere("BEFORE_ATTR_VALUE")
  BY <1>6, StepAtEnd DEF AbandonHere
<1> QED BY <1>1, <1>2, <1>3, <1>4, <1>5, <1>6, Zenon DEF BeforeAttrValueState

LEMMA PlainAttrValue ==
  ASSUME AttrValueUnquotedState
  PROVE  PlainStep
PROOF
<1>1. CASE In("ATTR_VALUE_UNQUOTED") /\ Current = " " /\ NextChar("BEFORE_ATTR_NAME") /\ ChangeTag(WithAttributeValue)
  <2>1. state = "ATTR_VALUE_UNQUOTED" /\ tag' = WithAttributeValue /\ Current = Blank /\ Current # EOF
    BY Zenon, <1>1, OperatorsGo, InIsTheState DEF Blank, EOF
  <2>2. UnquotedMove("BEFORE_ATTR_NAME", tag')
    BY Zenon, <2>1 DEF UnquotedMove
  <2> QED BY Zenon, <1>1, <2>1, <2>2, StepMoves
<1>2. CASE In("ATTR_VALUE_UNQUOTED") /\ Current = ">" /\ EmitTag("DATA", WithAttributeValue)
  <2>1. UnquotedMove("DATA", WithAttributeValue)
    BY Zenon, <1>2, InIsTheState DEF UnquotedMove
  <2> QED BY <1>2, <2>1, StepEmits
<1>3. CASE ValueReference("ATTR_VALUE_UNQUOTED")
  BY <1>3, OperatorsGo, Zenon DEF ValueReference, PlainStep
<1>4. CASE ValueChar("ATTR_VALUE_UNQUOTED", {" ", ">"})
  <2>1. /\ state = "ATTR_VALUE_UNQUOTED" /\ tag' = WithChar(Current) /\ Current \notin ValueEnds /\ Current # EOF
        /\ NextChar("ATTR_VALUE_UNQUOTED")
    BY Zenon, <1>4, OperatorsGo, InIsTheState DEF ValueChar, Blank, ValueEnds
  <2>2. UnquotedMove("ATTR_VALUE_UNQUOTED", tag')
    BY Zenon, <2>1 DEF UnquotedMove
  <2> QED BY <2>1, <2>2, StepMoves
<1>5. CASE AbandonHere("ATTR_VALUE_UNQUOTED")
  BY <1>5, StepAtEnd DEF AbandonHere
<1> QED BY <1>1, <1>2, <1>3, <1>4, <1>5, Zenon DEF AttrValueUnquotedState

LEMMA PlainSteps ==
  ASSUME TagHandler, state \in UnquotedStates
  PROVE  PlainStep
PROOF
<1>1. ~CharRefInAttrValueState /\ ~AttrValueDoubleQuotedState /\ ~AttrValueSingleQuotedState
        /\ ~AfterAttrValueQuotedState /\ ~SelfClosingStartTagState
  BY Zenon DEF UnquotedStates, CharRefInAttrValueState, AttrValueDoubleQuotedState, AttrValueSingleQuotedState,
         Quoted, ValueReference, ValueChar, AbandonHere, Abandon, AfterAttrValueQuotedState, SelfClosingStartTagState, In
<1>2. CASE BeforeAttrNameState
  <2>1. CASE AroundName("BEFORE_ATTR_NAME") \/ Abandon("BEFORE_ATTR_NAME")
    BY <2>1, PlainAroundName
  <2>2. CASE BeginName("BEFORE_ATTR_NAME", {})
    BY <2>2, PlainBeginName
  <2> QED BY <1>2, <2>1, <2>2, Zenon DEF BeforeAttrNameState
<1> QED BY <1>1, <1>2, PlainTagName, PlainAttrName, PlainAfterAttrName, PlainBeforeAttrValue, PlainAttrValue, Zenon DEF TagHandler

-----------------------------------------------------------------------------
(***************************************************************************)
(* What is read of a tag, and what is said of the tags that were emitted.  *)
(***************************************************************************)

\* What is said of a start tag by the text it stands for.
Said(s, attributes) ==
  Unquoted(s) =>
    /\ \A k, m \in 1 .. Len(s) : FirstNamed(s, k, m) =>
         \E a \in 1 .. Len(attributes) : attributes[a].name = NameIn(s, k, m) /\ Given(s, m, attributes[a].value)
    /\ \A a \in 1 .. Len(attributes) : IsWritten(s, attributes[a].name)

TagRead ==
  state \in TagStates /\ tag.isStart /\ Unquoted(Read) =>
    \/ TagSaid(Read, state, tag)
    \/ state \in {"ATTR_VALUE_UNQUOTED", "CHAR_REF_IN_ATTR_VALUE"} /\ Current \in References

EndNames == state \in EndTagNameStates => ~tag.isStart
TokensSaid == \A i \in 1 .. Len(tokens) : tokens[i].type = "start" => Said(TextOf(i), tokens[i].value.attributes)
AttributesInv == TagRead /\ EndNames /\ TokensSaid

\* A plain text with one unit less is plain, and so is that unit.
LEMMA UnquotedSoFar ==
  ASSUME NEW s, NEW w, NEW u, Longer(s, w, u), Unquoted(w)
  PROVE  Unquoted(s) /\ u \in PlainUnits /\ (Len(s) >= 1 /\ u = Blank => s[Len(s)] # "=")
PROOF
<1>1. Len(s) \in Nat /\ Len(w) = Len(s) + 1 /\ w[Len(s) + 1] = u /\ \A i \in 1 .. Len(s) : w[i] = s[i]
  BY DEF Longer
<1>2. \A k \in 1 .. Len(w) : w[k] \in PlainUnits /\ (k > 1 /\ w[k] = Blank => w[k - 1] # "=")
  BY Zenon DEF Unquoted
<1>3. ASSUME NEW k \in 1 .. Len(s)
      PROVE  s[k] \in PlainUnits /\ (k > 1 /\ s[k] = Blank => s[k - 1] # "=")
  <2>1. k \in 1 .. Len(w) /\ w[k] = s[k] /\ (k > 1 => k - 1 \in 1 .. Len(s))
    BY <1>1
  <2> QED BY <1>1, <1>2, <2>1
<1>4. Len(s) + 1 \in 1 .. Len(w) /\ Len(s) + 1 - 1 = Len(s) /\ (Len(s) >= 1 => Len(s) + 1 > 1 /\ Len(s) \in 1 .. Len(s))
  BY <1>1
<1>5. u \in PlainUnits /\ (Len(s) >= 1 /\ u = Blank => s[Len(s)] # "=")
  BY <1>1, <1>2, <1>4
<1> QED BY <1>3, <1>5, Zenon DEF Unquoted

\* The same part of a page and of the page with more of it.
LEMMA SamePart ==
  ASSUME NEW s \in Seq(Unit), NEW r \in Seq(Unit), Len(s) <= Len(r), \A i \in 1 .. Len(s) : r[i] = s[i],
         NEW m \in Nat, NEW n \in Nat, 1 <= m, m <= n, n <= Len(s)
  PROVE  SubSeq(r, m, n - 1) = SubSeq(s, m, n - 1)
PROOF
<1>1. n - 1 \in Nat /\ m <= n - 1 + 1 /\ n - 1 <= Len(s) /\ n - 1 <= Len(r)
  OBVIOUS
<1>2. /\ SubSeq(s, m, n - 1) \in Seq(Unit) /\ Len(SubSeq(s, m, n - 1)) = n - 1 - m + 1
      /\ \A i \in 1 .. n - 1 - m + 1 : SubSeq(s, m, n - 1)[i] = s[m + i - 1]
  BY <1>1, PartOf
<1>3. /\ SubSeq(r, m, n - 1) \in Seq(Unit) /\ Len(SubSeq(r, m, n - 1)) = n - 1 - m + 1
      /\ \A i \in 1 .. n - 1 - m + 1 : SubSeq(r, m, n - 1)[i] = r[m + i - 1]
  BY <1>1, PartOf
<1>4. \A i \in 1 .. n - 1 - m + 1 : m + i - 1 \in 1 .. Len(s)
  OBVIOUS
<1>5. \A i \in 1 .. n - 1 - m + 1 : r[m + i - 1] = s[m + i - 1]
  BY <1>4
<1> QED BY <1>2, <1>3, <1>5, SameUnits

\* The unit the iterator goes over joins what is read.
LEMMA ReadGrows ==
  ASSUME IInv, Reading, tokenStart <= pos, NEW from, from = tokenStart, NEW to, to = pos + 1
  PROVE  Longer(Read, SubSeq(source', from, to - 1), Current)
PROOF
<1>1. /\ source \in Seq(Unit) /\ source' \in Seq(Unit) /\ pos \in 1 .. Len(source) /\ tokenStart \in 1 .. Len(source)
      /\ Len(source) \in Nat /\ Len(source') \in Nat /\ Len(source) <= Len(source')
      /\ \A i \in 1 .. Len(source) : source'[i] = source[i]
  BY DEF IInv, InputOK, Reading
<1>2. /\ tokenStart \in Nat /\ pos - 1 \in Nat /\ 1 <= tokenStart /\ tokenStart <= pos - 1 + 1 /\ pos - 1 <= Len(source)
      /\ pos \in Nat /\ tokenStart <= pos + 1 /\ pos <= Len(source') /\ pos + 1 - 1 = pos
  BY <1>1
<1>3. /\ Read \in Seq(Unit) /\ Len(Read) = pos - 1 - tokenStart + 1
      /\ \A i \in 1 .. pos - 1 - tokenStart + 1 : Read[i] = source[tokenStart + i - 1]
  BY <1>1, <1>2, PartOf DEF Read
<1> DEFINE w == SubSeq(source', tokenStart, pos)
<1>4. /\ w \in Seq(Unit) /\ Len(w) = pos - tokenStart + 1
      /\ \A i \in 1 .. pos - tokenStart + 1 : w[i] = source'[tokenStart + i - 1]
  BY <1>1, <1>2, PartOf
<1>5. SubSeq(source', from, to - 1) = w
  BY <1>2
<1> HIDE DEF w
<1>6. Len(w) = Len(Read) + 1 /\ Len(Read) + 1 = pos - tokenStart + 1
  BY <1>1, <1>3, <1>4
<1>7. ASSUME NEW i \in 1 .. Len(Read)
      PROVE  w[i] = Read[i]
  <2>1. /\ i \in 1 .. pos - tokenStart + 1 /\ i \in 1 .. pos - 1 - tokenStart + 1
        /\ tokenStart + i - 1 \in 1 .. Len(source)
    BY <1>1, <1>3
  <2> QED BY <1>1, <1>3, <1>4, <2>1
<1>8. w[Len(Read) + 1] = Current
  <2>1. pos - tokenStart + 1 \in 1 .. pos - tokenStart + 1 /\ tokenStart + (pos - tokenStart + 1) - 1 = pos
    BY <1>1, <1>2
  <2> QED BY <1>1, <1>4, <1>6, <2>1 DEF Current
<1> QED BY <1>3, <1>4, <1>5, <1>6, <1>7, <1>8 DEF Longer

\* Nothing more is read.
LEMMA ReadStays ==
  ASSUME IInv, Reading, tokenStart <= pos, tokenStart' = tokenStart, pos' = pos
  PROVE  Read' = Read /\ Current' = Current
PROOF
<1>1. /\ source \in Seq(Unit) /\ source' \in Seq(Unit) /\ pos \in 1 .. Len(source) /\ tokenStart \in 1 .. Len(source)
      /\ Len(source) \in Nat /\ Len(source') \in Nat /\ Len(source) <= Len(source')
      /\ \A i \in 1 .. Len(source) : source'[i] = source[i]
  BY DEF IInv, InputOK, Reading
<1>2. SubSeq(source', tokenStart, pos - 1) = SubSeq(source, tokenStart, pos - 1)
  BY <1>1, SamePart
<1> QED BY <1>1, <1>2 DEF Read, Current

\* The text of a token that was emitted.
LEMMA TextStays ==
  ASSUME IInv, StreamInv, Reading, NEW i \in 1 .. Len(tokens), tokens'[i] = tokens[i]
  PROVE  TextOf(i)' = TextOf(i)
PROOF
<1>1. /\ source \in Seq(Unit) /\ source' \in Seq(Unit)
      /\ Len(source) \in Nat /\ Len(source') \in Nat /\ Len(source) <= Len(source')
      /\ \A j \in 1 .. Len(source) : source'[j] = source[j]
      /\ tokens \in Seq(Token)
  BY DEF IInv, InputOK, Reading, OutputOK
<1>2. TokenStands(source, tokens, i)
  BY DEF StreamInv, TokensStand
<1>3. tokens[i].from \in 1 .. tokens[i].to /\ tokens[i].to <= Len(source)
  BY <1>2, Zenon DEF TokenStands
<1>4. tokens[i].from \in Nat /\ tokens[i].to \in Nat
  <2>1. tokens[i] \in Token
    BY <1>1
  <2> QED BY <2>1 DEF Token
<1>a. 1 <= tokens[i].from /\ tokens[i].from <= tokens[i].to
  BY <1>3, <1>4
<1>5. SubSeq(source', tokens[i].from, tokens[i].to - 1) = SubSeq(source, tokens[i].from, tokens[i].to - 1)
  BY <1>1, <1>3, <1>4, <1>a, SamePart
<1> QED BY <1>5 DEF TextOf

-----------------------------------------------------------------------------
(***************************************************************************)
(* Each kind of step keeps what is said of the tags.                       *)
(***************************************************************************)
LEMMA SaidWithoutToken ==
  ASSUME IInv, StreamInv, Reading, TokensSaid, tokens' = tokens
  PROVE  TokensSaid'
PROOF
<1>1. \A i \in 1 .. Len(tokens) : tokens'[i] = tokens[i]
  OBVIOUS
<1>2. \A i \in 1 .. Len(tokens) : TextOf(i)' = TextOf(i)
  BY <1>1, TextStays
<1> QED BY <1>2, Zenon DEF TokensSaid

LEMMA SaidWithToken ==
  ASSUME IInv, StreamInv, Reading, TokensSaid, NEW type, NEW value, Finish(type, value),
         type = "start" => Said(SubSeq(source', tokenStart, pos' - 1), value.attributes)
  PROVE  TokensSaid'
PROOF
<1> DEFINE t == [type |-> type, value |-> value, from |-> tokenStart, to |-> pos', then |-> None]
<1>1. tokens \in Seq(Token) /\ tokens' = Append(tokens, t)
  BY DEF IInv, OutputOK, Finish
<1>2. /\ Len(tokens) \in Nat /\ Len(tokens') = Len(tokens) + 1 /\ tokens'[Len(tokens) + 1] = t
      /\ \A i \in 1 .. Len(tokens) : tokens'[i] = tokens[i]
  BY <1>1
<1>3. \A i \in 1 .. Len(tokens') : i \in 1 .. Len(tokens) \/ i = Len(tokens) + 1
  BY <1>2
<1>4. t.type = type /\ t.value = value /\ t.from = tokenStart /\ t.to = pos'
  OBVIOUS
<1> HIDE DEF t
<1>5. ASSUME NEW i \in 1 .. Len(tokens), tokens'[i].type = "start"
      PROVE  Said(TextOf(i)', tokens'[i].value.attributes)
  <2>1. tokens'[i] = tokens[i]
    BY <1>2
  <2>2. TextOf(i)' = TextOf(i)
    BY <2>1, TextStays
  <2> QED BY <1>5, <2>1, <2>2, Zenon DEF TokensSaid
<1>6. PICK n \in Nat : n = Len(tokens) + 1
  BY <1>2
<1>7. TextOf(n)' = SubSeq(source', tokenStart, pos' - 1) /\ tokens'[n].type = type /\ tokens'[n].value = value
  <2>1. tokens'[n] = t
    BY <1>2, <1>6
  <2> QED BY <1>4, <2>1 DEF TextOf
<1>8. \A i \in 1 .. Len(tokens') : tokens'[i].type = "start" => Said(TextOf(i)', tokens'[i].value.attributes)
  BY <1>3, <1>5, <1>6, <1>7
<1> QED BY <1>8, Zenon DEF TokensSaid

\* Outside of tags.
LEMMA NoTagIsRead ==
  ASSUME state' \notin TagStates \union EndTagNameStates
  PROVE  TagRead' /\ EndNames'
PROOF BY DEF TagRead, EndNames

\* A tag on which nothing but quotes and slashes has been read is told from the others.
LEMMA SaidOfRead ==
  ASSUME TagRead, state \in TagStates, tag.isStart, Unquoted(Read), Current \notin References
  PROVE  TagSaid(Read, state, tag) /\ state \in UnquotedStates
PROOF
<1>1. TagSaid(Read, state, tag)
  BY Zenon DEF TagRead
<1> QED BY <1>1, Zenon DEF TagSaid, ReadLast

\* A tag takes up a unit, ...
LEMMA AttributesOnUnit ==
  ASSUME IInv, StreamInv, TagRead, TagHandler, state \in TagStates, Current # EOF, Reading,
         pos' = pos + 1, tokenStart' = tokenStart, state' \in TagStates, tag'.isStart => tag.isStart
  PROVE  TagRead'
PROOF
<1> SUFFICES ASSUME tag'.isStart, Unquoted(Read')
             PROVE  TagSaid(Read', state', tag')
  BY Zenon DEF TagRead
<1>1. tokenStart <= pos /\ pos \in Nat /\ tag \in TagType /\ ValuesHaveTheirAttribute /\ Current \in Unit
  BY CurrentIsAUnit DEF StreamInv, IInv, BuffersOK, InputOK, OwnedWhileOpen
<1>2. Longer(Read, Read', Current)
  <2>1. Longer(Read, SubSeq(source', tokenStart', pos' - 1), Current)
    BY <1>1, ReadGrows
  <2> QED BY <2>1 DEF Read
<1>3. /\ Unquoted(Read) /\ Current \in PlainUnits
      /\ Len(Read) >= 1 /\ Current = Blank => Read[Len(Read)] # "="
  BY <1>2, UnquotedSoFar
<1>4. Current \notin References
  BY <1>3, PlainApart
<1>5. TagSaid(Read, state, tag) /\ state \in UnquotedStates
  BY <1>3, <1>4, SaidOfRead
<1>6. UnquotedMove(state', tag')
  <2>1. PlainStep
    BY <1>5, PlainSteps
  <2>2. ~(state = "BEFORE_ATTR_VALUE" /\ Current = Blank)
    BY Zenon, <1>3, <1>5 DEF TagSaid, ReadLast
  <2>3. state' # "DATA"
    BY DEF TagStates
  <2>4. ASSUME NEW t, EmitTag("DATA", t)
        PROVE  FALSE
    BY <2>3, <2>4 DEF EmitTag, Emit
  <2> QED BY Zenon, <1>3, <1>4, <2>1, <2>2, <2>3, <2>4 DEF PlainStep
<1>7. SaidNow(Read', state', tag')
  BY Zenon, <1>1, <1>2, <1>5, <1>6, MoveKept
<1>8. state' # "DATA"
  BY DEF TagStates
<1> QED BY Zenon, <1>7, <1>8 DEF SaidNow, TagSaid

\* ... or looks at it once more.
LEMMA AttributesOnTheSame ==
  ASSUME IInv, StreamInv, TagRead, TagHandler, state \in TagStates, Reading,
         pos' = pos, tokenStart' = tokenStart, state' \in TagStates, tag'.isStart => tag.isStart
  PROVE  TagRead'
PROOF
<1> SUFFICES ASSUME tag'.isStart, Unquoted(Read')
             PROVE  state' \in {"ATTR_VALUE_UNQUOTED", "CHAR_REF_IN_ATTR_VALUE"} /\ Current' \in References
  BY Zenon DEF TagRead
<1>1. tokenStart <= pos /\ pos \in Nat /\ InputOK
  BY DEF StreamInv, IInv, InputOK
<1>2. Read' = Read /\ Current' = Current
  BY <1>1, ReadStays
<1>3. state' # "DATA"
  BY DEF TagStates
<1>4. \/ TagSaid(Read, state, tag)
      \/ state \in {"ATTR_VALUE_UNQUOTED", "CHAR_REF_IN_ATTR_VALUE"} /\ Current \in References
  BY <1>2, Zenon DEF TagRead
<1>5. ASSUME Current # EOF, NEW next, NextChar(next)
      PROVE  FALSE
  <2>1. Advance
    BY <1>5 DEF NextChar
  <2>2. pos' = pos + 1
    BY <1>1, <1>5, <2>1, AdvanceReads
  <2> QED BY <1>1, <2>2
<1>6. CASE state \in UnquotedStates
  <2>1. PlainStep
    BY <1>6, PlainSteps
  <2>2. ASSUME NEW t, EmitTag("DATA", t)
        PROVE  FALSE
    BY <1>3, <2>2 DEF EmitTag, Emit
  <2>3. \A t : ~EmitTag("DATA", t)
    BY <2>2
  <2>4. Current # EOF => ~NextChar(state')
    BY <1>5
  <2>5. Current \notin PlainUnits \union {EOF} => Current # EOF
    OBVIOUS
  <2>6. state = "BEFORE_ATTR_VALUE" /\ Current = Blank => Current # EOF
    BY Zenon DEF Blank, EOF
  <2> QED BY Zenon, <1>2, <1>3, <2>1, <2>3, <2>4, <2>5, <2>6 DEF PlainStep
<1>7. CASE state \notin UnquotedStates
  <2>1. ~TagSaid(Read, state, tag)
    BY <1>7, Zenon DEF TagSaid, ReadLast
  <2>2. state = "CHAR_REF_IN_ATTR_VALUE" /\ Current \in References
    BY <1>4, <1>7, <2>1 DEF UnquotedStates
  <2>3. CharRefInAttrValueState
    BY <2>2 DEF TagHandler, TagNameState, BeforeAttrNameState, AttrNameState, AfterAttrNameState,
       BeforeAttrValueState, AttrValueDoubleQuotedState, AttrValueSingleQuotedState, AttrValueUnquotedState,
       AfterAttrValueQuotedState, SelfClosingStartTagState, AroundName, BeginName, Quoted, ValueReference,
       ValueChar, AbandonHere, Abandon, In
  <2>4. Current # EOF
    BY <2>2, PlainApart
  <2> QED BY Zenon, <1>5, <2>3, <2>4 DEF CharRefInAttrValueState
<1> QED BY <1>6, <1>7

\* What a step within a tag does to its kind.
LEMMA TagKeepsItsKind ==
  ASSUME tag \in TagType, TagMoves
  PROVE  tag'.isStart = tag.isStart
PROOF
<1>1. \/ tag' = tag \/ (\E u : tag' = WithChar(u)) \/ tag' = WithTagName \/ tag' = WithAttributeName
      \/ tag' = WithAttributeValue \/ \E units : tag' = [tag EXCEPT !.buffer = tag.buffer \o units]
  BY DEF TagMoves, KeepTag, tagVars, ChangeTag
<1>2. ASSUME NEW units, tag' = [tag EXCEPT !.buffer = tag.buffer \o units]
      PROVE  tag'.isStart = tag.isStart
  BY <1>2 DEF TagType
<1>3. (\E u : tag' = WithChar(u)) \/ tag' = WithTagName \/ tag' = WithAttributeName \/ tag' = WithAttributeValue
        => tag'.isStart = tag.isStart
  BY TagKeepsItsName, Zenon
<1> QED BY <1>1, <1>2, <1>3, Zenon

LEMMA AttributesKeptByReadsTag ==
  ASSUME IInv, StreamInv, AttributesInv, TagHandler, ReadsTag
  PROVE  AttributesInv'
PROOF
<1>1. /\ In(state) /\ state \in TagStates /\ (NextChar(state') \/ Reconsume(state')) /\ TagMoves
      /\ TagRead /\ TokensSaid
  BY DEF ReadsTag, AttributesInv
<1>2. /\ Reading /\ tokens' = tokens /\ tokenStart' = tokenStart
      /\ NextChar(state') => pos' = IF Current = EOF THEN pos ELSE pos + 1
  BY <1>1, HandlerReadsOn
<1>3. tag \in TagType /\ (state = "CHAR_REF_IN_ATTR_VALUE" => attrValueState \in ValueTexts)
  BY DEF IInv, BuffersOK
<1>4. state' \in TagStates
  BY <1>1, <1>3 DEF TagMoves, ValueTexts, TagStates
<1>5. tag'.isStart = tag.isStart
  BY <1>1, <1>3, TagKeepsItsKind
<1>6. TagRead'
  <2>1. CASE NextChar(state') /\ Current # EOF
    <3>1. pos' = pos + 1
      BY <1>2, <2>1
    <3> QED BY <1>1, <1>2, <1>4, <1>5, <2>1, <3>1, AttributesOnUnit
  <2>2. CASE Reconsume(state') \/ Current = EOF
    <3>1. pos' = pos
      BY <1>1, <1>2, <2>2 DEF Reconsume, inputVars
    <3> QED BY <1>1, <1>2, <1>4, <1>5, <3>1, AttributesOnTheSame
  <2> QED BY <1>1, <2>1, <2>2
<1>7. EndNames'
  BY <1>4, ClassesAreDisjoint DEF EndNames, Openers
<1>8. TokensSaid'
  BY <1>1, <1>2, SaidWithoutToken
<1> QED BY <1>6, <1>7, <1>8 DEF AttributesInv

\* The end of a tag, which may be that of its last name or value.
LEMMA AttributesKeptByEmitsTag ==
  ASSUME IInv, StreamInv, AttributesInv, EmitsTag, TagHandler \/ state \notin TagStates
  PROVE  AttributesInv'
PROOF
<1> DEFINE type(t) == IF t.isStart THEN "start" ELSE "end"
           value(t) == [name |-> t.name, selfClosing |-> t.selfClosing,
                        attributes |-> IF t.isStart THEN t.attributes ELSE <<>>]
           w == SubSeq(source', tokenStart, pos' - 1)
<1>1. In(state) /\ Current = ">" /\ TagRead /\ EndNames /\ TokensSaid /\ \E t : TagToEmit(t) /\ EmitTag("DATA", t)
  BY DEF EmitsTag, AttributesInv
<1>2. ASSUME NEW t, EmitTag("DATA", t)
      PROVE  /\ Reading /\ pos' = pos + 1 /\ state' = "DATA" /\ Finish(type(t), value(t))
             /\ value(t).attributes = IF t.isStart THEN t.attributes ELSE <<>>
  <2>1. Emit("DATA", type(t), value(t))
    BY <1>2 DEF EmitTag
  <2>2. Current # EOF
    BY <1>1 DEF EOF
  <2>3. value(t).attributes = IF t.isStart THEN t.attributes ELSE <<>>
    OBVIOUS
  <2> HIDE DEF value, type
  <2> QED BY <1>1, <2>1, <2>2, <2>3, HandlerEmits
<1>3. Reading /\ pos' = pos + 1 /\ state' = "DATA"
  BY <1>1, <1>2
<1>4. tag \in TagType /\ ValuesHaveTheirAttribute /\ Current \in Unit /\ tokenStart <= pos
  BY CurrentIsAUnit DEF IInv, BuffersOK, OwnedWhileOpen, StreamInv
<1>5. ASSUME NEW t, TagToEmit(t) \/ UnquotedMove("DATA", t)
      PROVE  t.isStart = tag.isStart
  <2>1. t \in {tag, WithTagName, WithAttributeName, WithAttributeValue, [tag EXCEPT !.selfClosing = TRUE]}
    BY <1>5, Zenon DEF TagToEmit, UnquotedMove
  <2> QED BY <1>4, <2>1, TagKeepsItsName
<1>6. TagRead' /\ EndNames'
  BY <1>3, NoTagIsRead DEF TagStates, EndTagNameStates
<1>7. Longer(Read, w, Current)
  <2> HIDE DEF w
  <2>1. Longer(Read, SubSeq(source', tokenStart, pos' - 1), Current)
    BY <1>3, <1>4, ReadGrows
  <2> QED BY <2>1 DEF w
<1>8. CASE tag.isStart /\ Unquoted(w)
  <2> HIDE DEF w
  <2>1. Unquoted(Read) /\ Current \in PlainUnits
    BY <1>7, <1>8, UnquotedSoFar
  <2>2. state \in TagStates
    BY <1>1, <1>8 DEF EndNames, TagToEmit, TagStates
  <2>3. Current \notin References
    BY <2>1, PlainApart
  <2>4. TagSaid(Read, state, tag) /\ state \in UnquotedStates
    BY <1>1, <1>8, <2>1, <2>2, <2>3, SaidOfRead
  <2>5. PlainStep
    BY <2>2, <2>4, PlainSteps
  <2>6. tokens' # tokens
    <3>1. PICK t : EmitTag("DATA", t)
      BY <1>1
    <3>2. Finish(type(t), value(t))
      BY <1>2, <3>1
    <3> HIDE DEF type, value
    <3>3. tokens \in Seq(Token)
      BY DEF IInv, OutputOK
    <3>4. Len(tokens') = Len(tokens) + 1
      BY <3>2, <3>3 DEF Finish
    <3> QED BY <3>3, <3>4
  <2>7. \A next : ~NextChar(next) /\ ~Reconsume(next)
    BY <2>6 DEF NextChar, Reconsume, outputVars
  <2>8. PICK t : EmitTag("DATA", t) /\ UnquotedMove("DATA", t)
    BY Zenon, <2>5, <2>7 DEF PlainStep
  <2>9. SaidNow(w, "DATA", t)
    BY Zenon, <1>4, <1>7, <2>4, <2>8, MoveKept
  <2>10. value(t).attributes = t.attributes
    BY <1>2, <1>5, <1>8, <2>8
  <2>11. Said(w, t.attributes)
    <3>1. \A a : ~Waits("DATA", t, a)
      BY DEF Waits
    <3> QED BY Zenon, <2>9, <3>1 DEF SaidNow, AllGiven, AllWritten, Gives, Said
  <2>12. Finish(type(t), value(t))
    BY <1>2, <2>8
  <2>13. Said(SubSeq(source', tokenStart, pos' - 1), value(t).attributes)
    BY <2>10, <2>11 DEF w
  <2> HIDE DEF type, value
  <2>14. TokensSaid'
    BY <1>1, <1>3, <2>12, <2>13, SaidWithToken
  <2> QED BY <1>6, <2>14 DEF AttributesInv
<1>9. CASE ~(tag.isStart /\ Unquoted(w))
  <2>1. PICK t : TagToEmit(t) /\ EmitTag("DATA", t)
    BY <1>1
  <2>2. type(t) = "start" => ~Unquoted(w)
    BY <1>5, <1>9, <2>1
  <2>3. Finish(type(t), value(t))
    BY <1>2, <2>1
  <2>4. type(t) = "start" => Said(SubSeq(source', tokenStart, pos' - 1), value(t).attributes)
    BY <2>2, Zenon DEF Said
  <2> HIDE DEF type, value, w
  <2>5. TokensSaid'
    BY <1>1, <1>3, <2>3, <2>4, SaidWithToken
  <2> QED BY <1>6, <2>5 DEF AttributesInv
<1> QED BY <1>8, <1>9

\* A tag begins: nothing is written in it yet.
LEMMA AttributesKeptByBeginsTag ==
  ASSUME IInv, StreamInv, AttributesInv, BeginsTag
  PROVE  AttributesInv'
PROOF
<1>1. /\ state \in {"TAG_OPEN", "END_TAG_OPEN"} /\ In(state) /\ Current \in Letters /\ NextChar("TAG_NAME")
      /\ TokensSaid
  BY DEF BeginsTag, IsLetter, AttributesInv
<1>2. PICK b \in BOOLEAN : tag' = NewTag(b)
  BY DEF BeginsTag, ChangeTag
<1>3. Current # EOF /\ Current # Blank
  <2>1. EOF \notin Letters
    BY Zenon, LettersAssumption
  <2> QED BY <1>1, <2>1, PlainApart
<1>4. /\ Reading /\ tokens' = tokens /\ tokenStart' = tokenStart /\ pos' = pos + 1 /\ state' = "TAG_NAME"
  BY <1>1, <1>3, HandlerReadsOn
<1>5. EndNames' /\ TokensSaid'
  BY <1>1, <1>4, SaidWithoutToken DEF EndNames, EndTagNameStates
<1>6. /\ tokenStart <= mark /\ mark < pos /\ EmptyEnds(source, tokenStart, mark) /\ source[mark] = "<"
      /\ tokenStart \in Nat /\ mark \in Nat /\ pos \in Nat /\ source \in Seq(Unit)
  <2>1. state \in Openers
    BY <1>1 DEF Openers, LtStates, EndTagOpenStates
  <2> QED BY <2>1 DEF StreamInv, Begun, OpenerBegun, IInv, InputOK
<1>7. /\ state = "TAG_OPEN" => pos = mark + 1
      /\ state = "END_TAG_OPEN" => pos = mark + 2 /\ source[mark + 1] = "/"
  <2>1. /\ state \in LtStates \union EndTagOpenStates \union EndTagNameStates
        /\ state = "TAG_OPEN" => state \in LtStates
        /\ state = "END_TAG_OPEN" => state \in EndTagOpenStates
    BY <1>1 DEF LtStates, EndTagOpenStates
  <2>2. /\ pos = mark + Len(temporary) /\ \A i \in 1 .. Len(temporary) : temporary[i] = source[mark + i - 1]
        /\ state = "TAG_OPEN" => temporary = <<"<">>
        /\ state = "END_TAG_OPEN" => temporary = <<"<", "/">>
    BY <1>1, <2>1 DEF IInv, TemporaryBufferIsTheInput, In
  <2>3. CASE state = "TAG_OPEN"
    <3>1. Len(temporary) = 1
      BY <2>2, <2>3
    <3> QED BY <2>2, <2>3, <3>1
  <2>4. CASE state = "END_TAG_OPEN"
    <3>1. Len(temporary) = 2 /\ temporary[2] = "/"
      BY <2>2, <2>4
    <3>2. 2 \in 1 .. Len(temporary) /\ mark + 2 - 1 = mark + 1
      BY <1>6, <3>1
    <3>3. source[mark + 1] = "/"
      BY <2>2, <3>1, <3>2
    <3> QED BY <2>2, <2>4, <3>1, <3>3
  <2> QED BY <1>1, <2>3, <2>4
<1>8. /\ Longer(Read, Read', Current) /\ Len(Read) = pos - tokenStart
      /\ \A i \in 1 .. pos - tokenStart : Read[i] = source[tokenStart + i - 1]
  <2>1. Longer(Read, SubSeq(source', tokenStart', pos' - 1), Current)
    BY <1>4, <1>6, ReadGrows
  <2>2. pos - 1 \in Nat /\ 1 <= tokenStart /\ tokenStart <= pos - 1 + 1 /\ pos - 1 <= Len(source)
    BY <1>6 DEF IInv, InputOK
  <2>3. /\ Len(Read) = pos - 1 - tokenStart + 1
        /\ \A i \in 1 .. pos - 1 - tokenStart + 1 : Read[i] = source[tokenStart + i - 1]
    BY <1>6, <2>2, PartOf DEF Read
  <2>4. pos - 1 - tokenStart + 1 = pos - tokenStart
    BY <1>6
  <2> QED BY <2>1, <2>3, <2>4 DEF Read
<1>9. ASSUME Unquoted(Read')
      PROVE  tokenStart = mark /\ pos = mark + 1
  <2>1. \A i \in 1 .. pos - tokenStart : Read[i] # "/"
    <3>1. Unquoted(Read)
      BY <1>8, <1>9, UnquotedSoFar
    <3> QED BY <1>8, <3>1, PlainApart DEF Unquoted
  <2>2. PICK k \in Nat : /\ mark = tokenStart + 3 * k
                         /\ \A j \in 0 .. k - 1 : source[tokenStart + 3 * j + 1] = "/"
    BY <1>6 DEF EmptyEnds
  <2>3. k = 0
    <3>1. SUFFICES ASSUME k >= 1
                   PROVE  FALSE
      BY <2>2
    <3>2. 0 \in 0 .. k - 1 /\ tokenStart + 3 * 0 + 1 = tokenStart + 1 /\ 2 \in 1 .. pos - tokenStart
          /\ tokenStart + 2 - 1 = tokenStart + 1
      BY <1>6, <2>2, <3>1
    <3>3. source[tokenStart + 1] = "/"
      BY <2>2, <3>2
    <3> QED BY <1>8, <2>1, <3>2, <3>3
  <2>4. tokenStart = mark
    BY <1>6, <2>2, <2>3
  <2>5. state # "END_TAG_OPEN"
    <3>1. SUFFICES ASSUME state = "END_TAG_OPEN"
                   PROVE  FALSE
      OBVIOUS
    <3>2. 2 \in 1 .. pos - tokenStart /\ tokenStart + 2 - 1 = mark + 1
      BY <1>6, <1>7, <2>4, <3>1
    <3> QED BY <1>7, <1>8, <2>1, <3>1, <3>2
  <2> QED BY <1>1, <1>7, <2>4, <2>5
<1>10. TagRead'
  <2>1. SUFFICES ASSUME Unquoted(Read')
                 PROVE  TagSaid(Read', state', tag')
    BY Zenon DEF TagRead
  <2>2. tokenStart = mark /\ pos = mark + 1
    BY <1>9, <2>1
  <2>3. Len(Read) = 1 /\ Read[1] = "<"
    <3>1. pos - tokenStart = 1 /\ 1 \in 1 .. pos - tokenStart /\ tokenStart + 1 - 1 = mark
      BY <1>6, <2>2
    <3> QED BY <1>6, <1>8, <3>1
  <2>4. Len(Read') = 2 /\ Read'[1] = "<" /\ Read'[2] = Current
    <3>1. /\ Len(Read') = Len(Read) + 1 /\ Read'[Len(Read) + 1] = Current
          /\ \A i \in 1 .. Len(Read) : Read'[i] = Read[i]
      BY <1>8, Zenon DEF Longer
    <3>2. Len(Read) + 1 = 2 /\ 1 \in 1 .. Len(Read)
      BY <2>3
    <3>3. Read'[1] = Read[1]
      BY <3>1, <3>2
    <3> QED BY <2>3, <3>1, <3>2, <3>3, Zenon
  <2>5. tag'.attributes = <<>>
    BY <1>2 DEF NewTag, NoTag
  <2>6. ReadLast(Read', state', tag')
    <3>1. \A k \in 1 .. Len(Read') : k = 1 \/ k = 2
      BY <2>4
    <3>2. \A k \in 1 .. Len(Read') : Read'[k] # Blank
      BY <1>3, <2>4, <3>1, EndsApart
    <3> QED BY <1>4, <2>4, <2>5, <3>2 DEF ReadLast, UnquotedStates
  <2>7. AllGiven(Read', state', tag')
    <3>1. ASSUME NEW k \in 1 .. Len(Read'), NEW m \in 1 .. Len(Read'), FirstNamed(Read', k, m)
          PROVE  FALSE
      <4>1. 3 <= k /\ k <= m /\ m < Len(Read')
        BY <3>1, Zenon DEF FirstNamed, Named
      <4> QED BY <2>4, <4>1
    <3> QED BY <3>1, Zenon DEF AllGiven
  <2>8. AllWritten(Read', tag')
    BY <2>5 DEF AllWritten
  <2> QED BY <2>6, <2>7, <2>8 DEF TagSaid
<1> QED BY <1>5, <1>10 DEF AttributesInv

\* The end tag of a text has no attributes to be given.
LEMMA AttributesKeptByEndTag ==
  ASSUME IInv, StreamInv, AttributesInv, BeginsEndTag \/ ReadsEndTagName \/ EntersEndTag
  PROVE  AttributesInv'
PROOF
<1>1. In(state) /\ NextChar(state') /\ EndNames /\ TokensSaid /\ tag \in TagType
  BY DEF BeginsEndTag, ReadsEndTagName, EntersEndTag, AttributesInv, IInv, BuffersOK
<1>2. Reading /\ tokens' = tokens
  BY <1>1, HandlerReadsOn
<1>3. ~tag'.isStart
  <2>1. CASE BeginsEndTag
    BY <2>1 DEF BeginsEndTag, ChangeTag, NewTag, NoTag
  <2>2. CASE ReadsEndTagName \/ EntersEndTag
    <3>1. ~tag.isStart /\ (tag' = WithTagName \/ \E u : tag' = WithChar(u))
      BY <1>1, <2>2 DEF ReadsEndTagName, EntersEndTag, ChangeTag, EndNames
    <3> QED BY <1>1, <3>1, TagKeepsItsName
  <2> QED BY <2>1, <2>2
<1>4. TagRead' /\ EndNames'
  BY <1>3 DEF TagRead, EndNames
<1>5. TokensSaid'
  BY <1>1, <1>2, SaidWithoutToken
<1> QED BY <1>4, <1>5 DEF AttributesInv

-----------------------------------------------------------------------------
(***************************************************************************)
(* Outside of tags nothing is said of one.                                 *)
(***************************************************************************)
NotInATag == States \ (TagStates \union EndTagNameStates)

LEMMA StatesOfNoTag ==
  /\ Text \subseteq NotInATag /\ LtStates \subseteq NotInATag /\ EndTagOpenStates \subseteq NotInATag
  /\ CommentStates \subseteq NotInATag /\ DoctypeStates \subseteq NotInATag
  /\ {"DATA", "MARKUP_DECLARATION", "CDATA", "BOGUS_COMMENT", "BOGUS_DOCTYPE", "COMMENT_START", "DOCTYPE"} \subseteq NotInATag
PROOF
<1>1. LtStates \subseteq Openers /\ EndTagOpenStates \subseteq Openers /\ EndTagNameStates \subseteq Openers
  BY DEF Openers
<1>2. Text \subseteq NotInATag
  <2>1. Text \subseteq States
    BY DEF Text, States
  <2> QED BY <1>1, <2>1, ClassesAreDisjoint DEF NotInATag
<1>3. LtStates \subseteq NotInATag /\ EndTagOpenStates \subseteq NotInATag
  <2>1. LtStates \subseteq States /\ EndTagOpenStates \subseteq States
    BY DEF States
  <2> QED BY <1>1, <2>1, ClassesAreDisjoint DEF NotInATag
<1>4. CommentStates \subseteq NotInATag /\ DoctypeStates \subseteq NotInATag
  <2>1. CommentStates \subseteq States /\ DoctypeStates \subseteq States
    BY DEF States
  <2> QED BY <1>1, <2>1, ClassesAreDisjoint DEF NotInATag
<1>5. {"MARKUP_DECLARATION", "CDATA", "BOGUS_DOCTYPE"} \subseteq NotInATag
  BY DEF NotInATag, States, TagStates, EndTagNameStates
<1>6. {"DATA", "BOGUS_COMMENT", "COMMENT_START", "DOCTYPE"} \subseteq NotInATag
  BY <1>2, <1>4 DEF Text, DataStates, CommentStates, DoctypeStates
<1> QED BY <1>2, <1>3, <1>4, <1>5, <1>6

LEMMA NothingSaid ==
  ASSUME IInv, StreamInv, AttributesInv, Reading, state' \in NotInATag, tokens' = tokens
  PROVE  AttributesInv'
PROOF
<1>1. TokensSaid'
  BY SaidWithoutToken DEF AttributesInv
<1> QED BY <1>1, NoTagIsRead DEF AttributesInv, NotInATag

LEMMA NothingSaidOf ==
  ASSUME IInv, StreamInv, AttributesInv, Reading, state' \in NotInATag,
         NEW type, NEW value, Finish(type, value), type # "start"
  PROVE  AttributesInv'
PROOF
<1>1. TokensSaid'
  BY SaidWithToken DEF AttributesInv
<1> QED BY <1>1, NoTagIsRead DEF AttributesInv, NotInATag

LEMMA NothingSaidOnReading ==
  ASSUME IInv, StreamInv, AttributesInv, In(state), state' \in NotInATag, NEW next, NextChar(next) \/ Reconsume(next)
  PROVE  AttributesInv'
PROOF
<1>1. Reading /\ tokens' = tokens
  BY HandlerReadsOn
<1> QED BY <1>1, NothingSaid

LEMMA NothingSaidOnEmitting ==
  ASSUME IInv, StreamInv, AttributesInv, In(state), state' \in NotInATag,
         NEW next, NEW type, NEW value, Emit(next, type, value), type # "start"
  PROVE  AttributesInv'
PROOF
<1>1. Reading /\ Finish(type, value)
  BY HandlerEmits
<1> QED BY <1>1, NothingSaidOf

LEMMA AttributesKeptByText ==
  ASSUME IInv, StreamInv, AttributesInv, TextKind
  PROVE  AttributesInv'
PROOF
<1>1. \A s \in Text \union LtStates \union EndTagOpenStates : s \in NotInATag
  BY StatesOfNoTag
<1>2. ReferenceStates \union {"DATA", "RCDATA"} \union ScriptStates \union {"SCRIPT"} \subseteq Text
  BY DEF Text, DataStates, ReferenceStates
<1>3. CASE EmitsText
  <2>1. In(state) /\ state' \in Text /\ Emit(state', CharType(Current), Current)
    BY <1>3 DEF EmitsText, EmitCurrentChar
  <2>2. CharType(Current) # "start"
    BY DEF CharType
  <2> QED BY <1>1, <2>1, <2>2, NothingSaidOnEmitting
<1>4. CASE OpensTag \/ SwitchesScript \/ ScriptEnds \/ ReadsSlash
  <2>1. /\ In(state) /\ (NextChar(state') \/ Reconsume(state'))
        /\ state' \in Text \union LtStates \union EndTagOpenStates
    BY <1>2, <1>4 DEF OpensTag, SwitchesScript, ScriptEnds, ReadsSlash
  <2>2. state' \in NotInATag
    BY <1>1, <2>1
  <2> QED BY <2>1, <2>2, NothingSaidOnReading
<1>5. CASE MeetsReference
  <2>1. In(state) /\ Reconsume(state') /\ state' \in ReferenceStates
    BY <1>5 DEF MeetsReference, ReferenceStates
  <2> QED BY <1>1, <1>2, <2>1, NothingSaidOnReading
<1>6. CASE EmitsReference
  <2>1. Advance /\ Finish("character", Current) /\ state' \in {"DATA", "RCDATA"}
    BY Zenon, <1>6 DEF EmitsReference, EmitCharRef
  <2>2. Reading
    BY <2>1, AdvanceReads DEF IInv
  <2> QED BY <1>1, <1>2, <2>1, <2>2, NothingSaidOf
<1>7. CASE GivesBack
  <2>1. PICK data : source' = source /\ Finish("character", data[1]) /\ state' \in Text
    BY <1>7 DEF GivesBack, EmitTemporary, EmitNext
  <2>2. Reading
    BY <2>1 DEF Reading, IInv, InputOK
  <2> QED BY <1>1, <2>1, <2>2, NothingSaidOf
<1> QED BY <1>3, <1>4, <1>5, <1>6, <1>7 DEF TextKind

LEMMA AttributesKeptByBeginnings ==
  ASSUME IInv, StreamInv, AttributesInv, BeginsMarkup \/ BeginsBogus \/ SkipsEmptyEnd \/ AbandonsTag
  PROVE  AttributesInv'
PROOF
<1>1. In(state) /\ \E next \in {"MARKUP_DECLARATION", "BOGUS_COMMENT", "DATA"} : NextChar(next) \/ Reconsume(next)
  BY InIsTheState DEF BeginsMarkup, BeginsBogus, SkipsEmptyEnd, AbandonsTag
<1>2. PICK next \in NotInATag : NextChar(next) \/ Reconsume(next)
  BY <1>1, StatesOfNoTag
<1>3. state' = next
  BY <1>2 DEF NextChar, Reconsume
<1> QED BY <1>1, <1>2, <1>3, NothingSaidOnReading

LEMMA AttributesKeptByMarkup ==
  ASSUME IInv, StreamInv, AttributesInv, MarkupKind
  PROVE  AttributesInv'
PROOF
<1>1. \A next : NextChar(next) \/ Reconsume(next) => state' = next
  BY DEF NextChar, Reconsume
<1>2. CASE BeginsBogusComment \/ BeginsDoctype \/ BeginsCdata
  <2>1. In(state) /\ \E next \in {"BOGUS_COMMENT", "DOCTYPE", "CDATA"} : NextChar(next) \/ Reconsume(next)
    BY <1>2, InIsTheState DEF BeginsBogusComment, BeginsDoctype, BeginsCdata
  <2> QED BY <1>1, <2>1, StatesOfNoTag, NothingSaidOnReading
<1>3. CASE ReadsComment
  <2>1. In(state) /\ state' \in CommentStates /\ NextChar(state')
    BY <1>3 DEF ReadsComment
  <2> QED BY <2>1, StatesOfNoTag, NothingSaidOnReading
<1>4. CASE ReadsDoctype
  <2>1. In(state) /\ state' \in DoctypeStates \union {"BOGUS_DOCTYPE"} /\ (NextChar(state') \/ Reconsume(state'))
    BY <1>4 DEF ReadsDoctype
  <2> QED BY <2>1, StatesOfNoTag, NothingSaidOnReading
<1>5. CASE BeginsComment
  <2>1. TwoDashes /\ AdvanceTo(pos + 2) /\ state' = "COMMENT_START" /\ tokens' = tokens
    BY <1>5 DEF BeginsComment, outputVars
  <2>2. InputOK /\ pos \in 1 .. Len(source) /\ Len(source) \in Nat
    BY DEF IInv, InputOK
  <2>3. pos + 2 \in Nat /\ 1 <= pos + 2 /\ pos + 2 <= Len(source) + 1
    BY <2>1, <2>2 DEF TwoDashes
  <2>4. Reading
    BY <2>1, <2>2, <2>3, AdvanceToReads
  <2> QED BY <2>1, <2>4, StatesOfNoTag, NothingSaid
<1>6. CASE LeavesCdata
  <2>1. state' = "DATA" /\ Advance /\ tokens' = tokens
    BY <1>6 DEF LeavesCdata
  <2>2. Reading
    BY <2>1, AdvanceReads DEF IInv
  <2> QED BY <2>1, <2>2, StatesOfNoTag, NothingSaid
<1>7. CASE EmitsComment
  <2>1. In(state) /\ Emit("DATA", "comment", temporary) /\ state' = "DATA"
    BY <1>7 DEF EmitsComment, EmitComment, Emit
  <2> QED BY <2>1, StatesOfNoTag, NothingSaidOnEmitting
<1>8. CASE EmitsDoctype
  <2>1. In(state) /\ state' \in {"DATA", "BOGUS_DOCTYPE"} /\ \E d : Emit(state', "doctype", d)
    BY <1>8 DEF EmitsDoctype, EmitDoctype
  <2> QED BY <2>1, StatesOfNoTag, NothingSaidOnEmitting
<1>9. CASE EmitsCdata
  <2>1. In(state) /\ Emit("CDATA", CharType(Current), Current) /\ state' = "CDATA"
    BY <1>9, InIsTheState DEF EmitsCdata, EmitCurrentChar, Emit
  <2>2. CharType(Current) # "start"
    BY DEF CharType
  <2> QED BY <2>1, <2>2, StatesOfNoTag, NothingSaidOnEmitting
<1> QED BY <1>2, <1>3, <1>4, <1>5, <1>6, <1>7, <1>8, <1>9 DEF MarkupKind

\* What gumbo_lex emits before it comes to a handler, and what it looks at.
LEMMA AttributesKeptByTheRest ==
  ASSUME IInv, StreamInv, AttributesInv, EmitBuffered \/ FlushTemporary \/ LookAhead
  PROVE  AttributesInv'
PROOF
<1>1. CASE EmitBuffered
  <2>1. source' = source /\ state' = state /\ buffered # None /\ Finish("character", buffered)
    BY <1>1 DEF EmitBuffered
  <2>2. Reading /\ state \in Text
    BY <2>1 DEF Reading, IInv, InputOK, PendingText, Text, DataStates
  <2> QED BY <2>1, <2>2, StatesOfNoTag, NothingSaidOf
<1>2. CASE FlushTemporary
  <2>1. Advance /\ state' = state /\ emitAt # 0 /\ Finish("character", temporary[emitAt])
    BY <1>2 DEF FlushTemporary, EmitNext
  <2>2. Reading /\ state \in Text
    BY <2>1, AdvanceReads DEF IInv, PendingText
  <2> QED BY <2>1, <2>2, StatesOfNoTag, NothingSaidOf
<1>3. CASE LookAhead
  <2>1. /\ state = "MARKUP_DECLARATION" /\ tokens' = tokens /\ state' = state
        /\ \E u \in Following : source' = Append(source, u)
    BY <1>3 DEF LookAhead, In, outputVars
  <2>2. Reading
    <3>1. source \in Seq(Unit) /\ Following \subseteq Unit
      BY FollowingAreUnits DEF IInv, InputOK
    <3>2. PICK u \in Unit : source' = Append(source, u)
      BY <2>1, <3>1
    <3> QED BY <3>1, <3>2, Appended DEF Reading
  <2> QED BY <2>1, <2>2, StatesOfNoTag, NothingSaid
<1> QED BY <1>1, <1>2, <1>3

\* The parser sees the tokens, and nothing is read.
LEMMA NothingMoreSaid ==
  ASSUME AttributesInv, UNCHANGED <<state, source, pos, tokenStart, tag, tokens>>
  PROVE  AttributesInv'
PROOF
<1>1. /\ state' = state /\ source' = source /\ pos' = pos /\ tokenStart' = tokenStart
      /\ tag' = tag /\ tokens' = tokens
  OBVIOUS
<1>2. Read' = Read /\ Current' = Current
  BY <1>1, Zenon DEF Read, Current
<1>3. TagRead' /\ EndNames'
  BY <1>1, <1>2, Zenon DEF AttributesInv, TagRead, EndNames
<1>4. \A i : TextOf(i)' = TextOf(i)
  BY <1>1, Zenon DEF TextOf
<1>5. TokensSaid'
  BY <1>1, <1>4, Zenon DEF AttributesInv, TokensSaid
<1> QED BY <1>3, <1>5 DEF AttributesInv

LEMMA AttributesKeptByHandleToken ==
  ASSUME IInv, StreamInv, AttributesInv, HandleToken
  PROVE  AttributesInv'
PROOF
<1>1. UNCHANGED <<source, pos, tokenStart, tag>>
  BY DEF HandleToken, inputVars, tagVars
<1>2. CASE UNCHANGED <<state, tokens>>
  BY <1>1, <1>2, NothingMoreSaid
<1>3. CASE /\ Last.value.name \in DOMAIN TextStates
           /\ state' = TextStates[Last.value.name]
           /\ tokens' = [tokens EXCEPT ![Len(tokens)].then = state']
  <2>1. tokens \in Seq(Token) /\ tokens # <<>>
    BY DEF HandleToken, IInv, OutputOK
  <2>2. state' \in {"RCDATA", "RAWTEXT", "SCRIPT", "PLAINTEXT"}
    BY <1>3, TextStatesAssumption
  <2>3. /\ Len(tokens') = Len(tokens)
        /\ \A i \in 1 .. Len(tokens) :
              /\ tokens'[i].type = tokens[i].type /\ tokens'[i].value = tokens[i].value
              /\ tokens'[i].from = tokens[i].from /\ tokens'[i].to = tokens[i].to
    BY <1>3, <2>1, <2>2, TokenIsMarked
  <2>4. \A i \in 1 .. Len(tokens) : TextOf(i)' = TextOf(i)
    BY <1>1, <2>3 DEF TextOf
  <2>5. TokensSaid'
    BY <2>3, <2>4, Zenon DEF AttributesInv, TokensSaid
  <2>6. state' \in NotInATag
    BY <2>2, StatesOfNoTag DEF Text, DataStates
  <2> QED BY <2>5, <2>6, NoTagIsRead DEF AttributesInv, NotInATag
<1> QED BY <1>2, <1>3 DEF HandleToken

\* Where a tag begins or the end tag of a text is read, no tag is open but that one.
LEMMA OpeningStates ==
  ASSUME OpeningHandler
  PROVE  state \in Openers
PROOF
<1>1. TagOpenState \/ EndTagOpenState => state \in Openers
  BY DEF TagOpenState, EndTagOpenState, In, Openers, LtStates, EndTagOpenStates
<1>2. \A s, name, text : TextEndTagOpen(s, name, text) => state = s
  BY DEF TextEndTagOpen, In
<1>3. \A s, text : TextEndTagName(s, text) => state = s
  BY Zenon DEF TextEndTagName, In
<1>4. \/ RcdataEndTagOpenState \/ RawtextEndTagOpenState \/ ScriptEndTagOpenState \/ ScriptEscapedEndTagOpenState
        => state \in EndTagOpenStates
  BY <1>2 DEF RcdataEndTagOpenState, RawtextEndTagOpenState, ScriptEndTagOpenState,
     ScriptEscapedEndTagOpenState, EndTagOpenStates
<1>5. \/ RcdataEndTagNameState \/ RawtextEndTagNameState \/ ScriptEndTagNameState \/ ScriptEscapedEndTagNameState
        => state \in EndTagNameStates
  BY <1>3 DEF RcdataEndTagNameState, RawtextEndTagNameState, ScriptEndTagNameState,
     ScriptEscapedEndTagNameState, EndTagNameStates
<1> QED BY <1>1, <1>4, <1>5 DEF OpeningHandler, Openers

LEMMA AttributesKept ==
  ASSUME IInv, StreamInv, AttributesInv, [Next]_vars
  PROVE  AttributesInv'
PROOF
<1>1. CASE TextHandler
  <2>1. CASE TextKind
    BY <2>1, AttributesKeptByText
  <2>2. CASE OpeningHandler
    <3>1. TextKind \/ OpeningKind
      BY <1>1, TextSteps
    <3>2. state \notin TagStates
      BY <2>2, OpeningStates, ClassesAreDisjoint
    <3> QED BY <3>1, <3>2, AttributesKeptByText, AttributesKeptByBeginnings, AttributesKeptByBeginsTag,
               AttributesKeptByEndTag, AttributesKeptByEmitsTag DEF OpeningKind
  <2>3. CASE PlainTextHandler /\ KeepTag
    <3>1. KeepDoctypeAndCdata
      BY <1>1 DEF TextHandler, KeepDoctypeAndCdata
    <3>2. TextKind
      BY <2>3, <3>1, DataSteps, LtSteps, ScriptSteps DEF PlainTextHandler
    <3> QED BY <2>1, <3>2
  <2> QED BY <1>1, <2>2, <2>3 DEF TextHandler
<1>2. CASE TagHandler
  BY <1>2, TagSteps, AttributesKeptByReadsTag, AttributesKeptByEmitsTag, AttributesKeptByBeginnings DEF TagKind
<1>3. CASE MarkupDeclarationState \/ CdataState \/ CommentHandler \/ DoctypeHandler
  BY <1>3, MarkupDeclarationSteps, CommentSteps, DoctypeSteps, AttributesKeptByMarkup
<1>4. CASE HandleToken
  BY <1>4, AttributesKeptByHandleToken
<1>5. CASE EmitBuffered \/ FlushTemporary \/ LookAhead
  BY <1>5, AttributesKeptByTheRest
<1>6. CASE UNCHANGED vars
  BY <1>6, NothingMoreSaid DEF vars, inputVars, tagVars, outputVars
<1> QED BY <1>1, <1>2, <1>3, <1>4, <1>5, <1>6, Zenon DEF Next

LEMMA NoAttributesYet ==
  ASSUME Init
  PROVE  AttributesInv
PROOF
<1>1. state = "DATA" /\ tokens = <<>>
  BY DEF Init
<1>2. TagRead /\ EndNames
  BY <1>1 DEF TagRead, EndNames, TagStates, EndTagNameStates
<1>3. Len(tokens) = 0
  BY <1>1
<1>4. TokensSaid
  BY <1>3 DEF TokensSaid
<1> QED BY <1>2, <1>4 DEF AttributesInv

\* What a tag has of the attributes written so far is theirs, in every state of a tag, and what a
\* tag that was emitted has is what its text says.
THEOREM AttributesInvariance == Spec => []AttributesInv
PROOF
<1>1. Init => AttributesInv
  BY NoAttributesYet
<1>2. IInv /\ StreamInv /\ AttributesInv /\ [Next]_vars => AttributesInv'
  BY AttributesKept
<1> QED BY <1>1, <1>2, StreamInvariance, PTL DEF Spec

\* No attribute is given twice, and in a start tag without quotes, references and slashes every name
\* gives an attribute, in small letters, with the value that is written behind the first of its kind,
\* and nothing else gives one (finish_attribute_name, finish_attribute_value): the value of a
\* repeated name is dropped and that of the next is not.  It holds for a tag of any length, with any
\* number of attributes.
THEOREM FirstAttributes == Spec => []AttributesAreTheFirst
PROOF
<1>1. IInv /\ AttributesInv => AttributesAreTheFirst
  <2> SUFFICES ASSUME IInv, AttributesInv PROVE AttributesAreTheFirst
    OBVIOUS
  <2>1. \A i \in 1 .. Len(tokens) : tokens[i].type = "start" =>
          Distinct(tokens[i].value.attributes) /\ Said(TextOf(i), tokens[i].value.attributes)
    BY DEF IInv, NamesAreDistinct, AttributesInv, TokensSaid
  <2> QED BY <2>1, Zenon DEF AttributesAreTheFirst, Said, IsWritten
<1> QED BY <1>1, StreamInvariance, AttributesInvariance, PTL
=============================================================================
