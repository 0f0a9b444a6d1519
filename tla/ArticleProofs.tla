---------------------------- MODULE ArticleProofs ----------------------------
(***************************************************************************)
(* For every document, of any size and nesting, and every monotone filter: *)
(* the stacks, the flags and the builders follow the path of open elements *)
(* and no callback throws but for a link (IInv); each word of the article  *)
(* has the styles of the elements it stood in and no link of another, each *)
(* text is labelled by an element its words stood in, nothing inside a     *)
(* rejected element leaves a trace, and the source indexes increase in     *)
(* document order.  On well nested pages every element has one place and   *)
(* the article reads as the page: ArticleDocument refines ArticleStream.   *)
(***************************************************************************)
EXTENDS ArticleDocument, SequenceTheorems, WellFoundedInduction, TLAPS

-----------------------------------------------------------------------------
(***************************************************************************)
(* Lemmas about the builders, elements and the text of the transformer.    *)
(***************************************************************************)

(***************************************************************************)
(* Sequences over a larger set.                                            *)
(***************************************************************************)

\* A sequence over a set is one over every larger set.
LEMMA SeqGrows ==
  ASSUME NEW S, NEW T, S \subseteq T
  PROVE  Seq(S) \subseteq Seq(T)
OBVIOUS

\* A builder that refers to elements of S still refers to elements of a larger set.
LEMMA BuilderGrows ==
  ASSUME NEW S, NEW T, S \subseteq T
  PROVE  Builder(S) \subseteq Builder(T)
<1>1. Seq(S) \subseteq Seq(T)
  BY SeqGrows
<1>2. Seq(Seq(S)) \subseteq Seq(Seq(T))
  BY <1>1, SeqGrows
<1>3. Seq(Seq(Seq(S))) \subseteq Seq(Seq(Seq(T)))
  BY <1>2, SeqGrows
<1> QED
  BY <1>1, <1>2, <1>3 DEF Builder

\* An element that refers to elements of S still refers to elements of a larger set.
LEMMA ElementGrows ==
  ASSUME NEW S, NEW T, S \subseteq T
  PROVE  ArticleElement(S) \subseteq ArticleElement(T)
<1>1. Seq(Seq(S)) \subseteq Seq(Seq(T))
  BY SeqGrows
<1>2. Seq(Seq(Seq(S))) \subseteq Seq(Seq(Seq(T)))
  BY <1>1, SeqGrows
<1> QED
  BY <1>1, <1>2 DEF ArticleElement

\* The last entry of a non-empty sequence, and what is left of the sequence without it.
LEMMA LastFront ==
  ASSUME NEW S, NEW s \in Seq(S), s # <<>>
  PROVE  /\ Last(s) \in S
         /\ Last(s) = s[Len(s)]
         /\ Front(s) \in Seq(S)
         /\ Len(Front(s)) = Len(s) - 1
         /\ \A i \in 1 .. Len(s) - 1 : Front(s)[i] = s[i]
<1>1. Len(s) \in Nat /\ Len(s) >= 1
  OBVIOUS
<1>2. Last(s) = s[Len(s)] /\ s[Len(s)] \in S
  BY <1>1 DEF Last
<1>3. Front(s) = SubSeq(s, 1, Len(s) - 1)
  BY DEF Front
<1>4. PICK n \in Nat : n = Len(s) - 1
  BY <1>1
<1>5. \A i \in 1 .. n : s[i] \in S
  BY <1>1, <1>4
<1>6. /\ SubSeq(s, 1, n) \in Seq(S)
      /\ Len(SubSeq(s, 1, n)) = n
      /\ \A i \in 1 .. n : SubSeq(s, 1, n)[i] = s[i]
  BY <1>5, SubSeqProperties, SMT
<1> QED
  BY <1>2, <1>3, <1>4, <1>6

\* A sequence with one more entry: the entry is last and the others stay.
LEMMA Appended ==
  ASSUME NEW S, NEW s \in Seq(S), NEW x \in S
  PROVE  /\ Append(s, x) \in Seq(S)
         /\ Len(s) \in Nat /\ Len(Append(s, x)) = Len(s) + 1
         /\ Append(s, x)[Len(s) + 1] = x
         /\ \A i \in 1 .. Len(s) : Append(s, x)[i] = s[i]
OBVIOUS

\* What a callback may do to the builder stack, by the kinds of the builders on it.
KeepsStack(o, p) ==
  /\ IsOutput(p)
  /\ Len(p.builders) = Len(o.builders)
  /\ \A k \in 1 .. Len(o.builders) : p.builders[k].kind = o.builders[k].kind

PushesBuilder(o, p, kind) ==
  /\ IsOutput(p)
  /\ Len(p.builders) = Len(o.builders) + 1
  /\ \A k \in 1 .. Len(o.builders) : p.builders[k].kind = o.builders[k].kind
  /\ p.builders[Len(p.builders)].kind = kind

PopsBuilder(o, p) ==
  /\ IsOutput(p)
  /\ Len(p.builders) = Len(o.builders) - 1
  /\ \A k \in 1 .. Len(o.builders) - 1 : p.builders[k].kind = o.builders[k].kind

-----------------------------------------------------------------------------
\* addElement on a builder keeps the builder well typed and of its class.
LEMMA AddedType ==
  ASSUME NEW R, NEW b \in Builder(R), NEW kind, NEW ref \in R
  PROVE  Added(b, kind, ref) \in Builder(R) /\ Added(b, kind, ref).kind = b.kind
<1>1. CASE b.kind \in {"Root", "Item"}
  <2>1. b \in [kind: {"Root", "Item"}, content: Seq(R)]
    BY <1>1 DEF Builder
  <2>2. Added(b, kind, ref) = [b EXCEPT !.content = Append(@, ref)]
    BY <1>1 DEF Added
  <2>3. Append(b.content, ref) \in Seq(R)
    BY <2>1
  <2> QED
    BY <2>1, <2>2, <2>3 DEF Builder
<1>2. CASE b.kind = "Table"
  <2>1. b \in [kind: {"Table"}, ids: SUBSET Name, sourceIndex: Nat,
               rows: Seq(Seq(Seq(R))), row: Seq(Seq(R)), cell: Seq(R)]
    BY <1>2 DEF Builder
  <2>2. Added(b, kind, ref) = [b EXCEPT !.cell = Append(@, ref)]
    BY <1>2 DEF Added
  <2>3. Append(b.cell, ref) \in Seq(R)
    BY <2>1
  <2> QED
    BY <2>1, <2>2, <2>3 DEF Builder
<1>3. CASE b.kind = "List"
  <2>1. b \in [kind: {"List"}, isOrdered: BOOLEAN, ids: SUBSET Name, sourceIndex: Nat,
               items: Seq(Seq(R))]
    BY <1>3 DEF Builder
  <2>2. Added(b, kind, ref) \in {b, [b EXCEPT !.items = Append(@, <<ref>>)]}
    BY <1>3 DEF Added
  <2>3. Append(b.items, <<ref>>) \in Seq(Seq(R))
    BY <2>1
  <2> QED
    BY <2>1, <2>2, <2>3 DEF Builder
<1> QED
  BY <1>1, <1>2, <1>3 DEF Builder

\* addElement() changes the top builder only, and not its class.
LEMMA AddElementKeeps ==
  ASSUME NEW o, IsOutput(o), o.builders # <<>>, NEW ref \in 1 .. Len(o.built)
  PROVE  /\ KeepsStack(o, AddElement(o, ref))
         /\ AddElement(o, ref).built = o.built
<1> DEFINE b == Added(o.builders[Len(o.builders)], o.built[ref].kind, ref)
<1>1. Len(o.builders) \in 1 .. Len(o.builders) /\ o.builders \in Seq(Builder(1 .. Len(o.built)))
  BY DEF IsOutput, Output
<1>2. o.builders[Len(o.builders)] \in Builder(1 .. Len(o.built))
  BY <1>1
<1>3. b \in Builder(1 .. Len(o.built)) /\ b.kind = o.builders[Len(o.builders)].kind
  BY <1>2, AddedType
<1> HIDE DEF b
<1>4. AddElement(o, ref) = [o EXCEPT !.builders = [o.builders EXCEPT ![Len(o.builders)] = b]]
  BY DEF AddElement, IsOutput, Output, b
<1>5. [o.builders EXCEPT ![Len(o.builders)] = b] \in Seq(Builder(1 .. Len(o.built)))
  BY <1>1, <1>3
<1> DEFINE bs == [o.builders EXCEPT ![Len(o.builders)] = b]
<1>6. Len(bs) = Len(o.builders) /\ \A k \in 1 .. Len(o.builders) : bs[k].kind = o.builders[k].kind
  BY <1>1, <1>3
<1> HIDE DEF bs
<1>7. AddElement(o, ref) = [o EXCEPT !.builders = bs] /\ bs \in Seq(Builder(1 .. Len(o.built)))
  BY <1>4, <1>5 DEF bs
<1>8. /\ AddElement(o, ref) \in Output(Len(o.built))
      /\ AddElement(o, ref).builders = bs
      /\ AddElement(o, ref).built = o.built
  BY <1>7 DEF IsOutput, Output
<1> QED
  BY <1>6, <1>8 DEF KeepsStack, IsOutput

\* Adding an element just built keeps the builders below and the class of the top one.
LEMMA NewElementKeeps ==
  ASSUME NEW o, IsOutput(o), o.builders # <<>>, NEW element \in ArticleElement(1 .. Len(o.built))
  PROVE  KeepsStack(o, AddNewElement(o, element))
<1> DEFINE n == Len(o.built)
           p == [o EXCEPT !.built = Append(@, element)]
<1>1. n \in Nat /\ 1 .. n \subseteq 1 .. (n + 1) /\ n + 1 \in 1 .. (n + 1)
  BY DEF IsOutput, Output
<1>2. element \in ArticleElement(1 .. (n + 1)) /\ o.built \in Seq(ArticleElement(1 .. (n + 1)))
  BY <1>1, ElementGrows, SeqGrows DEF IsOutput, Output
<1>3. /\ Append(o.built, element) \in Seq(ArticleElement(1 .. (n + 1)))
      /\ Len(Append(o.built, element)) = n + 1
  BY <1>2
<1>4. o.builders \in Seq(Builder(1 .. (n + 1)))
  BY <1>1, BuilderGrows, SeqGrows DEF IsOutput, Output
<1>5. p.builders = o.builders /\ p.built = Append(o.built, element)
  BY DEF IsOutput, Output
<1>6. p \in Output(n + 1)
  BY <1>3, <1>4 DEF IsOutput, Output
<1>7. IsOutput(p)
  BY <1>3, <1>5, <1>6 DEF IsOutput
<1>8. n + 1 \in 1 .. Len(p.built)
  BY <1>1, <1>3, <1>5
<1> HIDE DEF p
<1>9. KeepsStack(p, AddElement(p, n + 1))
  BY <1>5, <1>7, <1>8, AddElementKeeps
<1>10. AddNewElement(o, element) = AddElement(p, n + 1)
  BY DEF AddNewElement, p
<1> QED
  BY <1>5, <1>9, <1>10 DEF KeepsStack

\* Counting one more source index changes nothing else.
LEMMA CounterStep ==
  ASSUME NEW o, IsOutput(o)
  PROVE  LET p == [o EXCEPT !.sourceIndexCounter = @ + 1]
         IN  IsOutput(p) /\ p.builders = o.builders /\ p.built = o.built /\ p.text = o.text
BY DEF IsOutput, Output

\* Emitting an element with its source index keeps the stack of builders.
LEMMA EmitKeeps ==
  ASSUME NEW o, IsOutput(o), o.builders # <<>>, NEW element \in ArticleElement(1 .. Len(o.built))
  PROVE  KeepsStack(o, EmitElement(o, element))
<1> DEFINE p == [o EXCEPT !.sourceIndexCounter = @ + 1]
<1>1. IsOutput(p) /\ p.builders = o.builders /\ p.built = o.built
  BY CounterStep
<1>2. EmitElement(o, element) = AddNewElement(p, element)
  BY DEF EmitElement
<1> HIDE DEF p
<1>3. KeepsStack(p, AddNewElement(p, element))
  BY <1>1, NewElementKeeps
<1> QED
  BY <1>1, <1>2, <1>3 DEF KeepsStack

\* Pushing a builder adds exactly that builder to mBuilderStack.
LEMMA PushPushes ==
  ASSUME NEW o, IsOutput(o), NEW b \in Builder(1 .. Len(o.built))
  PROVE  /\ PushesBuilder(o, PushBuilder(o, b), b.kind)
         /\ PushesBuilder(o, PushIndexedBuilder(o, b), b.kind)
<1> DEFINE bs == Append(o.builders, b)
<1>1. /\ bs \in Seq(Builder(1 .. Len(o.built)))
      /\ Len(bs) = Len(o.builders) + 1
      /\ \A k \in 1 .. Len(o.builders) : bs[k] = o.builders[k]
      /\ bs[Len(bs)] = b
  BY DEF IsOutput, Output
<1> HIDE DEF bs
<1>2. PushBuilder(o, b) = [o EXCEPT !.builders = bs]
  BY DEF PushBuilder, bs
<1>3. /\ PushBuilder(o, b) \in Output(Len(o.built))
      /\ PushBuilder(o, b).builders = bs
      /\ PushBuilder(o, b).built = o.built
  BY <1>1, <1>2 DEF IsOutput, Output
<1>4. IsOutput(PushBuilder(o, b))
  BY <1>3 DEF IsOutput
<1>5. /\ IsOutput(PushIndexedBuilder(o, b))
      /\ PushIndexedBuilder(o, b).builders = bs
  BY <1>3, <1>4, CounterStep DEF PushIndexedBuilder
<1> QED
  BY <1>1, <1>3, <1>4, <1>5 DEF PushesBuilder

-----------------------------------------------------------------------------
(* Rows and cells. *)

\* Appending a part unless it is empty keeps a sequence of sequences.
LEMMA AppendIfAnyType ==
  ASSUME NEW S, NEW seq \in Seq(Seq(S)), NEW part \in Seq(S)
  PROVE  AppendIfAny(seq, part) \in Seq(Seq(S))
BY DEF AppendIfAny

\* startNewRow() and startNewCell() keep a table builder well typed.
LEMMA RowCellType ==
  ASSUME NEW R, NEW b \in Builder(R), b.kind = "Table"
  PROVE  /\ StartNewRow(b) \in Builder(R) /\ StartNewRow(b).kind = "Table"
         /\ StartNewRow(b).rows \in Seq(Seq(Seq(R)))
         /\ StartNewCell(b) \in Builder(R) /\ StartNewCell(b).kind = "Table"
<1> DEFINE TableType == [kind: {"Table"}, ids: SUBSET Name, sourceIndex: Nat,
                         rows: Seq(Seq(Seq(R))), row: Seq(Seq(R)), cell: Seq(R)]
<1>1. b \in TableType /\ TableType \subseteq Builder(R)
  BY DEF Builder
<1>2. AppendIfAny(b.row, b.cell) \in Seq(Seq(R))
  BY <1>1, AppendIfAnyType
<1>3. AppendIfAny(b.rows, AppendIfAny(b.row, b.cell)) \in Seq(Seq(Seq(R)))
  BY <1>1, <1>2, AppendIfAnyType
<1>4. <<>> \in Seq(R) /\ <<>> \in Seq(Seq(R))
  OBVIOUS
<1>5. StartNewRow(b) \in TableType
  BY <1>1, <1>3, <1>4 DEF StartNewRow
<1>6. StartNewCell(b) \in TableType
  BY <1>1, <1>2, <1>4 DEF StartNewCell
<1> QED
  BY <1>1, <1>5, <1>6

\* Replacing the top builder by one of its class keeps the stack of builders.
LEMMA ReplaceTopKeeps ==
  ASSUME NEW o, IsOutput(o), o.builders # <<>>, NEW b \in Builder(1 .. Len(o.built)),
         b.kind = Last(o.builders).kind
  PROVE  KeepsStack(o, [o EXCEPT !.builders[Len(o.builders)] = b])
<1> DEFINE bs == [o.builders EXCEPT ![Len(o.builders)] = b]
<1>1. Len(o.builders) \in 1 .. Len(o.builders) /\ o.builders \in Seq(Builder(1 .. Len(o.built)))
  BY DEF IsOutput, Output
<1>2. bs \in Seq(Builder(1 .. Len(o.built)))
  BY <1>1
<1>3. Len(bs) = Len(o.builders) /\ \A k \in 1 .. Len(o.builders) : bs[k].kind = o.builders[k].kind
  BY <1>1 DEF Last
<1>4. [o EXCEPT !.builders[Len(o.builders)] = b] = [o EXCEPT !.builders = bs]
  BY DEF IsOutput, Output
<1> HIDE DEF bs
<1> DEFINE p == [o EXCEPT !.builders = bs]
<1>5. p \in Output(Len(o.built)) /\ p.builders = bs /\ p.built = o.built
  BY <1>2 DEF IsOutput, Output
<1> QED
  BY <1>3, <1>4, <1>5 DEF KeepsStack, IsOutput
-----------------------------------------------------------------------------
(* Finishing a builder. *)

\* The elements the items of a list refer to are those its builder held.
LEMMA RefsInItems ==
  ASSUME NEW R, NEW items \in Seq(Seq(R))
  PROVE  RefsOfItems(items) \subseteq R
BY DEF RefsOfItems

\* build() of a list or table builder returns a well typed element.
LEMMA BuiltContainerType ==
  ASSUME NEW n \in Nat, NEW built \in Seq(ArticleElement(1 .. n)), Len(built) = n,
         NEW b \in Builder(1 .. n), b.kind \in {"List", "Table"}
  PROVE  BuiltContainer(b, built) \in ArticleElement(1 .. n)
<1>1. \A r \in 1 .. n : built[r].ids \in SUBSET Name
  BY DEF ArticleElement
<1>2. CASE b.kind = "List"
  <2>1. b \in [kind: {"List"}, isOrdered: BOOLEAN, ids: SUBSET Name, sourceIndex: Nat,
               items: Seq(Seq(1 .. n))]
    BY <1>2 DEF Builder
  <2>2. RefsOfItems(b.items) \subseteq 1 .. n
    BY <2>1, RefsInItems
  <2>3. b.ids \union UNION {built[r].ids : r \in RefsOfItems(b.items)} \in SUBSET Name
    BY <1>1, <2>1, <2>2
  <2> QED
    BY <1>2, <2>1, <2>3 DEF BuiltContainer, ArticleElement
<1>3. CASE b.kind = "Table"
  <2> DEFINE rows == StartNewRow(b).rows
  <2>1. b.ids \in SUBSET Name /\ b.sourceIndex \in Nat
    BY <1>3 DEF Builder
  <2>2. rows \in Seq(Seq(Seq(1 .. n)))
    BY <1>3, RowCellType
  <2> HIDE DEF rows
  <2>3. ASSUME NEW i \in DOMAIN rows
        PROVE  RefsOfItems(rows[i]) \subseteq 1 .. n
    <3>1. rows[i] \in Seq(Seq(1 .. n))
      BY <2>2
    <3> QED
      BY <3>1, RefsInItems
  <2>4. RefsOfRows(rows) \subseteq 1 .. n
    BY <2>3 DEF RefsOfRows
  <2>5. b.ids \union UNION {built[r].ids : r \in RefsOfRows(rows)} \in SUBSET Name
    BY <1>1, <2>1, <2>4
  <2>6. BuiltContainer(b, built) =
          [kind |-> "ContentTable", sourceIndex |-> b.sourceIndex,
           ids |-> b.ids \union UNION {built[r].ids : r \in RefsOfRows(rows)}, rows |-> rows]
    BY <1>3 DEF BuiltContainer, rows
  <2> QED
    BY <2>1, <2>2, <2>5, <2>6 DEF ArticleElement
<1> QED
  BY <1>2, <1>3

\* The output without the builder on top.
LEMMA BelowTop ==
  ASSUME NEW o, IsOutput(o), Len(o.builders) > 1
  PROVE  LET below == [o EXCEPT !.builders = Front(@)]
         IN  /\ PopsBuilder(o, below)
             /\ below.builders # <<>>
             /\ below.built = o.built
             /\ Last(o.builders) \in Builder(1 .. Len(o.built))
             /\ Last(o.builders).kind = o.builders[Len(o.builders)].kind
<1> DEFINE below == [o EXCEPT !.builders = Front(@)]
<1>1. o.builders \in Seq(Builder(1 .. Len(o.built))) /\ o.builders # <<>>
  BY DEF IsOutput, Output
<1>2. /\ Last(o.builders) \in Builder(1 .. Len(o.built))
      /\ Last(o.builders) = o.builders[Len(o.builders)]
      /\ Front(o.builders) \in Seq(Builder(1 .. Len(o.built)))
      /\ Len(Front(o.builders)) = Len(o.builders) - 1
      /\ \A k \in 1 .. Len(o.builders) - 1 : Front(o.builders)[k] = o.builders[k]
  BY <1>1, LastFront
<1>3. below \in Output(Len(o.built)) /\ below.builders = Front(o.builders) /\ below.built = o.built
  BY <1>2 DEF IsOutput, Output
<1>4. Front(o.builders) # <<>>
  BY <1>1, <1>2
<1> QED
  BY <1>2, <1>3, <1>4 DEF PopsBuilder, IsOutput

\* Finishing a builder that is not at the bottom removes exactly that builder.
LEMMA FinishBuilderPops ==
  ASSUME NEW o, IsOutput(o), Len(o.builders) > 1,
         Last(o.builders).kind \in {"List", "Table"}
             \/ (Last(o.builders).kind = "Item" /\ Last(o.builders).content # <<>>)
  PROVE  PopsBuilder(o, FinishBuilder(o))
<1> DEFINE below == [o EXCEPT !.builders = Front(@)]
           b == Last(o.builders)
<1>1. /\ PopsBuilder(o, below)
      /\ below.builders # <<>>
      /\ below.built = o.built
      /\ b \in Builder(1 .. Len(o.built))
  BY BelowTop
<1>2. IsOutput(below)
  BY <1>1 DEF PopsBuilder
<1>3. FinishBuilder(o) = IF b.kind = "Item" THEN AddElement(below, b.content[1])
                                           ELSE AddNewElement(below, BuiltContainer(b, o.built))
  BY DEF FinishBuilder
<1> HIDE DEF below, b
<1>4. CASE b.kind = "Item"
  <2>1. b.content \in Seq(1 .. Len(o.built)) /\ b.content # <<>>
    BY <1>1, <1>4 DEF Builder, b
  <2>2. b.content[1] \in 1 .. Len(below.built)
    BY <1>1, <2>1
  <2>3. KeepsStack(below, FinishBuilder(o))
    BY <1>1, <1>2, <1>3, <1>4, <2>2, AddElementKeeps
  <2> QED
    BY <1>1, <2>3 DEF KeepsStack, PopsBuilder
<1>5. CASE b.kind \in {"List", "Table"}
  <2>1. o.built \in Seq(ArticleElement(1 .. Len(o.built))) /\ Len(o.built) \in Nat
    BY DEF IsOutput, Output
  <2>2. BuiltContainer(b, o.built) \in ArticleElement(1 .. Len(below.built))
    BY <1>1, <1>5, <2>1, BuiltContainerType
  <2>3. KeepsStack(below, FinishBuilder(o))
    BY <1>1, <1>2, <1>3, <1>5, <2>2, NewElementKeeps
  <2> QED
    BY <1>1, <2>3 DEF KeepsStack, PopsBuilder
<1> QED
  BY <1>4, <1>5 DEF b

\* Finishing an item removes its builder, whether or not the item is empty.
LEMMA FinishItemPops ==
  ASSUME NEW o, IsOutput(o), Len(o.builders) > 1, Last(o.builders).kind = "Item"
  PROVE  PopsBuilder(o, FinishItem(o))
<1> DEFINE below == [o EXCEPT !.builders = Front(@)]
           item == Last(o.builders).content
           R == 1 .. Len(o.built)
<1>1. /\ PopsBuilder(o, below)
      /\ below.builders # <<>>
      /\ below.built = o.built
      /\ Last(o.builders) \in Builder(R)
  BY BelowTop
<1>2. IsOutput(below) /\ item \in Seq(R)
  BY <1>1 DEF PopsBuilder, Builder
<1> DEFINE list == Last(below.builders)
           longer == [list EXCEPT !.items = Append(@, item)]
<1>3. list \in Builder(R) /\ list = below.builders[Len(below.builders)]
  BY <1>1, <1>2, LastFront DEF IsOutput, Output
<1> HIDE DEF below, item
<1>4. CASE list.kind = "List"
  <2>1. list \in [kind: {"List"}, isOrdered: BOOLEAN, ids: SUBSET Name, sourceIndex: Nat,
                  items: Seq(Seq(R))]
    BY <1>3, <1>4 DEF Builder
  <2>2. Append(list.items, item) \in Seq(Seq(R))
    BY <1>2, <2>1
  <2>3. longer \in Builder(R) /\ longer.kind = "List"
    BY <2>1, <2>2 DEF Builder
  <2>4. FinishItem(o) =
          [below EXCEPT !.builders[Len(below.builders)].items = Append(@, item)]
    BY <1>4 DEF FinishItem, below, item
  <2>5. @ = [below EXCEPT !.builders[Len(below.builders)] = longer]
    BY <1>3
  <2> HIDE DEF longer
  <2>6. KeepsStack(below, FinishItem(o))
    BY <1>1, <1>2, <1>4, <2>3, <2>4, <2>5, ReplaceTopKeeps
  <2> QED
    BY <1>1, <2>6 DEF KeepsStack, PopsBuilder
<1>5. CASE list.kind # "List"
  BY <1>1, <1>5 DEF FinishItem, below
<1> QED
  BY <1>4, <1>5

-----------------------------------------------------------------------------
(* The text being built. *)

\* The ids an element gets are names.
LEMMA IdsType ==
  ASSUME NEW ids \in Seq(Name)
  PROVE  NonEmptyIds(ids) \in SUBSET Name
<1>1. \A i \in DOMAIN ids : ids[i] \in Name
  OBVIOUS
<1> QED
  BY <1>1 DEF NonEmptyIds

\* flushTextBlock() keeps the stack of builders.
LEMMA FlushKeeps ==
  ASSUME TransformerTypeOK, output.builders # <<>>
  PROVE  KeepsStack(output, FlushText)
<1> DEFINE cleared == [output EXCEPT !.text = EmptyText]
           element == FlushedElement(output.text)
<1>1. IsOutput(output) /\ EmptyText \in Text
  BY DEF TransformerTypeOK, EmptyText, Text
<1>2. /\ IsOutput(cleared)
      /\ cleared.builders = output.builders
      /\ cleared.built = output.built
  BY <1>1 DEF IsOutput, Output
<1>3. IdsInForce \in SUBSET Name
  <2>1. idStack \in Seq(Name)
    BY DEF TransformerTypeOK
  <2> QED
    BY <2>1, IdsType DEF IdsInForce
<1>4. CurrentTag \in Name
  <2>1. tagStack \in Seq(Name)
    BY DEF TransformerTypeOK
  <2>2. CASE tagStack = <<>>
    BY <2>2 DEF CurrentTag, NoTag, Name
  <2>3. CASE tagStack # <<>>
    <3>1. Last(tagStack) \in Name
      BY <2>1, <2>3, LastFront
    <3> QED
      BY <2>3, <3>1 DEF CurrentTag
  <2> QED
    BY <2>2, <2>3
<1>5. output.text.words \in Seq(Word) /\ output.sourceIndexCounter \in Nat
  BY <1>1 DEF IsOutput, Output, Text
<1>6. element \in ArticleElement(1 .. Len(cleared.built))
  BY <1>3, <1>4, <1>5 DEF FlushedElement, ArticleElement
<1> HIDE DEF cleared, element
<1>7. KeepsStack(cleared, EmitElement(cleared, element))
  BY <1>2, <1>6, EmitKeeps
<1>8. FlushText \in {output, cleared, EmitElement(cleared, element)}
  BY DEF FlushText, cleared, element
<1>9. KeepsStack(output, output)
  BY <1>1 DEF KeepsStack
<1> QED
  BY <1>2, <1>7, <1>8, <1>9 DEF KeepsStack

\* The flush before a tag keeps the stack of builders, for every tag.
LEMMA FlushedKeeps ==
  ASSUME TransformerTypeOK, output.builders # <<>>, NEW tag
  PROVE  KeepsStack(output, Flushed(tag)) /\ Flushed(tag).builders # <<>>
<1>1. KeepsStack(output, Flushed(tag))
  BY FlushKeeps DEF Flushed, KeepsStack, TransformerTypeOK
<1>2. Len(output.builders) \in Nat \ {0}
  BY DEF TransformerTypeOK, IsOutput, Output
<1> QED
  BY <1>1, <1>2 DEF KeepsStack

\* The entries of a sequence over S are in S.
LEMMA RangeType ==
  ASSUME NEW S, NEW s \in Seq(S)
  PROVE  Range(s) \in SUBSET S
<1>1. \A i \in DOMAIN s : s[i] \in S
  OBVIOUS
<1> QED
  BY <1>1 DEF Range

\* Replacing the pending text keeps the stack of builders.
LEMMA TextReplaced ==
  ASSUME NEW o, IsOutput(o), NEW t \in Text
  PROVE  KeepsStack(o, [o EXCEPT !.text = t])
BY DEF KeepsStack, IsOutput, Output

\* A text keeps its type when a word is appended to it.
LEMMA WordAppended ==
  ASSUME NEW o, IsOutput(o), NEW n \in Nat, NEW styles \in SUBSET Styles
  PROVE  KeepsStack(o, [o EXCEPT !.text.words =
                          Append(@, [n |-> n, styles |-> styles, links |-> Range(o.text.links)])])
<1> DEFINE word == [n |-> n, styles |-> styles, links |-> Range(o.text.links)]
           t == [o.text EXCEPT !.words = Append(@, word)]
<1>1. o.text \in Text
  BY DEF IsOutput, Output
<1>2. word \in Word
  <2>1. o.text.links \in Seq(STRING)
    BY <1>1 DEF Text
  <2> QED
    BY <2>1, RangeType DEF Word
<1> HIDE DEF word
<1>3. Append(o.text.words, word) \in Seq(Word)
  BY <1>1, <1>2 DEF Text
<1>4. t \in Text
  BY <1>1, <1>3 DEF Text
<1>5. [o EXCEPT !.text.words = Append(@, word)] = [o EXCEPT !.text = t]
  BY <1>1 DEF IsOutput, Output
<1> HIDE DEF t
<1>6. KeepsStack(o, [o EXCEPT !.text.words = Append(@, word)])
  BY <1>4, <1>5, TextReplaced
<1> QED
  BY <1>6 DEF word

\* Setting the blank at the end of the pending text keeps the stack of builders.
LEMMA BlankSet ==
  ASSUME NEW o, IsOutput(o), NEW blank \in {"none", "space", "lines"}
  PROVE  KeepsStack(o, [o EXCEPT !.text.blank = blank])
<1> DEFINE t == [o.text EXCEPT !.blank = blank]
<1>1. o.text \in Text
  BY DEF IsOutput, Output
<1>2. t \in Text
  BY <1>1 DEF Text
<1>3. [o EXCEPT !.text.blank = blank] = [o EXCEPT !.text = t]
  BY <1>1 DEF IsOutput, Output
<1> HIDE DEF t
<1> QED
  BY <1>2, <1>3, TextReplaced

\* Setting the open links keeps the stack of builders.
LEMMA LinksSet ==
  ASSUME NEW o, IsOutput(o), NEW links \in Seq(STRING)
  PROVE  KeepsStack(o, [o EXCEPT !.text.links = links])
<1> DEFINE t == [o.text EXCEPT !.links = links]
<1>1. o.text \in Text
  BY DEF IsOutput, Output
<1>2. t \in Text
  BY <1>1 DEF Text
<1>3. [o EXCEPT !.text.links = links] = [o EXCEPT !.text = t]
  BY <1>1 DEF IsOutput, Output
<1> HIDE DEF t
<1> QED
  BY <1>2, <1>3, TextReplaced

\* The quotation mark of <q> keeps the stack of builders.
LEMMA QuoteMarkKeeps ==
  ASSUME NEW o, IsOutput(o)
  PROVE  KeepsStack(o, AppendQuoteMark(o))
BY WordAppended DEF AppendQuoteMark

\* The line break of <br> keeps the stack of builders.
LEMMA LineBreakKeeps ==
  ASSUME NEW o, IsOutput(o)
  PROVE  KeepsStack(o, AppendLineBreak(o))
BY BlankSet DEF AppendLineBreak

\* Closing a link keeps the stack of builders.
LEMMA PopLinkKeeps ==
  ASSUME NEW o, IsOutput(o)
  PROVE  KeepsStack(o, PopLink(o))
<1> DEFINE links == IF o.text.links = <<>> THEN o.text.links ELSE Front(o.text.links)
<1>1. o.text.links \in Seq(STRING)
  BY DEF IsOutput, Output, Text
<1>2. links \in Seq(STRING)
  BY <1>1, LastFront
<1>3. PopLink(o) = [o EXCEPT !.text.links = links]
  BY DEF PopLink, IsOutput, Output, Text
<1> HIDE DEF links
<1> QED
  BY <1>2, <1>3, LinksSet

\* Opening a link keeps the stack of builders.
LEMMA PushLinkKeeps ==
  ASSUME NEW o, IsOutput(o), NEW href \in STRING
  PROVE  KeepsStack(o, [o EXCEPT !.text.links = Append(@, href)])
<1> DEFINE links == Append(o.text.links, href)
<1>1. links \in Seq(STRING)
  BY DEF IsOutput, Output, Text
<1>2. [o EXCEPT !.text.links = Append(@, href)] = [o EXCEPT !.text.links = links]
  BY DEF IsOutput, Output, Text
<1> HIDE DEF links
<1> QED
  BY <1>1, <1>2, LinksSet

-----------------------------------------------------------------------------
(* What the callbacks do to the builder stack. *)

\* A change that keeps the stack, followed by a keep, a push or a pop, is one itself.
LEMMA KeepsThen ==
  ASSUME NEW o, NEW p, NEW q, KeepsStack(o, p), Len(o.builders) \in Nat
  PROVE  /\ KeepsStack(p, q) => KeepsStack(o, q)
         /\ \A kind : PushesBuilder(p, q, kind) => PushesBuilder(o, q, kind)
         /\ PopsBuilder(p, q) => PopsBuilder(o, q)
BY DEF KeepsStack, PushesBuilder, PopsBuilder

\* The output after the flush that precedes what a tag does.
LEMMA FlushedIsOutput ==
  ASSUME TransformerTypeOK, output.builders # <<>>, NEW tag
  PROVE  /\ KeepsStack(output, Flushed(tag))
         /\ IsOutput(Flushed(tag))
         /\ Flushed(tag).builders # <<>>
         /\ Len(Flushed(tag).builders) = Len(output.builders)
         /\ Len(output.builders) \in Nat \ {0}
         /\ Flushed(tag).sourceIndexCounter \in Nat
         /\ Last(Flushed(tag).builders) \in Builder(1 .. Len(Flushed(tag).built))
         /\ Last(Flushed(tag).builders) = Flushed(tag).builders[Len(output.builders)]
         /\ Last(Flushed(tag).builders).kind = output.builders[Len(output.builders)].kind
<1>1. KeepsStack(output, Flushed(tag)) /\ Flushed(tag).builders # <<>>
  BY FlushedKeeps
<1>2. IsOutput(Flushed(tag)) /\ Len(Flushed(tag).builders) = Len(output.builders)
  BY <1>1 DEF KeepsStack
<1>3. Len(output.builders) \in Nat \ {0}
  BY DEF TransformerTypeOK, IsOutput, Output
<1>4. /\ Flushed(tag).builders \in Seq(Builder(1 .. Len(Flushed(tag).built)))
      /\ Flushed(tag).sourceIndexCounter \in Nat
  BY <1>2 DEF IsOutput, Output
<1>5. /\ Last(Flushed(tag).builders) \in Builder(1 .. Len(Flushed(tag).built))
      /\ Last(Flushed(tag).builders) = Flushed(tag).builders[Len(output.builders)]
  BY <1>1, <1>2, <1>4, LastFront
<1> QED
  BY <1>1, <1>2, <1>3, <1>4, <1>5 DEF KeepsStack

\* onStartTag of a list, an item or a table pushes a builder of its class.
LEMMA StartPushes ==
  ASSUME TransformerTypeOK, output.builders # <<>>, NEW e \in ElementType
  PROVE  /\ StartList(e) => PushesBuilder(output, output', "List")
         /\ StartItem(e) => PushesBuilder(output, output', "Item")
         /\ StartTable(e) => PushesBuilder(output, output', "Table")
<1> DEFINE o == Flushed(e.tag)
<1>1. KeepsStack(output, o) /\ IsOutput(o) /\ Len(output.builders) \in Nat /\ o.sourceIndexCounter \in Nat
  BY FlushedIsOutput
<1>2. IdsWith(e) \in SUBSET Name
  <2>1. Append(idStack, e.id) \in Seq(Name)
    BY DEF TransformerTypeOK, ElementType
  <2> QED
    BY <2>1, IdsType DEF IdsWith
<1> HIDE DEF o
<1>3. ASSUME NEW b \in Builder(1 .. Len(o.built))
      PROVE  /\ PushesBuilder(output, PushBuilder(o, b), b.kind)
             /\ PushesBuilder(output, PushIndexedBuilder(o, b), b.kind)
  BY <1>1, PushPushes, KeepsThen
<1>4. StartList(e) => PushesBuilder(output, output', "List")
  <2> DEFINE b == ListBuilder(o, e.tag, IdsWith(e))
  <2>1. b \in Builder(1 .. Len(o.built)) /\ b.kind = "List"
    BY <1>1, <1>2 DEF ListBuilder, Builder
  <2>2. StartList(e) => output' = PushIndexedBuilder(o, b)
    BY DEF StartList, o
  <2> HIDE DEF b
  <2> QED
    BY <1>3, <2>1, <2>2
<1>5. StartItem(e) => PushesBuilder(output, output', "Item")
  <2>1. ListItemBuilder \in Builder(1 .. Len(o.built)) /\ ListItemBuilder.kind = "Item"
    BY DEF ListItemBuilder, Builder
  <2>2. StartItem(e) => output' = PushBuilder(o, ListItemBuilder)
    BY DEF StartItem, o
  <2> QED
    BY <1>3, <2>1, <2>2
<1>6. StartTable(e) => PushesBuilder(output, output', "Table")
  <2> DEFINE b == TableBuilder(o, IdsWith(e))
  <2>1. b \in Builder(1 .. Len(o.built)) /\ b.kind = "Table"
    BY <1>1, <1>2 DEF TableBuilder, Builder
  <2>2. StartTable(e) => output' = PushIndexedBuilder(o, b)
    BY DEF StartTable, o
  <2> HIDE DEF b
  <2> QED
    BY <1>3, <2>1, <2>2
<1> QED
  BY <1>4, <1>5, <1>6

\* Every other start tag that is taken in.
StartsNoBuilder(e) ==
  \/ StartRow(e) \/ StartCell(e) \/ StartQuotation(e) \/ StartBreak(e)
  \/ StartImage(e) \/ StartAnchor(e) \/ StartPlain(e)

\* onStartTag of any other tag leaves the stack of builders alone.
LEMMA StartKeeps ==
  ASSUME TransformerTypeOK, output.builders # <<>>, NEW e \in ElementType, StartsNoBuilder(e)
  PROVE  KeepsStack(output, output')
<1> DEFINE o == Flushed(e.tag)
           top == Last(o.builders)
<1>1. /\ KeepsStack(output, o) /\ IsOutput(o) /\ o.builders # <<>>
      /\ Len(output.builders) \in Nat /\ o.sourceIndexCounter \in Nat
      /\ top \in Builder(1 .. Len(o.built))
      /\ top = o.builders[Len(o.builders)]
  BY FlushedIsOutput
<1> HIDE DEF o, top
<1>2. KeepsStack(o, output') => KeepsStack(output, output')
  BY <1>1, KeepsThen
<1>3. KeepsStack(o, o)
  BY <1>1 DEF KeepsStack
<1>4. CASE StartRow(e)
  <2>1. CASE top.kind = "Table"
    <3> DEFINE b == StartNewRow(top)
    <3>1. b \in Builder(1 .. Len(o.built)) /\ b.kind = top.kind
      BY <1>1, <2>1, RowCellType
    <3>2. output' = [o EXCEPT !.builders[Len(o.builders)] = b]
      BY <1>1, <1>4, <2>1 DEF StartRow, TopIsTable, o, top
    <3> HIDE DEF b
    <3> QED
      BY <1>1, <1>2, <3>1, <3>2, ReplaceTopKeeps DEF top
  <2>2. CASE top.kind # "Table"
    BY <1>1, <1>4, <2>2 DEF StartRow, TopIsTable, o, top
  <2> QED
    BY <2>1, <2>2
<1>5. CASE StartCell(e)
  <2>1. CASE top.kind = "Table"
    <3> DEFINE b == StartNewCell(top)
    <3>1. b \in Builder(1 .. Len(o.built)) /\ b.kind = top.kind
      BY <1>1, <2>1, RowCellType
    <3>2. output' = [o EXCEPT !.builders[Len(o.builders)] = b]
      BY <1>1, <1>5, <2>1 DEF StartCell, TopIsTable, o, top
    <3> HIDE DEF b
    <3> QED
      BY <1>1, <1>2, <3>1, <3>2, ReplaceTopKeeps DEF top
  <2>2. CASE top.kind # "Table"
    BY <1>1, <1>5, <2>2 DEF StartCell, TopIsTable, o, top
  <2> QED
    BY <2>1, <2>2
<1>6. CASE StartQuotation(e)
  BY <1>1, <1>2, <1>6, QuoteMarkKeeps DEF StartQuotation, o
<1>7. CASE StartBreak(e)
  BY <1>1, <1>2, <1>7, LineBreakKeeps DEF StartBreak, o
<1>8. CASE StartImage(e)
  <2> DEFINE image == [kind |-> "Image", sourceIndex |-> o.sourceIndexCounter, ids |-> IdsWith(e)]
  <2>1. Append(idStack, e.id) \in Seq(Name)
    BY DEF TransformerTypeOK, ElementType
  <2>2. IdsWith(e) \in SUBSET Name
    BY <2>1, IdsType DEF IdsWith
  <2>3. image \in ArticleElement(1 .. Len(o.built))
    BY <1>1, <2>2 DEF ArticleElement
  <2>4. output' \in {EmitElement(o, image), o}
    BY <1>8 DEF StartImage, o
  <2> HIDE DEF image
  <2> QED
    BY <1>1, <1>2, <1>3, <2>3, <2>4, EmitKeeps
<1>9. CASE StartAnchor(e)
  <2>1. output' \in {output, [output EXCEPT !.text.links = Append(@, e.href)]}
    BY <1>9 DEF StartAnchor
  <2>2. IsOutput(output) /\ e.href \in STRING
    BY DEF TransformerTypeOK, ElementType
  <2>3. KeepsStack(output, output)
    BY <2>2 DEF KeepsStack
  <2> QED
    BY <2>1, <2>2, <2>3, PushLinkKeeps
<1>10. CASE StartPlain(e)
  BY <1>1, <1>10 DEF StartPlain, o
<1> QED
  BY <1>4, <1>5, <1>6, <1>7, <1>8, <1>9, <1>10 DEF StartsNoBuilder

\* onEndTag of a tag without a builder leaves the stack of builders alone.
LEMMA EndKeeps ==
  ASSUME TransformerTypeOK, output.builders # <<>>, NEW e \in ElementType,
         EndQuotation(e) \/ EndAnchor(e) \/ EndPlain(e)
  PROVE  KeepsStack(output, output')
<1> DEFINE o == Flushed(e.tag)
<1>1. /\ KeepsStack(output, o) /\ IsOutput(o)
      /\ Len(output.builders) \in Nat
  BY FlushedIsOutput
<1> HIDE DEF o
<1>2. KeepsStack(o, output') => KeepsStack(output, output')
  BY <1>1, KeepsThen
<1>3. CASE EndQuotation(e)
  BY <1>1, <1>2, <1>3, QuoteMarkKeeps DEF EndQuotation, o
<1>4. CASE EndAnchor(e)
  <2>1. IsOutput(output)
    BY DEF TransformerTypeOK
  <2> QED
    BY <1>4, <2>1, PopLinkKeeps DEF EndAnchor
<1>5. CASE EndPlain(e)
  BY <1>1, <1>5 DEF EndPlain, o
<1> QED
  BY <1>3, <1>4, <1>5

\* An end tag that finds the builder of its kind takes it off.
LEMMA EndPops ==
  ASSUME TransformerTypeOK, Len(output.builders) > 1, NEW e \in ElementType
  PROVE  LET kind == output.builders[Len(output.builders)].kind
         IN  /\ EndItem(e) => PopsBuilder(output, output')
             /\ EndContainer(e) /\ kind \in {"List", "Table"} => PopsBuilder(output, output')
<1> DEFINE o == Flushed(e.tag)
           kind == output.builders[Len(output.builders)].kind
<1>1. output.builders # <<>>
  BY DEF TransformerTypeOK, IsOutput, Output
<1>2. /\ KeepsStack(output, o) /\ IsOutput(o)
      /\ Len(output.builders) \in Nat
      /\ Len(o.builders) > 1
      /\ Last(o.builders).kind = kind
  BY <1>1, FlushedIsOutput
<1> HIDE DEF o, kind
<1>3. PopsBuilder(o, output') => PopsBuilder(output, output')
  BY <1>2, KeepsThen
<1>4. ASSUME EndItem(e)
      PROVE  PopsBuilder(output, output')
  <2>1. Last(o.builders).kind = "Item" /\ output' = FinishItem(o)
    BY <1>4 DEF EndItem, o
  <2> QED
    BY <1>2, <1>3, <2>1, FinishItemPops
<1>5. ASSUME EndContainer(e), kind \in {"List", "Table"}
      PROVE  PopsBuilder(output, output')
  <2>1. output' = FinishBuilder(o)
    BY <1>2, <1>5 DEF EndContainer, o
  <2> QED
    BY <1>2, <1>3, <1>5, <2>1, FinishBuilderPops
<1> QED
  BY <1>4, <1>5 DEF kind

\* onText leaves the stack of builders alone.
LEMMA TextKeeps ==
  ASSUME TransformerTypeOK, NEW n \in Nat, NEW textKind \in TextKinds, OnText(textKind, n)
  PROVE  KeepsStack(output, output')
<1>1. IsOutput(output)
  BY DEF TransformerTypeOK
<1>2. KeepsStack(output, output)
  BY <1>1 DEF KeepsStack
<1>3. CASE TextIgnored \/ TextOfTitle(textKind, n)
  BY <1>2, <1>3 DEF TextIgnored, TextOfTitle, transformerVars
<1>4. CASE TextOfBody(textKind, n) /\ textKind = "word"
  <2>1. Range(styleStack) \in SUBSET Styles
    BY RangeType DEF TransformerTypeOK
  <2>2. output' = [output EXCEPT !.text.words =
               Append(@, [n |-> n, styles |-> Range(styleStack), links |-> Range(output.text.links)])]
    BY <1>4 DEF TextOfBody
  <2> QED
    BY <1>1, <2>1, <2>2, WordAppended
<1>5. CASE TextOfBody(textKind, n) /\ textKind # "word"
  <2> DEFINE blank == IF output.text.blank = "lines" THEN "lines" ELSE textKind
  <2>1. blank \in {"none", "space", "lines"}
    BY <1>5 DEF TextKinds
  <2>2. output' = [output EXCEPT !.text.blank = blank]
    BY <1>1, <1>5 DEF TextOfBody, IsOutput, Output, Text
  <2> HIDE DEF blank
  <2> QED
    BY <1>1, <2>1, <2>2, BlankSet
<1> QED
  BY <1>3, <1>4, <1>5 DEF OnText

\* transform() returns what the root holds.
LEMMA FinishType ==
  ASSUME TransformerTypeOK, output.builders # <<>>,
         output.builders[Len(output.builders)].kind = "Root",
         TransformerFinish
  PROVE  IsOutput(output') /\ article' \in Seq(1 .. Len(output'.built))
<1> DEFINE o == FlushText
           top == Last(o.builders)
           rest == [o EXCEPT !.builders = Front(@)]
<1>1. KeepsStack(output, o)
  BY FlushKeeps
<1>2. Len(output.builders) \in Nat \ {0}
  BY DEF TransformerTypeOK, IsOutput, Output
<1>3. /\ IsOutput(o)
      /\ o.builders \in Seq(Builder(1 .. Len(o.built)))
      /\ o.builders # <<>>
      /\ o.builders[Len(o.builders)].kind = "Root"
  BY <1>1, <1>2 DEF KeepsStack, IsOutput, Output
<1>4. /\ top \in Builder(1 .. Len(o.built))
      /\ top.kind = "Root"
      /\ Front(o.builders) \in Seq(Builder(1 .. Len(o.built)))
  BY <1>3, LastFront
<1>5. output' = rest /\ article' = top.content
  BY <1>4 DEF TransformerFinish
<1> HIDE DEF o, top
<1>6. IsOutput(rest) /\ rest.built = o.built
  BY <1>3, <1>4 DEF IsOutput, Output
<1>7. top.content \in Seq(1 .. Len(o.built))
  BY <1>4 DEF Builder
<1> HIDE DEF rest
<1> QED
  BY <1>5, <1>6, <1>7

-----------------------------------------------------------------------------
(***************************************************************************)
(* Lists of positions.                                                     *)
(***************************************************************************)

\* The list f with p after its k entries, and f without its last entry.
Extended(f, k, p) == [i \in 1 .. k + 1 |-> IF i = k + 1 THEN p ELSE f[i]]
Shortened(f, k) == [i \in 1 .. k - 1 |-> f[i]]

\* What a sequence enumerates is in the set it enumerates.
LEMMA EnumerationRange ==
  ASSUME NEW k \in Nat, NEW C, NEW f, Enumerates(f, k, C), NEW i \in 1 .. k
  PROVE  f[i] \in C
BY DEF Enumerates

\* The entries of a sequence with one more, and with one less.
LEMMA EntriesOf ==
  ASSUME NEW k \in Nat, NEW f, NEW p
  PROVE  /\ \A i \in 1 .. k : Extended(f, k, p)[i] = f[i]
         /\ Extended(f, k, p)[k + 1] = p
         /\ \A i \in 1 .. k - 1 : Shortened(f, k)[i] = f[i]
BY DEF Extended, Shortened

\* A position above all others goes to the end of the list ...
LEMMA EnumerationGrows ==
  ASSUME NEW k \in Nat, NEW C \in SUBSET Nat, NEW f, Enumerates(f, k, C),
         NEW p \in Nat, \A c \in C : c < p
  PROVE  Enumerates(Extended(f, k, p), k + 1, C \union {p})
<1> DEFINE g == Extended(f, k, p)
<1>1. \A i \in 1 .. k : f[i] \in C
  BY DEF Enumerates
<1>2. g \in [1 .. k + 1 -> C \union {p}]
  BY <1>1 DEF Extended
<1>3. (\A i \in 1 .. k : g[i] = f[i]) /\ g[k + 1] = p
  BY DEF Extended
<1> HIDE DEF g
<1>5. ASSUME NEW i \in 1 .. k + 1, NEW j \in 1 .. k + 1, i < j
      PROVE  g[i] < g[j]
  <2>1. CASE j = k + 1
    <3>1. i \in 1 .. k /\ g[i] \in C
      BY <1>1, <1>3, <1>5, <2>1
    <3> QED
      BY <1>3, <2>1, <3>1
  <2>2. CASE j # k + 1
    BY <1>3, <1>5, <2>2 DEF Enumerates
  <2> QED
    BY <2>1, <2>2
<1>6. ASSUME NEW c \in C \union {p}
      PROVE  \E i \in 1 .. k + 1 : g[i] = c
  BY <1>3 DEF Enumerates
<1>7. Enumerates(g, k + 1, C \union {p})
  BY <1>2, <1>5, <1>6 DEF Enumerates
<1> QED
  BY <1>7 DEF g

\* ... and is the last of the list when it goes.
LEMMA EnumerationLast ==
  ASSUME NEW k \in Nat, NEW C \in SUBSET Nat, NEW f, Enumerates(f, k, C),
         NEW p \in C, \A c \in C : c <= p
  PROVE  k > 0 /\ f[k] = p
<1>1. PICK m \in 1 .. k : f[m] = p
  BY DEF Enumerates
<1>2. k > 0 /\ f[k] \in C
  BY <1>1 DEF Enumerates
<1>3. m = k
  <2>1. SUFFICES ASSUME m < k
                 PROVE  FALSE
    BY <1>1
  <2>2. f[m] < f[k]
    BY <1>2, <2>1 DEF Enumerates
  <2>3. f[k] <= p /\ f[k] \in Nat /\ p \in Nat
    BY <1>2
  <2> QED
    BY <1>1, <2>2, <2>3
<1> QED
  BY <1>1, <1>2, <1>3

\* Dropping the largest position of an enumeration enumerates the others.
LEMMA EnumerationShrinks ==
  ASSUME NEW k \in Nat, NEW C \in SUBSET Nat, NEW f, Enumerates(f, k, C),
         NEW p \in C, \A c \in C : c <= p
  PROVE  Enumerates(Shortened(f, k), k - 1, C \ {p})
<1> DEFINE g == Shortened(f, k)
<1>1. k > 0 /\ f[k] = p
  BY EnumerationLast
<1>4. \A i \in 1 .. k - 1 : f[i] \in C \ {p}
  BY <1>1 DEF Enumerates
<1>5. g \in [1 .. k - 1 -> C \ {p}] /\ \A i \in 1 .. k - 1 : g[i] = f[i]
  BY <1>4 DEF Shortened
<1> HIDE DEF g
<1>6. ASSUME NEW c \in C \ {p}
      PROVE  \E i \in 1 .. k - 1 : g[i] = c
  <2>1. PICK i \in 1 .. k : f[i] = c
    BY DEF Enumerates
  <2>2. i \in 1 .. k - 1
    BY <1>1, <2>1
  <2> QED
    BY <1>5, <2>1, <2>2
<1>7. Enumerates(g, k - 1, C \ {p})
  BY <1>1, <1>5, <1>6 DEF Enumerates
<1> QED
  BY <1>7 DEF g

(***************************************************************************)
(* BuildersMirrorPath for a given builder stack, path and set of positions *)
(* and what the three ways to change a builder stack do to it.             *)
(***************************************************************************)
BuildersMatch(builders, p, C) ==
  /\ builders # <<>>
  /\ builders[1].kind = "Root"
  /\ LET above == Len(builders) - 1
     IN  \E f :
           /\ Enumerates(f, above, C)
           /\ \A k \in 1 .. above : builders[k + 1].kind = BuilderKind(p[f[k]].tag)

\* Builders that match the open elements still do after a step that keeps both.
LEMMA MatchKept ==
  ASSUME NEW o, NEW o2, NEW p, NEW p2, NEW C,
         IsOutput(o), KeepsStack(o, o2), BuildersMatch(o.builders, p, C),
         \A i \in C : p2[i] = p[i]
  PROVE  BuildersMatch(o2.builders, p2, C)
<1> DEFINE above == Len(o.builders) - 1
<1>1. above \in Nat /\ Len(o2.builders) = Len(o.builders) /\ o2.builders # <<>>
  BY DEF IsOutput, Output, KeepsStack, BuildersMatch
<1>2. PICK f :
        /\ Enumerates(f, above, C)
        /\ \A k \in 1 .. above : o.builders[k + 1].kind = BuilderKind(p[f[k]].tag)
  BY DEF BuildersMatch
<1>3. ASSUME NEW k \in 1 .. above
      PROVE  o2.builders[k + 1].kind = BuilderKind(p2[f[k]].tag)
  <2>1. f[k] \in C
    BY <1>1, <1>2, EnumerationRange
  <2>2. o2.builders[k + 1].kind = o.builders[k + 1].kind
    BY <1>1 DEF KeepsStack
  <2> QED
    BY <1>2, <2>1, <2>2
<1>4. o2.builders[1].kind = "Root"
  BY <1>1 DEF KeepsStack, BuildersMatch
<1> QED
  BY <1>1, <1>2, <1>3, <1>4 DEF BuildersMatch

\* A builder pushed for the element just opened keeps the match.
LEMMA MatchPushed ==
  ASSUME NEW o, NEW o2, NEW p, NEW p2, NEW C \in SUBSET Nat, NEW n \in Nat,
         IsOutput(o), BuildersMatch(o.builders, p, C),
         PushesBuilder(o, o2, BuilderKind(p2[n].tag)),
         \A i \in C : i < n /\ p2[i] = p[i]
  PROVE  BuildersMatch(o2.builders, p2, C \union {n})
<1> DEFINE above == Len(o.builders) - 1
<1>1. /\ above \in Nat
      /\ Len(o.builders) = above + 1
      /\ Len(o2.builders) = above + 2
      /\ o2.builders # <<>>
  BY DEF IsOutput, Output, PushesBuilder, BuildersMatch
<1>2. PICK f :
        /\ Enumerates(f, above, C)
        /\ \A k \in 1 .. above : o.builders[k + 1].kind = BuilderKind(p[f[k]].tag)
  BY DEF BuildersMatch
<1> HIDE DEF above
<1> DEFINE g == Extended(f, above, n)
<1>3. /\ Enumerates(g, above + 1, C \union {n})
      /\ \A i \in 1 .. above : g[i] = f[i]
      /\ g[above + 1] = n
  BY <1>1, <1>2, EnumerationGrows, EntriesOf
<1> HIDE DEF g
<1>4. ASSUME NEW k \in 1 .. above + 1
      PROVE  o2.builders[k + 1].kind = BuilderKind(p2[g[k]].tag)
  <2>1. CASE k = above + 1
    BY <1>1, <1>3, <2>1 DEF PushesBuilder
  <2>2. CASE k # above + 1
    <3>1. k \in 1 .. above /\ k + 1 \in 1 .. Len(o.builders)
      BY <1>1, <2>2
    <3>2. g[k] = f[k] /\ f[k] \in C
      BY <1>1, <1>2, <1>3, <3>1, EnumerationRange
    <3>3. o2.builders[k + 1].kind = o.builders[k + 1].kind
      BY <3>1 DEF PushesBuilder
    <3> QED
      BY <1>2, <3>1, <3>2, <3>3
  <2> QED
    BY <2>1, <2>2
<1>5. o2.builders[1].kind = "Root"
  BY <1>1 DEF PushesBuilder, BuildersMatch
<1>6. above + 1 = Len(o2.builders) - 1
  BY <1>1
<1> QED
  BY <1>1, <1>3, <1>4, <1>5, <1>6 DEF BuildersMatch

\* The top builder is that of the innermost container, and popping it keeps the match.
LEMMA MatchPopped ==
  ASSUME NEW o, NEW p, NEW C \in SUBSET Nat, NEW n \in C,
         IsOutput(o), BuildersMatch(o.builders, p, C), \A c \in C : c <= n
  PROVE  /\ Len(o.builders) > 1
         /\ o.builders[Len(o.builders)].kind = BuilderKind(p[n].tag)
         /\ \A o2, p2 : PopsBuilder(o, o2) /\ (\A i \in C \ {n} : p2[i] = p[i])
                          => BuildersMatch(o2.builders, p2, C \ {n})
<1> DEFINE above == Len(o.builders) - 1
<1>1. above \in Nat /\ Len(o.builders) = above + 1
  BY DEF IsOutput, Output, BuildersMatch
<1>2. PICK f :
        /\ Enumerates(f, above, C)
        /\ \A k \in 1 .. above : o.builders[k + 1].kind = BuilderKind(p[f[k]].tag)
  BY DEF BuildersMatch
<1> HIDE DEF above
<1>3. above > 0 /\ f[above] = n
  BY <1>1, <1>2, EnumerationLast
<1> DEFINE g == Shortened(f, above)
<1>4. /\ Enumerates(g, above - 1, C \ {n})
      /\ \A i \in 1 .. above - 1 : g[i] = f[i]
  <2>1. above \in Nat
    BY <1>1
  <2>2. Enumerates(g, above - 1, C \ {n})
    BY <1>2, <2>1, EnumerationShrinks
  <2>3. \A i \in 1 .. above - 1 : g[i] = f[i]
    BY <2>1, EntriesOf
  <2> QED
    BY <2>2, <2>3
<1> HIDE DEF g
<1>5. ASSUME NEW o2, NEW p2, PopsBuilder(o, o2), \A i \in C \ {n} : p2[i] = p[i]
      PROVE  BuildersMatch(o2.builders, p2, C \ {n})
  <2>1. Len(o2.builders) = above
    BY <1>1, <1>5 DEF PopsBuilder
  <2>2. o2.builders # <<>> /\ o2.builders[1].kind = "Root"
    <3>1. o.builders[1].kind = "Root"
      BY DEF BuildersMatch
    <3> QED
      BY <1>1, <1>3, <1>5, <2>1, <3>1 DEF PopsBuilder
  <2>3. ASSUME NEW k \in 1 .. above - 1
        PROVE  o2.builders[k + 1].kind = BuilderKind(p2[g[k]].tag)
    <3>1. k \in 1 .. above /\ k + 1 \in 1 .. Len(o.builders) - 1
      BY <1>1
    <3>2. g[k] = f[k] /\ g[k] \in C \ {n}
      BY <1>1, <1>3, <1>4, EnumerationRange
    <3>3. o2.builders[k + 1].kind = o.builders[k + 1].kind
      BY <1>5, <3>1 DEF PopsBuilder
    <3> QED
      BY <1>2, <1>5, <3>1, <3>2, <3>3
  <2> QED
    BY <1>4, <2>1, <2>2, <2>3 DEF BuildersMatch
<1>6. Len(o.builders) > 1 /\ o.builders[Len(o.builders)].kind = BuilderKind(p[n].tag)
  BY <1>1, <1>2, <1>3
<1> QED
  BY <1>5, <1>6

(***************************************************************************)
(* StacksMirrorPath for given stacks, and what a push and a pop do to it.  *)
(***************************************************************************)
StacksMatch(ids, tags, d, inBody, p, a) ==
  /\ Len(ids) = Len(tags)
  /\ d <= Len(ids)
  /\ \A i \in 1 .. d : ids[Len(ids) + 1 - i] = NoId
  /\ inBody => /\ Len(tags) - d - a >= -1
               /\ \A i \in 2 .. a : /\ tags[Len(tags) - d - a + i] = p[i].tag
                                    /\ ids[Len(tags) - d - a + i] = p[i].id

\* A rejected start tag puts one entry on both stacks and one on the depth.
LEMMA IgnoredPushed ==
  ASSUME NEW ids \in Seq(Name), NEW tags \in Seq(Name), NEW d \in Nat, NEW inBody, NEW p, NEW a \in Nat,
         StacksMatch(ids, tags, d, inBody, p, a), NEW q, \A i \in 2 .. a : q[i] = p[i], NEW tag \in Name
  PROVE  StacksMatch(Append(ids, NoId), Append(tags, tag), d + 1, inBody, q, a)
<1> DEFINE ids2 == Append(ids, NoId)
           tags2 == Append(tags, tag)
<1>1. PICK k \in Nat : k = Len(ids) /\ k = Len(tags)
  BY DEF StacksMatch
<1>2. /\ Len(ids2) = k + 1 /\ Len(tags2) = k + 1
      /\ ids2[k + 1] = NoId
      /\ \A i \in 1 .. k : ids2[i] = ids[i] /\ tags2[i] = tags[i]
  <2>1. NoId \in Name
    BY DEF NoId, Name
  <2>2. /\ Len(ids2) = Len(ids) + 1
        /\ ids2[Len(ids) + 1] = NoId
        /\ \A i \in 1 .. Len(ids) : ids2[i] = ids[i]
    BY <2>1, Appended
  <2>3. Len(tags2) = Len(tags) + 1 /\ \A i \in 1 .. Len(tags) : tags2[i] = tags[i]
    BY Appended
  <2> HIDE DEF ids2, tags2
  <2> QED
    BY <1>1, <2>2, <2>3
<1> HIDE DEF ids2, tags2
<1>3. ASSUME NEW i \in 1 .. d + 1
      PROVE  ids2[k + 2 - i] = NoId
  <2>1. CASE i = 1
    BY <1>2, <2>1
  <2>2. CASE i # 1
    <3>1. i - 1 \in 1 .. d /\ k + 1 - (i - 1) \in 1 .. k /\ k + 2 - i = k + 1 - (i - 1)
      BY <1>1, <2>2 DEF StacksMatch
    <3>2. ids[k + 1 - (i - 1)] = NoId
      BY <1>1, <3>1 DEF StacksMatch
    <3> QED
      BY <1>2, <3>1, <3>2
  <2> QED
    BY <2>1, <2>2
<1>4. ASSUME inBody, NEW i \in 2 .. a
      PROVE  tags2[k - d - a + i] = q[i].tag /\ ids2[k - d - a + i] = q[i].id
  <2>1. k - d - a + i \in 1 .. k
    BY <1>1, <1>4 DEF StacksMatch
  <2>2. tags[k - d - a + i] = p[i].tag /\ ids[k - d - a + i] = p[i].id
    BY <1>1, <1>4 DEF StacksMatch
  <2> QED
    BY <1>2, <2>1, <2>2
<1>5. k + 1 - (d + 1) - a = k - d - a /\ d + 1 <= k + 1 /\ \A i \in 1 .. d + 1 : k + 1 + 1 - i = k + 2 - i
  BY <1>1 DEF StacksMatch
<1>6. inBody => k - d - a >= -1
  BY <1>1 DEF StacksMatch
<1>7. StacksMatch(ids2, tags2, d + 1, inBody, q, a)
  BY <1>2, <1>3, <1>4, <1>5, <1>6 DEF StacksMatch
<1> QED
  BY <1>7 DEF ids2, tags2

\* An accepted start tag puts its own tag and id on the stacks.
LEMMA EnteredPushed ==
  ASSUME NEW ids \in Seq(Name), NEW tags \in Seq(Name), NEW inBody, NEW p, NEW a \in Nat,
         StacksMatch(ids, tags, 0, inBody, p, a), NEW q, \A i \in 2 .. a : q[i] = p[i],
         NEW inBody2, inBody2 => inBody \/ a = 1,
         q[a + 1].tag \in Name, q[a + 1].id \in Name
  PROVE  StacksMatch(Append(ids, q[a + 1].id), Append(tags, q[a + 1].tag), 0, inBody2, q, a + 1)
<1> DEFINE ids2 == Append(ids, q[a + 1].id)
           tags2 == Append(tags, q[a + 1].tag)
<1>1. PICK k \in Nat : k = Len(ids) /\ k = Len(tags)
  BY DEF StacksMatch
<1>2. /\ Len(ids2) = k + 1 /\ Len(tags2) = k + 1
      /\ ids2[k + 1] = q[a + 1].id /\ tags2[k + 1] = q[a + 1].tag
      /\ \A i \in 1 .. k : ids2[i] = ids[i] /\ tags2[i] = tags[i]
  <2>1. /\ Len(ids2) = Len(ids) + 1
        /\ ids2[Len(ids) + 1] = q[a + 1].id
        /\ \A i \in 1 .. Len(ids) : ids2[i] = ids[i]
    BY Appended
  <2>2. /\ Len(tags2) = Len(tags) + 1
        /\ tags2[Len(tags) + 1] = q[a + 1].tag
        /\ \A i \in 1 .. Len(tags) : tags2[i] = tags[i]
    BY Appended
  <2> HIDE DEF ids2, tags2
  <2> QED
    BY <1>1, <2>1, <2>2
<1> HIDE DEF ids2, tags2
<1>3. inBody2 => k - a >= -1
  BY <1>1 DEF StacksMatch
<1>4. ASSUME inBody2, NEW i \in 2 .. a + 1
      PROVE  tags2[k - a + i] = q[i].tag /\ ids2[k - a + i] = q[i].id
  <2>1. CASE i = a + 1
    <3>1. k - a + i = k + 1
      BY <2>1
    <3> QED
      BY <1>2, <2>1, <3>1
  <2>2. CASE i # a + 1
    <3>1. inBody /\ i \in 2 .. a /\ k - a + i \in 1 .. k
      BY <1>3, <1>4, <2>2
    <3>2. tags[k - a + i] = p[i].tag /\ ids[k - a + i] = p[i].id
      BY <1>1, <3>1 DEF StacksMatch
    <3> QED
      BY <1>2, <3>1, <3>2
  <2> QED
    BY <2>1, <2>2
<1>5. k + 1 - 0 - (a + 1) = k - a /\ 0 <= k + 1
  BY <1>1
<1>6. StacksMatch(ids2, tags2, 0, inBody2, q, a + 1)
  BY <1>2, <1>3, <1>4, <1>5 DEF StacksMatch
<1> QED
  BY <1>6 DEF ids2, tags2

\* An end tag inside a rejected element takes one entry off the stacks and the depth.
LEMMA IgnoredPopped ==
  ASSUME NEW ids \in Seq(Name), NEW tags \in Seq(Name), NEW d \in Nat, d > 0, NEW inBody, NEW p,
         NEW a \in Nat, StacksMatch(ids, tags, d, inBody, p, a), NEW q, \A i \in 2 .. a : q[i] = p[i]
  PROVE  /\ ids # <<>> /\ tags # <<>>
         /\ StacksMatch(Front(ids), Front(tags), d - 1, inBody, q, a)
<1> DEFINE ids2 == Front(ids)
           tags2 == Front(tags)
<1>1. PICK k \in Nat : k = Len(ids) /\ k = Len(tags)
  BY DEF StacksMatch
<1>2. d <= k /\ ids # <<>> /\ tags # <<>>
  BY <1>1 DEF StacksMatch
<1>3. /\ Len(ids2) = k - 1 /\ Len(tags2) = k - 1
      /\ \A i \in 1 .. k - 1 : ids2[i] = ids[i] /\ tags2[i] = tags[i]
  BY <1>1, <1>2, LastFront
<1> HIDE DEF ids2, tags2
<1>4. ASSUME NEW i \in 1 .. d - 1
      PROVE  ids2[k - 1 + 1 - i] = NoId
  <2>1. i + 1 \in 1 .. d /\ k + 1 - (i + 1) \in 1 .. k - 1 /\ k - 1 + 1 - i = k + 1 - (i + 1)
    BY <1>2
  <2>2. ids[k + 1 - (i + 1)] = NoId
    BY <1>1, <2>1 DEF StacksMatch
  <2> QED
    BY <1>3, <2>1, <2>2
<1>5. inBody => k - d - a >= -1
  BY <1>1 DEF StacksMatch
<1>6. ASSUME inBody, NEW i \in 2 .. a
      PROVE  tags2[k - d - a + i] = q[i].tag /\ ids2[k - d - a + i] = q[i].id
  <2>1. k - d - a + i \in 1 .. k - 1
    BY <1>5, <1>6
  <2>2. tags[k - d - a + i] = p[i].tag /\ ids[k - d - a + i] = p[i].id
    BY <1>1, <1>6 DEF StacksMatch
  <2> QED
    BY <1>3, <2>1, <2>2
<1>7. k - 1 - (d - 1) - a = k - d - a /\ d - 1 <= k - 1
  BY <1>2
<1>8. StacksMatch(ids2, tags2, d - 1, inBody, q, a)
  BY <1>3, <1>4, <1>5, <1>6, <1>7 DEF StacksMatch
<1> QED
  BY <1>2, <1>8 DEF ids2, tags2

\* The end tag of an accepted element takes its own entry off the stacks.
LEMMA LeftPopped ==
  ASSUME NEW ids \in Seq(Name), NEW tags \in Seq(Name), NEW inBody, inBody, NEW p, NEW a \in Nat, a >= 3,
         StacksMatch(ids, tags, 0, inBody, p, a), NEW q, \A i \in 2 .. a - 1 : q[i] = p[i]
  PROVE  /\ ids # <<>> /\ tags # <<>>
         /\ StacksMatch(Front(ids), Front(tags), 0, inBody, q, a - 1)
<1> DEFINE ids2 == Front(ids)
           tags2 == Front(tags)
<1>1. PICK k \in Nat : k = Len(ids) /\ k = Len(tags)
  BY DEF StacksMatch
<1>2. k - a >= -1 /\ ids # <<>> /\ tags # <<>>
  BY <1>1 DEF StacksMatch
<1>3. /\ Len(ids2) = k - 1 /\ Len(tags2) = k - 1
      /\ \A i \in 1 .. k - 1 : ids2[i] = ids[i] /\ tags2[i] = tags[i]
  BY <1>1, <1>2, LastFront
<1> HIDE DEF ids2, tags2
<1>4. ASSUME NEW i \in 2 .. a - 1
      PROVE  tags2[k - a + i] = q[i].tag /\ ids2[k - a + i] = q[i].id
  <2>1. k - a + i \in 1 .. k - 1 /\ i \in 2 .. a /\ k - 0 - a + i = k - a + i
    BY <1>2
  <2>2. tags[k - a + i] = p[i].tag /\ ids[k - a + i] = p[i].id
    BY <1>1, <2>1 DEF StacksMatch
  <2> QED
    BY <1>3, <2>1, <2>2
<1>5. k - 1 - 0 - (a - 1) = k - a /\ 0 <= k - 1
  BY <1>2
<1>6. StacksMatch(ids2, tags2, 0, inBody, q, a - 1)
  BY <1>2, <1>3, <1>4, <1>5 DEF StacksMatch
<1> QED
  BY <1>2, <1>6 DEF ids2, tags2

-----------------------------------------------------------------------------
(***************************************************************************)
(* The inductive invariant.  What the properties need beside each other is *)
(* where the path can be in a document, that no title but one in the body  *)
(* has children, and that nothing is returned before the end.              *)
(***************************************************************************)
DocumentShape ==
  Running =>
    /\ Len(path) >= 1 => path[1] = HtmlNode
    /\ Len(path) >= 2 => path[2] \in {HeadNode, BodyNode}
    /\ \A i \in 3 .. Len(path) : path[i] \in IF InHead THEN HeadElements ELSE BodyElements

FlagsKnowTheirPlace ==
  Running =>
    /\ isInsideTitle /\ ~isInsideBody =>
         Len(path) >= 3 /\ InHead /\ Last(path).tag = "title" /\ ignoredTagDepth = 0
    /\ isInsideBlockquote \/ isInsidePreTag => isInsideBody
    /\ article = <<>>

IInv ==
  /\ TypeOK
  /\ DocumentShape
  /\ FlagsKnowTheirPlace
  /\ IgnoredDepthIsExact
  /\ FlagsMirrorPath
  /\ StacksMirrorPath
  /\ BuildersMirrorPath
  /\ OnlyLinksThrow

\* What Running makes of the invariant, in the terms of the lemmas above.
LEMMA MirrorIsMatch ==
  Running /\ BuildersMirrorPath => BuildersMatch(output.builders, path, OpenInBody(ContainerTags))
BY DEF BuildersMirrorPath, BuildersMatch, Enumerates

\* The match of the next state is the invariant BuildersMirrorPath there.
LEMMA MatchIsMirror ==
  ASSUME BuildersMatch(output.builders, path, OpenInBody(ContainerTags))'
  PROVE  BuildersMirrorPath'
BY DEF BuildersMirrorPath, BuildersMatch, Enumerates

StacksMatchPath == StacksMatch(idStack, tagStack, ignoredTagDepth, isInsideBody, path, AcceptedDepth)

\* While transform() runs, StacksMirrorPath is the match of stacks and path.
LEMMA StacksMirrorIsMatch ==
  Running /\ StacksMirrorPath => StacksMatchPath
BY DEF StacksMirrorPath, StacksMatchPath, StacksMatch

\* The match of the next state is the invariant StacksMirrorPath there.
LEMMA StacksMatchIsMirror ==
  ASSUME StacksMatchPath'
  PROVE  StacksMirrorPath'
BY DEF StacksMirrorPath, StacksMatchPath, StacksMatch

\* Every element of the document has a name and an id.
LEMMA ElementsAreTyped ==
  ASSUME NEW e \in Elements
  PROVE  e \in ElementType /\ e.tag \in Name /\ e.id \in Name
BY ElementsAssumption DEF ElementType

\* In a document of the right shape html is first, head or body second.
LEMMA ElementOfShape ==
  ASSUME IInv, Running, NEW i \in 1 .. Len(path)
  PROVE  /\ path[i] \in Elements
         /\ i = 1 => path[i].tag = "html"
         /\ i = 2 => path[i].tag \in {"head", "body"}
         /\ i > 2 => path[i].tag \notin {"html", "head", "body"}
         /\ path[i].tag = "body" <=> (i = 2 /\ path[2] = BodyNode)
<1>1. path[i] \in Elements /\ Len(path) \in Nat
  BY DEF IInv, TypeOK
<1>2. i = 1 => path[i].tag = "html"
  BY <1>1, DocumentAssumption DEF IInv, DocumentShape
<1>3. i = 2 => path[i] \in {HeadNode, BodyNode}
  BY <1>1 DEF IInv, DocumentShape
<1>4. i > 2 => path[i] \in HeadElements \union BodyElements
  <2>1. i > 2 => i \in 3 .. Len(path)
    BY <1>1
  <2> QED
    BY <2>1 DEF IInv, DocumentShape
<1>5. i > 2 => path[i].tag \notin {"html", "head", "body"}
  BY <1>4, DocumentAssumption
<1>6. HeadNode.tag = "head" /\ BodyNode.tag = "body"
  BY DocumentAssumption
<1> QED
  BY <1>1, <1>2, <1>3, <1>5, <1>6

\* The three cases of a depth.
LEMMA ZeroOneOrMore ==
  ASSUME NEW k \in Nat
  PROVE  k = 0 \/ k = 1 \/ k >= 2
OBVIOUS

-----------------------------------------------------------------------------
(* The walk. *)

\* A start tag puts its element at the end of the path.
LEMMA StartExtends ==
  ASSUME IInv, Running, NEW e \in Elements, Start(e)
  PROVE  /\ path' = Append(path, e)
         /\ path' \in Seq(Elements)
         /\ Len(path) \in Nat
         /\ Len(path') = Len(path) + 1
         /\ path'[Len(path) + 1] = e
         /\ \A i \in 1 .. Len(path) : path'[i] = path[i]
         /\ Last(path') = e
         /\ stage' \in Stages /\ stage' # "returned"
         /\ started' \in Nat
         /\ received' = received
<1>1. path \in Seq(Elements) /\ started \in Nat /\ stage \in Stages /\ stage # "returned"
  BY DEF IInv, TypeOK, Running
<1>2. path' = Append(path, e) /\ received' = received
  BY DEF Start
<1>3. stage' \in Stages /\ stage' # "returned" /\ started' \in Nat
  BY <1>1 DEF Start, Skeleton, Descendant, Stages
<1>4. /\ path' \in Seq(Elements)
      /\ path' # <<>>
      /\ Len(path) \in Nat
      /\ Len(path') = Len(path) + 1
      /\ path'[Len(path) + 1] = e
      /\ \A i \in 1 .. Len(path) : path'[i] = path[i]
  BY <1>1, <1>2
<1>5. Last(path') = e
  BY <1>4 DEF Last
<1> QED
  BY <1>1, <1>2, <1>3, <1>4, <1>5

\* Which element a start tag may be of, by the depth it comes at.
LEMMA StartPlace ==
  ASSUME IInv, Running, NEW e \in Elements, Start(e)
  PROVE  /\ Len(path) = 0 => e = HtmlNode
         /\ Len(path) = 1 => e \in {HeadNode, BodyNode}
         /\ Len(path) >= 2 => /\ e \in IF InHead THEN HeadElements ELSE BodyElements
                              /\ e \in HeadElements \union BodyElements
                              /\ <<Last(path).tag, e.tag>> \in Nesting
         /\ e.tag = "body" <=> (Len(path) = 1 /\ e = BodyNode)
         /\ e.tag = "title" => Len(path) >= 2
         /\ e.tag \in {"blockquote", "pre"} => Len(path) >= 2
<1>1. Skeleton(e) \/ Descendant(e)
  BY DEF Start
<1>2. path \in Seq(Elements)
  BY DEF IInv, TypeOK
<1>3. HtmlNode.tag = "html" /\ HeadNode.tag = "head" /\ BodyNode.tag = "body"
  BY DocumentAssumption
<1>4. CASE Skeleton(e)
  <2>1. \/ Len(path) = 0 /\ e = HtmlNode
        \/ Len(path) = 1 /\ e = HeadNode
        \/ Len(path) = 1 /\ e = BodyNode
    BY <1>4 DEF Skeleton
  <2>2. ~(Len(path) >= 2)
    <3>1. PICK n \in Nat : n = Len(path)
      BY <1>2
    <3>2. n = 0 \/ n = 1
      BY <2>1, <3>1
    <3> QED
      BY <3>1, <3>2
  <2>3. e.tag \in {"html", "head", "body"} /\ (e.tag = "body" <=> (Len(path) = 1 /\ e = BodyNode))
    BY <1>3, <2>1
  <2> QED
    BY <2>1, <2>2, <2>3
<1>5. CASE Descendant(e)
  <2>1. /\ Len(path) >= 2
        /\ e \in IF InHead THEN HeadElements ELSE BodyElements
        /\ <<Last(path).tag, e.tag>> \in Nesting
    BY <1>5, BoundsAssumption DEF Descendant
  <2>2. e.tag \notin {"html", "head", "body"}
    BY <2>1, DocumentAssumption
  <2> QED
    BY <1>2, <2>1, <2>2
<1> QED
  BY <1>1, <1>4, <1>5

\* A start tag keeps the shape of the document.
LEMMA StartKeepsShape ==
  ASSUME IInv, Running, NEW e \in Elements, Start(e)
  PROVE  DocumentShape'
<1>1. /\ Len(path) \in Nat
      /\ Len(path') = Len(path) + 1
      /\ path'[Len(path) + 1] = e
      /\ \A i \in 1 .. Len(path) : path'[i] = path[i]
  BY StartExtends
<1>2. /\ Len(path) = 0 => e = HtmlNode
      /\ Len(path) = 1 => e \in {HeadNode, BodyNode}
      /\ Len(path) >= 2 => e \in IF InHead THEN HeadElements ELSE BodyElements
  BY StartPlace
<1>3. /\ Len(path) >= 1 => path[1] = HtmlNode
      /\ Len(path) >= 2 => path[2] \in {HeadNode, BodyNode}
      /\ \A i \in 3 .. Len(path) : path[i] \in IF InHead THEN HeadElements ELSE BodyElements
  BY DEF IInv, DocumentShape
<1>4. Len(path) >= 2 => InHead' = InHead
  BY <1>1 DEF InHead
<1>5. path'[1] = HtmlNode
  BY <1>1, <1>2, <1>3
<1>6. Len(path') >= 2 => path'[2] \in {HeadNode, BodyNode}
  <2>1. Len(path) >= 2 => path'[2] = path[2]
    BY <1>1
  <2>2. Len(path) = 1 => path'[2] = e
    BY <1>1
  <2>3. CASE Len(path) = 1
    BY <1>2, <2>2, <2>3
  <2>4. CASE Len(path) >= 2
    BY <1>3, <2>1, <2>4
  <2>5. Len(path') >= 2 => Len(path) = 1 \/ Len(path) >= 2
    <3>1. PICK n \in Nat : n = Len(path)
      BY <1>1
    <3>2. Len(path') = n + 1
      BY <1>1, <3>1
    <3> QED
      BY <3>1, <3>2
  <2> QED
    BY <2>3, <2>4, <2>5
<1>7. ASSUME NEW i \in 3 .. Len(path')
      PROVE  path'[i] \in IF InHead' THEN HeadElements ELSE BodyElements
  <2>1. CASE i = Len(path) + 1
    BY <1>1, <1>2, <1>4, <2>1
  <2>2. CASE i # Len(path) + 1
    BY <1>1, <1>3, <1>4, <2>2
  <2> QED
    BY <2>1, <2>2
<1> QED
  BY <1>5, <1>6, <1>7 DEF DocumentShape

\* An end tag takes the last element off the path.
LEMMA EndShortens ==
  ASSUME IInv, Running, NEW e \in Elements, End(e)
  PROVE  /\ path' \in Seq(Elements)
         /\ Len(path) \in Nat /\ Len(path) >= 1
         /\ Len(path') = Len(path) - 1
         /\ \A i \in 1 .. Len(path) - 1 : path'[i] = path[i]
         /\ e = path[Len(path)]
         /\ e.tag = "body" <=> (Len(path) = 2 /\ path[2] = BodyNode)
         /\ Len(path) <= 2 => e.tag \in {"html", "head", "body"}
         /\ stage' = stage /\ started' = started /\ received' = received
<1>1. path \in Seq(Elements) /\ path # <<>> /\ e = Last(path) /\ path' = Front(path)
  BY DEF IInv, TypeOK, End
<1>2. Len(path) \in Nat /\ Len(path) >= 1 /\ Len(path) \in 1 .. Len(path)
  BY <1>1
<1>3. /\ e = path[Len(path)]
      /\ path' \in Seq(Elements)
      /\ Len(path') = Len(path) - 1
      /\ \A i \in 1 .. Len(path) - 1 : path'[i] = path[i]
  BY <1>1, LastFront
<1>4. /\ e.tag = "body" <=> (Len(path) = 2 /\ path[2] = BodyNode)
      /\ Len(path) <= 2 => e.tag \in {"html", "head", "body"}
  BY <1>2, <1>3, ElementOfShape
<1> QED
  BY <1>2, <1>3, <1>4 DEF End

\* An end tag keeps the shape of the document.
LEMMA EndKeepsShape ==
  ASSUME IInv, Running, NEW e \in Elements, End(e)
  PROVE  DocumentShape'
<1>1. /\ Len(path) \in Nat
      /\ Len(path') = Len(path) - 1
      /\ \A i \in 1 .. Len(path) - 1 : path'[i] = path[i]
  BY EndShortens
<1>2. /\ Len(path) >= 1 => path[1] = HtmlNode
      /\ Len(path) >= 2 => path[2] \in {HeadNode, BodyNode}
      /\ \A i \in 3 .. Len(path) : path[i] \in IF InHead THEN HeadElements ELSE BodyElements
  BY DEF IInv, DocumentShape
<1>3. Len(path') >= 2 => InHead' = InHead
  BY <1>1 DEF InHead
<1> QED
  BY <1>1, <1>2, <1>3 DEF DocumentShape

-----------------------------------------------------------------------------
(* Where the walk is when a flag is up. *)

\* A title in the head has no element in it.
LEMMA NoStartInHeadTitle ==
  ASSUME IInv, Running, NEW e \in Elements, Start(e)
  PROVE  ~(isInsideTitle /\ ~isInsideBody)
<1> SUFFICES ASSUME isInsideTitle, ~isInsideBody
             PROVE  FALSE
  OBVIOUS
<1>1. Len(path) >= 3 /\ InHead /\ Last(path).tag = "title"
  BY DEF IInv, FlagsKnowTheirPlace
<1>2. Len(path) >= 2
  BY <1>1 DEF InHead
<1>3. e \in HeadElements /\ <<"title", e.tag>> \in Nesting
  BY <1>1, <1>2, StartPlace
<1> QED
  BY <1>3, DocumentAssumption

\* The open elements are the accepted ones and, inside them, the rejected ones.
LEMMA DepthsOf ==
  ASSUME IInv, Running
  PROVE  /\ Len(path) \in Nat /\ ignoredTagDepth \in Nat
         /\ AcceptedDepth = Len(path) - ignoredTagDepth
         /\ AcceptedDepth \in Nat /\ AcceptedDepth <= Len(path)
         /\ \A i \in 1 .. AcceptedDepth : ~RejectsElement(path[i])
         /\ ignoredTagDepth = 0 => AcceptedDepth = Len(path)
         /\ isInsideBody <=> (AcceptedDepth >= 2 /\ path[2] = BodyNode)
BY DEF IInv, TypeOK, TransformerTypeOK, AcceptedDepth, IgnoredDepthIsExact, FlagsMirrorPath

\* An element is entered only where nothing above it was rejected.
LEMMA EnteredPlace ==
  ASSUME IInv, Running, NEW e \in Elements, Start(e), Enter(e)
  PROVE  /\ ignoredTagDepth = 0 /\ AcceptedDepth = Len(path)
         /\ ~RejectsElement(e)
         /\ e.tag \notin {"body", "title"} => isInsideBody
         /\ isInsideBody => Len(path) >= 2 /\ path[2] = BodyNode
         /\ Len(path) >= 2 => (isInsideBody <=> path[2] = BodyNode)
BY NoStartInHeadTitle, DepthsOf DEF Enter, TakeIn, Accepted, Inside, RejectsElement

\* An end tag that does more than lower a flag ends an element below the body.
LEMMA LeftPlace ==
  ASSUME IInv, Running, NEW e \in Elements, End(e), EndReachesBuilders(e)
  PROVE  /\ isInsideBody
         /\ InsideBodyAfter(e)
         /\ e.tag # "body"
         /\ Len(path) >= 3 /\ path[2] = BodyNode
         /\ ignoredTagDepth = 0 /\ AcceptedDepth = Len(path)
<1>1. /\ Len(path) \in Nat /\ Len(path) >= 1
      /\ e = path[Len(path)]
      /\ e.tag = "body" <=> (Len(path) = 2 /\ path[2] = BodyNode)
      /\ Len(path) <= 2 => e.tag \in {"html", "head", "body"}
      /\ e = Last(path)
  BY EndShortens DEF End
<1>2. ignoredTagDepth = 0 /\ AcceptedDepth = Len(path)
  BY DepthsOf DEF EndReachesBuilders, EndsIgnored
<1>3. isInsideBody
  <2>1. SUFFICES ASSUME ~isInsideBody
                 PROVE  FALSE
    OBVIOUS
  <2>2. isInsideTitle /\ e.tag # "title"
    BY <2>1 DEF EndReachesBuilders, InsideAfter, InsideBodyAfter, InsideTitleAfter
  <2> QED
    BY <1>1, <2>1, <2>2 DEF IInv, FlagsKnowTheirPlace
<1>4. Len(path) >= 2 /\ path[2] = BodyNode
  BY <1>2, <1>3, DepthsOf
<1>5. e.tag # "body"
  <2>1. SUFFICES ASSUME e.tag = "body"
                 PROVE  FALSE
    OBVIOUS
  <2>2. isInsideTitle /\ Len(path) = 2
    BY <1>1, <2>1 DEF EndReachesBuilders, InsideAfter, InsideBodyAfter, InsideTitleAfter
  <2>3. PICK i \in 2 .. AcceptedDepth : path[i].tag = "title"
    BY <2>2 DEF IInv, FlagsMirrorPath
  <2>4. i = 2
    BY <1>2, <2>2, <2>3
  <2> QED
    BY <1>4, <2>3, <2>4, DocumentAssumption
<1>6. Len(path) >= 3
  <2>1. PICK n \in Nat : n = Len(path)
    BY <1>1
  <2>2. n # 2
    BY <1>1, <1>4, <1>5, <2>1, Zenon
  <2>3. n >= 2
    BY <1>4, <2>1, Zenon
  <2>4. n >= 3
    BY <2>2, <2>3
  <2> QED
    BY <2>1, <2>4
<1> QED
  BY <1>2, <1>3, <1>4, <1>5, <1>6 DEF InsideBodyAfter

\* A step that keeps the accepted part of the path keeps the open elements.
LEMMA OpenKept ==
  ASSUME NEW tags, isInsideBody' = isInsideBody, AcceptedDepth' = AcceptedDepth,
         \A i \in 2 .. AcceptedDepth : path'[i] = path[i]
  PROVE  OpenInBody(tags)' = OpenInBody(tags)
BY DEF OpenInBody

\* The stacks mirror the path if no more is open in the body than before.
LEMMA BuildersKept ==
  ASSUME IInv, Running, KeepsStack(output, output'),
         OpenInBody(ContainerTags)' = OpenInBody(ContainerTags),
         \A i \in OpenInBody(ContainerTags) : path'[i] = path[i]
  PROVE  BuildersMirrorPath'
<1>1. BuildersMatch(output.builders, path, OpenInBody(ContainerTags)) /\ IsOutput(output)
  BY MirrorIsMatch DEF IInv, TypeOK, TransformerTypeOK
<1>2. BuildersMatch(output'.builders, path', OpenInBody(ContainerTags))
  BY <1>1, MatchKept
<1>3. BuildersMatch(output.builders, path, OpenInBody(ContainerTags))'
  BY <1>2
<1> QED
  BY <1>3, MatchIsMirror

-----------------------------------------------------------------------------
(* onStartTag. *)

\* onStartTag of a rejected element keeps the inductive invariant.
LEMMA StartIgnoredKeeps ==
  ASSUME IInv, Running, NEW e \in Elements, Start(e), StartIgnored(e)
  PROVE  IInv'
<1> DEFINE n == Len(path)
           d == ignoredTagDepth
<1>1. /\ path' \in Seq(Elements)
      /\ n \in Nat /\ Len(path') = n + 1
      /\ path'[n + 1] = e
      /\ \A i \in 1 .. n : path'[i] = path[i]
      /\ stage' \in Stages /\ started' \in Nat /\ received' = received
  BY StartExtends
<1>2. /\ d \in Nat /\ d <= n
      /\ AcceptedDepth = n - d
      /\ \A i \in 1 .. AcceptedDepth : ~RejectsElement(path[i])
  BY DepthsOf
<1>3. /\ ignoredTagDepth' = d + 1
      /\ idStack' = Append(idStack, NoId) /\ tagStack' = Append(tagStack, NoTag)
      /\ UNCHANGED <<output, styleStack, flags, title, article, raised>>
  BY DEF StartIgnored
<1>4. idStack \in Seq(Name) /\ tagStack \in Seq(Name)
  BY DEF IInv, TypeOK, TransformerTypeOK
<1>5. AcceptedDepth' = AcceptedDepth
  BY <1>1, <1>2, <1>3 DEF AcceptedDepth
<1>6. \A i \in 1 .. AcceptedDepth : path'[i] = path[i]
  BY <1>1, <1>2
<1>7. TypeOK'
  <2>1. idStack' \in Seq(Name) /\ tagStack' \in Seq(Name)
    <3>1. NoId \in Name /\ NoTag \in Name
      BY DEF NoId, NoTag, Name
    <3> QED
      BY <1>3, <1>4, <3>1, Appended
  <2> QED
    BY <1>1, <1>2, <1>3, <2>1 DEF IInv, TypeOK, TransformerTypeOK, flags
<1>8. DocumentShape'
  BY StartKeepsShape
<1>9. FlagsKnowTheirPlace'
  <2>1. ~(isInsideTitle /\ ~isInsideBody)
    BY NoStartInHeadTitle
  <2> QED
    BY <1>3, <2>1 DEF IInv, FlagsKnowTheirPlace, flags
<1>10. IgnoredDepthIsExact'
  <2>1. RejectsElement(path'[AcceptedDepth + 1])
    <3>1. CASE d = 0
      BY <1>1, <1>2, <1>3, <3>1 DEF StartIgnored, RejectsElement
    <3>2. CASE d > 0
      <4>1. RejectsElement(path[AcceptedDepth + 1]) /\ AcceptedDepth + 1 \in 1 .. n
        BY <1>2, <3>2 DEF IInv, IgnoredDepthIsExact
      <4> QED
        BY <1>1, <4>1
    <3> QED
      BY <1>2, <3>1, <3>2
  <2>2. ignoredTagDepth' <= Len(path')
    BY <1>1, <1>2, <1>3
  <2>3. \A i \in 1 .. AcceptedDepth' : ~RejectsElement(path'[i])
    BY <1>2, <1>5, <1>6
  <2> QED
    BY <1>5, <2>1, <2>2, <2>3 DEF IgnoredDepthIsExact, RejectsElement
<1>11. FlagsMirrorPath'
  <2>1. isInsideBody <=> (AcceptedDepth >= 2 /\ path'[2] = BodyNode)
    BY <1>2, <1>6, DepthsOf
  <2>2. \A i \in 2 .. AcceptedDepth : path'[i] = path[i]
    BY <1>2, <1>6
  <2> QED
    BY <1>3, <1>5, <2>1, <2>2 DEF IInv, FlagsMirrorPath, flags
<1>12. StacksMirrorPath'
  <2>1. StacksMatch(idStack, tagStack, d, isInsideBody, path, AcceptedDepth)
    BY StacksMirrorIsMatch DEF IInv, StacksMatchPath
  <2>2. StacksMatch(idStack', tagStack', d + 1, isInsideBody, path', AcceptedDepth)
    <3>1. NoTag \in Name /\ AcceptedDepth \in Nat /\ \A i \in 2 .. AcceptedDepth : path'[i] = path[i]
      BY <1>2, <1>6 DEF NoTag, Name
    <3> QED
      BY <1>2, <1>3, <1>4, <2>1, <3>1, IgnoredPushed
  <2>3. StacksMatchPath'
    BY <1>3, <1>5, <2>2 DEF StacksMatchPath, flags
  <2> QED
    BY <2>3, StacksMatchIsMirror
<1>13. BuildersMirrorPath'
  <2>1. KeepsStack(output, output')
    BY <1>3 DEF KeepsStack, IInv, TypeOK, TransformerTypeOK
  <2>2. OpenInBody(ContainerTags)' = OpenInBody(ContainerTags)
    BY <1>2, <1>3, <1>5, <1>6, OpenKept DEF flags
  <2>3. \A i \in OpenInBody(ContainerTags) : path'[i] = path[i]
    BY <1>2, <1>6 DEF OpenInBody
  <2> QED
    BY <2>1, <2>2, <2>3, BuildersKept
<1>14. OnlyLinksThrow'
  BY <1>3 DEF OnlyLinksThrow, Running
<1> QED
  BY <1>7, <1>8, <1>9, <1>10, <1>11, <1>12, <1>13, <1>14 DEF IInv

\* onStartTag outside the body keeps the inductive invariant.
LEMMA StartOutsideKeeps ==
  ASSUME IInv, Running, NEW e \in Elements, Start(e), StartOutside(e)
  PROVE  IInv'
<1> DEFINE n == Len(path)
<1>1. /\ path' \in Seq(Elements)
      /\ n \in Nat /\ Len(path') = n + 1
      /\ path'[n + 1] = e
      /\ \A i \in 1 .. n : path'[i] = path[i]
      /\ stage' \in Stages /\ started' \in Nat /\ received' = received
  BY StartExtends
<1>2. /\ ignoredTagDepth = 0 /\ AcceptedDepth = n
      /\ \A i \in 1 .. n : ~RejectsElement(path[i])
      /\ ~RejectsElement(e) /\ e.tag # "body"
      /\ ~isInsideBody /\ ~isInsideTitle
  BY DepthsOf DEF StartOutside, Accepted, Inside, RejectsElement
<1>3. UNCHANGED <<output, styleStack, idStack, tagStack, ignoredTagDepth, isInsidePreTag, isInsideBody,
                  isInsideTitle, isInsideBlockquote, title, article, raised>>
  BY DEF StartOutside, transformerVars, stacks, flags
<1>4. AcceptedDepth' = n + 1
  BY <1>1, <1>2, <1>3 DEF AcceptedDepth
<1>5. TypeOK'
  BY <1>1, <1>3 DEF IInv, TypeOK, TransformerTypeOK
<1>6. DocumentShape'
  BY StartKeepsShape
<1>7. FlagsKnowTheirPlace' /\ ~isInsideBlockquote /\ ~isInsidePreTag
  BY <1>2, <1>3 DEF IInv, FlagsKnowTheirPlace
<1>8. IgnoredDepthIsExact'
  <2>1. \A i \in 1 .. n + 1 : ~RejectsElement(path'[i])
    BY <1>1, <1>2
  <2> QED
    BY <1>1, <1>2, <1>3, <1>4, <2>1 DEF IgnoredDepthIsExact, RejectsElement
<1>9. FlagsMirrorPath'
  <2>1. ~(AcceptedDepth' >= 2 /\ path'[2] = BodyNode)
    <3>1. CASE n >= 2
      <4>1. path'[2] = path[2] /\ path[2] # BodyNode
        BY <1>1, <1>2, <3>1, DepthsOf
      <4> QED
        BY <4>1
    <3>2. CASE n = 1
      BY <1>1, <1>2, <3>2, DocumentAssumption
    <3>3. CASE n = 0
      BY <1>4, <3>3
    <3>4. n = 0 \/ n = 1 \/ n >= 2
      BY <1>1, ZeroOneOrMore
    <3> QED
      BY <3>1, <3>2, <3>3, <3>4
  <2> QED
    BY <1>2, <1>3, <1>7, <2>1 DEF FlagsMirrorPath
<1>10. StacksMirrorPath'
  BY <1>2, <1>3 DEF IInv, StacksMirrorPath
<1>11. BuildersMirrorPath'
  <2>1. KeepsStack(output, output')
    BY <1>3 DEF KeepsStack, IInv, TypeOK, TransformerTypeOK
  <2>2. OpenInBody(ContainerTags) = {} /\ OpenInBody(ContainerTags)' = {}
    BY <1>2, <1>3 DEF OpenInBody
  <2> QED
    BY <2>1, <2>2, BuildersKept
<1>12. OnlyLinksThrow'
  BY <1>3 DEF OnlyLinksThrow, Running
<1> QED
  BY <1>5, <1>6, <1>7, <1>8, <1>9, <1>10, <1>11, <1>12 DEF IInv

\* onStartTag that throws for a link keeps the inductive invariant.
LEMMA StartThrowsKeeps ==
  ASSUME IInv, Running, NEW e \in Elements, Start(e), StartThrows(e)
  PROVE  IInv'
<1>1. /\ raised' = "IllegalArgument"
      /\ e.tag = "a" /\ e.href \in Unresolvable
      /\ idStack' = Append(idStack, e.id)
      /\ tagStack' = Append(tagStack, e.tag)
      /\ styleStack' = IF e.tag \in StyledTags THEN Append(styleStack, StyleOf(e.tag)) ELSE styleStack
      /\ isInsideBody' = (isInsideBody \/ e.tag = "body")
      /\ isInsideTitle' = (isInsideTitle \/ e.tag = "title")
      /\ isInsideBlockquote' = (isInsideBlockquote \/ e.tag = "blockquote")
      /\ isInsidePreTag' = (isInsidePreTag \/ e.tag = "pre")
      /\ UNCHANGED <<output, ignoredTagDepth, title, article>>
  BY DEF StartThrows, TakeIn
<1>2. /\ path' \in Seq(Elements)
      /\ path' = Append(path, e) /\ Last(path') = e
      /\ Len(path) \in Nat /\ Len(path') = Len(path) + 1
      /\ stage' \in Stages /\ started' \in Nat /\ received' = received
  BY StartExtends
<1>3. TypeOK'
  <2>1. e.tag \in Name /\ e.id \in Name
    BY ElementsAreTyped
  <2>2. idStack \in Seq(Name) /\ tagStack \in Seq(Name) /\ styleStack \in Seq(Styles)
    BY DEF IInv, TypeOK, TransformerTypeOK
  <2>3. idStack' \in Seq(Name) /\ tagStack' \in Seq(Name)
    BY <1>1, <2>1, <2>2, Appended
  <2>4. styleStack' \in Seq(Styles)
    <3>1. StyleOf(e.tag) \in Styles
      BY DEF StyleOf, Styles
    <3> QED
      BY <1>1, <2>2, <3>1, Appended
  <2> QED
    BY <1>1, <1>2, <2>3, <2>4 DEF IInv, TypeOK, TransformerTypeOK
<1>4. ~Running'
  BY <1>1 DEF Running
<1>5. OnlyLinksThrow'
  BY <1>1, <1>2 DEF OnlyLinksThrow
<1> QED
  BY <1>3, <1>4, <1>5
     DEF IInv, DocumentShape, FlagsKnowTheirPlace, IgnoredDepthIsExact, FlagsMirrorPath, StacksMirrorPath,
         BuildersMirrorPath

\* Entering an element keeps the builders in step with the open containers.
LEMMA EnterKeepsBuilders ==
  ASSUME IInv, Running, NEW e \in Elements, Start(e), Enter(e),
         \/ e.tag \in ContainerTags /\ PushesBuilder(output, output', BuilderKind(e.tag))
         \/ e.tag \notin ContainerTags /\ KeepsStack(output, output')
  PROVE  BuildersMirrorPath'
<1> DEFINE n == Len(path)
           open == OpenInBody(ContainerTags)
<1>1. /\ n \in Nat /\ Len(path') = n + 1
      /\ path'[n + 1] = e
      /\ \A i \in 1 .. n : path'[i] = path[i]
  BY StartExtends
<1>2. /\ ignoredTagDepth = 0 /\ AcceptedDepth = n
      /\ e.tag \notin {"body", "title"} => isInsideBody
      /\ isInsideBody => n >= 2
  BY EnteredPlace
<1>3. /\ isInsideBody' = (isInsideBody \/ e.tag = "body")
      /\ ignoredTagDepth' = 0
  BY <1>2 DEF Enter, TakeIn
<1>4. AcceptedDepth' = n + 1
  BY <1>1, <1>2, <1>3 DEF AcceptedDepth
<1>5. open \in SUBSET Nat /\ \A i \in open : i < n + 1 /\ path'[i] = path[i]
  BY <1>1, <1>2 DEF OpenInBody
<1>6. CASE e.tag \in ContainerTags
  <2>1. isInsideBody /\ isInsideBody' /\ n >= 2
    BY <1>2, <1>3, <1>6 DEF ContainerTags, ListTags
  <2>2. open' = open \union {n + 1}
    <3>1. open' = {i \in 2 .. n + 1 : path'[i].tag \in ContainerTags}
      BY <1>4, <2>1 DEF OpenInBody
    <3>2. open = {i \in 2 .. n : path[i].tag \in ContainerTags}
      BY <1>2, <2>1 DEF OpenInBody
    <3> QED
      BY <1>1, <1>6, <2>1, <3>1, <3>2
  <2>3. PushesBuilder(output, output', BuilderKind(path'[n + 1].tag))
    BY <1>1, <1>6
  <2>4. BuildersMatch(output.builders, path, open) /\ IsOutput(output)
    BY MirrorIsMatch DEF IInv, TypeOK, TransformerTypeOK
  <2> HIDE DEF open
  <2>5. BuildersMatch(output'.builders, path', open \union {n + 1})
    <3>1. n + 1 \in Nat
      BY <1>1
    <3> QED
      BY <1>5, <2>3, <2>4, <3>1, MatchPushed
  <2>6. BuildersMatch(output.builders, path, OpenInBody(ContainerTags))'
    BY <2>2, <2>5 DEF open
  <2> QED
    BY <2>6, MatchIsMirror
<1>7. CASE e.tag \notin ContainerTags
  <2>1. open' = open
    <3>1. CASE isInsideBody
      <4>1. open' = {i \in 2 .. n + 1 : path'[i].tag \in ContainerTags}
        BY <1>3, <1>4, <3>1 DEF OpenInBody
      <4>2. open = {i \in 2 .. n : path[i].tag \in ContainerTags}
        BY <1>2, <3>1 DEF OpenInBody
      <4> QED
        BY <1>1, <1>7, <4>1, <4>2
    <3>2. CASE ~isInsideBody /\ e.tag = "body"
      <4>1. n = 1
        BY <3>2, StartPlace
      <4>2. open' \subseteq {i \in 2 .. 2 : path'[i].tag \in ContainerTags}
        BY <1>4, <4>1 DEF OpenInBody
      <4> QED
        BY <1>1, <1>7, <3>2, <4>1, <4>2 DEF OpenInBody
    <3>3. CASE ~isInsideBody /\ e.tag # "body"
      BY <1>3, <3>3 DEF OpenInBody
    <3> QED
      BY <3>1, <3>2, <3>3
  <2> QED
    BY <1>5, <1>7, <2>1, BuildersKept
<1> QED
  BY <1>6, <1>7

\* Entering an element keeps the inductive invariant.
LEMMA EnterKeeps ==
  ASSUME IInv, Running, NEW e \in Elements, Start(e), Enter(e),
         \/ e.tag \in ContainerTags /\ PushesBuilder(output, output', BuilderKind(e.tag))
         \/ e.tag \notin ContainerTags /\ KeepsStack(output, output')
  PROVE  IInv'
<1> DEFINE n == Len(path)
<1>1. /\ path' \in Seq(Elements)
      /\ n \in Nat /\ Len(path') = n + 1
      /\ path'[n + 1] = e
      /\ \A i \in 1 .. n : path'[i] = path[i]
      /\ Last(path') = e
      /\ stage' \in Stages /\ started' \in Nat /\ received' = received
  BY StartExtends
<1>2. /\ ignoredTagDepth = 0 /\ AcceptedDepth = n
      /\ ~RejectsElement(e)
      /\ e.tag \notin {"body", "title"} => isInsideBody
      /\ isInsideBody => n >= 2 /\ path[2] = BodyNode
      /\ n >= 2 => (isInsideBody <=> path[2] = BodyNode)
      /\ ~(isInsideTitle /\ ~isInsideBody)
  BY EnteredPlace, NoStartInHeadTitle
<1>3. /\ isInsideBody' = (isInsideBody \/ e.tag = "body")
      /\ isInsideTitle' = (isInsideTitle \/ e.tag = "title")
      /\ isInsideBlockquote' = (isInsideBlockquote \/ e.tag = "blockquote")
      /\ isInsidePreTag' = (isInsidePreTag \/ e.tag = "pre")
      /\ idStack' = Append(idStack, e.id)
      /\ tagStack' = Append(tagStack, e.tag)
      /\ styleStack' = IF e.tag \in StyledTags THEN Append(styleStack, StyleOf(e.tag)) ELSE styleStack
      /\ UNCHANGED <<ignoredTagDepth, title, article, raised>>
  BY DEF Enter, TakeIn
<1>4. AcceptedDepth' = n + 1
  BY <1>1, <1>2, <1>3 DEF AcceptedDepth
<1>5. e.tag \in Name /\ e.id \in Name
  BY ElementsAreTyped
<1>6. /\ e.tag = "body" <=> (n = 1 /\ e = BodyNode)
      /\ e.tag = "title" => n >= 2
      /\ e.tag \in {"blockquote", "pre"} => n >= 2
  BY StartPlace
<1>7. idStack \in Seq(Name) /\ tagStack \in Seq(Name) /\ styleStack \in Seq(Styles) /\ IsOutput(output)
  BY DEF IInv, TypeOK, TransformerTypeOK
<1>8. article = <<>>
  BY DEF IInv, FlagsKnowTheirPlace
<1>9. TypeOK'
  <2>1. idStack' \in Seq(Name) /\ tagStack' \in Seq(Name)
    BY <1>3, <1>5, <1>7, Appended
  <2>2. styleStack' \in Seq(Styles)
    <3>1. StyleOf(e.tag) \in Styles
      BY DEF StyleOf, Styles
    <3>2. Append(styleStack, StyleOf(e.tag)) \in Seq(Styles)
      BY <1>7, <3>1, Appended
    <3> QED
      BY <1>3, <1>7, <3>2
  <2>3. IsOutput(output')
    BY DEF KeepsStack, PushesBuilder
  <2>4. article' \in Seq(1 .. Len(output'.built))
    BY <1>3, <1>8
  <2>5. /\ isInsideBody' \in BOOLEAN /\ isInsideTitle' \in BOOLEAN
        /\ isInsideBlockquote' \in BOOLEAN /\ isInsidePreTag' \in BOOLEAN
    BY <1>3
  <2> QED
    BY <1>1, <1>3, <2>1, <2>2, <2>3, <2>4, <2>5 DEF IInv, TypeOK, TransformerTypeOK
<1>10. DocumentShape'
  BY StartKeepsShape
<1>11. n >= 2 /\ ~isInsideBody => path[2] = HeadNode
  <2>1. n >= 2 => path[2] \in {HeadNode, BodyNode}
    BY DEF IInv, DocumentShape
  <2> QED
    BY <1>2, <2>1, DepthsOf
<1>12. FlagsKnowTheirPlace'
  <2>1. isInsideTitle' /\ ~isInsideBody' =>
          Len(path') >= 3 /\ InHead' /\ Last(path').tag = "title" /\ ignoredTagDepth' = 0
    <3>1. SUFFICES ASSUME isInsideTitle', ~isInsideBody'
                   PROVE  Len(path') >= 3 /\ InHead' /\ Last(path').tag = "title" /\ ignoredTagDepth' = 0
      OBVIOUS
    <3>2. e.tag = "title" /\ n >= 2 /\ path[2] = HeadNode
      BY <1>2, <1>3, <1>6, <1>11, <3>1
    <3>3. path'[2] = HeadNode /\ Len(path') >= 3
      BY <1>1, <3>2
    <3> QED
      BY <1>1, <1>2, <1>3, <3>2, <3>3 DEF InHead
  <2>2. isInsideBlockquote' \/ isInsidePreTag' => isInsideBody'
    BY <1>2, <1>3 DEF IInv, FlagsKnowTheirPlace
  <2> QED
    BY <1>3, <1>8, <2>1, <2>2 DEF FlagsKnowTheirPlace
<1>13. IgnoredDepthIsExact'
  <2>1. \A i \in 1 .. n + 1 : ~RejectsElement(path'[i])
    BY <1>1, <1>2, DepthsOf
  <2> QED
    BY <1>1, <1>2, <1>3, <1>4, <2>1 DEF IgnoredDepthIsExact, RejectsElement
<1>14. FlagsMirrorPath'
  <2>1. isInsideBody' <=> (AcceptedDepth' >= 2 /\ path'[2] = BodyNode)
    <3>1. CASE n >= 2
      <4>1. path'[2] = path[2] /\ e.tag # "body"
        BY <1>1, <1>6, <3>1
      <4>2. isInsideBody' = isInsideBody
        BY <1>3, <4>1 DEF IInv, TypeOK, TransformerTypeOK
      <4>3. AcceptedDepth' >= 2
        BY <1>1, <1>4, <3>1
      <4> QED
        BY <1>2, <3>1, <4>1, <4>2, <4>3
    <3>2. CASE n = 1
      <4>1. path'[2] = e /\ AcceptedDepth' >= 2
        BY <1>1, <1>4, <3>2
      <4>2. isInsideBody' <=> e = BodyNode
        <5>1. ~isInsideBody
          BY <1>2, <3>2
        <5>2. e.tag = "body" <=> e = BodyNode
          BY <1>6, <3>2
        <5> QED
          BY <1>3, <5>1, <5>2
      <4> QED
        BY <4>1, <4>2
    <3>3. CASE n = 0
      BY <1>2, <1>3, <1>4, <1>6, <3>3
    <3>4. n = 0 \/ n = 1 \/ n >= 2
      BY <1>1, ZeroOneOrMore
    <3> QED
      BY <3>1, <3>2, <3>3, <3>4
  <2>2. ASSUME NEW tag, e.tag = tag, n >= 2
        PROVE  \E i \in 2 .. AcceptedDepth' : path'[i].tag = tag
    BY <1>1, <1>4, <2>2
  <2>3. ASSUME NEW tag, \E i \in 2 .. AcceptedDepth : path[i].tag = tag
        PROVE  \E i \in 2 .. AcceptedDepth' : path'[i].tag = tag
    BY <1>1, <1>2, <1>4, <2>3
  <2>4. isInsideTitle' => \E i \in 2 .. AcceptedDepth' : path'[i].tag = "title"
    BY <1>3, <1>6, <2>2, <2>3 DEF IInv, FlagsMirrorPath
  <2>5. isInsideBlockquote' => \E i \in 2 .. AcceptedDepth' : path'[i].tag = "blockquote"
    BY <1>3, <1>6, <2>2, <2>3 DEF IInv, FlagsMirrorPath
  <2>6. isInsidePreTag' => \E i \in 2 .. AcceptedDepth' : path'[i].tag = "pre"
    BY <1>3, <1>6, <2>2, <2>3 DEF IInv, FlagsMirrorPath
  <2> QED
    BY <2>1, <2>4, <2>5, <2>6 DEF FlagsMirrorPath
<1>15. StacksMirrorPath'
  <2>1. StacksMatch(idStack, tagStack, 0, isInsideBody, path, n)
    BY <1>2, StacksMirrorIsMatch DEF IInv, StacksMatchPath
  <2>2. isInsideBody' => isInsideBody \/ n = 1
    BY <1>3, <1>6
  <2>3. \A i \in 2 .. n : path'[i] = path[i]
    BY <1>1
  <2>4. StacksMatch(idStack', tagStack', 0, isInsideBody', path', n + 1)
    <3>1. path'[n + 1].tag \in Name /\ path'[n + 1].id \in Name
      BY <1>1, <1>5
    <3>2. idStack' = Append(idStack, path'[n + 1].id) /\ tagStack' = Append(tagStack, path'[n + 1].tag)
      BY <1>1, <1>3
    <3> QED
      BY <1>1, <1>7, <2>1, <2>2, <2>3, <3>1, <3>2, EnteredPushed
  <2>5. StacksMatchPath'
    BY <1>2, <1>3, <1>4, <2>4 DEF StacksMatchPath
  <2> QED
    BY <2>5, StacksMatchIsMirror
<1>16. BuildersMirrorPath'
  BY EnterKeepsBuilders
<1>17. OnlyLinksThrow'
  BY <1>3 DEF OnlyLinksThrow, Running
<1> QED
  BY <1>9, <1>10, <1>12, <1>13, <1>14, <1>15, <1>16, <1>17 DEF IInv

\* onStartTag keeps the inductive invariant, whatever the tag.
LEMMA OnStartTagKeeps ==
  ASSUME IInv, Running, NEW e \in Elements, Start(e), OnStartTag(e)
  PROVE  IInv'
<1>1. TransformerTypeOK /\ output.builders # <<>> /\ e \in ElementType
  BY ElementsAreTyped DEF IInv, TypeOK, BuildersMirrorPath
<1>2. CASE StartIgnored(e)
  BY <1>2, StartIgnoredKeeps
<1>3. CASE StartOutside(e)
  BY <1>3, StartOutsideKeeps
<1>4. CASE StartThrows(e)
  BY <1>4, StartThrowsKeeps
<1>5. CASE StartList(e)
  <2>1. Enter(e) /\ e.tag \in ListTags /\ PushesBuilder(output, output', "List")
    BY <1>1, <1>5, StartPushes DEF StartList
  <2>2. e.tag \in ContainerTags /\ BuilderKind(e.tag) = "List"
    BY <2>1 DEF BuilderKind, ContainerTags, ListTags
  <2> QED
    BY <2>1, <2>2, EnterKeeps
<1>6. CASE StartItem(e)
  <2>1. Enter(e) /\ e.tag = "li" /\ PushesBuilder(output, output', "Item")
    BY <1>1, <1>6, StartPushes DEF StartItem
  <2>2. e.tag \in ContainerTags /\ BuilderKind(e.tag) = "Item"
    BY <2>1 DEF BuilderKind, ContainerTags, ListTags
  <2> QED
    BY <2>1, <2>2, EnterKeeps
<1>7. CASE StartTable(e)
  <2>1. Enter(e) /\ e.tag = "table" /\ PushesBuilder(output, output', "Table")
    BY <1>1, <1>7, StartPushes DEF StartTable
  <2>2. e.tag \in ContainerTags /\ BuilderKind(e.tag) = "Table"
    BY <2>1 DEF BuilderKind, ContainerTags, ListTags
  <2> QED
    BY <2>1, <2>2, EnterKeeps
<1>8. CASE StartsNoBuilder(e)
  <2>1. Enter(e) /\ e.tag \notin ContainerTags
    BY <1>8 DEF StartsNoBuilder, StartRow, StartCell, StartQuotation, StartBreak, StartImage, StartAnchor,
                StartPlain, ContainerTags, SpecialTags, ListTags, CellTags
  <2>2. KeepsStack(output, output')
    BY <1>1, <1>8, StartKeeps
  <2> QED
    BY <2>1, <2>2, EnterKeeps
<1> QED
  BY <1>2, <1>3, <1>4, <1>5, <1>6, <1>7, <1>8 DEF OnStartTag, StartsNoBuilder

-----------------------------------------------------------------------------
(* onEndTag. *)

\* An end tag that pops the stacks finds the entries its start tag pushed.
LEMMA EntriesAreThere ==
  ASSUME IInv, Running, NEW e \in Elements, End(e), ignoredTagDepth > 0 \/ EndReachesBuilders(e)
  PROVE  idStack # <<>>
<1>1. SUFFICES ASSUME idStack = <<>>
               PROVE  FALSE
  OBVIOUS
<1>2. Len(idStack) = 0 /\ Len(tagStack) = 0 /\ ignoredTagDepth = 0
  BY <1>1 DEF IInv, StacksMirrorPath, TypeOK, TransformerTypeOK
<1>3. isInsideBody /\ AcceptedDepth >= 3
  BY <1>2, LeftPlace
<1>4. Len(tagStack) - ignoredTagDepth - AcceptedDepth >= -1
  BY <1>3 DEF IInv, StacksMirrorPath
<1> QED
  BY <1>2, <1>3, <1>4, DepthsOf

\* onEndTag inside a rejected element keeps the inductive invariant.
LEMMA EndIgnoredKeeps ==
  ASSUME FilterIsMonotone, IInv, Running, NEW e \in Elements, End(e), EndIgnored(e)
  PROVE  IInv'
<1> DEFINE n == Len(path)
           d == ignoredTagDepth
<1>1. /\ path' \in Seq(Elements)
      /\ n \in Nat /\ n >= 1 /\ Len(path') = n - 1
      /\ \A i \in 1 .. n - 1 : path'[i] = path[i]
      /\ e = path[n]
      /\ stage' = stage /\ started' = started /\ received' = received
  BY EndShortens
<1>2. /\ d \in Nat /\ AcceptedDepth = n - d /\ AcceptedDepth \in Nat
      /\ \A i \in 1 .. AcceptedDepth : ~RejectsElement(path[i])
  BY DepthsOf
\* An element that was taken in is not rejected by its name.
<1>3. d > 0
  <2>1. SUFFICES ASSUME d = 0
                 PROVE  FALSE
    BY <1>2
  <2>2. n \in 1 .. AcceptedDepth
    BY <1>1, <1>2, <2>1
  <2>3. ~RejectsElement(e)
    BY <1>1, <1>2, <2>2
  <2>4. Rejects(e.tag, NoClass)
    BY <2>1 DEF EndIgnored, EndsIgnored
  <2> QED
    BY <2>3, <2>4 DEF FilterIsMonotone
<1>4. /\ ignoredTagDepth' = d - 1
      /\ idStack' = Front(idStack) /\ tagStack' = Front(tagStack)
      /\ UNCHANGED <<output, styleStack, flags, title, article, raised>>
  BY <1>3, EntriesAreThere DEF EndIgnored, PopStacks
<1>5. idStack \in Seq(Name) /\ tagStack \in Seq(Name)
  BY DEF IInv, TypeOK, TransformerTypeOK
<1>6. AcceptedDepth' = AcceptedDepth /\ AcceptedDepth <= n - 1
  BY <1>1, <1>2, <1>3, <1>4 DEF AcceptedDepth
<1>7. \A i \in 1 .. AcceptedDepth : path'[i] = path[i]
  BY <1>1, <1>2, <1>6
<1>8. StacksMirrorPath' /\ idStack # <<>> /\ tagStack # <<>>
  <2>1. StacksMatch(idStack, tagStack, d, isInsideBody, path, AcceptedDepth)
    BY StacksMirrorIsMatch DEF IInv, StacksMatchPath
  <2>2. \A i \in 2 .. AcceptedDepth : path'[i] = path[i]
    BY <1>7
  <2>3. /\ idStack # <<>> /\ tagStack # <<>>
        /\ StacksMatch(idStack', tagStack', d - 1, isInsideBody, path', AcceptedDepth)
    BY <1>2, <1>3, <1>4, <1>5, <2>1, <2>2, IgnoredPopped
  <2>4. StacksMatchPath'
    BY <1>4, <1>6, <2>3 DEF StacksMatchPath, flags
  <2> QED
    BY <2>3, <2>4, StacksMatchIsMirror
<1>9. TypeOK'
  <2>1. idStack' \in Seq(Name) /\ tagStack' \in Seq(Name)
    BY <1>4, <1>5, <1>8, LastFront
  <2>2. d - 1 \in Nat
    BY <1>2, <1>3
  <2> QED
    BY <1>1, <1>4, <2>1, <2>2 DEF IInv, TypeOK, TransformerTypeOK, flags
<1>10. DocumentShape'
  BY EndKeepsShape
<1>11. FlagsKnowTheirPlace'
  <2>1. ~(isInsideTitle /\ ~isInsideBody)
    BY <1>3 DEF IInv, FlagsKnowTheirPlace
  <2> QED
    BY <1>4, <2>1 DEF IInv, FlagsKnowTheirPlace, flags
<1>12. IgnoredDepthIsExact'
  <2>1. \A i \in 1 .. AcceptedDepth' : ~RejectsElement(path'[i])
    BY <1>2, <1>6, <1>7
  <2>2. ignoredTagDepth' > 0 => RejectsElement(path'[AcceptedDepth + 1])
    <3>1. SUFFICES ASSUME d - 1 > 0
                   PROVE  RejectsElement(path'[AcceptedDepth + 1])
      BY <1>4
    <3>2. AcceptedDepth + 1 \in 1 .. n - 1
      BY <1>1, <1>2, <3>1
    <3>3. RejectsElement(path[AcceptedDepth + 1])
      BY <1>3 DEF IInv, IgnoredDepthIsExact
    <3> QED
      BY <1>1, <3>2, <3>3
  <2>3. ignoredTagDepth' <= Len(path')
    BY <1>1, <1>2, <1>4
  <2> QED
    BY <1>6, <2>1, <2>2, <2>3 DEF IgnoredDepthIsExact, RejectsElement
<1>13. FlagsMirrorPath'
  <2>1. isInsideBody <=> (AcceptedDepth >= 2 /\ path'[2] = BodyNode)
    BY <1>2, <1>7, DepthsOf
  <2>2. \A i \in 2 .. AcceptedDepth : path'[i] = path[i]
    BY <1>7
  <2> QED
    BY <1>4, <1>6, <2>1, <2>2 DEF IInv, FlagsMirrorPath, flags
<1>14. BuildersMirrorPath'
  <2>1. KeepsStack(output, output')
    BY <1>4 DEF KeepsStack, IInv, TypeOK, TransformerTypeOK
  <2>2. OpenInBody(ContainerTags)' = OpenInBody(ContainerTags)
    BY <1>2, <1>4, <1>6, <1>7, OpenKept DEF flags
  <2>3. \A i \in OpenInBody(ContainerTags) : path'[i] = path[i]
    BY <1>2, <1>7 DEF OpenInBody
  <2> QED
    BY <2>1, <2>2, <2>3, BuildersKept
<1>15. OnlyLinksThrow'
  BY <1>4 DEF OnlyLinksThrow, Running
<1> QED
  BY <1>8, <1>9, <1>10, <1>11, <1>12, <1>13, <1>14, <1>15 DEF IInv

\* onEndTag outside the body keeps the inductive invariant.
LEMMA EndOutsideKeeps ==
  ASSUME IInv, Running, NEW e \in Elements, End(e), EndOutside(e)
  PROVE  IInv'
<1> DEFINE n == Len(path)
<1>1. /\ path' \in Seq(Elements)
      /\ n \in Nat /\ n >= 1 /\ Len(path') = n - 1
      /\ \A i \in 1 .. n - 1 : path'[i] = path[i]
      /\ e.tag = "body" <=> (n = 2 /\ path[2] = BodyNode)
      /\ stage' = stage /\ started' = started /\ received' = received
  BY EndShortens
<1>2. ignoredTagDepth = 0 /\ AcceptedDepth = n /\ \A i \in 1 .. n : ~RejectsElement(path[i])
  BY DepthsOf DEF EndOutside, EndsIgnored
<1>3. /\ ~isInsideBody' /\ ~isInsideTitle' /\ isInsideBody' \in BOOLEAN /\ isInsideTitle' \in BOOLEAN
      /\ UNCHANGED <<output, styleStack, idStack, tagStack, ignoredTagDepth, isInsidePreTag,
                     isInsideBlockquote, title, article, raised>>
  BY DEF EndOutside, EndFlags, InsideAfter, InsideBodyAfter, InsideTitleAfter, stacks, IInv, TypeOK,
         TransformerTypeOK
<1>4. AcceptedDepth' = n - 1
  BY <1>1, <1>2, <1>3 DEF AcceptedDepth
<1>5. isInsideBody => e.tag = "body"
  BY DEF EndOutside, InsideAfter, InsideBodyAfter
<1>6. TypeOK'
  BY <1>1, <1>3 DEF IInv, TypeOK, TransformerTypeOK
<1>7. DocumentShape'
  BY EndKeepsShape
<1>8. ~isInsideBlockquote /\ ~isInsidePreTag
  <2>1. SUFFICES ASSUME isInsideBlockquote \/ isInsidePreTag
                 PROVE  FALSE
    OBVIOUS
  <2>2. n = 2 /\ path[2].tag = "body"
    BY <1>1, <1>5, <2>1, DocumentAssumption DEF IInv, FlagsKnowTheirPlace
  <2>3. PICK i \in 2 .. AcceptedDepth : path[i].tag \in {"blockquote", "pre"}
    BY <2>1 DEF IInv, FlagsMirrorPath
  <2>4. i = 2
    BY <1>2, <2>2
  <2> QED
    BY <2>2, <2>3, <2>4
<1>9. FlagsKnowTheirPlace'
  BY <1>3, <1>8 DEF IInv, FlagsKnowTheirPlace
<1>10. IgnoredDepthIsExact'
  <2>1. \A i \in 1 .. n - 1 : ~RejectsElement(path'[i])
    BY <1>1, <1>2
  <2> QED
    BY <1>1, <1>2, <1>3, <1>4, <2>1 DEF IgnoredDepthIsExact, RejectsElement
<1>11. FlagsMirrorPath'
  <2>1. ~(AcceptedDepth' >= 2 /\ path'[2] = BodyNode)
    <3>1. SUFFICES ASSUME n - 1 >= 2, path'[2] = BodyNode
                   PROVE  FALSE
      BY <1>4
    <3>2. path[2] = BodyNode /\ n >= 2
      BY <1>1, <3>1
    <3>3. isInsideBody
      BY <1>2, <3>2, DepthsOf
    <3>4. n = 2
      BY <1>1, <1>5, <3>3
    <3> QED
      BY <3>1, <3>4
  <2> QED
    BY <1>3, <1>8, <2>1 DEF FlagsMirrorPath
<1>12. StacksMirrorPath'
  BY <1>2, <1>3 DEF IInv, StacksMirrorPath
<1>13. BuildersMirrorPath'
  <2>1. KeepsStack(output, output')
    BY <1>3 DEF KeepsStack, IInv, TypeOK, TransformerTypeOK
  <2>2. OpenInBody(ContainerTags)' = {}
    BY <1>3 DEF OpenInBody
  <2>3. OpenInBody(ContainerTags) = {}
    <3>1. SUFFICES ASSUME isInsideBody, NEW i \in 2 .. AcceptedDepth, path[i].tag \in ContainerTags
                   PROVE  FALSE
      BY DEF OpenInBody
    <3>2. i = 2 /\ path[2] = BodyNode
      BY <1>1, <1>2, <1>5, <3>1
    <3> QED
      BY <3>1, <3>2, DocumentAssumption DEF ContainerTags, ListTags
  <2> QED
    BY <2>1, <2>2, <2>3, BuildersKept
<1>14. OnlyLinksThrow'
  BY <1>3 DEF OnlyLinksThrow, Running
<1> QED
  BY <1>6, <1>7, <1>9, <1>10, <1>11, <1>12, <1>13, <1>14 DEF IInv

\* The element that ends below the body was open in it, above all others.
LEMMA OpenLeft ==
  ASSUME IInv, Running, NEW e \in Elements, End(e), EndReachesBuilders(e), NEW tags
  PROVE  /\ OpenInBody(tags) \in SUBSET Nat
         /\ \A i \in OpenInBody(tags) : i <= Len(path)
         /\ \A i \in OpenInBody(tags) \ {Len(path)} : path'[i] = path[i]
         /\ e.tag \in tags <=> Len(path) \in OpenInBody(tags)
         /\ isInsideBody' /\ ignoredTagDepth' = 0
              => OpenInBody(tags)' = OpenInBody(tags) \ {Len(path)}
<1> DEFINE n == Len(path)
<1>1. /\ n \in Nat /\ Len(path') = n - 1
      /\ \A i \in 1 .. n - 1 : path'[i] = path[i]
      /\ e = path[n]
  BY EndShortens
<1>2. isInsideBody /\ AcceptedDepth = n /\ n >= 3
  BY LeftPlace
<1>3. OpenInBody(tags) = {i \in 2 .. n : path[i].tag \in tags}
  BY <1>2 DEF OpenInBody
<1>4. ASSUME isInsideBody', ignoredTagDepth' = 0
      PROVE  OpenInBody(tags)' = OpenInBody(tags) \ {n}
  <2>1. AcceptedDepth' = n - 1
    BY <1>1, <1>4 DEF AcceptedDepth
  <2>2. OpenInBody(tags)' = {i \in 2 .. n - 1 : path'[i].tag \in tags}
    BY <1>4, <2>1 DEF OpenInBody
  <2> QED
    BY <1>1, <1>3, <2>2
<1> QED
  BY <1>1, <1>2, <1>3, <1>4

\* Leaving an element keeps the builders in step with the open containers.
LEMMA LeaveKeepsBuilders ==
  ASSUME IInv, Running, NEW e \in Elements, End(e), Leave(e), EndReachesBuilders(e),
         \/ e.tag \in ContainerTags /\ PopsBuilder(output, output')
         \/ e.tag \notin ContainerTags /\ KeepsStack(output, output')
  PROVE  BuildersMirrorPath'
<1> DEFINE open == OpenInBody(ContainerTags)
           n == Len(path)
<1>1. isInsideBody' /\ ignoredTagDepth' = 0
  BY LeftPlace DEF Leave, EndFlags
<1>2. /\ open \in SUBSET Nat
      /\ \A i \in open : i <= n
      /\ \A i \in open \ {n} : path'[i] = path[i]
      /\ e.tag \in ContainerTags <=> n \in open
      /\ open' = open \ {n}
  BY <1>1, OpenLeft
<1>3. BuildersMatch(output.builders, path, open) /\ IsOutput(output)
  BY MirrorIsMatch DEF IInv, TypeOK, TransformerTypeOK
<1>4. CASE e.tag \in ContainerTags
  <2> HIDE DEF open, n
  <2>1. BuildersMatch(output'.builders, path', open \ {n})
    BY <1>2, <1>3, <1>4, MatchPopped
  <2>2. BuildersMatch(output.builders, path, OpenInBody(ContainerTags))'
    BY <1>2, <2>1 DEF open
  <2> QED
    BY <2>2, MatchIsMirror
<1>5. CASE e.tag \notin ContainerTags
  BY <1>2, <1>5, BuildersKept
<1> QED
  BY <1>4, <1>5

\* Leaving an element keeps the inductive invariant.
LEMMA LeaveKeeps ==
  ASSUME IInv, Running, NEW e \in Elements, End(e), Leave(e),
         \/ e.tag \in ContainerTags /\ PopsBuilder(output, output')
         \/ e.tag \notin ContainerTags /\ KeepsStack(output, output')
  PROVE  IInv'
<1> DEFINE n == Len(path)
<1>1. EndReachesBuilders(e)
  BY DEF Leave, EndReachesBuilders
<1>2. /\ path' \in Seq(Elements)
      /\ n \in Nat /\ Len(path') = n - 1
      /\ \A i \in 1 .. n - 1 : path'[i] = path[i]
      /\ e = path[n]
      /\ stage' = stage /\ started' = started /\ received' = received
  BY EndShortens
<1>3. /\ isInsideBody /\ InsideBodyAfter(e)
      /\ n >= 3 /\ path[2] = BodyNode
      /\ ignoredTagDepth = 0 /\ AcceptedDepth = n
  BY <1>1, LeftPlace
<1>4. /\ isInsideBody' = InsideBodyAfter(e) /\ isInsideBody'
      /\ isInsideTitle' = InsideTitleAfter(e)
      /\ isInsideBlockquote' = (isInsideBlockquote /\ e.tag # "blockquote")
      /\ isInsidePreTag' = (isInsidePreTag /\ e.tag # "pre")
      /\ styleStack' \in {styleStack, Front(styleStack)}
      /\ styleStack = <<>> => styleStack' = styleStack
      /\ idStack' = Front(idStack) /\ tagStack' = Front(tagStack)
      /\ UNCHANGED <<ignoredTagDepth, title, article, raised>>
  BY <1>1, <1>3, EntriesAreThere DEF Leave, EndFlags, PopStacks
<1>5. AcceptedDepth' = n - 1
  BY <1>2, <1>3, <1>4 DEF AcceptedDepth
<1>6. idStack \in Seq(Name) /\ tagStack \in Seq(Name) /\ styleStack \in Seq(Styles)
  BY DEF IInv, TypeOK, TransformerTypeOK
<1>7. article = <<>>
  BY DEF IInv, FlagsKnowTheirPlace
<1>8. StacksMirrorPath' /\ idStack # <<>> /\ tagStack # <<>>
  <2>1. StacksMatch(idStack, tagStack, 0, isInsideBody, path, n)
    BY <1>3, StacksMirrorIsMatch DEF IInv, StacksMatchPath
  <2>2. \A i \in 2 .. n - 1 : path'[i] = path[i]
    BY <1>2
  <2>3. /\ idStack # <<>> /\ tagStack # <<>>
        /\ StacksMatch(idStack', tagStack', 0, isInsideBody, path', n - 1)
    BY <1>2, <1>3, <1>4, <1>6, <2>1, <2>2, LeftPopped
  <2>4. isInsideBody' = isInsideBody
    BY <1>3, <1>4 DEF IInv, TypeOK, TransformerTypeOK, InsideBodyAfter
  <2>5. StacksMatchPath'
    BY <1>3, <1>4, <1>5, <2>3, <2>4 DEF StacksMatchPath
  <2> QED
    BY <2>3, <2>5, StacksMatchIsMirror
<1>9. TypeOK'
  <2>1. idStack' \in Seq(Name) /\ tagStack' \in Seq(Name)
    BY <1>4, <1>6, <1>8, LastFront
  <2>2. styleStack' \in Seq(Styles)
    BY <1>4, <1>6, LastFront
  <2>3. IsOutput(output')
    BY DEF KeepsStack, PopsBuilder
  <2>4. article' \in Seq(1 .. Len(output'.built))
    BY <1>4, <1>7
  <2>5. /\ isInsideBody' \in BOOLEAN /\ isInsideTitle' \in BOOLEAN
        /\ isInsideBlockquote' \in BOOLEAN /\ isInsidePreTag' \in BOOLEAN
    BY <1>4 DEF InsideBodyAfter, InsideTitleAfter
  <2> QED
    BY <1>2, <1>4, <2>1, <2>2, <2>3, <2>4, <2>5 DEF IInv, TypeOK, TransformerTypeOK
<1>10. DocumentShape'
  BY EndKeepsShape
<1>11. FlagsKnowTheirPlace'
  BY <1>4, <1>7 DEF FlagsKnowTheirPlace
<1>12. IgnoredDepthIsExact'
  <2>1. \A i \in 1 .. n - 1 : ~RejectsElement(path'[i])
    BY <1>2, <1>3, DepthsOf
  <2> QED
    BY <1>2, <1>3, <1>4, <1>5, <2>1 DEF IgnoredDepthIsExact, RejectsElement
<1>13. FlagsMirrorPath'
  <2>1. AcceptedDepth' >= 2 /\ path'[2] = BodyNode
    BY <1>2, <1>3, <1>5
  <2>2. ASSUME NEW tag, e.tag # tag, \E i \in 2 .. AcceptedDepth : path[i].tag = tag
        PROVE  \E i \in 2 .. AcceptedDepth' : path'[i].tag = tag
    <3>1. PICK i \in 2 .. n : path[i].tag = tag
      BY <1>3, <2>2
    <3>2. i \in 2 .. n - 1
      BY <1>2, <2>2, <3>1
    <3>3. path'[i] = path[i]
      BY <1>2, <3>2
    <3> QED
      BY <1>5, <3>1, <3>2, <3>3
  <2>3. isInsideTitle' => \E i \in 2 .. AcceptedDepth' : path'[i].tag = "title"
    BY <1>4, <2>2 DEF IInv, FlagsMirrorPath, InsideTitleAfter
  <2>4. isInsideBlockquote' => \E i \in 2 .. AcceptedDepth' : path'[i].tag = "blockquote"
    BY <1>4, <2>2 DEF IInv, FlagsMirrorPath
  <2>5. isInsidePreTag' => \E i \in 2 .. AcceptedDepth' : path'[i].tag = "pre"
    BY <1>4, <2>2 DEF IInv, FlagsMirrorPath
  <2> QED
    BY <1>4, <2>1, <2>3, <2>4, <2>5 DEF FlagsMirrorPath
<1>14. BuildersMirrorPath'
  BY <1>1, LeaveKeepsBuilders
<1>15. OnlyLinksThrow'
  BY <1>4 DEF OnlyLinksThrow, Running
<1> QED
  BY <1>8, <1>9, <1>10, <1>11, <1>12, <1>13, <1>14, <1>15 DEF IInv

\* An end tag of a list, an item or a table finds its builder on top.
LEMMA BuilderIsOnTop ==
  ASSUME IInv, Running, NEW e \in Elements, End(e), EndReachesBuilders(e), e.tag \in ContainerTags
  PROVE  /\ Len(output.builders) > 1
         /\ output.builders[Len(output.builders)].kind = BuilderKind(e.tag)
         /\ Last(Flushed(e.tag).builders).kind = BuilderKind(e.tag)
<1> DEFINE open == OpenInBody(ContainerTags)
           n == Len(path)
<1>1. open \in SUBSET Nat /\ n \in open /\ \A i \in open : i <= n
  BY OpenLeft
<1>2. BuildersMatch(output.builders, path, open) /\ IsOutput(output)
  BY MirrorIsMatch DEF IInv, TypeOK, TransformerTypeOK
<1>3. e = path[n]
  BY EndShortens
<1> HIDE DEF open, n
<1>4. Len(output.builders) > 1 /\ output.builders[Len(output.builders)].kind = BuilderKind(path[n].tag)
  BY <1>1, <1>2, MatchPopped
<1>5. output.builders # <<>> /\ TransformerTypeOK
  BY DEF IInv, TypeOK, BuildersMirrorPath
<1>6. Last(Flushed(e.tag).builders).kind = output.builders[Len(output.builders)].kind
  BY <1>5, FlushedIsOutput
<1> QED
  BY <1>3, <1>4, <1>6

\* onEndTag always finds the builder it casts to, of the kind it expects.
LEMMA EndNeverThrows ==
  ASSUME IInv, Running, NEW e \in Elements, End(e)
  PROVE  ~EndThrows(e)
<1>1. ~(EndReachesBuilders(e) /\ WrongItem(e))
  <2>1. SUFFICES ASSUME EndReachesBuilders(e), WrongItem(e)
                 PROVE  FALSE
    OBVIOUS
  <2>2. e.tag = "li" /\ Last(Flushed(e.tag).builders).kind # "Item"
    BY <2>1 DEF WrongItem
  <2>3. e.tag \in ContainerTags /\ BuilderKind(e.tag) = "Item"
    BY <2>2 DEF ContainerTags, ListTags, BuilderKind
  <2> QED
    BY <2>1, <2>2, <2>3, BuilderIsOnTop
<1>2. ~(EndReachesBuilders(e) /\ EmptyItemOnTop(e))
  <2>1. SUFFICES ASSUME EndReachesBuilders(e), EmptyItemOnTop(e)
                 PROVE  FALSE
    OBVIOUS
  <2>2. e.tag \in ListTags \union {"table"} /\ Last(Flushed(e.tag).builders).kind = "Item"
    BY <2>1 DEF EmptyItemOnTop
  <2>3. e.tag \in ContainerTags /\ BuilderKind(e.tag) # "Item"
    BY <2>2 DEF ContainerTags, ListTags, BuilderKind
  <2> QED
    BY <2>1, <2>2, <2>3, BuilderIsOnTop
<1> QED
  BY <1>1, <1>2 DEF EndThrows

\* onEndTag keeps the inductive invariant, whatever the tag.
LEMMA OnEndTagKeeps ==
  ASSUME FilterIsMonotone, IInv, Running, NEW e \in Elements, End(e), OnEndTag(e)
  PROVE  IInv'
<1>1. TransformerTypeOK /\ output.builders # <<>> /\ e \in ElementType
  BY ElementsAreTyped DEF IInv, TypeOK, BuildersMirrorPath
<1>2. CASE EndIgnored(e)
  BY <1>2, EndIgnoredKeeps
<1>3. CASE EndOutside(e)
  BY <1>3, EndOutsideKeeps
<1>4. CASE EndThrows(e)
  BY <1>4, EndNeverThrows
<1>5. CASE EndItem(e)
  <2>1. Leave(e) /\ e.tag \in ContainerTags
    BY <1>5 DEF EndItem, ContainerTags
  <2>2. PopsBuilder(output, output')
    BY <1>1, <1>5, <2>1, BuilderIsOnTop, EndPops DEF Leave, EndReachesBuilders
  <2> QED
    BY <2>1, <2>2, LeaveKeeps
<1>6. CASE EndContainer(e)
  <2>1. Leave(e) /\ e.tag \in ContainerTags /\ BuilderKind(e.tag) \in {"List", "Table"}
    BY <1>6 DEF EndContainer, ContainerTags, ListTags, BuilderKind
  <2>2. PopsBuilder(output, output')
    BY <1>1, <1>6, <2>1, BuilderIsOnTop, EndPops DEF Leave, EndReachesBuilders
  <2> QED
    BY <2>1, <2>2, LeaveKeeps
<1>7. CASE EndQuotation(e) \/ EndAnchor(e) \/ EndPlain(e)
  <2>1. Leave(e) /\ e.tag \notin ContainerTags
    BY <1>7 DEF EndQuotation, EndAnchor, EndPlain, ContainerTags, ListTags
  <2>2. KeepsStack(output, output')
    BY <1>1, <1>7, EndKeeps
  <2> QED
    BY <2>1, <2>2, LeaveKeeps
<1> QED
  BY <1>2, <1>3, <1>4, <1>5, <1>6, <1>7 DEF OnEndTag

-----------------------------------------------------------------------------
(* Text, the end of the walk and the next call. *)

\* onText keeps the inductive invariant.
LEMMA OnTextKeeps ==
  ASSUME IInv, Running, NEW kind \in TextKinds, Deliver(kind), OnText(kind, Len(received) + 1)
  PROVE  IInv'
<1>1. path \in Seq(Elements) /\ received \in Seq([path: Seq(Elements), kind: TextKinds])
  BY DEF IInv, TypeOK
<1>2. path' = path /\ stage' = stage /\ started' = started
  BY DEF Deliver
<1>3. received' \in Seq([path: Seq(Elements), kind: TextKinds])
  <2>1. [path |-> path, kind |-> kind] \in [path: Seq(Elements), kind: TextKinds]
    BY <1>1
  <2> QED
    BY <1>1, <2>1, Appended DEF Deliver
<1>4. Len(received) + 1 \in Nat
  BY <1>1
<1>5. KeepsStack(output, output')
  BY <1>4, TextKeeps DEF IInv, TypeOK
<1>6. /\ UNCHANGED <<styleStack, idStack, tagStack, ignoredTagDepth, isInsidePreTag, isInsideBody,
                     isInsideTitle, isInsideBlockquote, article, raised>>
      /\ title' \in Nat
  BY <1>4 DEF OnText, TextIgnored, TextOfTitle, TextOfBody, transformerVars, stacks, flags, IInv, TypeOK,
              TransformerTypeOK
<1>7. article = <<>>
  BY DEF IInv, FlagsKnowTheirPlace
<1>8. TypeOK'
  BY <1>1, <1>2, <1>3, <1>5, <1>6, <1>7 DEF IInv, TypeOK, TransformerTypeOK, KeepsStack
<1>9. BuildersMirrorPath'
  <2>1. OpenInBody(ContainerTags)' = OpenInBody(ContainerTags)
    BY <1>2, <1>6 DEF OpenInBody, AcceptedDepth
  <2> QED
    BY <1>2, <1>5, <2>1, BuildersKept
<1>10. DocumentShape'
  BY <1>2 DEF IInv, DocumentShape, InHead
<1>11. FlagsKnowTheirPlace'
  BY <1>2, <1>6 DEF IInv, FlagsKnowTheirPlace, InHead
<1>12. IgnoredDepthIsExact' /\ FlagsMirrorPath' /\ StacksMirrorPath'
  BY <1>2, <1>6 DEF IInv, IgnoredDepthIsExact, FlagsMirrorPath, StacksMirrorPath, AcceptedDepth
<1>13. OnlyLinksThrow'
  BY <1>6 DEF OnlyLinksThrow, Running
<1> QED
  BY <1>8, <1>9, <1>10, <1>11, <1>12, <1>13 DEF IInv

\* When the walk is over every builder but the root was finished.
LEMMA RootIsOnTop ==
  ASSUME IInv, Running, path = <<>>
  PROVE  /\ output.builders[Len(output.builders)].kind = "Root" /\ output.builders # <<>>
         /\ Len(output.builders) = 1
<1>1. BuildersMatch(output.builders, path, OpenInBody(ContainerTags)) /\ IsOutput(output)
  BY MirrorIsMatch DEF IInv, TypeOK, TransformerTypeOK
<1>2. OpenInBody(ContainerTags) = {}
  <2>1. ~isInsideBody
    BY DepthsOf
  <2> QED
    BY <2>1 DEF OpenInBody
<1>3. PICK above \in Nat : above = Len(output.builders) - 1 /\ Len(output.builders) = above + 1
  <2>1. Len(output.builders) \in Nat /\ output.builders # <<>> /\ Len(output.builders) # 0
    BY <1>1 DEF IsOutput, Output, BuildersMatch
  <2> QED
    BY <2>1
<1>4. PICK f : Enumerates(f, above, {})
  BY <1>1, <1>2, <1>3 DEF BuildersMatch
<1>5. above = 0
  <2>1. SUFFICES ASSUME above # 0
                 PROVE  FALSE
    OBVIOUS
  <2>2. 1 \in 1 .. above
    BY <2>1
  <2>3. f[1] \in {}
    BY <1>4, <2>2, EnumerationRange
  <2> QED
    BY <2>3
<1> QED
  BY <1>1, <1>3, <1>5 DEF BuildersMatch

\* The return of transform() keeps the inductive invariant.
LEMMA ReturnKeeps ==
  ASSUME IInv, Return
  PROVE  IInv'
<1>1. /\ Running /\ path = <<>>
      /\ stage' = "returned" /\ path' = path /\ started' = started /\ received' = received
      /\ TransformerFinish
  BY DEF Return
<1>2. output.builders[Len(output.builders)].kind = "Root" /\ output.builders # <<>>
  BY <1>1, RootIsOnTop
<1>3. IsOutput(output') /\ article' \in Seq(1 .. Len(output'.built))
  BY <1>1, <1>2, FinishType DEF IInv, TypeOK
<1>4. UNCHANGED <<styleStack, idStack, tagStack, ignoredTagDepth, isInsidePreTag, isInsideBody,
                  isInsideTitle, isInsideBlockquote, title, raised>>
  BY <1>1 DEF TransformerFinish, stacks, flags
<1>5. TypeOK'
  BY <1>1, <1>3, <1>4 DEF IInv, TypeOK, TransformerTypeOK, Stages
<1>6. ~Running'
  BY <1>1 DEF Running
<1>7. OnlyLinksThrow'
  BY <1>1, <1>4 DEF OnlyLinksThrow, Running
<1> QED
  BY <1>5, <1>6, <1>7
     DEF IInv, DocumentShape, FlagsKnowTheirPlace, IgnoredDepthIsExact, FlagsMirrorPath, StacksMirrorPath,
         BuildersMirrorPath

\* When transform() has reset its fields the inductive invariant holds.
LEMMA InitIsFine == Init => IInv
<1> SUFFICES ASSUME Init
             PROVE  IInv
  OBVIOUS
<1>1. IsOutput(output) /\ output.builders = <<RootBuilder>> /\ output.builders[1].kind = "Root"
  <2>1. EmptyText \in Text
    BY DEF EmptyText, Text
  <2>2. RootBuilder \in Builder(1 .. 0) /\ RootBuilder.kind = "Root"
    BY DEF RootBuilder, Builder
  <2> QED
    BY <2>1, <2>2 DEF Init, IsOutput, Output
<1>2. TypeOK
  <2>1. article \in Seq(1 .. Len(output.built)) /\ received \in Seq([path: Seq(Elements), kind: TextKinds])
    BY DEF Init
  <2>2. path \in Seq(Elements) /\ stage \in Stages /\ started \in Nat
    BY DEF Init, Stages
  <2>3. /\ styleStack \in Seq(Styles)
        /\ idStack \in Seq(Name)
        /\ tagStack \in Seq(Name)
    BY DEF Init
  <2>4. /\ ignoredTagDepth \in Nat
        /\ isInsidePreTag \in BOOLEAN
        /\ isInsideBody \in BOOLEAN
        /\ isInsideTitle \in BOOLEAN
        /\ isInsideBlockquote \in BOOLEAN
        /\ title \in Nat
        /\ raised \in {"none", "ClassCast", "EmptyStack", "NoSuchElement", "IllegalArgument"}
    BY DEF Init
  <2> QED
    BY <1>1, <2>1, <2>2, <2>3, <2>4 DEF TypeOK, TransformerTypeOK
<1>3. BuildersMirrorPath
  <2>1. OpenInBody(ContainerTags) = {}
    BY DEF Init, OpenInBody
  <2> DEFINE f == [i \in 1 .. 0 |-> 0]
  <2>2. Enumerates(f, 0, {}) /\ f \in [1 .. 0 -> {}]
    BY DEF Enumerates
  <2>3. Len(output.builders) - 1 = 0 /\ output.builders # <<>>
    BY <1>1
  <2> QED
    BY <1>1, <2>1, <2>2, <2>3 DEF BuildersMirrorPath
<1>4. DocumentShape /\ FlagsKnowTheirPlace /\ IgnoredDepthIsExact /\ FlagsMirrorPath /\ StacksMirrorPath
      /\ OnlyLinksThrow
  BY DEF Init, DocumentShape, FlagsKnowTheirPlace, IgnoredDepthIsExact, FlagsMirrorPath, StacksMirrorPath,
         OnlyLinksThrow, AcceptedDepth
<1> QED
  BY <1>2, <1>3, <1>4 DEF IInv

\* reset() puts the transformer back where it began.
LEMMA AgainIsInit == TransformAgain => Init'
BY DEF TransformAgain, TransformerReset, Init

\* Every callback keeps the inductive invariant.
LEMMA NextKeeps ==
  ASSUME FilterIsMonotone
  PROVE  IInv /\ [Next]_vars => IInv'
<1> SUFFICES ASSUME IInv, [Next]_vars
             PROVE  IInv'
  OBVIOUS
<1>1. CASE StartTag
  <2>1. PICK e \in Elements : Start(e) /\ OnStartTag(e)
    BY <1>1 DEF StartTag
  <2> QED
    BY <2>1, OnStartTagKeeps DEF Start
<1>2. CASE EndTag
  <2>1. PICK e \in Elements : End(e) /\ OnEndTag(e)
    BY <1>2 DEF EndTag
  <2> QED
    BY <2>1, OnEndTagKeeps DEF End
<1>3. CASE TextOrWhitespace
  <2>1. PICK kind \in TextKinds : Deliver(kind) /\ OnText(kind, Len(received) + 1)
    BY <1>3 DEF TextOrWhitespace
  <2> QED
    BY <2>1, OnTextKeeps DEF Deliver
<1>4. CASE Return
  BY <1>4, ReturnKeeps
<1>5. CASE TransformAgain
  <2>1. Init'
    BY <1>5, AgainIsInit
  <2>2. Init' => IInv'
    BY InitIsFine, PTL
  <2> QED
    BY <2>1, <2>2
<1>6. CASE UNCHANGED vars
  <2>1. /\ path' = path /\ stage' = stage /\ started' = started /\ received' = received
        /\ raised' = raised /\ title' = title /\ article' = article /\ output' = output
        /\ styleStack' = styleStack /\ idStack' = idStack /\ tagStack' = tagStack
        /\ ignoredTagDepth' = ignoredTagDepth /\ isInsidePreTag' = isInsidePreTag
        /\ isInsideBody' = isInsideBody /\ isInsideTitle' = isInsideTitle
        /\ isInsideBlockquote' = isInsideBlockquote
    BY <1>6 DEF vars, transformerVars, walkVars, stacks, flags
  <2>2. TypeOK'
    BY <2>1 DEF IInv, TypeOK, TransformerTypeOK
  <2>3. DocumentShape' /\ FlagsKnowTheirPlace'
    BY <2>1 DEF IInv, DocumentShape, FlagsKnowTheirPlace, Running, InHead
  <2>4. IgnoredDepthIsExact' /\ FlagsMirrorPath'
    BY <2>1 DEF IInv, IgnoredDepthIsExact, FlagsMirrorPath, Running, AcceptedDepth
  <2>5. StacksMirrorPath'
    BY <2>1 DEF IInv, StacksMirrorPath, Running, AcceptedDepth
  <2>6. BuildersMirrorPath'
    BY <2>1 DEF IInv, BuildersMirrorPath, Running, AcceptedDepth, OpenInBody
  <2>7. OnlyLinksThrow'
    BY <2>1 DEF IInv, OnlyLinksThrow
  <2> QED
    BY <2>2, <2>3, <2>4, <2>5, <2>6, <2>7 DEF IInv
<1> QED
  BY <1>1, <1>2, <1>3, <1>4, <1>5, <1>6 DEF Next

-----------------------------------------------------------------------------
(* The theorems. *)

\* The inductive invariant of SaxTraversal: types, the shape of the document, and the depth,
\* the flags, the stacks and the builders of transform() in step with the open elements.
THEOREM Invariance ==
  ASSUME FilterIsMonotone
  PROVE  Spec => []IInv
<1>1. Init => IInv
  BY InitIsFine
<1>2. IInv /\ [Next]_vars => IInv'
  BY NextKeeps
<1> QED
  BY <1>1, <1>2, PTL DEF Spec

\* transform(), onStartTag, onEndTag, onText: every variable keeps its type, and no
\* builder and no element refers to an element that does not exist.
THEOREM TypeCorrectness ==
  ASSUME FilterIsMonotone
  PROVE  Spec => []TypeOK
<1>1. IInv => TypeOK
  BY DEF IInv
<1> QED
  BY <1>1, Invariance, PTL

\* mIgnoredTagDepth counts the open elements from the outermost rejected one inwards.
THEOREM IgnoredDepth ==
  ASSUME FilterIsMonotone
  PROVE  Spec => []IgnoredDepthIsExact
<1>1. IInv => IgnoredDepthIsExact
  BY DEF IInv
<1> QED
  BY <1>1, Invariance, PTL

\* mIsInsideBody, mIsInsideTitle, mIsInsideBlockquote and mIsInsidePreTag are up only
\* where they should be.
THEOREM Flags ==
  ASSUME FilterIsMonotone
  PROVE  Spec => []FlagsMirrorPath
<1>1. IInv => FlagsMirrorPath
  BY DEF IInv
<1> QED
  BY <1>1, Invariance, PTL

\* mTagStack and mIdStack follow the open elements.
THEOREM Stacks ==
  ASSUME FilterIsMonotone
  PROVE  Spec => []StacksMirrorPath
<1>1. IInv => StacksMirrorPath
  BY DEF IInv
<1> QED
  BY <1>1, Invariance, PTL

\* Each end tag finds on mBuilderStack the builder its start tag pushed.
THEOREM Builders ==
  ASSUME FilterIsMonotone
  PROVE  Spec => []BuildersMirrorPath
<1>1. IInv => BuildersMirrorPath
  BY DEF IInv
<1> QED
  BY <1>1, Invariance, PTL

\* No callback throws but onStartTag for the reference of a link.
THEOREM Exceptions ==
  ASSUME FilterIsMonotone
  PROVE  Spec => []OnlyLinksThrow
<1>1. IInv => OnlyLinksThrow
  BY DEF IInv
<1> QED
  BY <1>1, Invariance, PTL

-----------------------------------------------------------------------------
(***************************************************************************)
(* The inductive invariant: what the next text and the next flush find.    *)
(***************************************************************************)

\* f lists k of a set of positions, in increasing order.
Embeds(f, k, positions) ==
  /\ f \in [1 .. k -> positions]
  /\ \A i, j \in 1 .. k : i < j => f[i] < f[j]

\* mStyleStack holds the style of every open formatting element, the innermost on top.
StylesMatch(styles, p, C) ==
  \E f \in [1 .. Len(styles) -> C] :
    /\ Enumerates(f, Len(styles), C)
    /\ \A k \in 1 .. Len(styles) : styles[k] = StyleOf(p[f[k]].tag)

StylesFollowPath == Running => StylesMatch(styleStack, path, OpenInBody(StyledTags))

\* The links on the text builder are those of some of the open <a>, in their order: a flush
\* drops them, and </a> pops whatever is on top.
LinksMatch(links, p, C) ==
  \E f \in [1 .. Len(links) -> C] :
    /\ Embeds(f, Len(links), C)
    /\ \A k \in 1 .. Len(links) : links[k] = p[f[k]].href

LinksFollowPath == Running => LinksMatch(output.text.links, path, OpenInBody({"a"}))

\* The words not flushed yet stood in every block element that is open.
Pending == Numbered(output.text.words)

TagsIn(rec, n) == {rec[n].path[i].tag : i \in DOMAIN rec[n].path}

PendingWordsAreInside ==
  Running =>
    \A i \in OpenInBody(BlockTags) : \A w \in Pending : path[i].tag \in TagsIn(received, w.n)

\* Below the open elements of the body mTagStack holds what </title> and </body> left.
LeftoverMatch(tags, inBody, n) ==
  \A k \in 1 .. Len(tags) :
    tags[k] \in {"title", "body", NoTag} \/ (inBody /\ k > Len(tags) - n + 2)

LeftoverTags == Running => LeftoverMatch(tagStack, isInsideBody, Len(path))

\* What the three properties ask of a word and of the element it is in.
WordFits(w, rec) ==
  /\ w.n \in 1 .. Len(rec)
  /\ w.styles = {StyleOf(tag) : tag \in TagsIn(rec, w.n) \intersect StyledTags}
  /\ w.links \subseteq
       {rec[w.n].path[i].href : i \in {j \in DOMAIN rec[w.n].path : rec[w.n].path[j].tag = "a"}}

LabelFits(element, w, rec) ==
  /\ element.kind = "Quote" => "blockquote" \in TagsIn(rec, w.n)
  /\ element.kind = "Text" /\ element.tag \in HeadingTags \union {"pre"} => element.tag \in TagsIn(rec, w.n)

LeavesOf(o) == {o.built[i] : i \in {j \in DOMAIN o.built : o.built[j].kind \in {"Text", "Quote"}}}

WordsFit ==
  /\ \A w \in Pending : WordFits(w, received)
  /\ \A element \in LeavesOf(output) : \A w \in Numbered(element.words) :
       WordFits(w, received) /\ LabelFits(element, w, received)

AInv ==
  /\ WordsFit
  /\ StylesFollowPath
  /\ LinksFollowPath
  /\ PendingWordsAreInside
  /\ LeftoverTags

-----------------------------------------------------------------------------
(* Styles and links when positions are opened and closed. *)

\* An embedding with one more position, above all others.
LEMMA EmbeddingGrows ==
  ASSUME NEW k \in Nat, NEW C \in SUBSET Nat, NEW f, Embeds(f, k, C),
         NEW p \in Nat, \A c \in C : c < p
  PROVE  Embeds(Extended(f, k, p), k + 1, C \union {p})
<1> DEFINE g == Extended(f, k, p)
<1>1. \A i \in 1 .. k : f[i] \in C
  BY DEF Embeds
<1>2. g \in [1 .. k + 1 -> C \union {p}]
  BY <1>1 DEF Extended
<1>3. (\A i \in 1 .. k : g[i] = f[i]) /\ g[k + 1] = p
  BY DEF Extended
<1> HIDE DEF g
<1>4. ASSUME NEW i \in 1 .. k + 1, NEW j \in 1 .. k + 1, i < j
      PROVE  g[i] < g[j]
  <2>1. i \in 1 .. k /\ g[i] \in C
    BY <1>1, <1>3, <1>4
  <2>2. CASE j = k + 1
    BY <1>3, <2>1, <2>2
  <2>3. CASE j # k + 1
    BY <1>3, <1>4, <2>1, <2>3 DEF Embeds
  <2> QED
    BY <2>2, <2>3
<1>5. Embeds(g, k + 1, C \union {p})
  BY <1>2, <1>4 DEF Embeds
<1> QED
  BY <1>5 DEF g

\* An embedding without its last entry avoids the largest position.
LEMMA EmbeddingShrinks ==
  ASSUME NEW k \in Nat, k > 0, NEW C \in SUBSET Nat, NEW f, Embeds(f, k, C),
         NEW p \in Nat, \A c \in C : c <= p
  PROVE  Embeds(Shortened(f, k), k - 1, C \ {p})
<1> DEFINE g == Shortened(f, k)
<1>1. ASSUME NEW i \in 1 .. k - 1
      PROVE  f[i] \in C \ {p}
  <2>1. i \in 1 .. k /\ k \in 1 .. k /\ i < k
    OBVIOUS
  <2>2. f[i] \in C /\ f[k] \in C /\ f[i] < f[k]
    BY <2>1 DEF Embeds
  <2>3. f[i] \in Nat /\ f[k] \in Nat /\ f[k] <= p
    BY <2>2
  <2>4. f[i] # p
    BY <2>2, <2>3
  <2> QED
    BY <2>2, <2>4
<1>2. g \in [1 .. k - 1 -> C \ {p}] /\ \A i \in 1 .. k - 1 : g[i] = f[i]
  BY <1>1 DEF Shortened
<1> HIDE DEF g
<1>3. Embeds(g, k - 1, C \ {p})
  BY <1>2 DEF Embeds
<1> QED
  BY <1>3 DEF g

\* The same styles match while their elements stay.
LEMMA StylesKept ==
  ASSUME NEW S, NEW styles \in Seq(S), NEW p, NEW p2, NEW C,
         StylesMatch(styles, p, C), \A i \in C : p2[i] = p[i]
  PROVE  StylesMatch(styles, p2, C)
<1>1. PICK f \in [1 .. Len(styles) -> C] :
        /\ Enumerates(f, Len(styles), C)
        /\ \A k \in 1 .. Len(styles) : styles[k] = StyleOf(p[f[k]].tag)
  BY DEF StylesMatch
<1>2. \A k \in 1 .. Len(styles) : f[k] \in C
  OBVIOUS
<1>3. \A k \in 1 .. Len(styles) : styles[k] = StyleOf(p2[f[k]].tag)
  BY <1>1, <1>2
<1> QED
  BY <1>1, <1>3 DEF StylesMatch

\* The style of an element just opened goes on top.
LEMMA StylesPushed ==
  ASSUME NEW S, NEW styles \in Seq(S), NEW p, NEW p2, NEW C \in SUBSET Nat, NEW n \in Nat,
         StylesMatch(styles, p, C), \A i \in C : i < n /\ p2[i] = p[i],
         StyleOf(p2[n].tag) \in S
  PROVE  StylesMatch(Append(styles, StyleOf(p2[n].tag)), p2, C \union {n})
<1> DEFINE k == Len(styles)
           styles2 == Append(styles, StyleOf(p2[n].tag))
<1>1. PICK f \in [1 .. k -> C] :
        /\ Enumerates(f, k, C)
        /\ \A i \in 1 .. k : styles[i] = StyleOf(p[f[i]].tag)
  BY DEF StylesMatch
<1>2. /\ k \in Nat /\ Len(styles2) = k + 1
      /\ styles2[k + 1] = StyleOf(p2[n].tag)
      /\ \A i \in 1 .. k : styles2[i] = styles[i]
  BY Appended
<1> HIDE DEF k, styles2
<1> DEFINE g == Extended(f, k, n)
<1>3. Enumerates(g, k + 1, C \union {n})
  BY <1>1, <1>2, EnumerationGrows
<1>4. (\A i \in 1 .. k : g[i] = f[i]) /\ g[k + 1] = n
  <2>1. k \in Nat
    BY <1>2
  <2> QED
    BY <2>1, EntriesOf
<1> HIDE DEF g
<1>5. ASSUME NEW i \in 1 .. k + 1
      PROVE  styles2[i] = StyleOf(p2[g[i]].tag)
  <2>1. CASE i = k + 1
    BY <1>2, <1>4, <2>1
  <2>2. CASE i # k + 1
    <3>1. i \in 1 .. k
      BY <1>2, <2>2
    <3>2. f[i] \in C
      BY <3>1
    <3> QED
      BY <1>1, <1>2, <1>4, <3>1, <3>2
  <2> QED
    BY <2>1, <2>2
<1>6. g \in [1 .. k + 1 -> C \union {n}]
  BY <1>3 DEF Enumerates
<1>7. StylesMatch(styles2, p2, C \union {n})
  BY <1>2, <1>3, <1>5, <1>6 DEF StylesMatch
<1> QED
  BY <1>7 DEF styles2

\* The innermost formatting element has its style on top, and takes it with it.
LEMMA StylesPopped ==
  ASSUME NEW S, NEW styles \in Seq(S), NEW p, NEW p2, NEW C \in SUBSET Nat, NEW n \in C,
         StylesMatch(styles, p, C), \A i \in C : i <= n, \A i \in C \ {n} : p2[i] = p[i]
  PROVE  /\ styles # <<>>
         /\ StylesMatch(Front(styles), p2, C \ {n})
<1> DEFINE k == Len(styles)
           styles2 == Front(styles)
<1>1. PICK f \in [1 .. k -> C] :
        /\ Enumerates(f, k, C)
        /\ \A i \in 1 .. k : styles[i] = StyleOf(p[f[i]].tag)
  BY DEF StylesMatch
<1>2. k \in Nat /\ k > 0
  <2>1. k \in Nat
    OBVIOUS
  <2> HIDE DEF k
  <2> QED
    BY <1>1, <2>1, EnumerationLast
<1>3. styles # <<>>
  BY <1>2
<1>4. Len(styles2) = k - 1 /\ \A i \in 1 .. k - 1 : styles2[i] = styles[i]
  BY <1>3, LastFront
<1> HIDE DEF k, styles2
<1> DEFINE g == Shortened(f, k)
<1>5. Enumerates(g, k - 1, C \ {n})
  BY <1>1, <1>2, EnumerationShrinks
<1>6. \A i \in 1 .. k - 1 : g[i] = f[i]
  BY DEF Shortened
<1> HIDE DEF g
<1>7. g \in [1 .. k - 1 -> C \ {n}]
  BY <1>5 DEF Enumerates
<1>8. \A i \in 1 .. k - 1 : styles2[i] = StyleOf(p2[g[i]].tag)
  <2> SUFFICES ASSUME NEW i \in 1 .. k - 1
               PROVE  styles2[i] = StyleOf(p2[g[i]].tag)
    OBVIOUS
  <2>1. g[i] \in C \ {n}
    BY <1>7
  <2>2. i \in 1 .. k
    BY <1>2
  <2> QED
    BY <1>1, <1>4, <1>6, <2>1, <2>2
<1>9. StylesMatch(styles2, p2, C \ {n})
  BY <1>4, <1>5, <1>7, <1>8 DEF StylesMatch
<1> QED
  BY <1>3, <1>9 DEF styles2

\* The styles in force are those of the open formatting elements.
LEMMA StylesInForce ==
  ASSUME NEW S, NEW styles \in Seq(S), NEW p, NEW C, StylesMatch(styles, p, C)
  PROVE  Range(styles) = {StyleOf(p[i].tag) : i \in C}
<1>1. PICK f \in [1 .. Len(styles) -> C] :
        /\ Enumerates(f, Len(styles), C)
        /\ \A k \in 1 .. Len(styles) : styles[k] = StyleOf(p[f[k]].tag)
  BY DEF StylesMatch
<1>2. Range(styles) = {styles[k] : k \in 1 .. Len(styles)}
  BY DEF Range
<1>3. \A i \in C : \E k \in 1 .. Len(styles) : f[k] = i
  BY <1>1 DEF Enumerates
<1>4. \A k \in 1 .. Len(styles) : f[k] \in C
  OBVIOUS
<1> QED
  BY <1>1, <1>2, <1>3, <1>4

\* No link matches any path.
LEMMA NoLinks ==
  ASSUME NEW p, NEW C
  PROVE  LinksMatch(<<>>, p, C)
<1> DEFINE f == [i \in 1 .. 0 |-> 0]
<1>1. f \in [1 .. 0 -> C] /\ Embeds(f, 0, C)
  BY DEF Embeds
<1> HIDE DEF f
<1>2. Len(<<>>) = 0 /\ \A k \in 1 .. 0 : <<>>[k] = p[f[k]].href
  OBVIOUS
<1> QED
  BY <1>1, <1>2 DEF LinksMatch

\* The same links match while their elements stay.
LEMMA LinksKept ==
  ASSUME NEW S, NEW links \in Seq(S), NEW p, NEW p2, NEW C, NEW D, C \subseteq D,
         LinksMatch(links, p, C), \A i \in C : p2[i] = p[i]
  PROVE  LinksMatch(links, p2, D)
<1>1. PICK f \in [1 .. Len(links) -> C] :
        /\ Embeds(f, Len(links), C)
        /\ \A k \in 1 .. Len(links) : links[k] = p[f[k]].href
  BY DEF LinksMatch
<1>2. \A k \in 1 .. Len(links) : f[k] \in C
  OBVIOUS
<1>3. \A k \in 1 .. Len(links) : links[k] = p2[f[k]].href
  BY <1>1, <1>2
<1>4. f \in [1 .. Len(links) -> D]
  OBVIOUS
<1>5. Embeds(f, Len(links), D)
  BY <1>1, <1>4 DEF Embeds
<1> QED
  BY <1>3, <1>4, <1>5 DEF LinksMatch

\* The link of an <a> just opened goes on top.
LEMMA LinksPushed ==
  ASSUME NEW S, NEW links \in Seq(S), NEW p, NEW p2, NEW C \in SUBSET Nat, NEW n \in Nat,
         LinksMatch(links, p, C), \A i \in C : i < n /\ p2[i] = p[i], p2[n].href \in S
  PROVE  LinksMatch(Append(links, p2[n].href), p2, C \union {n})
<1> DEFINE k == Len(links)
           links2 == Append(links, p2[n].href)
<1>1. PICK f \in [1 .. k -> C] :
        /\ Embeds(f, k, C)
        /\ \A i \in 1 .. k : links[i] = p[f[i]].href
  BY DEF LinksMatch
<1>2. /\ k \in Nat /\ Len(links2) = k + 1
      /\ links2[k + 1] = p2[n].href
      /\ \A i \in 1 .. k : links2[i] = links[i]
  BY Appended
<1> HIDE DEF k, links2
<1> DEFINE g == Extended(f, k, n)
<1>3. Embeds(g, k + 1, C \union {n})
  BY <1>1, <1>2, EmbeddingGrows
<1>4. (\A i \in 1 .. k : g[i] = f[i]) /\ g[k + 1] = n
  <2>1. k \in Nat
    BY <1>2
  <2> QED
    BY <2>1, EntriesOf
<1> HIDE DEF g
<1>5. ASSUME NEW i \in 1 .. k + 1
      PROVE  links2[i] = p2[g[i]].href
  <2>1. CASE i = k + 1
    BY <1>2, <1>4, <2>1
  <2>2. CASE i # k + 1
    <3>1. i \in 1 .. k
      BY <1>2, <2>2
    <3>2. f[i] \in C
      BY <3>1
    <3> QED
      BY <1>1, <1>2, <1>4, <3>1, <3>2
  <2> QED
    BY <2>1, <2>2
<1>6. g \in [1 .. k + 1 -> C \union {n}]
  BY <1>3 DEF Embeds
<1>7. LinksMatch(links2, p2, C \union {n})
  BY <1>2, <1>3, <1>5, <1>6 DEF LinksMatch
<1> QED
  BY <1>7 DEF links2

\* Whatever link is on top, without it the others are links of elements above the innermost.
LEMMA LinksPopped ==
  ASSUME NEW S, NEW links \in Seq(S), links # <<>>, NEW p, NEW p2, NEW C \in SUBSET Nat, NEW n \in Nat,
         LinksMatch(links, p, C), \A i \in C : i <= n, \A i \in C \ {n} : p2[i] = p[i]
  PROVE  LinksMatch(Front(links), p2, C \ {n})
<1> DEFINE k == Len(links)
           links2 == Front(links)
<1>1. PICK f \in [1 .. k -> C] :
        /\ Embeds(f, k, C)
        /\ \A i \in 1 .. k : links[i] = p[f[i]].href
  BY DEF LinksMatch
<1>2. k \in Nat /\ k > 0
  OBVIOUS
<1>3. Len(links2) = k - 1 /\ \A i \in 1 .. k - 1 : links2[i] = links[i]
  BY LastFront
<1> HIDE DEF k, links2
<1> DEFINE g == Shortened(f, k)
<1>4. Embeds(g, k - 1, C \ {n})
  BY <1>1, <1>2, EmbeddingShrinks
<1>5. \A i \in 1 .. k - 1 : g[i] = f[i]
  BY DEF Shortened
<1> HIDE DEF g
<1>6. g \in [1 .. k - 1 -> C \ {n}]
  BY <1>4 DEF Embeds
<1>7. \A i \in 1 .. k - 1 : links2[i] = p2[g[i]].href
  <2> SUFFICES ASSUME NEW i \in 1 .. k - 1
               PROVE  links2[i] = p2[g[i]].href
    OBVIOUS
  <2>1. g[i] \in C \ {n}
    BY <1>6
  <2>2. i \in 1 .. k
    BY <1>2
  <2> QED
    BY <1>1, <1>3, <1>5, <2>1, <2>2
<1>8. LinksMatch(links2, p2, C \ {n})
  BY <1>3, <1>4, <1>6, <1>7 DEF LinksMatch
<1> QED
  BY <1>8 DEF links2

\* The links in force are those of open <a>.
LEMMA LinksInForce ==
  ASSUME NEW S, NEW links \in Seq(S), NEW p, NEW C, LinksMatch(links, p, C)
  PROVE  Range(links) \subseteq {p[i].href : i \in C}
<1>1. PICK f \in [1 .. Len(links) -> C] :
        \A k \in 1 .. Len(links) : links[k] = p[f[k]].href
  BY DEF LinksMatch
<1>2. \A k \in 1 .. Len(links) : f[k] \in C
  OBVIOUS
<1>3. Range(links) = {links[k] : k \in 1 .. Len(links)}
  BY DEF Range
<1> QED
  BY <1>1, <1>2, <1>3

-----------------------------------------------------------------------------
(* The open elements of the body when the walk enters one, or passes one.  *)

\* A tag that is entered is open, above all others.
LEMMA OpenEntered ==
  ASSUME IInv, Running, NEW e \in Elements, Start(e), Enter(e),
         NEW tags, "body" \notin tags, "title" \notin tags
  PROVE  /\ Len(path) + 1 \in Nat /\ path'[Len(path) + 1] = e
         /\ OpenInBody(tags) \in SUBSET Nat
         /\ \A i \in OpenInBody(tags) : i < Len(path) + 1 /\ path'[i] = path[i]
         /\ e.tag \in tags => OpenInBody(tags)' = OpenInBody(tags) \union {Len(path) + 1}
         /\ e.tag \notin tags => OpenInBody(tags)' = OpenInBody(tags)
<1> DEFINE n == Len(path)
           open == OpenInBody(tags)
<1>1. /\ n \in Nat /\ Len(path') = n + 1
      /\ path'[n + 1] = e
      /\ \A i \in 1 .. n : path'[i] = path[i]
  BY StartExtends
<1>2. /\ ignoredTagDepth = 0 /\ AcceptedDepth = n
      /\ e.tag \notin {"body", "title"} => isInsideBody
      /\ isInsideBody => n >= 2
  BY EnteredPlace
<1>3. /\ isInsideBody' = (isInsideBody \/ e.tag = "body")
      /\ ignoredTagDepth' = 0
  BY <1>2 DEF Enter, TakeIn
<1>4. AcceptedDepth' = n + 1
  BY <1>1, <1>2, <1>3 DEF AcceptedDepth
<1>5. open \in SUBSET Nat /\ \A i \in open : i < n + 1 /\ path'[i] = path[i]
  BY <1>1, <1>2 DEF OpenInBody
<1>6. ASSUME isInsideBody
      PROVE  open' = {i \in 2 .. n + 1 : path'[i].tag \in tags} /\ open = {i \in 2 .. n : path[i].tag \in tags}
  BY <1>2, <1>3, <1>4, <1>6 DEF OpenInBody
<1>7. ASSUME e.tag \in tags
      PROVE  open' = open \union {n + 1}
  <2>1. isInsideBody /\ n >= 2
    BY <1>2, <1>7
  <2> QED
    BY <1>1, <1>6, <1>7, <2>1
<1>8. ASSUME e.tag \notin tags
      PROVE  open' = open
  <2>1. CASE isInsideBody
    <3>1. open' = {i \in 2 .. n + 1 : path'[i].tag \in tags}
      BY <1>6, <2>1
    <3>2. open = {i \in 2 .. n : path[i].tag \in tags}
      BY <1>6, <2>1
    <3> QED
      BY <1>1, <1>8, <3>1, <3>2
  <2>2. CASE ~isInsideBody /\ e.tag = "body"
    <3>1. n = 1
      BY <2>2, StartPlace
    <3>2. open' \subseteq {i \in 2 .. 2 : path'[i].tag \in tags}
      BY <1>4, <3>1 DEF OpenInBody
    <3> QED
      BY <1>1, <1>8, <2>2, <3>1, <3>2 DEF OpenInBody
  <2>3. CASE ~isInsideBody /\ e.tag # "body"
    BY <1>3, <2>3 DEF OpenInBody
  <2> QED
    BY <2>1, <2>2, <2>3
<1> QED
  BY <1>1, <1>5, <1>7, <1>8

\* A callback for a tag that is ignored or outside the body.
Passes(e) ==
  \/ Start(e) /\ (StartIgnored(e) \/ StartOutside(e))
  \/ End(e) /\ (EndIgnored(e) \/ EndOutside(e))

\* The end tag of an accepted element is not taken for an ignored one.
LEMMA EndIgnoredIsInside ==
  ASSUME FilterIsMonotone, IInv, Running, NEW e \in Elements, End(e), EndIgnored(e)
  PROVE  ignoredTagDepth \in Nat /\ ignoredTagDepth > 0
<1>1. ignoredTagDepth \in Nat
  BY DepthsOf
<1>2. SUFFICES ASSUME ignoredTagDepth = 0
               PROVE  FALSE
  BY <1>1
<1>3. e = path[Len(path)] /\ Len(path) \in 1 .. AcceptedDepth
  BY <1>2, DepthsOf, EndShortens
<1>4. ~RejectsElement(e)
  BY <1>3, DepthsOf
<1>5. Rejects(e.tag, NoClass)
  BY <1>2 DEF EndIgnored, EndsIgnored
<1> QED
  BY <1>4, <1>5 DEF FilterIsMonotone

\* Such a callback leaves the output alone and the open elements where they are.
LEMMA OpenPassed ==
  ASSUME FilterIsMonotone, IInv, Running, NEW e \in Elements, Passes(e),
         NEW tags, "body" \notin tags
  PROVE  /\ output' = output /\ styleStack' = styleStack /\ received' = received /\ title' = title
         /\ OpenInBody(tags)' = OpenInBody(tags)
         /\ \A i \in OpenInBody(tags) : path'[i] = path[i]
<1> DEFINE n == Len(path)
<1>1. output' = output /\ styleStack' = styleStack /\ title' = title
  BY DEF Passes, StartIgnored, StartOutside, EndIgnored, EndOutside, transformerVars
<1>2. received' = received
  BY DEF Passes, Start, End
<1>3. /\ n \in Nat /\ ignoredTagDepth \in Nat
      /\ AcceptedDepth = n - ignoredTagDepth /\ AcceptedDepth \in Nat /\ AcceptedDepth <= n
  BY DepthsOf
<1>4. CASE Start(e) /\ StartIgnored(e)
  <2>1. Len(path') = n + 1 /\ \A i \in 1 .. n : path'[i] = path[i]
    BY <1>4, StartExtends
  <2>2. ignoredTagDepth' = ignoredTagDepth + 1 /\ isInsideBody' = isInsideBody
    BY <1>4 DEF StartIgnored, flags
  <2>3. AcceptedDepth' = AcceptedDepth
    BY <1>3, <2>1, <2>2 DEF AcceptedDepth
  <2>4. \A i \in 2 .. AcceptedDepth : path'[i] = path[i]
    BY <1>3, <2>1
  <2> QED
    BY <1>1, <1>2, <2>2, <2>3, <2>4, OpenKept DEF OpenInBody
<1>5. CASE Start(e) /\ StartOutside(e)
  <2>1. ~isInsideBody /\ ~isInsideBody'
    BY <1>5 DEF StartOutside, Inside, transformerVars, flags
  <2> QED
    BY <1>1, <1>2, <2>1 DEF OpenInBody
<1>6. CASE End(e) /\ EndIgnored(e)
  <2>1. Len(path') = n - 1 /\ \A i \in 1 .. n - 1 : path'[i] = path[i]
    BY <1>6, EndShortens
  <2>2. ignoredTagDepth > 0
    BY <1>6, EndIgnoredIsInside
  <2>3. ignoredTagDepth' = ignoredTagDepth - 1 /\ isInsideBody' = isInsideBody
    BY <1>6, <2>2 DEF EndIgnored, flags
  <2>4. AcceptedDepth' = AcceptedDepth
    BY <1>3, <2>1, <2>3 DEF AcceptedDepth
  <2>5. \A i \in 2 .. AcceptedDepth : path'[i] = path[i]
    BY <1>3, <2>1, <2>2
  <2> QED
    BY <1>1, <1>2, <2>3, <2>4, <2>5, OpenKept DEF OpenInBody
<1>7. CASE End(e) /\ EndOutside(e)
  <2>1. ignoredTagDepth = 0 /\ AcceptedDepth = n
    BY <1>7, DepthsOf DEF EndOutside, EndsIgnored
  <2>2. ~isInsideBody'
    BY <1>7 DEF EndOutside, EndFlags, InsideAfter
  <2>3. isInsideBody => e.tag = "body"
    BY <1>7 DEF EndOutside, InsideAfter, InsideBodyAfter
  <2>4. e.tag = "body" <=> (n = 2 /\ path[2] = BodyNode)
    BY <1>7, EndShortens
  <2>5. OpenInBody(tags) = {}
    <3>1. SUFFICES ASSUME isInsideBody, NEW i \in 2 .. AcceptedDepth, path[i].tag \in tags
                   PROVE  FALSE
      BY DEF OpenInBody
    <3>2. i = 2 /\ path[2] = BodyNode
      BY <1>3, <2>1, <2>3, <2>4, <3>1
    <3> QED
      BY <3>1, <3>2, DocumentAssumption
  <2> QED
    BY <1>1, <1>2, <2>2, <2>5 DEF OpenInBody
<1> QED
  BY <1>4, <1>5, <1>6, <1>7 DEF Passes

-----------------------------------------------------------------------------
(* The words and the texts of an output, and what the callbacks do to them. *)

\* A text without words has none that are numbered.
LEMMA NoWords == Numbered(<<>>) = {}
BY DEF Numbered, Range

\* A word more is the only word more.
LEMMA NumberedGrows ==
  ASSUME NEW words \in Seq(Word), NEW word \in Word
  PROVE  \A w \in Numbered(Append(words, word)) : w \in Numbered(words) \/ (w = word /\ word.n > 0)
<1>1. /\ Append(words, word) \in Seq(Word)
      /\ Len(words) \in Nat /\ Len(Append(words, word)) = Len(words) + 1
      /\ Append(words, word)[Len(words) + 1] = word
      /\ \A i \in 1 .. Len(words) : Append(words, word)[i] = words[i]
  BY Appended
<1> SUFFICES ASSUME NEW w \in Numbered(Append(words, word))
             PROVE  w \in Numbered(words) \/ (w = word /\ word.n > 0)
  OBVIOUS
<1>2. PICK i \in 1 .. Len(words) + 1 : w = Append(words, word)[i] /\ w.n > 0
  BY <1>1 DEF Numbered, Range
<1>3. CASE i = Len(words) + 1
  BY <1>1, <1>2, <1>3
<1>4. CASE i # Len(words) + 1
  <2>1. i \in 1 .. Len(words) /\ w = words[i]
    BY <1>1, <1>2, <1>4
  <2> QED
    BY <1>2, <2>1 DEF Numbered, Range
<1> QED
  BY <1>3, <1>4

\* An output with the texts of another and no other.
SameTexts(o, p) == LeavesOf(p) \subseteq LeavesOf(o) /\ p.text = o.text

\* A new element is the only new one, and the text being built is left alone.
LEMMA NewElementTexts ==
  ASSUME NEW o, IsOutput(o), NEW element \in ArticleElement(1 .. Len(o.built))
  PROVE  /\ AddNewElement(o, element).text = o.text
         /\ LeavesOf(AddNewElement(o, element)) \subseteq LeavesOf(o) \union {element}
         /\ element.kind \notin {"Text", "Quote"} => SameTexts(o, AddNewElement(o, element))
<1> DEFINE n == Len(o.built)
           p == AddNewElement(o, element)
<1>1. n \in Nat /\ o.built \in Seq(ArticleElement(1 .. n))
  BY DEF IsOutput, Output
<1>2. p.built = Append(o.built, element) /\ p.text = o.text
  BY DEF AddNewElement, AddElement, IsOutput, Output
<1>3. /\ Len(p.built) = n + 1
      /\ p.built[n + 1] = element
      /\ \A i \in 1 .. n : p.built[i] = o.built[i]
      /\ DOMAIN p.built = 1 .. n + 1 /\ DOMAIN o.built = 1 .. n
  <2>1. /\ Append(o.built, element) \in Seq(ArticleElement(1 .. n))
        /\ Len(Append(o.built, element)) = n + 1
        /\ Append(o.built, element)[n + 1] = element
        /\ \A i \in 1 .. n : Append(o.built, element)[i] = o.built[i]
    BY <1>1, Appended
  <2> QED
    BY <1>1, <1>2, <2>1
<1> HIDE DEF p, n
<1>4. ASSUME NEW leaf \in LeavesOf(p)
      PROVE  leaf \in LeavesOf(o) \/ (leaf = element /\ element.kind \in {"Text", "Quote"})
  <2>1. PICK i \in 1 .. n + 1 : leaf = p.built[i] /\ p.built[i].kind \in {"Text", "Quote"}
    BY <1>3 DEF LeavesOf
  <2>2. CASE i = n + 1
    BY <1>3, <2>1, <2>2
  <2>3. CASE i # n + 1
    <3>1. i \in 1 .. n
      BY <1>1, <2>3 DEF n
    <3> QED
      BY <1>3, <2>1, <3>1 DEF LeavesOf
  <2> QED
    BY <2>2, <2>3
<1> QED
  BY <1>2, <1>4 DEF SameTexts, p

\* The same for an element that draws a source index.
LEMMA EmittedTexts ==
  ASSUME NEW o, IsOutput(o), NEW element \in ArticleElement(1 .. Len(o.built))
  PROVE  /\ EmitElement(o, element).text = o.text
         /\ LeavesOf(EmitElement(o, element)) \subseteq LeavesOf(o) \union {element}
         /\ element.kind \notin {"Text", "Quote"} => SameTexts(o, EmitElement(o, element))
<1> DEFINE p == [o EXCEPT !.sourceIndexCounter = @ + 1]
<1>1. IsOutput(p) /\ p.built = o.built /\ p.text = o.text
  BY CounterStep
<1>2. EmitElement(o, element) = AddNewElement(p, element) /\ LeavesOf(p) = LeavesOf(o)
  BY <1>1 DEF EmitElement, LeavesOf
<1> HIDE DEF p
<1>3. /\ AddNewElement(p, element).text = p.text
      /\ LeavesOf(AddNewElement(p, element)) \subseteq LeavesOf(p) \union {element}
      /\ element.kind \notin {"Text", "Quote"} => SameTexts(p, AddNewElement(p, element))
  BY <1>1, NewElementTexts
<1> QED
  BY <1>1, <1>2, <1>3 DEF SameTexts

\* What only changes the builders, or makes a container, keeps the texts.
LEMMA BuildersKeepTexts ==
  ASSUME NEW o, IsOutput(o)
  PROVE  /\ SameTexts(o, o)
         /\ \A b : SameTexts(o, PushBuilder(o, b)) /\ SameTexts(o, PushIndexedBuilder(o, b))
         /\ \A b : SameTexts(o, [o EXCEPT !.builders[Len(o.builders)] = b])
         /\ \A ref : SameTexts(o, AddElement(o, ref))
BY DEF SameTexts, LeavesOf, PushBuilder, PushIndexedBuilder, AddElement, IsOutput, Output

\* A finished item keeps the texts.
LEMMA ItemKeepsTexts ==
  ASSUME NEW o, IsOutput(o)
  PROVE  SameTexts(o, FinishItem(o))
BY DEF SameTexts, LeavesOf, FinishItem, IsOutput, Output

\* A finished list or table keeps the texts.
LEMMA ContainerKeepsTexts ==
  ASSUME NEW o, IsOutput(o), Len(o.builders) > 1, Last(o.builders).kind \in {"List", "Table"}
  PROVE  SameTexts(o, FinishBuilder(o))
<1> DEFINE below == [o EXCEPT !.builders = Front(@)]
           element == BuiltContainer(Last(o.builders), o.built)
<1>1. /\ IsOutput(below) /\ below.built = o.built
      /\ Last(o.builders) \in Builder(1 .. Len(o.built))
  BY BelowTop DEF PopsBuilder
<1>2. below.text = o.text /\ LeavesOf(below) = LeavesOf(o)
  BY <1>1 DEF LeavesOf, IsOutput, Output
<1>3. element \in ArticleElement(1 .. Len(o.built))
  <2>1. Len(o.built) \in Nat /\ o.built \in Seq(ArticleElement(1 .. Len(o.built)))
    BY DEF IsOutput, Output
  <2> QED
    BY <1>1, <2>1, BuiltContainerType
<1>4. element.kind \in {"ContentList", "ContentTable"}
  BY DEF BuiltContainer
<1>5. FinishBuilder(o) = AddNewElement(below, element)
  BY DEF FinishBuilder
<1> HIDE DEF below, element
<1>6. SameTexts(below, AddNewElement(below, element))
  BY <1>1, <1>3, <1>4, NewElementTexts
<1> QED
  BY <1>2, <1>5, <1>6 DEF SameTexts

-----------------------------------------------------------------------------
(* flushText, and what it labels. *)

\* flushText leaves no word pending, and makes at most one text of those there were.
LEMMA FlushTexts ==
  ASSUME TransformerTypeOK, output.builders # <<>>
  PROVE  /\ LeavesOf(FlushText) \subseteq LeavesOf(output) \union {FlushedElement(output.text)}
         /\ Numbered(FlushText.text.words) = {}
         /\ FlushText.text.links \in {<<>>, output.text.links}
<1> DEFINE cleared == [output EXCEPT !.text = EmptyText]
           element == FlushedElement(output.text)
<1>1. IsOutput(output)
  BY DEF TransformerTypeOK
<1>2. EmptyText \in Text /\ EmptyText.words = <<>> /\ EmptyText.links = <<>>
  BY DEF EmptyText, Text
<1>3. IsOutput(cleared) /\ cleared.built = output.built /\ cleared.text = EmptyText
  BY <1>1, <1>2 DEF IsOutput, Output
<1>4. element \in ArticleElement(1 .. Len(cleared.built))
  <2>1. NonEmptyIds(idStack) \in SUBSET Name
    BY IdsType DEF TransformerTypeOK
  <2>2. CurrentTag \in Name
    BY LastFront DEF CurrentTag, TransformerTypeOK, NoTag, Name
  <2>3. output.sourceIndexCounter \in Nat /\ output.text.words \in Seq(Word)
    BY <1>1 DEF IsOutput, Output, Text
  <2> QED
    BY <2>1, <2>2, <2>3 DEF FlushedElement, ArticleElement, IdsInForce
<1>5. LeavesOf(cleared) = LeavesOf(output)
  BY <1>3 DEF LeavesOf
<1>6. CASE ~TextHasLength(output.text)
  BY <1>6, NoWords DEF FlushText, TextHasLength
<1>7. CASE TextHasLength(output.text) /\ TextIsVisible(output.text)
  <2>1. FlushText = EmitElement(cleared, element)
    BY <1>7 DEF FlushText
  <2> HIDE DEF cleared, element
  <2>2. /\ EmitElement(cleared, element).text = cleared.text
        /\ LeavesOf(EmitElement(cleared, element)) \subseteq LeavesOf(cleared) \union {element}
    BY <1>3, <1>4, EmittedTexts
  <2> QED
    BY <1>2, <1>3, <1>5, <2>1, <2>2, NoWords DEF element
<1>8. CASE TextHasLength(output.text) /\ ~TextIsVisible(output.text)
  <2>1. FlushText = cleared
    BY <1>8 DEF FlushText
  <2> HIDE DEF cleared
  <2> QED
    BY <1>2, <1>3, <1>5, <2>1, NoWords
<1> QED
  BY <1>6, <1>7, <1>8

\* The text a tag flushes, if it is one that separates texts.
FlushedBy(tag) == IF tag \in BlockTags THEN {FlushedElement(output.text)} ELSE {}

\* What is left of the words when a tag has flushed and added no other.
Settles(tag, o) ==
  /\ LeavesOf(o) \subseteq LeavesOf(output) \union FlushedBy(tag)
  /\ Numbered(o.text.words) \subseteq Pending
  /\ tag \in BlockTags => Numbered(o.text.words) = {}

KeepsLinks(o) == o.text.links \in {<<>>, output.text.links}

\* The flush at the beginning of a callback settles the words.
LEMMA FlushedSettles ==
  ASSUME TransformerTypeOK, output.builders # <<>>, NEW tag
  PROVE  Settles(tag, Flushed(tag)) /\ KeepsLinks(Flushed(tag))
BY FlushTexts DEF Settles, Flushed, FlushedBy, KeepsLinks, Pending

\* They stay settled while no text is added ...
LEMMA SettledStays ==
  ASSUME NEW tag, NEW o, NEW p, Settles(tag, o), KeepsLinks(o), SameTexts(o, p)
  PROVE  Settles(tag, p) /\ KeepsLinks(p)
BY DEF Settles, KeepsLinks, SameTexts

\* ... and when the text gets a quotation mark or a line break.
LEMMA MarksSettle ==
  ASSUME NEW tag, NEW o, IsOutput(o), Settles(tag, o), KeepsLinks(o)
  PROVE  /\ Settles(tag, AppendQuoteMark(o)) /\ KeepsLinks(AppendQuoteMark(o))
         /\ Settles(tag, AppendLineBreak(o)) /\ KeepsLinks(AppendLineBreak(o))
<1> DEFINE mark == [n |-> 0, styles |-> {}, links |-> Range(o.text.links)]
<1>1. o.text \in Text /\ o.text.words \in Seq(Word) /\ Range(o.text.links) \in SUBSET STRING
  BY RangeType DEF IsOutput, Output, Text
<1>2. mark \in Word /\ mark.n = 0
  BY <1>1 DEF Word
<1>3. /\ AppendQuoteMark(o).built = o.built
      /\ AppendQuoteMark(o).text.links = o.text.links
      /\ AppendQuoteMark(o).text.words = Append(o.text.words, mark)
  BY <1>1 DEF AppendQuoteMark, IsOutput, Output, Text
<1>4. /\ AppendLineBreak(o).built = o.built
      /\ AppendLineBreak(o).text.links = o.text.links
      /\ AppendLineBreak(o).text.words = o.text.words
  BY <1>1 DEF AppendLineBreak, IsOutput, Output, Text
<1> HIDE DEF mark
<1>5. Numbered(Append(o.text.words, mark)) \subseteq Numbered(o.text.words)
  BY <1>1, <1>2, NumberedGrows
<1>6. LeavesOf(AppendQuoteMark(o)) = LeavesOf(o) /\ LeavesOf(AppendLineBreak(o)) = LeavesOf(o)
  BY <1>3, <1>4 DEF LeavesOf
<1> QED
  BY <1>3, <1>4, <1>5, <1>6 DEF Settles, KeepsLinks

\* Every tag that is entered settles the words; but for <a> it pushes no link.
LEMMA StartSettles ==
  ASSUME TransformerTypeOK, output.builders # <<>>, NEW e \in ElementType,
         OnStartTag(e), ~StartIgnored(e), ~StartOutside(e), ~StartThrows(e)
  PROVE  /\ Enter(e)
         /\ Settles(e.tag, output')
         /\ e.tag # "a" => KeepsLinks(output')
         /\ e.tag = "a" => output'.text.links = IF e.href = NoHref THEN output.text.links
                                                ELSE Append(output.text.links, e.href)
<1> DEFINE o == Flushed(e.tag)
<1>1. Settles(e.tag, o) /\ KeepsLinks(o) /\ IsOutput(o)
  BY FlushedSettles, FlushedIsOutput
<1> HIDE DEF o
<1>2. CASE StartList(e) \/ StartItem(e) \/ StartTable(e)
  <2>1. e.tag # "a" /\ Enter(e)
    BY <1>2 DEF StartList, StartItem, StartTable, ListTags
  <2>2. SameTexts(o, output')
    BY <1>1, <1>2, BuildersKeepTexts DEF StartList, StartItem, StartTable, o
  <2> QED
    BY <1>1, <2>1, <2>2, SettledStays
<1>3. CASE StartRow(e) \/ StartCell(e)
  <2>1. e.tag # "a" /\ Enter(e)
    BY <1>3 DEF StartRow, StartCell, CellTags
  <2>2. SameTexts(o, output')
    <3>1. \/ output' = o
          \/ output' = [o EXCEPT !.builders[Len(o.builders)] = StartNewRow(o.builders[Len(o.builders)])]
          \/ output' = [o EXCEPT !.builders[Len(o.builders)] = StartNewCell(o.builders[Len(o.builders)])]
      BY <1>3 DEF StartRow, StartCell, o
    <3> QED
      BY <1>1, <3>1, BuildersKeepTexts
  <2> QED
    BY <1>1, <2>1, <2>2, SettledStays
<1>4. CASE StartQuotation(e) \/ StartBreak(e)
  <2>1. e.tag # "a" /\ Enter(e) /\ output' \in {AppendQuoteMark(o), AppendLineBreak(o)}
    BY <1>4 DEF StartQuotation, StartBreak, o
  <2> QED
    BY <1>1, <2>1, MarksSettle
<1>5. CASE StartImage(e)
  <2> DEFINE image == [kind |-> "Image", sourceIndex |-> o.sourceIndexCounter, ids |-> IdsWith(e)]
  <2>1. e.tag # "a" /\ Enter(e) /\ (output' = o \/ output' = EmitElement(o, image))
    BY <1>5 DEF StartImage, o
  <2>2. image \in ArticleElement(1 .. Len(o.built)) /\ image.kind = "Image"
    <3>1. Append(idStack, e.id) \in Seq(Name)
      BY Appended DEF TransformerTypeOK, ElementType
    <3>2. IdsWith(e) \in SUBSET Name
      BY <3>1, IdsType DEF IdsWith
    <3>3. o.sourceIndexCounter \in Nat
      BY <1>1 DEF IsOutput, Output
    <3> QED
      BY <3>2, <3>3 DEF ArticleElement
  <2> HIDE DEF image
  <2>3. SameTexts(o, output')
    BY <1>1, <2>1, <2>2, EmittedTexts, BuildersKeepTexts
  <2> QED
    BY <1>1, <2>1, <2>3, SettledStays
<1>6. CASE StartAnchor(e)
  <2>1. e.tag = "a" /\ Enter(e) /\ "a" \notin BlockTags /\ IsOutput(output)
    BY <1>6 DEF StartAnchor, BlockTags, TransformerTypeOK
  <2>2. /\ output'.built = output.built
        /\ output'.text.words = output.text.words
        /\ output'.text.links = IF e.href = NoHref THEN output.text.links ELSE Append(output.text.links, e.href)
    BY <1>6, <2>1 DEF StartAnchor, IsOutput, Output, Text
  <2>3. LeavesOf(output') = LeavesOf(output)
    BY <2>2 DEF LeavesOf
  <2> QED
    BY <2>1, <2>2, <2>3 DEF Settles, FlushedBy, Pending
<1>7. CASE StartPlain(e)
  <2>1. e.tag # "a" /\ Enter(e) /\ output' = o
    BY <1>7 DEF StartPlain, SpecialTags, o
  <2> QED
    BY <1>1, <2>1
<1> QED
  BY <1>2, <1>3, <1>4, <1>5, <1>6, <1>7 DEF OnStartTag

\* Every tag that is left settles the words; </a> takes the link on top.
LEMMA EndSettles ==
  ASSUME TransformerTypeOK, output.builders # <<>>, NEW e \in ElementType,
         OnEndTag(e), ~EndIgnored(e), ~EndOutside(e), ~EndThrows(e),
         e.tag \in ListTags \union {"table"} =>
           Len(output.builders) > 1 /\ Last(Flushed(e.tag).builders).kind \in {"List", "Table"}
  PROVE  /\ Leave(e)
         /\ Settles(e.tag, output')
         /\ e.tag # "a" => KeepsLinks(output')
         /\ e.tag = "a" => output'.text.links = IF output.text.links = <<>> THEN <<>>
                                                ELSE Front(output.text.links)
<1> DEFINE o == Flushed(e.tag)
<1>1. Settles(e.tag, o) /\ KeepsLinks(o) /\ IsOutput(o) /\ Len(o.builders) = Len(output.builders)
  BY FlushedSettles, FlushedIsOutput
<1> HIDE DEF o
<1>2. CASE EndItem(e)
  <2>1. e.tag # "a" /\ Leave(e) /\ output' = FinishItem(o)
    BY <1>2 DEF EndItem, o
  <2> QED
    BY <1>1, <2>1, ItemKeepsTexts, SettledStays
<1>3. CASE EndContainer(e)
  <2>1. e.tag # "a" /\ Leave(e) /\ e.tag \in ListTags \union {"table"}
    BY <1>3 DEF EndContainer, ListTags
  <2>2. Len(o.builders) > 1 /\ Last(o.builders).kind \in {"List", "Table"}
    BY <1>1, <2>1 DEF o
  <2>3. output' = FinishBuilder(o)
    BY <1>3, <2>2 DEF EndContainer, o
  <2> QED
    BY <1>1, <2>1, <2>2, <2>3, ContainerKeepsTexts, SettledStays
<1>4. CASE EndQuotation(e)
  <2>1. e.tag # "a" /\ Leave(e) /\ output' = AppendQuoteMark(o)
    BY <1>4 DEF EndQuotation, o
  <2> QED
    BY <1>1, <2>1, MarksSettle
<1>5. CASE EndAnchor(e)
  <2>1. e.tag = "a" /\ Leave(e) /\ "a" \notin BlockTags /\ IsOutput(output)
    BY <1>5 DEF EndAnchor, BlockTags, TransformerTypeOK
  <2>2. /\ output'.built = output.built
        /\ output'.text.words = output.text.words
        /\ output'.text.links = IF output.text.links = <<>> THEN output.text.links ELSE Front(output.text.links)
    BY <1>5, <2>1 DEF EndAnchor, PopLink, IsOutput, Output, Text
  <2>3. LeavesOf(output') = LeavesOf(output)
    BY <2>2 DEF LeavesOf
  <2> QED
    BY <2>1, <2>2, <2>3 DEF Settles, FlushedBy, Pending
<1>6. CASE EndPlain(e)
  <2>1. e.tag # "a" /\ Leave(e) /\ output' = o
    BY <1>6 DEF EndPlain, o
  <2> QED
    BY <1>1, <2>1
<1> QED
  BY <1>2, <1>3, <1>4, <1>5, <1>6 DEF OnEndTag

-----------------------------------------------------------------------------
(* What a flush labels and what a callback keeps. *)

\* The text that is flushed is labelled by elements all its words stood in.
LEMMA FlushFits ==
  ASSUME IInv, AInv, Running, path = <<>> \/ (isInsideBody /\ ignoredTagDepth = 0)
  PROVE  \A w \in Pending : LabelFits(FlushedElement(output.text), w, received)
<1> DEFINE n == Len(path)
           element == FlushedElement(output.text)
<1> SUFFICES ASSUME NEW w \in Pending
             PROVE  LabelFits(element, w, received)
  OBVIOUS
<1>1. /\ n \in Nat /\ AcceptedDepth = n - ignoredTagDepth /\ ignoredTagDepth \in Nat /\ AcceptedDepth \in Nat
      /\ isInsideBody <=> (AcceptedDepth >= 2 /\ path[2] = BodyNode)
  BY DepthsOf
<1>2. path = <<>> => n = 0 /\ ~isInsideBody
  BY <1>1
<1>3. \A i \in OpenInBody(BlockTags) : path[i].tag \in TagsIn(received, w.n)
  BY DEF AInv, PendingWordsAreInside
<1>4. ASSUME element.kind = "Quote"
      PROVE  "blockquote" \in TagsIn(received, w.n)
  <2>1. isInsideBlockquote
    BY <1>4 DEF FlushedElement
  <2>2. isInsideBody
    BY <2>1 DEF IInv, FlagsKnowTheirPlace
  <2>3. PICK i \in 2 .. AcceptedDepth : path[i].tag = "blockquote"
    BY <2>1 DEF IInv, FlagsMirrorPath
  <2>4. i \in OpenInBody(BlockTags)
    BY <2>2, <2>3 DEF OpenInBody, BlockTags
  <2> QED
    BY <1>3, <2>3, <2>4
<1>5. ASSUME element.kind = "Text", element.tag \in HeadingTags \union {"pre"}
      PROVE  element.tag \in TagsIn(received, w.n)
  <2>1. element.tag = CurrentTag
    BY <1>5 DEF FlushedElement
  <2>2. CurrentTag \notin {"title", "body", NoTag} /\ CurrentTag \in BlockTags
    BY <1>5, <2>1 DEF HeadingTags, BlockTags, NoTag
  <2>3. tagStack \in Seq(Name)
    BY DEF IInv, TypeOK, TransformerTypeOK
  <2>4. tagStack # <<>>
    BY <2>2 DEF CurrentTag
  <2>5. CurrentTag = tagStack[Len(tagStack)] /\ Len(tagStack) \in 1 .. Len(tagStack)
    <3>1. Last(tagStack) = tagStack[Len(tagStack)]
      BY <2>3, <2>4, LastFront
    <3>2. Len(tagStack) \in 1 .. Len(tagStack)
      BY <2>3, <2>4
    <3> QED
      BY <2>4, <3>1, <3>2 DEF CurrentTag
  <2>6. isInsideBody
    BY <2>2, <2>5 DEF AInv, LeftoverTags, LeftoverMatch
  <2>7. ignoredTagDepth = 0 /\ AcceptedDepth = n /\ n >= 2
    BY <1>1, <1>2, <2>6
  <2>8. tagStack[Len(tagStack) - 0 - n + n] = path[n].tag
    BY <1>1, <2>6, <2>7 DEF IInv, StacksMirrorPath
  <2>9. CurrentTag = path[n].tag
    <3>1. Len(tagStack) - 0 - n + n = Len(tagStack)
      BY <1>1, <2>5
    <3> QED
      BY <2>5, <2>8, <3>1
  <2>10. n \in OpenInBody(BlockTags)
    BY <1>1, <2>2, <2>6, <2>7, <2>9 DEF OpenInBody
  <2> QED
    BY <1>3, <2>1, <2>9, <2>10
<1> QED
  BY <1>4, <1>5 DEF LabelFits

\* Words that fit still do when no other is added and the new texts are well labelled.
LEMMA WordsFitKept ==
  ASSUME WordsFit, received' = received,
         NEW new, \A F \in new : F.words = output.text.words /\ \A w \in Pending : LabelFits(F, w, received),
         LeavesOf(output') \subseteq LeavesOf(output) \union new,
         Numbered(output'.text.words) \subseteq Pending
  PROVE  WordsFit'
<1>1. \A w \in Numbered(output'.text.words) : WordFits(w, received')
  BY DEF WordsFit
<1>2. ASSUME NEW element \in LeavesOf(output'), NEW w \in Numbered(element.words)
      PROVE  WordFits(w, received') /\ LabelFits(element, w, received')
  <2>1. CASE element \in LeavesOf(output)
    BY <2>1 DEF WordsFit
  <2>2. CASE element \in new
    <3>1. w \in Pending
      BY <2>2 DEF Pending
    <3> QED
      BY <2>2, <3>1 DEF WordsFit
  <2> QED
    BY <2>1, <2>2
<1> QED
  BY <1>1, <1>2 DEF WordsFit, Pending

\* A tag that settles the words keeps them fit.
LEMMA SettledFit ==
  ASSUME IInv, AInv, Running, isInsideBody, ignoredTagDepth = 0, received' = received,
         NEW tag, Settles(tag, output')
  PROVE  WordsFit'
<1>1. \A w \in Pending : LabelFits(FlushedElement(output.text), w, received)
  BY FlushFits
<1>2. FlushedElement(output.text).words = output.text.words
  BY DEF FlushedElement
<1>3. \A F \in FlushedBy(tag) : F.words = output.text.words /\ \A w \in Pending : LabelFits(F, w, received)
  BY <1>1, <1>2 DEF FlushedBy
<1> QED
  BY <1>3, WordsFitKept DEF AInv, Settles

\* The pending words are still inside when nothing more is open.
LEMMA InsideKept ==
  ASSUME AInv, Running, received' = received,
         OpenInBody(BlockTags)' \subseteq OpenInBody(BlockTags),
         \A i \in OpenInBody(BlockTags)' : path'[i] = path[i],
         Numbered(output'.text.words) \subseteq Pending
  PROVE  PendingWordsAreInside'
BY DEF AInv, PendingWordsAreInside, Pending

\* The stacks and the path agree on their lengths while transform() runs.
LEMMA StackLengths ==
  ASSUME IInv, Running
  PROVE  /\ tagStack \in Seq(Name) /\ Len(tagStack) \in Nat /\ Len(idStack) = Len(tagStack)
         /\ idStack # <<>> => tagStack # <<>>
         /\ isInsideBody \in BOOLEAN
<1>1. tagStack \in Seq(Name) /\ idStack \in Seq(Name) /\ Len(idStack) = Len(tagStack) /\ isInsideBody \in BOOLEAN
  BY DEF IInv, TypeOK, TransformerTypeOK, StacksMirrorPath
<1> QED
  BY <1>1

\* One more entry on the tag stack, for a tag that is ignored, or open in the body, or title or body.
LEMMA LeftoverPushed ==
  ASSUME NEW tags \in Seq(Name), NEW inBody, NEW n \in Nat, LeftoverMatch(tags, inBody, n),
         NEW tag \in Name, NEW inBody2, inBody => inBody2,
         tag \in {"title", "body", NoTag} \/ (inBody /\ n >= 2)
  PROVE  LeftoverMatch(Append(tags, tag), inBody2, n + 1)
<1> DEFINE m == Len(tags)
           tags2 == Append(tags, tag)
<1>1. /\ m \in Nat /\ Len(tags2) = m + 1
      /\ tags2[m + 1] = tag
      /\ \A i \in 1 .. m : tags2[i] = tags[i]
  BY Appended
<1>2. \A k \in 1 .. m : tags[k] \in {"title", "body", NoTag} \/ (inBody /\ k > m - n + 2)
  BY DEF LeftoverMatch
<1> HIDE DEF m, tags2
<1>3. m + 1 - (n + 1) + 2 = m - n + 2 /\ (n >= 2 => m + 1 > m - n + 2)
  BY <1>1
<1>4. ASSUME NEW k \in 1 .. m + 1
      PROVE  tags2[k] \in {"title", "body", NoTag} \/ (inBody2 /\ k > m + 1 - (n + 1) + 2)
  <2>1. CASE k = m + 1
    BY <1>1, <1>3, <2>1
  <2>2. CASE k # m + 1
    <3>1. k \in 1 .. m
      BY <1>1, <2>2
    <3> QED
      BY <1>1, <1>2, <1>3, <3>1
  <2> QED
    BY <2>1, <2>2
<1>5. LeftoverMatch(tags2, inBody2, n + 1)
  BY <1>1, <1>4 DEF LeftoverMatch
<1> QED
  BY <1>5 DEF tags2

\* One entry less.
LEMMA LeftoverPopped ==
  ASSUME NEW tags \in Seq(Name), tags # <<>>, NEW inBody, NEW n \in Nat, LeftoverMatch(tags, inBody, n)
  PROVE  LeftoverMatch(Front(tags), inBody, n - 1)
<1> DEFINE m == Len(tags)
           tags2 == Front(tags)
<1>1. m \in Nat /\ Len(tags2) = m - 1 /\ \A i \in 1 .. m - 1 : tags2[i] = tags[i]
  BY LastFront
<1>2. \A k \in 1 .. m : tags[k] \in {"title", "body", NoTag} \/ (inBody /\ k > m - n + 2)
  BY DEF LeftoverMatch
<1> HIDE DEF m, tags2
<1>3. m - 1 - (n - 1) + 2 = m - n + 2
  BY <1>1
<1>4. ASSUME NEW k \in 1 .. m - 1
      PROVE  tags2[k] \in {"title", "body", NoTag} \/ (inBody /\ k > m - 1 - (n - 1) + 2)
  <2>1. k \in 1 .. m
    BY <1>1
  <2> QED
    BY <1>1, <1>2, <1>3, <2>1
<1>5. LeftoverMatch(tags2, inBody, n - 1)
  BY <1>1, <1>4 DEF LeftoverMatch
<1> QED
  BY <1>5 DEF tags2

-----------------------------------------------------------------------------
(* The callbacks keep the inductive invariant. *)

\* The types the lemmas above ask for.
LEMMA ArticleTypes ==
  ASSUME IInv
  PROVE  /\ TransformerTypeOK /\ IsOutput(output)
         /\ styleStack \in Seq(Styles) /\ tagStack \in Seq(Name)
         /\ output.text \in Text /\ output.text.words \in Seq(Word) /\ output.text.links \in Seq(STRING)
         /\ path \in Seq(Elements)
BY DEF IInv, TypeOK, TransformerTypeOK, IsOutput, Output, Text

\* Neither html, head, body nor title is a formatting element, a link or a block.
LEMMA TagClasses ==
  /\ \A tag \in {"html", "head", "body", "title"} : tag \notin StyledTags \union {"a"} \union BlockTags
  /\ "a" \in StyledTags /\ "a" \notin BlockTags
BY DEF StyledTags, BoldTags, ItalicTags, UnderlineTags, BlockTags

\* A callback that is ignored, or outside the body, keeps the words and what they stand in.
LEMMA PassesKeeps ==
  ASSUME FilterIsMonotone, IInv, AInv, Running, NEW e \in Elements, Passes(e)
  PROVE  AInv'
<1>1. output' = output /\ styleStack' = styleStack /\ received' = received
  BY DEF Passes, Start, End, StartIgnored, StartOutside, EndIgnored, EndOutside, transformerVars
<1>2. ASSUME NEW tags, "body" \notin tags
      PROVE  OpenInBody(tags)' = OpenInBody(tags) /\ \A i \in OpenInBody(tags) : path'[i] = path[i]
  BY <1>2, OpenPassed
<1>3. WordsFit'
  BY <1>1 DEF AInv, WordsFit, Pending
<1>4. StylesFollowPath'
  <2>1. StylesMatch(styleStack, path, OpenInBody(StyledTags)) /\ styleStack \in Seq(Styles)
    BY ArticleTypes DEF AInv, StylesFollowPath
  <2>2. StylesMatch(styleStack, path', OpenInBody(StyledTags)')
    BY <1>2, <2>1, TagClasses, StylesKept
  <2> QED
    BY <1>1, <2>2 DEF StylesFollowPath
<1>5. LinksFollowPath'
  <2>1. LinksMatch(output.text.links, path, OpenInBody({"a"})) /\ output.text.links \in Seq(STRING)
    BY ArticleTypes DEF AInv, LinksFollowPath
  <2>2. LinksMatch(output.text.links, path', OpenInBody({"a"})')
    BY <1>2, <2>1, LinksKept
  <2> QED
    BY <1>1, <2>2 DEF LinksFollowPath
<1>6. PendingWordsAreInside'
  <2>1. /\ OpenInBody(BlockTags)' = OpenInBody(BlockTags)
        /\ \A i \in OpenInBody(BlockTags) : path'[i] = path[i]
    BY <1>2, TagClasses
  <2> QED
    BY <1>1, <2>1, InsideKept DEF Pending
<1>7. LeftoverTags'
  <2> DEFINE n == Len(path)
  <2>1. n \in Nat /\ ignoredTagDepth \in Nat
    BY DepthsOf
  <2>2. LeftoverMatch(tagStack, isInsideBody, n) /\ tagStack \in Seq(Name) /\ Len(tagStack) \in Nat
    BY ArticleTypes DEF AInv, LeftoverTags
  <2>3. CASE Start(e) /\ StartIgnored(e)
    <3>1. Len(path') = n + 1
      BY <2>3, StartExtends
    <3>2. tagStack' = Append(tagStack, NoTag) /\ isInsideBody' = isInsideBody
      BY <2>3 DEF StartIgnored, flags
    <3>3. NoTag \in Name /\ NoTag \in {"title", "body", NoTag} /\ (isInsideBody => isInsideBody')
      BY <3>2 DEF NoTag, Name
    <3> HIDE DEF n
    <3>4. LeftoverMatch(Append(tagStack, NoTag), isInsideBody', n + 1)
      BY <2>1, <2>2, <3>3, LeftoverPushed
    <3> QED
      BY <3>1, <3>2, <3>4 DEF LeftoverTags
  <2>4. CASE Start(e) /\ StartOutside(e)
    BY <2>2, <2>4 DEF StartOutside, Inside, transformerVars, stacks, flags, LeftoverTags, LeftoverMatch
  <2>5. CASE End(e) /\ EndIgnored(e)
    <3>1. Len(path') = n - 1
      BY <2>5, EndShortens
    <3>2. idStack # <<>> /\ tagStack' = Front(tagStack) /\ isInsideBody' = isInsideBody
      BY <2>5, EndIgnoredIsInside, EntriesAreThere DEF EndIgnored, PopStacks, flags
    <3>3. tagStack # <<>>
      BY <3>2, StackLengths
    <3> HIDE DEF n
    <3>4. LeftoverMatch(Front(tagStack), isInsideBody, n - 1)
      BY <2>1, <2>2, <3>3, LeftoverPopped
    <3> QED
      BY <3>1, <3>2, <3>4 DEF LeftoverTags
  <2>6. CASE End(e) /\ EndOutside(e)
    <3>1. tagStack' = tagStack
      BY <2>6 DEF EndOutside, stacks
    <3>2. isInsideBody => n = 2
      BY <2>6, EndShortens DEF EndOutside, InsideAfter, InsideBodyAfter
    <3> HIDE DEF n
    <3>3. ASSUME NEW k \in 1 .. Len(tagStack)
          PROVE  tagStack[k] \in {"title", "body", NoTag}
      <4>1. isInsideBody => Len(tagStack) - n + 2 = Len(tagStack)
        BY <2>2, <3>2
      <4>2. ~(k > Len(tagStack))
        BY <2>2
      <4> QED
        BY <2>2, <4>1, <4>2 DEF LeftoverMatch
    <3> QED
      BY <3>1, <3>3 DEF LeftoverTags, LeftoverMatch
  <2> QED
    BY <2>3, <2>4, <2>5, <2>6 DEF Passes
<1> QED
  BY <1>3, <1>4, <1>5, <1>6, <1>7 DEF AInv

\* A tag that is entered keeps them.
LEMMA EntersKeeps ==
  ASSUME IInv, AInv, Running, NEW e \in Elements, Start(e), Enter(e), Settles(e.tag, output'),
         e.tag # "a" => KeepsLinks(output'),
         e.tag = "a" => output'.text.links = IF e.href = NoHref THEN output.text.links
                                             ELSE Append(output.text.links, e.href)
  PROVE  AInv'
<1> DEFINE n == Len(path) + 1
<1>1. n \in Nat /\ path'[n] = e /\ received' = received /\ Len(path) \in Nat /\ Len(path') = n
  BY StartExtends
<1>2. ASSUME NEW tags, "body" \notin tags, "title" \notin tags
      PROVE  /\ OpenInBody(tags) \in SUBSET Nat
             /\ \A i \in OpenInBody(tags) : i < n /\ path'[i] = path[i]
             /\ e.tag \in tags => OpenInBody(tags)' = OpenInBody(tags) \union {n}
             /\ e.tag \notin tags => OpenInBody(tags)' = OpenInBody(tags)
  BY <1>2, OpenEntered
<1>3. /\ ignoredTagDepth = 0 /\ ignoredTagDepth' = 0 /\ AcceptedDepth = Len(path)
      /\ e.tag \notin {"body", "title"} => isInsideBody
      /\ isInsideBody => Len(path) >= 2
      /\ isInsideBody => isInsideBody'
      /\ tagStack' = Append(tagStack, e.tag)
      /\ styleStack' = IF e.tag \in StyledTags THEN Append(styleStack, StyleOf(e.tag)) ELSE styleStack
  BY EnteredPlace DEF Enter, TakeIn
<1> HIDE DEF n
<1>4. WordsFit'
  <2>1. CASE isInsideBody
    BY <1>1, <1>3, <2>1, SettledFit
  <2>2. CASE ~isInsideBody
    <3>1. e.tag \notin BlockTags
      BY <1>3, <2>2, TagClasses
    <3> DEFINE new == FlushedBy(e.tag)
    <3>2. /\ LeavesOf(output') \subseteq LeavesOf(output) \union new
          /\ Numbered(output'.text.words) \subseteq Pending
          /\ \A F \in new : F.words = output.text.words /\ \A w \in Pending : LabelFits(F, w, received)
      BY <3>1 DEF Settles, FlushedBy
    <3>3. WordsFit
      BY DEF AInv
    <3> HIDE DEF new
    <3> QED
      BY <1>1, <3>2, <3>3, WordsFitKept
  <2> QED
    BY <2>1, <2>2
<1>5. StylesFollowPath'
  <2>1. StylesMatch(styleStack, path, OpenInBody(StyledTags)) /\ styleStack \in Seq(Styles)
    BY ArticleTypes DEF AInv, StylesFollowPath
  <2>2. "body" \notin StyledTags /\ "title" \notin StyledTags
    BY TagClasses
  <2>3. CASE e.tag \in StyledTags
    <3>1. /\ StyleOf(path'[n].tag) \in Styles
          /\ OpenInBody(StyledTags) \in SUBSET Nat
          /\ \A i \in OpenInBody(StyledTags) : i < n /\ path'[i] = path[i]
      BY <1>2, <2>2 DEF StyleOf, Styles
    <3>2. StylesMatch(Append(styleStack, StyleOf(path'[n].tag)), path', OpenInBody(StyledTags) \union {n})
      BY <1>1, <2>1, <3>1, StylesPushed
    <3> QED
      BY <1>1, <1>2, <1>3, <2>2, <2>3, <3>2 DEF StylesFollowPath
  <2>4. CASE e.tag \notin StyledTags
    <3>1. StylesMatch(styleStack, path', OpenInBody(StyledTags))
      BY <1>2, <2>1, <2>2, StylesKept
    <3> QED
      BY <1>2, <1>3, <2>2, <2>4, <3>1 DEF StylesFollowPath
  <2> QED
    BY <2>3, <2>4
<1>6. LinksFollowPath'
  <2> DEFINE links == output.text.links
  <2>1. LinksMatch(links, path, OpenInBody({"a"})) /\ links \in Seq(STRING)
    BY ArticleTypes DEF AInv, LinksFollowPath
  <2>2. /\ OpenInBody({"a"}) \in SUBSET Nat
        /\ \A i \in OpenInBody({"a"}) : i < n /\ path'[i] = path[i]
        /\ e.tag = "a" => OpenInBody({"a"})' = OpenInBody({"a"}) \union {n}
        /\ e.tag # "a" => OpenInBody({"a"})' = OpenInBody({"a"})
    BY <1>2
  <2> HIDE DEF links
  <2>3. LinksMatch(links, path', OpenInBody({"a"})')
    BY <2>1, <2>2, LinksKept
  <2>4. CASE output'.text.links = links
    BY <2>3, <2>4 DEF LinksFollowPath
  <2>5. CASE output'.text.links = <<>>
    BY <2>5, NoLinks DEF LinksFollowPath
  <2>6. CASE e.tag = "a" /\ output'.text.links = Append(links, e.href)
    <3>1. path'[n].href \in STRING
      BY <1>1, ElementsAreTyped DEF ElementType
    <3>2. LinksMatch(Append(links, path'[n].href), path', OpenInBody({"a"}) \union {n})
      BY <1>1, <2>1, <2>2, <3>1, LinksPushed
    <3> QED
      BY <1>1, <2>2, <2>6, <3>2 DEF LinksFollowPath
  <2> QED
    BY <2>4, <2>5, <2>6 DEF KeepsLinks, links
<1>7. PendingWordsAreInside'
  <2>1. CASE e.tag \in BlockTags
    BY <2>1 DEF PendingWordsAreInside, Pending, Settles
  <2>2. CASE e.tag \notin BlockTags
    <3>1. /\ OpenInBody(BlockTags)' = OpenInBody(BlockTags)
          /\ \A i \in OpenInBody(BlockTags) : path'[i] = path[i]
      BY <1>2, <2>2, TagClasses
    <3> QED
      BY <1>1, <3>1, InsideKept DEF Settles
  <2> QED
    BY <2>1, <2>2
<1>8. LeftoverTags'
  <2>1. LeftoverMatch(tagStack, isInsideBody, Len(path)) /\ tagStack \in Seq(Name) /\ e.tag \in Name
    BY ArticleTypes, ElementsAreTyped DEF AInv, LeftoverTags
  <2> DEFINE m == Len(path)
             tag == e.tag
             inBody == isInsideBody'
  <2>2. tag \in {"title", "body", NoTag} \/ (isInsideBody /\ m >= 2)
    BY <1>3
  <2>3. m \in Nat /\ LeftoverMatch(tagStack, isInsideBody, m)
    BY <1>1, <2>1
  <2>4. isInsideBody => inBody
    BY <1>3
  <2>5. tagStack' = Append(tagStack, tag) /\ Len(path') = m + 1
    BY <1>1, <1>3 DEF n
  <2>6. tagStack \in Seq(Name) /\ tag \in Name
    BY <2>1
  <2> HIDE DEF m, tag, inBody
  <2>7. LeftoverMatch(Append(tagStack, tag), inBody, m + 1)
    <3>1. CASE isInsideBody
      <4>1. inBody
        BY <2>4, <3>1
      <4>2. LeftoverMatch(tagStack, TRUE, m)
        BY <2>3, <3>1 DEF LeftoverMatch
      <4>3. tag \in {"title", "body", NoTag} \/ (TRUE /\ m >= 2)
        BY <2>2
      <4>4. TRUE => TRUE
        OBVIOUS
      <4>5. m \in Nat
        BY <2>3
      <4>6. LeftoverMatch(Append(tagStack, tag), TRUE, m + 1)
        BY <2>6, <4>2, <4>3, <4>4, <4>5, LeftoverPushed
      <4> QED
        BY <4>1, <4>6 DEF LeftoverMatch
    <3>2. CASE ~isInsideBody
      <4>1. LeftoverMatch(tagStack, FALSE, m)
        BY <2>3, <3>2 DEF LeftoverMatch
      <4>2. tag \in {"title", "body", NoTag} \/ (FALSE /\ m >= 2)
        BY <2>2, <3>2
      <4>3. FALSE => FALSE
        OBVIOUS
      <4>4. m \in Nat
        BY <2>3
      <4>5. LeftoverMatch(Append(tagStack, tag), FALSE, m + 1)
        BY <2>6, <4>1, <4>2, <4>3, <4>4, LeftoverPushed
      <4> QED
        BY <4>5 DEF LeftoverMatch
    <3> QED
      BY <3>1, <3>2
  <2> QED
    BY <2>5, <2>7 DEF LeftoverTags, inBody
<1> QED
  BY <1>4, <1>5, <1>6, <1>7, <1>8 DEF AInv

\* A tag that is left keeps them.
LEMMA LeavesKeeps ==
  ASSUME IInv, AInv, Running, NEW e \in Elements, End(e), Leave(e), Settles(e.tag, output'),
         e.tag # "a" => KeepsLinks(output'),
         e.tag = "a" => output'.text.links = IF output.text.links = <<>> THEN <<>>
                                             ELSE Front(output.text.links)
  PROVE  AInv'
<1> DEFINE n == Len(path)
<1>1. EndReachesBuilders(e) /\ received' = received
  BY DEF Leave, EndReachesBuilders, End
<1>2. /\ isInsideBody /\ isInsideBody' /\ ignoredTagDepth = 0 /\ ignoredTagDepth' = 0
      /\ idStack # <<>> /\ tagStack' = Front(tagStack)
  BY <1>1, LeftPlace, EntriesAreThere DEF Leave, EndFlags, PopStacks
<1>3. n \in Nat /\ Len(path') = n - 1
  BY EndShortens
<1>4. ASSUME NEW tags
      PROVE  /\ OpenInBody(tags) \in SUBSET Nat
             /\ \A i \in OpenInBody(tags) : i <= n
             /\ \A i \in OpenInBody(tags) \ {n} : path'[i] = path[i]
             /\ e.tag \in tags <=> n \in OpenInBody(tags)
             /\ OpenInBody(tags)' = OpenInBody(tags) \ {n}
  BY <1>1, <1>2, OpenLeft
<1> HIDE DEF n
<1>5. WordsFit'
  BY <1>1, <1>2, SettledFit
<1>6. StylesFollowPath'
  <2>1. StylesMatch(styleStack, path, OpenInBody(StyledTags)) /\ styleStack \in Seq(Styles)
    BY ArticleTypes DEF AInv, StylesFollowPath
  <2>2. /\ OpenInBody(StyledTags) \in SUBSET Nat
        /\ \A i \in OpenInBody(StyledTags) : i <= n
        /\ \A i \in OpenInBody(StyledTags) \ {n} : path'[i] = path[i]
        /\ OpenInBody(StyledTags)' = OpenInBody(StyledTags) \ {n}
    BY <1>4
  <2>3. CASE e.tag \in StyledTags
    <3>1. n \in OpenInBody(StyledTags)
      BY <1>4, <2>3
    <3>2. /\ styleStack # <<>>
          /\ StylesMatch(Front(styleStack), path', OpenInBody(StyledTags) \ {n})
      BY <2>1, <2>2, <3>1, StylesPopped
    <3> QED
      BY <2>2, <2>3, <3>2 DEF StylesFollowPath, Leave
  <2>4. CASE e.tag \notin StyledTags
    <3>1. n \notin OpenInBody(StyledTags)
      BY <1>4, <2>4
    <3>2. OpenInBody(StyledTags) \ {n} = OpenInBody(StyledTags)
      BY <3>1
    <3>3. \A i \in OpenInBody(StyledTags) : path'[i] = path[i]
      BY <2>2, <3>2
    <3>4. StylesMatch(styleStack, path', OpenInBody(StyledTags))
      BY <2>1, <3>3, StylesKept
    <3> QED
      BY <2>2, <2>4, <3>2, <3>4 DEF StylesFollowPath, Leave
  <2> QED
    BY <2>3, <2>4
<1>7. LinksFollowPath'
  <2> DEFINE links == output.text.links
  <2>1. LinksMatch(links, path, OpenInBody({"a"})) /\ links \in Seq(STRING)
    BY ArticleTypes DEF AInv, LinksFollowPath
  <2>2. /\ OpenInBody({"a"}) \in SUBSET Nat
        /\ \A i \in OpenInBody({"a"}) : i <= n
        /\ \A i \in OpenInBody({"a"}) \ {n} : path'[i] = path[i]
        /\ e.tag = "a" <=> n \in OpenInBody({"a"})
        /\ OpenInBody({"a"})' = OpenInBody({"a"}) \ {n}
    BY <1>4
  <2> HIDE DEF links
  <2>3. CASE output'.text.links = <<>>
    BY <2>3, NoLinks DEF LinksFollowPath
  <2>4. CASE e.tag # "a" /\ output'.text.links = links
    <3>1. OpenInBody({"a"})' = OpenInBody({"a"})
      BY <2>2, <2>4
    <3>2. \A i \in OpenInBody({"a"}) : path'[i] = path[i]
      BY <2>2, <2>4
    <3>3. OpenInBody({"a"}) \subseteq OpenInBody({"a"})
      OBVIOUS
    <3>4. LinksMatch(links, path', OpenInBody({"a"}))
      BY <2>1, <3>2, <3>3, LinksKept
    <3> QED
      BY <2>4, <3>1, <3>4 DEF LinksFollowPath
  <2>5. CASE links # <<>> /\ output'.text.links = Front(links)
    <3>1. LinksMatch(Front(links), path', OpenInBody({"a"}) \ {n})
      BY <1>3, <2>1, <2>2, <2>5, LinksPopped
    <3> QED
      BY <2>2, <2>5, <3>1 DEF LinksFollowPath
  <2> QED
    BY <2>3, <2>4, <2>5 DEF KeepsLinks, links
<1>8. PendingWordsAreInside'
  <2>1. /\ OpenInBody(BlockTags)' \subseteq OpenInBody(BlockTags)
        /\ \A i \in OpenInBody(BlockTags)' : path'[i] = path[i]
    BY <1>4
  <2> QED
    BY <1>1, <2>1, InsideKept DEF Settles
<1>9. LeftoverTags'
  <2>1. LeftoverMatch(tagStack, isInsideBody, n) /\ tagStack \in Seq(Name)
    BY ArticleTypes DEF AInv, LeftoverTags, n
  <2>2. tagStack # <<>>
    BY <1>2, StackLengths
  <2>3. LeftoverMatch(Front(tagStack), isInsideBody, n - 1)
    BY <1>3, <2>1, <2>2, LeftoverPopped
  <2> QED
    BY <1>2, <1>3, <2>3 DEF LeftoverTags, LeftoverMatch
<1> QED
  BY <1>5, <1>6, <1>7, <1>8, <1>9 DEF AInv

\* A word that fits does so still when another text was delivered.
LEMMA FitsLater ==
  ASSUME NEW S, NEW rec \in Seq(S), NEW r \in S, NEW w, WordFits(w, rec)
  PROVE  /\ WordFits(w, Append(rec, r))
         /\ TagsIn(Append(rec, r), w.n) = TagsIn(rec, w.n)
<1>1. Append(rec, r)[w.n] = rec[w.n] /\ w.n \in 1 .. Len(Append(rec, r))
  BY DEF WordFits
<1>2. TagsIn(Append(rec, r), w.n) = TagsIn(rec, w.n)
  BY <1>1 DEF TagsIn
<1> QED
  BY <1>1, <1>2 DEF WordFits

\* A text that is delivered in the body stands in what is open there, and in nothing else
\* that is styled, linked or separates texts.
LEMMA TextPlace ==
  ASSUME IInv, Running, isInsideBody, ignoredTagDepth = 0, NEW rec, NEW n, rec[n].path = path,
         NEW tags, "html" \notin tags
  PROVE  /\ OpenInBody(tags) = {i \in DOMAIN path : path[i].tag \in tags}
         /\ TagsIn(rec, n) \intersect tags = {path[i].tag : i \in OpenInBody(tags)}
<1>1. Len(path) \in Nat /\ AcceptedDepth = Len(path) /\ Len(path) >= 2
  BY DepthsOf
<1>2. DOMAIN path = 1 .. Len(path)
  BY DEF IInv, TypeOK
<1>3. path[1].tag = "html"
  BY <1>1, ElementOfShape
<1>4. OpenInBody(tags) = {i \in DOMAIN path : path[i].tag \in tags}
  <2>1. OpenInBody(tags) = {i \in 2 .. Len(path) : path[i].tag \in tags}
    BY <1>1 DEF OpenInBody
  <2>2. ASSUME NEW i \in 1 .. Len(path), path[i].tag \in tags
        PROVE  i \in 2 .. Len(path)
    <3>1. i # 1
      BY <1>3, <2>2
    <3> QED
      BY <1>1, <3>1
  <2>3. 2 .. Len(path) \subseteq 1 .. Len(path)
    BY <1>1
  <2> QED
    BY <1>2, <2>1, <2>2, <2>3
<1> QED
  BY <1>4 DEF TagsIn

\* A word that is taken into the text carries the styles and the links of its place.
LEMMA WordOfBodyFits ==
  ASSUME IInv, AInv, Running, isInsideBody, ignoredTagDepth = 0,
         NEW kind \in TextKinds, Deliver(kind),
         NEW w, w = [n |-> Len(received) + 1, styles |-> Range(styleStack), links |-> Range(output.text.links)]
  PROVE  /\ w \in Word
         /\ WordFits(w, received')
         /\ \A i \in OpenInBody(BlockTags) : path[i].tag \in TagsIn(received', w.n)
<1> DEFINE m == Len(received) + 1
           C == OpenInBody(StyledTags)
           L == OpenInBody({"a"})
<1>1. received \in Seq([path: Seq(Elements), kind: TextKinds]) /\ path \in Seq(Elements)
  BY DEF IInv, TypeOK
<1>2. m \in Nat /\ Len(received') = m /\ m \in 1 .. m /\ received'[m].path = path
  BY <1>1 DEF Deliver
<1>3. styleStack \in Seq(Styles) /\ output.text.links \in Seq(STRING)
  BY ArticleTypes
<1>4. w \in Word
  <2>1. Range(styleStack) \in SUBSET Styles /\ Range(output.text.links) \in SUBSET STRING
    BY <1>3, RangeType
  <2> QED
    BY <1>2, <2>1 DEF Word
<1>5. w.n = m /\ w.styles = Range(styleStack) /\ w.links = Range(output.text.links)
  OBVIOUS
<1> HIDE DEF m
<1>6. "html" \notin StyledTags /\ "html" \notin {"a"} /\ "html" \notin BlockTags
  BY DEF StyledTags, BoldTags, ItalicTags, UnderlineTags, BlockTags
<1>7. /\ TagsIn(received', m) \intersect StyledTags = {path[i].tag : i \in C}
      /\ L = {i \in DOMAIN path : path[i].tag \in {"a"}}
      /\ TagsIn(received', m) \intersect BlockTags = {path[i].tag : i \in OpenInBody(BlockTags)}
  BY <1>2, <1>6, TextPlace
<1>8. w.styles = {StyleOf(tag) : tag \in TagsIn(received', m) \intersect StyledTags}
  <2>1. StylesMatch(styleStack, path, C)
    BY DEF AInv, StylesFollowPath
  <2>2. Range(styleStack) = {StyleOf(path[i].tag) : i \in C}
    BY <1>3, <2>1, StylesInForce
  <2> QED
    BY <1>5, <1>7, <2>2
<1>9. w.links \subseteq {path[i].href : i \in {j \in DOMAIN path : path[j].tag = "a"}}
  <2>1. LinksMatch(output.text.links, path, L)
    BY DEF AInv, LinksFollowPath
  <2>2. Range(output.text.links) \subseteq {path[i].href : i \in L}
    BY <1>3, <2>1, LinksInForce
  <2> QED
    BY <1>5, <1>7, <2>2
<1>10. WordFits(w, received')
  BY <1>2, <1>5, <1>8, <1>9 DEF WordFits
<1> QED
  BY <1>4, <1>5, <1>7, <1>10

\* The fields that only the tags change, when a text is delivered.
LEMMA TextsStay ==
  ASSUME IInv, AInv, Running, NEW kind \in TextKinds, Deliver(kind), UNCHANGED <<styleStack, stacks, flags>>,
         ignoredTagDepth' = ignoredTagDepth, output'.text.links = output.text.links
  PROVE  StylesFollowPath' /\ LinksFollowPath' /\ LeftoverTags'
<1>1. path' = path /\ \A tags : OpenInBody(tags)' = OpenInBody(tags)
  BY DEF Deliver, OpenInBody, AcceptedDepth, flags
<1>2. StylesFollowPath'
  BY <1>1 DEF AInv, StylesFollowPath
<1>3. LinksFollowPath'
  BY <1>1 DEF AInv, LinksFollowPath
<1>4. LeftoverTags'
  BY <1>1 DEF AInv, LeftoverTags, stacks, flags
<1> QED
  BY <1>2, <1>3, <1>4

\* The words and texts that were there fit the longer history.
LEMMA OldWordsFit ==
  ASSUME IInv, AInv, Running, NEW kind \in TextKinds, Deliver(kind)
  PROVE  /\ \A w \in Pending : WordFits(w, received') /\ TagsIn(received', w.n) = TagsIn(received, w.n)
         /\ \A element \in LeavesOf(output) : \A w \in Numbered(element.words) :
              WordFits(w, received') /\ LabelFits(element, w, received')
<1> DEFINE S == [path: Seq(Elements), kind: TextKinds]
           r == [path |-> path, kind |-> kind]
<1>1. received \in Seq(S) /\ r \in S /\ received' = Append(received, r)
  BY DEF IInv, TypeOK, Deliver
<1> HIDE DEF S, r
<1>2. \A w : WordFits(w, received)
               => WordFits(w, received') /\ TagsIn(received', w.n) = TagsIn(received, w.n)
  BY <1>1, FitsLater
<1> QED
  BY <1>2 DEF AInv, WordsFit, LabelFits

\* A text keeps the inductive invariant.
LEMMA TextKeepsArticle ==
  ASSUME IInv, AInv, Running, NEW kind \in TextKinds, Deliver(kind), OnText(kind, Len(received) + 1)
  PROVE  AInv'
<1>1. UNCHANGED <<styleStack, stacks, flags>> /\ ignoredTagDepth' = ignoredTagDepth
  BY DEF OnText, TextIgnored, TextOfTitle, TextOfBody, transformerVars
<1>2. path' = path /\ OpenInBody(BlockTags)' = OpenInBody(BlockTags)
  BY <1>1 DEF Deliver, OpenInBody, AcceptedDepth, flags
<1>3. output.text \in Text /\ output.text.words \in Seq(Word) /\ IsOutput(output)
  BY ArticleTypes
<1>4. CASE LeavesOf(output') = LeavesOf(output) /\ Numbered(output'.text.words) \subseteq Pending
           /\ output'.text.links = output.text.links
  <2>1. StylesFollowPath' /\ LinksFollowPath' /\ LeftoverTags'
    BY <1>1, <1>4, TextsStay
  <2>2. WordsFit'
    BY <1>4, OldWordsFit DEF WordsFit, Pending
  <2>3. PendingWordsAreInside'
    BY <1>2, <1>4, OldWordsFit DEF AInv, PendingWordsAreInside, Pending
  <2> QED
    BY <2>1, <2>2, <2>3 DEF AInv
<1>5. CASE TextIgnored \/ TextOfTitle(kind, Len(received) + 1)
  <2>1. output' = output
    BY <1>5 DEF TextIgnored, TextOfTitle, transformerVars
  <2> QED
    BY <1>4, <2>1 DEF Pending
<1>6. CASE TextOfBody(kind, Len(received) + 1) /\ kind # "word"
  <2>1. /\ output'.built = output.built
        /\ output'.text.words = output.text.words /\ output'.text.links = output.text.links
    BY <1>3, <1>6 DEF TextOfBody, IsOutput, Output, Text
  <2> QED
    BY <1>4, <2>1 DEF Pending, LeavesOf
<1>7. CASE TextOfBody(kind, Len(received) + 1) /\ kind = "word"
  <2> DEFINE w == [n |-> Len(received) + 1, styles |-> Range(styleStack), links |-> Range(output.text.links)]
  <2>1. /\ output'.built = output.built
        /\ output'.text.words = Append(output.text.words, w) /\ output'.text.links = output.text.links
    BY <1>3, <1>7 DEF TextOfBody, IsOutput, Output, Text
  <2>2. isInsideBody /\ ignoredTagDepth = 0
    BY <1>7 DEF TextOfBody
  <2>3. /\ w \in Word
        /\ WordFits(w, received')
        /\ \A i \in OpenInBody(BlockTags) : path[i].tag \in TagsIn(received', w.n)
    BY <2>2, WordOfBodyFits
  <2> HIDE DEF w
  <2>4. \A v \in Numbered(output'.text.words) : v \in Pending \/ v = w
    BY <1>3, <2>1, <2>3, NumberedGrows DEF Pending
  <2>5. LeavesOf(output') = LeavesOf(output)
    BY <2>1 DEF LeavesOf
  <2>6. WordsFit'
    BY <2>3, <2>4, <2>5, OldWordsFit DEF WordsFit, Pending
  <2>7. PendingWordsAreInside'
    BY <1>2, <2>3, <2>4, OldWordsFit DEF AInv, PendingWordsAreInside, Pending
  <2>8. StylesFollowPath' /\ LinksFollowPath' /\ LeftoverTags'
    BY <1>1, <2>1, TextsStay
  <2> QED
    BY <2>6, <2>7, <2>8 DEF AInv
<1> QED
  BY <1>5, <1>6, <1>7 DEF OnText

-----------------------------------------------------------------------------
(* The callbacks, one by one. *)

\* onStartTag keeps the inductive invariant.
LEMMA StartKeepsArticle ==
  ASSUME FilterIsMonotone, IInv, AInv, Running, NEW e \in Elements, Start(e), OnStartTag(e)
  PROVE  AInv'
<1>1. TransformerTypeOK /\ output.builders # <<>> /\ e \in ElementType
  BY ElementsAreTyped DEF IInv, TypeOK, BuildersMirrorPath
<1>2. CASE StartIgnored(e) \/ StartOutside(e)
  BY <1>2, PassesKeeps DEF Passes
<1>3. CASE StartThrows(e)
  <2>1. output' = output /\ received' = received /\ raised' # "none"
    BY <1>3 DEF StartThrows, Start
  <2> QED
    BY <2>1 DEF AInv, WordsFit, Pending, StylesFollowPath, LinksFollowPath, PendingWordsAreInside,
                LeftoverTags, Running
<1>4. CASE ~(StartIgnored(e) \/ StartOutside(e) \/ StartThrows(e))
  <2>1. /\ Enter(e)
        /\ Settles(e.tag, output')
        /\ e.tag # "a" => KeepsLinks(output')
        /\ e.tag = "a" => output'.text.links = IF e.href = NoHref THEN output.text.links
                                               ELSE Append(output.text.links, e.href)
    BY <1>1, <1>4, StartSettles
  <2> QED
    BY <2>1, EntersKeeps
<1> QED
  BY <1>2, <1>3, <1>4

\* onEndTag keeps it.
LEMMA EndKeepsArticle ==
  ASSUME FilterIsMonotone, IInv, AInv, Running, NEW e \in Elements, End(e), OnEndTag(e)
  PROVE  AInv'
<1>1. TransformerTypeOK /\ output.builders # <<>> /\ e \in ElementType
  BY ElementsAreTyped DEF IInv, TypeOK, BuildersMirrorPath
<1>2. CASE EndIgnored(e) \/ EndOutside(e)
  BY <1>2, PassesKeeps DEF Passes
<1>3. ~EndThrows(e)
  BY EndNeverThrows
<1>4. CASE ~(EndIgnored(e) \/ EndOutside(e))
  <2>1. Leave(e)
    BY <1>3, <1>4 DEF OnEndTag, EndItem, EndContainer, EndQuotation, EndAnchor, EndPlain
  <2>2. EndReachesBuilders(e)
    BY <2>1 DEF Leave, EndReachesBuilders
  <2>3. ASSUME e.tag \in ListTags \union {"table"}
        PROVE  Len(output.builders) > 1 /\ Last(Flushed(e.tag).builders).kind \in {"List", "Table"}
    <3>1. e.tag \in ContainerTags
      BY <2>3 DEF ContainerTags
    <3>2. BuilderKind(e.tag) \in {"List", "Table"}
      BY <2>3 DEF BuilderKind
    <3> QED
      BY <2>2, <3>1, <3>2, BuilderIsOnTop
  <2>4. /\ Settles(e.tag, output')
        /\ e.tag # "a" => KeepsLinks(output')
        /\ e.tag = "a" => output'.text.links = IF output.text.links = <<>> THEN <<>>
                                               ELSE Front(output.text.links)
    BY <1>1, <1>3, <1>4, <2>3, EndSettles
  <2> QED
    BY <2>1, <2>4, LeavesKeeps
<1> QED
  BY <1>2, <1>4

\* transform() returns the article with its last text flushed.
LEMMA ReturnKeepsArticle ==
  ASSUME IInv, AInv, Return
  PROVE  AInv'
<1>1. Running /\ path = <<>> /\ received' = received /\ TransformerFinish /\ ~Running'
  BY DEF Return, Running
<1>2. TransformerTypeOK /\ output.builders # <<>>
  BY <1>1, RootIsOnTop DEF IInv, TypeOK
<1>3. output' = [FlushText EXCEPT !.builders = Front(@)]
  <2>1. FlushText.builders[Len(FlushText.builders)].kind = "Root"
    <3>1. Len(FlushText.builders) = Len(output.builders)
          /\ FlushText.builders[Len(FlushText.builders)].kind = output.builders[Len(output.builders)].kind
      BY <1>2, FlushKeeps DEF KeepsStack
    <3> QED
      BY <1>1, <3>1, RootIsOnTop
  <2>2. Last(FlushText.builders).kind = "Root"
    BY <2>1 DEF Last
  <2> QED
    BY <1>1, <2>2 DEF TransformerFinish
<1>4. LeavesOf(output') = LeavesOf(FlushText) /\ output'.text = FlushText.text
  BY <1>2, <1>3, FlushKeeps DEF LeavesOf, KeepsStack, IsOutput, Output
<1>5. \A w \in Pending : LabelFits(FlushedElement(output.text), w, received)
  BY <1>1, FlushFits
<1>6. WordsFit'
  <2> DEFINE new == {FlushedElement(output.text)}
  <2>1. \A F \in new : F.words = output.text.words /\ \A w \in Pending : LabelFits(F, w, received)
    BY <1>5 DEF FlushedElement
  <2>2. LeavesOf(output') \subseteq LeavesOf(output) \union new
    BY <1>2, <1>4, FlushTexts
  <2>3. Numbered(output'.text.words) \subseteq Pending
    BY <1>2, <1>4, FlushTexts
  <2>4. WordsFit
    BY DEF AInv
  <2> HIDE DEF new
  <2> QED
    BY <1>1, <2>1, <2>2, <2>3, <2>4, WordsFitKept
<1> QED
  BY <1>1, <1>6 DEF AInv, StylesFollowPath, LinksFollowPath, PendingWordsAreInside, LeftoverTags

\* When transform() has reset its fields the inductive invariant holds.
LEMMA ArticleStarts == Init => AInv
<1> SUFFICES ASSUME Init
             PROVE  AInv
  OBVIOUS
<1>1. /\ output.built = <<>> /\ output.text.words = <<>> /\ output.text.links = <<>>
      /\ styleStack = <<>> /\ tagStack = <<>> /\ ~isInsideBody
  BY DEF Init, EmptyText
<1>2. LeavesOf(output) = {} /\ Pending = {}
  BY <1>1, NoWords DEF LeavesOf, Pending
<1>3. WordsFit /\ PendingWordsAreInside
  BY <1>2 DEF WordsFit, PendingWordsAreInside
<1>4. \A tags : OpenInBody(tags) = {}
  BY <1>1 DEF OpenInBody
<1>5. StylesFollowPath
  <2>1. Len(styleStack) = 0
    BY <1>1
  <2> DEFINE f == [i \in 1 .. 0 |-> 0]
  <2>2. Enumerates(f, 0, {}) /\ f \in [1 .. 0 -> {}]
    BY DEF Enumerates
  <2>3. StylesMatch(styleStack, path, {})
    BY <2>1, <2>2 DEF StylesMatch
  <2> QED
    BY <1>4, <2>3 DEF StylesFollowPath
<1>6. LinksFollowPath
  BY <1>1, NoLinks DEF LinksFollowPath
<1>7. LeftoverTags
  BY <1>1 DEF LeftoverTags, LeftoverMatch
<1> QED
  BY <1>3, <1>5, <1>6, <1>7 DEF AInv

\* Every callback keeps the inductive invariant.
LEMMA NextKeepsArticle ==
  ASSUME FilterIsMonotone
  PROVE  IInv /\ AInv /\ [Next]_vars => AInv'
<1> SUFFICES ASSUME IInv, AInv, [Next]_vars
             PROVE  AInv'
  OBVIOUS
<1>1. CASE StartTag
  <2>1. PICK e \in Elements : Start(e) /\ OnStartTag(e)
    BY <1>1 DEF StartTag
  <2> QED
    BY <2>1, StartKeepsArticle DEF Start
<1>2. CASE EndTag
  <2>1. PICK e \in Elements : End(e) /\ OnEndTag(e)
    BY <1>2 DEF EndTag
  <2> QED
    BY <2>1, EndKeepsArticle DEF End
<1>3. CASE TextOrWhitespace
  <2>1. PICK kind \in TextKinds : Deliver(kind) /\ OnText(kind, Len(received) + 1)
    BY <1>3 DEF TextOrWhitespace
  <2> QED
    BY <2>1, TextKeepsArticle DEF Deliver
<1>4. CASE Return
  BY <1>4, ReturnKeepsArticle
<1>5. CASE TransformAgain
  <2>1. Init'
    BY <1>5, AgainIsInit
  <2>2. Init' => AInv'
    BY ArticleStarts, PTL
  <2> QED
    BY <2>1, <2>2
<1>6. CASE UNCHANGED vars
  <2>1. /\ output' = output /\ received' = received /\ path' = path /\ Running' = Running
        /\ styleStack' = styleStack /\ tagStack' = tagStack /\ isInsideBody' = isInsideBody
        /\ \A tags : OpenInBody(tags)' = OpenInBody(tags)
    BY <1>6 DEF vars, transformerVars, walkVars, stacks, flags, Running, OpenInBody, AcceptedDepth
  <2> QED
    BY <2>1 DEF AInv, WordsFit, Pending, StylesFollowPath, LinksFollowPath, PendingWordsAreInside, LeftoverTags
<1> QED
  BY <1>1, <1>2, <1>3, <1>4, <1>5, <1>6 DEF Next

-----------------------------------------------------------------------------
(* The theorems. *)

\* The inductive invariant: mStyleStack and the links of the text being built follow the open
\* elements, the pending words stood in all open blocks, and all words and labels are right.
THEOREM ArticleInvariance ==
  ASSUME FilterIsMonotone
  PROVE  Spec => [](IInv /\ AInv)
<1>1. Init => IInv /\ AInv
  BY InitIsFine, ArticleStarts
<1>2. IInv /\ AInv /\ [Next]_vars => (IInv /\ AInv)'
  BY NextKeeps, NextKeepsArticle
<1> QED
  BY <1>1, <1>2, PTL DEF Spec

\* The words the properties speak of are those the invariant speaks of.
LEMMA WordsAreInLeaves ==
  ASSUME NEW w \in AllWords
  PROVE  w \in Pending \/ \E element \in LeavesOf(output) : w \in Numbered(element.words)
BY DEF AllWords, Pending, WordsOf, Leaves, LeavesOf

\* The tags around a word are those of the elements the text was delivered in.
LEMMA AroundIsIn ==
  ASSUME NEW n
  PROVE  TagsAround(n) = TagsIn(received, n)
BY DEF TagsAround, TagsIn

\* Every word carries the styles of the formatting elements it stood in and no other
\* (mStyleStack, merged in onText), whatever was opened, ignored and closed before it.
THEOREM Styling ==
  ASSUME FilterIsMonotone
  PROVE  Spec => []WordsHaveTheirStyles
<1>1. ASSUME AInv
      PROVE  WordsHaveTheirStyles
  <2>1. \A w \in AllWords : WordFits(w, received)
    BY <1>1, WordsAreInLeaves DEF AInv, WordsFit
  <2> QED
    BY <2>1, AroundIsIn DEF WordsHaveTheirStyles, WordFits
<1> QED
  BY <1>1, ArticleInvariance, PTL

\* A word is only ever linked to an <a> it stood in: no link outlives its element
\* (pushLink in onStartTag, pop in onEndTag, a new builder in flushText).
THEOREM Linking ==
  ASSUME FilterIsMonotone
  PROVE  Spec => []WordsHaveNoForeignLink
<1>1. ASSUME AInv
      PROVE  WordsHaveNoForeignLink
  <2>1. \A w \in AllWords : WordFits(w, received)
    BY <1>1, WordsAreInLeaves DEF AInv, WordsFit
  <2> QED
    BY <2>1 DEF WordsHaveNoForeignLink, WordFits
<1> QED
  BY <1>1, ArticleInvariance, PTL

\* A title holds only words of its heading, preformatted text only words of its <pre> and a
\* Quote only words of a <blockquote>, though flushText labels a text after its words came.
THEOREM Labelling ==
  ASSUME FilterIsMonotone
  PROVE  Spec => []TextsAreLabelledByTheirPlace
<1>1. ASSUME AInv
      PROVE  TextsAreLabelledByTheirPlace
  <2>1. ASSUME NEW i \in Leaves, NEW w \in WordsOf(i)
        PROVE  LabelFits(output.built[i], w, received)
    <3>1. output.built[i] \in LeavesOf(output) /\ w \in Numbered(output.built[i].words)
      BY <2>1 DEF Leaves, LeavesOf, WordsOf
    <3> QED
      BY <1>1, <3>1 DEF AInv, WordsFit
  <2> QED
    BY <2>1, AroundIsIn DEF TextsAreLabelledByTheirPlace, LabelFits
<1> QED
  BY <1>1, ArticleInvariance, PTL

\* Nothing inside a rejected element reaches the article, the styles or the title, however
\* deep it is and whatever tags come in between (onStartTag, onText, onEndTag).
THEOREM IgnoredSubtrees ==
  ASSUME FilterIsMonotone
  PROVE  Spec => IgnoredSubtreesAreSilent
<1> DEFINE silent == (\E i \in DOMAIN path : RejectsElement(path[i])) /\ Running
                       => UNCHANGED <<output, styleStack, title>>
<1>1. ASSUME IInv, [Next]_vars
      PROVE  [silent]_vars
  <2> SUFFICES ASSUME Next, Running, NEW i \in DOMAIN path, RejectsElement(path[i])
               PROVE  UNCHANGED <<output, styleStack, title>>
    BY <1>1
  <2>1. ignoredTagDepth > 0 /\ path # <<>>
    <3>1. i \in 1 .. Len(path) /\ path # <<>>
      BY DEF IInv, TypeOK
    <3>2. i \notin 1 .. AcceptedDepth
      BY <1>1, DepthsOf
    <3>3. AcceptedDepth # Len(path)
      BY <3>1, <3>2
    <3>4. ignoredTagDepth # 0 /\ ignoredTagDepth \in Nat
      BY <1>1, <3>3, DepthsOf
    <3> QED
      BY <3>1, <3>4
  <2>2. ASSUME NEW e \in Elements, OnStartTag(e)
        PROVE  UNCHANGED <<output, styleStack, title>>
    <3>1. StartIgnored(e)
      BY <2>1, <2>2 DEF OnStartTag, StartOutside, StartList, StartItem, StartTable, StartRow, StartCell,
                        StartQuotation, StartBreak, StartImage, StartAnchor, StartPlain, StartThrows,
                        Enter, TakeIn, Accepted
    <3> QED
      BY <3>1 DEF StartIgnored
  <2>3. ASSUME NEW e \in Elements, OnEndTag(e)
        PROVE  UNCHANGED <<output, styleStack, title>>
    <3>1. EndIgnored(e)
      BY <2>1, <2>3 DEF OnEndTag, EndOutside, EndItem, EndContainer, EndQuotation, EndAnchor, EndPlain,
                        EndThrows, EndReachesBuilders, Leave, EndsIgnored
    <3> QED
      BY <3>1 DEF EndIgnored
  <2>4. ASSUME NEW kind \in TextKinds, OnText(kind, Len(received) + 1)
        PROVE  UNCHANGED <<output, styleStack, title>>
    <3>1. TextIgnored
      BY <2>1, <2>4 DEF OnText, TextOfTitle, TextOfBody
    <3> QED
      BY <3>1 DEF TextIgnored, transformerVars
  <2>5. ~Return /\ ~TransformAgain
    BY <2>1 DEF Return, TransformAgain
  <2> QED
    BY <2>2, <2>3, <2>4, <2>5 DEF Next, StartTag, EndTag, TextOrWhitespace
<1> QED
  BY <1>1, Invariance, PTL DEF Spec, IgnoredSubtreesAreSilent

-----------------------------------------------------------------------------
(* Induction: sequences joined and trees read in preorder. *)

\* The pairs of natural numbers of which the first is less.
LessThan == {p \in Nat \X Nat : p[1] < p[2]}

\* The library states it for the operator <; here it is a relation.
LEMMA LessThanIsWellFounded == IsWellFoundedOn(LessThan, Nat)
<1>1. OpToRel(<, Nat) = LessThan
  BY Zenon DEF OpToRel, LessThan
<1> QED
  BY <1>1, NatLessThanWellFounded, Zenon

\* A set of natural numbers that is not empty has a least element.
LEMMA LeastElement ==
  ASSUME NEW T \in SUBSET Nat, T # {}
  PROVE  \E x \in T : \A y \in T : x <= y
<1>1. PICK x \in T : \A y \in T : ~ (<<y, x>> \in LessThan)
  BY LessThanIsWellFounded, WFMin
<1>2. ASSUME NEW y \in T
      PROVE  x <= y
  <2>1. ~(<<y, x>> \in LessThan)
    BY <1>1
  <2>2. <<y, x>> \in Nat \X Nat
    OBVIOUS
  <2>3. ~(y < x)
    BY <2>1, <2>2 DEF LessThan
  <2> QED
    BY <2>3
<1> QED
  BY <1>2

\* Induction up to a number: a set that holds 0 and with each number the next holds them all.
LEMMA InductionUpTo ==
  ASSUME NEW n \in Nat, NEW T, 0 \in T, \A i \in 0 .. n - 1 : i \in T => i + 1 \in T
  PROVE  0 .. n \subseteq T
<1> SUFFICES ASSUME (0 .. n) \ T # {}
             PROVE  FALSE
  OBVIOUS
<1>0. (0 .. n) \ T \in SUBSET Nat
  OBVIOUS
<1>1. PICK x \in (0 .. n) \ T : \A y \in (0 .. n) \ T : x <= y
  BY <1>0, LeastElement
<1>2. x # 0
  BY <1>1
<1>3. x - 1 \in 0 .. n - 1 /\ x \in Nat
  BY <1>2
<1>4. x - 1 \in T
  <2>1. x - 1 \in 0 .. n /\ ~(x <= x - 1)
    BY <1>3
  <2> QED
    BY <1>1, <2>1
<1>5. (x - 1) + 1 \in T
  BY <1>3, <1>4
<1>6. (x - 1) + 1 = x
  BY <1>3
<1> QED
  BY <1>1, <1>5, <1>6

\* g[i] is the sequences f[1] to f[i], one after the other: what the LET of Joined defines.
Joins(g, f, n) == g = [i \in 0 .. n |-> IF i = 0 THEN <<>> ELSE g[i - 1] \o f[i]]

\* There is such a function for every n: were there a least number without one, the one before
\* it could be extended.
LEMMA JoinExists ==
  ASSUME NEW f, NEW n \in Nat
  PROVE  \E g : Joins(g, f, n)
<1> DEFINE T == {i \in 0 .. n : \E g : Joins(g, f, i)}
<1>1. 0 \in T
  <2> DEFINE g == [i \in 0 .. 0 |-> <<>>]
  <2>1. Joins(g, f, 0)
    BY DEF Joins
  <2> QED
    BY <2>1
<1>2. ASSUME NEW i \in 0 .. n - 1, i \in T
      PROVE  i + 1 \in T
  <2>1. PICK g : Joins(g, f, i)
    BY <1>2
  <2> DEFINE h == [k \in 0 .. i + 1 |-> IF k = i + 1 THEN g[i] \o f[i + 1] ELSE g[k]]
  <2>2. i + 1 \in 0 .. n
    OBVIOUS
  <2>3. ASSUME NEW k \in 0 .. i + 1
        PROVE  h[k] = IF k = 0 THEN <<>> ELSE h[k - 1] \o f[k]
    <3>1. CASE k = i + 1
      <4>1. k # 0 /\ k - 1 = i /\ i \in 0 .. i + 1 /\ i # i + 1
        BY <3>1
      <4>2. h[k] = g[i] \o f[i + 1] /\ h[i] = g[i]
        BY <3>1, <4>1
      <4> QED
        BY <3>1, <4>1, <4>2
    <3>2. CASE k # i + 1
      <4>1. k \in 0 .. i /\ (k # 0 => k - 1 \in 0 .. i + 1 /\ k - 1 # i + 1)
        BY <3>2
      <4>2. g[k] = IF k = 0 THEN <<>> ELSE g[k - 1] \o f[k]
        BY <2>1, <4>1 DEF Joins
      <4> QED
        BY <3>2, <4>1, <4>2
    <3> QED
      BY <3>1, <3>2
  <2>4. h = [k \in 0 .. i + 1 |-> IF k = 0 THEN <<>> ELSE h[k - 1] \o f[k]]
    <3>1. h = [k \in 0 .. i + 1 |-> h[k]]
      OBVIOUS
    <3> HIDE DEF h
    <3> QED
      BY <2>3, <3>1
  <2>5. Joins(h, f, i + 1)
    BY <2>4 DEF Joins
  <2> QED
    BY <2>2, <2>5
<1> HIDE DEF T
<1>3. n \in T
  <2>1. 0 .. n \subseteq T
    BY <1>1, <1>2, InductionUpTo
  <2> QED
    BY <2>1
<1> QED
  BY <1>3 DEF T

\* Two such functions for the same sequences agree, even when one is longer.
LEMMA JoinsAgree ==
  ASSUME NEW f, NEW f2, NEW n \in Nat, NEW g, NEW h, NEW m \in Nat, n <= m,
         Joins(g, f, n), Joins(h, f2, m), \A i \in 1 .. n : f[i] = f2[i]
  PROVE  g[n] = h[n]
<1> DEFINE T == {i \in 0 .. n : g[i] = h[i]}
<1>1. 0 \in T
  BY DEF Joins
<1>2. ASSUME NEW i \in 0 .. n - 1, i \in T
      PROVE  i + 1 \in T
  <2>1. i + 1 \in 0 .. n /\ i + 1 \in 0 .. m /\ i + 1 # 0 /\ (i + 1) - 1 = i /\ i + 1 \in 1 .. n
    OBVIOUS
  <2>2. g[i + 1] = g[i] \o f[i + 1]
    BY <2>1 DEF Joins
  <2>3. h[i + 1] = h[i] \o f2[i + 1]
    BY <2>1 DEF Joins
  <2> QED
    BY <1>2, <2>1, <2>2, <2>3
<1> HIDE DEF T
<1>3. 0 .. n \subseteq T
  BY <1>1, <1>2, InductionUpTo
<1> QED
  BY <1>3 DEF T

\* Joined is the last value of that function.
LEMMA JoinedIs ==
  ASSUME NEW f, NEW n \in Nat
  PROVE  \E g : Joins(g, f, n) /\ Joined(f, n) = g[n]
<1> DEFINE g == CHOOSE h : Joins(h, f, n)
<1>1. Joins(g, f, n)
  BY JoinExists
<1>2. Joined(f, n) = g[n]
  BY DEF Joined, Joins
<1> HIDE DEF g
<1> QED
  BY <1>1, <1>2

\* Joining no sequence gives the empty one.
LEMMA JoinedNone ==
  ASSUME NEW f
  PROVE  Joined(f, 0) = <<>>
<1>1. PICK g : Joins(g, f, 0) /\ Joined(f, 0) = g[0]
  BY JoinedIs
<1>2. 0 \in 0 .. 0
  OBVIOUS
<1>3. g[0] = <<>>
  BY <1>1, <1>2 DEF Joins
<1> QED
  BY <1>1, <1>3

\* Joining one sequence more appends it.
LEMMA JoinedMore ==
  ASSUME NEW f, NEW n \in Nat
  PROVE  Joined(f, n + 1) = Joined(f, n) \o f[n + 1]
<1>1. PICK g : Joins(g, f, n) /\ Joined(f, n) = g[n]
  BY JoinedIs
<1>2. n + 1 \in Nat
  OBVIOUS
<1>3. PICK h : Joins(h, f, n + 1) /\ Joined(f, n + 1) = h[n + 1]
  BY <1>2, JoinedIs
<1>4. g[n] = h[n]
  <2>1. n <= n + 1
    OBVIOUS
  <2> DEFINE m == n + 1
  <2>2. m \in Nat /\ n <= m /\ Joins(h, f, m)
    BY <1>3, <2>1
  <2>3. PICK f2 : f2 = f
    OBVIOUS
  <2>4. Joins(h, f2, m) /\ \A i \in 1 .. n : f[i] = f2[i]
    BY <2>2, <2>3
  <2> HIDE DEF m
  <2> QED
    BY <1>1, <2>2, <2>4, JoinsAgree, SMTT(20)
<1>5. h[n + 1] = h[n] \o f[n + 1]
  <2>1. n + 1 \in 0 .. n + 1 /\ n + 1 # 0 /\ (n + 1) - 1 = n
    OBVIOUS
  <2> QED
    BY <1>3, <2>1 DEF Joins
<1> QED
  BY <1>1, <1>3, <1>4, <1>5

\* Only what f gives for 1 .. n matters.
LEMMA JoinedSame ==
  ASSUME NEW f, NEW f2, NEW n \in Nat, \A i \in 1 .. n : f[i] = f2[i]
  PROVE  Joined(f, n) = Joined(f2, n)
<1>1. PICK g : Joins(g, f, n) /\ Joined(f, n) = g[n]
  BY JoinedIs
<1>2. PICK h : Joins(h, f2, n) /\ Joined(f2, n) = h[n]
  BY JoinedIs
<1> QED
  BY <1>1, <1>2, JoinsAgree

\* Sequences over S make a sequence over S.
LEMMA JoinedType ==
  ASSUME NEW S, NEW f, NEW n \in Nat, \A i \in 1 .. n : f[i] \in Seq(S)
  PROVE  Joined(f, n) \in Seq(S)
<1> DEFINE T == {i \in 0 .. n : Joined(f, i) \in Seq(S)}
<1>1. 0 \in T
  <2>1. <<>> \in Seq(S)
    OBVIOUS
  <2>2. Joined(f, 0) \in Seq(S)
    BY <2>1, JoinedNone
  <2> QED
    BY <2>2
<1>2. ASSUME NEW i \in 0 .. n - 1, i \in T
      PROVE  i + 1 \in T
  <2>1. Joined(f, i + 1) = Joined(f, i) \o f[i + 1]
    BY JoinedMore
  <2>2. i + 1 \in 1 .. n
    OBVIOUS
  <2>3. f[i + 1] \in Seq(S) /\ Joined(f, i) \in Seq(S)
    BY <1>2, <2>2
  <2>4. Joined(f, i) \o f[i + 1] \in Seq(S)
    BY <2>3, ConcatProperties
  <2>5. i + 1 \in 0 .. n
    OBVIOUS
  <2>6. Joined(f, i + 1) \in Seq(S)
    BY <2>1, <2>4
  <2> QED
    BY <2>5, <2>6
<1> HIDE DEF T
<1>3. 0 .. n \subseteq T
  BY <1>1, <1>2, InductionUpTo
<1> QED
  BY <1>3 DEF T

\* f is f1 up to n and then f2 up to m.
Follows(f, f1, n, f2, m, S) ==
  /\ \A i \in 1 .. n : f1[i] \in Seq(S) /\ f[i] = f1[i]
  /\ \A i \in 1 .. m : f2[i] \in Seq(S) /\ f[n + i] = f2[i]

\* The join of k sequences is that of n and that of m others.
JoinsTwo(f, k, f1, n, f2, m) == Joined(f, k) = Joined(f1, n) \o Joined(f2, m)

\* Two lists joined one after the other.
LEMMA JoinedTwo ==
  ASSUME NEW S, NEW f, NEW f1, NEW f2, NEW n \in Nat, NEW m \in Nat, Follows(f, f1, n, f2, m, S)
  PROVE  JoinsTwo(f, n + m, f1, n, f2, m)
<1> USE DEF Follows, JoinsTwo
<1> DEFINE T == {i \in 0 .. m : Joined(f, n + i) = Joined(f1, n) \o Joined(f2, i)}
<1>1. Joined(f1, n) \in Seq(S)
  BY JoinedType
<1>2. \A i \in 0 .. m : Joined(f2, i) \in Seq(S)
  <2> SUFFICES ASSUME NEW i \in 0 .. m
               PROVE  Joined(f2, i) \in Seq(S)
    OBVIOUS
  <2>1. \A k \in 1 .. i : f2[k] \in Seq(S)
    OBVIOUS
  <2> QED
    BY <2>1, JoinedType
<1>3. 0 \in T
  <2>1. Joined(f, n) = Joined(f1, n)
    BY JoinedSame
  <2>2. Joined(f1, n) \o <<>> = Joined(f1, n)
    BY <1>1, ConcatEmptySeq
  <2>3. n + 0 = n
    OBVIOUS
  <2>4. Joined(f, n + 0) = Joined(f1, n) \o Joined(f2, 0)
    BY <2>1, <2>2, <2>3, JoinedNone
  <2> QED
    BY <2>4
<1>4. ASSUME NEW i \in 0 .. m - 1, i \in T
      PROVE  i + 1 \in T
  <2>1. i + 1 \in 1 .. m /\ i + 1 \in 0 .. m /\ n + i \in Nat /\ n + (i + 1) = (n + i) + 1 /\ i \in 0 .. m
    OBVIOUS
  <2>2. Joined(f, (n + i) + 1) = Joined(f, n + i) \o f[(n + i) + 1]
    BY <2>1, JoinedMore
  <2>3. Joined(f2, i + 1) = Joined(f2, i) \o f2[i + 1]
    BY <2>1, JoinedMore
  <2>4. f[(n + i) + 1] = f2[i + 1] /\ f2[i + 1] \in Seq(S)
    BY <2>1
  <2>5. Joined(f, n + i) = Joined(f1, n) \o Joined(f2, i)
    BY <1>4
  <2>6. (Joined(f1, n) \o Joined(f2, i)) \o f2[i + 1] = Joined(f1, n) \o (Joined(f2, i) \o f2[i + 1])
    <3>1. Joined(f2, i) \in Seq(S)
      BY <1>2, <2>1
    <3> DEFINE a == Joined(f1, n)
               b == Joined(f2, i)
               d == f2[i + 1]
    <3>2. a \in Seq(S) /\ b \in Seq(S) /\ d \in Seq(S)
      BY <1>1, <2>4, <3>1
    <3> HIDE DEF a, b, d
    <3>3. (a \o b) \o d = a \o (b \o d)
      BY <3>2, ConcatAssociative
    <3> QED
      BY <3>3 DEF a, b, d
  <2>7. Joined(f, n + (i + 1)) = Joined(f1, n) \o Joined(f2, i + 1)
    BY <2>1, <2>2, <2>3, <2>4, <2>5, <2>6
  <2> QED
    BY <2>1, <2>7
<1> HIDE DEF T
<1>5. 0 .. m \subseteq T
  BY <1>3, <1>4, InductionUpTo
<1> QED
  BY <1>5 DEF T

-----------------------------------------------------------------------------
\* Children are built before the element they are in.
BuiltBefore(c, n) == \A i \in 1 .. n : c[i] \in Seq(1 .. i - 1)

\* g[i] is i followed by the orders of its children c[i]: what the LET of Preorder defines.
Orders(g, c, n) ==
  g = [i \in 1 .. n |-> <<i>> \o Joined([k \in DOMAIN c[i] |-> g[c[i][k]]], Len(c[i]))]

\* There is such a function when every child was built before its parent.
LEMMA OrderExists ==
  ASSUME NEW n \in Nat, NEW c, BuiltBefore(c, n)
  PROVE  \E g : Orders(g, c, n)
<1> DEFINE T == {i \in 0 .. n : \E g : Orders(g, c, i)}
<1>1. 0 \in T
  <2> DEFINE g == [i \in 1 .. 0 |-> <<i>> \o Joined([k \in DOMAIN c[i] |-> <<>>], Len(c[i]))]
  <2>1. Orders(g, c, 0)
    BY DEF Orders
  <2> QED
    BY <2>1
<1>2. ASSUME NEW i \in 0 .. n - 1, i \in T
      PROVE  i + 1 \in T
  <2>1. PICK g : Orders(g, c, i)
    BY <1>2
  <2> DEFINE Entry(g1, k) == <<k>> \o Joined([j \in DOMAIN c[k] |-> g1[c[k][j]]], Len(c[k]))
             h == [k \in 1 .. i + 1 |-> IF k = i + 1 THEN Entry(g, k) ELSE g[k]]
  <2>2. i + 1 \in 0 .. n
    OBVIOUS
  <2>3. ASSUME NEW k \in 1 .. i + 1
        PROVE  h[k] = Entry(h, k)
    <3>1. h[k] = Entry(g, k)
      <4>1. CASE k = i + 1
        BY <4>1
      <4>2. CASE k # i + 1
        <5>1. k \in 1 .. i
          BY <4>2
        <5>2. g[k] = Entry(g, k)
          BY <2>1, <5>1 DEF Orders
        <5> HIDE DEF Entry
        <5> QED
          BY <4>2, <5>2
      <4> QED
        BY <4>1, <4>2
    <3>2. k \in 1 .. n /\ c[k] \in Seq(1 .. k - 1)
      BY DEF BuiltBefore
    <3>3. Len(c[k]) \in Nat /\ DOMAIN c[k] = 1 .. Len(c[k]) /\ \A j \in 1 .. Len(c[k]) : c[k][j] \in 1 .. k - 1
      BY <3>2
    <3>4. \A j \in 1 .. k - 1 : h[j] = g[j]
      BY DEF Entry
    <3> HIDE DEF h
    <3>5. \A j \in 1 .. Len(c[k]) : [l \in DOMAIN c[k] |-> h[c[k][l]]][j] = [l \in DOMAIN c[k] |-> g[c[k][l]]][j]
      BY <3>3, <3>4
    <3>6. Entry(h, k) = Entry(g, k)
      BY <3>3, <3>5, JoinedSame
    <3> HIDE DEF Entry
    <3> QED
      BY <3>1, <3>6
  <2>4. h = [k \in 1 .. i + 1 |-> Entry(h, k)]
    <3>1. h = [k \in 1 .. i + 1 |-> h[k]]
      OBVIOUS
    <3> HIDE DEF h, Entry
    <3> QED
      BY <2>3, <3>1
  <2>5. Orders(h, c, i + 1)
    <3> HIDE DEF h
    <3> QED
      BY <2>4 DEF Orders
  <2> QED
    BY <2>2, <2>5
<1> HIDE DEF T
<1>3. n \in T
  <2>1. 0 .. n \subseteq T
    BY <1>1, <1>2, InductionUpTo
  <2> QED
    BY <2>1
<1> QED
  BY <1>3 DEF T

\* Two such functions for the same children agree.
LEMMA OrdersAgree ==
  ASSUME NEW n \in Nat, NEW m \in Nat, n <= m, NEW c, BuiltBefore(c, n), NEW c2,
         \A i \in 1 .. n : c[i] = c2[i],
         NEW g, Orders(g, c, n), NEW h, Orders(h, c2, m)
  PROVE  \A i \in 1 .. n : g[i] = h[i]
<1> DEFINE T == {j \in 0 .. n : \A i \in 1 .. j : g[i] = h[i]}
<1>1. 0 \in T
  OBVIOUS
<1>2. ASSUME NEW j \in 0 .. n - 1, j \in T
      PROVE  j + 1 \in T
  <2> DEFINE k == j + 1
  <2>1. k \in 1 .. n /\ k \in 1 .. m /\ k - 1 = j /\ k \in 0 .. n
    OBVIOUS
  <2>2. \A i \in 1 .. j : g[i] = h[i]
    BY <1>2
  <2> HIDE DEF k
  <2>3. c[k] \in Seq(1 .. j) /\ c2[k] = c[k]
    BY <2>1 DEF BuiltBefore
  <2>4. Len(c[k]) \in Nat /\ DOMAIN c[k] = 1 .. Len(c[k]) /\ \A l \in 1 .. Len(c[k]) : c[k][l] \in 1 .. j
    BY <2>3
  <2>5. g[k] = <<k>> \o Joined([l \in DOMAIN c[k] |-> g[c[k][l]]], Len(c[k]))
    BY <2>1 DEF Orders
  <2>6. h[k] = <<k>> \o Joined([l \in DOMAIN c[k] |-> h[c[k][l]]], Len(c[k]))
    BY <2>1, <2>3 DEF Orders
  <2>7. \A l \in 1 .. Len(c[k]) : [i \in DOMAIN c[k] |-> g[c[k][i]]][l] = [i \in DOMAIN c[k] |-> h[c[k][i]]][l]
    BY <2>2, <2>4
  <2>8. g[k] = h[k]
    BY <2>4, <2>5, <2>6, <2>7, JoinedSame
  <2>9. \A i \in 1 .. k : i \in 1 .. j \/ i = k
    BY <2>1
  <2>10. \A i \in 1 .. k : g[i] = h[i]
    BY <2>2, <2>8, <2>9
  <2>11. k \in T
    BY <2>1, <2>10
  <2> QED
    BY <2>11 DEF k
<1> HIDE DEF T
<1>3. 0 .. n \subseteq T
  BY <1>1, <1>2, InductionUpTo
<1>4. n \in T
  BY <1>3
<1> QED
  BY <1>4 DEF T

\* A preorder lists positions that exist.
LEMMA OrdersType ==
  ASSUME NEW n \in Nat, NEW c, BuiltBefore(c, n), NEW g, Orders(g, c, n)
  PROVE  \A i \in 1 .. n : g[i] \in Seq(1 .. n)
<1> DEFINE T == {j \in 0 .. n : \A i \in 1 .. j : g[i] \in Seq(1 .. n)}
<1>1. 0 \in T
  OBVIOUS
<1>2. ASSUME NEW j \in 0 .. n - 1, j \in T
      PROVE  j + 1 \in T
  <2> DEFINE k == j + 1
  <2>1. k \in 1 .. n /\ k - 1 = j /\ k \in 0 .. n
    OBVIOUS
  <2>2. \A i \in 1 .. j : g[i] \in Seq(1 .. n)
    BY <1>2
  <2> HIDE DEF k
  <2>3. c[k] \in Seq(1 .. j)
    BY <2>1 DEF BuiltBefore
  <2>4. Len(c[k]) \in Nat /\ DOMAIN c[k] = 1 .. Len(c[k]) /\ \A l \in 1 .. Len(c[k]) : c[k][l] \in 1 .. j
    BY <2>3
  <2>5. g[k] = <<k>> \o Joined([l \in DOMAIN c[k] |-> g[c[k][l]]], Len(c[k]))
    BY <2>1 DEF Orders
  <2>6. \A l \in 1 .. Len(c[k]) : [i \in DOMAIN c[k] |-> g[c[k][i]]][l] \in Seq(1 .. n)
    BY <2>2, <2>4
  <2>7. Joined([l \in DOMAIN c[k] |-> g[c[k][l]]], Len(c[k])) \in Seq(1 .. n)
    BY <2>4, <2>6, JoinedType
  <2>8. <<k>> \in Seq(1 .. n)
    BY <2>1
  <2>9. g[k] \in Seq(1 .. n)
    BY <2>5, <2>7, <2>8, ConcatProperties
  <2>10. \A i \in 1 .. k : i \in 1 .. j \/ i = k
    BY <2>1
  <2>11. k \in T
    BY <2>1, <2>2, <2>9, <2>10
  <2> QED
    BY <2>11 DEF k
<1> HIDE DEF T
<1>3. 0 .. n \subseteq T
  BY <1>1, <1>2, InductionUpTo
<1>4. n \in T
  BY <1>3
<1> QED
  BY <1>4 DEF T

-----------------------------------------------------------------------------
\* The children of each element, by its place.
ChildrenOf(built) == [i \in DOMAIN built |-> Children(built[i])]

\* Every container was built after its content.
Sound(built) == BuiltBefore(ChildrenOf(built), Len(built))

\* Preorder is the function that Orders describes.
LEMMA PreorderIs ==
  ASSUME NEW X, NEW built \in Seq(X), Sound(built)
  PROVE  Orders(Preorder(built), ChildrenOf(built), Len(built))
<1> DEFINE c == ChildrenOf(built)
           n == Len(built)
<1>1. n \in Nat /\ DOMAIN built = 1 .. n
  OBVIOUS
<1>2. BuiltBefore(c, n)
  BY DEF Sound
<1>3. \A i \in 1 .. n : c[i] = Children(built[i])
  BY <1>1 DEF ChildrenOf
<1> HIDE DEF c, n
<1>4. PICK g : Orders(g, c, n)
  BY <1>1, <1>2, OrderExists
<1> DEFINE Q(h) == h = [i \in DOMAIN built |->
                          <<i>> \o Joined([k \in DOMAIN Children(built[i]) |-> h[Children(built[i])[k]]],
                                          Len(Children(built[i])))]
<1>5. ASSUME NEW h
      PROVE  Q(h) <=> Orders(h, c, n)
  BY <1>1, <1>3 DEF Orders
<1>6. Preorder(built) = CHOOSE h : Q(h)
  BY DEF Preorder
<1>7. Q(g)
  BY <1>4, <1>5
<1> HIDE DEF Q
<1>8. Q(Preorder(built))
  BY <1>6, <1>7
<1>9. Orders(Preorder(built), c, n)
  BY <1>5, <1>8
<1> QED
  BY <1>9 DEF c, n

\* A preorder lists elements that exist.
LEMMA PreorderTypes ==
  ASSUME NEW X, NEW built \in Seq(X), Sound(built)
  PROVE  \A i \in 1 .. Len(built) : Preorder(built)[i] \in Seq(1 .. Len(built))
<1>1. Len(built) \in Nat /\ BuiltBefore(ChildrenOf(built), Len(built))
  BY DEF Sound
<1> QED
  BY <1>1, PreorderIs, OrdersType

\* New elements leave the order of the old ones as it is.
LEMMA PreorderStays ==
  ASSUME NEW X, NEW built \in Seq(X), NEW x \in X, Sound(built), Sound(Append(built, x))
  PROVE  \A i \in 1 .. Len(built) : Preorder(Append(built, x))[i] = Preorder(built)[i]
<1> DEFINE more == Append(built, x)
<1>1. more \in Seq(X) /\ Len(built) \in Nat /\ Len(more) \in Nat /\ Len(built) <= Len(more)
  OBVIOUS
<1>2. \A i \in 1 .. Len(built) : more[i] = built[i] /\ i \in DOMAIN more /\ i \in DOMAIN built
  OBVIOUS
<1> HIDE DEF more
<1>3. \A i \in 1 .. Len(built) : ChildrenOf(built)[i] = ChildrenOf(more)[i]
  BY <1>2 DEF ChildrenOf
<1>4. Orders(Preorder(built), ChildrenOf(built), Len(built))
  BY PreorderIs
<1>5. Sound(more)
  BY DEF more
<1>6. Orders(Preorder(more), ChildrenOf(more), Len(more))
  BY <1>1, <1>5, PreorderIs
<1>7. BuiltBefore(ChildrenOf(built), Len(built))
  BY DEF Sound
<1>8. \A i \in 1 .. Len(built) : Preorder(built)[i] = Preorder(more)[i]
  BY <1>1, <1>3, <1>4, <1>6, <1>7, OrdersAgree
<1> QED
  BY <1>8 DEF more

\* A sequence of references, and the order of what it refers to.
LEMMA PreorderOfType ==
  ASSUME NEW X, NEW built \in Seq(X), Sound(built), NEW refs \in Seq(1 .. Len(built))
  PROVE  PreorderOf(built, refs) \in Seq(1 .. Len(built))
<1> DEFINE f == [k \in DOMAIN refs |-> Preorder(built)[refs[k]]]
<1>1. Len(refs) \in Nat /\ \A k \in 1 .. Len(refs) : k \in DOMAIN refs /\ refs[k] \in 1 .. Len(built)
  OBVIOUS
<1>2. \A k \in 1 .. Len(refs) : f[k] \in Seq(1 .. Len(built))
  BY <1>1, PreorderTypes
<1>3. PreorderOf(built, refs) = Joined(f, Len(refs))
  BY DEF PreorderOf
<1> HIDE DEF f
<1> QED
  BY <1>1, <1>2, <1>3, JoinedType

\* Nothing is read of no element.
LEMMA PreorderOfNone ==
  ASSUME NEW built
  PROVE  PreorderOf(built, <<>>) = <<>>
<1>1. Len(<<>>) = 0
  OBVIOUS
<1> QED
  BY <1>1, JoinedNone DEF PreorderOf

\* Two lists of elements are read one after the other.
LEMMA PreorderOfTwo ==
  ASSUME NEW X, NEW built \in Seq(X), Sound(built),
         NEW refs \in Seq(1 .. Len(built)), NEW refs2 \in Seq(1 .. Len(built))
  PROVE  PreorderOf(built, refs \o refs2) = PreorderOf(built, refs) \o PreorderOf(built, refs2)
<1> DEFINE both == refs \o refs2
           f == [k \in DOMAIN both |-> Preorder(built)[both[k]]]
           f1 == [k \in DOMAIN refs |-> Preorder(built)[refs[k]]]
           f2 == [k \in DOMAIN refs2 |-> Preorder(built)[refs2[k]]]
           n == Len(refs)
           m == Len(refs2)
<1>1. n \in Nat /\ m \in Nat /\ Len(both) = n + m /\ DOMAIN both = 1 .. n + m
  OBVIOUS
<1>2. \A k \in 1 .. n : k \in 1 .. n + m /\ k \in DOMAIN refs /\ both[k] = refs[k] /\ refs[k] \in 1 .. Len(built)
  OBVIOUS
<1>3. \A k \in 1 .. m : n + k \in 1 .. n + m /\ k \in DOMAIN refs2 /\ both[n + k] = refs2[k]
                        /\ refs2[k] \in 1 .. Len(built)
  OBVIOUS
<1> HIDE DEF both, n, m
<1>4. \A k \in 1 .. n : f1[k] \in Seq(1 .. Len(built)) /\ f[k] = f1[k]
  BY <1>1, <1>2, PreorderTypes
<1>5. \A k \in 1 .. m : f2[k] \in Seq(1 .. Len(built)) /\ f[n + k] = f2[k]
  BY <1>1, <1>3, PreorderTypes
<1>6. /\ PreorderOf(built, both) = Joined(f, n + m)
      /\ PreorderOf(built, refs) = Joined(f1, n)
      /\ PreorderOf(built, refs2) = Joined(f2, m)
  BY <1>1 DEF PreorderOf, n, m
<1> DEFINE S == 1 .. Len(built)
<1>8. /\ \A k \in 1 .. n : f1[k] \in Seq(S) /\ f[k] = f1[k]
      /\ \A k \in 1 .. m : f2[k] \in Seq(S) /\ f[n + k] = f2[k]
  BY <1>4, <1>5
<1> HIDE DEF f, f1, f2, S
<1>7. Joined(f, n + m) = Joined(f1, n) \o Joined(f2, m)
  <2>1. Follows(f, f1, n, f2, m, S)
    BY <1>8 DEF Follows
  <2>2. JoinsTwo(f, n + m, f1, n, f2, m)
    BY <1>1, <2>1, JoinedTwo
  <2> QED
    BY <2>2 DEF JoinsTwo
<1> QED
  BY <1>6, <1>7 DEF both

\* An element is read before its content.
LEMMA PreorderOfOne ==
  ASSUME NEW X, NEW built \in Seq(X), Sound(built), NEW r \in 1 .. Len(built)
  PROVE  PreorderOf(built, <<r>>) = <<r>> \o PreorderOf(built, Children(built[r]))
<1> DEFINE f == [k \in DOMAIN <<r>> |-> Preorder(built)[<<r>>[k]]]
           c == ChildrenOf(built)
<1>1. PreorderOf(built, <<r>>) = Joined(f, 0 + 1)
  BY DEF PreorderOf
<1>2. f[0 + 1] = Preorder(built)[r]
  OBVIOUS
<1>3. c[r] = Children(built[r])
  BY DEF ChildrenOf
<1> HIDE DEF f
<1>4. Preorder(built)[r] = <<r>> \o Joined([k \in DOMAIN c[r] |-> Preorder(built)[c[r][k]]], Len(c[r]))
  BY PreorderIs DEF Orders
<1> HIDE DEF c
<1>5. Preorder(built)[r] = <<r>> \o PreorderOf(built, Children(built[r]))
  BY <1>3, <1>4 DEF PreorderOf
<1>6. Joined(f, 0 + 1) = <<>> \o f[0 + 1]
  BY JoinedNone, JoinedMore
<1>7. Preorder(built)[r] \in Seq(1 .. Len(built))
  BY PreorderTypes
<1>8. <<>> \o Preorder(built)[r] = Preorder(built)[r]
  BY <1>7, ConcatEmptySeq
<1> QED
  BY <1>1, <1>2, <1>5, <1>6, <1>8

\* What is read of some elements does not change when another is built.
LEMMA PreorderOfStays ==
  ASSUME NEW X, NEW built \in Seq(X), NEW x \in X, Sound(built), Sound(Append(built, x)),
         NEW refs \in Seq(1 .. Len(built))
  PROVE  PreorderOf(Append(built, x), refs) = PreorderOf(built, refs)
<1> DEFINE f == [k \in DOMAIN refs |-> Preorder(built)[refs[k]]]
           h == [k \in DOMAIN refs |-> Preorder(Append(built, x))[refs[k]]]
<1>1. Len(refs) \in Nat /\ \A k \in 1 .. Len(refs) : k \in DOMAIN refs /\ refs[k] \in 1 .. Len(built)
  OBVIOUS
<1>2. \A k \in 1 .. Len(refs) : h[k] = f[k]
  BY <1>1, PreorderStays
<1>3. /\ PreorderOf(built, refs) = Joined(f, Len(refs))
      /\ PreorderOf(Append(built, x), refs) = Joined(h, Len(refs))
  BY DEF PreorderOf
<1> HIDE DEF f, h
<1> QED
  BY <1>1, <1>2, <1>3, JoinedSame

-----------------------------------------------------------------------------
\* Sequences of sequences.
LEMMA FlatType ==
  ASSUME NEW S, NEW seqs \in Seq(Seq(S))
  PROVE  Flat(seqs) \in Seq(S)
<1>1. Len(seqs) \in Nat /\ \A i \in 1 .. Len(seqs) : seqs[i] \in Seq(S)
  OBVIOUS
<1> QED
  BY <1>1, JoinedType DEF Flat

\* Flattening a list with one sequence more.
LEMMA FlatAppend ==
  ASSUME NEW S, NEW seqs \in Seq(Seq(S)), NEW s \in Seq(S)
  PROVE  Flat(Append(seqs, s)) = Flat(seqs) \o s
<1> DEFINE n == Len(seqs)
           more == Append(seqs, s)
<1>1. n \in Nat /\ Len(more) = n + 1 /\ more[n + 1] = s /\ \A i \in 1 .. n : seqs[i] = more[i]
  OBVIOUS
<1> HIDE DEF n, more
<1>2. Joined(more, n + 1) = Joined(more, n) \o s
  BY <1>1, JoinedMore
<1>3. Joined(more, n) = Joined(seqs, n)
  BY <1>1, JoinedSame
<1> QED
  BY <1>1, <1>2, <1>3 DEF Flat, n, more

\* The same when an empty sequence is left out (startNewRow, startNewCell).
LEMMA FlatAppendIfAny ==
  ASSUME NEW S, NEW seqs \in Seq(Seq(S)), NEW s \in Seq(S)
  PROVE  Flat(AppendIfAny(seqs, s)) = Flat(seqs) \o s
<1>1. CASE s = <<>>
  <2>1. Flat(seqs) \in Seq(S)
    BY FlatType
  <2> QED
    BY <1>1, <2>1, ConcatEmptySeq DEF AppendIfAny
<1>2. CASE s # <<>>
  BY <1>2, FlatAppend DEF AppendIfAny
<1> QED
  BY <1>1, <1>2

\* Flattening no sequence.
LEMMA FlatNone == Flat(<<>>) = <<>>
<1>1. Len(<<>>) = 0
  OBVIOUS
<1> QED
  BY <1>1, JoinedNone DEF Flat

\* Flattening two lists of sequences.
LEMMA FlatConcat ==
  ASSUME NEW S, NEW seqs \in Seq(Seq(S)), NEW seqs2 \in Seq(Seq(S))
  PROVE  Flat(seqs \o seqs2) = Flat(seqs) \o Flat(seqs2)
<1> DEFINE f == seqs \o seqs2
           n == Len(seqs)
           m == Len(seqs2)
<1>1. n \in Nat /\ m \in Nat /\ Len(f) = n + m
  OBVIOUS
<1>2. /\ \A i \in 1 .. n : seqs[i] \in Seq(S) /\ f[i] = seqs[i]
      /\ \A i \in 1 .. m : seqs2[i] \in Seq(S) /\ f[n + i] = seqs2[i]
  OBVIOUS
<1> HIDE DEF f, n, m
<1>3. Follows(f, seqs, n, seqs2, m, S)
  BY <1>2 DEF Follows
<1>4. JoinsTwo(f, n + m, seqs, n, seqs2, m)
  BY <1>1, <1>3, JoinedTwo
<1> QED
  BY <1>1, <1>4 DEF JoinsTwo, Flat, f, n, m

-----------------------------------------------------------------------------
(* What a builder and a container hold. *)

\* The records the builders are.
LEMMA BuilderRecords ==
  ASSUME NEW R, NEW b \in Builder(R)
  PROVE  /\ b.kind \in {"Root", "Item", "List", "Table"}
         /\ b.kind \in {"Root", "Item"} => b \in [kind: {"Root", "Item"}, content: Seq(R)]
         /\ b.kind = "List" =>
              b \in [kind: {"List"}, isOrdered: BOOLEAN, ids: SUBSET Name, sourceIndex: Nat, items: Seq(Seq(R))]
         /\ b.kind = "Table" =>
              b \in [kind: {"Table"}, ids: SUBSET Name, sourceIndex: Nat,
                     rows: Seq(Seq(Seq(R))), row: Seq(Seq(R)), cell: Seq(R)]
BY DEF Builder

\* What is in a builder, by its class.
LEMMA ContentIs ==
  ASSUME NEW R, NEW b \in Builder(R)
  PROVE  /\ BuilderContent(b) \in Seq(R)
         /\ b.kind \in {"Root", "Item"} => BuilderContent(b) = b.content
         /\ b.kind = "List" => BuilderContent(b) = Flat(b.items)
         /\ b.kind = "Table" =>
              /\ BuilderContent(b) = (Flat(Flat(b.rows)) \o Flat(b.row)) \o b.cell
              /\ Flat(b.rows) \in Seq(Seq(R)) /\ Flat(Flat(b.rows)) \in Seq(R) /\ Flat(b.row) \in Seq(R)
<1>1. CASE b.kind \in {"Root", "Item"}
  BY <1>1, BuilderRecords DEF BuilderContent
<1>2. CASE b.kind = "List"
  <2>1. b.items \in Seq(Seq(R))
    BY <1>2, BuilderRecords
  <2>2. Flat(b.items) \in Seq(R)
    BY <2>1, FlatType
  <2> QED
    BY <1>2, <2>2 DEF BuilderContent
<1>3. CASE b.kind = "Table"
  <2>1. b.rows \in Seq(Seq(Seq(R))) /\ b.row \in Seq(Seq(R)) /\ b.cell \in Seq(R)
    BY <1>3, BuilderRecords
  <2>2. Flat(b.rows) \in Seq(Seq(R)) /\ Flat(b.row) \in Seq(R)
    BY <2>1, FlatType
  <2>3. Flat(Flat(b.rows)) \in Seq(R)
    BY <2>2, FlatType
  <2>4. BuilderContent(b) = (Flat(Flat(b.rows)) \o Flat(b.row)) \o b.cell
    BY <1>3 DEF BuilderContent
  <2>5. Flat(Flat(b.rows)) \o Flat(b.row) \in Seq(R)
    BY <2>2, <2>3, ConcatProperties
  <2>6. (Flat(Flat(b.rows)) \o Flat(b.row)) \o b.cell \in Seq(R)
    BY <2>1, <2>5, ConcatProperties
  <2> QED
    BY <1>3, <2>2, <2>3, <2>4, <2>6
<1> QED
  BY <1>1, <1>2, <1>3, BuilderRecords

\* addElement takes the element, unless a list refuses it.
Takes(b, kind) == b.kind # "List" \/ kind \in {"Text", "Image", "ContentList"}

\* The fields of a builder that name its place.
SameHeader(b, b2) ==
  /\ b2.kind = b.kind
  /\ b.kind \in {"List", "Table"} => b2.sourceIndex = b.sourceIndex

\* Appending is joining a sequence of one.
LEMMA AppendJoins ==
  ASSUME NEW R, NEW s \in Seq(R), NEW x \in R
  PROVE  Append(s, x) = s \o <<x>>
OBVIOUS

\* addElement puts an element the builder takes at the end of its content, and no other anywhere.
LEMMA AddedContent ==
  ASSUME NEW R, NEW b \in Builder(R), NEW kind, NEW ref \in R
  PROVE  /\ Takes(b, kind) => BuilderContent(Added(b, kind, ref)) = BuilderContent(b) \o <<ref>>
         /\ ~Takes(b, kind) => Added(b, kind, ref) = b
         /\ SameHeader(b, Added(b, kind, ref))
<1> DEFINE b2 == Added(b, kind, ref)
<1>0. b2 \in Builder(R) /\ b2.kind = b.kind
  BY AddedType
<1>1. CASE b.kind \in {"Root", "Item"}
  <2>1. b \in [kind: {"Root", "Item"}, content: Seq(R)]
    BY <1>1, BuilderRecords
  <2>2. b2 = [b EXCEPT !.content = Append(@, ref)]
    BY <1>1 DEF Added
  <2>3. b2.content = Append(b.content, ref)
    BY <2>1, <2>2
  <2>4. BuilderContent(b2) = b2.content /\ BuilderContent(b) = b.content
    BY <1>0, <1>1, ContentIs
  <2>5. BuilderContent(b2) = BuilderContent(b) \o <<ref>>
    BY <2>1, <2>3, <2>4, AppendJoins
  <2> QED
    BY <1>0, <1>1, <2>5 DEF SameHeader, Takes
<1>2. CASE b.kind = "Table"
  <2>1. b \in [kind: {"Table"}, ids: SUBSET Name, sourceIndex: Nat,
               rows: Seq(Seq(Seq(R))), row: Seq(Seq(R)), cell: Seq(R)]
    BY <1>2, BuilderRecords
  <2>2. b2 = [b EXCEPT !.cell = Append(@, ref)]
    BY <1>2 DEF Added
  <2>3. b2.cell = Append(b.cell, ref) /\ b2.rows = b.rows /\ b2.row = b.row /\ b2.sourceIndex = b.sourceIndex
    BY <2>1, <2>2
  <2> DEFINE a == Flat(Flat(b.rows)) \o Flat(b.row)
  <2>4. BuilderContent(b2) = a \o b2.cell /\ BuilderContent(b) = a \o b.cell
    BY <1>0, <1>2, <2>3, ContentIs
  <2>5. a \in Seq(R)
    <3>1. Flat(Flat(b.rows)) \in Seq(R) /\ Flat(b.row) \in Seq(R)
      BY <1>2, ContentIs
    <3> QED
      BY <3>1, ConcatProperties
  <2> DEFINE c == b.cell
             d == <<ref>>
  <2>6. c \in Seq(R) /\ d \in Seq(R) /\ b2.cell = c \o d
    BY <2>1, <2>3, AppendJoins
  <2> HIDE DEF a, c, d
  <2>7. (a \o c) \o d = a \o (c \o d)
    BY <2>5, <2>6, ConcatAssociative
  <2>8. BuilderContent(b2) = BuilderContent(b) \o <<ref>>
    BY <2>4, <2>6, <2>7 DEF c, d
  <2> QED
    BY <1>0, <1>2, <2>3, <2>8 DEF SameHeader, Takes
<1>3. CASE b.kind = "List"
  <2>1. b \in [kind: {"List"}, isOrdered: BOOLEAN, ids: SUBSET Name, sourceIndex: Nat, items: Seq(Seq(R))]
    BY <1>3, BuilderRecords
  <2>2. CASE Takes(b, kind)
    <3>1. b2 = [b EXCEPT !.items = Append(@, <<ref>>)]
      BY <1>3, <2>2 DEF Added, Takes
    <3>2. b2.items = Append(b.items, <<ref>>) /\ b2.sourceIndex = b.sourceIndex
      BY <2>1, <3>1
    <3>3. BuilderContent(b2) = Flat(b2.items) /\ BuilderContent(b) = Flat(b.items)
      BY <1>0, <1>3, ContentIs
    <3>4. b.items \in Seq(Seq(R)) /\ <<ref>> \in Seq(R)
      BY <2>1
    <3>5. Flat(Append(b.items, <<ref>>)) = Flat(b.items) \o <<ref>>
      BY <3>4, FlatAppend
    <3> QED
      BY <1>0, <2>2, <3>2, <3>3, <3>5 DEF SameHeader
  <2>3. CASE ~Takes(b, kind)
    BY <1>3, <2>3 DEF Added, Takes, SameHeader
  <2> QED
    BY <2>2, <2>3
<1> QED
  BY <1>1, <1>2, <1>3, BuilderRecords

\* A new row or cell keeps what is in the table.
LEMMA RowContent ==
  ASSUME NEW R, NEW b \in Builder(R), b.kind = "Table"
  PROVE  /\ BuilderContent(StartNewRow(b)) = BuilderContent(b) /\ SameHeader(b, StartNewRow(b))
         /\ BuilderContent(StartNewCell(b)) = BuilderContent(b) /\ SameHeader(b, StartNewCell(b))
         /\ Flat(Flat(StartNewRow(b).rows)) = BuilderContent(b)
<1>1. b \in [kind: {"Table"}, ids: SUBSET Name, sourceIndex: Nat,
             rows: Seq(Seq(Seq(R))), row: Seq(Seq(R)), cell: Seq(R)]
  BY BuilderRecords
<1> DEFINE r == StartNewRow(b)
           c == StartNewCell(b)
           full == AppendIfAny(b.row, b.cell)
<1>2. /\ r.kind = "Table" /\ r.sourceIndex = b.sourceIndex
      /\ r.rows = AppendIfAny(b.rows, full) /\ r.row = <<>> /\ r.cell = <<>>
      /\ c.kind = "Table" /\ c.sourceIndex = b.sourceIndex
      /\ c.rows = b.rows /\ c.row = full /\ c.cell = <<>>
  BY <1>1 DEF StartNewRow, StartNewCell
<1>3. r \in Builder(R) /\ c \in Builder(R)
  BY RowCellType
<1> HIDE DEF r, c
<1> DEFINE u == Flat(Flat(b.rows))
           v == Flat(b.row)
           w == b.cell
<1>4. u \in Seq(R) /\ v \in Seq(R) /\ w \in Seq(R) /\ Flat(b.rows) \in Seq(Seq(R))
  BY <1>1, ContentIs
<1>5. full \in Seq(Seq(R)) /\ Flat(full) = v \o w
  BY <1>1, AppendIfAnyType, FlatAppendIfAny
<1> HIDE DEF full
<1>6. Flat(r.rows) = Flat(b.rows) \o full
  <2>1. b.rows \in Seq(Seq(Seq(R)))
    BY <1>1
  <2> QED
    BY <1>2, <1>5, <2>1, FlatAppendIfAny
<1>7. Flat(Flat(b.rows) \o full) = u \o Flat(full)
  BY <1>4, <1>5, FlatConcat
<1>8. BuilderContent(b) = (u \o v) \o w
  BY ContentIs
<1>9. /\ BuilderContent(r) = (Flat(Flat(r.rows)) \o <<>>) \o <<>>
      /\ BuilderContent(c) = (u \o Flat(full)) \o <<>>
      /\ Flat(Flat(r.rows)) \in Seq(R)
  BY <1>2, <1>3, ContentIs, FlatNone
<1> HIDE DEF u, v, w
<1>10. (u \o v) \o w = u \o (v \o w)
  BY <1>4, ConcatAssociative
<1>11. u \o (v \o w) \in Seq(R)
  <2>1. v \o w \in Seq(R)
    BY <1>4, ConcatProperties
  <2> QED
    BY <1>4, <2>1, ConcatProperties
<1>12. Flat(Flat(r.rows)) = u \o (v \o w)
  BY <1>5, <1>6, <1>7
<1>13. \A s \in Seq(R) : s \o <<>> = s
  BY ConcatEmptySeq
<1>14. BuilderContent(r) = Flat(Flat(r.rows)) /\ BuilderContent(c) = u \o (v \o w)
  BY <1>5, <1>9, <1>11, <1>13
<1> QED
  BY <1>2, <1>8, <1>10, <1>12, <1>14 DEF r, c, SameHeader

\* What is in a finished container is what was in its builder.
LEMMA ContainerContent ==
  ASSUME NEW R, NEW b \in Builder(R), b.kind \in {"List", "Table"}, NEW built
  PROVE  /\ Children(BuiltContainer(b, built)) = BuilderContent(b)
         /\ BuiltContainer(b, built).sourceIndex = b.sourceIndex
         /\ BuiltContainer(b, built).kind = IF b.kind = "List" THEN "ContentList" ELSE "ContentTable"
<1>1. CASE b.kind = "List"
  BY <1>1, ContentIs DEF BuiltContainer, Children
<1>2. CASE b.kind = "Table"
  BY <1>2, RowContent DEF BuiltContainer, Children
<1> QED
  BY <1>1, <1>2

\* The elements in an element exist.
LEMMA ChildrenType ==
  ASSUME NEW R, NEW x \in ArticleElement(R)
  PROVE  Children(x) \in Seq(R) /\ x.sourceIndex \in Nat
<1>1. CASE x.kind = "ContentList"
  <2>1. x.items \in Seq(Seq(R)) /\ x.sourceIndex \in Nat
    BY <1>1 DEF ArticleElement
  <2> QED
    BY <1>1, <2>1, FlatType DEF Children
<1>2. CASE x.kind = "ContentTable"
  <2>1. x.rows \in Seq(Seq(Seq(R))) /\ x.sourceIndex \in Nat
    BY <1>2 DEF ArticleElement
  <2>2. Flat(x.rows) \in Seq(Seq(R))
    BY <2>1, FlatType
  <2> QED
    BY <1>2, <2>1, <2>2, FlatType DEF Children
<1>3. CASE x.kind \notin {"ContentList", "ContentTable"}
  <2>1. x.sourceIndex \in Nat
    BY <1>3 DEF ArticleElement
  <2>2. Children(x) = <<>>
    BY <1>3 DEF Children
  <2> QED
    BY <2>1, <2>2
<1> QED
  BY <1>1, <1>2, <1>3

-----------------------------------------------------------------------------
(* One element more in what was built. *)

\* The element objects refer to older ones, and the builders to existing ones.
Builds(built) == built \in Seq(ArticleElement(1 .. Len(built))) /\ Sound(built)

\* Finished objects with one more that refers to them.
LEMMA BuildsMore ==
  ASSUME NEW built, Builds(built), NEW x \in ArticleElement(1 .. Len(built))
  PROVE  /\ Builds(Append(built, x))
         /\ Len(Append(built, x)) = Len(built) + 1 /\ Append(built, x)[Len(built) + 1] = x
         /\ built \in Seq(ArticleElement(1 .. Len(built) + 1)) /\ x \in ArticleElement(1 .. Len(built) + 1)
         /\ \A i \in 1 .. Len(built) : Append(built, x)[i] = built[i]
<1> DEFINE n == Len(built)
           more == Append(built, x)
<1>1. n \in Nat
  BY DEF Builds
<1>2. 1 .. n \subseteq 1 .. n + 1
  BY <1>1
<1>3. ArticleElement(1 .. n) \subseteq ArticleElement(1 .. n + 1)
  BY <1>2, ElementGrows
<1>4. built \in Seq(ArticleElement(1 .. n)) /\ x \in ArticleElement(1 .. n)
  BY DEF Builds
<1> HIDE DEF n
<1>5. built \in Seq(ArticleElement(1 .. n + 1)) /\ x \in ArticleElement(1 .. n + 1)
  BY <1>3, <1>4, SeqGrows
<1>6. /\ more \in Seq(ArticleElement(1 .. n + 1)) /\ Len(more) = n + 1 /\ more[n + 1] = x
      /\ \A i \in 1 .. n : more[i] = built[i]
  BY <1>5, Appended DEF n
<1> HIDE DEF more
<1>7. ASSUME NEW i \in 1 .. n + 1
      PROVE  ChildrenOf(more)[i] \in Seq(1 .. i - 1)
  <2>0. DOMAIN more = 1 .. n + 1 /\ DOMAIN built = 1 .. n
    BY <1>1, <1>4, <1>6 DEF n
  <2>1. ChildrenOf(more)[i] = Children(more[i])
    BY <2>0 DEF ChildrenOf
  <2>2. CASE i = n + 1
    <3>1. i - 1 = n /\ more[i] = x
      BY <1>1, <1>6, <2>2
    <3> QED
      BY <1>4, <2>1, <3>1, ChildrenType
  <2>3. CASE i # n + 1
    <3>1. i \in 1 .. n
      BY <1>1, <2>3
    <3>2. ChildrenOf(built)[i] = Children(more[i])
      BY <1>6, <2>0, <3>1 DEF ChildrenOf
    <3>3. ChildrenOf(built)[i] \in Seq(1 .. i - 1)
      BY <3>1 DEF Builds, Sound, BuiltBefore, n
    <3> QED
      BY <2>1, <3>2, <3>3
  <2> QED
    BY <2>2, <2>3
<1>8. Sound(more)
  BY <1>6, <1>7 DEF Sound, BuiltBefore
<1> QED
  BY <1>5, <1>6, <1>8 DEF Builds, n, more

(* The source indexes of a sequence of elements. *)

\* The source indexes of elements that exist.
LEMMA IndexesType ==
  ASSUME NEW built, Builds(built), NEW order \in Seq(1 .. Len(built))
  PROVE  /\ IndexesOf(built, order) \in Seq(Nat)
         /\ Len(IndexesOf(built, order)) = Len(order)
         /\ \A k \in 1 .. Len(order) : IndexesOf(built, order)[k] = built[order[k]].sourceIndex
<1>1. \A k \in 1 .. Len(order) : order[k] \in 1 .. Len(built) /\ DOMAIN order = 1 .. Len(order) /\ Len(order) \in Nat
  OBVIOUS
<1>2. \A r \in 1 .. Len(built) : built[r] \in ArticleElement(1 .. Len(built))
  BY DEF Builds
<1>3. \A k \in 1 .. Len(order) : built[order[k]].sourceIndex \in Nat
  BY <1>1, <1>2, ChildrenType
<1> QED
  BY <1>1, <1>3 DEF IndexesOf

\* The source indexes of two lists of elements.
LEMMA IndexesTwo ==
  ASSUME NEW built, Builds(built), NEW order \in Seq(1 .. Len(built)), NEW order2 \in Seq(1 .. Len(built))
  PROVE  IndexesOf(built, order \o order2) = IndexesOf(built, order) \o IndexesOf(built, order2)
<1> DEFINE both == order \o order2
           s == IndexesOf(built, order)
           t == IndexesOf(built, order2)
           u == IndexesOf(built, both)
           n == Len(order)
           m == Len(order2)
<1>1. /\ both \in Seq(1 .. Len(built)) /\ n \in Nat /\ m \in Nat /\ Len(both) = n + m
      /\ \A k \in 1 .. n : both[k] = order[k]
      /\ \A k \in 1 .. m : both[n + k] = order2[k]
      /\ \A k \in 1 .. n + m : k \in 1 .. n \/ k - n \in 1 .. m
  OBVIOUS
<1>2. /\ s \in Seq(Nat) /\ Len(s) = n /\ \A k \in 1 .. n : s[k] = built[order[k]].sourceIndex
      /\ t \in Seq(Nat) /\ Len(t) = m /\ \A k \in 1 .. m : t[k] = built[order2[k]].sourceIndex
      /\ u \in Seq(Nat) /\ Len(u) = n + m /\ \A k \in 1 .. n + m : u[k] = built[both[k]].sourceIndex
  <2>1. s \in Seq(Nat) /\ Len(s) = n /\ \A k \in 1 .. n : s[k] = built[order[k]].sourceIndex
    BY IndexesType
  <2>2. t \in Seq(Nat) /\ Len(t) = m /\ \A k \in 1 .. m : t[k] = built[order2[k]].sourceIndex
    BY IndexesType
  <2> HIDE DEF both
  <2>3. u \in Seq(Nat) /\ Len(u) = Len(both) /\ \A k \in 1 .. Len(both) : u[k] = built[both[k]].sourceIndex
    BY <1>1, IndexesType
  <2> QED
    BY <1>1, <2>1, <2>2, <2>3
<1> HIDE DEF s, t, u, both, n, m
<1>3. /\ s \o t \in Seq(Nat) /\ Len(s \o t) = n + m
      /\ \A k \in 1 .. n : (s \o t)[k] = s[k]
      /\ \A k \in n + 1 .. n + m : (s \o t)[k] = t[k - n]
  <2>1. /\ s \o t \in Seq(Nat) /\ Len(s \o t) = n + m
        /\ \A k \in 1 .. n + m : (s \o t)[k] = IF k <= n THEN s[k] ELSE t[k - n]
    <3>1. s \in Seq(Nat) /\ t \in Seq(Nat)
      BY <1>2
    <3>2. /\ s \o t \in Seq(Nat) /\ Len(s \o t) = Len(s) + Len(t)
          /\ \A k \in 1 .. Len(s) + Len(t) : (s \o t)[k] = IF k <= Len(s) THEN s[k] ELSE t[k - Len(s)]
      BY <3>1, ConcatProperties
    <3>3. Len(s) = n /\ Len(t) = m
      BY <1>2
    <3> QED
      BY <3>2, <3>3
  <2>2. \A k \in 1 .. n : k \in 1 .. n + m /\ k <= n
    BY <1>1
  <2>3. \A k \in n + 1 .. n + m : k \in 1 .. n + m /\ ~(k <= n)
    BY <1>1
  <2> QED
    BY <2>1, <2>2, <2>3
<1>4. ASSUME NEW k \in 1 .. n + m
      PROVE  u[k] = (s \o t)[k]
  <2>1. CASE k \in 1 .. n
    <3>1. (s \o t)[k] = s[k]
      BY <1>3, <2>1
    <3> QED
      BY <1>1, <1>2, <2>1, <3>1
  <2>2. CASE k \notin 1 .. n
    <3>1. k - n \in 1 .. m /\ n + (k - n) = k
      BY <1>1, <2>2
    <3>2. (s \o t)[k] = t[k - n]
      <4>1. k \in n + 1 .. n + m
        BY <1>1, <2>2
      <4> QED
        BY <1>3, <4>1
    <3>3. u[k] = built[both[n + (k - n)]].sourceIndex
      BY <1>2, <3>1
    <3> QED
      BY <1>1, <1>2, <3>1, <3>2, <3>3
  <2> QED
    BY <2>1, <2>2
<1>5. u = s \o t
  BY <1>1, <1>2, <1>3, <1>4, SeqEqual
<1> QED
  BY <1>5 DEF s, t, u, both

\* Source indexes do not change when another element is built.
LEMMA IndexesStay ==
  ASSUME NEW built, Builds(built), NEW x \in ArticleElement(1 .. Len(built)), NEW order \in Seq(1 .. Len(built))
  PROVE  IndexesOf(Append(built, x), order) = IndexesOf(built, order)
<1>1. \A k \in DOMAIN order : order[k] \in 1 .. Len(built)
  OBVIOUS
<1>2. \A i \in 1 .. Len(built) : Append(built, x)[i] = built[i]
  BY BuildsMore
<1> QED
  BY <1>1, <1>2 DEF IndexesOf

-----------------------------------------------------------------------------
(* The elements of one builder, in reading order, and their source indexes. *)

\* What is read of a builder.
PartOf(built, b) == PreorderOf(built, BuilderContent(b))

\* The source index a list or a table draws before its content.
Header(b) == IF b.kind \in {"List", "Table"} THEN <<b.sourceIndex>> ELSE <<>>

\* The source indexes of a builder are its own and those of what is read of it.
LEMMA BuilderIndexesAre ==
  ASSUME NEW built, NEW b
  PROVE  BuilderIndexes(built, b) = Header(b) \o IndexesOf(built, PartOf(built, b))
BY DEF BuilderIndexes, Header, PartOf

\* What is read of a builder exists and has source indexes.
LEMMA PartTypes ==
  ASSUME NEW built, Builds(built), NEW b \in Builder(1 .. Len(built))
  PROVE  /\ PartOf(built, b) \in Seq(1 .. Len(built))
         /\ Header(b) \in Seq(Nat)
         /\ BuilderIndexes(built, b) \in Seq(Nat)
<1>1. BuilderContent(b) \in Seq(1 .. Len(built))
  BY ContentIs
<1>2. PartOf(built, b) \in Seq(1 .. Len(built))
  BY <1>1, PreorderOfType DEF PartOf, Builds
<1>3. Header(b) \in Seq(Nat)
  BY BuilderRecords DEF Header
<1>4. IndexesOf(built, PartOf(built, b)) \in Seq(Nat)
  BY <1>2, IndexesType
<1> QED
  BY <1>2, <1>3, <1>4, BuilderIndexesAre, ConcatProperties

\* What is read of a builder does not change when another element is built.
LEMMA PartStays ==
  ASSUME NEW built, Builds(built), NEW x \in ArticleElement(1 .. Len(built)), NEW b \in Builder(1 .. Len(built))
  PROVE  /\ PartOf(Append(built, x), b) = PartOf(built, b)
         /\ BuilderIndexes(Append(built, x), b) = BuilderIndexes(built, b)
<1>1. BuilderContent(b) \in Seq(1 .. Len(built))
  BY ContentIs
<1> DEFINE X == ArticleElement(1 .. Len(built) + 1)
<1>2. Builds(Append(built, x)) /\ built \in Seq(X) /\ x \in X
  BY BuildsMore
<1> HIDE DEF X
<1>3. PartOf(Append(built, x), b) = PartOf(built, b)
  BY <1>1, <1>2, PreorderOfStays DEF PartOf, Builds
<1>4. IndexesOf(Append(built, x), PartOf(built, b)) = IndexesOf(built, PartOf(built, b))
  BY PartTypes, IndexesStay
<1> QED
  BY <1>3, <1>4, BuilderIndexesAre

\* Builders of the same kind and source index begin alike.
LEMMA HeaderSame ==
  ASSUME NEW b, NEW b2, SameHeader(b, b2)
  PROVE  Header(b2) = Header(b)
BY DEF Header, SameHeader

\* A builder without content has only its own source index.
LEMMA PartNone ==
  ASSUME NEW built, Builds(built), NEW b \in Builder(1 .. Len(built)), BuilderContent(b) = <<>>
  PROVE  PartOf(built, b) = <<>> /\ BuilderIndexes(built, b) = Header(b)
<1>1. PartOf(built, b) = <<>>
  BY PreorderOfNone DEF PartOf
<1>2. IndexesOf(built, <<>>) = <<>>
  BY DEF IndexesOf
<1>3. Header(b) \o <<>> = Header(b)
  BY PartTypes, ConcatEmptySeq
<1> QED
  BY <1>1, <1>2, <1>3, BuilderIndexesAre

\* More elements in the builder: they and all that is in them come last.
LEMMA PartMore ==
  ASSUME NEW built, Builds(built), NEW b \in Builder(1 .. Len(built)), NEW b2, NEW refs \in Seq(1 .. Len(built)),
         SameHeader(b, b2), BuilderContent(b2) = BuilderContent(b) \o refs
  PROVE  /\ PartOf(built, b2) = PartOf(built, b) \o PreorderOf(built, refs)
         /\ BuilderIndexes(built, b2) = BuilderIndexes(built, b) \o IndexesOf(built, PreorderOf(built, refs))
<1> DEFINE X == ArticleElement(1 .. Len(built))
           p == PartOf(built, b)
           q == PreorderOf(built, refs)
<1>1. BuilderContent(b) \in Seq(1 .. Len(built)) /\ refs \in Seq(1 .. Len(built)) /\ built \in Seq(X) /\ Sound(built)
  <2>1. BuilderContent(b) \in Seq(1 .. Len(built))
    BY ContentIs
  <2> QED
    BY <2>1 DEF Builds
<1> HIDE DEF X
<1>2. PartOf(built, b2) = p \o q
  BY <1>1, PreorderOfTwo DEF PartOf
<1>3. p \in Seq(1 .. Len(built)) /\ q \in Seq(1 .. Len(built))
  BY <1>1, PreorderOfType DEF PartOf
<1> HIDE DEF p, q
<1> DEFINE u == IndexesOf(built, p)
           v == IndexesOf(built, q)
           h == Header(b)
<1>4. IndexesOf(built, p \o q) = u \o v
  BY <1>3, IndexesTwo
<1>5. u \in Seq(Nat) /\ v \in Seq(Nat) /\ h \in Seq(Nat)
  BY <1>3, IndexesType, PartTypes
<1>6. BuilderIndexes(built, b2) = h \o (u \o v) /\ BuilderIndexes(built, b) = h \o u
  BY <1>2, <1>4, BuilderIndexesAre, HeaderSame DEF p
<1> HIDE DEF u, v, h
<1>7. (h \o u) \o v = h \o (u \o v)
  BY <1>5, ConcatAssociative
<1>8. BuilderIndexes(built, b2) = BuilderIndexes(built, b) \o v
  BY <1>6, <1>7
<1> QED
  BY <1>2, <1>8 DEF p, q, v

-----------------------------------------------------------------------------
(* The builders from the root upwards. *)

(* The elements of the first k builders, and their source indexes. *)

\* What is read of the lowest k builders, and its source indexes.
GatheredUpTo(o, k) == Joined([i \in DOMAIN o.builders |-> PartOf(o.built, o.builders[i])], k)

IndexesUpTo(o, k) == Joined([i \in DOMAIN o.builders |-> BuilderIndexes(o.built, o.builders[i])], k)

\* All builders are what is gathered.
LEMMA UpToAll ==
  ASSUME NEW o
  PROVE  /\ GatheredIn(o) = GatheredUpTo(o, Len(o.builders))
         /\ IndexesIn(o) = IndexesUpTo(o, Len(o.builders))
BY DEF GatheredIn, IndexesIn, GatheredUpTo, IndexesUpTo, PartOf

\* A typed output with a builder on the stack and every container built after its content.
Outline(o) == IsOutput(o) /\ o.builders # <<>> /\ Sound(o.built)

\* What an outline says of the builders and of the one on top.
LEMMA OutlineTypes ==
  ASSUME NEW o, Outline(o)
  PROVE  /\ Builds(o.built)
         /\ o.builders \in Seq(Builder(1 .. Len(o.built)))
         /\ Len(o.builders) \in Nat \ {0} /\ DOMAIN o.builders = 1 .. Len(o.builders)
         /\ Last(o.builders) = o.builders[Len(o.builders)]
         /\ Last(o.builders) \in Builder(1 .. Len(o.built))
         /\ o.sourceIndexCounter \in Nat /\ o.text \in Text
         /\ Len(o.built) \in Nat
<1>1. /\ o.built \in Seq(ArticleElement(1 .. Len(o.built)))
      /\ o.builders \in Seq(Builder(1 .. Len(o.built)))
      /\ o.sourceIndexCounter \in Nat /\ o.text \in Text
  BY DEF Outline, IsOutput, Output
<1>2. o.builders # <<>> /\ Sound(o.built)
  BY DEF Outline
<1>3. Len(o.builders) \in Nat \ {0} /\ DOMAIN o.builders = 1 .. Len(o.builders)
  BY <1>1, <1>2
<1>4. Last(o.builders) = o.builders[Len(o.builders)] /\ Last(o.builders) \in Builder(1 .. Len(o.built))
  BY <1>1, <1>2, LastFront
<1> QED
  BY <1>1, <1>2, <1>3, <1>4 DEF Builds

\* What is read of the lowest builders exists.
LEMMA UpToTypes ==
  ASSUME NEW o, Outline(o), NEW k \in 0 .. Len(o.builders)
  PROVE  GatheredUpTo(o, k) \in Seq(1 .. Len(o.built)) /\ IndexesUpTo(o, k) \in Seq(Nat)
<1> DEFINE f == [i \in DOMAIN o.builders |-> PartOf(o.built, o.builders[i])]
           g == [i \in DOMAIN o.builders |-> BuilderIndexes(o.built, o.builders[i])]
<1>1. Builds(o.built) /\ DOMAIN o.builders = 1 .. Len(o.builders) /\ Len(o.builders) \in Nat
  BY OutlineTypes
<1>2. \A i \in 1 .. Len(o.builders) : o.builders[i] \in Builder(1 .. Len(o.built))
  BY OutlineTypes
<1>3. k \in Nat /\ \A i \in 1 .. k : i \in 1 .. Len(o.builders)
  BY <1>1
<1>4. \A i \in 1 .. k : f[i] \in Seq(1 .. Len(o.built)) /\ g[i] \in Seq(Nat)
  BY <1>1, <1>2, <1>3, PartTypes
<1> HIDE DEF f, g
<1>5. Joined(f, k) \in Seq(1 .. Len(o.built)) /\ Joined(g, k) \in Seq(Nat)
  BY <1>3, <1>4, JoinedType
<1> QED
  BY <1>5 DEF GatheredUpTo, IndexesUpTo, f, g

\* One builder more is read after those below it.
LEMMA UpToNext ==
  ASSUME NEW o, Outline(o), NEW k \in 0 .. Len(o.builders) - 1
  PROVE  /\ GatheredUpTo(o, k + 1) = GatheredUpTo(o, k) \o PartOf(o.built, o.builders[k + 1])
         /\ IndexesUpTo(o, k + 1) = IndexesUpTo(o, k) \o BuilderIndexes(o.built, o.builders[k + 1])
<1> DEFINE f == [i \in DOMAIN o.builders |-> PartOf(o.built, o.builders[i])]
           g == [i \in DOMAIN o.builders |-> BuilderIndexes(o.built, o.builders[i])]
<1>1. k \in Nat /\ k + 1 \in DOMAIN o.builders
  BY OutlineTypes
<1>2. f[k + 1] = PartOf(o.built, o.builders[k + 1]) /\ g[k + 1] = BuilderIndexes(o.built, o.builders[k + 1])
  BY <1>1
<1> HIDE DEF f, g
<1>3. Joined(f, k + 1) = Joined(f, k) \o f[k + 1] /\ Joined(g, k + 1) = Joined(g, k) \o g[k + 1]
  BY <1>1, JoinedMore
<1> QED
  BY <1>2, <1>3 DEF GatheredUpTo, IndexesUpTo, f, g

\* What is in the builders: below the top, and in it.
LEMMA TopIsLast ==
  ASSUME NEW o, Outline(o)
  PROVE  /\ GatheredIn(o) = GatheredUpTo(o, Len(o.builders) - 1) \o PartOf(o.built, Last(o.builders))
         /\ IndexesIn(o) = IndexesUpTo(o, Len(o.builders) - 1) \o BuilderIndexes(o.built, Last(o.builders))
<1> DEFINE k == Len(o.builders) - 1
<1>1. k \in 0 .. Len(o.builders) - 1 /\ k + 1 = Len(o.builders) /\ Last(o.builders) = o.builders[k + 1]
  BY OutlineTypes
<1> HIDE DEF k
<1>2. /\ GatheredUpTo(o, k + 1) = GatheredUpTo(o, k) \o PartOf(o.built, o.builders[k + 1])
      /\ IndexesUpTo(o, k + 1) = IndexesUpTo(o, k) \o BuilderIndexes(o.built, o.builders[k + 1])
  BY <1>1, UpToNext
<1> QED
  BY <1>1, <1>2, UpToAll DEF k

\* All that is gathered exists.
LEMMA InTypes ==
  ASSUME NEW o, Outline(o)
  PROVE  GatheredIn(o) \in Seq(1 .. Len(o.built)) /\ IndexesIn(o) \in Seq(Nat)
<1>1. Len(o.builders) \in 0 .. Len(o.builders)
  BY OutlineTypes
<1> QED
  BY <1>1, UpToTypes, UpToAll

\* The element objects of p are those of o, or one more.
Extends(o, p) ==
  \/ p.built = o.built
  \/ \E x \in ArticleElement(1 .. Len(o.built)) : p.built = Append(o.built, x)

\* Builders that stay as they are keep their content.
LEMMA BelowKept ==
  ASSUME NEW o, Outline(o), NEW p, Outline(p), Extends(o, p),
         NEW k \in Nat, k <= Len(o.builders), k <= Len(p.builders),
         \A i \in 1 .. k : p.builders[i] = o.builders[i]
  PROVE  GatheredUpTo(p, k) = GatheredUpTo(o, k) /\ IndexesUpTo(p, k) = IndexesUpTo(o, k)
<1> DEFINE f == [i \in DOMAIN o.builders |-> PartOf(o.built, o.builders[i])]
           g == [i \in DOMAIN o.builders |-> BuilderIndexes(o.built, o.builders[i])]
           f2 == [i \in DOMAIN p.builders |-> PartOf(p.built, p.builders[i])]
           g2 == [i \in DOMAIN p.builders |-> BuilderIndexes(p.built, p.builders[i])]
<1>1. \A i \in 1 .. k : i \in DOMAIN o.builders /\ i \in DOMAIN p.builders
  BY OutlineTypes
<1>2. Builds(o.built) /\ \A i \in DOMAIN o.builders : o.builders[i] \in Builder(1 .. Len(o.built))
  BY OutlineTypes
<1>3. ASSUME NEW b \in Builder(1 .. Len(o.built))
      PROVE  PartOf(p.built, b) = PartOf(o.built, b) /\ BuilderIndexes(p.built, b) = BuilderIndexes(o.built, b)
  BY <1>2, PartStays DEF Extends
<1>4. \A i \in 1 .. k : f2[i] = f[i] /\ g2[i] = g[i]
  BY <1>1, <1>2, <1>3
<1> HIDE DEF f, g, f2, g2
<1>5. Joined(f2, k) = Joined(f, k)
  BY <1>4, JoinedSame
<1>6. Joined(g2, k) = Joined(g, k)
  BY <1>4, JoinedSame
<1> QED
  BY <1>5, <1>6 DEF GatheredUpTo, IndexesUpTo, f, g, f2, g2

-----------------------------------------------------------------------------
(* What each operation does to the elements gathered and to their indexes. *)

\* The output with another text or counter.
LEMMA OutlineSame ==
  ASSUME NEW o, Outline(o), NEW p, IsOutput(p), p.builders = o.builders, p.built = o.built
  PROVE  Outline(p) /\ GatheredIn(p) = GatheredIn(o) /\ IndexesIn(p) = IndexesIn(o)
BY DEF Outline, GatheredIn, IndexesIn

\* The builder on top, replaced by one with more elements of those there are.
LEMMA TopMore ==
  ASSUME NEW o, Outline(o), NEW p, Outline(p), Extends(o, p), Len(p.builders) = Len(o.builders),
         \A i \in 1 .. Len(o.builders) - 1 : p.builders[i] = o.builders[i],
         SameHeader(Last(o.builders), Last(p.builders)),
         NEW refs \in Seq(1 .. Len(p.built)),
         BuilderContent(Last(p.builders)) = BuilderContent(Last(o.builders)) \o refs
  PROVE  /\ GatheredIn(p) = GatheredIn(o) \o PreorderOf(p.built, refs)
         /\ IndexesIn(p) = IndexesIn(o) \o IndexesOf(p.built, PreorderOf(p.built, refs))
<1> DEFINE k == Len(o.builders) - 1
           b == Last(o.builders)
           b2 == Last(p.builders)
<1>1. k \in Nat /\ k <= Len(o.builders) /\ k <= Len(p.builders) /\ k \in 0 .. Len(o.builders)
  BY OutlineTypes
<1>2. GatheredUpTo(p, k) = GatheredUpTo(o, k) /\ IndexesUpTo(p, k) = IndexesUpTo(o, k)
  BY <1>1, BelowKept
<1>3. Builds(o.built) /\ Builds(p.built) /\ b \in Builder(1 .. Len(o.built))
  BY OutlineTypes
<1>4. PartOf(p.built, b) = PartOf(o.built, b) /\ BuilderIndexes(p.built, b) = BuilderIndexes(o.built, b)
  BY <1>3, PartStays DEF Extends
<1>5. b \in Builder(1 .. Len(p.built))
  <2>1. CASE p.built = o.built
    BY <1>3, <2>1
  <2>2. CASE p.built # o.built
    <3>1. Len(p.built) = Len(o.built) + 1 /\ Len(o.built) \in Nat
      BY <1>3, <2>2, BuildsMore, OutlineTypes DEF Extends
    <3>2. 1 .. Len(o.built) \subseteq 1 .. Len(p.built)
      BY <3>1
    <3> QED
      BY <1>3, <3>2, BuilderGrows
  <2> QED
    BY <2>1, <2>2
<1>6. /\ GatheredIn(o) = GatheredUpTo(o, k) \o PartOf(o.built, b)
      /\ IndexesIn(o) = IndexesUpTo(o, k) \o BuilderIndexes(o.built, b)
  BY TopIsLast
<1>7. /\ GatheredIn(p) = GatheredUpTo(p, k) \o PartOf(p.built, b2)
      /\ IndexesIn(p) = IndexesUpTo(p, k) \o BuilderIndexes(p.built, b2)
  BY TopIsLast
<1> HIDE DEF k, b, b2
<1> DEFINE g1 == GatheredUpTo(o, k)
           g2 == PartOf(o.built, b)
           g3 == PreorderOf(p.built, refs)
           i1 == IndexesUpTo(o, k)
           i2 == BuilderIndexes(o.built, b)
           i3 == IndexesOf(p.built, g3)
           X == ArticleElement(1 .. Len(p.built))
<1>8. PartOf(p.built, b2) = g2 \o g3 /\ BuilderIndexes(p.built, b2) = i2 \o i3
  <2>1. SameHeader(b, b2) /\ BuilderContent(b2) = BuilderContent(b) \o refs
    BY DEF b, b2
  <2> QED
    BY <1>3, <1>4, <1>5, <2>1, PartMore
<1>9. g3 \in Seq(1 .. Len(p.built))
  <2>1. p.built \in Seq(X) /\ Sound(p.built)
    BY <1>3 DEF Builds
  <2> HIDE DEF X
  <2> QED
    BY <2>1, PreorderOfType
<1>10. g2 \in Seq(1 .. Len(p.built)) /\ i2 \in Seq(Nat)
  BY <1>3, <1>4, <1>5, PartTypes
<1>11. g1 \in Seq(1 .. Len(p.built)) /\ i1 \in Seq(Nat)
  <2>1. k \in 0 .. Len(p.builders)
    BY <1>1
  <2> QED
    BY <1>2, <2>1, UpToTypes, SMTT(20)
<1>12. i3 \in Seq(Nat)
  BY <1>3, <1>9, IndexesType
<1> HIDE DEF g1, g2, g3, i1, i2, i3, X
<1>13. (g1 \o g2) \o g3 = g1 \o (g2 \o g3)
  <2> DEFINE S == 1 .. Len(p.built)
  <2>1. g1 \in Seq(S) /\ g2 \in Seq(S) /\ g3 \in Seq(S)
    BY <1>9, <1>10, <1>11
  <2> HIDE DEF S
  <2> QED
    BY <2>1, ConcatAssociative
<1>14. (i1 \o i2) \o i3 = i1 \o (i2 \o i3)
  <2> DEFINE S == Nat
  <2>1. i1 \in Seq(S) /\ i2 \in Seq(S) /\ i3 \in Seq(S)
    BY <1>10, <1>11, <1>12
  <2> HIDE DEF S
  <2> QED
    BY <2>1, ConcatAssociative
<1>15. GatheredIn(p) = (g1 \o g2) \o g3 /\ IndexesIn(p) = (i1 \o i2) \o i3
  BY <1>2, <1>7, <1>8, <1>13, <1>14 DEF g1, i1
<1> QED
  BY <1>6, <1>15 DEF g1, g2, g3, i1, i2, i3

\* The builder on top, replaced by one with the same content.
LEMMA TopSame ==
  ASSUME NEW o, Outline(o), NEW p, Outline(p), Extends(o, p), Len(p.builders) = Len(o.builders),
         \A i \in 1 .. Len(o.builders) - 1 : p.builders[i] = o.builders[i],
         SameHeader(Last(o.builders), Last(p.builders)),
         BuilderContent(Last(p.builders)) = BuilderContent(Last(o.builders))
  PROVE  GatheredIn(p) = GatheredIn(o) /\ IndexesIn(p) = IndexesIn(o)
<1> DEFINE c == BuilderContent(Last(o.builders))
<1>1. c \in Seq(1 .. Len(o.built))
  BY OutlineTypes, ContentIs
<1>2. c \o <<>> = c
  BY <1>1, ConcatEmptySeq
<1>3. PICK refs : refs = <<>>
  OBVIOUS
<1>4. refs \in Seq(1 .. Len(p.built)) /\ BuilderContent(Last(p.builders)) = c \o refs
  BY <1>2, <1>3
<1> HIDE DEF c
<1>5. /\ GatheredIn(p) = GatheredIn(o) \o PreorderOf(p.built, refs)
      /\ IndexesIn(p) = IndexesIn(o) \o IndexesOf(p.built, PreorderOf(p.built, refs))
  BY <1>4, TopMore DEF c
<1>6. PreorderOf(p.built, refs) = <<>> /\ IndexesOf(p.built, <<>>) = <<>>
  BY <1>3, PreorderOfNone DEF IndexesOf
<1>7. GatheredIn(o) \o <<>> = GatheredIn(o) /\ IndexesIn(o) \o <<>> = IndexesIn(o)
  BY InTypes, ConcatEmptySeq
<1> QED
  BY <1>5, <1>6, <1>7

\* A new element leaves an outline, and all of it but the builder on top.
LEMMA NewElementShape ==
  ASSUME NEW o, Outline(o), NEW x \in ArticleElement(1 .. Len(o.built))
  PROVE  LET p == AddNewElement(o, x)
         IN  /\ Outline(p)
             /\ p.built = Append(o.built, x) /\ p.text = o.text
             /\ p.sourceIndexCounter = o.sourceIndexCounter
             /\ Len(p.builders) = Len(o.builders)
             /\ \A i \in 1 .. Len(o.builders) - 1 : p.builders[i] = o.builders[i]
             /\ Last(p.builders) = Added(Last(o.builders), x.kind, Len(o.built) + 1)
<1> DEFINE p == AddNewElement(o, x)
           n == Len(o.builders)
           r == Len(o.built) + 1
           b2 == Added(Last(o.builders), x.kind, r)
<1>1. KeepsStack(o, p)
  BY NewElementKeeps DEF Outline
<1>2. /\ o \in [builders: Seq(Builder(1 .. Len(o.built))), built: Seq(ArticleElement(1 .. Len(o.built))),
                sourceIndexCounter: Nat, text: Text]
      /\ o.builders # <<>>
  BY DEF Outline, IsOutput, Output
<1>3. Builds(o.built) /\ n \in Nat \ {0} /\ DOMAIN o.builders = 1 .. n /\ Last(o.builders) = o.builders[n]
  BY OutlineTypes
<1>4. Append(o.built, x)[r] = x /\ Builds(Append(o.built, x))
  BY <1>3, BuildsMore
<1>5. /\ p.built = Append(o.built, x) /\ p.text = o.text /\ p.sourceIndexCounter = o.sourceIndexCounter
      /\ p.builders = [o.builders EXCEPT ![n] = Added(@, Append(o.built, x)[r].kind, r)]
  BY <1>2 DEF AddNewElement, AddElement
<1>6. p.builders = [o.builders EXCEPT ![n] = b2]
  BY <1>3, <1>4, <1>5
<1> HIDE DEF p, b2
<1>7. Len(p.builders) = n /\ p.builders[n] = b2 /\ \A i \in 1 .. n - 1 : p.builders[i] = o.builders[i]
  BY <1>2, <1>3, <1>6
<1>8. IsOutput(p) /\ p.builders # <<>>
  <2>1. IsOutput(p) /\ Len(p.builders) = n
    BY <1>1 DEF KeepsStack
  <2> QED
    BY <1>3, <2>1
<1>9. Outline(p)
  BY <1>4, <1>5, <1>8 DEF Outline, Builds
<1>10. Last(p.builders) = b2
  BY <1>7, <1>9, OutlineTypes
<1> QED
  BY <1>5, <1>7, <1>9, <1>10 DEF p, b2

\* A new element object comes last, with what is in it, or it is dropped.
LEMMA NewElementEffect ==
  ASSUME NEW o, Outline(o), NEW x \in ArticleElement(1 .. Len(o.built))
  PROVE  LET p == AddNewElement(o, x)
             content == PreorderOf(o.built, Children(x))
         IN  /\ Takes(Last(o.builders), x.kind) =>
                  /\ GatheredIn(p) = GatheredIn(o) \o (<<Len(o.built) + 1>> \o content)
                  /\ IndexesIn(p) = IndexesIn(o) \o (<<x.sourceIndex>> \o IndexesOf(o.built, content))
             /\ ~Takes(Last(o.builders), x.kind) =>
                  GatheredIn(p) = GatheredIn(o) /\ IndexesIn(p) = IndexesIn(o)
<1> DEFINE p == AddNewElement(o, x)
           content == PreorderOf(o.built, Children(x))
           r == Len(o.built) + 1
           b == Last(o.builders)
<1>1. /\ Outline(p)
      /\ p.built = Append(o.built, x)
      /\ Len(p.builders) = Len(o.builders)
      /\ \A i \in 1 .. Len(o.builders) - 1 : p.builders[i] = o.builders[i]
      /\ Last(p.builders) = Added(b, x.kind, r)
  BY NewElementShape
<1>2. Builds(o.built) /\ b \in Builder(1 .. Len(o.built)) /\ Len(o.built) \in Nat
  BY OutlineTypes
<1>3. Builds(p.built) /\ Len(p.built) = r /\ p.built[r] = x /\ r \in 1 .. Len(p.built)
  BY <1>1, <1>2, BuildsMore
<1>4. b \in Builder(1 .. Len(p.built))
  <2>1. 1 .. Len(o.built) \subseteq 1 .. Len(p.built)
    BY <1>2, <1>3
  <2> QED
    BY <1>2, <2>1, BuilderGrows
<1>5. Extends(o, p)
  BY <1>1 DEF Extends
<1> HIDE DEF p, r, b
<1>6. /\ Takes(b, x.kind) => BuilderContent(Added(b, x.kind, r)) = BuilderContent(b) \o <<r>>
      /\ ~Takes(b, x.kind) => Added(b, x.kind, r) = b
      /\ SameHeader(b, Added(b, x.kind, r))
  BY <1>3, <1>4, AddedContent
<1>7. ASSUME Takes(b, x.kind)
      PROVE  /\ GatheredIn(p) = GatheredIn(o) \o (<<r>> \o content)
             /\ IndexesIn(p) = IndexesIn(o) \o (<<x.sourceIndex>> \o IndexesOf(o.built, content))
  <2>1. <<r>> \in Seq(1 .. Len(p.built))
    BY <1>3
  <2>2. /\ SameHeader(Last(o.builders), Last(p.builders))
        /\ BuilderContent(Last(p.builders)) = BuilderContent(Last(o.builders)) \o <<r>>
    BY <1>1, <1>6, <1>7 DEF b
  <2>3. /\ GatheredIn(p) = GatheredIn(o) \o PreorderOf(p.built, <<r>>)
        /\ IndexesIn(p) = IndexesIn(o) \o IndexesOf(p.built, PreorderOf(p.built, <<r>>))
    BY <1>1, <1>5, <2>1, <2>2, TopMore
  <2> DEFINE X == ArticleElement(1 .. Len(o.built) + 1)
  <2>4. p.built \in Seq(X) /\ o.built \in Seq(X) /\ x \in X /\ Sound(o.built) /\ Sound(p.built)
    BY <1>2, <1>3, BuildsMore DEF Builds, r
  <2>5. Children(x) \in Seq(1 .. Len(o.built))
    BY ChildrenType
  <2> HIDE DEF X
  <2>6. PreorderOf(p.built, <<r>>) = <<r>> \o PreorderOf(p.built, Children(x))
    BY <1>3, <2>4, PreorderOfOne
  <2>7. PreorderOf(p.built, Children(x)) = content
    BY <1>1, <2>4, <2>5, PreorderOfStays
  <2>8. content \in Seq(1 .. Len(o.built))
    BY <2>4, <2>5, PreorderOfType
  <2> HIDE DEF content
  <2>9. content \in Seq(1 .. Len(p.built))
    <3>1. 1 .. Len(o.built) \subseteq 1 .. Len(p.built)
      BY <1>2, <1>3 DEF r
    <3> QED
      BY <2>8, <3>1, SeqGrows
  <2>10. IndexesOf(p.built, <<r>> \o content) = IndexesOf(p.built, <<r>>) \o IndexesOf(p.built, content)
    BY <1>3, <2>1, <2>9, IndexesTwo
  <2>11. IndexesOf(p.built, <<r>>) = <<x.sourceIndex>>
    BY <1>3 DEF IndexesOf
  <2>12. IndexesOf(p.built, content) = IndexesOf(o.built, content)
    BY <1>1, <1>2, <2>8, IndexesStay
  <2> QED
    BY <2>3, <2>6, <2>7, <2>10, <2>11, <2>12
<1>8. ASSUME ~Takes(b, x.kind)
      PROVE  GatheredIn(p) = GatheredIn(o) /\ IndexesIn(p) = IndexesIn(o)
  <2>1. Last(p.builders) = Last(o.builders) /\ SameHeader(Last(o.builders), Last(p.builders))
    BY <1>1, <1>6, <1>8 DEF b
  <2> QED
    BY <1>1, <1>5, <2>1, TopSame
<1> QED
  BY <1>7, <1>8 DEF p, r, b

\* A new builder comes last, with nothing in it.
LEMMA PushEffect ==
  ASSUME NEW o, Outline(o), NEW b \in Builder(1 .. Len(o.built)), BuilderContent(b) = <<>>,
         NEW p, IsOutput(p), p.built = o.built, p.builders = Append(o.builders, b)
  PROVE  Outline(p) /\ GatheredIn(p) = GatheredIn(o) /\ IndexesIn(p) = IndexesIn(o) \o Header(b)
<1> DEFINE n == Len(o.builders)
<1>1. n \in Nat /\ Builds(o.built) /\ o.builders \in Seq(Builder(1 .. Len(o.built)))
  BY OutlineTypes
<1>2. Len(p.builders) = n + 1 /\ p.builders[n + 1] = b /\ \A i \in 1 .. n : p.builders[i] = o.builders[i]
  BY <1>1, Appended
<1> HIDE DEF n
<1>3. Outline(p)
  <2>1. Len(<<>>) = 0 /\ n + 1 # 0
    BY <1>1
  <2>2. p.builders # <<>>
    BY <1>2, <2>1
  <2> QED
    BY <2>2 DEF Outline
<1>4. Last(p.builders) = b /\ Len(p.builders) - 1 = n /\ Extends(o, p)
  <2>1. Last(p.builders) = p.builders[Len(p.builders)]
    BY <1>3, OutlineTypes
  <2> QED
    BY <1>1, <1>2, <2>1 DEF Extends
<1>5. GatheredUpTo(p, n) = GatheredUpTo(o, n) /\ IndexesUpTo(p, n) = IndexesUpTo(o, n)
  <2>1. n <= Len(o.builders) /\ n <= Len(p.builders)
    BY <1>1, <1>2 DEF n
  <2> QED
    BY <1>1, <1>2, <1>3, <1>4, <2>1, BelowKept
<1>6. PartOf(p.built, b) = <<>> /\ BuilderIndexes(p.built, b) = Header(b)
  BY <1>1, PartNone
<1>7. GatheredIn(p) = GatheredIn(o) \o <<>> /\ IndexesIn(p) = IndexesIn(o) \o Header(b)
  BY <1>3, <1>4, <1>5, <1>6, TopIsLast, UpToAll DEF n
<1>8. GatheredIn(o) \o <<>> = GatheredIn(o)
  BY InTypes, ConcatEmptySeq
<1> QED
  BY <1>3, <1>7, <1>8

\* Without the builder on top, what was in it is missing.
LEMMA BelowEffect ==
  ASSUME NEW o, Outline(o), Len(o.builders) > 1,
         NEW p, IsOutput(p), p.built = o.built, p.builders = Front(o.builders)
  PROVE  /\ Outline(p)
         /\ GatheredIn(o) = GatheredIn(p) \o PartOf(o.built, Last(o.builders))
         /\ IndexesIn(o) = IndexesIn(p) \o BuilderIndexes(o.built, Last(o.builders))
<1> DEFINE k == Len(o.builders) - 1
<1>1. k \in Nat \ {0} /\ o.builders \in Seq(Builder(1 .. Len(o.built))) /\ o.builders # <<>>
  BY OutlineTypes
<1>2. Len(p.builders) = k /\ \A i \in 1 .. k : p.builders[i] = o.builders[i]
  BY <1>1, LastFront
<1>3. Outline(p) /\ Extends(o, p) /\ k <= Len(o.builders)
  BY <1>1, <1>2 DEF Outline, Extends
<1>4. GatheredUpTo(p, k) = GatheredUpTo(o, k) /\ IndexesUpTo(p, k) = IndexesUpTo(o, k)
  BY <1>1, <1>2, <1>3, BelowKept
<1> QED
  BY <1>2, <1>3, <1>4, TopIsLast, UpToAll

-----------------------------------------------------------------------------
(* The numbers of the words. *)

(* The numbers of the words in a sequence of elements. *)

\* The numbers of the words in the elements of a list.
NumbersAt(built, order) == Joined([k \in DOMAIN order |-> NumbersIn(built[order[k]])], Len(order))

\* The numbers of words are numbers.
LEMMA NumbersOfType ==
  ASSUME NEW words \in Seq(Word)
  PROVE  NumbersOf(words) \in Seq(Nat)
<1> DEFINE f == [k \in DOMAIN words |-> IF words[k].n > 0 THEN <<words[k].n>> ELSE <<>>]
<1>1. Len(words) \in Nat /\ DOMAIN words = 1 .. Len(words) /\ \A k \in 1 .. Len(words) : words[k] \in Word
  OBVIOUS
<1>2. ASSUME NEW k \in 1 .. Len(words)
      PROVE  f[k] \in Seq(Nat)
  <2>1. words[k].n \in Nat
    BY <1>1 DEF Word
  <2>2. <<words[k].n>> \in Seq(Nat) /\ <<>> \in Seq(Nat)
    BY <2>1
  <2> QED
    BY <1>1, <2>2
<1> HIDE DEF f
<1> QED
  BY <1>1, <1>2, JoinedType DEF NumbersOf, f

\* No word has no number.
LEMMA NoNumbers == NumbersOf(<<>>) = <<>>
<1>1. Len(<<>>) = 0
  OBVIOUS
<1> QED
  BY <1>1, JoinedNone DEF NumbersOf

\* One word more adds its number, a quotation mark none.
LEMMA NumbersMore ==
  ASSUME NEW words \in Seq(Word), NEW w \in Word
  PROVE  NumbersOf(Append(words, w)) = NumbersOf(words) \o (IF w.n > 0 THEN <<w.n>> ELSE <<>>)
<1> DEFINE more == Append(words, w)
           n == Len(words)
           f == [k \in DOMAIN words |-> IF words[k].n > 0 THEN <<words[k].n>> ELSE <<>>]
           g == [k \in DOMAIN more |-> IF more[k].n > 0 THEN <<more[k].n>> ELSE <<>>]
<1>1. /\ n \in Nat /\ Len(more) = n + 1 /\ DOMAIN more = 1 .. n + 1 /\ DOMAIN words = 1 .. n
      /\ more[n + 1] = w /\ \A k \in 1 .. n : words[k] = more[k]
  OBVIOUS
<1> HIDE DEF more
<1>2. \A k \in 1 .. n : f[k] = g[k]
  BY <1>1
<1>3. g[n + 1] = IF w.n > 0 THEN <<w.n>> ELSE <<>>
  BY <1>1
<1>4. NumbersOf(words) = Joined(f, n) /\ NumbersOf(more) = Joined(g, n + 1)
  BY <1>1 DEF NumbersOf
<1> HIDE DEF f, g, n
<1>5. Joined(g, n + 1) = Joined(g, n) \o g[n + 1]
  BY <1>1, JoinedMore
<1>6. Joined(f, n) = Joined(g, n)
  BY <1>1, <1>2, JoinedSame
<1> QED
  BY <1>3, <1>4, <1>5, <1>6 DEF more

\* The numbers of an element are numbers.
LEMMA NumbersInType ==
  ASSUME NEW R, NEW x \in ArticleElement(R)
  PROVE  NumbersIn(x) \in Seq(Nat)
<1>1. CASE x.kind \in {"Text", "Quote"}
  <2>1. x.words \in Seq(Word)
    BY <1>1 DEF ArticleElement
  <2> QED
    BY <1>1, <2>1, NumbersOfType DEF NumbersIn
<1>2. CASE x.kind \notin {"Text", "Quote"}
  BY <1>2 DEF NumbersIn
<1> QED
  BY <1>1, <1>2

\* The numbers of a list of elements are numbers.
LEMMA NumbersAtType ==
  ASSUME NEW built, Builds(built), NEW order \in Seq(1 .. Len(built))
  PROVE  NumbersAt(built, order) \in Seq(Nat)
<1> DEFINE f == [k \in DOMAIN order |-> NumbersIn(built[order[k]])]
<1>1. Len(order) \in Nat /\ DOMAIN order = 1 .. Len(order) /\ \A k \in 1 .. Len(order) : order[k] \in 1 .. Len(built)
  OBVIOUS
<1>2. \A r \in 1 .. Len(built) : built[r] \in ArticleElement(1 .. Len(built))
  BY DEF Builds
<1>3. \A k \in 1 .. Len(order) : f[k] \in Seq(Nat)
  BY <1>1, <1>2, NumbersInType
<1> HIDE DEF f
<1> QED
  BY <1>1, <1>3, JoinedType DEF NumbersAt, f

\* The numbers of two lists of elements, one after the other.
LEMMA NumbersAtTwo ==
  ASSUME NEW built, Builds(built), NEW order \in Seq(1 .. Len(built)), NEW order2 \in Seq(1 .. Len(built))
  PROVE  NumbersAt(built, order \o order2) = NumbersAt(built, order) \o NumbersAt(built, order2)
<1> DEFINE both == order \o order2
           f == [k \in DOMAIN both |-> NumbersIn(built[both[k]])]
           f1 == [k \in DOMAIN order |-> NumbersIn(built[order[k]])]
           f2 == [k \in DOMAIN order2 |-> NumbersIn(built[order2[k]])]
           n == Len(order)
           m == Len(order2)
<1>1. n \in Nat /\ m \in Nat /\ Len(both) = n + m /\ DOMAIN both = 1 .. n + m
  OBVIOUS
<1>2. \A k \in 1 .. n : k \in 1 .. n + m /\ k \in DOMAIN order /\ both[k] = order[k] /\ order[k] \in 1 .. Len(built)
  OBVIOUS
<1>3. \A k \in 1 .. m : n + k \in 1 .. n + m /\ k \in DOMAIN order2 /\ both[n + k] = order2[k]
                        /\ order2[k] \in 1 .. Len(built)
  OBVIOUS
<1> HIDE DEF both, n, m
<1>4. \A r \in 1 .. Len(built) : NumbersIn(built[r]) \in Seq(Nat)
  <2>1. \A r \in 1 .. Len(built) : built[r] \in ArticleElement(1 .. Len(built))
    BY DEF Builds
  <2> QED
    BY <2>1, NumbersInType
<1>5. \A k \in 1 .. n : f1[k] \in Seq(Nat) /\ f[k] = f1[k]
  BY <1>1, <1>2, <1>4
<1>6. \A k \in 1 .. m : f2[k] \in Seq(Nat) /\ f[n + k] = f2[k]
  BY <1>1, <1>3, <1>4
<1>7. /\ NumbersAt(built, both) = Joined(f, n + m)
      /\ NumbersAt(built, order) = Joined(f1, n)
      /\ NumbersAt(built, order2) = Joined(f2, m)
  BY <1>1 DEF NumbersAt, n, m
<1> DEFINE S == Nat
<1> HIDE DEF f, f1, f2
<1>8. Follows(f, f1, n, f2, m, S)
  BY <1>5, <1>6 DEF Follows
<1> HIDE DEF S
<1>9. JoinsTwo(f, n + m, f1, n, f2, m)
  BY <1>1, <1>8, JoinedTwo
<1> QED
  BY <1>7, <1>9 DEF both, JoinsTwo

\* The numbers of one element.
LEMMA NumbersAtOne ==
  ASSUME NEW built, Builds(built), NEW r \in 1 .. Len(built)
  PROVE  NumbersAt(built, <<r>>) = NumbersIn(built[r])
<1> DEFINE f == [k \in DOMAIN <<r>> |-> NumbersIn(built[<<r>>[k]])]
<1>1. NumbersAt(built, <<r>>) = Joined(f, 0 + 1)
  BY DEF NumbersAt
<1>2. f[0 + 1] = NumbersIn(built[r])
  OBVIOUS
<1> HIDE DEF f
<1>3. Joined(f, 0 + 1) = <<>> \o f[0 + 1]
  BY JoinedNone, JoinedMore
<1>4. NumbersIn(built[r]) \in Seq(Nat)
  <2>1. built[r] \in ArticleElement(1 .. Len(built))
    BY DEF Builds
  <2> QED
    BY <2>1, NumbersInType
<1>5. <<>> \o NumbersIn(built[r]) = NumbersIn(built[r])
  BY <1>4, ConcatEmptySeq
<1> QED
  BY <1>1, <1>2, <1>3, <1>5

\* The numbers of elements do not change when another is built.
LEMMA NumbersAtStay ==
  ASSUME NEW built, Builds(built), NEW x \in ArticleElement(1 .. Len(built)), NEW order \in Seq(1 .. Len(built))
  PROVE  NumbersAt(Append(built, x), order) = NumbersAt(built, order)
<1> DEFINE f == [k \in DOMAIN order |-> NumbersIn(built[order[k]])]
           g == [k \in DOMAIN order |-> NumbersIn(Append(built, x)[order[k]])]
<1>1. Len(order) \in Nat /\ DOMAIN order = 1 .. Len(order) /\ \A k \in 1 .. Len(order) : order[k] \in 1 .. Len(built)
  OBVIOUS
<1>2. \A i \in 1 .. Len(built) : Append(built, x)[i] = built[i]
  BY BuildsMore
<1>3. \A k \in 1 .. Len(order) : f[k] = g[k]
  BY <1>1, <1>2
<1>4. NumbersAt(built, order) = Joined(f, Len(order)) /\ NumbersAt(Append(built, x), order) = Joined(g, Len(order))
  BY DEF NumbersAt
<1> HIDE DEF f, g
<1> QED
  BY <1>1, <1>3, <1>4, JoinedSame

-----------------------------------------------------------------------------
(* A sequence of source indexes, and a sequence of all elements. *)

\* The indexes increase, and are less than the next one.
Ordered(indexes, next) ==
  /\ \A i, j \in DOMAIN indexes : i < j => indexes[i] < indexes[j]
  /\ \A i \in DOMAIN indexes : indexes[i] < next

\* An index just drawn comes after all others.
LEMMA OrderedMore ==
  ASSUME NEW s \in Seq(Nat), NEW next \in Nat, Ordered(s, next)
  PROVE  Ordered(s \o <<next>>, next + 1)
<1> DEFINE t == s \o <<next>>
           n == Len(s)
<1>1. n \in Nat /\ DOMAIN s = 1 .. n /\ DOMAIN t = 1 .. n + 1 /\ t[n + 1] = next
      /\ \A i \in 1 .. n : t[i] = s[i] /\ s[i] \in Nat
  OBVIOUS
<1> HIDE DEF t, n
<1>2. \A i \in 1 .. n : s[i] < next
  BY <1>1 DEF Ordered
<1>3. \A i, j \in 1 .. n : i < j => s[i] < s[j]
  BY <1>1 DEF Ordered
<1>4. \A i \in 1 .. n + 1 : i \in 1 .. n \/ i = n + 1
  BY <1>1
<1>5. \A i \in 1 .. n + 1 : t[i] < next + 1
  BY <1>1, <1>2, <1>4
<1>6. ASSUME NEW i \in 1 .. n + 1, NEW j \in 1 .. n + 1, i < j
      PROVE  t[i] < t[j]
  <2>1. i \in 1 .. n
    BY <1>1, <1>6
  <2> QED
    BY <1>1, <1>2, <1>3, <1>4, <1>6, <2>1
<1> QED
  BY <1>1, <1>5, <1>6 DEF Ordered, t

\* The beginning of increasing indexes increases.
LEMMA OrderedPart ==
  ASSUME NEW s \in Seq(Nat), NEW t \in Seq(Nat), NEW next \in Nat, Ordered(s \o t, next)
  PROVE  Ordered(s, next)
<1> DEFINE u == s \o t
<1>1. \A i \in DOMAIN s : i \in DOMAIN u /\ u[i] = s[i]
  OBVIOUS
<1> HIDE DEF u
<1> QED
  BY <1>1 DEF Ordered, u

\* Indexes stay in order when an index is drawn for later.
LEMMA OrderedLater ==
  ASSUME NEW s \in Seq(Nat), NEW next \in Nat, Ordered(s, next)
  PROVE  Ordered(s, next + 1)
<1>1. \A i \in DOMAIN s : s[i] \in Nat
  OBVIOUS
<1> QED
  BY <1>1 DEF Ordered

\* Each of n elements once.
EachOnce(order, n) == Len(order) = n /\ Range(order) = 1 .. n

\* Two sequences joined hold what either holds.
LEMMA RangeOfTwo ==
  ASSUME NEW S, NEW s \in Seq(S), NEW t \in Seq(S)
  PROVE  Range(s \o t) = Range(s) \union Range(t)
<1>1. ASSUME NEW x \in Range(s \o t)
      PROVE  x \in Range(s) \union Range(t)
  <2>1. PICK i \in DOMAIN (s \o t) : (s \o t)[i] = x
    BY DEF Range
  <2>2. i \in 1 .. Len(s) + Len(t) /\ Len(s) \in Nat /\ Len(t) \in Nat
    BY <2>1
  <2>3. CASE i <= Len(s)
    BY <2>1, <2>2, <2>3 DEF Range
  <2>4. CASE ~(i <= Len(s))
    <3>1. i - Len(s) \in DOMAIN t /\ (s \o t)[i] = t[i - Len(s)]
      BY <2>2, <2>4
    <3> QED
      BY <2>1, <3>1 DEF Range
  <2> QED
    BY <2>3, <2>4
<1>2. ASSUME NEW x \in Range(s)
      PROVE  x \in Range(s \o t)
  <2>1. PICK i \in DOMAIN s : s[i] = x
    BY DEF Range
  <2>2. i \in DOMAIN (s \o t) /\ (s \o t)[i] = s[i]
    BY <2>1
  <2> QED
    BY <2>1, <2>2 DEF Range
<1>3. ASSUME NEW x \in Range(t)
      PROVE  x \in Range(s \o t)
  <2>1. PICK i \in DOMAIN t : t[i] = x
    BY DEF Range
  <2>2. Len(s) + i \in DOMAIN (s \o t) /\ (s \o t)[Len(s) + i] = t[i]
    BY <2>1
  <2> QED
    BY <2>1, <2>2 DEF Range
<1> QED
  BY <1>1, <1>2, <1>3

\* One more element, put anywhere.
LEMMA EachOnceMore ==
  ASSUME NEW n \in Nat, NEW s \in Seq(1 .. n), NEW t \in Seq(1 .. n), EachOnce(s \o t, n)
  PROVE  EachOnce(s \o (<<n + 1>> \o t), n + 1)
<1> DEFINE S == 1 .. n + 1
           one == <<n + 1>>
<1>1. s \in Seq(S) /\ t \in Seq(S) /\ one \in Seq(S) /\ Len(one) = 1 /\ Range(one) = {n + 1}
  BY DEF Range
<1>2. Len(s \o t) = n /\ Range(s \o t) = 1 .. n
  BY DEF EachOnce
<1>3. Len(s) \in Nat /\ Len(t) \in Nat
  OBVIOUS
<1> HIDE DEF S, one
<1>4. Len(s) + Len(t) = n /\ Range(s) \union Range(t) = 1 .. n
  <2>1. Len(s \o t) = Len(s) + Len(t)
    BY <1>1, ConcatProperties
  <2>2. Range(s \o t) = Range(s) \union Range(t)
    BY <1>1, RangeOfTwo
  <2> QED
    BY <1>2, <2>1, <2>2
<1>5. one \o t \in Seq(S) /\ Len(one \o t) = 1 + Len(t) /\ Range(one \o t) = {n + 1} \union Range(t)
  <2>1. one \o t \in Seq(S) /\ Len(one \o t) = Len(one) + Len(t)
    BY <1>1, ConcatProperties
  <2>2. Range(one \o t) = Range(one) \union Range(t)
    BY <1>1, RangeOfTwo
  <2> QED
    BY <1>1, <2>1, <2>2
<1> DEFINE u == one \o t
<1>6. u \in Seq(S) /\ Len(u) = 1 + Len(t) /\ Range(u) = {n + 1} \union Range(t)
  BY <1>5
<1> HIDE DEF u
<1>7. Len(s \o u) = Len(s) + Len(u) /\ Range(s \o u) = Range(s) \union Range(u)
  <2>1. Len(s \o u) = Len(s) + Len(u)
    BY <1>1, <1>6, ConcatProperties
  <2>2. Range(s \o u) = Range(s) \union Range(u)
    BY <1>1, <1>6, RangeOfTwo
  <2> QED
    BY <2>1, <2>2
<1>8. Len(s \o u) = n + 1
  BY <1>3, <1>4, <1>6, <1>7
<1>9. (1 .. n) \union {n + 1} = 1 .. n + 1
  OBVIOUS
<1>10. Range(s \o u) = 1 .. n + 1
  BY <1>4, <1>6, <1>7, <1>9
<1> QED
  BY <1>8, <1>10 DEF EachOnce, u, one

-----------------------------------------------------------------------------
(* The effect of the steps on an output: what they keep of its order. *)

\* The numbers of the words in the builders, and with the text being built.
ReadIn(o) == NumbersAt(o.built, GatheredIn(o))

\* The numbers of the words gathered and of those of the text being built.
ContentIn(o) == ReadIn(o) \o NumbersOf(o.text.words)

\* The source indexes increase and all of them were drawn.
Fine(o) == Outline(o) /\ Ordered(IndexesIn(o), o.sourceIndexCounter)

\* Every element built is gathered once.
Whole(o) == EachOnce(GatheredIn(o), Len(o.built))

\* Nothing is dropped, doubled or reordered.
Reads(o, p) == (Whole(o) => Whole(p)) /\ ReadIn(p) = ReadIn(o) /\ p.text = o.text

\* What an outline reads as is numbers.
LEMMA ReadType ==
  ASSUME NEW o, Outline(o)
  PROVE  ReadIn(o) \in Seq(Nat) /\ NumbersOf(o.text.words) \in Seq(Nat) /\ ContentIn(o) \in Seq(Nat)
<1>1. Builds(o.built) /\ GatheredIn(o) \in Seq(1 .. Len(o.built)) /\ o.text.words \in Seq(Word)
  BY OutlineTypes, InTypes DEF Text
<1>2. ReadIn(o) \in Seq(Nat) /\ NumbersOf(o.text.words) \in Seq(Nat)
  BY <1>1, NumbersAtType, NumbersOfType DEF ReadIn
<1> QED
  BY <1>2, ConcatProperties DEF ContentIn

\* Another text.
LEMMA TextEffect ==
  ASSUME NEW o, Outline(o), NEW p, IsOutput(p), p.builders = o.builders, p.built = o.built
  PROVE  /\ Outline(p) /\ (Whole(o) => Whole(p)) /\ ReadIn(p) = ReadIn(o)
         /\ p.sourceIndexCounter = o.sourceIndexCounter => (Fine(o) => Fine(p))
         /\ p.sourceIndexCounter = o.sourceIndexCounter + 1 => (Fine(o) => Fine(p))
<1>1. Outline(p) /\ GatheredIn(p) = GatheredIn(o) /\ IndexesIn(p) = IndexesIn(o)
  BY OutlineSame
<1>2. IndexesIn(o) \in Seq(Nat) /\ o.sourceIndexCounter \in Nat
  BY InTypes, OutlineTypes
<1>3. Ordered(IndexesIn(o), o.sourceIndexCounter) => Ordered(IndexesIn(o), o.sourceIndexCounter + 1)
  BY <1>2, OrderedLater
<1> QED
  BY <1>1, <1>3 DEF Whole, ReadIn, Fine

\* A new element object without content, with its source index.
LEMMA EmitEffect ==
  ASSUME NEW o, Outline(o), NEW x \in ArticleElement(1 .. Len(o.built)), Children(x) = <<>>,
         x.sourceIndex = o.sourceIndexCounter
  PROVE  LET p == EmitElement(o, x)
         IN  /\ Outline(p) /\ p.text = o.text
             /\ Fine(o) => Fine(p)
             /\ Takes(Last(o.builders), x.kind) =>
                  (Whole(o) => Whole(p)) /\ ReadIn(p) = ReadIn(o) \o NumbersIn(x)
<1> DEFINE q == [o EXCEPT !.sourceIndexCounter = @ + 1]
           p == EmitElement(o, x)
           g == GatheredIn(o)
           i == IndexesIn(o)
           n == Len(o.built)
           next == o.sourceIndexCounter
<1>0. g \in Seq(1 .. n) /\ i \in Seq(Nat) /\ n \in Nat /\ next \in Nat /\ Builds(o.built)
  BY InTypes, OutlineTypes
<1>1. /\ IsOutput(q) /\ q.builders = o.builders /\ q.built = o.built /\ q.text = o.text
      /\ q.sourceIndexCounter = next + 1
  BY CounterStep DEF Outline, IsOutput, Output
<1>2. p = AddNewElement(q, x)
  BY DEF EmitElement
<1> HIDE DEF q, p, i
<1>3. Outline(q) /\ GatheredIn(q) = g /\ IndexesIn(q) = i
  BY <1>1, OutlineSame DEF i
<1> HIDE DEF g
<1>4. Outline(p) /\ p.built = Append(o.built, x) /\ p.text = o.text /\ p.sourceIndexCounter = next + 1
  BY <1>1, <1>2, <1>3, NewElementShape
<1>5. PreorderOf(q.built, Children(x)) = <<>> /\ IndexesOf(q.built, <<>>) = <<>>
  BY PreorderOfNone DEF IndexesOf
<1>6. \A r : <<r>> \o <<>> = <<r>>
  <2>1. ASSUME NEW r
        PROVE  <<r>> \o <<>> = <<r>>
    <3>1. <<r>> \in Seq({r})
      OBVIOUS
    <3> QED
      BY <3>1, ConcatEmptySeq
  <2> QED
    BY <2>1
<1>7. /\ Takes(Last(o.builders), x.kind) =>
           GatheredIn(p) = g \o <<n + 1>> /\ IndexesIn(p) = i \o <<next>>
      /\ ~Takes(Last(o.builders), x.kind) => GatheredIn(p) = g /\ IndexesIn(p) = i
  <2>1. x \in ArticleElement(1 .. Len(q.built)) /\ Last(q.builders) = Last(o.builders)
    BY <1>1
  <2>2. LET p2 == AddNewElement(q, x)
            content == PreorderOf(q.built, Children(x))
        IN  /\ Takes(Last(q.builders), x.kind) =>
                 /\ GatheredIn(p2) = GatheredIn(q) \o (<<Len(q.built) + 1>> \o content)
                 /\ IndexesIn(p2) = IndexesIn(q) \o (<<x.sourceIndex>> \o IndexesOf(q.built, content))
            /\ ~Takes(Last(q.builders), x.kind) =>
                 GatheredIn(p2) = GatheredIn(q) /\ IndexesIn(p2) = IndexesIn(q)
    BY <1>3, <2>1, NewElementEffect
  <2>3. /\ Takes(Last(o.builders), x.kind) =>
             /\ GatheredIn(p) = g \o (<<n + 1>> \o <<>>)
             /\ IndexesIn(p) = i \o (<<next>> \o <<>>)
        /\ ~Takes(Last(o.builders), x.kind) => GatheredIn(p) = g /\ IndexesIn(p) = i
    BY <1>1, <1>2, <1>3, <1>5, <2>1, <2>2
  <2> QED
    BY <1>6, <2>3
<1>8. ASSUME Ordered(i, next)
      PROVE  Ordered(IndexesIn(p), next + 1)
  <2>1. Ordered(i \o <<next>>, next + 1)
    BY <1>0, <1>8, OrderedMore DEF i
  <2>2. Ordered(i, next + 1)
    BY <1>0, <1>8, OrderedLater DEF i
  <2> QED
    BY <1>7, <2>1, <2>2
<1>9. Builds(p.built) /\ Len(p.built) = n + 1 /\ p.built[n + 1] = x
  BY <1>0, <1>4, BuildsMore
<1>10. ASSUME Takes(Last(o.builders), x.kind), Whole(o)
       PROVE  Whole(p)
  <2>1. g \o <<>> = g /\ <<n + 1>> \o <<>> = <<n + 1>> /\ <<>> \in Seq(1 .. n)
    BY <1>0, <1>6, ConcatEmptySeq
  <2>2. EachOnce(g \o <<>>, n)
    BY <1>10, <2>1 DEF Whole, g
  <2>3. PICK t : t = <<>>
    OBVIOUS
  <2>4. EachOnce(g \o t, n) /\ t \in Seq(1 .. n)
    BY <2>1, <2>2, <2>3
  <2>5. EachOnce(g \o (<<n + 1>> \o t), n + 1)
    BY <1>0, <2>4, EachOnceMore
  <2> QED
    BY <1>7, <1>9, <1>10, <2>1, <2>3, <2>5 DEF Whole
<1>11. ASSUME Takes(Last(o.builders), x.kind)
       PROVE  ReadIn(p) = ReadIn(o) \o NumbersIn(x)
  <2>1. 1 .. n \subseteq 1 .. n + 1 /\ n + 1 \in 1 .. n + 1
    BY <1>0
  <2>2. g \in Seq(1 .. Len(p.built)) /\ <<n + 1>> \in Seq(1 .. Len(p.built))
    BY <1>0, <1>9, <2>1, SeqGrows
  <2>3. NumbersAt(p.built, g \o <<n + 1>>) = NumbersAt(p.built, g) \o NumbersAt(p.built, <<n + 1>>)
    BY <1>9, <2>2, NumbersAtTwo
  <2>4. NumbersAt(p.built, <<n + 1>>) = NumbersIn(x)
    BY <1>9, <2>1, NumbersAtOne
  <2>5. NumbersAt(p.built, g) = NumbersAt(o.built, g)
    BY <1>0, <1>4, NumbersAtStay
  <2> QED
    BY <1>7, <1>11, <2>3, <2>4, <2>5 DEF ReadIn, g
<1> QED
  BY <1>4, <1>8, <1>10, <1>11 DEF Fine, p, i

-----------------------------------------------------------------------------
\* A new builder for an item.
LEMMA ItemPushed ==
  ASSUME NEW o, Outline(o)
  PROVE  LET p == PushBuilder(o, ListItemBuilder)
         IN  Outline(p) /\ (Fine(o) => Fine(p)) /\ Reads(o, p)
<1> DEFINE p == PushBuilder(o, ListItemBuilder)
           b == ListItemBuilder
<1>1. b \in Builder(1 .. Len(o.built)) /\ BuilderContent(b) = <<>> /\ Header(b) = <<>>
  BY DEF ListItemBuilder, Builder, BuilderContent, Header
<1>2. IsOutput(p)
  BY <1>1, PushPushes DEF Outline, PushesBuilder
<1>3. /\ p.built = o.built /\ p.builders = Append(o.builders, b)
      /\ p.sourceIndexCounter = o.sourceIndexCounter /\ p.text = o.text
  BY DEF PushBuilder, Outline, IsOutput, Output
<1> HIDE DEF p, b
<1>4. Outline(p) /\ GatheredIn(p) = GatheredIn(o) /\ IndexesIn(p) = IndexesIn(o) \o <<>>
  BY <1>1, <1>2, <1>3, PushEffect
<1>5. IndexesIn(o) \o <<>> = IndexesIn(o)
  BY InTypes, ConcatEmptySeq
<1> QED
  BY <1>3, <1>4, <1>5 DEF Fine, Reads, Whole, ReadIn, p, b

\* A new builder for a list or a table, with its source index.
LEMMA ContainerPushed ==
  ASSUME NEW o, Outline(o), NEW b \in Builder(1 .. Len(o.built)), b.kind \in {"List", "Table"},
         b.sourceIndex = o.sourceIndexCounter, BuilderContent(b) = <<>>
  PROVE  LET p == PushIndexedBuilder(o, b)
         IN  Outline(p) /\ (Fine(o) => Fine(p)) /\ Reads(o, p)
<1> DEFINE p == PushIndexedBuilder(o, b)
           next == o.sourceIndexCounter
<1>2. IsOutput(p)
  BY PushPushes DEF Outline, PushesBuilder
<1>3. /\ p.built = o.built /\ p.builders = Append(o.builders, b)
      /\ p.sourceIndexCounter = next + 1 /\ p.text = o.text
  BY DEF PushBuilder, PushIndexedBuilder, Outline, IsOutput, Output
<1> HIDE DEF p
<1>4. Outline(p) /\ GatheredIn(p) = GatheredIn(o) /\ IndexesIn(p) = IndexesIn(o) \o Header(b)
  BY <1>2, <1>3, PushEffect
<1>5. Header(b) = <<next>>
  BY DEF Header
<1>6. IndexesIn(o) \in Seq(Nat) /\ next \in Nat
  BY InTypes, OutlineTypes
<1>7. Ordered(IndexesIn(o), next) => Ordered(IndexesIn(p), next + 1)
  BY <1>4, <1>5, <1>6, OrderedMore
<1> QED
  BY <1>3, <1>4, <1>7 DEF Fine, Reads, Whole, ReadIn, p

\* The table builder on top starts a row or a cell.
LEMMA TableEffect ==
  ASSUME NEW o, Outline(o), TopIsTable(o),
         NEW b \in {StartNewRow(Last(o.builders)), StartNewCell(Last(o.builders))}
  PROVE  LET p == [o EXCEPT !.builders[Len(o.builders)] = b]
         IN  Outline(p) /\ (Fine(o) => Fine(p)) /\ Reads(o, p)
<1> DEFINE p == [o EXCEPT !.builders[Len(o.builders)] = b]
           top == Last(o.builders)
           n == Len(o.builders)
<1>1. top \in Builder(1 .. Len(o.built)) /\ top.kind = "Table"
  BY OutlineTypes DEF TopIsTable
<1>2. b \in Builder(1 .. Len(o.built)) /\ BuilderContent(b) = BuilderContent(top) /\ SameHeader(top, b)
  BY <1>1, RowContent, RowCellType
<1>3. n \in Nat \ {0} /\ o.builders \in Seq(Builder(1 .. Len(o.built)))
  BY OutlineTypes
<1>4. b.kind = top.kind
  BY <1>2 DEF SameHeader
<1> HIDE DEF top
<1>5. IsOutput(p)
  BY <1>2, <1>4, ReplaceTopKeeps DEF Outline, KeepsStack, top
<1>6. /\ p.built = o.built /\ p.builders = [o.builders EXCEPT ![n] = b]
      /\ p.sourceIndexCounter = o.sourceIndexCounter /\ p.text = o.text
  BY DEF Outline, IsOutput, Output
<1> HIDE DEF p, n
<1>7. Len(p.builders) = n /\ p.builders[n] = b /\ \A i \in 1 .. n - 1 : p.builders[i] = o.builders[i]
  BY <1>2, <1>3, <1>6 DEF n
<1>8. Outline(p)
  <2>1. p.builders # <<>>
    BY <1>3, <1>7
  <2> QED
    BY <1>5, <1>6, <2>1 DEF Outline
<1>9. Last(p.builders) = b /\ Extends(o, p)
  BY <1>6, <1>7, <1>8, OutlineTypes DEF Extends
<1>10. GatheredIn(p) = GatheredIn(o) /\ IndexesIn(p) = IndexesIn(o)
  BY <1>2, <1>7, <1>8, <1>9, TopSame DEF n, top
<1> QED
  BY <1>6, <1>8, <1>10 DEF Fine, Reads, Whole, ReadIn, p, n

\* The output without its top builder.
Below(o) == [o EXCEPT !.builders = Front(@)]

\* Taking the builder on top off leaves the others.
LEMMA BelowIs ==
  ASSUME NEW o, Outline(o), Len(o.builders) > 1
  PROVE  /\ Outline(Below(o))
         /\ Below(o).built = o.built /\ Below(o).builders = Front(o.builders)
         /\ Below(o).sourceIndexCounter = o.sourceIndexCounter /\ Below(o).text = o.text
         /\ Len(Below(o).builders) = Len(o.builders) - 1
         /\ GatheredIn(o) = GatheredIn(Below(o)) \o PartOf(o.built, Last(o.builders))
         /\ IndexesIn(o) = IndexesIn(Below(o)) \o BuilderIndexes(o.built, Last(o.builders))
<1> DEFINE p == Below(o)
<1>1. IsOutput(p) /\ Len(p.builders) = Len(o.builders) - 1
  BY BelowTop DEF Outline, Below, PopsBuilder
<1>2. /\ p.built = o.built /\ p.builders = Front(o.builders)
      /\ p.sourceIndexCounter = o.sourceIndexCounter /\ p.text = o.text
  BY DEF Below, Outline, IsOutput, Output
<1> HIDE DEF p
<1>3. /\ Outline(p)
      /\ GatheredIn(o) = GatheredIn(p) \o PartOf(o.built, Last(o.builders))
      /\ IndexesIn(o) = IndexesIn(p) \o BuilderIndexes(o.built, Last(o.builders))
  BY <1>1, <1>2, BelowEffect
<1> QED
  BY <1>1, <1>2, <1>3 DEF p

\* What is left is in order when what was there is.
LEMMA BelowFine ==
  ASSUME NEW o, Fine(o), Len(o.builders) > 1
  PROVE  Fine(Below(o))
<1>0. Outline(o)
  BY DEF Fine
<1>1. /\ Outline(Below(o)) /\ Below(o).sourceIndexCounter = o.sourceIndexCounter
      /\ IndexesIn(o) = IndexesIn(Below(o)) \o BuilderIndexes(o.built, Last(o.builders))
  BY <1>0, BelowIs
<1>2. IndexesIn(Below(o)) \in Seq(Nat) /\ BuilderIndexes(o.built, Last(o.builders)) \in Seq(Nat)
  BY <1>0, <1>1, InTypes, PartTypes, OutlineTypes
<1>3. o.sourceIndexCounter \in Nat /\ Ordered(IndexesIn(o), o.sourceIndexCounter)
  BY <1>0, OutlineTypes DEF Fine
<1>4. Ordered(IndexesIn(Below(o)), o.sourceIndexCounter)
  BY <1>1, <1>2, <1>3, OrderedPart
<1> QED
  BY <1>1, <1>4 DEF Fine

\* The list or table on top is built and given to the builder below it.
LEMMA ContainerFinished ==
  ASSUME NEW o, Outline(o), Len(o.builders) > 1, Last(o.builders).kind \in {"List", "Table"}
  PROVE  LET p == FinishBuilder(o)
         IN  /\ Outline(p)
             /\ Fine(o) => Fine(p)
             /\ p.text = o.text
             /\ Last(o.builders).kind = "List" \/ Last(Front(o.builders)).kind # "List" => Reads(o, p)
<1> DEFINE below == Below(o)
           b == Last(o.builders)
           x == BuiltContainer(b, o.built)
           p == FinishBuilder(o)
           n == Len(o.built)
           part == PartOf(o.built, b)
           g == GatheredIn(below)
           i == IndexesIn(below)
<1>1. /\ Outline(below)
      /\ below.built = o.built /\ below.builders = Front(o.builders)
      /\ below.sourceIndexCounter = o.sourceIndexCounter /\ below.text = o.text
      /\ GatheredIn(o) = g \o part
      /\ IndexesIn(o) = i \o BuilderIndexes(o.built, b)
  BY BelowIs
<1>2. b \in Builder(1 .. n) /\ b.kind \in {"List", "Table"} /\ Builds(o.built) /\ n \in Nat
  BY OutlineTypes
<1>3. /\ Children(x) = BuilderContent(b)
      /\ x.sourceIndex = b.sourceIndex
      /\ x.kind = IF b.kind = "List" THEN "ContentList" ELSE "ContentTable"
  BY <1>2, ContainerContent
<1>4. x \in ArticleElement(1 .. n)
  <2>1. o.built \in Seq(ArticleElement(1 .. n))
    BY <1>2 DEF Builds
  <2> QED
    BY <1>2, <2>1, BuiltContainerType
<1>5. p = AddNewElement(below, x)
  BY <1>2 DEF FinishBuilder, Below
<1>6. g \in Seq(1 .. n) /\ i \in Seq(Nat) /\ part \in Seq(1 .. n) /\ BuilderIndexes(o.built, b) \in Seq(Nat)
  BY <1>1, <1>2, InTypes, PartTypes
<1>7. BuilderIndexes(o.built, b) = <<b.sourceIndex>> \o IndexesOf(o.built, part)
  BY <1>2, BuilderIndexesAre DEF Header
<1>8. PreorderOf(o.built, Children(x)) = part
  BY <1>3 DEF PartOf
<1>20. Fine(o) => Fine(below)
  BY BelowFine
<1> HIDE DEF below, b, x, p, part, g, i
<1>9. /\ Outline(p)
      /\ p.built = Append(o.built, x) /\ p.text = o.text
      /\ p.sourceIndexCounter = o.sourceIndexCounter
  BY <1>1, <1>4, <1>5, NewElementShape
<1>10. /\ Takes(Last(below.builders), x.kind) =>
            /\ GatheredIn(p) = g \o (<<n + 1>> \o part)
            /\ IndexesIn(p) = i \o (<<x.sourceIndex>> \o IndexesOf(o.built, part))
       /\ ~Takes(Last(below.builders), x.kind) => GatheredIn(p) = g /\ IndexesIn(p) = i
  <2>1. LET p2 == AddNewElement(below, x)
            content == PreorderOf(below.built, Children(x))
        IN  /\ Takes(Last(below.builders), x.kind) =>
                 /\ GatheredIn(p2) = GatheredIn(below) \o (<<Len(below.built) + 1>> \o content)
                 /\ IndexesIn(p2) = IndexesIn(below) \o (<<x.sourceIndex>> \o IndexesOf(below.built, content))
            /\ ~Takes(Last(below.builders), x.kind) =>
                 GatheredIn(p2) = GatheredIn(below) /\ IndexesIn(p2) = IndexesIn(below)
    <3>1. x \in ArticleElement(1 .. Len(below.built))
      BY <1>1, <1>4
    <3> QED
      BY <1>1, <3>1, NewElementEffect
  <2> QED
    BY <1>1, <1>5, <1>8, <2>1 DEF g, i
<1>11. ASSUME Fine(o)
       PROVE  Fine(p)
  <2>1. CASE Takes(Last(below.builders), x.kind)
    <3>1. IndexesIn(p) = IndexesIn(o)
      BY <1>1, <1>3, <1>7, <1>10, <2>1
    <3> QED
      BY <1>9, <1>11, <3>1 DEF Fine
  <2>2. CASE ~Takes(Last(below.builders), x.kind)
    BY <1>1, <1>9, <1>10, <1>11, <1>20, <2>2 DEF Fine, i
  <2> QED
    BY <2>1, <2>2
<1>12. ASSUME Takes(Last(below.builders), x.kind)
       PROVE  Reads(o, p)
  <2>1. Builds(p.built) /\ Len(p.built) = n + 1 /\ p.built[n + 1] = x
    BY <1>2, <1>4, <1>9, BuildsMore
  <2>2. ASSUME Whole(o)
        PROVE  Whole(p)
    <3>1. EachOnce(g \o part, n)
      BY <1>1, <2>2 DEF Whole
    <3>2. EachOnce(g \o (<<n + 1>> \o part), n + 1)
      BY <1>2, <1>6, <3>1, EachOnceMore
    <3> QED
      BY <1>10, <1>12, <2>1, <3>2 DEF Whole
  <2>3. ReadIn(p) = ReadIn(o)
    <3> DEFINE one == <<n + 1>>
               R == 1 .. Len(p.built)
    <3>1. g \in Seq(R) /\ part \in Seq(R) /\ one \in Seq(R) /\ n + 1 \in R
      <4>1. 1 .. n \subseteq 1 .. n + 1 /\ n + 1 \in 1 .. n + 1
        BY <1>2
      <4> QED
        BY <1>6, <2>1, <4>1, SeqGrows
    <3>2. NumbersAt(p.built, one) = <<>>
      <4>1. NumbersAt(p.built, one) = NumbersIn(x)
        BY <2>1, <3>1, NumbersAtOne
      <4>2. x.kind \notin {"Text", "Quote"}
        BY <1>3
      <4> QED
        BY <4>1, <4>2 DEF NumbersIn
    <3> HIDE DEF one
    <3>3. one \o part \in Seq(R)
      BY <3>1, ConcatProperties
    <3>4. NumbersAt(p.built, one \o part) = NumbersAt(p.built, one) \o NumbersAt(p.built, part)
      BY <2>1, <3>1, NumbersAtTwo
    <3>5. NumbersAt(p.built, g \o (one \o part)) = NumbersAt(p.built, g) \o NumbersAt(p.built, one \o part)
      BY <2>1, <3>1, <3>3, NumbersAtTwo
    <3>6. NumbersAt(p.built, part) \in Seq(Nat)
      BY <2>1, <3>1, NumbersAtType
    <3>7. <<>> \o NumbersAt(p.built, part) = NumbersAt(p.built, part)
      BY <3>6, ConcatEmptySeq
    <3>8. NumbersAt(p.built, g) = NumbersAt(o.built, g) /\ NumbersAt(p.built, part) = NumbersAt(o.built, part)
      BY <1>2, <1>4, <1>6, <1>9, NumbersAtStay
    <3>9. NumbersAt(o.built, g \o part) = NumbersAt(o.built, g) \o NumbersAt(o.built, part)
      BY <1>2, <1>6, NumbersAtTwo
    <3>10. GatheredIn(p) = g \o (one \o part)
      BY <1>10, <1>12 DEF one
    <3> QED
      BY <1>1, <3>2, <3>4, <3>5, <3>7, <3>8, <3>9, <3>10 DEF ReadIn
  <2> QED
    BY <1>9, <2>2, <2>3 DEF Reads
<1>13. ASSUME b.kind = "List" \/ Last(Front(o.builders)).kind # "List"
       PROVE  Takes(Last(below.builders), x.kind)
  BY <1>1, <1>3, <1>13 DEF Takes
<1> QED
  BY <1>9, <1>11, <1>12, <1>13 DEF p, b

\* The item on top goes to the list below it.
LEMMA ItemFinished ==
  ASSUME NEW o, Outline(o), Len(o.builders) > 1, Last(o.builders).kind = "Item"
  PROVE  LET p == FinishItem(o)
         IN  /\ Outline(p)
             /\ Fine(o) => Fine(p)
             /\ p.text = o.text
             /\ Last(Front(o.builders)).kind = "List" => Reads(o, p)
<1> DEFINE below == Below(o)
           b == Last(o.builders)
           item == b.content
           p == FinishItem(o)
           R == 1 .. Len(o.built)
           part == PartOf(o.built, b)
           list == Last(below.builders)
           longer == [list EXCEPT !.items = Append(@, item)]
           n == Len(below.builders)
<1>1. /\ Outline(below)
      /\ below.built = o.built /\ below.builders = Front(o.builders)
      /\ below.sourceIndexCounter = o.sourceIndexCounter /\ below.text = o.text
      /\ GatheredIn(o) = GatheredIn(below) \o part
      /\ IndexesIn(o) = IndexesIn(below) \o BuilderIndexes(o.built, b)
  BY BelowIs
<1>2. b \in Builder(R) /\ Builds(o.built)
  BY OutlineTypes
<1>3. item \in Seq(R) /\ BuilderContent(b) = item
  BY <1>2, BuilderRecords, ContentIs
<1>4. BuilderIndexes(o.built, b) = IndexesOf(o.built, part)
  <2>1. BuilderIndexes(o.built, b) = <<>> \o IndexesOf(o.built, part)
    BY BuilderIndexesAre DEF Header
  <2>2. IndexesOf(o.built, part) \in Seq(Nat)
    BY <1>2, PartTypes, IndexesType
  <2> QED
    BY <2>1, <2>2, ConcatEmptySeq
<1>5. list \in Builder(R) /\ list = below.builders[n] /\ n \in Nat \ {0} /\ below.builders \in Seq(Builder(R))
  BY <1>1, OutlineTypes
<1>6. Fine(o) => Fine(below)
  BY BelowFine
<1>7. p = IF list.kind = "List" THEN [below EXCEPT !.builders[n].items = Append(@, item)] ELSE below
  BY DEF FinishItem, Below
<1> HIDE DEF below, item, b, R, part, p
<1>8. CASE list.kind = "List"
  <2>1. list \in [kind: {"List"}, isOrdered: BOOLEAN, ids: SUBSET Name, sourceIndex: Nat, items: Seq(Seq(R))]
    BY <1>5, <1>8, BuilderRecords
  <2>2. Append(list.items, item) \in Seq(Seq(R))
    BY <1>3, <2>1
  <2>3. longer \in Builder(R) /\ longer.kind = "List" /\ longer.sourceIndex = list.sourceIndex
        /\ longer.items = Append(list.items, item)
    BY <2>1, <2>2 DEF Builder
  <2>4. BuilderContent(longer) = BuilderContent(list) \o item
    <3>1. BuilderContent(longer) = Flat(longer.items) /\ BuilderContent(list) = Flat(list.items)
      BY <1>5, <1>8, <2>3, ContentIs
    <3>2. list.items \in Seq(Seq(R))
      BY <2>1
    <3> HIDE DEF longer, list
    <3> QED
      BY <1>3, <2>3, <3>1, <3>2, FlatAppend
  <2>5. p = [below EXCEPT !.builders[n] = longer]
    BY <1>5, <1>7, <1>8
  <2>6. SameHeader(list, longer)
    BY <1>8, <2>3 DEF SameHeader
  <2> HIDE DEF longer, list
  <2>7. IsOutput(p)
    BY <1>1, <1>8, <2>3, <2>5, ReplaceTopKeeps DEF Outline, KeepsStack, R, n, list
  <2>8. /\ p.built = o.built /\ p.builders = [below.builders EXCEPT ![n] = longer]
        /\ p.sourceIndexCounter = o.sourceIndexCounter /\ p.text = o.text
    BY <1>1, <2>5 DEF Outline, IsOutput, Output
  <2>9. Len(p.builders) = n /\ p.builders[n] = longer /\ \A i \in 1 .. n - 1 : p.builders[i] = below.builders[i]
    BY <1>5, <2>3, <2>8
  <2>10. Outline(p)
    <3>1. p.builders # <<>>
      BY <1>5, <2>9
    <3> QED
      BY <1>2, <2>7, <2>8, <3>1 DEF Outline, Builds
  <2>11. Last(p.builders) = longer /\ Extends(below, p)
    BY <1>1, <2>8, <2>9, <2>10, OutlineTypes DEF Extends
  <2>12. item \in Seq(1 .. Len(p.built))
    BY <1>3, <2>8 DEF R
  <2>13. /\ GatheredIn(p) = GatheredIn(below) \o PreorderOf(p.built, item)
         /\ IndexesIn(p) = IndexesIn(below) \o IndexesOf(p.built, PreorderOf(p.built, item))
    <3>1. /\ SameHeader(Last(below.builders), Last(p.builders))
          /\ BuilderContent(Last(p.builders)) = BuilderContent(Last(below.builders)) \o item
          /\ Len(p.builders) = Len(below.builders)
          /\ \A i \in 1 .. Len(below.builders) - 1 : p.builders[i] = below.builders[i]
      BY <2>4, <2>6, <2>9, <2>11 DEF n, list
    <3> QED
      BY <1>1, <2>10, <2>11, <2>12, <3>1, TopMore
  <2>14. PreorderOf(p.built, item) = part
    BY <1>3, <2>8 DEF part, PartOf
  <2>15. GatheredIn(p) = GatheredIn(o) /\ IndexesIn(p) = IndexesIn(o)
    BY <1>1, <1>4, <2>8, <2>13, <2>14
  <2> QED
    BY <2>8, <2>10, <2>15 DEF Fine, Reads, Whole, ReadIn, p
<1>9. CASE list.kind # "List"
  BY <1>1, <1>6, <1>7, <1>9 DEF p
<1> QED
  BY <1>8, <1>9

-----------------------------------------------------------------------------
(* What they keep of its content. *)

\* Nothing is dropped, doubled or reordered, the text being built included.
Preserves(o, p) == (Whole(o) => Whole(p)) /\ ContentIn(p) = ContentIn(o)

\* What reads the same with the same text has the same content; contents that are kept twice are kept.
LEMMA ReadsPreserves ==
  ASSUME NEW o, NEW p, NEW q
  PROVE  /\ Reads(o, p) => Preserves(o, p)
         /\ Preserves(o, p) /\ Preserves(p, q) => Preserves(o, q)
         /\ Preserves(o, o)
BY DEF Reads, Preserves, ContentIn

\* A flush finds no text, or a builder that takes it.
FlushIsTaken == Last(output.builders).kind # "List" \/ ~TextHasLength(output.text)

\* flushText() puts the text at the end of the builder on top, unless that drops it.
LEMMA FlushEffect ==
  ASSUME TransformerTypeOK, Outline(output)
  PROVE  /\ Outline(FlushText)
         /\ Fine(output) => Fine(FlushText)
         /\ FlushIsTaken => Preserves(output, FlushText)
         /\ ~TextHasLength(FlushText.text)
<1> DEFINE cleared == [output EXCEPT !.text = EmptyText]
           element == FlushedElement(output.text)
           words == output.text.words
<1>1. IsOutput(output) /\ Len(output.built) \in Nat /\ words \in Seq(Word) /\ output.sourceIndexCounter \in Nat
  BY OutlineTypes DEF Outline, Text
<1>2. EmptyText \in Text /\ EmptyText.words = <<>> /\ ~TextHasLength(EmptyText)
  BY DEF EmptyText, Text, TextHasLength
<1>3. /\ IsOutput(cleared) /\ cleared.built = output.built /\ cleared.text = EmptyText
      /\ cleared.builders = output.builders /\ cleared.sourceIndexCounter = output.sourceIndexCounter
  BY <1>1, <1>2 DEF IsOutput, Output
<1>4. element \in ArticleElement(1 .. Len(cleared.built))
  <2>1. NonEmptyIds(idStack) \in SUBSET Name
    BY IdsType DEF TransformerTypeOK
  <2>2. CurrentTag \in Name
    BY LastFront DEF CurrentTag, TransformerTypeOK, NoTag, Name
  <2> QED
    BY <1>1, <2>1, <2>2 DEF FlushedElement, ArticleElement, IdsInForce
<1>5. /\ Children(element) = <<>> /\ element.sourceIndex = cleared.sourceIndexCounter
      /\ NumbersIn(element) = NumbersOf(words)
  BY <1>3 DEF FlushedElement, Children, NumbersIn
<1>6. /\ Outline(cleared) /\ ReadIn(cleared) = ReadIn(output) /\ (Whole(output) => Whole(cleared))
      /\ Fine(output) => Fine(cleared)
  BY <1>3, TextEffect
<1>7. CASE ~TextHasLength(output.text)
  <2>1. FlushText = output
    BY <1>7 DEF FlushText
  <2> QED
    BY <1>7, <2>1, ReadsPreserves
<1>8. CASE TextHasLength(output.text) /\ TextIsVisible(output.text)
  <2> DEFINE p == EmitElement(cleared, element)
  <2>1. FlushText = p
    BY <1>8 DEF FlushText
  <2> HIDE DEF cleared, element
  <2>2. /\ Outline(p) /\ p.text = cleared.text
        /\ Fine(cleared) => Fine(p)
        /\ Takes(Last(cleared.builders), element.kind) =>
             (Whole(cleared) => Whole(p)) /\ ReadIn(p) = ReadIn(cleared) \o NumbersIn(element)
    BY <1>4, <1>5, <1>6, EmitEffect
  <2> HIDE DEF p
  <2>3. ASSUME FlushIsTaken
        PROVE  Preserves(output, p)
    <3>1. Takes(Last(cleared.builders), element.kind)
      BY <1>3, <1>8, <2>3 DEF FlushIsTaken, Takes
    <3>2. ContentIn(p) = (ReadIn(output) \o NumbersOf(words)) \o <<>>
      BY <1>2, <1>3, <1>5, <1>6, <2>2, <3>1, NoNumbers DEF ContentIn
    <3>3. ReadIn(output) \o NumbersOf(words) = ContentIn(output) /\ ContentIn(output) \in Seq(Nat)
      BY ReadType DEF ContentIn
    <3>4. ContentIn(p) = ContentIn(output)
      BY <3>2, <3>3, ConcatEmptySeq
    <3> QED
      BY <1>6, <2>2, <3>1, <3>4 DEF Preserves
  <2> QED
    BY <1>2, <1>3, <1>6, <2>1, <2>2, <2>3
<1>9. CASE TextHasLength(output.text) /\ ~TextIsVisible(output.text)
  <2>1. FlushText = cleared /\ words = <<>>
    BY <1>9 DEF FlushText, TextIsVisible
  <2> HIDE DEF cleared
  <2>2. ContentIn(cleared) = ContentIn(output)
    BY <1>2, <1>3, <1>6, <2>1 DEF ContentIn
  <2> QED
    BY <1>2, <1>3, <1>6, <2>1, <2>2 DEF Preserves
<1> QED
  BY <1>7, <1>8, <1>9

\* The same where it depends on the tag.
LEMMA FlushedEffect ==
  ASSUME TransformerTypeOK, Outline(output), NEW tag
  PROVE  /\ Outline(Flushed(tag))
         /\ Fine(output) => Fine(Flushed(tag))
         /\ FlushIsTaken \/ tag \notin BlockTags => Preserves(output, Flushed(tag))
         /\ tag \in BlockTags => ~TextHasLength(Flushed(tag).text)
         /\ tag \notin BlockTags => Flushed(tag) = output
BY FlushEffect, ReadsPreserves DEF Flushed

-----------------------------------------------------------------------------
(* The marks of <q>, <br> and <a>. *)

\* Another text with the same numbers.
LEMMA MarkEffect ==
  ASSUME NEW o, Outline(o), NEW p, IsOutput(p), p.builders = o.builders, p.built = o.built,
         p.sourceIndexCounter = o.sourceIndexCounter,
         NumbersOf(p.text.words) = NumbersOf(o.text.words)
  PROVE  Outline(p) /\ (Fine(o) => Fine(p)) /\ Preserves(o, p)
BY TextEffect DEF Preserves, ContentIn

\* A quotation mark carries no number.
LEMMA QuoteEffect ==
  ASSUME NEW o, Outline(o)
  PROVE  LET p == AppendQuoteMark(o)
         IN  Outline(p) /\ (Fine(o) => Fine(p)) /\ Preserves(o, p)
<1> DEFINE p == AppendQuoteMark(o)
           w == [n |-> 0, styles |-> {}, links |-> Range(o.text.links)]
<1>1. IsOutput(o) /\ o.text.words \in Seq(Word) /\ o.text.links \in Seq(STRING)
  BY OutlineTypes DEF Outline, Text
<1>2. w \in Word /\ w.n = 0
  BY <1>1, RangeType DEF Word
<1>3. IsOutput(p)
  BY <1>1, QuoteMarkKeeps DEF KeepsStack
<1>4. /\ p.builders = o.builders /\ p.built = o.built /\ p.sourceIndexCounter = o.sourceIndexCounter
      /\ p.text.words = Append(o.text.words, w)
  BY <1>1 DEF AppendQuoteMark, IsOutput, Output, Text
<1> HIDE DEF p, w
<1>5. NumbersOf(p.text.words) = NumbersOf(o.text.words) \o <<>>
  <2>1. NumbersOf(Append(o.text.words, w)) = NumbersOf(o.text.words) \o (IF w.n > 0 THEN <<w.n>> ELSE <<>>)
    BY <1>1, <1>2, NumbersMore
  <2>2. (IF w.n > 0 THEN <<w.n>> ELSE <<>>) = <<>>
    BY <1>2
  <2> QED
    BY <1>4, <2>1, <2>2
<1>6. NumbersOf(o.text.words) \o <<>> = NumbersOf(o.text.words)
  BY ReadType, ConcatEmptySeq
<1> QED
  BY <1>3, <1>4, <1>5, <1>6, MarkEffect DEF p

\* Nor does a blank.
LEMMA BlankEffect ==
  ASSUME NEW o, Outline(o), NEW blank \in {"none", "space", "lines"}
  PROVE  LET p == [o EXCEPT !.text.blank = blank]
         IN  Outline(p) /\ (Fine(o) => Fine(p)) /\ Preserves(o, p)
<1> DEFINE p == [o EXCEPT !.text.blank = blank]
<1>1. IsOutput(o)
  BY DEF Outline
<1>2. IsOutput(p)
  BY <1>1, BlankSet DEF KeepsStack
<1>3. /\ p.builders = o.builders /\ p.built = o.built /\ p.sourceIndexCounter = o.sourceIndexCounter
      /\ p.text.words = o.text.words
  BY <1>1 DEF IsOutput, Output, Text
<1> HIDE DEF p
<1> QED
  BY <1>2, <1>3, MarkEffect DEF p

\* Nor does a link pushed or popped.
LEMMA LinksEffect ==
  ASSUME NEW o, Outline(o), NEW links \in Seq(STRING)
  PROVE  LET p == [o EXCEPT !.text.links = links]
         IN  Outline(p) /\ (Fine(o) => Fine(p)) /\ Preserves(o, p)
<1> DEFINE p == [o EXCEPT !.text.links = links]
<1>1. IsOutput(o)
  BY DEF Outline
<1>2. IsOutput(p)
  BY <1>1, LinksSet DEF KeepsStack
<1>3. /\ p.builders = o.builders /\ p.built = o.built /\ p.sourceIndexCounter = o.sourceIndexCounter
      /\ p.text.words = o.text.words
  BY <1>1 DEF IsOutput, Output, Text
<1> HIDE DEF p
<1> QED
  BY <1>2, <1>3, MarkEffect DEF p

\* A word is read after everything else.
LEMMA WordEffect ==
  ASSUME NEW o, Outline(o), NEW n \in Nat \ {0}, NEW styles \in SUBSET Styles
  PROVE  LET p == [o EXCEPT !.text.words =
                     Append(@, [n |-> n, styles |-> styles, links |-> Range(o.text.links)])]
         IN  /\ Outline(p) /\ (Fine(o) => Fine(p)) /\ (Whole(o) => Whole(p))
             /\ ContentIn(p) = ContentIn(o) \o <<n>>
<1> DEFINE w == [n |-> n, styles |-> styles, links |-> Range(o.text.links)]
           p == [o EXCEPT !.text.words = Append(@, w)]
<1>1. IsOutput(o) /\ o.text.words \in Seq(Word) /\ o.text.links \in Seq(STRING)
  BY OutlineTypes DEF Outline, Text
<1>2. w \in Word /\ w.n = n
  BY <1>1, RangeType DEF Word
<1>3. IsOutput(p)
  BY <1>1, WordAppended DEF KeepsStack
<1>4. /\ p.builders = o.builders /\ p.built = o.built /\ p.sourceIndexCounter = o.sourceIndexCounter
      /\ p.text.words = Append(o.text.words, w)
  BY <1>1 DEF IsOutput, Output, Text
<1> HIDE DEF p, w
<1>5. NumbersOf(p.text.words) = NumbersOf(o.text.words) \o <<n>>
  BY <1>1, <1>2, <1>4, NumbersMore
<1>6. Outline(p) /\ (Fine(o) => Fine(p)) /\ (Whole(o) => Whole(p)) /\ ReadIn(p) = ReadIn(o)
  BY <1>3, <1>4, TextEffect
<1> DEFINE a == ReadIn(o)
           b == NumbersOf(o.text.words)
           c == <<n>>
           S == Nat
<1>7. a \in Seq(S) /\ b \in Seq(S) /\ c \in Seq(S)
  BY ReadType
<1> HIDE DEF a, b, c, S
<1>8. (a \o b) \o c = a \o (b \o c)
  BY <1>7, ConcatAssociative
<1> QED
  BY <1>5, <1>6, <1>8 DEF ContentIn, a, b, c, p, w

-----------------------------------------------------------------------------
(* The callbacks. *)

\* Fine stays fine.
Steps(o, p) == Outline(p) /\ (Fine(o) => Fine(p))

\* One step after the other.
LEMMA StepsThen ==
  ASSUME NEW o, NEW p, NEW q, Steps(o, p), Steps(p, q)
  PROVE  Steps(o, q) /\ (Preserves(o, p) /\ Preserves(p, q) => Preserves(o, q))
BY DEF Steps, Preserves

\* flushText() where a tag calls it.
LEMMA FlushedSteps ==
  ASSUME TransformerTypeOK, Outline(output), NEW tag
  PROVE  /\ Steps(output, Flushed(tag))
         /\ Outline(Flushed(tag))
         /\ FlushIsTaken => Preserves(output, Flushed(tag))
         /\ tag \in BlockTags => ~TextHasLength(Flushed(tag).text)
         /\ Len(Flushed(tag).builders) = Len(output.builders)
         /\ Len(output.builders) \in Nat \ {0}
         /\ \A k \in 1 .. Len(output.builders) : Flushed(tag).builders[k].kind = output.builders[k].kind
<1>1. output.builders # <<>>
  BY DEF Outline
<1> QED
  BY <1>1, FlushedEffect, FlushedIsOutput DEF Steps, KeepsStack

\* What a start tag gives its element from the attributes.
LEMMA IdsWithType ==
  ASSUME TransformerTypeOK, NEW e \in ElementType
  PROVE  IdsWith(e) \in SUBSET Name
<1>1. Append(idStack, e.id) \in Seq(Name)
  BY DEF TransformerTypeOK, ElementType
<1> QED
  BY <1>1, IdsType DEF IdsWith

\* A list, an item or a table opens.
LEMMA StartContainerEffect ==
  ASSUME TransformerTypeOK, Outline(output), NEW e \in ElementType,
         StartList(e) \/ StartItem(e) \/ StartTable(e)
  PROVE  Steps(output, output') /\ (FlushIsTaken => Preserves(output, output'))
<1> DEFINE o == Flushed(e.tag)
<1>1. Steps(output, o) /\ Outline(o) /\ (FlushIsTaken => Preserves(output, o))
  BY FlushedSteps
<1>2. IdsWith(e) \in SUBSET Name /\ o.sourceIndexCounter \in Nat
  BY <1>1, IdsWithType, OutlineTypes
<1> HIDE DEF o
<1>3. Steps(o, output') /\ Reads(o, output')
  <2>1. CASE StartList(e)
    <3> DEFINE b == ListBuilder(o, e.tag, IdsWith(e))
    <3>1. /\ b \in Builder(1 .. Len(o.built)) /\ b.kind = "List"
          /\ b.sourceIndex = o.sourceIndexCounter /\ BuilderContent(b) = <<>>
      <4>1. b \in Builder(1 .. Len(o.built)) /\ b.kind = "List" /\ b.items = <<>>
            /\ b.sourceIndex = o.sourceIndexCounter
        BY <1>2 DEF ListBuilder, Builder
      <4>2. BuilderContent(b) = Flat(b.items)
        BY <4>1, ContentIs
      <4> QED
        BY <4>1, <4>2, FlatNone
    <3>2. output' = PushIndexedBuilder(o, b)
      BY <2>1 DEF StartList, o
    <3> HIDE DEF b
    <3> QED
      BY <1>1, <3>1, <3>2, ContainerPushed DEF Steps
  <2>2. CASE StartItem(e)
    <3>1. output' = PushBuilder(o, ListItemBuilder)
      BY <2>2 DEF StartItem, o
    <3> QED
      BY <1>1, <3>1, ItemPushed DEF Steps
  <2>3. CASE StartTable(e)
    <3> DEFINE b == TableBuilder(o, IdsWith(e))
    <3>1. /\ b \in Builder(1 .. Len(o.built)) /\ b.kind = "Table"
          /\ b.sourceIndex = o.sourceIndexCounter /\ BuilderContent(b) = <<>>
      <4>1. b \in Builder(1 .. Len(o.built)) /\ b.kind = "Table"
            /\ b.rows = <<>> /\ b.row = <<>> /\ b.cell = <<>>
            /\ b.sourceIndex = o.sourceIndexCounter
        BY <1>2 DEF TableBuilder, Builder
      <4>2. BuilderContent(b) = Flat(Flat(b.rows)) \o Flat(b.row) \o b.cell
        BY <4>1, ContentIs
      <4>3. Flat(<<>>) = <<>>
        BY FlatNone
      <4>4. <<>> \in Seq(Nat)
        OBVIOUS
      <4>5. <<>> \o <<>> = <<>>
        BY <4>4, ConcatEmptySeq
      <4> QED
        BY <4>1, <4>2, <4>3, <4>5
    <3>2. output' = PushIndexedBuilder(o, b)
      BY <2>3 DEF StartTable, o
    <3> HIDE DEF b
    <3> QED
      BY <1>1, <3>1, <3>2, ContainerPushed DEF Steps
  <2> QED
    BY <2>1, <2>2, <2>3
<1>4. Preserves(o, output')
  BY <1>3, ReadsPreserves
<1> QED
  BY <1>1, <1>3, <1>4, StepsThen

\* Any other element opens.
LEMMA StartOtherEffect ==
  ASSUME TransformerTypeOK, Outline(output), NEW e \in ElementType, StartsNoBuilder(e)
  PROVE  Steps(output, output') /\ (FlushIsTaken => Preserves(output, output'))
<1> DEFINE o == Flushed(e.tag)
           top == Last(o.builders)
<1>1. /\ Steps(output, o) /\ Outline(o) /\ (FlushIsTaken => Preserves(output, o))
      /\ Last(o.builders).kind = Last(output.builders).kind
  <2>1. /\ Last(o.builders) = o.builders[Len(o.builders)]
        /\ Last(output.builders) = output.builders[Len(output.builders)]
    BY FlushedSteps, OutlineTypes
  <2> QED
    BY <2>1, FlushedSteps
<1>2. IdsWith(e) \in SUBSET Name /\ o.sourceIndexCounter \in Nat /\ e.href \in STRING
  BY <1>1, IdsWithType, OutlineTypes DEF ElementType
<1>3. Steps(o, o) /\ Preserves(o, o) /\ Steps(output, output) /\ Preserves(output, output)
  BY <1>1, ReadsPreserves DEF Steps
<1> HIDE DEF o
<1>4. SUFFICES (Steps(o, output') /\ Preserves(o, output')) \/ (Steps(output, output') /\ Preserves(output, output'))
  BY <1>1, StepsThen
<1>5. CASE StartRow(e) \/ StartCell(e)
  <2>1. PICK b \in {StartNewRow(top), StartNewCell(top)} :
          output' = IF TopIsTable(o) THEN [o EXCEPT !.builders[Len(o.builders)] = b] ELSE o
    <3>1. top = o.builders[Len(o.builders)]
      BY <1>1, OutlineTypes
    <3>2. CASE StartRow(e)
      BY <3>1, <3>2 DEF StartRow, o
    <3>3. CASE StartCell(e)
      BY <3>1, <3>3 DEF StartCell, o
    <3> QED
      BY <1>5, <3>2, <3>3
  <2>2. CASE TopIsTable(o)
    <3>1. b \in {StartNewRow(Last(o.builders)), StartNewCell(Last(o.builders))}
      BY <2>1
    <3> DEFINE p == [o EXCEPT !.builders[Len(o.builders)] = b]
    <3>2. Outline(p) /\ (Fine(o) => Fine(p)) /\ Reads(o, p)
      BY <1>1, <2>2, <3>1, TableEffect
    <3> QED
      BY <2>1, <2>2, <3>2, ReadsPreserves DEF Steps
  <2>3. CASE ~TopIsTable(o)
    BY <1>3, <2>1, <2>3
  <2> QED
    BY <2>2, <2>3
<1>6. CASE StartQuotation(e)
  BY <1>1, <1>6, QuoteEffect DEF StartQuotation, Steps, o
<1>7. CASE StartBreak(e)
  BY <1>1, <1>7, BlankEffect DEF StartBreak, AppendLineBreak, Steps, o
<1>8. CASE StartImage(e)
  <2> DEFINE x == [kind |-> "Image", sourceIndex |-> o.sourceIndexCounter, ids |-> IdsWith(e)]
             p == EmitElement(o, x)
  <2>1. x \in ArticleElement(1 .. Len(o.built))
    BY <1>2 DEF ArticleElement
  <2>2. Children(x) = <<>> /\ x.sourceIndex = o.sourceIndexCounter /\ x.kind = "Image" /\ NumbersIn(x) = <<>>
    BY DEF Children, NumbersIn
  <2>3. output' \in {p, o}
    BY <1>8 DEF StartImage, o
  <2> HIDE DEF x
  <2>4. /\ Outline(p) /\ p.text = o.text
        /\ Fine(o) => Fine(p)
        /\ Takes(Last(o.builders), x.kind) =>
             (Whole(o) => Whole(p)) /\ ReadIn(p) = ReadIn(o) \o NumbersIn(x)
    BY <1>1, <2>1, <2>2, EmitEffect
  <2>5. Takes(Last(o.builders), x.kind)
    BY <2>2 DEF Takes
  <2> HIDE DEF p
  <2>6. ReadIn(o) \o <<>> = ReadIn(o)
    BY <1>1, ReadType, ConcatEmptySeq
  <2>7. Preserves(o, p)
    BY <2>2, <2>4, <2>5, <2>6 DEF Preserves, ContentIn
  <2> QED
    BY <1>3, <2>3, <2>4, <2>7 DEF Steps
<1>9. CASE StartAnchor(e)
  <2> DEFINE links == Append(output.text.links, e.href)
             p == [output EXCEPT !.text.links = links]
  <2>1. output.text.links \in Seq(STRING)
    BY DEF Outline, IsOutput, Output, Text
  <2>2. links \in Seq(STRING)
    BY <1>2, <2>1
  <2>3. output' \in {output, p}
    BY <1>9 DEF StartAnchor, Outline, IsOutput, Output, Text
  <2> HIDE DEF links
  <2>4. Outline(p) /\ (Fine(output) => Fine(p)) /\ Preserves(output, p)
    BY <2>2, LinksEffect
  <2> QED
    BY <1>3, <2>3, <2>4 DEF Steps
<1>10. CASE StartPlain(e)
  BY <1>3, <1>10 DEF StartPlain, o
<1> QED
  BY <1>5, <1>6, <1>7, <1>8, <1>9, <1>10 DEF StartsNoBuilder

\* The builder below the one on top.
SecondIs(o, kind) == o.builders[Len(o.builders) - 1].kind = kind

\* The top builder, once the one above it was popped.
LEMMA SecondOf ==
  ASSUME NEW o, Outline(o), Len(o.builders) > 1
  PROVE  Last(Front(o.builders)) = o.builders[Len(o.builders) - 1]
<1> DEFINE n == Len(o.builders)
           s == o.builders
<1>1. s \in Seq(Builder(1 .. Len(o.built))) /\ s # <<>> /\ n \in Nat
  BY OutlineTypes DEF Outline
<1>2. /\ Front(s) \in Seq(Builder(1 .. Len(o.built))) /\ Len(Front(s)) = n - 1
      /\ \A i \in 1 .. n - 1 : Front(s)[i] = s[i]
  BY <1>1, LastFront
<1>3. Front(s) # <<>> /\ n - 1 \in 1 .. n - 1
  BY <1>1, <1>2
<1>4. Last(Front(s)) = Front(s)[Len(Front(s))]
  BY <1>2, <1>3, LastFront
<1> QED
  BY <1>2, <1>3, <1>4

\* A list or a table ends and is given to what it stands in.
LEMMA EndContainerEffect ==
  ASSUME TransformerTypeOK, Outline(output), NEW e \in ElementType,
         Len(output.builders) > 1, Last(output.builders).kind \in {"List", "Table"}, EndContainer(e)
  PROVE  /\ Steps(output, output')
         /\ FlushIsTaken /\ (Last(output.builders).kind = "List" \/ ~SecondIs(output, "List"))
              => Preserves(output, output')
<1> DEFINE o == Flushed(e.tag)
           n == Len(output.builders)
<1>1. /\ Steps(output, o) /\ Outline(o) /\ (FlushIsTaken => Preserves(output, o))
      /\ Len(o.builders) = n /\ n \in Nat \ {0}
      /\ \A k \in 1 .. n : o.builders[k].kind = output.builders[k].kind
  BY FlushedSteps
<1>2. n > 1 /\ n \in 1 .. n /\ n - 1 \in 1 .. n
  BY <1>1
<1>3. /\ Last(o.builders).kind = Last(output.builders).kind
      /\ Last(Front(o.builders)).kind = output.builders[n - 1].kind
  <2>1. Last(o.builders) = o.builders[n] /\ Last(output.builders) = output.builders[n]
    BY <1>1, OutlineTypes
  <2>2. Last(Front(o.builders)) = o.builders[n - 1]
    BY <1>1, <1>2, SecondOf
  <2> QED
    BY <1>1, <1>2, <2>1, <2>2
<1>4. output' = FinishBuilder(o)
  BY <1>1, <1>2 DEF EndContainer
<1> HIDE DEF o
<1>5. LET p == FinishBuilder(o)
      IN  /\ Outline(p)
          /\ Fine(o) => Fine(p)
          /\ p.text = o.text
          /\ Last(o.builders).kind = "List" \/ Last(Front(o.builders)).kind # "List" => Reads(o, p)
  BY <1>1, <1>2, <1>3, ContainerFinished
<1>6. /\ Steps(o, output')
      /\ Last(output.builders).kind = "List" \/ ~SecondIs(output, "List") => Preserves(o, output')
  BY <1>3, <1>4, <1>5, ReadsPreserves DEF Steps, SecondIs
<1> QED
  BY <1>1, <1>6, StepsThen

\* An item ends and is given to its list.
LEMMA EndItemEffect ==
  ASSUME TransformerTypeOK, Outline(output), NEW e \in ElementType,
         Len(output.builders) > 1, EndItem(e)
  PROVE  /\ Steps(output, output')
         /\ FlushIsTaken /\ SecondIs(output, "List") => Preserves(output, output')
<1> DEFINE o == Flushed(e.tag)
           n == Len(output.builders)
<1>1. /\ Steps(output, o) /\ Outline(o) /\ (FlushIsTaken => Preserves(output, o))
      /\ Len(o.builders) = n /\ n \in Nat \ {0}
      /\ \A k \in 1 .. n : o.builders[k].kind = output.builders[k].kind
  BY FlushedSteps
<1>2. n > 1 /\ n - 1 \in 1 .. n
  BY <1>1
<1>3. Last(Front(o.builders)).kind = output.builders[n - 1].kind
  <2>2. Last(Front(o.builders)) = o.builders[n - 1]
    BY <1>1, <1>2, SecondOf
  <2> QED
    BY <1>1, <1>2, <2>2
<1>4. output' = FinishItem(o) /\ Last(o.builders).kind = "Item"
  BY DEF EndItem
<1> HIDE DEF o
<1>5. LET p == FinishItem(o)
      IN  /\ Outline(p)
          /\ Fine(o) => Fine(p)
          /\ p.text = o.text
          /\ Last(Front(o.builders)).kind = "List" => Reads(o, p)
  BY <1>1, <1>2, <1>4, ItemFinished
<1>6. /\ Steps(o, output')
      /\ SecondIs(output, "List") => Preserves(o, output')
  BY <1>3, <1>4, <1>5, ReadsPreserves DEF Steps, SecondIs
<1> QED
  BY <1>1, <1>6, StepsThen

\* Any other element ends.
LEMMA EndOtherEffect ==
  ASSUME TransformerTypeOK, Outline(output), NEW e \in ElementType,
         EndQuotation(e) \/ EndAnchor(e) \/ EndPlain(e)
  PROVE  Steps(output, output') /\ (FlushIsTaken => Preserves(output, output'))
<1> DEFINE o == Flushed(e.tag)
<1>1. Steps(output, o) /\ Outline(o) /\ (FlushIsTaken => Preserves(output, o))
  BY FlushedSteps
<1>2. Steps(o, o) /\ Preserves(o, o)
  BY <1>1, ReadsPreserves DEF Steps
<1> HIDE DEF o
<1>3. CASE EndQuotation(e)
  <2>1. output' = AppendQuoteMark(o)
    BY <1>3 DEF EndQuotation, o
  <2>2. Steps(o, output') /\ Preserves(o, output')
    BY <1>1, <2>1, QuoteEffect DEF Steps
  <2> QED
    BY <1>1, <2>2, StepsThen
<1>4. CASE EndAnchor(e)
  <2> DEFINE links == IF output.text.links = <<>> THEN output.text.links ELSE Front(output.text.links)
             p == [output EXCEPT !.text.links = links]
  <2>1. output.text.links \in Seq(STRING)
    BY DEF Outline, IsOutput, Output, Text
  <2>2. links \in Seq(STRING)
    BY <2>1, LastFront
  <2>3. output' = p
    BY <1>4 DEF EndAnchor, PopLink, Outline, IsOutput, Output, Text
  <2> HIDE DEF links
  <2>4. Outline(p) /\ (Fine(output) => Fine(p)) /\ Preserves(output, p)
    BY <2>2, LinksEffect
  <2> QED
    BY <2>3, <2>4 DEF Steps
<1>5. CASE EndPlain(e)
  BY <1>1, <1>2, <1>5, StepsThen DEF EndPlain, o
<1> QED
  BY <1>3, <1>4, <1>5

\* The text of the page.
LEMMA BlankTextEffect ==
  ASSUME TransformerTypeOK, Outline(output), NEW n \in Nat, NEW kind \in TextKinds, TextOfBody(kind, n),
         kind # "word"
  PROVE  Steps(output, output') /\ Preserves(output, output')
<1> DEFINE blank == IF output.text.blank = "lines" THEN "lines" ELSE kind
<1>1. blank \in {"none", "space", "lines"}
  BY DEF TextKinds
<1>2. output' = [output EXCEPT !.text.blank = blank]
  BY DEF TextOfBody, Outline, IsOutput, Output, Text
<1> HIDE DEF blank
<1> QED
  BY <1>1, <1>2, BlankEffect DEF Steps

\* A word of the page is read after everything else.
LEMMA WordTextEffect ==
  ASSUME TransformerTypeOK, Outline(output), NEW n \in Nat \ {0}, TextOfBody("word", n)
  PROVE  /\ Steps(output, output') /\ (Whole(output) => Whole(output'))
         /\ ContentIn(output') = ContentIn(output) \o <<n>>
<1>1. Range(styleStack) \in SUBSET Styles
  BY RangeType DEF TransformerTypeOK
<1>2. output' = [output EXCEPT !.text.words =
               Append(@, [n |-> n, styles |-> Range(styleStack), links |-> Range(output.text.links)])]
  BY DEF TextOfBody
<1> DEFINE styles == Range(styleStack)
<1> HIDE DEF styles
<1>3. LET p == [output EXCEPT !.text.words =
                     Append(@, [n |-> n, styles |-> styles, links |-> Range(output.text.links)])]
      IN  /\ Outline(p) /\ (Fine(output) => Fine(p)) /\ (Whole(output) => Whole(p))
          /\ ContentIn(p) = ContentIn(output) \o <<n>>
  BY <1>1, WordEffect DEF styles
<1> QED
  BY <1>2, <1>3 DEF Steps, styles

-----------------------------------------------------------------------------
\* The article: what the root holds when the page is over.
LEMMA FinishEffect ==
  ASSUME TransformerTypeOK, Outline(output), Len(output.builders) = 1,
         output.builders[1].kind = "Root", TransformerFinish
  PROVE  LET o == FlushText
         IN  /\ output'.built = o.built /\ output'.sourceIndexCounter = o.sourceIndexCounter
             /\ output'.text = o.text
             /\ PreorderOf(output'.built, article') = GatheredIn(o)
             /\ IndexesOf(output'.built, PreorderOf(output'.built, article')) = IndexesIn(o)
             /\ ReadIn(o) = NumbersAt(output'.built, PreorderOf(output'.built, article'))
<1> DEFINE o == FlushText
           top == Last(o.builders)
<1>1. KeepsStack(output, o)
  BY FlushKeeps DEF Outline
<1>2. Outline(o)
  BY FlushEffect
<1>3. Len(o.builders) = 1 /\ top = o.builders[1] /\ top.kind = "Root" /\ top \in Builder(1 .. Len(o.built))
  BY <1>1, <1>2, OutlineTypes DEF KeepsStack
<1>4. output' = [o EXCEPT !.builders = Front(@)] /\ article' = top.content
  BY <1>3 DEF TransformerFinish
<1> HIDE DEF o, top
<1>5. /\ output'.built = o.built /\ output'.sourceIndexCounter = o.sourceIndexCounter
      /\ output'.text = o.text
  BY <1>2, <1>4 DEF Outline, IsOutput, Output
<1>6. BuilderContent(top) = top.content
  BY <1>3, ContentIs
<1>7. Header(top) = <<>>
  BY <1>3 DEF Header
<1>8. GatheredUpTo(o, 0) = <<>> /\ IndexesUpTo(o, 0) = <<>>
  BY JoinedNone DEF GatheredUpTo, IndexesUpTo
<1>9. /\ GatheredIn(o) = <<>> \o PartOf(o.built, top)
      /\ IndexesIn(o) = <<>> \o BuilderIndexes(o.built, top)
  <2>1. Len(o.builders) - 1 = 0
    BY <1>3
  <2> QED
    BY <1>2, <1>8, <2>1, TopIsLast DEF top
<1>10. PartOf(o.built, top) \in Seq(1 .. Len(o.built)) /\ BuilderIndexes(o.built, top) \in Seq(Nat)
  BY <1>2, <1>3, PartTypes, OutlineTypes
<1>11. GatheredIn(o) = PartOf(o.built, top) /\ IndexesIn(o) = BuilderIndexes(o.built, top)
  BY <1>9, <1>10, ConcatEmptySeq
<1>12. BuilderIndexes(o.built, top) = IndexesOf(o.built, PartOf(o.built, top))
  <2>1. BuilderIndexes(o.built, top) = <<>> \o IndexesOf(o.built, PartOf(o.built, top))
    BY <1>7, BuilderIndexesAre
  <2>2. IndexesOf(o.built, PartOf(o.built, top)) \in Seq(Nat)
    BY <1>2, <1>10, IndexesType, OutlineTypes
  <2> QED
    BY <2>1, <2>2, ConcatEmptySeq
<1>13. PartOf(o.built, top) = PreorderOf(o.built, article')
  BY <1>4, <1>6 DEF PartOf
<1> QED
  BY <1>5, <1>11, <1>12, <1>13 DEF ReadIn, o

\* Lists hold items and nothing else, items stand in lists.
BuildersNest(o) ==
  \A k \in 1 .. Len(o.builders) - 1 : o.builders[k].kind = "List" <=> o.builders[k + 1].kind = "Item"

\* onStartTag: the effect on the output.
LEMMA StartEffect ==
  ASSUME IInv, Running, Outline(output), NEW e \in Elements, Start(e), OnStartTag(e)
  PROVE  Steps(output, output') /\ (FlushIsTaken => Preserves(output, output'))
<1>1. TransformerTypeOK /\ e \in ElementType
  BY ElementsAreTyped DEF IInv, TypeOK
<1>2. CASE StartIgnored(e) \/ StartOutside(e) \/ StartThrows(e)
  <2>1. output' = output
    BY <1>2 DEF StartIgnored, StartOutside, StartThrows, transformerVars
  <2> QED
    BY <2>1, ReadsPreserves DEF Steps
<1>3. CASE StartList(e) \/ StartItem(e) \/ StartTable(e)
  BY <1>1, <1>3, StartContainerEffect
<1>4. CASE StartsNoBuilder(e)
  BY <1>1, <1>4, StartOtherEffect
<1> QED
  BY <1>2, <1>3, <1>4 DEF OnStartTag, StartsNoBuilder

\* onEndTag: the effect on the output.
LEMMA EndEffect ==
  ASSUME FilterIsMonotone, IInv, Running, Outline(output), NEW e \in Elements, End(e), OnEndTag(e)
  PROVE  Steps(output, output') /\ (FlushIsTaken /\ BuildersNest(output) => Preserves(output, output'))
<1> DEFINE n == Len(output.builders)
<1>1. TransformerTypeOK /\ e \in ElementType
  BY ElementsAreTyped DEF IInv, TypeOK
<1>2. CASE EndIgnored(e) \/ EndOutside(e)
  <2>1. output' = output
    BY <1>2 DEF EndIgnored, EndOutside
  <2> QED
    BY <2>1, ReadsPreserves DEF Steps
<1>3. CASE EndThrows(e)
  BY <1>3, EndNeverThrows
<1>4. n \in Nat /\ Last(output.builders) = output.builders[n]
  BY OutlineTypes
<1>5. CASE EndItem(e)
  <2>1. Leave(e) /\ e.tag \in ContainerTags /\ BuilderKind(e.tag) = "Item"
    BY <1>5 DEF EndItem, ContainerTags, ListTags, BuilderKind
  <2>2. n > 1 /\ output.builders[n].kind = "Item"
    BY <2>1, BuilderIsOnTop DEF Leave, EndReachesBuilders
  <2>3. BuildersNest(output) => SecondIs(output, "List")
    <3>1. n - 1 \in 1 .. n - 1 /\ (n - 1) + 1 = n
      BY <1>4, <2>2
    <3> QED
      BY <2>2, <3>1 DEF BuildersNest, SecondIs
  <2> QED
    BY <1>1, <1>5, <2>2, <2>3, EndItemEffect
<1>6. CASE EndContainer(e)
  <2>1. Leave(e) /\ e.tag \in ContainerTags /\ BuilderKind(e.tag) \in {"List", "Table"}
    BY <1>6 DEF EndContainer, ContainerTags, ListTags, BuilderKind
  <2>2. n > 1 /\ output.builders[n].kind \in {"List", "Table"}
    BY <2>1, BuilderIsOnTop DEF Leave, EndReachesBuilders
  <2>3. BuildersNest(output) => ~SecondIs(output, "List")
    <3>1. n - 1 \in 1 .. n - 1 /\ (n - 1) + 1 = n
      BY <1>4, <2>2
    <3> QED
      BY <2>2, <3>1 DEF BuildersNest, SecondIs
  <2> QED
    BY <1>1, <1>4, <1>6, <2>2, <2>3, EndContainerEffect
<1>7. CASE EndQuotation(e) \/ EndAnchor(e) \/ EndPlain(e)
  BY <1>1, <1>7, EndOtherEffect
<1> QED
  BY <1>2, <1>3, <1>5, <1>6, <1>7 DEF OnEndTag

\* onText: the effect on the output.
LEMMA TextStepEffect ==
  ASSUME IInv, Outline(output), NEW kind \in TextKinds, NEW n \in Nat \ {0}, OnText(kind, n)
  PROVE  /\ Steps(output, output') /\ (Whole(output) => Whole(output'))
         /\ TextOfBody("word", n) /\ kind = "word" => ContentIn(output') = ContentIn(output) \o <<n>>
         /\ ~(TextOfBody("word", n) /\ kind = "word") => ContentIn(output') = ContentIn(output)
<1>1. TransformerTypeOK
  BY DEF IInv, TypeOK
<1>2. CASE TextIgnored \/ TextOfTitle(kind, n)
  <2>1. output' = output
    BY <1>2 DEF TextIgnored, TextOfTitle, transformerVars
  <2>2. ~TextOfBody("word", n)
    BY <1>2 DEF TextIgnored, TextOfTitle, TextOfBody
  <2> QED
    BY <2>1, <2>2 DEF Steps
<1>3. CASE TextOfBody(kind, n) /\ kind = "word"
  BY <1>1, <1>3, WordTextEffect
<1>4. CASE TextOfBody(kind, n) /\ kind # "word"
  BY <1>1, <1>4, BlankTextEffect DEF Preserves
<1> QED
  BY <1>2, <1>3, <1>4 DEF OnText

-----------------------------------------------------------------------------
(* The source indexes. *)

\* The invariant: every step keeps what was gathered in order.
OrderInv ==
  /\ IInv
  /\ stage # "returned" => Fine(output)
  /\ stage = "returned" =>
       /\ IndexesOf(output.built, PreorderOf(output.built, article)) \in Seq(Nat)
       /\ Ordered(IndexesOf(output.built, PreorderOf(output.built, article)), output.sourceIndexCounter)

\* What the invariant says is the property.
LEMMA OrderedIsOrder ==
  ASSUME NEW s \in Seq(Nat), NEW next, Ordered(s, next)
  PROVE  /\ \A i \in DOMAIN s : i > 1 => s[i - 1] < s[i]
         /\ s # <<>> => Last(s) < next
<1>1. DOMAIN s = 1 .. Len(s) /\ Len(s) \in Nat
  OBVIOUS
<1>2. ASSUME NEW i \in DOMAIN s, i > 1
      PROVE  s[i - 1] < s[i]
  <2>1. i - 1 \in DOMAIN s /\ i - 1 < i
    BY <1>1, <1>2
  <2> QED
    BY <2>1 DEF Ordered
<1>3. ASSUME s # <<>>
      PROVE  Last(s) < next
  <2>1. Last(s) = s[Len(s)]
    BY <1>3, LastFront
  <2>2. Len(s) \in DOMAIN s
    BY <1>1, <1>3
  <2> QED
    BY <2>1, <2>2 DEF Ordered
<1> QED
  BY <1>2, <1>3

\* The first state, and that of every new transform, holds nothing but the root.
LEMMA EmptyOutput ==
  ASSUME NEW o, o = [builders |-> <<RootBuilder>>, built |-> <<>>, sourceIndexCounter |-> 0, text |-> EmptyText]
  PROVE  /\ Outline(o) /\ GatheredIn(o) = <<>> /\ IndexesIn(o) = <<>>
         /\ Len(o.built) = 0 /\ ReadIn(o) = <<>> /\ ContentIn(o) = <<>>
<1>1. EmptyText \in Text /\ EmptyText.words = <<>>
  BY DEF EmptyText, Text
<1>2. RootBuilder \in Builder(1 .. 0) /\ RootBuilder.kind = "Root" /\ RootBuilder.content = <<>>
  BY DEF RootBuilder, Builder
<1>3. IsOutput(o) /\ o.builders # <<>> /\ o.built = <<>> /\ o.text.words = <<>> /\ o.builders = <<RootBuilder>>
  BY <1>1, <1>2 DEF IsOutput, Output
<1>4. Sound(o.built)
  BY <1>3 DEF Sound, BuiltBefore
<1>5. Outline(o)
  BY <1>3, <1>4 DEF Outline
<1>6. Len(o.builders) = 1 /\ Last(o.builders) = RootBuilder
  <2>1. Len(o.builders) = 1 /\ o.builders[1] = RootBuilder
    BY <1>3
  <2> QED
    BY <1>5, <2>1, OutlineTypes
<1>7. GatheredUpTo(o, 0) = <<>> /\ IndexesUpTo(o, 0) = <<>>
  BY JoinedNone DEF GatheredUpTo, IndexesUpTo
<1>8. BuilderContent(RootBuilder) = <<>> /\ Header(RootBuilder) = <<>>
  BY <1>2 DEF BuilderContent, Header
<1>9. PartOf(o.built, RootBuilder) = <<>> /\ BuilderIndexes(o.built, RootBuilder) = <<>>
  <2>1. RootBuilder \in Builder(1 .. Len(o.built)) /\ Builds(o.built)
    BY <1>2, <1>3, <1>5, OutlineTypes
  <2> QED
    BY <1>8, <2>1, PartNone
<1>10. <<>> \o <<>> = <<>>
  <2>1. <<>> \in Seq(Nat)
    OBVIOUS
  <2> QED
    BY <2>1, ConcatEmptySeq
<1>11. GatheredIn(o) = <<>> /\ IndexesIn(o) = <<>>
  <2>1. Len(o.builders) - 1 = 0
    BY <1>6
  <2> QED
    BY <1>5, <1>6, <1>7, <1>9, <1>10, <2>1, TopIsLast
<1>12. ReadIn(o) = <<>>
  BY <1>11, JoinedNone DEF ReadIn, NumbersAt
<1>13. ContentIn(o) = <<>>
  BY <1>3, <1>10, <1>12, NoNumbers DEF ContentIn
<1> QED
  BY <1>3, <1>5, <1>11, <1>12, <1>13

\* The end of transform() returns what was gathered.
LEMMA ReturnEffect ==
  ASSUME IInv, Outline(output), Return
  PROVE  /\ stage # "returned" /\ stage' = "returned"
         /\ Outline(FlushText) /\ (Fine(output) => Fine(FlushText))
         /\ FlushIsTaken => Preserves(output, FlushText)
         /\ output'.built = FlushText.built /\ output'.sourceIndexCounter = FlushText.sourceIndexCounter
         /\ output'.text = FlushText.text
         /\ PreorderOf(output'.built, article') = GatheredIn(FlushText)
         /\ IndexesOf(output'.built, PreorderOf(output'.built, article')) = IndexesIn(FlushText)
         /\ NumbersAt(output'.built, PreorderOf(output'.built, article')) = ReadIn(FlushText)
<1>1. Running /\ path = <<>> /\ stage # "returned" /\ stage' = "returned" /\ TransformerFinish
  BY DEF Return, Running
<1>2. Len(output.builders) = 1 /\ output.builders[1].kind = "Root"
  BY <1>1, RootIsOnTop
<1>3. TransformerTypeOK
  BY DEF IInv, TypeOK
<1>4. /\ Outline(FlushText) /\ (Fine(output) => Fine(FlushText))
      /\ FlushIsTaken => Preserves(output, FlushText)
  BY <1>3, FlushEffect
<1>5. LET o == FlushText
      IN  /\ output'.built = o.built /\ output'.sourceIndexCounter = o.sourceIndexCounter
          /\ output'.text = o.text
          /\ PreorderOf(output'.built, article') = GatheredIn(o)
          /\ IndexesOf(output'.built, PreorderOf(output'.built, article')) = IndexesIn(o)
          /\ ReadIn(o) = NumbersAt(output'.built, PreorderOf(output'.built, article'))
  BY <1>1, <1>2, <1>3, FinishEffect
<1> QED
  BY <1>1, <1>4, <1>5

\* Nothing happens to the output between the callbacks.
LEMMA InitOutline == Init => Fine(output) /\ stage # "returned"
<1> SUFFICES ASSUME Init
             PROVE  Fine(output) /\ stage # "returned"
  OBVIOUS
<1>1. Outline(output) /\ IndexesIn(output) = <<>> /\ stage = "html"
  BY EmptyOutput DEF Init
<1>2. Ordered(<<>>, output.sourceIndexCounter)
  BY DEF Ordered
<1> QED
  BY <1>1, <1>2 DEF Fine

\* Every callback keeps the source indexes in order.
LEMMA OrderKept ==
  ASSUME FilterIsMonotone
  PROVE  OrderInv /\ [Next]_vars => OrderInv'
<1> SUFFICES ASSUME OrderInv, [Next]_vars
             PROVE  OrderInv'
  OBVIOUS
<1>1. IInv /\ IInv'
  BY NextKeeps DEF OrderInv
<1>2. CASE StartTag
  <2>1. PICK e \in Elements : Start(e) /\ OnStartTag(e)
    BY <1>2 DEF StartTag
  <2>2. Running /\ stage # "returned" /\ stage' # "returned"
    BY <1>1, <2>1, StartExtends DEF Start, Running
  <2>3. Fine(output) /\ Outline(output)
    BY <2>2 DEF OrderInv, Fine
  <2>4. Fine(output')
    BY <1>1, <2>1, <2>2, <2>3, StartEffect DEF Steps
  <2> QED
    BY <1>1, <2>2, <2>4 DEF OrderInv, Fine
<1>3. CASE EndTag
  <2>1. PICK e \in Elements : End(e) /\ OnEndTag(e)
    BY <1>3 DEF EndTag
  <2>2. Running /\ stage # "returned" /\ stage' # "returned"
    BY <2>1 DEF End, Running
  <2>3. Fine(output) /\ Outline(output)
    BY <2>2 DEF OrderInv, Fine
  <2>4. Fine(output')
    BY <1>1, <2>1, <2>2, <2>3, EndEffect DEF Steps
  <2> QED
    BY <1>1, <2>2, <2>4 DEF OrderInv, Fine
<1>4. CASE TextOrWhitespace
  <2>1. PICK kind \in TextKinds : Deliver(kind) /\ OnText(kind, Len(received) + 1)
    BY <1>4 DEF TextOrWhitespace
  <2>2. stage # "returned" /\ stage' # "returned"
    BY <2>1 DEF Deliver, Running
  <2>3. Fine(output) /\ Outline(output)
    BY <2>2 DEF OrderInv, Fine
  <2>4. Len(received) + 1 \in Nat \ {0}
    BY <1>1 DEF IInv, TypeOK
  <2>5. Fine(output')
    BY <1>1, <2>1, <2>3, <2>4, TextStepEffect DEF Steps
  <2> QED
    BY <1>1, <2>2, <2>5 DEF OrderInv, Fine
<1>5. CASE Return
  <2>1. Fine(output) /\ Outline(output)
    BY <1>5 DEF OrderInv, Return, Running, Fine
  <2>2. /\ stage' = "returned" /\ Fine(FlushText) /\ Outline(FlushText)
        /\ output'.sourceIndexCounter = FlushText.sourceIndexCounter
        /\ IndexesOf(output'.built, PreorderOf(output'.built, article')) = IndexesIn(FlushText)
    BY <1>1, <1>5, <2>1, ReturnEffect
  <2>3. IndexesIn(FlushText) \in Seq(Nat) /\ Ordered(IndexesIn(FlushText), FlushText.sourceIndexCounter)
    BY <2>2, InTypes DEF Fine
  <2> QED
    BY <1>1, <2>2, <2>3 DEF OrderInv
<1>6. CASE TransformAgain
  <2>1. Init'
    BY <1>6, AgainIsInit
  <2>2. Init' => (Fine(output) /\ stage # "returned")'
    BY InitOutline, PTL
  <2> QED
    BY <1>1, <2>1, <2>2 DEF OrderInv
<1>7. CASE UNCHANGED vars
  <2>1. output' = output /\ stage' = stage /\ article' = article
    BY <1>7 DEF vars, transformerVars, walkVars
  <2> QED
    BY <1>1, <2>1 DEF OrderInv, Fine, Outline, IndexesIn
<1> QED
  BY <1>2, <1>3, <1>4, <1>5, <1>6, <1>7 DEF Next

\* The inductive invariant of the source indexes.
LEMMA OrderInvariance ==
  ASSUME FilterIsMonotone
  PROVE  Spec => []OrderInv
<1>1. Init => OrderInv
  BY InitIsFine, InitOutline DEF OrderInv
<1>2. OrderInv /\ [Next]_vars => OrderInv'
  BY OrderKept
<1> QED
  BY <1>1, <1>2, PTL DEF Spec

\* Read from first to last the source indexes increase.
THEOREM DocumentOrder ==
  ASSUME FilterIsMonotone
  PROVE  Spec => []SourceIndexesInDocumentOrder
<1>1. ASSUME OrderInv
      PROVE  SourceIndexesInDocumentOrder
  <2>1. SourceIndexes \in Seq(Nat) /\ Ordered(SourceIndexes, output.sourceIndexCounter)
    <3>1. CASE stage # "returned"
      BY <1>1, <3>1, InTypes DEF OrderInv, Fine, SourceIndexes
    <3>2. CASE stage = "returned"
      BY <1>1, <3>2 DEF OrderInv, SourceIndexes, Gathered
    <3> QED
      BY <3>1, <3>2
  <2> QED
    BY <2>1, OrderedIsOrder DEF SourceIndexesInDocumentOrder
<1> QED
  BY <1>1, OrderInvariance, PTL

-----------------------------------------------------------------------------
(* Well nested pages: the builders nest like their elements. *)

\* Below the body and the head the open elements nest as Nesting allows.
NestedPath == \A i \in 2 .. Len(path) - 1 : <<path[i].tag, path[i + 1].tag>> \in Nesting

\* A start tag nests its element in the last one; an end tag leaves a part of the path.
LEMMA NestedPathKept ==
  ASSUME IInv, NestedPath, [Next]_vars
  PROVE  NestedPath'
<1>1. CASE StartTag
  <2>1. PICK e \in Elements : Start(e)
    BY <1>1 DEF StartTag
  <2>2. Running
    BY <2>1 DEF Start
  <2> DEFINE n == Len(path)
  <2>3. /\ n \in Nat /\ Len(path') = n + 1 /\ path'[n + 1] = e
        /\ \A i \in 1 .. n : path'[i] = path[i]
    BY <2>1, <2>2, StartExtends
  <2>4. n >= 2 => <<path[n].tag, e.tag>> \in Nesting
    <3>1. n >= 2 => Last(path) = path[n]
      BY DEF Last
    <3> QED
      BY <2>1, <2>2, <3>1, StartPlace
  <2> HIDE DEF n
  <2>5. ASSUME NEW i \in 2 .. n
        PROVE  <<path'[i].tag, path'[i + 1].tag>> \in Nesting
    <3>1. CASE i = n
      BY <2>3, <2>4, <2>5, <3>1
    <3>2. CASE i # n
      BY <2>3, <2>5, <3>2 DEF NestedPath, n
    <3> QED
      BY <3>1, <3>2
  <2> QED
    BY <2>3, <2>5 DEF NestedPath
<1>2. CASE EndTag
  <2>1. PICK e \in Elements : End(e)
    BY <1>2 DEF EndTag
  <2>2. Running
    BY <2>1 DEF End
  <2>3. /\ Len(path) \in Nat /\ Len(path') = Len(path) - 1
        /\ \A i \in 1 .. Len(path) - 1 : path'[i] = path[i]
    BY <2>1, <2>2, EndShortens
  <2>4. ASSUME NEW i \in 2 .. Len(path') - 1
        PROVE  <<path'[i].tag, path'[i + 1].tag>> \in Nesting
    <3>1. i \in 2 .. Len(path) - 1 /\ i \in 1 .. Len(path) - 1 /\ i + 1 \in 1 .. Len(path) - 1
      BY <2>3
    <3>2. path'[i] = path[i] /\ path'[i + 1] = path[i + 1]
      BY <2>3, <3>1
    <3> QED
      BY <3>1, <3>2 DEF NestedPath
  <2> QED
    BY <2>4 DEF NestedPath
<1>3. CASE TextOrWhitespace \/ Return \/ UNCHANGED vars
  <2>1. path' = path
    BY <1>3 DEF TextOrWhitespace, Deliver, Return, vars, walkVars
  <2> QED
    BY <2>1 DEF NestedPath
<1>4. CASE TransformAgain
  <2>1. path' = <<>>
    BY <1>4 DEF TransformAgain
  <2> QED
    BY <2>1 DEF NestedPath
<1> QED
  BY <1>1, <1>2, <1>3, <1>4 DEF Next

\* The open container of every builder above the root, outermost first.
BuilderPlaces(above, f) ==
  /\ Len(output.builders) = above + 1
  /\ output.builders[1].kind = "Root"
  /\ above > 0 => isInsideBody
  /\ \A k \in 1 .. above :
       /\ f[k] \in 2 .. AcceptedDepth
       /\ output.builders[k + 1].kind = "List" <=> path[f[k]].tag \in ListTags
       /\ output.builders[k + 1].kind = "Item" <=> path[f[k]].tag = "li"
       /\ \A m \in 1 .. above : k < m => f[k] < f[m]
  /\ isInsideBody => \A p \in 2 .. AcceptedDepth :
       path[p].tag \in ContainerTags => \E k \in 1 .. above : f[k] = p

\* The builders and the containers they were pushed for.
LEMMA BuildersOf ==
  ASSUME IInv, Running
  PROVE  \E above \in Nat : \E f : BuilderPlaces(above, f)
<1> DEFINE C == OpenInBody(ContainerTags)
<1>1. BuildersMatch(output.builders, path, C) /\ IsOutput(output)
  BY MirrorIsMatch DEF IInv, TypeOK, TransformerTypeOK
<1>2. PICK above \in Nat : above = Len(output.builders) - 1 /\ Len(output.builders) = above + 1
  <2>1. Len(output.builders) \in Nat /\ output.builders # <<>> /\ Len(output.builders) # 0
    BY <1>1 DEF IsOutput, Output, BuildersMatch
  <2> QED
    BY <2>1
<1>3. PICK f : /\ Enumerates(f, above, C)
               /\ \A k \in 1 .. above : output.builders[k + 1].kind = BuilderKind(path[f[k]].tag)
  BY <1>1, <1>2 DEF BuildersMatch
<1>4. \A k \in 1 .. above : f[k] \in C
  BY <1>3, EnumerationRange
<1>5. /\ \A k, m \in 1 .. above : k < m => f[k] < f[m]
      /\ \A p \in C : \E k \in 1 .. above : f[k] = p
  BY <1>3 DEF Enumerates
<1>6. C = IF isInsideBody THEN {i \in 2 .. AcceptedDepth : path[i].tag \in ContainerTags} ELSE {}
  BY DEF OpenInBody
<1>7. ASSUME NEW tag \in ContainerTags
      PROVE  (BuilderKind(tag) = "List" <=> tag \in ListTags) /\ (BuilderKind(tag) = "Item" <=> tag = "li")
  BY DEF ContainerTags, ListTags, BuilderKind
<1> HIDE DEF C
<1>8. above > 0 => isInsideBody
  <2>1. above > 0 => 1 \in 1 .. above
    OBVIOUS
  <2> QED
    BY <1>4, <1>6, <2>1
<1>9. ASSUME NEW k \in 1 .. above
      PROVE  /\ f[k] \in 2 .. AcceptedDepth
             /\ output.builders[k + 1].kind = "List" <=> path[f[k]].tag \in ListTags
             /\ output.builders[k + 1].kind = "Item" <=> path[f[k]].tag = "li"
             /\ \A m \in 1 .. above : k < m => f[k] < f[m]
  <2>1. f[k] \in 2 .. AcceptedDepth /\ path[f[k]].tag \in ContainerTags
    BY <1>4, <1>6
  <2> QED
    BY <1>3, <1>5, <1>7, <2>1
<1>10. output.builders[1].kind = "Root"
  BY <1>1 DEF BuildersMatch
<1>11. isInsideBody => \A p \in 2 .. AcceptedDepth :
                path[p].tag \in ContainerTags => \E k \in 1 .. above : f[k] = p
  BY <1>5, <1>6
<1>12. BuilderPlaces(above, f)
  BY <1>2, <1>8, <1>9, <1>10, <1>11 DEF BuilderPlaces
<1> QED
  BY <1>12

\* In well nested pages the builders nest like their elements, and a list on top is
\* the innermost element taken in.
LEMMA NestedBuilders ==
  ASSUME IInv, Running, NestedPath, WellNested
  PROVE  /\ BuildersNest(output)
         /\ output.builders[Len(output.builders)].kind = "List" =>
              AcceptedDepth \in 2 .. Len(path) /\ path[AcceptedDepth].tag \in ListTags
<1>a. PICK above \in Nat : \E f : BuilderPlaces(above, f)
  BY BuildersOf
<1>0. PICK f : BuilderPlaces(above, f)
  BY <1>a
<1>1. /\ Len(output.builders) = above + 1
      /\ output.builders[1].kind = "Root"
      /\ above > 0 => isInsideBody
      /\ \A k \in 1 .. above :
           /\ f[k] \in 2 .. AcceptedDepth
           /\ output.builders[k + 1].kind = "List" <=> path[f[k]].tag \in ListTags
           /\ output.builders[k + 1].kind = "Item" <=> path[f[k]].tag = "li"
           /\ \A m \in 1 .. above : k < m => f[k] < f[m]
      /\ isInsideBody => \A p \in 2 .. AcceptedDepth :
           path[p].tag \in ContainerTags => \E k \in 1 .. above : f[k] = p
  BY <1>0 DEF BuilderPlaces
<1>2. AcceptedDepth \in Nat /\ AcceptedDepth <= Len(path) /\ Len(path) \in Nat
  BY DepthsOf
<1>3. ASSUME NEW i \in 2 .. Len(path) - 1
      PROVE  path[i + 1].tag = "li" <=> path[i].tag \in ListTags
  <2> DEFINE pair == <<path[i].tag, path[i + 1].tag>>
  <2>1. pair \in Nesting /\ pair[1] = path[i].tag /\ pair[2] = path[i + 1].tag
    BY <1>3 DEF NestedPath
  <2> HIDE DEF pair
  <2>2. pair[2] = "li" <=> pair[1] \in ListTags
    BY <2>1 DEF WellNested
  <2> QED
    BY <2>1, <2>2
<1>4. "li" \in ContainerTags /\ ListTags \subseteq ContainerTags /\ "li" \notin ListTags
  BY DEF ContainerTags, ListTags
\* The element after a list is an item and has the next builder.
<1>5. ASSUME NEW k \in 1 .. above, path[f[k]].tag \in ListTags, f[k] # AcceptedDepth
      PROVE  \E m \in 1 .. above : k < m /\ f[m] = f[k] + 1 /\ path[f[m]].tag = "li"
  <2>1. f[k] \in 2 .. AcceptedDepth /\ f[k] \in 2 .. Len(path) - 1 /\ f[k] + 1 \in 2 .. AcceptedDepth /\ f[k] \in Nat
    <3>1. PICK p \in 2 .. AcceptedDepth : p = f[k]
      BY <1>1
    <3>2. p # AcceptedDepth
      BY <1>5, <3>1
    <3>3. p \in 2 .. Len(path) - 1 /\ p + 1 \in 2 .. AcceptedDepth /\ p \in Nat
      BY <1>2, <3>2
    <3> QED
      BY <3>1, <3>3
  <2>2. path[f[k] + 1].tag = "li"
    BY <1>3, <1>5, <2>1
  <2>3. isInsideBody
    BY <1>1
  <2>4. PICK m \in 1 .. above : f[m] = f[k] + 1
    BY <1>1, <1>4, <2>1, <2>2, <2>3
  <2>5. k < m
    <3>1. SUFFICES ASSUME ~(k < m)
                   PROVE  FALSE
      OBVIOUS
    <3>2. m < k \/ m = k
      BY <3>1
    <3>3. f[m] < f[k] \/ f[m] = f[k]
      BY <1>1, <3>2
    <3>4. f[k] \in Nat /\ f[m] = f[k] + 1
      BY <2>1, <2>4
    <3> QED
      BY <3>3, <3>4
  <2> QED
    BY <2>2, <2>4, <2>5
\* The element before an item is a list and has the builder before.
<1>6. ASSUME NEW k \in 1 .. above, path[f[k]].tag = "li"
      PROVE  \E m \in 1 .. above : m < k /\ f[k] = f[m] + 1 /\ path[f[m]].tag \in ListTags
  <2>1. isInsideBody /\ path[2] = BodyNode /\ f[k] \in 2 .. AcceptedDepth
    BY <1>1, DepthsOf
  <2>2. f[k] # 2
    BY <1>6, <2>1, DocumentAssumption
  <2> DEFINE p == f[k] - 1
  <2>3. p \in 2 .. Len(path) - 1 /\ p \in 2 .. AcceptedDepth /\ p + 1 = f[k] /\ p \in Nat
    BY <1>2, <2>1, <2>2
  <2> HIDE DEF p
  <2>4. path[p].tag \in ListTags
    BY <1>3, <1>6, <2>3
  <2>5. PICK m \in 1 .. above : f[m] = p
    BY <1>1, <1>4, <2>1, <2>3, <2>4
  <2>6. m < k
    <3>1. SUFFICES ASSUME ~(m < k)
                   PROVE  FALSE
      OBVIOUS
    <3>2. k < m \/ m = k
      BY <3>1
    <3>3. f[k] < f[m] \/ f[m] = f[k]
      BY <1>1, <3>2
    <3> QED
      BY <2>3, <2>5, <3>3
  <2> QED
    BY <2>3, <2>4, <2>5, <2>6
\* No builder lies between the two.
<1>7. ASSUME NEW k \in 1 .. above, NEW m \in 1 .. above, k < m, f[m] = f[k] + 1
      PROVE  m = k + 1
  <2>1. SUFFICES ASSUME k + 1 < m
                 PROVE  FALSE
    BY <1>7
  <2>2. k + 1 \in 1 .. above /\ k < k + 1
    BY <2>1
  <2>3. f[k] < f[k + 1] /\ f[k + 1] < f[m] /\ f[k] \in Nat /\ f[k + 1] \in Nat
    <3>1. f[k] \in 2 .. AcceptedDepth /\ f[k + 1] \in 2 .. AcceptedDepth
      BY <1>1, <2>2
    <3> QED
      BY <1>1, <1>2, <2>1, <2>2, <3>1
  <2> QED
    BY <1>7, <2>3
<1>8. ASSUME NEW k \in 1 .. above
      PROVE  output.builders[k].kind = "List" <=> output.builders[k + 1].kind = "Item"
  <2>1. ASSUME output.builders[k].kind = "List"
        PROVE  output.builders[k + 1].kind = "Item"
    <3>1. k # 1
      BY <1>1, <2>1
    <3>2. k - 1 \in 1 .. above /\ (k - 1) + 1 = k /\ k - 1 < k
      BY <3>1
    <3>3. path[f[k - 1]].tag \in ListTags /\ f[k - 1] < f[k]
      BY <1>1, <2>1, <3>2
    <3>4. f[k - 1] # AcceptedDepth
      <4>1. f[k] \in 2 .. AcceptedDepth /\ f[k - 1] \in 2 .. AcceptedDepth
        BY <1>1, <3>2
      <4> QED
        BY <1>2, <3>3, <4>1
    <3>5. PICK m \in 1 .. above : k - 1 < m /\ f[m] = f[k - 1] + 1 /\ path[f[m]].tag = "li"
      BY <1>5, <3>2, <3>3, <3>4
    <3>6. m = k
      BY <1>7, <3>2, <3>5
    <3> QED
      BY <1>1, <3>5, <3>6
  <2>2. ASSUME output.builders[k + 1].kind = "Item"
        PROVE  output.builders[k].kind = "List"
    <3>1. path[f[k]].tag = "li"
      BY <1>1, <2>2
    <3>2. PICK m \in 1 .. above : m < k /\ f[k] = f[m] + 1 /\ path[f[m]].tag \in ListTags
      BY <1>6, <3>1
    <3>3. k = m + 1
      BY <1>7, <3>2
    <3> QED
      BY <1>1, <3>2, <3>3
  <2> QED
    BY <2>1, <2>2
<1>9. BuildersNest(output)
  <2>1. Len(output.builders) - 1 = above
    BY <1>1
  <2> QED
    BY <1>8, <2>1 DEF BuildersNest
<1>10. ASSUME output.builders[Len(output.builders)].kind = "List"
       PROVE  AcceptedDepth \in 2 .. Len(path) /\ path[AcceptedDepth].tag \in ListTags
  <2>1. above # 0
    BY <1>1, <1>10
  <2>2. above \in 1 .. above
    BY <2>1
  <2>3. f[above] \in 2 .. AcceptedDepth /\ path[f[above]].tag \in ListTags
    BY <1>1, <1>10, <2>2
  <2>4. f[above] = AcceptedDepth
    <3>1. SUFFICES ASSUME f[above] # AcceptedDepth
                   PROVE  FALSE
      OBVIOUS
    <3>2. PICK m \in 1 .. above : above < m
      BY <1>5, <2>2, <2>3, <3>1
    <3> QED
      BY <3>2
  <2> QED
    BY <1>2, <2>3, <2>4
<1> QED
  BY <1>9, <1>10

\* While a list is on top nothing but an item starts, nothing but the list ends and there is no text.
LEMMA ListOnTop ==
  ASSUME IInv, Running, NestedPath, WellNested, Outline(output), Last(output.builders).kind = "List",
         ignoredTagDepth = 0
  PROVE  /\ path # <<>> /\ Last(path).tag \in ListTags
         /\ \A e \in Elements : Start(e) => e.tag = "li"
         /\ <<Last(path).tag, TextNode>> \notin Nesting
<1>1. output.builders[Len(output.builders)].kind = "List"
  BY OutlineTypes
<1>2. AcceptedDepth \in 2 .. Len(path) /\ path[AcceptedDepth].tag \in ListTags /\ AcceptedDepth = Len(path)
      /\ Len(path) \in Nat
  BY <1>1, NestedBuilders, DepthsOf
<1>3. Last(path) = path[Len(path)]
  BY DEF Last
<1>4. ASSUME NEW tag, <<Last(path).tag, tag>> \in Nesting
      PROVE  tag = "li"
  <2> DEFINE pair == <<Last(path).tag, tag>>
  <2>1. pair \in Nesting /\ pair[1] \in ListTags /\ pair[2] = tag
    BY <1>2, <1>3, <1>4
  <2> HIDE DEF pair
  <2> QED
    BY <2>1 DEF WellNested
<1>5. ASSUME NEW e \in Elements, Start(e)
      PROVE  e.tag = "li"
  <2>1. Len(path) >= 2
    BY <1>2
  <2> QED
    BY <1>4, <1>5, <2>1, StartPlace
<1>6. TextNode # "li"
  BY DEF TextNode
<1>7. path # <<>>
  BY <1>2
<1> QED
  BY <1>2, <1>3, <1>4, <1>5, <1>6, <1>7

\* The kind of the builder on top after a callback.
LEMMA TopKind ==
  ASSUME NEW o, NEW p, Outline(o), Outline(p)
  PROVE  /\ KeepsStack(o, p) => Last(p.builders).kind = Last(o.builders).kind
         /\ \A kind : PushesBuilder(o, p, kind) => Last(p.builders).kind = kind
         /\ PopsBuilder(o, p) => Last(p.builders).kind = o.builders[Len(o.builders) - 1].kind
<1>1. /\ Len(o.builders) \in Nat \ {0} /\ Last(o.builders) = o.builders[Len(o.builders)]
      /\ Len(p.builders) \in Nat \ {0} /\ Last(p.builders) = p.builders[Len(p.builders)]
  BY OutlineTypes
<1>2. /\ KeepsStack(o, p) => Last(p.builders).kind = Last(o.builders).kind
      /\ \A kind : PushesBuilder(o, p, kind) => Last(p.builders).kind = kind
  BY <1>1 DEF KeepsStack, PushesBuilder
<1>3. ASSUME PopsBuilder(o, p)
      PROVE  Last(p.builders).kind = o.builders[Len(o.builders) - 1].kind
  <2>1. PICK n \in Nat \ {0} : n = Len(p.builders)
    BY <1>1
  <2>2. /\ n = Len(o.builders) - 1
        /\ \A k \in 1 .. Len(o.builders) - 1 : p.builders[k].kind = o.builders[k].kind
    BY <1>3, <2>1 DEF PopsBuilder
  <2>3. \A k \in 1 .. n : p.builders[k].kind = o.builders[k].kind
    BY <2>2
  <2>4. p.builders[n].kind = o.builders[n].kind
    BY <2>1, <2>3
  <2>5. Last(p.builders) = p.builders[n]
    BY <1>1, <2>1
  <2> QED
    BY <2>2, <2>4, <2>5
<1> QED
  BY <1>2, <1>3

\* The builder of a list.
LEMMA ListKinds == ASSUME NEW tag \in ListTags PROVE BuilderKind(tag) = "List"
BY DEF BuilderKind, ListTags

\* A list starts and ends without text.
LEMMA ListText ==
  ASSUME TransformerTypeOK, Outline(output), NEW e \in ElementType
  PROVE  /\ StartList(e) => ~TextHasLength(output'.text)
         /\ EndItem(e) /\ Len(output.builders) > 1 => ~TextHasLength(output'.text)
         /\ /\ EndContainer(e) /\ Len(output.builders) > 1
            /\ Last(output.builders).kind = "List" /\ e.tag \in ListTags
            => ~TextHasLength(output'.text)
<1> DEFINE o == Flushed(e.tag)
           n == Len(output.builders)
<1>1. /\ Outline(o) /\ Len(o.builders) = n /\ n \in Nat \ {0}
      /\ \A k \in 1 .. n : o.builders[k].kind = output.builders[k].kind
      /\ e.tag \in ListTags \union {"li"} => ~TextHasLength(o.text)
  BY FlushedSteps DEF BlockTags, ListTags
<1>2. Last(o.builders) = o.builders[n] /\ Last(output.builders) = output.builders[n] /\ n \in 1 .. n
  BY <1>1, OutlineTypes
<1> HIDE DEF o
<1>3. ASSUME StartList(e)
      PROVE  ~TextHasLength(output'.text)
  <2>1. e.tag \in ListTags /\ output' = PushIndexedBuilder(o, ListBuilder(o, e.tag, IdsWith(e)))
    BY <1>3 DEF StartList, o
  <2>2. output'.text = o.text
    BY <1>1, <2>1 DEF PushIndexedBuilder, PushBuilder, Outline, IsOutput, Output
  <2> QED
    BY <1>1, <2>1, <2>2
<1>4. ASSUME EndItem(e), n > 1
      PROVE  ~TextHasLength(output'.text)
  <2>1. e.tag = "li" /\ output' = FinishItem(o) /\ Last(o.builders).kind = "Item"
    BY <1>4 DEF EndItem, o
  <2>2. output'.text = o.text
    BY <1>1, <1>4, <2>1, ItemFinished
  <2> QED
    BY <1>1, <2>1, <2>2
<1>5. ASSUME EndContainer(e), n > 1, Last(output.builders).kind = "List", e.tag \in ListTags
      PROVE  ~TextHasLength(output'.text)
  <2>1. output' = FinishBuilder(o) /\ Last(o.builders).kind = "List" /\ Len(o.builders) > 1
    BY <1>1, <1>2, <1>5 DEF EndContainer, o
  <2>2. output'.text = o.text
    BY <1>1, <2>1, ContainerFinished
  <2> QED
    BY <1>1, <1>5, <2>2
<1> QED
  BY <1>3, <1>4, <1>5

\* No start tag puts a text below a list.
LEMMA StartFlush ==
  ASSUME IInv, Running, NestedPath, WellNested, Outline(output), FlushIsTaken,
         NEW e \in Elements, Start(e), OnStartTag(e), Outline(output')
  PROVE  FlushIsTaken'
<1>1. TransformerTypeOK /\ e \in ElementType /\ output.builders # <<>>
  BY ElementsAreTyped DEF IInv, TypeOK, Outline
<1>2. CASE StartIgnored(e) \/ StartOutside(e) \/ StartThrows(e)
  <2>1. output' = output
    BY <1>2 DEF StartIgnored, StartOutside, StartThrows, transformerVars
  <2> QED
    BY <2>1 DEF FlushIsTaken
<1>3. CASE StartList(e)
  BY <1>1, <1>3, ListText DEF FlushIsTaken
<1>4. CASE StartItem(e) \/ StartTable(e)
  <2>1. Last(output'.builders).kind \in {"Item", "Table"}
    BY <1>1, <1>4, StartPushes, TopKind
  <2> QED
    BY <2>1 DEF FlushIsTaken
<1>5. CASE StartsNoBuilder(e)
  <2>1. Last(output'.builders).kind = Last(output.builders).kind
    BY <1>1, <1>5, StartKeeps, TopKind
  <2>2. e.tag # "li" /\ ignoredTagDepth = 0
    BY <1>5 DEF StartsNoBuilder, StartRow, StartCell, StartQuotation, StartBreak, StartImage, StartAnchor,
                StartPlain, Enter, TakeIn, Accepted, SpecialTags, CellTags
  <2>3. Last(output.builders).kind # "List"
    BY <2>2, ListOnTop
  <2> QED
    BY <2>1, <2>3 DEF FlushIsTaken
<1> QED
  BY <1>2, <1>3, <1>4, <1>5 DEF OnStartTag, StartsNoBuilder

\* Nor does an end tag.
LEMMA EndFlush ==
  ASSUME FilterIsMonotone, IInv, Running, NestedPath, WellNested, Outline(output), FlushIsTaken,
         NEW e \in Elements, End(e), OnEndTag(e), Outline(output')
  PROVE  FlushIsTaken'
<1> DEFINE n == Len(output.builders)
<1>1. TransformerTypeOK /\ e \in ElementType /\ output.builders # <<>> /\ e = Last(path)
  BY ElementsAreTyped DEF IInv, TypeOK, Outline, End
<1>2. CASE EndIgnored(e) \/ EndOutside(e)
  <2>1. output' = output
    BY <1>2 DEF EndIgnored, EndOutside
  <2> QED
    BY <2>1 DEF FlushIsTaken
<1>3. CASE EndThrows(e)
  BY <1>3, EndNeverThrows
<1>4. n \in Nat /\ Last(output.builders) = output.builders[n]
  BY OutlineTypes
<1>5. CASE EndItem(e)
  <2>1. Leave(e) /\ e.tag \in ContainerTags
    BY <1>5 DEF EndItem, ContainerTags
  <2>2. n > 1
    BY <2>1, BuilderIsOnTop DEF Leave, EndReachesBuilders
  <2> QED
    BY <1>1, <1>5, <2>2, ListText DEF FlushIsTaken
<1>6. CASE EndContainer(e)
  <2>1. Leave(e) /\ e.tag \in ContainerTags /\ e.tag \in ListTags \union {"table"}
    BY <1>6 DEF EndContainer, ContainerTags
  <2>2. n > 1 /\ output.builders[n].kind = BuilderKind(e.tag)
    BY <2>1, BuilderIsOnTop DEF Leave, EndReachesBuilders
  <2>3. CASE e.tag \in ListTags
    <3>1. Last(output.builders).kind = "List"
      <4>1. BuilderKind(e.tag) = "List"
        BY <2>3, ListKinds
      <4>2. output.builders[n].kind = "List"
        BY <2>2, <4>1
      <4> HIDE DEF n
      <4> QED
        BY <1>4, <4>2
    <3> QED
      BY <1>1, <1>6, <2>2, <2>3, <3>1, ListText DEF FlushIsTaken
  <2>4. CASE e.tag = "table"
    <3>1. output.builders[n].kind = "Table"
      BY <2>2, <2>4 DEF BuilderKind, ListTags
    <3>2. PopsBuilder(output, output')
      BY <1>1, <1>6, <2>2, <3>1, EndPops
    <3>3. Last(output'.builders).kind = output.builders[n - 1].kind
      BY <3>2, TopKind
    <3>4. output.builders[n - 1].kind # "List"
      <4>1. n - 1 \in 1 .. n - 1 /\ (n - 1) + 1 = n
        BY <1>4, <2>2
      <4>2. BuildersNest(output)
        BY NestedBuilders
      <4> QED
        BY <3>1, <4>1, <4>2 DEF BuildersNest
    <3> QED
      BY <3>3, <3>4 DEF FlushIsTaken
  <2> QED
    BY <2>1, <2>3, <2>4
<1>7. CASE EndQuotation(e) \/ EndAnchor(e) \/ EndPlain(e)
  <2>1. Last(output'.builders).kind = Last(output.builders).kind
    BY <1>1, <1>7, EndKeeps, TopKind
  <2>2. e.tag \notin ListTags /\ Leave(e)
    BY <1>7 DEF EndQuotation, EndAnchor, EndPlain, ListTags
  <2>3. ignoredTagDepth = 0
    BY <2>2, LeftPlace DEF Leave, EndReachesBuilders
  <2>4. Last(output.builders).kind # "List"
    BY <1>1, <2>2, <2>3, ListOnTop
  <2> QED
    BY <2>1, <2>4 DEF FlushIsTaken
<1> QED
  BY <1>2, <1>3, <1>5, <1>6, <1>7 DEF OnEndTag

\* Nor does a text.
LEMMA TextFlush ==
  ASSUME IInv, NestedPath, WellNested, Outline(output), FlushIsTaken, NEW n \in Nat,
         NEW kind \in TextKinds, Deliver(kind), OnText(kind, n), Outline(output')
  PROVE  FlushIsTaken'
<1>1. Running /\ <<Last(path).tag, TextNode>> \in Nesting
  BY DEF Deliver
<1>2. CASE TextIgnored \/ TextOfTitle(kind, n)
  <2>1. output' = output
    BY <1>2 DEF TextIgnored, TextOfTitle, transformerVars
  <2> QED
    BY <2>1 DEF FlushIsTaken
<1>3. CASE TextOfBody(kind, n)
  <2>1. KeepsStack(output, output')
    BY TextKeeps DEF IInv, TypeOK
  <2>2. Last(output'.builders).kind = Last(output.builders).kind
    BY <2>1, TopKind
  <2>3. Last(output.builders).kind # "List"
    BY <1>1, <1>3, ListOnTop DEF TextOfBody
  <2> QED
    BY <2>2, <2>3 DEF FlushIsTaken
<1> QED
  BY <1>2, <1>3 DEF OnText

-----------------------------------------------------------------------------
(* The elements in their places. *)

\* The inductive invariant of the places: what was made is in the builders, each element
\* once, and the text that is flushed next finds a builder that takes it.
PlacesInv ==
  /\ IInv
  /\ NestedPath
  /\ stage # "returned" => Outline(output) /\ Whole(output) /\ FlushIsTaken
  /\ stage = "returned" => EachOnce(PreorderOf(output.built, article), Len(output.built))

\* The first state has the root alone.
LEMMA InitPlaces == Init => PlacesInv
<1> SUFFICES ASSUME Init
             PROVE  PlacesInv
  OBVIOUS
<1>1. IInv
  BY InitIsFine
<1>2. Outline(output) /\ GatheredIn(output) = <<>> /\ Len(output.built) = 0 /\ stage = "html" /\ path = <<>>
  BY EmptyOutput DEF Init
<1>3. EachOnce(<<>>, 0)
  BY DEF EachOnce, Range
<1>4. Whole(output)
  BY <1>2, <1>3 DEF Whole
<1>5. NestedPath
  BY <1>2 DEF NestedPath
<1>6. FlushIsTaken
  <2>1. output.text = EmptyText
    BY DEF Init
  <2> QED
    BY <2>1 DEF FlushIsTaken, TextHasLength, EmptyText
<1> QED
  BY <1>1, <1>2, <1>4, <1>5, <1>6 DEF PlacesInv

\* Every step keeps the elements in their places, and what they and the text being built
\* read as is changed by a word alone.
LEMMA PlacesKept ==
  ASSUME FilterIsMonotone, WellNested, PlacesInv, [Next]_vars
  PROVE  PlacesInv'
<1>1. IInv' /\ IInv /\ NestedPath /\ NestedPath'
  BY NextKeeps, NestedPathKept DEF PlacesInv
<1>2. CASE StartTag
  <2>1. PICK e \in Elements : Start(e) /\ OnStartTag(e)
    BY <1>2 DEF StartTag
  <2>2. Running /\ stage # "returned" /\ stage' # "returned"
    BY <1>1, <2>1, StartExtends DEF Start, Running
  <2>3. Outline(output) /\ Whole(output) /\ FlushIsTaken
    BY <2>2 DEF PlacesInv
  <2>4. Outline(output') /\ Whole(output')
    BY <1>1, <2>1, <2>2, <2>3, StartEffect DEF Steps, Preserves
  <2>5. FlushIsTaken'
    BY <1>1, <2>1, <2>2, <2>3, <2>4, StartFlush
  <2> QED
    BY <1>1, <2>2, <2>4, <2>5 DEF PlacesInv
<1>3. CASE EndTag
  <2>1. PICK e \in Elements : End(e) /\ OnEndTag(e)
    BY <1>3 DEF EndTag
  <2>2. Running /\ stage # "returned" /\ stage' # "returned"
    BY <2>1 DEF End, Running
  <2>3. Outline(output) /\ Whole(output) /\ FlushIsTaken
    BY <2>2 DEF PlacesInv
  <2>4. BuildersNest(output)
    BY <1>1, <2>2, NestedBuilders
  <2>5. Outline(output') /\ Whole(output')
    BY <1>1, <2>1, <2>2, <2>3, <2>4, EndEffect DEF Steps, Preserves
  <2>6. FlushIsTaken'
    BY <1>1, <2>1, <2>2, <2>3, <2>5, EndFlush
  <2> QED
    BY <1>1, <2>2, <2>5, <2>6 DEF PlacesInv
<1>4. CASE TextOrWhitespace
  <2>1. PICK kind \in TextKinds : Deliver(kind) /\ OnText(kind, Len(received) + 1)
    BY <1>4 DEF TextOrWhitespace
  <2>2. stage # "returned" /\ stage' # "returned"
    BY <2>1 DEF Deliver, Running
  <2>3. Outline(output) /\ Whole(output) /\ FlushIsTaken
    BY <2>2 DEF PlacesInv
  <2>4. Len(received) + 1 \in Nat \ {0} /\ Len(received) + 1 \in Nat
    BY <1>1 DEF IInv, TypeOK
  <2>5. Outline(output') /\ Whole(output')
    BY <1>1, <2>1, <2>3, <2>4, TextStepEffect DEF Steps
  <2>6. FlushIsTaken'
    BY <1>1, <2>1, <2>3, <2>4, <2>5, TextFlush
  <2> QED
    BY <1>1, <2>2, <2>5, <2>6 DEF PlacesInv
<1>5. CASE Return
  <2>1. Outline(output) /\ Whole(output) /\ FlushIsTaken
    BY <1>5 DEF PlacesInv, Return, Running
  <2>2. /\ stage' = "returned" /\ Whole(FlushText) /\ output'.built = FlushText.built
        /\ PreorderOf(output'.built, article') = GatheredIn(FlushText)
    BY <1>1, <1>5, <2>1, ReturnEffect DEF Preserves
  <2> QED
    BY <1>1, <2>2 DEF PlacesInv, Whole
<1>6. CASE TransformAgain
  <2>1. Init'
    BY <1>6, AgainIsInit
  <2>2. Init' => PlacesInv'
    BY InitPlaces, PTL
  <2> QED
    BY <2>1, <2>2
<1>7. CASE UNCHANGED vars
  <2>1. output' = output /\ stage' = stage /\ article' = article
    BY <1>7 DEF vars, transformerVars, walkVars
  <2> QED
    BY <1>1, <2>1 DEF PlacesInv, FlushIsTaken
<1> QED
  BY <1>2, <1>3, <1>4, <1>5, <1>6, <1>7 DEF Next

\* The invariant of the places.
LEMMA PlacesInvariance ==
  ASSUME FilterIsMonotone, WellNested
  PROVE  Spec => []PlacesInv
<1>1. PlacesInv /\ [Next]_vars => PlacesInv'
  BY PlacesKept
<1> QED
  BY <1>1, InitPlaces, PTL DEF Spec

\* No element is dropped and none is in two places.
THEOREM PlacesOfElements ==
  ASSUME FilterIsMonotone, WellNested
  PROVE  Spec => []EveryElementHasOnePlace
<1>1. ASSUME PlacesInv
      PROVE  EveryElementHasOnePlace
  <2>1. EachOnce(Gathered, Len(output.built))
    BY <1>1 DEF PlacesInv, Gathered, Whole
  <2>2. DOMAIN output.built = 1 .. Len(output.built)
    BY <1>1 DEF PlacesInv, IInv, TypeOK, TransformerTypeOK, IsOutput, Output
  <2> QED
    BY <2>1, <2>2 DEF EachOnce, EveryElementHasOnePlace
<1> QED
  BY <1>1, PlacesInvariance, PTL

-----------------------------------------------------------------------------
(* The refinement of ArticleStream. *)

\* While an accepted title is the innermost open element its flag is up.
TitleIsOpen ==
  Running /\ Len(path) >= 2 /\ path[Len(path)].tag = "title" /\ ignoredTagDepth = 0 => isInsideTitle

\* A title has no child elements.
LEMMA TitlesHoldText ==
  ASSUME IInv, NestedPath, WellNested, NEW i \in 2 .. Len(path) - 1
  PROVE  path[i].tag # "title"
<1> DEFINE pair == <<path[i].tag, path[i + 1].tag>>
<1>1. pair \in Nesting /\ pair[1] = path[i].tag /\ pair[2] = path[i + 1].tag
  BY DEF NestedPath
<1>2. path[i + 1] \in Elements
  <2>1. path \in Seq(Elements) /\ Len(path) \in Nat
    BY DEF IInv, TypeOK
  <2>2. i + 1 \in 1 .. Len(path)
    BY <2>1
  <2> QED
    BY <2>1, <2>2
<1> HIDE DEF pair
<1> QED
  BY <1>1, <1>2, DocumentAssumption DEF WellNested

\* A start tag raises the flag, and nothing lowers it while the title is open.
LEMMA TitleIsKept ==
  ASSUME IInv, IInv', NestedPath, WellNested, TitleIsOpen, [Next]_vars
  PROVE  TitleIsOpen'
<1>1. CASE StartTag
  <2>1. PICK e \in Elements : Start(e) /\ OnStartTag(e)
    BY <1>1 DEF StartTag
  <2>2. Running /\ path'[Len(path')] = e
    BY <2>1, StartExtends DEF Start
  <2>3. SUFFICES ASSUME Running', e.tag = "title", ignoredTagDepth' = 0
                 PROVE  isInsideTitle'
    BY <2>2 DEF TitleIsOpen
  <2>4. CASE StartIgnored(e)
    BY <2>3, <2>4 DEF StartIgnored, IInv, TypeOK, TransformerTypeOK
  <2>5. CASE StartOutside(e)
    BY <2>3, <2>5 DEF StartOutside, Inside
  <2>6. CASE StartThrows(e)
    BY <2>3, <2>6 DEF StartThrows, TakeIn, IInv, TypeOK, TransformerTypeOK
  <2>7. CASE Enter(e)
    BY <2>3, <2>7 DEF Enter, TakeIn, IInv, TypeOK, TransformerTypeOK
  <2> QED
    BY <2>1, <2>4, <2>5, <2>6, <2>7 DEF OnStartTag, StartList, StartItem, StartTable, StartRow, StartCell,
      StartQuotation, StartBreak, StartImage, StartAnchor, StartPlain
<1>2. CASE EndTag
  <2>1. PICK e \in Elements : End(e)
    BY <1>2 DEF EndTag
  <2>2. Running
    BY <2>1 DEF End
  <2>3. /\ Len(path) \in Nat /\ Len(path') = Len(path) - 1
        /\ \A i \in 1 .. Len(path) - 1 : path'[i] = path[i]
    BY <2>1, <2>2, EndShortens
  <2>4. Len(path') >= 2 => path'[Len(path')].tag # "title"
    <3>1. SUFFICES ASSUME Len(path') >= 2
                   PROVE  path'[Len(path')].tag # "title"
      OBVIOUS
    <3>2. Len(path) - 1 \in 2 .. Len(path) - 1 /\ Len(path) - 1 \in 1 .. Len(path) - 1
      BY <2>3, <3>1
    <3> QED
      BY <2>3, <3>2, TitlesHoldText
  <2> QED
    BY <2>4 DEF TitleIsOpen
<1>3. CASE TextOrWhitespace
  <2>1. PICK kind \in TextKinds : Deliver(kind) /\ OnText(kind, Len(received) + 1)
    BY <1>3 DEF TextOrWhitespace
  <2> QED
    BY <2>1 DEF TitleIsOpen, Deliver, OnText, TextIgnored, TextOfTitle, TextOfBody, Running, transformerVars, flags
<1>4. CASE Return
  BY <1>4 DEF Return, TitleIsOpen, Running
<1>5. CASE TransformAgain
  <2>1. Len(path') = 0
    BY <1>5 DEF TransformAgain
  <2> QED
    BY <2>1 DEF TitleIsOpen
<1>6. CASE UNCHANGED vars
  BY <1>6 DEF TitleIsOpen, Running, vars, walkVars, transformerVars, flags
<1> QED
  BY <1>1, <1>2, <1>3, <1>4, <1>5, <1>6 DEF Next

\* A text is appended exactly where the page shows it.
LEMMA VisibleIs ==
  ASSUME IInv, Running, path # <<>>, NestedPath, WellNested, TitleIsOpen
  PROVE  IsVisible(path) <=> (ignoredTagDepth = 0 /\ isInsideBody /\ ~isInsideTitle)
<1>1. /\ Len(path) \in Nat /\ ignoredTagDepth \in Nat /\ AcceptedDepth \in Nat /\ AcceptedDepth <= Len(path)
      /\ AcceptedDepth = Len(path) - ignoredTagDepth
      /\ \A i \in 1 .. AcceptedDepth : ~RejectsElement(path[i])
      /\ isInsideBody <=> (AcceptedDepth >= 2 /\ path[2] = BodyNode)
  BY DepthsOf
<1>2. /\ ignoredTagDepth > 0 => RejectsElement(path[AcceptedDepth + 1])
      /\ isInsideTitle => \E i \in 2 .. AcceptedDepth : path[i].tag = "title"
  BY DEF IInv, IgnoredDepthIsExact, FlagsMirrorPath
<1>3. DOMAIN path = 1 .. Len(path) /\ path \in Seq(Elements)
  BY DEF IInv, TypeOK
<1>4. ASSUME IsVisible(path)
      PROVE  ignoredTagDepth = 0 /\ isInsideBody /\ ~isInsideTitle
  <2>1. /\ Len(path) >= 2 /\ path[2] = BodyNode
        /\ \A i \in 1 .. Len(path) : ~RejectsElement(path[i]) /\ path[i].tag # "title"
    BY <1>3, <1>4 DEF IsVisible
  <2>2. ignoredTagDepth = 0
    <3>1. SUFFICES ASSUME ignoredTagDepth > 0
                   PROVE  FALSE
      BY <1>1
    <3>2. AcceptedDepth + 1 \in 1 .. Len(path)
      BY <1>1, <3>1
    <3> QED
      BY <1>2, <2>1, <3>1, <3>2
  <2>3. AcceptedDepth = Len(path)
    BY <1>1, <2>2
  <2>4. ~isInsideTitle
    <3>1. \A i \in 2 .. AcceptedDepth : i \in 1 .. Len(path)
      BY <1>1, <2>3
    <3> QED
      BY <1>2, <2>1, <3>1
  <2> QED
    BY <1>1, <2>1, <2>2, <2>3, <2>4
<1>5. ASSUME ignoredTagDepth = 0, isInsideBody, ~isInsideTitle
      PROVE  IsVisible(path)
  <2>1. AcceptedDepth = Len(path) /\ Len(path) >= 2 /\ path[2] = BodyNode
    BY <1>1, <1>5
  <2>2. ASSUME NEW i \in 1 .. Len(path)
        PROVE  path[i].tag # "title"
    <3>1. CASE i = 1
      <4>1. path[1].tag = "html"
        BY <2>1, DocumentAssumption DEF IInv, DocumentShape
      <4> QED
        BY <3>1, <4>1
    <3>2. CASE i \in 2 .. Len(path) - 1
      BY <3>2, TitlesHoldText
    <3>3. CASE i = Len(path)
      BY <1>5, <2>1, <3>3 DEF TitleIsOpen
    <3>4. i = 1 \/ i \in 2 .. Len(path) - 1 \/ i = Len(path)
      BY <1>1
    <3> QED
      BY <3>1, <3>2, <3>3, <3>4
  <2> QED
    BY <1>1, <1>3, <2>1, <2>2 DEF IsVisible
<1> QED
  BY <1>4, <1>5

\* A function on 1 .. n is a sequence.
LEMMA FunctionIsSequence ==
  ASSUME NEW S, NEW n \in Nat, NEW f \in [1 .. n -> S]
  PROVE  f \in Seq(S) /\ Len(f) = n
<1>1. f \in Seq(S)
  BY SeqDef, Zenon
<1> QED
  BY <1>1

\* Appending is a function on one more number.
LEMMA AppendFunction ==
  ASSUME NEW S, NEW n \in Nat, NEW f \in [1 .. n -> S], NEW x \in S,
         NEW g \in [1 .. n + 1 -> S], g[n + 1] = x, \A i \in 1 .. n : g[i] = f[i]
  PROVE  Append(f, x) = g
<1>1. f \in Seq(S) /\ Len(f) = n
  BY FunctionIsSequence
<1>3. g \in Seq(S) /\ Len(g) = n + 1
  BY FunctionIsSequence
<1>4. /\ Append(f, x) \in Seq(S) /\ Len(Append(f, x)) = n + 1
      /\ Append(f, x)[n + 1] = x /\ \A i \in 1 .. n : Append(f, x)[i] = f[i]
  BY <1>1, Appended
<1>5. \A i \in 1 .. n + 1 : Append(f, x)[i] = g[i]
  <2>1. \A i \in 1 .. n + 1 : i = n + 1 \/ (i \in 1 .. n /\ i # n + 1)
    OBVIOUS
  <2> QED
    BY <1>4, <2>1
<1> QED
  BY <1>3, <1>4, <1>5, SeqEqual

\* The kinds of the texts delivered.
LEMMA KindsAppend ==
  ASSUME NEW s \in Seq([path: Seq(Elements), kind: TextKinds]), NEW p \in Seq(Elements),
         NEW kind \in TextKinds, NEW t, t = Append(s, [path |-> p, kind |-> kind])
  PROVE  [i \in DOMAIN t |-> t[i].kind] = Append([i \in DOMAIN s |-> s[i].kind], kind)
<1>1. PICK S : S = [path: Seq(Elements), kind: TextKinds]
  OBVIOUS
<1>2. PICK x \in S : x = [path |-> p, kind |-> kind]
  BY <1>1
<1>3. PICK n \in Nat : n = Len(s)
  BY <1>1
<1>4. s \in Seq(S) /\ DOMAIN s = 1 .. n /\ \A i \in 1 .. n : s[i].kind \in TextKinds
  <2>1. s \in Seq(S)
    BY <1>1
  <2>2. \A i \in 1 .. n : s[i] \in S
    BY <1>3, <2>1
  <2>3. \A y \in S : y.kind \in TextKinds
    BY <1>1
  <2> QED
    BY <1>3, <2>1, <2>2, <2>3
<1>5. t \in Seq(S) /\ Len(t) = n + 1 /\ t[n + 1] = x /\ \A i \in 1 .. n : t[i] = s[i]
  <2>1. t = Append(s, x)
    BY <1>2
  <2> QED
    BY <1>3, <1>4, <2>1, Appended
<1>6. DOMAIN t = 1 .. n + 1
  BY <1>5
<1> DEFINE ks == [i \in 1 .. n |-> s[i].kind]
           kt == [i \in 1 .. n + 1 |-> t[i].kind]
<1>7. ks \in [1 .. n -> TextKinds]
  BY <1>4
<1>8. kt \in [1 .. n + 1 -> TextKinds] /\ kt[n + 1] = kind /\ \A i \in 1 .. n : kt[i] = ks[i]
  <2>1. \A i \in 1 .. n + 1 : i = n + 1 \/ i \in 1 .. n
    OBVIOUS
  <2>2. x.kind = kind
    BY <1>2
  <2>3. t[n + 1].kind = kind /\ \A i \in 1 .. n : t[i].kind = s[i].kind
    BY <1>5, <2>2
  <2> QED
    BY <1>4, <2>1, <2>3
<1> HIDE DEF ks, kt
<1>9. Append(ks, kind) = kt
  BY <1>7, <1>8, AppendFunction
<1>10. [i \in DOMAIN t |-> t[i].kind] = kt
  BY <1>6 DEF kt
<1>11. [i \in DOMAIN s |-> s[i].kind] = ks
  BY <1>4 DEF ks
<1> QED
  BY <1>9, <1>10, <1>11

\* The invariant under which every step is one of ArticleStream.
RefinementInv == PlacesInv /\ TitleIsOpen

\* The invariant of the refinement.
LEMMA RefinementInvariance ==
  ASSUME FilterIsMonotone, WellNested
  PROVE  Spec => []RefinementInv
<1>1. Init => TitleIsOpen
  <2>1. Init => Len(path) = 0
    BY DEF Init
  <2> QED
    BY <2>1 DEF TitleIsOpen
<1>2. PlacesInv /\ PlacesInv' /\ TitleIsOpen /\ [Next]_vars => TitleIsOpen'
  BY TitleIsKept DEF PlacesInv
<1> QED
  BY <1>1, <1>2, PlacesInvariance, PTL DEF Spec, RefinementInv

\* The kinds of the texts received.
ReceivedKinds == [i \in DOMAIN received |-> received[i].kind]

\* Content in the terms of the lemmas.
LEMMA ContentOf ==
  /\ stage # "returned" => Content = ContentIn(output)
  /\ stage = "returned" =>
       Content = NumbersAt(output.built, PreorderOf(output.built, article)) \o NumbersOf(output.text.words)
BY DEF Content, Gathered, ContentIn, ReadIn, NumbersAt

\* The same of the next state.
LEMMA ContentNext ==
  /\ stage' # "returned" => Content' = ContentIn(output')
  /\ stage' = "returned" =>
       Content' = NumbersAt(output'.built, PreorderOf(output'.built, article')) \o NumbersOf(output'.text.words)
BY DEF Content, Gathered, ContentIn, ReadIn, NumbersAt

\* A start tag opens an element.
LEMMA StartOpens ==
  ASSUME RefinementInv, WellNested, StartTag
  PROVE  \E e \in Elements : path' = Append(path, e) /\ ReceivedKinds' = ReceivedKinds /\ Content' = Content
<1>1. PICK e \in Elements : Start(e) /\ OnStartTag(e)
  BY DEF StartTag
<1>2. IInv /\ Running /\ path' = Append(path, e) /\ stage # "returned" /\ stage' # "returned" /\ received' = received
  BY <1>1, StartExtends DEF Start, Running, RefinementInv, PlacesInv
<1>3. Outline(output) /\ FlushIsTaken
  BY <1>2 DEF RefinementInv, PlacesInv
<1>4. ContentIn(output') = ContentIn(output)
  BY <1>1, <1>2, <1>3, StartEffect DEF Preserves
<1> QED
  BY <1>2, <1>4, ContentOf, ContentNext DEF ReceivedKinds

\* An end tag closes the last one.
LEMMA EndCloses ==
  ASSUME FilterIsMonotone, RefinementInv, WellNested, EndTag
  PROVE  /\ path # <<>> /\ path' = SubSeq(path, 1, Len(path) - 1)
         /\ ReceivedKinds' = ReceivedKinds /\ Content' = Content
<1>1. PICK e \in Elements : End(e) /\ OnEndTag(e)
  BY DEF EndTag
<1>2. /\ IInv /\ Running /\ NestedPath /\ path # <<>> /\ path' = Front(path)
      /\ stage # "returned" /\ stage' # "returned" /\ received' = received
  BY <1>1 DEF End, Running, RefinementInv, PlacesInv
<1>3. Outline(output) /\ FlushIsTaken /\ BuildersNest(output)
  BY <1>2, NestedBuilders DEF RefinementInv, PlacesInv
<1>4. ContentIn(output') = ContentIn(output)
  BY <1>1, <1>2, <1>3, EndEffect DEF Preserves
<1> QED
  BY <1>2, <1>4, ContentOf, ContentNext DEF ReceivedKinds, Front

\* A word is appended where it is visible, and only there; a blank text nowhere.
LEMMA TextReads ==
  ASSUME RefinementInv, WellNested, TextOrWhitespace
  PROVE  \E kind \in TextKinds :
           /\ path' = path /\ ReceivedKinds' = Append(ReceivedKinds, kind)
           /\ kind = "word" /\ IsVisible(path) => Content' = Append(Content, Len(ReceivedKinds) + 1)
           /\ kind # "word" \/ ~IsVisible(path) => Content' = Content
<1> DEFINE n == Len(received) + 1
<1>1. PICK kind \in TextKinds : Deliver(kind) /\ OnText(kind, n)
  BY DEF TextOrWhitespace
<1>2. /\ IInv /\ Running /\ NestedPath /\ TitleIsOpen /\ path # <<>> /\ path' = path
      /\ stage # "returned" /\ stage' # "returned"
      /\ received' = Append(received, [path |-> path, kind |-> kind])
  BY <1>1 DEF Deliver, Running, RefinementInv, PlacesInv
<1>3. Outline(output)
  BY <1>2 DEF RefinementInv, PlacesInv
<1>4. /\ received \in Seq([path: Seq(Elements), kind: TextKinds]) /\ path \in Seq(Elements)
      /\ n \in Nat \ {0}
  BY <1>2 DEF IInv, TypeOK
<1>5. ReceivedKinds' = Append(ReceivedKinds, kind)
  BY <1>2, <1>4, KindsAppend DEF ReceivedKinds
<1>6. Len(ReceivedKinds) + 1 = n
  <2>1. Len(received) \in Nat /\ DOMAIN received = 1 .. Len(received)
    BY <1>4
  <2>2. ReceivedKinds \in [1 .. Len(received) -> TextKinds]
    <3> DEFINE S == [path: Seq(Elements), kind: TextKinds]
    <3>1. received \in Seq(S) /\ \A y \in S : y.kind \in TextKinds
      BY <1>4
    <3> HIDE DEF S
    <3>2. \A i \in 1 .. Len(received) : received[i].kind \in TextKinds
      BY <2>1, <3>1
    <3> QED
      BY <2>1, <3>2 DEF ReceivedKinds
  <2>3. Len(ReceivedKinds) = Len(received)
    BY <2>1, <2>2, FunctionIsSequence
  <2> QED
    BY <2>3
<1>7. IsVisible(path) <=> (ignoredTagDepth = 0 /\ isInsideBody /\ ~isInsideTitle)
  BY <1>2, VisibleIs
<1> HIDE DEF n
<1>8. IsVisible(path) <=> TextOfBody(kind, n)
  BY <1>1, <1>2, <1>4, <1>7 DEF OnText, TextIgnored, TextOfTitle, TextOfBody, IInv, TypeOK, TransformerTypeOK
<1>9. TextOfBody("word", n) /\ kind = "word" <=> kind = "word" /\ IsVisible(path)
  BY <1>8
<1>10. /\ kind = "word" /\ IsVisible(path) => ContentIn(output') = ContentIn(output) \o <<n>>
       /\ kind # "word" \/ ~IsVisible(path) => ContentIn(output') = ContentIn(output)
  BY <1>1, <1>2, <1>3, <1>4, <1>9, TextStepEffect
<1>11. ContentIn(output) \o <<n>> = Append(ContentIn(output), n)
  <2>1. ContentIn(output) \in Seq(Nat)
    BY <1>3, ReadType
  <2> QED
    BY <1>4, <2>1, AppendJoins
<1>12. Content = ContentIn(output) /\ Content' = ContentIn(output')
  BY <1>2, ContentOf, ContentNext
<1> QED
  BY <1>2, <1>5, <1>6, <1>10, <1>11, <1>12

\* The return changes nothing that can be read.
LEMMA ReturnReads ==
  ASSUME RefinementInv, Return
  PROVE  path' = path /\ ReceivedKinds' = ReceivedKinds /\ Content' = Content
<1>1. IInv /\ stage # "returned" /\ path' = path /\ received' = received
  BY DEF Return, Running, RefinementInv, PlacesInv
<1>2. Outline(output) /\ FlushIsTaken
  BY <1>1 DEF RefinementInv, PlacesInv
<1>3. /\ stage' = "returned" /\ ContentIn(FlushText) = ContentIn(output) /\ output'.text = FlushText.text
      /\ NumbersAt(output'.built, PreorderOf(output'.built, article')) = ReadIn(FlushText)
  BY <1>1, <1>2, ReturnEffect DEF Preserves
<1>4. Content' = ReadIn(FlushText) \o NumbersOf(FlushText.text.words)
  BY <1>3, ContentNext
<1>5. Content = ContentIn(output)
  BY <1>1, ContentOf
<1> QED
  BY <1>1, <1>3, <1>4, <1>5 DEF ReceivedKinds, ContentIn

\* A transform starts with nothing read.
LEMMA InitReads == Init => path = <<>> /\ ReceivedKinds = <<>> /\ Content = <<>>
<1> SUFFICES ASSUME Init
             PROVE  path = <<>> /\ ReceivedKinds = <<>> /\ Content = <<>>
  OBVIOUS
<1>1. ContentIn(output) = <<>> /\ stage = "html" /\ path = <<>> /\ received = <<>>
  BY EmptyOutput DEF Init
<1>2. ReceivedKinds = <<>>
  BY <1>1 DEF ReceivedKinds
<1> QED
  BY <1>1, <1>2, ContentOf

\* Every step of the transform is a step of ArticleStream or changes nothing of it.
LEMMA StepReads ==
  ASSUME FilterIsMonotone, WellNested, RefinementInv, [Next]_vars
  PROVE  [Stream!Next]_(Stream!streamVars)
<1>1. CASE StartTag
  BY <1>1, StartOpens DEF Stream!Next, Stream!Open, ReceivedKinds
<1>2. CASE EndTag
  BY <1>2, EndCloses DEF Stream!Next, Stream!Close, ReceivedKinds
<1>3. CASE TextOrWhitespace
  <2>1. PICK kind \in TextKinds :
           /\ path' = path /\ ReceivedKinds' = Append(ReceivedKinds, kind)
           /\ kind = "word" /\ IsVisible(path) => Content' = Append(Content, Len(ReceivedKinds) + 1)
           /\ kind # "word" \/ ~IsVisible(path) => Content' = Content
    BY <1>3, TextReads
  <2>2. CASE kind = "word" /\ IsVisible(path)
    BY <2>1, <2>2 DEF Stream!Next, Stream!ShowWord, ReceivedKinds
  <2>3. CASE kind = "word" /\ ~IsVisible(path)
    BY <2>1, <2>3 DEF Stream!Next, Stream!HideWord, ReceivedKinds
  <2>4. CASE kind # "word"
    BY <2>1, <2>4 DEF Stream!Next, Stream!Blank, ReceivedKinds
  <2> QED
    BY <2>2, <2>3, <2>4
<1>4. CASE Return
  BY <1>4, ReturnReads DEF Stream!streamVars, ReceivedKinds
<1>5. CASE TransformAgain
  <2>1. Init'
    BY <1>5, AgainIsInit
  <2>2. Init' => (path = <<>> /\ ReceivedKinds = <<>> /\ Content = <<>>)'
    BY InitReads, PTL
  <2> QED
    BY <2>1, <2>2 DEF Stream!Next, Stream!Restart, ReceivedKinds
<1>6. CASE UNCHANGED vars
  BY <1>6 DEF vars, transformerVars, walkVars, Stream!streamVars, Content, Gathered, GatheredIn
<1> QED
  BY <1>1, <1>2, <1>3, <1>4, <1>5, <1>6 DEF Next

\* transform() implements ArticleStream.
THEOREM Reading ==
  ASSUME FilterIsMonotone, WellNested
  PROVE  Spec => ReadsAsThePage
<1>1. Init => Stream!Init
  BY InitReads DEF Stream!Init, ReceivedKinds
<1>2. RefinementInv /\ [Next]_vars => [Stream!Next]_(Stream!streamVars)
  BY StepReads
<1> QED
  BY <1>1, <1>2, RefinementInvariance, PTL DEF Spec, ReadsAsThePage, Stream!Spec
=============================================================================
