----------------------- MODULE ParserOperationsProofs -----------------------
(***************************************************************************)
(* What the operations of parser.c keep, up to the adoption agency: the    *)
(* links of the tree (LinksAreKept), the stack of open elements, the list  *)
(* of active formatting elements, the form and the template modes (Core).  *)
(*                                                                         *)
(* The argument.  While a handler works on a token the stack need not fit  *)
(* any insertion mode; what it never touches then is a frame: the bottom   *)
(* of the stack, the root, the head and a set of modes.  K(s, F) says that *)
(* s is right and keeps to the frame F, if no assertion has failed.        *)
(*                                                                         *)
(* The names of the lemmas say what they show: ...K that an operation of   *)
(* parser.c keeps to every frame (of some kind), ...Grows and ...Stays     *)
(* that a condition survives more nodes, ...Keeps that the links stay in   *)
(* order, ...Is and ...Facts what an operator or a condition comes to.     *)
(***************************************************************************)
EXTENDS TreeConstruction, SequenceTheorems, FiniteSetTheorems, WellFoundedInduction, TLAPS

\* A node has a parent and children that exist.
Node(nodes, n) ==
  nodes[n] \in [type : {nodes[n].type}, tag : {nodes[n].tag}, ns : {nodes[n].ns}, attrs : {nodes[n].attrs},
                text : {nodes[n].text}, parent : DOMAIN nodes \union {NoNode}, index : Int,
                children : Seq(DOMAIN nodes)]
Typed(nodes) ==
  /\ \E S : nodes \in Seq(S)
  /\ \A n \in DOMAIN nodes : Node(nodes, n)

\* The children of a node have it as their parent, and their place as their index.
ChildrenPointUp(nodes) ==
  \A p \in DOMAIN nodes : \A i \in DOMAIN nodes[p].children :
    /\ nodes[nodes[p].children[i]].parent = p
    /\ nodes[nodes[p].children[i]].index = i - 1

\* A node stands among the children of its parent, at its index.
ParentsPointDown(nodes) ==
  \A n \in DOMAIN nodes : nodes[n].parent # NoNode =>
    /\ nodes[n].index + 1 \in DOMAIN nodes[nodes[n].parent].children
    /\ nodes[nodes[n].parent].children[nodes[n].index + 1] = n

Sound(nodes) == Typed(nodes) /\ ChildrenPointUp(nodes) /\ ParentsPointDown(nodes)

\* The elements a second start tag adds attributes to (merge_attributes).
Amended == {"html", "body"}

\* What an operation may do to the nodes there are: not change what they are.
SameNames(nodes, new) ==
  \A n \in DOMAIN nodes :
    /\ n \in DOMAIN new /\ new[n].type = nodes[n].type
    /\ new[n].tag = nodes[n].tag /\ new[n].ns = nodes[n].ns
    /\ nodes[n].tag \notin Amended => new[n].attrs = nodes[n].attrs

LEMMA SameNamesStay ==
  ASSUME NEW nodes, NEW mid, NEW new, SameNames(nodes, mid), SameNames(mid, new)
  PROVE  SameNames(nodes, new)
BY DEF SameNames

-----------------------------------------------------------------------------
(* The vector of children (vector.c).                                      *)

\* An element that stands in a vector once is found at its place (gumbo_vector_index_of).
LEMMA IndexOfOnly ==
  ASSUME NEW S, NEW v \in Seq(S), NEW i \in DOMAIN v, \A j \in DOMAIN v : v[j] = v[i] => j = i
  PROVE  IndexOf(v, v[i]) = i - 1
<1>1. {j \in DOMAIN v : v[j] = v[i]} = {i}
  OBVIOUS
<1>2. i \in Nat
  OBVIOUS
<1>3. (CHOOSE k \in {i} : \A j \in {i} : k <= j) = i
  BY <1>2
<1> QED
  BY <1>1, <1>2, <1>3 DEF IndexOf

\* An element that does not stand in a vector is not found.
LEMMA IndexOfAbsent ==
  ASSUME NEW S, NEW v \in Seq(S), NEW e, \A j \in DOMAIN v : v[j] # e
  PROVE  IndexOf(v, e) = -1
<1>1. {j \in DOMAIN v : v[j] = e} = {}
  OBVIOUS
<1> QED
  BY <1>1 DEF IndexOf

\* gumbo_vector_insert_at makes place: what stood at or after the index moves up by one.
LEMMA InsertAtMakesPlace ==
  ASSUME NEW S, NEW v \in Seq(S), NEW index \in 0 .. Len(v), NEW e \in S
  PROVE  /\ InsertAt(v, index, e) \in Seq(S)
         /\ Len(InsertAt(v, index, e)) = Len(v) + 1
         /\ \A j \in 1 .. Len(v) + 1 :
              InsertAt(v, index, e)[j] = IF j <= index THEN v[j] ELSE IF j = index + 1 THEN e ELSE v[j - 1]
<1>0. Len(v) \in Nat /\ index \in Nat
  BY LenProperties
<1> DEFINE front == SubSeq(v, 1, index)
           back == SubSeq(v, index + 1, Len(v))
<1>1. /\ front \in Seq(S) /\ Len(front) = index
      /\ \A j \in 1 .. index : front[j] = v[j]
  BY <1>0, SubSeqProperties
<1>2. /\ back \in Seq(S) /\ Len(back) = Len(v) - index
      /\ \A j \in 1 .. Len(v) - index : back[j] = v[index + j]
  BY <1>0, SubSeqProperties
<1>3. /\ front \o <<e>> \in Seq(S) /\ Len(front \o <<e>>) = index + 1
      /\ \A j \in 1 .. index + 1 : (front \o <<e>>)[j] = IF j <= index THEN v[j] ELSE e
  <2>1. <<e>> \in Seq(S) /\ Len(<<e>>) = 1 /\ <<e>>[1] = e
    OBVIOUS
  <2> HIDE DEF front
  <2> QED
    BY <1>0, <1>1, <2>1, ConcatProperties
<1>4. InsertAt(v, index, e) = (front \o <<e>>) \o back
  BY DEF InsertAt
<1> HIDE DEF front, back
<1> DEFINE head == front \o <<e>>
<1>5. /\ head \o back \in Seq(S)
      /\ Len(head \o back) = Len(v) + 1
      /\ \A j \in 1 .. Len(v) + 1 :
           (head \o back)[j] = IF j <= index + 1 THEN head[j] ELSE back[j - (index + 1)]
  <2>1. head \in Seq(S) /\ Len(head) = index + 1
    BY <1>3
  <2> HIDE DEF head
  <2> QED
    BY <1>0, <2>1, <1>2, ConcatProperties
<1> HIDE DEF head
<1>6. ASSUME NEW j \in 1 .. Len(v) + 1
      PROVE  (head \o back)[j] = IF j <= index THEN v[j] ELSE IF j = index + 1 THEN e ELSE v[j - 1]
  <2>1. CASE j <= index + 1
    <3>1. (head \o back)[j] = head[j]
      BY <1>0, <2>1, <1>5
    <3>2. head[j] = IF j <= index THEN v[j] ELSE e
      BY <1>0, <2>1, <1>3 DEF head
    <3> QED
      BY <1>0, <2>1, <3>1, <3>2
  <2>2. CASE j > index + 1
    <3>1. j - (index + 1) \in 1 .. Len(v) - index /\ index + (j - (index + 1)) = j - 1
      BY <1>0, <2>2
    <3>2. (head \o back)[j] = back[j - (index + 1)]
      BY <1>0, <2>2, <1>5
    <3>3. back[j - (index + 1)] = v[j - 1]
      BY <1>0, <3>1, <1>2
    <3> QED
      BY <1>0, <2>2, <3>2, <3>3
  <2>3. j <= index + 1 \/ j > index + 1
    BY <1>0
  <2> QED
    BY <2>1, <2>2, <2>3, Zenon
<1> QED
  BY <1>0, <1>4, <1>5, <1>6 DEF head

\* gumbo_vector_remove_at closes the gap: what stood after the index moves down by one.
LEMMA RemoveAtClosesTheGap ==
  ASSUME NEW S, NEW v \in Seq(S), NEW index \in 0 .. Len(v) - 1
  PROVE  /\ RemoveAt(v, index) \in Seq(S)
         /\ Len(RemoveAt(v, index)) = Len(v) - 1
         /\ \A j \in 1 .. Len(v) - 1 :
              RemoveAt(v, index)[j] = IF j <= index THEN v[j] ELSE v[j + 1]
<1>0. Len(v) \in Nat /\ index \in Nat
  BY LenProperties
<1> DEFINE front == SubSeq(v, 1, index)
           back == SubSeq(v, index + 2, Len(v))
<1>1. /\ front \in Seq(S) /\ Len(front) = index
      /\ \A j \in 1 .. index : front[j] = v[j]
  BY <1>0, SubSeqProperties
<1>2. /\ back \in Seq(S) /\ Len(back) = Len(v) - 1 - index
      /\ \A j \in 1 .. Len(v) - 1 - index : back[j] = v[index + 1 + j]
  BY <1>0, SubSeqProperties
<1>3. RemoveAt(v, index) = front \o back
  BY DEF RemoveAt
<1> HIDE DEF front, back
<1>4. /\ front \o back \in Seq(S)
      /\ Len(front \o back) = Len(v) - 1
      /\ \A j \in 1 .. Len(v) - 1 :
           (front \o back)[j] = IF j <= index THEN front[j] ELSE back[j - index]
  BY <1>0, <1>1, <1>2, ConcatProperties
<1>5. ASSUME NEW j \in 1 .. Len(v) - 1
      PROVE  (front \o back)[j] = IF j <= index THEN v[j] ELSE v[j + 1]
  <2>1. CASE j <= index
    BY <1>0, <2>1, <1>1, <1>4
  <2>2. CASE j > index
    <3>1. j - index \in 1 .. Len(v) - 1 - index /\ index + 1 + (j - index) = j + 1
      BY <1>0, <2>2
    <3>2. (front \o back)[j] = back[j - index]
      BY <1>0, <2>2, <1>4
    <3>3. back[j - index] = v[j + 1]
      BY <1>0, <3>1, <1>2
    <3> QED
      BY <1>0, <2>2, <3>2, <3>3
  <2>3. j <= index \/ j > index
    BY <1>0
  <2> QED
    BY <2>1, <2>2, <2>3, Zenon
<1> QED
  BY <1>0, <1>3, <1>4, <1>5

-----------------------------------------------------------------------------
(* The nodes.                                                              *)

\* What Typed says of the fields the operations change.
LEMMA NodeFields ==
  ASSUME NEW nodes, Typed(nodes), NEW n \in DOMAIN nodes
  PROVE  /\ Len(nodes) \in Nat /\ DOMAIN nodes = 1 .. Len(nodes)
         /\ nodes[n].parent \in DOMAIN nodes \union {NoNode}
         /\ nodes[n].index \in Int
         /\ nodes[n].children \in Seq(DOMAIN nodes)
         /\ Len(nodes[n].children) \in Nat
         /\ DOMAIN nodes[n].children = 1 .. Len(nodes[n].children)
         /\ n \in Nat /\ n # NoNode
<1>1. Len(nodes) \in Nat /\ DOMAIN nodes = 1 .. Len(nodes)
  BY LenProperties DEF Typed
<1>2. Node(nodes, n)
  BY DEF Typed
<1>3. nodes[n].children \in Seq(DOMAIN nodes)
  BY <1>2 DEF Node
<1>4. Len(nodes[n].children) \in Nat /\ DOMAIN nodes[n].children = 1 .. Len(nodes[n].children)
  BY <1>3, LenProperties
<1> QED
  BY <1>1, <1>2, <1>3, <1>4 DEF Node, NoNode

\* A node with other links, that is else what it was.
Linked(nodes, m, parent, index, children) ==
  [type : {nodes[m].type}, tag : {nodes[m].tag}, ns : {nodes[m].ns}, attrs : {nodes[m].attrs},
   text : {nodes[m].text}, parent : {parent}, index : {index}, children : {children}]

\* The nodes get the parents P, the indexes I and the children C.
Relinks(nodes, new, P, I, C) ==
  /\ new = [m \in DOMAIN nodes |-> new[m]]
  /\ \A m \in DOMAIN nodes :
       /\ P[m] \in DOMAIN nodes \union {NoNode} /\ I[m] \in Int /\ C[m] \in Seq(DOMAIN nodes)
       /\ new[m] \in Linked(nodes, m, P[m], I[m], C[m])

\* Nodes whose links were changed are still nodes, and what they were.
LEMMA Relinked ==
  ASSUME NEW nodes, Typed(nodes), NEW new, NEW P, NEW I, NEW C, Relinks(nodes, new, P, I, C)
  PROVE  /\ Typed(new) /\ DOMAIN new = DOMAIN nodes /\ SameNames(nodes, new)
         /\ \A m \in DOMAIN nodes :
              new[m].parent = P[m] /\ new[m].index = I[m] /\ new[m].children = C[m]
<1>1. PICK k \in Nat : DOMAIN nodes = 1 .. k
  BY LenProperties DEF Typed
<1> DEFINE S == {new[m] : m \in DOMAIN nodes}
<1>2. new \in [1 .. k -> S]
  BY <1>1 DEF Relinks
<1>3. new \in Seq(S)
  BY <1>1, <1>2, SeqDef
<1>4. DOMAIN new = DOMAIN nodes
  BY DEF Relinks
<1>5. ASSUME NEW m \in DOMAIN nodes
      PROVE  /\ Node(new, m)
             /\ new[m].parent = P[m] /\ new[m].index = I[m] /\ new[m].children = C[m]
             /\ new[m].type = nodes[m].type /\ new[m].tag = nodes[m].tag /\ new[m].ns = nodes[m].ns
             /\ new[m].attrs = nodes[m].attrs
  <2>1. /\ P[m] \in DOMAIN nodes \union {NoNode} /\ I[m] \in Int /\ C[m] \in Seq(DOMAIN nodes)
        /\ new[m] \in Linked(nodes, m, P[m], I[m], C[m])
    BY DEF Relinks
  <2> QED
    BY <1>4, <2>1 DEF Node, Linked
<1> QED
  BY <1>3, <1>4, <1>5 DEF Typed, SameNames

\* The fields of a node, as the set of one record (for Relinked).
LEMMA StaysLinked ==
  ASSUME NEW nodes, Typed(nodes), NEW m \in DOMAIN nodes
  PROVE  nodes[m] \in Linked(nodes, m, nodes[m].parent, nodes[m].index, nodes[m].children)
<1>1. Node(nodes, m)
  BY DEF Typed
<1> QED
  BY <1>1 DEF Node, Linked

\* append_node and insert_node up to the renumbering, and remove_from_parent: a node gets a place,
\* and a node gets children.
Moves(nodes, p, n, parent, index, children, new) ==
  \/ new = WithChildren(Adopted(nodes, parent, n, index), p, children)
  \/ new = Adopted(WithChildren(nodes, p, children), parent, n, index)

HaveMoved(nodes, p, n, parent, index, children, new) ==
  /\ Typed(new) /\ DOMAIN new = DOMAIN nodes /\ SameNames(nodes, new)
  /\ \A m \in DOMAIN nodes :
       /\ new[m].parent = IF m = n THEN parent ELSE nodes[m].parent
       /\ new[m].index = IF m = n THEN index ELSE nodes[m].index
       /\ new[m].children = IF m = p THEN children ELSE nodes[m].children

LEMMA AdoptedLinks ==
  ASSUME NEW nodes, Typed(nodes), NEW p \in DOMAIN nodes, NEW n \in DOMAIN nodes,
         NEW parent \in DOMAIN nodes \union {NoNode}, NEW index \in Int, NEW children \in Seq(DOMAIN nodes),
         NEW new, Moves(nodes, p, n, parent, index, children, new)
  PROVE  HaveMoved(nodes, p, n, parent, index, children, new)
<1> DEFINE P == [m \in DOMAIN nodes |-> IF m = n THEN parent ELSE nodes[m].parent]
           I == [m \in DOMAIN nodes |-> IF m = n THEN index ELSE nodes[m].index]
           C == [m \in DOMAIN nodes |-> IF m = p THEN children ELSE nodes[m].children]
<1>1. new = [m \in DOMAIN nodes |-> new[m]]
  <2>1. PICK S : nodes \in Seq(S)
    BY DEF Typed
  <2> QED
    BY <2>1 DEF Moves, WithChildren, Adopted
<1>2. ASSUME NEW m \in DOMAIN nodes
      PROVE  /\ P[m] \in DOMAIN nodes \union {NoNode} /\ I[m] \in Int /\ C[m] \in Seq(DOMAIN nodes)
             /\ new[m] \in Linked(nodes, m, P[m], I[m], C[m])
  <2>1. Node(nodes, m)
    BY DEF Typed
  <2>2. P[m] \in DOMAIN nodes \union {NoNode} /\ I[m] \in Int /\ C[m] \in Seq(DOMAIN nodes)
    BY <2>1 DEF Node
  <2>3. CASE m # n /\ m # p
    <3>1. new[m] = nodes[m]
      BY <2>3 DEF Moves, WithChildren, Adopted
    <3> QED
      BY <2>2, <2>3, <3>1, StaysLinked
  <2>4. CASE m = n /\ m # p
    <3>1. new[m] = [nodes[m] EXCEPT !.parent = parent, !.index = index]
      BY <2>4 DEF Moves, WithChildren, Adopted
    <3> QED
      BY <2>1, <2>2, <2>4, <3>1 DEF Node, Linked
  <2>5. CASE m # n /\ m = p
    <3>1. new[m] = [nodes[m] EXCEPT !.children = children]
      BY <2>5 DEF Moves, WithChildren, Adopted
    <3> QED
      BY <2>1, <2>2, <2>5, <3>1 DEF Node, Linked
  <2>6. CASE m = n /\ m = p
    <3>1. \/ new[m] = [[nodes[m] EXCEPT !.parent = parent, !.index = index] EXCEPT !.children = children]
          \/ new[m] = [[nodes[m] EXCEPT !.children = children] EXCEPT !.parent = parent, !.index = index]
      BY <2>6 DEF Moves, WithChildren, Adopted
    <3>2. nodes[m] \in Linked(nodes, m, nodes[m].parent, nodes[m].index, nodes[m].children)
      BY StaysLinked
    <3>3. [[nodes[m] EXCEPT !.parent = parent, !.index = index] EXCEPT !.children = children]
             \in Linked(nodes, m, parent, index, children)
      BY <3>2 DEF Linked
    <3>4. [[nodes[m] EXCEPT !.children = children] EXCEPT !.parent = parent, !.index = index]
             \in Linked(nodes, m, parent, index, children)
      BY <3>2 DEF Linked
    <3> QED
      BY <2>2, <2>6, <3>1, <3>3, <3>4
  <2> QED
    BY <2>2, <2>3, <2>4, <2>5, <2>6
<1> HIDE DEF P, I, C
<1>3. /\ Typed(new) /\ DOMAIN new = DOMAIN nodes /\ SameNames(nodes, new)
      /\ \A m \in DOMAIN nodes :
           new[m].parent = P[m] /\ new[m].index = I[m] /\ new[m].children = C[m]
  <2>1. Relinks(nodes, new, P, I, C)
    BY <1>1, <1>2 DEF Relinks
  <2> QED
    BY <2>1, Relinked
<1> QED
  BY <1>3 DEF P, I, C, HaveMoved

\* An operation that changes the children of one node keeps the links if it leaves these
\* children with the right place, and lets no other node point to it or from it.
LEMMA OneListChanged ==
  ASSUME NEW nodes, Sound(nodes), NEW new, Typed(new), DOMAIN new = DOMAIN nodes, NEW p \in DOMAIN nodes,
         \A m \in DOMAIN nodes \ {p} : new[m].children = nodes[m].children,
         \A i \in DOMAIN new[p].children :
           LET c == new[p].children[i]
           IN  /\ new[c].parent = p /\ new[c].index = i - 1
               /\ nodes[c].parent \in {NoNode, p},
         \A m \in DOMAIN nodes : (\A i \in DOMAIN new[p].children : new[p].children[i] # m) =>
           \/ /\ nodes[m].parent # p
              /\ new[m].parent = nodes[m].parent /\ new[m].index = nodes[m].index
           \/ nodes[m].parent \in {NoNode, p} /\ new[m].parent = NoNode
  PROVE  Sound(new)
<1>1. \A m \in DOMAIN nodes : m # NoNode
  BY NodeFields DEF Sound
<1>2. ChildrenPointUp(new)
  <2> SUFFICES ASSUME NEW q \in DOMAIN nodes, NEW i \in DOMAIN new[q].children
               PROVE  new[new[q].children[i]].parent = q /\ new[new[q].children[i]].index = i - 1
    BY DEF ChildrenPointUp
  <2>1. CASE q = p
    BY <2>1
  <2>2. CASE q # p
    <3> DEFINE c == nodes[q].children[i]
    <3>1. new[q].children[i] = c /\ i \in DOMAIN nodes[q].children
      BY <2>2
    <3>2. c \in DOMAIN nodes
      BY <3>1, NodeFields DEF Sound
    <3>3. nodes[c].parent = q /\ nodes[c].index = i - 1
      BY <3>1 DEF Sound, ChildrenPointUp
    <3>4. \A j \in DOMAIN new[p].children : new[p].children[j] # c
      BY <1>1, <2>2, <3>3
    <3>5. new[c].parent = nodes[c].parent /\ new[c].index = nodes[c].index
      BY <1>1, <2>2, <3>2, <3>3, <3>4
    <3> QED
      BY <3>1, <3>3, <3>5
  <2> QED
    BY <2>1, <2>2
<1>3. ParentsPointDown(new)
  <2> SUFFICES ASSUME NEW m \in DOMAIN nodes, new[m].parent # NoNode
               PROVE  /\ new[m].index + 1 \in DOMAIN new[new[m].parent].children
                      /\ new[new[m].parent].children[new[m].index + 1] = m
    BY DEF ParentsPointDown
  <2>1. CASE \E i \in DOMAIN new[p].children : new[p].children[i] = m
    <3>1. PICK i \in DOMAIN new[p].children : new[p].children[i] = m
      BY <2>1
    <3>2. i \in Nat
      BY NodeFields DEF Sound
    <3> QED
      BY <3>1, <3>2
  <2>2. CASE \A i \in DOMAIN new[p].children : new[p].children[i] # m
    <3>1. /\ nodes[m].parent # p /\ new[m].parent = nodes[m].parent /\ new[m].index = nodes[m].index
      BY <2>2
    <3>2. nodes[m].parent \in DOMAIN nodes
      BY <3>1, NodeFields DEF Sound
    <3>3. new[nodes[m].parent].children = nodes[nodes[m].parent].children
      BY <3>1, <3>2
    <3> QED
      BY <3>1, <3>3 DEF Sound, ParentsPointDown
  <2> QED
    BY <2>1, <2>2
<1> QED
  BY <1>2, <1>3 DEF Sound

\* The children of a node are its own, and no two of them are the same.
LEMMA OwnChildren ==
  ASSUME NEW nodes, Sound(nodes), NEW p \in DOMAIN nodes
  PROVE  /\ \A i, j \in DOMAIN nodes[p].children : nodes[p].children[i] = nodes[p].children[j] => i = j
         /\ \A i \in DOMAIN nodes[p].children :
              /\ nodes[p].children[i] \in DOMAIN nodes
              /\ nodes[nodes[p].children[i]].parent = p /\ nodes[nodes[p].children[i]].index = i - 1
<1>1. /\ nodes[p].children \in Seq(DOMAIN nodes) /\ p # NoNode
      /\ DOMAIN nodes[p].children = 1 .. Len(nodes[p].children) /\ Len(nodes[p].children) \in Nat
  BY NodeFields DEF Sound
<1>2. ASSUME NEW i \in DOMAIN nodes[p].children
      PROVE  /\ nodes[p].children[i] \in DOMAIN nodes
             /\ nodes[nodes[p].children[i]].parent = p /\ nodes[nodes[p].children[i]].index = i - 1
  <2>1. nodes[p].children[i] \in DOMAIN nodes
    BY <1>1
  <2>2. nodes[nodes[p].children[i]].parent = p /\ nodes[nodes[p].children[i]].index = i - 1
    BY DEF Sound, ChildrenPointUp
  <2> QED
    BY <2>1, <2>2
<1>3. ASSUME NEW i \in DOMAIN nodes[p].children, NEW j \in DOMAIN nodes[p].children,
             nodes[p].children[i] = nodes[p].children[j]
      PROVE  i = j
  <2>1. i - 1 = j - 1
    BY <1>2, <1>3
  <2> QED
    BY <1>1, <2>1
<1> QED
  BY <1>2, <1>3

\* A node stands among the children of its parent.
LEMMA OnlyChildren ==
  ASSUME NEW nodes, Sound(nodes), NEW p \in DOMAIN nodes, NEW m \in DOMAIN nodes,
         nodes[m].parent = p
  PROVE  \E i \in DOMAIN nodes[p].children : nodes[p].children[i] = m
<1>1. p # NoNode
  BY NodeFields DEF Sound
<1> QED
  BY <1>1 DEF Sound, ParentsPointDown

\* Appending a node that has no parent keeps the links (append_node and its assertions).
LEMMA AppendNodeKeeps ==
  ASSUME NEW nodes, Sound(nodes), NEW parent \in DOMAIN nodes, NEW n \in DOMAIN nodes,
         nodes[n].parent = NoNode
  PROVE  LET new == AppendNode(nodes, parent, n)
         IN  Sound(new) /\ DOMAIN new = DOMAIN nodes /\ SameNames(nodes, new)
<1> DEFINE new == AppendNode(nodes, parent, n)
           old == nodes[parent].children
           children == Append(old, n)
<1>1. /\ old \in Seq(DOMAIN nodes) /\ Len(old) \in Int
      /\ DOMAIN old = 1 .. Len(old)
  BY NodeFields DEF Sound
<1>2. /\ children \in Seq(DOMAIN nodes) /\ DOMAIN children = 1 .. Len(old) + 1
      /\ \A i \in 1 .. Len(old) : children[i] = old[i]
      /\ children[Len(old) + 1] = n
  <2> HIDE DEF old
  <2> QED
    BY <1>1
<1>3. new = WithChildren(Adopted(nodes, parent, n, Len(old)), parent, children)
  BY DEF AppendNode, Add
<1> HIDE DEF new, old, children
<1>4. /\ Typed(new) /\ DOMAIN new = DOMAIN nodes /\ SameNames(nodes, new)
      /\ \A m \in DOMAIN nodes :
           /\ new[m].parent = IF m = n THEN parent ELSE nodes[m].parent
           /\ new[m].index = IF m = n THEN Len(old) ELSE nodes[m].index
           /\ new[m].children = IF m = parent THEN children ELSE nodes[m].children
  <2>1. Moves(nodes, parent, n, parent, Len(old), children, new)
    BY <1>3 DEF Moves
  <2>2. Typed(nodes) /\ parent \in DOMAIN nodes \union {NoNode} /\ Len(old) \in Int /\ children \in Seq(DOMAIN nodes)
    BY <1>1, <1>2 DEF Sound
  <2>3. HaveMoved(nodes, parent, n, parent, Len(old), children, new)
    BY <2>1, <2>2, AdoptedLinks
  <2> QED
    BY <2>3 DEF HaveMoved
<1>5. ASSUME NEW i \in DOMAIN new[parent].children
      PROVE  LET c == new[parent].children[i]
             IN  /\ new[c].parent = parent /\ new[c].index = i - 1
                 /\ nodes[c].parent \in {NoNode, parent}
  <2>1. CASE i = Len(old) + 1
    BY <1>1, <1>2, <1>4, <2>1
  <2>2. CASE i # Len(old) + 1
    <3>1. i \in DOMAIN old /\ new[parent].children[i] = old[i]
      BY <1>1, <1>2, <1>4, <2>2
    <3>2. /\ old[i] \in DOMAIN nodes
          /\ nodes[old[i]].parent = parent /\ nodes[old[i]].index = i - 1
      BY <3>1, OwnChildren DEF old
    <3>3. old[i] # n
      BY <3>2, NodeFields DEF Sound
    <3> QED
      BY <1>4, <3>1, <3>2, <3>3
  <2> QED
    BY <2>1, <2>2
<1>6. ASSUME NEW m \in DOMAIN nodes, \A i \in DOMAIN new[parent].children : new[parent].children[i] # m
      PROVE  /\ nodes[m].parent # parent
             /\ new[m].parent = nodes[m].parent /\ new[m].index = nodes[m].index
  <2>1. m # n
    BY <1>1, <1>2, <1>4, <1>6
  <2>2. \A i \in DOMAIN old : old[i] # m
    BY <1>1, <1>2, <1>4, <1>6
  <2> QED
    BY <1>4, <2>1, <2>2, OnlyChildren DEF old
<1> QED
  BY <1>4, <1>5, <1>6, OneListChanged DEF new

\* A function on the nodes is the sequence Changed makes of it.
LEMMA ChangedIsAll ==
  ASSUME NEW k \in Nat, NEW f, f = [m \in 1 .. k |-> f[m]]
  PROVE  SubSeq(f, 1, k) = f
<1> DEFINE S == {f[m] : m \in 1 .. k}
<1>1. f \in [1 .. k -> S]
  OBVIOUS
<1>2. f \in Seq(S)
  BY <1>1, SeqDef
<1>3. Len(f) = k
  BY <1>1, <1>2, LenProperties
<1> QED
  BY <1>2, <1>3, SubSeqFull

\* Renumbering gives the children at and after a place their place as index (insert_node,
\* remove_from_parent).
LEMMA RenumberedLinks ==
  ASSUME NEW nodes, Typed(nodes), NEW parent \in DOMAIN nodes, NEW first \in Nat,
         \A i, j \in DOMAIN nodes[parent].children : nodes[parent].children[i] = nodes[parent].children[j] => i = j
  PROVE  LET new == Renumbered(nodes, parent, first)
             children == nodes[parent].children
         IN  /\ Typed(new) /\ DOMAIN new = DOMAIN nodes /\ SameNames(nodes, new)
             /\ \A m \in DOMAIN nodes : new[m].parent = nodes[m].parent /\ new[m].children = nodes[m].children
             /\ \A i \in DOMAIN children :
                  new[children[i]].index = IF i - 1 >= first THEN i - 1 ELSE nodes[children[i]].index
             /\ \A m \in DOMAIN nodes :
                  (\A i \in DOMAIN children : children[i] # m) => new[m].index = nodes[m].index
<1> DEFINE new == Renumbered(nodes, parent, first)
           children == nodes[parent].children
           place(m) == IndexOf(children, m)
           changed == [m \in 1 .. Len(nodes) |->
                         IF place(m) >= first THEN [nodes[m] EXCEPT !.index = place(m)] ELSE nodes[m]]
<1>1. /\ children \in Seq(DOMAIN nodes) /\ Len(nodes) \in Nat /\ DOMAIN nodes = 1 .. Len(nodes)
      /\ DOMAIN children = 1 .. Len(children) /\ Len(children) \in Nat
  BY NodeFields
<1>2. new = SubSeq(changed, 1, Len(nodes))
  BY DEF Renumbered, Changed
<1>3. new = changed
  <2>1. changed = [m \in 1 .. Len(nodes) |-> changed[m]]
    OBVIOUS
  <2> HIDE DEF changed
  <2> QED
    BY <1>1, <1>2, <2>1, ChangedIsAll
<1>4. \A i \in DOMAIN children : place(children[i]) = i - 1
  <2> HIDE DEF children
  <2> SUFFICES ASSUME NEW i \in DOMAIN children PROVE IndexOf(children, children[i]) = i - 1
    OBVIOUS
  <2>1. \A j \in DOMAIN children : children[j] = children[i] => j = i
    BY DEF children
  <2> QED
    BY <1>1, <2>1, IndexOfOnly
<1>5. \A m \in DOMAIN nodes : (\A i \in DOMAIN children : children[i] # m) => place(m) = -1
  <2> HIDE DEF children
  <2> QED
    BY <1>1, IndexOfAbsent
<1>6. new = [m \in DOMAIN nodes |-> new[m]] /\ DOMAIN new = DOMAIN nodes
  BY <1>1, <1>3
<1>7. ASSUME NEW m \in DOMAIN nodes
      PROVE  new[m] = IF place(m) >= first THEN [nodes[m] EXCEPT !.index = place(m)] ELSE nodes[m]
  BY <1>1, <1>3
<1> HIDE DEF new, changed, children, place
<1>8. ASSUME NEW m \in DOMAIN nodes
      PROVE  /\ place(m) \in Int
             /\ (\E i \in DOMAIN children : children[i] = m) \/ ~ (place(m) >= first)
  BY <1>1, <1>4, <1>5
<1> DEFINE P == [m \in DOMAIN nodes |-> nodes[m].parent]
           I == [m \in DOMAIN nodes |-> IF place(m) >= first THEN place(m) ELSE nodes[m].index]
           C == [m \in DOMAIN nodes |-> nodes[m].children]
<1>9. ASSUME NEW m \in DOMAIN nodes
      PROVE  /\ P[m] \in DOMAIN nodes \union {NoNode} /\ I[m] \in Int /\ C[m] \in Seq(DOMAIN nodes)
             /\ new[m] \in Linked(nodes, m, P[m], I[m], C[m])
  <2>1. P[m] \in DOMAIN nodes \union {NoNode} /\ I[m] \in Int /\ C[m] \in Seq(DOMAIN nodes)
    BY <1>8, NodeFields
  <2>2. nodes[m] \in Linked(nodes, m, nodes[m].parent, nodes[m].index, nodes[m].children)
    BY StaysLinked
  <2>3. CASE place(m) >= first
    <3>1. new[m] = [nodes[m] EXCEPT !.index = place(m)]
      BY <1>7, <2>3
    <3> QED
      BY <2>1, <2>2, <2>3, <3>1 DEF Linked
  <2>4. CASE ~ (place(m) >= first)
    BY <1>7, <2>1, <2>2, <2>4
  <2> QED
    BY <2>3, <2>4
<1> HIDE DEF P, I, C
<1>10. /\ Typed(new) /\ DOMAIN new = DOMAIN nodes /\ SameNames(nodes, new)
       /\ \A m \in DOMAIN nodes :
            new[m].parent = P[m] /\ new[m].index = I[m] /\ new[m].children = C[m]
  <2>1. Relinks(nodes, new, P, I, C)
    BY <1>6, <1>9 DEF Relinks
  <2> QED
    BY <2>1, Relinked
<1>11. ASSUME NEW i \in DOMAIN children
       PROVE  new[children[i]].index = IF i - 1 >= first THEN i - 1 ELSE nodes[children[i]].index
  <2>1. children[i] \in DOMAIN nodes
    BY <1>1
  <2> QED
    BY <1>4, <1>10, <2>1 DEF I
<1>12. ASSUME NEW m \in DOMAIN nodes, \A i \in DOMAIN children : children[i] # m
       PROVE  new[m].index = nodes[m].index
  BY <1>8, <1>10, <1>12 DEF I
<1> QED
  BY <1>10, <1>11, <1>12 DEF new, children, P, C

\* Inserting a node that has no parent before a child keeps the links: the siblings behind it
\* are renumbered (insert_node).
LEMMA InsertNodeKeeps ==
  ASSUME NEW nodes, Sound(nodes), NEW parent \in DOMAIN nodes, NEW n \in DOMAIN nodes,
         nodes[n].parent = NoNode, NEW index \in 0 .. Len(nodes[parent].children) - 1
  PROVE  LET new == InsertNode(nodes, n, [target |-> parent, index |-> index])
         IN  Sound(new) /\ DOMAIN new = DOMAIN nodes /\ SameNames(nodes, new)
<1> DEFINE new == InsertNode(nodes, n, [target |-> parent, index |-> index])
           old == nodes[parent].children
           children == InsertAt(old, index, n)
           mid == WithChildren(Adopted(nodes, parent, n, index), parent, children)
<1>1. /\ old \in Seq(DOMAIN nodes) /\ Len(old) \in Nat /\ index \in Nat /\ index < Len(old)
      /\ DOMAIN old = 1 .. Len(old)
  BY NodeFields DEF Sound
<1>2. /\ children \in Seq(DOMAIN nodes) /\ DOMAIN children = 1 .. Len(old) + 1
      /\ \A i \in 1 .. Len(old) + 1 :
           children[i] = IF i <= index THEN old[i] ELSE IF i = index + 1 THEN n ELSE old[i - 1]
  <2>1. index \in 0 .. Len(old)
    BY <1>1
  <2> HIDE DEF old
  <2>2. /\ children \in Seq(DOMAIN nodes) /\ Len(children) = Len(old) + 1
        /\ \A j \in 1 .. Len(old) + 1 :
             children[j] = IF j <= index THEN old[j] ELSE IF j = index + 1 THEN n ELSE old[j - 1]
    <3> DEFINE D == DOMAIN nodes
    <3>1. old \in Seq(D) /\ n \in D
      BY <1>1
    <3> HIDE DEF D
    <3>2. /\ children \in Seq(D) /\ Len(children) = Len(old) + 1
          /\ \A j \in 1 .. Len(old) + 1 :
               children[j] = IF j <= index THEN old[j] ELSE IF j = index + 1 THEN n ELSE old[j - 1]
      BY <2>1, <3>1, InsertAtMakesPlace
    <3> QED
      BY <3>2 DEF D
  <2> HIDE DEF children
  <2>3. DOMAIN children = 1 .. Len(old) + 1
    BY <2>2, LenProperties
  <2> QED
    BY <2>2, <2>3
<1>3. new = Renumbered(mid, parent, index + 1)
  <2>1. index # -1
    BY <1>1
  <2> QED
    BY <2>1 DEF InsertNode
<1> HIDE DEF new, children, mid
<1>4. /\ Typed(mid) /\ DOMAIN mid = DOMAIN nodes /\ SameNames(nodes, mid)
      /\ \A m \in DOMAIN nodes :
           /\ mid[m].parent = IF m = n THEN parent ELSE nodes[m].parent
           /\ mid[m].index = IF m = n THEN index ELSE nodes[m].index
           /\ mid[m].children = IF m = parent THEN children ELSE nodes[m].children
  <2>1. Moves(nodes, parent, n, parent, index, children, mid)
    BY DEF Moves, mid
  <2>2. Typed(nodes) /\ parent \in DOMAIN nodes \union {NoNode} /\ index \in Int /\ children \in Seq(DOMAIN nodes)
    BY <1>1, <1>2 DEF Sound
  <2>3. HaveMoved(nodes, parent, n, parent, index, children, mid)
    BY <2>1, <2>2, AdoptedLinks
  <2> QED
    BY <2>3 DEF HaveMoved
<1> DEFINE before(i) == IF i <= index THEN i ELSE i - 1
<1>5. ASSUME NEW i \in DOMAIN children, i # index + 1
      PROVE  /\ before(i) \in DOMAIN old /\ children[i] = old[before(i)]
             /\ children[i] \in DOMAIN nodes /\ children[i] # n
             /\ nodes[children[i]].parent = parent /\ nodes[children[i]].index = before(i) - 1
  <2>1. before(i) \in DOMAIN old /\ children[i] = old[before(i)]
    BY <1>1, <1>2, <1>5
  <2>2. /\ children[i] \in DOMAIN nodes
        /\ nodes[children[i]].parent = parent /\ nodes[children[i]].index = before(i) - 1
    BY <2>1, OwnChildren
  <2>3. children[i] # n
    BY <2>2, NodeFields DEF Sound
  <2> QED
    BY <2>1, <2>2, <2>3
<1> HIDE DEF old
<1>6. index + 1 \in DOMAIN children /\ children[index + 1] = n
  BY <1>1, <1>2
<1>7. \A i, j \in DOMAIN mid[parent].children : mid[parent].children[i] = mid[parent].children[j] => i = j
  <2> SUFFICES ASSUME NEW i \in DOMAIN children, NEW j \in DOMAIN children, children[i] = children[j]
               PROVE  i = j
    BY <1>4
  <2>1. CASE i # index + 1 /\ j # index + 1
    <3>1. before(i) = before(j)
      BY <1>1, <1>5, <2>1
    <3> QED
      BY <1>1, <1>2, <2>1, <3>1
  <2>2. CASE i = index + 1 \/ j = index + 1
    BY <1>5, <1>6, <2>2
  <2> QED
    BY <2>1, <2>2
<1>8. /\ Typed(new) /\ DOMAIN new = DOMAIN nodes /\ SameNames(nodes, new)
      /\ \A m \in DOMAIN nodes : new[m].parent = mid[m].parent /\ new[m].children = mid[m].children
      /\ \A i \in DOMAIN children :
           new[children[i]].index = IF i - 1 >= index + 1 THEN i - 1 ELSE mid[children[i]].index
      /\ \A m \in DOMAIN nodes :
           (\A i \in DOMAIN children : children[i] # m) => new[m].index = mid[m].index
  <2> DEFINE first == index + 1
  <2>1. first \in Nat /\ mid[parent].children = children /\ new = Renumbered(mid, parent, first)
    BY <1>1, <1>3, <1>4
  <2> HIDE DEF first
  <2>2. /\ Typed(new) /\ DOMAIN new = DOMAIN mid /\ SameNames(mid, new)
        /\ \A m \in DOMAIN mid : new[m].parent = mid[m].parent /\ new[m].children = mid[m].children
        /\ \A i \in DOMAIN children :
             new[children[i]].index = IF i - 1 >= first THEN i - 1 ELSE mid[children[i]].index
        /\ \A m \in DOMAIN mid :
             (\A i \in DOMAIN children : children[i] # m) => new[m].index = mid[m].index
    <3>1. Typed(mid) /\ parent \in DOMAIN mid /\ first \in Nat /\ mid[parent].children = children
      BY <1>4, <2>1
    <3>2. LET r == Renumbered(mid, parent, first)
          IN  /\ Typed(r) /\ DOMAIN r = DOMAIN mid /\ SameNames(mid, r)
              /\ \A m \in DOMAIN mid : r[m].parent = mid[m].parent /\ r[m].children = mid[m].children
              /\ \A i \in DOMAIN mid[parent].children :
                   r[mid[parent].children[i]].index =
                     IF i - 1 >= first THEN i - 1 ELSE mid[mid[parent].children[i]].index
              /\ \A m \in DOMAIN mid :
                   (\A i \in DOMAIN mid[parent].children : mid[parent].children[i] # m) => r[m].index = mid[m].index
      BY <1>7, <3>1, RenumberedLinks
    <3> QED
      BY <2>1, <3>1, <3>2
  <2>3. SameNames(nodes, new)
    BY <1>4, <2>2, SameNamesStay
  <2> QED
    BY <1>4, <2>2, <2>3 DEF first
<1>9. ASSUME NEW i \in DOMAIN new[parent].children
      PROVE  LET c == new[parent].children[i]
             IN  /\ new[c].parent = parent /\ new[c].index = i - 1
                 /\ nodes[c].parent \in {NoNode, parent}
  <2>1. i \in DOMAIN children /\ new[parent].children = children
    BY <1>4, <1>8
  <2>2. CASE i = index + 1
    BY <1>1, <1>4, <1>6, <1>8, <2>1, <2>2
  <2>3. CASE i # index + 1
    <3>1. /\ children[i] \in DOMAIN nodes /\ children[i] # n
          /\ nodes[children[i]].parent = parent /\ nodes[children[i]].index = before(i) - 1
      BY <1>5, <2>1, <2>3
    <3>2. new[children[i]].parent = parent
      BY <1>4, <1>8, <3>1
    <3>3. new[children[i]].index = i - 1
      BY <1>1, <1>2, <1>4, <1>8, <2>1, <2>3, <3>1
    <3> QED
      BY <2>1, <3>1, <3>2, <3>3
  <2> QED
    BY <2>2, <2>3
<1>10. ASSUME NEW m \in DOMAIN nodes, \A i \in DOMAIN new[parent].children : new[parent].children[i] # m
       PROVE  /\ nodes[m].parent # parent
              /\ new[m].parent = nodes[m].parent /\ new[m].index = nodes[m].index
  <2>1. \A i \in DOMAIN children : children[i] # m
    BY <1>4, <1>8, <1>10
  <2>2. m # n
    BY <1>6, <2>1
  <2>3. ASSUME NEW j \in DOMAIN old PROVE old[j] # m
    <3> DEFINE i == IF j <= index THEN j ELSE j + 1
    <3>1. i \in DOMAIN children /\ children[i] = old[j]
      BY <1>1, <1>2
    <3> QED
      BY <2>1, <3>1
  <2>4. nodes[m].parent # parent
    BY <2>3, OnlyChildren DEF old
  <2> QED
    BY <1>4, <1>8, <2>1, <2>2, <2>4
<1>11. \A m \in DOMAIN nodes \ {parent} : new[m].children = nodes[m].children
  BY <1>4, <1>8
<1> QED
  BY <1>8, <1>9, <1>10, <1>11, OneListChanged DEF new

\* Taking a node from its parent keeps the links: the siblings behind it are renumbered
\* (remove_from_parent).
LEMMA RemoveFromParentKeeps ==
  ASSUME NEW nodes, Sound(nodes), NEW n \in DOMAIN nodes
  PROVE  LET new == RemoveFromParent(nodes, n)
         IN  Sound(new) /\ DOMAIN new = DOMAIN nodes /\ SameNames(nodes, new)
<1>1. CASE nodes[n].parent = NoNode
  <2>1. RemoveFromParent(nodes, n) = nodes
    BY <1>1 DEF RemoveFromParent
  <2> QED
    BY <2>1 DEF SameNames
<1>2. CASE nodes[n].parent # NoNode
  <2> DEFINE parent == nodes[n].parent
             index == nodes[n].index
             old == nodes[parent].children
             children == RemoveAt(old, index)
             mid == Adopted(WithChildren(nodes, parent, children), NoNode, n, -1)
             new == RemoveFromParent(nodes, n)
  <2>1. /\ parent \in DOMAIN nodes
        /\ index + 1 \in DOMAIN old /\ old[index + 1] = n /\ index \in Int
    BY <1>2, NodeFields DEF Sound, ParentsPointDown
  <2>2. /\ old \in Seq(DOMAIN nodes) /\ Len(old) \in Nat /\ DOMAIN old = 1 .. Len(old)
    BY <2>1, NodeFields DEF Sound
  <2>3. /\ \A i, j \in DOMAIN old : old[i] = old[j] => i = j
        /\ \A i \in DOMAIN old :
             /\ old[i] \in DOMAIN nodes
             /\ nodes[old[i]].parent = parent /\ nodes[old[i]].index = i - 1
    BY <2>1, OwnChildren
  <2>4. IndexOf(old, n) = index
    <3> HIDE DEF old, index
    <3>1. \A j \in DOMAIN old : old[j] = old[index + 1] => j = index + 1
      BY <2>1, <2>3
    <3>2. IndexOf(old, old[index + 1]) = (index + 1) - 1
      BY <2>1, <2>2, <3>1, IndexOfOnly
    <3> QED
      BY <2>1, <3>2
  <2>5. new = Renumbered(mid, parent, index)
    <3>1. parent # NoNode
      BY <1>2
    <3> QED
      BY <2>4, <3>1 DEF RemoveFromParent
  <2>6. /\ children \in Seq(DOMAIN nodes) /\ DOMAIN children = 1 .. Len(old) - 1
        /\ \A i \in 1 .. Len(old) - 1 : children[i] = IF i <= index THEN old[i] ELSE old[i + 1]
    <3> HIDE DEF old, index
    <3>1. index \in 0 .. Len(old) - 1
      BY <2>1, <2>2
    <3>2. /\ children \in Seq(DOMAIN nodes) /\ Len(children) = Len(old) - 1
          /\ \A i \in 1 .. Len(old) - 1 : children[i] = IF i <= index THEN old[i] ELSE old[i + 1]
      BY <2>2, <3>1, RemoveAtClosesTheGap
    <3> HIDE DEF children
    <3>3. DOMAIN children = 1 .. Len(old) - 1
      BY <3>2, LenProperties
    <3> QED
      BY <3>2, <3>3
  <2> HIDE DEF new, children
  <2>7. /\ Typed(mid) /\ DOMAIN mid = DOMAIN nodes /\ SameNames(nodes, mid)
        /\ \A m \in DOMAIN nodes :
             /\ mid[m].parent = IF m = n THEN NoNode ELSE nodes[m].parent
             /\ mid[m].index = IF m = n THEN -1 ELSE nodes[m].index
             /\ mid[m].children = IF m = parent THEN children ELSE nodes[m].children
    <3> HIDE DEF parent, old, index
    <3> DEFINE gone == -1
               null == NoNode
    <3>1. /\ parent \in DOMAIN nodes /\ children \in Seq(DOMAIN nodes)
          /\ null \in DOMAIN nodes \union {NoNode} /\ gone \in Int /\ Typed(nodes)
      BY <2>1, <2>6 DEF Sound
    <3> HIDE DEF gone, null
    <3> DEFINE taken == Adopted(WithChildren(nodes, parent, children), null, n, gone)
    <3>2. /\ Typed(taken) /\ DOMAIN taken = DOMAIN nodes /\ SameNames(nodes, taken)
          /\ \A m \in DOMAIN nodes :
               /\ taken[m].parent = IF m = n THEN null ELSE nodes[m].parent
               /\ taken[m].index = IF m = n THEN gone ELSE nodes[m].index
               /\ taken[m].children = IF m = parent THEN children ELSE nodes[m].children
      <4>1. taken = Adopted(WithChildren(nodes, parent, children), null, n, gone)
        OBVIOUS
      <4> HIDE DEF taken
      <4>2. Moves(nodes, parent, n, null, gone, children, taken)
        BY <4>1 DEF Moves
      <4>3. HaveMoved(nodes, parent, n, null, gone, children, taken)
        BY <3>1, <4>2, AdoptedLinks
      <4> QED
        BY <4>3 DEF HaveMoved
    <3> QED
      BY <3>2 DEF gone, null
  <2> HIDE DEF mid
  <2> DEFINE before(i) == IF i <= index THEN i ELSE i + 1
  <2>8. ASSUME NEW i \in DOMAIN children
        PROVE  /\ before(i) \in DOMAIN old /\ before(i) # index + 1 /\ children[i] = old[before(i)]
               /\ children[i] \in DOMAIN nodes /\ children[i] # n
               /\ nodes[children[i]].parent = parent /\ nodes[children[i]].index = before(i) - 1
    <3>1. before(i) \in DOMAIN old /\ before(i) # index + 1 /\ children[i] = old[before(i)]
      <4> HIDE DEF old, index
      <4> QED
        BY <2>1, <2>2, <2>6
    <3> HIDE DEF before
    <3>2. /\ children[i] \in DOMAIN nodes
          /\ nodes[children[i]].parent = parent /\ nodes[children[i]].index = before(i) - 1
      <4> HIDE DEF old, parent
      <4> QED
        BY <2>3, <3>1
    <3>3. children[i] # n
      <4> HIDE DEF old, parent, index
      <4> QED
        BY <2>1, <2>3, <3>1
    <3> QED
      BY <3>1, <3>2, <3>3
  <2> HIDE DEF old, parent, index
  <2>9. \A i, j \in DOMAIN mid[parent].children : mid[parent].children[i] = mid[parent].children[j] => i = j
    <3> SUFFICES ASSUME NEW i \in DOMAIN children, NEW j \in DOMAIN children, children[i] = children[j]
                 PROVE  i = j
      BY <2>1, <2>7
    <3>1. before(i) = before(j)
      BY <2>3, <2>8
    <3> QED
      BY <2>1, <2>2, <2>6, <3>1
  <2>10. /\ Typed(new) /\ DOMAIN new = DOMAIN nodes /\ SameNames(nodes, new)
         /\ \A m \in DOMAIN nodes : new[m].parent = mid[m].parent /\ new[m].children = mid[m].children
         /\ \A i \in DOMAIN children :
              new[children[i]].index = IF i - 1 >= index THEN i - 1 ELSE mid[children[i]].index
         /\ \A m \in DOMAIN nodes :
              (\A i \in DOMAIN children : children[i] # m) => new[m].index = mid[m].index
    <3>1. index \in Nat /\ mid[parent].children = children
      BY <2>1, <2>2, <2>7
    <3>2. SameNames(mid, new)
      BY <2>1, <2>5, <2>7, <2>9, <3>1, RenumberedLinks
    <3>3. SameNames(nodes, new)
      BY <2>7, <3>2, SameNamesStay
    <3> QED
      BY <2>1, <2>5, <2>7, <2>9, <3>1, <3>3, RenumberedLinks
  <2>11. ASSUME NEW i \in DOMAIN new[parent].children
         PROVE  LET c == new[parent].children[i]
                IN  /\ new[c].parent = parent /\ new[c].index = i - 1
                    /\ nodes[c].parent \in {NoNode, parent}
    <3>1. i \in DOMAIN children /\ new[parent].children = children
      BY <2>1, <2>7, <2>10
    <3>2. /\ children[i] \in DOMAIN nodes /\ children[i] # n
          /\ nodes[children[i]].parent = parent /\ nodes[children[i]].index = before(i) - 1
      BY <2>8, <3>1
    <3>3. new[children[i]].parent = parent
      BY <2>7, <2>10, <3>2
    <3>4. new[children[i]].index = i - 1
      BY <2>1, <2>2, <2>6, <2>7, <2>10, <3>1, <3>2
    <3> QED
      BY <3>1, <3>2, <3>3, <3>4
  <2>12. ASSUME NEW m \in DOMAIN nodes, \A i \in DOMAIN new[parent].children : new[parent].children[i] # m
         PROVE  \/ /\ nodes[m].parent # parent
                   /\ new[m].parent = nodes[m].parent /\ new[m].index = nodes[m].index
                \/ nodes[m].parent \in {NoNode, parent} /\ new[m].parent = NoNode
    <3>1. \A i \in DOMAIN children : children[i] # m
      BY <2>1, <2>7, <2>10, <2>12
    <3>2. CASE m = n
      BY <2>7, <2>10, <3>2 DEF parent
    <3>3. CASE m # n
      <4>1. ASSUME NEW j \in DOMAIN old PROVE old[j] # m
        <5>1. CASE j = index + 1
          BY <2>1, <3>3, <5>1
        <5>2. CASE j # index + 1
          <6> DEFINE i == IF j <= index THEN j ELSE j - 1
          <6>1. i \in DOMAIN children /\ children[i] = old[j]
            BY <2>1, <2>2, <2>6, <5>2
          <6> QED
            BY <3>1, <6>1
        <5> QED
          BY <5>1, <5>2
      <4>2. nodes[m].parent # parent
        BY <2>1, <4>1, OnlyChildren DEF old
      <4> QED
        BY <2>7, <2>10, <3>1, <3>3, <4>2
    <3> QED
      BY <3>2, <3>3
  <2>13. \A m \in DOMAIN nodes \ {parent} : new[m].children = nodes[m].children
    BY <2>7, <2>10
  <2> QED
    BY <2>1, <2>10, <2>11, <2>12, <2>13, OneListChanged DEF new
<1> QED
  BY <1>1, <1>2

\* A node that stands nowhere and has no children disturbs no link (create_node).
LEMMA NodeAddedKeeps ==
  ASSUME NEW nodes, Sound(nodes), NEW node,
         node \in [type : {node.type}, tag : {node.tag}, ns : {node.ns}, attrs : {node.attrs},
                   text : {node.text}, parent : {NoNode}, index : {-1}, children : {<<>>}]
  PROVE  LET new == Append(nodes, node)
         IN  /\ Sound(new) /\ SameNames(nodes, new)
             /\ Len(new) = Len(nodes) + 1 /\ Len(nodes) \in Nat
             /\ DOMAIN nodes = 1 .. Len(nodes) /\ DOMAIN new = 1 .. Len(nodes) + 1
             /\ new[Len(nodes) + 1] = node /\ \A m \in DOMAIN nodes : new[m] = nodes[m]
<1> DEFINE k == Len(nodes)
           new == Append(nodes, node)
<1>1. PICK S : nodes \in Seq(S)
  BY DEF Sound, Typed
<1>2. k \in Nat /\ DOMAIN nodes = 1 .. k
  BY <1>1, LenProperties
<1>4. /\ new \in Seq(S \union {node}) /\ DOMAIN new = 1 .. k + 1 /\ Len(new) = k + 1
      /\ new[k + 1] = node
      /\ \A m \in 1 .. k : new[m] = nodes[m]
  <2>2. nodes \in Seq(S \union {node}) /\ node \in S \union {node}
    BY <1>1, SeqMonotonic
  <2> QED
    BY <1>1, <1>2, <2>2
<1> HIDE DEF new, k
<1>5. ASSUME NEW m \in 1 .. k
      PROVE  Node(new, m)
  <2>1. DOMAIN nodes \subseteq DOMAIN new
    BY <1>2, <1>4
  <2>2. Seq(DOMAIN nodes) \subseteq Seq(DOMAIN new)
    BY <2>1, SeqMonotonic
  <2>3. Node(nodes, m) /\ new[m] = nodes[m]
    BY <1>2, <1>4 DEF Sound, Typed
  <2> QED
    BY <2>1, <2>2, <2>3 DEF Node
<1>6. Node(new, k + 1)
  <2> DEFINE none == <<>>
             gone == -1
  <2>1. none \in Seq(DOMAIN new) /\ gone \in Int
    OBVIOUS
  <2>2. /\ new[k + 1] = node
        /\ node \in [type : {node.type}, tag : {node.tag}, ns : {node.ns}, attrs : {node.attrs},
                     text : {node.text}, parent : {NoNode}, index : {gone}, children : {none}]
    BY <1>4
  <2> HIDE DEF none, gone
  <2> QED
    BY <2>1, <2>2 DEF Node
<1>7. Typed(new)
  <2>1. \A m \in DOMAIN new : m \in 1 .. k \/ m = k + 1
    BY <1>2, <1>4
  <2> QED
    BY <1>4, <1>5, <1>6, <2>1 DEF Typed
<1>3. node.parent = NoNode /\ node.children = <<>>
  <2> DEFINE gone == -1
             none == <<>>
  <2> HIDE DEF gone
  <2>1. node \in [type : {node.type}, tag : {node.tag}, ns : {node.ns}, attrs : {node.attrs},
                  text : {node.text}, parent : {NoNode}, index : {gone}, children : {none}]
    BY DEF gone
  <2> HIDE DEF none
  <2>2. node.parent = NoNode /\ node.children = none
    BY <2>1
  <2> QED
    BY <2>2 DEF none
<1>8. ChildrenPointUp(new)
  <2> SUFFICES ASSUME NEW p \in DOMAIN new, NEW i \in DOMAIN new[p].children
               PROVE  /\ new[new[p].children[i]].parent = p
                      /\ new[new[p].children[i]].index = i - 1
    BY DEF ChildrenPointUp
  <2>1. p \in DOMAIN nodes /\ new[p] = nodes[p]
    BY <1>2, <1>3, <1>4
  <2>2. /\ nodes[p].children[i] \in DOMAIN nodes
        /\ nodes[nodes[p].children[i]].parent = p /\ nodes[nodes[p].children[i]].index = i - 1
    BY <2>1, OwnChildren
  <2> QED
    BY <1>2, <1>4, <2>1, <2>2
<1>9. ParentsPointDown(new)
  <2> SUFFICES ASSUME NEW m \in DOMAIN new, new[m].parent # NoNode
               PROVE  /\ new[m].index + 1 \in DOMAIN new[new[m].parent].children
                      /\ new[new[m].parent].children[new[m].index + 1] = m
    BY DEF ParentsPointDown
  <2>1. m \in DOMAIN nodes /\ new[m] = nodes[m]
    BY <1>2, <1>3, <1>4
  <2>2. nodes[m].parent \in DOMAIN nodes
    BY <2>1, NodeFields DEF Sound
  <2>3. new[nodes[m].parent] = nodes[nodes[m].parent]
    BY <1>2, <1>4, <2>2
  <2> QED
    BY <2>1, <2>3 DEF Sound, ParentsPointDown
<1>10. SameNames(nodes, new)
  BY <1>2, <1>4 DEF SameNames
<1> QED
  BY <1>2, <1>4, <1>7, <1>8, <1>9, <1>10 DEF Sound, new, k

\* A copy of a node (clone_node).
LEMMA CloneNodeKeeps ==
  ASSUME NEW nodes, Sound(nodes), NEW n \in DOMAIN nodes
  PROVE  LET new == CloneNode(nodes, n)
         IN  /\ Sound(new) /\ SameNames(nodes, new)
             /\ Len(new) = Len(nodes) + 1 /\ Len(nodes) \in Nat
             /\ DOMAIN nodes = 1 .. Len(nodes) /\ DOMAIN new = 1 .. Len(nodes) + 1
             /\ new[Len(new)].type = nodes[n].type
             /\ new[Len(new)].tag = nodes[n].tag /\ new[Len(new)].ns = nodes[n].ns
             /\ new[Len(new)].attrs = nodes[n].attrs
             /\ new[Len(new)].parent = NoNode /\ new[Len(new)].children = <<>>
             /\ \A m \in DOMAIN nodes : new[m] = nodes[m]
<1> DEFINE gone == -1
           none == <<>>
           copy == [nodes[n] EXCEPT !.parent = NoNode, !.index = gone, !.children = none]
<1> HIDE DEF gone, none
<1>1. Node(nodes, n)
  BY DEF Sound, Typed
<1>2. /\ copy \in [type : {copy.type}, tag : {copy.tag}, ns : {copy.ns}, attrs : {copy.attrs},
                    text : {copy.text}, parent : {NoNode}, index : {gone}, children : {none}]
      /\ copy.type = nodes[n].type /\ copy.tag = nodes[n].tag /\ copy.ns = nodes[n].ns
      /\ copy.attrs = nodes[n].attrs
      /\ copy.parent = NoNode /\ copy.children = none
  BY <1>1 DEF Node
<1>3. CloneNode(nodes, n) = Append(nodes, copy)
  BY DEF CloneNode, gone, none
<1> HIDE DEF copy
<1>4. copy \in [type : {copy.type}, tag : {copy.tag}, ns : {copy.ns}, attrs : {copy.attrs},
                text : {copy.text}, parent : {NoNode}, index : {-1}, children : {<<>>}]
  BY <1>2 DEF gone, none
<1> DEFINE new == Append(nodes, copy)
<1>5. /\ Sound(new) /\ SameNames(nodes, new)
      /\ Len(new) = Len(nodes) + 1 /\ Len(nodes) \in Nat
      /\ DOMAIN nodes = 1 .. Len(nodes) /\ DOMAIN new = 1 .. Len(nodes) + 1
      /\ new[Len(nodes) + 1] = copy /\ \A m \in DOMAIN nodes : new[m] = nodes[m]
  BY <1>4, NodeAddedKeeps
<1> HIDE DEF new
<1>6. none = <<>>
  BY DEF none
<1> QED
  BY <1>2, <1>3, <1>5, <1>6 DEF new

\* Handing all children of a node to a node that has neither children nor a parent keeps the
\* links (maybe_adoption_agency: the children of the furthest block go to a copy).
LEMMA MoveChildrenKeeps ==
  ASSUME NEW nodes, Sound(nodes), NEW from \in DOMAIN nodes, NEW to \in DOMAIN nodes, from # to,
         nodes[to].children = <<>>, nodes[to].parent = NoNode
  PROVE  LET new == MoveChildren(nodes, from, to)
         IN  Sound(new) /\ DOMAIN new = DOMAIN nodes /\ SameNames(nodes, new)
<1> DEFINE new == MoveChildren(nodes, from, to)
           moved == nodes[from].children
           Child(m) == \E i \in DOMAIN moved : moved[i] = m
           changed == [m \in 1 .. Len(nodes) |->
                         [nodes[m] EXCEPT !.parent = IF IndexOf(moved, m) # -1 THEN to ELSE @,
                                          !.children = IF m = to THEN moved
                                                       ELSE IF m = from THEN nodes[to].children ELSE @]]
<1>1. /\ moved \in Seq(DOMAIN nodes) /\ Len(nodes) \in Nat /\ DOMAIN nodes = 1 .. Len(nodes)
      /\ DOMAIN moved = 1 .. Len(moved) /\ Len(moved) \in Nat
  BY NodeFields DEF Sound
<1>2. /\ \A i, j \in DOMAIN moved : moved[i] = moved[j] => i = j
      /\ \A i \in DOMAIN moved :
           /\ moved[i] \in DOMAIN nodes
           /\ nodes[moved[i]].parent = from /\ nodes[moved[i]].index = i - 1
  BY OwnChildren
<1>3. from # NoNode
  BY NodeFields DEF Sound
<1>4. new = changed
  <2>1. new = SubSeq(changed, 1, Len(nodes))
    BY DEF MoveChildren, Changed
  <2>2. changed = [m \in 1 .. Len(nodes) |-> changed[m]]
    OBVIOUS
  <2> HIDE DEF changed
  <2> QED
    BY <1>1, <2>1, <2>2, ChangedIsAll
<1>5. new = [m \in DOMAIN nodes |-> new[m]] /\ DOMAIN new = DOMAIN nodes
  BY <1>1, <1>4
<1>6. ASSUME NEW m \in DOMAIN nodes
      PROVE  IndexOf(moved, m) # -1 <=> Child(m)
  <2> HIDE DEF moved
  <2>1. CASE Child(m)
    <3>1. PICK i \in DOMAIN moved : moved[i] = m
      BY <2>1
    <3>2. \A j \in DOMAIN moved : moved[j] = moved[i] => j = i
      BY <1>2
    <3>3. IndexOf(moved, moved[i]) = i - 1
      BY <1>1, <3>2, IndexOfOnly
    <3>4. i - 1 # -1
      BY <1>1
    <3> QED
      BY <2>1, <3>1, <3>3, <3>4
  <2>2. CASE ~ Child(m)
    BY <1>1, <2>2, IndexOfAbsent
  <2> QED
    BY <2>1, <2>2
<1> DEFINE none == <<>>
           P == [m \in DOMAIN nodes |-> IF Child(m) THEN to ELSE nodes[m].parent]
           I == [m \in DOMAIN nodes |-> nodes[m].index]
           C == [m \in DOMAIN nodes |-> IF m = to THEN moved ELSE IF m = from THEN none ELSE nodes[m].children]
<1>7. ASSUME NEW m \in DOMAIN nodes
      PROVE  new[m] = [nodes[m] EXCEPT !.parent = P[m], !.children = C[m]]
  <2>1. new[m] = [nodes[m] EXCEPT !.parent = IF IndexOf(moved, m) # -1 THEN to ELSE @,
                                  !.children = IF m = to THEN moved
                                               ELSE IF m = from THEN nodes[to].children ELSE @]
    BY <1>1, <1>4
  <2> HIDE DEF new, moved, Child, none
  <2>2. nodes[to].children = none
    BY DEF none
  <2> QED
    BY <1>6, <2>1, <2>2
<1>8. ~ Child(to)
  BY <1>2, <1>3
<1>0. none \in Seq(DOMAIN nodes)
  OBVIOUS
<1> HIDE DEF new, changed, moved, Child, none
<1>9. ASSUME NEW m \in DOMAIN nodes
      PROVE  /\ P[m] \in DOMAIN nodes \union {NoNode} /\ I[m] \in Int /\ C[m] \in Seq(DOMAIN nodes)
             /\ new[m] \in Linked(nodes, m, P[m], I[m], C[m])
  <2>1. P[m] \in DOMAIN nodes \union {NoNode} /\ I[m] \in Int /\ C[m] \in Seq(DOMAIN nodes)
    BY <1>0, <1>1, NodeFields DEF Sound
  <2>2. /\ nodes[m] \in Linked(nodes, m, nodes[m].parent, nodes[m].index, nodes[m].children)
        /\ I[m] = nodes[m].index /\ new[m] = [nodes[m] EXCEPT !.parent = P[m], !.children = C[m]]
    BY <1>7, StaysLinked DEF Sound
  <2> HIDE DEF P, I, C
  <2> QED
    BY <2>1, <2>2 DEF Linked
<1> HIDE DEF P, I, C
<1>10. /\ Typed(new) /\ DOMAIN new = DOMAIN nodes /\ SameNames(nodes, new)
       /\ \A m \in DOMAIN nodes :
            new[m].parent = P[m] /\ new[m].index = I[m] /\ new[m].children = C[m]
  <2>1. Relinks(nodes, new, P, I, C)
    BY <1>5, <1>9 DEF Relinks
  <2> QED
    BY <2>1, Relinked DEF Sound
<1>13. ASSUME NEW m \in DOMAIN nodes
       PROVE  /\ new[m].parent = IF Child(m) THEN to ELSE nodes[m].parent
              /\ new[m].index = nodes[m].index
              /\ new[m].children = IF m = to THEN moved ELSE IF m = from THEN none ELSE nodes[m].children
  BY <1>10 DEF P, I, C
<1>11. ChildrenPointUp(new)
  <2> SUFFICES ASSUME NEW p \in DOMAIN nodes, NEW i \in DOMAIN new[p].children
               PROVE  /\ new[new[p].children[i]].parent = p
                      /\ new[new[p].children[i]].index = i - 1
    BY <1>5 DEF ChildrenPointUp
  <2>1. CASE p = to
    <3>1. i \in DOMAIN moved /\ new[p].children[i] = moved[i]
      BY <1>13, <2>1
    <3>2. moved[i] \in DOMAIN nodes /\ nodes[moved[i]].index = i - 1 /\ Child(moved[i])
      BY <1>2, <3>1 DEF Child
    <3> QED
      BY <1>13, <2>1, <3>1, <3>2
  <2>2. CASE p = from
    <3>1. new[p].children = none
      BY <1>13, <2>2
    <3> QED
      BY <3>1 DEF none
  <2>3. CASE p # to /\ p # from
    <3>1. new[p].children = nodes[p].children
      BY <1>13, <2>3
    <3>2. /\ nodes[p].children[i] \in DOMAIN nodes
          /\ nodes[nodes[p].children[i]].parent = p /\ nodes[nodes[p].children[i]].index = i - 1
      BY <3>1, OwnChildren
    <3>3. ~ Child(nodes[p].children[i])
      BY <1>2, <2>3, <3>2 DEF Child
    <3> QED
      BY <1>13, <3>1, <3>2, <3>3
  <2> QED
    BY <2>1, <2>2, <2>3
<1>12. ParentsPointDown(new)
  <2> SUFFICES ASSUME NEW m \in DOMAIN nodes, new[m].parent # NoNode
               PROVE  /\ new[m].index + 1 \in DOMAIN new[new[m].parent].children
                      /\ new[new[m].parent].children[new[m].index + 1] = m
    BY <1>5 DEF ParentsPointDown
  <2>1. CASE Child(m)
    <3>1. PICK i \in DOMAIN moved : moved[i] = m
      BY <2>1 DEF Child
    <3>2. new[m].parent = to /\ new[m].index = i - 1 /\ new[to].children = moved
      BY <1>2, <1>13, <2>1, <3>1
    <3>3. i - 1 + 1 = i
      BY <1>1
    <3> QED
      BY <3>1, <3>2, <3>3
  <2>2. CASE ~ Child(m)
    <3>1. new[m].parent = nodes[m].parent /\ new[m].index = nodes[m].index /\ nodes[m].parent # NoNode
      BY <1>13, <2>2
    <3>2. nodes[m].parent \in DOMAIN nodes
      BY <3>1, NodeFields DEF Sound
    <3>3. nodes[m].parent # from
      BY <2>2, OnlyChildren DEF Child, moved
    <3>4. nodes[m].parent # to
      <4>1. \A i \in DOMAIN nodes[to].children : FALSE
        OBVIOUS
      <4> QED
        BY <4>1, OnlyChildren
    <3>5. new[nodes[m].parent].children = nodes[nodes[m].parent].children
      BY <1>13, <3>2, <3>3, <3>4
    <3> QED
      BY <3>1, <3>5 DEF Sound, ParentsPointDown
  <2> QED
    BY <2>1, <2>2
<1> QED
  BY <1>10, <1>11, <1>12 DEF Sound, new

\* Whatever the tree is, a step of parser.c that creates, appends, inserts, removes or copies a node,
\* or moves the children of one, leaves a tree whose links agree, when its assertions hold
\* (append_node and insert_node assert that the node has no parent).
THEOREM LinksAreKept ==
  ASSUME NEW nodes, Sound(nodes), NEW n \in DOMAIN nodes
  PROVE  /\ Sound(RemoveFromParent(nodes, n))
         /\ Sound(CloneNode(nodes, n))
         /\ nodes[n].parent = NoNode =>
              \A parent \in DOMAIN nodes \ {n} :
                /\ Sound(AppendNode(nodes, parent, n))
                /\ \A index \in -1 .. Len(nodes[parent].children) - 1 :
                     Sound(InsertNode(nodes, n, [target |-> parent, index |-> index]))
         /\ nodes[n].parent = NoNode /\ nodes[n].children = <<>> =>
              \A from \in DOMAIN nodes \ {n} : Sound(MoveChildren(nodes, from, n))
<1>1. Sound(RemoveFromParent(nodes, n)) /\ Sound(CloneNode(nodes, n))
  BY RemoveFromParentKeeps, CloneNodeKeeps
<1>2. ASSUME nodes[n].parent = NoNode, NEW parent \in DOMAIN nodes \ {n}
      PROVE  Sound(AppendNode(nodes, parent, n))
  BY <1>2, AppendNodeKeeps
<1>3. ASSUME nodes[n].parent = NoNode, NEW parent \in DOMAIN nodes \ {n},
             NEW index \in -1 .. Len(nodes[parent].children) - 1
      PROVE  Sound(InsertNode(nodes, n, [target |-> parent, index |-> index]))
  <2>1. CASE index = -1
    <3>1. InsertNode(nodes, n, [target |-> parent, index |-> index]) = AppendNode(nodes, parent, n)
      BY <2>1 DEF InsertNode
    <3> QED
      BY <1>2, <1>3, <3>1
  <2>2. CASE index # -1
    <3>1. index \in 0 .. Len(nodes[parent].children) - 1
      BY <2>2
    <3> QED
      BY <1>3, <3>1, InsertNodeKeeps
  <2> QED
    BY <2>1, <2>2
<1>4. ASSUME nodes[n].parent = NoNode, nodes[n].children = <<>>, NEW from \in DOMAIN nodes \ {n}
      PROVE  Sound(MoveChildren(nodes, from, n))
  BY <1>4, MoveChildrenKeeps
<1> QED
  BY <1>1, <1>2, <1>3, <1>4

-----------------------------------------------------------------------------
(* Vectors, whatever they hold.                                            *)

Vector(v) == \E S : v \in Seq(S)

LEMMA VectorIs ==
  ASSUME NEW v, Vector(v)
  PROVE  Len(v) \in Nat /\ DOMAIN v = 1 .. Len(v)
BY LenProperties DEF Vector

LEMMA FunctionIsVector ==
  ASSUME NEW n \in Int, NEW v, v = [i \in 1 .. n |-> v[i]]
  PROVE  Vector(v)
<1> DEFINE k == IF n >= 0 THEN n ELSE 0
           S == {v[i] : i \in 1 .. k}
<1>1. k \in Nat /\ 1 .. n = 1 .. k
  OBVIOUS
<1> HIDE DEF k
<1>2. v \in [1 .. k -> S]
  BY <1>1
<1> HIDE DEF S
<1>3. v \in Seq(S)
  BY <1>1, <1>2, SeqDef
<1> QED
  BY <1>3 DEF Vector

LEMMA VectorAppended ==
  ASSUME NEW v, Vector(v), NEW e
  PROVE  Vector(Append(v, e))
<1>1. PICK S : v \in Seq(S)
  BY DEF Vector
<1>2. v \in Seq(S \union {e})
  BY <1>1, SeqMonotonic
<1>3. Append(v, e) \in Seq(S \union {e})
  BY <1>2, AppendProperties
<1> QED
  BY <1>3 DEF Vector

LEMMA SubSeqIsVector ==
  ASSUME NEW v, NEW m \in Int, NEW n \in Int
  PROVE  Vector(SubSeq(v, m, n))
<1> DEFINE w == SubSeq(v, m, n)
           k == 1 + n - m
<1>1. w = [i \in 1 .. k |-> v[i + m - 1]]
  OBVIOUS
<1>2. w = [i \in 1 .. k |-> w[i]]
  BY <1>1
<1>3. k \in Int
  OBVIOUS
<1> HIDE DEF w, k
<1>4. Vector(w)
  BY <1>2, <1>3, FunctionIsVector
<1> QED
  BY <1>4 DEF w

LEMMA VectorJoined ==
  ASSUME NEW v, NEW w, Vector(v), Vector(w)
  PROVE  Vector(v \o w)
<1>1. PICK S : v \in Seq(S)
  BY DEF Vector
<1>2. PICK T : w \in Seq(T)
  BY DEF Vector
<1>3. v \in Seq(S \union T) /\ w \in Seq(S \union T)
  BY <1>1, <1>2, SeqMonotonic
<1>4. v \o w \in Seq(S \union T)
  BY <1>3, ConcatProperties
<1> QED
  BY <1>4 DEF Vector

LEMMA VectorSet ==
  ASSUME NEW v, Vector(v), NEW i, NEW e
  PROVE  Vector([v EXCEPT ![i] = e])
<1> DEFINE w == [v EXCEPT ![i] = e]
<1>1. PICK n \in Nat : DOMAIN v = 1 .. n
  BY VectorIs
<1>2. w = [j \in 1 .. n |-> w[j]]
  <2>1. w = [j \in 1 .. n |-> IF j = i THEN e ELSE v[j]]
    BY <1>1
  <2> QED
    BY <2>1
<1> HIDE DEF w
<1>3. Vector(w)
  BY <1>2, FunctionIsVector
<1> QED
  BY <1>3 DEF w

LEMMA VectorChanged ==
  ASSUME NEW v, Vector(v), NEW index \in Int, NEW e
  PROVE  Vector(RemoveAt(v, index)) /\ Vector(InsertAt(v, index, e))
<1> DEFINE front == SubSeq(v, 1, index)
<1>1. Len(v) \in Nat
  BY VectorIs
<1>2. Vector(front) /\ Vector(SubSeq(v, index + 2, Len(v))) /\ Vector(SubSeq(v, index + 1, Len(v)))
  BY <1>1, SubSeqIsVector
<1>3. Vector(<<>>) 
  <2>1. <<>> \in Seq({e})
    OBVIOUS
  <2> QED
    BY <2>1 DEF Vector
<1>4. Vector(<<e>>)
  <2>1. <<e>> \in Seq({e})
    OBVIOUS
  <2> QED
    BY <2>1 DEF Vector
<1>5. Vector(front \o <<e>>)
  BY <1>2, <1>4, VectorJoined
<1> HIDE DEF front
<1>6. Vector((front \o <<e>>) \o SubSeq(v, index + 1, Len(v)))
  BY <1>2, <1>5, VectorJoined
<1>7. Vector(front \o SubSeq(v, index + 2, Len(v)))
  BY <1>2, VectorJoined
<1> QED
  BY <1>6, <1>7 DEF front, RemoveAt, InsertAt

-----------------------------------------------------------------------------
(* States.                                                                 *)

StateFields ==
  {"nodes", "root", "mode", "original", "templateModes", "open", "active", "head", "form", "buffer",
   "bufferType", "reprocess", "framesetOk", "skipLinefeed", "foster", "quirks", "lexer", "rules", "sound"}

\* A state, whether an assertion has failed or not.
Rec(s) == DOMAIN s = StateFields /\ s.sound \in BOOLEAN /\ s.rules = "none" /\ Vector(s.open) /\ Vector(s.active)

\* The tag of what is no element.
NoTag == ""

\* The elements there is one of, or that a template mode belongs to.
Fixed == {"html", "head", "template"}

\* The modes a stack with the root and a template, or without the head, may be in.
ContentModes ==
  {"InBody", "InTable", "InCaption", "InColumnGroup", "InTableBody", "InRow", "InCell", "InSelect",
   "InSelectInTable", "InTemplate", "AfterBody", "AfterAfterBody"}
FramesetModes == {"InFrameset", "AfterFrameset", "AfterAfterFrameset"}
EarlyModes == {"Initial", "BeforeHtml"}

\* The links of the nodes agree, and root and head are the only elements with their names.
NodesOK(nodes, root, head) ==
  /\ Sound(nodes)
  /\ Document \in DOMAIN nodes /\ nodes[Document].tag = NoTag
  /\ \A n \in DOMAIN nodes :
       /\ nodes[n].type # "destroyed"
       /\ nodes[n].tag = "html" => n = root
       /\ nodes[n].tag = "head" => n = head
  /\ root # NoNode => root \in DOMAIN nodes /\ nodes[root].tag = "html" /\ nodes[root].ns = "html"
  /\ head # NoNode => head \in DOMAIN nodes /\ nodes[head].tag = "head" /\ nodes[head].ns = "html"

\* The stack holds nodes, each once, the root first.
OpenOK(nodes, open, root) ==
  /\ open \in Seq(DOMAIN nodes)
  /\ \A i, j \in DOMAIN open : open[i] = open[j] => i = j
  /\ open # <<>> => open[1] = root

\* The stack begins with base, and above it there is no head.
Begins(open, base, head) ==
  /\ Len(base) \in Nat /\ Len(base) <= Len(open)
  /\ \A i \in 1 .. Len(base) : open[i] = base[i]
  /\ \A i \in DOMAIN open : open[i] = head => i <= Len(base)

\* Nothing that closes elements goes below base: its top is the root or a template.
Stops(nodes, base) ==
  /\ Len(base) >= 1
  /\ \A i \in 1 .. Len(base) : base[i] \in DOMAIN nodes /\ nodes[base[i]].tag \in Fixed /\ nodes[base[i]].ns = "html"
  /\ nodes[base[Len(base)]].tag \in {"html", "template"}

\* What is no formatting element.
Unlisted == Fixed \union Amended

\* Two places of the list that hold the same element, as the Noah's Ark clause sees it: no marker
\* stands between them.
Twins(nodes, m, n) ==
  nodes[m].tag = nodes[n].tag /\ nodes[m].ns = nodes[n].ns /\ nodes[m].attrs = nodes[n].attrs
Shipmates(nodes, active, i, j) ==
  /\ active[i] # Marker /\ active[j] # Marker /\ Twins(nodes, active[i], active[j])
  /\ \A k \in DOMAIN active : active[k] = Marker => (k < i <=> k < j)

\* No four places of the list are of one kind, between any two markers.
Noah(nodes, active) ==
  \A a, b, c, d \in DOMAIN active :
    Shipmates(nodes, active, a, b) /\ Shipmates(nodes, active, a, c) /\ Shipmates(nodes, active, a, d) =>
      a = b \/ a = c \/ a = d \/ b = c \/ b = d \/ c = d

\* The list of active formatting elements holds nodes, each once and no four alike, or markers.
ActiveOK(nodes, active) ==
  /\ active \in Seq(DOMAIN nodes \union {Marker})
  /\ \A i \in DOMAIN active : active[i] # Marker => nodes[active[i]].tag \notin Unlisted
  /\ \A i, j \in DOMAIN active : active[i] # Marker /\ active[i] = active[j] => i = j
  /\ Noah(nodes, active)

\* What was listed before a marker stands on the stack below what was listed after it.
Segmented(open, active) ==
  \A k \in DOMAIN active : active[k] = Marker =>
    \A i, j \in DOMAIN active : i < k /\ k < j =>
      \A a, b \in DOMAIN open : active[i] = open[a] /\ active[j] = open[b] => a < b

FormOK(nodes, form) == form # NoNode => form \in DOMAIN nodes /\ nodes[form].tag \notin Fixed

\* There is a template mode for every template on the stack.
TemplatesIn(nodes, open) ==
  {n \in DOMAIN nodes : In(open, n) /\ nodes[n].tag = "template" /\ nodes[n].ns = "html"}
TemplatesOK(nodes, open, modes) ==
  modes \in Seq(ContentModes) /\ Cardinality(TemplatesIn(nodes, open)) <= Len(modes)

\* What does not concern the frame.
Core(s) ==
  /\ s.rules = "none" /\ s.bufferType \in Texts
  /\ NodesOK(s.nodes, s.root, s.head)
  /\ OpenOK(s.nodes, s.open, s.root)
  /\ ActiveOK(s.nodes, s.active) /\ Segmented(s.open, s.active)
  /\ FormOK(s.nodes, s.form)
  /\ TemplatesOK(s.nodes, s.open, s.templateModes)

\* The state of a handler at work: what it must leave alone is the frame F.
Held(s, F) ==
  /\ s.root = F.root /\ s.head = F.head /\ s.mode \in F.modes /\ s.original = F.original
  /\ Begins(s.open, F.base, F.head)
  /\ F.stop => Stops(s.nodes, F.base)
K(s, F) == Rec(s) /\ (s.sound => Core(s) /\ Held(s, F))

\* What most operations leave alone.
Rest(s, u) ==
  /\ Rec(u) /\ (u.sound => s.sound)
  /\ u.root = s.root /\ u.head = s.head /\ u.mode = s.mode /\ u.original = s.original /\ u.rules = s.rules

\* What an operation that only makes nodes leaves alone.
Grown(s, u) ==
  /\ Rest(s, u) /\ u.open = s.open /\ u.active = s.active /\ u.form = s.form /\ u.templateModes = s.templateModes
  /\ u.sound => SameNames(s.nodes, u.nodes)

LEMMA NoTagFacts ==
  /\ NoTag \notin Fixed /\ NoTag # "html" /\ NoTag # "head" /\ NoTag # "template"
  /\ NoTag \notin {"table", "tbody", "tfoot", "thead", "tr"}
BY DEF NoTag, Fixed

-----------------------------------------------------------------------------
(* What is true of the nodes stays true when there are more.               *)

LEMMA OpenGrows ==
  ASSUME NEW nodes, NEW new, NEW open, NEW root, SameNames(nodes, new), OpenOK(nodes, open, root)
  PROVE  OpenOK(new, open, root)
<1>1. DOMAIN nodes \subseteq DOMAIN new
  BY DEF SameNames
<1>2. open \in Seq(DOMAIN new)
  BY <1>1, SeqMonotonic DEF OpenOK
<1> QED
  BY <1>2 DEF OpenOK

\* Places of one kind belong together.
LEMMA ShipmatesAgree ==
  ASSUME NEW nodes, NEW active, NEW i, NEW j, Shipmates(nodes, active, i, j)
  PROVE  /\ Shipmates(nodes, active, j, i)
         /\ \A k : Shipmates(nodes, active, j, k) => Shipmates(nodes, active, i, k)
BY DEF Shipmates, Twins

\* Another list keeps the Noah's Ark clause if what is of one kind in it comes from different
\* places of the list that were of one kind.
LEMMA NoahMapped ==
  ASSUME NEW nodes, NEW active, Noah(nodes, active), NEW new, NEW list, NEW From,
         \A i \in DOMAIN list : list[i] # Marker => From[i] \in DOMAIN active,
         \A i, j \in DOMAIN list : list[i] # Marker /\ list[j] # Marker /\ From[i] = From[j] => i = j,
         \A i, j \in DOMAIN list : Shipmates(new, list, i, j) => Shipmates(nodes, active, From[i], From[j])
  PROVE  Noah(new, list)
<1> SUFFICES ASSUME NEW a \in DOMAIN list, NEW b \in DOMAIN list, NEW c \in DOMAIN list, NEW d \in DOMAIN list,
                    Shipmates(new, list, a, b), Shipmates(new, list, a, c), Shipmates(new, list, a, d)
             PROVE  a = b \/ a = c \/ a = d \/ b = c \/ b = d \/ c = d
  BY DEF Noah
<1>1. list[a] # Marker /\ list[b] # Marker /\ list[c] # Marker /\ list[d] # Marker
  BY DEF Shipmates
<1>2. /\ From[a] \in DOMAIN active /\ From[b] \in DOMAIN active /\ From[c] \in DOMAIN active /\ From[d] \in DOMAIN active
      /\ Shipmates(nodes, active, From[a], From[b]) /\ Shipmates(nodes, active, From[a], From[c])
      /\ Shipmates(nodes, active, From[a], From[d])
  BY <1>1
<1>3. \/ From[a] = From[b] \/ From[a] = From[c] \/ From[a] = From[d]
      \/ From[b] = From[c] \/ From[b] = From[d] \/ From[c] = From[d]
  BY <1>2 DEF Noah
<1> QED
  BY <1>1, <1>3

LEMMA NoahGrows ==
  ASSUME NEW nodes, NEW new, NEW active, SameNames(nodes, new), ActiveOK(nodes, active)
  PROVE  Noah(new, active)
<1> DEFINE From == [i \in DOMAIN active |-> i]
<1>1. ASSUME NEW i \in DOMAIN active, active[i] # Marker
      PROVE  /\ new[active[i]].tag = nodes[active[i]].tag /\ new[active[i]].ns = nodes[active[i]].ns
             /\ new[active[i]].attrs = nodes[active[i]].attrs
  <2>1. active[i] \in DOMAIN nodes /\ nodes[active[i]].tag \notin Amended
    BY <1>1 DEF ActiveOK, Unlisted
  <2> QED
    BY <2>1 DEF SameNames
<1>2. ASSUME NEW i \in DOMAIN active, NEW j \in DOMAIN active, Shipmates(new, active, i, j)
      PROVE  Shipmates(nodes, active, i, j)
  BY <1>1, <1>2 DEF Shipmates, Twins
<1>3. \A i \in DOMAIN active : From[i] = i
  OBVIOUS
<1> HIDE DEF From
<1>4. Noah(nodes, active)
  BY DEF ActiveOK
<1> QED
  BY <1>2, <1>3, <1>4, NoahMapped

LEMMA ActiveGrows ==
  ASSUME NEW nodes, NEW new, NEW active, SameNames(nodes, new), ActiveOK(nodes, active)
  PROVE  ActiveOK(new, active)
<1>1. DOMAIN nodes \union {Marker} \subseteq DOMAIN new \union {Marker}
  BY DEF SameNames
<1>2. active \in Seq(DOMAIN new \union {Marker})
  BY <1>1, SeqMonotonic DEF ActiveOK
<1>3. ASSUME NEW i \in DOMAIN active, active[i] # Marker
      PROVE  new[active[i]].tag \notin Unlisted
  <2>1. active[i] \in DOMAIN nodes
    BY <1>3 DEF ActiveOK
  <2> QED
    BY <1>3, <2>1 DEF ActiveOK, SameNames
<1> QED
  BY <1>2, <1>3, NoahGrows DEF ActiveOK

\* The stack keeps to the list if what is listed stands on it in the order it stood in.
LEMMA SegmentedMapped ==
  ASSUME NEW open, NEW active, Segmented(open, active), NEW stack, NEW From,
         \A a \in DOMAIN stack : In(active, stack[a]) => From[a] \in DOMAIN open /\ open[From[a]] = stack[a],
         \A a, b \in DOMAIN stack :
           In(active, stack[a]) /\ In(active, stack[b]) /\ From[a] < From[b] => a < b
  PROVE  Segmented(stack, active)
<1> SUFFICES ASSUME NEW k \in DOMAIN active, active[k] = Marker,
                    NEW i \in DOMAIN active, NEW j \in DOMAIN active, i < k, k < j,
                    NEW a \in DOMAIN stack, NEW b \in DOMAIN stack, active[i] = stack[a], active[j] = stack[b]
             PROVE  a < b
  BY DEF Segmented
<1>1. In(active, stack[a]) /\ In(active, stack[b])
  BY DEF In
<1>2. From[a] \in DOMAIN open /\ open[From[a]] = stack[a] /\ From[b] \in DOMAIN open /\ open[From[b]] = stack[b]
  BY <1>1
<1>3. From[a] < From[b]
  BY <1>2 DEF Segmented
<1> QED
  BY <1>1, <1>3

\* A stack whose listed elements kept their places.
LEMMA SegmentedKept ==
  ASSUME NEW open, NEW active, Segmented(open, active), NEW stack,
         \A a \in DOMAIN stack : In(active, stack[a]) => a \in DOMAIN open /\ open[a] = stack[a]
  PROVE  Segmented(stack, active)
BY DEF Segmented, In

\* Something that is not listed may be put anywhere on the stack.
LEMMA SegmentedWith ==
  ASSUME NEW open, NEW active, Segmented(open, active), NEW stack, NEW n, ~ In(active, n),
         \A a \in DOMAIN stack : stack[a] = n \/ (a \in DOMAIN open /\ open[a] = stack[a])
  PROVE  Segmented(stack, active)
<1>1. \A a \in DOMAIN stack : In(active, stack[a]) => a \in DOMAIN open /\ open[a] = stack[a]
  OBVIOUS
<1> QED
  BY <1>1, SegmentedKept

LEMMA ListedIs ==
  ASSUME NEW nodes, NEW active, ActiveOK(nodes, active), NEW n, In(active, n), n # Marker
  PROVE  n \in DOMAIN nodes /\ nodes[n].tag \notin Unlisted
<1>1. \A i \in DOMAIN active : active[i] \in DOMAIN nodes \union {Marker}
  BY LenProperties DEF ActiveOK
<1> QED
  BY <1>1 DEF ActiveOK, In

LEMMA FormGrows ==
  ASSUME NEW nodes, NEW new, NEW form, SameNames(nodes, new), FormOK(nodes, form)
  PROVE  FormOK(new, form)
BY DEF FormOK, SameNames

LEMMA StopsGrows ==
  ASSUME NEW nodes, NEW new, NEW base, SameNames(nodes, new), Stops(nodes, base), Len(base) \in Nat
  PROVE  Stops(new, base)
<1>1. Len(base) \in 1 .. Len(base)
  BY DEF Stops
<1>2. base[Len(base)] \in DOMAIN nodes
  BY <1>1 DEF Stops
<1> QED
  BY <1>2 DEF Stops, SameNames

\* Fewer templates on the stack need no more template modes.
LEMMA FewerTemplates ==
  ASSUME NEW nodes, NEW new, NEW open, NEW left, NEW modes, Typed(nodes),
         TemplatesIn(new, left) \subseteq TemplatesIn(nodes, open), TemplatesOK(nodes, open, modes)
  PROVE  TemplatesOK(new, left, modes)
<1>1. IsFiniteSet(DOMAIN nodes)
  BY LenProperties, FS_Interval DEF Typed
<1>2. IsFiniteSet(TemplatesIn(nodes, open))
  BY <1>1, FS_Subset DEF TemplatesIn
<1>3. /\ IsFiniteSet(TemplatesIn(new, left))
      /\ Cardinality(TemplatesIn(new, left)) <= Cardinality(TemplatesIn(nodes, open))
  BY <1>2, FS_Subset
<1>4. Cardinality(TemplatesIn(new, left)) \in Nat /\ Cardinality(TemplatesIn(nodes, open)) \in Nat
  BY <1>2, <1>3, FS_CardinalityType
<1>5. Len(modes) \in Nat
  BY LenProperties DEF TemplatesOK
<1> QED
  BY <1>3, <1>4, <1>5 DEF TemplatesOK

LEMMA TemplatesGrow ==
  ASSUME NEW nodes, NEW new, NEW open, NEW root, NEW modes, Typed(nodes),
         SameNames(nodes, new), OpenOK(nodes, open, root), TemplatesOK(nodes, open, modes)
  PROVE  TemplatesOK(new, open, modes)
<1>1. ASSUME NEW n \in TemplatesIn(new, open)
      PROVE  n \in TemplatesIn(nodes, open)
  <2>1. In(open, n) /\ new[n].tag = "template" /\ new[n].ns = "html"
    BY DEF TemplatesIn
  <2>2. n \in DOMAIN nodes
    BY <2>1 DEF In, OpenOK
  <2> QED
    BY <2>1, <2>2 DEF TemplatesIn, SameNames
<1>2. TemplatesIn(new, open) \subseteq TemplatesIn(nodes, open)
  BY <1>1
<1> QED
  BY <1>2, FewerTemplates

-----------------------------------------------------------------------------
(* What an operation may change.                                           *)

\* An operation on the nodes.
LEMMA KeptByNodes ==
  ASSUME NEW s, NEW F, K(s, F), NEW u, Grown(s, u),
         u.sound => u.bufferType \in Texts /\ NodesOK(u.nodes, F.root, F.head)
  PROVE  K(u, F)
<1> SUFFICES ASSUME u.sound PROVE Core(u) /\ Held(u, F)
  BY DEF K, Grown, Rest
<1>1. s.sound /\ Core(s) /\ Held(s, F) /\ SameNames(s.nodes, u.nodes)
  BY DEF K, Grown, Rest
<1>2. Typed(s.nodes)
  BY <1>1 DEF Core, NodesOK, Sound
<1>3. /\ OpenOK(u.nodes, u.open, u.root) /\ ActiveOK(u.nodes, u.active) /\ FormOK(u.nodes, u.form)
  BY <1>1, OpenGrows, ActiveGrows, FormGrows DEF Core, Grown, Rest
<1>4. TemplatesOK(u.nodes, u.open, u.templateModes)
  BY <1>1, <1>2, TemplatesGrow DEF Core, Grown
<1>5. Begins(u.open, F.base, F.head) /\ (F.stop => Stops(u.nodes, F.base))
  BY <1>1, StopsGrows DEF Held, Grown, Begins
<1> QED
  BY <1>1, <1>3, <1>4, <1>5 DEF Core, Held, Grown, Rest

\* An operation on the stack, which keeps the base and adds no template and no head.
LEMMA KeptByOpen ==
  ASSUME NEW s, NEW F, K(s, F), NEW u, Rest(s, u),
         u.active = s.active, u.form = s.form, u.templateModes = s.templateModes,
         u.sound =>
           /\ u.bufferType \in Texts /\ NodesOK(u.nodes, F.root, F.head) /\ SameNames(s.nodes, u.nodes)
           /\ OpenOK(u.nodes, u.open, F.root) /\ Begins(u.open, F.base, F.head)
           /\ TemplatesIn(u.nodes, u.open) \subseteq TemplatesIn(s.nodes, s.open)
           /\ Segmented(u.open, s.active)
  PROVE  K(u, F)
<1> SUFFICES ASSUME u.sound PROVE Core(u) /\ Held(u, F)
  BY DEF K, Rest
<1>1. s.sound /\ Core(s) /\ Held(s, F) /\ SameNames(s.nodes, u.nodes)
  BY DEF K, Rest
<1>2. Typed(s.nodes)
  BY <1>1 DEF Core, NodesOK, Sound
<1>3. ActiveOK(u.nodes, u.active) /\ FormOK(u.nodes, u.form)
  BY <1>1, ActiveGrows, FormGrows DEF Core
<1>4. TemplatesOK(u.nodes, u.open, u.templateModes)
  BY <1>1, <1>2, FewerTemplates DEF Core
<1>5. F.stop => Stops(u.nodes, F.base)
  BY <1>1, StopsGrows DEF Held, Begins
<1> QED
  BY <1>1, <1>3, <1>4, <1>5 DEF Core, Held, Rest

\* An operation on the list of active formatting elements, and one on nothing that matters here.
LEMMA KeptByActive ==
  ASSUME NEW s, NEW F, K(s, F), NEW u, Rest(s, u),
         u.nodes = s.nodes, u.open = s.open, u.form = s.form, u.templateModes = s.templateModes,
         u.sound => u.bufferType \in Texts /\ ActiveOK(s.nodes, u.active) /\ Segmented(s.open, u.active)
  PROVE  K(u, F)
BY DEF K, Rest, Core, Held

LEMMA KeptByNothing ==
  ASSUME NEW s, NEW F, K(s, F), NEW u, Rest(s, u),
         u.nodes = s.nodes, u.open = s.open, u.form = s.form, u.templateModes = s.templateModes,
         u.active = s.active, s.sound => u.bufferType \in Texts
  PROVE  K(u, F)
BY DEF K, Rest, Core, Held

\* The pairs of natural numbers of which the first is less.
LessThan == {p \in Nat \X Nat : p[1] < p[2]}

\* The library states it for the operator <; here it is a relation.
LEMMA LessThanIsWellFounded == IsWellFoundedOn(LessThan, Nat)
<1>1. OpToRel(<, Nat) = LessThan
  BY Zenon DEF OpToRel, LessThan
<1> QED
  BY <1>1, NatLessThanWellFounded, Zenon

\* A set of natural numbers that is not empty has a least element.
LEMMA LeastElement ==
  ASSUME NEW T \in SUBSET Nat, T # {}
  PROVE  \E x \in T : \A y \in T : x <= y
<1>1. PICK x \in T : \A y \in T : ~ (<<y, x>> \in LessThan)
  BY LessThanIsWellFounded, WFMin
<1>2. ASSUME NEW y \in T
      PROVE  x <= y
  <2>1. ~(<<y, x>> \in LessThan)
    BY <1>1
  <2>2. <<y, x>> \in Nat \X Nat
    OBVIOUS
  <2>3. ~(y < x)
    BY <2>1, <2>2 DEF LessThan
  <2> QED
    BY <2>3
<1> QED
  BY <1>2

\* Induction up to a number: a set that holds 0 and with each number the next holds them all.
LEMMA InductionUpTo ==
  ASSUME NEW n \in Nat, NEW T, 0 \in T, \A i \in 0 .. n - 1 : i \in T => i + 1 \in T
  PROVE  0 .. n \subseteq T
<1> SUFFICES ASSUME (0 .. n) \ T # {}
             PROVE  FALSE
  OBVIOUS
<1>0. (0 .. n) \ T \in SUBSET Nat
  OBVIOUS
<1>1. PICK x \in (0 .. n) \ T : \A y \in (0 .. n) \ T : x <= y
  BY <1>0, LeastElement
<1>2. x # 0
  BY <1>1
<1>3. x - 1 \in 0 .. n - 1 /\ x \in Nat
  BY <1>2
<1>4. x - 1 \in T
  <2>1. x - 1 \in 0 .. n /\ ~(x <= x - 1)
    BY <1>3
  <2> QED
    BY <1>1, <2>1
<1>5. (x - 1) + 1 \in T
  BY <1>3, <1>4
<1>6. (x - 1) + 1 = x
  BY <1>3
<1> QED
  BY <1>1, <1>5, <1>6

\* Greatest finds the greatest of a set of places, or 0.
LEMMA GreatestIs ==
  ASSUME NEW n \in Nat, NEW S \in SUBSET (1 .. n)
  PROVE  /\ Greatest(S) \in S \union {0} /\ Greatest(S) \in 0 .. n
         /\ \A y \in S : y <= Greatest(S)
<1> DEFINE T == {k \in 0 .. n : \A y \in S : y <= k}
<1>1. n \in T /\ T \in SUBSET Nat
  OBVIOUS
<1>2. PICK x \in T : \A y \in T : x <= y
  BY <1>1, LeastElement
<1>3. x \in S \union {0}
  <2> SUFFICES ASSUME x \notin S, x # 0 PROVE FALSE
    OBVIOUS
  <2>1. x - 1 \in 0 .. n /\ \A y \in S : y <= x - 1
    OBVIOUS
  <2>2. x - 1 \in T
    BY <2>1
  <2>3. x <= x - 1
    BY <1>2, <2>2
  <2> QED
    BY <2>1, <2>3
<1>4. \A y \in S : y <= x
  OBVIOUS
<1>5. Greatest(S) \in S \union {0} /\ \A y \in S : y <= Greatest(S)
  BY <1>3, <1>4 DEF Greatest
<1>6. S \union {0} \subseteq 0 .. n
  OBVIOUS
<1>7. Greatest(S) \in 0 .. n
  BY <1>5, <1>6
<1> QED
  BY <1>5, <1>7

\* IndexOf finds the place of an element of a vector that holds it once.
LEMMA IndexOfPlace ==
  ASSUME NEW S, NEW v \in Seq(S), NEW i \in DOMAIN v, NEW e, v[i] = e, \A j \in DOMAIN v : v[j] = e => j = i
  PROVE  IndexOf(v, e) = i - 1
BY IndexOfOnly

\* Without that, it finds a place.
LEMMA IndexOfIs ==
  ASSUME NEW S, NEW v \in Seq(S), NEW e
  PROVE  \/ IndexOf(v, e) = -1 /\ \A j \in DOMAIN v : v[j] # e
         \/ /\ IndexOf(v, e) \in 0 .. Len(v) - 1 /\ IndexOf(v, e) + 1 \in DOMAIN v
            /\ v[IndexOf(v, e) + 1] = e
<1>1. CASE \A j \in DOMAIN v : v[j] # e
  BY <1>1, IndexOfAbsent
<1>2. CASE \E j \in DOMAIN v : v[j] = e
  <2> DEFINE places == {i \in DOMAIN v : v[i] = e}
             first == CHOOSE i \in places : \A j \in places : i <= j
  <2>1. Len(v) \in Nat /\ DOMAIN v = 1 .. Len(v)
    BY LenProperties
  <2>2. places \in SUBSET Nat /\ places # {}
    BY <1>2, <2>1
  <2>3. \E i \in places : \A j \in places : i <= j
    BY <2>2, LeastElement
  <2>4. first \in places
    BY <2>3
  <2>5. IndexOf(v, e) = first - 1
    BY <2>2 DEF IndexOf
  <2> HIDE DEF first
  <2>6. first \in 1 .. Len(v) /\ v[first] = e
    BY <2>1, <2>4
  <2>7. IndexOf(v, e) + 1 = first /\ IndexOf(v, e) \in 0 .. Len(v) - 1
    BY <2>1, <2>5, <2>6
  <2> QED
    BY <2>1, <2>6, <2>7
<1> QED
  BY <1>1, <1>2

LEMMA VectorIndex ==
  ASSUME NEW v, Vector(v), NEW e
  PROVE  /\ IndexOf(v, e) \in Int /\ IndexOf(v, e) >= -1 /\ IndexOf(v, e) <= Len(v) - 1
         /\ Vector(Remove(v, e))
<1>1. PICK S : v \in Seq(S)
  BY DEF Vector
<1>2. IndexOf(v, e) = -1 \/ IndexOf(v, e) \in 0 .. Len(v) - 1
  BY <1>1, IndexOfIs
<1>3. Len(v) \in Nat
  BY VectorIs
<1>4. IndexOf(v, e) \in Int /\ IndexOf(v, e) >= -1 /\ IndexOf(v, e) <= Len(v) - 1
  BY <1>2, <1>3
<1>5. Vector(Remove(v, e))
  BY <1>4, VectorChanged DEF Remove
<1> QED
  BY <1>4, <1>5

\* The places in the stack and in the list are numbers, also when an assertion has failed.
LEMMA GreatestInList ==
  ASSUME NEW v, Vector(v), NEW S, S \subseteq DOMAIN v
  PROVE  Greatest(S) \in 0 .. Len(v) /\ Greatest(S) \in Int /\ Len(v) \in Nat
<1>1. Len(v) \in Nat /\ S \in SUBSET (1 .. Len(v))
  BY VectorIs
<1>2. Greatest(S) \in 0 .. Len(v)
  BY <1>1, GreatestIs
<1> QED
  BY <1>1, <1>2

-----------------------------------------------------------------------------
(* The operations on one field.                                            *)

LEMMA ClaimK ==
  ASSUME NEW s, NEW F, K(s, F), NEW holds \in BOOLEAN
  PROVE  K(Claim(s, holds), F) /\ Grown(s, Claim(s, holds)) /\ (Claim(s, holds).sound => s.sound /\ holds)
         /\ Claim(s, holds).nodes = s.nodes /\ Claim(s, holds).bufferType = s.bufferType
<1> DEFINE u == Claim(s, holds)
<1>1. Rest(s, u) /\ (u.sound => s.sound /\ holds)
      /\ u.nodes = s.nodes /\ u.open = s.open /\ u.form = s.form /\ u.templateModes = s.templateModes
      /\ u.active = s.active /\ u.bufferType = s.bufferType
  BY DEF K, Rest, Claim, Rec, StateFields
<1>2. s.sound => u.bufferType \in Texts
  BY <1>1 DEF K, Core
<1> HIDE DEF u
<1>3. K(u, F) /\ Grown(s, u)
  BY <1>1, <1>2, KeptByNothing DEF Grown, SameNames
<1> QED
  BY <1>1, <1>3 DEF u

LEMMA AgainK ==
  ASSUME NEW s, NEW F, K(s, F)
  PROVE  K(Again(s), F)
<1> DEFINE u == Again(s)
<1>1. Rest(s, u)
      /\ u.nodes = s.nodes /\ u.open = s.open /\ u.form = s.form /\ u.templateModes = s.templateModes
      /\ u.active = s.active /\ u.bufferType = s.bufferType
  BY DEF K, Rest, Again, Rec, StateFields
<1>2. s.sound => u.bufferType \in Texts
  BY <1>1 DEF K, Core
<1> HIDE DEF u
<1> QED
  BY <1>1, <1>2, KeptByNothing DEF u

LEMMA NoFramesetK ==
  ASSUME NEW s, NEW F, K(s, F)
  PROVE  K(NoFrameset(s), F)
<1> DEFINE u == NoFrameset(s)
<1>1. Rest(s, u)
      /\ u.nodes = s.nodes /\ u.open = s.open /\ u.form = s.form /\ u.templateModes = s.templateModes
      /\ u.active = s.active /\ u.bufferType = s.bufferType
  BY DEF K, Rest, NoFrameset, Rec, StateFields
<1>2. s.sound => u.bufferType \in Texts
  BY <1>1 DEF K, Core
<1> HIDE DEF u
<1> QED
  BY <1>1, <1>2, KeptByNothing DEF u

LEMMA FosterK ==
  ASSUME NEW s, NEW F, K(s, F), NEW flag
  PROVE  K([s EXCEPT !.foster = flag], F)
<1> DEFINE u == [s EXCEPT !.foster = flag]
<1>1. Rest(s, u)
      /\ u.nodes = s.nodes /\ u.open = s.open /\ u.form = s.form /\ u.templateModes = s.templateModes
      /\ u.active = s.active /\ u.bufferType = s.bufferType
  BY DEF K, Rest, Rec, StateFields
<1>2. s.sound => u.bufferType \in Texts
  BY <1>1 DEF K, Core
<1> HIDE DEF u
<1> QED
  BY <1>1, <1>2, KeptByNothing DEF u

LEMMA InsertTextK ==
  ASSUME NEW s, NEW F, K(s, F), NEW t
  PROVE  K(InsertText(s, t), F)
<1> DEFINE u == InsertText(s, t)
<1>1. Rest(s, u)
      /\ u.nodes = s.nodes /\ u.open = s.open /\ u.form = s.form /\ u.templateModes = s.templateModes
      /\ u.active = s.active
  BY DEF K, Rest, InsertText, Rec, StateFields
<1>2. u.bufferType = CASE t.type = "Character" -> "text" [] t.type = "CData" -> "cdata" [] OTHER -> s.bufferType
  BY DEF K, InsertText, Rec, StateFields
<1>3. u.bufferType \in {"text", "cdata", s.bufferType}
  BY <1>2
<1>4. s.sound => u.bufferType \in Texts
  BY <1>3 DEF K, Core, Texts
<1> HIDE DEF u
<1> QED
  BY <1>1, <1>4, KeptByNothing DEF u

LEMMA GoK ==
  ASSUME NEW s, NEW F, K(s, F), NEW mode \in F.modes
  PROVE  K(Go(s, mode), F)
<1> DEFINE u == Go(s, mode)
<1>1. Rec(u) /\ u.root = s.root /\ u.head = s.head /\ u.mode = mode /\ u.original = s.original
      /\ u.rules = s.rules /\ u.sound = s.sound
      /\ u.nodes = s.nodes /\ u.open = s.open /\ u.form = s.form /\ u.templateModes = s.templateModes
      /\ u.active = s.active /\ u.bufferType = s.bufferType
  BY DEF K, Rest, Go, Rec, StateFields
<1> HIDE DEF u
<1>2. K(u, F)
  BY <1>1 DEF K, Core, Held
<1> QED
  BY <1>2 DEF u

LEMMA MarkerIsNoNode ==
  ASSUME NEW s, Core(s)
  PROVE  Marker \notin DOMAIN s.nodes /\ \A a \in DOMAIN s.open : s.open[a] \in DOMAIN s.nodes
<1>1. \A n \in DOMAIN s.nodes : n \in Nat
  BY NodeFields DEF Core, NodesOK, Sound
<1>2. Marker \notin DOMAIN s.nodes
  BY <1>1 DEF Marker
<1>3. s.open \in Seq(DOMAIN s.nodes)
  BY DEF Core, OpenOK
<1> QED
  BY <1>2, <1>3, LenProperties

\* A list and a beginning of it, or a list with something appended, agree on the places they share.
LEMMA NoahShared ==
  ASSUME NEW nodes, NEW active, Noah(nodes, active), NEW list,
         \A i \in DOMAIN list : list[i] # Marker => i \in DOMAIN active /\ active[i] = list[i],
         \A k \in DOMAIN active : active[k] = Marker =>
           \/ k \in DOMAIN list /\ list[k] = Marker
           \/ \A i \in DOMAIN list : list[i] # Marker => i < k /\ ~ k < i
  PROVE  Noah(nodes, list)
<1> DEFINE From == [i \in DOMAIN list |-> i]
<1>1. ASSUME NEW i \in DOMAIN list, NEW j \in DOMAIN list, Shipmates(nodes, list, i, j)
      PROVE  Shipmates(nodes, active, i, j)
  <2>1. list[i] # Marker /\ list[j] # Marker /\ active[i] = list[i] /\ active[j] = list[j]
    BY <1>1 DEF Shipmates
  <2>2. ASSUME NEW k \in DOMAIN active, active[k] = Marker
        PROVE  k < i <=> k < j
    BY <1>1, <2>1, <2>2 DEF Shipmates
  <2> QED
    BY <1>1, <2>1, <2>2 DEF Shipmates
<1>2. \A i \in DOMAIN list : From[i] = i
  OBVIOUS
<1> HIDE DEF From
<1> QED
  BY <1>1, <1>2, NoahMapped

LEMMA MarkerListed ==
  ASSUME NEW nodes, NEW open, NEW active, ActiveOK(nodes, active), Segmented(open, active),
         Marker \notin DOMAIN nodes, \A a \in DOMAIN open : open[a] \in DOMAIN nodes
  PROVE  ActiveOK(nodes, Append(active, Marker)) /\ Segmented(open, Append(active, Marker))
<1> DEFINE v == Append(active, Marker)
           S == DOMAIN nodes \union {Marker}
<1>2. active \in Seq(S) /\ Marker \in S
  BY DEF ActiveOK
<1> HIDE DEF S
<1>3. /\ v \in Seq(S) /\ DOMAIN v = 1 .. Len(active) + 1 /\ DOMAIN active = 1 .. Len(active)
      /\ Len(active) \in Nat
      /\ v[Len(active) + 1] = Marker /\ \A i \in DOMAIN active : v[i] = active[i]
  BY <1>2, AppendProperties, LenProperties
<1> HIDE DEF v
<1>4. \A i \in DOMAIN v : v[i] # Marker => i \in DOMAIN active
  BY <1>3
<1>5. Noah(nodes, v)
  BY <1>3, <1>4, NoahShared DEF ActiveOK
<1>6. ActiveOK(nodes, v)
  BY <1>3, <1>4, <1>5 DEF ActiveOK, S
<1>7. \A k, j \in DOMAIN v : k < j => k \in DOMAIN active
  BY <1>3
<1>8. ASSUME NEW k \in DOMAIN v, v[k] = Marker, NEW i \in DOMAIN v, NEW j \in DOMAIN v, i < k, k < j
      PROVE  /\ k \in DOMAIN active /\ i \in DOMAIN active
             /\ (v[j] # Marker => j \in DOMAIN active)
  BY <1>3, <1>4, <1>7, <1>8
<1>9. Segmented(open, v)
  BY <1>3, <1>8 DEF Segmented
<1> QED
  BY <1>6, <1>9 DEF v

LEMMA AddMarkerK ==
  ASSUME NEW s, NEW F, K(s, F)
  PROVE  K(AddMarker(s), F)
<1> DEFINE u == AddMarker(s)
<1>1. Rest(s, u)
      /\ u.nodes = s.nodes /\ u.open = s.open /\ u.form = s.form /\ u.templateModes = s.templateModes
      /\ u.active = Append(s.active, Marker) /\ u.bufferType = s.bufferType
  <2>1. Vector(Append(s.active, Marker))
    BY VectorAppended DEF K, Rec
  <2> QED
    BY <2>1 DEF K, Rest, AddMarker, Add, Rec, StateFields
<1> HIDE DEF u
<1>2. ASSUME s.sound PROVE u.bufferType \in Texts /\ ActiveOK(s.nodes, u.active) /\ Segmented(s.open, u.active)
  <2>1. ActiveOK(s.nodes, s.active) /\ Segmented(s.open, s.active) /\ s.bufferType \in Texts
    BY <1>2 DEF K, Core
  <2>2. Marker \notin DOMAIN s.nodes /\ \A a \in DOMAIN s.open : s.open[a] \in DOMAIN s.nodes
    BY <1>2, MarkerIsNoNode DEF K, Core
  <2> QED
    BY <1>1, <2>1, <2>2, MarkerListed
<1> QED
  BY <1>1, <1>2, KeptByActive DEF u, Rest

\* Any beginning of the list of active formatting elements, and the list without an entry.
LEMMA ActivePrefix ==
  ASSUME NEW nodes, NEW active, ActiveOK(nodes, active), NEW k \in -1 .. Len(active)
  PROVE  /\ ActiveOK(nodes, SubSeq(active, 1, k))
         /\ \A open : Segmented(open, active) => Segmented(open, SubSeq(active, 1, k))
<1> DEFINE v == SubSeq(active, 1, k)
           S == DOMAIN nodes \union {Marker}
<1>1. active \in Seq(S)
  BY DEF ActiveOK
<1> HIDE DEF S
<1>2. Len(active) \in Nat /\ DOMAIN active = 1 .. Len(active) /\ \A i \in DOMAIN active : active[i] \in S
  BY <1>1, LenProperties
<1>3. /\ v \in Seq(S) /\ DOMAIN v = 1 .. (IF k < 0 THEN 0 ELSE k)
      /\ \A i \in DOMAIN v : i \in DOMAIN active /\ v[i] = active[i]
  <2>1. k \in Int /\ \A i \in 1 .. k : active[i] \in S
    BY <1>2
  <2>2. v \in Seq(S) /\ Len(v) = (IF 1 <= k THEN k - 1 + 1 ELSE 0) /\ \A i \in 1 .. k - 1 + 1 : v[i] = active[1 + i - 1]
    BY <2>1, SubSeqProperties
  <2> HIDE DEF v
  <2>3. DOMAIN v = 1 .. Len(v)
    BY <2>2, LenProperties
  <2> QED
    BY <1>2, <2>2, <2>3
<1> HIDE DEF v
<1>4. Noah(nodes, v)
  <2>1. \A m \in DOMAIN active : m \in DOMAIN v \/ \A i \in DOMAIN v : i < m /\ ~ m < i
    BY <1>2, <1>3
  <2> QED
    BY <1>3, <2>1, NoahShared DEF ActiveOK
<1>5. ActiveOK(nodes, v)
  BY <1>3, <1>4 DEF ActiveOK, S
<1>6. \A open : Segmented(open, active) => Segmented(open, v)
  BY <1>3 DEF Segmented
<1> QED
  BY <1>5, <1>6 DEF v

LEMMA ClearFormattingK ==
  ASSUME NEW s, NEW F, K(s, F)
  PROVE  K(ClearFormatting(s), F)
<1> DEFINE u == ClearFormatting(s)
           marker == Greatest({i \in DOMAIN s.active : s.active[i] = Marker})
<1>1. Rest(s, u)
      /\ u.nodes = s.nodes /\ u.open = s.open /\ u.form = s.form /\ u.templateModes = s.templateModes
      /\ u.active = SubSeq(s.active, 1, marker - 1) /\ u.bufferType = s.bufferType
  <2>1. marker \in Int
    <3>1. {i \in DOMAIN s.active : s.active[i] = Marker} \subseteq DOMAIN s.active /\ Vector(s.active)
      BY DEF K, Rec
    <3> QED
      BY <3>1, GreatestInList
  <2>2. Vector(SubSeq(s.active, 1, marker - 1))
    BY <2>1, SubSeqIsVector
  <2>3. u = [s EXCEPT !.active = SubSeq(@, 1, marker - 1)]
    BY DEF ClearFormatting
  <2> HIDE DEF marker
  <2> QED
    BY <2>2, <2>3 DEF K, Rest, Rec, StateFields
<1> HIDE DEF u
<1>2. ASSUME s.sound PROVE u.bufferType \in Texts /\ ActiveOK(s.nodes, u.active) /\ Segmented(s.open, u.active)
  <2>1. ActiveOK(s.nodes, s.active) /\ Segmented(s.open, s.active) /\ s.bufferType \in Texts
    BY <1>2 DEF K, Core
  <2>2. Len(s.active) \in Nat /\ DOMAIN s.active = 1 .. Len(s.active)
    BY <2>1, LenProperties DEF ActiveOK
  <2>3. marker \in 0 .. Len(s.active)
    BY <2>2, GreatestIs
  <2> HIDE DEF marker
  <2>4. marker - 1 \in -1 .. Len(s.active)
    BY <2>2, <2>3
  <2>5. ActiveOK(s.nodes, SubSeq(s.active, 1, marker - 1)) /\ Segmented(s.open, SubSeq(s.active, 1, marker - 1))
    BY <2>1, <2>4, ActivePrefix
  <2> QED
    BY <1>1, <2>1, <2>5
<1> QED
  BY <1>1, <1>2, KeptByActive DEF u, Rest

LEMMA VectorFacts ==
  ASSUME NEW S, NEW v \in Seq(S)
  PROVE  /\ Len(v) \in Nat /\ DOMAIN v = 1 .. Len(v) /\ \A i \in DOMAIN v : v[i] \in S
         /\ v # <<>> => Len(v) # 0 /\ 1 \in DOMAIN v /\ Len(v) \in DOMAIN v /\ Top(v) \in S
         /\ v = <<>> => Len(v) = 0
<1>1. Len(v) \in Nat /\ DOMAIN v = 1 .. Len(v) /\ \A i \in DOMAIN v : v[i] \in S
  BY LenProperties
<1>2. v = <<>> <=> Len(v) = 0
  BY EmptySeq
<1> QED
  BY <1>1, <1>2 DEF Top

\* The links agree, and what a location is looked for in exists.
Rooted(s) ==
  /\ Sound(s.nodes)
  /\ Document \in DOMAIN s.nodes /\ s.nodes[Document].tag = NoTag
  /\ s.open \in Seq(DOMAIN s.nodes)
  /\ s.open # <<>> => s.nodes[s.open[1]].tag = "html"

LEMMA CoreIsRooted ==
  ASSUME NEW s, Core(s)
  PROVE  Rooted(s)
<1>1. OpenOK(s.nodes, s.open, s.root) /\ NodesOK(s.nodes, s.root, s.head)
  BY DEF Core
<1>2. ASSUME s.open # <<>> PROVE s.nodes[s.open[1]].tag = "html"
  <2>1. 1 \in DOMAIN s.open
    BY <1>1, <1>2, VectorFacts DEF OpenOK
  <2>2. s.open[1] \in DOMAIN s.nodes /\ s.open[1] = s.root
    BY <1>1, <1>2, <2>1 DEF OpenOK
  <2>3. s.root # NoNode
    BY <1>1, <2>2, NodeFields DEF NodesOK, Sound
  <2> QED
    BY <1>1, <2>2, <2>3 DEF NodesOK
<1> QED
  BY <1>1, <1>2 DEF Rooted, NodesOK, OpenOK

LEMMA StackFacts ==
  ASSUME NEW s, Rooted(s)
  PROVE  /\ Len(s.open) \in Nat /\ DOMAIN s.open = 1 .. Len(s.open)
         /\ \A i \in DOMAIN s.open : s.open[i] \in DOMAIN s.nodes
         /\ s.open # <<>> <=> Len(s.open) # 0
         /\ Len(s.nodes) \in Nat /\ DOMAIN s.nodes = 1 .. Len(s.nodes)
         /\ Current(s) \in DOMAIN s.nodes
<1>1. /\ Len(s.open) \in Nat /\ DOMAIN s.open = 1 .. Len(s.open)
      /\ \A i \in DOMAIN s.open : s.open[i] \in DOMAIN s.nodes
      /\ s.open # <<>> <=> Len(s.open) # 0
      /\ s.open # <<>> => Top(s.open) \in DOMAIN s.nodes
  <2>1. s.open \in Seq(DOMAIN s.nodes)
    BY DEF Rooted
  <2> QED
    BY <2>1, VectorFacts
<1>2. Len(s.nodes) \in Nat /\ DOMAIN s.nodes = 1 .. Len(s.nodes)
  BY NodeFields DEF Rooted, Sound
<1>3. Current(s) \in DOMAIN s.nodes
  BY <1>1 DEF Current, Rooted
<1> QED
  BY <1>1, <1>2, <1>3

\* The highest place of an element with one of the tags is a place, or 0.
LEMMA PlaceOfIs ==
  ASSUME NEW s, Rooted(s), NEW tags
  PROVE  /\ PlaceOf(s, tags) \in 0 .. Len(s.open)
         /\ PlaceOf(s, tags) # 0 => PlaceOf(s, tags) \in DOMAIN s.open /\ IsHtml(s, s.open[PlaceOf(s, tags)], tags)
         /\ \A i \in DOMAIN s.open : IsHtml(s, s.open[i], tags) => i <= PlaceOf(s, tags)
<1> DEFINE S == {i \in DOMAIN s.open : IsHtml(s, s.open[i], tags)}
<1>1. Len(s.open) \in Nat /\ S \in SUBSET (1 .. Len(s.open))
  BY StackFacts
<1>2. /\ Greatest(S) \in S \union {0} /\ Greatest(S) \in 0 .. Len(s.open)
      /\ \A y \in S : y <= Greatest(S)
  BY <1>1, GreatestIs
<1>3. PlaceOf(s, tags) = Greatest(S)
  BY DEF PlaceOf
<1> QED
  BY <1>2, <1>3

\* A node goes below a node there is, behind its children or before one of them.
LEMMA LocationIs ==
  ASSUME NEW s, Rooted(s), NEW override \in DOMAIN s.nodes \union {NoNode}, override # NoNode => s.open # <<>>
  PROVE  \E target \in DOMAIN s.nodes, index \in Int :
           InsertionLocation(s, override) = At(target, index) /\ (index = -1 \/ index >= 0)
<1> DEFINE target == IF override # NoNode THEN override ELSE IF s.root # NoNode THEN Current(s) ELSE Document
           table == PlaceOf(s, {"table"})
           template == PlaceOf(s, {"template"})
<1>1. target \in DOMAIN s.nodes
  BY StackFacts DEF Rooted
<1>2. InsertionLocation(s, override) = LocationIn(s, target)
  BY DEF InsertionLocation
<1>3. CASE ~(s.foster /\ IsHtml(s, target, TableParts))
  <2>1. InsertionLocation(s, override) = At(target, -1)
    BY <1>2, <1>3 DEF LocationIn
  <2> QED
    BY <1>1, <2>1
<1>4. CASE s.foster /\ IsHtml(s, target, TableParts)
  <2>1. s.open # <<>>
    <3> SUFFICES ASSUME s.open = <<>> PROVE FALSE
      OBVIOUS
    <3>1. target = Document
      BY DEF Current
    <3>2. s.nodes[Document].tag \in TableParts
      BY <1>4, <3>1 DEF IsHtml, IsElement
    <3> QED
      BY <3>2, NoTagFacts DEF Rooted, TableParts
  <2>2. /\ Len(s.open) \in Nat /\ Len(s.open) >= 1 /\ DOMAIN s.open = 1 .. Len(s.open)
        /\ \A i \in DOMAIN s.open : s.open[i] \in DOMAIN s.nodes
    BY <2>1, StackFacts
  <2>3. /\ table \in 0 .. Len(s.open) /\ template \in 0 .. Len(s.open)
        /\ table # 0 => table \in DOMAIN s.open /\ IsHtml(s, s.open[table], {"table"})
    BY PlaceOfIs
  <2>4. InsertionLocation(s, override) = FosterLocation(s, template, table)
    BY <1>2, <1>4 DEF LocationIn
  <2> HIDE DEF target, table, template
  <2>5. CASE template > table
    <3>1. s.open[template] \in DOMAIN s.nodes
      BY <2>2, <2>3, <2>5
    <3>2. InsertionLocation(s, override) = At(s.open[template], -1)
      BY <2>4, <2>5 DEF FosterLocation
    <3> QED
      BY <3>1, <3>2
  <2>6. CASE ~(template > table) /\ table = 0
    <3>1. s.open[1] \in DOMAIN s.nodes
      BY <2>2
    <3>2. InsertionLocation(s, override) = At(s.open[1], -1)
      BY <2>4, <2>6 DEF FosterLocation
    <3> QED
      BY <3>1, <3>2
  <2>7. CASE ~(template > table) /\ table # 0
    <3> DEFINE n == s.open[table]
    <3>1. n \in DOMAIN s.nodes /\ s.nodes[n].tag = "table"
      BY <2>2, <2>3, <2>7 DEF IsHtml, IsElement
    <3>2. table - 1 \in DOMAIN s.open
      <4>1. table # 1
        BY <2>1, <3>1 DEF Rooted
      <4> QED
        BY <2>2, <2>3, <2>7, <4>1
    <3>3. s.open[table - 1] \in DOMAIN s.nodes
      BY <2>2, <3>2
    <3>4. InsertionLocation(s, override) = BeforeTable(s, table, s.nodes[n])
      BY <2>4, <2>7 DEF FosterLocation
    <3> HIDE DEF n
    <3>5. CASE s.nodes[n].parent = NoNode
      <4>1. InsertionLocation(s, override) = At(s.open[table - 1], -1)
        BY <3>4, <3>5 DEF BeforeTable
      <4> QED
        BY <3>3, <4>1
    <3>6. CASE s.nodes[n].parent # NoNode
      <4>1. InsertionLocation(s, override) = At(s.nodes[n].parent, s.nodes[n].index)
        BY <3>4, <3>6 DEF BeforeTable
      <4>2. s.nodes[n].parent \in DOMAIN s.nodes /\ s.nodes[n].index \in Int
        BY <3>1, <3>6, NodeFields DEF Rooted, Sound
      <4>3. s.nodes[n].index + 1 \in DOMAIN s.nodes[s.nodes[n].parent].children
        BY <3>1, <3>6 DEF Rooted, Sound, ParentsPointDown
      <4>4. s.nodes[n].index >= 0
        <5>1. /\ Len(s.nodes[s.nodes[n].parent].children) \in Nat
              /\ DOMAIN s.nodes[s.nodes[n].parent].children = 1 .. Len(s.nodes[s.nodes[n].parent].children)
          BY <4>2, NodeFields DEF Rooted, Sound
        <5> DEFINE k == Len(s.nodes[s.nodes[n].parent].children)
                   index == s.nodes[n].index
        <5>2. k \in Nat /\ index \in Int /\ index + 1 \in 1 .. k
          BY <4>2, <4>3, <5>1
        <5> HIDE DEF k, index
        <5>3. index >= 0
          BY <5>2
        <5> QED
          BY <5>3 DEF index
      <4> QED
        BY <4>1, <4>2, <4>4
    <3> QED
      BY <3>5, <3>6
  <2> QED
    BY <2>5, <2>6, <2>7
<1> QED
  BY <1>3, <1>4

-----------------------------------------------------------------------------
(* Making nodes.                                                           *)

\* What an operation does that changes the links of the nodes there are.
Linking(s, u) ==
  /\ Grown(s, u) /\ u.bufferType = s.bufferType
  /\ u.sound => Sound(u.nodes) /\ DOMAIN u.nodes = DOMAIN s.nodes

LEMMA AppendedLinks ==
  ASSUME NEW s, Rec(s), s.sound => Sound(s.nodes), NEW parent, NEW n,
         s.sound => parent \in DOMAIN s.nodes /\ n \in DOMAIN s.nodes
  PROVE  Linking(s, Appended(s, parent, n))
<1> DEFINE u == Appended(s, parent, n)
           holds == Unlinked(s, n) /\ s.nodes[parent].type \in Elements \union {"document"}
<1>1. /\ Rec(u) /\ u.sound = (s.sound /\ holds) /\ u.nodes = AppendNode(s.nodes, parent, n)
      /\ u.root = s.root /\ u.head = s.head /\ u.mode = s.mode /\ u.original = s.original /\ u.rules = s.rules
      /\ u.open = s.open /\ u.active = s.active /\ u.form = s.form /\ u.templateModes = s.templateModes
      /\ u.bufferType = s.bufferType
  <2>1. holds \in BOOLEAN
    BY DEF Unlinked
  <2> HIDE DEF holds
  <2>2. u = [Claim(s, holds) EXCEPT !.nodes = AppendNode(s.nodes, parent, n)]
    BY DEF Appended, holds
  <2> HIDE DEF u
  <2> QED
    BY <2>1, <2>2 DEF Rec, Claim, StateFields
<1> HIDE DEF u
<1>2. ASSUME u.sound
      PROVE  Sound(u.nodes) /\ DOMAIN u.nodes = DOMAIN s.nodes /\ SameNames(s.nodes, u.nodes)
  <2>1. s.sound /\ s.nodes[n].parent = NoNode
    BY <1>1, <1>2 DEF Unlinked, Rec
  <2> QED
    BY <1>1, <2>1, AppendNodeKeeps
<1>3. Linking(s, u)
  BY <1>1, <1>2 DEF Linking, Grown, Rest, Rec
<1> QED
  BY <1>3 DEF u

LEMMA InsertedLinks ==
  ASSUME NEW s, Rec(s), s.sound => Sound(s.nodes), NEW n, NEW target, NEW index,
         s.sound => /\ target \in DOMAIN s.nodes /\ n \in DOMAIN s.nodes
                    /\ index \in Int /\ (index = -1 \/ index >= 0)
  PROVE  Linking(s, Inserted(s, n, At(target, index)))
<1> DEFINE at == At(target, index)
           u == Inserted(s, n, at)
           holds == /\ Unlinked(s, n)
                    /\ s.nodes[target].type \in Elements
                    /\ index < Len(s.nodes[target].children)
<1>1. at.target = target /\ at.index = index /\ at = [target |-> target, index |-> index]
  BY DEF At
<1> HIDE DEF at
<1>2. CASE index = -1
  <2>1. u = Appended(s, target, n)
    BY <1>1, <1>2 DEF Inserted
  <2> QED
    BY <2>1, AppendedLinks DEF at
<1>3. CASE index # -1
  <2>1. /\ Rec(u) /\ u.sound = (s.sound /\ holds) /\ u.nodes = InsertNode(s.nodes, n, at)
        /\ u.root = s.root /\ u.head = s.head /\ u.mode = s.mode /\ u.original = s.original /\ u.rules = s.rules
        /\ u.open = s.open /\ u.active = s.active /\ u.form = s.form /\ u.templateModes = s.templateModes
        /\ u.bufferType = s.bufferType
    <3>1. holds \in BOOLEAN
      BY DEF Unlinked
    <3>2. u = [Claim(s, holds) EXCEPT !.nodes = InsertNode(s.nodes, n, at)]
      BY <1>1, <1>3 DEF Inserted
    <3> HIDE DEF u, holds
    <3> QED
      BY <3>1, <3>2 DEF Rec, Claim, StateFields
  <2> HIDE DEF u
  <2>2. ASSUME u.sound
        PROVE  Sound(u.nodes) /\ DOMAIN u.nodes = DOMAIN s.nodes /\ SameNames(s.nodes, u.nodes)
    <3>1. s.sound /\ s.nodes[n].parent = NoNode /\ index < Len(s.nodes[target].children)
      BY <2>1, <2>2 DEF Unlinked, Rec
    <3>2. target \in DOMAIN s.nodes /\ n \in DOMAIN s.nodes /\ index \in Int /\ index >= 0 /\ Sound(s.nodes)
      BY <1>3, <3>1
    <3>3. Len(s.nodes[target].children) \in Nat
      BY <3>2, NodeFields DEF Sound
    <3>4. index \in 0 .. Len(s.nodes[target].children) - 1
      BY <3>1, <3>2, <3>3
    <3> QED
      BY <1>1, <2>1, <3>1, <3>2, <3>4, InsertNodeKeeps
  <2>3. Linking(s, u)
    BY <2>1, <2>2 DEF Linking, Grown, Rest, Rec
  <2> QED
    BY <2>3 DEF u, at
<1> QED
  BY <1>2, <1>3

\* A node as the parser makes it.
Fresh(node) ==
  node \in [type : {node.type}, tag : {node.tag}, ns : {node.ns}, attrs : {node.attrs},
            text : {node.text}, parent : {NoNode}, index : {-1}, children : {<<>>}]

\* There is one node more, with the names of this one.
Made(s, u, node) ==
  /\ Grown(s, u) /\ u.bufferType = s.bufferType
  /\ u.sound =>
       /\ Sound(u.nodes)
       /\ Len(s.nodes) \in Nat /\ Len(u.nodes) = Len(s.nodes) + 1
       /\ DOMAIN s.nodes = 1 .. Len(s.nodes) /\ DOMAIN u.nodes = 1 .. Len(s.nodes) + 1
       /\ u.nodes[Len(s.nodes) + 1].tag = node.tag /\ u.nodes[Len(s.nodes) + 1].ns = node.ns
       /\ u.nodes[Len(s.nodes) + 1].type = node.type
       /\ node.tag \notin Amended => u.nodes[Len(s.nodes) + 1].attrs = node.attrs

LEMMA CreatedMakes ==
  ASSUME NEW s, Rec(s), s.sound => Rooted(s), NEW node, Fresh(node)
  PROVE  /\ Made(s, Created(s, node), node)
         /\ Created(s, node).sound => Rooted(Created(s, node))
<1> DEFINE u == Created(s, node)
<1>1. /\ Rec(u) /\ u.sound = s.sound /\ u.nodes = Append(s.nodes, node)
      /\ u.root = s.root /\ u.head = s.head /\ u.mode = s.mode /\ u.original = s.original /\ u.rules = s.rules
      /\ u.open = s.open /\ u.active = s.active /\ u.form = s.form /\ u.templateModes = s.templateModes
      /\ u.bufferType = s.bufferType
  BY DEF Created, Rec, StateFields
<1> HIDE DEF u
<1>2. ASSUME s.sound
      PROVE  /\ Sound(u.nodes) /\ SameNames(s.nodes, u.nodes)
             /\ Len(u.nodes) = Len(s.nodes) + 1 /\ Len(s.nodes) \in Nat
             /\ DOMAIN s.nodes = 1 .. Len(s.nodes) /\ DOMAIN u.nodes = 1 .. Len(s.nodes) + 1
             /\ u.nodes[Len(s.nodes) + 1] = node /\ \A m \in DOMAIN s.nodes : u.nodes[m] = s.nodes[m]
  <2>1. Sound(s.nodes)
    BY <1>2 DEF Rooted
  <2>2. node \in [type : {node.type}, tag : {node.tag}, ns : {node.ns}, attrs : {node.attrs},
                  text : {node.text}, parent : {NoNode}, index : {-1}, children : {<<>>}]
    BY DEF Fresh
  <2> DEFINE new == Append(s.nodes, node)
  <2>3. /\ Sound(new) /\ SameNames(s.nodes, new)
        /\ Len(new) = Len(s.nodes) + 1 /\ Len(s.nodes) \in Nat
        /\ DOMAIN s.nodes = 1 .. Len(s.nodes) /\ DOMAIN new = 1 .. Len(s.nodes) + 1
        /\ new[Len(s.nodes) + 1] = node /\ \A m \in DOMAIN s.nodes : new[m] = s.nodes[m]
    BY <2>1, <2>2, NodeAddedKeeps
  <2> QED
    BY <1>1, <2>3
<1>3. Made(s, u, node)
  BY <1>1, <1>2 DEF Made, Grown, Rest, Fresh
<1>4. ASSUME s.sound PROVE Rooted(u)
  <2>1. s.open \in Seq(DOMAIN s.nodes) /\ DOMAIN s.nodes \subseteq DOMAIN u.nodes
    BY <1>2, <1>4 DEF Rooted, SameNames
  <2>2. s.open \in Seq(DOMAIN u.nodes)
    BY <2>1, SeqMonotonic
  <2>3. s.open # <<>> => s.open[1] \in DOMAIN s.nodes
    BY <1>4, StackFacts
  <2> QED
    BY <1>1, <1>2, <1>4, <2>1, <2>2, <2>3 DEF Rooted
<1> QED
  BY <1>1, <1>3, <1>4 DEF u

LEMMA LinkingMakes ==
  ASSUME NEW s, NEW mid, NEW u, NEW node, Made(s, mid, node), Linking(mid, u)
  PROVE  Made(s, u, node)
<1>1. Grown(s, u) /\ u.bufferType = s.bufferType /\ (u.sound => mid.sound)
  BY SameNamesStay DEF Made, Linking, Grown, Rest
<1>2. ASSUME u.sound
      PROVE  /\ Sound(u.nodes)
             /\ Len(s.nodes) \in Nat /\ Len(u.nodes) = Len(s.nodes) + 1
             /\ DOMAIN s.nodes = 1 .. Len(s.nodes) /\ DOMAIN u.nodes = 1 .. Len(s.nodes) + 1
             /\ u.nodes[Len(s.nodes) + 1].tag = node.tag /\ u.nodes[Len(s.nodes) + 1].ns = node.ns
             /\ u.nodes[Len(s.nodes) + 1].type = node.type
             /\ node.tag \notin Amended => u.nodes[Len(s.nodes) + 1].attrs = node.attrs
  <2>1. mid.sound /\ SameNames(mid.nodes, u.nodes) /\ DOMAIN u.nodes = DOMAIN mid.nodes /\ Sound(u.nodes)
    BY <1>1, <1>2 DEF Linking, Grown
  <2>2. /\ Len(s.nodes) \in Nat
        /\ DOMAIN s.nodes = 1 .. Len(s.nodes) /\ DOMAIN u.nodes = 1 .. Len(s.nodes) + 1
        /\ mid.nodes[Len(s.nodes) + 1].tag = node.tag /\ mid.nodes[Len(s.nodes) + 1].ns = node.ns
        /\ mid.nodes[Len(s.nodes) + 1].type = node.type
        /\ node.tag \notin Amended => mid.nodes[Len(s.nodes) + 1].attrs = node.attrs
    BY <2>1 DEF Made
  <2>3. 1 \in DOMAIN u.nodes
    BY <2>2
  <2>4. Len(u.nodes) \in Nat /\ DOMAIN u.nodes = 1 .. Len(u.nodes)
    BY <2>1, <2>3, NodeFields DEF Sound
  <2>5. Len(u.nodes) = Len(s.nodes) + 1
    BY <2>2, <2>4
  <2> QED
    BY <2>1, <2>2, <2>5 DEF SameNames
<1> QED
  BY <1>1, <1>2 DEF Made

\* insert_node at the current place.
LEMMA PlacedLinks ==
  ASSUME NEW s, Rec(s), s.sound => Rooted(s)
  PROVE  Linking(s, Placed(s))
<1> DEFINE at == InsertionLocation(s, NoNode)
           u == Inserted(s, Newest(s), at)
<1>1. Placed(s) = u
  BY DEF Placed
<1>2. CASE s.sound
  <2>1. PICK target \in DOMAIN s.nodes, index \in Int :
          at = At(target, index) /\ (index = -1 \/ index >= 0)
    BY <1>2, LocationIs
  <2>2. Newest(s) \in DOMAIN s.nodes /\ Sound(s.nodes)
    <3>1. Len(s.nodes) \in Nat /\ DOMAIN s.nodes = 1 .. Len(s.nodes) /\ 1 \in DOMAIN s.nodes
      BY <1>2, StackFacts DEF Rooted, Document
    <3> DEFINE k == Len(s.nodes)
    <3>2. k \in Nat /\ DOMAIN s.nodes = 1 .. k /\ 1 \in DOMAIN s.nodes
      BY <3>1
    <3> HIDE DEF k
    <3>3. k \in DOMAIN s.nodes
      BY <3>2
    <3> QED
      BY <1>2, <3>3 DEF k, Newest, Rooted
  <2> HIDE DEF at
  <2> QED
    BY <1>1, <2>1, <2>2, InsertedLinks
<1>3. CASE ~ s.sound
  <2> HIDE DEF at
  <2>1. CASE at.index = -1
    BY <1>1, <1>3, <2>1, AppendedLinks DEF Inserted
  <2>2. CASE at.index # -1
    <3> DEFINE holds == /\ Unlinked(s, Newest(s))
                        /\ s.nodes[at.target].type \in Elements
                        /\ at.index < Len(s.nodes[at.target].children)
    <3>1. u = [Claim(s, holds) EXCEPT !.nodes = InsertNode(s.nodes, Newest(s), at)]
      BY <2>2 DEF Inserted
    <3> HIDE DEF u, holds
    <3>2. Rest(s, u) /\ ~ u.sound /\ u.open = s.open /\ u.active = s.active /\ u.form = s.form
          /\ u.templateModes = s.templateModes /\ u.bufferType = s.bufferType
      BY <1>3, <3>1 DEF Rec, Claim, StateFields, Rest
    <3>3. Linking(s, u)
      BY <3>2 DEF Linking, Grown
    <3> QED
      BY <1>1, <3>3
  <2> QED
    BY <2>1, <2>2
<1> QED
  BY <1>2, <1>3

\* create_node and insert_node at the current place, or below a given node.
LEMMA PlacedMakes ==
  ASSUME NEW s, Rec(s), s.sound => Rooted(s), NEW node, Fresh(node)
  PROVE  Made(s, Placed(Created(s, node)), node)
<1> DEFINE mid == Created(s, node)
<1>1. Made(s, mid, node) /\ (mid.sound => Rooted(mid))
  BY CreatedMakes
<1>2. Rec(mid)
  BY <1>1 DEF Made, Grown, Rest
<1> HIDE DEF mid
<1>3. Linking(mid, Placed(mid))
  BY <1>1, <1>2, PlacedLinks
<1>4. Made(s, Placed(mid), node)
  BY <1>1, <1>3, LinkingMakes
<1> QED
  BY <1>4 DEF mid

LEMMA AppendedMakes ==
  ASSUME NEW s, Rec(s), s.sound => Rooted(s), NEW node, Fresh(node), NEW parent, s.sound => parent \in DOMAIN s.nodes
  PROVE  Made(s, AppendNewest(Created(s, node), parent), node)
<1> DEFINE mid == Created(s, node)
<1>1. Made(s, mid, node) /\ (mid.sound => Rooted(mid))
  BY CreatedMakes
<1>2. Rec(mid) /\ (mid.sound => s.sound)
  BY <1>1 DEF Made, Grown, Rest
<1>3. mid.sound => Newest(mid) \in DOMAIN mid.nodes /\ parent \in DOMAIN mid.nodes /\ Sound(mid.nodes)
  BY <1>1, <1>2 DEF Made, Newest
<1> HIDE DEF mid
<1>4. Linking(mid, Appended(mid, parent, Newest(mid)))
  BY <1>2, <1>3, AppendedLinks
<1>5. Made(s, Appended(mid, parent, Newest(mid)), node)
  BY <1>1, <1>4, LinkingMakes
<1> QED
  BY <1>5 DEF AppendNewest, mid

LEMMA MadeNodesOK ==
  ASSUME NEW s, NEW u, NEW node, Made(s, u, node), u.sound, NEW root, NEW head,
         NodesOK(s.nodes, root, head), node.tag \notin {"html", "head"}, node.type # "destroyed"
  PROVE  NodesOK(u.nodes, root, head)
<1>1. /\ Sound(u.nodes) /\ SameNames(s.nodes, u.nodes)
      /\ Len(s.nodes) \in Nat /\ DOMAIN s.nodes = 1 .. Len(s.nodes) /\ DOMAIN u.nodes = 1 .. Len(s.nodes) + 1
      /\ u.nodes[Len(s.nodes) + 1].tag = node.tag /\ u.nodes[Len(s.nodes) + 1].type = node.type
  BY DEF Made, Grown
<1>2. \A n \in DOMAIN u.nodes : n \in DOMAIN s.nodes \/ n = Len(s.nodes) + 1
  BY <1>1
<1>3. ASSUME NEW n \in DOMAIN u.nodes
      PROVE  /\ u.nodes[n].type # "destroyed"
             /\ u.nodes[n].tag = "html" => n = root
             /\ u.nodes[n].tag = "head" => n = head
  BY <1>1, <1>2 DEF NodesOK, SameNames
<1> QED
  BY <1>1, <1>3 DEF NodesOK, SameNames

\* What an operation does that makes texts and comments only.
Nameless(nodes, new) ==
  \A n \in DOMAIN new : n \notin DOMAIN nodes => new[n].tag = NoTag /\ new[n].type # "destroyed"
Filled(s, u) ==
  /\ Grown(s, u)
  /\ u.sound => Sound(u.nodes) /\ u.bufferType \in Texts /\ Nameless(s.nodes, u.nodes)

LEMMA FilledIsRooted ==
  ASSUME NEW s, NEW u, Filled(s, u), u.sound, Rooted(s)
  PROVE  Rooted(u)
<1>1. SameNames(s.nodes, u.nodes) /\ Sound(u.nodes) /\ u.open = s.open
  BY DEF Filled, Grown
<1>2. DOMAIN s.nodes \subseteq DOMAIN u.nodes /\ s.open \in Seq(DOMAIN s.nodes)
  BY <1>1 DEF SameNames, Rooted
<1>3. u.open \in Seq(DOMAIN u.nodes)
  BY <1>1, <1>2, SeqMonotonic
<1>4. s.open # <<>> => s.open[1] \in DOMAIN s.nodes
  BY StackFacts
<1> QED
  BY <1>1, <1>3, <1>4 DEF Rooted, SameNames

LEMMA FilledK ==
  ASSUME NEW s, NEW F, K(s, F), NEW u, Filled(s, u)
  PROVE  K(u, F)
<1>1. ASSUME u.sound PROVE u.bufferType \in Texts /\ NodesOK(u.nodes, F.root, F.head)
  <2>1. s.sound /\ NodesOK(s.nodes, F.root, F.head)
    BY <1>1 DEF Filled, Grown, Rest, K, Core, Held
  <2> QED
    BY <1>1, <2>1, NoTagFacts DEF Filled, Grown, NodesOK, SameNames, Nameless
<1>2. Grown(s, u)
  BY DEF Filled
<1> QED
  BY <1>1, <1>2, KeptByNodes

LEMMA FilledTwice ==
  ASSUME NEW s, NEW mid, NEW u, Filled(s, mid), Filled(mid, u)
  PROVE  Filled(s, u)
BY DEF Filled, Grown, Rest, SameNames, Nameless

LEMMA OneMore ==
  ASSUME NEW k \in Nat
  PROVE  1 .. k + 1 = (1 .. k) \union {k + 1}
OBVIOUS

LEMMA MadeFills ==
  ASSUME NEW s, NEW u, NEW node, Made(s, u, node), node.tag = NoTag, u.sound => node.type # "destroyed" /\ s.bufferType \in Texts
  PROVE  Filled(s, u)
<1>1. ASSUME u.sound PROVE \A n \in DOMAIN u.nodes : n \in DOMAIN s.nodes \/ n = Len(s.nodes) + 1
  <2> DEFINE k == Len(s.nodes)
  <2>1. k \in Nat /\ DOMAIN s.nodes = 1 .. k /\ DOMAIN u.nodes = 1 .. k + 1
    BY <1>1 DEF Made
  <2> HIDE DEF k
  <2>2. 1 .. k + 1 = (1 .. k) \union {k + 1}
    BY <2>1, OneMore
  <2> QED
    BY <2>1, <2>2 DEF k
<1> QED
  BY <1>1 DEF Filled, Made, Nameless

LEMMA NewNodeIsFresh ==
  ASSUME NEW type
  PROVE  /\ Fresh(NewNode(type)) /\ NewNode(type).type = type /\ NewNode(type).tag = NoTag /\ NewNode(type).ns = "html"
BY DEF NewNode, Fresh, NoTag

LEMMA TextIsFresh ==
  ASSUME NEW type, NEW text
  PROVE  LET node == [NewNode(type) EXCEPT !.text = text] IN Fresh(node) /\ node.type = type /\ node.tag = NoTag
BY DEF NewNode, Fresh, NoTag

LEMMA FlushFills ==
  ASSUME NEW s, Rec(s), s.sound => Rooted(s) /\ s.bufferType \in Texts
  PROVE  Filled(s, Flush(s))
<1>1. CASE s.buffer = <<>>
  BY <1>1 DEF Flush, Filled, Grown, Rest, Rooted, SameNames, Nameless
<1>2. CASE s.buffer # <<>>
  <2> DEFINE placed == TextPlaced(s)
             u == Flush(s)
             node == [NewNode(s.bufferType) EXCEPT !.text = s.buffer]
  <2>1. Filled(s, placed)
    <3>1. CASE InsertionLocation(s, NoNode).target = Document
      BY <3>1 DEF TextPlaced, Filled, Grown, Rest, Rooted, SameNames, Nameless
    <3>2. CASE InsertionLocation(s, NoNode).target # Document
      <4>1. Fresh(node) /\ node.tag = NoTag /\ node.type = s.bufferType
        BY TextIsFresh
      <4>2. placed = Placed(Created(s, node))
        BY <3>2 DEF TextPlaced
      <4> HIDE DEF node, placed
      <4>3. Made(s, placed, node)
        BY <4>1, <4>2, PlacedMakes
      <4>4. placed.sound => node.type # "destroyed" /\ s.bufferType \in Texts
        BY <4>1, <4>3 DEF Made, Grown, Rest, Texts
      <4> QED
        BY <4>1, <4>3, <4>4, MadeFills
    <3> QED
      BY <3>1, <3>2
  <2>2. u = [placed EXCEPT !.buffer = <<>>, !.bufferType = "whitespace"]
    BY <1>2 DEF Flush
  <2> HIDE DEF u, placed
  <2>3. Rec(placed)
    BY <2>1 DEF Filled, Grown, Rest
  <2>4. Rest(placed, u) /\ u.nodes = placed.nodes /\ u.open = placed.open /\ u.active = placed.active
        /\ u.form = placed.form /\ u.templateModes = placed.templateModes /\ u.bufferType = "whitespace"
    BY <2>2, <2>3 DEF Rec, StateFields, Rest
  <2>5. Filled(s, u)
    BY <2>1, <2>4 DEF Filled, Grown, Rest, Texts
  <2> QED
    BY <2>5 DEF u
<1> QED
  BY <1>1, <1>2

LEMMA KIsRooted ==
  ASSUME NEW s, NEW F, K(s, F)
  PROVE  Rec(s) /\ (s.sound => Rooted(s) /\ s.bufferType \in Texts /\ Core(s))
BY CoreIsRooted DEF K, Core

LEMMA FlushK ==
  ASSUME NEW s, NEW F, K(s, F)
  PROVE  K(Flush(s), F) /\ Filled(s, Flush(s))
BY KIsRooted, FlushFills, FilledK

LEMMA AppendCommentFills ==
  ASSUME NEW s, Rec(s), s.sound => Rooted(s) /\ s.bufferType \in Texts, NEW parent, s.sound => parent \in DOMAIN s.nodes
  PROVE  Filled(s, AppendComment(s, parent))
<1> DEFINE mid == Flush(s)
           node == NewNode("comment")
           u == AppendNewest(Created(mid, node), parent)
<1>1. Filled(s, mid)
  BY FlushFills
<1>2. AppendComment(s, parent) = u
  BY DEF AppendComment
<1>3. Fresh(node) /\ node.tag = NoTag /\ node.type = "comment"
  BY NewNodeIsFresh
<1> HIDE DEF mid, node
<1>4. Rec(mid) /\ (mid.sound => Rooted(mid) /\ parent \in DOMAIN mid.nodes)
  BY <1>1, FilledIsRooted DEF Filled, Grown, Rest, SameNames
<1>5. Made(mid, u, node)
  BY <1>3, <1>4, AppendedMakes
<1> HIDE DEF u
<1>6. u.sound => mid.bufferType \in Texts
  BY <1>1, <1>5 DEF Filled, Made, Grown, Rest
<1>7. Filled(mid, u)
  BY <1>3, <1>5, <1>6, MadeFills
<1> QED
  BY <1>1, <1>2, <1>7, FilledTwice

LEMMA AppendCommentK ==
  ASSUME NEW s, NEW F, K(s, F), NEW parent, s.sound => parent \in DOMAIN s.nodes
  PROVE  K(AppendComment(s, parent), F)
BY KIsRooted, AppendCommentFills, FilledK

\* A comment in the current node.
LEMMA CommentHereK ==
  ASSUME NEW s, NEW F, K(s, F)
  PROVE  K(AppendComment(s, Current(s)), F)
BY KIsRooted, StackFacts, AppendCommentK

-----------------------------------------------------------------------------
(* insert_element.                                                         *)

\* A new element of this tag has been opened; what else is new bears no name.
NewOnStack(s, u, tag, ns) ==
  /\ Rest(s, u) /\ u.active = s.active /\ u.form = s.form /\ u.templateModes = s.templateModes
  /\ u.sound =>
       /\ Sound(u.nodes) /\ SameNames(s.nodes, u.nodes) /\ u.bufferType \in Texts
       /\ Len(u.nodes) \in DOMAIN u.nodes /\ Len(u.nodes) \notin DOMAIN s.nodes
       /\ u.nodes[Len(u.nodes)].tag = tag /\ u.nodes[Len(u.nodes)].ns = ns /\ u.nodes[Len(u.nodes)].type # "destroyed"
       /\ \A n \in DOMAIN u.nodes : n \notin DOMAIN s.nodes /\ n # Len(u.nodes) =>
            u.nodes[n].tag = NoTag /\ u.nodes[n].type # "destroyed"
       /\ u.open = Append(s.open, Len(u.nodes))

LEMMA OpensNew ==
  ASSUME NEW s, Rec(s), s.sound => Rooted(s) /\ s.bufferType \in Texts, NEW type \in Elements, NEW tag, NEW ns, NEW attrs
  PROVE  NewOnStack(s, InsertNewElement(s, type, tag, ns, attrs), tag, ns)
<1> DEFINE mid == Flush(s)
           node == [NewNode(type) EXCEPT !.tag = tag, !.ns = ns, !.attrs = attrs]
           created == Created(mid, node)
           placed == Placed(created)
           u == InsertNewElement(s, type, tag, ns, attrs)
<1>1. Filled(s, mid)
  BY FlushFills
<1>2. u = [placed EXCEPT !.open = Append(placed.open, Len(created.nodes))]
  BY DEF InsertNewElement, Opened, Add, Newest
<1>3. Fresh(node) /\ node.tag = tag /\ node.ns = ns /\ node.type = type
  BY DEF NewNode, Fresh, NoTag
<1> HIDE DEF mid, node
<1>4. Rec(mid) /\ (mid.sound => Rooted(mid))
  BY <1>1, FilledIsRooted DEF Filled, Grown, Rest
<1>5. Made(mid, placed, node) /\ Made(mid, created, node)
  BY <1>3, <1>4, PlacedMakes, CreatedMakes
<1>6. placed.sound => Len(created.nodes) = Len(placed.nodes)
  <2>1. created.sound = mid.sound
    BY <1>4 DEF Created, Rec, StateFields
  <2> QED
    BY <1>5, <2>1 DEF Made, Grown, Rest
<1> HIDE DEF u, placed, created
<1>7. Rec(placed)
  BY <1>5 DEF Made, Grown, Rest
<1>8. Rest(placed, u) /\ u.nodes = placed.nodes /\ u.active = placed.active /\ u.form = placed.form
      /\ u.templateModes = placed.templateModes /\ u.bufferType = placed.bufferType
      /\ u.open = Append(placed.open, Len(created.nodes)) /\ u.sound = placed.sound
  <2>1. Vector(Append(placed.open, Len(created.nodes)))
    BY <1>7, VectorAppended DEF Rec
  <2> QED
    BY <1>2, <1>7, <2>1 DEF Rec, StateFields, Rest
<1>9. /\ Rest(s, u) /\ u.active = s.active /\ u.form = s.form /\ u.templateModes = s.templateModes
      /\ u.open = Append(s.open, Len(created.nodes)) /\ u.bufferType = mid.bufferType
      /\ u.sound => mid.sound /\ placed.sound
  BY <1>1, <1>5, <1>8 DEF Filled, Made, Grown, Rest
<1>10. ASSUME u.sound
       PROVE  /\ Sound(u.nodes) /\ SameNames(s.nodes, u.nodes) /\ u.bufferType \in Texts
              /\ Len(u.nodes) \in DOMAIN u.nodes /\ Len(u.nodes) \notin DOMAIN s.nodes
              /\ u.nodes[Len(u.nodes)].tag = tag /\ u.nodes[Len(u.nodes)].ns = ns /\ u.nodes[Len(u.nodes)].type # "destroyed"
              /\ \A n \in DOMAIN u.nodes : n \notin DOMAIN s.nodes /\ n # Len(u.nodes) =>
                   u.nodes[n].tag = NoTag /\ u.nodes[n].type # "destroyed"
              /\ u.open = Append(s.open, Len(u.nodes))
  <2> DEFINE k == Len(mid.nodes)
  <2>1. /\ mid.sound /\ placed.sound
    BY <1>9, <1>10
  <2>2. /\ Sound(u.nodes) /\ k \in Nat /\ Len(u.nodes) = k + 1
        /\ DOMAIN mid.nodes = 1 .. k /\ DOMAIN u.nodes = 1 .. k + 1
        /\ u.nodes[k + 1].tag = tag /\ u.nodes[k + 1].ns = ns /\ u.nodes[k + 1].type = type
        /\ SameNames(mid.nodes, u.nodes)
    BY <1>3, <1>5, <1>8, <2>1 DEF Made, Grown
  <2>3. SameNames(s.nodes, mid.nodes) /\ Nameless(s.nodes, mid.nodes) /\ mid.bufferType \in Texts
    BY <1>1, <2>1 DEF Filled, Grown
  <2> HIDE DEF k
  <2>4. DOMAIN s.nodes \subseteq 1 .. k /\ DOMAIN u.nodes = 1 .. k \union {k + 1} /\ k + 1 \notin 1 .. k
    BY <2>2, <2>3 DEF SameNames
  <2>5. type # "destroyed"
    BY DEF Elements
  <2>6. SameNames(s.nodes, u.nodes)
    BY <2>2, <2>3, SameNamesStay
  <2>7. Len(created.nodes) = k + 1
    BY <1>6, <1>8, <2>1, <2>2
  <2>8. \A n \in DOMAIN u.nodes : n \notin DOMAIN s.nodes /\ n # k + 1 =>
          u.nodes[n].tag = NoTag /\ u.nodes[n].type # "destroyed"
    BY <2>2, <2>3, <2>4 DEF Nameless, SameNames
  <2> QED
    BY <1>9, <2>2, <2>3, <2>4, <2>5, <2>6, <2>7, <2>8
<1>11. NewOnStack(s, u, tag, ns)
  BY <1>9, <1>10 DEF NewOnStack
<1> QED
  BY <1>11 DEF u

\* A frame with something below all an operation may take from the stack.
Based(F) == Len(F.base) \in Nat /\ Len(F.base) >= 1

LEMMA HeldFacts ==
  ASSUME NEW s, NEW F, K(s, F), s.sound
  PROVE  /\ Core(s) /\ Held(s, F) /\ Rooted(s) /\ s.bufferType \in Texts /\ s.rules = "none"
         /\ s.root = F.root /\ s.head = F.head /\ s.mode \in F.modes /\ s.original = F.original
         /\ NodesOK(s.nodes, F.root, F.head) /\ OpenOK(s.nodes, s.open, F.root)
         /\ ActiveOK(s.nodes, s.active) /\ Segmented(s.open, s.active) /\ Begins(s.open, F.base, F.head)
         /\ Len(s.open) \in Nat /\ DOMAIN s.open = 1 .. Len(s.open)
         /\ \A i \in DOMAIN s.open : s.open[i] \in DOMAIN s.nodes
         /\ Len(F.base) \in Nat /\ Len(F.base) <= Len(s.open)
         /\ s.open # <<>> <=> Len(s.open) # 0
<1>1. Core(s) /\ Held(s, F) /\ Rooted(s)
  BY CoreIsRooted DEF K
<1> QED
  BY <1>1, StackFacts DEF Core, Held, Begins

LEMMA EmptyHasNoPlace ==
  ASSUME NEW s, Len(s.open) # 0
  PROVE  s.open # <<>>
BY EmptySeq

LEMMA AppendIs ==
  ASSUME NEW S, NEW v \in Seq(S), NEW e \in S
  PROVE  /\ Append(v, e) \in Seq(S) /\ Len(Append(v, e)) = Len(v) + 1 /\ Len(v) \in Nat
         /\ DOMAIN Append(v, e) = DOMAIN v \union {Len(v) + 1} /\ DOMAIN v = 1 .. Len(v)
         /\ Append(v, e)[Len(v) + 1] = e /\ \A i \in 1 .. Len(v) : Append(v, e)[i] = v[i]
<1> DEFINE w == Append(v, e)
           k == Len(v)
<1>1. k \in Nat /\ DOMAIN v = 1 .. k
  BY LenProperties
<1>2. w \in Seq(S) /\ Len(w) = k + 1 /\ w[k + 1] = e /\ \A i \in 1 .. k : w[i] = v[i]
  BY AppendProperties
<1> HIDE DEF w, k
<1>3. DOMAIN w = 1 .. k + 1
  BY <1>2, LenProperties
<1>4. DOMAIN w = 1 .. k \union {k + 1}
  BY <1>1, <1>3, OneMore
<1> QED
  BY <1>1, <1>2, <1>4 DEF w, k

\* insert_element pushes an element that is not on the stack.
LEMMA OpenPushed ==
  ASSUME NEW nodes, NEW open, NEW root, OpenOK(nodes, open, root), open # <<>>, NEW n \in DOMAIN nodes,
         \A i \in DOMAIN open : open[i] # n
  PROVE  /\ OpenOK(nodes, Append(open, n), root) /\ Len(Append(open, n)) = Len(open) + 1
         /\ DOMAIN Append(open, n) = DOMAIN open \union {Len(open) + 1}
         /\ Append(open, n)[Len(open) + 1] = n /\ \A i \in 1 .. Len(open) : Append(open, n)[i] = open[i]
<1> DEFINE w == Append(open, n)
           k == Len(open)
<1>1. open \in Seq(DOMAIN nodes)
  BY DEF OpenOK
<1>2. /\ w \in Seq(DOMAIN nodes) /\ Len(w) = k + 1 /\ k \in Nat /\ DOMAIN open = 1 .. k
      /\ DOMAIN w = DOMAIN open \union {k + 1} /\ w[k + 1] = n /\ \A i \in DOMAIN open : w[i] = open[i]
  BY <1>1, AppendIs
<1>3. 1 \in DOMAIN open
  BY <1>1, VectorFacts
<1> HIDE DEF w, k
<1>4. w[1] = root
  BY <1>2, <1>3 DEF OpenOK
<1>5. ASSUME NEW i \in DOMAIN w, NEW j \in DOMAIN w, w[i] = w[j]
      PROVE  i = j
  <2>1. CASE i \in DOMAIN open /\ j \in DOMAIN open
    BY <1>2, <1>5, <2>1 DEF OpenOK
  <2>2. CASE i \in DOMAIN open /\ j = k + 1
    BY <1>2, <1>5, <2>2
  <2>3. CASE i = k + 1 /\ j \in DOMAIN open
    BY <1>2, <1>5, <2>3
  <2> QED
    BY <1>2, <2>1, <2>2, <2>3
<1>6. OpenOK(nodes, w, root)
  BY <1>2, <1>4, <1>5 DEF OpenOK
<1> QED
  BY <1>2, <1>6 DEF w, k

\* insert_element pushes the new element, which may be a template.
LEMMA NewIsPushed ==
  ASSUME NEW s, NEW F, K(s, F), NEW u, NEW tag, NEW ns, NewOnStack(s, u, tag, ns), Based(F), u.sound,
         tag \notin {"html", "head"}
  PROVE  /\ s.sound /\ u.bufferType \in Texts /\ NodesOK(u.nodes, F.root, F.head) /\ SameNames(s.nodes, u.nodes)
         /\ OpenOK(u.nodes, u.open, F.root) /\ Begins(u.open, F.base, F.head)
         /\ Segmented(u.open, s.active)
         /\ TemplatesIn(u.nodes, u.open) \subseteq TemplatesIn(s.nodes, s.open) \union {Len(u.nodes)}
         /\ (ns = "html" => tag # "template") =>
              TemplatesIn(u.nodes, u.open) \subseteq TemplatesIn(s.nodes, s.open)
<1> DEFINE new == Len(u.nodes)
           k == Len(s.open)
<1>1. /\ s.sound /\ Sound(u.nodes) /\ SameNames(s.nodes, u.nodes) /\ u.bufferType \in Texts
      /\ new \in DOMAIN u.nodes /\ new \notin DOMAIN s.nodes
      /\ u.nodes[new].tag = tag /\ u.nodes[new].ns = ns /\ u.nodes[new].type # "destroyed"
      /\ \A n \in DOMAIN u.nodes : n \notin DOMAIN s.nodes /\ n # new =>
           u.nodes[n].tag = NoTag /\ u.nodes[n].type # "destroyed"
      /\ u.open = Append(s.open, new)
  BY DEF NewOnStack, Rest
<1> HIDE DEF new
<1>2. /\ NodesOK(s.nodes, F.root, F.head) /\ OpenOK(s.nodes, s.open, F.root) /\ Begins(s.open, F.base, F.head)
      /\ k \in Nat /\ DOMAIN s.open = 1 .. k /\ \A i \in DOMAIN s.open : s.open[i] \in DOMAIN s.nodes
      /\ Len(F.base) \in Nat /\ Len(F.base) <= k /\ Len(F.base) >= 1
  BY <1>1, HeldFacts DEF Based
<1>3. OpenOK(u.nodes, s.open, F.root)
  BY <1>1, <1>2, OpenGrows
<1>4. /\ OpenOK(u.nodes, u.open, F.root) /\ Len(u.open) = k + 1
      /\ DOMAIN u.open = DOMAIN s.open \union {k + 1}
      /\ u.open[k + 1] = new /\ \A i \in 1 .. k : u.open[i] = s.open[i]
  <2>1. s.open # <<>>
    BY <1>2, EmptyHasNoPlace
  <2>2. \A i \in DOMAIN s.open : s.open[i] # new
    BY <1>1, <1>2
  <2>3. new \in DOMAIN u.nodes /\ u.open = Append(s.open, new)
    BY <1>1
  <2>4. /\ OpenOK(u.nodes, Append(s.open, new), F.root) /\ Len(Append(s.open, new)) = Len(s.open) + 1
        /\ DOMAIN Append(s.open, new) = DOMAIN s.open \union {Len(s.open) + 1}
        /\ Append(s.open, new)[Len(s.open) + 1] = new /\ \A i \in 1 .. Len(s.open) : Append(s.open, new)[i] = s.open[i]
    BY <1>3, <2>1, <2>2, <2>3, OpenPushed
  <2> QED
    BY <2>3, <2>4
<1> HIDE DEF k
<1>5. 1 \in DOMAIN s.open
  BY <1>2
<1>6. NodesOK(u.nodes, F.root, F.head)
  <2>1. ASSUME NEW n \in DOMAIN u.nodes
        PROVE  /\ u.nodes[n].type # "destroyed"
               /\ u.nodes[n].tag = "html" => n = F.root
               /\ u.nodes[n].tag = "head" => n = F.head
    <3>1. CASE n \in DOMAIN s.nodes
      BY <1>1, <1>2, <3>1 DEF NodesOK, SameNames
    <3>2. CASE n = new
      BY <1>1, <3>2
    <3>3. CASE n \notin DOMAIN s.nodes /\ n # new
      BY <1>1, <3>3, NoTagFacts
    <3> QED
      BY <3>1, <3>2, <3>3
  <2>2. Document \in DOMAIN u.nodes /\ u.nodes[Document].tag = NoTag
    BY <1>1, <1>2 DEF NodesOK, SameNames
  <2>3. F.root # NoNode => F.root \in DOMAIN u.nodes /\ u.nodes[F.root].tag = "html" /\ u.nodes[F.root].ns = "html"
    BY <1>1, <1>2 DEF NodesOK, SameNames
  <2>4. F.head # NoNode => F.head \in DOMAIN u.nodes /\ u.nodes[F.head].tag = "head" /\ u.nodes[F.head].ns = "html"
    BY <1>1, <1>2 DEF NodesOK, SameNames
  <2> QED
    BY <1>1, <2>1, <2>2, <2>3, <2>4 DEF NodesOK
<1>8. Begins(u.open, F.base, F.head)
  <2>1. Len(F.base) <= Len(u.open) /\ 1 .. Len(F.base) \subseteq DOMAIN s.open
    BY <1>2, <1>4
  <2>2. new # F.head
    <3>1. F.head # NoNode => F.head \in DOMAIN s.nodes
      BY <1>2 DEF NodesOK
    <3>2. new # NoNode
      BY <1>1, NodeFields DEF Sound
    <3> QED
      BY <1>1, <3>1, <3>2
  <2> QED
    BY <1>2, <1>4, <2>1, <2>2 DEF Begins
<1>9. ASSUME NEW n \in TemplatesIn(u.nodes, u.open)
      PROVE  n \in TemplatesIn(s.nodes, s.open) \/ (n = new /\ tag = "template" /\ ns = "html")
  <2>1. PICK i \in DOMAIN u.open : u.open[i] = n
    BY DEF TemplatesIn, In
  <2>2. CASE i = k + 1
    BY <1>1, <1>4, <2>1, <2>2 DEF TemplatesIn
  <2>3. CASE i # k + 1
    <3>1. i \in DOMAIN s.open /\ s.open[i] = n /\ n \in DOMAIN s.nodes
      BY <1>2, <1>4, <2>1, <2>3
    <3> QED
      BY <1>1, <3>1 DEF TemplatesIn, In, SameNames
  <2> QED
    BY <2>2, <2>3
<1>10. Segmented(u.open, s.active)
  <2>1. Segmented(s.open, s.active) /\ ActiveOK(s.nodes, s.active) /\ new # Marker
    <3>1. new \in Nat
      BY <1>1, NodeFields DEF Sound
    <3> QED
      BY <1>1, <3>1, HeldFacts DEF Core, Marker
  <2>2. ~ In(s.active, new)
    <3>1. \A i \in DOMAIN s.active : s.active[i] \in DOMAIN s.nodes \union {Marker}
      BY <2>1, LenProperties DEF ActiveOK
    <3> QED
      BY <1>1, <2>1, <3>1 DEF In
  <2>3. \A a \in DOMAIN u.open : In(s.active, u.open[a]) => a \in DOMAIN s.open /\ s.open[a] = u.open[a]
    BY <1>2, <1>4, <2>2
  <2> QED
    BY <2>1, <2>3, SegmentedKept
<1> QED
  BY <1>1, <1>4, <1>6, <1>8, <1>9, <1>10 DEF new

LEMMA NewOnStackK ==
  ASSUME NEW s, NEW F, K(s, F), NEW u, NEW tag, NEW ns, NewOnStack(s, u, tag, ns), Based(F),
         tag \notin {"html", "head"}, ns = "html" => tag # "template"
  PROVE  K(u, F)
<1>1. u.sound =>
        /\ u.bufferType \in Texts /\ NodesOK(u.nodes, F.root, F.head) /\ SameNames(s.nodes, u.nodes)
        /\ OpenOK(u.nodes, u.open, F.root) /\ Begins(u.open, F.base, F.head)
        /\ TemplatesIn(u.nodes, u.open) \subseteq TemplatesIn(s.nodes, s.open)
        /\ Segmented(u.open, s.active)
  BY NewIsPushed
<1>2. Rest(s, u) /\ u.active = s.active /\ u.form = s.form /\ u.templateModes = s.templateModes
  BY DEF NewOnStack
<1> QED
  BY <1>1, <1>2, KeptByOpen

LEMMA InsertTagOpens ==
  ASSUME NEW s, NEW F, K(s, F), NEW t
  PROVE  NewOnStack(s, InsertTag(s, t), t.tag, "html")
<1> DEFINE type == IF t.tag = "template" THEN "template" ELSE "element"
<1>1. type \in Elements
  BY DEF Elements
<1>2. InsertTag(s, t) = InsertNewElement(s, type, t.tag, "html", t.attrs)
  BY DEF InsertTag
<1> HIDE DEF type
<1> QED
  BY <1>1, <1>2, KIsRooted, OpensNew

LEMMA InsertImpliedOpens ==
  ASSUME NEW s, NEW F, K(s, F), NEW tag
  PROVE  NewOnStack(s, InsertImplied(s, tag), tag, "html")
<1>1. "element" \in Elements
  BY DEF Elements
<1>2. InsertImplied(s, tag) = InsertNewElement(s, "element", tag, "html", <<>>)
  BY DEF InsertImplied
<1> QED
  BY <1>1, <1>2, KIsRooted, OpensNew

LEMMA InsertTagK ==
  ASSUME NEW s, NEW F, K(s, F), Based(F), NEW t, t.tag \notin Fixed
  PROVE  K(InsertTag(s, t), F) /\ NewOnStack(s, InsertTag(s, t), t.tag, "html")
<1>1. NewOnStack(s, InsertTag(s, t), t.tag, "html")
  BY InsertTagOpens
<1>2. t.tag \notin {"html", "head"} /\ t.tag # "template"
  BY DEF Fixed
<1> QED
  BY <1>1, <1>2, NewOnStackK

LEMMA InsertImpliedK ==
  ASSUME NEW s, NEW F, K(s, F), Based(F), NEW tag, tag \notin Fixed
  PROVE  K(InsertImplied(s, tag), F) /\ NewOnStack(s, InsertImplied(s, tag), tag, "html")
<1>1. NewOnStack(s, InsertImplied(s, tag), tag, "html")
  BY InsertImpliedOpens
<1>2. tag \notin {"html", "head"} /\ tag # "template"
  BY DEF Fixed
<1> QED
  BY <1>1, <1>2, NewOnStackK

LEMMA InsertForeignOpens ==
  ASSUME NEW s, NEW F, K(s, F), NEW t, NEW ns
  PROVE  NewOnStack(s, InsertForeign(s, t, ns), t.tag, ns)
<1>1. "element" \in Elements
  BY DEF Elements
<1>2. InsertForeign(s, t, ns) = InsertNewElement(s, "element", t.tag, ns, t.attrs)
  BY DEF InsertForeign
<1> QED
  BY <1>1, <1>2, KIsRooted, OpensNew

LEMMA InsertForeignK ==
  ASSUME NEW s, NEW F, K(s, F), Based(F), NEW t, t.tag \notin {"html", "head"}, NEW ns, ns # "html"
  PROVE  K(InsertForeign(s, t, ns), F) /\ NewOnStack(s, InsertForeign(s, t, ns), t.tag, ns)
BY InsertForeignOpens, NewOnStackK

-----------------------------------------------------------------------------
(* pop_current_node.                                                       *)

LEMMA OpenPrefix ==
  ASSUME NEW nodes, NEW open, NEW root, OpenOK(nodes, open, root), NEW k \in Nat, k <= Len(open)
  PROVE  LET left == SubSeq(open, 1, k)
         IN  /\ OpenOK(nodes, left, root) /\ Len(left) = k /\ DOMAIN left = 1 .. k
             /\ DOMAIN left \subseteq DOMAIN open /\ \A i \in 1 .. k : left[i] = open[i]
             /\ TemplatesIn(nodes, left) \subseteq TemplatesIn(nodes, open)
<1> DEFINE left == SubSeq(open, 1, k)
<1>1. open \in Seq(DOMAIN nodes)
  BY DEF OpenOK
<1>2. Len(open) \in Nat /\ DOMAIN open = 1 .. Len(open) /\ \A i \in DOMAIN open : open[i] \in DOMAIN nodes
  BY <1>1, LenProperties
<1>3. left \in Seq(DOMAIN nodes) /\ Len(left) = k /\ DOMAIN left = 1 .. k /\ \A i \in 1 .. k : left[i] = open[i]
  <2>1. \A i \in 1 .. k : open[i] \in DOMAIN nodes
    BY <1>2
  <2>2. left \in Seq(DOMAIN nodes) /\ Len(left) = (IF 1 <= k THEN k - 1 + 1 ELSE 0)
        /\ \A i \in 1 .. k - 1 + 1 : left[i] = open[1 + i - 1]
    BY <2>1, SubSeqProperties
  <2> HIDE DEF left
  <2>3. DOMAIN left = 1 .. Len(left)
    BY <2>2, LenProperties
  <2> QED
    BY <2>2, <2>3
<1> HIDE DEF left
<1>4. DOMAIN left \subseteq DOMAIN open
  BY <1>2, <1>3
<1>5. left # <<>> => left[1] = root
  <2>1. left # <<>> => 1 \in DOMAIN left
    BY <1>3, VectorFacts
  <2>2. 1 \in DOMAIN left => open # <<>>
    BY <1>4
  <2> QED
    BY <1>3, <2>1, <2>2 DEF OpenOK
<1>6. OpenOK(nodes, left, root)
  BY <1>3, <1>4, <1>5 DEF OpenOK
<1>7. TemplatesIn(nodes, left) \subseteq TemplatesIn(nodes, open)
  BY <1>3, <1>4 DEF TemplatesIn, In
<1> QED
  BY <1>3, <1>4, <1>6, <1>7 DEF left

\* What popping does to a state, whatever is popped.
Popping(s, u, length) ==
  /\ Rest(s, u) /\ u.active = s.active /\ u.form = s.form /\ u.templateModes = s.templateModes
  /\ u.sound =>
       /\ Sound(u.nodes) /\ SameNames(s.nodes, u.nodes) /\ Nameless(s.nodes, u.nodes) /\ u.bufferType \in Texts
       /\ u.open = IF Len(s.open) <= length THEN s.open ELSE SubSeq(s.open, 1, length)

LEMMA PopToIs ==
  ASSUME NEW s, Rec(s), s.sound => Rooted(s) /\ s.bufferType \in Texts, NEW length \in Int
  PROVE  Popping(s, PopTo(s, length), length)
<1> DEFINE u == PopTo(s, length)
           mid == Flush(s)
<1>1. CASE Len(s.open) <= length
  BY <1>1 DEF PopTo, Popping, Rest, Rooted, SameNames, Nameless
<1>2. CASE ~ (Len(s.open) <= length)
  <2> DEFINE holds == s.open # <<>> => IsHtml(s, s.open[1], {"html"})
             claimed == Claim(mid, holds)
  <2>1. u = [claimed EXCEPT !.open = SubSeq(@, 1, length)] /\ holds \in BOOLEAN
    BY <1>2 DEF PopTo
  <2>2. Filled(s, mid)
    BY FlushFills
  <2> HIDE DEF u, mid, holds
  <2>3. Rec(mid)
    BY <2>2 DEF Filled, Grown, Rest
  <2>4. Rest(mid, u) /\ u.nodes = mid.nodes /\ u.active = mid.active /\ u.form = mid.form /\ (u.sound => mid.sound)
        /\ u.templateModes = mid.templateModes /\ u.bufferType = mid.bufferType /\ u.open = SubSeq(mid.open, 1, length)
    <3>1. Vector(SubSeq(mid.open, 1, length))
      BY SubSeqIsVector
    <3>2. /\ Rest(mid, claimed) /\ claimed.open = mid.open /\ claimed.nodes = mid.nodes /\ claimed.active = mid.active
          /\ claimed.form = mid.form /\ claimed.templateModes = mid.templateModes /\ claimed.bufferType = mid.bufferType
      BY <2>1, <2>3 DEF Claim, Rec, StateFields, Rest
    <3> HIDE DEF claimed
    <3> QED
      BY <2>1, <3>1, <3>2 DEF Rec, StateFields, Rest
  <2>5. Popping(s, u, length)
    BY <1>2, <2>2, <2>4 DEF Filled, Grown, Rest, Popping
  <2> QED
    BY <2>5 DEF u
<1> QED
  BY <1>1, <1>2

LEMMA NamelessNodesOK ==
  ASSUME NEW nodes, NEW new, NEW root, NEW head, NodesOK(nodes, root, head),
         Sound(new), SameNames(nodes, new), Nameless(nodes, new)
  PROVE  NodesOK(new, root, head)
BY NoTagFacts DEF NodesOK, SameNames, Nameless

LEMMA PoppingK ==
  ASSUME NEW s, NEW F, K(s, F), NEW u, NEW length \in Int, Popping(s, u, length),
         s.sound => length >= Len(F.base)
  PROVE  K(u, F)
<1>1. ASSUME u.sound
      PROVE  /\ u.bufferType \in Texts /\ NodesOK(u.nodes, F.root, F.head) /\ SameNames(s.nodes, u.nodes)
             /\ OpenOK(u.nodes, u.open, F.root) /\ Begins(u.open, F.base, F.head)
             /\ TemplatesIn(u.nodes, u.open) \subseteq TemplatesIn(s.nodes, s.open)
             /\ Segmented(u.open, s.active)
  <2>1. /\ s.sound /\ Sound(u.nodes) /\ SameNames(s.nodes, u.nodes) /\ Nameless(s.nodes, u.nodes) /\ u.bufferType \in Texts
        /\ u.open = IF Len(s.open) <= length THEN s.open ELSE SubSeq(s.open, 1, length)
    BY <1>1 DEF Popping, Rest
  <2>2. /\ NodesOK(s.nodes, F.root, F.head) /\ OpenOK(s.nodes, s.open, F.root) /\ Begins(s.open, F.base, F.head)
        /\ Len(s.open) \in Nat /\ DOMAIN s.open = 1 .. Len(s.open)
        /\ Len(F.base) \in Nat /\ Len(F.base) <= Len(s.open) /\ length \in Int /\ length >= Len(F.base)
    BY <2>1, HeldFacts
  <2>3. NodesOK(u.nodes, F.root, F.head)
    BY <2>1, <2>2, NamelessNodesOK
  <2>4. /\ OpenOK(s.nodes, u.open, F.root) /\ DOMAIN u.open \subseteq DOMAIN s.open
        /\ \A i \in DOMAIN u.open : u.open[i] = s.open[i]
        /\ Len(F.base) <= Len(u.open) /\ DOMAIN u.open = 1 .. Len(u.open) /\ Len(u.open) \in Nat
        /\ TemplatesIn(s.nodes, u.open) \subseteq TemplatesIn(s.nodes, s.open)
    <3>1. CASE Len(s.open) <= length
      BY <2>1, <2>2, <3>1
    <3>2. CASE ~(Len(s.open) <= length)
      <4>1. length \in Nat /\ length <= Len(s.open) /\ u.open = SubSeq(s.open, 1, length)
        BY <2>1, <2>2, <3>2
      <4>2. /\ OpenOK(s.nodes, u.open, F.root) /\ Len(u.open) = length /\ DOMAIN u.open = 1 .. length
            /\ DOMAIN u.open \subseteq DOMAIN s.open /\ \A i \in 1 .. length : u.open[i] = s.open[i]
            /\ TemplatesIn(s.nodes, u.open) \subseteq TemplatesIn(s.nodes, s.open)
        BY <2>2, <4>1, OpenPrefix
      <4> QED
        BY <2>2, <4>1, <4>2
    <3> QED
      BY <3>1, <3>2
  <2>5. OpenOK(u.nodes, u.open, F.root)
    BY <2>1, <2>4, OpenGrows
  <2>6. 1 .. Len(F.base) \subseteq DOMAIN u.open
    BY <2>2, <2>4
  <2>7. Begins(u.open, F.base, F.head)
    BY <2>2, <2>4, <2>6 DEF Begins
  <2>8. TemplatesIn(u.nodes, u.open) \subseteq TemplatesIn(s.nodes, u.open)
    <3>1. ASSUME NEW n, In(u.open, n) PROVE n \in DOMAIN s.nodes
      BY <2>4, <3>1, VectorFacts DEF In, OpenOK
    <3> QED
      BY <2>1, <3>1 DEF TemplatesIn, SameNames
  <2>9. Segmented(u.open, s.active)
    <3>1. Segmented(s.open, s.active)
      BY <2>1, HeldFacts
    <3>2. \A a \in DOMAIN u.open : a \in DOMAIN s.open /\ s.open[a] = u.open[a]
      BY <2>4
    <3> QED
      BY <3>1, <3>2, SegmentedKept
  <2> QED
    BY <2>1, <2>3, <2>4, <2>5, <2>7, <2>8, <2>9
<1>2. Rest(s, u) /\ u.active = s.active /\ u.form = s.form /\ u.templateModes = s.templateModes
  BY DEF Popping
<1> QED
  BY <1>1, <1>2, KeptByOpen

LEMMA PopToK ==
  ASSUME NEW s, NEW F, K(s, F), NEW length \in Int, s.sound => length >= Len(F.base)
  PROVE  K(PopTo(s, length), F)
BY KIsRooted, PopToIs, PoppingK

\* The places in the stack are numbers, also when an assertion has failed.
LEMMA OpenPlaces ==
  ASSUME NEW s, NEW F, K(s, F)
  PROVE  /\ Len(s.open) \in Nat /\ DOMAIN s.open = 1 .. Len(s.open)
         /\ \A S : S \subseteq DOMAIN s.open => Greatest(S) \in Int /\ Greatest(S) \in 0 .. Len(s.open)
BY VectorIs, GreatestInList DEF K, Rec

\* Nothing that closes elements goes below the base of a frame that stops.
LEMMA BaseFacts ==
  ASSUME NEW s, NEW F, K(s, F), F.stop, s.sound
  PROVE  /\ Based(F) /\ Len(F.base) \in DOMAIN s.open
         /\ \A i \in 1 .. Len(F.base) :
              i \in DOMAIN s.open /\ s.nodes[s.open[i]].tag \in Fixed /\ s.nodes[s.open[i]].ns = "html"
         /\ s.nodes[s.open[Len(F.base)]].tag \in {"html", "template"}
         /\ s.nodes[s.open[Len(F.base)]].ns = "html"
<1>1. /\ Stops(s.nodes, F.base) /\ Begins(s.open, F.base, F.head)
      /\ Len(s.open) \in Nat /\ DOMAIN s.open = 1 .. Len(s.open)
      /\ Len(F.base) \in Nat /\ Len(F.base) <= Len(s.open)
  BY HeldFacts DEF Held
<1>2. \A i \in 1 .. Len(F.base) : i \in DOMAIN s.open
  BY <1>1
<1>3. Len(F.base) \in 1 .. Len(F.base) /\ Len(F.base) >= 1
  BY <1>1 DEF Stops
<1> QED
  BY <1>1, <1>2, <1>3 DEF Stops, Begins, Based

LEMMA AboveBase ==
  ASSUME NEW s, NEW F, K(s, F), F.stop, s.sound, NEW i \in DOMAIN s.open,
         s.nodes[s.open[i]].tag \notin Fixed \/ s.nodes[s.open[i]].ns # "html"
  PROVE  i > Len(F.base)
<1>1. i \in Nat /\ i >= 1 /\ Len(F.base) \in Nat
  BY HeldFacts
<1>2. ~(i \in 1 .. Len(F.base))
  BY BaseFacts
<1> QED
  BY <1>1, <1>2

\* A highest place is above the base if nothing of the base qualifies, ...
LEMMA PlaceAboveBase ==
  ASSUME NEW s, NEW F, K(s, F), F.stop, s.sound, NEW tags, tags \intersect Fixed = {}
  PROVE  PlaceOf(s, tags) \in Nat /\ (PlaceOf(s, tags) = 0 \/ PlaceOf(s, tags) > Len(F.base))
<1>1. Rooted(s) /\ Len(s.open) \in Nat
  BY HeldFacts
<1>2. /\ PlaceOf(s, tags) \in 0 .. Len(s.open)
      /\ PlaceOf(s, tags) # 0 => PlaceOf(s, tags) \in DOMAIN s.open /\ IsHtml(s, s.open[PlaceOf(s, tags)], tags)
  BY <1>1, PlaceOfIs
<1> QED
  BY <1>1, <1>2, AboveBase DEF IsHtml, IsElement

\* ... and not below its top if that does.
LEMMA GreatestAtBase ==
  ASSUME NEW s, NEW F, K(s, F), s.sound, NEW S \in SUBSET DOMAIN s.open, Len(F.base) \in S
  PROVE  Greatest(S) \in Nat /\ Greatest(S) >= Len(F.base) /\ Greatest(S) \in S
<1>1. Len(s.open) \in Nat /\ DOMAIN s.open = 1 .. Len(s.open) /\ Len(F.base) \in Nat
  BY HeldFacts
<1>2. S \in SUBSET (1 .. Len(s.open))
  BY <1>1
<1>3. Greatest(S) \in S \union {0} /\ Greatest(S) \in 0 .. Len(s.open) /\ \A y \in S : y <= Greatest(S)
  BY <1>1, <1>2, GreatestIs
<1>4. Greatest(S) \in Nat /\ Greatest(S) >= Len(F.base)
  BY <1>1, <1>3
<1>5. Greatest(S) # 0
  <2>1. Len(F.base) >= 1
    BY <1>1, <1>2
  <2> QED
    BY <1>1, <1>4, <2>1
<1> QED
  BY <1>3, <1>4, <1>5

LEMMA PopOffK ==
  ASSUME NEW s, NEW F, K(s, F), NEW place \in Nat, s.sound => place = 0 \/ place > Len(F.base)
  PROVE  K(PopOff(s, place), F)
<1> DEFINE mid == IF place = 0 THEN s ELSE PopTo(s, place - 1)
<1>1. K(mid, F)
  <2>1. CASE place = 0
    BY <2>1
  <2>2. CASE place # 0
    <3>1. place - 1 \in Int /\ (s.sound => place - 1 >= Len(F.base))
      BY <2>2, HeldFacts
    <3> QED
      BY <2>2, <3>1, PopToK
  <2> QED
    BY <2>1, <2>2
<1> DEFINE holds == place > 0
<1>2. holds \in BOOLEAN
  OBVIOUS
<1>3. PopOff(s, place) = Claim(mid, holds)
  BY DEF PopOff
<1> HIDE DEF mid, holds
<1> QED
  BY <1>1, <1>2, <1>3, ClaimK

LEMMA UnsoundPopOff ==
  ASSUME NEW s, NEW F, K(s, F), ~ s.sound, NEW place \in Nat
  PROVE  K(PopOff(s, place), F)
<1> DEFINE mid == IF place = 0 THEN s ELSE PopTo(s, place - 1)
<1>1. K(mid, F)
  BY PopToK
<1> DEFINE holds == place > 0
<1>2. holds \in BOOLEAN
  OBVIOUS
<1>3. PopOff(s, place) = Claim(mid, holds)
  BY DEF PopOff
<1> HIDE DEF mid, holds
<1> QED
  BY <1>1, <1>2, <1>3, ClaimK

LEMMA PopThroughK ==
  ASSUME NEW s, NEW F, K(s, F), F.stop, NEW tags, tags \intersect Fixed = {}
  PROVE  K(PopThrough(s, tags), F)
<1>1. CASE s.sound
  BY <1>1, PlaceAboveBase, PopOffK DEF PopThrough
<1>2. CASE ~ s.sound
  <2>1. PlaceOf(s, tags) \in Nat
    BY OpenPlaces DEF PlaceOf
  <2> QED
    BY <1>2, <2>1, UnsoundPopOff DEF PopThrough
<1> QED
  BY <1>1, <1>2

LEMMA ClearToK ==
  ASSUME NEW s, NEW F, K(s, F), F.stop, NEW tags, {"html", "template"} \subseteq tags
  PROVE  K(ClearTo(s, tags), F)
<1>1. ASSUME s.sound PROVE PlaceOf(s, tags) \in Int /\ PlaceOf(s, tags) >= Len(F.base)
  <2> DEFINE S == {i \in DOMAIN s.open : IsHtml(s, s.open[i], tags)}
  <2>1. Len(F.base) \in S /\ S \in SUBSET DOMAIN s.open
    BY <1>1, BaseFacts DEF IsHtml, IsElement
  <2>2. Greatest(S) \in Nat /\ Greatest(S) >= Len(F.base)
    BY <1>1, <2>1, GreatestAtBase
  <2> QED
    BY <2>2 DEF PlaceOf
<1>2. PlaceOf(s, tags) \in Int
  BY OpenPlaces DEF PlaceOf
<1> QED
  BY <1>1, <1>2, PopToK DEF ClearTo

LEMMA ClearToTableK ==
  ASSUME NEW s, NEW F, K(s, F), F.stop
  PROVE  K(ClearToTable(s), F) /\ K(ClearToTableBody(s), F) /\ K(ClearToTableRow(s), F)
BY ClearToK DEF ClearToTable, ClearToTableBody, ClearToTableRow

LEMMA PopWhileK ==
  ASSUME NEW s, NEW F, K(s, F), F.stop, NEW tags, tags \intersect {"html", "template"} = {}
  PROVE  K(PopWhile(s, tags), F)
<1> DEFINE S == {i \in DOMAIN s.open : ~ IsHtml(s, s.open[i], tags)}
<1>1. ASSUME s.sound PROVE Greatest(S) \in Int /\ Greatest(S) >= Len(F.base)
  <2>1. Len(F.base) \in S /\ S \in SUBSET DOMAIN s.open
    BY <1>1, BaseFacts DEF IsHtml, IsElement
  <2>2. Greatest(S) \in Nat /\ Greatest(S) >= Len(F.base)
    BY <1>1, <2>1, GreatestAtBase
  <2> QED
    BY <2>2
<1>2. Greatest(S) \in Int
  BY OpenPlaces
<1> HIDE DEF S
<1>3. K(PopTo(s, Greatest(S)), F)
  BY <1>1, <1>2, PopToK
<1> QED
  BY <1>3 DEF PopWhile, S

LEMMA GenerateK ==
  ASSUME NEW s, NEW F, K(s, F), F.stop
  PROVE  /\ \A except : K(GenerateImpliedEndTags(s, except), F)
         /\ K(GenerateAllImpliedEndTags(s), F)
<1>1. ASSUME NEW except PROVE K(GenerateImpliedEndTags(s, except), F)
  <2>1. (ImpliedEndTags \ except) \intersect {"html", "template"} = {}
    BY DEF ImpliedEndTags
  <2> QED
    BY <2>1, PopWhileK DEF GenerateImpliedEndTags
<1>2. K(GenerateAllImpliedEndTags(s), F)
  BY PopWhileK DEF GenerateAllImpliedEndTags
<1> QED
  BY <1>1, <1>2

LEMMA ImplicitlyCloseK ==
  ASSUME NEW s, NEW F, K(s, F), F.stop, NEW tags, tags \intersect Fixed = {}
  PROVE  K(ImplicitlyClose(s, tags), F)
BY GenerateK, PopThroughK DEF ImplicitlyClose

LEMMA ClosePK ==
  ASSUME NEW s, NEW F, K(s, F), F.stop
  PROVE  K(CloseP(s), F)
<1>1. {"p"} \intersect Fixed = {}
  BY DEF Fixed
<1> QED
  BY <1>1, ImplicitlyCloseK DEF CloseP

\* pop_current_node, when the current node is known by its tag.
LEMMA PopNamedK ==
  ASSUME NEW s, NEW F, K(s, F), F.stop, NEW tags, tags \intersect Fixed = {}, NoTag \notin tags, CurrentIs(s, tags)
  PROVE  K(Pop(s), F)
<1>1. ASSUME s.sound PROVE Len(s.open) - 1 \in Int /\ Len(s.open) - 1 >= Len(F.base)
  <2>1. /\ Len(s.open) \in Nat /\ DOMAIN s.open = 1 .. Len(s.open) /\ s.open # <<>> <=> Len(s.open) # 0
        /\ NodesOK(s.nodes, F.root, F.head) /\ Len(F.base) \in Nat
    BY <1>1, HeldFacts
  <2>2. s.nodes[Current(s)].tag \in tags
    BY DEF CurrentIs, IsHtml, IsElement
  <2>3. s.open # <<>>
    BY <2>1, <2>2 DEF Current, NodesOK
  <2> DEFINE k == Len(s.open)
             b == Len(F.base)
  <2>4. Current(s) = s.open[k]
    BY <2>3 DEF Current, Top
  <2>5. k \in Nat /\ k # 0 /\ DOMAIN s.open = 1 .. k /\ b \in Nat
    BY <2>1, <2>3
  <2> HIDE DEF k
  <2>6. k \in DOMAIN s.open
    BY <2>5
  <2>7. k > b
    BY <1>1, <2>2, <2>4, <2>6, AboveBase
  <2> HIDE DEF b
  <2>8. k - 1 \in Int /\ k - 1 >= b
    BY <2>5, <2>7
  <2> QED
    BY <2>8 DEF k, b
<1>2. Len(s.open) - 1 \in Int
  BY OpenPlaces
<1> QED
  BY <1>1, <1>2, PopToK DEF Pop

\* pop_current_node, when the current node has just been opened.
LEMMA PopNewK ==
  ASSUME NEW s, NEW F, K(s, F), NEW u, NEW tag, NEW ns, NewOnStack(s, u, tag, ns), K(u, F)
  PROVE  K(Pop(u), F)
<1>1. ASSUME u.sound PROVE Len(u.open) - 1 \in Int /\ Len(u.open) - 1 >= Len(F.base)
  <2>1. s.sound /\ u.open = Append(s.open, Len(u.nodes))
    BY <1>1 DEF NewOnStack, Rest
  <2>2. Len(s.open) \in Nat /\ Len(F.base) <= Len(s.open) /\ Len(F.base) \in Nat /\ s.open \in Seq(DOMAIN s.nodes)
    BY <2>1, HeldFacts DEF OpenOK
  <2>3. Len(u.open) = Len(s.open) + 1
    BY <2>1, <2>2, AppendProperties
  <2> QED
    BY <2>2, <2>3
<1>2. Len(u.open) - 1 \in Int
  BY OpenPlaces
<1> QED
  BY <1>1, <1>2, PopToK DEF Pop

LEMMA InsertVoidK ==
  ASSUME NEW s, NEW F, K(s, F), Based(F), NEW t, t.tag \notin Fixed
  PROVE  K(InsertVoid(s, t), F)
BY InsertTagK, PopNewK DEF InsertVoid

LEMMA CloseIfListedK ==
  ASSUME NEW s, NEW F, K(s, F), F.stop, NEW tags, tags \intersect Fixed = {}, NEW found
  PROVE  K(CloseIfListed(s, tags, found), F)
<1>1. CASE found > 0 /\ IsHtml(s, s.open[found], tags)
  <2>1. {s.nodes[s.open[found]].tag} \intersect Fixed = {}
    BY <1>1 DEF IsHtml, IsElement
  <2> DEFINE own == {s.nodes[s.open[found]].tag}
  <2>2. CloseIfListed(s, tags, found) = ImplicitlyClose(s, own)
    BY <1>1 DEF CloseIfListed
  <2> HIDE DEF own
  <2> QED
    BY <2>1, <2>2, ImplicitlyCloseK DEF own
<1>2. CASE ~(found > 0 /\ IsHtml(s, s.open[found], tags))
  BY <1>2 DEF CloseIfListed
<1> QED
  BY <1>1, <1>2

LEMMA CloseListTagK ==
  ASSUME NEW s, NEW F, K(s, F), F.stop, NEW tags, tags \intersect Fixed = {}
  PROVE  K(CloseListTag(s, tags), F)
<1> DEFINE Stop(n) == IsSpecial(s, n) /\ ~ IsHtml(s, n, {"address", "div", "p"})
           found == Greatest({i \in DOMAIN s.open : IsHtml(s, s.open[i], tags) \/ Stop(s.open[i])})
<1>1. CloseListTag(s, tags) = NoFrameset(CloseIfListed(s, tags, found))
  BY DEF CloseListTag
<1> HIDE DEF found
<1> QED
  BY <1>1, CloseIfListedK, NoFramesetK

\* Any other end tag.
LEMMA EndOtherK ==
  ASSUME NEW s, NEW F, K(s, F), F.stop, NEW t, t.tag \notin {"html", "template"}
  PROVE  K(EndOther(s, t), F)
<1> DEFINE S == {i \in DOMAIN s.open : IsHtml(s, s.open[i], {t.tag}) \/ IsSpecial(s, s.open[i])}
           found == Greatest(S)
<1>1. EndOther(s, t) = EndFound(s, t, found)
  BY DEF EndOther
<1>2. CASE ~ IsHtml(s, s.open[found], {t.tag})
  BY <1>1, <1>2 DEF EndFound
<1>3. CASE IsHtml(s, s.open[found], {t.tag})
  <2>1. ASSUME s.sound PROVE found - 1 \in Int /\ found - 1 >= Len(F.base)
    <3>1. Len(F.base) \in S /\ S \in SUBSET DOMAIN s.open
      BY <2>1, BaseFacts DEF IsHtml, IsElement, IsSpecial, SpecialTags
    <3>2. found \in Nat /\ found >= Len(F.base)
      BY <2>1, <3>1, GreatestAtBase
    <3>3. found # Len(F.base)
      BY <1>3, <2>1, BaseFacts DEF IsHtml, IsElement
    <3> QED
      BY <2>1, <3>2, <3>3, HeldFacts
  <2>2. EndOther(s, t) = PopTo(s, found - 1)
    BY <1>1, <1>3 DEF EndFound
  <2>3. found - 1 \in Int
    BY OpenPlaces
  <2> HIDE DEF found
  <2> QED
    BY <2>1, <2>2, <2>3, PopToK
<1> QED
  BY <1>2, <1>3

-----------------------------------------------------------------------------
(* Foreign content.                                                        *)

\* The top of the base is an html element.
Grounded(s, F) == s.sound => Len(F.base) \in DOMAIN s.open /\ s.nodes[s.open[Len(F.base)]].ns = "html"

LEMMA PopForeignK ==
  ASSUME NEW s, NEW F, K(s, F), Grounded(s, F), s.sound => IsForeign(s, Current(s))
  PROVE  K(PopForeign(s), F)
<1> DEFINE S == {i \in 1 .. Len(s.open) - 1 : \/ ~ IsForeign(s, s.open[i])
                                            \/ IsMathmlIntegrationPoint(s, s.open[i])
                                            \/ IsHtmlIntegrationPoint(s, s.open[i])}
<1>1. ASSUME s.sound PROVE Greatest(S) \in Int /\ Greatest(S) >= Len(F.base)
  <2>1. /\ Len(s.open) \in Nat /\ DOMAIN s.open = 1 .. Len(s.open) /\ Len(F.base) \in Nat
        /\ s.open # <<>> <=> Len(s.open) # 0
    BY <1>1, HeldFacts
  <2>2. Len(F.base) \in DOMAIN s.open /\ s.nodes[s.open[Len(F.base)]].ns = "html"
    BY <1>1 DEF Grounded
  <2>3. Current(s) = s.open[Len(s.open)]
    BY <2>1, <2>2 DEF Current, Top
  <2>4. Len(F.base) # Len(s.open)
    BY <1>1, <2>2, <2>3 DEF IsForeign
  <2>5. Len(F.base) \in 1 .. Len(s.open) - 1
    BY <2>1, <2>2, <2>4
  <2>6. Len(F.base) \in S /\ S \in SUBSET DOMAIN s.open
    BY <2>1, <2>2, <2>5 DEF IsForeign
  <2> QED
    BY <1>1, <2>6, GreatestAtBase
<1>2. PopForeign(s) = PopTo(s, Greatest(S))
  BY DEF PopForeign
<1>3. Greatest(S) \in Int
  <2>1. S \subseteq DOMAIN s.open
    BY OpenPlaces
  <2> HIDE DEF S
  <2> QED
    BY <2>1, OpenPlaces
<1> HIDE DEF S
<1> QED
  BY <1>1, <1>2, <1>3, PopToK

LEMMA PopForeignEndK ==
  ASSUME NEW s, NEW F, K(s, F), Grounded(s, F), NEW t, s.sound => ForeignPlace(s, t) # 0
  PROVE  K(PopTo(s, ForeignPlace(s, t) - 1), F)
<1> DEFINE H == {i \in DOMAIN s.open : ~ IsForeign(s, s.open[i])}
           html == Greatest(H)
           S == {i \in html + 1 .. Len(s.open) : s.nodes[s.open[i]].tag = t.tag}
<1>1. ForeignPlace(s, t) = Greatest(S)
  BY DEF ForeignPlace
<1>2. ASSUME s.sound PROVE ForeignPlace(s, t) - 1 \in Int /\ ForeignPlace(s, t) - 1 >= Len(F.base)
  <2>1. Len(s.open) \in Nat /\ DOMAIN s.open = 1 .. Len(s.open) /\ Len(F.base) \in Nat
    BY <1>2, HeldFacts
  <2>2. Len(F.base) \in H /\ H \in SUBSET DOMAIN s.open
    BY <1>2, <2>1 DEF IsForeign, Grounded
  <2>3. html \in Nat /\ html >= Len(F.base)
    BY <1>2, <2>2, GreatestAtBase
  <2> HIDE DEF html
  <2>4. S \in SUBSET (1 .. Len(s.open))
    BY <2>1, <2>3
  <2>5. Greatest(S) \in S \union {0}
    BY <2>1, <2>4, GreatestIs
  <2>6. Greatest(S) \in html + 1 .. Len(s.open)
    BY <1>1, <1>2, <2>5
  <2> HIDE DEF S
  <2> QED
    BY <1>1, <2>1, <2>3, <2>6
<1>3. ForeignPlace(s, t) - 1 \in Int
  <2>1. html \in Nat
    BY OpenPlaces
  <2> HIDE DEF html
  <2>2. S \subseteq DOMAIN s.open
    BY <2>1, OpenPlaces
  <2> HIDE DEF S
  <2>3. Greatest(S) \in Int
    BY <2>2, OpenPlaces
  <2> QED
    BY <1>1, <2>3
<1> HIDE DEF S
<1> QED
  BY <1>2, <1>3, PopToK

\* The place an entry had before another was removed, and before one was inserted.
Back(index, j) == IF j <= index THEN j ELSE j + 1
Fore(index, j) == IF j <= index THEN j ELSE j - 1

LEMMA RemoveAtIs ==
  ASSUME NEW S, NEW v \in Seq(S), NEW index \in 0 .. Len(v) - 1
  PROVE  LET w == RemoveAt(v, index)
         IN  /\ w \in Seq(S) /\ Len(w) = Len(v) - 1 /\ DOMAIN w = 1 .. Len(v) - 1
             /\ \A j \in DOMAIN w : Back(index, j) \in DOMAIN v /\ Back(index, j) # index + 1 /\ w[j] = v[Back(index, j)]
             /\ \A i, j \in DOMAIN w : Back(index, i) = Back(index, j) => i = j
             /\ index >= 1 => (Len(w) >= 1 => w[1] = v[1])
             /\ \A i \in DOMAIN v : i # index + 1 => \E j \in DOMAIN w : w[j] = v[i]
<1> DEFINE w == RemoveAt(v, index)
           k == Len(v)
<1>1. k \in Nat /\ DOMAIN v = 1 .. k
  BY LenProperties
<1>2. w \in Seq(S) /\ Len(w) = k - 1 /\ \A j \in 1 .. k - 1 : w[j] = IF j <= index THEN v[j] ELSE v[j + 1]
  BY RemoveAtClosesTheGap
<1> HIDE DEF w, k
<1>3. DOMAIN w = 1 .. k - 1
  BY <1>2, LenProperties
<1>4. index \in Nat /\ index < k
  BY <1>1 DEF k
<1>5. \A j \in DOMAIN w : Back(index, j) \in DOMAIN v /\ Back(index, j) # index + 1 /\ w[j] = v[Back(index, j)]
  BY <1>1, <1>2, <1>3, <1>4 DEF Back
<1>6. \A i, j \in DOMAIN w : Back(index, i) = Back(index, j) => i = j
  BY <1>1, <1>3, <1>4 DEF Back
<1>7. index >= 1 => (Len(w) >= 1 => w[1] = v[1])
  BY <1>1, <1>2, <1>4
<1>8. ASSUME NEW i \in DOMAIN v, i # index + 1
      PROVE  \E j \in DOMAIN w : w[j] = v[i]
  <2>1. CASE i <= index
    BY <1>1, <1>2, <1>3, <1>4, <2>1
  <2>2. CASE i > index + 1
    <3>1. i - 1 \in DOMAIN w /\ ~(i - 1 <= index) /\ (i - 1) + 1 = i
      BY <1>1, <1>3, <1>4, <2>2
    <3> QED
      BY <1>2, <1>3, <3>1
  <2> QED
    BY <1>1, <1>4, <1>8, <2>1, <2>2
<1> QED
  BY <1>1, <1>2, <1>3, <1>5, <1>6, <1>7, <1>8 DEF w, k

\* What an insertion into a vector leaves in it.
InsertionIs(w, S, v, index, e) ==
  /\ w \in Seq(S) /\ w[index + 1] = e
  /\ \A j \in DOMAIN w : j # index + 1 => Fore(index, j) \in DOMAIN v /\ w[j] = v[Fore(index, j)]
  /\ \A i, j \in DOMAIN w : i # index + 1 /\ j # index + 1 /\ Fore(index, i) = Fore(index, j) => i = j

LEMMA InsertAtIs ==
  ASSUME NEW S, NEW v \in Seq(S), NEW index \in 0 .. Len(v), NEW e \in S
  PROVE  LET w == InsertAt(v, index, e)
         IN  /\ w \in Seq(S) /\ Len(w) = Len(v) + 1 /\ DOMAIN w = 1 .. Len(v) + 1
             /\ index + 1 \in DOMAIN w /\ w[index + 1] = e
             /\ InsertionIs(w, S, v, index, e)
             /\ index >= 1 => w[1] = v[1]
             /\ \A j \in 1 .. index : w[j] = v[j]
<1> DEFINE w == InsertAt(v, index, e)
           k == Len(v)
<1>1. k \in Nat /\ DOMAIN v = 1 .. k
  BY LenProperties
<1>2. w \in Seq(S) /\ Len(w) = k + 1
      /\ \A j \in 1 .. k + 1 : w[j] = IF j <= index THEN v[j] ELSE IF j = index + 1 THEN e ELSE v[j - 1]
  <2>1. /\ InsertAt(v, index, e) \in Seq(S)
        /\ Len(InsertAt(v, index, e)) = Len(v) + 1
        /\ \A j \in 1 .. Len(v) + 1 :
             InsertAt(v, index, e)[j] = IF j <= index THEN v[j] ELSE IF j = index + 1 THEN e ELSE v[j - 1]
    BY InsertAtMakesPlace
  <2> QED
    BY <2>1
<1> HIDE DEF w, k
<1>3. DOMAIN w = 1 .. k + 1
  BY <1>2, LenProperties
<1>4. index \in Nat /\ index <= k
  BY <1>1 DEF k
<1>5. index + 1 \in DOMAIN w /\ w[index + 1] = e
  BY <1>1, <1>2, <1>3, <1>4
<1>6. \A j \in DOMAIN w : j # index + 1 => Fore(index, j) \in DOMAIN v /\ w[j] = v[Fore(index, j)]
  BY <1>1, <1>2, <1>3, <1>4 DEF Fore
<1>7. \A i, j \in DOMAIN w : i # index + 1 /\ j # index + 1 /\ Fore(index, i) = Fore(index, j) => i = j
  BY <1>1, <1>3, <1>4 DEF Fore
<1>8. \A j \in 1 .. index : w[j] = v[j]
  BY <1>1, <1>2, <1>4
<1>9. index >= 1 => w[1] = v[1]
  BY <1>4, <1>8
<1>10. InsertionIs(w, S, v, index, e)
  BY <1>2, <1>5, <1>6, <1>7 DEF InsertionIs
<1> QED
  BY <1>1, <1>2, <1>3, <1>5, <1>8, <1>9, <1>10 DEF w, k

-----------------------------------------------------------------------------
(* The list of active formatting elements and the stack with an entry less *)
(* or more.                                                                *)

LEMMA ActiveRemoved ==
  ASSUME NEW nodes, NEW active, ActiveOK(nodes, active), NEW index \in 0 .. Len(active) - 1
  PROVE  LET w == RemoveAt(active, index)
         IN  /\ active[index + 1] # Marker => ActiveOK(nodes, w)
             /\ \A open : active[index + 1] # Marker /\ Segmented(open, active) => Segmented(open, w)
             /\ Len(w) = Len(active) - 1
             /\ \A e : (e # Marker => \A i \in DOMAIN active : active[i] # e) => \A j \in DOMAIN w : e # Marker => w[j] # e
             /\ active[index + 1] # Marker => \A j \in DOMAIN w : w[j] # active[index + 1]
             /\ \A e : In(w, e) => In(active, e)
<1> DEFINE w == RemoveAt(active, index)
           S == DOMAIN nodes \union {Marker}
<1>1. active \in Seq(S)
  BY DEF ActiveOK
<1>2. /\ w \in Seq(S) /\ Len(w) = Len(active) - 1
      /\ \A j \in DOMAIN w : Back(index, j) \in DOMAIN active /\ Back(index, j) # index + 1 /\ w[j] = active[Back(index, j)]
      /\ \A i, j \in DOMAIN w : Back(index, i) = Back(index, j) => i = j
  BY <1>1, RemoveAtIs
<1>3. index + 1 \in DOMAIN active
  BY <1>1, VectorFacts
<1>4. DOMAIN w = 1 .. Len(active) - 1 /\ DOMAIN active = 1 .. Len(active) /\ Len(active) \in Nat
  BY <1>1, RemoveAtIs, VectorFacts
<1> DEFINE From == [j \in DOMAIN w |-> Back(index, j)]
<1>5. \A j \in DOMAIN w : From[j] = Back(index, j)
  OBVIOUS
<1> HIDE DEF w, From
<1>6. index \in Nat
  OBVIOUS
<1>7. \A i, j \in DOMAIN w : i < j <=> Back(index, i) < Back(index, j)
  BY <1>4, <1>6 DEF Back
<1>8. ASSUME NEW k \in DOMAIN active, k # index + 1
      PROVE  \E m \in DOMAIN w : Back(index, m) = k /\ w[m] = active[k]
  <2>1. Fore(index, k) \in DOMAIN w /\ Back(index, Fore(index, k)) = k
    BY <1>3, <1>4, <1>6, <1>8 DEF Back, Fore
  <2> QED
    BY <1>2, <2>1
<1>9. ASSUME active[index + 1] # Marker
      PROVE  Noah(nodes, w)
  <2>1. ASSUME NEW i \in DOMAIN w, NEW j \in DOMAIN w, Shipmates(nodes, w, i, j)
        PROVE  Shipmates(nodes, active, From[i], From[j])
    <3>1. ASSUME NEW k \in DOMAIN active, active[k] = Marker
          PROVE  k < Back(index, i) <=> k < Back(index, j)
      <4>1. PICK m \in DOMAIN w : Back(index, m) = k /\ w[m] = Marker
        BY <1>8, <1>9, <3>1
      <4>2. m < i <=> m < j
        BY <2>1, <4>1 DEF Shipmates
      <4> QED
        BY <1>7, <4>1, <4>2
    <3> QED
      BY <1>2, <1>5, <2>1, <3>1 DEF Shipmates
  <2>2. Noah(nodes, active)
    BY DEF ActiveOK
  <2>3. \A i \in DOMAIN w : From[i] \in DOMAIN active
    BY <1>2, <1>5
  <2>4. \A i, j \in DOMAIN w : From[i] = From[j] => i = j
    BY <1>2, <1>5
  <2> QED
    BY <2>1, <2>2, <2>3, <2>4, NoahMapped
<1>10. active[index + 1] # Marker => ActiveOK(nodes, w)
  BY <1>2, <1>9 DEF ActiveOK, S
<1>11. ASSUME NEW open, active[index + 1] # Marker, Segmented(open, active)
       PROVE  Segmented(open, w)
  <2> SUFFICES ASSUME NEW k \in DOMAIN w, w[k] = Marker,
                      NEW i \in DOMAIN w, NEW j \in DOMAIN w, i < k, k < j,
                      NEW a \in DOMAIN open, NEW b \in DOMAIN open, w[i] = open[a], w[j] = open[b]
               PROVE  a < b
    BY DEF Segmented
  <2> QED
    BY <1>2, <1>7, <1>11 DEF Segmented
<1> QED
  BY <1>2, <1>3, <1>10, <1>11 DEF ActiveOK, In, w

\* An element makes place for another of its kind, behind the same markers.
LEMMA ActiveRelisted ==
  ASSUME NEW nodes, NEW active, ActiveOK(nodes, active), NEW entry \in 0 .. Len(active) - 1,
         active[entry + 1] # Marker, NEW index \in 0 .. Len(active) - 1,
         NEW n \in DOMAIN nodes, n # Marker, Twins(nodes, active[entry + 1], n), \A i \in DOMAIN active : active[i] # n,
         \A k \in DOMAIN active : active[k] = Marker => k <= entry /\ k <= index
  PROVE  LET w == InsertAt(RemoveAt(active, entry), index, n)
         IN  /\ ActiveOK(nodes, w) /\ index + 1 \in DOMAIN w /\ w[index + 1] = n
             /\ \A j \in DOMAIN w : j # index + 1 =>
                  LET i == Back(entry, Fore(index, j)) IN i \in DOMAIN active /\ i # entry + 1 /\ w[j] = active[i]
             /\ \A j \in DOMAIN w : w[j] = Marker => j <= index
<1> DEFINE left == RemoveAt(active, entry)
           w == InsertAt(left, index, n)
           S == DOMAIN nodes \union {Marker}
           k == Len(active)
<1>1. active \in Seq(S) /\ n \in S
  BY DEF ActiveOK
<1>2. k \in Nat /\ DOMAIN active = 1 .. k
  BY <1>1, LenProperties
<1> HIDE DEF S
<1>3. /\ left \in Seq(S) /\ Len(left) = k - 1 /\ DOMAIN left = 1 .. k - 1
      /\ \A j \in DOMAIN left : Back(entry, j) \in DOMAIN active /\ Back(entry, j) # entry + 1 /\ left[j] = active[Back(entry, j)]
      /\ \A i, j \in DOMAIN left : Back(entry, i) = Back(entry, j) => i = j
  BY <1>1, RemoveAtIs
<1> HIDE DEF left
<1>4. /\ w \in Seq(S) /\ DOMAIN w = 1 .. k /\ index + 1 \in DOMAIN w /\ w[index + 1] = n
      /\ \A j \in DOMAIN w : j # index + 1 => Fore(index, j) \in DOMAIN left /\ w[j] = left[Fore(index, j)]
      /\ \A i, j \in DOMAIN w : i # index + 1 /\ j # index + 1 /\ Fore(index, i) = Fore(index, j) => i = j
  <2>1. index \in 0 .. Len(left)
    BY <1>2, <1>3
  <2>2. /\ Len(w) = Len(left) + 1 /\ DOMAIN w = 1 .. Len(left) + 1 /\ index + 1 \in DOMAIN w
        /\ InsertionIs(w, S, left, index, n)
    <3>1. left \in Seq(S) /\ n \in S
      BY <1>1, <1>3
    <3> QED
      BY <2>1, <3>1, InsertAtIs
  <2> HIDE DEF w
  <2> QED
    BY <1>2, <1>3, <2>2 DEF InsertionIs
<1> HIDE DEF w
<1> DEFINE From == [j \in DOMAIN w |-> IF j = index + 1 THEN entry + 1 ELSE Back(entry, Fore(index, j))]
<1>5. /\ From[index + 1] = entry + 1
      /\ \A j \in DOMAIN w : j # index + 1 => From[j] = Back(entry, Fore(index, j))
  BY <1>4
<1>6. From[index + 1] \in DOMAIN active /\ entry + 1 \in DOMAIN active
  BY <1>2, <1>5
<1> HIDE DEF From
<1>7. ASSUME NEW j \in DOMAIN w, j # index + 1
      PROVE  From[j] \in DOMAIN active /\ From[j] # entry + 1 /\ w[j] = active[From[j]]
  BY <1>3, <1>4, <1>5, <1>7
<1>8. ASSUME NEW i \in DOMAIN w, NEW j \in DOMAIN w, From[i] = From[j] PROVE i = j
  <2>1. CASE i # index + 1 /\ j # index + 1
    <3>1. Fore(index, i) \in DOMAIN left /\ Fore(index, j) \in DOMAIN left
      BY <1>4, <2>1
    <3>2. Fore(index, i) = Fore(index, j)
      BY <1>3, <1>5, <1>8, <2>1, <3>1
    <3> QED
      BY <1>4, <2>1, <3>2
  <2>2. CASE i = index + 1 \/ j = index + 1
    BY <1>5, <1>7, <1>8, <2>2
  <2> QED
    BY <2>1, <2>2
<1>9. entry \in Nat /\ index \in Nat /\ entry + 1 <= k /\ index + 1 <= k
  BY <1>2
<1> HIDE DEF k
<1>10. ASSUME NEW m \in DOMAIN active, active[m] = Marker
       PROVE  m \in DOMAIN w /\ From[m] = m /\ m # index + 1 /\ w[m] = Marker
  <2>1. m \in 1 .. k /\ m <= entry /\ m <= index
    BY <1>2, <1>10
  <2>2. m \in DOMAIN w /\ m # index + 1 /\ From[m] = m
    BY <1>4, <1>5, <1>9, <2>1 DEF Back, Fore
  <2> QED
    BY <1>7, <1>10, <2>2
<1>11. ASSUME NEW j \in DOMAIN w, w[j] = Marker
       PROVE  From[j] = j /\ j <= index
  <2>1. j # index + 1
    BY <1>4, <1>11
  <2>2. From[j] \in DOMAIN active /\ active[From[j]] = Marker
    BY <1>7, <1>11, <2>1
  <2>3. From[j] \in DOMAIN w /\ From[From[j]] = From[j]
    BY <1>10, <2>2
  <2>4. From[j] = j
    BY <1>8, <2>3
  <2> QED
    BY <2>2, <2>4
<1>12. ASSUME NEW j \in DOMAIN w, w[j] # Marker
       PROVE  active[From[j]] # Marker /\ From[j] \in DOMAIN active /\ Twins(nodes, active[From[j]], w[j])
  <2>1. CASE j = index + 1
    BY <1>4, <1>5, <1>6, <2>1
  <2>2. CASE j # index + 1
    BY <1>7, <1>12, <2>2 DEF Twins
  <2> QED
    BY <2>1, <2>2
<1>13. ASSUME NEW j \in DOMAIN w, NEW m \in DOMAIN active, active[m] = Marker, w[j] # Marker
       PROVE  m < From[j] <=> m < j
  <2>1. CASE j = index + 1
    BY <1>5, <1>9, <1>13, <1>2, <2>1
  <2>2. CASE j # index + 1
    <3>1. m \in 1 .. k /\ j \in 1 .. k /\ m <= entry /\ m <= index /\ From[j] = Back(entry, Fore(index, j))
      BY <1>2, <1>4, <1>5, <1>13, <2>2
    <3> QED
      BY <1>9, <2>2, <3>1 DEF Back, Fore
  <2> QED
    BY <2>1, <2>2
<1>14. Noah(nodes, w)
  <2>1. ASSUME NEW i \in DOMAIN w, NEW j \in DOMAIN w, Shipmates(nodes, w, i, j)
        PROVE  Shipmates(nodes, active, From[i], From[j])
    <3>1. w[i] # Marker /\ w[j] # Marker /\ Twins(nodes, w[i], w[j])
      BY <2>1 DEF Shipmates
    <3>2. Twins(nodes, active[From[i]], active[From[j]])
      BY <1>12, <3>1 DEF Twins
    <3>3. ASSUME NEW m \in DOMAIN active, active[m] = Marker
          PROVE  m < From[i] <=> m < From[j]
      <4>1. m < i <=> m < j
        BY <1>10, <2>1, <3>3 DEF Shipmates
      <4> QED
        BY <1>13, <3>1, <3>3, <4>1
    <3> QED
      BY <1>12, <3>1, <3>2, <3>3 DEF Shipmates
  <2>2. Noah(nodes, active)
    BY DEF ActiveOK
  <2> QED
    BY <1>8, <1>12, <2>1, <2>2, NoahMapped
<1>15. \A i \in DOMAIN w : w[i] # Marker => nodes[w[i]].tag \notin Unlisted
  BY <1>12 DEF ActiveOK, Twins
<1>16. ASSUME NEW i \in DOMAIN w, NEW j \in DOMAIN w, w[i] # Marker, w[i] = w[j]
       PROVE  i = j
  <2>1. CASE i = index + 1 \/ j = index + 1
    BY <1>4, <1>7, <1>16, <2>1
  <2>2. CASE i # index + 1 /\ j # index + 1
    BY <1>7, <1>8, <1>16, <2>2 DEF ActiveOK
  <2> QED
    BY <2>1, <2>2
<1>17. ActiveOK(nodes, w)
  BY <1>4, <1>14, <1>15, <1>16 DEF ActiveOK, S
<1> QED
  BY <1>4, <1>5, <1>7, <1>11, <1>17 DEF w, left

\* A place of the list, behind its last marker, that holds an element of the same kind.
Aboard(nodes, active, n, i) ==
  active[i] # Marker /\ Twins(nodes, active[i], n) /\ \A k \in DOMAIN active : active[k] = Marker => k < i

\* There is room for one more of a kind.
HasRoom(nodes, active, n) ==
  \A i, j, k \in DOMAIN active :
    Aboard(nodes, active, n, i) /\ Aboard(nodes, active, n, j) /\ Aboard(nodes, active, n, k) =>
      i = j \/ i = k \/ j = k

LEMMA NoahBoards ==
  ASSUME NEW nodes, NEW active, NEW w, NEW last, Noah(nodes, active), NEW n, HasRoom(nodes, active, n),
         DOMAIN w = DOMAIN active \union {last}, w[last] = n, \A i \in DOMAIN active : i < last /\ ~ last < i,
         \A i \in DOMAIN active : w[i] = active[i], n # Marker, last \notin DOMAIN active
  PROVE  Noah(nodes, w)
<1>1. ASSUME NEW i \in DOMAIN active, NEW j \in DOMAIN active, Shipmates(nodes, w, i, j)
      PROVE  Shipmates(nodes, active, i, j)
  BY <1>1 DEF Shipmates
<1>2. ASSUME NEW i \in DOMAIN active, Shipmates(nodes, w, last, i)
      PROVE  Aboard(nodes, active, n, i)
  <2>1. w[i] = active[i] /\ w[i] # Marker /\ Twins(nodes, n, w[i])
    BY <1>2 DEF Shipmates
  <2>2. ASSUME NEW k \in DOMAIN active, active[k] = Marker
        PROVE  k < i
    BY <1>2, <2>2 DEF Shipmates
  <2> QED
    BY <2>1, <2>2 DEF Aboard, Twins
<1> SUFFICES ASSUME NEW a \in DOMAIN w, NEW b \in DOMAIN w, NEW c \in DOMAIN w, NEW d \in DOMAIN w,
                    Shipmates(nodes, w, a, b), Shipmates(nodes, w, a, c), Shipmates(nodes, w, a, d)
             PROVE  a = b \/ a = c \/ a = d \/ b = c \/ b = d \/ c = d
  BY DEF Noah
<1>3. ASSUME NEW x \in DOMAIN w, x = last, NEW i \in DOMAIN active, NEW j \in DOMAIN active, NEW k \in DOMAIN active,
             Shipmates(nodes, w, x, i), Shipmates(nodes, w, x, j), Shipmates(nodes, w, x, k)
      PROVE  i = j \/ i = k \/ j = k
  BY <1>2, <1>3 DEF HasRoom
<1>4. /\ Shipmates(nodes, w, b, a) /\ Shipmates(nodes, w, b, c) /\ Shipmates(nodes, w, b, d)
      /\ Shipmates(nodes, w, c, a) /\ Shipmates(nodes, w, c, b) /\ Shipmates(nodes, w, c, d)
      /\ Shipmates(nodes, w, d, a) /\ Shipmates(nodes, w, d, b) /\ Shipmates(nodes, w, d, c)
  BY ShipmatesAgree
<1>5. CASE a \in DOMAIN active /\ b \in DOMAIN active /\ c \in DOMAIN active /\ d \in DOMAIN active
  BY <1>1, <1>5 DEF Noah
<1>6. CASE a = last /\ b \in DOMAIN active /\ c \in DOMAIN active /\ d \in DOMAIN active
  BY <1>3, <1>6
<1>7. CASE b = last /\ a \in DOMAIN active /\ c \in DOMAIN active /\ d \in DOMAIN active
  BY <1>3, <1>4, <1>7
<1>8. CASE c = last /\ a \in DOMAIN active /\ b \in DOMAIN active /\ d \in DOMAIN active
  BY <1>3, <1>4, <1>8
<1>9. CASE d = last /\ a \in DOMAIN active /\ b \in DOMAIN active /\ c \in DOMAIN active
  BY <1>3, <1>4, <1>9
<1> QED
  BY <1>5, <1>6, <1>7, <1>8, <1>9

LEMMA ActiveAppended ==
  ASSUME NEW nodes, NEW active, ActiveOK(nodes, active),
         NEW n \in DOMAIN nodes, HasRoom(nodes, active, n), nodes[n].tag \notin Unlisted, \A i \in DOMAIN active : active[i] # n, n # Marker
  PROVE  ActiveOK(nodes, Append(active, n))
<1> DEFINE w == Append(active, n)
           S == DOMAIN nodes \union {Marker}
           k == Len(active)
<1>1. active \in Seq(S) /\ n \in S
  BY DEF ActiveOK
<1> HIDE DEF S
<1>2. /\ w \in Seq(S) /\ k \in Nat /\ DOMAIN active = 1 .. k
      /\ DOMAIN w = DOMAIN active \union {k + 1} /\ w[k + 1] = n /\ \A i \in DOMAIN active : w[i] = active[i]
  BY <1>1, AppendIs
<1> HIDE DEF w, k
<1>3. \A i \in DOMAIN w : w[i] # Marker => nodes[w[i]].tag \notin Unlisted
  BY <1>2 DEF ActiveOK
<1>4. ASSUME NEW i \in DOMAIN w, NEW j \in DOMAIN w, w[i] # Marker, w[i] = w[j]
      PROVE  i = j
  <2>1. CASE i \in DOMAIN active /\ j \in DOMAIN active
    BY <1>2, <1>4, <2>1 DEF ActiveOK
  <2>2. CASE i \in DOMAIN active /\ j = k + 1
    BY <1>2, <1>4, <2>2
  <2>3. CASE i = k + 1 /\ j \in DOMAIN active
    BY <1>2, <1>4, <2>3
  <2> QED
    BY <1>2, <2>1, <2>2, <2>3
<1>5. Noah(nodes, w)
  <2>1. k + 1 \notin DOMAIN active /\ \A i \in DOMAIN active : i < k + 1 /\ ~ k + 1 < i
    BY <1>2
  <2> QED
    BY <1>2, <2>1, NoahBoards DEF ActiveOK
<1> QED
  BY <1>2, <1>3, <1>4, <1>5 DEF ActiveOK, S, w

LEMMA ActiveReplaced ==
  ASSUME NEW nodes, NEW active, ActiveOK(nodes, active), NEW place \in DOMAIN active, active[place] # Marker,
         NEW n \in DOMAIN nodes, n # Marker, Twins(nodes, active[place], n), \A i \in DOMAIN active : active[i] # n
  PROVE  LET w == [active EXCEPT ![place] = n] IN ActiveOK(nodes, w) /\ Len(w) = Len(active) /\ DOMAIN w = DOMAIN active
<1> DEFINE w == [active EXCEPT ![place] = n]
           S == DOMAIN nodes \union {Marker}
<1>1. active \in Seq(S) /\ n \in S
  BY DEF ActiveOK
<1> HIDE DEF S
<1>2. w \in Seq(S) /\ Len(w) = Len(active)
  BY <1>1, ExceptSeq
<1>3. DOMAIN w = DOMAIN active /\ w[place] = n /\ \A i \in DOMAIN active : i # place => w[i] = active[i]
  OBVIOUS
<1> HIDE DEF w
<1>4. \A i \in DOMAIN w : w[i] # Marker => nodes[w[i]].tag \notin Unlisted
  BY <1>3 DEF ActiveOK, Twins
<1>5. \A i, j \in DOMAIN w : w[i] # Marker /\ w[i] = w[j] => i = j
  BY <1>3 DEF ActiveOK
<1>6. Noah(nodes, w)
  <2> DEFINE From == [i \in DOMAIN w |-> i]
  <2>1. ASSUME NEW i \in DOMAIN w, NEW j \in DOMAIN w, Shipmates(nodes, w, i, j)
        PROVE  Shipmates(nodes, active, i, j)
    <3>1. /\ active[i] # Marker /\ Twins(nodes, active[i], w[i])
          /\ active[j] # Marker /\ Twins(nodes, active[j], w[j])
      BY <1>3, <2>1 DEF Shipmates, Twins
    <3>2. ASSUME NEW k \in DOMAIN active, active[k] = Marker
          PROVE  k < i <=> k < j
      BY <1>3, <2>1, <3>2 DEF Shipmates
    <3> QED
      BY <2>1, <3>1, <3>2 DEF Shipmates, Twins
  <2>2. \A i \in DOMAIN w : From[i] = i
    OBVIOUS
  <2> HIDE DEF From
  <2> QED
    BY <1>3, <2>1, <2>2, NoahMapped DEF ActiveOK
<1> QED
  BY <1>2, <1>3, <1>4, <1>5, <1>6 DEF ActiveOK, S, w

LEMMA OpenRemoved ==
  ASSUME NEW nodes, NEW open, NEW root, OpenOK(nodes, open, root), NEW index \in 1 .. Len(open) - 1
  PROVE  LET w == RemoveAt(open, index)
         IN  /\ OpenOK(nodes, w, root) /\ Len(w) = Len(open) - 1
             /\ \A j \in DOMAIN w : Back(index, j) \in DOMAIN open /\ w[j] = open[Back(index, j)]
             /\ \A j \in DOMAIN w : w[j] # open[index + 1]
             /\ \A i \in DOMAIN open : i # index + 1 => \E j \in DOMAIN w : w[j] = open[i]
             /\ \A j \in 1 .. index : j \in DOMAIN w /\ w[j] = open[j]
             /\ TemplatesIn(nodes, w) \subseteq TemplatesIn(nodes, open)
<1> DEFINE w == RemoveAt(open, index)
<1>1. open \in Seq(DOMAIN nodes)
  BY DEF OpenOK
<1>2. Len(open) \in Nat /\ DOMAIN open = 1 .. Len(open)
  BY <1>1, LenProperties
<1>3. index \in 0 .. Len(open) - 1
  BY <1>2
<1>4. /\ w \in Seq(DOMAIN nodes) /\ Len(w) = Len(open) - 1 /\ DOMAIN w = 1 .. Len(open) - 1
      /\ \A j \in DOMAIN w : Back(index, j) \in DOMAIN open /\ Back(index, j) # index + 1 /\ w[j] = open[Back(index, j)]
      /\ \A i, j \in DOMAIN w : Back(index, i) = Back(index, j) => i = j
      /\ index >= 1 => (Len(w) >= 1 => w[1] = open[1])
      /\ \A i \in DOMAIN open : i # index + 1 => \E j \in DOMAIN w : w[j] = open[i]
  BY <1>1, <1>3, RemoveAtIs
<1>5. index + 1 \in DOMAIN open /\ 1 \in DOMAIN open /\ Len(w) >= 1
  BY <1>2, <1>4
<1>6. open # <<>>
  BY <1>5
<1>7. /\ \A j \in 1 .. index : j \in DOMAIN w /\ Back(index, j) = j
  BY <1>2, <1>4 DEF Back
<1> HIDE DEF w
<1>8. OpenOK(nodes, w, root)
  BY <1>4, <1>5, <1>6 DEF OpenOK
<1>9. ASSUME NEW j \in DOMAIN w PROVE w[j] # open[index + 1]
  <2>1. Back(index, j) \in DOMAIN open /\ Back(index, j) # index + 1 /\ w[j] = open[Back(index, j)]
    BY <1>4
  <2> QED
    BY <1>5, <2>1 DEF OpenOK
<1>10. TemplatesIn(nodes, w) \subseteq TemplatesIn(nodes, open)
  BY <1>4 DEF TemplatesIn, In
<1>11. \A j \in 1 .. index : j \in DOMAIN w /\ w[j] = open[j]
  BY <1>4, <1>7
<1> QED
  BY <1>4, <1>8, <1>9, <1>10, <1>11 DEF w

LEMMA OpenInserted ==
  ASSUME NEW nodes, NEW open, NEW root, OpenOK(nodes, open, root), NEW index \in 1 .. Len(open),
         NEW n \in DOMAIN nodes, \A i \in DOMAIN open : open[i] # n
  PROVE  LET w == InsertAt(open, index, n)
         IN  /\ OpenOK(nodes, w, root) /\ Len(w) = Len(open) + 1
             /\ index + 1 \in DOMAIN w /\ w[index + 1] = n
             /\ \A j \in DOMAIN w : j # index + 1 => Fore(index, j) \in DOMAIN open /\ w[j] = open[Fore(index, j)]
             /\ \A j \in 1 .. index : j \in DOMAIN w /\ w[j] = open[j]
<1> DEFINE w == InsertAt(open, index, n)
<1>1. open \in Seq(DOMAIN nodes)
  BY DEF OpenOK
<1>2. Len(open) \in Nat /\ DOMAIN open = 1 .. Len(open)
  BY <1>1, LenProperties
<1>3. index \in 0 .. Len(open)
  BY <1>2
<1>4. /\ w \in Seq(DOMAIN nodes) /\ Len(w) = Len(open) + 1 /\ DOMAIN w = 1 .. Len(open) + 1
      /\ index + 1 \in DOMAIN w /\ w[index + 1] = n
      /\ \A j \in DOMAIN w : j # index + 1 => Fore(index, j) \in DOMAIN open /\ w[j] = open[Fore(index, j)]
      /\ \A i, j \in DOMAIN w : i # index + 1 /\ j # index + 1 /\ Fore(index, i) = Fore(index, j) => i = j
      /\ index >= 1 => w[1] = open[1]
      /\ \A j \in 1 .. index : w[j] = open[j]
  <2>1. /\ Len(w) = Len(open) + 1 /\ DOMAIN w = 1 .. Len(open) + 1 /\ index + 1 \in DOMAIN w
        /\ InsertionIs(w, DOMAIN nodes, open, index, n)
        /\ index >= 1 => w[1] = open[1]
        /\ \A j \in 1 .. index : w[j] = open[j]
    BY <1>1, <1>3, InsertAtIs
  <2> HIDE DEF w
  <2> QED
    BY <2>1 DEF InsertionIs
<1>5. 1 \in DOMAIN open /\ index >= 1
  BY <1>2
<1>6. open # <<>>
  BY <1>5
<1>7. \A j \in 1 .. index : j \in DOMAIN w
  BY <1>2, <1>4
<1> HIDE DEF w
<1>8. ASSUME NEW i \in DOMAIN w, NEW j \in DOMAIN w, w[i] = w[j]
      PROVE  i = j
  <2>1. CASE i = index + 1
    BY <1>4, <1>8, <2>1
  <2>2. CASE j = index + 1
    BY <1>4, <1>8, <2>2
  <2>3. CASE i # index + 1 /\ j # index + 1
    BY <1>4, <1>8, <2>3 DEF OpenOK
  <2> QED
    BY <2>1, <2>2, <2>3
<1>9. OpenOK(nodes, w, root)
  BY <1>4, <1>5, <1>6, <1>8 DEF OpenOK
<1> QED
  BY <1>4, <1>7, <1>9 DEF w

LEMMA OpenReplaced ==
  ASSUME NEW nodes, NEW open, NEW root, OpenOK(nodes, open, root), NEW place \in DOMAIN open, place # 1,
         NEW n \in DOMAIN nodes, \A i \in DOMAIN open : open[i] # n
  PROVE  LET w == [open EXCEPT ![place] = n] IN OpenOK(nodes, w, root) /\ Len(w) = Len(open) /\ DOMAIN w = DOMAIN open
<1> DEFINE w == [open EXCEPT ![place] = n]
<1>1. open \in Seq(DOMAIN nodes)
  BY DEF OpenOK
<1>2. w \in Seq(DOMAIN nodes) /\ Len(w) = Len(open)
  BY <1>1, ExceptSeq
<1>3. DOMAIN w = DOMAIN open /\ w[place] = n /\ \A i \in DOMAIN open : i # place => w[i] = open[i]
  OBVIOUS
<1>4. open # <<>> /\ 1 \in DOMAIN open
  BY <1>1, VectorFacts
<1> HIDE DEF w
<1>5. OpenOK(nodes, w, root)
  BY <1>2, <1>3, <1>4 DEF OpenOK
<1> QED
  BY <1>2, <1>3, <1>5 DEF w

LEMMA MadeIsRooted ==
  ASSUME NEW s, NEW u, NEW node, Made(s, u, node), u.sound, Rooted(s)
  PROVE  Rooted(u)
<1>1. SameNames(s.nodes, u.nodes) /\ Sound(u.nodes) /\ u.open = s.open
  BY DEF Made, Grown
<1>2. DOMAIN s.nodes \subseteq DOMAIN u.nodes /\ s.open \in Seq(DOMAIN s.nodes)
  BY <1>1 DEF SameNames, Rooted
<1>3. u.open \in Seq(DOMAIN u.nodes)
  BY <1>1, <1>2, SeqMonotonic
<1>4. s.open # <<>> => s.open[1] \in DOMAIN s.nodes
  BY StackFacts
<1> QED
  BY <1>1, <1>3, <1>4 DEF Rooted, SameNames

\* clone_node.
LEMMA ClonedMakes ==
  ASSUME NEW s, Rec(s), NEW n, s.sound => Sound(s.nodes) /\ n \in DOMAIN s.nodes
  PROVE  Made(s, [s EXCEPT !.nodes = CloneNode(@, n)], s.nodes[n])
<1> DEFINE u == [s EXCEPT !.nodes = CloneNode(@, n)]
           new == CloneNode(s.nodes, n)
<1>1. /\ Rec(u) /\ u.sound = s.sound /\ u.nodes = new
      /\ u.root = s.root /\ u.head = s.head /\ u.mode = s.mode /\ u.original = s.original /\ u.rules = s.rules
      /\ u.open = s.open /\ u.active = s.active /\ u.form = s.form /\ u.templateModes = s.templateModes
      /\ u.bufferType = s.bufferType
  BY DEF Rec, StateFields
<1> HIDE DEF u
<1>2. ASSUME s.sound
      PROVE  /\ Sound(new) /\ SameNames(s.nodes, new)
             /\ Len(new) = Len(s.nodes) + 1 /\ Len(s.nodes) \in Nat
             /\ DOMAIN s.nodes = 1 .. Len(s.nodes) /\ DOMAIN new = 1 .. Len(s.nodes) + 1
             /\ new[Len(new)].type = s.nodes[n].type
             /\ new[Len(new)].tag = s.nodes[n].tag /\ new[Len(new)].ns = s.nodes[n].ns
             /\ new[Len(new)].attrs = s.nodes[n].attrs
  BY <1>2, CloneNodeKeeps
<1> HIDE DEF new
<1>3. Made(s, u, s.nodes[n])
  BY <1>1, <1>2 DEF Made, Grown, Rest
<1> QED
  BY <1>3 DEF u

\* insert_element of a node that has just been made.
LEMMA OpenedMakes ==
  ASSUME NEW s, NEW mid, NEW node, Made(s, mid, node), s.sound => Rooted(s) /\ s.bufferType \in Texts,
         s.sound => node.type # "destroyed"
  PROVE  /\ NewOnStack(s, Opened(mid), node.tag, node.ns)
         /\ Opened(mid).sound /\ node.tag \notin Amended =>
              Opened(mid).nodes[Len(Opened(mid).nodes)].attrs = node.attrs
<1> DEFINE placed == Placed(mid)
           u == Opened(mid)
<1>1. Rec(mid) /\ (mid.sound => s.sound)
  BY DEF Made, Grown, Rest
<1>2. mid.sound => Rooted(mid)
  BY <1>1, MadeIsRooted
<1>3. Linking(mid, placed)
  BY <1>1, <1>2, PlacedLinks
<1>4. Made(s, placed, node)
  BY <1>3, LinkingMakes
<1>5. u = [placed EXCEPT !.open = Append(placed.open, Len(mid.nodes))]
  BY DEF Opened, Add, Newest
<1> HIDE DEF u, placed
<1>6. Rec(placed) /\ (placed.sound => mid.sound)
  BY <1>3 DEF Linking, Grown, Rest
<1>7. Rest(placed, u) /\ u.nodes = placed.nodes /\ u.active = placed.active /\ u.form = placed.form
      /\ u.templateModes = placed.templateModes /\ u.bufferType = placed.bufferType
      /\ u.open = Append(placed.open, Len(mid.nodes)) /\ u.sound = placed.sound
  <2>1. Vector(Append(placed.open, Len(mid.nodes)))
    BY <1>6, VectorAppended DEF Rec
  <2> QED
    BY <1>5, <1>6, <2>1 DEF Rec, StateFields, Rest
<1>8. /\ Rest(s, u) /\ u.active = s.active /\ u.form = s.form /\ u.templateModes = s.templateModes
      /\ u.open = Append(s.open, Len(mid.nodes)) /\ u.bufferType = s.bufferType
      /\ u.sound => mid.sound /\ placed.sound /\ s.sound
  BY <1>4, <1>6, <1>7 DEF Made, Grown, Rest
<1>9. ASSUME u.sound
      PROVE  /\ Sound(u.nodes) /\ SameNames(s.nodes, u.nodes) /\ u.bufferType \in Texts
             /\ Len(u.nodes) \in DOMAIN u.nodes /\ Len(u.nodes) \notin DOMAIN s.nodes
             /\ u.nodes[Len(u.nodes)].tag = node.tag /\ u.nodes[Len(u.nodes)].ns = node.ns
             /\ u.nodes[Len(u.nodes)].type # "destroyed"
             /\ \A n \in DOMAIN u.nodes : n \notin DOMAIN s.nodes /\ n # Len(u.nodes) =>
                  u.nodes[n].tag = NoTag /\ u.nodes[n].type # "destroyed"
             /\ u.open = Append(s.open, Len(u.nodes))
  <2> DEFINE k == Len(s.nodes)
  <2>1. /\ Sound(u.nodes) /\ k \in Nat /\ Len(u.nodes) = k + 1
        /\ DOMAIN s.nodes = 1 .. k /\ DOMAIN u.nodes = 1 .. k + 1
        /\ u.nodes[k + 1].tag = node.tag /\ u.nodes[k + 1].ns = node.ns /\ u.nodes[k + 1].type = node.type
        /\ SameNames(s.nodes, u.nodes) /\ Len(mid.nodes) = k + 1
    BY <1>4, <1>7, <1>8, <1>9 DEF Made, Grown
  <2> HIDE DEF k
  <2>2. DOMAIN u.nodes = DOMAIN s.nodes \union {k + 1} /\ k + 1 \notin DOMAIN s.nodes
    BY <2>1, OneMore
  <2> QED
    BY <1>8, <1>9, <2>1, <2>2
<1>10. NewOnStack(s, u, node.tag, node.ns)
  BY <1>8, <1>9 DEF NewOnStack
<1>11. u.sound /\ node.tag \notin Amended => u.nodes[Len(u.nodes)].attrs = node.attrs
  BY <1>4, <1>7, <1>8 DEF Made
<1> QED
  BY <1>10, <1>11 DEF u

-----------------------------------------------------------------------------
(* add_formatting_element.                                                 *)

\* A set with three elements, or more.
LEMMA ThreeOf ==
  ASSUME NEW S, IsFiniteSet(S), NEW i \in S, NEW j \in S, NEW k \in S, i # j, i # k, j # k
  PROVE  Cardinality(S) >= 3
<1> DEFINE T == (S \ {i}) \ {j}
<1>1. IsFiniteSet(S \ {i}) /\ Cardinality(S \ {i}) = Cardinality(S) - 1 /\ Cardinality(S) \in Nat
  BY FS_RemoveElement, FS_CardinalityType
<1>2. IsFiniteSet(T) /\ Cardinality(T) = Cardinality(S \ {i}) - 1
  BY <1>1, FS_RemoveElement
<1>3. k \in T
  OBVIOUS
<1> HIDE DEF T
<1>4. Cardinality(T) \in Nat /\ Cardinality(T) # 0
  BY <1>2, <1>3, FS_CardinalityType, FS_EmptySet
<1> QED
  BY <1>1, <1>2, <1>4

\* What add_formatting_element counts.
LEMMA AboardIs ==
  ASSUME NEW s, NEW F, K(s, F), s.sound, NEW n
  PROVE  LET same == {i \in AfterMarker(s) : Identical(s, s.active[i], n)}
         IN  /\ same \subseteq DOMAIN s.active
             /\ \A i \in DOMAIN s.active : Aboard(s.nodes, s.active, n, i) <=> i \in same
<1> DEFINE M == {i \in DOMAIN s.active : s.active[i] = Marker}
           marker == Greatest(M)
           same == {i \in AfterMarker(s) : Identical(s, s.active[i], n)}
<1>1. Len(s.active) \in Nat /\ DOMAIN s.active = 1 .. Len(s.active)
  BY HeldFacts, LenProperties DEF ActiveOK
<1>2. /\ marker \in 0 .. Len(s.active) /\ (M = {} <=> marker = 0) /\ (M # {} => marker \in M)
      /\ \A i \in M : i <= marker
  BY <1>1, GreatestIs
<1>3. AfterMarker(s) = (marker + 1) .. Len(s.active)
  BY DEF AfterMarker
<1>4. \A k \in DOMAIN s.active : s.active[k] = Marker <=> k \in M
  OBVIOUS
<1>5. M \subseteq DOMAIN s.active
  OBVIOUS
<1> HIDE DEF M, marker
<1>6. \A i \in AfterMarker(s) : i \in DOMAIN s.active /\ i \notin M /\ \A k \in M : k < i
  BY <1>1, <1>2, <1>3, <1>5
<1>7. ASSUME NEW i \in DOMAIN s.active, \A k \in M : k < i
      PROVE  i \in AfterMarker(s)
  <2>1. i \in 1 .. Len(s.active) /\ (marker = 0 \/ marker < i)
    BY <1>1, <1>2, <1>7
  <2> QED
    BY <1>1, <1>2, <1>3, <2>1
<1>8. \A i : Identical(s, s.active[i], n) <=> Twins(s.nodes, s.active[i], n)
  BY DEF Identical, Twins
<1>9. \A i : i \in same <=> i \in AfterMarker(s) /\ Twins(s.nodes, s.active[i], n)
  BY <1>8
<1> HIDE DEF same
<1>10. \A i \in DOMAIN s.active : i \in same => Aboard(s.nodes, s.active, n, i)
  BY <1>4, <1>6, <1>9 DEF Aboard
<1>11. \A i \in DOMAIN s.active : Aboard(s.nodes, s.active, n, i) => i \in same
  BY <1>4, <1>5, <1>7, <1>9 DEF Aboard
<1> QED
  BY <1>6, <1>9, <1>10, <1>11 DEF same

\* The list has room when one of three has gone: there were no four.
LEMMA RoomMade ==
  ASSUME NEW nodes, NEW active, ActiveOK(nodes, active), NEW n, NEW index \in 0 .. Len(active) - 1,
         Aboard(nodes, active, n, index + 1)
  PROVE  HasRoom(nodes, RemoveAt(active, index), n)
<1> DEFINE w == RemoveAt(active, index)
           S == DOMAIN nodes \union {Marker}
<1>1. active \in Seq(S)
  BY DEF ActiveOK
<1>2. /\ DOMAIN w = 1 .. Len(active) - 1 /\ DOMAIN active = 1 .. Len(active) /\ Len(active) \in Nat
      /\ \A j \in DOMAIN w : Back(index, j) \in DOMAIN active /\ Back(index, j) # index + 1 /\ w[j] = active[Back(index, j)]
      /\ \A i, j \in DOMAIN w : Back(index, i) = Back(index, j) => i = j
  BY <1>1, RemoveAtIs, LenProperties
<1>3. index + 1 \in DOMAIN active /\ index \in Nat
  BY <1>2
<1> HIDE DEF w
<1>4. ASSUME NEW i \in DOMAIN w, Aboard(nodes, w, n, i)
      PROVE  Aboard(nodes, active, n, Back(index, i))
  <2>1. ASSUME NEW k \in DOMAIN active, active[k] = Marker
        PROVE  k < Back(index, i)
    <3>1. k # index + 1
      BY <2>1 DEF Aboard
    <3>2. Fore(index, k) \in DOMAIN w /\ Back(index, Fore(index, k)) = k
      BY <1>2, <1>3, <3>1 DEF Back, Fore
    <3>3. Fore(index, k) < i
      BY <1>2, <1>4, <2>1, <3>2 DEF Aboard
    <3> QED
      BY <1>2, <1>3, <3>2, <3>3 DEF Back
  <2> QED
    BY <1>2, <1>4, <2>1 DEF Aboard
<1>5. ASSUME NEW a \in DOMAIN active, NEW b \in DOMAIN active,
             Aboard(nodes, active, n, a), Aboard(nodes, active, n, b)
      PROVE  Shipmates(nodes, active, a, b)
  BY <1>2, <1>5 DEF Aboard, Shipmates, Twins
<1> SUFFICES ASSUME NEW i \in DOMAIN w, NEW j \in DOMAIN w, NEW k \in DOMAIN w,
                    Aboard(nodes, w, n, i), Aboard(nodes, w, n, j), Aboard(nodes, w, n, k)
             PROVE  i = j \/ i = k \/ j = k
  BY DEF HasRoom, w
<1>6. /\ Shipmates(nodes, active, index + 1, Back(index, i)) /\ Shipmates(nodes, active, index + 1, Back(index, j))
      /\ Shipmates(nodes, active, index + 1, Back(index, k))
  BY <1>2, <1>3, <1>4, <1>5
<1>7. Noah(nodes, active)
  BY DEF ActiveOK
<1>8. Back(index, i) = Back(index, j) \/ Back(index, i) = Back(index, k) \/ Back(index, j) = Back(index, k)
  BY <1>2, <1>3, <1>6, <1>7 DEF Noah
<1> QED
  BY <1>2, <1>8

\* What is listed last may stand on top of the stack.
LEMMA SegmentedOnTop ==
  ASSUME NEW nodes, NEW open, NEW active, NEW root, Segmented(open, active), OpenOK(nodes, open, root),
         ActiveOK(nodes, active), NEW n \in DOMAIN nodes, open[Len(open)] = n, Len(open) \in DOMAIN open, n # Marker,
         \A i \in DOMAIN active : active[i] # n
  PROVE  Segmented(open, Append(active, n))
<1> DEFINE w == Append(active, n)
           S == DOMAIN nodes \union {Marker}
           l == Len(active)
<1>1. active \in Seq(S) /\ n \in S
  BY DEF ActiveOK
<1> HIDE DEF S
<1>2. /\ l \in Nat /\ DOMAIN active = 1 .. l
      /\ DOMAIN w = DOMAIN active \union {l + 1} /\ w[l + 1] = n /\ \A i \in DOMAIN active : w[i] = active[i]
  BY <1>1, AppendIs
<1> HIDE DEF w, l
<1>3. DOMAIN open = 1 .. Len(open) /\ Len(open) \in Nat
  BY LenProperties DEF OpenOK
<1> SUFFICES ASSUME NEW k \in DOMAIN w, w[k] = Marker,
                    NEW i \in DOMAIN w, NEW j \in DOMAIN w, i < k, k < j,
                    NEW a \in DOMAIN open, NEW b \in DOMAIN open, w[i] = open[a], w[j] = open[b]
             PROVE  a < b
  BY DEF Segmented, w
<1>4. k \in DOMAIN active /\ i \in DOMAIN active
  BY <1>2
<1>5. CASE j \in DOMAIN active
  BY <1>2, <1>4, <1>5 DEF Segmented
<1>6. CASE j = l + 1
  <2>1. b = Len(open)
    BY <1>2, <1>6 DEF OpenOK
  <2>2. a # b
    BY <1>2, <1>4, <1>6
  <2> QED
    BY <1>3, <2>1, <2>2
<1> QED
  BY <1>2, <1>5, <1>6

\* An element that stands highest, listed behind every marker in the place of another.
LEMMA SegmentedReplaced ==
  ASSUME NEW nodes, NEW open, NEW active, NEW root, Segmented(open, active), OpenOK(nodes, open, root),
         ActiveOK(nodes, active), NEW place \in DOMAIN active, \A k \in DOMAIN active : active[k] = Marker => k < place,
         NEW n \in DOMAIN nodes, open[Len(open)] = n, Len(open) \in DOMAIN open, n # Marker,
         \A i \in DOMAIN active : active[i] # n
  PROVE  Segmented(open, [active EXCEPT ![place] = n])
<1> DEFINE w == [active EXCEPT ![place] = n]
<1>1. DOMAIN w = DOMAIN active /\ \A i \in DOMAIN active : w[i] = IF i = place THEN n ELSE active[i]
  OBVIOUS
<1> HIDE DEF w
<1>2. DOMAIN open = 1 .. Len(open) /\ Len(open) \in Nat /\ DOMAIN active \subseteq Nat
  BY LenProperties DEF OpenOK, ActiveOK
<1> SUFFICES ASSUME NEW k \in DOMAIN w, w[k] = Marker,
                    NEW i \in DOMAIN w, NEW j \in DOMAIN w, i < k, k < j,
                    NEW a \in DOMAIN open, NEW b \in DOMAIN open, w[i] = open[a], w[j] = open[b]
             PROVE  a < b
  BY DEF Segmented, w
<1>3. k # place /\ active[k] = Marker /\ k < place
  BY <1>1
<1>4. i # place /\ active[i] = open[a]
  BY <1>1, <1>2, <1>3
<1>5. CASE j # place
  BY <1>1, <1>3, <1>4, <1>5 DEF Segmented
<1>6. CASE j = place
  <2>1. b = Len(open)
    BY <1>1, <1>6 DEF OpenOK
  <2>2. a # b
    BY <1>1, <1>4, <1>6
  <2> QED
    BY <1>2, <2>1, <2>2
<1> QED
  BY <1>5, <1>6

\* A new element takes the place of another, in the list and on the stack.
LEMMA SegmentedSwapped ==
  ASSUME NEW open, NEW active, Segmented(open, active), NEW place \in DOMAIN active, NEW p \in DOMAIN open,
         active[place] = open[p], \A b \in DOMAIN open : open[b] = open[p] => b = p,
         active[place] # Marker, NEW n, n # Marker,
         \A i \in DOMAIN active : active[i] # n, \A a \in DOMAIN open : open[a] # n
  PROVE  /\ Segmented(open, [active EXCEPT ![place] = n])
         /\ Segmented([open EXCEPT ![p] = n], [active EXCEPT ![place] = n])
<1> DEFINE w == [active EXCEPT ![place] = n]
           v == [open EXCEPT ![p] = n]
<1>1. DOMAIN w = DOMAIN active /\ \A i \in DOMAIN active : w[i] = IF i = place THEN n ELSE active[i]
  OBVIOUS
<1>2. DOMAIN v = DOMAIN open /\ \A a \in DOMAIN open : v[a] = IF a = p THEN n ELSE open[a]
  OBVIOUS
<1> HIDE DEF w, v
<1>3. \A i \in DOMAIN w : w[i] = Marker => active[i] = Marker
  BY <1>1
<1>4. \A i \in DOMAIN w : \A a \in DOMAIN v : w[i] = v[a] => active[i] = open[a]
  BY <1>1, <1>2
<1>5. \A i \in DOMAIN w : \A a \in DOMAIN open : w[i] = open[a] => active[i] = open[a]
  BY <1>1
<1>6. Segmented(v, w)
  BY <1>1, <1>2, <1>3, <1>4 DEF Segmented
<1>7. Segmented(open, w)
  BY <1>1, <1>3, <1>5 DEF Segmented
<1> QED
  BY <1>6, <1>7 DEF v, w

LEMMA AddFormattingK ==
  ASSUME NEW s, NEW F, K(s, F), NEW n,
         s.sound => /\ Len(s.open) \in DOMAIN s.open /\ n = s.open[Len(s.open)]
                    /\ s.nodes[n].tag \notin Unlisted /\ \A i \in DOMAIN s.active : s.active[i] # n
  PROVE  K(AddFormatting(s, n), F)
<1> DEFINE same == {i \in AfterMarker(s) : Identical(s, s.active[i], n)}
           earliest == CHOOSE i \in same : \A j \in same : i <= j
           kept == IF Cardinality(same) >= 3 THEN RemoveAt(s.active, earliest - 1) ELSE s.active
           u == AddFormatting(s, n)
<1>1. u = [s EXCEPT !.active = Append(kept, n)]
  BY DEF AddFormatting, Add
<1>2. ASSUME Cardinality(same) >= 3
      PROVE  earliest - 1 \in 0 .. Len(s.active) - 1 /\ earliest \in same /\ same \subseteq DOMAIN s.active
  <2>1. same # {}
    <3> HIDE DEF same
    <3>1. Cardinality({}) = 0
      BY FS_EmptySet
    <3> QED
      BY <1>2, <3>1
  <2>2. Len(s.active) \in Nat /\ DOMAIN s.active = 1 .. Len(s.active)
    BY VectorIs DEF K, Rec
  <2>3. AfterMarker(s) \subseteq DOMAIN s.active
    <3> DEFINE marker == Greatest({i \in DOMAIN s.active : s.active[i] = Marker})
    <3>1. marker \in 0 .. Len(s.active)
      BY <2>2, GreatestIs
    <3>2. AfterMarker(s) = (marker + 1) .. Len(s.active)
      BY DEF AfterMarker
    <3> HIDE DEF marker
    <3> QED
      BY <2>2, <3>1, <3>2
  <2>4. same \in SUBSET Nat /\ same \subseteq DOMAIN s.active
    BY <2>2, <2>3
  <2>5. \E i \in same : \A j \in same : i <= j
    BY <2>1, <2>4, LeastElement
  <2>6. earliest \in same
    BY <2>5
  <2> HIDE DEF earliest, same
  <2> QED
    BY <2>2, <2>4, <2>6
<1>3. Vector(kept)
  <2>1. CASE Cardinality(same) >= 3
    <3>1. earliest - 1 \in Int
      BY <1>2, <2>1
    <3>2. Vector(s.active)
      BY DEF K, Rec
    <3> HIDE DEF earliest
    <3>3. Vector(RemoveAt(s.active, earliest - 1))
      BY <3>1, <3>2, VectorChanged
    <3> QED
      BY <2>1, <3>3
  <2>2. CASE ~(Cardinality(same) >= 3)
    BY <2>2 DEF K, Rec
  <2> QED
    BY <2>1, <2>2
<1>4. ASSUME s.sound
      PROVE  /\ ActiveOK(s.nodes, kept) /\ HasRoom(s.nodes, kept, n) /\ \A i \in DOMAIN kept : kept[i] # n
             /\ Segmented(s.open, kept) /\ n # Marker
  <2>1. ActiveOK(s.nodes, s.active) /\ Segmented(s.open, s.active)
    BY <1>4, HeldFacts
  <2>4. n # Marker
    <3>1. n \in DOMAIN s.nodes
      BY <1>4, HeldFacts
    <3>2. n \in Nat
      BY <1>4, <3>1, HeldFacts, NodeFields DEF Rooted, Sound
    <3> QED
      BY <3>2 DEF Marker
  <2>5. same \subseteq DOMAIN s.active /\ \A i \in DOMAIN s.active : Aboard(s.nodes, s.active, n, i) <=> i \in same
    BY <1>4, AboardIs
  <2>6. Len(s.active) \in Nat /\ DOMAIN s.active = 1 .. Len(s.active)
    BY <2>1, LenProperties DEF ActiveOK
  <2> HIDE DEF same
  <2>2. CASE Cardinality(same) >= 3
    <3> DEFINE index == earliest - 1
    <3>1. kept = RemoveAt(s.active, index) /\ index \in 0 .. Len(s.active) - 1
      BY <1>2, <2>2
    <3>2. index + 1 \in same /\ index + 1 \in DOMAIN s.active
      <4>1. earliest \in same /\ earliest \in DOMAIN s.active
        BY <1>2, <2>2, <2>5
      <4> HIDE DEF earliest
      <4>2. earliest - 1 + 1 = earliest
        BY <2>6, <4>1
      <4> QED
        BY <4>1, <4>2
    <3>3. ~ In(s.active, n)
      BY <1>4 DEF In
    <3> HIDE DEF index, kept
    <3>4. Aboard(s.nodes, s.active, n, index + 1)
      BY <2>5, <3>2
    <3>5. s.active[index + 1] # Marker
      BY <3>4 DEF Aboard
    <3>6. ActiveOK(s.nodes, kept) /\ Segmented(s.open, kept) /\ \A e : In(kept, e) => In(s.active, e)
      BY <2>1, <3>1, <3>5, ActiveRemoved
    <3>7. ~ In(kept, n)
      BY <3>3, <3>6
    <3>8. HasRoom(s.nodes, kept, n)
      BY <2>1, <3>1, <3>4, RoomMade
    <3> QED
      BY <2>4, <3>6, <3>7, <3>8 DEF In
  <2>3. CASE ~(Cardinality(same) >= 3)
    <3>1. kept = s.active
      BY <2>3
    <3>4. IsFiniteSet(same)
      <4>1. IsFiniteSet(1 .. Len(s.active))
        BY <2>6, FS_Interval
      <4>2. same \subseteq 1 .. Len(s.active)
        BY <2>5, <2>6
      <4> QED
        BY <4>1, <4>2, FS_Subset
    <3>5. ASSUME NEW i \in same, NEW j \in same, NEW k \in same, i # j, i # k, j # k
          PROVE  FALSE
      BY <2>3, <3>4, <3>5, ThreeOf
    <3>6. HasRoom(s.nodes, s.active, n)
      BY <2>5, <3>5 DEF HasRoom
    <3> QED
      BY <1>4, <2>1, <2>4, <3>1, <3>6
  <2> QED
    BY <2>2, <2>3
<1>5. Vector(Append(kept, n))
  BY <1>3, VectorAppended
<1> HIDE DEF kept, u
<1>6. Rest(s, u)
      /\ u.nodes = s.nodes /\ u.open = s.open /\ u.form = s.form /\ u.templateModes = s.templateModes
      /\ u.active = Append(kept, n) /\ u.bufferType = s.bufferType
  BY <1>1, <1>5 DEF K, Rest, Rec, StateFields
<1>7. ASSUME u.sound PROVE u.bufferType \in Texts /\ ActiveOK(s.nodes, u.active) /\ Segmented(s.open, u.active)
  <2>1. s.sound
    BY <1>6, <1>7 DEF Rest
  <2>2. n \in DOMAIN s.nodes /\ s.nodes[n].tag \notin Unlisted
    BY <2>1, HeldFacts
  <2>3. ActiveOK(s.nodes, Append(kept, n))
    BY <1>4, <2>1, <2>2, ActiveAppended
  <2>4. Segmented(s.open, Append(kept, n))
    BY <1>4, <2>1, <2>2, SegmentedOnTop, HeldFacts
  <2> QED
    BY <1>6, <2>1, <2>3, <2>4, HeldFacts
<1> QED
  BY <1>6, <1>7, KeptByActive DEF u

\* An element has just been opened: it is the current node, and on no list.
LEMMA NewIsCurrent ==
  ASSUME NEW s, NEW F, K(s, F), NEW u, NEW tag, NEW ns, NewOnStack(s, u, tag, ns), u.sound
  PROVE  /\ Current(u) = Len(u.nodes) /\ Current(u) \in DOMAIN u.nodes /\ u.nodes[Current(u)].tag = tag
         /\ Len(u.open) \in DOMAIN u.open /\ Current(u) = u.open[Len(u.open)]
         /\ u.nodes[Current(u)].ns = ns
         /\ Current(u) \notin DOMAIN s.nodes /\ \A i \in DOMAIN u.active : u.active[i] # Current(u)
<1>1. /\ s.sound /\ u.open = Append(s.open, Len(u.nodes)) /\ Len(u.nodes) \in DOMAIN u.nodes
      /\ Len(u.nodes) \notin DOMAIN s.nodes /\ u.nodes[Len(u.nodes)].tag = tag /\ u.nodes[Len(u.nodes)].ns = ns
      /\ u.active = s.active /\ Sound(u.nodes)
  BY DEF NewOnStack, Rest
<1>2. OpenOK(s.nodes, s.open, F.root) /\ ActiveOK(s.nodes, s.active)
  BY <1>1, HeldFacts
<1>3. s.open \in Seq(DOMAIN s.nodes \union {Len(u.nodes)})
  BY <1>2, SeqMonotonic DEF OpenOK
<1> DEFINE new == Len(u.nodes)
<1>4. Len(s.open) \in Nat /\ Len(u.open) = Len(s.open) + 1 /\ u.open[Len(s.open) + 1] = new
  BY <1>1, <1>3, AppendProperties, LenProperties
<1>5. u.open # <<>>
  BY <1>4, EmptyHasNoPlace
<1>6. Current(u) = new
  BY <1>4, <1>5 DEF Current, Top
<1>9. Len(u.open) \in DOMAIN u.open /\ Current(u) = u.open[Len(u.open)]
  <2>1. u.open \in Seq(DOMAIN s.nodes \union {Len(u.nodes)})
    BY <1>1, <1>3, AppendProperties
  <2> QED
    BY <1>5, <2>1, VectorFacts DEF Current, Top
<1>7. new \in Nat
  BY <1>1, NodeFields DEF Sound
<1>8. \A i \in DOMAIN u.active : u.active[i] # new
  <2>1. \A i \in DOMAIN s.active : s.active[i] \in DOMAIN s.nodes \union {Marker}
    BY <1>2, LenProperties DEF ActiveOK
  <2>2. new # Marker
    BY <1>7 DEF Marker
  <2> QED
    BY <1>1, <2>1, <2>2
<1> QED
  BY <1>1, <1>6, <1>8, <1>9

LEMMA AddNewK ==
  ASSUME NEW s, NEW F, K(s, F), Based(F), NEW t, t.tag \notin Unlisted
  PROVE  K(AddCurrent(InsertTag(s, t)), F)
<1> DEFINE u == InsertTag(s, t)
<1>1. K(u, F) /\ NewOnStack(s, u, t.tag, "html")
  BY InsertTagK DEF Unlisted
<1>2. u.sound => /\ Len(u.open) \in DOMAIN u.open /\ Current(u) = u.open[Len(u.open)]
                 /\ u.nodes[Current(u)].tag \notin Unlisted
                 /\ \A i \in DOMAIN u.active : u.active[i] # Current(u)
  BY <1>1, NewIsCurrent
<1> HIDE DEF u
<1>3. K(AddFormatting(u, Current(u)), F)
  BY <1>1, <1>2, AddFormattingK
<1> QED
  BY <1>3 DEF AddCurrent, u

-----------------------------------------------------------------------------
(* Attributes.                                                             *)

LEMMA AttributesKeep ==
  ASSUME NEW nodes, Sound(nodes), NEW n \in DOMAIN nodes, nodes[n].tag \in Amended, NEW attrs
  PROVE  LET new == [nodes EXCEPT ![n].attrs = attrs]
         IN  Sound(new) /\ SameNames(nodes, new) /\ DOMAIN new = DOMAIN nodes
<1> DEFINE new == [nodes EXCEPT ![n].attrs = attrs]
           S == {new[m] : m \in DOMAIN nodes}
<1>1. PICK k \in Nat : DOMAIN nodes = 1 .. k
  BY LenProperties DEF Sound, Typed
<1>2. new \in [1 .. k -> S]
  <2>1. new = [m \in 1 .. k |-> IF m = n THEN [nodes[n] EXCEPT !.attrs = attrs] ELSE nodes[m]]
    BY <1>1
  <2>2. \A m \in 1 .. k : new[m] \in S
    BY <1>1
  <2>3. new = [m \in 1 .. k |-> new[m]]
    BY <2>1
  <2> HIDE DEF new, S
  <2> QED
    BY <2>2, <2>3
<1>3. new \in Seq(S)
  <2> HIDE DEF new, S
  <2> QED
    BY <1>2, SeqDef
<1>4. ASSUME NEW m \in DOMAIN nodes
      PROVE  /\ Node(new, m)
             /\ new[m].parent = nodes[m].parent /\ new[m].index = nodes[m].index /\ new[m].children = nodes[m].children
             /\ new[m].type = nodes[m].type /\ new[m].tag = nodes[m].tag /\ new[m].ns = nodes[m].ns
             /\ nodes[m].tag \notin Amended => new[m].attrs = nodes[m].attrs
  <2>1. Node(nodes, m)
    BY DEF Sound, Typed
  <2>2. DOMAIN new = DOMAIN nodes
    OBVIOUS
  <2>3. CASE m = n
    <3>1. new[m] = [nodes[m] EXCEPT !.attrs = attrs]
      BY <2>3
    <3> HIDE DEF new
    <3>2. nodes[m].tag \in Amended
      BY <2>3
    <3>3. new[m] \in [type : {nodes[m].type}, tag : {nodes[m].tag}, ns : {nodes[m].ns}, attrs : {attrs},
                     text : {nodes[m].text}, parent : {nodes[m].parent}, index : {nodes[m].index},
                     children : {nodes[m].children}]
      BY <2>1, <3>1 DEF Node
    <3> QED
      BY <2>1, <2>2, <3>2, <3>3 DEF Node
  <2>4. CASE m # n
    <3>1. new[m] = nodes[m]
      BY <2>4
    <3> HIDE DEF new
    <3> QED
      BY <2>1, <2>2, <3>1 DEF Node
  <2> QED
    BY <2>3, <2>4
<1>5. DOMAIN new = DOMAIN nodes
  OBVIOUS
<1> HIDE DEF new
<1>6. Typed(new) /\ SameNames(nodes, new)
  BY <1>3, <1>4, <1>5 DEF Typed, SameNames
<1>7. \A p \in DOMAIN nodes : \A i \in DOMAIN nodes[p].children : nodes[p].children[i] \in DOMAIN nodes
  BY NodeFields DEF Sound
<1>8. ChildrenPointUp(new)
  BY <1>4, <1>5, <1>7 DEF ChildrenPointUp, Sound
<1>9. \A m \in DOMAIN nodes : nodes[m].parent # NoNode => nodes[m].parent \in DOMAIN nodes
  BY NodeFields DEF Sound
<1>10. ParentsPointDown(new)
  BY <1>4, <1>5, <1>9 DEF ParentsPointDown, Sound
<1> QED
  BY <1>5, <1>6, <1>8, <1>10 DEF Sound, new

\* merge_attributes.
LEMMA MergeAttributesK ==
  ASSUME NEW s, NEW F, K(s, F), NEW t, NEW n, s.sound => n \in DOMAIN s.nodes /\ s.nodes[n].tag \in Amended
  PROVE  K(MergeAttributes(s, t, n), F)
<1> DEFINE own == s.nodes[n].attrs
           merged == [a \in DOMAIN own \union DOMAIN t.attrs |-> IF a \in DOMAIN own THEN own[a] ELSE t.attrs[a]]
           new == [s.nodes EXCEPT ![n].attrs = merged]
           u == MergeAttributes(s, t, n)
<1>1. u = [s EXCEPT !.nodes = new]
  BY DEF MergeAttributes
<1> HIDE DEF u
<1>2. Rest(s, u) /\ u.open = s.open /\ u.active = s.active /\ u.form = s.form /\ u.templateModes = s.templateModes
      /\ u.nodes = new /\ u.bufferType = s.bufferType
  BY <1>1 DEF K, Rest, Rec, StateFields
<1>3. ASSUME u.sound
      PROVE  SameNames(s.nodes, u.nodes) /\ u.bufferType \in Texts /\ NodesOK(u.nodes, F.root, F.head)
  <2>1. s.sound
    BY <1>2, <1>3 DEF Rest
  <2>2. NodesOK(s.nodes, F.root, F.head) /\ s.bufferType \in Texts
    BY <2>1, HeldFacts
  <2>3. n \in DOMAIN s.nodes /\ s.nodes[n].tag \in Amended
    BY <2>1
  <2> HIDE DEF merged
  <2>4. Sound(new) /\ SameNames(s.nodes, new) /\ DOMAIN new = DOMAIN s.nodes
    BY <2>2, <2>3, AttributesKeep DEF NodesOK
  <2> HIDE DEF new
  <2>5. Nameless(s.nodes, new)
    BY <2>4 DEF Nameless
  <2> QED
    BY <1>2, <2>2, <2>4, <2>5, NamelessNodesOK
<1> QED
  BY <1>2, <1>3, KeptByNodes DEF Grown, u

\* A second start tag of html, or of body.
LEMMA StartHtmlK ==
  ASSUME NEW s, NEW F, K(s, F), NEW t, F.root # NoNode
  PROVE  K(StartHtml(s, t), F)
<1>1. s.sound => s.root \in DOMAIN s.nodes /\ s.nodes[s.root].tag \in Amended
  BY HeldFacts DEF NodesOK, Amended
<1> QED
  BY <1>1, MergeAttributesK DEF StartHtml

LEMMA StartBodyK ==
  ASSUME NEW s, NEW F, K(s, F), NEW t
  PROVE  K(StartBody(s, t), F)
<1>1. CASE Len(s.open) < 2 \/ ~ IsHtml(s, s.open[2], {"body"}) \/ HasOpen(s, "template")
  BY <1>1 DEF StartBody
<1>2. CASE ~ (Len(s.open) < 2 \/ ~ IsHtml(s, s.open[2], {"body"}) \/ HasOpen(s, "template"))
  <2> DEFINE u == NoFrameset(s)
  <2>1. K(u, F) /\ u.nodes = s.nodes /\ u.sound = s.sound
    BY NoFramesetK DEF NoFrameset, K, Rec, StateFields
  <2>2. StartBody(s, t) = MergeAttributes(u, t, s.open[2])
    BY <1>2 DEF StartBody
  <2>3. s.sound => s.open[2] \in DOMAIN s.nodes /\ s.nodes[s.open[2]].tag \in Amended
    <3> SUFFICES ASSUME s.sound PROVE s.open[2] \in DOMAIN s.nodes /\ s.nodes[s.open[2]].tag \in Amended
      OBVIOUS
    <3>1. Len(s.open) \in Nat /\ DOMAIN s.open = 1 .. Len(s.open) /\ \A i \in DOMAIN s.open : s.open[i] \in DOMAIN s.nodes
      BY HeldFacts
    <3>2. 2 \in DOMAIN s.open
      BY <1>2, <3>1
    <3>3. IsHtml(s, s.open[2], {"body"})
      BY <1>2
    <3> QED
      BY <3>1, <3>2, <3>3 DEF IsHtml, IsElement, Amended
  <2> HIDE DEF u
  <2> QED
    BY <2>1, <2>2, <2>3, MergeAttributesK
<1> QED
  BY <1>1, <1>2

-----------------------------------------------------------------------------
(* Taking elements out of the lists.                                       *)

LEMMA KeptByForm ==
  ASSUME NEW s, NEW F, K(s, F), NEW u, Rest(s, u),
         u.nodes = s.nodes, u.open = s.open, u.active = s.active, u.templateModes = s.templateModes,
         u.bufferType = s.bufferType, u.sound => FormOK(s.nodes, u.form)
  PROVE  K(u, F)
BY DEF K, Rest, Core, Held

LEMMA TakenFromOpenK ==
  ASSUME NEW s, NEW F, K(s, F), F.stop, NEW n, s.sound => n \in DOMAIN s.nodes /\ s.nodes[n].tag \notin Fixed
  PROVE  K([s EXCEPT !.open = Remove(@, n)], F)
<1> DEFINE index == IndexOf(s.open, n)
           u == [s EXCEPT !.open = Remove(@, n)]
<1>1. CASE index = -1
  <2>1. /\ Rest(s, u) /\ u.nodes = s.nodes /\ u.open = s.open /\ u.form = s.form
        /\ u.templateModes = s.templateModes /\ u.active = s.active /\ u.bufferType = s.bufferType
    BY <1>1 DEF Remove, K, Rest, Rec, StateFields
  <2> HIDE DEF u
  <2> QED
    BY <2>1, KeptByNothing, HeldFacts DEF u
<1>2. CASE index # -1
  <2>1. u.open = RemoveAt(s.open, index)
    BY <1>2 DEF Remove, K, Rec, StateFields
  <2>2. Rest(s, u) /\ u.nodes = s.nodes /\ u.active = s.active /\ u.form = s.form /\ u.templateModes = s.templateModes
        /\ u.bufferType = s.bufferType
    <3>1. Vector(Remove(s.open, n))
      BY VectorIndex DEF K, Rec
    <3> QED
      BY <3>1 DEF K, Rest, Rec, StateFields
  <2> HIDE DEF u
  <2>3. ASSUME u.sound
        PROVE  /\ u.bufferType \in Texts /\ NodesOK(u.nodes, F.root, F.head) /\ SameNames(s.nodes, u.nodes)
               /\ OpenOK(u.nodes, u.open, F.root) /\ Begins(u.open, F.base, F.head)
               /\ TemplatesIn(u.nodes, u.open) \subseteq TemplatesIn(s.nodes, s.open)
               /\ Segmented(u.open, s.active)
    <3>1. s.sound
      BY <2>2, <2>3 DEF Rest
    <3>2. /\ OpenOK(s.nodes, s.open, F.root) /\ NodesOK(s.nodes, F.root, F.head) /\ s.bufferType \in Texts
          /\ Begins(s.open, F.base, F.head) /\ Len(s.open) \in Nat /\ DOMAIN s.open = 1 .. Len(s.open)
          /\ Len(F.base) \in Nat /\ Len(F.base) <= Len(s.open) /\ Segmented(s.open, s.active)
      BY <3>1, HeldFacts
    <3>3. index \in 0 .. Len(s.open) - 1 /\ index + 1 \in DOMAIN s.open /\ s.open[index + 1] = n
      BY <1>2, <3>2, IndexOfIs DEF OpenOK
    <3> HIDE DEF index
    <3>4. index + 1 > Len(F.base) /\ Len(F.base) >= 1
      BY <3>1, <3>3, AboveBase, BaseFacts DEF Based
    <3> DEFINE b == Len(F.base)
               w == RemoveAt(s.open, index)
    <3>5. b \in Nat /\ index \in Nat /\ b >= 1 /\ b <= index /\ index \in 1 .. Len(s.open) - 1
      BY <3>2, <3>3, <3>4
    <3>6. /\ OpenOK(s.nodes, w, F.root) /\ Len(w) = Len(s.open) - 1
          /\ \A j \in DOMAIN w : Back(index, j) \in DOMAIN s.open /\ w[j] = s.open[Back(index, j)]
          /\ \A j \in 1 .. index : j \in DOMAIN w /\ w[j] = s.open[j]
          /\ TemplatesIn(s.nodes, w) \subseteq TemplatesIn(s.nodes, s.open)
      BY <3>2, <3>5, OpenRemoved
    <3>7. DOMAIN w = 1 .. Len(w)
      BY <3>6, LenProperties DEF OpenOK
    <3> HIDE DEF w
    <3>8. Begins(w, F.base, F.head)
      <4>1. b <= Len(w)
        BY <3>2, <3>5, <3>6
      <4>2. \A i \in 1 .. b : w[i] = F.base[i]
        <5> TAKE i \in 1 .. b
        <5>1. i \in 1 .. index
          BY <3>5
        <5> QED
          BY <3>2, <3>6, <5>1 DEF Begins
      <4>3. ASSUME NEW i \in DOMAIN w, w[i] = F.head PROVE i <= b
        <5>1. Back(index, i) \in DOMAIN s.open /\ s.open[Back(index, i)] = F.head
          BY <3>6, <4>3
        <5>2. Back(index, i) <= b
          BY <3>2, <5>1 DEF Begins
        <5>3. i \in Nat
          BY <3>7
        <5> QED
          BY <3>5, <5>2, <5>3 DEF Back
      <4> QED
        BY <3>2, <4>1, <4>2, <4>3 DEF Begins
    <3>9. Segmented(w, s.active)
      <4> DEFINE From == [j \in DOMAIN w |-> Back(index, j)]
      <4>1. \A i \in DOMAIN w : From[i] \in DOMAIN s.open /\ s.open[From[i]] = w[i]
        BY <3>6
      <4>2. \A i, j \in DOMAIN w : From[i] < From[j] => i < j
        BY <3>2, <3>5, <3>6, <3>7 DEF Back
      <4> HIDE DEF From
      <4>3. Segmented(s.open, s.active)
        BY <3>2
      <4> QED
        BY <4>1, <4>2, <4>3, SegmentedMapped
    <3> QED
      BY <2>1, <2>2, <3>2, <3>6, <3>8, <3>9 DEF SameNames, w
  <2> QED
    BY <2>2, <2>3, KeptByOpen DEF u
<1> QED
  BY <1>1, <1>2

LEMMA TakenFromActiveK ==
  ASSUME NEW s, NEW F, K(s, F), NEW index \in Int,
         s.sound => index \in 0 .. Len(s.active) - 1 /\ s.active[index + 1] # Marker
  PROVE  K([s EXCEPT !.active = RemoveAt(@, index)], F)
<1> DEFINE u == [s EXCEPT !.active = RemoveAt(@, index)]
<1>1. Rest(s, u)
      /\ u.nodes = s.nodes /\ u.open = s.open /\ u.form = s.form /\ u.templateModes = s.templateModes
      /\ u.active = RemoveAt(s.active, index) /\ u.bufferType = s.bufferType
  <2>1. Vector(RemoveAt(s.active, index))
    BY VectorChanged DEF K, Rec
  <2> QED
    BY <2>1 DEF K, Rest, Rec, StateFields
<1> HIDE DEF u
<1>2. ASSUME u.sound PROVE u.bufferType \in Texts /\ ActiveOK(s.nodes, u.active) /\ Segmented(s.open, u.active)
  <2>1. s.sound /\ ActiveOK(s.nodes, s.active) /\ Segmented(s.open, s.active) /\ s.bufferType \in Texts
    BY <1>1, <1>2, HeldFacts DEF Rest
  <2> QED
    BY <1>1, <2>1, ActiveRemoved
<1> QED
  BY <1>1, <1>2, KeptByActive DEF u

LEMMA RemoveFormattingK ==
  ASSUME NEW s, NEW F, K(s, F), NEW n, s.sound => n # Marker
  PROVE  K(RemoveFormatting(s, n), F)
<1> DEFINE index == IndexOf(s.active, n)
<1>1. CASE index = -1
  <2> DEFINE u == RemoveFormatting(s, n)
  <2>1. /\ Rest(s, u) /\ u.nodes = s.nodes /\ u.open = s.open /\ u.form = s.form
        /\ u.templateModes = s.templateModes /\ u.active = s.active /\ u.bufferType = s.bufferType
    BY <1>1 DEF RemoveFormatting, Remove, K, Rest, Rec, StateFields
  <2> HIDE DEF u
  <2> QED
    BY <2>1, KeptByNothing, HeldFacts DEF u
<1>2. CASE index # -1
  <2>1. RemoveFormatting(s, n) = [s EXCEPT !.active = RemoveAt(@, index)]
    BY <1>2 DEF RemoveFormatting, Remove
  <2>2. index \in Int /\ (s.sound => index \in 0 .. Len(s.active) - 1 /\ s.active[index + 1] # Marker)
    <3>1. index \in Int
      BY VectorIndex DEF K, Rec
    <3>2. ASSUME s.sound PROVE index \in 0 .. Len(s.active) - 1 /\ s.active[index + 1] = n
      <4>1. s.active \in Seq(DOMAIN s.nodes \union {Marker})
        BY <3>2, HeldFacts DEF ActiveOK
      <4> QED
        BY <1>2, <4>1, IndexOfIs
    <3> QED
      BY <3>1, <3>2
  <2> HIDE DEF index
  <2> QED
    BY <2>1, <2>2, TakenFromActiveK
<1> QED
  BY <1>1, <1>2

\* The formatting element that an end tag finds in the list is no marker.
LEMMA FormattingPlaceIs ==
  ASSUME NEW s, NEW F, K(s, F), s.sound, NEW tag
  PROVE  LET place == FormattingPlace(s, tag)
         IN  /\ place \in 0 .. Len(s.active) /\ Len(s.active) \in Nat
             /\ place # 0 => /\ place \in DOMAIN s.active /\ s.active[place] # Marker
                             /\ s.active[place] \in DOMAIN s.nodes /\ s.nodes[s.active[place]].tag \notin Unlisted
                             /\ IsHtml(s, s.active[place], {tag})
                             /\ \A k \in DOMAIN s.active : s.active[k] = Marker => k < place
                             /\ \A j \in DOMAIN s.active : s.active[j] = s.active[place] => j = place
<1> DEFINE M == {i \in DOMAIN s.active : s.active[i] = Marker}
           marker == Greatest(M)
           S == {i \in AfterMarker(s) : IsHtml(s, s.active[i], {tag})}
           place == FormattingPlace(s, tag)
<1>1. ActiveOK(s.nodes, s.active)
  BY HeldFacts
<1>2. Len(s.active) \in Nat /\ DOMAIN s.active = 1 .. Len(s.active)
      /\ \A i \in DOMAIN s.active : s.active[i] \in DOMAIN s.nodes \union {Marker}
  BY <1>1, LenProperties DEF ActiveOK
<1>3. marker \in 0 .. Len(s.active) /\ \A i \in M : i <= marker
  BY <1>2, GreatestIs
<1>4. AfterMarker(s) = (marker + 1) .. Len(s.active)
  BY DEF AfterMarker
<1> HIDE DEF marker
<1>5. \A i \in AfterMarker(s) : i \in DOMAIN s.active /\ s.active[i] # Marker
  <2> TAKE i \in AfterMarker(s)
  <2>1. i \in Nat /\ marker < i /\ i \in DOMAIN s.active
    BY <1>2, <1>3, <1>4
  <2>2. i \notin M
    BY <1>3, <2>1
  <2> QED
    BY <2>1, <2>2
<1>6. S \in SUBSET (1 .. Len(s.active))
  BY <1>2, <1>5
<1>7. place = Greatest(S)
  BY DEF FormattingPlace
<1>8. place \in S \union {0} /\ place \in 0 .. Len(s.active)
  BY <1>2, <1>6, <1>7, GreatestIs
<1> HIDE DEF place
<1>9. ASSUME place # 0
      PROVE  /\ place \in DOMAIN s.active /\ s.active[place] # Marker
             /\ s.active[place] \in DOMAIN s.nodes /\ s.nodes[s.active[place]].tag \notin Unlisted
             /\ IsHtml(s, s.active[place], {tag})
             /\ \A k \in DOMAIN s.active : s.active[k] = Marker => k < place
             /\ \A j \in DOMAIN s.active : s.active[j] = s.active[place] => j = place
  <2>1. place \in S
    BY <1>8, <1>9
  <2>2. place \in DOMAIN s.active /\ s.active[place] # Marker /\ IsHtml(s, s.active[place], {tag})
    BY <1>5, <2>1
  <2>3. \A k \in DOMAIN s.active : s.active[k] = Marker => k < place
    <3>1. \A k \in M : k \in Nat /\ k <= marker
      BY <1>2, <1>3
    <3>2. place \in Nat /\ marker < place /\ marker \in Nat
      BY <1>2, <1>3, <1>4, <2>1
    <3> QED
      BY <3>1, <3>2
  <2> QED
    BY <1>1, <1>2, <2>2, <2>3 DEF ActiveOK
<1> QED
  BY <1>2, <1>8, <1>9 DEF place

LEMMA FormattingPlaceIsInt ==
  ASSUME NEW s, Rec(s), NEW tag
  PROVE  FormattingPlace(s, tag) \in Int
<1> DEFINE M == {i \in DOMAIN s.active : s.active[i] = Marker}
           marker == Greatest(M)
           S == {i \in AfterMarker(s) : IsHtml(s, s.active[i], {tag})}
<1>1. Vector(s.active) /\ M \subseteq DOMAIN s.active
  BY DEF Rec
<1>2. marker \in 0 .. Len(s.active) /\ Len(s.active) \in Nat /\ DOMAIN s.active = 1 .. Len(s.active)
  BY <1>1, GreatestInList, VectorIs
<1>3. AfterMarker(s) = (marker + 1) .. Len(s.active)
  BY DEF AfterMarker
<1> HIDE DEF marker
<1>4. S \subseteq DOMAIN s.active
  BY <1>2, <1>3
<1>5. FormattingPlace(s, tag) = Greatest(S)
  BY DEF FormattingPlace
<1> HIDE DEF S
<1> QED
  BY <1>1, <1>4, <1>5, GreatestInList

\* The outer of two links leaves both lists.
LEMMA CloseAnchorK ==
  ASSUME NEW s, NEW F, K(s, F), F.stop
  PROVE  K(CloseAnchor(s), F)
<1> DEFINE place == FormattingPlace(s, "a")
           n == s.active[place]
           v == [s EXCEPT !.active = RemoveAt(@, place - 1)]
<1>1. CASE place = 0
  BY <1>1 DEF CloseAnchor, WithoutAnchor
<1>2. CASE place # 0
  <2>1. CloseAnchor(s) = [v EXCEPT !.open = Remove(@, n)]
    BY <1>2 DEF CloseAnchor, WithoutAnchor, K, Rec, StateFields
  <2>2. ASSUME s.sound
                    PROVE  /\ place \in Nat /\ place \in 1 .. Len(s.active) /\ Len(s.active) \in Nat
                           /\ n \in DOMAIN s.nodes /\ s.nodes[n].tag \notin Fixed /\ n # Marker
    <3>1. /\ place \in 0 .. Len(s.active) /\ Len(s.active) \in Nat
          /\ n \in DOMAIN s.nodes /\ s.nodes[n].tag \notin Fixed /\ n # Marker
      BY <1>2, <2>2, FormattingPlaceIs DEF Unlisted
    <3> HIDE DEF place, n
    <3> QED
      BY <1>2, <3>1
  <2>6. place \in Int
    BY FormattingPlaceIsInt DEF K
  <2> HIDE DEF place
  <2>3. place - 1 \in Int /\ (s.sound => place - 1 \in 0 .. Len(s.active) - 1 /\ s.active[(place - 1) + 1] # Marker)
    <3>1. (place - 1) + 1 = place
      BY <2>6
    <3> QED
      BY <2>2, <2>6, <3>1
  <2>4. K(v, F)
    BY <2>3, TakenFromActiveK
  <2>5. v.nodes = s.nodes /\ v.sound = s.sound
    BY DEF K, Rec, StateFields
  <2> HIDE DEF v, n
  <2> QED
    BY <2>1, <2>2, <2>4, <2>5, TakenFromOpenK
<1> QED
  BY <1>1, <1>2

-----------------------------------------------------------------------------
(* Elements that stand above others for a while: the stack as it is, as a frame. *)

Raised(s, F) ==
  [modes |-> IF s.sound THEN F.modes ELSE {}, base |-> IF s.sound THEN s.open ELSE <<NoNode>>, stop |-> FALSE,
   root |-> F.root, head |-> F.head, original |-> F.original]

LEMMA RaisedK ==
  ASSUME NEW s, NEW F, K(s, F), Based(F)
  PROVE  K(s, Raised(s, F)) /\ Based(Raised(s, F))
<1>1. CASE s.sound
  <2>1. Held(s, F) /\ Core(s) /\ Len(s.open) \in Nat /\ DOMAIN s.open = 1 .. Len(s.open) /\ Len(F.base) \in Nat
        /\ Len(F.base) <= Len(s.open)
    BY <1>1, HeldFacts
  <2> DEFINE k == Len(s.open)
  <2>2. Begins(s.open, s.open, F.head)
    BY <2>1 DEF Begins
  <2>3. Raised(s, F) = [modes |-> F.modes, base |-> s.open, stop |-> FALSE,
                        root |-> F.root, head |-> F.head, original |-> F.original]
    BY <1>1 DEF Raised
  <2>4. Held(s, Raised(s, F))
    BY <2>1, <2>2, <2>3 DEF Held
  <2>5. Based(Raised(s, F))
    BY <2>1, <2>3 DEF Based
  <2> QED
    BY <2>1, <2>4, <2>5 DEF K
<1>2. CASE ~ s.sound
  <2>1. Raised(s, F).base = <<NoNode>>
    BY <1>2 DEF Raised
  <2>2. Len(<<NoNode>>) = 1
    OBVIOUS
  <2> QED
    BY <1>2, <2>1, <2>2 DEF K, Based
<1> QED
  BY <1>1, <1>2

LEMMA PopRaisedK ==
  ASSUME NEW F, NEW u, NEW v, K(v, F), K(v, Raised(u, F)), K(u, F), u.sound => Len(u.open) > Len(F.base)
  PROVE  K(Pop(v), F)
<1>1. ASSUME v.sound PROVE Len(v.open) - 1 \in Int /\ Len(v.open) - 1 >= Len(F.base)
  <2>1. v.mode \in Raised(u, F).modes
    BY <1>1, HeldFacts
  <2>2. u.sound
    BY <2>1 DEF Raised
  <2>3. Raised(u, F).base = u.open
    BY <2>2 DEF Raised
  <2>4. Len(u.open) <= Len(v.open) /\ Len(v.open) \in Nat /\ Len(u.open) \in Nat /\ Len(F.base) \in Nat
    BY <1>1, <2>2, <2>3, HeldFacts
  <2>5. Len(u.open) > Len(F.base)
    BY <2>2
  <2> QED
    BY <2>4, <2>5
<1> QED
  BY <1>1, PopToK, OpenPlaces DEF Pop

\* An element has just been opened above the frame.
LEMMA NewIsRaised ==
  ASSUME NEW s, NEW F, K(s, F), NEW u, NEW tag, NEW ns, NewOnStack(s, u, tag, ns), u.sound
  PROVE  Len(u.open) > Len(F.base)
<1>1. s.sound /\ u.open = Append(s.open, Len(u.nodes))
  BY DEF NewOnStack, Rest
<1>2. Len(s.open) \in Nat /\ Len(F.base) <= Len(s.open) /\ Len(F.base) \in Nat /\ s.open \in Seq(DOMAIN s.nodes)
  BY <1>1, HeldFacts DEF OpenOK
<1>3. Len(u.open) = Len(s.open) + 1
  BY <1>1, <1>2, AppendProperties
<1> QED
  BY <1>2, <1>3

-----------------------------------------------------------------------------
(* Forms.                                                                  *)

LEMMA PointToFormK ==
  ASSUME NEW s, NEW F, K(s, F), NEW n, s.sound => FormOK(s.nodes, n)
  PROVE  K(PointToForm(s, n), F)
<1> DEFINE u == [s EXCEPT !.form = n]
<1>1. Rest(s, u) /\ u.nodes = s.nodes /\ u.open = s.open /\ u.active = s.active /\ u.templateModes = s.templateModes
      /\ u.bufferType = s.bufferType /\ u.form = n
  BY DEF K, Rest, Rec, StateFields
<1> HIDE DEF u
<1>2. K(u, F)
  BY <1>1, KeptByForm DEF Rest
<1> QED
  BY <1>2 DEF PointToForm, u

\* The current node becomes the form.
LEMMA BegunFormK ==
  ASSUME NEW s, NEW F, K(s, F), NEW u, NEW tag, NEW ns, NewOnStack(s, u, tag, ns), K(u, F), tag \notin Fixed
  PROVE  /\ K(BegunForm(u), F) /\ K([u EXCEPT !.form = Current(u)], F)
         /\ BegunForm(u).open = u.open /\ [u EXCEPT !.form = Current(u)].open = u.open
         /\ BegunForm(u).sound = u.sound /\ [u EXCEPT !.form = Current(u)].sound = u.sound
<1>1. u.sound => FormOK(u.nodes, Current(u))
  BY NewIsCurrent DEF FormOK
<1> DEFINE v == [u EXCEPT !.form = Current(u)]
<1>2. Rest(u, v) /\ v.nodes = u.nodes /\ v.open = u.open /\ v.active = u.active /\ v.templateModes = u.templateModes
      /\ v.bufferType = u.bufferType /\ v.form = Current(u) /\ v.sound = u.sound
  BY DEF K, Rest, Rec, StateFields
<1>3. BegunForm(u) = u \/ BegunForm(u) = v
  BY DEF BegunForm, PointToForm
<1> HIDE DEF v
<1>4. K(v, F)
  BY <1>1, <1>2, KeptByForm DEF Rest
<1> QED
  BY <1>2, <1>3, <1>4 DEF v

LEMMA StartFormK ==
  ASSUME NEW s, NEW F, K(s, F), F.stop, Based(F), NEW t, t.tag \notin Fixed
  PROVE  K(StartForm(s, t), F)
<1> DEFINE p == CloseP(s)
           u == InsertTag(p, t)
<1>1. K(p, F)
  BY ClosePK
<1> HIDE DEF p
<1>2. K(u, F) /\ NewOnStack(p, u, t.tag, "html")
  BY <1>1, InsertTagK
<1> HIDE DEF u
<1>3. K(BegunForm(u), F)
  BY <1>1, <1>2, BegunFormK
<1> QED
  BY <1>3 DEF StartForm, p, u

\* handle_in_table takes the form from the stack at once.
LEMMA TableFormK ==
  ASSUME NEW s, NEW F, K(s, F), Based(F), NEW t, t.tag \notin Fixed
  PROVE  LET begun == InsertTag(s, t) IN K(Pop([begun EXCEPT !.form = Current(begun)]), F)
<1> DEFINE u == InsertTag(s, t)
           v == [u EXCEPT !.form = Current(u)]
<1>1. K(u, F) /\ NewOnStack(s, u, t.tag, "html")
  BY InsertTagK
<1> HIDE DEF u
<1>2. K(v, F) /\ v.open = u.open /\ v.sound = u.sound
  BY <1>1, BegunFormK
<1>3. ASSUME v.sound PROVE Len(v.open) - 1 >= Len(F.base)
  <2>1. Len(u.open) > Len(F.base) /\ Len(u.open) \in Nat /\ Len(F.base) \in Nat
    BY <1>1, <1>2, <1>3, NewIsRaised, HeldFacts
  <2> QED
    BY <1>2, <2>1
<1> HIDE DEF v
<1>4. K(Pop(v), F)
  BY <1>2, <1>3, PopToK, OpenPlaces DEF Pop
<1> QED
  BY <1>4 DEF u, v

LEMMA FormTags ==
  /\ {"form"} \intersect Fixed = {} /\ NoTag \notin {"form"}
  /\ "form" \notin Fixed /\ "hr" \notin Fixed /\ "label" \notin Fixed /\ "input" \notin Fixed
BY DEF Fixed, NoTag

\* The form leaves the stack, whatever stands above it.
LEMMA TakeFormK ==
  ASSUME NEW s, NEW F, K(s, F), F.stop
  PROVE  K(TakeForm(s), F)
<1> DEFINE v == [s EXCEPT !.open = Remove(@, s.form)]
           w == [v EXCEPT !.form = NoNode]
           holds == In(s.open, s.form)
<1>1. TakeForm(s) = Claim(w, holds) /\ holds \in BOOLEAN
  BY DEF TakeForm, K, Rec, StateFields, In
<1>2. v.sound = s.sound /\ Rec(v)
  <2>1. Vector(Remove(s.open, s.form))
    BY VectorIndex DEF K, Rec
  <2> QED
    BY <2>1 DEF K, Rec, StateFields
<1>3. CASE s.form # NoNode \/ ~ s.sound
  <2>1. s.sound => s.form \in DOMAIN s.nodes /\ s.nodes[s.form].tag \notin Fixed
    BY <1>3, HeldFacts DEF Core, FormOK
  <2>2. K(v, F)
    BY <2>1, TakenFromOpenK
  <2> HIDE DEF v, holds
  <2>3. Rest(v, w) /\ w.nodes = v.nodes /\ w.open = v.open /\ w.active = v.active /\ w.templateModes = v.templateModes
      /\ w.bufferType = v.bufferType /\ w.form = NoNode
    BY <1>2 DEF Rest, Rec, StateFields
  <2> HIDE DEF w
  <2>4. K(w, F)
    BY <2>2, <2>3, KeptByForm DEF FormOK
  <2> QED
    BY <1>1, <2>4, ClaimK
<1>4. CASE s.form = NoNode /\ s.sound
  <2>1. ~ holds
    <3>1. Rooted(s)
      BY <1>4, HeldFacts
    <3>2. \A i \in DOMAIN s.open : s.open[i] # NoNode
      BY <3>1, StackFacts, NodeFields DEF Rooted, Sound
    <3> QED
      BY <1>4, <3>2 DEF In
  <2>2. Rec(TakeForm(s)) /\ ~ TakeForm(s).sound
    <3>1. Rec(w)
      BY <1>2 DEF Rec, StateFields
    <3> HIDE DEF w, v, holds
    <3> QED
      BY <1>1, <2>1, <3>1 DEF Rec, StateFields, Claim
  <2> QED
    BY <2>2 DEF K
<1> QED
  BY <1>3, <1>4

LEMMA EndFormK ==
  ASSUME NEW s, NEW F, K(s, F), F.stop
  PROVE  K(EndForm(s), F)
<1> DEFINE u == GenerateImpliedEndTags(s, {})
           v == [s EXCEPT !.form = NoNode]
<1>1. K(u, F)
  BY GenerateK
<1> HIDE DEF u
<1>2. K(LeaveForm(u), F)
  BY <1>1, FormTags, PopNamedK DEF LeaveForm
<1>3. K(TakeForm(u), F)
  BY <1>1, TakeFormK
<1>4. Rest(s, v) /\ v.nodes = s.nodes /\ v.open = s.open /\ v.active = s.active /\ v.templateModes = s.templateModes
      /\ v.bufferType = s.bufferType /\ v.form = NoNode
  BY DEF K, Rest, Rec, StateFields
<1> HIDE DEF v
<1>5. K(v, F)
  BY <1>4, KeptByForm DEF FormOK
<1>6. EndForm(s) \in {s, v, LeaveForm(u), TakeForm(u)}
  BY DEF EndForm, u, v
<1> QED
  BY <1>2, <1>3, <1>5, <1>6

-----------------------------------------------------------------------------
(* isindex.                                                                *)

LEMMA RuleK ==
  ASSUME NEW s, NEW F, K(s, F), Based(F)
  PROVE  K(Rule(s), F)
BY InsertImpliedK, PopNewK, FormTags DEF Rule

LEMMA PromptK ==
  ASSUME NEW s, NEW F, K(s, F), Based(F)
  PROVE  K(Prompt(s), F) /\ (Prompt(s).sound => Len(Prompt(s).open) > Len(F.base))
<1> DEFINE v == InsertImplied(s, "label")
           u == Prompt(s)
<1>1. K(v, F) /\ NewOnStack(s, v, "label", "html")
  BY InsertImpliedK, FormTags
<1>2. u = [v EXCEPT !.buffer = <<"prompt">>, !.bufferType = "text"]
  BY DEF Prompt
<1> HIDE DEF v, u
<1>3. Rest(v, u)
      /\ u.nodes = v.nodes /\ u.open = v.open /\ u.form = v.form /\ u.templateModes = v.templateModes
      /\ u.active = v.active /\ u.bufferType = "text" /\ u.sound = v.sound
  BY <1>1, <1>2 DEF K, Rest, Rec, StateFields
<1>4. K(u, F)
  BY <1>1, <1>3, KeptByNothing DEF Texts
<1>5. u.sound => Len(u.open) > Len(F.base)
  BY <1>1, <1>3, NewIsRaised
<1> QED
  BY <1>4, <1>5 DEF u

LEMMA LabelledK ==
  ASSUME NEW s, NEW F, K(s, F), Based(F)
  PROVE  K(Labelled(s), F)
<1> DEFINE u == Prompt(s)
           v == Pop(InsertImplied(u, "input"))
<1>1. K(u, F) /\ (u.sound => Len(u.open) > Len(F.base))
  BY PromptK
<1> HIDE DEF u
<1>2. K(u, Raised(u, F)) /\ Based(Raised(u, F))
  BY <1>1, RaisedK
<1>3. K(v, F) /\ K(v, Raised(u, F))
  BY <1>1, <1>2, InsertImpliedK, PopNewK, FormTags
<1> HIDE DEF v
<1>4. K(Pop(v), F)
  BY <1>1, <1>3, PopRaisedK
<1> QED
  BY <1>4 DEF Labelled, u, v

LEMMA StartIsindexK ==
  ASSUME NEW s, NEW F, K(s, F), F.stop, Based(F)
  PROVE  K(StartIsindex(s), F)
<1> DEFINE p == NoFrameset(CloseP(s))
           i == InsertImplied(p, "form")
           u == BegunForm(i)
           a == Rule(u)
           b == Labelled(a)
           c == Rule(b)
           d == Pop(c)
<1>1. K(p, F)
  BY ClosePK, NoFramesetK
<1> HIDE DEF p
<1>2. K(i, F) /\ NewOnStack(p, i, "form", "html")
  BY <1>1, InsertImpliedK, FormTags
<1> HIDE DEF i
<1>3. K(u, F) /\ u.open = i.open /\ u.sound = i.sound
  BY <1>1, <1>2, BegunFormK, FormTags
<1>4. u.sound => Len(u.open) > Len(F.base)
  BY <1>1, <1>2, <1>3, NewIsRaised
<1> HIDE DEF u
<1>5. K(u, Raised(u, F)) /\ Based(Raised(u, F))
  BY <1>3, RaisedK
<1>6. K(a, F) /\ K(a, Raised(u, F))
  BY <1>3, <1>5, RuleK
<1> HIDE DEF a
<1>7. K(b, F) /\ K(b, Raised(u, F))
  BY <1>5, <1>6, LabelledK
<1> HIDE DEF b
<1>8. K(c, F) /\ K(c, Raised(u, F))
  BY <1>5, <1>7, RuleK
<1> HIDE DEF c
<1>9. K(d, F)
  BY <1>3, <1>4, <1>8, PopRaisedK
<1> HIDE DEF d
<1>10. K(PointToForm(d, NoNode), F)
  BY <1>9, PointToFormK DEF FormOK
<1> QED
  BY <1>10 DEF StartIsindex, p, i, u, a, b, c, d

-----------------------------------------------------------------------------
(* reconstruct_active_formatting_elements.                                 *)

SettledPlace(s) == Greatest({i \in DOMAIN s.active : s.active[i] = Marker \/ In(s.open, s.active[i])})

\* One turn of the loop: a copy of the element is opened and takes its place in the list.
ReopenedAt(t, i) ==
  [Opened([t EXCEPT !.nodes = CloneNode(@, t.active[i])]) EXCEPT !.active[i] = Newest(t) + 1]

\* What one turn does to the list.
SameButAt(s, u, i) ==
  /\ Len(u.active) = Len(s.active) /\ \A j \in DOMAIN s.active : j # i => u.active[j] = s.active[j]

LEMMA ReopenedK ==
  ASSUME NEW t, NEW F, K(t, F), Based(F), NEW i,
         t.sound => /\ i \in DOMAIN t.active /\ t.active[i] # Marker
                    /\ \A k \in DOMAIN t.active : t.active[k] = Marker => k < i
  PROVE  /\ K(ReopenedAt(t, i), F) /\ (ReopenedAt(t, i).sound => t.sound) /\ SameButAt(t, ReopenedAt(t, i), i)
         /\ ReopenedAt(t, i).sound => ReopenedAt(t, i).active[i] # Marker
<1> DEFINE n == t.active[i]
           mid == [t EXCEPT !.nodes = CloneNode(@, n)]
           placed == Placed(mid)
           v == Opened(mid)
           new == Newest(t) + 1
           u == ReopenedAt(t, i)
<1>1. u = [v EXCEPT !.active[i] = new]
  BY DEF ReopenedAt
<1>2. Rec(t) /\ (t.sound => Rooted(t) /\ t.bufferType \in Texts /\ Core(t))
  BY KIsRooted
<1>3. ASSUME t.sound
      PROVE  /\ n \in DOMAIN t.nodes /\ t.nodes[n].tag \notin Unlisted /\ t.nodes[n].type # "destroyed"
             /\ ActiveOK(t.nodes, t.active)
  BY <1>2, <1>3, VectorIs DEF Core, ActiveOK, NodesOK, Rec
<1>4. Made(t, mid, t.nodes[n])
  BY <1>2, <1>3, ClonedMakes DEF Rooted
<1>5. /\ NewOnStack(t, v, t.nodes[n].tag, t.nodes[n].ns)
      /\ v.sound /\ t.nodes[n].tag \notin Amended => v.nodes[Len(v.nodes)].attrs = t.nodes[n].attrs
  BY <1>2, <1>3, <1>4, OpenedMakes
<1>6. v.sound => Len(v.nodes) = new
  <2> HIDE DEF mid, placed, v
  <2>0. Rec(mid) /\ (mid.sound => t.sound)
    BY <1>4 DEF Made, Grown, Rest
  <2>1. Rec(mid) /\ (mid.sound => Rooted(mid))
    BY <1>2, <1>4, <2>0, MadeIsRooted
  <2> USE DEF mid, placed, v
  <2>2. Made(t, placed, t.nodes[n])
    BY <1>4, <2>1, PlacedLinks, LinkingMakes
  <2>3. v = [placed EXCEPT !.open = Append(placed.open, Len(mid.nodes))]
    BY DEF Opened, Add, Newest
  <2>4. Rec(placed)
    BY <2>2 DEF Made, Grown, Rest
  <2> HIDE DEF placed, v, mid
  <2>5. v.nodes = placed.nodes /\ v.sound = placed.sound
    BY <2>3, <2>4 DEF Rec, StateFields
  <2> QED
    BY <2>2, <2>5 DEF Made, Newest
<1> HIDE DEF u, v, mid, placed, new
<1>7. Rec(v) /\ (v.sound => t.sound) /\ v.active = t.active
  BY <1>5 DEF NewOnStack, Rest
<1>8. Vector(t.active) /\ Vector([v.active EXCEPT ![i] = new])
  BY <1>7, VectorSet DEF Rec
<1>9. Rest(v, u)
      /\ u.nodes = v.nodes /\ u.open = v.open /\ u.form = v.form /\ u.templateModes = v.templateModes
      /\ u.active = [v.active EXCEPT ![i] = new] /\ u.bufferType = v.bufferType /\ u.sound = v.sound
  BY <1>1, <1>7, <1>8 DEF Rest, Rec, StateFields
<1>10. SameButAt(t, u, i)
  <2>1. u.active = [t.active EXCEPT ![i] = new]
    BY <1>7, <1>9
  <2>2. DOMAIN u.active = DOMAIN t.active
    BY <2>1
  <2>3. Len(u.active) = Len(t.active)
    BY <1>7, <1>8, <1>9, <2>2, VectorIs
  <2> QED
    BY <2>1, <2>3 DEF SameButAt
<1>11. CASE u.sound
  <2>1. t.sound /\ v.sound
    BY <1>7, <1>9, <1>11
  <2>2. n \in DOMAIN t.nodes /\ t.nodes[n].tag \notin Unlisted /\ t.nodes[n].tag \notin Amended
    BY <1>3, <2>1 DEF Unlisted
  <2>3. K(v, F)
    BY <1>5, <2>2, NewOnStackK DEF Unlisted, Fixed
  <2>4. /\ Current(v) = new /\ new \in DOMAIN v.nodes /\ new = v.open[Len(v.open)] /\ Len(v.open) \in DOMAIN v.open
        /\ v.nodes[new].tag = t.nodes[n].tag /\ v.nodes[new].ns = t.nodes[n].ns
        /\ \A j \in DOMAIN v.active : v.active[j] # new
    BY <1>5, <1>6, <2>1, NewIsCurrent
  <2>5. ActiveOK(v.nodes, v.active) /\ Segmented(v.open, v.active) /\ OpenOK(v.nodes, v.open, F.root) /\ v.bufferType \in Texts
        /\ Marker \notin DOMAIN v.nodes
    BY <2>1, <2>3, HeldFacts, MarkerIsNoNode
  <2>6. i \in DOMAIN v.active /\ v.active[i] = n /\ n # Marker /\ \A k \in DOMAIN v.active : v.active[k] = Marker => k < i
    BY <1>7, <2>1 DEF n
  <2>7. Twins(v.nodes, n, new)
    <3>1. SameNames(t.nodes, v.nodes)
      BY <1>5, <2>1 DEF NewOnStack
    <3>2. /\ v.nodes[n].tag = t.nodes[n].tag /\ v.nodes[n].ns = t.nodes[n].ns
          /\ v.nodes[n].attrs = t.nodes[n].attrs
      BY <2>2, <3>1 DEF SameNames
    <3>3. v.nodes[new].attrs = t.nodes[n].attrs
      BY <1>5, <1>6, <2>1, <2>2
    <3> QED
      BY <2>4, <3>2, <3>3 DEF Twins
  <2>8. new # Marker
    BY <2>4, <2>5
  <2> HIDE DEF n
  <2>9. ActiveOK(v.nodes, [v.active EXCEPT ![i] = new])
    BY <2>4, <2>5, <2>6, <2>7, <2>8, ActiveReplaced
  <2>10. Segmented(v.open, [v.active EXCEPT ![i] = new])
    BY <2>4, <2>5, <2>6, <2>8, SegmentedReplaced
  <2>11. K(u, F)
    BY <1>9, <2>3, <2>5, <2>9, <2>10, KeptByActive
  <2>12. u.active[i] # Marker
    BY <1>9, <2>6, <2>8
  <2> QED
    BY <1>10, <2>1, <2>11, <2>12 DEF u
<1>12. CASE ~ u.sound
  <2>1. K(u, F)
    BY <1>9, <1>12 DEF Rest, K
  <2> QED
    BY <1>10, <1>12, <2>1 DEF u
<1> QED
  BY <1>11, <1>12

\* g[i] is the state when the list has been gone through up to the place i.
Reopens(g, s, n) == g = [i \in 0 .. n |-> IF i <= SettledPlace(s) THEN s ELSE ReopenedAt(g[i - 1], i)]

LEMMA ReopensExist ==
  ASSUME NEW s, NEW n \in Nat, 0 <= SettledPlace(s)
  PROVE  \E g : Reopens(g, s, n)
<1> DEFINE T == {i \in 0 .. n : \E g : Reopens(g, s, i)}
<1>1. 0 \in T
  <2> DEFINE g == [i \in 0 .. 0 |-> s]
  <2>1. Reopens(g, s, 0)
    BY DEF Reopens
  <2> QED
    BY <2>1
<1>2. ASSUME NEW i \in 0 .. n - 1, i \in T
      PROVE  i + 1 \in T
  <2>1. PICK g : Reopens(g, s, i)
    BY <1>2
  <2> DEFINE last == IF i + 1 <= SettledPlace(s) THEN s ELSE ReopenedAt(g[i], i + 1)
             h == [k \in 0 .. i + 1 |-> IF k = i + 1 THEN last ELSE g[k]]
  <2>2. i + 1 \in 0 .. n
    OBVIOUS
  <2>3. ASSUME NEW k \in 0 .. i + 1
        PROVE  h[k] = IF k <= SettledPlace(s) THEN s ELSE ReopenedAt(h[k - 1], k)
    <3>1. CASE k = i + 1
      <4>1. k - 1 = i /\ i \in 0 .. i + 1 /\ i # i + 1
        BY <3>1
      <4>2. h[k] = last /\ h[i] = g[i]
        BY <3>1, <4>1
      <4> QED
        BY <3>1, <4>1, <4>2
    <3>2. CASE k # i + 1
      <4>1. k \in 0 .. i /\ (k # 0 => k - 1 \in 0 .. i + 1 /\ k - 1 # i + 1)
        BY <3>2
      <4>2. g[k] = IF k <= SettledPlace(s) THEN s ELSE ReopenedAt(g[k - 1], k)
        BY <2>1, <4>1 DEF Reopens
      <4>3. k = 0 => k <= SettledPlace(s)
        OBVIOUS
      <4>4. k # 0 => h[k - 1] = g[k - 1]
        BY <4>1
      <4>5. h[k] = g[k]
        BY <3>2
      <4> QED
        BY <4>2, <4>3, <4>4, <4>5
    <3> QED
      BY <3>1, <3>2
  <2>4. h = [k \in 0 .. i + 1 |-> h[k]]
    OBVIOUS
  <2> HIDE DEF h
  <2>5. Reopens(h, s, i + 1)
    BY <2>3, <2>4 DEF Reopens
  <2> QED
    BY <2>2, <2>5
<1> HIDE DEF T
<1>3. 0 .. n \subseteq T
  BY <1>1, <1>2, InductionUpTo
<1>4. n \in 0 .. n
  OBVIOUS
<1>5. n \in T
  BY <1>3, <1>4
<1> QED
  BY <1>5 DEF T

LEMMA ReconstructIs ==
  ASSUME NEW s, Rec(s)
  PROVE  \E g : Reopens(g, s, Len(s.active)) /\ Reconstruct(s) = g[Len(s.active)]
<1> DEFINE g == CHOOSE h : Reopens(h, s, Len(s.active))
<1>1. Len(s.active) \in Nat /\ 0 <= SettledPlace(s)
  <2>1. Vector(s.active)
    BY DEF Rec
  <2> QED
    BY <2>1, GreatestInList DEF SettledPlace
<1>2. Reopens(g, s, Len(s.active))
  BY <1>1, ReopensExist
<1>3. Reconstruct(s) = g[Len(s.active)]
  BY DEF Reconstruct, Reopens, ReopenedAt, SettledPlace
<1> HIDE DEF g
<1> QED
  BY <1>2, <1>3

LEMMA ReconstructK ==
  ASSUME NEW s, NEW F, K(s, F), Based(F)
  PROVE  K(Reconstruct(s), F) /\ (Reconstruct(s).sound => s.sound)
<1> DEFINE n == Len(s.active)
           settled == SettledPlace(s)
<1>1. PICK g : Reopens(g, s, n) /\ Reconstruct(s) = g[n]
  BY ReconstructIs DEF K
<1>2. n \in Nat /\ DOMAIN s.active = 1 .. n /\ settled \in 0 .. n
  <2>1. Vector(s.active)
    BY DEF K, Rec
  <2> QED
    BY <2>1, GreatestInList, VectorIs DEF SettledPlace
<1>3. ASSUME NEW j \in DOMAIN s.active, j > settled PROVE s.active[j] # Marker
  <2> DEFINE S == {i \in DOMAIN s.active : s.active[i] = Marker \/ In(s.open, s.active[i])}
  <2>1. S \in SUBSET (1 .. n) /\ settled = Greatest(S)
    BY <1>2 DEF SettledPlace
  <2>2. \A y \in S : y <= settled
    BY <1>2, <2>1, GreatestIs
  <2>3. j \notin S
    BY <1>2, <1>3, <2>2
  <2> QED
    BY <2>3
<1> HIDE DEF n, settled
<1> DEFINE After(t, i) ==
             /\ K(t, F) /\ (t.sound => s.sound) /\ Len(t.active) = n
             /\ \A j \in DOMAIN s.active : j > i => t.active[j] = s.active[j]
             /\ t.sound => \A j \in DOMAIN s.active : t.active[j] = Marker => j <= settled
           T == {i \in 0 .. n : After(g[i], i)}
<1>4. \A i \in 0 .. n : g[i] = IF i <= settled THEN s ELSE ReopenedAt(g[i - 1], i)
  BY <1>1 DEF Reopens, settled
<1>5. 0 \in T
  <2>1. g[0] = s
    BY <1>2, <1>4
  <2>2. Len(s.active) = n
    BY DEF n
  <2> QED
    BY <1>2, <1>3, <2>1, <2>2
<1>6. ASSUME NEW i \in 0 .. n - 1, i \in T
      PROVE  i + 1 \in T
  <2> DEFINE k == i + 1
             t == g[i]
  <2>1. k \in 0 .. n /\ k - 1 = i /\ k \in DOMAIN s.active /\ k > i
    BY <1>2
  <2>2. After(t, i)
    BY <1>6
  <2> HIDE DEF k, t
  <2>3. CASE k <= settled
    <3>1. g[k] = s
      BY <1>4, <2>1, <2>3
    <3>2. After(s, k)
      BY <1>2, <1>3 DEF n
    <3> QED
      BY <2>1, <3>1, <3>2 DEF k
  <2>4. CASE ~(k <= settled)
    <3> DEFINE u == ReopenedAt(t, k)
    <3>1. g[k] = u
      BY <1>4, <2>1, <2>4 DEF t
    <3>2. Len(t.active) = n /\ Vector(t.active) /\ K(t, F)
      BY <2>2 DEF K, Rec
    <3>3. DOMAIN t.active = DOMAIN s.active
      BY <1>2, <3>2, VectorIs
    <3>4. t.active[k] = s.active[k] /\ k > settled
      BY <1>2, <2>1, <2>2, <2>4
    <3>5. /\ k \in DOMAIN t.active /\ t.active[k] # Marker
          /\ t.sound => \A j \in DOMAIN t.active : t.active[j] = Marker => j < k
      BY <1>2, <1>3, <2>1, <2>2, <3>3, <3>4
    <3>6. K(u, F) /\ (u.sound => t.sound) /\ SameButAt(t, u, k) /\ (u.sound => u.active[k] # Marker)
      BY <3>2, <3>5, ReopenedK
    <3> HIDE DEF u
    <3>7. \A j \in DOMAIN s.active : j > k => u.active[j] = s.active[j]
      <4> TAKE j \in DOMAIN s.active
      <4> HAVE j > k
      <4>1. j > i /\ j # k
        BY <1>2, <2>1
      <4> QED
        BY <2>2, <3>3, <3>6, <4>1 DEF SameButAt
    <3>9. u.sound => \A j \in DOMAIN s.active : u.active[j] = Marker => j <= settled
      BY <2>2, <3>3, <3>6 DEF SameButAt
    <3>8. After(u, k)
      BY <2>2, <3>2, <3>6, <3>7, <3>9 DEF SameButAt
    <3> QED
      BY <2>1, <3>1, <3>8 DEF k
  <2> QED
    BY <2>3, <2>4
<1>7. T \subseteq 0 .. n /\ n \in 0 .. n
  BY <1>2
<1> HIDE DEF T
<1>8. 0 .. n \subseteq T
  BY <1>2, <1>5, <1>6, InductionUpTo
<1>9. After(g[n], n)
  BY <1>7, <1>8 DEF T
<1> QED
  BY <1>1, <1>9 DEF n

-----------------------------------------------------------------------------
(* The adoption agency: operations that change links only.                 *)

LEMMA LinkingTwice ==
  ASSUME NEW s, NEW mid, NEW u, Linking(s, mid), Linking(mid, u)
  PROVE  Linking(s, u)
<1>1. Grown(s, u)
  BY SameNamesStay DEF Linking, Grown, Rest
<1> QED
  BY <1>1 DEF Linking, Grown, Rest

LEMMA LinkingRooted ==
  ASSUME NEW s, NEW u, Linking(s, u), u.sound, Rooted(s)
  PROVE  Rooted(u)
<1>1. SameNames(s.nodes, u.nodes) /\ Sound(u.nodes) /\ u.open = s.open /\ DOMAIN u.nodes = DOMAIN s.nodes
  BY DEF Linking, Grown
<1>2. s.open # <<>> => s.open[1] \in DOMAIN s.nodes
  BY StackFacts
<1> QED
  BY <1>1, <1>2 DEF Rooted, SameNames

LEMMA LinkingFacts ==
  ASSUME NEW s, NEW u, Linking(s, u)
  PROVE  /\ Rec(u) /\ (u.sound => s.sound) /\ u.open = s.open /\ u.active = s.active
         /\ u.sound => DOMAIN u.nodes = DOMAIN s.nodes /\ SameNames(s.nodes, u.nodes) /\ Sound(u.nodes)
BY DEF Linking, Grown, Rest

LEMMA LinkingK ==
  ASSUME NEW s, NEW F, K(s, F), NEW u, Linking(s, u)
  PROVE  K(u, F)
<1>1. ASSUME u.sound
      PROVE  u.bufferType \in Texts /\ NodesOK(u.nodes, F.root, F.head)
  <2>1. s.sound /\ u.bufferType = s.bufferType /\ Sound(u.nodes) /\ SameNames(s.nodes, u.nodes)
        /\ DOMAIN u.nodes = DOMAIN s.nodes
    BY <1>1 DEF Linking, Grown, Rest
  <2>2. Nameless(s.nodes, u.nodes)
    BY <2>1 DEF Nameless
  <2> QED
    BY <2>1, <2>2, HeldFacts, NamelessNodesOK
<1> QED
  BY <1>1, KeptByNodes DEF Linking

\* remove_from_parent.
LEMMA DetachedLinks ==
  ASSUME NEW s, Rec(s), s.sound => Sound(s.nodes), NEW n, s.sound => n \in DOMAIN s.nodes
  PROVE  Linking(s, Detached(s, n))
<1> DEFINE u == Detached(s, n)
           parent == s.nodes[n].parent
           holds == parent = NoNode \/ (s.nodes[parent].type = "element" /\ In(s.nodes[parent].children, n))
<1>1. /\ Rec(u) /\ u.sound = (s.sound /\ holds) /\ u.nodes = RemoveFromParent(s.nodes, n)
      /\ u.root = s.root /\ u.head = s.head /\ u.mode = s.mode /\ u.original = s.original /\ u.rules = s.rules
      /\ u.open = s.open /\ u.active = s.active /\ u.form = s.form /\ u.templateModes = s.templateModes
      /\ u.bufferType = s.bufferType
  <2>1. holds \in BOOLEAN
    BY DEF In
  <2>2. u = [Claim(s, holds) EXCEPT !.nodes = RemoveFromParent(@, n)]
    BY DEF Detached
  <2> HIDE DEF u, holds
  <2>3. Claim(s, holds).nodes = s.nodes
    BY DEF Claim, Rec, StateFields
  <2> QED
    BY <2>1, <2>2, <2>3 DEF Rec, Claim, StateFields
<1> HIDE DEF u, holds
<1>2. ASSUME u.sound
      PROVE  Sound(u.nodes) /\ DOMAIN u.nodes = DOMAIN s.nodes /\ SameNames(s.nodes, u.nodes)
  BY <1>1, <1>2, RemoveFromParentKeeps DEF Rec
<1>3. Linking(s, u)
  BY <1>1, <1>2 DEF Linking, Grown, Rest, Rec
<1> QED
  BY <1>3 DEF u

\* insert_node at the place a given node asks for.
LEMMA PutIntoLinks ==
  ASSUME NEW s, Rec(s), NEW n, NEW ancestor,
         s.sound => Rooted(s) /\ s.open # <<>> /\ n \in DOMAIN s.nodes /\ ancestor \in DOMAIN s.nodes
  PROVE  Linking(s, PutInto(s, n, ancestor))
<1> DEFINE at == InsertionLocation(s, ancestor)
           u == Inserted(s, n, at)
<1>1. PutInto(s, n, ancestor) = u
  BY DEF PutInto
<1>2. CASE s.sound
  <2>1. PICK target \in DOMAIN s.nodes, index \in Int :
          at = At(target, index) /\ (index = -1 \/ index >= 0)
    BY <1>2, LocationIs
  <2>2. Sound(s.nodes)
    BY <1>2 DEF Rooted
  <2> HIDE DEF at
  <2> QED
    BY <1>1, <1>2, <2>1, <2>2, InsertedLinks
<1>3. CASE ~ s.sound
  <2> HIDE DEF at
  <2>1. CASE at.index = -1
    BY <1>1, <1>3, <2>1, AppendedLinks DEF Inserted
  <2>2. CASE at.index # -1
    <3> DEFINE holds == /\ Unlinked(s, n)
                        /\ s.nodes[at.target].type \in Elements
                        /\ at.index < Len(s.nodes[at.target].children)
    <3>1. u = [Claim(s, holds) EXCEPT !.nodes = InsertNode(s.nodes, n, at)]
      BY <2>2 DEF Inserted
    <3>2. holds \in BOOLEAN
      BY DEF Unlinked
    <3> HIDE DEF holds, u
    <3>3. Linking(s, u)
      BY <1>3, <3>1, <3>2 DEF Linking, Grown, Rest, Rec, Claim, StateFields
    <3> QED
      BY <1>1, <3>3
  <2> QED
    BY <2>1, <2>2
<1> QED
  BY <1>2, <1>3 DEF Rec

LEMMA ClonedK ==
  ASSUME NEW s, NEW F, K(s, F), NEW n, s.sound => n \in DOMAIN s.nodes /\ s.nodes[n].tag \notin Fixed
  PROVE  K(Cloned(s, n), F) /\ Made(s, Cloned(s, n), s.nodes[n])
<1> DEFINE u == Cloned(s, n)
<1>1. Rec(s) /\ (s.sound => Rooted(s) /\ Sound(s.nodes) /\ Core(s))
  BY KIsRooted DEF Rooted
<1>2. Made(s, u, s.nodes[n])
  BY <1>1, ClonedMakes DEF Cloned
<1> HIDE DEF u
<1>3. ASSUME u.sound
      PROVE  u.bufferType \in Texts /\ NodesOK(u.nodes, F.root, F.head)
  <2>1. s.sound /\ u.bufferType = s.bufferType
    BY <1>2, <1>3 DEF Made, Grown, Rest
  <2>2. NodesOK(s.nodes, F.root, F.head) /\ s.bufferType \in Texts
    BY <2>1, HeldFacts
  <2>3. s.nodes[n].tag \notin {"html", "head"} /\ s.nodes[n].type # "destroyed"
    BY <2>1, <2>2 DEF Fixed, NodesOK
  <2> QED
    BY <1>2, <1>3, <2>1, <2>2, <2>3, MadeNodesOK
<1>4. K(u, F)
  BY <1>2, <1>3, KeptByNodes DEF Made
<1> QED
  BY <1>2, <1>4 DEF u

\* Step 15 to 17: all children of the block go to the clone, and the clone into the block.
LEMMA GivenChildrenLinks ==
  ASSUME NEW s, Rec(s), NEW block, NEW new,
         s.sound => /\ Sound(s.nodes) /\ block \in DOMAIN s.nodes /\ new \in DOMAIN s.nodes /\ block # new
                    /\ s.nodes[new].children = <<>> /\ s.nodes[new].parent = NoNode
  PROVE  Linking(s, GivenChildren(s, block, new))
<1> DEFINE mid == [s EXCEPT !.nodes = MoveChildren(@, block, new)]
<1>1. GivenChildren(s, block, new) = Appended(mid, block, new)
  BY DEF GivenChildren
<1>2. /\ Rec(mid) /\ mid.sound = s.sound /\ mid.nodes = MoveChildren(s.nodes, block, new)
      /\ mid.root = s.root /\ mid.head = s.head /\ mid.mode = s.mode /\ mid.original = s.original /\ mid.rules = s.rules
      /\ mid.open = s.open /\ mid.active = s.active /\ mid.form = s.form /\ mid.templateModes = s.templateModes
      /\ mid.bufferType = s.bufferType
  BY DEF Rec, StateFields
<1> HIDE DEF mid
<1>3. ASSUME mid.sound
      PROVE  Sound(mid.nodes) /\ DOMAIN mid.nodes = DOMAIN s.nodes /\ SameNames(s.nodes, mid.nodes)
  BY <1>2, <1>3, MoveChildrenKeeps
<1>4. Linking(s, mid)
  BY <1>2, <1>3 DEF Linking, Grown, Rest, Rec
<1>5. Linking(mid, Appended(mid, block, new))
  BY <1>2, <1>3, AppendedLinks
<1> QED
  BY <1>1, <1>4, <1>5, LinkingTwice

-----------------------------------------------------------------------------
(* The adoption agency: the walk down the stack.                           *)

\* The place p is between that of the formatting element, above the base, and that of the block.
Between(open, base, p, formatting, block) ==
  /\ base \in Nat /\ base >= 1 /\ p \in DOMAIN open
  /\ \E f \in DOMAIN open : f > base /\ f <= p /\ open[f] = formatting
  /\ \E j \in DOMAIN open : j > p /\ open[j] = block

LEMMA BetweenBelow ==
  ASSUME NEW nodes, NEW open, NEW root, OpenOK(nodes, open, root), NEW base, NEW p, NEW formatting, NEW block,
         Between(open, base, p, formatting, block), open[p] # formatting
  PROVE  /\ Between(open, base, p - 1, formatting, block)
         /\ p - 1 > base /\ p \in Nat /\ p # 1 /\ p - 1 \in 1 .. Len(open) - 1
         /\ IndexOf(open, open[p]) = p - 1
<1>1. PICK f \in DOMAIN open : f > base /\ f <= p /\ open[f] = formatting
  BY DEF Between
<1>2. PICK j \in DOMAIN open : j > p /\ open[j] = block
  BY DEF Between
<1>3. open \in Seq(DOMAIN nodes) /\ Len(open) \in Nat /\ DOMAIN open = 1 .. Len(open)
  BY VectorFacts DEF OpenOK
<1> DEFINE k == Len(open)
<1>4. k \in Nat /\ DOMAIN open = 1 .. k
  BY <1>3
<1> HIDE DEF k
<1>5. f < p /\ base \in Nat /\ base >= 1 /\ p \in DOMAIN open
  <2>1. base \in Nat /\ base >= 1 /\ p \in DOMAIN open
    BY DEF Between
  <2>2. f # p
    BY <1>1
  <2> QED
    BY <1>1, <1>4, <2>1, <2>2
<1>6. p - 1 \in DOMAIN open /\ f <= p - 1 /\ j > p - 1 /\ p - 1 > base - 1
  BY <1>1, <1>2, <1>4, <1>5
<1>7. p - 1 > base /\ p \in Nat /\ p # 1 /\ p - 1 \in 1 .. k - 1
  BY <1>1, <1>2, <1>4, <1>5
<1>8. \A i \in DOMAIN open : open[i] = open[p] => i = p
  BY <1>5 DEF OpenOK
<1>9. IndexOf(open, open[p]) = p - 1
  BY <1>3, <1>5, <1>8, IndexOfPlace
<1> QED
  BY <1>1, <1>2, <1>5, <1>6, <1>7, <1>9 DEF Between, k

LEMMA BetweenRemoved ==
  ASSUME NEW nodes, NEW open, NEW root, OpenOK(nodes, open, root), NEW base, NEW p, NEW formatting, NEW block,
         Between(open, base, p, formatting, block), open[p] # formatting
  PROVE  /\ Between(RemoveAt(open, p - 1), base, p - 1, formatting, block)
         /\ ~ In(RemoveAt(open, p - 1), open[p])
<1> DEFINE index == p - 1
           w == RemoveAt(open, index)
<1>1. index > base /\ p \in Nat /\ index \in 1 .. Len(open) - 1 /\ index + 1 = p
  BY BetweenBelow
<1> HIDE DEF index
<1>2. /\ OpenOK(nodes, w, root)
      /\ \A j \in DOMAIN w : w[j] # open[index + 1]
      /\ \A i \in DOMAIN open : i # index + 1 => \E j \in DOMAIN w : w[j] = open[i]
      /\ \A j \in 1 .. index : j \in DOMAIN w /\ w[j] = open[j]
  BY <1>1, OpenRemoved
<1> HIDE DEF w
<1>3. PICK f \in DOMAIN open : f > base /\ f <= p /\ open[f] = formatting
  BY DEF Between
<1>4. PICK j \in DOMAIN open : j > p /\ open[j] = block
  BY DEF Between
<1>5. Len(open) \in Nat /\ DOMAIN open = 1 .. Len(open) /\ Len(w) \in Nat /\ DOMAIN w = 1 .. Len(w)
  BY <1>2, VectorFacts DEF OpenOK
<1> DEFINE k == Len(open)
           l == Len(w)
<1>6. k \in Nat /\ DOMAIN open = 1 .. k /\ l \in Nat /\ DOMAIN w = 1 .. l /\ index \in 1 .. k - 1
  BY <1>1, <1>5
<1> HIDE DEF k, l
<1>7. f \in 1 .. index /\ base \in Nat /\ base >= 1
  <2>1. f # p /\ base \in Nat /\ base >= 1
    BY <1>3 DEF Between
  <2> QED
    BY <1>1, <1>3, <1>6, <2>1
<1>8. f \in DOMAIN w /\ w[f] = formatting /\ index \in DOMAIN w
  BY <1>2, <1>3, <1>6, <1>7
<1>9. j # index + 1
  BY <1>1, <1>4, <1>6
<1>10. PICK i \in DOMAIN w : w[i] = block
  BY <1>2, <1>4, <1>9
<1>11. i > index
  <2>1. SUFFICES ASSUME i \in 1 .. index PROVE FALSE
    BY <1>1, <1>6, <1>10
  <2>2. open[i] = block /\ i \in DOMAIN open
    BY <1>2, <1>6, <1>10, <2>1
  <2>3. i = j
    BY <1>4, <2>2 DEF OpenOK
  <2> QED
    BY <1>1, <1>4, <1>6, <2>1, <2>3
<1>12. f <= index
  BY <1>6, <1>7
<1>13. Between(w, base, index, formatting, block)
  BY <1>3, <1>7, <1>8, <1>10, <1>11, <1>12 DEF Between
<1>14. ~ In(w, open[p])
  BY <1>1, <1>2 DEF In
<1> QED
  BY <1>13, <1>14 DEF w, index

LEMMA BetweenReplaced ==
  ASSUME NEW nodes, NEW open, NEW root, OpenOK(nodes, open, root), NEW base, NEW p, NEW formatting, NEW block,
         Between(open, base, p, formatting, block), open[p] # formatting, NEW n
  PROVE  Between([open EXCEPT ![p] = n], base, p - 1, formatting, block)
<1> DEFINE w == [open EXCEPT ![p] = n]
<1>1. Between(open, base, p - 1, formatting, block) /\ p \in Nat
  BY BetweenBelow
<1>2. DOMAIN w = DOMAIN open /\ \A i \in DOMAIN open : i # p => w[i] = open[i]
  OBVIOUS
<1> HIDE DEF w
<1>3. PICK f \in DOMAIN open : f > base /\ f <= p - 1 /\ open[f] = formatting
  BY <1>1 DEF Between
<1>4. PICK j \in DOMAIN open : j > p /\ open[j] = block
  BY DEF Between
<1>5. open \in Seq(DOMAIN nodes)
  BY DEF OpenOK
<1>6. f \in Nat /\ j \in Nat
  BY <1>5
<1>7. f # p /\ j # p /\ j > p - 1
  BY <1>1, <1>3, <1>4, <1>6
<1>8. w[f] = formatting /\ w[j] = block
  BY <1>2, <1>3, <1>4, <1>7
<1>9. base \in Nat /\ base >= 1 /\ p - 1 \in DOMAIN w
  BY <1>1, <1>2 DEF Between
<1>10. Between(w, base, p - 1, formatting, block)
  BY <1>2, <1>3, <1>4, <1>7, <1>8, <1>9 DEF Between
<1> QED
  BY <1>10 DEF w

\* An element above the base leaves the stack.
LEMMA OpenRemovedK ==
  ASSUME NEW s, NEW F, K(s, F), NEW index \in Int,
         s.sound => index \in 1 .. Len(s.open) - 1 /\ index >= Len(F.base)
  PROVE  K([s EXCEPT !.open = RemoveAt(@, index)], F)
<1> DEFINE u == [s EXCEPT !.open = RemoveAt(@, index)]
           w == RemoveAt(s.open, index)
<1>1. Vector(w)
  BY VectorChanged DEF K, Rec
<1>2. Rest(s, u) /\ u.nodes = s.nodes /\ u.active = s.active /\ u.form = s.form /\ u.templateModes = s.templateModes
      /\ u.bufferType = s.bufferType /\ u.open = w
  BY <1>1 DEF K, Rest, Rec, StateFields
<1> HIDE DEF u
<1>3. ASSUME u.sound
      PROVE  /\ u.bufferType \in Texts /\ NodesOK(u.nodes, F.root, F.head) /\ SameNames(s.nodes, u.nodes)
             /\ OpenOK(u.nodes, u.open, F.root) /\ Begins(u.open, F.base, F.head)
             /\ TemplatesIn(u.nodes, u.open) \subseteq TemplatesIn(s.nodes, s.open)
             /\ Segmented(u.open, s.active)
  <2>1. s.sound
    BY <1>2, <1>3 DEF Rest
  <2>2. /\ OpenOK(s.nodes, s.open, F.root) /\ NodesOK(s.nodes, F.root, F.head) /\ s.bufferType \in Texts
        /\ Begins(s.open, F.base, F.head) /\ Len(s.open) \in Nat /\ DOMAIN s.open = 1 .. Len(s.open)
        /\ Len(F.base) \in Nat /\ Len(F.base) <= Len(s.open)
    BY <2>1, HeldFacts
  <2>2a. index \in 1 .. Len(s.open) - 1
    BY <2>1
  <2>3. /\ OpenOK(s.nodes, w, F.root) /\ Len(w) = Len(s.open) - 1
        /\ \A j \in DOMAIN w : Back(index, j) \in DOMAIN s.open /\ w[j] = s.open[Back(index, j)]
        /\ \A j \in 1 .. index : j \in DOMAIN w /\ w[j] = s.open[j]
        /\ TemplatesIn(s.nodes, w) \subseteq TemplatesIn(s.nodes, s.open)
    BY <2>2, <2>2a, OpenRemoved
  <2> DEFINE b == Len(F.base)
             k == Len(s.open)
  <2>4. w \in Seq(DOMAIN s.nodes)
    BY <2>3 DEF OpenOK
  <2> HIDE DEF w
  <2>5. DOMAIN w = 1 .. k - 1
    BY <2>3, <2>4, LenProperties
  <2>6. b \in Nat /\ k \in Nat /\ index \in 1 .. k - 1 /\ b <= index
    BY <2>1, <2>2
  <2>7. \A i \in 1 .. b : s.open[i] = F.base[i]
    BY <2>2 DEF Begins
  <2>8. \A i \in DOMAIN s.open : s.open[i] = F.head => i <= b
    BY <2>2 DEF Begins
  <2> HIDE DEF b, k
  <2>9. \A i \in 1 .. b : w[i] = F.base[i]
    BY <2>3, <2>6, <2>7
  <2>10. ASSUME NEW i \in DOMAIN w, w[i] = F.head PROVE i <= b
    <3>1. Back(index, i) <= b
      BY <2>3, <2>8, <2>10
    <3> QED
      BY <2>5, <2>6, <3>1 DEF Back
  <2>11. b <= Len(w)
    BY <2>3, <2>6 DEF k
  <2>12. Begins(w, F.base, F.head)
    BY <2>6, <2>9, <2>10, <2>11 DEF Begins, b
  <2>13. Segmented(w, s.active)
    <3> DEFINE From == [j \in DOMAIN w |-> Back(index, j)]
    <3>1. Segmented(s.open, s.active)
      BY <2>1, HeldFacts
    <3>2. \A i \in DOMAIN w : From[i] \in DOMAIN s.open /\ s.open[From[i]] = w[i]
      BY <2>3
    <3>3. \A i, j \in DOMAIN w : From[i] < From[j] => i < j
      BY <2>5, <2>6 DEF Back
    <3> HIDE DEF From
    <3> QED
      BY <3>1, <3>2, <3>3, SegmentedMapped
  <2> QED
    BY <1>2, <2>2, <2>3, <2>12, <2>13 DEF SameNames, NodesOK, Sound, Typed
<1>4. K(u, F)
  BY <1>2, <1>3, KeptByOpen
<1> QED
  BY <1>4 DEF u

\* A new element takes the place of another in both lists.
LEMMA EnteredK ==
  ASSUME NEW s, NEW F, K(s, F), NEW e, NEW p, NEW new,
         s.sound => /\ new \in DOMAIN s.nodes /\ s.nodes[new].tag \notin Fixed
                    /\ \A i \in DOMAIN s.open : s.open[i] # new
                    /\ \A i \in DOMAIN s.active : s.active[i] # new
                    /\ e \in DOMAIN s.active /\ p \in DOMAIN s.open /\ p > Len(F.base) /\ p # 1
                    /\ s.active[e] = s.open[p] /\ Twins(s.nodes, s.open[p], new)
  PROVE  K([s EXCEPT !.active[e] = new, !.open[p] = new], F)
<1> DEFINE mid == [s EXCEPT !.active[e] = new]
           u == [s EXCEPT !.active[e] = new, !.open[p] = new]
           w == [s.open EXCEPT ![p] = new]
           v == [s.active EXCEPT ![e] = new]
<1>1. Vector(v) /\ Vector(w)
  BY VectorSet DEF K, Rec
<1>2. Rest(s, mid) /\ mid.nodes = s.nodes /\ mid.active = v /\ mid.open = s.open /\ mid.form = s.form
      /\ mid.templateModes = s.templateModes /\ mid.bufferType = s.bufferType /\ mid.sound = s.sound
  BY <1>1 DEF K, Rest, Rec, StateFields
<1>3. Rest(mid, u) /\ u.nodes = s.nodes /\ u.active = mid.active /\ u.form = s.form
      /\ u.templateModes = s.templateModes /\ u.bufferType = s.bufferType /\ u.open = w /\ u.sound = s.sound
  BY <1>1 DEF K, Rest, Rec, StateFields
<1> HIDE DEF mid, u
<1>4. ASSUME s.sound
      PROVE  /\ ActiveOK(s.nodes, v) /\ s.bufferType \in Texts
             /\ Segmented(s.open, v) /\ Segmented(w, v)
  <2>1. /\ ActiveOK(s.nodes, s.active) /\ Segmented(s.open, s.active) /\ OpenOK(s.nodes, s.open, F.root)
        /\ s.bufferType \in Texts /\ Marker \notin DOMAIN s.nodes
        /\ \A i \in DOMAIN s.open : s.open[i] \in DOMAIN s.nodes
    BY <1>4, HeldFacts, MarkerIsNoNode
  <2>2. new # Marker /\ s.active[e] # Marker
    BY <1>4, <2>1
  <2>3. ActiveOK(s.nodes, v)
    BY <1>4, <2>1, <2>2, ActiveReplaced
  <2>4. \A b \in DOMAIN s.open : s.open[b] = s.open[p] => b = p
    BY <1>4, <2>1 DEF OpenOK
  <2>5. Segmented(s.open, v) /\ Segmented(w, v)
    BY <1>4, <2>1, <2>2, <2>4, SegmentedSwapped
  <2> QED
    BY <2>1, <2>3, <2>5
<1> HIDE DEF v
<1>5. K(mid, F)
  BY <1>2, <1>4, KeptByActive
<1>6. ASSUME s.sound
      PROVE  /\ NodesOK(s.nodes, F.root, F.head) /\ SameNames(s.nodes, s.nodes)
             /\ OpenOK(s.nodes, w, F.root) /\ Begins(w, F.base, F.head)
             /\ TemplatesIn(s.nodes, w) \subseteq TemplatesIn(s.nodes, s.open)
  <2>1. /\ OpenOK(s.nodes, s.open, F.root) /\ NodesOK(s.nodes, F.root, F.head)
        /\ Begins(s.open, F.base, F.head) /\ Len(s.open) \in Nat /\ DOMAIN s.open = 1 .. Len(s.open)
        /\ Len(F.base) \in Nat /\ Len(F.base) <= Len(s.open)
    BY <1>6, HeldFacts
  <2>2. OpenOK(s.nodes, w, F.root) /\ Len(w) = Len(s.open) /\ DOMAIN w = DOMAIN s.open
    BY <1>6, <2>1, OpenReplaced
  <2>3. w[p] = new /\ \A i \in DOMAIN s.open : i # p => w[i] = s.open[i]
    BY <1>6
  <2>4. Begins(w, F.base, F.head)
    <3>1. \A i \in 1 .. Len(F.base) : i # p /\ i \in DOMAIN s.open
      BY <1>6, <2>1
    <3>2. \A i \in 1 .. Len(F.base) : w[i] = F.base[i]
      BY <2>1, <2>3, <3>1 DEF Begins
    <3>3. new # F.head \/ F.head = NoNode
      BY <1>6, <2>1 DEF NodesOK, Fixed
    <3>4. NoNode \notin DOMAIN s.nodes
      BY <1>6, KIsRooted, StackFacts DEF NoNode
    <3>5. new # F.head
      BY <1>6, <3>3, <3>4
    <3>6. \A i \in DOMAIN w : w[i] = F.head => i <= Len(F.base)
      BY <2>1, <2>2, <2>3, <3>5 DEF Begins
    <3> QED
      BY <2>1, <2>2, <3>2, <3>6 DEF Begins
  <2>5. TemplatesIn(s.nodes, w) \subseteq TemplatesIn(s.nodes, s.open)
    <3>1. s.nodes[new].tag # "template"
      BY <1>6 DEF Fixed
    <3> QED
      BY <2>2, <2>3, <3>1 DEF TemplatesIn, In
  <2> QED
    BY <2>1, <2>2, <2>4, <2>5 DEF SameNames
<1>7. K(u, F)
  BY <1>2, <1>3, <1>4, <1>5, <1>6, KeptByOpen
<1> QED
  BY <1>7 DEF u

WalkFields == {"state", "node", "last", "saved", "bookmark", "count"}

\* No marker stands behind the bookmark, nor behind the formatting element, which is in the list.
Bookmarked(active, formatting, bookmark) ==
  /\ \A k \in DOMAIN active : active[k] = Marker => k <= bookmark
  /\ \E i \in DOMAIN active : active[i] = formatting /\ \A k \in DOMAIN active : active[k] = Marker => k < i

LEMMA BookmarkedRemoved ==
  ASSUME NEW nodes, NEW active, ActiveOK(nodes, active), NEW formatting, formatting # Marker, NEW bookmark \in Int,
         Bookmarked(active, formatting, bookmark), NEW entry \in 0 .. Len(active) - 1, active[entry + 1] # formatting
  PROVE  Bookmarked(RemoveAt(active, entry), formatting, IF entry < bookmark THEN bookmark - 1 ELSE bookmark)
<1> DEFINE w == RemoveAt(active, entry)
           k == Len(active)
<1>1. active \in Seq(DOMAIN nodes \union {Marker})
  BY DEF ActiveOK
<1>2. k \in Nat /\ DOMAIN active = 1 .. k
  BY <1>1, LenProperties
<1>3. /\ DOMAIN w = 1 .. k - 1
      /\ \A j \in DOMAIN w : Back(entry, j) \in DOMAIN active /\ w[j] = active[Back(entry, j)]
      /\ \A i \in DOMAIN active : i # entry + 1 => \E j \in DOMAIN w : w[j] = active[i]
  BY <1>1, RemoveAtIs
<1> HIDE DEF w, k
<1>4. entry \in Nat
  BY <1>2 DEF k
<1>5. PICK i \in DOMAIN active : active[i] = formatting /\ \A m \in DOMAIN active : active[m] = Marker => m < i
  BY DEF Bookmarked
<1>6. PICK j \in DOMAIN w : w[j] = formatting
  BY <1>3, <1>5
<1>7. Back(entry, j) = i
  BY <1>3, <1>5, <1>6 DEF ActiveOK
<1>8. ASSUME NEW m \in DOMAIN w, w[m] = Marker
      PROVE  m < j /\ m <= IF entry < bookmark THEN bookmark - 1 ELSE bookmark
  <2>1. Back(entry, m) \in DOMAIN active /\ active[Back(entry, m)] = Marker
    BY <1>3, <1>8
  <2>2. Back(entry, m) < i /\ Back(entry, m) <= bookmark
    BY <1>5, <2>1 DEF Bookmarked
  <2>3. m \in Nat /\ j \in Nat
    BY <1>2, <1>3
  <2>4. m < j
    BY <1>4, <1>7, <2>2, <2>3 DEF Back
  <2>5. m <= IF entry < bookmark THEN bookmark - 1 ELSE bookmark
    BY <1>4, <2>2, <2>3 DEF Back
  <2> QED
    BY <2>4, <2>5
<1> QED
  BY <1>6, <1>8 DEF Bookmarked, w

LEMMA BookmarkedReplaced ==
  ASSUME NEW active, NEW formatting, NEW bookmark, Bookmarked(active, formatting, bookmark),
         NEW e \in DOMAIN active, active[e] # formatting, NEW n, n # Marker
  PROVE  Bookmarked([active EXCEPT ![e] = n], formatting, bookmark)
<1> DEFINE w == [active EXCEPT ![e] = n]
<1>1. DOMAIN w = DOMAIN active /\ \A i \in DOMAIN active : w[i] = IF i = e THEN n ELSE active[i]
  OBVIOUS
<1> HIDE DEF w
<1>2. Bookmarked(w, formatting, bookmark)
  BY <1>1 DEF Bookmarked
<1> QED
  BY <1>2 DEF w

\* What is listed of the elements above the formatting element is listed behind every marker.
LEMMA BookmarkedEntry ==
  ASSUME NEW nodes, NEW open, NEW root, OpenOK(nodes, open, root), NEW active, ActiveOK(nodes, active),
         Segmented(open, active), NEW base, NEW p, NEW formatting, NEW block, Between(open, base, p, formatting, block),
         open[p] # formatting, NEW bookmark, Bookmarked(active, formatting, bookmark),
         NEW e \in DOMAIN active, active[e] = open[p]
  PROVE  Bookmarked(active, formatting, e)
<1>1. PICK f \in DOMAIN open : f > base /\ f <= p /\ open[f] = formatting
  BY DEF Between
<1>2. p \in DOMAIN open /\ DOMAIN open \subseteq Nat /\ DOMAIN active \subseteq Nat
  BY LenProperties DEF Between, OpenOK, ActiveOK
<1>3. PICK i \in DOMAIN active : active[i] = formatting /\ \A k \in DOMAIN active : active[k] = Marker => k < i
  BY DEF Bookmarked
<1>4. ASSUME NEW k \in DOMAIN active, active[k] = Marker, e < k PROVE FALSE
  <2>1. k < i
    BY <1>3, <1>4
  <2>2. p < f
    BY <1>1, <1>2, <1>3, <1>4, <2>1 DEF Segmented
  <2> QED
    BY <1>1, <1>2, <2>2
<1>5. \A k \in DOMAIN active : active[k] = Marker => k <= e
  BY <1>2, <1>4
<1> QED
  BY <1>3, <1>5 DEF Bookmarked

\* The walk has gone from the block to a place between the two; nothing has been given other names.
Walking(w, s, F, formatting, block) ==
  /\ DOMAIN w = WalkFields /\ K(w.state, F) /\ w.bookmark \in Int /\ w.saved \in Int
  /\ w.state.sound =>
       /\ s.sound /\ SameNames(s.nodes, w.state.nodes) /\ w.last \in DOMAIN w.state.nodes
       /\ Between(w.state.open, Len(F.base), Below13(w) + 1, formatting, block)
       /\ Bookmarked(w.state.active, formatting, w.bookmark)

\* The node is visited when there is one below it, and it stands in the tree.
Claimed(w) == Claim(w.state, Below13(w) > 0 /\ w.state.nodes[w.state.open[Below13(w) + 1]].parent # NoNode)

LEMMA ClaimedFacts ==
  ASSUME NEW w, NEW s, NEW F, NEW formatting, NEW block, Walking(w, s, F, formatting, block)
  PROVE  LET u == Claimed(w)
             place == Below13(w)
             node == u.open[place + 1]
             entry == IndexOf(u.active, node)
         IN  /\ K(u, F) /\ Rec(u) /\ u.nodes = w.state.nodes /\ u.open = w.state.open /\ u.active = w.state.active
             /\ place \in Int /\ entry \in Int
             /\ u.sound => /\ w.state.sound /\ OpenOK(u.nodes, u.open, F.root)
                           /\ Between(u.open, Len(F.base), place + 1, formatting, block)
                           /\ node \in DOMAIN u.nodes /\ Len(u.nodes) \in Nat /\ DOMAIN u.nodes = 1 .. Len(u.nodes)
                           /\ entry # -1 => /\ entry \in 0 .. Len(u.active) - 1 /\ entry + 1 \in DOMAIN u.active
                                            /\ u.active[entry + 1] = node /\ u.nodes[node].tag \notin Unlisted
                           /\ SameNames(s.nodes, u.nodes) /\ w.last \in DOMAIN u.nodes /\ s.sound
                           /\ Bookmarked(u.active, formatting, w.bookmark) /\ formatting # Marker /\ node # Marker
<1> DEFINE u == Claimed(w)
           place == Below13(w)
           node == u.open[place + 1]
           entry == IndexOf(u.active, node)
           holds == Below13(w) > 0 /\ w.state.nodes[w.state.open[Below13(w) + 1]].parent # NoNode
<1>1. u = Claim(w.state, holds)
  BY DEF Claimed
<1>2. holds \in BOOLEAN
  OBVIOUS
<1>3. K(w.state, F)
  BY DEF Walking
<1> HIDE DEF u, holds
<1>4. K(u, F) /\ Grown(w.state, u) /\ (u.sound => w.state.sound) /\ u.nodes = w.state.nodes
  BY <1>1, <1>2, <1>3, ClaimK
<1>5. Rec(u) /\ u.open = w.state.open /\ u.active = w.state.active
  BY <1>4 DEF K, Grown
<1>6. place \in Int
  <2>1. Vector(w.state.open) /\ w.saved \in Int
    BY <1>3 DEF Walking, K, Rec
  <2>2. IndexOf(w.state.open, w.node) \in Int
    BY <2>1, VectorIndex
  <2> QED
    BY <2>1, <2>2 DEF Below13
<1> HIDE DEF place
<1>7. entry \in Int
  <2>1. Vector(u.active)
    BY <1>5 DEF Rec
  <2> HIDE DEF node
  <2> QED
    BY <2>1, VectorIndex
<1>8. ASSUME u.sound
      PROVE  /\ w.state.sound /\ OpenOK(u.nodes, u.open, F.root)
             /\ Between(u.open, Len(F.base), place + 1, formatting, block)
             /\ node \in DOMAIN u.nodes /\ Len(u.nodes) \in Nat /\ DOMAIN u.nodes = 1 .. Len(u.nodes)
             /\ entry # -1 => /\ entry \in 0 .. Len(u.active) - 1 /\ entry + 1 \in DOMAIN u.active
                              /\ u.active[entry + 1] = node /\ u.nodes[node].tag \notin Unlisted
             /\ SameNames(s.nodes, u.nodes) /\ w.last \in DOMAIN u.nodes /\ s.sound
             /\ Bookmarked(u.active, formatting, w.bookmark) /\ formatting # Marker /\ node # Marker
  <2>1. w.state.sound
    BY <1>4, <1>8
  <2>2. Between(u.open, Len(F.base), place + 1, formatting, block)
        /\ SameNames(s.nodes, u.nodes) /\ w.last \in DOMAIN u.nodes /\ s.sound
        /\ Bookmarked(u.active, formatting, w.bookmark)
    BY <1>4, <1>5, <2>1 DEF Walking, place
  <2>3. OpenOK(u.nodes, u.open, F.root) /\ ActiveOK(u.nodes, u.active) /\ Rooted(u)
        /\ Marker \notin DOMAIN u.nodes /\ \A a \in DOMAIN u.open : u.open[a] \in DOMAIN u.nodes
    BY <1>4, <1>8, HeldFacts, MarkerIsNoNode
  <2>4. place + 1 \in DOMAIN u.open
    BY <2>2 DEF Between
  <2>5. node \in DOMAIN u.nodes
    BY <2>3, <2>4 DEF OpenOK
  <2>6. Len(u.nodes) \in Nat /\ DOMAIN u.nodes = 1 .. Len(u.nodes)
    BY <2>3, StackFacts
  <2>8. formatting # Marker
    BY <2>2, <2>3 DEF Between
  <2> HIDE DEF node
  <2>7. ASSUME entry # -1
        PROVE  /\ entry \in 0 .. Len(u.active) - 1 /\ entry + 1 \in DOMAIN u.active
               /\ u.active[entry + 1] = node /\ u.nodes[node].tag \notin Unlisted
    <3>1. u.active \in Seq(DOMAIN u.nodes \union {Marker})
      BY <2>3 DEF ActiveOK
    <3>2. /\ entry \in 0 .. Len(u.active) - 1 /\ entry + 1 \in DOMAIN u.active
          /\ u.active[entry + 1] = node
      BY <2>7, <3>1, IndexOfIs
    <3>3. node # Marker
      BY <2>3, <2>5
    <3> QED
      BY <2>3, <3>2, <3>3 DEF ActiveOK
  <2> QED
    BY <2>1, <2>2, <2>3, <2>5, <2>6, <2>7, <2>8
<1> QED
  BY <1>4, <1>5, <1>6, <1>7, <1>8 DEF u, place

\* A visit: the state, the place and the node, its entry in the list, and what the walk is after it.
Visit(w, u, place, node, entry) ==
  u = Claimed(w) /\ place = Below13(w) /\ node = u.open[place + 1] /\ entry = IndexOf(u.active, node)
Leaves(v, state, place, node, last, bookmark) ==
  /\ DOMAIN v = WalkFields /\ v.state = state /\ v.node = node /\ v.last = last /\ v.saved = place
  /\ v.bookmark = bookmark /\ v.bookmark \in Int

LEMMA VisitFacts ==
  ASSUME NEW w, NEW s, NEW F, NEW formatting, NEW block, Walking(w, s, F, formatting, block),
         w.state.open[Below13(w) + 1] # formatting,
         NEW u, NEW place, NEW node, NEW entry, Visit(w, u, place, node, entry)
  PROVE  /\ K(u, F) /\ Rec(u) /\ place \in Int /\ entry \in Int /\ node = u.open[place + 1]
         /\ u.sound => /\ OpenOK(u.nodes, u.open, F.root)
                       /\ Between(u.open, Len(F.base), place + 1, formatting, block)
                       /\ u.open[place + 1] # formatting
                       /\ node \in DOMAIN u.nodes
                       /\ entry # -1 => /\ entry \in 0 .. Len(u.active) - 1 /\ entry + 1 \in DOMAIN u.active
                                        /\ u.active[entry + 1] = node /\ u.nodes[node].tag \notin Unlisted
                       /\ SameNames(s.nodes, u.nodes) /\ w.last \in DOMAIN u.nodes /\ s.sound
                       /\ Bookmarked(u.active, formatting, w.bookmark) /\ formatting # Marker /\ node # Marker
BY ClaimedFacts DEF Visit

\* The element is dropped from the list of active formatting elements.
LEMMA DroppedFromList ==
  ASSUME NEW w, NEW s, NEW F, NEW formatting, NEW block, Walking(w, s, F, formatting, block),
         w.state.open[Below13(w) + 1] # formatting,
         NEW u, NEW place, NEW node, NEW entry, Visit(w, u, place, node, entry), entry # -1,
         NEW v, Leaves(v, [u EXCEPT !.active = RemoveAt(@, entry)], place, node, w.last,
                       IF entry < w.bookmark THEN w.bookmark - 1 ELSE w.bookmark)
  PROVE  Walking(v, s, F, formatting, block)
<1> DEFINE t == [u EXCEPT !.active = RemoveAt(@, entry)]
<1>1. /\ K(u, F) /\ Rec(u) /\ place \in Int /\ entry \in Int /\ node = u.open[place + 1]
      /\ u.sound => /\ OpenOK(u.nodes, u.open, F.root)
                    /\ Between(u.open, Len(F.base), place + 1, formatting, block)
                    /\ u.open[place + 1] # formatting
                    /\ entry \in 0 .. Len(u.active) - 1 /\ u.active[entry + 1] = node
                    /\ SameNames(s.nodes, u.nodes) /\ w.last \in DOMAIN u.nodes /\ s.sound
                    /\ Bookmarked(u.active, formatting, w.bookmark) /\ formatting # Marker /\ node # Marker
  BY VisitFacts
<1>0. DOMAIN v = WalkFields /\ v.state = t /\ v.node = node /\ v.last = w.last /\ v.saved = place /\ v.bookmark \in Int
      /\ v.bookmark = IF entry < w.bookmark THEN w.bookmark - 1 ELSE w.bookmark
  BY DEF Leaves
<1>2. K(t, F)
  BY <1>1, TakenFromActiveK
<1>3. t.nodes = u.nodes /\ t.open = u.open /\ t.sound = u.sound /\ t.active = RemoveAt(u.active, entry)
  BY <1>1 DEF Rec, StateFields
<1> HIDE DEF t
<1>4. ASSUME t.sound
      PROVE  Between(t.open, Len(F.base), Below13(v) + 1, formatting, block)
  <2>1. /\ OpenOK(u.nodes, u.open, F.root) /\ Between(u.open, Len(F.base), place + 1, formatting, block)
        /\ u.open[place + 1] # formatting
    BY <1>1, <1>3, <1>4
  <2>2. Between(u.open, Len(F.base), (place + 1) - 1, formatting, block) /\ IndexOf(u.open, node) = (place + 1) - 1
    BY <1>1, <2>1, BetweenBelow
  <2>3. In(u.open, node)
    BY <1>1, <2>1 DEF Between, In
  <2>4. Below13(v) = place - 1
    BY <1>0, <1>1, <1>3, <2>2, <2>3 DEF Below13
  <2> QED
    BY <1>1, <1>3, <2>2, <2>4
<1>5. ASSUME t.sound PROVE Bookmarked(t.active, formatting, v.bookmark)
  <2>1. ActiveOK(u.nodes, u.active)
    BY <1>1, <1>3, <1>5, HeldFacts
  <2>2. w.bookmark \in Int
    BY DEF Walking
  <2>3. u.active[entry + 1] # formatting
    BY <1>1, <1>3, <1>5
  <2> QED
    BY <1>0, <1>1, <1>3, <1>5, <2>1, <2>2, <2>3, BookmarkedRemoved
<1> QED
  BY <1>0, <1>1, <1>2, <1>3, <1>4, <1>5 DEF Walking

\* The element is no active formatting element: it leaves the stack.
LEMMA DroppedFromStack ==
  ASSUME NEW w, NEW s, NEW F, NEW formatting, NEW block, Walking(w, s, F, formatting, block),
         w.state.open[Below13(w) + 1] # formatting,
         NEW u, NEW place, NEW node, NEW entry, Visit(w, u, place, node, entry),
         NEW v, Leaves(v, [u EXCEPT !.open = RemoveAt(@, place)], place, node, w.last, w.bookmark)
  PROVE  Walking(v, s, F, formatting, block)
<1> DEFINE t == [u EXCEPT !.open = RemoveAt(@, place)]
<1>1. /\ K(u, F) /\ Rec(u) /\ place \in Int /\ node = u.open[place + 1]
      /\ u.sound => /\ OpenOK(u.nodes, u.open, F.root)
                    /\ Between(u.open, Len(F.base), place + 1, formatting, block)
                    /\ u.open[place + 1] # formatting
                    /\ SameNames(s.nodes, u.nodes) /\ w.last \in DOMAIN u.nodes /\ s.sound
                    /\ Bookmarked(u.active, formatting, w.bookmark)
  BY VisitFacts
<1>0. DOMAIN v = WalkFields /\ v.state = t /\ v.node = node /\ v.last = w.last /\ v.saved = place /\ v.bookmark \in Int
      /\ v.bookmark = w.bookmark
  BY DEF Leaves
<1>2. (place + 1) - 1 = place
  BY <1>1
<1>3. ASSUME u.sound
      PROVE  /\ Between(RemoveAt(u.open, place), Len(F.base), place, formatting, block)
             /\ ~ In(RemoveAt(u.open, place), node)
             /\ place > Len(F.base) /\ place \in 1 .. Len(u.open) - 1 /\ Len(F.base) \in Nat
  <2>1. /\ OpenOK(u.nodes, u.open, F.root) /\ Between(u.open, Len(F.base), place + 1, formatting, block)
        /\ u.open[place + 1] # formatting
    BY <1>1, <1>3
  <2>2. /\ Between(RemoveAt(u.open, (place + 1) - 1), Len(F.base), (place + 1) - 1, formatting, block)
        /\ ~ In(RemoveAt(u.open, (place + 1) - 1), u.open[place + 1])
    BY <2>1, BetweenRemoved
  <2>3. (place + 1) - 1 > Len(F.base) /\ (place + 1) - 1 \in 1 .. Len(u.open) - 1
    BY <2>1, BetweenBelow
  <2> QED
    BY <1>1, <1>2, <2>1, <2>2, <2>3 DEF Between
<1>4. K(t, F)
  <2>1. u.sound => place >= Len(F.base) /\ place \in 1 .. Len(u.open) - 1
    BY <1>1, <1>3
  <2> QED
    BY <1>1, <2>1, OpenRemovedK
<1>5. t.nodes = u.nodes /\ t.open = RemoveAt(u.open, place) /\ t.sound = u.sound /\ t.active = u.active
  BY <1>1 DEF Rec, StateFields
<1> HIDE DEF t
<1>6. ASSUME t.sound
      PROVE  Between(t.open, Len(F.base), Below13(v) + 1, formatting, block)
  <2>1. Below13(v) = place - 1
    BY <1>0, <1>3, <1>5, <1>6 DEF Below13
  <2>2. Below13(v) + 1 = place
    BY <1>1, <2>1
  <2> QED
    BY <1>3, <1>5, <1>6, <2>2
<1> QED
  BY <1>0, <1>1, <1>4, <1>5, <1>6 DEF Walking

\* The clone, which takes the place of the element in both lists.
Reclones(u, place, node, entry, cloned, clone, entered) ==
  /\ cloned = Cloned(u, node) /\ clone = Len(cloned.nodes)
  /\ entered = [cloned EXCEPT !.active[entry + 1] = clone, !.open[place + 1] = clone]

\* A clone takes the place of the element in both lists and gets the node that was last moved.
LEMMA Recloned ==
  ASSUME NEW w, NEW s, NEW F, NEW formatting, NEW block, Walking(w, s, F, formatting, block),
         w.state.open[Below13(w) + 1] # formatting,
         NEW u, NEW place, NEW node, NEW entry, Visit(w, u, place, node, entry), entry # -1,
         NEW cloned, NEW clone, NEW entered, Reclones(u, place, node, entry, cloned, clone, entered),
         NEW bookmark \in {w.bookmark, entry + 1},
         NEW v, Leaves(v, Appended(Detached(entered, w.last), clone, w.last), place, clone, clone, bookmark)
  PROVE  Walking(v, s, F, formatting, block)
<1> DEFINE d == Detached(entered, w.last)
           t == Appended(d, clone, w.last)
<1>0. DOMAIN v = WalkFields /\ v.state = t /\ v.node = clone /\ v.last = clone /\ v.saved = place /\ v.bookmark \in Int
      /\ v.bookmark = bookmark
  BY DEF Leaves
<1>1. /\ K(u, F) /\ Rec(u) /\ place \in Int /\ entry \in Int /\ node = u.open[place + 1]
      /\ u.sound => /\ OpenOK(u.nodes, u.open, F.root)
                    /\ Between(u.open, Len(F.base), place + 1, formatting, block)
                    /\ u.open[place + 1] # formatting
                    /\ node \in DOMAIN u.nodes
                    /\ entry + 1 \in DOMAIN u.active /\ u.active[entry + 1] = node /\ u.nodes[node].tag \notin Unlisted
                    /\ SameNames(s.nodes, u.nodes) /\ w.last \in DOMAIN u.nodes /\ s.sound
                    /\ Bookmarked(u.active, formatting, w.bookmark) /\ formatting # Marker /\ node # Marker
  BY VisitFacts
<1>2. K(cloned, F) /\ Made(u, cloned, u.nodes[node])
  BY <1>1, ClonedK DEF Reclones, Unlisted
<1>3. /\ Rec(cloned) /\ (cloned.sound => u.sound) /\ cloned.open = u.open /\ cloned.active = u.active
      /\ cloned.sound => /\ SameNames(u.nodes, cloned.nodes) /\ Len(u.nodes) \in Nat /\ clone = Len(u.nodes) + 1
                         /\ DOMAIN u.nodes = 1 .. Len(u.nodes) /\ DOMAIN cloned.nodes = 1 .. Len(u.nodes) + 1
                         /\ cloned.nodes[clone].tag = u.nodes[node].tag /\ cloned.nodes[clone].ns = u.nodes[node].ns
                         /\ u.nodes[node].tag \notin Amended => cloned.nodes[clone].attrs = u.nodes[node].attrs
  <2> DEFINE k == Len(u.nodes)
  <2>1. /\ Rec(cloned) /\ (cloned.sound => u.sound) /\ cloned.open = u.open /\ cloned.active = u.active
        /\ cloned.sound => SameNames(u.nodes, cloned.nodes)
    BY <1>2 DEF Made, Grown, Rest
  <2>2. ASSUME cloned.sound
        PROVE  /\ k \in Nat /\ clone = k + 1 /\ DOMAIN u.nodes = 1 .. k /\ DOMAIN cloned.nodes = 1 .. k + 1
               /\ cloned.nodes[k + 1].tag = u.nodes[node].tag /\ cloned.nodes[k + 1].ns = u.nodes[node].ns
               /\ u.nodes[node].tag \notin Amended => cloned.nodes[k + 1].attrs = u.nodes[node].attrs
    BY <1>2, <2>2 DEF Made, Reclones
  <2> QED
    BY <2>1, <2>2
<1>4. ASSUME cloned.sound
      PROVE  /\ clone \in DOMAIN cloned.nodes /\ cloned.nodes[clone].tag \notin Fixed
             /\ \A i \in DOMAIN cloned.open : cloned.open[i] # clone
             /\ \A i \in DOMAIN cloned.active : cloned.active[i] # clone
             /\ entry + 1 \in DOMAIN cloned.active /\ place + 1 \in DOMAIN cloned.open
             /\ place + 1 > Len(F.base) /\ place + 1 # 1 /\ clone # Marker
             /\ cloned.active[entry + 1] = cloned.open[place + 1] /\ Twins(cloned.nodes, cloned.open[place + 1], clone)
  <2> DEFINE k == Len(u.nodes)
  <2>1. k \in Nat /\ clone = k + 1 /\ DOMAIN u.nodes = 1 .. k /\ DOMAIN cloned.nodes = 1 .. k + 1 /\ u.sound
    BY <1>3, <1>4
  <2> HIDE DEF k
  <2>2. OpenOK(u.nodes, u.open, F.root) /\ ActiveOK(u.nodes, u.active)
    BY <1>1, <2>1, HeldFacts
  <2>3. clone \notin DOMAIN u.nodes /\ clone # Marker /\ clone \in DOMAIN cloned.nodes
    BY <2>1 DEF Marker
  <2>4. \A i \in DOMAIN u.open : u.open[i] \in DOMAIN u.nodes
    BY <2>2 DEF OpenOK
  <2>5. \A i \in DOMAIN u.active : u.active[i] \in DOMAIN u.nodes \union {Marker}
    BY <2>2 DEF ActiveOK
  <2>6. place + 1 > Len(F.base) /\ place + 1 # 1 /\ place + 1 \in DOMAIN u.open
    <3>1. Between(u.open, Len(F.base), place + 1, formatting, block) /\ u.open[place + 1] # formatting
      BY <1>1, <2>1
    <3>2. (place + 1) - 1 > Len(F.base) /\ place + 1 # 1
      BY <2>2, <3>1, BetweenBelow
    <3>3. Len(F.base) \in Nat /\ place + 1 \in DOMAIN u.open
      BY <3>1 DEF Between
    <3> QED
      BY <1>1, <3>2, <3>3
  <2>7. node \in DOMAIN u.nodes /\ u.nodes[node].tag \notin Unlisted /\ u.nodes[node].tag \notin Fixed
        /\ u.nodes[node].tag \notin Amended
    BY <1>1, <2>1 DEF Unlisted
  <2>8. Twins(cloned.nodes, node, clone)
    <3>1. SameNames(u.nodes, cloned.nodes)
      BY <1>3, <1>4
    <3>2. /\ cloned.nodes[node].tag = u.nodes[node].tag /\ cloned.nodes[node].ns = u.nodes[node].ns
          /\ cloned.nodes[node].attrs = u.nodes[node].attrs
      BY <2>7, <3>1 DEF SameNames
    <3> QED
      BY <1>3, <1>4, <2>7, <3>2 DEF Twins
  <2>9. cloned.active[entry + 1] = node /\ cloned.open[place + 1] = node
    BY <1>1, <1>3, <2>1
  <2>10. cloned.nodes[clone].tag \notin Fixed
    BY <1>3, <1>4, <2>7
  <2> QED
    BY <1>1, <1>3, <1>4, <2>1, <2>3, <2>4, <2>5, <2>6, <2>8, <2>9, <2>10
<1>5. K(entered, F)
  <2> DEFINE e == entry + 1
             p == place + 1
  <2>1. entered = [cloned EXCEPT !.active[e] = clone, !.open[p] = clone]
    BY DEF Reclones
  <2>2. cloned.sound =>
          /\ clone \in DOMAIN cloned.nodes /\ cloned.nodes[clone].tag \notin Fixed
          /\ \A i \in DOMAIN cloned.open : cloned.open[i] # clone
          /\ \A i \in DOMAIN cloned.active : cloned.active[i] # clone
          /\ e \in DOMAIN cloned.active /\ p \in DOMAIN cloned.open /\ p > Len(F.base) /\ p # 1
          /\ cloned.active[e] = cloned.open[p] /\ Twins(cloned.nodes, cloned.open[p], clone)
    BY <1>4
  <2> HIDE DEF e, p
  <2>3. K([cloned EXCEPT !.active[e] = clone, !.open[p] = clone], F)
    BY <1>2, <2>2, EnteredK
  <2> QED
    BY <2>1, <2>3
<1>6. entered.nodes = cloned.nodes /\ entered.open = [cloned.open EXCEPT ![place + 1] = clone]
      /\ entered.sound = cloned.sound /\ entered.active = [cloned.active EXCEPT ![entry + 1] = clone]
  BY <1>3 DEF Rec, StateFields, Reclones
<1>7. Rec(entered) /\ (entered.sound => Sound(entered.nodes))
  BY <1>5, KIsRooted DEF Rooted
<1>8. entered.sound => w.last \in DOMAIN entered.nodes
  BY <1>1, <1>3, <1>6 DEF SameNames
<1>9. Linking(entered, d)
  BY <1>7, <1>8, DetachedLinks
<1> HIDE DEF d
<1>10. Rec(d) /\ (d.sound => entered.sound) /\ (d.sound => Sound(d.nodes) /\ DOMAIN d.nodes = DOMAIN entered.nodes)
  BY <1>9, LinkingFacts
<1>11. d.sound => clone \in DOMAIN d.nodes /\ w.last \in DOMAIN d.nodes
  BY <1>4, <1>6, <1>8, <1>10
<1>13. Linking(d, t)
  BY <1>10, <1>11, AppendedLinks
<1>14. Linking(entered, t)
  BY <1>9, <1>13, LinkingTwice
<1> HIDE DEF t
<1>15. K(t, F)
  BY <1>5, <1>14, LinkingK
<1>16. /\ (t.sound => entered.sound) /\ t.open = entered.open /\ t.active = entered.active
       /\ t.sound => DOMAIN t.nodes = DOMAIN entered.nodes /\ SameNames(entered.nodes, t.nodes)
  BY <1>14, LinkingFacts
<1>17. ASSUME t.sound
       PROVE  /\ s.sound /\ SameNames(s.nodes, t.nodes) /\ clone \in DOMAIN t.nodes
              /\ Between(t.open, Len(F.base), Below13(v) + 1, formatting, block)
              /\ Bookmarked(t.active, formatting, v.bookmark)
  <2>1. entered.sound /\ cloned.sound /\ u.sound
    BY <1>3, <1>6, <1>16, <1>17
  <2>2. SameNames(s.nodes, t.nodes)
    <3>1. SameNames(s.nodes, u.nodes) /\ SameNames(u.nodes, cloned.nodes) /\ SameNames(cloned.nodes, t.nodes)
      BY <1>1, <1>3, <1>6, <1>16, <1>17, <2>1
    <3>2. SameNames(s.nodes, cloned.nodes)
      BY <3>1, SameNamesStay
    <3> QED
      BY <3>1, <3>2, SameNamesStay
  <2>3. /\ OpenOK(u.nodes, u.open, F.root) /\ Between(u.open, Len(F.base), place + 1, formatting, block)
        /\ u.open[place + 1] # formatting
    BY <1>1, <2>1
  <2> DEFINE open == [u.open EXCEPT ![place + 1] = clone]
  <2>4. Between(open, Len(F.base), (place + 1) - 1, formatting, block)
    BY <2>3, BetweenReplaced
  <2>5. t.open = open /\ OpenOK(t.nodes, t.open, F.root)
    BY <1>3, <1>6, <1>15, <1>16, <1>17, HeldFacts
  <2>6. place + 1 \in DOMAIN open /\ open[place + 1] = clone
    BY <2>3 DEF Between
  <2> HIDE DEF open
  <2>7. IndexOf(t.open, clone) = (place + 1) - 1 /\ In(t.open, clone)
    <3>1. t.open \in Seq(DOMAIN t.nodes)
      BY <2>5 DEF OpenOK
    <3>2. \A j \in DOMAIN t.open : t.open[j] = clone => j = place + 1
      BY <2>5, <2>6 DEF OpenOK
    <3> QED
      BY <2>5, <2>6, <3>1, <3>2, IndexOfPlace DEF In
  <2>8. Below13(v) + 1 = (place + 1) - 1
    BY <1>0, <1>1, <2>7 DEF Below13
  <2>9. Bookmarked(t.active, formatting, v.bookmark)
    <3>1. /\ ActiveOK(u.nodes, u.active) /\ Segmented(u.open, u.active)
          /\ Bookmarked(u.active, formatting, w.bookmark)
          /\ entry + 1 \in DOMAIN u.active /\ u.active[entry + 1] = u.open[place + 1]
      BY <1>1, <2>1, HeldFacts
    <3>2. Bookmarked(u.active, formatting, entry + 1)
      BY <2>3, <3>1, BookmarkedEntry
    <3>3. Bookmarked(u.active, formatting, bookmark)
      BY <3>1, <3>2
    <3>4. clone # Marker /\ u.active[entry + 1] # formatting
      BY <1>4, <2>1, <2>3, <3>1
    <3>5. Bookmarked([u.active EXCEPT ![entry + 1] = clone], formatting, bookmark)
      BY <3>1, <3>3, <3>4, BookmarkedReplaced
    <3> QED
      BY <1>0, <1>3, <1>6, <1>16, <3>5
  <2> QED
    BY <1>1, <1>4, <1>6, <1>16, <1>17, <2>1, <2>2, <2>4, <2>5, <2>8, <2>9
<1> QED
  BY <1>0, <1>1, <1>15, <1>17 DEF Walking

LEMMA VisitedWalks ==
  ASSUME NEW w, NEW s, NEW F, NEW formatting, NEW block, Walking(w, s, F, formatting, block),
         w.state.open[Below13(w) + 1] # formatting
  PROVE  Walking(Visited(w, formatting, block), s, F, formatting, block)
<1> DEFINE u == Claimed(w)
           place == Below13(w)
           node == u.open[place + 1]
           entry == IndexOf(u.active, node)
           step == [w EXCEPT !.state = u, !.node = node, !.saved = place, !.count = @ + 1]
           cloned == Cloned(u, node)
           clone == Len(cloned.nodes)
           entered == [cloned EXCEPT !.active[entry + 1] = clone, !.open[place + 1] = clone]
           moved == Appended(Detached(entered, w.last), clone, w.last)
           dropped == [step EXCEPT !.state = [u EXCEPT !.active = RemoveAt(@, entry)],
                                   !.bookmark = IF entry < @ THEN @ - 1 ELSE @]
           taken == [step EXCEPT !.state = [u EXCEPT !.open = RemoveAt(@, place)]]
           replaced == [step EXCEPT !.state = moved, !.node = clone, !.last = clone,
                                    !.bookmark = IF w.last = block THEN entry + 1 ELSE @]
<1>1. Visit(w, u, place, node, entry) /\ Reclones(u, place, node, entry, cloned, clone, entered)
  BY DEF Visit, Reclones
<1>2. Visited(w, formatting, block) = CASE entry # -1 /\ step.count > 3 -> dropped
                                        [] entry = -1 -> taken
                                        [] OTHER -> replaced
  BY DEF Visited, Claimed, Cloned
<1>3. place \in Int /\ entry \in Int /\ DOMAIN w = WalkFields /\ w.bookmark \in Int
  BY ClaimedFacts DEF Walking
<1> HIDE DEF u, place, node, entry, cloned, clone, entered, moved
<1>4. Leaves(dropped, [u EXCEPT !.active = RemoveAt(@, entry)], place, node, w.last,
             IF entry < w.bookmark THEN w.bookmark - 1 ELSE w.bookmark)
  <2> DEFINE t == [u EXCEPT !.active = RemoveAt(@, entry)]
  <2> HIDE DEF t
  <2>1. Leaves([step EXCEPT !.state = t, !.bookmark = IF entry < @ THEN @ - 1 ELSE @], t, place, node, w.last,
               IF entry < w.bookmark THEN w.bookmark - 1 ELSE w.bookmark)
    BY <1>3 DEF Leaves, WalkFields
  <2> QED
    BY <2>1 DEF t
<1>5. Leaves(taken, [u EXCEPT !.open = RemoveAt(@, place)], place, node, w.last, w.bookmark)
  <2> DEFINE t == [u EXCEPT !.open = RemoveAt(@, place)]
  <2> HIDE DEF t
  <2>1. Leaves([step EXCEPT !.state = t], t, place, node, w.last, w.bookmark)
    BY <1>3 DEF Leaves, WalkFields
  <2> QED
    BY <2>1 DEF t
<1>6. Leaves(replaced, moved, place, clone, clone, IF w.last = block THEN entry + 1 ELSE w.bookmark)
  BY <1>3 DEF Leaves, WalkFields
<1> DEFINE count == step.count
<1>7. count = step.count
  OBVIOUS
<1> HIDE DEF step, dropped, taken, replaced, count
<1>8. CASE entry # -1 /\ count > 3
  <2>1. Visited(w, formatting, block) = dropped
    BY <1>2, <1>7, <1>8
  <2>2. Walking(dropped, s, F, formatting, block)
    BY <1>1, <1>4, <1>8, DroppedFromList
  <2> QED
    BY <2>1, <2>2
<1>9. CASE entry = -1
  <2>1. Visited(w, formatting, block) = taken
    BY <1>2, <1>9
  <2>2. Walking(taken, s, F, formatting, block)
    BY <1>1, <1>5, DroppedFromStack
  <2> QED
    BY <2>1, <2>2
<1>10. CASE entry # -1 /\ ~(count > 3)
  <2>1. Visited(w, formatting, block) = replaced
    BY <1>2, <1>7, <1>10
  <2>2. Walking(replaced, s, F, formatting, block)
    <3>1. Leaves(replaced, Appended(Detached(entered, w.last), clone, w.last), place, clone, clone,
                 IF w.last = block THEN entry + 1 ELSE w.bookmark)
      BY <1>6 DEF moved
    <3>2. (IF w.last = block THEN entry + 1 ELSE w.bookmark) \in {w.bookmark, entry + 1}
      OBVIOUS
    <3> QED
      BY <1>1, <1>10, <3>1, <3>2, Recloned
  <2> QED
    BY <2>1, <2>2
<1> QED
  BY <1>8, <1>9, <1>10

\* A step of the walk, which stays where it has arrived.
WalkedOn(w, formatting, block) ==
  IF w.state.open[Below13(w) + 1] = formatting THEN w ELSE Visited(w, formatting, block)

Walks(g, s, formatting, block, n) ==
  g = [i \in 0 .. n |-> IF i = 0 THEN WalkFrom(s, formatting, block) ELSE WalkedOn(g[i - 1], formatting, block)]

LEMMA WalksExist ==
  ASSUME NEW s, NEW formatting, NEW block, NEW n \in Nat
  PROVE  \E g : Walks(g, s, formatting, block, n)
<1> DEFINE T == {i \in 0 .. n : \E g : Walks(g, s, formatting, block, i)}
<1>1. 0 \in T
  <2> DEFINE g == [i \in 0 .. 0 |-> WalkFrom(s, formatting, block)]
  <2>1. Walks(g, s, formatting, block, 0)
    BY DEF Walks
  <2> QED
    BY <2>1
<1>2. ASSUME NEW i \in 0 .. n - 1, i \in T
      PROVE  i + 1 \in T
  <2>1. PICK g : Walks(g, s, formatting, block, i)
    BY <1>2
  <2> DEFINE h == [k \in 0 .. i + 1 |-> IF k = i + 1 THEN WalkedOn(g[i], formatting, block) ELSE g[k]]
  <2>2. i + 1 \in 0 .. n
    OBVIOUS
  <2>3. ASSUME NEW k \in 0 .. i + 1
        PROVE  h[k] = IF k = 0 THEN WalkFrom(s, formatting, block) ELSE WalkedOn(h[k - 1], formatting, block)
    <3>1. CASE k = i + 1
      <4>1. k - 1 = i /\ i \in 0 .. i + 1 /\ i # i + 1 /\ k # 0
        BY <3>1
      <4>2. h[k] = WalkedOn(g[i], formatting, block) /\ h[i] = g[i]
        BY <3>1, <4>1
      <4> QED
        BY <4>1, <4>2
    <3>2. CASE k # i + 1
      <4>1. k \in 0 .. i /\ (k # 0 => k - 1 \in 0 .. i + 1 /\ k - 1 # i + 1)
        BY <3>2
      <4>2. g[k] = IF k = 0 THEN WalkFrom(s, formatting, block) ELSE WalkedOn(g[k - 1], formatting, block)
        BY <2>1, <4>1 DEF Walks
      <4>3. k # 0 => h[k - 1] = g[k - 1]
        BY <4>1
      <4>4. h[k] = g[k]
        BY <3>2
      <4> QED
        BY <4>2, <4>3, <4>4
    <3> QED
      BY <3>1, <3>2
  <2>4. h = [k \in 0 .. i + 1 |-> h[k]]
    OBVIOUS
  <2> HIDE DEF h
  <2>5. Walks(h, s, formatting, block, i + 1)
    BY <2>3, <2>4 DEF Walks
  <2> QED
    BY <2>2, <2>5
<1> HIDE DEF T
<1>3. 0 .. n \subseteq T
  BY <1>1, <1>2, InductionUpTo
<1>4. n \in 0 .. n
  OBVIOUS
<1>5. n \in T
  BY <1>3, <1>4
<1> QED
  BY <1>5 DEF T

\* The walk begins at the block, which stands above the formatting element.
LEMMA WalkBegins ==
  ASSUME NEW s, NEW F, K(s, F), F.stop, NEW formatting, NEW block, NEW f, NEW b,
         s.sound => /\ f \in DOMAIN s.open /\ b \in DOMAIN s.open /\ s.open[f] = formatting /\ s.open[b] = block
                    /\ f < b /\ f > Len(F.base)
                    /\ \E i \in DOMAIN s.active :
                         s.active[i] = formatting /\ \A k \in DOMAIN s.active : s.active[k] = Marker => k < i
  PROVE  Walking(WalkFrom(s, formatting, block), s, F, formatting, block)
<1> DEFINE w == WalkFrom(s, formatting, block)
<1>1. DOMAIN w = WalkFields /\ w.state = s /\ w.node = block /\ w.last = block /\ w.saved = IndexOf(s.open, block)
      /\ w.bookmark = IndexOf(s.active, formatting) + 1
  BY DEF WalkFrom, WalkFields
<1> HIDE DEF w
<1>2. IndexOf(s.active, formatting) \in Int /\ IndexOf(s.open, block) \in Int
  BY VectorIndex DEF K, Rec
<1>3. ASSUME s.sound
      PROVE  /\ SameNames(s.nodes, s.nodes) /\ block \in DOMAIN s.nodes
             /\ Between(s.open, Len(F.base), Below13(w) + 1, formatting, block)
             /\ Bookmarked(s.active, formatting, w.bookmark)
  <2>1. /\ OpenOK(s.nodes, s.open, F.root) /\ Len(s.open) \in Nat /\ DOMAIN s.open = 1 .. Len(s.open)
        /\ \A i \in DOMAIN s.open : s.open[i] \in DOMAIN s.nodes
    BY <1>3, HeldFacts
  <2>2. Len(F.base) \in Nat /\ Len(F.base) >= 1
    BY <1>3, BaseFacts DEF Based
  <2>3. \A j \in DOMAIN s.open : s.open[j] = block => j = b
    BY <1>3, <2>1 DEF OpenOK
  <2>4. IndexOf(s.open, block) = b - 1 /\ In(s.open, block)
    BY <1>3, <2>1, <2>3, IndexOfPlace DEF OpenOK, In
  <2>5. Below13(w) = b - 1 - 1
    BY <1>1, <2>4 DEF Below13
  <2>6. Below13(w) + 1 = b - 1
    BY <1>3, <2>1, <2>5
  <2>7. b - 1 \in DOMAIN s.open /\ f <= b - 1 /\ b > b - 1
    <3> DEFINE k == Len(s.open)
    <3>1. k \in Nat /\ f \in 1 .. k /\ b \in 1 .. k /\ f < b
      BY <1>3, <2>1
    <3>2. DOMAIN s.open = 1 .. k
      BY <2>1
    <3> HIDE DEF k
    <3> QED
      BY <3>1, <3>2
  <2>8. Between(s.open, Len(F.base), b - 1, formatting, block)
    BY <1>3, <2>2, <2>7 DEF Between
  <2>9. Bookmarked(s.active, formatting, w.bookmark)
    <3>1. PICK i \in DOMAIN s.active :
             s.active[i] = formatting /\ \A k \in DOMAIN s.active : s.active[k] = Marker => k < i
      BY <1>3
    <3>2. /\ s.active \in Seq(DOMAIN s.nodes \union {Marker}) /\ Marker \notin DOMAIN s.nodes
          /\ \A j, k \in DOMAIN s.active : s.active[j] # Marker /\ s.active[j] = s.active[k] => j = k
      BY <1>3, HeldFacts, MarkerIsNoNode DEF ActiveOK
    <3>3. \A j \in DOMAIN s.active : s.active[j] = formatting => j = i
      BY <1>3, <2>1, <3>1, <3>2
    <3>4. IndexOf(s.active, formatting) = i - 1 /\ DOMAIN s.active \subseteq Nat
      BY <3>1, <3>2, <3>3, IndexOfPlace
    <3>5. w.bookmark = i
      BY <1>1, <3>4
    <3> QED
      BY <3>1, <3>4, <3>5 DEF Bookmarked
  <2> QED
    BY <1>3, <2>1, <2>6, <2>8, <2>9 DEF SameNames
<1>4. Walking(w, s, F, formatting, block)
  BY <1>1, <1>2, <1>3 DEF Walking
<1> QED
  BY <1>4 DEF w

LEMMA WalkedWalks ==
  ASSUME NEW s, NEW F, NEW formatting, NEW block, Rec(s),
         Walking(WalkFrom(s, formatting, block), s, F, formatting, block)
  PROVE  Walking(Walked(s, formatting, block), s, F, formatting, block)
<1> DEFINE n == Len(s.open)
           g == CHOOSE h : Walks(h, s, formatting, block, n)
<1>1. n \in Nat
  BY VectorIs DEF Rec
<1>2. Walks(g, s, formatting, block, n)
  BY <1>1, WalksExist
<1>3. Walked(s, formatting, block) = g[n]
  BY DEF Walked, Walks, WalkedOn
<1> HIDE DEF g, n
<1> DEFINE T == {i \in 0 .. n : Walking(g[i], s, F, formatting, block)}
<1>4. 0 \in T
  <2>1. g[0] = WalkFrom(s, formatting, block)
    BY <1>1, <1>2 DEF Walks
  <2> QED
    BY <1>1, <2>1
<1>5. ASSUME NEW i \in 0 .. n - 1, i \in T
      PROVE  i + 1 \in T
  <2>1. i + 1 \in 0 .. n /\ i + 1 # 0 /\ (i + 1) - 1 = i
    BY <1>1
  <2>2. g[i + 1] = WalkedOn(g[i], formatting, block)
    BY <1>2, <2>1 DEF Walks
  <2>3. Walking(g[i], s, F, formatting, block)
    BY <1>5
  <2>4. Walking(WalkedOn(g[i], formatting, block), s, F, formatting, block)
    BY <2>3, VisitedWalks DEF WalkedOn
  <2> QED
    BY <2>1, <2>2, <2>4
<1> HIDE DEF T
<1>6. 0 .. n \subseteq T
  BY <1>1, <1>4, <1>5, InductionUpTo
<1>7. n \in 0 .. n
  BY <1>1
<1>8. n \in T
  BY <1>6, <1>7
<1> QED
  BY <1>3, <1>8 DEF T

-----------------------------------------------------------------------------
(* The adoption agency: the clone of the formatting element enters both lists. *)

\* The clone's entry goes behind every marker.
LEMMA RelistedOrder ==
  ASSUME NEW nodes, NEW active, ActiveOK(nodes, active), NEW entry \in 0 .. Len(active) - 1,
         active[entry + 1] # Marker, NEW index \in 0 .. Len(active) - 1,
         NEW n \in DOMAIN nodes, n # Marker, Twins(nodes, active[entry + 1], n), \A i \in DOMAIN active : active[i] # n,
         \A k \in DOMAIN active : active[k] = Marker => k <= entry /\ k <= index
  PROVE  LET w == InsertAt(RemoveAt(active, entry), index, n)
         IN  \A k, i, j \in DOMAIN w : w[k] = Marker /\ i < k /\ k < j =>
               /\ k \in DOMAIN active /\ active[k] = Marker /\ k < entry + 1
               /\ i \in DOMAIN active /\ w[i] = active[i]
               /\ w[j] = n \/ \E m \in DOMAIN active : k < m /\ w[j] = active[m]
<1> DEFINE w == InsertAt(RemoveAt(active, entry), index, n)
<1>1. /\ ActiveOK(nodes, w) /\ index + 1 \in DOMAIN w /\ w[index + 1] = n
      /\ \A j \in DOMAIN w : j # index + 1 =>
           LET i == Back(entry, Fore(index, j)) IN i \in DOMAIN active /\ i # entry + 1 /\ w[j] = active[i]
      /\ \A j \in DOMAIN w : w[j] = Marker => j <= index
  BY ActiveRelisted
<1>2. Len(active) \in Nat /\ DOMAIN active \subseteq Nat
  BY LenProperties DEF ActiveOK
<1>3. entry \in Nat /\ index \in Nat
  BY <1>2
<1> HIDE DEF w
<1>4. DOMAIN w \subseteq Nat
  BY <1>1, LenProperties DEF ActiveOK
<1> SUFFICES ASSUME NEW k \in DOMAIN w, NEW i \in DOMAIN w, NEW j \in DOMAIN w, w[k] = Marker, i < k, k < j
             PROVE  /\ k \in DOMAIN active /\ active[k] = Marker /\ k < entry + 1
                    /\ i \in DOMAIN active /\ w[i] = active[i]
                    /\ w[j] = n \/ \E m \in DOMAIN active : k < m /\ w[j] = active[m]
  BY DEF w
<1>5. k \in Nat /\ i \in Nat /\ j \in Nat /\ k <= index
  BY <1>1, <1>4
<1>6. k # index + 1 /\ i # index + 1 /\ Fore(index, k) = k /\ Fore(index, i) = i
  BY <1>3, <1>5 DEF Fore
<1>7. Back(entry, k) \in DOMAIN active /\ active[Back(entry, k)] = Marker
  BY <1>1, <1>6
<1>8. Back(entry, k) <= entry
  BY <1>7
<1>9. k <= entry /\ Back(entry, k) = k /\ Back(entry, i) = i
  BY <1>3, <1>5, <1>8 DEF Back
<1>10. k \in DOMAIN active /\ active[k] = Marker /\ i \in DOMAIN active /\ w[i] = active[i]
  BY <1>1, <1>6, <1>7, <1>9
<1>11. CASE j = index + 1
  BY <1>1, <1>3, <1>5, <1>9, <1>10, <1>11
<1>12. CASE j # index + 1
  <2>1. Back(entry, Fore(index, j)) \in DOMAIN active /\ w[j] = active[Back(entry, Fore(index, j))]
    BY <1>1, <1>12
  <2>2. k < Back(entry, Fore(index, j))
    BY <1>3, <1>5, <1>12 DEF Back, Fore
  <2> QED
    BY <1>3, <1>5, <1>9, <1>10, <2>1, <2>2
<1> QED
  BY <1>11, <1>12

\* The places of a stack from which one element was taken and into which one was put, one place lower
\* than where an element above the first stood.
LEMMA RestackedOrder ==
  ASSUME NEW nodes, NEW open, NEW root, OpenOK(nodes, open, root), NEW x \in DOMAIN open, NEW y \in DOMAIN open, x < y,
         NEW n \in DOMAIN nodes
  PROVE  LET st == InsertAt(RemoveAt(open, x - 1), y - 1, n)
         IN  \E From :
               /\ \A a \in DOMAIN st : a # y => From[a] \in DOMAIN open /\ st[a] = open[From[a]]
               /\ \A a \in DOMAIN st : a # y /\ From[a] < x => a < y
               /\ \A a, b \in DOMAIN st : a # y /\ b # y /\ From[a] < From[b] => a < b
               /\ y \in DOMAIN st /\ st[y] = n
<1> DEFINE S == DOMAIN nodes
           left == RemoveAt(open, x - 1)
           st == InsertAt(left, y - 1, n)
           k == Len(open)
<1>1. open \in Seq(S) /\ k \in Nat /\ DOMAIN open = 1 .. k
  BY LenProperties DEF OpenOK
<1> HIDE DEF S
<1> DEFINE p == x - 1
           q == y - 1
<1>2. p \in Nat /\ q \in Nat /\ p < q /\ p \in 0 .. k - 1 /\ q \in 0 .. k - 1 /\ x = p + 1 /\ y = q + 1
  BY <1>1
<1>3. left = RemoveAt(open, p) /\ st = InsertAt(left, q, n)
  OBVIOUS
<1> HIDE DEF left, st, k, p, q
<1>4. /\ left \in Seq(S) /\ Len(left) = k - 1 /\ DOMAIN left = 1 .. k - 1
      /\ \A j \in DOMAIN left : Back(p, j) \in DOMAIN open /\ left[j] = open[Back(p, j)]
  BY <1>1, <1>2, <1>3, RemoveAtIs DEF k
<1>5. /\ DOMAIN st = 1 .. k /\ q + 1 \in DOMAIN st /\ st[q + 1] = n
      /\ \A j \in DOMAIN st : j # q + 1 => Fore(q, j) \in DOMAIN left /\ st[j] = left[Fore(q, j)]
  <2>1. n \in S /\ q \in 0 .. Len(left)
    BY <1>1, <1>2, <1>4 DEF S
  <2>2. /\ Len(st) = Len(left) + 1 /\ DOMAIN st = 1 .. Len(left) + 1 /\ q + 1 \in DOMAIN st
        /\ InsertionIs(st, S, left, q, n)
    <3> DEFINE w == InsertAt(left, q, n)
    <3>1. left \in Seq(S)
      BY <1>4
    <3>2. /\ Len(w) = Len(left) + 1 /\ DOMAIN w = 1 .. Len(left) + 1 /\ q + 1 \in DOMAIN w
          /\ InsertionIs(w, S, left, q, n)
      <4> HIDE DEF InsertionIs
      <4> QED
        BY <2>1, <3>1, InsertAtIs
    <3>3. st = w
      BY <1>3
    <3> HIDE DEF w
    <3> QED
      BY <3>2, <3>3
  <2> QED
    BY <1>1, <1>4, <2>2 DEF InsertionIs
<1> DEFINE From == [a \in DOMAIN st |-> Back(p, Fore(q, a))]
<1>6. \A a \in DOMAIN st : From[a] = Back(p, Fore(q, a)) /\ a \in Nat
  BY <1>5
<1> HIDE DEF From
<1>7. \A a \in DOMAIN st : a # y => From[a] \in DOMAIN open /\ st[a] = open[From[a]]
  BY <1>2, <1>4, <1>5, <1>6
<1>8. \A a \in DOMAIN st : a # y /\ From[a] < x => a < y
  BY <1>2, <1>6 DEF Back, Fore
<1>9. \A a, b \in DOMAIN st : a # y /\ b # y /\ From[a] < From[b] => a < b
  BY <1>2, <1>6 DEF Back, Fore
<1>10. y \in DOMAIN st /\ st[y] = n
  BY <1>2, <1>5
<1> QED
  BY <1>3, <1>7, <1>8, <1>9, <1>10 DEF left, st, p, q

\* The clone stands above the block, and with that above all that is listed before a marker.
LEMMA SegmentedRelisted ==
  ASSUME NEW nodes, NEW active, ActiveOK(nodes, active), NEW entry \in 0 .. Len(active) - 1,
         active[entry + 1] # Marker, NEW index \in 0 .. Len(active) - 1,
         NEW n \in DOMAIN nodes, n # Marker, Twins(nodes, active[entry + 1], n), \A i \in DOMAIN active : active[i] # n,
         \A k \in DOMAIN active : active[k] = Marker => k <= entry /\ k <= index,
         NEW open, NEW root, OpenOK(nodes, open, root), Segmented(open, active), \A a \in DOMAIN open : open[a] # n,
         NEW x \in DOMAIN open, NEW y \in DOMAIN open, x < y, open[x] = active[entry + 1]
  PROVE  LET w == InsertAt(RemoveAt(active, entry), index, n)
         IN  Segmented(open, w) /\ Segmented(InsertAt(RemoveAt(open, x - 1), y - 1, n), w)
<1> DEFINE w == InsertAt(RemoveAt(active, entry), index, n)
           st == InsertAt(RemoveAt(open, x - 1), y - 1, n)
<1>1. \A k, i, j \in DOMAIN w : w[k] = Marker /\ i < k /\ k < j =>
        /\ k \in DOMAIN active /\ active[k] = Marker /\ k < entry + 1
        /\ i \in DOMAIN active /\ w[i] = active[i]
        /\ w[j] = n \/ \E m \in DOMAIN active : k < m /\ w[j] = active[m]
  BY RelistedOrder
<1>2. PICK From :
        /\ \A a \in DOMAIN st : a # y => From[a] \in DOMAIN open /\ st[a] = open[From[a]]
        /\ \A a \in DOMAIN st : a # y /\ From[a] < x => a < y
        /\ \A a, b \in DOMAIN st : a # y /\ b # y /\ From[a] < From[b] => a < b
        /\ y \in DOMAIN st /\ st[y] = n
  BY RestackedOrder
<1> HIDE DEF w, st
<1>3. entry + 1 \in DOMAIN active
  <2> DEFINE k == Len(active)
  <2>1. k \in Nat /\ DOMAIN active = 1 .. k /\ entry \in 0 .. k - 1
    BY LenProperties DEF ActiveOK
  <2> HIDE DEF k
  <2> QED
    BY <2>1
<1>4. Segmented(open, w)
  <2> SUFFICES ASSUME NEW k \in DOMAIN w, w[k] = Marker, NEW i \in DOMAIN w, NEW j \in DOMAIN w, i < k, k < j,
                      NEW a \in DOMAIN open, NEW b \in DOMAIN open, w[i] = open[a], w[j] = open[b]
               PROVE  a < b
    BY DEF Segmented
  <2>1. k \in DOMAIN active /\ active[k] = Marker /\ i \in DOMAIN active /\ active[i] = open[a]
    BY <1>1
  <2>2. PICK m \in DOMAIN active : k < m /\ w[j] = active[m]
    BY <1>1
  <2> QED
    BY <2>1, <2>2 DEF Segmented
<1>5. Segmented(st, w)
  <2> SUFFICES ASSUME NEW k \in DOMAIN w, w[k] = Marker, NEW i \in DOMAIN w, NEW j \in DOMAIN w, i < k, k < j,
                      NEW a \in DOMAIN st, NEW b \in DOMAIN st, w[i] = st[a], w[j] = st[b]
               PROVE  a < b
    BY DEF Segmented
  <2>1. /\ k \in DOMAIN active /\ active[k] = Marker /\ k < entry + 1
        /\ i \in DOMAIN active /\ w[i] = active[i]
    BY <1>1
  <2>2. a # y
    BY <1>2, <2>1
  <2>3. From[a] \in DOMAIN open /\ active[i] = open[From[a]]
    BY <1>2, <2>1, <2>2
  <2>4. CASE w[j] = n
    <3>1. b = y
      BY <1>2, <2>4
    <3>2. From[a] < x
      BY <1>3, <2>1, <2>3 DEF Segmented
    <3> QED
      BY <1>2, <2>2, <3>1, <3>2
  <2>5. CASE \E m \in DOMAIN active : k < m /\ w[j] = active[m]
    <3>1. PICK m \in DOMAIN active : k < m /\ w[j] = active[m]
      BY <2>5
    <3>2. b # y
      BY <1>2, <3>1
    <3>3. From[b] \in DOMAIN open /\ active[m] = open[From[b]]
      BY <1>2, <3>1, <3>2
    <3>4. From[a] < From[b]
      BY <2>1, <2>3, <3>1, <3>3 DEF Segmented
    <3> QED
      BY <1>2, <2>2, <3>2, <3>4
  <2> QED
    BY <1>1, <2>4, <2>5
<1> QED
  BY <1>4, <1>5 DEF w, st

LEMMA ActiveRelistedK ==
  ASSUME NEW s, NEW F, K(s, F), NEW entry \in Int, NEW index \in Int, NEW n,
         s.sound => /\ ActiveOK(s.nodes, InsertAt(RemoveAt(s.active, entry), index, n))
                    /\ Segmented(s.open, InsertAt(RemoveAt(s.active, entry), index, n))
  PROVE  K([s EXCEPT !.active = InsertAt(RemoveAt(@, entry), index, n)], F)
<1> DEFINE u == [s EXCEPT !.active = InsertAt(RemoveAt(@, entry), index, n)]
           w == InsertAt(RemoveAt(s.active, entry), index, n)
<1>1. Rest(s, u)
      /\ u.nodes = s.nodes /\ u.open = s.open /\ u.form = s.form /\ u.templateModes = s.templateModes
      /\ u.active = w /\ u.bufferType = s.bufferType
  <2>1. Vector(w)
    <3>1. Vector(RemoveAt(s.active, entry))
      BY VectorChanged DEF K, Rec
    <3> QED
      BY <3>1, VectorChanged
  <2> HIDE DEF w
  <2>2. u = [s EXCEPT !.active = w]
    BY DEF w
  <2> QED
    BY <2>1, <2>2 DEF K, Rest, Rec, StateFields
<1> HIDE DEF u, w
<1>2. ASSUME u.sound PROVE u.bufferType \in Texts /\ ActiveOK(s.nodes, u.active) /\ Segmented(s.open, u.active)
  BY <1>1, <1>2, HeldFacts DEF Rest, w
<1> QED
  BY <1>1, <1>2, KeptByActive DEF u

LEMMA OpenInsertedK ==
  ASSUME NEW s, NEW F, K(s, F), Based(F), NEW index \in Int, NEW n,
         s.sound => /\ index \in 1 .. Len(s.open) /\ index >= Len(F.base)
                    /\ n \in DOMAIN s.nodes /\ s.nodes[n].tag \notin Fixed
                    /\ \A i \in DOMAIN s.open : s.open[i] # n
                    /\ Segmented(InsertAt(s.open, index, n), s.active)
  PROVE  K([s EXCEPT !.open = InsertAt(@, index, n)], F)
<1> DEFINE u == [s EXCEPT !.open = InsertAt(@, index, n)]
           w == InsertAt(s.open, index, n)
<1>1. Vector(w)
  BY VectorChanged DEF K, Rec
<1>2. Rest(s, u) /\ u.nodes = s.nodes /\ u.active = s.active /\ u.form = s.form /\ u.templateModes = s.templateModes
      /\ u.bufferType = s.bufferType /\ u.open = w
  BY <1>1 DEF K, Rest, Rec, StateFields
<1> HIDE DEF u
<1>3. ASSUME u.sound
      PROVE  /\ u.bufferType \in Texts /\ NodesOK(u.nodes, F.root, F.head) /\ SameNames(s.nodes, u.nodes)
             /\ OpenOK(u.nodes, u.open, F.root) /\ Begins(u.open, F.base, F.head)
             /\ TemplatesIn(u.nodes, u.open) \subseteq TemplatesIn(s.nodes, s.open)
             /\ Segmented(u.open, s.active)
  <2>1. s.sound
    BY <1>2, <1>3 DEF Rest
  <2>2. /\ OpenOK(s.nodes, s.open, F.root) /\ NodesOK(s.nodes, F.root, F.head) /\ s.bufferType \in Texts
        /\ Begins(s.open, F.base, F.head) /\ Len(s.open) \in Nat /\ DOMAIN s.open = 1 .. Len(s.open)
        /\ Len(F.base) \in Nat /\ Len(F.base) <= Len(s.open)
    BY <2>1, HeldFacts
  <2>3. /\ index \in 1 .. Len(s.open) /\ n \in DOMAIN s.nodes /\ s.nodes[n].tag \notin Fixed
        /\ \A i \in DOMAIN s.open : s.open[i] # n
    BY <2>1
  <2>16. Segmented(w, s.active)
    BY <2>1
  <2>4. /\ OpenOK(s.nodes, w, F.root) /\ Len(w) = Len(s.open) + 1
        /\ index + 1 \in DOMAIN w /\ w[index + 1] = n
        /\ \A j \in DOMAIN w : j # index + 1 => Fore(index, j) \in DOMAIN s.open /\ w[j] = s.open[Fore(index, j)]
        /\ \A j \in 1 .. index : j \in DOMAIN w /\ w[j] = s.open[j]
    <3>1. OpenOK(s.nodes, s.open, F.root) /\ index \in 1 .. Len(s.open)
          /\ n \in DOMAIN s.nodes /\ \A i \in DOMAIN s.open : s.open[i] # n
      BY <2>2, <2>3
    <3> QED
      BY SMTT(40), <3>1, OpenInserted
  <2> DEFINE b == Len(F.base)
             k == Len(s.open)
  <2>5. b \in Nat /\ k \in Nat /\ index \in 1 .. k /\ b <= index
    BY <2>1, <2>2
  <2>6. w \in Seq(DOMAIN s.nodes)
    BY <2>4 DEF OpenOK
  <2> HIDE DEF w
  <2>7. DOMAIN w = 1 .. k + 1 /\ Len(w) = k + 1
    BY <2>4, <2>6, LenProperties
  <2>8. \A i \in 1 .. b : s.open[i] = F.base[i]
    BY <2>2 DEF Begins
  <2>9. \A i \in DOMAIN s.open : s.open[i] = F.head => i <= b
    BY <2>2 DEF Begins
  <2>10. n # F.head
    <3>1. NoNode \notin DOMAIN s.nodes
      BY <2>1, KIsRooted, StackFacts DEF NoNode
    <3> QED
      BY <2>2, <2>3, <3>1 DEF NodesOK, Fixed
  <2> HIDE DEF b, k
  <2>11. \A i \in 1 .. b : w[i] = F.base[i]
    BY <2>4, <2>5, <2>8
  <2>12. ASSUME NEW i \in DOMAIN w, w[i] = F.head PROVE i <= b
    <3>1. i # index + 1
      BY <2>4, <2>10, <2>12
    <3>2. Fore(index, i) <= b
      BY <2>4, <2>9, <2>12, <3>1
    <3> QED
      BY <2>5, <2>7, <3>1, <3>2 DEF Fore
  <2>13. b <= Len(w)
    BY <2>5, <2>7
  <2>14. Begins(w, F.base, F.head)
    BY <2>5, <2>11, <2>12, <2>13 DEF Begins, b
  <2>15. TemplatesIn(s.nodes, w) \subseteq TemplatesIn(s.nodes, s.open)
    <3>1. s.nodes[n].tag # "template"
      BY <2>3 DEF Fixed
    <3> QED
      BY <2>4, <3>1 DEF TemplatesIn, In
  <2> QED
    BY <1>2, <2>2, <2>3, <2>4, <2>14, <2>15, <2>16 DEF SameNames
<1>4. K(u, F)
  BY <1>2, <1>3, KeptByOpen
<1> QED
  BY <1>4 DEF u

\* Steps 18 and 19.
LEMMA RelistedK ==
  ASSUME NEW s, NEW F, K(s, F), F.stop, NEW formatting, NEW block, NEW mark \in Int,
         s.sound => /\ formatting \in DOMAIN s.nodes /\ s.nodes[formatting].tag \notin Fixed
                    /\ \E x, y \in DOMAIN s.open : x < y /\ s.open[x] = formatting /\ s.open[y] = block
                    /\ Bookmarked(s.active, formatting, mark)
                    /\ Newest(s) \in DOMAIN s.nodes /\ s.nodes[Newest(s)].tag \notin Fixed
                    /\ Twins(s.nodes, formatting, Newest(s))
                    /\ \A i \in DOMAIN s.active : s.active[i] # Newest(s)
                    /\ \A i \in DOMAIN s.open : s.open[i] # Newest(s)
  PROVE  K(Relisted(s, formatting, block, mark), F)
<1> DEFINE entry == IndexOf(s.active, formatting)
           bookmark == IF entry < mark THEN mark - 1 ELSE mark
           stack == Remove(s.open, formatting)
           place == IndexOf(stack, block) + 1
           new == Newest(s)
           holds == entry # -1 /\ bookmark \in 0 .. Len(s.active) - 1
           c == Claim(s, holds)
           u == Relisted(s, formatting, block, mark)
<1>1. u = [c EXCEPT !.active = InsertAt(RemoveAt(@, entry), bookmark, new), !.open = InsertAt(stack, place, new)]
  BY DEF Relisted
<1>2. holds \in BOOLEAN
  OBVIOUS
<1>3. entry \in Int /\ place \in Int /\ Vector(stack)
  <2>1. Vector(s.active) /\ Vector(s.open)
    BY DEF K, Rec
  <2>2. entry \in Int /\ Vector(stack)
    BY <2>1, VectorIndex
  <2> HIDE DEF stack
  <2>3. IndexOf(stack, block) \in Int
    BY <2>2, VectorIndex
  <2> QED
    BY <2>2, <2>3
<1>4. bookmark \in Int
  BY <1>3
<1>5. K(c, F) /\ (c.sound => s.sound /\ holds) /\ c.nodes = s.nodes /\ c.open = s.open /\ c.active = s.active
  <2> HIDE DEF holds
  <2>1. K(c, F) /\ (c.sound => s.sound /\ holds) /\ c.nodes = s.nodes /\ Grown(s, c)
    BY <1>2, ClaimK
  <2> QED
    BY <2>1 DEF Grown
<1>6. c.sound => entry \in 0 .. Len(s.active) - 1 /\ bookmark \in 0 .. Len(s.active) - 1
  <2>1. Vector(s.active)
    BY DEF K, Rec
  <2>2. entry >= -1 /\ entry <= Len(s.active) - 1
    BY <2>1, VectorIndex
  <2>3. c.sound => entry # -1 /\ bookmark \in 0 .. Len(s.active) - 1
    BY <1>5
  <2> HIDE DEF entry, bookmark
  <2>4. Len(s.active) \in Nat
    BY <2>1, VectorIs
  <2> QED
    BY <1>3, <2>2, <2>3, <2>4
<1> HIDE DEF c, u
<1> DEFINE w == InsertAt(RemoveAt(s.active, entry), bookmark, new)
<1>7. ASSUME c.sound
      PROVE  \E x, y \in DOMAIN s.open :
               /\ x < y /\ s.open[x] = formatting /\ s.open[y] = block
               /\ ActiveOK(s.nodes, w) /\ Segmented(s.open, w) /\ Segmented(InsertAt(RemoveAt(s.open, x - 1), y - 1, new), w)
  <2>1. s.sound /\ entry \in 0 .. Len(s.active) - 1 /\ bookmark \in 0 .. Len(s.active) - 1
    BY <1>5, <1>6, <1>7
  <2>2. PICK x, y \in DOMAIN s.open : x < y /\ s.open[x] = formatting /\ s.open[y] = block
    BY <2>1
  <2>3. /\ ActiveOK(s.nodes, s.active) /\ OpenOK(s.nodes, s.open, F.root) /\ Segmented(s.open, s.active)
        /\ Marker \notin DOMAIN s.nodes
    BY <2>1, HeldFacts, MarkerIsNoNode
  <2>4. s.active \in Seq(DOMAIN s.nodes \union {Marker}) /\ Len(s.active) \in Nat /\ DOMAIN s.active = 1 .. Len(s.active)
    BY <2>3, LenProperties DEF ActiveOK
  <2>5. PICK i \in DOMAIN s.active :
          s.active[i] = formatting /\ \A k \in DOMAIN s.active : s.active[k] = Marker => k < i
    BY <2>1 DEF Bookmarked
  <2>6. \A k \in DOMAIN s.active : s.active[k] = Marker => k <= mark
    BY <2>1 DEF Bookmarked
  <2>7. formatting # Marker
    BY <2>1, <2>3
  <2>8. \A j \in DOMAIN s.active : s.active[j] = formatting => j = i
    BY <2>3, <2>5, <2>7 DEF ActiveOK
  <2>9. entry = i - 1
    BY <2>4, <2>5, <2>8, IndexOfPlace
  <2> HIDE DEF entry
  <2>10. entry + 1 = i /\ i \in Nat
    BY <2>4, <2>9
  <2>11. ASSUME NEW k \in DOMAIN s.active, s.active[k] = Marker PROVE k <= entry /\ k <= bookmark
    <3>1. k \in Nat /\ k < i /\ k <= mark
      BY <2>4, <2>5, <2>6, <2>11
    <3> QED
      BY <1>3, <2>10, <3>1
  <2>12. /\ new \in DOMAIN s.nodes /\ new # Marker /\ Twins(s.nodes, s.active[entry + 1], new)
         /\ \A j \in DOMAIN s.active : s.active[j] # new
         /\ \A j \in DOMAIN s.open : s.open[j] # new
         /\ s.active[entry + 1] = formatting
    BY <2>1, <2>3, <2>5, <2>10
  <2> HIDE DEF bookmark, new
  <2>13. ActiveOK(s.nodes, w)
    BY <2>1, <2>3, <2>7, <2>11, <2>12, ActiveRelisted
  <2>14. Segmented(s.open, w) /\ Segmented(InsertAt(RemoveAt(s.open, x - 1), y - 1, new), w)
    BY <2>1, <2>2, <2>3, <2>7, <2>11, <2>12, SegmentedRelisted
  <2> QED
    BY <2>2, <2>13, <2>14
<1> HIDE DEF entry, bookmark
<1> DEFINE e == [c EXCEPT !.active = InsertAt(RemoveAt(@, entry), bookmark, new)]
<1>10. K(e, F)
  BY <1>3, <1>4, <1>5, <1>7, ActiveRelistedK
<1>11. e.nodes = s.nodes /\ e.open = s.open /\ e.sound = c.sound /\ e.active = w
  BY <1>5 DEF K, Rec, StateFields
<1> HIDE DEF e, w
<1> DEFINE f == [e EXCEPT !.open = Remove(@, formatting)]
<1>13. K(f, F)
  BY <1>5, <1>10, <1>11, TakenFromOpenK
<1>14. f.nodes = s.nodes /\ f.open = stack /\ f.sound = c.sound /\ f.active = w
  BY <1>10, <1>11 DEF K, Rec, StateFields
<1>15. f = [c EXCEPT !.active = InsertAt(RemoveAt(@, entry), bookmark, new), !.open = Remove(@, formatting)]
  BY <1>5, <1>10 DEF e, K, Rec, StateFields
<1> HIDE DEF f
<1>16. ASSUME f.sound
       PROVE  /\ place \in 1 .. Len(f.open) /\ place >= Len(F.base)
              /\ new \in DOMAIN f.nodes /\ f.nodes[new].tag \notin Fixed
              /\ \A i \in DOMAIN f.open : f.open[i] # new
              /\ Segmented(InsertAt(f.open, place, new), f.active)
  <2>1. s.sound /\ c.sound
    BY <1>5, <1>14, <1>16
  <2>2. /\ OpenOK(s.nodes, s.open, F.root) /\ Begins(s.open, F.base, F.head)
        /\ Len(s.open) \in Nat /\ DOMAIN s.open = 1 .. Len(s.open)
    BY <2>1, HeldFacts
  <2>3. OpenOK(s.nodes, stack, F.root) /\ Begins(stack, F.base, F.head)
    BY <1>13, <1>14, <1>16, HeldFacts
  <2>4. Len(F.base) \in Nat /\ Len(F.base) >= 1
    BY <2>1, BaseFacts DEF Based
  <2> DEFINE index == IndexOf(s.open, formatting)
  <2>5. index \in 0 .. Len(s.open) - 1 /\ index + 1 \in DOMAIN s.open /\ s.open[index + 1] = formatting
        /\ stack = RemoveAt(s.open, index)
    <3>1. s.open \in Seq(DOMAIN s.nodes) /\ ~(\A j \in DOMAIN s.open : s.open[j] # formatting)
      BY <1>7, <2>1, <2>2 DEF OpenOK
    <3>2. index \in 0 .. Len(s.open) - 1 /\ index + 1 \in DOMAIN s.open /\ s.open[index + 1] = formatting
      BY <3>1, IndexOfIs
    <3> HIDE DEF index
    <3>3. index # -1
      BY <3>2
    <3> QED
      BY <3>2, <3>3 DEF index, Remove
  <2> HIDE DEF index
  <2>6. index + 1 > Len(F.base)
    BY <2>1, <2>5, AboveBase
  <2>7. index \in 1 .. Len(s.open) - 1
    BY <2>2, <2>4, <2>5, <2>6
  <2>8. /\ \A j \in DOMAIN stack : Back(index, j) \in DOMAIN s.open /\ stack[j] = s.open[Back(index, j)]
        /\ \A i \in DOMAIN s.open : i # index + 1 => \E j \in DOMAIN stack : stack[j] = s.open[i]
    BY <2>2, <2>5, <2>7, OpenRemoved
  <2>9. PICK x, j \in DOMAIN s.open :
          /\ x < j /\ s.open[x] = formatting /\ s.open[j] = block
          /\ Segmented(InsertAt(RemoveAt(s.open, x - 1), j - 1, new), w)
    BY <1>7, <2>1
  <2>10. x = index + 1 /\ j # index + 1
    <3>1. x = index + 1
      BY <2>2, <2>5, <2>9 DEF OpenOK
    <3> QED
      BY <2>2, <2>9, <3>1
  <2>11. PICK i \in DOMAIN stack : stack[i] = block
    BY <2>8, <2>9, <2>10
  <2>12. stack \in Seq(DOMAIN s.nodes) /\ \A m \in DOMAIN stack : stack[m] = block => m = i
    BY <2>3, <2>11 DEF OpenOK
  <2>13. IndexOf(stack, block) = i - 1
    BY <2>11, <2>12, IndexOfPlace
  <2>14. Back(index, i) = j
    BY <2>2, <2>8, <2>9, <2>11 DEF OpenOK
  <2> DEFINE b == Len(F.base)
  <2>15. b \in Nat /\ index \in Nat /\ b < index + 1 /\ j > index + 1 /\ j \in Nat
    BY <2>2, <2>4, <2>6, <2>7, <2>9, <2>10
  <2>16. i \in Nat /\ DOMAIN stack = 1 .. Len(stack) /\ Len(stack) \in Nat
    BY <2>11, <2>12, LenProperties
  <2> HIDE DEF b
  <2>17. i >= b
    BY <2>14, <2>15, <2>16 DEF Back
  <2>18. place = i
    BY <2>13, <2>16
  <2>20. i = j - 1 /\ x - 1 = index
    BY <2>10, <2>14, <2>15, <2>16 DEF Back
  <2>21. Segmented(InsertAt(stack, i, new), w)
    BY <2>5, <2>9, <2>20
  <2>19. \A m \in DOMAIN stack : stack[m] # new
    BY <2>1, <2>8
  <2> HIDE DEF place, stack
  <2> QED
    BY <1>14, <2>1, <2>11, <2>16, <2>17, <2>18, <2>19, <2>21 DEF b
<1>17. Based(F) \/ ~ f.sound
  BY <1>13, BaseFacts
<1> DEFINE g == [f EXCEPT !.open = InsertAt(@, place, new)]
<1>18. u = g
  <2> HIDE DEF place
  <2> QED
    BY <1>1, <1>5, <1>14, <1>15 DEF K, Rec, StateFields
<1> HIDE DEF place
<1>19. CASE Based(F)
  <2>1. K(g, F)
    BY <1>3, <1>13, <1>16, <1>19, OpenInsertedK
  <2> HIDE DEF g
  <2> QED
    BY <1>18, <2>1 DEF u
<1>20. CASE ~ f.sound
  <2>1. Vector(InsertAt(f.open, place, new))
    BY <1>3, <1>13, VectorChanged DEF K, Rec
  <2>2. Rec(g) /\ ~ g.sound
    BY <1>13, <1>20, <2>1 DEF K, Rec, StateFields
  <2> HIDE DEF g
  <2>3. K(g, F)
    BY <2>2 DEF K
  <2> QED
    BY <1>18, <2>3 DEF u
<1> QED
  BY <1>17, <1>19, <1>20

\* Steps 14 to 19, after the walk.
LEMMA ReadoptedK ==
  ASSUME NEW w, NEW s, NEW F, F.stop, NEW formatting, NEW block, Walking(w, s, F, formatting, block), NEW ancestor,
         s.sound => /\ formatting \in DOMAIN s.nodes /\ s.nodes[formatting].tag \notin Unlisted
                    /\ block \in DOMAIN s.nodes /\ ancestor \in DOMAIN s.nodes
  PROVE  K(Readopted(w, formatting, block, ancestor), F)
<1> DEFINE t == w.state
           d == Detached(t, w.last)
           p == PutInto(d, w.last, ancestor)
           c == Cloned(p, formatting)
           g == GiveChildren(c, block)
           new == Newest(c)
<1>1. Readopted(w, formatting, block, ancestor) = Relisted(g, formatting, block, w.bookmark)
  BY DEF Readopted
<1>2. K(t, F) /\ w.bookmark \in Int
  BY DEF Walking
<1>3. ASSUME t.sound
      PROVE  /\ s.sound /\ SameNames(s.nodes, t.nodes) /\ w.last \in DOMAIN t.nodes
             /\ \E x, y \in DOMAIN t.open : x < y /\ t.open[x] = formatting /\ t.open[y] = block
             /\ Bookmarked(t.active, formatting, w.bookmark) /\ t.open # <<>>
             /\ Rooted(t) /\ Sound(t.nodes)
  <2>1. /\ s.sound /\ SameNames(s.nodes, t.nodes) /\ w.last \in DOMAIN t.nodes
        /\ Between(t.open, Len(F.base), Below13(w) + 1, formatting, block)
        /\ Bookmarked(t.active, formatting, w.bookmark)
    BY <1>3 DEF Walking
  <2> DEFINE place == Below13(w) + 1
             b == Len(F.base)
  <2>2. b \in Nat /\ place \in DOMAIN t.open
    BY <2>1 DEF Between
  <2>3. PICK i \in DOMAIN t.open : i > b /\ i <= place /\ t.open[i] = formatting
    BY <2>1 DEF Between
  <2>4. PICK j \in DOMAIN t.open : j > place /\ t.open[j] = block
    BY <2>1 DEF Between
  <2>5. OpenOK(t.nodes, t.open, F.root) /\ DOMAIN t.open = 1 .. Len(t.open) /\ Len(t.open) \in Nat /\ Rooted(t)
        /\ (t.open # <<>> <=> Len(t.open) # 0)
    BY <1>2, <1>3, HeldFacts
  <2> HIDE DEF place, b, t
  <2>6. i < j /\ Len(t.open) # 0
    BY <2>2, <2>3, <2>4, <2>5
  <2> QED
    BY <2>1, <2>3, <2>4, <2>5, <2>6 DEF Rooted
<1>4. Rec(t)
  BY <1>2 DEF K
<1> HIDE DEF t
<1>5. Linking(t, d)
  BY <1>3, <1>4, DetachedLinks
<1>6. Rec(d) /\ (d.sound => t.sound) /\ d.open = t.open /\ d.active = t.active
      /\ (d.sound => DOMAIN d.nodes = DOMAIN t.nodes /\ SameNames(t.nodes, d.nodes) /\ Rooted(d))
  BY <1>3, <1>5, LinkingFacts, LinkingRooted
<1> HIDE DEF d
<1>7. d.sound => Rooted(d) /\ d.open # <<>> /\ w.last \in DOMAIN d.nodes /\ ancestor \in DOMAIN d.nodes
  BY <1>3, <1>6 DEF SameNames
<1>8. Linking(d, p)
  BY <1>6, <1>7, PutIntoLinks
<1>9. Linking(t, p)
  BY <1>5, <1>8, LinkingTwice
<1> HIDE DEF p
<1>10. K(p, F)
  BY <1>2, <1>9, LinkingK
<1>11. Rec(p) /\ (p.sound => t.sound) /\ p.open = t.open /\ p.active = t.active
       /\ (p.sound => DOMAIN p.nodes = DOMAIN t.nodes /\ SameNames(t.nodes, p.nodes) /\ Sound(p.nodes))
  BY <1>9, LinkingFacts
<1>12. p.sound => /\ formatting \in DOMAIN p.nodes /\ p.nodes[formatting].tag \notin Unlisted
                  /\ block \in DOMAIN p.nodes
  BY <1>3, <1>11 DEF SameNames
<1>13. K(c, F) /\ Made(p, c, p.nodes[formatting])
  BY <1>10, <1>12, ClonedK DEF Unlisted
<1>14. /\ Rec(c) /\ (c.sound => p.sound) /\ c.open = t.open /\ c.active = t.active
       /\ (c.sound => SameNames(p.nodes, c.nodes))
  BY <1>11, <1>13 DEF Made, Grown, Rest
<1>15. c.nodes = CloneNode(p.nodes, formatting)
  BY <1>11 DEF Cloned, Rec, StateFields
<1>16. ASSUME c.sound
       PROVE  /\ Sound(c.nodes) /\ new \in DOMAIN c.nodes /\ c.nodes[new].tag \notin Fixed
              /\ c.nodes[new].children = <<>> /\ c.nodes[new].parent = NoNode
              /\ block \in DOMAIN c.nodes /\ block # new /\ formatting \in DOMAIN c.nodes
              /\ c.nodes[formatting].tag \notin Unlisted /\ Twins(c.nodes, formatting, new)
              /\ \A i \in DOMAIN c.active : c.active[i] # new
              /\ \A i \in DOMAIN c.open : c.open[i] # new
  <2> DEFINE k == Len(p.nodes)
  <2>1. p.sound /\ Sound(p.nodes) /\ formatting \in DOMAIN p.nodes
    BY <1>11, <1>12, <1>14, <1>16
  <2>2. /\ Sound(c.nodes) /\ Len(c.nodes) = k + 1 /\ k \in Nat
        /\ DOMAIN p.nodes = 1 .. k /\ DOMAIN c.nodes = 1 .. k + 1
        /\ c.nodes[Len(c.nodes)].tag = p.nodes[formatting].tag /\ c.nodes[Len(c.nodes)].ns = p.nodes[formatting].ns
        /\ c.nodes[Len(c.nodes)].attrs = p.nodes[formatting].attrs
        /\ c.nodes[Len(c.nodes)].parent = NoNode /\ c.nodes[Len(c.nodes)].children = <<>>
    BY <1>15, <2>1, CloneNodeKeeps
  <2> HIDE DEF k
  <2>3. new = k + 1
    BY <2>2 DEF Newest
  <2>4. new \notin DOMAIN p.nodes /\ new # Marker /\ new \in DOMAIN c.nodes
    BY <2>2, <2>3 DEF Marker
  <2>5. OpenOK(p.nodes, p.open, F.root) /\ ActiveOK(p.nodes, p.active)
    BY <1>10, <2>1, HeldFacts
  <2>6. \A i \in DOMAIN c.open : c.open[i] # new
    BY <1>11, <1>14, <2>4, <2>5 DEF OpenOK
  <2>7. \A i \in DOMAIN c.active : c.active[i] # new
    <3>1. \A i \in DOMAIN p.active : p.active[i] \in DOMAIN p.nodes \union {Marker}
      BY <2>5 DEF ActiveOK
    <3> QED
      BY <1>11, <1>14, <2>4, <3>1
  <2>8. SameNames(p.nodes, c.nodes)
    BY <1>14, <1>16
  <2>9. block \in DOMAIN c.nodes /\ block # new /\ formatting \in DOMAIN c.nodes /\ c.nodes[formatting].tag \notin Unlisted
    BY <1>12, <2>1, <2>4, <2>8 DEF SameNames
  <2>10. Twins(c.nodes, formatting, new)
    <3>1. p.nodes[formatting].tag \notin Amended
      BY <1>12, <2>1 DEF Unlisted
    <3>2. /\ c.nodes[formatting].tag = p.nodes[formatting].tag /\ c.nodes[formatting].ns = p.nodes[formatting].ns
          /\ c.nodes[formatting].attrs = p.nodes[formatting].attrs
      BY <2>1, <2>8, <3>1 DEF SameNames
    <3> QED
      BY <2>2, <3>2 DEF Twins, Newest
  <2>11. c.nodes[new].tag \notin Fixed /\ c.nodes[new].children = <<>> /\ c.nodes[new].parent = NoNode
    BY <1>12, <2>1, <2>2 DEF Newest, Unlisted
  <2> QED
    BY <2>2, <2>4, <2>6, <2>7, <2>9, <2>10, <2>11
<1> HIDE DEF c
<1>17. g = GivenChildren(c, block, new)
  BY DEF GiveChildren
<1>18. Linking(c, g)
  BY <1>14, <1>16, <1>17, GivenChildrenLinks
<1> HIDE DEF g
<1>19. K(g, F)
  BY <1>13, <1>18, LinkingK
<1>20. Rec(g) /\ (g.sound => c.sound) /\ g.open = t.open /\ g.active = t.active
       /\ (g.sound => DOMAIN g.nodes = DOMAIN c.nodes /\ SameNames(c.nodes, g.nodes) /\ Sound(g.nodes))
  BY <1>14, <1>18, LinkingFacts
<1>21. g.sound => Newest(g) = new
  <2> SUFFICES ASSUME g.sound PROVE Len(g.nodes) = Len(c.nodes)
    BY DEF Newest
  <2>1. DOMAIN g.nodes = DOMAIN c.nodes /\ Len(g.nodes) \in Nat /\ Len(c.nodes) \in Nat
        /\ DOMAIN g.nodes = 1 .. Len(g.nodes) /\ DOMAIN c.nodes = 1 .. Len(c.nodes)
    BY <1>13, <1>19, <1>20, KIsRooted, StackFacts
  <2> DEFINE k == Len(g.nodes)
             l == Len(c.nodes)
  <2>2. k \in Nat /\ l \in Nat /\ 1 .. k = 1 .. l
    BY <2>1
  <2> HIDE DEF k, l
  <2>3. k = l
    BY <2>2
  <2> QED
    BY <2>3 DEF k, l
<1>22. ASSUME g.sound
       PROVE  /\ formatting \in DOMAIN g.nodes /\ g.nodes[formatting].tag \notin Fixed
              /\ \E x, y \in DOMAIN g.open : x < y /\ g.open[x] = formatting /\ g.open[y] = block
              /\ Bookmarked(g.active, formatting, w.bookmark) /\ Twins(g.nodes, formatting, Newest(g))
              /\ Newest(g) \in DOMAIN g.nodes /\ g.nodes[Newest(g)].tag \notin Fixed
              /\ \A i \in DOMAIN g.active : g.active[i] # Newest(g)
              /\ \A i \in DOMAIN g.open : g.open[i] # Newest(g)
  <2>1. c.sound /\ t.sound
    BY <1>11, <1>14, <1>20, <1>22
  <2>2. SameNames(c.nodes, g.nodes) /\ Newest(g) = new
    BY <1>20, <1>21, <1>22
  <2>3. /\ formatting \in DOMAIN g.nodes /\ g.nodes[formatting].tag \notin Fixed
        /\ Newest(g) \in DOMAIN g.nodes /\ g.nodes[Newest(g)].tag \notin Fixed
    BY <1>16, <2>1, <2>2 DEF SameNames, Unlisted
  <2>4. Twins(g.nodes, formatting, new)
    <3>1. c.nodes[formatting].tag \notin Amended /\ c.nodes[new].tag \notin Amended
      BY <1>16, <2>1 DEF Unlisted, Twins
    <3> QED
      BY <1>16, <2>1, <2>2, <3>1 DEF SameNames, Twins
  <2> QED
    BY <1>3, <1>14, <1>16, <1>20, <2>1, <2>2, <2>3, <2>4
<1>23. K(Relisted(g, formatting, block, w.bookmark), F)
  BY <1>2, <1>19, <1>22, RelistedK
<1> QED
  BY <1>1, <1>23

AdoptedTags == FormattingTags \union {"a", "nobr"}

LEMMA AdoptedTagsFacts ==
  \A tag \in AdoptedTags : tag \notin Fixed /\ tag \notin SpecialTags /\ tag # NoTag /\ {tag} \intersect Fixed = {}
<1>1. AdoptedTags \intersect Fixed = {}
  BY DEF AdoptedTags, FormattingTags, Fixed
<1>2. ASSUME NEW tag \in AdoptedTags
      PROVE  tag \notin SpecialTags
  BY DEF AdoptedTags, FormattingTags, SpecialTags, Headings
<1>3. NoTag \notin AdoptedTags
  BY Zenon DEF AdoptedTags, FormattingTags, NoTag
<1> QED
  BY <1>1, <1>2, <1>3

\* One turn of the outer loop.
LEMMA TurnK ==
  ASSUME NEW s, NEW F, K(s, F), F.stop, NEW tag \in AdoptedTags
  PROVE  K(Turn(s, tag).state, F)
<1> DEFINE formatting == s.active[FormattingPlace(s, tag)]
           place == IndexOf(s.open, formatting) + 1
           blocks == {i \in place .. Len(s.open) : IsSpecial(s, s.open[i])}
           b == CHOOSE i \in blocks : \A j \in blocks : i <= j
           block == s.open[b]
           readopted == Readopted(Walked(s, formatting, block), formatting, block, s.open[place - 1])
<1>1. Turn(s, tag).state = IF FormattingPlace(s, tag) = 0 THEN s
                           ELSE IF place = 0 THEN RemoveFormatting(s, formatting)
                           ELSE IF ~ InScope(s, {tag}) THEN s
                           ELSE IF blocks = {} THEN RemoveFormatting(PopTo(s, place - 1), formatting)
                           ELSE readopted
  BY DEF Turn
<1>2. Rec(s) /\ Vector(s.open) /\ Vector(s.active)
  BY DEF K, Rec
<1>3. ASSUME FormattingPlace(s, tag) # 0
      PROVE  K(RemoveFormatting(s, formatting), F)
  <2>1. s.sound => formatting # Marker
    BY <1>3, FormattingPlaceIs
  <2> HIDE DEF formatting
  <2> QED
    BY <2>1, RemoveFormattingK
<1>4. place \in Int
  <2> HIDE DEF formatting
  <2> QED
    BY <1>2, VectorIndex
<1>5. ASSUME s.sound, FormattingPlace(s, tag) # 0, place # 0
      PROVE  /\ formatting \in DOMAIN s.nodes /\ s.nodes[formatting].tag \notin Unlisted
             /\ place \in DOMAIN s.open /\ s.open[place] = formatting /\ ~ IsSpecial(s, formatting)
             /\ place > Len(F.base) /\ Len(F.base) \in Nat /\ Len(F.base) >= 1
             /\ Len(s.open) \in Nat /\ DOMAIN s.open = 1 .. Len(s.open)
             /\ \A i \in DOMAIN s.open : s.open[i] \in DOMAIN s.nodes
  <2>1. /\ formatting \in DOMAIN s.nodes /\ s.nodes[formatting].tag \notin Unlisted
        /\ IsHtml(s, formatting, {tag})
    BY <1>5, FormattingPlaceIs
  <2>2. /\ OpenOK(s.nodes, s.open, F.root) /\ Len(s.open) \in Nat /\ DOMAIN s.open = 1 .. Len(s.open)
        /\ \A i \in DOMAIN s.open : s.open[i] \in DOMAIN s.nodes
    BY <1>5, HeldFacts
  <2>3. ~ IsSpecial(s, formatting)
    BY <2>1, AdoptedTagsFacts DEF IsSpecial, IsHtml, IsElement
  <2> HIDE DEF formatting
  <2>4. place \in DOMAIN s.open /\ s.open[place] = formatting
    <3> DEFINE index == IndexOf(s.open, formatting)
    <3>1. index # -1
      BY <1>2, <1>5, VectorIndex
    <3>2. s.open \in Seq(DOMAIN s.nodes)
      BY <2>2 DEF OpenOK
    <3> QED
      BY <3>1, <3>2, IndexOfIs
  <2>5. place > Len(F.base) /\ Len(F.base) \in Nat /\ Len(F.base) >= 1
    BY <1>5, <2>1, <2>4, AboveBase, BaseFacts DEF Based, Unlisted
  <2> QED
    BY <2>1, <2>2, <2>3, <2>4, <2>5
<1>6. ASSUME FormattingPlace(s, tag) # 0, place # 0
      PROVE  K(RemoveFormatting(PopTo(s, place - 1), formatting), F)
  <2>1. s.sound => place - 1 >= Len(F.base)
    <3> DEFINE base == Len(F.base)
    <3>1. s.sound => place > base /\ base \in Nat
      BY <1>5, <1>6
    <3> HIDE DEF base, place
    <3>2. s.sound => place - 1 >= base
      BY <1>4, <3>1
    <3> QED
      BY <3>2 DEF base
  <2>2. place - 1 \in Int
    BY <1>4
  <2>4. s.sound => formatting # Marker
    BY <1>6, FormattingPlaceIs
  <2> HIDE DEF place, formatting
  <2>3. K(PopTo(s, place - 1), F)
    BY <2>1, <2>2, PopToK
  <2>5. PopTo(s, place - 1).sound => s.sound
    BY <1>2, <2>2, KIsRooted, PopToIs DEF Popping, Rest
  <2> QED
    BY <2>3, <2>4, <2>5, RemoveFormattingK
<1>7. ASSUME FormattingPlace(s, tag) # 0, place # 0, blocks # {}
      PROVE  K(readopted, F)
  <2>1. ASSUME s.sound
        PROVE  /\ b \in DOMAIN s.open /\ place < b /\ place - 1 \in DOMAIN s.open
               /\ block \in DOMAIN s.nodes /\ s.open[place - 1] \in DOMAIN s.nodes
    <3>1. /\ place \in DOMAIN s.open /\ s.open[place] = formatting /\ ~ IsSpecial(s, formatting)
          /\ place > Len(F.base) /\ Len(F.base) \in Nat /\ Len(F.base) >= 1
          /\ Len(s.open) \in Nat /\ DOMAIN s.open = 1 .. Len(s.open)
          /\ \A i \in DOMAIN s.open : s.open[i] \in DOMAIN s.nodes
      BY <1>5, <1>7, <2>1
    <3> DEFINE k == Len(s.open)
               base == Len(F.base)
    <3>2. k \in Nat /\ DOMAIN s.open = 1 .. k /\ place \in 1 .. k /\ base \in Nat /\ base >= 1 /\ place > base
      BY <3>1
    <3>3. blocks = {i \in place .. k : IsSpecial(s, s.open[i])}
      OBVIOUS
    <3> HIDE DEF k, base, place, formatting
    <3>4. blocks \in SUBSET Nat
      BY <3>2, <3>3
    <3>5. b \in blocks
      <4>1. blocks # {}
        BY <1>7
      <4> HIDE DEF blocks
      <4> QED
        BY <3>4, <4>1, LeastElement
    <3>6. b \in place .. k /\ IsSpecial(s, s.open[b])
      BY <3>3, <3>5
    <3> HIDE DEF b, blocks
    <3>7. b # place
      BY <3>1, <3>6
    <3>8. place < b /\ b \in 1 .. k /\ place - 1 \in 1 .. k
      BY <3>2, <3>6, <3>7
    <3> QED
      BY <3>1, <3>2, <3>8
  <2>2. s.sound => /\ place \in DOMAIN s.open /\ s.open[place] = formatting /\ place > Len(F.base)
                   /\ formatting \in DOMAIN s.nodes /\ s.nodes[formatting].tag \notin Unlisted
    BY <1>5, <1>7
  <2>5. s.sound => \E i \in DOMAIN s.active :
                     s.active[i] = formatting /\ \A k \in DOMAIN s.active : s.active[k] = Marker => k < i
    BY <1>7, FormattingPlaceIs
  <2> HIDE DEF b, blocks, place, formatting
  <2>3. Walking(WalkFrom(s, formatting, block), s, F, formatting, block)
    BY <2>1, <2>2, <2>5, WalkBegins
  <2>4. Walking(Walked(s, formatting, block), s, F, formatting, block)
    BY <1>2, <2>3, WalkedWalks
  <2> QED
    BY <2>1, <2>2, <2>4, ReadoptedK
<1> HIDE DEF place, formatting, blocks, readopted
<1>8. QED
  BY <1>1, <1>3, <1>6, <1>7

\* The eight turns.
TurnedOn(before, tag) == IF before.again THEN Turn(before.state, tag) ELSE before

Turned(g, s, tag, n) ==
  g = [i \in 0 .. n |-> IF i = 0 THEN [again |-> TRUE, state |-> s] ELSE TurnedOn(g[i - 1], tag)]

LEMMA TurnedExist ==
  ASSUME NEW s, NEW tag, NEW n \in Nat
  PROVE  \E g : Turned(g, s, tag, n)
<1> DEFINE first == [again |-> TRUE, state |-> s]
           T == {i \in 0 .. n : \E g : Turned(g, s, tag, i)}
<1>1. 0 \in T
  <2> DEFINE g == [i \in 0 .. 0 |-> first]
  <2>1. Turned(g, s, tag, 0)
    BY DEF Turned
  <2> QED
    BY <2>1
<1>2. ASSUME NEW i \in 0 .. n - 1, i \in T
      PROVE  i + 1 \in T
  <2>1. PICK g : Turned(g, s, tag, i)
    BY <1>2
  <2> DEFINE h == [k \in 0 .. i + 1 |-> IF k = i + 1 THEN TurnedOn(g[i], tag) ELSE g[k]]
  <2>2. i + 1 \in 0 .. n
    OBVIOUS
  <2>3. ASSUME NEW k \in 0 .. i + 1
        PROVE  h[k] = IF k = 0 THEN first ELSE TurnedOn(h[k - 1], tag)
    <3>1. CASE k = i + 1
      <4>1. k - 1 = i /\ i \in 0 .. i + 1 /\ i # i + 1 /\ k # 0
        BY <3>1
      <4>2. h[k] = TurnedOn(g[i], tag) /\ h[i] = g[i]
        BY <3>1, <4>1
      <4> HIDE DEF h, first
      <4> QED
        BY <4>1, <4>2
    <3>2. CASE k # i + 1
      <4>1. k \in 0 .. i /\ (k # 0 => k - 1 \in 0 .. i + 1 /\ k - 1 # i + 1)
        BY <3>2
      <4>2. g[k] = IF k = 0 THEN first ELSE TurnedOn(g[k - 1], tag)
        BY <2>1, <4>1 DEF Turned
      <4>3. k # 0 => h[k - 1] = g[k - 1]
        BY <4>1
      <4>4. h[k] = g[k]
        BY <3>2
      <4> QED
        BY <4>2, <4>3, <4>4
    <3> QED
      BY <3>1, <3>2
  <2>4. h = [k \in 0 .. i + 1 |-> h[k]]
    OBVIOUS
  <2> HIDE DEF h
  <2>5. Turned(h, s, tag, i + 1)
    BY <2>3, <2>4 DEF Turned
  <2> QED
    BY <2>2, <2>5
<1> HIDE DEF T
<1>3. 0 .. n \subseteq T
  BY <1>1, <1>2, InductionUpTo
<1>4. n \in 0 .. n
  OBVIOUS
<1>5. n \in T
  BY <1>3, <1>4
<1> QED
  BY <1>5 DEF T

LEMMA AdoptK ==
  ASSUME NEW s, NEW F, K(s, F), F.stop, NEW tag \in AdoptedTags
  PROVE  K(Adopt(s, tag), F)
<1> DEFINE g == CHOOSE h : Turned(h, s, tag, 8)
<1>1. Turned(g, s, tag, 8)
  BY TurnedExist
<1>2. Adopt(s, tag) = IF CurrentIs(s, {tag}) /\ ~ In(s.active, Current(s)) THEN Pop(s) ELSE g[8].state
  BY DEF Adopt, Turned, TurnedOn
<1> HIDE DEF g
<1> DEFINE T == {i \in 0 .. 8 : K(g[i].state, F)}
<1>3. 0 \in T
  <2>1. g[0] = [again |-> TRUE, state |-> s]
    BY <1>1 DEF Turned
  <2> QED
    BY <2>1
<1>4. ASSUME NEW i \in 0 .. 8 - 1, i \in T
      PROVE  i + 1 \in T
  <2>1. i + 1 \in 0 .. 8 /\ i + 1 # 0 /\ (i + 1) - 1 = i
    OBVIOUS
  <2>2. g[i + 1] = TurnedOn(g[i], tag)
    BY <1>1, <2>1 DEF Turned
  <2>3. K(g[i].state, F)
    BY <1>4
  <2>4. K(Turn(g[i].state, tag).state, F)
    BY <2>3, TurnK
  <2>5. K(TurnedOn(g[i], tag).state, F)
    BY <2>3, <2>4 DEF TurnedOn
  <2> QED
    BY <2>1, <2>2, <2>5
<1> HIDE DEF T
<1>5. 0 .. 8 \subseteq T
  BY <1>3, <1>4, InductionUpTo
<1>6. K(g[8].state, F)
  BY <1>5 DEF T
<1>7. CASE CurrentIs(s, {tag})
  <2>1. K(Pop(s), F)
    BY <1>7, AdoptedTagsFacts, PopNamedK
  <2> QED
    BY <1>2, <1>6, <2>1
<1> QED
  BY <1>2, <1>6, <1>7
=============================================================================
