----------------------------- MODULE GumboTree -----------------------------
(***************************************************************************)
(* The nodes of the document parser.c builds, and the operations that link *)
(* them: a node knows its parent and its index in the parent's children,   *)
(* the parent knows its children, and every operation keeps the two sides  *)
(* apart by hand.                                                          *)
(*                                                                         *)
(* A node is named by its place in the order of allocation; 0 is NULL and  *)
(* 1 the document.  Source positions, original text and parse flags are    *)
(* left out.                                                               *)
(***************************************************************************)
EXTENDS GumboVector

NoNode == 0
Document == 1

Elements == {"element", "template"}
Texts == {"text", "whitespace", "cdata"}

\* A node as create_node leaves it.
NewNode(type) ==
  [type |-> type, tag |-> "", ns |-> "html", attrs |-> <<>>, text |-> <<>>,
   parent |-> NoNode, index |-> -1, children |-> <<>>]

NewDocument == <<NewNode("document")>>

Adopted(nodes, parent, n, index) ==
  [nodes EXCEPT ![n] = [@ EXCEPT !.parent = parent, !.index = index]]

WithChildren(nodes, parent, children) == [nodes EXCEPT ![parent] = [@ EXCEPT !.children = children]]

\* The nodes with each changed to what Change gives (SubSeq makes TLC compute it at once).
Changed(nodes, Change(_)) == SubSeq([n \in 1 .. Len(nodes) |-> Change(n)], 1, Len(nodes))

\* Sets the index of the children of parent that stand at or after the place first.
Renumbered(nodes, parent, first) ==
  LET Change(n) == LET place == IndexOf(nodes[parent].children, n)
                   IN  IF place >= first THEN [nodes[n] EXCEPT !.index = place] ELSE nodes[n]
  IN  Changed(nodes, Change)

AppendNode(nodes, parent, n) ==
  WithChildren(Adopted(nodes, parent, n, Len(nodes[parent].children)),
               parent, Add(nodes[parent].children, n))

\* Mutant: the siblings that make place keep their old index.
InsertUnrenumbered(nodes, n, at) ==
  IF at.index = -1 THEN AppendNode(nodes, at.target, n)
  ELSE WithChildren(Adopted(nodes, at.target, n, at.index), at.target,
                    InsertAt(nodes[at.target].children, at.index, n))

\* A location is a parent and the index of the place before which to insert, or -1.
InsertNode(nodes, n, at) ==
  IF at.index = -1 THEN AppendNode(nodes, at.target, n)
  ELSE Renumbered(WithChildren(Adopted(nodes, at.target, n, at.index), at.target,
                               InsertAt(nodes[at.target].children, at.index, n)),
                  at.target, at.index + 1)

RemoveFromParent(nodes, n) ==
  LET parent == nodes[n].parent
      index == IndexOf(nodes[parent].children, n)
  IN  IF parent = NoNode THEN nodes
      ELSE Renumbered(Adopted(WithChildren(nodes, parent, RemoveAt(nodes[parent].children, index)),
                              NoNode, n, -1),
                      parent, index)

\* A copy of an element without its children and its place.
CloneNode(nodes, n) ==
  Append(nodes, [nodes[n] EXCEPT !.parent = NoNode, !.index = -1, !.children = <<>>])

\* Mutant: the parents of the moved children are not reset.
MoveChildrenOnly(nodes, from, to) ==
  [nodes EXCEPT ![to] = [@ EXCEPT !.children = nodes[from].children],
                ![from] = [@ EXCEPT !.children = nodes[to].children]]

\* Swaps the children of from with those of the childless node to.
MoveChildren(nodes, from, to) ==
  LET moved == nodes[from].children
      Change(n) == [nodes[n] EXCEPT !.parent = IF IndexOf(moved, n) # -1 THEN to ELSE @,
                                    !.children = IF n = to THEN moved ELSE IF n = from THEN nodes[to].children ELSE @]
  IN  Changed(nodes, Change)

\* The nodes below n, n included: what destroy_node frees.
Below(nodes, n) ==
  LET Children(ps) == {c \in DOMAIN nodes : \E p \in ps : IndexOf(nodes[p].children, c) # -1}
      level[depth \in 0 .. Len(nodes)] ==
        IF depth = 0 THEN {n} ELSE LET above == level[depth - 1] IN above \union Children(above)
  IN  level[Len(nodes)]

DestroyNode(nodes, n) ==
  LET freed == Below(nodes, n)
      Change(m) == IF m \in freed THEN NewNode("destroyed") ELSE nodes[m]
  IN  Changed(nodes, Change)
=============================================================================
