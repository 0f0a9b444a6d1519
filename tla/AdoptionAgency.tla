--------------------------- MODULE AdoptionAgency ---------------------------
(***************************************************************************)
(* adoption_agency_algorithm of parser.c: the end tag of a formatting      *)
(* element that is not the current node.  What stands above the element in *)
(* the stack is moved out of it, and clones take the element's place.      *)
(* The numbered steps are those of the code's comments.                    *)
(***************************************************************************)
EXTENDS ParserState

\* The place in the list of the innermost formatting element with this tag,
\* 0 if there is none or a marker hides it.
FormattingPlace(s, tag) ==
  Greatest({i \in AfterMarker(s) : IsHtml(s, s.active[i], {tag})})

RemoveFormatting(s, n) == [s EXCEPT !.active = Remove(@, n)]

\* remove_from_parent, which expects the parent to be an element.
Detached(s, n) ==
  [Claim(s, LET parent == s.nodes[n].parent
            IN  \/ parent = NoNode
                \/ s.nodes[parent].type = "element" /\ In(s.nodes[parent].children, n))
     EXCEPT !.nodes = RemoveFromParent(@, n)]

\* A walk down the stack from the furthest block: the state, the element that
\* was last moved, the node reached, the place it had in the stack, and the
\* place of the list where the new formatting element belongs (steps 12, 13).
WalkFrom(s, formatting, block) ==
  [state |-> s, node |-> block, last |-> block, saved |-> IndexOf(s.open, block),
   bookmark |-> IndexOf(s.active, formatting) + 1, count |-> 0]

\* Step 13.3: the element below the node, which may have left the stack.
Below13(w) ==
  (IF In(w.state.open, w.node) THEN IndexOf(w.state.open, w.node) ELSE w.saved) - 1

\* Steps 13.5 to 13.10 for a node that is not the formatting element.
Visited(w, formatting, block) ==
  LET s == Claim(w.state, Below13(w) > 0 /\ w.state.nodes[w.state.open[Below13(w) + 1]].parent # NoNode)
      place == Below13(w)
      node == s.open[place + 1]
      entry == IndexOf(s.active, node)
      step == [w EXCEPT !.state = s, !.node = node, !.saved = place, !.count = @ + 1]
      cloned == [s EXCEPT !.nodes = CloneNode(@, node)]
      clone == Len(cloned.nodes)
      entered == [cloned EXCEPT !.active[entry + 1] = clone, !.open[place + 1] = clone]
      moved == Appended(Detached(entered, w.last), clone, w.last)
  IN  CASE entry # -1 /\ step.count > 3 ->
             [step EXCEPT !.state = [s EXCEPT !.active = RemoveAt(@, entry)],
                          !.bookmark = IF entry < @ THEN @ - 1 ELSE @]
        [] entry = -1 -> [step EXCEPT !.state = [s EXCEPT !.open = RemoveAt(@, place)]]
        [] OTHER -> [step EXCEPT !.state = moved, !.node = clone, !.last = clone,
                                 !.bookmark = IF w.last = block THEN entry + 1 ELSE @]

\* Step 13: up to the formatting element.
Walked(s, formatting, block) ==
  LET Arrived(w) == w.state.open[Below13(w) + 1] = formatting
      after[i \in 0 .. Len(s.open)] ==
        IF i = 0 THEN WalkFrom(s, formatting, block)
        ELSE LET w == after[i - 1] IN IF Arrived(w) THEN w ELSE Visited(w, formatting, block)
  IN  after[Len(s.open)]

\* Steps 14 to 19.
PutInto(s, n, ancestor) == Inserted(s, n, InsertionLocation(s, ancestor))
Cloned(s, n) == [s EXCEPT !.nodes = CloneNode(@, n)]
GivenChildren(s, block, new) == Appended([s EXCEPT !.nodes = MoveChildren(@, block, new)], block, new)
GiveChildren(s, block) == GivenChildren(s, block, Newest(s))

\* Steps 18 and 19: the clone takes the place of the formatting element in the list and
\* stands above the block in the stack.
Relisted(s, formatting, block, mark) ==
  LET entry == IndexOf(s.active, formatting)
      bookmark == IF entry < mark THEN mark - 1 ELSE mark
      stack == Remove(s.open, formatting)
  IN  [Claim(s, entry # -1 /\ bookmark \in 0 .. Len(s.active) - 1)
         EXCEPT !.active = InsertAt(RemoveAt(@, entry), bookmark, Newest(s)),
                !.open = InsertAt(stack, IndexOf(stack, block) + 1, Newest(s))]

\* Mutant: the last node of the walk is put nowhere.
ReadoptedLost(w, formatting, block, ancestor) ==
  Relisted(GiveChildren(Cloned(Detached(w.state, w.last), formatting), block), formatting, block, w.bookmark)

Readopted(w, formatting, block, ancestor) ==
  Relisted(GiveChildren(Cloned(PutInto(Detached(w.state, w.last), w.last, ancestor), formatting), block),
           formatting, block, w.bookmark)

\* Mutant: the last node is put one element too far out.
TurnOneOff(s, tag) ==
  LET formatting == s.active[FormattingPlace(s, tag)]
      place == IndexOf(s.open, formatting) + 1
      blocks == {i \in place .. Len(s.open) : IsSpecial(s, s.open[i])}
      block == s.open[CHOOSE i \in blocks : \A j \in blocks : i <= j]
      Stop(t) == [again |-> FALSE, state |-> t]
  IN  IF FormattingPlace(s, tag) = 0 THEN Stop(s)
      ELSE IF place = 0 THEN Stop(RemoveFormatting(s, formatting))
      ELSE IF ~ InScope(s, {tag}) THEN Stop(s)
      ELSE IF blocks = {} THEN Stop(RemoveFormatting(PopTo(s, place - 1), formatting))
      ELSE [again |-> TRUE,
            state |-> Readopted(Walked(s, formatting, block), formatting, block, s.open[Greatest({1, place - 2})])]

\* One turn of the outer loop: whether to go on, and the state.
Turn(s, tag) ==
  LET formatting == s.active[FormattingPlace(s, tag)]
      place == IndexOf(s.open, formatting) + 1
      blocks == {i \in place .. Len(s.open) : IsSpecial(s, s.open[i])}
      block == s.open[CHOOSE i \in blocks : \A j \in blocks : i <= j]
      Stop(t) == [again |-> FALSE, state |-> t]
  IN  IF FormattingPlace(s, tag) = 0 THEN Stop(s)
      ELSE IF place = 0 THEN Stop(RemoveFormatting(s, formatting))
      ELSE IF ~ InScope(s, {tag}) THEN Stop(s)
      ELSE IF blocks = {} THEN Stop(RemoveFormatting(PopTo(s, place - 1), formatting))
      ELSE [again |-> TRUE,
            state |-> Readopted(Walked(s, formatting, block), formatting, block, s.open[place - 1])]

Adopt(s, tag) ==
  LET turn[i \in 0 .. 8] ==
        IF i = 0 THEN [again |-> TRUE, state |-> s]
        ELSE LET before == turn[i - 1] IN IF before.again THEN Turn(before.state, tag) ELSE before
  IN  IF CurrentIs(s, {tag}) /\ ~ In(s.active, Current(s)) THEN Pop(s) ELSE turn[8].state
=============================================================================
