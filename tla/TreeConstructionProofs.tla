----------------------- MODULE TreeConstructionProofs -----------------------
(***************************************************************************)
(* That the links of the tree always agree (LinksAgree) and that the stack *)
(* of open elements and the list of active formatting elements are always  *)
(* sound (ListsAreSound), for pages of any length, as long as no assertion *)
(* of parser.c has failed and no page out of the ordinary has been met     *)
(* (Ordinary).                                                             *)
(*                                                                         *)
(* The argument.  Between two tokens the state is Standing: its nodes, the *)
(* stack, the list, the form and the template modes are right (Core), and  *)
(* the stack is one that fits the insertion mode (Modal).  A handler that  *)
(* keeps to the frame of its mode (K, ParserOperationsProofs) leaves a     *)
(* stack that fits again, so the state is Settled.                         *)
(*                                                                         *)
(* The names of the lemmas say what they show: ...Settles that a handler   *)
(* leaves a settled state, ...Hands that it does or calls the handler of   *)
(* another mode, ...Handled that this is so when all calls have been made, *)
(* ...Fits what a mode says of the stack; ...K, ...Grows, ...Stays, ...Is  *)
(* and ...Facts as in ParserOperationsProofs.                              *)
(***************************************************************************)
EXTENDS ParserOperationsProofs

(* What the stack is like in an insertion mode.                            *)

LateModes == {"AfterFrameset", "AfterAfterFrameset"}

\* What stays on the stack while the content of a page is handled: the root, or the head, open
\* below a template.
Bases(nodes, root, head) == {<<root>>} \union {<<root, head, n>> : n \in DOMAIN nodes}

\* The modes there may be then; get_appropriate_insertion_mode finds html only below no template.
Allowed(base) == ContentModes \union {"InFrameset"} \union (IF Len(base) = 1 THEN {"AfterHead"} ELSE {})

Contained(mode, nodes, open, root, head) ==
  \E base \in Bases(nodes, root, head) : Begins(open, base, head) /\ Stops(nodes, base) /\ mode \in Allowed(base)

\* A text element, or noscript in the head: an html element that is no template.
Plain(nodes, n) == nodes[n].tag \notin Fixed /\ nodes[n].ns = "html"

Fits(mode, nodes, open, root, head) ==
  \/ mode \in EarlyModes /\ root = NoNode /\ head = NoNode /\ open = <<>>
  \/ mode = "BeforeHead" /\ root # NoNode /\ head = NoNode /\ Len(open) = 1
  \/ /\ root # NoNode /\ head # NoNode
     /\ \/ mode = "InHead" /\ Len(open) = 2 /\ open[2] = head
        \/ mode = "InHeadNoscript" /\ Len(open) = 3 /\ open[2] = head /\ Plain(nodes, open[3])
        \/ Contained(mode, nodes, open, root, head)
        \/ mode \in LateModes /\ Len(open) >= 1 /\ \A i \in DOMAIN open : open[i] = head => i <= 2

\* In the text modes the stack fits the mode to go back to.
Modal(s) ==
  CASE s.mode = "Text" ->
         /\ Len(s.open) >= 1 /\ Plain(s.nodes, s.open[Len(s.open)])
         /\ Fits(s.original, s.nodes, Popped(s.open), s.root, s.head)
    [] s.mode = "InTableText" ->
         s.root # NoNode /\ s.head # NoNode /\ Contained(s.original, s.nodes, s.open, s.root, s.head)
    [] OTHER -> Fits(s.mode, s.nodes, s.open, s.root, s.head)

\* No body has been thrown away for a frameset, and no element of foreign content is named html.
Usual(nodes) ==
  \A n \in DOMAIN nodes : nodes[n].type # "destroyed" /\ (nodes[n].tag = "html" => nodes[n].ns = "html")

\* What is true between two tokens.
Settled(s) == Rec(s) /\ (s.sound /\ Usual(s.nodes) => Core(s) /\ Modal(s))

\* The frame of the modes for content.
ContentFrame(F) ==
  /\ F.stop /\ F.root # NoNode /\ F.head # NoNode /\ F.modes = Allowed(F.base)
  /\ F.base = <<F.root>> \/ \E n : F.base = <<F.root, F.head, n>>

-----------------------------------------------------------------------------

LEMMA ContentFrameFacts ==
  ASSUME NEW F, ContentFrame(F)
  PROVE  /\ Based(F) /\ F.stop /\ F.root # NoNode /\ F.head # NoNode
         /\ ContentModes \union {"InFrameset"} \subseteq F.modes
         /\ "Text" \notin F.modes /\ "InTableText" \notin F.modes
         /\ Len(F.base) = 1 => "AfterHead" \in F.modes
         /\ Len(F.base) \in {1, 3} /\ F.base[1] = F.root /\ (Len(F.base) = 3 => F.base[2] = F.head)
<1>1. F.modes = Allowed(F.base)
  BY DEF ContentFrame
<1>2. Len(F.base) \in {1, 3} /\ F.base[1] = F.root /\ (Len(F.base) = 3 => F.base[2] = F.head)
  BY DEF ContentFrame
<1>3. ContentModes \union {"InFrameset"} \subseteq F.modes /\ (Len(F.base) = 1 => "AfterHead" \in F.modes)
  BY <1>1 DEF Allowed
<1>4. "Text" \notin F.modes /\ "InTableText" \notin F.modes
  BY <1>1 DEF Allowed, ContentModes
<1> QED
  BY <1>2, <1>3, <1>4 DEF ContentFrame, Based

\* A handler that keeps the frame settles.
LEMMA ContentIsContained ==
  ASSUME NEW s, NEW F, K(s, F), s.sound, F.stop, NEW mode \in Allowed(F.base),
         F.base = <<F.root>> \/ \E n : F.base = <<F.root, F.head, n>>
  PROVE  Contained(mode, s.nodes, s.open, s.root, s.head)
<1>1. /\ s.root = F.root /\ s.head = F.head /\ Begins(s.open, F.base, F.head) /\ Stops(s.nodes, F.base)
  BY DEF K, Held
<1>2. F.base \in Bases(s.nodes, s.root, s.head)
  <2>1. CASE F.base = <<F.root>>
    BY <1>1, <2>1 DEF Bases
  <2>2. CASE \E n : F.base = <<F.root, F.head, n>>
    <3>1. PICK n : F.base = <<F.root, F.head, n>>
      BY <2>2
    <3>2. Len(F.base) = 3 /\ F.base[3] = n
      BY <3>1
    <3>3. n \in DOMAIN s.nodes
      BY <1>1, <3>2 DEF Stops
    <3> QED
      BY <1>1, <3>1, <3>3 DEF Bases
  <2> QED
    BY <2>1, <2>2
<1> QED
  BY <1>1, <1>2 DEF Contained

LEMMA ContentSettles ==
  ASSUME NEW s, NEW F, K(s, F), ContentFrame(F)
  PROVE  Settled(s)
<1>1. SUFFICES ASSUME s.sound PROVE Core(s) /\ Modal(s)
  BY DEF K, Settled
<1>2. Core(s) /\ s.root = F.root /\ s.head = F.head /\ s.mode \in F.modes
  BY <1>1 DEF K, Held
<1>3. Contained(s.mode, s.nodes, s.open, s.root, s.head)
  BY <1>1, <1>2, ContentIsContained DEF ContentFrame
<1>4. s.mode # "Text" /\ s.mode # "InTableText"
  BY <1>2, ContentFrameFacts
<1>5. Fits(s.mode, s.nodes, s.open, s.root, s.head)
  BY <1>2, <1>3 DEF Fits, ContentFrame
<1> QED
  BY <1>2, <1>4, <1>5 DEF Modal

\* A state in a mode for content has such a frame.
LEMMA ContentBegins ==
  ASSUME NEW s, Rec(s), Core(s), s.root # NoNode, s.head # NoNode, NEW mode,
         Contained(mode, s.nodes, s.open, s.root, s.head)
  PROVE  \E F : /\ ContentFrame(F) /\ F.root = s.root /\ F.head = s.head /\ F.original = s.original
                /\ mode \in F.modes /\ Begins(s.open, F.base, F.head) /\ Stops(s.nodes, F.base)
                /\ s.mode \in F.modes => K(s, F)
<1>1. PICK base \in Bases(s.nodes, s.root, s.head) :
        Begins(s.open, base, s.head) /\ Stops(s.nodes, base) /\ mode \in Allowed(base)
  BY DEF Contained
<1> DEFINE F == [modes |-> Allowed(base), base |-> base, stop |-> TRUE, root |-> s.root, head |-> s.head,
                 original |-> s.original]
<1>2. ContentFrame(F)
  BY <1>1 DEF ContentFrame, Bases
<1>3. s.mode \in F.modes => Held(s, F)
  BY <1>1 DEF Held
<1> QED
  BY <1>1, <1>2, <1>3 DEF K

\* Another frame that the state keeps to.
LEMMA ReframedK ==
  ASSUME NEW s, NEW F, K(s, F), NEW G, s.sound => Held(s, G)
  PROVE  K(s, G)
BY DEF K

\* An operation on nothing that matters here.
Alike(s, u) ==
  /\ Rest(s, u) /\ u.nodes = s.nodes /\ u.open = s.open /\ u.form = s.form /\ u.active = s.active
  /\ u.templateModes = s.templateModes /\ u.bufferType = s.bufferType

LEMMA AlikeSettled ==
  ASSUME NEW s, NEW u, Settled(s), Alike(s, u)
  PROVE  Settled(u)
<1>1. SUFFICES ASSUME u.sound, Usual(u.nodes) PROVE Core(u) /\ Modal(u)
  BY DEF Settled, Alike, Rest
<1>2. Core(s) /\ Modal(s)
  BY <1>1 DEF Settled, Alike, Rest
<1>3. Core(u)
  BY <1>2 DEF Core, Alike, Rest
<1>4. Modal(u)
  BY <1>2 DEF Modal, Alike, Rest
<1> QED
  BY <1>3, <1>4

LEMMA SettledStays ==
  ASSUME NEW s, Settled(s)
  PROVE  /\ Settled(Again(s)) /\ Settled(NoFrameset(s))
         /\ \A flag : Settled([s EXCEPT !.skipLinefeed = flag]) /\ Settled([s EXCEPT !.foster = flag])
         /\ \A state : Settled(Lexer(s, state))
<1>1. Rec(s)
  BY DEF Settled
<1>2. Alike(s, Again(s)) /\ Alike(s, NoFrameset(s))
  BY <1>1 DEF Alike, Rest, Rec, StateFields, Again, NoFrameset
<1>3. \A flag : Alike(s, [s EXCEPT !.skipLinefeed = flag]) /\ Alike(s, [s EXCEPT !.foster = flag])
  BY <1>1 DEF Alike, Rest, Rec, StateFields
<1>4. \A state : Alike(s, Lexer(s, state))
  BY <1>1 DEF Alike, Rest, Rec, StateFields, Lexer
<1> QED
  BY <1>2, <1>3, <1>4, AlikeSettled

\* More nodes change nothing about it.
LEMMA PlainGrows ==
  ASSUME NEW nodes, NEW new, SameNames(nodes, new), NEW n \in DOMAIN nodes, Plain(nodes, n)
  PROVE  Plain(new, n)
BY DEF Plain, SameNames

LEMMA ContainedGrows ==
  ASSUME NEW nodes, NEW new, SameNames(nodes, new), NEW mode, NEW open, NEW root, NEW head,
         Contained(mode, nodes, open, root, head)
  PROVE  Contained(mode, new, open, root, head)
<1>1. PICK base \in Bases(nodes, root, head) :
        Begins(open, base, head) /\ Stops(nodes, base) /\ mode \in Allowed(base)
  BY DEF Contained
<1>2. base \in Bases(new, root, head)
  BY <1>1 DEF Bases, SameNames
<1>3. Len(base) \in Nat
  BY <1>1 DEF Begins
<1>4. Stops(new, base)
  BY <1>1, <1>3, StopsGrows
<1> QED
  BY <1>1, <1>2, <1>4 DEF Contained

LEMMA FitsGrows ==
  ASSUME NEW nodes, NEW new, SameNames(nodes, new), NEW mode, NEW open, NEW root, NEW head,
         open \in Seq(DOMAIN nodes), Fits(mode, nodes, open, root, head)
  PROVE  Fits(mode, new, open, root, head)
<1>1. Len(open) = 3 /\ Plain(nodes, open[3]) => Plain(new, open[3])
  <2>1. Len(open) \in Nat /\ DOMAIN open = 1 .. Len(open) /\ \A i \in DOMAIN open : open[i] \in DOMAIN nodes
    BY VectorFacts
  <2> QED
    BY <2>1, PlainGrows
<1>2. Contained(mode, nodes, open, root, head) => Contained(mode, new, open, root, head)
  BY ContainedGrows
<1> QED
  BY <1>1, <1>2 DEF Fits

-----------------------------------------------------------------------------
(* Start tags of text elements and templates.                              *)

\* The element is void and gone again, its text is to come, or its content is.
Opens(s, u) ==
  /\ Rec(u) /\ (u.sound => s.sound) /\ u.root = s.root /\ u.head = s.head
  /\ u.sound =>
       /\ Core(u) /\ SameNames(s.nodes, u.nodes)
       /\ \/ u.open = s.open /\ u.mode = s.mode /\ u.original = s.original
          \/ /\ u.open = Append(s.open, Len(u.nodes))
             /\ Len(u.nodes) \in DOMAIN u.nodes /\ Len(u.nodes) \notin DOMAIN s.nodes
             /\ \/ u.mode = "Text" /\ u.original = s.mode /\ Plain(u.nodes, Len(u.nodes))
                \/ u.mode = "InTemplate" /\ u.nodes[Len(u.nodes)].tag = "template" /\ u.nodes[Len(u.nodes)].ns = "html"

LEMMA VoidOpens ==
  ASSUME NEW s, NEW F, K(s, F), Based(F), NEW t, t.tag \notin Fixed
  PROVE  Opens(s, InsertVoid(s, t)) /\ K(InsertVoid(s, t), F)
<1> DEFINE mid == InsertTag(s, t)
           u == InsertVoid(s, t)
           n == Len(s.open)
<1>1. K(mid, F) /\ NewOnStack(s, mid, t.tag, "html")
  BY InsertTagK
<1>2. K(u, F)
  BY InsertVoidK
<1> HIDE DEF mid
<1>3. u = PopTo(mid, Len(mid.open) - 1)
  BY DEF InsertVoid, Pop, mid
<1>4. Len(mid.open) - 1 \in Int
  BY <1>1, OpenPlaces
<1>5. Popping(mid, u, Len(mid.open) - 1)
  BY <1>1, <1>3, <1>4, KIsRooted, PopToIs
<1> HIDE DEF u
<1>6. Rec(u) /\ (u.sound => s.sound) /\ u.root = s.root /\ u.head = s.head /\ u.mode = s.mode /\ u.original = s.original
  BY <1>1, <1>5 DEF Popping, NewOnStack, Rest
<1>7. ASSUME u.sound PROVE Core(u) /\ SameNames(s.nodes, u.nodes) /\ u.open = s.open
  <2>1. mid.sound /\ s.sound
    BY <1>1, <1>5, <1>7 DEF Popping, NewOnStack, Rest
  <2>2. Core(u)
    BY <1>2, <1>7 DEF K
  <2>3. SameNames(s.nodes, mid.nodes) /\ SameNames(mid.nodes, u.nodes) /\ mid.open = Append(s.open, Len(mid.nodes))
        /\ u.open = IF Len(mid.open) <= Len(mid.open) - 1 THEN mid.open ELSE SubSeq(mid.open, 1, Len(mid.open) - 1)
    BY <1>1, <1>5, <1>7, <2>1 DEF Popping, NewOnStack
  <2>4. s.open \in Seq(DOMAIN s.nodes)
    BY <2>1, HeldFacts DEF OpenOK
  <2> DEFINE new == Len(mid.nodes)
  <2>5. u.open = s.open
    <3>1. s.open \in Seq(DOMAIN s.nodes \union {new}) /\ new \in DOMAIN s.nodes \union {new}
      <4>1. \A i \in 1 .. Len(s.open) : s.open[i] \in DOMAIN s.nodes \union {new}
        BY <2>4, VectorFacts
      <4> HIDE DEF new
      <4>2. Seq(DOMAIN s.nodes) \subseteq Seq(DOMAIN s.nodes \union {new})
        OBVIOUS
      <4> QED
        BY <2>4, <4>2
    <3>2. Len(mid.open) = Len(s.open) + 1 /\ Len(s.open) \in Nat
      BY <2>3, <3>1, AppendIs
    <3> HIDE DEF new
    <3>3. SubSeq(Append(s.open, new), 1, Len(s.open)) = s.open
      BY <3>1
    <3>4. u.open = SubSeq(mid.open, 1, Len(s.open))
      BY <2>3, <3>2
    <3> QED
      BY <2>3, <3>3, <3>4 DEF new
  <2> QED
    BY <2>2, <2>3, <2>5, SameNamesStay
<1>8. Opens(s, u)
  BY <1>6, <1>7 DEF Opens
<1> QED
  BY <1>2, <1>8 DEF u

LEMMA GenericOpens ==
  ASSUME NEW s, NEW F, K(s, F), Based(F), NEW t, t.tag \notin Fixed, NEW lexer
  PROVE  Opens(s, RunGenericParsing(s, t, lexer))
<1> DEFINE mid == InsertTag(s, t)
           u == RunGenericParsing(s, t, lexer)
<1>1. K(mid, F) /\ NewOnStack(s, mid, t.tag, "html")
  BY InsertTagK
<1> HIDE DEF mid
<1>2. u = [Lexer(mid, lexer) EXCEPT !.original = s.mode, !.mode = "Text"]
  BY DEF RunGenericParsing, mid
<1>3. /\ Rec(u) /\ u.sound = mid.sound /\ u.root = mid.root /\ u.head = mid.head /\ u.nodes = mid.nodes
      /\ u.open = mid.open /\ u.active = mid.active /\ u.form = mid.form /\ u.templateModes = mid.templateModes
      /\ u.bufferType = mid.bufferType /\ u.rules = mid.rules /\ u.mode = "Text" /\ u.original = s.mode
  BY <1>1, <1>2 DEF K, Rec, StateFields, Lexer
<1> HIDE DEF u
<1>4. Rec(u) /\ (u.sound => s.sound) /\ u.root = s.root /\ u.head = s.head
  BY <1>1, <1>3 DEF NewOnStack, Rest
<1>5. ASSUME u.sound
      PROVE  /\ Core(u) /\ SameNames(s.nodes, u.nodes) /\ u.open = Append(s.open, Len(u.nodes))
             /\ Len(u.nodes) \in DOMAIN u.nodes /\ Len(u.nodes) \notin DOMAIN s.nodes
             /\ Plain(u.nodes, Len(u.nodes))
  <2>1. Core(mid)
    BY <1>1, <1>3, <1>5 DEF K
  <2>2. Core(u)
    BY <1>3, <2>1 DEF Core
  <2> QED
    BY <1>1, <1>3, <1>5, <2>2 DEF NewOnStack, Plain
<1>6. Opens(s, u)
  BY <1>3, <1>4, <1>5 DEF Opens
<1> QED
  BY <1>6 DEF u

\* The start tag of a template.
StartTemplate(s, t) ==
  PushTemplateMode(Go(NoFrameset(AddMarker(InsertTag(s, t))), "InTemplate"), "InTemplate")

LEMMA OneTemplateMore ==
  ASSUME NEW nodes, NEW new, NEW open, NEW left, NEW modes, Typed(nodes), NEW n,
         TemplatesIn(new, left) \subseteq TemplatesIn(nodes, open) \union {n}, TemplatesOK(nodes, open, modes),
         NEW mode \in ContentModes
  PROVE  TemplatesOK(new, left, Append(modes, mode))
<1> DEFINE T == TemplatesIn(nodes, open)
<1>1. modes \in Seq(ContentModes) /\ Cardinality(T) <= Len(modes)
  BY DEF TemplatesOK
<1>2. IsFiniteSet(T)
  <2>1. Len(nodes) \in Nat /\ DOMAIN nodes = 1 .. Len(nodes)
    BY DEF Typed
  <2>2. IsFiniteSet(1 .. Len(nodes))
    BY <2>1, FS_Interval
  <2>3. T \subseteq 1 .. Len(nodes)
    BY <2>1 DEF TemplatesIn
  <2> QED
    BY <2>2, <2>3, FS_Subset
<1> HIDE DEF T
<1>3. IsFiniteSet(T \union {n}) /\ Cardinality(T \union {n}) <= Cardinality(T) + 1 /\ Cardinality(T) \in Nat
  <2>1. Cardinality(T) \in Nat
    BY <1>2, FS_CardinalityType
  <2>2. IsFiniteSet(T \union {n}) /\ Cardinality(T \union {n}) = IF n \in T THEN Cardinality(T) ELSE Cardinality(T) + 1
    BY <1>2, FS_AddElement
  <2> QED
    BY <2>1, <2>2
<1>4. Cardinality(TemplatesIn(new, left)) <= Cardinality(T \union {n}) /\ Cardinality(TemplatesIn(new, left)) \in Nat
      /\ Cardinality(T \union {n}) \in Nat
  <2>1. TemplatesIn(new, left) \subseteq T \union {n}
    BY DEF T
  <2> QED
    BY <1>3, <2>1, FS_Subset, FS_CardinalityType
<1>5. Append(modes, mode) \in Seq(ContentModes) /\ Len(Append(modes, mode)) = Len(modes) + 1 /\ Len(modes) \in Nat
  BY <1>1
<1> QED
  BY <1>1, <1>3, <1>4, <1>5 DEF TemplatesOK

LEMMA TemplateOpens ==
  ASSUME NEW s, NEW F, K(s, F), Based(F), NEW t, t.tag = "template"
  PROVE  Opens(s, StartTemplate(s, t))
<1> DEFINE mid == InsertTag(s, t)
           u == StartTemplate(s, t)
<1>1. NewOnStack(s, mid, "template", "html")
  BY InsertTagOpens
<1> HIDE DEF mid
<1>2. u = PushTemplateMode(Go(NoFrameset(AddMarker(mid)), "InTemplate"), "InTemplate")
  BY DEF StartTemplate, mid
<1>3. DOMAIN mid = StateFields /\ mid.sound \in BOOLEAN /\ mid.rules = "none" /\ Vector(mid.open) /\ Vector(mid.active)
  BY <1>1 DEF NewOnStack, Rest, Rec
<1>4. /\ DOMAIN u = StateFields /\ u.sound = mid.sound /\ u.root = mid.root /\ u.head = mid.head /\ u.nodes = mid.nodes
      /\ u.open = mid.open /\ u.active = Append(mid.active, Marker) /\ u.form = mid.form
      /\ u.templateModes = Append(mid.templateModes, "InTemplate")
      /\ u.bufferType = mid.bufferType /\ u.rules = mid.rules /\ u.mode = "InTemplate"
  BY <1>2, <1>3 DEF StateFields, PushTemplateMode, Go, NoFrameset, AddMarker, Add
<1> HIDE DEF u
<1>5. Rec(u) /\ (u.sound => s.sound) /\ u.root = s.root /\ u.head = s.head
  <2>1. Vector(u.active)
    BY <1>3, <1>4, VectorAppended
  <2> QED
    BY <1>1, <1>3, <1>4, <2>1 DEF NewOnStack, Rest, Rec
<1>6. ASSUME u.sound
      PROVE  /\ Core(u) /\ SameNames(s.nodes, u.nodes) /\ u.open = Append(s.open, Len(u.nodes))
             /\ Len(u.nodes) \in DOMAIN u.nodes /\ Len(u.nodes) \notin DOMAIN s.nodes
             /\ u.nodes[Len(u.nodes)].tag = "template" /\ u.nodes[Len(u.nodes)].ns = "html"
  <2>1. mid.sound /\ s.sound
    BY <1>1, <1>4, <1>6 DEF NewOnStack, Rest
  <2>2. /\ s.root = F.root /\ s.head = F.head /\ Core(s)
    BY <2>1 DEF K, Held
  <2>3. "template" \notin {"html", "head"}
    OBVIOUS
  <2>4. /\ mid.bufferType \in Texts /\ NodesOK(mid.nodes, F.root, F.head) /\ SameNames(s.nodes, mid.nodes)
        /\ OpenOK(mid.nodes, mid.open, F.root) /\ Segmented(mid.open, s.active)
        /\ TemplatesIn(mid.nodes, mid.open) \subseteq TemplatesIn(s.nodes, s.open) \union {Len(mid.nodes)}
    BY <1>1, <2>1, <2>3, NewIsPushed
  <2>5. mid.active = s.active /\ mid.form = s.form /\ mid.templateModes = s.templateModes
    BY <1>1 DEF NewOnStack
  <2>6. ActiveOK(mid.nodes, s.active) /\ FormOK(mid.nodes, s.form)
    BY <2>2, <2>4, ActiveGrows, FormGrows DEF Core
  <2>7. ActiveOK(u.nodes, u.active) /\ Segmented(u.open, u.active)
    <3>1. Marker \notin DOMAIN mid.nodes /\ \A a \in DOMAIN mid.open : mid.open[a] \in DOMAIN mid.nodes
      <4>1. \A n \in DOMAIN mid.nodes : n \in Nat
        BY <2>4, NodeFields DEF NodesOK, Sound
      <4> QED
        BY <2>4, <4>1, VectorFacts DEF OpenOK, Marker
    <3> QED
      BY <1>4, <2>4, <2>5, <2>6, <3>1, MarkerListed
  <2>8. TemplatesOK(u.nodes, u.open, u.templateModes)
    <3>1. Typed(s.nodes) /\ TemplatesOK(s.nodes, s.open, s.templateModes)
      BY <2>2 DEF Core, NodesOK, Sound
    <3>2. "InTemplate" \in ContentModes
      BY DEF ContentModes
    <3>3. TemplatesIn(mid.nodes, mid.open) \subseteq TemplatesIn(s.nodes, s.open) \union {Len(mid.nodes)}
      BY <2>4
    <3> DEFINE n == Len(mid.nodes)
               modes == s.templateModes
               open == s.open
    <3> HIDE DEF n, modes, open
    <3>4. TemplatesOK(mid.nodes, mid.open, Append(modes, "InTemplate"))
      BY <3>1, <3>2, <3>3, OneTemplateMore DEF n, modes, open
    <3> QED
      BY <1>4, <2>5, <3>4 DEF modes
  <2>9. Core(u)
    BY <1>1, <1>3, <1>4, <2>2, <2>4, <2>5, <2>6, <2>7, <2>8 DEF Core, NewOnStack, Rest
  <2> QED
    BY <1>1, <1>4, <1>6, <2>1, <2>9 DEF NewOnStack
<1>7. Opens(s, u)
  BY <1>4, <1>5, <1>6 DEF Opens
<1> QED
  BY <1>7 DEF u

-----------------------------------------------------------------------------
(* A start tag of a text element or a template settles.                    *)

LEMMA TopOfAppend ==
  ASSUME NEW S, NEW v \in Seq(S), NEW e
  PROVE  /\ Len(Append(v, e)) = Len(v) + 1 /\ Len(v) \in Nat /\ Append(v, e)[Len(v) + 1] = e
         /\ DOMAIN Append(v, e) = DOMAIN v \union {Len(v) + 1} /\ DOMAIN v = 1 .. Len(v)
         /\ \A i \in 1 .. Len(v) : Append(v, e)[i] = v[i]
         /\ Popped(Append(v, e)) = v
<1>1. v \in Seq(S \union {e}) /\ e \in S \union {e}
  <2>1. Seq(S) \subseteq Seq(S \union {e})
    OBVIOUS
  <2> QED
    BY <2>1
<1>2. /\ Len(Append(v, e)) = Len(v) + 1 /\ Len(v) \in Nat /\ Append(v, e)[Len(v) + 1] = e
      /\ DOMAIN Append(v, e) = DOMAIN v \union {Len(v) + 1} /\ DOMAIN v = 1 .. Len(v)
      /\ \A i \in 1 .. Len(v) : Append(v, e)[i] = v[i]
  BY <1>1, AppendIs
<1>3. SubSeq(Append(v, e), 1, Len(v)) = v
  BY <1>1
<1>4. Popped(Append(v, e)) = v
  BY <1>2, <1>3 DEF Popped
<1> QED
  BY <1>2, <1>4

\* The text modes can be entered from every mode in which the stack fits.
LEMMA TextSettles ==
  ASSUME NEW s, NEW u, s.sound => Core(s), Opens(s, u), Fits(s.mode, s.nodes, s.open, s.root, s.head), u.mode = "Text",
         u.open = Append(s.open, Len(u.nodes)), u.original = s.mode, u.sound => Plain(u.nodes, Len(u.nodes))
  PROVE  Settled(u)
<1>1. SUFFICES ASSUME u.sound PROVE Core(u) /\ Modal(u)
  BY DEF Opens, Settled
<1>2. /\ s.sound /\ Core(u) /\ SameNames(s.nodes, u.nodes) /\ u.root = s.root /\ u.head = s.head
      /\ Plain(u.nodes, Len(u.nodes))
  BY <1>1 DEF Opens
<1>3. s.open \in Seq(DOMAIN s.nodes)
  BY <1>2 DEF Core, OpenOK
<1> DEFINE n == Len(u.nodes)
<1>4. /\ Len(u.open) = Len(s.open) + 1 /\ Len(s.open) \in Nat /\ u.open[Len(s.open) + 1] = n
      /\ Popped(u.open) = s.open
  <2> HIDE DEF n
  <2>1. u.open = Append(s.open, n)
    BY DEF n
  <2> QED
    BY <1>3, <2>1, TopOfAppend
<1>5. Fits(s.mode, u.nodes, s.open, u.root, u.head)
  BY <1>2, <1>3, FitsGrows
<1>6. Modal(u)
  <2>1. Len(u.open) >= 1 /\ u.open[Len(u.open)] = n
    BY <1>4
  <2> QED
    BY <1>2, <1>4, <1>5, <2>1 DEF Modal
<1> QED
  BY <1>2, <1>6

\* The new element is not the head.
LEMMA NewIsNotHead ==
  ASSUME NEW s, Core(s), NEW n, n \notin DOMAIN s.nodes, n # NoNode
  PROVE  n # s.head /\ \A i \in DOMAIN s.open : s.open[i] # n
<1>1. s.head # NoNode => s.head \in DOMAIN s.nodes
  BY DEF Core, NodesOK
<1>2. s.open \in Seq(DOMAIN s.nodes)
  BY DEF Core, OpenOK
<1> QED
  BY <1>1, <1>2, VectorFacts

LEMMA NodesAreNotNone ==
  ASSUME NEW s, Core(s), NEW n \in DOMAIN s.nodes
  PROVE  n # NoNode
BY NodeFields DEF Core, NodesOK, Sound

LEMMA OpensContent ==
  ASSUME NEW s, NEW F, K(s, F), ContentFrame(F), NEW u, Opens(s, u)
  PROVE  Settled(u)
<1>1. SUFFICES ASSUME u.sound PROVE Settled(u)
  BY DEF Settled, Opens
<1>2. /\ Rec(u) /\ s.sound /\ Core(u) /\ Core(s) /\ SameNames(s.nodes, u.nodes) /\ u.root = s.root /\ u.head = s.head
  BY <1>1 DEF Opens, K
<1>3. /\ s.root = F.root /\ s.head = F.head /\ s.mode \in F.modes /\ s.original = F.original
      /\ Begins(s.open, F.base, F.head) /\ Stops(s.nodes, F.base)
  BY <1>2 DEF K, Held, ContentFrame
<1>4. Stops(u.nodes, F.base)
  BY <1>2, <1>3, StopsGrows DEF Begins
<1>5. CASE u.open = s.open /\ u.mode = s.mode /\ u.original = s.original
  <2>1. K(u, F)
    BY <1>2, <1>3, <1>4, <1>5 DEF K, Held
  <2> QED
    BY <2>1, ContentSettles
<1>6. CASE /\ u.open = Append(s.open, Len(u.nodes))
           /\ Len(u.nodes) \in DOMAIN u.nodes /\ Len(u.nodes) \notin DOMAIN s.nodes
           /\ u.mode = "Text" /\ u.original = s.mode /\ Plain(u.nodes, Len(u.nodes))
  <2>1. Fits(s.mode, s.nodes, s.open, s.root, s.head)
    BY <1>2, <1>3, ContentIsContained DEF Fits, ContentFrame
  <2> QED
    BY <1>2, <1>6, <2>1, TextSettles
<1>7. CASE /\ u.open = Append(s.open, Len(u.nodes))
           /\ Len(u.nodes) \in DOMAIN u.nodes /\ Len(u.nodes) \notin DOMAIN s.nodes
           /\ u.mode = "InTemplate" /\ u.nodes[Len(u.nodes)].tag = "template" /\ u.nodes[Len(u.nodes)].ns = "html"
  <2> DEFINE n == Len(u.nodes)
             G == [F EXCEPT !.original = u.original]
  <2>1. n # NoNode
    BY <1>2, <1>7, NodesAreNotNone
  <2>2. n # s.head
    BY <1>2, <1>7, <2>1, NewIsNotHead
  <2> HIDE DEF n
  <2>3. s.open \in Seq(DOMAIN s.nodes) /\ u.open = Append(s.open, n)
    BY <1>2, <1>7 DEF Core, OpenOK, n
  <2>4. Begins(u.open, F.base, F.head)
    <3>1. /\ Len(F.base) \in Nat /\ Len(F.base) <= Len(s.open)
          /\ \A i \in 1 .. Len(F.base) : s.open[i] = F.base[i]
          /\ \A i \in DOMAIN s.open : s.open[i] = F.head => i <= Len(F.base)
      BY <1>3 DEF Begins
    <3>2. /\ Len(u.open) = Len(s.open) + 1 /\ Len(s.open) \in Nat /\ u.open[Len(s.open) + 1] = n
          /\ DOMAIN u.open = DOMAIN s.open \union {Len(s.open) + 1} /\ DOMAIN s.open = 1 .. Len(s.open)
          /\ \A i \in 1 .. Len(s.open) : u.open[i] = s.open[i]
      BY <2>3, TopOfAppend
    <3> QED
      BY <1>3, <2>2, <3>1, <3>2 DEF Begins
  <2>5. "InTemplate" \in F.modes /\ "InTemplate" \in Allowed(F.base)
    BY DEF ContentFrame, Allowed, ContentModes
  <2>6. F.stop /\ (F.base = <<F.root>> \/ \E m : F.base = <<F.root, F.head, m>>)
    BY DEF ContentFrame
  <2>7. u.root # NoNode /\ u.head # NoNode
    BY <1>2, <1>3 DEF ContentFrame
  <2> DEFINE H == [modes |-> F.modes, base |-> F.base, stop |-> TRUE, root |-> F.root, head |-> F.head,
                   original |-> u.original]
  <2>8. K(u, H)
    BY <1>2, <1>3, <1>4, <1>7, <2>4, <2>5 DEF K, Held
  <2>9. ContentFrame(H)
    BY DEF ContentFrame
  <2> HIDE DEF H
  <2> QED
    BY <2>8, <2>9, ContentSettles
<1> QED
  BY <1>1, <1>2, <1>5, <1>6, <1>7 DEF Opens

-----------------------------------------------------------------------------
(* reset_insertion_mode_appropriately.                                     *)

NoMode == "Initial"

\* What the tag of an element says about the mode.
LEMMA ModeOf ==
  ASSUME NEW s, NEW i, s.templateModes \in Seq(ContentModes)
  PROVE  LET tag == s.nodes[s.open[i]].tag
             mode == AppropriateMode(s, i)
         IN  /\ tag \notin {"html", "head"} => mode \in ContentModes \union {"InFrameset", NoMode}
             /\ tag = "html" /\ s.head # NoNode => mode = "AfterHead"
             /\ tag = "template" /\ s.templateModes # <<>> => mode # NoMode
             /\ tag = "head" /\ i > 1 => mode = "InHead"
<1> DEFINE tag == s.nodes[s.open[i]].tag
           table == LET around == Greatest({j \in 2 .. i : IsHtml(s, s.open[j], {"template", "table"})})
                    IN  around > 0 /\ IsHtml(s, s.open[around], {"table"})
           mode == AppropriateMode(s, i)
<1>1. mode = CASE tag = "select" -> IF table THEN "InSelectInTable" ELSE "InSelect"
        [] tag \in Cells /\ i > 1 -> "InCell"
        [] tag = "tr" -> "InRow"
        [] tag \in Sections -> "InTableBody"
        [] tag = "caption" -> "InCaption"
        [] tag = "colgroup" -> "InColumnGroup"
        [] tag = "table" -> "InTable"
        [] tag = "template" -> IF s.templateModes = <<>> THEN "Initial" ELSE Top(s.templateModes)
        [] tag = "head" /\ i > 1 -> "InHead"
        [] tag = "body" -> "InBody"
        [] tag = "frameset" -> "InFrameset"
        [] tag = "html" -> IF s.head # NoNode THEN "AfterHead" ELSE "BeforeHead"
        [] OTHER -> IF i = 1 THEN "InBody" ELSE "Initial"
  BY DEF AppropriateMode
<1>2. s.templateModes # <<>> => Top(s.templateModes) \in ContentModes
  BY VectorFacts
<1>3. NoMode \notin ContentModes
  BY DEF NoMode, ContentModes
<1>4. {"InSelectInTable", "InSelect", "InCell", "InRow", "InTableBody", "InCaption", "InColumnGroup", "InTable", "InBody"}
        \subseteq ContentModes
  BY DEF ContentModes
<1> HIDE DEF tag, table, mode
<1>5. tag \notin {"html", "head"} => mode \in ContentModes \union {"InFrameset", NoMode}
  BY <1>1, <1>2, <1>4 DEF NoMode
<1>6. tag = "html" /\ s.head # NoNode => mode = "AfterHead"
  BY <1>1 DEF Cells, Sections
<1>7. tag = "template" /\ s.templateModes # <<>> => mode # NoMode
  BY <1>1, <1>2, <1>3 DEF Cells, Sections
<1>8. tag = "head" /\ i > 1 => mode = "InHead"
  BY <1>1 DEF Cells, Sections
<1> QED
  BY <1>5, <1>6, <1>7, <1>8 DEF tag, mode

\* A template on the stack has its mode.
LEMMA TemplateHasMode ==
  ASSUME NEW nodes, Typed(nodes), NEW open, NEW modes, TemplatesOK(nodes, open, modes), NEW n \in TemplatesIn(nodes, open)
  PROVE  modes # <<>> /\ modes \in Seq(ContentModes) /\ Len(modes) \in Nat /\ Len(modes) >= 1
         /\ IsFiniteSet(TemplatesIn(nodes, open)) /\ Cardinality(TemplatesIn(nodes, open)) \in Nat
<1> DEFINE T == TemplatesIn(nodes, open)
<1>1. modes \in Seq(ContentModes) /\ Cardinality(T) <= Len(modes)
  BY DEF TemplatesOK
<1>2. IsFiniteSet(T)
  <2>1. Len(nodes) \in Nat /\ DOMAIN nodes = 1 .. Len(nodes)
    BY DEF Typed
  <2>2. IsFiniteSet(1 .. Len(nodes))
    BY <2>1, FS_Interval
  <2>3. T \subseteq 1 .. Len(nodes)
    BY <2>1 DEF TemplatesIn
  <2> QED
    BY <2>2, <2>3, FS_Subset
<1>3. T # {}
  OBVIOUS
<1> HIDE DEF T
<1>4. Cardinality(T) \in Nat /\ Cardinality(T) # 0
  BY <1>2, <1>3, FS_CardinalityType, FS_EmptySet
<1>5. Len(modes) \in Nat
  BY <1>1
<1>6. Len(modes) >= 1
  BY <1>1, <1>4, <1>5
<1> QED
  BY <1>1, <1>2, <1>4, <1>5, <1>6 DEF T

\* The highest element of the stack that says something about the mode.
Telling(s) == Greatest({i \in DOMAIN s.open : AppropriateMode(s, i) # "Initial"})

LEMMA TellingIs ==
  ASSUME NEW s, Core(s), NEW i \in DOMAIN s.open, AppropriateMode(s, i) # NoMode
  PROVE  /\ Telling(s) \in DOMAIN s.open /\ Telling(s) >= i /\ AppropriateMode(s, Telling(s)) # NoMode
         /\ Telling(s) \in Int /\ i \in Int
<1> DEFINE S == {j \in DOMAIN s.open : AppropriateMode(s, j) # "Initial"}
<1>1. Len(s.open) \in Nat /\ DOMAIN s.open = 1 .. Len(s.open)
  BY DEF Core, OpenOK
<1>2. i \in S /\ S \in SUBSET (1 .. Len(s.open))
  BY <1>1 DEF NoMode
<1>3. Greatest(S) \in S \union {0} /\ Greatest(S) \in 0 .. Len(s.open) /\ \A y \in S : y <= Greatest(S)
  BY <1>1, <1>2, GreatestIs
<1>4. Greatest(S) >= i /\ i \in 1 .. Len(s.open)
  BY <1>1, <1>2, <1>3
<1>5. Greatest(S) \in S
  <2> HIDE DEF S
  <2>1. Greatest(S) # 0
    BY <1>1, <1>3, <1>4
  <2> QED
    BY <1>3, <2>1
<1> QED
  BY <1>1, <1>3, <1>4, <1>5 DEF Telling, NoMode

LEMMA GoWhereAllowed ==
  ASSUME NEW s, NEW F, K(s, F), NEW mode, s.sound => mode \in F.modes
  PROVE  K(Go(s, mode), F)
<1>1. CASE s.sound
  BY <1>1, GoK
<1>2. CASE ~ s.sound
  BY <1>2 DEF K, Rec, StateFields, Go
<1> QED
  BY <1>1, <1>2 DEF K, Rec

LEMMA ResetModeK ==
  ASSUME NEW s, NEW F, K(s, F), ContentFrame(F)
  PROVE  K(ResetMode(s), F)
<1> DEFINE b == Len(F.base)
           g == Telling(s)
<1>1. ResetMode(s) = Go(s, AppropriateMode(s, g))
  BY DEF ResetMode, Telling
<1>2. ASSUME s.sound PROVE AppropriateMode(s, g) \in F.modes
  <2>1. /\ Core(s) /\ s.root = F.root /\ s.head = F.head /\ Begins(s.open, F.base, F.head) /\ Stops(s.nodes, F.base)
    BY <1>2 DEF K, Held, ContentFrame
  <2>2. /\ F.root # NoNode /\ F.head # NoNode /\ b \in {1, 3} /\ F.base[1] = F.root /\ (b = 3 => F.base[2] = F.head)
        /\ ContentModes \union {"InFrameset"} \subseteq F.modes /\ (b = 1 => "AfterHead" \in F.modes)
    BY ContentFrameFacts
  <2>3. /\ b \in Nat /\ b <= Len(s.open) /\ \A i \in 1 .. b : s.open[i] = F.base[i]
        /\ \A i \in DOMAIN s.open : s.open[i] = F.head => i <= b
    BY <2>1 DEF Begins
  <2>4. /\ Len(s.open) \in Nat /\ DOMAIN s.open = 1 .. Len(s.open) /\ s.open \in Seq(DOMAIN s.nodes)
        /\ \A i, j \in DOMAIN s.open : s.open[i] = s.open[j] => i = j
        /\ \A i \in DOMAIN s.open : s.open[i] \in DOMAIN s.nodes
    BY <2>1, VectorFacts DEF Core, OpenOK
  <2>5. /\ \A n \in DOMAIN s.nodes : (s.nodes[n].tag = "html" => n = F.root) /\ (s.nodes[n].tag = "head" => n = F.head)
        /\ Sound(s.nodes) /\ s.nodes[F.root].tag = "html" /\ s.nodes[F.head].tag = "head"
    BY <2>1, <2>2 DEF Core, NodesOK
  <2>6. s.templateModes \in Seq(ContentModes) /\ TemplatesOK(s.nodes, s.open, s.templateModes)
    BY <2>1 DEF Core, TemplatesOK
  <2>7. b \in DOMAIN s.open
    BY <2>2, <2>3, <2>4
  <2>8. AppropriateMode(s, b) # NoMode
    <3>1. CASE b = 1
      <4>1. s.nodes[s.open[b]].tag = "html"
        BY <2>2, <2>3, <2>5, <3>1
      <4>2. AppropriateMode(s, b) = "AfterHead"
        BY <2>1, <2>2, <2>6, <4>1, ModeOf
      <4> QED
        BY <4>2 DEF NoMode
    <3>2. CASE b = 3
      <4>1. F.base[b] = s.open[b] /\ F.base[b] # F.root
        <5>1. 1 \in DOMAIN s.open /\ 1 # b /\ s.open[1] = F.root
          BY <2>2, <2>3, <2>4, <3>2
        <5> QED
          BY <2>2, <2>3, <2>4, <2>7, <5>1
      <4>2. s.nodes[s.open[b]].tag = "template" /\ s.nodes[s.open[b]].ns = "html"
        BY <2>1, <2>4, <2>5, <2>7, <4>1, <2>3, <3>2 DEF Stops
      <4>3. s.open[b] \in TemplatesIn(s.nodes, s.open)
        BY <2>4, <2>7, <4>2 DEF TemplatesIn, In
      <4>4. s.templateModes # <<>>
        BY <2>5, <2>6, <4>3, TemplateHasMode DEF Sound
      <4> QED
        BY <2>6, <4>2, <4>4, ModeOf
    <3> QED
      BY <2>2, <3>1, <3>2
  <2> HIDE DEF b
  <2>9. g \in DOMAIN s.open /\ g >= b /\ AppropriateMode(s, g) # NoMode /\ g \in Int
    BY <2>1, <2>7, <2>8, TellingIs
  <2> HIDE DEF g
  <2>10. CASE g > b
    <3>1. s.open[g] # F.root /\ s.open[g] # F.head
      <4>1. 1 \in DOMAIN s.open /\ 1 # g /\ s.open[1] = F.root
        BY <2>2, <2>3, <2>4, <2>9, <2>10
      <4> QED
        BY <2>3, <2>4, <2>9, <2>10, <4>1
    <3>2. s.nodes[s.open[g]].tag \notin {"html", "head"}
      BY <2>4, <2>5, <2>9, <3>1
    <3> QED
      BY <2>2, <2>6, <2>9, <3>2, ModeOf
  <2>11. CASE g = b
    <3>1. CASE b = 1
      <4>1. s.nodes[s.open[b]].tag = "html"
        BY <2>2, <2>3, <2>5, <3>1
      <4>2. AppropriateMode(s, b) = "AfterHead"
        BY <2>1, <2>2, <2>6, <4>1, ModeOf
      <4> QED
        BY <2>2, <2>11, <3>1, <4>2
    <3>2. CASE b = 3
      <4>1. 1 \in DOMAIN s.open /\ 1 # b /\ s.open[1] = F.root /\ 2 \in DOMAIN s.open /\ 2 # b /\ s.open[2] = F.head
        BY <2>2, <2>3, <2>4, <3>2
      <4>2. s.nodes[s.open[b]].tag \notin {"html", "head"}
        BY <2>4, <2>5, <2>7, <4>1
      <4> QED
        BY <2>2, <2>6, <2>9, <2>11, <4>2, ModeOf
    <3> QED
      BY <2>2, <3>1, <3>2
  <2> QED
    BY <2>2, <2>3, <2>9, <2>10, <2>11
<1> QED
  BY <1>1, <1>2, GoWhereAllowed

LEMMA NotFixed ==
  /\ {"table"} \intersect Fixed = {} /\ {"select"} \intersect Fixed = {} /\ {"td"} \intersect Fixed = {}
  /\ {"th"} \intersect Fixed = {} /\ {"caption"} \intersect Fixed = {} /\ {"p"} \intersect Fixed = {}
  /\ {"button"} \intersect Fixed = {} /\ {"li"} \intersect Fixed = {} /\ {"dd", "dt"} \intersect Fixed = {}
  /\ {"option"} \intersect Fixed = {} /\ {"optgroup"} \intersect Fixed = {} /\ {"colgroup"} \intersect Fixed = {}
BY DEF Fixed

LEMMA CloseTableK ==
  ASSUME NEW s, NEW F, K(s, F), ContentFrame(F)
  PROVE  K(CloseTable(s), F) /\ K(CloseSelect(s), F)
<1>1. F.stop
  BY ContentFrameFacts
<1>2. K(PopThrough(s, {"table"}), F) /\ K(PopThrough(s, {"select"}), F)
  BY <1>1, NotFixed, PopThroughK
<1> QED
  BY <1>2, ResetModeK DEF CloseTable, CloseSelect

LEMMA CloseCellK ==
  ASSUME NEW s, NEW F, K(s, F), ContentFrame(F), NEW tag, {tag} \intersect Fixed = {}
  PROVE  K(CloseCell(s, tag), F)
<1>1. F.stop
  BY ContentFrameFacts
<1> DEFINE a == GenerateImpliedEndTags(s, {})
           b == PopThrough(a, {tag})
           c == ClearFormatting(b)
<1>2. K(a, F)
  BY <1>1, GenerateK
<1> HIDE DEF a
<1>3. K(b, F)
  BY <1>1, <1>2, PopThroughK
<1> HIDE DEF b
<1>4. K(c, F)
  BY <1>3, ClearFormattingK
<1> HIDE DEF c
<1>5. "InRow" \in F.modes
  BY ContentFrameFacts DEF ContentModes
<1>6. K(Go(c, "InRow"), F)
  BY <1>4, <1>5, GoK
<1> QED
  BY <1>6 DEF CloseCell, a, b, c

LEMMA CloseCurrentCellK ==
  ASSUME NEW s, NEW F, K(s, F), ContentFrame(F)
  PROVE  K(CloseCurrentCell(s), F)
<1> DEFINE h1 == ~ InTableScope(s, {"th"})
           h2 == InTableScope(s, {"th"})
<1>1. h1 \in BOOLEAN /\ h2 \in BOOLEAN
  BY DEF InTableScope, HasInScope
<1>2. CloseCurrentCell(s) = IF InTableScope(s, {"td"}) THEN CloseCell(Claim(s, h1), "td") ELSE CloseCell(Claim(s, h2), "th")
  BY DEF CloseCurrentCell
<1> HIDE DEF h1, h2
<1>3. K(Claim(s, h1), F) /\ K(Claim(s, h2), F)
  BY <1>1, ClaimK
<1>4. K(CloseCell(Claim(s, h1), "td"), F) /\ K(CloseCell(Claim(s, h2), "th"), F)
  BY <1>3, NotFixed, CloseCellK
<1> QED
  BY <1>2, <1>4

-----------------------------------------------------------------------------
(* The end of a template.                                                  *)

\* A template less on the stack needs one template mode less.
LEMMA OneTemplateLess ==
  ASSUME NEW nodes, NEW new, NEW open, NEW left, NEW modes, Typed(nodes), NEW n \in TemplatesIn(nodes, open),
         TemplatesIn(new, left) \subseteq TemplatesIn(nodes, open) \ {n}, TemplatesOK(nodes, open, modes)
  PROVE  TemplatesOK(new, left, Popped(modes))
<1> DEFINE T == TemplatesIn(nodes, open)
           U == TemplatesIn(new, left)
<1>1. /\ modes \in Seq(ContentModes) /\ Len(modes) \in Nat /\ Len(modes) >= 1
      /\ IsFiniteSet(T) /\ Cardinality(T) \in Nat
  BY TemplateHasMode
<1>2. Cardinality(T) <= Len(modes)
  BY DEF TemplatesOK
<1>3. IsFiniteSet(T \ {n}) /\ Cardinality(T \ {n}) = Cardinality(T) - 1
  BY <1>1, FS_RemoveElement
<1>4. U \subseteq T \ {n}
  OBVIOUS
<1> HIDE DEF T, U
<1>5. Cardinality(U) <= Cardinality(T \ {n}) /\ IsFiniteSet(U)
  BY <1>3, <1>4, FS_Subset
<1>6. Cardinality(U) \in Nat /\ Cardinality(T \ {n}) \in Nat
  BY <1>3, <1>5, FS_CardinalityType
<1>7. Popped(modes) \in Seq(ContentModes) /\ Len(Popped(modes)) = Len(modes) - 1
  <2> DEFINE k == Len(modes) - 1
  <2>1. k \in 0 .. Len(modes) /\ 1 \in 1 .. Len(modes) + 1
    BY <1>1
  <2> HIDE DEF k
  <2>2. SubSeq(modes, 1, k) \in Seq(ContentModes) /\ Len(SubSeq(modes, 1, k)) = k
    <3>1. k \in Int /\ 1 - 1 <= k /\ k <= Len(modes) /\ k \in Nat
      BY <1>1, <2>1
    <3>2. \A i \in 1 .. k : modes[i] \in ContentModes
      BY <1>1, <3>1, VectorFacts
    <3>3. SubSeq(modes, 1, k) = [i \in 1 .. k |-> modes[i]]
      BY <1>1, <3>1
    <3> QED
      BY <1>1, <3>1, <3>2, <3>3
  <2> QED
    BY <2>2 DEF Popped, k
<1>8. Cardinality(U) <= Len(Popped(modes))
  BY <1>1, <1>2, <1>3, <1>5, <1>6, <1>7
<1> QED
  BY <1>7, <1>8 DEF TemplatesOK, U

LEMMA ShorterModesK ==
  ASSUME NEW p, NEW G, K(p, G), p.sound => TemplatesOK(p.nodes, p.open, Popped(p.templateModes))
  PROVE  LET u == PopTemplateMode(ClearFormatting(p)) IN K(u, G) /\ u.open = p.open /\ u.sound = p.sound
<1> DEFINE c == ClearFormatting(p)
           u == PopTemplateMode(c)
           marker == Greatest({i \in DOMAIN p.active : p.active[i] = Marker})
<1>1. K(c, G)
  BY ClearFormattingK
<1>2. c = [p EXCEPT !.active = SubSeq(@, 1, marker - 1)]
  BY DEF ClearFormatting
<1> HIDE DEF c, marker
<1>3. c.open = p.open /\ c.sound = p.sound /\ c.nodes = p.nodes /\ c.templateModes = p.templateModes
  BY <1>2 DEF K, Rec, StateFields
<1>4. /\ Rec(u) /\ u.sound = c.sound /\ u.nodes = c.nodes /\ u.open = c.open /\ u.active = c.active /\ u.form = c.form
      /\ u.root = c.root /\ u.head = c.head /\ u.mode = c.mode /\ u.original = c.original /\ u.rules = c.rules
      /\ u.bufferType = c.bufferType /\ u.templateModes = Popped(c.templateModes)
  BY <1>1 DEF K, Rec, StateFields, PopTemplateMode
<1> HIDE DEF u
<1>5. ASSUME u.sound PROVE Core(u) /\ Held(u, G)
  <2>1. Core(c) /\ Held(c, G)
    BY <1>1, <1>4, <1>5 DEF K
  <2>2. Core(u)
    BY <1>3, <1>4, <1>5, <2>1 DEF Core
  <2>3. Held(u, G)
    BY <1>4, <2>1 DEF Held
  <2> QED
    BY <2>2, <2>3
<1>6. K(u, G)
  BY <1>4, <1>5 DEF K
<1> QED
  BY <1>3, <1>4, <1>6 DEF u, c

\* Popping a template leaves one less.
LEMMA TemplatePopped ==
  ASSUME NEW s, NEW F, K(s, F), NEW p, NEW place, Popping(s, p, place - 1), p.sound,
         place \in DOMAIN s.open, IsHtml(s, s.open[place], {"template"})
  PROVE  /\ TemplatesOK(p.nodes, p.open, Popped(p.templateModes))
         /\ p.open = SubSeq(s.open, 1, place - 1) /\ Len(s.open) \in Nat /\ place \in 1 .. Len(s.open)
<1>1. /\ s.sound /\ SameNames(s.nodes, p.nodes) /\ p.templateModes = s.templateModes
      /\ p.open = IF Len(s.open) <= place - 1 THEN s.open ELSE SubSeq(s.open, 1, place - 1)
  BY DEF Popping, Rest
<1>2. Len(s.open) \in Nat /\ DOMAIN s.open = 1 .. Len(s.open) /\ OpenOK(s.nodes, s.open, F.root)
      /\ \A i \in DOMAIN s.open : s.open[i] \in DOMAIN s.nodes
  BY <1>1, HeldFacts
<1>3. place \in 1 .. Len(s.open)
  BY <1>2
<1> DEFINE k == place - 1
           left == SubSeq(s.open, 1, k)
<1>4. k \in Nat /\ k <= Len(s.open) /\ ~ (Len(s.open) <= k)
  BY <1>2, <1>3
<1>5. p.open = left
  BY <1>1, <1>4
<1>6. /\ Len(left) = k /\ DOMAIN left = 1 .. k /\ \A i \in 1 .. k : left[i] = s.open[i]
  <2> HIDE DEF k
  <2> QED
    BY <1>2, <1>4, OpenPrefix
<1> DEFINE n == s.open[place]
<1>7. n \in TemplatesIn(s.nodes, s.open)
  BY <1>2 DEF TemplatesIn, In, IsHtml, IsElement
<1>8. ASSUME NEW m \in TemplatesIn(p.nodes, p.open)
      PROVE  m \in TemplatesIn(s.nodes, s.open) \ {n}
  <2> HIDE DEF left
  <2>1. PICK i \in DOMAIN p.open : p.open[i] = m
    BY DEF TemplatesIn, In
  <2>2. i \in 1 .. k /\ m = s.open[i]
    BY <1>5, <1>6, <2>1
  <2>3. i \in DOMAIN s.open /\ i # place
    BY <1>2, <1>3, <2>2
  <2>4. m \in DOMAIN s.nodes /\ m # n
    BY <1>2, <2>2, <2>3 DEF OpenOK
  <2> QED
    BY <1>1, <2>2, <2>3, <2>4 DEF TemplatesIn, In, SameNames
<1>9. Typed(s.nodes) /\ TemplatesOK(s.nodes, s.open, s.templateModes)
  BY <1>1 DEF K, Core, NodesOK, Sound
<1> HIDE DEF n, left, k
<1>10. TemplatesOK(p.nodes, p.open, Popped(s.templateModes))
  BY <1>7, <1>8, <1>9, OneTemplateLess
<1> QED
  BY <1>1, <1>2, <1>3, <1>5, <1>10 DEF left, k

\* The template at the base has been popped: only root and head are left.
LEMMA HeadIsLeft ==
  ASSUME NEW u, NEW G, K(u, G), G.head # NoNode, G.root # NoNode, u.sound => Len(u.open) = 2 /\ u.open[2] = G.head
  PROVE  Settled(ResetMode(u))
<1> DEFINE g == Telling(u)
           v == ResetMode(u)
<1>1. v = Go(u, AppropriateMode(u, g))
  BY DEF ResetMode, Telling
<1>2. /\ Rec(v) /\ v.sound = u.sound /\ v.nodes = u.nodes /\ v.open = u.open /\ v.active = u.active /\ v.form = u.form
      /\ v.root = u.root /\ v.head = u.head /\ v.mode = AppropriateMode(u, g) /\ v.rules = u.rules
      /\ v.bufferType = u.bufferType /\ v.templateModes = u.templateModes
  BY <1>1 DEF K, Rec, StateFields, Go
<1> HIDE DEF v
<1>3. ASSUME v.sound PROVE Core(v) /\ Modal(v)
  <2>1. Core(u) /\ u.root = G.root /\ u.head = G.head /\ Len(u.open) = 2 /\ u.open[2] = G.head
    BY <1>2, <1>3 DEF K, Held
  <2>2. DOMAIN u.open = 1 .. 2 /\ u.nodes[u.open[2]].tag = "head" /\ u.templateModes \in Seq(ContentModes)
    <3>1. DOMAIN u.open = 1 .. Len(u.open)
      BY <2>1 DEF Core, OpenOK
    <3> QED
      BY <2>1, <3>1 DEF Core, NodesOK, TemplatesOK
  <2>3. AppropriateMode(u, 2) = "InHead"
    BY <2>2, ModeOf
  <2>4. g = 2
    <3>1. 2 \in DOMAIN u.open /\ AppropriateMode(u, 2) # NoMode
      BY <2>2, <2>3 DEF NoMode
    <3>2. g \in DOMAIN u.open /\ g >= 2
      BY <2>1, <3>1, TellingIs
    <3> HIDE DEF g
    <3> QED
      BY <2>2, <3>2
  <2>5. v.mode = "InHead"
    BY <1>2, <2>3, <2>4
  <2>6. Core(v)
    BY <1>2, <2>1 DEF Core
  <2>7. Modal(v)
    BY <1>2, <2>1, <2>5 DEF Modal, Fits
  <2> QED
    BY <2>6, <2>7
<1> QED
  BY <1>2, <1>3 DEF Settled, v

LEMMA CloseTemplateSettles ==
  ASSUME NEW s, NEW F, K(s, F), ContentFrame(F)
  PROVE  Settled(CloseTemplate(s))
<1> DEFINE place == PlaceOf(s, {"template"})
           mid == PopTo(s, place - 1)
           p == PopThrough(s, {"template"})
           u == PopTemplateMode(ClearFormatting(p))
           b == Len(F.base)
           holds == place > 0
<1>1. CloseTemplate(s) = ResetMode(u)
  BY DEF CloseTemplate
<1>2. p = Claim(IF place = 0 THEN s ELSE mid, holds)
  BY DEF PopThrough, PopOff
<1>3. place \in Nat
  BY OpenPlaces DEF PlaceOf
<1>4. F.root # NoNode /\ F.head # NoNode /\ F.stop /\ b \in {1, 3} /\ F.base[1] = F.root /\ (b = 3 => F.base[2] = F.head)
  BY ContentFrameFacts
<1> HIDE DEF mid, p, holds, place
<1>5. ASSUME s.sound, place # 0
      PROVE  /\ place \in DOMAIN s.open /\ IsHtml(s, s.open[place], {"template"})
             /\ place > b \/ (place = b /\ b = 3)
  <2>1. place \in 0 .. Len(s.open) /\ place \in DOMAIN s.open /\ IsHtml(s, s.open[place], {"template"})
        /\ \A i \in DOMAIN s.open : IsHtml(s, s.open[i], {"template"}) => i <= place
    BY <1>5, KIsRooted, PlaceOfIs DEF place
  <2>2. b \in DOMAIN s.open /\ s.nodes[s.open[b]].ns = "html" /\ s.nodes[s.open[b]].tag \in {"html", "template"}
    BY <1>4, <1>5, BaseFacts
  <2>3. place # 1
    <3>1. s.open[1] = F.root /\ s.nodes[F.root].tag = "html"
      <4>1. 1 \in 1 .. b
        BY <1>4
      <4> QED
        BY <1>4, <1>5, <4>1 DEF K, Held, Begins, Core, NodesOK
    <3> QED
      BY <2>1, <3>1 DEF IsHtml, IsElement
  <2>4. b = 3 => IsHtml(s, s.open[b], {"template"})
    <3>1. ASSUME b = 3 PROVE s.open[b] # s.root
      <4>1. 1 \in DOMAIN s.open /\ b \in DOMAIN s.open /\ 1 # b /\ s.open # <<>>
        <5>1. Len(s.open) \in Nat /\ DOMAIN s.open = 1 .. Len(s.open) /\ (s.open # <<>> <=> Len(s.open) # 0)
          BY <1>5, HeldFacts
        <5> QED
          BY <2>2, <3>1, <5>1
      <4> QED
        BY <1>5, <4>1 DEF K, Core, OpenOK
    <3>2. s.open[b] \in DOMAIN s.nodes
      BY <1>5, <2>2, HeldFacts
    <3>3. s.nodes[s.open[b]].tag = "html" => s.open[b] = s.root
      BY <1>5, <3>2 DEF K, Core, NodesOK
    <3> QED
      BY <2>2, <3>1, <3>3 DEF IsHtml, IsElement
  <2>5. place \in Nat /\ b \in Nat
    BY <1>3, <1>4
  <2> HIDE DEF b
  <2>6. CASE b = 1
    BY <1>5, <2>1, <2>3, <2>5, <2>6
  <2>7. CASE b = 3
    BY <2>1, <2>2, <2>4, <2>5, <2>7
  <2> QED
    BY <1>4, <2>6, <2>7
<1>6. place - 1 \in Int
  BY <1>3
<1>7. Popping(s, mid, place - 1)
  BY <1>6, KIsRooted, PopToIs DEF mid
<1>8. holds \in BOOLEAN /\ (holds => place # 0)
  BY <1>3 DEF holds
<1>9. ASSUME p.sound
      PROVE  /\ s.sound /\ place # 0
             /\ TemplatesOK(p.nodes, p.open, Popped(p.templateModes)) /\ p.open = SubSeq(s.open, 1, place - 1)
  <2>1. Rec(s) /\ Rec(mid)
    BY <1>7 DEF K, Popping, Rest
  <2>2. place # 0 /\ mid.sound
    BY <1>2, <1>8, <1>9, <2>1 DEF Claim, Rec, StateFields
  <2>3. p.nodes = mid.nodes /\ p.open = mid.open /\ p.templateModes = mid.templateModes
    BY <1>2, <2>1, <2>2 DEF Claim, Rec, StateFields
  <2>4. s.sound
    BY <1>7, <2>2 DEF Popping, Rest
  <2>5. place \in DOMAIN s.open /\ IsHtml(s, s.open[place], {"template"})
    BY <1>5, <2>2, <2>4
  <2> QED
    BY <1>7, <2>2, <2>3, <2>4, <2>5, TemplatePopped
<1>10. CASE s.sound => place = 0 \/ place > b
  <2>1. K(p, F)
    BY <1>3, <1>10, PopOffK DEF p, PopThrough, place
  <2>2. K(u, F)
    BY <1>9, <2>1, ShorterModesK
  <2> HIDE DEF u
  <2>3. K(ResetMode(u), F)
    BY <2>2, ResetModeK
  <2> QED
    BY <1>1, <2>3, ContentSettles
<1>11. CASE s.sound /\ place = b /\ b = 3
  <2> DEFINE G == [modes |-> F.modes, base |-> <<F.root, F.head>>, stop |-> FALSE, root |-> F.root, head |-> F.head,
                   original |-> F.original]
  <2>1. Len(G.base) = 2 /\ G.base[1] = F.root /\ G.base[2] = F.head
    OBVIOUS
  <2>2. /\ b \in Nat /\ b <= Len(s.open) /\ \A i \in 1 .. b : s.open[i] = F.base[i]
        /\ OpenOK(s.nodes, s.open, F.root) /\ Len(s.open) \in Nat /\ DOMAIN s.open = 1 .. Len(s.open)
    BY <1>11, HeldFacts DEF Begins
  <2>3. s.open[1] = F.root /\ s.open[2] = F.head
    BY <1>4, <1>11, <2>2
  <2>4. Begins(s.open, G.base, F.head)
    <3>1. Len(G.base) \in Nat /\ Len(G.base) <= Len(s.open)
      BY <1>11, <2>1, <2>2
    <3>2. \A i \in 1 .. Len(G.base) : s.open[i] = G.base[i]
      BY <2>1, <2>3
    <3>3. \A i \in DOMAIN s.open : s.open[i] = F.head => i = 2
      <4>1. 2 \in DOMAIN s.open
        BY <1>11, <2>2
      <4> QED
        BY <2>2, <2>3, <4>1 DEF OpenOK
    <3> HIDE DEF G
    <3> QED
      BY <2>1, <3>1, <3>2, <3>3 DEF Begins
  <2>5. K(s, G)
    BY <1>11, <2>4 DEF K, Held
  <2>6. G.head = F.head /\ G.root = F.root
    OBVIOUS
  <2> HIDE DEF G
  <2>7. place > Len(G.base)
    BY <1>11, <2>1
  <2>8. K(p, G)
    BY <1>3, <2>5, <2>7, PopOffK DEF p, PopThrough, place
  <2>9. K(u, G) /\ u.open = p.open /\ u.sound = p.sound
    BY <1>9, <2>8, ShorterModesK
  <2> HIDE DEF u
  <2>10. ASSUME u.sound PROVE Len(u.open) = 2 /\ u.open[2] = F.head
    <3>1. u.open = SubSeq(s.open, 1, 2)
      BY <1>9, <1>11, <2>9, <2>10
    <3>2. Len(SubSeq(s.open, 1, 2)) = 2 /\ SubSeq(s.open, 1, 2)[2] = s.open[2]
      <4>1. 2 \in Nat /\ 2 <= Len(s.open) /\ 2 \in 1 .. 2
        BY <1>11, <2>2
      <4> QED
        BY <2>2, <4>1, OpenPrefix
    <3> QED
      BY <2>3, <3>1, <3>2
  <2> QED
    BY <1>1, <1>4, <2>6, <2>9, <2>10, HeadIsLeft
<1> QED
  BY <1>5, <1>10, <1>11

-----------------------------------------------------------------------------
(* The tags of the head, wherever they stand.                              *)

HeadStarts == MetadataTags \union {"menuitem"}

LEMMA InHeadOpens ==
  ASSUME NEW s, NEW F, K(s, F), Based(F), NEW t, Starts(t, HeadStarts)
  PROVE  Opens(s, InHead(s, t))
<1>1. t.type = "StartTag" /\ t.tag \in HeadStarts
  BY DEF Starts
<1>2. CASE t.tag \in {"base", "basefont", "bgsound", "menuitem", "link", "meta"}
  <2>1. InHead(s, t) = InsertVoid(s, t)
    BY <1>1, <1>2 DEF InHead, Starts, Ends
  <2>2. t.tag \notin Fixed
    BY <1>2 DEF Fixed
  <2> QED
    BY <2>1, <2>2, VoidOpens
<1>3. CASE t.tag \in {"title", "noframes", "style", "script"}
  <2>1. InHead(s, t) = RunGenericParsing(s, t, "text")
    BY <1>1, <1>3 DEF InHead, Starts, Ends
  <2>2. t.tag \notin Fixed
    BY <1>3 DEF Fixed
  <2> QED
    BY <2>1, <2>2, GenericOpens
<1>4. CASE t.tag = "template"
  <2>1. InHead(s, t) = StartTemplate(s, t)
    BY <1>1, <1>4 DEF InHead, Starts, Ends, StartTemplate
  <2> QED
    BY <1>4, <2>1, TemplateOpens
<1> QED
  BY <1>1, <1>2, <1>3, <1>4 DEF HeadStarts, MetadataTags

\* What other handlers hand on to handle_in_head.
ForHead(t) == Starts(t, HeadStarts) \/ Ends(t, {"template"})

LEMMA InHeadContent ==
  ASSUME NEW s, NEW F, K(s, F), ContentFrame(F), NEW t, ForHead(t)
  PROVE  Settled(InHead(s, t))
<1>1. Based(F) /\ F.stop
  BY ContentFrameFacts
<1>2. CASE Starts(t, HeadStarts)
  BY <1>1, <1>2, InHeadOpens, OpensContent
<1>3. CASE Ends(t, {"template"})
  <2>1. t.type = "EndTag" /\ t.tag = "template"
    BY <1>3 DEF Ends
  <2>2. InHead(s, t) = IF HasOpen(s, "template") THEN CloseTemplate(GenerateAllImpliedEndTags(s)) ELSE s
    BY <2>1 DEF InHead, Starts, Ends
  <2>3. K(GenerateAllImpliedEndTags(s), F)
    BY <1>1, GenerateK
  <2>4. Settled(CloseTemplate(GenerateAllImpliedEndTags(s)))
    BY <2>3, CloseTemplateSettles
  <2> QED
    BY <2>2, <2>4, ContentSettles
<1> QED
  BY <1>2, <1>3 DEF ForHead

-----------------------------------------------------------------------------
(* Handlers that hand a token on.                                          *)

\* The handler of another mode is to be called, with a state that keeps the frame.
Handed(u, F, rules) == u.rules = rules /\ K(HandOn(u, "none"), F)

LEMMA HandOnHands ==
  ASSUME NEW s, NEW F, K(s, F), NEW rules
  PROVE  Handed(HandOn(s, rules), F, rules)
<1> DEFINE u == HandOn(s, rules)
           v == HandOn(u, "none")
<1>1. u.rules = rules
  BY DEF K, Rec, StateFields, HandOn
<1>2. /\ Rest(s, v) /\ v.nodes = s.nodes /\ v.open = s.open /\ v.form = s.form /\ v.active = s.active
      /\ v.templateModes = s.templateModes /\ v.bufferType = s.bufferType
  BY DEF K, Rec, Rest, StateFields, HandOn
<1> HIDE DEF u, v
<1>3. s.sound => v.bufferType \in Texts
  BY <1>2 DEF K, Core
<1>4. K(v, F)
  BY <1>2, <1>3, KeptByNothing
<1> QED
  BY <1>1, <1>4 DEF Handed, u, v

-----------------------------------------------------------------------------
(* Formatting elements.                                                    *)

LEMMA StartFormattingK ==
  ASSUME NEW s, NEW F, K(s, F), Based(F), NEW t, t.tag \notin Unlisted
  PROVE  K(StartFormatting(s, t), F)
BY ReconstructK, AddNewK DEF StartFormatting

LEMMA StartAnchorK ==
  ASSUME NEW s, NEW F, K(s, F), Based(F), F.stop, NEW t, t.tag \notin Unlisted
  PROVE  K(StartAnchor(s, t), F)
<1>1. "a" \in AdoptedTags
  BY DEF AdoptedTags
<1>2. K(Adopt(s, "a"), F)
  BY <1>1, AdoptK
<1>3. K(CloseAnchor(Adopt(s, "a")), F)
  BY <1>2, CloseAnchorK
<1> DEFINE mid == IF FormattingPlace(s, "a") = 0 THEN s ELSE CloseAnchor(Adopt(s, "a"))
<1>4. K(mid, F)
  BY <1>3
<1>5. StartAnchor(s, t) = StartFormatting(mid, t)
  BY DEF StartAnchor
<1> HIDE DEF mid
<1> QED
  BY <1>4, <1>5, StartFormattingK

LEMMA StartNobrK ==
  ASSUME NEW s, NEW F, K(s, F), Based(F), F.stop, NEW t, t.tag \notin Unlisted
  PROVE  K(StartNobr(s, t), F)
<1>1. "nobr" \in AdoptedTags
  BY DEF AdoptedTags
<1> DEFINE a == Reconstruct(s)
           b == CloseNobr(a)
<1>2. K(a, F)
  BY ReconstructK
<1> HIDE DEF a
<1>3. K(Adopt(a, "nobr"), F)
  BY <1>1, <1>2, AdoptK
<1>4. K(Reconstruct(Adopt(a, "nobr")), F)
  BY <1>3, ReconstructK
<1>5. K(b, F)
  BY <1>2, <1>4 DEF CloseNobr
<1> HIDE DEF b
<1>6. K(AddCurrent(InsertTag(b, t)), F)
  BY <1>5, AddNewK
<1> QED
  BY <1>6 DEF StartNobr, a, b

LEMMA InsertedK ==
  ASSUME NEW s, NEW F, K(s, F), Based(F), NEW t, t.tag \notin Fixed
  PROVE  K(InsertTag(Reconstruct(s), t), F) /\ K(InsertVoid(Reconstruct(s), t), F)
<1> DEFINE a == Reconstruct(s)
<1>1. K(a, F)
  BY ReconstructK
<1> HIDE DEF a
<1>2. K(InsertTag(a, t), F) /\ K(InsertVoid(a, t), F)
  BY <1>1, InsertTagK, InsertVoidK
<1> QED
  BY <1>2 DEF a

LEMMA LeaveOptionK ==
  ASSUME NEW s, NEW F, K(s, F), F.stop
  PROVE  K(LeaveOption(s), F) /\ K(LeaveOptgroup(s), F)
<1>1. {"option"} \intersect Fixed = {} /\ {"optgroup"} \intersect Fixed = {}
  BY NotFixed
<1>2. NoTag \notin {"option"} /\ NoTag \notin {"optgroup"}
  BY DEF NoTag
<1>3. CurrentIs(s, {"option"}) => K(Pop(s), F)
  BY <1>1, <1>2, PopNamedK
<1>4. CurrentIs(s, {"optgroup"}) => K(Pop(s), F)
  BY <1>1, <1>2, PopNamedK
<1> QED
  BY <1>3, <1>4 DEF LeaveOption, LeaveOptgroup

LEMMA StartRubyK ==
  ASSUME NEW s, NEW F, K(s, F), Based(F), F.stop, NEW t, t.tag \notin Fixed
  PROVE  K(StartRuby(s, t), F)
<1> DEFINE except == IF t.tag \in {"rt", "rp"} THEN {"rtc"} ELSE {}
           mid == IF InScope(s, {"ruby"}) THEN GenerateImpliedEndTags(s, except) ELSE s
<1>1. K(GenerateImpliedEndTags(s, except), F)
  BY GenerateK
<1>2. K(mid, F)
  BY <1>1
<1>3. StartRuby(s, t) = InsertTag(mid, t)
  BY DEF StartRuby
<1> HIDE DEF mid
<1> QED
  BY <1>2, <1>3, InsertTagK

LEMMA EndAtOnceK ==
  ASSUME NEW s, NEW F, K(s, F), NEW u, NEW t, NEW ns, NewOnStack(s, u, t.tag, ns), K(u, F)
  PROVE  K(EndAtOnce(u, t), F)
BY PopNewK DEF EndAtOnce

LEMMA StartForeignK ==
  ASSUME NEW s, NEW F, K(s, F), Based(F), NEW t, t.tag \notin {"html", "head"}, NEW ns, ns # "html"
  PROVE  K(StartForeign(s, t, ns), F)
<1> DEFINE a == Reconstruct(s)
           u == InsertForeign(a, t, ns)
<1>1. K(a, F)
  BY ReconstructK
<1> HIDE DEF a
<1>2. K(u, F) /\ NewOnStack(a, u, t.tag, ns)
  BY <1>1, InsertForeignK
<1> HIDE DEF u
<1>3. K(EndAtOnce(u, t), F)
  BY <1>1, <1>2, EndAtOnceK
<1> QED
  BY <1>3 DEF StartForeign, a, u

LEMMA StartSelectK ==
  ASSUME NEW s, NEW F, K(s, F), Based(F), ContentModes \subseteq F.modes, NEW t, t.tag \notin Fixed
  PROVE  K(StartSelect(s, t), F)
<1> DEFINE a == InsertTag(Reconstruct(s), t)
           b == NoFrameset(a)
           mode == IF s.mode \in {"InTable", "InCaption", "InTableBody", "InRow", "InCell"}
                THEN "InSelectInTable" ELSE "InSelect"
<1>1. K(a, F)
  BY InsertedK
<1> HIDE DEF a
<1>2. K(b, F)
  BY <1>1, NoFramesetK
<1> HIDE DEF b
<1>3. mode \in F.modes
  BY DEF ContentModes
<1> HIDE DEF mode
<1>4. K(Go(b, mode), F)
  BY <1>2, <1>3, GoK
<1> QED
  BY <1>4 DEF StartSelect, a, b, mode

-----------------------------------------------------------------------------
(* handle_in_body: the start tags from that of the link on.                *)

LEMMA SettledK ==
  ASSUME NEW F, ContentFrame(F), NEW u, K(u, F)
  PROVE  Settled(u)
BY ContentSettles

LEMMA GenericContent ==
  ASSUME NEW s, NEW F, K(s, F), ContentFrame(F), NEW t, t.tag \notin Fixed, NEW lexer
  PROVE  Settled(RunGenericParsing(s, t, lexer))
BY GenericOpens, OpensContent, ContentFrameFacts

LEMMA StartInlineSettles ==
  ASSUME NEW s, NEW F, K(s, F), ContentFrame(F), NEW t, DOMAIN t = TokenFields, t.tag \notin {"html", "template"}
  PROVE  Settled(StartInline(s, t))
<1> DEFINE tag == t.tag
           u == StartInline(s, t)
           img == [t EXCEPT !.tag = "img"]
           shut == IF s.quirks THEN s ELSE CloseP(s)
           left == IF CurrentIs(s, {"option"}) THEN Pop(s) ELSE s
           counted == IF IsHidden(t) THEN s ELSE NoFrameset(s)
<1>1. \/ tag = "a" /\ u = StartAnchor(s, t)
      \/ tag \in FormattingTags /\ u = StartFormatting(s, t)
      \/ tag = "nobr" /\ u = StartNobr(s, t)
      \/ tag \in ObjectTags /\ u = NoFrameset(AddMarker(InsertTag(Reconstruct(s), t)))
      \/ tag = "table" /\ u = Go(NoFrameset(InsertTag(shut, t)), "InTable")
      \/ tag \in {"area", "br", "embed", "img", "keygen", "wbr"} /\ u = NoFrameset(InsertVoid(Reconstruct(s), t))
      \/ tag = "image" /\ u = NoFrameset(InsertVoid(Reconstruct(s), img))
      \/ tag = "input" /\ u = InsertVoid(Reconstruct(counted), t)
      \/ tag \in {"param", "source", "track"} /\ u = InsertVoid(s, t)
      \/ tag = "hr" /\ u = NoFrameset(InsertVoid(CloseP(s), t))
      \/ tag = "isindex" /\ u = StartIsindex(s)
      \/ tag = "textarea" /\ u = [NoFrameset(RunGenericParsing(s, t, "text")) EXCEPT !.skipLinefeed = TRUE]
      \/ tag = "xmp" /\ u = RunGenericParsing(NoFrameset(Reconstruct(CloseP(s))), t, "text")
      \/ tag = "iframe" /\ u = RunGenericParsing(NoFrameset(s), t, "text")
      \/ tag = "noembed" /\ u = RunGenericParsing(s, t, "text")
      \/ tag = "select" /\ u = StartSelect(s, t)
      \/ tag \in {"option", "optgroup"} /\ u = InsertTag(Reconstruct(left), t)
      \/ tag \in {"rb", "rp", "rt", "rtc"} /\ u = StartRuby(s, t)
      \/ tag \in {"math", "svg"} /\ u = StartForeign(s, t, tag)
      \/ u = s
      \/ tag \notin MisplacedTags /\ u = InsertTag(Reconstruct(s), t)
  BY DEF StartInline
<1>2. /\ Based(F) /\ F.stop /\ ContentModes \subseteq F.modes /\ "InTable" \in F.modes
  BY ContentFrameFacts DEF ContentModes
<1>3. K(Reconstruct(s), F) /\ K(CloseP(s), F)
  BY <1>2, ReconstructK, ClosePK
<1> DEFINE plain == tag \notin Fixed
           listed == tag \notin Unlisted
<1>4. /\ tag \in FormattingTags \union ObjectTags \union {"a", "nobr", "table", "area", "br", "embed", "img", "keygen", "wbr",
           "input", "param", "source", "track", "hr", "textarea", "xmp", "iframe", "noembed", "select", "option",
           "optgroup", "rb", "rp", "rt", "rtc"} => plain
      /\ tag \notin MisplacedTags => plain
      /\ "img" \notin Fixed
      /\ tag \in FormattingTags \union {"a", "nobr"} => listed
  BY DEF Fixed, Amended, Unlisted, FormattingTags, ObjectTags, MisplacedTags
<1>5. img.tag = "img"
  BY DEF TokenFields
<1> HIDE DEF tag, u, img, shut, left, counted, plain, listed
<1> USE DEF plain, listed, tag
<1>11. listed => Settled(StartAnchor(s, t)) /\ Settled(StartFormatting(s, t)) /\ Settled(StartNobr(s, t))
  BY <1>2, StartAnchorK, StartFormattingK, StartNobrK, SettledK
<1>12. plain => /\ K(InsertTag(Reconstruct(s), t), F) /\ K(InsertVoid(Reconstruct(s), t), F)
                /\ Settled(InsertTag(Reconstruct(s), t)) /\ Settled(NoFrameset(InsertVoid(Reconstruct(s), t)))
  BY <1>2, InsertedK, SettledK, SettledStays
<1>13. plain => Settled(NoFrameset(AddMarker(InsertTag(Reconstruct(s), t))))
  BY <1>12, AddMarkerK, SettledK, SettledStays
<1>14. plain => Settled(Go(NoFrameset(InsertTag(shut, t)), "InTable"))
  <2>1. K(shut, F)
    BY <1>3 DEF shut
  <2>2. plain => K(NoFrameset(InsertTag(shut, t)), F)
    BY <1>2, <2>1, InsertTagK, NoFramesetK
  <2> DEFINE v == NoFrameset(InsertTag(shut, t))
  <2> HIDE DEF v
  <2>3. K(v, F) => Settled(Go(v, "InTable"))
    BY <1>2, GoK, SettledK
  <2> QED
    BY <2>2, <2>3 DEF v
<1>15. Settled(NoFrameset(InsertVoid(Reconstruct(s), img)))
  BY <1>2, <1>4, <1>5, InsertedK, SettledK, SettledStays
<1>16. plain => Settled(InsertVoid(Reconstruct(counted), t))
  <2>1. K(counted, F)
    BY NoFramesetK DEF counted
  <2> QED
    BY <1>2, <2>1, InsertedK, SettledK
<1>17. plain => Settled(InsertVoid(s, t)) /\ Settled(NoFrameset(InsertVoid(CloseP(s), t)))
  BY <1>2, <1>3, InsertVoidK, SettledK, SettledStays
<1>18. Settled(StartIsindex(s))
  BY <1>2, StartIsindexK, SettledK
<1>19. plain => Settled([NoFrameset(RunGenericParsing(s, t, "text")) EXCEPT !.skipLinefeed = TRUE])
  BY GenericContent, SettledStays
<1>20. plain => Settled(RunGenericParsing(NoFrameset(Reconstruct(CloseP(s))), t, "text"))
  <2>1. K(NoFrameset(Reconstruct(CloseP(s))), F)
    BY <1>2, <1>3, ReconstructK, NoFramesetK
  <2> QED
    BY <2>1, GenericContent
<1>21. plain => Settled(RunGenericParsing(NoFrameset(s), t, "text")) /\ Settled(RunGenericParsing(s, t, "text"))
  BY NoFramesetK, GenericContent
<1>22. plain => Settled(StartSelect(s, t)) /\ Settled(StartRuby(s, t))
  BY <1>2, StartSelectK, StartRubyK, SettledK
<1>23. plain => Settled(InsertTag(Reconstruct(left), t))
  <2>1. K(left, F)
    BY <1>2, LeaveOptionK DEF left, LeaveOption
  <2> QED
    BY <1>2, <2>1, InsertedK, SettledK
<1>24. tag \in {"math", "svg"} => Settled(StartForeign(s, t, tag))
  <2>1. tag \in {"math", "svg"} => t.tag \notin {"html", "head"} /\ tag # "html"
    OBVIOUS
  <2> QED
    BY <1>2, <2>1, StartForeignK, SettledK
<1>25. Settled(s)
  BY SettledK
<1> HIDE DEF plain, listed, tag
<1> QED
  BY <1>1, <1>4, <1>11, <1>12, <1>13, <1>14, <1>15, <1>16, <1>17, <1>18, <1>19, <1>20, <1>21, <1>22, <1>23, <1>24, <1>25
  DEF u

-----------------------------------------------------------------------------
(* The frameset that takes the place of the body.                          *)

\* destroy_node reaches the node it is called with.
Lower(nodes, above) ==
  above \union {c \in DOMAIN nodes : \E p \in above : IndexOf(nodes[p].children, c) # -1}
Lowers(g, nodes, n, k) == g = [depth \in 0 .. k |-> IF depth = 0 THEN {n} ELSE Lower(nodes, g[depth - 1])]

LEMMA LowersExist ==
  ASSUME NEW nodes, NEW n, NEW k \in Nat
  PROVE  \E g : Lowers(g, nodes, n, k)
<1> DEFINE T == {i \in 0 .. k : \E g : Lowers(g, nodes, n, i)}
<1>1. 0 \in T
  <2> DEFINE g == [i \in 0 .. 0 |-> {n}]
  <2>1. Lowers(g, nodes, n, 0)
    BY DEF Lowers
  <2> QED
    BY <2>1
<1>2. ASSUME NEW i \in 0 .. k - 1, i \in T
      PROVE  i + 1 \in T
  <2>1. PICK g : Lowers(g, nodes, n, i)
    BY <1>2
  <2> DEFINE h == [d \in 0 .. i + 1 |-> IF d = i + 1 THEN Lower(nodes, g[i]) ELSE g[d]]
  <2>2. i + 1 \in 0 .. k
    OBVIOUS
  <2>3. ASSUME NEW d \in 0 .. i + 1
        PROVE  h[d] = IF d = 0 THEN {n} ELSE Lower(nodes, h[d - 1])
    <3>1. CASE d = i + 1
      <4>1. d - 1 = i /\ i \in 0 .. i + 1 /\ i # i + 1 /\ d # 0
        BY <3>1
      <4>2. h[d] = Lower(nodes, g[i]) /\ h[i] = g[i]
        BY <3>1, <4>1
      <4> QED
        BY <4>1, <4>2
    <3>2. CASE d # i + 1
      <4>1. d \in 0 .. i /\ (d # 0 => d - 1 \in 0 .. i + 1 /\ d - 1 # i + 1)
        BY <3>2
      <4>2. g[d] = IF d = 0 THEN {n} ELSE Lower(nodes, g[d - 1])
        BY <2>1, <4>1 DEF Lowers
      <4>3. d # 0 => h[d - 1] = g[d - 1]
        BY <4>1
      <4>4. h[d] = g[d]
        BY <3>2
      <4> QED
        BY <4>2, <4>3, <4>4
    <3> QED
      BY <3>1, <3>2
  <2>4. h = [d \in 0 .. i + 1 |-> h[d]]
    OBVIOUS
  <2> HIDE DEF h
  <2>5. Lowers(h, nodes, n, i + 1)
    BY <2>3, <2>4 DEF Lowers
  <2> QED
    BY <2>2, <2>5
<1> HIDE DEF T
<1>3. 0 .. k \subseteq T
  BY <1>1, <1>2, InductionUpTo
<1>4. k \in 0 .. k
  OBVIOUS
<1>5. k \in T
  BY <1>3, <1>4
<1> QED
  BY <1>5 DEF T

LEMMA BelowHasIt ==
  ASSUME NEW nodes, NEW n, Len(nodes) \in Nat
  PROVE  n \in Below(nodes, n)
<1> DEFINE k == Len(nodes)
           g == CHOOSE h : Lowers(h, nodes, n, k)
<1>1. Lowers(g, nodes, n, k)
  BY LowersExist
<1>2. Below(nodes, n) = g[k]
  BY DEF Below, Lowers, Lower
<1> HIDE DEF g, k
<1> DEFINE T == {i \in 0 .. k : n \in g[i]}
<1>3. k \in Nat
  BY DEF k
<1>4. ASSUME NEW i \in 0 .. k
      PROVE  g[i] = IF i = 0 THEN {n} ELSE Lower(nodes, g[i - 1])
  BY <1>1 DEF Lowers
<1>5. 0 \in T
  BY <1>3, <1>4
<1>6. ASSUME NEW i \in 0 .. k - 1, i \in T
      PROVE  i + 1 \in T
  <2>1. i + 1 \in 0 .. k /\ i + 1 # 0 /\ i + 1 - 1 = i
    BY <1>3
  <2>2. g[i + 1] = Lower(nodes, g[i])
    BY <1>4, <2>1
  <2> QED
    BY <1>6, <2>1, <2>2 DEF Lower
<1> HIDE DEF T
<1>7. 0 .. k \subseteq T /\ k \in 0 .. k
  BY <1>3, <1>5, <1>6, InductionUpTo
<1>8. k \in T
  BY <1>7
<1> QED
  BY <1>2, <1>8 DEF T

\* What destroy_node leaves of the node.
LEMMA DestroyedIs ==
  ASSUME NEW nodes, Vector(nodes), NEW n \in DOMAIN nodes
  PROVE  LET new == DestroyNode(nodes, n)
         IN  /\ Vector(new) /\ DOMAIN new = DOMAIN nodes /\ Len(new) = Len(nodes)
             /\ new[n].type = "destroyed"
             /\ \A m \in DOMAIN nodes : new[m] = nodes[m] \/ new[m] = NewNode("destroyed")
<1> DEFINE k == Len(nodes)
           f == [m \in 1 .. k |-> IF m \in Below(nodes, n) THEN NewNode("destroyed") ELSE nodes[m]]
           new == DestroyNode(nodes, n)
<1>1. k \in Nat /\ DOMAIN nodes = 1 .. k
  BY VectorIs
<1>2. n \in Below(nodes, n)
  BY <1>1, BelowHasIt
<1>3. new = SubSeq(f, 1, k)
  BY DEF DestroyNode, Changed
<1>4. f = [m \in 1 .. k |-> f[m]]
  OBVIOUS
<1>5. f[n] = NewNode("destroyed") /\ DOMAIN f = 1 .. k
      /\ \A m \in 1 .. k : f[m] = nodes[m] \/ f[m] = NewNode("destroyed")
  BY <1>1, <1>2
<1> HIDE DEF f, new
<1>6. SubSeq(f, 1, k) = f
  BY <1>1, <1>4, ChangedIsAll
<1>7. Vector(f)
  BY <1>1, <1>4, FunctionIsVector
<1>8. Len(f) = k
  BY <1>1, <1>5, <1>7, VectorIs
<1>9. NewNode("destroyed").type = "destroyed"
  BY NewNodeIsFresh
<1> QED
  BY <1>1, <1>3, <1>5, <1>6, <1>7, <1>8, <1>9 DEF new

\* An element below the root alone leaves the other nodes alone.
LEMMA BelowRootOnly ==
  ASSUME NEW s, Rec(s), s.buffer = <<>>, s.root # NoNode, Len(s.open) = 1, s.open[1] = s.root, Vector(s.nodes),
         s.root \in DOMAIN s.nodes, s.nodes[s.root].tag \notin TableParts,
         NEW body \in DOMAIN s.nodes, body # s.root, NEW t
  PROVE  LET u == InsertTag(s, t)
         IN  Rec(u) /\ body \in DOMAIN u.nodes /\ u.nodes[body].type = s.nodes[body].type
<1> DEFINE node == [NewNode(IF t.tag = "template" THEN "template" ELSE "element") EXCEPT !.tag = t.tag, !.ns = "html", !.attrs = t.attrs]
           c == Created(s, node)
           n == Len(c.nodes)
           holds == Unlinked(c, n) /\ c.nodes[s.root].type \in Elements \union {"document"}
           p == [Claim(c, holds) EXCEPT !.nodes = AppendNode(c.nodes, s.root, n)]
           u == InsertTag(s, t)
<1>1. u = Opened(Created(Flush(s), node))
  BY DEF InsertTag, InsertNewElement
<1>2. Flush(s) = s
  BY DEF Flush
<1> HIDE DEF node
<1>3. /\ Rec(c) /\ c.nodes = Append(s.nodes, node) /\ c.root = s.root /\ c.open = s.open
  BY DEF Created, Rec, StateFields
<1> HIDE DEF c
<1>4. /\ Vector(c.nodes) /\ DOMAIN s.nodes \subseteq DOMAIN c.nodes /\ n \in Nat
      /\ n \notin DOMAIN s.nodes /\ \A m \in DOMAIN s.nodes : c.nodes[m] = s.nodes[m]
  <2>1. PICK S : s.nodes \in Seq(S)
    BY DEF Vector
  <2> DEFINE V == S \union {node}
  <2>2. s.nodes \in Seq(V) /\ node \in V
    BY <2>1, SeqMonotonic
  <2> HIDE DEF V
  <2>3. /\ Append(s.nodes, node) \in Seq(V) /\ Len(Append(s.nodes, node)) = Len(s.nodes) + 1 /\ Len(s.nodes) \in Nat
        /\ DOMAIN Append(s.nodes, node) = DOMAIN s.nodes \union {Len(s.nodes) + 1} /\ DOMAIN s.nodes = 1 .. Len(s.nodes)
        /\ \A i \in 1 .. Len(s.nodes) : Append(s.nodes, node)[i] = s.nodes[i]
    BY <2>2, AppendIs
  <2> QED
    BY <1>3, <2>3 DEF Vector
<1>5. Current(c) = s.root /\ ~ IsHtml(c, s.root, TableParts)
  <2>1. c.open # <<>>
    BY <1>3, EmptyHasNoPlace
  <2> QED
    BY <1>3, <1>4, <2>1 DEF Current, Top, IsHtml, IsElement
<1>6. InsertionLocation(c, NoNode) = At(s.root, -1)
  BY <1>3, <1>5 DEF InsertionLocation, LocationIn
<1>7. Placed(c) = p
  <2>1. At(s.root, -1).index = -1 /\ At(s.root, -1).target = s.root
    BY DEF At
  <2> QED
    BY <1>6, <2>1 DEF Placed, Inserted, Appended, Newest
<1>8. holds \in BOOLEAN
  BY DEF Unlinked
<1> HIDE DEF holds
<1>9. Rec(p) /\ p.nodes = AppendNode(c.nodes, s.root, n) /\ Vector(p.open)
  BY <1>3, <1>8 DEF Rec, Claim, StateFields
<1> HIDE DEF p
<1>10. u = [p EXCEPT !.open = Append(p.open, n)]
  BY <1>1, <1>2, <1>7 DEF Opened, Add, Newest, c
<1> HIDE DEF u
<1>11. Vector(Append(p.open, n))
  BY <1>9, VectorAppended
<1>12. Rec(u) /\ u.nodes = p.nodes
  BY <1>9, <1>10, <1>11 DEF Rec, StateFields
<1>13. body \in DOMAIN p.nodes /\ p.nodes[body] = c.nodes[body]
  <2>1. body \in DOMAIN c.nodes /\ body # n
    BY <1>4
  <2> HIDE DEF n
  <2> QED
    BY <1>9, <2>1 DEF AppendNode, WithChildren, Adopted
<1> QED
  BY <1>4, <1>12, <1>13 DEF u

LEMMA StartFramesetSettles ==
  ASSUME NEW s, NEW F, K(s, F), ContentFrame(F), NEW t
  PROVE  Settled(StartFrameset(s, t))
<1> DEFINE body == s.open[2]
           takes == ~ (Len(s.open) < 2 \/ ~ IsHtml(s, body, {"body"}) \/ ~ s.framesetOk)
           popped == PopTo(s, 1)
           cleared == ClearFormatting(popped)
           dropped == DropBody(cleared, body)
           put == InsertTag(dropped, t)
           u == Go(put, "InFrameset")
<1>1. CASE ~ takes
  <2>1. StartFrameset(s, t) = s
    BY <1>1 DEF StartFrameset
  <2> QED
    BY <2>1, SettledK
<1>2. CASE takes
  <2>1. StartFrameset(s, t) = u
    BY <1>2 DEF StartFrameset
  <2>2. Vector(s.open) /\ Len(s.open) \in Nat /\ ~ (Len(s.open) <= 1) /\ Rec(s)
    <3>1. Vector(s.open) /\ Rec(s)
      BY DEF K, Rec
    <3> QED
      BY <1>2, <3>1, VectorIs
  <2>3. s.sound => /\ Len(F.base) = 1 /\ body \in DOMAIN s.nodes /\ body # F.root /\ s.open[1] = F.root
                   /\ s.nodes[F.root].tag = "html" /\ F.root \in DOMAIN s.nodes /\ F.root # NoNode /\ s.root = F.root
    <3> SUFFICES ASSUME s.sound PROVE /\ Len(F.base) = 1 /\ body \in DOMAIN s.nodes /\ body # F.root /\ s.open[1] = F.root
                   /\ s.nodes[F.root].tag = "html" /\ F.root \in DOMAIN s.nodes /\ F.root # NoNode /\ s.root = F.root
      OBVIOUS
    <3>1. /\ NodesOK(s.nodes, F.root, F.head) /\ OpenOK(s.nodes, s.open, F.root) /\ Begins(s.open, F.base, F.head)
          /\ DOMAIN s.open = 1 .. Len(s.open) /\ \A i \in DOMAIN s.open : s.open[i] \in DOMAIN s.nodes
          /\ s.open # <<>> <=> Len(s.open) # 0
          /\ s.root = F.root
      BY HeldFacts
    <3>2. 1 \in DOMAIN s.open /\ 2 \in DOMAIN s.open /\ s.open # <<>>
      BY <2>2, <3>1
    <3>3. s.open[1] = F.root /\ body # F.root /\ body \in DOMAIN s.nodes
      BY <3>1, <3>2 DEF OpenOK
    <3>4. F.root # NoNode /\ F.head # NoNode /\ Len(F.base) \in {1, 3} /\ (Len(F.base) = 3 => F.base[2] = F.head)
      BY ContentFrameFacts
    <3>5. s.nodes[body].tag = "body"
      BY <1>2 DEF IsHtml, IsElement
    <3>6. s.nodes[F.head].tag = "head" /\ s.nodes[F.root].tag = "html" /\ F.root \in DOMAIN s.nodes
      BY <3>1, <3>4 DEF NodesOK
    <3>7. Len(F.base) = 3 => body = F.head
      BY <3>1, <3>4 DEF Begins
    <3> QED
      BY <3>1, <3>3, <3>4, <3>5, <3>6, <3>7
  <2>4. K(popped, F)
    <3>1. s.sound => Len(F.base) = 1
      BY <2>3
    <3>2. 1 >= 1
      OBVIOUS
    <3>3. 1 \in Int
      OBVIOUS
    <3> QED
      BY <3>1, <3>2, <3>3, PopToK
  <2>5. K(cleared, F) /\ Rec(cleared)
    BY <2>4, ClearFormattingK DEF K
  <2>6. Rec(popped) /\ popped.buffer = <<>>
    <3>1. Rec(Flush(s)) /\ DOMAIN Flush(s) = StateFields
      BY FlushK DEF K, Rec
    <3>2. Flush(s).buffer = <<>>
      <4>1. CASE s.buffer = <<>>
        BY <4>1 DEF Flush
      <4>2. CASE s.buffer # <<>>
        <5> DEFINE w == TextPlaced(s)
        <5> HIDE DEF w
        <5>1. Flush(s) = [w EXCEPT !.buffer = <<>>, !.bufferType = "whitespace"]
          BY <4>2 DEF Flush, w
        <5> QED
          BY <3>1, <5>1 DEF StateFields
      <4> QED
        BY <4>1, <4>2
    <3> DEFINE holds == s.open # <<>> => IsHtml(s, s.open[1], {"html"})
               w == Claim(Flush(s), holds)
    <3>3. popped = [w EXCEPT !.open = SubSeq(@, 1, 1)] /\ holds \in BOOLEAN
      BY <2>2 DEF PopTo
    <3> HIDE DEF holds
    <3>4. w.buffer = <<>> /\ Rec(w)
      BY <3>1, <3>2, <3>3 DEF Claim, Rec, StateFields
    <3> HIDE DEF w
    <3> HIDE DEF popped
    <3> QED
      BY <2>4, <3>3, <3>4 DEF K, Rec, StateFields
  <2>7. /\ cleared.buffer = <<>> /\ cleared.nodes = popped.nodes /\ cleared.open = popped.open
        /\ cleared.sound = popped.sound /\ cleared.root = popped.root
    BY <2>6 DEF ClearFormatting, Rec, StateFields
  <2>8. popped.sound => /\ s.sound /\ SameNames(s.nodes, popped.nodes) /\ popped.open = SubSeq(s.open, 1, 1)
                        /\ popped.root = s.root
    <3>1. Popping(s, popped, 1)
      BY KIsRooted, PopToIs
    <3> QED
      BY <2>2, <3>1 DEF Popping, Rest
  <2> HIDE DEF popped, cleared
  <2> DEFINE without == WithChildren(cleared.nodes, cleared.root, Remove(cleared.nodes[cleared.root].children, body))
             left == DestroyNode(without, body)
  <2>9. dropped = [cleared EXCEPT !.nodes = left]
    BY DEF DropBody, WithoutBody
  <2> HIDE DEF left
  <2>10. /\ Rec(dropped) /\ dropped.nodes = left /\ dropped.buffer = <<>> /\ dropped.open = cleared.open
         /\ dropped.sound = cleared.sound /\ dropped.root = cleared.root
    BY <2>5, <2>7, <2>9 DEF Rec, StateFields
  <2> HIDE DEF dropped
  <2>11. CASE ~ dropped.sound
    <3>1. NewOnStack(dropped, put, t.tag, "html")
      <4> DEFINE type == IF t.tag = "template" THEN "template" ELSE "element"
      <4>1. type \in Elements /\ put = InsertNewElement(dropped, type, t.tag, "html", t.attrs)
        BY DEF Elements, InsertTag
      <4> HIDE DEF type, put
      <4> QED
        BY <2>10, <2>11, <4>1, OpensNew
    <3>2. Rec(put) /\ ~ put.sound
      BY <2>11, <3>1 DEF NewOnStack, Rest
    <3> HIDE DEF put
    <3>3. Rec(u) /\ ~ u.sound
      BY <3>2 DEF Go, Rec, StateFields
    <3> QED
      BY <2>1, <3>3 DEF Settled
  <2>12. CASE dropped.sound
    <3>1. /\ popped.sound /\ cleared.root = F.root /\ F.root # NoNode /\ body # F.root
          /\ body \in DOMAIN cleared.nodes /\ F.root \in DOMAIN cleared.nodes /\ cleared.nodes[F.root].tag = "html"
      BY <2>3, <2>7, <2>8, <2>10, <2>12 DEF SameNames
    <3>2. Len(dropped.open) = 1 /\ dropped.open[1] = F.root
      <4>1. /\ OpenOK(s.nodes, s.open, F.root)
        BY <2>8, <3>1, HeldFacts
      <4>2. Len(SubSeq(s.open, 1, 1)) = 1 /\ SubSeq(s.open, 1, 1)[1] = s.open[1]
        BY <2>2, <4>1, OpenPrefix
      <4> QED
        BY <2>3, <2>7, <2>8, <2>10, <3>1, <4>2
    <3>3. Vector(cleared.nodes)
      BY <2>7, <2>4, <3>1, HeldFacts DEF NodesOK, Sound, Typed, Vector
    <3>4. Vector(without) /\ DOMAIN without = DOMAIN cleared.nodes /\ without[F.root].tag = "html"
      <4>1. Vector(without)
        BY <3>3, VectorSet DEF WithChildren
      <4>2. DOMAIN cleared.nodes[F.root] = {"type", "tag", "ns", "attrs", "text", "parent", "index", "children"}
        <5>1. Typed(cleared.nodes)
          BY <2>7, <2>4, <3>1, HeldFacts DEF NodesOK, Sound
        <5> QED
          BY <3>1, <5>1 DEF Typed, Node
      <4> QED
        BY <3>1, <4>1, <4>2 DEF WithChildren
    <3> HIDE DEF without
    <3>5. /\ Vector(left) /\ DOMAIN left = DOMAIN without /\ left[body].type = "destroyed"
          /\ left[F.root] = without[F.root] \/ left[F.root] = NewNode("destroyed")
      <4>1. body \in DOMAIN without /\ F.root \in DOMAIN without
        BY <3>1, <3>4
      <4> QED
        BY <3>4, <4>1, DestroyedIs DEF left
    <3>6. left[F.root].tag \notin TableParts
      <4>1. NewNode("destroyed").tag = NoTag
        BY NewNodeIsFresh
      <4>2. "html" \notin TableParts /\ NoTag \notin TableParts
        BY NoTagFacts DEF TableParts
      <4> HIDE DEF left
      <4> QED
        BY <3>4, <3>5, <4>1, <4>2
    <3>7. Rec(put) /\ body \in DOMAIN put.nodes /\ put.nodes[body].type = "destroyed"
      <4>1. /\ dropped.root = F.root /\ Vector(dropped.nodes) /\ body \in DOMAIN dropped.nodes
            /\ F.root \in DOMAIN dropped.nodes /\ dropped.nodes[body].type = "destroyed"
        BY <2>10, <3>1, <3>4, <3>5
      <4> HIDE DEF body
      <4> QED
        BY <2>10, <3>1, <3>2, <3>6, <4>1, BelowRootOnly
    <3> HIDE DEF put
    <3>8. Rec(u) /\ u.nodes = put.nodes
      BY <3>7 DEF Go, Rec, StateFields
    <3>9. ~ Usual(u.nodes)
      BY <3>7, <3>8 DEF Usual
    <3> QED
      BY <2>1, <3>8, <3>9 DEF Settled
  <2> QED
    BY <2>11, <2>12
<1> QED
  BY <1>1, <1>2

-----------------------------------------------------------------------------
(* handle_in_body.                                                         *)

LEMMA StartInBodySettles ==
  ASSUME NEW s, NEW F, K(s, F), ContentFrame(F), NEW t, DOMAIN t = TokenFields, t.type = "StartTag"
  PROVE  LET u == StartInBody(s, t) IN Settled(u) \/ (Handed(u, F, "InHead") /\ ForHead(t))
<1> DEFINE tag == t.tag
           u == StartInBody(s, t)
           pressed == IF InScope(s, {"button"}) THEN Again(ImplicitlyClose(s, {"button"}))
                      ELSE NoFrameset(InsertTag(Reconstruct(s), t))
<1>1. \/ tag = "html" /\ u = StartHtml(s, t)
      \/ tag \in MetadataTags \union {"menuitem"} /\ u = HandOn(s, "InHead")
      \/ u = StartBody(s, t)
      \/ u = StartFrameset(s, t)
      \/ tag \in BlockTags /\ u = InsertTag(CloseP(s), t)
      \/ tag \in Headings /\ u = StartHeading(s, t)
      \/ tag \in {"pre", "listing"} /\ u = [NoFrameset(InsertTag(CloseP(s), t)) EXCEPT !.skipLinefeed = TRUE]
      \/ tag = "form" /\ u = StartForm(s, t)
      \/ tag = "li" /\ u = InsertTag(CloseP(CloseListTag(s, {"li"})), t)
      \/ tag \in {"dd", "dt"} /\ u = InsertTag(CloseP(CloseListTag(s, {"dd", "dt"})), t)
      \/ tag = "plaintext" /\ u = Lexer(InsertTag(CloseP(s), t), "plaintext")
      \/ tag = "button" /\ u = pressed
      \/ tag # "html" /\ tag \notin MetadataTags /\ u = StartInline(s, t)
  <2>1. tag = "html" => u = StartHtml(s, t)
    BY DEF StartInBody, MetadataTags, BlockTags, Headings
  <2>2. tag \in MetadataTags \union {"menuitem"} => u = HandOn(s, "InHead")
    BY DEF StartInBody, MetadataTags, BlockTags, Headings
  <2>3. tag = "body" => u = StartBody(s, t)
    BY DEF StartInBody, MetadataTags, BlockTags, Headings
  <2>4. tag = "frameset" => u = StartFrameset(s, t)
    BY DEF StartInBody, MetadataTags, BlockTags, Headings
  <2>5. tag \in BlockTags => u = InsertTag(CloseP(s), t)
    BY DEF StartInBody, MetadataTags, BlockTags, Headings
  <2>6. tag \in Headings => u = StartHeading(s, t)
    BY DEF StartInBody, MetadataTags, BlockTags, Headings
  <2>7. tag \in {"pre", "listing"} => u = [NoFrameset(InsertTag(CloseP(s), t)) EXCEPT !.skipLinefeed = TRUE]
    BY DEF StartInBody, MetadataTags, BlockTags, Headings
  <2>8. tag = "form" => u = StartForm(s, t)
    BY DEF StartInBody, MetadataTags, BlockTags, Headings
  <2>9. tag = "li" => u = InsertTag(CloseP(CloseListTag(s, {"li"})), t)
    BY DEF StartInBody, MetadataTags, BlockTags, Headings
  <2>10. tag \in {"dd", "dt"} => u = InsertTag(CloseP(CloseListTag(s, {"dd", "dt"})), t)
    BY DEF StartInBody, MetadataTags, BlockTags, Headings
  <2>11. tag = "plaintext" => u = Lexer(InsertTag(CloseP(s), t), "plaintext")
    BY DEF StartInBody, MetadataTags, BlockTags, Headings
  <2>12. tag = "button" => u = pressed
    BY DEF StartInBody, MetadataTags, BlockTags, Headings
  <2>20. (~ (tag = "html")
          /\ ~ (tag \in MetadataTags \union {"menuitem"})
          /\ ~ (tag = "body")
          /\ ~ (tag = "frameset")
          /\ ~ (tag \in BlockTags)
          /\ ~ (tag \in Headings)
          /\ ~ (tag \in {"pre", "listing"})
          /\ ~ (tag = "form")
          /\ ~ (tag = "li")
          /\ ~ (tag \in {"dd", "dt"})
          /\ ~ (tag = "plaintext")
          /\ ~ (tag = "button"))
         => u = StartInline(s, t)
    BY DEF StartInBody
  <2> HIDE DEF u, pressed
  <2> QED
    BY <2>1, <2>2, <2>3, <2>4, <2>5, <2>6, <2>7, <2>8, <2>9, <2>10, <2>11, <2>12, <2>20
<1>2. /\ Based(F) /\ F.stop /\ ContentModes \subseteq F.modes /\ F.root # NoNode
  BY ContentFrameFacts
<1>3. K(Reconstruct(s), F) /\ K(CloseP(s), F)
  BY <1>2, ReconstructK, ClosePK
<1> DEFINE plain == tag \notin Fixed
<1>4. tag \in BlockTags \union Headings \union {"pre", "listing", "form", "li", "dd", "dt", "plaintext", "button"} => plain
  BY DEF Fixed, BlockTags, Headings
<1> HIDE DEF tag, u, plain, pressed
<1> USE DEF tag, plain
<1>5. plain => /\ K(InsertTag(CloseP(s), t), F) /\ K(InsertTag(Reconstruct(s), t), F)
               /\ Settled(InsertTag(CloseP(s), t))
               /\ Settled([NoFrameset(InsertTag(CloseP(s), t)) EXCEPT !.skipLinefeed = TRUE])
               /\ Settled(Lexer(InsertTag(CloseP(s), t), "plaintext"))
               /\ Settled(NoFrameset(InsertTag(Reconstruct(s), t)))
  BY <1>2, <1>3, InsertTagK, SettledK, SettledStays
<1>6. Settled(StartHtml(s, t)) /\ Settled(StartBody(s, t)) /\ Settled(StartFrameset(s, t))
  BY <1>2, StartHtmlK, StartBodyK, SettledK, StartFramesetSettles
<1>7. plain => Settled(StartHeading(s, t))
  <2> DEFINE v == CloseHeading(CloseP(s))
  <2>1. Headings \intersect Fixed = {} /\ NoTag \notin Headings
    BY DEF Headings, Fixed, NoTag
  <2>2. K(v, F)
    <3> DEFINE w == CloseP(s)
    <3>1. K(w, F)
      BY <1>3
    <3> HIDE DEF w
    <3>2. K(CloseHeading(w), F)
      <4>1. CASE CurrentIs(w, Headings)
        BY <1>2, <2>1, <3>1, <4>1, PopNamedK DEF CloseHeading
      <4>2. CASE ~ CurrentIs(w, Headings)
        BY <3>1, <4>2 DEF CloseHeading
      <4> QED
        BY <4>1, <4>2
    <3> QED
      BY <3>2 DEF w
  <2> HIDE DEF v
  <2>3. plain => Settled(InsertTag(v, t))
    BY <1>2, <2>2, InsertTagK, SettledK
  <2> QED
    BY <2>3 DEF StartHeading, v
<1>8. plain => Settled(StartForm(s, t))
  BY <1>2, StartFormK, SettledK
<1>9. plain => /\ Settled(InsertTag(CloseP(CloseListTag(s, {"li"})), t))
               /\ Settled(InsertTag(CloseP(CloseListTag(s, {"dd", "dt"})), t))
  <2>1. K(CloseListTag(s, {"li"}), F) /\ K(CloseListTag(s, {"dd", "dt"}), F)
    BY <1>2, NotFixed, CloseListTagK
  <2>2. K(CloseP(CloseListTag(s, {"li"})), F) /\ K(CloseP(CloseListTag(s, {"dd", "dt"})), F)
    BY <1>2, <2>1, ClosePK
  <2> QED
    BY <1>2, <2>2, InsertTagK, SettledK
<1>10. Settled(Again(ImplicitlyClose(s, {"button"})))
  BY <1>2, NotFixed, ImplicitlyCloseK, SettledK, SettledStays
<1>13. plain => Settled(pressed)
  BY <1>5, <1>10 DEF pressed
<1>11. tag \in MetadataTags \union {"menuitem"} => ForHead(t) /\ Handed(HandOn(s, "InHead"), F, "InHead")
  BY HandOnHands DEF ForHead, Starts, HeadStarts
<1>12. tag # "html" /\ tag \notin MetadataTags => Settled(StartInline(s, t))
  <2>1. tag \notin MetadataTags => t.tag # "template"
    BY DEF MetadataTags
  <2> QED
    BY <2>1, StartInlineSettles
<1> HIDE DEF tag, plain
<1> QED
  BY <1>1, <1>4, <1>5, <1>6, <1>7, <1>8, <1>9, <1>10, <1>11, <1>12, <1>13 DEF u

LEMMA EndBodyK ==
  ASSUME NEW s, NEW F, K(s, F), ContentFrame(F), NEW t
  PROVE  K(EndBody(s, t), F)
<1> DEFINE after == Go(s, "AfterBody")
           holds == IsHtml(s, s.open[2], {"body"})
<1>1. "AfterBody" \in F.modes
  BY ContentFrameFacts DEF ContentModes
<1>2. K(after, F) /\ K(Again(after), F)
  BY <1>1, GoK, AgainK
<1>3. holds \in BOOLEAN
  BY DEF IsHtml, IsElement
<1> HIDE DEF after, holds
<1>4. K(Claim(after, holds), F)
  BY <1>2, <1>3, ClaimK
<1> QED
  BY <1>2, <1>4 DEF EndBody, after, holds

LEMMA EndInBodySettles ==
  ASSUME NEW s, NEW F, K(s, F), ContentFrame(F), NEW t, t.type = "EndTag"
  PROVE  LET u == EndInBody(s, t) IN Settled(u) \/ (Handed(u, F, "InHead") /\ ForHead(t))
<1> DEFINE tag == t.tag
           u == EndInBody(s, t)
           shut == IF InScope(s, {tag}) THEN ImplicitlyClose(s, {tag}) ELSE s
           listed == IF InListScope(s, "li") THEN ImplicitlyClose(s, {"li"}) ELSE s
           headed == IF InScope(s, Headings) THEN PopThrough(GenerateImpliedEndTags(s, {}), Headings) ELSE s
           placed == IF InTableScope(s, {tag}) THEN ClearFormatting(ImplicitlyClose(s, {tag})) ELSE s
           broken == Pop(InsertImplied(Reconstruct(s), "br"))
<1>1. \/ tag = "template" /\ u = HandOn(s, "InHead")
      \/ u = EndBody(s, t)
      \/ tag \in ClosedBlockTags \union {"dd", "dt"} /\ u = shut
      \/ u = EndForm(s)
      \/ u = EndP(s)
      \/ u = listed
      \/ u = headed
      \/ tag \in AdoptedTags /\ u = Adopt(s, tag)
      \/ tag \in ObjectTags /\ u = placed
      \/ u = broken
      \/ tag \notin {"html", "template"} /\ u = EndOther(s, t)
  BY DEF EndInBody, AdoptedTags, ClosedBlockTags, BlockTags, Headings, FormattingTags, ObjectTags
<1>2. /\ Based(F) /\ F.stop /\ ContentModes \subseteq F.modes /\ F.root # NoNode
  BY ContentFrameFacts
<1>3. Settled(EndBody(s, t)) /\ Settled(EndForm(s)) /\ Settled(s)
  BY <1>2, EndBodyK, EndFormK, SettledK
<1>4. tag \in ClosedBlockTags \union {"dd", "dt"} \union ObjectTags => {tag} \intersect Fixed = {}
  BY DEF Fixed, ClosedBlockTags, BlockTags, ObjectTags
<1> HIDE DEF u, tag, shut, listed, headed, placed, broken
<1>5. {tag} \intersect Fixed = {} => /\ Settled(ImplicitlyClose(s, {tag}))
                                     /\ Settled(ClearFormatting(ImplicitlyClose(s, {tag})))
  BY <1>2, ImplicitlyCloseK, ClearFormattingK, SettledK
<1>6. Settled(EndP(s)) /\ Settled(ImplicitlyClose(s, {"li"}))
  <2>1. K(ImplicitlyClose(s, {"p"}), F) /\ K(ImplicitlyClose(s, {"li"}), F)
    BY <1>2, NotFixed, ImplicitlyCloseK
  <2>2. K(InsertImplied(s, "p"), F)
    <3>1. "p" \notin Fixed
      BY DEF Fixed
    <3> QED
      BY <1>2, <3>1, InsertImpliedK
  <2> QED
    BY <2>1, <2>2, AgainK, SettledK DEF EndP
<1>7. Settled(PopThrough(GenerateImpliedEndTags(s, {}), Headings))
  <2>1. Headings \intersect Fixed = {}
    BY DEF Headings, Fixed
  <2>2. K(GenerateImpliedEndTags(s, {}), F)
    BY <1>2, GenerateK
  <2> QED
    BY <1>2, <2>1, <2>2, PopThroughK, SettledK
<1>8. tag \in AdoptedTags => Settled(Adopt(s, tag))
  BY <1>2, AdoptK, SettledK
<1>9. Settled(Pop(InsertImplied(Reconstruct(s), "br")))
  <2> DEFINE v == Reconstruct(s)
  <2>1. K(v, F) /\ "br" \notin Fixed
    BY <1>2, ReconstructK DEF Fixed
  <2> HIDE DEF v
  <2>2. K(InsertImplied(v, "br"), F) /\ NewOnStack(v, InsertImplied(v, "br"), "br", "html")
    BY <1>2, <2>1, InsertImpliedK
  <2>3. Settled(Pop(InsertImplied(v, "br")))
    BY <2>1, <2>2, PopNewK, SettledK
  <2> QED
    BY <2>3 DEF v
<1>10. tag \notin {"html", "template"} => Settled(EndOther(s, t))
  BY <1>2, EndOtherK, SettledK DEF tag
<1>11. tag = "template" => ForHead(t) /\ Handed(HandOn(s, "InHead"), F, "InHead")
  BY HandOnHands DEF ForHead, Ends, tag
<1> QED
  BY <1>1, <1>3, <1>4, <1>5, <1>6, <1>7, <1>8, <1>9, <1>10, <1>11 DEF u, shut, listed, headed, placed, broken

\* What handle_in_body makes of a token, in the modes for content.
LEMMA InBodySettles ==
  ASSUME NEW s, NEW F, K(s, F), ContentFrame(F), NEW t, DOMAIN t = TokenFields, t.type \in TokenTypes
  PROVE  LET u == InBody(s, t) IN Settled(u) \/ (Handed(u, F, "InHead") /\ ForHead(t))
<1> DEFINE u == InBody(s, t)
<1>1. \/ u = InsertText(Reconstruct(s), t)
      \/ u = NoFrameset(InsertText(Reconstruct(s), t))
      \/ u = AppendComment(s, Current(s))
      \/ u = s
      \/ u = EndInTemplate(s)
      \/ t.type = "StartTag" /\ u = StartInBody(s, t)
      \/ t.type = "EndTag" /\ u = EndInBody(s, t)
  BY DEF InBody, TokenTypes
<1>2. Based(F)
  BY ContentFrameFacts
<1> HIDE DEF u
<1>3. K(InsertText(Reconstruct(s), t), F)
  BY <1>2, ReconstructK, InsertTextK
<1>4. Settled(InsertText(Reconstruct(s), t)) /\ Settled(NoFrameset(InsertText(Reconstruct(s), t)))
  BY <1>3, SettledK, SettledStays
<1>5. Settled(AppendComment(s, Current(s))) /\ Settled(s)
  BY CommentHereK, SettledK
<1>6. Settled(EndInTemplate(s))
  BY <1>5, CloseTemplateSettles, SettledStays DEF EndInTemplate
<1>7. t.type = "StartTag" => Settled(StartInBody(s, t)) \/ (Handed(StartInBody(s, t), F, "InHead") /\ ForHead(t))
  BY StartInBodySettles
<1>8. t.type = "EndTag" => Settled(EndInBody(s, t)) \/ (Handed(EndInBody(s, t), F, "InHead") /\ ForHead(t))
  BY EndInBodySettles
<1> QED
  BY <1>1, <1>4, <1>5, <1>6, <1>7, <1>8 DEF u

\* What handle_in_body makes of white space, a doctype and a start tag of html, in any mode.
LEMMA BodyPlainK ==
  ASSUME NEW s, NEW F, K(s, F), Based(F), F.root # NoNode, NEW t,
         t.type \in {"Doctype", "Whitespace"} \/ Starts(t, {"html"})
  PROVE  K(InBody(s, t), F)
<1> DEFINE u == InBody(s, t)
<1>1. \/ u = InsertText(Reconstruct(s), t)
      \/ u = s
      \/ u = StartHtml(s, t)
  BY DEF InBody, StartInBody, Starts, MetadataTags, BlockTags, Headings
<1> HIDE DEF u
<1>2. K(InsertText(Reconstruct(s), t), F) /\ K(StartHtml(s, t), F)
  BY ReconstructK, InsertTextK, StartHtmlK
<1> QED
  BY <1>1, <1>2 DEF u

-----------------------------------------------------------------------------
(* The modes for tables, selects and templates.                            *)

\* The handler settles, or hands the token on with a state that keeps the frame.
HandsOn(u, F, t) ==
  \/ Settled(u)
  \/ Handed(u, F, "InTable") \/ Handed(u, F, "InSelect") \/ Handed(u, F, "InBody")
  \/ Handed(u, F, "InHead") /\ ForHead(t)

LEMMA HandOnIs ==
  ASSUME NEW s, NEW F, K(s, F), ContentFrame(F), NEW t
  PROVE  /\ HandsOn(s, F, t) /\ HandsOn(HandOn(s, "InTable"), F, t) /\ HandsOn(HandOn(s, "InSelect"), F, t)
         /\ HandsOn(HandOn(s, "InBody"), F, t) /\ HandsOn(Fostered(s), F, t)
         /\ ForHead(t) => HandsOn(HandOn(s, "InHead"), F, t)
<1>1. K([s EXCEPT !.foster = TRUE], F)
  BY FosterK
<1> QED
  BY <1>1, SettledK, HandOnHands DEF HandsOn, Fostered

\* Text in a table is held back, with the mode it was met in.
LEMMA TableTextSettles ==
  ASSUME NEW s, NEW F, K(s, F), ContentFrame(F), NEW holds \in BOOLEAN
  PROVE  Settled([Claim(s, holds) EXCEPT !.original = s.mode, !.mode = "InTableText"])
<1> DEFINE c == Claim(s, holds)
           u == [c EXCEPT !.original = s.mode, !.mode = "InTableText"]
<1>1. K(c, F) /\ Rec(c) /\ c.mode = s.mode
  BY ClaimK DEF K, Grown, Rest
<1> HIDE DEF c
<1>2. /\ Rec(u) /\ u.sound = c.sound /\ u.rules = c.rules /\ u.bufferType = c.bufferType /\ u.nodes = c.nodes
      /\ u.root = c.root /\ u.head = c.head /\ u.open = c.open /\ u.active = c.active /\ u.form = c.form
      /\ u.templateModes = c.templateModes /\ u.mode = "InTableText" /\ u.original = c.mode
  BY <1>1 DEF Rec, StateFields
<1> HIDE DEF u
<1>3. ASSUME u.sound PROVE Core(u) /\ Modal(u)
  <2>1. Core(c) /\ c.root = F.root /\ c.head = F.head /\ c.mode \in F.modes /\ c.sound
    BY <1>1, <1>2, <1>3, HeldFacts
  <2>2. Core(u)
    BY <1>2, <2>1 DEF Core
  <2>3. /\ F.stop /\ c.mode \in Allowed(F.base) /\ F.root # NoNode /\ F.head # NoNode
        /\ F.base = <<F.root>> \/ \E n : F.base = <<F.root, F.head, n>>
    BY <2>1 DEF ContentFrame
  <2>4. Contained(c.mode, c.nodes, c.open, c.root, c.head)
    BY <1>1, <2>1, <2>3, ContentIsContained
  <2>5. Contained(u.original, u.nodes, u.open, u.root, u.head) /\ u.root # NoNode /\ u.head # NoNode
    BY <1>2, <2>1, <2>3, <2>4
  <2> QED
    BY <1>2, <2>2, <2>5 DEF Modal
<1> QED
  BY <1>2, <1>3 DEF Settled, u, c

\* An element is opened and the mode is that of its content.
LEMMA GoesWith ==
  ASSUME NEW s, NEW F, K(s, F), ContentFrame(F), NEW t, NEW mode \in ContentModes
  PROVE  /\ t.tag \notin Fixed => Settled(Go(InsertTag(s, t), mode)) /\ K(Go(InsertTag(s, t), mode), F)
         /\ \A tag : tag \notin Fixed => Settled(Go(InsertImplied(s, tag), mode))
         /\ Settled(Go(s, mode)) /\ K(Go(s, mode), F)
<1>1. mode \in F.modes /\ Based(F)
  BY ContentFrameFacts
<1>2. K(Go(s, mode), F)
  BY <1>1, GoK
<1>3. ASSUME t.tag \notin Fixed PROVE K(Go(InsertTag(s, t), mode), F)
  <2>1. K(InsertTag(s, t), F)
    BY <1>1, <1>3, InsertTagK
  <2> QED
    BY <1>1, <2>1, GoK
<1>4. ASSUME NEW tag, tag \notin Fixed PROVE K(Go(InsertImplied(s, tag), mode), F)
  <2>1. K(InsertImplied(s, tag), F)
    BY <1>1, <1>4, InsertImpliedK
  <2> QED
    BY <1>1, <2>1, GoK
<1> QED
  BY <1>2, <1>3, <1>4, SettledK

LEMMA InTableSettles ==
  ASSUME NEW s, NEW F, K(s, F), ContentFrame(F), NEW t
  PROVE  LET u == InTable(s, t) IN Settled(u) \/ Handed(u, F, "InBody") \/ (Handed(u, F, "InHead") /\ ForHead(t))
<1> DEFINE u == InTable(s, t)
           cleared == ClearToTable(s)
           begun == InsertTag(s, t)
           holds == s.buffer = <<>>
           held == [Claim(s, holds) EXCEPT !.original = s.mode, !.mode = "InTableText"]
           table == IF InTableScope(s, {"table"}) THEN Again(CloseTable(s)) ELSE s
           shut == IF InTableScope(s, {"table"}) THEN CloseTable(s) ELSE s
           form == IF s.form # NoNode \/ HasOpen(s, "template") THEN s ELSE Pop([begun EXCEPT !.form = Current(begun)])
<1>1. \/ IsText(t) /\ u = Again(held)
      \/ t.type = "Doctype" /\ u = s
      \/ t.type = "Comment" /\ u = AppendComment(s, Current(s))
      \/ Starts(t, {"caption"}) /\ u = Go(InsertTag(AddMarker(cleared), t), "InCaption")
      \/ Starts(t, {"colgroup"}) /\ u = Go(InsertTag(cleared, t), "InColumnGroup")
      \/ Starts(t, {"col"}) /\ u = Again(Go(InsertImplied(cleared, "colgroup"), "InColumnGroup"))
      \/ Starts(t, Sections) /\ u = Go(InsertTag(cleared, t), "InTableBody")
      \/ Starts(t, Cells \union {"tr"}) /\ u = Again(Go(InsertImplied(cleared, "tbody"), "InTableBody"))
      \/ Starts(t, {"table"}) /\ u = table
      \/ Ends(t, {"table"}) /\ u = shut
      \/ Ends(t, RootTags \union ColumnTags \union Cells \union Sections \union {"tr"}) /\ u = s
      \/ (Starts(t, {"style", "script", "template"}) \/ Ends(t, {"template"})) /\ u = HandOn(s, "InHead")
      \/ Starts(t, {"input"}) /\ IsHidden(t) /\ u = InsertVoid(s, t)
      \/ Starts(t, {"form"}) /\ u = form
      \/ t.type = "Eof" /\ u = HandOn(s, "InBody")
      \/ u = Fostered(s)
  <2>1. IsText(t) => u = Again(held)
    BY DEF InTable, Starts, Ends, IsText, Sections, Cells, RootTags, ColumnTags
  <2>2. t.type = "Doctype" => u = s
    BY DEF InTable, Starts, Ends, IsText, Sections, Cells, RootTags, ColumnTags
  <2>3. t.type = "Comment" => u = AppendComment(s, Current(s))
    BY DEF InTable, Starts, Ends, IsText, Sections, Cells, RootTags, ColumnTags
  <2>4. Starts(t, {"caption"}) => u = Go(InsertTag(AddMarker(cleared), t), "InCaption")
    BY DEF InTable, Starts, Ends, IsText, Sections, Cells, RootTags, ColumnTags
  <2>5. Starts(t, {"colgroup"}) => u = Go(InsertTag(cleared, t), "InColumnGroup")
    BY DEF InTable, Starts, Ends, IsText, Sections, Cells, RootTags, ColumnTags
  <2>6. Starts(t, {"col"}) => u = Again(Go(InsertImplied(cleared, "colgroup"), "InColumnGroup"))
    BY DEF InTable, Starts, Ends, IsText, Sections, Cells, RootTags, ColumnTags
  <2>7. Starts(t, Sections) => u = Go(InsertTag(cleared, t), "InTableBody")
    BY DEF InTable, Starts, Ends, IsText, Sections, Cells, RootTags, ColumnTags
  <2>8. Starts(t, Cells \union {"tr"}) => u = Again(Go(InsertImplied(cleared, "tbody"), "InTableBody"))
    BY DEF InTable, Starts, Ends, IsText, Sections, Cells, RootTags, ColumnTags
  <2>9. Starts(t, {"table"}) => u = table
    BY DEF InTable, Starts, Ends, IsText, Sections, Cells, RootTags, ColumnTags
  <2>10. Ends(t, {"table"}) => u = shut
    BY DEF InTable, Starts, Ends, IsText, Sections, Cells, RootTags, ColumnTags
  <2>11. Ends(t, RootTags \union ColumnTags \union Cells \union Sections \union {"tr"}) => u = s
    BY DEF InTable, Starts, Ends, IsText, Sections, Cells, RootTags, ColumnTags
  <2>12. (Starts(t, {"style", "script", "template"}) \/ Ends(t, {"template"})) => u = HandOn(s, "InHead")
    BY DEF InTable, Starts, Ends, IsText, Sections, Cells, RootTags, ColumnTags
  <2>13. Starts(t, {"input"}) /\ IsHidden(t) => u = InsertVoid(s, t)
    BY DEF InTable, Starts, Ends, IsText, Sections, Cells, RootTags, ColumnTags
  <2>14. Starts(t, {"form"}) => u = form
    BY DEF InTable, Starts, Ends, IsText, Sections, Cells, RootTags, ColumnTags
  <2>15. t.type = "Eof" => u = HandOn(s, "InBody")
    BY DEF InTable, Starts, Ends, IsText, Sections, Cells, RootTags, ColumnTags
  <2>16. ~ (\/ IsText(t)
            \/ t.type = "Doctype"
            \/ t.type = "Comment"
            \/ Starts(t, {"caption"})
            \/ Starts(t, {"colgroup"})
            \/ Starts(t, {"col"})
            \/ Starts(t, Sections)
            \/ Starts(t, Cells \union {"tr"})
            \/ Starts(t, {"table"})
            \/ Ends(t, {"table"})
            \/ Ends(t, RootTags \union ColumnTags \union Cells \union Sections \union {"tr"})
            \/ Starts(t, {"style", "script", "template"}) \/ Ends(t, {"template"})
            \/ Starts(t, {"input"}) /\ IsHidden(t)
            \/ Starts(t, {"form"})
            \/ t.type = "Eof")
         => u = Fostered(s)
    BY DEF InTable
  <2> HIDE DEF u, cleared, held, table, shut, form, begun
  <2> QED
    BY <2>1, <2>2, <2>3, <2>4, <2>5, <2>6, <2>7, <2>8, <2>9, <2>10, <2>11, <2>12, <2>13, <2>14, <2>15, <2>16
<1>2. Based(F) /\ F.stop
  BY ContentFrameFacts
<1> HIDE DEF u, cleared, begun, table, shut, form, held
<1>3. K(cleared, F) /\ K(AddMarker(cleared), F)
  BY <1>2, ClearToTableK, AddMarkerK DEF cleared
<1>4. Settled(Again(held)) /\ Settled(s) /\ Settled(AppendComment(s, Current(s)))
  BY TableTextSettles, SettledStays, SettledK, CommentHereK DEF held
<1>5. \A tags : tags \intersect Fixed = {} => (Starts(t, tags) => t.tag \notin Fixed)
  BY DEF Starts
<1>6. /\ {"caption"} \intersect Fixed = {} /\ {"colgroup"} \intersect Fixed = {} /\ Sections \intersect Fixed = {}
      /\ {"input"} \intersect Fixed = {} /\ {"form"} \intersect Fixed = {}
      /\ "colgroup" \notin Fixed /\ "tbody" \notin Fixed
      /\ {"InCaption", "InColumnGroup", "InTableBody"} \subseteq ContentModes
  BY DEF Fixed, Sections, ContentModes
<1>7. t.tag \notin Fixed => /\ Settled(Go(InsertTag(AddMarker(cleared), t), "InCaption"))
                            /\ Settled(Go(InsertTag(cleared, t), "InColumnGroup"))
                            /\ Settled(Go(InsertTag(cleared, t), "InTableBody"))
  BY <1>3, <1>6, GoesWith
<1>8. /\ Settled(Again(Go(InsertImplied(cleared, "colgroup"), "InColumnGroup")))
      /\ Settled(Again(Go(InsertImplied(cleared, "tbody"), "InTableBody")))
  BY <1>3, <1>6, GoesWith, SettledStays
<1>9. Settled(table) /\ Settled(shut)
  BY <1>4, CloseTableK, SettledK, SettledStays DEF table, shut
<1>10. t.tag \notin Fixed => Settled(InsertVoid(s, t)) /\ Settled(form)
  <2>1. t.tag \notin Fixed => Settled(InsertVoid(s, t))
    BY <1>2, InsertVoidK, SettledK
  <2>2. t.tag \notin Fixed => Settled(Pop([begun EXCEPT !.form = Current(begun)]))
    BY <1>2, TableFormK, SettledK DEF begun
  <2> QED
    BY <1>4, <2>1, <2>2 DEF form
<1>11. /\ (Starts(t, {"style", "script", "template"}) \/ Ends(t, {"template"})) => ForHead(t)
       /\ Handed(HandOn(s, "InHead"), F, "InHead") /\ Handed(HandOn(s, "InBody"), F, "InBody")
       /\ Handed(Fostered(s), F, "InBody")
  BY HandOnHands, FosterK DEF ForHead, Starts, HeadStarts, MetadataTags, Fostered
<1> QED
  BY <1>1, <1>4, <1>5, <1>6, <1>7, <1>8, <1>9, <1>10, <1>11 DEF u

\* Down to a part of a table that is in scope, and that part too.
LEMMA ClearedPopK ==
  ASSUME NEW s, NEW F, K(s, F), F.stop, NEW tags, NEW rows, tags \subseteq rows, rows \intersect Fixed = {},
         InTableScope(s, tags)
  PROVE  K(Pop(ClearTo(s, rows \union {"html", "template"})), F)
<1> DEFINE stops == rows \union {"html", "template"}
           place == PlaceOf(s, stops)
           cleared == PopTo(s, place)
           S == {i \in DOMAIN s.open : IsHtml(s, s.open[i], tags) \/ IsHtml(s, s.open[i], {"html", "table", "template"})}
           first == Greatest(S)
<1>1. first > 0 /\ IsHtml(s, s.open[first], tags)
  BY DEF InTableScope, HasInScope
<1>2. ClearTo(s, stops) = cleared
  BY DEF ClearTo
<1>3. place \in Int /\ Len(s.open) \in Nat /\ place \in 0 .. Len(s.open)
  BY OpenPlaces DEF PlaceOf
<1>4. s.sound => place > Len(F.base) /\ Len(F.base) \in Nat
  <2> SUFFICES ASSUME s.sound PROVE place > Len(F.base) /\ Len(F.base) \in Nat
    OBVIOUS
  <2>1. Rooted(s) /\ Len(F.base) \in Nat /\ DOMAIN s.open = 1 .. Len(s.open)
    BY HeldFacts
  <2>2. S \in SUBSET (1 .. Len(s.open))
    BY <2>1
  <2>3. first \in S \union {0} /\ first \in 0 .. Len(s.open) /\ \A y \in S : y <= first
    BY <1>3, <2>2, GreatestIs
  <2>4. first \in DOMAIN s.open
    BY <1>1, <1>3, <2>1, <2>3
  <2>5. IsHtml(s, s.open[first], stops)
    BY <1>1 DEF IsHtml, IsElement
  <2>6. place >= first /\ place # 0 /\ place \in DOMAIN s.open /\ IsHtml(s, s.open[place], stops)
    <3>1. /\ place # 0 => place \in DOMAIN s.open /\ IsHtml(s, s.open[place], stops)
          /\ first <= place
      BY <2>1, <2>4, <2>5, PlaceOfIs
    <3> QED
      BY <1>1, <1>3, <2>1, <2>4, <3>1
  <2>7. IsHtml(s, s.open[place], rows)
    <3>1. CASE place = first
      BY <1>1, <3>1 DEF IsHtml, IsElement
    <3>2. CASE place # first
      <4>1. place \notin S
        <5> HIDE DEF S, place, first
        <5>1. ~ (place <= first)
          BY <1>3, <2>3, <2>6, <3>2
        <5> QED
          BY <2>3, <5>1
      <4>2. ~ IsHtml(s, s.open[place], {"html", "table", "template"})
        BY <2>6, <4>1
      <4> QED
        BY <2>6, <4>2 DEF IsHtml, IsElement
    <3> QED
      BY <3>1, <3>2
  <2>8. s.nodes[s.open[place]].tag \notin Fixed
    BY <2>7 DEF IsHtml, IsElement
  <2> QED
    BY <2>1, <2>6, <2>8, AboveBase
<1> HIDE DEF place
<1>5. K(cleared, F)
  <2>1. s.sound => place >= Len(F.base)
    BY <1>3, <1>4
  <2> QED
    BY <1>3, <2>1, PopToK
<1>6. cleared.sound => Len(cleared.open) > Len(F.base)
  <2>1. Popping(s, cleared, place)
    BY <1>3, KIsRooted, PopToIs
  <2> HIDE DEF cleared
  <2> SUFFICES ASSUME cleared.sound PROVE Len(cleared.open) > Len(F.base)
    OBVIOUS
  <2>2. /\ s.sound
        /\ cleared.open = IF Len(s.open) <= place THEN s.open ELSE SubSeq(s.open, 1, place)
    BY <2>1 DEF Popping, Rest
  <2>3. OpenOK(s.nodes, s.open, F.root)
    BY <2>2, HeldFacts
  <2>4. place \in Nat /\ place <= Len(s.open) /\ place > Len(F.base) /\ Len(F.base) \in Nat
    BY <1>3, <1>4, <2>2
  <2>5. Len(SubSeq(s.open, 1, place)) = place
    BY <2>3, <2>4, OpenPrefix
  <2> QED
    BY <1>3, <2>2, <2>4, <2>5
<1> HIDE DEF cleared
<1>7. K(Pop(cleared), F)
  <2>1. Len(cleared.open) \in Nat
    BY <1>5, OpenPlaces
  <2>2. cleared.sound => Len(F.base) \in Nat
    BY <1>5, HeldFacts
  <2>3. cleared.sound => Len(cleared.open) - 1 >= Len(F.base)
    BY <1>6, <2>1, <2>2
  <2> QED
    BY <1>5, <2>1, <2>3, PopToK DEF Pop
<1> QED
  BY <1>2, <1>7

LEMMA PartsLeft ==
  ASSUME NEW s, NEW F, K(s, F), ContentFrame(F)
  PROVE  /\ \A tag \in Sections : InTableScope(s, {tag}) => K(Pop(ClearToTableBody(s)), F)
         /\ InTableScope(s, {"tr"}) => K(Pop(ClearToTableRow(s)), F)
<1>1. F.stop
  BY ContentFrameFacts
<1>2. ASSUME NEW tag \in Sections, InTableScope(s, {tag}) PROVE K(Pop(ClearToTableBody(s)), F)
  <2>1. {tag} \subseteq Sections /\ Sections \intersect Fixed = {}
    BY DEF Sections, Fixed
  <2> QED
    BY <1>1, <1>2, <2>1, ClearedPopK DEF ClearToTableBody
<1>3. ASSUME InTableScope(s, {"tr"}) PROVE K(Pop(ClearToTableRow(s)), F)
  <2>1. {"tr"} \intersect Fixed = {} /\ {"tr"} \union {"html", "template"} = {"html", "tr", "template"}
    BY DEF Fixed
  <2>2. K(Pop(ClearTo(s, {"tr"} \union {"html", "template"})), F)
    BY <1>1, <1>3, <2>1, ClearedPopK
  <2> QED
    BY <2>1, <2>2 DEF ClearToTableRow
<1> QED
  BY <1>2, <1>3

LEMMA SettledHands ==
  ASSUME NEW u, Settled(u), NEW F, NEW t
  PROVE  HandsOn(u, F, t)
BY DEF HandsOn

LEMMA InCaptionHands ==
  ASSUME NEW s, NEW F, K(s, F), ContentFrame(F), NEW t
  PROVE  HandsOn(InCaption(s, t), F, t)
<1> DEFINE u == InCaption(s, t)
           implied == GenerateImpliedEndTags(s, {})
           closed == Go(ClearFormatting(PopThrough(s, {"caption"})), "InTable")
           left == Go(ClearFormatting(PopThrough(implied, {"caption"})), "InTable")
           first == IF InTableScope(s, {"caption"}) THEN left ELSE s
           second == IF InTableScope(s, {"caption"}) THEN Again(closed) ELSE s
<1>1. u = first \/ u = second \/ u = s \/ u = HandOn(s, "InBody")
  <2>1. Ends(t, {"caption"}) => u = first
    BY DEF InCaption, Starts, Ends, IsText, Sections, Cells, RootTags, ColumnTags, TableParts
  <2>2. (Starts(t, ColumnTags \union Sections \union Cells \union {"tr"}) \/ Ends(t, {"table"})) => u = second
    BY DEF InCaption, Starts, Ends, IsText, Sections, Cells, RootTags, ColumnTags, TableParts
  <2>3. Ends(t, RootTags \union Sections \union Cells \union {"col", "colgroup", "tr"}) => u = s
    BY DEF InCaption, Starts, Ends, IsText, Sections, Cells, RootTags, ColumnTags, TableParts
  <2>4. ~ (\/ Ends(t, {"caption"})
            \/ Starts(t, ColumnTags \union Sections \union Cells \union {"tr"}) \/ Ends(t, {"table"})
            \/ Ends(t, RootTags \union Sections \union Cells \union {"col", "colgroup", "tr"}))
         => u = HandOn(s, "InBody")
    BY DEF InCaption
  <2> HIDE DEF u, first, second, implied, closed, left
  <2> QED
    BY <2>1, <2>2, <2>3, <2>4
<1> HIDE DEF u, first, second, implied, closed, left
<1>2. F.stop
  BY ContentFrameFacts
<1>3. \A v : K(v, F) => K(Go(ClearFormatting(PopThrough(v, {"caption"})), "InTable"), F)
  <2> TAKE v
  <2> HAVE K(v, F)
  <2>1. "InTable" \in F.modes
    BY ContentFrameFacts DEF ContentModes
  <2>2. K(ClearFormatting(PopThrough(v, {"caption"})), F)
    BY <1>2, NotFixed, PopThroughK, ClearFormattingK
  <2> QED
    BY <2>1, <2>2, GoK
<1>4. K(left, F) /\ K(closed, F)
  BY <1>2, <1>3, GenerateK DEF left, closed, implied
<1>5. Settled(first) /\ Settled(second)
  BY <1>4, SettledK, SettledStays DEF first, second
<1> QED
  BY <1>1, <1>5, SettledHands, HandOnIs DEF u

\* The end of a column group.
LEMMA GroupLeft ==
  ASSUME NEW s, NEW F, K(s, F), ContentFrame(F), CurrentIs(s, {"colgroup"})
  PROVE  K(Go(Pop(s), "InTable"), F)
<1>1. F.stop /\ "InTable" \in F.modes
  BY ContentFrameFacts DEF ContentModes
<1>2. NoTag \notin {"colgroup"}
  BY DEF NoTag
<1>3. K(Pop(s), F)
  BY <1>1, <1>2, NotFixed, PopNamedK
<1> QED
  BY <1>1, <1>3, GoK

LEMMA InColumnGroupHands ==
  ASSUME NEW s, NEW F, K(s, F), ContentFrame(F), NEW t
  PROVE  HandsOn(InColumnGroup(s, t), F, t)
<1> DEFINE u == InColumnGroup(s, t)
           left == Go(Pop(s), "InTable")
           first == IF CurrentIs(s, {"colgroup"}) THEN left ELSE s
           second == IF CurrentIs(s, {"colgroup"}) THEN Again(left) ELSE s
<1>1. \/ u \in {InsertText(s, t), s, AppendComment(s, Current(s)), StartHtml(s, t), first, HandOn(s, "InBody"), second}
      \/ Starts(t, {"col"}) /\ u = InsertVoid(s, t)
      \/ (Starts(t, {"template"}) \/ Ends(t, {"template"})) /\ u = HandOn(s, "InHead")
  <2>1. t.type = "Whitespace" => u = InsertText(s, t)
    BY DEF InColumnGroup, Starts, Ends, IsText, Sections, Cells, RootTags, ColumnTags, TableParts
  <2>2. (t.type = "Doctype" \/ Ends(t, {"col"})) => u = s
    BY DEF InColumnGroup, Starts, Ends, IsText, Sections, Cells, RootTags, ColumnTags, TableParts
  <2>3. t.type = "Comment" => u = AppendComment(s, Current(s))
    BY DEF InColumnGroup, Starts, Ends, IsText, Sections, Cells, RootTags, ColumnTags, TableParts
  <2>4. Starts(t, {"html"}) => u = StartHtml(s, t)
    BY DEF InColumnGroup, Starts, Ends, IsText, Sections, Cells, RootTags, ColumnTags, TableParts
  <2>5. Starts(t, {"col"}) => u = InsertVoid(s, t)
    BY DEF InColumnGroup, Starts, Ends, IsText, Sections, Cells, RootTags, ColumnTags, TableParts
  <2>6. Ends(t, {"colgroup"}) => u = first
    BY DEF InColumnGroup, Starts, Ends, IsText, Sections, Cells, RootTags, ColumnTags, TableParts
  <2>7. (Starts(t, {"template"}) \/ Ends(t, {"template"})) => u = HandOn(s, "InHead")
    BY DEF InColumnGroup, Starts, Ends, IsText, Sections, Cells, RootTags, ColumnTags, TableParts
  <2>8. t.type = "Eof" => u = HandOn(s, "InBody")
    BY DEF InColumnGroup, Starts, Ends, IsText, Sections, Cells, RootTags, ColumnTags, TableParts
  <2>9. ~ (\/ t.type = "Whitespace"
            \/ t.type = "Doctype" \/ Ends(t, {"col"})
            \/ t.type = "Comment"
            \/ Starts(t, {"html"})
            \/ Starts(t, {"col"})
            \/ Ends(t, {"colgroup"})
            \/ Starts(t, {"template"}) \/ Ends(t, {"template"})
            \/ t.type = "Eof")
         => u = second
    BY DEF InColumnGroup
  <2> HIDE DEF u, first, second, left
  <2> QED
    BY <2>1, <2>2, <2>3, <2>4, <2>5, <2>6, <2>7, <2>8, <2>9
<1> HIDE DEF u, first, second, left
<1>2. F.root # NoNode /\ Based(F)
  BY ContentFrameFacts
<1>3. CurrentIs(s, {"colgroup"}) => K(left, F)
  BY GroupLeft DEF left
<1>4. Settled(first) /\ Settled(second) /\ Settled(s)
  BY <1>3, SettledK, SettledStays DEF first, second
<1>5. Settled(InsertText(s, t)) /\ Settled(AppendComment(s, Current(s))) /\ Settled(StartHtml(s, t))
  BY <1>2, InsertTextK, CommentHereK, StartHtmlK, SettledK
<1>6. Starts(t, {"col"}) => Settled(InsertVoid(s, t))
  <2>1. Starts(t, {"col"}) => t.tag \notin Fixed
    BY DEF Starts, Fixed
  <2> QED
    BY <1>2, <2>1, InsertVoidK, SettledK
<1>7. Starts(t, {"template"}) \/ Ends(t, {"template"}) => ForHead(t)
  BY DEF ForHead, Starts, HeadStarts, MetadataTags
<1> QED
  BY <1>1, <1>4, <1>5, <1>6, <1>7, SettledHands, HandOnIs DEF u

LEMMA InTableBodyHands ==
  ASSUME NEW s, NEW F, K(s, F), ContentFrame(F), NEW t
  PROVE  HandsOn(InTableBody(s, t), F, t)
<1> DEFINE u == InTableBody(s, t)
           cleared == ClearToTableBody(s)
           left == Go(Pop(cleared), "InTable")
           first == IF InTableScope(s, {t.tag}) THEN left ELSE s
           second == IF \E tag \in Sections : InTableScope(s, {tag}) THEN Again(left) ELSE s
<1>1. \/ u \in {Again(Go(InsertImplied(cleared, "tr"), "InRow")), second, s, HandOn(s, "InTable")}
      \/ Starts(t, {"tr"}) /\ u = Go(InsertTag(cleared, t), "InRow")
      \/ Ends(t, Sections) /\ u = first
  <2>1. Starts(t, {"tr"}) => u = Go(InsertTag(cleared, t), "InRow")
    BY DEF InTableBody, Starts, Ends, IsText, Sections, Cells, RootTags, ColumnTags, TableParts
  <2>2. Starts(t, Cells) => u = Again(Go(InsertImplied(cleared, "tr"), "InRow"))
    BY DEF InTableBody, Starts, Ends, IsText, Sections, Cells, RootTags, ColumnTags, TableParts
  <2>3. Ends(t, Sections) => u = first
    BY DEF InTableBody, Starts, Ends, IsText, Sections, Cells, RootTags, ColumnTags, TableParts
  <2>4. (Starts(t, ColumnTags \union Sections) \/ Ends(t, {"table"})) => u = second
    BY DEF InTableBody, Starts, Ends, IsText, Sections, Cells, RootTags, ColumnTags, TableParts
  <2>5. Ends(t, RootTags \union ColumnTags \union Cells \union {"tr"}) => u = s
    BY DEF InTableBody, Starts, Ends, IsText, Sections, Cells, RootTags, ColumnTags, TableParts
  <2>6. ~ (\/ Starts(t, {"tr"})
            \/ Starts(t, Cells)
            \/ Ends(t, Sections)
            \/ Starts(t, ColumnTags \union Sections) \/ Ends(t, {"table"})
            \/ Ends(t, RootTags \union ColumnTags \union Cells \union {"tr"}))
         => u = HandOn(s, "InTable")
    BY DEF InTableBody
  <2> HIDE DEF u, first, second, left, cleared
  <2> QED
    BY <2>1, <2>2, <2>3, <2>4, <2>5, <2>6
<1> HIDE DEF u, first, second, left, cleared
<1>2. K(cleared, F) /\ "InRow" \in ContentModes /\ "InTable" \in F.modes
  BY ContentFrameFacts, ClearToTableK DEF cleared, ContentModes
<1>3. ASSUME NEW tag \in Sections, InTableScope(s, {tag}) PROVE K(left, F)
  BY <1>2, <1>3, PartsLeft, GoK DEF left, cleared
<1>4. Settled(s) /\ Settled(second) /\ (Ends(t, Sections) => Settled(first))
  BY <1>3, SettledK, SettledStays DEF first, second, Ends
<1>5. "tr" \notin Fixed /\ (Starts(t, {"tr"}) => t.tag \notin Fixed)
  BY DEF Starts, Fixed
<1>6. /\ Settled(Again(Go(InsertImplied(cleared, "tr"), "InRow")))
      /\ Starts(t, {"tr"}) => Settled(Go(InsertTag(cleared, t), "InRow"))
  BY <1>2, <1>5, GoesWith, SettledStays
<1> QED
  BY <1>1, <1>4, <1>6, SettledHands, HandOnIs DEF u

LEMMA InRowHands ==
  ASSUME NEW s, NEW F, K(s, F), ContentFrame(F), NEW t
  PROVE  HandsOn(InRow(s, t), F, t)
<1> DEFINE u == InRow(s, t)
           cleared == ClearToTableRow(s)
           left == Go(Pop(cleared), "InTableBody")
           first == IF InTableScope(s, {"tr"}) THEN left ELSE s
           second == IF InTableScope(s, {"tr"}) THEN Again(left) ELSE s
           third == IF InTableScope(s, {t.tag}) /\ InTableScope(s, {"tr"}) THEN Again(left) ELSE s
           cell == Go(InsertTag(cleared, t), "InCell")
<1>1. \/ u \in {first, second, third, s, HandOn(s, "InTable")}
      \/ Starts(t, Cells) /\ u = AddMarker(cell)
  <2>1. Starts(t, Cells) => u = AddMarker(cell)
    BY DEF InRow, Starts, Ends, IsText, Sections, Cells, RootTags, ColumnTags, TableParts
  <2>2. Ends(t, {"tr"}) => u = first
    BY DEF InRow, Starts, Ends, IsText, Sections, Cells, RootTags, ColumnTags, TableParts
  <2>3. (Starts(t, ColumnTags \union Sections \union {"tr"}) \/ Ends(t, {"table"})) => u = second
    BY DEF InRow, Starts, Ends, IsText, Sections, Cells, RootTags, ColumnTags, TableParts
  <2>4. Ends(t, Sections) => u = third
    BY DEF InRow, Starts, Ends, IsText, Sections, Cells, RootTags, ColumnTags, TableParts
  <2>5. Ends(t, RootTags \union ColumnTags \union Cells) => u = s
    BY DEF InRow, Starts, Ends, IsText, Sections, Cells, RootTags, ColumnTags, TableParts
  <2>6. ~ (\/ Starts(t, Cells)
            \/ Ends(t, {"tr"})
            \/ Starts(t, ColumnTags \union Sections \union {"tr"}) \/ Ends(t, {"table"})
            \/ Ends(t, Sections)
            \/ Ends(t, RootTags \union ColumnTags \union Cells))
         => u = HandOn(s, "InTable")
    BY DEF InRow
  <2> HIDE DEF u, first, second, third, cell, left, cleared
  <2> QED
    BY <2>1, <2>2, <2>3, <2>4, <2>5, <2>6
<1> HIDE DEF u, first, second, third, cell, left, cleared
<1>2. K(cleared, F) /\ "InCell" \in ContentModes /\ "InTableBody" \in F.modes
  BY ContentFrameFacts, ClearToTableK DEF cleared, ContentModes
<1>3. InTableScope(s, {"tr"}) => K(left, F)
  BY <1>2, PartsLeft, GoK DEF left, cleared
<1>4. Settled(s) /\ Settled(first) /\ Settled(second) /\ Settled(third)
  BY <1>3, SettledK, SettledStays DEF first, second, third
<1>5. Starts(t, Cells) => Settled(AddMarker(cell))
  <2>1. Starts(t, Cells) => t.tag \notin Fixed
    BY DEF Starts, Cells, Fixed
  <2>2. Starts(t, Cells) => K(cell, F)
    BY <1>2, <2>1, GoesWith DEF cell
  <2> QED
    BY <2>2, AddMarkerK, SettledK
<1> QED
  BY <1>1, <1>4, <1>5, SettledHands, HandOnIs DEF u

LEMMA InCellHands ==
  ASSUME NEW s, NEW F, K(s, F), ContentFrame(F), NEW t
  PROVE  HandsOn(InCell(s, t), F, t)
<1> DEFINE u == InCell(s, t)
           closed == CloseCurrentCell(Again(s))
           first == IF InTableScope(s, {t.tag}) THEN CloseCell(s, t.tag) ELSE s
           second == IF InTableScope(s, {"th"}) \/ InTableScope(s, {"td"}) THEN closed ELSE s
           third == IF InTableScope(s, {t.tag}) THEN closed ELSE s
<1>1. \/ u \in {second, third, s, HandOn(s, "InBody")}
      \/ Ends(t, Cells) /\ u = first
  <2>1. Ends(t, Cells) => u = first
    BY DEF InCell, Starts, Ends, IsText, Sections, Cells, RootTags, ColumnTags, TableParts
  <2>2. Starts(t, ColumnTags \union Sections \union Cells \union {"tr"}) => u = second
    BY DEF InCell, Starts, Ends, IsText, Sections, Cells, RootTags, ColumnTags, TableParts
  <2>3. Ends(t, RootTags \union ColumnTags) => u = s
    BY DEF InCell, Starts, Ends, IsText, Sections, Cells, RootTags, ColumnTags, TableParts
  <2>4. Ends(t, TableParts) => u = third
    BY DEF InCell, Starts, Ends, IsText, Sections, Cells, RootTags, ColumnTags, TableParts
  <2>5. ~ (\/ Ends(t, Cells)
            \/ Starts(t, ColumnTags \union Sections \union Cells \union {"tr"})
            \/ Ends(t, RootTags \union ColumnTags)
            \/ Ends(t, TableParts))
         => u = HandOn(s, "InBody")
    BY DEF InCell
  <2> HIDE DEF u, first, second, third, closed
  <2> QED
    BY <2>1, <2>2, <2>3, <2>4, <2>5
<1> HIDE DEF u, first, second, third, closed
<1>2. K(closed, F)
  BY AgainK, CloseCurrentCellK DEF closed
<1>3. Settled(s) /\ Settled(second) /\ Settled(third)
  BY <1>2, SettledK DEF second, third
<1>4. Ends(t, Cells) => Settled(first)
  <2>1. Ends(t, Cells) => {t.tag} \intersect Fixed = {}
    BY DEF Ends, Cells, Fixed
  <2> QED
    BY <1>3, <2>1, CloseCellK, SettledK DEF first
<1> QED
  BY <1>1, <1>3, <1>4, SettledHands, HandOnIs DEF u

LEMMA InSelectSettles ==
  ASSUME NEW s, NEW F, K(s, F), ContentFrame(F), NEW t
  PROVE  LET u == InSelect(s, t) IN Settled(u) \/ Handed(u, F, "InBody") \/ (Handed(u, F, "InHead") /\ ForHead(t))
<1> DEFINE u == InSelect(s, t)
           inner == CurrentIs(s, {"option"}) /\ IsHtml(s, s.open[Len(s.open) - 1], {"optgroup"})
           popped == IF inner THEN Pop(s) ELSE s
           first == IF InSelectScope(s, "select") THEN CloseSelect(s) ELSE s
           second == IF InSelectScope(s, "select") THEN Again(CloseSelect(s)) ELSE s
<1>1. \/ u \in {InsertText(s, t), AppendComment(s, Current(s)), StartHtml(s, t), LeaveOptgroup(popped), LeaveOption(s),
               first, second, HandOn(s, "InBody"), s}
      \/ Starts(t, {"option"}) /\ u = InsertTag(LeaveOption(s), t)
      \/ Starts(t, {"optgroup"}) /\ u = InsertTag(LeaveOptgroup(LeaveOption(s)), t)
      \/ (Starts(t, {"script", "template"}) \/ Ends(t, {"template"})) /\ u = HandOn(s, "InHead")
  <2>1. IsText(t) => u = InsertText(s, t)
    BY DEF InSelect, Starts, Ends, IsText, Sections, Cells, RootTags, ColumnTags, TableParts, MetadataTags
  <2>2. t.type = "Comment" => u = AppendComment(s, Current(s))
    BY DEF InSelect, Starts, Ends, IsText, Sections, Cells, RootTags, ColumnTags, TableParts, MetadataTags
  <2>3. Starts(t, {"html"}) => u = StartHtml(s, t)
    BY DEF InSelect, Starts, Ends, IsText, Sections, Cells, RootTags, ColumnTags, TableParts, MetadataTags
  <2>4. Starts(t, {"option"}) => u = InsertTag(LeaveOption(s), t)
    BY DEF InSelect, Starts, Ends, IsText, Sections, Cells, RootTags, ColumnTags, TableParts, MetadataTags
  <2>5. Starts(t, {"optgroup"}) => u = InsertTag(LeaveOptgroup(LeaveOption(s)), t)
    BY DEF InSelect, Starts, Ends, IsText, Sections, Cells, RootTags, ColumnTags, TableParts, MetadataTags
  <2>6. Ends(t, {"optgroup"}) => u = LeaveOptgroup(popped)
    BY DEF InSelect, Starts, Ends, IsText, Sections, Cells, RootTags, ColumnTags, TableParts, MetadataTags
  <2>7. Ends(t, {"option"}) => u = LeaveOption(s)
    BY DEF InSelect, Starts, Ends, IsText, Sections, Cells, RootTags, ColumnTags, TableParts, MetadataTags
  <2>8. (Ends(t, {"select"}) \/ Starts(t, {"select"})) => u = first
    BY DEF InSelect, Starts, Ends, IsText, Sections, Cells, RootTags, ColumnTags, TableParts, MetadataTags
  <2>9. Starts(t, {"input", "keygen", "textarea"}) => u = second
    BY DEF InSelect, Starts, Ends, IsText, Sections, Cells, RootTags, ColumnTags, TableParts, MetadataTags
  <2>10. (Starts(t, {"script", "template"}) \/ Ends(t, {"template"})) => u = HandOn(s, "InHead")
    BY DEF InSelect, Starts, Ends, IsText, Sections, Cells, RootTags, ColumnTags, TableParts, MetadataTags
  <2>11. t.type = "Eof" => u = HandOn(s, "InBody")
    BY DEF InSelect, Starts, Ends, IsText, Sections, Cells, RootTags, ColumnTags, TableParts, MetadataTags
  <2>12. ~ (\/ IsText(t)
            \/ t.type = "Comment"
            \/ Starts(t, {"html"})
            \/ Starts(t, {"option"})
            \/ Starts(t, {"optgroup"})
            \/ Ends(t, {"optgroup"})
            \/ Ends(t, {"option"})
            \/ Ends(t, {"select"}) \/ Starts(t, {"select"})
            \/ Starts(t, {"input", "keygen", "textarea"})
            \/ Starts(t, {"script", "template"}) \/ Ends(t, {"template"})
            \/ t.type = "Eof")
         => u = s
    BY DEF InSelect
  <2> HIDE DEF u, first, second, inner, popped
  <2> QED
    BY <2>1, <2>2, <2>3, <2>4, <2>5, <2>6, <2>7, <2>8, <2>9, <2>10, <2>11, <2>12
<1> HIDE DEF u, first, second, popped
<1>2. F.root # NoNode /\ Based(F) /\ F.stop
  BY ContentFrameFacts
<1>3. Settled(first) /\ Settled(second) /\ Settled(s)
  BY CloseTableK, SettledK, SettledStays DEF first, second
<1>4. Settled(InsertText(s, t)) /\ Settled(AppendComment(s, Current(s))) /\ Settled(StartHtml(s, t))
  BY <1>2, InsertTextK, CommentHereK, StartHtmlK, SettledK
<1>5. K(popped, F)
  <2>1. NoTag \notin {"option"}
    BY DEF NoTag
  <2>2. inner => K(Pop(s), F)
    BY <1>2, <2>1, NotFixed, PopNamedK
  <2> QED
    BY <2>2 DEF popped
<1>6. Settled(LeaveOptgroup(popped)) /\ K(LeaveOption(s), F) /\ K(LeaveOptgroup(LeaveOption(s)), F)
  BY <1>2, <1>5, LeaveOptionK, SettledK
<1>7. t.tag \notin Fixed => Settled(InsertTag(LeaveOption(s), t)) /\ Settled(InsertTag(LeaveOptgroup(LeaveOption(s)), t))
  BY <1>2, <1>6, InsertTagK, SettledK
<1>8. Starts(t, {"option"}) \/ Starts(t, {"optgroup"}) => t.tag \notin Fixed
  BY DEF Starts, Fixed
<1>9. Starts(t, {"script", "template"}) \/ Ends(t, {"template"}) => ForHead(t)
  BY DEF ForHead, Starts, HeadStarts, MetadataTags
<1> QED
  BY <1>1, <1>3, <1>4, <1>6, <1>7, <1>8, <1>9, SettledK, HandOnHands DEF u

LEMMA InSelectInTableHands ==
  ASSUME NEW s, NEW F, K(s, F), ContentFrame(F), NEW t
  PROVE  HandsOn(InSelectInTable(s, t), F, t)
<1> DEFINE u == InSelectInTable(s, t)
           closed == Again(CloseSelect(s))
           second == IF InTableScope(s, {t.tag}) THEN closed ELSE s
<1>1. u \in {closed, second, HandOn(s, "InSelect")}
  <2>1. Starts(t, TableParts \union Cells \union {"caption"}) => u = closed
    BY DEF InSelectInTable, Starts, Ends, IsText, Sections, Cells, RootTags, ColumnTags, TableParts, MetadataTags
  <2>2. Ends(t, TableParts \union Cells \union {"caption"}) => u = second
    BY DEF InSelectInTable, Starts, Ends, IsText, Sections, Cells, RootTags, ColumnTags, TableParts, MetadataTags
  <2>3. ~ (\/ Starts(t, TableParts \union Cells \union {"caption"})
            \/ Ends(t, TableParts \union Cells \union {"caption"}))
         => u = HandOn(s, "InSelect")
    BY DEF InSelectInTable
  <2> HIDE DEF u, second, closed
  <2> QED
    BY <2>1, <2>2, <2>3
<1> HIDE DEF u, second, closed
<1>2. Settled(closed) /\ Settled(second)
  BY CloseTableK, SettledK, SettledStays DEF closed, second
<1> QED
  BY <1>1, <1>2, SettledHands, HandOnIs DEF u

\* A template mode takes the place of another.
LEMMA OtherModeK ==
  ASSUME NEW s, NEW F, K(s, F), NEW mode \in ContentModes
  PROVE  K(PushTemplateMode(PopTemplateMode(s), mode), F)
<1> DEFINE u == PushTemplateMode(PopTemplateMode(s), mode)
<1>1. /\ Rec(u) /\ u.sound = s.sound /\ u.rules = s.rules /\ u.bufferType = s.bufferType /\ u.nodes = s.nodes
      /\ u.root = s.root /\ u.head = s.head /\ u.open = s.open /\ u.active = s.active /\ u.form = s.form
      /\ u.mode = s.mode /\ u.original = s.original
      /\ u.templateModes = Append(Popped(s.templateModes), mode)
  BY DEF PushTemplateMode, PopTemplateMode, Add, K, Rec, StateFields
<1> HIDE DEF u
<1>2. ASSUME u.sound PROVE TemplatesOK(u.nodes, u.open, u.templateModes)
  <2> DEFINE modes == s.templateModes
             shorter == Popped(modes)
  <2>1. s.sound /\ modes \in Seq(ContentModes) /\ Cardinality(TemplatesIn(s.nodes, s.open)) <= Len(modes)
        /\ IsFiniteSet(TemplatesIn(s.nodes, s.open))
    <3>1. Core(s)
      BY <1>1, <1>2, HeldFacts
    <3>2. Typed(s.nodes)
      BY <3>1 DEF Core, NodesOK, Sound
    <3>3. DOMAIN s.nodes = 1 .. Len(s.nodes) /\ Len(s.nodes) \in Nat
      BY <3>1, CoreIsRooted, StackFacts
    <3>4. IsFiniteSet(DOMAIN s.nodes) /\ TemplatesIn(s.nodes, s.open) \subseteq DOMAIN s.nodes
      BY <3>3, FS_Interval DEF TemplatesIn
    <3> QED
      BY <1>1, <1>2, <3>1, <3>4, FS_Subset DEF Core, TemplatesOK
  <2>2. Cardinality(TemplatesIn(s.nodes, s.open)) \in Nat
    BY <2>1, FS_CardinalityType
  <2>3. Len(modes) \in Nat
    BY <2>1, VectorFacts
  <2>4. shorter \in Seq(ContentModes) /\ Len(Append(shorter, mode)) >= Len(modes) /\ Append(shorter, mode) \in Seq(ContentModes)
        /\ Len(Append(shorter, mode)) \in Nat
    <3>1. CASE Len(modes) = 0
      <4>1. SubSeq(modes, 1, -1) = <<>>
        BY <2>1, <2>3, <3>1, SubSeqEmpty
      <4>2. shorter = <<>>
        BY <3>1, <4>1 DEF Popped
      <4> HIDE DEF shorter, modes
      <4>3. shorter \in Seq(ContentModes)
        BY <4>2
      <4>4. Append(shorter, mode) \in Seq(ContentModes) /\ Len(Append(shorter, mode)) = Len(shorter) + 1 /\ Len(shorter) \in Nat
        BY <4>3, AppendIs
      <4> QED
        BY <3>1, <4>3, <4>4
    <3>2. CASE Len(modes) # 0
      <4>1. shorter \in Seq(ContentModes) /\ Len(shorter) = Len(modes) - 1
        BY <2>1, <2>3, <3>2, SubSeqProperties DEF Popped
      <4> HIDE DEF shorter, modes
      <4>4. Append(shorter, mode) \in Seq(ContentModes) /\ Len(Append(shorter, mode)) = Len(shorter) + 1 /\ Len(shorter) \in Nat
        BY <4>1, AppendIs
      <4> QED
        BY <2>3, <3>2, <4>1, <4>4
    <3> QED
      BY <3>1, <3>2
  <2> HIDE DEF shorter, modes
  <2>5. Cardinality(TemplatesIn(s.nodes, s.open)) <= Len(Append(shorter, mode))
    BY <2>1, <2>2, <2>3, <2>4
  <2> QED
    BY <1>1, <2>4, <2>5 DEF TemplatesOK, shorter, modes
<1>3. K(u, F)
  <2>1. u.sound => Core(u) /\ Held(u, F)
    BY <1>1, <1>2 DEF K, Core, Held
  <2> QED
    BY <1>1, <2>1 DEF K
<1> QED
  BY <1>3 DEF u

LEMMA InTemplateHands ==
  ASSUME NEW s, NEW F, K(s, F), ContentFrame(F), NEW t
  PROVE  HandsOn(InTemplate(s, t), F, t)
<1> DEFINE u == InTemplate(s, t)
           mode == TemplateMode(t.tag)
           begun == Again(Go(PushTemplateMode(PopTemplateMode(s), mode), mode))
           failed == Claim(s, FALSE)
<1>1. \/ u \in {HandOn(s, "InBody"), begun, EndInTemplate(s), s, failed}
      \/ (Starts(t, MetadataTags) \/ Ends(t, {"template"})) /\ u = HandOn(s, "InHead")
  <2>1. (IsText(t) \/ t.type \in {"Comment", "Doctype"}) => u = HandOn(s, "InBody")
    BY DEF InTemplate, Starts, Ends, IsText, Sections, Cells, RootTags, ColumnTags, TableParts, MetadataTags
  <2>2. (Starts(t, MetadataTags) \/ Ends(t, {"template"})) => u = HandOn(s, "InHead")
    BY DEF InTemplate, Starts, Ends, IsText, Sections, Cells, RootTags, ColumnTags, TableParts, MetadataTags
  <2>3. t.type = "StartTag" /\ t.tag \notin MetadataTags => u = begun
    BY DEF InTemplate, Starts, Ends, IsText, Sections, Cells, RootTags, ColumnTags, TableParts, MetadataTags
  <2>4. t.type = "Eof" => u = EndInTemplate(s)
    BY DEF InTemplate, Starts, Ends, IsText, Sections, Cells, RootTags, ColumnTags, TableParts, MetadataTags
  <2>5. ~ IsText(t) /\ t.type \notin {"Comment", "Doctype"} /\ ~ Starts(t, MetadataTags) /\ ~ Ends(t, {"template"})
        /\ ~ (t.type = "StartTag" /\ t.tag \notin MetadataTags) /\ t.type # "Eof"
        => u \in {s, failed}
    BY Zenon DEF InTemplate
  <2> HIDE DEF u, begun, mode, failed
  <2> QED
    BY <2>1, <2>2, <2>3, <2>4, <2>5
<1>2. mode \in ContentModes
  BY DEF TemplateMode, ContentModes
<1> HIDE DEF u, begun, mode, failed
<1>3. Settled(begun)
  BY <1>2, OtherModeK, GoesWith, SettledStays DEF begun
<1>4. Settled(s) /\ Settled(EndInTemplate(s))
  BY SettledK, CloseTemplateSettles, SettledStays DEF EndInTemplate
<1>6. Settled(failed)
  BY ClaimK DEF Settled, failed, K
<1>5. Starts(t, MetadataTags) \/ Ends(t, {"template"}) => ForHead(t)
  BY DEF ForHead, Starts, HeadStarts
<1> QED
  BY <1>1, <1>3, <1>4, <1>5, <1>6, SettledHands, HandOnIs DEF u

\* The page is at its end, or goes on in the body.
LEMMA AfterBodyHands ==
  ASSUME NEW s, NEW F, K(s, F), ContentFrame(F), NEW t
  PROVE  HandsOn(AfterBody(s, t), F, t) /\ HandsOn(AfterAfterBody(s, t), F, t)
<1> DEFINE u == AfterBody(s, t)
           v == AfterAfterBody(s, t)
           holds == IsHtml(s, s.open[1], {"html"})
           ended == Claim(Go(s, "AfterAfterBody"), holds)
           back == Again(Go(s, "InBody"))
<1>1. u \in {HandOn(s, "InBody"), AppendComment(s, s.root), s, ended, back}
  <2>1. (t.type = "Whitespace" \/ Starts(t, {"html"})) => u = HandOn(s, "InBody")
    BY DEF AfterBody, Starts, Ends, IsText, Sections, Cells, RootTags, ColumnTags, TableParts, MetadataTags
  <2>2. t.type = "Comment" => u = AppendComment(s, s.root)
    BY DEF AfterBody, Starts, Ends, IsText, Sections, Cells, RootTags, ColumnTags, TableParts, MetadataTags
  <2>3. t.type \in {"Doctype", "Eof"} => u = s
    BY DEF AfterBody, Starts, Ends, IsText, Sections, Cells, RootTags, ColumnTags, TableParts, MetadataTags
  <2>4. Ends(t, {"html"}) => u = ended
    BY DEF AfterBody, Starts, Ends, IsText, Sections, Cells, RootTags, ColumnTags, TableParts, MetadataTags
  <2>5. ~ (\/ t.type = "Whitespace" \/ Starts(t, {"html"})
            \/ t.type = "Comment"
            \/ t.type \in {"Doctype", "Eof"}
            \/ Ends(t, {"html"}))
         => u = back
    BY DEF AfterBody
  <2> HIDE DEF u, ended, back
  <2> QED
    BY <2>1, <2>2, <2>3, <2>4, <2>5
<1>2. v \in {HandOn(s, "InBody"), AppendComment(s, Document), s, back}
  <2>1. t.type = "Comment" => v = AppendComment(s, Document)
    BY DEF AfterAfterBody, Starts, Ends, IsText, Sections, Cells, RootTags, ColumnTags, TableParts, MetadataTags
  <2>2. (t.type \in {"Doctype", "Whitespace"} \/ Starts(t, {"html"})) => v = HandOn(s, "InBody")
    BY DEF AfterAfterBody, Starts, Ends, IsText, Sections, Cells, RootTags, ColumnTags, TableParts, MetadataTags
  <2>3. t.type = "Eof" => v = s
    BY DEF AfterAfterBody, Starts, Ends, IsText, Sections, Cells, RootTags, ColumnTags, TableParts, MetadataTags
  <2>4. ~ (\/ t.type = "Comment"
            \/ t.type \in {"Doctype", "Whitespace"} \/ Starts(t, {"html"})
            \/ t.type = "Eof")
         => v = back
    BY DEF AfterAfterBody
  <2> HIDE DEF v, back
  <2> QED
    BY <2>1, <2>2, <2>3, <2>4
<1> HIDE DEF u, v, ended, back
<1>3. "AfterAfterBody" \in ContentModes /\ "InBody" \in ContentModes
  BY DEF ContentModes
<1>4. Settled(ended) /\ Settled(back) /\ Settled(s)
  <2>1. holds \in BOOLEAN
    BY DEF IsHtml, IsElement
  <2> HIDE DEF holds
  <2>2. K(Go(s, "AfterAfterBody"), F)
    BY <1>3, GoesWith
  <2> QED
    BY <1>3, <2>1, <2>2, ClaimK, GoesWith, SettledK, SettledStays DEF ended, back
<1>5. Settled(AppendComment(s, s.root)) /\ Settled(AppendComment(s, Document))
  <2>1. s.sound => s.root \in DOMAIN s.nodes /\ Document \in DOMAIN s.nodes
    <3>1. F.root # NoNode
      BY ContentFrameFacts
    <3> QED
      BY <3>1, HeldFacts DEF NodesOK
  <2> QED
    BY <2>1, AppendCommentK, SettledK
<1>6. HandsOn(u, F, t) /\ HandsOn(v, F, t)
  BY <1>1, <1>2, <1>4, <1>5, SettledHands, HandOnIs
<1> QED
  BY <1>6 DEF u, v

-----------------------------------------------------------------------------
(* The modes for framesets.                                                *)

LEMMA OneBelow ==
  ASSUME NEW n \in Nat, n >= 1, n # 1
  PROVE  n - 1 \in Nat /\ n - 1 >= 1 /\ n - 1 <= n /\ n - 1 < n /\ n = (n - 1) + 1
OBVIOUS

\* The end of a frameset, which may be the outermost.
LEMMA FramesetEnds ==
  ASSUME NEW s, NEW F, K(s, F), ContentFrame(F), ~ CurrentIs(s, {"html"})
  PROVE  /\ CurrentIs(Pop(s), {"frameset"}) => Settled(Pop(s))
         /\ Settled(Go(Pop(s), "AfterFrameset"))
<1> DEFINE k == Len(s.open) - 1
           popped == PopTo(s, k)
           u == Go(popped, "AfterFrameset")
           base == SubSeq(s.open, 1, k)
           G == [modes |-> F.modes, base |-> base, stop |-> FALSE, root |-> F.root, head |-> F.head, original |-> F.original]
<1>1. Pop(s) = popped
  BY DEF Pop
<1>2. k \in Int /\ Len(s.open) \in Nat
  BY OpenPlaces
<1>3. F.root # NoNode /\ F.head # NoNode /\ F.stop /\ Len(F.base) \in {1, 3} /\ Len(F.base) \in Nat
      /\ (Len(F.base) = 3 => F.base[2] = F.head)
  BY ContentFrameFacts
<1>4. G.modes = F.modes /\ G.base = base /\ ~ G.stop /\ G.root = F.root /\ G.head = F.head /\ G.original = F.original
  OBVIOUS
<1> HIDE DEF G, k
<1>5. s.sound => /\ k \in Nat /\ k >= 1 /\ k <= Len(s.open) /\ Len(base) = k
                 /\ \A i \in 1 .. k : base[i] = s.open[i]
                 /\ \A i \in DOMAIN s.open : s.open[i] = F.head => i <= 2 /\ i <= k
                 /\ DOMAIN s.open = 1 .. Len(s.open) /\ k < Len(s.open)
                 /\ \A i \in DOMAIN s.open : s.open[i] \in DOMAIN s.nodes
  <2> SUFFICES ASSUME s.sound
               PROVE  /\ k \in Nat /\ k >= 1 /\ k <= Len(s.open) /\ Len(base) = k
                      /\ \A i \in 1 .. k : base[i] = s.open[i]
                      /\ \A i \in DOMAIN s.open : s.open[i] = F.head => i <= 2 /\ i <= k
                      /\ DOMAIN s.open = 1 .. Len(s.open) /\ k < Len(s.open)
                      /\ \A i \in DOMAIN s.open : s.open[i] \in DOMAIN s.nodes
    OBVIOUS
  <2>1. /\ NodesOK(s.nodes, F.root, F.head) /\ OpenOK(s.nodes, s.open, F.root) /\ Begins(s.open, F.base, F.head)
        /\ DOMAIN s.open = 1 .. Len(s.open) /\ s.open # <<>> <=> Len(s.open) # 0
        /\ Len(F.base) <= Len(s.open) /\ \A i \in DOMAIN s.open : s.open[i] \in DOMAIN s.nodes
    BY HeldFacts
  <2>2. Len(s.open) >= 1 /\ s.open # <<>>
    BY <1>2, <1>3, <2>1
  <2>3. s.open[1] = F.root /\ s.nodes[F.root].tag = "html" /\ s.nodes[F.root].ns = "html"
    BY <1>3, <2>1, <2>2 DEF OpenOK, NodesOK
  <2>4. Len(s.open) # 1
    <3> SUFFICES ASSUME Len(s.open) = 1 PROVE FALSE
      OBVIOUS
    <3>1. Current(s) = F.root
      BY <2>2, <2>3 DEF Current, Top
    <3> QED
      BY <2>3, <3>1 DEF CurrentIs, IsHtml, IsElement
  <2>5. k \in Nat /\ k >= 1 /\ k <= Len(s.open) /\ k < Len(s.open) /\ Len(s.open) = k + 1
    <3> HIDE DEF popped, base, u
    <3>1. k = Len(s.open) - 1
      BY DEF k
    <3> QED
      BY <1>2, <2>2, <2>4, <3>1, OneBelow
  <2>6. Len(base) = k /\ \A i \in 1 .. k : base[i] = s.open[i]
    BY <2>1, <2>5, OpenPrefix
  <2>7. ASSUME NEW i \in DOMAIN s.open, s.open[i] = F.head PROVE i <= 2 /\ i <= k
    <3>1. i <= Len(F.base) /\ i \in Nat
      BY <2>1, <2>7 DEF Begins
    <3>2. CASE Len(F.base) = 1
      BY <2>5, <3>1, <3>2
    <3>3. CASE Len(F.base) = 3
      <4>1. 2 \in 1 .. Len(F.base) /\ 2 \in DOMAIN s.open /\ Len(s.open) >= 3
        BY <1>2, <2>1, <3>3
      <4>2. s.open[2] = F.head
        BY <1>3, <2>1, <3>3, <4>1 DEF Begins
      <4>3. i = 2
        BY <2>1, <2>7, <4>1, <4>2 DEF OpenOK
      <4> QED
        BY <2>5, <4>1, <4>3
    <3> QED
      BY <1>3, <3>2, <3>3
  <2> QED
    BY <2>1, <2>5, <2>6, <2>7
<1>6. K(popped, G)
  <2>1. s.sound => Held(s, G)
    BY <1>2, <1>4, <1>5, HeldFacts DEF Held, Begins
  <2>2. K(s, G)
    BY <2>1, ReframedK
  <2>3. s.sound => k >= Len(G.base)
    BY <1>2, <1>4, <1>5
  <2> QED
    BY <1>2, <2>2, <2>3, PopToK
<1>7. Popping(s, popped, k)
  BY <1>2, KIsRooted, PopToIs
<1> HIDE DEF popped, base
<1>8. popped.sound => /\ s.sound /\ popped.open = base /\ SameNames(s.nodes, popped.nodes)
  <2> SUFFICES ASSUME popped.sound PROVE s.sound /\ popped.open = base /\ SameNames(s.nodes, popped.nodes)
    OBVIOUS
  <2>1. s.sound /\ SameNames(s.nodes, popped.nodes)
        /\ popped.open = IF Len(s.open) <= k THEN s.open ELSE SubSeq(s.open, 1, k)
    BY <1>7 DEF Popping, Rest
  <2>2. ~ (Len(s.open) <= k)
    BY <1>2, <1>5, <2>1
  <2>3. base = SubSeq(s.open, 1, k)
    BY DEF base
  <2> QED
    BY <2>1, <2>2, <2>3
<1>9. ASSUME CurrentIs(popped, {"frameset"}) PROVE Settled(popped)
  <2>1. ASSUME popped.sound PROVE k >= Len(F.base)
    <3>1. s.sound /\ Len(popped.open) = k /\ k \in DOMAIN s.open /\ popped.open[k] = s.open[k] /\ s.open[k] \in DOMAIN s.nodes
          /\ k # 0
      BY <1>2, <1>5, <1>8, <2>1
    <3>2. popped.open # <<>>
      BY <3>1, EmptyHasNoPlace
    <3>3. popped.nodes[s.open[k]].tag = "frameset"
      BY <1>9, <3>1, <3>2 DEF CurrentIs, Current, Top, IsHtml, IsElement
    <3>4. s.nodes[s.open[k]].tag \notin Fixed
      BY <1>8, <2>1, <3>1, <3>3 DEF SameNames, Fixed
    <3>5. k > Len(F.base)
      BY <1>3, <3>1, <3>4, AboveBase
    <3> QED
      BY <1>2, <1>3, <3>5
  <2>2. CASE popped.sound
    BY <1>2, <1>3, <2>1, <2>2, PopToK, SettledK DEF popped
  <2>3. CASE ~ popped.sound
    BY <1>6, <2>3 DEF K, Settled
  <2> QED
    BY <2>2, <2>3
<1>10. Settled(u)
  <2>1. /\ Rec(u) /\ u.sound = popped.sound /\ u.rules = popped.rules /\ u.bufferType = popped.bufferType
        /\ u.nodes = popped.nodes /\ u.root = popped.root /\ u.head = popped.head /\ u.open = popped.open
        /\ u.active = popped.active /\ u.form = popped.form /\ u.templateModes = popped.templateModes
        /\ u.mode = "AfterFrameset"
    BY <1>6 DEF Go, K, Rec, StateFields
  <2> HIDE DEF u
  <2>2. ASSUME u.sound PROVE Core(u) /\ Modal(u)
    <3>1. Core(popped) /\ popped.root = F.root /\ popped.head = F.head
      BY <1>4, <1>6, <2>1, <2>2, HeldFacts
    <3>2. Core(u)
      BY <2>1, <3>1 DEF Core
    <3>3. Len(u.open) >= 1 /\ \A i \in DOMAIN u.open : u.open[i] = u.head => i <= 2
      <4>1. u.open = base /\ Len(base) = k /\ k >= 1 /\ k \in Nat /\ s.sound
        BY <1>5, <1>8, <2>1, <2>2
      <4>2. DOMAIN u.open = 1 .. k
        <5>1. Rec(u)
          BY <2>1
        <5> QED
          BY <4>1, <5>1, VectorIs DEF Rec
      <4> QED
        BY <1>2, <1>5, <2>1, <3>1, <4>1, <4>2
    <3>4. Modal(u)
      BY <1>3, <2>1, <3>1, <3>3 DEF Modal, Fits, LateModes
    <3> QED
      BY <3>2, <3>4
  <2> QED
    BY <2>1, <2>2 DEF Settled
<1> QED
  BY <1>1, <1>9, <1>10 DEF u

LEMMA InFramesetHands ==
  ASSUME NEW s, NEW F, K(s, F), ContentFrame(F), NEW t
  PROVE  HandsOn(InFrameset(s, t), F, t)
<1> DEFINE u == InFrameset(s, t)
           ended == IF CurrentIs(s, {"html"}) THEN s
                    ELSE IF CurrentIs(Pop(s), {"frameset"}) THEN Pop(s)
                    ELSE Go(Pop(s), "AfterFrameset")
<1>1. \/ u \in {InsertText(s, t), AppendComment(s, Current(s)), StartHtml(s, t), ended, s}
      \/ Starts(t, {"frameset"}) /\ u = InsertTag(s, t)
      \/ Starts(t, {"frame"}) /\ u = InsertVoid(s, t)
      \/ Starts(t, {"noframes"}) /\ u = HandOn(s, "InHead")
  <2>1. t.type = "Whitespace" => u = InsertText(s, t)
    BY DEF InFrameset, Starts, Ends, IsText, RootTags, MetadataTags
  <2>2. t.type = "Comment" => u = AppendComment(s, Current(s))
    BY DEF InFrameset, Starts, Ends, IsText, RootTags, MetadataTags
  <2>3. Starts(t, {"html"}) => u = StartHtml(s, t)
    BY DEF InFrameset, Starts, Ends, IsText, RootTags, MetadataTags
  <2>4. Starts(t, {"frameset"}) => u = InsertTag(s, t)
    BY DEF InFrameset, Starts, Ends, IsText, RootTags, MetadataTags
  <2>5. Ends(t, {"frameset"}) => u = ended
    BY DEF InFrameset, Starts, Ends, IsText, RootTags, MetadataTags
  <2>6. Starts(t, {"frame"}) => u = InsertVoid(s, t)
    BY DEF InFrameset, Starts, Ends, IsText, RootTags, MetadataTags
  <2>7. Starts(t, {"noframes"}) => u = HandOn(s, "InHead")
    BY DEF InFrameset, Starts, Ends, IsText, RootTags, MetadataTags
  <2>8. ~ (\/ t.type = "Whitespace"
            \/ t.type = "Comment"
            \/ Starts(t, {"html"})
            \/ Starts(t, {"frameset"})
            \/ Ends(t, {"frameset"})
            \/ Starts(t, {"frame"})
            \/ Starts(t, {"noframes"}))
         => u = s
    BY DEF InFrameset
  <2> HIDE DEF u, ended
  <2> QED
    BY <2>1, <2>2, <2>3, <2>4, <2>5, <2>6, <2>7, <2>8
<1> HIDE DEF u, ended
<1>2. F.root # NoNode /\ Based(F)
  BY ContentFrameFacts
<1>3. Settled(ended) /\ Settled(s)
  BY FramesetEnds, SettledK DEF ended
<1>4. Settled(InsertText(s, t)) /\ Settled(AppendComment(s, Current(s))) /\ Settled(StartHtml(s, t))
  BY <1>2, InsertTextK, CommentHereK, StartHtmlK, SettledK
<1>5. t.tag \notin Fixed => Settled(InsertTag(s, t)) /\ Settled(InsertVoid(s, t))
  BY <1>2, InsertTagK, InsertVoidK, SettledK
<1>6. /\ Starts(t, {"frameset"}) \/ Starts(t, {"frame"}) => t.tag \notin Fixed
      /\ Starts(t, {"noframes"}) => ForHead(t)
  BY DEF Starts, Fixed, ForHead, HeadStarts, MetadataTags
<1> QED
  BY <1>1, <1>3, <1>4, <1>5, <1>6, SettledHands, HandOnIs DEF u

-----------------------------------------------------------------------------
(* handle_after_head.                                                      *)

\* gumbo_vector_remove takes out what was pushed, also from below the top.
LEMMA PushedAndRemoved ==
  ASSUME NEW S, NEW v \in Seq(S), NEW e \in S, \A i \in DOMAIN v : v[i] # e
  PROVE  /\ Remove(Append(v, e), e) = v
         /\ \A n \in S : n # e => Remove(Append(Append(v, e), n), e) = Append(v, n)
<1> DEFINE w == Append(v, e)
<1>1. /\ w \in Seq(S) /\ Len(w) = Len(v) + 1 /\ Len(v) \in Nat /\ DOMAIN w = 1 .. Len(v) + 1 /\ DOMAIN v = 1 .. Len(v)
      /\ w[Len(v) + 1] = e /\ \A i \in 1 .. Len(v) : w[i] = v[i]
  <2>1. /\ w \in Seq(S) /\ Len(w) = Len(v) + 1 /\ Len(v) \in Nat /\ DOMAIN w = DOMAIN v \union {Len(v) + 1}
        /\ DOMAIN v = 1 .. Len(v)
        /\ w[Len(v) + 1] = e /\ \A i \in 1 .. Len(v) : w[i] = v[i]
    BY AppendIs
  <2> HIDE DEF w
  <2> QED
    BY <2>1, OneMore
<1> HIDE DEF w
<1>2. IndexOf(w, e) = Len(v)
  <2>1. Len(v) + 1 \in DOMAIN w /\ \A j \in DOMAIN w : w[j] = e => j = Len(v) + 1
    BY <1>1
  <2>2. IndexOf(w, e) = (Len(v) + 1) - 1
    BY <1>1, <2>1, IndexOfPlace
  <2> QED
    BY <1>1, <2>2
<1>3. Remove(w, e) = v
  <2>1. Remove(w, e) = RemoveAt(w, Len(v))
    BY <1>1, <1>2 DEF Remove
  <2>2. /\ RemoveAt(w, Len(v)) \in Seq(S) /\ Len(RemoveAt(w, Len(v))) = Len(v)
        /\ \A j \in 1 .. Len(v) : RemoveAt(w, Len(v))[j] = v[j]
    <3>1. Len(v) \in 0 .. Len(w) - 1
      BY <1>1
    <3>2. /\ RemoveAt(w, Len(v)) \in Seq(S) /\ Len(RemoveAt(w, Len(v))) = Len(w) - 1
          /\ \A j \in 1 .. Len(w) - 1 : RemoveAt(w, Len(v))[j] = IF j <= Len(v) THEN w[j] ELSE w[j + 1]
      BY <1>1, <3>1, RemoveAtClosesTheGap
    <3> QED
      BY <1>1, <3>2
  <2> QED
    BY <2>1, <2>2, SeqEqual
<1>4. ASSUME NEW n \in S, n # e PROVE Remove(Append(w, n), e) = Append(v, n)
  <2> DEFINE x == Append(w, n)
             y == Append(v, n)
  <2>1. /\ x \in Seq(S) /\ Len(x) = Len(v) + 2 /\ DOMAIN x = 1 .. Len(v) + 2
        /\ x[Len(v) + 2] = n /\ \A i \in 1 .. Len(v) + 1 : x[i] = w[i]
    <3>1. /\ x \in Seq(S) /\ Len(x) = Len(w) + 1 /\ DOMAIN x = DOMAIN w \union {Len(w) + 1}
          /\ x[Len(w) + 1] = n /\ \A i \in 1 .. Len(w) : x[i] = w[i]
      BY <1>1, AppendIs
    <3> HIDE DEF x
    <3> QED
      BY <1>1, <3>1
  <2>2. /\ y \in Seq(S) /\ Len(y) = Len(v) + 1 /\ y[Len(v) + 1] = n /\ \A i \in 1 .. Len(v) : y[i] = v[i]
    BY AppendIs
  <2> HIDE DEF x, y
  <2>3. IndexOf(x, e) = Len(v)
    <3>1. Len(v) + 1 \in DOMAIN x /\ x[Len(v) + 1] = e /\ \A j \in DOMAIN x : x[j] = e => j = Len(v) + 1
      BY <1>1, <1>4, <2>1
    <3>2. IndexOf(x, e) = (Len(v) + 1) - 1
      BY <2>1, <3>1, IndexOfPlace
    <3> QED
      BY <1>1, <3>2
  <2>4. Remove(x, e) = RemoveAt(x, Len(v))
    BY <1>1, <2>3 DEF Remove
  <2>5. /\ RemoveAt(x, Len(v)) \in Seq(S) /\ Len(RemoveAt(x, Len(v))) = Len(y)
        /\ \A j \in 1 .. Len(y) : RemoveAt(x, Len(v))[j] = y[j]
    <3>1. Len(v) \in 0 .. Len(x) - 1
      BY <1>1, <2>1
    <3>2. /\ RemoveAt(x, Len(v)) \in Seq(S) /\ Len(RemoveAt(x, Len(v))) = Len(x) - 1
          /\ \A j \in 1 .. Len(x) - 1 : RemoveAt(x, Len(v))[j] = IF j <= Len(v) THEN x[j] ELSE x[j + 1]
      BY <2>1, <3>1, RemoveAtClosesTheGap
    <3>3. Len(x) - 1 = Len(y)
      BY <1>1, <2>1, <2>2
    <3>4. ASSUME NEW j \in 1 .. Len(y) PROVE RemoveAt(x, Len(v))[j] = y[j]
      <4>1. CASE j <= Len(v)
        BY <1>1, <2>1, <2>2, <3>2, <3>3, <4>1
      <4>2. CASE ~ (j <= Len(v))
        <5>1. j = Len(v) + 1 /\ j + 1 = Len(v) + 2
          BY <1>1, <2>2, <4>2
        <5> QED
          BY <2>1, <2>2, <3>2, <3>3, <4>2, <5>1
      <4> QED
        BY <4>1, <4>2
    <3> QED
      BY <3>2, <3>3, <3>4
  <2>6. Remove(x, e) = y
    BY <2>2, <2>4, <2>5, SeqEqual
  <2> QED
    BY <2>6 DEF x, y
<1> QED
  BY <1>3, <1>4 DEF w

\* The head is open again for one tag.
LEMMA HeadPushed ==
  ASSUME NEW s, NEW F, K(s, F), ContentFrame(F), s.sound, s.mode = "AfterHead"
  PROVE  LET pushed == [Flush(Claim(s, s.head # NoNode)) EXCEPT !.open = Add(@, s.head)]
         IN  /\ Rec(pushed) /\ pushed.root = s.root /\ pushed.head = s.head /\ pushed.mode = s.mode
             /\ pushed.original = s.original /\ pushed.open = Append(s.open, s.head)
             /\ pushed.sound => Core(pushed) /\ SameNames(s.nodes, pushed.nodes)
             /\ s.open \in Seq(DOMAIN s.nodes) /\ s.head \in DOMAIN s.nodes /\ \A i \in DOMAIN s.open : s.open[i] # s.head
<1> DEFINE holds == s.head # NoNode
           claimed == Claim(s, holds)
           flushed == Flush(claimed)
           pushed == [flushed EXCEPT !.open = Add(@, s.head)]
<1>0. holds \in BOOLEAN
  OBVIOUS
<1> HIDE DEF holds
<1>1. K(claimed, F) /\ Grown(s, claimed) /\ claimed.nodes = s.nodes
  BY <1>0, ClaimK
<1> HIDE DEF claimed
<1>2. K(flushed, F) /\ Filled(claimed, flushed)
  BY <1>1, FlushK
<1> HIDE DEF flushed
<1>3. /\ NodesOK(s.nodes, F.root, F.head) /\ OpenOK(s.nodes, s.open, F.root) /\ Begins(s.open, F.base, F.head)
      /\ s.root = F.root /\ s.head = F.head /\ s.mode \in F.modes /\ Len(s.open) \in Nat /\ DOMAIN s.open = 1 .. Len(s.open)
  BY HeldFacts
<1>4. F.root # NoNode /\ F.head # NoNode /\ Len(F.base) \in {1, 3}
  BY ContentFrameFacts
<1>5. Len(F.base) = 1
  <2>1. "AfterHead" \in Allowed(F.base)
    BY <1>3 DEF ContentFrame
  <2> QED
    BY <1>4, <2>1 DEF Allowed, ContentModes
<1>6. s.open \in Seq(DOMAIN s.nodes) /\ s.head \in DOMAIN s.nodes /\ s.nodes[s.head].tag = "head" /\ s.nodes[s.root].tag = "html"
  BY <1>3, <1>4 DEF NodesOK, OpenOK
<1>7. Len(s.open) >= 1 /\ s.open[1] = s.root
  <2>1. Len(F.base) <= Len(s.open)
    BY <1>3 DEF Begins
  <2>2. s.open # <<>>
    BY <1>3, <1>5, <2>1, EmptyHasNoPlace
  <2> QED
    BY <1>3, <1>5, <2>1, <2>2 DEF OpenOK
<1>8. \A i \in DOMAIN s.open : s.open[i] # s.head
  <2> SUFFICES ASSUME NEW i \in DOMAIN s.open, s.open[i] = s.head PROVE FALSE
    OBVIOUS
  <2>1. i <= Len(F.base) /\ i \in Nat /\ i >= 1
    BY <1>3 DEF Begins
  <2>2. i = 1
    BY <1>5, <2>1
  <2> QED
    BY <1>6, <1>7, <2>2
<1>9. flushed.open = s.open /\ Rec(flushed) /\ Vector(s.open)
  BY <1>1, <1>2 DEF Grown, Filled, Rest, K, Rec
<1>10. /\ Rec(pushed) /\ pushed.root = s.root /\ pushed.head = s.head /\ pushed.mode = s.mode
       /\ pushed.original = s.original /\ pushed.open = Append(s.open, s.head)
       /\ pushed.sound = flushed.sound /\ pushed.rules = flushed.rules /\ pushed.nodes = flushed.nodes
       /\ pushed.active = flushed.active /\ pushed.form = flushed.form /\ pushed.templateModes = flushed.templateModes
       /\ pushed.bufferType = flushed.bufferType
  <2>1. Vector(Append(s.open, s.head))
    BY <1>9, VectorAppended
  <2>2. flushed.root = s.root /\ flushed.head = s.head /\ flushed.mode = s.mode /\ flushed.original = s.original
    BY <1>1, <1>2 DEF Grown, Filled, Rest
  <2> QED
    BY <1>9, <2>1, <2>2 DEF Add, Rec, StateFields
<1> HIDE DEF pushed
<1>11. ASSUME pushed.sound PROVE Core(pushed) /\ SameNames(s.nodes, pushed.nodes)
  <2>1. Core(flushed) /\ SameNames(s.nodes, flushed.nodes) /\ flushed.root = s.root /\ flushed.head = s.head
    BY <1>1, <1>2, <1>3, <1>10, <1>11, HeldFacts DEF Filled, Grown
  <2>2. OpenOK(flushed.nodes, s.open, s.root)
    BY <1>9, <2>1 DEF Core
  <2>3. s.head \in DOMAIN flushed.nodes /\ flushed.nodes[s.head].tag = "head"
    BY <1>6, <2>1 DEF SameNames
  <2>4. s.open # <<>>
    BY <1>7, EmptyHasNoPlace
  <2>5. /\ OpenOK(flushed.nodes, Append(s.open, s.head), s.root)
        /\ DOMAIN Append(s.open, s.head) = DOMAIN s.open \union {Len(s.open) + 1}
        /\ Append(s.open, s.head)[Len(s.open) + 1] = s.head
        /\ \A i \in 1 .. Len(s.open) : Append(s.open, s.head)[i] = s.open[i]
    BY <1>8, <2>2, <2>3, <2>4, OpenPushed
  <2>6. TemplatesIn(pushed.nodes, pushed.open) \subseteq TemplatesIn(flushed.nodes, flushed.open)
    <3> SUFFICES ASSUME NEW n \in TemplatesIn(pushed.nodes, pushed.open) PROVE n \in TemplatesIn(flushed.nodes, flushed.open)
      OBVIOUS
    <3>1. n \in DOMAIN flushed.nodes /\ flushed.nodes[n].tag = "template" /\ flushed.nodes[n].ns = "html"
          /\ \E i \in DOMAIN pushed.open : pushed.open[i] = n
      BY <1>10 DEF TemplatesIn, In
    <3>2. PICK i \in DOMAIN pushed.open : pushed.open[i] = n
      BY <3>1
    <3>3. i # Len(s.open) + 1
      BY <1>10, <2>3, <2>5, <3>1, <3>2
    <3>4. i \in DOMAIN s.open /\ s.open[i] = n
      BY <1>3, <1>10, <2>5, <3>2, <3>3
    <3> QED
      BY <1>9, <3>1, <3>4 DEF TemplatesIn, In
  <2>7. TemplatesOK(pushed.nodes, pushed.open, pushed.templateModes)
    <3>1. Typed(flushed.nodes)
      BY <2>1 DEF Core, NodesOK, Sound
    <3> QED
      BY <1>10, <2>1, <2>6, <3>1, FewerTemplates DEF Core
  <2> QED
    <3>1. ~ In(flushed.active, s.head)
      <4>1. s.head # Marker
        BY <2>1, <2>3, MarkerIsNoNode
      <4> QED
        BY <2>1, <2>3, <4>1, ListedIs DEF Core, Unlisted, Fixed
    <3>2. DOMAIN s.open = 1 .. Len(s.open)
      BY <1>9, VectorIs
    <3>3. \A a \in DOMAIN Append(s.open, s.head) :
            \/ Append(s.open, s.head)[a] = s.head
            \/ a \in DOMAIN s.open /\ s.open[a] = Append(s.open, s.head)[a]
      BY <2>5, <3>2
    <3>5. Segmented(s.open, flushed.active)
      BY <1>9, <2>1 DEF Core
    <3>4. Segmented(pushed.open, pushed.active)
      <4> DEFINE w == Append(s.open, s.head)
      <4>1. \A a \in DOMAIN w : w[a] = s.head \/ (a \in DOMAIN s.open /\ s.open[a] = w[a])
        BY <3>3
      <4> HIDE DEF w
      <4>2. Segmented(w, flushed.active)
        BY <3>1, <3>5, <4>1, SegmentedWith
      <4> QED
        BY <1>10, <4>2 DEF w
    <3> QED
      BY <1>10, <2>1, <2>5, <2>7, <3>4 DEF Core
<1> QED
  BY <1>6, <1>8, <1>10, <1>11 DEF pushed, flushed, claimed, holds

\* A tag of the head between the head and the body: its element goes into the head.
LEMMA IntoHeadSettles ==
  ASSUME NEW s, NEW F, K(s, F), ContentFrame(F), s.sound, s.mode = "AfterHead", NEW t, Starts(t, MetadataTags)
  PROVE  Settled(IntoHead(s, t))
<1> DEFINE pushed == [Flush(Claim(s, s.head # NoNode)) EXCEPT !.open = Add(@, s.head)]
           v == InHead(pushed, t)
           u == [v EXCEPT !.open = Remove(@, s.head)]
           G == [modes |-> F.modes, base |-> pushed.open, stop |-> FALSE, root |-> s.root, head |-> s.head,
                 original |-> s.original]
<1>1. u = IntoHead(s, t)
  BY DEF IntoHead
<1>2. /\ Rec(pushed) /\ pushed.root = s.root /\ pushed.head = s.head /\ pushed.mode = s.mode
      /\ pushed.original = s.original /\ pushed.open = Append(s.open, s.head)
      /\ pushed.sound => Core(pushed) /\ SameNames(s.nodes, pushed.nodes)
      /\ s.open \in Seq(DOMAIN s.nodes) /\ s.head \in DOMAIN s.nodes /\ \A i \in DOMAIN s.open : s.open[i] # s.head
  BY HeadPushed
<1> HIDE DEF pushed
<1>3. /\ G.modes = F.modes /\ G.base = pushed.open /\ ~ G.stop /\ G.root = s.root /\ G.head = s.head
      /\ G.original = s.original
  OBVIOUS
<1> HIDE DEF G
<1>4. /\ Len(pushed.open) \in Nat /\ Len(pushed.open) >= 1 /\ DOMAIN pushed.open = 1 .. Len(pushed.open)
      /\ Len(pushed.open) = Len(s.open) + 1 /\ Len(s.open) \in Nat
  <2>1. Len(Append(s.open, s.head)) = Len(s.open) + 1 /\ Len(s.open) \in Nat
    BY <1>2, AppendIs
  <2>2. DOMAIN pushed.open = 1 .. Len(pushed.open)
    BY <1>2, VectorIs DEF Rec
  <2> QED
    BY <1>2, <2>1, <2>2
<1>5. K(pushed, G) /\ Based(G)
  <2>1. s.mode \in F.modes /\ s.head = F.head
    BY HeldFacts
  <2>2. Held(pushed, G)
    BY <1>2, <1>3, <1>4, <2>1 DEF Held, Begins
  <2> QED
    BY <1>2, <1>3, <1>4, <2>2 DEF K, Based
<1>6. Starts(t, HeadStarts)
  BY DEF Starts, HeadStarts
<1>7. Opens(pushed, v)
  BY <1>5, <1>6, InHeadOpens
<1> HIDE DEF v
<1>8. Rec(v) /\ (v.sound => pushed.sound) /\ v.root = s.root /\ v.head = s.head
  BY <1>2, <1>7 DEF Opens
<1>9. /\ Rec(u) /\ u.sound = v.sound /\ u.rules = v.rules /\ u.bufferType = v.bufferType /\ u.nodes = v.nodes
      /\ u.root = v.root /\ u.head = v.head /\ u.open = Remove(v.open, s.head) /\ u.active = v.active
      /\ u.form = v.form /\ u.templateModes = v.templateModes /\ u.mode = v.mode /\ u.original = v.original
  <2>1. Vector(Remove(v.open, s.head))
    BY <1>8, VectorIndex DEF Rec
  <2> QED
    BY <1>8, <2>1 DEF Rec, StateFields
<1> HIDE DEF u
<1>10. ASSUME u.sound
       PROVE  /\ Core(u) /\ SameNames(s.nodes, u.nodes)
              /\ \/ u.open = s.open /\ u.mode = s.mode /\ u.original = s.original
                 \/ /\ u.open = Append(s.open, Len(u.nodes))
                    /\ Len(u.nodes) \in DOMAIN u.nodes /\ Len(u.nodes) \notin DOMAIN s.nodes
                    /\ \/ u.mode = "Text" /\ u.original = s.mode /\ Plain(u.nodes, Len(u.nodes))
                       \/ u.mode = "InTemplate" /\ u.nodes[Len(u.nodes)].tag = "template" /\ u.nodes[Len(u.nodes)].ns = "html"
  <2> DEFINE n == Len(v.nodes)
  <2>1. /\ v.sound /\ pushed.sound /\ Core(v) /\ Core(pushed) /\ SameNames(pushed.nodes, v.nodes)
        /\ SameNames(s.nodes, pushed.nodes)
        /\ \/ v.open = pushed.open /\ v.mode = s.mode /\ v.original = s.original
           \/ /\ v.open = Append(pushed.open, n)
              /\ n \in DOMAIN v.nodes /\ n \notin DOMAIN pushed.nodes
              /\ \/ v.mode = "Text" /\ v.original = s.mode /\ Plain(v.nodes, n)
                 \/ v.mode = "InTemplate" /\ v.nodes[n].tag = "template" /\ v.nodes[n].ns = "html"
    BY <1>2, <1>7, <1>8, <1>9, <1>10 DEF Opens
  <2> HIDE DEF n
  <2>2. SameNames(s.nodes, v.nodes)
    BY <2>1, SameNamesStay
  <2>3. DOMAIN s.nodes \subseteq DOMAIN v.nodes /\ DOMAIN s.nodes \subseteq DOMAIN pushed.nodes
        /\ s.open \in Seq(DOMAIN v.nodes) /\ s.head \in DOMAIN v.nodes
    <3>1. DOMAIN s.nodes \subseteq DOMAIN v.nodes /\ DOMAIN s.nodes \subseteq DOMAIN pushed.nodes
      BY <2>1, <2>2 DEF SameNames
    <3>2. \A i \in 1 .. Len(s.open) : s.open[i] \in DOMAIN v.nodes
      BY <1>2, <3>1, VectorFacts
    <3>3. s.open \in Seq(DOMAIN v.nodes)
      BY <1>2, <1>4, <3>2
    <3> QED
      BY <1>2, <3>1, <3>3
  <2>4. v.open = pushed.open => u.open = s.open
    BY <1>2, <1>9, <2>3, PushedAndRemoved
  <2>5. v.open = Append(pushed.open, n) /\ n \in DOMAIN v.nodes /\ n \notin DOMAIN pushed.nodes
        => u.open = Append(s.open, n) /\ n \notin DOMAIN s.nodes
    <3> SUFFICES ASSUME v.open = Append(pushed.open, n), n \in DOMAIN v.nodes, n \notin DOMAIN pushed.nodes
                 PROVE  u.open = Append(s.open, n) /\ n \notin DOMAIN s.nodes
      OBVIOUS
    <3>1. n \notin DOMAIN s.nodes /\ n # s.head
      BY <1>2, <2>3
    <3>2. Remove(Append(Append(s.open, s.head), n), s.head) = Append(s.open, n)
      BY <1>2, <2>3, <3>1, PushedAndRemoved
    <3> QED
      BY <1>2, <1>9, <3>1, <3>2
  <2>6. Core(u)
    <3>1. OpenOK(v.nodes, v.open, v.root) /\ Rec(v) /\ Typed(v.nodes)
      BY <1>8, <2>1 DEF Core, NodesOK, Sound
    <3>2. /\ Len(v.open) \in Nat /\ DOMAIN v.open = 1 .. Len(v.open) /\ v.open \in Seq(DOMAIN v.nodes)
          /\ v.open[Len(s.open) + 1] = s.head /\ Len(s.open) + 1 \in DOMAIN v.open
      <4>1. v.open \in Seq(DOMAIN v.nodes)
        BY <3>1 DEF OpenOK
      <4>2. Len(v.open) \in Nat /\ DOMAIN v.open = 1 .. Len(v.open)
        BY <4>1, VectorFacts
      <4>3. Append(s.open, s.head)[Len(s.open) + 1] = s.head /\ Len(s.open) + 1 \in DOMAIN Append(s.open, s.head)
            /\ Append(s.open, s.head) \in Seq(DOMAIN v.nodes)
        <5> DEFINE S == DOMAIN v.nodes
        <5>1. s.open \in Seq(S) /\ s.head \in S
          BY <2>3
        <5> HIDE DEF S
        <5>2. /\ Append(s.open, s.head) \in Seq(S) /\ Append(s.open, s.head)[Len(s.open) + 1] = s.head
              /\ DOMAIN Append(s.open, s.head) = DOMAIN s.open \union {Len(s.open) + 1}
          BY <5>1, AppendIs
        <5> QED
          BY <5>2 DEF S
      <4>4. CASE v.open = pushed.open
        BY <1>2, <4>1, <4>2, <4>3, <4>4
      <4>5. CASE v.open = Append(pushed.open, n) /\ n \in DOMAIN v.nodes
        <5>1. pushed.open \in Seq(DOMAIN v.nodes)
          BY <1>2, <4>3
        <5>2. Append(pushed.open, n)[Len(s.open) + 1] = pushed.open[Len(s.open) + 1]
              /\ Len(s.open) + 1 \in DOMAIN Append(pushed.open, n)
          BY <1>4, <4>5, <5>1, AppendIs
        <5> QED
          BY <1>2, <4>1, <4>2, <4>3, <4>5, <5>2
      <4> QED
        BY <2>1, <4>4, <4>5
    <3>3. IndexOf(v.open, s.head) = Len(s.open)
      <4>1. \A j \in DOMAIN v.open : v.open[j] = s.head => j = Len(s.open) + 1
        BY <3>1, <3>2 DEF OpenOK
      <4>2. IndexOf(v.open, s.head) = (Len(s.open) + 1) - 1
        BY <3>2, <4>1, IndexOfPlace
      <4> QED
        BY <1>4, <4>2
    <3>4. u.open = RemoveAt(v.open, Len(s.open))
      BY <1>4, <1>9, <3>3 DEF Remove
    <3>5. Len(s.open) \in 1 .. Len(v.open) - 1
      <4>1. Len(s.open) >= 1
        <5>1. Len(F.base) <= Len(s.open) /\ Len(F.base) \in Nat /\ Len(s.open) \in Nat
          BY HeldFacts
        <5>2. Len(F.base) = 1 \/ Len(F.base) = 3
          BY ContentFrameFacts
        <5> DEFINE k == Len(F.base)
                   l == Len(s.open)
        <5>3. k <= l /\ k \in Nat /\ l \in Nat /\ (k = 1 \/ k = 3)
          BY <5>1, <5>2
        <5> HIDE DEF k, l
        <5>4. l >= 1
          BY <5>3
        <5> QED
          BY <5>4 DEF l
      <4> QED
        BY <1>4, <3>2, <4>1
    <3>6. OpenOK(v.nodes, u.open, v.root) /\ TemplatesIn(v.nodes, u.open) \subseteq TemplatesIn(v.nodes, v.open)
      BY <3>1, <3>4, <3>5, OpenRemoved
    <3>7. TemplatesOK(v.nodes, u.open, v.templateModes)
      BY <2>1, <3>1, <3>6, FewerTemplates DEF Core
    <3>8. Segmented(u.open, u.active)
      <4> DEFINE From == [a \in DOMAIN u.open |-> Back(Len(s.open), a)]
      <4>1. DOMAIN u.open = 1 .. Len(u.open) /\ Len(u.open) \in Nat
        BY <1>9, VectorIs DEF Rec
      <4>2. \A a \in DOMAIN u.open : From[a] \in DOMAIN v.open /\ v.open[From[a]] = u.open[a]
        <5> DEFINE l == Len(s.open)
                   w == RemoveAt(v.open, l)
        <5> HIDE DEF l
        <5>1. l \in 1 .. Len(v.open) - 1
          BY <3>5 DEF l
        <5>2. \A j \in DOMAIN w : Back(l, j) \in DOMAIN v.open /\ w[j] = v.open[Back(l, j)]
          BY <3>1, <5>1, OpenRemoved
        <5>3. u.open = w
          BY <3>4 DEF l
        <5> HIDE DEF w
        <5>4. \A a \in DOMAIN u.open : From[a] = Back(l, a)
          BY DEF l
        <5> HIDE DEF From
        <5> QED
          BY <5>2, <5>3, <5>4
      <4>3. \A a, b \in DOMAIN u.open : From[a] < From[b] => a < b
        BY <1>4, <4>1 DEF Back
      <4> HIDE DEF From
      <4> QED
        BY <1>9, <2>1, <4>2, <4>3, SegmentedMapped DEF Core
    <3> QED
      BY <1>9, <2>1, <3>6, <3>7, <3>8 DEF Core
  <2> QED
    BY <1>9, <2>1, <2>2, <2>4, <2>5, <2>6 DEF n
<1>11. Opens(s, u)
  BY <1>8, <1>9, <1>10 DEF Opens
<1>12. Settled(u)
  BY <1>11, OpensContent
<1> QED
  BY <1>1, <1>12

LEMMA AfterHeadHands ==
  ASSUME NEW s, NEW F, K(s, F), ContentFrame(F), s.sound, s.mode = "AfterHead", NEW t
  PROVE  HandsOn(AfterHead(s, t), F, t)
<1> DEFINE u == AfterHead(s, t)
           begun == Go(NoFrameset(InsertTag(s, t)), "InBody")
           framed == Go(InsertTag(s, t), "InFrameset")
           implied == Again(Go(InsertImplied(s, "body"), "InBody"))
           into == IntoHead(s, t)
<1>1. \/ u \in {InsertText(s, t), AppendComment(s, Current(s)), StartHtml(s, t), implied, s}
      \/ Starts(t, {"body"}) /\ u = begun
      \/ Starts(t, {"frameset"}) /\ u = framed
      \/ Starts(t, MetadataTags) /\ u = into
      \/ Ends(t, {"template"}) /\ u = HandOn(s, "InHead")
  <2>1. t.type = "Whitespace" => u = InsertText(s, t)
    BY DEF AfterHead, Starts, Ends, IsText, RootTags, MetadataTags
  <2>2. (t.type = "Doctype" \/ Starts(t, {"head"}) \/ (t.type = "EndTag" /\ t.tag \notin {"body", "html", "br", "template"})) => u = s
    BY DEF AfterHead, Starts, Ends, IsText, RootTags, MetadataTags
  <2>3. t.type = "Comment" => u = AppendComment(s, Current(s))
    BY DEF AfterHead, Starts, Ends, IsText, RootTags, MetadataTags
  <2>4. Starts(t, {"html"}) => u = StartHtml(s, t)
    BY DEF AfterHead, Starts, Ends, IsText, RootTags, MetadataTags
  <2>5. Starts(t, {"body"}) => u = begun
    BY DEF AfterHead, Starts, Ends, IsText, RootTags, MetadataTags
  <2>6. Starts(t, {"frameset"}) => u = framed
    BY DEF AfterHead, Starts, Ends, IsText, RootTags, MetadataTags
  <2>7. Starts(t, MetadataTags) => u = into
    BY DEF AfterHead, Starts, Ends, IsText, RootTags, MetadataTags
  <2>8. Ends(t, {"template"}) => u = HandOn(s, "InHead")
    BY DEF AfterHead, Starts, Ends, IsText, RootTags, MetadataTags
  <2>9. ~ (\/ t.type = "Whitespace"
            \/ t.type = "Doctype" \/ Starts(t, {"head"}) \/ (t.type = "EndTag" /\ t.tag \notin {"body", "html", "br", "template"})
            \/ t.type = "Comment"
            \/ Starts(t, {"html"})
            \/ Starts(t, {"body"})
            \/ Starts(t, {"frameset"})
            \/ Starts(t, MetadataTags)
            \/ Ends(t, {"template"}))
         => u = implied
    BY DEF AfterHead
  <2> HIDE DEF u, begun, framed, implied, into
  <2> QED
    BY <2>1, <2>2, <2>3, <2>4, <2>5, <2>6, <2>7, <2>8, <2>9
<1> HIDE DEF u, begun, framed, implied, into
<1>2. F.root # NoNode /\ Based(F) /\ "InBody" \in F.modes /\ "InFrameset" \in F.modes
  BY ContentFrameFacts DEF ContentModes
<1>3. Settled(InsertText(s, t)) /\ Settled(AppendComment(s, Current(s))) /\ Settled(StartHtml(s, t)) /\ Settled(s)
  BY <1>2, InsertTextK, CommentHereK, StartHtmlK, SettledK
<1>4. t.tag \notin Fixed => Settled(begun) /\ Settled(framed)
  BY <1>2, InsertTagK, NoFramesetK, GoK, SettledK DEF begun, framed
<1>5. Settled(implied)
  <2>1. "body" \notin Fixed
    BY DEF Fixed
  <2> QED
    BY <1>2, <2>1, InsertImpliedK, GoK, AgainK, SettledK DEF implied
<1>6. Starts(t, MetadataTags) => Settled(into)
  BY IntoHeadSettles DEF into
<1>7. /\ Starts(t, {"body"}) \/ Starts(t, {"frameset"}) => t.tag \notin Fixed
      /\ Ends(t, {"template"}) => ForHead(t)
  BY DEF Starts, Fixed, ForHead
<1> QED
  BY <1>1, <1>3, <1>4, <1>5, <1>6, <1>7, SettledHands, HandOnIs DEF u

-----------------------------------------------------------------------------
(* The handlers in the modes for content, one after the other.             *)

\* The handlers that are called last.
LEMMA HandedOnSettles ==
  ASSUME NEW F, ContentFrame(F), NEW t, DOMAIN t = TokenFields, t.type \in TokenTypes, NEW own, HandsOn(own, F, t)
  PROVE  Settled(HeadRules(BodyRules(TableOrSelect(own, t), t), t))
<1> DEFINE a == TableOrSelect(own, t)
           b == BodyRules(a, t)
           c == HeadRules(b, t)
<1>1. \A u : Settled(u) => u.rules = "none"
  BY DEF Settled, Rec
<1>2. Settled(a) \/ Handed(a, F, "InBody") \/ (Handed(a, F, "InHead") /\ ForHead(t))
  <2>1. CASE Settled(own)
    <3>1. a = own
      BY <1>1, <2>1 DEF TableOrSelect
    <3> QED
      BY <2>1, <3>1
  <2>2. CASE Handed(own, F, "InTable")
    <3>1. a = InTable(HandOn(own, "none"), t) /\ K(HandOn(own, "none"), F)
      BY <2>2 DEF TableOrSelect, Handed
    <3> HIDE DEF a
    <3> QED
      BY <3>1, InTableSettles
  <2>3. CASE Handed(own, F, "InSelect")
    <3>1. a = InSelect(HandOn(own, "none"), t) /\ K(HandOn(own, "none"), F)
      BY <2>3 DEF TableOrSelect, Handed
    <3> HIDE DEF a
    <3> QED
      BY <3>1, InSelectSettles
  <2>4. CASE Handed(own, F, "InBody") \/ (Handed(own, F, "InHead") /\ ForHead(t))
    <3>1. a = own
      BY <2>4 DEF TableOrSelect, Handed
    <3> HIDE DEF a
    <3> QED
      BY <2>4, <3>1
  <2> QED
    BY <2>1, <2>2, <2>3, <2>4 DEF HandsOn
<1> HIDE DEF a
<1>3. Settled(b) \/ (Handed(b, F, "InHead") /\ ForHead(t))
  <2>1. CASE Settled(a)
    <3>1. b = a
      BY <1>1, <2>1 DEF BodyRules
    <3> QED
      BY <2>1, <3>1
  <2>2. CASE Handed(a, F, "InBody")
    <3>1. b = InBody(HandOn(a, "none"), t) /\ K(HandOn(a, "none"), F)
      BY <2>2 DEF BodyRules, Handed
    <3> HIDE DEF b
    <3> QED
      BY <3>1, InBodySettles
  <2>3. CASE Handed(a, F, "InHead") /\ ForHead(t)
    <3>1. b = a
      BY <2>3 DEF BodyRules, Handed
    <3> HIDE DEF b
    <3> QED
      BY <2>3, <3>1
  <2> QED
    BY <1>2, <2>1, <2>2, <2>3
<1> HIDE DEF b
<1>4. Settled(c)
  <2>1. CASE Settled(b)
    <3>1. c = b
      BY <1>1, <2>1 DEF HeadRules
    <3> QED
      BY <2>1, <3>1
  <2>2. CASE Handed(b, F, "InHead") /\ ForHead(t)
    <3>1. c = InHead(HandOn(b, "none"), t) /\ K(HandOn(b, "none"), F)
      BY <2>2 DEF HeadRules, Handed
    <3> HIDE DEF c
    <3> QED
      BY <2>2, <3>1, InHeadContent
  <2> QED
    BY <1>3, <2>1, <2>2
<1> QED
  BY <1>4 DEF a, b, c

\* A handler that hands nothing on.
LEMMA NothingHandedOn ==
  ASSUME NEW own, Settled(own), NEW t
  PROVE  Settled(HeadRules(BodyRules(TableOrSelect(own, t), t), t))
<1>1. own.rules = "none"
  BY DEF Settled, Rec
<1>2. TableOrSelect(own, t) = own
  BY <1>1 DEF TableOrSelect
<1>3. BodyRules(own, t) = own
  BY <1>1 DEF BodyRules
<1>4. HeadRules(own, t) = own
  BY <1>1 DEF HeadRules
<1> QED
  BY <1>2, <1>3, <1>4

\* A token in a mode for content.
LEMMA ContentHandled ==
  ASSUME NEW s, NEW F, K(s, F), ContentFrame(F), s.sound, NEW t, DOMAIN t = TokenFields, t.type \in TokenTypes
  PROVE  Settled(HtmlContent(s, t))
<1> DEFINE own == OwnRules(s, t)
           done == HeadRules(BodyRules(TableOrSelect(own, t), t), t)
<1>1. s.mode \in ContentModes \union {"InFrameset", "AfterHead"}
  <2>1. s.mode \in Allowed(F.base)
    BY HeldFacts DEF ContentFrame
  <2> QED
    BY <2>1 DEF Allowed
<1>2. HandsOn(own, F, t)
  <2>1. CASE s.mode = "AfterHead"
    <3>1. own = AfterHead(s, t)
      BY <2>1 DEF OwnRules
    <3> HIDE DEF own
    <3> QED
      BY <2>1, <3>1, AfterHeadHands
  <2>2. CASE s.mode = "InCaption"
    <3>1. own = InCaption(s, t)
      BY <2>2 DEF OwnRules
    <3> HIDE DEF own
    <3> QED
      BY <2>2, <3>1, InCaptionHands
  <2>3. CASE s.mode = "InColumnGroup"
    <3>1. own = InColumnGroup(s, t)
      BY <2>3 DEF OwnRules
    <3> HIDE DEF own
    <3> QED
      BY <2>3, <3>1, InColumnGroupHands
  <2>4. CASE s.mode = "InTableBody"
    <3>1. own = InTableBody(s, t)
      BY <2>4 DEF OwnRules
    <3> HIDE DEF own
    <3> QED
      BY <2>4, <3>1, InTableBodyHands
  <2>5. CASE s.mode = "InRow"
    <3>1. own = InRow(s, t)
      BY <2>5 DEF OwnRules
    <3> HIDE DEF own
    <3> QED
      BY <2>5, <3>1, InRowHands
  <2>6. CASE s.mode = "InCell"
    <3>1. own = InCell(s, t)
      BY <2>6 DEF OwnRules
    <3> HIDE DEF own
    <3> QED
      BY <2>6, <3>1, InCellHands
  <2>7. CASE s.mode = "InSelectInTable"
    <3>1. own = InSelectInTable(s, t)
      BY <2>7 DEF OwnRules
    <3> HIDE DEF own
    <3> QED
      BY <2>7, <3>1, InSelectInTableHands
  <2>8. CASE s.mode = "InTemplate"
    <3>1. own = InTemplate(s, t)
      BY <2>8 DEF OwnRules
    <3> HIDE DEF own
    <3> QED
      BY <2>8, <3>1, InTemplateHands
  <2>9. CASE s.mode = "AfterBody"
    <3>1. own = AfterBody(s, t)
      BY <2>9 DEF OwnRules
    <3> HIDE DEF own
    <3> QED
      BY <2>9, <3>1, AfterBodyHands
  <2>10. CASE s.mode = "InFrameset"
    <3>1. own = InFrameset(s, t)
      BY <2>10 DEF OwnRules
    <3> HIDE DEF own
    <3> QED
      BY <2>10, <3>1, InFramesetHands
  <2>11. CASE s.mode = "AfterAfterBody"
    <3>1. own = AfterAfterBody(s, t)
      BY <2>11 DEF OwnRules
    <3> HIDE DEF own
    <3> QED
      BY <2>11, <3>1, AfterBodyHands
  <2>12. CASE s.mode \in {"InBody", "InTable", "InSelect"}
    <3>1. own = HandOn(s, s.mode)
      BY <2>12 DEF OwnRules
    <3> HIDE DEF own
    <3> QED
      BY <2>12, <3>1, HandOnIs
  <2> HIDE DEF own
  <2> QED
    BY <1>1, <2>1, <2>2, <2>3, <2>4, <2>5, <2>6, <2>7, <2>8, <2>9, <2>10, <2>11, <2>12 DEF ContentModes
<1> HIDE DEF own
<1>3. Settled(done)
  BY <1>2, HandedOnSettles
<1>4. HtmlContent(s, t) = [done EXCEPT !.foster = FALSE]
  BY DEF HtmlContent, own
<1> HIDE DEF done
<1> QED
  BY <1>3, <1>4, SettledStays

-----------------------------------------------------------------------------
(* States in any mode.                                                     *)

\* Between two tokens, when no assertion has failed.
Standing(s) == Rec(s) /\ s.sound /\ Core(s) /\ Modal(s)

\* The whole stack as the frame.
Around(s) ==
  [modes |-> {s.mode}, base |-> s.open, stop |-> FALSE, root |-> s.root, head |-> s.head, original |-> s.original]

LEMMA AroundK ==
  ASSUME NEW s, Rec(s), s.sound => Core(s)
  PROVE  /\ K(s, Around(s)) /\ (s.open # <<>> => Based(Around(s)))
         /\ Around(s).root = s.root /\ Around(s).modes = {s.mode} /\ Around(s).original = s.original
<1> DEFINE F == Around(s)
<1>1. /\ F.modes = {s.mode} /\ F.base = s.open /\ ~ F.stop /\ F.root = s.root /\ F.head = s.head
      /\ F.original = s.original
  BY DEF Around
<1> HIDE DEF F
<1>2. Len(s.open) \in Nat /\ DOMAIN s.open = 1 .. Len(s.open) /\ Vector(s.open)
  BY VectorIs DEF Rec
<1>3. Held(s, F)
  BY <1>1, <1>2 DEF Held, Begins
<1>4. s.open # <<>> => Len(s.open) >= 1
  <2>1. PICK S : s.open \in Seq(S)
    BY <1>2 DEF Vector
  <2>2. s.open # <<>> => Len(s.open) # 0
    BY <2>1, VectorFacts
  <2> QED
    BY <1>2, <2>2
<1> QED
  BY <1>1, <1>2, <1>3, <1>4 DEF K, Based, F

LEMMA PoppedIs ==
  ASSUME NEW S, NEW v \in Seq(S), Len(v) >= 1
  PROVE  /\ Popped(v) \in Seq(S) /\ Len(Popped(v)) = Len(v) - 1 /\ Len(v) \in Nat
         /\ \A i \in 1 .. Len(v) - 1 : Popped(v)[i] = v[i]
<1>1. Len(v) \in Nat
  OBVIOUS
<1>2. 1 \in 1 .. Len(v) + 1 /\ Len(v) - 1 \in 0 .. Len(v)
  BY <1>1
<1> QED
  BY <1>1, <1>2, SubSeqProperties DEF Popped

\* More nodes change nothing about the mode.
LEMMA ModalGrows ==
  ASSUME NEW s, NEW u, Core(s), Modal(s), SameNames(s.nodes, u.nodes), u.open = s.open, u.mode = s.mode,
         u.original = s.original, u.root = s.root, u.head = s.head
  PROVE  Modal(u)
<1>1. s.open \in Seq(DOMAIN s.nodes)
  BY DEF Core, OpenOK
<1>2. Len(s.open) \in Nat /\ DOMAIN s.open = 1 .. Len(s.open) /\ \A i \in DOMAIN s.open : s.open[i] \in DOMAIN s.nodes
  BY <1>1, VectorFacts
<1>3. CASE s.mode = "Text"
  <2>1. /\ Len(s.open) >= 1 /\ Plain(s.nodes, s.open[Len(s.open)])
        /\ Fits(s.original, s.nodes, Popped(s.open), s.root, s.head)
    BY <1>3 DEF Modal
  <2>2. Plain(u.nodes, s.open[Len(s.open)])
    <3>1. s.open[Len(s.open)] \in DOMAIN s.nodes
      BY <1>2, <2>1
    <3> QED
      BY <2>1, <3>1, PlainGrows
  <2>3. Popped(s.open) \in Seq(DOMAIN s.nodes)
    BY <1>1, <2>1, PoppedIs
  <2>4. Fits(s.original, u.nodes, Popped(s.open), s.root, s.head)
    BY <2>1, <2>3, FitsGrows
  <2> QED
    BY <1>3, <2>1, <2>2, <2>4 DEF Modal
<1>4. CASE s.mode = "InTableText"
  BY <1>4, ContainedGrows DEF Modal
<1>5. CASE s.mode \notin {"Text", "InTableText"}
  <2>1. Fits(s.mode, s.nodes, s.open, s.root, s.head)
    BY <1>5 DEF Modal
  <2>2. Fits(s.mode, u.nodes, s.open, s.root, s.head)
    BY <1>1, <2>1, FitsGrows
  <2> QED
    BY <1>5, <2>2 DEF Modal
<1> QED
  BY <1>3, <1>4, <1>5

LEMMA GrownSettles ==
  ASSUME NEW s, Standing(s), NEW u, K(u, Around(s)), Grown(s, u)
  PROVE  Settled(u)
<1>1. Rec(u)
  BY DEF K
<1>2. ASSUME u.sound PROVE Core(u) /\ Modal(u)
  <2>1. Core(u)
    BY <1>2 DEF K
  <2>2. /\ SameNames(s.nodes, u.nodes) /\ u.open = s.open /\ u.mode = s.mode
        /\ u.original = s.original /\ u.root = s.root /\ u.head = s.head
    BY <1>2 DEF Grown, Rest
  <2>3. Modal(u)
    BY <2>2, ModalGrows DEF Standing
  <2> QED
    BY <2>1, <2>3
<1> QED
  BY <1>1, <1>2 DEF Settled

LEMMA MergeAttributesGrows ==
  ASSUME NEW s, NEW F, K(s, F), NEW t, NEW n, s.sound => n \in DOMAIN s.nodes /\ s.nodes[n].tag \in Amended
  PROVE  Grown(s, MergeAttributes(s, t, n))
<1> DEFINE own == s.nodes[n].attrs
           merged == [a \in DOMAIN own \union DOMAIN t.attrs |-> IF a \in DOMAIN own THEN own[a] ELSE t.attrs[a]]
           new == [s.nodes EXCEPT ![n].attrs = merged]
           u == MergeAttributes(s, t, n)
<1>1. u = [s EXCEPT !.nodes = new]
  BY DEF MergeAttributes
<1> HIDE DEF u
<1>2. Rest(s, u) /\ u.open = s.open /\ u.active = s.active /\ u.form = s.form /\ u.templateModes = s.templateModes
      /\ u.nodes = new
  BY <1>1 DEF K, Rest, Rec, StateFields
<1>3. ASSUME u.sound PROVE SameNames(s.nodes, u.nodes)
  <2>1. s.sound
    BY <1>2, <1>3 DEF Rest
  <2>2. NodesOK(s.nodes, F.root, F.head)
    BY <2>1, HeldFacts
  <2>3. n \in DOMAIN s.nodes /\ s.nodes[n].tag \in Amended
    BY <2>1
  <2> HIDE DEF merged
  <2>4. SameNames(s.nodes, new)
    BY <2>2, <2>3, AttributesKeep DEF NodesOK
  <2> QED
    BY <1>2, <2>4
<1> QED
  BY <1>2, <1>3 DEF Grown, u

\* What may be done in any mode.
LEMMA PlainSettles ==
  ASSUME NEW s, Standing(s), NEW t
  PROVE  /\ Settled(s) /\ Settled(InsertText(s, t)) /\ Settled(AppendComment(s, Current(s)))
         /\ Settled(AppendComment(s, Document)) /\ (s.root # NoNode => Settled(StartHtml(s, t)))
<1> DEFINE F == Around(s)
<1>1. Rec(s) /\ s.sound /\ Core(s) /\ Modal(s)
  BY DEF Standing
<1>2. K(s, F) /\ F.root = s.root
  BY <1>1, AroundK
<1>3. Settled(s)
  BY <1>1 DEF Settled
<1>4. Settled(InsertText(s, t))
  <2> DEFINE u == InsertText(s, t)
  <2>1. K(u, F)
    BY <1>2, InsertTextK
  <2>2. Rest(s, u) /\ u.open = s.open /\ u.active = s.active /\ u.form = s.form /\ u.templateModes = s.templateModes
        /\ u.nodes = s.nodes
    BY <1>1 DEF InsertText, Rest, Rec, StateFields
  <2> HIDE DEF u, F
  <2>3. Grown(s, u)
    BY <2>2 DEF Grown, SameNames
  <2>4. Settled(u)
    BY <2>1, <2>3, GrownSettles DEF F
  <2> QED
    BY <2>4 DEF u
<1>5. ASSUME NEW parent \in DOMAIN s.nodes PROVE Settled(AppendComment(s, parent))
  <2>1. K(AppendComment(s, parent), F) /\ Filled(s, AppendComment(s, parent))
    BY <1>1, <1>2, AppendCommentK, AppendCommentFills, KIsRooted
  <2> QED
    BY <2>1, GrownSettles DEF Filled
<1>6. Current(s) \in DOMAIN s.nodes /\ Document \in DOMAIN s.nodes
  BY <1>1, CoreIsRooted, StackFacts DEF Rooted
<1>7. ASSUME s.root # NoNode PROVE Settled(StartHtml(s, t))
  <2>1. CASE HasOpen(s, "template")
    BY <1>3, <2>1 DEF StartHtml
  <2>2. CASE ~ HasOpen(s, "template")
    <3>1. s.root \in DOMAIN s.nodes /\ s.nodes[s.root].tag \in Amended
      BY <1>1, <1>7 DEF Core, NodesOK, Amended
    <3>2. K(MergeAttributes(s, t, s.root), F) /\ Grown(s, MergeAttributes(s, t, s.root))
      BY <1>2, <3>1, MergeAttributesK, MergeAttributesGrows
    <3>3. StartHtml(s, t) = MergeAttributes(s, t, s.root)
      BY <2>2 DEF StartHtml
    <3> QED
      BY <3>2, <3>3, GrownSettles
  <2> QED
    BY <2>1, <2>2
<1> QED
  BY <1>3, <1>4, <1>5, <1>6, <1>7

\* The modes in which the stack itself fits.
LEMMA FittingModes ==
  ASSUME NEW mode, NEW nodes, NEW open, NEW root, NEW head, Fits(mode, nodes, open, root, head)
  PROVE  mode \notin {"Text", "InTableText"}
BY DEF Fits, Contained, Allowed, ContentModes, LateModes, EarlyModes

\* A text element is opened.
LEMMA GenericSettles ==
  ASSUME NEW s, Standing(s), Fits(s.mode, s.nodes, s.open, s.root, s.head), s.open # <<>>, NEW t, t.tag \notin Fixed,
         NEW lexer
  PROVE  Settled(RunGenericParsing(s, t, lexer))
<1> DEFINE u == RunGenericParsing(s, t, lexer)
           mid == InsertTag(s, t)
<1>1. Rec(s) /\ s.sound /\ Core(s) /\ K(s, Around(s)) /\ Based(Around(s))
  BY AroundK DEF Standing
<1>2. Opens(s, u)
  BY <1>1, GenericOpens
<1>3. u.mode = "Text" /\ u.original = s.mode
  <2>1. Rec(mid)
    BY <1>1, InsertTagK DEF K
  <2> HIDE DEF mid
  <2>2. u = [Lexer(mid, lexer) EXCEPT !.original = s.mode, !.mode = "Text"]
    BY DEF RunGenericParsing, mid
  <2> QED
    BY <2>1, <2>2 DEF Lexer, Rec, StateFields
<1> HIDE DEF u
<1>4. ~ u.sound => Settled(u)
  BY <1>2 DEF Opens, Settled
<1>5. ASSUME u.sound PROVE Settled(u)
  <2>1. s.mode # "Text"
    BY FittingModes
  <2>2. u.open = Append(s.open, Len(u.nodes)) /\ Plain(u.nodes, Len(u.nodes))
    BY <1>2, <1>3, <1>5, <2>1 DEF Opens
  <2> QED
    BY <1>1, <1>2, <1>3, <2>2, TextSettles
<1> QED
  BY <1>4, <1>5 DEF u

\* pop_current_node, down to a part of the stack.
LEMMA PoppingCore ==
  ASSUME NEW s, Core(s), NEW u, NEW k \in Nat, k <= Len(s.open), Popping(s, u, k), u.sound
  PROVE  /\ Core(u) /\ Len(u.open) = k /\ DOMAIN u.open = 1 .. k /\ \A i \in 1 .. k : u.open[i] = s.open[i]
         /\ SameNames(s.nodes, u.nodes) /\ u.root = s.root /\ u.head = s.head
<1> DEFINE left == SubSeq(s.open, 1, k)
<1>1. /\ NodesOK(s.nodes, s.root, s.head) /\ OpenOK(s.nodes, s.open, s.root) /\ ActiveOK(s.nodes, s.active)
      /\ FormOK(s.nodes, s.form) /\ TemplatesOK(s.nodes, s.open, s.templateModes) /\ Typed(s.nodes)
  BY DEF Core, NodesOK, Sound
<1>2. /\ Rec(u) /\ u.root = s.root /\ u.head = s.head /\ u.active = s.active /\ u.form = s.form
      /\ u.templateModes = s.templateModes /\ Sound(u.nodes) /\ SameNames(s.nodes, u.nodes)
      /\ Nameless(s.nodes, u.nodes) /\ u.bufferType \in Texts
      /\ u.open = IF Len(s.open) <= k THEN s.open ELSE left
  BY DEF Popping, Rest
<1>3. /\ OpenOK(s.nodes, left, s.root) /\ Len(left) = k /\ DOMAIN left = 1 .. k
      /\ \A i \in 1 .. k : left[i] = s.open[i]
      /\ TemplatesIn(s.nodes, left) \subseteq TemplatesIn(s.nodes, s.open)
  BY <1>1, OpenPrefix
<1>4. Len(s.open) \in Nat /\ DOMAIN s.open = 1 .. Len(s.open)
  BY <1>1, VectorFacts DEF OpenOK
<1> HIDE DEF left
<1>5. /\ OpenOK(s.nodes, u.open, s.root) /\ Len(u.open) = k /\ DOMAIN u.open = 1 .. k
      /\ \A i \in 1 .. k : u.open[i] = s.open[i]
      /\ TemplatesIn(s.nodes, u.open) \subseteq TemplatesIn(s.nodes, s.open)
  <2>1. CASE Len(s.open) <= k
    <3>1. Len(s.open) = k /\ u.open = s.open
      BY <1>2, <1>4, <2>1
    <3> QED
      BY <1>1, <1>4, <3>1
  <2>2. CASE ~ (Len(s.open) <= k)
    BY <1>2, <1>3, <2>2
  <2> QED
    BY <2>1, <2>2
<1>6. NodesOK(u.nodes, s.root, s.head)
  BY <1>1, <1>2, NamelessNodesOK
<1>7. OpenOK(u.nodes, u.open, s.root) /\ ActiveOK(u.nodes, s.active) /\ FormOK(u.nodes, s.form)
  BY <1>1, <1>2, <1>5, OpenGrows, ActiveGrows, FormGrows
<1>8. TemplatesOK(u.nodes, u.open, s.templateModes)
  <2>1. TemplatesOK(s.nodes, u.open, s.templateModes)
    BY <1>1, <1>5, FewerTemplates
  <2> QED
    BY <1>1, <1>2, <1>5, <2>1, TemplatesGrow
<1>9. Segmented(u.open, s.active)
  <2>1. \A a \in DOMAIN u.open : a \in DOMAIN s.open /\ s.open[a] = u.open[a]
    BY <1>4, <1>5
  <2> QED
    BY <2>1, SegmentedKept DEF Core
<1> QED
  BY <1>2, <1>5, <1>6, <1>7, <1>8, <1>9 DEF Core, Rec

\* PopTo and Pop from a state that is right if no assertion has failed.
LEMMA PopToLeaves ==
  ASSUME NEW s, Rec(s), s.sound => Core(s), NEW k \in Nat, s.sound => k <= Len(s.open)
  PROVE  LET u == PopTo(s, k)
         IN  /\ Rec(u) /\ u.mode = s.mode /\ u.original = s.original
             /\ u.sound => /\ s.sound /\ Core(u) /\ Len(u.open) = k /\ DOMAIN u.open = 1 .. k
                           /\ \A i \in 1 .. k : u.open[i] = s.open[i]
                           /\ SameNames(s.nodes, u.nodes) /\ u.root = s.root /\ u.head = s.head
<1> DEFINE u == PopTo(s, k)
<1>1. s.sound => Rooted(s) /\ s.bufferType \in Texts
  BY CoreIsRooted DEF Core
<1>2. Popping(s, u, k)
  BY <1>1, PopToIs
<1> HIDE DEF u
<1>3. Rec(u) /\ u.mode = s.mode /\ u.original = s.original /\ (u.sound => s.sound)
  BY <1>2 DEF Popping, Rest
<1>4. u.sound => /\ Core(u) /\ Len(u.open) = k /\ DOMAIN u.open = 1 .. k
                 /\ \A i \in 1 .. k : u.open[i] = s.open[i]
                 /\ SameNames(s.nodes, u.nodes) /\ u.root = s.root /\ u.head = s.head
  BY <1>2, <1>3, PoppingCore
<1> QED
  BY <1>3, <1>4 DEF u

-----------------------------------------------------------------------------
(* The modes before the head.                                              *)

LEMMA EarlyFits ==
  ASSUME NEW s, Standing(s), s.mode \in EarlyModes
  PROVE  s.root = NoNode /\ s.head = NoNode /\ s.open = <<>>
<1>1. Fits(s.mode, s.nodes, s.open, s.root, s.head)
  BY DEF Standing, Modal, EarlyModes
<1> QED
  BY <1>1 DEF Fits, EarlyModes, LateModes, Contained, Allowed, ContentModes

LEMMA BeforeHeadFits ==
  ASSUME NEW s, Standing(s), s.mode = "BeforeHead"
  PROVE  s.root # NoNode /\ s.head = NoNode /\ Len(s.open) = 1
<1>1. Fits(s.mode, s.nodes, s.open, s.root, s.head)
  BY DEF Standing, Modal
<1> QED
  BY <1>1 DEF Fits, EarlyModes, LateModes, Contained, Allowed, ContentModes

\* A new element on the stack is the current node.
OnTop(s, v, n, tag, ns) ==
  /\ Current(v) = n /\ n \in DOMAIN v.nodes /\ n \notin DOMAIN s.nodes /\ n # NoNode
  /\ v.nodes[n].tag = tag /\ v.nodes[n].ns = ns
  /\ s.open \in Seq(DOMAIN s.nodes) /\ v.open = Append(s.open, n) /\ v.open \in Seq(DOMAIN v.nodes)
  /\ Len(v.open) = Len(s.open) + 1 /\ Len(s.open) \in Nat /\ DOMAIN v.open = 1 .. Len(s.open) + 1
  /\ DOMAIN s.open = 1 .. Len(s.open)
  /\ v.open[Len(s.open) + 1] = n /\ \A i \in 1 .. Len(s.open) : v.open[i] = s.open[i]
  /\ \A m \in DOMAIN v.nodes : m \in DOMAIN s.nodes \/ m = n \/ v.nodes[m].tag = NoTag
  /\ \A m \in DOMAIN v.nodes : m # n /\ m \notin DOMAIN s.nodes => v.nodes[m].type # "destroyed"
  /\ v.nodes[n].type # "destroyed"
  /\ \A m \in DOMAIN s.nodes : m # NoNode

LEMMA NewOnTop ==
  ASSUME NEW s, Core(s), NEW v, NEW tag, NEW ns, NewOnStack(s, v, tag, ns), v.sound
  PROVE  OnTop(s, v, Len(v.nodes), tag, ns)
<1> DEFINE n == Len(v.nodes)
<1>1. /\ Sound(v.nodes) /\ SameNames(s.nodes, v.nodes)
      /\ n \in DOMAIN v.nodes /\ n \notin DOMAIN s.nodes
      /\ v.nodes[n].tag = tag /\ v.nodes[n].ns = ns /\ v.nodes[n].type # "destroyed"
      /\ \A m \in DOMAIN v.nodes : m \notin DOMAIN s.nodes /\ m # n => v.nodes[m].tag = NoTag /\ v.nodes[m].type # "destroyed"
      /\ v.open = Append(s.open, n)
  BY DEF NewOnStack
<1>2. s.open \in Seq(DOMAIN s.nodes) /\ Typed(v.nodes)
  BY <1>1 DEF Core, OpenOK, Sound
<1> HIDE DEF n
<1>3. n # NoNode
  BY <1>1, <1>2, NodeFields
<1>4. DOMAIN s.nodes \subseteq DOMAIN v.nodes
  BY <1>1 DEF SameNames
<1>5. s.open \in Seq(DOMAIN v.nodes)
  <2> DEFINE S == DOMAIN s.nodes
             T == DOMAIN v.nodes
  <2>1. s.open \in Seq(S) /\ S \subseteq T
    BY <1>2, <1>4
  <2> HIDE DEF S, T
  <2>2. s.open \in Seq(T)
    BY <2>1
  <2> QED
    BY <2>2 DEF T
<1>6. /\ v.open \in Seq(DOMAIN v.nodes)
      /\ Len(v.open) = Len(s.open) + 1 /\ Len(s.open) \in Nat /\ DOMAIN v.open = 1 .. Len(s.open) + 1
      /\ DOMAIN s.open = 1 .. Len(s.open)
      /\ v.open[Len(s.open) + 1] = n /\ \A i \in 1 .. Len(s.open) : v.open[i] = s.open[i]
  <2> DEFINE T == DOMAIN v.nodes
             o == s.open
             w == v.open
  <2>1. o \in Seq(T) /\ n \in T /\ w = Append(o, n)
    BY <1>1, <1>5
  <2> HIDE DEF T, o, w
  <2>2. w \in Seq(T) /\ Len(w) = Len(o) + 1 /\ Len(o) \in Nat /\ DOMAIN w = 1 .. Len(o) + 1 /\ DOMAIN o = 1 .. Len(o)
        /\ w[Len(o) + 1] = n /\ \A i \in 1 .. Len(o) : w[i] = o[i]
    BY <2>1, AppendIs, OneMore
  <2> QED
    BY <2>2 DEF T, o, w
<1>7. Current(v) = n
  <2>1. Len(v.open) # 0
    BY <1>6
  <2>2. v.open # <<>>
    BY <2>1, EmptyHasNoPlace
  <2> QED
    BY <1>6, <2>2 DEF Current, Top
<1>8. \A m \in DOMAIN s.nodes : m # NoNode
  BY NodesAreNotNone
<1>9. OnTop(s, v, n, tag, ns)
  BY <1>1, <1>2, <1>3, <1>6, <1>7, <1>8 DEF OnTop
<1> QED
  BY <1>9 DEF n

\* The root is made.
LEMMA RootMade ==
  ASSUME NEW s, Standing(s), s.mode \in EarlyModes, NEW v, NewOnStack(s, v, "html", "html")
  PROVE  Settled(Go(WithRoot(v), "BeforeHead"))
<1> DEFINE u == Go(WithRoot(v), "BeforeHead")
           n == Len(v.nodes)
<1>1. s.root = NoNode /\ s.head = NoNode /\ s.open = <<>> /\ Core(s)
  BY EarlyFits DEF Standing
<1>2. Rec(v) /\ v.head = s.head /\ v.active = s.active /\ v.form = s.form /\ v.templateModes = s.templateModes
  BY DEF NewOnStack, Rest
<1>3. /\ Rec(u) /\ u.sound = v.sound /\ u.rules = v.rules /\ u.bufferType = v.bufferType /\ u.nodes = v.nodes
      /\ u.root = Current(v) /\ u.head = v.head /\ u.open = v.open /\ u.active = v.active
      /\ u.form = v.form /\ u.templateModes = v.templateModes /\ u.mode = "BeforeHead"
  BY <1>2 DEF Go, WithRoot, Rec, StateFields
<1> HIDE DEF u
<1>4. ASSUME u.sound PROVE Core(u) /\ Modal(u)
  <2>0. NewOnStack(s, v, "html", "html") /\ v.sound
    BY <1>3, <1>4
  <2>1. /\ Current(v) = n /\ n \in DOMAIN v.nodes /\ n \notin DOMAIN s.nodes /\ n # NoNode
        /\ v.nodes[n].tag = "html" /\ v.nodes[n].ns = "html"
        /\ v.open \in Seq(DOMAIN v.nodes)
        /\ Len(v.open) = Len(s.open) + 1 /\ Len(s.open) \in Nat /\ DOMAIN v.open = 1 .. Len(s.open) + 1
        /\ v.open[Len(s.open) + 1] = n
        /\ \A m \in DOMAIN v.nodes : m \in DOMAIN s.nodes \/ m = n \/ v.nodes[m].tag = NoTag
        /\ \A m \in DOMAIN v.nodes : m # n /\ m \notin DOMAIN s.nodes => v.nodes[m].type # "destroyed"
        /\ v.nodes[n].type # "destroyed"
        /\ \A m \in DOMAIN s.nodes : m # NoNode
    <3>1. OnTop(s, v, n, "html", "html")
      BY <1>1, <2>0, NewOnTop
    <3> HIDE DEF n
    <3> QED
      BY <3>1 DEF OnTop
  <2>2. Sound(v.nodes) /\ SameNames(s.nodes, v.nodes) /\ v.bufferType \in Texts
    BY <2>0 DEF NewOnStack
  <2> HIDE DEF n
  <2>3. Len(s.open) = 0
    BY <1>1
  <2>4. NodesOK(v.nodes, n, NoNode)
    <3>1. NodesOK(s.nodes, NoNode, NoNode)
      BY <1>1 DEF Core
    <3>2. Document \in DOMAIN v.nodes /\ v.nodes[Document].tag = NoTag
      BY <2>2, <3>1 DEF NodesOK, SameNames
    <3>3. ASSUME NEW m \in DOMAIN v.nodes
          PROVE  /\ v.nodes[m].type # "destroyed"
                 /\ v.nodes[m].tag = "html" => m = n
                 /\ v.nodes[m].tag = "head" => m = NoNode
      <4>1. CASE m \in DOMAIN s.nodes
        BY <2>1, <2>2, <3>1, <4>1 DEF NodesOK, SameNames
      <4>2. CASE m \notin DOMAIN s.nodes
        BY <2>1, <4>2, NoTagFacts
      <4> QED
        BY <4>1, <4>2
    <3> QED
      BY <2>1, <2>2, <3>2, <3>3 DEF NodesOK
  <2>5. OpenOK(v.nodes, v.open, n)
    <3>1. Len(v.open) = 1 /\ DOMAIN v.open = 1 .. 1 /\ v.open[1] = n
      BY <2>1, <2>3
    <3> QED
      BY <2>1, <3>1 DEF OpenOK
  <2>6. ActiveOK(v.nodes, s.active) /\ FormOK(v.nodes, s.form)
    BY <1>1, <2>2, ActiveGrows, FormGrows DEF Core
  <2>7. TemplatesOK(v.nodes, v.open, s.templateModes)
    <3>1. TemplatesIn(v.nodes, v.open) \subseteq TemplatesIn(s.nodes, s.open)
      <4>1. \A i \in DOMAIN v.open : v.open[i] = n
        BY <2>1, <2>3
      <4> QED
        BY <2>1, <4>1 DEF TemplatesIn, In
    <3> QED
      BY <1>1, <3>1, FewerTemplates DEF Core, NodesOK, Sound
  <2>8. Core(u)
    <3>1. \A a \in DOMAIN v.open : v.open[a] = n
      BY <2>1, <2>3
    <3>2. ~ In(s.active, n)
      <4>1. n # Marker
        BY <2>1, <2>2, NodeFields DEF Sound, Marker
      <4> QED
        BY <1>1, <2>1, <4>1, ListedIs DEF Core
    <3>3. Segmented(v.open, s.active)
      BY <1>1, <3>1, <3>2, SegmentedWith DEF Core
    <3> QED
      BY <1>1, <1>2, <1>3, <2>1, <2>2, <2>4, <2>5, <2>6, <2>7, <3>3 DEF Core, Rec
  <2>9. Modal(u)
    BY <1>1, <1>2, <1>3, <2>1, <2>3 DEF Modal, Fits
  <2> QED
    BY <2>8, <2>9
<1> QED
  BY <1>3, <1>4 DEF Settled, u

\* The head is made.
LEMMA HeadMade ==
  ASSUME NEW s, Standing(s), s.mode = "BeforeHead", NEW v, NewOnStack(s, v, "head", "html")
  PROVE  Settled(Go(WithHead(v), "InHead"))
<1> DEFINE u == Go(WithHead(v), "InHead")
           n == Len(v.nodes)
<1>1. s.root # NoNode /\ s.head = NoNode /\ Len(s.open) = 1 /\ Core(s)
  BY BeforeHeadFits DEF Standing
<1>2. Rec(v) /\ v.root = s.root /\ v.active = s.active /\ v.form = s.form /\ v.templateModes = s.templateModes
  BY DEF NewOnStack, Rest
<1>3. /\ Rec(u) /\ u.sound = v.sound /\ u.rules = v.rules /\ u.bufferType = v.bufferType /\ u.nodes = v.nodes
      /\ u.root = v.root /\ u.head = Current(v) /\ u.open = v.open /\ u.active = v.active
      /\ u.form = v.form /\ u.templateModes = v.templateModes /\ u.mode = "InHead"
  BY <1>2 DEF Go, WithHead, Rec, StateFields
<1> HIDE DEF u
<1>4. ASSUME u.sound PROVE Core(u) /\ Modal(u)
  <2>0. NewOnStack(s, v, "head", "html") /\ v.sound
    BY <1>3, <1>4
  <2>1. /\ Current(v) = n /\ n \in DOMAIN v.nodes /\ n \notin DOMAIN s.nodes /\ n # NoNode
        /\ v.nodes[n].tag = "head" /\ v.nodes[n].ns = "html" /\ v.open = Append(s.open, n)
        /\ Len(v.open) = Len(s.open) + 1 /\ Len(s.open) \in Nat /\ DOMAIN v.open = 1 .. Len(s.open) + 1
        /\ DOMAIN s.open = 1 .. Len(s.open)
        /\ v.open[Len(s.open) + 1] = n /\ \A i \in 1 .. Len(s.open) : v.open[i] = s.open[i]
        /\ \A m \in DOMAIN v.nodes : m \in DOMAIN s.nodes \/ m = n \/ v.nodes[m].tag = NoTag
        /\ \A m \in DOMAIN v.nodes : m # n /\ m \notin DOMAIN s.nodes => v.nodes[m].type # "destroyed"
        /\ v.nodes[n].type # "destroyed"
        /\ \A m \in DOMAIN s.nodes : m # NoNode
    <3>1. OnTop(s, v, n, "head", "html")
      BY <1>1, <2>0, NewOnTop
    <3> HIDE DEF n
    <3> QED
      BY <3>1 DEF OnTop
  <2>2. Sound(v.nodes) /\ SameNames(s.nodes, v.nodes) /\ v.bufferType \in Texts
    BY <2>0 DEF NewOnStack
  <2> HIDE DEF n
  <2>3. NodesOK(s.nodes, s.root, NoNode) /\ OpenOK(s.nodes, s.open, s.root)
    BY <1>1 DEF Core
  <2>4. NodesOK(v.nodes, s.root, n)
    <3>2. /\ Document \in DOMAIN v.nodes /\ v.nodes[Document].tag = NoTag
          /\ s.root \in DOMAIN v.nodes /\ v.nodes[s.root].tag = "html" /\ v.nodes[s.root].ns = "html"
      BY <1>1, <2>2, <2>3 DEF NodesOK, SameNames
    <3>3. ASSUME NEW m \in DOMAIN v.nodes
          PROVE  /\ v.nodes[m].type # "destroyed"
                 /\ v.nodes[m].tag = "html" => m = s.root
                 /\ v.nodes[m].tag = "head" => m = n
      <4>1. CASE m \in DOMAIN s.nodes
        BY <2>1, <2>2, <2>3, <4>1 DEF NodesOK, SameNames
      <4>2. CASE m \notin DOMAIN s.nodes
        BY <2>1, <4>2, NoTagFacts
      <4> QED
        BY <4>1, <4>2
    <3> QED
      BY <2>1, <2>2, <3>2, <3>3 DEF NodesOK
  <2>5. OpenOK(v.nodes, v.open, s.root)
    <3>1. OpenOK(v.nodes, s.open, s.root)
      BY <2>2, <2>3, OpenGrows
    <3>2. s.open # <<>>
      <4>1. Len(s.open) # 0
        BY <1>1
      <4> QED
        BY <4>1, EmptyHasNoPlace
    <3>3. \A i \in DOMAIN s.open : s.open[i] # n
      <4>1. \A i \in DOMAIN s.open : s.open[i] \in DOMAIN s.nodes
        BY <1>1, CoreIsRooted, StackFacts
      <4> QED
        BY <2>1, <4>1
    <3> QED
      BY <2>1, <3>1, <3>2, <3>3, OpenPushed
  <2>6. ActiveOK(v.nodes, s.active) /\ FormOK(v.nodes, s.form)
    BY <1>1, <2>2, ActiveGrows, FormGrows DEF Core
  <2>7. TemplatesOK(v.nodes, v.open, s.templateModes)
    <3>1. TemplatesIn(v.nodes, v.open) \subseteq TemplatesIn(s.nodes, s.open)
      <4> SUFFICES ASSUME NEW m \in DOMAIN v.nodes, v.nodes[m].tag = "template", v.nodes[m].ns = "html",
                          NEW i \in DOMAIN v.open, v.open[i] = m
                   PROVE  m \in TemplatesIn(s.nodes, s.open)
        BY DEF TemplatesIn, In
      <4>1. m # n
        BY <2>1
      <4>2. m \in DOMAIN s.nodes
        BY <2>1, <4>1, NoTagFacts
      <4>3. i \in DOMAIN s.open /\ s.open[i] = m
        BY <2>1, <4>1
      <4>4. s.nodes[m].tag = "template" /\ s.nodes[m].ns = "html"
        BY <2>2, <4>2 DEF SameNames
      <4> QED
        BY <4>2, <4>3, <4>4 DEF TemplatesIn, In
    <3> QED
      BY <1>1, <3>1, FewerTemplates DEF Core, NodesOK, Sound
  <2>8. Core(u)
    <3>1. \A a \in DOMAIN v.open : v.open[a] = n \/ (a \in DOMAIN s.open /\ s.open[a] = v.open[a])
      BY <2>1
    <3>2. ~ In(s.active, n)
      <4>1. n # Marker
        BY <2>1, <2>2, NodeFields DEF Sound, Marker
      <4> QED
        BY <1>1, <2>1, <4>1, ListedIs DEF Core
    <3>3. Segmented(v.open, s.active)
      BY <1>1, <3>1, <3>2, SegmentedWith DEF Core
    <3> QED
      BY <1>2, <1>3, <2>1, <2>2, <2>4, <2>5, <2>6, <2>7, <3>3 DEF Core, Rec
  <2>9. Modal(u)
    BY <1>1, <1>2, <1>3, <2>1 DEF Modal, Fits
  <2> QED
    BY <2>8, <2>9
<1> QED
  BY <1>3, <1>4 DEF Settled, u

LEMMA InitialSettles ==
  ASSUME NEW s, Standing(s), s.mode = "Initial", NEW t
  PROVE  Settled(Initial(s, t))
<1> DEFINE u == Initial(s, t)
           known == [Go(s, "BeforeHtml") EXCEPT !.quirks = t.quirks]
           quirky == [Go(s, "BeforeHtml") EXCEPT !.quirks = TRUE]
<1>1. u \in {s, AppendComment(s, Document), known, Again(quirky)}
  BY DEF Initial
<1>2. s.root = NoNode /\ s.head = NoNode /\ s.open = <<>> /\ Core(s) /\ Rec(s)
  BY EarlyFits DEF Standing, EarlyModes
<1>3. ASSUME NEW q PROVE Settled([Go(s, "BeforeHtml") EXCEPT !.quirks = q])
  <2> DEFINE v == [Go(s, "BeforeHtml") EXCEPT !.quirks = q]
  <2>1. /\ Rec(v) /\ v.sound = s.sound /\ v.rules = s.rules /\ v.bufferType = s.bufferType /\ v.nodes = s.nodes
        /\ v.root = s.root /\ v.head = s.head /\ v.open = s.open /\ v.active = s.active
        /\ v.form = s.form /\ v.templateModes = s.templateModes /\ v.mode = "BeforeHtml"
    BY <1>2 DEF Go, Rec, StateFields
  <2> HIDE DEF v
  <2>2. Core(v) /\ Modal(v)
    BY <1>2, <2>1 DEF Core, Modal, Fits, EarlyModes
  <2> QED
    BY <2>1, <2>2 DEF Settled, v
<1>4. Settled(known) /\ Settled(quirky)
  BY <1>3
<1> HIDE DEF u, known, quirky
<1>5. Settled(u)
  BY <1>1, <1>4, PlainSettles, SettledStays
<1> QED
  BY <1>5 DEF u

LEMMA BeforeHtmlSettles ==
  ASSUME NEW s, Standing(s), s.mode = "BeforeHtml", NEW t
  PROVE  Settled(BeforeHtml(s, t))
<1> DEFINE u == BeforeHtml(s, t)
           begun == Go(WithRoot(InsertTag(s, t)), "BeforeHead")
           implied == Go(WithRoot(InsertImplied(s, "html")), "BeforeHead")
<1>1. u \in {s, AppendComment(s, Document), Again(implied)} \/ (Starts(t, {"html"}) /\ u = begun)
  BY DEF BeforeHtml
<1>2. K(s, Around(s)) /\ s.mode \in EarlyModes
  BY AroundK DEF Standing, EarlyModes
<1>3. Settled(implied)
  BY <1>2, InsertImpliedOpens, RootMade
<1>4. Starts(t, {"html"}) => Settled(begun)
  <2> SUFFICES ASSUME Starts(t, {"html"}) PROVE Settled(begun)
    OBVIOUS
  <2>1. t.tag = "html"
    BY DEF Starts
  <2>2. NewOnStack(s, InsertTag(s, t), "html", "html")
    BY <1>2, <2>1, InsertTagOpens
  <2> QED
    BY <1>2, <2>2, RootMade
<1> HIDE DEF u, begun, implied
<1>5. Settled(u)
  BY <1>1, <1>3, <1>4, PlainSettles, SettledStays
<1> QED
  BY <1>5 DEF u

LEMMA BeforeHeadSettles ==
  ASSUME NEW s, Standing(s), s.mode = "BeforeHead", NEW t
  PROVE  Settled(BeforeHead(s, t))
<1> DEFINE u == BeforeHead(s, t)
           begun == Go(WithHead(InsertTag(s, t)), "InHead")
           implied == Go(WithHead(InsertImplied(s, "head")), "InHead")
<1>1. u \in {s, AppendComment(s, Current(s)), Again(implied)} \/ (Starts(t, {"head"}) /\ u = begun)
  BY DEF BeforeHead
<1>2. K(s, Around(s))
  BY AroundK DEF Standing
<1>3. Settled(implied)
  BY <1>2, InsertImpliedOpens, HeadMade
<1>4. Starts(t, {"head"}) => Settled(begun)
  <2> SUFFICES ASSUME Starts(t, {"head"}) PROVE Settled(begun)
    OBVIOUS
  <2>1. t.tag = "head"
    BY DEF Starts
  <2>2. NewOnStack(s, InsertTag(s, t), "head", "html")
    BY <1>2, <2>1, InsertTagOpens
  <2> QED
    BY <2>2, HeadMade
<1> HIDE DEF u, begun, implied
<1>5. Settled(u)
  BY <1>1, <1>3, <1>4, PlainSettles, SettledStays
<1> QED
  BY <1>5 DEF u

-----------------------------------------------------------------------------
(* The head.                                                               *)

LEMMA InHeadFits ==
  ASSUME NEW s, Standing(s), s.mode = "InHead"
  PROVE  /\ s.root # NoNode /\ s.head # NoNode /\ Len(s.open) = 2 /\ DOMAIN s.open = 1 .. 2 /\ s.open[1] = s.root
         /\ s.open[2] = s.head /\ s.open # <<>>
         /\ Fits(s.mode, s.nodes, s.open, s.root, s.head) /\ Rec(s) /\ s.sound /\ Core(s)
         /\ K(s, Around(s)) /\ Based(Around(s))
<1>1. Fits(s.mode, s.nodes, s.open, s.root, s.head) /\ Rec(s) /\ s.sound /\ Core(s)
  BY DEF Standing, Modal
<1>2. s.root # NoNode /\ s.head # NoNode /\ Len(s.open) = 2 /\ s.open[2] = s.head
  BY <1>1 DEF Fits, EarlyModes, LateModes, Contained, Allowed, ContentModes
<1>3. s.open # <<>>
  <2>1. Len(s.open) # 0
    BY <1>2
  <2> QED
    BY <2>1, EmptyHasNoPlace
<1>4. s.open[1] = s.root /\ DOMAIN s.open = 1 .. Len(s.open)
  BY <1>1, <1>3, CoreIsRooted, StackFacts DEF Core, OpenOK
<1>5. DOMAIN s.open = 1 .. 2
  BY <1>2, <1>4
<1> QED
  BY <1>1, <1>2, <1>3, <1>4, <1>5, AroundK

LEMMA NoscriptFits ==
  ASSUME NEW s, Standing(s), s.mode = "InHeadNoscript"
  PROVE  /\ s.root # NoNode /\ s.head # NoNode /\ Len(s.open) = 3 /\ s.open[2] = s.head /\ s.open # <<>>
         /\ Fits(s.mode, s.nodes, s.open, s.root, s.head) /\ Rec(s) /\ s.sound /\ Core(s)
         /\ K(s, Around(s)) /\ Based(Around(s))
<1>1. Fits(s.mode, s.nodes, s.open, s.root, s.head) /\ Rec(s) /\ s.sound /\ Core(s)
  BY DEF Standing, Modal
<1>2. s.root # NoNode /\ s.head # NoNode /\ Len(s.open) = 3 /\ s.open[2] = s.head
  BY <1>1 DEF Fits, EarlyModes, LateModes, Contained, Allowed, ContentModes
<1>3. s.open # <<>>
  <2>1. Len(s.open) # 0
    BY <1>2
  <2> QED
    BY <2>1, EmptyHasNoPlace
<1> QED
  BY <1>1, <1>2, <1>3, AroundK

\* The head is closed.
LEMMA HeadClosed ==
  ASSUME NEW c, Rec(c), Len(c.open) = 2, c.sound => Core(c) /\ c.root # NoNode /\ c.head # NoNode
  PROVE  Settled(Go(Pop(c), "AfterHead"))
<1> DEFINE p == PopTo(c, 1)
           u == Go(p, "AfterHead")
<1>1. Pop(c) = p
  BY DEF Pop
<1>2. /\ Rec(p)
      /\ p.sound => /\ c.sound /\ Core(p) /\ Len(p.open) = 1 /\ DOMAIN p.open = 1 .. 1
                    /\ \A i \in 1 .. 1 : p.open[i] = c.open[i]
                    /\ p.root = c.root /\ p.head = c.head
  <2>1. 1 <= Len(c.open) /\ 1 \in Nat
    OBVIOUS
  <2> QED
    BY <2>1, PopToLeaves
<1> HIDE DEF p
<1>3. /\ Rec(u) /\ u.sound = p.sound /\ u.rules = p.rules /\ u.bufferType = p.bufferType /\ u.nodes = p.nodes
      /\ u.root = p.root /\ u.head = p.head /\ u.open = p.open /\ u.active = p.active
      /\ u.form = p.form /\ u.templateModes = p.templateModes /\ u.mode = "AfterHead"
  BY <1>2 DEF Go, Rec, StateFields
<1> HIDE DEF u
<1>4. ASSUME u.sound PROVE Core(u) /\ Modal(u)
  <2>1. /\ Core(u) /\ u.root # NoNode /\ u.head # NoNode /\ Len(u.open) = 1 /\ DOMAIN u.open = 1 .. 1
    <3>1. Core(u)
      BY <1>2, <1>3, <1>4 DEF Core
    <3> QED
      BY <1>2, <1>3, <1>4, <3>1
  <2>2. u.open[1] = u.root /\ u.root \in DOMAIN u.nodes /\ u.nodes[u.root].tag = "html" /\ u.nodes[u.root].ns = "html"
    <3>1. Len(u.open) # 0
      BY <2>1
    <3> QED
      BY <2>1, <3>1, EmptyHasNoPlace DEF Core, OpenOK, NodesOK
  <2> DEFINE base == <<u.root>>
  <2>3. Len(base) = 1 /\ base[1] = u.root /\ base \in Bases(u.nodes, u.root, u.head)
    BY DEF Bases
  <2> HIDE DEF base
  <2>4. Begins(u.open, base, u.head)
    BY <2>1, <2>2, <2>3 DEF Begins
  <2>5. Stops(u.nodes, base)
    BY <2>2, <2>3 DEF Stops, Fixed
  <2>6. "AfterHead" \in Allowed(base)
    BY <2>3 DEF Allowed
  <2>7. Contained(u.mode, u.nodes, u.open, u.root, u.head)
    BY <1>3, <2>3, <2>4, <2>5, <2>6 DEF Contained
  <2> QED
    BY <1>3, <2>1, <2>7 DEF Modal, Fits
<1> QED
  BY <1>1, <1>3, <1>4 DEF Settled, u

\* A noscript in the head is closed.
LEMMA NoscriptClosed ==
  ASSUME NEW c, Rec(c), Len(c.open) = 3, c.sound => Core(c) /\ c.root # NoNode /\ c.head # NoNode /\ c.open[2] = c.head
  PROVE  Settled(Go(Pop(c), "InHead"))
<1> DEFINE p == PopTo(c, 2)
           u == Go(p, "InHead")
<1>1. Pop(c) = p
  BY DEF Pop
<1>2. /\ Rec(p)
      /\ p.sound => /\ c.sound /\ Core(p) /\ Len(p.open) = 2
                    /\ \A i \in 1 .. 2 : p.open[i] = c.open[i]
                    /\ p.root = c.root /\ p.head = c.head
  <2>1. 2 <= Len(c.open) /\ 2 \in Nat
    OBVIOUS
  <2> QED
    BY <2>1, PopToLeaves
<1> HIDE DEF p
<1>3. /\ Rec(u) /\ u.sound = p.sound /\ u.rules = p.rules /\ u.bufferType = p.bufferType /\ u.nodes = p.nodes
      /\ u.root = p.root /\ u.head = p.head /\ u.open = p.open /\ u.active = p.active
      /\ u.form = p.form /\ u.templateModes = p.templateModes /\ u.mode = "InHead"
  BY <1>2 DEF Go, Rec, StateFields
<1> HIDE DEF u
<1>4. ASSUME u.sound PROVE Core(u) /\ Modal(u)
  <2>1. Core(u)
    BY <1>2, <1>3, <1>4 DEF Core
  <2>2. u.root # NoNode /\ u.head # NoNode /\ Len(u.open) = 2 /\ u.open[2] = u.head
    BY <1>2, <1>3, <1>4
  <2> QED
    BY <1>3, <2>1, <2>2 DEF Modal, Fits
<1> QED
  BY <1>1, <1>3, <1>4 DEF Settled, u

\* A noscript in the head is opened.
LEMMA NoscriptOpened ==
  ASSUME NEW s, Standing(s), s.mode = "InHead", NEW t, t.tag = "noscript"
  PROVE  Settled(Go(InsertTag(s, t), "InHeadNoscript"))
<1> DEFINE v == InsertTag(s, t)
           u == Go(v, "InHeadNoscript")
<1>1. /\ s.root # NoNode /\ s.head # NoNode /\ Len(s.open) = 2 /\ s.open[2] = s.head /\ Core(s)
      /\ K(s, Around(s)) /\ Based(Around(s))
  BY InHeadFits
<1>2. K(v, Around(s)) /\ NewOnStack(s, v, t.tag, "html")
  <2>1. t.tag \notin Fixed
    BY DEF Fixed
  <2> QED
    BY <1>1, <2>1, InsertTagK
<1> HIDE DEF v
<1>3. Rec(v) /\ v.root = s.root /\ v.head = s.head
  BY <1>2 DEF NewOnStack, Rest
<1>4. /\ Rec(u) /\ u.sound = v.sound /\ u.rules = v.rules /\ u.bufferType = v.bufferType /\ u.nodes = v.nodes
      /\ u.root = v.root /\ u.head = v.head /\ u.open = v.open /\ u.active = v.active
      /\ u.form = v.form /\ u.templateModes = v.templateModes /\ u.mode = "InHeadNoscript"
  BY <1>3 DEF Go, Rec, StateFields
<1> HIDE DEF u
<1>5. ASSUME u.sound PROVE Core(u) /\ Modal(u)
  <2>1. Core(v)
    BY <1>2, <1>4, <1>5 DEF K
  <2>2. Core(u)
    BY <1>4, <2>1 DEF Core
  <2> DEFINE n == Len(v.nodes)
  <2>3. OnTop(s, v, n, t.tag, "html")
    BY <1>1, <1>2, <1>4, <1>5, NewOnTop
  <2> HIDE DEF n
  <2>4. Len(u.open) = 3 /\ u.open[2] = u.head /\ u.open[3] = n /\ u.nodes[n].tag = "noscript" /\ u.nodes[n].ns = "html"
    BY <1>1, <1>3, <1>4, <2>3 DEF OnTop
  <2>5. Plain(u.nodes, u.open[3])
    BY <2>4 DEF Plain, Fixed
  <2> QED
    BY <1>1, <1>3, <1>4, <2>2, <2>4, <2>5 DEF Modal, Fits
<1> QED
  BY <1>4, <1>5 DEF Settled, u, v

\* A template is opened in the head.
LEMMA TemplateInHead ==
  ASSUME NEW s, Standing(s), s.mode = "InHead", NEW t, t.tag = "template"
  PROVE  Settled(StartTemplate(s, t))
<1> DEFINE u == StartTemplate(s, t)
           mid == NoFrameset(AddMarker(InsertTag(s, t)))
<1>1. /\ s.root # NoNode /\ s.head # NoNode /\ Len(s.open) = 2 /\ DOMAIN s.open = 1 .. 2 /\ s.open[1] = s.root
      /\ s.open[2] = s.head /\ Core(s) /\ Rec(s)
      /\ K(s, Around(s)) /\ Based(Around(s))
  BY InHeadFits
<1>2. Opens(s, u)
  BY <1>1, TemplateOpens
<1>3. u.mode = "InTemplate"
  <2>1. Rec(InsertTag(s, t))
    BY <1>1, InsertTagOpens DEF NewOnStack, Rest
  <2>2. DOMAIN mid = StateFields
    BY <2>1 DEF NoFrameset, AddMarker, Rec
  <2> HIDE DEF mid
  <2>3. u = PushTemplateMode(Go(mid, "InTemplate"), "InTemplate")
    BY DEF StartTemplate, mid
  <2> QED
    BY <2>2, <2>3 DEF PushTemplateMode, Go, StateFields
<1> HIDE DEF u
<1>4. ASSUME u.sound PROVE Core(u) /\ Modal(u)
  <2> DEFINE n == Len(u.nodes)
  <2>1. /\ Core(u) /\ SameNames(s.nodes, u.nodes) /\ u.root = s.root /\ u.head = s.head
        /\ u.open = Append(s.open, n) /\ n \in DOMAIN u.nodes /\ n \notin DOMAIN s.nodes
        /\ u.nodes[n].tag = "template" /\ u.nodes[n].ns = "html"
    BY <1>2, <1>3, <1>4 DEF Opens
  <2> HIDE DEF n
  <2>2. s.open \in Seq(DOMAIN s.nodes) /\ s.root \in DOMAIN s.nodes /\ s.head \in DOMAIN s.nodes
        /\ s.nodes[s.root].tag = "html" /\ s.nodes[s.root].ns = "html" /\ s.nodes[s.head].tag = "head" /\ s.nodes[s.head].ns = "html"
    BY <1>1 DEF Core, OpenOK, NodesOK
  <2>3. Len(u.open) = 3 /\ DOMAIN u.open = 1 .. 3 /\ u.open[1] = s.root /\ u.open[2] = s.head /\ u.open[3] = n
    <3>1. /\ Len(u.open) = Len(s.open) + 1 /\ u.open[Len(s.open) + 1] = n /\ \A i \in 1 .. Len(s.open) : u.open[i] = s.open[i]
      BY <2>1, <2>2, TopOfAppend
    <3>2. DOMAIN u.open = 1 .. Len(u.open)
      BY <2>1, CoreIsRooted, StackFacts
    <3> QED
      BY <1>1, <3>1, <3>2
  <2> DEFINE base == <<s.root, s.head, n>>
  <2>4. Len(base) = 3 /\ base[1] = s.root /\ base[2] = s.head /\ base[3] = n /\ base \in Bases(u.nodes, u.root, u.head)
    BY <2>1 DEF Bases
  <2> HIDE DEF base
  <2>5. Begins(u.open, base, u.head)
    BY <2>3, <2>4 DEF Begins
  <2>6. Stops(u.nodes, base)
    <3>1. \A i \in 1 .. Len(base) : base[i] \in DOMAIN u.nodes /\ u.nodes[base[i]].tag \in Fixed /\ u.nodes[base[i]].ns = "html"
      <4> SUFFICES ASSUME NEW i \in 1 .. Len(base) PROVE base[i] \in DOMAIN u.nodes /\ u.nodes[base[i]].tag \in Fixed /\ u.nodes[base[i]].ns = "html"
        OBVIOUS
      <4>1. i = 1 \/ i = 2 \/ i = 3
        BY <2>4
      <4> QED
        BY <2>1, <2>2, <2>4, <4>1 DEF SameNames, Fixed
    <3> QED
      BY <2>1, <2>4, <3>1 DEF Stops
  <2>7. Contained(u.mode, u.nodes, u.open, u.root, u.head)
    BY <1>3, <2>4, <2>5, <2>6 DEF Contained, Allowed, ContentModes
  <2> QED
    BY <1>1, <1>3, <2>1, <2>7 DEF Modal, Fits
<1> QED
  BY <1>2, <1>4 DEF Settled, u, Opens

\* No template is open in the head itself.
LEMMA NoTemplateInHead ==
  ASSUME NEW s, Standing(s), s.mode = "InHead"
  PROVE  ~ HasOpen(s, "template")
<1> DEFINE S == {i \in DOMAIN s.open : IsHtml(s, s.open[i], {"template"}) \/ IsHtml(s, s.open[i], {"html"})}
           first == Greatest(S)
<1>1. /\ s.root # NoNode /\ s.head # NoNode /\ DOMAIN s.open = 1 .. 2 /\ s.open[1] = s.root /\ s.open[2] = s.head /\ Core(s)
  BY InHeadFits
<1>2. s.nodes[s.root].tag = "html" /\ s.nodes[s.head].tag = "head"
  BY <1>1 DEF Core, NodesOK
<1>3. first \in S \union {0}
  <2>1. S \in SUBSET (1 .. 2)
    BY <1>1
  <2> HIDE DEF S
  <2> QED
    BY <2>1, GreatestIs
<1>4. HasOpen(s, "template") => first > 0 /\ IsHtml(s, s.open[first], {"template"})
  BY DEF HasOpen, HasInScope
<1>5. first > 0 => first = 1 \/ first = 2
  BY <1>1, <1>3
<1> HIDE DEF first
<1> QED
  BY <1>1, <1>2, <1>4, <1>5 DEF IsHtml, IsElement

\* A void element in the head.
LEMMA VoidSettles ==
  ASSUME NEW s, Standing(s), s.mode \in {"InHead", "InHeadNoscript"}, NEW t, t.tag \notin Fixed
  PROVE  Settled(InsertVoid(s, t))
<1> DEFINE u == InsertVoid(s, t)
<1>1. Core(s) /\ Modal(s) /\ K(s, Around(s)) /\ Based(Around(s)) /\ Around(s).modes = {s.mode}
  BY InHeadFits, NoscriptFits, AroundK DEF Standing
<1>2. Opens(s, u) /\ K(u, Around(s))
  BY <1>1, VoidOpens
<1> HIDE DEF u
<1>3. ASSUME u.sound PROVE Core(u) /\ Modal(u)
  <2>1. u.mode = s.mode
    BY <1>1, <1>2, <1>3 DEF K, Held
  <2>2. Core(u) /\ SameNames(s.nodes, u.nodes) /\ u.root = s.root /\ u.head = s.head
        /\ u.open = s.open /\ u.original = s.original
    BY <1>2, <1>3, <2>1 DEF Opens
  <2>3. Modal(u)
    BY <1>1, <2>1, <2>2, ModalGrows
  <2> QED
    BY <2>2, <2>3
<1> QED
  BY <1>2, <1>3 DEF Settled, Opens, u

LEMMA InHeadSettles ==
  ASSUME NEW s, Standing(s), s.mode = "InHead", NEW t
  PROVE  Settled(InHead(s, t))
<1> DEFINE u == InHead(s, t)
           generic == RunGenericParsing(s, t, "text")
           noscript == Go(InsertTag(s, t), "InHeadNoscript")
           claimed == Claim(s, CurrentIs(s, {"head"}))
           closed == Go(Pop(claimed), "AfterHead")
           left == Again(Go(Pop(s), "AfterHead"))
           template == StartTemplate(s, t)
<1>0. ~ HasOpen(s, "template")
  BY NoTemplateInHead
<1>1. \/ u \in {InsertText(s, t), AppendComment(s, Current(s)), StartHtml(s, t), left, closed, s}
      \/ Starts(t, {"base", "basefont", "bgsound", "menuitem", "link", "meta"}) /\ u = InsertVoid(s, t)
      \/ Starts(t, {"title", "noframes", "style", "script"}) /\ u = generic
      \/ Starts(t, {"noscript"}) /\ u = noscript
      \/ Starts(t, {"template"}) /\ u = template
  <2>1. t.type = "Whitespace" => u = InsertText(s, t)
    BY DEF InHead, Starts, Ends
  <2>2. t.type = "Doctype" => u = s
    BY DEF InHead, Starts, Ends
  <2>3. t.type = "Comment" => u = AppendComment(s, Current(s))
    BY DEF InHead, Starts, Ends
  <2>4. Starts(t, {"html"}) => u = StartHtml(s, t)
    BY DEF InHead, Starts, Ends
  <2>5. Starts(t, {"base", "basefont", "bgsound", "menuitem", "link", "meta"}) => u = InsertVoid(s, t)
    BY DEF InHead, Starts, Ends
  <2>6. Starts(t, {"title"}) => u = generic
    BY DEF InHead, Starts, Ends
  <2>7. Starts(t, {"noframes", "style"}) => u = generic
    BY DEF InHead, Starts, Ends
  <2>8. Starts(t, {"noscript"}) => u = noscript
    BY DEF InHead, Starts, Ends
  <2>9. Starts(t, {"script"}) => u = generic
    BY DEF InHead, Starts, Ends
  <2>10. Ends(t, {"head"}) => u = closed
    BY DEF InHead, Starts, Ends
  <2>11. Ends(t, {"body", "html", "br"}) => u = left
    BY DEF InHead, Starts, Ends
  <2>12. Starts(t, {"template"}) => u = template
    BY DEF StartTemplate, InHead, Starts, Ends
  <2>13. Ends(t, {"template"}) => u = s
    BY <1>0 DEF InHead, Starts, Ends
  <2>14. (Starts(t, {"head"}) \/ (t.type = "EndTag" /\ t.tag \notin {"head", "body", "html", "br", "template"})) => u = s
    BY DEF InHead, Starts, Ends
  <2>15. ~ (\/ t.type = "Whitespace"
            \/ t.type = "Doctype"
            \/ t.type = "Comment"
            \/ Starts(t, {"html"})
            \/ Starts(t, {"base", "basefont", "bgsound", "menuitem", "link", "meta"})
            \/ Starts(t, {"title"})
            \/ Starts(t, {"noframes", "style"})
            \/ Starts(t, {"noscript"})
            \/ Starts(t, {"script"})
            \/ Ends(t, {"head"})
            \/ Ends(t, {"body", "html", "br"})
            \/ Starts(t, {"template"})
            \/ Ends(t, {"template"})
            \/ Starts(t, {"head"}) \/ (t.type = "EndTag" /\ t.tag \notin {"head", "body", "html", "br", "template"}))
         => u = left
    BY DEF InHead
  <2> HIDE DEF u, generic, noscript, closed, left, template, claimed
  <2>16. /\ Starts(t, {"title"}) \/ Starts(t, {"noframes", "style"}) \/ Starts(t, {"script"})
            => Starts(t, {"title", "noframes", "style", "script"})
    BY DEF Starts
  <2> QED
    BY <2>1, <2>2, <2>3, <2>4, <2>5, <2>6, <2>7, <2>8, <2>9, <2>10, <2>11, <2>12, <2>13, <2>14, <2>15, <2>16
<1> HIDE DEF u, generic, noscript, closed, left, template
<1>2. /\ s.root # NoNode /\ s.head # NoNode /\ Len(s.open) = 2 /\ s.open # <<>>
      /\ Fits(s.mode, s.nodes, s.open, s.root, s.head) /\ Rec(s) /\ s.sound /\ Core(s)
  BY InHeadFits
<1>3. /\ Settled(InsertText(s, t)) /\ Settled(AppendComment(s, Current(s))) /\ Settled(StartHtml(s, t)) /\ Settled(s)
  BY <1>2, PlainSettles
<1>4. Settled(left)
  BY <1>2, HeadClosed, SettledStays DEF left
<1>5. Settled(closed)
  <2> DEFINE holds == CurrentIs(s, {"head"})
  <2>1. holds \in BOOLEAN
    BY DEF CurrentIs, IsHtml, IsElement
  <2>2. claimed = Claim(s, holds)
    OBVIOUS
  <2> HIDE DEF holds, claimed
  <2>3. Rec(claimed) /\ claimed.open = s.open /\ claimed.root = s.root /\ claimed.head = s.head
        /\ (claimed.sound => Core(claimed))
    <3>1. K(claimed, Around(s)) /\ Grown(s, claimed)
      BY <1>2, <2>1, <2>2, AroundK, ClaimK
    <3> QED
      BY <3>1 DEF K, Grown, Rest
  <2> QED
    BY <1>2, <2>3, HeadClosed DEF closed
<1>6. /\ Starts(t, {"base", "basefont", "bgsound", "menuitem", "link", "meta"}) => Settled(InsertVoid(s, t))
      /\ Starts(t, {"title", "noframes", "style", "script"}) => Settled(generic)
      /\ Starts(t, {"noscript"}) => Settled(noscript)
      /\ Starts(t, {"template"}) => Settled(template)
  <2>1. /\ Starts(t, {"base", "basefont", "bgsound", "menuitem", "link", "meta"})
           \/ Starts(t, {"title", "noframes", "style", "script"}) => t.tag \notin Fixed
        /\ Starts(t, {"noscript"}) => t.tag = "noscript"
        /\ Starts(t, {"template"}) => t.tag = "template"
    BY DEF Starts, Fixed
  <2> QED
    BY <1>2, <2>1, VoidSettles, GenericSettles, NoscriptOpened, TemplateInHead DEF generic, noscript, template
<1>7. Settled(u)
  BY <1>1, <1>3, <1>4, <1>5, <1>6
<1> QED
  BY <1>7 DEF u

-----------------------------------------------------------------------------
(* The handlers that are called last, and the text modes.                  *)

\* What a handler hands on is the state it was given.
LEMMA HandedBack ==
  ASSUME NEW s, Standing(s), NEW rules
  PROVE  LET r == HandOn(HandOn(s, rules), "none")
         IN  /\ Standing(r) /\ r.mode = s.mode /\ r.original = s.original /\ r.open = s.open /\ r.nodes = s.nodes
             /\ r.root = s.root /\ r.head = s.head
             /\ HandOn(s, rules).rules = rules
<1> DEFINE own == HandOn(s, rules)
           r == HandOn(own, "none")
<1>1. Rec(s) /\ s.sound /\ Core(s) /\ Modal(s) /\ DOMAIN s = StateFields
  BY DEF Standing, Rec
<1>2. /\ DOMAIN own = StateFields /\ own.rules = rules /\ own.nodes = s.nodes /\ own.open = s.open
      /\ own.active = s.active /\ own.form = s.form /\ own.templateModes = s.templateModes
      /\ own.bufferType = s.bufferType /\ own.root = s.root /\ own.head = s.head /\ own.mode = s.mode
      /\ own.original = s.original /\ own.sound = s.sound
  BY <1>1 DEF HandOn, StateFields
<1> HIDE DEF own
<1>3. /\ DOMAIN r = StateFields /\ r.rules = "none" /\ r.nodes = s.nodes /\ r.open = s.open
      /\ r.active = s.active /\ r.form = s.form /\ r.templateModes = s.templateModes
      /\ r.bufferType = s.bufferType /\ r.root = s.root /\ r.head = s.head /\ r.mode = s.mode
      /\ r.original = s.original /\ r.sound = s.sound
  BY <1>2 DEF HandOn, StateFields
<1> HIDE DEF r
<1>4. Rec(r)
  BY <1>1, <1>3 DEF Rec
<1>5. Core(r)
  BY <1>1, <1>3 DEF Core
<1>6. Modal(r)
  BY <1>1, <1>3 DEF Modal
<1>7. Standing(r)
  BY <1>1, <1>3, <1>4, <1>5, <1>6 DEF Standing
<1> QED
  BY <1>2, <1>3, <1>7 DEF r, own

Chain(own, t) == HeadRules(BodyRules(TableOrSelect(own, t), t), t)

LEMMA ChainIs ==
  ASSUME NEW own, NEW t
  PROVE  /\ own.rules = "InHead" => Chain(own, t) = InHead(HandOn(own, "none"), t)
         /\ own.rules = "InBody" /\ InBody(HandOn(own, "none"), t).rules = "none"
              => Chain(own, t) = InBody(HandOn(own, "none"), t)
<1> DEFINE head == InHead(HandOn(own, "none"), t)
           body == InBody(HandOn(own, "none"), t)
           a == TableOrSelect(own, t)
           b == BodyRules(a, t)
<1>1. ASSUME own.rules = "InHead" PROVE Chain(own, t) = head
  <2>1. a = own
    BY <1>1 DEF TableOrSelect
  <2> HIDE DEF a
  <2>2. b = own
    BY <1>1, <2>1 DEF BodyRules
  <2> HIDE DEF b
  <2>3. HeadRules(b, t) = head
    BY <1>1, <2>2 DEF HeadRules
  <2> QED
    BY <2>3 DEF Chain, a, b
<1>2. ASSUME own.rules = "InBody", body.rules = "none" PROVE Chain(own, t) = body
  <2>1. a = own
    BY <1>2 DEF TableOrSelect
  <2> HIDE DEF a
  <2>2. b = body
    BY <1>2, <2>1 DEF BodyRules
  <2> HIDE DEF b, body
  <2>3. HeadRules(b, t) = body
    BY <1>2, <2>2 DEF HeadRules
  <2> QED
    BY <2>3 DEF Chain, a, b, body
<1> QED
  BY <1>1, <1>2

\* What a handler settles, or what handle_in_head or handle_in_body settle for it, is handled.
LEMMA OwnHandled ==
  ASSUME NEW s, NEW t, Settled(Chain(OwnRules(s, t), t))
  PROVE  Settled(HtmlContent(s, t))
<1> DEFINE u == Chain(OwnRules(s, t), t)
<1>1. HtmlContent(s, t) = [u EXCEPT !.foster = FALSE]
  BY DEF HtmlContent, Chain
<1> HIDE DEF u
<1>2. Settled([u EXCEPT !.foster = FALSE])
  BY SettledStays DEF u
<1> QED
  BY <1>1, <1>2

LEMMA SettledOwn ==
  ASSUME NEW s, NEW t, Settled(OwnRules(s, t))
  PROVE  Settled(HtmlContent(s, t))
<1>1. Settled(Chain(OwnRules(s, t), t))
  BY NothingHandedOn DEF Chain
<1> QED
  BY <1>1, OwnHandled

LEMMA HeadHandled ==
  ASSUME NEW s, Standing(s), s.mode = "InHead", NEW t
  PROVE  Settled(HtmlContent(s, t))
<1> DEFINE own == HandOn(s, "InHead")
           r == HandOn(own, "none")
<1>1. OwnRules(s, t) = own
  BY DEF OwnRules
<1>2. Standing(r) /\ r.mode = "InHead" /\ own.rules = "InHead"
  BY HandedBack
<1> HIDE DEF r
<1>3. Settled(InHead(r, t))
  BY <1>2, InHeadSettles
<1>4. Chain(own, t) = InHead(r, t)
  BY <1>2, ChainIs DEF r
<1> HIDE DEF own
<1> QED
  BY <1>1, <1>3, <1>4, OwnHandled

\* What handle_in_head does in the frameset modes and in noscript.
LEMMA HeadHandsOn ==
  ASSUME NEW s, Standing(s), NEW t,
         \/ s.mode \in LateModes /\ Starts(t, {"noframes"})
         \/ /\ s.mode = "InHeadNoscript"
            /\ \/ t.type \in {"Whitespace", "Comment"}
               \/ Starts(t, {"basefont", "bgsound", "link", "meta", "noframes", "style"})
  PROVE  Settled(Chain(HandOn(s, "InHead"), t))
<1> DEFINE own == HandOn(s, "InHead")
           r == HandOn(own, "none")
           u == InHead(r, t)
<1>1. Standing(r) /\ r.mode = s.mode /\ own.rules = "InHead"
  BY HandedBack
<1>2. Chain(own, t) = u
  BY <1>1, ChainIs
<1> HIDE DEF own, r
<1>3. \/ u \in {InsertText(r, t), AppendComment(r, Current(r))}
      \/ r.mode = "InHeadNoscript" /\ t.tag \notin Fixed /\ u = InsertVoid(r, t)
      \/ t.tag \notin Fixed /\ u = RunGenericParsing(r, t, "text")
  <2>1. t.type = "Whitespace" => u = InsertText(r, t)
    BY DEF InHead, Starts, Ends
  <2>2. t.type = "Comment" => u = AppendComment(r, Current(r))
    BY DEF InHead, Starts, Ends
  <2>3. Starts(t, {"basefont", "bgsound", "link", "meta"}) => u = InsertVoid(r, t)
    BY DEF InHead, Starts, Ends
  <2>4. Starts(t, {"noframes", "style"}) => u = RunGenericParsing(r, t, "text")
    BY DEF InHead, Starts, Ends
  <2> HIDE DEF u
  <2>5. /\ Starts(t, {"noframes"}) => Starts(t, {"noframes", "style"})
        /\ Starts(t, {"basefont", "bgsound", "link", "meta", "noframes", "style"}) =>
             Starts(t, {"noframes", "style"}) \/ Starts(t, {"basefont", "bgsound", "link", "meta"})
        /\ Starts(t, {"noframes", "style"}) \/ Starts(t, {"basefont", "bgsound", "link", "meta"}) => t.tag \notin Fixed
    BY DEF Starts, Fixed
  <2>6. t.type \in {"Whitespace", "Comment"} => t.type = "Whitespace" \/ t.type = "Comment"
    OBVIOUS
  <2>7. ~ (s.mode \in LateModes /\ s.mode = "InHeadNoscript")
    BY DEF LateModes
  <2>8. Starts(t, {"basefont", "bgsound", "link", "meta"}) /\ Starts(t, {"noframes"}) => FALSE
    BY DEF Starts
  <2> QED
    BY <1>1, <2>1, <2>2, <2>3, <2>4, <2>5, <2>6, <2>7, <2>8
<1> HIDE DEF u
<1>4. Settled(InsertText(r, t)) /\ Settled(AppendComment(r, Current(r)))
  BY <1>1, PlainSettles
<1>5. r.mode = "InHeadNoscript" /\ t.tag \notin Fixed => Settled(InsertVoid(r, t))
  BY <1>1, VoidSettles
<1>6. t.tag \notin Fixed => Settled(RunGenericParsing(r, t, "text"))
  <2>1. r.mode \notin {"Text", "InTableText"}
    BY <1>1 DEF LateModes
  <2>2. Fits(r.mode, r.nodes, r.open, r.root, r.head)
    BY <1>1, <2>1 DEF Standing, Modal
  <2>3. r.open # <<>>
    <3>1. CASE r.mode = "InHeadNoscript"
      BY <1>1, <3>1, NoscriptFits
    <3>2. CASE r.mode \in LateModes
      <4>1. Len(r.open) >= 1
        BY <2>2, <3>2 DEF Fits, LateModes, EarlyModes, Contained, Allowed, ContentModes
      <4>2. Len(r.open) # 0
        BY <4>1
      <4> QED
        BY <4>2, EmptyHasNoPlace
    <3> QED
      BY <1>1, <3>1, <3>2
  <2> QED
    BY <1>1, <2>2, <2>3, GenericSettles
<1>7. Settled(u)
  BY <1>3, <1>4, <1>5, <1>6
<1> QED
  BY <1>2, <1>7 DEF own

LEMMA NoscriptHandled ==
  ASSUME NEW s, Standing(s), s.mode = "InHeadNoscript", NEW t
  PROVE  Settled(HtmlContent(s, t))
<1> DEFINE u == InHeadNoscript(s, t)
           claimed == Claim(s, CurrentIs(s, {"noscript"}))
           closed == Go(Pop(claimed), "InHead")
           own == HandOn(s, "InHead")
           ForTheHead == \/ t.type \in {"Whitespace", "Comment"}
                         \/ Starts(t, {"basefont", "bgsound", "link", "meta", "noframes", "style"})
<1>1. OwnRules(s, t) = u
  BY DEF OwnRules
<1>2. u \in {s, StartHtml(s, t), closed, Again(closed)} \/ (ForTheHead /\ u = own)
  <2>1. t.type = "Doctype" => u = s
    BY DEF InHeadNoscript, Starts, Ends
  <2>2. Starts(t, {"html"}) => u = StartHtml(s, t)
    BY DEF InHeadNoscript, Starts, Ends
  <2>3. Ends(t, {"noscript"}) => u = closed
    BY DEF InHeadNoscript, Starts, Ends
  <2>4. ForTheHead => u = own
    BY DEF InHeadNoscript, Starts, Ends
  <2>5. (\/ Starts(t, {"head", "noscript"})
         \/ t.type = "EndTag" /\ t.tag \notin {"br", "noscript"}) => u = s
    BY DEF InHeadNoscript, Starts, Ends
  <2>6. ~ (\/ t.type = "Doctype" \/ Starts(t, {"html"}) \/ Ends(t, {"noscript"}) \/ ForTheHead
           \/ Starts(t, {"head", "noscript"})
           \/ t.type = "EndTag" /\ t.tag \notin {"br", "noscript"}) => u = Again(closed)
    BY DEF InHeadNoscript
  <2> HIDE DEF u, closed, own, ForTheHead
  <2> QED
    BY <2>1, <2>2, <2>3, <2>4, <2>5, <2>6
<1> HIDE DEF u
<1>3. /\ s.root # NoNode /\ s.head # NoNode /\ Len(s.open) = 3 /\ s.open[2] = s.head
      /\ Rec(s) /\ s.sound /\ Core(s)
  BY NoscriptFits
<1>4. Settled(closed)
  <2> DEFINE holds == CurrentIs(s, {"noscript"})
  <2>1. holds \in BOOLEAN
    BY DEF CurrentIs, IsHtml, IsElement
  <2>2. claimed = Claim(s, holds)
    OBVIOUS
  <2> HIDE DEF holds, claimed
  <2>3. Rec(claimed) /\ claimed.open = s.open /\ claimed.root = s.root /\ claimed.head = s.head
        /\ (claimed.sound => Core(claimed))
    <3>1. K(claimed, Around(s)) /\ Grown(s, claimed)
      BY <1>3, <2>1, <2>2, AroundK, ClaimK
    <3> QED
      BY <3>1 DEF K, Grown, Rest
  <2> QED
    BY <1>3, <2>3, NoscriptClosed DEF closed
<1>5. Settled(s) /\ Settled(StartHtml(s, t)) /\ Settled(Again(closed))
  BY <1>3, <1>4, PlainSettles, SettledStays
<1>6. u \in {s, StartHtml(s, t), closed, Again(closed)} => Settled(HtmlContent(s, t))
  <2> HIDE DEF closed
  <2> QED
    BY <1>1, <1>4, <1>5, SettledOwn DEF closed
<1>7. ForTheHead /\ u = own => Settled(HtmlContent(s, t))
  <2>1. ForTheHead => Settled(Chain(own, t))
    BY HeadHandsOn
  <2> QED
    BY <1>1, <2>1, OwnHandled
<1> QED
  BY <1>2, <1>6, <1>7

\* The text of an element, and its end.
LEMMA TextHandled ==
  ASSUME NEW s, Standing(s), s.mode = "Text", NEW t
  PROVE  Settled(HtmlContent(s, t))
<1> DEFINE p == Pop(s)
           closed == Go(p, s.original)
           k == Len(s.open) - 1
<1>1. OwnRules(s, t) \in {InsertText(s, t), closed, Again(closed)}
  BY DEF OwnRules, TextMode
<1>2. /\ Len(s.open) >= 1 /\ Fits(s.original, s.nodes, Popped(s.open), s.root, s.head)
      /\ Rec(s) /\ s.sound /\ Core(s)
  BY DEF Standing, Modal
<1>3. s.open \in Seq(DOMAIN s.nodes)
  BY <1>2 DEF Core, OpenOK
<1>4. /\ Popped(s.open) \in Seq(DOMAIN s.nodes) /\ Len(Popped(s.open)) = k /\ k \in Nat /\ k <= Len(s.open)
      /\ \A i \in 1 .. k : Popped(s.open)[i] = s.open[i]
  BY <1>2, <1>3, PoppedIs
<1>5. /\ Rec(p)
      /\ p.sound => /\ Core(p) /\ Len(p.open) = k /\ DOMAIN p.open = 1 .. k /\ \A i \in 1 .. k : p.open[i] = s.open[i]
                    /\ SameNames(s.nodes, p.nodes) /\ p.root = s.root /\ p.head = s.head
  <2>1. p = PopTo(s, k)
    BY DEF Pop
  <2> HIDE DEF p, k
  <2> QED
    BY <1>2, <1>4, <2>1, PopToLeaves
<1> HIDE DEF p
<1>6. /\ Rec(closed) /\ closed.sound = p.sound /\ closed.rules = p.rules /\ closed.bufferType = p.bufferType
      /\ closed.nodes = p.nodes /\ closed.root = p.root /\ closed.head = p.head /\ closed.open = p.open
      /\ closed.active = p.active /\ closed.form = p.form /\ closed.templateModes = p.templateModes
      /\ closed.mode = s.original
  BY <1>5 DEF Go, Rec, StateFields
<1> HIDE DEF closed, k
<1>7. ASSUME closed.sound PROVE Core(closed) /\ Modal(closed)
  <2>1. Core(closed)
    BY <1>5, <1>6, <1>7 DEF Core
  <2>2. closed.open = Popped(s.open)
    <3>1. p.open \in Seq(DOMAIN p.nodes)
      BY <1>5, <1>6, <1>7 DEF Core, OpenOK
    <3>2. Len(p.open) = Len(Popped(s.open)) /\ \A i \in 1 .. Len(p.open) : p.open[i] = Popped(s.open)[i]
      BY <1>4, <1>5, <1>6, <1>7
    <3> DEFINE v == Popped(s.open)
               S == DOMAIN s.nodes \union DOMAIN p.nodes
    <3>3. p.open \in Seq(S) /\ v \in Seq(S)
      <4>1. DOMAIN s.nodes \subseteq S /\ DOMAIN p.nodes \subseteq S
        OBVIOUS
      <4>2. \A T, x : T \subseteq S /\ x \in Seq(T) => x \in Seq(S)
        OBVIOUS
      <4> HIDE DEF S, v
      <4> QED
        BY <1>4, <3>1, <4>1, <4>2 DEF v
    <3> HIDE DEF S, v
    <3>4. p.open = v
      BY <3>2, <3>3, SeqEqual DEF v
    <3> QED
      BY <1>6, <3>4 DEF v
  <2>3. Fits(s.original, closed.nodes, closed.open, closed.root, closed.head)
    BY <1>2, <1>4, <1>5, <1>6, <1>7, <2>2, FitsGrows
  <2>4. s.original \notin {"Text", "InTableText"}
    BY <1>2, FittingModes
  <2> QED
    BY <1>6, <2>1, <2>3, <2>4 DEF Modal
<1>8. Settled(closed)
  BY <1>6, <1>7 DEF Settled
<1>9. Settled(InsertText(s, t)) /\ Settled(Again(closed))
  BY <1>8, PlainSettles, SettledStays
<1> QED
  BY <1>1, <1>8, <1>9, SettledOwn

-----------------------------------------------------------------------------
(* Frames for the modes above the head.                                    *)

\* A frame a handler may keep to, whatever it does above it.
Framed(s, F) ==
  /\ K(s, F) /\ Based(F) /\ Grounded(s, F) /\ F.root # NoNode
  /\ \A u : K(u, F) => Settled(u)

\* The frame of the modes for content lets a handler settle.
LEMMA StopsGrounds ==
  ASSUME NEW s, NEW F, K(s, F), F.stop
  PROVE  Grounded(s, F)
BY BaseFacts DEF Grounded

LEMMA ContentIsFramed ==
  ASSUME NEW s, Standing(s), s.root # NoNode, s.head # NoNode,
         Contained(s.mode, s.nodes, s.open, s.root, s.head)
  PROVE  \E F : ContentFrame(F) /\ K(s, F) /\ Framed(s, F)
<1>1. PICK F : /\ ContentFrame(F) /\ s.mode \in F.modes /\ (s.mode \in F.modes => K(s, F))
  BY ContentBegins DEF Standing
<1>2. Framed(s, F)
  BY <1>1, ContentFrameFacts, ContentSettles, StopsGrounds DEF Framed
<1> QED
  BY <1>1, <1>2

\* The text of a table: the frame of the mode it was met in, but for the mode.
LEMMA TableTextIsFramed ==
  ASSUME NEW s, Standing(s), s.mode = "InTableText"
  PROVE  \E F, G : /\ ContentFrame(F) /\ Framed(s, G)
                   /\ s.original \in F.modes
                   /\ G.root = F.root /\ G.head = F.head /\ G.base = F.base /\ G.original = F.original /\ G.stop
                   /\ G.modes = {"InTableText"}
<1>1. /\ Rec(s) /\ s.sound /\ Core(s) /\ s.root # NoNode /\ s.head # NoNode
      /\ Contained(s.original, s.nodes, s.open, s.root, s.head)
  BY DEF Standing, Modal
<1>2. PICK F : /\ ContentFrame(F) /\ F.root = s.root /\ F.head = s.head /\ F.original = s.original
               /\ s.original \in F.modes /\ Begins(s.open, F.base, F.head) /\ Stops(s.nodes, F.base)
  BY <1>1, ContentBegins
<1> DEFINE G == [modes |-> {"InTableText"}, base |-> F.base, stop |-> TRUE, root |-> F.root, head |-> F.head,
                 original |-> F.original]
<1>3. /\ G.modes = {"InTableText"} /\ G.base = F.base /\ G.stop /\ G.root = F.root /\ G.head = F.head
      /\ G.original = F.original
  OBVIOUS
<1> HIDE DEF G
<1>4. K(s, G)
  BY <1>1, <1>2, <1>3 DEF K, Held
<1>5. Based(G) /\ G.root # NoNode
  BY <1>2, <1>3, ContentFrameFacts DEF Based
<1>6. ASSUME NEW u, K(u, G) PROVE Settled(u)
  <2>1. Rec(u)
    BY <1>6 DEF K
  <2>2. ASSUME u.sound PROVE Core(u) /\ Modal(u)
    <3>1. /\ Core(u) /\ u.mode = "InTableText" /\ u.original = s.original /\ u.root = s.root /\ u.head = s.head
      BY <1>2, <1>3, <1>6, <2>2 DEF K, Held
    <3>2. s.original \in Allowed(G.base) /\ (G.base = <<G.root>> \/ \E n : G.base = <<G.root, G.head, n>>)
      BY <1>2, <1>3 DEF ContentFrame
    <3>3. Contained(s.original, u.nodes, u.open, u.root, u.head)
      BY <1>3, <1>6, <2>2, <3>2, ContentIsContained
    <3> QED
      BY <1>1, <3>1, <3>3 DEF Modal
  <2> QED
    BY <2>1, <2>2 DEF Settled
<1>7. Framed(s, G)
  BY <1>3, <1>4, <1>5, <1>6, StopsGrounds DEF Framed
<1> QED
  BY <1>2, <1>3, <1>7

\* Behind a frameset: the stack holds the root, and the head if a template left it there.
LEMMA LateIsFramed ==
  ASSUME NEW s, Standing(s), s.mode \in LateModes
  PROVE  \E F : Framed(s, F) /\ F.modes = LateModes
<1>1. /\ Rec(s) /\ s.sound /\ Core(s)
      /\ s.root # NoNode /\ s.head # NoNode /\ Len(s.open) >= 1 /\ \A i \in DOMAIN s.open : s.open[i] = s.head => i <= 2
  <2>1. s.mode \notin {"Text", "InTableText"}
    BY DEF LateModes
  <2>2. Fits(s.mode, s.nodes, s.open, s.root, s.head)
    BY <2>1 DEF Standing, Modal
  <2> QED
    BY <2>2 DEF Fits, LateModes, EarlyModes, Contained, Allowed, ContentModes, Standing
<1>2. /\ s.open[1] = s.root /\ Len(s.open) \in Nat /\ DOMAIN s.open = 1 .. Len(s.open)
      /\ s.root \in DOMAIN s.nodes /\ s.head \in DOMAIN s.nodes
      /\ s.nodes[s.root].tag = "html" /\ s.nodes[s.head].tag = "head" /\ s.nodes[s.root].ns = "html" /\ s.nodes[s.head].ns = "html"
  <2>1. Len(s.open) # 0
    BY <1>1
  <2> QED
    BY <1>1, <2>1, EmptyHasNoPlace, CoreIsRooted, StackFacts DEF Core, OpenOK, NodesOK
<1> DEFINE base == IF 2 \in DOMAIN s.open /\ s.open[2] = s.head THEN <<s.root, s.head>> ELSE <<s.root>>
<1>3. /\ Len(base) \in {1, 2} /\ Len(base) <= Len(s.open) /\ Len(base) \in DOMAIN s.open
      /\ \A i \in 1 .. Len(base) : s.open[i] = base[i]
      /\ \A i \in DOMAIN s.open : s.open[i] = s.head => i <= Len(base)
      /\ s.nodes[s.open[Len(base)]].ns = "html"
  <2>1. CASE 2 \in DOMAIN s.open /\ s.open[2] = s.head
    <3>1. Len(base) = 2 /\ base[1] = s.root /\ base[2] = s.head
      BY <2>1
    <3> HIDE DEF base
    <3> QED
      BY <1>1, <1>2, <2>1, <3>1
  <2>2. CASE ~ (2 \in DOMAIN s.open /\ s.open[2] = s.head)
    <3>1. Len(base) = 1 /\ base[1] = s.root
      BY <2>2
    <3> HIDE DEF base
    <3>2. ASSUME NEW i \in DOMAIN s.open, s.open[i] = s.head PROVE i <= 1
      <4>1. i <= 2 /\ i # 2 /\ i \in Nat
        BY <1>1, <1>2, <2>2, <3>2
      <4> QED
        BY <4>1
    <3> QED
      BY <1>1, <1>2, <3>1, <3>2
  <2> QED
    BY <2>1, <2>2
<1> HIDE DEF base
<1> DEFINE F == [modes |-> LateModes, base |-> base, stop |-> FALSE, root |-> s.root, head |-> s.head,
                 original |-> s.original]
<1>4. /\ F.modes = LateModes /\ F.base = base /\ ~ F.stop /\ F.root = s.root /\ F.head = s.head
      /\ F.original = s.original
  OBVIOUS
<1> HIDE DEF F
<1>5. K(s, F) /\ Based(F) /\ F.root # NoNode /\ Grounded(s, F)
  <2>1. Begins(s.open, F.base, F.head)
    BY <1>3, <1>4 DEF Begins
  <2> QED
    BY <1>1, <1>3, <1>4, <2>1 DEF K, Held, Based, Grounded
<1>6. ASSUME NEW u, K(u, F) PROVE Settled(u)
  <2>1. Rec(u)
    BY <1>6 DEF K
  <2>2. ASSUME u.sound PROVE Core(u) /\ Modal(u)
    <3>1. /\ Core(u) /\ u.mode \in LateModes /\ u.root = s.root /\ u.head = s.head
          /\ Begins(u.open, F.base, F.head) /\ Len(u.open) \in Nat /\ DOMAIN u.open = 1 .. Len(u.open)
      BY <1>4, <1>6, <2>2, HeldFacts
    <3>2. Len(u.open) >= 1 /\ \A i \in DOMAIN u.open : u.open[i] = u.head => i <= 2
      <4>1. Len(base) <= Len(u.open) /\ \A i \in DOMAIN u.open : u.open[i] = u.head => i <= Len(base)
        BY <1>4, <3>1 DEF Begins
      <4>2. Len(base) = 1 \/ Len(base) = 2
        BY <1>3
      <4>3. CASE Len(base) = 1
        BY <3>1, <4>1, <4>3
      <4>4. CASE Len(base) = 2
        BY <3>1, <4>1, <4>4
      <4> QED
        BY <4>2, <4>3, <4>4
    <3>3. Fits(u.mode, u.nodes, u.open, u.root, u.head)
      BY <1>1, <3>1, <3>2 DEF Fits
    <3>4. u.mode \notin {"Text", "InTableText"}
      BY <3>1 DEF LateModes
    <3> QED
      BY <3>1, <3>3, <3>4 DEF Modal
  <2> QED
    BY <2>1, <2>2 DEF Settled
<1> QED
  BY <1>4, <1>5, <1>6 DEF Framed

\* The text of a table, and what follows it.
LEMMA TableTextHandled ==
  ASSUME NEW s, Standing(s), s.mode = "InTableText", NEW t
  PROVE  Settled(HtmlContent(s, t))
<1> DEFINE blank == \A i \in DOMAIN s.buffer : s.buffer[i] \in Blank
           fostered == [s EXCEPT !.foster = TRUE]
           mid == IF blank THEN s ELSE Reconstruct(fostered)
           v == Flush(mid)
           w == [v EXCEPT !.foster = FALSE, !.mode = s.original]
<1>1. OwnRules(s, t) \in {InsertText(s, t), Again(w)}
  BY DEF OwnRules, InTableText
<1>2. PICK F, G : /\ ContentFrame(F) /\ Framed(s, G)
                  /\ s.original \in F.modes
                  /\ G.root = F.root /\ G.head = F.head /\ G.base = F.base /\ G.original = F.original /\ G.stop
                  /\ G.modes = {"InTableText"}
  BY TableTextIsFramed
<1>3. K(v, G)
  <2>1. K(s, G) /\ Based(G)
    BY <1>2 DEF Framed
  <2>2. K(fostered, G)
    BY <2>1, FosterK
  <2> HIDE DEF fostered, blank
  <2>3. K(mid, G)
    BY <2>1, <2>2, ReconstructK
  <2> HIDE DEF mid
  <2> QED
    BY <2>3, FlushK
<1> HIDE DEF v
<1>4. Rec(v)
  BY <1>3 DEF K
<1>5. /\ Rec(w) /\ w.sound = v.sound /\ w.rules = v.rules /\ w.bufferType = v.bufferType
      /\ w.nodes = v.nodes /\ w.root = v.root /\ w.head = v.head /\ w.open = v.open
      /\ w.active = v.active /\ w.form = v.form /\ w.templateModes = v.templateModes
      /\ w.mode = s.original /\ w.original = v.original
  BY <1>4 DEF Rec, StateFields
<1> HIDE DEF w
<1>6. ASSUME w.sound PROVE Core(w) /\ Held(w, F)
  <2>1. Core(v) /\ Held(v, G)
    BY <1>3, <1>5, <1>6 DEF K
  <2>2. Core(w)
    BY <1>5, <2>1 DEF Core
  <2>3. Held(w, F)
    BY <1>2, <1>5, <2>1 DEF Held
  <2> QED
    BY <2>2, <2>3
<1>7. K(w, F)
  BY <1>5, <1>6 DEF K
<1>8. Settled(Again(w))
  BY <1>2, <1>7, ContentSettles, SettledStays
<1>9. Settled(InsertText(s, t))
  BY PlainSettles
<1> QED
  BY <1>1, <1>8, <1>9, SettledOwn

\* Behind a frameset.
LEMMA LateHandled ==
  ASSUME NEW s, Standing(s), s.mode \in LateModes, NEW t
  PROVE  Settled(HtmlContent(s, t))
<1> DEFINE u == OwnRules(s, t)
           body == HandOn(s, "InBody")
           head == HandOn(s, "InHead")
           later == Go(s, "AfterAfterFrameset")
           holds == IsHtml(s, s.open[1], {"html"})
           ended == Claim(later, holds)
           ForTheBody == t.type \in {"Doctype", "Whitespace"} \/ Starts(t, {"html"})
<1>1. \/ u \in {s, InsertText(s, t), AppendComment(s, Current(s)), AppendComment(s, Document), StartHtml(s, t), ended}
      \/ ForTheBody /\ u = body
      \/ Starts(t, {"noframes"}) /\ u = head
  <2>1. CASE s.mode = "AfterFrameset"
    <3> DEFINE w == AfterFrameset(s, t)
    <3>1. u = w
      BY <2>1 DEF OwnRules
    <3>2. t.type = "Whitespace" => w = InsertText(s, t)
      BY DEF AfterFrameset, Starts, Ends
    <3>3. t.type = "Comment" => w = AppendComment(s, Current(s))
      BY DEF AfterFrameset, Starts, Ends
    <3>4. Starts(t, {"html"}) => w = StartHtml(s, t)
      BY DEF AfterFrameset, Starts, Ends
    <3>5. Ends(t, {"html"}) => w = ended
      BY DEF AfterFrameset, Starts, Ends
    <3>6. Starts(t, {"noframes"}) => w = head
      BY DEF AfterFrameset, Starts, Ends
    <3>7. ~ (\/ t.type = "Whitespace" \/ t.type = "Comment" \/ Starts(t, {"html"}) \/ Ends(t, {"html"})
             \/ Starts(t, {"noframes"})) => w = s
      BY DEF AfterFrameset
    <3> HIDE DEF u, w, ended, head, body
    <3> QED
      BY <3>1, <3>2, <3>3, <3>4, <3>5, <3>6, <3>7
  <2>2. CASE s.mode = "AfterAfterFrameset"
    <3> DEFINE w == AfterAfterFrameset(s, t)
    <3>1. u = w
      BY <2>2 DEF OwnRules
    <3>2. t.type = "Comment" => w = AppendComment(s, Document)
      BY DEF AfterAfterFrameset, Starts, Ends
    <3>3. ForTheBody => w = body
      BY DEF AfterAfterFrameset, Starts, Ends
    <3>4. Starts(t, {"noframes"}) => w = head
      BY DEF AfterAfterFrameset, Starts, Ends
    <3>5. ~ (t.type = "Comment" \/ ForTheBody \/ Starts(t, {"noframes"})) => w = s
      BY DEF AfterAfterFrameset
    <3> HIDE DEF u, w, ended, head, body, ForTheBody
    <3> QED
      BY <3>1, <3>2, <3>3, <3>4, <3>5
  <2> QED
    BY <2>1, <2>2 DEF LateModes
<1> HIDE DEF u
<1>2. PICK F : Framed(s, F) /\ F.modes = LateModes
  BY LateIsFramed
<1>3. /\ Settled(s) /\ Settled(InsertText(s, t)) /\ Settled(AppendComment(s, Current(s)))
      /\ Settled(AppendComment(s, Document)) /\ Settled(StartHtml(s, t))
  <2>1. s.root # NoNode
    BY <1>2 DEF Framed, K, Held, Standing
  <2> QED
    BY <2>1, PlainSettles
<1>4. Settled(ended)
  <2>1. K(later, F)
    <3>1. "AfterAfterFrameset" \in F.modes /\ K(s, F)
      BY <1>2 DEF LateModes, Framed
    <3> QED
      BY <3>1, GoK
  <2>2. holds \in BOOLEAN
    BY DEF IsHtml, IsElement
  <2> HIDE DEF holds, later
  <2>3. K(ended, F)
    BY <2>1, <2>2, ClaimK
  <2> QED
    BY <1>2, <2>3 DEF Framed
<1>5. ASSUME ForTheBody PROVE Settled(Chain(body, t))
  <2> DEFINE r == HandOn(body, "none")
             v == InBody(r, t)
  <2>1. Standing(r) /\ r.mode \in LateModes /\ body.rules = "InBody"
    BY HandedBack
  <2> HIDE DEF r
  <2>2. PICK H : Framed(r, H)
    BY <2>1, LateIsFramed
  <2>3. K(v, H)
    BY <1>5, <2>2, BodyPlainK DEF Framed
  <2>4. Settled(v) /\ v.rules = "none"
    BY <2>2, <2>3 DEF Framed, K, Rec
  <2> HIDE DEF v
  <2>5. Chain(body, t) = v
    BY <2>1, <2>4, ChainIs DEF v, r
  <2> QED
    BY <2>4, <2>5
<1>6. Starts(t, {"noframes"}) => Settled(Chain(head, t))
  BY HeadHandsOn
<1> HIDE DEF ended, body, head, ForTheBody
<1>7. CASE u \in {s, InsertText(s, t), AppendComment(s, Current(s)), AppendComment(s, Document), StartHtml(s, t), ended}
  <2>1. Settled(u)
    BY <1>3, <1>4, <1>7
  <2> QED
    BY <2>1, SettledOwn DEF u
<1>8. CASE (ForTheBody /\ u = body) \/ (Starts(t, {"noframes"}) /\ u = head)
  <2>1. Settled(Chain(u, t))
    BY <1>5, <1>6, <1>8
  <2> QED
    BY <2>1, OwnHandled DEF u
<1> QED
  BY <1>1, <1>7, <1>8

\* The modes there are.
LEMMA StandingModes ==
  ASSUME NEW s, Standing(s)
  PROVE  \/ s.mode \in EarlyModes \/ s.mode \in {"BeforeHead", "InHead", "InHeadNoscript", "Text", "InTableText"}
         \/ s.mode \in LateModes
         \/ s.root # NoNode /\ s.head # NoNode /\ Contained(s.mode, s.nodes, s.open, s.root, s.head)
<1>1. CASE s.mode \in {"Text", "InTableText"}
  BY <1>1
<1>2. CASE s.mode \notin {"Text", "InTableText"}
  <2>1. Fits(s.mode, s.nodes, s.open, s.root, s.head)
    BY <1>2 DEF Standing, Modal
  <2> QED
    BY <2>1 DEF Fits
<1> QED
  BY <1>1, <1>2

LEMMA HtmlHandled ==
  ASSUME NEW s, Standing(s), NEW t, DOMAIN t = TokenFields, t.type \in TokenTypes
  PROVE  Settled(HtmlContent(s, t))
<1>1. CASE s.mode = "Initial"
  <2>1. OwnRules(s, t) = Initial(s, t)
    BY <1>1 DEF OwnRules
  <2> QED
    BY <1>1, <2>1, InitialSettles, SettledOwn
<1>2. CASE s.mode = "BeforeHtml"
  <2>1. OwnRules(s, t) = BeforeHtml(s, t)
    BY <1>2 DEF OwnRules
  <2> QED
    BY <1>2, <2>1, BeforeHtmlSettles, SettledOwn
<1>3. CASE s.mode = "BeforeHead"
  <2>1. OwnRules(s, t) = BeforeHead(s, t)
    BY <1>3 DEF OwnRules
  <2> QED
    BY <1>3, <2>1, BeforeHeadSettles, SettledOwn
<1>4. CASE s.root # NoNode /\ s.head # NoNode /\ Contained(s.mode, s.nodes, s.open, s.root, s.head)
  <2>1. PICK F : ContentFrame(F) /\ K(s, F)
    BY <1>4, ContentIsFramed
  <2>2. s.sound
    BY DEF Standing
  <2> QED
    BY <2>1, <2>2, ContentHandled
<1>5. CASE s.mode \in LateModes
  BY <1>5, LateHandled
<1>6. CASE s.mode \in {"InHead", "InHeadNoscript", "Text", "InTableText"}
  BY <1>6, HeadHandled, NoscriptHandled, TextHandled, TableTextHandled
<1> QED
  BY <1>1, <1>2, <1>3, <1>4, <1>5, <1>6, StandingModes DEF EarlyModes

-----------------------------------------------------------------------------
(* Foreign content.                                                        *)

\* The current node is an html element in the modes up to the head and in the text of an element.
LEMMA ForeignIsFramed ==
  ASSUME NEW s, Standing(s), s.open # <<>>, IsForeign(s, Current(s))
  PROVE  \E F : Framed(s, F)
<1>1. /\ Core(s) /\ s.rules = "none"
      /\ Len(s.open) \in Nat /\ Len(s.open) # 0 /\ DOMAIN s.open = 1 .. Len(s.open)
      /\ Current(s) = s.open[Len(s.open)]
  BY CoreIsRooted, StackFacts DEF Standing, Core, Current, Top
<1>2. s.nodes[s.open[Len(s.open)]].ns # "html"
  BY <1>1 DEF IsForeign
<1>3. s.mode \notin EarlyModes
  BY EarlyFits
<1>4. s.mode # "BeforeHead"
  <2> SUFFICES ASSUME s.mode = "BeforeHead" PROVE FALSE
    OBVIOUS
  <2>1. s.root # NoNode /\ Len(s.open) = 1
    BY BeforeHeadFits
  <2>2. s.open[1] = s.root /\ s.nodes[s.root].ns = "html"
    BY <1>1, <2>1 DEF Core, OpenOK, NodesOK
  <2> QED
    BY <1>2, <2>1, <2>2
<1>5. s.mode # "InHead"
  <2> SUFFICES ASSUME s.mode = "InHead" PROVE FALSE
    OBVIOUS
  <2>1. s.head # NoNode /\ Len(s.open) = 2 /\ s.open[2] = s.head
    BY InHeadFits
  <2>2. s.nodes[s.head].ns = "html"
    BY <1>1, <2>1 DEF Core, NodesOK
  <2> QED
    BY <1>2, <2>1, <2>2
<1>6. s.mode # "InHeadNoscript"
  <2> SUFFICES ASSUME s.mode = "InHeadNoscript" PROVE FALSE
    OBVIOUS
  <2>1. Len(s.open) = 3 /\ Fits("InHeadNoscript", s.nodes, s.open, s.root, s.head)
    BY NoscriptFits
  <2>2. Plain(s.nodes, s.open[3])
    BY <2>1 DEF Fits, EarlyModes, LateModes, Contained, Allowed, ContentModes
  <2> QED
    BY <1>2, <2>1, <2>2 DEF Plain
<1>7. s.mode # "Text"
  <2> SUFFICES ASSUME s.mode = "Text" PROVE FALSE
    OBVIOUS
  <2>1. Plain(s.nodes, s.open[Len(s.open)])
    BY DEF Standing, Modal
  <2> QED
    BY <1>2, <2>1 DEF Plain
<1>8. s.mode = "InTableText" => \E F : Framed(s, F)
  BY TableTextIsFramed
<1>9. s.mode \in LateModes => \E F : Framed(s, F)
  BY LateIsFramed
<1>10. s.root # NoNode /\ s.head # NoNode /\ Contained(s.mode, s.nodes, s.open, s.root, s.head) => \E F : Framed(s, F)
  BY ContentIsFramed
<1> QED
  BY <1>3, <1>4, <1>5, <1>6, <1>7, <1>8, <1>9, <1>10, StandingModes

\* A foreign element named html is none of the pages the invariant is about.
LEMMA ForeignHtmlSettles ==
  ASSUME NEW s, Standing(s), s.open # <<>>, NEW v, NEW t, NEW ns, NewOnStack(s, v, "html", ns), ns # "html"
  PROVE  Settled(EndAtOnce(v, t))
<1> DEFINE n == Len(v.nodes)
           p == Pop(v)
<1>1. Rec(v)
  BY DEF NewOnStack, Rest
<1>2. ASSUME v.sound
      PROVE  /\ n \in DOMAIN v.nodes /\ v.nodes[n].tag = "html" /\ v.nodes[n].ns # "html"
             /\ Rooted(v) /\ v.bufferType \in Texts
  <2>1. Core(s) /\ Rooted(s)
    BY CoreIsRooted DEF Standing
  <2>2. OnTop(s, v, n, "html", ns)
    BY <1>2, <2>1, NewOnTop
  <2>3. /\ Sound(v.nodes) /\ SameNames(s.nodes, v.nodes) /\ v.bufferType \in Texts
    BY <1>2 DEF NewOnStack
  <2>4. /\ Document \in DOMAIN s.nodes /\ s.nodes[Document].tag = NoTag /\ 1 \in DOMAIN s.open
        /\ s.nodes[s.open[1]].tag = "html" /\ s.open[1] \in DOMAIN s.nodes
    BY <2>1, StackFacts DEF Rooted
  <2> HIDE DEF n
  <2>5. /\ v.open \in Seq(DOMAIN v.nodes) /\ v.open[1] = s.open[1]
        /\ n \in DOMAIN v.nodes /\ v.nodes[n].tag = "html" /\ v.nodes[n].ns # "html"
    BY <2>2, <2>4 DEF OnTop
  <2>6. Document \in DOMAIN v.nodes /\ v.nodes[Document].tag = NoTag /\ v.nodes[s.open[1]].tag = "html"
    BY <2>3, <2>4 DEF SameNames
  <2>7. Rooted(v)
    BY <2>3, <2>5, <2>6 DEF Rooted
  <2> QED
    BY <2>3, <2>5, <2>7 DEF n
<1> HIDE DEF n
<1>3. v.sound => ~ Usual(v.nodes)
  BY <1>2 DEF Usual
<1>4. Rec(p) /\ (p.sound => v.sound /\ SameNames(v.nodes, p.nodes))
  <2>1. Len(v.open) - 1 \in Int
    BY <1>1, VectorIs DEF Rec
  <2>2. Popping(v, p, Len(v.open) - 1)
    BY <1>1, <1>2, <2>1, PopToIs DEF Pop
  <2> HIDE DEF p
  <2> QED
    BY <2>2 DEF Popping, Rest
<1> HIDE DEF p
<1>5. p.sound => ~ Usual(p.nodes)
  <2> SUFFICES ASSUME p.sound PROVE ~ Usual(p.nodes)
    OBVIOUS
  <2>1. n \in DOMAIN p.nodes /\ p.nodes[n].tag = "html" /\ p.nodes[n].ns # "html"
    BY <1>2, <1>4 DEF SameNames
  <2> QED
    BY <2>1 DEF Usual
<1>6. Settled(v) /\ Settled(p)
  BY <1>1, <1>3, <1>4, <1>5 DEF Settled
<1> QED
  BY <1>6 DEF EndAtOnce, p

LEMMA ForeignHandled ==
  ASSUME NEW s, Standing(s), NEW t, t.type \in TokenTypes, ~ TakesHtml(s, t)
  PROVE  Settled(ForeignContent(s, t))
<1> DEFINE u == ForeignContent(s, t)
           ns == s.nodes[Current(s)].ns
           v == InsertForeign(s, t, ns)
           begun == EndAtOnce(v, t)
           out == Again(PopForeign(s))
           ended == PopTo(s, ForeignPlace(s, t) - 1)
<1>1. \/ u \in {InsertText(s, t), NoFrameset(InsertText(s, t)), AppendComment(s, Current(s)), s, out}
      \/ t.tag # "head" /\ u = begun
      \/ t.type = "EndTag" /\ u = ended
  <2>1. t.type = "Whitespace" => u = InsertText(s, t)
    BY DEF ForeignContent, BreaksOut, Starts
  <2>2. t.type \in {"Character", "CData"} => u = NoFrameset(InsertText(s, t))
    BY DEF ForeignContent, BreaksOut, Starts
  <2>3. t.type = "Comment" => u = AppendComment(s, Current(s))
    BY DEF ForeignContent, BreaksOut, Starts
  <2>4. t.type = "Doctype" => u = s
    BY DEF ForeignContent, BreaksOut, Starts
  <2>5. BreaksOut(t) => u = out /\ t.type = "StartTag"
    <3>1. BreaksOut(t) => t.type = "StartTag"
      BY DEF BreaksOut, Starts
    <3> HIDE DEF out
    <3> QED
      BY <3>1 DEF ForeignContent, out
  <2>6. t.type = "StartTag" /\ ~ BreaksOut(t) => u = begun /\ t.tag # "head"
    <3>1. t.type = "StartTag" /\ t.tag = "head" => BreaksOut(t)
      BY DEF BreaksOut, Starts, BreakoutTags
    <3> HIDE DEF begun
    <3> QED
      BY <3>1 DEF ForeignContent, begun
  <2>7. t.type = "EndTag" => u = ended
    <3>1. t.type = "EndTag" => ~ BreaksOut(t)
      BY DEF BreaksOut, Starts
    <3> QED
      BY <3>1 DEF ForeignContent
  <2>8. t.type # "Eof"
    BY DEF TakesHtml
  <2> HIDE DEF u, begun, out, ended
  <2> QED
    BY <2>1, <2>2, <2>3, <2>4, <2>5, <2>6, <2>7, <2>8 DEF TokenTypes
<1>2. /\ s.open # <<>> /\ IsForeign(s, Current(s)) /\ (t.type = "EndTag" => ForeignPlace(s, t) # 0)
  BY DEF TakesHtml
<1> HIDE DEF u
<1>3. PICK F : Framed(s, F)
  BY <1>2, ForeignIsFramed
<1>4. K(s, F) /\ Based(F) /\ Grounded(s, F) /\ \A w : K(w, F) => Settled(w)
  BY <1>3 DEF Framed
<1>5. /\ Settled(s) /\ Settled(InsertText(s, t)) /\ Settled(NoFrameset(InsertText(s, t)))
      /\ Settled(AppendComment(s, Current(s)))
  BY PlainSettles, SettledStays
<1>6. Settled(out)
  <2>1. K(PopForeign(s), F)
    BY <1>2, <1>4, PopForeignK
  <2> QED
    BY <1>4, <2>1, SettledStays
<1>7. t.type = "EndTag" => Settled(ended)
  <2> SUFFICES ASSUME t.type = "EndTag" PROVE Settled(ended)
    OBVIOUS
  <2>1. K(ended, F)
    BY <1>2, <1>4, PopForeignEndK
  <2> QED
    BY <1>4, <2>1
<1>8. t.tag # "head" => Settled(begun)
  <2> SUFFICES ASSUME t.tag # "head" PROVE Settled(begun)
    OBVIOUS
  <2>1. ns # "html"
    BY <1>2 DEF IsForeign
  <2> HIDE DEF ns
  <2>2. CASE t.tag = "html"
    <3>1. NewOnStack(s, v, "html", ns)
      BY <1>4, <2>2, InsertForeignOpens
    <3> HIDE DEF v
    <3> QED
      BY <1>2, <2>1, <3>1, ForeignHtmlSettles
  <2>3. CASE t.tag # "html"
    <3>1. K(v, F) /\ NewOnStack(s, v, t.tag, ns)
      BY <1>4, <2>1, <2>3, InsertForeignK
    <3> HIDE DEF v
    <3>2. K(begun, F)
      BY <1>4, <3>1, EndAtOnceK
    <3> QED
      BY <1>4, <3>2
  <2> QED
    BY <2>2, <2>3
<1> HIDE DEF begun, out, ended
<1>9. Settled(u)
  BY <1>1, <1>5, <1>6, <1>7, <1>8
<1> QED
  BY <1>9 DEF u

-----------------------------------------------------------------------------
(* A token.                                                                *)

\* A token changes nothing about a state but what its handler does.
LEMMA AlikeStands ==
  ASSUME NEW s, Standing(s), NEW u, Alike(s, u), u.sound = s.sound
  PROVE  Standing(u)
<1>1. Core(s) /\ Modal(s) /\ s.sound
  BY DEF Standing
<1>2. Core(u)
  BY <1>1 DEF Core, Alike, Rest
<1>3. Modal(u)
  BY <1>1 DEF Modal, Alike, Rest
<1> QED
  BY <1>1, <1>2, <1>3 DEF Standing, Alike, Rest

LEMMA TokenHandled ==
  ASSUME NEW s, Standing(s), NEW t, DOMAIN t = TokenFields, t.type \in TokenTypes
  PROVE  Settled(HandleToken(s, t))
<1> DEFINE read == [s EXCEPT !.skipLinefeed = FALSE]
<1>1. HandleToken(s, t) \in {read, HtmlContent(read, t), ForeignContent(read, t)}
      /\ (TakesHtml(read, t) => HandleToken(s, t) \in {read, HtmlContent(read, t)})
  BY DEF HandleToken
<1>2. Alike(s, read) /\ read.sound = s.sound
  BY DEF Alike, Rest, Rec, StateFields, Standing
<1> HIDE DEF read
<1>3. Standing(read)
  BY <1>2, AlikeStands
<1>4. Settled(read)
  BY <1>3 DEF Standing, Settled
<1>5. Settled(HtmlContent(read, t))
  BY <1>3, HtmlHandled
<1>6. ~ TakesHtml(read, t) => Settled(ForeignContent(read, t))
  BY <1>3, ForeignHandled
<1> QED
  BY <1>1, <1>4, <1>5, <1>6

-----------------------------------------------------------------------------
(* The loop.                                                               *)

\* An element of foreign content is named html: get_appropriate_insertion_mode takes it for the root.
ForeignHtml == \E n \in DOMAIN Nodes : Nodes[n].tag = "html" /\ Nodes[n].ns # "html"

\* No body has been thrown away for a frameset, and no foreign element is named html.
Ordinary == ~ ForeignHtml /\ ~ ThrownAway

IsToken(t) == DOMAIN t = TokenFields /\ t.type \in TokenTypes

\* What is true of the state between two turns.
ParserInv ==
  /\ shape \in Shapes
  /\ Rec(parser) /\ Core(parser)
  /\ ~ finished => Modal(parser)
  /\ ~ finished /\ parser.reprocess => IsToken(token)

LEMMA DocumentIsSound ==
  /\ NodesOK(NewDocument, NoNode, NoNode) /\ DOMAIN NewDocument = {1} /\ NewDocument[1].tag = NoTag
<1> DEFINE node == NewNode("document")
<1>1. Fresh(node) /\ node.type = "document" /\ node.tag = NoTag
  BY NewNodeIsFresh
<1>2. node.parent = NoNode /\ node.children = <<>> /\ node.index = -1
  BY DEF NewNode
<1>3. NewDocument = <<node>>
  BY DEF NewDocument
<1> HIDE DEF node
<1> DEFINE nodes == <<node>>
<1>4. DOMAIN nodes = {1} /\ nodes[1] = node /\ nodes \in Seq({node})
  <2>1. DOMAIN nodes = 1 .. 1 /\ nodes[1] = node
    OBVIOUS
  <2>2. 1 .. 1 = {1}
    OBVIOUS
  <2>3. nodes \in Seq({node})
    OBVIOUS
  <2> QED
    BY <2>1, <2>2, <2>3
<1> HIDE DEF nodes
<1>5. Typed(nodes)
  <2>1. Node(nodes, 1)
    <3>1. <<>> \in Seq(DOMAIN nodes) /\ -1 \in Int
      OBVIOUS
    <3> QED
      BY <1>1, <1>2, <1>4, <3>1 DEF Node, Fresh
  <2> QED
    BY <1>4, <2>1 DEF Typed
<1>6. Sound(nodes)
  <2>1. ChildrenPointUp(nodes)
    BY <1>2, <1>4 DEF ChildrenPointUp
  <2>2. ParentsPointDown(nodes)
    BY <1>2, <1>4 DEF ParentsPointDown
  <2> QED
    BY <1>5, <2>1, <2>2 DEF Sound
<1>7. NodesOK(nodes, NoNode, NoNode)
  BY <1>1, <1>4, <1>6, NoTagFacts DEF NodesOK, Document
<1> QED
  BY <1>1, <1>3, <1>4, <1>7 DEF nodes

\* The state in which gumbo_parse_with_options begins.
LEMMA BeginsStanding == Standing(InitialState) /\ ~ InitialState.reprocess
<1> DEFINE s == InitialState
<1>1. /\ DOMAIN s = StateFields /\ s.nodes = NewDocument /\ s.root = NoNode /\ s.mode = "Initial"
      /\ s.templateModes = <<>> /\ s.open = <<>> /\ s.active = <<>> /\ s.head = NoNode /\ s.form = NoNode
      /\ s.bufferType = "whitespace" /\ s.rules = "none" /\ s.sound = TRUE /\ s.reprocess = FALSE
  BY DEF InitialState, StateFields
<1> HIDE DEF s
<1>2. Vector(s.open) /\ Vector(s.active)
  <2>1. <<>> \in Seq({})
    OBVIOUS
  <2> QED
    BY <1>1, <2>1 DEF Vector
<1>3. NodesOK(s.nodes, s.root, s.head) /\ DOMAIN s.nodes = {1} /\ s.nodes[1].tag = NoTag
  BY <1>1, DocumentIsSound
<1>4. OpenOK(s.nodes, s.open, s.root) /\ ActiveOK(s.nodes, s.active) /\ FormOK(s.nodes, s.form)
  <2>1. DOMAIN s.active = {} /\ s.active \in Seq(DOMAIN s.nodes \union {Marker}) /\ DOMAIN s.open = {}
        /\ s.open \in Seq(DOMAIN s.nodes)
    BY <1>1
  <2> QED
    BY <1>1, <2>1 DEF OpenOK, ActiveOK, Noah, FormOK
<1>9. Segmented(s.open, s.active)
  <2>1. DOMAIN s.active = {}
    BY <1>1
  <2> QED
    BY <2>1 DEF Segmented
<1>5. TemplatesOK(s.nodes, s.open, s.templateModes)
  <2>1. TemplatesIn(s.nodes, s.open) = {}
    BY <1>3, NoTagFacts DEF TemplatesIn, Fixed
  <2>2. Cardinality(TemplatesIn(s.nodes, s.open)) = 0
    BY <2>1, FS_EmptySet
  <2>3. s.templateModes \in Seq(ContentModes)
    BY <1>1
  <2>4. Len(s.templateModes) = 0
    BY <1>1
  <2>5. Cardinality(TemplatesIn(s.nodes, s.open)) <= Len(s.templateModes)
    BY <2>2, <2>4
  <2> QED
    BY <2>3, <2>5 DEF TemplatesOK
<1>6. Core(s)
  BY <1>1, <1>3, <1>4, <1>5, <1>9 DEF Core, Texts
<1>7. Modal(s)
  BY <1>1 DEF Modal, Fits, EarlyModes
<1> QED
  BY <1>1, <1>2, <1>6, <1>7 DEF Standing, Rec, s

\* Every turn of the loop.
LEMMA TurnKeeps == ParserInv /\ AssertionsHold /\ AssertionsHold' /\ Ordinary' /\ Next => ParserInv'
<1> SUFFICES ASSUME ParserInv, AssertionsHold, AssertionsHold', Ordinary', Next PROVE ParserInv'
  OBVIOUS
<1>1. Usual(parser'.nodes)
  BY DEF Ordinary, ForeignHtml, ThrownAway, Live, Nodes, Usual
<1>2. parser.sound /\ parser'.sound /\ Rec(parser) /\ Core(parser) /\ shape \in Shapes
  BY DEF AssertionsHold, ParserInv
<1>3. CASE ParseToken
  <2>1. ~ finished /\ finished' = finished /\ shape' = shape /\ parser' = HandleToken(Ready, token')
    BY <1>3 DEF ParseToken, Turns
  <2>2. IsToken(token')
    <3>1. CASE parser.reprocess /\ UNCHANGED <<token, fed>>
      BY <2>1, <3>1 DEF ParserInv
    <3>2. CASE token' \in NextTokens
      <4>1. IsToken(Eof)
        BY DEF IsToken, Eof, TokenFields, TokenTypes
      <4>2. token' \in NextTokens => token' = Eof \/ (fed + 1 \in DOMAIN shape /\ token' \in shape[fed + 1])
        BY DEF NextTokens
      <4> QED
        BY <1>2, <3>2, <4>1, <4>2, ShapesAssumption DEF IsToken
    <3> QED
      BY <1>3, <3>1, <3>2 DEF ParseToken, TakeToken
  <2>3. Standing(parser)
    BY <1>2, <2>1 DEF ParserInv, Standing
  <2> DEFINE s == Ready
             t == token'
  <2>4. Standing(s)
    <3>1. Alike(parser, s) /\ s.sound = parser.sound
      BY <1>2 DEF Ready, Alike, Rest, Rec, StateFields
    <3> HIDE DEF s
    <3> QED
      BY <2>3, <3>1, AlikeStands
  <2> HIDE DEF s, t
  <2>5. Settled(HandleToken(s, t))
    BY <2>2, <2>4, TokenHandled DEF IsToken, t
  <2>6. Settled(parser')
    BY <2>1, <2>5 DEF s, t
  <2>7. Rec(parser') /\ Core(parser') /\ Modal(parser')
    BY <1>1, <1>2, <2>6 DEF Settled
  <2> QED
    BY <1>2, <2>1, <2>2, <2>7 DEF ParserInv
<1>4. CASE FinishParsing
  <2>1. finished' = TRUE /\ shape' = shape /\ parser' = PopTo(Flush(parser), 0)
    BY <1>4 DEF FinishParsing
  <2> DEFINE s == parser
             v == Flush(s)
             u == PopTo(v, 0)
  <2>2. Rec(s) /\ Core(s)
    BY <1>2
  <2> HIDE DEF s
  <2>3. K(s, Around(s))
    BY <2>2, AroundK
  <2>4. K(v, Around(s))
    BY <2>3, FlushK
  <2> HIDE DEF v
  <2>5. Rec(v) /\ (v.sound => Core(v))
    BY <2>4 DEF K
  <2>6. v.sound => 0 <= Len(v.open)
    BY <2>5, VectorIs DEF Rec
  <2>7. Rec(u) /\ (u.sound => Core(u))
    <3>1. 0 \in Nat
      OBVIOUS
    <3> QED
      BY <2>5, <2>6, <3>1, PopToLeaves
  <2> HIDE DEF u
  <2>8. parser' = u
    BY <2>1 DEF u, v, s
  <2> QED
    BY <1>2, <2>1, <2>7, <2>8 DEF ParserInv
<1> QED
  BY <1>3, <1>4 DEF Next

\* Between two turns the state is right, on a page of any length, as long as no assertion has
\* failed and the page is an ordinary one (gumbo_parse_with_options; no fairness is needed).
THEOREM ParserIsSound ==
  Init /\ [][Next]_vars /\ [](AssertionsHold /\ Ordinary) => []ParserInv
<1>1. Init => ParserInv
  BY BeginsStanding DEF Init, ParserInv, Standing
<1>2. ParserInv /\ AssertionsHold /\ AssertionsHold' /\ Ordinary' /\ [Next]_vars => ParserInv'
  <2>1. ParserInv /\ UNCHANGED vars => ParserInv'
    BY DEF ParserInv, vars
  <2> QED
    BY <2>1, TurnKeeps
<1> QED
  BY <1>1, <1>2, PTL

\* The two sides of every link agree.
LEMMA SoundLinksAgree == ParserInv /\ Ordinary => LinksAgree
<1> SUFFICES ASSUME ParserInv, Ordinary PROVE LinksAgree
  OBVIOUS
<1>1. Live = DOMAIN Nodes
  BY DEF Ordinary, ThrownAway
<1>2. Typed(Nodes) /\ ChildrenPointUp(Nodes) /\ ParentsPointDown(Nodes)
  BY DEF ParserInv, Core, NodesOK, Sound, Nodes
<1> DEFINE nodes == Nodes
<1>3. ASSUME NEW p \in Live, NEW i \in DOMAIN Kids(p)
      PROVE  LET n == Kids(p)[i]
             IN  /\ n \in Live /\ Nodes[n].parent = p
                 /\ Nodes[n].index = i - 1 \/ (p = parser.root /\ ThrownAway)
                 /\ \A j \in DOMAIN Kids(p) : Kids(p)[j] = n => i = j
  <2> DEFINE kids == nodes[p].children
  <2>1. Kids(p) = kids
    BY DEF Kids
  <2>2. p \in DOMAIN nodes
    BY <1>1, <1>3
  <2>3. kids \in Seq(DOMAIN nodes)
    <3>1. Node(nodes, p)
      BY <1>2, <2>2 DEF Typed
    <3> HIDE DEF nodes
    <3> QED
      BY <3>1 DEF Node
  <2>4. \A j \in DOMAIN kids : nodes[kids[j]].parent = p /\ nodes[kids[j]].index = j - 1
    BY <1>2, <2>2 DEF ChildrenPointUp
  <2> HIDE DEF nodes, kids
  <2>5. DOMAIN kids = 1 .. Len(kids) /\ Len(kids) \in Nat /\ \A j \in DOMAIN kids : kids[j] \in DOMAIN nodes
    BY <2>3, VectorFacts
  <2>6. i \in DOMAIN kids
    BY <1>3, <2>1
  <2>7. \A j \in DOMAIN kids : kids[j] = kids[i] => i = j
    BY <2>4, <2>5, <2>6
  <2>8. kids[i] \in DOMAIN nodes /\ nodes[kids[i]].parent = p /\ nodes[kids[i]].index = i - 1
    BY <2>4, <2>5, <2>6
  <2> QED
    BY <1>1, <2>1, <2>7, <2>8 DEF nodes
<1>4. ASSUME NEW n \in Live, Nodes[n].parent # NoNode
      PROVE  Nodes[n].parent \in Live /\ In(Kids(Nodes[n].parent), n)
  <2>1. n \in DOMAIN nodes
    BY <1>1
  <2>2. nodes[n].parent \in DOMAIN nodes \union {NoNode}
    <3>1. Node(nodes, n)
      BY <1>2, <2>1 DEF Typed
    <3> HIDE DEF nodes
    <3> QED
      BY <3>1 DEF Node
  <2>3. /\ nodes[n].index + 1 \in DOMAIN nodes[nodes[n].parent].children
        /\ nodes[nodes[n].parent].children[nodes[n].index + 1] = n
    BY <1>2, <1>4, <2>1 DEF ParentsPointDown
  <2> QED
    BY <1>1, <1>4, <2>2, <2>3 DEF In, Kids
<1> QED
  BY <1>3, <1>4 DEF LinksAgree

\* A node is a child of its parent and of no other node, once, at the place its index says, after
\* every token (append_node, insert_node, remove_from_parent, the adoption agency).
THEOREM LinksAlwaysAgree ==
  Init /\ [][Next]_vars /\ [](AssertionsHold /\ Ordinary) => []LinksAgree
BY ParserIsSound, SoundLinksAgree, PTL

\* A set in which of any four elements two are the same.
LEMMA AtMostThree ==
  ASSUME NEW S, IsFiniteSet(S), \A a, b, c, d \in S : a = b \/ a = c \/ a = d \/ b = c \/ b = d \/ c = d
  PROVE  Cardinality(S) <= 3
<1>1. ASSUME NEW T, IsFiniteSet(T), NEW n \in Nat, \A a \in T : Cardinality(T \ {a}) <= n
      PROVE  Cardinality(T) <= n + 1
  <2>1. CASE T = {}
    BY <2>1, FS_EmptySet
  <2>2. CASE T # {}
    <3>1. PICK a \in T : TRUE
      BY <2>2
    <3>2. Cardinality(T) \in Nat /\ Cardinality(T \ {a}) = Cardinality(T) - 1
      BY <1>1, FS_RemoveElement, FS_CardinalityType
    <3>3. Cardinality(T \ {a}) <= n
      BY <1>1
    <3> QED
      BY <3>2, <3>3
  <2> QED
    BY <2>1, <2>2
<1>2. \A T \in SUBSET S : IsFiniteSet(T)
  BY FS_Subset
<1>3. ASSUME NEW a \in S PROVE Cardinality(S \ {a}) <= 2
  <2> DEFINE A == S \ {a}
  <2>1. ASSUME NEW b \in A PROVE Cardinality(A \ {b}) <= 1
    <3> DEFINE B == A \ {b}
    <3>1. ASSUME NEW c \in B PROVE Cardinality(B \ {c}) <= 0
      <4>1. B \ {c} = {}
        OBVIOUS
      <4> HIDE DEF B
      <4> QED
        BY <4>1, FS_EmptySet
    <3>2. IsFiniteSet(B)
      BY <1>2
    <3> HIDE DEF B
    <3>3. Cardinality(B) <= 0 + 1
      BY <1>1, <3>1, <3>2
    <3> QED
      BY <3>3 DEF B
  <2>2. IsFiniteSet(A)
    BY <1>2
  <2> HIDE DEF A
  <2>3. Cardinality(A) <= 1 + 1
    BY <1>1, <2>1, <2>2
  <2> QED
    BY <2>3 DEF A
<1>4. Cardinality(S) <= 2 + 1
  BY <1>1, <1>3
<1> QED
  BY <1>4

\* Behind the last marker there are at most three of a kind.
LEMMA NoahsArk ==
  ASSUME NEW s, ActiveOK(s.nodes, s.active), NEW i \in AfterMarker(s)
  PROVE  Cardinality({j \in AfterMarker(s) : Identical(s, s.active[i], s.active[j])}) <= 3
<1> DEFINE M == {k \in DOMAIN s.active : s.active[k] = Marker}
           marker == Greatest(M)
           same == {j \in AfterMarker(s) : Identical(s, s.active[i], s.active[j])}
<1>1. Len(s.active) \in Nat /\ DOMAIN s.active = 1 .. Len(s.active)
  BY LenProperties DEF ActiveOK
<1>2. /\ marker \in 0 .. Len(s.active) /\ M \subseteq DOMAIN s.active
      /\ \A k \in M : k <= marker
  BY <1>1, GreatestIs
<1>3. AfterMarker(s) = (marker + 1) .. Len(s.active)
  BY DEF AfterMarker
<1>4. \A k \in DOMAIN s.active : s.active[k] = Marker <=> k \in M
  OBVIOUS
<1> HIDE DEF M, marker
<1>5. \A j \in AfterMarker(s) : j \in DOMAIN s.active /\ j \notin M /\ \A k \in M : k < j
  BY <1>1, <1>2, <1>3
<1>6. ASSUME NEW a \in same, NEW b \in same
      PROVE  a \in DOMAIN s.active /\ Shipmates(s.nodes, s.active, a, b)
  <2>1. Identical(s, s.active[i], s.active[a]) /\ Identical(s, s.active[i], s.active[b])
    OBVIOUS
  <2>2. a \in AfterMarker(s) /\ b \in AfterMarker(s)
    OBVIOUS
  <2> HIDE DEF same
  <2>3. Twins(s.nodes, s.active[a], s.active[b])
    BY <2>1 DEF Identical, Twins
  <2>4. /\ a \in DOMAIN s.active /\ s.active[a] # Marker /\ s.active[b] # Marker
        /\ \A k \in DOMAIN s.active : s.active[k] = Marker => k < a /\ k < b
    BY <1>4, <1>5, <2>2
  <2> QED
    BY <2>3, <2>4 DEF Shipmates
<1>7. IsFiniteSet(same)
  <2>1. IsFiniteSet(1 .. Len(s.active))
    BY <1>1, FS_Interval
  <2>2. same \subseteq 1 .. Len(s.active)
    BY <1>1, <1>5
  <2> QED
    BY <2>1, <2>2, FS_Subset
<1> HIDE DEF same
<1>8. \A a, b, c, d \in same : a = b \/ a = c \/ a = d \/ b = c \/ b = d \/ c = d
  BY <1>6 DEF ActiveOK, Noah
<1>9. Cardinality(same) <= 3
  BY <1>7, <1>8, AtMostThree
<1> QED
  BY <1>9 DEF same

\* The two lists hold what they should.
LEMMA SoundLists == ParserInv /\ Ordinary => ListsAreSound
<1> SUFFICES ASSUME ParserInv, Ordinary PROVE ListsAreSound
  OBVIOUS
<1> DEFINE open == parser.open
           active == parser.active
           nodes == parser.nodes
<1>1. Live = DOMAIN nodes
  BY DEF Ordinary, ThrownAway, Nodes
<1>2. /\ OpenOK(nodes, open, parser.root) /\ ActiveOK(nodes, active)
      /\ TemplatesOK(nodes, open, parser.templateModes)
  BY DEF ParserInv, Core
<1>3. OpenTemplates(parser) = TemplatesIn(nodes, open)
  BY DEF OpenTemplates, TemplatesIn, IsHtml, IsElement
<1>4. /\ \A i \in DOMAIN open : open[i] \in DOMAIN nodes /\ \A j \in DOMAIN open : open[i] = open[j] => i = j
      /\ open # <<>> => open[1] = parser.root
  <2> HIDE DEF open, nodes
  <2> QED
    BY <1>2, VectorFacts DEF OpenOK
<1>5. \A i \in DOMAIN active : active[i] # Marker =>
        active[i] \in DOMAIN nodes /\ \A j \in DOMAIN active : active[i] = active[j] => i = j
  <2> HIDE DEF active, nodes
  <2>1. active \in Seq(DOMAIN nodes \union {Marker}) 
    BY <1>2 DEF ActiveOK
  <2>2. \A i \in DOMAIN active : active[i] \in DOMAIN nodes \union {Marker}
    BY <2>1, VectorFacts
  <2> QED
    BY <1>2, <2>2 DEF ActiveOK
<1>6. Cardinality(OpenTemplates(parser)) <= Len(parser.templateModes)
  BY <1>2, <1>3 DEF TemplatesOK
<1>7. \A i \in AfterMarker(parser) :
        Cardinality({j \in AfterMarker(parser) : Identical(parser, active[i], active[j])}) <= 3
  BY <1>2, NoahsArk
<1>8. open = <<>> => parser.root = NoNode \/ finished
  <2>1. ASSUME ~ finished, open = <<>> PROVE parser.root = NoNode
    <3>1. Modal(parser) /\ Len(open) = 0
      BY <2>1 DEF ParserInv
    <3> HIDE DEF open
    <3>2. ~ Contained(parser.original, nodes, open, parser.root, parser.head)
          /\ ~ Contained(parser.mode, nodes, open, parser.root, parser.head)
      BY <3>1 DEF Contained, Begins, Stops
    <3>3. parser.mode # "Text" /\ parser.mode # "InTableText"
      BY <3>1, <3>2 DEF Modal, open, nodes
    <3>4. Fits(parser.mode, nodes, open, parser.root, parser.head)
      BY <3>1, <3>3 DEF Modal, open, nodes
    <3> QED
      BY <3>1, <3>2, <3>4 DEF Fits
  <2> QED
    BY <2>1
<1> QED
  BY <1>1, <1>4, <1>5, <1>6, <1>7, <1>8 DEF ListsAreSound

\* The stack of open elements and the list of active formatting elements hold nodes that exist,
\* each once, the stack begins with the root and is empty only before there is one, there is a template mode for every template, and
\* no four formatting elements of one kind are listed behind the last marker.
THEOREM ListsAreAlwaysSound ==
  Init /\ [][Next]_vars /\ [](AssertionsHold /\ Ordinary) => []ListsAreSound
BY ParserIsSound, SoundLists, PTL
=============================================================================
