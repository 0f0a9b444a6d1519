--------------------------- MODULE NativeLibProofs ---------------------------
(***************************************************************************)
(* Proofs about NativeLib for any finite set of threads and any number of  *)
(* failed lookups: types, the return of the resources, the number of       *)
(* global references, and the completeness of quiet globals.               *)
(***************************************************************************)
EXTENDS NativeLib, FiniteSetTheorems, TLAPS

\* The two blocks of static globals, TagCallback first.
LEMMA BlocksAreTwo ==
  /\ BlockNames = {"TagCallback", "HashMap"}
  /\ Len(Blocks) = 2
  /\ Blocks[1] = "TagCallback" /\ Blocks[2] = "HashMap"
BY DEF BlockNames, Blocks, MethodIds

\* The method ids each block looks up, in order.
LEMMA IdsAreFew ==
  /\ MethodIds["TagCallback"] = <<"onStartTag", "onEndTag", "onText">>
  /\ MethodIds["HashMap"] = <<"<init>", "put">>
BY DEF MethodIds

\* The length and the ids of a block, by position.
LEMMA IdsByPosition ==
  ASSUME NEW name \in BlockNames
  PROVE  /\ Len(MethodIds[name]) \in 2 .. 3
         /\ DOMAIN MethodIds[name] = 1 .. Len(MethodIds[name])
         /\ \A i \in 1 .. Len(MethodIds[name]) : MethodIds[name][i] \in IdsOf(name)
         /\ \A id \in IdsOf(name) : \E i \in 1 .. Len(MethodIds[name]) : id = MethodIds[name][i]
<1>1. CASE name = "TagCallback"
  <2>1. DOMAIN MethodIds[name] = 1 .. 3 /\ Len(MethodIds[name]) = 3
    BY <1>1, IdsAreFew
  <2> QED BY <2>1 DEF IdsOf
<1>2. CASE name = "HashMap"
  <2>1. DOMAIN MethodIds[name] = 1 .. 2 /\ Len(MethodIds[name]) = 2
    BY <1>2, IdsAreFew
  <2> QED BY <2>1 DEF IdsOf
<1> QED BY <1>1, <1>2, BlocksAreTwo

-----------------------------------------------------------------------------
(* The inductive invariant. *)

Place == [at: Statements, block: 1 .. 2, next: 1 .. 3]

\* A thread looks up ids its block has, and a block holds its own ids.
IdsBelongToBlocks ==
  /\ \A t \in Threads : pc[t].at = "get" => pc[t].next <= Len(MethodIds[BlockOf(t)])
  /\ \A name \in BlockNames : methodId[name] \subseteq IdsOf(name)

\* What a thread holds is a matter of where it is.
HoldingFollowsPlace ==
  /\ \A t \in Threads : t \in chars <=> pc[t].at \in {"parse", "traverse", "destroy", "release", "crashed"}
  /\ \A t \in Threads : t \in output <=> pc[t].at \in {"traverse", "destroy", "crashed"}

\* The threads that are yet to make a global reference to the class.
Storing(name) == {t \in Threads : pc[t].at \in {"find", "store"} /\ BlockOf(t) = name}

\* Before the class is set there is no reference; then those on their way make the last ones.
ReferencesAreCounted ==
  \A name \in BlockNames :
    /\ ~classRef[name] => globals[name] = 0
    /\ globals[name] + Cardinality(Storing(name)) <= Cardinality(Threads)

\* Unless a lookup failed: what was looked up is there, and a class that is set without
\* all its ids has a thread still looking them up.
LookupsAreKept ==
  failures = 0 =>
    /\ \A t \in Threads : pc[t].at = "get" =>
         \A i \in 1 .. pc[t].next - 1 : MethodIds[BlockOf(t)][i] \in methodId[BlockOf(t)]
    /\ \A t \in Threads : pc[t].at = "verify" => HasAllIds(BlockOf(t))
    /\ \A name \in BlockNames : classRef[name] =>
         HasAllIds(name) \/ \E t \in Threads : pc[t].at = "get" /\ BlockOf(t) = name

IInv ==
  /\ NativeTypeOK
  /\ IdsBelongToBlocks
  /\ HoldingFollowsPlace
  /\ ReferencesAreCounted
  /\ LookupsAreKept
-----------------------------------------------------------------------------
(* Moves of one thread. *)

\* Every place a step of parse() goes to is a typed one.
LEMMA PlacesAreTyped ==
  ASSUME NativeTypeOK, NEW t \in Threads
  PROVE  /\ \A s \in Statements : At(s) \in Place /\ At(s).at = s
         /\ \A s \in Statements, b \in 1 .. 2 :
              /\ InBlock(s, b) \in Place
              /\ InBlock(s, b).at = s /\ InBlock(s, b).block = b /\ InBlock(s, b).next = 1
         /\ NextBlock(t) \in Place /\ NextBlock(t).at \in {"check", "chars"}
         /\ pc[t] \in Place
         /\ BlockOf(t) \in BlockNames
<1>1. pc[t] \in Place /\ pc[t].block \in 1 .. 2
  BY DEF NativeTypeOK, Place
<1>2. \A s \in Statements : At(s) \in Place /\ At(s).at = s
  BY DEF At, Place
<1>3. \A s \in Statements, b \in 1 .. 2 :
        /\ InBlock(s, b) \in Place
        /\ InBlock(s, b).at = s /\ InBlock(s, b).block = b /\ InBlock(s, b).next = 1
  BY DEF InBlock, Place
<1>4. BlockOf(t) \in BlockNames
  <2>1. pc[t].block = 1 \/ pc[t].block = 2  BY <1>1
  <2> QED BY <2>1, BlocksAreTwo DEF BlockOf
<1>5. NextBlock(t) \in Place /\ NextBlock(t).at \in {"check", "chars"}
  <2>1. CASE pc[t].block < Len(Blocks)
    <3>1. pc[t].block + 1 \in 1 .. 2  BY <1>1, <2>1, BlocksAreTwo
    <3>2. "check" \in Statements  BY DEF Statements
    <3> QED BY <1>3, <2>1, <3>1, <3>2 DEF NextBlock
  <2>2. CASE ~(pc[t].block < Len(Blocks))
    <3>1. "chars" \in Statements  BY DEF Statements
    <3> QED BY <1>2, <2>2, <3>1 DEF NextBlock
  <2> QED BY <2>1, <2>2
<1> QED BY <1>1, <1>2, <1>3, <1>4, <1>5

\* A step moves its own thread and no other.
LEMMA MoveOfOneThread ==
  ASSUME NativeTypeOK, NEW t \in Threads, NEW place \in Place, Goto(t, place)
  PROVE  /\ pc' \in [Threads -> Place]
         /\ pc'[t] = place
         /\ \A u \in Threads : u # t => pc'[u] = pc[u]
BY DEF NativeTypeOK, Goto, Place
\* Every action moves one thread, to a place of the right type.
LEMMA EveryStepMovesOneThread ==
  ASSUME NativeTypeOK, NEW t \in Threads,
         Call(t) \/ Check(t) \/ Find(t) \/ Store(t) \/ Get(t) \/ Verify(t) \/ GetChars(t)
           \/ Parse(t) \/ Traverse(t) \/ Destroy(t) \/ Release(t)
  PROVE  /\ pc' \in [Threads -> Place]
         /\ \A u \in Threads : u # t => pc'[u] = pc[u]
<1> SUFFICES \E place \in Place : Goto(t, place)
  BY MoveOfOneThread
<1> USE DEF Statements
<1>1. ASSUME Call(t) PROVE \E place \in Place : Goto(t, place)
  BY <1>1, PlacesAreTyped DEF Call
<1>2. ASSUME Check(t) PROVE \E place \in Place : Goto(t, place)
  <2>1. InBlock("find", pc[t].block) \in Place
    <3>1. pc[t].block \in 1 .. 2  BY PlacesAreTyped DEF Place
    <3> QED BY <3>1, PlacesAreTyped
  <2> QED BY <1>2, <2>1, PlacesAreTyped DEF Check
<1>3. ASSUME Find(t) PROVE \E place \in Place : Goto(t, place)
  <2>1. pc[t].block \in 1 .. 2  BY PlacesAreTyped DEF Place
  <2> QED BY <1>3, <2>1, PlacesAreTyped DEF Find
<1>4. ASSUME Store(t) PROVE \E place \in Place : Goto(t, place)
  <2>1. pc[t].block \in 1 .. 2  BY PlacesAreTyped DEF Place
  <2> QED BY <1>4, <2>1, PlacesAreTyped DEF Store
<1>5. ASSUME Get(t) PROVE \E place \in Place : Goto(t, place)
  <2>1. pc[t].block \in 1 .. 2 /\ pc[t].next \in 1 .. 3  BY PlacesAreTyped DEF Place
  <2>2. Len(MethodIds[BlockOf(t)]) \in 2 .. 3  BY PlacesAreTyped, IdsByPosition
  <2>3. InBlock("verify", pc[t].block) \in Place  BY <2>1, PlacesAreTyped
  <2>4. ASSUME pc[t].next < Len(MethodIds[BlockOf(t)])
        PROVE  [pc[t] EXCEPT !.next = @ + 1] \in Place
    <3>1. pc[t].next + 1 \in 1 .. 3
      <4> DEFINE length == Len(MethodIds[BlockOf(t)])
                 next == pc[t].next
      <4>1. length \in 2 .. 3 /\ next \in 1 .. 3 /\ next < length  BY <2>1, <2>2, <2>4
      <4> HIDE DEF length, next
      <4>2. next + 1 \in 1 .. 3  BY <4>1
      <4> QED BY <4>2 DEF next
    <3>2. pc[t] \in Place  BY PlacesAreTyped
    <3> HIDE DEF Statements
    <3> QED BY <3>1, <3>2 DEF Place
  <2> QED BY <1>5, <2>3, <2>4 DEF Get
<1>6. ASSUME Verify(t) PROVE \E place \in Place : Goto(t, place)
  BY <1>6, PlacesAreTyped DEF Verify
<1>7. ASSUME GetChars(t) PROVE \E place \in Place : Goto(t, place)
  BY <1>7, PlacesAreTyped DEF GetChars
<1>8. ASSUME Parse(t) PROVE \E place \in Place : Goto(t, place)
  BY <1>8, PlacesAreTyped DEF Parse
<1>9. ASSUME Traverse(t) PROVE \E place \in Place : Goto(t, place)
  BY <1>9, PlacesAreTyped DEF Traverse
<1>10. ASSUME Destroy(t) PROVE \E place \in Place : Goto(t, place)
  BY <1>10, PlacesAreTyped DEF Destroy
<1>11. ASSUME Release(t) PROVE \E place \in Place : Goto(t, place)
  BY <1>11, PlacesAreTyped DEF Release
<1> QED BY <1>1, <1>2, <1>3, <1>4, <1>5, <1>6, <1>7, <1>8, <1>9, <1>10, <1>11

Step(t) ==
  \/ Call(t) \/ Check(t) \/ Find(t) \/ Store(t) \/ Get(t) \/ Verify(t) \/ GetChars(t)
  \/ Parse(t) \/ Traverse(t) \/ Destroy(t) \/ Release(t)

-----------------------------------------------------------------------------
(* Each part of the invariant is kept by every step of every thread. *)

\* Every statement of parse() keeps the types of the globals and the threads.
LEMMA TypesAreKept ==
  ASSUME NativeTypeOK, IdsBelongToBlocks, NEW t \in Threads, Step(t)
  PROVE  NativeTypeOK'
<1>1. pc' \in [Threads -> Place]
  BY EveryStepMovesOneThread DEF Step
<1>2. LookupFails => failures' \in 0 .. MaxLookupFailures
  BY NativeAssumption DEF NativeTypeOK, LookupFails
<1>3. /\ classRef' \in [BlockNames -> BOOLEAN]
      /\ globals' \in [BlockNames -> Nat]
  <2>1. CASE Store(t)
    BY <2>1, PlacesAreTyped DEF NativeTypeOK, Store
  <2>2. CASE ~Store(t)
    BY <2>2 DEF NativeTypeOK, Step, Call, Check, Find, Get, Verify, GetChars, Parse, Traverse,
       Destroy, Release
  <2> QED BY <2>1, <2>2
<1>6. chars' \subseteq Threads /\ output' \subseteq Threads
  BY DEF NativeTypeOK, Step, Call, Check, Find, Store, Get, Verify, GetChars, Parse, Traverse,
     Destroy, Release
<1>4. failures' \in 0 .. MaxLookupFailures
  BY <1>2 DEF NativeTypeOK, Step, Call, Check, Find, Store, Get, Verify, GetChars, Parse,
     Traverse, Destroy, Release
<1>5. methodId' \in [BlockNames -> SUBSET UNION {IdsOf(name) : name \in BlockNames}]
  <2>1. CASE Get(t)
    <3> DEFINE id == MethodIds[BlockOf(t)][pc[t].next]
    <3>1. methodId' = [methodId EXCEPT ![BlockOf(t)] = @ \union {id}]
            \/ methodId' = [methodId EXCEPT ![BlockOf(t)] = @ \ {id}]
      BY <2>1 DEF Get
    <3>2. id \in IdsOf(BlockOf(t))
      <4>1. pc[t].next \in 1 .. 3 /\ pc[t].next <= Len(MethodIds[BlockOf(t)])
        BY <2>1, PlacesAreTyped DEF Get, IdsBelongToBlocks, Place
      <4>2. Len(MethodIds[BlockOf(t)]) \in 2 .. 3  BY PlacesAreTyped, IdsByPosition
      <4>3. pc[t].next \in 1 .. Len(MethodIds[BlockOf(t)])  BY <4>1, <4>2
      <4> QED BY <4>3, PlacesAreTyped, IdsByPosition
    <3> HIDE DEF id
    <3> QED BY <3>1, <3>2, PlacesAreTyped DEF NativeTypeOK
  <2>2. CASE ~Get(t)
    BY <2>2 DEF NativeTypeOK, Step, Call, Check, Find, Store, Verify, GetChars, Parse, Traverse,
       Destroy, Release
  <2> QED BY <2>1, <2>2
<1> QED BY <1>1, <1>3, <1>4, <1>5, <1>6 DEF NativeTypeOK, Place
\* Where each action takes its thread from and to.
LEMMA Destinations ==
  ASSUME NativeTypeOK, NEW t \in Threads
  PROVE  /\ Call(t) => pc[t].at = "idle" /\ pc'[t].at = "check"
         /\ Check(t) => pc[t].at = "check" /\ pc'[t].at \in {"check", "chars", "find"}
         /\ Find(t) => pc[t].at = "find" /\ pc'[t].at \in {"store", "idle"}
         /\ Store(t) => /\ pc[t].at = "store" /\ pc'[t].at = "get"
                        /\ pc'[t].block = pc[t].block /\ pc'[t].next = 1
         /\ Get(t) => pc[t].at = "get" /\ pc'[t].at \in {"get", "verify"}
         /\ Verify(t) => pc[t].at = "verify" /\ pc'[t].at \in {"check", "chars", "idle"}
<1> USE DEF NativeTypeOK, Goto
<1>1. Call(t) => pc[t].at = "idle" /\ pc'[t].at = "check"
  BY DEF Call, InBlock
<1>2. Check(t) => pc[t].at = "check" /\ pc'[t].at \in {"check", "chars", "find"}
  <2>1. NextBlock(t).at \in {"check", "chars"} /\ InBlock("find", pc[t].block).at = "find"
    BY PlacesAreTyped DEF InBlock
  <2> QED BY <2>1 DEF Check
<1>3. Find(t) => pc[t].at = "find" /\ pc'[t].at \in {"store", "idle"}
  BY DEF Find, InBlock, At
<1>4. Store(t) => /\ pc[t].at = "store" /\ pc'[t].at = "get"
                  /\ pc'[t].block = pc[t].block /\ pc'[t].next = 1
  BY DEF Store, InBlock
<1>5. Get(t) => pc[t].at = "get" /\ pc'[t].at \in {"get", "verify"}
  <2>1. pc[t] \in Place  BY PlacesAreTyped
  <2>2. pc[t].at = "get" => [pc[t] EXCEPT !.next = @ + 1].at = "get"  BY <2>1 DEF Place
  <2>3. InBlock("verify", pc[t].block).at = "verify"  BY DEF InBlock
  <2> QED BY <2>2, <2>3 DEF Get
<1>6. Verify(t) => pc[t].at = "verify" /\ pc'[t].at \in {"check", "chars", "idle"}
  <2>1. NextBlock(t).at \in {"check", "chars"} /\ At("idle").at = "idle"
    BY PlacesAreTyped DEF At
  <2> QED BY <2>1 DEF Verify
<1> QED BY <1>1, <1>2, <1>3, <1>4, <1>5, <1>6

\* Every statement keeps the characters and the tree with the threads whose place has them.
LEMMA HoldingIsKept ==
  ASSUME NativeTypeOK, HoldingFollowsPlace, NEW t \in Threads, Step(t)
  PROVE  HoldingFollowsPlace'
<1> DEFINE withChars == {"parse", "traverse", "destroy", "release", "crashed"}
           withTree == {"traverse", "destroy", "crashed"}
<1>1. \A u \in Threads : u # t => pc'[u] = pc[u]
  BY EveryStepMovesOneThread DEF Step
<1>2. SUFFICES /\ \A u \in Threads : u # t => ((u \in chars') <=> (u \in chars))
               /\ \A u \in Threads : u # t => ((u \in output') <=> (u \in output))
               /\ (t \in chars') <=> (pc'[t].at \in withChars)
               /\ (t \in output') <=> (pc'[t].at \in withTree)
  BY <1>1, <1>2 DEF HoldingFollowsPlace
<1>3. /\ (t \in chars) <=> (pc[t].at \in withChars)
      /\ (t \in output) <=> (pc[t].at \in withTree)
  BY DEF HoldingFollowsPlace
<1>4. CASE Call(t) \/ Check(t) \/ Find(t) \/ Store(t) \/ Get(t) \/ Verify(t)
  <2>1. chars' = chars /\ output' = output
    BY <1>4 DEF Call, Check, Find, Store, Get, Verify
  <2>2. pc[t].at \in {"idle", "check", "find", "store", "get", "verify"}
    BY <1>4, Destinations
  <2>3. pc'[t].at \in {"check", "chars", "find", "store", "idle", "get", "verify"}
    BY <1>4, Destinations
  <2> QED BY <1>3, <2>1, <2>2, <2>3
<1> USE <1>3 DEF NativeTypeOK, Goto, At
<1>5. CASE GetChars(t)
  BY <1>5 DEF GetChars
<1>6. CASE Parse(t)
  BY <1>6 DEF Parse
<1>7. CASE Traverse(t)
  BY <1>7 DEF Traverse
<1>8. CASE Destroy(t)
  BY <1>8 DEF Destroy
<1>9. CASE Release(t)
  BY <1>9 DEF Release
<1> QED BY <1>4, <1>5, <1>6, <1>7, <1>8, <1>9 DEF Step

\* Every statement keeps each method id in the block it was looked up for.
LEMMA IdsStayInTheirBlocks ==
  ASSUME NativeTypeOK, IdsBelongToBlocks, NEW t \in Threads, Step(t)
  PROVE  IdsBelongToBlocks'
<1>1. \A u \in Threads : u # t => pc'[u] = pc[u]
  BY EveryStepMovesOneThread DEF Step
<1>2. pc'[t].at = "get" => pc'[t].next <= Len(MethodIds[Blocks[pc'[t].block]])
  <2>1. CASE Store(t)
    <3>1. pc[t].block \in 1 .. 2 /\ BlockOf(t) \in BlockNames  BY PlacesAreTyped DEF Place
    <3>2. pc'[t].next = 1 /\ pc'[t].block = pc[t].block
      BY <2>1, Destinations
    <3>3. Len(MethodIds[BlockOf(t)]) \in 2 .. 3  BY <3>1, IdsByPosition
    <3> DEFINE length == Len(MethodIds[BlockOf(t)])
    <3>4. length \in 2 .. 3  BY <3>3
    <3> HIDE DEF length
    <3>5. 1 <= length  BY <3>4
    <3> QED BY <3>2, <3>5 DEF BlockOf, length
  <2>2. CASE Get(t)
    <3>1. pc[t] \in Place  BY PlacesAreTyped
    <3>2. CASE pc[t].next < Len(MethodIds[BlockOf(t)])
      <4>1. pc'[t] = [pc[t] EXCEPT !.next = @ + 1]
        BY <2>2, <3>2 DEF Get, Goto, NativeTypeOK
      <4>2. pc'[t].next = pc[t].next + 1 /\ pc'[t].block = pc[t].block
        BY <3>1, <4>1 DEF Place
      <4> DEFINE length == Len(MethodIds[BlockOf(t)])
                 next == pc[t].next
      <4>3. length \in 2 .. 3 /\ next \in 1 .. 3 /\ next < length
        BY <3>1, <3>2, PlacesAreTyped, IdsByPosition DEF Place
      <4> HIDE DEF length, next
      <4>4. next + 1 <= length  BY <4>3
      <4> QED BY <4>2, <4>4 DEF BlockOf, length, next
    <3>3. CASE ~(pc[t].next < Len(MethodIds[BlockOf(t)]))
      <4>1. pc'[t] = InBlock("verify", pc[t].block)
        BY <2>2, <3>3 DEF Get, Goto, NativeTypeOK
      <4> QED BY <4>1 DEF InBlock
    <3> QED BY <3>2, <3>3
  <2>3. CASE Call(t) \/ Check(t) \/ Find(t) \/ Verify(t)
    BY <2>3, Destinations
  <2>4. CASE GetChars(t) \/ Parse(t) \/ Traverse(t) \/ Destroy(t) \/ Release(t)
    BY <2>4 DEF GetChars, Parse, Traverse, Destroy, Release, Goto, At, NativeTypeOK
  <2> QED BY <2>1, <2>2, <2>3, <2>4 DEF Step
<1>3. ASSUME NEW name \in BlockNames
      PROVE  methodId'[name] \subseteq IdsOf(name)
  <2>1. CASE Get(t)
    <3> DEFINE id == MethodIds[BlockOf(t)][pc[t].next]
    <3>1. methodId' = [methodId EXCEPT ![BlockOf(t)] = @ \union {id}]
            \/ methodId' = [methodId EXCEPT ![BlockOf(t)] = @ \ {id}]
      BY <2>1 DEF Get
    <3>2. id \in IdsOf(BlockOf(t))
      <4> DEFINE length == Len(MethodIds[BlockOf(t)])
                 next == pc[t].next
      <4>1. next \in 1 .. 3 /\ next <= length
        BY <2>1, PlacesAreTyped DEF Get, IdsBelongToBlocks, Place
      <4>2. length \in 2 .. 3  BY PlacesAreTyped, IdsByPosition
      <4> HIDE DEF length, next
      <4>3. next \in 1 .. length  BY <4>1, <4>2
      <4> QED BY <4>3, PlacesAreTyped, IdsByPosition DEF length, next
    <3> HIDE DEF id
    <3> QED BY <3>1, <3>2, PlacesAreTyped DEF NativeTypeOK, IdsBelongToBlocks
  <2>2. CASE ~Get(t)
    <3>1. methodId' = methodId
      BY <2>2 DEF Step, Call, Check, Find, Store, Verify, GetChars, Parse, Traverse, Destroy, Release
    <3> QED BY <3>1 DEF IdsBelongToBlocks
  <2> QED BY <2>1, <2>2
<1> QED BY <1>1, <1>2, <1>3 DEF IdsBelongToBlocks, BlockOf
\* Of two finite sets of threads the smaller one has no more members.
LEMMA FewerAreStoring ==
  ASSUME NEW S, NEW T, IsFiniteSet(T), S \subseteq T
  PROVE  /\ Cardinality(S) \in Nat /\ Cardinality(T) \in Nat
         /\ Cardinality(S) <= Cardinality(T)
BY FS_Subset, FS_CardinalityType

\* The threads about to store a class are finitely many.
LEMMA StoringIsFinite ==
  ASSUME NEW name \in BlockNames
  PROVE  /\ IsFiniteSet(Storing(name)) /\ Storing(name) \subseteq Threads
         /\ Cardinality(Storing(name)) \in Nat
         /\ Cardinality(Threads) \in Nat
BY NativeAssumption, FS_Subset, FS_CardinalityType DEF Storing

\* Every statement keeps the count: references made or on their way are at most one per thread.
LEMMA ReferencesStayCounted ==
  ASSUME NativeTypeOK, ReferencesAreCounted, NEW t \in Threads, Step(t)
  PROVE  ReferencesAreCounted'
<1> SUFFICES ASSUME NEW name \in BlockNames
             PROVE  /\ ~classRef'[name] => globals'[name] = 0
                    /\ globals'[name] + Cardinality(Storing(name)') <= Cardinality(Threads)
  BY DEF ReferencesAreCounted
<1>1. \A u \in Threads : u # t => pc'[u] = pc[u]
  BY EveryStepMovesOneThread DEF Step
<1>2. Storing(name)' \subseteq Threads /\ Cardinality(Storing(name)') \in Nat
        /\ Cardinality(Storing(name)') <= Cardinality(Threads)
  BY FewerAreStoring, NativeAssumption DEF Storing
<1>3. /\ globals[name] \in Nat
      /\ ~classRef[name] => globals[name] = 0
      /\ globals[name] + Cardinality(Storing(name)) <= Cardinality(Threads)
  BY DEF NativeTypeOK, ReferencesAreCounted
<1>4. ASSUME Storing(name)' \subseteq Storing(name), globals' = globals, classRef' = classRef
      PROVE  /\ ~classRef'[name] => globals'[name] = 0
             /\ globals'[name] + Cardinality(Storing(name)') <= Cardinality(Threads)
  <2>1. Cardinality(Storing(name)') <= Cardinality(Storing(name))
    BY <1>4, StoringIsFinite, FewerAreStoring
  <2> QED BY <1>2, <1>3, <1>4, <2>1, StoringIsFinite
<1>5. ASSUME pc'[t].at \notin {"find", "store"}
      PROVE  Storing(name)' \subseteq Storing(name)
  BY <1>1, <1>5 DEF Storing, BlockOf
<1>6. CASE Store(t)
  <2>1. /\ pc[t].at = "store" /\ pc'[t].at = "get"
        /\ classRef' = [classRef EXCEPT ![BlockOf(t)] = TRUE]
        /\ globals' = [globals EXCEPT ![BlockOf(t)] = @ + 1]
    BY <1>6, Destinations DEF Store
  <2>2. CASE BlockOf(t) = name
    <3>1. Storing(name)' = Storing(name) \ {t} /\ t \in Storing(name)
      BY <1>1, <2>1, <2>2 DEF Storing, BlockOf
    <3>2. Cardinality(Storing(name)') = Cardinality(Storing(name)) - 1
      BY <3>1, StoringIsFinite, FS_RemoveElement
    <3>3. classRef'[name] = TRUE /\ globals'[name] = globals[name] + 1
      BY <2>1, <2>2 DEF NativeTypeOK
    <3> QED BY <1>2, <1>3, <3>2, <3>3, StoringIsFinite
  <2>3. CASE BlockOf(t) # name
    <3>1. Storing(name)' \subseteq Storing(name)  BY <1>5, <2>1
    <3>2. classRef'[name] = classRef[name] /\ globals'[name] = globals[name]
      BY <2>1, <2>3 DEF NativeTypeOK
    <3>3. Cardinality(Storing(name)') <= Cardinality(Storing(name))
      BY <3>1, StoringIsFinite, FewerAreStoring
    <3> QED BY <1>2, <1>3, <3>2, <3>3, StoringIsFinite
  <2> QED BY <2>2, <2>3
<1>7. CASE Check(t)
  <2>1. globals' = globals /\ classRef' = classRef
    BY <1>7 DEF Check
  <2>2. CASE classRef[BlockOf(t)]
    <3>1. pc'[t] = NextBlock(t)
      BY <1>7, <2>2 DEF Check, Goto, NativeTypeOK
    <3>2. pc'[t].at \notin {"find", "store"}
      BY <3>1, PlacesAreTyped
    <3> QED BY <1>4, <1>5, <2>1, <3>2
  <2>3. CASE ~classRef[BlockOf(t)]
    <3>1. CASE BlockOf(t) = name
      <4>1. globals[name] = 0  BY <1>3, <2>3, <3>1
      <4> QED BY <1>2, <2>1, <4>1
    <3>2. CASE BlockOf(t) # name
      <4>1. pc'[t] = InBlock("find", pc[t].block)
        BY <1>7, <2>3 DEF Check, Goto, NativeTypeOK
      <4>2. pc'[t].block = pc[t].block
        BY <4>1 DEF InBlock
      <4>3. Storing(name)' \subseteq Storing(name)
        BY <1>1, <3>2, <4>2 DEF Storing, BlockOf
      <4> QED BY <1>4, <2>1, <4>3
    <3> QED BY <3>1, <3>2
  <2> QED BY <2>2, <2>3
<1>8. CASE Find(t)
  <2>1. globals' = globals /\ classRef' = classRef
    BY <1>8 DEF Find
  <2>2. CASE pc'[t] = InBlock("store", pc[t].block)
    <3>1. pc'[t].block = pc[t].block /\ pc[t].at = "find"
      BY <1>8, <2>2 DEF Find, InBlock
    <3>2. Storing(name)' \subseteq Storing(name)
      BY <1>1, <3>1 DEF Storing, BlockOf
    <3> QED BY <1>4, <2>1, <3>2
  <2>3. CASE pc'[t] = At("idle")
    BY <1>4, <1>5, <2>1, <2>3 DEF At
  <2> QED BY <1>8, <2>2, <2>3 DEF Find, Goto, NativeTypeOK
<1>9. CASE Call(t) \/ Get(t) \/ Verify(t)
  <2>1. globals' = globals /\ classRef' = classRef
    BY <1>9 DEF Call, Get, Verify
  <2>2. pc'[t].at \notin {"find", "store"}
    BY <1>9, Destinations
  <2> QED BY <1>4, <1>5, <2>1, <2>2
<1>10. CASE GetChars(t) \/ Parse(t) \/ Traverse(t) \/ Destroy(t) \/ Release(t)
  <2>1. globals' = globals /\ classRef' = classRef
    BY <1>10 DEF GetChars, Parse, Traverse, Destroy, Release
  <2>2. pc'[t].at \notin {"find", "store"}
    BY <1>10 DEF GetChars, Parse, Traverse, Destroy, Release, Goto, At, NativeTypeOK
  <2> QED BY <1>4, <1>5, <2>1, <2>2
<1> QED BY <1>6, <1>7, <1>8, <1>9, <1>10 DEF Step
\* Without a failed lookup, what a thread has looked up is never lost.
LEMMA LookupsStayKept ==
  ASSUME NativeTypeOK, IdsBelongToBlocks, LookupsAreKept, NEW t \in Threads, Step(t)
  PROVE  LookupsAreKept'
<1> SUFFICES ASSUME failures' = 0
             PROVE  /\ \A u \in Threads : pc'[u].at = "get" =>
                         \A i \in 1 .. pc'[u].next - 1 :
                           MethodIds[Blocks[pc'[u].block]][i] \in methodId'[Blocks[pc'[u].block]]
                    /\ \A u \in Threads : pc'[u].at = "verify" => methodId'[Blocks[pc'[u].block]] = IdsOf(Blocks[pc'[u].block])
                    /\ \A name \in BlockNames : classRef'[name] =>
                         \/ methodId'[name] = IdsOf(name)
                         \/ \E u \in Threads : pc'[u].at = "get" /\ Blocks[pc'[u].block] = name
  BY DEF LookupsAreKept, BlockOf, HasAllIds
<1>1. \A u \in Threads : u # t => pc'[u] = pc[u]
  BY EveryStepMovesOneThread DEF Step
<1>2. failures = 0 /\ ~LookupFails
  <2>1. failures \in Nat /\ (failures' = failures \/ failures' = failures + 1)
    BY NativeAssumption DEF NativeTypeOK, Step, Call, Check, Find, Store, Get, Verify, GetChars,
       Parse, Traverse, Destroy, Release, LookupFails
  <2> QED BY <2>1 DEF LookupFails
<1>3. IdsBelongToBlocks'
  BY IdsStayInTheirBlocks
<1>4. \A name \in BlockNames : methodId[name] \subseteq methodId'[name]
  <2>1. CASE Get(t)
    <3>1. methodId' = [methodId EXCEPT ![BlockOf(t)] = @ \union {MethodIds[BlockOf(t)][pc[t].next]}]
      BY <1>2, <2>1 DEF Get
    <3> QED BY <3>1 DEF NativeTypeOK
  <2>2. CASE ~Get(t)
    BY <2>2 DEF Step, Call, Check, Find, Store, Verify, GetChars, Parse, Traverse, Destroy, Release
  <2> QED BY <2>1, <2>2
<1>5. \A name \in BlockNames : methodId[name] = IdsOf(name) => methodId'[name] = IdsOf(name)
  BY <1>3, <1>4 DEF IdsBelongToBlocks
<1>6. /\ \A u \in Threads : pc[u].at = "get" =>
           \A i \in 1 .. pc[u].next - 1 : MethodIds[BlockOf(u)][i] \in methodId[BlockOf(u)]
      /\ \A u \in Threads : pc[u].at = "verify" => methodId[BlockOf(u)] = IdsOf(BlockOf(u))
      /\ \A name \in BlockNames : classRef[name] =>
           methodId[name] = IdsOf(name) \/ \E u \in Threads : pc[u].at = "get" /\ BlockOf(u) = name
  BY <1>2 DEF LookupsAreKept, HasAllIds
<1>7. \A u \in Threads : BlockOf(u) \in BlockNames
  BY PlacesAreTyped
\* The other threads stand where they stood, and what they looked up is there.
<1>8. ASSUME NEW u \in Threads, u # t
      PROVE  /\ pc'[u].at = "get" => \A i \in 1 .. pc'[u].next - 1 :
                  MethodIds[Blocks[pc'[u].block]][i] \in methodId'[Blocks[pc'[u].block]]
             /\ pc'[u].at = "verify" => methodId'[Blocks[pc'[u].block]] = IdsOf(Blocks[pc'[u].block])
  <2>1. pc'[u] = pc[u] /\ BlockOf(u) \in BlockNames  BY <1>1, <1>7, <1>8
  <2>2. methodId[BlockOf(u)] \subseteq methodId'[BlockOf(u)]  BY <1>4, <2>1
  <2>3. methodId[BlockOf(u)] = IdsOf(BlockOf(u)) => methodId'[BlockOf(u)] = IdsOf(BlockOf(u))
    BY <1>5, <2>1
  <2> QED BY <1>6, <2>1, <2>2, <2>3 DEF BlockOf
\* A class that keeps its witness, or its ids.
<1>9. ASSUME NEW name \in BlockNames, classRef[name], pc[t].at = "get" => BlockOf(t) # name
      PROVE  \/ methodId'[name] = IdsOf(name)
             \/ \E u \in Threads : pc'[u].at = "get" /\ Blocks[pc'[u].block] = name
  <2>1. CASE methodId[name] = IdsOf(name)  BY <1>5, <2>1
  <2>2. ASSUME NEW u \in Threads, pc[u].at = "get", BlockOf(u) = name
        PROVE  pc'[u].at = "get" /\ Blocks[pc'[u].block] = name
    BY <1>1, <1>9, <2>2 DEF BlockOf
  <2> QED BY <1>6, <1>9, <2>1, <2>2
<1>10. CASE Store(t)
  <2>1. /\ pc[t].at = "store" /\ pc'[t].at = "get" /\ pc'[t].block = pc[t].block
        /\ pc'[t].next = 1
        /\ classRef' = [classRef EXCEPT ![BlockOf(t)] = TRUE]
    BY <1>10, Destinations DEF Store
  <2>2. ASSUME NEW name \in BlockNames, classRef'[name]
        PROVE  \/ methodId'[name] = IdsOf(name)
               \/ \E u \in Threads : pc'[u].at = "get" /\ Blocks[pc'[u].block] = name
    <3>1. CASE BlockOf(t) = name  BY <2>1, <3>1 DEF BlockOf
    <3>2. CASE BlockOf(t) # name
      <4>1. classRef[name]  BY <2>1, <2>2, <3>2 DEF NativeTypeOK
      <4> QED BY <1>9, <2>1, <4>1
    <3> QED BY <3>1, <3>2
  <2> QED BY <1>8, <2>1, <2>2
<1>11. CASE Get(t)
  <2> DEFINE length == Len(MethodIds[BlockOf(t)])
             next == pc[t].next
  <2>1. /\ methodId' = [methodId EXCEPT ![BlockOf(t)] = @ \union {MethodIds[BlockOf(t)][next]}]
        /\ classRef' = classRef /\ pc[t].at = "get" /\ pc[t] \in Place
        /\ pc'[t] = IF next < length THEN [pc[t] EXCEPT !.next = @ + 1]
                                     ELSE InBlock("verify", pc[t].block)
    BY <1>2, <1>11, PlacesAreTyped DEF Get, Goto, NativeTypeOK
  <2>2. length \in 2 .. 3 /\ next \in 1 .. 3 /\ next <= length
    BY <2>1, <1>7, IdsByPosition DEF IdsBelongToBlocks, Place
  <2>3. \A i \in 1 .. next : MethodIds[BlockOf(t)][i] \in methodId'[BlockOf(t)]
    <3>1. MethodIds[BlockOf(t)][next] \in methodId'[BlockOf(t)]
      BY <1>7, <2>1 DEF NativeTypeOK
    <3>2. ASSUME NEW i \in 1 .. next - 1
          PROVE  MethodIds[BlockOf(t)][i] \in methodId'[BlockOf(t)]
      BY <1>4, <1>6, <1>7, <2>1
    <3> HIDE DEF next
    <3>3. \A i \in 1 .. next : i = next \/ i \in 1 .. next - 1  BY <2>2
    <3> QED BY <3>1, <3>2, <3>3
  <2>4. CASE next < length
    <3>1. pc'[t].at = "get" /\ pc'[t].block = pc[t].block /\ pc'[t].next = next + 1
      BY <2>1, <2>4 DEF Place
    <3>2. \A name \in BlockNames : classRef'[name] =>
            \/ methodId'[name] = IdsOf(name)
            \/ \E u \in Threads : pc'[u].at = "get" /\ Blocks[pc'[u].block] = name
      <4> TAKE name \in BlockNames
      <4>1. CASE BlockOf(t) = name  BY <3>1, <4>1 DEF BlockOf
      <4>2. CASE BlockOf(t) # name  BY <1>9, <2>1, <4>2
      <4> QED BY <4>1, <4>2
    <3>3. \A i \in 1 .. pc'[t].next - 1 :
            MethodIds[Blocks[pc'[t].block]][i] \in methodId'[Blocks[pc'[t].block]]
      <4> HIDE DEF next
      <4>1. pc'[t].next - 1 = next  BY <2>2, <3>1
      <4> QED BY <2>3, <3>1, <4>1 DEF BlockOf
    <3> QED BY <1>8, <3>1, <3>2, <3>3
  <2>5. CASE ~(next < length)
    <3>1. pc'[t].at = "verify" /\ pc'[t].block = pc[t].block
      BY <2>1, <2>5 DEF InBlock
    <3>2. methodId'[Blocks[pc'[t].block]] = IdsOf(Blocks[pc'[t].block])
      <4>1. next = length
        <5> HIDE DEF next, length
        <5> QED BY <2>2, <2>5
      <4>2. \A id \in IdsOf(BlockOf(t)) : id \in methodId'[BlockOf(t)]
        BY <1>7, <2>3, <4>1, IdsByPosition
      <4>3. methodId'[Blocks[pc[t].block]] = IdsOf(Blocks[pc[t].block])
        BY <1>3, <1>7, <4>2 DEF IdsBelongToBlocks, BlockOf
      <4> QED BY <3>1, <4>3
    <3>3. \A name \in BlockNames : classRef'[name] =>
            \/ methodId'[name] = IdsOf(name)
            \/ \E u \in Threads : pc'[u].at = "get" /\ Blocks[pc'[u].block] = name
      <4> TAKE name \in BlockNames
      <4>1. CASE Blocks[pc'[t].block] = name  BY <3>2, <4>1
      <4>2. CASE Blocks[pc'[t].block] # name  BY <1>9, <2>1, <3>1, <4>2 DEF BlockOf
      <4> QED BY <4>1, <4>2
    <3> QED BY <1>8, <3>1, <3>2, <3>3
  <2> QED BY <2>4, <2>5
<1>12. CASE ~Store(t) /\ ~Get(t)
  <2>1. classRef' = classRef
    BY <1>12 DEF Step, Call, Check, Find, Verify, GetChars, Parse, Traverse, Destroy, Release
  <2>2. pc[t].at # "get" /\ pc'[t].at \notin {"get", "verify"}
    <3>1. CASE Call(t) \/ Check(t) \/ Find(t) \/ Verify(t)
      BY <3>1, Destinations
    <3>2. CASE GetChars(t) \/ Parse(t) \/ Traverse(t) \/ Destroy(t) \/ Release(t)
      BY <3>2 DEF GetChars, Parse, Traverse, Destroy, Release, Goto, At, NativeTypeOK
    <3> QED BY <1>12, <3>1, <3>2 DEF Step
  <2> QED BY <1>8, <1>9, <2>1, <2>2
<1> QED BY <1>10, <1>11, <1>12
-----------------------------------------------------------------------------
(* The invariant holds. *)

\* Before any call of parse() the inductive invariant holds.
LEMMA InitIsFine == Init => IInv
<1> SUFFICES ASSUME Init PROVE IInv
  OBVIOUS
<1>1. NativeTypeOK
  <2>1. \A t \in Threads : pc[t] \in Place /\ pc[t].at = "idle"
    BY DEF Init, At, Place, Statements
  <2> QED BY <2>1, NativeAssumption DEF Init, NativeTypeOK, At, Statements
<1>2. \A t \in Threads : pc[t].at = "idle"
  BY DEF Init, At
<1>3. IdsBelongToBlocks /\ HoldingFollowsPlace /\ LookupsAreKept
  BY <1>2 DEF Init, IdsBelongToBlocks, HoldingFollowsPlace, LookupsAreKept
<1>4. ReferencesAreCounted
  <2> SUFFICES ASSUME NEW name \in BlockNames
               PROVE  globals[name] + Cardinality(Storing(name)) <= Cardinality(Threads)
    BY DEF ReferencesAreCounted, Init
  <2>1. globals[name] = 0  BY DEF Init
  <2>2. Cardinality(Storing(name)) <= Cardinality(Threads)
    BY StoringIsFinite, FewerAreStoring, NativeAssumption
  <2> QED BY <2>1, <2>2, StoringIsFinite
<1> QED BY <1>1, <1>3, <1>4 DEF IInv

\* Every step of every thread keeps the inductive invariant.
LEMMA NextKeeps == IInv /\ [Next]_vars => IInv'
<1> SUFFICES ASSUME IInv, [Next]_vars PROVE IInv'
  OBVIOUS
<1>1. ASSUME NEW t \in Threads, Step(t) PROVE IInv'
  BY <1>1, TypesAreKept, IdsStayInTheirBlocks, HoldingIsKept, ReferencesStayCounted, LookupsStayKept
     DEF IInv
<1>2. CASE UNCHANGED vars
  <2>1. NativeTypeOK'  BY <1>2 DEF IInv, NativeTypeOK, vars
  <2>2. IdsBelongToBlocks'  BY <1>2 DEF IInv, IdsBelongToBlocks, BlockOf, vars
  <2>3. HoldingFollowsPlace'  BY <1>2 DEF IInv, HoldingFollowsPlace, vars
  <2>4. ReferencesAreCounted'
    <3>1. \A name \in BlockNames : Storing(name)' = Storing(name)
      BY <1>2 DEF Storing, BlockOf, vars
    <3> QED BY <1>2, <3>1 DEF IInv, ReferencesAreCounted, vars
  <2>5. LookupsAreKept'  BY <1>2 DEF IInv, LookupsAreKept, HasAllIds, BlockOf, vars
  <2> QED BY <2>1, <2>2, <2>3, <2>4, <2>5 DEF IInv
<1> QED BY <1>1, <1>2 DEF Next, Step

\* The inductive invariant of NativeLib: types, the ids of each block, what each thread holds,
\* the references made and on their way, and the lookups kept.
THEOREM Invariance == Spec => []IInv
BY InitIsFine, NextKeeps, PTL DEF Spec

\* The globals, the threads and the resources stay well typed (native-lib.cpp:13-19, 94-151).
THEOREM TypeCorrectness == Spec => []NativeTypeOK
<1>1. IInv => NativeTypeOK  BY DEF IInv
<1> QED BY <1>1, Invariance, PTL

\* For any number of threads and failures parse() gives back the characters and the tree it took.
THEOREM Resources == Spec => []ResourcesAreReturned
<1>1. IInv => ResourcesAreReturned
  BY DEF IInv, HoldingFollowsPlace, ResourcesAreReturned, NativeTypeOK
<1> QED BY <1>1, Invariance, PTL

\* For any number of threads and failures a class has at most one global reference per thread.
THEOREM GlobalReferences == Spec => []OneGlobalPerThread
<1>1. IInv => OneGlobalPerThread
  <2> SUFFICES ASSUME IInv, NEW name \in BlockNames
               PROVE  globals[name] <= Cardinality(Threads)
    BY DEF OneGlobalPerThread
  <2>1. globals[name] \in Nat /\ globals[name] + Cardinality(Storing(name)) <= Cardinality(Threads)
    BY DEF IInv, NativeTypeOK, ReferencesAreCounted
  <2> QED BY <2>1, StoringIsFinite
<1> QED BY <1>1, Invariance, PTL

\* Unless a lookup fails, a class that is set has its ids whenever no thread is initialising.
THEOREM QuietGlobals == Spec => []QuietGlobalsAreComplete
<1>1. IInv => QuietGlobalsAreComplete
  BY DEF IInv, LookupsAreKept, QuietGlobalsAreComplete, Initialising
<1> QED BY <1>1, Invariance, PTL
=============================================================================
