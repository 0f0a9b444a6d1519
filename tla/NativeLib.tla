------------------------------ MODULE NativeLib ------------------------------
(***************************************************************************)
(* The JNI function parse() of native-lib.cpp, called by any number of     *)
(* threads, each with a transformer of its own.  The process-wide class    *)
(* references and method ids are initialised by the first calls, without a *)
(* lock: every read and write of a global is a step.  The parse and the    *)
(* walk of the tree are one step each (SaxTraversal is the walk).          *)
(***************************************************************************)
EXTENDS Naturals, FiniteSets, Sequences

CONSTANTS
  Threads,           \* the threads that call parse()
  MaxLookupFailures  \* bound: the calls of FindClass and GetMethodID that fail

ASSUME NativeAssumption == IsFiniteSet(Threads) /\ MaxLookupFailures \in Nat

\* The two blocks of globals, in the order they are initialised, and their method ids.
Blocks == <<"TagCallback", "HashMap">>
MethodIds == [TagCallback |-> <<"onStartTag", "onEndTag", "onText">>, HashMap |-> <<"<init>", "put">>]
BlockNames == DOMAIN MethodIds

VARIABLES
  classRef,  \* g_tagCallbackClass, g_hashMapClass: set or nullptr
  methodId,  \* the jmethodID globals: set or nullptr
  globals,   \* how many global references NewGlobalRef made for the class
  pc,        \* where each thread is, [at, block, next]: the statement, its block, the id it looks up
  chars,     \* the threads that hold html_chars
  output,    \* the threads that hold a GumboOutput
  failures   \* how many lookups failed

vars == <<classRef, methodId, globals, pc, chars, output, failures>>

Statements == {"idle", "check", "find", "store", "get", "verify", "chars", "parse", "traverse",
               "destroy", "release", "crashed"}

At(statement) == [at |-> statement, block |-> 1, next |-> 1]
InBlock(statement, block) == [at |-> statement, block |-> block, next |-> 1]

IdsOf(name) == {MethodIds[name][i] : i \in DOMAIN MethodIds[name]}

\* The static globals, the threads inside parse() and what they hold keep their types.
NativeTypeOK ==
  /\ classRef \in [BlockNames -> BOOLEAN]
  /\ methodId \in [BlockNames -> SUBSET UNION {IdsOf(name) : name \in BlockNames}]
  /\ globals \in [BlockNames -> Nat]
  /\ pc \in [Threads -> [at: Statements, block: 1 .. 2, next: 1 .. 3]]
  /\ chars \subseteq Threads
  /\ output \subseteq Threads
  /\ failures \in 0 .. MaxLookupFailures

Init ==
  /\ classRef = [name \in BlockNames |-> FALSE]
  /\ methodId = [name \in BlockNames |-> {}]
  /\ globals = [name \in BlockNames |-> 0]
  /\ pc = [t \in Threads |-> At("idle")]
  /\ chars = {}
  /\ output = {}
  /\ failures = 0

BlockOf(t) == Blocks[pc[t].block]
Goto(t, place) == pc' = [pc EXCEPT ![t] = place]

\* After a block comes the next one, after the last the conversion of the string.
NextBlock(t) == IF pc[t].block < Len(Blocks) THEN InBlock("check", pc[t].block + 1) ELSE At("chars")

Call(t) ==
  /\ pc[t].at = "idle"
  /\ Goto(t, InBlock("check", 1))
  /\ UNCHANGED <<classRef, methodId, globals, chars, output, failures>>

\* Mutant: the block is entered until all its ids are there.
CheckByIds(t) ==
  /\ pc[t].at = "check"
  /\ Goto(t, IF methodId[BlockOf(t)] = IdsOf(BlockOf(t)) THEN NextBlock(t)
                                                       ELSE InBlock("find", pc[t].block))
  /\ UNCHANGED <<classRef, methodId, globals, chars, output, failures>>

\* if (!g_...Class): a thread that finds the class set skips the block, ids and all.
Check(t) ==
  /\ pc[t].at = "check"
  /\ Goto(t, IF classRef[BlockOf(t)] THEN NextBlock(t) ELSE InBlock("find", pc[t].block))
  /\ UNCHANGED <<classRef, methodId, globals, chars, output, failures>>

LookupFails == failures < MaxLookupFailures /\ failures' = failures + 1

Find(t) ==
  /\ pc[t].at = "find"
  /\ \/ Goto(t, InBlock("store", pc[t].block)) /\ UNCHANGED failures
     \/ Goto(t, At("idle")) /\ LookupFails
  /\ UNCHANGED <<classRef, methodId, globals, chars, output>>

\* g_...Class = NewGlobalRef(...), before any of its method ids is known.
Store(t) ==
  /\ pc[t].at = "store"
  /\ classRef' = [classRef EXCEPT ![BlockOf(t)] = TRUE]
  /\ globals' = [globals EXCEPT ![BlockOf(t)] = @ + 1]
  /\ Goto(t, InBlock("get", pc[t].block))
  /\ UNCHANGED <<methodId, chars, output, failures>>

\* Mutant: one lookup too many.
GetPastTheLast(t) ==
  LET ids == MethodIds[BlockOf(t)]
  IN  /\ pc[t].at = "get"
      /\ methodId' = [methodId EXCEPT ![BlockOf(t)] = @ \union {ids[pc[t].next]}]
      /\ Goto(t, IF pc[t].next <= Len(ids) THEN [pc[t] EXCEPT !.next = @ + 1]
                                           ELSE InBlock("verify", pc[t].block))
      /\ UNCHANGED <<classRef, globals, chars, output, failures>>

\* Mutant: the last id of a block is never looked up.
GetButTheLast(t) ==
  LET ids == MethodIds[BlockOf(t)]
  IN  /\ pc[t].at = "get"
      /\ methodId' = [methodId EXCEPT ![BlockOf(t)] = @ \union {ids[pc[t].next]}]
      /\ Goto(t, IF pc[t].next < Len(ids) - 1 THEN [pc[t] EXCEPT !.next = @ + 1]
                                              ELSE InBlock("verify", pc[t].block))
      /\ UNCHANGED <<classRef, globals, chars, output, failures>>

\* g_...MethodID = GetMethodID(...): a failed lookup stores nullptr, over whatever was there.
Get(t) ==
  LET ids == MethodIds[BlockOf(t)]
      id == ids[pc[t].next]
  IN  /\ pc[t].at = "get"
      /\ \/ methodId' = [methodId EXCEPT ![BlockOf(t)] = @ \union {id}] /\ UNCHANGED failures
         \/ methodId' = [methodId EXCEPT ![BlockOf(t)] = @ \ {id}] /\ LookupFails
      /\ Goto(t, IF pc[t].next < Len(ids) THEN [pc[t] EXCEPT !.next = @ + 1]
                                          ELSE InBlock("verify", pc[t].block))
      /\ UNCHANGED <<classRef, globals, chars, output>>

HasAllIds(name) == methodId[name] = IdsOf(name)

\* A missing id ends this call; the class stays set.
Verify(t) ==
  /\ pc[t].at = "verify"
  /\ \/ HasAllIds(BlockOf(t)) /\ Goto(t, NextBlock(t))
     \/ ~HasAllIds(BlockOf(t)) /\ Goto(t, At("idle"))
  /\ UNCHANGED <<classRef, methodId, globals, chars, output, failures>>

GetChars(t) ==
  /\ pc[t].at = "chars"
  /\ \/ Goto(t, At("parse")) /\ chars' = chars \union {t}
     \/ Goto(t, At("idle")) /\ UNCHANGED chars
  /\ UNCHANGED <<classRef, methodId, globals, output, failures>>

\* Mutant: a failed parse returns with the string.
ParseKeepingChars(t) ==
  /\ pc[t].at = "parse"
  /\ \/ Goto(t, At("traverse")) /\ output' = output \union {t}
     \/ Goto(t, At("idle")) /\ UNCHANGED output
  /\ UNCHANGED <<classRef, methodId, globals, chars, failures>>

\* gumbo_parse_with_options; a failed parse releases the string and returns.
Parse(t) ==
  /\ pc[t].at = "parse"
  /\ \/ Goto(t, At("traverse")) /\ output' = output \union {t} /\ UNCHANGED chars
     \/ Goto(t, At("idle")) /\ chars' = chars \ {t} /\ UNCHANGED output
  /\ UNCHANGED <<classRef, methodId, globals, failures>>

\* The walk calls back through all the ids; a null id ends the process.
Traverse(t) ==
  /\ pc[t].at = "traverse"
  /\ Goto(t, At(IF \A name \in BlockNames : HasAllIds(name) THEN "destroy" ELSE "crashed"))
  /\ UNCHANGED <<classRef, methodId, globals, chars, output, failures>>

Destroy(t) ==
  /\ pc[t].at = "destroy"
  /\ output' = output \ {t}
  /\ Goto(t, At("release"))
  /\ UNCHANGED <<classRef, methodId, globals, chars, failures>>

Release(t) ==
  /\ pc[t].at = "release"
  /\ chars' = chars \ {t}
  /\ Goto(t, At("idle"))
  /\ UNCHANGED <<classRef, methodId, globals, output, failures>>

Crashed == \E t \in Threads : pc[t].at = "crashed"

Next ==
  /\ ~Crashed
  /\ \E t \in Threads :
       \/ Call(t)
       \/ Check(t)
       \/ Find(t)
       \/ Store(t)
       \/ Get(t)
       \/ Verify(t)
       \/ GetChars(t)
       \/ Parse(t)
       \/ Traverse(t)
       \/ Destroy(t)
       \/ Release(t)

Spec == Init /\ [][Next]_vars

-----------------------------------------------------------------------------
Initialising(t) == pc[t].at \in {"find", "store", "get", "verify"}

\* Every way out of parse() gives back what the call took, in order: the tree goes before
\* the characters its string pieces point into (the early returns and the end of parse).
ResourcesAreReturned ==
  /\ output \subseteq chars
  /\ \A t \in Threads : pc[t].at = "idle" => t \notin chars \union output
  /\ \A t \in Threads : pc[t].at = "traverse" => t \in output

\* However the calls race and fail, a thread makes at most one global reference to a class:
\* references are not leaked call after call.
OneGlobalPerThread ==
  \A name \in BlockNames : globals[name] <= Cardinality(Threads)

\* Without a failed lookup the globals are complete whenever no thread is inside their
\* initialisation: a first call that has the process to itself makes all later ones safe.
QuietGlobalsAreComplete ==
  (failures = 0 /\ \A t \in Threads : ~Initialising(t)) =>
    \A name \in BlockNames : classRef[name] => HasAllIds(name)

\* "Failed to get method IDs for TagCallback." ends the call: no tree is walked without them.
WalksWithAllIds ==
  \A t \in Threads : pc[t].at = "traverse" => \A name \in BlockNames : HasAllIds(name)
=============================================================================
