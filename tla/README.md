# A TLA+ model of jet-article-core

jet-article-core turns an HTML page into a list of article elements for Android. The page goes
through a vendored copy of the Gumbo HTML5 parser, a JNI function walks the tree Gumbo built and
calls a Kotlin object back for every start tag, end tag and text, and that object keeps a handful
of stacks and flags from which the article grows. This directory holds TLA+ modules of that
system, the configurations TLC checks, and theorems checked by TLAPS.

Paths below are relative to `src/jet-article-core/src/main/`; `Transformer.kt` stands for
`java/com/jet/article/core/ArticleContentTransformer.kt`.

## The system: inventory

| Component | State | Operations | Works with |
|---|---|---|---|
| `ArticleContentTransformer` (Transformer.kt) | builder stack, text builder, style, id and tag stacks, source index counter, ignored depth, four flags, title, filter, base url | `transform`, `onStartTag`, `onEndTag`, `onText`, `flushText` | called back by the walk, synchronously |
| builders (Transformer.kt:18-130) | content; items; rows, current row, current cell | `addElement`, `addItemList`, `startNewRow`, `startNewCell`, `build` | on the builder stack |
| text clean-up (Transformer.kt:465-579) | positions of the loops | `dedent`, `collapseWhitespace`, `trimWhitespace` | called by `flushText` |
| links (Transformer.kt:522-527, 581-629, UrlUtils.kt, Link.kt) | none | `getLink`, `validateLink`, `toDomainName` | called by `onStartTag`; may throw |
| walk (cpp/native-lib.cpp:22-92) | the recursion | `traverse_gumbo_node_sax` | calls the transformer through JNI |
| JNI entry point (cpp/native-lib.cpp:13-19, 94-151) | process-wide class references and method ids; per call the characters and the tree | `parse` | any number of threads share the globals |
| Gumbo tree construction (parser.c) | insertion mode, open elements, active formatting elements, template modes, text buffer, tree | one handler per insertion mode | pulls tokens; sets tokenizer states |
| Gumbo tokenizer (tokenizer.c, char_ref.*) | lexer state, temporary buffers, tag and doctype being built | `gumbo_lex` | reads the UTF-8 iterator |
| UTF-8 iterator (utf8.c) | position, mark, current code point, width | `next`, `mark`, `reset`, `maybe_consume_match` | the input string |
| vector, string buffer (vector.c, string_buffer.c) | data, length, capacity | add, insert, remove, append, reserve | used by all of Gumbo |
| errors, attributes, tags, util | none of their own | look-ups, formatting, `malloc` wrappers | used by Gumbo |
| Kotlin JNI side, data classes, UTILS.kt, nativelib.cpp | none | declarations, deprecated intents, a stub | - |

What makes each part correct, and what is hard about it:

* **Transformer.** No operation knows the tree: the stacks are the only memory of where the walk
  is. They must be pushed and popped in step with the elements, though ignored elements, the head,
  `<title>` and `<body>` each take a path of their own through the callbacks. Text is gathered long
  before it becomes an element; the element's label, ids, source index and builder are those of the
  moment of the flush. An exception leaves everything as it is for the next `transform`.
* **JNI entry point.** Lazily initialised globals without a lock, and early returns that must give
  back what was taken.
* **Gumbo.** Tables of modes that pass tokens to each other, list surgery in the adoption agency
  algorithm, foster parenting, index bookkeeping in the tree, and byte-level decoding with marks.

The hazards, each at its line and with the properties that cover it, are in `PROJECT.json`.

## Modules

The article:

| Module | What it is |
|---|---|
| `ArticleContentTransformer` | the component alone: its state, the builders, one action per callback and branch |
| `SaxTraversal` | one thread's `transform` calls: the walk drives the component; EXTENDS it. Structural invariants |
| `ArticleDocument` | the article as a reader sees it: order, words, labels, links; the refinement. What is read of nested elements is a recursive function |
| `ArticleStream` | abstract specification: an article is the visible words of the page, in order, each once; a text is shown, hidden or blank by its kind and its place alone |
| `TextCleanup` | `dedent`, `collapseWhitespace`, `trimWhitespace` loop by loop, over a text with its ranges |
| `NativeLib` | `parse()` called by any number of threads: globals, resources |
| `ArticleProofs`, `NativeLibProofs` | theorems of these: the builders and the structural invariants, the words of the article, their order and the refinement; `parse()` |

The parser, from the bytes upwards; within a layer (decoding, tokenizer, tree) each module EXTENDS those it
builds on:

| Module | What it is |
|---|---|
| `Utf8Iterator` | utf8.c: decoding, newlines, positions, mark, reset, match |
| `CharRef` | char_ref.c: numeric references, named ones as the longest match in a table |
| `GumboStringBuffer` | string_buffer.c: bytes and capacity |
| `TextDecoding` | a reader of text or of an attribute value: iterator, references and buffer together |
| `TextReference` | the same text said without an iterator, as a function of the whole input |
| `JniText` | the bytes JNI makes of a Java string |
| `TextDecodingProofs` | the theorems of decoding: the iterator, the references and the buffer |
| `TokenizerState` | tokenizer.c: the state and the operations handlers are made of |
| `TokenizerText`, `TokenizerTags`, `TokenizerMarkup` | the handlers of text, of tags, of comments, doctypes and CDATA |
| `Tokenizer` | `gumbo_lex` as a whole, and what its tokens have to do with the page |
| `TokenizerProofs`, `TokenStreamProofs`, `TextContentProofs` | the theorems of the tokenizer: its buffers and what it owns; its tokens and the page; the elements whose content is text |
| `GumboVector` | vector.c: sequences with the indexes of the code |
| `GumboTree` | the nodes of the document and the operations that link them |
| `ParserState` | parser.c: the state, text buffer, stack of open elements, scopes, active formatting elements, insertion locations |
| `AdoptionAgency` | `adoption_agency_algorithm` |
| `HeadModes`, `BodyMode`, `TableModes` | the insertion modes |
| `TreeConstruction` | the main loop, foreign content, and the properties of the tree |
| `ParserOperationsProofs` | what the operations on nodes, stack and lists keep, up to the adoption agency |
| `TreeConstructionProofs` | the theorems of the parser: what every handler of every insertion mode keeps, and so the loop |

The modules whose names begin with `MC` are the instances for TLC.

How they compose: the tokenizer reads the iterator, the parser reads the tokenizer, and the walk
reads the tree. One state space for all of it is out of reach, so each layer is checked against
everything the layer below may hand it: the tokenizer over units the iterator delivers, tree
construction over tokens in any order in which the tokenizer can emit them, the walk over element
nestings wider than those the parser builds. What `DocumentAssumption` of `SaxTraversal` assumes of
a page (one html with one head and then one body) is what `PageHasItsShape` shows of the parser, for pages without a
frameset and without misnamed foreign elements (see Findings).

### How the transformer is modelled

Each Kotlin field has its variable: `mStyleStack` is `styleStack`, and so on; `mBuilderStack`,
the element objects, `mSourceIndexCounter` and `mAnnotatedStringBuilder` are the four fields of
the record `output`. Element objects are kept in `output.built` in the order of their creation,
and builders hold their positions, as Kotlin lists hold references.

Data abstraction:

* A text node is a numbered word, or blank without (`space`) or with (`lines`) a line break.
  `TextIsVisible` is what `collapseWhitespace`, `trimWhitespace` and `dedent` leave of it: something
  or nothing. A text in `<pre>` that is one line of blanks is kept by `dedent`.
  What the functions do to the characters and ranges is in `TextCleanup`.
* An `AnnotatedString` is its words, each with the set of its styles and its open links. That a
  link is a property of the builder and not of the transformer is kept: `flushText` replaces the
  builder, and the links with it.
* A link is a name; `Unresolvable` names those `URI.resolve` refuses with an
  `IllegalArgumentException`, which nothing catches (`StartThrows`).
* The custom tag filter is the set `Rejected` of pairs of tag and class attribute. `onStartTag`
  asks with the attributes of the element, `onEndTag` with none (`NoClass`).

`onStartTag` is the disjunction `OnStartTag` of one action per branch of its early returns and of
its `when`; `onEndTag` likewise. What branches share is `Enter` and `Leave`. A callback that throws
keeps what it did before the exception, for nothing is rolled back: `StartThrows` has pushed the
entries and the style of the `<a>` (`TakeIn`) when its link cannot be resolved; `EndThrows` has
flushed the text and popped the builder when the cast or `first()` fails; where an id is popped from
an empty stack, the second disjunct of `PopStacks`, all the rest of the end tag is done, the depth
lowered among it. Afterwards only the next `transform` runs, which resets every field. In
the program the exception stays pending in the native walk until `parse` returns, and the walk
goes on calling JNI functions meanwhile, which JNI leaves undefined; the models stop there.

### How the walk is modelled

`path` is the recursion of `traverse_gumbo_node_sax`: the elements started and not ended. The tree
is not stored; the walk picks the next node among those the constants `BodyElements`,
`HeadElements` and `Nesting` allow, below the skeleton html, head, body every Gumbo document has.
The callbacks are synchronous on one thread, so each is one step. `received` is a history variable
that remembers where each text stood. `TransformAgain` is the next `transform` on the same object,
after a return or an exception, so that whatever a transform leaves behind is met by the next one.

In the configurations `text` and `asymmetric` almost any element may stand in any
other, more than the HTML parser builds: an invariant there does not rest on how well Gumbo nests.
`page`, `cells` and `link` use nestings the parser does build.

For a tag the parser does not know, `tagName` points into a destroyed temporary
(native-lib.cpp:48). The string made of it is used for both callbacks, so the element behaves as one
with some other name, which the free nestings cover as far as the name is among their elements.

### How parse() is modelled

Every statement of `parse` that reads or writes a global is a step of its thread, `pc[t]`; the
parse and the walk are one step each. `globals` counts the calls of `NewGlobalRef`. A lookup fails
at most `MaxLookupFailures` times. A walk with a null method id ends the process (`crashed`).

### How the text clean-up is modelled

An annotated string is its characters and a set of ranges, `[item, start, end]` with the end outside,
in the positions of the code. `SubSequence` and `Plus` are what Compose's `subSequence` and
`append` do with the ranges, `LineBounds` is Kotlin's `lines()`, with its three line ends. A round
of a loop is a step. `Texts` gives characters, items and whether the text is preformatted; `Init` puts
every item on every part. The properties compare what is left with the text, character by character,
without the positions the loops compute. That nothing is left of blanks outside `<pre>` and of several
blank lines inside it, but one blank line is kept, is what `TextIsVisible` assumes.

### How decoding is modelled

Bytes and code points are numbers. `ReadChar` is `read_char` with the decoder's table folded into the
ranges it encodes (`Expecting`, `AfterFirst`). Each call of `utf8iterator_next` in a loop of
`consume_char_ref` is a step, so loops of the code are loops of the model; the context of a reader
says which characters stop it and which character must not follow an `&`. The automaton of the named
references, 22 800 generated lines, is its longest match in the constant `NamedReferences`.

### How the tokenizer is modelled

A unit of input is a character, a character reference or a run of letters that each handler treats
as it treats one letter. The page is not known in advance: a shape says which units may come at each
place, and a unit is chosen when the iterator first stands on it; every page may end anywhere. Each
handler of the `dispatch_table` is an action or a disjunction of its branches; `EmitBuffered` and
`FlushTemporary` are the two things `gumbo_lex` does before it dispatches. What the parser tells the
tokenizer (text states after certain start tags, foreign content) is taken from the tokens the model
emits. The source position of every token is kept, as a history, to compare tokens with the page.
Branches for U+0000 are left out: `gumbo_parse` takes the length with `strlen`.
So are references to a blank (`&#32;`, `&Tab;`), whose token is of white space (`get_char_token_type`, tokenizer.c:322-342)
where `EmitCharRef` has a character; no property depends on it. The second character of a reference is never blank.

### How tree construction is modelled

A node is named by its place in the order of allocation. The state of the parser is one record; an
operation takes a state and gives the next one, and a handler is an operation that takes a token as
well. One round of the loop of `gumbo_parse_with_options` is a step. A handler that ends in the call of
another (`handle_in_body`, `handle_in_head`, `handle_in_table`, `handle_in_select`) returns with
the mode of that one (`HandOn`), and `HtmlContent` makes the calls in the one order in which the code can make
them: own rules, table or select, body, head. A failing assertion is remembered (`sound`): those of the operations on nodes, of
`pop_current_node` (line 929), and of the handlers, the last branch of `handle_in_template` (line 3640) among
them. Two assertions stand in functions that only read, `get_current_node` (line 523) and the search of a scope
(line 1422). They are no claims; both follow, whenever a handler begins, from `ListsAreSound`: the stack is empty only before there
is a root, and its bottom is the root, an html element, which ends every scope. `homes` is a
history: in which block each character was read.

## What is checked

All runs are exhaustive. "Bounds" names the constants that make them finite.

| Run | Bounds | Shows |
|---|---|---|
| `text` | 3 elements below head and body, path of 6, 2 texts | in any nesting of formatting, links, headings, preformatted text, quotations, images, lists, items, tables and an ignored tag: `IgnoredDepthIsExact`, `FlagsMirrorPath`, `StacksMirrorPath`, `BuildersMirrorPath`, `SourceIndexesInDocumentOrder`, `WordsHaveTheirStyles`, `WordsHaveNoForeignLink`, `TextsAreLabelledByTheirPlace`, `OnlyLinksThrow` |
| `page` | 4 elements, path of 7, 2 texts | `EveryElementHasOnePlace`, `IgnoredSubtreesAreSilent`, and that the system implements `ArticleStream` (`ReadsAsThePage`) on well-nested pages with a filter |
| `asymmetric` | 4 elements, path of 7, 1 text | a filter that decides by attributes: exceptions do happen, and what the throwing callbacks leave (entries pushed, a builder popped, the depth lowered) keeps to `TypeOK` |
| `cleanup` | texts of 5 characters with a style and a link on any part; preformatted texts of 3 lines with a style | `CollapsedTextIsTheWords`, `DedentedLinesAreTheLines` |
| `cells` | as `page` | violation of `CellsHoldTableContent` |
| `link` | 3 elements, path of 6, 2 texts | violation of `AnchorsKeepTheirLink` |
| `native_calls` | 3 threads, 1 failed lookup | `NativeTypeOK`, `ResourcesAreReturned`, `OneGlobalPerThread`, `QuietGlobalsAreComplete` |
| `native_race` | 2 threads, no failure | violation of `WalksWithAllIds` |
| `text_bytes` | chains of 3 out of 15 fragments of malformed UTF-8 and newlines, and of 12 pieces of references, the latter in text and in quoted and unquoted values | `TextTypeOK` with no write past the buffer, `IteratorInBounds`, `DeliveredTextIsTheText`, `IteratorReportsWhatItReads`; liveness `EveryInputEnds` |
| `java_text` | strings of 2 out of a letter, the euro sign, an emoji and "<" | violation of `JavaTextArrives` |
| `tokens` | 18 families of pages: all pages of 4 general units, and for each kind of markup those of up to 12 units through all of its states | `TokenizerTypeOK`, `TemporaryBufferIsTheInput`, `OwnedWhileOpen`, `TokensAreTheInput`, `EndTagsOfText`, `AttributesAreTheFirst`, `FirstDoctypeHasStrings`; liveness `PageEnds` |
| `tree` | 24 families of pages of up to 13 tokens, one for each part of the rules | `LinksAgree`, `AssertionsHold`, `ListsAreSound`, `TablesHoldTableContent`, `PageHasItsShape`, `TextIsInOrder`, `TextStaysInItsBlock`; liveness `PageIsParsed` |

Why the bounds are enough. In the article the stacks interact through nesting: two containers in each
other and a third beside or in them bring every pair of branches in every order. A word can only be
mislabelled by what is open when it comes and what is open when it is flushed: two texts and three
elements give every such pair with one element to spare; deeper lists and tables are met by `page`. The
structural invariants of `text` are proved for any number of elements. In `native_calls` a third thread sees the
globals in any state two racing threads can leave; symmetry in the threads is sound, for no
property names one.

The decoder remembers at most the three bytes of an unfinished sequence and, at a reference, the mark:
three fragments, some of them of two or three bytes, bring each lead byte before each class of what
breaks it, at the end of the input too. The tokenizer remembers its state, the temporary buffer back to
the mark, and the tag, doctype or last tag name: four units reach and leave each state of plain
markup, and the families go through the longer ones (script escapes, doctypes, duplicate
attributes) whole. In the tree, the adoption agency needs a formatting element, a block and what
stands between and behind them, and its inner counter stops at three: `Nesting` has five between; a
mode meets each token it has a clause for in a family of its own, after the tokens that lead to it.

`CHECK_DEADLOCK FALSE` is set where the program stops: `native_calls`, since a crash ends the process,
and `cleanup`, `text_bytes`, `java_text`, `tokens` and `tree`, which end with their input. In the other
runs a transform is always followed by another one or leaves the walk something to do.

### Fairness and liveness

The transformer needs no fairness: its callbacks are synchronous, nothing in it waits, and the end of
a walk is the end of a finite tree. The loops of the parser are where progress can fail: each runs on the
calling thread until it is done, so weak fairness of the next step is what the code's
scheduling gives. `TextDecoding` and `Tokenizer` state `WF_vars(Next)`; a run that takes a reference
or a state back for ever would be a loop of states, or a page that grows without an end. `EveryInputEnds`
says that every byte sequence is used up, `PageEnds` that `gumbo_lex` delivers every page to its
end. In the tree a token that two modes hand to each other for ever need not change the state:
`Turns` flips `turn` in every round, as `loop_count` grows, and the fairness is of this
(`WF_turn(Turns)`), so a loop that changes nothing else counts as a loop. `PageIsParsed` then says that no token
is handed back without an end, which the code guards by an assertion on `loop_count` only
(parser.c:4145).

### Findings

* **Text before a table lands in the table** (`cells`). `<table>` is not a block tag, so the text
  pending in front of it is not flushed at its start but by its first row, when the table's builder
  is on top. The text becomes a cell's content, contrary to the documentation of `TableCell`
  (ArticleElement.kt:92, "The list of ContentElements within the cell.").
* **A link is lost at a block inside it** (`link`). The comment in `onEndTag` (Transformer.kt:374)
  explains the failing `pop` by an `<a>` without an href. It fails for `<a href><div>..</div>..</a>`
  too: the flush replaced the text builder and dropped the link, and text after the block that
  still stands in the link has none.
* **Method ids can be used before they are set** (`native_race`). `parse` returns when a method id is
  missing ("Failed to get method IDs for TagCallback.", native-lib.cpp:118), but it tests the class
  first, which another thread sets before the ids.
* **Characters outside the basic plane are lost** (`java_text`). `parse` gives Gumbo what
  `GetStringUTFChars` returns (native-lib.cpp:137, 140), which is modified UTF-8, while gumbo.h:649 says
  that `gumbo_parse` "Parses a buffer of UTF8 text": an emoji in a page arrives as six
  replacement characters.

Places where code and comment differ, or the code does what its author will not have meant, without a run
of their own:

* A CR LF in a `<pre>`, which `&#13;` brings in, is one line end to `lines()` and one character to the
  positions of `dedent` (Transformer.kt:496, 515, "Move to the start of the next line in the
  original text"): all later lines are cut one character too early, and characters at the end are lost.
  `DedentedLinesAreTheLines` leaves such texts out; TLC shows the loss for the text CR LF, letter once they are let in.
* utf8.h:54-55 says the mark is "initially set to the beginning of the input"; `utf8iterator_init` leaves
  it unset. No reader resets before it has marked (`IteratorInBounds`).
* error.h:142-143 calls offsets "character-based"; they count bytes. string_buffer.h:37 says the data is
  NULL if and only if the length is 0; a cleared buffer keeps its allocation.
* The number of a numeric reference is computed in an `int` without a limit (char_ref.c:142); references
  that overflow are left out of `DeliveredTextIsTheText` (`MayOverflow`).
* A malformed character that was looked at before a reset is reported a second time afterwards.
* `handle_before_attr_name_state` and `handle_after_attr_name_state` add the replacement of a NUL to a
  buffer that is not the one being filled (unreachable, since a C string has no NUL).
* `handle_after_doctype_public_keyword_state` and `handle_before_doctype_public_id_state` emit the doctype and go on
  in BOGUS_DOCTYPE (tokenizer.c:2373, 2413), which emits it a second time, now without strings, for the first
  token took them. `FirstDoctypeHasStrings` says that such a token is never the first doctype of the page.
* Step 13.5 of the adoption agency (parser.c:1909) takes an element from the list of active formatting
  elements, not from the stack, and goes on below its place: with more than three elements in
  between, text can come before earlier text, as in `<b><i><u><s><em><p>1</b></p></em></s></u>2`.
  `TextIsInOrder` is stated for up to three (`Deep`).
* After such a step content can get into a table, though the flag for foster parenting is "used for misnested
  table content, which needs to be handled according to "in body" rules yet foster parented outside of the
  table" (parser.c:377-379). In `<b><table><em><b><i><u><s><p></em></b>x`, `</em>` takes the inner `b` from the list
  and leaves it on the stack (parser.c:1927-1938). `</b>` finds the outer `b` in the list, and step 7 asks for an
  element of its tag in scope (line 1842): the inner one is, though the outer one is behind the table. The table becomes
  the furthest block, and a new `b` its child. TLC finds this as soon as the page is added to the run `tree` and
  `~ Deep` is taken from `TablesHoldTableContent`.
* A `<frameset>` takes the body from the root's children by hand (parser.c:2457-2466): later siblings keep an
  index one too high. `_form_element` may still point into the destroyed body; nothing reads it.
* `</form>` (parser.c:2625-2637) takes the form from the stack without flushing the text buffer, so text read in
  it may land outside: `TextStaysInItsBlock` counts a form as an element looked through. In a template it
  returns without popping at all.
* `get_appropriate_insertion_mode` (parser.c:564-624) switches on the tag of an element whatever its namespace
  (line 573), so a foreign element with the name of an html one misleads it, when a table in the foreign
  element ends or a table's cell is looked for. TLC finds all three when such pages are added to the run `tree`:
  - `<template><svg><html><foreignobject><b><table></table><meta><p></b>`: the svg `html` is taken for the root,
    the mode becomes AFTER_HEAD inside the template, `<meta>` pushes the head above its own descendants, and `</b>`
    makes the head a child of one of them: nodes in a ring that the document does not reach.
  - `<table><b><svg><td><foreignobject><select></select><table><i><b><u><s><em><p></i></b>`: the svg `td` is taken for
    a cell, a table opens where no marker separates it from the formatting elements outside, and the
    adoption agency puts a subtree in front of a table that is inside this subtree: a ring again.
  - `<table><td><svg><select><foreignobject><table></table><tr>`: the svg `select` is taken for an open one;
    `close_current_select` (parser.c:1549) finds no html select and pops the whole stack, and `assert(node)` at
    line 714 fails.

  gumbo.h:649 promises of `gumbo_parse` that it "Parses a buffer of UTF8 text into an GumboNode parse tree."
  `PageHasItsShape` is stated for pages without such names (`Misnamed`). The pages of the run have an svg `template`
  and an svg `tr` (the family `Guests`) and no other; these do no harm to the other properties, and the pages above are not among them.
* `get_appropriate_insertion_location` does not look at the namespace of a table; closing a template from inside a
  cell leaves the template's marker on the list; two unknown tags compare equal; the tags of
  `generate_all_implied_end_tags` include HEAD where the standard has THEAD.

Behaviour the models show without a statement of the repository against it: an inner `</pre>` or
`</blockquote>` ends the outer one's effect; a quotation or table directly in a list, and an item
outside a list, are dropped; `TextsAreLabelledByTheirPlace` has no converse.

## What is proved

TLAPS checks the following for all values of the constants: any set of elements, any nesting, any
size and depth of document, any number of texts and of successive transforms; any number of
threads and of failed lookups.

**`NativeLibProofs`.** `TypeCorrectness` (`NativeTypeOK`), `Resources` (`ResourcesAreReturned`),
`GlobalReferences` (`OneGlobalPerThread`) and `QuietGlobals` (`QuietGlobalsAreComplete`), from
`NativeAssumption`. The inductive invariant adds what a thread holds at each statement, that the
references made and those on their way are together at most one per thread (before the class is
set there is none, and a thread that saw it unset makes one), and that a class set without all its
ids has a thread still looking them up.

**`TextDecodingProofs`.** `IteratorStaysInBounds` (`IteratorInBounds`): for any bytes, any table of named
references, any contexts and tab stop, the iterator stays in the source, its byte offset is its place
through newline folding, marks and resets, and no reset goes to a mark that was not set. The
inductive invariant is the bounds, the type of the iterator and source, and that a mark is set whenever a reference is
being read: a reset puts the iterator where the mark is, so the mark must be in bounds as well,
with an offset that is its place. The main lemmas say what one `read_char` consumes.

`TextTypeCorrect` (`TextTypeOK`) adds what is delivered: every code point is one, and the string buffer holds what was
appended and never writes past its capacity. The assumption (`NamedReferencesAssumption`) is on the generated
table: an entry has a name and one or two code points. The invariant needs that the decoder between two bytes
of a sequence promises a code point in range (its lower and upper bound are kept by each further byte), that
the reference found is an entry of the table, and that doubling the capacity until the length fits ends.

**`ArticleProofs`.** Of the structure: `TypeCorrectness` (`TypeOK`), `IgnoredDepth` (`IgnoredDepthIsExact`),
`Flags` (`FlagsMirrorPath`), `Stacks` (`StacksMirrorPath`), `Builders` (`BuildersMirrorPath`) and
`Exceptions` (`OnlyLinksThrow`). Assumptions: the named ones of the modules (`ElementsAssumption`,
`UnresolvableAssumption`, `DocumentAssumption`, `BoundsAssumption`), and in the theorems
`FilterIsMonotone`: a tag the filter rejects without attributes it also rejects with them. Without
it the theorems are false, and the run `asymmetric` reaches the exceptions.

The inductive invariant `IInv` is the conjunction of these six with `DocumentShape` (where the walk
is in the skeleton html, head, body) and `FlagsKnowTheirPlace` (the flags in terms of the accepted
part of the path). None of the six is inductive alone. That an end tag finds the right builder
needs the builders to be those of the open containers; that the stacks are not empty needs the flags,
for an end tag outside head and body pops nothing; which tags are accepted needs the exact ignored
depth; and all of them need that an accepted element is accepted again at its end, which is
`FilterIsMonotone`. There is one lemma per branch of the callbacks (`StartIgnoredKeeps` ...
`ReturnKeeps`). `BuildersMirrorPath` speaks of an enumeration of positions; the enumeration lemmas
say how it grows and shrinks with the path, without induction.

The first lemmas are those of the builders: every builder operator keeps references within the elements
that exist, what each does to the stack of builders, and that `flushText` leaves the stack alone.

Of the words, as a reader sees them, from the same assumptions: `Styling`
(`WordsHaveTheirStyles`), `Linking` (`WordsHaveNoForeignLink`), `Labelling`
(`TextsAreLabelledByTheirPlace`) and `IgnoredSubtrees` (`IgnoredSubtreesAreSilent`, an action property).
They extend the structural invariant by what the transformer holds of the page (`ArticleInvariance`): the style
stack is the styles of the accepted formatting elements of the path, one for one; every word
of the text being gathered, and of every element built, has a place in `received`, with the styles and
among the links of that place; and the text being gathered is all of one block, so that a label that is
true of its last word is true of the others. The last is why the labels hold although a text is labelled only at
its flush.

The last part of the module is about the article as a whole: `DocumentOrder` (`SourceIndexesInDocumentOrder`),
for any nesting of anything; and `PlacesOfElements` (`EveryElementHasOnePlace`) and `Reading` (`ReadsAsThePage`: the
transform implements `ArticleStream`), for pages that are `WellNested`: an item stands in a list, a list holds nothing
but items, a title holds only text. Without that the last two are false: a table directly in a list is dropped, and so
are the words in it. `Nesting` does not tell blank text from words, so the blanks that indented pages have
between items are left out with them. Outside of `<pre>` they flush to nothing; in a `<pre>` around the
list they become an element, which the list drops. The run `text`, whose nesting is free, has such blanks. How an article reads is
defined by recursion (`Joined`, `Preorder`), and the prover has no induction over data; the lemmas it needs are about
a function and a number, and follow from a least counterexample (`InductionUpTo`, from the well-foundedness of the
numbers): the recursive functions exist, agree, and grow at their end. From them the module says once for every
operation on builders what it does to what is gathered, to its source indexes and to its words (`Fine`, `Whole`,
`Preserves`); a callback is one or two of these operations. The invariants: the source indexes gathered
increase and are below the counter (`OrderInv`); every element built is gathered once, and a text that
is going to be flushed does not find a list on top, which would drop it (`PlacesInv`). The latter needs the
builders to nest as their elements do (`NestedBuilders`), and that a list on top is the innermost open
element that was taken in. For the refinement every callback is shown to be the step of `ArticleStream` of its kind,
and the return to change nothing that can be read; that a word reaches the text builder exactly where the page
shows it is `VisibleIs`, which needs to know that the flag of a title is up while it is open (`TitleIsOpen`).

**`TokenizerProofs`.** `TokenizerTypeCorrect` (`TokenizerTypeOK`), `GoingBack`
(`TemporaryBufferIsTheInput`), `Ownership` (`OwnedWhileOpen`), `AttributeNames` (the half of
`AttributesAreTheFirst` that no name comes twice) and `DoctypesWithoutStrings` (`FirstDoctypeHasStrings`), for
any set of shapes (`ShapesAssumption`: what a page may hold is known and has no end in it), any letters
(`LettersAssumption`: no unit with a meaning of its own is one, and "S" is one if "s" is) and any elements with a text state
(`TextStatesAssumption`: it is one of the four the parser switches to, and the name is of letters). The
handlers, some seventy, take steps of a few kinds: text is emitted, a tag is opened, read on, abandoned
or emitted, markup is begun, a comment is read on, a buffer is given back. One group of lemmas says
which kinds each handler takes; the other says, kind by kind, that the parts of the invariant are kept
(`ModePart`, `TagPart`, `BufferPart`, `DoctypePart`, `OutputPart`). The strengthening is in
`PendingText` (while a buffer is given back the state is a text state, and the units that are left are those
under the iterator), `NamesAreDistinct` (of the tag being read, not only of those emitted),
`DoctypeIsFresh` and `DoctypeGone` (whose strings a doctype has), and `JustEmitted`: a start tag the parser
has not seen yet leaves the tokenizer in the data state with nothing to emit, so the parser may switch it.

**`TokenStreamProofs`.** `TokensAreThePage` (`TokensAreTheInput`), for pages of any length. The invariant
(`StreamInvariance`) says two things unit by unit. Of every token emitted: what it says stands at its place
(`TokenStands`: a character behind any number of empty end tags, the first of a CDATA section behind its
opening, a tag between "<" and ">", a comment as its opening, its value, the dashes it did not keep and its
end). Of the token being read: what has been read since the last one is what the state says it is
(`TextBegun`, `OpenerBegun`, `TagBegun`, `DeclarationBegun`, `SectionBegun`, `CommentBegun`), and it begins where the last
one ended. Units are only added to the page at its end, so what stands somewhere stays
(`TokenStays`); a step then has to be looked at only where it is. `TokensAreTheInput` is said with
`SubSeq` and a largest number of empty end tags; the second part of the module shows that what stands unit by unit is
that.

The third part proves `FirstAttributes` (`AttributesAreTheFirst`), for tags of any length with any number of
attributes. The property reads the text of a start tag without quotes, references and slashes as a reader would
(`FirstNamed`: a name stands from one place to another, and not before; `Given`: the value that stands behind it); the
tokenizer goes through it unit by unit, with a buffer, a vector and a flag. The invariant (`AttributesInvariance`) says
where in the text read so far the buffer began (`NameFrom`, `ValueFrom`), that every name that has ended has given its
attribute with its value (`AllGiven`), and that nothing else has (`AllWritten`). One attribute may still be without
the value that is written for it: the last one, from the end of its name to the end of its value, unless its value is
to be dropped (`Waits`, `Awaited`), and that is where a flag that outlives its attribute would give a value to the wrong
name. What a handler may do in such a tag is one of nine moves (`UnquotedMove`), one lemma shows each to keep what is said
(`MoveKept`), and another that the handlers make no other (`PlainSteps`). Tags with quotes, references and slashes are
outside of what the property says of values, for them it says that no name comes twice.

**`TextContentProofs`.** `TextEndsWithItsTag` (`EndTagsOfText`), for pages and contents of any length. The invariant
(`ContentInvariance`) follows every element whose content is text. What has been emitted since its start tag
stands on the page, character after character, and a "<" among it, when no "!" has come before, is one after
which something else than the end tag of that element is written (`Stands`, `Differs`). And its content is still being read, its end
tag is, the page is over (`Open`: `Inside`, `Leaving`, `Over`), or the end tag has been emitted (`Closed`). To say that
a "<" was rightly given back as text it has to know what was read after it: the buffer that is given back is
what the state of the end tag says, letter by letter, and the tag's own name is that in small letters
(`EndTagRead`); it holds no second "<" (`OnlyOneLt`), so the one that is looked at is the one that was
taken; and when the parser switches the state, the tokenizer knows the name it will compare with
(`StartSeen`). "Outside of an escaped script" is part of the property: after "<!" the states of an escaped script
read a `</script>` differently, and `Bang` marks the content from there on.

**`ParserOperationsProofs`.** `LinksAreKept`: whatever the tree, appending, inserting, removing and cloning a node, and
moving all children of one node to another, keep `Sound`: the children of a node have it as their parent, and
their place as their index, and a node stands among the children of its parent, at its index. The
conditions are the assertions of the operations: a node that is
linked has no parent, and the one that takes children has none. The operations set parent, index and children
one after the other and renumber siblings in a loop; the lemma `OneListChanged` says what has to be true of the
children of the one node whose list changed, and there is one lemma per operation
(`AppendNodeKeeps` ... `MoveChildrenKeeps`).

The rest of the module is about the operations of the parser. `Core` is what is true of a state at any moment: the
nodes are `Sound` and the document is not below a node (`NodesOK`), the stack holds elements, each once, the root first
(`OpenOK`), the list holds elements, each once, no four of a kind between two markers, and markers (`ActiveOK`, `Noah`),
what was listed before a marker stands on the stack below what was listed after it (`Segmented`), the form and the
template modes fit (`FormOK`, `TemplatesOK`). `Segmented` is there for the Noah's Ark clause: a clone takes the place
its original had in the list, and the adoption agency puts the formatting element back at a bookmark it moved behind an
element found on the stack. Only because the two orders agree does that place never lie before a marker, among elements
that were counted without it. The clause compares attributes as well as names: `SameNames` keeps the attributes of every
element but html and body, the two that a later tag adds attributes to (`Amended`) and that are never listed.

A handler leaves the stack in any shape for a while; what the part of the stack below its own work is like is a frame `F`
(the bottom of the stack, whether pops stop at it, the root, the head, the modes to go back to), and `K(s, F)` says that,
if no assertion has failed, `s` is right and on this frame. Each operation has a lemma `...K`: it keeps to every frame of some kind. The adoption agency is the longest of them, turn by turn
(`TurnK`) and, in a turn, step by step of the inner loop, for its bookmark and its places are indexes into
vectors that change under it.

**`TreeConstructionProofs`.** `ParserIsSound`, `LinksAlwaysAgree` (`LinksAgree`) and `ListsAreAlwaysSound`
(`ListsAreSound`), for pages of any tokens and of any length (`ShapesAssumption`: a page is made of tokens). They are
about behaviours on which no assertion of the parser fails and whose pages are `Ordinary`: `[](AssertionsHold /\ Ordinary)`
is a hypothesis. That assertions hold stays model-checked: they need what a scope or a mode says of the stack
from one token to the next. A page is out of the ordinary if it throws a body away for a frameset, which
takes nodes out of the tree by hand, or if a foreign element is named html, which makes the parser open the head again in a
template (see Findings); for these the statement about links is weaker or false. Behind the failure of an assertion,
which ends the program in a debug build, nothing is claimed.

The inductive invariant (`ParserInv`) is `Core` and `Modal`: the stack fits the insertion mode (`Fits`), which is what
tells a handler that it does not pop the root or the head that it goes on to use. Before the head there is only the
root; in the head the head is second; and from then on either the root alone or root, head and an element below
which a template is open are at the bottom and pops stop before them (`Contained`). The text modes need
it of the mode they go back to. That the mode found again after a pop (`ResetMode`) fits the stack is where foreign names
come in. There is a lemma for every arm of every handler (`...Settles`), one for every handler (`...Hands`: it settles or
calls the handler of another mode), and one that the chain of calls ends settled (`HtmlHandled`); tokens in foreign content
are `ForeignHandled`. `TurnKeeps` puts them together.

Only model-checked:

* `DeliveredTextIsTheText` and `IteratorReportsWhatItReads`, whose reference reads the whole input by recursion.
* The clean-up of text (`CollapsedTextIsTheWords`, `DedentedLinesAreTheLines`), which sorts places (`SetToSortSeq`).
* Of the tree, `AssertionsHold`, that every node hangs below the document and `PageHasItsShape`, `TablesHoldTableContent`,
  `TextIsInOrder` and `TextStaysInItsBlock`. The first two need that the markers of the list match the cells, objects and templates
  of the stack, and that what stands between a formatting element and its block is no table: an invariant of scopes and
  of all insertion modes together. The last three are about paths and orders of the tree, which are recursive.
* All liveness (`EveryInputEnds`, `PageEnds`, `PageIsParsed`), which is out of the prover's reach.

## Not modelled

* Of the parser: parse errors and their texts, source positions of nodes and attributes, parse flags
  (`GUMBO_INSERTION_*`), fragment parsing (`native-lib.cpp` parses whole documents), how a doctype
  decides on quirks mode (a token says whether it does) and the tables that rename foreign tags and attributes;
  the capacity of vectors; the generated automaton of the named references, which is two thirds of the
  parser's lines and is represented by its table; attributes, string pieces, tags and util, which
  keep no state.
* Of the article: classification of links (`getLink`), which compares prefixes and host names;
  widths and descriptions of images (an image counts by whether it has a `src`); the depth of the native
  recursion and of the JNI reference table; frameset documents, which have no body; templates,
  which the walk passes over; elements inside a `<title>` in the head, which the parser cannot build; the title
  when a second `<title>` overwrites it.
* What `NewStringUTF` makes of four-byte UTF-8 on the way back, and the JNI calls after a pending
  exception: both are the VM's. The binding of the JNI symbol, whose name says
  `com.jet.article.nativelib` while the class is in `com.jet.article.core`.
* UTILS.kt and nativelib.cpp, which keep no state.

## What could follow

1. Proofs: `AssertionsHold`, by what each mode says of the scopes of the stack; the iterator against its reference, by
   the same kind of induction as for the words of an article; the values of attributes in quotes.
2. `DestroyNode`: that the freed subtree is closed under children, by an invariant instead of the recursion.
3. Source positions of tokens through to nodes, which would let `TokensAreTheInput` be stated of the tree.
4. Fragment parsing, if the library comes to use it.
