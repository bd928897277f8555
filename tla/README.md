# A TLA+ verification of paimon-go

paimon-go reimplements bytedance/sonic's JSON packages in pure Go: `ast.Node`
(lazy JSON trees), `decoder`, `encoder`, and a root API over interchangeable
backends. This directory holds TLA+ models of the parts of it that keep state,
their TLC runs, and theorems about them that TLAPS checks. `PROJECT.json` maps
every modelled definition to its source lines and lists runs, mutants,
theorems, findings and hazards.

Run TLC with `tlc -config <Run>.cfg <Module>.tla`, and TLAPS with
`tlapm <Module>Proofs.tla`. The table under *Runs* says which module a
configuration belongs to.

## 1. The system

| Component | State | Operations | What is hard about it |
|---|---|---|---|
| `ast` lazy nodes (`lazy.go`, `node.go`) | a node's text, its parse cursor `lazyPos`, an array of child pointers, an optional RWMutex | every pointer-receiver read API | value copies share the slot array and the mutex; values are read without a lock after the first load |
| `ast` storage (`node.go`, `storage.go`, `iterator.go`) | the list of member pointers, member slots, iterators | Get, Index, Add, Set, Unset, Pop, Move, SortKeys, iteration, UnmarshalJSON | retained child pointers, partly parsed lists, shared backing arrays |
| `decoder.StreamDecoder` | a replaceable `json.Decoder`, leading-space counter, absolute offset, sticky error | Decode, More, Buffered, InputOffset, option setters | options that cannot be switched off, retained input bytes, buffers refilled in place |
| `decoder.Decoder` | source, position, cached `json.Decoder` | Decode, Reset, setters, CheckTrailings | a cached decoder that is out of date; `io.EOF` from a destination's method |
| encode pool (`internal/stdjsoncompat`) | pooled encoder states and their buffers | Marshal, MarshalIndent, Append | re-entrancy, errors and panics while a state holds the caller's buffer |
| `encoder.StreamEncoder` | options, a stream made from them, the unwritten rest | Encode, setters | short writes, failing writers, stale options |
| `stdjsoncompat` decode side | a `json.Decoder`, number modes, a detach flag | Unmarshal, stream decoder | control bytes found a word at a time and escaped in strings only; retained values |
| scanners (`ast/search.go`, `decoder.Skip`, `encoder.Valid`, `fastjsoncompat`) | position, nesting stack | find the end of a value | several scanners of one grammar, with depth limits of their own, and seven scanners of one string |
| `ast` visitor, parsers | cursor, nesting | Preorder, Parse | skip requests, errors from callbacks |
| `jsonconv` | a cursor, the error kept so far, the caller's value | UnmarshalInt64, UnmarshalDynamic, ParseNumberBytes, raw-ownership test | members that do not fit, overflow guards, cyclic values |
| root API, backends, option, utf8, unquote, errorcontext | none | dispatch and formatting | - |

The `ast` package stands alone. `encoder` and the root API call
`stdjsoncompat` (`EncodeInto` is `Append`, a `StreamEncoder` owns a
`streamEncoder`); `decoder` calls `encoding/json` and `jsonconv`
(`RetainsRawInput` decides whether a stream decoder must give up its buffer).

What makes each component correct, in one sentence each:

- *Lazy nodes*: a node's value is a function of its text, whatever the readers'
  interleaving; nobody reads memory another goroutine writes; nobody deadlocks.
- *Storage*: an owner cannot tell a lazy list from one parsed at once; child
  addresses are stable.
- *StreamDecoder*: the values of the input, in order, once; after an error
  nothing more; offsets are exact; retained bytes stay intact.
- *String Decoder and the configurations' stream decoder*: the same promise, with
  a decoder that is dropped or replaced under other conditions.
- *Encode pool*: no buffer has two owners; results never change; a failed
  append leaves its destination alone.
- *StreamEncoder*: the writer sees whole records in the format in force.
- *Skip and Valid*: a text is accepted exactly when the grammar and the depth
  limit allow it, and the value ends where the grammar ends it.
- *Searcher*: what it finds is what walking a tree of nodes finds, although it
  parses almost nothing; what it returns is a whole value. `Get`, which scans
  bytes without a Searcher, finds the same.
- *Preorder*: the visitor sees every token once and in order, ends match
  begins, and skipping a container never loses the place in the text.
- *numberDecoder*: the destination holds what each member means for it, whichever
  members did not fit; an integer is converted exactly or refused.
- *Byte scanners*: whatever the others take for one token is the same token for
  all; a control byte in a string is always found, and escaping it changes nothing
  else.

## 2. Plan

In the order of importance; everything here is done unless it says otherwise.

1. `ASTConcurrentRead`: lazy nodes under concurrent readers. It is the part of the
   repository where an interleaving can corrupt memory. It implements the abstract
   `ASTNodeValue`; all its safety properties and the refinement are proved.
2. `ASTNodeStore`: the storage of one owner, implementing the abstract
   `ASTContainer`; all its safety properties and the refinement are proved.
3. `Streams`: the three decoders that keep a `json.Decoder` (`StreamDecode`,
   `StringDecode`, `CompatStream`, over `JSONDecoder`), implementing the abstract
   `ValueStream`; all its properties and the refinement are proved.
4. `Encoder`: `EncodePool` (all its safety properties are proved) and
   `StreamEncode` (its property proved).
5. `PathSearch` and `FastGet`: the two ways to find a path in a text.
6. `Documents`: the scans with one cursor: `SkipScan`, `Preorder`, `NumberWalk`,
   `ParseNumber`, `RawControls` and `AtomEnds` (these three proved).
7. Not done: `Unmarshal`'s dispatch and its errors for trailing data; the exported
   `ast.Parser`; the conversions of one scalar.

Composition: `ASTConcurrentRead` and `ASTNodeStore` model the same lazy list
from two sides (many readers, no edits; one owner, all edits), because the code
allows edits only without concurrent readers. `Streams` composes each decoder with
the `json.Decoder` and the reader below it. `PathSearch` composes the Searcher, the
local parser and the node walk, and `MCPathSearch` sets `FastGet` beside it.
`Encoder` and `Documents` hold components that do not interact, each run being one
of them; `NumberWalk` takes a number for one token because `ParseNumber` and
`AtomEnds` show that it may.

## 3. Modules and the code they model

### ASTConcurrentRead, ASTNodeValue

`node[n]` holds the fields of one `Node` (`raw`, an error, the cursor, the slice
header), `cell` the arrays of child pointers, `mu[n]` the mutex pointer, which
copies share. Goroutines run one read API at a time, as a sequence of the calls
the code makes (`Program`): `check` is `Check`, `ensure` is `ensureLoaded`,
`finish` is `finishLazy`, `peek` is `appendNodeJSON`'s look at the raw text,
`snapshot` is the copy that `Interface` and `MarshalJSON` take. One step is one
acquisition or release of a lock, one turn of the loading loop, or one unlocked
use of a child; a `Lock` first announces itself, and then waits for readers to
drain, as `sync.RWMutex` does, so that recursive read locking can deadlock in
the model too. Recursion into children is a stack of (node, next child) pairs.

`ASTReadHeaps` holds the initial heaps: nodes made raw, nodes partly read before
`Load` published them, a malformed array, and a node that contains a copy of
itself.

### ASTNodeStore, ASTContainer

`arrs` are the backing arrays with their capacities, `slot` the member slots,
which never move; a handle is a cursor and a slice header. Every exported read
or edit is an action, from loading what it needs to the trailing bookkeeping.
`ASTContainer` is the list without laziness, slots or capacities.

### JSONDecoder, StreamDecode, StringDecode, CompatStream, Streams, ValueStream

`JSONDecoder` is `encoding/json`'s `Decoder` as the library relies on it (external):
a buffer refilled in place, options that go on only, an error that stays. `mem`
holds every buffer that was ever allocated, so that a retained value can be compared
with the bytes behind it later; `dec` is the decoder, `inp` the reader in front of
the source. Over it stand `sd`, the `StreamDecoder` with the `streamInput` that
counts leading spaces; `st`, the string `Decoder` with its position and the cached
decoder's base; and `cs`, the stream decoder that the API's configurations hand out,
with its detach flag. `Values`, which `ValueStream` promises, is a function of the
text alone; its `text` is there so that `Reset`, which turns to another one, is a
step of its own. `Decode` and `More` are split where a read of the source
happens, since that read may be short, fail or end.

### EncodePool, StreamEncode

`state` are the pooled `encodeState`s, `stack[g]` the encoder calls of goroutine
g, nested through marshalers; a step is a `Get`, a write, a copy, an error, a
panic or a return. `sync.Pool` may hand out any pooled state, or a new one, and
may drop what it holds. `StreamEncode` splits one record over the writes that
the writer accepts.

### JSONText, SkipScan, PathSearch, FastGet, Preorder

A text is a sequence of tokens. `JSONText` is the grammar, defined as the set of
its sentences and not as a recogniser, so that the scanners are compared with
something that is built in another way. `SkipScan` keeps Skip's stack of frame
states, one action per arm of its `switch`. `PathSearch` is one turn of the
loops of `findObjectValueStartString` and `findArrayValueStartString` per step;
what the loops skip is scanned by `ContainerEnd` (brackets only) or `Descent`
(the recursive descent that `scanValueEndString` and the local parser share).
Strings differ in who can decode them: `encoding/json`, the local parser, nobody.
`FastGet` has no state between calls, and is given as the functions it computes; a text
of no tokens is no data (`ErrNotExist` at once) or white space (a syntax error).
`Preorder` has one action per visitor call and takes the visitor's answer as its
parameter.

### NumberWalk, NumberTexts, ParseNumber

`NumberWalk` is `numberDecoder`: the calls in progress are `frames`, one per
container, with the destination it fills; a step is one member, one separator or
one return. A destination type is a record that says what a value of it takes, so
that `UnmarshalTypeError`s (the walk goes on), other errors (it ends wherever it is)
and what the destination held before all occur. A slice is its array and its length: the
elements behind the length come back when it grows within its capacity, and whatever
`null`, a misfit or an absent field leaves alone is then old data. A map whose keys have
a method of their own ends the walk at a key it refuses. `ParseNumber` is the loop of
`ParseNumberBytes`, one digit per step, at any width (`Half` is 2^63 in the code);
`read` is history, the number without a limit.

### RawControls, AtomEnds

`RawControls` is `containsControlByte`, one step per byte of the word's subtraction,
and the automaton that escapes. The highest bit of a byte, the first printable byte
and the bytes of a word are constants. `AtomEnds` sets the scanners of one string,
number or bracketed part side by side, as functions of the bytes; they keep nothing
between calls. The four hexadecimal digits of an escape are one character that says
which half of a surrogate pair they spell.

### Documents

One text, one cursor, and `scan`, which says whose. The modules of the scans share
`src`, `pos`, `phase`; what a scan does not use stands at `Idle`, or in an initial
state, or (`bytes`) is empty.

Left out of the token-level scanners: white space, the characters of strings and
numbers (a token is well-formed or it is not), and the diagnostic cursors of errors.

## 4. Runs

| Run | Instance | Shows |
|---|---|---|
| `Concurrent` (`MCASTConcurrentRead`) | 2 readers; three heaps; 4 children | `NoDataRace`, `ReadersSeeWholeValues`, `NoLockWhileAcquiring`, `IndInv`, `SlotsAreWrittenOnce`, `SettledNodesAreFrozen`, `ImplementsNodeValue`, and under fairness `EveryCallReturns` |
| `ConcurrentSeparate` (`MCASTSeparateMutexes`) | two copies with a mutex each | `NoDataRace` is **violated** (finding 1) |
| `StoreOwners` (`MCASTNodeStore`) | texts of 3 or 4 members, 4 or 5 slots, 2 copies | `NoNilSlot`, `PointerStaysChild`, `IteratorVisitsOnce`, `CopiesReadTheWholeText`, `StableSlots`, `ImplementsContainer` |
| `StoreSharedRemoval` (`MCASTNodeStore`) | removal through one of two copies | `NoNilSlot` is **violated** (finding 3) |
| `Streams` (`MCStreams`) | inputs of 9 and 11 bytes, reads of 1 byte and more, up to 3 changes of options, 8 combinations of decoder and caller | `NoByteLost`, `OffsetsAreExact`, `OptionsApply`, `RetainedStayIntact`, `ImplementsStream` |
| `StreamMoreOverwrites` (`MCStreams`) | More between two values | `RetainedStayIntact` is **violated** (finding 2) |
| `StringEOF` (`MCStreams`) | a destination's method returns `io.EOF` | `EOFOnlyWhenExhausted` is **violated** (finding 5) |
| `Encoder` (`MCEncoder`) | 2 goroutines, nesting 2, 3 calls, 3 sizes; a stream of 3 records, 2 option changes, 3 writer faults | `OneUserPerState`, `PooledBuffersAreOwned`, `PoolIsClean`, `ResultsStayIntact`, `DestinationsHoldTheirValues`, `WriterTakesWholeRecords` |
| `PathsFound` (`MCPathSearch`) | all values of at most 11 tokens, damaged ones, undecodable keys; paths of at most 2 steps; depth limit 2 | `FoundIsAValue`, `SearcherFindsWhatNodesFind`, `GetAgreesWithSearcher` (but for no data, which `GetFromString` calls malformed and `Get` absent), `ValidAcceptsValues` |
| `PathsNumberInObject` (`MCPathSearch`) | a number as the only step | `SearcherAndNodesAgree` is **violated** (finding 4) |
| `GetInvalidStep` (`MCPathSearch`) | a step that is neither key nor index | `InvalidStepIsAnError` is **violated** (finding 6) |
| `Documents` (`MCDocuments`) | all values of at most 9 tokens, and all texts one token away; every visitor; 17 destination types, two levels deep, slices with old elements behind their length included; literals of 4 digits at 8 bits; inputs of 5 bytes with words of 2; byte texts of up to 9 | `SkipFindsTheValue`, `FramesMatchTheText`, `VisitorSeesTheDocument`, `VisitorAcceptsValues`, `CursorIsBehindEachValue`, `DestinationHoldsTheText`, `NothingWraps`, `ResultIsTheNumber`, `NothingHidden`, `EscapedTextIsTheSame`, `ScannersAgree` |

A module's type invariant is a conjunct of the first property that needs it
(`IndInv`, `PointerStaysChild`, `NoByteLost`, `OneUserPerState`, ...), so that every run
checks it. Each property is paired in `PROJECT.json` with a mutant: a plausible
defect of one mapped definition (the operators whose names end in `Bug`) that
violates it on the same instance.

Why the bounds are enough:

- *Two readers*: each hazard of the locking protocol involves the reader that
  loads and one that does not; the theorems remove the bound. Four children let
  an array be read up to the middle, beyond it, and to its end by both.
- *Three members*: a repeated key, a first, a middle and a last position; a
  fourth for reading through two copies. One slot more than the text lets
  append both fill the capacity and outgrow it.
- *Eleven bytes*: spaces before, between and after values, a scalar that ends
  only at the byte behind it, and a value that does not fit the smallest read.
- *Three calls in the pool*: a state that was returned is taken again, while
  another goroutine holds a second; nesting 2 is the smallest re-entrancy.
- *Nine tokens and depth 2*: nine tokens hold two members, or containers nested
  one deeper than the limit with something beside them; every state of Skip's
  frames occurs above every other. A replaced, an added or a missing token is
  enough for every error arm.
- *Paths of two steps* reach a value inside a value; a longer path repeats them.
- *Types two levels deep*: a misfit or a final error inside a member, with members
  before and behind it in the container around.
- *Eight bits and four digits*: the literal behind the limit, the limits themselves,
  and literals that would wrap around an unsigned byte; the theorems remove the
  bound.
- *Five bytes and words of two*: two words and a tail; a borrow into a byte above
  and below the highest bit; the theorem removes the bound. For the automaton, five
  bytes hold a string with an escape, and a control byte in, behind and outside it.
- *Nine bytes with three looked at one by one*: runs of up to four backslashes on
  both sides of where the flag is forgotten, in front of a quote that closes and of
  one that does not; the theorem removes the bound.

`CHECK_DEADLOCK FALSE` stands where the modelled calls come to an end: a text
has been scanned, or the bound on calls is reached. `Concurrent` checks for
deadlock, because readers may call again for ever.

### Fairness

Only `Concurrent` states a liveness property. Its specification adds weak
fairness of each goroutine's steps (`WF_vars(Step(g))`): the Go scheduler runs
every runnable goroutine eventually, and `sync.RWMutex` does not starve a waiting
writer because later readers queue behind it, which the model has as part of the
lock. Starting a call is not fair: nobody has to read. No other run assumes any
fairness, and the violations found are of safety properties.

## 5. Findings

1. `ConcurrentSeparate`: `Load` gives exposed children a mutex each. Two value
   copies of one partly read array share their slot array, so their first
   readers write one slot under two mutexes.
2. `StreamMoreOverwrites`: `More` refills the buffer in place before the next
   `Decode` replaces the decoder, and overwrites a retained raw value.
3. `StoreSharedRemoval`: removing a member through one of two copies leaves a
   nil member pointer in the other.
4. `PathsNumberInObject`: a number applied to an object finds nothing through a
   `Searcher` and a member through `Node.GetByPath`.
5. `StringEOF`: the string `Decoder` takes `io.EOF` from a destination's own
   `UnmarshalJSON` for the end of its text; the values behind are never delivered.
6. `GetInvalidStep`: `Get` with a path step of another type gives up, falls back with
   an empty path, and returns the whole document without an error.

`PROJECT.json` quotes for each the line of the documentation it contradicts.

## 6. What is proved

`ASTConcurrentReadProofs` proves, for any number of goroutines, any heap and any
contents in which `MutexPerArray` holds, from `Spec`:

| Theorem | Statement |
|---|---|
| `Invariance` | `[]IndInv` |
| `TypeCorrect` | `[]TypeOK` |
| `RaceFree`, `WholeValues`, `NoHoldAndWait` | the other invariants of the run `Concurrent` |
| `WrittenOnce`, `Frozen` | its two action properties |
| `Refinement` | `ImplementsNodeValue`, under the mapping `NodeValue`, `ChildTexts` |

`MutexPerArray` says that in the initial heap nodes which share a slot array share
a mutex. It is an assumption of the theorems and not of the module, since the code
does not ensure it: finding 1 is what happens without it. The other assumptions
(`ShapeAssumption`, `InitAssumption`) say that the initial heap is one the
constructors and `Load` can leave behind; TLC evaluates them in every run.

*The inductive invariant.* `NoDataRace` alone is not inductive: that a reader may
use a node without a lock depends on the node being settled, that a settled node
stays so depends on writers rechecking it under the mutex, and that two writers
do not meet in one slot array depends on the arrays' nodes sharing a mutex. So
`IndInv` is `TypeOK` and

- `HeapOK`: each node's fields fit its text (`NodeOK`), the slots below its length
  hold the children of its text, and who shares an array shares mutex and text;
- `LockOK`: who holds which lock is a function of the program counters, and a
  goroutine past `drain` excludes the readers of its mutex;
- `LocalOK(g)`: a goroutine in an unlocked use, and every loop below it on its
  stack, is over settled nodes; a goroutine about to write has a reason to.

TLC checks `IndInv` in the run `Concurrent`. The proof has one lemma per action;
the refinement maps a `Materialize` or `LoadNext` that settles its node to
`Resolve`, `Snapshot` to `Copy`, and every other step to a stutter.

`EncoderProofs` proves, for any number of goroutines, any sizes of texts and any
depth of marshalers that encode again, from `PoolAssumption` alone:

| Theorem | Statement |
|---|---|
| `PoolIsSound` | `[]PoolInv` |
| `UsersAreAlone`, `BuffersAreOwned`, `PoolStaysClean`, `ResultsAreTheCallers` | `OneUserPerState`, `PooledBuffersAreOwned`, `PoolIsClean`, `ResultsStayIntact` |
| `DestinationsAreExact` | `DestinationsHoldTheirValues` |

*The inductive invariant.* That the array of a pooled buffer belongs to nobody says
nothing of the time when the state is in use, and then it is that the array changes
hands. `PoolInv` therefore gives every array one owner (`OneOwner`): it is *private*
to a state, which is the pooled one or the one a call holds, the buffer that Append
keeps aside (`own`) included; or it was *lent* by a caller, as a destination or in
the state of an Append; or it was *returned* by Marshal. An array is written only through the
state that owns it or that it was lent to, so results and the texts of other calls
stay (`Contents`). The proof has one lemma per action. Both returns are instances of
`ReleaseStep`: a state goes back with an array that was private to it. A panic in
Append keeps its state from the pool (`PanicStep`).

What a destination holds needs more (`DestInv`): callers' arrays have one owner as
seen by the pool, so no two goroutines may append to one array (`Apart`), and a
goroutine makes one call of Append at a time (`OneAppend`). An Append begins with the
destination itself and has added its value once written (`AppendOK`); the write may
extend the array in place, behind what the caller reads, or make a new one
(`ExtendedText`). All steps but that write are instances of `DestKept`. `Text` is a
recursive function; that it exists and adds a value's cells at the end (`TextFacts`)
is proved by least counterexample (`LeastNat`).

It also proves `WholeRecords` (`[]WriterTakesWholeRecords`) for values of any
size, any writer and any number of calls and option changes, from
`StreamAssumption` (no value has an empty text). What has to be added to the
property is that a stream once made has the newline option of `lastOpts`, the options
it was made with (`StreamInv`): Encode compares only these with the current ones.

`ParseNumberProofs` proves `WithoutWrapping` (`[]NothingWraps`) and
`ResultsAreExact` (`[]ResultIsTheNumber`) for integers of any width `Half` and literals
of any length: as long as `value` is the number read and not above `Limit`, the
comparison with `Limit \div 10` and `Limit % 10` refuses exactly the digits that would
exceed it.

`RawControlsProofs` proves `AnswerIsExact` (`[]NothingHidden`) for bytes and words of
any width: until the first control byte of a word nothing has been borrowed, so each
byte's flag is exact up to there; whether a later byte is flagged because of
a borrow no longer matters, since the answer is yes already.

It also proves `EscapingKeepsMeaning` (`[]EscapedTextIsTheSame`) for inputs of any
length. The two texts are compared by what they say (`Meaning`), which is defined from
the end of a text; the automaton runs from its front. `MeaningInv` therefore says of what
was read, and of what stands for it, that they *tell* the same units (`Tells`): whatever
follows, either text says these units and then what follows says. Or both end in a
backslash that waits for the next byte. What was written is longer by one for each of
the units that is a control byte in a string (`SameTexts`). Each byte is then one of the
five cases of `ByteStep`, and a text without control bytes means none (`NoControls`).
That `Meaning` depends only on the bytes behind a place (`SameEnds`) is proved by least
counterexample. `Code` stands for the digits of an escape, one for each control byte, so
the theorem takes for granted that the code formats them right.

`AtomEndsProofs` proves `TokensEndAlike`: `ScannersAgree`, for every text of bytes
(`src \in Seq(Byte)`, `Byte` being any strings but the mark for the end) and every
`Short` in Nat. It is a statement of one state, about functions of the text:

- `NumbersEndAlike`: the digits that `Digits` chooses exist (`DigitsEnd`); a text is a
  number of the grammar exactly if it can be cut into sign, digits, fraction and exponent
  (`WrittenAsSpelled`), and the scanners make just these cuts (`SkippedIsSpelled`,
  `SpelledIsSkipped`). fastjson.go may refuse a number that is not in front of a
  delimiter, and accepts nothing else.
- `StringsEndAlike`: a quote ends the string if the backslashes in front of it are even
  (`Escaped`), which a byte changes by one rule (`EscapedNext`). The flag is that parity
  (`FlaggedEnd`); what passes over pairs stands on unescaped bytes only (`PairEnd`); the
  search that counts backslashes counts the same ones back to the opening quote
  (`CountedBack`, `SearchEnd`), from whatever byte it takes over.
- `StringsReadAlike`: the three decoders are one loop with different escapes. They take
  the same step wherever an escape is complete (`EscapesAlike`); behind a high surrogate
  visitor.go refuses a broken escape at once, as does unquote.go if the escape is
  complete, localparser.go at its next step (`BrokenPairRefused`), so `DecodeAlike` compares them where they stand
  together, not step by step. unquote.go sees only the content of the string; a pair it
  could cut in two does not end before the closing quote (`UnquoteReadsAlike`).
- `BracketsEndAlike`: from a byte outside strings the flags give what passing over a
  string at once gives, and from one inside, what is found behind that string.

The functions are recursive and tlapm knows nothing of them but `CHOOSE`: that they exist
is proved once for those that run from the front (`RunExists`) and once for those that
look further on (`ScanExists`), by least counterexample. So that they exist at all,
their domains are closed under the positions they look at.

`StreamsProofs` proves all that the run `Streams` checks, and the refinement, for
any text, any sizes of reads and buffers, any errors of the reader and any number of
option changes and resets; from `StreamAssumption` alone, which says what a text is
(`Texts`: a value's bytes are its own until it ends) and what a source may ask for:

| Theorem | Statement |
|---|---|
| `StreamsSound` | `[]StreamsInv` |
| `StreamsLoseNoByte` | `[]NoByteLost` |
| `StreamsApplyOptions` | `[]OptionsApply` |
| `StreamsOffsetsExact` | `OffsetsAreExact`, where no destination of a string decoder returns `io.EOF` |
| `StreamsRetainedIntact` | `RetainedStayIntact`, where no caller both keeps bytes and calls More |
| `StreamsExhausted` | `EOFOnlyWhenExhausted`, where no destination returns `io.EOF` |
| `StreamsImplement` | `ImplementsStream` |

The three conditions are those of findings `StreamMoreOverwrites` and `StringEOF`: they
leave out just the behaviour that the code gets wrong, and the theorems say that there
is no other. Both are about the source, which stays the same but for its text.

*The inductive invariant.* `NoByteLost` speaks of the text between calls; a step in
the middle of one needs to know where the decoder is. `StreamsInv` has these parts:

- `BufferInv`, `CallInv`: the unread part of the buffer lies within it; once the
  reader has ended nothing is left in front of it.
- `TextInv`: what is buffered, given back to a new decoder, and unread are, in this
  order, the text behind what was consumed. A refill keeps it since it appends what it
  takes from the reader (`TakeFacts`), a rebuilt decoder since it puts the buffered
  bytes in front (`Rebuilt`), and consuming n bytes drops n on both sides (`Advance`).
- `EndInv`: the values delivered are those that end in the first `End` bytes, and only
  spaces lie between `End` and what is consumed. The next value that readValue finds
  therefore ends the text's next value (`NextValue`).
- `StreamInv`, `CompatInv`, `StringInv`: what each decoder remembers of the call in
  progress (the spaces counted before the value and the offset at its start, the
  toggles set so far, the position) agrees with the buffer and the text.
- `KeptInv`: a kept value lies in a buffer that no decoder has, or in that of a decoder
  that the next Decode will replace.

A library theorem that follows from well-foundedness alone (`WFMin`) gives the least
element of a set of numbers (`LeastNat`); where a scan stops, how many spaces there
are and that all bytes of a value are its own (`ValueBytes`) are proved with it. The
proof has a lemma per action of each decoder, and lemmas for what they share: refill
(`RefillFacts`, `BufferedFacts`), the answer (`AnswerFacts`) and the value's bytes.
TLC checked `StreamsInv` on the sources of `Streams` and of both findings, and some more
(3.8 million states), before it was proved.

`ASTNodeStoreProofs` proves all the safety properties of the run `StoreOwners`, for any
text, members, handles and number of operations, from `StoreAssumption` (what a text
and its members are), of the owners that the hypothesis `Disciplined` admits:

| Theorem | Statement |
|---|---|
| `StoreIsSound` | `[]Inv` |
| `PointersAreReal`, `PointersStayChildren`, `IteratorsVisitOnce`, `CopiesAreComplete` | `NoNilSlot`, `PointerStaysChild` (with `TypeOK`), `IteratorVisitsOnce`, `CopiesReadTheWholeText` |
| `SlotsAreStable` | the action property `StableSlots` |

`Disciplined` says that an owner who copies a node calls nothing but `Get`, `Index`, what
loads everything, and writes through pointers, on the node and on its copies; one who
adds, moves, removes, sorts, iterates or unmarshals has no copies. It is
about the source, which never changes, and every source of `StoreOwners` satisfies it.
It is needed: an edit through one copy changes slots that the other has in its list
(finding 3, where `NoNilSlot` fails).

*The inductive invariant.* `NoNilSlot` speaks of the lists, but what a load or an
append puts into one depends on what lies in the array behind it. `Inv` therefore
describes the whole memory, by `Good` for each node:

- `StoreOK`: an array holds a slot once; a list is within its array's capacity and has
  no nil; the cursor stands at a member of the text.
- `OwnerOK`, where nodes are edited: behind the end of the list the array is empty, so
  that loadNext, which takes a slot it finds there, allocates one; and there is room for
  what has still to be loaded.
- `ReaderOK`, where copies are read: whatever any array holds is the text's member of
  that index, and a cursor stands exactly behind its list. So it does not matter which
  of the copies has put a slot there.
- `PtrInv`: a retained pointer is in its node's list or its slot has been cleared.
- `ItInv`: the slots an iterator has passed are not ahead of it in the list, and until a
  member is lost they are exactly those before its position.

`Kept` and `Loads` say what loading may change: it takes nothing from a list or an
array and adds only new slots, or for a reader those of the text. `LoadNext` does this
(`LoadNextLoads`), and so do the recursive loops above it, by a least counterexample
(`LeastNat`, `LoadToLoads`, `LoadKeyLoads`, `LoadAllLoads`). What a step changes is one of
four: it keeps (`KeptStep`), takes a member out (`RemoveStep`), replaces a node
(`AssignStep`) or copies one (`CopyStep`); there is a lemma per action above these.
`SortKeys` permutes the contents of slots, because the rank of a key among finitely many
is a bijection (`Ranked`). TLC checked `Inv` on the sources of `StoreOwners` (83,818
states) before it was proved.

`ASTContainerProofs` proves of the same specification, under `CopiesOnlyRead`:

| Theorem | Statement |
|---|---|
| `ContainerImplemented` | `ImplementsContainer`: the lazy list is the list that parsing at once would give |

`CopiesOnlyRead` says that an owner who copies a node calls `Get`, `Index` and what
loads it, and nothing else; every source of `StoreOwners` satisfies it. It is narrower than
`Disciplined` by the writes through pointers. A member that a copy loads into a shared
array and then writes is read with the new value by whoever loads the node later, so
that a load may change several members of the list at once; with a text of seven members,
where two slots can be shared before they are loaded, TLC finds it.

*The argument.* What an owner reads of a node is `Shown`: the members of its list
(`Items`), then the rest of the text from the cursor on. `Awaits` says that a malformed
member is still ahead. Besides `Inv` the refinement needs `FaithInv`: every node is
`Faithful` (its cursor is not behind the malformed member; what an array holds behind the
list is nothing, or, where there are copies, the text's member with its value), the root
exists, and it is alone where no copies are made. `Loads` includes that loading shows the
same or fails (`Shows`), and is carried through the recursive loops by the same least
counterexamples as `Good`; so all reads are stutters or `Fail` (`LoadStep`). Each edit loads
everything, so that `Shown` is `Items`, and there is a lemma on sequences for what it does to
them: `AppendItems`, `ValueItems`, `RemoveItems`, `MoveItems` (the shifted contents of
slots are a removal and an insertion), `SortItems` (the ranks give the order that
`ASTContainer` promises, equal keys included). A write through a retained pointer
may hit a list that is not loaded (`WriteShows`). `Implements` collects the six ways a
step may show, and `ContainerStep` maps each to the action of `ASTContainer`. TLC
checked `FaithInv` on the sources of `StoreOwners` as well.

In `EncoderProofs`, `ParseNumberProofs` and `RawControlsProofs` the specifications
are those of the modules (`Spec`, `StreamSpec`, `ParseSpec`, `ControlSpec`); the runs
that check the same definitions on small instances compose them with others
(`BothSpec`, `AllSpec`), which leave their variables alone.

## 7. What is only model-checked

- Liveness: `EveryCallReturns` needs fairness and `ENABLED`, which the provers do
  not handle.
- What the recursive functions of `JSONText`, `PathSearch`, `Preorder` and `FastGet`
  compute for every text. The library's induction theorems take operators as parameters,
  which the provers cannot instantiate. A least counterexample replaces them where the
  recursion is over one number (`TextFacts`, `ValueBytes`, `LoadToLoads`, `SameEnds`,
  `ScanExists`); these functions recurse over the nesting and the text at once, several
  of them through each other.
- `NumberWalk`, whose properties compare it with `RECURSIVE` operators.
- The invariants of the modules named above. Every other property of a passing run
  that is not about liveness has a theorem.

## 8. What is not modelled

- The `json.Decoder`, `sync.Pool`, `sync.RWMutex` and `append` are external: their
  definitions are marked so in the map.
- Conversions of one scalar to a Go value, quoting and UTF-8 validation: pure
  functions of bytes. Of unquoting, the escapes and surrogate pairs are modelled.
- The depth limit of the Go stack in `Preorder`, which unlike the other scanners
  counts no nesting.
- `stdjsonv2` and the jsonv2 backend, built only with an experimental Go tag; the
  root API and `option`, which keep no state.
- In `NumberWalk`, what an `interface{}` already points to before a decode: destinations
  of that type start empty or with a plain value.
- What point 7 of the plan names.
