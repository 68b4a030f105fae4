# A TLA+ model of the CIF API

The CIF API is a C library that reads, writes and manipulates Crystallographic
Information Files.  A *managed CIF* is an in-memory SQLite database behind a
handle; data blocks, save frames, loops and packets are rows of its tables, and
the functions of the library are small sequences of SQL statements.  The library
starts no thread.  What is hard about it is what several calls do together:
handles that outlive what they denote, an iterator that keeps a transaction open
while other calls are made, a statement that fails in the middle of a function,
handlers that redirect a traversal at any point.

This directory holds the specifications (`*.tla`), the TLC configurations
(`*.cfg`), the proofs (`*Proofs.tla` and the end of `CifBuffer`) and
`PROJECT.json`, which maps every definition to the lines it models.

## 1. Inventory

| component | state | operations | properties that make it correct |
|---|---|---|---|
| **relational store** `misc/cif_schema.sql`, `internal/sql.h` | tables container, data_block, save_frame, loop, loop_item, item_value; sequence of container ids; counters `next_loop_num`, `last_row_num` | the statements of `sql.h` with the triggers and cascades of the schema | keys unique; no row without what it belongs to; loop numbers increase; row numbers run from 1 to the counter; one scalar loop per container, with one packet |
| **blocks and frames** `cif.c`, `container.c` | container handles: id, parent, code | create, get, get all, destroy | codes unique in any spelling; an id never denotes two containers; destruction leaves nothing behind |
| **loops, items, values** `container.c`, `loop.c` | loop handles: container, number, category | create, get by category or item, categories, names, add item, add packet, set and remove values, prune, destroy | a call that fails changes nothing; a set value is in every packet; no loop without items; a stale handle stays stale |
| **packet iterators** `loop.c`, `pktitr.c` | the rows still to be delivered, the last row number, the open transaction | get packets, next, update, remove, close, abort | an open transaction is the iterator's; what is delivered is what the loop holds; abort restores |
| **transaction protocol** `internal/utils.h` and all of the above | SQLite's transaction and its savepoints | `BEGIN`, `SAVE`, `BEGIN_NESTTX` and their counterparts, `PREPARE_STMT`, `STEP_STMT` | a call is atomic; a function touches no savepoint but its own |
| **walker** `cif.c` | activations of the `walk_` functions, open iterators | `cif_walk`, the handlers' answers | the elements visited are those the answers leave; iterators are closed; END and errors stop at once; the walk ends |
| **packets and maps** `packet.c`, `map.c` | entries, each with a key, the name as given and a value; keys that may belong to an iterator's name list | create, get, set and remove items, names, clone | keys are compared in normalized form and spelt as given; every string is freed once and by its owner; a packet outlives the iterator that made it |
| **values** `value.c` | objects: kind, text, quoting, digits, uncertainty, scale, elements, entries | create, init, parse, clone, copy, clean, set and get elements and items, quote, store and read back | a copy is faithful and separate; every object has one owner; a number says what its text says |
| **serialization buffer** `value.c` | bytes allocated, capacity, limit, position | create, write, read | nothing is touched beyond what is allocated; a write returns |
| **parser** `parser.c` | scanner buffer and position, token, `skip_depth`, the container under construction | productions, recoveries, handlers and callbacks | the CIF holds what the file says less what the handlers skip; recoveries keep scanner and container in step; line terminators are converted alike wherever the buffer ends |
| **CIF file writing** `ciffile.c` | output column, in which element, depth | `cif_write`, the handlers it gives `cif_walk` | what is written reads back equal; lines stay within the limit |
| **CIF file reading** `ciffile.c` | the bytes of the stream, its converter | `cif_parse`, `ustream_read_chars` | |
| **names and string analysis** `utils.c` | none | normalization, validity, `cif_is_reserved_string`, `cif_analyze_string` | a chosen delimiter can hold the text |
| linguist, examples, second grammar, build | | | no part of the library |

**Interaction.**  Everything above the store reaches it through prepared
statements on one connection, so that transactions are a state all functions
share.  Handles are caches of row contents.  `cif_walk` and the writer (which is
a set of handlers for it) hold an iterator open while they call the
application; the parser calls the functions of blocks, loops and items as it
reads and asks the application's handlers and error callback what to do.

**What is hard to test** is listed under `hazards` in `PROJECT.json`, each at its
line, with the properties that would catch it: stale handles (loop.c:398,
container.c:455, pktitr.c:384), failures part of the way (container.c:242,
loop.c:435, pktitr.c:346), calls under an open iterator (loop.c:565), rollback of
what other handles have done since (pktitr.c:97), transactions SQLite gives up
by itself (pktitr.c:297), functions that return from within one
(container.c:896), directions that cut a traversal short (cif.c:743), strings
that have two names and one owner (map.c:182), objects that are copied into one
another (value.c), rounding in two positional systems at once (value.c:1280),
text whose lines look like the marks that delimit it (ciffile.c:1102).

## 2. Modules

| module | models | kind |
|---|---|---|
| `CifTables` | the schema and the statements | operators on a database record |
| `CifStore` | the functions of the library and their application | state machine over `CifTables` |
| `MCCifStore` | constants for TLC | |
| `CifStoreProofs` | the tables, what handles denote, the loops' items, packets and iterators | proofs |
| `AtomicCalls` | what a call promises whatever fails inside it | abstract specification |
| `NestTx` | the transaction protocol, statement by statement | state machine, implements `AtomicCalls` |
| `NestTxProofs` | `NestTx` implements `AtomicCalls` | proofs |
| `CifWalk` | `cif_walk` | state machine with fairness |
| `CifWalkProofs` | a walk calls handlers as directed, returns what was answered, closes its iterators | proofs |
| `MCCifWalk` | a CIF of thirteen elements for it | |
| `CifParse` | the productions of the parser, over tokens | state machine with fairness |
| `CifParseProofs` | `skip_depth`, what is stored, the calls of the end handlers | proofs |
| `LineEnds` | the scanner's buffer, over characters | state machine |
| `LineEndsProofs` | the buffer keeps the token, has room to read and converts what it reads | proofs |
| `Selections` | some of a sequence's elements, by their positions | operators |
| `SelectionProofs` | what a selection is, and in which order | proofs |
| `OrderedMap` | what a packet or table promises | abstract specification |
| `CifMap` | packets, tables and the packets of an iterator, with the strings they own | state machine, implements `OrderedMap` |
| `CifMapProofs` | every string has one owner, and `CifMap` implements `OrderedMap` | proofs |
| `CifChars` | which characters and words mean something to CIF | operators |
| `CifNumb` | numbers: rounding, formatting, parsing | operators |
| `CifValue` | value objects in a heap | state machine over `CifNumb` and `CifChars` |
| `MCCifValue` | the texts and numbers for it | |
| `CifBuffer` | the serialization buffer, with its proof | state machine with fairness |
| `CifForms` | the choice of delimiters, folding and prefixing | operators over `CifChars` |
| `CifScan` | the scanner's tokens and the parsing of values, over characters | operators over `CifForms` |
| `CifWriter` | the handlers of `cif_write` | state machine, composed with `CifScan` by its properties |
| `MCCifWriter` | the values for it | |

### CifTables and CifStore

A database is a record of six sets of rows and the id sequence; `val` stands for
the columns of `item_value` that encode a value.  Each statement of `sql.h` is an
operator from a database to a database, with the cascades and triggers that fire
on it: `DeleteContainer` takes what the foreign keys take, `InsertLoop` numbers
the loop and advances `next_loop_num` as `tr1_unnumbered_loop` does,
`ExceedsScalar` is trigger `tr4_loop`, `DuplicatesScalarLoop` is `tr1_loop`.

`CifStore` has one action per function, with the C function's tests in their
order and its result code in `ret`.  `db` is the database as the connection sees
it, `saved` what ROLLBACK would restore, `autocommit` SQLite's flag.  The
internal functions (`create_loop_internal`, `add_item_internal`, ...) map a
database to a database and a result code; `Atomically` and `TopLevel` are the
transaction macros around them.  A call is one step because the library is
single threaded and calls nothing of the application's inside these functions;
`NestTx` shows that a call is atomic even when its statements fail.

Handles are data the application keeps: `cont` is the set of container handles
it ever got, `lh` its variables for loop handles, `iters` its iterators.
Nothing takes a handle back when what it denotes disappears, so that all calls
through stale handles are in the model.  Codes and names are written in
*spellings*; the functions `NormCode` and `NormItem` stand for
`cif_normalize_name` and `cif_normalize_item_name`, with `Invalid` for those
they refuse.

The application keeps three rules, which are guards of the actions: a loop under
iteration is not accessed otherwise and its handle not freed ("behavior is
undefined"), the handle of a loop that an abort takes away is not used again,
and the scalar loop is not given the category NULL (unless `UnsetsScalar`).

### NestTx and AtomicCalls

Each function is a program: how it opens its transaction, the statements it
executes, how it closes.  A statement may succeed, fail with no effect, or fail
in such a way that SQLite rolls back the whole transaction; a `PREPARE_STMT`
inside a transaction returns without undoing.  SQLite is modelled as its
documentation describes it: a stack of savepoints, `ROLLBACK TO` that leaves
its savepoint in place, names that do not tell savepoints apart.  `AtomicCalls`
has a set of effects, the set an abort would restore, and one action per outcome
of a call: succeed with all effects, fail with none, or fail and lose the
transaction.  The refinement mapping shows a call under way as not yet made.

### CifWalk

The CIF is a tree; `stack` holds the activations of `walk_container`,
`walk_loop` and `walk_packet`, `returned` the code passed from one to the next,
`open` the loops with an iterator open.  The handlers answer CONTINUE,
SKIP_CURRENT, SKIP_SIBLINGS, END or an error at any call, and a library call may
fail wherever one is made.  `said` records the answers; the properties say what
should have been visited in terms of these alone.

### CifParse

`stack` holds the activations of `parse_cif`, `parse_container`, `parse_item`,
`parse_loop_header` and `parse_loop` (with `parse_loop_packets`), `token` the
token scanned and not yet consumed, so that "reject the token" and "recover by
dropping it" are what they are in the code.  The input is not fixed: the scanner
delivers any token whenever one is asked for, or fails.  A value is one token, be
it a list or a table: `parse_value` calls no handler, and the colon a KEY token
leaves behind is repaired into a value.  The error callback may refuse at every
error, the handlers answer anything at every call.  `cif` is what is stored, as
far as the parser's decisions depend on it: the containers, the items in them and
which of these belong to a loop that has no packet yet.  The columns of a loop
keep the place of duplicate names, as the linked list of the header does, while
`Kept` is the array `names`; the two are told apart since the recovery from a
partial packet uses an index into one for the other.  A cell of the packet is
known by where its value comes from: this packet, an earlier one, or none.

`levels` is a ghost.  For each element under way it says whether its start
handler was called and whether it, or what it is in, is to be passed over: the
meaning of the answers, against which the arithmetic of `skip_depth` is checked.
The data model's case-insensitive names are one `Name` each; a CIF that was not
empty before the parse is left out.

### LineEnds

What lies below `CifParse`: the character source delivers pieces of any length,
`FirstChar` and `MoreChars` are the two functions that put them into the buffer,
the other actions are the macros by which the scanner moves in it.  Pointers are
offsets.  `Arranged` is the buffer as `get_more_chars` leaves it when it has made
room (reset, moved to the front, twice as large, or as it is), `Converted` what
the conversion in place makes of one fill.  The ghosts `text`, `token` and `value`
say what was ever delivered and where in that the token and its value start,
whatever has become of the buffer since.  `LineEndsOf` is the reference: what the
line terminators of a text are to become.

### CifMap and OrderedMap

`mem` is the set of allocated strings, `maps` the entries of each packet or
table, each with the blocks of its `key` and `key_orig` and its value; a hash
table is the sequence of its entries, in which uthash keeps them.  An operation
takes and frees the blocks that the code takes and frees.  In entries that
`cif_packet_create` or an iterator makes, the two strings are one when the name
was given in normalized form; in those of `cif_map_set_item` they never are.
`StringsHaveOneOwner` says that no block is in two places and none is lost.
`cif_table_serialize` would refuse a table that has an entry of the first kind.
The refinement mapping, `Seen`, forgets the blocks: `OrderedMap` is a function from
items to values in the order in which they came, with the spelling that was used
last.

What stays when entries are unlinked, or characters squeezed out of a buffer, is
a *selection* (`Selections`): the elements at a set of positions, in their order.
It is written with the ranks of the positions, not with `SelectSeq`, which the
prover cannot open.

### CifValue, CifNumb and CifBuffer

`heap` is the set of value objects; a list has its elements by reference and the
capacity of its array, a table has keys and references.  `held` are the objects
the application has to free: the rest belong to a list or table.  The actions
are the calls, with the copying recursion of `cif_value_clone` and the
representation a value has while it is in the database as functions of the heap.
`call` keeps the last call with its objects, so that the action properties can
say what a call has to do (`CopiesAreFaithful`) and must not (`CallsAreLocal`).

`CifNumb` has the arithmetic.  `to_digits` expands a double in base 10^DDig and
`format_value_decimal` and its relatives cut and round that expansion at a
decimal place, digit by digit of the large base with a carry; the operators
follow the same places, with exact numbers in place of arrays of digits.
`NumberReadsItsText` parses what was formatted; `AutoScaleIsLargest` says what
`cif_value_autoinit_numb` promises of its scale in terms of the number and the
rule alone.

`CifBuffer` has the loop of `cif_buf_write` as a step per iteration, `size_t` of
width `Modulus`, and a `realloc` that may give what is asked for, be asked again
for less, or fail.

### CifForms, CifScan and CifWriter

A text is a sequence of characters, of which only those are told apart that a
rule names; the reserved words are characters.  `CifForms` has the analysis of a
text, the choice that `write_char` makes by it and the folding and prefixing of
`write_text`, `CifScan` the way back: tokens, `decode_text`, `parse_value` with
lists and tables, all with the error callback that refuses.

`CifWriter` writes: `context` is what was written and the fields of
`write_context_t` that change.  The handlers are called in every order in which
a walk of some CIF calls them; `place`, `left` and `names` say which.  The ghost
`written` is the file as a reader should see it, and `ReadsBack` compares it to
what `CifScan` reads from `context.out`: the composition of writer and parser.

## 3. Runs

Every property of a passing run has a mutation of a modelled definition
(`PROJECT.json`, *mutants*) that violates it.

| run | question | bounds | properties |
|---|---|---|---|
| `store` | do loops, packets and iterations stay consistent under every interleaving of calls through two loop handles, commits and aborts, and do failing calls leave no trace? | one block, two names in two spellings and one invalid, two values, two loops ever numbered, two packets per loop; two loop handles, since staleness takes two (137,185 states) | LoopNumbersBelowNext, NoLoopWithoutItems, ScalarsAreScalar, RowsBelowLast, IterationCurrent, TransactionIsIterators, StaleHandleStaysStale, FailureChangesNothing |
| `containers` | do keys, foreign keys and ids survive creation, nesting, destruction and rollback? | four container ids, so that a frame, its child and a successor in place of one destroyed exist; codes that differ in case and an invalid one (57,937 states) | TypeOK, KeysUnique, ReferentialIntegrity, ContainerIdsNeverReused |
| `calls` | is every call atomic, alone and under an iterator, whatever fails? | four calls: open an iterator, work, close, work again | SavepointIsOwn, CallsAreAtomic |
| `walk` | does a walk visit, end and return as its handlers direct? | two blocks, two frames, three loops (one without packets), two packets, two items: every kind has an element with a later sibling and one without | VisitedAsDirected, EndedAsDirected, ResultAsAnswered, IteratorsClosed, WalkReturns |
| `parse` | does `skip_depth` count right through every error and recovery, are packets stored whole and what is skipped not at all, does the parse end? | six tokens, less one for each answer other than CONTINUE: enough for a loop of two columns with a complete and a partial packet, for a duplicate name in a header that has packets, and for frames in frames with two redirecting answers; three names, one invalid; every setting of the frame limit; storing or checking only | SkipDepthExact, PacketsAreCurrent, EmptyLoopsPruned, EndsWereStarted, SkippedNotStored, ParseReturns |
| `line_ends` | does the buffer keep the text and the token under way, however the input arrives in pieces and is cut into tokens? | five characters of CR, LF and two letters, a buffer of four with a minimum fill of two: enough for two CR LF in one fill, for a CR LF that two fills share, and for a token that makes the buffer grow or moves to its front | TokenKept, RoomToRead, FillsConverted |
| `packets` | does every string have one owner, and do maps act as maps? | two maps and an iterator, two items in two spellings: a map copied onto another, a packet filled again and one that outlives its iterator, each with an entry before and after the one concerned (80,645 states) | StringsHaveOneOwner, ActsAsMap |
| `value_objects` | are copies faithful and separate, does every object have one owner, does a number read its text? | four objects: a list in a list or table, and a target with a part; lists that grow by one slot; one object for the whole set of texts and numbers, several for the common ones (`Alone`, `Room`); a base of 1000, so that places within a digit of it, at its ends and beyond are rounded (31,943 states) | EveryValueHasOneOwner, ListsFitTheirArrays, NumberReadsItsText, CopiesAreFaithful, CallsAreLocal, AutoScaleIsLargest |
| `writer` | is what `cif_write` writes read back the same, and within the limit? | lines of 12 characters, folded 4 below that with a window of 2; two values per file, one of them any text of three pieces from ten (quotes, semicolons, blanks, backslashes, newlines, letters up to beyond a line), any list or table of two, or a number; both versions (2,018,190 states) | ReadsBack, LinesFit, ColumnIsKnown, FailsForAReason |

The largest of these take about two minutes.  Loop numbers and container ids only
grow, so `MaxLoopNum` and `MaxId` bound how often things are made, not how often
they are looked at or destroyed; a bound reached disables the creating call only.
`NestTx` and `CifWalk` come to rest (the number of calls is bounded, a walk
ends), and so does `CifWriter` when the file is finished and `CifBuffer` when it
is read to its end, so that their deadlock check is off;
`CifParse` stutters when the parse has returned.  `MCCifStore`, `CifMap` and
`CifValue` use `VIEW` to leave out the output variable (`ret`, `call`), which no
action reads, and `store` has symmetry of the loop handles, which are
interchangeable variables.

Three runs are expected to be violated: each states what the repository says of
the code and shows a behaviour for which it is not so.

| run | what the repository says | what the code does |
|---|---|---|
| `long_write` | the buffer is to "expand capacity by a factor 1.5, as many times as necessary" (value.c:1660) | every iteration proposes 1.5 times the recorded capacity, which the loop does not change: a write that needs more does not return, and so `cif_container_set_value` of a list that serializes to more than 768 bytes (value.c:1666).  `WriteReturns` is checked under weak fairness of the steps of a write, as it is one C function |
| `fully_written` | `cif_write` returns `CIF_OK` "if the data are fully written" (cif.h:1285) | a folded block whose first segment begins with a semicolon is ended by it; the newline at the end of a folded or prefixed text is lost; a line of the full length in a block is too long for the scanner, which counts its newline (ciffile.c:1102, parser.c:706) |
| `respelled` | in standalone maps "the keys belong to the entries" (ciftypes.h:174) | setting an item under another spelling frees the old name, which in entries made by `cif_packet_create` or an iterator may be the key as well (map.c:182): the hash table keeps a key that was freed.  `packets` has `RespellNormalized = FALSE`, the rule that keeps an application away from this |

Where the code does not do what the documentation says, or does what an
application will hardly expect, the passing properties are stated to leave it out:

| property | leaves open, or takes for granted | why |
|---|---|---|
| `ReadsBack` | the texts that `Lossy` of `CifWriter` lists | `fully_written` |
| `StringsHaveOneOwner`, `ActsAsMap` | the application does not set an item with one string under another spelling (`RespellNormalized = FALSE`) | `respelled` |
| `EndedAsDirected` | the end of an element among whose blocks, loops, packets or items SKIP_SIBLINGS was answered | the walk leaves the parent without calling its end handler (cif.c:581, 682, 743, 787), but after frames it calls it; traversal is to "thereafter proceed along the normal path" (cif.h:569) |
| `SkipDepthExact`, `SkippedNotStored` | item handlers do not answer SKIP_SIBLINGS in a loop that is skipped (`SkippedSkips = FALSE`) | they are called there (parser.c:1644), although skipping is to "bypass the current element" (cif.h:562), and that answer sets `skip_depth` to one however deep the parser is in what it skips, so that the rest of it is parsed and stored (parser.c:1651): with `SkippedSkips = TRUE` TLC finds `SkippedNotStored` violated |
| `PacketsAreCurrent` | packets that lost a column to a duplicate name | after a duplicate name in the header, a column that is missing from a partial packet keeps the previous packet's value, or what an uninitialized pointer decides (parser.c:1717), where it is to be filled with an unknown value (parser.c:1715) |
| `FillsConverted` | one character too many for each fill, a CR LF that two reads share | the first CR LF of each fill is not counted, so that the fill ends in one character too many (parser.c:3212); a CR LF that is divided becomes two line ends (parser.c:3201); "carriage return / line feed pairs" are to become newlines (cif.h:980) |
| `FailsForAReason` | texts in triple quotes that fail although they are written (`Unwritable`) | three is added to the length of the first line (ciffile.c:977), and six more characters than that are asked for (ciffile.c:1258): every text of one line that gets triple quotes, as those with both kinds of quotation mark do, is written from delimiter to delimiter and reported as CIF_ERROR, and so is one of several lines with less than three characters beyond the first |
| `RowsBelowLast`, `ScalarsAreScalar` | the scalar loop does not lose its category (`UnsetsScalar = FALSE`) | `cif_loop_set_category` gives it the category NULL without a test (loop.c:175), although its category may not be changed (cif.h:1909); other handles still take it for the scalar loop.  With `UnsetsScalar = TRUE` and `NewCategory = {NoCategory}` TLC finds `RowsBelowLast` violated |
| `ScalarsAreScalar`, `FailureChangesNothing` | that a call fails | once the counter of the scalar loop stands at one with no packet to extend, as when the only scalar with a value was removed, `cif_container_set_value` of a new scalar fails with CIF_RESERVED_LOOP (container.c:369), where it is to add it (cif.h:1810) |
| `ReferentialIntegrity` | rows that nothing refers to | destroying a container leaves the container rows of its child frames, with their loops and values (container.c:676); it is to remove "all its contents" (cif.h:1577) |
| `CallsAreAtomic` | a transaction left open | `cif_container_get_all_loops` returns from within its transaction when a statement cannot be prepared (container.c:896); `AtomicCalls` has an action for it, as no documentation says what is to hold then |

### Assertions

`configure` defines NDEBUG unless it is asked for a debugging build
(configure.ac:109), and the modules describe the code without its assertions.
Two of these do not hold on inputs that the runs cover.  `format_text_sci`
asserts that there are digits (value.c:916); a number that rounds to none, which
`CifNumb` formats as the code below the assertion does, has none, and the
repository's own test expects that text (test_value_init_numb.c:240 to 247).
`write_triple_quoted` asserts that the first line of a text of several ends at
the length it was given (ciffile.c:1249); that length has three added to it, so
that this is false of most such texts, and of those that are shorter
`text[line1_length]` (ciffile.c:1248) is read beyond the end.  Texts that short
fail with CIF_ERROR whatever is read there, in the model as in the code.

### Seen while modelling

Besides what the two tables above say:

*Store.*  A second iterator cannot be opened while a first one is (loop.c:565;
sql.h:136 says "multiple iterations ... simultaneously"); an iterator whose
transaction SQLite has rolled back is taken for active when another transaction
is open (pktitr.c:297); items that a packet omits get no value and
`cif_container_get_value` calls them absent (container.c:1076; cif.h:1977 says
that they get the unknown value); `cif_pktitr_update_packet` succeeds after
CIF_FINISHED (pktitr.c:300 and cif.h:2130); through a stale handle
`cif_loop_add_item` and `cif_container_create_frame` report duplicates and
`cif_loop_add_packet` an internal error (loop.c:344, container.c:456,
loop.c:485), where CIF_INVALID_HANDLE is documented; aborting an iteration gives
loop numbers out again (pktitr.c:97; the schema says they increase
monotonically).

*Walker.*  A loop without packets ends a walk with CIF_EMPTY_LOOP (cif.c:733). 
The tests of the repository do not call `cif_walk` directly.

*Parser.*  Names in a loop header are compared with the container's, not with
each other: `loop_ _a _a` ends the parse with CIF_INTERNAL_ERROR (parser.c:1511;
parser.c:1414 says that duplicates "should not happen"); a data name that is `_`
alone ends the parse with CIF_INVALID_ITEMNAME without the error callback being
asked (parser.c:1324); the start handler of a loop without names is not called,
its end handler is (parser.c:1364); after a CR at the beginning of a file
`get_first_char` reads as much as the buffer holds and counts one character of
it, so that the rest is lost (parser.c:3103); an I/O error is returned with the
code of an uninitialized variable (ciffile.c:579 and parser.c:3188); the error
codes of handle_loop_start and handle_packet_start, and the callback's answer to
CIF_FRAME_NOT_ALLOWED in a block, are overwritten, so that the parse goes on
(parser.c:1435, 1643, 1067; cif.h:734 and cif.h:794 say that it ends).

*Values.*  `cif_value_set_element_at` and `cif_value_set_item_by_key` clean the
target before they copy, so that a source that is in the target, or that has the
target in it, is lost (value.c:1856, 2562); `cif_value_autoinit_numb` cleans the
value before it finds out whether it can set the number, so that a call that
fails leaves an unknown value; numbers whose text has no
nonzero digits cannot be stored (cif_schema.sql:323); the locale that the
functions restore is a string that `setlocale` may since have overwritten
(value.c:2180).

*Writer.*  `write_triple_quoted`
tests the end of the first line three characters behind it, so that it may start a
line, or take the column to go on, where it need not (ciffile.c:1237);
`cif_analyze_string` misses a CR LF that is the first line end; a text that is
folded and prefixed may have a segment one character too long; a number is
written on one line however long it is, and so is a name in a loop header behind
the space it is indented by (a name of 2048 makes 2049 characters); a table key
that has two characters less than a line ends the write with an error, a number
or a table behind a long key with CIF_OVERLENGTH_LINE, and a text of semicolons
longer than a line with CIF_INTERNAL_ERROR.  `FailsForAReason` lists the failures.

## 4. Fairness

`CifStore`, `NestTx`, `CifMap`, `CifValue` and `CifWriter` have none: their steps
are calls an application makes if it likes, or a walk makes, and they state
safety only.  `CifWalk` has weak fairness of its next-state relation: it is one C
function that runs until it returns, given that handlers return.  `WalkReturns`
needs no more.  `CifParse` has the same of the parser, given that handlers and
callbacks return and that the input is finite.  `CifBuffer` has weak fairness of
the steps within `cif_buf_write`, and none of the calls to it.

## 5. Proofs

`CifStoreProofs` begins with the statements: each keeps a database *sound*, well
typed, keys unique, foreign keys met, loop numbers below their container's next
one, row numbers positive.  One lemma per statement says under which condition,
and the condition is the check SQLite makes (`CanInsertItem` and its like) or
what the calling function has established.

It proves, for any sets of codes, names and values and any bounds,

* `TypeCorrect`: `Spec => []TypeOK`
* `KeysStayUnique`: `Spec => []KeysUnique`
* `RowsStayReferenced`: `Spec => []ReferentialIntegrity`
* `LoopNumbersStayBelowNext`: `Spec => []LoopNumbersBelowNext`
* `OpenTransactionIsIterator`: `Spec => []TransactionIsIterators`
* `FailuresChangeNothing`: `Spec => FailureChangesNothing`

None of the four after `TypeCorrect` is inductive by itself.  The invariant `Inv`
is the conjunction of `TypeOK`, `Sound(db)`, `Sound(saved)` (an abort installs
it), `TransactionIsIterators` (an abort outside the transaction would install the
empty database; a call that BEGINs must find none open) and `IteratorHandleHeld`
(the iterator's functions read the loop handle it was made from).  Loop numbers
and uniqueness of keys support each other: that `create_loop_internal` attaches
the items to the right loop rests on `select max(loop_num)` finding the loop just
inserted (`MaxLoopNumIsNew`).  The step lemmas follow the source files: blocks,
frames, loop creation, the other container calls, loop calls, iterator calls.

`FailuresChangeNothing` is an action property and follows from `Inv` call by
call: what `Atomically` and `TopLevel` give back with an error is the database
they were given, the functions that test before they write have not written, and
the statements that run outside of a transaction report an error only where they
find no row, when they change nothing (`NoRowNoChange`).

Two further parts of the module extend this argument.  That on handles proves

* `HandlesStandForOne`: `Spec => []ContainerIdsNeverReused`
* `StaleHandlesStayStale`: `Spec => StaleHandleStaysStale`.

For the first: a new handle is made with a new id, or from a row, so every handle
must agree with every block or frame row of its id (`HandlesFit`), in the tables
as they are and in those a rollback would restore.  A rollback is harmless only since
a transaction that stays open between calls makes no container
(`NoNewContainer`): the iterator's calls do not, and creation fails to BEGIN
there.  For the second: the number of every loop handle has been given out in its
container (`Given`), and from one step to the next no loop appears under a number
given out (`Follows`).  A rollback does take numbers back.  It keeps
`LoopHandlesFit` since what it restores is what the tables followed from, and
since the application does not use the handles of loops made in the transaction
(`MadeSince`) any more.  `LoopHandlesFit` also says that a handle knows whether
its loop is the scalar one (`Agrees`), which the next part needs.

The part on loops proves

* `LoopsHaveItems`: `Spec => []NoLoopWithoutItems`
* `IterationStaysCurrent`: `Spec => []IterationCurrent`
* `RowsStayBelowLast`: `~ UnsetsScalar` implies `Spec => []RowsBelowLast`
* `ScalarsStayScalar`: `~ UnsetsScalar` implies `Spec => []ScalarsAreScalar`.

A loop is inserted without items in the middle of `create_loop_internal` and of
`add_scalar`; `FullBut` speaks of the tables there.  `cif_container_remove_item`
decides by a count whether the loop goes with its last item: the lemma on it
uses the library's facts on the cardinality of singletons.  For an iteration,
each call is shown to go unnoticed by the iterator (`Unnoticed`): what it does
to the tables leaves the names, values and packet count of the iterator's loop
alone (`Undisturbed`), because the application leaves that loop to the iterator
and an item is in one loop only; the iterator's own calls change packets it has
delivered.  `OrderInv` joins the two row properties, which need each other: the
schema's trigger keeps the scalar loop to one packet by its count, which bounds
its rows only if every row is numbered up to that count; and
`cif_pktitr_remove_packet` starts the count of the scalar loop over, which
leaves no row above it only if the packet it deleted was the only one.  That the
count of no other loop is started over rests on `Agrees`.  `OrderInv` needs
`DeliveredCounted` for the packet that `cif_pktitr_update_packet` writes back,
and it speaks of `saved` too.  The hypothesis is the rule that
`cif_loop_set_category` documents and does not enforce: a scalar loop that loses
its category keeps its count, and a container can get a second one.

The assumptions are those the modules state about their constants: the markers
are distinct, normalization yields a valid name or `Invalid`, packets have
normalized names and values, `Unknown` is a value.  TLC evaluates them in every
run.

`NestTxProofs` proves, for any number of calls,

* `CallsTakeEffectAtOnce`: `Spec => CallsAreAtomic`, that is `Spec => Atomic!Spec`
* `SavepointsAreOwn`: `Spec => []SavepointIsOwn`

The invariant `TxInv` says what the place of a function in its program implies.
Before it opens its transaction, the call has changed nothing (`NotOpened`); at a
statement, the writes in force are those the call found and its own up to there
(`Done`), and its transaction or savepoint restores what it found (`CanUndo`);
functions called by another run inside that one's transaction (`AtInner`), and
when they fail their caller undoes everything, the savepoint that a failed callee
leaves behind included.  `Shape` gathers what this needs of the programs: only a
function that BEGINs calls others, those call none and nest, and what returns
without undoing has only read.  Each way out of a function is then one action of
`AtomicCalls`: `CallSucceeds`, `CallFails`, `CallIsLost`, `CallOpens`; all other
steps are stutters.  The assumption is that `NoTx` is not a set of marks; in the
run it is a set with a foreign element.

`CifWalkProofs` proves, for every CIF,

* `WalkClosesIterators`: `Spec => []IteratorsClosed`
* `WalkReturnsAnswer`: `Spec => []ResultAsAnswered`
* `WalkVisitsAsDirected`: `Spec => []VisitedAsDirected`
* `WalkEndsAsDirected`: `Spec => []EndedAsDirected`.

An iterator may be open only for a loop on the stack (`OpenOnStack`), and the
stack nests as the elements of a CIF do (`StackNested`): what is within a loop is
packets and items, so that of the loops on the stack there is one at most.  What
is returned is what was answered, because from the moment a handler answers END
or an error that answer is in `returned` (`Answered`).  The two properties of
what is visited speak of a finished walk only; `Directed` says what holds in the
middle of one.  `EndedAsDirected` leaves the siblings open that are skipped
otherwise than frames are; that nothing is ended that was not entered is proved
of them, too.  Of an element that is not on the stack the walk has done all it
ever will, be it nothing or everything (`Done`).  Of one on the stack it has gone
through the children before the one it is at and through none after (`UpTo`).
That an element is not come upon twice, and that its answers are therefore not
overlaid by later ones, is `StackLeads`: the stack is a path in the tree.  The
assumption, `TreeAssumption`, says what an element of each kind consists of, as
the `walk_` functions go through them, that each element is in one place, and
that frames come before loops; it does not say that the elements are finitely
many.

`CifParseProofs` proves, for every input, every setting and all answers,
provided that no handler of an item answers SKIP_SIBLINGS in a loop that is
skipped (`~ SkippedSkips`; section 3 says what happens then),

* `SkipDepthIsExact`: `Spec => []SkipDepthExact`
* `EndsFollowStarts`: `Spec => EndsWereStarted`
* `SkippedIsNotStored`: `Spec => SkippedNotStored`
* `PacketsStayCurrent`: `Spec => []PacketsAreCurrent`
* `EmptyLoopsArePruned`: `Spec => []EmptyLoopsPruned`.

All of them rest on `ParseInv` (`ParseInvariant`).  That `skip_depth` counts the
elements to be passed over says nothing of the next step unless the productions
on the stack have as many elements under way as are counted (`StackShape`,
`LevelsMatch`), and unless `skip_depth` is not one where an element has been
counted whose start handler is still to be asked (`SkipPhase`): the answer
SKIP_CURRENT would be confused with what was there.  `Beginning` says which
elements have had their start handler called.  `EmptyIsOpen` says that a loop
without packets is in a container that is not passed over, as `parse_container`
prunes only when nothing is skipped.  `CellsCurrent` says what is in a packet
between any two values of it.  These are proved action by action, a lemma for
each, and what several productions do alike (to call a handler, to return, to
recover) is a lemma of its own.

`LineEndsProofs` proves, for every alphabet and input, however it comes in pieces,
for every initial size of the buffer and minimum fill with room for two of them,

* `TokenIsKept`: `Spec => []TokenKept`
* `ThereIsRoomToRead`: `Spec => []RoomToRead`
* `FillsAreConverted`: `Spec => FillsConverted`.

`BufferInv` adds the order of the pointers (`InOrder`) and what the buffer has in
common with the text, character by character (`InStep`).  That the buffer is
reset only when it holds no token, which the code asserts, follows from that
order.  That a fill fits into the buffer after its line terminators were
converted rests on `ConversionFits`: the conversion counts one character more
than it keeps only if it dropped one.  `FillsAreConverted` compares two
selections: the characters the code moves down, which leave out the LF of each CR
LF, and those of the line ends as they should be.  `ConversionConverts` shows that
one is the other, with the CRs replaced.  Both rest on `SelectionProofs`, which
proves that the ranks of the elements of a finite set of integers number them in
ascending order and without gaps (`RankBijection`, `AscendingOrder`), by counting,
and that an order preserving map onto another set carries the numbers along
(`AscendingAlong`).

`CifMapProofs` proves, for any number of handles, items, spellings and values,
provided that the application does not set, under another spelling, an item whose
two strings are one (`~ RespellNormalized`; `respelled` shows what happens then),

* `StringsAreOwned`: `Spec => []StringsHaveOneOwner`
* `KeysStay`: `Spec => []KeysBelongToEntries`, so that the call which
  `~ RespellNormalized` excludes is the only way to what `respelled` shows, and the
  guard `KeysBelongToEntries` of `Next` cuts no behaviour short
* `MapsImplementOrderedMap`: `Spec => ActsAsMap`, that is `Spec => OM!Spec`.

The invariant `MapInv` says of each map that its entries have strings of their
own map and item, that the key is the normalized name, that no item has two
entries, and that nothing else is allocated for the map (`MapFits`); of the
iterator that its names are normalized, different, and all that is allocated for
it (`IterFits`).  That no item has two entries is what `HASH_FIND` before every
addition ensures, and without it neither ownership nor the refinement could be
shown step by step: a second entry
would share its strings, and what is found under a name would depend on the order.
Each operation on a map is shown to leave it with entries that fit, to touch no
other's strings (`SameFor`), and to be seen as the operation of `OrderedMap` of the
same name (`Becomes`, `BecomesPut`); opening and closing an iterator is not seen
at all.  The longest of these is `cif_pktitr_next_packet` into a packet that has
entries (`NextPacketIntoBecomes`): entries without a place in the loop are freed
while new ones come, which may not take a block that is being freed or still held,
and what is seen afterwards is the overlay that `OrderedMap` describes
(`OverlayOfRow`).  The assumption is that the iterator's mark `Unk` is neither a
handle nor a value.

`CifBuffer` proves, for every width of `size_t`, every initial capacity and all
lengths,

* `BufferSafe`: `SizesFit` implies `Spec => []NeverOverrun`: what is copied into the buffer,
  or out of it, lies within what is allocated.

The recorded capacity is never updated, and a needed capacity may wrap around.
The invariant `BufferInv` says why neither does harm: the recorded capacity is
never more than what is allocated; until the buffer is read its position is its
limit; and between the test for overflow and the copy, the needed capacity is
the true sum of position and length, and is at most what is allocated once the
copy is reached.  `SizesFit` is a hypothesis rather than an assumption since the
module's only run is the violated one.

Model-checked only: the invariants and action properties of `CifValue` and
`CifWriter`, and liveness.  `CifValue` and `CifWriter` rest on recursive
operators (to copy and compare nested values, to expand numbers, to fold and to
scan texts), which the prover does not treat.  Written as recursive functions
they would still have to be reasoned about by induction over the depth of a value
or the length of a text, and `ReadsBack` and `NumberReadsItsText` compare what
two recursions do. `WalkReturns`, `ParseReturns` and `WriteReturns` are liveness
properties, which the prover cannot treat under fairness.

## 6. Abstractions and omissions

* In `CifStore` values are opaque, Unicode normalization is a function given as a
  constant, codes and names are atoms.
* The order in which several rows come back is left open where the query has no
  ORDER BY.
* A packet that has both an item of another loop and a duplicate value gets one
  of the two codes; the model always returns the former.
* `cif_destroy` and the freeing of container handles have no further effect on
  the state modelled.
* Hard failures of SQLite are in `NestTx` only.
* Handlers of a walk leave the CIF alone.
* Storage errors and lack of memory end a parse and are left out of `CifParse`.
* `CifMap`: a name that is invalid makes a call fail at once and changes nothing;
  a list of names has no duplicates; no allocation fails; maps that are not
  standalone, which no function of the interface makes, are left out.
* `CifValue`: a double is a whole number of eighths, whose expansion is exact;
  rounding is to nearest.  `cif_value_get_number`'s `to_double` is not modelled:
  it is floating-point arithmetic.  No allocation fails.  The application frees
  what it owns and does not copy a part of an object onto the object.
* `CifForms` and `CifScan`: no carriage returns (they are `LineEnds`' business),
  no surrogate pairs, no characters that CIF does not allow.  Errors are not
  forgiven: the recoveries of the scanner and within lists and tables are not
  modelled, those of the productions are in `CifParse`.  Line and column numbers
  are not modelled.
* `CifWriter`: the output device never fails; the handlers come in any legal
  order, from a CIF that need not be in a store.
* Not modelled: how `cif_parse` guesses encoding and version and the callbacks of
  ICU's converters (byte patterns handed to ICU, no state that later steps
  depend on); the linguist, an experimental application that is not built by
  default; example programs, the second grammar and build files, which are no
  part of the library.

## 7. Plan

1. `CifTables`, `CifStore` with their runs and proofs; `NestTx`, `CifWalk`,
   `CifParse`, `LineEnds`.  Done.
2. `CifMap`, `CifValue` with `CifNumb`, `CifBuffer`, `CifForms`, `CifScan`,
   `CifWriter`.  Done.
3. Proofs: all invariants and action properties of `CifStore`, `CifWalk` and
   `CifParse`, the properties of `LineEnds`, the invariants of `CifMap` and `CifBuffer`, the refinement
   of `AtomicCalls` by `NestTx` and that of `OrderedMap` by `CifMap`.  Done.
4. An abstract specification for `CifParse`: which elements are stored and which
   handlers called, given the answers, for an input known beforehand; and its
   composition with `CifStore`'s container operations.
