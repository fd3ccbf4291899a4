# A formal model of KQuickJS

KQuickJS is mquickjs, a JavaScript engine in C for little memory, and a port of it
to Kotlin with a bridge to host objects.  This directory holds TLA+ models of the C
engine and its command line program: memory, collection, the tables the collector
changes behind the back of the code that uses them, closures, timers, how control
flows in the bytecode that the parser makes and the interpreter runs, numbers and the
arithmetic below them, numbers as texts, strings, regular expressions, the line editor.  TLC checks them on
small instances, TLAPS proves theorems about seven of them for all instances:
the mark phase of the collector, the sweep with the compaction, the memory arena, unique
strings, property tables, closures, timers.

`PROJECT.json` lists, for every definition that models code, the lines it models.

## 1. The system

| component | state it keeps | operations | what makes it hard |
|---|---|---|---|
| memory arena (`mquickjs.c`) | one block: heap from below, JS stack from above, `heap_free`, `sp`, `stack_bottom`, a reserve `min_free_size` | `js_malloc`, `js_free`, `js_shrink`, `JS_StackCheck`, frames of `JS_Call`, `JS_ThrowOutOfMemory` | any allocation may collect or fail; creating the error for that allocates too |
| collector, mark phase | mark bits, a mark stack in the room between heap and stack, `overflow` | `gc_mark_root`, `gc_mark`, `gc_mark_flush`, overflow scans | the mark stack may have two words only |
| collector, sweep | unique strings, position cache (weak), finalizers | second half of `gc_mark_all` | weak references, merging of dead blocks |
| collector, compaction | references threaded through the headers | `gc_thread_block`, `gc_update_threaded_pointers`, `gc_compact_heap` | no spare memory: references and headers are shuffled in place |
| unique strings | sorted table of strings, weak | `JS_MakeUniqueString`, `find_atom` | property keys are compared by pointer; collections between the steps of an insertion |
| property tables | count, mask, chains, properties in order, holes | get, set, define, delete, compact, rehash | keys are hashed by address and move |
| closures | varrefs, attached to a stack slot or detached | `js_closure`, `get_var_ref`, return | a pointer into the stack must not outlive its call |
| interpreter (`JS_Call`) | frames, operand stack, catch offsets, pending exception | opcodes, C functions, interrupts | unwinding, finally, tail calls, uncatchable errors |
| parser | tokens, scopes, labels, bytecode | recursive descent on an explicit stack | backpatching, break through finally |
| numbers as values | none: a word is an int, a short float, minus zero or a block with a double | the arithmetic of `JS_Call` with its fast paths, conversions to integers | each representation has paths of its own |
| floating point (`softfp_template.h`, `libm.c`) | none | add, multiply, divide, root, remainder, conversions, rounding to integers, `js_scalbn` | sticky bits, subnormals, rounding twice |
| numbers to text and back (`dtoa.c`) | none: big integers in fixed arrays | `js_dtoa`, `js_atod`, the methods of Number, `Number()`, literals | rounding once; a buffer whose length is computed before the digits |
| strings | UTF-8 with UTF-16 semantics, position cache, string buffer | indexing, substrings, concatenation, comparison | cached positions; surrogates that meet |
| regular expressions | compiled program; stack of states and undone captures on the JS stack | `js_parse_regexp`, `lre_exec`, exec, search, match, replace, split | code shifted and patched; captures after going back; indexes in units and in bytes |
| timers (`mqjs.c`) | table of 16 timers, list of GC references | `setTimeout`, `clearTimeout`, `run_timers` | callbacks change the table the loop scans |
| line editor (`readline.c`) | line, cursor in bytes and cells, kill buffer, history | keys, escape sequences, redraw | characters of several bytes and cells |
| Kotlin port | byte array as memory, GC references, roots, host objects by address | the same engine, `JSBridge` | state that exists twice: in objects and in memory |
| library, bytecode files, ROM generator | little | mostly functions without state | |

The components share one context.  Everything that allocates may run the collector,
which moves every block; what a C function holds across an allocation must be on a
list of GC references.  So many hazards have one form: something was read or found,
an allocation happened, and what was read is used.  The models therefore put a
possible collection wherever the code allocates.  The others are about meaning: code
that takes shortcuts (a fast path, a cache, backtracking that undoes only what it must,
a cursor that is moved instead of a redraw) and must give what the long way gives.
For these the models have the long way as well, as a definition.

`PROJECT.json` lists the hazards with their lines and the properties that cover them.

## 2. The modules

```
            GCMark                  mark phase          <- GCMarkProofs
  HeapLayout                        words, blocks, references
    GCSweep   GCCompact             sweep, compaction
         Collector                  one collection, end to end        <- CollectorProofs
  Arena                             heap against stack  <- ArenaProofs
  Ranking                           arrays that move together: used by the next two and by GCSweep
  UniqueStrings                     table of property keys            <- UniqueStringsProofs
  OrderedProps  <= PropTable        what properties promise, and how  <- PropTableProofs
  SharedVars    <= VarRefs          what closures promise, and how    <- VarRefsProofs
  Codegen                           what the parser emits
  Semantics                         what a program means
    Interp                          JS_Call on Codegen's bytecode, against Semantics
  SoftFloat                         IEEE 754 with integers
    Rounding                        what IEEE 754 asks for
      Libm   NumberValues           calls of the two C files; the engine's numbers
      NumberText                    numbers to text and back, by its callers
  Dtoa                              big integers, digits (used by NumberText)
  Utf8
    Strings                         strings in UTF-8, seen in UTF-16
    Readline                        the line editor
    RegexpSemantics                 what a regular expression means
      RegexpCode - Regexp           compiler and matcher, against RegexpSemantics
      RegexpMethods                 the loops over the matcher
  Timers                            setTimeout and the loop           <- TimersProofs
  Minimum                           least numbers, bounded recursion, ranks: lemmas of five of
                                    the modules of proofs
```

`<=` is a refinement: the abstract module is instantiated in the detailed one and its
specification is a property of the run.  `<-` names the proofs about a module.

### GCMark, GCMarkProofs

A block is its index in address order, and what `gc_mark_flush` passes to `gc_mark` is
the sequence `refs` of the block.  `todo` holds the fields of the block popped last
that `gc_mark` has still to see, so that one call of `gc_mark` is one step (`Skip`,
`Mark`).  `stack` with `gsp` is the mark stack; a value array takes two words because
the index to go on from is pushed with it.  `StartScan`, `ScanBlock` and `MarkDone`
are the loop `while (s->overflow)`.

`Tricolor` says where the references of a marked block are; `MarkExact` that in the
end the marked blocks are the reachable ones; `MarkTerminates` that the repeated scans
end.  `TypeOK` includes `gsp \in Nat`: the push in an overflow scan is not guarded,
and is safe only because the mark stack is empty there and has two words.

### HeapLayout, GCSweep, GCCompact, Collector, CollectorProofs

Here a heap is words at addresses, so that the properties can tell whether a word of a
string is ever taken for a reference or a header.  `MarkSlots` and `ThreadSlots` are
translated from two functions that enumerate the fields of each kind of block
separately (`gc_mark_flush`, `gc_thread_block`); they must agree, and
`GraphPreserved` fails if one field is missing in one of them.  Locations outside of
the heap are negative: the table of unique strings, the two cache entries, then the
strong roots.  The loops over blocks and lists are bounded recursive functions, a turn of the C
loop each: `Walked` from header to header, `EndOfRun` over a run of dead blocks, `Followed`
along a threaded list, `gc_thread_block` over the fields.

`Collector` runs mark, sweep and compaction on one memory.  The mark phase is one step
there that marks what is reachable: that this is what the loop of `GCMark` computes is
the theorem `MarkIsExact`, and that the two modules mean the same blocks is `MarkedAlike`.  It starts from any memory that is `Sound`: blocks one after the other,
none marked, every reference to an allocated block and none to the block it is in, strings in the
cache, and no table of unique strings without a string.  `Collected` compares the memory in the end with the memory
at the start, nothing in between: kept are the reachable blocks and the table if one
of its strings is kept, packed in their order (`Slid`), every reference to the new place of
what it referred to, all other words the same.  `GraphPreserved` says for each step of
the compaction that every reference can still be found, threaded or not.
`FinalizedOnlyDead` is about the user finalizers.

### Arena, ArenaProofs

Sizes in words, `heap_base` at 0.  `Malloc`, `FreeLast`, `Drop` (values that become
garbage, and `js_shrink`), `Call`, `Push`, `Pop`, `Return`, and the steps of
`JS_ThrowOutOfMemory`, each of which allocates and may fail again.  A check that fails
collects first: `garbage` is what a collection takes back.  `Call` lowers or raises
`stack_bottom`, `Return` leaves it where it is, as the code does.  A comment in the code
asks for `sp` above `stack_bottom` at all times, which is not so: a nested call raises
`stack_bottom`, its return leaves it there, and a frame pushes what it was granted before
without a further check.  In between, allocations go by the raised `stack_bottom`.  What
the frame still pushes has the reserve and the words of the nested call as room;
`ApartWithinReserve` says that heap and stack are apart up to exactly there, and
`NoOverlap`, without that limit, is violated (`MCArenaOverlap`).

### UniqueStrings, UniqueStringsProofs

`JS_MakeUniqueString` in three steps, `Lookup`, `NumericCheck`, `Insert`: between them
are the allocations, and each may collect what no root holds.  `Halved` is one turn of
the loop of `find_atom`, as many turns as there are elements are enough (`Searched`).  A
collection moves the strings that stay to the front of the table (`Nth`).

`TableSorted` is the comment on `unique_strings`; `Canonical` is what the rest of the engine relies
on when it compares keys by pointer.  It includes `WeakTable`: the table and the bits
`is_unique` agree, and what is in the table is allocated.

### OrderedProps, PropTable, PropTableProofs

The array of one object with its words: count, mask, heads of the chains, properties.
`hash` is the function that the present addresses give to the keys; a collection
replaces it by any other function of `Hash` that agrees on keys in ROM and rehashes.
`IsOrderedMap` is the refinement: whatever happens to the array, the keys in order and
their values are those of an ordered map.

The loops of the code are written as what they leave behind: a rehash puts every property
it visits first on its chain, so that the link of a property is the one visited before it
in the same bucket (`LastBefore`); a compaction moves the `j`-th live property to place
`j` (`Nth`).  A chain is followed as `find_own_property` follows it (`ChainFrom`, a
bounded recursive function).

### SharedVars, VarRefs, VarRefsProofs

A call has a chain of the varrefs that point into its frame.  `js_closure`,
`CaptureExisting`, `CaptureNew`, `CaptureFails` and `ClosureMade` are the steps of one
`js_closure`, with `GC` possible between any two.  A return, by value or by exception,
detaches the chain.  `SharesVariables` is the refinement to cells that are shared;
"cell" in a varref is only there to state it.

### Codegen, Semantics, Interp

`Codegen` is the parser from the tree of a program on: for each kind of statement and
expression the instructions it emits, with labels, the list of break entries (the
`env` of the operators, innermost first), `emit_break`, `emit_return`, `get_lvalue` and
`put_lvalue`, `PF_DROP`, and `compute_stack_size` on the result.  The operators have the
names of the functions.  A position is the index of an instruction, not of a byte; a
label is a number until its position is known, where the parser chains the gotos that
wait for it through the bytecode.  `opcode_info` is the part of `mquickjs_opcode.h`
that is needed.

`Semantics` is not translated from the code: it says what the statements mean, by
recursion over the tree, with no stack, labels or jumps.  It follows a history of
events, each an access of the program to the rest of the engine with its arguments
and its answer, and says where the program and the history part.

`Interp` executes the bytecode: `frames` are the frames of `JS_Call` with their
operands, `exception` is `JS_EXCEPTION` on its way.  An instruction that asks something
of the rest of the engine appends an event to `hist`, with any answer: a value that
counts as true, one that counts as false, or an exception.  A value is the place in the
program where it was made, so that a value in the wrong operand is seen.  At a jump or
a call the interrupt handler may end the program.  `Caught` and `Unwind` are what
follows the label `exception`.

`Conforms` (`ProgramsConform` in the run) compares every execution, when it ends, with `Semantics`:
same accesses, order, arguments, and the same end; that it ends, and does not stop on the way, is the
check for deadlock.  It is where a jump that leaves a finally block
out, runs it twice, or returns the wrong value shows.  `DepthAsComputed` relates the
running stack to what `compute_stack_size` found at that place, `AcceptsLegal`
(`BytecodeAccepted`) the syntax errors of `emit_break` to the statements that a break or continue may name.

The modules abstract from what the accesses do: a sum, a property, a variable is an
event.  A program is compiled as a function, not as the text of `eval`, whose result
value needs more code.

### SoftFloat, Rounding, Libm

`SoftFloat` is `softfp_template.h`.  The C file is included once for each format with
the sizes of the fields as macros, the module is instantiated once for each format with
the sizes as constants, and the models use formats narrow enough to enumerate.  Words
are numbers, shifts are powers of two.  `rm` has the numbers of the enumeration, because
the code tests its lowest bit.  Where the code has a 128-bit type and where it multiplies
by halves are both there (`ulong`).

`Rounding` extends it with what the results should be, from comparisons of exact integer
fractions and nothing of the code: `IsSum`, `IsProduct`, `IsQuotient`, `IsRoot`,
`IsRemainder`, `IsInteger`, `IsRint`.  `Libm` has the calls, one to a behaviour, and adds
what `libm.c` does on bits: conversions between the two formats, rounding to integers,
`js_scalbn`, and the square root for machines without one, in two words as in the code.
`CorrectlyRounded` and `ConversionsExact` say that every call gives the exact result
rounded once, and that the functions the compiler calls to compare doubles (`__eqdf2` to
`__unorddf2`), each with its own answer for NaN, decide as the order of the numbers.

`add_sf` and `fmod_sf` call `clz` with 0 when the result is 0, which the function leaves
open; `ClzOfZero` is any of a few answers, and the result must not depend on it.

### NumberValues

A value of the engine on a machine with 64-bit words: an int in the lower half of the
word, a double with an exponent near 0 rotated into it (`js_to_short_float`), minus zero,
or a double on the heap.  The paths of each operator are those of `JS_Call`: both ints,
both short floats, then `js_binary_arith_slow`; a postfix `++` has another expression than a
prefix one, and keeps the old number.  A behaviour is an expression of a
literal and `MaxOps` operations.  `PathsAgree` compares each result with the operation on
doubles, by `Rounding`, and the conversions to integers (`IntegersAgree`), modulo and with
saturation.  `high`, the upper half of the word of an int, is what `OneKeyPerNumber` is
about.

### Dtoa, NumberText

`Dtoa` is `dtoa.c`: big integers as sequences of limbs, multiplication and division by
powers of the radix, rounding to a number of digits and back to a double, the three formats
of `js_dtoa` and the reading of digits, dots, exponents, prefixes and separators by
`js_atod`.  The tables of constants are the functions they tabulate (`build_tables`).  A
limb has 8 bits, a double ten (`MANT_SIZE`, `EXP_SIZE`), an int `INT_BITS`.  A text is a
sequence of codes: a digit or letter is its value as a digit, `Infinity` and `NaN` are one
code each.

`NumberText` has the callers: `toString`, `toFixed`, `toExponential`, `toPrecision`,
`Number()`, `parseInt`, `parseFloat` and the literals of the lexer.  A behaviour is one call;
after `toString` the text is read again.  Texts to read are not enumerated letter by letter
but spelled from the parts of a number, from which the number is also computed (`Denotes`).
`TextReadsBack`: what `toString` writes stands for the number, in every radix, and is read as it.
`DigitsRounded`: the other methods give the digits asked for, rounded once.  Both say that the text
fits into the buffer, for which `js_dtoa_max_len` gives the length.  `TextsRead`: what is read is the
nearest number to what is spelled, as much of the text as belongs to it, or NaN.

### Strings

A register holds a character (a value) or refers to a block; `units` is the same string as
the program sees it, in UTF-16.  `js_string_convert_pos` is translated with its cache:
which entry is chosen, whether the scan goes forward, backward or from the start, what is
replaced, what is kept when the wanted position is inside of a pair.  The string buffer
joins a left and a right surrogate to one character, whether they come as characters or as
strings; `js_sub_string_utf8` splits one.  `JS_GC` frees the blocks that no register holds
and clears their cache entries, so that addresses are used again.

`PositionsExact`: every answer the program gets is the one of the units, and every entry of
the cache is right for the string that is now at its address.  `StringsCanonical`: the bytes
of a string are a function of its units, so that strings can be compared as bytes.
`ComparesInOrder`: `js_string_compare` orders by units though it looks at UTF-8.

### RegexpSemantics, RegexpCode, Regexp, RegexpMethods

`RegexpSemantics` reads a sequence of tokens into a tree and defines the results of matching
the tree, all of them, the preferred one first.  Nothing in it is from the code.

`RegexpCode` is the bytecode, one cell for each byte so that offsets are those of the code,
and what the functions that emit it write: quantifiers insert a loop before an atom that is
already written.  `Regexp` is `js_parse_regexp` token by token, with the calls it keeps on
the JS stack, then `lre_exec`: one action for each group of opcodes, the saved states and the
captures to undo on the stack, `bp` as in the code, polls for interrupts and stack checks
that may end the match.  `RegexpMethods` takes the matcher to be what `Regexp` shows it to be
and has the loops of `exec`, `search`, `match`, `replace` and `split` with their indexes in
units and offsets in bytes.

`AcceptsLegal` and `CodeWellFormed` are about the compiler, `Conforms` and `StackRestored`
about the matcher, `MethodsAsSpecified` and `TurnsBounded` about the loops.  The state a
program can see, captures and `lastIndex`, is compared in full; where the engine keeps to its
own subset of the language, the comparison leaves the case out and says so (see below).

### Readline

The bytes of a key or of pasted text are handed to `readline_handle_byte` one by one:
UTF-8, the states of the escape sequences, the commands.  The screen is what the terminal
makes of the output: `pos` in cells after the prompt and the column `x`, which
`term_update` computes either by printing the line or by moving the cursor.  `accepted` is the
history as a list of lines, to compare the buffer with.

### Timers, TimersProofs

The program is sequential, but the loop calls back into the script in the middle of a
scan.  `ScanFree`, `ScanPending` and `Fire` treat one place of the table each; between
`Fire` and `CallbackReturns` the callback may set and clear any timer.  Time passes
while the script, a callback or the scan runs, and while the loop sleeps, for any part
of the delay, since a signal may interrupt `nanosleep`.

## 3. What is checked

| run | contents and bounds | properties |
|---|---|---|
| `MCGCMark` | GCMark: 4 blocks, 1 or 2 fields, 2 words of mark stack | `TypesOK` (TypeOK), `Tricolor`, `MarkExact`, `MarkTerminates` |
| | UniqueStrings: 7 strings, 7 contents | `TypesOK` (StringsTypeOK), `TableSorted`, `Canonical` |
| `MCHeap` | Collector: 1 to 5 blocks of all kinds | `FinalizedOnlyDead`, `GraphPreserved`, `Collected` |
| | PropTable: 3 keys, 2 values, 2 hash functions, 8 properties of room | `TableExact` (ChainsExact, FreeAtTheEnd), `IsOrderedMap` |
| | VarRefs: 2 closures, 2 varrefs, calls two deep, 2 variables | `RefsExact` (AttachedToActiveCall, ReadsAgree), `SharesVariables` |
| | all three | `TypesOK` |
| `MCLibrary` | Interp: 1183 programs, up to 3 answers out of the usual | `BytecodeAccepted` (AcceptsLegal), `ProgramsConform` (Conforms), `DepthAsComputed` (with the types) |
| | Libm: doubles of 10 bits (4 of mantissa), floats of 5 bits | `CorrectlyRounded`, `ConversionsExact` |
| | NumberValues: doubles of 15 bits, ints of 8, two operations | `PathsAgree` (with the types and IntegersAgree) |
| | Regexp: patterns of 1 to 3 tokens, groups under each quantifier, nested, every class and assertion, lookaheads | `PatternCode` (AcceptsLegal, CodeWellFormed), `MatchesAsSpecified` (Conforms, StackRestored) |
| | RegexpMethods: 13 patterns on 6 strings | `MethodsAsSpecified`, `TurnsBounded` |
| `MCText` | Arena: 20 words, reserve 5, frames of up to 8 words, two deep | `TypeOK`, `ReserveKept`, `OomGivesError`, `ApartWithinReserve` |
| | NumberText: doubles of 10 bits, all that are positive; radices 2, 3, 10, 16, 36; up to 4 digits; texts to read of every shape | `TextReadsBack`, `DigitsRounded`, `TextsRead` |
| | Strings: 2 registers, 4 addresses, a cache of 2 | `PositionsExact`, `StringsCanonical`, `ComparesInOrder` |
| | Readline: 4 reads, terminal of 5 cells, line of 8 bytes, history of 10 | `CharactersWhole`, `CursorShown`, `HistoryIsRecent` |
| | Timers: 2 timers, 3 calls of setTimeout | `TimersKept` (types, RefsAreTimers, PendingAreTimers), `SleepsInTime` (NoOversleep), `AllTimersRun` |
| `MCCollectorFinal` | Collector | violated: `EveryFinalizerCalled` |
| `MCArenaPtr32` | Arena: 12 words, frames of up to 12 words | violated: `GrantAboveHeap` |
| `MCArenaOverlap` | Arena: as in MCText | violated: `NoOverlap` |
| `MCUniqueStringsNum` | UniqueStrings, with another string that looks like a number | violated: `TableSorted` |
| `MCInterpStack` | Interp | violated: `WithinStackSize` |
| `MCNumbersKeys` | NumberValues | violated: `OneKeyPerNumber` |
| `MCRegexpUnset` | Regexp | violated: `UnsetUndefined` |
| `MCTextShortest` | the parts of MCText | violated: `FewestDigits` |

`MCGCMark`, `MCHeap`, `MCText` and `MCLibrary` check several modules in one run of TLC.  They do not
compose them: the variable `part` says which module a behaviour is one of, and the variables of
the others keep one value.  A property `P` of such a run is the named property of the
module for the behaviours of that module; the refinements, `AllTimersRun` and the properties of
Arena and of Collector hold for the others because their variables do not change.

Why the bounds are enough:

- *GCMark*: two words hold one array or two objects, so a block that refers to two
  arrays overflows; four blocks suffice for an overflow in a scan that follows an
  overflow.  The theorems cover all sizes.
- *Collector*: three families of heaps.  Blocks with a table of strings among them,
  every subset of them in use, which makes every pattern of dead runs before, after
  and around the table; three blocks with every way to point; every kind of block
  between two strings that its fields point to, before and after it.  The theorems cover all
  heaps.
- *UniqueStrings*: the table grows twice, and the second time has a spare element; one string is
  equal to either of two others and one to an atom in ROM.
- *Arena*: the order of the sizes is that of the code (slack < critical reserve <
  reserve), and a frame may ask for more words than the reserve and the slack have together,
  as in the code, where it may ask for 65535 and more.  The theorems cover all sizes.
- *PropTable*: the third property doubles the mask of a small table; an object created
  for five properties has a mask that compaction reduces; one of the two hash
  functions puts all keys in one bucket.  The theorems cover all sizes.
- *VarRefs*: captures of two variables, of one of them, and of a captured one, so that
  two closures share one variable and not another, and the second capture can fail.  The
  theorems cover all sizes.
- *Interp*: a way out (break, continue, both with a label, return with and without a
  value, throw, a call that may throw) in each of 12 places of a statement, in each of
  12 places of an outer statement that has the label, so that every pair of statements
  is left and entered again through both.  The other programs are each kind of
  assignment to each kind of target, with its value used and not, and the operators that
  jump.  `MaxOdd` bounds the answers that are true (in a loop: another round), the
  exceptions and the interrupts in one execution: three are enough for a second round
  that ends with an exception whose finally block throws as well.
- *Libm*, *NumberValues*: the code depends on the sizes of the fields only through its
  macros.  The narrow formats keep the order of the bounds that the code relies on
  (`FormatAssumption`, `LibmAssumption`, `NumberAssumption`): a float is narrower than the
  double shifted for rounding; every int is exact as a double; the exponents reach beyond
  the ints, and those of the short floats beyond neither.  Operations of one operand get
  every double; those of two get the mantissas around 0, the middle and the end with the
  exponents around 0, the middle and the end.
- *NumberText*: every positive number of the format, subnormals, powers of two and the largest
  among them; powers of the radices beyond the significand, so that the big integers have
  several limbs and the approximations of powers are rounded; three digits are more than a number of
  five bits has, as 100 are for a double of 53 (`MAX_DIGITS`).  Texts: values at, below and above
  halves between two numbers and the ends of the range, digits beyond those kept, exponents
  beyond an int; what may be wrong around a number.
- *Regexp*: the quantifiers give every form of loop the compiler has (none, optional, star,
  plus, counted, each greedy and not), over bodies that can be empty, that have captures, choices, back references
  and lookaheads, and loops in loops.  A match of the inputs marked `disturbed` may be
  interrupted, or refused room for its stack of states, at every check, so that every way out
  of the matcher happens.
- *RegexpMethods*: empty matches at each place, groups that are unset, characters of two units.
- *Strings*: characters of one to four bytes and both kinds of lone surrogates; the cache of two entries is
  smaller than the number of strings; four addresses are used again after a collection.
- *Readline*: the prompt is longer than the terminal is wide, so that a line of three cells
  wraps and a wide character can be at the edge of a row; the history has room for two or three lines, so that
  old ones are dropped.
- *Timers*: delays that are over at once, shorter and longer than the longest sleep.  The
  theorems cover all delays and sizes of the table.

Every property of a passing run has a mutant in `PROJECT.json`: a definition with a
plausible mistake under which TLC finds the property violated.

### Fairness

`MCGCMark` assumes weak fairness of the whole next-state relation of GCMark: the mark phase is one
loop in one function.  `MCText` assumes it of the steps of `run_timers`, and that the
script and each callback return; setting and clearing timers is never required.
`AllTimersRun` holds because `MaxSets` bounds the calls of `setTimeout`: a callback that
always sets a new timer with delay 0 gets the first free place and starves the later
ones, since the scan starts again after each callback.  That the loops of replace and split
end is stated without fairness, as a bound on their turns (`TurnsBounded`); that a program of
Interp and a match of `MCRegexpUnset` come to an end and do not stop on the way, by the check for deadlock
(in `MCLibrary` the behaviours of the other modules may stop and repeat their last state).

### What the violations show

- `TableSorted`: `JS_MakeUniqueString` finds the place for a string, then calls
  `js_is_numeric_string`, which allocates for strings that look like a number; a
  collection there shrinks the table, and the string goes to the old index.
- `EveryFinalizerCalled`: the sweep looks at the first block of a run of dead blocks
  only.  The port to Kotlin has this right, and `docs/upstream_sync_2026-10.md` says so.
- `NoOverlap`: an outer frame is granted many words, a nested call raises `stack_bottom` and returns,
  an allocation takes the memory up to there less the reserve, and the outer frame pushes on, into
  the heap.  `f(g(), 1, 2, ...)` with about a hundred arguments does this when `g` fills the heap.
- `WithinStackSize`: `compute_stack_size` compares the depth after each instruction.  The return address
  that `OP_gosub` pushes is added for its target but not compared, so that it is not counted where the
  target is the `ret` of an empty finally block.  The target of `OP_catch` is not followed at all, so that
  the operands of a catch block are left out, too.  The function asks for less than it uses when it is
  called; the stack check leaves a slack, which covers short expressions.
- `GrantAboveHeap`: on a machine with 32-bit pointers `check_free_mem` compares a
  negative difference as an unsigned number.
- `OneKeyPerNumber`: the fast paths store an int with the upper half of its word 0,
  `JS_NewShortInt` with the sign in it.  A negative integer has two words, and properties are
  found by comparing words: after `o[-1] = 5`, `o[0 - 1]` is undefined.
- `FewestDigits`: the digits of `toString` are found by "successive tries" (`src/dtoa.c:1197`) for the
  minimum number of them, of one text for each number of digits, the nearest.  Below a power of two the
  numbers are twice as close, so that the nearest text may be read as the number below while one above is
  read as this one: `Math.pow(2, -44)` is printed as `5.6843418860808015e-14`, where `5.684341886080802e-14` would do.
- `UnsetUndefined`: `REOP_save_reset`, at the start of what a quantifier repeats, resets the groups in it
  to position 0, not to unset, so that a group that takes no part after that is the empty string: in the last
  round of a loop, or in a match where its quantifier is `{0}`, as in the run.

### What the properties leave out

These the models show as well; they are excluded in the properties, at the place where the
exclusion is written, since they are one case of a property that holds otherwise.

- *Strings*.  A single lone surrogate is a value when `charAt` makes it and a block
  when `substring` does: the two are equal as strings, but not as property keys.
  `js_string_compare` compares code points where the language compares units, with a
  correction for pairs that does not reach a lone left surrogate:
  `"\ud83d\uffff" < "\ud83d\udc31"` is true.
  `js_string_repeat` returns -1 where the conversion of the count has thrown.
- *RegexpMethods*.  Replace does not reset its captures between two matches; the captures of
  split are appended without a look at the limit, and split finds a match at the end of
  the string; match with g does not move on after an empty match; `lastIndex` beyond the end is clamped; search resets
  `lastIndex` with g or y when it finds nothing.  The engine claims a subset of the language only.
- *NumberText*.  The exponent of a text saturates, but the sum with the places of its digits wraps
  around: `Number("1000000000000e2147483639")` is 0.  Texts of one character do not reach `js_atod`:
  `parseInt("a", 16)` is NaN, `parseInt("9", 8)` is 9, `Number(" ")` is NaN.
- *What NumberText takes as the code has it*, without a property that asks for more: `parseFloat("1e")` is NaN, `Number` accepts
  `"-0x10"`, `"0x1.8"` and `"0x1p3"`, literals `1._5` and `0_1`.
- *Libm*.  `__nedf2` gives 0 for NaN ("NaN: return 0", `libm.c:136`), which the compiler takes for equal:
  with `USE_SOFTFLOAT` a C comparison `!=` of a NaN is false.  `ConversionsExact` excludes this case.
- *NumberValues*.  The slow path of a postfix `++` computes `d + 2 - 1` (`mquickjs.c:4576`), which rounds
  twice: after `x = 0.7; x++`, `x` is 1.7000000000000002.  `PathsAgree` excludes the result of a postfix
  `++` where `d + 2` is not exact.
- *SoftFloat*.  `clz` of 0 (`softfp_template.h:295`, `932`), a shift by 32 in `js_sqrt` for one subnormal
  number; the result is the same whatever these give.
- *Readline*.  `term_insert_region` compares the place of insertion, not the length of the line,
  with the room: behaviours end where the line is full.  What was read after the end
  of an accepted line is dropped.  A wide character does not fit where the prompt leaves one cell of the row
  (`ReadlineAssumption`).

## 4. What is proved

`GCMarkProofs` proves for every heap, every number of blocks and every size of the mark
stack of at least two words (`GsSizeAssumption`) that `TypeOK`, `Tricolor` and
`MarkExact` are invariants.  `Tricolor` alone is not inductive.  `IInv` adds that every
marked block is reachable, as are the blocks in `todo` and on the stack; that the roots
not yet passed are covered; that stack entries are marked blocks with references; and
what `phase` and `scan` say about each other.  A second invariant, `RoomInv`, counts
words: the free words and those of the entries make up the stack, which is what bounds
the push that is not guarded.  `MarkExact` follows at the end of the marking, when the
marked set is closed, from the definition of `Reachable` as the least closed set.

`CollectorProofs` proves `TypeOK`, `FinalizedOnlyDead`, `GraphPreserved` and `Collected` for every memory
that is `Sound` (`StartHeapsAssumption`), with any number of blocks of any kind and size.  The mark phase
is one step there: `MarkedAlike` instantiates `GCMark` and says that every `Sound` memory can be seen as one of its heaps
(`Abstracts`: its blocks by number, its references as sequences) and that the blocks it calls reachable there are those
that the step marks, so that `MarkIsExact` of `GCMarkProofs` is about that step.  None of the four is inductive; `IInv` has a part for each phase:

- *Sweep*.  What is kept (`Kept`) is known from the memory at the start: the reachable blocks, and the table with the
  entries that are left if there are any.  `InSweep` says that the blocks lie one after the
  other, that those kept have their header (marked from the sweep on, not marked before it) and their words,
  and that the others are free blocks before it and not marked after it.  A run of dead blocks is
  shown to end at a block that is kept or at `heap_free` (`RunEnds`), so that merging takes nothing that is.
  `Finals` bounds the finalized objects by the place of the sweep.
- *Compaction*.  The memory is described by what it was before (`swept_mem`) and by which places wait on
  which list.  `Listed` says of a header that a list of places without repetition starts there and ends with
  the header's word.  Before a block is reached in pass 1 all places passed that refer to it wait;
  when it is reached they get the new address; from then on only those wait that refer back
  (`Threaded1`, `Waits1`, `InPass1`).  In pass 2 those are the only lists left (`Backward`, `Back`), and the blocks before
  `ptr` are at their new places with each word as it will be in the end (`MovedTo`, `Now`).
  Threading puts a place on one list and leaves the others (`PlaceThreaded`); undoing a list
  leaves the others (`ListUndone`); a move goes down in memory, over words that are not needed any more,
  since a block that slides ends at or before the block that is reached next (`SlidFacts`, `Pass2Live`).

That the loops find what their definitions count to (`WalkMeets`, `RunEnds`, `ListFollowed`) goes by the
least turn that is wrong (`UpTo`, `Minimum`).  `Collected` is the invariant at the end, read as a
statement about the memory at the start.  `EveryFinalizerCalled` does not hold, for the reason above.

`ArenaProofs` proves `TypeOK`, `ReserveKept`, `OomGivesError` and `ApartWithinReserve` for all sizes
of the memory, of allocations and of frames, from these assumptions: pointer differences are wider than
sizes (`Ptr64`); message and error object fit into the reserve (`ErrorFits`, for
`OomGivesError`); the critical reserve has two words (`HoldsMarkStack`, for `ApartWithinReserve`).  The
invariant relates `stack_bottom`, which is not restored, to
every frame: the last check was that frame's own, so that it is below all that the frame may push, or that
of a call made from it, so that it is below the words of that call.  Nothing better can be said of the latter: with
one word more in `WithinReserve` TLC finds heap and stack too near to each other.

`TimersProofs` proves `TimersKept` and `SleepsInTime` for every size of the table, every delay
and any number of timers (`TimersAssumption`: sizes and bounds are numbers, the table and the
longest sleep are not 0).  `RefsAreTimers` and `PendingAreTimers` are nearly inductive: what a
callback does to the table, one timer at a time, keeps the list of references and the table in
step.  `SleepsInTime` is not: the loop goes to sleep with the shortest delay it has seen, and
nothing says that it has seen all of them.  `Scanned` does: during the scan, no timer in
a place already passed is due before the delay found so far is over.  A callback ends the scan,
which is why that holds.

`VarRefsProofs` proves `RefsTypeOK`, `RefsExact` and the refinement `SharesVariables` for all
programs, that is, whatever is called, captured and assigned, from `VarRefsAssumption`, which says
only of what kind the constants are.  The invariant has what the collector keeps (`Kept`: what calls,
closures and the closure under way reach is allocated), the chains (`Chains`: a chain has the attached
varrefs of its call, one for each variable, and every attached varref is on the chain it
points to), the names of the variables (`Names`), and what `js_closure` has captured so far
(`Making`).  A name is a call and a variable of it; two varrefs in use never have one name, which holds
only of those that the collector still finds: the others keep theirs until their blocks
are used again.  From there each step is a step of `SharedVars`, or leaves the cells, the
closures and the calls as `SharedVars` sees them (`View`): a detach copies the value that was read through the stack.

`PropTableProofs` proves `PropsTypeOK`, `TableExact` and the refinement `IsOrderedMap` for all
keys, all hash functions and all sizes, whatever hash function a collection leaves behind
(`PropTableAssumption`: hashes are numbers, objects are created with room for a property or none at all, a list
in ROM has different keys and at least one).  What `TableExact` says of chains, as sequences that are followed,
is not the form to reason about.  The invariant `Good` says instead that the link of a live
property is the last live one before it in its bucket, and the head of a bucket its last one
(`Linked`): all chains go down in the array.  A new property goes behind all live ones, so that it may be the
head; a deletion passes its own link on, which is the last one before it; compaction and rehashing
build such chains whatever they were.  With it are the count (`Counted`), a mask that is a power of two less one (`Masked`), types
(`Array`, `Pointing`) and the free slots (`EndsFree`).  `ChainIsExact` gets back from `Linked` to the chain that
`find_own_property` follows.  For the refinement, `Order` lists the live properties of a table by place, and
each operation is related to `Append`, `RemoveAt` or nothing by counting live properties up to a place.

`UniqueStringsProofs` proves for all strings and any number of blocks (`ContentAssumption`) that
`StringsTypeOK` and `WeakTable` hold in all behaviours, and that `TableSorted` and `Canonical` hold in
those where no collection in `js_is_numeric_string` takes out of the table a string before the place
that was found (`PlaceStays`, an action that the theorems name as their hypothesis).  They do not hold
without it, as the run `MCUniqueStringsNum` shows; with the theorems, that step is the only one of
`JS_MakeUniqueString` and of the collector that can put a string in the wrong place.  It happens only for
strings that look like a number.  The invariant adds to the
order that the string about to be inserted has its place (`RightPlace`) and that elements beyond the length are
unused (`Spare`).  `SearchInOrder` says what the binary search finds in a sorted table: after `d`
turns the element is found, or no more than `n - d` places are left and it is in none of the others.
`NthOfFirst` is why a collection leaves the place right: as long as all strings before it stay, their
number does not change.

`Minimum` has what these five share: a set of numbers has a least element, a function
defined step by step up to a bound exists, and the numbers of a finite set are counted by `Nth`.  The induction theorems of the library take
an operator as an argument, which the provers cannot do; a proof by the least counterexample needs
none.

TLC checked each of these invariants on the instances of the runs, that of the collector on the heaps of
`MCCollector` with `Listed`, which quantifies over sequences, as the list that `Followed` finds.

Only model-checked: `Readline`;
`Interp`, the numbers and their texts, `Strings` and the regular expressions, which are recursive (the proof system
does not support recursive operators); and the liveness properties
(`MarkTerminates`, `AllTimersRun`), which the proof system does not cover.

## 5. What is not modelled, and the plan

Next, in this order:

1. `KtGC`, `KtBridge`: the collector of the Kotlin port with its roots, its GC
   references in two places and its table of host objects by address.
2. The rest of `Interp` and `Codegen`: constructors, method calls, tail calls from C
   functions, the limit of recursion, for-in, object literals.
3. The parser's own stack; scopes and `resolve_var_refs`.
4. Arrays and for-of; prototype chains and the kinds of property; bytecode files.

Theorems worth proving next: `HistoryIsRecent` of Readline, `CharactersWhole` of Readline, for lines of any length.

Left out: the polynomials
of `libm.c` (sin, exp, log, pow), which approximate real functions; the lexer, of programs and of patterns;
the library functions without state other than those of strings and regular expressions; reading files and
options; text output, and the utilities.
