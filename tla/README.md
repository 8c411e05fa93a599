# A verification of lox-go

TLA+ models of the two Lox implementations in this repository, model-checked
with TLC, and proofs about them checked with TLAPS. Paths are relative to the
repository's root.

## 1. Inventory

The repository holds two implementations of one language. Neither has threads,
timers, messages or anything on disk that must survive: the state that is hard
to get right is *memory*, *stacks* and *agreement between two passes or two
implementations*, over long sequences of legal operations.

**clox** (`clox/*.c`), in C, chapters 14 to 17: text -> tokens -> bytecode -> value.

| part | state it keeps | operations | what makes it correct |
|---|---|---|---|
| heap (`heap.c`) | one arena, boundary tags, a doubly linked list of free blocks kept inside them | heapAlloc, heapFree, heapRealloc, heapDestroy, heapCheck, heapStats | blocks handed out never overlap and keep their owner's data; tags and list agree; nothing is lost to fragmentation that merging should undo |
| memory (`memory.c`, `memory.h`) | none | reallocate and the growth macros, over libc or the heap | the old size claimed is the size the block has |
| chunk (`chunk.c`, `line.c`, `value.c`, `debug.c`) | three growing arrays: code, runs of lines, constants | writeChunk, writeConstant, addConstant, freeChunk, getLine, the disassembler | what was written is what is read back, across both operand widths; nothing leaks |
| scanner (`scanner.c`) | cursor, line, a stack of brace counts for `"${...}"` | scanToken | every `}` is read as what it closes; no character is lost |
| compiler (`compiler.c`) | two tokens, error and panic flags, the C call stack | compile | it accepts what the other front end accepts, says one thing when it does not, and emits the tree in postfix order with the right lines |
| virtual machine (`vm.c`) | a stack that grows and moves, ip, the current chunk | interpret, interpretChunk, run | no dangling pointer, balanced stack, the right value |
| process (`main.c`) | mode, exit code | run, repl, the leak check at exit | every input is answered, the process ends with nothing allocated |

The compiler pulls tokens from the scanner one at a time and writes into a
chunk that is a local variable of `interpret`; the machine runs that chunk
through raw pointers; all arrays and the stack grow through `reallocate`.

**glox** (Go): text -> tokens -> tree -> resolved tree -> effects.

| part | state it keeps | operations | what makes it correct |
|---|---|---|---|
| scanner (`lexer`) | cursor, line, tokens | ScanToken | the tokens clox finds but `?` and `:`, on the same lines |
| recursive descent (`parser/parser.go`) | cursor, errors | Parse, ParseAll, ParseProgram, synchronize | it accepts the grammar and builds its trees; it blames the first bad token; recovery ends and loses no error |
| LL(k) (`parser/llk`) | FIRST/FOLLOW sets, a table, the driver's two stacks | newTable, predict, recover, vanish, the same entry points | the sets are those of the grammar; a conflict is never hidden; the same trees and the same errors as recursive descent, at every k |
| resolver (`resolver`) | a stack of scopes, the function and class it is in | one visit per node | each use is bound to the declaration the text says; exactly the static errors are reported |
| interpreter (`interpreter`) | globals, environments without names, closures, classes, instances; Go's stack | one visit per node, Call, bind, property lookup | environments have the shape the resolver assumed, so nothing but an assignment in a variable's own initializer is ever out of range; super and this mean what the text says |
| session (`main.go`, `pkg/errors`) | one interpreter, two global error flags | runSource, RunPrompt, Reset | a line with an error runs nothing; an error leaves the session usable |

The resolver writes the interpreter's table of slots; from there the two share
only the *assumption* that both open one scope for the same constructs. Go
panics carry `return` and runtime errors through every frame in between.

Besides these: the code generator `cmd/genast`, printers in `ast`, scripts in
`tool` that compare the two implementations on files, documentation and tests.

**Hard behaviours**, each listed with its line under `hazards` in
`PROJECT.json`: merging and splitting of blocks in every order; pointers into
memory that has moved or been freed; a stack with values left over; error paths
that return early; the border between two encodings; two passes that must count
alike; unwinding through many frames; counters that nest; fixpoints over sets
that are cut; recovery after an error that must end, and end where the other
parser's does; flags that outlive a line. There is no concurrency, no message
and no crash recovery to model.

## 2. Modules

Composition is by `EXTENDS` unless said otherwise.

| modules | model |
|---|---|
| `Malloc` | what `heap.h` promises a caller: an abstract allocator |
| `Heap`, `MCHeap`; `HeapProofs` | `heap.c` word by word and its runs; proofs of its invariants, and from them of the two walks and of the refinement of `Malloc` |
| `Memory` -> `Chunk` -> `HandBuilt`, `MCHandBuilt` | `reallocate`, the chunk, and a program that builds chunks by hand as `clox/test` does |
| `ChunkProofs` -> `HandBuiltProofs`, `CloxProofs` | what every write to a chunk preserves; the proofs about `HandBuilt` and about `Clox` |
| `Listing` | what `chunk.h` promises: a list of instructions with lines |
| `Compiler`, `VM`, `Clox` | the compiler and the machine, instantiated by the process that drives them |
| `Ladder`, `CloxProperties`, `MCExpressions`, `MCSession` | Go's expression parser, postfix printer and evaluation as functions; the properties of clox that are judged by them (the others are stated in `Clox`); two runs |
| `CloxScanner`, `GoScanner`, `Scanners`, `MCScanners`; `ScannersProofs` | both scanners, instantiated over one text; proofs about that of clox, and how far glox returns the same |
| `Program` -> `Resolver`, `Interpreter` -> `Glox`, `MCGlox`; `InterpreterProofs` -> `GloxProofs` | programs as trees, the two passes over them, and a session; lemmas about the text, and about the interpreter's steps over a text with the right addresses; the proofs that the resolver's addresses and errors are those of the text, and what follows of a session |
| `Selection` | the elements of a sequence at some of its indices, for `Program` and `Scanners` |
| `Tokens` -> `Descent` | what both parsers share; recursive descent, a function per rule |
| `Productions` -> `Sets` -> `Table`; `Tokens`, `Productions` -> `LoxGrammar`; both -> `Driver` | what a grammar is; sets of k-strings; the table and its repairs; Lox as data with its actions; the loop over two stacks |
| `Language` | the reference: Lox as rules to derive texts from |
| `FrontEnds`, `MCFrontEnds` | scripts, sessions and batches, run by all front ends side by side: `Driver` by EXTENDS, `Descent` by INSTANCE |
| `Sets` -> `Analysis` -> `Tables`, `MCTables` | `analyze` and `newTable` turn by turn for any grammar; what the sets and the table mean |
| `AnalysisProofs` | proofs about `Analysis` |

How state and actions correspond to the code (the map in `PROJECT.json` gives
the lines of every definition):

* **Heap.** `mem` maps each word's address to a number; tags, list links and
  data are all just numbers, so the model can corrupt itself as C can. The
  operators `coalesce`, `findFit`, `place`, `heapFree`, `heapRealloc` are the C
  functions, from a pair (memory, list head) to a pair. The actions `Alloc`,
  `Free`, `Realloc`, `Store`, `Destroy` are calls by a client, whose pointers
  are `owned`. Sizes wrap at `SizeMax + 1`. A refused request changes nothing
  and is a stutter; `malloc` failing for the arena is that too. Memory that was
  never written is zero, which no property depends on because no code reads it.
* **Memory, Chunk.** A pointer is a block and an offset. A resized block always
  moves, so a stale pointer is always caught; an access outside a live block or
  a second free sets `wild`. `tally` sums the sizes callers claim. Exhausting
  memory ends the process in the code and is left out. An instruction's operand
  is three digits in base `ByteSize`, which is 256 in the code.
* **Compiler.** The C call stack is `frames`; a step runs from one call of
  `parsePrecedence` to the next. A token is a type and a line; a scanner error
  is a token, as in the code.
* **VM.** `stackTop` and `ip` are pointers that dangle. A value is the
  expression that computed it, so operand order and association are visible.
* **Clox.** What the process is in the middle of is `doing`; a session is
  inputs (texts to interpret or to dump, chunks built by hand) until `Exit`.
* **Scanners.** Characters that every rule treats alike are one character;
  `?` and `:` are two of their own, tokens of clox and errors of glox. A number is
  too large for a float64 when it has more than `MaxWhole` digits before its dot. A
  step is one call of `scanToken`. Only one keyword is spelt out.
* **Program.** A tree in the order in which its nodes are visited. A node's
  index is its identity, as the pointer is in Go. What the parser guarantees of a
  tree is `Grammatical`, by which `Write` takes only phrases that fit.
* **Resolver.** `resolver` is the struct, with the node it is at; Go's stack,
  where the enclosing function and class wait, is its field `enclosing`. One
  action per Visit method (`VisitClassStmt` has one per stage).
* **Interpreter.** `interp` holds the globals, every environment ever made, the
  classes and instances, and Go's stack: a frame per block, loop round or call,
  with the environment it will put back. Which way a condition goes is open.
  Reading a slot that does not exist, a `return` nobody recovers and a failed
  type assertion make the process crash, as an unrecovered panic does.
* **Tokens, Descent, Driver.** A parser is a record, and each Go method an
  operator from the record before to the record after. A failed parser passes
  through every operator unchanged, which is `if err != nil { return nil, err }`.
  A token's index stands for its lexeme, literal and line, so trees and errors
  that name different tokens differ. A round of a loop that consumes nothing
  marks the parser as hanging, and so does the LL(k) loop past `2^MaxSteps`
  steps. `reports` are what pkg/errors prints, `err` and `programErrors` what is
  returned: over the limit of 255 the two differ.
* **Table.** `analyzeFirst` and `analyzeFollow` reach the fixpoint with whole
  passes; `Analysis` has the passes as the code makes them, production by
  production, each reading what the one before wrote, and the `tables` run
  shows that both give the same sets.
* **FrontEnds.** One action per stage of `runSource`, one round of the parsers'
  loop at a time. Every front end keeps its own flags and exit code, as its own
  process would. The scanner and the interpreter are what `main.go` sees of
  them: an error flag, and how a run ends.
* **Analysis.** Each loop variable of the Go code is a variable, each turn an
  action. A grammar is any value of the constant `Grammars`.
* **Glox.** A line is written phrase by phrase, then resolved, then refused or
  run. A bare expression skips the resolver, as `main.go` has it.

## 3. Runs

| run | question | bounds, and why they are enough |
|---|---|---|
| `heap_integrity` | Do tags, list and callers' blocks stay right over every order of calls? | An arena of 120 bytes holds three smallest blocks, enough for a block with neighbours on both sides and every case of `coalesce`; sizes 0, 1, 17, 48 and 250 sit at the rounding boundaries, and 250 wraps; malloc may return an aligned address or one whose alignment costs the arena 16 bytes |
| `heap_contents` | Does the word-level heap implement `Malloc`? | Two or three owners, each with words of its own: growth in place, copies, and reuse of a freed block |
| `hand_built` | Does a chunk keep its listing, with no leak and no wild access? | `ByteSize` 2 puts the narrow/wide border at 2; nine bytes pass the first growth at eight. The full pool, 8 constants, is left to `session` and to the proofs |
| `expressions` | Is every text compiled, blamed and run as the other front end has it? | All texts of five tokens out of eight types: two operators and their precedence, parentheses, `?:`, scanner errors |
| `session` | Does that hold when inputs follow one another in one process? | Three inputs from texts that fill the pool, grow every array and the stack, and fail; `STACK_INITIAL` 2 makes the stack grow |
| `scanners` | Does each `}` close what it should, and do the two scanners agree but for `?`, `:` and too large numbers? | Six quotes, `${`, braces and newlines, with `MAX_INTERPOLATION` 2, so that one can be too deep; and all texts of four characters out of twelve: both lookaheads at the end of the text, comments, unterminated strings, `?` and `:` in and out of strings and comments, and three digits where `MaxWhole` is 2 |
| `scopes` | Do resolver, interpreter and text agree on scopes and slots? | All programs of six phrases over one variable and one function; the program in which a closure must not see a later declaration needs six |
| `front_ends` | Do both parsers, at every k, accept the language, blame the right token, build the same trees and make the same errors, and does a line run exactly when it is clean? | Every text one token away (cut, deleted, replaced or inserted, out of 14 tokens) from programs that use every rule or have longer lists than the limit: about 3500 texts with one and often several errors, and programs of the language over the limit once, twice and in a method; the limit of 255 is 2; k is 1 and 2, since the tables of Lox at 3 are too large for TLC; a second line shows what a line leaves behind |
| `initializers` | Does every use of a local find its slot? No: see Divergences | four phrases of `scopes`: a block, a variable, an assignment in its initializer |
| `messages` | Do the two always say the same? No: see Divergences | the same edits of one call |
| `tables` | Are the sets and the table those of the grammar, whatever the grammar? | About 800 grammars of two nonterminals with empty bodies, actions, left and right recursion and missing rules; k from 1 to 3, 0 refused; words up to 8 and texts up to 3 terminals |
| `classes` | The same for this, super, getters, initializers and class methods, and over two lines | Five phrases build a chain of three classes, at the top level or in a block, and call it |

What the properties say:

* Heap: `HeapCheck` is the code's own consistency check. `OwnedApart`: blocks
  handed out are allocated, large enough and apart. `WholeAgain`: when all is
  freed there is one free block. `RefusedOnlyWhenFull`: a request is refused
  only if no free block fits. `KeepsPromise`: refinement of `Malloc`.
* Chunk: `MemorySafe`, `NothingLeaks`, and `KeepsListing`, refinement of `Listing`
  through the disassembler.
* Clox: `OneMessage` (the first error and only it, where Go's parser puts it),
  `EmitsPostfix` (what `tool/rpndiff.sh` compares), `ComputesTheValue`,
  `MemorySafe` (no access outside a live block, no second free), `NothingLeaks`
  (between inputs only the stack is live), `TypeOK` (the stack's size is that of
  its block, its height within it) and `ComesBack`.
* Scanners: `BracesMatch`, `TokensCoverTheText`, and `ScannersAgree`, what
  `tool/scandiff.sh` compares and what it leaves out: the tokens are the same but
  for `?` and `:`, which only clox has, and glox complains of these, of clox's error
  tokens and of numbers that are too large, and of nothing else.
* Glox: `ResolvesLexically` (slots are those of the text), `RefusesExactly` and
  `WarnsExactly` (errors and warnings are those of the text), `InScope` (the
  chain of environments is the chain of scopes around the node being executed,
  and between lines it is the globals), `SlotsLineUp` (the claim at
  `interpreter/environment.go:34`), `CrashesOnlyInInitializers` (the claims at lines
  78, 89 and 99 of that file, but for the assignments of the finding below, of
  which `NeverCrashes` makes no exception) and `SuperGoesUp`. The reference side of each is read off
  the tree without a walk that keeps state.

* Parsers: `AcceptsTheGrammar` and `BlamesTheFirstBadToken` (against `Language`,
  which derives texts and knows nothing of either parser), `SameTrees`,
  `SameErrors`, `RunsOnlyCleanLines` (a text runs exactly when it is in the
  language, within the limits and was scanned cleanly, whatever came before it,
  and the exit code says what went wrong) and `EveryLineEnds`.
* Tables: `SetsAreThoseOfTheGrammar` (FIRST_k and FOLLOW_k are the words and
  contexts of the grammar cut at k: cutting at each step loses nothing),
  `ConflictsExactly`, `ParsesTheLanguage` (a table that was built decides every
  text, repairs included) and `Ends`.

Every run but `messages` and `initializers` passes.

**Divergences.** `algorithm_test.go:177` and `table.go:94` say that both parsers
report the same message at every k. For a call whose argument cannot begin,
`f(` or `f(;`, recursive descent says "Expect expression." and LL(k) "Expect one
of ...", because the rule `arguments` has no message of its own; the token is
the same. That is what `messages` shows and is recorded as a finding; it is the
only difference, as `SameErrors` shows on all the texts of `front_ends`.

`environment.go:99` says that the slot of an assignment exists because the
resolver found a declaration for it. `{ var a = a = 1; }` has the declaration and
not the slot: the resolver refuses to *read* a local that is declared and not yet
defined (`resolver.go:408-416`) but resolves an assignment to it (421-425), the
interpreter defines it when its initializer has run, and the index out of range is
no runtime error, so glox dies with a Go panic. That is what `initializers` shows
and is recorded as a finding; `CrashesOnlyInInitializers` says that it is the only way
in which glox dies.

Met on the way, and without consequence for a user:

* `docs/llk-parser.md`, "What recovery does not fix", and the comment at
  `algorithm_test.go:231` name two texts, `1 2` and `while (1 2;`, whose messages
  differ. They agree: `vanish` was written since.
* `scanner.h:13-14` calls `?` and `:` "the one place the two token vocabularies
  differ". `TOKEN_INTERPOLATION`, a few lines below, is another: a string with `${`
  in it is one STRING to glox. No file of the corpus has one.
* `docs/grammar.md` has no getters and no class methods; both parsers do, and
  `Language` has them from the comment of `classDeclaration`.
* `sets.go:159` says that a body with a symbol whose FIRST is not known yet
  contributes nothing. It does contribute a prefix that is already k long. In a
  grammar with a nonterminal that derives no word this leaves strings in FIRST
  that begin no word; `SetsAreThoseOfTheGrammar` therefore speaks of grammars
  without one, and Lox is such a grammar.

**Fairness.** Most properties are safety and need none.

* `ComesBack` uses `Clox`'s `Fairness`: a process that is busy and has a next
  step takes it. There is one thread and no wait but for input, so the code
  justifies it. Inputs and exit are not fair: the user may leave. It is written
  with `[]<>` rather than `WF_vars`, because TLC is slow on ENABLED of these
  actions; it is equivalent because a busy process always has a step, which the
  deadlock check shows.
* `EveryLineEnds` uses `WF_control(Lexes \/ Parses \/ Runs)`: a process between
  reading a line and being done with it goes on by itself. Each action is a turn
  of the control (which stage follows) and what the turn does to the data; the
  latter can always be done, so that fairness of the turn is fairness of the
  action. That the parsers' loops *end* is not assumed: a round that consumes
  nothing leaves the parser hanging for good, and the property fails.
* `Ends` uses `WF_vars(Next)`: `newTable` is one call and waits for nothing.

**Deadlock** is checked in every run but three; the actions named `Exited`,
`Finished` and `Over` stand for a process, a text or a bounded session that is
done. `Analysis` and `FrontEnds` have none: a call has returned, a script has
exited, a session has reached its bound. There the liveness property says that
nothing stops earlier.

## 4. Proofs

**The heap.** `HeapProofs` proves, for every heap size, address of the arena, width of
`size_t`, set of requests and set of values:

* `TypeCorrect`: `Spec => []TypeOK`
* `HandsOutApart`: `Spec => []OwnedApart`
* `GivesBackWhole`: `Spec => []WholeAgain`
* `ChecksOut`: `Spec => []HeapCheck`
* `RefusesOnlyWhenFull`: `Spec => []RefusedOnlyWhenFull`
* `ImplementsMalloc`: `Spec => KeepsPromise`

Assumptions: the five named ones of `Heap`, which say that the arena holds at
least one block after its sentinels, that sizes up to the arena's do not wrap,
and the types of the other constants. The code does not check the first:
`heap.h:22` invites `-D CLOX_HEAP_SIZE` "to something small", and a size too
small for the sentinels is outside this verification.

The invariants are not inductive: `OwnedApart` speaks of blocks in use, and a
step changes blocks through the tags and links of free ones. The strengthening
`IInv` says that *some* layout explains the whole of memory: a set of blocks
that tile the arena, each with two equal tags, no two free neighbours, and the
free ones exactly the nodes of a doubly linked list, ordered by a rank that
stands for the length of the list (which avoids induction over it). It is a
predicate over a layout (`Laid`), tags (`Tagged`), links (`Linked`), so that
the code can be followed operator by operator: a lemma for inserting and
removing a node, one for merging two neighbours and one for splitting a block,
at both levels; from them `CoalesceSound`, `FreeSound`, `PlaceSound`, and one
for each branch of `heapRealloc`; from those one step per action.

`ChecksOut` and `RefusesOnlyWhenFull` are about the code's two walks, which the model bounds by
`MaxNodes`; that the bound loses nothing is proved too. A walk is a function
defined from its own previous value, so `Iteration` first shows that it
exists. The walk of the blocks visits every block of the layout: a first one
missed would start where a visited one ends (`BlockWalkReaches`), and each step
gains 32 bytes (`BlockWalkGrows`). The walk of the free list visits every node:
a missed one of least rank would follow a visited one (`FreeNodeReaches`), and
were it longer than `MaxNodes`, two different nodes would share 32 bytes
(`FreeNodeEnds`, by the pigeonhole theorem of the library).

`ImplementsMalloc` says more than that blocks do not overlap: every call leaves
the words of every other block as they were, and `heapRealloc` carries the
caller's words to the new place. Each lemma on a helper therefore also says
which words it spares (`Spares`, `Copies`, `Within`): the two tags and the two
links of free blocks, none of which is a word a caller may use (`UserWords`).
From these one lemma per call (`HandsOut`, `AllocPromise`, and so on) shows the
step of `Malloc` it takes, and `NextPromise` puts them together.

**Memory and chunks.** `ChunkProofs` and `HandBuiltProofs` prove, for every width
of a byte, set of lines and program that calls the functions of `chunk.h`:

* `StaysInItsBlocks`: `Spec => []MemorySafe`
* `LeaksNothing`: `Spec => []NothingLeaks`
* `KeepsTheListing`: `Spec => KeepsListing`

The first two rest on `Shared`: the code, the runs of lines, the constants and
the stack are four arrays in one memory, each owning a block of its own
(`Owns`), whose sizes add up to the tally. Every function of `memory.h` and
`chunk.c` keeps it, whichever array it grows.

The third is the refinement of `Listing`: what was written is what the
disassembler reads back, across both widths of an operand, with the line of
every byte. Its invariant says that a chunk *stands for* a listing (`Stands`):
the runs, taken apart (`Cuts`), are a list of lines, one per byte, and
`lineArrayGet` finds in it the line of each byte (`GetsLine`), and
`writeLineArray` adds one (`CoversMore`); the code is divided among the
instructions of the listing, each read back where it starts (`Listed`,
`Reads`). The disassembler is a recursion that only goes forward; that it has a
value is `ListingUnfolds`, that this value is the listing is `Disassembles`.

Assumptions: `NullAssumption` (NULL is no block), `GarbageAssumption` (memory
never written is not a run), `OpcodesAssumption` and `ByteSizeAssumption` (the
opcodes are different and fit in a byte).

**The compiler and the machine.** `CloxProofs` proves, for every set of texts and
of hand-built chunks, every length of a session, every `STACK_INITIAL` and every
width of a byte:

* `FreesWhatItTakes`: `Spec => []NothingLeaks`
* `NothingIsMisused`: `Spec => []MemorySafe`
* `StackIsThere`: `Spec => []TypeOK`
* `ReportsOneError`: a compilation that fails has reported exactly one error,
  and one that succeeds none.

The argument has two levels. Level 1 (`Kept`) is about memory alone: whatever
the machine executes, arrays are owned and freed, so nothing leaks. Level 2 is
why nothing is misused: *a chunk that compiles is a program the stack is high
enough for*. While the compiler runs, the calls of `parsePrecedence` that have not
returned (`Calls`, `Takes`) tell how high the stack will be at the end of the
code emitted so far; that code has a height at every instruction (`Open`). When
the last call returns it is closed with `OP_RETURN` at height one (`Closed`),
which is what a `Program` is. The machine is then always at an instruction of
its program with the height that instruction has there (`At`, `Runs`), so it
never pops an empty stack or reads an operand past the end of the code, and
never keeps a pointer into a stack that has moved. `IInv` joins these with what
is known in between (`Compiles`, `Builds`).

Assumptions: the named ones of the modules. `StatusAssumption` says that the
outcomes differ, `StackInitialAssumption` that `STACK_INITIAL` is not 0, and
`HandBuiltAssumption` that chunks built by hand are programs in this sense:
`interpretChunk` checks nothing, so the code relies on it too (a chunk that pops
an empty stack is undefined behaviour in C).

**The scanner.** `ScannersProofs` proves, for every text over the characters of
`CloxScanner` and every `MAX_INTERPOLATION`:

* `CoversTheText`: `Spec => []TokensCoverTheText`
* `MatchesBraces`: `Spec => []BracesMatch`
* `TheScannersAgree`: `Spec => []ScannersAgree`

The reference of the first two is `Opened`, what is open after each character, one
character at a time, while `scanToken` reads a token at once and knows nothing
but its counters. `Inv` relates the two where a token ends (`Boundary`): code is
innermost there, no comment begins with the character before, and the counters
are those of what is open (`Counts`). `Counts` has the positions of the
interpolations as a witness, so that opening and closing a block or an
interpolation is a change at the end of two sequences (`OpensBlock`,
`ClosesBlock`, `OpensInterpolation`, `ClosesInterpolation`); the reference's
`OpenBraces` equals it (`CountsAreOpenBraces`). `Closes` is the heart of it: a
zero on top of the counters says that an interpolation, not a block, is
innermost. Comments and blanks are `SkipsToCode`, a string up to its end or its
next `${` is `SegmentReads`, and every token is a step `Reads`, which keeps `Inv`
(`Scans`, `ReadsOn`). Past the deepest nesting the counters are not
claimed to match, but still no character is lost and every line is right.

That the two scanners agree is an invariant of their composition, in which glox
begins when clox is done. `PlainInv` says what every token of clox is in terms of
the text alone: without interpolation the n-th begins where `skipWhitespace` leads
from the end of the one before it (`Lexed`), and its first character decides its
type and its end (`Lexeme`). `GoInv` says that glox has come to the n-th of them
for some n (`Follows`): its tokens and its errors are those of clox up to n, and
what it skips next leads to the token after. A turn of glox's loop that skips a
blank or a whole comment leaves n, since both lead `skipWhitespace` to the same
place (`GoSkips`); any other takes that token (`GoTakes`). Under it lie lemmas
that the two find the same ends of runs, numbers, lines and strings (`RunsAgree`,
`NumbersAgree`, `SameNumbers`, `NextIs`), although one looks for a sentinel and the other at the
length, and that counting newlines piece by piece (clox) and from quote to quote
(glox) gives one line. The two are not equal: `Refused` are the types of clox for
which glox has no token, `?` and `:` (`scanner.c:275`, which `scanner.h:11-15` and
`tool/scandiff.sh:20-24` own up to) beside the error token, and `Complains` adds the
numbers that `strconv.ParseFloat` has no finite value for, whose token glox adds
all the same (`scanner.c:200-202`, `scanner.go:228-242`). Texts with
interpolation are outside the property: glox has none.

Assumptions: `TextsAssumption` and `WholeAssumption`, types, and `InterpolationAssumption`: the size of
the array `braces` in `scanner.c` is not 0. With none, clox would refuse a string
that glox accepts.

**The resolver.** `GloxProofs` proves, for every session of lines of any length over
any phrases:

* `ResolvesLexicallyAlways`: `Spec => []ResolvesLexically`
* `RefusesExactlyAlways`: `Spec => []RefusesExactly`

The first reference, `LexicalAddress`, knows only the tree: which nodes are around a use,
and which of their scopes declare the name before it. The resolver walks the tree
once, with a stack of scopes that it changes as it goes. The invariant has two
parts.

`LineInv` is about the text: every node is in the node that was open when it was
written (`Placed`), everything a line opens is closed before the line is resolved
(`EnterKeeps`), and a new phrase changes nothing that is known of the nodes before
it (`ScopesStay`, `DeclarationsStay`, `AddressStays`). What is open after each node
(`Unclosed`) is found by a maximum over the whole text; `OpenNext` and
`InnermostNext` turn this into a step: a node opens something, closes what is
innermost, or neither. The functions by which `Program` climbs from a node to those
around it are recursions to a smaller index, which `TreeRecursion` and `Climbs`
unfold.

`ResolvingInv` is about the walk: while there is no error, the scopes of the resolver
are those around the next node, innermost last, and each holds the bindings of what
the text has declared in it so far, in order (`Mirrors`); and every use visited
has the address it should have. A visit changes the scopes in one of five ways:
one is opened (`MirrorsOpened`, with the parameters of a function already in it,
`ResolveFunctionIs`; twice in a subclass), one is closed (`MirrorsClosed`), one more
binding is declared (`MirrorsDeclared`), nothing (`MirrorsSame`), or only the marks
*defined* and *read* change (`Shows`). `AddressIs` then says that the search from the
innermost scope outwards finds what the text says, because two declarations of one
name in one scope would have been an error; the top level has no scope, so a
global is given no address. One lemma per Visit method (`VarAdvances` to
`WordAdvances`) leads to `StepAdvances`.

The second reference, `Errors`, reads the static errors of a node off the text:
what is declared before it in its block, what is around it, and which declaration
it initializes. Here the addresses are of no use, since they are only known while
there is no error and the resolver goes on after one. `RefusesInv` therefore says
what holds of the resolver after any nodes, erroneous or not:

* `Contexts`: `currentFunction` and `currentClass` are those of the innermost function
  and class around the next node, and `enclosing` holds those to be restored,
  which a function on the text (`Saved`) gives; between a class's name and its body
  one more is saved.
* `Shown`: each scope of a block has exactly the names declared in it so far,
  whether or not a declaration was refused, and every binding of every scope is
  defined but that of the local whose initializer is being visited (`Awaited`).
* The errors are the union of `Errors` over the nodes of the line visited.

One lemma per Visit method (`VarVisits` to `EndVisits`) shows that it keeps the first
two and reports exactly the errors of its node; `StepVisits` puts them together.
`OwnIs` matches *declared and not yet defined*, which the code asks of the innermost
scope only, with *inside its own initializer*. `NameTakenIs` and `RepeatsIs` match `declare` with
two declarations of a scope and two parameters of a function, and
`ContextErrorsAre` matches the two contexts with what is around the node.

Assumption: `PhrasesAssumption`, a type. The proofs found no flaw in the resolver. What
they required of the text became guards that the parser guarantees: an `end`
closes something, parameters belong to functions (`Grammatical`), and a declaration
that has begun goes on, a variable with its initializer, a class with its
superclass and its body (`Continues`). They also corrected a property:
`WarnsExactly` took a parameter named like the function that declares it for a
reading of the function, as in `{ fun a(a) { a; } }`.

**The interpreter.** `GloxProofs` proves, for every session of lines of any length,
whichever way its conditions go and whatever it calls:

* `InScopeAlways`: `Spec => []InScope`
* `SlotsLineUpAlways`: `Spec => []SlotsLineUp`
* `CrashesOnlyInInitializersAlways`: `Spec => []CrashesOnlyInInitializers`
* `SuperGoesUpAlways`: `Spec => SuperGoesUp`

The code has no check where it follows an address: `GetAt` and `AssignAt` index
the slots the resolver counted, and a closure is used long after the block it was
made in, from anywhere. So the invariant must say of everything that is still
*reachable* where in the text it belongs, whether or not the interpreter is near.
It is `InterpreterInv`, of two parts.

* `LineRuns` is about the text: every node of a line that executes is `Good`, that
  is, its use has the address the text gives it, and what the resolver refuses
  is not there. This is where the theorems about the resolver are used.
* `Sound`: the heap is right (`HeapOK`) and, while a line executes, so is the place
  the interpreter is at (`Fine`).

`HeapOK` says of every environment that it is made for a scope of the text, that
the environment it is enclosed in stands where that scope stands in the text
(`Stands`), and that its slots are the first declarations of the scope (`EnvFits`).
Of every function and method it says that it is closed over an environment that
stands around its declaration, and that its body `Runs`: all of its nodes are
`Good`, which has to be remembered there, since a function may be called from a
later line than the one the resolver passed. `Fine` says the same of
the current environment and the next node (`At`): the slots are exactly the
declarations visited (`UpTo`), which is why a search by name and the resolver's
index agree. Of each frame on Go's stack it says that the environment to be put
back, the operands to be put back (`Match`: there are as many as the expressions
around the opener wait for) and the node to go on at fit together (`FrameOK`), so
that a `return` from any depth, the end of a body and the next round of a loop
all lead back to a place that is `Fine`.

Following an address is one induction (`Hopped`): climbing as many environments as there
are scopes on the way leads to the environment of the scope it names, and
there is a slot at its index, but in one case. The case is a variable assigned
in its own initializer, and `CrashesOnlyInInitializers` is the most that holds (a
finding; the run `initializers`). There is one lemma per action, one for each way
out of an expression, a frame and a class, and `StepFine` puts them together.
All this is in `InterpreterProofs`, which knows of the resolver only `GoodLine`: a
line whose nodes are `Good`. The resolver's theorems, in `GloxProofs`, provide it.

`SuperGoesUp` compares ages: `Older` says that the environment that holds a class's
`super` is newer than the closure of every method of every class that can be
found from it. A `super` reads the class from that environment (`FoundMethod`,
`SuperAroundThis`), so the method it returns was closed earlier than the one
that runs, whatever class the receiver is of. The invariant is kept because
environments only grow in number, the methods of a class never change (`Keeps`),
and a class's `super` is made after its superclass (`NewStays`).

Assumption: `PhrasesAssumption`, as before. The proofs corrected the model: an operand is visited only
inside the expression that takes it, a class's body and a variable's initializer
follow at once, a getter has no parameters. The parser guarantees all
three, and `Grammatical` and `Continues` say so now.

**The analysis.** `AnalysisProofs` proves, for every grammar, every set of entries and every k
(the named assumption of `Analysis` only types them):

* `FirstIsTheLeastSolution`, `FollowIsTheLeastSolution`: when a loop has stopped,
  its sets solve the defining equations, and are contained in every other
  solution. So what the code finds does not depend on the order of the
  productions, on how often it went round, or on reading sets half-way through
  a pass.
* `TheTableDecides`: `Spec => []ConflictsExactly`.

The argument is the one `sets.go:161` only names. `concat` and `After` grow with
their arguments (`ConcatGrows`, `AfterGrows`), hence `firstOf` does, by induction
along the body (`FirstOfGrows`); a turn therefore stays below any solution, which
is the "least" half of the invariant. The other half, that the sets solve the
equations when a pass changed nothing, needs what a pass has established so far:
as long as nothing changed, every production before the index is already
accounted for (`FirstInv`, `FollowInv`). `RowsInv` says the same of the rows and
the windows entered so far; two productions of one head can share no window in
it, since the second would have been the conflict. Induction is over a set of
naturals (`SetInduction`), because the library's induction theorems
take an operator.

**Only model-checked.**

* Which error `OneMessage` says is the first (that there is just one is proved),
  `EmitsPostfix` and `ComputesTheValue`: their other side is the recursive
  descent of `Ladder`, and what a recursive definition computes for every input
  is out of the prover's reach. For the same reason `Descent`, `Driver`,
  `Table` and `Language`, and with them the properties of `FrontEnds`.
* What FIRST and FOLLOW mean in terms of words, and `ParsesTheLanguage`:
  derivations are defined by recursion too.
* `WarnsExactly` and the types of `Glox`: the first could follow from `Mirrors` as
  `ResolvesLexically` does.
* `ComesBack`, `EveryLineEnds` and `Ends`: liveness.

## 5. Not modelled

* Numbers, strings and their formatting: values are symbolic.
* `clox/main.c`: reading files and lines (the REPL splits a line longer than
  its buffer), flags, exit codes 64 and 74.
* `main.go`: the flags `-tokens`, `-print` and `-sample`, exit codes 64 and 74.
* The operators and the native `clock` of the Go interpreter; statements
  without a scope of their own as the branch of an if.
* Go's stack limit: unbounded Lox recursion kills the process.
* An arena smaller than one block, for which `heapInit`'s subtraction would
  underflow (`HeapSizeAssumption` excludes it; the size is fixed when clox is
  built), and a caller that writes past its block.
* The LL(k) parser: which tokens a generated message lists, which of several
  conflicting windows is named (the least key), and the cache of tables with
  its mutex, which no second goroutine ever contends for. Lox at k = 3 is left
  to the tests; `tables` has k = 3 for small grammars.
* `cmd/genast`, scripts, printers other than the postfix one: text in, text out.

## 6. Plan

Done: heap, chunk, compiler, machine, scanners and the analysis, with proofs; Go's
scopes, with proofs of the resolver and of the interpreter; both parsers with the session around them. Left:

1. `WarnsExactly`, from the invariant of `GloxProofs`, with what the marks *read* of the
   bindings say of the uses visited, and the warnings of the scopes closed.
2. The scanner's tokens and the parsers' trees fed to `Glox`, instead of the
   trees it writes itself.
