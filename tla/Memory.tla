------------------------------- MODULE Memory -------------------------------
(***************************************************************************)
(* clox/memory.c and the growth macros of memory.h, over a memory in which *)
(* every block is an array of cells.                                       *)
(*                                                                         *)
(* What serves the requests, libc or clox/heap.c, is left out: module      *)
(* Malloc says what it promises.  A block that is resized always moves,    *)
(* which leaves every pointer into the old one dangling, and cells never   *)
(* written hold Garbage.  m.wild records an access outside the live blocks *)
(* and a block freed twice.  m.tally adds up the sizes callers claim, as   *)
(* the collector of a later chapter will from oldSize and newSize.         *)
(* Running out of memory ends the process and is left out.                 *)
(***************************************************************************)
EXTENDS Integers, FiniteSets, Functions, TLC

CONSTANTS
  NULL,     \* no pointer
  Garbage   \* what memory holds before anything is written there

ASSUME NullAssumption == NULL \notin Nat   \* blocks are numbered

NoMemory == [blocks |-> <<>>, tally |-> 0, wild |-> FALSE]

Live(m) == DOMAIN m.blocks

\* A pointer to a cell is the block and the offset of the cell in it.
Valid(m, block, offset) == block \in Live(m) /\ offset \in DOMAIN m.blocks[block]

Load(m, block, offset) ==
  IF Valid(m, block, offset) THEN m.blocks[block][offset] ELSE Garbage

\* The memory after reads: the same, or wild if there was nothing to read.
Touch(m, block, offsets) == [m EXCEPT !.wild = @ \/ \E i \in offsets : ~Valid(m, block, i)]

Store(m, block, offset, x) ==
  IF Valid(m, block, offset) THEN [m EXCEPT !.blocks[block][offset] = x]
  ELSE [m EXCEPT !.wild = TRUE]

\* reallocate returns the memory and the pointer.
reallocate(m, block, oldSize, newSize) ==
  LET bad   == block # NULL /\ block \notin Live(m)
      fresh == CHOOSE b \in 1 .. Cardinality(Live(m)) + 1 : b \notin Live(m)
      kept  == Live(m) \ {block}
      moved == [i \in 0 .. newSize - 1 |-> Load(m, block, i)]
  IN [ptr |-> IF newSize = 0 THEN NULL ELSE fresh,
      mem |-> [blocks |-> IF newSize = 0 THEN Restrict(m.blocks, kept)
                          ELSE [b \in kept \cup {fresh} |-> IF b = fresh THEN moved ELSE m.blocks[b]],
               tally  |-> m.tally + newSize - oldSize,
               wild   |-> m.wild \/ bad]]

GROW_CAPACITY(capacity) == IF capacity < 8 THEN 8 ELSE capacity * 2

-----------------------------------------------------------------------------
(* The dynamic array that code, lines and constants each are *)

EmptyArray == [ptr |-> NULL, count |-> 0, capacity |-> 0]

\* A plausible bug: grow only once the array has overflowed.
appendLate(m, array, x) ==
  LET full == array.capacity < array.count
      capacity == IF full THEN GROW_CAPACITY(array.capacity) ELSE array.capacity
      grown == IF full THEN reallocate(m, array.ptr, array.capacity, capacity)
               ELSE [ptr |-> array.ptr, mem |-> m]
  IN [mem   |-> Store(grown.mem, grown.ptr, array.count, x),
      array |-> [ptr |-> grown.ptr, count |-> array.count + 1, capacity |-> capacity]]

\* Append x, growing first when there is no room.
append(m, array, x) ==
  LET full == array.capacity < array.count + 1
      capacity == IF full THEN GROW_CAPACITY(array.capacity) ELSE array.capacity
      grown == IF full THEN reallocate(m, array.ptr, array.capacity, capacity)
               ELSE [ptr |-> array.ptr, mem |-> m]
  IN [mem   |-> Store(grown.mem, grown.ptr, array.count, x),
      array |-> [ptr |-> grown.ptr, count |-> array.count + 1, capacity |-> capacity]]

FREE_ARRAY(m, array) == reallocate(m, array.ptr, array.capacity, 0).mem
=============================================================================
