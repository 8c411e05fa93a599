----------------------------- MODULE HandBuilt -----------------------------
(***************************************************************************)
(* A program that builds and frees a chunk by hand, as                     *)
(* clox/test/test_chunk.c does and as the compiler will.                   *)
(***************************************************************************)
EXTENDS Chunk

CONSTANTS
  Lines,      \* source lines
  Opcodes,    \* the opcodes without an operand that the program writes
  Values,     \* the constants it loads
  MaxBytes,   \* bound: the code bytes it writes
  MaxPool     \* bound: the constants it adds without an instruction

ASSUME OpcodesAssumption == Opcodes \subseteq OP_ADD .. OP_RETURN
ASSUME GarbageAssumption == Garbage \notin [line : Lines, count : Nat]   \* no run is written as Garbage

VARIABLES
  mem,     \* the blocks reallocate has handed out
  chunk    \* a Chunk, a local of the program
vars == <<mem, chunk>>

Now == [mem |-> mem, chunk |-> chunk]
Becomes(s) == mem' = s.mem /\ chunk' = s.chunk
Room(n) == chunk.code.count + n <= MaxBytes

Init == mem = NoMemory /\ chunk = emptyChunk

WriteSimple ==
  \E op \in Opcodes, line \in Lines : Room(1) /\ Becomes(writeChunk(Now, op, line))

WriteConstant ==
  \E value \in Values, line \in Lines : Room(4) /\ Becomes(writeConstant(Now, value, line))

AddConstant ==
  /\ chunk.constants.count < MaxPool
  /\ \E value \in Values : Becomes(addConstant(Now, value))

FreeChunk == Becomes(freeChunk(Now))

Next == WriteSimple \/ WriteConstant \/ AddConstant \/ FreeChunk

Spec == Init /\ [][Next]_vars

-----------------------------------------------------------------------------
(* Correctness *)

Arrays(c) == {c.code, c.lines, c.constants}

\* No call reads or writes outside the blocks it holds, frees a block twice or
\* uses one after it moved: growth at eight, sixteen and so on happens before
\* the write that needs it, and freeing a chunk twice is harmless, as the
\* comment in freeChunk says.
MemorySafe == ~mem.wild

\* The chunk's arrays are the only live blocks, each as large as its capacity,
\* and the sizes claimed in calls of reallocate add up to what is live: memory.h
\* says the collector will rely on oldSize.
NothingLeaks ==
  /\ Live(mem) = {a.ptr : a \in Arrays(chunk)} \ {NULL}
  /\ \A a \in Arrays(chunk) : a.ptr # NULL => DOMAIN mem.blocks[a.ptr] = 0 .. a.capacity - 1
  /\ mem.tally = chunk.code.capacity + chunk.lines.capacity + chunk.constants.capacity

\* The parallel array of lines and the list of instructions that runs and
\* operand bytes stand for.
Plain == INSTANCE Listing WITH ConstantOp <- OP_CONSTANT,
                               PoolLimit <- ByteSize * ByteSize * ByteSize,
                               program <- disassembleChunk(Now),
                               pool <- [i \in 1 .. chunk.constants.count |-> ConstantAt(Now, i - 1)]

\* What was written is what the disassembler reads back, instruction by
\* instruction and line by line, whatever the widths of the operands.
KeepsListing == Plain!Spec
=============================================================================
