------------------------------- MODULE Chunk -------------------------------
(***************************************************************************)
(* clox/chunk.c, line.c and value.c: bytecode, the source line of every    *)
(* byte stored as runs, and the constant pool; and the walk over the code  *)
(* that clox/debug.c's disassembler makes.                                 *)
(*                                                                         *)
(* The operators named like the C functions are those functions: they take *)
(* s, the pair of a memory and a chunk, and return the pair after the call. *)
(***************************************************************************)
EXTENDS Memory, Sequences

CONSTANTS
  ByteSize    \* the numbers an operand byte can hold: 2^8

ASSUME ByteSizeAssumption == ByteSize \in Nat /\ ByteSize >= 2

OP_CONSTANT      == 0
OP_CONSTANT_LONG == 1
OP_ADD           == 2
OP_SUBTRACT      == 3
OP_MULTIPLY      == 4
OP_DIVIDE        == 5
OP_NEGATE        == 6
OP_RETURN        == 7

emptyChunk == [code |-> EmptyArray, lines |-> EmptyArray, constants |-> EmptyArray]
initChunk(m) == [mem |-> m, chunk |-> emptyChunk]

-----------------------------------------------------------------------------
(* line.c *)

\* The run at index i; memory nobody wrote reads as a run of nothing.
RunAt(m, array, i) ==
  LET cell == Load(m, array.ptr, i) IN IF cell = Garbage THEN [line |-> 0, count |-> 0] ELSE cell

\* The last run covers one more byte.
Lengthen(m, array) ==
  LET last == array.count - 1
  IN [mem   |-> Store(m, array.ptr, last, [RunAt(m, array, last) EXCEPT !.count = @ + 1]),
      array |-> array]

\* One more byte from line: a longer last run, or a new one.
writeLineArray(m, array, line) ==
  IF array.count > 0 /\ RunAt(m, array, array.count - 1).line = line
  THEN Lengthen(m, array)
  ELSE append(m, array, [line |-> line, count |-> 1])

\* The line of the run that covers offset, -1 past the last one.
lineArrayGet(m, array, offset) ==
  LET walk[i \in 0 .. array.count] ==
        [left \in Int |->
           IF i = array.count THEN -1
           ELSE IF left - RunAt(m, array, i).count < 0 THEN RunAt(m, array, i).line
           ELSE walk[i + 1][left - RunAt(m, array, i).count]]
  IN walk[0][offset]

-----------------------------------------------------------------------------
(* chunk.c *)

\* A plausible bug: freeing without initChunk leaves the freed pointers behind.
freeChunkKeepsPointers(s) ==
  [s EXCEPT !.mem = FREE_ARRAY(FREE_ARRAY(FREE_ARRAY(@, s.chunk.code), s.chunk.lines), s.chunk.constants)]

\* Frees the three arrays and leaves the chunk as initChunk makes it.
freeChunk(s) ==
  initChunk(FREE_ARRAY(FREE_ARRAY(FREE_ARRAY(s.mem, s.chunk.code), s.chunk.lines), s.chunk.constants))

writeChunk(s, byte, line) ==
  LET code  == append(s.mem, s.chunk.code, byte)
      lines == writeLineArray(code.mem, s.chunk.lines, line)
  IN [mem |-> lines.mem, chunk |-> [s.chunk EXCEPT !.code = code.array, !.lines = lines.array]]

\* The index of the new constant is the count before it.
addConstant(s, value) ==
  LET pool == append(s.mem, s.chunk.constants, value)
  IN [mem |-> pool.mem, chunk |-> [s.chunk EXCEPT !.constants = pool.array]]

PoolFull(s) == s.chunk.constants.count > ByteSize * ByteSize * ByteSize - 1

\* A plausible bug: the narrow form is kept for one constant too many.
writeConstantNarrow(s, value, line) ==
  LET constant == s.chunk.constants.count
      op == writeChunk(addConstant(s, value), IF constant <= ByteSize THEN OP_CONSTANT ELSE OP_CONSTANT_LONG, line)
      low == writeChunk(op, constant % ByteSize, line)
      middle == writeChunk(low, (constant \div ByteSize) % ByteSize, line)
  IN IF PoolFull(s) THEN s
     ELSE IF constant <= ByteSize THEN low
     ELSE writeChunk(middle, (constant \div (ByteSize * ByteSize)) % ByteSize, line)

\* Adds the constant and the instruction that loads it, with one operand byte
\* if that is enough and three, least significant first, if not.  A full pool
\* is refused before anything is written.
writeConstant(s, value, line) ==
  LET constant == s.chunk.constants.count
      op == writeChunk(addConstant(s, value), IF constant < ByteSize THEN OP_CONSTANT ELSE OP_CONSTANT_LONG, line)
      low == writeChunk(op, constant % ByteSize, line)
      middle == writeChunk(low, (constant \div ByteSize) % ByteSize, line)
  IN IF PoolFull(s) THEN s
     ELSE IF constant < ByteSize THEN low
     ELSE writeChunk(middle, (constant \div (ByteSize * ByteSize)) % ByteSize, line)

getLine(s, offset) == lineArrayGet(s.mem, s.chunk.lines, offset)

-----------------------------------------------------------------------------
(* debug.c: what the disassembler makes of the code *)

Byte(s, offset)      == Load(s.mem, s.chunk.code.ptr, offset)
ConstantAt(s, index) == Load(s.mem, s.chunk.constants.ptr, index)

\* The three-byte operand of the instruction at offset.
longOperand(s, offset) ==
  Byte(s, offset + 1) + Byte(s, offset + 2) * ByteSize + Byte(s, offset + 3) * ByteSize * ByteSize

\* The offset of the next instruction.
nextInstruction(s, offset) ==
  CASE Byte(s, offset) = OP_CONSTANT      -> offset + 2
    [] Byte(s, offset) = OP_CONSTANT_LONG -> offset + 4
    [] OTHER                              -> offset + 1

\* The opcode, with the constant it loads; and the lines its bytes came from.
disassembleInstruction(s, offset) ==
  [op    |-> CASE Byte(s, offset) = OP_CONSTANT      -> <<OP_CONSTANT, ConstantAt(s, Byte(s, offset + 1))>>
               [] Byte(s, offset) = OP_CONSTANT_LONG -> <<OP_CONSTANT, ConstantAt(s, longOperand(s, offset))>>
               [] OTHER                              -> <<Byte(s, offset)>>,
   lines |-> {getLine(s, i) : i \in offset .. nextInstruction(s, offset) - 1}]

disassembleChunk(s) ==
  LET from[offset \in 0 .. s.chunk.code.count + 3] ==
        IF offset >= s.chunk.code.count THEN <<>>
        ELSE <<disassembleInstruction(s, offset)>> \o from[nextInstruction(s, offset)]
  IN from[0]
=============================================================================
