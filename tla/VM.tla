--------------------------------- MODULE VM ---------------------------------
(***************************************************************************)
(* clox/vm.c: a stack machine that runs one chunk.                         *)
(*                                                                         *)
(* Pointers are pointers: ip and stackTop are a block and an offset into   *)
(* it, so each dangles when its block moves or is freed, and reading       *)
(* through it then, or below the bottom of the stack, makes the memory     *)
(* wild.  A value is the expression that computed it.                      *)
(***************************************************************************)
EXTENDS Chunk

CONSTANT STACK_INITIAL   \* the slots the stack starts with: 256

VARIABLES
  vm,      \* the VM: whether it points at the chunk, ip, stack, stackTop, stackCapacity
  status,  \* what run has returned, NULL while it runs
  printed, \* the last value printed
  mem,     \* memory
  chunk    \* the chunk vm.chunk points at, empty when that local is gone
vars == <<vm, status, printed, mem, chunk>>

Pointer(block, offset) == [block |-> block, offset |-> offset]
Plus(pointer, n) == [pointer EXCEPT !.offset = @ + n]
NoPointer == Pointer(NULL, 0)

-----------------------------------------------------------------------------
(* The stack: s is the pair of mem and vm *)

\* A plausible bug, challenge 3's: stackTop still points into the old block.
growStackDangling(s) ==
  LET capacity == IF s.vm.stackCapacity < STACK_INITIAL THEN STACK_INITIAL
                  ELSE GROW_CAPACITY(s.vm.stackCapacity)
      grown == reallocate(s.mem, s.vm.stack, s.vm.stackCapacity, capacity)
  IN [mem |-> grown.mem,
      vm  |-> [s.vm EXCEPT !.stack = grown.ptr, !.stackCapacity = capacity,
                           !.stackTop = IF s.vm.stack = NULL THEN Pointer(grown.ptr, 0) ELSE @]]

\* stackTop is rebuilt from its height in the block that may have moved.
growStack(s) ==
  LET height == IF s.vm.stack = NULL THEN 0 ELSE s.vm.stackTop.offset
      capacity == IF s.vm.stackCapacity < STACK_INITIAL THEN STACK_INITIAL
                  ELSE GROW_CAPACITY(s.vm.stackCapacity)
      grown == reallocate(s.mem, s.vm.stack, s.vm.stackCapacity, capacity)
  IN [mem |-> grown.mem,
      vm  |-> [s.vm EXCEPT !.stack = grown.ptr, !.stackCapacity = capacity,
                           !.stackTop = Pointer(grown.ptr, height)]]

resetStack(v) == [v EXCEPT !.stackTop = Pointer(v.stack, 0)]

push(s, value) ==
  LET room == IF s.vm.stackTop.offset = s.vm.stackCapacity THEN growStack(s) ELSE s
      top == room.vm.stackTop
  IN [mem |-> Store(room.mem, top.block, top.offset, value),
      vm  |-> [room.vm EXCEPT !.stackTop = Plus(top, 1)]]

\* The value n below stackTop, 1 for the last pushed.
Peek(s, n) == Load(s.mem, s.vm.stackTop.block, s.vm.stackTop.offset - n)

\* n pops, each of which reads the slot it leaves.
pop(s, n) ==
  LET top == s.vm.stackTop
  IN [mem |-> Touch(s.mem, top.block, top.offset - n .. top.offset - 1),
      vm  |-> [s.vm EXCEPT !.stackTop = Plus(top, -n)]]

NoVM == [chunk |-> FALSE, ip |-> NoPointer, stack |-> NULL, stackTop |-> NoPointer, stackCapacity |-> 0]

initVM(m) == LET s == growStack([mem |-> m, vm |-> NoVM]) IN [s EXCEPT !.vm = resetStack(@)]

freeVM(s) ==
  [mem |-> reallocate(s.mem, s.vm.stack, s.vm.stackCapacity, 0).mem,
   vm  |-> [s.vm EXCEPT !.stack = NULL, !.stackTop = NoPointer, !.stackCapacity = 0]]

-----------------------------------------------------------------------------
(* interpretChunk: the chunk's pointer, ip and an empty stack *)

\* A plausible bug, the book's: what the last chunk left stays on the stack.
interpretChunkKeepsStack(v, c) == [v EXCEPT !.chunk = TRUE, !.ip = Pointer(c.code.ptr, 0)]

interpretChunk(v, c) == resetStack([v EXCEPT !.chunk = TRUE, !.ip = Pointer(c.code.ptr, 0)])

-----------------------------------------------------------------------------
(* One turn of run's loop *)

\* The byte k after ip, and the machine after READ_BYTE has read n of them.
ByteAt(k) == Load(mem, vm.ip.block, vm.ip.offset + k)
Fetched(n) ==
  [mem |-> Touch(mem, vm.ip.block, vm.ip.offset .. vm.ip.offset + n - 1),
   vm  |-> [vm EXCEPT !.ip = Plus(@, n)]]

\* vm.chunk->constants.values[i]
PoolBlock == IF vm.chunk THEN chunk.constants.ptr ELSE NULL
Loading(s, i) == push([s EXCEPT !.mem = Touch(@, PoolBlock, {i})], Load(s.mem, PoolBlock, i))

Executing(opcodes) == status = NULL /\ ByteAt(0) \in opcodes
Becomes(s) == mem' = s.mem /\ vm' = s.vm

Constant ==
  /\ Executing({OP_CONSTANT})
  /\ Becomes(Loading(Fetched(2), ByteAt(1)))
  /\ UNCHANGED <<status, printed, chunk>>

\* The operand of OP_CONSTANT_LONG, least significant byte first.
wideOperand(low, middle, high) == low + middle * ByteSize + high * ByteSize * ByteSize

ConstantLong ==
  /\ Executing({OP_CONSTANT_LONG})
  /\ Becomes(Loading(Fetched(4), wideOperand(ByteAt(1), ByteAt(2), ByteAt(3))))
  /\ UNCHANGED <<status, printed, chunk>>

Symbol(opcode) ==
  CASE opcode = OP_ADD -> "+" [] opcode = OP_SUBTRACT -> "-"
    [] opcode = OP_MULTIPLY -> "*" [] opcode = OP_DIVIDE -> "/"

\* BINARY_OP: b is popped first, the result is a op b.
Binary ==
  /\ Executing(OP_ADD .. OP_DIVIDE)
  /\ LET s == Fetched(1)
     IN Becomes(push(pop(s, 2), <<Symbol(ByteAt(0)), Peek(s, 2), Peek(s, 1)>>))
  /\ UNCHANGED <<status, printed, chunk>>

\* Negates in place.
Negate ==
  /\ Executing({OP_NEGATE})
  /\ LET s == Fetched(1)
         top == s.vm.stackTop
     IN Becomes([s EXCEPT !.mem = Store(@, top.block, top.offset - 1, <<"negate", Peek(s, 1)>>)])
  /\ UNCHANGED <<status, printed, chunk>>

Return ==
  /\ Executing({OP_RETURN})
  /\ LET s == Fetched(1)
     IN /\ Becomes(pop(s, 1))
        /\ printed' = Peek(s, 1)
  /\ status' = "INTERPRET_OK"
  /\ UNCHANGED chunk

\* The default of the switch: any byte that is no opcode.
UnknownOpcode ==
  /\ status = NULL
  /\ ByteAt(0) \notin OP_CONSTANT .. OP_RETURN
  /\ Becomes(Fetched(1))
  /\ status' = "INTERPRET_RUNTIME_ERROR"
  /\ UNCHANGED <<printed, chunk>>

run == Constant \/ ConstantLong \/ Binary \/ Negate \/ Return \/ UnknownOpcode
=============================================================================
