-------------------------------- MODULE Clox --------------------------------
(***************************************************************************)
(* The clox process: interpret of clox/vm.c and main of clox/main.c, which *)
(* compile one text after another, run what compiles and free it all.      *)
(*                                                                         *)
(* The texts come from the lines of a REPL.  A program may also build a    *)
(* chunk by hand and run it with interpretChunk, as clox/test does.        *)
(***************************************************************************)
EXTENDS Chunk, SequencesExt

CONSTANTS
  STACK_INITIAL,
  Sources,       \* the texts, each the sequence of its tokens
  HandBuilt,     \* chunks built by hand: sequences of opcodes and of constants
  MaxInputs      \* bound: the texts and chunks of one process

ASSUME StackInitialAssumption == STACK_INITIAL \in Nat \ {0}
ASSUME StatusAssumption == NULL \notin {"INTERPRET_OK", "INTERPRET_RUNTIME_ERROR"}

\* A chunk built by hand is a program: with depth[i] values on the stack, item i
\* finds the operands it takes, no other item than the last ends the code, and
\* the pool has room.  run checks none of this, as the compiler's chunks need not.
ASSUME HandBuiltAssumption ==
  \A byHand \in HandBuilt :
    /\ byHand \in Seq({byHand[i] : i \in DOMAIN byHand})
    /\ Len(byHand) \in 1 .. ByteSize * ByteSize * ByteSize
    /\ \E depth \in [1 .. Len(byHand) + 1 -> 0 .. Len(byHand)] :
         /\ depth[1] = 0
         /\ \A i \in 1 .. Len(byHand) :
              LET opcode == byHand[i].opcode
              IN /\ opcode \in Nat \ {OP_CONSTANT_LONG}
                 /\ opcode = OP_CONSTANT => depth[i + 1] = depth[i] + 1
                 /\ opcode \in OP_ADD .. OP_DIVIDE => depth[i] >= 2 /\ depth[i + 1] = depth[i] - 1
                 /\ opcode = OP_NEGATE => depth[i] >= 1 /\ depth[i + 1] = depth[i]
                 /\ opcode = OP_RETURN => depth[i] >= 1
                 /\ i = Len(byHand) => opcode \notin OP_CONSTANT .. OP_NEGATE

VARIABLES
  source, parser, frames,   \* the compiler
  vm, status, printed,      \* the virtual machine
  mem,
  chunk,     \* the local Chunk of whoever called compile or interpretChunk
  doing,     \* what the process is in the middle of
  result,    \* the last exit code a text implied
  unwritten, \* what is left to write of a chunk built by hand
  inputs     \* how many texts and chunks there were
vars == <<source, parser, frames, vm, status, printed, mem, chunk, doing, result, unwritten, inputs>>

C == INSTANCE Compiler
M == INSTANCE VM

compilerVars == <<source, parser, frames>>
vmVars == <<vm, status, printed>>
Idle == doing = "nothing"

-----------------------------------------------------------------------------
(* The process *)

Init ==
  /\ LET s == M!initVM(NoMemory) IN mem = s.mem /\ vm = s.vm
  /\ source = <<>> /\ parser = C!Fresh /\ frames = <<>>
  /\ status = NULL /\ printed = NULL
  /\ chunk = emptyChunk /\ doing = "nothing" /\ result = 0 /\ unwritten = <<>> /\ inputs = 0

\* run of main.c with a text: interpret, or compile alone when it only dumps.
Run(text, mode) ==
  /\ chunk' = emptyChunk
  /\ C!Begin(text)
  /\ doing' = mode
  /\ printed' = NULL
  /\ UNCHANGED <<vm, status, mem, result, unwritten>>

Compiling == doing \in {"interpret", "dump"} /\ frames # <<>>
Compiled  == doing \in {"interpret", "dump"} /\ frames = <<>>

CompileStep ==
  /\ Compiling
  /\ C!Next
  /\ UNCHANGED <<vm, status, printed, doing, result, unwritten, inputs>>

\* The local chunk is freed, which leaves it empty, and goes out of scope.
DropChunk ==
  LET s == freeChunk([mem |-> mem, chunk |-> chunk]) IN mem' = s.mem /\ chunk' = s.chunk

\* A plausible bug: a text that does not compile leaves its chunk behind.
NotRunLeaks ==
  /\ Compiled /\ (parser.hadError \/ doing = "dump")
  /\ IF parser.hadError THEN chunk' = emptyChunk /\ UNCHANGED mem ELSE DropChunk
  /\ result' = IF parser.hadError THEN 65 ELSE 0
  /\ doing' = "nothing"
  /\ UNCHANGED <<compilerVars, vm, status, printed, unwritten, inputs>>

\* A compile error ends interpret, and compiling ends a dump.
NotRun ==
  /\ Compiled /\ (parser.hadError \/ doing = "dump")
  /\ DropChunk
  /\ result' = IF parser.hadError THEN 65 ELSE 0
  /\ doing' = "nothing"
  /\ UNCHANGED <<compilerVars, vm, status, printed, unwritten, inputs>>

InterpretChunk ==
  /\ Compiled /\ ~parser.hadError /\ doing = "interpret"
  /\ vm' = M!interpretChunk(vm, chunk)
  /\ status' = NULL
  /\ doing' = "run"
  /\ UNCHANGED <<compilerVars, printed, mem, chunk, result, unwritten, inputs>>

\* A program writes a chunk by hand, all on one line, and runs it.
BuildByHand(byHand) ==
  /\ chunk' = emptyChunk
  /\ unwritten' = byHand
  /\ doing' = "build"
  /\ printed' = NULL
  /\ UNCHANGED <<compilerVars, vm, status, mem, result>>

WriteByHand ==
  /\ doing = "build" /\ unwritten # <<>>
  /\ LET now == [mem |-> mem, chunk |-> chunk]
         item == Head(unwritten)
         s == IF item.opcode = OP_CONSTANT THEN writeConstant(now, item.value, 1)
              ELSE writeChunk(now, item.opcode, 1)
     IN mem' = s.mem /\ chunk' = s.chunk
  /\ unwritten' = Tail(unwritten)
  /\ UNCHANGED <<compilerVars, vmVars, doing, result, inputs>>

RunByHand ==
  /\ doing = "build" /\ unwritten = <<>>
  /\ vm' = M!interpretChunk(vm, chunk)
  /\ status' = NULL
  /\ doing' = "run by hand"
  /\ UNCHANGED <<compilerVars, printed, mem, chunk, result, inputs, unwritten>>

Executing == doing \in {"run", "run by hand"} /\ status = NULL

RunStep ==
  /\ Executing
  /\ M!run
  /\ UNCHANGED <<compilerVars, doing, result, unwritten, inputs>>

\* run has returned: interpret forgets the chunk it frees, a program that only
\* called interpretChunk leaves vm's pointers into it.
RunReturned ==
  /\ doing \in {"run", "run by hand"} /\ status # NULL
  /\ DropChunk
  /\ vm' = IF doing = "run" THEN [vm EXCEPT !.chunk = FALSE, !.ip = M!NoPointer] ELSE vm
  /\ result' = IF doing # "run" THEN result ELSE IF status = "INTERPRET_OK" THEN 0 ELSE 70
  /\ doing' = "nothing"
  /\ UNCHANGED <<compilerVars, status, printed, unwritten, inputs>>

Exit ==
  /\ Idle
  /\ LET s == M!freeVM([mem |-> mem, vm |-> vm]) IN mem' = s.mem /\ vm' = s.vm
  /\ doing' = "exited"
  /\ UNCHANGED <<compilerVars, status, printed, chunk, result, unwritten, inputs>>

Input ==
  /\ Idle /\ inputs < MaxInputs
  /\ inputs' = inputs + 1
  /\ \/ \E text \in Sources, mode \in {"interpret", "dump"} : Run(text, mode)
     \/ \E byHand \in HandBuilt : BuildByHand(byHand)

\* What the process does by itself once it has its input.
Proceed == CompileStep \/ NotRun \/ InterpretChunk \/ WriteByHand \/ RunByHand \/ RunStep \/ RunReturned

\* The process is gone.
Exited == doing = "exited" /\ UNCHANGED vars

Next == Input \/ Proceed \/ Exit \/ Exited

\* One thread, which never waits except for its input.  This is weak fairness of
\* Proceed: a busy thread can always take its next step, as no run deadlocks.
Busy == ~Idle /\ doing # "exited"
Fairness == []<>~Busy \/ []<><<Proceed>>_vars

Spec == Init /\ [][Next]_vars /\ Fairness

-----------------------------------------------------------------------------
(* Correctness: what is in memory *)

\* The stack is a live block that stackTop points into, between its bottom and
\* its capacity, whatever moved it and whatever a run left on it.
TypeOK ==
  /\ doing \in {"nothing", "interpret", "dump", "run", "build", "run by hand", "exited"}
  /\ result \in {0, 65, 70}
  /\ doing # "exited" =>
       /\ vm.stack \in Live(mem)
       /\ DOMAIN mem.blocks[vm.stack] = 0 .. vm.stackCapacity - 1
       /\ vm.stackTop.block = vm.stack
       /\ vm.stackTop.offset \in 0 .. vm.stackCapacity

\* Nothing is read or written through a dangling pointer, past an array or
\* below the stack, whatever was compiled, run, freed or grown before.
MemorySafe == ~mem.wild

\* Between inputs only the stack is live, and at exit nothing, as main checks
\* under its own heap; the sizes claimed are the sizes live.
NothingLeaks ==
  /\ Idle => Live(mem) = {vm.stack} /\ mem.tally = vm.stackCapacity
  /\ doing = "exited" => Live(mem) = {} /\ mem.tally = 0
=============================================================================
