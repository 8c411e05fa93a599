----------------------------- MODULE CloxProofs -----------------------------
(***************************************************************************)
(* Proofs about the clox process: nothing leaks and nothing is misused.    *)
(***************************************************************************)
EXTENDS Clox, ChunkProofs, SequenceTheorems

-----------------------------------------------------------------------------
(* What the compiler and the machine call are the functions of Chunk. *)

LEMMA MachineMemory ==
  /\ \A m, block, oldSize, newSize : M!reallocate(m, block, oldSize, newSize) = reallocate(m, block, oldSize, newSize)
  /\ \A m, block, offset, x : M!Store(m, block, offset, x) = Store(m, block, offset, x)
  /\ \A m, block, offset : M!Load(m, block, offset) = Load(m, block, offset)
  /\ \A m, block, offsets : M!Touch(m, block, offsets) = Touch(m, block, offsets)
  /\ \A capacity : M!GROW_CAPACITY(capacity) = GROW_CAPACITY(capacity)
<1>1. \A m, block, offset : M!Load(m, block, offset) = Load(m, block, offset)
  BY DEF M!Load, Load, M!Valid, Valid, M!Live, Live
<1>2. \A m, block, oldSize, newSize : M!reallocate(m, block, oldSize, newSize) = reallocate(m, block, oldSize, newSize)
  BY Zenon DEF M!reallocate, reallocate, M!Load, Load, M!Valid, Valid, M!Live, Live,
              M!Restrict, Restrict, M!Cardinality, Cardinality
<1>3. \A m, block, offset, x : M!Store(m, block, offset, x) = Store(m, block, offset, x)
  BY DEF M!Store, Store, M!Valid, Valid, M!Live, Live
<1>4. \A m, block, offsets : M!Touch(m, block, offsets) = Touch(m, block, offsets)
  BY DEF M!Touch, Touch, M!Valid, Valid, M!Live, Live
<1>5. \A capacity : M!GROW_CAPACITY(capacity) = GROW_CAPACITY(capacity)
  BY DEF M!GROW_CAPACITY, GROW_CAPACITY
<1>. QED
  BY <1>1, <1>2, <1>3, <1>4, <1>5

LEMMA CompilerChunk ==
  /\ \A s, byte, line : C!writeChunk(s, byte, line) = writeChunk(s, byte, line)
  /\ \A s, value, line : C!writeConstant(s, value, line) = writeConstant(s, value, line)
  /\ \A s : C!PoolFull(s) <=> PoolFull(s)
<1>1. \A m, block, offset : C!Load(m, block, offset) = Load(m, block, offset)
  BY DEF C!Load, Load, C!Valid, Valid, C!Live, Live
<1>2. \A m, block, oldSize, newSize : C!reallocate(m, block, oldSize, newSize) = reallocate(m, block, oldSize, newSize)
  BY Zenon DEF C!reallocate, reallocate, C!Load, Load, C!Valid, Valid, C!Live, Live,
              C!Restrict, Restrict, C!Cardinality, Cardinality
<1>3. \A m, block, offset, x : C!Store(m, block, offset, x) = Store(m, block, offset, x)
  BY DEF C!Store, Store, C!Valid, Valid, C!Live, Live
<1>4. \A capacity : C!GROW_CAPACITY(capacity) = GROW_CAPACITY(capacity)
  BY DEF C!GROW_CAPACITY, GROW_CAPACITY
<1>5. \A m, a, x : C!append(m, a, x) = append(m, a, x)
  <2> TAKE m, a, x
  <2> DEFINE capacity == IF a.capacity < a.count + 1 THEN GROW_CAPACITY(a.capacity) ELSE a.capacity
             grown == IF a.capacity < a.count + 1 THEN reallocate(m, a.ptr, a.capacity, capacity)
                      ELSE [ptr |-> a.ptr, mem |-> m]
  <2>1. capacity = IF a.capacity < a.count + 1 THEN C!GROW_CAPACITY(a.capacity) ELSE a.capacity
    BY <1>4
  <2>2. grown = IF a.capacity < a.count + 1 THEN C!reallocate(m, a.ptr, a.capacity, capacity)
                ELSE [ptr |-> a.ptr, mem |-> m]
    BY <1>2
  <2>. QED BY <2>1, <2>2, <1>3 DEF C!append, append
<1>6. \A m, a, i : C!RunAt(m, a, i) = RunAt(m, a, i)
  BY <1>1, Zenon DEF C!RunAt, RunAt
<1>7. \A m, a : C!Lengthen(m, a) = Lengthen(m, a)
  BY <1>3, <1>6, Zenon DEF C!Lengthen, Lengthen
<1>8. \A m, a, line : C!writeLineArray(m, a, line) = writeLineArray(m, a, line)
  BY <1>5, <1>6, <1>7, Zenon DEF C!writeLineArray, writeLineArray
<1>9. \A s, byte, line : C!writeChunk(s, byte, line) = writeChunk(s, byte, line)
  BY <1>5, <1>8 DEF C!writeChunk, writeChunk
<1>10. \A s, value : C!addConstant(s, value) = addConstant(s, value)
  BY <1>5, Zenon DEF C!addConstant, addConstant
<1>11. \A s : C!PoolFull(s) <=> PoolFull(s)
  BY DEF C!PoolFull, PoolFull
<1>12. C!OP_CONSTANT = OP_CONSTANT /\ C!OP_CONSTANT_LONG = OP_CONSTANT_LONG
  BY DEF C!OP_CONSTANT, OP_CONSTANT, C!OP_CONSTANT_LONG, OP_CONSTANT_LONG
<1>13. \A s, value, line : C!writeConstant(s, value, line) = writeConstant(s, value, line)
  BY <1>9, <1>10, <1>11, <1>12 DEF C!writeConstant, writeConstant
<1>. QED
  BY <1>9, <1>11, <1>13
-----------------------------------------------------------------------------
(* The stack *)

\* The stack's block, as one more array next to those of the chunk.
Stack(v) == [ptr |-> v.stack, count |-> 0, capacity |-> v.stackCapacity]

\* The machine's fields, whatever they point to.
IsMachine(v) ==
  /\ v = [chunk |-> v.chunk, ip |-> v.ip, stack |-> v.stack, stackTop |-> v.stackTop,
          stackCapacity |-> v.stackCapacity]
  /\ v.ip = M!Pointer(v.ip.block, v.ip.offset)
  /\ v.stackTop = M!Pointer(v.stackTop.block, v.stackTop.offset)

\* s is a memory and a machine; the chunk k and the stack are all in memory.
Holds(s, k) ==
  /\ s = [mem |-> s.mem, vm |-> s.vm]
  /\ IsMachine(s.vm)
  /\ Owns([mem |-> s.mem, chunk |-> k], Stack(s.vm))

\* There are h values on the stack.
Height(v, h) == v.stackTop = M!Pointer(v.stack, h) /\ h \in 0 .. v.stackCapacity

\* From s to r nothing was misused and the chunk k was only read.
Respects(s, r, k) ==
  /\ r.mem.wild = s.mem.wild
  /\ Contents(r.mem, k.code) = Contents(s.mem, k.code)
  /\ Contents(r.mem, k.constants) = Contents(s.mem, k.constants)

\* The chunk and the stack as four arrays.
LEMMA HoldsShared ==
  ASSUME NEW s, NEW k
  PROVE  Holds(s, k) <=>
           /\ s = [mem |-> s.mem, vm |-> s.vm]
           /\ IsMachine(s.vm)
           /\ k = [code |-> k.code, lines |-> k.lines, constants |-> k.constants]
           /\ Shared(s.mem, k.code, k.lines, k.constants, Stack(s.vm))
  BY DEF Holds, Owns

\* A store through any pointer at all leaves every array its block.
LEMMA StoresAnywhere ==
  ASSUME NEW m, NEW a, NEW b, NEW c, NEW d, Shared(m, a, b, c, d),
         NEW block, NEW offset, NEW x
  PROVE  Shared(Store(m, block, offset, x), a, b, c, d)
<1> DEFINE r == Store(m, block, offset, x)
<1>1. CASE Valid(m, block, offset)
  <2>1. Sound(m)
    BY DEF Shared
  <2>2. Written(m, block, offset, x, r)
    BY <1>1, <2>1, Stores
  <2> HIDE DEF r
  <2>3. ASSUME NEW e, Fits(m, e)
        PROVE  Fits(r, e)
    BY <2>2, <2>3 DEF Written, Fits
  <2>. QED BY <2>2, <2>3 DEF Written, Shared, r
<1>2. CASE ~Valid(m, block, offset)
  <2>1. r = [m EXCEPT !.wild = TRUE]
    BY <1>2 DEF Store
  <2>2. m = [blocks |-> m.blocks, tally |-> m.tally, wild |-> m.wild]
    BY DEF Shared, Sound
  <2> HIDE DEF r
  <2>3. r.blocks = m.blocks /\ r.tally = m.tally /\ r.wild = TRUE
        /\ r = [blocks |-> r.blocks, tally |-> r.tally, wild |-> r.wild]
    BY <2>1, <2>2
  <2>4. Live(r) = Live(m)
    BY <2>3 DEF Live
  <2>5. Sound(r)
    BY <2>3, <2>4 DEF Shared, Sound
  <2>6. ASSUME NEW e, Fits(m, e)
        PROVE  Fits(r, e)
    BY <2>3, <2>4, <2>6 DEF Fits
  <2>. QED BY <2>3, <2>4, <2>5, <2>6 DEF Shared, r
<1>. QED
  BY <1>1, <1>2

\* So does a read, which touches nothing if it stays in the block.
LEMMA Touches ==
  ASSUME NEW m, NEW a, NEW b, NEW c, NEW d, Shared(m, a, b, c, d),
         NEW block, NEW offsets
  PROVE  LET r == Touch(m, block, offsets)
         IN /\ Shared(r, a, b, c, d)
            /\ r.blocks = m.blocks
            /\ \A e : Contents(r, e) = Contents(m, e)
            /\ (\A i \in offsets : Valid(m, block, i)) => r.wild = m.wild
<1> DEFINE r == Touch(m, block, offsets)
           bad == \E i \in offsets : ~Valid(m, block, i)
           wild == m.wild \/ bad
<1>1. m = [blocks |-> m.blocks, tally |-> m.tally, wild |-> m.wild] /\ m.wild \in BOOLEAN
  BY DEF Shared, Sound
<1>2. r = [m EXCEPT !.wild = wild]
  BY DEF Touch
<1>3. wild \in BOOLEAN /\ (~bad => wild = m.wild)
  BY <1>1
<1> HIDE DEF r, wild
<1>4. r.blocks = m.blocks /\ r.tally = m.tally /\ r.wild = wild
      /\ r = [blocks |-> r.blocks, tally |-> r.tally, wild |-> r.wild]
  BY <1>1, <1>2
<1>5. Live(r) = Live(m)
  BY <1>4 DEF Live
<1>6. Sound(r)
  BY <1>3, <1>4, <1>5 DEF Shared, Sound
<1>7. ASSUME NEW e, Fits(m, e)
      PROVE  Fits(r, e)
  BY <1>4, <1>5, <1>7 DEF Fits
<1>8. Shared(r, a, b, c, d)
  BY <1>4, <1>5, <1>6, <1>7 DEF Shared
<1>9. ASSUME NEW e
      PROVE  Contents(r, e) = Contents(m, e)
  <2>1. \A i : Load(r, e.ptr, i) = Load(m, e.ptr, i)
    BY <1>4, <1>5 DEF Load, Valid
  <2>. QED BY <2>1 DEF Contents
<1>. QED
  BY <1>3, <1>4, <1>8, <1>9 DEF r

\* growStack makes room above the same values, and moves stackTop with them.
LEMMA GrowsStack ==
  ASSUME NEW s, NEW k, Holds(s, k)
  PROVE  LET r == M!growStack(s)
         IN /\ Holds(r, k) /\ Respects(s, r, k)
            /\ r.vm.chunk = s.vm.chunk /\ r.vm.ip = s.vm.ip
            /\ r.vm.stackTop = M!Pointer(r.vm.stack, IF s.vm.stack = NULL THEN 0 ELSE s.vm.stackTop.offset)
            /\ r.vm.stackCapacity > s.vm.stackCapacity
<1> DEFINE m == s.mem
           v == s.vm
           t == Stack(v)
           height == IF v.stack = NULL THEN 0 ELSE v.stackTop.offset
           capacity == IF v.stackCapacity < STACK_INITIAL THEN STACK_INITIAL
                       ELSE GROW_CAPACITY(v.stackCapacity)
           grown == reallocate(m, t.ptr, t.capacity, capacity)
           m1 == grown.mem
           u == [ptr |-> grown.ptr, count |-> t.count, capacity |-> capacity]
           w == [v EXCEPT !.stack = grown.ptr, !.stackCapacity = capacity,
                          !.stackTop = M!Pointer(grown.ptr, height)]
           r == M!growStack(s)
<1>1. /\ k = [code |-> k.code, lines |-> k.lines, constants |-> k.constants]
      /\ Shared(m, k.code, k.lines, k.constants, t)
      /\ IsMachine(v)
  BY HoldsShared
<1>2. t.ptr = v.stack /\ t.capacity = v.stackCapacity /\ t.count = 0
  BY DEF Stack
<1>3. v.stackCapacity \in Nat
  BY <1>1, <1>2 DEF Shared, Fits
<1>4. capacity \in Nat \ {0} /\ capacity > v.stackCapacity
  BY <1>3, StackInitialAssumption DEF GROW_CAPACITY
<1>5. r = [mem |-> m1, vm |-> w]
  <2>1. r = [mem |-> M!reallocate(m, v.stack, v.stackCapacity,
                       IF v.stackCapacity < STACK_INITIAL THEN STACK_INITIAL ELSE M!GROW_CAPACITY(v.stackCapacity)).mem,
             vm |-> [v EXCEPT !.stack = M!reallocate(m, v.stack, v.stackCapacity,
                                  IF v.stackCapacity < STACK_INITIAL THEN STACK_INITIAL ELSE M!GROW_CAPACITY(v.stackCapacity)).ptr,
                              !.stackCapacity = IF v.stackCapacity < STACK_INITIAL THEN STACK_INITIAL ELSE M!GROW_CAPACITY(v.stackCapacity),
                              !.stackTop = M!Pointer(M!reallocate(m, v.stack, v.stackCapacity,
                                  IF v.stackCapacity < STACK_INITIAL THEN STACK_INITIAL ELSE M!GROW_CAPACITY(v.stackCapacity)).ptr, height)]]
    BY Zenon DEF M!growStack
  <2>2. capacity = IF v.stackCapacity < STACK_INITIAL THEN STACK_INITIAL ELSE M!GROW_CAPACITY(v.stackCapacity)
    BY MachineMemory
  <2> HIDE DEF capacity, r
  <2>3. grown = M!reallocate(m, v.stack, v.stackCapacity, capacity)
    BY <1>2, MachineMemory
  <2> HIDE DEF grown, height, v, m
  <2>. QED BY <2>1, <2>2, <2>3
<1> HIDE DEF r, capacity, m, v, t, height
<1>6. Shared(m, t, k.lines, k.constants, k.code)
  BY <1>1, Reorders
<1>7. t.count <= capacity
  BY <1>2, <1>4
<1>8. Shared(m1, u, k.lines, k.constants, k.code) /\ OthersKeep(m, m1, k.lines, k.constants, k.code)
  BY <1>4, <1>6, <1>7, Resizes
<1> HIDE DEF m1, grown
<1>9. Shared(m1, k.code, k.lines, k.constants, u)
  BY <1>8, Reorders
<1>10. w = [chunk |-> v.chunk, ip |-> v.ip, stack |-> grown.ptr, stackTop |-> M!Pointer(grown.ptr, height),
            stackCapacity |-> capacity]
  <2> DEFINE p == M!Pointer(grown.ptr, height)
             g == grown.ptr
  <2>1. v = [chunk |-> v.chunk, ip |-> v.ip, stack |-> v.stack, stackTop |-> v.stackTop,
             stackCapacity |-> v.stackCapacity]
    BY <1>1 DEF IsMachine
  <2> HIDE DEF p, g
  <2> DEFINE first == [v EXCEPT !.stack = g]
             second == [first EXCEPT !.stackCapacity = capacity]
  <2>2. first = [chunk |-> v.chunk, ip |-> v.ip, stack |-> g, stackTop |-> v.stackTop,
                 stackCapacity |-> v.stackCapacity]
    BY <2>1
  <2>3. w = [second EXCEPT !.stackTop = p]
    BY Zenon DEF p, g
  <2> HIDE DEF first, w
  <2>4. second = [chunk |-> v.chunk, ip |-> v.ip, stack |-> g, stackTop |-> v.stackTop,
                  stackCapacity |-> capacity]
    BY <2>2
  <2> HIDE DEF second
  <2>. QED BY <2>3, <2>4 DEF p, g
<1> HIDE DEF w
<1>11. Stack(w) = u
  BY <1>2, <1>10 DEF Stack
<1>12. IsMachine(w)
  <2>1. w.stackTop = M!Pointer(w.stackTop.block, w.stackTop.offset) /\ w.ip = M!Pointer(w.ip.block, w.ip.offset)
    BY <1>1, <1>10 DEF IsMachine, M!Pointer
  <2>. QED BY <1>10, <2>1 DEF IsMachine
<1>13. r.mem = m1 /\ r.vm = w /\ r = [mem |-> r.mem, vm |-> r.vm]
  BY <1>5
<1>14. Holds(r, k)
  BY <1>1, <1>9, <1>11, <1>12, <1>13, HoldsShared
<1>15. Respects(s, r, k)
  BY <1>8, <1>13 DEF Respects, OthersKeep, m
<1>. QED
  BY <1>4, <1>10, <1>13, <1>14, <1>15 DEF r, v, height

\* A pointer that moves stays in its block.
LEMMA Moves ==
  ASSUME NEW p, p = M!Pointer(p.block, p.offset), NEW n
  PROVE  M!Plus(p, n) = M!Pointer(p.block, p.offset + n)
<1> DEFINE b == p.block
           o == p.offset
<1>1. p = [block |-> b, offset |-> o]
  BY DEF M!Pointer
<1> HIDE DEF b, o
<1>2. [p EXCEPT !.offset = @ + n] = [block |-> b, offset |-> o + n]
  BY <1>1
<1>. QED
  BY <1>2 DEF M!Plus, M!Pointer, b, o

LEMMA PointerFields ==
  ASSUME NEW b, NEW o
  PROVE  M!Pointer(b, o).block = b /\ M!Pointer(b, o).offset = o
BY DEF M!Pointer

\* A machine whose stackTop is set keeps its block and the rest.
LEMMA SetsTop ==
  ASSUME NEW v, IsMachine(v), NEW b, NEW o
  PROVE  LET w == [v EXCEPT !.stackTop = M!Pointer(b, o)]
         IN /\ IsMachine(w) /\ Stack(w) = Stack(v)
            /\ w.stackTop = M!Pointer(b, o)
            /\ w.chunk = v.chunk /\ w.ip = v.ip /\ w.stack = v.stack /\ w.stackCapacity = v.stackCapacity
<1> DEFINE p == M!Pointer(b, o)
           w == [v EXCEPT !.stackTop = p]
<1>1. p = M!Pointer(p.block, p.offset)
  BY DEF M!Pointer
<1>2. v = [chunk |-> v.chunk, ip |-> v.ip, stack |-> v.stack, stackTop |-> v.stackTop,
           stackCapacity |-> v.stackCapacity]
  BY DEF IsMachine
<1> HIDE DEF p
<1>3. w = [chunk |-> v.chunk, ip |-> v.ip, stack |-> v.stack, stackTop |-> p,
           stackCapacity |-> v.stackCapacity]
  BY <1>2
<1> HIDE DEF w
<1>4. w.stackTop = p /\ w.chunk = v.chunk /\ w.ip = v.ip /\ w.stack = v.stack /\ w.stackCapacity = v.stackCapacity
  BY <1>3
<1>5. IsMachine(w)
  BY <1>1, <1>3, <1>4 DEF IsMachine
<1>6. Stack(w) = Stack(v)
  BY <1>4 DEF Stack
<1>. QED
  BY <1>4, <1>5, <1>6 DEF w, p

\* The same for ip.
LEMMA MovesIp ==
  ASSUME NEW v, IsMachine(v), NEW b, NEW o
  PROVE  LET w == [v EXCEPT !.ip = M!Pointer(b, o)]
         IN /\ IsMachine(w) /\ Stack(w) = Stack(v)
            /\ w.ip = M!Pointer(b, o)
            /\ w.chunk = v.chunk /\ w.stackTop = v.stackTop /\ w.stack = v.stack /\ w.stackCapacity = v.stackCapacity
<1> DEFINE p == M!Pointer(b, o)
           w == [v EXCEPT !.ip = p]
<1>1. p = M!Pointer(p.block, p.offset)
  BY DEF M!Pointer
<1>2. v = [chunk |-> v.chunk, ip |-> v.ip, stack |-> v.stack, stackTop |-> v.stackTop,
           stackCapacity |-> v.stackCapacity]
  BY DEF IsMachine
<1> HIDE DEF p
<1>3. w = [chunk |-> v.chunk, ip |-> p, stack |-> v.stack, stackTop |-> v.stackTop,
           stackCapacity |-> v.stackCapacity]
  BY <1>2
<1> HIDE DEF w
<1>4. w.ip = p /\ w.chunk = v.chunk /\ w.stackTop = v.stackTop /\ w.stack = v.stack /\ w.stackCapacity = v.stackCapacity
  BY <1>3
<1>5. v.stackTop = M!Pointer(v.stackTop.block, v.stackTop.offset)
  BY DEF IsMachine
<1>6. IsMachine(w)
  BY <1>1, <1>3, <1>4, <1>5 DEF IsMachine
<1>7. Stack(w) = Stack(v)
  BY <1>4 DEF Stack
<1>. QED
  BY <1>4, <1>6, <1>7 DEF w, p

\* The same for ip with the chunk the machine points at.
Aimed(v, c, b, o) == [v EXCEPT !.chunk = c, !.ip = M!Pointer(b, o)]

LEMMA SetsIp ==
  ASSUME NEW v, IsMachine(v), NEW c, NEW b, NEW o
  PROVE  LET w == Aimed(v, c, b, o)
         IN /\ IsMachine(w) /\ Stack(w) = Stack(v)
            /\ w.ip = M!Pointer(b, o)
            /\ w.chunk = c /\ w.stackTop = v.stackTop /\ w.stack = v.stack /\ w.stackCapacity = v.stackCapacity
<1> DEFINE p == M!Pointer(b, o)
           first == [v EXCEPT !.chunk = c]
           w == [first EXCEPT !.ip = p]
<1>1. p = M!Pointer(p.block, p.offset)
  BY DEF M!Pointer
<1>2. v = [chunk |-> v.chunk, ip |-> v.ip, stack |-> v.stack, stackTop |-> v.stackTop,
           stackCapacity |-> v.stackCapacity]
  BY DEF IsMachine
<1>3. first = [chunk |-> c, ip |-> v.ip, stack |-> v.stack, stackTop |-> v.stackTop,
               stackCapacity |-> v.stackCapacity]
  BY <1>2
<1>4. w = Aimed(v, c, b, o)
  BY Zenon DEF Aimed
<1> HIDE DEF p, first
<1>5. w = [chunk |-> c, ip |-> p, stack |-> v.stack, stackTop |-> v.stackTop,
           stackCapacity |-> v.stackCapacity]
  BY <1>3
<1> HIDE DEF w
<1>6. w.ip = p /\ w.chunk = c /\ w.stackTop = v.stackTop /\ w.stack = v.stack /\ w.stackCapacity = v.stackCapacity
  BY <1>5
<1>7. IsMachine(w)
  BY <1>1, <1>2, <1>5, <1>6 DEF IsMachine
<1>8. Stack(w) = Stack(v)
  BY <1>6 DEF Stack
<1>. QED
  BY <1>4, <1>6, <1>7, <1>8 DEF p

\* push: one more value, whatever had to grow for it; and if stackTop was in
\* the stack it still is, and nothing was misused.
LEMMA Pushes ==
  ASSUME NEW s, NEW k, Holds(s, k), NEW value
  PROVE  LET r == M!push(s, value)
         IN /\ Holds(r, k)
            /\ r.vm.chunk = s.vm.chunk /\ r.vm.ip = s.vm.ip
            /\ s.vm.stackCapacity \in Nat /\ r.vm.stackCapacity \in Nat
            /\ r.vm.stackCapacity >= s.vm.stackCapacity
            /\ \A h : Height(s.vm, h) => Height(r.vm, h + 1) /\ Respects(s, r, k)
<1> DEFINE full == s.vm.stackTop.offset = s.vm.stackCapacity
           room == IF full THEN M!growStack(s) ELSE s
           m == room.mem
           v == room.vm
           b == v.stackTop.block
           o == v.stackTop.offset
           n == Store(m, b, o, value)
           w == [v EXCEPT !.stackTop = M!Pointer(b, o + 1)]
           r == M!push(s, value)
<1>1. IsMachine(s.vm) /\ s.vm.stackCapacity \in Nat /\ (s.vm.stack = NULL <=> s.vm.stackCapacity = 0)
  BY HoldsShared DEF Shared, Fits, Stack
<1>2. /\ Holds(room, k) /\ Respects(s, room, k)
      /\ v.chunk = s.vm.chunk /\ v.ip = s.vm.ip
      /\ v.stackCapacity >= s.vm.stackCapacity
      /\ full => v.stackCapacity > s.vm.stackCapacity
      /\ full => v.stackTop = M!Pointer(v.stack, IF s.vm.stack = NULL THEN 0 ELSE s.vm.stackTop.offset)
      /\ ~full => v = s.vm
  <2>1. CASE full
    <3>1. room = M!growStack(s)
      BY <2>1
    <3> HIDE DEF room, full
    <3>2. Holds(room, k)
      BY <3>1, GrowsStack
    <3>3. v.stackCapacity \in Nat
      BY <3>2, HoldsShared DEF Shared, Fits, Stack
    <3>. QED BY <3>1, <3>3, <1>1, <2>1, GrowsStack
  <2>2. CASE ~full
    <3>1. room = s
      BY <2>2
    <3> HIDE DEF room, full
    <3>. QED BY <3>1, <2>2, <1>1 DEF Respects
  <2>. QED BY <2>1, <2>2
<1>3. /\ IsMachine(v) /\ k = [code |-> k.code, lines |-> k.lines, constants |-> k.constants]
      /\ Shared(m, k.code, k.lines, k.constants, Stack(v))
  BY <1>2, HoldsShared
<1>4. r = [mem |-> n, vm |-> w]
  <2>1. r = [mem |-> M!Store(m, b, o, value), vm |-> [v EXCEPT !.stackTop = M!Plus(v.stackTop, 1)]]
    BY Zenon DEF M!push
  <2>2. v.stackTop = M!Pointer(b, o)
    BY <1>3 DEF IsMachine
  <2> HIDE DEF r, v, m
  <2>3. M!Plus(v.stackTop, 1) = M!Pointer(b, o + 1)
    BY <2>2, Moves
  <2>. QED BY <2>1, <2>3, MachineMemory
<1> HIDE DEF r, room, full
<1>5. Shared(n, k.code, k.lines, k.constants, Stack(v))
  BY <1>3, StoresAnywhere
<1>6. /\ IsMachine(w) /\ Stack(w) = Stack(v)
      /\ w.stackTop = M!Pointer(b, o + 1)
      /\ w.chunk = v.chunk /\ w.ip = v.ip /\ w.stack = v.stack /\ w.stackCapacity = v.stackCapacity
  BY <1>3, SetsTop
<1> HIDE DEF w, n
<1>7. r.mem = n /\ r.vm = w /\ r = [mem |-> r.mem, vm |-> r.vm]
  BY <1>4
<1>8. Holds(r, k)
  BY <1>3, <1>5, <1>6, <1>7, HoldsShared
<1>9. v.stackCapacity \in Nat
  BY <1>3 DEF Shared, Fits, Stack
<1>10. ASSUME NEW h, Height(s.vm, h)
       PROVE  Height(r.vm, h + 1) /\ Respects(s, r, k)
  <2>1. s.vm.stackTop = M!Pointer(s.vm.stack, h) /\ h \in 0 .. s.vm.stackCapacity
    BY <1>10 DEF Height
  <2>2. s.vm.stackTop.offset = h
    BY <2>1, PointerFields
  <2>3. v.stackTop = M!Pointer(v.stack, h) /\ h \in 0 .. v.stackCapacity - 1
    <3>1. CASE full
      <4>1. (IF s.vm.stack = NULL THEN 0 ELSE s.vm.stackTop.offset) = h
        BY <2>1, <2>2, <1>1
      <4>2. v.stackCapacity > s.vm.stackCapacity
        BY <3>1, <1>2
      <4>. QED BY <3>1, <4>1, <4>2, <1>1, <1>2, <1>9, <2>1
    <3>2. CASE ~full
      <4>1. h # s.vm.stackCapacity
        BY <3>2, <2>2 DEF full
      <4>. QED BY <3>2, <4>1, <1>1, <1>2, <2>1
    <3>. QED BY <3>1, <3>2
  <2>4. b = v.stack /\ o = h
    BY <2>3, PointerFields
  <2>5. Height(r.vm, h + 1)
    BY <2>3, <2>4, <1>6, <1>7, <1>9 DEF Height
  <2> DEFINE t == Stack(v)
             g == [ptr |-> t.ptr, count |-> 0, capacity |-> t.capacity]
             x == Store(m, t.ptr, h, value)
  <2>6. t.ptr = v.stack /\ t.capacity = v.stackCapacity
    BY DEF Stack
  <2>7. n = x
    BY <2>4, <2>6 DEF n
  <2>8. h \in 0 .. t.capacity - 1 /\ 0 \in 0 .. t.capacity
    BY <1>9, <2>3, <2>6
  <2> HIDE DEF t, m
  <2>9. Shared(m, t, k.lines, k.constants, k.code)
    BY <1>3, Reorders DEF t
  <2>10. OthersKeep(m, x, k.lines, k.constants, k.code)
    BY <2>8, <2>9, StoresIn
  <2> HIDE DEF x
  <2>11. Respects(s, r, k)
    BY <2>7, <2>10, <1>2, <1>7 DEF Respects, OthersKeep, m
  <2>. QED BY <2>5, <2>11
<1>. QED
  BY <1>1, <1>2, <1>6, <1>7, <1>8, <1>9, <1>10 DEF r

\* The cells below stackTop are there to be read.
LEMMA StackCells ==
  ASSUME NEW s, NEW k, Holds(s, k), NEW h, Height(s.vm, h), h > 0
  PROVE  \A i \in 0 .. h - 1 : Valid(s.mem, s.vm.stack, i)
<1>1. Fits(s.mem, Stack(s.vm)) /\ s.vm.stackCapacity \in Nat
  BY HoldsShared DEF Shared, Fits, Stack
<1>2. h \in 0 .. s.vm.stackCapacity
  BY DEF Height
<1>3. s.vm.stack \in Live(s.mem) /\ DOMAIN s.mem.blocks[s.vm.stack] = 0 .. s.vm.stackCapacity - 1
  BY <1>1, <1>2 DEF Fits, Stack
<1>. QED
  BY <1>1, <1>2, <1>3 DEF Valid

\* n pops
LEMMA Pops ==
  ASSUME NEW s, NEW k, Holds(s, k), NEW n \in Nat
  PROVE  LET r == M!pop(s, n)
         IN /\ Holds(r, k)
            /\ r.vm.chunk = s.vm.chunk /\ r.vm.ip = s.vm.ip
            /\ r.vm.stack = s.vm.stack /\ r.vm.stackCapacity = s.vm.stackCapacity
            /\ \A h : Height(s.vm, h) /\ n <= h => Height(r.vm, h - n) /\ Respects(s, r, k)
<1> DEFINE v == s.vm
           m == s.mem
           b == v.stackTop.block
           o == v.stackTop.offset
           m1 == Touch(m, b, o - n .. o - 1)
           w == [v EXCEPT !.stackTop = M!Pointer(b, o + (-n))]
           r == M!pop(s, n)
<1>1. /\ IsMachine(v) /\ k = [code |-> k.code, lines |-> k.lines, constants |-> k.constants]
      /\ Shared(m, k.code, k.lines, k.constants, Stack(v))
  BY HoldsShared
<1>2. r = [mem |-> m1, vm |-> w]
  <2>1. r = [mem |-> M!Touch(m, b, o - n .. o - 1), vm |-> [v EXCEPT !.stackTop = M!Plus(v.stackTop, -n)]]
    BY Zenon DEF M!pop
  <2>2. v.stackTop = M!Pointer(b, o)
    BY <1>1 DEF IsMachine
  <2> HIDE DEF r, v, m
  <2>3. M!Plus(v.stackTop, -n) = M!Pointer(b, o + (-n))
    BY <2>2, Moves
  <2>. QED BY <2>1, <2>3, MachineMemory
<1> HIDE DEF r
<1>3. /\ Shared(m1, k.code, k.lines, k.constants, Stack(v))
      /\ \A e : Contents(m1, e) = Contents(m, e)
      /\ (\A i \in o - n .. o - 1 : Valid(m, b, i)) => m1.wild = m.wild
  <2> DEFINE q == o - n .. o - 1
             d == Stack(v)
             m2 == Touch(m, b, q)
  <2>1. m1 = m2
    OBVIOUS
  <2> HIDE DEF q, b, d, m, m1
  <2>2. /\ Shared(m2, k.code, k.lines, k.constants, d)
        /\ \A e : Contents(m2, e) = Contents(m, e)
        /\ (\A i \in q : Valid(m, b, i)) => m2.wild = m.wild
    BY <1>1, Touches DEF d
  <2> HIDE DEF m2
  <2>. QED BY <2>1, <2>2 DEF d, q
<1>4. /\ IsMachine(w) /\ Stack(w) = Stack(v)
      /\ w.stackTop = M!Pointer(b, o + (-n))
      /\ w.chunk = v.chunk /\ w.ip = v.ip /\ w.stack = v.stack /\ w.stackCapacity = v.stackCapacity
  BY <1>1, SetsTop
<1> HIDE DEF w, m1
<1>5. r.mem = m1 /\ r.vm = w /\ r = [mem |-> r.mem, vm |-> r.vm]
  BY <1>2
<1>6. Holds(r, k)
  BY <1>1, <1>3, <1>4, <1>5, HoldsShared
<1>7. ASSUME NEW h, Height(v, h), n <= h
      PROVE  Height(r.vm, h - n) /\ Respects(s, r, k)
  <2>1. v.stackTop = M!Pointer(v.stack, h) /\ h \in 0 .. v.stackCapacity
    BY <1>7 DEF Height
  <2>2. b = v.stack /\ o = h
    BY <2>1, PointerFields
  <2>3. v.stackCapacity \in Nat
    BY <1>1 DEF Shared, Fits, Stack
  <2>4. h + (-n) = h - n /\ h - n \in 0 .. v.stackCapacity
    BY <1>7, <2>1, <2>3
  <2>5. Height(r.vm, h - n)
    BY <1>4, <1>5, <2>2, <2>4 DEF Height
  <2>6. \A i \in o - n .. o - 1 : Valid(m, b, i)
    <3>1. CASE h = 0
      BY <3>1, <1>7, <2>2
    <3>2. CASE h > 0
      <4>1. \A i \in 0 .. h - 1 : Valid(m, v.stack, i)
        BY <3>2, <1>7, StackCells
      <4>2. \A i \in o - n .. o - 1 : i \in 0 .. h - 1
        BY <1>7, <2>1, <2>2, <2>3
      <4>. QED BY <4>1, <4>2, <2>2
    <3>. QED BY <3>1, <3>2, <2>1, <2>3
  <2>7. Respects(s, r, k)
    BY <1>3, <1>5, <2>6 DEF Respects
  <2>. QED BY <2>5, <2>7
<1>. QED
  BY <1>4, <1>5, <1>6, <1>7 DEF r

\* OP_NEGATE writes over the last value.
LEMMA Overwrites ==
  ASSUME NEW s, NEW k, Holds(s, k), NEW x
  PROVE  LET r == [s EXCEPT !.mem = M!Store(@, s.vm.stackTop.block, s.vm.stackTop.offset - 1, x)]
         IN /\ Holds(r, k) /\ r.vm = s.vm
            /\ \A h : Height(s.vm, h) /\ 1 <= h => Respects(s, r, k)
<1> DEFINE v == s.vm
           m == s.mem
           b == v.stackTop.block
           o == v.stackTop.offset
           m1 == Store(m, b, o - 1, x)
           r == [s EXCEPT !.mem = M!Store(@, b, o - 1, x)]
<1>1. /\ IsMachine(v) /\ k = [code |-> k.code, lines |-> k.lines, constants |-> k.constants]
      /\ Shared(m, k.code, k.lines, k.constants, Stack(v))
      /\ s = [mem |-> m, vm |-> v]
  BY HoldsShared
<1>2. r = [mem |-> m1, vm |-> v]
  <2>1. r = [s EXCEPT !.mem = m1]
    BY MachineMemory
  <2> HIDE DEF r, m1, m, v
  <2>. QED BY <1>1, <2>1
<1>3. Shared(m1, k.code, k.lines, k.constants, Stack(v))
  BY <1>1, StoresAnywhere
<1> HIDE DEF r
<1>4. r.mem = m1 /\ r.vm = v /\ r = [mem |-> r.mem, vm |-> r.vm]
  BY <1>2
<1>5. Holds(r, k)
  BY <1>1, <1>3, <1>4, HoldsShared
<1>6. ASSUME NEW h, Height(v, h), 1 <= h
      PROVE  Respects(s, r, k)
  <2> DEFINE t == Stack(v)
             i == h - 1
             y == Store(m, t.ptr, i, x)
  <2>1. v.stackTop = M!Pointer(v.stack, h) /\ h \in 0 .. v.stackCapacity
    BY <1>6 DEF Height
  <2>2. b = v.stack /\ o = h
    BY <2>1, PointerFields
  <2>3. v.stackCapacity \in Nat
    BY <1>1 DEF Shared, Fits, Stack
  <2>4. t.ptr = v.stack /\ t.capacity = v.stackCapacity
    BY DEF Stack
  <2>5. m1 = y
    BY <2>2, <2>4
  <2>6. i \in 0 .. t.capacity - 1 /\ 0 \in 0 .. t.capacity
    BY <1>6, <2>1, <2>3, <2>4
  <2> HIDE DEF t, m, i, m1
  <2>7. Shared(m, t, k.lines, k.constants, k.code)
    BY <1>1, Reorders DEF t
  <2>8. OthersKeep(m, y, k.lines, k.constants, k.code)
    BY <2>6, <2>7, StoresIn
  <2> HIDE DEF y
  <2>. QED BY <2>5, <2>8, <1>4 DEF Respects, OthersKeep, m
<1>. QED
  BY <1>4, <1>5, <1>6 DEF r

-----------------------------------------------------------------------------
(* The machine and its chunk *)

Now == [mem |-> mem, vm |-> vm]

\* READ_BYTE, n times
LEMMA Fetches ==
  ASSUME Holds(Now, chunk), NEW n \in Nat
  PROVE  LET r == M!Fetched(n)
         IN /\ Holds(r, chunk)
            /\ r.vm.chunk = vm.chunk /\ r.vm.ip = M!Pointer(vm.ip.block, vm.ip.offset + n)
            /\ r.vm.stack = vm.stack /\ r.vm.stackCapacity = vm.stackCapacity /\ r.vm.stackTop = vm.stackTop
            /\ r.mem.blocks = mem.blocks
            /\ (\A i \in vm.ip.offset .. vm.ip.offset + n - 1 : Valid(mem, vm.ip.block, i))
                 => Respects(Now, r, chunk)
<1> DEFINE b == vm.ip.block
           o == vm.ip.offset
           m1 == Touch(mem, b, o .. o + n - 1)
           w == [vm EXCEPT !.ip = M!Pointer(b, o + n)]
           r == M!Fetched(n)
<1>1. /\ IsMachine(vm) /\ chunk = [code |-> chunk.code, lines |-> chunk.lines, constants |-> chunk.constants]
      /\ Shared(mem, chunk.code, chunk.lines, chunk.constants, Stack(vm))
  BY HoldsShared DEF Now
<1>2. r = [mem |-> m1, vm |-> w]
  <2>1. r = [mem |-> M!Touch(mem, b, o .. o + n - 1), vm |-> [vm EXCEPT !.ip = M!Plus(vm.ip, n)]]
    BY Zenon DEF M!Fetched
  <2>2. vm.ip = M!Pointer(b, o)
    BY <1>1 DEF IsMachine
  <2>3. M!Plus(vm.ip, n) = M!Pointer(b, o + n)
    BY <2>2, Moves
  <2> HIDE DEF r
  <2>. QED BY <2>1, <2>3, MachineMemory
<1> HIDE DEF r
<1>3. /\ Shared(m1, chunk.code, chunk.lines, chunk.constants, Stack(vm))
      /\ m1.blocks = mem.blocks
      /\ \A e : Contents(m1, e) = Contents(mem, e)
      /\ (\A i \in o .. o + n - 1 : Valid(mem, b, i)) => m1.wild = mem.wild
  <2> DEFINE q == o .. o + n - 1
             d == Stack(vm)
             m2 == Touch(mem, b, q)
  <2>1. m1 = m2
    OBVIOUS
  <2> HIDE DEF q, b, d, m1
  <2>2. /\ Shared(m2, chunk.code, chunk.lines, chunk.constants, d)
        /\ m2.blocks = mem.blocks
        /\ \A e : Contents(m2, e) = Contents(mem, e)
        /\ (\A i \in q : Valid(mem, b, i)) => m2.wild = mem.wild
    BY <1>1, Touches DEF d
  <2> HIDE DEF m2
  <2>. QED BY <2>1, <2>2 DEF d, q
<1>4. /\ IsMachine(w) /\ Stack(w) = Stack(vm)
      /\ w.ip = M!Pointer(b, o + n)
      /\ w.chunk = vm.chunk /\ w.stackTop = vm.stackTop /\ w.stack = vm.stack /\ w.stackCapacity = vm.stackCapacity
  <2> DEFINE e == o + n
             x == [vm EXCEPT !.ip = M!Pointer(b, e)]
  <2>1. w = x
    OBVIOUS
  <2> HIDE DEF w, b, e
  <2>2. /\ IsMachine(x) /\ Stack(x) = Stack(vm)
        /\ x.ip = M!Pointer(b, e)
        /\ x.chunk = vm.chunk /\ x.stackTop = vm.stackTop /\ x.stack = vm.stack /\ x.stackCapacity = vm.stackCapacity
    BY <1>1, MovesIp
  <2> HIDE DEF x
  <2>. QED BY <2>1, <2>2 DEF e
<1> HIDE DEF w, m1
<1>5. r.mem = m1 /\ r.vm = w /\ r = [mem |-> r.mem, vm |-> r.vm]
  BY <1>2
<1>6. Holds(r, chunk)
  BY <1>1, <1>3, <1>4, <1>5, HoldsShared
<1>7. (\A i \in o .. o + n - 1 : Valid(mem, b, i)) => Respects(Now, r, chunk)
  BY <1>3, <1>5 DEF Respects, Now
<1>. QED
  BY <1>3, <1>4, <1>5, <1>6, <1>7 DEF r

\* Pushing a constant of the pool.
LEMMA Loads ==
  ASSUME NEW s, Holds(s, chunk), NEW i
  PROVE  LET r == M!Loading(s, i)
         IN /\ Holds(r, chunk)
            /\ r.vm.chunk = s.vm.chunk /\ r.vm.ip = s.vm.ip
            /\ s.vm.stackCapacity \in Nat /\ r.vm.stackCapacity \in Nat
            /\ r.vm.stackCapacity >= s.vm.stackCapacity
            /\ \A h : Height(s.vm, h) /\ Valid(s.mem, M!PoolBlock, i) => Height(r.vm, h + 1) /\ Respects(s, r, chunk)
<1> DEFINE p == M!PoolBlock
           x == M!Load(s.mem, p, i)
           q == {i}
           m1 == Touch(s.mem, p, q)
           t == [s EXCEPT !.mem = m1]
           r == M!push(t, x)
<1>1. M!Loading(s, i) = r
  BY MachineMemory DEF M!Loading
<1>2. /\ IsMachine(s.vm) /\ chunk = [code |-> chunk.code, lines |-> chunk.lines, constants |-> chunk.constants]
      /\ Shared(s.mem, chunk.code, chunk.lines, chunk.constants, Stack(s.vm))
      /\ s = [mem |-> s.mem, vm |-> s.vm]
  BY HoldsShared
<1> HIDE DEF x, p, q
<1>3. /\ Shared(m1, chunk.code, chunk.lines, chunk.constants, Stack(s.vm))
      /\ \A e : Contents(m1, e) = Contents(s.mem, e)
      /\ (\A j \in q : Valid(s.mem, p, j)) => m1.wild = s.mem.wild
  BY <1>2, Touches
<1> HIDE DEF m1
<1>4. t = [mem |-> m1, vm |-> s.vm] /\ t.mem = m1 /\ t.vm = s.vm
  BY <1>2
<1> HIDE DEF t
<1>5. Holds(t, chunk)
  BY <1>2, <1>3, <1>4, HoldsShared
<1> HIDE DEF r
<1>6. /\ Holds(r, chunk)
      /\ r.vm.chunk = t.vm.chunk /\ r.vm.ip = t.vm.ip
      /\ t.vm.stackCapacity \in Nat /\ r.vm.stackCapacity \in Nat
      /\ r.vm.stackCapacity >= t.vm.stackCapacity
      /\ \A h : Height(t.vm, h) => Height(r.vm, h + 1) /\ Respects(t, r, chunk)
  BY <1>5, Pushes DEF r
<1>7. Valid(s.mem, p, i) => Respects(s, t, chunk)
  BY <1>3, <1>4 DEF Respects, q
<1>8. ASSUME NEW h, Height(s.vm, h), Valid(s.mem, p, i)
      PROVE  Height(r.vm, h + 1) /\ Respects(s, r, chunk)
  BY <1>4, <1>6, <1>7, <1>8 DEF Respects
<1>. QED
  BY <1>1, <1>4, <1>6, <1>8 DEF p
-----------------------------------------------------------------------------
(* What is live, whatever is compiled and run *)

\* The chunk's arrays and the stack are all there is in memory; between inputs
\* there is no chunk, and at the end no stack.
Kept ==
  /\ Holds(Now, chunk)
  /\ doing \in {"nothing", "interpret", "dump", "run", "build", "run by hand", "exited"}
  /\ doing \in {"nothing", "exited"} => chunk = emptyChunk
  /\ IF doing = "exited" THEN vm.stackCapacity = 0 ELSE vm.stackCapacity > 0

\* Which says that nothing leaks.
LEMMA KeptLeaksNothing ==
  ASSUME Kept
  PROVE  NothingLeaks
<1>1. vm.stackCapacity \in Nat /\ (vm.stack = NULL <=> vm.stackCapacity = 0)
  BY HoldsShared DEF Kept, Now, Shared, Fits, Stack
<1>2. ASSUME doing \in {"nothing", "exited"}
      PROVE  Live(mem) = {vm.stack} \ {NULL} /\ mem.tally = vm.stackCapacity
  <2>1. chunk = emptyChunk
    BY <1>2 DEF Kept
  <2>2. Shared(mem, EmptyArray, EmptyArray, EmptyArray, Stack(vm))
    BY <2>1, HoldsShared DEF Kept, Now, emptyChunk
  <2>3. Live(mem) = {vm.stack} \ {NULL}
    BY <2>2 DEF Shared, EmptyArray, Stack
  <2>. QED BY <1>1, <2>2, <2>3 DEF Shared, EmptyArray, Stack
<1>3. CASE Idle
  <2>1. vm.stack # NULL
    BY <1>1, <1>3 DEF Kept, Idle
  <2>. QED BY <1>2, <1>3, <2>1 DEF Idle, NothingLeaks
<1>4. CASE doing = "exited"
  <2>1. vm.stack = NULL /\ vm.stackCapacity = 0
    BY <1>1, <1>4 DEF Kept
  <2>. QED BY <1>2, <1>4, <2>1 DEF Idle, NothingLeaks
<1>. QED
  BY <1>3, <1>4 DEF NothingLeaks, Idle

\* The state after a step that computes the pair of mem and vm.
LEMMA BecomesHolds ==
  ASSUME NEW s, NEW k, Holds(s, k), mem' = s.mem, vm' = s.vm
  PROVE  Now' = s
<1>1. s = [mem |-> s.mem, vm |-> s.vm]
  BY DEF Holds
<1>. QED
  BY <1>1 DEF Now

\* The state after a step that computes the pair of mem and chunk.
LEMMA BecomesOwns ==
  ASSUME NEW s, IsMachine(vm), Owns(s, Stack(vm)), mem' = s.mem, chunk' = s.chunk, vm' = vm
  PROVE  Holds(Now, chunk)'
<1>1. s = [mem |-> s.mem, chunk |-> s.chunk]
  BY DEF Owns
<1>2. Now' = [mem |-> s.mem, vm |-> vm]
  BY DEF Now
<1>3. Holds([mem |-> s.mem, vm |-> vm], s.chunk)
  BY <1>1 DEF Holds
<1>. QED
  BY <1>2, <1>3

\* An empty memory holds an empty chunk and a machine without a stack.
LEMMA NothingHolds == Holds([mem |-> NoMemory, vm |-> M!NoVM], emptyChunk)
<1> DEFINE v == M!NoVM
           m == NoMemory
           e == EmptyArray
<1>1. DOMAIN <<>> = {}
  OBVIOUS
<1>2. IsFiniteSet({})
  BY FS_EmptySet
<1>3. Sound(m)
  BY <1>1, <1>2 DEF Sound, NoMemory, Live
<1>4. Fits(m, e) /\ Apart(e, e)
  BY DEF Fits, EmptyArray, Apart
<1>5. Live(m) = {e.ptr, e.ptr, e.ptr, e.ptr} \ {NULL}
  BY <1>1 DEF Live, NoMemory, EmptyArray
<1>6. m.tally = e.capacity + e.capacity + e.capacity + e.capacity
  BY DEF NoMemory, EmptyArray
<1>7. Shared(m, e, e, e, e)
  BY <1>3, <1>4, <1>5, <1>6 DEF Shared
<1>8. IsMachine(v)
  BY DEF IsMachine, M!NoVM, M!NoPointer, M!Pointer
<1>9. Stack(v) = e
  BY DEF Stack, M!NoVM, EmptyArray
<1> HIDE DEF v, m, e
<1>10. Shared(m, e, e, e, Stack(v))
  BY <1>7, <1>9
<1> DEFINE s == [mem |-> m, vm |-> v]
           k == [code |-> e, lines |-> e, constants |-> e]
<1>11. s = [mem |-> s.mem, vm |-> s.vm] /\ s.mem = m /\ s.vm = v
       /\ k = [code |-> k.code, lines |-> k.lines, constants |-> k.constants]
       /\ k.code = e /\ k.lines = e /\ k.constants = e
  OBVIOUS
<1> HIDE DEF s, k
<1>12. Holds(s, k)
  BY <1>8, <1>10, <1>11, HoldsShared
<1>. QED
  BY <1>12 DEF s, k, v, m, e, emptyChunk

\* initVM
LEMMA InitVM ==
  ASSUME Init
  PROVE  Holds(Now, chunk) /\ vm.stackCapacity > 0 /\ Height(vm, 0) /\ mem.wild = FALSE
<1> DEFINE s == [mem |-> NoMemory, vm |-> M!NoVM]
           k == emptyChunk
           r == M!growStack(s)
           v == r.vm
           w == [v EXCEPT !.stackTop = M!Pointer(v.stack, 0)]
<1>1. Holds(s, k)
  BY NothingHolds
<1>2. mem = r.mem /\ vm = w /\ chunk = k
  <2>1. M!initVM(NoMemory) = [r EXCEPT !.vm = M!resetStack(@)]
    BY DEF M!initVM
  <2>2. Holds(r, k)
    BY <1>1, GrowsStack
  <2>3. r = [mem |-> r.mem, vm |-> r.vm]
    BY <2>2 DEF Holds
  <2> HIDE DEF r
  <2>4. M!resetStack(r.vm) = w
    BY DEF M!resetStack
  <2> HIDE DEF w, v
  <2>5. M!initVM(NoMemory) = [mem |-> r.mem, vm |-> w]
    BY <2>1, <2>3, <2>4
  <2>. QED BY <2>5 DEF Init
<1>3. s.mem.wild = FALSE /\ s.vm.stackCapacity = 0
  BY DEF NoMemory, M!NoVM
<1> HIDE DEF s, k
<1>4. Holds(r, k) /\ Respects(s, r, k) /\ v.stackCapacity > s.vm.stackCapacity
  BY <1>1, GrowsStack
<1> HIDE DEF r
<1>5. /\ IsMachine(v) /\ k = [code |-> k.code, lines |-> k.lines, constants |-> k.constants]
      /\ Shared(r.mem, k.code, k.lines, k.constants, Stack(v))
  BY <1>4, HoldsShared
<1>6. /\ IsMachine(w) /\ Stack(w) = Stack(v)
      /\ w.stackTop = M!Pointer(v.stack, 0) /\ w.stack = v.stack /\ w.stackCapacity = v.stackCapacity
  <2> DEFINE b == v.stack
             o == 0
             x == [v EXCEPT !.stackTop = M!Pointer(b, o)]
  <2> HIDE DEF b, o, v
  <2>1. /\ IsMachine(x) /\ Stack(x) = Stack(v)
        /\ x.stackTop = M!Pointer(b, o) /\ x.stack = v.stack /\ x.stackCapacity = v.stackCapacity
    BY <1>5, SetsTop
  <2>. QED BY <2>1 DEF b, o
<1> HIDE DEF w
<1>7. Now = [mem |-> r.mem, vm |-> w] /\ Now.mem = r.mem /\ Now.vm = w
  BY <1>2 DEF Now
<1>8. Holds(Now, chunk)
  BY <1>2, <1>5, <1>6, <1>7, HoldsShared
<1>9. v.stackCapacity \in Nat
  BY <1>5 DEF Shared, Fits, Stack
<1>10. mem.wild = FALSE
  BY <1>2, <1>3, <1>4 DEF Respects
<1>. QED
  BY <1>2, <1>3, <1>4, <1>6, <1>8, <1>9, <1>10 DEF Height

-----------------------------------------------------------------------------
(* What one step does to the chunk, the stack and the memory *)

\* Every step of the compiler writes a byte, a constant or nothing to its chunk.
LEMMA CompilerWrites ==
  ASSUME C!Next
  PROVE  \/ UNCHANGED <<mem, chunk>>
         \/ \E byte, line : LET s == writeChunk([mem |-> mem, chunk |-> chunk], byte, line)
                            IN mem' = s.mem /\ chunk' = s.chunk
         \/ \E value, line : LET s == writeConstant([mem |-> mem, chunk |-> chunk], value, line)
                             IN mem' = s.mem /\ chunk' = s.chunk
<1> DEFINE now == [mem |-> mem, chunk |-> chunk]
<1>1. ASSUME NEW byte, NEW line, C!Emitted(C!writeChunk(C!Now, byte, line))
      PROVE  \E b, l : LET s == writeChunk(now, b, l) IN mem' = s.mem /\ chunk' = s.chunk
  <2>1. C!writeChunk(C!Now, byte, line) = writeChunk(now, byte, line)
    BY CompilerChunk DEF C!Now
  <2>. QED BY <1>1, <2>1 DEF C!Emitted
<1>2. ASSUME NEW value, NEW line, C!Emitted(C!writeConstant(C!Now, value, line))
      PROVE  \E b, l : LET s == writeConstant(now, b, l) IN mem' = s.mem /\ chunk' = s.chunk
  <2>1. C!writeConstant(C!Now, value, line) = writeConstant(now, value, line)
    BY CompilerChunk DEF C!Now
  <2>. QED BY <1>2, <2>1 DEF C!Emitted
<1>3. CASE C!ParsePrecedence
  BY <1>2, <1>3, Zenon DEF C!ParsePrecedence, C!emitConstant
<1>4. CASE C!Unary
  BY <1>1, <1>4, Zenon DEF C!Unary, C!emitByte
<1>5. CASE C!Binary
  BY <1>1, <1>5, Zenon DEF C!Binary, C!emitByte
<1>6. CASE C!EndCompiler
  BY <1>1, <1>6, Zenon DEF C!EndCompiler, C!emitByte
<1>7. CASE C!Compile \/ C!Infix \/ C!Grouping \/ C!Then \/ C!Else
  BY <1>7, Zenon DEF C!Compile, C!Infix, C!Grouping, C!Then, C!Else
<1>. QED
  BY <1>3, <1>4, <1>5, <1>6, <1>7 DEF C!Next

\* Writing to the chunk leaves the stack alone.
LEMMA WritesHold ==
  ASSUME Holds(Now, chunk), vm' = vm,
         \/ UNCHANGED <<mem, chunk>>
         \/ \E byte, line : LET s == writeChunk([mem |-> mem, chunk |-> chunk], byte, line)
                            IN mem' = s.mem /\ chunk' = s.chunk
         \/ \E value, line : LET s == writeConstant([mem |-> mem, chunk |-> chunk], value, line)
                             IN mem' = s.mem /\ chunk' = s.chunk
  PROVE  Holds(Now, chunk)' /\ mem.wild' = mem.wild
<1> DEFINE now == [mem |-> mem, chunk |-> chunk]
           d == Stack(vm)
<1>1. IsMachine(vm) /\ Owns(now, d)
  BY DEF Holds, Now
<1>2. now.mem = mem
  OBVIOUS
<1>3. CASE UNCHANGED <<mem, chunk>>
  BY <1>3 DEF Now
<1>4. ASSUME NEW byte, NEW line, LET s == writeChunk(now, byte, line) IN mem' = s.mem /\ chunk' = s.chunk
      PROVE  Holds(Now, chunk)' /\ mem.wild' = mem.wild
  <2> DEFINE s == writeChunk(now, byte, line)
  <2> HIDE DEF now, d
  <2>1. Owns(s, d) /\ OtherKeeps(now, s, d)
    BY <1>1, WritesChunk
  <2>2. mem' = s.mem /\ chunk' = s.chunk
    BY <1>4 DEF now
  <2> HIDE DEF s
  <2>. QED BY <1>1, <1>2, <2>1, <2>2, BecomesOwns DEF OtherKeeps, d
<1>5. ASSUME NEW value, NEW line, LET s == writeConstant(now, value, line) IN mem' = s.mem /\ chunk' = s.chunk
      PROVE  Holds(Now, chunk)' /\ mem.wild' = mem.wild
  <2> DEFINE s == writeConstant(now, value, line)
  <2> HIDE DEF now, d
  <2>1. Owns(s, d) /\ OtherKeeps(now, s, d)
    BY <1>1, WritesConstant
  <2>2. mem' = s.mem /\ chunk' = s.chunk
    BY <1>5 DEF now
  <2> HIDE DEF s
  <2>. QED BY <1>1, <1>2, <2>1, <2>2, BecomesOwns DEF OtherKeeps, d
<1>. QED
  BY <1>3, <1>4, <1>5

\* Dropping the chunk frees its arrays only.
LEMMA Drops ==
  ASSUME Holds(Now, chunk), DropChunk,
         IsMachine(vm'), Stack(vm') = Stack(vm)
  PROVE  Holds(Now, chunk)' /\ mem.wild' = mem.wild /\ chunk' = emptyChunk
<1> DEFINE now == [mem |-> mem, chunk |-> chunk]
           d == Stack(vm)
           s == freeChunk(now)
<1>1. Owns(now, d) /\ now.mem = mem
  BY DEF Holds, Now
<1>2. mem' = s.mem /\ chunk' = s.chunk
  BY DEF DropChunk
<1> HIDE DEF now, d
<1>3. Owns(s, d) /\ s.chunk = emptyChunk /\ OtherKeeps(now, s, d)
  BY <1>1, FreesChunk
<1> HIDE DEF s
<1>4. s = [mem |-> s.mem, chunk |-> s.chunk]
  BY <1>3 DEF Owns
<1>5. Now' = [mem |-> s.mem, vm |-> vm']
  BY <1>2 DEF Now
<1>6. Owns([mem |-> s.mem, chunk |-> s.chunk], Stack(vm'))
  BY <1>3, <1>4 DEF d
<1>7. Holds([mem |-> s.mem, vm |-> vm'], s.chunk)
  BY <1>6 DEF Holds
<1>. QED
  BY <1>1, <1>2, <1>3, <1>5, <1>7 DEF OtherKeeps

\* interpretChunk
LEMMA Interprets ==
  ASSUME Holds(Now, chunk), vm' = M!interpretChunk(vm, chunk), UNCHANGED <<mem, chunk>>
  PROVE  /\ Holds(Now, chunk)'
         /\ vm'.chunk = TRUE /\ vm'.ip = M!Pointer(chunk.code.ptr, 0)
         /\ Height(vm', 0) /\ vm'.stackCapacity = vm.stackCapacity
<1> DEFINE b == chunk.code.ptr
           c == TRUE
           o == 0
           t == vm.stack
           v == Aimed(vm, c, b, o)
           w == [v EXCEPT !.stackTop = M!Pointer(t, o)]
<1>1. /\ IsMachine(vm) /\ chunk = [code |-> chunk.code, lines |-> chunk.lines, constants |-> chunk.constants]
      /\ Shared(mem, chunk.code, chunk.lines, chunk.constants, Stack(vm))
  BY HoldsShared DEF Now
<1>2. vm' = [v EXCEPT !.stackTop = M!Pointer(v.stack, 0)]
  BY DEF M!interpretChunk, M!resetStack, Aimed
<1> HIDE DEF b, c, o, t
<1>3. /\ IsMachine(v) /\ Stack(v) = Stack(vm)
      /\ v.ip = M!Pointer(b, o)
      /\ v.chunk = c /\ v.stack = vm.stack /\ v.stackCapacity = vm.stackCapacity
  BY <1>1, SetsIp
<1> HIDE DEF v
<1>4. vm' = w
  BY <1>2, <1>3 DEF t, o
<1>5. /\ IsMachine(w) /\ Stack(w) = Stack(v)
      /\ w.stackTop = M!Pointer(t, o)
      /\ w.chunk = v.chunk /\ w.ip = v.ip /\ w.stack = v.stack /\ w.stackCapacity = v.stackCapacity
  BY <1>3, SetsTop
<1> HIDE DEF w
<1>6. Now' = [mem |-> mem, vm |-> w] /\ [mem |-> mem, vm |-> w].mem = mem /\ [mem |-> mem, vm |-> w].vm = w
  BY <1>4 DEF Now
<1>7. Holds([mem |-> mem, vm |-> w], chunk)
  <2> DEFINE s == [mem |-> mem, vm |-> w]
  <2>1. s = [mem |-> s.mem, vm |-> s.vm]
    OBVIOUS
  <2> HIDE DEF s
  <2>. QED BY <1>1, <1>3, <1>5, <1>6, <2>1, HoldsShared DEF s
<1>8. Holds(Now, chunk)'
  BY <1>6, <1>7
<1>9. Height(w, 0)
  <2>1. vm.stackCapacity \in Nat
    BY <1>1 DEF Shared, Fits, Stack
  <2>. QED BY <1>3, <1>5, <2>1 DEF Height, t, o
<1>. QED
  BY <1>3, <1>4, <1>5, <1>8, <1>9 DEF b, c, o

\* run has returned.
LEMMA Forgets ==
  ASSUME Holds(Now, chunk), RunReturned
  PROVE  /\ IsMachine(vm') /\ Stack(vm') = Stack(vm)
         /\ vm'.stackTop = vm.stackTop /\ vm'.stack = vm.stack /\ vm'.stackCapacity = vm.stackCapacity
<1> DEFINE b == NULL
           c == FALSE
           o == 0
           v == Aimed(vm, c, b, o)
<1>1. IsMachine(vm)
  BY HoldsShared DEF Now
<1>2. vm' = vm \/ vm' = v
  BY DEF RunReturned, M!NoPointer, Aimed
<1> HIDE DEF b, c, o
<1>3. /\ IsMachine(v) /\ Stack(v) = Stack(vm)
      /\ v.stackTop = vm.stackTop /\ v.stack = vm.stack /\ v.stackCapacity = vm.stackCapacity
  BY <1>1, SetsIp
<1> HIDE DEF v
<1>. QED
  BY <1>1, <1>2, <1>3

\* freeVM
LEMMA FreesStack ==
  ASSUME Holds(Now, chunk), Exit
  PROVE  Holds(Now, chunk)' /\ vm'.stackCapacity = 0 /\ mem.wild' = mem.wild
<1> DEFINE t == Stack(vm)
           m == FREE_ARRAY(mem, t)
           first == [vm EXCEPT !.stack = NULL]
           second == [first EXCEPT !.stackTop = M!NoPointer]
           w == [second EXCEPT !.stackCapacity = 0]
           s == [mem |-> m, vm |-> w]
<1>1. /\ IsMachine(vm) /\ chunk = [code |-> chunk.code, lines |-> chunk.lines, constants |-> chunk.constants]
      /\ Shared(mem, chunk.code, chunk.lines, chunk.constants, Stack(vm))
  BY HoldsShared DEF Now
<1>2. mem' = m /\ vm' = w /\ chunk' = chunk
  <2>1. mem' = M!reallocate(mem, vm.stack, vm.stackCapacity, 0).mem
    BY DEF Exit, M!freeVM
  <2>2. vm' = [vm EXCEPT !.stack = NULL, !.stackTop = M!NoPointer, !.stackCapacity = 0]
    BY DEF Exit, M!freeVM
  <2>3. w = [vm EXCEPT !.stack = NULL, !.stackTop = M!NoPointer, !.stackCapacity = 0]
    BY Zenon
  <2>4. m = reallocate(mem, vm.stack, vm.stackCapacity, 0).mem
    BY DEF FREE_ARRAY, Stack
  <2> HIDE DEF m, w
  <2>. QED BY <2>1, <2>2, <2>3, <2>4, MachineMemory DEF Exit
<1>3. w = [chunk |-> vm.chunk, ip |-> vm.ip, stack |-> NULL, stackTop |-> M!NoPointer, stackCapacity |-> 0]
  <2>1. vm = [chunk |-> vm.chunk, ip |-> vm.ip, stack |-> vm.stack, stackTop |-> vm.stackTop,
              stackCapacity |-> vm.stackCapacity]
    BY <1>1 DEF IsMachine
  <2>2. first = [chunk |-> vm.chunk, ip |-> vm.ip, stack |-> NULL, stackTop |-> vm.stackTop,
                 stackCapacity |-> vm.stackCapacity]
    BY <2>1
  <2> HIDE DEF first
  <2>3. second = [chunk |-> vm.chunk, ip |-> vm.ip, stack |-> NULL, stackTop |-> M!NoPointer,
                  stackCapacity |-> vm.stackCapacity]
    BY <2>2
  <2> HIDE DEF second
  <2>. QED BY <2>3
<1> HIDE DEF w, t
<1>4. IsMachine(w) /\ Stack(w) = EmptyArray /\ w.stackCapacity = 0
  <2>1. vm.ip = M!Pointer(vm.ip.block, vm.ip.offset)
    BY <1>1 DEF IsMachine
  <2>. QED BY <1>3, <2>1 DEF IsMachine, Stack, EmptyArray, M!NoPointer, M!Pointer
<1>5. Shared(mem, t, chunk.lines, chunk.constants, chunk.code)
  BY <1>1, Reorders DEF t
<1>6. Shared(m, EmptyArray, chunk.lines, chunk.constants, chunk.code) /\ m.wild = mem.wild
  BY <1>5, Frees DEF OthersKeep
<1> HIDE DEF m
<1>7. Shared(m, chunk.code, chunk.lines, chunk.constants, Stack(w))
  BY <1>4, <1>6, Reorders
<1>8. Now' = s
  BY <1>2 DEF Now
<1>9. s = [mem |-> s.mem, vm |-> s.vm] /\ s.mem = m /\ s.vm = w
  OBVIOUS
<1> HIDE DEF s
<1>10. Holds(s, chunk)
  BY <1>1, <1>4, <1>7, <1>9, HoldsShared
<1>. QED
  BY <1>2, <1>4, <1>6, <1>8, <1>10

-----------------------------------------------------------------------------
(* What one instruction does *)

\* From the state now n bytes of code were fetched, and if they could be, with
\* from values on the stack and what else the instruction needs, then there are
\* to now and nothing was misused.
Fetchable(n) == \A i \in vm.ip.offset .. vm.ip.offset + n - 1 : Valid(mem, vm.ip.block, i)

Executes(n) ==
  /\ Holds(Now, chunk)'
  /\ vm'.chunk = vm.chunk /\ vm'.ip = M!Pointer(vm.ip.block, vm.ip.offset + n)
  /\ vm.stackCapacity \in Nat /\ vm'.stackCapacity \in Nat /\ vm'.stackCapacity >= vm.stackCapacity

LEMMA LoadsConstant ==
  ASSUME Holds(Now, chunk), NEW n \in Nat, NEW i, M!Becomes(M!Loading(M!Fetched(n), i)), chunk' = chunk
  PROVE  /\ Executes(n)
         /\ \A h : Height(vm, h) /\ Fetchable(n) /\ Valid(mem, M!PoolBlock, i)
                     => Height(vm', h + 1) /\ Respects(Now, Now', chunk)
<1> DEFINE s == M!Fetched(n)
           r == M!Loading(s, i)
<1>1. /\ Holds(s, chunk)
      /\ s.vm.chunk = vm.chunk /\ s.vm.ip = M!Pointer(vm.ip.block, vm.ip.offset + n)
      /\ s.vm.stack = vm.stack /\ s.vm.stackCapacity = vm.stackCapacity /\ s.vm.stackTop = vm.stackTop
      /\ s.mem.blocks = mem.blocks
      /\ Fetchable(n) => Respects(Now, s, chunk)
  BY Fetches DEF Fetchable
<1>2. mem' = r.mem /\ vm' = r.vm
  BY DEF M!Becomes
<1> HIDE DEF s
<1>3. /\ Holds(r, chunk)
      /\ r.vm.chunk = s.vm.chunk /\ r.vm.ip = s.vm.ip
      /\ s.vm.stackCapacity \in Nat /\ r.vm.stackCapacity \in Nat
      /\ r.vm.stackCapacity >= s.vm.stackCapacity
      /\ \A h : Height(s.vm, h) /\ Valid(s.mem, M!PoolBlock, i) => Height(r.vm, h + 1) /\ Respects(s, r, chunk)
  BY <1>1, Loads
<1> HIDE DEF r
<1>4. Now' = r
  BY <1>2, <1>3, BecomesHolds
<1>5. ASSUME NEW h, Height(vm, h), Fetchable(n), Valid(mem, M!PoolBlock, i)
      PROVE  Height(vm', h + 1) /\ Respects(Now, Now', chunk)
  <2>1. Height(s.vm, h)
    BY <1>1, <1>5 DEF Height
  <2>2. Valid(s.mem, M!PoolBlock, i)
    BY <1>1, <1>5 DEF Valid, Live
  <2>3. Height(r.vm, h + 1) /\ Respects(s, r, chunk)
    BY <1>3, <2>1, <2>2
  <2>4. Respects(Now, r, chunk)
    BY <1>1, <1>5, <2>3 DEF Respects
  <2>. QED BY <1>2, <1>4, <2>3, <2>4
<1>6. Executes(n)
  <2>1. Holds(Now, chunk)'
    BY <1>3, <1>4
  <2>. QED BY <1>1, <1>2, <1>3, <2>1 DEF Executes
<1>. QED
  BY <1>5, <1>6

\* Pops n values and pushes one.
LEMMA Computes ==
  ASSUME Holds(Now, chunk), NEW n \in Nat, NEW x, M!Becomes(M!push(M!pop(M!Fetched(1), n), x)), chunk' = chunk
  PROVE  /\ Executes(1)
         /\ \A h : Height(vm, h) /\ Fetchable(1) /\ n <= h
                     => Height(vm', h - n + 1) /\ Respects(Now, Now', chunk)
<1> DEFINE s == M!Fetched(1)
           t == M!pop(s, n)
           r == M!push(t, x)
<1>1. /\ Holds(s, chunk)
      /\ s.vm.chunk = vm.chunk /\ s.vm.ip = M!Pointer(vm.ip.block, vm.ip.offset + 1)
      /\ s.vm.stack = vm.stack /\ s.vm.stackCapacity = vm.stackCapacity /\ s.vm.stackTop = vm.stackTop
      /\ Fetchable(1) => Respects(Now, s, chunk)
  BY Fetches DEF Fetchable
<1>2. mem' = r.mem /\ vm' = r.vm
  BY DEF M!Becomes
<1> HIDE DEF s
<1>3. /\ Holds(t, chunk)
      /\ t.vm.chunk = s.vm.chunk /\ t.vm.ip = s.vm.ip
      /\ t.vm.stack = s.vm.stack /\ t.vm.stackCapacity = s.vm.stackCapacity
      /\ \A h : Height(s.vm, h) /\ n <= h => Height(t.vm, h - n) /\ Respects(s, t, chunk)
  BY <1>1, Pops
<1> HIDE DEF t
<1>4. /\ Holds(r, chunk)
      /\ r.vm.chunk = t.vm.chunk /\ r.vm.ip = t.vm.ip
      /\ t.vm.stackCapacity \in Nat /\ r.vm.stackCapacity \in Nat
      /\ r.vm.stackCapacity >= t.vm.stackCapacity
      /\ \A h : Height(t.vm, h) => Height(r.vm, h + 1) /\ Respects(t, r, chunk)
  BY <1>3, Pushes
<1> HIDE DEF r
<1>5. Now' = r
  BY <1>2, <1>4, BecomesHolds
<1>6. ASSUME NEW h, Height(vm, h), Fetchable(1), n <= h
      PROVE  Height(vm', h - n + 1) /\ Respects(Now, Now', chunk)
  <2>1. Height(s.vm, h)
    BY <1>1, <1>6 DEF Height
  <2>2. Height(t.vm, h - n) /\ Respects(s, t, chunk)
    BY <1>3, <1>6, <2>1
  <2> DEFINE k == h - n
  <2>3. Height(t.vm, k)
    BY <2>2
  <2> HIDE DEF k
  <2>4. Height(r.vm, k + 1) /\ Respects(t, r, chunk)
    BY <1>4, <2>3
  <2>5. Respects(Now, r, chunk)
    BY <1>1, <1>6, <2>2, <2>4 DEF Respects
  <2>. QED BY <1>2, <1>5, <2>4, <2>5 DEF k
<1>7. Executes(1)
  <2>1. Holds(Now, chunk)'
    BY <1>4, <1>5
  <2>. QED BY <1>1, <1>2, <1>3, <1>4, <2>1 DEF Executes
<1>. QED
  BY <1>6, <1>7

LEMMA Negates ==
  ASSUME Holds(Now, chunk), M!Negate
  PROVE  /\ Executes(1)
         /\ \A h : Height(vm, h) /\ Fetchable(1) /\ 1 <= h
                     => Height(vm', h) /\ Respects(Now, Now', chunk)
<1> DEFINE s == M!Fetched(1)
           x == <<"negate", M!Peek(s, 1)>>
           r == [s EXCEPT !.mem = M!Store(@, s.vm.stackTop.block, s.vm.stackTop.offset - 1, x)]
<1>1. /\ Holds(s, chunk)
      /\ s.vm.chunk = vm.chunk /\ s.vm.ip = M!Pointer(vm.ip.block, vm.ip.offset + 1)
      /\ s.vm.stack = vm.stack /\ s.vm.stackCapacity = vm.stackCapacity /\ s.vm.stackTop = vm.stackTop
      /\ Fetchable(1) => Respects(Now, s, chunk)
  BY Fetches DEF Fetchable
<1>2. mem' = r.mem /\ vm' = r.vm /\ chunk' = chunk
  BY DEF M!Negate, M!Becomes
<1> HIDE DEF s, x
<1>3. /\ Holds(r, chunk) /\ r.vm = s.vm
      /\ \A h : Height(s.vm, h) /\ 1 <= h => Respects(s, r, chunk)
  BY <1>1, Overwrites
<1> HIDE DEF r
<1>4. Now' = r
  BY <1>2, <1>3, BecomesHolds
<1>5. ASSUME NEW h, Height(vm, h), Fetchable(1), 1 <= h
      PROVE  Height(vm', h) /\ Respects(Now, Now', chunk)
  <2>1. Height(s.vm, h)
    BY <1>1, <1>5 DEF Height
  <2>2. Respects(Now, r, chunk)
    BY <1>1, <1>3, <1>5, <2>1 DEF Respects
  <2>. QED BY <1>2, <1>3, <1>4, <2>1, <2>2
<1>6. vm.stackCapacity \in Nat
  BY HoldsShared DEF Now, Shared, Fits, Stack
<1>7. Executes(1)
  <2>1. Holds(Now, chunk)'
    BY <1>2, <1>3, <1>4
  <2>. QED BY <1>1, <1>2, <1>3, <1>6, <2>1 DEF Executes
<1>. QED
  BY <1>5, <1>7

LEMMA Returns ==
  ASSUME Holds(Now, chunk), M!Return
  PROVE  /\ Executes(1)
         /\ \A h : Height(vm, h) /\ Fetchable(1) /\ 1 <= h
                     => Height(vm', h - 1) /\ Respects(Now, Now', chunk)
<1> DEFINE s == M!Fetched(1)
           r == M!pop(s, 1)
<1>1. /\ Holds(s, chunk)
      /\ s.vm.chunk = vm.chunk /\ s.vm.ip = M!Pointer(vm.ip.block, vm.ip.offset + 1)
      /\ s.vm.stack = vm.stack /\ s.vm.stackCapacity = vm.stackCapacity /\ s.vm.stackTop = vm.stackTop
      /\ Fetchable(1) => Respects(Now, s, chunk)
  BY Fetches DEF Fetchable
<1>2. mem' = r.mem /\ vm' = r.vm /\ chunk' = chunk
  BY DEF M!Return, M!Becomes
<1> HIDE DEF s
<1>3. /\ Holds(r, chunk)
      /\ r.vm.chunk = s.vm.chunk /\ r.vm.ip = s.vm.ip
      /\ r.vm.stack = s.vm.stack /\ r.vm.stackCapacity = s.vm.stackCapacity
      /\ \A h : Height(s.vm, h) /\ 1 <= h => Height(r.vm, h - 1) /\ Respects(s, r, chunk)
  BY <1>1, Pops
<1> HIDE DEF r
<1>4. Now' = r
  BY <1>2, <1>3, BecomesHolds
<1>5. ASSUME NEW h, Height(vm, h), Fetchable(1), 1 <= h
      PROVE  Height(vm', h - 1) /\ Respects(Now, Now', chunk)
  <2>1. Height(s.vm, h)
    BY <1>1, <1>5 DEF Height
  <2>2. Height(r.vm, h - 1) /\ Respects(s, r, chunk)
    BY <1>3, <1>5, <2>1
  <2>3. Respects(Now, r, chunk)
    BY <1>1, <1>5, <2>2 DEF Respects
  <2>. QED BY <1>2, <1>4, <2>2, <2>3
<1>6. vm.stackCapacity \in Nat
  BY HoldsShared DEF Now, Shared, Fits, Stack
<1>7. Executes(1)
  <2>1. Holds(Now, chunk)'
    BY <1>2, <1>3, <1>4
  <2>. QED BY <1>1, <1>2, <1>3, <1>6, <2>1 DEF Executes
<1>. QED
  BY <1>5, <1>7

LEMMA Refuses ==
  ASSUME Holds(Now, chunk), M!UnknownOpcode
  PROVE  /\ Executes(1)
         /\ \A h : Height(vm, h) /\ Fetchable(1) => Height(vm', h) /\ Respects(Now, Now', chunk)
<1> DEFINE s == M!Fetched(1)
<1>1. /\ Holds(s, chunk)
      /\ s.vm.chunk = vm.chunk /\ s.vm.ip = M!Pointer(vm.ip.block, vm.ip.offset + 1)
      /\ s.vm.stack = vm.stack /\ s.vm.stackCapacity = vm.stackCapacity /\ s.vm.stackTop = vm.stackTop
      /\ Fetchable(1) => Respects(Now, s, chunk)
  BY Fetches DEF Fetchable
<1>2. mem' = s.mem /\ vm' = s.vm /\ chunk' = chunk
  BY DEF M!UnknownOpcode, M!Becomes
<1> HIDE DEF s
<1>3. Now' = s
  BY <1>1, <1>2, BecomesHolds
<1>4. vm.stackCapacity \in Nat
  BY HoldsShared DEF Now, Shared, Fits, Stack
<1>5. Executes(1)
  <2>1. Holds(Now, chunk)'
    BY <1>1, <1>2, <1>3
  <2>. QED BY <1>1, <1>2, <1>4, <2>1 DEF Executes
<1>6. ASSUME NEW h, Height(vm, h), Fetchable(1)
      PROVE  Height(vm', h) /\ Respects(Now, Now', chunk)
  BY <1>1, <1>2, <1>3, <1>6 DEF Height
<1>. QED
  BY <1>5, <1>6

\* Whatever the instruction.
LEMMA RunExecutes ==
  ASSUME Holds(Now, chunk), M!run
  PROVE  \E n : Executes(n) /\ chunk' = chunk
<1>1. CASE M!Constant
  BY <1>1, LoadsConstant DEF M!Constant
<1>2. CASE M!ConstantLong
  <2> DEFINE i == M!wideOperand(M!ByteAt(1), M!ByteAt(2), M!ByteAt(3))
  <2>1. M!Becomes(M!Loading(M!Fetched(4), i)) /\ chunk' = chunk
    BY <1>2 DEF M!ConstantLong
  <2> HIDE DEF i
  <2>. QED BY <2>1, LoadsConstant
<1>3. CASE M!Binary
  <2> DEFINE x == <<M!Symbol(M!ByteAt(0)), M!Peek(M!Fetched(1), 2), M!Peek(M!Fetched(1), 1)>>
  <2>1. M!Becomes(M!push(M!pop(M!Fetched(1), 2), x)) /\ chunk' = chunk
    BY <1>3 DEF M!Binary
  <2> HIDE DEF x
  <2>. QED BY <2>1, Computes
<1>4. CASE M!Negate
  BY <1>4, Negates DEF M!Negate
<1>5. CASE M!Return
  BY <1>5, Returns DEF M!Return
<1>6. CASE M!UnknownOpcode
  BY <1>6, Refuses DEF M!UnknownOpcode
<1>. QED
  BY <1>1, <1>2, <1>3, <1>4, <1>5, <1>6 DEF M!run

-----------------------------------------------------------------------------
(* Nothing leaks *)

LEMMA InitKept == Init => Kept
BY InitVM DEF Init, Kept

LEMMA StepKept == Kept /\ [Next]_vars => Kept'
<1> SUFFICES ASSUME Kept, [Next]_vars PROVE Kept'
  OBVIOUS
<1>1. Holds(Now, chunk)
  BY DEF Kept
<1>2. CASE Input
  <2>1. mem' = mem /\ vm' = vm /\ chunk' = emptyChunk /\ doing' \in {"interpret", "dump", "build"}
    BY <1>2 DEF Input, Run, BuildByHand
  <2>2. chunk = emptyChunk /\ doing # "exited"
    BY <1>2 DEF Input, Idle, Kept
  <2>. QED BY <1>1, <2>1, <2>2 DEF Kept, Now
<1>3. CASE CompileStep
  <2>1. C!Next /\ vm' = vm /\ doing' = doing /\ doing \in {"interpret", "dump"}
    BY <1>3 DEF CompileStep, Compiling
  <2>2. Holds(Now, chunk)'
    BY <1>1, <2>1, CompilerWrites, WritesHold
  <2>. QED BY <2>1, <2>2 DEF Kept
<1>4. CASE NotRun
  <2>1. DropChunk /\ vm' = vm /\ doing' = "nothing" /\ doing # "exited"
    BY <1>4 DEF NotRun, Compiled
  <2>2. IsMachine(vm') /\ Stack(vm') = Stack(vm)
    BY <1>1, <2>1, HoldsShared DEF Now
  <2>3. Holds(Now, chunk)' /\ chunk' = emptyChunk
    BY <1>1, <2>1, <2>2, Drops
  <2>. QED BY <2>1, <2>3 DEF Kept
<1>5. CASE InterpretChunk \/ RunByHand
  <2>1. vm' = M!interpretChunk(vm, chunk) /\ UNCHANGED <<mem, chunk>> /\ doing' \in {"run", "run by hand"}
        /\ doing # "exited"
    BY <1>5 DEF InterpretChunk, RunByHand, Compiled
  <2>2. Holds(Now, chunk)' /\ vm'.stackCapacity = vm.stackCapacity
    BY <1>1, <2>1, Interprets
  <2>. QED BY <2>1, <2>2 DEF Kept
<1>6. CASE WriteByHand
  <2>1. vm' = vm /\ doing' = doing /\ doing = "build"
    BY <1>6 DEF WriteByHand, vmVars
  <2> DEFINE now == [mem |-> mem, chunk |-> chunk]
  <2>2. \/ \E byte, line : LET s == writeChunk(now, byte, line) IN mem' = s.mem /\ chunk' = s.chunk
        \/ \E value, line : LET s == writeConstant(now, value, line) IN mem' = s.mem /\ chunk' = s.chunk
    <3>1. CASE Head(unwritten).opcode = OP_CONSTANT
      BY <1>6, <3>1, Zenon DEF WriteByHand
    <3>2. CASE Head(unwritten).opcode # OP_CONSTANT
      BY <1>6, <3>2, Zenon DEF WriteByHand
    <3>. QED BY <3>1, <3>2
  <2>3. Holds(Now, chunk)'
    BY <1>1, <2>1, <2>2, WritesHold
  <2>. QED BY <2>1, <2>3 DEF Kept
<1>7. CASE RunStep
  <2>1. M!run /\ doing' = doing /\ doing \in {"run", "run by hand"}
    BY <1>7 DEF RunStep, Executing
  <2>2. PICK n : Executes(n)
    BY <1>1, <2>1, RunExecutes
  <2>3. vm'.stackCapacity > 0
    <3> DEFINE old == vm.stackCapacity
               new == vm'.stackCapacity
    <3>1. old > 0
      BY <2>1 DEF Kept
    <3>2. old \in Nat /\ new \in Nat /\ new >= old
      BY <2>2 DEF Executes
    <3> HIDE DEF old, new
    <3>3. new > 0
      BY <3>1, <3>2
    <3>. QED BY <3>3 DEF new
  <2>. QED BY <2>1, <2>2, <2>3 DEF Executes, Kept
<1>8. CASE RunReturned
  <2>1. DropChunk /\ doing' = "nothing" /\ doing # "exited"
    BY <1>8 DEF RunReturned
  <2>2. IsMachine(vm') /\ Stack(vm') = Stack(vm) /\ vm'.stackCapacity = vm.stackCapacity
    BY <1>1, <1>8, Forgets
  <2>3. Holds(Now, chunk)' /\ chunk' = emptyChunk
    BY <1>1, <2>1, <2>2, Drops
  <2>. QED BY <2>1, <2>2, <2>3 DEF Kept
<1>9. CASE Exit
  <2>1. doing' = "exited" /\ chunk' = chunk /\ chunk = emptyChunk
    BY <1>9 DEF Exit, Idle, Kept
  <2>2. Holds(Now, chunk)' /\ vm'.stackCapacity = 0
    BY <1>1, <1>9, FreesStack
  <2>. QED BY <2>1, <2>2 DEF Kept
<1>10. CASE UNCHANGED vars
  BY <1>10 DEF vars, Kept, Now
<1>. QED
  BY <1>2, <1>3, <1>4, <1>5, <1>6, <1>7, <1>8, <1>9, <1>10 DEF Next, Proceed, Exited

LEMMA AlwaysKept == Spec => []Kept
<1>. QED
  BY InitKept, StepKept, PTL DEF Spec

\* Between inputs only the stack is live, and at exit nothing: for every text,
\* well formed or not, every chunk built by hand, every growth of the stack and
\* whatever is run, through dangling pointers or not; and the sizes claimed
\* along the way add up to the sizes live.
THEOREM FreesWhatItTakes == Spec => []NothingLeaks
<1>. QED
  BY AlwaysKept, KeptLeaksNothing, PTL
-----------------------------------------------------------------------------
(* The compiler's errors *)

\* A parser in panic has reported an error, and one error only.
IsParser(p) ==
  /\ p = [current |-> p.current, previous |-> p.previous, next |-> p.next,
          hadError |-> p.hadError, panicMode |-> p.panicMode, messages |-> p.messages]
  /\ p.hadError \in BOOLEAN /\ p.panicMode = p.hadError
  /\ IsSequence(p.messages) /\ Len(p.messages) = IF p.hadError THEN 1 ELSE 0

LEMMA ErrorAt ==
  ASSUME NEW p, IsParser(p), NEW token, NEW message
  PROVE  LET r == C!errorAt(p, token, message)
         IN IsParser(r) /\ r.hadError /\ r.previous = p.previous /\ r.current = p.current
<1> DEFINE r == C!errorAt(p, token, message)
           yes == TRUE
           text == Append(p.messages, [at |-> token.at, text |-> message])
           first == [p EXCEPT !.panicMode = yes]
           second == [first EXCEPT !.hadError = yes]
           third == [second EXCEPT !.messages = text]
<1>1. p = [current |-> p.current, previous |-> p.previous, next |-> p.next,
           hadError |-> p.hadError, panicMode |-> p.panicMode, messages |-> p.messages]
  BY DEF IsParser
<1>2. CASE p.panicMode
  BY <1>2 DEF IsParser, C!errorAt
<1>3. CASE ~p.panicMode
  <2>1. r = [p EXCEPT !.panicMode = TRUE, !.hadError = TRUE,
                      !.messages = Append(@, [at |-> token.at, text |-> message])]
    BY <1>3, Zenon DEF C!errorAt
  <2>2. r = [second EXCEPT !.messages = Append(@, [at |-> token.at, text |-> message])]
    BY <2>1, Zenon
  <2> HIDE DEF yes, r
  <2>3. first = [current |-> p.current, previous |-> p.previous, next |-> p.next,
                 hadError |-> p.hadError, panicMode |-> yes, messages |-> p.messages]
    BY <1>1
  <2> HIDE DEF first
  <2>4. second = [current |-> p.current, previous |-> p.previous, next |-> p.next,
                  hadError |-> yes, panicMode |-> yes, messages |-> p.messages]
    BY <2>3
  <2>5. second.messages = p.messages
    BY <2>4
  <2> HIDE DEF second
  <2>6. r = third
    BY <2>2, <2>5
  <2> HIDE DEF text
  <2>7. third = [current |-> p.current, previous |-> p.previous, next |-> p.next,
                 hadError |-> yes, panicMode |-> yes, messages |-> text]
    BY <2>4
  <2> HIDE DEF third
  <2>8. yes \in BOOLEAN /\ yes = TRUE
    BY DEF yes
  <2>9. r.hadError = yes /\ r.panicMode = yes /\ r.previous = p.previous /\ r.current = p.current
    BY <2>6, <2>7
  <2>10. r = [current |-> r.current, previous |-> r.previous, next |-> r.next,
              hadError |-> r.hadError, panicMode |-> r.panicMode, messages |-> r.messages]
    BY <2>6, <2>7
  <2>11. r.messages = text /\ IsSequence(text) /\ Len(text) = 1
    <3>1. IsSequence(p.messages) /\ Len(p.messages) = 0
      BY <1>3 DEF IsParser
    <3>2. IsSequence(text) /\ Len(text) = Len(p.messages) + 1
      BY <3>1, Appended DEF text
    <3>. QED BY <2>6, <2>7, <3>1, <3>2
  <2>12. IsParser(r)
    BY <2>8, <2>9, <2>10, <2>11 DEF IsParser
  <2>. QED BY <2>8, <2>9, <2>12 DEF r
<1>. QED
  BY <1>2, <1>3

LEMMA Advance ==
  ASSUME NEW p, IsParser(p)
  PROVE  LET r == C!advance(p)
         IN IsParser(r) /\ r.previous = p.current /\ (p.hadError => r.hadError)
<1> DEFINE good == CHOOSE i \in p.next .. Len(source) + 1 :
                     /\ C!Token(i).type # "error"
                     /\ \A j \in p.next .. i - 1 : C!Token(j).type = "error"
           token == C!Token(good)
           next == IF good > Len(source) THEN good ELSE good + 1
           first == [p EXCEPT !.previous = p.current]
           second == [first EXCEPT !.current = token]
           moved == [second EXCEPT !.next = next]
           r == C!advance(p)
<1>1. p = [current |-> p.current, previous |-> p.previous, next |-> p.next,
           hadError |-> p.hadError, panicMode |-> p.panicMode, messages |-> p.messages]
  BY DEF IsParser
<1>2. r = IF good > p.next THEN C!errorAt(moved, C!Token(p.next), "scanner") ELSE moved
  BY Zenon DEF C!advance
<1> HIDE DEF good, token, next, r
<1>3. first = [current |-> p.current, previous |-> p.current, next |-> p.next,
               hadError |-> p.hadError, panicMode |-> p.panicMode, messages |-> p.messages]
  BY <1>1
<1> HIDE DEF first
<1>4. second = [current |-> token, previous |-> p.current, next |-> p.next,
                hadError |-> p.hadError, panicMode |-> p.panicMode, messages |-> p.messages]
  BY <1>3
<1> HIDE DEF second
<1>5. moved = [current |-> token, previous |-> p.current, next |-> next,
               hadError |-> p.hadError, panicMode |-> p.panicMode, messages |-> p.messages]
  BY <1>4
<1> HIDE DEF moved
<1>6. IsParser(moved) /\ moved.previous = p.current /\ moved.hadError = p.hadError
  BY <1>5 DEF IsParser
<1>7. LET e == C!errorAt(moved, C!Token(p.next), "scanner")
      IN IsParser(e) /\ e.hadError /\ e.previous = p.current
  BY <1>6, ErrorAt
<1>8. CASE good > p.next
  <2> DEFINE e == C!errorAt(moved, C!Token(p.next), "scanner")
  <2>1. r = e
    BY <1>2, <1>8
  <2>2. IsParser(e) /\ e.hadError /\ e.previous = p.current
    BY <1>7
  <2> HIDE DEF e
  <2>. QED BY <2>1, <2>2 DEF r
<1>9. CASE ~ good > p.next
  <2>1. r = moved
    BY <1>2, <1>9
  <2>. QED BY <2>1, <1>6 DEF r
<1>. QED
  BY <1>8, <1>9

LEMMA Consume ==
  ASSUME NEW p, IsParser(p), NEW type, NEW message
  PROVE  LET r == C!consume(p, type, message)
         IN IsParser(r) /\ (p.hadError => r.hadError)
<1>1. CASE p.current.type = type
  <2>1. C!consume(p, type, message) = C!advance(p)
    BY <1>1 DEF C!consume
  <2>. QED BY <2>1, Advance
<1>2. CASE p.current.type # type
  <2>1. C!consume(p, type, message) = C!errorAt(p, p.current, message)
    BY <1>2 DEF C!consume
  <2>. QED BY <2>1, ErrorAt
<1>. QED
  BY <1>1, <1>2

-----------------------------------------------------------------------------
(* The compiler's calls *)

\* A call that starts with g values on the stack ends with h.  The rule of ?:
\* is called with a condition, and nothing is emitted after its error.
Takes(call, g, h) ==
  /\ g \in Nat /\ h \in Nat
  /\ call.name \in {"parsePrecedence", "infix", "grouping", "unary", "binary", "then", "else"}
  /\ call.name \in {"parsePrecedence", "infix"} => call.argument \in Nat \ {0}
  /\ call.name = "parsePrecedence" => h = g + 1
  /\ call.name \in {"infix", "grouping", "unary"} => g >= 1 /\ h = g
  /\ call.name = "binary" => call.argument \in DOMAIN C!Opcode /\ g >= 2 /\ h = g - 1
  /\ call.name = "then" => g >= 2 /\ h = g - 1
  /\ call.name = "else" => g >= 3 /\ h = g - 2

\* The calls still running, the first with h values on the stack.
Calls(f, h) ==
  /\ IsSequence(f) /\ Len(f) >= 1
  /\ \E g \in [1 .. Len(f) -> Nat] :
       /\ g[1] = h
       /\ \A i \in 1 .. Len(f) - 1 : Takes(f[i], g[i], g[i + 1])
       /\ \/ f[Len(f)].name = "compile" /\ g[Len(f)] = 0
          \/ f[Len(f)].name = "endCompiler" /\ g[Len(f)] = 1

LEMMA CallsLast ==
  ASSUME NEW call, NEW h, (call.name = "compile" /\ h = 0) \/ (call.name = "endCompiler" /\ h = 1)
  PROVE  Calls(<<call>>, h)
<1> DEFINE f == <<call>>
           g == [i \in 1 .. 1 |-> h]
<1>1. f \in Seq({call}) /\ Len(f) = 1 /\ f[1] = call
  OBVIOUS
<1>2. g \in [1 .. 1 -> Nat] /\ g[1] = h
  OBVIOUS
<1> HIDE DEF f, g
<1>3. \A i \in 1 .. 1 - 1 : FALSE
  OBVIOUS
<1>4. Calls(f, h)
  BY <1>1, <1>2, <1>3 DEF Calls, IsSequence
<1>. QED
  BY <1>4 DEF f

LEMMA CallsMore ==
  ASSUME NEW f, NEW h, Calls(f, h), NEW call, NEW k, Takes(call, k, h)
  PROVE  Calls(<<call>> \o f, k)
<1> DEFINE n == Len(f)
           r == <<call>> \o f
<1>1. PICK S : f \in Seq(S)
  BY DEF Calls, IsSequence
<1>2. PICK g \in [1 .. n -> Nat] :
             /\ g[1] = h
             /\ \A i \in 1 .. n - 1 : Takes(f[i], g[i], g[i + 1])
             /\ \/ f[n].name = "compile" /\ g[n] = 0
                \/ f[n].name = "endCompiler" /\ g[n] = 1
  BY DEF Calls
<1>3. n \in Nat /\ n >= 1
  BY <1>1 DEF Calls
<1>4. r \in Seq(S \cup {call}) /\ Len(r) = n + 1 /\ r[1] = call /\ \A i \in 1 .. n : r[i + 1] = f[i]
  BY <1>1
<1> DEFINE e == [i \in 1 .. n + 1 |-> IF i = 1 THEN k ELSE g[i - 1]]
<1> HIDE DEF r, n
<1>5. e \in [1 .. n + 1 -> Nat]
  BY <1>2, <1>3 DEF Takes
<1>6. e[1] = k /\ \A i \in 1 .. n : e[i + 1] = g[i]
  BY <1>3
<1> HIDE DEF e
<1>7. ASSUME NEW i \in 1 .. (n + 1) - 1
      PROVE  Takes(r[i], e[i], e[i + 1])
  <2>1. CASE i = 1
    <3>1. e[2] = h
      BY <1>2, <1>3, <1>6
    <3>. QED BY <2>1, <3>1, <1>4, <1>6
  <2>2. CASE i # 1
    <3> DEFINE j == i - 1
    <3>1. j \in 1 .. n - 1 /\ j \in 1 .. n /\ j + 1 \in 1 .. n /\ i = j + 1
      BY <1>3, <2>2
    <3>2. Takes(f[j], g[j], g[j + 1])
      BY <1>2, <3>1
    <3> HIDE DEF j
    <3>3. r[j + 1] = f[j] /\ e[j + 1] = g[j] /\ e[(j + 1) + 1] = g[j + 1]
      BY <1>4, <1>6, <3>1
    <3>. QED BY <3>1, <3>2, <3>3
  <2>. QED BY <2>1, <2>2
<1>8. r[n + 1] = f[n] /\ e[n + 1] = g[n]
  BY <1>3, <1>4, <1>6
<1>9. IsSequence(r) /\ Len(r) = n + 1 /\ n + 1 >= 1
  BY <1>3, <1>4 DEF IsSequence
<1>10. Calls(r, k)
  BY <1>2, <1>5, <1>6, <1>7, <1>8, <1>9 DEF Calls
<1>. QED
  BY <1>10 DEF r

LEMMA CallsTop ==
  ASSUME NEW f, NEW h, Calls(f, h)
  PROVE  /\ f # <<>> /\ h \in Nat
         /\ \/ f[1].name = "compile" /\ h = 0 /\ Tail(f) = <<>>
            \/ f[1].name = "endCompiler" /\ h = 1 /\ Tail(f) = <<>>
            \/ \E k : Takes(f[1], h, k) /\ Calls(Tail(f), k)
<1> DEFINE n == Len(f)
           r == Tail(f)
<1>1. PICK S : f \in Seq(S)
  BY DEF Calls, IsSequence
<1>2. PICK g \in [1 .. n -> Nat] :
             /\ g[1] = h
             /\ \A i \in 1 .. n - 1 : Takes(f[i], g[i], g[i + 1])
             /\ \/ f[n].name = "compile" /\ g[n] = 0
                \/ f[n].name = "endCompiler" /\ g[n] = 1
  BY DEF Calls
<1>3. n \in Nat /\ n >= 1
  BY <1>1 DEF Calls
<1>4. f # <<>> /\ h \in Nat
  BY <1>1, <1>2, <1>3
<1>5. r \in Seq(S) /\ Len(r) = n - 1 /\ \A i \in 1 .. n - 1 : r[i] = f[i + 1]
  BY <1>1, <1>4
<1>6. CASE n = 1
  <2>1. r = <<>>
    <3> HIDE DEF r, n
    <3>1. Len(r) = 0
      BY <1>5, <1>6
    <3>. QED BY <1>5, <3>1, EmptySeq
  <2>. QED BY <1>2, <1>4, <1>6, <2>1
<1>7. CASE n # 1
  <2>1. n - 1 >= 1 /\ 1 \in 1 .. n - 1
    <3> HIDE DEF n
    <3>. QED BY <1>3, <1>7
  <2>2. Takes(f[1], h, g[2])
    BY <1>2, <2>1
  <2> DEFINE e == [i \in 1 .. n - 1 |-> g[i + 1]]
  <2> HIDE DEF r, n
  <2>3. e \in [1 .. n - 1 -> Nat] /\ e[1] = g[2]
    BY <1>2, <1>3, <2>1
  <2>4. \A i \in 1 .. n - 1 : e[i] = g[i + 1]
    OBVIOUS
  <2> HIDE DEF e
  <2>5. ASSUME NEW i \in 1 .. (n - 1) - 1
        PROVE  Takes(r[i], e[i], e[i + 1])
    <3> DEFINE j == i + 1
    <3>1. j \in 1 .. n - 1 /\ i \in 1 .. n - 1 /\ j = i + 1
      BY <1>3
    <3>2. Takes(f[j], g[j], g[j + 1])
      BY <1>2, <3>1
    <3> HIDE DEF j
    <3>3. r[i] = f[j] /\ e[i] = g[j] /\ e[j] = g[j + 1]
      BY <1>5, <2>4, <3>1
    <3>. QED BY <3>1, <3>2, <3>3
  <2>6. r[n - 1] = f[n] /\ e[n - 1] = g[n]
    BY <1>3, <1>5, <2>1, <2>4
  <2>7. IsSequence(r)
    BY <1>5 DEF IsSequence
  <2>8. Calls(r, g[2])
    BY <1>2, <1>5, <2>1, <2>3, <2>5, <2>6, <2>7 DEF Calls
  <2>. QED BY <1>4, <2>2, <2>8 DEF r
<1>. QED
  BY <1>6, <1>7

\* A sequence of two, and of three, taken apart.
LEMMA Consecutive ==
  ASSUME NEW a, NEW b
  PROVE  <<a, b>> = <<a>> \o <<b>>
<1> DEFINE T == {a, b}
<1>3. ASSUME NEW x \in T, NEW y \in T
      PROVE  <<x, y>> = <<x>> \o <<y>>
  <2> DEFINE r == <<x>> \o <<y>>
             s == <<x, y>>
  <2>1. <<x>> \in Seq(T) /\ <<y>> \in Seq(T) /\ s \in Seq(T)
    BY <1>3
  <2>2. /\ Len(<<x>>) = 1 /\ Len(<<y>>) = 1 /\ <<x>>[1] = x /\ <<y>>[1] = y
        /\ Len(s) = 2 /\ s[1] = x /\ s[2] = y
    OBVIOUS
  <2>3. /\ r \in Seq(T) /\ Len(r) = Len(<<x>>) + Len(<<y>>)
        /\ \A i \in 1 .. Len(<<x>>) + Len(<<y>>) : r[i] = IF i <= Len(<<x>>) THEN <<x>>[i] ELSE <<y>>[i - Len(<<x>>)]
    BY <2>1, ConcatProperties
  <2> HIDE DEF r, s
  <2>4. Len(r) = 2 /\ r[1] = x /\ r[2] = y
    BY <2>2, <2>3
  <2>5. \A i \in 1 .. Len(s) : s[i] = r[i]
    BY <2>2, <2>4
  <2>6. s = r
    BY <2>1, <2>2, <2>3, <2>4, <2>5, SeqEqual
  <2>. QED BY <2>6 DEF r, s
<1>. QED
  BY <1>3 DEF T

LEMMA ThreeConsecutive ==
  ASSUME NEW a, NEW b, NEW c
  PROVE  <<a, b, c>> = <<a>> \o (<<b>> \o <<c>>)
<1> DEFINE T == {a, b, c}
<1>3. <<b, c>> = <<b>> \o <<c>>
  BY Consecutive
<1>4. <<a, b, c>> = <<a>> \o (<<b>> \o <<c>>)
  <2> DEFINE r == <<a>> \o <<b, c>>
             s == <<a, b, c>>
  <2>1. <<a>> \in Seq(T) /\ <<b, c>> \in Seq(T) /\ s \in Seq(T)
    OBVIOUS
  <2>2. /\ Len(<<a>>) = 1 /\ Len(<<b, c>>) = 2 /\ <<a>>[1] = a /\ <<b, c>>[1] = b /\ <<b, c>>[2] = c
        /\ Len(s) = 3 /\ s[1] = a /\ s[2] = b /\ s[3] = c
    OBVIOUS
  <2>3. /\ r \in Seq(T) /\ Len(r) = Len(<<a>>) + Len(<<b, c>>)
        /\ \A i \in 1 .. Len(<<a>>) + Len(<<b, c>>) : r[i] = IF i <= Len(<<a>>) THEN <<a>>[i] ELSE <<b, c>>[i - Len(<<a>>)]
    BY <2>1, ConcatProperties
  <2> HIDE DEF r, s
  <2>4. Len(r) = 3 /\ r[1] = a /\ r[2] = b /\ r[3] = c
    BY <2>2, <2>3
  <2>5. \A i \in 1 .. Len(s) : s[i] = r[i]
    BY <2>2, <2>4
  <2>6. s = r
    BY <2>1, <2>2, <2>3, <2>4, <2>5, SeqEqual
  <2>. QED BY <1>3, <2>6 DEF r, s
<1>. QED
  BY <1>4

\* Two calls, and three, on top of others.
LEMMA TwoCalls ==
  ASSUME NEW f, IsSequence(f), NEW a, NEW b
  PROVE  <<a, b>> \o f = <<a>> \o (<<b>> \o f)
<1>1. PICK S : f \in Seq(S)
  BY DEF IsSequence
<1> DEFINE T == S \cup {a, b}
<1>2. f \in Seq(T) /\ <<a>> \in Seq(T) /\ <<b>> \in Seq(T)
  BY <1>1
<1> HIDE DEF T
<1>3. <<a, b>> = <<a>> \o <<b>>
  BY Consecutive
<1>. QED
  BY <1>2, <1>3, ConcatAssociative

LEMMA ThreeCalls ==
  ASSUME NEW f, IsSequence(f), NEW a, NEW b, NEW c
  PROVE  <<a, b, c>> \o f = <<a>> \o (<<b>> \o (<<c>> \o f))
<1>1. PICK S : f \in Seq(S)
  BY DEF IsSequence
<1> DEFINE T == S \cup {a, b, c}
<1>2. f \in Seq(T) /\ <<a>> \in Seq(T) /\ <<b>> \in Seq(T) /\ <<c>> \in Seq(T)
  BY <1>1
<1> HIDE DEF T
<1>3. <<b>> \o <<c>> \in Seq(T)
  BY <1>2, ConcatProperties
<1>4. <<a, b, c>> = <<a>> \o (<<b>> \o <<c>>)
  BY ThreeConsecutive
<1>5. <<a, b, c>> \o f = <<a>> \o ((<<b>> \o <<c>>) \o f)
  BY <1>2, <1>3, <1>4, ConcatAssociative
<1>6. (<<b>> \o <<c>>) \o f = <<b>> \o (<<c>> \o f)
  BY <1>2, ConcatAssociative
<1>. QED
  BY <1>5, <1>6
-----------------------------------------------------------------------------
(* What the compiler emits *)

Bytes == Contents(mem, chunk.code)
Pool  == chunk.constants.count

LEMMA BytesSequence ==
  ASSUME Holds(Now, chunk)
  PROVE  IsSequence(Bytes) /\ Len(Bytes) = chunk.code.count /\ chunk.code.count \in Nat /\ Pool \in Nat
<1>1. Shared(mem, chunk.code, chunk.lines, chunk.constants, Stack(vm))
  BY HoldsShared DEF Now
<1>2. chunk.code.count \in Nat /\ Pool \in Nat
  BY <1>1 DEF Shared, Fits, Pool
<1>. QED
  BY <1>2, ContentsSequence DEF Bytes

\* A byte written to the chunk.
LEMMA EmitsByte ==
  ASSUME Holds(Now, chunk), NEW byte, NEW line,
         mem' = writeChunk([mem |-> mem, chunk |-> chunk], byte, line).mem,
         chunk' = writeChunk([mem |-> mem, chunk |-> chunk], byte, line).chunk
  PROVE  Bytes' = Append(Bytes, byte) /\ Pool' = Pool
<1> DEFINE now == [mem |-> mem, chunk |-> chunk]
           d == Stack(vm)
           s == writeChunk(now, byte, line)
<1>1. Owns(now, d) /\ now.mem = mem /\ now.chunk = chunk
  BY DEF Holds, Now
<1>2. mem' = s.mem /\ chunk' = s.chunk
  OBVIOUS
<1> HIDE DEF now, d
<1>3. Code(s) = Append(Code(now), byte) /\ s.chunk.constants = now.chunk.constants
  BY <1>1, WritesChunk
<1> HIDE DEF s
<1>. QED
  BY <1>1, <1>2, <1>3 DEF Code, Bytes, Pool

\* A constant written to the chunk.
LEMMA EmitsConstant ==
  ASSUME Holds(Now, chunk), NEW value, NEW line, ~PoolFull([mem |-> mem, chunk |-> chunk]),
         mem' = writeConstant([mem |-> mem, chunk |-> chunk], value, line).mem,
         chunk' = writeConstant([mem |-> mem, chunk |-> chunk], value, line).chunk
  PROVE  Bytes' = LoadBytes(Bytes, Pool) /\ Pool' = Pool + 1
<1> DEFINE now == [mem |-> mem, chunk |-> chunk]
           d == Stack(vm)
           s == writeConstant(now, value, line)
<1>1. Owns(now, d) /\ now.mem = mem /\ now.chunk = chunk /\ ~PoolFull(now)
  BY DEF Holds, Now
<1>2. mem' = s.mem /\ chunk' = s.chunk
  OBVIOUS
<1> HIDE DEF now, d
<1>3. Code(s) = LoadBytes(Code(now), now.chunk.constants.count)
      /\ s.chunk.constants.count = now.chunk.constants.count + 1
  BY <1>1, WritesConstant
<1> HIDE DEF s
<1>. QED
  BY <1>1, <1>2, <1>3 DEF Code, Bytes, Pool

\* A constant fits three bytes, or the pool is full.
LEMMA PoolRoom ==
  ASSUME Pool \in Nat
  PROVE  PoolFull([mem |-> mem, chunk |-> chunk]) <=> ~ Pool < ByteSize * ByteSize * ByteSize
<1> DEFINE bound == ByteSize * ByteSize * ByteSize
           s == [mem |-> mem, chunk |-> chunk]
<1>1. bound \in Nat
  BY ByteSizeAssumption
<1>2. PoolFull(s) <=> s.chunk.constants.count > bound - 1
  BY DEF PoolFull
<1>3. s.chunk.constants.count = Pool
  BY DEF Pool
<1> HIDE DEF bound, s
<1>4. PoolFull(s) <=> ~ Pool < bound
  BY <1>1, <1>2, <1>3
<1>. QED
  BY <1>4 DEF bound, s

-----------------------------------------------------------------------------
(* What compiles is a program *)

\* Without an error so far, the code is a program as far as it goes, with the
\* values on the stack that the calls still running expect.
Compiles ==
  /\ IsParser(parser)
  /\ doing \in {"interpret", "dump"} /\ ~parser.hadError =>
       IF frames = <<>> THEN Closed(Bytes, Pool)
       ELSE \E h : Calls(frames, h) /\ Open(Bytes, Pool, h)

LEMMA StillCompiles ==
  ASSUME IsParser(parser'),
         parser'.hadError \/ \E h : Calls(frames', h) /\ Open(Bytes', Pool', h)
  PROVE  Compiles'
<1>1. (\E h : Calls(frames', h) /\ Open(Bytes', Pool', h)) => frames' # <<>>
  BY CallsTop
<1>. QED
  BY <1>1 DEF Compiles

LEMMA CompileCompiles ==
  ASSUME IsParser(parser), NEW h, Calls(frames, h), Open(Bytes, Pool, h), C!Compile
  PROVE  Compiles'
<1>1. frames[1].name = "compile" /\ frames' = <<C!expression, C!Call("endCompiler", 0)>>
      /\ parser' = C!advance(parser) /\ mem' = mem /\ chunk' = chunk
  BY DEF C!Compile, C!Running, C!Top
<1>2. IsParser(parser')
  BY <1>1, Advance
<1>3. h = 0
  BY <1>1, CallsTop DEF Takes
<1> DEFINE last == C!Call("endCompiler", 0)
           first == C!expression
<1>4. last.name = "endCompiler" /\ first.name = "parsePrecedence" /\ first.argument = 1
  BY DEF C!Call, C!expression, C!parsePrecedence, C!PREC_ASSIGNMENT
<1> HIDE DEF last, first
<1>5. Calls(<<last>>, 1)
  BY <1>4, CallsLast
<1>6. Takes(first, 0, 1)
  BY <1>4 DEF Takes
<1>7. Calls(<<first>> \o <<last>>, 0)
  BY <1>5, <1>6, CallsMore
<1>8. <<first, last>> = <<first>> \o <<last>>
  BY <1>5, Consecutive DEF Calls
<1>9. Calls(frames', 0)
  BY <1>1, <1>7, <1>8 DEF first, last
<1>10. Bytes' = Bytes /\ Pool' = Pool
  BY <1>1 DEF Bytes, Pool
<1>. QED
  BY <1>2, <1>3, <1>9, <1>10, StillCompiles

\* The call on top, what it takes and the calls under it.
LEMMA TopTakes ==
  ASSUME NEW h, Calls(frames, h), C!Top.name \notin {"compile", "endCompiler"}
  PROVE  \E k : Takes(C!Top, h, k) /\ Calls(Tail(frames), k) /\ h \in Nat /\ k \in Nat
  BY CallsTop DEF C!Top, Takes

LEMMA ParsePrecedenceCompiles ==
  ASSUME Holds(Now, chunk), IsParser(parser), NEW h, Calls(frames, h), Open(Bytes, Pool, h), C!ParsePrecedence
  PROVE  Compiles'
<1> DEFINE p == C!advance(parser)
           infix == C!Call("infix", C!Top.argument)
           rest == Tail(frames)
<1>1. C!Top.name = "parsePrecedence"
  BY DEF C!ParsePrecedence, C!Running
<1>2. PICK k : Takes(C!Top, h, k) /\ Calls(rest, k) /\ h \in Nat /\ k \in Nat
  BY <1>1, TopTakes
<1>3. k = h + 1 /\ C!Top.argument \in Nat \ {0}
  BY <1>1, <1>2 DEF Takes
<1>4. Takes(infix, k, k)
  BY <1>2, <1>3 DEF Takes, C!Call
<1>5. IsParser(p)
  BY Advance
<1>6. IsSequence(rest)
  BY <1>2 DEF Calls
<1>7. IsSequence(Bytes) /\ Pool \in Nat
  BY BytesSequence
<1>8. CASE p.previous.type = "num"
  <2> DEFINE now == [mem |-> mem, chunk |-> chunk]
             value == <<"num", p.previous.at>>
             line == p.previous.line
             e == C!errorAt(p, p.previous, "Too many constants in one chunk.")
  <2>1. C!emitConstant(p) /\ frames' = <<infix>> \o rest
    BY <1>8 DEF C!ParsePrecedence, C!Continue
  <2>2. /\ mem' = C!writeConstant(C!Now, value, line).mem /\ chunk' = C!writeConstant(C!Now, value, line).chunk
        /\ parser' = IF C!PoolFull(C!Now) THEN e ELSE p
    BY <2>1 DEF C!emitConstant, C!Emitted
  <2> HIDE DEF p, value, line, infix, rest, e
  <2>3. /\ mem' = writeConstant(now, value, line).mem /\ chunk' = writeConstant(now, value, line).chunk
        /\ parser' = IF PoolFull(now) THEN e ELSE p
    BY <2>2, CompilerChunk DEF C!Now
  <2>4. CASE PoolFull(now)
    <3>1. IsParser(e) /\ e.hadError
      BY <1>5, ErrorAt DEF e
    <3>. QED BY <2>3, <2>4, <3>1, StillCompiles
  <2>5. CASE ~PoolFull(now)
    <3>1. Bytes' = LoadBytes(Bytes, Pool) /\ Pool' = Pool + 1
      BY <2>3, <2>5, EmitsConstant
    <3>2. Pool < ByteSize * ByteSize * ByteSize
      BY <1>7, <2>5, PoolRoom
    <3>3. Open(LoadBytes(Bytes, Pool), Pool + 1, h + 1)
      BY <1>2, <1>7, <3>2, OpenConstant
    <3>4. Calls(frames', k)
      BY <1>2, <1>4, <2>1, CallsMore
    <3>. QED BY <1>3, <1>5, <2>3, <2>5, <3>1, <3>3, <3>4, StillCompiles
  <2>. QED BY <2>4, <2>5
<1>9. ASSUME NEW operand, NEW rule, parser' = p, frames' = <<operand, rule, infix>> \o rest, UNCHANGED <<mem, chunk>>,
             operand.name = "parsePrecedence", operand.argument \in Nat \ {0}, rule.name \in {"grouping", "unary"}
      PROVE  Compiles'
  <2> HIDE DEF p, infix, rest
  <2>1. Takes(rule, k, k) /\ Takes(operand, h, k)
    BY <1>2, <1>3, <1>9 DEF Takes
  <2>2. Calls(<<infix>> \o rest, k)
    BY <1>2, <1>4, CallsMore
  <2>3. Calls(<<rule>> \o (<<infix>> \o rest), k)
    BY <2>1, <2>2, CallsMore
  <2>4. Calls(<<operand>> \o (<<rule>> \o (<<infix>> \o rest)), h)
    BY <2>1, <2>3, CallsMore
  <2>5. Calls(frames', h)
    <3> DEFINE three == <<operand, rule, infix>> \o rest
    <3>1. three = <<operand>> \o (<<rule>> \o (<<infix>> \o rest))
      BY <1>6, ThreeCalls
    <3>2. frames' = three
      BY <1>9
    <3> HIDE DEF three
    <3>. QED BY <2>4, <3>1, <3>2
  <2>6. Bytes' = Bytes /\ Pool' = Pool
    BY <1>9 DEF Bytes, Pool
  <2>. QED BY <1>5, <1>9, <2>5, <2>6, StillCompiles
<1>10. CASE p.previous.type = "("
  <2> DEFINE operand == C!expression
             rule == C!Call("grouping", 0)
  <2>1. parser' = p /\ frames' = <<operand, rule, infix>> \o rest /\ UNCHANGED <<mem, chunk>>
    BY <1>10 DEF C!ParsePrecedence, C!Continue
  <2>2. operand.name = "parsePrecedence" /\ operand.argument \in Nat \ {0} /\ rule.name \in {"grouping", "unary"}
    BY DEF C!Call, C!expression, C!parsePrecedence, C!PREC_ASSIGNMENT
  <2> HIDE DEF p, infix, rest, operand, rule
  <2>. QED BY <1>9, <2>1, <2>2
<1>11. CASE p.previous.type = "-"
  <2> DEFINE operand == C!parsePrecedence(C!PREC_UNARY)
             rule == C!Call("unary", 0)
  <2>1. parser' = p /\ frames' = <<operand, rule, infix>> \o rest /\ UNCHANGED <<mem, chunk>>
    BY <1>11 DEF C!ParsePrecedence, C!Continue
  <2>2. operand.name = "parsePrecedence" /\ operand.argument \in Nat \ {0} /\ rule.name \in {"grouping", "unary"}
    BY DEF C!Call, C!parsePrecedence, C!PREC_UNARY
  <2> HIDE DEF p, infix, rest, operand, rule
  <2>. QED BY <1>9, <2>1, <2>2
<1>12. CASE p.previous.type \notin {"num", "(", "-"}
  <2>1. parser' = C!errorAt(p, p.previous, "Expect expression.")
    BY <1>12 DEF C!ParsePrecedence
  <2> HIDE DEF p
  <2>2. IsParser(parser') /\ parser'.hadError
    BY <1>5, <2>1, ErrorAt
  <2>. QED BY <2>2, StillCompiles
<1>. QED
  BY <1>8, <1>10, <1>11, <1>12

LEMMA InfixCompiles ==
  ASSUME IsParser(parser), NEW h, Calls(frames, h), Open(Bytes, Pool, h), C!Infix
  PROVE  Compiles'
<1> DEFINE p == C!advance(parser)
           type == p.previous.type
<1>1. C!Top.name = "infix" /\ mem' = mem /\ chunk' = chunk
  BY DEF C!Infix, C!Running
<1>2. PICK k : Takes(C!Top, h, k) /\ Calls(Tail(frames), k) /\ h \in Nat /\ k \in Nat
  BY <1>1, TopTakes
<1>3. k = h /\ h >= 1 /\ C!Top.argument \in Nat \ {0}
  BY <1>1, <1>2 DEF Takes
<1>4. IsParser(p) /\ p.previous = parser.current
  BY Advance
<1>5. Bytes' = Bytes /\ Pool' = Pool
  BY <1>1 DEF Bytes, Pool
<1>6. IsSequence(frames)
  BY DEF Calls
<1>7. ASSUME NEW operand, NEW rule, parser' = p, frames' = <<operand, rule>> \o frames,
             operand.name = "parsePrecedence", operand.argument \in Nat \ {0}, Takes(rule, h + 1, h)
      PROVE  Compiles'
  <2> DEFINE two == <<operand, rule>> \o frames
  <2> HIDE DEF p
  <2>1. Takes(operand, h, h + 1)
    BY <1>2, <1>7 DEF Takes
  <2>2. Calls(<<rule>> \o frames, h + 1)
    BY <1>7, CallsMore
  <2>3. Calls(<<operand>> \o (<<rule>> \o frames), h)
    BY <2>1, <2>2, CallsMore
  <2>4. two = <<operand>> \o (<<rule>> \o frames)
    BY <1>6, TwoCalls
  <2>5. frames' = two
    BY <1>7
  <2> HIDE DEF two
  <2>. QED BY <1>4, <1>5, <1>7, <2>3, <2>4, <2>5, StillCompiles
<1>8. CASE C!Top.argument <= C!Precedence(parser.current.type) /\ type = "?"
  <2> DEFINE operand == C!expression
             rule == C!Call("then", p.previous)
  <2>1. parser' = p /\ frames' = <<operand, rule>> \o frames
    BY <1>8 DEF C!Infix
  <2>2. operand.name = "parsePrecedence" /\ operand.argument \in Nat \ {0} /\ rule.name = "then"
    BY DEF C!Call, C!expression, C!parsePrecedence, C!PREC_ASSIGNMENT
  <2> HIDE DEF p, operand, rule
  <2>3. Takes(rule, h + 1, h)
    BY <1>2, <1>3, <2>2 DEF Takes
  <2>. QED BY <1>7, <2>1, <2>2, <2>3
<1>9. CASE C!Top.argument <= C!Precedence(parser.current.type) /\ type # "?"
  <2> DEFINE operand == C!rightOperand(type)
             rule == C!Call("binary", type)
  <2>1. parser' = p /\ frames' = <<operand, rule>> \o frames
    BY <1>9 DEF C!Infix
  <2>2. type \in {"+", "-", "*", "/"}
    <3>1. C!Precedence(type) >= 1
      <4>1. C!Precedence(type) \in {C!PREC_CONDITIONAL, C!PREC_TERM, C!PREC_FACTOR, C!PREC_NONE}
        BY DEF C!Precedence
      <4>. QED BY <1>3, <1>4, <1>9, <4>1 DEF C!PREC_CONDITIONAL, C!PREC_TERM, C!PREC_FACTOR, C!PREC_NONE
    <3> HIDE DEF type
    <3>2. ASSUME type \notin {"+", "-", "*", "/"}
          PROVE  C!Precedence(type) = 0
      BY <1>9, <3>2 DEF C!Precedence, C!PREC_NONE
    <3>. QED BY <3>1, <3>2
  <2>3. C!Precedence(type) \in {7, 8}
    <3> HIDE DEF type
    <3>. QED BY <2>2 DEF C!Precedence, C!PREC_TERM, C!PREC_FACTOR
  <2>4. operand.name = "parsePrecedence" /\ operand.argument \in Nat \ {0} /\ rule.name = "binary" /\ rule.argument = type
    <3> HIDE DEF type
    <3>. QED BY <2>3 DEF C!Call, C!rightOperand, C!parsePrecedence
  <2> HIDE DEF p, type, operand, rule
  <2>5. Takes(rule, h + 1, h)
    BY <1>2, <1>3, <2>2, <2>4 DEF Takes, C!Opcode
  <2>. QED BY <1>7, <2>1, <2>4, <2>5
<1>10. CASE ~ C!Top.argument <= C!Precedence(parser.current.type)
  <2>1. frames' = Tail(frames) /\ parser' = parser
    BY <1>10 DEF C!Infix, C!Return
  <2>. QED BY <1>2, <1>3, <1>5, <2>1, StillCompiles
<1>. QED
  BY <1>8, <1>9, <1>10

LEMMA GroupingCompiles ==
  ASSUME IsParser(parser), NEW h, Calls(frames, h), Open(Bytes, Pool, h), C!Grouping
  PROVE  Compiles'
<1>1. C!Top.name = "grouping" /\ mem' = mem /\ chunk' = chunk /\ frames' = Tail(frames)
      /\ parser' = C!consume(parser, ")", "Expect ')' after expression.")
  BY DEF C!Grouping, C!Running, C!Return
<1>2. PICK k : Takes(C!Top, h, k) /\ Calls(Tail(frames), k)
  BY <1>1, TopTakes
<1>3. k = h
  BY <1>1, <1>2 DEF Takes
<1>4. IsParser(parser')
  BY <1>1, Consume
<1>5. Bytes' = Bytes /\ Pool' = Pool
  BY <1>1 DEF Bytes, Pool
<1>. QED
  BY <1>1, <1>2, <1>3, <1>4, <1>5, StillCompiles

\* emitByte writes the byte.
LEMMA EmitByte ==
  ASSUME NEW p, NEW byte, C!Emitted(C!emitByte(p, C!Now, byte)), Holds(Now, chunk)
  PROVE  Bytes' = Append(Bytes, byte) /\ Pool' = Pool
<1> DEFINE now == [mem |-> mem, chunk |-> chunk]
           line == p.previous.line
<1>1. mem' = C!writeChunk(now, byte, line).mem /\ chunk' = C!writeChunk(now, byte, line).chunk
  BY DEF C!Emitted, C!emitByte, C!Now
<1> HIDE DEF line
<1>2. mem' = writeChunk(now, byte, line).mem /\ chunk' = writeChunk(now, byte, line).chunk
  BY <1>1, CompilerChunk
<1>. QED
  BY <1>2, EmitsByte

LEMMA UnaryCompiles ==
  ASSUME Holds(Now, chunk), IsParser(parser), NEW h, Calls(frames, h), Open(Bytes, Pool, h), C!Unary
  PROVE  Compiles'
<1>1. C!Top.name = "unary" /\ frames' = Tail(frames) /\ parser' = parser
      /\ C!Emitted(C!emitByte(parser, C!Now, C!OP_NEGATE))
  BY DEF C!Unary, C!Running, C!Return
<1>2. PICK k : Takes(C!Top, h, k) /\ Calls(Tail(frames), k)
  BY <1>1, TopTakes
<1>3. k = h /\ h >= 1 /\ h \in Nat
  BY <1>1, <1>2 DEF Takes
<1> DEFINE op == C!OP_NEGATE
<1>4. Leaves(op, h, h)
  BY <1>3 DEF Leaves, C!OP_NEGATE, OP_CONSTANT, OP_CONSTANT_LONG, OP_ADD, OP_DIVIDE, OP_NEGATE, OP_RETURN
<1> HIDE DEF op
<1>5. Bytes' = Append(Bytes, op) /\ Pool' = Pool
  BY <1>1, EmitByte DEF op
<1>6. Open(Append(Bytes, op), Pool, h)
  BY <1>4, BytesSequence, OpenByte
<1>. QED
  BY <1>1, <1>2, <1>3, <1>5, <1>6, StillCompiles

LEMMA BinaryCompiles ==
  ASSUME Holds(Now, chunk), IsParser(parser), NEW h, Calls(frames, h), Open(Bytes, Pool, h), C!Binary
  PROVE  Compiles'
<1> DEFINE op == C!Opcode[C!Top.argument]
<1>1. C!Top.name = "binary" /\ frames' = Tail(frames) /\ parser' = parser
  BY DEF C!Binary, C!Running, C!Return
<1>2. PICK k : Takes(C!Top, h, k) /\ Calls(Tail(frames), k)
  BY <1>1, TopTakes
<1>3. k = h - 1 /\ h >= 2 /\ h \in Nat /\ k \in Nat /\ C!Top.argument \in DOMAIN C!Opcode
  BY <1>1, <1>2 DEF Takes
<1>4. C!Emitted(C!emitByte(parser, C!Now, op))
  BY <1>3 DEF C!Binary
<1>5. op \in 2 .. 5
  <2> DEFINE type == C!Top.argument
  <2>1. type \in {"+", "-", "*", "/"}
    BY <1>3 DEF C!Opcode
  <2> HIDE DEF type
  <2>2. C!Opcode[type] \in 2 .. 5
    BY <2>1 DEF C!Opcode, C!OP_ADD, C!OP_SUBTRACT, C!OP_MULTIPLY, C!OP_DIVIDE
  <2>. QED BY <2>2 DEF type
<1> HIDE DEF op
<1>6. Leaves(op, h, k)
  BY <1>3, <1>5 DEF Leaves, OP_CONSTANT, OP_CONSTANT_LONG, OP_ADD, OP_DIVIDE, OP_NEGATE, OP_RETURN
<1>7. Bytes' = Append(Bytes, op) /\ Pool' = Pool
  BY <1>4, EmitByte
<1>8. Open(Append(Bytes, op), Pool, k)
  BY <1>6, BytesSequence, OpenByte
<1>. QED
  BY <1>1, <1>2, <1>7, <1>8, StillCompiles

LEMMA ThenCompiles ==
  ASSUME IsParser(parser), NEW h, Calls(frames, h), Open(Bytes, Pool, h), C!Then
  PROVE  Compiles'
<1> DEFINE operand == C!parsePrecedence(C!PREC_CONDITIONAL)
           rule == C!Call("else", C!Top.argument)
           rest == Tail(frames)
           two == <<operand, rule>> \o rest
<1>1. C!Top.name = "then" /\ mem' = mem /\ chunk' = chunk /\ frames' = two
      /\ parser' = C!consume(parser, ":", "Expect ':' after then branch of conditional.")
  BY DEF C!Then, C!Running, C!Continue
<1>2. PICK k : Takes(C!Top, h, k) /\ Calls(rest, k)
  BY <1>1, TopTakes
<1>3. k = h - 1 /\ h >= 2 /\ h \in Nat /\ k \in Nat
  BY <1>1, <1>2 DEF Takes
<1>4. operand.name = "parsePrecedence" /\ operand.argument = 2 /\ rule.name = "else"
  BY DEF C!Call, C!parsePrecedence, C!PREC_CONDITIONAL
<1>5. IsParser(parser')
  BY <1>1, Consume
<1> HIDE DEF operand, rule, rest
<1>6. Takes(rule, h + 1, k) /\ Takes(operand, h, h + 1)
  BY <1>3, <1>4 DEF Takes
<1>7. Calls(<<rule>> \o rest, h + 1)
  BY <1>2, <1>6, CallsMore
<1>8. Calls(<<operand>> \o (<<rule>> \o rest), h)
  BY <1>6, <1>7, CallsMore
<1>9. two = <<operand>> \o (<<rule>> \o rest)
  BY <1>2, TwoCalls DEF Calls
<1> HIDE DEF two
<1>10. Bytes' = Bytes /\ Pool' = Pool
  BY <1>1 DEF Bytes, Pool
<1>. QED
  BY <1>1, <1>5, <1>8, <1>9, <1>10, StillCompiles

LEMMA ElseCompiles ==
  ASSUME IsParser(parser), C!Else
  PROVE  Compiles'
<1> DEFINE message == "The '?:' operator parses but cannot be compiled yet."
<1>1. parser' = C!errorAt(parser, C!Top.argument, message)
  BY DEF C!Else
<1> HIDE DEF message
<1>2. IsParser(parser') /\ parser'.hadError
  BY <1>1, ErrorAt
<1>. QED
  BY <1>2, StillCompiles

LEMMA EndCompilerCompiles ==
  ASSUME Holds(Now, chunk), IsParser(parser), NEW h, Calls(frames, h), Open(Bytes, Pool, h), C!EndCompiler
  PROVE  Compiles'
<1> DEFINE p == C!consume(parser, "eof", "Expect end of expression.")
           op == C!OP_RETURN
<1>1. C!Top.name = "endCompiler" /\ frames' = Tail(frames) /\ parser' = p
      /\ C!Emitted(C!emitByte(p, C!Now, op))
  BY DEF C!EndCompiler, C!Running, C!Return
<1>2. IsParser(p)
  BY Consume
<1> HIDE DEF p
<1>3. h = 1 /\ Tail(frames) = <<>>
  BY <1>1, CallsTop DEF Takes, C!Top
<1>4. op = 7
  BY DEF C!OP_RETURN
<1> HIDE DEF op
<1>5. Bytes' = Append(Bytes, op) /\ Pool' = Pool
  BY <1>1, EmitByte
<1>6. op \in Nat /\ op \notin OP_CONSTANT .. OP_NEGATE /\ h \in Nat /\ (op = OP_RETURN => h >= 1)
  BY <1>3, <1>4 DEF OP_CONSTANT, OP_NEGATE
<1>7. Closed(Append(Bytes, op), Pool)
  BY <1>6, BytesSequence, CloseByte
<1>. QED
  BY <1>1, <1>2, <1>3, <1>5, <1>7 DEF Compiles

LEMMA StepCompiles ==
  ASSUME Kept, Compiles, CompileStep
  PROVE  Compiles'
<1>1. C!Next /\ doing \in {"interpret", "dump"} /\ frames # <<>> /\ Holds(Now, chunk) /\ IsParser(parser)
  BY DEF CompileStep, Compiling, Kept, Compiles
<1>2. CASE parser.hadError
  <2>1. IsParser(parser') /\ parser'.hadError
    <3>1. CASE C!Compile
      BY <1>1, <1>2, <3>1, Advance DEF C!Compile
    <3>2. CASE C!ParsePrecedence
      <4> DEFINE p == C!advance(parser)
      <4>1. IsParser(p) /\ p.hadError
        BY <1>1, <1>2, Advance
      <4>2. parser' = p \/ \E token, message : parser' = C!errorAt(p, token, message)
        BY <3>2 DEF C!ParsePrecedence, C!emitConstant
      <4> HIDE DEF p
      <4>. QED BY <4>1, <4>2, ErrorAt
    <3>3. CASE C!Infix
      BY <1>1, <1>2, <3>3, Advance DEF C!Infix
    <3>4. CASE C!Grouping
      BY <1>1, <1>2, <3>4, Consume DEF C!Grouping
    <3>5. CASE C!Unary \/ C!Binary
      BY <1>1, <1>2, <3>5 DEF C!Unary, C!Binary
    <3>6. CASE C!Then
      BY <1>1, <1>2, <3>6, Consume DEF C!Then
    <3>7. CASE C!Else
      BY <1>1, <1>2, <3>7, ErrorAt DEF C!Else
    <3>8. CASE C!EndCompiler
      BY <1>1, <1>2, <3>8, Consume DEF C!EndCompiler
    <3>. QED BY <1>1, <3>1, <3>2, <3>3, <3>4, <3>5, <3>6, <3>7, <3>8 DEF C!Next
  <2>. QED BY <2>1 DEF Compiles
<1>3. CASE ~parser.hadError
  <2>1. PICK h : Calls(frames, h) /\ Open(Bytes, Pool, h)
    BY <1>1, <1>3 DEF Compiles
  <2>. QED BY <1>1, <2>1, CompileCompiles, ParsePrecedenceCompiles, InfixCompiles, GroupingCompiles,
              UnaryCompiles, BinaryCompiles, ThenCompiles, ElseCompiles, EndCompilerCompiles DEF C!Next
<1>. QED
  BY <1>2, <1>3
-----------------------------------------------------------------------------
(* Running a program *)

\* The machine is at an instruction of a program that does not run past its
\* end, with the values on the stack that the instruction finds.
At(depth, o) ==
  /\ vm.chunk = TRUE
  /\ Program(Bytes, Pool, depth) /\ Len(Bytes) \notin DOMAIN depth
  /\ o \in DOMAIN depth
  /\ vm.ip = M!Pointer(chunk.code.ptr, o)
  /\ Height(vm, depth[o])

\* The bytes of the code can be fetched, and are what was written.
LEMMA FetchesCode ==
  ASSUME Holds(Now, chunk), NEW o \in Nat, NEW n \in Nat, o + n <= Len(Bytes),
         vm.ip = M!Pointer(chunk.code.ptr, o)
  PROVE  Fetchable(n) /\ \A k \in 0 .. n - 1 : M!ByteAt(k) = Bytes[o + k + 1]
<1> DEFINE a == chunk.code
<1>1. Fits(mem, a)
  <2>1. Shared(mem, chunk.code, chunk.lines, chunk.constants, Stack(vm))
    BY HoldsShared DEF Now
  <2>. QED BY <2>1 DEF Shared
<1>2. Len(Bytes) = a.count /\ a.count \in Nat /\ Bytes = Contents(mem, a)
  BY BytesSequence DEF Bytes
<1>3. vm.ip.block = a.ptr /\ vm.ip.offset = o
  BY PointerFields
<1> HIDE DEF a
<1>4. ASSUME NEW i \in o .. o + n - 1
      PROVE  Valid(mem, a.ptr, i)
  <2>1. a.capacity \in Nat /\ a.count <= a.capacity /\ (a.ptr = NULL <=> a.capacity = 0)
        /\ (a.ptr # NULL => a.ptr \in Live(mem) /\ DOMAIN mem.blocks[a.ptr] = 0 .. a.capacity - 1)
    BY <1>1 DEF Fits
  <2>2. i \in 0 .. a.capacity - 1 /\ a.capacity # 0
    BY <1>2, <2>1
  <2>. QED BY <2>1, <2>2 DEF Valid
<1>5. Fetchable(n)
  BY <1>3, <1>4 DEF Fetchable
<1>6. ASSUME NEW k \in 0 .. n - 1
      PROVE  M!ByteAt(k) = Bytes[o + k + 1]
  <2>1. M!ByteAt(k) = Load(mem, a.ptr, o + k)
    BY <1>3, MachineMemory DEF M!ByteAt
  <2>2. o + k + 1 \in 1 .. a.count /\ (o + k + 1) - 1 = o + k
    BY <1>2
  <2>3. Bytes[o + k + 1] = Load(mem, a.ptr, o + k)
    BY <1>2, <2>2 DEF Contents
  <2>. QED BY <2>1, <2>3
<1>. QED
  BY <1>5, <1>6

\* So can the constants of the pool.
LEMMA PoolValid ==
  ASSUME Holds(Now, chunk), vm.chunk = TRUE, NEW i \in 0 .. Pool - 1
  PROVE  Valid(mem, M!PoolBlock, i)
<1> DEFINE a == chunk.constants
<1>1. Fits(mem, a)
  <2>1. Shared(mem, chunk.code, chunk.lines, chunk.constants, Stack(vm))
    BY HoldsShared DEF Now
  <2>. QED BY <2>1 DEF Shared
<1>2. M!PoolBlock = a.ptr
  BY DEF M!PoolBlock
<1>3. a.capacity \in Nat /\ a.count \in Nat /\ a.count <= a.capacity /\ (a.ptr = NULL <=> a.capacity = 0)
      /\ (a.ptr # NULL => a.ptr \in Live(mem) /\ DOMAIN mem.blocks[a.ptr] = 0 .. a.capacity - 1)
  BY <1>1 DEF Fits
<1>4. i \in 0 .. a.capacity - 1 /\ a.capacity # 0
  BY <1>3 DEF Pool
<1>. QED
  BY <1>2, <1>3, <1>4 DEF Valid

\* An instruction of the program is inside its code and finds its operands.
LEMMA AtFinds ==
  ASSUME Holds(Now, chunk), NEW depth, NEW o, At(depth, o)
  PROVE  /\ o \in Nat /\ o < Len(Bytes) /\ Len(Bytes) \in Nat /\ depth[o] \in Nat
         /\ Finds(Bytes, Pool, depth, o)
         /\ \A p \in DOMAIN depth : p \in Nat /\ p < Len(Bytes)
<1>1. Len(Bytes) \in Nat
  BY BytesSequence
<1>2. DOMAIN depth \subseteq 0 .. Len(Bytes) /\ Len(Bytes) \notin DOMAIN depth /\ o \in DOMAIN depth
      /\ depth[o] \in Nat /\ (o < Len(Bytes) => Finds(Bytes, Pool, depth, o))
  BY DEF At, Program
<1> DEFINE l == Len(Bytes)
<1> HIDE DEF l
<1>3. l \in Nat /\ DOMAIN depth \subseteq 0 .. l /\ l \notin DOMAIN depth
  BY <1>1, <1>2 DEF l
<1>4. \A p \in DOMAIN depth : p \in Nat /\ p < l
  BY <1>3
<1>. QED
  BY <1>1, <1>2, <1>4 DEF l

\* The machine gets to the next instruction of its program.
LEMMA GetsTo ==
  ASSUME Holds(Now, chunk), NEW depth, NEW o, At(depth, o), NEW n \in Nat, Executes(n), chunk' = chunk,
         o + n \in DOMAIN depth, Height(vm', depth[o + n]), Respects(Now, Now', chunk)
  PROVE  At(depth, o + n)' /\ mem.wild' = mem.wild
<1>1. vm'.chunk = TRUE /\ vm'.ip = M!Pointer(chunk.code.ptr, o + n)
  <2>1. vm.ip.block = chunk.code.ptr /\ vm.ip.offset = o
    BY PointerFields DEF At
  <2>. QED BY <2>1 DEF At, Executes
<1>2. Bytes' = Bytes /\ Pool' = Pool /\ mem.wild' = mem.wild
  BY DEF Respects, Bytes, Pool, Now
<1>. QED
  BY <1>1, <1>2 DEF At

\* One turn of the loop: the next instruction is found, or run returns.
LEMMA Turns ==
  ASSUME Holds(Now, chunk), NEW depth, NEW o, At(depth, o), M!run, status = NULL
  PROVE  /\ mem.wild' = mem.wild /\ chunk' = chunk
         /\ \E h : Height(vm', h)
         /\ status' = NULL => \E p : At(depth, p)'
<1> DEFINE l == Len(Bytes)
           d == depth[o]
           op == Bytes[o + 1]
<1>1. /\ o \in Nat /\ o < l /\ l \in Nat /\ d \in Nat
      /\ Finds(Bytes, Pool, depth, o)
      /\ \A p \in DOMAIN depth : p \in Nat /\ p < l
  BY AtFinds
<1>2. Height(vm, d) /\ vm.ip = M!Pointer(chunk.code.ptr, o) /\ vm.chunk = TRUE
  BY DEF At
<1>3. ASSUME NEW n \in Nat, o + n <= l
      PROVE  Fetchable(n) /\ \A k \in 0 .. n - 1 : M!ByteAt(k) = Bytes[o + k + 1]
  BY <1>1, <1>2, <1>3, FetchesCode
<1> HIDE DEF l
<1>4. M!ByteAt(0) = op /\ Fetchable(1)
  <2>1. 1 \in Nat /\ o + 1 <= l /\ 0 \in 0 .. 1 - 1 /\ o + 0 + 1 = o + 1
    BY <1>1
  <2>2. Fetchable(1) /\ \A k \in 0 .. 1 - 1 : M!ByteAt(k) = Bytes[o + k + 1]
    BY <2>1, <1>3
  <2>3. M!ByteAt(0) = Bytes[o + 0 + 1]
    BY <2>1, <2>2
  <2>. QED BY <2>1, <2>2, <2>3
<1>5. CASE M!Constant
  <2> DEFINE i == M!ByteAt(1)
  <2>1. op = OP_CONSTANT /\ M!Becomes(M!Loading(M!Fetched(2), i)) /\ chunk' = chunk /\ status' = status
    BY <1>4, <1>5 DEF M!Constant, M!Executing, M!OP_CONSTANT, OP_CONSTANT
  <2>2. o + 2 \in DOMAIN depth /\ depth[o + 2] = d + 1 /\ Bytes[o + 2] \in 0 .. Pool - 1
    BY <1>1, <2>1 DEF Finds
  <2>3. o + 2 <= l
    BY <1>1, <2>2
  <2>4. Fetchable(2) /\ i = Bytes[o + 2]
    <3>1. 2 \in Nat /\ 1 \in 0 .. 2 - 1 /\ o + 1 + 1 = o + 2
      BY <1>1
    <3>2. Fetchable(2) /\ M!ByteAt(1) = Bytes[o + 1 + 1]
      BY <1>3, <2>3, <3>1
    <3>. QED BY <3>1, <3>2
  <2> HIDE DEF i
  <2>5. Valid(mem, M!PoolBlock, i)
    BY <1>2, <2>2, <2>4, PoolValid
  <2>6. Executes(2) /\ Height(vm', d + 1) /\ Respects(Now, Now', chunk)
    BY <1>2, <2>1, <2>4, <2>5, LoadsConstant
  <2>7. At(depth, o + 2)' /\ mem.wild' = mem.wild
    BY <2>1, <2>2, <2>6, GetsTo
  <2>. QED BY <2>1, <2>6, <2>7
<1>6. CASE M!ConstantLong
  <2> DEFINE i == M!wideOperand(M!ByteAt(1), M!ByteAt(2), M!ByteAt(3))
  <2>1. op = OP_CONSTANT_LONG /\ M!Becomes(M!Loading(M!Fetched(4), i)) /\ chunk' = chunk /\ status' = status
    BY <1>4, <1>6 DEF M!ConstantLong, M!Executing, M!OP_CONSTANT_LONG, OP_CONSTANT_LONG
  <2>2. o + 4 \in DOMAIN depth /\ depth[o + 4] = d + 1 /\ WideOperand(Bytes, o) \in 0 .. Pool - 1
    BY <1>1, <2>1 DEF Finds
  <2>3. o + 4 <= l
    BY <1>1, <2>2
  <2>4. Fetchable(4) /\ i = WideOperand(Bytes, o)
    <3>1. 4 \in Nat /\ 1 \in 0 .. 4 - 1 /\ 2 \in 0 .. 4 - 1 /\ 3 \in 0 .. 4 - 1
          /\ o + 1 + 1 = o + 2 /\ o + 2 + 1 = o + 3 /\ o + 3 + 1 = o + 4
      BY <1>1
    <3>2. Fetchable(4) /\ \A k \in 0 .. 4 - 1 : M!ByteAt(k) = Bytes[o + k + 1]
      BY <1>3, <2>3, <3>1
    <3>3. M!ByteAt(1) = Bytes[o + 2] /\ M!ByteAt(2) = Bytes[o + 3] /\ M!ByteAt(3) = Bytes[o + 4]
      BY <3>1, <3>2
    <3>. QED BY <3>2, <3>3, Zenon DEF WideOperand, M!wideOperand
  <2> HIDE DEF i
  <2>5. Valid(mem, M!PoolBlock, i)
    BY <1>2, <2>2, <2>4, PoolValid
  <2>6. Executes(4) /\ Height(vm', d + 1) /\ Respects(Now, Now', chunk)
    BY <1>2, <2>1, <2>4, <2>5, LoadsConstant
  <2>7. At(depth, o + 4)' /\ mem.wild' = mem.wild
    BY <2>1, <2>2, <2>6, GetsTo
  <2>. QED BY <2>1, <2>6, <2>7
<1>7. CASE M!Binary
  <2> DEFINE x == <<M!Symbol(M!ByteAt(0)), M!Peek(M!Fetched(1), 2), M!Peek(M!Fetched(1), 1)>>
  <2>1. op \in OP_ADD .. OP_DIVIDE /\ M!Becomes(M!push(M!pop(M!Fetched(1), 2), x)) /\ chunk' = chunk /\ status' = status
    BY <1>4, <1>7 DEF M!Binary, M!Executing, M!OP_ADD, OP_ADD, M!OP_DIVIDE, OP_DIVIDE
  <2>2. o + 1 \in DOMAIN depth /\ depth[o + 1] = d - 1 /\ d >= 2
    BY <1>1, <2>1 DEF Finds
  <2> HIDE DEF x, d
  <2>3. Executes(1) /\ Height(vm', d - 2 + 1) /\ Respects(Now, Now', chunk)
    BY <1>2, <1>4, <2>1, <2>2, Computes
  <2>4. d - 2 + 1 = d - 1
    BY <1>1
  <2>5. At(depth, o + 1)' /\ mem.wild' = mem.wild
    BY <2>1, <2>2, <2>3, <2>4, GetsTo
  <2>. QED BY <2>1, <2>3, <2>5
<1>8. CASE M!Negate
  <2>1. op = OP_NEGATE /\ chunk' = chunk /\ status' = status
    BY <1>4, <1>8 DEF M!Negate, M!Executing, M!OP_NEGATE, OP_NEGATE
  <2>2. o + 1 \in DOMAIN depth /\ depth[o + 1] = d /\ d >= 1
    BY <1>1, <2>1 DEF Finds
  <2> HIDE DEF d
  <2>3. Executes(1) /\ Height(vm', d) /\ Respects(Now, Now', chunk)
    BY <1>1, <1>2, <1>4, <1>8, <2>2, Negates
  <2>4. At(depth, o + 1)' /\ mem.wild' = mem.wild
    BY <2>1, <2>2, <2>3, GetsTo
  <2>. QED BY <2>1, <2>3, <2>4
<1>9. CASE M!Return
  <2>1. op = OP_RETURN /\ chunk' = chunk /\ status' = "INTERPRET_OK"
    BY <1>4, <1>9 DEF M!Return, M!Executing, M!OP_RETURN, OP_RETURN
  <2>2. d >= 1
    BY <1>1, <2>1 DEF Finds
  <2> HIDE DEF d
  <2>3. Height(vm', d - 1) /\ Respects(Now, Now', chunk)
    BY <1>1, <1>2, <1>4, <1>9, <2>2, Returns
  <2>. QED BY <2>1, <2>3, StatusAssumption DEF Respects, Now
<1>10. CASE M!UnknownOpcode
  <2>1. chunk' = chunk /\ status' = "INTERPRET_RUNTIME_ERROR"
    BY <1>10 DEF M!UnknownOpcode
  <2>2. Height(vm', d) /\ Respects(Now, Now', chunk)
    BY <1>2, <1>4, <1>10, Refuses
  <2>. QED BY <2>1, <2>2, StatusAssumption DEF Respects, Now
<1>. QED
  BY <1>5, <1>6, <1>7, <1>8, <1>9, <1>10 DEF M!run
-----------------------------------------------------------------------------
(* Writing a program by hand *)

\* depth[i] values are on the stack before item i of a chunk built by hand, as
\* the assumption about these chunks says.
Describes(byHand, depth) ==
  /\ IsSequence(byHand)
  /\ Len(byHand) \in 1 .. ByteSize * ByteSize * ByteSize
  /\ depth[1] = 0
  /\ \A i \in 1 .. Len(byHand) + 1 : depth[i] \in Nat
  /\ \A i \in 1 .. Len(byHand) :
       LET opcode == byHand[i].opcode
       IN /\ opcode \in Nat \ {OP_CONSTANT_LONG}
          /\ opcode = OP_CONSTANT => depth[i + 1] = depth[i] + 1
          /\ opcode \in OP_ADD .. OP_DIVIDE => depth[i] >= 2 /\ depth[i + 1] = depth[i] - 1
          /\ opcode = OP_NEGATE => depth[i] >= 1 /\ depth[i + 1] = depth[i]
          /\ opcode = OP_RETURN => depth[i] >= 1
          /\ i = Len(byHand) => opcode \notin OP_CONSTANT .. OP_NEGATE

\* The items from j on are unwritten, and those before it are in the chunk.
WrittenTo(byHand, depth, j) ==
  /\ j \in 1 .. Len(byHand) + 1
  /\ IsSequence(unwritten) /\ Len(unwritten) = Len(byHand) - j + 1
  /\ \A i \in 1 .. Len(unwritten) : unwritten[i] = byHand[i + j - 1]
  /\ Pool < j
  /\ IF j = Len(byHand) + 1 THEN Closed(Bytes, Pool) ELSE Open(Bytes, Pool, depth[j])

Builds == doing = "build" => \E byHand, depth, j : Describes(byHand, depth) /\ WrittenTo(byHand, depth, j)

LEMMA HandBuiltDescribed ==
  ASSUME NEW byHand \in HandBuilt
  PROVE  \E depth : Describes(byHand, depth)
<1> DEFINE n == Len(byHand)
           N == ByteSize * ByteSize * ByteSize
<1>1. /\ byHand \in Seq({byHand[i] : i \in DOMAIN byHand})
      /\ n \in 1 .. N
  BY HandBuiltAssumption
<1>2. PICK depth \in [1 .. n + 1 -> 0 .. n] :
         /\ depth[1] = 0
         /\ \A i \in 1 .. n :
              LET opcode == byHand[i].opcode
              IN /\ opcode \in Nat \ {OP_CONSTANT_LONG}
                 /\ opcode = OP_CONSTANT => depth[i + 1] = depth[i] + 1
                 /\ opcode \in OP_ADD .. OP_DIVIDE => depth[i] >= 2 /\ depth[i + 1] = depth[i] - 1
                 /\ opcode = OP_NEGATE => depth[i] >= 1 /\ depth[i + 1] = depth[i]
                 /\ opcode = OP_RETURN => depth[i] >= 1
                 /\ i = n => opcode \notin OP_CONSTANT .. OP_NEGATE
  BY HandBuiltAssumption
<1>3. IsSequence(byHand)
  BY <1>1 DEF IsSequence
<1>4. \A i \in 1 .. n + 1 : depth[i] \in Nat
  BY <1>2
<1>5. Describes(byHand, depth)
  BY <1>1, <1>2, <1>3, <1>4 DEF Describes
<1>. QED
  BY <1>5

\* The first of a sequence taken from it.
LEMMA Taken ==
  ASSUME NEW s, IsSequence(s), s # <<>>
  PROVE  LET r == Tail(s)
         IN /\ Len(s) \in Nat \ {0} /\ Head(s) = s[1]
            /\ IsSequence(r) /\ Len(r) = Len(s) - 1 /\ \A i \in 1 .. Len(r) : r[i] = s[i + 1]
<1>1. PICK S : s \in Seq(S)
  BY DEF IsSequence
<1> DEFINE r == Tail(s)
<1>2. Len(s) \in Nat \ {0} /\ Head(s) = s[1]
  BY <1>1
<1>3. r \in Seq(S) /\ Len(r) = Len(s) - 1 /\ \A i \in 1 .. Len(r) : r[i] = s[i + 1]
  BY <1>1
<1> HIDE DEF r
<1>4. IsSequence(r)
  BY <1>3 DEF IsSequence
<1>. QED
  BY <1>2, <1>3, <1>4 DEF r

LEMMA BeginsBuild ==
  ASSUME NEW byHand \in HandBuilt, BuildByHand(byHand), mem' = mem
  PROVE  Builds'
<1>1. unwritten' = byHand /\ chunk' = emptyChunk
  BY DEF BuildByHand
<1>2. PICK depth : Describes(byHand, depth)
  BY HandBuiltDescribed
<1>3. IsSequence(byHand) /\ Len(byHand) \in Nat /\ Len(byHand) >= 1 /\ depth[1] = 0
  <2> DEFINE n == Len(byHand)
             N == ByteSize * ByteSize * ByteSize
  <2>1. n \in 1 .. N
    BY <1>2 DEF Describes
  <2> HIDE DEF n, N
  <2>2. n \in Nat /\ n >= 1
    BY <2>1
  <2>. QED BY <1>2, <2>2 DEF Describes, n
<1>4. Bytes' = Contents(mem, emptyChunk.code) /\ Pool' = 0 /\ emptyChunk.code.count = 0
  BY <1>1 DEF Bytes, Pool, emptyChunk, EmptyArray
<1>5. Len(Bytes') = 0
  BY <1>4, ContentsSequence
<1>6. Open(Bytes', Pool', 0)
  BY <1>5, OpenNothing
<1> DEFINE n == Len(byHand)
<1> HIDE DEF n
<1>7. WrittenTo(byHand, depth, 1)'
  <2>1. n \in Nat /\ n >= 1
    BY <1>3 DEF n
  <2>2. 1 \in 1 .. n + 1 /\ n = n - 1 + 1 /\ 1 # n + 1 /\ \A i \in 1 .. n : i = i + 1 - 1
    BY <2>1
  <2>3. \A i \in 1 .. n : byHand[i] = byHand[i + 1 - 1]
    BY <2>2
  <2>4. Pool' < 1
    BY <1>4
  <2>. QED BY <1>1, <1>3, <1>6, <2>2, <2>3, <2>4 DEF WrittenTo, n
<1>. QED
  BY <1>2, <1>7 DEF Builds

LEMMA WritesByHand ==
  ASSUME Holds(Now, chunk), Builds, WriteByHand
  PROVE  Builds'
<1> DEFINE now == [mem |-> mem, chunk |-> chunk]
           item == Head(unwritten)
           op == item.opcode
           more == Append(Bytes, op)
<1>1. doing = "build" /\ unwritten # <<>> /\ unwritten' = Tail(unwritten)
  BY DEF WriteByHand
<1>2. PICK byHand, depth, j : Describes(byHand, depth) /\ WrittenTo(byHand, depth, j)
  BY <1>1 DEF Builds
<1> DEFINE n == Len(byHand)
           N == ByteSize * ByteSize * ByteSize
           left == Len(unwritten)
<1>3. /\ left \in Nat \ {0} /\ item = unwritten[1]
      /\ IsSequence(unwritten') /\ Len(unwritten') = left - 1
      /\ \A i \in 1 .. Len(unwritten') : unwritten'[i] = unwritten[i + 1]
  <2>1. IsSequence(unwritten)
    BY <1>2 DEF WrittenTo
  <2>. QED BY <1>1, <2>1, Taken
<1>4. n \in 1 .. N /\ N \in Nat
  BY <1>2, ByteSizeAssumption DEF Describes
<1>5. j \in 1 .. n + 1 /\ left = n - j + 1 /\ \A i \in 1 .. left : unwritten[i] = byHand[i + j - 1]
  BY <1>2 DEF WrittenTo
<1> HIDE DEF n, N, left, item, more
<1>6. n \in Nat /\ j \in 1 .. n /\ 1 \in 1 .. left /\ 1 + j - 1 = j /\ j \in Nat /\ j + 1 \in 1 .. n + 1 /\ j # n + 1
      /\ Len(unwritten') = n - (j + 1) + 1
  BY <1>3, <1>4, <1>5
<1>7. item = byHand[j]
  BY <1>3, <1>5, <1>6
<1>8. ASSUME NEW i \in 1 .. Len(unwritten')
      PROVE  unwritten'[i] = byHand[i + (j + 1) - 1]
  <2>1. i + 1 \in 1 .. left /\ (i + 1) + j - 1 = i + (j + 1) - 1
    BY <1>3, <1>5, <1>6
  <2>2. unwritten'[i] = unwritten[i + 1]
    BY <1>3
  <2>3. unwritten[i + 1] = byHand[(i + 1) + j - 1]
    BY <1>5, <2>1
  <2>. QED BY <2>1, <2>2, <2>3
<1>9. Pool < j /\ Open(Bytes, Pool, depth[j]) /\ depth[j] \in Nat /\ depth[j + 1] \in Nat
  <2>1. j \in 1 .. n + 1
    BY <1>6
  <2>. QED BY <1>2, <1>6, <2>1 DEF WrittenTo, Describes, n
<1>10. /\ op \in Nat \ {OP_CONSTANT_LONG}
       /\ op = OP_CONSTANT => depth[j + 1] = depth[j] + 1
       /\ op \in OP_ADD .. OP_DIVIDE => depth[j] >= 2 /\ depth[j + 1] = depth[j] - 1
       /\ op = OP_NEGATE => depth[j] >= 1 /\ depth[j + 1] = depth[j]
       /\ op = OP_RETURN => depth[j] >= 1
       /\ j = n => op \notin OP_CONSTANT .. OP_NEGATE
  BY <1>2, <1>6, <1>7 DEF Describes, n
<1>11. IsSequence(Bytes) /\ Pool \in Nat
  BY BytesSequence
<1>12. Pool < N
  BY <1>4, <1>6, <1>9, <1>11
<1>13. CASE op = OP_CONSTANT
  <2> DEFINE value == item.value
  <2>1. mem' = writeConstant(now, value, 1).mem /\ chunk' = writeConstant(now, value, 1).chunk
    BY <1>13, Zenon DEF WriteByHand, item
  <2>2. ~PoolFull(now)
    BY <1>11, <1>12, PoolRoom DEF N
  <2> HIDE DEF value
  <2>3. Bytes' = LoadBytes(Bytes, Pool) /\ Pool' = Pool + 1
    BY <2>1, <2>2, EmitsConstant
  <2>4. Open(Bytes', Pool', depth[j + 1])
    BY <1>9, <1>10, <1>11, <1>12, <1>13, <2>3, OpenConstant DEF N
  <2>5. j # n
    BY <1>10, <1>13 DEF OP_CONSTANT, OP_NEGATE
  <2>6. j + 1 # n + 1 /\ Pool' < j + 1
    BY <1>6, <1>9, <1>11, <2>3, <2>5
  <2>7. WrittenTo(byHand, depth, j + 1)'
    BY <1>3, <1>6, <1>8, <2>4, <2>6 DEF WrittenTo, n
  <2>. QED BY <1>2, <2>7 DEF Builds
<1>14. CASE op # OP_CONSTANT
  <2>1. mem' = writeChunk(now, op, 1).mem /\ chunk' = writeChunk(now, op, 1).chunk
    BY <1>14, Zenon DEF WriteByHand, item
  <2> HIDE DEF op
  <2>2. Bytes' = more /\ Pool' = Pool
    BY <2>1, EmitsByte DEF more
  <2>3. Pool' < j + 1
    BY <1>6, <1>9, <1>11, <2>2
  <2>4. CASE j = n
    <3>1. Closed(more, Pool)
      BY <1>9, <1>10, <1>11, <2>4, CloseByte DEF more
    <3>2. WrittenTo(byHand, depth, j + 1)'
      BY <1>3, <1>6, <1>8, <2>2, <2>3, <2>4, <3>1 DEF WrittenTo, n
    <3>. QED BY <1>2, <3>2 DEF Builds
  <2>5. CASE j # n
    <3>1. Leaves(op, depth[j], depth[j + 1])
      BY <1>9, <1>10, <1>14 DEF Leaves
    <3>2. Open(more, Pool, depth[j + 1])
      BY <1>9, <1>11, <3>1, OpenByte DEF more
    <3>3. j + 1 # n + 1
      BY <1>6, <2>5
    <3>4. WrittenTo(byHand, depth, j + 1)'
      BY <1>3, <1>6, <1>8, <2>2, <2>3, <3>2, <3>3 DEF WrittenTo, n
    <3>. QED BY <1>2, <3>4 DEF Builds
  <2>. QED BY <2>4, <2>5
<1>. QED
  BY <1>13, <1>14

\* A chunk built by hand is a program once all of it is written.
LEMMA Built ==
  ASSUME Builds, doing = "build", unwritten = <<>>
  PROVE  Closed(Bytes, Pool)
<1>1. PICK byHand, depth, j : Describes(byHand, depth) /\ WrittenTo(byHand, depth, j)
  BY DEF Builds
<1> DEFINE n == Len(byHand)
           N == ByteSize * ByteSize * ByteSize
<1>2. n \in 1 .. N
  BY <1>1 DEF Describes
<1>3. j \in 1 .. n + 1 /\ Len(unwritten) = n - j + 1
  BY <1>1 DEF WrittenTo
<1>4. Len(unwritten) = 0
  OBVIOUS
<1> HIDE DEF n, N
<1>5. j = n + 1
  BY <1>2, <1>3, <1>4
<1>. QED
  BY <1>1, <1>5 DEF WrittenTo, n
-----------------------------------------------------------------------------
(* What holds in every state *)

Runs == Executing => \E depth, o : At(depth, o)

\* Nothing was misused, the stack has its values, and what the compiler has
\* emitted, what is written by hand and what runs are programs.
IInv ==
  /\ Kept
  /\ mem.wild = FALSE
  /\ doing # "exited" => \E h : Height(vm, h)
  /\ result \in {0, 65, 70}
  /\ Compiles
  /\ Builds
  /\ Runs

LEMMA FreshParser == IsParser(C!Fresh)
<1>1. C!Fresh.messages = <<>> /\ C!Fresh.hadError = FALSE /\ C!Fresh.panicMode = FALSE
      /\ C!Fresh = [current |-> C!Fresh.current, previous |-> C!Fresh.previous, next |-> C!Fresh.next,
                    hadError |-> C!Fresh.hadError, panicMode |-> C!Fresh.panicMode, messages |-> C!Fresh.messages]
  BY DEF C!Fresh
<1>2. IsSequence(<<>>) /\ Len(<<>>) = 0
  <2>1. <<>> \in Seq({}) /\ Len(<<>>) = 0
    OBVIOUS
  <2>. QED BY <2>1 DEF IsSequence
<1> DEFINE p == C!Fresh
           none == <<>>
<1> HIDE DEF p, none
<1>3. IsSequence(p.messages) /\ Len(p.messages) = 0
  <2>1. p.messages = none
    BY <1>1 DEF p, none
  <2>. QED BY <1>2, <2>1 DEF none
<1> DEFINE no == FALSE
<1> HIDE DEF no
<1>5. p.hadError = no /\ p.panicMode = no
      /\ p = [current |-> p.current, previous |-> p.previous, next |-> p.next,
              hadError |-> p.hadError, panicMode |-> p.panicMode, messages |-> p.messages]
  BY <1>1 DEF p, no
<1>6. no \in BOOLEAN /\ ~no
  BY DEF no
<1>7. p.hadError \in BOOLEAN /\ p.panicMode = p.hadError /\ ~p.hadError
  BY <1>5, <1>6
<1>8. Len(p.messages) = IF p.hadError THEN 1 ELSE 0
  BY <1>3, <1>7
<1>9. IsParser(p)
  BY <1>3, <1>5, <1>7, <1>8, Zenon DEF IsParser
<1>. QED
  BY <1>9 DEF p

LEMMA InitSafe == Init => IInv
<1> SUFFICES ASSUME Init PROVE IInv
  OBVIOUS
<1>1. Kept /\ mem.wild = FALSE /\ Height(vm, 0)
  BY InitKept, InitVM
<1>2. parser = C!Fresh /\ doing = "nothing" /\ result = 0
  BY DEF Init
<1>3. IsParser(parser)
  BY <1>2, FreshParser
<1>. QED
  BY <1>1, <1>2, <1>3 DEF IInv, Compiles, Builds, Runs, Executing

\* A text begins with one call of compile.
LEMMA BeginsCompile ==
  ASSUME NEW text, NEW mode, Run(text, mode)
  PROVE  Compiles'
<1> DEFINE call == C!Call("compile", 0)
<1>1. parser' = C!Fresh /\ frames' = <<call>> /\ mem' = mem /\ chunk' = emptyChunk
  BY DEF Run, C!Begin
<1>2. IsParser(parser')
  BY <1>1, FreshParser
<1>3. Bytes' = Contents(mem, emptyChunk.code) /\ Pool' = 0 /\ emptyChunk.code.count = 0
  BY <1>1 DEF Bytes, Pool, emptyChunk, EmptyArray
<1>4. Open(Bytes', Pool', 0)
  <2>1. Len(Bytes') = 0
    BY <1>3, ContentsSequence
  <2>. QED BY <2>1, OpenNothing
<1>5. call.name = "compile"
  BY DEF C!Call
<1> HIDE DEF call
<1>6. Calls(frames', 0)
  <2> DEFINE one == <<call>>
  <2>1. Calls(one, 0)
    BY <1>5, CallsLast
  <2>2. frames' = one
    BY <1>1
  <2> HIDE DEF one
  <2>. QED BY <2>1, <2>2
<1>. QED
  BY <1>2, <1>4, <1>6, StillCompiles

\* interpretChunk starts a program at its first instruction.
LEMMA BeginsRun ==
  ASSUME Holds(Now, chunk), vm' = M!interpretChunk(vm, chunk), UNCHANGED <<mem, chunk>>, Closed(Bytes, Pool)
  PROVE  Runs' /\ Height(vm', 0)
<1>1. vm'.chunk = TRUE /\ vm'.ip = M!Pointer(chunk.code.ptr, 0) /\ Height(vm', 0)
  BY Interprets
<1>2. PICK depth : Program(Bytes, Pool, depth) /\ Len(Bytes) \notin DOMAIN depth
  BY DEF Closed
<1>3. Bytes' = Bytes /\ Pool' = Pool
  BY DEF Bytes, Pool
<1>4. 0 \in DOMAIN depth /\ depth[0] = 0
  BY <1>2 DEF Program
<1>5. At(depth, 0)'
  BY <1>1, <1>2, <1>3, <1>4 DEF At
<1>. QED
  BY <1>1, <1>5 DEF Runs

LEMMA StepSafe == IInv /\ [Next]_vars => IInv'
<1> SUFFICES ASSUME IInv, [Next]_vars PROVE IInv'
  OBVIOUS
<1>1. Holds(Now, chunk) /\ Kept' /\ mem.wild = FALSE /\ result \in {0, 65, 70} /\ IsParser(parser)
      /\ (doing # "exited" => \E h : Height(vm, h)) /\ Compiles /\ Builds /\ Runs
  BY StepKept DEF IInv, Kept, Compiles
<1>2. CASE Input
  <2>1. mem' = mem /\ vm' = vm /\ result' = result /\ doing # "exited" /\ doing' \in {"interpret", "dump", "build"}
    BY <1>2 DEF Input, Run, BuildByHand, Idle
  <2>2. Compiles' /\ Builds'
    <3>1. CASE \E text \in Sources, mode \in {"interpret", "dump"} : Run(text, mode)
      <4>1. doing' # "build"
        BY <3>1 DEF Run
      <4>. QED BY <3>1, <4>1, BeginsCompile DEF Builds
    <3>2. CASE \E byHand \in HandBuilt : BuildByHand(byHand)
      <4>1. Builds'
        BY <2>1, <3>2, BeginsBuild
      <4>2. doing' = "build" /\ parser' = parser
        BY <3>2 DEF BuildByHand, compilerVars
      <4>. QED BY <1>1, <4>1, <4>2 DEF Compiles
    <3>. QED BY <1>2, <3>1, <3>2 DEF Input
  <2>3. Runs'
    BY <2>1 DEF Runs, Executing
  <2>. QED BY <1>1, <2>1, <2>2, <2>3 DEF IInv
<1>3. CASE CompileStep
  <2>1. C!Next /\ vm' = vm /\ doing' = doing /\ doing \in {"interpret", "dump"} /\ result' = result
    BY <1>3 DEF CompileStep, Compiling
  <2>2. mem.wild' = mem.wild
    BY <1>1, <2>1, CompilerWrites, WritesHold
  <2>3. Compiles'
    BY <1>3, StepCompiles DEF IInv
  <2>4. Builds' /\ Runs'
    BY <2>1 DEF Builds, Runs, Executing
  <2>. QED BY <1>1, <2>1, <2>2, <2>3, <2>4 DEF IInv
<1>4. CASE NotRun
  <2>1. DropChunk /\ vm' = vm /\ doing' = "nothing" /\ doing # "exited" /\ parser' = parser /\ result' \in {0, 65, 70}
    BY <1>4 DEF NotRun, Compiled, compilerVars
  <2>2. IsMachine(vm') /\ Stack(vm') = Stack(vm)
    BY <1>1, <2>1, HoldsShared DEF Now
  <2>3. mem.wild' = mem.wild
    BY <1>1, <2>1, <2>2, Drops
  <2>4. Compiles' /\ Builds' /\ Runs'
    BY <1>1, <2>1 DEF Compiles, Builds, Runs, Executing
  <2>. QED BY <1>1, <2>1, <2>3, <2>4 DEF IInv
<1>5. CASE InterpretChunk \/ RunByHand
  <2>1. vm' = M!interpretChunk(vm, chunk) /\ UNCHANGED <<mem, chunk>> /\ doing' \in {"run", "run by hand"}
        /\ result' = result /\ parser' = parser
    BY <1>5 DEF InterpretChunk, RunByHand, compilerVars
  <2>2. Closed(Bytes, Pool)
    <3>1. CASE InterpretChunk
      BY <1>1, <3>1 DEF InterpretChunk, Compiled, Compiles
    <3>2. CASE RunByHand
      BY <1>1, <3>2, Built DEF RunByHand
    <3>. QED BY <1>5, <3>1, <3>2
  <2>3. Runs' /\ Height(vm', 0)
    BY <1>1, <2>1, <2>2, BeginsRun
  <2>4. Compiles' /\ Builds'
    BY <1>1, <2>1 DEF Compiles, Builds
  <2>. QED BY <1>1, <2>1, <2>3, <2>4 DEF IInv
<1>6. CASE WriteByHand
  <2>1. vm' = vm /\ doing' = doing /\ doing = "build" /\ result' = result /\ parser' = parser
    BY <1>6 DEF WriteByHand, vmVars, compilerVars
  <2> DEFINE now == [mem |-> mem, chunk |-> chunk]
  <2>2. \/ \E byte, line : LET s == writeChunk(now, byte, line) IN mem' = s.mem /\ chunk' = s.chunk
        \/ \E value, line : LET s == writeConstant(now, value, line) IN mem' = s.mem /\ chunk' = s.chunk
    <3>1. CASE Head(unwritten).opcode = OP_CONSTANT
      BY <1>6, <3>1, Zenon DEF WriteByHand
    <3>2. CASE Head(unwritten).opcode # OP_CONSTANT
      BY <1>6, <3>2, Zenon DEF WriteByHand
    <3>. QED BY <3>1, <3>2
  <2>3. mem.wild' = mem.wild
    BY <1>1, <2>1, <2>2, WritesHold
  <2>4. Builds'
    BY <1>1, <1>6, WritesByHand
  <2>5. Compiles' /\ Runs'
    BY <1>1, <2>1 DEF Compiles, Runs, Executing
  <2>. QED BY <1>1, <2>1, <2>3, <2>4, <2>5 DEF IInv
<1>7. CASE RunStep
  <2>1. M!run /\ Executing /\ status = NULL /\ doing' = doing /\ doing \in {"run", "run by hand"}
        /\ result' = result /\ parser' = parser
    BY <1>7 DEF RunStep, Executing, compilerVars
  <2>2. PICK depth, o : At(depth, o)
    BY <1>1, <2>1 DEF Runs
  <2>3. mem.wild' = mem.wild /\ (\E h : Height(vm', h)) /\ (status' = NULL => \E p : At(depth, p)')
    BY <1>1, <2>1, <2>2, Turns
  <2>4. Runs'
    BY <2>3 DEF Runs, Executing
  <2>5. Compiles' /\ Builds'
    BY <1>1, <2>1 DEF Compiles, Builds
  <2>. QED BY <1>1, <2>1, <2>3, <2>4, <2>5 DEF IInv
<1>8. CASE RunReturned
  <2>1. DropChunk /\ doing' = "nothing" /\ doing # "exited" /\ parser' = parser /\ result' \in {0, 65, 70}
    BY <1>1, <1>8 DEF RunReturned, compilerVars
  <2>2. IsMachine(vm') /\ Stack(vm') = Stack(vm)
        /\ vm'.stackTop = vm.stackTop /\ vm'.stack = vm.stack /\ vm'.stackCapacity = vm.stackCapacity
    BY <1>1, <1>8, Forgets
  <2>3. mem.wild' = mem.wild
    BY <1>1, <2>1, <2>2, Drops
  <2>4. \E h : Height(vm', h)
    BY <1>1, <2>1, <2>2 DEF Height
  <2>5. Compiles' /\ Builds' /\ Runs'
    BY <1>1, <2>1 DEF Compiles, Builds, Runs, Executing
  <2>. QED BY <1>1, <2>1, <2>3, <2>4, <2>5 DEF IInv
<1>9. CASE Exit
  <2>1. doing' = "exited" /\ result' = result /\ parser' = parser
    BY <1>9 DEF Exit, compilerVars
  <2>2. mem.wild' = mem.wild
    BY <1>1, <1>9, FreesStack
  <2>3. Compiles' /\ Builds' /\ Runs'
    BY <1>1, <2>1 DEF Compiles, Builds, Runs, Executing
  <2>. QED BY <1>1, <2>1, <2>2, <2>3 DEF IInv
<1>10. CASE UNCHANGED vars
  <2>1. Compiles' /\ Builds'
    BY <1>1, <1>10 DEF vars, Compiles, Builds, Bytes, Pool, WrittenTo
  <2>2. Runs'
    BY <1>1, <1>10 DEF vars, Runs, Executing, At, Bytes, Pool
  <2>. QED BY <1>1, <1>10, <2>1, <2>2 DEF vars, IInv
<1>. QED
  BY <1>2, <1>3, <1>4, <1>5, <1>6, <1>7, <1>8, <1>9, <1>10 DEF Next, Proceed, Exited

LEMMA AlwaysSafe == Spec => []IInv
<1>. QED
  BY InitSafe, StepSafe, PTL DEF Spec

\* Whatever texts are compiled, dumped, run and freed, and whatever chunks a
\* program builds by hand as run needs them, no pointer is used after its block
\* has moved, no array is read or written past its end and no value is popped
\* that was not pushed: what compile accepts is code whose every instruction
\* finds its operands, which neither run nor the loader checks.
THEOREM NothingIsMisused == Spec => []MemorySafe
<1>1. IInv => MemorySafe
  BY DEF IInv, MemorySafe
<1>. QED
  BY <1>1, AlwaysSafe, PTL

\* compile says one thing at most about a text, and fails if and only if it
\* said something: panicMode is never cleared before the next text.
THEOREM ReportsOneError ==
  Spec => [](Len(parser.messages) <= 1 /\ (parser.hadError <=> Len(parser.messages) = 1))
<1>1. IInv => Len(parser.messages) <= 1 /\ (parser.hadError <=> Len(parser.messages) = 1)
  BY DEF IInv, Compiles, IsParser
<1>. QED
  BY <1>1, AlwaysSafe, PTL

\* The stack is always a live block of its capacity, with stackTop in it.
THEOREM StackIsThere == Spec => []TypeOK
<1>1. IInv => TypeOK
  <2> SUFFICES ASSUME IInv PROVE TypeOK
    OBVIOUS
  <2>1. /\ doing \in {"nothing", "interpret", "dump", "run", "build", "run by hand", "exited"}
        /\ result \in {0, 65, 70}
    BY DEF IInv, Kept
  <2>2. ASSUME doing # "exited"
        PROVE  /\ vm.stack \in Live(mem)
               /\ DOMAIN mem.blocks[vm.stack] = 0 .. vm.stackCapacity - 1
               /\ vm.stackTop.block = vm.stack
               /\ vm.stackTop.offset \in 0 .. vm.stackCapacity
    <3>1. Holds(Now, chunk) /\ vm.stackCapacity > 0
      BY <2>2 DEF IInv, Kept
    <3>2. PICK h : Height(vm, h)
      BY <2>2 DEF IInv
    <3>3. Fits(mem, Stack(vm))
      BY <3>1, HoldsShared DEF Now, Shared
    <3>4. Stack(vm).ptr = vm.stack /\ Stack(vm).capacity = vm.stackCapacity
      BY DEF Stack
    <3>. QED BY <3>1, <3>2, <3>3, <3>4, PointerFields DEF Fits, Height
  <2>. QED BY <2>1, <2>2 DEF TypeOK
<1>. QED
  BY <1>1, AlwaysSafe, PTL
=============================================================================
