---------------------------- MODULE ChunkProofs -----------------------------
(***************************************************************************)
(* Proofs about clox/memory.c, line.c and chunk.c: what reallocate, an     *)
(* array that grows and a chunk that is written do to the memory they      *)
(* share, and that they leave what else is in it alone.                    *)
(***************************************************************************)
EXTENDS Chunk, FiniteSetTheorems, TLAPS

\* A memory, misused or not.
Sound(m) ==
  /\ m = [blocks |-> m.blocks, tally |-> m.tally, wild |-> m.wild]
  /\ m.tally \in Int /\ m.wild \in BOOLEAN
  /\ IsFiniteSet(Live(m))
  /\ NULL \notin Live(m)

\* The array has the block its pointer and its capacity speak of, and room for
\* what it counts.
Fits(m, a) ==
  /\ a = [ptr |-> a.ptr, count |-> a.count, capacity |-> a.capacity]
  /\ a.capacity \in Nat /\ a.count \in 0 .. a.capacity
  /\ a.ptr = NULL <=> a.capacity = 0
  /\ a.ptr # NULL => a.ptr \in Live(m) /\ DOMAIN m.blocks[a.ptr] = 0 .. a.capacity - 1

Apart(a, b) == a.ptr # NULL => a.ptr # b.ptr

\* Four arrays share the memory and nothing else is in it.
Shared(m, a, b, c, d) ==
  /\ Sound(m)
  /\ Fits(m, a) /\ Fits(m, b) /\ Fits(m, c) /\ Fits(m, d)
  /\ Apart(a, b) /\ Apart(a, c) /\ Apart(a, d) /\ Apart(b, c) /\ Apart(b, d) /\ Apart(c, d)
  /\ Live(m) = {a.ptr, b.ptr, c.ptr, d.ptr} \ {NULL}
  /\ m.tally = a.capacity + b.capacity + c.capacity + d.capacity

\* What the array holds.
Contents(m, a) == [i \in 1 .. a.count |-> Load(m, a.ptr, i - 1)]

-----------------------------------------------------------------------------
(* Sequences of anything *)

IsSequence(s) == \E S : s \in Seq(S)

LEMMA Appended ==
  ASSUME NEW s, IsSequence(s), NEW x
  PROVE  LET r == Append(s, x)
         IN /\ IsSequence(r) /\ Len(s) \in Nat /\ Len(r) = Len(s) + 1 /\ r[Len(s) + 1] = x
            /\ \A i \in 1 .. Len(s) : r[i] = s[i]
<1>1. PICK S : s \in Seq(S)
  BY DEF IsSequence
<1>2. s \in Seq(S \cup {x}) /\ x \in S \cup {x}
  BY <1>1
<1>3. Append(s, x) \in Seq(S \cup {x})
  BY <1>2
<1>. QED
  BY <1>1, <1>3 DEF IsSequence

\* What an array holds is a sequence as long as its count.
LEMMA ContentsSequence ==
  ASSUME NEW m, NEW a, a.count \in Nat
  PROVE  IsSequence(Contents(m, a)) /\ Len(Contents(m, a)) = a.count
<1> DEFINE n == a.count
           s == Contents(m, a)
           S == {s[i] : i \in 1 .. n}
<1>1. s = [i \in 1 .. n |-> s[i]]
  BY DEF Contents
<1>2. \A i \in 1 .. n : s[i] \in S
  OBVIOUS
<1> HIDE DEF S, s, n
<1>3. s \in [1 .. n -> S] /\ n \in Nat
  BY <1>1, <1>2 DEF n
<1>4. s \in Seq(S) /\ Len(s) = n
  BY <1>3
<1>. QED
  BY <1>4 DEF IsSequence, s, n

-----------------------------------------------------------------------------
(* reallocate *)

\* The block number reallocate chooses exists.
LEMMA FreshBlock ==
  ASSUME NEW S, IsFiniteSet(S)
  PROVE  \E b \in 1 .. Cardinality(S) + 1 : b \notin S
<1> DEFINE n == Cardinality(S)
<1>1. n \in Nat
  BY FS_CardinalityType
<1> HIDE DEF n
<1>2. SUFFICES ASSUME 1 .. n + 1 \subseteq S PROVE FALSE
  BY DEF n
<1>3. Cardinality(1 .. n + 1) <= n
  BY <1>2, FS_Subset DEF n
<1>4. Cardinality(1 .. n + 1) = n + 1
  <2>1. n + 1 \in Int /\ 1 \in Int /\ 1 <= n + 1
    BY <1>1
  <2>2. Cardinality(1 .. n + 1) = IF 1 > n + 1 THEN 0 ELSE n + 1 - 1 + 1
    BY <1>1, FS_Interval
  <2>. QED BY <2>1, <2>2, <1>1
<1>. QED
  BY <1>1, <1>3, <1>4

\* n is m with a block of newSize cells in place of block: one nobody had, with
\* the old contents as far as they go.
Replaced(m, block, oldSize, newSize, n, ptr) ==
  /\ Sound(n)
  /\ ptr # NULL /\ ptr \notin Live(m)
  /\ Live(n) = (Live(m) \ {block}) \cup {ptr}
  /\ DOMAIN n.blocks[ptr] = 0 .. newSize - 1
  /\ \A i \in 0 .. newSize - 1 : Load(n, ptr, i) = Load(m, block, i)
  /\ \A b \in Live(m) \ {block} : n.blocks[b] = m.blocks[b]
  /\ n.tally = m.tally + newSize - oldSize
  /\ n.wild = m.wild

\* n is m without block.
Released(m, block, oldSize, n) ==
  /\ Sound(n)
  /\ Live(n) = Live(m) \ {block}
  /\ \A b \in Live(m) \ {block} : n.blocks[b] = m.blocks[b]
  /\ n.tally = m.tally - oldSize
  /\ n.wild = m.wild

\* n is m but for one cell.
Written(m, block, offset, x, n) ==
  /\ Sound(n)
  /\ Live(n) = Live(m) /\ n.tally = m.tally /\ n.wild = m.wild
  /\ \A b \in Live(m) : DOMAIN n.blocks[b] = DOMAIN m.blocks[b]
  /\ \A b \in Live(m) \ {block} : n.blocks[b] = m.blocks[b]
  /\ \A i : Load(n, block, i) = IF i = offset THEN x ELSE Load(m, block, i)

\* reallocate to a size above zero
LEMMA Reallocates ==
  ASSUME NEW m, Sound(m), NEW block, block = NULL \/ block \in Live(m),
         NEW oldSize \in Nat, NEW newSize \in Nat \ {0}
  PROVE  LET r == reallocate(m, block, oldSize, newSize)
         IN Replaced(m, block, oldSize, newSize, r.mem, r.ptr)
<1> DEFINE r == reallocate(m, block, oldSize, newSize)
           fresh == CHOOSE b \in 1 .. Cardinality(Live(m)) + 1 : b \notin Live(m)
           kept == Live(m) \ {block}
           moved == [i \in 0 .. newSize - 1 |-> Load(m, block, i)]
           both == [b \in kept \cup {fresh} |-> IF b = fresh THEN moved ELSE m.blocks[b]]
           bad == m.wild \/ (block # NULL /\ block \notin Live(m))
<1>1. /\ r.ptr = fresh
      /\ r.mem = [blocks |-> both, tally |-> m.tally + newSize - oldSize, wild |-> m.wild]
  <2>1. bad = m.wild
    BY DEF Sound
  <2>2. r = [ptr |-> fresh, mem |-> [blocks |-> both, tally |-> m.tally + newSize - oldSize, wild |-> bad]]
    BY DEF reallocate
  <2> HIDE DEF fresh, both, bad, r
  <2>. QED BY <2>1, <2>2
<1>2. fresh \in Nat /\ fresh \notin Live(m)
  <2>1. \E b \in 1 .. Cardinality(Live(m)) + 1 : b \notin Live(m)
    BY FreshBlock DEF Sound
  <2>2. Cardinality(Live(m)) \in Nat
    BY FS_CardinalityType DEF Sound
  <2>. QED BY <2>1, <2>2
<1>3. fresh # NULL
  BY <1>2, NullAssumption
<1> HIDE DEF fresh
<1>5. DOMAIN moved = 0 .. newSize - 1 /\ \A i \in 0 .. newSize - 1 : moved[i] = Load(m, block, i)
  OBVIOUS
<1> HIDE DEF moved
<1>7. /\ DOMAIN both = (Live(m) \ {block}) \cup {fresh}
      /\ both[fresh] = moved
      /\ \A b \in Live(m) \ {block} : both[b] = m.blocks[b]
  BY <1>2
<1> HIDE DEF both
<1>8. Live(r.mem) = (Live(m) \ {block}) \cup {fresh} /\ r.mem.blocks = both
  BY <1>1, <1>7 DEF Live
<1>9. Sound(r.mem)
  <2>1. r.mem = [blocks |-> r.mem.blocks, tally |-> r.mem.tally, wild |-> r.mem.wild]
    BY <1>1
  <2>4. r.mem.tally \in Int /\ r.mem.wild \in BOOLEAN
    BY <1>1 DEF Sound
  <2>2. IsFiniteSet(Live(r.mem))
    <3>1. IsFiniteSet(Live(m) \ {block})
      BY FS_Subset DEF Sound
    <3>2. IsFiniteSet((Live(m) \ {block}) \cup {fresh})
      BY <3>1, FS_AddElement
    <3>. QED BY <3>2, <1>8
  <2>3. NULL \notin Live(r.mem)
    BY <1>8, <1>3 DEF Sound
  <2>. QED BY <2>1, <2>2, <2>3, <2>4 DEF Sound
<1>10. \A i \in 0 .. newSize - 1 : Load(r.mem, fresh, i) = Load(m, block, i)
  <2> SUFFICES ASSUME NEW i \in 0 .. newSize - 1
               PROVE  Load(r.mem, fresh, i) = Load(m, block, i)
    OBVIOUS
  <2>1. Valid(r.mem, fresh, i)
    BY <1>8, <1>7, <1>5 DEF Valid
  <2>2. Load(r.mem, fresh, i) = moved[i]
    BY <2>1, <1>8, <1>7 DEF Load
  <2>. QED BY <2>2, <1>5
<1>11. r.mem.tally = m.tally + newSize - oldSize /\ r.mem.wild = m.wild
  BY <1>1
<1> HIDE DEF r
<1>12. Replaced(m, block, oldSize, newSize, r.mem, fresh)
  BY <1>2, <1>3, <1>5, <1>7, <1>8, <1>9, <1>10, <1>11 DEF Replaced
<1>13. r.ptr = fresh
  BY <1>1 DEF r
<1>. QED
  BY <1>12, <1>13 DEF r

\* reallocate to zero
LEMMA Releases ==
  ASSUME NEW m, Sound(m), NEW block, block = NULL \/ block \in Live(m),
         NEW oldSize \in Nat
  PROVE  LET r == reallocate(m, block, oldSize, 0)
         IN r.ptr = NULL /\ Released(m, block, oldSize, r.mem)
<1> DEFINE r == reallocate(m, block, oldSize, 0)
           kept == Restrict(m.blocks, Live(m) \ {block})
           bad == m.wild \/ (block # NULL /\ block \notin Live(m))
<1>1. r.ptr = NULL /\ r.mem = [blocks |-> kept, tally |-> m.tally - oldSize, wild |-> m.wild]
  <2>1. m.tally + 0 - oldSize = m.tally - oldSize
    BY DEF Sound
  <2>2. bad = m.wild
    BY DEF Sound
  <2>3. r = [ptr |-> NULL, mem |-> [blocks |-> kept, tally |-> m.tally + 0 - oldSize, wild |-> bad]]
    BY DEF reallocate
  <2> HIDE DEF kept, bad, r
  <2>. QED BY <2>1, <2>2, <2>3
<1>2. DOMAIN kept = Live(m) \ {block} /\ \A b \in Live(m) \ {block} : kept[b] = m.blocks[b]
  BY DEF Restrict
<1>3. IsFiniteSet(Live(m) \ {block})
  BY FS_Subset DEF Sound
<1> HIDE DEF kept
<1>4. Live(r.mem) = Live(m) \ {block} /\ \A b \in Live(m) \ {block} : r.mem.blocks[b] = m.blocks[b]
  BY <1>1, <1>2 DEF Live
<1>5. Sound(r.mem)
  <2>1. m.tally - oldSize \in Int /\ NULL \notin Live(m)
    BY DEF Sound
  <2> HIDE DEF r, kept
  <2>2. r.mem = [blocks |-> r.mem.blocks, tally |-> r.mem.tally, wild |-> r.mem.wild]
    BY <1>1
  <2>3. r.mem.tally \in Int /\ r.mem.wild \in BOOLEAN
    BY <1>1, <2>1 DEF Sound
  <2>. QED BY <1>3, <1>4, <2>1, <2>2, <2>3 DEF Sound
<1>6. r.mem.tally = m.tally - oldSize /\ r.mem.wild = m.wild
  BY <1>1
<1> HIDE DEF r
<1>. QED
  BY <1>1, <1>4, <1>5, <1>6 DEF Released, r

-----------------------------------------------------------------------------
(* Cells *)

\* A store where there is room changes one cell.
LEMMA Stores ==
  ASSUME NEW m, Sound(m), NEW block, NEW offset, NEW x, Valid(m, block, offset)
  PROVE  Written(m, block, offset, x, Store(m, block, offset, x))
<1> DEFINE r == Store(m, block, offset, x)
           written == [m.blocks[block] EXCEPT ![offset] = x]
<1>1. r = [blocks |-> [m.blocks EXCEPT ![block] = written], tally |-> m.tally, wild |-> m.wild]
  <2>1. r = [m EXCEPT !.blocks[block][offset] = x]
    BY DEF Store
  <2>2. m = [blocks |-> m.blocks, tally |-> m.tally, wild |-> m.wild]
    BY DEF Sound
  <2> HIDE DEF r
  <2>3. r.blocks = [m.blocks EXCEPT ![block] = written]
    BY <2>1, <2>2
  <2>4. r.tally = m.tally /\ r.wild = m.wild
    BY <2>1, <2>2
  <2>5. r = [blocks |-> r.blocks, tally |-> r.tally, wild |-> r.wild]
    BY <2>1, <2>2
  <2>. QED BY <2>3, <2>4, <2>5
<1>2. /\ DOMAIN written = DOMAIN m.blocks[block] /\ written[offset] = x
      /\ \A i \in DOMAIN m.blocks[block] : i # offset => written[i] = m.blocks[block][i]
  BY DEF Valid
<1> HIDE DEF written
<1>3. /\ DOMAIN r.blocks = Live(m) /\ r.blocks[block] = written
      /\ \A b \in Live(m) \ {block} : r.blocks[b] = m.blocks[b]
  BY <1>1 DEF Valid, Live
<1>4. Sound(r)
  BY <1>1, <1>3 DEF Sound, Live
<1>5. r.tally = m.tally /\ r.wild = m.wild
  BY <1>1
<1> HIDE DEF r
<1>6. Load(r, block, offset) = x
  BY <1>2, <1>3 DEF Load, Valid, Live
<1>7. ASSUME NEW i, i # offset
      PROVE  Load(r, block, i) = Load(m, block, i)
  BY <1>2, <1>3, <1>7 DEF Load, Valid, Live
<1>. QED
  BY <1>2, <1>3, <1>4, <1>5, <1>6, <1>7 DEF Live, Written, r
-----------------------------------------------------------------------------
(* Arrays that share the memory *)

\* An array whose block is as it was still fits and holds the same.
LEMMA Keeps ==
  ASSUME NEW m, NEW n, NEW a, Fits(m, a),
         a.ptr # NULL => a.ptr \in Live(n) /\ n.blocks[a.ptr] = m.blocks[a.ptr]
  PROVE  Fits(n, a) /\ Contents(n, a) = Contents(m, a)
<1>1. Fits(n, a)
  BY DEF Fits
<1>2. CASE a.ptr = NULL
  BY <1>1, <1>2 DEF Fits, Contents
<1>3. CASE a.ptr # NULL
  <2>1. \A i \in 1 .. a.count : Load(n, a.ptr, i - 1) = Load(m, a.ptr, i - 1)
    BY <1>3 DEF Load, Valid, Fits
  <2>. QED BY <1>1, <2>1 DEF Contents
<1>. QED
  BY <1>2, <1>3

\* The order in which the arrays are named does not matter.
LEMMA Reorders ==
  ASSUME NEW m, NEW a, NEW b, NEW c, NEW d, Shared(m, a, b, c, d)
  PROVE  Shared(m, b, a, c, d) /\ Shared(m, c, b, a, d) /\ Shared(m, d, b, c, a)
<1>1. a.capacity \in Nat /\ b.capacity \in Nat /\ c.capacity \in Nat /\ d.capacity \in Nat
  BY DEF Shared, Fits
<1>2. Apart(b, a) /\ Apart(c, a) /\ Apart(c, b) /\ Apart(d, a) /\ Apart(d, b) /\ Apart(d, c)
  BY DEF Shared, Apart
<1>3. /\ {a.ptr, b.ptr, c.ptr, d.ptr} = {b.ptr, a.ptr, c.ptr, d.ptr}
      /\ {a.ptr, b.ptr, c.ptr, d.ptr} = {c.ptr, b.ptr, a.ptr, d.ptr}
      /\ {a.ptr, b.ptr, c.ptr, d.ptr} = {d.ptr, b.ptr, c.ptr, a.ptr}
  OBVIOUS
<1>4. /\ m.tally = b.capacity + a.capacity + c.capacity + d.capacity
      /\ m.tally = c.capacity + b.capacity + a.capacity + d.capacity
      /\ m.tally = d.capacity + b.capacity + c.capacity + a.capacity
  BY <1>1 DEF Shared
<1>. QED
  BY <1>2, <1>3, <1>4 DEF Shared

\* What the other three arrays hold stays, and nothing is misused on the way.
OthersKeep(m, n, b, c, d) ==
  /\ Contents(n, b) = Contents(m, b) /\ Contents(n, c) = Contents(m, c) /\ Contents(n, d) = Contents(m, d)
  /\ n.wild = m.wild

\* reallocate makes room in one array and leaves the others alone.
LEMMA Resizes ==
  ASSUME NEW m, NEW a, NEW b, NEW c, NEW d, Shared(m, a, b, c, d),
         NEW capacity \in Nat \ {0}, a.count <= capacity
  PROVE  LET r == reallocate(m, a.ptr, a.capacity, capacity)
             g == [ptr |-> r.ptr, count |-> a.count, capacity |-> capacity]
         IN /\ Shared(r.mem, g, b, c, d)
            /\ Contents(r.mem, g) = Contents(m, a)
            /\ OthersKeep(m, r.mem, b, c, d)
<1> DEFINE r == reallocate(m, a.ptr, a.capacity, capacity)
           g == [ptr |-> r.ptr, count |-> a.count, capacity |-> capacity]
<1>1. /\ Sound(m) /\ a.capacity \in Nat /\ a.count \in 0 .. a.capacity
      /\ a.ptr = NULL \/ a.ptr \in Live(m)
  BY DEF Shared, Fits
<1>2. Replaced(m, a.ptr, a.capacity, capacity, r.mem, r.ptr)
  BY <1>1, Reallocates
<1> HIDE DEF r
<1> USE <1>2 DEF Replaced
<1>3. g.ptr = r.ptr /\ g.count = a.count /\ g.capacity = capacity
  OBVIOUS
<1>4. Fits(r.mem, g)
  <2>1. g = [ptr |-> g.ptr, count |-> g.count, capacity |-> g.capacity]
    OBVIOUS
  <2>2. g.count \in 0 .. g.capacity
    BY <1>1, <1>3
  <2> HIDE DEF g
  <2>. QED BY <2>1, <2>2, <1>2, <1>3 DEF Fits
<1>5. ASSUME NEW e, Fits(m, e), Apart(a, e)
      PROVE  Fits(r.mem, e) /\ Apart(g, e) /\ Contents(r.mem, e) = Contents(m, e)
  <2>1. e.ptr # NULL => e.ptr \in Live(m) \ {a.ptr}
    BY <1>5, <1>1 DEF Apart, Fits
  <2>2. e.ptr # NULL => e.ptr \in Live(r.mem) /\ r.mem.blocks[e.ptr] = m.blocks[e.ptr]
    BY <2>1, <1>2
  <2>3. Fits(r.mem, e) /\ Contents(r.mem, e) = Contents(m, e)
    BY <1>5, <2>2, Keeps
  <2>4. Apart(g, e)
    BY <1>2, <2>1 DEF Apart
  <2>. QED BY <2>3, <2>4
<1>6. /\ Fits(m, b) /\ Fits(m, c) /\ Fits(m, d) /\ Apart(a, b) /\ Apart(a, c) /\ Apart(a, d)
      /\ Apart(b, c) /\ Apart(b, d) /\ Apart(c, d)
      /\ Live(m) = {a.ptr, b.ptr, c.ptr, d.ptr} \ {NULL}
      /\ m.tally = a.capacity + b.capacity + c.capacity + d.capacity
      /\ b.capacity \in Nat /\ c.capacity \in Nat /\ d.capacity \in Nat
  BY DEF Shared, Fits
<1>7. Contents(r.mem, g) = Contents(m, a)
  <2>1. \A i \in 1 .. a.count : Load(r.mem, r.ptr, i - 1) = Load(m, a.ptr, i - 1)
    BY <1>1, <1>2
  <2>. QED BY <2>1, <1>3 DEF Contents
<1> HIDE DEF g
<1>8. Live(r.mem) = {g.ptr, b.ptr, c.ptr, d.ptr} \ {NULL}
  BY <1>2, <1>3, <1>6 DEF Apart
<1>9. r.mem.tally = g.capacity + b.capacity + c.capacity + d.capacity
  BY <1>1, <1>2, <1>3, <1>6
<1>10. Shared(r.mem, g, b, c, d)
  BY <1>2, <1>4, <1>5, <1>6, <1>8, <1>9 DEF Shared
<1>. QED
  BY <1>5, <1>6, <1>7, <1>10 DEF OthersKeep, Replaced, g, r

\* A store into an array, and any count that fits, leave the others alone.
LEMMA StoresIn ==
  ASSUME NEW m, NEW a, NEW b, NEW c, NEW d, Shared(m, a, b, c, d),
         NEW offset \in 0 .. a.capacity - 1, NEW x, NEW count \in 0 .. a.capacity
  PROVE  LET r == Store(m, a.ptr, offset, x)
             g == [ptr |-> a.ptr, count |-> count, capacity |-> a.capacity]
         IN /\ Shared(r, g, b, c, d)
            /\ \A i : Load(r, a.ptr, i) = IF i = offset THEN x ELSE Load(m, a.ptr, i)
            /\ OthersKeep(m, r, b, c, d)
<1> DEFINE r == Store(m, a.ptr, offset, x)
           g == [ptr |-> a.ptr, count |-> count, capacity |-> a.capacity]
<1>1. Sound(m) /\ a.capacity \in Nat
  BY DEF Shared, Fits
<1>2. a.ptr # NULL /\ a.ptr \in Live(m) /\ DOMAIN m.blocks[a.ptr] = 0 .. a.capacity - 1
  BY <1>1 DEF Shared, Fits
<1>3. Valid(m, a.ptr, offset)
  BY <1>2 DEF Valid
<1>4. Written(m, a.ptr, offset, x, r)
  BY <1>1, <1>3, Stores
<1> HIDE DEF r
<1> USE DEF Written
<1>5. g.ptr = a.ptr /\ g.count = count /\ g.capacity = a.capacity
  OBVIOUS
<1>6. Fits(r, g)
  <2>1. g = [ptr |-> g.ptr, count |-> g.count, capacity |-> g.capacity]
    OBVIOUS
  <2>2. DOMAIN r.blocks[a.ptr] = 0 .. a.capacity - 1 /\ a.capacity # 0
    BY <1>2, <1>4, <1>1
  <2> HIDE DEF g
  <2>. QED BY <2>1, <2>2, <1>1, <1>2, <1>4, <1>5 DEF Fits
<1>7. ASSUME NEW e, Fits(m, e), Apart(a, e)
      PROVE  Fits(r, e) /\ Apart(g, e) /\ Contents(r, e) = Contents(m, e)
  <2>1. e.ptr # NULL => e.ptr \in Live(m) \ {a.ptr}
    BY <1>7, <1>2 DEF Apart, Fits
  <2>2. Fits(r, e) /\ Contents(r, e) = Contents(m, e)
    BY <1>4, <1>7, <2>1, Keeps
  <2>3. Apart(g, e)
    BY <1>7 DEF Apart
  <2>. QED BY <2>2, <2>3
<1> HIDE DEF g
<1>8. Shared(r, g, b, c, d)
  BY <1>4, <1>5, <1>6, <1>7 DEF Shared
<1>9. Contents(r, b) = Contents(m, b) /\ Contents(r, c) = Contents(m, c) /\ Contents(r, d) = Contents(m, d)
  BY <1>7 DEF Shared
<1>. QED
  BY <1>4, <1>8, <1>9 DEF OthersKeep, Replaced, g, r

\* An array that is freed gives back what it had and leaves the others alone.
LEMMA Frees ==
  ASSUME NEW m, NEW a, NEW b, NEW c, NEW d, Shared(m, a, b, c, d)
  PROVE  LET r == FREE_ARRAY(m, a)
         IN /\ Shared(r, EmptyArray, b, c, d)
            /\ OthersKeep(m, r, b, c, d)
<1> DEFINE r == FREE_ARRAY(m, a)
<1>1. /\ Sound(m) /\ a.capacity \in Nat
      /\ a.ptr = NULL \/ a.ptr \in Live(m)
  BY DEF Shared, Fits
<1>2. Released(m, a.ptr, a.capacity, r)
  BY <1>1, Releases DEF FREE_ARRAY
<1> HIDE DEF r
<1> USE DEF Released
<1>3. Fits(r, EmptyArray)
  BY DEF Fits, EmptyArray
<1>4. ASSUME NEW e, Fits(m, e), Apart(a, e)
      PROVE  Fits(r, e) /\ Contents(r, e) = Contents(m, e)
  <2>1. e.ptr # NULL => e.ptr \in Live(m) \ {a.ptr}
    BY <1>4, <1>1 DEF Apart, Fits
  <2>. QED BY <1>2, <1>4, <2>1, Keeps
<1>5. \A e : Apart(EmptyArray, e)
  BY DEF Apart, EmptyArray
<1>6. Live(r) = {EmptyArray.ptr, b.ptr, c.ptr, d.ptr} \ {NULL}
  BY <1>2 DEF Shared, Apart, EmptyArray
<1>7. r.tally = EmptyArray.capacity + b.capacity + c.capacity + d.capacity
  BY <1>1, <1>2 DEF Shared, Fits, EmptyArray
<1>8. Shared(r, EmptyArray, b, c, d)
  BY <1>2, <1>3, <1>4, <1>5, <1>6, <1>7 DEF Shared
<1>9. Contents(r, b) = Contents(m, b) /\ Contents(r, c) = Contents(m, c) /\ Contents(r, d) = Contents(m, d)
  BY <1>4 DEF Shared
<1>. QED
  BY <1>2, <1>8, <1>9 DEF OthersKeep, r

\* append adds x at the end of one array, whether it had to grow or not, and
\* leaves the others alone.
LEMMA Appends ==
  ASSUME NEW m, NEW a, NEW b, NEW c, NEW d, Shared(m, a, b, c, d), NEW x
  PROVE  LET r == append(m, a, x)
         IN /\ Shared(r.mem, r.array, b, c, d)
            /\ r.array.count = a.count + 1
            /\ Contents(r.mem, r.array) = Append(Contents(m, a), x)
            /\ OthersKeep(m, r.mem, b, c, d)
<1> DEFINE full == a.capacity < a.count + 1
           capacity == IF full THEN GROW_CAPACITY(a.capacity) ELSE a.capacity
           grown == IF full THEN reallocate(m, a.ptr, a.capacity, capacity) ELSE [ptr |-> a.ptr, mem |-> m]
           g == [ptr |-> grown.ptr, count |-> a.count, capacity |-> capacity]
           n == Store(grown.mem, grown.ptr, a.count, x)
           h == [ptr |-> grown.ptr, count |-> a.count + 1, capacity |-> capacity]
<1>1. a = [ptr |-> a.ptr, count |-> a.count, capacity |-> a.capacity] /\ a.capacity \in Nat /\ a.count \in 0 .. a.capacity
  BY DEF Shared, Fits
<1>2. append(m, a, x) = [mem |-> n, array |-> h]
  BY DEF append
<1>3. capacity \in Nat \ {0} /\ a.count + 1 <= capacity
  BY <1>1 DEF GROW_CAPACITY
<1>4. /\ Shared(grown.mem, g, b, c, d)
      /\ Contents(grown.mem, g) = Contents(m, a)
      /\ OthersKeep(m, grown.mem, b, c, d)
  <2>1. CASE full
    <3>1. a.count <= capacity
      BY <1>1, <1>3
    <3>2. grown = reallocate(m, a.ptr, a.capacity, capacity)
      BY <2>1
    <3> HIDE DEF capacity, grown, full
    <3>. QED BY <1>3, <3>1, <3>2, Resizes
  <2>2. CASE ~full
    <3>1. grown.mem = m /\ g = a
      BY <1>1, <2>2
    <3> HIDE DEF g, grown
    <3>. QED BY <3>1 DEF OthersKeep
  <2>. QED BY <2>1, <2>2
<1> HIDE DEF capacity, grown
<1>5. g.ptr = grown.ptr /\ g.count = a.count /\ g.capacity = capacity
  OBVIOUS
<1>6. h = [ptr |-> g.ptr, count |-> a.count + 1, capacity |-> g.capacity]
  OBVIOUS
<1>7. a.count \in 0 .. g.capacity - 1 /\ a.count + 1 \in 0 .. g.capacity
  BY <1>1, <1>3, <1>5
<1> HIDE DEF g
<1>8. /\ Shared(n, h, b, c, d)
      /\ \A i : Load(n, g.ptr, i) = IF i = a.count THEN x ELSE Load(grown.mem, g.ptr, i)
      /\ OthersKeep(grown.mem, n, b, c, d)
  <2>1. n = Store(grown.mem, g.ptr, a.count, x)
    BY <1>5
  <2>2. Shared(grown.mem, g, b, c, d)
    BY <1>4
  <2> DEFINE k == grown.mem
             count == a.count
             more == a.count + 1
             i == [ptr |-> g.ptr, count |-> more, capacity |-> g.capacity]
             o == Store(k, g.ptr, count, x)
  <2>3. count \in 0 .. g.capacity - 1 /\ more \in 0 .. g.capacity /\ Shared(k, g, b, c, d)
    BY <1>7, <2>2
  <2> HIDE DEF k, count, more
  <2>4. /\ Shared(o, i, b, c, d)
        /\ \A j : Load(o, g.ptr, j) = IF j = count THEN x ELSE Load(k, g.ptr, j)
        /\ OthersKeep(k, o, b, c, d)
    BY <2>3, StoresIn
  <2>5. o = n /\ i = h
    BY <1>6, <2>1 DEF k, count, more
  <2> HIDE DEF n, h, o, i
  <2>. QED BY <2>4, <2>5 DEF k, count
<1>9. h.count = a.count + 1 /\ h.ptr = g.ptr
  BY <1>5
<1> HIDE DEF h, n
<1>10. Contents(n, h) = Append(Contents(m, a), x)
  <2>1. Contents(n, h) = [i \in 1 .. a.count + 1 |-> IF i = a.count + 1 THEN x ELSE Load(grown.mem, g.ptr, i - 1)]
    <3>1. \A i \in 1 .. a.count + 1 : Load(n, h.ptr, i - 1) = IF i = a.count + 1 THEN x ELSE Load(grown.mem, g.ptr, i - 1)
      BY <1>1, <1>8, <1>9
    <3>. QED BY <3>1, <1>9 DEF Contents
  <2>2. Contents(m, a) = [i \in 1 .. a.count |-> Load(grown.mem, g.ptr, i - 1)]
    BY <1>4, <1>5 DEF Contents
  <2>3. Len(Contents(m, a)) = a.count
    BY <2>2, <1>1
  <2>4. Append(Contents(m, a), x) = [i \in 1 .. a.count + 1 |-> IF i = a.count + 1 THEN x ELSE Contents(m, a)[i]]
    BY <2>3, <1>1, <2>2 DEF Append
  <2>. QED BY <2>1, <2>2, <2>4, <1>1
<1>11. append(m, a, x).mem = n /\ append(m, a, x).array = h
  BY <1>2
<1>12. OthersKeep(m, n, b, c, d)
  BY <1>4, <1>8 DEF OthersKeep
<1>. QED
  BY <1>4, <1>8, <1>9, <1>10, <1>11, <1>12
-----------------------------------------------------------------------------
(* A chunk *)

\* A chunk whose three arrays share the memory with one more array and nothing
\* else: the stack of the machine, or none.
Owns(s, other) ==
  /\ s = [mem |-> s.mem, chunk |-> s.chunk]
  /\ s.chunk = [code |-> s.chunk.code, lines |-> s.chunk.lines, constants |-> s.chunk.constants]
  /\ Shared(s.mem, s.chunk.code, s.chunk.lines, s.chunk.constants, other)

\* What the other array holds stays, and nothing is misused on the way.
OtherKeeps(s, r, other) == Contents(r.mem, other) = Contents(s.mem, other) /\ r.mem.wild = s.mem.wild

Code(s)      == Contents(s.mem, s.chunk.code)
Constants(s) == Contents(s.mem, s.chunk.constants)
RunsOf(s)    == Contents(s.mem, s.chunk.lines)

RunOf(cell) == IF cell = Garbage THEN [line |-> 0, count |-> 0] ELSE cell

Longer(run) == [run EXCEPT !.count = @ + 1]

\* One more byte from line: a longer last run, or a new one.
MoreRuns(runs, line) ==
  IF Len(runs) > 0 /\ RunOf(runs[Len(runs)]).line = line
  THEN [runs EXCEPT ![Len(runs)] = Longer(RunOf(runs[Len(runs)]))]
  ELSE Append(runs, [line |-> line, count |-> 1])

\* The cell at index i.
LEMMA RunCell ==
  ASSUME NEW m, NEW a, a.count \in Nat, NEW i \in 0 .. a.count - 1
  PROVE  RunAt(m, a, i) = RunOf(Contents(m, a)[i + 1])
<1>1. i + 1 \in 1 .. a.count /\ (i + 1) - 1 = i
  OBVIOUS
<1>2. Contents(m, a)[i + 1] = Load(m, a.ptr, i)
  BY <1>1 DEF Contents
<1>. QED
  BY <1>2 DEF RunAt, RunOf

\* A line more or a longer run: the runs stay in their array.
LEMMA WritesLine ==
  ASSUME NEW m, NEW a, NEW b, NEW c, NEW d, Shared(m, a, b, c, d), NEW line
  PROVE  LET r == writeLineArray(m, a, line)
         IN /\ Shared(r.mem, r.array, b, c, d) /\ OthersKeep(m, r.mem, b, c, d)
            /\ Contents(r.mem, r.array) = MoreRuns(Contents(m, a), line)
<1> DEFINE r == writeLineArray(m, a, line)
           runs == Contents(m, a)
<1>3. a.count \in Nat /\ IsSequence(runs) /\ Len(runs) = a.count
  BY ContentsSequence DEF Shared, Fits
<1>4. a.count > 0 => RunAt(m, a, a.count - 1) = RunOf(runs[Len(runs)])
  <2> DEFINE i == a.count - 1
  <2>1. ASSUME a.count > 0
        PROVE  i \in 0 .. a.count - 1 /\ i + 1 = a.count
    BY <1>3, <2>1
  <2> HIDE DEF i
  <2>2. ASSUME a.count > 0
        PROVE  RunAt(m, a, i) = RunOf(Contents(m, a)[i + 1])
    BY <1>3, <2>1, <2>2, RunCell
  <2>. QED BY <1>3, <2>1, <2>2 DEF i
<1>1. CASE a.count > 0 /\ RunAt(m, a, a.count - 1).line = line
  <2> DEFINE run == [RunAt(m, a, a.count - 1) EXCEPT !.count = @ + 1]
             last == a.count - 1
             n == Store(m, a.ptr, last, run)
             count == a.count
             g == [ptr |-> a.ptr, count |-> count, capacity |-> a.capacity]
  <2>1. r = [mem |-> n, array |-> a]
    BY <1>1 DEF writeLineArray, Lengthen
  <2>2. /\ a = [ptr |-> a.ptr, count |-> a.count, capacity |-> a.capacity]
        /\ a.capacity \in Nat /\ a.count \in 0 .. a.capacity
    BY DEF Shared, Fits
  <2>3. last \in 0 .. a.capacity - 1 /\ count \in 0 .. a.capacity
    BY <2>2, <1>1
  <2>4. g = a
    BY <2>2
  <2> HIDE DEF last, run, count
  <2>5. /\ Shared(n, g, b, c, d)
        /\ \A i : Load(n, a.ptr, i) = IF i = last THEN run ELSE Load(m, a.ptr, i)
        /\ OthersKeep(m, n, b, c, d)
    BY <2>3, StoresIn
  <2>6. Contents(n, a) = MoreRuns(runs, line)
    <3>1. MoreRuns(runs, line) = [runs EXCEPT ![a.count] = run]
      BY <1>1, <1>3, <1>4 DEF MoreRuns, Longer, run
    <3>2. \A i \in 1 .. a.count : i - 1 = last <=> i = a.count
      BY <1>3 DEF last
    <3>3. Contents(n, a) = [i \in 1 .. a.count |-> IF i = a.count THEN run ELSE Load(m, a.ptr, i - 1)]
      BY <2>5, <3>2 DEF Contents
    <3>4. runs = [i \in 1 .. a.count |-> Load(m, a.ptr, i - 1)]
      BY DEF Contents
    <3> HIDE DEF runs
    <3>5. [runs EXCEPT ![a.count] = run] = [i \in 1 .. a.count |-> IF i = a.count THEN run ELSE Load(m, a.ptr, i - 1)]
      BY <3>4
    <3>. QED BY <3>1, <3>3, <3>5
  <2> HIDE DEF r, g, n, runs
  <2>. QED BY <2>1, <2>4, <2>5, <2>6 DEF r, runs
<1>2. CASE ~(a.count > 0 /\ RunAt(m, a, a.count - 1).line = line)
  <2> DEFINE run == [line |-> line, count |-> 1]
  <2>1. r = append(m, a, run)
    BY <1>2 DEF writeLineArray
  <2>2. MoreRuns(runs, line) = Append(runs, run)
    BY <1>2, <1>3, <1>4 DEF MoreRuns
  <2> HIDE DEF run, r, runs
  <2>3. Shared(r.mem, r.array, b, c, d) /\ OthersKeep(m, r.mem, b, c, d)
        /\ Contents(r.mem, r.array) = Append(Contents(m, a), run)
    BY <2>1, Appends
  <2>. QED BY <2>2, <2>3 DEF r, runs
<1>. QED
  BY <1>1, <1>2

\* writeChunk adds a byte to the code and leaves the constants alone.
LEMMA WritesChunk ==
  ASSUME NEW s, NEW other, Owns(s, other), NEW byte, NEW line
  PROVE  LET r == writeChunk(s, byte, line)
         IN /\ Owns(r, other)
            /\ r.chunk.code.count = s.chunk.code.count + 1
            /\ r.chunk.constants = s.chunk.constants
            /\ Code(r) = Append(Code(s), byte)
            /\ Constants(r) = Constants(s)
            /\ RunsOf(r) = MoreRuns(RunsOf(s), line)
            /\ OtherKeeps(s, r, other)
<1> DEFINE m == s.mem
           a == s.chunk.code
           b == s.chunk.lines
           c == s.chunk.constants
           code == append(m, a, byte)
           m1 == code.mem
           a1 == code.array
           lines == writeLineArray(m1, b, line)
           m2 == lines.mem
           b2 == lines.array
           r == writeChunk(s, byte, line)
<1>1. Shared(m, a, b, c, other)
  BY DEF Owns
<1>2. /\ r = [mem |-> m2, chunk |-> [code |-> a1, lines |-> b2, constants |-> c]]
      /\ r.mem = m2 /\ r.chunk = [code |-> a1, lines |-> b2, constants |-> c]
      /\ r.chunk.code = a1 /\ r.chunk.lines = b2 /\ r.chunk.constants = c
  <2>1. s.chunk = [code |-> a, lines |-> b, constants |-> c]
    BY DEF Owns
  <2>2. r = [mem |-> m2, chunk |-> [s.chunk EXCEPT !.code = a1, !.lines = b2]]
    BY DEF writeChunk
  <2> DEFINE old == s.chunk
             new == [old EXCEPT !.code = a1, !.lines = b2]
  <2> HIDE DEF r, a1, m1, m2, b2, lines, code, a, b, c, old
  <2>3. new = [code |-> a1, lines |-> b2, constants |-> c]
    <3>1. old = [code |-> a, lines |-> b, constants |-> c]
      BY <2>1 DEF old
    <3> DEFINE first == [old EXCEPT !.code = a1]
    <3>2. first = [code |-> a1, lines |-> b, constants |-> c]
      BY <3>1
    <3>3. new = [first EXCEPT !.lines = b2]
      BY Zenon
    <3> HIDE DEF first, new
    <3>. QED BY <3>2, <3>3
  <2>4. r = [mem |-> m2, chunk |-> new]
    BY <2>2 DEF old
  <2> HIDE DEF new
  <2>. QED BY <2>3, <2>4
<1> HIDE DEF m, a, b, c, r
<1>3. /\ Shared(m1, a1, b, c, other) /\ a1.count = a.count + 1
      /\ Contents(m1, a1) = Append(Contents(m, a), byte)
      /\ OthersKeep(m, m1, b, c, other)
  BY <1>1, Appends
<1> HIDE DEF m1, a1
<1>4. Shared(m1, b, a1, c, other)
  BY <1>3, Reorders
<1>5. Shared(m2, b2, a1, c, other) /\ OthersKeep(m1, m2, a1, c, other)
      /\ Contents(m2, b2) = MoreRuns(Contents(m1, b), line)
  BY <1>4, WritesLine
<1> HIDE DEF m2, b2, lines, code
<1>6. Shared(m2, a1, b2, c, other)
  BY <1>5, Reorders
<1>7. /\ Contents(m2, a1) = Append(Contents(m, a), byte)
      /\ Contents(m2, c) = Contents(m, c)
      /\ Contents(m2, other) = Contents(m, other) /\ m2.wild = m.wild
  BY <1>3, <1>5 DEF OthersKeep
<1>8. Owns(r, other)
  BY <1>2, <1>6 DEF Owns
<1>9. Code(r) = Append(Code(s), byte) /\ Constants(r) = Constants(s)
  BY <1>2, <1>7 DEF Code, Constants, m, a, c
<1>10. RunsOf(r) = MoreRuns(RunsOf(s), line)
  BY <1>2, <1>3, <1>5 DEF OthersKeep, RunsOf, m, b
<1>. QED
  BY <1>2, <1>3, <1>7, <1>8, <1>9, <1>10 DEF OtherKeeps, r, a, m, c

\* addConstant adds to the pool and leaves the code alone.
LEMMA AddsConstant ==
  ASSUME NEW s, NEW other, Owns(s, other), NEW value
  PROVE  LET r == addConstant(s, value)
         IN /\ Owns(r, other)
            /\ r.chunk.constants.count = s.chunk.constants.count + 1
            /\ r.chunk.code = s.chunk.code
            /\ Constants(r) = Append(Constants(s), value)
            /\ Code(r) = Code(s)
            /\ RunsOf(r) = RunsOf(s)
            /\ OtherKeeps(s, r, other)
<1> DEFINE m == s.mem
           a == s.chunk.code
           b == s.chunk.lines
           c == s.chunk.constants
           pool == append(m, c, value)
           m1 == pool.mem
           c1 == pool.array
           r == addConstant(s, value)
<1>1. Shared(m, c, b, a, other)
  BY Reorders DEF Owns
<1>2. /\ r = [mem |-> m1, chunk |-> [code |-> a, lines |-> b, constants |-> c1]]
      /\ r.mem = m1 /\ r.chunk = [code |-> a, lines |-> b, constants |-> c1]
      /\ r.chunk.code = a /\ r.chunk.lines = b /\ r.chunk.constants = c1
  <2>1. s.chunk = [code |-> a, lines |-> b, constants |-> c]
    BY DEF Owns
  <2>2. r = [mem |-> m1, chunk |-> [s.chunk EXCEPT !.constants = c1]]
    BY DEF addConstant
  <2> HIDE DEF r, m1, c1, pool, a, b, c
  <2>. QED BY <2>1, <2>2
<1> HIDE DEF m, a, b, c, r
<1>3. /\ Shared(m1, c1, b, a, other) /\ c1.count = c.count + 1
      /\ Contents(m1, c1) = Append(Contents(m, c), value)
      /\ OthersKeep(m, m1, b, a, other)
  BY <1>1, Appends
<1> HIDE DEF m1, c1
<1>4. Shared(m1, a, b, c1, other)
  BY <1>3, Reorders
<1>5. Owns(r, other)
  BY <1>2, <1>4 DEF Owns
<1>6. Code(r) = Code(s) /\ Constants(r) = Append(Constants(s), value) /\ RunsOf(r) = RunsOf(s)
  BY <1>2, <1>3 DEF OthersKeep, Code, Constants, RunsOf, m, a, b, c
<1>7. Contents(m1, other) = Contents(m, other) /\ m1.wild = m.wild
  BY <1>3 DEF OthersKeep
<1>. QED
  BY <1>2, <1>3, <1>5, <1>6, <1>7 DEF OtherKeeps, r, a, m, c

\* The bytes of the instruction that loads the constant with that index.
LoadBytes(code, index) ==
  IF index < ByteSize
  THEN Append(Append(code, OP_CONSTANT), index % ByteSize)
  ELSE Append(Append(Append(Append(code, OP_CONSTANT_LONG), index % ByteSize),
                     (index \div ByteSize) % ByteSize),
              (index \div (ByteSize * ByteSize)) % ByteSize)

\* Its bytes are all on one line.
LoadRuns(runs, index, line) ==
  IF index < ByteSize THEN MoreRuns(MoreRuns(runs, line), line)
  ELSE MoreRuns(MoreRuns(MoreRuns(MoreRuns(runs, line), line), line), line)

\* writeConstant adds the constant and its instruction, or nothing at all.
LEMMA WritesConstant ==
  ASSUME NEW s, NEW other, Owns(s, other), NEW value, NEW line
  PROVE  LET r == writeConstant(s, value, line)
         IN /\ Owns(r, other)
            /\ OtherKeeps(s, r, other)
            /\ PoolFull(s) => r = s
            /\ ~PoolFull(s) =>
                 /\ r.chunk.constants.count = s.chunk.constants.count + 1
                 /\ Constants(r) = Append(Constants(s), value)
                 /\ Code(r) = LoadBytes(Code(s), s.chunk.constants.count)
                 /\ RunsOf(r) = LoadRuns(RunsOf(s), s.chunk.constants.count, line)
<1> DEFINE constant == s.chunk.constants.count
           narrow == constant < ByteSize
           opcode == IF narrow THEN OP_CONSTANT ELSE OP_CONSTANT_LONG
           byte1 == constant % ByteSize
           byte2 == (constant \div ByteSize) % ByteSize
           byte3 == (constant \div (ByteSize * ByteSize)) % ByteSize
           s0 == addConstant(s, value)
           s1 == writeChunk(s0, opcode, line)
           s2 == writeChunk(s1, byte1, line)
           s3 == writeChunk(s2, byte2, line)
           s4 == writeChunk(s3, byte3, line)
           r == writeConstant(s, value, line)
<1>1. r = IF PoolFull(s) THEN s ELSE IF narrow THEN s2 ELSE s4
  BY DEF writeConstant
<1>2. narrow => opcode = OP_CONSTANT
  OBVIOUS
<1>3. ~narrow => opcode = OP_CONSTANT_LONG
  OBVIOUS
<1>4. LoadBytes(Code(s), constant)
        = IF narrow THEN Append(Append(Code(s), OP_CONSTANT), byte1)
          ELSE Append(Append(Append(Append(Code(s), OP_CONSTANT_LONG), byte1), byte2), byte3)
  BY DEF LoadBytes
<1>13. LoadRuns(RunsOf(s), constant, line)
        = IF narrow THEN MoreRuns(MoreRuns(RunsOf(s), line), line)
          ELSE MoreRuns(MoreRuns(MoreRuns(MoreRuns(RunsOf(s), line), line), line), line)
  BY DEF LoadRuns
<1> HIDE DEF opcode, byte1, byte2, byte3, narrow
<1>5. /\ Owns(s0, other) /\ s0.chunk.constants.count = s.chunk.constants.count + 1
      /\ Constants(s0) = Append(Constants(s), value) /\ Code(s0) = Code(s) /\ RunsOf(s0) = RunsOf(s)
      /\ OtherKeeps(s, s0, other)
  BY AddsConstant
<1> HIDE DEF s0
<1>6. /\ Owns(s1, other) /\ s1.chunk.constants = s0.chunk.constants
      /\ Constants(s1) = Constants(s0) /\ Code(s1) = Append(Code(s0), opcode)
      /\ RunsOf(s1) = MoreRuns(RunsOf(s0), line)
      /\ OtherKeeps(s0, s1, other)
  BY <1>5, WritesChunk
<1> HIDE DEF s1
<1>7. /\ Owns(s2, other) /\ s2.chunk.constants = s1.chunk.constants
      /\ Constants(s2) = Constants(s1) /\ Code(s2) = Append(Code(s1), byte1)
      /\ RunsOf(s2) = MoreRuns(RunsOf(s1), line)
      /\ OtherKeeps(s1, s2, other)
  BY <1>6, WritesChunk
<1> HIDE DEF s2
<1>8. /\ Owns(s3, other) /\ s3.chunk.constants = s2.chunk.constants
      /\ Constants(s3) = Constants(s2) /\ Code(s3) = Append(Code(s2), byte2)
      /\ RunsOf(s3) = MoreRuns(RunsOf(s2), line)
      /\ OtherKeeps(s2, s3, other)
  BY <1>7, WritesChunk
<1> HIDE DEF s3
<1>9. /\ Owns(s4, other) /\ s4.chunk.constants = s3.chunk.constants
      /\ Constants(s4) = Constants(s3) /\ Code(s4) = Append(Code(s3), byte3)
      /\ RunsOf(s4) = MoreRuns(RunsOf(s3), line)
      /\ OtherKeeps(s3, s4, other)
  BY <1>8, WritesChunk
<1> HIDE DEF s4, r
<1>10. CASE PoolFull(s)
  BY <1>1, <1>10 DEF OtherKeeps, r
<1>11. CASE ~PoolFull(s) /\ narrow
  <2>1. r = s2
    BY <1>1, <1>11
  <2>3. RunsOf(s2) = LoadRuns(RunsOf(s), constant, line)
    BY <1>5, <1>6, <1>7, <1>11, <1>13
  <2>2. Code(s2) = LoadBytes(Code(s), constant)
    BY <1>2, <1>4, <1>5, <1>6, <1>7, <1>11
  <2>. QED BY <2>1, <2>2, <2>3, <1>5, <1>6, <1>7, <1>11 DEF OtherKeeps, r
<1>12. CASE ~PoolFull(s) /\ ~narrow
  <2>1. r = s4
    BY <1>1, <1>12
  <2>3. RunsOf(s4) = LoadRuns(RunsOf(s), constant, line)
    BY <1>5, <1>6, <1>7, <1>8, <1>9, <1>12, <1>13
  <2>2. Code(s4) = LoadBytes(Code(s), constant)
    BY <1>3, <1>4, <1>5, <1>6, <1>7, <1>8, <1>9, <1>12
  <2>. QED BY <2>1, <2>2, <2>3, <1>5, <1>6, <1>7, <1>8, <1>9, <1>12 DEF OtherKeeps, r
<1>. QED
  BY <1>10, <1>11, <1>12

\* freeChunk gives back the three arrays.
LEMMA FreesChunk ==
  ASSUME NEW s, NEW other, Owns(s, other)
  PROVE  LET r == freeChunk(s)
         IN /\ Owns(r, other) /\ r.chunk = emptyChunk
            /\ OtherKeeps(s, r, other)
<1> DEFINE m == s.mem
           a == s.chunk.code
           b == s.chunk.lines
           c == s.chunk.constants
           m1 == FREE_ARRAY(m, a)
           m2 == FREE_ARRAY(m1, b)
           m3 == FREE_ARRAY(m2, c)
           r == freeChunk(s)
<1>1. Shared(m, a, b, c, other)
  BY DEF Owns
<1>2. r = [mem |-> m3, chunk |-> emptyChunk]
  BY DEF freeChunk, initChunk
<1> HIDE DEF m, a, b, c, r
<1>3. Shared(m1, EmptyArray, b, c, other) /\ OthersKeep(m, m1, b, c, other)
  BY <1>1, Frees
<1> HIDE DEF m1
<1>4. Shared(m1, b, EmptyArray, c, other)
  BY <1>3, Reorders
<1>5. Shared(m2, EmptyArray, EmptyArray, c, other) /\ OthersKeep(m1, m2, EmptyArray, c, other)
  BY <1>4, Frees
<1> HIDE DEF m2
<1>6. Shared(m2, c, EmptyArray, EmptyArray, other)
  BY <1>5, Reorders
<1>7. Shared(m3, EmptyArray, EmptyArray, EmptyArray, other) /\ OthersKeep(m2, m3, EmptyArray, EmptyArray, other)
  BY <1>6, Frees
<1> HIDE DEF m3
<1>8. Owns(r, other) /\ r.chunk = emptyChunk
  BY <1>2, <1>7 DEF Owns, emptyChunk
<1>9. Contents(r.mem, other) = Contents(m, other) /\ r.mem.wild = m.wild
  BY <1>2, <1>3, <1>5, <1>7 DEF OthersKeep
<1>. QED
  BY <1>8, <1>9 DEF OtherKeeps, r, m
-----------------------------------------------------------------------------
(* Programs *)

\* The constant the three-byte operand after offset o speaks of.
WideOperand(code, o) == code[o + 2] + code[o + 3] * ByteSize + code[o + 4] * ByteSize * ByteSize

\* With depth[o] values on the stack before the instruction at offset o, it
\* finds its operands and one of the n constants of the pool, and leaves as many
\* values as the next instruction expects.
Finds(code, n, depth, o) ==
  /\ code[o + 1] = OP_CONSTANT =>
       o + 2 \in DOMAIN depth /\ depth[o + 2] = depth[o] + 1 /\ code[o + 2] \in 0 .. n - 1
  /\ code[o + 1] = OP_CONSTANT_LONG =>
       o + 4 \in DOMAIN depth /\ depth[o + 4] = depth[o] + 1 /\ WideOperand(code, o) \in 0 .. n - 1
  /\ code[o + 1] \in OP_ADD .. OP_DIVIDE =>
       depth[o] >= 2 /\ o + 1 \in DOMAIN depth /\ depth[o + 1] = depth[o] - 1
  /\ code[o + 1] = OP_NEGATE =>
       depth[o] >= 1 /\ o + 1 \in DOMAIN depth /\ depth[o + 1] = depth[o]
  /\ code[o + 1] = OP_RETURN => depth[o] >= 1

\* depth says where instructions start, in code or right after it, and how many
\* values each finds.
Program(code, n, depth) ==
  /\ DOMAIN depth \subseteq 0 .. Len(code)
  /\ 0 \in DOMAIN depth /\ depth[0] = 0
  /\ \A o \in DOMAIN depth : depth[o] \in Nat
  /\ \A o \in DOMAIN depth : o < Len(code) => Finds(code, n, depth, o)

\* Code to be continued, with h values on the stack at its end.
Open(code, n, h) ==
  \E depth : Program(code, n, depth) /\ Len(code) \in DOMAIN depth /\ depth[Len(code)] = h

\* Code that does not run past its end.
Closed(code, n) == \E depth : Program(code, n, depth) /\ Len(code) \notin DOMAIN depth

\* more is code with k bytes after it.
Continues(code, more, k) ==
  /\ Len(more) = Len(code) + k
  /\ \A i \in 1 .. Len(code) : more[i] = code[i]

LEMMA OpenNothing ==
  ASSUME NEW code, Len(code) = 0, NEW n
  PROVE  Open(code, n, 0)
<1> DEFINE depth == [o \in {0} |-> 0]
<1>1. Program(code, n, depth)
  BY DEF Program
<1>. QED
  BY <1>1 DEF Open

\* What was found in code is found in code with more after it.
LEMMA FindsStill ==
  ASSUME NEW code, NEW more, NEW k \in Nat \ {0}, Len(code) \in Nat, Continues(code, more, k),
         NEW n \in Nat, NEW p \in Nat, n <= p,
         NEW depth, Program(code, n, depth),
         NEW deeper, DOMAIN depth \subseteq DOMAIN deeper, \A o \in DOMAIN depth : deeper[o] = depth[o],
         NEW o \in DOMAIN depth, o < Len(code)
  PROVE  Finds(more, p, deeper, o)
<1>1. DOMAIN depth \subseteq 0 .. Len(code) /\ o \in Nat /\ depth[o] \in Nat
  BY DEF Program
<1>2. Finds(code, n, depth, o)
  BY DEF Program
<1>3. \A i \in 1 .. Len(code) : more[i] = code[i]
  BY DEF Continues
<1>4. more[o + 1] = code[o + 1]
  BY <1>1, <1>3
<1>5. ASSUME code[o + 1] = OP_CONSTANT
      PROVE  o + 2 \in DOMAIN deeper /\ deeper[o + 2] = deeper[o] + 1 /\ more[o + 2] \in 0 .. p - 1
  <2>1. o + 2 \in DOMAIN depth /\ depth[o + 2] = depth[o] + 1 /\ code[o + 2] \in 0 .. n - 1
    BY <1>2, <1>5 DEF Finds
  <2>2. more[o + 2] = code[o + 2]
    BY <1>1, <1>3, <2>1
  <2>. QED BY <2>1, <2>2
<1>6. ASSUME code[o + 1] = OP_CONSTANT_LONG
      PROVE  o + 4 \in DOMAIN deeper /\ deeper[o + 4] = deeper[o] + 1 /\ WideOperand(more, o) \in 0 .. p - 1
  <2>1. o + 4 \in DOMAIN depth /\ depth[o + 4] = depth[o] + 1 /\ WideOperand(code, o) \in 0 .. n - 1
    BY <1>2, <1>6 DEF Finds
  <2>2. more[o + 2] = code[o + 2] /\ more[o + 3] = code[o + 3] /\ more[o + 4] = code[o + 4]
    <3> DEFINE l == Len(code)
    <3>1. o \in Nat /\ l \in Nat /\ o + 4 <= l
      BY <1>1, <2>1
    <3>2. \A i \in 1 .. l : more[i] = code[i]
      BY <1>3
    <3> HIDE DEF l
    <3>3. o + 2 \in 1 .. l /\ o + 3 \in 1 .. l /\ o + 4 \in 1 .. l
      BY <3>1
    <3>. QED BY <3>2, <3>3
  <2>3. WideOperand(more, o) = WideOperand(code, o)
    BY <2>2 DEF WideOperand
  <2>4. WideOperand(code, o) \in 0 .. p - 1
    BY <2>1
  <2>. QED BY <2>1, <2>3, <2>4
<1>. QED
  BY <1>1, <1>2, <1>4, <1>5, <1>6 DEF Finds

\* One instruction more: the next one finds h values.
LEMMA OpenMore ==
  ASSUME NEW code, NEW more, NEW k \in Nat \ {0}, Len(code) \in Nat, Continues(code, more, k),
         NEW n \in Nat, NEW p \in Nat, n <= p, NEW g, NEW h \in Nat, Open(code, n, g),
         \A depth : /\ Len(code) \in DOMAIN depth /\ depth[Len(code)] = g /\ g \in Nat
                    /\ Len(more) \in DOMAIN depth /\ depth[Len(more)] = h
                    => Finds(more, p, depth, Len(code))
  PROVE  Open(more, p, h)
<1> DEFINE l == Len(code)
           q == Len(more)
<1>1. PICK depth : Program(code, n, depth) /\ l \in DOMAIN depth /\ depth[l] = g
  BY DEF Open
<1> DEFINE deeper == [o \in DOMAIN depth \cup {q} |-> IF o = q THEN h ELSE depth[o]]
<1>2. DOMAIN depth \subseteq 0 .. l /\ 0 \in DOMAIN depth /\ depth[0] = 0 /\ \A o \in DOMAIN depth : depth[o] \in Nat
  BY <1>1 DEF Program
<1>3. q = l + k
  BY DEF Continues
<1>4. DOMAIN deeper = DOMAIN depth \cup {q} /\ deeper[q] = h /\ q \in DOMAIN deeper
  OBVIOUS
<1>5. \A o \in DOMAIN depth : o # q /\ deeper[o] = depth[o]
  BY <1>2, <1>3
<1> HIDE DEF deeper
<1>6. ASSUME NEW o \in DOMAIN deeper, o < q
      PROVE  Finds(more, p, deeper, o)
  <2>1. o \in DOMAIN depth
    BY <1>4, <1>6, <1>3
  <2>2. CASE o < l
    BY <2>1, <2>2, <1>1, <1>4, <1>5, FindsStill
  <2>3. CASE o = l
    <3>1. l \in DOMAIN deeper /\ deeper[l] = g /\ g \in Nat
      BY <1>1, <1>2, <1>4, <1>5
    <3>2. Finds(more, p, deeper, l)
      BY <3>1, <1>4
    <3>. QED BY <2>3, <3>2
  <2>4. o \in 0 .. l
    BY <1>2, <2>1
  <2>. QED BY <2>2, <2>3, <2>4
<1>7. Program(more, p, deeper)
  <2>1. DOMAIN deeper \subseteq 0 .. q
    BY <1>2, <1>3, <1>4
  <2>2. 0 \in DOMAIN deeper /\ deeper[0] = 0
    BY <1>2, <1>4, <1>5
  <2>3. \A o \in DOMAIN deeper : deeper[o] \in Nat
    BY <1>2, <1>4, <1>5
  <2>. QED BY <1>6, <2>1, <2>2, <2>3 DEF Program
<1>. QED
  BY <1>4, <1>7 DEF Open

\* An instruction that runs on to nothing.
LEMMA CloseWith ==
  ASSUME NEW code, NEW more, NEW k \in Nat \ {0}, Len(code) \in Nat, Continues(code, more, k),
         NEW n \in Nat, NEW p \in Nat, n <= p, NEW g, Open(code, n, g),
         \A depth : Len(code) \in DOMAIN depth /\ depth[Len(code)] = g /\ g \in Nat
                      => Finds(more, p, depth, Len(code))
  PROVE  Closed(more, p)
<1> DEFINE l == Len(code)
           q == Len(more)
<1>1. PICK depth : Program(code, n, depth) /\ l \in DOMAIN depth /\ depth[l] = g
  BY DEF Open
<1>2. DOMAIN depth \subseteq 0 .. l /\ 0 \in DOMAIN depth /\ depth[0] = 0 /\ \A o \in DOMAIN depth : depth[o] \in Nat
  BY <1>1 DEF Program
<1>3. q = l + k
  BY DEF Continues
<1>4. ASSUME NEW o \in DOMAIN depth, o < q
      PROVE  Finds(more, p, depth, o)
  <2>1. CASE o < l
    BY <2>1, <1>1, FindsStill
  <2>2. CASE o = l
    <3>1. Finds(more, p, depth, l)
      BY <1>1, <1>2
    <3>. QED BY <2>2, <3>1
  <2>3. o \in 0 .. l
    BY <1>2
  <2>. QED BY <2>1, <2>2, <2>3
<1>5. Program(more, p, depth)
  <2>1. DOMAIN depth \subseteq 0 .. q
    BY <1>2, <1>3
  <2>. QED BY <1>2, <1>4, <2>1 DEF Program
<1>6. q \notin DOMAIN depth
  BY <1>2, <1>3
<1>. QED
  BY <1>5, <1>6 DEF Closed

-----------------------------------------------------------------------------
(* Operands *)

LEMMA Division ==
  ASSUME NEW n \in Nat, NEW b \in Nat \ {0}
  PROVE  /\ n \div b \in Nat /\ n % b \in 0 .. b - 1
         /\ n = b * (n \div b) + (n % b)
OBVIOUS

\* A product keeps an order and a strict one.
LEMMA Products ==
  ASSUME NEW b \in Nat \ {0}, NEW x \in Nat, NEW y \in Nat
  PROVE  /\ b * x \in Nat
         /\ x <= y => b * x <= b * y
         /\ b * x < b * y => x < y
<1>1. b * x \in Nat
  OBVIOUS
<1>2. ASSUME x <= y PROVE b * x <= b * y
  <2>1. y - x \in Nat /\ b * (y - x) = b * y - b * x
    BY <1>2
  <2>2. b * (y - x) \in Nat
    BY <2>1
  <2>. QED BY <2>1, <2>2
<1>3. ASSUME b * x < b * y, ~ x < y PROVE FALSE
  <2>1. x - y \in Nat /\ b * (x - y) = b * x - b * y
    BY <1>3
  <2>2. b * (x - y) \in Nat
    BY <2>1
  <2>. QED BY <1>3, <2>1, <2>2
<1>. QED
  BY <1>1, <1>2, <1>3

\* A quotient is the only one with its bounds.
LEMMA Quotient ==
  ASSUME NEW n \in Nat, NEW b \in Nat \ {0}, NEW q \in Nat, NEW r \in 0 .. b - 1, n = b * q + r
  PROVE  n \div b = q /\ n % b = r
<1> DEFINE p == n \div b
           s == n % b
<1>1. p \in Nat /\ s \in 0 .. b - 1 /\ n = b * p + s
  BY Division
<1> HIDE DEF p, s
<1>2. CASE p < q
  <2>1. b * (p + 1) <= b * q
    BY <1>1, <1>2, Products
  <2>2. b * (p + 1) = b * p + b /\ b * p \in Nat /\ b * q \in Nat
    BY <1>1
  <2>. QED BY <1>1, <2>1, <2>2
<1>3. CASE q < p
  <2>1. b * (q + 1) <= b * p
    BY <1>1, <1>3, Products
  <2>2. b * (q + 1) = b * q + b /\ b * p \in Nat /\ b * q \in Nat
    BY <1>1
  <2>. QED BY <1>1, <2>1, <2>2
<1>4. CASE p = q
  <2>1. b * q \in Nat
    OBVIOUS
  <2>2. s = r
    BY <1>1, <1>4, <2>1
  <2>. QED BY <1>4, <2>2 DEF p, s
<1>. QED
  BY <1>1, <1>2, <1>3, <1>4

\* The three bytes of an operand give back the index.
LEMMA Digits ==
  ASSUME NEW n \in Nat, n < ByteSize * ByteSize * ByteSize
  PROVE  (n % ByteSize) + ((n \div ByteSize) % ByteSize) * ByteSize
           + ((n \div (ByteSize * ByteSize)) % ByteSize) * ByteSize * ByteSize = n
<1> DEFINE b == ByteSize
           bb == b * b
           q == n \div b
           r == n % b
           x == q \div b
           y == q % b
<1>1. b \in Nat \ {0}
  BY ByteSizeAssumption
<1>2. q \in Nat /\ r \in 0 .. b - 1 /\ n = b * q + r
  BY <1>1, Division
<1>3. n < b * bb
  BY <1>1
<1> HIDE DEF b, q, r
<1>4. x \in Nat /\ y \in 0 .. b - 1 /\ q = b * x + y
  BY <1>1, <1>2, Division
<1> HIDE DEF x, y
<1>5. bb \in Nat \ {0}
  BY <1>1
<1>6. b * q = bb * x + b * y
  BY <1>1, <1>2, <1>4
<1>7. b * y + r \in 0 .. bb - 1
  <2>1. b * y <= b * (b - 1)
    BY <1>1, <1>4, Products
  <2>2. b * (b - 1) = bb - b /\ b * y \in Nat
    BY <1>1, <1>4
  <2>. QED BY <1>1, <1>2, <1>5, <2>1, <2>2
<1>8. n = bb * x + (b * y + r)
  <2>1. b * q \in Nat /\ bb * x \in Nat /\ b * y \in Nat
    BY <1>1, <1>2, <1>4, <1>5
  <2>. QED BY <1>2, <1>6, <2>1
<1>9. n \div bb = x
  <2> DEFINE s == b * y + r
  <2> HIDE DEF bb, s
  <2>1. s \in 0 .. bb - 1 /\ n = bb * x + s
    BY <1>7, <1>8 DEF s
  <2>. QED BY <1>4, <1>5, <2>1, Quotient
<1>10. x % b = x
  <2>1. b * x \in Nat /\ bb * x = b * (b * x)
    BY <1>1, <1>4
  <2>2. b * (b * x) < b * bb
    <3>1. bb * x <= n
      <4>1. bb * x \in Nat /\ b * y + r \in Nat
        BY <1>4, <1>5, <1>7
      <4>. QED BY <1>8, <4>1
    <3>. QED BY <1>3, <2>1, <3>1, <1>1, <1>5
  <2>3. b * x < bb
    BY <1>1, <1>5, <2>1, <2>2, Products
  <2>4. x < b
    BY <1>1, <1>4, <2>3, Products
  <2>. QED BY <1>1, <1>4, <2>4
<1>11. x * b * b = bb * x /\ y * b = b * y
  BY <1>1, <1>4
<1>12. r + y * b + x * b * b = n
  <2>1. bb * x \in Nat /\ b * y \in Nat
    BY <1>1, <1>4, <1>5
  <2>. QED BY <1>2, <1>8, <1>11, <2>1
<1>13. (n \div b) % b = y /\ (n \div (b * b)) % b = x /\ n % b = r
  BY <1>9, <1>10 DEF q, r, y
<1>. QED
  BY <1>12, <1>13 DEF b

-----------------------------------------------------------------------------
(* Writing a program *)

\* A byte more.
LEMMA AppendContinues ==
  ASSUME NEW code, IsSequence(code), NEW x
  PROVE  LET more == Append(code, x)
         IN /\ IsSequence(more) /\ Len(code) \in Nat /\ Continues(code, more, 1) /\ more[Len(code) + 1] = x
BY Appended DEF Continues

\* Bytes after bytes.
LEMMA ContinuesTwice ==
  ASSUME NEW a, NEW b, NEW c, Len(a) \in Nat, NEW i \in Nat, NEW j \in Nat, NEW k, k = i + j,
         Continues(a, b, i), Continues(b, c, j)
  PROVE  Continues(a, c, k)
<1>1. Len(b) = Len(a) + i /\ Len(c) = Len(a) + k
  BY DEF Continues
<1>2. ASSUME NEW n \in 1 .. Len(a)
      PROVE  c[n] = a[n]
  <2>1. n \in 1 .. Len(b)
    BY <1>1
  <2>. QED BY <2>1 DEF Continues
<1>. QED
  BY <1>1, <1>2 DEF Continues

\* Four bytes more.
LEMMA AppendFour ==
  ASSUME NEW code, IsSequence(code), NEW w, NEW x, NEW y, NEW z
  PROVE  LET more == Append(Append(Append(Append(code, w), x), y), z)
             l == Len(code)
         IN /\ l \in Nat /\ Continues(code, more, 4)
            /\ more[l + 1] = w /\ more[l + 2] = x /\ more[l + 3] = y /\ more[l + 4] = z
<1> DEFINE l == Len(code)
           a == Append(code, w)
           b == Append(a, x)
           c == Append(b, y)
           more == Append(c, z)
<1>1. IsSequence(a) /\ l \in Nat /\ Continues(code, a, 1) /\ a[l + 1] = w
  BY AppendContinues
<1>2. Len(a) = l + 1
  BY <1>1 DEF Continues
<1> HIDE DEF a
<1>3. IsSequence(b) /\ Continues(a, b, 1) /\ b[Len(a) + 1] = x
  BY <1>1, AppendContinues
<1>4. Len(b) = l + 2 /\ b[l + 2] = x /\ b[l + 1] = w
  BY <1>1, <1>2, <1>3 DEF Continues
<1> HIDE DEF b
<1>5. Continues(code, b, 2)
  BY <1>1, <1>3, ContinuesTwice
<1>6. IsSequence(c) /\ Continues(b, c, 1) /\ c[Len(b) + 1] = y
  BY <1>3, AppendContinues
<1>7. Len(c) = l + 3 /\ c[l + 3] = y /\ c[l + 2] = x /\ c[l + 1] = w
  BY <1>1, <1>4, <1>6 DEF Continues
<1> HIDE DEF c
<1>8. Continues(code, c, 3)
  BY <1>1, <1>5, <1>6, ContinuesTwice
<1>9. Continues(c, more, 1) /\ more[Len(c) + 1] = z
  BY <1>6, AppendContinues
<1> HIDE DEF more
<1>10. more[l + 4] = z /\ more[l + 3] = y /\ more[l + 2] = x /\ more[l + 1] = w
  BY <1>1, <1>7, <1>9 DEF Continues
<1>11. Continues(code, more, 4)
  BY <1>1, <1>8, <1>9, ContinuesTwice
<1>. QED
  BY <1>1, <1>10, <1>11 DEF more, c, b, a

\* writeConstant
LEMMA OpenConstant ==
  ASSUME NEW code, IsSequence(code), NEW n \in Nat, n < ByteSize * ByteSize * ByteSize,
         NEW h \in Nat, Open(code, n, h)
  PROVE  Open(LoadBytes(code, n), n + 1, h + 1)
<1> DEFINE l == Len(code)
           low == n % ByteSize
           middle == (n \div ByteSize) % ByteSize
           high == (n \div (ByteSize * ByteSize)) % ByteSize
<1>1. low + middle * ByteSize + high * ByteSize * ByteSize = n
  BY Digits
<1>2. CASE n < ByteSize
  <2> DEFINE a == Append(code, OP_CONSTANT)
             more == Append(a, low)
  <2>1. LoadBytes(code, n) = more
    BY <1>2 DEF LoadBytes
  <2>2. low = n
    BY <1>2, ByteSizeAssumption
  <2> HIDE DEF low
  <2>3. /\ IsSequence(a) /\ l \in Nat /\ Continues(code, a, 1) /\ a[l + 1] = OP_CONSTANT
    BY AppendContinues
  <2>4. Len(a) = l + 1
    BY <2>3 DEF Continues
  <2> HIDE DEF a
  <2>5. Continues(a, more, 1) /\ more[Len(a) + 1] = low
    BY <2>3, AppendContinues
  <2> HIDE DEF more
  <2>6. more[l + 1] = OP_CONSTANT
    BY <2>3, <2>4, <2>5 DEF Continues
  <2>7. more[l + 2] = n
    BY <2>2, <2>3, <2>4, <2>5
  <2>8. Continues(code, more, 2)
    BY <2>3, <2>5, ContinuesTwice
  <2>9. Len(more) = l + 2
    BY <2>8 DEF Continues
  <2>10. ASSUME NEW depth, l \in DOMAIN depth, depth[l] = h, Len(more) \in DOMAIN depth, depth[Len(more)] = h + 1
         PROVE  Finds(more, n + 1, depth, l)
    <3>1. more[l + 1] = 0
      BY <2>6 DEF OP_CONSTANT
    <3>2. n \in 0 .. (n + 1) - 1
      OBVIOUS
    <3>. QED BY <2>7, <2>9, <2>10, <3>1, <3>2
             DEF Finds, OP_CONSTANT, OP_CONSTANT_LONG, OP_ADD, OP_DIVIDE, OP_NEGATE, OP_RETURN
  <2>11. Open(more, n + 1, h + 1)
    <3> DEFINE p == n + 1
               g == h + 1
               k == 2
    <3>1. p \in Nat /\ g \in Nat /\ k \in Nat \ {0} /\ n <= p
      OBVIOUS
    <3>2. Continues(code, more, k)
      BY <2>8
    <3>3. \A depth : /\ l \in DOMAIN depth /\ depth[l] = h /\ h \in Nat
                     /\ Len(more) \in DOMAIN depth /\ depth[Len(more)] = g
                     => Finds(more, p, depth, l)
      BY <2>10
    <3> HIDE DEF p, g, k
    <3>4. Open(more, p, g)
      BY <2>3, <3>1, <3>2, <3>3, OpenMore
    <3>. QED BY <3>4 DEF p, g
  <2>. QED BY <2>1, <2>11
<1>3. CASE ~ n < ByteSize
  <2> DEFINE more == Append(Append(Append(Append(code, OP_CONSTANT_LONG), low), middle), high)
  <2>1. LoadBytes(code, n) = more
    BY <1>3 DEF LoadBytes
  <2> HIDE DEF low, middle, high
  <2>2. /\ l \in Nat /\ Continues(code, more, 4)
        /\ more[l + 1] = OP_CONSTANT_LONG /\ more[l + 2] = low /\ more[l + 3] = middle /\ more[l + 4] = high
    BY AppendFour
  <2> HIDE DEF more
  <2>3. Len(more) = l + 4
    BY <2>2 DEF Continues
  <2>4. WideOperand(more, l) = n
    BY <1>1, <2>2 DEF WideOperand
  <2>5. ASSUME NEW depth, l \in DOMAIN depth, depth[l] = h, Len(more) \in DOMAIN depth, depth[Len(more)] = h + 1
         PROVE  Finds(more, n + 1, depth, l)
    <3>1. more[l + 1] = 1
      BY <2>2 DEF OP_CONSTANT_LONG
    <3>2. n \in 0 .. (n + 1) - 1
      OBVIOUS
    <3>. QED BY <2>3, <2>4, <2>5, <3>1, <3>2
             DEF Finds, OP_CONSTANT, OP_CONSTANT_LONG, OP_ADD, OP_DIVIDE, OP_NEGATE, OP_RETURN
  <2>6. Open(more, n + 1, h + 1)
    <3> DEFINE p == n + 1
               g == h + 1
               k == 4
    <3>1. p \in Nat /\ g \in Nat /\ k \in Nat \ {0} /\ n <= p
      OBVIOUS
    <3>2. Continues(code, more, k)
      BY <2>2
    <3>3. \A depth : /\ l \in DOMAIN depth /\ depth[l] = h /\ h \in Nat
                     /\ Len(more) \in DOMAIN depth /\ depth[Len(more)] = g
                     => Finds(more, p, depth, l)
      BY <2>5
    <3> HIDE DEF p, g, k
    <3>4. Open(more, p, g)
      BY <2>2, <3>1, <3>2, <3>3, OpenMore
    <3>. QED BY <3>4 DEF p, g
  <2>. QED BY <2>1, <2>6
<1>. QED
  BY <1>2, <1>3

\* The values left by an instruction without an operand; any number, if run
\* does not get past it.
Leaves(op, g, h) ==
  /\ op \in Nat \ {OP_CONSTANT, OP_CONSTANT_LONG} /\ g \in Nat /\ h \in Nat
  /\ op \in OP_ADD .. OP_DIVIDE => g >= 2 /\ h = g - 1
  /\ op = OP_NEGATE => g >= 1 /\ h = g
  /\ op = OP_RETURN => g >= 1

\* emitByte
LEMMA OpenByte ==
  ASSUME NEW code, IsSequence(code), NEW n \in Nat, NEW g, NEW h, NEW op, Leaves(op, g, h), Open(code, n, g)
  PROVE  Open(Append(code, op), n, h)
<1> DEFINE l == Len(code)
           more == Append(code, op)
           k == 1
<1>1. l \in Nat /\ Continues(code, more, k) /\ more[l + 1] = op /\ k \in Nat \ {0} /\ n <= n /\ h \in Nat
  BY AppendContinues DEF Leaves
<1>2. Len(more) = l + 1
  BY <1>1 DEF Continues
<1> HIDE DEF more, k
<1>3. ASSUME NEW depth, l \in DOMAIN depth, depth[l] = g, Len(more) \in DOMAIN depth, depth[Len(more)] = h
      PROVE  Finds(more, n, depth, l)
  BY <1>1, <1>2, <1>3 DEF Finds, Leaves
<1>4. Open(more, n, h)
  BY <1>1, <1>3, OpenMore
<1>. QED
  BY <1>4 DEF more

\* The last byte.
LEMMA CloseByte ==
  ASSUME NEW code, IsSequence(code), NEW n \in Nat, NEW g \in Nat, NEW op \in Nat,
         op \notin OP_CONSTANT .. OP_NEGATE, op = OP_RETURN => g >= 1, Open(code, n, g)
  PROVE  Closed(Append(code, op), n)
<1> DEFINE l == Len(code)
           more == Append(code, op)
           k == 1
<1>1. l \in Nat /\ Continues(code, more, k) /\ more[l + 1] = op /\ k \in Nat \ {0} /\ n <= n
  BY AppendContinues
<1> HIDE DEF more, k
<1>2. ASSUME NEW depth, l \in DOMAIN depth, depth[l] = g
      PROVE  Finds(more, n, depth, l)
  BY <1>1, <1>2 DEF Finds, OP_CONSTANT, OP_CONSTANT_LONG, OP_ADD, OP_DIVIDE, OP_NEGATE, OP_RETURN
<1>3. Closed(more, n)
  BY <1>1, <1>2, CloseWith
<1>. QED
  BY <1>3 DEF more
=============================================================================
