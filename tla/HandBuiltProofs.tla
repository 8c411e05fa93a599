-------------------------- MODULE HandBuiltProofs ---------------------------
(***************************************************************************)
(* Proofs about a program that builds and frees a chunk by hand.           *)
(***************************************************************************)
EXTENDS HandBuilt, ChunkProofs, WellFoundedInduction, SequenceTheorems

\* A set that holds 0 and the successor of each of its naturals holds them all.
LEMMA SetInduction ==
  ASSUME NEW S, 0 \in S, \A n \in Nat : n \in S => n + 1 \in S
  PROVE  Nat \subseteq S
<1> DEFINE R == OpToRel(<, Nat)
           T == {n \in Nat : n \notin S}
<1>1. \A x \in Nat : x + 1 \in Nat /\ <<x, x + 1>> \in R
  BY DEF OpToRel
<1>2. ASSUME T # {}
      PROVE  FALSE
  <2>1. IsWellFoundedOn(R, Nat) /\ T \subseteq Nat
    BY NatLessThanWellFounded
  <2> HIDE DEF R, T
  <2>2. PICK x \in T : \A y \in T : ~(<<y, x>> \in R)
    BY <1>2, <2>1, WFMin
  <2>3. x \in Nat /\ x # 0 /\ x \notin S
    BY DEF T
  <2>4. x - 1 \in Nat /\ (x - 1) + 1 = x
    BY <2>3
  <2>5. x - 1 \in T
    BY <2>3, <2>4 DEF T
  <2>. QED BY <1>1, <2>2, <2>4, <2>5
<1>. QED BY <1>2


\* Nothing but the chunk's three arrays is in memory, and nothing was misused.
IInv == Owns(Now, EmptyArray) /\ mem.wild = FALSE

\* What the chunk owns says both that nothing was misused and that nothing
\* leaks.
LEMMA OwningIsSafe ==
  ASSUME IInv
  PROVE  MemorySafe /\ NothingLeaks
<1> DEFINE a == chunk.code
           b == chunk.lines
           c == chunk.constants
<1>1. Shared(mem, a, b, c, EmptyArray)
  BY DEF IInv, Owns, Now
<1>3. MemorySafe
  BY DEF MemorySafe, IInv
<1>4. Live(mem) = {e.ptr : e \in Arrays(chunk)} \ {NULL}
  <2>1. {e.ptr : e \in Arrays(chunk)} = {a.ptr, b.ptr, c.ptr}
    BY DEF Arrays
  <2>2. Live(mem) = {a.ptr, b.ptr, c.ptr, NULL} \ {NULL}
    BY <1>1 DEF Shared, EmptyArray
  <2>. QED BY <2>1, <2>2
<1>5. \A e \in Arrays(chunk) : e.ptr # NULL => DOMAIN mem.blocks[e.ptr] = 0 .. e.capacity - 1
  BY <1>1 DEF Arrays, Shared, Fits
<1>6. mem.tally = a.capacity + b.capacity + c.capacity
  BY <1>1 DEF Shared, Fits, EmptyArray
<1>. QED
  BY <1>3, <1>4, <1>5, <1>6 DEF NothingLeaks

LEMMA InitOwns == Init => IInv
<1> SUFFICES ASSUME Init PROVE IInv
  OBVIOUS
<1>1. DOMAIN <<>> = {}
  OBVIOUS
<1>2. IsFiniteSet({})
  BY FS_EmptySet
<1>3. Sound(NoMemory)
  BY <1>1, <1>2 DEF Sound, NoMemory, Live
<1>4. Fits(NoMemory, EmptyArray) /\ Apart(EmptyArray, EmptyArray)
  BY DEF Fits, EmptyArray, Apart
<1>5. Live(NoMemory) = {EmptyArray.ptr, EmptyArray.ptr, EmptyArray.ptr, EmptyArray.ptr} \ {NULL}
  BY <1>1 DEF Live, NoMemory, EmptyArray
<1>6. NoMemory.tally = EmptyArray.capacity + EmptyArray.capacity + EmptyArray.capacity + EmptyArray.capacity
  BY DEF NoMemory, EmptyArray
<1>7. Shared(NoMemory, EmptyArray, EmptyArray, EmptyArray, EmptyArray)
  BY <1>3, <1>4, <1>5, <1>6 DEF Shared
<1>. QED
  BY <1>7 DEF Init, IInv, Owns, Now, emptyChunk, NoMemory

LEMMA StepOwns == IInv /\ [Next]_vars => IInv'
<1> SUFFICES ASSUME IInv, [Next]_vars PROVE IInv'
  OBVIOUS
<1>1. ASSUME NEW s, Owns(s, EmptyArray), s.mem.wild = mem.wild, Becomes(s)
      PROVE  IInv'
  <2>1. Now' = s
    BY <1>1 DEF Becomes, Now, Owns
  <2>. QED BY <1>1, <2>1 DEF IInv, Becomes
<1>2. CASE WriteSimple
  <2>1. PICK op \in Opcodes, line \in Lines : Becomes(writeChunk(Now, op, line))
    BY <1>2 DEF WriteSimple
  <2>2. Owns(writeChunk(Now, op, line), EmptyArray) /\ writeChunk(Now, op, line).mem.wild = mem.wild
    BY WritesChunk DEF IInv, OtherKeeps, Now
  <2>. QED BY <1>1, <2>1, <2>2
<1>3. CASE WriteConstant
  <2>1. PICK value \in Values, line \in Lines : Becomes(writeConstant(Now, value, line))
    BY <1>3 DEF WriteConstant
  <2>2. Owns(writeConstant(Now, value, line), EmptyArray) /\ writeConstant(Now, value, line).mem.wild = mem.wild
    BY WritesConstant DEF IInv, OtherKeeps, Now
  <2>. QED BY <1>1, <2>1, <2>2
<1>4. CASE AddConstant
  <2>1. PICK value \in Values : Becomes(addConstant(Now, value))
    BY <1>4 DEF AddConstant
  <2>2. Owns(addConstant(Now, value), EmptyArray) /\ addConstant(Now, value).mem.wild = mem.wild
    BY AddsConstant DEF IInv, OtherKeeps, Now
  <2>. QED BY <1>1, <2>1, <2>2
<1>5. CASE FreeChunk
  <2>1. Becomes(freeChunk(Now))
    BY <1>5 DEF FreeChunk
  <2>2. Owns(freeChunk(Now), EmptyArray) /\ freeChunk(Now).mem.wild = mem.wild
    BY FreesChunk DEF IInv, OtherKeeps, Now
  <2>. QED BY <1>1, <2>1, <2>2
<1>6. CASE UNCHANGED vars
  BY <1>6 DEF vars, IInv, Now
<1>. QED
  BY <1>2, <1>3, <1>4, <1>5, <1>6 DEF Next

LEMMA AlwaysOwns == Spec => []IInv
<1>. QED
  BY InitOwns, StepOwns, PTL DEF Spec

\* However a chunk is written, grown and freed, nothing outside its blocks is
\* touched and no block is freed twice: for every width of an operand, every
\* set of opcodes and values, and however much is written.
THEOREM StaysInItsBlocks == Spec => []MemorySafe
<1>. QED
  BY AlwaysOwns, OwningIsSafe, PTL

\* The chunk's arrays are all there is in memory, as large as their capacities,
\* and the sizes claimed in calls of reallocate are the sizes live.
THEOREM LeaksNothing == Spec => []NothingLeaks
<1>. QED
  BY AlwaysOwns, OwningIsSafe, PTL
-----------------------------------------------------------------------------
(* What the runs stand for *)

\* The runs cover a list with a line for every byte of the code: cut[i] bytes
\* are covered by the first i of them.
Cuts(cut, runs, ls) ==
  /\ cut \in [0 .. Len(runs) -> Nat]
  /\ cut[0] = 0 /\ cut[Len(runs)] = Len(ls)
  /\ \A i \in 1 .. Len(runs) :
       /\ runs[i] \in [line : Lines, count : Nat]
       /\ cut[i] = cut[i - 1] + runs[i].count
       /\ \A j \in cut[i - 1] + 1 .. cut[i] : ls[j] = runs[i].line

Covers(runs, ls) == \E cut : Cuts(cut, runs, ls)

\* No run covers more than all of them.
LEMMA CutsWithin ==
  ASSUME NEW cut, NEW runs, NEW ls, Cuts(cut, runs, ls), Len(runs) \in Nat, Len(ls) \in Nat
  PROVE  \A i \in 0 .. Len(runs) : cut[i] <= Len(ls)
<1> DEFINE n == Len(runs)
           l == Len(ls)
           S == {k \in Nat : k <= n => cut[n - k] <= l}
<1>1. /\ n \in Nat /\ l \in Nat /\ cut \in [0 .. n -> Nat] /\ cut[n] = l
      /\ \A i \in 1 .. n : runs[i].count \in Nat /\ cut[i] = cut[i - 1] + runs[i].count
  BY DEF Cuts
<1> HIDE DEF n, l
<1>2. 0 \in S
  BY <1>1
<1>3. ASSUME NEW k \in Nat, k \in S
      PROVE  k + 1 \in S
  <2>1. CASE k + 1 <= n
    <3> DEFINE i == n - k
    <3>1. i \in 1 .. n /\ i - 1 = n - (k + 1) /\ cut[i] <= l
      BY <1>1, <1>3, <2>1
    <3> HIDE DEF i
    <3>2. cut[i] = cut[i - 1] + runs[i].count /\ runs[i].count \in Nat
      BY <1>1, <3>1
    <3>3. cut[i] \in Nat /\ cut[i - 1] \in Nat
      <4>1. i \in 0 .. n /\ i - 1 \in 0 .. n
        BY <1>1, <3>1
      <4>. QED BY <1>1, <4>1
    <3>4. cut[i - 1] <= l
      BY <1>1, <3>1, <3>2, <3>3
    <3>. QED BY <3>1, <3>4
  <2>2. CASE ~ k + 1 <= n
    BY <2>2
  <2>. QED BY <2>1, <2>2
<1> HIDE DEF S
<1>4. Nat \subseteq S
  BY <1>2, <1>3, SetInduction
<1>5. ASSUME NEW i \in 0 .. n
      PROVE  cut[i] <= l
  <2> DEFINE k == n - i
  <2>1. k \in Nat /\ k <= n /\ n - k = i
    BY <1>1
  <2> HIDE DEF k
  <2>. QED BY <1>4, <2>1 DEF S
<1>. QED
  BY <1>5 DEF n, l

\* lineArrayGet finds the line of every byte the runs cover.
LEMMA GetsLine ==
  ASSUME NEW m, NEW a, a.count \in Nat, NEW ls, Len(ls) \in Nat, Covers(Contents(m, a), ls),
         NEW offset \in 0 .. Len(ls) - 1
  PROVE  lineArrayGet(m, a, offset) = ls[offset + 1]
<1> DEFINE n == a.count
           l == Len(ls)
           runs == Contents(m, a)
           run(i) == RunAt(m, a, i)
           past(g, i) == [left \in Int |->
                            IF i = n THEN -1
                            ELSE IF left - run(i).count < 0 THEN run(i).line
                            ELSE g[left - run(i).count]]
           Walked(f) == [i \in 0 .. n |-> past(f[i + 1], i)]
           walk == CHOOSE f : f = Walked(f)
<1>1. lineArrayGet(m, a, offset) = walk[0][offset]
  BY Zenon DEF lineArrayGet
<1>2. Len(runs) = n /\ n \in Nat /\ offset \in Nat /\ l \in Nat /\ offset < l
  BY ContentsSequence
<1>3. PICK cut : Cuts(cut, runs, ls)
  BY DEF Covers
<1>4. cut \in [0 .. n -> Nat] /\ cut[0] = 0 /\ cut[n] = l /\ \A i \in 0 .. n : cut[i] <= l
  BY <1>2, <1>3, CutsWithin DEF Cuts
<1> HIDE DEF runs, l
<1>5. ASSUME NEW i \in 0 .. n - 1
      PROVE  /\ run(i) = runs[i + 1] /\ run(i).count \in Nat
             /\ cut[i + 1] = cut[i] + run(i).count
             /\ \A j \in cut[i] + 1 .. cut[i + 1] : ls[j] = run(i).line
  <2> DEFINE k == i + 1
  <2>1. k \in 1 .. n /\ k - 1 = i
    BY <1>2
  <2> HIDE DEF k
  <2>2. /\ runs[k] \in [line : Lines, count : Nat]
        /\ cut[k] = cut[i] + runs[k].count
        /\ \A j \in cut[i] + 1 .. cut[k] : ls[j] = runs[k].line
    BY <1>2, <1>3, <2>1 DEF Cuts
  <2>3. run(i) = RunOf(runs[k])
    BY <1>2, RunCell DEF runs, k
  <2>4. runs[k] # Garbage
    BY <2>2, GarbageAssumption
  <2>. QED BY <2>2, <2>3, <2>4 DEF RunOf, k
<1> HIDE DEF run
\* What the walk finds from run i on: the line of the byte as far after the
\* bytes covered by then.
<1> DEFINE found(i, left) == IF cut[i] + left < l THEN ls[cut[i] + left + 1] ELSE -1
           seen(i) == [left \in Int |->
                         IF i = n THEN -1 ELSE IF left < 0 THEN run(i).line ELSE found(i, left)]
           w == [i \in 0 .. n |-> seen(i)]
<1>6. ASSUME NEW g
      PROVE  past(g, n) = seen(n)
  OBVIOUS
<1>7. ASSUME NEW i \in 0 .. n - 1
      PROVE  past(seen(i + 1), i) = seen(i)
  <2> DEFINE c == cut[i]
             d == cut[i + 1]
             k == run(i).count
             g == seen(i + 1)
  <2>1. c \in Nat /\ d \in Nat /\ d = c + k /\ k \in Nat /\ d <= l /\ i # n
    <3>1. i \in 0 .. n /\ i + 1 \in 0 .. n /\ i # n
      BY <1>2
    <3>. QED BY <1>4, <1>5, <3>1
  <2>2. \A j \in c + 1 .. d : ls[j] = run(i).line
    BY <1>5
  <2>3. i + 1 = n => d = l
    BY <1>4
  <2>4. \A left \in Int : g[left] = IF i + 1 = n THEN -1 ELSE IF left < 0 THEN run(i + 1).line
                                    ELSE IF d + left < l THEN ls[d + left + 1] ELSE -1
    OBVIOUS
  <2> HIDE DEF d, k, g
  <2>5. ASSUME NEW left \in Int
        PROVE  (IF left - k < 0 THEN run(i).line ELSE g[left - k])
                 = IF left < 0 THEN run(i).line ELSE IF c + left < l THEN ls[c + left + 1] ELSE -1
    <3> HIDE DEF c
    <3>1. CASE left < 0
      BY <2>1, <3>1
    <3>2. CASE 0 <= left /\ left < k
      <4>1. c + left + 1 \in c + 1 .. d /\ c + left < l
        BY <1>2, <2>1, <3>2
      <4>2. ls[c + left + 1] = run(i).line
        BY <2>2, <4>1
      <4>. QED BY <2>1, <3>2, <4>1, <4>2
    <3>3. CASE k <= left
      <4> DEFINE x == left - k
      <4>1. x \in Int /\ ~ x < 0 /\ d + x = c + left
        BY <2>1, <3>3
      <4> HIDE DEF x
      <4>2. g[x] = IF i + 1 = n THEN -1 ELSE IF d + x < l THEN ls[d + x + 1] ELSE -1
        BY <2>4, <4>1
      <4>3. i + 1 = n => ~ c + left < l
        BY <1>2, <2>1, <2>3, <3>3
      <4>4. g[x] = IF c + left < l THEN ls[c + left + 1] ELSE -1
        BY <4>1, <4>2, <4>3
      <4>5. ~ left - k < 0 /\ ~ left < 0
        BY <2>1, <3>3
      <4>. QED BY <4>4, <4>5 DEF x
    <3>. QED BY <2>1, <3>1, <3>2, <3>3
  <2>. QED BY <2>1, <2>5 DEF k, g
<1> HIDE DEF seen, past
<1>8. w = Walked(w)
  <2>1. ASSUME NEW i \in 0 .. n
        PROVE  w[i] = past(w[i + 1], i)
    <3>1. CASE i = n
      BY <1>6, <3>1
    <3>2. CASE i # n
      <4>1. i \in 0 .. n - 1 /\ i + 1 \in 0 .. n
        BY <1>2, <3>2
      <4>2. w[i] = seen(i) /\ w[i + 1] = seen(i + 1)
        BY <4>1
      <4> HIDE DEF w
      <4>. QED BY <1>7, <4>1, <4>2
    <3>. QED BY <3>1, <3>2
  <2>. QED BY <2>1
<1>9. walk = Walked(walk)
  <2> HIDE DEF w, Walked
  <2>. QED BY <1>8
<1> HIDE DEF w, walk
<1>10. \A i \in 0 .. n : walk[i] = past(walk[i + 1], i)
  <2>1. \A i \in 0 .. n : walk[i] = Walked(walk)[i]
    BY <1>9, Zenon
  <2>. QED BY <2>1
<1> HIDE DEF Walked
<1> DEFINE S == {i \in Nat : i <= n => walk[n - i] = seen(n - i)}
<1>11. 0 \in S
  <2>1. n \in 0 .. n /\ n - 0 = n
    BY <1>2
  <2>. QED BY <1>6, <1>10, <2>1
<1>12. ASSUME NEW i \in Nat, i \in S
       PROVE  i + 1 \in S
  <2>1. CASE i + 1 <= n
    <3> DEFINE k == n - (i + 1)
    <3>1. k + 1 = n - i /\ k \in 0 .. n - 1 /\ k \in 0 .. n /\ i <= n
      BY <1>2, <2>1
    <3>2. walk[k + 1] = seen(k + 1)
      <4>1. walk[n - i] = seen(n - i)
        BY <1>12, <3>1
      <4> HIDE DEF k, S
      <4>. QED BY <3>1, <4>1
    <3> HIDE DEF k
    <3>3. walk[k] = seen(k)
      BY <1>7, <1>10, <3>1, <3>2
    <3>. QED BY <3>3 DEF k
  <2>2. CASE ~ i + 1 <= n
    BY <2>2
  <2>. QED BY <2>1, <2>2
<1> HIDE DEF S
<1>13. Nat \subseteq S
  BY <1>11, <1>12, SetInduction
<1>14. walk[0] = seen(0)
  <2>1. n \in S /\ n - n = 0
    BY <1>2, <1>13
  <2>. QED BY <1>2, <2>1 DEF S
<1>15. n # 0
  BY <1>2, <1>4
<1>16. seen(0)[offset] = ls[offset + 1]
  <2>1. cut[0] + offset = offset /\ offset \in Int /\ ~ offset < 0
    BY <1>2, <1>4
  <2>. QED BY <1>2, <1>15, <2>1 DEF seen
<1>. QED
  BY <1>1, <1>14, <1>16

\* Nothing is covered by no run.
LEMMA CoversNothing ==
  ASSUME NEW runs, Len(runs) = 0, NEW ls, Len(ls) = 0
  PROVE  Covers(runs, ls)
<1>1. Cuts([i \in 0 .. 0 |-> 0], runs, ls)
  BY DEF Cuts
<1>. QED
  BY <1>1 DEF Covers

\* One more byte is covered, whether the last run got longer or a new one began.
LEMMA CoversMore ==
  ASSUME NEW runs, IsSequence(runs), NEW ls, IsSequence(ls), Covers(runs, ls), NEW line \in Lines
  PROVE  IsSequence(MoreRuns(runs, line)) /\ Covers(MoreRuns(runs, line), Append(ls, line))
<1> DEFINE n == Len(runs)
           l == Len(ls)
           more == MoreRuns(runs, line)
           lines == Append(ls, line)
<1>1. PICK cut : Cuts(cut, runs, ls)
  BY DEF Covers
<1>2. /\ n \in Nat /\ l \in Nat /\ cut \in [0 .. n -> Nat] /\ cut[0] = 0 /\ cut[n] = l
      /\ \A i \in 1 .. n : /\ runs[i] \in [line : Lines, count : Nat]
                           /\ cut[i] = cut[i - 1] + runs[i].count
                           /\ \A j \in cut[i - 1] + 1 .. cut[i] : ls[j] = runs[i].line
  BY <1>1, Appended DEF Cuts
<1>3. Len(lines) = l + 1 /\ lines[l + 1] = line /\ \A j \in 1 .. l : lines[j] = ls[j]
  BY Appended
<1> HIDE DEF lines
<1>4. \A i \in 0 .. n : cut[i] <= l
  BY <1>1, <1>2, CutsWithin
\* So what was covered is covered still.
<1>5. ASSUME NEW i \in 1 .. n, NEW j \in cut[i - 1] + 1 .. cut[i]
      PROVE  lines[j] = runs[i].line
  <2>1. cut[i - 1] \in Nat /\ cut[i] \in Nat /\ cut[i] <= l
    <3>1. i \in 0 .. n /\ i - 1 \in 0 .. n
      BY <1>2
    <3>. QED BY <1>2, <1>4, <3>1
  <2>2. j \in 1 .. l
    BY <1>2, <2>1
  <2>. QED BY <1>2, <1>3, <2>2
<1>6. CASE n > 0 /\ RunOf(runs[n]).line = line
  <2> DEFINE run == [line |-> line, count |-> runs[n].count + 1]
             longer == [cut EXCEPT ![n] = l + 1]
  <2>1. runs[n] \in [line : Lines, count : Nat] /\ n \in 1 .. n
    BY <1>2, <1>6
  <2>2. RunOf(runs[n]) = runs[n]
    BY <2>1, GarbageAssumption DEF RunOf
  <2>3. Longer(RunOf(runs[n])) = run
    BY <1>6, <2>1, <2>2 DEF Longer
  <2>4. run \in [line : Lines, count : Nat] /\ run.line = line /\ run.count = runs[n].count + 1
    BY <2>1
  <2> HIDE DEF run
  <2>5. more = [runs EXCEPT ![n] = run]
    BY <1>6, <2>3 DEF MoreRuns
  <2>6. IsSequence(more) /\ Len(more) = n /\ more[n] = run /\ \A i \in 1 .. n : i # n => more[i] = runs[i]
    <3>1. PICK S : runs \in Seq(S)
      BY DEF IsSequence
    <3>2. runs \in Seq(S \cup {run})
      BY <3>1
    <3>3. more \in Seq(S \cup {run}) /\ Len(more) = n
      BY <2>1, <2>5, <3>2
    <3>4. more[n] = run /\ \A i \in 1 .. n : i # n => more[i] = runs[i]
      BY <2>1, <2>5, <3>2
    <3>. QED BY <3>3, <3>4 DEF IsSequence
  <2> HIDE DEF more
  <2>7. longer \in [0 .. n -> Nat] /\ longer[n] = l + 1 /\ \A i \in 0 .. n : i # n => longer[i] = cut[i]
    BY <1>2
  <2> HIDE DEF longer
  <2>8. ASSUME NEW i \in 1 .. n
        PROVE  /\ more[i] \in [line : Lines, count : Nat]
               /\ longer[i] = longer[i - 1] + more[i].count
               /\ \A j \in longer[i - 1] + 1 .. longer[i] : lines[j] = more[i].line
    <3>1. i \in 0 .. n /\ i - 1 \in 0 .. n /\ i - 1 # n
      BY <1>2
    <3>2. longer[i - 1] = cut[i - 1] /\ cut[i - 1] \in Nat
      BY <1>2, <2>7, <3>1
    <3>3. CASE i # n
      <4>1. more[i] = runs[i] /\ longer[i] = cut[i]
        BY <2>6, <2>7, <3>1, <3>3
      <4>. QED BY <1>2, <1>5, <3>2, <4>1
    <3>4. CASE i = n
      <4>1. more[i] = run /\ longer[i] = l + 1
        BY <2>6, <2>7, <3>4
      <4>2. l = cut[i - 1] + runs[i].count /\ runs[i].count \in Nat
        BY <1>2, <2>1, <3>4
      <4>3. longer[i] = longer[i - 1] + more[i].count
        BY <2>4, <3>2, <3>4, <4>1, <4>2
      <4>4. ASSUME NEW j \in longer[i - 1] + 1 .. longer[i]
            PROVE  lines[j] = more[i].line
        <5>1. j = l + 1 \/ j \in cut[i - 1] + 1 .. cut[i]
          BY <1>2, <3>2, <3>4, <4>1
        <5>2. runs[i].line = line
          BY <1>6, <2>2, <3>4
        <5>. QED BY <1>3, <1>5, <2>4, <4>1, <5>1, <5>2
      <4>. QED BY <2>4, <4>1, <4>3, <4>4
    <3>. QED BY <3>3, <3>4
  <2>9. longer[0] = 0
    BY <1>2, <1>6, <2>7
  <2>10. Cuts(longer, more, lines)
    BY <1>3, <2>6, <2>7, <2>8, <2>9 DEF Cuts
  <2>. QED BY <2>6, <2>10 DEF Covers, more, lines
<1>7. CASE ~(n > 0 /\ RunOf(runs[n]).line = line)
  <2> DEFINE run == [line |-> line, count |-> 1]
             longer == [i \in 0 .. n + 1 |-> IF i = n + 1 THEN l + 1 ELSE cut[i]]
  <2>1. run \in [line : Lines, count : Nat] /\ run.line = line /\ run.count = 1
    OBVIOUS
  <2>2. more = Append(runs, run)
    BY <1>7 DEF MoreRuns
  <2> HIDE DEF run, more
  <2>3. IsSequence(more) /\ Len(more) = n + 1 /\ more[n + 1] = run /\ \A i \in 1 .. n : more[i] = runs[i]
    BY <2>2, Appended
  <2>4. longer \in [0 .. n + 1 -> Nat] /\ longer[n + 1] = l + 1 /\ \A i \in 0 .. n : longer[i] = cut[i]
    BY <1>2
  <2> HIDE DEF longer
  <2>5. ASSUME NEW i \in 1 .. n + 1
        PROVE  /\ more[i] \in [line : Lines, count : Nat]
               /\ longer[i] = longer[i - 1] + more[i].count
               /\ \A j \in longer[i - 1] + 1 .. longer[i] : lines[j] = more[i].line
    <3>1. CASE i # n + 1
      <4>1. i \in 1 .. n /\ i \in 0 .. n /\ i - 1 \in 0 .. n
        BY <1>2, <3>1
      <4>2. more[i] = runs[i] /\ longer[i] = cut[i] /\ longer[i - 1] = cut[i - 1]
        BY <2>3, <2>4, <4>1
      <4>. QED BY <1>2, <1>5, <4>1, <4>2
    <3>2. CASE i = n + 1
      <4>1. more[i] = run /\ longer[i] = l + 1 /\ i - 1 = n
        BY <1>2, <2>3, <2>4, <3>2
      <4>2. longer[n] = l
        BY <1>2, <2>4
      <4>3. \A j \in l + 1 .. l + 1 : j = l + 1
        BY <1>2
      <4>. QED BY <1>2, <1>3, <2>1, <4>1, <4>2, <4>3
    <3>. QED BY <3>1, <3>2
  <2>6. longer[0] = 0
    BY <1>2, <2>4
  <2>7. Cuts(longer, more, lines)
    BY <1>2, <1>3, <2>3, <2>4, <2>5, <2>6 DEF Cuts
  <2>. QED BY <2>3, <2>7 DEF Covers, more, lines
<1>. QED
  BY <1>6, <1>7

-----------------------------------------------------------------------------
(* What the code stands for *)

Instruction(op, line) == [op |-> op, lines |-> {line}]

\* The bytes from offset o up to p are the instruction item: its opcode, the
\* index of its constant if it has one, and one line for all of them.
Reads(code, ls, constants, o, p, item) ==
  \E line :
    /\ \A i \in o .. p - 1 : ls[i + 1] = line
    /\ \/ /\ code[o + 1] = OP_CONSTANT /\ p = o + 2
          /\ code[o + 2] \in 0 .. Len(constants) - 1
          /\ item = Instruction(<<OP_CONSTANT, constants[code[o + 2] + 1]>>, line)
       \/ /\ code[o + 1] = OP_CONSTANT_LONG /\ p = o + 4
          /\ WideOperand(code, o) \in 0 .. Len(constants) - 1
          /\ item = Instruction(<<OP_CONSTANT, constants[WideOperand(code, o) + 1]>>, line)
       \/ /\ code[o + 1] \notin {OP_CONSTANT, OP_CONSTANT_LONG} /\ p = o + 1
          /\ item = Instruction(<<code[o + 1]>>, line)

\* start says where the instructions of the listing start in the code.
Starts(start, code, ls, constants, listing) ==
  /\ start \in [1 .. Len(listing) + 1 -> Nat]
  /\ start[1] = 0 /\ start[Len(listing) + 1] = Len(code)
  /\ \A n \in 1 .. Len(listing) :
       start[n + 1] <= Len(code) /\ Reads(code, ls, constants, start[n], start[n + 1], listing[n])

Listed(code, ls, constants, listing) == \E start : Starts(start, code, ls, constants, listing)

\* An instruction stays what it is when more is written.
LEMMA ReadsStill ==
  ASSUME NEW code, NEW more, NEW k \in Nat, Len(code) \in Nat, Continues(code, more, k),
         NEW ls, NEW lines, NEW j \in Nat, Len(ls) = Len(code), Continues(ls, lines, j),
         NEW constants, NEW pool, NEW e \in Nat, Len(constants) \in Nat, Continues(constants, pool, e),
         NEW o \in Nat, NEW p \in Nat, p <= Len(code), NEW item,
         Reads(code, ls, constants, o, p, item)
  PROVE  Reads(more, lines, pool, o, p, item)
<1> DEFINE l == Len(code)
           c == Len(constants)
<1>1. /\ l \in Nat /\ c \in Nat /\ Len(pool) = c + e
      /\ \A i \in 1 .. l : more[i] = code[i] /\ lines[i] = ls[i]
      /\ \A i \in 1 .. c : pool[i] = constants[i]
  BY DEF Continues
<1>2. PICK line :
        /\ \A i \in o .. p - 1 : ls[i + 1] = line
        /\ \/ /\ code[o + 1] = OP_CONSTANT /\ p = o + 2
              /\ code[o + 2] \in 0 .. Len(constants) - 1
              /\ item = Instruction(<<OP_CONSTANT, constants[code[o + 2] + 1]>>, line)
           \/ /\ code[o + 1] = OP_CONSTANT_LONG /\ p = o + 4
              /\ WideOperand(code, o) \in 0 .. Len(constants) - 1
              /\ item = Instruction(<<OP_CONSTANT, constants[WideOperand(code, o) + 1]>>, line)
           \/ /\ code[o + 1] \notin {OP_CONSTANT, OP_CONSTANT_LONG} /\ p = o + 1
              /\ item = Instruction(<<code[o + 1]>>, line)
  BY DEF Reads
<1> HIDE DEF l, c
<1>9. p <= l
  BY DEF l
<1>3. \A i \in o .. p - 1 : lines[i + 1] = line
  <2>1. \A i \in o .. p - 1 : i + 1 \in 1 .. l
    BY <1>1, <1>9
  <2>. QED BY <1>1, <1>2, <2>1
<1>4. p > o => more[o + 1] = code[o + 1]
  BY <1>1, <1>9
<1>5. CASE code[o + 1] = OP_CONSTANT /\ p = o + 2
  <2>1. code[o + 2] \in 0 .. c - 1 /\ item = Instruction(<<OP_CONSTANT, constants[code[o + 2] + 1]>>, line)
    BY <1>2, <1>5 DEF OP_CONSTANT, OP_CONSTANT_LONG, c
  <2>2. more[o + 2] = code[o + 2] /\ more[o + 1] = OP_CONSTANT
    BY <1>1, <1>4, <1>5, <1>9
  <2>3. pool[code[o + 2] + 1] = constants[code[o + 2] + 1] /\ code[o + 2] \in 0 .. Len(pool) - 1
    <3> DEFINE w == code[o + 2]
    <3>1. w \in 0 .. c - 1
      BY <2>1
    <3> HIDE DEF w
    <3>2. w + 1 \in 1 .. c /\ w \in 0 .. Len(pool) - 1
      BY <1>1, <3>1
    <3>3. pool[w + 1] = constants[w + 1]
      BY <1>1, <3>2
    <3>. QED BY <3>2, <3>3 DEF w
  <2>. QED BY <1>3, <1>5, <2>1, <2>2, <2>3 DEF Reads
<1>6. CASE code[o + 1] = OP_CONSTANT_LONG /\ p = o + 4
  <2> DEFINE w == WideOperand(code, o)
  <2>1. w \in 0 .. c - 1 /\ item = Instruction(<<OP_CONSTANT, constants[w + 1]>>, line)
    BY <1>2, <1>6 DEF OP_CONSTANT, OP_CONSTANT_LONG, c
  <2>2. more[o + 1] = OP_CONSTANT_LONG
    BY <1>4, <1>6
  <2>4. WideOperand(more, o) = w
    <3>1. o + 2 \in 1 .. l /\ o + 3 \in 1 .. l /\ o + 4 \in 1 .. l
      BY <1>1, <1>6, <1>9
    <3>2. more[o + 2] = code[o + 2] /\ more[o + 3] = code[o + 3] /\ more[o + 4] = code[o + 4]
      BY <1>1, <3>1
    <3>. QED BY <3>2 DEF WideOperand
  <2> HIDE DEF w
  <2>5. w + 1 \in 1 .. c /\ w \in 0 .. Len(pool) - 1
    BY <1>1, <2>1
  <2>3. pool[w + 1] = constants[w + 1] /\ w \in 0 .. Len(pool) - 1
    BY <1>1, <2>5
  <2>. QED BY <1>3, <1>6, <2>1, <2>2, <2>3, <2>4 DEF Reads
<1>7. CASE code[o + 1] \notin {OP_CONSTANT, OP_CONSTANT_LONG} /\ p = o + 1
  <2>1. item = Instruction(<<code[o + 1]>>, line)
    BY <1>2, <1>7
  <2>. QED BY <1>3, <1>4, <1>7, <2>1 DEF Reads
<1>. QED
  BY <1>2, <1>5, <1>6, <1>7

\* One instruction more is one more in the listing.
LEMMA ListedMore ==
  ASSUME NEW code, NEW more, NEW k \in Nat, Len(code) \in Nat, Continues(code, more, k),
         NEW ls, NEW lines, Len(ls) = Len(code), Continues(ls, lines, k),
         NEW constants, NEW pool, NEW e \in Nat, Len(constants) \in Nat, Continues(constants, pool, e),
         NEW listing, IsSequence(listing), NEW item,
         Listed(code, ls, constants, listing),
         Reads(more, lines, pool, Len(code), Len(more), item)
  PROVE  Listed(more, lines, pool, Append(listing, item))
<1> DEFINE n == Len(listing)
           l == Len(code)
           q == Len(more)
           longer == Append(listing, item)
<1>1. PICK start : Starts(start, code, ls, constants, listing)
  BY DEF Listed
<1>2. q = l + k /\ n \in Nat /\ l \in Nat
  BY Appended DEF Continues
<1>3. IsSequence(longer) /\ Len(longer) = n + 1 /\ longer[n + 1] = item /\ \A i \in 1 .. n : longer[i] = listing[i]
  BY Appended
<1>4. /\ start \in [1 .. n + 1 -> Nat] /\ start[1] = 0 /\ start[n + 1] = l
      /\ \A i \in 1 .. n : start[i + 1] <= l /\ Reads(code, ls, constants, start[i], start[i + 1], listing[i])
  BY <1>1 DEF Starts
<1>8. Reads(more, lines, pool, l, q, item)
  OBVIOUS
<1> DEFINE next == [i \in 1 .. n + 2 |-> IF i = n + 2 THEN q ELSE start[i]]
<1>5. next \in [1 .. n + 2 -> Nat] /\ next[n + 2] = q /\ \A i \in 1 .. n + 1 : next[i] = start[i]
  BY <1>2, <1>4
<1> HIDE DEF next, longer
<1>6. ASSUME NEW i \in 1 .. n + 1
      PROVE  next[i + 1] <= q /\ Reads(more, lines, pool, next[i], next[i + 1], longer[i])
  <2>1. CASE i = n + 1
    <3>1. i + 1 = n + 2 /\ next[n + 1] = l
      BY <1>2, <1>4, <1>5, <2>1
    <3>. QED BY <1>2, <1>3, <1>5, <1>8, <2>1, <3>1
  <2>2. CASE i # n + 1
    <3> DEFINE o == start[i]
               p == start[i + 1]
               it == listing[i]
    <3>1. i \in 1 .. n /\ i + 1 \in 1 .. n + 1 /\ i \in 1 .. n + 1
      BY <1>2, <2>2
    <3>2. o \in Nat /\ p \in Nat /\ p <= Len(code) /\ Reads(code, ls, constants, o, p, it)
      BY <1>4, <3>1
    <3>3. next[i] = o /\ next[i + 1] = p /\ longer[i] = it
      BY <1>3, <1>5, <3>1
    <3> HIDE DEF o, p, it, l, q
    <3>4. Reads(more, lines, pool, o, p, it)
      BY <3>2, ReadsStill
    <3>5. p <= q
      BY <1>2, <3>2 DEF l
    <3>. QED BY <3>3, <3>4, <3>5
  <2>. QED BY <2>1, <2>2
<1>7. Starts(next, more, lines, pool, longer)
  <2>1. next[1] = 0
    BY <1>2, <1>4, <1>5
  <2>2. Len(longer) + 1 = n + 2
    BY <1>2, <1>3
  <2>. QED BY <1>3, <1>5, <1>6, <2>1, <2>2 DEF Starts
<1>. QED
  BY <1>7 DEF Listed, longer

\* A constant more changes nothing in the listing.
LEMMA ListedPool ==
  ASSUME NEW code, Len(code) \in Nat, NEW ls, Len(ls) = Len(code),
         NEW constants, NEW pool, NEW e \in Nat, Len(constants) \in Nat, Continues(constants, pool, e),
         NEW listing, Len(listing) \in Nat, Listed(code, ls, constants, listing)
  PROVE  Listed(code, ls, pool, listing)
<1>1. PICK start : Starts(start, code, ls, constants, listing)
  BY DEF Listed
<1> DEFINE n == Len(listing)
           k == 0
<1>2. /\ start \in [1 .. n + 1 -> Nat] /\ start[1] = 0 /\ start[n + 1] = Len(code)
      /\ \A i \in 1 .. n :
           start[i + 1] <= Len(code) /\ Reads(code, ls, constants, start[i], start[i + 1], listing[i])
  BY <1>1 DEF Starts
<1>3. Continues(code, code, k) /\ Continues(ls, ls, k) /\ k \in Nat
  BY DEF Continues
<1> HIDE DEF k
<1>4. ASSUME NEW i \in 1 .. n
      PROVE  Reads(code, ls, pool, start[i], start[i + 1], listing[i])
  <2> DEFINE o == start[i]
             p == start[i + 1]
             it == listing[i]
  <2>1. i \in 1 .. n + 1 /\ i + 1 \in 1 .. n + 1
    OBVIOUS
  <2>2. o \in Nat /\ p \in Nat /\ p <= Len(code) /\ Reads(code, ls, constants, o, p, it)
    BY <1>2, <2>1
  <2> HIDE DEF o, p, it
  <2>3. Reads(code, ls, pool, o, p, it)
    BY <1>3, <2>2, ReadsStill
  <2>. QED BY <2>3 DEF o, p, it
<1>5. Starts(start, code, ls, pool, listing)
  BY <1>2, <1>4 DEF Starts
<1>. QED
  BY <1>5 DEF Listed

LEMMA ListedNothing ==
  ASSUME NEW code, Len(code) = 0, NEW ls, NEW constants
  PROVE  Listed(code, ls, constants, <<>>)
<1>1. Starts([i \in 1 .. 1 |-> 0], code, ls, constants, <<>>)
  BY DEF Starts
<1>. QED
  BY <1>1 DEF Listed

-----------------------------------------------------------------------------
(* What the disassembler reads back *)

\* A chunk stands for a listing.
Stands(s, ls, listing) ==
  /\ IsSequence(ls) /\ IsSequence(listing)
  /\ s.chunk.code.count \in Nat /\ s.chunk.lines.count \in Nat /\ s.chunk.constants.count \in Nat
  /\ Covers(RunsOf(s), ls) /\ Len(ls) = Len(Code(s))
  /\ Listed(Code(s), ls, Constants(s), listing)

\* An instruction of the listing is what the disassembler makes of its bytes.
LEMMA DisassemblesOne ==
  ASSUME NEW s, NEW ls, NEW listing, Stands(s, ls, listing),
         NEW o \in Nat, NEW p \in Nat, p <= Len(Code(s)), NEW item,
         Reads(Code(s), ls, Constants(s), o, p, item)
  PROVE  nextInstruction(s, o) = p /\ disassembleInstruction(s, o) = item
<1> DEFINE code == Code(s)
           constants == Constants(s)
           l == s.chunk.code.count
           c == s.chunk.constants.count
<1>1. Len(code) = l /\ l \in Nat /\ Len(constants) = c /\ c \in Nat /\ Len(ls) = l
  BY ContentsSequence DEF Stands, Code, Constants
<1>2. \A i \in 0 .. l - 1 : Byte(s, i) = code[i + 1]
  <2> TAKE i \in 0 .. l - 1
  <2>1. i + 1 \in 1 .. l /\ (i + 1) - 1 = i
    BY <1>1
  <2>. QED BY <2>1 DEF Code, Contents, Byte
<1>3. \A i \in 0 .. c - 1 : ConstantAt(s, i) = constants[i + 1]
  <2> TAKE i \in 0 .. c - 1
  <2>1. i + 1 \in 1 .. c /\ (i + 1) - 1 = i
    BY <1>1
  <2>. QED BY <2>1 DEF Constants, Contents, ConstantAt
<1>4. \A i \in 0 .. l - 1 : getLine(s, i) = ls[i + 1]
  <2> TAKE i \in 0 .. l - 1
  <2> DEFINE m == s.mem
             a == s.chunk.lines
  <2>1. a.count \in Nat /\ Covers(Contents(m, a), ls) /\ Len(ls) \in Nat /\ i \in 0 .. Len(ls) - 1
    BY <1>1 DEF Stands, RunsOf
  <2> HIDE DEF m, a
  <2>2. lineArrayGet(m, a, i) = ls[i + 1]
    BY <2>1, GetsLine
  <2>. QED BY <2>2 DEF getLine, m, a
<1> HIDE DEF l, c, code, constants
<1>5. PICK line :
        /\ \A i \in o .. p - 1 : ls[i + 1] = line
        /\ \/ /\ code[o + 1] = OP_CONSTANT /\ p = o + 2
              /\ code[o + 2] \in 0 .. Len(constants) - 1
              /\ item = Instruction(<<OP_CONSTANT, constants[code[o + 2] + 1]>>, line)
           \/ /\ code[o + 1] = OP_CONSTANT_LONG /\ p = o + 4
              /\ WideOperand(code, o) \in 0 .. Len(constants) - 1
              /\ item = Instruction(<<OP_CONSTANT, constants[WideOperand(code, o) + 1]>>, line)
           \/ /\ code[o + 1] \notin {OP_CONSTANT, OP_CONSTANT_LONG} /\ p = o + 1
              /\ item = Instruction(<<code[o + 1]>>, line)
  BY DEF Reads, code, constants
<1>6. p <= l /\ o < p
  BY <1>1, <1>5 DEF code
<1>7. Byte(s, o) = code[o + 1]
  BY <1>1, <1>2, <1>6
<1>8. {getLine(s, i) : i \in o .. p - 1} = {line}
  <2>1. \A i \in o .. p - 1 : i \in 0 .. l - 1
    BY <1>1, <1>6
  <2>2. \A i \in o .. p - 1 : getLine(s, i) = line
    BY <1>4, <1>5, <2>1
  <2>3. o \in o .. p - 1
    BY <1>6
  <2>. QED BY <2>2, <2>3
<1>9. CASE code[o + 1] = OP_CONSTANT /\ p = o + 2
  <2> DEFINE w == code[o + 2]
  <2>1. w \in 0 .. c - 1 /\ item = Instruction(<<OP_CONSTANT, constants[w + 1]>>, line)
    BY <1>1, <1>5, <1>9 DEF OP_CONSTANT, OP_CONSTANT_LONG
  <2>2. Byte(s, o + 1) = w
    <3>1. o + 1 \in 0 .. l - 1 /\ (o + 1) + 1 = o + 2
      BY <1>1, <1>6, <1>9
    <3> DEFINE i == o + 1
    <3> HIDE DEF i
    <3>2. Byte(s, i) = code[i + 1]
      BY <1>2, <3>1 DEF i
    <3>. QED BY <3>1, <3>2 DEF i
  <2>3. nextInstruction(s, o) = p
    BY <1>7, <1>9 DEF nextInstruction, OP_CONSTANT, OP_CONSTANT_LONG
  <2> HIDE DEF w
  <2>4. ConstantAt(s, w) = constants[w + 1]
    BY <1>3, <2>1
  <2>5. disassembleInstruction(s, o) = [op |-> <<OP_CONSTANT, constants[w + 1]>>, lines |-> {line}]
    <3>1. (CASE Byte(s, o) = OP_CONSTANT      -> <<OP_CONSTANT, ConstantAt(s, Byte(s, o + 1))>>
             [] Byte(s, o) = OP_CONSTANT_LONG -> <<OP_CONSTANT, ConstantAt(s, longOperand(s, o))>>
             [] OTHER                         -> <<Byte(s, o)>>) = <<OP_CONSTANT, constants[w + 1]>>
      BY <1>7, <1>9, <2>2, <2>4 DEF OP_CONSTANT, OP_CONSTANT_LONG
    <3>. QED BY <1>8, <2>3, <3>1, Zenon DEF disassembleInstruction
  <2>. QED BY <2>1, <2>3, <2>5 DEF Instruction
<1>10. CASE code[o + 1] = OP_CONSTANT_LONG /\ p = o + 4
  <2> DEFINE w == WideOperand(code, o)
  <2>1. w \in 0 .. c - 1 /\ item = Instruction(<<OP_CONSTANT, constants[w + 1]>>, line)
    BY <1>1, <1>5, <1>10 DEF OP_CONSTANT, OP_CONSTANT_LONG
  <2>2. longOperand(s, o) = w
    <3> DEFINE i == o + 1
               j == o + 2
               k == o + 3
    <3>1. i \in 0 .. l - 1 /\ j \in 0 .. l - 1 /\ k \in 0 .. l - 1 /\ i + 1 = o + 2 /\ j + 1 = o + 3 /\ k + 1 = o + 4
      BY <1>1, <1>6, <1>10
    <3> HIDE DEF i, j, k
    <3>2. Byte(s, i) = code[i + 1] /\ Byte(s, j) = code[j + 1] /\ Byte(s, k) = code[k + 1]
      BY <1>2, <3>1
    <3>3. Byte(s, o + 1) = code[o + 2] /\ Byte(s, o + 2) = code[o + 3] /\ Byte(s, o + 3) = code[o + 4]
      BY <3>1, <3>2 DEF i, j, k
    <3>. QED BY <3>3 DEF longOperand, WideOperand
  <2>3. nextInstruction(s, o) = p
    BY <1>7, <1>10 DEF nextInstruction, OP_CONSTANT, OP_CONSTANT_LONG
  <2> HIDE DEF w
  <2>4. ConstantAt(s, w) = constants[w + 1]
    BY <1>3, <2>1
  <2>5. disassembleInstruction(s, o) = [op |-> <<OP_CONSTANT, constants[w + 1]>>, lines |-> {line}]
    <3>1. (CASE Byte(s, o) = OP_CONSTANT      -> <<OP_CONSTANT, ConstantAt(s, Byte(s, o + 1))>>
             [] Byte(s, o) = OP_CONSTANT_LONG -> <<OP_CONSTANT, ConstantAt(s, longOperand(s, o))>>
             [] OTHER                         -> <<Byte(s, o)>>) = <<OP_CONSTANT, constants[w + 1]>>
      BY <1>7, <1>10, <2>2, <2>4 DEF OP_CONSTANT, OP_CONSTANT_LONG
    <3>. QED BY <1>8, <2>3, <3>1, Zenon DEF disassembleInstruction
  <2>. QED BY <2>1, <2>3, <2>5 DEF Instruction
<1>11. CASE code[o + 1] \notin {OP_CONSTANT, OP_CONSTANT_LONG} /\ p = o + 1
  <2>1. item = Instruction(<<code[o + 1]>>, line)
    BY <1>5, <1>11
  <2>3. nextInstruction(s, o) = p
    BY <1>7, <1>11 DEF nextInstruction
  <2>5. disassembleInstruction(s, o) = [op |-> <<code[o + 1]>>, lines |-> {line}]
    <3>1. (CASE Byte(s, o) = OP_CONSTANT      -> <<OP_CONSTANT, ConstantAt(s, Byte(s, o + 1))>>
             [] Byte(s, o) = OP_CONSTANT_LONG -> <<OP_CONSTANT, ConstantAt(s, longOperand(s, o))>>
             [] OTHER                         -> <<Byte(s, o)>>) = <<code[o + 1]>>
      BY <1>7, <1>11
    <3>. QED BY <1>8, <2>3, <3>1, Zenon DEF disassembleInstruction
  <2>. QED BY <2>1, <2>3, <2>5 DEF Instruction
<1>. QED
  BY <1>5, <1>9, <1>10, <1>11

\* A walk that only goes forward reaches the end of the code: what makes the
\* function in disassembleChunk mean something.
Walk(f, items, step, c) ==
  [o \in 0 .. c + 3 |-> IF o >= c THEN <<>> ELSE <<items[o]>> \o f[step[o]]]

LEMMA ListingUnfolds ==
  ASSUME NEW c \in Nat, NEW items, NEW step,
         \A o \in 0 .. c - 1 : step[o] \in o + 1 .. o + 4
  PROVE  \E f : f = Walk(f, items, step, c)
<1> DEFINE Good(f, k) == /\ f = [o \in 0 .. c + 3 |-> f[o]]
                         /\ \A o \in 0 .. c + 3 : o >= c => f[o] = <<>>
                         /\ \A o \in 0 .. c - 1 : o + k >= c => f[o] = <<items[o]>> \o f[step[o]]
           S == {k \in Nat : \E f : Good(f, k)}
<1>1. 0 \in S
  <2>1. Good([o \in 0 .. c + 3 |-> <<>>], 0)
    OBVIOUS
  <2>. QED BY <2>1
<1>2. ASSUME NEW k \in Nat, k \in S
      PROVE  k + 1 \in S
  <2>1. PICK f : Good(f, k)
    BY <1>2
  <2> DEFINE p == c - (k + 1)
             g == [f EXCEPT ![p] = <<items[p]>> \o f[step[p]]]
  <2>2. CASE k + 1 <= c
    <3>1. p \in 0 .. c - 1 /\ p \in Nat /\ p + (k + 1) = c
      BY <2>2
    <3> HIDE DEF p
    <3>7. DOMAIN f = 0 .. c + 3
      BY <2>1
    <3> DEFINE new == <<items[p]>> \o f[step[p]]
    <3> HIDE DEF new
    <3>2. g = [o \in 0 .. c + 3 |-> g[o]] /\ \A o \in 0 .. c + 3 : o # p => g[o] = f[o]
      BY <3>7 DEF new
    <3>3. g[p] = <<items[p]>> \o f[step[p]]
      <4>1. p \in DOMAIN f
        BY <3>1, <3>7
      <4>. QED BY <4>1
    <3> HIDE DEF g
    <3>4. ASSUME NEW o \in 0 .. c + 3, o >= c
          PROVE  g[o] = <<>>
      BY <2>1, <3>1, <3>2, <3>4
    <3>5. ASSUME NEW o \in 0 .. c - 1, o + (k + 1) >= c
          PROVE  g[o] = <<items[o]>> \o g[step[o]]
      <4>1. o >= p /\ step[o] \in 0 .. c + 3 /\ step[o] # p
        BY <3>1, <3>5
      <4>2. g[step[o]] = f[step[o]]
        BY <3>2, <4>1
      <4>3. CASE o = p
        BY <3>3, <4>2, <4>3
      <4>4. CASE o # p
        <5>1. o + k >= c /\ o \in 0 .. c + 3
          BY <3>1, <4>1, <4>4
        <5>2. g[o] = f[o]
          BY <3>2, <4>4, <5>1
        <5>3. f[o] = <<items[o]>> \o f[step[o]]
          BY <2>1, <5>1
        <5>. QED BY <4>2, <5>2, <5>3
      <4>. QED BY <4>3, <4>4
    <3>6. Good(g, k + 1)
      BY <3>2, <3>4, <3>5
    <3> HIDE DEF Good
    <3>. QED BY <3>6
  <2>3. CASE ~ k + 1 <= c
    <3>1. \A o \in 0 .. c - 1 : o + k >= c
      BY <2>3
    <3>2. Good(f, k + 1)
      BY <2>1, <3>1
    <3> HIDE DEF Good
    <3>. QED BY <3>2
  <2>. QED BY <2>2, <2>3
<1>3. c \in S
  <2> HIDE DEF S
  <2>1. Nat \subseteq S
    BY <1>1, <1>2, SetInduction
  <2>. QED BY <2>1
<1>4. PICK f : Good(f, c)
  BY <1>3
<1>5. \A o \in 0 .. c + 3 : f[o] = IF o >= c THEN <<>> ELSE <<items[o]>> \o f[step[o]]
  <2> TAKE o \in 0 .. c + 3
  <2>1. CASE o >= c
    BY <1>4, <2>1
  <2>2. CASE ~ o >= c
    <3>1. o \in 0 .. c - 1 /\ o + c >= c
      BY <2>2
    <3>2. f[o] = <<items[o]>> \o f[step[o]]
      BY <1>4, <3>1
    <3>. QED BY <2>2, <3>2
  <2>. QED BY <2>1, <2>2
<1>6. f = Walk(f, items, step, c)
  <2>1. f = [o \in 0 .. c + 3 |-> f[o]]
    BY <1>4
  <2>. QED BY <1>5, <2>1 DEF Walk
<1>. QED
  BY <1>6

\* One item before the rest of a listing.
LEMMA OneBefore ==
  ASSUME NEW s, IsSequence(s), NEW n \in 1 .. Len(s)
  PROVE  [i \in 1 .. Len(s) - n + 1 |-> s[i + n - 1]] = <<s[n]>> \o [i \in 1 .. Len(s) - n |-> s[i + n]]
<1> DEFINE l == Len(s)
           T == [i \in 1 .. l - n |-> s[i + n]]
<1>1. PICK S : s \in Seq(S)
  BY DEF IsSequence
<1>2. l \in Nat /\ \A i \in 1 .. l : s[i] \in S
  BY <1>1
<1>3. T \in Seq(S) /\ Len(T) = l - n
  <2>1. l - n \in Nat
    BY <1>2
  <2>2. \A i \in 1 .. l - n : s[i + n] \in S
    BY <1>2
  <2>3. T \in [1 .. l - n -> S]
    BY <2>2
  <2> DEFINE k == l - n
  <2>4. k \in Nat /\ T \in [1 .. k -> S] /\ DOMAIN T = 1 .. k
    BY <2>1, <2>3
  <2> HIDE DEF T, k
  <2>5. T \in Seq(S) /\ Len(T) = k
    BY <2>4
  <2>. QED BY <2>5 DEF k
<1>4. \A i \in 1 .. l - n : T[i] = s[i + n]
  OBVIOUS
<1> HIDE DEF T
<1>5. <<s[n]>> \in Seq(S) /\ Len(<<s[n]>>) = 1 /\ <<s[n]>>[1] = s[n]
  BY <1>2
<1> DEFINE one == <<s[n]>>
           both == one \o T
<1> HIDE DEF one
<1>6. both \in Seq(S) /\ Len(both) = l - n + 1
  <2>1. one \in Seq(S) /\ Len(one) = 1
    BY <1>5 DEF one
  <2>2. both \in Seq(S) /\ Len(both) = Len(one) + Len(T)
    BY <1>3, <2>1, ConcatProperties
  <2>. QED BY <1>2, <1>3, <2>1, <2>2
<1>7. \A i \in 1 .. l - n + 1 : both[i] = s[i + n - 1]
  <2> TAKE i \in 1 .. l - n + 1
  <2>1. one \in Seq(S) /\ Len(one) = 1 /\ one[1] = s[n]
    BY <1>5 DEF one
  <2>2. CASE i = 1
    <3>1. both[1] = one[1]
      <4>1. \A k \in 1 .. Len(one) + Len(T) : both[k] = IF k <= Len(one) THEN one[k] ELSE T[k - Len(one)]
        BY <1>3, <2>1, ConcatProperties
      <4> HIDE DEF both
      <4>2. Len(T) \in Nat /\ 1 \in 1 .. 1 + Len(T) /\ 1 <= 1
        BY <1>2, <1>3, <2>1
      <4>. QED BY <2>1, <4>1, <4>2
    <3>2. 1 + n - 1 = n
      OBVIOUS
    <3>. QED BY <2>1, <2>2, <3>1, <3>2
  <2>3. CASE i # 1
    <3> DEFINE j == i - 1
    <3>1. j \in 1 .. l - n /\ j + n = i + n - 1 /\ i = j + 1 /\ j + 1 \in 1 .. 1 + Len(T)
      BY <1>2, <1>3, <2>3
    <3> HIDE DEF j
    <3>2. both[j + 1] = T[j]
      <4>1. \A k \in 1 .. Len(one) + Len(T) : both[k] = IF k <= Len(one) THEN one[k] ELSE T[k - Len(one)]
        BY <1>3, <2>1, ConcatProperties
      <4> HIDE DEF both
      <4>2. ~ j + 1 <= 1 /\ (j + 1) - 1 = j /\ j + 1 \in 1 .. 1 + Len(T)
        BY <3>1
      <4>. QED BY <2>1, <4>1, <4>2
    <3>. QED BY <1>4, <3>1, <3>2
  <2>. QED BY <2>2, <2>3
<1> HIDE DEF both
<1>8. both = [i \in 1 .. l - n + 1 |-> s[i + n - 1]]
  <2>1. both = [i \in 1 .. Len(both) |-> both[i]]
    BY <1>6
  <2>. QED BY <1>6, <1>7, <2>1
<1>. QED
  BY <1>8 DEF both, one, T

\* The disassembler reads back the listing a chunk stands for.
LEMMA Disassembles ==
  ASSUME NEW s, NEW ls, NEW listing, Stands(s, ls, listing)
  PROVE  disassembleChunk(s) = listing
<1> DEFINE c == s.chunk.code.count
           n == Len(listing)
           items == [o \in 0 .. c |-> disassembleInstruction(s, o)]
           step == [o \in 0 .. c |-> nextInstruction(s, o)]
           from == CHOOSE f : f = [offset \in 0 .. c + 3 |->
                     IF offset >= c THEN <<>>
                     ELSE <<disassembleInstruction(s, offset)>> \o f[nextInstruction(s, offset)]]
           rest(k) == [i \in 1 .. n - k + 1 |-> listing[i + k - 1]]
<1>1. disassembleChunk(s) = from[0]
  BY DEF disassembleChunk
<1>2. Len(Code(s)) = c /\ c \in Nat /\ IsSequence(listing) /\ n \in Nat
  BY ContentsSequence, Appended DEF Stands, Code
<1>3. \A f : Walk(f, items, step, c)
               = [offset \in 0 .. c + 3 |->
                     IF offset >= c THEN <<>>
                     ELSE <<disassembleInstruction(s, offset)>> \o f[nextInstruction(s, offset)]]
  <2> TAKE f
  <2>1. \A o \in 0 .. c + 3 : ~ o >= c => items[o] = disassembleInstruction(s, o) /\ step[o] = nextInstruction(s, o)
    <3>1. \A o \in 0 .. c + 3 : ~ o >= c => o \in 0 .. c
      BY <1>2
    <3>. QED BY <3>1
  <2> HIDE DEF items, step, c
  <2>. QED BY <2>1 DEF Walk
<1>4. \A o \in 0 .. c - 1 : step[o] \in o + 1 .. o + 4
  <2> TAKE o \in 0 .. c - 1
  <2>1. nextInstruction(s, o) \in {o + 1, o + 2, o + 4} /\ step[o] = nextInstruction(s, o)
    BY <1>2 DEF nextInstruction
  <2>. QED BY <1>2, <2>1
<1>5. from = Walk(from, items, step, c)
  <2> HIDE DEF items, step, c, from
  <2>1. \E f : f = Walk(f, items, step, c)
    BY <1>2, <1>4, ListingUnfolds
  <2>2. from = CHOOSE f : f = Walk(f, items, step, c)
    BY <1>3 DEF from
  <2>. QED BY <2>1, <2>2
<1> HIDE DEF from
<1>6. PICK start : Starts(start, Code(s), ls, Constants(s), listing)
  BY DEF Stands, Listed
<1>7. /\ start \in [1 .. n + 1 -> Nat] /\ start[1] = 0 /\ start[n + 1] = c
      /\ \A k \in 1 .. n : start[k + 1] <= c /\ Reads(Code(s), ls, Constants(s), start[k], start[k + 1], listing[k])
  BY <1>2, <1>6 DEF Starts
<1> HIDE DEF items, step, c, n
\* What follows the start of an instruction is the rest of the listing.
<1> DEFINE S == {k \in Nat : k <= n => from[start[n + 1 - k]] = rest(n + 1 - k)}
<1>8. 0 \in S
  <2>1. n + 1 - 0 = n + 1 /\ c \in 0 .. c + 3 /\ c >= c
    BY <1>2
  <2>2. from[c] = <<>>
    BY <1>2, <1>5, <2>1 DEF Walk
  <2>3. rest(n + 1) = <<>>
    <3>1. n - (n + 1) + 1 = 0
      BY <1>2
    <3>. QED BY <3>1
  <2>. QED BY <1>7, <2>1, <2>2, <2>3
<1>9. ASSUME NEW k \in Nat, k \in S
      PROVE  k + 1 \in S
  <2>1. CASE k + 1 <= n
    <3> DEFINE i == n - k
               o == start[i]
               p == start[i + 1]
               it == listing[i]
    <3>1. i \in 1 .. n /\ i + 1 = n + 1 - k /\ i = n + 1 - (k + 1) /\ i \in 1 .. n + 1 /\ i + 1 \in 1 .. n + 1
      BY <1>2, <2>1
    <3> HIDE DEF i
    <3>2. o \in Nat /\ p \in Nat /\ p <= Len(Code(s)) /\ Reads(Code(s), ls, Constants(s), o, p, it)
      BY <1>2, <1>7, <3>1
    <3>3. from[p] = rest(i + 1)
      <4>1. k <= n
        BY <1>2, <2>1
      <4>2. from[start[n + 1 - k]] = rest(n + 1 - k)
        BY <1>9, <4>1
      <4> HIDE DEF rest, S
      <4>. QED BY <3>1, <4>2
    <3> HIDE DEF o, p, it
    <3>4. nextInstruction(s, o) = p /\ disassembleInstruction(s, o) = it
      BY <3>2, DisassemblesOne
    <3>5. o < p
      BY <3>2 DEF Reads
    <3>6. o \in 0 .. c /\ o \in 0 .. c + 3 /\ ~ o >= c
      BY <1>2, <3>2, <3>5
    <3>7. items[o] = it /\ step[o] = p
      BY <3>4, <3>6 DEF items, step
    <3>8. from[o] = <<items[o]>> \o from[step[o]]
      <4>1. Walk(from, items, step, c)[o] = <<items[o]>> \o from[step[o]]
        BY <3>6 DEF Walk
      <4>. QED BY <1>5, <4>1
    <3>9. rest(i) = <<listing[i]>> \o rest(i + 1)
      <4>1. [j \in 1 .. n - i + 1 |-> listing[j + i - 1]] = <<listing[i]>> \o [j \in 1 .. n - i |-> listing[j + i]]
        BY <1>2, <3>1, OneBefore DEF n
      <4>2. rest(i + 1) = [j \in 1 .. n - i |-> listing[j + i]]
        <5>1. n - (i + 1) + 1 = n - i
          BY <1>2, <3>1
        <5>2. \A j \in 1 .. n - i : j + (i + 1) - 1 = j + i
          BY <1>2, <3>1
        <5>. QED BY <5>1, <5>2
      <4>. QED BY <4>1, <4>2
    <3> HIDE DEF rest
    <3>10. from[o] = rest(i)
      BY <3>3, <3>7, <3>8, <3>9 DEF it
    <3>. QED BY <3>1, <3>10 DEF o
  <2>2. CASE ~ k + 1 <= n
    BY <2>2
  <2>. QED BY <2>1, <2>2
<1>10. from[0] = rest(1)
  <2>1. n \in S
    <3> HIDE DEF S
    <3>1. Nat \subseteq S
      BY <1>8, <1>9, SetInduction
    <3>. QED BY <1>2, <3>1
  <2>2. n + 1 - n = 1
    BY <1>2
  <2> HIDE DEF rest
  <2>. QED BY <1>2, <1>7, <2>1, <2>2
<1>11. rest(1) = listing
  <2>1. listing = [i \in 1 .. n |-> listing[i]]
    <3>1. PICK T : listing \in Seq(T)
      BY <1>2 DEF IsSequence
    <3>. QED BY <3>1 DEF n
  <2>2. n - 1 + 1 = n /\ \A i \in 1 .. n : i + 1 - 1 = i
    BY <1>2
  <2>. QED BY <2>1, <2>2
<1>. QED
  BY <1>1, <1>10, <1>11

-----------------------------------------------------------------------------
(* Writing a listing *)

\* Code and the list of its lines, kept as runs.
Lined(code, runs, ls) ==
  /\ IsSequence(code) /\ IsSequence(runs) /\ IsSequence(ls)
  /\ Covers(runs, ls) /\ Len(code) \in Nat /\ Len(ls) = Len(code)

\* The same with k bytes more, all on one line.
Grew(code, ls, more, lines, k, line) ==
  /\ Continues(code, more, k) /\ Continues(ls, lines, k)
  /\ \A i \in Len(code) .. Len(more) - 1 : lines[i + 1] = line

LEMMA OneMoreByte ==
  ASSUME NEW code, NEW runs, NEW ls, Lined(code, runs, ls), NEW byte, NEW line \in Lines
  PROVE  LET more == Append(code, byte)
             lines == Append(ls, line)
         IN /\ Lined(more, MoreRuns(runs, line), lines)
            /\ Grew(code, ls, more, lines, 1, line)
            /\ more[Len(code) + 1] = byte
<1> DEFINE more == Append(code, byte)
           lines == Append(ls, line)
           l == Len(code)
<1>1. IsSequence(MoreRuns(runs, line)) /\ Covers(MoreRuns(runs, line), lines)
  BY CoversMore DEF Lined
<1>2. IsSequence(more) /\ l \in Nat /\ Continues(code, more, 1) /\ more[l + 1] = byte
  BY AppendContinues DEF Lined
<1>3. IsSequence(lines) /\ Continues(ls, lines, 1) /\ lines[l + 1] = line
  <2>1. IsSequence(ls) /\ Len(ls) = l
    BY DEF Lined
  <2>. QED BY <2>1, AppendContinues
<1>4. Len(more) = l + 1 /\ Len(lines) = l + 1
  BY <1>2, <1>3 DEF Continues, Lined
<1>5. Lined(more, MoreRuns(runs, line), lines)
  BY <1>1, <1>2, <1>3, <1>4 DEF Lined
<1> HIDE DEF more, lines
<1>6. \A i \in l .. Len(more) - 1 : i = l
  BY <1>2, <1>4
<1>7. Grew(code, ls, more, lines, 1, line)
  BY <1>2, <1>3, <1>6 DEF Grew
<1>. QED
  BY <1>2, <1>5, <1>7 DEF more, lines

LEMMA GrewTwice ==
  ASSUME NEW code, NEW runs, NEW ls, Lined(code, runs, ls),
         NEW a, NEW as, NEW b, NEW bs, NEW i \in Nat, NEW j \in Nat, NEW k, k = i + j, NEW line,
         Grew(code, ls, a, as, i, line), Grew(a, as, b, bs, j, line), Len(as) = Len(a)
  PROVE  Grew(code, ls, b, bs, k, line)
<1>1. Continues(code, a, i) /\ Continues(a, b, j) /\ Continues(ls, as, i) /\ Continues(as, bs, j)
      /\ Len(code) \in Nat /\ Len(ls) = Len(code)
  BY DEF Grew, Lined
<1>2. Continues(code, b, k) /\ Continues(ls, bs, k)
  BY <1>1, ContinuesTwice
<1>3. ASSUME NEW e \in Len(code) .. Len(b) - 1
      PROVE  bs[e + 1] = line
  <2>1. CASE e < Len(a)
    <3>1. e \in Len(code) .. Len(a) - 1 /\ e + 1 \in 1 .. Len(as)
      BY <1>1, <2>1 DEF Continues
    <3>2. as[e + 1] = line
      BY <3>1 DEF Grew
    <3>3. bs[e + 1] = as[e + 1]
      BY <1>1, <3>1 DEF Continues
    <3>. QED BY <3>2, <3>3
  <2>2. CASE ~ e < Len(a)
    <3>1. e \in Len(a) .. Len(b) - 1
      BY <1>1, <2>2 DEF Continues
    <3>. QED BY <3>1 DEF Grew
  <2>. QED BY <2>1, <2>2
<1>. QED
  BY <1>2, <1>3 DEF Grew

\* The instruction that loads a constant, all on one line.
LEMMA ReadsLoad ==
  ASSUME NEW code, NEW runs, NEW ls, Lined(code, runs, ls), NEW line \in Lines,
         NEW n \in Nat, n < ByteSize * ByteSize * ByteSize,
         NEW pool, Len(pool) = n + 1
  PROVE  \E lines : \E k \in Nat :
           /\ Lined(LoadBytes(code, n), LoadRuns(runs, n, line), lines)
           /\ Grew(code, ls, LoadBytes(code, n), lines, k, line)
           /\ Reads(LoadBytes(code, n), lines, pool, Len(code), Len(LoadBytes(code, n)),
                    Instruction(<<OP_CONSTANT, pool[n + 1]>>, line))
<1> DEFINE l == Len(code)
           low == n % ByteSize
           middle == (n \div ByteSize) % ByteSize
           high == (n \div (ByteSize * ByteSize)) % ByteSize
           op == IF n < ByteSize THEN OP_CONSTANT ELSE OP_CONSTANT_LONG
           a == Append(code, op)
           b == Append(a, low)
           c == Append(b, middle)
           d == Append(c, high)
           ar == MoreRuns(runs, line)
           br == MoreRuns(ar, line)
           cr == MoreRuns(br, line)
           dr == MoreRuns(cr, line)
           al == Append(ls, line)
           bl == Append(al, line)
           cl == Append(bl, line)
           dl == Append(cl, line)
<1>1. low + middle * ByteSize + high * ByteSize * ByteSize = n
  BY Digits
<1>2. n < ByteSize => LoadBytes(code, n) = b /\ LoadRuns(runs, n, line) = br /\ op = OP_CONSTANT /\ low = n
  BY ByteSizeAssumption DEF LoadBytes, LoadRuns
<1>3. ~ n < ByteSize => LoadBytes(code, n) = d /\ LoadRuns(runs, n, line) = dr /\ op = OP_CONSTANT_LONG
  BY DEF LoadBytes, LoadRuns
<1> HIDE DEF low, middle, high, op
<1>4. Lined(a, ar, al) /\ Grew(code, ls, a, al, 1, line) /\ a[l + 1] = op
  BY OneMoreByte
<1> HIDE DEF a, ar, al
<1>5. Lined(b, br, bl) /\ Grew(a, al, b, bl, 1, line) /\ b[Len(a) + 1] = low
  BY <1>4, OneMoreByte
<1> HIDE DEF b, br, bl
<1>6. Lined(c, cr, cl) /\ Grew(b, bl, c, cl, 1, line) /\ c[Len(b) + 1] = middle
  BY <1>5, OneMoreByte
<1> HIDE DEF c, cr, cl
<1>7. Lined(d, dr, dl) /\ Grew(c, cl, d, dl, 1, line) /\ d[Len(c) + 1] = high
  BY <1>6, OneMoreByte
<1> HIDE DEF d, dr, dl
<1>8. l \in Nat /\ Len(a) = l + 1 /\ Len(b) = l + 2 /\ Len(c) = l + 3 /\ Len(d) = l + 4
  BY <1>4, <1>5, <1>6, <1>7 DEF Lined, Grew, Continues
<1>9. /\ Len(al) = Len(a) /\ Len(bl) = Len(b) /\ Len(cl) = Len(c)
  BY <1>4, <1>5, <1>6 DEF Lined
<1>10. Grew(code, ls, b, bl, 2, line)
  BY <1>4, <1>5, <1>9, GrewTwice
<1>11. b[l + 1] = op /\ b[l + 2] = low
  BY <1>4, <1>5, <1>8 DEF Grew, Continues
<1>12. CASE n < ByteSize
  <2>1. n \in 0 .. Len(pool) - 1
    OBVIOUS
  <2>2. \A i \in l .. Len(b) - 1 : bl[i + 1] = line
    BY <1>10 DEF Grew
  <2>3. b[l + 1] = OP_CONSTANT /\ b[l + 2] = n
    BY <1>2, <1>11, <1>12
  <2>4. Reads(b, bl, pool, l, Len(b), Instruction(<<OP_CONSTANT, pool[n + 1]>>, line))
    BY <1>8, <2>1, <2>2, <2>3 DEF Reads
  <2> DEFINE k == 2
  <2>5. k \in Nat /\ Grew(code, ls, b, bl, k, line)
    BY <1>10
  <2> HIDE DEF k
  <2>. QED BY <1>2, <1>5, <1>12, <2>4, <2>5
<1>13. CASE ~ n < ByteSize
  <2>1. Grew(code, ls, c, cl, 3, line)
    BY <1>6, <1>9, <1>10, GrewTwice
  <2> DEFINE k == 4
  <2>2. Grew(code, ls, d, dl, k, line) /\ k \in Nat
    BY <1>7, <1>9, <2>1, GrewTwice
  <2> HIDE DEF k
  <2>3. c[l + 1] = op /\ c[l + 2] = low /\ c[l + 3] = middle
    BY <1>6, <1>8, <1>11 DEF Grew, Continues
  <2>4. d[l + 1] = op /\ d[l + 2] = low /\ d[l + 3] = middle /\ d[l + 4] = high
    BY <1>7, <1>8, <2>3 DEF Grew, Continues
  <2>5. WideOperand(d, l) = n
    BY <1>1, <2>4 DEF WideOperand
  <2>6. n \in 0 .. Len(pool) - 1
    OBVIOUS
  <2>7. \A i \in l .. Len(d) - 1 : dl[i + 1] = line
    BY <2>2 DEF Grew
  <2>8. d[l + 1] = OP_CONSTANT_LONG
    BY <1>3, <1>13, <2>4
  <2>9. Reads(d, dl, pool, l, Len(d), Instruction(<<OP_CONSTANT, pool[n + 1]>>, line))
    BY <1>8, <2>5, <2>6, <2>7, <2>8 DEF Reads
  <2>. QED BY <1>3, <1>7, <1>13, <2>2, <2>9
<1>. QED
  BY <1>12, <1>13

\* Every chunk this program writes is coded and lined.
LEMMA StandsLined ==
  ASSUME NEW s, NEW ls, NEW listing, Stands(s, ls, listing)
  PROVE  /\ Lined(Code(s), RunsOf(s), ls)
         /\ IsSequence(Constants(s)) /\ Len(Constants(s)) = s.chunk.constants.count
         /\ Len(Constants(s)) \in Nat /\ Len(listing) \in Nat
<1>1. /\ IsSequence(Code(s)) /\ Len(Code(s)) = s.chunk.code.count
      /\ IsSequence(RunsOf(s)) /\ Len(RunsOf(s)) = s.chunk.lines.count
      /\ IsSequence(Constants(s)) /\ Len(Constants(s)) = s.chunk.constants.count
  BY ContentsSequence DEF Stands, Code, RunsOf, Constants
<1>. QED
  BY <1>1, Appended DEF Stands, Lined

LEMMA OwnsCounts ==
  ASSUME NEW s, NEW other, Owns(s, other)
  PROVE  s.chunk.code.count \in Nat /\ s.chunk.lines.count \in Nat /\ s.chunk.constants.count \in Nat
BY DEF Owns, Shared, Fits

\* writeChunk of an opcode without an operand adds it to the listing.
LEMMA WritesSimple ==
  ASSUME NEW s, NEW ls, NEW listing, Stands(s, ls, listing), Owns(s, EmptyArray),
         NEW op \in Opcodes, NEW line \in Lines
  PROVE  \E lines : Stands(writeChunk(s, op, line), lines, Append(listing, Instruction(<<op>>, line)))
<1> DEFINE r == writeChunk(s, op, line)
           code == Code(s)
           runs == RunsOf(s)
           pool == Constants(s)
           more == Append(code, op)
           lines == Append(ls, line)
           item == Instruction(<<op>>, line)
           longer == Append(listing, item)
           k == 1
           e == 0
<1>1. /\ Owns(r, EmptyArray) /\ Code(r) = more /\ Constants(r) = pool /\ RunsOf(r) = MoreRuns(runs, line)
  BY WritesChunk
<1>2. /\ Lined(code, runs, ls) /\ Len(pool) \in Nat /\ Listed(code, ls, pool, listing) /\ IsSequence(listing)
  BY StandsLined DEF Stands
<1> HIDE DEF code, runs, pool
<1>3. Lined(more, MoreRuns(runs, line), lines) /\ Grew(code, ls, more, lines, k, line)
      /\ more[Len(code) + 1] = op
  BY <1>2, OneMoreByte
<1>4. Len(code) \in Nat /\ Len(more) = Len(code) + 1 /\ k \in Nat /\ e \in Nat
  BY <1>2, <1>3 DEF Lined, Grew, Continues
<1>5. op \notin {OP_CONSTANT, OP_CONSTANT_LONG}
  BY OpcodesAssumption DEF OP_CONSTANT, OP_CONSTANT_LONG, OP_ADD, OP_RETURN
<1> HIDE DEF more, lines, k, r
<1>6. Reads(more, lines, pool, Len(code), Len(more), item)
  <2>1. \A i \in Len(code) .. Len(more) - 1 : lines[i + 1] = line
    BY <1>3 DEF Grew
  <2>. QED BY <1>3, <1>4, <1>5, <2>1 DEF Reads
<1> HIDE DEF item
<1>7. Listed(more, lines, pool, longer)
  <2>1. Continues(code, more, k) /\ Continues(ls, lines, k) /\ Len(ls) = Len(code)
    BY <1>2, <1>3 DEF Grew, Lined
  <2>2. Continues(pool, pool, e)
    BY <1>2 DEF Continues
  <2> HIDE DEF e
  <2>. QED BY <1>2, <1>4, <1>6, <2>1, <2>2, ListedMore
<1>8. IsSequence(longer)
  BY <1>2, Appended
<1> HIDE DEF longer
<1>9. Stands(r, lines, longer)
  BY <1>1, <1>3, <1>7, <1>8, OwnsCounts DEF Stands, Lined
<1>. QED
  BY <1>9 DEF r, longer, item

\* writeConstant adds the constant and the instruction that loads it.
LEMMA WritesLoad ==
  ASSUME NEW s, NEW ls, NEW listing, Stands(s, ls, listing), Owns(s, EmptyArray),
         NEW value, NEW line \in Lines, ~PoolFull(s)
  PROVE  \E lines : Stands(writeConstant(s, value, line), lines,
                           Append(listing, Instruction(<<OP_CONSTANT, value>>, line)))
<1> DEFINE r == writeConstant(s, value, line)
           code == Code(s)
           runs == RunsOf(s)
           constants == Constants(s)
           pool == Append(constants, value)
           n == s.chunk.constants.count
           more == LoadBytes(code, n)
           item == Instruction(<<OP_CONSTANT, value>>, line)
           longer == Append(listing, item)
           e == 1
<1>1. /\ Owns(r, EmptyArray) /\ Code(r) = more /\ Constants(r) = pool /\ RunsOf(r) = LoadRuns(runs, n, line)
  BY WritesConstant
<1>2. /\ Lined(code, runs, ls) /\ IsSequence(constants) /\ Len(constants) = n /\ n \in Nat
      /\ Listed(code, ls, constants, listing) /\ IsSequence(listing)
  BY StandsLined DEF Stands
<1>3. n < ByteSize * ByteSize * ByteSize
  <2> DEFINE limit == ByteSize * ByteSize * ByteSize
  <2>1. limit \in Nat
    BY ByteSizeAssumption
  <2>2. ~ n > limit - 1
    BY DEF PoolFull
  <2> HIDE DEF limit, n
  <2>3. n < limit
    BY <1>2, <2>1, <2>2
  <2>. QED BY <2>3 DEF limit
<1> HIDE DEF code, runs, constants, n, r
<1>4. Len(pool) = n + 1 /\ pool[n + 1] = value /\ Continues(constants, pool, e) /\ e \in Nat
  BY <1>2, AppendContinues DEF Continues
<1> HIDE DEF pool, e
<1>5. PICK lines : \E k \in Nat :
        /\ Lined(more, LoadRuns(runs, n, line), lines)
        /\ Grew(code, ls, more, lines, k, line)
        /\ Reads(more, lines, pool, Len(code), Len(more), Instruction(<<OP_CONSTANT, pool[n + 1]>>, line))
  BY <1>2, <1>3, <1>4, ReadsLoad
<1>6. PICK k \in Nat :
        /\ Lined(more, LoadRuns(runs, n, line), lines)
        /\ Grew(code, ls, more, lines, k, line)
        /\ Reads(more, lines, pool, Len(code), Len(more), Instruction(<<OP_CONSTANT, pool[n + 1]>>, line))
  BY <1>5
<1>7. Reads(more, lines, pool, Len(code), Len(more), item)
  BY <1>4, <1>6
<1> HIDE DEF more, item
<1>8. Listed(more, lines, pool, longer)
  <2>1. Continues(code, more, k) /\ Continues(ls, lines, k) /\ Len(ls) = Len(code) /\ Len(code) \in Nat
    BY <1>2, <1>6 DEF Grew, Lined
  <2>2. Len(constants) \in Nat
    BY <1>2
  <2>. QED BY <1>2, <1>4, <1>7, <2>1, <2>2, ListedMore
<1>9. IsSequence(longer)
  BY <1>2, Appended
<1> HIDE DEF longer
<1>10. Stands(r, lines, longer)
  BY <1>1, <1>6, <1>8, <1>9, OwnsCounts DEF Stands, Lined
<1>. QED
  BY <1>10 DEF r, longer, item

\* addConstant changes nothing in the listing.
LEMMA AddsToPool ==
  ASSUME NEW s, NEW ls, NEW listing, Stands(s, ls, listing), Owns(s, EmptyArray), NEW value
  PROVE  Stands(addConstant(s, value), ls, listing)
<1> DEFINE r == addConstant(s, value)
           code == Code(s)
           constants == Constants(s)
           pool == Append(constants, value)
           e == 1
<1>1. Owns(r, EmptyArray) /\ Code(r) = code /\ Constants(r) = pool /\ RunsOf(r) = RunsOf(s)
  BY AddsConstant
<1>2. /\ Lined(code, RunsOf(s), ls) /\ IsSequence(constants) /\ Len(constants) \in Nat /\ Len(listing) \in Nat
      /\ Listed(code, ls, constants, listing)
  BY StandsLined DEF Stands
<1> HIDE DEF code, constants, r
<1>3. Continues(constants, pool, e) /\ e \in Nat
  BY <1>2, AppendContinues
<1> HIDE DEF pool, e
<1>4. Listed(code, ls, pool, listing)
  BY <1>2, <1>3, ListedPool DEF Lined
<1>5. Stands(r, ls, listing)
  BY <1>1, <1>2, <1>4, OwnsCounts DEF Stands, Lined, code
<1>. QED
  BY <1>5 DEF r

\* A chunk without anything in it stands for the empty listing.
LEMMA StandsForNothing ==
  ASSUME NEW s, s.chunk = emptyChunk
  PROVE  Stands(s, <<>>, <<>>)
<1>1. /\ s.chunk.code.count = 0 /\ s.chunk.lines.count = 0 /\ s.chunk.constants.count = 0
  BY DEF emptyChunk, EmptyArray
<1>2. Len(Code(s)) = 0 /\ Len(RunsOf(s)) = 0
  BY <1>1, ContentsSequence DEF Code, RunsOf
<1>3. IsSequence(<<>>) /\ Len(<<>>) = 0
  <2>1. <<>> \in Seq({})
    OBVIOUS
  <2>. QED BY <2>1 DEF IsSequence
<1>. QED
  BY <1>1, <1>2, <1>3, CoversNothing, ListedNothing DEF Stands

\* The chunk owns its memory and stands for a listing.
LInv == IInv /\ \E ls, listing : Stands(Now, ls, listing)

LEMMA PoolIsConstants ==
  Constants(Now) = [i \in 1 .. chunk.constants.count |-> ConstantAt(Now, i - 1)]
BY DEF Constants, Contents, ConstantAt, Now

LEMMA InitLists == Init => LInv /\ Plain!Init
<1> SUFFICES ASSUME Init PROVE LInv /\ Plain!Init
  OBVIOUS
<1>1. IInv
  BY InitOwns
<1>2. Now.chunk = emptyChunk /\ chunk.constants.count = 0
  BY DEF Init, Now, emptyChunk, EmptyArray
<1>3. Stands(Now, <<>>, <<>>)
  BY <1>2, StandsForNothing
<1>4. disassembleChunk(Now) = <<>>
  BY <1>3, Disassembles
<1>5. [i \in 1 .. chunk.constants.count |-> ConstantAt(Now, i - 1)] = <<>>
  BY <1>2
<1>. QED
  BY <1>1, <1>3, <1>4, <1>5 DEF LInv, Plain!Init

\* What a step does to the listing and the constants.
LEMMA StepLists ==
  ASSUME IInv, NEW ls, NEW listing, Stands(Now, ls, listing), [Next]_vars
  PROVE  \E lines, longer :
           /\ Stands(Now', lines, longer)
           /\ \/ /\ Constants(Now') = Constants(Now)
                 /\ \E op \in Opcodes, line \in Lines : longer = Append(listing, Instruction(<<op>>, line))
              \/ /\ Len(Constants(Now)) < ByteSize * ByteSize * ByteSize
                 /\ \E value \in Values :
                      /\ Constants(Now') = Append(Constants(Now), value)
                      /\ \E line \in Lines : longer = Append(listing, Instruction(<<OP_CONSTANT, value>>, line))
              \/ /\ \E value \in Values : Constants(Now') = Append(Constants(Now), value)
                 /\ longer = listing
              \/ Constants(Now') = <<>> /\ longer = <<>>
              \/ Constants(Now') = Constants(Now) /\ longer = listing
<1>1. Owns(Now, EmptyArray)
  BY DEF IInv
<1>2. ASSUME NEW s, s = [mem |-> s.mem, chunk |-> s.chunk], Becomes(s)
      PROVE  Now' = s
  BY <1>2 DEF Becomes, Now
<1>3. CASE WriteSimple
  <2>1. PICK op \in Opcodes, line \in Lines : Becomes(writeChunk(Now, op, line))
    BY <1>3 DEF WriteSimple
  <2> DEFINE s == writeChunk(Now, op, line)
  <2>2. Owns(s, EmptyArray) /\ Constants(s) = Constants(Now)
    BY <1>1, WritesChunk
  <2>3. Now' = s
    BY <1>2, <2>1, <2>2 DEF Owns
  <2>4. \E lines : Stands(s, lines, Append(listing, Instruction(<<op>>, line)))
    BY <1>1, WritesSimple
  <2> HIDE DEF s
  <2>. QED BY <2>2, <2>3, <2>4
<1>4. CASE WriteConstant
  <2>1. PICK value \in Values, line \in Lines : Becomes(writeConstant(Now, value, line))
    BY <1>4 DEF WriteConstant
  <2> DEFINE s == writeConstant(Now, value, line)
  <2>2. /\ Owns(s, EmptyArray)
        /\ PoolFull(Now) => s = Now
        /\ ~PoolFull(Now) => Constants(s) = Append(Constants(Now), value)
    BY <1>1, WritesConstant
  <2>3. Now' = s
    BY <1>2, <2>1, <2>2 DEF Owns
  <2>4. ~PoolFull(Now) => \E lines : Stands(s, lines, Append(listing, Instruction(<<OP_CONSTANT, value>>, line)))
    BY <1>1, WritesLoad
  <2>5. CASE PoolFull(Now)
    BY <2>2, <2>3, <2>5
  <2>6. CASE ~PoolFull(Now)
    <3> DEFINE limit == ByteSize * ByteSize * ByteSize
               n == Now.chunk.constants.count
    <3>1. limit \in Nat
      BY ByteSizeAssumption
    <3>2. Len(Constants(Now)) = n /\ n \in Nat
      BY StandsLined
    <3>3. ~ n > limit - 1
      BY <2>6 DEF PoolFull
    <3> HIDE DEF limit, n, s
    <3>4. Len(Constants(Now)) < limit
      BY <3>1, <3>2, <3>3
    <3>. QED BY <2>2, <2>3, <2>4, <2>6, <3>4 DEF limit
  <2>. QED BY <2>5, <2>6
<1>5. CASE AddConstant
  <2>1. PICK value \in Values : Becomes(addConstant(Now, value))
    BY <1>5 DEF AddConstant
  <2> DEFINE s == addConstant(Now, value)
  <2>2. Owns(s, EmptyArray) /\ Constants(s) = Append(Constants(Now), value)
    BY <1>1, AddsConstant
  <2>3. Now' = s
    BY <1>2, <2>1, <2>2 DEF Owns
  <2>4. Stands(s, ls, listing)
    BY <1>1, AddsToPool
  <2> HIDE DEF s
  <2>. QED BY <2>2, <2>3, <2>4
<1>6. CASE FreeChunk
  <2> DEFINE s == freeChunk(Now)
  <2>1. Becomes(s)
    BY <1>6 DEF FreeChunk
  <2>2. Owns(s, EmptyArray) /\ s.chunk = emptyChunk
    BY <1>1, FreesChunk
  <2> HIDE DEF s
  <2>3. Now' = s
    BY <1>2, <2>1, <2>2 DEF Owns
  <2>4. Stands(s, <<>>, <<>>)
    BY <2>2, StandsForNothing
  <2>5. Constants(s) = <<>>
    <3>1. s.chunk.constants.count = 0
      BY <2>2 DEF emptyChunk, EmptyArray
    <3>. QED BY <3>1 DEF Constants, Contents
  <2>. QED BY <2>3, <2>4, <2>5
<1>7. CASE UNCHANGED vars
  <2>1. Now' = Now
    BY <1>7 DEF vars, Now
  <2>. QED BY <2>1
<1>. QED
  BY <1>3, <1>4, <1>5, <1>6, <1>7 DEF Next

LEMMA NextLists == LInv /\ [Next]_vars => LInv' /\ [Plain!Next]_(Plain!vars)
<1> SUFFICES ASSUME LInv, [Next]_vars PROVE LInv' /\ [Plain!Next]_(Plain!vars)
  OBVIOUS
<1>1. PICK ls, listing : Stands(Now, ls, listing)
  BY DEF LInv
<1>2. PICK lines, longer :
           /\ Stands(Now', lines, longer)
           /\ \/ /\ Constants(Now') = Constants(Now)
                 /\ \E op \in Opcodes, line \in Lines : longer = Append(listing, Instruction(<<op>>, line))
              \/ /\ Len(Constants(Now)) < ByteSize * ByteSize * ByteSize
                 /\ \E value \in Values :
                      /\ Constants(Now') = Append(Constants(Now), value)
                      /\ \E line \in Lines : longer = Append(listing, Instruction(<<OP_CONSTANT, value>>, line))
              \/ /\ \E value \in Values : Constants(Now') = Append(Constants(Now), value)
                 /\ longer = listing
              \/ Constants(Now') = <<>> /\ longer = <<>>
              \/ Constants(Now') = Constants(Now) /\ longer = listing
  BY <1>1, StepLists DEF LInv
<1>3. LInv'
  <2>1. IInv'
    BY StepOwns DEF LInv
  <2>. QED BY <1>2, <2>1 DEF LInv
<1>4. disassembleChunk(Now) = listing /\ disassembleChunk(Now') = longer
  BY <1>1, <1>2, Disassembles
<1> DEFINE pool == [i \in 1 .. chunk.constants.count |-> ConstantAt(Now, i - 1)]
<1>5. Constants(Now) = pool
  BY PoolIsConstants
<1>6. Constants(Now') = pool'
  BY DEF Constants, Contents, ConstantAt, Now
<1>7. disassembleChunk(Now)' = longer
  BY <1>4
<1>. QED
  BY <1>2, <1>3, <1>4, <1>5, <1>6, <1>7
     DEF Instruction, Plain!Next, Plain!Emit, Plain!Constant, Plain!Intern, Plain!Clear, Plain!vars, Plain!Instruction

\* What was written is what the disassembler reads back, instruction by
\* instruction and line by line: a chunk's bytes, runs and constants implement
\* the list of instructions and the list of constants of module Listing, for
\* every width of an operand and however much is written.
THEOREM KeepsTheListing == Spec => KeepsListing
<1>. QED
  BY InitLists, NextLists, PTL DEF Spec, KeepsListing, Plain!Spec
=============================================================================
