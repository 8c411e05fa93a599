----------------------------- MODULE HeapProofs -----------------------------
(***************************************************************************)
(* Proofs about clox/heap.c, for every heap size, every width of size_t,   *)
(* every place malloc may put the arena and every set of requests: its     *)
(* invariants; the two walks, of the blocks, which heapCheck takes, and of *)
(* the free list, which findFit takes, which both end and pass everything  *)
(* there is to pass; and the promise of clox/heap.h, Malloc: every call    *)
(* is, for the callers, a step of Malloc or no step at all.                *)
(***************************************************************************)
EXTENDS Heap, Sequences, FiniteSetTheorems, WellFoundedInduction, TLAPS

-----------------------------------------------------------------------------
(* Induction over the naturals, and walks *)

\* A non-empty set of naturals has a least element: what makes the CHOOSE of
\* findFit, the first node that fits, mean something.
LEMMA LeastElement ==
  ASSUME NEW T, T \subseteq Nat, T # {}
  PROVE  \E x \in T : \A y \in T : x <= y
<1> DEFINE R == OpToRel(<, Nat)
<1>1. IsWellFoundedOn(R, Nat)
  BY NatLessThanWellFounded
<1>2. \A x, y \in Nat : x < y => <<x, y>> \in R
  BY DEF OpToRel
<1> HIDE DEF R
<1>3. PICK x \in T : \A y \in T : ~(<<y, x>> \in R)
  BY <1>1, WFMin
<1>4. ASSUME NEW y \in T
      PROVE  x <= y
  <2>1. x \in Nat /\ y \in Nat /\ <<y, x>> \notin R
    BY <1>3
  <2>. QED
    BY <2>1, <1>2
<1>. QED
  BY <1>4

\* A set that holds 0 and the successor of each of its naturals holds them all.
LEMMA SetInduction ==
  ASSUME NEW S, 0 \in S, \A n \in Nat : n \in S => n + 1 \in S
  PROVE  Nat \subseteq S
<1> DEFINE T == {n \in Nat : n \notin S}
<1>1. ASSUME T # {}
      PROVE  FALSE
  <2>1. T \subseteq Nat
    OBVIOUS
  <2> HIDE DEF T
  <2>2. PICK x \in T : \A y \in T : x <= y
    BY <1>1, <2>1, LeastElement
  <2> USE DEF T
  <2>3. x - 1 \in Nat /\ x - 1 \notin T
    BY <2>2
  <2>. QED
    BY <2>3
<1>. QED
  BY <1>1

\* f[k] is the k-th value of a walk through U that starts at a.
Iterates(f, U, step, a) ==
  /\ f \in [Nat -> U]
  /\ f[0] = a
  /\ \A k \in Nat : f[k + 1] = step[f[k]]

\* Such a walk exists: what makes a function defined by f[k] == ... f[k - 1] ...,
\* as BlockWalk is, mean something.
LEMMA Iteration ==
  ASSUME NEW U, NEW step \in [U -> U], NEW a \in U
  PROVE  \E f : Iterates(f, U, step, a)
<1> DEFINE P(n, f) == /\ f \in [0 .. n -> U]
                      /\ f[0] = a
                      /\ \A k \in Nat : k < n => f[k + 1] = step[f[k]]
           S == {n \in Nat : \E f : P(n, f)}
           pick == [n \in Nat |-> CHOOSE f : P(n, f)]
           node == [n \in Nat |-> pick[n][n]]
<1>1. Nat \subseteq S
  <2>1. 0 \in S
    <3>1. P(0, [k \in 0 .. 0 |-> a])
      OBVIOUS
    <3>. QED BY <3>1
  <2>2. ASSUME NEW n \in Nat, n \in S
        PROVE  n + 1 \in S
    <3>1. PICK f : P(n, f)
      BY <2>2
    <3> DEFINE g == [k \in 0 .. n + 1 |-> IF k = n + 1 THEN step[f[n]] ELSE f[k]]
    <3>2. g \in [0 .. n + 1 -> U]
      <4>1. \A k \in 0 .. n + 1 : (IF k = n + 1 THEN step[f[n]] ELSE f[k]) \in U
        <5>1. n \in 0 .. n /\ \A k \in 0 .. n + 1 : k # n + 1 => k \in 0 .. n
          OBVIOUS
        <5>. QED BY <3>1, <5>1
      <4>. QED BY <4>1
    <3>3. g[0] = a
      BY <3>1
    <3>4. ASSUME NEW k \in Nat, k < n + 1
          PROVE  g[k + 1] = step[g[k]]
      <4>1. CASE k = n
        BY <4>1
      <4>2. CASE k < n
        <5>1. k \in 0 .. n + 1 /\ k + 1 \in 0 .. n + 1 /\ k # n + 1 /\ k + 1 # n + 1
          BY <4>2
        <5>2. g[k] = f[k] /\ g[k + 1] = f[k + 1]
          BY <5>1
        <5>. QED BY <5>2, <4>2, <3>1
      <4>. QED BY <3>4, <4>1, <4>2
    <3> HIDE DEF g
    <3>5. P(n + 1, g)
      BY <3>2, <3>3, <3>4
    <3>. QED BY <3>5
  <2> HIDE DEF S
  <2>. QED BY <2>1, <2>2, SetInduction
<1>2. \A n \in Nat : P(n, pick[n])
  BY <1>1
<1> HIDE DEF pick, S
\* Prefixes agree.
<1>3. ASSUME NEW n \in Nat
      PROVE  pick[n + 1][n] = pick[n][n]
  <2> DEFINE T == {k \in Nat : k <= n => pick[n + 1][k] = pick[n][k]}
  <2>1. P(n, pick[n]) /\ P(n + 1, pick[n + 1])
    BY <1>2
  <2>2. 0 \in T
    BY <2>1
  <2>3. ASSUME NEW k \in Nat, k \in T
        PROVE  k + 1 \in T
    <3>1. CASE k + 1 <= n
      <4>1. pick[n + 1][k] = pick[n][k] /\ k < n /\ k < n + 1
        BY <2>3, <3>1
      <4>2. pick[n + 1][k + 1] = pick[n][k + 1]
        BY <2>1, <4>1
      <4>. QED BY <4>2
    <3>2. CASE ~(k + 1 <= n)
      BY <3>2
    <3>. QED BY <3>1, <3>2
  <2> HIDE DEF T
  <2>4. n \in T
    BY <2>2, <2>3, SetInduction
  <2>. QED BY <2>4 DEF T
<1>4. node \in [Nat -> U]
  <2>1. \A n \in Nat : pick[n][n] \in U
    <3> TAKE n \in Nat
    <3>1. pick[n] \in [0 .. n -> U] /\ n \in 0 .. n
      BY <1>2
    <3>. QED BY <3>1
  <2>. QED BY <2>1
<1>5. node[0] = a
  BY <1>2
<1>6. ASSUME NEW k \in Nat
      PROVE  node[k + 1] = step[node[k]]
  <2>1. P(k + 1, pick[k + 1]) /\ k < k + 1
    BY <1>2
  <2>2. pick[k + 1][k + 1] = step[pick[k + 1][k]]
    BY <2>1
  <2>. QED BY <2>2, <1>3
<1> HIDE DEF node
<1>. QED
  BY <1>4, <1>5, <1>6 DEF Iterates


-----------------------------------------------------------------------------
(* Layouts: B is the set of blocks, sz their sizes.  The blocks tile lo to *)
(* hi.                                                                     *)

A16(n) == n % 16 = 0

LEMMA Aligned16 ==
  /\ \A m, n \in Int : A16(m) /\ A16(n) => A16(m + n) /\ A16(m - n)
  /\ \A m, n \in Int : A16(m) /\ A16(n) /\ m < n => m + 16 <= n
BY DEF A16

Laid(lo, hi, B, sz) ==
  /\ lo \in Nat /\ hi \in Nat /\ lo >= 24 /\ A16(lo) /\ A16(hi)
  /\ lo \in B /\ B \subseteq Nat
  /\ sz \in [B -> Nat]
  /\ \A b \in B : b >= lo /\ A16(b) /\ sz[b] >= 32 /\ A16(sz[b])
  /\ \A b \in B : b + sz[b] <= hi /\ (b + sz[b] = hi \/ b + sz[b] \in B)
  /\ \A b \in B : b = lo \/ \E c \in B : c + sz[c] = b
  /\ \A b, c \in B : b < c => b + sz[b] <= c

\* The blocks from b up to e become one block at b.
Absorbed(B, b, e) == {c \in B : c <= b \/ c >= e}
AbsorbedSize(B, sz, b, e) == [c \in Absorbed(B, b, e) |-> IF c = b THEN e - b ELSE sz[c]]

\* Block b keeps n bytes and gives up the rest.
Split(B, b, n) == B \cup {b + n}
SplitSize(B, sz, b, n) ==
  [c \in Split(B, b, n) |-> IF c = b THEN n
                            ELSE IF c = b + n THEN sz[b] - n
                            ELSE sz[c]]

\* Merging neighbours leaves a tiling: coalesce and grow.
LEMMA AbsorbLaid ==
  ASSUME NEW lo, NEW hi, NEW B, NEW sz, Laid(lo, hi, B, sz),
         NEW b \in B, NEW e, e = hi \/ e \in B, b < e
  PROVE  Laid(lo, hi, Absorbed(B, b, e), AbsorbedSize(B, sz, b, e))
<1> DEFINE B1 == Absorbed(B, b, e)
           s1 == AbsorbedSize(B, sz, b, e)
<1> USE DEF Laid
<1>0. e \in Nat /\ A16(e) /\ b \in Nat /\ A16(b) /\ b + 32 <= e /\ e <= hi
  <2>1. b \in Nat /\ e \in Nat /\ A16(b) /\ A16(e)
    OBVIOUS
  <2>2. b + sz[b] <= e /\ sz[b] >= 32 /\ sz[b] \in Nat
    OBVIOUS
  <2>3. e <= hi
    <3>1. e \in B => e + sz[e] <= hi /\ sz[e] \in Nat
      OBVIOUS
    <3>. QED BY <3>1, <2>1
  <2>. QED BY <2>1, <2>2, <2>3
<1>a. lo \in Nat /\ hi \in Nat /\ B \subseteq Nat /\ sz \in [B -> Nat]
  OBVIOUS
<1>1. b \in B1 /\ lo \in B1 /\ B1 \subseteq B
  BY <1>0 DEF Absorbed
<1>2. s1[b] = e - b /\ \A c \in B1 : c # b => s1[c] = sz[c]
  BY <1>1 DEF AbsorbedSize
<1>3. s1 \in [B1 -> Nat]
  <2>1. \A c \in B1 : (IF c = b THEN e - b ELSE sz[c]) \in Nat
    BY <1>0, <1>1, <1>a
  <2>. QED BY <2>1 DEF AbsorbedSize
<1>4. \A c \in B1 : c # b => c < b \/ c >= e
  BY <1>0 DEF Absorbed
<1>5. \A c \in B : c < b \/ c >= e => c \in B1
  BY <1>0 DEF Absorbed
<1> HIDE DEF B1, s1
<1>6. \A c \in B1 : s1[c] >= 32 /\ A16(s1[c])
  <2> TAKE c \in B1
  <2>1. A16(e - b) /\ e - b >= 32
    BY <1>0, Aligned16
  <2>2. sz[c] >= 32 /\ A16(sz[c])
    BY <1>1
  <2>. QED BY <2>1, <2>2, <1>2
<1>7. \A c \in B1 : c + s1[c] <= hi /\ (c + s1[c] = hi \/ c + s1[c] \in B1)
  <2> TAKE c \in B1
  <2>1. CASE c = b
    BY <2>1, <1>0, <1>2, <1>5
  <2>2. CASE c < b
    <3>1. c + sz[c] <= b
      BY <2>2, <1>1
    <3>2. c + sz[c] <= hi /\ (c + sz[c] = hi \/ c + sz[c] \in B)
      BY <1>1
    <3>3. b # hi
      BY <1>0
    <3>4. c \in Nat /\ sz[c] \in Nat /\ c + sz[c] < e
      BY <3>1, <1>0, <1>1
    <3>5. c + sz[c] # hi /\ c + sz[c] \in B1
      <4>1. CASE c + sz[c] = b
        BY <4>1, <1>1, <3>3
      <4>2. CASE c + sz[c] < b
        <5>1. c + sz[c] # hi
          BY <4>2, <1>0, <1>a, <3>4
        <5>. QED BY <4>2, <5>1, <3>2, <1>5
      <4>. QED BY <4>1, <4>2, <3>1, <3>4, <1>0
    <3>. QED BY <3>2, <3>5, <2>2, <1>0, <1>2
  <2>3. CASE c >= e
    BY <2>3, <1>0, <1>1, <1>2, <1>5
  <2>. QED BY <2>1, <2>2, <2>3, <1>4
<1>8. \A c \in B1 : c = lo \/ \E d \in B1 : d + s1[d] = c
  <2> SUFFICES ASSUME NEW c \in B1, c # lo
               PROVE  \E d \in B1 : d + s1[d] = c
    OBVIOUS
  <2>1. PICK d \in B : d + sz[d] = c
    BY <1>1
  <2>2. CASE d < b \/ d >= e
    BY <2>1, <2>2, <1>0, <1>2, <1>5
  <2>3. CASE d >= b /\ d < e
    <3>1. c <= e
      BY <2>1, <2>3, <1>0
    <3>2. c > b
      BY <2>1, <2>3, <1>0
    <3>3. c = e
      BY <3>1, <3>2, <1>0, <1>1, <1>4
    <3>. QED BY <3>3, <1>0, <1>1, <1>2
  <2>4. d \in Nat OBVIOUS
  <2>. QED BY <2>2, <2>3, <2>4, <1>0
<1>9. \A c, d \in B1 : c < d => c + s1[c] <= d
  <2> TAKE c, d \in B1
  <2> HAVE c < d
  <2>1. CASE c = b
    <3>1. d >= e
      <4>1. d \in Nat /\ b < d /\ (d # b => d < b \/ d >= e)
        BY <2>1, <1>1, <1>4, <1>a
      <4>. QED BY <4>1, <1>0
    <3>. QED BY <2>1, <3>1, <1>0, <1>2
  <2>2. CASE c # b
    BY <2>2, <1>0, <1>1, <1>2
  <2>. QED BY <2>1, <2>2
<1>. QED
  BY <1>0, <1>1, <1>3, <1>6, <1>7, <1>8, <1>9 DEF B1, s1

\* Splitting a block leaves a tiling: place, shrink and grow.
LEMMA SplitLaid ==
  ASSUME NEW lo, NEW hi, NEW B, NEW sz, Laid(lo, hi, B, sz),
         NEW b \in B, NEW n \in Nat, A16(n), n >= 32, sz[b] - n >= 32
  PROVE  /\ Laid(lo, hi, Split(B, b, n), SplitSize(B, sz, b, n))
         /\ b + n \notin B
<1> DEFINE B1 == Split(B, b, n)
           s1 == SplitSize(B, sz, b, n)
           r  == b + n
<1> USE DEF Laid
<1>0. lo \in Nat /\ hi \in Nat /\ B \subseteq Nat /\ sz \in [B -> Nat] /\ lo \in B
  OBVIOUS
<1>1. b \in Nat /\ sz[b] \in Nat /\ A16(b) /\ A16(sz[b]) /\ b >= lo /\ b + sz[b] <= hi
  OBVIOUS
<1>2. r \in Nat /\ A16(r) /\ A16(sz[b] - n) /\ sz[b] - n \in Nat
  <2>1. A16(b + n) /\ A16(sz[b] - n)
    <3> HIDE DEF Laid
    <3>1. A16(b + n)
      BY <1>1, Aligned16
    <3>2. \A x \in Int : A16(x) => A16(x - n)
      BY Aligned16
    <3>. QED BY <3>1, <3>2, <1>1
  <2>2. b + n \in Nat /\ sz[b] - n \in Nat
    BY <1>1
  <2>. QED BY <2>1, <2>2
<1>3. \A c \in B : c <= b \/ c >= b + sz[b]
  BY <1>0, <1>1
<1>4. r \notin B
  <2>1. r > b /\ r < b + sz[b]
    BY <1>1
  <2>. QED BY <2>1, <1>1, <1>3
<1>5. B1 = B \cup {r} /\ B1 \subseteq Nat
  BY <1>0, <1>2 DEF Split
<1>6. s1[b] = n /\ s1[r] = sz[b] - n /\ \A c \in B : c # b => s1[c] = sz[c]
  BY <1>4, <1>1 DEF Split, SplitSize
<1>7. s1 \in [B1 -> Nat]
  <2>1. \A c \in B1 : (IF c = b THEN n ELSE IF c = r THEN sz[b] - n ELSE sz[c]) \in Nat
    BY <1>5, <1>2, <1>0
  <2>. QED BY <2>1 DEF SplitSize
<1> HIDE DEF B1, s1, r
<1>8. \A c \in B1 : c >= lo /\ A16(c) /\ s1[c] >= 32 /\ A16(s1[c])
  <2> TAKE c \in B1
  <2>1. CASE c = b
    BY <2>1, <1>1, <1>6
  <2>2. CASE c = r
    BY <2>2, <1>1, <1>2, <1>6, <1>0 DEF r
  <2>3. CASE c \in B /\ c # b
    BY <2>3, <1>6
  <2>. QED BY <2>1, <2>2, <2>3, <1>5
<1>9. \A c \in B1 : c + s1[c] <= hi /\ (c + s1[c] = hi \/ c + s1[c] \in B1)
  <2> TAKE c \in B1
  <2>1. CASE c = b
    <3>1. c + s1[c] = r
      BY <2>1, <1>6 DEF r
    <3>. QED BY <3>1, <1>1, <1>5, <1>0 DEF r
  <2>2. CASE c = r
    <3>1. c + s1[c] = b + sz[b]
      BY <2>2, <1>6, <1>1 DEF r
    <3>. QED BY <3>1, <1>1, <1>5
  <2>3. CASE c \in B /\ c # b
    BY <2>3, <1>5, <1>6
  <2>. QED BY <2>1, <2>2, <2>3, <1>5
<1>10. \A c \in B1 : c = lo \/ \E d \in B1 : d + s1[d] = c
  <2> SUFFICES ASSUME NEW c \in B1, c # lo
               PROVE  \E d \in B1 : d + s1[d] = c
    OBVIOUS
  <2>1. CASE c = r
    BY <2>1, <1>5, <1>6 DEF r
  <2>2. CASE c \in B
    <3>1. PICK d \in B : d + sz[d] = c
      BY <2>2
    <3>2. CASE d = b
      <4>1. r + s1[r] = c
        BY <3>1, <3>2, <1>6, <1>1 DEF r
      <4>. QED BY <4>1, <1>5
    <3>3. CASE d # b
      BY <3>1, <3>3, <1>5, <1>6
    <3>. QED BY <3>2, <3>3
  <2>. QED BY <2>1, <2>2, <1>5
<1>11. \A c, d \in B1 : c < d => c + s1[c] <= d
  <2> SUFFICES ASSUME NEW c \in B1, NEW d \in B1, c < d
               PROVE  c + s1[c] <= d
    OBVIOUS
  <2>1. c \in Nat /\ d \in Nat /\ r = b + n
    BY <1>5 DEF r
  <2>2. CASE c = b
    <3>1. CASE d = r
      BY <2>2, <3>1, <2>1, <1>6
    <3>2. CASE d \in B
      BY <2>2, <3>2, <2>1, <1>1, <1>3, <1>6
    <3>. QED BY <3>1, <3>2, <1>5
  <2>3. CASE c = r
    <3>1. d \in B
      BY <2>3, <1>5, <2>1
    <3>2. d >= b + sz[b]
      BY <3>1, <2>3, <2>1, <1>1, <1>3
    <3>. QED BY <2>3, <3>2, <1>6, <2>1, <1>1
  <2>4. CASE c \in B /\ c # b
    <3>1. s1[c] = sz[c] /\ sz[c] \in Nat
      BY <2>4, <1>6, <1>0
    <3>2. CASE d \in B
      BY <2>4, <3>2, <3>1
    <3>3. CASE d = r
      <4>1. c <= b
        BY <2>4, <3>3, <2>1, <1>1, <1>3
      <4>2. c < b
        BY <4>1, <2>4, <2>1, <1>1
      <4>3. c + sz[c] <= b
        BY <4>2, <2>4
      <4>. QED BY <4>3, <3>1, <3>3, <2>1, <1>1
    <3>. QED BY <3>2, <3>3, <1>5
  <2>. QED BY <2>2, <2>3, <2>4, <1>5
<1>12. lo \in B1
  BY <1>0, <1>5
<1>. QED
  BY <1>4, <1>5, <1>7, <1>8, <1>9, <1>10, <1>11, <1>12 DEF B1, s1, r

-----------------------------------------------------------------------------
(* Tags: the words of memory encode a layout.                              *)

Words(lo, hi) == {a \in Nat : lo - 24 <= a /\ a <= hi - 8 /\ a % 8 = 0}

Tagged(m, lo, hi, B, sz, al) ==
  /\ m \in [Words(lo, hi) -> Nat]
  /\ al \in [B -> {0, 1}]
  /\ \A b \in B : m[b - 8] = sz[b] + al[b] /\ m[b + sz[b] - 16] = sz[b] + al[b]
  /\ m[lo - 24] = 17 /\ m[lo - 16] = 17 /\ m[hi - 8] = 1

\* The words the code addresses are words of the arena.
LEMMA WordsOf ==
  ASSUME NEW lo, NEW hi, NEW B, NEW sz, Laid(lo, hi, B, sz)
  PROVE  /\ lo - 24 \in Words(lo, hi) /\ lo - 16 \in Words(lo, hi) /\ hi - 8 \in Words(lo, hi)
         /\ \A b \in B : /\ b - 8 \in Words(lo, hi)
                         /\ b \in Words(lo, hi)
                         /\ b + 8 \in Words(lo, hi)
                         /\ b + sz[b] - 16 \in Words(lo, hi)
<1>1. lo \in Nat /\ hi \in Nat /\ lo >= 24 /\ A16(lo) /\ A16(hi) /\ lo \in B
  BY DEF Laid
<1>2. \A b \in B : /\ b \in Nat /\ sz[b] \in Nat /\ b >= lo /\ A16(b) /\ A16(sz[b])
                  /\ sz[b] >= 32 /\ b + sz[b] <= hi
  BY DEF Laid
<1>3. ASSUME NEW b \in B
      PROVE  /\ b - 8 \in Words(lo, hi)
             /\ b \in Words(lo, hi)
             /\ b + 8 \in Words(lo, hi)
             /\ b + sz[b] - 16 \in Words(lo, hi)
  <2> DEFINE s == sz[b]
  <2>1. b \in Nat /\ s \in Nat /\ b >= lo /\ A16(b) /\ A16(s) /\ s >= 32 /\ b + s <= hi
    BY <1>2
  <2> HIDE DEF s
  <2>2. /\ (b - 8) % 8 = 0 /\ b % 8 = 0 /\ (b + 8) % 8 = 0 /\ (b + s - 16) % 8 = 0
    BY <2>1 DEF A16
  <2>3. b - 8 \in Nat /\ b + 8 \in Nat /\ b + s - 16 \in Nat
    BY <2>1, <1>1
  <2>4. b + sz[b] - 16 \in Words(lo, hi)
    BY <2>1, <2>2, <2>3, <1>1 DEF Words, s
  <2>. QED BY <2>1, <2>2, <2>3, <2>4, <1>1 DEF Words
<1>4. (lo - 24) % 8 = 0 /\ (lo - 16) % 8 = 0 /\ (hi - 8) % 8 = 0
  BY <1>1 DEF A16
<1>5. hi >= lo + 32
  <2>1. lo + sz[lo] <= hi /\ sz[lo] >= 32 /\ sz[lo] \in Nat
    BY <1>1, <1>2
  <2>. QED BY <2>1, <1>1
<1>. QED
  BY <1>1, <1>3, <1>4, <1>5 DEF Words

LEMMA TagArith ==
  \A s \in Nat, a \in {0, 1} : A16(s) => ((s + a) \div 8) * 8 = s /\ (s + a) % 2 = a
BY DEF A16

\* What the macros read, forwards and backwards.
LEMMA Reads ==
  ASSUME NEW m, NEW lo, NEW hi, NEW B, NEW sz, NEW al,
         Laid(lo, hi, B, sz), Tagged(m, lo, hi, B, sz, al)
  PROVE  /\ \A b \in B : SizeOf(m, b - 8) = sz[b] /\ AllocOf(m, b - 8) = al[b]
         /\ \A b \in B : /\ SizeOf(m, b + sz[b] - 16) = sz[b]
                         /\ AllocOf(m, b + sz[b] - 16) = al[b]
         /\ SizeOf(m, lo - 16) = 16 /\ SizeOf(m, lo - 24) = 16 /\ AllocOf(m, lo - 16) = 1
         /\ SizeOf(m, hi - 8) = 0 /\ AllocOf(m, hi - 8) = 1
<1>1. \A b \in B : sz[b] \in Nat /\ A16(sz[b]) /\ al[b] \in {0, 1}
  BY DEF Laid, Tagged
<1>2. \A b \in B : m[b - 8] = sz[b] + al[b] /\ m[b + sz[b] - 16] = sz[b] + al[b]
  BY DEF Tagged
<1>3. m[lo - 24] = 17 /\ m[lo - 16] = 17 /\ m[hi - 8] = 1
  BY DEF Tagged
<1>4. \A b \in B : SizeOf(m, b - 8) = sz[b] /\ AllocOf(m, b - 8) = al[b]
  BY <1>1, <1>2, TagArith DEF SizeOf, AllocOf
<1>5. \A b \in B : /\ SizeOf(m, b + sz[b] - 16) = sz[b]
                  /\ AllocOf(m, b + sz[b] - 16) = al[b]
  BY <1>1, <1>2, TagArith DEF SizeOf, AllocOf
<1>6. (17 \div 8) * 8 = 16 /\ 17 % 2 = 1 /\ (1 \div 8) * 8 = 0 /\ 1 % 2 = 1
  OBVIOUS
<1>. QED
  BY <1>3, <1>4, <1>5, <1>6 DEF SizeOf, AllocOf

\* A write inside a block's payload changes no tag.
LEMMA PayloadWrite ==
  ASSUME NEW m, NEW lo, NEW hi, NEW B, NEW sz, NEW al,
         Laid(lo, hi, B, sz), Tagged(m, lo, hi, B, sz, al),
         NEW m2, m2 \in [Words(lo, hi) -> Nat],
         \A a \in Words(lo, hi) :
           m2[a] # m[a] => \E c \in B : c <= a /\ a < c + sz[c] - 16
  PROVE  Tagged(m2, lo, hi, B, sz, al)
<1>1. lo \in Nat /\ hi \in Nat /\ lo >= 24 /\ \A b \in B : b \in Nat /\ sz[b] \in Nat /\ b >= lo
  BY DEF Laid
<1>2. \A b, c \in B : b < c => b + sz[b] <= c
  BY DEF Laid
<1>3. \A b \in B : b + sz[b] <= hi /\ sz[b] >= 32
  BY DEF Laid
<1>4. ASSUME NEW b \in B
      PROVE  m2[b - 8] = m[b - 8] /\ m2[b + sz[b] - 16] = m[b + sz[b] - 16]
  <2>1. ASSUME NEW c \in B
        PROVE  ~(c <= b - 8 /\ b - 8 < c + sz[c] - 16)
    BY <1>1, <1>2, <1>3
  <2>2. ASSUME NEW c \in B
        PROVE  ~(c <= b + sz[b] - 16 /\ b + sz[b] - 16 < c + sz[c] - 16)
    <3>1. CASE c < b
      <4>1. c + sz[c] <= b /\ sz[b] \in Nat /\ b \in Nat /\ sz[c] \in Nat /\ c \in Nat
        BY <3>1, <1>1, <1>2
      <4>. QED BY <4>1
    <3>2. CASE b < c
      <4>1. b + sz[b] <= c /\ sz[b] \in Nat /\ b \in Nat /\ sz[c] \in Nat /\ c \in Nat
        BY <3>2, <1>1, <1>2
      <4>. QED BY <4>1
    <3>3. CASE b = c
      BY <3>3, <1>1
    <3>. QED BY <3>1, <3>2, <3>3, <1>1
  <2>3. b - 8 \in Words(lo, hi) /\ b + sz[b] - 16 \in Words(lo, hi)
    BY WordsOf
  <2>. QED BY <2>1, <2>2, <2>3
<1>5. ASSUME NEW a \in {lo - 24, lo - 16, hi - 8}
      PROVE  m2[a] = m[a]
  <2>1. a \in Words(lo, hi)
    BY WordsOf
  <2>2. ASSUME NEW c \in B
        PROVE  ~(c <= a /\ a < c + sz[c] - 16)
    <3>1. c \in Nat /\ sz[c] \in Nat /\ c >= lo /\ c + sz[c] <= hi
      BY <1>1, <1>3
    <3>. QED BY <3>1, <1>1
  <2>. QED BY <2>1, <2>2
<1>. QED
  BY <1>4, <1>5 DEF Tagged

AbsorbedAlloc(B, al, b, e, a) == [c \in Absorbed(B, b, e) |-> IF c = b THEN a ELSE al[c]]

\* Tagging b with the distance to e makes one block of what lay between.
LEMMA AbsorbTagged ==
  ASSUME NEW m, NEW lo, NEW hi, NEW B, NEW sz, NEW al,
         Laid(lo, hi, B, sz), Tagged(m, lo, hi, B, sz, al),
         NEW b \in B, NEW e, e = hi \/ e \in B, b < e, NEW a \in {0, 1},
         NEW m2, m2 = [m EXCEPT ![b - 8] = e - b + a, ![e - 16] = e - b + a]
  PROVE  Tagged(m2, lo, hi, Absorbed(B, b, e), AbsorbedSize(B, sz, b, e),
                AbsorbedAlloc(B, al, b, e, a))
<1> DEFINE B1 == Absorbed(B, b, e)
           s1 == AbsorbedSize(B, sz, b, e)
           a1 == AbsorbedAlloc(B, al, b, e, a)
<1>0. Laid(lo, hi, B1, s1)
  BY AbsorbLaid
<1>1. /\ lo \in Nat /\ hi \in Nat /\ lo >= 24 /\ b \in Nat /\ e \in Nat /\ b >= lo
      /\ B \subseteq Nat /\ sz \in [B -> Nat] /\ al \in [B -> {0, 1}]
      /\ m \in [Words(lo, hi) -> Nat]
  BY DEF Laid, Tagged
<1>2. /\ b \in B1 /\ B1 \subseteq B /\ s1[b] = e - b /\ a1[b] = a
      /\ \A c \in B1 : c # b => s1[c] = sz[c] /\ a1[c] = al[c]
      /\ \A c \in B1 : c # b => c < b \/ c >= e
      /\ a1 \in [B1 -> {0, 1}]
  <2>1. b \in B1 /\ B1 \subseteq B
    BY <1>1 DEF Absorbed
  <2>2. \A c \in B1 : (IF c = b THEN a ELSE al[c]) \in {0, 1}
    BY <2>1, <1>1
  <2>3. a1 \in [B1 -> {0, 1}]
    BY <2>2 DEF AbsorbedAlloc
  <2>4. \A c \in B1 : c # b => c < b \/ c >= e
    BY <1>1 DEF Absorbed
  <2>. QED BY <2>1, <2>3, <2>4 DEF AbsorbedSize, AbsorbedAlloc
<1> HIDE DEF B1, s1, a1
<1>3. b - 8 \in Words(lo, hi) /\ e - 16 \in Words(lo, hi) /\ e - b \in Nat
  <2>1. b + s1[b] - 16 = e - 16
    BY <1>1, <1>2
  <2>2. b + s1[b] - 16 \in Words(lo, hi) /\ b - 8 \in Words(lo, hi)
    BY <1>0, <1>2, WordsOf
  <2>. QED BY <2>1, <2>2, <1>1
<1>4. /\ m2 \in [Words(lo, hi) -> Nat]
      /\ m2[b - 8] = e - b + a /\ m2[e - 16] = e - b + a
      /\ \A w \in Words(lo, hi) : w # b - 8 /\ w # e - 16 => m2[w] = m[w]
  <2>1. e - b + a \in Nat
    BY <1>3
  <2>. QED BY <2>1, <1>1, <1>3
<1>5. ASSUME NEW c \in B1
      PROVE  m2[c - 8] = s1[c] + a1[c] /\ m2[c + s1[c] - 16] = s1[c] + a1[c]
  <2>1. CASE c = b
    <3>1. c + s1[c] - 16 = e - 16
      BY <2>1, <1>1, <1>2
    <3>. QED BY <3>1, <2>1, <1>2, <1>4
  <2>2. CASE c # b
    <3>1. /\ s1[c] = sz[c] /\ a1[c] = al[c] /\ c \in B
          /\ c \in Nat /\ sz[c] \in Nat /\ sz[c] >= 32
      BY <2>2, <1>1, <1>2 DEF Laid
    <3>2. m[c - 8] = sz[c] + al[c] /\ m[c + sz[c] - 16] = sz[c] + al[c]
      BY <3>1 DEF Tagged
    <3>3. c - 8 \in Words(lo, hi) /\ c + sz[c] - 16 \in Words(lo, hi)
      BY <3>1, WordsOf
    <3>4. c + sz[c] <= b \/ c >= e
      BY <2>2, <1>2, <3>1 DEF Laid
    <3>5. b + 32 <= e
      <4>1. s1[b] >= 32
        BY <1>0, <1>2 DEF Laid
      <4>. QED BY <4>1, <1>1, <1>2
    <3>6. c - 8 # b - 8 /\ c - 8 # e - 16 /\ c + sz[c] - 16 # b - 8 /\ c + sz[c] - 16 # e - 16
      BY <2>2, <3>1, <3>4, <3>5, <1>1
    <3>. QED BY <3>1, <3>2, <3>3, <3>6, <1>4
  <2>. QED BY <2>1, <2>2
<1>6. m2[lo - 24] = 17 /\ m2[lo - 16] = 17 /\ m2[hi - 8] = 1
  <2>1. m[lo - 24] = 17 /\ m[lo - 16] = 17 /\ m[hi - 8] = 1
    BY DEF Tagged
  <2>2. lo - 24 \in Words(lo, hi) /\ lo - 16 \in Words(lo, hi) /\ hi - 8 \in Words(lo, hi)
    BY WordsOf
  <2>3. b + 32 <= e /\ e <= hi
    <3>1. b + s1[b] <= hi /\ s1[b] >= 32
      BY <1>0, <1>2 DEF Laid
    <3>. QED BY <3>1, <1>1, <1>2
  <2>. QED BY <2>1, <2>2, <2>3, <1>1, <1>4
<1>. QED
  BY <1>2, <1>4, <1>5, <1>6 DEF Tagged, B1, s1, a1

SplitAlloc(B, al, b, n, a, r) ==
  [c \in Split(B, b, n) |-> IF c = b THEN a ELSE IF c = b + n THEN r ELSE al[c]]

\* Tagging b with n and the rest with what is left makes two blocks of one.
LEMMA SplitTagged ==
  ASSUME NEW m, NEW lo, NEW hi, NEW B, NEW sz, NEW al,
         Laid(lo, hi, B, sz), Tagged(m, lo, hi, B, sz, al),
         NEW b \in B, NEW n \in Nat, A16(n), n >= 32, sz[b] - n >= 32,
         NEW a \in {0, 1}, NEW r \in {0, 1},
         NEW m2, m2 = [[m EXCEPT ![b - 8] = n + a, ![b + n - 16] = n + a]
                         EXCEPT ![b + n - 8] = sz[b] - n + r,
                                ![b + sz[b] - 16] = sz[b] - n + r]
  PROVE  Tagged(m2, lo, hi, Split(B, b, n), SplitSize(B, sz, b, n),
                SplitAlloc(B, al, b, n, a, r))
<1> DEFINE B1 == Split(B, b, n)
           s1 == SplitSize(B, sz, b, n)
           a1 == SplitAlloc(B, al, b, n, a, r)
           t  == b + n
<1>0. Laid(lo, hi, B1, s1) /\ t \notin B
  BY SplitLaid
<1>1. /\ lo \in Nat /\ hi \in Nat /\ lo >= 24 /\ b \in Nat /\ b >= lo
      /\ B \subseteq Nat /\ sz \in [B -> Nat] /\ al \in [B -> {0, 1}]
      /\ m \in [Words(lo, hi) -> Nat] /\ sz[b] \in Nat /\ t \in Nat
      /\ b + sz[b] <= hi /\ t = b + n
  BY DEF Laid, Tagged
<1>2. /\ B1 = B \cup {t} /\ s1[b] = n /\ a1[b] = a /\ s1[t] = sz[b] - n /\ a1[t] = r
      /\ \A c \in B : c # b => s1[c] = sz[c] /\ a1[c] = al[c]
      /\ a1 \in [B1 -> {0, 1}]
  <2>1. B1 = B \cup {t} /\ t # b
    BY <1>1 DEF Split
  <2>2. \A c \in B1 : (IF c = b THEN a ELSE IF c = t THEN r ELSE al[c]) \in {0, 1}
    BY <2>1, <1>1
  <2>3. a1 \in [B1 -> {0, 1}]
    BY <2>2 DEF SplitAlloc
  <2>. QED BY <2>1, <2>3, <1>0 DEF SplitSize, SplitAlloc
<1> HIDE DEF B1, s1, a1, t
<1>3. /\ b - 8 \in Words(lo, hi) /\ b + n - 16 \in Words(lo, hi)
      /\ b + n - 8 \in Words(lo, hi) /\ b + sz[b] - 16 \in Words(lo, hi)
  <2>1. b \in B1 /\ t \in B1
    BY <1>2
  <2>2. b - 8 \in Words(lo, hi) /\ b + s1[b] - 16 \in Words(lo, hi) /\ t - 8 \in Words(lo, hi)
    BY <2>1, <1>0, WordsOf
  <2>3. b + sz[b] - 16 \in Words(lo, hi)
    BY WordsOf
  <2>. QED BY <2>2, <2>3, <1>1, <1>2
<1>4. /\ m2 \in [Words(lo, hi) -> Nat]
      /\ m2[b - 8] = n + a /\ m2[b + n - 16] = n + a
      /\ m2[b + n - 8] = sz[b] - n + r /\ m2[b + sz[b] - 16] = sz[b] - n + r
      /\ \A w \in Words(lo, hi) : 
            w # b - 8 /\ w # b + n - 16 /\ w # b + n - 8 /\ w # b + sz[b] - 16 => m2[w] = m[w]
  <2>1. n + a \in Nat /\ sz[b] - n + r \in Nat
    BY <1>1
  <2>2. b - 8 # b + n - 8 /\ b - 8 # b + sz[b] - 16 /\ b + n - 16 # b + n - 8 
        /\ b + n - 16 # b + sz[b] - 16
    BY <1>1
  <2>. QED BY <2>1, <2>2, <1>1, <1>3
<1>5. ASSUME NEW c \in B1
      PROVE  m2[c - 8] = s1[c] + a1[c] /\ m2[c + s1[c] - 16] = s1[c] + a1[c]
  <2>1. CASE c = b
    BY <2>1, <1>2, <1>4
  <2>2. CASE c = t
    <3>1. c - 8 = b + n - 8 /\ c + s1[c] - 16 = b + sz[b] - 16
      BY <2>2, <1>1, <1>2
    <3>. QED BY <3>1, <2>2, <1>2, <1>4
  <2>3. CASE c \in B /\ c # b
    <3>1. /\ s1[c] = sz[c] /\ a1[c] = al[c] /\ c \in Nat /\ sz[c] \in Nat /\ sz[c] >= 32
      BY <2>3, <1>1, <1>2 DEF Laid
    <3>2. m[c - 8] = sz[c] + al[c] /\ m[c + sz[c] - 16] = sz[c] + al[c]
      BY <2>3 DEF Tagged
    <3>3. c - 8 \in Words(lo, hi) /\ c + sz[c] - 16 \in Words(lo, hi)
      BY <2>3, WordsOf
    <3>4. c + sz[c] <= b \/ c >= b + sz[b]
      BY <2>3, <1>1 DEF Laid
    <3>5. /\ c - 8 # b - 8 /\ c - 8 # b + n - 16 /\ c - 8 # b + n - 8 /\ c - 8 # b + sz[b] - 16
          /\ c + sz[c] - 16 # b - 8 /\ c + sz[c] - 16 # b + n - 16
          /\ c + sz[c] - 16 # b + n - 8 /\ c + sz[c] - 16 # b + sz[b] - 16
      BY <2>3, <3>1, <3>4, <1>1
    <3>. QED BY <3>1, <3>2, <3>3, <3>5, <1>4
  <2>. QED BY <2>1, <2>2, <2>3, <1>2
<1>6. m2[lo - 24] = 17 /\ m2[lo - 16] = 17 /\ m2[hi - 8] = 1
  <2>1. m[lo - 24] = 17 /\ m[lo - 16] = 17 /\ m[hi - 8] = 1
    BY DEF Tagged
  <2>2. lo - 24 \in Words(lo, hi) /\ lo - 16 \in Words(lo, hi) /\ hi - 8 \in Words(lo, hi)
    BY WordsOf
  <2>. QED BY <2>1, <2>2, <1>1, <1>4
<1>. QED
  BY <1>2, <1>4, <1>5, <1>6 DEF Tagged, B1, s1, a1

-----------------------------------------------------------------------------
(* The free list: F is the set of listed blocks, r ranks them along the    *)
(* list, so that it has no cycle.                                          *)

Linked(m, fl, F, r) ==
  /\ r \in [F -> Nat]
  /\ fl \in F \cup {0}
  /\ \A b \in F : /\ m[b] \in F \cup {0}
                  /\ m[b + 8] \in F \cup {0}
                  /\ m[b] = 0 <=> b = fl
  /\ \A b \in F : m[b] # 0 => m[m[b] + 8] = b /\ r[m[b]] < r[b]
  /\ \A b \in F : m[b + 8] # 0 => m[m[b + 8]] = b /\ r[b] < r[m[b + 8]]

\* The heap h is a tiling whose listed blocks are F.
State(h, lo, hi, B, sz, al, F) ==
  /\ Laid(lo, hi, B, sz)
  /\ Tagged(h.mem, lo, hi, B, sz, al)
  /\ F \subseteq B
  /\ \E r : Linked(h.mem, h.freeList, F, r)

\* The list depends on the two first payload words of its nodes only.
LEMMA LinkedFrame ==
  ASSUME NEW m, NEW m2, NEW fl, NEW F, NEW r, Linked(m, fl, F, r),
         \A b \in F : m2[b] = m[b] /\ m2[b + 8] = m[b + 8]
  PROVE  Linked(m2, fl, F, r)
BY DEF Linked

\* A list that has a node starts at one.
LEMMA LinkedHead ==
  ASSUME NEW m, NEW fl, NEW F, NEW r, Linked(m, fl, F, r), F # {}
  PROVE  fl \in F
<1> DEFINE T == {r[b] : b \in F}
<1>1. T \subseteq Nat /\ T # {}
  BY DEF Linked
<1> HIDE DEF T
<1>2. PICK x \in T : \A y \in T : x <= y
  BY <1>1, LeastElement
<1> USE DEF T
<1>3. PICK b \in F : r[b] = x
  OBVIOUS
<1>4. ASSUME m[b] # 0
      PROVE  FALSE
  <2>1. m[b] \in F /\ r[m[b]] < r[b] /\ r[b] \in Nat /\ r[m[b]] \in Nat
    BY <1>4 DEF Linked
  <2>. QED BY <2>1, <1>2, <1>3
<1>. QED
  BY <1>4 DEF Linked

\* The payload words of blocks are apart from one another.
LEMMA NodesApart ==
  ASSUME NEW lo, NEW hi, NEW B, NEW sz, Laid(lo, hi, B, sz)
  PROVE  /\ \A b, c \in B : b # c + 8
         /\ \A b, c \in B : b # c => b + 8 # c + 8
         /\ 0 \notin B /\ B \subseteq Nat
<1>1. \A b \in B : b \in Nat /\ b >= lo /\ lo >= 24 /\ lo \in Nat /\ A16(b)
  BY DEF Laid
<1>2. ASSUME NEW b \in B, NEW c \in B
      PROVE  b # c + 8
  BY <1>1 DEF A16
<1>. QED
  BY <1>1, <1>2

LEMMA InsertState ==
  ASSUME NEW h, NEW lo, NEW hi, NEW B, NEW sz, NEW al, NEW F,
         State(h, lo, hi, B, sz, al, F), NEW b \in B, b \notin F
  PROVE  /\ State(listInsert(h, b), lo, hi, B, sz, al, F \cup {b})
         /\ listInsert(h, b).freeList = b
<1> DEFINE m == h.mem
           fl == h.freeList
           W == Words(lo, hi)
           m1 == [m EXCEPT ![b] = 0, ![b + 8] = fl]
           m2 == IF fl # 0 THEN [m1 EXCEPT ![fl] = b] ELSE m1
           G == F \cup {b}
<1>1. Laid(lo, hi, B, sz) /\ Tagged(m, lo, hi, B, sz, al) /\ F \subseteq B
  BY DEF State
<1>2. PICK r : Linked(m, fl, F, r)
  BY DEF State
<1> DEFINE r2 == [c \in G |-> IF c = b THEN 0 ELSE r[c] + 1]
<1>3. listInsert(h, b).mem = m2 /\ listInsert(h, b).freeList = b
  BY DEF listInsert, NULL, WSIZE
<1>4. /\ \A c, d \in B : c # d + 8
      /\ \A c, d \in B : c # d => c + 8 # d + 8
      /\ 0 \notin B /\ B \subseteq Nat
  BY <1>1, NodesApart
<1>5. \A c \in B : c \in W /\ c + 8 \in W
  BY <1>1, WordsOf
<1>6. m \in [W -> Nat]
  BY <1>1 DEF Tagged
<1>7. fl \in F \cup {0} /\ fl # b /\ fl \in Nat
  <2>1. fl \in F \cup {0}
    BY <1>2 DEF Linked
  <2>2. F \subseteq B /\ 0 \notin B /\ B \subseteq Nat
    BY <1>1, <1>4
  <2> HIDE DEF fl
  <2>3. CASE fl = 0
    BY <2>2, <2>3
  <2>4. CASE fl \in F
    BY <2>2, <2>4
  <2>. QED BY <2>1, <2>3, <2>4
<1> HIDE DEF m, fl, W
<1>8. m1 \in [W -> Nat] /\ m1[b] = 0 /\ m1[b + 8] = fl
      /\ \A w \in W : w # b /\ w # b + 8 => m1[w] = m[w]
  BY <1>4, <1>5, <1>6, <1>7
<1> HIDE DEF m1
<1>9. /\ m2 \in [W -> Nat] /\ m2[b] = 0 /\ m2[b + 8] = fl
      /\ fl # 0 => m2[fl] = b
      /\ \A w \in W : w # b /\ w # b + 8 /\ (w = fl => fl = 0) => m2[w] = m[w]
  <2>1. CASE fl = 0
    BY <2>1, <1>8
  <2>2. CASE fl # 0
    <3>1. fl \in B /\ fl \in W /\ b + 8 # fl /\ b \in Nat
      BY <2>2, <1>1, <1>4, <1>5, <1>7
    <3>2. m2 = [m1 EXCEPT ![fl] = b]
      BY <2>2
    <3>. QED BY <2>2, <3>1, <3>2, <1>7, <1>8, <1>5
  <2>. QED BY <2>1, <2>2
<1> HIDE DEF m2
<1>10. Tagged(m2, lo, hi, B, sz, al)
  <2>1. ASSUME NEW w \in W, m2[w] # m[w]
        PROVE  \E c \in B : c <= w /\ w < c + sz[c] - 16
    <3>1. w = b \/ w = b + 8 \/ (w = fl /\ fl \in B)
      BY <2>1, <1>9, <1>7, <1>1
    <3>2. \A c \in B : c \in Nat /\ sz[c] \in Nat /\ sz[c] >= 32
      BY <1>1 DEF Laid
    <3>. QED BY <3>1, <3>2
  <2>. QED BY <2>1, <1>1, <1>9, PayloadWrite DEF W
<1>11. Linked(m2, b, G, r2)
  <2>0. r \in [F -> Nat]
    BY <1>2 DEF Linked
  <2>1. r2 \in [G -> Nat] /\ r2[b] = 0 /\ \A c \in F : r2[c] = r[c] + 1 /\ r2[c] \in Nat /\ r[c] \in Nat
    BY <2>0
  <2> HIDE DEF r2
  <2>2. \A c \in F : /\ m2[c + 8] = m[c + 8]
                     /\ c # fl => m2[c] = m[c]
                     /\ c = fl => m2[c] = b
    BY <1>1, <1>4, <1>5, <1>7, <1>9
  <2>3. ASSUME NEW c \in G
        PROVE  m2[c] \in G \cup {0} /\ m2[c + 8] \in G \cup {0} /\ (m2[c] = 0 <=> c = b)
    <3>1. CASE c = b
      BY <3>1, <1>7, <1>9
    <3>2. CASE c \in F
      BY <3>2, <2>2, <1>2, <1>4 DEF Linked
    <3>. QED BY <3>1, <3>2
  <2>4. ASSUME NEW c \in G, m2[c] # 0
        PROVE  m2[m2[c] + 8] = c /\ r2[m2[c]] < r2[c]
    <3>1. c \in F
      BY <2>4, <1>9
    <3>2. CASE c = fl
      BY <3>1, <3>2, <2>1, <2>2, <1>9
    <3>3. CASE c # fl
      <4>1. m2[c] = m[c] /\ m[c] \in F /\ m[m[c] + 8] = c /\ r[m[c]] < r[c]
        BY <2>4, <3>1, <3>3, <2>2, <1>2 DEF Linked
      <4>. QED BY <4>1, <3>1, <2>1, <2>2
    <3>. QED BY <3>2, <3>3
  <2>5. ASSUME NEW c \in G, m2[c + 8] # 0
        PROVE  m2[m2[c + 8]] = c /\ r2[c] < r2[m2[c + 8]]
    <3>1. CASE c = b
      BY <3>1, <2>5, <2>1, <1>7, <1>9
    <3>2. CASE c \in F
      <4>1. m2[c + 8] = m[c + 8] /\ m[c + 8] \in F /\ m[m[c + 8]] = c /\ r[c] < r[m[c + 8]]
        BY <2>5, <3>2, <2>2, <1>2 DEF Linked
      <4>2. m[c + 8] # fl
        BY <4>1, <3>2, <1>1, <1>2, <1>4 DEF Linked
      <4>. QED BY <4>1, <4>2, <3>2, <2>1, <2>2
    <3>. QED BY <3>1, <3>2
  <2>. QED BY <2>1, <2>3, <2>4, <2>5 DEF Linked
<1>. QED
  BY <1>1, <1>3, <1>10, <1>11 DEF State

LEMMA RemoveState ==
  ASSUME NEW h, NEW lo, NEW hi, NEW B, NEW sz, NEW al, NEW F,
         State(h, lo, hi, B, sz, al, F), NEW b \in F
  PROVE  State(listRemove(h, b), lo, hi, B, sz, al, F \ {b})
<1> DEFINE m == h.mem
           fl == h.freeList
           W == Words(lo, hi)
           prev == m[b]
           next == m[b + 8]
           m1 == IF prev # 0 THEN [m EXCEPT ![prev + 8] = next] ELSE m
           m2 == IF next # 0 THEN [m1 EXCEPT ![next] = prev] ELSE m1
           f2 == IF prev # 0 THEN fl ELSE next
           G == F \ {b}
<1>1. Laid(lo, hi, B, sz) /\ Tagged(m, lo, hi, B, sz, al) /\ F \subseteq B
  BY DEF State
<1>2. PICK r : Linked(m, fl, F, r)
  BY DEF State
<1> DEFINE r2 == [c \in G |-> r[c]]
<1>3. listRemove(h, b).mem = m2 /\ listRemove(h, b).freeList = f2
  BY DEF listRemove, PrevNode, NextNode, NULL, WSIZE
<1>4. /\ \A c, d \in B : c # d + 8
      /\ \A c, d \in B : c # d => c + 8 # d + 8
      /\ 0 \notin B /\ B \subseteq Nat
  BY <1>1, NodesApart
<1>5. \A c \in B : c \in W /\ c + 8 \in W
  BY <1>1, WordsOf
<1>6. m \in [W -> Nat]
  BY <1>1 DEF Tagged
<1>a. /\ r \in [F -> Nat]
      /\ fl \in F \cup {0}
      /\ \A c \in F : /\ m[c] \in F \cup {0}
                      /\ m[c + 8] \in F \cup {0}
                      /\ m[c] = 0 <=> c = fl
      /\ \A c \in F : m[c] # 0 => m[m[c] + 8] = c /\ r[m[c]] < r[c]
      /\ \A c \in F : m[c + 8] # 0 => m[m[c + 8]] = c /\ r[c] < r[m[c + 8]]
  BY <1>2 DEF Linked
<1>7. /\ prev \in F \cup {0} /\ next \in F \cup {0}
      /\ prev # 0 => m[prev + 8] = b /\ r[prev] < r[b]
      /\ next # 0 => m[next] = b /\ r[b] < r[next]
      /\ prev = 0 <=> b = fl
      /\ r[b] \in Nat
  BY <1>a
<1>8. prev # b /\ next # b /\ b # 0 /\ (prev # 0 => prev \in B) /\ (next # 0 => next \in B)
  BY <1>1, <1>4, <1>7
<1> HIDE DEF m, fl, W, prev, next
<1>b. prev \in Nat /\ next \in Nat
  <2>1. (prev = 0 \/ prev \in B) /\ (next = 0 \/ next \in B)
    BY <1>8
  <2>2. \A c \in B : c \in Nat
    BY <1>4
  <2>. QED BY <2>1, <2>2
<1>9. /\ m1 \in [W -> Nat]
      /\ prev # 0 => m1[prev + 8] = next
      /\ \A w \in W : (prev # 0 => w # prev + 8) => m1[w] = m[w]
  <2>1. CASE prev = 0
    BY <2>1, <1>6
  <2>2. CASE prev # 0
    <3>1. prev + 8 \in W /\ next \in Nat
      BY <2>2, <1>5, <1>8, <1>b
    <3>2. m1 = [m EXCEPT ![prev + 8] = next]
      BY <2>2
    <3>. QED BY <2>2, <3>1, <3>2, <1>6
  <2>. QED BY <2>1, <2>2
<1> HIDE DEF m1
<1>10. /\ m2 \in [W -> Nat]
       /\ next # 0 => m2[next] = prev
       /\ \A w \in W : (next # 0 => w # next) => m2[w] = m1[w]
  <2>1. CASE next = 0
    BY <2>1, <1>9
  <2>2. CASE next # 0
    <3>1. next \in W /\ prev \in Nat
      BY <2>2, <1>5, <1>8, <1>b
    <3>2. m2 = [m1 EXCEPT ![next] = prev]
      BY <2>2
    <3>. QED BY <2>2, <3>1, <3>2, <1>9
  <2>. QED BY <2>1, <2>2
<1> HIDE DEF m2
<1>11. \A c \in B : m2[c] = IF c = next THEN prev ELSE m[c]
  <2> TAKE c \in B
  <2>1. c \in W /\ (prev # 0 => c # prev + 8) /\ c # 0
    BY <1>4, <1>5, <1>8
  <2>. QED BY <2>1, <1>9, <1>10
<1>12. \A c \in B : m2[c + 8] = IF c = prev THEN next ELSE m[c + 8]
  <2> TAKE c \in B
  <2>1. c + 8 \in W /\ (next # 0 => c + 8 # next) /\ c # 0
    BY <1>4, <1>5, <1>8
  <2>2. prev # 0 /\ c # prev => c + 8 # prev + 8
    BY <1>4, <1>8
  <2>. QED BY <2>1, <2>2, <1>9, <1>10
<1>13. Tagged(m2, lo, hi, B, sz, al)
  <2>1. ASSUME NEW w \in W, m2[w] # m[w]
        PROVE  \E c \in B : c <= w /\ w < c + sz[c] - 16
    <3>1. (next # 0 /\ w = next) \/ (prev # 0 /\ w = prev + 8)
      BY <2>1, <1>9, <1>10
    <3>2. \A c \in B : c \in Nat /\ sz[c] \in Nat /\ sz[c] >= 32
      BY <1>1 DEF Laid
    <3>. QED BY <3>1, <3>2, <1>8
  <2>. QED BY <2>1, <1>1, <1>10, PayloadWrite DEF W
<1> HIDE DEF f2
<1>14. Linked(m2, f2, G, r2)
  <2>1. r2 \in [G -> Nat] /\ \A c \in G : r2[c] = r[c]
    BY <1>a
  <2> HIDE DEF r2
  <2>2. G \subseteq F /\ G \subseteq B /\ b \notin G
    BY <1>1
  <2>3. ASSUME NEW c \in G
        PROVE  m2[c] \in G \cup {0} /\ m2[c + 8] \in G \cup {0} /\ (m2[c] = 0 <=> c = f2)
    <3>1. m2[c] \in G \cup {0}
      <4>1. CASE c = next
        BY <4>1, <2>2, <1>7, <1>8, <1>11
      <4>2. CASE c # next
        <5>1. m2[c] = m[c] /\ m[c] \in F \cup {0}
          BY <4>2, <2>2, <1>a, <1>11
        <5>2. m[c] # b
          BY <4>2, <2>2, <1>a, <1>8 DEF next
        <5>. QED BY <5>1, <5>2
      <4>. QED BY <4>1, <4>2
    <3>2. m2[c + 8] \in G \cup {0}
      <4>1. CASE c = prev
        BY <4>1, <2>2, <1>7, <1>8, <1>12
      <4>2. CASE c # prev
        <5>1. m2[c + 8] = m[c + 8] /\ m[c + 8] \in F \cup {0}
          BY <4>2, <2>2, <1>a, <1>12
        <5>2. m[c + 8] # b
          BY <4>2, <2>2, <1>a, <1>8 DEF prev
        <5>. QED BY <5>1, <5>2
      <4>. QED BY <4>1, <4>2
    <3>3. m2[c] = 0 <=> c = f2
      <4>1. c # 0 /\ c \in F /\ (m[c] = 0 <=> c = fl)
        BY <2>2, <1>4, <1>a
      <4>2. CASE c = next
        BY <4>1, <4>2, <2>2, <1>7, <1>8, <1>11 DEF f2
      <4>3. CASE c # next
        BY <4>1, <4>3, <2>2, <1>7, <1>11 DEF f2
      <4>. QED BY <4>2, <4>3
    <3>. QED BY <3>1, <3>2, <3>3
  <2>4. ASSUME NEW c \in G, m2[c] # 0
        PROVE  m2[m2[c] + 8] = c /\ r2[m2[c]] < r2[c]
    <3>0. m2[c] \in G /\ m2[c] \in B /\ c \in B /\ c \in F /\ m2[c] \in F
      BY <2>2, <2>3, <2>4
    <3>1. CASE c = next
      <4>1. m2[c] = prev /\ prev # 0 /\ c # 0
        BY <3>0, <3>1, <2>4, <1>4, <1>11
      <4>2. r[prev] < r[b] /\ r[b] < r[c] /\ r[prev] \in Nat /\ r[b] \in Nat /\ r[c] \in Nat
        BY <3>0, <3>1, <4>1, <1>7, <1>a
      <4>3. m2[prev + 8] = c
        BY <3>0, <3>1, <4>1, <1>12
      <4>. QED BY <3>0, <4>1, <4>2, <4>3, <2>1
    <3>2. CASE c # next
      <4>1. m2[c] = m[c]
        BY <3>0, <3>2, <1>11
      <4>2. m[m[c] + 8] = c /\ r[m[c]] < r[c]
        BY <3>0, <4>1, <2>4, <1>a
      <4>3. m[c] # prev
        <5>1. prev # 0 => m[prev + 8] = b
          BY <1>7
        <5>. QED BY <5>1, <4>1, <4>2, <2>4, <2>2
      <4>4. m2[m[c] + 8] = m[m[c] + 8]
        BY <3>0, <4>1, <4>3, <1>12
      <4>. QED BY <3>0, <4>1, <4>2, <4>4, <2>1
    <3>. QED BY <3>1, <3>2
  <2>5. ASSUME NEW c \in G, m2[c + 8] # 0
        PROVE  m2[m2[c + 8]] = c /\ r2[c] < r2[m2[c + 8]]
    <3>0. m2[c + 8] \in G /\ m2[c + 8] \in B /\ c \in B /\ c \in F /\ m2[c + 8] \in F
      BY <2>2, <2>3, <2>5
    <3>1. CASE c = prev
      <4>1. m2[c + 8] = next /\ next # 0 /\ c # 0
        BY <3>0, <3>1, <2>5, <1>4, <1>12
      <4>2. r[c] < r[b] /\ r[b] < r[next] /\ r[next] \in Nat /\ r[b] \in Nat /\ r[c] \in Nat
        BY <3>0, <3>1, <4>1, <1>7, <1>a
      <4>3. m2[next] = c
        BY <3>0, <3>1, <4>1, <1>11
      <4>. QED BY <3>0, <4>1, <4>2, <4>3, <2>1
    <3>2. CASE c # prev
      <4>1. m2[c + 8] = m[c + 8]
        BY <3>0, <3>2, <1>12
      <4>2. m[m[c + 8]] = c /\ r[c] < r[m[c + 8]]
        BY <3>0, <4>1, <2>5, <1>a
      <4>3. m[c + 8] # next
        <5>1. next # 0 => m[next] = b
          BY <1>7
        <5>. QED BY <5>1, <4>1, <4>2, <2>5, <2>2
      <4>4. m2[m[c + 8]] = m[m[c + 8]]
        BY <3>0, <4>1, <4>3, <1>11
      <4>. QED BY <3>0, <4>1, <4>2, <4>4, <2>1
    <3>. QED BY <3>1, <3>2
  <2>6. f2 \in G \cup {0}
    BY <1>7, <1>8, <1>a DEF f2
  <2>. QED BY <2>1, <2>3, <2>4, <2>5, <2>6 DEF Linked
<1>. QED
  BY <1>1, <1>3, <1>13, <1>14 DEF State

\* The list's words are no block's tags: neither the header below a payload e
\* or the end nor the footer of the block that ends there.
LEMMA NodesOffTags ==
  ASSUME NEW lo, NEW hi, NEW B, NEW sz, Laid(lo, hi, B, sz),
         NEW e, e = hi \/ e \in B, NEW c \in B
  PROVE  c # e - 8 /\ c # e - 16 /\ c + 8 # e - 8 /\ c + 8 # e - 16
<1>1. /\ c \in Nat /\ sz[c] \in Nat /\ A16(c) /\ sz[c] >= 32
      /\ e \in Nat /\ A16(e)
  BY DEF Laid
<1>2. c < e => c + sz[c] <= e
  BY DEF Laid
<1>3. c < e => c + 32 <= e
  BY <1>1, <1>2
<1>4. c # e - 8 /\ c + 8 # e - 16
  BY <1>1 DEF A16
<1>. QED
  BY <1>1, <1>3, <1>4

\* The tags of b written for the distance to e.
LEMMA AbsorbState ==
  ASSUME NEW h, NEW lo, NEW hi, NEW B, NEW sz, NEW al, NEW F,
         State(h, lo, hi, B, sz, al, F),
         NEW b \in B, NEW e, e = hi \/ e \in B, b < e, NEW a \in {0, 1},
         F \subseteq Absorbed(B, b, e)
  PROVE  State(Tag(h, b, e - b, a), lo, hi, Absorbed(B, b, e),
               AbsorbedSize(B, sz, b, e), AbsorbedAlloc(B, al, b, e, a), F)
<1> DEFINE m == h.mem
           m2 == [m EXCEPT ![b - 8] = e - b + a, ![e - 16] = e - b + a]
<1>1. Laid(lo, hi, B, sz) /\ Tagged(m, lo, hi, B, sz, al) /\ F \subseteq B
  BY DEF State
<1>2. PICK r : Linked(m, h.freeList, F, r)
  BY DEF State
<1>3. b \in Nat /\ e \in Nat
  BY <1>1 DEF Laid
<1>4. b + (e - b) - 16 = e - 16
  BY <1>3
<1>5. Tag(h, b, e - b, a).mem = m2 /\ Tag(h, b, e - b, a).freeList = h.freeList
  BY <1>4 DEF Tag, PACK, HDRP, WSIZE, DSIZE
<1>6. Tagged(m2, lo, hi, Absorbed(B, b, e), AbsorbedSize(B, sz, b, e),
             AbsorbedAlloc(B, al, b, e, a))
  BY <1>1, AbsorbTagged
<1>7. Laid(lo, hi, Absorbed(B, b, e), AbsorbedSize(B, sz, b, e))
  BY <1>1, AbsorbLaid
<1>8. \A c \in F : m2[c] = m[c] /\ m2[c + 8] = m[c + 8]
  <2> TAKE c \in F
  <2>1. c # b - 8 /\ c + 8 # b - 8
    BY <1>1, NodesOffTags
  <2>2. c # e - 16 /\ c + 8 # e - 16
    BY <1>1, NodesOffTags
  <2>3. c \in DOMAIN m /\ c + 8 \in DOMAIN m
    BY <1>1, WordsOf DEF Tagged
  <2>. QED BY <2>1, <2>2, <2>3
<1> HIDE DEF m, m2
<1>9. Linked(m2, h.freeList, F, r)
  BY <1>2, <1>8, LinkedFrame DEF m
<1>. QED
  BY <1>5, <1>6, <1>7, <1>9 DEF State

\* The tags of b written for n bytes, those of the rest for what is left.
LEMMA SplitState ==
  ASSUME NEW h, NEW lo, NEW hi, NEW B, NEW sz, NEW al, NEW F,
         State(h, lo, hi, B, sz, al, F),
         NEW b \in B, NEW n \in Nat, A16(n), n >= 32, sz[b] - n >= 32,
         NEW a \in {0, 1}, NEW r \in {0, 1}
  PROVE  /\ State(Tag(Tag(h, b, n, a), b + n, sz[b] - n, r), lo, hi, Split(B, b, n),
                  SplitSize(B, sz, b, n), SplitAlloc(B, al, b, n, a, r), F)
         /\ b + n \notin B
<1> DEFINE m == h.mem
           m2 == [[m EXCEPT ![b - 8] = n + a, ![b + n - 16] = n + a]
                    EXCEPT ![b + n - 8] = sz[b] - n + r,
                           ![b + sz[b] - 16] = sz[b] - n + r]
           t == Tag(Tag(h, b, n, a), b + n, sz[b] - n, r)
           B1 == Split(B, b, n)
           s1 == SplitSize(B, sz, b, n)
<1>1. Laid(lo, hi, B, sz) /\ Tagged(m, lo, hi, B, sz, al) /\ F \subseteq B
  BY DEF State
<1>2. PICK k : Linked(m, h.freeList, F, k)
  BY DEF State
<1>3. b \in Nat /\ sz[b] \in Nat
  BY <1>1 DEF Laid
<1>4. b + n + (sz[b] - n) - 16 = b + sz[b] - 16
  BY <1>3
<1>5. t.mem = m2 /\ t.freeList = h.freeList
  <2> DEFINE u == Tag(h, b, n, a)
  <2>1. /\ u.mem = [m EXCEPT ![b - 8] = n + a, ![b + n - 16] = n + a]
        /\ u.freeList = h.freeList
    BY DEF Tag, PACK, HDRP, WSIZE, DSIZE
  <2> HIDE DEF u, m
  <2>2. /\ Tag(u, b + n, sz[b] - n, r).mem =
               [u.mem EXCEPT ![b + n - 8] = sz[b] - n + r, ![b + sz[b] - 16] = sz[b] - n + r]
        /\ Tag(u, b + n, sz[b] - n, r).freeList = u.freeList
    <3>1. DSIZE = 16 /\ WSIZE = 8
      BY DEF DSIZE, WSIZE
    <3>2. (b + n) + (sz[b] - n) - DSIZE = b + sz[b] - 16 /\ (b + n) - WSIZE = b + n - 8
      BY <3>1, <1>3
    <3>3. Tag(u, b + n, sz[b] - n, r) =
            [mem |-> [u.mem EXCEPT ![(b + n) - WSIZE] = sz[b] - n + r,
                                   ![(b + n) + (sz[b] - n) - DSIZE] = sz[b] - n + r],
             freeList |-> u.freeList]
      BY Zenon DEF Tag, PACK, HDRP
    <3>4. Tag(u, b + n, sz[b] - n, r) =
            [mem |-> [u.mem EXCEPT ![b + n - 8] = sz[b] - n + r,
                                   ![b + sz[b] - 16] = sz[b] - n + r],
             freeList |-> u.freeList]
      BY <3>2, <3>3, Zenon
    <3>. QED BY <3>4
  <2>. QED BY <2>1, <2>2 DEF u
<1>6. Tagged(m2, lo, hi, B1, s1, SplitAlloc(B, al, b, n, a, r))
  BY <1>1, SplitTagged
<1>7. Laid(lo, hi, B1, s1) /\ b + n \notin B
  BY <1>1, SplitLaid
<1>8. \A c \in F : m2[c] = m[c] /\ m2[c + 8] = m[c + 8]
  <2> TAKE c \in F
  <2>0. c \in B1 /\ b \in B1 /\ b + n \in B1 /\ c \in B
    BY <1>1 DEF Split
  <2>a. b + sz[b] = hi \/ b + sz[b] \in B
    BY <1>1 DEF Laid
  <2> HIDE DEF B1, s1
  <2>1. c # b - 8 /\ c + 8 # b - 8
    BY <2>0, <1>7, NodesOffTags
  <2>b. \A e \in B1 : c # e - 8 /\ c # e - 16 /\ c + 8 # e - 8 /\ c + 8 # e - 16
    BY <2>0, <1>7, NodesOffTags
  <2>c. \A e \in B \cup {hi} : c # e - 16 /\ c + 8 # e - 16
    BY <2>0, <1>1, NodesOffTags
  <2>2. c # b + n - 16 /\ c + 8 # b + n - 16 /\ c # b + n - 8 /\ c + 8 # b + n - 8
    BY <2>0, <2>b, <1>3
  <2>3. c # b + sz[b] - 16 /\ c + 8 # b + sz[b] - 16
    <3>1. b + sz[b] \in B \cup {hi}
      BY <2>a
    <3>. QED BY <3>1, <2>c, <1>3
  <2>4. c \in DOMAIN m /\ c + 8 \in DOMAIN m
    BY <1>1, WordsOf DEF Tagged
  <2>. QED BY <2>1, <2>2, <2>3, <2>4
<1> HIDE DEF m, m2
<1>9. Linked(m2, h.freeList, F, k)
  BY <1>2, <1>8, LinkedFrame DEF m
<1> HIDE DEF t, B1, s1
<1>10. F \subseteq B1
  BY <1>1 DEF B1, Split
<1>11. State(t, lo, hi, B1, s1, SplitAlloc(B, al, b, n, a, r), F)
  BY <1>5, <1>6, <1>7, <1>9, <1>10 DEF State
<1>. QED
  BY <1>7, <1>11 DEF t, B1, s1

-----------------------------------------------------------------------------
(* What the callers' words are spared.  A block of K bytes has K - 16 for  *)
(* its owner: from g to h no owner's word changes.                         *)

Spares(g, h, K) ==
  /\ DOMAIN h.mem = DOMAIN g.mem
  /\ \A p \in DOMAIN K : \A a \in DOMAIN g.mem :
       p <= a /\ a < p + K[p] - 16 => h.mem[a] = g.mem[a]

\* K gives blocks of the layout no more bytes than they have.
Within(K, B, sz) == \A p \in DOMAIN K : p \in B /\ K[p] \in Nat /\ K[p] <= sz[p]

LEMMA SparesTwice ==
  ASSUME NEW f, NEW g, NEW h, NEW K, Spares(f, g, K), Spares(g, h, K)
  PROVE  Spares(f, h, K)
BY DEF Spares

\* Fewer blocks, or fewer of their words, are spared too.
LEMMA SparesFewer ==
  ASSUME NEW g, NEW h, NEW K, Spares(g, h, K), DOMAIN g.mem \subseteq Nat,
         NEW K1, \A p \in DOMAIN K1 : /\ p \in DOMAIN K /\ p \in Nat
                                      /\ K1[p] \in Nat /\ K[p] \in Nat /\ K1[p] <= K[p]
  PROVE  Spares(g, h, K1)
<1> SUFFICES ASSUME NEW p \in DOMAIN K1, NEW a \in DOMAIN g.mem, p <= a, a < p + K1[p] - 16
             PROVE  h.mem[a] = g.mem[a]
  BY DEF Spares
<1>1. p \in DOMAIN K /\ a \in Nat /\ a < p + K[p] - 16
  OBVIOUS
<1>. QED
  BY <1>1 DEF Spares

\* An owner's word is no tag and no pointer of another block.
LEMMA UserWords ==
  ASSUME NEW lo, NEW hi, NEW B, NEW sz, Laid(lo, hi, B, sz),
         NEW p \in B, NEW a \in Nat, p <= a, a < p + sz[p] - 16
  PROVE  /\ \A c \in B : c # p => a # c /\ a # c + 8
         /\ \A e \in B \cup {hi} : a # e - 8 /\ a # e - 16
<1>1. /\ \A c \in B : c \in Nat /\ sz[c] \in Nat /\ sz[c] >= 32 /\ c + sz[c] <= hi
      /\ \A c, d \in B : c < d => c + sz[c] <= d
      /\ hi \in Nat
  BY DEF Laid
<1>2. ASSUME NEW c \in B, c # p
      PROVE  a # c /\ a # c + 8
  <2>1. CASE c < p
    BY <2>1, <1>1
  <2>2. CASE p < c
    BY <2>2, <1>1
  <2>. QED BY <2>1, <2>2, <1>1, <1>2
<1>3. ASSUME NEW e \in B \cup {hi}
      PROVE  a # e - 8 /\ a # e - 16
  <2>1. e \in Nat /\ p \in Nat /\ sz[p] \in Nat
    BY <1>1
  <2>2. e <= p \/ p + sz[p] <= e
    BY <1>1
  <2>. QED BY <2>1, <2>2
<1>. QED
  BY <1>2, <1>3

\* Listing a block writes its two first payload words and the old head's.
LEMMA InsertSpares ==
  ASSUME NEW h, NEW lo, NEW hi, NEW B, NEW sz, NEW al, NEW F,
         State(h, lo, hi, B, sz, al, F), NEW b \in B,
         NEW K, Within(K, B, sz), \A p \in DOMAIN K : p \notin F /\ p # b
  PROVE  Spares(h, listInsert(h, b), K)
<1> DEFINE g == listInsert(h, b)
           fl == h.freeList
<1>1. Laid(lo, hi, B, sz) /\ h.mem \in [Words(lo, hi) -> Nat] /\ fl \in F \cup {0} /\ F \subseteq B
  BY DEF State, Tagged, Linked
<1>2. DOMAIN g.mem = DOMAIN h.mem
  BY DEF listInsert
<1>3. \A a \in DOMAIN h.mem :
        a # b /\ a # b + 8 /\ (fl # 0 => a # fl) => g.mem[a] = h.mem[a]
  BY DEF listInsert, NULL, WSIZE
<1> HIDE DEF g, fl
<1>4. ASSUME NEW p \in DOMAIN K, NEW a \in DOMAIN h.mem, p <= a, a < p + K[p] - 16
      PROVE  g.mem[a] = h.mem[a]
  <2>1. p \in B /\ K[p] \in Nat /\ K[p] <= sz[p] /\ p \notin F /\ p # b
    BY DEF Within
  <2>2. a \in Nat /\ a < p + sz[p] - 16
    <3>1. a \in Nat /\ p \in Nat /\ sz[p] \in Nat
      BY <1>1, <2>1 DEF Words, Laid
    <3>. QED BY <3>1, <2>1, <1>4
  <2>3. \A c \in B : c # p => a # c /\ a # c + 8
    BY <1>1, <1>4, <2>1, <2>2, UserWords
  <2>4. fl # 0 => fl \in B /\ fl # p
    BY <1>1, <2>1
  <2>. QED BY <1>3, <2>1, <2>3, <2>4
<1>. QED
  BY <1>2, <1>4 DEF Spares, g

\* Unlisting a block writes its neighbours in the list.
LEMMA RemoveSpares ==
  ASSUME NEW h, NEW lo, NEW hi, NEW B, NEW sz, NEW al, NEW F,
         State(h, lo, hi, B, sz, al, F), NEW b \in F,
         NEW K, Within(K, B, sz), \A p \in DOMAIN K : p \notin F
  PROVE  Spares(h, listRemove(h, b), K)
<1> DEFINE g == listRemove(h, b)
           prev == h.mem[b]
           next == h.mem[b + 8]
<1>1. /\ Laid(lo, hi, B, sz) /\ h.mem \in [Words(lo, hi) -> Nat] /\ F \subseteq B
      /\ prev \in F \cup {0} /\ next \in F \cup {0}
  BY DEF State, Tagged, Linked
<1>2. DOMAIN g.mem = DOMAIN h.mem
  BY DEF listRemove
<1>3. \A a \in DOMAIN h.mem :
        (prev # 0 => a # prev + 8) /\ (next # 0 => a # next) => g.mem[a] = h.mem[a]
  BY DEF listRemove, NULL, WSIZE, PrevNode, NextNode
<1> HIDE DEF g, prev, next
<1>4. ASSUME NEW p \in DOMAIN K, NEW a \in DOMAIN h.mem, p <= a, a < p + K[p] - 16
      PROVE  g.mem[a] = h.mem[a]
  <2>1. p \in B /\ K[p] \in Nat /\ K[p] <= sz[p] /\ p \notin F
    BY DEF Within
  <2>2. a \in Nat /\ a < p + sz[p] - 16
    <3>1. a \in Nat /\ p \in Nat /\ sz[p] \in Nat
      BY <1>1, <2>1 DEF Words, Laid
    <3>. QED BY <3>1, <2>1, <1>4
  <2>3. \A c \in B : c # p => a # c /\ a # c + 8
    BY <1>1, <1>4, <2>1, <2>2, UserWords
  <2>. QED BY <1>1, <1>3, <2>1, <2>3
<1>. QED
  BY <1>2, <1>4 DEF Spares, g

\* Tags written between blocks of the layout, or at its end, are no owner's.
LEMMA TagSpares ==
  ASSUME NEW h, NEW lo, NEW hi, NEW B, NEW sz, Laid(lo, hi, B, sz),
         h.mem \in [Words(lo, hi) -> Nat],
         NEW b \in B, NEW s \in Nat, b + s \in B \cup {hi}, NEW a \in {0, 1},
         NEW K, Within(K, B, sz)
  PROVE  Spares(h, Tag(h, b, s, a), K)
<1> DEFINE g == Tag(h, b, s, a)
<1>1. DOMAIN g.mem = DOMAIN h.mem
  BY DEF Tag
<1>2. \A x \in DOMAIN h.mem : x # b - 8 /\ x # b + s - 16 => g.mem[x] = h.mem[x]
  BY DEF Tag, HDRP, WSIZE, DSIZE
<1> HIDE DEF g
<1>3. ASSUME NEW p \in DOMAIN K, NEW x \in DOMAIN h.mem, p <= x, x < p + K[p] - 16
      PROVE  g.mem[x] = h.mem[x]
  <2>1. p \in B /\ K[p] \in Nat /\ K[p] <= sz[p]
    BY DEF Within
  <2>2. x \in Nat /\ x < p + sz[p] - 16
    <3>1. x \in Nat /\ p \in Nat /\ sz[p] \in Nat
      BY <2>1 DEF Words, Laid
    <3>. QED BY <3>1, <2>1, <1>3
  <2>3. \A e \in B \cup {hi} : x # e - 8 /\ x # e - 16
    BY <1>3, <2>1, <2>2, UserWords
  <2>4. x # b - 8 /\ x # b + s - 16
    <3> DEFINE e == b + s
    <3>1. e \in B \cup {hi}
      OBVIOUS
    <3> HIDE DEF e
    <3>2. x # e - 16
      BY <2>3, <3>1
    <3>3. x # b + s - 16
      <4>1. b \in Nat /\ x \in Nat
        BY <2>2 DEF Laid
      <4>2. b + (s - 16) = e - 16
        BY <4>1 DEF e
      <4>. QED BY <3>2, <4>2
    <3>4. x # b - 8
      BY <2>3
    <3>. QED BY <3>3, <3>4
  <2>. QED BY <1>2, <2>4
<1>. QED
  BY <1>1, <1>3 DEF Spares, g

\* Both tags of a block cut in two fall between the blocks it becomes.
LEMMA SplitSpares ==
  ASSUME NEW h, NEW lo, NEW hi, NEW B, NEW sz, Laid(lo, hi, B, sz),
         h.mem \in [Words(lo, hi) -> Nat],
         NEW b \in B, NEW n \in Nat, A16(n), n >= 32, sz[b] - n >= 32,
         NEW a \in {0, 1}, NEW r \in {0, 1},
         NEW K, Within(K, Split(B, b, n), SplitSize(B, sz, b, n))
  PROVE  Spares(h, Tag(Tag(h, b, n, a), b + n, sz[b] - n, r), K)
<1> DEFINE B1 == Split(B, b, n)
           s1 == SplitSize(B, sz, b, n)
           g == Tag(h, b, n, a)
<1>1. Laid(lo, hi, B1, s1)
  BY SplitLaid
<1>2. b \in B1 /\ b + n \in B1 /\ B \subseteq B1
  BY DEF Split
<1>3. b + n + (sz[b] - n) = b + sz[b] /\ sz[b] - n \in Nat /\ b + sz[b] \in B \cup {hi}
  <2>1. b \in Nat /\ sz[b] \in Nat /\ (b + sz[b] = hi \/ b + sz[b] \in B)
    BY DEF Laid
  <2>. QED BY <2>1
<1>a. Within(K, B1, s1)
  OBVIOUS
<1> HIDE DEF B1, s1
<1>4. Spares(h, g, K)
  BY <1>1, <1>2, <1>a, TagSpares
<1>5. g.mem \in [Words(lo, hi) -> Nat]
  <2>1. g.mem = [h.mem EXCEPT ![b - 8] = n + a, ![b + n - 16] = n + a]
    BY DEF Tag, HDRP, PACK, WSIZE, DSIZE
  <2>2. n + a \in Nat
    OBVIOUS
  <2>. QED BY <2>1, <2>2
<1> HIDE DEF g
<1>6. Spares(g, Tag(g, b + n, sz[b] - n, r), K)
  BY <1>1, <1>2, <1>3, <1>5, <1>a, TagSpares
<1>. QED
  BY <1>4, <1>6, SparesTwice DEF g

-----------------------------------------------------------------------------
(* A heap between calls: every free block is listed, no two are neighbours,*)
(* and the others are K, the blocks handed out with their sizes.           *)

FreeOf(B, al) == {b \in B : al[b] = 0}
HeldOf(B, al) == {b \in B : al[b] = 1}

Good(h, lo, hi, B, sz, al) ==
  /\ State(h, lo, hi, B, sz, al, FreeOf(B, al))
  /\ \A b \in B : al[b] = 0 /\ b + sz[b] \in B => al[b + sz[b]] = 1

Sound(h, lo, hi, K) ==
  \E B, sz, al : /\ Good(h, lo, hi, B, sz, al)
                 /\ K = [b \in HeldOf(B, al) |-> sz[b]]

\* What a block's tags tell about it and about the blocks beside it.
LEMMA Neighbours ==
  ASSUME NEW m, NEW lo, NEW hi, NEW B, NEW sz, NEW al,
         Laid(lo, hi, B, sz), Tagged(m, lo, hi, B, sz, al), NEW b \in B
  PROVE  /\ SizeOf(m, HDRP(b)) = sz[b] /\ AllocOf(m, HDRP(b)) = al[b]
         /\ NEXT_BLKP(m, b) = b + sz[b]
         /\ FTRP(m, b) = b + sz[b] - 16
         /\ AllocOf(m, FTRP(m, b)) = al[b]
         /\ AllocOf(m, HDRP(b + sz[b])) = IF b + sz[b] = hi THEN 1 ELSE al[b + sz[b]]
         /\ b = lo => AllocOf(m, FTRP(m, PREV_BLKP(m, b))) = 1
         /\ \A c \in B : c + sz[c] = b => PREV_BLKP(m, b) = c
<1>1. /\ \A c \in B : SizeOf(m, c - 8) = sz[c] /\ AllocOf(m, c - 8) = al[c]
      /\ \A c \in B : /\ SizeOf(m, c + sz[c] - 16) = sz[c]
                      /\ AllocOf(m, c + sz[c] - 16) = al[c]
      /\ SizeOf(m, lo - 16) = 16 /\ SizeOf(m, lo - 24) = 16 /\ AllocOf(m, lo - 16) = 1
      /\ AllocOf(m, hi - 8) = 1
  BY Reads
<1>2. /\ \A c \in B : c \in Nat /\ sz[c] \in Nat
      /\ lo \in Nat /\ hi \in Nat
      /\ b + sz[b] = hi \/ b + sz[b] \in B
  BY DEF Laid
<1>3. WSIZE = 8 /\ DSIZE = 16
  BY DEF WSIZE, DSIZE
<1>4. SizeOf(m, HDRP(b)) = sz[b] /\ AllocOf(m, HDRP(b)) = al[b]
  BY <1>1, <1>3 DEF HDRP
<1>5. NEXT_BLKP(m, b) = b + sz[b] /\ FTRP(m, b) = b + sz[b] - 16
  BY <1>2, <1>3, <1>4 DEF NEXT_BLKP, FTRP
<1>6. AllocOf(m, FTRP(m, b)) = al[b]
  BY <1>1, <1>5
<1>7. AllocOf(m, HDRP(b + sz[b])) = IF b + sz[b] = hi THEN 1 ELSE al[b + sz[b]]
  <2> DEFINE e == b + sz[b]
  <2>1. e \in B \cup {hi}
    BY <1>2
  <2> HIDE DEF e
  <2>2. AllocOf(m, HDRP(e)) = IF e = hi THEN 1 ELSE al[e]
    BY <2>1, <1>1, <1>3 DEF HDRP
  <2>. QED BY <2>2 DEF e
<1>8. ASSUME b = lo
      PROVE  AllocOf(m, FTRP(m, PREV_BLKP(m, b))) = 1
  <2>1. PREV_BLKP(m, b) = lo - 16
    BY <1>8, <1>1, <1>3 DEF PREV_BLKP
  <2>2. (lo - 16) - 8 = lo - 24 /\ (lo - 16) + 16 - 16 = lo - 16
    BY <1>2
  <2>3. FTRP(m, lo - 16) = lo - 16
    BY <2>2, <1>1, <1>3 DEF FTRP, HDRP
  <2>. QED BY <2>1, <2>3, <1>1
<1>9. ASSUME NEW c \in B, c + sz[c] = b
      PROVE  PREV_BLKP(m, b) = c
  <2>1. b - 16 = c + sz[c] - 16 /\ b - sz[c] = c
    BY <1>9, <1>2
  <2>2. SizeOf(m, b - 16) = sz[c]
    BY <2>1, <1>1
  <2>. QED BY <2>1, <2>2, <1>3 DEF PREV_BLKP
<1>. QED
  BY <1>4, <1>5, <1>6, <1>7, <1>8, <1>9

\* Setting a block's allocated bit, the size unchanged.
LEMMA RetagState ==
  ASSUME NEW h, NEW lo, NEW hi, NEW B, NEW sz, NEW al, NEW F,
         State(h, lo, hi, B, sz, al, F), NEW b \in B, NEW a \in {0, 1}
  PROVE  State(Tag(h, b, sz[b], a), lo, hi, B, sz, [al EXCEPT ![b] = a], F)
<1> DEFINE e == b + sz[b]
<1>1. /\ \A c \in B : c \in Nat /\ sz[c] \in Nat /\ sz[c] >= 32
      /\ e = hi \/ e \in B
      /\ \A c, d \in B : c < d => c + sz[c] <= d
      /\ sz \in [B -> Nat] /\ F \subseteq B
  BY DEF State, Laid
<1>2. al \in [B -> {0, 1}]
  BY DEF State, Tagged
<1>3. b < e /\ e - b = sz[b]
  BY <1>1
<1>4. Absorbed(B, b, e) = B
  BY <1>1, <1>3 DEF Absorbed
<1> HIDE DEF e
<1>5. AbsorbedSize(B, sz, b, e) = sz
  BY <1>1, <1>3, <1>4 DEF AbsorbedSize
<1>6. AbsorbedAlloc(B, al, b, e, a) = [al EXCEPT ![b] = a]
  BY <1>2, <1>4 DEF AbsorbedAlloc
<1>7. State(Tag(h, b, e - b, a), lo, hi, Absorbed(B, b, e),
            AbsorbedSize(B, sz, b, e), AbsorbedAlloc(B, al, b, e, a), F)
  BY <1>1, <1>3, <1>4, AbsorbState
<1>. QED
  BY <1>3, <1>4, <1>5, <1>6, <1>7

\* Making one free block of the free blocks from b to e, none of them listed,
\* whose neighbours are allocated.
LEMMA MergeGood ==
  ASSUME NEW h, NEW lo, NEW hi, NEW B, NEW sz, NEW al,
         NEW b \in B, NEW e, e = hi \/ e \in B, b < e,
         State(h, lo, hi, B, sz, al, {c \in B : al[c] = 0 /\ (c < b \/ c >= e)}),
         \A c \in B : b <= c /\ c < e => al[c] = 0,
         e \in B => al[e] = 1,
         \A c \in B : c + sz[c] = b => al[c] = 1,
         \A c \in B : al[c] = 0 /\ (c < b \/ c >= e) /\ c + sz[c] \in B => al[c + sz[c]] = 1
  PROVE  /\ Sound(listInsert(Tag(h, b, e - b, 0), b), lo, hi,
                  [c \in HeldOf(B, al) |-> sz[c]])
         /\ Spares(h, listInsert(Tag(h, b, e - b, 0), b), [c \in HeldOf(B, al) |-> sz[c]])
<1> DEFINE F == {c \in B : al[c] = 0 /\ (c < b \/ c >= e)}
           B1 == Absorbed(B, b, e)
           s1 == AbsorbedSize(B, sz, b, e)
           a1 == AbsorbedAlloc(B, al, b, e, 0)
           h1 == Tag(h, b, e - b, 0)
           h2 == listInsert(h1, b)
           K == [c \in HeldOf(B, al) |-> sz[c]]
<1>0. /\ \A c \in B : c \in Nat /\ sz[c] \in Nat
      /\ e \in Nat
      /\ al \in [B -> {0, 1}] /\ sz \in [B -> Nat]
  BY DEF State, Laid, Tagged
<1>1. b \in B1 /\ B1 \subseteq B /\ \A c \in B1 : c = b \/ c < b \/ c >= e
  BY <1>0 DEF Absorbed
<1>2. /\ s1[b] = e - b /\ a1[b] = 0
      /\ \A c \in B1 : c # b => s1[c] = sz[c] /\ a1[c] = al[c]
  BY <1>1 DEF AbsorbedSize, AbsorbedAlloc
<1>3. \A c \in B : c < b \/ c >= e => c \in B1
  BY <1>0 DEF Absorbed
<1>4. State(h1, lo, hi, B1, s1, a1, F)
  <2>1. F \subseteq B1
    BY <1>3
  <2> HIDE DEF B1
  <2>. QED BY <2>1, AbsorbState DEF B1
<1>8. Spares(h, h1, K)
  <2>1. b + (e - b) \in B \cup {hi} /\ e - b \in Nat
    BY <1>0
  <2>2. Within(K, B, sz)
    BY <1>0 DEF HeldOf, Within
  <2>3. Laid(lo, hi, B, sz) /\ h.mem \in [Words(lo, hi) -> Nat]
    BY DEF State, Tagged
  <2> HIDE DEF K
  <2>. QED BY <2>1, <2>2, <2>3, TagSpares
<1>9. Within(K, B1, s1) /\ \A c \in DOMAIN K : c \notin F /\ c # b
  <2>1. ASSUME NEW c \in HeldOf(B, al)
        PROVE  c \in B1 /\ sz[c] \in Nat /\ s1[c] = sz[c] /\ c \notin F /\ c # b
    <3>1. c \in B /\ al[c] = 1
      BY DEF HeldOf
    <3>2. c # b /\ (c < b \/ c >= e)
      BY <3>1, <1>0
    <3>. QED BY <3>1, <3>2, <1>0, <1>2, <1>3
  <2>. QED BY <2>1 DEF Within
<1> HIDE DEF B1, s1, a1, h1
<1>10. Spares(h, h2, K)
  <2> HIDE DEF K, F
  <2>1. Spares(h1, h2, K)
    BY <1>1, <1>4, <1>9, InsertSpares
  <2> HIDE DEF h2
  <2>. QED BY <2>1, <1>8, SparesTwice
<1>5. State(h2, lo, hi, B1, s1, a1, FreeOf(B1, a1))
  <2>1. FreeOf(B1, a1) = F \cup {b}
    BY <1>0, <1>1, <1>2, <1>3 DEF FreeOf
  <2>2. b \notin F
    BY <1>0
  <2> HIDE DEF F
  <2>. QED BY <2>1, <2>2, <1>1, <1>4, InsertState
<1>6. \A c \in B1 : a1[c] = 0 /\ c + s1[c] \in B1 => a1[c + s1[c]] = 1
  <2> SUFFICES ASSUME NEW c \in B1, a1[c] = 0, c + s1[c] \in B1
               PROVE  a1[c + s1[c]] = 1
    OBVIOUS
  <2>1. CASE c = b
    <3>1. c + s1[c] = e /\ e # b
      BY <2>1, <1>0, <1>2
    <3>. QED BY <3>1, <1>1, <1>2
  <2>2. CASE c # b
    <3>1. s1[c] = sz[c] /\ al[c] = 0 /\ c + sz[c] \in B /\ (c < b \/ c >= e)
      BY <2>2, <1>1, <1>2
    <3>2. al[c + sz[c]] = 1 /\ c + sz[c] # b
      BY <3>1, <1>1
    <3>. QED BY <3>1, <3>2, <1>2
  <2>. QED BY <2>1, <2>2
<1>7. [c \in HeldOf(B, al) |-> sz[c]] = [c \in HeldOf(B1, a1) |-> s1[c]]
  <2>1. HeldOf(B, al) = HeldOf(B1, a1)
    BY <1>0, <1>1, <1>2, <1>3 DEF HeldOf
  <2>2. \A c \in HeldOf(B1, a1) : s1[c] = sz[c]
    BY <1>2 DEF HeldOf
  <2>. QED BY <2>1, <2>2
<1> HIDE DEF h2
<1>. QED
  BY <1>5, <1>6, <1>7, <1>10 DEF Sound, Good, h2, h1

\* coalesce restores the heap from one free block, b, not yet listed nor merged.
LEMMA CoalesceSound ==
  ASSUME NEW h, NEW lo, NEW hi, NEW B, NEW sz, NEW al, NEW b \in B,
         State(h, lo, hi, B, sz, al, FreeOf(B, al) \ {b}), al[b] = 0,
         \A c \in B : al[c] = 0 /\ c # b /\ c + sz[c] \in B /\ c + sz[c] # b
                        => al[c + sz[c]] = 1
  PROVE  /\ Sound(coalesce(h, b), lo, hi, [c \in HeldOf(B, al) |-> sz[c]])
         /\ Spares(h, coalesce(h, b), [c \in HeldOf(B, al) |-> sz[c]])
<1> DEFINE m == h.mem
           next == b + sz[b]
           prev == PREV_BLKP(m, b)
           prevAlloc == AllocOf(m, FTRP(m, prev)) = 1
           nextAlloc == AllocOf(m, HDRP(next)) = 1
           K == [c \in HeldOf(B, al) |-> sz[c]]
           F == FreeOf(B, al) \ {b}
<1>1. Laid(lo, hi, B, sz) /\ Tagged(m, lo, hi, B, sz, al)
  BY DEF State
<1>2. /\ \A c \in B : c \in Nat /\ sz[c] \in Nat /\ sz[c] >= 32 /\ al[c] \in {0, 1}
      /\ \A c \in B : c + sz[c] = hi \/ c + sz[c] \in B
      /\ \A c \in B : c + sz[c] <= hi
      /\ \A c, d \in B : c < d => c + sz[c] <= d
      /\ b = lo \/ \E c \in B : c + sz[c] = b
      /\ hi \in Nat /\ hi \notin B /\ lo \in Nat
      /\ \A c \in B : c >= lo
  <2>1. hi \notin B
    <3>1. \A c \in B : c \in Nat /\ sz[c] \in Nat /\ sz[c] >= 32 /\ c + sz[c] <= hi
      BY <1>1 DEF Laid
    <3>. QED BY <3>1
  <2>. QED BY <2>1, <1>1 DEF Laid, Tagged
<1>3. /\ NEXT_BLKP(m, b) = next
      /\ SizeOf(m, HDRP(b)) = sz[b]
      /\ AllocOf(m, HDRP(next)) = IF next = hi THEN 1 ELSE al[next]
      /\ b = lo => AllocOf(m, FTRP(m, prev)) = 1
      /\ \A c \in B : c + sz[c] = b => prev = c
  BY <1>1, Neighbours
<1>4. \A c \in B : SizeOf(m, HDRP(c)) = sz[c] /\ AllocOf(m, FTRP(m, c)) = al[c]
  BY <1>1, Neighbours
<1>5. coalesce(h, b) =
        CASE prevAlloc /\ nextAlloc -> listInsert(h, b)
          [] prevAlloc /\ ~nextAlloc ->
               listInsert(Tag(listRemove(h, next), b, sz[b] + SizeOf(m, HDRP(next)), 0), b)
          [] ~prevAlloc /\ nextAlloc ->
               listInsert(Tag(listRemove(h, prev), prev, sz[b] + SizeOf(m, HDRP(prev)), 0), prev)
          [] ~prevAlloc /\ ~nextAlloc ->
               listInsert(Tag(listRemove(listRemove(h, prev), next), prev,
                              sz[b] + SizeOf(m, HDRP(prev)) + SizeOf(m, HDRP(next)), 0), prev)
  BY <1>3 DEF coalesce
<1> HIDE DEF m, prev, prevAlloc, nextAlloc
<1>6. b < next /\ next \in Nat /\ (next = hi \/ next \in B)
  BY <1>2
<1>7. nextAlloc => (next \in B => al[next] = 1)
  BY <1>2, <1>3 DEF nextAlloc
<1>8. ~nextAlloc => next \in B /\ al[next] = 0 /\ SizeOf(m, HDRP(next)) = sz[next]
  BY <1>2, <1>3, <1>4 DEF nextAlloc
<1>9. prevAlloc => \A c \in B : c + sz[c] = b => al[c] = 1
  BY <1>3, <1>4 DEF prevAlloc
<1>10. ~prevAlloc => prev \in B /\ prev + sz[prev] = b /\ al[prev] = 0
                     /\ SizeOf(m, HDRP(prev)) = sz[prev]
  <2> SUFFICES ASSUME ~prevAlloc
               PROVE  prev \in B /\ prev + sz[prev] = b /\ al[prev] = 0
                      /\ SizeOf(m, HDRP(prev)) = sz[prev]
    OBVIOUS
  <2>1. b # lo
    BY <1>3 DEF prevAlloc
  <2>2. PICK c \in B : c + sz[c] = b
    BY <1>2, <2>1
  <2>3. prev = c
    BY <1>3, <2>2
  <2>4. al[c] # 1
    BY <1>4, <2>3 DEF prevAlloc
  <2>. QED BY <1>2, <1>4, <2>2, <2>3, <2>4
<1>a. Within(K, B, sz) /\ \A c \in DOMAIN K : al[c] = 1
  BY <1>2 DEF Within, HeldOf
<1>b. b \notin DOMAIN K /\ \A c \in DOMAIN K : c \notin F
  BY <1>a DEF FreeOf
<1>c. State(h, lo, hi, B, sz, al, F)
  OBVIOUS
<1> HIDE DEF next
<1>11. \A c \in B : c > b => c >= next
  BY <1>2 DEF next
\* Once next is merged too, what follows it is allocated.
<1>12. ASSUME next \in B, al[next] = 0
       PROVE  /\ next + sz[next] = hi \/ next + sz[next] \in B
              /\ next + sz[next] \in Nat /\ next < next + sz[next]
              /\ next + sz[next] \in B => al[next + sz[next]] = 1
              /\ \A c \in B : c > next => c >= next + sz[next]
  <2>1. next + sz[next] # b /\ next # b
    BY <1>12, <1>2, <1>6
  <2>. QED BY <2>1, <1>12, <1>2
\* Once prev is merged too, what precedes it is allocated.
<1>13. ASSUME prev \in B, prev + sz[prev] = b, al[prev] = 0
       PROVE  /\ prev < b
              /\ \A c \in B : c + sz[c] = prev => al[c] = 1
              /\ \A c \in B : c > prev => c >= b
  <2>1. prev < b
    BY <1>13, <1>2
  <2>2. ASSUME NEW c \in B, c + sz[c] = prev
        PROVE  al[c] = 1
    <3>1. c # b /\ c + sz[c] # b
      BY <2>1, <2>2, <1>2
    <3>2. al[c] = 0 => al[prev] = 1
      BY <2>2, <3>1, <1>13
    <3>. QED BY <3>2, <1>2, <1>13
  <2>3. ASSUME NEW c \in B, c > prev
        PROVE  c >= b
    BY <2>3, <1>13, <1>2
  <2>. QED BY <2>1, <2>2, <2>3
\* Merging from b or prev up to e.
<1>14. ASSUME NEW s \in B, NEW e, e = hi \/ e \in B, s <= b, b < e, NEW g,
              State(g, lo, hi, B, sz, al, {c \in B : al[c] = 0 /\ (c < s \/ c >= e)}),
              \A c \in B : s <= c /\ c < e => al[c] = 0,
              e \in B => al[e] = 1,
              \A c \in B : c + sz[c] = s => al[c] = 1
       PROVE  /\ Sound(listInsert(Tag(g, s, e - s, 0), s), lo, hi, K)
              /\ Spares(g, listInsert(Tag(g, s, e - s, 0), s), K)
  <2>1. s < e
    BY <1>14, <1>2
  <2>2. ASSUME NEW c \in B, al[c] = 0, c < s \/ c >= e, c + sz[c] \in B
        PROVE  al[c + sz[c]] = 1
    <3>1. e \in Nat /\ s \in Nat /\ b \in Nat /\ c \in Nat /\ sz[c] \in Nat
      BY <1>2, <1>14
    <3>2. c # b
      BY <2>2, <3>1, <1>14
    <3>3. CASE c + sz[c] = b
      <4>1. c < s /\ c + sz[c] <= s
        BY <2>2, <3>1, <3>3, <1>2, <1>14
      <4>2. c + sz[c] = s
        BY <3>1, <3>3, <4>1, <1>14
      <4>. QED BY <4>2, <2>2, <1>14
    <3>4. CASE c + sz[c] # b
      BY <2>2, <3>2, <3>4
    <3>. QED BY <3>3, <3>4
  <2>. QED BY <2>1, <2>2, <1>14, MergeGood
<1>15. CASE prevAlloc /\ nextAlloc
  <2>1. coalesce(h, b) = listInsert(h, b)
    BY <1>5, <1>15
  <2>2. b \notin F
    OBVIOUS
  <2>3. F \cup {b} = FreeOf(B, al)
    BY DEF FreeOf
  <2>4. State(listInsert(h, b), lo, hi, B, sz, al, FreeOf(B, al))
    BY <2>2, <2>3, InsertState
  <2>5. \A c \in B : al[c] = 0 /\ c + sz[c] \in B => al[c + sz[c]] = 1
    BY <1>2, <1>7, <1>9, <1>15 DEF next
  <2>6. Spares(h, listInsert(h, b), K)
    <3> HIDE DEF K, F
    <3>. QED BY <1>a, <1>b, <1>c, InsertSpares
  <2>. QED BY <2>1, <2>4, <2>5, <2>6 DEF Sound, Good
<1>16. CASE prevAlloc /\ ~nextAlloc
  <2> DEFINE e == next + sz[next]
             G == {c \in B : al[c] = 0 /\ (c < b \/ c >= e)}
             g == listRemove(h, next)
  <2>1. next \in B /\ al[next] = 0 /\ next # b
    BY <1>6, <1>8, <1>2, <1>16
  <2>2. e - b = sz[b] + SizeOf(m, HDRP(next))
    BY <2>1, <1>2, <1>8, <1>16 DEF next
  <2>3. coalesce(h, b) = listInsert(Tag(g, b, e - b, 0), b)
    BY <2>2, <1>5, <1>16
  <2>a. \A c \in B : (c < b \/ c >= e) <=> c # b /\ c # next
    <3> TAKE c \in B
    <3>1. c \in Nat /\ b \in Nat /\ next \in Nat /\ e \in Nat /\ b < next /\ next < e
      BY <2>1, <1>2, <1>6, <1>12
    <3>2. (c > b => c >= next) /\ (c > next => c >= e)
      BY <2>1, <1>11, <1>12
    <3>. QED BY <3>1, <3>2
  <2>4. next \in F /\ F \ {next} = G
    BY <2>1, <2>a DEF FreeOf
  <2>5. State(g, lo, hi, B, sz, al, G)
    BY <2>4, RemoveState
  <2>b. Spares(h, g, K)
    <3> HIDE DEF K, F
    <3>. QED BY <2>4, <1>a, <1>b, <1>c, RemoveSpares
  <2>6. \A c \in B : b <= c /\ c < e => al[c] = 0
    BY <2>1, <1>2, <1>6, <1>11, <1>12
  <2>7. /\ e = hi \/ e \in B
        /\ b < e
        /\ e \in B => al[e] = 1
    BY <2>1, <1>2, <1>6, <1>12
  <2>8. \A c \in B : c + sz[c] = b => al[c] = 1
    BY <1>9, <1>16
  <2> HIDE DEF e, g
  <2>9. b <= b
    BY <1>2
  <2>10. /\ Sound(coalesce(h, b), lo, hi, K)
         /\ Spares(g, coalesce(h, b), K)
    BY <2>3, <2>5, <2>6, <2>7, <2>8, <2>9, <1>14
  <2> HIDE DEF K
  <2>11. Spares(h, coalesce(h, b), K)
    BY <2>b, <2>10, SparesTwice
  <2>. QED BY <2>10, <2>11 DEF K
<1>17. CASE ~prevAlloc /\ nextAlloc
  <2> DEFINE G == {c \in B : al[c] = 0 /\ (c < prev \/ c >= next)}
             g == listRemove(h, prev)
  <2>1. prev \in B /\ prev + sz[prev] = b /\ al[prev] = 0 /\ prev # b
    BY <1>2, <1>10, <1>17
  <2>2. next - prev = sz[b] + SizeOf(m, HDRP(prev))
    BY <2>1, <1>2, <1>10, <1>17 DEF next
  <2>3. coalesce(h, b) = listInsert(Tag(g, prev, next - prev, 0), prev)
    BY <2>2, <1>5, <1>17
  <2>4. prev \in F /\ F \ {prev} = G
    BY <2>1, <1>2, <1>6, <1>11, <1>13 DEF FreeOf
  <2>5. State(g, lo, hi, B, sz, al, G)
    BY <2>4, RemoveState
  <2>b. Spares(h, g, K)
    <3> HIDE DEF K, F
    <3>. QED BY <2>4, <1>a, <1>b, <1>c, RemoveSpares
  <2>6. \A c \in B : prev <= c /\ c < next => al[c] = 0
    BY <2>1, <1>2, <1>6, <1>11, <1>13
  <2>7. /\ prev <= b
        /\ next \in B => al[next] = 1
        /\ \A c \in B : c + sz[c] = prev => al[c] = 1
    BY <2>1, <1>2, <1>7, <1>13, <1>17
  <2> HIDE DEF g
  <2>8. /\ Sound(coalesce(h, b), lo, hi, K)
        /\ Spares(g, coalesce(h, b), K)
    BY <2>1, <2>3, <2>5, <2>6, <2>7, <1>6, <1>14
  <2> HIDE DEF K
  <2>9. Spares(h, coalesce(h, b), K)
    BY <2>b, <2>8, SparesTwice
  <2>. QED BY <2>8, <2>9 DEF K
<1>18. CASE ~prevAlloc /\ ~nextAlloc
  <2> DEFINE e == next + sz[next]
             G == {c \in B : al[c] = 0 /\ (c < prev \/ c >= e)}
             g == listRemove(listRemove(h, prev), next)
  <2>1. prev \in B /\ prev + sz[prev] = b /\ al[prev] = 0 /\ prev # b
    BY <1>2, <1>10, <1>18
  <2>2. next \in B /\ al[next] = 0 /\ next # b /\ next # prev
    BY <2>1, <1>2, <1>6, <1>8, <1>13, <1>18
  <2>3. e - prev = sz[b] + SizeOf(m, HDRP(prev)) + SizeOf(m, HDRP(next))
    BY <2>1, <2>2, <1>2, <1>8, <1>10, <1>18 DEF next
  <2>4. coalesce(h, b) = listInsert(Tag(g, prev, e - prev, 0), prev)
    BY <2>3, <1>5, <1>18
  <2>5. prev \in F /\ next \in F \ {prev}
    BY <2>1, <2>2 DEF FreeOf
  <2>a. \A c \in B : (c < prev \/ c >= e) <=> c # prev /\ c # b /\ c # next
    <3> TAKE c \in B
    <3>1. /\ c \in Nat /\ prev \in Nat /\ b \in Nat /\ next \in Nat /\ e \in Nat
          /\ prev < b /\ b < next /\ next < e
      BY <2>1, <2>2, <1>2, <1>6, <1>12, <1>13
    <3>2. (c > prev => c >= b) /\ (c > b => c >= next) /\ (c > next => c >= e)
      BY <2>1, <2>2, <1>11, <1>12, <1>13
    <3>. QED BY <3>1, <3>2
  <2>6. (F \ {prev}) \ {next} = G
    BY <2>a DEF FreeOf
  <2>7. State(g, lo, hi, B, sz, al, G)
    <3>1. State(listRemove(h, prev), lo, hi, B, sz, al, F \ {prev})
      BY <2>5, RemoveState
    <3> HIDE DEF F
    <3>. QED BY <2>5, <2>6, <3>1, RemoveState
  <2>b. Spares(h, g, K)
    <3>1. State(listRemove(h, prev), lo, hi, B, sz, al, F \ {prev})
      BY <2>5, RemoveState
    <3> HIDE DEF K, F
    <3>2. Spares(h, listRemove(h, prev), K)
      BY <2>5, <1>a, <1>b, <1>c, RemoveSpares
    <3>3. \A c \in DOMAIN K : c \notin F \ {prev}
      BY <1>b
    <3>4. Spares(listRemove(h, prev), g, K)
      BY <2>5, <3>1, <3>3, <1>a, RemoveSpares
    <3> HIDE DEF g
    <3>. QED BY <3>2, <3>4, SparesTwice
  <2>8. \A c \in B : prev <= c /\ c < e => al[c] = 0
    BY <2>1, <2>2, <1>2, <1>6, <1>11, <1>12, <1>13
  <2>9. /\ e = hi \/ e \in B
        /\ prev <= b /\ b < e
        /\ e \in B => al[e] = 1
        /\ \A c \in B : c + sz[c] = prev => al[c] = 1
    BY <2>1, <2>2, <1>2, <1>6, <1>12, <1>13
  <2> HIDE DEF e, g
  <2>10. /\ Sound(coalesce(h, b), lo, hi, K)
         /\ Spares(g, coalesce(h, b), K)
    BY <2>1, <2>4, <2>7, <2>8, <2>9, <1>14
  <2> HIDE DEF K
  <2>11. Spares(h, coalesce(h, b), K)
    BY <2>b, <2>10, SparesTwice
  <2>. QED BY <2>10, <2>11 DEF K
<1>. QED
  BY <1>15, <1>16, <1>17, <1>18

\* heapFree gives back exactly the block it is given.
LEMMA FreeSound ==
  ASSUME NEW h, NEW lo, NEW hi, NEW K, Sound(h, lo, hi, K), NEW p \in DOMAIN K
  PROVE  /\ Sound(heapFree(h, p), lo, hi, [q \in DOMAIN K \ {p} |-> K[q]])
         /\ Spares(h, heapFree(h, p), [q \in DOMAIN K \ {p} |-> K[q]])
<1>1. PICK B, sz, al : Good(h, lo, hi, B, sz, al) /\ K = [b \in HeldOf(B, al) |-> sz[b]]
  BY DEF Sound
<1>2. /\ Laid(lo, hi, B, sz) /\ Tagged(h.mem, lo, hi, B, sz, al) /\ al \in [B -> {0, 1}]
      /\ State(h, lo, hi, B, sz, al, FreeOf(B, al))
      /\ \A b \in B : al[b] = 0 /\ b + sz[b] \in B => al[b + sz[b]] = 1
  BY <1>1 DEF Good, State, Tagged
<1>3. p \in B /\ al[p] = 1
  BY <1>1 DEF HeldOf
<1> DEFINE a1 == [al EXCEPT ![p] = 0]
           g == Tag(h, p, sz[p], 0)
<1>4. heapFree(h, p) = coalesce(g, p)
  BY <1>2, <1>3, Neighbours DEF heapFree
<1>5. State(g, lo, hi, B, sz, a1, FreeOf(B, al))
  BY <1>2, <1>3, RetagState
<1>6. a1[p] = 0 /\ \A c \in B : c # p => a1[c] = al[c]
  BY <1>2, <1>3
<1>a. Spares(h, g, [q \in DOMAIN K \ {p} |-> K[q]])
  <2> DEFINE K1 == [q \in DOMAIN K \ {p} |-> K[q]]
  <2>1. Within(K1, B, sz)
    <3>1. \A c \in B : sz[c] \in Nat
      BY <1>2 DEF Laid
    <3>. QED BY <3>1, <1>1 DEF Within, HeldOf
  <2>2. sz[p] \in Nat /\ p + sz[p] \in B \cup {hi}
    BY <1>2, <1>3 DEF Laid
  <2>3. h.mem \in [Words(lo, hi) -> Nat]
    BY <1>2 DEF Tagged
  <2> HIDE DEF K1
  <2>. QED BY <2>1, <2>2, <2>3, <1>2, <1>3, TagSpares DEF K1
<1> HIDE DEF a1, g
<1>7. FreeOf(B, al) = FreeOf(B, a1) \ {p}
  BY <1>3, <1>6 DEF FreeOf
<1>8. \A c \in B : a1[c] = 0 /\ c # p /\ c + sz[c] \in B /\ c + sz[c] # p
                     => a1[c + sz[c]] = 1
  BY <1>2, <1>6
<1>9. /\ Sound(coalesce(g, p), lo, hi, [c \in HeldOf(B, a1) |-> sz[c]])
      /\ Spares(g, coalesce(g, p), [c \in HeldOf(B, a1) |-> sz[c]])
  BY <1>3, <1>5, <1>6, <1>7, <1>8, CoalesceSound
<1>10. [c \in HeldOf(B, a1) |-> sz[c]] = [q \in DOMAIN K \ {p} |-> K[q]]
  <2>1. HeldOf(B, a1) = DOMAIN K \ {p}
    BY <1>1, <1>6 DEF HeldOf
  <2>2. \A c \in HeldOf(B, a1) : sz[c] = K[c]
    BY <1>1, <2>1
  <2>. QED BY <2>1, <2>2
<1>. QED
  BY <1>4, <1>9, <1>10, <1>a, SparesTwice

-----------------------------------------------------------------------------
(* The search of the free list.                                            *)

\* The first n + 1 nodes of h's list.
Prefix(h, n, f) ==
  \A k \in 0 .. n : f[k] = IF k = 0 THEN h.freeList
                           ELSE IF f[k - 1] = NULL THEN NULL
                           ELSE NextNode(h.mem, f[k - 1])

\* FreeNode is well defined: it follows the next pointers.
LEMMA FreeNodeDef ==
  ASSUME NEW h
  PROVE  /\ FreeNode(h)[0] = h.freeList
         /\ \A k \in Nat : FreeNode(h)[k + 1] = IF FreeNode(h)[k] = NULL THEN NULL
                                                ELSE NextNode(h.mem, FreeNode(h)[k])
<1> DEFINE S == {n \in Nat : \E f : Prefix(h, n, f)}
           pick == [n \in Nat |-> CHOOSE f : Prefix(h, n, f)]
           node == [n \in Nat |-> pick[n][n]]
           D(f) == [k \in Nat |-> IF k = 0 THEN h.freeList
                                  ELSE IF f[k - 1] = NULL THEN NULL
                                  ELSE NextNode(h.mem, f[k - 1])]
<1>1. Nat \subseteq S
  <2>1. 0 \in S
    <3>1. Prefix(h, 0, [k \in {0} |-> h.freeList])
      BY DEF Prefix
    <3>. QED BY <3>1
  <2>2. ASSUME NEW n \in Nat, n \in S
        PROVE  n + 1 \in S
    <3>1. PICK f : Prefix(h, n, f)
      BY <2>2
    <3> DEFINE v == IF f[n] = NULL THEN NULL ELSE NextNode(h.mem, f[n])
               g == [k \in 0 .. n + 1 |-> IF k = n + 1 THEN v ELSE f[k]]
    <3>2. ASSUME NEW k \in 0 .. n + 1
          PROVE  g[k] = IF k = 0 THEN h.freeList
                        ELSE IF g[k - 1] = NULL THEN NULL
                        ELSE NextNode(h.mem, g[k - 1])
      <4> HIDE DEF v
      <4>1. CASE k = n + 1
        <5>1. k # 0 /\ k - 1 = n /\ g[k] = v /\ g[n] = f[n]
          BY <4>1
        <5>. QED BY <5>1 DEF v
      <4>2. CASE k \in 0 .. n
        <5>1. g[k] = f[k] /\ (k # 0 => g[k - 1] = f[k - 1])
          BY <4>2
        <5>. QED BY <5>1, <4>2, <3>1 DEF Prefix
      <4>. QED BY <4>1, <4>2
    <3>3. Prefix(h, n + 1, g)
      BY <3>2 DEF Prefix
    <3>. QED BY <3>3
  <2> HIDE DEF S
  <2>. QED BY <2>1, <2>2, SetInduction
<1>2. \A n \in Nat : Prefix(h, n, pick[n])
  BY <1>1
<1> HIDE DEF pick, S
\* Prefixes agree.
<1>3. ASSUME NEW n \in Nat
      PROVE  pick[n + 1][n] = pick[n][n]
  <2> DEFINE T == {k \in Nat : k <= n => pick[n + 1][k] = pick[n][k]}
  <2>1. Prefix(h, n, pick[n]) /\ Prefix(h, n + 1, pick[n + 1])
    BY <1>2
  <2>2. 0 \in T
    <3>1. 0 \in 0 .. n /\ 0 \in 0 .. n + 1
      OBVIOUS
    <3>. QED BY <2>1, <3>1 DEF Prefix
  <2>3. ASSUME NEW k \in Nat, k \in T
        PROVE  k + 1 \in T
    <3>1. CASE k + 1 <= n
      <4>1. pick[n + 1][k] = pick[n][k]
        BY <2>3, <3>1
      <4>2. k + 1 \in 0 .. n /\ k + 1 \in 0 .. n + 1 /\ k + 1 # 0 /\ (k + 1) - 1 = k
        BY <3>1
      <4>3. pick[n + 1][k + 1] = pick[n][k + 1]
        BY <2>1, <4>1, <4>2 DEF Prefix
      <4>. QED BY <4>3
    <3>2. CASE ~(k + 1 <= n)
      BY <3>2
    <3>. QED BY <3>1, <3>2
  <2> HIDE DEF T
  <2>4. n \in T
    BY <2>2, <2>3, SetInduction
  <2>. QED BY <2>4 DEF T
<1>4. node = D(node)
  <2>1. ASSUME NEW k \in Nat
        PROVE  node[k] = IF k = 0 THEN h.freeList
                         ELSE IF node[k - 1] = NULL THEN NULL
                         ELSE NextNode(h.mem, node[k - 1])
    <3>1. Prefix(h, k, pick[k]) /\ k \in 0 .. k
      BY <1>2
    <3>2. pick[k][k] = IF k = 0 THEN h.freeList
                       ELSE IF pick[k][k - 1] = NULL THEN NULL
                       ELSE NextNode(h.mem, pick[k][k - 1])
      BY <3>1 DEF Prefix
    <3>3. CASE k = 0
      BY <3>2, <3>3
    <3>4. CASE k # 0
      <4>1. k - 1 \in Nat /\ (k - 1) + 1 = k
        BY <3>4
      <4>2. pick[k][k - 1] = pick[k - 1][k - 1]
        BY <4>1, <1>3
      <4>. QED BY <3>2, <3>4, <4>1, <4>2
    <3>. QED BY <3>3, <3>4
  <2> HIDE DEF node
  <2>2. \A k \in Nat : node[k] = D(node)[k]
    BY <2>1
  <2>. QED BY <2>2 DEF node
<1> HIDE DEF node
<1>5. FreeNode(h) = CHOOSE f : f = D(f)
  BY DEF FreeNode
<1> DEFINE fn == FreeNode(h)
<1>6. fn = D(fn)
  BY <1>4, <1>5
<1> HIDE DEF fn
<1>7. \A k \in Nat : fn[k] = IF k = 0 THEN h.freeList
                             ELSE IF fn[k - 1] = NULL THEN NULL
                             ELSE NextNode(h.mem, fn[k - 1])
  BY <1>6
<1>8. fn[0] = h.freeList
  BY <1>7
<1>9. ASSUME NEW k \in Nat
      PROVE  fn[k + 1] = IF fn[k] = NULL THEN NULL ELSE NextNode(h.mem, fn[k])
  <2>1. k + 1 \in Nat /\ k + 1 # 0 /\ (k + 1) - 1 = k
    OBVIOUS
  <2>. QED BY <2>1, <1>7
<1>. QED
  BY <1>8, <1>9 DEF fn

\* Every node of the list is a listed block.
LEMMA FreeNodeListed ==
  ASSUME NEW h, NEW F, NEW r, Linked(h.mem, h.freeList, F, r), NEW k \in Nat
  PROVE  FreeNode(h)[k] \in F \cup {0}
<1> DEFINE fn == FreeNode(h)
           S == {n \in Nat : fn[n] \in F \cup {0}}
<1>1. 0 \in S
  BY FreeNodeDef DEF Linked
<1>2. ASSUME NEW n \in Nat, n \in S
      PROVE  n + 1 \in S
  <2>1. fn[n + 1] = IF fn[n] = 0 THEN 0 ELSE h.mem[fn[n] + 8]
    BY FreeNodeDef DEF NULL, NextNode, WSIZE
  <2>. QED BY <1>2, <2>1 DEF Linked
<1> HIDE DEF S
<1>3. k \in S
  BY <1>1, <1>2, SetInduction
<1>. QED
  BY <1>3 DEF S

\* findFit returns NULL or a listed block that is large enough.
LEMMA FindFitFits ==
  ASSUME NEW h, NEW lo, NEW hi, NEW B, NEW sz, NEW al, NEW F,
         State(h, lo, hi, B, sz, al, F), NEW asize
  PROVE  \/ findFit(h, asize) = 0
         \/ findFit(h, asize) \in F /\ sz[findFit(h, asize)] >= asize
<1> DEFINE node == FreeNode(h)
           fits == {k \in 0 .. MaxNodes :
                      node[k] # NULL /\ SizeOf(h.mem, HDRP(node[k])) >= asize}
<1>1. findFit(h, asize) = IF fits = {} THEN NULL
                          ELSE node[CHOOSE k \in fits : \A j \in fits : k <= j]
  BY DEF findFit
<1>2. fits \subseteq Nat
  OBVIOUS
<1> SUFFICES ASSUME fits # {}
             PROVE  findFit(h, asize) \in F /\ sz[findFit(h, asize)] >= asize
  BY <1>1 DEF NULL
<1> DEFINE k == CHOOSE i \in fits : \A j \in fits : i <= j
<1>3. k \in fits
  <2> HIDE DEF fits
  <2>1. \E i \in fits : \A j \in fits : i <= j
    BY <1>2, LeastElement
  <2>. QED BY <2>1
<1>4. findFit(h, asize) = node[k]
  BY <1>1
<1> HIDE DEF k
<1>5. node[k] # 0 /\ SizeOf(h.mem, HDRP(node[k])) >= asize /\ k \in Nat
  BY <1>3 DEF NULL
<1> HIDE DEF fits, node
<1>6. PICK r : Linked(h.mem, h.freeList, F, r)
  BY DEF State
<1>7. node[k] \in F
  BY <1>5, <1>6, FreeNodeListed DEF node
<1>8. node[k] \in B /\ Laid(lo, hi, B, sz) /\ Tagged(h.mem, lo, hi, B, sz, al)
  BY <1>7 DEF State
<1>9. SizeOf(h.mem, HDRP(node[k])) = sz[node[k]]
  BY <1>8, Neighbours
<1>. QED
  BY <1>4, <1>5, <1>7, <1>9

-----------------------------------------------------------------------------
(* Allocating.                                                             *)

\* roundBlock never returns a size too small: either the request is refused,
\* or no addition wrapped.
LEMMA RoundBlock ==
  ASSUME NEW size \in 0 .. SizeMax
  PROVE  \/ roundBlock(size) = 0
         \/ /\ roundBlock(size) \in Nat /\ A16(roundBlock(size))
            /\ roundBlock(size) >= 32 /\ roundBlock(size) >= size + 16
            /\ roundBlock(size) = 32 \/ roundBlock(size) <= size + 31
<1>1. SizeMax \in Nat /\ DSIZE = 16 /\ MIN_BLOCK = 32 /\ DSIZE - 1 = 15
  BY SizeMaxAssumption DEF DSIZE, WSIZE, MIN_BLOCK
<1> SUFFICES ASSUME ~(size > SizeMax - 31)
             PROVE  /\ roundBlock(size) \in Nat /\ A16(roundBlock(size))
                    /\ roundBlock(size) >= 32 /\ roundBlock(size) >= size + 16
                    /\ roundBlock(size) = 32 \/ roundBlock(size) <= size + 31
  BY <1>1 DEF roundBlock
<1>2. \A n \in Nat : n <= SizeMax => Wrap(n) = n
  BY <1>1 DEF Wrap
<1>3. size + 16 \in Nat /\ size + 31 \in Nat /\ size + 31 <= SizeMax
  BY <1>1
<1>4. Wrap(size + 16) = size + 16 /\ Wrap(size + 16 + 15) = size + 31
  BY <1>1, <1>2, <1>3
<1>5. roundBlock(size) = IF size + 16 < 32 THEN 32 ELSE RoundDown(size + 31)
  <2>1. ~(size > SizeMax - 16 - 15)
    BY <1>1
  <2>. QED BY <1>1, <1>4, <2>1 DEF roundBlock
<1>6. \A n \in Nat : /\ (n \div 16) * 16 \in Nat /\ A16((n \div 16) * 16)
                     /\ (n \div 16) * 16 >= n - 15 /\ (n \div 16) * 16 <= n
  BY DEF A16
<1>7. /\ RoundDown(size + 31) \in Nat /\ A16(RoundDown(size + 31))
      /\ RoundDown(size + 31) >= size + 16 /\ RoundDown(size + 31) <= size + 31
  <2> DEFINE x == size + 31
             y == (x \div 16) * 16
  <2>1. x \in Nat /\ RoundDown(x) = y
    BY <1>1, <1>3 DEF RoundDown
  <2>2. y \in Nat /\ y >= x - 15 /\ y <= x /\ A16(y)
    BY <2>1, <1>6
  <2> HIDE DEF y
  <2>3. x - 15 = size + 16
    OBVIOUS
  <2>. QED BY <2>1, <2>2, <2>3
<1>8. A16(32)
  BY DEF A16
<1>. QED
  BY <1>5, <1>7, <1>8

\* Holding block p with s bytes besides those of K.
With(K, p, s) == [q \in DOMAIN K \cup {p} |-> IF q = p THEN s ELSE K[q]]

\* Giving a block the first n of its bytes and listing the rest.
LEMMA SplitSound ==
  ASSUME NEW h, NEW lo, NEW hi, NEW B, NEW sz, NEW al, NEW b \in B,
         State(h, lo, hi, B, sz, al, FreeOf(B, al) \ {b}),
         \A c \in B : al[c] = 0 /\ c # b /\ c + sz[c] \in B /\ c + sz[c] # b
                        => al[c + sz[c]] = 1,
         b + sz[b] \in B => al[b + sz[b]] = 1,
         NEW n \in Nat, A16(n), n >= 32, sz[b] - n >= 32
  PROVE  /\ Sound(listInsert(Tag(Tag(h, b, n, 1), b + n, sz[b] - n, 0), b + n), lo, hi,
                  With([c \in HeldOf(B, al) |-> sz[c]], b, n))
         /\ Spares(h, listInsert(Tag(Tag(h, b, n, 1), b + n, sz[b] - n, 0), b + n),
                   With([c \in HeldOf(B, al) |-> sz[c]], b, n))
<1> DEFINE t == b + n
           B1 == Split(B, b, n)
           s1 == SplitSize(B, sz, b, n)
           a1 == SplitAlloc(B, al, b, n, 1, 0)
           F == FreeOf(B, al) \ {b}
           h1 == Tag(Tag(h, b, n, 1), b + n, sz[b] - n, 0)
           h2 == listInsert(h1, t)
           K == With([c \in HeldOf(B, al) |-> sz[c]], b, n)
<1>1. State(h1, lo, hi, B1, s1, a1, F) /\ t \notin B
  <2>1. State(h, lo, hi, B, sz, al, F)
    OBVIOUS
  <2> HIDE DEF F
  <2>. QED BY <2>1, SplitState
<1>2. /\ \A c \in B : c \in Nat /\ sz[c] \in Nat
      /\ \A c, d \in B : c < d => c + sz[c] <= d
      /\ al \in [B -> {0, 1}]
  BY DEF State, Laid, Tagged
<1>3. /\ B1 = B \cup {t} /\ s1[b] = n /\ s1[t] = sz[b] - n /\ a1[b] = 1 /\ a1[t] = 0
      /\ \A c \in B : c # b => s1[c] = sz[c] /\ a1[c] = al[c]
  BY <1>1 DEF Split, SplitSize, SplitAlloc
<1>4. t + s1[t] = b + sz[b] /\ t \in Nat /\ t # b
  BY <1>2, <1>3
<1>9. Within(K, B1, s1) /\ \A c \in DOMAIN K : c \in B /\ c \notin F
  <2>1. DOMAIN K = HeldOf(B, al) \cup {b} /\ \A c \in DOMAIN K : K[c] = s1[c]
    BY <1>3 DEF With, HeldOf
  <2>2. \A c \in HeldOf(B, al) \cup {b} : c \in B /\ c \notin F /\ c \in B1 /\ s1[c] \in Nat
    BY <1>2, <1>3 DEF HeldOf, FreeOf
  <2> HIDE DEF K, B1, s1, F
  <2>. QED BY <2>1, <2>2, <1>2 DEF Within
<1>10. Spares(h, h1, K)
  <2>1. Laid(lo, hi, B, sz) /\ h.mem \in [Words(lo, hi) -> Nat]
    BY DEF State, Tagged
  <2> HIDE DEF K
  <2>. QED BY <2>1, <1>9, SplitSpares
<1> HIDE DEF B1, s1, a1, h1
<1>11. Spares(h, h2, K)
  <2> HIDE DEF K, t, F
  <2>1. t \in B1 /\ \A c \in DOMAIN K : c \notin F /\ c # t
    BY <1>1, <1>3, <1>9
  <2>2. Spares(h1, h2, K)
    BY <2>1, <1>1, <1>9, InsertSpares
  <2> HIDE DEF h2
  <2>. QED BY <2>2, <1>10, SparesTwice
<1>5. State(h2, lo, hi, B1, s1, a1, FreeOf(B1, a1))
  <2>1. FreeOf(B1, a1) = F \cup {t}
    BY <1>2, <1>3 DEF FreeOf
  <2>2. t \notin F /\ t \in B1
    BY <1>1, <1>3 DEF FreeOf
  <2> HIDE DEF F, t
  <2>. QED BY <2>1, <2>2, <1>1, InsertState
<1>6. ASSUME NEW c \in B1, a1[c] = 0, c + s1[c] \in B1
      PROVE  a1[c + s1[c]] = 1
  <2>1. CASE c = t
    <3>1. b + sz[b] \in B /\ b + sz[b] # b
      <4>1. b + sz[b] \in B \/ b + sz[b] = t
        BY <2>1, <1>3, <1>4, <1>6
      <4>2. b + sz[b] # t /\ b + sz[b] # b
        BY <1>2
      <4>. QED BY <4>1, <4>2
    <3>. QED BY <2>1, <3>1, <1>3, <1>4
  <2>2. CASE c # t
    <3>1. c \in B /\ c # b /\ s1[c] = sz[c] /\ al[c] = 0
      BY <2>2, <1>3, <1>6
    <3>2. c + sz[c] # t
      <4>1. CASE c < b
        <5>1. c + sz[c] <= b
          BY <3>1, <4>1, <1>2
        <5>. QED BY <5>1, <3>1, <1>2
      <4>2. CASE c > b
        <5>1. b + sz[b] <= c
          BY <3>1, <4>2, <1>2
        <5>. QED BY <5>1, <3>1, <1>2
      <4>. QED BY <4>1, <4>2, <3>1, <1>2
    <3>3. c + sz[c] \in B
      BY <3>1, <3>2, <1>3, <1>6
    <3>. QED BY <3>1, <3>3, <1>3
  <2>. QED BY <2>1, <2>2
<1>7. K = [c \in HeldOf(B1, a1) |-> s1[c]]
  <2>1. HeldOf(B, al) \cup {b} = HeldOf(B1, a1)
    BY <1>2, <1>3 DEF HeldOf
  <2>2. \A c \in HeldOf(B1, a1) : s1[c] = IF c = b THEN n ELSE sz[c]
    BY <1>3 DEF HeldOf
  <2>3. K = [c \in HeldOf(B, al) \cup {b} |-> IF c = b THEN n ELSE sz[c]]
    BY DEF With
  <2> HIDE DEF K
  <2>. QED BY <2>1, <2>2, <2>3
<1> HIDE DEF h2, K
<1>8. Sound(h2, lo, hi, K)
  BY <1>5, <1>6, <1>7 DEF Sound, Good
<1>. QED
  BY <1>8, <1>11 DEF h2, h1, t, K

\* place hands out a free block of at least asize bytes.
LEMMA PlaceSound ==
  ASSUME NEW h, NEW lo, NEW hi, NEW B, NEW sz, NEW al,
         Good(h, lo, hi, B, sz, al), NEW b \in FreeOf(B, al),
         NEW n \in Nat, A16(n), n >= 32, sz[b] >= n
  PROVE  /\ \E s \in Nat : s >= n /\ Sound(place(h, b, n), lo, hi,
                                           With([c \in HeldOf(B, al) |-> sz[c]], b, s))
         /\ Spares(h, place(h, b, n), [c \in HeldOf(B, al) |-> sz[c]])
<1> DEFINE K == [c \in HeldOf(B, al) |-> sz[c]]
           F == FreeOf(B, al)
           taken == listRemove(h, b)
<1>1. /\ Laid(lo, hi, B, sz) /\ Tagged(h.mem, lo, hi, B, sz, al)
      /\ State(h, lo, hi, B, sz, al, F)
      /\ \A c \in B : al[c] = 0 /\ c + sz[c] \in B => al[c + sz[c]] = 1
      /\ b \in B /\ al[b] = 0
  BY DEF Good, State, FreeOf
<1>2. \A c \in B : c \in Nat /\ sz[c] \in Nat /\ sz[c] >= 32 /\ al[c] \in {0, 1}
  BY <1>1 DEF Laid, Tagged
<1>3. State(taken, lo, hi, B, sz, al, F \ {b})
  <2> HIDE DEF F
  <2>. QED BY <1>1, RemoveState DEF F
<1>4. place(h, b, n) =
        IF sz[b] - n >= 32
          THEN listInsert(Tag(Tag(taken, b, n, 1), b + n, sz[b] - n, 0), b + n)
          ELSE Tag(taken, b, sz[b], 1)
  <2>1. SizeOf(h.mem, HDRP(b)) = sz[b] /\ MIN_BLOCK = 32
    BY <1>1, Neighbours DEF MIN_BLOCK, DSIZE, WSIZE
  <2>. QED BY <2>1 DEF place
<1>7. /\ Within(K, B, sz) /\ b \notin DOMAIN K
      /\ \A c \in DOMAIN K : c \notin F /\ c \in Nat /\ K[c] \in Nat
  BY <1>1, <1>2 DEF Within, HeldOf, FreeOf
<1>8. Spares(h, taken, K)
  <2> HIDE DEF K, F
  <2>. QED BY <1>1, <1>7, RemoveSpares DEF F
<1> HIDE DEF taken
<1>9. Laid(lo, hi, B, sz) /\ taken.mem \in [Words(lo, hi) -> Nat]
  BY <1>3 DEF State, Tagged
<1>5. CASE sz[b] - n >= 32
  <2>1. b + sz[b] \in B => al[b + sz[b]] = 1
    BY <1>1
  <2>2. \A c \in B : al[c] = 0 /\ c # b /\ c + sz[c] \in B /\ c + sz[c] # b
                         => al[c + sz[c]] = 1
    BY <1>1
  <2>3. State(taken, lo, hi, B, sz, al, FreeOf(B, al) \ {b}) /\ b \in B
    BY <1>1, <1>3
  <2>4. /\ Sound(place(h, b, n), lo, hi, With(K, b, n))
        /\ Spares(taken, place(h, b, n), With(K, b, n))
    BY <1>4, <1>5, <2>1, <2>2, <2>3, SplitSound
  <2>5. Spares(taken, place(h, b, n), K)
    <3>1. \A c \in DOMAIN K : c \in DOMAIN With(K, b, n) /\ With(K, b, n)[c] = K[c]
      BY <1>7 DEF With
    <3>2. DOMAIN taken.mem \subseteq Nat
      BY <1>9 DEF Words
    <3>3. \A c \in DOMAIN K : K[c] \in Nat /\ K[c] <= K[c]
      BY <1>7
    <3> HIDE DEF K
    <3>. QED BY <2>4, <3>1, <3>2, <3>3, <1>7, SparesFewer
  <2> HIDE DEF K
  <2>6. Spares(h, place(h, b, n), K)
    BY <2>5, <1>8, SparesTwice
  <2>. QED BY <2>4, <2>6 DEF K
<1>6. CASE ~(sz[b] - n >= 32)
  <2> DEFINE a1 == [al EXCEPT ![b] = 1]
  <2>1. State(place(h, b, n), lo, hi, B, sz, a1, F \ {b})
    <3> DEFINE G == F \ {b}
    <3>1. State(taken, lo, hi, B, sz, al, G)
      BY <1>3
    <3> HIDE DEF G
    <3>2. State(Tag(taken, b, sz[b], 1), lo, hi, B, sz, a1, G)
      BY <1>1, <3>1, RetagState
    <3>. QED BY <3>2, <1>4, <1>6 DEF G
  <2>2. a1[b] = 1 /\ \A c \in B : c # b => a1[c] = al[c]
    BY <1>1 DEF Tagged
  <2> HIDE DEF a1
  <2>3. F \ {b} = FreeOf(B, a1)
    BY <1>1, <2>2 DEF FreeOf
  <2>4. \A c \in B : a1[c] = 0 /\ c + sz[c] \in B => a1[c + sz[c]] = 1
    BY <1>1, <2>2
  <2>5. With(K, b, sz[b]) = [c \in HeldOf(B, a1) |-> sz[c]]
    <3>1. HeldOf(B, al) \cup {b} = HeldOf(B, a1)
      BY <1>1, <2>2 DEF HeldOf
    <3>2. \A c \in HeldOf(B, al) \cup {b} : (IF c = b THEN sz[b] ELSE K[c]) = sz[c]
      OBVIOUS
    <3>. QED BY <3>1, <3>2 DEF With
  <2>6. Sound(place(h, b, n), lo, hi, With(K, b, sz[b]))
    <3>1. Good(place(h, b, n), lo, hi, B, sz, a1)
      BY <2>1, <2>3, <2>4 DEF Good
    <3>. QED BY <3>1, <2>5 DEF Sound
  <2>7. Spares(h, place(h, b, n), K)
    <3>1. sz[b] \in Nat /\ b + sz[b] \in B \cup {hi}
      BY <1>1, <1>2 DEF Laid
    <3> HIDE DEF K
    <3>2. Spares(taken, Tag(taken, b, sz[b], 1), K)
      BY <3>1, <1>1, <1>7, <1>9, TagSpares
    <3>. QED BY <3>2, <1>4, <1>6, <1>8, SparesTwice
  <2>. QED BY <2>6, <2>7, <1>1, <1>2
<1>. QED
  BY <1>5, <1>6

\* heapAlloc leaves the heap alone or hands out a block that was free, with
\* room for what was asked.
LEMMA AllocSound ==
  ASSUME NEW h, NEW lo, NEW hi, NEW K, Sound(h, lo, hi, K), NEW size \in 0 .. SizeMax
  PROVE  \/ heapAlloc(h, size) = Returns(h, 0)
         \/ /\ heapAlloc(h, size).p \notin DOMAIN K /\ heapAlloc(h, size).p # 0
            /\ \E s \in Nat : /\ s >= size + 16 /\ s >= roundBlock(size)
                              /\ Sound(heapAlloc(h, size).h, lo, hi,
                                       With(K, heapAlloc(h, size).p, s))
            /\ Spares(h, heapAlloc(h, size).h, K)
<1> DEFINE n == roundBlock(size)
           b == findFit(h, n)
<1>1. PICK B, sz, al : Good(h, lo, hi, B, sz, al) /\ K = [c \in HeldOf(B, al) |-> sz[c]]
  BY DEF Sound
<1>2. heapAlloc(h, size) = IF n = 0 \/ b = 0 THEN Returns(h, 0)
                           ELSE Returns(place(h, b, n), b)
  BY DEF heapAlloc, NULL
<1> HIDE DEF n, b
<1> SUFFICES ASSUME n # 0, b # 0
             PROVE  /\ heapAlloc(h, size).p \notin DOMAIN K /\ heapAlloc(h, size).p # 0
                    /\ \E s \in Nat : /\ s >= size + 16 /\ s >= n
                                      /\ Sound(heapAlloc(h, size).h, lo, hi,
                                               With(K, heapAlloc(h, size).p, s))
                    /\ Spares(h, heapAlloc(h, size).h, K)
  BY <1>2 DEF n
<1>3. heapAlloc(h, size).p = b /\ heapAlloc(h, size).h = place(h, b, n)
  BY <1>2 DEF Returns
<1>4. n \in Nat /\ A16(n) /\ n >= 32 /\ n >= size + 16
  BY RoundBlock DEF n
<1>5. State(h, lo, hi, B, sz, al, FreeOf(B, al))
  BY <1>1 DEF Good
<1>6. b \in FreeOf(B, al) /\ sz[b] >= n
  BY <1>5, FindFitFits DEF b
<1>10. /\ \E s \in Nat : s >= n /\ Sound(place(h, b, n), lo, hi, With(K, b, s))
       /\ Spares(h, place(h, b, n), K)
  BY <1>1, <1>4, <1>6, PlaceSound
<1>7. PICK s \in Nat : s >= n /\ Sound(place(h, b, n), lo, hi, With(K, b, s))
  BY <1>10
<1>8. b \notin DOMAIN K
  BY <1>1, <1>6 DEF FreeOf, HeldOf
<1>9. s >= size + 16
  BY <1>4, <1>7
<1>. QED
  BY <1>3, <1>7, <1>8, <1>9, <1>10

-----------------------------------------------------------------------------
(* What a sound heap shows its callers.                                    *)

LEMMA SoundFacts ==
  ASSUME NEW h, NEW lo, NEW hi, NEW K, Sound(h, lo, hi, K)
  PROVE  /\ h.mem \in [Words(lo, hi) -> Nat] /\ h.freeList \in Nat
         /\ lo \in Nat /\ hi \in Nat /\ lo >= 24
         /\ \A p \in DOMAIN K :
              /\ p \in Nat /\ A16(p) /\ lo <= p /\ p # 0
              /\ K[p] \in Nat /\ A16(K[p]) /\ K[p] >= 32 /\ p + K[p] <= hi
              /\ SizeOf(h.mem, HDRP(p)) = K[p] /\ AllocOf(h.mem, HDRP(p)) = 1
              /\ NEXT_BLKP(h.mem, p) = p + K[p]
              /\ h.mem[FTRP(h.mem, p)] = h.mem[HDRP(p)]
              /\ \A q \in DOMAIN K : p < q => p + K[p] <= q
<1>1. PICK B, sz, al : Good(h, lo, hi, B, sz, al) /\ K = [c \in HeldOf(B, al) |-> sz[c]]
  BY DEF Sound
<1>2. Laid(lo, hi, B, sz) /\ Tagged(h.mem, lo, hi, B, sz, al)
  BY <1>1 DEF Good, State
<1>3. PICK r : Linked(h.mem, h.freeList, FreeOf(B, al), r)
  BY <1>1 DEF Good, State
<1>4. lo \in Nat /\ hi \in Nat /\ lo >= 24 /\ B \subseteq Nat
  BY <1>2 DEF Laid
<1>5. h.freeList \in Nat
  <2>1. h.freeList \in FreeOf(B, al) \cup {0}
    BY <1>3 DEF Linked
  <2>2. FreeOf(B, al) \subseteq Nat /\ 0 \in Nat
    BY <1>4 DEF FreeOf
  <2> HIDE DEF FreeOf
  <2>3. CASE h.freeList = 0
    BY <2>3
  <2>4. CASE h.freeList \in FreeOf(B, al)
    BY <2>2, <2>4
  <2>. QED BY <2>1, <2>3, <2>4
<1>6. ASSUME NEW p \in DOMAIN K
      PROVE  /\ p \in Nat /\ A16(p) /\ lo <= p /\ p # 0
             /\ K[p] \in Nat /\ A16(K[p]) /\ K[p] >= 32 /\ p + K[p] <= hi
             /\ SizeOf(h.mem, HDRP(p)) = K[p] /\ AllocOf(h.mem, HDRP(p)) = 1
             /\ NEXT_BLKP(h.mem, p) = p + K[p]
             /\ h.mem[FTRP(h.mem, p)] = h.mem[HDRP(p)]
             /\ \A q \in DOMAIN K : p < q => p + K[p] <= q
  <2>1. p \in B /\ al[p] = 1 /\ K[p] = sz[p] /\ DOMAIN K \subseteq B
    BY <1>1 DEF HeldOf
  <2>2. /\ p \in Nat /\ A16(p) /\ lo <= p
        /\ sz[p] \in Nat /\ A16(sz[p]) /\ sz[p] >= 32 /\ p + sz[p] <= hi
        /\ \A q \in B : p < q => p + sz[p] <= q
    BY <2>1, <1>2 DEF Laid
  <2>3. /\ SizeOf(h.mem, HDRP(p)) = sz[p] /\ AllocOf(h.mem, HDRP(p)) = al[p]
        /\ NEXT_BLKP(h.mem, p) = p + sz[p] /\ FTRP(h.mem, p) = p + sz[p] - 16
    BY <2>1, <1>2, Neighbours
  <2>4. h.mem[p + sz[p] - 16] = h.mem[p - 8]
    BY <2>1, <1>2 DEF Tagged
  <2>5. h.mem[FTRP(h.mem, p)] = h.mem[HDRP(p)]
    BY <2>3, <2>4 DEF HDRP, WSIZE
  <2>6. p # 0
    BY <2>2, <1>4
  <2>. QED BY <2>1, <2>2, <2>3, <2>5, <2>6
<1>. QED
  BY <1>2, <1>4, <1>5, <1>6 DEF Tagged

\* With nothing handed out there is one block, free, from lo to hi.
LEMMA SoundEmpty ==
  ASSUME NEW h, NEW lo, NEW hi, NEW K, Sound(h, lo, hi, K), DOMAIN K = {}
  PROVE  h.freeList = lo /\ h.mem[HDRP(lo)] = hi - lo
<1>1. PICK B, sz, al : Good(h, lo, hi, B, sz, al) /\ K = [c \in HeldOf(B, al) |-> sz[c]]
  BY DEF Sound
<1>2. Laid(lo, hi, B, sz) /\ Tagged(h.mem, lo, hi, B, sz, al)
  BY <1>1 DEF Good, State
<1>3. PICK r : Linked(h.mem, h.freeList, FreeOf(B, al), r)
  BY <1>1 DEF Good, State
<1>4. \A c \in B : al[c] = 0
  <2>1. HeldOf(B, al) = {}
    BY <1>1
  <2>2. \A c \in B : al[c] \in {0, 1}
    BY <1>2 DEF Tagged
  <2>. QED BY <2>1, <2>2 DEF HeldOf
<1>5. lo \in B /\ lo \in Nat /\ hi \in Nat /\ sz[lo] \in Nat
  BY <1>2 DEF Laid
<1>6. lo + sz[lo] = hi
  <2>1. lo + sz[lo] = hi \/ lo + sz[lo] \in B
    BY <1>2 DEF Laid
  <2>2. \A c \in B : c + sz[c] \notin B
    BY <1>1, <1>4 DEF Good
  <2>. QED BY <2>1, <2>2, <1>5
<1>7. B = {lo}
  <2>1. ASSUME NEW c \in B, c # lo
        PROVE  FALSE
    <3>1. c \in Nat /\ sz[c] \in Nat /\ c > lo /\ sz[c] >= 32 /\ c + sz[c] <= hi
      BY <2>1, <1>2 DEF Laid
    <3>2. lo + sz[lo] <= c
      BY <3>1, <1>2, <1>5 DEF Laid
    <3>. QED BY <3>1, <3>2, <1>5, <1>6
  <2>. QED BY <2>1, <1>5
<1>8. FreeOf(B, al) = {lo}
  BY <1>4, <1>7 DEF FreeOf
<1>9. h.freeList = lo
  BY <1>3, <1>8, LinkedHead
<1>10. h.mem[lo - 8] = sz[lo] + 0
  BY <1>2, <1>4, <1>5 DEF Tagged
<1>. QED
  BY <1>5, <1>6, <1>9, <1>10 DEF HDRP, WSIZE

\* Writing inside a block handed out disturbs nothing.
LEMMA WriteSound ==
  ASSUME NEW h, NEW lo, NEW hi, NEW K, Sound(h, lo, hi, K), NEW p \in DOMAIN K,
         NEW m2 \in [Words(lo, hi) -> Nat],
         \A a \in Words(lo, hi) : m2[a] # h.mem[a] => p <= a /\ a < p + K[p] - 16
  PROVE  Sound([mem |-> m2, freeList |-> h.freeList], lo, hi, K)
<1> DEFINE g == [mem |-> m2, freeList |-> h.freeList]
<1>1. PICK B, sz, al : Good(h, lo, hi, B, sz, al) /\ K = [c \in HeldOf(B, al) |-> sz[c]]
  BY DEF Sound
<1>2. Laid(lo, hi, B, sz) /\ Tagged(h.mem, lo, hi, B, sz, al)
  BY <1>1 DEF Good, State
<1>3. PICK r : Linked(h.mem, h.freeList, FreeOf(B, al), r)
  BY <1>1 DEF Good, State
<1>4. p \in B /\ al[p] = 1 /\ K[p] = sz[p]
  BY <1>1 DEF HeldOf
<1>5. Tagged(m2, lo, hi, B, sz, al)
  BY <1>2, <1>4, PayloadWrite
<1>6. \A c \in FreeOf(B, al) : m2[c] = h.mem[c] /\ m2[c + 8] = h.mem[c + 8]
  <2> SUFFICES ASSUME NEW c \in FreeOf(B, al)
               PROVE  m2[c] = h.mem[c] /\ m2[c + 8] = h.mem[c + 8]
    OBVIOUS
  <2>1. c \in B /\ c # p
    BY <1>4 DEF FreeOf
  <2>2. c \in Words(lo, hi) /\ c + 8 \in Words(lo, hi)
    BY <2>1, <1>2, WordsOf
  <2>3. /\ c \in Nat /\ sz[c] \in Nat /\ sz[c] >= 32 /\ p \in Nat /\ sz[p] \in Nat
        /\ c < p => c + sz[c] <= p
        /\ p < c => p + sz[p] <= c
    BY <2>1, <1>2, <1>4 DEF Laid
  <2>4. ~(p <= c /\ c < p + sz[p] - 16) /\ ~(p <= c + 8 /\ c + 8 < p + sz[p] - 16)
    BY <2>1, <2>3
  <2>. QED BY <2>2, <2>4, <1>4
<1>7. Linked(m2, h.freeList, FreeOf(B, al), r)
  BY <1>3, <1>6, LinkedFrame
<1>8. g.mem = m2 /\ g.freeList = h.freeList
  OBVIOUS
<1> HIDE DEF g
<1>9. Good(g, lo, hi, B, sz, al)
  BY <1>1, <1>2, <1>5, <1>7, <1>8 DEF Good, State
<1>. QED
  BY <1>1, <1>9 DEF Sound, g

-----------------------------------------------------------------------------
(* Reallocating.                                                           *)

\* Holding everything but p.
Less(K, p) == [q \in DOMAIN K \ {p} |-> K[q]]

LEMMA ShrinkSound ==
  ASSUME NEW h, NEW lo, NEW hi, NEW K, Sound(h, lo, hi, K), NEW p \in DOMAIN K,
         NEW n \in Nat, A16(n), n >= 32, n <= K[p]
  PROVE  \E s \in Nat : /\ s >= n
                        /\ Sound(shrink(h, p, n, K[p]), lo, hi, With(Less(K, p), p, s))
                        /\ Spares(h, shrink(h, p, n, K[p]), With(Less(K, p), p, s))
<1>1. PICK B, sz, al : Good(h, lo, hi, B, sz, al) /\ K = [c \in HeldOf(B, al) |-> sz[c]]
  BY DEF Sound
<1>2. /\ p \in B /\ al[p] = 1 /\ K[p] = sz[p]
      /\ Laid(lo, hi, B, sz) /\ Tagged(h.mem, lo, hi, B, sz, al)
      /\ State(h, lo, hi, B, sz, al, FreeOf(B, al))
      /\ \A c \in B : al[c] = 0 /\ c + sz[c] \in B => al[c + sz[c]] = 1
  BY <1>1 DEF HeldOf, Good, State
<1>3. \A c \in B : c \in Nat /\ sz[c] \in Nat /\ al[c] \in {0, 1}
  BY <1>2 DEF Laid, Tagged
<1> DEFINE t == p + n
           B1 == Split(B, p, n)
           s1 == SplitSize(B, sz, p, n)
           a1 == SplitAlloc(B, al, p, n, 1, 1)
           h1 == Tag(Tag(h, p, n, 1), t, sz[p] - n, 1)
           K1 == [c \in HeldOf(B1, a1) |-> s1[c]]
<1>4. shrink(h, p, n, K[p]) = IF sz[p] - n >= 32 THEN heapFree(h1, t) ELSE h
  BY <1>2 DEF shrink, MIN_BLOCK, DSIZE, WSIZE
<1>5. CASE sz[p] - n >= 32
  <2>1. State(h1, lo, hi, B1, s1, a1, FreeOf(B, al)) /\ t \notin B
    BY <1>2, <1>5, SplitState
  <2>2. /\ B1 = B \cup {t} /\ s1[p] = n /\ s1[t] = sz[p] - n /\ a1[p] = 1 /\ a1[t] = 1
        /\ \A c \in B : c # p => s1[c] = sz[c] /\ a1[c] = al[c]
    BY <2>1, <1>2 DEF Split, SplitSize, SplitAlloc
  <2>9. Within(K1, B1, s1)
    <3>1. \A c \in HeldOf(B1, a1) : c \in B1
      BY DEF HeldOf
    <3>2. \A c \in B1 : s1[c] \in Nat
      BY <2>1 DEF State, Laid
    <3> HIDE DEF B1, s1, a1
    <3>. QED BY <3>1, <3>2 DEF Within
  <2>10. Spares(h, h1, K1)
    <3>1. h.mem \in [Words(lo, hi) -> Nat]
      BY <1>2 DEF Tagged
    <3> HIDE DEF K1
    <3>. QED BY <3>1, <2>9, <1>2, <1>5, SplitSpares
  <2> HIDE DEF B1, s1, a1, h1, t
  <2>3. FreeOf(B1, a1) = FreeOf(B, al)
    BY <2>1, <2>2, <1>2 DEF FreeOf
  <2>4. \A c \in B1 : a1[c] = 0 /\ c + s1[c] \in B1 => a1[c + s1[c]] = 1
    BY <2>1, <2>2, <1>2
  <2>5. Sound(h1, lo, hi, K1)
    BY <2>1, <2>3, <2>4 DEF Sound, Good
  <2>6. DOMAIN K1 = DOMAIN K \cup {t} /\ t \notin DOMAIN K
        /\ \A q \in DOMAIN K : K1[q] = IF q = p THEN n ELSE K[q]
    BY <2>1, <2>2, <1>1, <1>2 DEF HeldOf
  <2> HIDE DEF K1
  <2>7. /\ Sound(heapFree(h1, t), lo, hi, [q \in DOMAIN K1 \ {t} |-> K1[q]])
        /\ Spares(h1, heapFree(h1, t), [q \in DOMAIN K1 \ {t} |-> K1[q]])
    BY <2>5, <2>6, FreeSound
  <2>11. Spares(h, h1, [q \in DOMAIN K1 \ {t} |-> K1[q]])
    BY <2>10 DEF Spares
  <2>8. [q \in DOMAIN K1 \ {t} |-> K1[q]] = With(Less(K, p), p, n)
    <3>1. DOMAIN K1 \ {t} = (DOMAIN K \ {p}) \cup {p}
      BY <2>6
    <3>2. \A q \in DOMAIN K : K1[q] = IF q = p THEN n ELSE Less(K, p)[q]
      BY <2>6 DEF Less
    <3>3. DOMAIN Less(K, p) = DOMAIN K \ {p}
      BY DEF Less
    <3>. QED BY <3>1, <3>2, <3>3 DEF With
  <2>12. Spares(h, heapFree(h1, t), With(Less(K, p), p, n))
    BY <2>7, <2>8, <2>11, SparesTwice
  <2>. QED BY <2>7, <2>8, <2>12, <1>4, <1>5
<1>6. CASE ~(sz[p] - n >= 32)
  <2>1. With(Less(K, p), p, K[p]) = K
    <3>1. (DOMAIN K \ {p}) \cup {p} = DOMAIN K
      OBVIOUS
    <3>2. \A q \in DOMAIN K : K[q] = IF q = p THEN K[p] ELSE Less(K, p)[q]
      BY DEF Less
    <3>3. DOMAIN Less(K, p) = DOMAIN K \ {p}
      BY DEF Less
    <3>4. K = [q \in DOMAIN K |-> K[q]]
      BY <1>1
    <3>. QED BY <3>1, <3>2, <3>3, <3>4 DEF With
  <2>2. Spares(h, h, K)
    BY DEF Spares
  <2>. QED BY <2>1, <2>2, <1>2, <1>3, <1>4, <1>6
<1>. QED
  BY <1>5, <1>6

LEMMA GrowSound ==
  ASSUME NEW h, NEW lo, NEW hi, NEW K, Sound(h, lo, hi, K), NEW p \in DOMAIN K,
         NEW n \in Nat, A16(n), n >= 32, CanGrow(h, p, n), K[p] <= n
  PROVE  /\ \E s \in Nat : s >= n /\ Sound(grow(h, p, n), lo, hi, With(Less(K, p), p, s))
         /\ Spares(h, grow(h, p, n), K)
<1>1. PICK B, sz, al : Good(h, lo, hi, B, sz, al) /\ K = [c \in HeldOf(B, al) |-> sz[c]]
  BY DEF Sound
<1>2. /\ p \in B /\ al[p] = 1 /\ K[p] = sz[p]
      /\ Laid(lo, hi, B, sz) /\ Tagged(h.mem, lo, hi, B, sz, al)
      /\ State(h, lo, hi, B, sz, al, FreeOf(B, al))
      /\ \A c \in B : al[c] = 0 /\ c + sz[c] \in B => al[c + sz[c]] = 1
  BY <1>1 DEF HeldOf, Good, State
<1>3. /\ \A c \in B : c \in Nat /\ sz[c] \in Nat /\ sz[c] >= 32 /\ al[c] \in {0, 1}
      /\ \A c \in B : c + sz[c] = hi \/ c + sz[c] \in B
      /\ \A c, d \in B : c < d => c + sz[c] <= d
  BY <1>2 DEF Laid, Tagged
<1> DEFINE next == p + sz[p]
           e == next + sz[next]
           taken == listRemove(h, next)
           whole == Tag(taken, p, e - p, 1)
           B1 == Absorbed(B, p, e)
           s1 == AbsorbedSize(B, sz, p, e)
           a1 == AbsorbedAlloc(B, al, p, e, 1)
           F == FreeOf(B, al) \ {next}
           K1 == [c \in HeldOf(B1, a1) |-> s1[c]]
<1>4. NEXT_BLKP(h.mem, p) = next /\ SizeOf(h.mem, HDRP(p)) = sz[p]
      /\ AllocOf(h.mem, HDRP(next)) = IF next = hi THEN 1 ELSE al[next]
  BY <1>2, Neighbours
<1>5. next \in B /\ al[next] = 0 /\ SizeOf(h.mem, HDRP(next)) = sz[next]
  <2>1. AllocOf(h.mem, HDRP(next)) = 0
    BY <1>4 DEF CanGrow
  <2>2. next # hi /\ al[next] = 0
    BY <2>1, <1>4
  <2>3. next \in B
    BY <2>2, <1>2, <1>3
  <2> HIDE DEF next
  <2>. QED BY <2>2, <2>3, <1>2, Neighbours
<1>6. e - p = sz[p] + sz[next] /\ sz[p] + sz[next] >= n /\ p < next /\ next < e
      /\ p \in Nat /\ next \in Nat /\ e \in Nat
  <2>1. sz[p] + sz[next] >= n
    BY <1>4, <1>5 DEF CanGrow
  <2>. QED BY <2>1, <1>2, <1>3, <1>5
<1>7. grow(h, p, n) = IF (e - p) - n >= 32
                        THEN listInsert(Tag(Tag(whole, p, n, 1), p + n, (e - p) - n, 0), p + n)
                        ELSE whole
  BY <1>4, <1>5, <1>6 DEF grow, MIN_BLOCK, DSIZE, WSIZE
<1>8. State(taken, lo, hi, B, sz, al, F)
  <2>1. next \in FreeOf(B, al)
    BY <1>5 DEF FreeOf
  <2> HIDE DEF next
  <2>. QED BY <2>1, <1>2, RemoveState
<1>9. \A c \in B : (c > p => c >= next) /\ (c > next => c >= e)
  BY <1>2, <1>3, <1>5
<1>10. /\ e = hi \/ e \in B
       /\ e \in B => al[e] = 1
  BY <1>2, <1>3, <1>5
<1>a. Within(K, B, sz) /\ \A q \in DOMAIN K : q \in Nat /\ q \notin FreeOf(B, al) /\ K[q] \in Nat
  BY <1>1, <1>3 DEF Within, HeldOf, FreeOf
<1>b. Spares(h, taken, K)
  <2>1. next \in FreeOf(B, al)
    BY <1>5 DEF FreeOf
  <2> HIDE DEF next
  <2>. QED BY <2>1, <1>2, <1>a, RemoveSpares
<1> HIDE DEF next, e, taken
<1>c. Spares(taken, whole, K)
  <2>1. taken.mem \in [Words(lo, hi) -> Nat]
    BY <1>8 DEF State, Tagged
  <2>2. p + (e - p) \in B \cup {hi} /\ e - p \in Nat
    BY <1>6, <1>10
  <2>. QED BY <2>1, <2>2, <1>2, <1>a, TagSpares
<1>d. Spares(h, whole, K)
  <2> HIDE DEF whole
  <2>. QED BY <1>b, <1>c, SparesTwice
<1>11. F \subseteq B1
  BY <1>2, <1>3, <1>6, <1>9 DEF FreeOf, Absorbed
<1>12. State(whole, lo, hi, B1, s1, a1, F)
  <2> HIDE DEF F
  <2>. QED BY <1>2, <1>6, <1>8, <1>10, <1>11, AbsorbState
<1>13. p \in B1 /\ B1 \subseteq B /\ next \notin B1 /\ \A c \in B : c # next => c \in B1
  BY <1>2, <1>3, <1>5, <1>6, <1>9 DEF Absorbed
<1>14. /\ s1[p] = e - p /\ a1[p] = 1
       /\ \A c \in B1 : c # p => s1[c] = sz[c] /\ a1[c] = al[c]
  BY <1>13 DEF AbsorbedSize, AbsorbedAlloc
<1> HIDE DEF B1, s1, a1, whole
<1>15. F = FreeOf(B1, a1) /\ p \notin F
  BY <1>2, <1>13, <1>14 DEF FreeOf
<1>16. \A c \in B1 : a1[c] = 0 /\ c + s1[c] \in B1 => a1[c + s1[c]] = 1
  <2> SUFFICES ASSUME NEW c \in B1, a1[c] = 0, c + s1[c] \in B1
               PROVE  a1[c + s1[c]] = 1
    OBVIOUS
  <2>1. c # p /\ s1[c] = sz[c] /\ al[c] = 0 /\ c \in B /\ c + sz[c] \in B
    BY <1>13, <1>14
  <2>2. al[c + sz[c]] = 1
    BY <2>1, <1>2
  <2>. QED BY <2>1, <2>2, <1>14
<1>17. DOMAIN K1 = DOMAIN K /\ \A q \in DOMAIN K : K1[q] = IF q = p THEN e - p ELSE K[q]
  BY <1>1, <1>2, <1>5, <1>13, <1>14 DEF HeldOf
<1>18. \A s : With(K1, p, s) = With(Less(K, p), p, s)
  <2> TAKE s
  <2>1. DOMAIN K1 \cup {p} = DOMAIN Less(K, p) \cup {p}
    BY <1>17 DEF Less
  <2>2. \A q \in DOMAIN K1 : (IF q = p THEN s ELSE K1[q]) = (IF q = p THEN s ELSE Less(K, p)[q])
    BY <1>17 DEF Less
  <2> HIDE DEF K1
  <2>3. DOMAIN K1 \cup {p} = DOMAIN K1
    BY <1>17
  <2>. QED BY <2>1, <2>2, <2>3 DEF With
<1>19. CASE (e - p) - n >= 32
  <2>1. State(whole, lo, hi, B1, s1, a1, FreeOf(B1, a1) \ {p})
    <3>1. F = FreeOf(B1, a1) \ {p}
      BY <1>15
    <3>. QED BY <3>1, <1>12
  <2>2. p + s1[p] \in B1 => a1[p + s1[p]] = 1
    <3>1. p + s1[p] = e /\ e # p
      BY <1>6, <1>14
    <3>. QED BY <3>1, <1>10, <1>13, <1>14
  <2>3. s1[p] - n >= 32 /\ s1[p] - n = (e - p) - n
    BY <1>14, <1>19
  <2>4. \A c \in B1 : a1[c] = 0 /\ c # p /\ c + s1[c] \in B1 /\ c + s1[c] # p
                        => a1[c + s1[c]] = 1
    BY <1>16
  <2> DEFINE g == listInsert(Tag(Tag(whole, p, n, 1), p + n, s1[p] - n, 0), p + n)
  <2>a. Sound(g, lo, hi, With(K1, p, n)) /\ Spares(whole, g, With(K1, p, n))
    BY <2>1, <2>2, <2>3, <2>4, <1>13, SplitSound
  <2>b. grow(h, p, n) = g
    BY <2>3, <1>7, <1>19
  <2> HIDE DEF g
  <2>5. /\ Sound(grow(h, p, n), lo, hi, With(K1, p, n))
        /\ Spares(whole, grow(h, p, n), With(K1, p, n))
    BY <2>a, <2>b
  <2> HIDE DEF K1
  <2>6. Spares(whole, grow(h, p, n), K)
    <3>1. \A q \in DOMAIN K : /\ q \in DOMAIN With(K1, p, n)
                             /\ With(K1, p, n)[q] = IF q = p THEN n ELSE K[q]
      BY <1>17 DEF With
    <3>2. \A q \in DOMAIN K : With(K1, p, n)[q] \in Nat /\ K[q] <= With(K1, p, n)[q]
      BY <3>1, <1>a
    <3>3. DOMAIN whole.mem \subseteq Nat
      BY <1>12 DEF State, Tagged, Words
    <3>. QED BY <2>5, <3>1, <3>2, <3>3, <1>a, SparesFewer
  <2>7. Spares(h, grow(h, p, n), K)
    BY <2>6, <1>d, SparesTwice
  <2>. QED BY <2>5, <2>7, <1>18
<1>20. CASE ~((e - p) - n >= 32)
  <2>1. Good(whole, lo, hi, B1, s1, a1)
    BY <1>12, <1>15, <1>16 DEF Good
  <2>2. Sound(whole, lo, hi, K1)
    BY <2>1 DEF Sound
  <2>3. K1 = With(K1, p, e - p)
    <3>1. DOMAIN K1 \cup {p} = DOMAIN K1
      BY <1>17
    <3>2. \A q \in DOMAIN K1 : K1[q] = IF q = p THEN e - p ELSE K1[q]
      BY <1>17
    <3>3. K1 = [q \in DOMAIN K1 |-> K1[q]]
      OBVIOUS
    <3> HIDE DEF K1
    <3>. QED BY <3>1, <3>2, <3>3 DEF With
  <2> HIDE DEF K1
  <2>4. e - p \in Nat /\ e - p >= n
    BY <1>6
  <2>5. grow(h, p, n) = whole
    BY <1>7, <1>20
  <2>6. Sound(grow(h, p, n), lo, hi, With(Less(K, p), p, e - p))
    BY <2>2, <2>3, <2>5, <1>18
  <2>. QED BY <2>4, <2>5, <2>6, <1>d
<1>. QED
  BY <1>19, <1>20

\* The first n bytes at p in g are those at q in h.
Copies(g, p, h, q, n) ==
  \A a \in DOMAIN g.mem : p <= a /\ a < p + n => h.mem[q + (a - p)] = g.mem[a]

\* The copy stays inside the new block, which is larger than the old one, and
\* outlives the old block's return to the free list.
LEMMA MoveSound ==
  ASSUME NEW h, NEW lo, NEW hi, NEW K, Sound(h, lo, hi, K), NEW p \in DOMAIN K,
         NEW size \in 0 .. SizeMax, K[p] < roundBlock(size)
  PROVE  \/ move(h, p, size, K[p]) = Returns(h, 0)
         \/ /\ move(h, p, size, K[p]).p \notin DOMAIN K /\ move(h, p, size, K[p]).p # 0
            /\ \E s \in Nat : /\ s >= size + 16
                              /\ Sound(move(h, p, size, K[p]).h, lo, hi,
                                       With(Less(K, p), move(h, p, size, K[p]).p, s))
            /\ Spares(h, move(h, p, size, K[p]).h, Less(K, p))
            /\ Copies(h, p, move(h, p, size, K[p]).h, move(h, p, size, K[p]).p, K[p] - 16)
<1> DEFINE n == roundBlock(size)
           csize == K[p]
           fresh == heapAlloc(h, size)
           g == fresh.h
           q == fresh.p
           m2 == memcpy(g.mem, q, p, csize - 16)
           c == [mem |-> m2, freeList |-> g.freeList]
           W == Words(lo, hi)
<1>1. move(h, p, size, csize) = IF q = 0 THEN fresh ELSE Returns(heapFree(c, p), q)
  BY DEF move, NULL, DSIZE, WSIZE
<1>2. CASE fresh = Returns(h, 0)
  <2>1. q = 0
    BY <1>2 DEF Returns
  <2>. QED BY <2>1, <1>1, <1>2
<1>3. CASE fresh # Returns(h, 0)
  <2>1. q \notin DOMAIN K /\ q # 0
    BY <1>3, AllocSound
  <2>2. PICK s \in Nat : s >= size + 16 /\ s >= n /\ Sound(g, lo, hi, With(K, q, s))
    BY <1>3, AllocSound
  <2> DEFINE K1 == With(K, q, s)
  <2>3. DOMAIN K1 = DOMAIN K \cup {q} /\ K1[q] = s /\ K1[p] = csize /\ p # q
    BY <2>1 DEF With
  <2> HIDE DEF K1, g, q, n
  <2>a. Spares(h, g, K) /\ h.mem \in [W -> Nat]
    BY <1>3, AllocSound, SoundFacts DEF g
  <2>4. /\ g.mem \in [W -> Nat]
        /\ lo \in Nat /\ hi \in Nat /\ lo >= 24
        /\ p \in Nat /\ A16(p) /\ lo <= p /\ p + csize <= hi
        /\ csize \in Nat /\ A16(csize) /\ csize >= 32
        /\ q \in Nat /\ A16(q) /\ lo <= q /\ q + s <= hi
    BY <2>2, <2>3, SoundFacts DEF K1
  <2>5. csize < s
    <3>1. n \in Nat
      BY RoundBlock DEF n
    <3>. QED BY <2>2, <2>4, <3>1 DEF n
  <2>6. m2 = [a \in W |-> IF q <= a /\ a < q + (csize - 16) THEN g.mem[p + (a - q)] ELSE g.mem[a]]
    BY <2>4 DEF memcpy
  <2>7. ASSUME NEW a \in W, q <= a, a < q + (csize - 16)
        PROVE  p + (a - q) \in W
    <3>1. a \in Nat /\ a % 8 = 0
      BY DEF W, Words
    <3>2. (p + (a - q)) % 8 = 0
      BY <3>1, <2>4 DEF A16
    <3>3. p + (a - q) \in Nat /\ lo - 24 <= p + (a - q) /\ p + (a - q) <= hi - 8
      BY <3>1, <2>4, <2>7
    <3>. QED BY <3>2, <3>3 DEF W, Words
  <2> HIDE DEF W, m2
  <2>8. m2 \in [W -> Nat]
    <3>1. \A a \in W : (IF q <= a /\ a < q + (csize - 16) THEN g.mem[p + (a - q)] ELSE g.mem[a]) \in Nat
      BY <2>4, <2>7
    <3>. QED BY <3>1, <2>6
  <2>9. \A a \in W : m2[a] # g.mem[a] => q <= a /\ a < q + K1[q] - 16
    <3> TAKE a \in W
    <3>1. a \in Nat
      BY DEF W, Words
    <3>2. m2[a] # g.mem[a] => q <= a /\ a < q + (csize - 16)
      BY <2>6
    <3>. QED BY <3>1, <3>2, <2>3, <2>4, <2>5
  <2>10. Sound(c, lo, hi, K1)
    BY <2>2, <2>3, <2>8, <2>9, WriteSound DEF K1, W
  <2>11. /\ Sound(heapFree(c, p), lo, hi, [r \in DOMAIN K1 \ {p} |-> K1[r]])
         /\ Spares(c, heapFree(c, p), [r \in DOMAIN K1 \ {p} |-> K1[r]])
    <3> HIDE DEF c
    <3>. QED BY <2>3, <2>10, FreeSound
  <2>12. [r \in DOMAIN K1 \ {p} |-> K1[r]] = With(Less(K, p), q, s)
    <3>1. DOMAIN K1 \ {p} = DOMAIN Less(K, p) \cup {q}
      BY <2>3 DEF Less
    <3>2. \A r \in DOMAIN K1 \ {p} : K1[r] = IF r = q THEN s ELSE Less(K, p)[r]
      BY DEF Less, K1, With
    <3>. QED BY <3>1, <3>2 DEF With
  <2>13. /\ move(h, p, size, csize).p = q
         /\ move(h, p, size, csize).h = heapFree(c, p)
    BY <2>1, <1>1 DEF Returns
  <2>b. c.mem = m2 /\ DOMAIN m2 = W /\ W \subseteq Nat
    BY <2>8 DEF W, Words
  <2>c. Spares(c, heapFree(c, p), With(Less(K, p), q, s))
    <3> HIDE DEF c
    <3>. QED BY <2>11, <2>12
  <2>d. ASSUME NEW r \in DOMAIN Less(K, p), NEW a \in W, r <= a, a < r + Less(K, p)[r] - 16
        PROVE  heapFree(c, p).mem[a] = h.mem[a]
    <3>1. /\ r \in DOMAIN K /\ r # p /\ r # q /\ Less(K, p)[r] = K[r]
          /\ r \in DOMAIN K1 /\ K1[r] = K[r]
          /\ r \in DOMAIN With(Less(K, p), q, s) /\ With(Less(K, p), q, s)[r] = K[r]
      BY <2>1 DEF Less, With, K1
    <3>2. heapFree(c, p).mem[a] = m2[a]
      <4> HIDE DEF c
      <4>. QED BY <2>b, <2>c, <2>d, <3>1 DEF Spares
    <3>3. ~(q <= a /\ a < q + (csize - 16))
      <4>1. /\ r \in Nat /\ K[r] \in Nat /\ q \in Nat /\ s \in Nat
            /\ r < q => r + K[r] <= q
            /\ q < r => q + s <= r
        BY <2>2, <2>3, <3>1, SoundFacts DEF K1
      <4>2. a \in Nat /\ a < r + K[r] - 16
        BY <2>b, <2>d, <3>1
      <4>. QED BY <4>1, <4>2, <3>1, <2>d, <2>4, <2>5
    <3>4. m2[a] = g.mem[a]
      BY <2>6, <3>3
    <3>5. g.mem[a] = h.mem[a]
      BY <2>a, <2>d, <3>1 DEF Spares
    <3>. QED BY <3>2, <3>4, <3>5
  <2>e. ASSUME NEW a \in W, p <= a, a < p + (csize - 16)
        PROVE  heapFree(c, p).mem[q + (a - p)] = h.mem[a]
    <3> DEFINE x == q + (a - p)
    <3>1. a \in Nat /\ a % 8 = 0
      BY DEF W, Words
    <3>2. x % 8 = 0
      BY <3>1, <2>4 DEF A16
    <3>3. q <= x /\ x < q + (csize - 16) /\ x < q + s - 16 /\ p + (x - q) = a
      BY <3>1, <2>4, <2>5, <2>e
    <3>4. x \in W
      <4>1. x \in Nat /\ lo - 24 <= x /\ x <= hi - 8
        BY <3>1, <3>3, <2>4
      <4>. QED BY <4>1, <3>2 DEF W, Words
    <3> HIDE DEF x
    <3>5. m2[x] = g.mem[a]
      BY <2>6, <3>3, <3>4
    <3>6. q \in DOMAIN With(Less(K, p), q, s) /\ With(Less(K, p), q, s)[q] = s
      BY DEF With
    <3>7. heapFree(c, p).mem[x] = m2[x]
      <4> HIDE DEF c
      <4>. QED BY <2>b, <2>c, <3>3, <3>4, <3>6 DEF Spares
    <3>8. g.mem[a] = h.mem[a]
      BY <2>a, <2>e DEF Spares
    <3>. QED BY <3>5, <3>7, <3>8 DEF x
  <2>f. DOMAIN heapFree(c, p).mem = W /\ DOMAIN h.mem = W
    <3> HIDE DEF c
    <3>. QED BY <2>a, <2>b, <2>c DEF Spares
  <2>g. Spares(h, heapFree(c, p), Less(K, p)) /\ Copies(h, p, heapFree(c, p), q, csize - 16)
    <3> HIDE DEF c
    <3>. QED BY <2>d, <2>e, <2>f DEF Spares, Copies
  <2> HIDE DEF c, csize
  <2>14. Sound(heapFree(c, p), lo, hi, With(Less(K, p), q, s))
    BY <2>11, <2>12
  <2>. QED BY <2>1, <2>2, <2>13, <2>14, <2>g DEF csize
<1>. QED
  BY <1>2, <1>3

\* heapRealloc leaves the heap alone or trades the block for one, the same or
\* fresh, with room for what was asked and with the words both sizes have; it is
\* the same block when that had room already.
LEMMA ReallocSound ==
  ASSUME NEW h, NEW lo, NEW hi, NEW K, Sound(h, lo, hi, K), NEW p \in DOMAIN K,
         NEW size \in 0 .. SizeMax
  PROVE  \/ heapRealloc(h, p, size) = Returns(h, 0)
         \/ /\ heapRealloc(h, p, size).p \notin DOMAIN K \ {p}
            /\ heapRealloc(h, p, size).p # 0
            /\ \E s \in Nat : /\ s >= size + 16
                              /\ Sound(heapRealloc(h, p, size).h, lo, hi,
                                       With(Less(K, p), heapRealloc(h, p, size).p, s))
            /\ Spares(h, heapRealloc(h, p, size).h, Less(K, p))
            /\ \A n \in Nat : n + 16 <= K[p] /\ n <= size =>
                 Copies(h, p, heapRealloc(h, p, size).h, heapRealloc(h, p, size).p, n)
            /\ size + 16 <= K[p] => heapRealloc(h, p, size).p = p
<1> DEFINE n == roundBlock(size)
           r == heapRealloc(h, p, size)
<1>1. SizeOf(h.mem, HDRP(p)) = K[p] /\ K[p] \in Nat /\ p # 0
  BY SoundFacts
<1>2. r = IF n = 0 THEN Returns(h, 0)
          ELSE IF n <= K[p] THEN Returns(shrink(h, p, n, K[p]), p)
          ELSE IF CanGrow(h, p, n) THEN Returns(grow(h, p, n), p)
          ELSE move(h, p, size, K[p])
  BY <1>1 DEF heapRealloc, NULL
<1>3. n = 0 \/ (n \in Nat /\ A16(n) /\ n >= 32 /\ n >= size + 16 /\ (n = 32 \/ n <= size + 31))
  BY RoundBlock
<1>a. /\ A16(K[p]) /\ K[p] >= 32 /\ p \in Nat
      /\ h.mem \in [Words(lo, hi) -> Nat]
      /\ \A q \in DOMAIN K : K[q] \in Nat /\ q \in Nat
  BY SoundFacts
<1>b. DOMAIN h.mem \subseteq Nat
  BY <1>a DEF Words
\* What is spared at p is there, at p.
<1>c. ASSUME NEW g, NEW K2, Spares(h, g, K2), p \in DOMAIN K2, K2[p] \in Nat,
             NEW k \in Nat, k + 16 <= K2[p]
      PROVE  Copies(h, p, g, p, k)
  <2> SUFFICES ASSUME NEW a \in DOMAIN h.mem, p <= a, a < p + k
               PROVE  g.mem[p + (a - p)] = h.mem[a]
    BY DEF Copies
  <2>1. a \in Nat /\ p + (a - p) = a /\ a < p + K2[p] - 16
    BY <1>a, <1>b, <1>c
  <2>. QED BY <2>1, <1>c DEF Spares
<1>4. CASE n = 0
  BY <1>2, <1>4
<1>5. CASE n # 0 /\ n <= K[p]
  <2> HIDE DEF n
  <2>1. PICK s \in Nat : /\ s >= n
                         /\ Sound(shrink(h, p, n, K[p]), lo, hi, With(Less(K, p), p, s))
                         /\ Spares(h, shrink(h, p, n, K[p]), With(Less(K, p), p, s))
    BY <1>3, <1>5, ShrinkSound
  <2>2. r.p = p /\ r.h = shrink(h, p, n, K[p])
    BY <1>2, <1>5 DEF Returns
  <2>3. s >= size + 16
    BY <2>1, <1>3, <1>5
  <2> DEFINE K2 == With(Less(K, p), p, s)
  <2>4. /\ p \in DOMAIN K2 /\ K2[p] = s
        /\ \A q \in DOMAIN Less(K, p) : q \in DOMAIN K2 /\ K2[q] = Less(K, p)[q] /\ Less(K, p)[q] = K[q]
                                     /\ q \in DOMAIN K
    BY DEF With, Less
  <2>5. Spares(h, r.h, K2)
    BY <2>1, <2>2
  <2> HIDE DEF K2, r
  <2>6. \A k \in Nat : k + 16 <= K[p] /\ k <= size => Copies(h, p, r.h, p, k)
    <3> SUFFICES ASSUME NEW k \in Nat, k <= size
                 PROVE  Copies(h, p, r.h, p, k)
      OBVIOUS
    <3>1. k + 16 <= K2[p] /\ K2[p] \in Nat
      BY <2>3, <2>4
    <3>. QED BY <3>1, <2>4, <2>5, <1>c
  <2>7. Spares(h, r.h, Less(K, p))
    <3>1. \A q \in DOMAIN Less(K, p) : Less(K, p)[q] \in Nat /\ Less(K, p)[q] <= K2[q] /\ K2[q] \in Nat
      BY <2>4, <1>a
    <3>. QED BY <3>1, <2>4, <2>5, <1>a, <1>b, SparesFewer
  <2>. QED BY <2>1, <2>2, <2>3, <2>6, <2>7, <1>1 DEF r
<1>6. CASE n # 0 /\ ~(n <= K[p]) /\ CanGrow(h, p, n)
  <2> HIDE DEF n
  <2>a. K[p] <= n
    BY <1>1, <1>3, <1>6
  <2>b. Spares(h, grow(h, p, n), K)
    BY <2>a, <1>3, <1>6, GrowSound
  <2>1. PICK s \in Nat : s >= n /\ Sound(grow(h, p, n), lo, hi, With(Less(K, p), p, s))
    BY <2>a, <1>3, <1>6, GrowSound
  <2>2. r.p = p /\ r.h = grow(h, p, n)
    BY <1>2, <1>6 DEF Returns
  <2>3. s >= size + 16
    BY <2>1, <1>3, <1>6
  <2>4. \A k \in Nat : k + 16 <= K[p] => Copies(h, p, r.h, p, k)
    BY <2>2, <2>b, <1>1, <1>c
  <2>5. \A q \in DOMAIN Less(K, p) : q \in DOMAIN K /\ Less(K, p)[q] = K[q]
    BY DEF Less
  <2>6. Spares(h, r.h, Less(K, p))
    BY <2>2, <2>5, <2>b DEF Spares
  <2>7. size + 16 <= K[p] => r.p = p
    BY <2>2
  <2> HIDE DEF r
  <2>. QED BY <2>1, <2>2, <2>3, <2>4, <2>6, <1>1 DEF r
<1>7. CASE n # 0 /\ ~(n <= K[p]) /\ ~CanGrow(h, p, n)
  <2>1. r = move(h, p, size, K[p])
    BY <1>2, <1>7
  <2>2. K[p] < n
    BY <1>1, <1>3, <1>7
  <2>a. ~(size + 16 <= K[p])
    <3>1. size \in Nat
      BY SizeMaxAssumption
    <3>2. n # 32 /\ K[p] + 16 <= n
      <4>1. n # 32
        BY <2>2, <1>1, <1>a
      <4> HIDE DEF n
      <4>2. A16(n) /\ n \in Nat
        BY <1>3, <1>7
      <4>3. K[p] + 16 <= n
        BY <2>2, <4>2, <1>1, <1>a, Aligned16
      <4>. QED BY <4>3, <4>1
    <3>. QED BY <3>1, <3>2, <1>1, <1>3, <1>7, <2>2
  <2> HIDE DEF r, n
  <2>3. \/ r = Returns(h, 0)
        \/ /\ r.p \notin DOMAIN K /\ r.p # 0
           /\ \E s \in Nat : s >= size + 16 /\ Sound(r.h, lo, hi, With(Less(K, p), r.p, s))
           /\ Spares(h, r.h, Less(K, p))
           /\ Copies(h, p, r.h, r.p, K[p] - 16)
    BY <2>1, <2>2, MoveSound DEF n
  <2>4. ASSUME Copies(h, p, r.h, r.p, K[p] - 16), NEW k \in Nat, k + 16 <= K[p]
        PROVE  Copies(h, p, r.h, r.p, k)
    BY <2>4, <1>1, <1>a, <1>b DEF Copies
  <2>. QED BY <2>3, <2>4, <2>a DEF r
<1>. QED
  BY <1>4, <1>5, <1>6, <1>7

-----------------------------------------------------------------------------
(* The arena.                                                              *)

\* Aligning costs at most 15 bytes, so there is room for one block, and the
\* words between the sentinels and they themselves are the arena.
LEMMA Arena ==
  ASSUME NEW base \in Bases
  PROVE  /\ FirstBlock(base) \in Nat /\ FirstBlock(base) >= 24 /\ A16(FirstBlock(base))
         /\ Aligned(base) = FirstBlock(base) - 24
         /\ Usable(base) \in Nat /\ Usable(base) >= 32 /\ A16(Usable(base))
         /\ Usable(base) <= HeapSize + 16
         /\ ArenaWords(base) = Words(FirstBlock(base), FirstBlock(base) + Usable(base))
<1> DEFINE p == Aligned(base)
           lo == FirstBlock(base)
           u == Usable(base)
<1>1. WSIZE = 8 /\ DSIZE = 16 /\ MIN_BLOCK = 32
  BY DEF WSIZE, DSIZE, MIN_BLOCK
<1>2. base \in Nat /\ base # 0
  BY BasesAssumption DEF NULL
<1>3. p \in base .. base + 15 /\ (p + 8) % 16 = 0
  <2>1. \E x \in base .. base + 15 : (x + 8) % 16 = 0
    <3> DEFINE q == base \div 16
               r == base % 16
               x == IF r <= 8 THEN base + 8 - r ELSE base + 24 - r
    <3>1. q \in Nat /\ r \in 0 .. 15 /\ base = 16 * q + r
      BY <1>2
    <3>2. x \in base .. base + 15 /\ (x + 8 = 16 * (q + 1) \/ x + 8 = 16 * (q + 2))
      <4> HIDE DEF q, r
      <4>. QED BY <3>1, <1>2
    <3>3. \A k \in Nat : (16 * k) % 16 = 0
      OBVIOUS
    <3> HIDE DEF q, x
    <3>4. (x + 8) % 16 = 0
      BY <3>1, <3>2, <3>3
    <3>. QED BY <3>2, <3>4
  <2>2. p = CHOOSE x \in base .. base + 15 : (x + 8) % 16 = 0
    <3>1. base + DSIZE - 1 = base + 15
      BY <1>1, <1>2
    <3>. QED BY <3>1, <1>1 DEF Aligned
  <2> HIDE DEF p
  <2>. QED BY <2>1, <2>2
<1> HIDE DEF p
<1>4. p \in Nat /\ p >= base /\ p <= base + 15
  BY <1>2, <1>3
<1>5. lo = p + 24
  BY <1>1, <1>4 DEF FirstBlock, p
<1>6. lo \in Nat /\ lo >= 24 /\ A16(lo) /\ p = lo - 24
  <2>1. (p + 24) % 16 = 0
    BY <1>3, <1>4
  <2>. QED BY <2>1, <1>4, <1>5 DEF A16
<1>7. HeapSize \in Nat /\ HeapSize >= 32
  BY <1>1, HeapSizeAssumption
<1>8. u = ((HeapSize + 16 - (p - base)) \div 16) * 16
  <2>1. RawBytes - (p - base) - 4 * WSIZE = HeapSize + 16 - (p - base)
    BY <1>1, <1>2, <1>4, <1>7 DEF RawBytes
  <2>. QED BY <2>1, <1>1 DEF Usable, RoundDown, p
<1>9. u \in Nat /\ u >= 32 /\ A16(u) /\ u <= HeapSize + 16
  <2> DEFINE y == HeapSize + 16 - (p - base)
  <2>1. y \in Nat /\ y >= 33 /\ y <= HeapSize + 16
    BY <1>2, <1>4, <1>7
  <2> HIDE DEF y
  <2>2. (y \div 16) * 16 \in Nat /\ (y \div 16) * 16 >= 32 /\ A16((y \div 16) * 16)
    BY <2>1 DEF A16
  <2>3. (y \div 16) * 16 <= y
    BY <2>1
  <2>4. u = (y \div 16) * 16
    BY <1>8 DEF y
  <2> HIDE DEF u
  <2>. QED BY <2>1, <2>2, <2>3, <2>4, <1>7
<1> HIDE DEF lo, u
<1>10. ArenaWords(base) = Words(lo, lo + u)
  <2>1. ArenaWords(base) = {a \in p .. lo + u - 8 : (a - p) % 8 = 0}
    BY <1>1 DEF ArenaWords, lo, u, p
  <2>2. ASSUME NEW a
        PROVE  (a \in p .. lo + u - 8 /\ (a - p) % 8 = 0)
                 <=> (a \in Nat /\ lo - 24 <= a /\ a <= lo + u - 8 /\ a % 8 = 0)
    <3>1. a \in p .. lo + u - 8 <=> a \in Nat /\ lo - 24 <= a /\ a <= lo + u - 8
      BY <1>4, <1>6, <1>9
    <3>2. a \in Nat => ((a - p) % 8 = 0 <=> a % 8 = 0)
      BY <1>3, <1>4
    <3>. QED BY <3>1, <3>2
  <2>3. {a \in p .. lo + u - 8 : (a - p) % 8 = 0}
          = {a \in Nat : lo - 24 <= a /\ a <= (lo + u) - 8 /\ a % 8 = 0}
    <3>1. (lo + u) - 8 = lo + u - 8
      BY <1>6, <1>9
    <3>. QED BY <2>2, <3>1
  <2>. QED BY <2>1, <2>3 DEF Words
<1>. QED
  BY <1>6, <1>9, <1>10 DEF lo, u, p

Nothing == [q \in {} |-> 0]

\* A new arena is one free block between the sentinels.
LEMMA InitSound ==
  ASSUME NEW base \in Bases
  PROVE  Sound(heapInit(base), FirstBlock(base), FirstBlock(base) + Usable(base), Nothing)
<1> DEFINE p == Aligned(base)
           lo == FirstBlock(base)
           u == Usable(base)
           hi == lo + u
           W == Words(lo, hi)
           m == [[a \in ArenaWords(base) |-> 0] EXCEPT ![p] = 17, ![p + 8] = 17]
           h == Tag([mem |-> m, freeList |-> 0], lo, u, 0)
           m2 == [h.mem EXCEPT ![lo + u - 8] = 1]
           g == [mem |-> m2, freeList |-> h.freeList]
           B == {lo}
           sz == [b \in B |-> u]
           al == [b \in B |-> 0]
<1>1. heapInit(base) = listInsert(g, lo)
  BY DEF heapInit, PACK, NULL, WSIZE, DSIZE
<1>2. /\ lo \in Nat /\ lo >= 24 /\ A16(lo) /\ p = lo - 24
      /\ u \in Nat /\ u >= 32 /\ A16(u) /\ ArenaWords(base) = W
  BY Arena
<1>3. h.freeList = 0 /\ h.mem = [m EXCEPT ![lo - 8] = u, ![lo + u - 16] = u]
  <2>1. u + 0 = u /\ WSIZE = 8 /\ DSIZE = 16
    BY <1>2 DEF WSIZE, DSIZE
  <2> HIDE DEF m, u, lo
  <2>. QED BY <2>1 DEF Tag, PACK, HDRP
<1> HIDE DEF p, lo, u, h
<1>4. hi \in Nat /\ A16(hi) /\ hi >= lo + 32
  BY <1>2, Aligned16
<1>5. Laid(lo, hi, B, sz)
  BY <1>2, <1>4 DEF Laid
<1> HIDE DEF hi, W
<1>6. /\ lo - 24 \in W /\ lo - 16 \in W /\ lo - 8 \in W
      /\ lo + u - 16 \in W /\ lo + u - 8 \in W
  <2> HIDE DEF B, sz
  <2>1. lo \in B /\ sz[lo] = u
    BY DEF B, sz
  <2>2. hi - 8 = lo + u - 8
    BY <1>2 DEF hi
  <2>. QED BY <2>1, <2>2, <1>5, WordsOf DEF W
<1>7. /\ m \in [W -> Nat] /\ m[lo - 24] = 17 /\ m[lo - 16] = 17
  <2>1. p = lo - 24 /\ p + 8 = lo - 16 /\ p # p + 8 /\ ArenaWords(base) = W
    BY <1>2
  <2>. QED BY <2>1, <1>6
<1> HIDE DEF m
<1>8. h.mem \in [W -> Nat] /\ h.mem[lo - 24] = 17 /\ h.mem[lo - 16] = 17
      /\ h.mem[lo - 8] = u /\ h.mem[lo + u - 16] = u
  <2>1. /\ lo - 8 # lo - 24 /\ lo - 8 # lo - 16
        /\ lo + u - 16 # lo - 24 /\ lo + u - 16 # lo - 16
    BY <1>2
  <2>. QED BY <2>1, <1>2, <1>3, <1>6, <1>7
<1>9. m2 \in [W -> Nat] /\ m2[lo - 24] = 17 /\ m2[lo - 16] = 17
      /\ m2[lo - 8] = u /\ m2[lo + u - 16] = u /\ m2[hi - 8] = 1
  <2>1. /\ lo + u - 8 # lo - 24 /\ lo + u - 8 # lo - 16 /\ lo + u - 8 # lo - 8
        /\ lo + u - 8 # lo + u - 16 /\ hi - 8 = lo + u - 8
    BY <1>2 DEF hi
  <2>. QED BY <2>1, <1>6, <1>8
<1> HIDE DEF m2
<1>10. Tagged(m2, lo, hi, B, sz, al)
  <2>1. al \in [B -> {0, 1}] /\ B = {lo} /\ sz[lo] = u /\ al[lo] = 0 /\ u + 0 = u
    BY <1>2
  <2> HIDE DEF al, B, sz
  <2>. QED BY <2>1, <1>9 DEF Tagged, W
<1>11. Linked(m2, 0, {}, Nothing)
  BY DEF Linked, Nothing
<1>12. g.mem = m2 /\ g.freeList = 0
  BY <1>3
<1> HIDE DEF g, B, sz, al
<1>13. State(g, lo, hi, B, sz, al, {})
  BY <1>5, <1>10, <1>11, <1>12 DEF State
<1>14. lo \in B /\ FreeOf(B, al) = {} \cup {lo} /\ HeldOf(B, al) = {}
  BY DEF B, al, FreeOf, HeldOf
<1>15. State(listInsert(g, lo), lo, hi, B, sz, al, FreeOf(B, al))
  BY <1>13, <1>14, InsertState
<1>16. \A b \in B : b + sz[b] \notin B
  BY <1>2 DEF B, sz
<1>17. Nothing = [c \in HeldOf(B, al) |-> sz[c]]
  BY <1>14 DEF Nothing
<1>18. Sound(listInsert(g, lo), lo, hi, Nothing)
  BY <1>15, <1>16, <1>17 DEF Sound, Good
<1>. QED
  BY <1>1, <1>18 DEF hi, lo, u

-----------------------------------------------------------------------------
(* The invariant.                                                          *)

\* The heap is sound and hands out exactly what the callers own, each block
\* with room for what was asked: the inductive strengthening of the properties.
Serves(h, lo, hi, own) ==
  \E K : /\ Sound(h, lo, hi, K)
         /\ DOMAIN K = DOMAIN own
         /\ \A p \in DOMAIN own : own[p] + 16 <= K[p]

Owns(own) == own \in [DOMAIN own -> Requests \ {0}]

IInv ==
  /\ arena \in Bases \cup {NULL}
  /\ Owns(owned)
  /\ arena = NULL => /\ blocks = NULL /\ arenaBytes = 0 /\ freeList = NULL
                     /\ mem = Nothing /\ owned = Nothing
  /\ arena # NULL => /\ blocks = FirstBlock(arena)
                     /\ arenaBytes = Usable(arena)
                     /\ Serves(Current, blocks, blocks + arenaBytes, owned)

LEMMA IInvTypeOK == IInv => TypeOK
<1> SUFFICES ASSUME IInv
             PROVE  TypeOK
  OBVIOUS
<1>1. CASE arena = NULL
  <2>1. blocks = 0 /\ arenaBytes = 0 /\ freeList = 0 /\ mem = Nothing
    BY <1>1 DEF IInv, NULL
  <2>2. DOMAIN mem = {} /\ mem \in [DOMAIN mem -> Nat]
    BY <2>1 DEF Nothing
  <2>. QED BY <1>1, <2>1, <2>2 DEF TypeOK, IInv, Owns, NULL
<1>2. CASE arena # NULL
  <2>1. PICK K : Sound(Current, blocks, blocks + arenaBytes, K)
    BY <1>2 DEF IInv, Serves
  <2>2. arena \in Bases /\ blocks = FirstBlock(arena) /\ arenaBytes = Usable(arena)
    BY <1>2 DEF IInv
  <2>3. blocks \in Nat /\ arenaBytes \in Nat /\ ArenaWords(arena) = Words(blocks, blocks + arenaBytes)
    BY <2>2, Arena
  <2>4. mem \in [Words(blocks, blocks + arenaBytes) -> Nat] /\ freeList \in Nat
    BY <2>1, SoundFacts DEF Current
  <2>. QED BY <1>2, <2>2, <2>3, <2>4 DEF TypeOK, IInv, Owns
<1>. QED
  BY <1>1, <1>2

LEMMA IInvOwnedApart == IInv => OwnedApart
<1> SUFFICES ASSUME IInv, NEW p \in DOMAIN owned
             PROVE  /\ p % DSIZE = 0
                    /\ p \in blocks .. blocks + arenaBytes - DSIZE
                    /\ AllocOf(mem, HDRP(p)) = 1
                    /\ mem[FTRP(mem, p)] = mem[HDRP(p)]
                    /\ owned[p] + DSIZE <= SizeOf(mem, HDRP(p))
                    /\ NEXT_BLKP(mem, p) <= blocks + arenaBytes
                    /\ \A q \in DOMAIN owned : p < q => NEXT_BLKP(mem, p) <= q
  BY DEF OwnedApart
<1>1. arena # NULL
  BY DEF IInv, Nothing
<1>2. PICK K : /\ Sound(Current, blocks, blocks + arenaBytes, K)
               /\ DOMAIN K = DOMAIN owned
               /\ owned[p] + 16 <= K[p]
  BY <1>1 DEF IInv, Serves
<1>3. blocks \in Nat /\ arenaBytes \in Nat
  BY <1>1, Arena DEF IInv
<1>4. /\ p \in Nat /\ A16(p) /\ blocks <= p
      /\ K[p] \in Nat /\ K[p] >= 32 /\ p + K[p] <= blocks + arenaBytes
      /\ SizeOf(mem, HDRP(p)) = K[p] /\ AllocOf(mem, HDRP(p)) = 1
      /\ NEXT_BLKP(mem, p) = p + K[p]
      /\ mem[FTRP(mem, p)] = mem[HDRP(p)]
      /\ \A q \in DOMAIN K : p < q => p + K[p] <= q
  BY <1>2, SoundFacts DEF Current
<1>5. DSIZE = 16 /\ p % 16 = 0
  BY <1>4 DEF DSIZE, WSIZE, A16
<1>6. p \in blocks .. blocks + arenaBytes - 16
  BY <1>3, <1>4
<1>. QED
  BY <1>2, <1>4, <1>5, <1>6

LEMMA IInvWholeAgain == IInv => WholeAgain
<1> SUFFICES ASSUME IInv, arena # NULL, DOMAIN owned = {}
             PROVE  freeList = blocks /\ mem[HDRP(blocks)] = PACK(arenaBytes, 0)
  BY DEF WholeAgain
<1>1. PICK K : Sound(Current, blocks, blocks + arenaBytes, K) /\ DOMAIN K = {}
  BY DEF IInv, Serves
<1>2. blocks \in Nat /\ arenaBytes \in Nat
  BY Arena DEF IInv
<1>3. freeList = blocks /\ mem[HDRP(blocks)] = (blocks + arenaBytes) - blocks
  BY <1>1, SoundEmpty DEF Current
<1>. QED
  BY <1>2, <1>3 DEF PACK

LEMMA InitIInv == Init => IInv
<1> SUFFICES ASSUME Init
             PROVE  IInv
  OBVIOUS
<1>1. owned = Nothing /\ mem = Nothing
  BY DEF Init, Nothing
<1>2. owned \in [DOMAIN owned -> Requests \ {0}]
  BY <1>1 DEF Nothing
<1>. QED
  BY <1>1, <1>2 DEF Init, IInv, Owns, NULL

\* A sound heap is one whatever record it is held in.
LEMMA SoundSame ==
  ASSUME NEW h, NEW g, NEW lo, NEW hi, NEW K, Sound(h, lo, hi, K),
         g.mem = h.mem, g.freeList = h.freeList
  PROVE  Sound(g, lo, hi, K)
BY DEF Sound, Good, State

LEMMA ServesSame ==
  ASSUME NEW h, NEW g, NEW lo, NEW hi, NEW own, Serves(h, lo, hi, own),
         g.mem = h.mem, g.freeList = h.freeList
  PROVE  Serves(g, lo, hi, own)
BY SoundSame DEF Serves

\* What the callers hold after dropping old and taking new.
Held(own, old, new, size) ==
  [q \in (DOMAIN own \ {old}) \cup {new} |-> IF q = new THEN size ELSE own[q]]

LEMMA ServesNext ==
  ASSUME NEW h, NEW lo, NEW hi, NEW K, NEW own, Owns(own),
         DOMAIN K = DOMAIN own, \A p \in DOMAIN own : own[p] + 16 <= K[p],
         NEW old, NEW new, NEW size \in Requests, size # 0, NEW s \in Nat, s >= size + 16,
         Sound(h, lo, hi, With(Less(K, old), new, s))
  PROVE  Owns(Held(own, old, new, size)) /\ Serves(h, lo, hi, Held(own, old, new, size))
<1> DEFINE G == With(Less(K, old), new, s)
           o2 == Held(own, old, new, size)
<1>1. DOMAIN G = (DOMAIN own \ {old}) \cup {new}
      /\ \A q \in DOMAIN G : G[q] = IF q = new THEN s ELSE K[q]
  BY DEF With, Less
<1>2. DOMAIN o2 = (DOMAIN own \ {old}) \cup {new}
      /\ \A q \in DOMAIN o2 : o2[q] = IF q = new THEN size ELSE own[q]
  BY DEF Held
<1> HIDE DEF G
<1>3. \A q \in DOMAIN o2 : o2[q] + 16 <= G[q]
  BY <1>1, <1>2
<1>4. Owns(o2)
  BY <1>2 DEF Owns, Held
<1> HIDE DEF o2
<1>5. Serves(h, lo, hi, o2)
  BY <1>1, <1>2, <1>3 DEF Serves, G
<1>. QED
  BY <1>4, <1>5 DEF o2

\* An allocation serves the caller or changes nothing.
LEMMA AllocServes ==
  ASSUME NEW h, NEW lo, NEW hi, NEW own, Owns(own), Serves(h, lo, hi, own),
         NEW size \in Requests, size # 0
  PROVE  LET r == heapAlloc(h, size)
             o == IF r.p = NULL THEN own ELSE Held(own, NULL, r.p, size)
         IN  Owns(o) /\ Serves(r.h, lo, hi, o)
<1> DEFINE r == heapAlloc(h, size)
           o == IF r.p = NULL THEN own ELSE Held(own, NULL, r.p, size)
<1>1. PICK K : /\ Sound(h, lo, hi, K)
               /\ DOMAIN K = DOMAIN own
               /\ \A p \in DOMAIN own : own[p] + 16 <= K[p]
  BY DEF Serves
<1>2. size \in 0 .. SizeMax
  BY RequestsAssumption
<1>3. CASE r = Returns(h, 0)
  BY <1>3 DEF Returns, NULL
<1>4. CASE r # Returns(h, 0)
  <2>1. r.p # 0
    BY <1>1, <1>2, <1>4, AllocSound
  <2>2. PICK s \in Nat : s >= size + 16 /\ Sound(r.h, lo, hi, With(K, r.p, s))
    BY <1>1, <1>2, <1>4, AllocSound
  <2>3. 0 \notin DOMAIN K
    BY <1>1, SoundFacts
  <2>4. Less(K, 0) = K
    <3>1. DOMAIN K \ {0} = DOMAIN K
      BY <2>3
    <3>2. K = [q \in DOMAIN K |-> K[q]]
      BY <1>1 DEF Sound
    <3>. QED BY <3>1, <3>2 DEF Less
  <2> HIDE DEF r
  <2>5. Owns(Held(own, 0, r.p, size)) /\ Serves(r.h, lo, hi, Held(own, 0, r.p, size))
    BY <1>1, <2>2, <2>4, ServesNext
  <2>. QED BY <2>1, <2>5 DEF NULL, r
<1>. QED
  BY <1>3, <1>4

\* A reallocation serves the caller or changes nothing.
LEMMA ReallocServes ==
  ASSUME NEW h, NEW lo, NEW hi, NEW own, Owns(own), Serves(h, lo, hi, own),
         NEW p \in DOMAIN own, NEW size \in Requests, size # 0
  PROVE  LET r == heapRealloc(h, p, size)
             o == IF r.p = NULL THEN own ELSE Held(own, p, r.p, size)
         IN  Owns(o) /\ Serves(r.h, lo, hi, o)
<1> DEFINE r == heapRealloc(h, p, size)
<1>1. PICK K : /\ Sound(h, lo, hi, K)
               /\ DOMAIN K = DOMAIN own
               /\ \A q \in DOMAIN own : own[q] + 16 <= K[q]
  BY DEF Serves
<1>2. size \in 0 .. SizeMax
  BY RequestsAssumption
<1>3. CASE r = Returns(h, 0)
  BY <1>3 DEF Returns, NULL
<1>4. CASE r # Returns(h, 0)
  <2>1. r.p # 0
    BY <1>1, <1>2, <1>4, ReallocSound
  <2>2. PICK s \in Nat : s >= size + 16 /\ Sound(r.h, lo, hi, With(Less(K, p), r.p, s))
    BY <1>1, <1>2, <1>4, ReallocSound
  <2> HIDE DEF r
  <2>3. Owns(Held(own, p, r.p, size)) /\ Serves(r.h, lo, hi, Held(own, p, r.p, size))
    BY <1>1, <2>2, ServesNext
  <2>. QED BY <2>1, <2>3 DEF NULL, r
<1>. QED
  BY <1>3, <1>4

LEMMA FreeServes ==
  ASSUME NEW h, NEW lo, NEW hi, NEW own, Owns(own), Serves(h, lo, hi, own),
         NEW p \in DOMAIN own
  PROVE  Owns(Less(own, p)) /\ Serves(heapFree(h, p), lo, hi, Less(own, p))
<1>1. PICK K : /\ Sound(h, lo, hi, K)
               /\ DOMAIN K = DOMAIN own
               /\ \A q \in DOMAIN own : own[q] + 16 <= K[q]
  BY DEF Serves
<1>2. Sound(heapFree(h, p), lo, hi, Less(K, p))
  BY <1>1, FreeSound DEF Less
<1>3. DOMAIN Less(K, p) = DOMAIN Less(own, p)
      /\ \A q \in DOMAIN Less(own, p) : Less(own, p)[q] + 16 <= Less(K, p)[q]
  BY <1>1 DEF Less
<1>4. Owns(Less(own, p))
  BY DEF Owns, Less
<1>. QED
  BY <1>2, <1>3, <1>4 DEF Serves

\* The owner's words are inside the block, short of its footer.
LEMMA FillServes ==
  ASSUME NEW h, NEW lo, NEW hi, NEW own, Owns(own), Serves(h, lo, hi, own),
         NEW p \in DOMAIN own, NEW v \in Values, NEW W,
         W = {a \in DOMAIN h.mem : p <= a /\ a + WSIZE <= p + own[p]}
  PROVE  Serves([mem |-> [a \in DOMAIN h.mem |-> IF a \in W THEN v ELSE h.mem[a]],
                 freeList |-> h.freeList], lo, hi, own)
<1> DEFINE m2 == [a \in DOMAIN h.mem |-> IF a \in W THEN v ELSE h.mem[a]]
<1>1. PICK K : /\ Sound(h, lo, hi, K)
               /\ DOMAIN K = DOMAIN own
               /\ \A q \in DOMAIN own : own[q] + 16 <= K[q]
  BY DEF Serves
<1>2. h.mem \in [Words(lo, hi) -> Nat] /\ p \in Nat /\ K[p] \in Nat
  BY <1>1, SoundFacts
<1>3. v \in Nat /\ own[p] \in Nat
  BY ValuesAssumption, RequestsAssumption, SizeMaxAssumption DEF Owns
<1>4. m2 \in [Words(lo, hi) -> Nat]
  BY <1>2, <1>3
<1>5. \A a \in Words(lo, hi) : m2[a] # h.mem[a] => p <= a /\ a < p + K[p] - 16
  <2> TAKE a \in Words(lo, hi)
  <2>1. a \in Nat
    BY DEF Words
  <2>2. m2[a] # h.mem[a] => p <= a /\ a + 8 <= p + own[p]
    BY <1>2 DEF WSIZE
  <2>3. own[p] + 16 <= K[p]
    BY <1>1
  <2> HIDE DEF m2
  <2>. QED BY <2>1, <2>2, <2>3, <1>2, <1>3
<1> HIDE DEF m2
<1>6. Sound([mem |-> m2, freeList |-> h.freeList], lo, hi, K)
  BY <1>1, <1>4, <1>5, WriteSound
<1>7. Serves([mem |-> m2, freeList |-> h.freeList], lo, hi, own)
  BY <1>1, <1>6 DEF Serves
<1>. QED
  BY <1>7 DEF m2

\* Every call keeps the invariant.
LEMMA NextIInv == IInv /\ [Next]_vars => IInv'
<1> SUFFICES ASSUME IInv, [Next]_vars
             PROVE  IInv'
  OBVIOUS
<1> USE DEF Nothing
<1>1. Owns(owned)
  BY DEF IInv
<1>2. ASSUME arena # NULL
      PROVE  /\ arena \in Bases /\ blocks = FirstBlock(arena) /\ arenaBytes = Usable(arena)
             /\ Serves(Current, blocks, blocks + arenaBytes, owned)
  BY <1>2 DEF IInv
\* A call that leaves the arena where it is.
<1>3. ASSUME arena # NULL, UNCHANGED <<arena, blocks, arenaBytes>>, NEW h, NEW o,
             Becomes(h), owned' = o, Owns(o), Serves(h, blocks, blocks + arenaBytes, o)
      PROVE  IInv'
  <2>1. Serves(Current', blocks, blocks + arenaBytes, o)
    <3>1. (Current').mem = h.mem /\ (Current').freeList = h.freeList
      BY <1>3 DEF Current, Becomes
    <3>. QED BY <3>1, <1>3, ServesSame
  <2>. QED BY <2>1, <1>2, <1>3 DEF IInv
<1>4. ASSUME NEW size \in Requests, Alloc(size)
      PROVE  IInv'
  <2> DEFINE r == heapAlloc(Current, size)
             o == IF r.p = NULL THEN owned ELSE Held(owned, NULL, r.p, size)
  <2>1. arena # NULL /\ size # 0 /\ UNCHANGED <<arena, blocks, arenaBytes>>
    BY <1>4 DEF Alloc
  <2>2. Becomes(r.h) /\ owned' = o
    BY <1>4 DEF Alloc, Hold, Held
  <2>3. Owns(o) /\ Serves(r.h, blocks, blocks + arenaBytes, o)
    BY <2>1, <1>1, <1>2, AllocServes
  <2> HIDE DEF r, o
  <2>. QED BY <2>1, <2>2, <2>3, <1>3
<1>5. ASSUME NEW size \in Requests, NEW base \in Bases, FirstAlloc(size, base)
      PROVE  IInv'
  <2> DEFINE g == heapInit(base)
             lo == FirstBlock(base)
             hi == lo + Usable(base)
             r == heapAlloc(g, size)
             o == IF r.p = NULL THEN owned ELSE Held(owned, NULL, r.p, size)
  <2>1. /\ arena = NULL /\ size # 0 /\ arena' = base
        /\ blocks' = lo /\ arenaBytes' = Usable(base)
    BY <1>5 DEF FirstAlloc
  <2>2. Becomes(r.h) /\ owned' = o
    BY <1>5 DEF FirstAlloc, Hold, Held
  <2>3. owned = Nothing
    BY <2>1 DEF IInv
  <2>4. Serves(g, lo, hi, owned)
    <3>1. Sound(g, lo, hi, Nothing)
      BY InitSound
    <3>2. DOMAIN Nothing = {}
      OBVIOUS
    <3> HIDE DEF g, lo, hi, Nothing
    <3>. QED BY <3>1, <3>2, <2>3 DEF Serves
  <2>5. Owns(o) /\ Serves(r.h, lo, hi, o)
    <3> HIDE DEF g, lo, hi
    <3>. QED BY <2>1, <2>4, <1>1, AllocServes
  <2> HIDE DEF r, o
  <2>6. (Current').mem = r.h.mem /\ (Current').freeList = r.h.freeList
    BY <2>2 DEF Current, Becomes
  <2>7. Serves(Current', lo, hi, o)
    BY <2>5, <2>6, ServesSame
  <2>8. base # NULL
    BY BasesAssumption
  <2>. QED BY <2>1, <2>2, <2>5, <2>7, <2>8 DEF IInv
<1>6. ASSUME NEW p \in DOMAIN owned, Free(p)
      PROVE  IInv'
  <2>1. arena # NULL
    BY DEF IInv
  <2>2. Becomes(heapFree(Current, p)) /\ owned' = Less(owned, p)
        /\ UNCHANGED <<arena, blocks, arenaBytes>>
    BY <1>6 DEF Free, Less
  <2>3. /\ Owns(Less(owned, p))
        /\ Serves(heapFree(Current, p), blocks, blocks + arenaBytes, Less(owned, p))
    BY <2>1, <1>1, <1>2, FreeServes
  <2>. QED BY <2>1, <2>2, <2>3, <1>3
<1>7. ASSUME NEW p \in DOMAIN owned, NEW size \in Requests, Realloc(p, size)
      PROVE  IInv'
  <2> DEFINE r == heapRealloc(Current, p, size)
             o == IF r.p = NULL THEN owned ELSE Held(owned, p, r.p, size)
  <2>1. arena # NULL /\ size # 0 /\ UNCHANGED <<arena, blocks, arenaBytes>>
    BY <1>7 DEF Realloc, IInv
  <2>2. Becomes(r.h) /\ owned' = o
    BY <1>7 DEF Realloc, Hold, Held
  <2>3. Owns(o) /\ Serves(r.h, blocks, blocks + arenaBytes, o)
    BY <2>1, <1>1, <1>2, ReallocServes
  <2> HIDE DEF r, o
  <2>. QED BY <2>1, <2>2, <2>3, <1>3
<1>8. ASSUME NEW p \in DOMAIN owned, NEW v \in Values, Fill(p, v)
      PROVE  IInv'
  <2> DEFINE W == PayloadWords(p)
             m2 == [a \in DOMAIN mem |-> IF a \in W THEN v ELSE mem[a]]
             h == [mem |-> m2, freeList |-> freeList]
  <2>1. arena # NULL
    BY DEF IInv
  <2>2. /\ mem' = m2 /\ freeList' = freeList /\ owned' = owned
        /\ UNCHANGED <<arena, blocks, arenaBytes>>
    BY <1>8 DEF Fill
  <2>3. Current.mem = mem /\ Current.freeList = freeList
    BY DEF Current
  <2>4. W = {a \in DOMAIN mem : p <= a /\ a + WSIZE <= p + owned[p]}
    BY DEF PayloadWords
  <2> HIDE DEF W
  <2>5. Serves(h, blocks, blocks + arenaBytes, owned)
    BY <2>1, <2>3, <2>4, <1>1, <1>2, FillServes
  <2>6. Becomes(h)
    BY <2>2 DEF Becomes
  <2> HIDE DEF h
  <2>. QED BY <2>1, <2>2, <2>5, <2>6, <1>1, <1>3
<1>9. ASSUME Destroy
      PROVE  IInv'
  <2>1. /\ arena' = NULL /\ blocks' = NULL /\ arenaBytes' = 0 /\ freeList' = NULL
        /\ mem' = Nothing /\ owned' = Nothing
    BY <1>9 DEF Destroy
  <2>2. Owns(Nothing)
    BY DEF Owns
  <2>. QED BY <2>1, <2>2 DEF IInv
<1>10. CASE UNCHANGED vars
  <2>1. Current' = Current
    BY <1>10 DEF vars, Current
  <2>. QED BY <1>10, <2>1 DEF IInv, vars
<1>. QED
  BY <1>4, <1>5, <1>6, <1>7, <1>8, <1>9, <1>10 DEF Next

THEOREM Invariance == Spec => []IInv
<1>1. Init => IInv
  BY InitIInv
<1>2. IInv /\ [Next]_vars => IInv'
  BY NextIInv
<1>. QED
  BY <1>1, <1>2, PTL DEF Spec

\* Every variable keeps its type: among them, no word of the arena ever holds
\* anything but a number, and the words stay the arena's.
THEOREM TypeCorrect == Spec => []TypeOK
BY Invariance, IInvTypeOK, PTL

\* For every heap size, request, place of the arena and order of calls: what
\* callers hold are allocated blocks of the arena, aligned, tagged at both ends,
\* large enough and apart.
THEOREM HandsOutApart == Spec => []OwnedApart
BY Invariance, IInvOwnedApart, PTL

\* For every order of calls: when everything has been given back, the arena is
\* one free block, with nothing leaked or left unmerged.
THEOREM GivesBackWhole == Spec => []WholeAgain
BY Invariance, IInvWholeAgain, PTL

-----------------------------------------------------------------------------
(* The walk of the blocks.                                                 *)

\* Where the walk goes from u: to the block after it, and no further than the
\* epilogue.
Step(hi, sz, u) == IF u = hi THEN hi ELSE u + sz[u]

\* The test with which BlockWalk leaves the arena, in terms of the layout.
LEMMA StepOf ==
  ASSUME NEW m, NEW lo, NEW hi, NEW B, NEW sz, NEW al,
         Laid(lo, hi, B, sz), Tagged(m, lo, hi, B, sz, al), NEW u \in B \cup {hi}
  PROVE  /\ Step(hi, sz, u) \in B \cup {hi}
         /\ Step(hi, sz, u) = IF HDRP(NEXT_BLKP(m, u)) \in DOMAIN m
                                THEN NEXT_BLKP(m, u) ELSE u
<1>1. DOMAIN m = Words(lo, hi) /\ WSIZE = 8
  BY DEF Tagged, WSIZE
<1>2. /\ lo \in Nat /\ hi \in Nat /\ lo >= 24
      /\ \A b \in B : b \in Nat /\ sz[b] \in Nat /\ sz[b] >= 32
                      /\ (b + sz[b] = hi \/ b + sz[b] \in B)
      /\ \A b \in B : b + sz[b] <= hi
  BY DEF Laid
<1>3. CASE u = hi
  <2>1. SizeOf(m, hi - 8) = 0
    BY Reads
  <2>2. NEXT_BLKP(m, hi) = hi
    BY <2>1, <1>1, <1>2 DEF NEXT_BLKP, HDRP
  <2>. QED BY <2>2, <1>3 DEF Step
<1>4. CASE u # hi
  <2>1. u \in B
    BY <1>4
  <2>2. NEXT_BLKP(m, u) = u + sz[u] /\ Step(hi, sz, u) = u + sz[u]
    BY <2>1, <1>4, Neighbours DEF Step
  <2>3. u + sz[u] - 8 \in Words(lo, hi)
    <3>1. hi - 8 \in Words(lo, hi) /\ \A b \in B : b - 8 \in Words(lo, hi)
      BY WordsOf
    <3> DEFINE e == u + sz[u]
    <3>2. e = hi \/ e \in B
      BY <2>1, <1>2
    <3> HIDE DEF e
    <3>3. e - 8 \in Words(lo, hi)
      BY <3>1, <3>2
    <3>. QED BY <2>1, <3>3, <1>2 DEF e
  <2>4. HDRP(NEXT_BLKP(m, u)) \in DOMAIN m
    BY <2>1, <2>2, <2>3, <1>1, <1>2 DEF HDRP
  <2>. QED BY <2>1, <2>2, <2>4, <1>2
<1>. QED
  BY <1>3, <1>4

\* BlockWalk is well defined: it goes from block to block.
LEMMA BlockWalkDef ==
  ASSUME NEW hi, NEW B, NEW sz, NEW al,
         Laid(blocks, hi, B, sz), Tagged(mem, blocks, hi, B, sz, al)
  PROVE  /\ BlockWalk[0] = blocks
         /\ \A k \in Nat : /\ BlockWalk[k] \in B \cup {hi}
                           /\ BlockWalk[k + 1] = Step(hi, sz, BlockWalk[k])
<1> DEFINE U == B \cup {hi}
           Go(u) == IF HDRP(NEXT_BLKP(mem, u)) \in DOMAIN mem
                      THEN NEXT_BLKP(mem, u) ELSE u
           step == [u \in U |-> Step(hi, sz, u)]
           D(f) == [k \in Nat |-> IF k = 0 THEN blocks ELSE Go(f[k - 1])]
<1>1. \A u \in U : Step(hi, sz, u) \in U /\ Step(hi, sz, u) = Go(u)
  BY StepOf
<1>2. step \in [U -> U] /\ blocks \in U
  BY <1>1 DEF Laid
<1>3. \A u \in U : step[u] = Step(hi, sz, u) /\ step[u] = Go(u)
  BY <1>1
<1>4. BlockWalk = CHOOSE f : f = D(f)
  BY DEF BlockWalk
<1> HIDE DEF step, U, Go
<1>5. PICK f : Iterates(f, U, step, blocks)
  BY <1>2, Iteration
<1> USE DEF Iterates
<1>6. f = D(f)
  <2>1. ASSUME NEW k \in Nat
        PROVE  f[k] = IF k = 0 THEN blocks ELSE Go(f[k - 1])
    <3>1. CASE k = 0
      BY <3>1, <1>5
    <3>2. CASE k # 0
      <4>1. k - 1 \in Nat /\ (k - 1) + 1 = k
        BY <3>2
      <4>2. f[k] = step[f[k - 1]] /\ f[k - 1] \in U
        BY <4>1, <1>5
      <4>. QED BY <3>2, <4>2, <1>3
    <3>. QED BY <3>1, <3>2
  <2>2. DOMAIN f = Nat /\ f = [k \in Nat |-> f[k]]
    BY <1>5
  <2>. QED BY <2>1, <2>2
<1> DEFINE bw == BlockWalk
<1>7. bw = D(bw)
  BY <1>4, <1>6
<1> HIDE DEF bw
<1>8. \A k \in Nat : bw[k] = IF k = 0 THEN blocks ELSE Go(bw[k - 1])
  BY <1>7
<1>9. \A k \in Nat : bw[k + 1] = Go(bw[k])
  <2> TAKE k \in Nat
  <2>1. k + 1 \in Nat /\ k + 1 # 0 /\ (k + 1) - 1 = k
    OBVIOUS
  <2>. QED BY <2>1, <1>8
<1> DEFINE S == {k \in Nat : bw[k] \in U}
<1>10. Nat \subseteq S
  <2>1. 0 \in S
    BY <1>2, <1>8
  <2>2. ASSUME NEW k \in Nat, k \in S
        PROVE  k + 1 \in S
    <3>1. bw[k + 1] \in U
      BY <2>2, <1>1, <1>9
    <3>. QED BY <3>1
  <2> HIDE DEF S
  <2>. QED BY <2>1, <2>2, SetInduction
<1>11. \A k \in Nat : bw[k] \in U /\ bw[k + 1] = Step(hi, sz, bw[k])
  BY <1>1, <1>9, <1>10
<1>. QED
  BY <1>8, <1>11 DEF bw, U

\* The walk gains at least a block's length with each step, until it is at the
\* epilogue.
LEMMA BlockWalkGrows ==
  ASSUME NEW hi, NEW B, NEW sz, NEW al,
         Laid(blocks, hi, B, sz), Tagged(mem, blocks, hi, B, sz, al), NEW k \in Nat
  PROVE  BlockWalk[k] = hi \/ BlockWalk[k] >= blocks + 32 * k
<1> DEFINE bw == BlockWalk
           S == {n \in Nat : bw[n] = hi \/ bw[n] >= blocks + 32 * n}
<1>1. /\ bw[0] = blocks
      /\ \A n \in Nat : bw[n] \in B \cup {hi} /\ bw[n + 1] = Step(hi, sz, bw[n])
  BY BlockWalkDef
<1>2. blocks \in Nat /\ hi \in Nat /\ \A b \in B : b \in Nat /\ sz[b] \in Nat /\ sz[b] >= 32
  BY DEF Laid
<1> HIDE DEF bw
<1>3. 0 \in S
  BY <1>1, <1>2
<1>4. ASSUME NEW n \in Nat, n \in S
      PROVE  n + 1 \in S
  <2>1. CASE bw[n] = hi
    <3>1. bw[n + 1] = hi
      BY <2>1, <1>1 DEF Step
    <3>. QED BY <3>1
  <2>2. CASE bw[n] # hi
    <3>1. bw[n] \in B /\ bw[n] >= blocks + 32 * n
      BY <2>2, <1>1, <1>4
    <3>2. bw[n + 1] = bw[n] + sz[bw[n]]
      BY <2>2, <1>1 DEF Step
    <3>3. bw[n + 1] >= blocks + 32 * (n + 1)
      BY <3>1, <3>2, <1>2
    <3>. QED BY <3>3
  <2>. QED BY <2>1, <2>2
<1> HIDE DEF S
<1>5. k \in S
  BY <1>3, <1>4, SetInduction
<1>. QED
  BY <1>5 DEF S, bw

\* The walk passes every block: were one missed, the first of them would start
\* where a block that was passed ends.
LEMMA BlockWalkReaches ==
  ASSUME NEW hi, NEW B, NEW sz, NEW al,
         Laid(blocks, hi, B, sz), Tagged(mem, blocks, hi, B, sz, al), NEW b \in B
  PROVE  \E k \in Nat : BlockWalk[k] = b
<1> DEFINE bw == BlockWalk
           T == {c \in B : \A k \in Nat : bw[k] # c}
<1>1. /\ bw[0] = blocks
      /\ \A n \in Nat : bw[n + 1] = Step(hi, sz, bw[n])
  BY BlockWalkDef
<1>2. /\ \A c \in B : c \in Nat /\ sz[c] \in Nat /\ sz[c] >= 32 /\ c + sz[c] <= hi
      /\ \A c \in B : c = blocks \/ \E d \in B : d + sz[d] = c
      /\ hi \in Nat
  BY DEF Laid
<1> HIDE DEF bw
<1>3. ASSUME T # {}
      PROVE  FALSE
  <2>1. T \subseteq Nat
    BY <1>2
  <2> HIDE DEF T
  <2>2. PICK c \in T : \A d \in T : c <= d
    BY <1>3, <2>1, LeastElement
  <2> USE DEF T
  <2>3. c # blocks
    BY <2>2, <1>1
  <2>4. PICK d \in B : d + sz[d] = c
    BY <2>2, <2>3, <1>2
  <2>5. d \in Nat /\ sz[d] \in Nat /\ sz[d] >= 32 /\ d + sz[d] <= hi /\ c \in Nat
    BY <2>2, <1>2
  <2>6. d \notin T
    <3>1. ~(c <= d)
      BY <2>4, <2>5
    <3>. QED BY <3>1, <2>2
  <2>7. PICK k \in Nat : bw[k] = d
    BY <2>6
  <2>8. bw[k + 1] = c
    <3>1. d # hi
      BY <2>5
    <3>. QED BY <3>1, <2>4, <2>7, <1>1 DEF Step
  <2>9. k + 1 \in Nat
    OBVIOUS
  <2>. QED BY <2>2, <2>8, <2>9
<1>. QED
  BY <1>3 DEF bw

\* What heapCheck passes are the blocks, in an arena of any size malloc gave.
LEMMA BlocksAreB ==
  ASSUME NEW hi, NEW B, NEW sz, NEW al,
         Laid(blocks, hi, B, sz), Tagged(mem, blocks, hi, B, sz, al),
         hi - blocks <= HeapSize + 16
  PROVE  Blocks = B /\ FreeBlocks = FreeOf(B, al)
<1>1. MaxNodes = (HeapSize + 16) \div 32 /\ WSIZE = 8 /\ HeapSize \in Nat
  BY HeapSizeAssumption DEF MaxNodes, MIN_BLOCK, DSIZE, WSIZE
<1>2. /\ blocks \in Nat /\ hi \in Nat
      /\ \A b \in B : b \in Nat /\ sz[b] \in Nat /\ sz[b] >= 32 /\ b + sz[b] <= hi
  BY DEF Laid
<1>3. ASSUME NEW b \in B
      PROVE  /\ SizeOf(mem, HDRP(b)) > 0
             /\ b \in {BlockWalk[k] : k \in 0 .. MaxNodes}
  <2>1. SizeOf(mem, HDRP(b)) = sz[b]
    BY Neighbours
  <2>2. PICK k \in Nat : BlockWalk[k] = b
    BY BlockWalkReaches
  <2>3. b # hi
    BY <1>2
  <2>4. b >= blocks + 32 * k
    BY <2>2, <2>3, BlockWalkGrows
  <2>5. 32 * k + 32 <= HeapSize + 16
    BY <2>4, <1>1, <1>2
  <2>6. k <= (HeapSize + 16) \div 32
    BY <2>5, <1>1
  <2>7. k \in 0 .. MaxNodes
    BY <2>6, <1>1
  <2>. QED BY <2>1, <2>2, <2>7, <1>2
<1>4. ASSUME NEW k \in 0 .. MaxNodes, SizeOf(mem, HDRP(BlockWalk[k])) > 0
      PROVE  BlockWalk[k] \in B
  <2>1. BlockWalk[k] \in B \cup {hi}
    BY BlockWalkDef
  <2>2. SizeOf(mem, HDRP(hi)) = 0
    BY Reads, <1>1 DEF HDRP
  <2>. QED BY <2>1, <2>2, <1>4
<1>5. Blocks = B
  BY <1>3, <1>4 DEF Blocks
<1>6. \A b \in B : IsFree(b) <=> al[b] = 0
  BY Neighbours DEF IsFree
<1>. QED
  BY <1>5, <1>6 DEF FreeBlocks, FreeOf

-----------------------------------------------------------------------------
(* The walk of the free list.                                              *)

\* The walk passes every node: were one missed, the one of least rank would
\* follow one that was passed, or be the first.
LEMMA FreeNodeReaches ==
  ASSUME NEW h, NEW F, NEW r, Linked(h.mem, h.freeList, F, r), 0 \notin F, NEW b \in F
  PROVE  \E k \in Nat : FreeNode(h)[k] = b
<1> DEFINE node == FreeNode(h)
           Missed == {c \in F : \A k \in Nat : node[k] # c}
           T == {r[c] : c \in Missed}
<1>1. node[0] = h.freeList
      /\ \A k \in Nat : node[k + 1] = IF node[k] = 0 THEN 0 ELSE h.mem[node[k] + 8]
  BY FreeNodeDef DEF NULL, NextNode, WSIZE
<1> HIDE DEF node
<1>2. ASSUME Missed # {}
      PROVE  FALSE
  <2>1. T \subseteq Nat /\ T # {}
    BY <1>2 DEF Linked
  <2> HIDE DEF T
  <2>2. PICK x \in T : \A y \in T : x <= y
    BY <2>1, LeastElement
  <2> USE DEF T
  <2>3. PICK c \in Missed : r[c] = x
    BY <2>2
  <2>4. CASE h.mem[c] = 0
    <3>1. c = h.freeList
      BY <2>4, <2>3 DEF Linked
    <3>. QED BY <3>1, <2>3, <1>1
  <2>5. CASE h.mem[c] # 0
    <3> DEFINE d == h.mem[c]
    <3>1. d \in F /\ h.mem[d + 8] = c /\ r[d] < r[c] /\ r[d] \in Nat /\ r[c] \in Nat /\ d # 0
      BY <2>3, <2>5 DEF Linked
    <3> HIDE DEF d
    <3>2. d \notin Missed
      <4>1. ~(r[c] <= r[d])
        BY <3>1
      <4>. QED BY <4>1, <2>2, <2>3
    <3>3. PICK k \in Nat : node[k] = d
      BY <3>1, <3>2
    <3>4. node[k + 1] = c /\ k + 1 \in Nat
      BY <3>1, <3>3, <1>1
    <3>. QED BY <3>4, <2>3
  <2>. QED BY <2>4, <2>5
<1>. QED
  BY <1>2 DEF node

\* Past the end there is nothing more.
LEMMA FreeNodeStaysPast ==
  ASSUME NEW h, NEW n \in Nat, FreeNode(h)[n] = 0, NEW k \in Nat, k >= n
  PROVE  FreeNode(h)[k] = 0
<1> DEFINE node == FreeNode(h)
           S == {j \in Nat : node[n + j] = 0}
<1>1. \A j \in Nat : node[j + 1] = IF node[j] = 0 THEN 0 ELSE h.mem[node[j] + 8]
  BY FreeNodeDef DEF NULL, NextNode, WSIZE
<1> HIDE DEF node
<1>2. 0 \in S
  BY DEF node
<1>3. ASSUME NEW j \in Nat, j \in S
      PROVE  j + 1 \in S
  <2>1. n + j \in Nat /\ (n + j) + 1 = n + (j + 1)
    OBVIOUS
  <2>. QED BY <2>1, <1>1, <1>3
<1> HIDE DEF S
<1>4. k - n \in S
  <2>1. k - n \in Nat
    OBVIOUS
  <2>. QED BY <2>1, <1>2, <1>3, SetInduction
<1>. QED
  BY <1>4 DEF S, node

\* Along the walk the ranks grow, so that no node is passed twice.
LEMMA FreeNodeRanks ==
  ASSUME NEW h, NEW F, NEW r, Linked(h.mem, h.freeList, F, r), 0 \notin F,
         NEW n \in Nat, FreeNode(h)[n] # 0,
         NEW i \in Nat, NEW j \in Nat, i < j, j <= n
  PROVE  FreeNode(h)[i] \in F /\ FreeNode(h)[j] \in F /\ r[FreeNode(h)[i]] < r[FreeNode(h)[j]]
<1> DEFINE node == FreeNode(h)
           S == {q \in Nat : i + 1 + q <= n => r[node[i]] < r[node[i + 1 + q]]}
<1>1. \A k \in Nat : node[k + 1] = IF node[k] = 0 THEN 0 ELSE h.mem[node[k] + 8]
  BY FreeNodeDef DEF NULL, NextNode, WSIZE
<1>2. \A k \in Nat : k <= n => node[k] \in F
  <2> TAKE k \in Nat
  <2> HAVE k <= n
  <2>1. node[k] # 0
    BY FreeNodeStaysPast
  <2>2. node[k] \in F \cup {0}
    BY FreeNodeListed
  <2>. QED BY <2>1, <2>2
<1> HIDE DEF node
<1>3. ASSUME NEW k \in Nat, k + 1 <= n
      PROVE  r[node[k]] < r[node[k + 1]]
  <2>1. node[k] \in F /\ node[k + 1] \in F
    BY <1>2, <1>3
  <2>2. node[k] # 0 /\ node[k + 1] # 0 /\ node[k + 1] = h.mem[node[k] + 8]
    BY <2>1, <1>1
  <2>. QED BY <2>1, <2>2 DEF Linked
<1>4. \A k \in Nat : k <= n => r[node[k]] \in Nat
  BY <1>2 DEF Linked
<1>5. 0 \in S
  <2>1. i + 1 + 0 = i + 1
    OBVIOUS
  <2>. QED BY <2>1, <1>3
<1>6. ASSUME NEW q \in Nat, q \in S
      PROVE  q + 1 \in S
  <2> DEFINE k == i + 1 + q
  <2>1. k \in Nat /\ i + 1 + (q + 1) = k + 1
    OBVIOUS
  <2>2. k <= n => r[node[i]] < r[node[k]]
    BY <1>6
  <2> HIDE DEF k
  <2>3. ASSUME k + 1 <= n
        PROVE  r[node[i]] < r[node[k + 1]]
    <3>1. r[node[k]] < r[node[k + 1]] /\ r[node[i]] < r[node[k]]
      BY <2>1, <2>2, <2>3, <1>3
    <3>2. r[node[i]] \in Nat /\ r[node[k]] \in Nat /\ r[node[k + 1]] \in Nat
      BY <2>1, <2>3, <1>4
    <3>. QED BY <3>1, <3>2
  <2>. QED BY <2>1, <2>3
<1> HIDE DEF S
<1>7. j - i - 1 \in S
  <2>1. j - i - 1 \in Nat
    OBVIOUS
  <2>. QED BY <2>1, <1>5, <1>6, SetInduction
<1>8. r[node[i]] < r[node[j]]
  <2>1. i + 1 + (j - i - 1) = j
    OBVIOUS
  <2>. QED BY <2>1, <1>7 DEF S
<1>. QED
  BY <1>2, <1>8 DEF node

\* The walk ends within MaxNodes steps: the arena has no room for more blocks,
\* and by the ranks the nodes it passes are all different.
LEMMA FreeNodeEnds ==
  ASSUME NEW h, NEW lo, NEW hi, NEW B, NEW sz, NEW al, NEW F,
         State(h, lo, hi, B, sz, al, F), hi - lo <= HeapSize + 16
  PROVE  FreeNode(h)[MaxNodes] = 0
<1> DEFINE node == FreeNode(h)
           M == MaxNodes
           slot == [i \in 0 .. M |-> (node[i] - lo) \div 32]
<1>1. PICK r : Linked(h.mem, h.freeList, F, r)
  BY DEF State
<1>2. /\ lo \in Nat /\ hi \in Nat
      /\ \A b \in B : b \in Nat /\ b >= lo /\ sz[b] \in Nat /\ sz[b] >= 32 /\ b + sz[b] <= hi
      /\ \A b, c \in B : b < c => b + sz[b] <= c
      /\ F \subseteq B /\ 0 \notin F
  BY NodesApart DEF State, Laid
<1>3. M = (HeapSize + 16) \div 32 /\ HeapSize \in Nat /\ HeapSize >= 32
  BY HeapSizeAssumption DEF MaxNodes, MIN_BLOCK, DSIZE, WSIZE
<1> HIDE DEF M
<1>4. M \in Nat /\ M >= 1
  BY <1>3
<1> SUFFICES ASSUME node[M] # 0
             PROVE  FALSE
  BY DEF M
<1>5. ASSUME NEW i \in 0 .. M, NEW j \in 0 .. M, i < j
      PROVE  node[i] \in F /\ node[j] \in F /\ node[i] # node[j]
  <2>1. node[i] \in F /\ node[j] \in F /\ r[node[i]] < r[node[j]]
    BY <1>1, <1>2, <1>4, <1>5, FreeNodeRanks
  <2> HIDE DEF node
  <2>2. r[node[i]] \in Nat /\ r[node[j]] \in Nat
    BY <2>1, <1>1 DEF Linked
  <2>. QED BY <2>1, <2>2
<1> HIDE DEF node
<1>6. \A i \in 0 .. M : node[i] \in F
  <2> TAKE i \in 0 .. M
  <2>1. CASE i < M
    BY <2>1, <1>4, <1>5
  <2>2. CASE i = M
    <3>1. 0 \in 0 .. M /\ M \in 0 .. M /\ 0 < M
      BY <1>4
    <3>. QED BY <2>2, <3>1, <1>5
  <2>. QED BY <2>1, <2>2, <1>4
<1>7. slot \in [0 .. M -> 0 .. M - 1]
  <2> SUFFICES ASSUME NEW i \in 0 .. M
               PROVE  (node[i] - lo) \div 32 \in 0 .. M - 1
    OBVIOUS
  <2> DEFINE d == node[i] - lo
  <2>1. node[i] \in B
    BY <1>2, <1>6
  <2>2. d \in Nat /\ d + 32 <= HeapSize + 16
    <3>1. node[i] \in Nat /\ node[i] >= lo /\ node[i] + 32 <= hi
      BY <2>1, <1>2
    <3>. QED BY <3>1, <1>2, <1>3
  <2> HIDE DEF d
  <2>3. d \div 32 \in Nat /\ d \div 32 <= M - 1
    BY <2>2, <1>3
  <2>. QED BY <2>3, <1>4 DEF d
<1> HIDE DEF slot
<1>8. \E i, j \in 0 .. M : i # j /\ slot[i] = slot[j]
  <2>1. IsFiniteSet(0 .. M) /\ Cardinality(0 .. M) = M + 1
    BY <1>4, FS_Interval
  <2>2. IsFiniteSet(0 .. M - 1) /\ Cardinality(0 .. M - 1) = M
    <3> DEFINE N == M - 1
    <3>1. N \in Nat /\ N + 1 = M
      BY <1>4
    <3> HIDE DEF N
    <3>a. \A n \in Nat : IsFiniteSet(0 .. n) /\ Cardinality(0 .. n) = n + 1
      BY FS_Interval
    <3>2. IsFiniteSet(0 .. N) /\ Cardinality(0 .. N) = N + 1
      BY <3>1, <3>a
    <3>. QED BY <3>1, <3>2 DEF N
  <2>3. Cardinality(0 .. M - 1) < Cardinality(0 .. M)
    BY <2>1, <2>2, <1>4
  <2> DEFINE S == 0 .. M
             T == 0 .. M - 1
  <2> HIDE DEF S, T
  <2>4. IsFiniteSet(S) /\ IsFiniteSet(T) /\ Cardinality(T) < Cardinality(S) /\ slot \in [S -> T]
    BY <2>1, <2>2, <2>3, <1>7 DEF S, T
  <2>5. \E i, j \in S : i # j /\ slot[i] = slot[j]
    BY <2>4, FS_PigeonHole
  <2>. QED BY <2>5 DEF S
<1>9. PICK i \in 0 .. M, j \in 0 .. M : i < j /\ slot[i] = slot[j]
  BY <1>8, <1>4
<1>10. \A b, c \in B : b < c => (b - lo) \div 32 # (c - lo) \div 32
  <2> TAKE b, c \in B
  <2> HAVE b < c
  <2>1. b \in Nat /\ c \in Nat /\ b >= lo /\ b + 32 <= c
    BY <1>2
  <2>. QED BY <2>1, <1>2
<1>11. node[i] \in B /\ node[j] \in B /\ node[i] # node[j]
  BY <1>2, <1>5, <1>9
<1>12. slot[i] = (node[i] - lo) \div 32 /\ slot[j] = (node[j] - lo) \div 32
  BY DEF slot
<1>13. node[i] \in Nat /\ node[j] \in Nat
  BY <1>2, <1>11
<1>14. (node[i] - lo) \div 32 = (node[j] - lo) \div 32
  BY <1>9, <1>12
<1>15. CASE node[i] < node[j]
  BY <1>10, <1>11, <1>14, <1>15
<1>16. CASE node[j] < node[i]
  <2>1. (node[j] - lo) \div 32 # (node[i] - lo) \div 32
    BY <1>10, <1>11, <1>16
  <2>. QED BY <2>1, <1>14
<1>17. node[i] < node[j] \/ node[j] < node[i]
  BY <1>11, <1>13
<1>. QED
  BY <1>15, <1>16, <1>17

\* The nodes passed before that are the free blocks.
LEMMA FreeNodesAreF ==
  ASSUME NEW h, NEW lo, NEW hi, NEW B, NEW sz, NEW al, NEW F,
         State(h, lo, hi, B, sz, al, F), hi - lo <= HeapSize + 16
  PROVE  /\ \A k \in Nat : FreeNode(h)[k] # 0 => FreeNode(h)[k] \in F
         /\ \A b \in F : \E k \in 0 .. MaxNodes : FreeNode(h)[k] = b
<1>1. PICK r : Linked(h.mem, h.freeList, F, r)
  BY DEF State
<1>2. 0 \notin F
  BY NodesApart DEF State
<1>3. MaxNodes \in Nat
  BY HeapSizeAssumption DEF MaxNodes, MIN_BLOCK, DSIZE, WSIZE
<1>4. ASSUME NEW b \in F
      PROVE  \E k \in 0 .. MaxNodes : FreeNode(h)[k] = b
  <2>1. PICK k \in Nat : FreeNode(h)[k] = b
    BY <1>1, <1>2, FreeNodeReaches
  <2>2. ~(k >= MaxNodes)
    BY <2>1, <1>2, <1>3, FreeNodeEnds, FreeNodeStaysPast
  <2>. QED BY <2>1, <2>2, <1>3
<1>. QED
  BY <1>1, <1>4, FreeNodeListed

\* findFit finds a block whenever some listed block is large enough: the search
\* stops at none before it.
LEMMA FindFitFinds ==
  ASSUME NEW h, NEW lo, NEW hi, NEW B, NEW sz, NEW al, NEW F,
         State(h, lo, hi, B, sz, al, F), hi - lo <= HeapSize + 16, NEW asize,
         NEW b \in F, sz[b] >= asize
  PROVE  findFit(h, asize) # 0
<1> DEFINE node == FreeNode(h)
           fits == {k \in 0 .. MaxNodes :
                      node[k] # NULL /\ SizeOf(h.mem, HDRP(node[k])) >= asize}
           first == CHOOSE k \in fits : \A j \in fits : k <= j
<1>1. findFit(h, asize) = IF fits = {} THEN NULL ELSE node[first]
  BY DEF findFit
<1>2. PICK k \in 0 .. MaxNodes : node[k] = b
  BY FreeNodesAreF
<1>3. b \in B /\ b # 0 /\ SizeOf(h.mem, HDRP(b)) = sz[b]
  BY NodesApart, Neighbours DEF State
<1> HIDE DEF node
<1>4. k \in fits
  BY <1>2, <1>3 DEF NULL
<1>5. fits \subseteq Nat
  OBVIOUS
<1>6. \A j \in fits : node[j] # 0
  BY DEF NULL
<1> HIDE DEF fits
<1>7. first \in fits
  <2>1. \E i \in fits : \A j \in fits : i <= j
    BY <1>4, <1>5, LeastElement
  <2>. QED BY <2>1
<1>. QED
  BY <1>1, <1>4, <1>6, <1>7

-----------------------------------------------------------------------------
(* The two properties.                                                     *)

\* What an arena that exists is, in the terms of the walks.
LEMMA Inspected ==
  ASSUME IInv, arena # NULL
  PROVE  \E B, sz, al :
           /\ Good(Current, blocks, blocks + arenaBytes, B, sz, al)
           /\ Laid(blocks, blocks + arenaBytes, B, sz)
           /\ Tagged(mem, blocks, blocks + arenaBytes, B, sz, al)
           /\ State(Current, blocks, blocks + arenaBytes, B, sz, al, FreeOf(B, al))
           /\ (blocks + arenaBytes) - blocks <= HeapSize + 16
           /\ Blocks = B /\ FreeBlocks = FreeOf(B, al)
           /\ \A p \in DOMAIN owned : p \in B /\ al[p] = 1 /\ sz[p] >= owned[p] + 16
<1>1. PICK K : /\ Sound(Current, blocks, blocks + arenaBytes, K)
               /\ DOMAIN K = DOMAIN owned
               /\ \A p \in DOMAIN owned : owned[p] + 16 <= K[p]
  BY DEF IInv, Serves
<1>2. PICK B, sz, al : /\ Good(Current, blocks, blocks + arenaBytes, B, sz, al)
                       /\ K = [c \in HeldOf(B, al) |-> sz[c]]
  BY <1>1 DEF Sound
<1>3. /\ State(Current, blocks, blocks + arenaBytes, B, sz, al, FreeOf(B, al))
      /\ Laid(blocks, blocks + arenaBytes, B, sz)
      /\ Tagged(mem, blocks, blocks + arenaBytes, B, sz, al)
  BY <1>2 DEF Good, State, Current
<1>4. (blocks + arenaBytes) - blocks <= HeapSize + 16
  <2>1. arena \in Bases /\ blocks = FirstBlock(arena) /\ arenaBytes = Usable(arena)
    BY DEF IInv
  <2>2. blocks \in Nat /\ arenaBytes \in Nat /\ arenaBytes <= HeapSize + 16
    BY <2>1, Arena
  <2>. QED BY <2>2, HeapSizeAssumption
<1>5. Blocks = B /\ FreeBlocks = FreeOf(B, al)
  BY <1>3, <1>4, BlocksAreB
<1>6. ASSUME NEW p \in DOMAIN owned
      PROVE  p \in B /\ al[p] = 1 /\ sz[p] >= owned[p] + 16
  <2>1. p \in HeldOf(B, al) /\ K[p] = sz[p] /\ owned[p] + 16 <= K[p]
    BY <1>1, <1>2
  <2>2. p \in B /\ al[p] = 1
    BY <2>1 DEF HeldOf
  <2>3. sz[p] \in Nat /\ owned[p] \in Nat
    BY <2>2, <1>3, RequestsAssumption, SizeMaxAssumption DEF Laid, IInv, Owns
  <2>. QED BY <2>1, <2>2, <2>3
<1>. QED
  BY <1>2, <1>3, <1>4, <1>5, <1>6

\* The last block ends at the epilogue.
LEMMA LastBlock ==
  ASSUME NEW lo, NEW hi, NEW B, NEW sz, Laid(lo, hi, B, sz)
  PROVE  \E b \in B : b + sz[b] = hi
<1>1. /\ hi \in Nat /\ lo \in B
      /\ \A b \in B : /\ b \in Nat /\ sz[b] \in Nat /\ sz[b] >= 32
                      /\ b + sz[b] <= hi /\ (b + sz[b] = hi \/ b + sz[b] \in B)
  BY DEF Laid
<1> DEFINE T == {hi - b : b \in B}
<1>2. T \subseteq Nat /\ T # {}
  <2>1. \A b \in B : hi - b \in Nat
    BY <1>1
  <2>. QED BY <2>1, <1>1
<1> HIDE DEF T
<1>3. PICK x \in T : \A y \in T : x <= y
  BY <1>2, LeastElement
<1>4. PICK b \in B : x = hi - b
  BY <1>3 DEF T
<1>5. ASSUME b + sz[b] \in B
      PROVE  FALSE
  <2>1. x <= hi - (b + sz[b])
    BY <1>3, <1>5 DEF T
  <2>. QED BY <2>1, <1>1, <1>4
<1>. QED
  BY <1>1, <1>5

\* Both walks of the invariant's heap find what heapCheck asks for.
LEMMA IInvHeapCheck == IInv => HeapCheck
<1> SUFFICES ASSUME IInv, arena # NULL
             PROVE  HeapCheck
  BY DEF HeapCheck
<1> DEFINE hi == blocks + arenaBytes
<1>1. PICK B, sz, al :
           /\ Good(Current, blocks, hi, B, sz, al)
           /\ Laid(blocks, hi, B, sz)
           /\ Tagged(mem, blocks, hi, B, sz, al)
           /\ State(Current, blocks, hi, B, sz, al, FreeOf(B, al))
           /\ hi - blocks <= HeapSize + 16
           /\ Blocks = B /\ FreeBlocks = FreeOf(B, al)
  BY Inspected
<1>2. Current.mem = mem
  BY DEF Current
<1> HIDE DEF hi
<1>3. WSIZE = 8 /\ DSIZE = 16 /\ MIN_BLOCK = 32 /\ NULL = 0
  BY DEF WSIZE, DSIZE, MIN_BLOCK, NULL
<1>4. \A b \in B : /\ SizeOf(mem, HDRP(b)) = sz[b] /\ AllocOf(mem, HDRP(b)) = al[b]
                   /\ NEXT_BLKP(mem, b) = b + sz[b] /\ FTRP(mem, b) = b + sz[b] - 16
  BY <1>1, Neighbours
<1>5. ASSUME NEW b \in B
      PROVE  /\ SizeOf(mem, HDRP(b)) >= MIN_BLOCK
             /\ SizeOf(mem, HDRP(b)) % DSIZE = 0
             /\ b % DSIZE = 0
             /\ mem[HDRP(b)] = mem[FTRP(mem, b)]
             /\ IsFree(b) => NEXT_BLKP(mem, b) \notin FreeBlocks
  <2>1. sz[b] >= 32 /\ sz[b] % 16 = 0 /\ b % 16 = 0
    BY <1>1 DEF Laid, A16
  <2>2. mem[HDRP(b)] = mem[FTRP(mem, b)]
    <3>1. mem[b - 8] = mem[b + sz[b] - 16]
      BY <1>1 DEF Tagged
    <3>. QED BY <3>1, <1>3, <1>4 DEF HDRP
  <2>3. ASSUME IsFree(b)
        PROVE  NEXT_BLKP(mem, b) \notin FreeBlocks
    <3>1. al[b] = 0
      BY <2>3, <1>4 DEF IsFree
    <3>2. b + sz[b] \in B => al[b + sz[b]] = 1
      BY <3>1, <1>1 DEF Good
    <3>. QED BY <3>2, <1>1, <1>4 DEF FreeOf
  <2>. QED BY <2>1, <2>2, <2>3, <1>3, <1>4
<1>6. \E b \in Blocks : NEXT_BLKP(mem, b) = hi
  <2>1. PICK b \in B : b + sz[b] = hi
    BY <1>1, LastBlock
  <2>. QED BY <2>1, <1>1, <1>4
<1>7. /\ \A k \in Nat : FreeNode(Current)[k] # 0 => FreeNode(Current)[k] \in FreeBlocks
      /\ \A b \in FreeBlocks : \E k \in 0 .. MaxNodes : FreeNode(Current)[k] = b
  BY <1>1, FreeNodesAreF
<1>8. FreeBlocks \subseteq B /\ 0 \notin FreeBlocks
  BY <1>1, NodesApart DEF FreeOf
<1>9. FreeNodes = FreeBlocks
  <2>1. MaxNodes \in Nat
    BY HeapSizeAssumption, <1>3 DEF MaxNodes
  <2> HIDE DEF MaxNodes
  <2>2. FreeNodes \subseteq FreeBlocks
    BY <2>1, <1>3, <1>7 DEF FreeNodes
  <2>3. FreeBlocks \subseteq FreeNodes
    BY <1>3, <1>7, <1>8 DEF FreeNodes
  <2>. QED BY <2>2, <2>3
<1>10. FreeNode(Current)[MaxNodes] = NULL
  BY <1>1, <1>3, FreeNodeEnds
<1>11. ASSUME NEW n \in FreeNodes, NextNode(mem, n) # NULL
       PROVE  PrevNode(mem, NextNode(mem, n)) = n
  <2>1. PICK r : Linked(mem, freeList, FreeBlocks, r)
    BY <1>1 DEF State, Current
  <2>2. n \in FreeBlocks /\ mem[n + 8] # 0
    BY <1>3, <1>9, <1>11 DEF NextNode
  <2>3. mem[mem[n + 8]] = n
    BY <2>1, <2>2 DEF Linked
  <2>. QED BY <2>3, <1>3 DEF NextNode, PrevNode
<1>12. \A b \in Blocks :
         /\ SizeOf(mem, HDRP(b)) >= MIN_BLOCK
         /\ SizeOf(mem, HDRP(b)) % DSIZE = 0
         /\ b % DSIZE = 0
         /\ mem[HDRP(b)] = mem[FTRP(mem, b)]
         /\ IsFree(b) => NEXT_BLKP(mem, b) \notin FreeBlocks
  BY <1>1, <1>5
<1>. QED
  BY <1>6, <1>9, <1>10, <1>11, <1>12 DEF HeapCheck, hi

\* In the invariant's heap the search of the list finds exactly what fits.
LEMMA IInvRefusedOnlyWhenFull == IInv => RefusedOnlyWhenFull
<1> SUFFICES ASSUME IInv, arena # NULL, NEW size \in Requests \ {0}
             PROVE  LET asize == roundBlock(size)
                        fits  == asize # 0 /\ \E b \in FreeBlocks : SizeOf(mem, HDRP(b)) >= asize
                        alloc == heapAlloc(Current, size)
                    IN  /\ (alloc.p # NULL) <=> fits
                        /\ alloc.p = NULL => alloc.h = Current
                        /\ \A p \in DOMAIN owned :
                             LET re == heapRealloc(Current, p, size)
                             IN  /\ (re.p # NULL) <=>
                                       \/ fits
                                       \/ asize # 0 /\ asize <= SizeOf(mem, HDRP(p))
                                       \/ asize # 0 /\ CanGrow(Current, p, asize)
                                 /\ re.p = NULL => re.h = Current
  BY DEF RefusedOnlyWhenFull
<1> DEFINE hi == blocks + arenaBytes
           asize == roundBlock(size)
           found == findFit(Current, asize)
           fits  == asize # 0 /\ \E b \in FreeBlocks : SizeOf(mem, HDRP(b)) >= asize
           alloc == heapAlloc(Current, size)
<1>1. PICK B, sz, al :
           /\ Laid(blocks, hi, B, sz)
           /\ Tagged(mem, blocks, hi, B, sz, al)
           /\ State(Current, blocks, hi, B, sz, al, FreeOf(B, al))
           /\ hi - blocks <= HeapSize + 16
           /\ FreeBlocks = FreeOf(B, al)
           /\ \A p \in DOMAIN owned : p \in B
  BY Inspected
<1> HIDE DEF hi, asize
<1>2. \A b \in B : SizeOf(mem, HDRP(b)) = sz[b]
  BY <1>1, Neighbours
<1>3. FreeOf(B, al) \subseteq B
  BY DEF FreeOf
<1>4. 0 \notin B
  BY <1>1, NodesApart
<1>5. found # 0 <=> \E b \in FreeBlocks : SizeOf(mem, HDRP(b)) >= asize
  <2> HIDE DEF found
  <2>1. found = 0 \/ (found \in FreeOf(B, al) /\ sz[found] >= asize)
    BY <1>1, FindFitFits DEF found
  <2>2. ASSUME NEW b \in FreeOf(B, al), sz[b] >= asize
        PROVE  found # 0
    BY <2>2, <1>1, FindFitFinds DEF found
  <2>. QED BY <2>1, <2>2, <1>1, <1>2, <1>3
<1>6. alloc = IF asize = 0 \/ found = 0 THEN Returns(Current, 0)
              ELSE Returns(place(Current, found, asize), found)
  BY DEF heapAlloc, NULL, asize
<1> HIDE DEF found, alloc
<1>7. alloc.p # 0 <=> fits
  BY <1>5, <1>6 DEF Returns
<1>8. alloc.p = 0 => alloc.h = Current
  BY <1>6 DEF Returns
<1> HIDE DEF fits
<1>9. ASSUME NEW p \in DOMAIN owned
      PROVE  LET re == heapRealloc(Current, p, size)
             IN  /\ (re.p # 0) <=>
                       \/ fits
                       \/ asize # 0 /\ asize <= SizeOf(mem, HDRP(p))
                       \/ asize # 0 /\ CanGrow(Current, p, asize)
                 /\ re.p = 0 => re.h = Current
  <2> DEFINE csize == SizeOf(mem, HDRP(p))
             re == heapRealloc(Current, p, size)
             moved == move(Current, p, size, csize)
  <2>1. p # 0
    BY <1>1, <1>4
  <2>2. re = IF asize = 0 THEN Returns(Current, 0)
             ELSE IF asize <= csize THEN Returns(shrink(Current, p, asize, csize), p)
             ELSE IF CanGrow(Current, p, asize) THEN Returns(grow(Current, p, asize), p)
             ELSE moved
    <3>1. Current.mem = mem
      BY DEF Current
    <3>. QED BY <3>1 DEF heapRealloc, NULL, asize
  <2>3. moved.p = alloc.p /\ (alloc.p = 0 => moved = alloc)
    BY DEF move, Returns, NULL, alloc
  <2> HIDE DEF re, moved, csize
  <2>4. fits => asize # 0
    BY DEF fits
  <2>5. CASE asize = 0
    BY <2>2, <2>4, <2>5 DEF Returns, re, csize
  <2>6. CASE asize # 0 /\ asize <= csize
    BY <2>1, <2>2, <2>6 DEF Returns, re, csize
  <2>7. CASE asize # 0 /\ ~(asize <= csize) /\ CanGrow(Current, p, asize)
    BY <2>1, <2>2, <2>7 DEF Returns, re, csize
  <2>8. CASE asize # 0 /\ ~(asize <= csize) /\ ~CanGrow(Current, p, asize)
    BY <2>2, <2>3, <2>8, <1>7, <1>8 DEF re, csize
  <2>. QED BY <2>5, <2>6, <2>7, <2>8
<1>. QED
  BY <1>7, <1>8, <1>9 DEF fits, alloc, asize, NULL

-----------------------------------------------------------------------------
\* heapCheck finds nothing wrong after any calls in any order: the walk of the
\* blocks goes through whole, tagged blocks to the epilogue, no two free blocks
\* are neighbours, and the list holds every free block and ends.
THEOREM ChecksOut == Spec => []HeapCheck
BY Invariance, IInvHeapCheck, PTL

\* heapAlloc and heapRealloc refuse exactly what no free block and no growing in
\* place could serve, after any calls in any order, and then change nothing.
THEOREM RefusesOnlyWhenFull == Spec => []RefusedOnlyWhenFull
BY Invariance, IInvRefusedOnlyWhenFull, PTL

-----------------------------------------------------------------------------
(* The words a caller sees.                                                *)

\* The address of the i-th word at p.
Cell(p, i) == p + (i - 1) * 8

\* The words of n bytes at p.
CellsAt(m, p, n) == [i \in 1 .. n \div 8 |-> m[Cell(p, i)]]

Cells(m, own) == [p \in DOMAIN own |-> CellsAt(m, p, own[p])]

\* Whole words inside what was asked for, and words of the arena.
LEMMA CellInside ==
  ASSUME NEW lo \in Nat, NEW hi \in Nat, lo >= 24,
         NEW p \in Nat, A16(p), lo <= p, NEW n \in Nat, p + n <= hi,
         NEW i \in 1 .. n \div 8
  PROVE  /\ Cell(p, i) \in Words(lo, hi)
         /\ p <= Cell(p, i) /\ Cell(p, i) + 8 <= p + n
<1>1. i \in Nat /\ i >= 1 /\ 8 * i <= n
  OBVIOUS
<1>2. Cell(p, i) = p + 8 * i - 8
  BY <1>1 DEF Cell
<1>3. (p + 8 * i - 8) % 8 = 0
  BY <1>1 DEF A16
<1>. QED
  BY <1>1, <1>2, <1>3 DEF Words

LEMMA CellsLen ==
  ASSUME NEW m, NEW p, NEW n \in Nat
  PROVE  Len(CellsAt(m, p, n)) = n \div 8
<1>1. n \div 8 \in Nat
  OBVIOUS
<1>. QED
  BY <1>1 DEF CellsAt

\* The refinement mapping of Promise, in these words.
LEMMA Mapping ==
  /\ [p \in DOMAIN owned |-> [i \in 1 .. owned[p] \div WSIZE |-> mem[p + (i - 1) * WSIZE]]]
       = Cells(mem, owned)
  /\ ([p \in DOMAIN owned |-> [i \in 1 .. owned[p] \div WSIZE |-> mem[p + (i - 1) * WSIZE]]])'
       = Cells(mem', owned')
BY DEF Cells, CellsAt, Cell, WSIZE

\* Words spared are words kept.
LEMMA CellsSpared ==
  ASSUME NEW h, NEW g, NEW lo, NEW hi, NEW K, Sound(h, lo, hi, K), NEW K1, Spares(h, g, K1),
         NEW p \in DOMAIN K, p \in DOMAIN K1, K1[p] = K[p], NEW n \in Nat, n + 16 <= K[p]
  PROVE  CellsAt(g.mem, p, n) = CellsAt(h.mem, p, n)
<1>1. /\ h.mem \in [Words(lo, hi) -> Nat] /\ lo \in Nat /\ hi \in Nat /\ lo >= 24
      /\ p \in Nat /\ A16(p) /\ lo <= p /\ K[p] \in Nat /\ p + K[p] <= hi
  BY SoundFacts
<1>2. ASSUME NEW i \in 1 .. n \div 8
      PROVE  g.mem[Cell(p, i)] = h.mem[Cell(p, i)]
  <2>1. p + n <= hi
    BY <1>1
  <2>2. Cell(p, i) \in Words(lo, hi) /\ p <= Cell(p, i) /\ Cell(p, i) + 8 <= p + n
    BY <1>1, <2>1, CellInside
  <2>3. Cell(p, i) \in Nat
    BY <2>2 DEF Words
  <2>4. Cell(p, i) < p + K1[p] - 16 /\ Cell(p, i) \in DOMAIN h.mem
    BY <1>1, <2>2, <2>3
  <2>. QED BY <2>2, <2>4 DEF Spares
<1>. QED
  BY <1>2 DEF CellsAt

\* Words copied are the words there were.
LEMMA CellsCopied ==
  ASSUME NEW h, NEW g, NEW lo, NEW hi, NEW K, Sound(h, lo, hi, K),
         NEW p \in DOMAIN K, NEW q \in Nat, NEW n \in Nat, n + 16 <= K[p], Copies(h, p, g, q, n)
  PROVE  CellsAt(g.mem, q, n) = CellsAt(h.mem, p, n)
<1>1. /\ h.mem \in [Words(lo, hi) -> Nat] /\ lo \in Nat /\ hi \in Nat /\ lo >= 24
      /\ p \in Nat /\ A16(p) /\ lo <= p /\ K[p] \in Nat /\ p + K[p] <= hi
  BY SoundFacts
<1> SUFFICES ASSUME NEW i \in 1 .. n \div 8
             PROVE  g.mem[Cell(q, i)] = h.mem[Cell(p, i)]
  BY DEF CellsAt
<1>2. p + n <= hi
  BY <1>1
<1>3. Cell(p, i) \in Words(lo, hi) /\ p <= Cell(p, i) /\ Cell(p, i) + 8 <= p + n
  BY <1>1, <1>2, CellInside
<1>4. Cell(p, i) \in Nat /\ i \in Nat
  BY <1>3 DEF Words
<1>5. q + (Cell(p, i) - p) = Cell(q, i)
  BY <1>1, <1>4 DEF Cell
<1>6. Cell(p, i) < p + n /\ Cell(p, i) \in DOMAIN h.mem
  BY <1>1, <1>3, <1>4
<1>. QED
  BY <1>3, <1>5, <1>6 DEF Copies

-----------------------------------------------------------------------------
(* Calls that hand out a block.                                            *)

\* Trading old for new keeps the promise: the new block is an address the arena
\* can hand out, aligned and clear of the others, whose words are kept.
LEMMA HandsOut ==
  ASSUME NEW base \in Bases, NEW lo, lo = FirstBlock(base),
         NEW hi, hi = FirstBlock(base) + Usable(base),
         Owns(owned), NEW K, DOMAIN K = DOMAIN owned,
         \A p \in DOMAIN owned : owned[p] + 16 <= K[p],
         NEW old, NEW new, new \notin DOMAIN K \ {old},
         NEW size \in Requests, NEW s \in Nat, s >= size + 16,
         NEW h, Sound(h, lo, hi, With(Less(K, old), new, s)),
         owned' = Held(owned, old, new, size),
         \A q \in DOMAIN owned \ {old} : CellsAt(mem', q, owned[q]) = CellsAt(mem, q, owned[q])
  PROVE  /\ new \in Pointers
         /\ Promise!Clear(new, size, {old})
         /\ Promise!Keep(DOMAIN owned \ {old}, new, size)
<1> DEFINE K1 == With(Less(K, old), new, s)
           kept == DOMAIN owned \ {old}
<1>1. /\ DOMAIN K1 = kept \cup {new}
      /\ \A q \in kept : K1[q] = K[q]
      /\ K1[new] = s
      /\ new \notin kept
  BY DEF With, Less
<1> HIDE DEF K1
<1>2. \A q \in kept \cup {new} :
        /\ q \in Nat /\ A16(q) /\ lo <= q
        /\ K1[q] \in Nat /\ K1[q] >= 32 /\ q + K1[q] <= hi
        /\ \A r \in kept \cup {new} : q < r => q + K1[q] <= r
  BY <1>1, SoundFacts DEF K1
<1>3. size \in Nat /\ \A q \in kept : owned[q] \in Nat
  BY RequestsAssumption, SizeMaxAssumption DEF Owns
<1>4. new \in Pointers
  <2>1. lo \in Nat /\ hi \in Nat
    BY Arena
  <2>2. new \in lo .. hi
    BY <2>1, <1>2
  <2>. QED BY <2>2 DEF Pointers
<1>5. Promise!Clear(new, size, {old})
  <2>1. new % 16 = 0
    BY <1>2 DEF A16
  <2>2. ASSUME NEW q \in kept
        PROVE  new + size <= q \/ q + owned[q] <= new
    <3>1. new < q => new + s <= q
      BY <1>1, <1>2
    <3>2. q < new => q + K[q] <= new
      BY <1>1, <1>2
    <3>3. q # new /\ q \in Nat /\ new \in Nat /\ K[q] \in Nat /\ owned[q] + 16 <= K[q]
      BY <1>1, <1>2
    <3>. QED BY <3>1, <3>2, <3>3, <1>3
  <2>. QED BY <2>1, <2>2 DEF Promise!Clear, Promise!Apart, DSIZE, WSIZE
<1>6. /\ DOMAIN owned' = kept \cup {new}
      /\ owned' = [q \in kept \cup {new} |-> IF q = new THEN size ELSE owned[q]]
      /\ owned'[new] = size
      /\ \A q \in kept : owned'[q] = owned[q]
  BY <1>1 DEF Held
<1>7. \A q \in kept : Cells(mem', owned')[q] = Cells(mem, owned)[q]
  BY <1>6 DEF Cells
<1>8. Len(Cells(mem', owned')[new]) = size \div 8
  <2>1. Cells(mem', owned')[new] = CellsAt(mem', new, size)
    BY <1>6 DEF Cells
  <2>. QED BY <2>1, <1>3, CellsLen
<1>9. DOMAIN Cells(mem', owned') = kept \cup {new}
  BY <1>6 DEF Cells
<1>10. Promise!Keep(kept, new, size)
  <2> HIDE DEF kept
  <2>. QED BY <1>6, <1>7, <1>8, <1>9, Mapping DEF Promise!Keep, Promise!Words, WSIZE
<1>. QED
  BY <1>4, <1>5, <1>10

\* A call refused, or a fresh block for the caller.
LEMMA AllocPromise ==
  ASSUME NEW base \in Bases, NEW lo, lo = FirstBlock(base),
         NEW hi, hi = FirstBlock(base) + Usable(base),
         Owns(owned), NEW size \in Requests, size # 0,
         NEW h, Serves(h, lo, hi, owned), DOMAIN owned = {} \/ h.mem = mem,
         NEW r, r = heapAlloc(h, size), r.p # NULL, mem' = r.h.mem,
         owned' = Held(owned, NULL, r.p, size)
  PROVE  Promise!Alloc(size)
<1>1. PICK K : /\ Sound(h, lo, hi, K)
               /\ DOMAIN K = DOMAIN owned
               /\ \A p \in DOMAIN owned : owned[p] + 16 <= K[p]
  BY DEF Serves
<1>2. size \in 0 .. SizeMax
  BY RequestsAssumption
<1>3. r # Returns(h, 0)
  BY DEF Returns, NULL
<1>4. r.p \notin DOMAIN K /\ Spares(h, r.h, K)
  BY <1>1, <1>2, <1>3, AllocSound
<1>5. PICK s \in Nat : s >= size + 16 /\ Sound(r.h, lo, hi, With(K, r.p, s))
  BY <1>1, <1>2, <1>3, AllocSound
<1>6. 0 \notin DOMAIN K /\ \A p \in DOMAIN K : K[p] \in Nat
  BY <1>1, SoundFacts
<1>7. Less(K, 0) = K
  <2>1. DOMAIN K \ {0} = DOMAIN K
    BY <1>6
  <2>2. K = [q \in DOMAIN K |-> K[q]]
    BY <1>1 DEF Sound
  <2>. QED BY <2>1, <2>2 DEF Less
<1>8. \A q \in DOMAIN owned : CellsAt(mem', q, owned[q]) = CellsAt(mem, q, owned[q])
  <2> SUFFICES ASSUME NEW q \in DOMAIN owned
               PROVE  CellsAt(mem', q, owned[q]) = CellsAt(mem, q, owned[q])
    OBVIOUS
  <2>1. owned[q] \in Nat
    BY RequestsAssumption, SizeMaxAssumption DEF Owns
  <2>2. CellsAt(r.h.mem, q, owned[q]) = CellsAt(h.mem, q, owned[q])
    BY <2>1, <1>1, <1>4, CellsSpared
  <2>. QED BY <2>2
<1>9. DOMAIN owned \ {0} = DOMAIN owned
  BY <1>1, <1>6
<1>10. /\ r.p \in Pointers
       /\ Promise!Clear(r.p, size, {0})
       /\ Promise!Keep(DOMAIN owned \ {0}, r.p, size)
  <2>1. r.p \notin DOMAIN K \ {0}
    BY <1>4
  <2>2. Sound(r.h, lo, hi, With(Less(K, 0), r.p, s))
    BY <1>5, <1>7
  <2>3. owned' = Held(owned, 0, r.p, size)
    BY DEF NULL
  <2>4. \A q \in DOMAIN owned \ {0} : CellsAt(mem', q, owned[q]) = CellsAt(mem, q, owned[q])
    BY <1>8
  <2>. QED BY <2>1, <2>2, <2>3, <2>4, <1>1, <1>5, HandsOut
<1>11. Promise!Clear(r.p, size, {})
  BY <1>9, <1>10 DEF Promise!Clear
<1>12. Promise!Keep(DOMAIN owned, r.p, size)
  BY <1>9, <1>10
<1>13. r.p \in Pointers \ DOMAIN owned
  BY <1>1, <1>4, <1>10
<1>. QED
  BY <1>11, <1>12, <1>13 DEF Promise!Alloc

\* A block traded for one with room for the new size, the words both sizes have
\* carried over.
LEMMA ReallocPromise ==
  ASSUME NEW base \in Bases, NEW lo, lo = FirstBlock(base),
         NEW hi, hi = FirstBlock(base) + Usable(base),
         Owns(owned), NEW p \in DOMAIN owned, NEW size \in Requests, size # 0,
         NEW h, Serves(h, lo, hi, owned), h.mem = mem,
         NEW r, r = heapRealloc(h, p, size), r.p # NULL, mem' = r.h.mem,
         owned' = Held(owned, p, r.p, size)
  PROVE  Promise!Realloc(p, size)
<1>1. PICK K : /\ Sound(h, lo, hi, K)
               /\ DOMAIN K = DOMAIN owned
               /\ \A q \in DOMAIN owned : owned[q] + 16 <= K[q]
  BY DEF Serves
<1>2. size \in 0 .. SizeMax /\ size \in Nat
  BY RequestsAssumption, SizeMaxAssumption
<1>3. r # Returns(h, 0)
  BY DEF Returns, NULL
<1>4. /\ r.p \notin DOMAIN K \ {p}
      /\ Spares(h, r.h, Less(K, p))
      /\ \A n \in Nat : n + 16 <= K[p] /\ n <= size => Copies(h, p, r.h, r.p, n)
      /\ size + 16 <= K[p] => r.p = p
  BY <1>1, <1>2, <1>3, ReallocSound
<1>5. PICK s \in Nat : s >= size + 16 /\ Sound(r.h, lo, hi, With(Less(K, p), r.p, s))
  BY <1>1, <1>2, <1>3, ReallocSound
<1>6. \A q \in DOMAIN owned : owned[q] \in Nat /\ K[q] \in Nat
  BY <1>1, SoundFacts, RequestsAssumption, SizeMaxAssumption DEF Owns
<1>7. \A q \in DOMAIN owned \ {p} : CellsAt(mem', q, owned[q]) = CellsAt(mem, q, owned[q])
  <2> SUFFICES ASSUME NEW q \in DOMAIN owned \ {p}
               PROVE  CellsAt(mem', q, owned[q]) = CellsAt(mem, q, owned[q])
    OBVIOUS
  <2>1. q \in DOMAIN Less(K, p) /\ Less(K, p)[q] = K[q]
    BY <1>1 DEF Less
  <2>2. CellsAt(r.h.mem, q, owned[q]) = CellsAt(h.mem, q, owned[q])
    BY <2>1, <1>1, <1>4, <1>6, CellsSpared
  <2>. QED BY <2>2
<1>8. /\ r.p \in Pointers
      /\ Promise!Clear(r.p, size, {p})
      /\ Promise!Keep(DOMAIN owned \ {p}, r.p, size)
  BY <1>1, <1>4, <1>5, <1>7, HandsOut
<1>9. size <= owned[p] => r.p = p
  BY <1>1, <1>2, <1>4, <1>6
<1>10. ASSUME NEW n \in Nat, n <= size, n <= owned[p], NEW i \in 1 .. n \div 8
       PROVE  Cells(mem', owned')[r.p][i] = Cells(mem, owned)[p][i]
  <2>1. n + 16 <= K[p]
    BY <1>1, <1>6, <1>10
  <2>2. r.p \in Nat
    <3>1. r.p \in DOMAIN With(Less(K, p), r.p, s)
      BY DEF With
    <3>. QED BY <3>1, <1>5, SoundFacts
  <2>3. r.h.mem[Cell(r.p, i)] = h.mem[Cell(p, i)]
    <3>1. Copies(h, p, r.h, r.p, n)
      BY <2>1, <1>4, <1>10
    <3>2. p \in DOMAIN K /\ Sound(h, lo, hi, K)
      BY <1>1
    <3> DEFINE g == r.h
               q == r.p
    <3>3. q \in Nat /\ Copies(h, p, g, q, n)
      BY <2>2, <3>1
    <3> HIDE DEF g, q
    <3>4. CellsAt(g.mem, q, n) = CellsAt(h.mem, p, n)
      BY <2>1, <3>2, <3>3, CellsCopied
    <3>5. g.mem[Cell(q, i)] = h.mem[Cell(p, i)]
      BY <3>4, <1>10 DEF CellsAt
    <3>. QED BY <3>5 DEF g, q
  <2>4. i \in 1 .. size \div 8 /\ i \in 1 .. owned[p] \div 8
    BY <1>2, <1>6, <1>10
  <2>5. r.p \in DOMAIN owned' /\ owned'[r.p] = size
    BY DEF Held
  <2>6. Cells(mem', owned')[r.p] = CellsAt(mem', r.p, size)
    BY <2>5 DEF Cells
  <2>7. Cells(mem, owned)[p] = CellsAt(mem, p, owned[p])
    BY DEF Cells
  <2>. QED BY <2>3, <2>4, <2>6, <2>7 DEF CellsAt
<1>11. \A i \in 1 .. Promise!Words(IF size < owned[p] THEN size ELSE owned[p]) :
         Cells(mem', owned')[r.p][i] = Cells(mem, owned)[p][i]
  <2> DEFINE n == IF size < owned[p] THEN size ELSE owned[p]
  <2>1. n \in Nat /\ n <= size /\ n <= owned[p]
    BY <1>2, <1>6
  <2> HIDE DEF n
  <2>2. Promise!Words(n) = n \div 8
    BY DEF Promise!Words, WSIZE
  <2>3. \A i \in 1 .. Promise!Words(n) : Cells(mem', owned')[r.p][i] = Cells(mem, owned)[p][i]
    BY <2>1, <2>2, <1>10
  <2>. QED BY <2>3 DEF n
<1>12. r.p \in (Pointers \ DOMAIN owned) \cup {p}
  BY <1>1, <1>4, <1>8
<1>. QED
  <2> DEFINE C == [q \in DOMAIN owned |->
                    [i \in 1 .. owned[q] \div WSIZE |-> mem[q + (i - 1) * WSIZE]]]
             n == IF size < owned[p] THEN size ELSE owned[p]
  <2>1. C = Cells(mem, owned) /\ C' = Cells(mem', owned')
    BY Mapping
  <2> HIDE DEF C
  <2>2. \A i \in 1 .. Promise!Words(n) : (C')[r.p][i] = C[p][i]
    BY <2>1, <1>11
  <2> HIDE DEF n
  <2>3. /\ size <= owned[p] => r.p = p
        /\ Promise!Clear(r.p, size, {p})
        /\ Promise!Keep(DOMAIN owned \ {p}, r.p, size)
        /\ r.p \in (Pointers \ DOMAIN owned) \cup {p}
    BY <1>8, <1>9, <1>12
  <2>. QED BY <2>2, <2>3 DEF Promise!Realloc, C, n

-----------------------------------------------------------------------------
(* The other calls.                                                        *)

\* Freeing p leaves everyone else's words alone.
LEMMA FreePromise ==
  ASSUME NEW lo, NEW hi, Owns(owned), NEW p \in DOMAIN owned,
         NEW h, Serves(h, lo, hi, owned), h.mem = mem,
         mem' = heapFree(h, p).mem, owned' = Less(owned, p)
  PROVE  Promise!Free(p)
<1>1. PICK K : /\ Sound(h, lo, hi, K)
               /\ DOMAIN K = DOMAIN owned
               /\ \A q \in DOMAIN owned : owned[q] + 16 <= K[q]
  BY DEF Serves
<1>2. Spares(h, heapFree(h, p), Less(K, p))
  BY <1>1, FreeSound DEF Less
<1>3. ASSUME NEW q \in DOMAIN owned \ {p}
      PROVE  CellsAt(mem', q, owned[q]) = CellsAt(mem, q, owned[q])
  <2>1. q \in DOMAIN Less(K, p) /\ Less(K, p)[q] = K[q]
    BY <1>1 DEF Less
  <2>2. owned[q] \in Nat
    BY RequestsAssumption, SizeMaxAssumption DEF Owns
  <2> DEFINE g == heapFree(h, p)
  <2> HIDE DEF g
  <2>3. CellsAt(g.mem, q, owned[q]) = CellsAt(h.mem, q, owned[q])
    BY <2>1, <2>2, <1>1, <1>2, CellsSpared DEF g
  <2>. QED BY <2>3 DEF g
<1>4. DOMAIN owned' = DOMAIN owned \ {p} /\ \A q \in DOMAIN owned \ {p} : owned'[q] = owned[q]
  BY DEF Less
<1>5. Cells(mem', owned') = [q \in DOMAIN owned \ {p} |-> Cells(mem, owned)[q]]
  BY <1>3, <1>4 DEF Cells
<1>6. owned' = [q \in DOMAIN owned \ {p} |-> owned[q]]
  BY DEF Less
<1> DEFINE C == [q \in DOMAIN owned |->
                  [i \in 1 .. owned[q] \div WSIZE |-> mem[q + (i - 1) * WSIZE]]]
<1>7. C = Cells(mem, owned) /\ C' = Cells(mem', owned')
  BY Mapping
<1> HIDE DEF C
<1>8. C' = [q \in DOMAIN owned \ {p} |-> C[q]]
  BY <1>5, <1>7
<1>. QED
  BY <1>6, <1>8 DEF Promise!Free, C

\* Filling p writes every word of it and nobody else's.
LEMMA FillPromise ==
  ASSUME NEW lo, NEW hi, Owns(owned), NEW p \in DOMAIN owned, NEW v \in Values,
         NEW h, Serves(h, lo, hi, owned), h.mem = mem, Fill(p, v)
  PROVE  Promise!Fill(p, v)
<1>1. PICK K : /\ Sound(h, lo, hi, K)
               /\ DOMAIN K = DOMAIN owned
               /\ \A q \in DOMAIN owned : owned[q] + 16 <= K[q]
  BY DEF Serves
<1>2. /\ mem \in [Words(lo, hi) -> Nat] /\ lo \in Nat /\ hi \in Nat /\ lo >= 24
      /\ \A q \in DOMAIN owned : /\ q \in Nat /\ A16(q) /\ lo <= q /\ K[q] \in Nat
                                 /\ q + K[q] <= hi
                                 /\ \A r \in DOMAIN owned : q < r => q + K[q] <= r
  BY <1>1, SoundFacts
<1>3. \A q \in DOMAIN owned : owned[q] \in Nat
  BY RequestsAssumption, SizeMaxAssumption DEF Owns
<1>4. /\ owned' = owned
      /\ \A a \in DOMAIN mem : mem'[a] = IF p <= a /\ a + 8 <= p + owned[p] THEN v ELSE mem[a]
  BY DEF Fill, PayloadWords, WSIZE
<1>5. ASSUME NEW q \in DOMAIN owned, NEW i \in 1 .. owned[q] \div 8
      PROVE  mem'[Cell(q, i)] = IF q = p THEN v ELSE mem[Cell(q, i)]
  <2> DEFINE a == Cell(q, i)
             n == owned[q]
  <2>1. n \in Nat /\ n + 16 <= K[q] /\ q + n <= hi
    BY <1>1, <1>2, <1>3
  <2>2. a \in Words(lo, hi) /\ q <= a /\ a + 8 <= q + n
    <3> HIDE DEF n
    <3>1. i \in 1 .. n \div 8
      BY DEF n
    <3>. QED BY <2>1, <3>1, <1>2, CellInside
  <2>3. a \in Nat /\ a \in DOMAIN mem
    BY <2>2, <1>2 DEF Words
  <2> HIDE DEF a
  <2>4. CASE q = p
    BY <2>2, <2>3, <2>4, <1>4 DEF a
  <2>5. CASE q # p
    <3>1. ~(p <= a /\ a + 8 <= p + owned[p])
      <4>1. /\ q < p => q + K[q] <= p
            /\ p < q => p + K[p] <= q
            /\ q \in Nat /\ p \in Nat /\ K[q] \in Nat /\ K[p] \in Nat
            /\ owned[p] \in Nat /\ owned[p] + 16 <= K[p]
        BY <1>1, <1>2, <1>3
      <4>. QED BY <4>1, <2>1, <2>2, <2>3, <2>5
    <3>. QED BY <2>3, <2>5, <3>1, <1>4 DEF a
  <2>. QED BY <2>4, <2>5
<1>6. ASSUME NEW q \in DOMAIN owned
      PROVE  CellsAt(mem', q, owned[q]) = IF q = p THEN [i \in 1 .. owned[p] \div 8 |-> v]
                                          ELSE CellsAt(mem, q, owned[q])
  <2>1. CASE q = p
    BY <2>1, <1>5 DEF CellsAt
  <2>2. CASE q # p
    BY <2>2, <1>5 DEF CellsAt
  <2>. QED BY <2>1, <2>2
<1>7. Cells(mem', owned') = [Cells(mem, owned) EXCEPT ![p] = [i \in 1 .. owned[p] \div 8 |-> v]]
  <2> DEFINE w == [i \in 1 .. owned[p] \div 8 |-> v]
  <2>1. \A q \in DOMAIN owned :
          CellsAt(mem', q, owned[q]) = IF q = p THEN w ELSE CellsAt(mem, q, owned[q])
    BY <1>6
  <2> HIDE DEF w
  <2>2. Cells(mem', owned') = [q \in DOMAIN owned |-> CellsAt(mem', q, owned[q])]
    BY <1>4 DEF Cells
  <2>3. [Cells(mem, owned) EXCEPT ![p] = w]
          = [q \in DOMAIN owned |-> IF q = p THEN w ELSE CellsAt(mem, q, owned[q])]
    BY DEF Cells
  <2>4. Cells(mem', owned') = [Cells(mem, owned) EXCEPT ![p] = w]
    BY <2>1, <2>2, <2>3
  <2>. QED BY <2>4 DEF w
<1> DEFINE C == [q \in DOMAIN owned |->
                  [i \in 1 .. owned[q] \div WSIZE |-> mem[q + (i - 1) * WSIZE]]]
<1>8. C = Cells(mem, owned) /\ C' = Cells(mem', owned')
  BY Mapping
<1> HIDE DEF C
<1>9. C' = [C EXCEPT ![p] = [i \in 1 .. owned[p] \div 8 |-> v]]
  BY <1>7, <1>8
<1>10. Promise!Words(owned[p]) = owned[p] \div 8
  BY DEF Promise!Words, WSIZE
<1>. QED
  BY <1>4, <1>9, <1>10 DEF Promise!Fill, C

-----------------------------------------------------------------------------
(* The refinement.                                                         *)

\* Without a block there is no word.
LEMMA NoCells ==
  ASSUME NEW m, NEW own, DOMAIN own = {}
  PROVE  Cells(m, own) = Nothing
BY DEF Cells, Nothing

LEMMA InitPromise == Init => Promise!Init
<1> SUFFICES ASSUME Init
             PROVE  Promise!Init
  OBVIOUS
<1>1. owned = [p \in {} |-> 0]
  BY DEF Init
<1>2. DOMAIN owned = {}
  BY <1>1
<1>. QED
  BY <1>1, <1>2 DEF Promise!Init, Promise!Nothing

\* A call that leaves the callers' blocks and the words in them as they were.
LEMMA StutterPromise ==
  ASSUME owned' = owned, Cells(mem', owned') = Cells(mem, owned)
  PROVE  UNCHANGED Promise!vars
<1> DEFINE C == [q \in DOMAIN owned |->
                  [i \in 1 .. owned[q] \div WSIZE |-> mem[q + (i - 1) * WSIZE]]]
<1>1. C = Cells(mem, owned) /\ C' = Cells(mem', owned')
  BY Mapping
<1> HIDE DEF C
<1>2. C' = C
  BY <1>1
<1>. QED
  BY <1>2 DEF Promise!vars, C

\* Every step of the heap is a step of Malloc, or none.
LEMMA NextPromise == IInv /\ [Next]_vars => [Promise!Next]_(Promise!vars)
<1> SUFFICES ASSUME IInv, [Next]_vars
             PROVE  [Promise!Next]_(Promise!vars)
  OBVIOUS
<1>1. Owns(owned)
  BY DEF IInv
<1>2. ASSUME arena # NULL
      PROVE  /\ arena \in Bases
             /\ Serves(Current, FirstBlock(arena), FirstBlock(arena) + Usable(arena), owned)
  BY <1>2 DEF IInv
<1>3. Current.mem = mem
  BY DEF Current
<1>4. ASSUME NEW size \in Requests, Alloc(size)
      PROVE  [Promise!Next]_(Promise!vars)
  <2> DEFINE r == heapAlloc(Current, size)
  <2>1. arena # NULL /\ size # 0 /\ mem' = r.h.mem
    BY <1>4 DEF Alloc, Becomes
  <2>2. owned' = IF r.p = NULL THEN owned ELSE Held(owned, NULL, r.p, size)
    BY <1>4 DEF Alloc, Hold, Held
  <2> DEFINE lo == FirstBlock(arena)
             hi == FirstBlock(arena) + Usable(arena)
  <2>3. CASE r.p = NULL
    <3>1. PICK K : Sound(Current, lo, hi, K)
      BY <2>1, <1>2 DEF Serves
    <3>2. size \in 0 .. SizeMax
      BY RequestsAssumption
    <3>3. r = Returns(Current, 0)
      <4> HIDE DEF lo, hi
      <4>. QED BY <2>3, <3>1, <3>2, AllocSound DEF NULL
    <3>4. mem' = mem /\ owned' = owned
      BY <2>1, <2>2, <2>3, <3>3, <1>3 DEF Returns
    <3>. QED BY <3>4, StutterPromise
  <2>4. CASE r.p # NULL
    <3> HIDE DEF r
    <3>1. r = heapAlloc(Current, size)
      BY DEF r
    <3>2. Promise!Alloc(size)
      BY <2>1, <2>2, <2>4, <3>1, <1>1, <1>2, <1>3, AllocPromise
    <3>. QED BY <3>2 DEF Promise!Next
  <2>. QED BY <2>3, <2>4
<1>5. ASSUME NEW size \in Requests, NEW base \in Bases, FirstAlloc(size, base)
      PROVE  [Promise!Next]_(Promise!vars)
  <2> DEFINE g == heapInit(base)
             lo == FirstBlock(base)
             hi == FirstBlock(base) + Usable(base)
             r == heapAlloc(g, size)
  <2>1. arena = NULL /\ size # 0 /\ mem' = r.h.mem
    BY <1>5 DEF FirstAlloc, Becomes
  <2>2. owned' = IF r.p = NULL THEN owned ELSE Held(owned, NULL, r.p, size)
    BY <1>5 DEF FirstAlloc, Hold, Held
  <2>3. owned = Nothing /\ DOMAIN owned = {}
    BY <2>1 DEF IInv, Nothing
  <2>4. Serves(g, lo, hi, owned)
    <3>1. Sound(g, lo, hi, Nothing)
      BY InitSound
    <3>2. DOMAIN Nothing = {}
      BY DEF Nothing
    <3> HIDE DEF g, lo, hi
    <3>. QED BY <3>1, <3>2, <2>3 DEF Serves
  <2>5. CASE r.p = NULL
    <3>1. owned' = owned
      BY <2>2, <2>5
    <3> HIDE DEF r
    <3>2. Cells(mem', owned') = Cells(mem, owned)
      BY <2>3, <3>1, NoCells
    <3>. QED BY <3>1, <3>2, StutterPromise
  <2>6. CASE r.p # NULL
    <3>1. r = heapAlloc(g, size)
      OBVIOUS
    <3> HIDE DEF r, g
    <3>2. Promise!Alloc(size)
      BY <2>1, <2>2, <2>3, <2>4, <2>6, <3>1, <1>1, AllocPromise
    <3>. QED BY <3>2 DEF Promise!Next
  <2>. QED BY <2>5, <2>6
<1>6. ASSUME NEW p \in DOMAIN owned, Free(p)
      PROVE  [Promise!Next]_(Promise!vars)
  <2>1. arena # NULL
    <3>1. arena = NULL => DOMAIN owned = {}
      BY DEF IInv, Nothing
    <3>. QED BY <3>1
  <2>2. mem' = heapFree(Current, p).mem /\ owned' = Less(owned, p)
    BY <1>6 DEF Free, Becomes, Less
  <2>3. Promise!Free(p)
    BY <2>1, <2>2, <1>1, <1>2, <1>3, FreePromise
  <2>. QED BY <2>3 DEF Promise!Next
<1>7. ASSUME NEW p \in DOMAIN owned, NEW size \in Requests, Realloc(p, size)
      PROVE  [Promise!Next]_(Promise!vars)
  <2> DEFINE r == heapRealloc(Current, p, size)
             lo == FirstBlock(arena)
             hi == FirstBlock(arena) + Usable(arena)
  <2>1. size # 0 /\ mem' = r.h.mem
    BY <1>7 DEF Realloc, Becomes
  <2>2. owned' = IF r.p = NULL THEN owned ELSE Held(owned, p, r.p, size)
    BY <1>7 DEF Realloc, Hold, Held
  <2>3. arena # NULL
    <3>1. arena = NULL => DOMAIN owned = {}
      BY DEF IInv, Nothing
    <3>. QED BY <3>1
  <2>4. CASE r.p = NULL
    <3>1. PICK K : Sound(Current, lo, hi, K) /\ DOMAIN K = DOMAIN owned
      BY <2>3, <1>2 DEF Serves
    <3>2. size \in 0 .. SizeMax
      BY RequestsAssumption
    <3>3. r = Returns(Current, 0)
      <4> HIDE DEF lo, hi
      <4>. QED BY <2>4, <3>1, <3>2, ReallocSound DEF NULL
    <3>4. mem' = mem /\ owned' = owned
      BY <2>1, <2>2, <2>4, <3>3, <1>3 DEF Returns
    <3>. QED BY <3>4, StutterPromise
  <2>5. CASE r.p # NULL
    <3> HIDE DEF r
    <3>1. r = heapRealloc(Current, p, size)
      BY DEF r
    <3>2. Promise!Realloc(p, size)
      BY <2>1, <2>2, <2>3, <2>5, <3>1, <1>1, <1>2, <1>3, ReallocPromise
    <3>. QED BY <3>2 DEF Promise!Next
  <2>. QED BY <2>4, <2>5
<1>8. ASSUME NEW p \in DOMAIN owned, NEW v \in Values, Fill(p, v)
      PROVE  [Promise!Next]_(Promise!vars)
  <2>1. arena # NULL
    <3>1. arena = NULL => DOMAIN owned = {}
      BY DEF IInv, Nothing
    <3>. QED BY <3>1
  <2>2. Promise!Fill(p, v)
    BY <2>1, <1>1, <1>2, <1>3, <1>8, FillPromise
  <2>. QED BY <2>2 DEF Promise!Next
<1>9. ASSUME Destroy
      PROVE  [Promise!Next]_(Promise!vars)
  <2>1. owned' = Nothing /\ DOMAIN owned' = {}
    BY <1>9 DEF Destroy, Nothing
  <2> DEFINE C == [q \in DOMAIN owned |->
                    [i \in 1 .. owned[q] \div WSIZE |-> mem[q + (i - 1) * WSIZE]]]
  <2>2. C' = Nothing
    BY <2>1, NoCells, Mapping
  <2> HIDE DEF C
  <2>3. Promise!Nothing = Nothing
    BY DEF Promise!Nothing, Nothing
  <2>4. Promise!Reset
    BY <2>1, <2>2, <2>3 DEF Promise!Reset, C
  <2>. QED BY <2>4 DEF Promise!Next
<1>10. CASE UNCHANGED vars
  <2>1. owned' = owned /\ mem' = mem
    BY <1>10 DEF vars
  <2>. QED BY <2>1, StutterPromise
<1>. QED
  BY <1>4, <1>5, <1>6, <1>7, <1>8, <1>9, <1>10 DEF Next

\* The allocator keeps heap.h's promise for every heap size, every set of
\* requests and values, every place of the arena and every order of calls: what
\* a caller stored stays until it is overwritten, freed or cut off, through
\* splits, merges, growth in place and moves; a block is aligned and overlaps
\* no other; a shrinking block stays where it is; a refused call changes nothing.
THEOREM ImplementsMalloc == Spec => KeepsPromise
<1>1. Init => Promise!Init
  BY InitPromise
<1>2. IInv /\ [Next]_vars => [Promise!Next]_(Promise!vars)
  BY NextPromise
<1>. QED
  BY <1>1, <1>2, Invariance, PTL DEF KeepsPromise, Promise!Spec, Spec
=============================================================================
