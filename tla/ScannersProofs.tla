--------------------------- MODULE ScannersProofs ---------------------------
(***************************************************************************)
(* clox/scanner.c reads every character once and every brace as what it    *)
(* closes, and lexer/scanner/scanner.go the same tokens: proofs about      *)
(* Scanners, for every text and every depth of interpolations.             *)
(***************************************************************************)
EXTENDS Scanners, Integers, FiniteSetTheorems, WellFoundedInduction, TLAPS

-----------------------------------------------------------------------------
(* Induction, and functions defined by recursion *)

\* A non-empty set of naturals has a least element.
LEMMA LeastElement ==
  ASSUME NEW T, T \subseteq Nat, T # {}
  PROVE  \E x \in T : \A y \in T : x <= y
<1> DEFINE R == OpToRel(<, Nat)
<1>1. IsWellFoundedOn(R, Nat)
  BY NatLessThanWellFounded
<1>2. \A x, y \in Nat : x < y => <<x, y>> \in R
  BY DEF OpToRel
<1> HIDE DEF R
<1>3. PICK x \in T : \A y \in T : ~(<<y, x>> \in R)
  BY <1>1, WFMin
<1>4. ASSUME NEW y \in T
      PROVE  x <= y
  <2>1. x \in Nat /\ y \in Nat /\ <<y, x>> \notin R
    BY <1>3
  <2>. QED
    BY <2>1, <1>2
<1>. QED
  BY <1>4

\* A set that holds 0 and the successor of each of its naturals holds them all.
LEMMA SetInduction ==
  ASSUME NEW S, 0 \in S, \A n \in Nat : n \in S => n + 1 \in S
  PROVE  Nat \subseteq S
<1> DEFINE T == {n \in Nat : n \notin S}
<1>1. ASSUME T # {}
      PROVE  FALSE
  <2>1. T \subseteq Nat
    OBVIOUS
  <2> HIDE DEF T
  <2>2. PICK x \in T : \A y \in T : x <= y
    BY <1>1, <2>1, LeastElement
  <2> USE DEF T
  <2>3. x - 1 \in Nat /\ x - 1 \notin T
    BY <2>2
  <2>. QED
    BY <2>3
<1>. QED
  BY <1>1

Steps(step, n, U) == \A i \in 1 .. n, u \in U : step[<<i, u>>] \in U
Unfolds(f, n, a, step) == f = [i \in 0 .. n |-> IF i = 0 THEN a ELSE step[<<i, f[i - 1]>>]]

\* A function defined from its previous value exists.
LEMMA Recursion ==
  ASSUME NEW n \in Nat, NEW U, NEW a \in U, NEW step, Steps(step, n, U)
  PROVE  \E f : f \in [0 .. n -> U] /\ Unfolds(f, n, a, step)
<1> DEFINE Steady(f, k) == /\ f \in [0 .. n -> U]
                         /\ f[0] = a
                         /\ \A i \in 1 .. n : i <= k => f[i] = step[<<i, f[i - 1]>>]
           S == {k \in Nat : \E f : Steady(f, k)}
<1>1. 0 \in S
  <2>1. Steady([i \in 0 .. n |-> a], 0)
    OBVIOUS
  <2>. QED BY <2>1
<1>2. ASSUME NEW k \in Nat, k \in S
      PROVE  k + 1 \in S
  <2>1. PICK f : Steady(f, k)
    BY <1>2
  <2>2. CASE k + 1 <= n
    <3> DEFINE new == step[<<k + 1, f[k]>>]
               g == [i \in 0 .. n |-> IF i = k + 1 THEN new ELSE f[i]]
    <3>1. k \in 0 .. n /\ k + 1 \in 1 .. n
      BY <2>2
    <3>2. f[k] \in U
      BY <2>1, <3>1
    <3>3. new \in U
      BY <3>1, <3>2 DEF Steps
    <3> HIDE DEF new
    <3>4. g \in [0 .. n -> U] /\ g[0] = a
      BY <2>1, <3>3
    <3>5. \A i \in 1 .. n : i <= k => g[i] = f[i] /\ g[i - 1] = f[i - 1]
      OBVIOUS
    <3>6. g[k + 1] = new /\ g[k] = f[k]
      BY <3>1
    <3> HIDE DEF g
    <3>7. ASSUME NEW i \in 1 .. n, i <= k + 1
          PROVE  g[i] = step[<<i, g[i - 1]>>]
      <4>1. CASE i = k + 1
        <5>1. i - 1 = k
          BY <4>1
        <5>. QED BY <3>6, <4>1, <5>1 DEF new
      <4>2. CASE i # k + 1
        <5>1. i <= k
          BY <3>7, <4>2
        <5>. QED BY <2>1, <3>5, <5>1
      <4>. QED BY <4>1, <4>2
    <3>8. Steady(g, k + 1)
      BY <3>4, <3>7
    <3> HIDE DEF Steady
    <3>. QED BY <3>8
  <2>3. CASE ~ k + 1 <= n
    <3>1. Steady(f, k + 1)
      BY <2>1, <2>3
    <3> HIDE DEF Steady
    <3>. QED BY <3>1
  <2>. QED BY <2>2, <2>3
<1>3. n \in S
  <2> HIDE DEF S
  <2>. QED BY <1>1, <1>2, SetInduction
<1>4. PICK f : Steady(f, n)
  BY <1>3
<1>5. \A i \in 0 .. n : f[i] = IF i = 0 THEN a ELSE step[<<i, f[i - 1]>>]
  BY <1>4
<1>6. f = [i \in 0 .. n |-> IF i = 0 THEN a ELSE step[<<i, f[i - 1]>>]]
  <2> DEFINE h == [i \in 0 .. n |-> IF i = 0 THEN a ELSE step[<<i, f[i - 1]>>]]
  <2>1. f = [i \in 0 .. n |-> f[i]]
    BY <1>4
  <2>2. [i \in 0 .. n |-> f[i]] = h
    BY <1>5, Zenon
  <2>. QED BY <2>1, <2>2
<1>. QED BY <1>4, <1>6 DEF Unfolds

\* What Selected selects.
LEMMA SelectedIs ==
  ASSUME NEW U, NEW s \in Seq(U), NEW at
  PROVE  /\ Selected(s, at)[0] = <<>>
         /\ \A n \in 1 .. Len(s) : Selected(s, at)[n] = IF n \in at THEN Append(Selected(s, at)[n - 1], s[n])
                                                        ELSE Selected(s, at)[n - 1]
         /\ \A n \in 0 .. Len(s) : Selected(s, at)[n] \in Seq(U)
<1> DEFINE l == Len(s)
           T == Seq(U)
           none == <<>>
           More(n, u) == IF n \in at THEN Append(u, s[n]) ELSE u
           step == [p \in (1 .. l) \X T |-> More(p[1], p[2])]
           Is(g) == g = [n \in 0 .. l |-> IF n = 0 THEN none ELSE More(n, g[n - 1])]
           f == Selected(s, at)
<1>1. l \in Nat /\ none \in T /\ \A n \in 1 .. l : s[n] \in U
  OBVIOUS
<1>2. \A n \in 1 .. l, u \in T : step[<<n, u>>] = More(n, u)
  <2> HIDE DEF l, T, More
  <2>. QED OBVIOUS
<1>3. \A n \in 1 .. l, u \in T : More(n, u) \in T
  <2> TAKE n \in 1 .. l, u \in T
  <2>1. s[n] \in U
    BY <1>1
  <2> HIDE DEF l
  <2>2. Append(u, s[n]) \in Seq(U)
    BY <2>1
  <2>. QED BY <2>2
<1>4. f = CHOOSE g : Is(g)
  BY DEF Selected
<1> HIDE DEF step, l, T, none, More, f
<1>5. PICK g : g \in [0 .. l -> T] /\ Unfolds(g, l, none, step)
  <2>1. Steps(step, l, T)
    BY <1>2, <1>3 DEF Steps
  <2>. QED BY <1>1, <2>1, Recursion
<1>6. \A n \in 0 .. l : (IF n = 0 THEN none ELSE step[<<n, g[n - 1]>>]) = (IF n = 0 THEN none ELSE More(n, g[n - 1]))
  <2> TAKE n \in 0 .. l
  <2>1. n # 0 => n \in 1 .. l /\ n - 1 \in 0 .. l
    BY <1>1
  <2>2. n # 0 => g[n - 1] \in T
    BY <1>5, <2>1
  <2>. QED BY <1>2, <2>1, <2>2
<1>7. Is(g)
  BY <1>5, <1>6, Zenon DEF Unfolds
<1>8. Is(f)
  <2> HIDE DEF Is
  <2>. QED BY <1>4, <1>7
<1>9. f[0] = none /\ \A n \in 1 .. l : f[n] = More(n, f[n - 1])
  <2> DEFINE h == [n \in 0 .. l |-> IF n = 0 THEN none ELSE More(n, f[n - 1])]
  <2>1. f = h
    BY <1>8
  <2>2. 0 \in 0 .. l /\ \A n \in 1 .. l : n \in 0 .. l /\ n # 0
    BY <1>1
  <2>3. h[0] = none /\ \A n \in 1 .. l : h[n] = More(n, f[n - 1])
    BY <2>2
  <2> HIDE DEF h
  <2>. QED BY <2>1, <2>3
<1> HIDE DEF Is
<1>10. \A n \in 0 .. l : f[n] \in T
  <2> DEFINE S == {n \in Nat : n <= l => f[n] \in T}
  <2>1. 0 \in S
    BY <1>1, <1>9
  <2>2. ASSUME NEW n \in Nat, n \in S
        PROVE  n + 1 \in S
    <3> SUFFICES ASSUME n + 1 <= l
                 PROVE  f[n + 1] \in T
      OBVIOUS
    <3>1. n + 1 \in 1 .. l /\ (n + 1) - 1 = n /\ n <= l
      BY <1>1
    <3>2. f[n] \in T /\ f[n + 1] = More(n + 1, f[n])
      BY <1>9, <2>2, <3>1
    <3>. QED BY <1>3, <3>1, <3>2
  <2> HIDE DEF S
  <2>3. Nat \subseteq S
    BY <2>1, <2>2, SetInduction
  <2>. QED BY <1>1, <2>3 DEF S
<1>. QED BY <1>9, <1>10 DEF f, l, T, none, More

-----------------------------------------------------------------------------
(* What is proved about *)


N == Len(text)
IsText == text \in Seq(C!Characters)
Whats == {"string", "interpolation", "block", "comment"}

-----------------------------------------------------------------------------
(* The text *)

LEMMA Characters ==
  ASSUME IsText
  PROVE  /\ N \in Nat
         /\ \A i \in 1 .. N : text[i] \in C!Characters /\ C!At(i) = text[i] /\ C!At(i) # C!End
         /\ C!At(N + 1) = C!End
<1>1. N \in Nat /\ \A i \in 1 .. N : text[i] \in C!Characters
  BY DEF IsText, N
<1>2. C!End \notin C!Characters
  BY DEF C!End, C!Characters, C!Letters, C!Digits, C!Single, C!Blanks, C!Others
<1>3. \A i \in 1 .. N : C!At(i) = text[i]
  BY <1>1 DEF C!At, N
<1>4. C!At(N + 1) = C!End
  BY <1>1 DEF C!At, N
<1>. QED BY <1>1, <1>2, <1>3, <1>4

\* The first index from lo on that is in a set hi is in.
LEMMA First ==
  ASSUME NEW lo \in Nat, NEW hi \in Nat, lo <= hi, NEW S, hi \in S
  PROVE  \E j \in lo .. hi : j \in S /\ \A k \in lo .. j - 1 : k \notin S
<1> DEFINE T == {j \in lo .. hi : j \in S}
<1>1. T \subseteq Nat /\ T # {}
  OBVIOUS
<1>2. PICK j \in T : \A k \in T : j <= k
  BY <1>1, LeastElement
<1>3. \A k \in lo .. j - 1 : k \notin S
  BY <1>2
<1>. QED BY <1>2, <1>3

\* Where a run of characters ends.
LEMMA RunEnds ==
  ASSUME IsText, NEW i \in 1 .. N + 1, NEW class, C!End \notin class
  PROVE  /\ C!RunEnd(i, class) \in i - 1 .. N
         /\ \A k \in i .. C!RunEnd(i, class) : C!At(k) \in class
         /\ C!At(C!RunEnd(i, class) + 1) \notin class
<1> DEFINE S == {k \in i .. N + 1 : C!At(k) \notin class}
<1>1. N \in Nat /\ C!At(N + 1) = C!End
  BY Characters
<1>2. i \in Nat /\ N + 1 \in Nat /\ i <= N + 1 /\ N + 1 \in S
  BY <1>1
<1>3. PICK j \in i .. N + 1 : j \in S /\ \A k \in i .. j - 1 : k \notin S
  <2> HIDE DEF S
  <2>. QED BY <1>2, First
<1> DEFINE P(e) == (\A k \in i .. e : C!At(k) \in class) /\ C!At(e + 1) \notin class
<1>4. j - 1 \in i - 1 .. N /\ j - 1 + 1 = j /\ \A k \in i .. j - 1 : k \in i .. N + 1
  BY <1>1, <1>3
<1>5. P(j - 1)
  BY <1>3, <1>4
<1> HIDE DEF P
<1>6. \E e \in i - 1 .. N : P(e)
  BY <1>4, <1>5
<1>7. C!RunEnd(i, class) = CHOOSE e \in i - 1 .. N : P(e)
  BY DEF C!RunEnd, P, N
<1>8. C!RunEnd(i, class) \in i - 1 .. N /\ P(C!RunEnd(i, class))
  BY <1>6, <1>7
<1>. QED BY <1>8 DEF P

\* Where a line ends.
LEMMA LineEnds ==
  ASSUME IsText, NEW i \in 1 .. N + 1
  PROVE  /\ C!LineEnd(i) \in i .. N + 1
         /\ C!At(C!LineEnd(i)) \in {"\n", C!End}
         /\ \A l \in i .. C!LineEnd(i) - 1 : C!At(l) \notin {"\n", C!End}
<1> DEFINE P(k) == C!At(k) \in {"\n", C!End} /\ \A l \in i .. k - 1 : C!At(l) \notin {"\n", C!End}
           S == {k \in i .. N + 1 : C!At(k) \in {"\n", C!End}}
<1>1. N \in Nat /\ C!At(N + 1) = C!End
  BY Characters
<1>2. i \in Nat /\ N + 1 \in Nat /\ i <= N + 1 /\ N + 1 \in S
  BY <1>1
<1>3. PICK j \in i .. N + 1 : j \in S /\ \A k \in i .. j - 1 : k \notin S
  <2> HIDE DEF S
  <2>. QED BY <1>2, First
<1>4. \A k \in i .. j - 1 : k \in i .. N + 1
  BY <1>1, <1>3
<1>5. P(j)
  BY <1>3, <1>4
<1> HIDE DEF P
<1>6. \E e \in i .. N + 1 : P(e)
  BY <1>3, <1>5
<1>7. C!LineEnd(i) = CHOOSE e \in i .. N + 1 : P(e)
  BY DEF C!LineEnd, P, N
<1>8. C!LineEnd(i) \in i .. N + 1 /\ P(C!LineEnd(i))
  BY <1>6, <1>7
<1>. QED BY <1>8 DEF P

\* Where a string's segment ends.
Interrupts(k) == C!At(k) = "$" /\ C!At(k + 1) = "{"
LEMMA SegmentEnds ==
  ASSUME IsText, NEW i \in 1 .. N + 1
  PROVE  /\ C!SegmentEnd(i) \in i .. N + 1
         /\ C!At(C!SegmentEnd(i)) \in {"\"", C!End} \/ Interrupts(C!SegmentEnd(i))
         /\ \A k \in i .. C!SegmentEnd(i) - 1 : C!At(k) # "\"" /\ ~Interrupts(k)
<1> DEFINE Ends(k) == C!At(k) \in {"\"", C!End} \/ Interrupts(k)
           P(j) == Ends(j) /\ \A k \in i .. j - 1 : C!At(k) # "\"" /\ ~Interrupts(k)
           S == {k \in i .. N + 1 : Ends(k)}
<1>1. N \in Nat /\ C!At(N + 1) = C!End
  BY Characters
<1>9. Ends(N + 1)
  BY <1>1
<1> HIDE DEF Ends
<1>2. i \in Nat /\ N + 1 \in Nat /\ i <= N + 1 /\ N + 1 \in S
  BY <1>1, <1>9
<1>3. PICK j \in i .. N + 1 : j \in S /\ \A k \in i .. j - 1 : k \notin S
  <2> HIDE DEF S
  <2>. QED BY <1>2, First
<1>4. \A k \in i .. j - 1 : k \in i .. N + 1
  <2> HIDE DEF P, S
  <2>. QED BY <1>1, <1>3
<1>5. P(j)
  BY <1>3, <1>4 DEF Ends
<1> HIDE DEF P
<1>6. \E e \in i .. N + 1 : P(e)
  BY <1>3, <1>5
<1>7. C!SegmentEnd(i) = CHOOSE e \in i .. N + 1 : P(e)
  BY DEF C!SegmentEnd, P, Ends, N, Interrupts
<1>8. C!SegmentEnd(i) \in i .. N + 1 /\ P(C!SegmentEnd(i))
  BY <1>6, <1>7
<1>. QED BY <1>8 DEF P, Ends
-----------------------------------------------------------------------------
(* What is open after each character *)

Before(i) == IF i > 1 THEN text[i - 1] ELSE "none"

LEMMA OpensOpen ==
  ASSUME NEW open \in Seq(Whats), NEW before, NEW c
  PROVE  Opens(open, before, c) \in Seq(Whats)
<1>1. Append(open, "string") \in Seq(Whats) /\ Append(open, "block") \in Seq(Whats)
      /\ Append(open, "comment") \in Seq(Whats) /\ Append(open, "interpolation") \in Seq(Whats)
  BY DEF Whats
<1>2. open # <<>> => Popped(open) \in Seq(Whats)
  BY DEF Popped
<1>3. Innermost(open) # "code" => open # <<>>
  BY DEF Innermost
<1>4. \/ Opens(open, before, c) \in {open, Append(open, "string"), Append(open, "block"),
                                     Append(open, "comment"), Append(open, "interpolation")}
      \/ (open # <<>> /\ Opens(open, before, c) = Popped(open))
  BY <1>3 DEF Opens
<1>. QED BY <1>1, <1>2, <1>4

\* What is open after each character, from what was open before it.
LEMMA OpenedIs ==
  ASSUME IsText
  PROVE  /\ Opened \in [0 .. N -> Seq(Whats)]
         /\ Opened[0] = <<>>
         /\ \A i \in 1 .. N : Opened[i] = Opens(Opened[i - 1], Before(i), text[i])
<1> DEFINE step == [p \in (1 .. N) \X Seq(Whats) |-> Opens(p[2], Before(p[1]), text[p[1]])]
           Is(f) == f = [i \in 0 .. N |-> IF i = 0 THEN <<>> ELSE Opens(f[i - 1], Before(i), text[i])]
<1>1. N \in Nat /\ <<>> \in Seq(Whats)
  BY Characters
<1>2. \A i \in 1 .. N, u \in Seq(Whats) : step[<<i, u>>] = Opens(u, Before(i), text[i])
  OBVIOUS
<1>3. \A i \in 1 .. N, u \in Seq(Whats) : step[<<i, u>>] \in Seq(Whats)
  BY <1>2, OpensOpen
<1> HIDE DEF step
<1>4. PICK f \in [0 .. N -> Seq(Whats)] : f = [i \in 0 .. N |-> IF i = 0 THEN <<>> ELSE step[<<i, f[i - 1]>>]]
  <2> DEFINE U == Seq(Whats)
             a == <<>>
             n == N
  <2>1. n \in Nat /\ a \in U /\ Steps(step, n, U)
    BY <1>1, <1>3 DEF Steps
  <2> HIDE DEF U, a, n
  <2>2. \E f : f \in [0 .. n -> U] /\ Unfolds(f, n, a, step)
    BY <2>1, Recursion
  <2>. QED BY <2>2 DEF U, a, n, Unfolds
<1>5. \A i \in 0 .. N : (IF i = 0 THEN <<>> ELSE step[<<i, f[i - 1]>>])
                         = (IF i = 0 THEN <<>> ELSE Opens(f[i - 1], Before(i), text[i]))
  <2> TAKE i \in 0 .. N
  <2>1. i # 0 => i \in 1 .. N /\ i - 1 \in 0 .. N
    BY <1>1
  <2>2. i # 0 => f[i - 1] \in Seq(Whats)
    BY <1>4, <2>1
  <2>. QED BY <1>2, <2>1, <2>2
<1>6. Is(f)
  BY <1>4, <1>5, Zenon
<1> HIDE DEF Is
<1>7. Is(Opened)
  <2>1. Opened = CHOOSE g : Is(g)
    BY Zenon DEF Opened, Is, Before, N
  <2>. QED BY <1>6, <2>1
<1>8. ASSUME NEW g, Is(g)
      PROVE  /\ g[0] = <<>>
             /\ \A i \in 1 .. N : g[i] = Opens(g[i - 1], Before(i), text[i])
             /\ g = [i \in 0 .. N |-> g[i]]
  <2> DEFINE h == [i \in 0 .. N |-> IF i = 0 THEN <<>> ELSE Opens(g[i - 1], Before(i), text[i])]
  <2>1. g = h
    BY <1>8 DEF Is
  <2>2. h[0] = <<>> /\ \A i \in 1 .. N : h[i] = Opens(g[i - 1], Before(i), text[i])
    <3>1. 0 \in 0 .. N /\ \A i \in 1 .. N : i \in 0 .. N /\ i # 0
      BY <1>1
    <3>. QED BY <3>1
  <2>3. h = [i \in 0 .. N |-> h[i]]
    BY Zenon
  <2> HIDE DEF h
  <2>. QED BY <2>1, <2>2, <2>3
<1>9. \A i \in 0 .. N : Opened[i] \in Seq(Whats)
  <2> DEFINE S == {k \in Nat : k <= N => Opened[k] \in Seq(Whats)}
  <2>1. 0 \in S
    BY <1>1, <1>7, <1>8
  <2>2. ASSUME NEW k \in Nat, k \in S
        PROVE  k + 1 \in S
    <3>1. CASE k + 1 <= N
      <4>1. k + 1 \in 1 .. N /\ k + 1 - 1 = k /\ Opened[k] \in Seq(Whats)
        BY <1>1, <2>2, <3>1
      <4>2. Opened[k + 1] = Opens(Opened[k], Before(k + 1), text[k + 1])
        BY <1>7, <1>8, <4>1
      <4>. QED BY <4>1, <4>2, OpensOpen
    <3>2. CASE ~ k + 1 <= N
      BY <3>2
    <3>. QED BY <3>1, <3>2
  <2> HIDE DEF S
  <2>3. Nat \subseteq S
    BY <2>1, <2>2, SetInduction
  <2>. QED BY <1>1, <2>3 DEF S
<1>10. Opened = [i \in 0 .. N |-> Opened[i]]
  BY <1>7, <1>8
<1>. QED BY <1>7, <1>8, <1>9, <1>10
-----------------------------------------------------------------------------
(* What scanToken skips *)

Forwards(f, n, go, step) == f = [j \in 1 .. n |-> IF j \in go THEN f[step[j]] ELSE j]

\* A function defined from a later value of its own exists.
LEMMA ForwardsExists ==
  ASSUME NEW n \in Nat, NEW go, NEW step, \A j \in 1 .. n : j \in go => step[j] \in j + 1 .. n
  PROVE  \E f : Forwards(f, n, go, step)
<1> DEFINE Steady(f, k) == /\ f = [j \in 1 .. n |-> f[j]]
                         /\ \A j \in 1 .. n : j + k > n => f[j] = IF j \in go THEN f[step[j]] ELSE j
           S == {k \in Nat : \E f : Steady(f, k)}
<1>1. 0 \in S
  <2>1. Steady([j \in 1 .. n |-> j], 0)
    OBVIOUS
  <2>. QED BY <2>1
<1>2. ASSUME NEW k \in Nat, k \in S
      PROVE  k + 1 \in S
  <2>1. PICK f : Steady(f, k)
    BY <1>2
  <2> DEFINE p == n - k
             new == IF p \in go THEN f[step[p]] ELSE p
             g == [j \in 1 .. n |-> IF j = p THEN new ELSE f[j]]
  <2>2. p \in Int /\ \A j \in 1 .. n : j + (k + 1) > n => j = p \/ j + k > n
    OBVIOUS
  <2>3. \A j \in 1 .. n : j >= p /\ j \in go => step[j] \in 1 .. n /\ step[j] # p
    BY <2>2
  <2> HIDE DEF p
  <2>4. \A j \in 1 .. n : j # p => g[j] = f[j]
    OBVIOUS
  <2>5. p \in 1 .. n => g[p] = new
    OBVIOUS
  <2>6. g = [j \in 1 .. n |-> g[j]]
    <3>1. DOMAIN g = 1 .. n
      OBVIOUS
    <3>. QED BY <3>1
  <2> HIDE DEF g
  <2>7. ASSUME NEW j \in 1 .. n, j + (k + 1) > n
        PROVE  g[j] = IF j \in go THEN g[step[j]] ELSE j
    <3>1. j >= p
      BY <2>7 DEF p
    <3>2. j \in go => g[step[j]] = f[step[j]]
      BY <2>3, <2>4, <3>1
    <3>3. CASE j = p
      BY <2>5, <3>2, <3>3 DEF new
    <3>4. CASE j # p
      <4>1. j + k > n
        BY <2>2, <2>7, <3>4
      <4>. QED BY <2>1, <2>4, <3>2, <3>4, <4>1
    <3>. QED BY <3>3, <3>4
  <2>8. Steady(g, k + 1)
    BY <2>6, <2>7
  <2> HIDE DEF Steady
  <2>. QED BY <2>8
<1>3. n \in S
  <2> HIDE DEF S
  <2>. QED BY <1>1, <1>2, SetInduction
<1>4. PICK f : Steady(f, n)
  BY <1>3
<1>5. \A j \in 1 .. n : f[j] = IF j \in go THEN f[step[j]] ELSE j
  BY <1>4
<1>6. f = [j \in 1 .. n |-> f[j]]
  BY <1>4
<1>7. [j \in 1 .. n |-> f[j]] = [j \in 1 .. n |-> IF j \in go THEN f[step[j]] ELSE j]
  BY <1>5, Zenon
<1>8. Forwards(f, n, go, step)
  BY <1>6, <1>7 DEF Forwards
<1>. QED BY <1>8

Blank(i) == C!At(i) \in C!Blanks \cup {"\n"}
Slashes(i) == C!At(i) = "/" /\ C!At(i + 1) = "/"

LEMMA LineEndIsLater ==
  ASSUME IsText, NEW i \in 1 .. N + 1, Slashes(i)
  PROVE  C!LineEnd(i) \in i + 1 .. N + 1
<1>1. N \in Nat /\ C!LineEnd(i) \in i .. N + 1 /\ C!At(C!LineEnd(i)) \in {"\n", C!End}
  BY Characters, LineEnds
<1>2. C!LineEnd(i) # i
  BY <1>1 DEF Slashes, C!End
<1>. QED BY <1>1, <1>2

\* skipWhitespace goes on after a blank, and after the line of a comment.
LEMMA SkipIs ==
  ASSUME IsText, NEW i \in 1 .. N + 1
  PROVE  /\ Blank(i) => i + 1 \in 1 .. N + 1 /\ C!skipWhitespace(i) = C!skipWhitespace(i + 1)
         /\ ~Blank(i) /\ Slashes(i) => C!skipWhitespace(i) = C!skipWhitespace(C!LineEnd(i))
         /\ ~Blank(i) /\ ~Slashes(i) => C!skipWhitespace(i) = i
<1> DEFINE go == {j \in 1 .. N + 1 : Blank(j) \/ Slashes(j)}
           step == [j \in 1 .. N + 1 |-> IF Blank(j) THEN j + 1 ELSE C!LineEnd(j)]
           Is(f) == f = [j \in 1 .. Len(text) + 1 |->
                           CASE C!At(j) \in C!Blanks \cup {"\n"}   -> f[j + 1]
                             [] C!At(j) = "/" /\ C!At(j + 1) = "/" -> f[C!LineEnd(j)]
                             [] OTHER                              -> j]
           n == N + 1
<1>1. N \in Nat /\ n \in Nat /\ C!At(N + 1) = C!End /\ ~Blank(N + 1)
  <2>1. N \in Nat /\ C!At(N + 1) = C!End
    BY Characters
  <2>2. ~Blank(N + 1)
    BY <2>1 DEF Blank, C!Blanks, C!End
  <2>. QED BY <2>1, <2>2
<1>2. \A j \in 1 .. n : Blank(j) => j # N + 1 /\ j + 1 \in j + 1 .. n
  BY <1>1
<1>3. \A j \in 1 .. n : j \in go => step[j] \in j + 1 .. n
  <2> TAKE j \in 1 .. n
  <2>1. j \in 1 .. N + 1
    OBVIOUS
  <2>2. Slashes(j) => C!LineEnd(j) \in j + 1 .. n
    BY <2>1, LineEndIsLater
  <2>. QED BY <1>2, <2>1, <2>2
<1>4. \E f : Forwards(f, n, go, step)
  <2> HIDE DEF n, go, step
  <2>. QED BY <1>1, <1>3, ForwardsExists
<1>5. ASSUME NEW f
      PROVE  Is(f) <=> Forwards(f, n, go, step)
  <2> DEFINE P(j) == CASE C!At(j) \in C!Blanks \cup {"\n"}   -> f[j + 1]
                       [] C!At(j) = "/" /\ C!At(j + 1) = "/" -> f[C!LineEnd(j)]
                       [] OTHER                              -> j
             Q(j) == IF j \in go THEN f[step[j]] ELSE j
  <2>1. ASSUME NEW j \in 1 .. n
        PROVE  P(j) = Q(j)
    <3>1. CASE Blank(j)
      <4>1. j \in go /\ step[j] = j + 1
        BY <3>1
      <4>2. P(j) = f[j + 1]
        BY <3>1 DEF Blank, C!Blanks
      <4>. QED BY <4>1, <4>2
    <3>2. CASE ~Blank(j) /\ Slashes(j)
      <4>1. j \in go /\ step[j] = C!LineEnd(j)
        BY <3>2
      <4>2. P(j) = f[C!LineEnd(j)]
        BY <3>2 DEF Blank, Slashes
      <4>. QED BY <4>1, <4>2
    <3>3. CASE ~Blank(j) /\ ~Slashes(j)
      <4>1. j \notin go
        BY <3>3
      <4>2. P(j) = j
        BY <3>3 DEF Blank, Slashes
      <4>. QED BY <4>1, <4>2
    <3>. QED BY <3>1, <3>2, <3>3
  <2>2. [j \in 1 .. n |-> P(j)] = [j \in 1 .. n |-> Q(j)]
    <3> HIDE DEF P, Q
    <3>. QED BY <2>1, Zenon
  <2>. QED BY <2>2 DEF Forwards, N
<1> DEFINE skip == CHOOSE f : Is(f)
<1>6. Forwards(skip, n, go, step)
  <2> HIDE DEF Is, go, step, n
  <2>. QED BY <1>4, <1>5
<1>7. \A j : C!skipWhitespace(j) = skip[j]
  BY DEF C!skipWhitespace
<1> HIDE DEF skip
<1>8. \A j \in 1 .. n : skip[j] = IF j \in go THEN skip[step[j]] ELSE j
  <2> HIDE DEF go, step, n
  <2> DEFINE h == [j \in 1 .. n |-> IF j \in go THEN skip[step[j]] ELSE j]
  <2>1. skip = h
    BY <1>6 DEF Forwards
  <2>2. \A j \in 1 .. n : h[j] = IF j \in go THEN skip[step[j]] ELSE j
    OBVIOUS
  <2> HIDE DEF h
  <2>. QED BY <2>1, <2>2
<1>. QED BY <1>1, <1>2, <1>7, <1>8

\* What ScanToken starts with, wherever it starts.
LEMMA SkipEnds ==
  ASSUME IsText, NEW i \in 1 .. N + 1
  PROVE  /\ C!skipWhitespace(i) \in i .. N + 1
         /\ ~Blank(C!skipWhitespace(i)) /\ ~Slashes(C!skipWhitespace(i))
<1> DEFINE P(j) == /\ C!skipWhitespace(j) \in j .. N + 1
                   /\ ~Blank(C!skipWhitespace(j)) /\ ~Slashes(C!skipWhitespace(j))
           S == {k \in Nat : \A j \in 1 .. N + 1 : j + k > N + 1 => P(j)}
<1>1. N \in Nat
  BY Characters
<1>2. 0 \in S
  BY <1>1
<1>3. ASSUME NEW k \in Nat, k \in S
      PROVE  k + 1 \in S
  <2> SUFFICES ASSUME NEW j \in 1 .. N + 1, j + (k + 1) > N + 1
               PROVE  P(j)
    OBVIOUS
  <2>1. \A l \in j + 1 .. N + 1 : C!skipWhitespace(j) = C!skipWhitespace(l) => P(j)
    <3> TAKE l \in j + 1 .. N + 1
    <3>1. l \in 1 .. N + 1 /\ l + k > N + 1
      BY <1>1
    <3>2. P(l)
      BY <1>3, <3>1
    <3>. QED BY <1>1, <3>2
  <2>2. CASE Blank(j)
    <3>1. j + 1 \in j + 1 .. N + 1 /\ C!skipWhitespace(j) = C!skipWhitespace(j + 1)
      BY <1>1, <2>2, SkipIs
    <3> HIDE DEF P
    <3>. QED BY <2>1, <3>1
  <2>3. CASE ~Blank(j) /\ Slashes(j)
    <3>1. C!LineEnd(j) \in j + 1 .. N + 1 /\ C!skipWhitespace(j) = C!skipWhitespace(C!LineEnd(j))
      BY <2>3, SkipIs, LineEndIsLater
    <3> HIDE DEF P
    <3>. QED BY <2>1, <3>1
  <2>4. CASE ~Blank(j) /\ ~Slashes(j)
    <3>1. C!skipWhitespace(j) = j /\ j \in j .. N + 1
      BY <1>1, <2>4, SkipIs
    <3>. QED BY <2>4, <3>1
  <2>. QED BY <2>2, <2>3, <2>4
<1>4. N + 1 \in S
  <2> HIDE DEF S
  <2>. QED BY <1>1, <1>2, <1>3, SetInduction
<1>. QED BY <1>1, <1>4

-----------------------------------------------------------------------------
(* What a character opens and closes *)

\* Code, as a stack: every interpolation is in a string of its own, and every
\* string but a last one has one.
InCode(s) ==
  /\ s \in Seq(Whats)
  /\ \A k \in 1 .. Len(s) : /\ s[k] # "comment"
                            /\ s[k] = "string" => k < Len(s) /\ s[k + 1] = "interpolation"
                            /\ s[k] = "interpolation" => k > 1 /\ s[k - 1] = "string"

LEMMA Appended ==
  ASSUME NEW s \in Seq(Whats), NEW what \in Whats
  PROVE  /\ Append(s, what) \in Seq(Whats) /\ Len(Append(s, what)) = Len(s) + 1
         /\ \A k \in 1 .. Len(s) : Append(s, what)[k] = s[k]
         /\ Append(s, what)[Len(s) + 1] = what
         /\ Innermost(Append(s, what)) = what
         /\ Popped(Append(s, what)) = s
<1> DEFINE t == Append(s, what)
<1>1. /\ t \in Seq(Whats) /\ Len(t) = Len(s) + 1 /\ Len(s) \in Nat
      /\ \A k \in 1 .. Len(s) : t[k] = s[k]
      /\ t[Len(s) + 1] = what
  OBVIOUS
<1>2. t # <<>>
  BY <1>1
<1> HIDE DEF t
<1>3. Innermost(t) = what
  BY <1>1, <1>2 DEF Innermost
<1>4. Popped(t) = s
  <2>1. Len(t) - 1 = Len(s)
    BY <1>1
  <2>2. SubSeq(t, 1, Len(s)) = [k \in 1 .. Len(s) |-> t[k]]
    BY <1>1 DEF SubSeq
  <2>3. [k \in 1 .. Len(s) |-> t[k]] = [k \in 1 .. Len(s) |-> s[k]]
    BY <1>1
  <2>4. s = [k \in 1 .. Len(s) |-> s[k]]
    OBVIOUS
  <2>. QED BY <2>1, <2>2, <2>3, <2>4 DEF Popped
<1>. QED BY <1>1, <1>3, <1>4 DEF t

LEMMA CodeIsInnermost ==
  ASSUME NEW s, InCode(s)
  PROVE  /\ Innermost(s) \in {"code", "block", "interpolation"}
         /\ Innermost(s) = "code" <=> s = <<>>
<1>1. CASE s = <<>>
  BY <1>1 DEF Innermost
<1>2. CASE s # <<>>
  <2>1. Len(s) \in 1 .. Len(s) /\ s[Len(s)] \in Whats
    BY <1>2 DEF InCode
  <2>2. s[Len(s)] # "comment" /\ s[Len(s)] # "string"
    BY <2>1 DEF InCode
  <2>. QED BY <1>2, <2>1, <2>2 DEF Innermost, Whats
<1>. QED BY <1>1, <1>2

LEMMA OpensInCode ==
  ASSUME NEW s, InCode(s), NEW before, NEW c
  PROVE  /\ c \notin {"\"", "{", "}", "/"} => Opens(s, before, c) = s
         /\ c = "/" /\ before # "/" => Opens(s, before, c) = s
         /\ c = "\"" => Opens(s, before, c) = Append(s, "string")
         /\ c = "{" => Opens(s, before, c) = Append(s, "block")
         /\ c = "}" => Opens(s, before, c) = IF s = <<>> THEN s ELSE Popped(s)
<1>1. Innermost(s) \in {"code", "block", "interpolation"} /\ (Innermost(s) = "code" <=> s = <<>>)
  BY CodeIsInnermost
<1>2. CASE c \notin {"\"", "{", "}", "/"}
  BY <1>1, <1>2 DEF Opens
<1>3. CASE c = "/"
  BY <1>1, <1>3 DEF Opens
<1>4. CASE c = "\""
  BY <1>1, <1>4 DEF Opens
<1>5. CASE c = "{"
  BY <1>1, <1>5 DEF Opens
<1>6. CASE c = "}"
  BY <1>1, <1>6 DEF Opens
<1>. QED BY <1>2, <1>3, <1>4, <1>5, <1>6

LEMMA CommentOpens ==
  ASSUME NEW s, InCode(s)
  PROVE  Opens(s, "/", "/") = Append(s, "comment")
<1>1. Innermost(s) \in {"code", "block", "interpolation"}
  BY CodeIsInnermost
<1>. QED BY <1>1 DEF Opens

LEMMA OpensInComment ==
  ASSUME NEW s \in Seq(Whats), NEW before, NEW c
  PROVE  Opens(Append(s, "comment"), before, c) = IF c = "\n" THEN s ELSE Append(s, "comment")
<1>1. Innermost(Append(s, "comment")) = "comment" /\ Popped(Append(s, "comment")) = s
  BY Appended DEF Whats
<1>. QED BY <1>1 DEF Opens

LEMMA OpensInString ==
  ASSUME NEW s \in Seq(Whats), NEW before, NEW c
  PROVE  /\ c = "\"" => Opens(Append(s, "string"), before, c) = s
         /\ c = "{" /\ before = "$" =>
              Opens(Append(s, "string"), before, c) = Append(Append(s, "string"), "interpolation")
         /\ c # "\"" /\ ~(c = "{" /\ before = "$") =>
              Opens(Append(s, "string"), before, c) = Append(s, "string")
<1>1. Innermost(Append(s, "string")) = "string" /\ Popped(Append(s, "string")) = s
  BY Appended DEF Whats
<1>2. CASE c = "\""
  BY <1>1, <1>2 DEF Opens
<1>3. CASE c = "{" /\ before = "$"
  BY <1>1, <1>3 DEF Opens
<1>4. CASE c # "\"" /\ ~(c = "{" /\ before = "$")
  BY <1>1, <1>4 DEF Opens
<1>. QED BY <1>2, <1>3, <1>4
-----------------------------------------------------------------------------
(* The blocks open in each interpolation *)

\* open[p[1]], open[p[2]], ... are its interpolations, and counts[n] blocks
\* follow the n-th; l and t are the lengths of open and counts.
Marks(open, l, counts, t, p) ==
  /\ l \in Nat /\ t \in Nat
  /\ p \in [1 .. t -> 1 .. l]
  /\ \A n \in 1 .. t : counts[n] \in Nat
  /\ \A n \in 1 .. t, m \in 1 .. t : n < m => p[n] < p[m]
  /\ \A n \in 1 .. t : open[p[n]] = "interpolation"
  /\ \A k \in 1 .. l : open[k] = "interpolation" => \E n \in 1 .. t : p[n] = k
  /\ \A n \in 1 .. t : /\ p[n] + counts[n] <= l
                       /\ \A k \in p[n] + 1 .. p[n] + counts[n] : open[k] = "block"
                       /\ p[n] + counts[n] < l => open[p[n] + counts[n] + 1] # "block"

Counts(open, counts) ==
  /\ counts \in Seq(Nat)
  /\ \E p : Marks(open, Len(open), counts, Len(counts), p)

\* They are what OpenBraces says.
LEMMA CountsAreOpenBraces ==
  ASSUME NEW open \in Seq(Whats), NEW counts, Counts(open, counts)
  PROVE  OpenBraces(open) = counts
<1> DEFINE at == {i \in 1 .. Len(open) : open[i] = "interpolation"}
           Nth(n) == CHOOSE i \in at : Cardinality({j \in at : j <= i}) = n
           IsBlocks(i, n) == /\ \A j \in i + 1 .. i + n : open[j] = "block"
                             /\ i + n = Len(open) \/ open[i + n + 1] # "block"
           Blocks(i) == CHOOSE n \in 0 .. Len(open) - i : IsBlocks(i, n)
           l == Len(open)
           t == Len(counts)
<1>1. PICK p : Marks(open, l, counts, t, p)
  BY DEF Counts
<1>2. l \in Nat /\ t \in Nat /\ p \in [1 .. t -> 1 .. l] /\ \A n \in 1 .. t : p[n] \in 1 .. l /\ counts[n] \in Nat
  BY <1>1 DEF Marks
<1>3. at = {p[n] : n \in 1 .. t}
  <2>1. \A n \in 1 .. t : p[n] \in at
    BY <1>1, <1>2 DEF Marks
  <2>2. \A i \in at : \E n \in 1 .. t : p[n] = i
    BY <1>1 DEF Marks
  <2>. QED BY <2>1, <2>2
\* The rank of an interpolation.
<1>4. ASSUME NEW n \in 1 .. t
      PROVE  Cardinality({j \in at : j <= p[n]}) = n
  <2> DEFINE A == {j \in at : j <= p[n]}
             f == [m \in 1 .. n |-> p[m]]
  <2>1. \A m \in 1 .. t : p[m] <= p[n] <=> m <= n
    <3> TAKE m \in 1 .. t
    <3>1. m < n => p[m] < p[n]
      BY <1>1 DEF Marks
    <3>2. n < m => p[n] < p[m]
      BY <1>1 DEF Marks
    <3>. QED BY <1>2, <3>1, <3>2
  <2>2. \A m \in 1 .. n : m \in 1 .. t /\ f[m] = p[m]
    BY <1>2
  <2>3. f \in Bijection(1 .. n, A)
    <3>1. \A m \in 1 .. n : f[m] \in A
      BY <1>3, <2>1, <2>2
    <3>2. \A a \in 1 .. n, b \in 1 .. n : f[a] = f[b] => a = b
      <4> TAKE a \in 1 .. n, b \in 1 .. n
      <4>1. a \in 1 .. t /\ b \in 1 .. t /\ f[a] = p[a] /\ f[b] = p[b]
        BY <2>2
      <4>2. a < b => p[a] < p[b]
        BY <1>1, <4>1 DEF Marks
      <4>3. b < a => p[b] < p[a]
        BY <1>1, <4>1 DEF Marks
      <4>. QED BY <1>2, <4>1, <4>2, <4>3
    <3>3. \A j \in A : \E m \in 1 .. n : f[m] = j
      <4> TAKE j \in A
      <4>1. PICK m \in 1 .. t : p[m] = j
        BY <1>3
      <4>2. m \in 1 .. n
        BY <2>1, <4>1
      <4>. QED BY <2>2, <4>1, <4>2
    <3>4. f \in [1 .. n -> A]
      BY <3>1
    <3> HIDE DEF A, f
    <3>. QED BY <3>2, <3>3, <3>4 DEF Bijection, Injection, Surjection, IsInjective
  <2> HIDE DEF f, A
  <2>4. ExistsBijection(1 .. n, A)
    BY <2>3 DEF ExistsBijection
  <2>5. n \in Nat
    BY <1>2
  <2>6. Cardinality(A) = n
    BY <2>4, <2>5, FS_CountingElements
  <2>. QED BY <2>6 DEF A
<1> HIDE DEF at
<1>5. Cardinality(at) = t
  <2>1. CASE t = 0
    <3>1. at = {}
      BY <1>3, <2>1
    <3>. QED BY <2>1, <3>1, FS_EmptySet
  <2>2. CASE t # 0
    <3>1. t \in 1 .. t
      BY <1>2, <2>2
    <3>2. \A n \in 1 .. t : p[n] <= p[t]
      <4> TAKE n \in 1 .. t
      <4>1. n < t => p[n] < p[t]
        BY <1>1, <3>1 DEF Marks
      <4>. QED BY <1>2, <3>1, <4>1
    <3>3. at = {j \in at : j <= p[t]}
      BY <1>3, <3>2
    <3>. QED BY <1>4, <3>1, <3>3
  <2>. QED BY <2>1, <2>2
<1>6. ASSUME NEW n \in 1 .. t
      PROVE  Nth(n) = p[n]
  <2>1. p[n] \in at /\ Cardinality({j \in at : j <= p[n]}) = n
    BY <1>3, <1>4
  <2>2. ASSUME NEW i \in at, Cardinality({j \in at : j <= i}) = n
        PROVE  i = p[n]
    <3>1. PICK m \in 1 .. t : p[m] = i
      BY <1>3
    <3>2. m = n
      BY <1>4, <2>2, <3>1
    <3>. QED BY <3>1, <3>2
  <2>. QED BY <2>1, <2>2
<1>7. ASSUME NEW n \in 1 .. t
      PROVE  Blocks(p[n]) = counts[n]
  <2> DEFINE i == p[n]
             c == counts[n]
  <2>1. /\ i \in 1 .. l /\ c \in Nat /\ i + c <= l
        /\ \A k \in i + 1 .. i + c : open[k] = "block"
        /\ i + c < l => open[i + c + 1] # "block"
    BY <1>1, <1>2 DEF Marks
  <2> HIDE DEF i, c
  <2>2. c \in 0 .. l - i /\ IsBlocks(i, c)
    BY <1>2, <2>1
  <2>3. ASSUME NEW d \in 0 .. l - i, IsBlocks(i, d)
        PROVE  d = c
    <3>1. CASE d < c
      <4>1. i + d + 1 \in i + 1 .. i + c /\ i + d # l
        BY <1>2, <2>1, <3>1
      <4>. QED BY <2>1, <2>3, <4>1
    <3>2. CASE c < d
      <4>1. i + c + 1 \in i + 1 .. i + d /\ i + c < l
        BY <1>2, <2>1, <3>2
      <4>. QED BY <2>1, <2>3, <4>1
    <3>. QED BY <2>1, <3>1, <3>2
  <2> HIDE DEF IsBlocks
  <2>. QED BY <2>2, <2>3 DEF i, c
<1>8. OpenBraces(open) = [n \in 1 .. Cardinality(at) |-> Blocks(Nth(n))]
  BY DEF OpenBraces, at
<1> HIDE DEF Nth, Blocks
<1>9. [n \in 1 .. t |-> Blocks(Nth(n))] = [n \in 1 .. t |-> counts[n]]
  BY <1>6, <1>7
<1>10. counts = [n \in 1 .. t |-> counts[n]]
  BY DEF Counts
<1>. QED BY <1>5, <1>8, <1>9, <1>10

\* u is s with one more at its end.
Longer(u, s, l, what) == u[l + 1] = what /\ \A k \in 1 .. l : u[k] = s[k]

LEMMA MarksOther ==
  ASSUME NEW s, NEW l, NEW counts, NEW t, NEW p, Marks(s, l, counts, t, p),
         NEW u, NEW what, Longer(u, s, l, what), what \notin {"block", "interpolation"}
  PROVE  Marks(u, l + 1, counts, t, p)
<1>1. l \in Nat /\ t \in Nat /\ \A n \in 1 .. t : p[n] \in 1 .. l /\ counts[n] \in Nat
  BY DEF Marks
<1>2. p \in [1 .. t -> 1 .. l + 1]
  BY <1>1 DEF Marks
<1>3. ASSUME NEW n \in 1 .. t
      PROVE  /\ u[p[n]] = "interpolation"
             /\ p[n] + counts[n] <= l + 1
             /\ \A k \in p[n] + 1 .. p[n] + counts[n] : u[k] = "block"
             /\ p[n] + counts[n] < l + 1 => u[p[n] + counts[n] + 1] # "block"
  <2> DEFINE i == p[n]
             e == p[n] + counts[n]
  <2>1. /\ i \in 1 .. l /\ s[i] = "interpolation" /\ e \in i .. l
        /\ \A k \in i + 1 .. e : s[k] = "block"
        /\ e < l => s[e + 1] # "block"
    BY <1>1 DEF Marks
  <2> HIDE DEF i, e
  <2>2. \A k \in i + 1 .. e : k \in 1 .. l
    BY <1>1, <2>1
  <2>3. u[i] = "interpolation" /\ \A k \in i + 1 .. e : u[k] = "block"
    BY <2>1, <2>2 DEF Longer
  <2>4. e < l => u[e + 1] # "block"
    <3>1. e < l => e + 1 \in 1 .. l
      BY <1>1, <2>1
    <3>. QED BY <2>1, <3>1 DEF Longer
  <2>5. e = l => u[e + 1] # "block"
    BY DEF Longer
  <2>6. e <= l + 1 /\ (e < l + 1 => u[e + 1] # "block")
    BY <1>1, <2>1, <2>4, <2>5
  <2>. QED BY <2>3, <2>6 DEF i, e
<1>4. \A k \in 1 .. l + 1 : u[k] = "interpolation" => \E n \in 1 .. t : p[n] = k
  <2> TAKE k \in 1 .. l + 1
  <2>1. k \in 1 .. l \/ k = l + 1
    BY <1>1
  <2>2. k = l + 1 => u[k] # "interpolation"
    BY DEF Longer
  <2>3. k \in 1 .. l => u[k] = s[k]
    BY DEF Longer
  <2>. QED BY <2>1, <2>2, <2>3 DEF Marks
<1>. QED BY <1>1, <1>2, <1>3, <1>4 DEF Marks

LEMMA MarksInterpolation ==
  ASSUME NEW s, NEW l, NEW counts, NEW t, NEW p, Marks(s, l, counts, t, p),
         NEW u, Longer(u, s, l, "interpolation"),
         NEW more, Longer(more, counts, t, 0)
  PROVE  \E q : Marks(u, l + 1, more, t + 1, q)
<1> DEFINE q == [n \in 1 .. t + 1 |-> IF n = t + 1 THEN l + 1 ELSE p[n]]
<1>1. l \in Nat /\ t \in Nat /\ \A n \in 1 .. t : p[n] \in 1 .. l /\ counts[n] \in Nat
  BY DEF Marks
<1>2. \A n \in 1 .. t : n \in 1 .. t + 1 /\ n # t + 1 /\ q[n] = p[n] /\ more[n] = counts[n]
  BY <1>1 DEF Longer
<1>3. q[t + 1] = l + 1 /\ more[t + 1] = 0 /\ t + 1 \in 1 .. t + 1
  BY <1>1 DEF Longer
<1>4. \A n \in 1 .. t + 1 : n = t + 1 \/ n \in 1 .. t
  BY <1>1
<1>5. q \in [1 .. t + 1 -> 1 .. l + 1]
  BY <1>1
<1> HIDE DEF q
<1>6. ASSUME NEW n \in 1 .. t + 1
      PROVE  /\ more[n] \in Nat
             /\ u[q[n]] = "interpolation"
             /\ q[n] + more[n] <= l + 1
             /\ \A k \in q[n] + 1 .. q[n] + more[n] : u[k] = "block"
             /\ q[n] + more[n] < l + 1 => u[q[n] + more[n] + 1] # "block"
  <2>1. CASE n = t + 1
    BY <1>1, <1>3, <2>1 DEF Longer
  <2>2. CASE n \in 1 .. t
    <3> DEFINE i == p[n]
               e == p[n] + counts[n]
    <3>1. /\ i \in 1 .. l /\ s[i] = "interpolation" /\ e \in i .. l
          /\ \A k \in i + 1 .. e : s[k] = "block"
          /\ e < l => s[e + 1] # "block"
      BY <1>1, <2>2 DEF Marks
    <3>2. q[n] = i /\ q[n] + more[n] = e /\ more[n] \in Nat
      BY <1>1, <1>2, <2>2
    <3> HIDE DEF i, e
    <3>3. \A k \in i + 1 .. e : k \in 1 .. l
      BY <1>1, <3>1
    <3>4. u[i] = "interpolation" /\ \A k \in i + 1 .. e : u[k] = "block"
      BY <3>1, <3>3 DEF Longer
    <3>5. e < l => u[e + 1] # "block"
      <4>1. e < l => e + 1 \in 1 .. l
        BY <1>1, <3>1
      <4>. QED BY <3>1, <4>1 DEF Longer
    <3>6. e = l => u[e + 1] # "block"
      BY DEF Longer
    <3>7. e <= l + 1 /\ (e < l + 1 => u[e + 1] # "block")
      BY <1>1, <3>1, <3>5, <3>6
    <3>. QED BY <3>2, <3>4, <3>7
  <2>. QED BY <1>4, <2>1, <2>2
<1>7. \A k \in 1 .. l + 1 : u[k] = "interpolation" => \E n \in 1 .. t + 1 : q[n] = k
  <2> TAKE k \in 1 .. l + 1
  <2>1. CASE k = l + 1
    BY <1>3, <2>1
  <2>2. CASE k # l + 1
    <3>1. k \in 1 .. l /\ u[k] = s[k]
      BY <1>1, <2>2 DEF Longer
    <3>2. u[k] = "interpolation" => \E n \in 1 .. t : p[n] = k
      BY <3>1 DEF Marks
    <3>. QED BY <1>2, <3>2
  <2>. QED BY <2>1, <2>2
<1>8. \A n \in 1 .. t + 1, m \in 1 .. t + 1 : n < m => q[n] < q[m]
  <2> TAKE n \in 1 .. t + 1, m \in 1 .. t + 1
  <2>1. n < m => n \in 1 .. t
    BY <1>1
  <2>2. n \in 1 .. t => q[n] \in 1 .. l
    BY <1>1, <1>2
  <2>3. n < m /\ m \in 1 .. t => q[n] < q[m]
    BY <1>2, <2>1 DEF Marks
  <2>4. n < m /\ m = t + 1 => q[n] < q[m]
    BY <1>1, <1>3, <2>1, <2>2
  <2>. QED BY <1>4, <2>3, <2>4
<1>9. Marks(u, l + 1, more, t + 1, q)
  BY <1>1, <1>5, <1>6, <1>7, <1>8 DEF Marks
<1>. QED BY <1>9

\* In code the blocks of the innermost interpolation are the last things open.
CodeUpTo(s, l) ==
  \A k \in 1 .. l : /\ s[k] \in {"block", "string", "interpolation"}
                    /\ s[k] = "string" => k < l /\ s[k + 1] = "interpolation"

LEMMA LastBlocks ==
  ASSUME NEW s, NEW l, NEW counts, NEW t, NEW p, Marks(s, l, counts, t, p), CodeUpTo(s, l), t # 0
  PROVE  /\ p[t] \in 1 .. l /\ counts[t] \in Nat /\ p[t] + counts[t] = l
         /\ \A n \in 1 .. t : n # t => p[n] + counts[n] < p[t]
<1>1. l \in Nat /\ t \in Nat /\ \A n \in 1 .. t : p[n] \in 1 .. l /\ counts[n] \in Nat
  BY DEF Marks
<1>2. t \in 1 .. t
  BY <1>1
<1> DEFINE i == p[t]
           e == p[t] + counts[t]
<1>3. /\ i \in 1 .. l /\ s[i] = "interpolation" /\ e \in i .. l
      /\ e < l => s[e + 1] # "block"
  BY <1>1, <1>2 DEF Marks
<1>4. \A k \in 1 .. l : s[k] = "interpolation" => k <= i
  <2> TAKE k \in 1 .. l
  <2>1. ASSUME s[k] = "interpolation"
        PROVE  k <= i
    <3>1. PICK n \in 1 .. t : p[n] = k
      BY <2>1 DEF Marks
    <3>2. n < t => p[n] < p[t]
      BY <1>2, <3>1 DEF Marks
    <3>. QED BY <1>1, <1>2, <3>1, <3>2
  <2>. QED BY <2>1
<1>5. ASSUME NEW n \in 1 .. t, n # t
      PROVE  p[n] + counts[n] < p[t]
  <2>1. p[n] < p[t]
    BY <1>1, <1>2, <1>5 DEF Marks
  <2>2. \A k \in p[n] + 1 .. p[n] + counts[n] : s[k] = "block"
    BY <1>1 DEF Marks
  <2>3. p[t] \notin p[n] + 1 .. p[n] + counts[n]
    BY <1>3, <2>2
  <2>. QED BY <1>1, <1>2, <2>1, <2>3
<1> HIDE DEF i, e
<1>6. e = l
  <2>1. ASSUME e < l
        PROVE  FALSE
    <3>1. e + 1 \in 1 .. l /\ e + 1 > i /\ s[e + 1] # "block"
      BY <1>1, <1>3, <2>1
    <3>2. s[e + 1] # "interpolation"
      BY <1>3, <1>4, <3>1
    <3>3. e + 1 < l /\ s[(e + 1) + 1] = "interpolation"
      BY <3>1, <3>2 DEF CodeUpTo
    <3>4. (e + 1) + 1 \in 1 .. l /\ (e + 1) + 1 > i
      BY <1>1, <1>3, <3>3
    <3>. QED BY <1>3, <1>4, <3>3, <3>4
  <2>. QED BY <1>1, <1>3, <2>1
<1>. QED BY <1>1, <1>2, <1>5, <1>6 DEF i, e

\* counts with another last count.
Changed(more, counts, t, last) ==
  t # 0 => more[t] = last /\ \A n \in 1 .. t : n # t => more[n] = counts[n]

LEMMA MarksBlock ==
  ASSUME NEW s, NEW l, NEW counts, NEW t, NEW p, Marks(s, l, counts, t, p), CodeUpTo(s, l),
         NEW u, Longer(u, s, l, "block"),
         NEW more, Changed(more, counts, t, counts[t] + 1)
  PROVE  Marks(u, l + 1, more, t, p)
<1>1. l \in Nat /\ t \in Nat /\ \A n \in 1 .. t : p[n] \in 1 .. l /\ counts[n] \in Nat
  BY DEF Marks
<1>2. p \in [1 .. t -> 1 .. l + 1]
  BY <1>1 DEF Marks
<1>3. \A k \in 1 .. l + 1 : u[k] = "interpolation" => \E n \in 1 .. t : p[n] = k
  <2> TAKE k \in 1 .. l + 1
  <2>1. k \in 1 .. l \/ k = l + 1
    BY <1>1
  <2>2. k = l + 1 => u[k] # "interpolation"
    BY DEF Longer
  <2>3. k \in 1 .. l => u[k] = s[k]
    BY DEF Longer
  <2>. QED BY <2>1, <2>2, <2>3 DEF Marks
<1>4. ASSUME NEW n \in 1 .. t
      PROVE  /\ more[n] \in Nat
             /\ u[p[n]] = "interpolation"
             /\ p[n] + more[n] <= l + 1
             /\ \A k \in p[n] + 1 .. p[n] + more[n] : u[k] = "block"
             /\ p[n] + more[n] < l + 1 => u[p[n] + more[n] + 1] # "block"
  <2> DEFINE i == p[n]
             c == counts[n]
             e == p[n] + counts[n]
  <2>1. /\ i \in 1 .. l /\ s[i] = "interpolation" /\ e \in i .. l /\ c \in Nat /\ e = i + c
        /\ \A k \in i + 1 .. e : s[k] = "block"
        /\ e < l => s[e + 1] # "block"
    BY <1>1 DEF Marks
  <2>2. t # 0 /\ n \in Nat
    BY <1>1
  <2>3. /\ p[t] \in 1 .. l /\ p[t] + counts[t] = l
        /\ n # t => e < p[t]
    BY <2>2, LastBlocks
  <2>4. n = t => e = l
    BY <2>3
  <2>5. n = t => more[n] = c + 1
    BY <2>2 DEF Changed
  <2>6. n # t => more[n] = c
    BY <2>2 DEF Changed
  <2> HIDE DEF i, e, c
  <2>7. \A k \in i + 1 .. e : k \in 1 .. l
    BY <1>1, <2>1
  <2>8. u[i] = "interpolation" /\ \A k \in i + 1 .. e : u[k] = "block"
    BY <2>1, <2>7 DEF Longer
  <2>9. CASE n = t
    <3>1. e = l /\ more[n] = c + 1 /\ i + more[n] = l + 1
      BY <1>1, <2>1, <2>4, <2>5, <2>9
    <3>2. \A k \in i + 1 .. l + 1 : u[k] = "block"
      <4>1. \A k \in i + 1 .. l + 1 : k = l + 1 \/ k \in i + 1 .. l
        BY <1>1, <2>1
      <4>2. u[l + 1] = "block"
        BY DEF Longer
      <4>. QED BY <2>8, <3>1, <4>1, <4>2
    <3>3. more[n] \in Nat /\ i + more[n] <= l + 1 /\ ~(i + more[n] < l + 1)
      BY <1>1, <2>1, <3>1
    <3>. QED BY <2>8, <3>1, <3>2, <3>3 DEF i
  <2>10. CASE n # t
    <3>1. e < l /\ more[n] = c /\ i + more[n] = e
      BY <1>1, <2>1, <2>3, <2>6, <2>10
    <3>2. e + 1 \in 1 .. l /\ u[e + 1] = s[e + 1] /\ s[e + 1] # "block"
      BY <1>1, <2>1, <3>1 DEF Longer
    <3>3. e <= l + 1 /\ more[n] \in Nat
      BY <1>1, <2>1, <3>1
    <3>. QED BY <2>8, <3>1, <3>2, <3>3 DEF i
  <2>. QED BY <2>9, <2>10
<1>. QED BY <1>1, <1>2, <1>3, <1>4 DEF Marks

LEMMA MarksUnblock ==
  ASSUME NEW s, NEW l \in Nat, NEW u, Longer(u, s, l, "block"), CodeUpTo(u, l + 1),
         NEW counts, NEW t, NEW p, Marks(u, l + 1, counts, t, p),
         NEW less, Changed(less, counts, t, counts[t] - 1)
  PROVE  /\ Marks(s, l, less, t, p)
         /\ t # 0 => counts[t] # 0
<1>1. t \in Nat /\ \A n \in 1 .. t : p[n] \in 1 .. l + 1 /\ counts[n] \in Nat
  BY DEF Marks
<1>2. u[l + 1] = "block"
  BY DEF Longer
<1>3. ASSUME NEW n \in 1 .. t
      PROVE  /\ p[n] \in 1 .. l
             /\ less[n] \in Nat
             /\ s[p[n]] = "interpolation"
             /\ p[n] + less[n] <= l
             /\ \A k \in p[n] + 1 .. p[n] + less[n] : s[k] = "block"
             /\ p[n] + less[n] < l => s[p[n] + less[n] + 1] # "block"
             /\ n = t => counts[n] # 0
  <2> DEFINE i == p[n]
             c == counts[n]
             e == p[n] + counts[n]
  <2>1. /\ i \in 1 .. l + 1 /\ u[i] = "interpolation" /\ e \in i .. l + 1 /\ c \in Nat /\ e = i + c
        /\ \A k \in i + 1 .. e : u[k] = "block"
        /\ e < l + 1 => u[e + 1] # "block"
    BY <1>1 DEF Marks
  <2>2. t # 0 /\ n \in Nat
    BY <1>1
  <2>3. /\ p[t] \in 1 .. l + 1 /\ p[t] + counts[t] = l + 1
        /\ n # t => e < p[t]
    BY <2>2, LastBlocks
  <2>4. n = t => e = l + 1
    BY <2>3
  <2>5. n = t => less[n] = c - 1
    BY <2>2 DEF Changed
  <2>6. n # t => less[n] = c
    BY <2>2 DEF Changed
  <2> HIDE DEF i, e, c
  <2>7. i # l + 1
    BY <1>2, <2>1
  <2>8. i \in 1 .. l /\ s[i] = "interpolation"
    BY <2>1, <2>7 DEF Longer
  <2>9. CASE n = t
    <3>1. e = l + 1 /\ less[n] = c - 1 /\ i + less[n] = l /\ c # 0
      BY <2>1, <2>4, <2>5, <2>7, <2>9
    <3>2. \A k \in i + 1 .. l : k \in 1 .. l /\ k \in i + 1 .. e
      BY <2>1, <3>1
    <3>3. \A k \in i + 1 .. l : s[k] = "block"
      BY <2>1, <3>2 DEF Longer
    <3>4. less[n] \in Nat /\ i + less[n] <= l /\ ~(i + less[n] < l)
      BY <2>1, <3>1
    <3>. QED BY <2>8, <3>1, <3>3, <3>4 DEF i, c
  <2>10. CASE n # t
    <3>1. p[t] # l + 1
      <4>1. t \in 1 .. t
        BY <1>1, <2>2
      <4>2. u[p[t]] = "interpolation"
        BY <4>1 DEF Marks
      <4>. QED BY <1>2, <4>2
    <3>2. e < l /\ less[n] = c /\ i + less[n] = e
      BY <2>1, <2>3, <2>6, <2>10, <3>1
    <3>3. e + 1 \in 1 .. l /\ u[e + 1] = s[e + 1] /\ u[e + 1] # "block"
      BY <2>1, <3>2 DEF Longer
    <3>4. \A k \in i + 1 .. e : k \in 1 .. l
      BY <2>1, <3>2
    <3>5. \A k \in i + 1 .. e : s[k] = "block"
      BY <2>1, <3>4 DEF Longer
    <3>6. e <= l /\ less[n] \in Nat
      BY <2>1, <3>2
    <3>. QED BY <2>8, <2>10, <3>2, <3>3, <3>5, <3>6 DEF i
  <2>. QED BY <2>9, <2>10
<1>4. p \in [1 .. t -> 1 .. l]
  BY <1>3 DEF Marks
<1>5. \A k \in 1 .. l : s[k] = "interpolation" => \E n \in 1 .. t : p[n] = k
  <2> TAKE k \in 1 .. l
  <2>1. k \in 1 .. l + 1 /\ u[k] = s[k]
    BY DEF Longer
  <2>. QED BY <2>1 DEF Marks
<1>6. Marks(s, l, less, t, p)
  BY <1>1, <1>3, <1>4, <1>5 DEF Marks
<1>7. t # 0 => t \in 1 .. t
  BY <1>1
<1>. QED BY <1>3, <1>6, <1>7

LEMMA MarksClose ==
  ASSUME NEW s, NEW l \in Nat, NEW u, Longer(u, s, l, "interpolation"), CodeUpTo(u, l + 1),
         NEW counts, NEW t, NEW p, Marks(u, l + 1, counts, t, p)
  PROVE  /\ t # 0 /\ counts[t] = 0
         /\ l = 0 \/ s[l] # "block" => \E q : Marks(s, l, counts, t - 1, q)
<1>1. t \in Nat /\ \A n \in 1 .. t : p[n] \in 1 .. l + 1 /\ counts[n] \in Nat
  BY DEF Marks
<1>2. u[l + 1] = "interpolation" /\ l + 1 \in 1 .. l + 1
  BY DEF Longer
<1>3. PICK m \in 1 .. t : p[m] = l + 1
  BY <1>2 DEF Marks
<1>4. t # 0 /\ t \in 1 .. t
  BY <1>1
<1>5. /\ p[t] \in 1 .. l + 1 /\ p[t] + counts[t] = l + 1
      /\ \A n \in 1 .. t : n # t => p[n] + counts[n] < p[t]
  BY <1>4, LastBlocks
<1>6. p[t] = l + 1 /\ counts[t] = 0
  <2>1. m < t => p[m] < p[t]
    BY <1>4 DEF Marks
  <2>2. counts[t] \in Nat
    BY <1>1, <1>4
  <2>. QED BY <1>1, <1>3, <1>4, <1>5, <2>1, <2>2
<1>7. ASSUME l = 0 \/ s[l] # "block"
      PROVE  \E q : Marks(s, l, counts, t - 1, q)
  <2> DEFINE q == [n \in 1 .. t - 1 |-> p[n]]
  <2>1. \A n \in 1 .. t - 1 : n \in 1 .. t /\ n # t /\ q[n] = p[n]
    BY <1>1
  <2>2. ASSUME NEW n \in 1 .. t - 1
        PROVE  /\ q[n] \in 1 .. l
               /\ counts[n] \in Nat
               /\ s[q[n]] = "interpolation"
               /\ q[n] + counts[n] <= l
               /\ \A k \in q[n] + 1 .. q[n] + counts[n] : s[k] = "block"
               /\ q[n] + counts[n] < l => s[q[n] + counts[n] + 1] # "block"
    <3> DEFINE i == p[n]
               c == counts[n]
               e == p[n] + counts[n]
    <3>1. n \in 1 .. t /\ n # t /\ q[n] = i
      BY <2>1
    <3>2. /\ i \in 1 .. l + 1 /\ u[i] = "interpolation" /\ e \in i .. l + 1 /\ c \in Nat /\ e = i + c
          /\ \A k \in i + 1 .. e : u[k] = "block"
          /\ e < l + 1 => u[e + 1] # "block"
      BY <1>1, <3>1 DEF Marks
    <3>3. e < l + 1
      BY <1>5, <1>6, <3>1
    <3> HIDE DEF i, e, c, q
    <3>4. i \in 1 .. l /\ e \in i .. l
      BY <3>2, <3>3
    <3>5. \A k \in i + 1 .. e : k \in 1 .. l
      BY <3>4
    <3>6. s[i] = "interpolation" /\ \A k \in i + 1 .. e : s[k] = "block"
      BY <3>2, <3>4, <3>5 DEF Longer
    <3>7. e < l => s[e + 1] # "block"
      <4>1. e < l => e + 1 \in 1 .. l
        BY <3>4
      <4>. QED BY <3>2, <3>3, <4>1 DEF Longer
    <3>8. i + c = e /\ e <= l /\ c \in Nat
      BY <3>2, <3>4
    <3>. QED BY <3>1, <3>4, <3>6, <3>7, <3>8 DEF c
  <2>3. q \in [1 .. t - 1 -> 1 .. l]
    BY <2>2
  <2>4. \A k \in 1 .. l : s[k] = "interpolation" => \E n \in 1 .. t - 1 : q[n] = k
    <3> TAKE k \in 1 .. l
    <3>1. ASSUME s[k] = "interpolation"
          PROVE  \E n \in 1 .. t - 1 : q[n] = k
      <4>1. k \in 1 .. l + 1 /\ u[k] = "interpolation"
        BY <3>1 DEF Longer
      <4>2. PICK n \in 1 .. t : p[n] = k
        BY <4>1 DEF Marks
      <4>3. n # t
        BY <1>6, <4>2
      <4>4. n \in 1 .. t - 1
        BY <1>1, <4>3
      <4>. QED BY <2>1, <4>2, <4>4
    <3>. QED BY <3>1
  <2>5. \A n \in 1 .. t - 1, o \in 1 .. t - 1 : n < o => q[n] < q[o]
    BY <2>1 DEF Marks
  <2>6. t - 1 \in Nat
    BY <1>1, <1>4
  <2> HIDE DEF q
  <2>7. Marks(s, l, counts, t - 1, q)
    BY <2>2, <2>3, <2>4, <2>5, <2>6 DEF Marks
  <2>. QED BY <2>7
<1>. QED BY <1>4, <1>6, <1>7

LEMMA MarksUnother ==
  ASSUME NEW s, NEW l \in Nat, NEW u, NEW what, Longer(u, s, l, what), what \notin {"block", "interpolation"},
         NEW counts, NEW t, NEW p, Marks(u, l + 1, counts, t, p)
  PROVE  Marks(s, l, counts, t, p)
<1>1. t \in Nat /\ \A n \in 1 .. t : p[n] \in 1 .. l + 1 /\ counts[n] \in Nat
  BY DEF Marks
<1>2. u[l + 1] = what
  BY DEF Longer
<1>3. ASSUME NEW n \in 1 .. t
      PROVE  /\ p[n] \in 1 .. l
             /\ s[p[n]] = "interpolation"
             /\ p[n] + counts[n] <= l
             /\ \A k \in p[n] + 1 .. p[n] + counts[n] : s[k] = "block"
             /\ p[n] + counts[n] < l => s[p[n] + counts[n] + 1] # "block"
  <2> DEFINE i == p[n]
             e == p[n] + counts[n]
  <2>1. /\ i \in 1 .. l + 1 /\ u[i] = "interpolation" /\ e \in i .. l + 1
        /\ \A k \in i + 1 .. e : u[k] = "block"
        /\ e < l + 1 => u[e + 1] # "block"
    BY <1>1 DEF Marks
  <2> HIDE DEF i, e
  <2>2. i # l + 1 /\ e # l + 1
    BY <1>2, <2>1
  <2>3. i \in 1 .. l /\ e \in i .. l
    BY <2>1, <2>2
  <2>4. \A k \in i + 1 .. e : k \in 1 .. l
    BY <2>3
  <2>5. s[i] = "interpolation" /\ \A k \in i + 1 .. e : s[k] = "block"
    BY <2>1, <2>3, <2>4 DEF Longer
  <2>6. e < l => s[e + 1] # "block"
    <3>1. e < l => e + 1 \in 1 .. l
      BY <2>3
    <3>. QED BY <2>1, <2>3, <3>1 DEF Longer
  <2>7. e <= l
    BY <2>3
  <2>. QED BY <2>3, <2>5, <2>6, <2>7 DEF i, e
<1>4. p \in [1 .. t -> 1 .. l]
  BY <1>3 DEF Marks
<1>5. \A k \in 1 .. l : s[k] = "interpolation" => \E n \in 1 .. t : p[n] = k
  <2> TAKE k \in 1 .. l
  <2>1. k \in 1 .. l + 1 /\ u[k] = s[k]
    BY DEF Longer
  <2>. QED BY <2>1 DEF Marks
<1>. QED BY <1>1, <1>3, <1>4, <1>5 DEF Marks

\* Between two tokens: code is open, and counts is what it holds.
Open(s, counts) == InCode(s) /\ Counts(s, counts)

LEMMA AppendLonger ==
  ASSUME NEW s \in Seq(Whats), NEW what \in Whats
  PROVE  Longer(Append(s, what), s, Len(s), what)
<1>1. /\ \A k \in 1 .. Len(s) : Append(s, what)[k] = s[k]
      /\ Append(s, what)[Len(s) + 1] = what
  BY Appended
<1>. QED BY <1>1 DEF Longer

LEMMA CodeIsCode ==
  ASSUME NEW s, InCode(s)
  PROVE  CodeUpTo(s, Len(s))
BY DEF InCode, CodeUpTo, Whats

LEMMA NothingOpen == Open(<<>>, <<>>)
<1>1. Len(<<>>) = 0 /\ <<>> \in Seq(Whats) /\ <<>> \in Seq(Nat)
  OBVIOUS
<1>2. InCode(<<>>)
  BY <1>1 DEF InCode
<1> DEFINE none == [n \in 1 .. 0 |-> n]
<1>3. Marks(<<>>, 0, <<>>, 0, none)
  <2>1. none \in [1 .. 0 -> 1 .. 0]
    OBVIOUS
  <2>. QED BY <2>1 DEF Marks
<1>. QED BY <1>1, <1>2, <1>3 DEF Open, Counts

LEMMA CountsOther ==
  ASSUME NEW s \in Seq(Whats), NEW counts, NEW what \in {"string", "comment"}
  PROVE  Counts(s, counts) <=> Counts(Append(s, what), counts)
<1>1. /\ what \in Whats /\ what \notin {"block", "interpolation"} /\ Len(s) \in Nat
      /\ Len(Append(s, what)) = Len(s) + 1
      /\ Longer(Append(s, what), s, Len(s), what)
  <2>1. what \in Whats /\ what \notin {"block", "interpolation"}
    BY DEF Whats
  <2>. QED BY <2>1, Appended, AppendLonger
<1> DEFINE u == Append(s, what)
           l == Len(s)
           t == Len(counts)
<1>2. l \in Nat /\ Len(u) = l + 1 /\ Longer(u, s, l, what)
  BY <1>1
<1> HIDE DEF u, l, t
<1>3. ASSUME NEW p
      PROVE  Marks(s, l, counts, t, p) <=> Marks(u, l + 1, counts, t, p)
  BY <1>1, <1>2, MarksOther, MarksUnother
<1>4. (\E p : Marks(s, l, counts, t, p)) <=> (\E p : Marks(u, l + 1, counts, t, p))
  BY <1>3
<1>. QED BY <1>2, <1>4 DEF Counts, u, l, t

\* The last count changes by one.
Last(counts, change) ==
  IF Len(counts) > 0 THEN [counts EXCEPT ![Len(counts)] = @ + change] ELSE counts

LEMMA LastChanged ==
  ASSUME NEW counts \in Seq(Nat), NEW change \in Int,
         Len(counts) # 0 => counts[Len(counts)] + change \in Nat
  PROVE  /\ Last(counts, change) \in Seq(Nat) /\ Len(Last(counts, change)) = Len(counts)
         /\ Changed(Last(counts, change), counts, Len(counts), counts[Len(counts)] + change)
<1> DEFINE t == Len(counts)
           last == counts[t] + change
           more == [counts EXCEPT ![t] = last]
<1>1. t \in Nat /\ \A n \in 1 .. t : counts[n] \in Nat
  OBVIOUS
<1>2. CASE t = 0
  <2>1. Last(counts, change) = counts
    BY <1>2 DEF Last
  <2>. QED BY <1>2, <2>1 DEF Changed
<1>3. CASE t # 0
  <2>1. Last(counts, change) = more
    BY <1>1, <1>3 DEF Last
  <2>2. last \in Nat /\ t \in 1 .. t
    BY <1>1, <1>3
  <2> HIDE DEF last
  <2>3. more \in Seq(Nat) /\ Len(more) = t
    BY <2>2
  <2>4. more[t] = last /\ \A n \in 1 .. t : n # t => more[n] = counts[n]
    BY <2>2
  <2>5. Changed(more, counts, t, last)
    BY <2>4 DEF Changed
  <2> HIDE DEF more
  <2>. QED BY <2>1, <2>3, <2>5 DEF last
<1>. QED BY <1>2, <1>3

LEMMA OpensBlock ==
  ASSUME NEW s, NEW counts, Open(s, counts)
  PROVE  Open(Append(s, "block"), Last(counts, 1))
<1> DEFINE u == Append(s, "block")
           l == Len(s)
           t == Len(counts)
           more == Last(counts, 1)
<1>1. s \in Seq(Whats) /\ l \in Nat /\ counts \in Seq(Nat) /\ t \in Nat /\ CodeUpTo(s, l)
  BY CodeIsCode DEF Open, InCode, Counts
<1>2. /\ u \in Seq(Whats) /\ Len(u) = l + 1 /\ Longer(u, s, l, "block")
  BY <1>1, Appended, AppendLonger DEF Whats
<1>3. more \in Seq(Nat) /\ Len(more) = t /\ Changed(more, counts, t, counts[t] + 1)
  <2>1. Len(counts) # 0 => counts[Len(counts)] + 1 \in Nat
    BY <1>1
  <2>. QED BY <1>1, <2>1, LastChanged
<1>4. PICK p : Marks(s, l, counts, t, p)
  BY DEF Open, Counts
<1>5. InCode(u)
  <2>1. u[l + 1] = "block" /\ \A k \in 1 .. l : u[k] = s[k]
    BY <1>2 DEF Longer
  <2> HIDE DEF u
  <2>2. ASSUME NEW k \in 1 .. l + 1
        PROVE  /\ u[k] # "comment"
               /\ u[k] = "string" => k < l + 1 /\ u[k + 1] = "interpolation"
               /\ u[k] = "interpolation" => k > 1 /\ u[k - 1] = "string"
    <3>1. CASE k = l + 1
      BY <2>1, <3>1
    <3>2. CASE k # l + 1
      <4>1. k \in 1 .. l /\ u[k] = s[k]
        BY <1>1, <2>1, <3>2
      <4>2. /\ s[k] # "comment"
            /\ s[k] = "string" => k < l /\ s[k + 1] = "interpolation"
            /\ s[k] = "interpolation" => k > 1 /\ s[k - 1] = "string"
        BY <4>1 DEF Open, InCode
      <4>3. (k < l => u[k + 1] = s[k + 1]) /\ (k > 1 => u[k - 1] = s[k - 1])
        BY <2>1, <4>1
      <4>. QED BY <1>1, <4>1, <4>2, <4>3
    <3>. QED BY <3>1, <3>2
  <2>. QED BY <1>2, <2>2 DEF InCode
<1> HIDE DEF u, l, t, more
<1>6. Marks(u, l + 1, more, t, p)
  BY <1>1, <1>2, <1>3, <1>4, MarksBlock
<1>. QED BY <1>2, <1>3, <1>5, <1>6 DEF Open, Counts, u, l, t, more

\* Anything open is something with one more at its end.
LEMMA PoppedAppended ==
  ASSUME NEW s \in Seq(Whats), s # <<>>
  PROVE  /\ Popped(s) \in Seq(Whats) /\ Len(s) = Len(Popped(s)) + 1
         /\ s = Append(Popped(s), Innermost(s))
         /\ Innermost(s) \in Whats
<1> DEFINE u == Popped(s)
           l == Len(s)
           x == s[l]
<1>1. l \in Nat /\ l # 0 /\ l \in 1 .. l /\ x \in Whats /\ s = [k \in 1 .. l |-> s[k]]
  OBVIOUS
<1>2. u \in Seq(Whats) /\ Len(u) = l - 1 /\ \A k \in 1 .. l - 1 : u[k] = s[k]
  BY <1>1 DEF Popped
<1>3. Innermost(s) = x
  BY DEF Innermost
<1> HIDE DEF u, x
<1>4. /\ Append(u, x) \in Seq(Whats) /\ Len(Append(u, x)) = l
      /\ \A k \in 1 .. l - 1 : Append(u, x)[k] = s[k]
      /\ Append(u, x)[l] = x
  <2>1. /\ Append(u, x) \in Seq(Whats) /\ Len(Append(u, x)) = Len(u) + 1
        /\ \A k \in 1 .. Len(u) : Append(u, x)[k] = u[k]
        /\ Append(u, x)[Len(u) + 1] = x
    BY <1>1, <1>2, Appended
  <2>. QED BY <1>1, <1>2, <2>1
<1>5. \A k \in 1 .. l : k = l \/ k \in 1 .. l - 1
  BY <1>1
<1>6. \A k \in 1 .. l : Append(u, x)[k] = s[k]
  BY <1>4, <1>5 DEF x
<1>7. Append(u, x) = [k \in 1 .. l |-> Append(u, x)[k]]
  <2> DEFINE v == Append(u, x)
  <2>1. v \in Seq(Whats) /\ Len(v) = l
    BY <1>4
  <2> HIDE DEF v
  <2>2. v = [k \in 1 .. l |-> v[k]]
    BY <2>1
  <2>. QED BY <2>2 DEF v
<1>8. Append(u, x) = s
  BY <1>1, <1>6, <1>7
<1>. QED BY <1>1, <1>2, <1>3, <1>8 DEF u

LEMMA ClosesBlock ==
  ASSUME NEW s, NEW counts, Open(s, counts), Innermost(s) = "block"
  PROVE  /\ Open(Popped(s), Last(counts, 0 - 1))
         /\ Len(counts) # 0 => counts[Len(counts)] # 0
<1> DEFINE u == Popped(s)
           l == Len(u)
           t == Len(counts)
           less == Last(counts, 0 - 1)
<1>1. s \in Seq(Whats) /\ counts \in Seq(Nat) /\ t \in Nat /\ CodeUpTo(s, Len(s))
  BY CodeIsCode DEF Open, InCode, Counts
<1>2. s # <<>>
  BY DEF Innermost
<1>3. u \in Seq(Whats) /\ l \in Nat /\ Len(s) = l + 1 /\ s = Append(u, "block")
  BY <1>1, <1>2, PoppedAppended
<1>4. Longer(s, u, l, "block")
  <2> HIDE DEF u
  <2>. QED BY <1>3, AppendLonger DEF Whats
<1>5. PICK p : Marks(s, l + 1, counts, t, p)
  BY <1>3 DEF Open, Counts
<1>6. ASSUME NEW less1, Changed(less1, counts, t, counts[t] - 1)
      PROVE  Marks(u, l, less1, t, p) /\ (t # 0 => counts[t] # 0)
  <2> HIDE DEF u, l, t
  <2>. QED BY <1>1, <1>3, <1>4, <1>5, <1>6, MarksUnblock
<1>7. t # 0 => counts[t] # 0
  <2> DEFINE less1 == [n \in 1 .. t |-> IF n = t THEN counts[t] - 1 ELSE counts[n]]
  <2>1. Changed(less1, counts, t, counts[t] - 1)
    BY <1>1 DEF Changed
  <2> HIDE DEF less1, t, u, l
  <2>. QED BY <1>6, <2>1
<1>8. t # 0 => counts[t] + (0 - 1) \in Nat /\ counts[t] + (0 - 1) = counts[t] - 1
  <2>1. t # 0 => counts[t] \in Nat
    BY <1>1
  <2>. QED BY <1>7, <2>1
<1>9. less \in Seq(Nat) /\ Len(less) = t /\ Changed(less, counts, t, counts[t] + (0 - 1))
  <2> DEFINE change == 0 - 1
  <2>1. change \in Int /\ (Len(counts) # 0 => counts[Len(counts)] + change \in Nat)
    BY <1>8
  <2> HIDE DEF change
  <2>2. Last(counts, change) \in Seq(Nat) /\ Len(Last(counts, change)) = Len(counts)
        /\ Changed(Last(counts, change), counts, Len(counts), counts[Len(counts)] + change)
    BY <1>1, <2>1, LastChanged
  <2>. QED BY <2>2 DEF change
<1>10. Changed(less, counts, t, counts[t] - 1)
  BY <1>8, <1>9 DEF Changed
<1>11. Marks(u, l, less, t, p)
  <2> HIDE DEF u, l, t, less
  <2>. QED BY <1>6, <1>10
<1>12. InCode(u)
  <2>1. \A k \in 1 .. l : u[k] = s[k] /\ k \in 1 .. Len(s) /\ k < Len(s)
    BY <1>3, <1>4 DEF Longer
  <2>2. s[l + 1] = "block"
    BY <1>4 DEF Longer
  <2> HIDE DEF u, l
  <2>3. ASSUME NEW k \in 1 .. l
        PROVE  /\ u[k] # "comment"
               /\ u[k] = "string" => k < l /\ u[k + 1] = "interpolation"
               /\ u[k] = "interpolation" => k > 1 /\ u[k - 1] = "string"
    <3>1. /\ s[k] # "comment"
          /\ s[k] = "string" => s[k + 1] = "interpolation"
          /\ s[k] = "interpolation" => k > 1 /\ s[k - 1] = "string"
      BY <2>1 DEF Open, InCode
    <3>2. s[k] = "string" => k # l
      BY <2>2, <3>1
    <3>3. s[k] = "string" => k + 1 \in 1 .. l
      BY <1>3, <3>2
    <3>4. k > 1 => k - 1 \in 1 .. l
      BY <1>3
    <3>. QED BY <1>3, <2>1, <3>1, <3>2, <3>3, <3>4
  <2>. QED BY <1>3, <2>3 DEF InCode, l
<1>. QED BY <1>7, <1>9, <1>11, <1>12 DEF Open, Counts

LEMMA OpensInterpolation ==
  ASSUME NEW s, NEW counts, Open(s, counts)
  PROVE  Open(Append(Append(s, "string"), "interpolation"), Append(counts, 0))
<1> DEFINE v == Append(s, "string")
           u == Append(v, "interpolation")
           l == Len(s)
           m == l + 1
           t == Len(counts)
           more == Append(counts, 0)
<1>1. s \in Seq(Whats) /\ l \in Nat /\ counts \in Seq(Nat) /\ t \in Nat
  BY DEF Open, InCode, Counts
<1>2. v \in Seq(Whats) /\ Len(v) = m /\ Longer(v, s, l, "string")
  BY <1>1, Appended, AppendLonger DEF Whats
<1>3. Counts(v, counts)
  BY <1>1, CountsOther DEF Open
<1> HIDE DEF v
<1>4. u \in Seq(Whats) /\ Len(u) = m + 1 /\ Longer(u, v, m, "interpolation")
  BY <1>2, Appended, AppendLonger DEF Whats
<1>5. PICK p : Marks(v, m, counts, t, p)
  BY <1>2, <1>3 DEF Counts
<1>6. more \in Seq(Nat) /\ Len(more) = t + 1 /\ Longer(more, counts, t, 0)
  BY <1>1 DEF Longer
<1>7. \E q : Marks(u, m + 1, more, t + 1, q)
  <2> HIDE DEF u, m, t, more
  <2>. QED BY <1>4, <1>5, <1>6, MarksInterpolation
<1>8. InCode(u)
  <2>1. u[l + 2] = "interpolation" /\ u[l + 1] = "string" /\ \A k \in 1 .. l : u[k] = s[k]
    <3>1. u[m + 1] = "interpolation" /\ (\A k \in 1 .. m : u[k] = v[k]) /\ v[l + 1] = "string"
          /\ \A k \in 1 .. l : v[k] = s[k]
      BY <1>2, <1>4 DEF Longer
    <3>2. m + 1 = l + 2 /\ l + 1 \in 1 .. m /\ \A k \in 1 .. l : k \in 1 .. m
      BY <1>1
    <3>. QED BY <3>1, <3>2
  <2>2. Len(u) = l + 2
    BY <1>1, <1>4
  <2> HIDE DEF u, m
  <2>3. ASSUME NEW k \in 1 .. l + 2
        PROVE  /\ u[k] # "comment"
               /\ u[k] = "string" => k < l + 2 /\ u[k + 1] = "interpolation"
               /\ u[k] = "interpolation" => k > 1 /\ u[k - 1] = "string"
    <3>1. CASE k = l + 2
      BY <1>1, <2>1, <3>1
    <3>2. CASE k = l + 1
      BY <1>1, <2>1, <3>2
    <3>3. CASE k \in 1 .. l
      <4>1. /\ s[k] # "comment"
            /\ s[k] = "string" => k < l /\ s[k + 1] = "interpolation"
            /\ s[k] = "interpolation" => k > 1 /\ s[k - 1] = "string"
        BY <3>3 DEF Open, InCode
      <4>2. u[k] = s[k] /\ (k < l => u[k + 1] = s[k + 1]) /\ (k > 1 => u[k - 1] = s[k - 1])
        BY <2>1, <3>3
      <4>. QED BY <1>1, <3>3, <4>1, <4>2
    <3>4. k = l + 2 \/ k = l + 1 \/ k \in 1 .. l
      BY <1>1
    <3>. QED BY <3>1, <3>2, <3>3, <3>4
  <2>. QED BY <1>4, <2>2, <2>3 DEF InCode
<1>. QED BY <1>4, <1>6, <1>7, <1>8 DEF Open, Counts, v

LEMMA ClosesInterpolation ==
  ASSUME NEW s, NEW counts, Open(s, counts), Innermost(s) = "interpolation"
  PROVE  /\ Len(counts) # 0 /\ counts[Len(counts)] = 0
         /\ \E u : /\ Popped(s) = Append(u, "string")
                   /\ Open(u, SubSeq(counts, 1, Len(counts) - 1))
<1> DEFINE v == Popped(s)
           u == Popped(v)
           m == Len(v)
           l == Len(u)
           t == Len(counts)
           less == SubSeq(counts, 1, t - 1)
<1>1. s \in Seq(Whats) /\ counts \in Seq(Nat) /\ t \in Nat /\ CodeUpTo(s, Len(s))
  BY CodeIsCode DEF Open, InCode, Counts
<1>2. s # <<>>
  BY DEF Innermost
<1>3. v \in Seq(Whats) /\ m \in Nat /\ Len(s) = m + 1 /\ s = Append(v, "interpolation")
  BY <1>1, <1>2, PoppedAppended
<1>4. Longer(s, v, m, "interpolation")
  <2> HIDE DEF v
  <2>. QED BY <1>3, AppendLonger DEF Whats
<1>5. m # 0 /\ v[m] = "string"
  <2>1. s[m + 1] = "interpolation" /\ m + 1 \in 1 .. Len(s)
    BY <1>3, <1>4 DEF Longer
  <2>2. m + 1 > 1 /\ s[(m + 1) - 1] = "string"
    BY <2>1 DEF Open, InCode
  <2>3. m \in 1 .. m /\ (m + 1) - 1 = m
    BY <1>3, <2>2
  <2>. QED BY <1>4, <2>2, <2>3 DEF Longer
<1> HIDE DEF v
<1>6. u \in Seq(Whats) /\ l \in Nat /\ m = l + 1 /\ v = Append(u, "string")
  <2>1. v # <<>> /\ Innermost(v) = "string"
    BY <1>3, <1>5 DEF Innermost
  <2>. QED BY <1>3, <2>1, PoppedAppended
<1>7. PICK p : Marks(s, m + 1, counts, t, p)
  BY <1>3 DEF Open, Counts
<1>8. /\ t # 0 /\ counts[t] = 0
      /\ \E q : Marks(v, m, counts, t - 1, q)
  <2>1. CodeUpTo(s, m + 1)
    BY <1>1, <1>3
  <2> HIDE DEF m, t
  <2>. QED BY <1>3, <1>4, <1>5, <1>7, <2>1, MarksClose
<1>9. less \in Seq(Nat) /\ Len(less) = t - 1 /\ \A n \in 1 .. t - 1 : less[n] = counts[n]
  <2> DEFINE k == t - 1
             front == SubSeq(counts, 1, k)
  <2>1. k \in Nat /\ k <= Len(counts) /\ counts \in Seq(Nat)
    BY <1>1, <1>8
  <2> HIDE DEF k
  <2>2. front \in Seq(Nat) /\ Len(front) = k /\ \A n \in 1 .. k : front[n] = counts[n]
    BY <2>1
  <2>. QED BY <2>2 DEF k
<1>10. \E q : Marks(v, m, less, t - 1, q)
  <2>1. PICK q : Marks(v, m, counts, t - 1, q)
    BY <1>8
  <2> HIDE DEF m, t, less
  <2>2. Marks(v, m, less, t - 1, q)
    BY <1>9, <2>1 DEF Marks
  <2>. QED BY <2>2
<1>11. Counts(v, less)
  BY <1>9, <1>10 DEF Counts
<1>12. Counts(u, less)
  <2> HIDE DEF less, u
  <2>. QED BY <1>6, <1>11, CountsOther
<1>13. InCode(u)
  <2>1. Longer(v, u, l, "string")
    <3> HIDE DEF u
    <3>. QED BY <1>6, AppendLonger DEF Whats
  <2>2. v[l + 1] = "string" /\ \A k \in 1 .. l : v[k] = u[k]
    BY <2>1 DEF Longer
  <2>3. \A k \in 1 .. m : s[k] = v[k]
    BY <1>4 DEF Longer
  <2> HIDE DEF u, l, m
  <2>4. s[l + 1] = "string" /\ \A k \in 1 .. l : s[k] = u[k]
    <3>1. l + 1 \in 1 .. m /\ \A k \in 1 .. l : k \in 1 .. m
      BY <1>6
    <3>. QED BY <2>2, <2>3, <3>1
  <2>5. ASSUME NEW k \in 1 .. l
        PROVE  /\ u[k] # "comment"
               /\ u[k] = "string" => k < l /\ u[k + 1] = "interpolation"
               /\ u[k] = "interpolation" => k > 1 /\ u[k - 1] = "string"
    <3>1. k \in 1 .. Len(s) /\ k \in Nat
      BY <1>3, <1>6
    <3>2. /\ s[k] # "comment"
          /\ s[k] = "string" => s[k + 1] = "interpolation"
          /\ s[k] = "interpolation" => k > 1 /\ s[k - 1] = "string"
      BY <3>1 DEF Open, InCode
    <3>3. s[k] = "string" => k # l
      BY <2>4, <3>2
    <3>4. s[k] = "string" => k + 1 \in 1 .. l
      BY <1>6, <3>3
    <3>5. k > 1 => k - 1 \in 1 .. l
      BY <1>6
    <3>. QED BY <1>6, <2>4, <3>2, <3>3, <3>4, <3>5
  <2>. QED BY <1>6, <2>5 DEF InCode, l
<1>14. Open(u, less)
  BY <1>12, <1>13 DEF Open
<1> HIDE DEF u, less, t
<1>15. \E w : Popped(s) = Append(w, "string") /\ Open(w, less)
  BY <1>6, <1>14 DEF v
<1>. QED BY <1>8, <1>15 DEF t, less
-----------------------------------------------------------------------------
(* What is open where scanToken is *)

LEMMA StaysOpen ==
  ASSUME IsText, NEW i \in 0 .. N, NEW j \in 0 .. N, NEW s, Opened[i] = s,
         \A k \in i + 1 .. j : Opens(s, Before(k), text[k]) = s
  PROVE  \A k \in i .. j : Opened[k] = s
<1> DEFINE S == {d \in Nat : i + d <= j => Opened[i + d] = s}
<1>1. N \in Nat
  BY Characters
<1>2. 0 \in S
  OBVIOUS
<1>3. ASSUME NEW d \in Nat, d \in S
      PROVE  d + 1 \in S
  <2> SUFFICES ASSUME i + (d + 1) <= j
               PROVE  Opened[i + (d + 1)] = s
    OBVIOUS
  <2> DEFINE k == i + (d + 1)
  <2>1. k \in i + 1 .. j /\ k \in 1 .. N /\ k - 1 = i + d /\ i + d <= j
    BY <1>1
  <2>2. Opened[k - 1] = s
    BY <1>3, <2>1
  <2> HIDE DEF k
  <2>3. Opened[k] = Opens(Opened[k - 1], Before(k), text[k])
    BY <2>1, OpenedIs
  <2>4. Opened[k] = s
    BY <2>1, <2>2, <2>3
  <2>. QED BY <2>4 DEF k
<1>4. Nat \subseteq S
  <2> HIDE DEF S
  <2>. QED BY <1>2, <1>3, SetInduction
<1>. SUFFICES ASSUME NEW k \in i .. j
              PROVE  Opened[k] = s
  OBVIOUS
<1>5. k - i \in Nat /\ i + (k - i) = k
  BY <1>1
<1>. QED BY <1>4, <1>5

\* What a character that no token covers is.
Covered(k) ==
  \/ text[k] \in {" ", "\n"}
  \/ "comment" \in {Opened[k][m] : m \in 1 .. Len(Opened[k])}
  \/ (text[k] = "/" /\ k < Len(text) /\ text[k + 1] = "/")

\* Before index i is code, and no comment begins with the character before i.
AtCode(i, s) == Opened[i - 1] = s /\ (Before(i) = "/" => C!At(i) # "/")

LEMMA AfterCharacter ==
  ASSUME IsText, NEW i \in 1 .. N
  PROVE  /\ Opened[i] = Opens(Opened[i - 1], Before(i), text[i])
         /\ i + 1 \in 1 .. N + 1 /\ (i + 1) - 1 = i /\ Before(i + 1) = text[i]
         /\ C!At(i) = text[i]
<1>1. N \in Nat /\ C!At(i) = text[i]
  BY Characters
<1>2. Opened[i] = Opens(Opened[i - 1], Before(i), text[i])
  BY OpenedIs
<1>3. i + 1 \in 1 .. N + 1 /\ (i + 1) - 1 = i /\ i + 1 > 1
  BY <1>1
<1>4. Before(i + 1) = text[i]
  BY <1>3 DEF Before
<1>. QED BY <1>1, <1>2, <1>3, <1>4

LEMMA CommentCovers ==
  ASSUME NEW s \in Seq(Whats), NEW k, Opened[k] = Append(s, "comment")
  PROVE  Covered(k)
<1> DEFINE u == Append(s, "comment")
<1>1. Len(u) = Len(s) + 1 /\ u[Len(s) + 1] = "comment" /\ Len(s) \in Nat
  BY Appended DEF Whats
<1>2. Len(u) \in 1 .. Len(u) /\ u[Len(u)] = "comment"
  BY <1>1
<1> HIDE DEF u
<1>3. "comment" \in {u[m] : m \in 1 .. Len(u)}
  BY <1>2
<1>. QED BY <1>3 DEF Covered, u

LEMMA SkipsToCode ==
  ASSUME IsText, NEW s, InCode(s), NEW i \in 1 .. N + 1, AtCode(i, s)
  PROVE  /\ \A k \in i .. C!skipWhitespace(i) - 1 : Covered(k)
         /\ C!skipWhitespace(i) <= N => AtCode(C!skipWhitespace(i), s)
         /\ C!skipWhitespace(i) = N + 1 => Opened[N] \in {s, Append(s, "comment")}
<1> DEFINE note == Append(s, "comment")
           Ready(j) == AtCode(j, s) \/ (Opened[j - 1] = note /\ C!At(j) \in {"\n", C!End})
           Goal(j, r) == /\ \A k \in j .. r - 1 : Covered(k)
                         /\ r <= N => AtCode(r, s)
                         /\ r = N + 1 => Opened[N] \in {s, note}
           S == {k \in Nat : \A j \in 1 .. N + 1 : j + k > N + 1 /\ Ready(j) => Goal(j, C!skipWhitespace(j))}
<1>1. N \in Nat /\ s \in Seq(Whats)
  BY Characters DEF InCode
<1>2. 0 \in S
  BY <1>1
<1>3. ASSUME NEW d \in Nat, d \in S
      PROVE  d + 1 \in S
  <2> SUFFICES ASSUME NEW j \in 1 .. N + 1, j + (d + 1) > N + 1, Ready(j)
               PROVE  Goal(j, C!skipWhitespace(j))
    OBVIOUS
  <2>1. ASSUME NEW l \in j + 1 .. N + 1, C!skipWhitespace(j) = C!skipWhitespace(l), Ready(l),
               \A k \in j .. l - 1 : Covered(k)
        PROVE  Goal(j, C!skipWhitespace(j))
    <3>1. l \in 1 .. N + 1 /\ l + d > N + 1
      BY <1>1
    <3>2. Goal(l, C!skipWhitespace(l))
      BY <1>3, <2>1, <3>1
    <3> DEFINE r == C!skipWhitespace(l)
    <3>3. \A k \in j .. r - 1 : k \in j .. l - 1 \/ k \in l .. r - 1
      <4>1. r \in l .. N + 1
        BY <3>1, SkipEnds
      <4> HIDE DEF r
      <4>. QED BY <1>1, <4>1
    <3>. QED BY <2>1, <3>2, <3>3
  <2>2. CASE Blank(j)
    <3>1. j + 1 \in 1 .. N + 1 /\ C!skipWhitespace(j) = C!skipWhitespace(j + 1)
      BY <2>2, SkipIs
    <3>2. j \in 1 .. N /\ j + 1 \in j + 1 .. N + 1
      BY <1>1, <3>1
    <3>3. /\ Opened[j] = Opens(Opened[j - 1], Before(j), text[j])
          /\ (j + 1) - 1 = j /\ Before(j + 1) = text[j] /\ C!At(j) = text[j]
      BY <3>2, AfterCharacter
    <3>4. text[j] \in {" ", "\n"}
      BY <2>2, <3>3 DEF Blank, C!Blanks
    <3>5. Opened[j] = s
      <4>1. CASE AtCode(j, s)
        <5>1. Opened[j - 1] = s /\ text[j] \notin {"\"", "{", "}", "/"}
          BY <3>4, <4>1 DEF AtCode
        <5>2. Opened[j] = Opens(s, Before(j), text[j])
          BY <3>3, <5>1
        <5>3. Opens(s, Before(j), text[j]) = s
          <6>1. \A before, c : c \notin {"\"", "{", "}", "/"} => Opens(s, before, c) = s
            BY OpensInCode
          <6>. QED BY <5>1, <6>1
        <5>. QED BY <5>2, <5>3
      <4>2. CASE Opened[j - 1] = note /\ C!At(j) \in {"\n", C!End}
        <5>1. text[j] = "\n"
          BY <3>3, <3>4, <4>2 DEF C!End
        <5>. QED BY <1>1, <3>3, <4>2, <5>1, OpensInComment
      <4>. QED BY <4>1, <4>2
    <3>6. Ready(j + 1)
      BY <3>3, <3>4, <3>5 DEF AtCode
    <3>7. \A k \in j .. (j + 1) - 1 : Covered(k)
      <4>1. \A k \in j .. (j + 1) - 1 : k = j
        BY <3>2
      <4>. QED BY <3>4, <4>1 DEF Covered
    <3> HIDE DEF Ready, Goal
    <3>. QED BY <2>1, <3>1, <3>2, <3>6, <3>7
  <2>3. CASE ~Blank(j) /\ Slashes(j)
    <3> DEFINE e == C!LineEnd(j)
    <3>1. e \in j + 1 .. N + 1 /\ C!skipWhitespace(j) = C!skipWhitespace(e)
      BY <2>3, SkipIs, LineEndIsLater
    <3>2. C!At(e) \in {"\n", C!End} /\ \A k \in j .. e - 1 : C!At(k) \notin {"\n", C!End}
      BY LineEnds
    <3> HIDE DEF e
    <3>3. C!At(j) = "/" /\ C!At(j + 1) = "/"
      BY <2>3 DEF Slashes
    <3>4. AtCode(j, s)
      BY <3>3 DEF C!End
    <3>5. e # j + 1 /\ e \in j + 2 .. N + 1
      <4>1. e # j + 1
        BY <3>2, <3>3 DEF C!End
      <4>. QED BY <1>1, <3>1, <4>1
    <3>6. j \in 1 .. N /\ j + 1 \in 1 .. N /\ (j + 1) - 1 = j /\ j < N
      BY <1>1, <3>5
    <3>7. /\ Opened[j] = Opens(s, Before(j), text[j]) /\ text[j] = "/"
          /\ Before(j + 1) = text[j]
      BY <3>3, <3>4, <3>6, AfterCharacter DEF AtCode
    <3>8. Opened[j] = s
      <4>1. Before(j) # "/"
        BY <3>3, <3>4 DEF AtCode
      <4>2. \A before, c : c = "/" /\ before # "/" => Opens(s, before, c) = s
        BY OpensInCode
      <4>3. Opens(s, Before(j), text[j]) = s
        BY <3>7, <4>1, <4>2
      <4>. QED BY <3>7, <4>3
    <3>9. Opened[j + 1] = Opens(Opened[j], Before(j + 1), text[j + 1]) /\ text[j + 1] = "/"
      BY <3>3, <3>6, AfterCharacter
    <3>10. Opened[j + 1] = note
      <4>1. Opened[j + 1] = Opens(s, Before(j + 1), text[j + 1]) /\ Before(j + 1) = "/"
        BY <3>7, <3>8, <3>9
      <4>2. Opens(s, Before(j + 1), text[j + 1]) = note
        <5>1. Opens(s, "/", "/") = note
          BY CommentOpens
        <5>. QED BY <3>9, <3>7, <4>1, <5>1
      <4>. QED BY <4>1, <4>2
    <3>11. \A k \in j + 1 .. e - 1 : Opened[k] = note
      <4>1. j + 1 \in 0 .. N /\ e - 1 \in 0 .. N
        BY <1>1, <3>5
      <4>2. ASSUME NEW k \in (j + 1) + 1 .. e - 1
            PROVE  Opens(note, Before(k), text[k]) = note
        <5>1. k \in j .. e - 1 /\ k \in 1 .. N
          BY <1>1, <3>5
        <5>2. text[k] # "\n"
          BY <3>2, <5>1, Characters
        <5>. QED BY <1>1, <5>2, OpensInComment
      <4> DEFINE a == j + 1
                 b == e - 1
      <4> HIDE DEF a, b, note
      <4>3. a \in 0 .. N /\ b \in 0 .. N /\ Opened[a] = note
            /\ \A k \in a + 1 .. b : Opens(note, Before(k), text[k]) = note
        BY <3>10, <4>1, <4>2 DEF a, b
      <4>4. \A k \in a .. b : Opened[k] = note
        BY <4>3, StaysOpen
      <4>. QED BY <4>4 DEF a, b
    <3>12. Ready(e)
      <4>1. e - 1 \in j + 1 .. e - 1
        BY <1>1, <3>5
      <4>. QED BY <3>2, <3>11, <4>1
    <3>13. \A k \in j .. e - 1 : Covered(k)
      <4> TAKE k \in j .. e - 1
      <4>1. CASE k = j
        BY <3>6, <3>7, <3>9, <4>1 DEF Covered, N
      <4>2. CASE k # j
        <5>1. k \in j + 1 .. e - 1
          BY <4>2
        <5>. QED BY <1>1, <3>11, <5>1, CommentCovers
      <4>. QED BY <4>1, <4>2
    <3> HIDE DEF Ready, Goal
    <3>. QED BY <2>1, <3>1, <3>12, <3>13
  <2>4. CASE ~Blank(j) /\ ~Slashes(j)
    <3>1. C!skipWhitespace(j) = j
      BY <2>4, SkipIs
    <3>2. CASE AtCode(j, s)
      <4>1. \A k \in j .. j - 1 : Covered(k)
        OBVIOUS
      <4>2. j = N + 1 => Opened[N] = s
        <5>1. j = N + 1 => j - 1 = N
          BY <1>1
        <5>. QED BY <3>2, <5>1 DEF AtCode
      <4>. QED BY <3>1, <3>2, <4>1, <4>2
    <3>3. CASE Opened[j - 1] = note /\ C!At(j) \in {"\n", C!End}
      <4>1. C!At(j) = C!End
        BY <2>4, <3>3 DEF Blank
      <4>2. j = N + 1 /\ j - 1 = N
        <5>1. j \notin 1 .. N
          BY <4>1, Characters
        <5>. QED BY <1>1, <5>1
      <4>3. \A k \in j .. j - 1 : Covered(k)
        OBVIOUS
      <4>. QED BY <1>1, <3>1, <3>3, <4>2, <4>3
    <3>. QED BY <3>2, <3>3
  <2>. QED BY <2>2, <2>3, <2>4
<1>4. N + 1 \in S
  <2> HIDE DEF S
  <2>. QED BY <1>1, <1>2, <1>3, SetInduction
<1>5. i + (N + 1) > N + 1 /\ Ready(i)
  BY <1>1
<1>6. Goal(i, C!skipWhitespace(i))
  <2> HIDE DEF Ready, Goal
  <2>. QED BY <1>4, <1>5
<1>. QED BY <1>6
-----------------------------------------------------------------------------
(* A segment of a string *)

EndsSegment(i, j) ==
  /\ j \in i + 1 .. N + 1
  /\ C!At(j) \in {"\"", C!End} \/ Interrupts(j)
  /\ \A k \in i + 1 .. j - 1 : C!At(k) # "\"" /\ ~Interrupts(k)

\* What it leaves open, in a string that leaves u behind it.
SegmentLeaves(u, j) ==
  /\ C!At(j) = "\"" => j \in 1 .. N /\ Opened[j] = u
  /\ C!At(j) = "$" => /\ j + 1 \in 1 .. N /\ text[j + 1] = "{"
                      /\ Opened[j + 1] = Append(Append(u, "string"), "interpolation")
  /\ C!At(j) = C!End => j = N + 1 /\ Opened[N] = Append(u, "string")

LEMMA SegmentReads ==
  ASSUME IsText, NEW u \in Seq(Whats), NEW i \in 1 .. N,
         Opened[i] = Append(u, "string"), text[i] # "$",
         NEW j, EndsSegment(i, j)
  PROVE  SegmentLeaves(u, j)
<1> DEFINE v == Append(u, "string")
           b == j - 1
<1>1. N \in Nat /\ i + 1 \in 1 .. N + 1
  BY Characters
<1>2. /\ j \in i + 1 .. N + 1
      /\ C!At(j) \in {"\"", C!End} \/ Interrupts(j)
      /\ \A k \in i + 1 .. j - 1 : C!At(k) # "\"" /\ ~Interrupts(k)
  BY DEF EndsSegment
<1>11. j \in i + 1 .. N + 1
  BY DEF EndsSegment
<1>12. j \in Int /\ j \in i + 1 .. N + 1 /\ N \in Nat /\ i \in Nat
  BY <1>1, <1>11
<1>3. b \in 0 .. N /\ i \in 0 .. N /\ i \in i .. b /\ b \in i .. b /\ \A k \in i + 1 .. b : k \in 1 .. N /\ k \in i + 1 .. j - 1
  BY <1>12
<1>4. ASSUME NEW k \in i + 1 .. N, \A l \in i + 1 .. k - 1 : ~Interrupts(l),
             text[k] # "\""
      PROVE  Opens(v, Before(k), text[k]) = v
  <2>1. k \in 1 .. N /\ C!At(k) = text[k] /\ k > 1 /\ Before(k) = text[k - 1]
    BY <1>1, Characters DEF Before
  <2>2. ~(text[k] = "{" /\ Before(k) = "$")
    <3>1. CASE k - 1 = i
      BY <2>1, <3>1
    <3>2. CASE k - 1 # i
      <4>1. k - 1 \in i + 1 .. k - 1 /\ k - 1 \in 1 .. N /\ (k - 1) + 1 = k
        BY <1>1, <3>2
      <4>2. C!At(k - 1) = text[k - 1]
        BY <4>1, Characters
      <4>. QED BY <1>4, <2>1, <4>1, <4>2 DEF Interrupts
    <3>. QED BY <3>1, <3>2
  <2>. QED BY <1>4, <2>2, OpensInString
<1>5. \A k \in i .. b : Opened[k] = v
  <2>1. ASSUME NEW k \in i + 1 .. b
        PROVE  Opens(v, Before(k), text[k]) = v
    <3>1. k \in i + 1 .. N /\ \A l \in i + 1 .. k - 1 : l \in i + 1 .. j - 1
      BY <1>12
    <3>2. text[k] # "\""
      BY <1>2, <1>3, Characters
    <3>. QED BY <1>2, <1>4, <3>1, <3>2
  <2> HIDE DEF b, v
  <2>2. Opened[i] = v
    BY DEF v
  <2>. QED BY <1>3, <2>1, <2>2, StaysOpen
<1>6. Opened[j - 1] = v
  BY <1>3, <1>5
<1> HIDE DEF v, b
<1>7. ASSUME C!At(j) # C!End
      PROVE  /\ j \in 1 .. N /\ text[j] = C!At(j)
             /\ Opened[j] = Opens(v, Before(j), text[j])
  <2>1. j # N + 1
    BY <1>7, Characters
  <2>2. j \in 1 .. N
    BY <1>12, <2>1
  <2>. QED BY <1>6, <2>2, AfterCharacter
<1>8. CASE C!At(j) = "\""
  <2>1. C!At(j) # C!End
    BY <1>8 DEF C!End
  <2>2. Opened[j] = u
    BY <1>7, <1>8, <2>1, OpensInString DEF v
  <2>. QED BY <1>2, <1>7, <1>8, <2>1, <2>2 DEF C!End, SegmentLeaves
<1>9. CASE C!At(j) = "$"
  <2>1. C!At(j) # C!End /\ C!At(j + 1) = "{"
    BY <1>2, <1>9 DEF C!End, Interrupts
  <2>2. j \in 1 .. N /\ text[j] = "$"
    BY <1>7, <1>9, <2>1
  <2>3. Opened[j] = v
    <3>3. j \in i + 1 .. N
      BY <1>12, <2>2
    <3>1. j \in i + 1 .. N /\ text[j] # "\"" /\ \A l \in i + 1 .. j - 1 : ~Interrupts(l)
      BY <1>2, <2>2, <3>3
    <3>2. Opens(v, Before(j), text[j]) = v
      BY <1>4, <3>1
    <3>. QED BY <1>7, <2>1, <3>2
  <2>4. j + 1 \in 1 .. N
    <3>1. j + 1 # N + 1
      BY <2>1, Characters DEF C!End
    <3>. QED BY <1>1, <2>2, <3>1
  <2>5. /\ Opened[j + 1] = Opens(Opened[j], Before(j + 1), text[j + 1])
        /\ Before(j + 1) = text[j] /\ text[j + 1] = "{"
    <3>1. Before(j + 1) = text[j] /\ (j + 1) - 1 = j
      BY <2>2, AfterCharacter
    <3>. QED BY <2>1, <2>4, <3>1, AfterCharacter
  <2>6. Opened[j + 1] = Append(v, "interpolation")
    <3>1. Opened[j + 1] = Opens(v, "$", "{")
      BY <2>2, <2>3, <2>5
    <3>2. Opens(v, "$", "{") = Append(v, "interpolation")
      BY OpensInString DEF v
    <3>. QED BY <3>1, <3>2
  <2>. QED BY <1>2, <1>9, <2>4, <2>5, <2>6 DEF v, C!End, SegmentLeaves
<1>10. CASE C!At(j) = C!End
  <2>1. j = N + 1
    <3>1. j \notin 1 .. N
      BY <1>10, Characters
    <3>. QED BY <1>12, <3>1
  <2>2. Opened[N] = v
    <3>1. j - 1 = N
      BY <1>12, <2>1
    <3>. QED BY <1>6, <3>1
  <2>. QED BY <1>2, <1>10, <2>1, <2>2 DEF v, C!End, SegmentLeaves
<1>13. C!At(j) \in {"\"", "$", C!End}
  BY <1>2 DEF Interrupts
<1>. QED BY <1>8, <1>9, <1>10, <1>13

-----------------------------------------------------------------------------
(* The newlines up to a character *)

LinesTo(j) == Cardinality({k \in 1 .. j : text[k] = "\n"})

LEMMA SameCardinality ==
  ASSUME NEW S
  PROVE  C!Cardinality(S) = Cardinality(S)
BY DEF C!Cardinality, Cardinality

\* Newlines add up, and up to an index they are those of the text.
LEMMA NewlinesAdd ==
  ASSUME IsText, NEW a \in 0 .. N, NEW b \in a .. N
  PROVE  /\ LinesTo(a) \in Nat /\ C!Newlines(a + 1, b) \in Nat
         /\ LinesTo(b) = LinesTo(a) + C!Newlines(a + 1, b)
<1> DEFINE A == {k \in 1 .. a : text[k] = "\n"}
           B == {k \in a + 1 .. b : C!At(k) = "\n"}
           D == {k \in 1 .. b : text[k] = "\n"}
<1>1. N \in Nat /\ \A k \in 1 .. N : C!At(k) = text[k]
  BY Characters
<1>2. B = {k \in a + 1 .. b : text[k] = "\n"}
  BY <1>1
<1>3. A \cap B = {} /\ A \cup B = D
  BY <1>1, <1>2
<1>4. IsFiniteSet(A) /\ IsFiniteSet(B)
  <2>1. IsFiniteSet(1 .. a) /\ IsFiniteSet(a + 1 .. b)
    BY <1>1, FS_Interval
  <2>. QED BY <2>1, FS_Subset
<1> HIDE DEF A, B, D
<1>5. Cardinality(A) \in Nat /\ Cardinality(B) \in Nat
  BY <1>4, FS_CardinalityType
<1>6. Cardinality(A \cup B) = Cardinality(A) + Cardinality(B) - Cardinality(A \cap B)
  BY <1>4, FS_Union
<1>7. Cardinality(A \cap B) = 0
  BY <1>3, FS_EmptySet
<1>8. Cardinality(D) = Cardinality(A) + Cardinality(B)
  BY <1>3, <1>5, <1>6, <1>7
<1>9. C!Cardinality(B) = Cardinality(B)
  BY SameCardinality
<1>. QED BY <1>5, <1>8, <1>9 DEF A, B, D, LinesTo, C!Newlines

\* Where none is, the line stays.
LEMMA NoNewlines ==
  ASSUME IsText, NEW a \in 0 .. N, NEW b \in a .. N, \A k \in a + 1 .. b : text[k] # "\n"
  PROVE  LinesTo(b) = LinesTo(a)
<1>1. {k \in 1 .. b : text[k] = "\n"} = {k \in 1 .. a : text[k] = "\n"}
  BY Characters
<1>. QED BY <1>1 DEF LinesTo
-----------------------------------------------------------------------------
(* scanToken *)

Types == C!Characters \cup {"EOF", "OR", "IDENTIFIER", "NUMBER", "==", "STRING", "INTERPOLATION", "ERROR"}
TokenSet == [type : Types, start : Nat, end : Nat, line : Nat]

\* Where a token may end, with counts for the interpolations open there.
Boundary(i, counts) ==
  /\ Counts(Opened[i], counts)
  /\ i < N => InCode(Opened[i]) /\ (Before(i + 1) = "/" => C!At(i + 1) # "/")

Inv ==
  /\ IsText
  /\ current \in 0 .. N
  /\ line = 1 + LinesTo(current)
  /\ tokens \in Seq(TokenSet)
  /\ current = IF tokens = <<>> THEN 0 ELSE LastToken.end
  /\ ~TooDeep => Boundary(current, braces)
  /\ TokensCoverTheText

\* Where scanToken is when it has skipped what no token covers.
Arrives(i) ==
  /\ i \in current + 1 .. N + 1
  /\ C!LineOf(i) = 1 + LinesTo(i - 1)
  /\ ~Slashes(i)
  /\ ~TooDeep => /\ \A k \in current + 1 .. i - 1 : Covered(k)
                 /\ i = N + 1 => Counts(Opened[N], braces)
                 /\ i <= N => Open(Opened[i - 1], braces) /\ (Before(i) = "/" => C!At(i) # "/")

LEMMA Skipped ==
  ASSUME Inv
  PROVE  Arrives(C!skipWhitespace(current + 1))
<1> DEFINE a == current + 1
           i == C!skipWhitespace(a)
           s == Opened[current]
<1>1. IsText /\ N \in Nat /\ current \in 0 .. N /\ a \in 1 .. N + 1 /\ a - 1 = current
  BY Characters DEF Inv
<1> HIDE DEF a
<1>2. i \in a .. N + 1 /\ ~Slashes(i)
  BY <1>1, SkipEnds
<1>3. ASSUME ~TooDeep
      PROVE  /\ \A k \in a .. i - 1 : Covered(k)
             /\ i = N + 1 => Counts(Opened[N], braces)
             /\ i <= N => Open(Opened[i - 1], braces) /\ (Before(i) = "/" => C!At(i) # "/")
  <2>1. Counts(s, braces)
    BY <1>3 DEF Inv, Boundary
  <2>2. CASE current = N
    <3>1. i = N + 1 /\ a = N + 1 /\ ~(i <= N)
      <4> HIDE DEF i
      <4>. QED BY <1>1, <1>2, <2>2
    <3>2. \A k \in a .. i - 1 : FALSE
      <4> HIDE DEF i
      <4>. QED BY <1>1, <3>1
    <3>. QED BY <2>1, <2>2, <3>1, <3>2
  <2>3. CASE current # N
    <3>1. InCode(s) /\ AtCode(a, s)
      <4>1. current < N
        BY <1>1, <2>3
      <4>2. InCode(s) /\ (Before(a) = "/" => C!At(a) # "/")
        BY <1>3, <4>1 DEF Inv, Boundary, a
      <4>. QED BY <1>1, <4>2 DEF AtCode
    <3>2. /\ \A k \in a .. i - 1 : Covered(k)
          /\ i <= N => AtCode(i, s)
          /\ i = N + 1 => Opened[N] \in {s, Append(s, "comment")}
      <4> HIDE DEF s
      <4>. QED BY <1>1, <3>1, SkipsToCode
    <3> HIDE DEF i, s
    <3>3. i = N + 1 => Counts(Opened[N], braces)
      <4>1. s \in Seq(Whats)
        BY <3>1 DEF InCode
      <4>2. Counts(Append(s, "comment"), braces)
        BY <2>1, <4>1, CountsOther
      <4>. QED BY <2>1, <3>2, <4>2
    <3>4. i <= N => Open(Opened[i - 1], braces) /\ (Before(i) = "/" => C!At(i) # "/")
      BY <2>1, <3>1, <3>2 DEF AtCode, Open
    <3>. QED BY <3>2, <3>3, <3>4
  <2>. QED BY <2>2, <2>3
<1> HIDE DEF i
<1>4. C!LineOf(i) = 1 + LinesTo(i - 1)
  <2> DEFINE b == i - 1
  <2>1. current \in 0 .. N /\ b \in current .. N /\ a = current + 1
    BY <1>1, <1>2 DEF a
  <2>2. C!LineOf(i) = line + C!Newlines(a, b)
    BY DEF C!LineOf, a
  <2> HIDE DEF b
  <2>3. LinesTo(current) \in Nat /\ C!Newlines(a, b) \in Nat /\ LinesTo(b) = LinesTo(current) + C!Newlines(a, b)
    BY <1>1, <2>1, NewlinesAdd
  <2>4. line = 1 + LinesTo(current)
    BY DEF Inv
  <2>. QED BY <2>2, <2>3, <2>4 DEF b
<1>. QED BY <1>2, <1>3, <1>4 DEF Arrives, a, i

\* A step that returns a token.
Reads(type, start, end, counts) ==
  /\ type \in Types
  /\ tokens' = Append(tokens, [type |-> type, start |-> start, end |-> end, line |-> 1 + LinesTo(end)])
  /\ current' = end
  /\ line' = 1 + LinesTo(end)
  /\ braces' = counts
  /\ UNCHANGED text
  /\ start \in current + 1 .. N + 1
  /\ end \in 0 .. N
  /\ IF type = "EOF" THEN start = N + 1 /\ end = N ELSE start <= end
  /\ ~TooDeep => (\A k \in current + 1 .. start - 1 : Covered(k)) /\ Boundary(end, counts)

LEMMA SameOpened ==
  ASSUME UNCHANGED text
  PROVE  Opened' = Opened
BY DEF Opened

LEMMA ReadsOn ==
  ASSUME Inv, NEW type, NEW start, NEW end, NEW counts, Reads(type, start, end, counts)
  PROVE  Inv'
<1> DEFINE t == [type |-> type, start |-> start, end |-> end, line |-> 1 + LinesTo(end)]
           more == Append(tokens, t)
           n == Len(tokens)
<1>1. IsText /\ N \in Nat /\ current \in 0 .. N /\ tokens \in Seq(TokenSet) /\ n \in Nat
  BY Characters DEF Inv
<1>2. Opened' = Opened /\ text' = text /\ N' = N
  BY SameOpened DEF Reads, N
<1>3. LinesTo(end) \in Nat
  <2>1. 0 \in 0 .. N /\ end \in 0 .. N /\ N \in end .. N /\ IsText
    BY <1>1 DEF Reads
  <2>. QED BY <2>1, NewlinesAdd
<1>4. t \in TokenSet /\ t.type = type /\ t.start = start /\ t.end = end /\ t.line = 1 + LinesTo(end)
  BY <1>1, <1>3 DEF Reads, TokenSet
<1> HIDE DEF t
<1>5. /\ more \in Seq(TokenSet) /\ Len(more) = n + 1 /\ more[n + 1] = t
      /\ \A k \in 1 .. n : more[k] = tokens[k]
      /\ more # <<>>
  BY <1>1, <1>4
<1>6. tokens' = more
  BY DEF Reads, t
<1> HIDE DEF more, n
<1>7. LastToken' = t /\ tokens' # <<>> /\ tokens' \in Seq(TokenSet)
  BY <1>5, <1>6 DEF LastToken
<1>8. IsText'
  BY <1>1, <1>2 DEF IsText, C!Characters, C!Letters, C!Digits, C!Single, C!Blanks, C!Others
<1>9. current' = end /\ end \in 0 .. N /\ line' = 1 + LinesTo(end) /\ braces' = counts
  BY DEF Reads
<1>10. LinesTo(current)' = LinesTo(end)
  BY <1>2, <1>9 DEF LinesTo
<1>11. TooDeep' <=> TooDeep
  BY <1>2 DEF TooDeep
<1>12. ASSUME ~TooDeep
       PROVE  Boundary(current, braces)'
  <2>1. Boundary(end, counts)
    BY <1>12 DEF Reads
  <2>. QED BY <1>2, <1>9, <2>1 DEF Boundary, Before, C!At
<1>13. TokensCoverTheText'
  <2> DEFINE from == IF Len(tokens) + 1 = 1 THEN 0 ELSE tokens[Len(tokens)].end
  <2>1. from = current
    <3>1. n = 0 <=> tokens = <<>>
      BY <1>1 DEF n
    <3>. QED BY <1>1, <3>1 DEF Inv, LastToken, n
  <2>2. (IF Len(tokens') = 1 THEN 0 ELSE tokens'[Len(tokens') - 1].end) = current
    <3>1. Len(tokens') = n + 1
      BY <1>5, <1>6
    <3>2. n # 0 => tokens'[n] = tokens[n]
      <4>1. n # 0 => n \in 1 .. n
        BY <1>1
      <4>. QED BY <1>5, <1>6, <4>1
    <3>3. (n + 1) - 1 = n /\ (n + 1 = 1 <=> n = 0)
      BY <1>1
    <3>. QED BY <2>1, <3>1, <3>2, <3>3 DEF n
  <2>3. t.type # "EOF" => current < t.start /\ t.start <= t.end
    BY <1>1, <1>4 DEF Reads
  <2>4. t.type = "EOF" => t.end = Len(text)
    BY <1>4 DEF Reads, N
  <2>5. ASSUME ~TooDeep
        PROVE  \A i \in current + 1 .. (IF t.type = "EOF" THEN Len(text) ELSE t.start - 1) : Covered(i)
    <3>1. (IF t.type = "EOF" THEN Len(text) ELSE t.start - 1) = start - 1
      BY <1>1, <1>4 DEF Reads, N
    <3>. QED BY <2>5, <3>1 DEF Reads
  <2>6. t.line = 1 + LinesTo(t.end)
    BY <1>4
  <2> DEFINE Covers(from_, tok, upto) ==
         /\ tok.type # "EOF" => from_ < tok.start /\ tok.start <= tok.end
         /\ tok.type = "EOF" => tok.end = Len(text)
         /\ ~TooDeep => \A i \in from_ + 1 .. upto : Covered(i)
         /\ tok.line = 1 + LinesTo(tok.end)
  <2>7. Covers(current, t, IF t.type = "EOF" THEN Len(text) ELSE t.start - 1)
    BY <2>3, <2>4, <2>5, <2>6
  <2>. QED BY <1>2, <1>7, <1>11, <2>2, <2>7 DEF TokensCoverTheText, Covered, LinesTo
<1>14. current' \in 0 .. N' /\ current' = t.end
  BY <1>2, <1>4, <1>9
<1>. QED BY <1>7, <1>8, <1>9, <1>10, <1>11, <1>12, <1>13, <1>14 DEF Inv

\* A token that is neither a string, nor a brace, nor a slash.
IsType(type) == type \in Types /\ type # "EOF"
IsPlain(i, end) == \A k \in i .. end : text[k] \notin {"\"", "{", "}", "/", "\n"}
LEMMA ReadsLexeme ==
  ASSUME Inv, NEW i \in 1 .. N, Arrives(i), NEW end \in i .. N, IsPlain(i, end),
         NEW type, IsType(type), C!Returns(type, i, end, C!LineOf(i)), UNCHANGED braces
  PROVE  Reads(type, i, end, braces)
<1> DEFINE a == i - 1
<1>1. IsText /\ N \in Nat /\ a \in 0 .. N /\ end \in a .. N /\ end \in 1 .. N /\ i = a + 1
  BY Characters DEF Inv
<1>2. C!LineOf(i) = 1 + LinesTo(end)
  <2>1. \A k \in a + 1 .. end : text[k] # "\n"
    BY <1>1 DEF IsPlain
  <2>2. LinesTo(end) = LinesTo(a)
    <3> HIDE DEF a
    <3>. QED BY <1>1, <2>1, NoNewlines
  <2>. QED BY <2>2 DEF Arrives
<1>3. ASSUME ~TooDeep
      PROVE  Boundary(end, braces)
  <2> DEFINE s == Opened[a]
  <2>1. Open(s, braces)
    BY <1>1, <1>3 DEF Arrives
  <2>2. InCode(s)
    BY <2>1 DEF Open
  <2>3. \A k \in a + 1 .. end : Opens(s, Before(k), text[k]) = s
    <3> HIDE DEF s
    <3> TAKE k \in a + 1 .. end
    <3>1. k \in i .. end
      BY <1>1
    <3>2. text[k] \notin {"\"", "{", "}", "/"}
      BY <3>1 DEF IsPlain
    <3>. QED BY <2>2, <3>2, OpensInCode
  <2>4. \A k \in a .. end : Opened[k] = s
    <3> DEFINE o == s
    <3>1. Opened[a] = o
      OBVIOUS
    <3>2. \A k \in a + 1 .. end : Opens(o, Before(k), text[k]) = o
      BY <2>3
    <3>3. end \in 0 .. N
      BY <1>1
    <3> HIDE DEF o, a
    <3>4. \A k \in a .. end : Opened[k] = o
      BY <1>1, <3>1, <3>2, <3>3, StaysOpen
    <3>. QED BY <3>4 DEF o
  <2>5. Opened[end] = s
    <3>1. end \in a .. end
      BY <1>1
    <3>. QED BY <2>4, <3>1
  <2>6. Before(end + 1) # "/"
    <3>1. end \in i .. end /\ Before(end + 1) = text[end]
      BY <1>1, AfterCharacter
    <3>. QED BY <3>1 DEF IsPlain
  <2>. QED BY <2>1, <2>2, <2>5, <2>6 DEF Boundary, Open
<1>4. i \in current + 1 .. N + 1 /\ end \in 0 .. N /\ i <= end
  BY <1>1 DEF Arrives
<1>. QED BY <1>2, <1>3, <1>4 DEF Reads, C!Returns, Arrives, IsType

\* A slash, or a brace that is no part of a string, with what it leaves open.
NoNewline(i) == text[i] # "\n"
NoSlashes(i) == text[i] = "/" => C!At(i + 1) # "/"
LEMMA ReadsOne ==
  ASSUME Inv, NEW i \in 1 .. N, Arrives(i), NoNewline(i),
         NEW type, IsType(type), C!Returns(type, i, i, C!LineOf(i)),
         NEW counts, braces' = counts,
         ~TooDeep => Open(Opened[i], counts), NoSlashes(i)
  PROVE  Reads(type, i, i, counts)
<1> DEFINE a == i - 1
<1>1. IsText /\ N \in Nat /\ a \in 0 .. N /\ i \in a .. N /\ i = a + 1
  BY Characters DEF Inv
<1>2. C!LineOf(i) = 1 + LinesTo(i)
  <2>1. \A k \in a + 1 .. i : text[k] # "\n"
    <3>1. \A k \in a + 1 .. i : k = i
      BY <1>1
    <3>. QED BY <3>1 DEF NoNewline
  <2>2. LinesTo(i) = LinesTo(a)
    <3> HIDE DEF a
    <3>. QED BY <1>1, <2>1, NoNewlines
  <2>. QED BY <2>2 DEF Arrives
<1>3. ASSUME ~TooDeep
      PROVE  Boundary(i, counts)
  <2>1. Before(i + 1) = text[i]
    BY <1>1, AfterCharacter
  <2>. QED BY <1>3, <2>1 DEF Boundary, Open, NoSlashes
<1>4. i \in current + 1 .. N + 1 /\ i \in 0 .. N /\ i <= i
  BY <1>1 DEF Arrives
<1>. QED BY <1>2, <1>3, <1>4 DEF Reads, C!Returns, Arrives, IsType

\* A string's segment, from a delimiter at i that leaves u and depth behind it.
IsDelimiter(i) == text[i] \in {"\"", "}"}
LEMMA ReadsSegment ==
  ASSUME Inv, NEW i \in 1 .. N, Arrives(i), IsDelimiter(i),
         NEW depth, C!string(i, depth),
         ~TooDeep => \E u : Opened[i] = Append(u, "string") /\ Open(u, depth)
  PROVE  \E type, end, counts : Reads(type, i, end, counts)
<1> DEFINE j == C!SegmentEnd(i + 1)
           a == i - 1
<1>1. IsText /\ N \in Nat /\ a \in 0 .. N /\ i \in a .. N /\ i = a + 1 /\ i + 1 \in 1 .. N + 1 /\ i \in 0 .. N
  BY Characters DEF Inv
<1>2. EndsSegment(i, j)
  BY <1>1, SegmentEnds DEF EndsSegment
<1>3. j \in i + 1 .. N + 1
  BY <1>2 DEF EndsSegment
<1> HIDE DEF j
\* The lines of the segment are those up to its end.
<1>4. ASSUME NEW end \in i .. N
      PROVE  C!segmentLine(i, end) = 1 + LinesTo(end)
  <2>1. LinesTo(i) = LinesTo(a)
    <3>1. \A k \in a + 1 .. i : k = i
      BY <1>1
    <3>2. \A k \in a + 1 .. i : text[k] # "\n"
      BY <3>1 DEF IsDelimiter
    <3> HIDE DEF a
    <3>. QED BY <1>1, <3>2, NoNewlines
  <2>2. /\ LinesTo(i) \in Nat /\ C!Newlines(i + 1, end) \in Nat
        /\ LinesTo(end) = LinesTo(i) + C!Newlines(i + 1, end)
    BY <1>1, NewlinesAdd
  <2>3. C!LineOf(i) = 1 + LinesTo(a)
    BY DEF Arrives
  <2>. QED BY <2>1, <2>2, <2>3 DEF C!segmentLine
<1>5. ASSUME NEW type \in {"ERROR", "STRING", "INTERPOLATION"}, NEW end \in i .. N, NEW counts,
             C!Returns(type, i, end, C!segmentLine(i, end)), braces' = counts,
             ~TooDeep => Boundary(end, counts)
      PROVE  Reads(type, i, end, counts)
  <2>1. type \in Types /\ type # "EOF"
    BY DEF Types
  <2>2. i \in current + 1 .. N + 1 /\ end \in 0 .. N /\ i <= end
    BY <1>1 DEF Arrives
  <2>3. C!segmentLine(i, end) = 1 + LinesTo(end)
    BY <1>4
  <2>4. ~TooDeep => \A k \in current + 1 .. i - 1 : Covered(k)
    BY DEF Arrives
  <2>5. C!Returns(type, i, end, 1 + LinesTo(end))
    BY <1>5, <2>3
  <2>. QED BY <1>5, <2>1, <2>2, <2>4, <2>5 DEF Reads, C!Returns
\* What the segment leaves open.
<1>6. ASSUME ~TooDeep
      PROVE  \E u : Open(u, depth) /\ SegmentLeaves(u, j)
  <2>1. PICK u : Opened[i] = Append(u, "string") /\ Open(u, depth)
    BY <1>6
  <2>2. u \in Seq(Whats) /\ text[i] # "$"
    BY <2>1 DEF Open, InCode, IsDelimiter
  <2>3. SegmentLeaves(u, j)
    BY <1>1, <1>2, <2>1, <2>2, SegmentReads
  <2>. QED BY <2>1, <2>3
\* Where it ends.
<1>7. C!At(j) # C!End => j \in i .. N
  <2>1. j = N + 1 => C!At(j) = C!End
    BY <1>1, Characters
  <2>. QED BY <1>1, <1>3, <2>1
<1>8. C!At(j) = "$" => j + 1 \in i .. N
  <2>1. ASSUME C!At(j) = "$"
        PROVE  j + 1 \in i .. N
    <3>1. Interrupts(j)
      BY <1>2, <2>1 DEF EndsSegment, C!End
    <3>2. j + 1 # N + 1
      BY <1>1, <3>1, Characters DEF Interrupts, C!End
    <3>3. j \in i .. N
      BY <1>7, <2>1 DEF C!End
    <3>. QED BY <1>1, <3>2, <3>3
  <2>. QED BY <2>1
<1> HIDE DEF a
<1>9. CASE /\ C!At(j) = C!End
           /\ C!Returns("ERROR", i, N, C!segmentLine(i, N))
           /\ braces' = depth
  <2>1. ~TooDeep => Boundary(N, depth)
    <3>1. SUFFICES ASSUME ~TooDeep
                   PROVE  Counts(Opened[N], depth) /\ ~(N < N)
      BY DEF Boundary
    <3>2. PICK u : Open(u, depth) /\ Opened[N] = Append(u, "string")
      BY <1>6, <1>9, <3>1 DEF SegmentLeaves
    <3>3. u \in Seq(Whats) /\ Counts(u, depth)
      BY <3>2 DEF Open, InCode
    <3>. QED BY <1>1, <3>2, <3>3, CountsOther
  <2>2. N \in i .. N
    BY <1>1
  <2>3. Reads("ERROR", i, N, depth)
    BY <1>5, <1>9, <2>1, <2>2
  <2>. QED BY <2>3
<1>10. CASE /\ C!At(j) = "\""
            /\ C!Returns("STRING", i, j, C!segmentLine(i, j))
            /\ braces' = depth
  <2>1. j \in i .. N
    BY <1>7, <1>10 DEF C!End
  <2>2. ASSUME ~TooDeep
        PROVE  Boundary(j, depth)
    <3>1. PICK u : Open(u, depth) /\ j \in 1 .. N /\ Opened[j] = u
      BY <1>6, <1>10, <2>2 DEF SegmentLeaves
    <3>2. Before(j + 1) = text[j] /\ C!At(j) = text[j]
      BY <1>1, <3>1, AfterCharacter
    <3>. QED BY <1>10, <3>1, <3>2 DEF Boundary, Open
  <2>3. Reads("STRING", i, j, depth)
    BY <1>5, <1>10, <2>1, <2>2
  <2>. QED BY <2>3
<1>11. CASE /\ C!At(j) = "$" /\ Len(depth) = MAX_INTERPOLATION
            /\ C!Returns("ERROR", i, j - 1, C!segmentLine(i, j - 1))
            /\ braces' = depth
  <2>1. j - 1 \in i .. N
    BY <1>1, <1>3
  <2>2. TooDeep
    <3>1. SUFFICES ASSUME ~TooDeep
                   PROVE  FALSE
      OBVIOUS
    <3>2. PICK u : /\ Open(u, depth) /\ j + 1 \in 1 .. N
                   /\ Opened[j + 1] = Append(Append(u, "string"), "interpolation")
      BY <1>6, <1>11, <3>1 DEF SegmentLeaves
    <3> DEFINE w == Append(Append(u, "string"), "interpolation")
    <3>3. w \in Seq(Whats) /\ Counts(w, Append(depth, 0))
      BY <3>2, OpensInterpolation DEF Open, InCode
    <3> HIDE DEF w
    <3>4. OpenBraces(w) = Append(depth, 0)
      BY <3>3, CountsAreOpenBraces
    <3>5. Len(Append(depth, 0)) = MAX_INTERPOLATION + 1
      <4>1. depth \in Seq(Nat)
        BY <3>2 DEF Open, Counts
      <4>. QED BY <1>11, <4>1
    <3>6. Len(OpenBraces(Opened[j + 1])) > MAX_INTERPOLATION
      BY <3>2, <3>4, <3>5, InterpolationAssumption DEF w
    <3>7. j + 1 \in 0 .. Len(text)
      BY <1>1, <3>2 DEF N
    <3>. QED BY <3>1, <3>6, <3>7 DEF TooDeep
  <2>3. Reads("ERROR", i, j - 1, depth)
    BY <1>5, <1>11, <2>1, <2>2
  <2>. QED BY <2>3
<1>12. CASE /\ C!At(j) = "$"
            /\ C!Returns("INTERPOLATION", i, j + 1, C!segmentLine(i, j + 1))
            /\ braces' = Append(depth, 0)
  <2> DEFINE e == j + 1
             more == Append(depth, 0)
  <2>1. e \in i .. N
    BY <1>8, <1>12
  <2>2. ASSUME ~TooDeep
        PROVE  Boundary(e, more)
    <3>1. PICK u : /\ Open(u, depth) /\ e \in 1 .. N /\ text[e] = "{"
                   /\ Opened[e] = Append(Append(u, "string"), "interpolation")
      BY <1>6, <1>12, <2>2 DEF SegmentLeaves
    <3>2. Open(Opened[e], more)
      BY <3>1, OpensInterpolation
    <3> HIDE DEF e, more
    <3>3. Before(e + 1) = text[e]
      BY <1>1, <3>1, AfterCharacter
    <3>. QED BY <3>1, <3>2, <3>3 DEF Boundary, Open
  <2>4. C!Returns("INTERPOLATION", i, e, C!segmentLine(i, e)) /\ braces' = more
    BY <1>12
  <2> HIDE DEF e, more
  <2>3. Reads("INTERPOLATION", i, e, more)
    BY <1>5, <2>1, <2>2, <2>4
  <2>. QED BY <2>3
<1>. QED BY <1>9, <1>10, <1>11, <1>12 DEF C!string, j, N

\* Where a run that starts in its class ends.
LEMMA RunReads ==
  ASSUME IsText, NEW i \in 1 .. N, NEW class, C!End \notin class, C!At(i) \in class
  PROVE  /\ C!RunEnd(i, class) \in i .. N
         /\ \A k \in i .. C!RunEnd(i, class) : C!At(k) \in class /\ text[k] = C!At(k)
<1> DEFINE e == C!RunEnd(i, class)
<1>1. N \in Nat /\ i \in 1 .. N + 1
  BY Characters
<1>2. e \in i - 1 .. N /\ (\A k \in i .. e : C!At(k) \in class) /\ C!At(e + 1) \notin class
  BY <1>1, RunEnds
<1> HIDE DEF e
<1>3. e # i - 1
  <2>1. (i - 1) + 1 = i
    OBVIOUS
  <2>. QED BY <1>2, <2>1
<1>4. e \in i - 1 .. N
  BY <1>2
<1>5. e \in i .. N
  BY <1>1, <1>3, <1>4
<1>6. \A k \in i .. e : k \in 1 .. N
  BY <1>1, <1>5
<1>7. \A k \in i .. e : text[k] = C!At(k)
  BY <1>6, Characters
<1>. QED BY <1>2, <1>5, <1>7 DEF e

LEMMA NumberReads ==
  ASSUME IsText, NEW i \in 1 .. N, C!At(i) \in C!Digits
  PROVE  C!numberEnd(i) \in i .. N /\ IsPlain(i, C!numberEnd(i))
<1> DEFINE w == C!RunEnd(i, C!Digits)
           f == C!RunEnd(w + 2, C!Digits)
<1>1. C!End \notin C!Digits /\ N \in Nat
  BY Characters DEF C!End, C!Digits
<1>2. w \in i .. N /\ \A k \in i .. w : C!At(k) \in C!Digits /\ text[k] = C!At(k)
  BY <1>1, RunReads
<1> HIDE DEF w
<1>3. w \in i .. N
  BY <1>2
<1>4. \A k \in i .. w : text[k] \notin {"\"", "{", "}", "/", "\n"}
  BY <1>2 DEF C!Digits
<1>5. CASE C!At(w + 1) = "." /\ C!At(w + 2) \in C!Digits
  <2>1. w + 1 # N + 1
    BY <1>1, <1>5, Characters DEF C!End
  <2>2. w + 2 # N + 1
    BY <1>1, <1>5, Characters
  <2>3. w + 1 \in 1 .. N /\ w + 2 \in 1 .. N
    <3>1. w \in Nat /\ i \in Nat
      BY <1>3
    <3>. QED BY <1>1, <1>3, <2>1, <2>2, <3>1
  <2>4. f \in w + 2 .. N /\ \A k \in w + 2 .. f : C!At(k) \in C!Digits /\ text[k] = C!At(k)
    BY <1>1, <1>5, <2>3, RunReads
  <2>5. text[w + 1] = "."
    BY <1>5, <2>3, Characters
  <2> HIDE DEF f
  <2>6. f \in w + 2 .. N
    BY <2>4
  <2>7. f \in i .. N /\ \A k \in i .. f : k \in i .. w \/ k = w + 1 \/ k \in w + 2 .. f
    BY <1>1, <1>3, <2>6
  <2>8. \A k \in w + 2 .. f : text[k] \notin {"\"", "{", "}", "/", "\n"}
    BY <2>4 DEF C!Digits
  <2>9. IsPlain(i, f)
    BY <1>4, <2>5, <2>7, <2>8 DEF IsPlain
  <2>10. C!numberEnd(i) = f
    BY <1>5 DEF C!numberEnd, w, f
  <2>. QED BY <2>7, <2>9, <2>10
<1>6. CASE ~(C!At(w + 1) = "." /\ C!At(w + 2) \in C!Digits)
  <2>1. C!numberEnd(i) = w
    BY <1>6 DEF C!numberEnd, w
  <2>2. IsPlain(i, w)
    BY <1>4 DEF IsPlain
  <2>. QED BY <1>3, <2>1, <2>2
<1>. QED BY <1>5, <1>6

\* In no block and no interpolation, nothing is counted.
LEMMA NothingCounted ==
  ASSUME NEW counts, Counts(<<>>, counts)
  PROVE  Len(counts) = 0
<1>1. PICK p : Marks(<<>>, Len(<<>>), counts, Len(counts), p)
  BY DEF Counts
<1>2. Len(<<>>) = 0
  OBVIOUS
<1>3. Len(counts) \in Nat /\ p \in [1 .. Len(counts) -> 1 .. 0]
  BY <1>1, <1>2 DEF Marks
<1>4. \A n \in 1 .. Len(counts) : FALSE
  BY <1>3
<1>. QED BY <1>3, <1>4

\* A '}' ends an interpolation if and only if one is innermost.
LEMMA Closes ==
  ASSUME NEW s, Open(s, braces)
  PROVE  /\ C!closesInterpolation <=> Innermost(s) = "interpolation"
         /\ Innermost(s) \in {"code", "block", "interpolation"}
         /\ Innermost(s) = "code" => s = <<>> /\ Len(braces) = 0
<1>1. Innermost(s) \in {"code", "block", "interpolation"} /\ (Innermost(s) = "code" <=> s = <<>>)
  BY CodeIsInnermost DEF Open
<1>2. Len(braces) \in Nat /\ \A n \in 1 .. Len(braces) : braces[n] \in Nat
  BY DEF Open, Counts
<1>3. CASE Innermost(s) = "code"
  <2>1. Len(braces) = 0
    BY <1>1, <1>3, NothingCounted DEF Open
  <2>. QED BY <1>1, <1>3, <2>1 DEF C!closesInterpolation, C!Top
<1>4. CASE Innermost(s) = "block"
  <2>1. Len(braces) # 0 => braces[Len(braces)] # 0
    BY <1>4, ClosesBlock
  <2>. QED BY <1>2, <1>4, <2>1 DEF C!closesInterpolation, C!Top
<1>5. CASE Innermost(s) = "interpolation"
  <2>1. Len(braces) # 0 /\ braces[Len(braces)] = 0
    BY <1>5, ClosesInterpolation
  <2>. QED BY <1>2, <1>5, <2>1 DEF C!closesInterpolation, C!Top
<1>. QED BY <1>1, <1>3, <1>4, <1>5

\* Every call of scanToken reads one token.
LEMMA Scans ==
  ASSUME Inv, C!scanToken
  PROVE  \E type, start, end, counts : Reads(type, start, end, counts)
<1> DEFINE i == C!skipWhitespace(current + 1)
           c == C!At(i)
           s == Opened[i - 1]
           Plain(type, end) == C!Returns(type, i, end, C!LineOf(i)) /\ UNCHANGED braces
           Run == C!RunEnd(i, C!Letters \cup C!Digits)
<1>1. Arrives(i)
  BY Skipped
<1>2. \/ c = C!End /\ Plain("EOF", Len(text))
      \/ c \in C!Letters /\ Plain(C!identifierType(i, Run), Run)
      \/ c \in C!Digits /\ Plain("NUMBER", C!numberEnd(i))
      \/ c \in C!Single /\ Plain(c, i)
      \/ c = "=" /\ C!At(i + 1) # "=" /\ Plain("=", i)
      \/ c = "=" /\ C!At(i + 1) = "=" /\ Plain("==", i + 1)
      \/ c = "{" /\ C!Returns("{", i, i, C!LineOf(i)) /\ braces' = C!count(1)
      \/ c = "}" /\ C!closesInterpolation /\ C!string(i, SubSeq(braces, 1, Len(braces) - 1))
      \/ c = "}" /\ ~C!closesInterpolation /\ C!Returns("}", i, i, C!LineOf(i)) /\ braces' = C!count(0 - 1)
      \/ c = "\"" /\ C!string(i, braces)
      \/ c \in {"$", "@"} /\ Plain("ERROR", i)
  BY DEF C!scanToken, C!Top
<1> HIDE DEF i
<1>3. IsText /\ N \in Nat /\ current \in 0 .. N
  BY Characters DEF Inv
<1>4. i \in current + 1 .. N + 1
  BY <1>1 DEF Arrives
<1>5. c # C!End => i \in 1 .. N
  <2>1. i = N + 1 => c = C!End
    BY <1>3, Characters
  <2>. QED BY <1>3, <1>4, <2>1
<1>6. ASSUME i \in 1 .. N
      PROVE  /\ c = text[i]
             /\ i \in i .. N
             /\ NoSlashes(i)
             /\ ~TooDeep => Open(s, braces) /\ Opened[i] = Opens(s, Before(i), c) /\ (c = "/" => Before(i) # "/")
  <2>1. c = text[i] /\ Opened[i] = Opens(s, Before(i), text[i])
    BY <1>3, <1>6, AfterCharacter
  <2>2. i \in i .. N /\ i <= N
    BY <1>3, <1>6
  <2>3. NoSlashes(i)
    BY <1>1, <2>1 DEF Arrives, Slashes, NoSlashes
  <2>. QED BY <1>1, <2>1, <2>2, <2>3 DEF Arrives
<1> HIDE DEF s
\* A token of one character that opens and closes nothing.
<1>7. ASSUME c # C!End, c \notin {"\"", "{", "}", "\n"}, NEW type, IsType(type), Plain(type, i)
      PROVE  Reads(type, i, i, braces)
  <2>1. i \in 1 .. N
    BY <1>5, <1>7
  <2>2. ASSUME ~TooDeep
        PROVE  Open(Opened[i], braces)
    <3>1. Open(s, braces) /\ Opened[i] = Opens(s, Before(i), c) /\ (c = "/" => Before(i) # "/")
      BY <1>6, <2>1, <2>2
    <3>2. Opens(s, Before(i), c) = s
      <4>1. InCode(s)
        BY <3>1 DEF Open
      <4> DEFINE before == Before(i)
                 d == c
      <4>2. d \notin {"\"", "{", "}"} /\ (d = "/" => before # "/")
        BY <1>7, <3>1
      <4> HIDE DEF before, d
      <4>3. ASSUME d = "/"
            PROVE  Opens(s, before, d) = s
        BY <4>1, <4>2, <4>3, OpensInCode
      <4>4. ASSUME d # "/"
            PROVE  Opens(s, before, d) = s
        <5>1. d \notin {"\"", "{", "}", "/"}
          BY <4>2, <4>4
        <5>. QED BY <4>1, <5>1, OpensInCode
      <4>5. Opens(s, before, d) = s
        BY <4>3, <4>4
      <4>. QED BY <4>5 DEF before, d
    <3>. QED BY <3>1, <3>2
  <2>3. NoNewline(i) /\ NoSlashes(i)
    BY <1>6, <1>7, <2>1 DEF NoNewline
  <2>4. C!Returns(type, i, i, C!LineOf(i)) /\ braces' = braces
    BY <1>7
  <2>5. IsType(type)
    BY <1>7
  <2>. QED BY <1>1, <2>1, <2>2, <2>3, <2>4, <2>5, ReadsOne
\* One of several.
<1>8. ASSUME i \in 1 .. N, NEW end \in i .. N, IsPlain(i, end), NEW type, IsType(type), Plain(type, end)
      PROVE  Reads(type, i, end, braces)
  BY <1>1, <1>8, ReadsLexeme
<1>9. CASE c = C!End /\ Plain("EOF", Len(text))
  <2>1. i = N + 1
    <3>1. i \notin 1 .. N
      BY <1>3, <1>9, Characters
    <3>. QED BY <1>3, <1>4, <3>1
  <2>2. C!LineOf(i) = 1 + LinesTo(N)
    <3>1. i - 1 = N
      BY <1>3, <2>1
    <3>. QED BY <1>1, <3>1 DEF Arrives
  <2>3. ASSUME ~TooDeep
        PROVE  (\A k \in current + 1 .. i - 1 : Covered(k)) /\ Boundary(N, braces)
    <3>1. ~(N < N)
      BY <1>3
    <3>. QED BY <1>1, <2>1, <2>3, <3>1 DEF Arrives, Boundary
  <2>4. "EOF" \in Types
    BY DEF Types
  <2>5. N \in 0 .. N
    BY <1>3
  <2>6. C!Returns("EOF", i, N, C!LineOf(i)) /\ UNCHANGED braces
    BY <1>9 DEF N
  <2>7. Reads("EOF", i, N, braces)
    BY <1>4, <2>1, <2>2, <2>3, <2>4, <2>5, <2>6 DEF Reads, C!Returns
  <2>. QED BY <2>7
<1>10. CASE c \in C!Letters /\ Plain(C!identifierType(i, Run), Run)
  <2> DEFINE class == C!Letters \cup C!Digits
  <2>1. c # C!End /\ C!End \notin class /\ c \in class
    BY <1>10 DEF C!End, C!Letters, C!Digits
  <2>2. i \in 1 .. N
    BY <1>5, <2>1
  <2>3. Run \in i .. N /\ \A k \in i .. Run : C!At(k) \in class /\ text[k] = C!At(k)
    <3> HIDE DEF class
    <3>1. C!RunEnd(i, class) \in i .. N /\ \A k \in i .. C!RunEnd(i, class) : C!At(k) \in class /\ text[k] = C!At(k)
      BY <1>3, <2>1, <2>2, RunReads
    <3>. QED BY <3>1 DEF class
  <2>4. IsPlain(i, Run)
    BY <2>3 DEF IsPlain, C!Letters, C!Digits
  <2>5. IsType(C!identifierType(i, Run))
    BY DEF IsType, Types, C!identifierType
  <2>. QED BY <1>8, <1>10, <2>2, <2>3, <2>4, <2>5
<1>11. CASE c \in C!Digits /\ Plain("NUMBER", C!numberEnd(i))
  <2>1. c # C!End
    BY <1>11 DEF C!End, C!Digits
  <2>2. i \in 1 .. N
    BY <1>5, <2>1
  <2>3. C!numberEnd(i) \in i .. N /\ IsPlain(i, C!numberEnd(i))
    BY <1>3, <1>11, <2>2, NumberReads
  <2>4. IsType("NUMBER")
    BY DEF IsType, Types
  <2>. QED BY <1>8, <1>11, <2>2, <2>3, <2>4
<1>12. CASE c \in C!Single /\ Plain(c, i)
  <2>1. c # C!End /\ c \notin {"\"", "{", "}", "\n"} /\ IsType(c)
    BY <1>12 DEF C!End, C!Single, IsType, Types, C!Characters
  <2>. QED BY <1>7, <1>12, <2>1
<1>13. CASE c = "=" /\ C!At(i + 1) # "=" /\ Plain("=", i)
  <2>1. c # C!End /\ c \notin {"\"", "{", "}", "\n"} /\ IsType("=")
    BY <1>13 DEF C!End, IsType, Types, C!Characters, C!Others
  <2>. QED BY <1>7, <1>13, <2>1
<1>14. CASE c = "=" /\ C!At(i + 1) = "=" /\ Plain("==", i + 1)
  <2> DEFINE e == i + 1
  <2>1. c # C!End /\ IsType("==") /\ C!At(e) # C!End
    BY <1>14 DEF C!End, IsType, Types
  <2>2. i \in 1 .. N
    BY <1>5, <2>1
  <2>3. e # N + 1
    BY <1>3, <2>1, Characters
  <2>4. e \in i .. N /\ e \in 1 .. N /\ \A k \in i .. e : k = i \/ k = e
    BY <1>3, <2>2, <2>3
  <2>5. text[i] = "=" /\ text[e] = "="
    BY <1>3, <1>14, <2>2, <2>4, Characters
  <2>6. IsPlain(i, e)
    <3> HIDE DEF e
    <3>. QED BY <2>4, <2>5 DEF IsPlain
  <2>7. Plain("==", e)
    BY <1>14
  <2> HIDE DEF e, Plain
  <2>. QED BY <1>8, <2>1, <2>2, <2>4, <2>6, <2>7
<1>15. CASE c = "{" /\ C!Returns("{", i, i, C!LineOf(i)) /\ braces' = C!count(1)
  <2>1. c # C!End /\ IsType("{")
    BY <1>15 DEF C!End, IsType, Types, C!Characters, C!Others
  <2>2. i \in 1 .. N
    BY <1>5, <2>1
  <2> DEFINE counts == Last(braces, 1)
  <2>3. ASSUME ~TooDeep
        PROVE  Open(Opened[i], counts)
    <3>1. Open(s, braces) /\ Opened[i] = Opens(s, Before(i), c)
      BY <1>6, <2>2, <2>3
    <3>2. Opens(s, Before(i), c) = Append(s, "block")
      <4>1. InCode(s)
        BY <3>1 DEF Open
      <4>. QED BY <1>15, <4>1, OpensInCode
    <3>3. Open(Append(s, "block"), counts)
      BY <3>1, OpensBlock
    <3>. QED BY <3>1, <3>2, <3>3
  <2>4. braces' = counts
    BY <1>15 DEF C!count, C!Top, Last
  <2>5. NoNewline(i) /\ NoSlashes(i)
    BY <1>6, <1>15, <2>2 DEF NoNewline
  <2> HIDE DEF counts
  <2>6. Reads("{", i, i, counts)
    BY <1>1, <1>15, <2>1, <2>2, <2>3, <2>4, <2>5, ReadsOne
  <2>. QED BY <2>6
<1>16. CASE c = "}" /\ ~C!closesInterpolation /\ C!Returns("}", i, i, C!LineOf(i)) /\ braces' = C!count(0 - 1)
  <2>1. c # C!End /\ IsType("}")
    BY <1>16 DEF C!End, IsType, Types, C!Characters, C!Others
  <2>2. i \in 1 .. N
    BY <1>5, <2>1
  <2> DEFINE counts == Last(braces, 0 - 1)
  <2>3. ASSUME ~TooDeep
        PROVE  Open(Opened[i], counts)
    <3>1. Open(s, braces) /\ Opened[i] = Opens(s, Before(i), c)
      BY <1>6, <2>2, <2>3
    <3>2. Opens(s, Before(i), c) = IF s = <<>> THEN s ELSE Popped(s)
      <4>1. InCode(s)
        BY <3>1 DEF Open
      <4>. QED BY <1>16, <4>1, OpensInCode
    <3>3. Innermost(s) \in {"code", "block"} /\ (Innermost(s) = "code" => s = <<>> /\ Len(braces) = 0)
      BY <1>16, <3>1, Closes
    <3>4. CASE Innermost(s) = "code"
      <4>1. counts = braces
        BY <3>3, <3>4 DEF Last
      <4>. QED BY <3>1, <3>2, <3>3, <3>4, <4>1
    <3>5. CASE Innermost(s) = "block"
      <4>1. s # <<>>
        BY <3>5 DEF Innermost
      <4>2. Open(Popped(s), counts)
        BY <3>1, <3>5, ClosesBlock
      <4>. QED BY <3>1, <3>2, <4>1, <4>2
    <3>. QED BY <3>3, <3>4, <3>5
  <2>4. braces' = counts
    BY <1>16 DEF C!count, C!Top, Last
  <2>5. NoNewline(i) /\ NoSlashes(i)
    BY <1>6, <1>16, <2>2 DEF NoNewline
  <2> HIDE DEF counts
  <2>6. Reads("}", i, i, counts)
    BY <1>1, <1>16, <2>1, <2>2, <2>3, <2>4, <2>5, ReadsOne
  <2>. QED BY <2>6
<1>17. CASE c = "}" /\ C!closesInterpolation /\ C!string(i, SubSeq(braces, 1, Len(braces) - 1))
  <2>1. i \in 1 .. N
    BY <1>5, <1>17 DEF C!End
  <2> DEFINE depth == SubSeq(braces, 1, Len(braces) - 1)
  <2>2. ASSUME ~TooDeep
        PROVE  \E u : Opened[i] = Append(u, "string") /\ Open(u, depth)
    <3>1. Open(s, braces) /\ Opened[i] = Opens(s, Before(i), c)
      BY <1>6, <2>1, <2>2
    <3>2. Innermost(s) = "interpolation" /\ s # <<>>
      <4>1. Innermost(s) = "interpolation"
        BY <1>17, <3>1, Closes
      <4>. QED BY <4>1 DEF Innermost
    <3>3. Opens(s, Before(i), c) = Popped(s)
      <4>1. InCode(s)
        BY <3>1 DEF Open
      <4>. QED BY <1>17, <3>2, <4>1, OpensInCode
    <3>4. \E u : Popped(s) = Append(u, "string") /\ Open(u, depth)
      BY <3>1, <3>2, ClosesInterpolation
    <3>. QED BY <3>1, <3>3, <3>4
  <2>3. IsDelimiter(i)
    BY <1>6, <1>17, <2>1 DEF IsDelimiter
  <2>4. C!string(i, depth)
    BY <1>17
  <2> HIDE DEF depth
  <2>5. \E type, end, counts : Reads(type, i, end, counts)
    BY <1>1, <2>1, <2>2, <2>3, <2>4, ReadsSegment
  <2>. QED BY <2>5
<1>18. CASE c = "\"" /\ C!string(i, braces)
  <2>1. i \in 1 .. N
    BY <1>5, <1>18 DEF C!End
  <2>2. ASSUME ~TooDeep
        PROVE  \E u : Opened[i] = Append(u, "string") /\ Open(u, braces)
    <3>1. Open(s, braces) /\ Opened[i] = Opens(s, Before(i), c)
      BY <1>6, <2>1, <2>2
    <3>2. Opens(s, Before(i), c) = Append(s, "string")
      <4>1. InCode(s)
        BY <3>1 DEF Open
      <4>. QED BY <1>18, <4>1, OpensInCode
    <3>. QED BY <3>1, <3>2
  <2>3. IsDelimiter(i)
    BY <1>6, <1>18, <2>1 DEF IsDelimiter
  <2>4. C!string(i, braces)
    BY <1>18
  <2>5. \E type, end, counts : Reads(type, i, end, counts)
    BY <1>1, <2>1, <2>2, <2>3, <2>4, ReadsSegment
  <2>. QED BY <2>5
<1>19. CASE c \in {"$", "@"} /\ Plain("ERROR", i)
  <2>1. c # C!End /\ c \notin {"\"", "{", "}", "\n"} /\ IsType("ERROR")
    BY <1>19 DEF C!End, IsType, Types
  <2>. QED BY <1>7, <1>19, <2>1
<1> HIDE DEF Plain, c, Run
<1>. QED BY <1>2, <1>9, <1>10, <1>11, <1>12, <1>13, <1>14, <1>15, <1>16, <1>17, <1>18, <1>19

LEMMA Starts == Init => Inv
<1> SUFFICES ASSUME Init
             PROVE  Inv
  OBVIOUS
<1>1. IsText
  BY TextsAssumption DEF Init, IsText
<1>2. N \in Nat
  BY <1>1, Characters
<1>3. LinesTo(0) = 0
  <2>1. {k \in 1 .. 0 : text[k] = "\n"} = {}
    OBVIOUS
  <2>. QED BY <2>1, FS_EmptySet DEF LinesTo
<1>4. Boundary(0, <<>>)
  <2>1. Opened[0] = <<>>
    BY <1>1, OpenedIs
  <2>2. Before(0 + 1) = "none"
    BY DEF Before
  <2>. QED BY <2>1, <2>2, NothingOpen DEF Boundary, Open
<1>5. TokensCoverTheText
  BY DEF Init, TokensCoverTheText
<1>6. current \in 0 .. N /\ tokens \in Seq(TokenSet)
  BY <1>2 DEF Init
<1>. QED BY <1>1, <1>3, <1>4, <1>5, <1>6 DEF Init, Inv

LEMMA Stutters ==
  ASSUME Inv, UNCHANGED <<text, current, line, braces, tokens>>
  PROVE  Inv'
<1>1. Opened' = Opened /\ text' = text /\ N' = N
  BY SameOpened DEF N
<1>2. TooDeep' <=> TooDeep
  BY <1>1 DEF TooDeep
<1>3. LastToken' = LastToken /\ LinesTo(current)' = LinesTo(current)
  BY <1>1 DEF LastToken, LinesTo
<1>4. IsText'
  BY <1>1 DEF Inv, IsText, C!Characters, C!Letters, C!Digits, C!Single, C!Blanks, C!Others
<1>5. Boundary(current, braces) => Boundary(current, braces)'
  BY <1>1 DEF Boundary, Before, C!At
<1>6. TokensCoverTheText'
  BY <1>1, <1>2, <1>3 DEF Inv, TokensCoverTheText
<1>. QED BY <1>1, <1>2, <1>3, <1>4, <1>5, <1>6 DEF Inv

LEMMA Keeps == Inv /\ [Next]_vars => Inv'
<1> SUFFICES ASSUME Inv, [Next]_vars
             PROVE  Inv'
  OBVIOUS
<1>1. CASE CloxStep
  BY <1>1, Scans, ReadsOn DEF CloxStep
<1>2. CASE GoStep
  <2>1. UNCHANGED text
    BY <1>2 DEF GoStep, G!ScanToken, G!AddToken, G!Adds, G!Skip, G!Error, G!Consume, G!stringLiteral, G!number
  <2>. QED BY <1>2, <2>1, Stutters DEF GoStep
<1>3. CASE Finished
  BY <1>3, Stutters DEF Finished, vars
<1>4. CASE UNCHANGED vars
  BY <1>4, Stutters DEF vars
<1>. QED BY <1>1, <1>2, <1>3, <1>4 DEF Next

LEMMA InvAlways == Spec => []Inv
BY Starts, Keeps, PTL DEF Spec

-----------------------------------------------------------------------------
(* The theorems about clox *)

\* scanToken (clox/scanner.c) loses no character and reads none twice, whatever
\* the text: between two tokens there are blanks and comments only, and a token
\* is on the line of its last character.
THEOREM CoversTheText == Spec => []TokensCoverTheText
<1>1. Inv => TokensCoverTheText
  BY DEF Inv
<1>. QED BY <1>1, InvAlways, PTL

\* Up to MAX_INTERPOLATION interpolations deep, the counters braces hold the
\* blocks that are open in each: scanToken reads every '}' as what it closes.
THEOREM MatchesBraces == Spec => []BracesMatch
<1>1. Inv => BracesMatch
  <2> SUFFICES ASSUME Inv, ~TooDeep
               PROVE  braces = OpenBraces(Opened[current])
    BY DEF BracesMatch
  <2>1. Counts(Opened[current], braces)
    BY DEF Inv, Boundary
  <2>2. Opened[current] \in Seq(Whats)
    BY OpenedIs DEF Inv
  <2>. QED BY <2>1, <2>2, CountsAreOpenBraces
<1>. QED BY <1>1, InvAlways, PTL

-----------------------------------------------------------------------------
(* What the two scanners make of the same characters *)

\* Both see the same characters, and both see where the text ends.
LEMMA Peeks ==
  ASSUME IsText, NEW i \in Nat, i >= 1
  PROVE  /\ C!At(i) # C!End => G!peek(i) = C!At(i) /\ C!At(i) \in C!Characters
         /\ C!At(i) = C!End => i > N /\ G!peek(i) = "NUL"
         /\ i \in 1 .. N => G!peek(i) = text[i]
<1>1. N \in Nat /\ \A k \in 1 .. N : text[k] \in C!Characters /\ C!At(k) = text[k] /\ C!At(k) # C!End
  BY Characters
<1>2. CASE i <= N
  <2>1. i \in 1 .. N
    BY <1>1, <1>2
  <2>2. G!peek(i) = text[i]
    BY <1>2 DEF G!peek, N
  <2>. QED BY <1>1, <2>1, <2>2
<1>3. CASE ~(i <= N)
  <2>1. i > N /\ i \notin 1 .. N
    BY <1>1, <1>3
  <2>2. G!peek(i) = "NUL" /\ C!At(i) = C!End
    BY <1>3 DEF G!peek, C!At, N
  <2>. QED BY <2>1, <2>2
<1>. QED BY <1>2, <1>3

\* A character that is none of the two ends.
IsCharacter(x) == x # C!End /\ x # "NUL"

LEMMA PeekIs ==
  ASSUME IsText, NEW i \in Nat, i >= 1, NEW x, IsCharacter(x)
  PROVE  G!peek(i) = x <=> C!At(i) = x
BY Peeks DEF IsCharacter

LEMMA LettersAndDigits ==
  /\ G!Letters = C!Letters /\ G!Digits = C!Digits
  /\ \A x \in C!Letters \cup C!Digits : IsCharacter(x)
  /\ \A x \in C!Digits : IsCharacter(x)
  /\ IsCharacter(".") /\ IsCharacter("\"") /\ IsCharacter("\n") /\ IsCharacter("/") /\ IsCharacter("=")
BY DEF G!Letters, C!Letters, G!Digits, C!Digits, IsCharacter, C!End

\* Two runs of the same class end at the same index.
EndsRun(i, class, j) ==
  j \in i - 1 .. N /\ (\A k \in i .. j : C!At(k) \in class) /\ C!At(j + 1) \notin class

LEMMA RunsAgree ==
  ASSUME IsText, NEW i \in 1 .. N + 1, NEW class, \A x \in class : IsCharacter(x)
  PROVE  G!RunEnd(i, class) = C!RunEnd(i, class)
<1> DEFINE e == C!RunEnd(i, class)
           P(j) == (\A k \in i .. j : G!peek(k) \in class) /\ G!peek(j + 1) \notin class
<1>1. N \in Nat /\ C!End \notin class
  BY Characters DEF IsCharacter
<1>2. e \in i - 1 .. N /\ (\A k \in i .. e : C!At(k) \in class) /\ C!At(e + 1) \notin class
  BY <1>1, RunEnds
<1>3. ASSUME NEW k \in Nat, k >= 1
      PROVE  G!peek(k) \in class <=> C!At(k) \in class
  BY <1>3, Peeks DEF IsCharacter
<1> HIDE DEF e
<1>4. \A j \in i - 1 .. N : /\ j + 1 \in Nat /\ j + 1 >= 1
                            /\ \A k \in i .. j : k \in Nat /\ k >= 1
  BY <1>1
<1>5. P(e)
  BY <1>2, <1>3, <1>4
<1>6. ASSUME NEW j \in i - 1 .. N, P(j)
      PROVE  j = e
  <2>1. (\A k \in i .. j : C!At(k) \in class) /\ C!At(j + 1) \notin class
    BY <1>3, <1>4, <1>6
  <2>2. e \in i - 1 .. N
    BY <1>2
  <2>3. ~(j < e)
    <3>1. j < e => j + 1 \in i .. e
      BY <1>1, <2>2
    <3>. QED BY <1>2, <2>1, <3>1
  <2>4. ~(e < j)
    <3>1. e < j => e + 1 \in i .. j
      BY <1>1, <2>2
    <3>. QED BY <1>2, <2>1, <3>1
  <2>. QED BY <1>1, <2>2, <2>3, <2>4
<1>7. G!RunEnd(i, class) = CHOOSE j \in i - 1 .. N : P(j)
  BY DEF G!RunEnd, P, N
<1> HIDE DEF P
<1>8. G!RunEnd(i, class) = e
  BY <1>2, <1>5, <1>6, <1>7
<1>. QED BY <1>8 DEF e

\* A search for one character.
Stops(i, x, j) ==
  /\ j \in i .. N + 1
  /\ C!At(j) \in {x, C!End}
  /\ \A k \in i .. j - 1 : C!At(k) # x

LEMMA NextIs ==
  ASSUME IsText, NEW i \in 1 .. N + 1, NEW x, IsCharacter(x), NEW j, Stops(i, x, j)
  PROVE  G!Next(i, {x}) = j
<1> DEFINE P(e) == (\A k \in i .. e - 1 : G!peek(k) \notin {x}) /\ (e > N \/ G!peek(e) \in {x})
<1>1. N \in Nat
  BY Characters
<1>2. j \in i .. N + 1
  BY DEF Stops
<1>3. ASSUME NEW k \in Nat, k >= 1
      PROVE  /\ G!peek(k) = x <=> C!At(k) = x
             /\ C!At(k) = C!End => k > N
  BY <1>3, Peeks, PeekIs
<1>4. \A e \in i .. N + 1 : e \in Nat /\ e >= 1 /\ \A k \in i .. e - 1 : k \in Nat /\ k >= 1
  BY <1>1
<1>5. P(j)
  <2>1. \A k \in i .. j - 1 : G!peek(k) # x
    BY <1>2, <1>3, <1>4 DEF Stops
  <2>2. C!At(j) = x \/ C!At(j) = C!End
    BY DEF Stops
  <2>3. j > N \/ G!peek(j) = x
    BY <1>2, <1>3, <1>4, <2>2
  <2>. QED BY <2>1, <2>3
<1>6. ASSUME NEW e \in i .. N + 1, P(e)
      PROVE  e = j
  <2>1. \A k \in i .. e - 1 : C!At(k) # x
    BY <1>3, <1>4, <1>6
  <2>2. e > N \/ C!At(e) = x
    BY <1>3, <1>4, <1>6
  <2>3. ~(e < j)
    <3>1. e < j => e \in i .. j - 1 /\ ~(e > N)
      BY <1>1, <1>2
    <3>. QED BY <2>2, <3>1 DEF Stops
  <2>4. ~(j < e)
    <3>1. j < e => j \in i .. e - 1 /\ ~(j > N) /\ j \in Nat /\ j >= 1
      BY <1>1, <1>2
    <3>. QED BY <1>3, <2>1, <3>1 DEF Stops
  <2>. QED BY <1>1, <1>2, <2>3, <2>4
<1>7. G!Next(i, {x}) = CHOOSE e \in i .. N + 1 : P(e)
  BY DEF G!Next, P, N
<1> HIDE DEF P
<1>. QED BY <1>2, <1>5, <1>6, <1>7

LEMMA NumbersAgree ==
  ASSUME IsText, NEW i \in 1 .. N, C!At(i) \in C!Digits
  PROVE  G!numberEnd(i) = C!numberEnd(i)
<1> DEFINE w == C!RunEnd(i, C!Digits)
<1>8. N \in Nat /\ i \in 1 .. N + 1
  BY Characters
<1>9. C!End \notin C!Digits /\ G!Digits = C!Digits
  BY DEF C!End, C!Digits, G!Digits
<1>1. N \in Nat /\ C!End \notin C!Digits /\ i \in 1 .. N + 1 /\ G!Digits = C!Digits
  BY <1>8, <1>9
<1>2. w \in i .. N
  BY <1>1, RunReads
<1>3. G!RunEnd(i, C!Digits) = w
  BY <1>1, LettersAndDigits, RunsAgree
<1> HIDE DEF w
<1>4. w + 1 \in Nat /\ w + 1 >= 1 /\ w + 2 \in Nat /\ w + 2 >= 1
  BY <1>1, <1>2
<1>5. G!peek(w + 1) = "." <=> C!At(w + 1) = "."
  BY <1>4, PeekIs, LettersAndDigits
<1>6. G!peek(w + 2) \in C!Digits <=> C!At(w + 2) \in C!Digits
  <2>1. \A x \in C!Digits : G!peek(w + 2) = x <=> C!At(w + 2) = x
    BY <1>4, PeekIs, LettersAndDigits
  <2>. QED BY <2>1
<1>7. ASSUME C!At(w + 2) \in C!Digits
      PROVE  G!RunEnd(w + 2, C!Digits) = C!RunEnd(w + 2, C!Digits)
  <2> DEFINE a == w + 2
  <2>1. C!At(a) # C!End
    BY <1>1, <1>7
  <2>2. a \in 1 .. N + 1
    <3>1. ~(a > N + 1)
      <4>1. a > N + 1 => ~(a <= N)
        BY <1>1, <1>4
      <4>. QED BY <2>1, <4>1 DEF C!At, N
    <3>. QED BY <1>1, <1>4, <3>1
  <2> HIDE DEF a
  <2>3. G!RunEnd(a, C!Digits) = C!RunEnd(a, C!Digits)
    BY <2>2, LettersAndDigits, RunsAgree
  <2>. QED BY <2>3 DEF a
<1>. QED BY <1>1, <1>3, <1>5, <1>6, <1>7 DEF G!numberEnd, C!numberEnd, w

-----------------------------------------------------------------------------
(* The tokens of a text without interpolation *)

\* The token that begins with index i, and the index it ends with.
Lexeme(i, type, end) ==
  \/ C!At(i) = C!End /\ type = "EOF" /\ end = N
  \/ C!At(i) \in C!Letters /\ end = C!RunEnd(i, C!Letters \cup C!Digits) /\ type = C!identifierType(i, end)
  \/ C!At(i) \in C!Digits /\ end = C!numberEnd(i) /\ type = "NUMBER"
  \/ C!At(i) \in C!Single \cup {"{", "}"} /\ end = i /\ type = C!At(i)
  \/ C!At(i) = "=" /\ C!At(i + 1) # "=" /\ end = i /\ type = "="
  \/ C!At(i) = "=" /\ C!At(i + 1) = "=" /\ end = i + 1 /\ type = "=="
  \/ C!At(i) = "\"" /\ C!At(C!SegmentEnd(i + 1)) = C!End /\ end = N /\ type = "ERROR"
  \/ C!At(i) = "\"" /\ C!At(C!SegmentEnd(i + 1)) = "\"" /\ end = C!SegmentEnd(i + 1) /\ type = "STRING"
  \/ C!At(i) \in {"$", "@"} /\ end = i /\ type = "ERROR"

\* The n-th token of clox.
From(n) == IF n = 1 THEN 0 ELSE tokens[n - 1].end
Lexed(n) ==
  /\ tokens[n].start = C!skipWhitespace(From(n) + 1)
  /\ Lexeme(tokens[n].start, tokens[n].type, tokens[n].end)
  /\ tokens[n].line = 1 + LinesTo(tokens[n].end)
  /\ tokens[n].type = "EOF" <=> n = Len(tokens) /\ C!Done
PlainInv == NoInterpolation => braces = <<>> /\ \A n \in 1 .. Len(tokens) : Lexed(n)

\* Without interpolation every '}' is a brace, and no string is interrupted.
LEMMA Lexes ==
  ASSUME C!scanToken, braces = <<>>, NEW i, i = C!skipWhitespace(current + 1)
  PROVE  \E type, end, at : /\ C!Returns(type, i, end, at)
                            /\ type = "INTERPOLATION" \/ (Lexeme(i, type, end) /\ braces' = <<>>)
<1> DEFINE c == C!At(i)
           Plain(type, end) == C!Returns(type, i, end, C!LineOf(i)) /\ UNCHANGED braces
           Run == C!RunEnd(i, C!Letters \cup C!Digits)
           j == C!SegmentEnd(i + 1)
           Found(type, end) == \E at : C!Returns(type, i, end, at) /\ Lexeme(i, type, end) /\ braces' = <<>>
           Goal == \E type, end, at : /\ C!Returns(type, i, end, at)
                                      /\ type = "INTERPOLATION" \/ (Lexeme(i, type, end) /\ braces' = <<>>)
<1>1. Len(braces) = 0
  OBVIOUS
<1>2. ~C!closesInterpolation /\ C!count(1) = <<>> /\ C!count(0 - 1) = <<>>
  BY <1>1 DEF C!closesInterpolation, C!Top, C!count
<1>3. \/ c = C!End /\ Plain("EOF", Len(text))
      \/ c \in C!Letters /\ Plain(C!identifierType(i, Run), Run)
      \/ c \in C!Digits /\ Plain("NUMBER", C!numberEnd(i))
      \/ c \in C!Single /\ Plain(c, i)
      \/ c = "=" /\ C!At(i + 1) # "=" /\ Plain("=", i)
      \/ c = "=" /\ C!At(i + 1) = "=" /\ Plain("==", i + 1)
      \/ c = "{" /\ C!Returns("{", i, i, C!LineOf(i)) /\ braces' = C!count(1)
      \/ c = "}" /\ C!closesInterpolation
      \/ c = "}" /\ ~C!closesInterpolation /\ C!Returns("}", i, i, C!LineOf(i)) /\ braces' = C!count(0 - 1)
      \/ c = "\"" /\ C!string(i, braces)
      \/ c \in {"$", "@"} /\ Plain("ERROR", i)
  BY DEF C!scanToken, C!Top
<1>4. ASSUME NEW type, NEW end, Found(type, end)
      PROVE  Goal
  BY <1>4
<1>5. ASSUME NEW type, NEW end, Plain(type, end), Lexeme(i, type, end)
      PROVE  Goal
  BY <1>5
<1> HIDE DEF Goal
<1>6. CASE c = C!End /\ Plain("EOF", Len(text))
  <2>1. Lexeme(i, "EOF", Len(text))
    BY <1>6 DEF Lexeme, N
  <2>. QED BY <1>5, <1>6, <2>1
<1>7. CASE c \in C!Letters /\ Plain(C!identifierType(i, Run), Run)
  <2>1. Lexeme(i, C!identifierType(i, Run), Run)
    BY <1>7 DEF Lexeme
  <2>. QED BY <1>5, <1>7, <2>1
<1>8. CASE c \in C!Digits /\ Plain("NUMBER", C!numberEnd(i))
  <2>1. Lexeme(i, "NUMBER", C!numberEnd(i))
    BY <1>8 DEF Lexeme
  <2>. QED BY <1>5, <1>8, <2>1
<1>9. CASE c \in C!Single /\ Plain(c, i)
  <2>1. Lexeme(i, c, i)
    BY <1>9 DEF Lexeme
  <2>. QED BY <1>5, <1>9, <2>1
<1>10. CASE c = "=" /\ C!At(i + 1) # "=" /\ Plain("=", i)
  <2>1. Lexeme(i, "=", i)
    BY <1>10 DEF Lexeme
  <2>. QED BY <1>5, <1>10, <2>1
<1>11. CASE c = "=" /\ C!At(i + 1) = "=" /\ Plain("==", i + 1)
  <2>1. Lexeme(i, "==", i + 1)
    BY <1>11 DEF Lexeme
  <2>. QED BY <1>5, <1>11, <2>1
<1>12. CASE c = "{" /\ C!Returns("{", i, i, C!LineOf(i)) /\ braces' = C!count(1)
  <2>1. Lexeme(i, "{", i)
    BY <1>12 DEF Lexeme
  <2>2. Plain("{", i)
    BY <1>2, <1>12
  <2>. QED BY <1>5, <2>1, <2>2
<1>13. CASE c = "}" /\ C!Returns("}", i, i, C!LineOf(i)) /\ braces' = C!count(0 - 1)
  <2>1. Lexeme(i, "}", i)
    BY <1>13 DEF Lexeme
  <2>2. Plain("}", i)
    BY <1>2, <1>13
  <2>. QED BY <1>5, <2>1, <2>2
<1>14. CASE c = "\"" /\ C!string(i, braces)
  <2> DEFINE Segment(type, end) == C!Returns(type, i, end, C!segmentLine(i, end))
  <2>1. \/ C!At(j) = C!End /\ Segment("ERROR", Len(text)) /\ braces' = braces
        \/ C!At(j) = "\"" /\ Segment("STRING", j) /\ braces' = braces
        \/ Len(braces) = MAX_INTERPOLATION
        \/ Segment("INTERPOLATION", j + 1)
    BY <1>14 DEF C!string
  <2>2. Len(braces) # MAX_INTERPOLATION
    BY <1>1, InterpolationAssumption
  <2>3. CASE C!At(j) = C!End /\ Segment("ERROR", Len(text)) /\ braces' = braces
    <3>1. Lexeme(i, "ERROR", Len(text))
      BY <1>14, <2>3 DEF Lexeme, N
    <3>. QED BY <1>4, <2>3, <3>1
  <2>4. CASE C!At(j) = "\"" /\ Segment("STRING", j) /\ braces' = braces
    <3>1. Lexeme(i, "STRING", j)
      BY <1>14, <2>4 DEF Lexeme
    <3>. QED BY <1>4, <2>4, <3>1
  <2>5. CASE Segment("INTERPOLATION", j + 1)
    BY <2>5 DEF Goal
  <2>. QED BY <2>1, <2>2, <2>3, <2>4, <2>5
<1>15. CASE c \in {"$", "@"} /\ Plain("ERROR", i)
  <2>1. Lexeme(i, "ERROR", i)
    BY <1>15 DEF Lexeme
  <2>. QED BY <1>5, <1>15, <2>1
<1> HIDE DEF Plain, c
<1>. QED BY <1>2, <1>3, <1>6, <1>7, <1>8, <1>9, <1>10, <1>11, <1>12, <1>13, <1>14, <1>15

\* The text decides what a token is.
LEMMA SameLexemes ==
  ASSUME UNCHANGED text
  PROVE  /\ \A i : C!skipWhitespace(i)' = C!skipWhitespace(i)
         /\ \A i, type, end : Lexeme(i, type, end)' = Lexeme(i, type, end)
         /\ \A i : LinesTo(i)' = LinesTo(i)
         /\ \A t : Complains(t)' = Complains(t)
<1>1. \A i : C!skipWhitespace(i)' = C!skipWhitespace(i)
  BY DEF C!skipWhitespace, C!LineEnd, C!At, C!End, C!Blanks
<1>2. \A i, type, end : Lexeme(i, type, end)' = Lexeme(i, type, end)
  BY DEF Lexeme, C!RunEnd, C!SegmentEnd, C!At, C!End, C!numberEnd, C!identifierType, N
<1>3. \A i : LinesTo(i)' = LinesTo(i)
  BY DEF LinesTo
<1>4. \A t : Complains(t)' = Complains(t)
  BY DEF Complains, TooLarge
<1>. QED BY <1>1, <1>2, <1>3, <1>4

LEMMA PlainStarts == Init => PlainInv
BY DEF Init, PlainInv

LEMMA PlainScans ==
  ASSUME Inv, PlainInv, C!scanToken
  PROVE  PlainInv'
<1> SUFFICES ASSUME NoInterpolation'
             PROVE  braces' = <<>> /\ \A n \in 1 .. Len(tokens') : Lexed(n)'
  BY DEF PlainInv
<1> DEFINE i == C!skipWhitespace(current + 1)
<1>21. PICK l \in Nat : l = Len(tokens)
  BY DEF Inv
<1>1. tokens \in Seq(TokenSet) /\ l = Len(tokens) /\ current = IF tokens = <<>> THEN 0 ELSE tokens[l].end
  BY <1>21 DEF Inv, LastToken
<1>2. PICK kind, start, stop, counts : Reads(kind, start, stop, counts)
  BY Scans
<1>3. Inv'
  BY <1>2, ReadsOn
<1>4. UNCHANGED text
  BY <1>2 DEF Reads
<1> DEFINE t == [type |-> kind, start |-> start, end |-> stop, line |-> 1 + LinesTo(stop)]
<1>5. /\ tokens' = Append(tokens, t) /\ tokens' \in Seq(TokenSet)
  BY <1>2, <1>3 DEF Reads, Inv
<1> HIDE DEF t
<1>6. /\ Len(tokens') = l + 1 /\ tokens'[l + 1] = t
      /\ \A n \in 1 .. l : tokens'[n] = tokens[n]
      /\ l + 1 \in 1 .. Len(tokens') /\ \A n \in 1 .. l : n \in 1 .. Len(tokens')
  BY <1>1, <1>5
<1>7. NoInterpolation
  BY <1>1, <1>6 DEF NoInterpolation
<1>8. braces = <<>> /\ \A n \in 1 .. l : Lexed(n)
  BY <1>1, <1>7 DEF PlainInv
<1>9. PICK type, end, at : /\ C!Returns(type, i, end, at)
                           /\ type = "INTERPOLATION" \/ (Lexeme(i, type, end) /\ braces' = <<>>)
  BY <1>8, Lexes
<1> DEFINE u == [type |-> type, start |-> i, end |-> end, line |-> at]
<1>10. tokens' = Append(tokens, u)
  BY <1>9 DEF C!Returns
<1>11. u.type = type /\ u.start = i /\ u.end = end
  OBVIOUS
<1> HIDE DEF u, i
<1>12. t = u
  <2>1. tokens'[l + 1] = u
    BY <1>1, <1>10
  <2>. QED BY <1>6, <2>1
<1>13. type # "INTERPOLATION"
  BY <1>6, <1>11, <1>12 DEF NoInterpolation
<1>14. LastToken' = t
  BY <1>6 DEF LastToken
<1>15. t.line = 1 + LinesTo(t.end)
  BY <1>2 DEF Reads, t
\* The token before the last is not the last of the text, and the new one may be.
<1>16. \A n \in 1 .. l : tokens[n].type # "EOF"
  <2>1. ~C!Done
    BY DEF C!scanToken
  <2>. QED BY <1>1, <1>8, <2>1 DEF Lexed
<1>17. C!Done' <=> t.type = "EOF"
  <2>1. tokens' # <<>>
    BY <1>1, <1>5, <1>6
  <2>2. tokens'[Len(tokens')] = t
    BY <1>6
  <2>. QED BY <2>1, <2>2 DEF C!Done
<1>18. ASSUME NEW n \in 1 .. l
       PROVE  Lexed(n)'
  <2>1. tokens'[n] = tokens[n] /\ n # l + 1 /\ n # Len(tokens')
    BY <1>1, <1>6
  <2>2. From(n)' = From(n)
    <3>1. n # 1 => n - 1 \in 1 .. l
      BY <1>1
    <3>. QED BY <1>6, <3>1 DEF From
  <2>. QED BY <1>4, <1>8, <1>16, <2>1, <2>2, SameLexemes DEF Lexed
<1>19. Lexed(l + 1)'
  <2>1. From(l + 1)' = current
    <3>1. l = 0 <=> tokens = <<>>
      BY <1>1
    <3>2. l # 0 => l \in 1 .. l /\ l + 1 # 1
      BY <1>1
    <3>3. (l + 1) - 1 = l /\ (l = 0 => l + 1 = 1)
      BY <1>1
    <3>. QED BY <1>1, <1>6, <3>1, <3>2, <3>3 DEF From
  <2>2. tokens'[l + 1] = t /\ t.start = C!skipWhitespace(current + 1)
    BY <1>6, <1>11, <1>12 DEF i
  <2>3. Lexeme(t.start, t.type, t.end)
    BY <1>9, <1>11, <1>12, <1>13
  <2>. QED BY <1>4, <1>6, <1>15, <1>17, <2>1, <2>2, <2>3, SameLexemes DEF Lexed
<1>20. \A n \in 1 .. Len(tokens') : n \in 1 .. l \/ n = l + 1
  BY <1>1, <1>6
<1>. QED BY <1>9, <1>13, <1>18, <1>19, <1>20

-----------------------------------------------------------------------------
(* What of clox's tokens is good and what is not *)

\* The tokens of s that glox has too, and the lines of those it reports.
GoodOf(s) == Selected(s, {n \in 1 .. Len(s) : s[n].type \notin Refused})
LinesOf(s) == [n \in 1 .. Len(s) |-> s[n].line]
BadOf(s)  == Selected(LinesOf(s), {n \in 1 .. Len(s) : Complains(s[n])})

LEMMA GoodIs ==
  ASSUME NEW s \in Seq(TokenSet)
  PROVE  /\ GoodOf(s)[0] = <<>> /\ BadOf(s)[0] = <<>>
         /\ \A n \in 1 .. Len(s) :
              /\ s[n].type \in Refused => GoodOf(s)[n] = GoodOf(s)[n - 1]
              /\ s[n].type \notin Refused => GoodOf(s)[n] = Append(GoodOf(s)[n - 1], s[n])
              /\ Complains(s[n]) => BadOf(s)[n] = Append(BadOf(s)[n - 1], s[n].line)
              /\ ~Complains(s[n]) => BadOf(s)[n] = BadOf(s)[n - 1]
         /\ \A n \in 0 .. Len(s) : GoodOf(s)[n] \in Seq(TokenSet) /\ BadOf(s)[n] \in Seq(Nat)
<1> DEFINE good == {n \in 1 .. Len(s) : s[n].type \notin Refused}
           bad == {n \in 1 .. Len(s) : Complains(s[n])}
           f == Selected(s, good)
           g == Selected(LinesOf(s), bad)
<1>1. \A n \in 1 .. Len(s) : s[n] \in TokenSet /\ s[n].line \in Nat
  <2>1. \A u \in TokenSet : u.line \in Nat
    BY DEF TokenSet
  <2>2. \A n \in 1 .. Len(s) : s[n] \in TokenSet
    OBVIOUS
  <2>. QED BY <2>1, <2>2
<1>2. LinesOf(s) \in Seq(Nat) /\ Len(LinesOf(s)) = Len(s) /\ \A n \in 1 .. Len(s) : LinesOf(s)[n] = s[n].line
  BY <1>1 DEF LinesOf
<1> HIDE DEF good, bad
<1>3. /\ f[0] = <<>>
      /\ \A n \in 1 .. Len(s) : f[n] = IF n \in good THEN Append(f[n - 1], s[n]) ELSE f[n - 1]
      /\ \A n \in 0 .. Len(s) : f[n] \in Seq(TokenSet)
  BY SelectedIs
<1>4. /\ g[0] = <<>>
      /\ \A n \in 1 .. Len(LinesOf(s)) : g[n] = IF n \in bad THEN Append(g[n - 1], LinesOf(s)[n]) ELSE g[n - 1]
      /\ \A n \in 0 .. Len(LinesOf(s)) : g[n] \in Seq(Nat)
  BY <1>2, SelectedIs
<1>5. GoodOf(s) = f /\ BadOf(s) = g
  BY DEF GoodOf, BadOf, good, bad
<1>6. \A n \in 1 .. Len(s) : (n \in good <=> s[n].type \notin Refused) /\ (n \in bad <=> Complains(s[n]))
  BY DEF good, bad
<1> HIDE DEF f, g
<1>. QED BY <1>2, <1>3, <1>4, <1>5, <1>6

LEMMA GoodNow ==
  /\ Good = GoodOf(tokens) /\ BadLines = BadOf(tokens)
  /\ Good' = GoodOf(tokens') /\ (UNCHANGED text => BadLines' = BadOf(tokens'))
<1>1. Good = GoodOf(tokens) /\ BadLines = BadOf(tokens) /\ Good' = GoodOf(tokens')
  BY DEF Good, BadLines, GoodOf, BadOf, LinesOf, Selected
<1>2. UNCHANGED text => BadLines' = BadOf(tokens')
  BY DEF BadLines, BadOf, LinesOf, Selected, Complains, TooLarge
<1>. QED BY <1>1, <1>2

-----------------------------------------------------------------------------
(* One step of glox *)

GoAt == goCurrent \in 0 .. N /\ goLine = 1 + LinesTo(goCurrent)

\* ScanToken takes what begins at the next character, up to end.
Taken(type, end) == [type |-> type, start |-> goCurrent + 1, end |-> end, line |-> 1 + LinesTo(end)]
Takes(type, end) ==
  /\ UNCHANGED text /\ goCurrent' = end /\ end \in 0 .. N /\ goLine' = 1 + LinesTo(end)
  /\ type \in Refused => UNCHANGED goTokens
  /\ type \notin Refused => goTokens' = Append(goTokens, Taken(type, end))
  /\ Complains(Taken(type, end)) => goErrors' = Append(goErrors, 1 + LinesTo(end))
  /\ ~Complains(Taken(type, end)) => UNCHANGED goErrors

\* Only a number can be too large.
LEMMA PlainComplains ==
  ASSUME NEW type, type # "NUMBER", NEW end
  PROVE  Complains(Taken(type, end)) <=> type \in Refused
BY DEF Complains, TooLarge, Taken

\* ScanToken skips a blank or a comment.
Skips(end) ==
  /\ UNCHANGED <<text, goTokens, goErrors>> /\ goCurrent' = end /\ end \in 0 .. N /\ goLine' = 1 + LinesTo(end)
  /\ C!skipWhitespace(goCurrent + 1) = C!skipWhitespace(end + 1)

LEMMA GoAtIs ==
  ASSUME IsText, GoAt, NEW i, i = goCurrent + 1
  PROVE  /\ N \in Nat /\ i \in 1 .. N + 1 /\ goCurrent = i - 1 /\ i \in Nat /\ i >= 1 /\ goCurrent \in 0 .. N
         /\ i <= N => i \in 1 .. N /\ i \in 0 .. N /\ i + 1 \in 1 .. N + 1 /\ i \in goCurrent .. N
         /\ LinesTo(goCurrent) \in Nat /\ goLine \in Nat
<1>1. N \in Nat
  BY Characters
<1>2. LinesTo(goCurrent) \in Nat
  <2>1. goCurrent \in 0 .. N /\ goCurrent \in goCurrent .. N
    BY <1>1 DEF GoAt
  <2>. QED BY <2>1, NewlinesAdd
<1>. QED BY <1>1, <1>2 DEF GoAt

LEMMA GoSkips ==
  ASSUME IsText, GoAt, NEW i, i = goCurrent + 1, G!ScanToken, Blank(i) \/ Slashes(i)
  PROVE  \E end : Skips(end)
<1>1. N \in Nat /\ i \in 1 .. N + 1 /\ goCurrent = i - 1 /\ i \in Nat /\ i >= 1
  BY GoAtIs
<1> DEFINE c == G!peek(i)
<1>2. C!At(i) # C!End
  BY DEF Blank, Slashes, C!End, C!Blanks
<1>3. c = C!At(i) /\ i <= N
  <2>1. ~(i <= N) => C!At(i) = C!End
    BY DEF C!At, N
  <2>. QED BY <1>1, <1>2, <2>1, Peeks
<1>4. i \in 1 .. N /\ i \in 0 .. N /\ i \in goCurrent .. N /\ goCurrent \in 0 .. N
  BY <1>3, GoAtIs
<1>5. text[i] = C!At(i)
  BY <1>4, Characters
<1>6. ~(i > Len(text))
  BY <1>1, <1>3 DEF N
<1>7. CASE C!At(i) = " "
  <2>1. G!Skip(i) /\ UNCHANGED goLine
    BY <1>3, <1>6, <1>7 DEF G!ScanToken, G!Single, G!Digits, G!Letters, G!Unexpected
  <2>2. LinesTo(i) = LinesTo(goCurrent)
    <3>1. \A k \in goCurrent + 1 .. i : k = i
      BY <1>1
    <3>2. \A k \in goCurrent + 1 .. i : text[k] # "\n"
      BY <1>5, <1>7, <3>1
    <3>. QED BY <1>4, <3>2, NoNewlines
  <2>3. C!skipWhitespace(i) = C!skipWhitespace(i + 1)
    <3>1. Blank(i)
      BY <1>7 DEF Blank, C!Blanks
    <3>. QED BY <1>1, <3>1, SkipIs
  <2>4. Skips(i)
    BY <1>4, <2>1, <2>2, <2>3 DEF Skips, G!Skip, G!Consume, GoAt
  <2>. QED BY <2>4
<1>8. CASE C!At(i) = "\n"
  <2>1. G!Skip(i) /\ goLine' = goLine + 1
    BY <1>3, <1>6, <1>8 DEF G!ScanToken, G!Single, G!Digits, G!Letters, G!Unexpected
  <2>2. LinesTo(i) = LinesTo(goCurrent) + 1
    <3>1. {k \in i .. i : C!At(k) = "\n"} = {i}
      BY <1>1, <1>8
    <3>2. C!Newlines(i, i) = 1
      BY <3>1, SameCardinality, FS_Singleton DEF C!Newlines
    <3>3. LinesTo(i) = LinesTo(goCurrent) + C!Newlines(goCurrent + 1, i)
      BY <1>4, NewlinesAdd
    <3>. QED BY <3>2, <3>3
  <2>3. C!skipWhitespace(i) = C!skipWhitespace(i + 1)
    <3>1. Blank(i)
      BY <1>8 DEF Blank
    <3>. QED BY <1>1, <3>1, SkipIs
  <2>5. goLine' = 1 + LinesTo(i)
    <3>1. LinesTo(goCurrent) \in Nat
      BY GoAtIs
    <3>. QED BY <2>1, <2>2, <3>1 DEF GoAt
  <2>4. Skips(i)
    BY <1>4, <2>1, <2>3, <2>5 DEF Skips, G!Skip, G!Consume
  <2>. QED BY <2>4
<1>9. CASE Slashes(i)
  <2> DEFINE e == C!LineEnd(i)
  <2>1. e \in i + 1 .. N + 1 /\ C!At(e) \in {"\n", C!End} /\ \A l \in i .. e - 1 : C!At(l) \notin {"\n", C!End}
    BY <1>1, <1>9, LineEnds, LineEndIsLater
  <2> HIDE DEF e
  <2>2. Stops(i, "\n", e)
    BY <1>1, <2>1 DEF Stops
  <2>3. G!Next(i, {"\n"}) = e
    BY <1>1, <2>2, NextIs, LettersAndDigits
  <2>4. c = "/" /\ G!peek(i + 1) = "/"
    <3>1. i + 1 \in Nat /\ i + 1 >= 1 /\ C!At(i + 1) = "/"
      BY <1>1, <1>9 DEF Slashes
    <3>2. G!peek(i + 1) = "/"
      BY <3>1, PeekIs, LettersAndDigits
    <3>. QED BY <1>3, <1>9, <3>2 DEF Slashes
  <2>5. G!Skip(e - 1) /\ UNCHANGED goLine
    BY <1>6, <2>3, <2>4 DEF G!ScanToken, G!Single, G!Digits, G!Letters, G!Unexpected
  <2>6. e - 1 \in 0 .. N /\ e - 1 \in goCurrent .. N /\ (e - 1) + 1 = e /\ \A k \in goCurrent + 1 .. e - 1 : k \in i .. e - 1 /\ k \in 1 .. N
    BY <1>1, <2>1
  <2>7. \A k \in goCurrent + 1 .. e - 1 : text[k] # "\n"
    BY <2>1, <2>6, Characters
  <2>8. LinesTo(e - 1) = LinesTo(goCurrent)
    BY <1>4, <2>6, <2>7, NoNewlines
  <2>9. C!skipWhitespace(i) = C!skipWhitespace(e)
    <3>1. ~Blank(i)
      BY <1>9 DEF Slashes, Blank, C!Blanks
    <3>. QED BY <1>1, <1>9, <3>1, SkipIs DEF e
  <2>10. Skips(e - 1)
    BY <2>5, <2>6, <2>8, <2>9 DEF Skips, G!Skip, G!Consume, GoAt
  <2>. QED BY <2>10
<1>10. Blank(i) => C!At(i) \in {" ", "\n"}
  BY DEF Blank, C!Blanks
<1>. QED BY <1>7, <1>8, <1>9, <1>10

OneLine(i, end) == \A k \in i .. end : text[k] # "\n"
LEMMA SameLine ==
  ASSUME IsText, GoAt, NEW i, i = goCurrent + 1, i <= N, NEW end \in i .. N, OneLine(i, end)
  PROVE  end \in 0 .. N /\ goLine = 1 + LinesTo(end)
<1>1. N \in Nat /\ i \in 1 .. N /\ goCurrent = i - 1 /\ goCurrent \in 0 .. N /\ i \in Nat
  BY GoAtIs
<1>2. end \in 0 .. N /\ end \in goCurrent .. N /\ goCurrent + 1 = i
  BY <1>1
<1>3. \A k \in goCurrent + 1 .. end : text[k] # "\n"
  BY <1>2 DEF OneLine
<1>4. LinesTo(end) = LinesTo(goCurrent)
  BY <1>1, <1>2, <1>3, NoNewlines
<1>5. goLine = 1 + LinesTo(end)
  BY <1>4 DEF GoAt
<1>. QED BY <1>2, <1>5

LEMMA TakesPlain ==
  ASSUME IsText, GoAt, NEW i, i = goCurrent + 1, i <= N, NEW end \in i .. N, OneLine(i, end),
         NEW type, \/ type \notin Refused \cup {"NUMBER"} /\ G!AddToken(type, end, goLine)
                   \/ type \in Refused /\ G!Error(end, goLine)
  PROVE  Takes(type, end)
<1>1. end \in 0 .. N /\ goLine = 1 + LinesTo(end)
  BY SameLine
<1>2. Complains(Taken(type, end)) <=> type \in Refused
  <2>1. type # "NUMBER"
    BY DEF Refused
  <2>. QED BY <2>1, PlainComplains
<1>. QED BY <1>1, <1>2 DEF Takes, Taken, G!AddToken, G!Adds, G!Error, G!Reports, G!Consume

\* What glox finds too large from the digits it reads is too large in the text.
LEMMA SameNumbers ==
  ASSUME IsText, NEW i \in 1 .. N, C!At(i) \in C!Digits, NEW t, t.type = "NUMBER", t.start = i,
         t.end = C!numberEnd(i)
  PROVE  TooLarge(t) <=> G!TooLarge(i)
<1> DEFINE w == C!RunEnd(i, C!Digits)
<1>1. N \in Nat /\ MaxWhole \in Nat
  BY Characters, WholeAssumption
<1>2. C!End \notin C!Digits
  BY DEF C!End, C!Digits
<1>3. w \in i .. N /\ C!At(w + 1) \notin C!Digits /\ \A k \in i .. w : C!At(k) \in C!Digits
  <2>1. i \in 1 .. N + 1
    BY <1>1
  <2>2. w \in i - 1 .. N /\ (\A k \in i .. w : C!At(k) \in C!Digits) /\ C!At(w + 1) \notin C!Digits
    BY <1>2, <2>1, RunEnds
  <2> HIDE DEF w
  <2>3. w # i - 1
    <3>1. w = i - 1 => w + 1 = i
      BY <1>1
    <3>. QED BY <2>2, <3>1
  <2>. QED BY <1>1, <2>2, <2>3
<1>4. G!TooLarge(i) <=> w >= i + MaxWhole
  <2>1. i \in 1 .. N + 1
    BY <1>1
  <2>2. G!RunEnd(i, C!Digits) = w
    BY <2>1, LettersAndDigits, RunsAgree
  <2>. QED BY <2>2, LettersAndDigits DEF G!TooLarge
<1>5. t.end \in w .. N
  <2>1. t.end = IF C!At(w + 1) = "." /\ C!At(w + 2) \in C!Digits THEN C!RunEnd(w + 2, C!Digits) ELSE w
    BY DEF C!numberEnd
  <2> HIDE DEF w
  <2>2. ASSUME C!At(w + 2) \in C!Digits
        PROVE  C!RunEnd(w + 2, C!Digits) \in w .. N
    <3> DEFINE a == w + 2
    <3>1. a \in 1 .. N + 1
      <4>1. ~(a > N + 1)
        <5>1. a > N + 1 => ~(a <= N)
          BY <1>1, <1>3
        <5>. QED BY <1>2, <2>2, <5>1 DEF C!At, N
      <4>. QED BY <1>1, <1>3, <4>1
    <3>2. a - 1 >= w
      BY <1>1, <1>3
    <3> HIDE DEF a
    <3>3. C!RunEnd(a, C!Digits) \in a - 1 .. N
      BY <1>2, <3>1, RunEnds
    <3>4. C!RunEnd(a, C!Digits) \in w .. N
      BY <1>1, <1>3, <3>1, <3>2, <3>3
    <3>. QED BY <3>4 DEF a
  <2>. QED BY <1>1, <1>3, <2>1, <2>2
<1> HIDE DEF w
<1>6. \A k \in 1 .. N : C!At(k) = text[k]
  BY Characters
<1>7. ASSUME w >= i + MaxWhole
      PROVE  TooLarge(t)
  <2>1. \A k \in i .. i + MaxWhole : k \in i .. w /\ k \in 1 .. N
    BY <1>1, <1>3, <1>7
  <2>2. \A k \in i .. i + MaxWhole : text[k] \in C!Digits
    BY <1>3, <1>6, <2>1
  <2>3. i + MaxWhole <= t.end
    BY <1>1, <1>3, <1>5, <1>7
  <2>. QED BY <2>2, <2>3 DEF TooLarge
<1>8. ASSUME TooLarge(t), ~(w >= i + MaxWhole)
      PROVE  FALSE
  <2>1. i + MaxWhole <= t.end /\ \A k \in i .. i + MaxWhole : text[k] \in C!Digits
    BY <1>8 DEF TooLarge
  <2>2. w + 1 \in i .. i + MaxWhole /\ w + 1 \in 1 .. N
    BY <1>1, <1>3, <1>5, <1>8, <2>1
  <2>. QED BY <1>3, <1>6, <2>1, <2>2
<1>. QED BY <1>4, <1>7, <1>8

LEMMA TakesNumber ==
  ASSUME IsText, GoAt, NEW i, i = goCurrent + 1, i \in 1 .. N, C!At(i) \in C!Digits,
         NEW end \in i .. N, end = C!numberEnd(i), OneLine(i, end), G!number(i), G!numberEnd(i) = end
  PROVE  Takes("NUMBER", end)
<1> DEFINE t == Taken("NUMBER", end)
<1>1. end \in 0 .. N /\ goLine = 1 + LinesTo(end)
  <2>1. i <= N
    BY Characters
  <2>. QED BY <2>1, SameLine
<1>2. t.type = "NUMBER" /\ t.start = i /\ t.end = C!numberEnd(i)
  BY DEF Taken
<1> HIDE DEF t
<1>3. Complains(t) <=> G!TooLarge(i)
  <2>1. "NUMBER" \notin Refused
    BY DEF Refused
  <2>2. TooLarge(t) <=> G!TooLarge(i)
    BY <1>2, SameNumbers
  <2>. QED BY <1>2, <2>1, <2>2 DEF Complains
<1>4. "NUMBER" \notin Refused
  BY DEF Refused
<1>5. /\ G!Adds("NUMBER", end, goLine)
      /\ G!TooLarge(i) => goErrors' = Append(goErrors, goLine)
      /\ ~G!TooLarge(i) => goErrors' = goErrors
  BY DEF G!number, G!AddToken, G!Reports
<1>6. goTokens' = Append(goTokens, t) /\ goCurrent' = end /\ goLine' = goLine /\ UNCHANGED text
  BY <1>1, <1>5 DEF G!Adds, G!Consume, Taken, t
<1>7. Complains(Taken("NUMBER", end)) <=> G!TooLarge(i)
  BY <1>3 DEF t
<1>8. goTokens' = Append(goTokens, Taken("NUMBER", end))
  BY <1>6 DEF t
<1>. QED BY <1>1, <1>4, <1>5, <1>6, <1>7, <1>8 DEF Takes

IsQuote(j) == C!At(j) = "\""
EndsString(j) == IsQuote(j) \/ C!At(j) = C!End

\* The line of a string that ends with the index close, or with the text.
LEMMA TakesString ==
  ASSUME IsText, GoAt, NEW i, i = goCurrent + 1, IsQuote(i), G!stringLiteral(i),
         NEW j, j = C!SegmentEnd(i + 1), EndsString(j)
  PROVE  IF C!At(j) = C!End THEN Takes("ERROR", N) ELSE Takes("STRING", j)
<1>1. N \in Nat /\ i \in 1 .. N + 1 /\ goCurrent = i - 1 /\ goCurrent \in 0 .. N /\ i \in Nat
      /\ LinesTo(goCurrent) \in Nat
  BY GoAtIs
<1>2. i <= N
  <2>1. ~(i <= N) => C!At(i) = C!End
    BY DEF C!At, N
  <2>. QED BY <2>1 DEF C!End, IsQuote
<1> DEFINE a == i + 1
<1>3. a \in 1 .. N + 1
  BY <1>1, <1>2
<1>4. j \in a .. N + 1
  BY <1>3, SegmentEnds
<1>14. \A k \in a .. j - 1 : C!At(k) # "\""
  BY <1>3, SegmentEnds
<1>5. Stops(a, "\"", j)
  BY <1>4, <1>14 DEF Stops, EndsString, IsQuote
<1> HIDE DEF a
<1>6. G!Next(a, {"\""}) = j
  BY <1>3, <1>5, NextIs, LettersAndDigits
<1> DEFINE at == goLine + G!Cardinality({k \in i .. j - 1 : G!peek(k) = "\n"})
<1>7. IF j > N THEN G!Error(N, at) ELSE G!AddToken("STRING", j, at)
  BY <1>6 DEF G!stringLiteral, a, N
<1>8. j > N <=> C!At(j) = C!End
  <2>1. j \in 1 .. N => C!At(j) # C!End
    BY Characters
  <2>2. j > N => C!At(j) = C!End
    BY <1>1, <1>3, <1>4 DEF C!At, N
  <2>3. j \in 1 .. N \/ j > N
    BY <1>1, <1>3, <1>4
  <2>. QED BY <1>1, <2>1, <2>2, <2>3
<1> DEFINE e == IF j > N THEN N ELSE j
<1>9. e \in 0 .. N /\ e \in goCurrent .. N /\ e \in i .. N /\ j \in i + 1 .. N + 1
  BY <1>1, <1>2, <1>3, <1>4 DEF a
<1>10. {k \in i .. j - 1 : G!peek(k) = "\n"} = {k \in i .. e : C!At(k) = "\n"}
  <2>1. \A k \in i .. j - 1 : k \in i .. e
    BY <1>1, <1>9
  <2>2. \A k \in i .. e : k \in i .. j - 1 \/ k = j
    BY <1>1, <1>9
  <2>3. C!At(j) # "\n"
    BY DEF C!End, EndsString, IsQuote
  <2>4. \A k \in i .. e : k \in Nat /\ k >= 1
    BY <1>1, <1>9
  <2>5. \A k \in i .. e : G!peek(k) = "\n" <=> C!At(k) = "\n"
    BY <2>4, PeekIs, LettersAndDigits
  <2> HIDE DEF e
  <2>. QED BY <2>1, <2>2, <2>3, <2>5
<1> HIDE DEF e
<1>11. at = 1 + LinesTo(e)
  <2> DEFINE S == {k \in i .. e : C!At(k) = "\n"}
  <2>1. G!Cardinality(S) = C!Newlines(i, e)
    <3>1. G!Cardinality(S) = C!Cardinality(S)
      BY DEF G!Cardinality, C!Cardinality
    <3>. QED BY <3>1 DEF C!Newlines
  <2>2. C!Newlines(i, e) \in Nat /\ LinesTo(e) = LinesTo(goCurrent) + C!Newlines(i, e)
    BY <1>1, <1>9, NewlinesAdd
  <2>3. at = goLine + C!Newlines(i, e)
    BY <1>10, <2>1
  <2> HIDE DEF at, S
  <2>. QED BY <1>1, <2>2, <2>3 DEF GoAt
<1> HIDE DEF at
<1>12. CASE j > N
  <2>1. Complains(Taken("ERROR", N)) /\ "ERROR" \in Refused
    BY PlainComplains DEF Refused
  <2>. QED BY <1>7, <1>8, <1>9, <1>11, <1>12, <2>1 DEF Takes, G!Error, G!Reports, G!Consume, e
<1>13. CASE ~(j > N)
  <2>1. e = j /\ G!AddToken("STRING", j, at) /\ C!At(j) # C!End
    BY <1>7, <1>8, <1>13 DEF e
  <2>2. Takes("STRING", j)
    <3>1. ~Complains(Taken("STRING", j)) /\ "STRING" \notin Refused
      BY PlainComplains DEF Refused
    <3>. QED BY <1>9, <1>11, <2>1, <3>1 DEF Takes, Taken, G!AddToken, G!Adds, G!Consume
  <2>. QED BY <2>1, <2>2
<1>. QED BY <1>12, <1>13

\* ScanToken takes the token that begins at the next character.
LEMMA GoTakes ==
  ASSUME IsText, GoAt, NEW i, i = goCurrent + 1, G!ScanToken, ~Blank(i), ~Slashes(i),
         NEW type, NEW end, Lexeme(i, type, end)
  PROVE  Takes(type, end)
<1>1. N \in Nat /\ i \in 1 .. N + 1 /\ goCurrent = i - 1 /\ i \in Nat /\ i >= 1 /\ LinesTo(goCurrent) \in Nat
  BY GoAtIs
<1> DEFINE c == G!peek(i)
<1>2. CASE C!At(i) = C!End /\ type = "EOF" /\ end = N
  <2>1. i > N /\ c = "NUL"
    BY <1>1, <1>2, Peeks
  <2>2. G!AddToken("EOF", N, goLine)
    BY <2>1 DEF G!ScanToken, G!Single, G!Digits, G!Letters, G!Unexpected, N
  <2>3. goCurrent = N
    BY <1>1, <2>1
  <2>4. ~Complains(Taken("EOF", N)) /\ "EOF" \notin Refused
    BY PlainComplains DEF Refused
  <2>. QED BY <1>1, <1>2, <2>2, <2>3, <2>4 DEF Takes, Taken, G!AddToken, G!Adds, G!Consume, GoAt
<1>3. ASSUME C!At(i) # C!End
      PROVE  /\ i <= N /\ i \in 1 .. N /\ i \in i .. N /\ c = C!At(i) /\ text[i] = c /\ ~(i > Len(text))
             /\ i + 1 \in Nat /\ i + 1 >= 1
  <2>1. i <= N
    BY <1>3 DEF C!At, N
  <2>2. i \in 1 .. N /\ i \in i .. N /\ ~(i > N)
    BY <1>1, <2>1
  <2>3. text[i] = C!At(i) /\ c = C!At(i)
    BY <1>1, <1>3, <2>2, Characters, Peeks
  <2>. QED BY <1>1, <2>1, <2>2, <2>3 DEF N
<1>4. ASSUME C!At(i) # C!End
      PROVE  OneLine(i, i)
  <2>1. \A k \in i .. i : k = i
    BY <1>1
  <2>2. c # "\n"
    BY <1>3, <1>4 DEF Blank
  <2>. QED BY <1>3, <1>4, <2>1, <2>2 DEF OneLine
<1>5. CASE C!At(i) \in C!Letters /\ end = C!RunEnd(i, C!Letters \cup C!Digits) /\ type = C!identifierType(i, end)
  <2> DEFINE class == C!Letters \cup C!Digits
  <2>1. C!At(i) # C!End /\ C!End \notin class /\ C!At(i) \in class
    BY <1>5 DEF C!End, C!Letters, C!Digits
  <2>2. G!Letters \cup G!Digits = class /\ \A x \in class : IsCharacter(x)
    BY LettersAndDigits
  <2> HIDE DEF class
  <2>3. end = C!RunEnd(i, class)
    BY <1>5 DEF class
  <2>4. end \in i .. N /\ \A k \in i .. end : C!At(k) \in class /\ text[k] = C!At(k)
    BY <1>3, <2>1, <2>3, RunReads
  <2>5. G!RunEnd(i, G!Letters \cup G!Digits) = end
    BY <1>1, <2>2, <2>3, RunsAgree
  <2>6. OneLine(i, end)
    BY <2>4 DEF OneLine, class, C!Letters, C!Digits
  <2>7. c \in G!Letters /\ ~(i > Len(text))
    BY <1>3, <1>5, <2>1, LettersAndDigits
  <2>8. G!AddToken(G!keyword(i, end), end, goLine)
    BY <2>5, <2>7 DEF G!ScanToken, G!Single, G!Digits, G!Letters, G!Unexpected
  <2>9. type = G!keyword(i, end) /\ type \notin Refused \cup {"NUMBER"}
    BY <1>5 DEF C!identifierType, G!keyword, Refused
  <2>. QED BY <1>3, <2>1, <2>4, <2>6, <2>8, <2>9, TakesPlain
<1>6. CASE C!At(i) \in C!Digits /\ end = C!numberEnd(i) /\ type = "NUMBER"
  <2>1. C!At(i) # C!End
    BY <1>6 DEF C!End, C!Digits
  <2>2. i \in 1 .. N /\ i <= N /\ c \in G!Digits /\ ~(i > Len(text))
    BY <1>3, <1>6, <2>1, LettersAndDigits
  <2>3. end \in i .. N /\ OneLine(i, end)
    BY <1>6, <2>2, NumberReads DEF IsPlain, OneLine
  <2>4. G!numberEnd(i) = end
    BY <1>6, <2>2, NumbersAgree
  <2>5. G!number(i)
    BY <2>2 DEF G!ScanToken, G!Single, G!Digits, G!Letters, G!Unexpected
  <2>. QED BY <1>6, <2>2, <2>3, <2>4, <2>5, TakesNumber
<1>7. CASE C!At(i) \in C!Single \cup {"{", "}"} /\ end = i /\ type = C!At(i)
  <2>1. C!At(i) # C!End
    BY <1>7 DEF C!End, C!Single
  <2>2. CASE c = "/"
    <3>1. C!At(i + 1) # "/"
      BY <1>3, <2>1, <2>2 DEF Slashes
    <3>2. G!peek(i + 1) # "/"
      BY <1>3, <2>1, <3>1, PeekIs, LettersAndDigits
    <3>3. G!AddToken("/", i, goLine)
      BY <1>3, <2>1, <2>2, <3>2 DEF G!ScanToken, G!Single, G!Digits, G!Letters, G!Unexpected
    <3>4. type = "/" /\ type \notin Refused \cup {"NUMBER"}
      BY <1>3, <1>7, <2>1, <2>2 DEF Refused
    <3>. QED BY <1>3, <1>4, <1>7, <2>1, <3>3, <3>4, TakesPlain
  <2>3. CASE c \in {"?", ":"}
    <3>1. G!Error(i, goLine)
      BY <1>3, <2>1, <2>3 DEF G!ScanToken, G!Single, G!Digits, G!Letters, G!Unexpected
    <3>2. type \in Refused
      BY <1>3, <1>7, <2>1, <2>3 DEF Refused
    <3>. QED BY <1>3, <1>4, <1>7, <2>1, <3>1, <3>2, TakesPlain
  <2>4. CASE c \notin {"/", "?", ":"}
    <3>1. c \in G!Single /\ type = c /\ type \notin Refused \cup {"NUMBER"}
      BY <1>3, <1>7, <2>1, <2>4 DEF C!Single, G!Single, Refused
    <3>2. G!AddToken(c, i, goLine)
      BY <1>3, <2>1, <3>1 DEF G!ScanToken, G!Single, G!Digits, G!Letters, G!Unexpected
    <3>. QED BY <1>3, <1>4, <1>7, <2>1, <3>1, <3>2, TakesPlain
  <2>. QED BY <2>2, <2>3, <2>4
<1>8. CASE C!At(i) = "=" /\ C!At(i + 1) # "=" /\ end = i /\ type = "="
  <2>1. C!At(i) # C!End
    BY <1>8 DEF C!End
  <2>2. G!peek(i + 1) # "=" /\ c = "=" /\ ~(i > Len(text))
    BY <1>3, <1>8, <2>1, PeekIs, LettersAndDigits
  <2>3. G!AddToken("=", i, goLine)
    BY <2>2 DEF G!ScanToken, G!Single, G!Digits, G!Letters, G!Unexpected
  <2>. QED BY <1>3, <1>4, <1>8, <2>1, <2>3, TakesPlain DEF Refused
<1>9. CASE C!At(i) = "=" /\ C!At(i + 1) = "=" /\ end = i + 1 /\ type = "=="
  <2>1. C!At(i) # C!End /\ C!At(i + 1) # C!End
    BY <1>9 DEF C!End
  <2>2. G!peek(i + 1) = "=" /\ c = "=" /\ ~(i > Len(text)) /\ i + 1 \in Nat /\ i + 1 >= 1
    BY <1>3, <1>9, <2>1, PeekIs, LettersAndDigits
  <2>3. G!AddToken("==", end, goLine)
    BY <1>9, <2>2 DEF G!ScanToken, G!Single, G!Digits, G!Letters, G!Unexpected
  <2>4. end <= N
    <3>1. ~(end <= N) => C!At(end) = C!End
      BY DEF C!At, N
    <3>. QED BY <1>9, <2>1, <3>1
  <2>5. end \in i .. N /\ end \in 1 .. N /\ \A k \in i .. end : k = i \/ k = end
    BY <1>1, <1>9, <2>4
  <2>6. text[end] = "=" /\ text[i] = "="
    BY <1>3, <1>9, <2>1, <2>5, Characters
  <2>7. OneLine(i, end)
    BY <2>5, <2>6 DEF OneLine
  <2>. QED BY <1>3, <1>9, <2>1, <2>3, <2>5, <2>7, TakesPlain DEF Refused
<1>10. CASE C!At(i) = "\"" /\ C!At(C!SegmentEnd(i + 1)) = C!End /\ end = N /\ type = "ERROR"
  <2>1. c = "\"" /\ ~(i > Len(text))
    BY <1>3, <1>10 DEF C!End
  <2>2. G!stringLiteral(i)
    BY <2>1 DEF G!ScanToken, G!Single, G!Digits, G!Letters, G!Unexpected
  <2>. QED BY <1>10, <2>2, TakesString DEF IsQuote, EndsString
<1>11. CASE C!At(i) = "\"" /\ C!At(C!SegmentEnd(i + 1)) = "\"" /\ end = C!SegmentEnd(i + 1) /\ type = "STRING"
  <2>1. c = "\"" /\ ~(i > Len(text))
    BY <1>3, <1>11 DEF C!End
  <2>2. G!stringLiteral(i)
    BY <2>1 DEF G!ScanToken, G!Single, G!Digits, G!Letters, G!Unexpected
  <2>3. "\"" # C!End
    BY DEF C!End
  <2>. QED BY <1>11, <2>2, <2>3, TakesString DEF IsQuote, EndsString
<1>12. CASE C!At(i) \in {"$", "@"} /\ end = i /\ type = "ERROR"
  <2>1. C!At(i) # C!End
    BY <1>12 DEF C!End
  <2>2. c \in {"$", "@"} /\ ~(i > Len(text))
    BY <1>3, <1>12, <2>1
  <2>3. G!Error(i, goLine)
    BY <2>2 DEF G!ScanToken, G!Single, G!Digits, G!Letters, G!Unexpected
  <2>. QED BY <1>3, <1>4, <1>12, <2>1, <2>3, TakesPlain DEF Refused
<1>. QED BY <1>2, <1>5, <1>6, <1>7, <1>8, <1>9, <1>10, <1>11, <1>12 DEF Lexeme

-----------------------------------------------------------------------------
(* How far glox has come in the tokens of clox *)

Follows(n) ==
  /\ GoAt
  /\ n \in 0 .. Len(tokens)
  /\ goTokens = Good[n] /\ goErrors = BadLines[n]
  /\ n < Len(tokens) => C!skipWhitespace(goCurrent + 1) = tokens[n + 1].start
  /\ G!Done <=> n = Len(tokens)

GoInv ==
  /\ ~C!Done => goCurrent = 0 /\ goLine = 1 /\ goTokens = <<>> /\ goErrors = <<>>
  /\ C!Done /\ NoInterpolation => \E n \in Nat : Follows(n)

Both == Inv /\ PlainInv /\ GoInv

LEMMA GoStarts == Init => GoInv
BY DEF Init, GoInv, C!Done

\* When clox has its last token, glox has not begun.
LEMMA GoBegins ==
  ASSUME Inv, Inv', PlainInv', GoInv, C!scanToken, UNCHANGED <<goCurrent, goLine, goTokens, goErrors>>
  PROVE  GoInv'
<1>1. goCurrent = 0 /\ goLine = 1 /\ goTokens = <<>> /\ goErrors = <<>>
  BY DEF GoInv, C!scanToken
<1>2. goCurrent' = 0 /\ goLine' = 1 /\ goTokens' = <<>> /\ goErrors' = <<>>
  BY <1>1
<1> SUFFICES ASSUME C!Done', NoInterpolation'
             PROVE  Follows(0)'
  BY <1>2 DEF GoInv
<1>3. UNCHANGED text
  <2>1. PICK kind, start, stop, counts : Reads(kind, start, stop, counts)
    BY Scans
  <2>. QED BY <2>1 DEF Reads
<1>4. N' = N /\ N \in Nat /\ IsText
  BY <1>3, Characters DEF N, Inv
<1>5. LinesTo(0)' = 0
  <2>1. {k \in 1 .. 0 : text[k] = "\n"} = {}
    OBVIOUS
  <2>2. LinesTo(0) = 0
    BY <2>1, FS_EmptySet DEF LinesTo
  <2>. QED BY <1>3, <2>2 DEF LinesTo
<1>6. GoAt'
  <2>1. LinesTo(goCurrent)' = LinesTo(0)'
    BY <1>2 DEF LinesTo
  <2>. QED BY <1>2, <1>4, <1>5, <2>1 DEF GoAt
<1>7. tokens' \in Seq(TokenSet) /\ tokens' # <<>>
  BY DEF Inv, C!Done
<1>8. Len(tokens') \in Nat /\ Len(tokens') # 0 /\ 1 \in 1 .. Len(tokens')
  BY <1>7
<1>9. Good'[0] = <<>> /\ BadLines'[0] = <<>>
  BY <1>3, <1>7, GoodIs, GoodNow
<1>10. ~G!Done'
  BY <1>2 DEF G!Done
<1>11. tokens'[1].start = C!skipWhitespace(1)'
  <2>1. Lexed(1)'
    BY <1>8 DEF PlainInv
  <2>. QED BY <2>1 DEF Lexed, From
<1>12. C!skipWhitespace(goCurrent + 1)' = C!skipWhitespace(1)'
  <2>1. C!skipWhitespace(goCurrent + 1)' = C!skipWhitespace(goCurrent' + 1)
    BY <1>3 DEF C!skipWhitespace, C!LineEnd, C!At, C!End, C!Blanks
  <2>2. C!skipWhitespace(1)' = C!skipWhitespace(1)
    BY <1>3, SameLexemes
  <2>. QED BY <1>2, <2>1, <2>2
<1>. QED BY <1>2, <1>6, <1>8, <1>9, <1>10, <1>11, <1>12 DEF Follows

\* The end of one token is where the next one is looked for.
LEMMA GoFollows ==
  ASSUME Inv, PlainInv, C!Done, NoInterpolation, NEW n \in Nat, Follows(n),
         G!ScanToken, UNCHANGED <<current, line, braces, tokens>>
  PROVE  Follows(n)' \/ Follows(n + 1)'
<1> DEFINE i == goCurrent + 1
<1>1. IsText /\ GoAt /\ tokens \in Seq(TokenSet)
  BY DEF Inv, Follows
<1>2. PICK l \in Nat : l = Len(tokens)
  BY <1>1
<1>3. n < l /\ n + 1 \in 1 .. l /\ n \in 0 .. l /\ (n + 1) - 1 = n /\ n + 1 \in 0 .. l
  <2>1. ~G!Done
    BY DEF G!ScanToken
  <2>2. n \in 0 .. l /\ n # l
    BY <1>2, <2>1 DEF Follows
  <2>. QED BY <1>2, <2>2
<1>4. goTokens = Good[n] /\ goErrors = BadLines[n] /\ C!skipWhitespace(i) = tokens[n + 1].start /\ ~G!Done
  BY <1>2, <1>3 DEF Follows, G!ScanToken
<1>5. UNCHANGED text
  BY DEF G!ScanToken, G!AddToken, G!Adds, G!Skip, G!Error, G!Consume, G!stringLiteral, G!number
<1>6. Good' = Good /\ BadLines' = BadLines /\ N' = N /\ l = Len(tokens')
  BY <1>2, <1>5, GoodNow DEF N
<1>7. i \in 1 .. N + 1
  BY <1>1, GoAtIs
<1>8. ASSUME NEW end \in Nat, goCurrent' = end, end \in 0 .. N, goLine' = 1 + LinesTo(end)
      PROVE  GoAt' /\ C!skipWhitespace(goCurrent + 1)' = C!skipWhitespace(end + 1)
  <2>1. LinesTo(goCurrent)' = LinesTo(end)
    BY <1>5, <1>8 DEF LinesTo
  <2>2. C!skipWhitespace(goCurrent + 1)' = C!skipWhitespace(goCurrent' + 1)
    BY <1>5 DEF C!skipWhitespace, C!LineEnd, C!At, C!End, C!Blanks
  <2>. QED BY <1>6, <1>8, <2>1, <2>2 DEF GoAt
<1>9. CASE Blank(i) \/ Slashes(i)
  <2>1. PICK end : Skips(end)
    BY <1>1, <1>9, GoSkips
  <2>2. goTokens' = goTokens /\ goErrors' = goErrors /\ goCurrent' = end /\ end \in 0 .. N /\ goLine' = 1 + LinesTo(end)
        /\ C!skipWhitespace(i) = C!skipWhitespace(end + 1) /\ N \in Nat /\ end \in Nat
    BY <1>1, <2>1, Characters DEF Skips
  <2>3. GoAt' /\ C!skipWhitespace(goCurrent + 1)' = tokens'[n + 1].start
    BY <1>4, <1>8, <2>2
  <2>4. ~G!Done'
    BY <1>4, <2>2 DEF G!Done
  <2>5. Follows(n)'
    BY <1>2, <1>3, <1>4, <1>6, <2>2, <2>3, <2>4 DEF Follows
  <2>. QED BY <2>5
<1>10. CASE ~Blank(i) /\ ~Slashes(i)
  <2> DEFINE t == tokens[n + 1]
             m == n + 1
  <2>1. Lexed(m) /\ t \in TokenSet
    BY <1>1, <1>2, <1>3 DEF PlainInv
  <2>2. C!skipWhitespace(i) = i
    BY <1>1, <1>7, <1>10, SkipIs
  <2>3. t.start = i /\ Lexeme(i, t.type, t.end) /\ t.line = 1 + LinesTo(t.end)
    BY <1>4, <2>1, <2>2 DEF Lexed
  <2>4. t.type = "EOF" <=> m = l
    BY <1>2, <2>1 DEF Lexed
  <2>5. Takes(t.type, t.end)
    BY <1>1, <1>10, <2>3, GoTakes
  <2>6. /\ goCurrent' = t.end /\ t.end \in 0 .. N /\ goLine' = 1 + LinesTo(t.end) /\ t.end \in Nat
    <3>1. \A u \in TokenSet : u.end \in Nat
      BY DEF TokenSet
    <3>. QED BY <2>1, <2>5, <3>1 DEF Takes
  <2>7. t = [type |-> t.type, start |-> t.start, end |-> t.end, line |-> t.line]
    BY <2>1 DEF TokenSet
  <2>8. /\ t.type \in Refused => goTokens' = goTokens
        /\ t.type \notin Refused => goTokens' = Append(goTokens, t)
        /\ Complains(t) => goErrors' = Append(goErrors, t.line)
        /\ ~Complains(t) => goErrors' = goErrors
    <3>1. Taken(t.type, t.end) = t
      BY <2>3, <2>7 DEF Taken
    <3>. QED BY <2>3, <2>5, <3>1 DEF Takes
  <2>9. /\ t.type \in Refused => Good[m] = Good[n]
        /\ t.type \notin Refused => Good[m] = Append(Good[n], t)
        /\ Complains(t) => BadLines[m] = Append(BadLines[n], t.line)
        /\ ~Complains(t) => BadLines[m] = BadLines[n]
        /\ Good[n] \in Seq(TokenSet)
    <3>1. m \in 1 .. Len(tokens) /\ n \in 0 .. Len(tokens) /\ m - 1 = n
      BY <1>2, <1>3
    <3> HIDE DEF m
    <3>2. /\ tokens[m].type \in Refused => Good[m] = Good[m - 1]
          /\ tokens[m].type \notin Refused => Good[m] = Append(Good[m - 1], tokens[m])
          /\ Complains(tokens[m]) => BadLines[m] = Append(BadLines[m - 1], tokens[m].line)
          /\ ~Complains(tokens[m]) => BadLines[m] = BadLines[m - 1]
          /\ Good[n] \in Seq(TokenSet)
      BY <1>1, <3>1, GoodIs, GoodNow
    <3>. QED BY <3>1, <3>2 DEF m
  <2>10. goTokens' = Good'[m] /\ goErrors' = BadLines'[m]
    BY <1>4, <1>6, <2>8, <2>9
  <2>11. G!Done' <=> m = l
    <3>1. CASE t.type \in Refused
      <4>1. goTokens' = goTokens
        BY <2>8, <3>1
      <4>2. ~G!Done'
        BY <1>4, <4>1 DEF G!Done
      <4>. QED BY <2>4, <3>1, <4>2 DEF Refused
    <3>2. CASE t.type \notin Refused
      <4> DEFINE g == Good[n]
      <4>1. g \in Seq(TokenSet) /\ goTokens' = Append(g, t)
        BY <1>4, <2>8, <2>9, <3>2
      <4> HIDE DEF g, t
      <4>2. goTokens' # <<>> /\ goTokens'[Len(goTokens')] = t
        BY <4>1
      <4>3. G!Done' <=> t.type = "EOF"
        BY <4>2 DEF G!Done
      <4>. QED BY <2>4, <4>3
    <3>. QED BY <3>1, <3>2
  <2>12. m < l => C!skipWhitespace(goCurrent + 1)' = tokens'[m + 1].start
    <3> SUFFICES ASSUME m < l
                 PROVE  C!skipWhitespace(goCurrent + 1)' = tokens'[m + 1].start
      OBVIOUS
    <3>1. m + 1 \in 1 .. Len(tokens) /\ m + 1 # 1 /\ (m + 1) - 1 = m
      BY <1>2, <1>3
    <3>2. Lexed(m + 1)
      BY <3>1 DEF PlainInv
    <3>3. From(m + 1) = t.end
      BY <3>1 DEF From
    <3>4. C!skipWhitespace(t.end + 1) = tokens[m + 1].start
      BY <3>2, <3>3 DEF Lexed
    <3>. QED BY <1>8, <2>6, <3>4
  <2>13. GoAt'
    BY <1>8, <2>6
  <2>14. Follows(n + 1)'
    BY <1>3, <1>6, <2>10, <2>11, <2>12, <2>13 DEF Follows
  <2>. QED BY <2>14
<1>. QED BY <1>9, <1>10

\* A step that leaves all of clox leaves what its tokens are.
LEMMA PlainStutters ==
  ASSUME PlainInv, UNCHANGED <<text, current, line, braces, tokens>>
  PROVE  PlainInv'
<1>1. \A n : From(n)' = From(n)
  BY DEF From
<1>2. C!Done' = C!Done /\ NoInterpolation' = NoInterpolation
  BY DEF C!Done, NoInterpolation
<1>3. \A n : Lexed(n)' = Lexed(n)
  BY <1>1, <1>2, SameLexemes DEF Lexed
<1>. QED BY <1>2, <1>3 DEF PlainInv

LEMMA BothStart == Init => Both
BY Starts, PlainStarts, GoStarts DEF Both

LEMMA BothKeep == Both /\ [Next]_vars => Both'
<1> SUFFICES ASSUME Inv, PlainInv, GoInv, [Next]_vars
             PROVE  Inv' /\ PlainInv' /\ GoInv'
  BY DEF Both
<1>1. Inv'
  BY Keeps
<1>2. CASE CloxStep
  <2>1. PlainInv'
    BY <1>2, PlainScans DEF CloxStep
  <2>. QED BY <1>1, <1>2, <2>1, GoBegins DEF CloxStep
<1>3. CASE GoStep
  <2>1. UNCHANGED text
    BY <1>3 DEF GoStep, G!ScanToken, G!AddToken, G!Adds, G!Skip, G!Error, G!Consume, G!stringLiteral, G!number
  <2>2. PlainInv'
    BY <1>3, <2>1, PlainStutters DEF GoStep
  <2>3. C!Done /\ C!Done' /\ (NoInterpolation' <=> NoInterpolation)
    BY <1>3 DEF GoStep, C!Done, NoInterpolation
  <2>4. GoInv'
    <3> SUFFICES ASSUME NoInterpolation
                 PROVE  \E n \in Nat : Follows(n)'
      BY <2>3 DEF GoInv
    <3>1. PICK n \in Nat : Follows(n)
      BY <2>3 DEF GoInv
    <3>2. Follows(n)' \/ Follows(n + 1)'
      BY <1>3, <2>3, <3>1, GoFollows DEF GoStep
    <3>. QED BY <3>2
  <2>. QED BY <1>1, <2>2, <2>4
<1>4. CASE UNCHANGED vars
  <2>1. PlainInv'
    BY <1>4, PlainStutters DEF vars
  <2>2. GoInv'
    <3>1. C!Done' = C!Done /\ NoInterpolation' = NoInterpolation /\ G!Done' = G!Done
      BY <1>4 DEF vars, C!Done, G!Done, NoInterpolation
    <3>2. \A n \in Nat : Follows(n) => Follows(n)'
      <4>1. Good' = Good /\ BadLines' = BadLines
        BY <1>4, GoodNow DEF vars
      <4>2. GoAt' = GoAt
        BY <1>4 DEF vars, GoAt, N, LinesTo
      <4>3. C!skipWhitespace(goCurrent + 1)' = C!skipWhitespace(goCurrent + 1)
        BY <1>4 DEF vars, C!skipWhitespace, C!LineEnd, C!At, C!End, C!Blanks
      <4>. QED BY <1>4, <3>1, <4>1, <4>2, <4>3 DEF vars, Follows
    <3>. QED BY <1>4, <3>1, <3>2 DEF vars, GoInv
  <2>. QED BY <1>1, <2>1, <2>2
<1>5. Finished => UNCHANGED vars
  BY DEF Finished
<1>. QED BY <1>2, <1>3, <1>4, <1>5 DEF Next

\* For every text without interpolation ScanToken (lexer/scanner/scanner.go) and
\* scanToken (clox/scanner.c) return the same tokens of the same lines, but for the
\* '?' and ':' that only clox has, and glox reports its errors on the lines of these,
\* of clox's error tokens and of the numbers that are too large, in their order.
THEOREM TheScannersAgree == Spec => []ScannersAgree
<1>1. Both => ScannersAgree
  <2> SUFFICES ASSUME Both, C!Done, G!Done, NoInterpolation
               PROVE  Good[Len(tokens)] = goTokens /\ BadLines[Len(tokens)] = goErrors
    BY DEF ScannersAgree
  <2>1. PICK n \in Nat : Follows(n)
    BY DEF Both, GoInv
  <2>. QED BY <2>1 DEF Follows
<1>. QED BY <1>1, BothStart, BothKeep, PTL DEF Spec
=============================================================================
