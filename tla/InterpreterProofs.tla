------------------------- MODULE InterpreterProofs --------------------------
(***************************************************************************)
(* Lox programs as trees, and the steps of Go's interpreter over them:     *)
(* every step of interpreter.go keeps the heap of environments, functions  *)
(* and classes, and the place it is at, as the text says they should be,   *)
(* provided the nodes of the line have the addresses the text gives them   *)
(* (GoodLine). That they have is shown of the resolver in GloxProofs, for  *)
(* every session.                                                          *)
(***************************************************************************)
EXTENDS Glox, Integers, FiniteSetTheorems, WellFoundedInduction, TLAPS

-----------------------------------------------------------------------------
(* Induction, and functions defined by recursion *)

\* A non-empty set of naturals has a least element.
LEMMA LeastElement ==
  ASSUME NEW T, T \subseteq Nat, T # {}
  PROVE  \E x \in T : \A y \in T : x <= y
<1> DEFINE R == OpToRel(<, Nat)
<1>1. IsWellFoundedOn(R, Nat)
  BY NatLessThanWellFounded
<1>2. \A x, y \in Nat : x < y => <<x, y>> \in R
  BY DEF OpToRel
<1> HIDE DEF R
<1>3. PICK x \in T : \A y \in T : ~(<<y, x>> \in R)
  BY <1>1, WFMin
<1>4. ASSUME NEW y \in T
      PROVE  x <= y
  <2>1. x \in Nat /\ y \in Nat /\ <<y, x>> \notin R
    BY <1>3
  <2>. QED
    BY <2>1, <1>2
<1>. QED
  BY <1>4

\* A set that holds 0 and the successor of each of its naturals holds them all.
LEMMA SetInduction ==
  ASSUME NEW S, 0 \in S, \A n \in Nat : n \in S => n + 1 \in S
  PROVE  Nat \subseteq S
<1> DEFINE T == {n \in Nat : n \notin S}
<1>1. ASSUME T # {}
      PROVE  FALSE
  <2>1. T \subseteq Nat
    OBVIOUS
  <2> HIDE DEF T
  <2>2. PICK x \in T : \A y \in T : x <= y
    BY <1>1, <2>1, LeastElement
  <2> USE DEF T
  <2>3. x - 1 \in Nat /\ x - 1 \notin T
    BY <2>2
  <2>. QED
    BY <2>3
<1>. QED
  BY <1>1

Steps(step, n, U) == \A i \in 1 .. n, u \in U : step[<<i, u>>] \in U
Unfolds(f, n, a, step) == f = [i \in 0 .. n |-> IF i = 0 THEN a ELSE step[<<i, f[i - 1]>>]]

\* f is defined by recursion along up, which leads from every number to a smaller one.
Climbs(f, n, a, up, step) == f = [i \in 0 .. n |-> IF i = 0 THEN a ELSE step[<<i, f[up[i]]>>]]

\* Such a function exists.
LEMMA TreeRecursion ==
  ASSUME NEW n \in Nat, NEW U, NEW a \in U, NEW step, Steps(step, n, U),
         NEW up, \A i \in 1 .. n : up[i] \in 0 .. i - 1
  PROVE  \E f : f \in [0 .. n -> U] /\ Climbs(f, n, a, up, step)
<1> DEFINE Steady(f, k) == /\ f \in [0 .. n -> U]
                         /\ f[0] = a
                         /\ \A i \in 1 .. n : i <= k => f[i] = step[<<i, f[up[i]]>>]
           S == {k \in Nat : \E f : Steady(f, k)}
<1>1. 0 \in S
  <2>1. Steady([i \in 0 .. n |-> a], 0)
    OBVIOUS
  <2>. QED BY <2>1
<1>2. ASSUME NEW k \in Nat, k \in S
      PROVE  k + 1 \in S
  <2>1. PICK f : Steady(f, k)
    BY <1>2
  <2>2. CASE k + 1 <= n
    <3> DEFINE new == step[<<k + 1, f[up[k + 1]]>>]
               g == [i \in 0 .. n |-> IF i = k + 1 THEN new ELSE f[i]]
    <3>1. k + 1 \in 1 .. n /\ up[k + 1] \in 0 .. n /\ up[k + 1] # k + 1
      BY <2>2
    <3>2. f[up[k + 1]] \in U
      BY <2>1, <3>1
    <3>3. new \in U
      BY <3>1, <3>2 DEF Steps
    <3> HIDE DEF new
    <3>4. g \in [0 .. n -> U] /\ g[0] = a
      BY <2>1, <3>3
    <3>5. \A i \in 1 .. n : i <= k => g[i] = f[i] /\ g[up[i]] = f[up[i]]
      <4> TAKE i \in 1 .. n
      <4>1. i <= k => up[i] \in 0 .. n /\ up[i] # k + 1 /\ i # k + 1
        BY <2>2
      <4>. QED BY <4>1
    <3>6. g[k + 1] = new /\ g[up[k + 1]] = f[up[k + 1]]
      BY <3>1
    <3> HIDE DEF g
    <3>7. ASSUME NEW i \in 1 .. n, i <= k + 1
          PROVE  g[i] = step[<<i, g[up[i]]>>]
      <4>1. CASE i = k + 1
        BY <3>6, <4>1 DEF new
      <4>2. CASE i # k + 1
        <5>1. i <= k
          BY <3>7, <4>2
        <5>. QED BY <2>1, <3>5, <5>1
      <4>. QED BY <4>1, <4>2
    <3>8. Steady(g, k + 1)
      BY <3>4, <3>7
    <3> HIDE DEF Steady
    <3>. QED BY <3>8
  <2>3. CASE ~ k + 1 <= n
    <3>1. Steady(f, k + 1)
      BY <2>1, <2>3
    <3> HIDE DEF Steady
    <3>. QED BY <3>1
  <2>. QED BY <2>2, <2>3
<1>3. n \in S
  <2> HIDE DEF S
  <2>. QED BY <1>1, <1>2, SetInduction
<1>4. PICK f : Steady(f, n)
  BY <1>3
<1>5. \A i \in 0 .. n : f[i] = IF i = 0 THEN a ELSE step[<<i, f[up[i]]>>]
  BY <1>4
<1>6. f = [i \in 0 .. n |-> IF i = 0 THEN a ELSE step[<<i, f[up[i]]>>]]
  <2> DEFINE h == [i \in 0 .. n |-> IF i = 0 THEN a ELSE step[<<i, f[up[i]]>>]]
  <2>1. f = [i \in 0 .. n |-> f[i]]
    BY <1>4
  <2>2. [i \in 0 .. n |-> f[i]] = h
    BY <1>5, Zenon
  <2>. QED BY <2>1, <2>2
<1>. QED BY <1>4, <1>6 DEF Climbs

\* A function defined from its previous value exists.
LEMMA Recursion ==
  ASSUME NEW n \in Nat, NEW U, NEW a \in U, NEW step, Steps(step, n, U)
  PROVE  \E f : f \in [0 .. n -> U] /\ Unfolds(f, n, a, step)
<1> DEFINE up == [i \in 1 .. n |-> i - 1]
<1>1. \A i \in 1 .. n : up[i] \in 0 .. i - 1 /\ up[i] = i - 1
  OBVIOUS
<1>. HIDE DEF up
<1>2. PICK f \in [0 .. n -> U] : Climbs(f, n, a, up, step)
  BY <1>1, TreeRecursion
<1>3. f \in [0 .. n -> U]
  BY <1>2
<1>4. \A i \in 0 .. n : f[i] = IF i = 0 THEN a ELSE step[<<i, f[i - 1]>>]
  <2>1. \A i \in 0 .. n : f[i] = IF i = 0 THEN a ELSE step[<<i, f[up[i]]>>]
    BY <1>2 DEF Climbs
  <2>2. \A i \in 0 .. n : i # 0 => i \in 1 .. n
    OBVIOUS
  <2>. QED BY <1>1, <2>1, <2>2
<1>5. f = [i \in 0 .. n |-> IF i = 0 THEN a ELSE step[<<i, f[i - 1]>>]]
  <2> DEFINE h == [i \in 0 .. n |-> IF i = 0 THEN a ELSE step[<<i, f[i - 1]>>]]
  <2>1. f = [i \in 0 .. n |-> f[i]]
    BY <1>3
  <2>2. [i \in 0 .. n |-> f[i]] = h
    BY <1>4, Zenon
  <2>. QED BY <2>1, <2>2
<1>. QED BY <1>3, <1>5 DEF Unfolds

\* What Selected selects.
LEMMA SelectedIs ==
  ASSUME NEW U, NEW s \in Seq(U), NEW at
  PROVE  /\ Selected(s, at)[0] = <<>>
         /\ \A n \in 1 .. Len(s) : Selected(s, at)[n] = IF n \in at THEN Append(Selected(s, at)[n - 1], s[n])
                                                        ELSE Selected(s, at)[n - 1]
         /\ \A n \in 0 .. Len(s) : Selected(s, at)[n] \in Seq(U)
<1> DEFINE l == Len(s)
           T == Seq(U)
           none == <<>>
           More(n, u) == IF n \in at THEN Append(u, s[n]) ELSE u
           step == [p \in (1 .. l) \X T |-> More(p[1], p[2])]
           Is(g) == g = [n \in 0 .. l |-> IF n = 0 THEN none ELSE More(n, g[n - 1])]
           f == Selected(s, at)
<1>1. l \in Nat /\ none \in T /\ \A n \in 1 .. l : s[n] \in U
  OBVIOUS
<1>2. \A n \in 1 .. l, u \in T : step[<<n, u>>] = More(n, u)
  <2> HIDE DEF l, T, More
  <2>. QED OBVIOUS
<1>3. \A n \in 1 .. l, u \in T : More(n, u) \in T
  <2> TAKE n \in 1 .. l, u \in T
  <2>1. s[n] \in U
    BY <1>1
  <2> HIDE DEF l
  <2>2. Append(u, s[n]) \in Seq(U)
    BY <2>1
  <2>. QED BY <2>2
<1>4. f = CHOOSE g : Is(g)
  BY DEF Selected
<1> HIDE DEF step, l, T, none, More, f
<1>5. PICK g : g \in [0 .. l -> T] /\ Unfolds(g, l, none, step)
  <2>1. Steps(step, l, T)
    BY <1>2, <1>3 DEF Steps
  <2>. QED BY <1>1, <2>1, Recursion
<1>6. \A n \in 0 .. l : (IF n = 0 THEN none ELSE step[<<n, g[n - 1]>>]) = (IF n = 0 THEN none ELSE More(n, g[n - 1]))
  <2> TAKE n \in 0 .. l
  <2>1. n # 0 => n \in 1 .. l /\ n - 1 \in 0 .. l
    BY <1>1
  <2>2. n # 0 => g[n - 1] \in T
    BY <1>5, <2>1
  <2>. QED BY <1>2, <2>1, <2>2
<1>7. Is(g)
  BY <1>5, <1>6, Zenon DEF Unfolds
<1>8. Is(f)
  <2> HIDE DEF Is
  <2>. QED BY <1>4, <1>7
<1>9. f[0] = none /\ \A n \in 1 .. l : f[n] = More(n, f[n - 1])
  <2> DEFINE h == [n \in 0 .. l |-> IF n = 0 THEN none ELSE More(n, f[n - 1])]
  <2>1. f = h
    BY <1>8
  <2>2. 0 \in 0 .. l /\ \A n \in 1 .. l : n \in 0 .. l /\ n # 0
    BY <1>1
  <2>3. h[0] = none /\ \A n \in 1 .. l : h[n] = More(n, f[n - 1])
    BY <2>2
  <2> HIDE DEF h
  <2>. QED BY <2>1, <2>3
<1> HIDE DEF Is
<1>10. \A n \in 0 .. l : f[n] \in T
  <2> DEFINE S == {n \in Nat : n <= l => f[n] \in T}
  <2>1. 0 \in S
    BY <1>1, <1>9
  <2>2. ASSUME NEW n \in Nat, n \in S
        PROVE  n + 1 \in S
    <3> SUFFICES ASSUME n + 1 <= l
                 PROVE  f[n + 1] \in T
      OBVIOUS
    <3>1. n + 1 \in 1 .. l /\ (n + 1) - 1 = n /\ n <= l
      BY <1>1
    <3>2. f[n] \in T /\ f[n + 1] = More(n + 1, f[n])
      BY <1>9, <2>2, <3>1
    <3>. QED BY <1>3, <3>1, <3>2
  <2> HIDE DEF S
  <2>3. Nat \subseteq S
    BY <2>1, <2>2, SetInduction
  <2>. QED BY <1>1, <2>3 DEF S
<1>. QED BY <1>9, <1>10 DEF f, l, T, none, More


LEMMA MinIs ==
  ASSUME NEW S, S \subseteq Nat, S # {}
  PROVE  Min(S) \in S /\ \A x \in S : Min(S) <= x
BY LeastElement DEF Min

LEMMA MaxIs ==
  ASSUME NEW n \in Nat, NEW S, S \subseteq 0 .. n, S # {}
  PROVE  Max(S) \in S /\ \A x \in S : x <= Max(S)
<1> DEFINE T == {d \in 0 .. n : n - d \in S}
<1>1. T \subseteq Nat
  OBVIOUS
<1>2. T # {}
  <2>1. PICK x \in S : TRUE
    OBVIOUS
  <2>2. n - x \in 0 .. n /\ n - (n - x) = x
    OBVIOUS
  <2>. QED BY <2>2
<1> HIDE DEF T
<1>3. PICK d \in T : \A e \in T : d <= e
  BY <1>1, <1>2, LeastElement
<1>4. n - d \in S /\ d \in 0 .. n
  BY <1>3 DEF T
<1>5. ASSUME NEW x \in S
      PROVE  x <= n - d
  <2>1. x \in 0 .. n
    OBVIOUS
  <2>2. n - x \in 0 .. n /\ n - (n - x) = x
    BY <2>1
  <2>3. n - x \in T
    BY <2>2 DEF T
  <2>4. d <= n - x
    BY <1>3, <2>3
  <2>. QED BY <1>4, <2>1, <2>4
<1>6. \E m \in S : \A x \in S : m >= x
  <2>1. \A x \in S : n - d >= x
    BY <1>4, <1>5
  <2>. QED BY <1>4, <2>1
<1>7. Max(S) \in S /\ \A x \in S : Max(S) >= x
  BY <1>6 DEF Max
<1>. QED BY <1>7

\* The greatest element is the one that is.
LEMMA MaxIsThe ==
  ASSUME NEW n \in Nat, NEW S, S \subseteq 0 .. n, NEW m \in S, \A x \in S : x <= m
  PROVE  Max(S) = m
<1>1. Max(S) \in S /\ m <= Max(S)
  BY MaxIs
<1>2. Max(S) <= m /\ Max(S) \in 0 .. n /\ m \in 0 .. n
  BY <1>1
<1>. QED BY <1>1, <1>2

-----------------------------------------------------------------------------
(* What is open in a text *)

OpenIn(t, n) ==
  {k \in 1 .. n : t[k].kind \in Openers /\ \A j \in 1 .. n : t[j].kind = "end" => t[j].in # k}
InnermostIn(t, n) == Max({0} \cup OpenIn(t, n))
Placed(t) == t \in Seq(NodeSet) /\ \A i \in 1 .. Len(t) : t[i].in = InnermostIn(t, i - 1)
Extends(t, u) == Len(t) <= Len(u) /\ \A i \in 1 .. Len(t) : u[i] = t[i]

LEMMA InnermostIsIn ==
  ASSUME NEW t, NEW n \in Nat
  PROVE  /\ InnermostIn(t, n) \in 0 .. n
         /\ InnermostIn(t, n) # 0 => InnermostIn(t, n) \in OpenIn(t, n)
         /\ \A k \in OpenIn(t, n) : k <= InnermostIn(t, n)
<1>1. {0} \cup OpenIn(t, n) \subseteq 0 .. n
  BY DEF OpenIn
<1>2. {0} \cup OpenIn(t, n) # {}
  OBVIOUS
<1>. QED BY <1>1, <1>2, MaxIs DEF InnermostIn

LEMMA SameOpen ==
  ASSUME NEW t, NEW u, Extends(t, u), Len(t) \in Nat, NEW n \in 0 .. Len(t)
  PROVE  InnermostIn(u, n) = InnermostIn(t, n)
<1>1. \A k \in 1 .. n : u[k] = t[k]
  BY DEF Extends
<1>2. OpenIn(u, n) = OpenIn(t, n)
  BY <1>1 DEF OpenIn
<1>. QED BY <1>2 DEF InnermostIn

IsOpener(node) == node.kind \in Openers
IsEnd(node) == node.kind = "end"

\* One more node opens something, closes what is innermost, or does neither.
LEMMA OpenNext ==
  ASSUME NEW t, Placed(t), NEW n \in Nat, n < Len(t)
  PROVE  /\ IsOpener(t[n + 1]) => OpenIn(t, n + 1) = OpenIn(t, n) \cup {n + 1}
         /\ IsEnd(t[n + 1]) => OpenIn(t, n + 1) = OpenIn(t, n) \ {t[n + 1].in}
         /\ ~IsOpener(t[n + 1]) /\ ~IsEnd(t[n + 1]) => OpenIn(t, n + 1) = OpenIn(t, n)
         /\ t[n + 1].in = InnermostIn(t, n)
<1>1. Len(t) \in Nat
  BY DEF Placed
<1>2. n + 1 \in 1 .. Len(t) /\ (n + 1) - 1 = n
  BY <1>1
<1>3. t[n + 1].in = InnermostIn(t, n)
  BY <1>2 DEF Placed
<1>4. \A j \in 1 .. n + 1 : t[j].in # n + 1
  <2> TAKE j \in 1 .. n + 1
  <2>1. j \in 1 .. Len(t) /\ j - 1 \in Nat
    BY <1>1
  <2>2. t[j].in \in 0 .. j - 1
    BY <2>1, InnermostIsIn DEF Placed
  <2>. QED BY <2>2
<1>5. \A k \in 1 .. n + 1 : k \in 1 .. n \/ k = n + 1
  OBVIOUS
<1>6. \A k \in 1 .. n : k \in 1 .. n + 1 /\ k # n + 1
  OBVIOUS
<1>7. n + 1 \in 1 .. n + 1
  OBVIOUS
<1>8. IsOpener(t[n + 1]) => ~IsEnd(t[n + 1])
  BY DEF IsOpener, IsEnd, Openers
<1>9. \A m : OpenIn(t, m) = {k \in 1 .. m : IsOpener(t[k]) /\ \A j \in 1 .. m : IsEnd(t[j]) => t[j].in # k}
  BY DEF OpenIn, IsOpener, IsEnd
<1>10. CASE IsOpener(t[n + 1])
  <2>1. OpenIn(t, n + 1) = OpenIn(t, n) \cup {n + 1}
    BY <1>4, <1>5, <1>6, <1>7, <1>8, <1>9, <1>10
  <2>. QED BY <1>3, <1>8, <1>10, <2>1
<1>11. CASE IsEnd(t[n + 1])
  <2>1. OpenIn(t, n + 1) = OpenIn(t, n) \ {t[n + 1].in}
    <3>1. ~IsOpener(t[n + 1])
      BY <1>8, <1>11
    <3>2. \A k : k \in OpenIn(t, n + 1) => k \in OpenIn(t, n) /\ k # t[n + 1].in
      BY <1>6, <1>7, <1>9, <1>11, <3>1
    <3>3. \A k : k \in OpenIn(t, n) /\ k # t[n + 1].in => k \in OpenIn(t, n + 1)
      BY <1>7, <1>9
    <3>. QED BY <3>2, <3>3
  <2>. QED BY <1>3, <1>8, <1>11, <2>1
<1>12. CASE ~IsOpener(t[n + 1]) /\ ~IsEnd(t[n + 1])
  <2>1. OpenIn(t, n + 1) = OpenIn(t, n)
    BY <1>5, <1>6, <1>7, <1>9, <1>12
  <2>. QED BY <1>3, <1>12, <2>1
<1>. QED BY <1>10, <1>11, <1>12

\* What was open before an open node still is.
Below(t, n, u) == {k \in OpenIn(t, n) : k < u}
LEMMA Nested ==
  ASSUME NEW t, Placed(t), NEW n \in Nat, n <= Len(t)
  PROVE  \A u \in OpenIn(t, n) : Below(t, n, u) = OpenIn(t, u - 1)
<1>1. Len(t) \in Nat
  BY DEF Placed
<1> DEFINE S == {m \in Nat : m <= Len(t) => \A u \in OpenIn(t, m) : Below(t, m, u) = OpenIn(t, u - 1)}
<1>2. 0 \in S
  BY DEF OpenIn
<1>3. ASSUME NEW m \in Nat, m \in S
      PROVE  m + 1 \in S
  <2> SUFFICES ASSUME m + 1 <= Len(t), NEW u \in OpenIn(t, m + 1)
               PROVE  Below(t, m + 1, u) = OpenIn(t, u - 1)
    OBVIOUS
  <2>1. m <= Len(t) /\ m < Len(t)
    BY <1>1
  <2>2. \A v \in OpenIn(t, m) : Below(t, m, v) = OpenIn(t, v - 1)
    BY <1>3, <2>1
  <2>3. \A k \in OpenIn(t, m) : k \in 1 .. m
    BY DEF OpenIn
  <2>4. CASE IsOpener(t[m + 1])
    <3>1. OpenIn(t, m + 1) = OpenIn(t, m) \cup {m + 1}
      BY <2>1, <2>4, OpenNext
    <3>2. CASE u = m + 1
      <4>1. \A k \in OpenIn(t, m) : k < m + 1
        BY <2>3
      <4>2. ~(m + 1 < m + 1) /\ (m + 1) - 1 = m
        OBVIOUS
      <4>. QED BY <3>1, <3>2, <4>1, <4>2 DEF Below
    <3>3. CASE u # m + 1
      <4>1. u \in OpenIn(t, m) /\ ~(m + 1 < u)
        BY <2>3, <3>1, <3>3
      <4>. QED BY <2>2, <3>1, <4>1 DEF Below
    <3>. QED BY <3>2, <3>3
  <2>5. CASE IsEnd(t[m + 1])
    <3>1. OpenIn(t, m + 1) = OpenIn(t, m) \ {t[m + 1].in} /\ t[m + 1].in = InnermostIn(t, m)
      BY <2>1, <2>5, OpenNext
    <3>2. u \in OpenIn(t, m) /\ u # t[m + 1].in
      BY <3>1
    <3>3. u <= t[m + 1].in /\ u \in 1 .. m /\ t[m + 1].in \in 0 .. m
      BY <2>3, <3>1, <3>2, InnermostIsIn
    <3>4. ~(t[m + 1].in < u)
      BY <3>3
    <3>. QED BY <2>2, <3>1, <3>2, <3>4 DEF Below
  <2>6. CASE ~IsOpener(t[m + 1]) /\ ~IsEnd(t[m + 1])
    <3>1. OpenIn(t, m + 1) = OpenIn(t, m)
      BY <2>1, <2>6, OpenNext
    <3>. QED BY <2>2, <3>1 DEF Below
  <2>. QED BY <2>4, <2>5, <2>6
<1> HIDE DEF S
<1>4. n \in S
  BY <1>2, <1>3, SetInduction
<1>. QED BY <1>4 DEF S

LEMMA InnermostNext ==
  ASSUME NEW t, Placed(t), NEW n \in Nat, n < Len(t)
  PROVE  /\ IsOpener(t[n + 1]) => InnermostIn(t, n + 1) = n + 1
         /\ IsEnd(t[n + 1]) /\ t[n + 1].in # 0 => InnermostIn(t, n + 1) = t[t[n + 1].in].in
         /\ ~IsOpener(t[n + 1]) /\ ~IsEnd(t[n + 1]) => InnermostIn(t, n + 1) = InnermostIn(t, n)
<1>1. Len(t) \in Nat
  BY DEF Placed
<1>2. CASE IsOpener(t[n + 1])
  <2>1. OpenIn(t, n + 1) = OpenIn(t, n) \cup {n + 1}
    BY <1>2, OpenNext
  <2> DEFINE S == {0} \cup OpenIn(t, n + 1)
  <2>2. n + 1 \in Nat /\ S \subseteq 0 .. n + 1
    BY DEF OpenIn
  <2>3. n + 1 \in S /\ \A k \in S : k <= n + 1
    BY <2>1, <2>2
  <2> HIDE DEF S
  <2>4. Max(S) = n + 1
    BY <2>2, <2>3, MaxIsThe
  <2>5. ~IsEnd(t[n + 1])
    BY <1>2 DEF IsOpener, IsEnd, Openers
  <2>. QED BY <1>2, <2>4, <2>5 DEF InnermostIn, S
<1>3. CASE IsEnd(t[n + 1]) /\ t[n + 1].in # 0
  <2> DEFINE u == t[n + 1].in
  <2>1. OpenIn(t, n + 1) = OpenIn(t, n) \ {u} /\ u = InnermostIn(t, n)
    BY <1>3, OpenNext
  <2>2. u \in OpenIn(t, n) /\ u \in 0 .. n /\ \A k \in OpenIn(t, n) : k <= u
    BY <1>3, <2>1, InnermostIsIn
  <2>3. \A k \in OpenIn(t, n) : k \in 1 .. n
    BY DEF OpenIn
  <2>4. OpenIn(t, n) \ {u} = Below(t, n, u)
    <3>1. \A k \in OpenIn(t, n) : k # u <=> k < u
      BY <2>2, <2>3
    <3>. QED BY <3>1 DEF Below
  <2>5. Below(t, n, u) = OpenIn(t, u - 1)
    BY <1>1, <2>2, Nested
  <2>6. u \in 1 .. Len(t)
    BY <1>1, <2>2, <2>3
  <2>7. t[u].in = InnermostIn(t, u - 1)
    BY <2>6 DEF Placed
  <2>8. InnermostIn(t, n + 1) = InnermostIn(t, u - 1)
    BY <2>1, <2>4, <2>5 DEF InnermostIn
  <2>9. ~IsOpener(t[n + 1])
    BY <1>3 DEF IsOpener, IsEnd, Openers
  <2>. QED BY <1>3, <2>7, <2>8, <2>9
<1>4. CASE ~IsOpener(t[n + 1]) /\ ~IsEnd(t[n + 1])
  <2>1. OpenIn(t, n + 1) = OpenIn(t, n)
    BY <1>4, OpenNext
  <2>. QED BY <1>4, <2>1 DEF InnermostIn
<1>5. IsOpener(t[n + 1]) => ~IsEnd(t[n + 1])
  BY DEF IsOpener, IsEnd, Openers
<1>. QED BY <1>2, <1>3, <1>4, <1>5

-----------------------------------------------------------------------------
(* The scopes around a node *)

ScopeSet == Nat \X {"block", "this", "super"}
Outer(i) == IF program[i].in = 0 THEN <<>> ELSE ScopesOf(program[i].in) \o ScopesAround(program[i].in)

LEMMA InIsBefore ==
  ASSUME Placed(program), NEW i \in Nodes
  PROVE  /\ program[i].in \in 0 .. i - 1 /\ i \in Nat /\ Len(program) \in Nat
         /\ program[i].in # 0 => program[i].in \in Nodes /\ IsOpener(program[program[i].in])
<1>1. Len(program) \in Nat /\ i - 1 \in Nat /\ i \in Nat
  BY DEF Placed, Nodes
<1>2. program[i].in = InnermostIn(program, i - 1)
  BY DEF Placed, Nodes
<1>3. program[i].in \in 0 .. i - 1 /\ (program[i].in # 0 => program[i].in \in OpenIn(program, i - 1))
  BY <1>1, <1>2, InnermostIsIn
<1>. QED BY <1>1, <1>3 DEF OpenIn, Nodes, IsOpener

LEMMA Concatenated ==
  ASSUME NEW S, NEW u \in Seq(S), NEW v \in Seq(S)
  PROVE  /\ u \o v \in Seq(S) /\ Len(u \o v) = Len(u) + Len(v)
         /\ \A n \in 1 .. Len(u) : (u \o v)[n] = u[n]
         /\ \A n \in 1 .. Len(v) : (u \o v)[Len(u) + n] = v[n]
OBVIOUS

LEMMA Two ==
  ASSUME NEW a, NEW b
  PROVE  <<a>> \o <<b>> = <<a, b>>
<1> DEFINE u == <<a>>
           v == <<b>>
           S == {a, b}
<1>1. u \in Seq(S) /\ v \in Seq(S)
  OBVIOUS
<1>2. Len(u) = 1 /\ Len(v) = 1 /\ u[1] = a /\ v[1] = b
  OBVIOUS
<1> HIDE DEF u, v, S
<1> DEFINE w == u \o v
<1>3. w \in Seq(S) /\ Len(w) = 2 /\ w[1] = a /\ w[2] = b
  <2>1. w \in Seq(S) /\ Len(w) = Len(u) + Len(v) /\ \A n \in 1 .. Len(u) : w[n] = u[n]
    BY <1>1, Concatenated
  <2>2. \A n \in 1 .. Len(v) : w[Len(u) + n] = v[n]
    BY <1>1, Concatenated
  <2> HIDE DEF w
  <2>. QED BY <1>2, <2>1, <2>2
<1> HIDE DEF w
<1>4. w = <<w[1], w[2]>>
  BY <1>3
<1>. QED BY <1>3, <1>4 DEF u, v, w

LEMMA ScopesOfAre ==
  ASSUME NEW i \in Nat
  PROVE  /\ ScopesOf(i) \in Seq(ScopeSet) /\ Len(ScopesOf(i)) \in {1, 2}
         /\ \A n \in 1 .. Len(ScopesOf(i)) : ScopesOf(i)[n][1] = i
         /\ program[i].kind # "body" => ScopesOf(i) = <<<<i, "block">>>>
         /\ program[i].kind = "body" /\ ~IsSubclass(i) => ScopesOf(i) = <<<<i, "this">>>>
         /\ program[i].kind = "body" /\ IsSubclass(i) => ScopesOf(i) = <<<<i, "this">>, <<i, "super">>>>
<1>1. <<i, "block">> \in ScopeSet /\ <<i, "this">> \in ScopeSet /\ <<i, "super">> \in ScopeSet
  <2>1. \A word \in {"block", "this", "super"} : <<i, word>> \in ScopeSet
    BY DEF ScopeSet
  <2>. QED BY <2>1
<1>2. CASE program[i].kind # "body"
  BY <1>1, <1>2 DEF ScopesOf
<1>3. CASE program[i].kind = "body" /\ ~IsSubclass(i)
  <2>1. ScopesOf(i) = <<<<i, "this">>>> \o <<>>
    BY <1>3 DEF ScopesOf
  <2>2. ScopesOf(i) = <<<<i, "this">>>>
    BY <2>1
  <2>. QED BY <1>1, <1>3, <2>2
<1>4. CASE program[i].kind = "body" /\ IsSubclass(i)
  <2>1. ScopesOf(i) = <<<<i, "this">>>> \o <<<<i, "super">>>>
    BY <1>4 DEF ScopesOf
  <2>2. ScopesOf(i) = <<<<i, "this">>, <<i, "super">>>>
    BY <2>1, Two
  <2>. QED BY <1>1, <1>4, <2>2
<1>. QED BY <1>2, <1>3, <1>4

LEMMA AroundIs ==
  ASSUME Placed(program)
  PROVE  \A i \in Nodes : ScopesAround(i) \in Seq(ScopeSet) /\ ScopesAround(i) = Outer(i)
<1> DEFINE l == Len(program)
           T == Seq(ScopeSet)
           none == <<>>
           in == [j \in 1 .. l |-> program[j].in]
           More(j, u) == IF in[j] = 0 THEN none ELSE ScopesOf(in[j]) \o u
           step == [p \in (1 .. l) \X T |-> More(p[1], p[2])]
           Is(g) == g = [j \in 0 .. l |-> IF j = 0 \/ program[j].in = 0 THEN none
                                         ELSE ScopesOf(program[j].in) \o g[program[j].in]]
           f == CHOOSE g : Is(g)
<1>1. l \in Nat /\ none \in T /\ Nodes = 1 .. l
  BY DEF Placed, Nodes
<1>2. \A j \in 1 .. l : in[j] = program[j].in /\ in[j] \in 0 .. j - 1 /\ in[j] \in 0 .. l
  BY <1>1, InIsBefore
<1>3. \A j \in 1 .. l, u \in T : step[<<j, u>>] = More(j, u)
  <2> HIDE DEF l, T, More
  <2>. QED OBVIOUS
<1>4. \A j \in 1 .. l, u \in T : More(j, u) \in T
  <2> TAKE j \in 1 .. l, u \in T
  <2>1. in[j] \in Nat
    BY <1>1, <1>2
  <2> DEFINE s == ScopesOf(in[j])
  <2>2. s \in T
    BY <2>1, ScopesOfAre
  <2> HIDE DEF s
  <2>3. s \o u \in T
    BY <2>2
  <2>. QED BY <1>1, <2>3 DEF s
<1>5. \A i \in Nodes : ScopesAround(i) = f[i]
  BY DEF ScopesAround
<1> HIDE DEF step, l, T, none, in, f
<1>6. PICK g : g \in [0 .. l -> T] /\ Climbs(g, l, none, in, step)
  <2>1. Steps(step, l, T)
    BY <1>3, <1>4 DEF Steps
  <2>. QED BY <1>1, <1>2, <2>1, TreeRecursion
<1>7. \A j \in 0 .. l : (IF j = 0 THEN none ELSE step[<<j, g[in[j]]>>])
                        = (IF j = 0 \/ program[j].in = 0 THEN none
                           ELSE ScopesOf(program[j].in) \o g[program[j].in])
  <2> TAKE j \in 0 .. l
  <2>1. j # 0 => j \in 1 .. l /\ in[j] \in 0 .. l /\ in[j] = program[j].in
    BY <1>1, <1>2
  <2>2. j # 0 => step[<<j, g[in[j]]>>] = More(j, g[in[j]])
    BY <1>3, <1>6, <2>1
  <2>. QED BY <2>1, <2>2
<1>8. Is(g)
  BY <1>6, <1>7, Zenon DEF Climbs
<1>9. Is(f)
  <2> HIDE DEF Is
  <2>. QED BY <1>8 DEF f
<1>10. \A j \in 1 .. l : f[j] = More(j, f[in[j]])
  <2> DEFINE h == [j \in 0 .. l |-> IF j = 0 \/ program[j].in = 0 THEN none
                                   ELSE ScopesOf(program[j].in) \o f[program[j].in]]
  <2>1. f = h
    BY <1>9
  <2>2. \A j \in 1 .. l : j \in 0 .. l /\ j # 0
    BY <1>1
  <2>3. \A j \in 1 .. l : h[j] = More(j, f[in[j]])
    BY <1>2, <2>2
  <2> HIDE DEF h
  <2>. QED BY <2>1, <2>3
<1> HIDE DEF Is, More
<1> DEFINE S == {n \in Nat : \A j \in 1 .. l : j <= n => f[j] \in T}
<1>11. 0 \in S
  BY <1>1
<1>12. ASSUME NEW n \in Nat, n \in S
       PROVE  n + 1 \in S
  <2> SUFFICES ASSUME NEW j \in 1 .. l, j <= n + 1
               PROVE  f[j] \in T
    OBVIOUS
  <2>1. in[j] \in 0 .. j - 1 /\ f[j] = More(j, f[in[j]])
    BY <1>2, <1>10
  <2>2. CASE in[j] = 0
    <3>1. More(j, f[in[j]]) = none
      BY <2>2 DEF More
    <3>. QED BY <1>1, <2>1, <3>1
  <2>3. CASE in[j] # 0
    <3>1. in[j] \in 1 .. l /\ in[j] <= n
      BY <1>1, <2>1, <2>3
    <3>2. f[in[j]] \in T
      BY <1>12, <3>1
    <3>. QED BY <1>4, <2>1, <3>2
  <2>. QED BY <2>2, <2>3
<1> HIDE DEF S
<1>13. \A j \in 1 .. l : f[j] \in T
  <2>1. l \in S
    BY <1>1, <1>11, <1>12, SetInduction
  <2>. QED BY <1>1, <2>1 DEF S
<1>14. \A i \in Nodes : Outer(i) = f[i]
  <2> TAKE i \in Nodes
  <2>1. i \in 1 .. l /\ f[i] = More(i, f[in[i]]) /\ in[i] = program[i].in
    BY <1>1, <1>2, <1>10
  <2>2. program[i].in # 0 => ScopesAround(program[i].in) = f[program[i].in]
    BY <1>5, InIsBefore
  <2>. QED BY <2>1, <2>2 DEF Outer, More, none
<1>. QED BY <1>1, <1>5, <1>13, <1>14 DEF T

\* The scopes open after n nodes.
AroundAfter(n) ==
  LET u == InnermostIn(program, n) IN IF u = 0 THEN <<>> ELSE ScopesOf(u) \o ScopesAround(u)

LEMMA AroundAfterIs ==
  ASSUME Placed(program)
  PROVE  /\ \A n \in Nat : n <= Len(program) => AroundAfter(n) \in Seq(ScopeSet)
         /\ \A i \in Nodes : Outer(i) = AroundAfter(i - 1) /\ ScopesAround(i) = AroundAfter(i - 1)
<1>1. Len(program) \in Nat /\ Nodes = 1 .. Len(program)
  BY DEF Placed, Nodes
<1>2. ASSUME NEW n \in Nat, n <= Len(program)
      PROVE  AroundAfter(n) \in Seq(ScopeSet)
  <2> DEFINE u == InnermostIn(program, n)
  <2>1. u \in 0 .. n
    BY InnermostIsIn
  <2> HIDE DEF u
  <2>2. CASE u = 0
    <3>1. AroundAfter(n) = <<>>
      BY <2>2 DEF AroundAfter, u
    <3>. QED BY <3>1
  <2>3. CASE u # 0
    <3>1. u \in Nodes /\ u \in Nat
      BY <1>1, <1>2, <2>1, <2>3
    <3>2. ScopesOf(u) \in Seq(ScopeSet) /\ ScopesAround(u) \in Seq(ScopeSet)
      BY <3>1, ScopesOfAre, AroundIs
    <3>3. ScopesOf(u) \o ScopesAround(u) \in Seq(ScopeSet)
      BY <3>2, Concatenated
    <3>. QED BY <2>3, <3>3 DEF AroundAfter, u
  <2>. QED BY <2>2, <2>3
<1>3. ASSUME NEW i \in Nodes
      PROVE  Outer(i) = AroundAfter(i - 1) /\ ScopesAround(i) = AroundAfter(i - 1)
  <2>1. program[i].in = InnermostIn(program, i - 1)
    BY <1>1 DEF Placed
  <2>2. Outer(i) = AroundAfter(i - 1)
    BY <2>1 DEF Outer, AroundAfter
  <2>. QED BY <2>2, AroundIs
<1>. QED BY <1>2, <1>3

\* Every open scope is that of an open node.
LEMMA ScopesAreOpen ==
  ASSUME Placed(program)
  PROVE  \A n \in Nat : n <= Len(program) =>
           \A k \in 1 .. Len(AroundAfter(n)) : AroundAfter(n)[k][1] \in Nodes /\ AroundAfter(n)[k][1] <= n
<1>1. Len(program) \in Nat /\ Nodes = 1 .. Len(program)
  BY DEF Placed, Nodes
<1> DEFINE Old(n) == \A k \in 1 .. Len(AroundAfter(n)) : AroundAfter(n)[k][1] \in Nodes /\ AroundAfter(n)[k][1] <= n
           S == {n \in Nat : \A m \in 0 .. n : m <= Len(program) => Old(m)}
<1>2. ASSUME NEW n \in Nat, \A m \in Nat : m < n /\ m <= Len(program) => Old(m), n <= Len(program)
      PROVE  Old(n)
  <2> DEFINE u == InnermostIn(program, n)
             s == ScopesOf(u)
             a == ScopesAround(u)
  <2>1. u \in 0 .. n
    BY InnermostIsIn
  <2> HIDE DEF u, Old
  <2>2. CASE u = 0
    <3>1. AroundAfter(n) = <<>>
      BY <2>2 DEF AroundAfter, u
    <3>. QED BY <3>1 DEF Old
  <2>3. CASE u # 0
    <3>1. u \in Nodes /\ u \in Nat /\ u - 1 \in Nat /\ u - 1 < n /\ u - 1 <= Len(program)
      BY <1>1, <1>2, <2>1, <2>3
    <3>2. AroundAfter(n) = s \o a
      BY <2>3 DEF AroundAfter, u
    <3>3. s \in Seq(ScopeSet) /\ a \in Seq(ScopeSet) /\ \A k \in 1 .. Len(s) : s[k][1] = u
      BY <3>1, ScopesOfAre, AroundIs
    <3>4. \A k \in 1 .. Len(a) : a[k][1] \in Nodes /\ a[k][1] <= u - 1
      <4>1. Old(u - 1)
        BY <1>2, <3>1
      <4>2. a = AroundAfter(u - 1)
        BY <3>1, AroundAfterIs
      <4>. QED BY <4>1, <4>2 DEF Old
    <3> HIDE DEF s, a
    <3> DEFINE w == s \o a
    <3>5. Len(w) = Len(s) + Len(a) /\ Len(s) \in Nat /\ Len(a) \in Nat /\ \A k \in 1 .. Len(s) : w[k] = s[k]
      BY <3>3, Concatenated
    <3>6. \A k \in 1 .. Len(a) : w[Len(s) + k] = a[k]
      BY <3>3, Concatenated
    <3> HIDE DEF w
    <3>7. ASSUME NEW k \in 1 .. Len(w)
          PROVE  w[k][1] \in Nodes /\ w[k][1] <= n
      <4>1. CASE k <= Len(s)
        <5>1. w[k][1] = u
          BY <3>3, <3>5, <4>1
        <5>. QED BY <2>1, <3>1, <5>1
      <4>2. CASE ~(k <= Len(s))
        <5> DEFINE h == k - Len(s)
        <5>1. h \in 1 .. Len(a) /\ Len(s) + h = k
          BY <3>5, <4>2
        <5> HIDE DEF h
        <5>2. w[k][1] = a[h][1]
          BY <3>6, <5>1
        <5>3. a[h][1] \in Nodes /\ a[h][1] <= u - 1
          BY <3>4, <5>1
        <5>4. a[h][1] \in Nat
          BY <1>1, <5>3
        <5>. QED BY <2>1, <5>2, <5>3, <5>4
      <4>. QED BY <4>1, <4>2
    <3>. QED BY <3>2, <3>7 DEF w, Old
  <2>. QED BY <2>2, <2>3
<1> HIDE DEF Old
<1>3. 0 \in S
  <2>1. 0 <= Len(program) => Old(0)
    BY <1>2
  <2>. QED BY <2>1
<1>4. ASSUME NEW n \in Nat, n \in S
      PROVE  n + 1 \in S
  <2>1. \A m \in Nat : m < n + 1 /\ m <= Len(program) => Old(m)
    BY <1>4
  <2>2. n + 1 <= Len(program) => Old(n + 1)
    BY <1>2, <2>1
  <2>3. \A m \in 0 .. n + 1 : m \in 0 .. n \/ m = n + 1
    OBVIOUS
  <2>. QED BY <1>4, <2>2, <2>3
<1> HIDE DEF S
<1>5. Nat \subseteq S
  BY <1>3, <1>4, SetInduction
<1>. QED BY <1>5 DEF S, Old

-----------------------------------------------------------------------------
(* The declarations of a scope *)

DeclarationSet == [name : STRING, node : Nat]
IsDeclaration(j) == program[j].kind \in {"var", "fun", "class"}
DeclaredIn(i) == {j \in Nodes : program[j].in = i /\ program[j].kind \in {"var", "fun", "class"}}

Ascending(s) == \A m, k \in 1 .. Len(s) : m < k => s[m] < s[k]
OnlyFrom(s, at, n) == \A m \in 1 .. Len(s) : s[m] \in 1 .. n /\ s[m] \in at
AllFrom(s, at, n) == \A j \in 1 .. n : j \in at => \E m \in 1 .. Len(s) : s[m] = j

LEMMA SelectedIndices ==
  ASSUME NEW l \in Nat, NEW at
  PROVE  LET s == Selected([j \in 1 .. l |-> j], at)[l]
         IN s \in Seq(Nat) /\ Ascending(s) /\ OnlyFrom(s, at, l) /\ AllFrom(s, at, l)
<1> DEFINE all == [j \in 1 .. l |-> j]
           f == Selected(all, at)
           Fit(n) == f[n] \in Seq(Nat) /\ Ascending(f[n]) /\ OnlyFrom(f[n], at, n) /\ AllFrom(f[n], at, n)
           S == {n \in Nat : n <= l => Fit(n)}
<1>1. all \in Seq(Nat) /\ Len(all) = l /\ \A j \in 1 .. l : all[j] = j
  OBVIOUS
<1> HIDE DEF all
<1>2. /\ f[0] = <<>>
      /\ \A n \in 1 .. l : f[n] = IF n \in at THEN Append(f[n - 1], all[n]) ELSE f[n - 1]
      /\ \A n \in 0 .. l : f[n] \in Seq(Nat)
  BY <1>1, SelectedIs
<1> HIDE DEF f
<1>3. 0 \in S
  BY <1>2 DEF Ascending, OnlyFrom, AllFrom
<1>4. ASSUME NEW n \in Nat, n \in S
      PROVE  n + 1 \in S
  <2> SUFFICES ASSUME n + 1 <= l
               PROVE  Fit(n + 1)
    OBVIOUS
  <2> DEFINE s == f[n]
             t == f[n + 1]
  <2>1. n + 1 \in 1 .. l /\ (n + 1) - 1 = n /\ n <= l /\ n \in 0 .. l
    OBVIOUS
  <2>2. s \in Seq(Nat) /\ Ascending(s) /\ OnlyFrom(s, at, n) /\ AllFrom(s, at, n)
    BY <1>4, <2>1
  <2>3. t = IF n + 1 \in at THEN Append(s, n + 1) ELSE s
    BY <1>1, <1>2, <2>1
  <2> HIDE DEF s, t
  <2>4. Len(s) \in Nat /\ \A j \in 1 .. n + 1 : j \in 1 .. n \/ j = n + 1
    BY <2>2
  <2>5. CASE n + 1 \in at
    <3>1. t = Append(s, n + 1)
      BY <2>3, <2>5
    <3>2. t \in Seq(Nat) /\ Len(t) = Len(s) + 1 /\ t[Len(s) + 1] = n + 1 /\ \A m \in 1 .. Len(s) : t[m] = s[m]
      BY <2>2, <3>1
    <3>3. \A m \in 1 .. Len(t) : m \in 1 .. Len(s) \/ m = Len(s) + 1
      BY <2>4, <3>2
    <3>4. OnlyFrom(t, at, n + 1)
      <4>1. \A m \in 1 .. Len(s) : s[m] \in 1 .. n + 1 /\ s[m] \in at
        BY <2>2 DEF OnlyFrom
      <4>2. \A m \in 1 .. Len(t) : t[m] \in 1 .. n + 1 /\ t[m] \in at
        BY <2>5, <3>2, <3>3, <4>1
      <4>. QED BY <4>2 DEF OnlyFrom
    <3>5. AllFrom(t, at, n + 1)
      <4>1. \A m \in 1 .. Len(s) : m \in 1 .. Len(t)
        BY <2>4, <3>2
      <4>2. Len(s) + 1 \in 1 .. Len(t)
        BY <2>4, <3>2
      <4>. QED BY <2>2, <2>4, <3>2, <4>1, <4>2 DEF AllFrom
    <3>6. Ascending(t)
      <4>1. \A m, k \in 1 .. Len(t) : m < k => m \in 1 .. Len(s)
        BY <2>4, <3>2
      <4>2. \A m \in 1 .. Len(s) : s[m] < n + 1
        BY <2>2 DEF OnlyFrom
      <4>. QED BY <2>2, <3>2, <3>3, <4>1, <4>2 DEF Ascending
    <3>. QED BY <3>2, <3>4, <3>5, <3>6 DEF t
  <2>6. CASE n + 1 \notin at
    <3>1. t = s
      BY <2>3, <2>6
    <3>2. OnlyFrom(s, at, n + 1)
      BY <2>2 DEF OnlyFrom
    <3>3. AllFrom(s, at, n + 1)
      BY <2>2, <2>4, <2>6 DEF AllFrom
    <3>. QED BY <2>2, <3>1, <3>2, <3>3 DEF t
  <2>. QED BY <2>5, <2>6
<1> HIDE DEF S
<1>5. l \in S
  BY <1>3, <1>4, SetInduction
<1>6. Fit(l)
  BY <1>5 DEF S
<1>. QED BY <1>6 DEF f, all

\* A declaration of name at node j.
Declares(d, name, j) == d.name = name /\ d.node = j
Param(i, m) == program[i].params[m]
Params(i) == Len(program[i].params)

LEMMA DeclarationsAre ==
  ASSUME Placed(program), NEW i \in Nodes, NEW d, d = Declarations(<<i, "block">>), NEW p, p = Params(i)
  PROVE  /\ d \in Seq(DeclarationSet) /\ p \in Nat /\ p <= Len(d)
         /\ \A m \in 1 .. p : Declares(d[m], Param(i, m), i)
         /\ \A m \in p + 1 .. Len(d) : d[m].node \in DeclaredIn(i) /\ Declares(d[m], program[d[m].node].name, d[m].node)
         /\ \A m, k \in p + 1 .. Len(d) : m < k => d[m].node < d[k].node
         /\ \A j \in DeclaredIn(i) : \E m \in p + 1 .. Len(d) : d[m].node = j
<1> DEFINE params == program[i].params
           inside == Selected([j \in Nodes |-> j], DeclaredIn(i))[Len(program)]
           u == [n \in DOMAIN params |-> [name |-> params[n], node |-> i]]
           v == [n \in DOMAIN inside |-> [name |-> program[inside[n]].name, node |-> inside[n]]]
<1>1. Len(program) \in Nat /\ Nodes = 1 .. Len(program) /\ i \in Nat
  BY DEF Placed, Nodes
<1>2. program[i] \in NodeSet /\ \A j \in Nodes : program[j] \in NodeSet
  BY <1>1 DEF Placed
<1>3. params \in Seq(STRING) /\ \A j \in Nodes : program[j].name \in STRING
  BY <1>2 DEF NodeSet
<1>4. /\ inside \in Seq(Nat) /\ Ascending(inside) /\ OnlyFrom(inside, DeclaredIn(i), Len(program))
      /\ AllFrom(inside, DeclaredIn(i), Len(program))
  BY <1>1, SelectedIndices
<1>5. d = u \o v
  <2>1. <<i, "block">>[1] = i /\ <<i, "block">>[2] = "block"
    OBVIOUS
  <2>. QED BY <2>1 DEF Declarations, DeclaredIn
<1> HIDE DEF params, inside
<1>6. \A m \in 1 .. Len(inside) : inside[m] \in DeclaredIn(i) /\ inside[m] \in Nodes /\ inside[m] \in Nat
  BY <1>1, <1>4 DEF OnlyFrom
<1>7. u \in Seq(DeclarationSet) /\ Len(u) = Len(params) /\ \A m \in 1 .. Len(params) : Declares(u[m], params[m], i)
  <2>1. DOMAIN params = 1 .. Len(params) /\ Len(params) \in Nat
    BY <1>3
  <2>2. \A m \in 1 .. Len(params) : [name |-> params[m], node |-> i] \in DeclarationSet
    <3>1. \A m \in 1 .. Len(params) : params[m] \in STRING
      BY <1>3
    <3>. QED BY <1>1, <3>1 DEF DeclarationSet
  <2>3. \A m \in 1 .. Len(params) : Declares([name |-> params[m], node |-> i], params[m], i)
    BY DEF Declares
  <2>. QED BY <2>1, <2>2, <2>3
<1>8. /\ v \in Seq(DeclarationSet) /\ Len(v) = Len(inside)
      /\ \A m \in 1 .. Len(inside) : Declares(v[m], program[inside[m]].name, inside[m])
  <2>1. DOMAIN inside = 1 .. Len(inside) /\ Len(inside) \in Nat
    BY <1>4
  <2>2. \A m \in 1 .. Len(inside) : [name |-> program[inside[m]].name, node |-> inside[m]] \in DeclarationSet
    <3>1. \A m \in 1 .. Len(inside) : program[inside[m]].name \in STRING
      BY <1>3, <1>6
    <3>. QED BY <1>6, <3>1 DEF DeclarationSet
  <2>3. \A m \in 1 .. Len(inside) :
          Declares([name |-> program[inside[m]].name, node |-> inside[m]], program[inside[m]].name, inside[m])
    BY DEF Declares
  <2>. QED BY <2>1, <2>2, <2>3
<1> HIDE DEF u, v
<1>9. p = Len(params) /\ Len(params) \in Nat /\ Len(inside) \in Nat /\ \A m \in 1 .. p : params[m] = Param(i, m)
  BY <1>3, <1>4 DEF Params, Param, params
<1>10. d \in Seq(DeclarationSet) /\ Len(d) = p + Len(inside) /\ \A m \in 1 .. p : d[m] = u[m]
  <2>1. /\ u \o v \in Seq(DeclarationSet) /\ Len(u \o v) = Len(u) + Len(v)
        /\ \A m \in 1 .. Len(u) : (u \o v)[m] = u[m]
    BY <1>7, <1>8, Concatenated
  <2>. QED BY <1>5, <1>7, <1>8, <1>9, <2>1
<1>11. \A m \in 1 .. Len(inside) : d[p + m] = v[m]
  <2>1. \A m \in 1 .. Len(v) : (u \o v)[Len(u) + m] = v[m]
    BY <1>7, <1>8, Concatenated
  <2>2. Len(u) = p /\ Len(v) = Len(inside)
    BY <1>7, <1>8, <1>9
  <2>. QED BY <1>5, <2>1, <2>2
<1>12. \A m \in p + 1 .. Len(d) : \E k \in 1 .. Len(inside) : m = p + k
  <2> TAKE m \in p + 1 .. Len(d)
  <2>1. m - p \in 1 .. Len(inside) /\ m = p + (m - p)
    BY <1>9, <1>10
  <2>. QED BY <2>1
<1>13. \A m \in 1 .. Len(inside) : d[p + m].node = inside[m] /\ Declares(d[p + m], program[inside[m]].name, inside[m])
  BY <1>8, <1>11 DEF Declares
<1>14. \A m \in 1 .. p : Declares(d[m], Param(i, m), i)
  BY <1>7, <1>9, <1>10
<1>15. \A m \in p + 1 .. Len(d) : d[m].node \in DeclaredIn(i) /\ Declares(d[m], program[d[m].node].name, d[m].node)
  <2> TAKE m \in p + 1 .. Len(d)
  <2>1. PICK k \in 1 .. Len(inside) : m = p + k
    BY <1>12
  <2>2. d[m].node = inside[k] /\ Declares(d[m], program[inside[k]].name, inside[k])
    BY <1>13, <2>1
  <2>. QED BY <1>6, <2>2
<1>16. \A m, k \in p + 1 .. Len(d) : m < k => d[m].node < d[k].node
  <2> SUFFICES ASSUME NEW m \in p + 1 .. Len(d), NEW k \in p + 1 .. Len(d), m < k
               PROVE  d[m].node < d[k].node
    OBVIOUS
  <2>1. PICK m1 \in 1 .. Len(inside) : m = p + m1
    BY <1>12
  <2>2. PICK k1 \in 1 .. Len(inside) : k = p + k1
    BY <1>12
  <2>3. m1 < k1
    BY <1>9, <2>1, <2>2
  <2>4. inside[m1] < inside[k1]
    BY <1>4, <2>3 DEF Ascending
  <2>5. d[m].node = inside[m1] /\ d[k].node = inside[k1]
    BY <1>13, <2>1, <2>2
  <2>. QED BY <2>4, <2>5
<1>17. \A j \in DeclaredIn(i) : \E m \in p + 1 .. Len(d) : d[m].node = j
  <2> TAKE j \in DeclaredIn(i)
  <2>1. j \in 1 .. Len(program)
    BY <1>1 DEF DeclaredIn
  <2>2. PICK m \in 1 .. Len(inside) : inside[m] = j
    BY <1>4, <2>1 DEF AllFrom
  <2>3. p + m \in p + 1 .. Len(d)
    BY <1>9, <1>10
  <2>. QED BY <1>13, <2>2, <2>3
<1>18. p \in Nat /\ p <= Len(d)
  BY <1>9, <1>10
<1>19. d \in Seq(DeclarationSet)
  BY <1>10
<1>. QED BY <1>14, <1>15, <1>16, <1>17, <1>18, <1>19, Zenon

LEMMA DeclarationsOfWord ==
  ASSUME NEW i, NEW word \in {"this", "super"}
  PROVE  Declarations(<<i, word>>) = <<[name |-> word, node |-> i]>>
<1>1. <<i, word>>[1] = i /\ <<i, word>>[2] = word /\ word # "block"
  OBVIOUS
<1>. QED BY <1>1 DEF Declarations

-----------------------------------------------------------------------------
(* Names, and what a use finds *)

NameSet == STRING \cup {"this", "super"}
\* The declarations of name by node i.
NamedBefore(i, s, name) ==
  {m \in DOMAIN Declarations(s) : LET d == Declarations(s)[m] IN d.name = name /\ d.node < i}

Typed(s) ==
  /\ DOMAIN Declarations(s) = 1 .. Len(Declarations(s))
  /\ \A m \in 1 .. Len(Declarations(s)) : Declarations(s)[m].node \in Nat

LEMMA DeclarationsTyped ==
  ASSUME Placed(program), NEW s \in ScopeSet, s[1] \in Nodes
  PROVE  Typed(s)
<1> DEFINE d == Declarations(s)
           u == s[1]
<1>1. CASE s[2] = "block"
  <2>1. s = <<u, "block">>
    BY <1>1 DEF ScopeSet
  <2>2. d = Declarations(<<u, "block">>)
    BY <2>1
  <2> HIDE DEF d, u
  <2>3. d \in Seq(DeclarationSet)
    <3>1. u \in Nodes
      BY DEF u
    <3>. QED BY <2>2, <3>1, DeclarationsAre
  <2>4. DOMAIN d = 1 .. Len(d) /\ \A m \in 1 .. Len(d) : d[m] \in DeclarationSet
    BY <2>3
  <2>5. \A m \in 1 .. Len(d) : d[m].node \in Nat
    BY <2>4 DEF DeclarationSet
  <2>. QED BY <2>4, <2>5 DEF d, Typed
<1>2. CASE s[2] # "block"
  <2>1. s[2] \in {"this", "super"} /\ s = <<u, s[2]>> /\ u \in Nat
    BY <1>2 DEF ScopeSet
  <2>2. d = <<[name |-> s[2], node |-> u]>>
    BY <2>1, DeclarationsOfWord
  <2> HIDE DEF d, u
  <2>3. DOMAIN d = 1 .. Len(d) /\ Len(d) = 1 /\ d[1].node = u
    BY <2>2
  <2>4. \A m \in 1 .. Len(d) : d[m].node \in Nat
    <3>1. \A m \in 1 .. Len(d) : m = 1
      BY <2>3
    <3>. QED BY <2>1, <2>3, <3>1
  <2>. QED BY <2>3, <2>4 DEF d, Typed
<1>. QED BY <1>1, <1>2

AddressGiven(l, i) == IF i \in DOMAIN l THEN l[i] ELSE <<>>
TextIsPlaced == Placed(program) /\ \A i \in Nodes : Grammatical(program, i)

-----------------------------------------------------------------------------
(* What only the text decides stays while the text does *)

LEMMA ScopesStay ==
  ASSUME UNCHANGED program, NEW i
  PROVE  ScopesOf(i)' = ScopesOf(i) /\ ScopesAround(i)' = ScopesAround(i) /\ InnermostIn(program, i)' = InnermostIn(program, i)
<1>1. ScopesOf(i)' = ScopesOf(i)
  BY DEF ScopesOf, IsSubclass
<1>2. InnermostIn(program, i)' = InnermostIn(program, i)
  BY DEF InnermostIn, OpenIn
<1>3. ScopesAround(i)' = ScopesAround(i)
  BY DEF ScopesAround, ScopesOf, IsSubclass
<1>. QED BY <1>1, <1>2, <1>3

LEMMA DeclarationsStay ==
  ASSUME UNCHANGED program, NEW s
  PROVE  Declarations(s)' = Declarations(s)
BY DEF Declarations, Nodes

AddressAmong(around, i, name) ==
  LET holding == {n \in DOMAIN around : NamedBefore(i, around[n], name) # {}}
      nearest == Min(holding)
  IN IF holding = {} THEN <<>> ELSE <<nearest - 1, Min(NamedBefore(i, around[nearest], name)) - 1>>

-----------------------------------------------------------------------------
(* What waits to be used *)

IsExpression(node) == node.kind \in Expressions
Leaves(node, before) == SubSeq(before, 1, Len(before) - Pops(node))
Waits(t, i, before) ==
  LET left == Leaves(t[i], before) IN IF IsExpression(t[i]) THEN Append(left, i) ELSE left

LEMMA PopsIs ==
  ASSUME NEW node \in NodeSet
  PROVE  Pops(node) \in Nat
BY DEF Pops, NodeSet

LEMMA WaitsIs ==
  ASSUME NEW node \in NodeSet, NEW before \in Seq(Nat)
  PROVE  /\ Leaves(node, before) \in Seq(Nat)
         /\ Pops(node) <= Len(before) =>
              /\ Len(Leaves(node, before)) = Len(before) - Pops(node)
              /\ \A k \in 1 .. Len(Leaves(node, before)) : Leaves(node, before)[k] = before[k]
         /\ \A k \in 1 .. Len(Leaves(node, before)) : k \in 1 .. Len(before) /\ Leaves(node, before)[k] = before[k]
<1> DEFINE m == Len(before) - Pops(node)
<1>1. m \in Int /\ m <= Len(before) /\ Len(before) \in Nat
  BY PopsIs
<1>2. Leaves(node, before) = SubSeq(before, 1, m)
  BY DEF Leaves
<1> HIDE DEF m
<1>3. SubSeq(before, 1, m) \in Seq(Nat)
  BY <1>1
<1>4. 0 <= m => Len(SubSeq(before, 1, m)) = m /\ \A k \in 1 .. m : SubSeq(before, 1, m)[k] = before[k]
  BY <1>1
<1>5. Pops(node) <= Len(before) => 0 <= m
  BY PopsIs DEF m
<1>6. ~(0 <= m) => Len(SubSeq(before, 1, m)) = 0
  BY <1>1
<1>. QED BY <1>1, <1>2, <1>3, <1>4, <1>5, <1>6 DEF m

\* The recursion of Operands, one step at a time.
LEMMA OperandsNext ==
  ASSUME NEW t \in Seq(NodeSet)
  PROVE  /\ Operands(t, 0) = <<>>
         /\ \A n \in 0 .. Len(t) : Operands(t, n) \in Seq(Nat)
         /\ \A n \in 1 .. Len(t) : Operands(t, n) = Waits(t, n, Operands(t, n - 1))
<1> DEFINE l == Len(t)
           T == Seq(Nat)
           none == <<>>
           step == [p \in (1 .. l) \X T |-> Waits(t, p[1], p[2])]
           Is(n, g) == g = [i \in 0 .. n |-> IF i = 0 THEN none ELSE Waits(t, i, g[i - 1])]
           f == [n \in 0 .. l |-> CHOOSE g : Is(n, g)]
<1>1. l \in Nat /\ none \in T
  OBVIOUS
<1>2. \A i \in 1 .. l, u \in T : step[<<i, u>>] = Waits(t, i, u)
  <2> HIDE DEF l, T
  <2>. QED OBVIOUS
<1>3. \A i \in 1 .. l, u \in T : Waits(t, i, u) \in T
  <2> TAKE i \in 1 .. l, u \in T
  <2>1. t[i] \in NodeSet /\ i \in Nat
    OBVIOUS
  <2>2. Leaves(t[i], u) \in Seq(Nat)
    BY <2>1, WaitsIs
  <2>3. Append(Leaves(t[i], u), i) \in Seq(Nat)
    BY <2>1, <2>2
  <2>. QED BY <2>2, <2>3 DEF Waits
<1>4. \A n \in 0 .. l : Operands(t, n) = f[n][n]
  <2> TAKE n \in 0 .. l
  <2>1. Operands(t, n) = (CHOOSE g : Is(n, g))[n]
    BY DEF Operands, Waits, Leaves, IsExpression
  <2>2. f[n] = CHOOSE g : Is(n, g)
    OBVIOUS
  <2> HIDE DEF f, Is
  <2>. QED BY <2>1, <2>2
<1>5. \A n \in 0 .. l : f[n] = CHOOSE g : Is(n, g)
  OBVIOUS
<1> HIDE DEF step, l, T, none, f
<1>6. ASSUME NEW n \in 0 .. l
      PROVE  /\ f[n][0] = none
             /\ \A i \in 1 .. n : f[n][i] = Waits(t, i, f[n][i - 1])
  <2>1. PICK g : g \in [0 .. n -> T] /\ Unfolds(g, n, none, step)
    <3>1. n \in Nat /\ \A i \in 1 .. n : i \in 1 .. l
      BY <1>1
    <3>2. Steps(step, n, T)
      BY <3>1, <1>2, <1>3 DEF Steps
    <3>. QED BY <1>1, <3>1, <3>2, Recursion
  <2>2. \A i \in 0 .. n : (IF i = 0 THEN none ELSE step[<<i, g[i - 1]>>]) = (IF i = 0 THEN none ELSE Waits(t, i, g[i - 1]))
    <3> TAKE i \in 0 .. n
    <3>1. i # 0 => i \in 1 .. l /\ i - 1 \in 0 .. n
      BY <1>1
    <3>2. i # 0 => g[i - 1] \in T
      BY <2>1, <3>1
    <3>. QED BY <1>2, <3>1, <3>2
  <2>3. Is(n, g)
    BY <2>1, <2>2, Zenon DEF Unfolds
  <2>4. Is(n, f[n])
    <3> HIDE DEF Is
    <3>. QED BY <2>3, <1>5
  <2> DEFINE e == f[n]
             h == [i \in 0 .. n |-> IF i = 0 THEN none ELSE Waits(t, i, e[i - 1])]
  <2>5. e = h
    BY <2>4
  <2>6. 0 \in 0 .. n /\ \A i \in 1 .. n : i \in 0 .. n /\ i # 0
    BY <1>1
  <2>7. h[0] = none /\ \A i \in 1 .. n : h[i] = Waits(t, i, e[i - 1])
    BY <2>6
  <2> HIDE DEF h, e
  <2>. QED BY <2>5, <2>7 DEF e
<1> HIDE DEF Is
<1>7. ASSUME NEW n \in 0 .. l
      PROVE  \A i \in Nat : i <= n => f[n][i] = f[i][i] /\ f[i][i] \in T
  <2> DEFINE S == {i \in Nat : i <= n => f[n][i] = f[i][i] /\ f[i][i] \in T}
  <2>1. 0 \in S
    <3>1. 0 \in 0 .. l
      BY <1>1
    <3>. QED BY <1>1, <1>6, <3>1
  <2>2. ASSUME NEW i \in Nat, i \in S
        PROVE  i + 1 \in S
    <3> SUFFICES ASSUME i + 1 <= n
                 PROVE  f[n][i + 1] = f[i + 1][i + 1] /\ f[i + 1][i + 1] \in T
      OBVIOUS
    <3>1. i + 1 \in 1 .. n /\ i + 1 \in 1 .. l /\ i + 1 \in 0 .. l /\ (i + 1) - 1 = i /\ i <= n /\ i \in 0 .. l
      BY <1>1
    <3>2. f[n][i] = f[i][i] /\ f[i][i] \in T
      BY <2>2, <3>1
    <3>3. f[n][i + 1] = Waits(t, i + 1, f[n][i])
      BY <1>6, <3>1
    <3> DEFINE k == i + 1
    <3>4. k \in 0 .. l /\ k \in 1 .. k /\ k - 1 = i
      BY <3>1
    <3> HIDE DEF k
    <3>5. f[k][k] = Waits(t, k, f[k][i])
      BY <1>6, <3>4
    <3> DEFINE R == {j \in Nat : j <= i => f[k][j] = f[n][j]}
    <3>6. 0 \in R
      BY <1>6, <3>4
    <3>7. ASSUME NEW j \in Nat, j \in R
          PROVE  j + 1 \in R
      <4> SUFFICES ASSUME j + 1 <= i
                   PROVE  f[k][j + 1] = f[n][j + 1]
        OBVIOUS
      <4>1. j + 1 \in 1 .. n /\ j + 1 \in 1 .. k /\ (j + 1) - 1 = j /\ j <= i
        BY <3>1 DEF k
      <4>2. f[k][j] = f[n][j]
        BY <3>7, <4>1
      <4>3. f[k][j + 1] = Waits(t, j + 1, f[k][j])
        BY <1>6, <3>4, <4>1
      <4>4. f[n][j + 1] = Waits(t, j + 1, f[n][j])
        BY <1>6, <4>1
      <4>. QED BY <4>2, <4>3, <4>4
    <3> HIDE DEF R
    <3>8. i \in R
      BY <3>6, <3>7, SetInduction
    <3>9. f[k][i] = f[n][i]
      BY <3>8 DEF R
    <3>10. Waits(t, i + 1, f[i][i]) \in T
      BY <1>3, <3>1, <3>2
    <3>. QED BY <3>2, <3>3, <3>5, <3>9, <3>10 DEF k
  <2> HIDE DEF S
  <2>3. Nat \subseteq S
    BY <2>1, <2>2, SetInduction
  <2>. QED BY <2>3 DEF S
<1>8. \A n \in 0 .. l : f[n][n] \in T
  <2> TAKE n \in 0 .. l
  <2>1. n \in Nat /\ n <= n
    BY <1>1
  <2>. QED BY <1>7, <2>1
<1>9. \A n \in 1 .. l : f[n][n] = Waits(t, n, f[n - 1][n - 1])
  <2> TAKE n \in 1 .. l
  <2>1. n \in 0 .. l /\ n \in 1 .. n /\ n - 1 \in Nat /\ n - 1 <= n
    BY <1>1
  <2>. QED BY <1>6, <1>7, <2>1
<1>10. Operands(t, 0) = none
  <2>1. 0 \in 0 .. l
    BY <1>1
  <2>. QED BY <1>4, <1>6, <2>1
<1>11. \A n \in 1 .. l : n \in 0 .. l /\ n - 1 \in 0 .. l
  BY <1>1
<1>. QED BY <1>4, <1>8, <1>9, <1>10, <1>11 DEF l, T, none

-----------------------------------------------------------------------------
(* Declarations that have begun *)

LEMMA BegunNext ==
  ASSUME NEW t, NEW i \in Nat, i >= 1
  PROVE  /\ t[i].kind \in {"define", "body"} => Begun(t, i + 1) = {}
         /\ t[i].kind \in {"var", "class"} => Begun(t, i + 1) = Begun(t, i) \cup {i}
         /\ t[i].kind \notin {"define", "body", "var", "class"} => Begun(t, i + 1) = Begun(t, i)
<1> DEFINE Starts(j) == t[j].kind \in {"var", "class"}
           Ends(j) == t[j].kind \in {"define", "body"}
<1>1. \A n : Begun(t, n) = {j \in 1 .. n - 1 : Starts(j) /\ \A d \in j + 1 .. n - 1 : ~Ends(d)}
  BY DEF Begun
<1>2. \A j : Starts(j) => ~Ends(j)
  OBVIOUS
<1> HIDE DEF Starts, Ends
<1>3. (i + 1) - 1 = i /\ \A j \in 1 .. i : j \in 1 .. i - 1 \/ j = i
  OBVIOUS
<1>4. CASE Ends(i)
  <2>1. \A j \in 1 .. i - 1 : i \in j + 1 .. i
    OBVIOUS
  <2>2. Begun(t, i + 1) = {}
    BY <1>1, <1>2, <1>3, <1>4, <2>1
  <2>. QED BY <1>2, <1>4, <2>2 DEF Starts, Ends
<1>5. CASE ~Ends(i)
  <2>1. \A j \in 1 .. i - 1 : (\A d \in j + 1 .. i : ~Ends(d)) <=> (\A d \in j + 1 .. i - 1 : ~Ends(d))
    <3> TAKE j \in 1 .. i - 1
    <3>1. \A d \in j + 1 .. i : d \in j + 1 .. i - 1 \/ d = i
      OBVIOUS
    <3>2. \A d \in j + 1 .. i - 1 : d \in j + 1 .. i
      OBVIOUS
    <3>. QED BY <1>5, <3>1, <3>2
  <2>2. i + 1 .. i = {} /\ i \in 1 .. i /\ \A j \in 1 .. i - 1 : j \in 1 .. i
    OBVIOUS
  <2>3. CASE Starts(i)
    <3>1. \A j : j \in Begun(t, i + 1) <=> j \in Begun(t, i) \cup {i}
      BY <1>1, <1>3, <2>1, <2>2, <2>3
    <3>. QED BY <1>5, <2>3, <3>1 DEF Starts, Ends
  <2>4. CASE ~Starts(i)
    <3>1. \A j : j \in Begun(t, i + 1) <=> j \in Begun(t, i)
      BY <1>1, <1>3, <2>1, <2>2, <2>4
    <3>. QED BY <1>5, <2>4, <3>1 DEF Starts, Ends
  <2>. QED BY <2>3, <2>4
<1>. QED BY <1>4, <1>5

\* Between a declaration's beginning and its end no scope opens or closes.
LEMMA ContinuesIs ==
  ASSUME NEW t, NEW j, NEW i, Continues(t, j, i)
  PROVE  \/ t[i].kind \in {"define", "body"}
         \/ t[i].kind \in Expressions /\ ~IsOpener(t[i]) /\ ~IsEnd(t[i]) /\ t[i].kind \notin {"var", "class"}
BY DEF Continues, Expressions, IsOpener, IsEnd, Openers

\* Only one declaration is begun at a time, and it is in what is open.
BegunIn(t, n) == \A j \in Begun(t, n + 1) : Begun(t, n + 1) = {j} /\ t[j].in = InnermostIn(t, n)

LEMMA BegunIs ==
  ASSUME TextIsPlaced
  PROVE  \A n \in Nat : n <= Len(program) => BegunIn(program, n)
<1> DEFINE t == program
           S == {n \in Nat : n <= Len(t) => BegunIn(t, n)}
<1>1. Placed(t) /\ Len(t) \in Nat /\ Nodes = 1 .. Len(t) /\ \A i \in Nodes : Grammatical(t, i)
  BY DEF TextIsPlaced, Placed, Nodes
<1>2. 0 \in S
  BY DEF Begun, BegunIn
<1>3. ASSUME NEW n \in Nat, n \in S
      PROVE  n + 1 \in S
  <2> SUFFICES ASSUME n + 1 <= Len(t)
               PROVE  BegunIn(t, n + 1)
    OBVIOUS
  <2> DEFINE i == n + 1
  <2>1. i \in Nat /\ i >= 1 /\ i \in 1 .. Len(t) /\ n < Len(t) /\ n <= Len(t) /\ i - 1 = n
    BY <1>1
  <2>2. BegunIn(t, n)
    BY <1>3, <2>1
  <2>3. \A j \in Begun(t, i) : Continues(t, j, i)
    BY <1>1, <2>1 DEF Grammatical
  <2>4. t[i].in = InnermostIn(t, n)
    BY <1>1, <2>1 DEF Placed
  <2>5. ~IsOpener(t[i]) /\ ~IsEnd(t[i]) => InnermostIn(t, i) = InnermostIn(t, n)
    BY <1>1, <2>1, InnermostNext
  <2>6. /\ t[i].kind \in {"define", "body"} => Begun(t, i + 1) = {}
        /\ t[i].kind \in {"var", "class"} => Begun(t, i + 1) = Begun(t, i) \cup {i}
        /\ t[i].kind \notin {"define", "body", "var", "class"} => Begun(t, i + 1) = Begun(t, i)
    BY <2>1, BegunNext
  <2>7. t[i].kind \in {"var", "class"} => ~IsOpener(t[i]) /\ ~IsEnd(t[i]) /\ t[i].kind \notin {"define", "body"}
    BY DEF IsOpener, IsEnd, Openers
  <2>8. \A j \in Begun(t, i) : \/ t[i].kind \in {"define", "body"}
                               \/ ~IsOpener(t[i]) /\ ~IsEnd(t[i]) /\ t[i].kind \notin {"var", "class"}
    BY <2>3, ContinuesIs
  <2> HIDE DEF i, t
  <2>9. CASE t[i].kind \in {"define", "body"}
    BY <2>6, <2>9 DEF BegunIn, i
  <2>10. CASE t[i].kind \in {"var", "class"}
    <3>1. Begun(t, i) = {}
      BY <2>7, <2>8, <2>10
    <3>2. Begun(t, i + 1) = {i}
      BY <2>6, <2>10, <3>1
    <3>3. t[i].in = InnermostIn(t, i)
      BY <2>4, <2>5, <2>7, <2>10
    <3>. QED BY <3>2, <3>3 DEF BegunIn, i
  <2>11. CASE t[i].kind \notin {"define", "body", "var", "class"}
    <3>1. Begun(t, i + 1) = Begun(t, i)
      BY <2>6, <2>11
    <3>2. ASSUME NEW j \in Begun(t, i)
          PROVE  Begun(t, i) = {j} /\ t[j].in = InnermostIn(t, i)
      <4>1. Begun(t, i) = {j} /\ t[j].in = InnermostIn(t, n)
        BY <2>2, <3>2 DEF BegunIn, i
      <4>2. ~IsOpener(t[i]) /\ ~IsEnd(t[i])
        BY <2>8, <2>11, <3>2
      <4>. QED BY <2>5, <4>1, <4>2
    <3>. QED BY <3>1, <3>2 DEF BegunIn, i
  <2>. QED BY <2>9, <2>10, <2>11 DEF i
<1> HIDE DEF S
<1>4. Nat \subseteq S
  BY <1>2, <1>3, SetInduction
<1>. QED BY <1>4 DEF S

-----------------------------------------------------------------------------
(* What is around a node *)

LEMMA AroundOf ==
  ASSUME Placed(program), NEW kinds
  PROVE  \A i \in Nodes :
           /\ Around(i, kinds) \subseteq 1 .. i - 1
           /\ program[i].in = 0 => Around(i, kinds) = {}
           /\ program[i].in # 0 =>
                Around(i, kinds) = Around(program[i].in, kinds)
                                     \cup (IF program[program[i].in].kind \in kinds THEN {program[i].in} ELSE {})
<1> DEFINE l == Len(program)
           T == SUBSET Nat
           in == [j \in 1 .. l |-> program[j].in]
           More(j, u) == u \cup (IF in[j] = 0 THEN {} ELSE {in[j]})
           step == [p \in (1 .. l) \X T |-> More(p[1], p[2])]
           Is(g) == g = [j \in 0 .. l |-> IF j = 0 THEN {}
                                         ELSE g[program[j].in] \cup (IF program[j].in = 0 THEN {} ELSE {program[j].in})]
           f == CHOOSE g : Is(g)
           none == {}
<1>1. l \in Nat /\ none \in T /\ Nodes = 1 .. l
  BY DEF Placed, Nodes
<1>2. \A j \in 1 .. l : in[j] = program[j].in /\ in[j] \in 0 .. j - 1 /\ in[j] \in 0 .. l
  BY <1>1, InIsBefore
<1>3. \A j \in 1 .. l, u \in T : step[<<j, u>>] = More(j, u)
  <2> HIDE DEF l, T, More
  <2>. QED OBVIOUS
<1>4. \A j \in 1 .. l, u \in T : More(j, u) \in T
  <2> TAKE j \in 1 .. l, u \in T
  <2>1. in[j] \in Nat
    BY <1>1, <1>2
  <2>. QED BY <2>1
<1>5. \A i \in Nodes : Around(i, kinds) = {j \in f[i] : program[j].kind \in kinds}
  BY DEF Around
<1> HIDE DEF step, l, T, in, f
<1>6. PICK g : g \in [0 .. l -> T] /\ Climbs(g, l, none, in, step)
  <2> HIDE DEF none
  <2>1. Steps(step, l, T)
    BY <1>3, <1>4 DEF Steps
  <2>. QED BY <1>1, <1>2, <2>1, TreeRecursion
<1>7. \A j \in 0 .. l : (IF j = 0 THEN none ELSE step[<<j, g[in[j]]>>])
                        = (IF j = 0 THEN {}
                           ELSE g[program[j].in] \cup (IF program[j].in = 0 THEN {} ELSE {program[j].in}))
  <2> TAKE j \in 0 .. l
  <2>1. j # 0 => j \in 1 .. l /\ in[j] \in 0 .. l /\ in[j] = program[j].in
    BY <1>1, <1>2
  <2>2. j # 0 => step[<<j, g[in[j]]>>] = More(j, g[in[j]])
    BY <1>3, <1>6, <2>1
  <2>. QED BY <2>1, <2>2
<1>8. Is(g)
  BY <1>6, <1>7, Zenon DEF Climbs
<1>9. Is(f)
  <2> HIDE DEF Is
  <2>. QED BY <1>8 DEF f
<1>10. f[0] = {} /\ \A j \in 1 .. l : f[j] = More(j, f[in[j]])
  <2> DEFINE h == [j \in 0 .. l |-> IF j = 0 THEN {}
                                   ELSE f[program[j].in] \cup (IF program[j].in = 0 THEN {} ELSE {program[j].in})]
  <2>1. f = h
    BY <1>9
  <2>2. 0 \in 0 .. l /\ \A j \in 1 .. l : j \in 0 .. l /\ j # 0
    BY <1>1
  <2>3. h[0] = {} /\ \A j \in 1 .. l : h[j] = More(j, f[in[j]])
    BY <1>2, <2>2
  <2> HIDE DEF h
  <2>. QED BY <2>1, <2>3
<1> HIDE DEF Is
<1> DEFINE S == {n \in Nat : \A j \in 1 .. l : j <= n => f[j] \subseteq 1 .. j - 1}
<1>11. 0 \in S
  BY <1>1
<1>12. ASSUME NEW n \in Nat, n \in S
       PROVE  n + 1 \in S
  <2> SUFFICES ASSUME NEW j \in 1 .. l, j <= n + 1
               PROVE  f[j] \subseteq 1 .. j - 1
    OBVIOUS
  <2>1. in[j] \in 0 .. j - 1 /\ f[j] = More(j, f[in[j]])
    BY <1>2, <1>10
  <2>2. CASE in[j] = 0
    <3>1. f[j] = {}
      BY <1>10, <2>1, <2>2
    <3>. QED BY <3>1
  <2>3. CASE in[j] # 0
    <3>1. in[j] \in 1 .. l /\ in[j] <= n
      BY <1>1, <2>1, <2>3
    <3>2. f[in[j]] \subseteq 1 .. in[j] - 1
      BY <1>12, <3>1
    <3>. QED BY <2>1, <2>3, <3>2
  <2>. QED BY <2>2, <2>3
<1> HIDE DEF S
<1>13. \A j \in 1 .. l : f[j] \subseteq 1 .. j - 1
  <2>1. l \in S
    BY <1>1, <1>11, <1>12, SetInduction
  <2>. QED BY <1>1, <2>1 DEF S
<1>14. ASSUME NEW i \in Nodes
       PROVE  /\ Around(i, kinds) \subseteq 1 .. i - 1
              /\ program[i].in = 0 => Around(i, kinds) = {}
              /\ program[i].in # 0 =>
                   Around(i, kinds) = Around(program[i].in, kinds)
                                        \cup (IF program[program[i].in].kind \in kinds THEN {program[i].in} ELSE {})
  <2>1. i \in 1 .. l /\ f[i] = More(i, f[in[i]]) /\ in[i] = program[i].in
    BY <1>1, <1>2, <1>10
  <2>2. Around(i, kinds) \subseteq 1 .. i - 1
    BY <1>5, <1>13, <2>1
  <2>3. ASSUME program[i].in = 0
        PROVE  Around(i, kinds) = {}
    BY <1>5, <1>10, <2>1, <2>3
  <2>4. ASSUME program[i].in # 0
        PROVE  Around(i, kinds) = Around(program[i].in, kinds)
                                    \cup (IF program[program[i].in].kind \in kinds THEN {program[i].in} ELSE {})
    <3> DEFINE m == program[i].in
    <3>1. m \in Nodes
      BY <2>4, InIsBefore
    <3>2. f[i] = f[m] \cup {m}
      BY <2>1, <2>4
    <3> HIDE DEF m
    <3>3. Around(i, kinds) = {j \in f[i] : program[j].kind \in kinds} /\ Around(m, kinds) = {j \in f[m] : program[j].kind \in kinds}
      BY <1>5, <3>1
    <3>4. Around(i, kinds) = Around(m, kinds) \cup (IF program[m].kind \in kinds THEN {m} ELSE {})
      BY <3>2, <3>3
    <3>. QED BY <3>4 DEF m
  <2>. QED BY <2>2, <2>3, <2>4
<1>. QED BY <1>14

\* The innermost node of some kinds that node m is in, or m itself.
InsideOf(m, kinds) ==
  IF m = 0 THEN 0 ELSE IF program[m].kind \in kinds THEN m ELSE InnermostOf(m, kinds)

LEMMA InnermostOfIs ==
  ASSUME Placed(program), NEW kinds, NEW i \in Nodes
  PROVE  /\ InnermostOf(i, kinds) = InsideOf(program[i].in, kinds)
         /\ InnermostOf(i, kinds) \in 0 .. i - 1
         /\ InnermostOf(i, kinds) # 0 => program[InnermostOf(i, kinds)].kind \in kinds
<1> DEFINE m == program[i].in
           S == {0} \cup Around(i, kinds)
<1>1. /\ m \in 0 .. i - 1 /\ i \in Nat /\ Len(program) \in Nat /\ (m # 0 => m \in Nodes)
      /\ Nodes = 1 .. Len(program)
  BY InIsBefore DEF Nodes
<1>2. /\ Around(i, kinds) \subseteq 1 .. i - 1
      /\ m = 0 => Around(i, kinds) = {}
      /\ m # 0 => Around(i, kinds) = Around(m, kinds) \cup (IF program[m].kind \in kinds THEN {m} ELSE {})
      /\ m # 0 => Around(m, kinds) \subseteq 1 .. m - 1
  BY <1>1, AroundOf
<1>3. i - 1 \in Nat /\ S \subseteq 0 .. i - 1 /\ S # {} /\ InnermostOf(i, kinds) = Max(S)
  BY <1>1, <1>2 DEF InnermostOf
<1> HIDE DEF m
<1>4. InnermostOf(i, kinds) = InsideOf(m, kinds)
  <2>1. CASE m = 0
    <3>1. S = {0} /\ 0 \in S /\ \A k \in S : k <= 0
      BY <1>2, <2>1
    <3> HIDE DEF S
    <3>2. Max(S) = 0
      BY <1>3, <3>1, MaxIsThe
    <3>. QED BY <1>3, <2>1, <3>2 DEF InsideOf
  <2>2. CASE m # 0 /\ program[m].kind \in kinds
    <3>1. m \in S /\ \A k \in S : k <= m
      BY <1>1, <1>2, <2>2
    <3> HIDE DEF S
    <3>2. Max(S) = m
      BY <1>1, <1>3, <3>1, MaxIsThe
    <3>. QED BY <1>3, <2>2, <3>2 DEF InsideOf
  <2>3. CASE m # 0 /\ program[m].kind \notin kinds
    <3>1. Around(i, kinds) = Around(m, kinds)
      BY <1>2, <2>3
    <3>2. InnermostOf(i, kinds) = InnermostOf(m, kinds)
      BY <3>1 DEF InnermostOf
    <3>. QED BY <2>3, <3>2 DEF InsideOf
  <2>. QED BY <2>1, <2>2, <2>3
<1>5. InnermostOf(i, kinds) \in S
  <2> HIDE DEF S
  <2>. QED BY <1>3, MaxIs
<1>6. \A j \in Around(i, kinds) : program[j].kind \in kinds
  BY DEF Around
<1>7. InnermostOf(i, kinds) # 0 => InnermostOf(i, kinds) \in Around(i, kinds)
  BY <1>5
<1> HIDE DEF S
<1>8. InnermostOf(i, kinds) \in 0 .. i - 1
  BY <1>3, <1>5
<1>. QED BY <1>4, <1>6, <1>7, <1>8 DEF m

-----------------------------------------------------------------------------
(* Nodes, and the declarations begun before them *)

BegunOf(n, kind) == {j \in Begun(program, n + 1) : program[j].kind = kind}

LEMMA NoNodeZero ==
  ASSUME Placed(program)
  PROVE  0 \notin Nodes
<1>1. Len(program) \in Nat
  BY DEF Placed
<1>. QED BY <1>1 DEF Nodes

LEMMA InnermostAt ==
  ASSUME Placed(program), NEW i \in Nodes
  PROVE  /\ InnermostIn(program, i - 1) = program[i].in
         /\ IsOpener(program[i]) => InnermostIn(program, i) = i
         /\ IsEnd(program[i]) /\ program[i].in # 0 => InnermostIn(program, i) = program[program[i].in].in
         /\ ~IsOpener(program[i]) /\ ~IsEnd(program[i]) => InnermostIn(program, i) = program[i].in
<1> DEFINE n == i - 1
<1>1. n \in Nat /\ n < Len(program) /\ n + 1 = i
  BY DEF Placed, Nodes
<1>2. program[i].in = InnermostIn(program, n)
  BY DEF Placed, Nodes
<1> HIDE DEF n
<1>3. /\ IsOpener(program[n + 1]) => InnermostIn(program, n + 1) = n + 1
      /\ IsEnd(program[n + 1]) /\ program[n + 1].in # 0 => InnermostIn(program, n + 1) = program[program[n + 1].in].in
      /\ ~IsOpener(program[n + 1]) /\ ~IsEnd(program[n + 1]) => InnermostIn(program, n + 1) = InnermostIn(program, n)
  BY <1>1, InnermostNext
<1>. QED BY <1>1, <1>2, <1>3 DEF n

LEMMA BegunStays ==
  ASSUME UNCHANGED program, NEW n, NEW kind
  PROVE  BegunOf(n, kind)' = BegunOf(n, kind) /\ Begun(program, n)' = Begun(program, n)
BY DEF BegunOf, Begun

\* Written text leaves what had begun before it.
LEMMA BegunBefore ==
  ASSUME NEW t, NEW u, Extends(t, u), Len(t) \in Nat, NEW n \in Nat, n <= Len(t) + 1
  PROVE  Begun(u, n) = Begun(t, n)
<1>1. \A j \in 1 .. n - 1 : u[j] = t[j]
  <2>1. \A j \in 1 .. n - 1 : j \in 1 .. Len(t)
    OBVIOUS
  <2>. QED BY <2>1 DEF Extends
<1>2. \A j \in 1 .. n - 1 : \A d \in j + 1 .. n - 1 : d \in 1 .. n - 1
  OBVIOUS
<1>3. \A j : j \in Begun(u, n) <=> j \in Begun(t, n)
  BY <1>1, <1>2 DEF Begun
<1>. QED BY <1>3

-----------------------------------------------------------------------------
(* What is open, read backwards *)

\* What is open after n nodes was open ever since.
LEMMA OpenSince ==
  ASSUME NEW t, NEW n \in Nat, NEW o \in OpenIn(t, n), NEW m \in Nat, o <= m, m <= n
  PROVE  o \in OpenIn(t, m)
<1>1. o \in 1 .. n /\ t[o].kind \in Openers /\ \A j \in 1 .. n : t[j].kind = "end" => t[j].in # o
  BY DEF OpenIn
<1>2. o \in 1 .. m /\ \A j \in 1 .. m : j \in 1 .. n
  BY <1>1
<1>. QED BY <1>1, <1>2 DEF OpenIn

\* So what is written since is in it, directly or not.
LEMMA WrittenSince ==
  ASSUME Placed(program), NEW n \in Nat, n <= Len(program), NEW o \in OpenIn(program, n), NEW j \in Nodes, o < j, j <= n + 1
  PROVE  program[j].in >= o /\ program[j].in \in Nat
<1>1. j - 1 \in Nat /\ o <= j - 1 /\ j - 1 <= n
  BY DEF OpenIn, Nodes
<1>2. o \in OpenIn(program, j - 1)
  BY <1>1, OpenSince
<1>3. o <= InnermostIn(program, j - 1) /\ InnermostIn(program, j - 1) \in 0 .. j - 1
  BY <1>1, <1>2, InnermostIsIn
<1>4. program[j].in = InnermostIn(program, j - 1)
  BY DEF Placed, Nodes
<1>. QED BY <1>1, <1>3, <1>4

LEMMA NothingOpen ==
  ASSUME NEW t, NEW n \in Nat, InnermostIn(t, n) = 0
  PROVE  OpenIn(t, n) = {}
<1>1. \A k \in OpenIn(t, n) : k \in 1 .. n /\ k <= 0
  BY InnermostIsIn DEF OpenIn
<1>. QED BY <1>1

\* The end of what a node of a closed text opens.
IsEndOf(e, i) ==
  /\ e \in Nodes /\ i < e /\ program[e].kind = "end" /\ program[e].in = i
  /\ \A j \in i + 1 .. e : program[j].in >= i /\ program[j].in \in Nat
  /\ InnermostIn(program, e) = program[i].in
LEMMA EndHere ==
  ASSUME Placed(program), NEW e \in Nodes, program[e].kind = "end", program[e].in # 0, NEW i, i = program[e].in
  PROVE  i \in Nodes /\ IsOpener(program[i]) /\ IsEndOf(e, i)
<1>1. Len(program) \in Nat /\ Nodes = 1 .. Len(program)
  BY DEF Placed, Nodes
<1>2. i \in 0 .. e - 1 /\ e \in Nat /\ i # 0 /\ i \in Nodes /\ IsOpener(program[i])
  BY <1>1, InIsBefore
<1>3. InnermostIn(program, e - 1) = i /\ InnermostIn(program, e) = program[i].in
  <2>1. IsEnd(program[e])
    BY DEF IsEnd
  <2>. QED BY <1>1, <1>2, <2>1, InnermostAt
<1>4. i \in OpenIn(program, e - 1)
  BY <1>2, <1>3, InnermostIsIn
<1>5. \A j \in i + 1 .. e : program[j].in >= i /\ program[j].in \in Nat
  <2> TAKE j \in i + 1 .. e
  <2>1. j \in Nodes /\ i < j /\ j <= (e - 1) + 1 /\ e - 1 \in Nat /\ e - 1 <= Len(program)
    BY <1>1, <1>2
  <2>. QED BY <1>1, <1>4, <2>1, WrittenSince
<1>6. i < e
  BY <1>2
<1>. QED BY <1>2, <1>3, <1>5, <1>6 DEF IsEndOf

LEMMA EndOfIs ==
  ASSUME TextIsPlaced, InnermostIn(program, Len(program)) = 0, NEW i \in Nodes, IsOpener(program[i])
  PROVE  IsEndOf(EndOf(i), i)
<1>1. Placed(program) /\ Len(program) \in Nat /\ Nodes = 1 .. Len(program)
  BY DEF TextIsPlaced, Placed, Nodes
<1>2. OpenIn(program, Len(program)) = {}
  BY <1>1, NothingOpen
<1>3. \E j \in Nodes : program[j].kind = "end" /\ program[j].in = i
  BY <1>1, <1>2 DEF OpenIn, IsOpener
<1>4. PICK e : e = EndOf(i)
  OBVIOUS
<1>5. e \in Nodes /\ program[e].kind = "end" /\ program[e].in = i
  BY <1>3, <1>4 DEF EndOf
<1>6. i # 0
  BY <1>1
<1>7. IsEndOf(e, i)
  BY <1>1, <1>5, <1>6, EndHere
<1>. QED BY <1>4, <1>7

\* What is open around a node is open when it comes, and nested.
LEMMA DirectlyIn ==
  ASSUME Placed(program), NEW i \in Nodes, program[i].in # 0
  PROVE  program[i].in \in OpenIn(program, i - 1) /\ program[i].in \in Nodes
<1>1. i - 1 \in Nat /\ program[i].in = InnermostIn(program, i - 1)
  BY DEF Placed, Nodes
<1>2. program[i].in \in Nodes
  BY InIsBefore
<1>. QED BY <1>1, <1>2, InnermostIsIn

\* The nodes around a node are around what is in it.
LEMMA AroundInside ==
  ASSUME Placed(program), NEW o \in Nodes, IsOpener(program[o]), NEW u, u = program[o].in, u # 0
  PROVE  \A j \in Nodes : o \in Around(j, Openers) => u \in Around(j, Openers)
<1> DEFINE R(j) == o \in Around(j, Openers) => u \in Around(j, Openers)
           S == {n \in Nat : \A j \in Nodes : j <= n => R(j)}
<1>1. \A j \in Nodes : j \in Nat /\ j >= 1
  BY DEF Nodes
<1>2. 0 \in S
  <2>1. \A j \in Nodes : ~(j <= 0)
    BY <1>1
  <2>. QED BY <2>1
<1>3. ASSUME NEW n \in Nat, n \in S
      PROVE  n + 1 \in S
  <2>1. ASSUME NEW j \in Nodes, j = n + 1, o \in Around(j, Openers)
        PROVE  u \in Around(j, Openers)
    <3>1. program[j].in # 0
      BY <2>1, AroundOf
    <3>2. PICK v : v = program[j].in
      OBVIOUS
    <3>3. v \in Nodes /\ v <= n /\ IsOpener(program[v])
      BY <2>1, <3>1, <3>2, <1>1, InIsBefore
    <3>4. Around(j, Openers) = Around(v, Openers) \cup {v}
      BY <2>1, <3>1, <3>2, <3>3, AroundOf DEF IsOpener
    <3>5. R(v)
      BY <1>3, <3>3
    <3>6. v = o => u \in Around(v, Openers)
      <4>1. u \in Nodes /\ IsOpener(program[u])
        BY InIsBefore
      <4>2. Around(o, Openers) = Around(u, Openers) \cup {u}
        BY <4>1, AroundOf DEF IsOpener
      <4>. QED BY <4>2
    <3>. QED BY <2>1, <3>4, <3>5, <3>6
  <2>2. \A j \in Nodes : j <= n + 1 => j <= n \/ j = n + 1
    BY <1>1
  <2>. QED BY <1>3, <2>1, <2>2
<1> HIDE DEF S, R
<1>4. Nat \subseteq S
  BY <1>2, <1>3, SetInduction
<1>5. \A j \in Nodes : R(j)
  <2> TAKE j \in Nodes
  <2>1. j \in S /\ j <= j
    BY <1>1, <1>4
  <2>. QED BY <2>1 DEF S
<1>. QED BY <1>5 DEF R

\* Nothing written after everything was closed is inside what was written before.
LEMMA AroundLater ==
  ASSUME Placed(program), NEW n \in Nat, n <= Len(program), InnermostIn(program, n) = 0, NEW kinds
  PROVE  \A j \in Nodes : j > n => program[j].in = 0 \/ program[j].in > n
<1> TAKE j \in Nodes
<1> SUFFICES ASSUME j > n, program[j].in # 0, ~(program[j].in > n)
             PROVE  FALSE
  OBVIOUS
<1>1. program[j].in \in OpenIn(program, j - 1) /\ program[j].in \in Nodes
  BY DirectlyIn
<1>2. program[j].in <= n /\ n <= j - 1 /\ j - 1 \in Nat
  BY <1>1 DEF Nodes
<1>3. program[j].in \in OpenIn(program, n)
  BY <1>1, <1>2, OpenSince
<1>. QED BY <1>3, NothingOpen

-----------------------------------------------------------------------------
(* The chain of scopes *)

\* The scopes open directly inside node u, the innermost of them, and the scope
\* that a scope is in.
ScopesInside(u) == IF u = 0 THEN <<>> ELSE ScopesOf(u) \o ScopesAround(u)
InnerScope(u) == IF u = 0 THEN <<>> ELSE ScopesOf(u)[1]
Beyond(s) == IF s[2] = "this" /\ IsSubclass(s[1]) THEN <<s[1], "super">> ELSE InnerScope(program[s[1]].in)
IsScope(s) ==
  /\ s \in ScopeSet /\ s[1] \in Nodes /\ IsOpener(program[s[1]])
  /\ program[s[1]].kind = "body" => s[2] = "this" \/ (s[2] = "super" /\ IsSubclass(s[1]))
  /\ program[s[1]].kind # "body" => s[2] = "block"

\* The scope that follows in a chain.
After(a, n) == IF n = Len(a) THEN <<>> ELSE a[n + 1]
IsChain(a, u) ==
  /\ a \in Seq(ScopeSet)
  /\ \A n \in 1 .. Len(a) : IsScope(a[n]) /\ a[n][1] <= u /\ Beyond(a[n]) = After(a, n)
  /\ InnerScope(u) = After(a, 0)

LEMMA ChainLonger ==
  ASSUME NEW a, NEW v \in Nat, IsChain(a, v), NEW s, IsScope(s), Beyond(s) = InnerScope(v), v < s[1]
  PROVE  LET b == <<s>> \o a
         IN /\ b \in Seq(ScopeSet) /\ Len(b) = Len(a) + 1 /\ b[1] = s
            /\ \A n \in 1 .. Len(b) : IsScope(b[n]) /\ b[n][1] <= s[1] /\ Beyond(b[n]) = After(b, n)
<1> DEFINE one == <<s>>
           b == one \o a
<1>1. s \in ScopeSet /\ a \in Seq(ScopeSet) /\ Len(a) \in Nat /\ s[1] \in Nat
  BY DEF IsScope, IsChain, ScopeSet
<1>2. one \in Seq(ScopeSet) /\ Len(one) = 1 /\ one[1] = s
  BY <1>1
<1> HIDE DEF one
<1>3. b \in Seq(ScopeSet) /\ Len(b) = 1 + Len(a) /\ b[1] = s /\ \A n \in 1 .. Len(a) : b[1 + n] = a[n]
  <2>0. one \in Seq(ScopeSet) /\ a \in Seq(ScopeSet)
    BY <1>1, <1>2
  <2>1. /\ b \in Seq(ScopeSet) /\ Len(b) = Len(one) + Len(a)
        /\ \A n \in 1 .. Len(one) : b[n] = one[n]
    BY <2>0, Concatenated
  <2>2. \A n \in 1 .. Len(a) : b[Len(one) + n] = a[n]
    BY <2>0, Concatenated
  <2> HIDE DEF b
  <2>3. 1 \in 1 .. Len(one)
    BY <1>2
  <2>. QED BY <1>2, <2>1, <2>2, <2>3
<1> HIDE DEF b
<1>4. Beyond(s) = After(b, 1)
  <2>1. InnerScope(v) = After(a, 0)
    BY DEF IsChain
  <2>2. Len(a) # 0 => 1 \in 1 .. Len(a)
    BY <1>1
  <2>3. Len(a) # 0 => b[2] = a[1]
    BY <1>3, <2>2
  <2>. QED BY <1>1, <1>3, <2>1, <2>3 DEF After
<1>5. ASSUME NEW n \in 1 .. Len(a)
      PROVE  IsScope(b[1 + n]) /\ b[1 + n][1] <= s[1] /\ Beyond(b[1 + n]) = After(b, 1 + n)
  <2>1. IsScope(a[n]) /\ a[n][1] <= v /\ Beyond(a[n]) = After(a, n) /\ a[n][1] \in Nat
    BY <1>1 DEF IsChain, ScopeSet
  <2>2. After(b, 1 + n) = After(a, n)
    <3>1. n # Len(a) => n + 1 \in 1 .. Len(a)
      BY <1>1
    <3>2. n # Len(a) => b[1 + (n + 1)] = a[n + 1]
      BY <1>3, <3>1
    <3>. QED BY <1>1, <1>3, <3>2 DEF After
  <2>3. b[1 + n] = a[n]
    BY <1>3
  <2>. QED BY <1>1, <2>1, <2>2, <2>3
<1>6. ASSUME NEW n \in 1 .. Len(b)
      PROVE  IsScope(b[n]) /\ b[n][1] <= s[1] /\ Beyond(b[n]) = After(b, n)
  <2>1. CASE n = 1
    BY <1>1, <1>3, <1>4, <2>1
  <2>2. CASE n # 1
    <3>1. n - 1 \in 1 .. Len(a) /\ n = 1 + (n - 1)
      BY <1>1, <1>3, <2>2
    <3>2. PICK m \in 1 .. Len(a) : n = 1 + m
      BY <3>1
    <3>. QED BY <1>5, <3>2
  <2>. QED BY <2>1, <2>2
<1>7. b = <<s>> \o a
  BY DEF b, one
<1>. QED BY <1>1, <1>3, <1>6, <1>7

\* The scopes inside a node are a chain.
LEMMA ChainInside ==
  ASSUME Placed(program)
  PROVE  \A u \in Nat : (u # 0 => u \in Nodes /\ IsOpener(program[u])) => IsChain(ScopesInside(u), u)
<1> DEFINE Opens_(u) == u # 0 => u \in Nodes /\ IsOpener(program[u])
           Right(u) == Opens_(u) => IsChain(ScopesInside(u), u)
           S == {n \in Nat : \A u \in 0 .. n : Right(u)}
<1>1. 0 \in S
  <2>1. IsChain(ScopesInside(0), 0)
    BY DEF IsChain, ScopesInside, InnerScope, After
  <2>2. \A u \in 0 .. 0 : u = 0
    OBVIOUS
  <2>. QED BY <2>1, <2>2
<1>2. ASSUME NEW n \in Nat, n \in S
      PROVE  n + 1 \in S
  <2> DEFINE u == n + 1
             v == program[u].in
             a == ScopesInside(v)
  <2>1. ASSUME u \in Nodes, IsOpener(program[u])
        PROVE  IsChain(ScopesInside(u), u)
    <3>1. v \in 0 .. n /\ u \in Nat /\ v < u /\ u # 0 /\ v \in Nat /\ (v # 0 => v \in Nodes /\ IsOpener(program[v]))
      BY <2>1, InIsBefore
    <3>2. IsChain(a, v)
      BY <1>2, <3>1
    <3>3. ScopesInside(u) = ScopesOf(u) \o a
      <4>1. ScopesAround(u) = Outer(u)
        BY <2>1, AroundIs
      <4>2. Outer(u) = a
        BY DEF Outer, ScopesInside
      <4>. QED BY <3>1, <4>1, <4>2 DEF ScopesInside
    <3> HIDE DEF a, v, u
    <3>4. <<u, "block">> \in ScopeSet /\ <<u, "this">> \in ScopeSet /\ <<u, "super">> \in ScopeSet
      <4>1. \A word \in {"block", "this", "super"} : <<u, word>> \in ScopeSet
        BY <3>1 DEF ScopeSet
      <4>. QED BY <4>1
    <3>5. \A word : <<u, word>>[1] = u /\ <<u, word>>[2] = word
      OBVIOUS
    <3>6. InnerScope(u) = ScopesOf(u)[1]
      BY <3>1 DEF InnerScope
    <3>7. CASE ~(program[u].kind = "body" /\ IsSubclass(u))
      <4> DEFINE word == IF program[u].kind = "body" THEN "this" ELSE "block"
                 s == <<u, word>>
      <4>1. ScopesOf(u) = <<s>>
        BY <3>1, <3>7, ScopesOfAre
      <4>2. IsScope(s)
        BY <2>1, <3>4, <3>5 DEF IsScope
      <4>3. Beyond(s) = InnerScope(v) /\ s[1] = u
        BY <3>5, <3>7 DEF Beyond, v
      <4>4. ScopesOf(u)[1] = s
        BY <4>1
      <4> HIDE DEF s
      <4> DEFINE b == <<s>> \o a
      <4>5. /\ b \in Seq(ScopeSet) /\ Len(b) = Len(a) + 1 /\ b[1] = s
            /\ \A k \in 1 .. Len(b) : IsScope(b[k]) /\ b[k][1] <= s[1] /\ Beyond(b[k]) = After(b, k)
        BY <3>1, <3>2, <4>2, <4>3, ChainLonger
      <4>6. ScopesInside(u) = b
        BY <3>3, <4>1
      <4> HIDE DEF b
      <4>7. InnerScope(u) = After(b, 0)
        BY <3>2, <3>6, <4>4, <4>5 DEF After, IsChain
      <4>8. IsChain(b, u)
        BY <4>3, <4>5, <4>7 DEF IsChain
      <4>. QED BY <4>6, <4>8
    <3>8. CASE program[u].kind = "body" /\ IsSubclass(u)
      <4> DEFINE s == <<u, "this">>
                 t == <<u, "super">>
                 b == <<t>> \o a
                 c == <<s>> \o b
      <4>1. ScopesOf(u) = <<s, t>> /\ ScopesOf(u)[1] = s
        BY <3>1, <3>8, ScopesOfAre
      <4>2. IsScope(s) /\ IsScope(t)
        BY <2>1, <3>4, <3>5, <3>8 DEF IsScope
      <4>3. Beyond(s) = t
        BY <3>5, <3>8 DEF Beyond
      <4>4. Beyond(t) = InnerScope(v)
        BY <3>5, <3>8 DEF Beyond, v
      <4>5. s[1] = u /\ t[1] = u
        BY <3>5
      <4>6. <<s, t>> = <<s>> \o <<t>>
        BY Two
      <4> HIDE DEF s, t
      <4>7. /\ b \in Seq(ScopeSet) /\ Len(b) = Len(a) + 1 /\ b[1] = t
            /\ \A k \in 1 .. Len(b) : IsScope(b[k]) /\ b[k][1] <= t[1] /\ Beyond(b[k]) = After(b, k)
        BY <3>1, <3>2, <4>2, <4>4, <4>5, ChainLonger
      <4>8. ScopesInside(u) = c
        <5>1. <<s>> \in Seq(ScopeSet) /\ <<t>> \in Seq(ScopeSet) /\ a \in Seq(ScopeSet)
          BY <3>2, <4>2 DEF IsScope, IsChain
        <5>2. (<<s>> \o <<t>>) \o a = <<s>> \o (<<t>> \o a)
          BY <5>1
        <5>. QED BY <3>3, <4>1, <4>6, <5>2
      <4> HIDE DEF b
      <4>9. c \in Seq(ScopeSet) /\ Len(c) = 1 + Len(b) /\ c[1] = s /\ \A k \in 1 .. Len(b) : c[1 + k] = b[k]
        <5> DEFINE one == <<s>>
        <5>1. one \in Seq(ScopeSet) /\ Len(one) = 1 /\ one[1] = s
          BY <4>2 DEF IsScope
        <5> HIDE DEF one
        <5>2. one \o b \in Seq(ScopeSet) /\ Len(one \o b) = 1 + Len(b) /\ (one \o b)[1] = s /\ \A k \in 1 .. Len(b) : (one \o b)[1 + k] = b[k]
          BY <4>7, <5>1, Concatenated
        <5>. QED BY <5>2 DEF one
      <4> HIDE DEF c
      <4>10. Len(b) \in Nat /\ Len(b) >= 1 /\ Len(a) \in Nat
        BY <3>2, <4>7 DEF IsChain
      <4>11. ASSUME NEW k \in 1 .. Len(c)
             PROVE  IsScope(c[k]) /\ c[k][1] <= u /\ Beyond(c[k]) = After(c, k)
        <5>1. CASE k = 1
          <6>1. c[1 + 1] = b[1]
            BY <4>9, <4>10
          <6>2. After(c, 1) = t
            BY <4>7, <4>9, <4>10, <6>1 DEF After
          <6>. QED BY <3>1, <4>2, <4>3, <4>5, <4>9, <5>1, <6>2
        <5>2. CASE k # 1
          <6>1. k - 1 \in 1 .. Len(b) /\ k = 1 + (k - 1)
            BY <4>9, <4>10, <5>2
          <6>2. PICK m \in 1 .. Len(b) : k = 1 + m
            BY <6>1
          <6>3. c[k] = b[m]
            BY <4>9, <6>2
          <6>4. After(c, k) = After(b, m)
            <7>1. m # Len(b) => m + 1 \in 1 .. Len(b)
              BY <4>10
            <7>2. m # Len(b) => c[1 + (m + 1)] = b[m + 1]
              BY <4>9, <7>1
            <7>. QED BY <4>9, <4>10, <6>2, <7>2 DEF After
          <6>. QED BY <4>5, <4>7, <6>3, <6>4
        <5>. QED BY <5>1, <5>2
      <4>12. InnerScope(u) = After(c, 0)
        BY <3>6, <4>1, <4>9, <4>10 DEF After
      <4>13. IsChain(c, u)
        BY <4>9, <4>11, <4>12 DEF IsChain
      <4>. QED BY <4>8, <4>13
    <3>. QED BY <3>7, <3>8 DEF u
  <2>2. \A w \in 0 .. n + 1 : w \in 0 .. n \/ w = u
    OBVIOUS
  <2>3. Right(u)
    BY <2>1
  <2> HIDE DEF Right, u
  <2>. QED BY <1>2, <2>2, <2>3
<1> HIDE DEF S
<1>3. Nat \subseteq S
  BY <1>1, <1>2, SetInduction
<1>. QED BY <1>3 DEF S

\* Only the top level has no innermost scope.
LEMMA InnerScopeIs ==
  ASSUME NEW v \in Nat
  PROVE  /\ v # 0 => InnerScope(v) \in ScopeSet /\ InnerScope(v)[1] = v
         /\ v = 0 <=> InnerScope(v) = <<>>
         /\ <<>> \notin ScopeSet
<1>1. <<>> \notin ScopeSet
  BY DEF ScopeSet
<1>2. PICK s : s = ScopesOf(v)
  OBVIOUS
<1>3. s \in Seq(ScopeSet) /\ Len(s) \in {1, 2} /\ \A k \in 1 .. Len(s) : s[k][1] = v
  BY <1>2, ScopesOfAre
<1>4. 1 \in 1 .. Len(s)
  BY <1>3
<1>5. s[1] \in ScopeSet /\ s[1][1] = v
  BY <1>3, <1>4
<1>. QED BY <1>1, <1>2, <1>5 DEF InnerScope

\* What a chain of scopes is around is open, and follows.
LEMMA ChainAround ==
  ASSUME Placed(program), NEW j \in Nodes
  PROVE  IsChain(ScopesAround(j), program[j].in) /\ ScopesAround(j) = ScopesInside(program[j].in)
<1>1. program[j].in \in Nat /\ (program[j].in # 0 => program[j].in \in Nodes /\ IsOpener(program[program[j].in]))
  BY InIsBefore
<1>2. ScopesAround(j) = ScopesInside(program[j].in)
  BY AroundIs DEF Outer, ScopesInside
<1>3. PICK v : v = program[j].in
  OBVIOUS
<1>4. IsChain(ScopesInside(v), v)
  BY <1>1, <1>3, ChainInside
<1>. QED BY <1>2, <1>3, <1>4

LEMMA ChainOpen ==
  ASSUME Placed(program), NEW j \in Nodes, NEW a, a = ScopesAround(j)
  PROVE  /\ \A n \in 1 .. Len(a) : a[n][1] \in OpenIn(program, j - 1)
         /\ \A n \in 1 .. Len(a) : n > 1 => a[n][1] <= a[n - 1][1] /\ (a[n][1] = a[n - 1][1] => a[n][2] = "super")
<1>1. IsChain(a, program[j].in) /\ j - 1 \in Nat /\ j - 1 <= Len(program) /\ Len(program) \in Nat
  BY ChainAround DEF Placed, Nodes
<1>2. Len(a) \in Nat /\ \A n \in 1 .. Len(a) : IsScope(a[n]) /\ a[n] \in ScopeSet /\ Beyond(a[n]) = After(a, n) /\ a[n][1] \in Nodes
  BY <1>1 DEF IsChain, IsScope
<1> DEFINE Next_(n) == \/ a[n + 1][1] = a[n][1] /\ a[n + 1][2] = "super"
                       \/ a[n + 1][1] = program[a[n][1]].in /\ program[a[n][1]].in # 0
<1>3. ASSUME NEW n \in 1 .. Len(a), n + 1 \in 1 .. Len(a)
      PROVE  Next_(n)
  <2>1. a[n + 1] = Beyond(a[n])
    BY <1>2, <1>3 DEF After
  <2>2. CASE a[n][2] = "this" /\ IsSubclass(a[n][1])
    <3>1. a[n + 1] = <<a[n][1], "super">>
      BY <2>1, <2>2 DEF Beyond
    <3>. QED BY <3>1
  <2>3. CASE ~(a[n][2] = "this" /\ IsSubclass(a[n][1]))
    <3> DEFINE v == program[a[n][1]].in
    <3>1. a[n + 1] = InnerScope(v)
      BY <2>1, <2>3 DEF Beyond
    <3>2. v \in Nat
      BY <1>2, InIsBefore
    <3> HIDE DEF v
    <3>3. v # 0 /\ InnerScope(v)[1] = v
      <4>1. a[n + 1] \in ScopeSet
        BY <1>2, <1>3
      <4>. QED BY <3>1, <3>2, <4>1, InnerScopeIs
    <3>. QED BY <3>1, <3>3 DEF v
  <2>. QED BY <2>2, <2>3
<1> DEFINE S == {n \in Nat : n \in 1 .. Len(a) => a[n][1] \in OpenIn(program, j - 1)}
<1>4. 0 \in S
  OBVIOUS
<1>5. ASSUME NEW n \in Nat, n \in S
      PROVE  n + 1 \in S
  <2> SUFFICES ASSUME n + 1 \in 1 .. Len(a)
               PROVE  a[n + 1][1] \in OpenIn(program, j - 1)
    OBVIOUS
  <2>1. CASE n = 0
    <3>1. InnerScope(program[j].in) = a[1]
      <4>1. InnerScope(program[j].in) = After(a, 0) /\ Len(a) # 0
        BY <1>1, <1>2, <2>1 DEF IsChain
      <4>. QED BY <4>1 DEF After
    <3> DEFINE v == program[j].in
    <3>2. v \in Nat
      BY InIsBefore
    <3>3. v # 0 /\ InnerScope(v)[1] = v
      <4>1. a[1] \in ScopeSet
        BY <1>2, <2>1
      <4>. QED BY <3>1, <3>2, <4>1, InnerScopeIs
    <3>5. a[1][1] = v
      BY <3>1, <3>3
    <3>6. v \in OpenIn(program, j - 1)
      BY <3>3, DirectlyIn
    <3>. QED BY <2>1, <3>5, <3>6
  <2>2. CASE n # 0
    <3>1. n \in 1 .. Len(a) /\ a[n][1] \in OpenIn(program, j - 1)
      BY <1>2, <1>5, <2>2
    <3>2. Next_(n)
      BY <1>3, <3>1
    <3> DEFINE o == a[n][1]
               v == program[o].in
    <3>3. ASSUME v # 0
          PROVE  v \in OpenIn(program, j - 1)
      <4>1. o \in Nodes /\ o - 1 \in Nat
        BY <1>2, <3>1 DEF Nodes
      <4>2. v \in OpenIn(program, o - 1)
        BY <3>3, <4>1, DirectlyIn
      <4>3. Below(program, j - 1, o) = OpenIn(program, o - 1)
        BY <1>1, <3>1, Nested
      <4>. QED BY <4>2, <4>3 DEF Below
    <3>. QED BY <3>1, <3>2, <3>3
  <2>. QED BY <2>1, <2>2
<1>6. Nat \subseteq S
  <2> HIDE DEF S
  <2>. QED BY <1>4, <1>5, SetInduction
<1>7. \A n \in 1 .. Len(a) : a[n][1] \in OpenIn(program, j - 1)
  BY <1>6
<1>8. ASSUME NEW n \in 1 .. Len(a), n > 1
      PROVE  a[n][1] <= a[n - 1][1] /\ (a[n][1] = a[n - 1][1] => a[n][2] = "super")
  <2>1. n - 1 \in 1 .. Len(a) /\ (n - 1) + 1 = n
    BY <1>2, <1>8
  <2>2. PICK m : m = n - 1
    OBVIOUS
  <2>3. Next_(m) /\ m + 1 = n /\ a[m][1] \in Nodes
    BY <1>2, <1>3, <2>1, <2>2
  <2>4. program[a[m][1]].in \in 0 .. a[m][1] - 1 /\ a[m][1] \in Nat
    BY <2>3, InIsBefore
  <2>5. (a[n][1] = a[m][1] /\ a[n][2] = "super") \/ a[n][1] = program[a[m][1]].in
    BY <2>3
  <2>. QED BY <2>2, <2>4, <2>5
<1>. QED BY <1>7, <1>8

\* What an address by the text means.
Finds(j, name, a, at) ==
  /\ at[1] \in Nat /\ at[2] \in Nat /\ at[1] + 1 \in 1 .. Len(a)
  /\ at[2] + 1 \in 1 .. Len(Declarations(a[at[1] + 1]))
  /\ LET d == Declarations(a[at[1] + 1])[at[2] + 1]
     IN d.name = name /\ d.node < j /\ d.node \in Nat /\ (at[1] > 0 => d.node <= a[at[1]][1])

LEMMA AddressFinds ==
  ASSUME Placed(program), NEW j \in Nodes, NEW name, LexicalAddress(j, name) # <<>>,
         NEW a, a = ScopesAround(j), NEW at, at = LexicalAddress(j, name)
  PROVE  Finds(j, name, a, at)
<1> DEFINE At_(n) == NamedBefore(j, a[n], name)
           holding == {n \in DOMAIN a : At_(n) # {}}
           nearest == Min(holding)
           m == Min(At_(nearest))
<1>1. LexicalAddress(j, name) = IF holding = {} THEN <<>> ELSE <<nearest - 1, m - 1>>
  <2>1. LexicalAddress(j, name) = AddressAmong(ScopesAround(j), j, name)
    BY DEF LexicalAddress, AddressAmong, NamedBefore
  <2>. QED BY <2>1 DEF AddressAmong
<1>2. a \in Seq(ScopeSet) /\ \A n \in 1 .. Len(a) : IsScope(a[n])
  BY ChainAround DEF IsChain
<1>3. holding # {} /\ at = <<nearest - 1, m - 1>>
  BY <1>1
<1>4. Len(a) \in Nat /\ DOMAIN a = 1 .. Len(a)
  BY <1>2
<1>5. nearest \in 1 .. Len(a) /\ At_(nearest) # {}
  <2>1. holding \subseteq Nat
    BY <1>4
  <2> HIDE DEF holding
  <2>2. nearest \in holding
    BY <1>3, <2>1, MinIs
  <2>. QED BY <1>4, <2>2 DEF holding
<1>6. IsScope(a[nearest])
  BY <1>2, <1>5
<1> HIDE DEF nearest
<1> DEFINE s == a[nearest]
           d == Declarations(s)
<1>7. s \in ScopeSet /\ s[1] \in Nodes /\ Typed(s)
  BY <1>6, DeclarationsTyped DEF IsScope
<1>8. m \in 1 .. Len(d) /\ d[m].name = name /\ d[m].node < j /\ d[m].node \in Nat /\ Len(d) \in Nat
  <2>1. At_(nearest) \subseteq DOMAIN d /\ DOMAIN d = 1 .. Len(d) /\ \A k \in 1 .. Len(d) : d[k].node \in Nat
    BY <1>7 DEF NamedBefore, Typed
  <2>2. At_(nearest) \subseteq Nat
    BY <2>1
  <2>3. m \in At_(nearest)
    BY <1>5, <2>2, MinIs
  <2>4. d[m].name = name /\ d[m].node < j /\ m \in DOMAIN d
    BY <2>3 DEF NamedBefore
  <2>5. Len(d) \in Nat
    <3>1. CASE s[2] = "block"
      <4>1. s = <<s[1], "block">>
        BY <1>7, <3>1 DEF ScopeSet
      <4>2. PICK u : u = s[1]
        OBVIOUS
      <4>3. Declarations(<<u, "block">>) \in Seq(DeclarationSet)
        BY <1>7, <4>2, DeclarationsAre
      <4>. QED BY <4>1, <4>2, <4>3
    <3>2. CASE s[2] # "block"
      <4>1. s[2] \in {"this", "super"} /\ s = <<s[1], s[2]>>
        BY <1>7, <3>2 DEF ScopeSet
      <4>2. d = <<[name |-> s[2], node |-> s[1]]>>
        BY <4>1, DeclarationsOfWord
      <4>. QED BY <4>2
    <3>. QED BY <3>1, <3>2
  <2>. QED BY <2>1, <2>4, <2>5
<1> HIDE DEF m
<1>9. ASSUME nearest > 1
      PROVE  d[m].node <= a[nearest - 1][1]
  <2> DEFINE k == d[m].node
             o == a[nearest - 1][1]
  <2>1. /\ nearest - 1 \in 1 .. Len(a) /\ a[nearest][1] <= o
        /\ (a[nearest][1] = o => a[nearest][2] = "super") /\ o \in OpenIn(program, j - 1)
    <3>1. nearest - 1 \in 1 .. Len(a)
      BY <1>4, <1>5, <1>9
    <3>2. /\ \A n \in 1 .. Len(a) : a[n][1] \in OpenIn(program, j - 1)
          /\ \A n \in 1 .. Len(a) : n > 1 => a[n][1] <= a[n - 1][1] /\ (a[n][1] = a[n - 1][1] => a[n][2] = "super")
      BY ChainOpen
    <3>. QED BY <1>5, <1>9, <3>1, <3>2
  <2>2. o \in Nat /\ s[1] \in Nat /\ j \in Nat /\ j - 1 \in Nat /\ j - 1 <= Len(program) /\ Len(program) \in Nat
    BY <1>7, <2>1 DEF OpenIn, ScopeSet, Nodes, Placed
  <2>3. CASE s[2] # "block"
    <3>1. s[2] \in {"this", "super"} /\ s = <<s[1], s[2]>>
      BY <1>7, <2>3 DEF ScopeSet
    <3>2. d = <<[name |-> s[2], node |-> s[1]]>>
      BY <3>1, DeclarationsOfWord
    <3>3. m = 1
      BY <1>8, <3>2
    <3>4. k = s[1]
      BY <3>2, <3>3
    <3>. QED BY <2>1, <3>4
  <2>4. CASE s[2] = "block"
    <3>1. s = <<s[1], "block">>
      BY <1>7, <2>4 DEF ScopeSet
    <3>2. PICK u : u = s[1]
      OBVIOUS
    <3>3. PICK p : p = Params(u)
      OBVIOUS
    <3>4. d = Declarations(<<u, "block">>) /\ u \in Nodes
      BY <1>7, <3>1, <3>2
    <3> HIDE DEF d
    <3>5. /\ p \in Nat /\ p <= Len(d)
          /\ \A n \in 1 .. p : Declares(d[n], Param(u, n), u)
          /\ \A n \in p + 1 .. Len(d) : d[n].node \in DeclaredIn(u) /\ Declares(d[n], program[d[n].node].name, d[n].node)
      BY <3>3, <3>4, DeclarationsAre
    <3>6. CASE m <= p
      <4>1. k = u
        BY <1>8, <3>5, <3>6 DEF Declares
      <4>. QED BY <2>1, <3>2, <4>1
    <3>7. CASE ~(m <= p)
      <4>1. m \in p + 1 .. Len(d)
        BY <1>8, <3>5, <3>7
      <4>2. k \in Nodes /\ program[k].in = u
        BY <3>5, <4>1 DEF DeclaredIn
      <4>3. u < o
        BY <2>1, <2>2, <2>4, <3>2
      <4> SUFFICES ASSUME o < k
                   PROVE  FALSE
        BY <1>8, <2>2
      <4>4. k <= (j - 1) + 1
        BY <1>8, <2>2
      <4>5. program[k].in >= o
        BY <2>1, <2>2, <4>2, <4>4, WrittenSince
      <4>. QED BY <2>2, <3>2, <4>2, <4>3, <4>5
    <3>. QED BY <3>6, <3>7
  <2>. QED BY <2>3, <2>4
<1>10. at[1] = nearest - 1 /\ at[2] = m - 1
  BY <1>3
<1>11. at[1] + 1 = nearest /\ at[2] + 1 = m /\ at[1] \in Nat /\ at[2] \in Nat
  BY <1>4, <1>5, <1>8, <1>10
<1>12. at[1] > 0 => d[m].node <= a[at[1]][1]
  BY <1>5, <1>9, <1>10, <1>11
<1>. QED BY <1>5, <1>8, <1>11, <1>12 DEF Finds

-----------------------------------------------------------------------------
(* The declarations a scope has made so far *)

\* Declared before p, and not in the middle of being so.
Done(k, p) == k < p /\ k \notin Begun(program, p)
UpTo(u, n, p) ==
  LET d == Declarations(<<u, "block">>)
  IN n <= Len(d) /\ \A m \in 1 .. Len(d) : m <= n <=> Done(d[m].node, p)
SameDone(u, p, q) == \A k \in DeclaredIn(u) \cup {u} : Done(k, q) <=> Done(k, p)
\* k0 alone is declared between p and q, and after all others that were.
OneDone(u, k0, p, q) ==
  /\ k0 \in DeclaredIn(u) /\ u < k0 /\ ~Done(k0, p)
  /\ \A k \in DeclaredIn(u) \cup {u} : /\ Done(k, q) <=> Done(k, p) \/ k = k0
                                       /\ k < k0 => Done(k, p)
                                       /\ k > k0 => ~Done(k, p)
Gains(u, n, k0, q) ==
  LET d == Declarations(<<u, "block">>)
  IN n + 1 \in 1 .. Len(d) /\ d[n + 1].node = k0 /\ d[n + 1].name = program[k0].name /\ UpTo(u, n + 1, q)

LEMMA DeclaringNodes ==
  ASSUME Placed(program), NEW u \in Nodes, NEW d, d = Declarations(<<u, "block">>)
  PROVE  Len(d) \in Nat /\ \A m \in 1 .. Len(d) : d[m].node \in DeclaredIn(u) \cup {u}
<1>1. PICK p : p = Params(u)
  OBVIOUS
<1>2. /\ d \in Seq(DeclarationSet) /\ p \in Nat /\ p <= Len(d)
      /\ \A m \in 1 .. p : Declares(d[m], Param(u, m), u)
      /\ \A m \in p + 1 .. Len(d) : d[m].node \in DeclaredIn(u)
  BY <1>1, DeclarationsAre
<1>3. Len(d) \in Nat
  BY <1>2
<1>4. \A m \in 1 .. Len(d) : m \in 1 .. p \/ m \in p + 1 .. Len(d)
  BY <1>2, <1>3
<1>5. \A m \in 1 .. Len(d) : d[m].node \in DeclaredIn(u) \cup {u}
  BY <1>2, <1>4 DEF Declares
<1>. QED BY <1>3, <1>5

LEMMA UpToSame ==
  ASSUME Placed(program), NEW u \in Nodes, NEW n, NEW p, NEW q, UpTo(u, n, p), SameDone(u, p, q)
  PROVE  UpTo(u, n, q)
<1>1. PICK d : d = Declarations(<<u, "block">>)
  OBVIOUS
<1>2. \A m \in 1 .. Len(d) : d[m].node \in DeclaredIn(u) \cup {u}
  BY <1>1, DeclaringNodes
<1>. QED BY <1>1, <1>2 DEF UpTo, SameDone

LEMMA UpToMore ==
  ASSUME Placed(program), NEW u \in Nodes, NEW n \in Nat, NEW p, NEW q, NEW k0, UpTo(u, n, p), OneDone(u, k0, p, q)
  PROVE  Gains(u, n, k0, q)
<1>1. PICK d : d = Declarations(<<u, "block">>)
  OBVIOUS
<1>2. PICK c : c = Params(u)
  OBVIOUS
<1>3. /\ d \in Seq(DeclarationSet) /\ c \in Nat /\ c <= Len(d)
      /\ \A m \in 1 .. c : Declares(d[m], Param(u, m), u)
      /\ \A m \in c + 1 .. Len(d) : d[m].node \in DeclaredIn(u) /\ Declares(d[m], program[d[m].node].name, d[m].node)
      /\ \A m, k \in c + 1 .. Len(d) : m < k => d[m].node < d[k].node
      /\ \A j \in DeclaredIn(u) : \E m \in c + 1 .. Len(d) : d[m].node = j
  <2>1. /\ d \in Seq(DeclarationSet) /\ c \in Nat /\ c <= Len(d)
        /\ \A m \in 1 .. c : Declares(d[m], Param(u, m), u)
    BY <1>1, <1>2, DeclarationsAre
  <2>2. \A m \in c + 1 .. Len(d) : d[m].node \in DeclaredIn(u) /\ Declares(d[m], program[d[m].node].name, d[m].node)
    BY <1>1, <1>2, DeclarationsAre
  <2>3. \A m, k \in c + 1 .. Len(d) : m < k => d[m].node < d[k].node
    BY <1>1, <1>2, DeclarationsAre
  <2>4. \A j \in DeclaredIn(u) : \E m \in c + 1 .. Len(d) : d[m].node = j
    BY <1>1, <1>2, DeclarationsAre
  <2>. QED BY <2>1, <2>2, <2>3, <2>4
<1>4. Len(d) \in Nat /\ \A m \in 1 .. Len(d) : d[m].node \in DeclaredIn(u) \cup {u}
  BY <1>1, DeclaringNodes
<1>5. k0 \in DeclaredIn(u) /\ u < k0 /\ ~Done(k0, p) /\ u \in Nat /\ DeclaredIn(u) \subseteq Nat
  BY DEF OneDone, DeclaredIn, Nodes
<1>6. PICK m0 \in c + 1 .. Len(d) : d[m0].node = k0
  BY <1>3, <1>5
<1>7. n <= Len(d) /\ \A m \in 1 .. Len(d) : m <= n <=> Done(d[m].node, p)
  BY <1>1 DEF UpTo
<1>8. m0 \in 1 .. Len(d) /\ m0 \in Nat /\ ~(m0 <= n)
  <2>1. m0 \in 1 .. Len(d) /\ m0 \in Nat
    BY <1>3, <1>4
  <2>. QED BY <1>5, <1>6, <1>7, <2>1
<1>9. \A m \in 1 .. Len(d) : m < m0 => d[m].node < k0
  <2> SUFFICES ASSUME NEW m \in 1 .. Len(d), m < m0
               PROVE  d[m].node < k0
    OBVIOUS
  <2>1. m \in 1 .. c \/ m \in c + 1 .. Len(d)
    BY <1>3, <1>4
  <2>2. m \in 1 .. c => d[m].node = u
    BY <1>3 DEF Declares
  <2>3. m \in c + 1 .. Len(d) => d[m].node < d[m0].node
    BY <1>3
  <2>. QED BY <1>5, <1>6, <2>1, <2>2, <2>3
<1>10. \A m \in 1 .. Len(d) : m < m0 => m <= n
  <2> SUFFICES ASSUME NEW m \in 1 .. Len(d), m < m0
               PROVE  m <= n
    OBVIOUS
  <2>1. d[m].node \in DeclaredIn(u) \cup {u} /\ d[m].node < k0
    BY <1>4, <1>9
  <2>2. Done(d[m].node, p)
    BY <2>1 DEF OneDone
  <2>. QED BY <1>7, <2>2
<1>11. m0 = n + 1
  <2>1. m0 > n /\ n \in Nat
    BY <1>8
  <2>2. n + 1 < m0 => n + 1 \in 1 .. Len(d)
    BY <1>4, <1>8
  <2>. QED BY <1>8, <1>10, <2>1, <2>2
<1>12. d[n + 1].name = program[k0].name /\ n + 1 \in 1 .. Len(d)
  <2>1. Declares(d[m0], program[d[m0].node].name, d[m0].node)
    BY <1>3
  <2>. QED BY <1>6, <1>8, <1>11, <2>1 DEF Declares
<1>13. ASSUME NEW m \in 1 .. Len(d)
       PROVE  m <= n + 1 <=> Done(d[m].node, q)
  <2>1. Done(d[m].node, q) <=> Done(d[m].node, p) \/ d[m].node = k0
    BY <1>4 DEF OneDone
  <2>2. Done(d[m].node, p) <=> m <= n
    BY <1>7
  <2>3. d[m].node = k0 <=> m = m0
    <3>1. m < m0 => d[m].node < k0 /\ d[m].node \in Nat
      BY <1>4, <1>5, <1>9
    <3>2. m > m0 => d[m].node > k0 /\ d[m].node \in Nat
      <4>1. m > m0 => m \in c + 1 .. Len(d)
        BY <1>3, <1>4, <1>8
      <4>2. m > m0 => d[m0].node < d[m].node
        BY <1>3, <4>1
      <4>. QED BY <1>4, <1>5, <1>6, <4>2
    <3>. QED BY <1>5, <1>6, <1>8, <3>1, <3>2
  <2>. QED BY <1>11, <2>1, <2>2, <2>3
<1>14. UpTo(u, n + 1, q)
  BY <1>1, <1>12, <1>13 DEF UpTo
<1>. QED BY <1>1, <1>6, <1>11, <1>12, <1>14 DEF Gains

LEMMA BegunBetween ==
  ASSUME TextIsPlaced, NEW p \in Nat, p <= Len(program) + 1, NEW v \in Begun(program, p), NEW k \in v + 1 .. p - 1
  PROVE  program[k].kind \in Expressions
<1>1. v \in 1 .. p - 1 /\ \A d \in v + 1 .. p - 1 : program[d].kind \notin {"define", "body"}
  BY DEF Begun
<1>2. k \in Nodes /\ v \in 1 .. k - 1 /\ \A d \in v + 1 .. k - 1 : d \in v + 1 .. p - 1
  BY <1>1 DEF TextIsPlaced, Placed, Nodes
<1>3. v \in Begun(program, k)
  BY <1>1, <1>2 DEF Begun
<1>4. Continues(program, v, k)
  BY <1>2, <1>3 DEF TextIsPlaced, Grammatical
<1>5. program[k].kind \notin {"define", "body"}
  BY <1>1
<1>. QED BY <1>4, <1>5, ContinuesIs

\* What is begun when node p comes, in u.
LEMMA BegunHere ==
  ASSUME TextIsPlaced, NEW p \in Nodes, NEW v \in Begun(program, p)
  PROVE  /\ Begun(program, p) = {v} /\ v \in Nodes /\ v < p /\ program[v].in = program[p].in
         /\ program[v].kind \in {"var", "class"} /\ Continues(program, v, p)
<1>1. p \in Nat /\ p - 1 \in Nat /\ p - 1 <= Len(program) /\ (p - 1) + 1 = p /\ Placed(program) /\ Nodes = 1 .. Len(program)
  BY DEF TextIsPlaced, Placed, Nodes
<1>2. BegunIn(program, p - 1)
  BY <1>1, BegunIs
<1>3. Begun(program, p) = {v} /\ program[v].in = InnermostIn(program, p - 1)
  BY <1>1, <1>2 DEF BegunIn
<1>4. program[p].in = InnermostIn(program, p - 1)
  BY <1>1 DEF Placed
<1>5. v \in Nodes /\ v < p /\ program[v].kind \in {"var", "class"}
  BY <1>1 DEF Begun
<1>6. Continues(program, v, p)
  BY DEF TextIsPlaced, Grammatical
<1>. QED BY <1>3, <1>4, <1>5, <1>6

\* Where a scope ends nothing is begun, and it has had nothing for what it is in.
LEMMA Skips ==
  ASSUME TextIsPlaced, NEW p \in Nodes, NEW e, IsEndOf(e, p), NEW u, u = program[p].in, u # 0
  PROVE  /\ Begun(program, e + 1) = {} /\ e + 1 \in Nat
         /\ \A k \in DeclaredIn(u) \cup {u} : k \in Nat /\ (k < e + 1 <=> k <= p)
         /\ u < p /\ p \in Nat
<1>1. Placed(program) /\ Nodes = 1 .. Len(program) /\ Len(program) \in Nat
  BY DEF TextIsPlaced, Placed, Nodes
<1>2. e \in Nodes /\ p < e /\ program[e].kind = "end" /\ \A j \in p + 1 .. e : program[j].in >= p /\ program[j].in \in Nat
  BY DEF IsEndOf
<1>3. e \in Nat /\ p \in Nat /\ e >= 1
  BY <1>1, <1>2
<1>4. u \in 0 .. p - 1
  BY <1>1, InIsBefore
<1>5. Begun(program, e + 1) = {}
  <2>1. Begun(program, e) = {}
    <3> SUFFICES ASSUME NEW v \in Begun(program, e)
                 PROVE  FALSE
      OBVIOUS
    <3>1. Continues(program, v, e)
      BY <1>2, BegunHere
    <3>2. program[e].kind \in {"define", "body"} \/ ~IsEnd(program[e])
      BY <3>1, ContinuesIs
    <3>. QED BY <1>2, <3>2 DEF IsEnd
  <2>2. Begun(program, e + 1) = Begun(program, e)
    BY <1>2, <1>3, BegunNext
  <2>. QED BY <2>1, <2>2
<1>6. ASSUME NEW k \in DeclaredIn(u) \cup {u}
      PROVE  k \in Nat /\ (k < e + 1 <=> k <= p)
  <2>1. k \in Nat
    BY <1>1, <1>4 DEF DeclaredIn
  <2>2. CASE k = u
    BY <1>2, <1>3, <1>4, <2>2
  <2>3. CASE k \in DeclaredIn(u)
    <3>1. program[k].in = u
      BY <2>3 DEF DeclaredIn
    <3>2. ~(k \in p + 1 .. e)
      BY <1>2, <1>3, <1>4, <3>1
    <3>. QED BY <1>2, <1>3, <2>1, <3>2
  <2>. QED BY <2>2, <2>3
<1>. QED BY <1>3, <1>4, <1>5, <1>6

LEMMA PlainDone ==
  ASSUME TextIsPlaced, NEW p \in Nodes, NEW u, u = program[p].in, u # 0,
         ~IsOpener(program[p]), ~IsEnd(program[p]), program[p].kind # "define"
  PROVE  SameDone(u, p, p + 1)
<1>1. Placed(program) /\ Nodes = 1 .. Len(program) /\ Len(program) \in Nat /\ p \in Nat /\ p >= 1
  BY DEF TextIsPlaced, Placed, Nodes
<1>2. u \in 0 .. p - 1
  BY <1>1, InIsBefore
<1>3. /\ program[p].kind \in {"var", "class"} => Begun(program, p + 1) = Begun(program, p) \cup {p}
      /\ program[p].kind \notin {"define", "body", "var", "class"} => Begun(program, p + 1) = Begun(program, p)
  BY <1>1, BegunNext
<1>4. program[p].kind \notin {"fun", "body"}
  BY DEF IsOpener, Openers
<1>5. \A k \in DeclaredIn(u) \cup {u} : k \in Nat /\ (k = p => program[p].kind \in {"var", "class"})
  BY <1>1, <1>2, <1>4 DEF DeclaredIn
<1>6. \A k \in Begun(program, p) : k < p
  BY <1>1 DEF Begun
<1>7. CASE program[p].kind \in {"var", "class"}
  <2>1. \A k \in DeclaredIn(u) \cup {u} : Done(k, p + 1) <=> Done(k, p)
    BY <1>1, <1>3, <1>5, <1>7 DEF Done
  <2>. QED BY <2>1 DEF SameDone
<1>8. CASE program[p].kind \notin {"var", "class"}
  <2>1. \A k \in DeclaredIn(u) \cup {u} : Done(k, p + 1) <=> Done(k, p)
    BY <1>1, <1>3, <1>4, <1>5, <1>8 DEF Done
  <2>. QED BY <2>1 DEF SameDone
<1>. QED BY <1>7, <1>8

\* A declaration that has begun is the next to be done.
LEMMA NextDone ==
  ASSUME TextIsPlaced, NEW p \in Nodes, NEW u, u = program[p].in, u # 0, ~IsDeclaration(p),
         NEW v \in Begun(program, p), NEW q \in Nat, Begun(program, q) = {},
         \A k \in DeclaredIn(u) \cup {u} : k < q <=> k <= p
  PROVE  OneDone(u, v, p, q)
<1>1. Placed(program) /\ Nodes = 1 .. Len(program) /\ Len(program) \in Nat /\ p \in Nat /\ p >= 1 /\ p <= Len(program)
  BY DEF TextIsPlaced, Placed, Nodes
<1>2. u \in 0 .. p - 1
  BY <1>1, InIsBefore
<1>3. /\ Begun(program, p) = {v} /\ v \in Nodes /\ v < p /\ program[v].in = u /\ program[v].kind \in {"var", "class"}
  BY BegunHere
<1>4. v \in DeclaredIn(u) /\ u < v /\ ~Done(v, p)
  <2>1. u \in 0 .. v - 1
    BY <1>1, <1>3, InIsBefore
  <2>. QED BY <1>1, <1>3, <2>1 DEF DeclaredIn, Done
<1>5. \A k \in DeclaredIn(u) \cup {u} : k \in Nat /\ k # p
  BY <1>1, <1>2 DEF DeclaredIn, IsDeclaration
<1>6. ASSUME NEW k \in DeclaredIn(u) \cup {u}
      PROVE  /\ Done(k, q) <=> Done(k, p) \/ k = v
             /\ k < v => Done(k, p)
             /\ k > v => ~Done(k, p)
  <2>1. k \in Nat /\ k # p /\ v \in Nat
    BY <1>1, <1>3, <1>5
  <2>2. Done(k, q) <=> k <= p
    BY DEF Done
  <2>3. Done(k, p) <=> k < p /\ k # v
    BY <1>3 DEF Done
  <2>4. k > v => ~(k < p)
    <3> SUFFICES ASSUME k > v, k < p
                 PROVE  FALSE
      OBVIOUS
    <3>1. k \in v + 1 .. p - 1 /\ p <= Len(program) + 1 /\ k # u
      BY <1>1, <1>4, <2>1
    <3>2. program[k].kind \in Expressions
      BY <1>1, <3>1, BegunBetween
    <3>3. program[k].kind \in {"var", "fun", "class"}
      BY <3>1 DEF DeclaredIn
    <3>. QED BY <3>2, <3>3 DEF Expressions
  <2>. QED BY <1>1, <1>3, <2>1, <2>2, <2>3, <2>4
<1>. QED BY <1>4, <1>6 DEF OneDone

LEMMA DefineDone ==
  ASSUME TextIsPlaced, NEW p \in Nodes, NEW u, u = program[p].in, u # 0, program[p].kind = "define"
  PROVE  \E v \in Nodes : OneDone(u, v, p, p + 1) /\ program[v].name = program[p].name
<1>1. Placed(program) /\ Nodes = 1 .. Len(program) /\ Len(program) \in Nat /\ p \in Nat /\ p >= 1
  BY DEF TextIsPlaced, Placed, Nodes
<1>2. PICK v : v \in Begun(program, p)
  BY DEF TextIsPlaced, Grammatical
<1>3. v \in Nodes /\ program[v].kind \in {"var", "class"} /\ Continues(program, v, p)
  BY <1>2, BegunHere
<1>4. program[v].name = program[p].name
  BY <1>3 DEF Continues, Expressions
<1>5. Begun(program, p + 1) = {} /\ p + 1 \in Nat /\ ~IsDeclaration(p)
  BY <1>1, BegunNext DEF IsDeclaration
<1>6. \A k \in DeclaredIn(u) \cup {u} : k < p + 1 <=> k <= p
  <2>1. u \in Nat
    BY <1>1, InIsBefore
  <2>2. \A k \in DeclaredIn(u) \cup {u} : k \in Nat
    BY <1>1, <2>1 DEF DeclaredIn
  <2>. QED BY <1>1, <2>2
<1>7. PICK q : q = p + 1
  OBVIOUS
<1>8. OneDone(u, v, p, q)
  BY <1>2, <1>5, <1>6, <1>7, NextDone
<1>. QED BY <1>3, <1>4, <1>7, <1>8

LEMMA BodyDone ==
  ASSUME TextIsPlaced, NEW p \in Nodes, NEW u, u = program[p].in, u # 0, program[p].kind = "body", NEW e, IsEndOf(e, p)
  PROVE  \E v \in Nodes : OneDone(u, v, p, e + 1) /\ program[v].name = program[p].name
<1>1. PICK v : v \in Begun(program, p)
  BY DEF TextIsPlaced, Grammatical
<1>2. v \in Nodes /\ program[v].kind \in {"var", "class"} /\ Continues(program, v, p)
  BY <1>1, BegunHere
<1>3. program[v].name = program[p].name
  BY <1>2 DEF Continues, Expressions
<1>4. Begun(program, e + 1) = {} /\ e + 1 \in Nat /\ \A k \in DeclaredIn(u) \cup {u} : k < e + 1 <=> k <= p
  BY Skips
<1>5. ~IsDeclaration(p)
  BY DEF IsDeclaration
<1>6. PICK q : q = e + 1
  OBVIOUS
<1>7. OneDone(u, v, p, q)
  BY <1>1, <1>4, <1>5, <1>6, NextDone
<1>. QED BY <1>2, <1>3, <1>6, <1>7

LEMMA NothingBegun ==
  ASSUME TextIsPlaced, NEW p \in Nodes, program[p].kind \notin Expressions \cup {"define", "body"}
  PROVE  Begun(program, p) = {}
<1> SUFFICES ASSUME NEW v \in Begun(program, p)
             PROVE  FALSE
  OBVIOUS
<1>1. Continues(program, v, p)
  BY BegunHere
<1>. QED BY <1>1, ContinuesIs

LEMMA FunDone ==
  ASSUME TextIsPlaced, NEW p \in Nodes, NEW u, u = program[p].in, u # 0, program[p].kind = "fun", NEW e, IsEndOf(e, p)
  PROVE  OneDone(u, p, p, e + 1)
<1>1. Begun(program, p) = {}
  BY NothingBegun DEF Expressions
<1>2. Begun(program, e + 1) = {} /\ u < p /\ p \in Nat /\ \A k \in DeclaredIn(u) \cup {u} : k \in Nat /\ (k < e + 1 <=> k <= p)
  BY Skips
<1>3. p \in DeclaredIn(u)
  BY DEF DeclaredIn
<1>. QED BY <1>1, <1>2, <1>3 DEF OneDone, Done

LEMMA BlockDone ==
  ASSUME TextIsPlaced, NEW p \in Nodes, NEW u, u = program[p].in, u # 0, program[p].kind \in {"block", "if", "while"},
         NEW e, IsEndOf(e, p)
  PROVE  SameDone(u, p, e + 1)
<1>1. Begun(program, p) = {}
  BY NothingBegun DEF Expressions
<1>2. Begun(program, e + 1) = {} /\ u < p /\ p \in Nat /\ \A k \in DeclaredIn(u) \cup {u} : k \in Nat /\ (k < e + 1 <=> k <= p)
  BY Skips
<1>3. \A k \in DeclaredIn(u) \cup {u} : k # p
  BY <1>2 DEF DeclaredIn
<1>. QED BY <1>1, <1>2, <1>3 DEF SameDone, Done

\* A scope begins with its parameters.
LEMMA Entered ==
  ASSUME TextIsPlaced, NEW u \in Nodes, program[u].kind \in Openers \ {"body"}
  PROVE  UpTo(u, Params(u), u + 1)
<1>1. PICK d : d = Declarations(<<u, "block">>)
  OBVIOUS
<1>2. PICK c : c = Params(u)
  OBVIOUS
<1>0. Placed(program) /\ Nodes = 1 .. Len(program) /\ u \in Nat /\ u >= 1
  BY DEF TextIsPlaced, Placed, Nodes
<1>3. /\ d \in Seq(DeclarationSet) /\ c \in Nat /\ c <= Len(d)
      /\ \A m \in 1 .. c : Declares(d[m], Param(u, m), u)
  BY <1>0, <1>1, <1>2, DeclarationsAre
<1>4. \A m \in c + 1 .. Len(d) : d[m].node \in DeclaredIn(u)
  BY <1>0, <1>1, <1>2, DeclarationsAre
<1>5. Begun(program, u + 1) = {}
  <2>1. Begun(program, u) = {}
    BY NothingBegun DEF Openers, Expressions
  <2>2. Begun(program, u + 1) = Begun(program, u)
    BY <1>0, BegunNext DEF Openers
  <2>. QED BY <2>1, <2>2
<1>6. ASSUME NEW m \in 1 .. Len(d)
      PROVE  m <= c <=> Done(d[m].node, u + 1)
  <2>1. CASE m <= c
    <3>1. d[m].node = u
      BY <1>3, <2>1 DEF Declares
    <3>. QED BY <1>0, <1>5, <2>1, <3>1 DEF Done
  <2>2. CASE ~(m <= c)
    <3>1. m \in c + 1 .. Len(d)
      BY <1>3, <2>2
    <3>2. d[m].node \in Nodes /\ program[d[m].node].in = u
      BY <1>4, <3>1 DEF DeclaredIn
    <3>3. u \in 0 .. d[m].node - 1
      BY <1>0, <3>2, InIsBefore
    <3>4. ~(d[m].node < u + 1)
      BY <1>0, <3>2, <3>3
    <3>. QED BY <2>2, <3>4 DEF Done
  <2>. QED BY <2>1, <2>2
<1>. QED BY <1>1, <1>2, <1>3, <1>6 DEF UpTo

-----------------------------------------------------------------------------
(* What the interpreter has made *)

\* The nodes that have been run, or may be.
Known == IF phase = "executing" THEN Len(program) + 1 ELSE line

\* What the resolver has settled about a node.
ReadsItself(j) ==
  program[j].kind = "variable" /\ \E m \in Begun(program, j) : program[m].name = program[j].name /\ InScopeOf(j, m)
Good(j) ==
  /\ program[j].kind \in Uses => AddressGiven(locals, j) = LexicalAddress(j, NameUsed(j))
  /\ ~ReadsItself(j)
  /\ program[j].kind = "return" => InnermostOf(j, Functions) # 0
  /\ program[j].kind = "super" /\ LexicalAddress(j, "super") # <<>> =>
       InnermostOf(j, {"body"}) # 0 /\ IsSubclass(InnermostOf(j, {"body"}))
Runs(u) == \A j \in Nodes : u \in Around(j, Openers) => Good(j)

ObjectValues == [kind : {"object"}, id : Nat]
FunctionValues == [kind : {"function"}, declaration : Nat, closure : Nat, isInitializer : BOOLEAN]
ValueSet == {Nil} \cup ObjectValues \cup FunctionValues
SlotSet == [name : NameSet, value : ValueSet]
EnvSet == [enclosing : Nat, scope : ScopeSet \cup {<<>>}, slots : Seq(SlotSet)]
FrameSet == [opener : Nat, previous : Nat, values : Seq(ValueSet), function : ValueSet, instance : ValueSet]
IsSequence(s) == \E S : s \in Seq(S)
IsInterpreter(i) ==
  /\ i \in [environment : Nat, envs : Seq(EnvSet), globals : {i.globals}, objects : {i.objects}, stack : Seq(FrameSet),
            values : Seq(ValueSet), pc : Nat, status : {"running", "error", "crashed"}]
  /\ IsSequence(i.objects)

\* Environment e is one of scope s, and has what is declared there up to node u.
Stands(i, e, s, u) ==
  /\ e \in 1 .. Len(i.envs) /\ i.envs[e].scope = s
  /\ s # <<>> => \A m \in 1 .. Len(Declarations(s)) : Declarations(s)[m].node <= u => m <= Len(i.envs[e].slots)
FunctionOK(i, f) ==
  /\ f \in FunctionValues
  /\ f.declaration \in Nodes /\ f.declaration < Known /\ program[f.declaration].kind \in Functions /\ Runs(f.declaration)
  /\ Stands(i, f.closure, InnerScope(program[f.declaration].in), f.declaration)
  /\ f.isInitializer => program[f.declaration].kind = "method"
\* A method that is bound to no receiver.
MethodOK(i, f) ==
  /\ f \in FunctionValues
  /\ f.declaration \in Nodes /\ f.declaration < Known /\ program[f.declaration].kind = "method" /\ Runs(f.declaration)
  /\ Stands(i, f.closure, Beyond(<<program[f.declaration].in, "this">>), program[f.declaration].in)
ValueOK(i, v) ==
  \/ v = Nil
  \/ v \in ObjectValues /\ v.id \in 1 .. Len(i.objects)
  \/ FunctionOK(i, v)
AllOK(i, map) == \A name \in DOMAIN map : ValueOK(i, map[name])
MethodsOK(i, map) == \A name \in DOMAIN map : MethodOK(i, map[name])
IsClassValue(i, v) == v \in ObjectValues /\ v.id \in 1 .. Len(i.objects) /\ i.objects[v.id].isClass

EnvFits(i, env) ==
  LET d == Declarations(env.scope)
  IN /\ IsScope(env.scope) /\ env.scope[1] < Known
     /\ Stands(i, env.enclosing, Beyond(env.scope), env.scope[1])
     /\ Len(env.slots) <= Len(d)
     /\ \A m \in 1 .. Len(env.slots) : env.slots[m].name = d[m].name /\ ValueOK(i, env.slots[m].value)
     /\ env.scope[2] # "block" => Len(env.slots) = 1
     /\ env.scope[2] = "super" => IsClassValue(i, env.slots[1].value)
EnvOK(i, e) == i.envs[e].enclosing < e /\ EnvFits(i, i.envs[e])
IsClassObject(i, o, id) ==
  /\ o.isClass
  /\ o \in [isClass : {TRUE}, superclass : Nat, methods : {o.methods}, classMethods : {o.classMethods}, fields : {o.fields}]
  /\ o.superclass < id /\ (o.superclass # 0 => i.objects[o.superclass].isClass)
  /\ MethodsOK(i, o.methods) /\ MethodsOK(i, o.classMethods)
IsInstance(i, o, id) ==
  /\ ~o.isClass /\ o \in [isClass : {FALSE}, class : Nat, fields : {o.fields}]
  /\ o.class \in 1 .. id - 1 /\ i.objects[o.class].isClass
ObjectOK(i, id) ==
  /\ AllOK(i, i.objects[id].fields)
  /\ IsClassObject(i, i.objects[id], id) \/ IsInstance(i, i.objects[id], id)
HeapOK(i) ==
  /\ IsInterpreter(i)
  /\ Len(i.envs) >= 1 /\ i.envs[1] = [enclosing |-> 0, scope |-> <<>>, slots |-> <<>>]
  /\ \A e \in 2 .. Len(i.envs) : EnvOK(i, e)
  /\ \A id \in 1 .. Len(i.objects) : ObjectOK(i, id)
  /\ AllOK(i, i.globals)

\* One state has what another had, and what was made does not change its nature.
Grows(i, q) ==
  /\ Len(i.envs) <= Len(q.envs) /\ Len(i.objects) <= Len(q.objects)
  /\ \A e \in 1 .. Len(i.envs) : q.envs[e].scope = i.envs[e].scope /\ Len(i.envs[e].slots) <= Len(q.envs[e].slots)
  /\ \A id \in 1 .. Len(i.objects) : q.objects[id].isClass = i.objects[id].isClass

LEMMA InterpreterIs ==
  ASSUME NEW i, IsInterpreter(i)
  PROVE  /\ i.environment \in Nat /\ i.envs \in Seq(EnvSet) /\ Len(i.envs) \in Nat /\ Len(i.objects) \in Nat
         /\ i.stack \in Seq(FrameSet) /\ Len(i.stack) \in Nat /\ i.values \in Seq(ValueSet) /\ Len(i.values) \in Nat
         /\ i.pc \in Nat /\ i.status \in {"running", "error", "crashed"}
         /\ \A e \in 1 .. Len(i.envs) : i.envs[e] \in EnvSet /\ Len(i.envs[e].slots) \in Nat /\ i.envs[e].enclosing \in Nat
                                        /\ i.envs[e].slots \in Seq(SlotSet)
<1>1. /\ i.environment \in Nat /\ i.envs \in Seq(EnvSet)
      /\ i.stack \in Seq(FrameSet) /\ i.values \in Seq(ValueSet)
      /\ i.pc \in Nat /\ i.status \in {"running", "error", "crashed"}
  BY DEF IsInterpreter
<1>2. PICK S : i.objects \in Seq(S)
  BY DEF IsInterpreter, IsSequence
<1>3. \A e \in 1 .. Len(i.envs) : i.envs[e] \in EnvSet
  BY <1>1
<1>4. \A r \in EnvSet : Len(r.slots) \in Nat /\ r.enclosing \in Nat /\ r.slots \in Seq(SlotSet)
  BY DEF EnvSet
<1>. QED BY <1>1, <1>2, <1>3, <1>4

LEMMA StandsGrows ==
  ASSUME NEW i, NEW q, IsInterpreter(i), IsInterpreter(q), Grows(i, q), NEW e, NEW s, NEW u, Stands(i, e, s, u)
  PROVE  Stands(q, e, s, u)
<1>1. e \in 1 .. Len(i.envs) /\ e \in 1 .. Len(q.envs) /\ Len(i.envs[e].slots) \in Nat /\ Len(q.envs[e].slots) \in Nat
  <2>1. Len(i.envs) \in Nat /\ Len(q.envs) \in Nat /\ Len(i.envs) <= Len(q.envs)
    BY InterpreterIs DEF Grows
  <2>2. e \in 1 .. Len(i.envs)
    BY DEF Stands
  <2>3. e \in 1 .. Len(q.envs)
    BY <2>1, <2>2
  <2>. QED BY <2>2, <2>3, InterpreterIs
<1>2. q.envs[e].scope = i.envs[e].scope /\ Len(i.envs[e].slots) <= Len(q.envs[e].slots)
  BY <1>1 DEF Grows
<1>3. PICK a \in Nat, b \in Nat : a = Len(i.envs[e].slots) /\ b = Len(q.envs[e].slots)
  BY <1>1
<1>4. a <= b
  BY <1>2, <1>3
<1>5. ASSUME s # <<>>, NEW m \in 1 .. Len(Declarations(s)), Declarations(s)[m].node <= u
      PROVE  m <= b
  <2>1. m <= a /\ m \in Int
    BY <1>3, <1>5 DEF Stands
  <2>. QED BY <1>4, <2>1
<1>. QED BY <1>1, <1>2, <1>3, <1>5 DEF Stands

LEMMA ValuesGrow ==
  ASSUME NEW i, NEW q, IsInterpreter(i), IsInterpreter(q), Grows(i, q)
  PROVE  /\ \A f : FunctionOK(i, f) => FunctionOK(q, f)
         /\ \A f : MethodOK(i, f) => MethodOK(q, f)
         /\ \A v : ValueOK(i, v) => ValueOK(q, v)
         /\ \A v : IsClassValue(i, v) => IsClassValue(q, v)
<1>1. \A e, s, u : Stands(i, e, s, u) => Stands(q, e, s, u)
  BY StandsGrows
<1>2. Len(i.objects) \in Nat /\ Len(q.objects) \in Nat /\ Len(i.objects) <= Len(q.objects)
  BY InterpreterIs DEF Grows
<1>3. \A id \in 1 .. Len(i.objects) : id \in 1 .. Len(q.objects) /\ q.objects[id].isClass = i.objects[id].isClass
  BY <1>2 DEF Grows
<1>4. \A f : FunctionOK(i, f) => FunctionOK(q, f)
  BY <1>1 DEF FunctionOK
<1>5. \A f : MethodOK(i, f) => MethodOK(q, f)
  BY <1>1 DEF MethodOK
<1>6. \A v : ValueOK(i, v) => ValueOK(q, v)
  BY <1>3, <1>4 DEF ValueOK
<1>7. \A v : IsClassValue(i, v) => IsClassValue(q, v)
  BY <1>3 DEF IsClassValue
<1>. QED BY <1>4, <1>5, <1>6, <1>7

LEMMA EnvGrows ==
  ASSUME NEW i, NEW q, IsInterpreter(i), IsInterpreter(q), Grows(i, q)
  PROVE  \A env : EnvFits(i, env) => EnvFits(q, env)
<1> SUFFICES ASSUME NEW env, EnvFits(i, env)
             PROVE  EnvFits(q, env)
  OBVIOUS
<1>2. Stands(i, env.enclosing, Beyond(env.scope), env.scope[1])
  BY DEF EnvFits
<1>3. Stands(q, env.enclosing, Beyond(env.scope), env.scope[1])
  BY <1>2, StandsGrows
<1>4. /\ \A v : ValueOK(i, v) => ValueOK(q, v)
      /\ \A v : IsClassValue(i, v) => IsClassValue(q, v)
  BY ValuesGrow
<1>. QED BY <1>3, <1>4 DEF EnvFits

LEMMA ObjectGrows ==
  ASSUME NEW i, NEW q, IsInterpreter(i), IsInterpreter(q), Grows(i, q), NEW id \in 1 .. Len(i.objects),
         q.objects[id] = i.objects[id], ObjectOK(i, id)
  PROVE  ObjectOK(q, id)
<1>1. PICK o : o = i.objects[id]
  OBVIOUS
<1>2. Len(i.objects) \in Nat
  BY InterpreterIs
<1>3. /\ \A f : MethodOK(i, f) => MethodOK(q, f)
      /\ \A v : ValueOK(i, v) => ValueOK(q, v)
  BY ValuesGrow
<1>4. AllOK(q, o.fields)
  BY <1>1, <1>3 DEF ObjectOK, AllOK
<1>5. \A c \in 1 .. id - 1 : c \in 1 .. Len(i.objects)
  BY <1>2
<1>6. \A c \in 1 .. id - 1 : q.objects[c].isClass = i.objects[c].isClass
  BY <1>5 DEF Grows
<1>7. CASE IsInstance(i, o, id)
  <2>1. IsInstance(q, o, id)
    BY <1>6, <1>7 DEF IsInstance
  <2>. QED BY <1>1, <1>4, <2>1 DEF ObjectOK
<1>8. CASE IsClassObject(i, o, id)
  <2>1. o.superclass \in Nat /\ o.superclass < id
    BY <1>8 DEF IsClassObject
  <2>2. o.superclass # 0 => o.superclass \in 1 .. id - 1
    BY <1>2, <2>1
  <2>3. MethodsOK(q, o.methods) /\ MethodsOK(q, o.classMethods)
    BY <1>3, <1>8 DEF IsClassObject, MethodsOK
  <2>4. IsClassObject(q, o, id)
    BY <1>6, <1>8, <2>2, <2>3 DEF IsClassObject
  <2>. QED BY <1>1, <1>4, <2>4 DEF ObjectOK
<1>. QED BY <1>1, <1>7, <1>8 DEF ObjectOK

\* What is left as it was need not be looked at again.
LEMMA HeapKept ==
  ASSUME NEW i, NEW q, HeapOK(i), IsInterpreter(q), Grows(i, q), q.envs[1] = i.envs[1],
         \A e \in 2 .. Len(q.envs) : (e <= Len(i.envs) /\ q.envs[e] = i.envs[e]) \/ EnvOK(q, e),
         \A id \in 1 .. Len(q.objects) : (id <= Len(i.objects) /\ q.objects[id] = i.objects[id]) \/ ObjectOK(q, id),
         q.globals = i.globals \/ AllOK(q, q.globals)
  PROVE  HeapOK(q)
<1>1. IsInterpreter(i) /\ Len(i.envs) >= 1 /\ Len(i.envs) \in Nat /\ Len(q.envs) \in Nat /\ Len(i.objects) \in Nat
      /\ Len(q.objects) \in Nat /\ Len(i.envs) <= Len(q.envs)
  BY InterpreterIs DEF HeapOK, Grows
<1>2. ASSUME NEW e \in 2 .. Len(q.envs)
      PROVE  EnvOK(q, e)
  <2> SUFFICES ASSUME e <= Len(i.envs), q.envs[e] = i.envs[e]
               PROVE  EnvOK(q, e)
    OBVIOUS
  <2>1. e \in 2 .. Len(i.envs)
    BY <1>1
  <2>2. EnvOK(i, e)
    BY <2>1 DEF HeapOK
  <2>. QED BY <1>1, <2>2, EnvGrows DEF EnvOK
<1>3. ASSUME NEW id \in 1 .. Len(q.objects)
      PROVE  ObjectOK(q, id)
  <2> SUFFICES ASSUME id <= Len(i.objects), q.objects[id] = i.objects[id]
               PROVE  ObjectOK(q, id)
    OBVIOUS
  <2>1. id \in 1 .. Len(i.objects)
    BY <1>1
  <2>2. ObjectOK(i, id)
    BY <2>1 DEF HeapOK
  <2>. QED BY <1>1, <2>1, <2>2, ObjectGrows
<1>4. AllOK(q, q.globals)
  <2>1. AllOK(i, i.globals)
    BY DEF HeapOK
  <2>2. \A v : ValueOK(i, v) => ValueOK(q, v)
    BY <1>1, ValuesGrow
  <2>3. q.globals = i.globals => AllOK(q, q.globals)
    BY <2>1, <2>2 DEF AllOK
  <2>. QED BY <2>3
<1>5. Len(q.envs) >= 1
  BY <1>1
<1>6. q.envs[1] = [enclosing |-> 0, scope |-> <<>>, slots |-> <<>>]
  BY DEF HeapOK
<1>. QED BY <1>2, <1>3, <1>4, <1>5, <1>6 DEF HeapOK

-----------------------------------------------------------------------------
(* What a change of the heap leaves *)

SameControl(i, q) ==
  q.environment = i.environment /\ q.stack = i.stack /\ q.values = i.values /\ q.pc = i.pc /\ q.status = i.status
SameHeap(i, q) == q.envs = i.envs /\ q.objects = i.objects /\ q.globals = i.globals

LEMMA HeapSame ==
  ASSUME NEW i, NEW q, HeapOK(i), IsInterpreter(q), SameHeap(i, q)
  PROVE  HeapOK(q) /\ Grows(i, q)
<1>1. Grows(i, q)
  <2>1. Len(i.envs) \in Nat /\ Len(i.objects) \in Nat /\ \A e \in 1 .. Len(i.envs) : Len(i.envs[e].slots) \in Nat
    BY InterpreterIs DEF HeapOK
  <2>. QED BY <2>1 DEF Grows, SameHeap
<1>. QED BY <1>1, HeapKept DEF SameHeap

\* One more environment.
LEMMA EnvironmentAdded ==
  ASSUME NEW i, IsInterpreter(i), NEW enclosing, NEW scope, NEW slots,
         NEW env, env = [enclosing |-> enclosing, scope |-> scope, slots |-> slots], env \in EnvSet,
         NEW q, q = NewEnvironment(i, enclosing, scope, slots)
  PROVE  /\ IsInterpreter(q) /\ Grows(i, q) /\ SameControl(i, q) /\ q.objects = i.objects /\ q.globals = i.globals
         /\ Len(q.envs) = Len(i.envs) + 1 /\ q.envs[Len(i.envs) + 1] = env
         /\ \A e \in 1 .. Len(i.envs) : q.envs[e] = i.envs[e]
<1> DEFINE l == Len(i.envs)
<1>1. l \in Nat /\ i.envs \in Seq(EnvSet) /\ Len(i.objects) \in Nat
  BY InterpreterIs
<1>2. /\ q.envs = Append(i.envs, env) /\ SameControl(i, q) /\ q.objects = i.objects /\ q.globals = i.globals
  BY DEF NewEnvironment, IsInterpreter, SameControl
<1>3. Len(q.envs) = l + 1 /\ q.envs[l + 1] = env /\ q.envs \in Seq(EnvSet) /\ \A e \in 1 .. l : q.envs[e] = i.envs[e]
  BY <1>1, <1>2
<1>4. IsInterpreter(q)
  BY <1>1, <1>2, <1>3 DEF NewEnvironment, IsInterpreter
<1>5. Grows(i, q)
  <2>1. \A e \in 1 .. l : Len(i.envs[e].slots) \in Nat
    BY InterpreterIs
  <2>. QED BY <1>1, <1>2, <1>3, <2>1 DEF Grows
<1>. QED BY <1>2, <1>3, <1>4, <1>5

LEMMA EnvironmentMade ==
  ASSUME NEW i, HeapOK(i), NEW enclosing, NEW scope, NEW slots,
         NEW env, env = [enclosing |-> enclosing, scope |-> scope, slots |-> slots], env \in EnvSet, EnvFits(i, env),
         NEW q, q = NewEnvironment(i, enclosing, scope, slots)
  PROVE  /\ HeapOK(q) /\ Grows(i, q) /\ SameControl(i, q) /\ q.objects = i.objects /\ q.globals = i.globals
         /\ Len(q.envs) = Len(i.envs) + 1 /\ q.envs[Len(i.envs) + 1] = env
         /\ \A e \in 1 .. Len(i.envs) : q.envs[e] = i.envs[e]
<1> DEFINE l == Len(i.envs)
<1>1. IsInterpreter(i) /\ l \in Nat /\ l >= 1 /\ i.envs \in Seq(EnvSet) /\ Len(i.objects) \in Nat
  BY InterpreterIs DEF HeapOK
<1>2. /\ IsInterpreter(q) /\ Grows(i, q) /\ SameControl(i, q) /\ q.objects = i.objects /\ q.globals = i.globals
      /\ Len(q.envs) = l + 1 /\ q.envs[l + 1] = env /\ \A e \in 1 .. l : q.envs[e] = i.envs[e]
  BY <1>1, EnvironmentAdded
<1>6. EnvOK(q, l + 1)
  <2>1. EnvFits(q, env)
    BY <1>1, <1>2, EnvGrows
  <2>2. env.enclosing \in 1 .. l
    BY DEF EnvFits, Stands
  <2>. QED BY <1>1, <1>2, <2>1, <2>2 DEF EnvOK
<1>7. \A e \in 2 .. Len(q.envs) : (e <= l /\ q.envs[e] = i.envs[e]) \/ EnvOK(q, e)
  <2>1. \A e \in 2 .. Len(q.envs) : e <= l \/ e = l + 1
    BY <1>1, <1>2
  <2>. QED BY <1>1, <1>2, <1>6, <2>1
<1>8. \A id \in 1 .. Len(q.objects) : (id <= Len(i.objects) /\ q.objects[id] = i.objects[id]) \/ ObjectOK(q, id)
  BY <1>1, <1>2
<1>9. q.envs[1] = i.envs[1]
  BY <1>1, <1>2
<1>10. HeapOK(q)
  BY <1>1, <1>2, <1>7, <1>8, <1>9, HeapKept
<1>. QED BY <1>2, <1>10

LEMMA OneReplaced ==
  ASSUME NEW S, NEW s \in Seq(S), NEW e \in 1 .. Len(s), NEW x \in S, NEW w, w = [s EXCEPT ![e] = x]
  PROVE  w \in Seq(S) /\ Len(w) = Len(s) /\ w[e] = x /\ \A k \in 1 .. Len(s) : k # e => w[k] = s[k]
<1>1. \A k \in 1 .. Len(s) : s[k] \in S
  OBVIOUS
<1>2. w \in [1 .. Len(s) -> S] /\ Len(s) \in Nat
  BY <1>1
<1>3. w \in Seq(S) /\ Len(w) = Len(s)
  BY <1>2
<1>. QED BY <1>3

\* Other slots in an environment.
Replaces(i, e, slots, q) ==
  /\ IsInterpreter(q) /\ Grows(i, q) /\ SameControl(i, q) /\ q.objects = i.objects /\ q.globals = i.globals
  /\ Len(q.envs) = Len(i.envs) /\ q.envs[e] = [i.envs[e] EXCEPT !.slots = slots]
  /\ \A k \in 1 .. Len(i.envs) : k # e => q.envs[k] = i.envs[k]
LEMMA SlotsReplaced ==
  ASSUME NEW i, IsInterpreter(i), NEW e \in 1 .. Len(i.envs), NEW slots \in Seq(SlotSet), Len(i.envs[e].slots) <= Len(slots),
         NEW q, q = [i EXCEPT !.envs[e].slots = slots]
  PROVE  Replaces(i, e, slots, q)
<1> DEFINE l == Len(i.envs)
           new == [i.envs[e] EXCEPT !.slots = slots]
<1>1. l \in Nat /\ i.envs \in Seq(EnvSet) /\ Len(i.objects) \in Nat /\ i.envs[e] \in EnvSet
  BY InterpreterIs
<1>2. new \in EnvSet /\ new.scope = i.envs[e].scope /\ new.slots = slots
  BY <1>1 DEF EnvSet
<1>3. /\ q.envs = [i.envs EXCEPT ![e] = new] /\ SameControl(i, q) /\ q.objects = i.objects /\ q.globals = i.globals
  BY <1>1 DEF IsInterpreter, SameControl
<1> HIDE DEF new
<1>4. q.envs \in Seq(EnvSet) /\ Len(q.envs) = l /\ q.envs[e] = new /\ \A k \in 1 .. l : k # e => q.envs[k] = i.envs[k]
  <2>1. PICK s, w : s = i.envs /\ w = q.envs
    OBVIOUS
  <2>2. s \in Seq(EnvSet) /\ e \in 1 .. Len(s) /\ new \in EnvSet /\ w = [s EXCEPT ![e] = new]
    BY <1>1, <1>2, <1>3, <2>1
  <2>3. w \in Seq(EnvSet) /\ Len(w) = Len(s) /\ w[e] = new /\ \A k \in 1 .. Len(s) : k # e => w[k] = s[k]
    BY <2>2, OneReplaced
  <2>. QED BY <2>1, <2>3
<1>5. q = [i EXCEPT !.envs = q.envs]
  BY <1>3 DEF IsInterpreter, new
<1>6. IsInterpreter(q)
  BY <1>3, <1>4, <1>5 DEF IsInterpreter
<1>7. Grows(i, q)
  <2>1. \A k \in 1 .. l : Len(i.envs[k].slots) \in Nat
    BY <1>1, InterpreterIs
  <2>2. ASSUME NEW k \in 1 .. l
        PROVE  q.envs[k].scope = i.envs[k].scope /\ Len(i.envs[k].slots) <= Len(q.envs[k].slots)
    <3>1. CASE k = e
      BY <1>2, <1>4, <3>1
    <3>2. CASE k # e
      BY <1>4, <2>1, <3>2
    <3>. QED BY <3>1, <3>2
  <2>. QED BY <1>1, <1>3, <1>4, <2>2 DEF Grows
<1>. QED BY <1>3, <1>4, <1>6, <1>7 DEF new, Replaces

\* One more object.
WithObject(i, o) == [i EXCEPT !.objects = Append(@, o)]
LEMMA ObjectMade ==
  ASSUME NEW i, IsInterpreter(i), NEW o, NEW q, q = WithObject(i, o)
  PROVE  /\ IsInterpreter(q) /\ Grows(i, q) /\ SameControl(i, q) /\ q.envs = i.envs /\ q.globals = i.globals
         /\ Len(q.objects) = Len(i.objects) + 1 /\ q.objects[Len(i.objects) + 1] = o
         /\ \A id \in 1 .. Len(i.objects) : q.objects[id] = i.objects[id]
<1> DEFINE l == Len(i.objects)
<1>1. PICK S : i.objects \in Seq(S)
  BY DEF IsInterpreter, IsSequence
<1>2. q.objects = Append(i.objects, o) /\ SameControl(i, q) /\ q.envs = i.envs /\ q.globals = i.globals
  BY DEF IsInterpreter, SameControl, WithObject
<1>3. PICK T : T = S \cup {o}
  OBVIOUS
<1>4. i.objects \in Seq(T) /\ o \in T
  BY <1>1, <1>3
<1>5. q.objects \in Seq(T) /\ Len(q.objects) = l + 1 /\ q.objects[l + 1] = o /\ \A id \in 1 .. l : q.objects[id] = i.objects[id]
  BY <1>2, <1>4
<1>6. IsInterpreter(q)
  BY <1>2, <1>5 DEF IsInterpreter, IsSequence, WithObject
<1>7. Grows(i, q)
  <2>1. l \in Nat /\ Len(i.envs) \in Nat /\ \A e \in 1 .. Len(i.envs) : Len(i.envs[e].slots) \in Nat
    BY InterpreterIs
  <2>. QED BY <1>2, <1>5, <2>1 DEF Grows
<1>. QED BY <1>2, <1>5, <1>6, <1>7

\* Other fields of an object.
LEMMA FieldsReplaced ==
  ASSUME NEW i, HeapOK(i), NEW id \in 1 .. Len(i.objects), NEW map, AllOK(i, map), NEW q, q = [i EXCEPT !.objects[id].fields = map]
  PROVE  /\ HeapOK(q) /\ Grows(i, q) /\ SameControl(i, q) /\ q.envs = i.envs /\ q.globals = i.globals
         /\ Len(q.objects) = Len(i.objects)
<1> DEFINE l == Len(i.objects)
           o == i.objects[id]
           new == [o EXCEPT !.fields = map]
<1>0. IsInterpreter(i)
  BY DEF HeapOK
<1>1. PICK S : i.objects \in Seq(S)
  BY <1>0 DEF IsInterpreter, IsSequence
<1>2. q.objects = [i.objects EXCEPT ![id] = new] /\ SameControl(i, q) /\ q.envs = i.envs /\ q.globals = i.globals
  BY <1>0 DEF IsInterpreter, SameControl
<1>a. q = [i EXCEPT !.objects = q.objects]
  BY <1>0, <1>2 DEF IsInterpreter
<1>b. ObjectOK(i, id) /\ l \in Nat /\ Len(i.envs) \in Nat /\ \A e \in 1 .. Len(i.envs) : Len(i.envs[e].slots) \in Nat
  BY <1>0, InterpreterIs DEF HeapOK
<1>c. new.fields = map /\ new.isClass = o.isClass
  BY <1>b DEF ObjectOK, IsClassObject, IsInstance
<1>d. IsClassObject(i, o, id) => IsClassObject(i, new, id)
  BY DEF IsClassObject
<1>e. IsInstance(i, o, id) => IsInstance(i, new, id)
  BY DEF IsInstance
<1> HIDE DEF new
<1>3. PICK T : T = S \cup {new}
  OBVIOUS
<1>4. i.objects \in Seq(T) /\ new \in T
  BY <1>1, <1>3
<1>5. q.objects \in Seq(T) /\ Len(q.objects) = l /\ q.objects[id] = new /\ \A k \in 1 .. l : k # id => q.objects[k] = i.objects[k]
  <2>1. PICK s, w : s = i.objects /\ w = q.objects
    OBVIOUS
  <2>2. s \in Seq(T) /\ id \in 1 .. Len(s) /\ new \in T /\ w = [s EXCEPT ![id] = new]
    BY <1>2, <1>4, <2>1
  <2>3. w \in Seq(T) /\ Len(w) = Len(s) /\ w[id] = new /\ \A k \in 1 .. Len(s) : k # id => w[k] = s[k]
    BY <2>2, OneReplaced
  <2>. QED BY <2>1, <2>3
<1>6. IsInterpreter(q)
  BY <1>0, <1>2, <1>5, <1>a DEF IsInterpreter, IsSequence
<1>7. Grows(i, q)
  BY <1>2, <1>5, <1>b, <1>c DEF Grows
<1>8. ObjectOK(q, id)
  <2>1. PICK p : p = [i EXCEPT !.objects[id].fields = map]
    OBVIOUS
  <2>2. \A v : ValueOK(i, v) => ValueOK(q, v)
    BY <1>0, <1>6, <1>7, ValuesGrow
  <2>3. AllOK(q, map)
    BY <2>2 DEF AllOK
  <2>4. \A f : MethodOK(i, f) => MethodOK(q, f)
    BY <1>0, <1>6, <1>7, ValuesGrow
  <2>5. \A k \in 1 .. id - 1 : q.objects[k].isClass = i.objects[k].isClass
    BY <1>5, <1>b
  <2>6. CASE IsClassObject(i, o, id)
    <3>1. IsClassObject(i, new, id)
      BY <1>d, <2>6
    <3>2. new.superclass \in Nat /\ (new.superclass # 0 => new.superclass \in 1 .. id - 1)
      BY <3>1, <1>b DEF IsClassObject
    <3>3. MethodsOK(q, new.methods) /\ MethodsOK(q, new.classMethods)
      BY <2>4, <3>1 DEF IsClassObject, MethodsOK
    <3>4. IsClassObject(q, new, id)
      BY <2>5, <3>1, <3>2, <3>3 DEF IsClassObject
    <3>. QED BY <1>5, <1>c, <2>3, <3>4 DEF ObjectOK
  <2>7. CASE IsInstance(i, o, id)
    <3>1. IsInstance(q, new, id)
      BY <1>e, <2>5, <2>7 DEF IsInstance
    <3>. QED BY <1>5, <1>c, <2>3, <3>1 DEF ObjectOK
  <2>. QED BY <1>b, <2>6, <2>7 DEF ObjectOK
<1>9. \A k \in 1 .. Len(q.objects) : (k <= l /\ q.objects[k] = i.objects[k]) \/ ObjectOK(q, k)
  BY <1>5, <1>8, <1>b
<1>10. \A e \in 2 .. Len(q.envs) : (e <= Len(i.envs) /\ q.envs[e] = i.envs[e]) \/ EnvOK(q, e)
  BY <1>2, <1>b
<1>11. HeapOK(q)
  BY <1>2, <1>6, <1>7, <1>9, <1>10, HeapKept
<1>. QED BY <1>2, <1>5, <1>7, <1>11

LEMMA AssignedIs ==
  ASSUME NEW i, NEW q, IsInterpreter(i), IsInterpreter(q), Grows(i, q), NEW map, AllOK(i, map), NEW name, NEW v, ValueOK(q, v)
  PROVE  AllOK(q, Assigned(map, name, v))
<1>1. \A x : ValueOK(i, x) => ValueOK(q, x)
  BY ValuesGrow
<1>. QED BY <1>1 DEF AllOK, Assigned

LEMMA ValueTypes ==
  ASSUME NEW i
  PROVE  /\ \A v : ValueOK(i, v) => v \in ValueSet
         /\ \A v : IsClassValue(i, v) => ValueOK(i, v) /\ IsObject(v) /\ v.id \in 1 .. Len(i.objects) /\ v.id \in Nat
                                         /\ i.objects[v.id].isClass
         /\ \A f : FunctionOK(i, f) => ValueOK(i, f)
         /\ \A id \in Nat : Object(id) \in ObjectValues /\ Object(id).id = id
         /\ \A v \in ObjectValues : IsObject(v) /\ v.id \in Nat /\ v # Nil /\ v = Object(v.id)
         /\ \A v \in FunctionValues : ~IsObject(v) /\ v.kind = "function" /\ v # Nil
         /\ \A v : ValueOK(i, v) /\ IsObject(v) => v \in ObjectValues /\ v.id \in 1 .. Len(i.objects)
         /\ \A v : ValueOK(i, v) /\ v.kind = "function" => FunctionOK(i, v)
<1>1. Nil.kind = "nil"
  BY DEF Nil
<1>2. \A v \in ObjectValues : v.kind = "object" /\ v.id \in Nat /\ v = [kind |-> "object", id |-> v.id]
  BY DEF ObjectValues
<1>3. \A v \in FunctionValues : v.kind = "function"
  BY DEF FunctionValues
<1>4. \A id \in Nat : Object(id) \in ObjectValues /\ Object(id).id = id
  BY DEF Object, ObjectValues
<1>5. \A v : FunctionOK(i, v) => v \in FunctionValues
  BY DEF FunctionOK
<1>6. \A v : ValueOK(i, v) <=> v = Nil \/ (v \in ObjectValues /\ v.id \in 1 .. Len(i.objects)) \/ FunctionOK(i, v)
  BY DEF ValueOK
<1>7. \A v : IsClassValue(i, v) => v \in ObjectValues /\ v.id \in 1 .. Len(i.objects) /\ i.objects[v.id].isClass
  BY DEF IsClassValue
<1>8. \A v \in ObjectValues : v = Object(v.id)
  BY <1>2 DEF Object
<1>. QED BY <1>1, <1>2, <1>3, <1>4, <1>5, <1>6, <1>7, <1>8 DEF IsObject, ValueSet

\* Only the globals are in no other environment.
LEMMA OnlyGlobals ==
  ASSUME NEW i, HeapOK(i), NEW e \in 1 .. Len(i.envs)
  PROVE  /\ i.envs[e].enclosing = 0 <=> e = globals
         /\ e = globals <=> i.envs[e].scope = <<>>
         /\ e # globals => EnvOK(i, e) /\ i.envs[e].enclosing \in 1 .. Len(i.envs) /\ i.envs[e].scope \in ScopeSet
<1>1. IsInterpreter(i) /\ Len(i.envs) \in Nat /\ i.envs[1].enclosing = 0 /\ i.envs[1].scope = <<>>
  BY InterpreterIs DEF HeapOK
<1>2. ASSUME e # 1
      PROVE  EnvOK(i, e) /\ i.envs[e].enclosing \in 1 .. Len(i.envs) /\ i.envs[e].scope \in ScopeSet
  <2>1. e \in 2 .. Len(i.envs)
    BY <1>1, <1>2
  <2>2. EnvOK(i, e)
    BY <2>1 DEF HeapOK
  <2>. QED BY <2>2 DEF EnvOK, EnvFits, Stands, IsScope
<1>. QED BY <1>1, <1>2, InnerScopeIs DEF globals

OnlyGlobal(i, e) == i.envs[e].enclosing = 0 <=> e = globals
Adds(i, e, name, v, q) ==
  /\ IsInterpreter(q) /\ Grows(i, q) /\ SameControl(i, q) /\ q.objects = i.objects /\ Len(q.envs) = Len(i.envs)
  /\ \A k \in 1 .. Len(i.envs) : k # e => q.envs[k] = i.envs[k]
  /\ e = globals => q.envs = i.envs /\ q.globals = Assigned(i.globals, name, v)
  /\ e # globals => q.globals = i.globals /\ q.envs[e] = [i.envs[e] EXCEPT !.slots = Append(@, SlotFor(name, v))]
LEMMA Defined ==
  ASSUME NEW i, IsInterpreter(i), NEW e \in 1 .. Len(i.envs), OnlyGlobal(i, e),
         NEW name \in NameSet, NEW v \in ValueSet, NEW q, q = Define(i, e, name, v)
  PROVE  Adds(i, e, name, v, q)
<1>1. CASE e = globals
  <2>1. q = [i EXCEPT !.globals = Assigned(@, name, v)]
    BY <1>1 DEF Define, OnlyGlobal
  <2>2. q.envs = i.envs /\ q.globals = Assigned(i.globals, name, v) /\ q.objects = i.objects /\ SameControl(i, q)
    BY <2>1 DEF IsInterpreter, SameControl
  <2>3. IsInterpreter(q)
    BY <2>1, <2>2 DEF IsInterpreter
  <2>4. Grows(i, q)
    <3>1. Len(i.envs) \in Nat /\ Len(i.objects) \in Nat /\ \A k \in 1 .. Len(i.envs) : Len(i.envs[k].slots) \in Nat
      BY InterpreterIs
    <3>. QED BY <2>2, <3>1 DEF Grows
  <2>. QED BY <1>1, <2>2, <2>3, <2>4 DEF Adds
<1>2. CASE e # globals
  <2> DEFINE old == i.envs[e].slots
  <2>1. old \in Seq(SlotSet) /\ SlotFor(name, v) \in SlotSet
    BY InterpreterIs DEF SlotSet, SlotFor
  <2>2. PICK slots : slots = Append(old, SlotFor(name, v))
    OBVIOUS
  <2>3. slots \in Seq(SlotSet) /\ Len(old) <= Len(slots)
    BY <2>1, <2>2
  <2>4. q = [i EXCEPT !.envs[e].slots = slots]
    BY <1>2, <2>2 DEF Define, OnlyGlobal
  <2>5. Replaces(i, e, slots, q)
    BY <2>3, <2>4, SlotsReplaced
  <2>. QED BY <1>2, <2>2, <2>5 DEF Adds, Replaces
<1>. QED BY <1>1, <1>2

\* The next declaration of a scope gets the next slot.
LEMMA SlotGained ==
  ASSUME NEW i, HeapOK(i), NEW e \in 1 .. Len(i.envs), e # globals, NEW q, IsInterpreter(q), Grows(i, q), NEW name, NEW v,
         q.envs[e] = [i.envs[e] EXCEPT !.slots = Append(@, SlotFor(name, v))], ValueOK(q, v),
         i.envs[e].scope[2] = "block",
         NEW n, n = Len(i.envs[e].slots), NEW d, d = Declarations(i.envs[e].scope), Len(d) \in Nat,
         n + 1 <= Len(d), d[n + 1].name = name
  PROVE  EnvOK(q, e)
<1> DEFINE env == i.envs[e]
           new == q.envs[e]
           s == env.slots
<1>1. IsInterpreter(i) /\ env \in EnvSet /\ s \in Seq(SlotSet) /\ n \in Nat
  BY InterpreterIs DEF HeapOK
<1>2. EnvOK(i, e)
  BY OnlyGlobals
<1>3. PICK slots : slots = Append(s, SlotFor(name, v))
  OBVIOUS
<1>4. new = [env EXCEPT !.slots = slots]
  BY <1>3
<1>5. new.scope = env.scope /\ new.enclosing = env.enclosing /\ new.slots = slots
  BY <1>1, <1>4 DEF EnvSet
<1>6. Len(slots) = n + 1 /\ (\A m \in 1 .. n : slots[m] = s[m]) /\ slots[n + 1] = SlotFor(name, v)
  BY <1>1, <1>3
<1>7. SlotFor(name, v).name = name /\ SlotFor(name, v).value = v
  BY DEF SlotFor
<1> HIDE DEF new, env, s
<1>8. \A x : ValueOK(i, x) => ValueOK(q, x)
  BY <1>1, ValuesGrow
<1>9. EnvFits(i, env)
  BY <1>2 DEF EnvOK, env
<1>10. \A m \in 1 .. n : s[m].name = d[m].name /\ ValueOK(i, s[m].value)
  BY <1>9 DEF EnvFits, env, s
<1>11. \A m \in 1 .. n + 1 : slots[m].name = d[m].name /\ ValueOK(q, slots[m].value)
  <2>1. \A m \in 1 .. n + 1 : m \in 1 .. n \/ m = n + 1
    BY <1>1
  <2>. QED BY <1>6, <1>7, <1>8, <1>10, <2>1
<1>12. Stands(q, env.enclosing, Beyond(env.scope), env.scope[1])
  <2>1. Stands(i, env.enclosing, Beyond(env.scope), env.scope[1])
    BY <1>9 DEF EnvFits
  <2>. QED BY <1>1, <2>1, StandsGrows
<1>13. IsScope(env.scope) /\ env.scope[1] < Known
  BY <1>9 DEF EnvFits
<1>14. EnvFits(q, new)
  BY <1>5, <1>6, <1>11, <1>12, <1>13 DEF EnvFits, env
<1>. QED BY <1>2, <1>5, <1>14 DEF EnvOK, new, env

LEMMA DefinedOK ==
  ASSUME NEW i, HeapOK(i), NEW e \in 1 .. Len(i.envs), NEW name \in NameSet, NEW v \in ValueSet, NEW q, q = Define(i, e, name, v),
         e # globals => i.envs[e].scope[2] = "block",
         NEW d, d = Declarations(i.envs[e].scope), Len(d) \in Nat,
         e # globals => Len(i.envs[e].slots) + 1 <= Len(d) /\ d[Len(i.envs[e].slots) + 1].name = name,
         ValueOK(q, v)
  PROVE  HeapOK(q)
<1>1. IsInterpreter(i) /\ OnlyGlobal(i, e) /\ Len(i.objects) \in Nat /\ Len(i.envs) \in Nat /\ Len(i.envs) >= 1
  BY OnlyGlobals, InterpreterIs DEF HeapOK, OnlyGlobal
<1>a. Adds(i, e, name, v, q)
  BY <1>1, Defined
<1>2. /\ IsInterpreter(q) /\ Grows(i, q) /\ q.objects = i.objects /\ Len(q.envs) = Len(i.envs)
      /\ \A k \in 1 .. Len(i.envs) : k # e => q.envs[k] = i.envs[k]
  BY <1>a DEF Adds
<1>3. /\ e = globals => q.envs = i.envs /\ q.globals = Assigned(i.globals, name, v)
      /\ e # globals => q.globals = i.globals /\ q.envs[e] = [i.envs[e] EXCEPT !.slots = Append(@, SlotFor(name, v))]
  BY <1>a DEF Adds
<1>4. \A id \in 1 .. Len(q.objects) : id <= Len(i.objects) /\ q.objects[id] = i.objects[id]
  BY <1>1, <1>2
<1>5. CASE e = globals
  <2>1. AllOK(i, i.globals)
    BY DEF HeapOK
  <2>2. AllOK(q, q.globals)
    BY <1>1, <1>2, <1>3, <1>5, <2>1, AssignedIs
  <2>3. \A k \in 2 .. Len(q.envs) : k <= Len(i.envs) /\ q.envs[k] = i.envs[k]
    BY <1>1, <1>3, <1>5
  <2>. QED BY <1>2, <1>3, <1>4, <1>5, <2>2, <2>3, HeapKept
<1>6. CASE e # globals
  <2>1. EnvOK(q, e)
    BY <1>2, <1>3, <1>6, SlotGained
  <2>2. \A k \in 2 .. Len(q.envs) : (k <= Len(i.envs) /\ q.envs[k] = i.envs[k]) \/ EnvOK(q, k)
    <3>1. \A k \in 2 .. Len(q.envs) : k \in 1 .. Len(i.envs) /\ k <= Len(i.envs)
      BY <1>1, <1>2
    <3>. QED BY <1>2, <2>1, <3>1
  <2>3. q.envs[1] = i.envs[1]
    BY <1>1, <1>2, <1>6 DEF globals
  <2>. QED BY <1>2, <1>3, <1>4, <1>6, <2>2, <2>3, HeapKept
<1>. QED BY <1>5, <1>6

\* A slot of a block takes another value.
LEMMA SlotAssigned ==
  ASSUME NEW i, HeapOK(i), NEW e \in 1 .. Len(i.envs), i.envs[e].scope # <<>>, i.envs[e].scope[2] = "block",
         NEW k \in 1 .. Len(i.envs[e].slots), NEW v, ValueOK(i, v), NEW q, q = [i EXCEPT !.envs[e].slots[k].value = v]
  PROVE  \E slots \in Seq(SlotSet) : Replaces(i, e, slots, q) /\ Len(slots) = Len(i.envs[e].slots) /\ HeapOK(q)
<1> DEFINE old == i.envs[e].slots
<1>1. IsInterpreter(i) /\ i.envs[e] \in EnvSet /\ old \in Seq(SlotSet) /\ Len(old) \in Nat /\ Len(i.envs) \in Nat /\ Len(i.envs) >= 1
      /\ Len(i.objects) \in Nat
  BY InterpreterIs DEF HeapOK
<1>2. v \in ValueSet
  BY ValueTypes
<1>3. PICK x : x = [old[k] EXCEPT !.value = v]
  OBVIOUS
<1>4. x \in SlotSet /\ x.name = old[k].name /\ x.value = v
  <2>1. old[k] \in SlotSet
    BY <1>1
  <2>. QED BY <1>2, <1>3, <2>1 DEF SlotSet
<1>5. PICK slots : slots = [old EXCEPT ![k] = x]
  OBVIOUS
<1>6. slots \in Seq(SlotSet) /\ Len(slots) = Len(old) /\ slots[k] = x /\ \A m \in 1 .. Len(old) : m # k => slots[m] = old[m]
  BY <1>1, <1>4, <1>5, OneReplaced
<1>7. q = [i EXCEPT !.envs[e].slots = slots]
  BY <1>3, <1>5
<1>8. Replaces(i, e, slots, q)
  <2>1. Len(i.envs[e].slots) <= Len(slots)
    BY <1>1, <1>6
  <2>2. IsInterpreter(i) /\ slots \in Seq(SlotSet)
    BY <1>1, <1>6
  <2>. QED BY <1>7, <2>1, <2>2, SlotsReplaced
<1>9. IsInterpreter(q) /\ Grows(i, q) /\ q.objects = i.objects /\ q.globals = i.globals /\ Len(q.envs) = Len(i.envs)
      /\ (\A m \in 1 .. Len(i.envs) : m # e => q.envs[m] = i.envs[m])
  BY <1>8 DEF Replaces
<1>10. PICK env : env = i.envs[e]
  OBVIOUS
<1>11. PICK new : new = q.envs[e]
  OBVIOUS
<1>12. new.scope = env.scope /\ new.enclosing = env.enclosing /\ new.slots = slots /\ env.slots = old
  <2>1. new = [env EXCEPT !.slots = slots]
    BY <1>8, <1>10, <1>11 DEF Replaces
  <2>. QED BY <1>1, <1>10, <2>1 DEF EnvSet
<1>13. e # globals /\ EnvOK(i, e)
  BY OnlyGlobals
<1>14. \A y : ValueOK(i, y) => ValueOK(q, y)
  BY <1>1, <1>9, ValuesGrow
<1>15. EnvFits(q, new)
  <2>1. EnvFits(q, env)
    BY <1>1, <1>9, <1>10, <1>13, EnvGrows DEF EnvOK
  <2>2. env.scope[2] = "block"
    BY <1>10
  <2>3. \A m \in 1 .. Len(old) : slots[m].name = old[m].name /\ (ValueOK(q, old[m].value) => ValueOK(q, slots[m].value))
    BY <1>4, <1>6, <1>14
  <2>4. \A m \in 1 .. Len(slots) : slots[m].name = Declarations(env.scope)[m].name /\ ValueOK(q, slots[m].value)
    BY <1>6, <1>12, <2>1, <2>3 DEF EnvFits
  <2>5. IsScope(env.scope) /\ env.scope[1] < Known /\ Stands(q, env.enclosing, Beyond(env.scope), env.scope[1])
        /\ Len(slots) <= Len(Declarations(env.scope))
    BY <1>6, <1>12, <2>1 DEF EnvFits
  <2>. QED BY <1>12, <2>2, <2>4, <2>5 DEF EnvFits
<1>16. EnvOK(q, e)
  BY <1>10, <1>11, <1>12, <1>13, <1>15 DEF EnvOK
<1>17. \A m \in 2 .. Len(q.envs) : (m <= Len(i.envs) /\ q.envs[m] = i.envs[m]) \/ EnvOK(q, m)
  <2>1. \A m \in 2 .. Len(q.envs) : m \in 1 .. Len(i.envs) /\ m <= Len(i.envs)
    BY <1>1, <1>9
  <2>. QED BY <1>9, <1>16, <2>1
<1>18. q.envs[1] = i.envs[1]
  BY <1>1, <1>9, <1>13 DEF globals
<1>19. \A id \in 1 .. Len(q.objects) : (id <= Len(i.objects) /\ q.objects[id] = i.objects[id]) \/ ObjectOK(q, id)
  BY <1>1, <1>9
<1>20. HeapOK(q)
  BY <1>9, <1>17, <1>18, <1>19, HeapKept
<1>. QED BY <1>6, <1>8, <1>20

-----------------------------------------------------------------------------
(* Where the interpreter is *)

\* The node the innermost of the first k frames is in: the body of a call, or
\* the block itself.
InnerOf(s, k) == IF k = 0 THEN 0 ELSE IF IsCall(s[k]) THEN s[k].function.declaration ELSE s[k].opener
\* Node p is next, directly in node u, and e is the environment for that.
At(i, e, p, u) ==
  /\ p \in 1 .. Len(program) + 1 /\ InnermostIn(program, p - 1) = u
  /\ e \in 1 .. Len(i.envs) /\ i.envs[e].scope = InnerScope(u)
  /\ u = 0 => e = globals /\ p >= line
  /\ u # 0 => /\ u \in Nodes /\ program[u].kind \in Openers \ {"body"} /\ Runs(u)
              /\ UpTo(u, Len(i.envs[e].slots), p)
\* The values are those of the expressions that wait.
Match(i, values, waiting) ==
  /\ Len(values) = Len(waiting)
  /\ \A n \in 1 .. Len(values) : ValueOK(i, values[n]) /\ (program[waiting[n]].kind = "target" => values[n] \in ObjectValues)
FrameHas(i, f) ==
  IF IsCall(f)
  THEN /\ program[f.opener].kind \in {"call", "get", "super"}
       /\ FunctionOK(i, f.function) /\ ValueOK(i, f.instance)
       /\ Match(i, f.values, Leaves(program[f.opener], Operands(program, f.opener - 1)))
  ELSE program[f.opener].kind \in {"block", "if", "while"}
FrameOK(i, s, k) ==
  /\ At(i, s[k].previous, s[k].opener, InnerOf(s, k - 1)) /\ s[k].opener \in Nodes
  /\ \A l \in 1 .. k - 1 : s[l].previous < s[k].previous
  /\ FrameHas(i, s[k])
FramesOK(i) ==
  \A k \in 1 .. Len(i.stack) : FrameOK(i, i.stack, k) /\ i.stack[k].previous < i.environment
Standing(i) ==
  HeapOK(i) /\ At(i, i.environment, i.pc, InnerOf(i.stack, Len(i.stack))) /\ FramesOK(i)

-----------------------------------------------------------------------------
(* The environments around *)

\* The scope a goes with d: where the chain of environments is after d hops.
Hopped(i, base, e, a, d) ==
  /\ d = 0 => e = base
  /\ e \in 1 .. Len(i.envs) /\ i.envs[e].scope = a[d + 1]
  /\ d > 0 => Stands(i, e, a[d + 1], a[d][1])
\* The environments from e up, n hops.
Path(i, e, g, n) ==
  /\ g \in [0 .. n -> 0 .. Len(i.envs)] /\ g[0] = e
  /\ \A d \in 1 .. n : g[d] = IF g[d - 1] = 0 THEN 0 ELSE i.envs[g[d - 1]].enclosing
LEMMA AncestorPath ==
  ASSUME NEW i, HeapOK(i), NEW e \in 1 .. Len(i.envs), NEW n \in Nat
  PROVE  \E g : Path(i, e, g, n) /\ ancestor(i, e, n) = g[n]
<1> DEFINE U == 0 .. Len(i.envs)
           Up(x) == IF x = 0 THEN 0 ELSE i.envs[x].enclosing
           step == [p \in (1 .. n) \X U |-> Up(p[2])]
           Is(g) == g = [d \in 0 .. n |-> IF d = 0 THEN e ELSE Up(g[d - 1])]
           f == CHOOSE g : Is(g)
<1>1. IsInterpreter(i) /\ Len(i.envs) \in Nat /\ e \in U
  BY InterpreterIs DEF HeapOK
<1>2. \A x \in U : Up(x) \in U
  <2> TAKE x \in U
  <2>1. x # 0 => x \in 1 .. Len(i.envs)
    BY <1>1
  <2>2. x # 0 => i.envs[x].enclosing \in U
    BY <2>1, <1>1, OnlyGlobals
  <2>. QED BY <2>2, <1>1
<1>3. \A d \in 1 .. n, x \in U : step[<<d, x>>] = Up(x)
  <2> HIDE DEF U, Up
  <2>. QED OBVIOUS
<1>4. ancestor(i, e, n) = f[n]
  BY DEF ancestor
<1> HIDE DEF U, Up, step, f
<1>5. PICK g : g \in [0 .. n -> U] /\ Unfolds(g, n, e, step)
  <2>1. Steps(step, n, U)
    BY <1>2, <1>3 DEF Steps
  <2>. QED BY <1>1, <2>1, Recursion
<1>6. Is(g)
  <2>1. \A d \in 0 .. n : (IF d = 0 THEN e ELSE step[<<d, g[d - 1]>>]) = (IF d = 0 THEN e ELSE Up(g[d - 1]))
    <3> TAKE d \in 0 .. n
    <3>1. d # 0 => d \in 1 .. n /\ d - 1 \in 0 .. n
      OBVIOUS
    <3>2. d # 0 => g[d - 1] \in U
      BY <1>5, <3>1
    <3>. QED BY <1>3, <3>1, <3>2
  <2>. QED BY <1>5, <2>1, Zenon DEF Unfolds
<1>7. Is(f)
  <2> HIDE DEF Is
  <2>. QED BY <1>6 DEF f
<1>8. DOMAIN f = 0 .. n /\ f[0] = e /\ \A d \in 1 .. n : f[d] = Up(f[d - 1])
  <2> DEFINE h == [d \in 0 .. n |-> IF d = 0 THEN e ELSE Up(f[d - 1])]
  <2>1. f = h
    BY <1>7
  <2>2. 0 \in 0 .. n /\ \A d \in 1 .. n : d \in 0 .. n /\ d # 0
    OBVIOUS
  <2> HIDE DEF Is
  <2>3. DOMAIN h = 0 .. n /\ h[0] = e /\ \A d \in 1 .. n : h[d] = Up(f[d - 1])
    BY <2>2
  <2> HIDE DEF h
  <2>. QED BY <2>1, <2>3
<1>9. f = [d \in 0 .. n |-> f[d]]
  <2> DEFINE h == [d \in 0 .. n |-> IF d = 0 THEN e ELSE Up(f[d - 1])]
  <2>1. f = h
    BY <1>7
  <2>2. h = [d \in 0 .. n |-> h[d]]
    OBVIOUS
  <2> HIDE DEF h, Is
  <2>. QED BY <2>1, <2>2
<1> HIDE DEF Is
<1> DEFINE S == {d \in Nat : d <= n => f[d] \in U}
<1>10. 0 \in S
  BY <1>1, <1>8
<1>11. ASSUME NEW d \in Nat, d \in S
       PROVE  d + 1 \in S
  <2> SUFFICES ASSUME d + 1 <= n
               PROVE  f[d + 1] \in U
    OBVIOUS
  <2>1. f[d] \in U /\ d + 1 \in 1 .. n /\ (d + 1) - 1 = d
    BY <1>11
  <2>2. f[d + 1] = Up(f[d])
    BY <1>8, <2>1
  <2>. QED BY <1>2, <2>1, <2>2
<1> HIDE DEF S
<1>12. Nat \subseteq S
  BY <1>10, <1>11, SetInduction
<1>13. \A d \in 0 .. n : f[d] \in U
  <2> TAKE d \in 0 .. n
  <2>1. d \in S /\ d <= n
    BY <1>12
  <2>. QED BY <2>1 DEF S
<1>14. f \in [0 .. n -> U]
  BY <1>9, <1>13
<1>15. Path(i, e, f, n)
  BY <1>8, <1>14 DEF Path, Up, U
<1>. QED BY <1>4, <1>15

LEMMA PathHops ==
  ASSUME NEW i, HeapOK(i), NEW e \in 1 .. Len(i.envs), NEW a, NEW u, IsChain(a, u), i.envs[e].scope = InnerScope(u),
         NEW n \in Nat, n < Len(a), NEW f, Path(i, e, f, n)
  PROVE  \A d \in 0 .. n : Hopped(i, e, f[d], a, d)
<1>1. IsInterpreter(i) /\ Len(i.envs) \in Nat /\ Len(a) \in Nat
  BY InterpreterIs DEF HeapOK, IsChain
<1>2. f[0] = e /\ \A d \in 1 .. n : f[d] = IF f[d - 1] = 0 THEN 0 ELSE i.envs[f[d - 1]].enclosing
  BY DEF Path
<1> DEFINE S == {d \in Nat : d <= n => Hopped(i, e, f[d], a, d)}
<1>3. 0 \in S
  <2>1. i.envs[e].scope = a[1]
    BY <1>1 DEF IsChain, After
  <2>. QED BY <1>2, <2>1 DEF Hopped
<1>4. ASSUME NEW d \in Nat, d \in S
       PROVE  d + 1 \in S
  <2> SUFFICES ASSUME d + 1 <= n
               PROVE  Hopped(i, e, f[d + 1], a, d + 1)
    OBVIOUS
  <2>1. PICK x : x = f[d]
    OBVIOUS
  <2>2. Hopped(i, e, x, a, d)
    BY <1>4, <2>1
  <2>3. x \in 1 .. Len(i.envs) /\ x \in Nat /\ x # 0 /\ i.envs[x].scope = a[d + 1]
    BY <1>1, <2>2 DEF Hopped
  <2>4. f[d + 1] = i.envs[x].enclosing
    <3>1. d + 1 \in 1 .. n /\ (d + 1) - 1 = d
      OBVIOUS
    <3>2. f[d + 1] = IF x = 0 THEN 0 ELSE i.envs[x].enclosing
      BY <1>2, <2>1, <3>1
    <3>. QED BY <2>3, <3>2
  <2>5. d + 1 \in 1 .. Len(a)
    BY <1>1
  <2>6. IsScope(a[d + 1]) /\ Beyond(a[d + 1]) = a[d + 2]
    <3>1. d + 1 # Len(a) /\ (d + 1) + 1 = d + 2
      BY <1>1
    <3>. QED BY <2>5, <3>1 DEF IsChain, After
  <2>7. x # globals
    <3>1. a[d + 1] \in ScopeSet
      BY <2>6 DEF IsScope
    <3>. QED BY <2>3, <3>1, OnlyGlobals, InnerScopeIs
  <2>8. Stands(i, i.envs[x].enclosing, Beyond(i.envs[x].scope), i.envs[x].scope[1])
    BY <2>3, <2>7, OnlyGlobals DEF EnvOK, EnvFits
  <2>9. Stands(i, f[d + 1], a[d + 2], a[d + 1][1])
    BY <2>3, <2>4, <2>6, <2>8
  <2>10. (d + 1) + 1 = d + 2
    OBVIOUS
  <2>. QED BY <2>9, <2>10 DEF Hopped, Stands
<1>5. Nat \subseteq S
  <2> HIDE DEF S
  <2>. QED BY <1>3, <1>4, SetInduction
<1>. QED BY <1>5

LEMMA AncestorIs ==
  ASSUME NEW i, HeapOK(i), NEW e \in 1 .. Len(i.envs), NEW a, NEW u, IsChain(a, u), i.envs[e].scope = InnerScope(u),
         NEW n \in Nat, n < Len(a)
  PROVE  Hopped(i, e, ancestor(i, e, n), a, n)
<1>1. PICK g : Path(i, e, g, n) /\ ancestor(i, e, n) = g[n]
  BY AncestorPath
<1>2. n \in 0 .. n
  OBVIOUS
<1>. QED BY <1>1, <1>2, PathHops

-----------------------------------------------------------------------------
(* Looking a name up *)

AwaitsIn(p, name) == \E m \in Begun(program, p) : program[m].name = name /\ InScopeOf(p, m)
\* Environment x is of the scope the address at is of.
Reaches(i, x, p, name, a, at) ==
  /\ x \in 1 .. Len(i.envs) /\ i.envs[x].scope = a[at[1] + 1] /\ IsScope(a[at[1] + 1]) /\ Finds(p, name, a, at)
  /\ at[2] \in Nat /\ at[1] \in Nat /\ x # globals /\ EnvOK(i, x)
  /\ at[2] < Len(i.envs[x].slots) => at[2] + 1 \in 1 .. Len(i.envs[x].slots) /\ ValueOK(i, i.envs[x].slots[at[2] + 1].value)
LEMMA Resolves ==
  ASSUME TextIsPlaced, NEW i, HeapOK(i), NEW p \in Nodes, NEW u, u = program[p].in, NEW e, At(i, e, p, u), NEW name,
         NEW at, at = LexicalAddress(p, name), at # <<>>, NEW x, x = ancestor(i, e, at[1]), NEW a, a = ScopesAround(p)
  PROVE  /\ Reaches(i, x, p, name, a, at)
         /\ at[2] < Len(i.envs[x].slots) \/ AwaitsIn(p, name)
<1> DEFINE t == a[at[1] + 1]
           d == Declarations(t)
           m == at[2] + 1
           l == Len(i.envs[x].slots)
<1>0. Placed(program) /\ IsInterpreter(i) /\ Len(i.envs) \in Nat
  BY InterpreterIs DEF TextIsPlaced, HeapOK
<1>1. Finds(p, name, a, at)
  <2>1. LexicalAddress(p, name) # <<>>
    OBVIOUS
  <2>. QED BY <1>0, <2>1, AddressFinds
<1>2. at[1] \in Nat /\ at[2] \in Nat /\ at[1] + 1 \in 1 .. Len(a) /\ m \in 1 .. Len(d) /\ d[m].name = name
      /\ d[m].node < p /\ d[m].node \in Nat /\ (at[1] > 0 => d[m].node <= a[at[1]][1])
  BY <1>1 DEF Finds
<1>3. IsChain(a, u)
  BY <1>0, ChainAround
<1>4. IsScope(t) /\ Len(a) \in Nat
  BY <1>2, <1>3 DEF IsChain
<1>5. e \in 1 .. Len(i.envs) /\ i.envs[e].scope = InnerScope(u)
  BY DEF At
<1>6. Hopped(i, e, x, a, at[1])
  <2>1. at[1] < Len(a)
    BY <1>2, <1>4
  <2>. QED BY <1>2, <1>3, <1>5, <2>1, AncestorIs
<1>7. x \in 1 .. Len(i.envs) /\ i.envs[x].scope = t
  BY <1>6 DEF Hopped
<1>8. x # globals /\ EnvOK(i, x) /\ l \in Nat
  <2>1. t # <<>>
    BY <1>4, InnerScopeIs DEF IsScope
  <2>. QED BY <1>0, <1>7, <2>1, OnlyGlobals, InterpreterIs
<1>9. \A k \in 1 .. l : ValueOK(i, i.envs[x].slots[k].value)
  BY <1>8 DEF EnvOK, EnvFits
<1>10. Reaches(i, x, p, name, a, at)
  <2>1. at[2] < l => m \in 1 .. l
    BY <1>2, <1>8
  <2>2. at[2] < l => m \in 1 .. l /\ ValueOK(i, i.envs[x].slots[m].value)
    BY <1>9, <2>1
  <2>3. IsScope(t) /\ i.envs[x].scope = t /\ at[1] \in Nat /\ at[2] \in Nat
    BY <1>2, <1>4, <1>7
  <2>. QED BY <1>1, <1>7, <1>8, <2>2, <2>3 DEF Reaches
<1>11. CASE at[1] > 0
  <2>1. Stands(i, x, t, a[at[1]][1])
    BY <1>6, <1>11 DEF Hopped
  <2>2. m <= l
    <3>1. t # <<>>
      BY <1>4, InnerScopeIs DEF IsScope
    <3>. QED BY <1>2, <1>11, <2>1, <3>1 DEF Stands
  <2>. QED BY <1>2, <1>8, <1>10, <2>2
<1>12. CASE at[1] = 0
  <2>1. t = a[1] /\ t = InnerScope(u) /\ u # 0
    <3>1. t = a[1] /\ t = InnerScope(u)
      BY <1>2, <1>3, <1>4, <1>12 DEF IsChain, After
    <3>2. u # 0
      BY <3>1, <1>4, InnerScopeIs DEF IsScope, InnerScope
    <3>. QED BY <3>1, <3>2
  <2>2. u \in Nodes /\ program[u].kind \in Openers \ {"body"}
    BY <2>1 DEF At
  <2>3. t = <<u, "block">>
    <3>1. u \in Nat
      BY <2>2 DEF Nodes
    <3>2. ScopesOf(u) = <<<<u, "block">>>>
      BY <2>2, <3>1, ScopesOfAre
    <3>3. InnerScope(u) = <<<<u, "block">>>>[1]
      BY <2>1, <3>2 DEF InnerScope
    <3>. QED BY <2>1, <3>3
  <2>4. x = e
    BY <1>6, <1>12 DEF Hopped
  <2>5. UpTo(u, l, p)
    BY <2>1, <2>4 DEF At
  <2>6. m <= l <=> Done(d[m].node, p)
    BY <1>2, <2>3, <2>5 DEF UpTo
  <2>7. CASE m <= l
    BY <1>2, <1>8, <1>10, <2>7
  <2>8. CASE ~(m <= l)
    <3>1. d[m].node \in Begun(program, p)
      BY <1>2, <2>6, <2>8 DEF Done
    <3>2. PICK k : k = d[m].node
      OBVIOUS
    <3>3. k \in Nodes /\ program[k].in = u /\ program[k].kind \in {"var", "class"}
      BY <3>1, <3>2, BegunHere
    <3>4. k # u
      BY <2>2, <3>3 DEF Openers
    <3>5. program[k].name = name
      <4>1. PICK c : c = Params(u)
        OBVIOUS
      <4>2. PICK dd : dd = Declarations(<<u, "block">>)
        OBVIOUS
      <4>3. /\ c \in Nat /\ dd \in Seq(DeclarationSet)
            /\ \A n \in 1 .. c : Declares(dd[n], Param(u, n), u)
            /\ \A n \in c + 1 .. Len(dd) : Declares(dd[n], program[dd[n].node].name, dd[n].node)
        BY <1>0, <2>2, <4>1, <4>2, DeclarationsAre
      <4>4. dd = d /\ dd[m].node = k
        BY <2>3, <3>2, <4>2
      <4>5. m \notin 1 .. c
        BY <3>4, <4>3, <4>4 DEF Declares
      <4>6. m \in c + 1 .. Len(dd)
        BY <1>2, <4>3, <4>4, <4>5
      <4>7. dd[m].name = program[k].name
        BY <4>3, <4>4, <4>6 DEF Declares
      <4>. QED BY <1>2, <4>4, <4>7
    <3>6. InScopeOf(p, k)
      BY <2>1, <3>3 DEF InScopeOf
    <3>7. AwaitsIn(p, name)
      BY <3>1, <3>2, <3>5, <3>6 DEF AwaitsIn
    <3>. QED BY <1>10, <3>7
  <2>. QED BY <2>7, <2>8
<1>. QED BY <1>2, <1>11, <1>12

\* No block declares this or super.
LEMMA BlockNames ==
  ASSUME TextIsPlaced, NEW u \in Nodes, NEW d, d = Declarations(<<u, "block">>)
  PROVE  \A m \in 1 .. Len(d) : d[m].name \notin {"this", "super"}
<1>1. PICK c : c = Params(u)
  OBVIOUS
<1>2. /\ c \in Nat /\ d \in Seq(DeclarationSet) /\ Len(d) \in Nat
      /\ \A n \in 1 .. c : Declares(d[n], Param(u, n), u)
      /\ \A n \in c + 1 .. Len(d) : d[n].node \in DeclaredIn(u) /\ Declares(d[n], program[d[n].node].name, d[n].node)
  BY <1>1, DeclarationsAre DEF TextIsPlaced
<1>3. \A j \in Nodes : {"this", "super"} \cap ({program[j].name} \cup ToSet(program[j].params)) = {}
  BY DEF TextIsPlaced, Grammatical
<1>4. program[u] \in NodeSet
  BY DEF TextIsPlaced, Placed, Nodes
<1>5. \A n \in 1 .. c : Param(u, n) \in ToSet(program[u].params)
  BY <1>1, <1>4 DEF Param, Params, ToSet, NodeSet
<1>6. ASSUME NEW m \in 1 .. Len(d)
      PROVE  d[m].name \notin {"this", "super"}
  <2>1. CASE m \in 1 .. c
    BY <1>2, <1>3, <1>5, <2>1 DEF Declares
  <2>2. CASE m \in c + 1 .. Len(d)
    <3>1. PICK j : j = d[m].node
      OBVIOUS
    <3>2. j \in Nodes /\ d[m].name = program[j].name
      BY <1>2, <2>2, <3>1 DEF DeclaredIn, Declares
    <3>. QED BY <1>3, <3>2
  <2>. QED BY <1>2, <2>1, <2>2
<1>. QED BY <1>6

\* What is declared by a word is declared in the scope for the word, and
\* nothing else is.
LEMMA WordsApart ==
  ASSUME TextIsPlaced, NEW s, IsScope(s), NEW m \in 1 .. Len(Declarations(s)), NEW name, Declarations(s)[m].name = name
  PROVE  /\ name \in {"this", "super"} => s[2] = name /\ m = 1
         /\ name \notin {"this", "super"} => s[2] = "block"
<1>1. s \in ScopeSet /\ s[1] \in Nodes
  BY DEF IsScope
<1>2. s = <<s[1], s[2]>> /\ s[2] \in {"block", "this", "super"}
  BY <1>1 DEF ScopeSet
<1>3. CASE s[2] = "block"
  <2>1. s = <<s[1], "block">>
    BY <1>2, <1>3
  <2>2. name \notin {"this", "super"}
    BY <1>1, <2>1, BlockNames
  <2>. QED BY <1>3, <2>2
<1>4. CASE s[2] \in {"this", "super"}
  <2>1. Declarations(s) = <<[name |-> s[2], node |-> s[1]]>>
    BY <1>2, <1>4, DeclarationsOfWord
  <2>2. m = 1 /\ name = s[2]
    BY <2>1
  <2>. QED BY <1>4, <2>2
<1>. QED BY <1>2, <1>3, <1>4

\* super's environment is right around the one for this, and both are filled.
SuperFound(i, e, at) ==
  LET nearer == <<at[1] - 1, 0>>
  IN /\ at[1] # 0 /\ at[1] \in Nat
     /\ HasSlot(i, e, at) /\ IsClassValue(i, GetAt(i, e, at))
     /\ HasSlot(i, e, nearer) /\ ValueOK(i, GetAt(i, e, nearer))
LEMMA InnerScopeIsNoSuper ==
  ASSUME NEW v \in Nat
  PROVE  v # 0 => InnerScope(v)[2] # "super"
<1>1. PICK w : w = ScopesOf(v)
  OBVIOUS
<1>2. w = <<<<v, "block">>>> \/ w = <<<<v, "this">>>> \/ w = <<<<v, "this">>, <<v, "super">>>>
  BY <1>1, ScopesOfAre
<1>3. w[1] = <<v, "block">> \/ w[1] = <<v, "this">>
  BY <1>2
<1>4. w[1][2] # "super"
  BY <1>3
<1>. QED BY <1>1, <1>4 DEF InnerScope

LEMMA SuperResolves ==
  ASSUME TextIsPlaced, NEW i, HeapOK(i), NEW p \in Nodes, NEW u, u = program[p].in, NEW e, At(i, e, p, u),
         NEW at, at = LexicalAddress(p, "super"), at # <<>>
  PROVE  SuperFound(i, e, at)
<1>1. PICK a : a = ScopesAround(p)
  OBVIOUS
<1>2. PICK x : x = ancestor(i, e, at[1])
  OBVIOUS
<1>3. Reaches(i, x, p, "super", a, at)
  BY <1>1, <1>2, Resolves
<1>4. PICK s : s = a[at[1] + 1]
  OBVIOUS
<1>5. /\ at[1] \in Nat /\ at[2] \in Nat /\ at[1] + 1 \in 1 .. Len(a) /\ at[2] + 1 \in 1 .. Len(Declarations(s))
      /\ Declarations(s)[at[2] + 1].name = "super"
  BY <1>3, <1>4 DEF Reaches, Finds
<1>6. x \in 1 .. Len(i.envs) /\ i.envs[x].scope = s /\ IsScope(s) /\ EnvOK(i, x)
  BY <1>3, <1>4 DEF Reaches
<1>7. s[2] = "super" /\ at[2] + 1 = 1
  BY <1>5, <1>6, WordsApart
<1>8. at[2] = 0
  BY <1>5, <1>7
<1>9. Len(i.envs[x].slots) = 1 /\ IsClassValue(i, i.envs[x].slots[1].value)
  BY <1>6, <1>7 DEF EnvOK, EnvFits
<1>10. x # 0
  BY <1>6
<1>11. HasSlot(i, e, at) /\ IsClassValue(i, GetAt(i, e, at))
  <2>1. at[2] + 1 = 1 /\ at[2] < Len(i.envs[x].slots)
    BY <1>8, <1>9
  <2>. QED BY <1>2, <1>9, <1>10, <2>1 DEF HasSlot, GetAt
<1>12. Placed(program) /\ u \in Nat /\ IsChain(a, u)
  <2>1. Placed(program)
    BY DEF TextIsPlaced
  <2>. QED BY <1>1, <2>1, InIsBefore, ChainAround
<1>13. at[1] # 0
  <2> SUFFICES ASSUME at[1] = 0
               PROVE  FALSE
    OBVIOUS
  <2>1. s = InnerScope(u)
    BY <1>4, <1>5, <1>12 DEF IsChain, After
  <2>2. u # 0
    BY <1>6, <2>1, InnerScopeIs DEF IsScope, InnerScope
  <2>. QED BY <1>7, <1>12, <2>1, <2>2, InnerScopeIsNoSuper
<1>14. PICK n : n = at[1] - 1
  OBVIOUS
<1>15. PICK t : t = a[n + 1]
  OBVIOUS
<1>16. n \in Nat /\ n < Len(a) /\ n + 1 \in 1 .. Len(a) /\ n + 1 # Len(a) /\ at[1] = n + 1 /\ Len(a) \in Nat
  <2>1. Len(a) \in Nat
    BY <1>12 DEF IsChain
  <2>. QED BY <1>5, <1>13, <1>14, <2>1
<1>17. IsScope(t) /\ Beyond(t) = s
  <2>1. (n + 1) + 1 = at[1] + 1
    BY <1>16
  <2>. QED BY <1>4, <1>12, <1>15, <1>16, <2>1 DEF IsChain, After
<1>18. t[2] = "this"
  <2> SUFFICES ASSUME t[2] # "this"
               PROVE  FALSE
    OBVIOUS
  <2>1. PICK v : v = program[t[1]].in
    OBVIOUS
  <2>2. s = InnerScope(v)
    BY <1>17, <2>1 DEF Beyond
  <2>3. v \in Nat
    BY <1>12, <1>17, <2>1, InIsBefore DEF IsScope
  <2>4. v # 0
    BY <1>6, <2>2, InnerScopeIs DEF IsScope, InnerScope
  <2>. QED BY <1>7, <2>2, <2>3, <2>4, InnerScopeIsNoSuper
<1>19. PICK y : y = ancestor(i, e, n)
  OBVIOUS
<1>20. y \in 1 .. Len(i.envs) /\ i.envs[y].scope = t
  <2>1. e \in 1 .. Len(i.envs) /\ i.envs[e].scope = InnerScope(u)
    BY DEF At
  <2>2. Hopped(i, e, y, a, n)
    BY <1>12, <1>16, <1>19, <2>1, AncestorIs
  <2>. QED BY <1>15, <2>2 DEF Hopped
<1>21. EnvOK(i, y)
  <2>1. t # <<>>
    BY <1>17, InnerScopeIs DEF IsScope
  <2>. QED BY <1>20, <2>1, OnlyGlobals
<1>22. Len(i.envs[y].slots) = 1 /\ ValueOK(i, i.envs[y].slots[1].value)
  BY <1>18, <1>20, <1>21 DEF EnvOK, EnvFits
<1>23. PICK nearer : nearer = <<n, 0>>
  OBVIOUS
<1>24. HasSlot(i, e, nearer) /\ ValueOK(i, GetAt(i, e, nearer))
  <2>1. nearer[1] = n /\ nearer[2] = 0 /\ 0 + 1 = 1 /\ 0 < 1 /\ y # 0
    BY <1>20, <1>23
  <2>. QED BY <1>19, <1>22, <2>1 DEF HasSlot, GetAt
<1>25. <<at[1] - 1, 0>> = nearer
  BY <1>14, <1>23
<1>. QED BY <1>5, <1>11, <1>13, <1>24, <1>25 DEF SuperFound

-----------------------------------------------------------------------------
(* The superclasses of a class *)

\* The classes made before one, or that one: it can have no other superclasses.
Classes(i) == {id \in 1 .. Len(i.objects) : i.objects[id].isClass}
ClassesTo(i, n) == {id \in Classes(i) : id <= n}
LEMMA ChainIs ==
  ASSUME NEW i, HeapOK(i), NEW class \in 0 .. Len(i.objects)
  PROVE  Chain(i, class) \in Seq(ClassesTo(i, class))
<1> DEFINE l == Len(i.objects)
           U == Seq(Classes(i))
           none == <<>>
           Class_(id) == i.objects[id].isClass
           More(id, x) == IF ~Class_(id) THEN <<>> ELSE <<id>> \o x
           up == [id \in 1 .. l |-> IF Class_(id) THEN i.objects[id].superclass ELSE 0]
           step == [p \in (1 .. l) \X U |-> More(p[1], p[2])]
           Is(g) == g = [id \in 0 .. l |-> IF id = 0 \/ ~i.objects[id].isClass THEN <<>> ELSE <<id>> \o g[i.objects[id].superclass]]
           f == CHOOSE g : Is(g)
<1>1. IsInterpreter(i) /\ l \in Nat
  BY InterpreterIs DEF HeapOK
<1>2. \A id \in 1 .. l : up[id] \in 0 .. id - 1
  <2> TAKE id \in 1 .. l
  <2>1. ObjectOK(i, id)
    BY DEF HeapOK
  <2>2. Class_(id) => i.objects[id].superclass \in Nat /\ i.objects[id].superclass < id
    BY <2>1 DEF ObjectOK, IsClassObject, IsInstance
  <2>3. id \in Nat /\ id > 0
    BY <1>1
  <2>. QED BY <2>2, <2>3
<1>3. none \in U
  OBVIOUS
<1>4. \A id \in 1 .. l, x \in U : More(id, x) \in U
  <2> SUFFICES ASSUME NEW id \in 1 .. l, NEW x \in U, Class_(id)
               PROVE  <<id>> \o x \in U
    BY <1>3
  <2>1. id \in Classes(i)
    BY DEF Classes
  <2>2. <<id>> \in U
    BY <2>1
  <2>. QED BY <2>2, Concatenated
<1>5. \A id \in 1 .. l, x \in U : step[<<id, x>>] = More(id, x)
  <2> HIDE DEF U, More, l
  <2>. QED OBVIOUS
<1>6. \A id \in 1 .. l : up[id] = IF Class_(id) THEN i.objects[id].superclass ELSE 0
  <2> HIDE DEF l, Class_
  <2>. QED OBVIOUS
<1>7. Chain(i, class) = f[class]
  BY DEF Chain
<1> HIDE DEF U, up, step, none
<1>8. PICK g : g \in [0 .. l -> U] /\ Climbs(g, l, none, up, step)
  <2>1. Steps(step, l, U)
    BY <1>4, <1>5 DEF Steps
  <2>. QED BY <1>1, <1>2, <1>3, <2>1, TreeRecursion
<1>9. Is(g)
  <2> DEFINE Mine(id) == IF id = 0 THEN none ELSE step[<<id, g[up[id]]>>]
             Theirs(id) == IF id = 0 \/ ~i.objects[id].isClass THEN <<>> ELSE <<id>> \o g[i.objects[id].superclass]
  <2>1. \A id \in 0 .. l : Mine(id) = Theirs(id)
    <3> TAKE id \in 0 .. l
    <3>1. CASE id = 0
      BY <3>1 DEF none
    <3>2. CASE id # 0
      <4>1. id \in 1 .. l
        BY <1>1, <3>2
      <4>2. up[id] \in 0 .. l
        BY <1>1, <1>2, <4>1
      <4>3. g[up[id]] \in U
        BY <1>8, <4>2
      <4>4. Mine(id) = More(id, g[up[id]])
        BY <1>5, <3>2, <4>1, <4>3
      <4>. QED BY <1>6, <3>2, <4>1, <4>4
    <3>. QED BY <3>1, <3>2
  <2>2. g = [id \in 0 .. l |-> Mine(id)]
    BY <1>8, Zenon DEF Climbs
  <2> HIDE DEF Mine, Theirs
  <2>3. g = [id \in 0 .. l |-> Theirs(id)]
    BY <2>1, <2>2, Zenon
  <2>. QED BY <2>3, Zenon DEF Theirs
<1>10. Is(f)
  <2> HIDE DEF Is
  <2>. QED BY <1>9 DEF f
<1> HIDE DEF f
<1> DEFINE S == {n \in Nat : \A id \in 0 .. l : id <= n => f[id] \in Seq(ClassesTo(i, id))}
           Theirs(id) == IF id = 0 \/ ~i.objects[id].isClass THEN <<>> ELSE <<id>> \o f[i.objects[id].superclass]
<1>11. \A id \in 0 .. l : f[id] = Theirs(id)
  <2>1. f = [id \in 0 .. l |-> Theirs(id)]
    BY <1>10, Zenon
  <2> DEFINE h == [id \in 0 .. l |-> Theirs(id)]
  <2>2. f = h
    BY <2>1
  <2> HIDE DEF Theirs
  <2>3. \A id \in 0 .. l : h[id] = Theirs(id)
    OBVIOUS
  <2> HIDE DEF h
  <2>. QED BY <2>2, <2>3
<1> HIDE DEF Is
<1>12. 0 \in S
  <2>0. \A id \in 0 .. l : id <= 0 => id = 0
    BY <1>1
  <2>1. f[0] = <<>>
    <3>1. 0 \in 0 .. l
      BY <1>1
    <3>2. f[0] = Theirs(0)
      BY <1>11, <3>1
    <3>3. Theirs(0) = <<>>
      BY Zenon
    <3>. QED BY <3>2, <3>3
  <2>2. <<>> \in Seq(ClassesTo(i, 0))
    OBVIOUS
  <2>. QED BY <2>0, <2>1, <2>2
<1>13. ASSUME NEW n \in Nat, n \in S
       PROVE  n + 1 \in S
  <2> SUFFICES ASSUME NEW id \in 0 .. l, id <= n + 1
               PROVE  f[id] \in Seq(ClassesTo(i, id))
    OBVIOUS
  <2>0. <<>> \in Seq(ClassesTo(i, id))
    OBVIOUS
  <2>1. CASE id = 0 \/ ~Class_(id)
    <3>1. f[id] = <<>>
      <4>1. f[id] = Theirs(id)
        BY <1>11
      <4>2. Theirs(id) = <<>>
        BY <2>1, Zenon
      <4> HIDE DEF Theirs
      <4>. QED BY <4>1, <4>2
    <3>. QED BY <2>0, <3>1
  <2>2. CASE ~(id = 0 \/ ~Class_(id))
    <3>1. id \in 1 .. l
      BY <1>1, <2>2
    <3>2. PICK x : x = i.objects[id].superclass
      OBVIOUS
    <3>3. x \in 0 .. id - 1
      BY <1>2, <1>6, <2>2, <3>1, <3>2
    <3>4. x \in 0 .. l /\ x <= n /\ x <= id /\ x \in Nat /\ id \in Nat
      BY <1>1, <3>1, <3>3
    <3>5. f[x] \in Seq(ClassesTo(i, x))
      BY <1>13, <3>4
    <3>6. f[id] = <<id>> \o f[x]
      BY <1>11, <2>2, <3>2
    <3>7. id \in ClassesTo(i, id)
      BY <2>2, <3>1 DEF Classes, ClassesTo
    <3>8. ClassesTo(i, x) \subseteq ClassesTo(i, id)
      <4>1. \A c \in Classes(i) : c \in Nat
        BY DEF Classes
      <4>. QED BY <3>4, <4>1 DEF ClassesTo
    <3>9. PICK one : one = <<id>>
      OBVIOUS
    <3>10. one \in Seq(ClassesTo(i, id)) /\ f[x] \in Seq(ClassesTo(i, id))
      BY <3>5, <3>7, <3>8, <3>9
    <3>11. one \o f[x] \in Seq(ClassesTo(i, id))
      BY <3>10, Concatenated
    <3>. QED BY <3>6, <3>9, <3>11
  <2>. QED BY <2>1, <2>2
<1>14. Nat \subseteq S
  <2> HIDE DEF S
  <2>. QED BY <1>12, <1>13, SetInduction
<1>15. f[class] \in Seq(ClassesTo(i, class))
  <2>1. class \in Nat /\ class <= class
    BY <1>1
  <2>. QED BY <1>14, <2>1
<1>. QED BY <1>7, <1>15

\* The method found is one of a class that is as old, or older.
HasMethod(o, name, f) ==
  (name \in DOMAIN o.methods /\ f = o.methods[name]) \/ (name \in DOMAIN o.classMethods /\ f = o.classMethods[name])
FoundOf(i, class, f) == \E id \in ClassesTo(i, class) : \E name : HasMethod(i.objects[id], name, f)
FoundWell(i, class, f) == f = Nil \/ (MethodOK(i, f) /\ FoundOf(i, class, f))
LEMMA FoundMethod ==
  ASSUME NEW i, HeapOK(i), NEW class \in 0 .. Len(i.objects), NEW name
  PROVE  FoundWell(i, class, findMethod(i, class, name)) /\ FoundWell(i, class, findClassMethod(i, class, name))
<1>1. PICK c : c = Chain(i, class)
  OBVIOUS
<1>2. c \in Seq(ClassesTo(i, class))
  BY <1>1, ChainIs
<1>3. Len(c) \in Nat /\ DOMAIN c = 1 .. Len(c) /\ \A n \in DOMAIN c : c[n] \in ClassesTo(i, class)
  BY <1>2
<1>4. \A id \in ClassesTo(i, class) : MethodsOK(i, i.objects[id].methods) /\ MethodsOK(i, i.objects[id].classMethods)
  <2> TAKE id \in ClassesTo(i, class)
  <2>1. id \in 1 .. Len(i.objects) /\ i.objects[id].isClass
    BY DEF Classes, ClassesTo
  <2>2. ObjectOK(i, id)
    BY <2>1 DEF HeapOK
  <2>. QED BY <2>1, <2>2 DEF ObjectOK, IsClassObject, IsInstance
<1>5. ASSUME NEW maps, DOMAIN maps = DOMAIN c
      PROVE  FirstOf(maps, name) = Nil \/ \E n \in DOMAIN c : name \in DOMAIN maps[n] /\ FirstOf(maps, name) = maps[n][name]
  <2> DEFINE having == {n \in DOMAIN maps : name \in DOMAIN maps[n]}
  <2>1. CASE having = {}
    BY <2>1 DEF FirstOf
  <2>2. CASE having # {}
    <3>1. having \subseteq Nat
      BY <1>3, <1>5
    <3>2. PICK m : m = Min(having)
      OBVIOUS
    <3>3. m \in having
      BY <2>2, <3>1, <3>2, MinIs
    <3>4. FirstOf(maps, name) = maps[m][name]
      BY <2>2, <3>2 DEF FirstOf
    <3>. QED BY <1>5, <3>3, <3>4
  <2>. QED BY <2>1, <2>2
<1>6. FoundWell(i, class, findMethod(i, class, name))
  <2>1. PICK maps : maps = [n \in DOMAIN c |-> i.objects[c[n]].methods]
    OBVIOUS
  <2>2. PICK f : f = findMethod(i, class, name)
    OBVIOUS
  <2>3. f = FirstOf(maps, name)
    BY <1>1, <2>1, <2>2 DEF findMethod
  <2>4. DOMAIN maps = DOMAIN c /\ \A n \in DOMAIN c : maps[n] = i.objects[c[n]].methods
    BY <2>1
  <2>5. SUFFICES ASSUME NEW n \in DOMAIN c, name \in DOMAIN maps[n], f = maps[n][name]
                 PROVE  MethodOK(i, f) /\ FoundOf(i, class, f)
    BY <1>5, <2>2, <2>3, <2>4 DEF FoundWell
  <2>6. PICK id : id = c[n]
    OBVIOUS
  <2>7. id \in ClassesTo(i, class) /\ name \in DOMAIN i.objects[id].methods /\ f = i.objects[id].methods[name]
    BY <1>3, <2>4, <2>5, <2>6
  <2>8. MethodOK(i, f)
    BY <1>4, <2>7 DEF MethodsOK
  <2>. QED BY <2>7, <2>8 DEF FoundOf, HasMethod
<1>7. FoundWell(i, class, findClassMethod(i, class, name))
  <2>1. PICK maps : maps = [n \in DOMAIN c |-> i.objects[c[n]].classMethods]
    OBVIOUS
  <2>2. PICK f : f = findClassMethod(i, class, name)
    OBVIOUS
  <2>3. f = FirstOf(maps, name)
    BY <1>1, <2>1, <2>2 DEF findClassMethod
  <2>4. DOMAIN maps = DOMAIN c /\ \A n \in DOMAIN c : maps[n] = i.objects[c[n]].classMethods
    BY <2>1
  <2>5. SUFFICES ASSUME NEW n \in DOMAIN c, name \in DOMAIN maps[n], f = maps[n][name]
                 PROVE  MethodOK(i, f) /\ FoundOf(i, class, f)
    BY <1>5, <2>2, <2>3, <2>4 DEF FoundWell
  <2>6. PICK id : id = c[n]
    OBVIOUS
  <2>7. id \in ClassesTo(i, class) /\ name \in DOMAIN i.objects[id].classMethods /\ f = i.objects[id].classMethods[name]
    BY <1>3, <2>4, <2>5, <2>6
  <2>8. MethodOK(i, f)
    BY <1>4, <2>7 DEF MethodsOK
  <2>. QED BY <2>7, <2>8 DEF FoundOf, HasMethod
<1>. QED BY <1>6, <1>7

-----------------------------------------------------------------------------
(* What a step keeps *)

\* Nothing is declared in the environments before n.
SameSizes(i, q, n) == \A e \in 1 .. Len(i.envs) : e < n => Len(q.envs[e].slots) = Len(i.envs[e].slots)

LEMMA AtKept ==
  ASSUME NEW i, NEW q, IsInterpreter(i), IsInterpreter(q), Grows(i, q), NEW n, SameSizes(i, q, n),
         NEW e, NEW p, NEW u, At(i, e, p, u), e < n
  PROVE  At(q, e, p, u)
<1>1. e \in 1 .. Len(i.envs) /\ Len(i.envs) \in Nat /\ Len(q.envs) \in Nat /\ Len(i.envs) <= Len(q.envs)
  BY InterpreterIs DEF At, Grows
<1>2. e \in 1 .. Len(q.envs)
  BY <1>1
<1>3. q.envs[e].scope = i.envs[e].scope /\ Len(q.envs[e].slots) = Len(i.envs[e].slots)
  BY <1>1 DEF Grows, SameSizes
<1>. QED BY <1>2, <1>3 DEF At

LEMMA MatchKept ==
  ASSUME NEW i, NEW q, IsInterpreter(i), IsInterpreter(q), Grows(i, q), NEW values, NEW waiting, Match(i, values, waiting)
  PROVE  Match(q, values, waiting)
BY ValuesGrow DEF Match

LEMMA FrameKept ==
  ASSUME NEW i, NEW q, IsInterpreter(i), IsInterpreter(q), Grows(i, q), NEW n, SameSizes(i, q, n),
         NEW s, NEW k, FrameOK(i, s, k), s[k].previous < n
  PROVE  FrameOK(q, s, k)
<1>1. PICK f : f = s[k]
  OBVIOUS
<1>2. At(i, f.previous, f.opener, InnerOf(s, k - 1))
  BY <1>1 DEF FrameOK
<1>3. At(q, f.previous, f.opener, InnerOf(s, k - 1))
  BY <1>1, <1>2, AtKept
<1>4. /\ \A g : FunctionOK(i, g) => FunctionOK(q, g)
      /\ \A v : ValueOK(i, v) => ValueOK(q, v)
  BY ValuesGrow
<1>5. Match(i, f.values, Leaves(program[f.opener], Operands(program, f.opener - 1)))
        => Match(q, f.values, Leaves(program[f.opener], Operands(program, f.opener - 1)))
  BY MatchKept
<1>6. FrameHas(q, f)
  BY <1>1, <1>4, <1>5 DEF FrameOK, FrameHas
<1>. QED BY <1>1, <1>3, <1>6 DEF FrameOK

LEMMA FramesKept ==
  ASSUME NEW i, NEW q, IsInterpreter(i), IsInterpreter(q), Grows(i, q), SameSizes(i, q, i.environment), FramesOK(i),
         q.stack = i.stack, q.environment = i.environment
  PROVE  FramesOK(q)
BY FrameKept DEF FramesOK

-----------------------------------------------------------------------------
(* The values of the operands *)

LEMMA WaitingAt ==
  ASSUME TextIsPlaced, NEW p \in Nodes, NEW w, w = Operands(program, p - 1)
  PROVE  /\ w \in Seq(Nat) /\ Len(w) \in Nat /\ program[p] \in NodeSet /\ Pops(program[p]) \in Nat /\ Pops(program[p]) <= Len(w)
         /\ Leaves(program[p], w) \in Seq(Nat) /\ Len(Leaves(program[p], w)) = Len(w) - Pops(program[p])
         /\ \A k \in 1 .. Len(Leaves(program[p], w)) : Leaves(program[p], w)[k] = w[k]
         /\ program[p].kind \in Expressions => Operands(program, p) = Append(Leaves(program[p], w), p)
         /\ program[p].kind \notin Expressions =>
              Operands(program, p) = Leaves(program[p], w) /\ Pops(program[p]) = Len(w) /\ Leaves(program[p], w) = <<>>
         /\ program[p].kind = "set" => program[w[Len(w) - 1]].kind = "target"
<1>1. program \in Seq(NodeSet) /\ p \in 1 .. Len(program) /\ Len(program) \in Nat /\ program[p] \in NodeSet /\ p - 1 \in 0 .. Len(program)
  BY DEF TextIsPlaced, Placed, Nodes
<1>2. w \in Seq(Nat) /\ Len(w) \in Nat
  <2>1. w \in Seq(Nat)
    BY <1>1, OperandsNext
  <2>. QED BY <2>1
<1>3. Operands(program, p) = Waits(program, p, w)
  BY <1>1, OperandsNext
<1>4. Pops(program[p]) \in Nat
  BY <1>1, PopsIs
<1>5. HasOperands(program, p)
  BY DEF TextIsPlaced, Grammatical
<1>6. Pops(program[p]) <= Len(w) /\ (program[p].kind \notin Expressions => Pops(program[p]) = Len(w))
      /\ (program[p].kind = "set" => program[w[Len(w) - 1]].kind = "target")
  BY <1>2, <1>4, <1>5 DEF HasOperands
<1>7. /\ Leaves(program[p], w) \in Seq(Nat) /\ Len(Leaves(program[p], w)) = Len(w) - Pops(program[p])
      /\ \A k \in 1 .. Len(Leaves(program[p], w)) : Leaves(program[p], w)[k] = w[k]
  BY <1>1, <1>2, <1>6, WaitsIs
<1>8. Len(Leaves(program[p], w)) = 0 => Leaves(program[p], w) = <<>>
  <2>1. PICK left : left = Leaves(program[p], w)
    OBVIOUS
  <2>2. left \in Seq(Nat)
    BY <1>7, <2>1
  <2>3. Len(left) = 0 => left = <<>>
    BY <2>2
  <2>. QED BY <2>1, <2>3
<1>9. program[p].kind \notin Expressions => Len(Leaves(program[p], w)) = 0
  <2>1. PICK x, y \in Nat : x = Len(w) /\ y = Pops(program[p])
    BY <1>2, <1>4
  <2>. QED BY <1>6, <1>7, <2>1
<1>. QED BY <1>1, <1>2, <1>3, <1>4, <1>6, <1>7, <1>8, <1>9 DEF Waits, IsExpression

\* The values below the top n.
Below_(values, n) == SubSeq(values, 1, Len(values) - n)
OperandsOK(i, p, values) ==
  LET n == Pops(program[p])
  IN /\ Len(values) \in Nat /\ n \in Nat /\ n <= Len(values)
     /\ \A k \in 0 .. n - 1 : ValueOK(i, values[Len(values) - k])
     /\ program[p].kind = "set" => values[Len(values) - 1] \in ObjectValues
LEMMA OperandsThere ==
  ASSUME TextIsPlaced, NEW i, NEW p \in Nodes, NEW w, w = Operands(program, p - 1), NEW values \in Seq(ValueSet),
         Match(i, values, w)
  PROVE  /\ OperandsOK(i, p, values)
         /\ Below_(values, Pops(program[p])) \in Seq(ValueSet)
         /\ Match(i, Below_(values, Pops(program[p])), Leaves(program[p], w))
         /\ Pops(program[p]) = 0 => Match(i, values, Leaves(program[p], w))
         /\ program[p].kind \notin Expressions => Below_(values, Pops(program[p])) = <<>>
<1>1. PICK n : n = Pops(program[p])
  OBVIOUS
<1>2. PICK l : l = Len(w)
  OBVIOUS
<1>3. PICK left : left = Leaves(program[p], w)
  OBVIOUS
<1>4. n \in Nat /\ l \in Nat /\ n <= l /\ left \in Seq(Nat) /\ Len(left) = l - n /\ (\A k \in 1 .. Len(left) : left[k] = w[k])
      /\ (program[p].kind \notin Expressions => n = l)
      /\ (program[p].kind = "set" => program[w[l - 1]].kind = "target")
  BY <1>1, <1>2, <1>3, WaitingAt
<1>5. Len(values) = l /\ \A k \in 1 .. l : ValueOK(i, values[k]) /\ (program[w[k]].kind = "target" => values[k] \in ObjectValues)
  BY <1>2 DEF Match
<1>6. \A k \in 0 .. n - 1 : l - k \in 1 .. l
  BY <1>4
<1>7. program[p].kind = "set" => n = 2
  BY <1>1 DEF Pops
<1>8. OperandsOK(i, p, values)
  <2>1. \A k \in 0 .. n - 1 : ValueOK(i, values[l - k])
    BY <1>5, <1>6
  <2>2. program[p].kind = "set" => l - 1 \in 1 .. l
    BY <1>4, <1>7
  <2>3. program[p].kind = "set" => values[l - 1] \in ObjectValues
    BY <1>4, <1>5, <2>2
  <2>. QED BY <1>1, <1>4, <1>5, <2>1, <2>3 DEF OperandsOK
<1>9. PICK under : under = Below_(values, n)
  OBVIOUS
<1>10. under \in Seq(ValueSet) /\ Len(under) = l - n /\ \A k \in 1 .. l - n : under[k] = values[k]
  BY <1>4, <1>5, <1>9 DEF Below_
<1>11. Match(i, under, left)
  <2>1. \A k \in 1 .. l - n : k \in 1 .. l
    BY <1>4
  <2>. QED BY <1>4, <1>5, <1>10, <2>1 DEF Match
<1>12. n = 0 => Match(i, values, left)
  <2>1. n = 0 => l - n = l
    BY <1>4
  <2>. QED BY <1>4, <1>5, <2>1 DEF Match
<1>13. program[p].kind \notin Expressions => under = <<>>
  <2>1. program[p].kind \notin Expressions => Len(under) = 0
    BY <1>4, <1>10
  <2>. QED BY <1>10, <2>1
<1>. QED BY <1>1, <1>3, <1>8, <1>9, <1>10, <1>11, <1>12, <1>13

\* One more value for one more expression.
LEMMA OneMoreValue ==
  ASSUME NEW i, NEW values \in Seq(ValueSet), NEW waiting \in Seq(Nat), Match(i, values, waiting), NEW v, ValueOK(i, v),
         NEW p \in Nat, program[p].kind = "target" => v \in ObjectValues
  PROVE  Match(i, Append(values, v), Append(waiting, p)) /\ Append(values, v) \in Seq(ValueSet)
<1>1. v \in ValueSet
  BY ValueTypes
<1>2. PICK l \in Nat : l = Len(values)
  OBVIOUS
<1>3. PICK a : a = Append(values, v)
  OBVIOUS
<1>4. PICK b : b = Append(waiting, p)
  OBVIOUS
<1>5. Len(waiting) = l /\ \A k \in 1 .. l : ValueOK(i, values[k]) /\ (program[waiting[k]].kind = "target" => values[k] \in ObjectValues)
  BY <1>2 DEF Match
<1>6. a \in Seq(ValueSet) /\ Len(a) = l + 1 /\ a[l + 1] = v /\ \A k \in 1 .. l : a[k] = values[k]
  BY <1>1, <1>2, <1>3
<1>7. Len(b) = l + 1 /\ b[l + 1] = p /\ \A k \in 1 .. l : b[k] = waiting[k]
  BY <1>4, <1>5
<1>8. \A k \in 1 .. l + 1 : k \in 1 .. l \/ k = l + 1
  OBVIOUS
<1>9. \A k \in 1 .. l + 1 : ValueOK(i, a[k]) /\ (program[b[k]].kind = "target" => a[k] \in ObjectValues)
  BY <1>5, <1>6, <1>7, <1>8
<1>. QED BY <1>3, <1>4, <1>6, <1>7, <1>9 DEF Match

\* The value on top stays there for another expression.
LEMMA ValueStays ==
  ASSUME TextIsPlaced, NEW i, NEW p \in Nodes, NEW w, w = Operands(program, p - 1), NEW values \in Seq(ValueSet), Match(i, values, w),
         program[p].kind \in {"assign", "target"}, program[p].kind = "target" => values[Len(values)] \in ObjectValues
  PROVE  Match(i, values, Operands(program, p))
<1>1. PICK left : left = Leaves(program[p], w)
  OBVIOUS
<1>2. Pops(program[p]) = 1 /\ program[p].kind \in Expressions
  BY DEF Pops, Expressions
<1>3. PICK l \in Nat : l = Len(w)
  BY WaitingAt
<1>4. 1 <= l /\ left \in Seq(Nat) /\ Len(left) = l - 1 /\ (\A k \in 1 .. Len(left) : left[k] = w[k])
      /\ Operands(program, p) = Append(left, p)
  BY <1>1, <1>2, <1>3, WaitingAt
<1>5. PICK b : b = Append(left, p)
  OBVIOUS
<1>6. Len(b) = l /\ b[l] = p /\ \A k \in 1 .. l - 1 : b[k] = w[k]
  <2>1. (l - 1) + 1 = l /\ Len(left) \in Nat
    BY <1>3, <1>4
  <2>2. Len(b) = Len(left) + 1 /\ b[Len(left) + 1] = p /\ \A k \in 1 .. Len(left) : b[k] = left[k]
    BY <1>4, <1>5
  <2>. QED BY <1>4, <2>1, <2>2
<1>7. Len(values) = l /\ \A k \in 1 .. l : ValueOK(i, values[k]) /\ (program[w[k]].kind = "target" => values[k] \in ObjectValues)
  BY <1>3 DEF Match
<1>8. \A k \in 1 .. l : k \in 1 .. l - 1 \/ k = l
  BY <1>3
<1>9. \A k \in 1 .. l : ValueOK(i, values[k]) /\ (program[b[k]].kind = "target" => values[k] \in ObjectValues)
  BY <1>6, <1>7, <1>8
<1>. QED BY <1>4, <1>5, <1>6, <1>7, <1>9 DEF Match

-----------------------------------------------------------------------------
(* From node to node *)

\* The line that is executed is one the resolver has nothing against.
GoodLine ==
  /\ TextIsPlaced /\ InnermostIn(program, Len(program)) = 0 /\ line \in Nat \ {0} /\ phase = "executing"
  /\ \A j \in line .. Len(program) : Good(j)
  /\ \A j \in DOMAIN locals : locals[j] # <<>>
Ready(i) == Standing(i) /\ Match(i, i.values, Leaves(program[i.pc], Operands(program, i.pc - 1)))
Running(i) == Standing(i) /\ Match(i, i.values, Operands(program, i.pc - 1))
\* A node that is done when the next one comes.
IsPlain(p) == ~IsOpener(program[p]) /\ ~IsEnd(program[p]) /\ program[p].kind # "define"

LEMMA AtIn ==
  ASSUME TextIsPlaced, NEW i, NEW p \in Nodes, NEW e, NEW u, At(i, e, p, u)
  PROVE  program[p].in = u /\ p \in Nat /\ u \in Nat /\ u < p
<1>1. Placed(program)
  BY DEF TextIsPlaced
<1>2. program[p].in = u
  BY <1>1, InnermostAt DEF At
<1>. QED BY <1>1, <1>2, InIsBefore

LEMMA Onwards ==
  ASSUME TextIsPlaced, line \in Nat, NEW i, NEW p \in Nodes, IsPlain(p), NEW e, NEW u, At(i, e, p, u)
  PROVE  At(i, e, p + 1, u)
<1>1. program[p].in = u /\ p \in Nat
  BY AtIn
<1>2. Placed(program) /\ Len(program) \in Nat
  BY DEF TextIsPlaced, Placed
<1>3. p + 1 \in 1 .. Len(program) + 1 /\ (p + 1) - 1 = p
  BY <1>1, <1>2 DEF Nodes
<1>4. InnermostIn(program, p) = u
  BY <1>1, <1>2, InnermostAt DEF IsPlain
<1>5. u # 0 => UpTo(u, Len(i.envs[e].slots), p + 1)
  <2> SUFFICES ASSUME u # 0
               PROVE  UpTo(u, Len(i.envs[e].slots), p + 1)
    OBVIOUS
  <2>1. u \in Nodes /\ UpTo(u, Len(i.envs[e].slots), p)
    BY DEF At
  <2>2. SameDone(u, p, p + 1)
    BY <1>1, PlainDone DEF IsPlain
  <2>. QED BY <1>2, <2>1, <2>2, UpToSame
<1>6. u = 0 => p + 1 >= line
  <2>1. p >= line => p + 1 >= line
    BY <1>1
  <2>. QED BY <2>1 DEF At
<1>. QED BY <1>3, <1>4, <1>5, <1>6 DEF At

LEMMA StandingKept ==
  ASSUME NEW i, NEW q, Standing(i), HeapOK(q), Grows(i, q), SameSizes(i, q, i.environment + 1),
         q.environment = i.environment, q.stack = i.stack, q.pc = i.pc
  PROVE  Standing(q)
<1>1. IsInterpreter(i) /\ IsInterpreter(q) /\ i.environment \in Nat
  BY InterpreterIs DEF Standing, HeapOK
<1>2. At(q, q.environment, q.pc, InnerOf(q.stack, Len(q.stack)))
  <2>1. i.environment < i.environment + 1
    BY <1>1
  <2>. QED BY <1>1, <2>1, AtKept DEF Standing
<1>3. SameSizes(i, q, i.environment)
  <2>1. \A e \in 1 .. Len(i.envs) : e < i.environment => e < i.environment + 1
    BY <1>1, InterpreterIs
  <2>. QED BY <2>1 DEF SameSizes
<1>4. FramesOK(q)
  BY <1>1, <1>3, FramesKept DEF Standing
<1>. QED BY <1>2, <1>4 DEF Standing

LEMMA ReadyKept ==
  ASSUME NEW i, NEW q, Ready(i), HeapOK(q), Grows(i, q), SameSizes(i, q, i.environment + 1), SameControl(i, q)
  PROVE  Ready(q)
<1>1. IsInterpreter(i) /\ IsInterpreter(q)
  BY DEF Ready, Standing, HeapOK
<1>. QED BY <1>1, StandingKept, MatchKept DEF Ready, SameControl

\* The operands are taken from the stack.
LEMMA Popped ==
  ASSUME GoodLine, NEW i, Running(i), i.pc \in Nodes, NEW q,
         q = [i EXCEPT !.values = SubSeq(@, 1, Len(@) - Pops(program[i.pc]))]
  PROVE  /\ Ready(q) /\ SameHeap(i, q) /\ Grows(i, q)
         /\ q.environment = i.environment /\ q.stack = i.stack /\ q.pc = i.pc /\ q.status = i.status
         /\ q.values = Below_(i.values, Pops(program[i.pc]))
         /\ OperandsOK(i, i.pc, i.values)
<1>1. PICK p : p = i.pc
  OBVIOUS
<1>2. PICK w : w = Operands(program, p - 1)
  OBVIOUS
<1>3. PICK under : under = Below_(i.values, Pops(program[p]))
  OBVIOUS
<1>4. IsInterpreter(i) /\ i.values \in Seq(ValueSet) /\ HeapOK(i) /\ TextIsPlaced
  BY InterpreterIs DEF Running, Standing, HeapOK, GoodLine
<1>5. Match(i, i.values, w)
  BY <1>1, <1>2 DEF Running
<1>6. OperandsOK(i, p, i.values) /\ under \in Seq(ValueSet) /\ Match(i, under, Leaves(program[p], w))
  BY <1>1, <1>2, <1>3, <1>4, <1>5, OperandsThere
<1>7. q = [i EXCEPT !.values = under]
  BY <1>1, <1>3 DEF Below_
<1>8. /\ q.environment = i.environment /\ q.stack = i.stack /\ q.pc = i.pc /\ q.status = i.status /\ q.values = under
      /\ q.envs = i.envs /\ q.objects = i.objects /\ q.globals = i.globals
  BY <1>4, <1>7 DEF IsInterpreter
<1>9. IsInterpreter(q)
  BY <1>4, <1>6, <1>7, <1>8 DEF IsInterpreter
<1>10. HeapOK(q) /\ Grows(i, q) /\ SameHeap(i, q)
  BY <1>4, <1>8, <1>9, HeapSame DEF SameHeap
<1>11. SameSizes(i, q, i.environment + 1)
  BY <1>8 DEF SameSizes
<1>12. Standing(q)
  BY <1>8, <1>10, <1>11, StandingKept DEF Running
<1>13. Match(q, q.values, Leaves(program[q.pc], Operands(program, q.pc - 1)))
  BY <1>1, <1>2, <1>4, <1>6, <1>8, <1>9, <1>10, MatchKept
<1>. QED BY <1>1, <1>3, <1>6, <1>8, <1>10, <1>12, <1>13 DEF Ready

LEMMA NothingPopped ==
  ASSUME GoodLine, NEW i, Running(i), i.pc \in Nodes, Pops(program[i.pc]) = 0
  PROVE  Ready(i)
<1>1. i.values \in Seq(ValueSet)
  BY InterpreterIs DEF Running, Standing, HeapOK
<1>2. PICK w : w = Operands(program, i.pc - 1)
  OBVIOUS
<1>3. Match(i, i.values, w) /\ TextIsPlaced
  BY <1>2 DEF Running, GoodLine
<1>. QED BY <1>1, <1>2, <1>3, OperandsThere DEF Running, Ready

\* On to the next node.
LEMMA Passed ==
  ASSUME GoodLine, NEW i, NEW q, Standing(i), i.pc \in Nodes, IsPlain(i.pc), HeapOK(q), Grows(i, q),
         SameSizes(i, q, i.environment + 1), q.environment = i.environment, q.stack = i.stack, q.pc = i.pc + 1,
         Match(q, q.values, Operands(program, i.pc))
  PROVE  Running(q)
<1>1. PICK p : p = i.pc
  OBVIOUS
<1>2. PICK u : u = InnerOf(i.stack, Len(i.stack))
  OBVIOUS
<1>3. IsInterpreter(i) /\ IsInterpreter(q) /\ i.environment \in Nat /\ p \in Nat
  BY <1>1, InterpreterIs DEF Standing, HeapOK
<1>4. At(i, i.environment, p, u)
  BY <1>1, <1>2 DEF Standing
<1>5. At(i, i.environment, p + 1, u)
  BY <1>1, <1>4, Onwards DEF GoodLine
<1>6. At(q, i.environment, p + 1, u)
  <2>1. i.environment < i.environment + 1
    BY <1>3
  <2>. QED BY <1>3, <1>5, <2>1, AtKept
<1>7. SameSizes(i, q, i.environment)
  <2>1. \A e \in 1 .. Len(i.envs) : e < i.environment => e < i.environment + 1
    BY <1>3, InterpreterIs
  <2>. QED BY <2>1 DEF SameSizes
<1>8. FramesOK(q)
  BY <1>3, <1>7, FramesKept DEF Standing
<1>9. (p + 1) - 1 = p
  BY <1>3
<1>10. Match(q, q.values, Operands(program, q.pc - 1))
  BY <1>1, <1>9
<1>. QED BY <1>1, <1>2, <1>6, <1>8, <1>10 DEF Running, Standing

\* An expression is done.
LEMMA ResultIs ==
  ASSUME GoodLine, NEW i, Ready(i), i.pc \in Nodes, program[i.pc].kind \in Expressions \ {"target"}, NEW v, ValueOK(i, v),
         NEW q, q = Result(i, v)
  PROVE  Running(q) /\ q.status = i.status
<1>1. PICK p : p = i.pc
  OBVIOUS
<1>2. PICK w : w = Operands(program, p - 1)
  OBVIOUS
<1>3. PICK left : left = Leaves(program[p], w)
  OBVIOUS
<1>4. IsInterpreter(i) /\ i.values \in Seq(ValueSet) /\ HeapOK(i) /\ Standing(i) /\ p \in Nat /\ i.pc \in Nat
  BY <1>1, InterpreterIs DEF Ready, Standing, HeapOK
<1>5. Match(i, i.values, left) /\ left \in Seq(Nat) /\ Operands(program, p) = Append(left, p)
  <2>1. Match(i, i.values, left)
    BY <1>1, <1>2, <1>3 DEF Ready
  <2>. QED BY <1>1, <1>2, <1>3, <2>1, WaitingAt DEF GoodLine
<1>6. PICK values : values = Append(i.values, v)
  OBVIOUS
<1>7. Match(i, values, Append(left, p)) /\ values \in Seq(ValueSet)
  BY <1>1, <1>4, <1>5, <1>6, OneMoreValue
<1>8. q = [i EXCEPT !.values = values, !.pc = p + 1]
  BY <1>1, <1>6 DEF Result
<1>9. /\ q.environment = i.environment /\ q.stack = i.stack /\ q.pc = p + 1 /\ q.status = i.status /\ q.values = values
      /\ q.envs = i.envs /\ q.objects = i.objects /\ q.globals = i.globals
  BY <1>4, <1>8 DEF IsInterpreter
<1>10. IsInterpreter(q)
  <2>1. p + 1 \in Nat /\ values \in Seq(ValueSet) /\ IsInterpreter(i)
    BY <1>4, <1>7
  <2>. QED BY <1>8, <1>9, <2>1 DEF IsInterpreter
<1>11. HeapOK(q) /\ Grows(i, q) /\ SameSizes(i, q, i.environment + 1)
  BY <1>4, <1>9, <1>10, HeapSame DEF SameHeap, SameSizes
<1>12. Match(q, q.values, Operands(program, p))
  BY <1>4, <1>5, <1>7, <1>9, <1>10, <1>11, MatchKept
<1>13. IsPlain(p)
  BY <1>1 DEF IsPlain, IsOpener, IsEnd, Openers, Expressions
<1>. QED BY <1>1, <1>4, <1>9, <1>11, <1>12, <1>13, Passed

\* Idle at the globals, as between lines.
Idle(i) == i.stack = <<>> /\ i.values = <<>> /\ i.environment = globals
Fine(i) ==
  /\ HeapOK(i)
  /\ i.status = "running" => Running(i)
  /\ i.status = "error" => Idle(i)
  /\ i.status = "crashed" => i.pc \in Nodes /\ AssignsItself(i.pc)

LEMMA FailsWell ==
  ASSUME NEW i, Standing(i), NEW q, q = failWith(i)
  PROVE  Fine(q)
<1>1. IsInterpreter(i) /\ i.stack \in Seq(FrameSet) /\ HeapOK(i) /\ i.environment \in Nat /\ Len(i.stack) \in Nat
  BY InterpreterIs DEF Standing, HeapOK
<1>2. PICK e : e = IF i.stack = <<>> THEN i.environment ELSE i.stack[1].previous
  OBVIOUS
<1>3. e = globals
  <2>1. CASE i.stack = <<>>
    <3>1. Len(i.stack) = 0
      BY <2>1
    <3>2. At(i, i.environment, i.pc, 0)
      BY <3>1 DEF Standing, InnerOf
    <3>. QED BY <1>2, <2>1, <3>2 DEF At
  <2>2. CASE i.stack # <<>>
    <3>1. 1 \in 1 .. Len(i.stack)
      BY <1>1, <2>2
    <3>2. FrameOK(i, i.stack, 1)
      BY <3>1 DEF Standing, FramesOK
    <3>3. InnerOf(i.stack, 1 - 1) = 0
      BY DEF InnerOf
    <3>4. At(i, i.stack[1].previous, i.stack[1].opener, 0)
      BY <3>2, <3>3 DEF FrameOK
    <3>. QED BY <1>2, <2>2, <3>4 DEF At
  <2>. QED BY <2>1, <2>2
<1>4. q = [i EXCEPT !.environment = e, !.stack = <<>>, !.values = <<>>, !.status = "error"]
  BY <1>2 DEF failWith
<1>5. /\ q.environment = e /\ q.stack = <<>> /\ q.values = <<>> /\ q.status = "error"
      /\ q.envs = i.envs /\ q.objects = i.objects /\ q.globals = i.globals
  BY <1>1, <1>4 DEF IsInterpreter
<1>6. IsInterpreter(q)
  <2>1. e \in Nat /\ IsInterpreter(i)
    BY <1>1, <1>3 DEF globals
  <2>2. PICK s : s = <<>>
    OBVIOUS
  <2>3. s \in Seq(FrameSet) /\ s \in Seq(ValueSet)
    BY <2>2
  <2>4. q = [i EXCEPT !.environment = e, !.stack = s, !.values = s, !.status = "error"]
    BY <1>4, <2>2
  <2>. QED BY <1>5, <2>1, <2>3, <2>4 DEF IsInterpreter
<1>7. HeapOK(q)
  BY <1>1, <1>5, <1>6, HeapSame DEF SameHeap
<1>. QED BY <1>3, <1>5, <1>7 DEF Fine, Idle

LEMMA GoodHere ==
  ASSUME GoodLine, NEW i, Standing(i), i.pc \in Nodes
  PROVE  Good(i.pc)
<1>1. PICK p : p = i.pc
  OBVIOUS
<1>2. PICK u : u = InnerOf(i.stack, Len(i.stack))
  OBVIOUS
<1>3. At(i, i.environment, p, u) /\ TextIsPlaced
  BY <1>1, <1>2 DEF Standing, GoodLine
<1>4. program[p].in = u /\ p \in Nat
  BY <1>1, <1>3, AtIn
<1>5. CASE u = 0
  <2>1. p >= line
    BY <1>3, <1>5 DEF At
  <2>2. p \in line .. Len(program)
    BY <1>1, <1>4, <2>1 DEF GoodLine, Nodes
  <2>. QED BY <1>1, <2>2 DEF GoodLine
<1>6. CASE u # 0
  <2>1. u \in Nodes /\ program[u].kind \in Openers /\ Runs(u)
    BY <1>3, <1>6 DEF At
  <2>2. u \in Around(p, Openers)
    BY <1>1, <1>3, <1>4, <1>6, <2>1, AroundOf DEF TextIsPlaced
  <2>. QED BY <1>1, <2>1, <2>2 DEF Runs
<1>. QED BY <1>5, <1>6

\* What is in the node at hand runs too.
LEMMA RunsInside ==
  ASSUME GoodLine, NEW i, Standing(i), i.pc \in Nodes, IsOpener(program[i.pc])
  PROVE  /\ Runs(i.pc)
         /\ \A m \in Nodes : program[m].in = i.pc /\ IsOpener(program[m]) => Runs(m)
<1>1. PICK p : p = i.pc
  OBVIOUS
<1>2. PICK u : u = InnerOf(i.stack, Len(i.stack))
  OBVIOUS
<1>3. At(i, i.environment, p, u) /\ TextIsPlaced /\ Placed(program)
  BY <1>1, <1>2 DEF Standing, GoodLine, TextIsPlaced
<1>4. program[p].in = u /\ p \in Nat
  BY <1>1, <1>3, AtIn
<1>5. Runs(p)
  <2>1. CASE u = 0
    <3>1. p >= line
      BY <1>3, <2>1 DEF At
    <3>2. ASSUME NEW j \in Nodes, p \in Around(j, Openers)
          PROVE  Good(j)
      <4>1. p \in 1 .. j - 1 /\ j \in Nat
        BY <1>3, <3>2, AroundOf, InIsBefore
      <4>2. j \in line .. Len(program)
        BY <1>4, <3>1, <4>1 DEF GoodLine, Nodes
      <4>. QED BY <4>2 DEF GoodLine
    <3>. QED BY <3>2 DEF Runs
  <2>2. CASE u # 0
    <3>1. Runs(u)
      BY <1>3, <2>2 DEF At
    <3>2. \A j \in Nodes : p \in Around(j, Openers) => u \in Around(j, Openers)
      BY <1>1, <1>3, <1>4, <2>2, AroundInside
    <3>. QED BY <3>1, <3>2 DEF Runs
  <2>. QED BY <2>1, <2>2
<1>6. ASSUME NEW m \in Nodes, program[m].in = p, IsOpener(program[m])
      PROVE  Runs(m)
  <2>1. p # 0
    BY <1>1, <1>3, NoNodeZero
  <2>2. \A j \in Nodes : m \in Around(j, Openers) => p \in Around(j, Openers)
    BY <1>3, <1>6, <2>1, AroundInside
  <2>. QED BY <1>5, <2>2 DEF Runs
<1>. QED BY <1>1, <1>5, <1>6

-----------------------------------------------------------------------------
(* Frames come and go *)

\* A frame is judged by the frames up to it.
LEMMA FrameAlone ==
  ASSUME NEW i, NEW s, NEW t, NEW k \in Nat, \A l \in 1 .. k : t[l] = s[l], k > 0, FrameOK(i, s, k)
  PROVE  FrameOK(i, t, k)
<1>1. t[k] = s[k] /\ \A l \in 1 .. k - 1 : t[l] = s[l]
  OBVIOUS
<1>2. InnerOf(t, k - 1) = InnerOf(s, k - 1)
  <2>1. k - 1 # 0 => k - 1 \in 1 .. k - 1
    OBVIOUS
  <2>. QED BY <1>1, <2>1 DEF InnerOf
<1>. QED BY <1>1, <1>2 DEF FrameOK

LEMMA FramesTyped ==
  ASSUME NEW s \in Seq(FrameSet)
  PROVE  \A k \in 1 .. Len(s) : s[k].previous \in Nat /\ s[k].opener \in Nat /\ s[k].values \in Seq(ValueSet)
<1>1. \A k \in 1 .. Len(s) : s[k] \in FrameSet
  OBVIOUS
<1>2. \A f \in FrameSet : f.previous \in Nat /\ f.opener \in Nat /\ f.values \in Seq(ValueSet)
  BY DEF FrameSet
<1>. QED BY <1>1, <1>2

InnerOfFrame(f) == IF IsCall(f) THEN f.function.declaration ELSE f.opener
LEMMA Pushed_ ==
  ASSUME NEW i, Standing(i), i.pc \in Nodes, NEW q, HeapOK(q), Grows(i, q), SameSizes(i, q, i.environment + 1),
         NEW f, q.stack = Append(i.stack, f), f.previous = i.environment, f.opener = i.pc, FrameHas(i, f),
         i.environment < q.environment, At(q, q.environment, q.pc, InnerOfFrame(f))
  PROVE  Standing(q)
<1>1. PICK s : s = i.stack
  OBVIOUS
<1>2. PICK t : t = q.stack
  OBVIOUS
<1>3. PICK n : n = Len(s)
  OBVIOUS
<1>4. IsInterpreter(i) /\ IsInterpreter(q) /\ i.environment \in Nat /\ q.environment \in Nat /\ s \in Seq(FrameSet) /\ n \in Nat
  BY <1>1, <1>3, InterpreterIs DEF Standing, HeapOK
<1>5. Len(t) = n + 1 /\ t[n + 1] = f /\ \A k \in 1 .. n : t[k] = s[k]
  BY <1>1, <1>2, <1>3, <1>4
<1>6. \A k \in 1 .. n : FrameOK(i, s, k) /\ s[k].previous < i.environment
  BY <1>1, <1>3 DEF Standing, FramesOK
<1>7. \A k \in 1 .. n : s[k].previous \in Nat
  BY <1>3, <1>4, FramesTyped
<1>8. ASSUME NEW k \in 1 .. n
      PROVE  FrameOK(q, t, k) /\ t[k].previous < q.environment
  <2>1. \A l \in 1 .. k : t[l] = s[l]
    BY <1>4, <1>5
  <2>2. FrameOK(i, t, k) /\ t[k].previous < i.environment + 1
    BY <1>4, <1>5, <1>6, <1>7, <2>1, FrameAlone
  <2>. QED BY <1>4, <1>5, <1>6, <1>7, <2>2, FrameKept
<1>9. InnerOf(t, n) = InnerOf(s, n)
  <2>1. n # 0 => n \in 1 .. n
    BY <1>4
  <2>. QED BY <1>5, <2>1 DEF InnerOf
<1>10. At(i, i.environment, i.pc, InnerOf(s, n))
  BY <1>1, <1>3 DEF Standing
<1>11. At(q, i.environment, i.pc, InnerOf(t, n))
  <2>1. i.environment < i.environment + 1
    BY <1>4
  <2>. QED BY <1>4, <1>9, <1>10, <2>1, AtKept
<1>12. FrameHas(q, f)
  <2>1. /\ \A g : FunctionOK(i, g) => FunctionOK(q, g)
        /\ \A v : ValueOK(i, v) => ValueOK(q, v)
    BY <1>4, ValuesGrow
  <2>2. Match(i, f.values, Leaves(program[f.opener], Operands(program, f.opener - 1)))
          => Match(q, f.values, Leaves(program[f.opener], Operands(program, f.opener - 1)))
    BY <1>4, MatchKept
  <2>. QED BY <2>1, <2>2 DEF FrameHas
<1>13. FrameOK(q, t, n + 1)
  <2>1. (n + 1) - 1 = n
    BY <1>4
  <2>2. \A l \in 1 .. n : t[l].previous < f.previous
    BY <1>5, <1>6
  <2>. QED BY <1>5, <1>11, <1>12, <2>1, <2>2 DEF FrameOK
<1>14. FramesOK(q)
  <2>1. \A k \in 1 .. n + 1 : k \in 1 .. n \/ k = n + 1
    BY <1>4
  <2>. QED BY <1>2, <1>5, <1>8, <1>13, <2>1 DEF FramesOK
<1>15. InnerOf(t, n + 1) = InnerOfFrame(f)
  BY <1>4, <1>5 DEF InnerOf, InnerOfFrame
<1>. QED BY <1>2, <1>5, <1>14, <1>15 DEF Standing

\* What is left when the frames from n on are gone.
LEMMA Unwound ==
  ASSUME NEW i, Standing(i), NEW n \in 1 .. Len(i.stack), NEW q, IsInterpreter(q), SameHeap(i, q),
         q.stack = SubSeq(i.stack, 1, n - 1), q.environment = i.stack[n].previous,
         At(i, q.environment, q.pc, InnerOf(i.stack, n - 1))
  PROVE  Standing(q)
<1>1. PICK s : s = i.stack
  OBVIOUS
<1>2. PICK t : t = q.stack
  OBVIOUS
<1>3. HeapOK(i) /\ IsInterpreter(i) /\ s \in Seq(FrameSet) /\ Len(s) \in Nat /\ n \in Nat /\ n > 0
  BY <1>1, InterpreterIs DEF Standing, HeapOK
<1>4. HeapOK(q) /\ Grows(i, q)
  BY <1>3, HeapSame
<1>5. Len(t) = n - 1 /\ \A k \in 1 .. n - 1 : t[k] = s[k]
  BY <1>1, <1>2, <1>3
<1>6. \A k : SameSizes(i, q, k)
  BY DEF SameSizes, SameHeap
<1>7. \A k \in 1 .. n : FrameOK(i, s, k)
  BY <1>1, <1>3 DEF Standing, FramesOK
<1>8. \A k \in 1 .. n - 1 : s[k].previous < s[n].previous /\ s[n].previous \in Nat /\ s[k].previous \in Nat
  <2>1. \A k \in 1 .. n : s[k].previous \in Nat
    BY <1>1, <1>3, FramesTyped
  <2>2. \A k \in 1 .. n - 1 : k \in 1 .. n
    BY <1>3
  <2>3. n \in 1 .. n
    BY <1>3
  <2>. QED BY <1>7, <2>1, <2>2, <2>3 DEF FrameOK
<1>9. ASSUME NEW k \in 1 .. n - 1
      PROVE  FrameOK(q, t, k) /\ t[k].previous < q.environment
  <2>1. \A l \in 1 .. k : t[l] = s[l]
    BY <1>3, <1>5
  <2>2. FrameOK(i, t, k)
    <3>1. FrameOK(i, s, k) /\ k \in Nat /\ k > 0
      BY <1>3, <1>7
    <3>. QED BY <2>1, <3>1, FrameAlone
  <2>3. t[k].previous < t[k].previous + 1
    BY <1>5, <1>8
  <2>4. FrameOK(q, t, k)
    BY <1>3, <1>4, <1>6, <2>2, <2>3, FrameKept
  <2>. QED BY <1>1, <1>5, <1>8, <2>4
<1>10. FramesOK(q)
  BY <1>2, <1>5, <1>9 DEF FramesOK
<1>11. InnerOf(t, n - 1) = InnerOf(s, n - 1)
  <2>1. n - 1 # 0 => n - 1 \in 1 .. n - 1
    BY <1>3
  <2>. QED BY <1>5, <2>1 DEF InnerOf
<1>12. At(q, q.environment, q.pc, InnerOf(t, n - 1))
  <2>1. i.stack[n].previous \in Nat
    BY <1>1, <1>3, FramesTyped
  <2>2. q.environment < q.environment + 1
    BY <2>1
  <2>. QED BY <1>1, <1>3, <1>4, <1>6, <1>11, <2>2, AtKept
<1>. QED BY <1>2, <1>4, <1>5, <1>10, <1>12 DEF Standing

-----------------------------------------------------------------------------
(* Calls *)

\* A heap that has grown but for the environments there were.
Adds_(i, q) == HeapOK(q) /\ Grows(i, q) /\ SameControl(i, q) /\ \A n : SameSizes(i, q, n)
LEMMA AddsReady ==
  ASSUME NEW i, NEW q, Adds_(i, q)
  PROVE  /\ Ready(i) => Ready(q)
         /\ Standing(i) => Standing(q)
<1>1. HeapOK(q) /\ Grows(i, q) /\ SameControl(i, q) /\ SameSizes(i, q, i.environment + 1)
  BY DEF Adds_
<1>. QED BY <1>1, ReadyKept, StandingKept DEF SameControl

LEMMA AddsMore ==
  ASSUME NEW i, HeapOK(i), NEW q, Adds_(i, q), NEW r, Adds_(q, r)
  PROVE  Adds_(i, r)
<1>1. HeapOK(q) /\ HeapOK(r) /\ Grows(i, q) /\ Grows(q, r) /\ SameControl(i, r)
  BY DEF Adds_, SameControl
<1>2. \A e \in 1 .. Len(i.envs) : Len(q.envs[e].slots) = Len(i.envs[e].slots)
  <2>1. SameSizes(i, q, Len(i.envs) + 1)
    BY DEF Adds_
  <2>2. Len(i.envs) \in Nat
    BY InterpreterIs DEF HeapOK
  <2>3. \A e \in 1 .. Len(i.envs) : e < Len(i.envs) + 1
    BY <2>2
  <2>. QED BY <2>1, <2>3 DEF SameSizes
<1>3. \A e \in 1 .. Len(q.envs) : Len(r.envs[e].slots) = Len(q.envs[e].slots)
  <2>1. SameSizes(q, r, Len(q.envs) + 1)
    BY DEF Adds_
  <2>2. Len(q.envs) \in Nat
    BY <1>1, InterpreterIs DEF HeapOK
  <2>3. \A e \in 1 .. Len(q.envs) : e < Len(q.envs) + 1
    BY <2>2
  <2>. QED BY <2>1, <2>3 DEF SameSizes
<1>4. PICK a, b, c \in Nat : a = Len(i.envs) /\ b = Len(q.envs) /\ c = Len(r.envs)
  BY <1>1, InterpreterIs DEF HeapOK
<1>5. PICK k, l, m \in Nat : k = Len(i.objects) /\ l = Len(q.objects) /\ m = Len(r.objects)
  BY <1>1, InterpreterIs DEF HeapOK
<1>6. a <= b /\ b <= c /\ a <= c /\ k <= l /\ l <= m /\ k <= m
  BY <1>1, <1>4, <1>5 DEF Grows
<1>7. \A e \in 1 .. a : e \in 1 .. b
  BY <1>6
<1>8. \A e \in 1 .. k : e \in 1 .. l
  BY <1>6
<1>9. \A e \in 1 .. a : r.envs[e].scope = i.envs[e].scope /\ Len(r.envs[e].slots) = Len(i.envs[e].slots)
  BY <1>1, <1>2, <1>3, <1>4, <1>7 DEF Grows
<1>10. \A id \in 1 .. k : r.objects[id].isClass = i.objects[id].isClass
  BY <1>1, <1>5, <1>8 DEF Grows
<1>11. \A e \in 1 .. a : Len(i.envs[e].slots) \in Nat
  BY <1>4, InterpreterIs DEF HeapOK
<1>12. Grows(i, r)
  BY <1>4, <1>5, <1>6, <1>9, <1>10, <1>11 DEF Grows
<1>13. \A n : SameSizes(i, r, n)
  BY <1>4, <1>9 DEF SameSizes
<1>. QED BY <1>1, <1>12, <1>13 DEF Adds_

\* Methods are in class bodies, functions in blocks.
LEMMA MethodIn ==
  ASSUME TextIsPlaced, NEW m \in Nodes, program[m].kind = "method", NEW c, c = program[m].in
  PROVE  c \in Nodes /\ c < m /\ m \in Nat /\ program[c].kind = "body" /\ IsScope(<<c, "this">>) /\ InnerScope(c) = <<c, "this">>
         /\ Declarations(<<c, "this">>) = <<[name |-> "this", node |-> c]>>
<1>1. c # 0 /\ program[c].kind = "body"
  BY DEF TextIsPlaced, Grammatical
<1>2. c \in Nodes /\ c < m /\ m \in Nat /\ c \in Nat
  BY <1>1, InIsBefore DEF TextIsPlaced
<1>3. IsScope(<<c, "this">>)
  BY <1>1, <1>2 DEF IsScope, ScopeSet, IsOpener, Openers
<1>4. InnerScope(c) = <<c, "this">>
  <2>1. PICK w : w = ScopesOf(c)
    OBVIOUS
  <2>2. w = <<<<c, "this">>>> \/ w = <<<<c, "this">>, <<c, "super">>>>
    BY <1>1, <1>2, <2>1, ScopesOfAre
  <2>3. w[1] = <<c, "this">>
    BY <2>2
  <2>. QED BY <1>1, <2>1, <2>3 DEF InnerScope
<1>. QED BY <1>1, <1>2, <1>3, <1>4, DeclarationsOfWord

\* A method bound to a receiver is a function.
LEMMA BindIs ==
  ASSUME GoodLine, NEW i, HeapOK(i), NEW f, MethodOK(i, f), NEW receiver, ValueOK(i, receiver), NEW q, q = bind(i, receiver, f)
  PROVE  Adds_(i, q) /\ FunctionOK(q, Bound(q, f)) /\ Bound(q, f).declaration = f.declaration
<1>1. PICK c : c = program[f.declaration].in
  OBVIOUS
<1>2. f.declaration \in Nodes /\ f.declaration < Known /\ program[f.declaration].kind = "method" /\ Runs(f.declaration)
      /\ Stands(i, f.closure, Beyond(<<c, "this">>), c) /\ f \in FunctionValues
  BY <1>1 DEF MethodOK
<1>3. c \in Nodes /\ c < f.declaration /\ f.declaration \in Nat /\ IsScope(<<c, "this">>) /\ InnerScope(c) = <<c, "this">>
      /\ Declarations(<<c, "this">>) = <<[name |-> "this", node |-> c]>>
  BY <1>1, <1>2, MethodIn DEF GoodLine
<1>4. PICK d : d = Declarations(<<c, "this">>)
  OBVIOUS
<1>5. Len(d) = 1 /\ d[1].name = "this" /\ d[1].node = c
  <2>1. PICK r : r = [name |-> "this", node |-> c]
    OBVIOUS
  <2>2. d = <<r>> /\ r.name = "this" /\ r.node = c
    BY <1>3, <1>4, <2>1
  <2>. QED BY <2>2
<1>6. PICK slots : slots = <<SlotFor("this", receiver)>>
  OBVIOUS
<1>7. receiver \in ValueSet
  BY ValueTypes
<1>8. slots \in Seq(SlotSet) /\ Len(slots) = 1 /\ slots[1].name = "this" /\ slots[1].value = receiver
  <2>1. PICK r : r = SlotFor("this", receiver)
    OBVIOUS
  <2>2. r \in SlotSet /\ r.name = "this" /\ r.value = receiver
    BY <1>7, <2>1 DEF SlotSet, SlotFor, NameSet
  <2>. QED BY <1>6, <2>1, <2>2
<1>9. PICK env : env = [enclosing |-> f.closure, scope |-> <<c, "this">>, slots |-> slots]
  OBVIOUS
<1>10. env \in EnvSet /\ env.enclosing = f.closure /\ env.scope = <<c, "this">> /\ env.slots = slots
  <2>1. f.closure \in Nat
    BY <1>2 DEF FunctionValues
  <2>2. <<c, "this">> \in ScopeSet
    BY <1>3 DEF IsScope
  <2>. QED BY <1>8, <1>9, <2>1, <2>2 DEF EnvSet
<1>11. EnvFits(i, env)
  <2>1. c < Known
    <3>1. Len(program) \in Nat /\ phase = "executing"
      BY DEF GoodLine, TextIsPlaced, Placed
    <3>. QED BY <1>3, <3>1 DEF Known, Nodes
  <2>2. PICK s : s = <<c, "this">>
    OBVIOUS
  <2>3. s[1] = c /\ s[2] = "this" /\ s[2] # "block" /\ s[2] # "super"
    BY <2>2
  <2>4. PICK l : l = Len(slots)
    OBVIOUS
  <2>5. \A m \in 1 .. l : slots[m].name = d[m].name /\ ValueOK(i, slots[m].value)
    BY <1>5, <1>8, <2>4
  <2>6. IsScope(s) /\ Stands(i, f.closure, Beyond(s), s[1]) /\ d = Declarations(s) /\ env.scope = s
    BY <1>2, <1>3, <1>4, <1>10, <2>2, <2>3
  <2>7. l <= Len(d) /\ l = 1
    BY <1>5, <1>8, <2>4
  <2>. QED BY <1>10, <2>1, <2>3, <2>4, <2>5, <2>6, <2>7 DEF EnvFits
<1>12. q = NewEnvironment(i, f.closure, <<c, "this">>, slots)
  BY <1>1, <1>6 DEF bind
<1>13. PICK l \in Nat : l = Len(i.envs)
  BY InterpreterIs DEF HeapOK
<1>14. /\ HeapOK(q) /\ Grows(i, q) /\ SameControl(i, q)
       /\ Len(q.envs) = l + 1 /\ q.envs[l + 1] = env
       /\ \A e \in 1 .. l : q.envs[e] = i.envs[e]
  BY <1>9, <1>10, <1>11, <1>12, <1>13, EnvironmentMade
<1>15. Adds_(i, q)
  BY <1>13, <1>14 DEF Adds_, SameSizes
<1>16. PICK g : g = Bound(q, f)
  OBVIOUS
<1>17. g \in FunctionValues /\ g.declaration = f.declaration /\ g.closure = l + 1 /\ g.isInitializer = f.isInitializer
  BY <1>2, <1>13, <1>14, <1>16 DEF Bound, FunctionValues
<1>18. FunctionOK(q, g)
  <2>1. l + 1 \in 1 .. Len(q.envs) /\ q.envs[l + 1].scope = <<c, "this">> /\ Len(q.envs[l + 1].slots) = 1
    BY <1>8, <1>10, <1>13, <1>14
  <2>2. Stands(q, l + 1, <<c, "this">>, f.declaration)
    BY <1>4, <1>5, <2>1 DEF Stands
  <2>. QED BY <1>1, <1>2, <1>3, <1>17, <2>2 DEF FunctionOK, Functions
<1>. QED BY <1>15, <1>16, <1>17, <1>18

\* A new environment is right for the first node inside u.
BlockEnv(enclosing, u, slots) == [enclosing |-> enclosing, scope |-> <<u, "block">>, slots |-> slots]
Entering(i, env, f, u) ==
  [i EXCEPT !.envs = Append(@, env), !.stack = Append(@, f), !.environment = Len(i.envs) + 1, !.pc = u + 1, !.values = <<>>]
LEMMA ScopeEntered ==
  ASSUME GoodLine, NEW i, Standing(i), i.pc \in Nodes,
         NEW f \in FrameSet, f.previous = i.environment, f.opener = i.pc, FrameHas(i, f),
         NEW u \in Nodes, u = InnerOfFrame(f), program[u].kind \in Openers \ {"body"}, Runs(u),
         NEW slots, NEW enclosing, NEW env, env = BlockEnv(enclosing, u, slots), env \in EnvSet,
         EnvFits(i, env), Len(slots) = Params(u),
         NEW q, q = Entering(i, env, f, u)
  PROVE  Running(q) /\ q.status = i.status
<1>1. HeapOK(i) /\ IsInterpreter(i) /\ TextIsPlaced /\ Placed(program) /\ Len(program) \in Nat
  BY DEF Standing, HeapOK, GoodLine, TextIsPlaced, Placed
<1>2. PICK l \in Nat : l = Len(i.envs)
  BY <1>1, InterpreterIs
<1>3. PICK m : m = NewEnvironment(i, enclosing, <<u, "block">>, slots)
  OBVIOUS
<1>4. /\ HeapOK(m) /\ Grows(i, m) /\ SameControl(i, m) /\ m.objects = i.objects /\ m.globals = i.globals
      /\ Len(m.envs) = l + 1 /\ m.envs[l + 1] = env
      /\ \A e \in 1 .. l : m.envs[e] = i.envs[e]
  <2>1. PICK scope : scope = <<u, "block">>
    OBVIOUS
  <2>2. env = [enclosing |-> enclosing, scope |-> scope, slots |-> slots] /\ m = NewEnvironment(i, enclosing, scope, slots)
    BY <1>3, <2>1 DEF BlockEnv
  <2>3. /\ HeapOK(m) /\ Grows(i, m) /\ SameControl(i, m) /\ m.objects = i.objects /\ m.globals = i.globals
        /\ Len(m.envs) = Len(i.envs) + 1 /\ m.envs[Len(i.envs) + 1] = env
        /\ \A e \in 1 .. Len(i.envs) : m.envs[e] = i.envs[e]
    BY <1>1, <2>2, EnvironmentMade
  <2>. QED BY <1>2, <2>3
<1>5. m.envs = Append(i.envs, env)
  BY <1>1, <1>3 DEF NewEnvironment, IsInterpreter, BlockEnv
<1>6. PICK envs : envs = m.envs
  OBVIOUS
<1>7. PICK stack : stack = Append(i.stack, f)
  OBVIOUS
<1>8. PICK none : none = <<>>
  OBVIOUS
<1>9. q = [i EXCEPT !.envs = envs, !.stack = stack, !.environment = l + 1, !.pc = u + 1, !.values = none]
  BY <1>2, <1>5, <1>6, <1>7, <1>8 DEF Entering
<1>10. /\ q.envs = envs /\ q.stack = stack /\ q.environment = l + 1 /\ q.pc = u + 1 /\ q.values = none
       /\ q.status = i.status /\ q.objects = i.objects /\ q.globals = i.globals
  BY <1>1, <1>9 DEF IsInterpreter
<1>11. IsInterpreter(q)
  <2>1. u + 1 \in Nat /\ l + 1 \in Nat
    BY <1>1, <1>2 DEF Nodes
  <2>2. envs \in Seq(EnvSet)
    BY <1>4, <1>6, InterpreterIs DEF HeapOK
  <2>3. stack \in Seq(FrameSet)
    <3>1. i.stack \in Seq(FrameSet)
      BY <1>1, InterpreterIs
    <3>. QED BY <1>7, <3>1
  <2>4. none \in Seq(ValueSet)
    BY <1>8
  <2>. QED BY <1>1, <1>9, <1>10, <2>1, <2>2, <2>3, <2>4 DEF IsInterpreter
<1>12. HeapOK(q) /\ Grows(m, q)
  BY <1>4, <1>6, <1>10, <1>11, HeapSame DEF SameHeap
<1>13. Grows(i, q)
  BY <1>4, <1>6, <1>10 DEF Grows
<1>14. SameSizes(i, q, i.environment + 1)
  BY <1>2, <1>4, <1>6, <1>10 DEF SameSizes
<1>15. i.environment \in 1 .. l
  BY <1>2 DEF Standing, At
<1>16. i.environment < q.environment
  BY <1>2, <1>10, <1>15
<1>17. At(q, q.environment, q.pc, u)
  <2>1. u \in Nat /\ u <= Len(program) /\ u + 1 \in 1 .. Len(program) + 1 /\ (u + 1) - 1 = u /\ u # 0
    BY <1>1 DEF Nodes
  <2>2. InnermostIn(program, u) = u
    BY <1>1, InnermostAt DEF IsOpener
  <2>3. InnerScope(u) = <<u, "block">>
    <3>1. PICK w : w = ScopesOf(u)
      OBVIOUS
    <3>2. w = <<<<u, "block">>>>
      BY <2>1, <3>1, ScopesOfAre
    <3>3. w[1] = <<u, "block">>
      BY <3>2
    <3>. QED BY <2>1, <3>1, <3>3 DEF InnerScope
  <2>4. q.envs[l + 1].scope = <<u, "block">> /\ q.envs[l + 1].slots = slots /\ l + 1 \in 1 .. Len(q.envs)
    BY <1>2, <1>4, <1>6, <1>10 DEF BlockEnv
  <2>5. UpTo(u, Len(slots), u + 1)
    BY <1>1, Entered
  <2>. QED BY <1>10, <2>1, <2>2, <2>3, <2>4, <2>5 DEF At
<1>18. Standing(q)
  BY <1>7, <1>10, <1>12, <1>13, <1>14, <1>16, <1>17, Pushed_
<1>19. Match(q, q.values, Operands(program, q.pc - 1))
  <2>1. (u + 1) - 1 = u
    BY <1>1 DEF Nodes
  <2>2. program[u].kind \notin Expressions
    BY DEF Openers, Expressions
  <2>3. Operands(program, u) = <<>>
    BY <1>1, <2>2, WaitingAt
  <2>4. Match(q, none, none)
    BY <1>8 DEF Match
  <2>. QED BY <1>8, <1>10, <2>1, <2>3, <2>4
<1>. QED BY <1>10, <1>18, <1>19 DEF Running

LEMMA CallIs ==
  ASSUME GoodLine, NEW i, Ready(i), i.pc \in Nodes, program[i.pc].kind \in {"call", "get", "super"},
         NEW f, FunctionOK(i, f), NEW arguments, \A n \in 1 .. Params(f.declaration) : ValueOK(i, arguments[n]),
         NEW instance, ValueOK(i, instance), NEW q, q = Call(i, f, arguments, instance)
  PROVE  Running(q) /\ q.status = i.status
<1>1. HeapOK(i) /\ IsInterpreter(i) /\ TextIsPlaced /\ Placed(program) /\ Standing(i) /\ Len(program) \in Nat /\ phase = "executing"
  BY DEF Ready, Standing, HeapOK, GoodLine, TextIsPlaced, Placed
<1>2. PICK u : u = f.declaration
  OBVIOUS
<1>3. /\ f \in FunctionValues /\ u \in Nodes /\ u < Known /\ program[u].kind \in Functions /\ Runs(u)
      /\ Stands(i, f.closure, InnerScope(program[u].in), u)
  BY <1>2 DEF FunctionOK
<1>4. PICK params : params = program[u].params
  OBVIOUS
<1>5. PICK c : c = Params(u)
  OBVIOUS
<1>6. params \in Seq(STRING) /\ c = Len(params) /\ c \in Nat /\ DOMAIN params = 1 .. c
  <2>1. program[u] \in NodeSet
    BY <1>1, <1>3 DEF Placed, Nodes
  <2>2. params \in Seq(STRING)
    BY <1>4, <2>1 DEF NodeSet
  <2>. QED BY <1>4, <1>5, <2>2 DEF Params
<1>7. PICK given : given = [n \in DOMAIN params |-> SlotFor(params[n], arguments[n])]
  OBVIOUS
<1>8. \A n \in 1 .. c : ValueOK(i, arguments[n])
  BY <1>2, <1>5
<1>9. given \in Seq(SlotSet) /\ Len(given) = c /\ \A n \in 1 .. c : given[n].name = params[n] /\ given[n].value = arguments[n]
  <2>1. \A n \in 1 .. c : arguments[n] \in ValueSet
    BY <1>8, ValueTypes
  <2>2. \A n \in 1 .. c : params[n] \in NameSet
    BY <1>6 DEF NameSet
  <2>3. \A n \in 1 .. c : SlotFor(params[n], arguments[n]) \in SlotSet
    BY <2>1, <2>2 DEF SlotFor, SlotSet
  <2>4. \A n \in 1 .. c : SlotFor(params[n], arguments[n]).name = params[n] /\ SlotFor(params[n], arguments[n]).value = arguments[n]
    BY DEF SlotFor
  <2>. QED BY <1>6, <1>7, <2>3, <2>4
<1>10. PICK d : d = Declarations(<<u, "block">>)
  OBVIOUS
<1>11. Len(d) \in Nat /\ c <= Len(d) /\ \A m \in 1 .. c : d[m].name = params[m]
  <2>1. d \in Seq(DeclarationSet) /\ c <= Len(d) /\ \A m \in 1 .. c : Declares(d[m], Param(u, m), u)
    BY <1>1, <1>3, <1>5, <1>10, DeclarationsAre
  <2>. QED BY <1>4, <2>1 DEF Declares, Param
<1>12. PICK s : s = <<u, "block">>
  OBVIOUS
<1>13. PICK env : env = [enclosing |-> f.closure, scope |-> s, slots |-> given]
  OBVIOUS
<1>14. s[1] = u /\ s[2] = "block" /\ s \in ScopeSet /\ IsScope(s) /\ Beyond(s) = InnerScope(program[u].in)
  <2>1. s[1] = u /\ s[2] = "block" /\ u \in Nat
    BY <1>1, <1>3, <1>12 DEF Nodes
  <2>2. s \in ScopeSet
    BY <1>12, <2>1 DEF ScopeSet
  <2>3. IsScope(s)
    BY <1>3, <2>1, <2>2 DEF IsScope, IsOpener, Openers, Functions
  <2>. QED BY <2>1, <2>2, <2>3 DEF Beyond
<1>15. env \in EnvSet /\ env.enclosing = f.closure /\ env.scope = s /\ env.slots = given
  <2>1. f.closure \in Nat
    BY <1>3 DEF FunctionValues
  <2>. QED BY <1>9, <1>13, <1>14, <2>1 DEF EnvSet
<1>16. EnvFits(i, env)
  <2>1. \A m \in 1 .. c : given[m].name = d[m].name /\ ValueOK(i, given[m].value)
    BY <1>8, <1>9, <1>11
  <2>2. Stands(i, f.closure, Beyond(s), s[1])
    BY <1>3, <1>14
  <2>3. d = Declarations(s) /\ s[2] # "super"
    BY <1>10, <1>12, <1>14
  <2>. QED BY <1>3, <1>9, <1>11, <1>14, <1>15, <2>1, <2>2, <2>3 DEF EnvFits
<1>17. PICK frame : frame = [opener |-> i.pc, previous |-> i.environment, values |-> i.values, function |-> f, instance |-> instance]
  OBVIOUS
<1>18. /\ frame \in FrameSet /\ frame.opener = i.pc /\ frame.previous = i.environment /\ frame.values = i.values
       /\ frame.function = f /\ frame.instance = instance
  <2>1. i.pc \in Nat /\ i.environment \in Nat /\ i.values \in Seq(ValueSet)
    BY <1>1, InterpreterIs
  <2>2. f \in ValueSet /\ instance \in ValueSet
    BY ValueTypes
  <2>. QED BY <1>17, <2>1, <2>2 DEF FrameSet
<1>19. IsCall(frame)
  BY <1>3, <1>18, ValueTypes DEF IsCall
<1>20. FrameHas(i, frame)
  BY <1>18, <1>19 DEF FrameHas, Ready
<1>21. PICK l : l = Len(i.envs)
  OBVIOUS
<1>22. q = Entering(i, env, frame, u)
  <2>1. PICK envs : envs = Append(i.envs, env)
    OBVIOUS
  <2>2. PICK m : m = [i EXCEPT !.envs = envs]
    OBVIOUS
  <2>3. NewEnvironment(i, f.closure, <<u, "block">>, given) = m
    BY <1>12, <1>13, <2>1, <2>2 DEF NewEnvironment
  <2>4. m.envs = envs /\ m.stack = i.stack /\ m.pc = i.pc /\ m.environment = i.environment /\ m.values = i.values
    BY <1>1, <2>2 DEF IsInterpreter
  <2>5. Len(envs) = l + 1
    BY <1>1, <1>21, <2>1, InterpreterIs
  <2>6. PICK stack : stack = Append(i.stack, frame)
    OBVIOUS
  <2>7. executeBlock(m, l + 1, f, instance) = [m EXCEPT !.environment = l + 1, !.pc = @ + 1, !.stack = stack]
    BY <1>17, <2>4, <2>6 DEF executeBlock
  <2>8. q = [[m EXCEPT !.environment = l + 1, !.pc = @ + 1, !.stack = stack] EXCEPT !.pc = u + 1, !.values = <<>>]
    <3>1. given = [n \in DOMAIN program[f.declaration].params |-> SlotFor(program[f.declaration].params[n], arguments[n])]
      BY <1>2, <1>4, <1>7
    <3>2. NewEnvironment(i, f.closure, <<f.declaration, "block">>, given) = m
      BY <1>2, <2>3
    <3>3. q = [executeBlock(m, Len(m.envs), f, instance) EXCEPT !.pc = f.declaration + 1, !.values = <<>>]
      BY <3>1, <3>2 DEF Call
    <3>. QED BY <1>2, <2>4, <2>5, <2>7, <3>3
  <2>9. q = [i EXCEPT !.envs = envs, !.stack = stack, !.environment = l + 1, !.pc = u + 1, !.values = <<>>]
    BY <1>1, <2>2, <2>8 DEF IsInterpreter
  <2>. QED BY <1>21, <2>1, <2>6, <2>9 DEF Entering
<1>23. InnerOfFrame(frame) = u
  BY <1>2, <1>18, <1>19 DEF InnerOfFrame
<1>24. program[u].kind \in Openers \ {"body"}
  BY <1>3 DEF Openers, Functions
<1>25. Len(given) = Params(u)
  BY <1>5, <1>9
<1>26. env = BlockEnv(f.closure, u, given)
  BY <1>12, <1>13 DEF BlockEnv
<1>. QED BY <1>1, <1>3, <1>15, <1>16, <1>18, <1>20, <1>22, <1>23, <1>24, <1>25, <1>26, ScopeEntered

\* An environment has all that is declared by a node when that is done.
LEMMA StandsUpTo ==
  ASSUME Placed(program), NEW u \in Nodes, program[u].kind # "body", NEW i, NEW e \in 1 .. Len(i.envs),
         i.envs[e].scope = InnerScope(u), NEW p, UpTo(u, Len(i.envs[e].slots), p),
         NEW r, \A k \in DeclaredIn(u) \cup {u} : k <= r => Done(k, p)
  PROVE  Stands(i, e, InnerScope(u), r)
<1>1. u # 0 /\ u \in Nat
  BY NoNodeZero, InIsBefore
<1>2. PICK w : w = ScopesOf(u)
  OBVIOUS
<1>3. w = <<<<u, "block">>>>
  BY <1>1, <1>2, ScopesOfAre
<1>4. InnerScope(u) = <<u, "block">>
  <2>1. w[1] = <<u, "block">>
    BY <1>3
  <2>. QED BY <1>1, <1>2, <2>1 DEF InnerScope
<1>5. PICK d : d = Declarations(<<u, "block">>)
  OBVIOUS
<1>6. \A m \in 1 .. Len(d) : d[m].node \in DeclaredIn(u) \cup {u}
  BY <1>5, DeclaringNodes
<1>7. \A m \in 1 .. Len(d) : d[m].node <= r => m <= Len(i.envs[e].slots)
  BY <1>5, <1>6 DEF UpTo
<1>. QED BY <1>4, <1>5, <1>7 DEF Stands

\* In a statement nothing waits.
LEMMA NothingWaits ==
  ASSUME GoodLine, NEW i, Running(i), i.pc \in Nodes, program[i.pc].kind \notin Expressions, Pops(program[i.pc]) = 0
  PROVE  i.values = <<>>
<1>1. i.values \in Seq(ValueSet)
  BY InterpreterIs DEF Running, Standing, HeapOK
<1>2. PICK w : w = Operands(program, i.pc - 1)
  OBVIOUS
<1>3. Match(i, i.values, w)
  BY <1>2 DEF Running
<1>4. Len(w) = 0
  BY <1>2, WaitingAt DEF GoodLine
<1>5. PICK values : values = i.values
  OBVIOUS
<1>6. Len(values) = 0 /\ values \in Seq(ValueSet)
  BY <1>1, <1>3, <1>4, <1>5 DEF Match
<1>7. values = <<>>
  BY <1>6
<1>. QED BY <1>5, <1>7

LEMMA BlockIs ==
  ASSUME GoodLine, NEW i, Running(i), i.pc \in Nodes, program[i.pc].kind \in {"block", "if", "while"},
         NEW q, q = executeBlock(NewEnvironment(i, i.environment, <<i.pc, "block">>, <<>>), Len(i.envs) + 1, Nil, Nil)
  PROVE  Running(q) /\ q.status = i.status
<1>1. HeapOK(i) /\ IsInterpreter(i) /\ TextIsPlaced /\ Placed(program) /\ Standing(i) /\ Len(program) \in Nat /\ phase = "executing"
  BY DEF Running, Standing, HeapOK, GoodLine, TextIsPlaced, Placed
<1>2. PICK p : p = i.pc
  OBVIOUS
<1>3. PICK v : v = InnerOf(i.stack, Len(i.stack))
  OBVIOUS
<1>4. At(i, i.environment, p, v)
  BY <1>1, <1>2, <1>3 DEF Standing
<1>5. program[p].in = v /\ p \in Nodes /\ p \in Nat
  BY <1>1, <1>2, <1>4, AtIn
<1>6. program[p].kind \in {"block", "if", "while"} /\ IsOpener(program[p]) /\ program[p].kind \notin Expressions /\ Pops(program[p]) = 0
      /\ program[p].kind \in Openers \ {"body"} /\ program[p].kind \notin Functions
  BY <1>2 DEF IsOpener, Openers, Expressions, Pops, Functions
<1>7. i.values = <<>>
  BY <1>2, <1>6, NothingWaits
<1>8. Params(p) = 0
  <2>1. program[p].params = <<>>
    BY <1>1, <1>5, <1>6 DEF TextIsPlaced, Grammatical
  <2>. QED BY <2>1 DEF Params
<1>9. PICK s : s = <<p, "block">>
  OBVIOUS
<1>10. PICK none : none = <<>>
  OBVIOUS
<1>11. PICK env : env = [enclosing |-> i.environment, scope |-> s, slots |-> none]
  OBVIOUS
<1>12. s[1] = p /\ s[2] = "block" /\ s \in ScopeSet /\ IsScope(s) /\ Beyond(s) = InnerScope(v)
  <2>1. s[1] = p /\ s[2] = "block"
    BY <1>9
  <2>2. s \in ScopeSet
    BY <1>5, <1>9 DEF ScopeSet
  <2>3. IsScope(s)
    BY <1>5, <1>6, <2>1, <2>2 DEF IsScope
  <2>. QED BY <1>5, <2>1, <2>2, <2>3 DEF Beyond
<1>13. env \in EnvSet /\ env.enclosing = i.environment /\ env.scope = s /\ env.slots = none /\ Len(none) = 0
  <2>1. i.environment \in Nat
    BY <1>1, InterpreterIs
  <2>2. none \in Seq(SlotSet) /\ Len(none) = 0
    BY <1>10
  <2>. QED BY <1>11, <1>12, <2>1, <2>2 DEF EnvSet
<1>14. Stands(i, i.environment, InnerScope(v), p)
  <2>1. i.environment \in 1 .. Len(i.envs) /\ i.envs[i.environment].scope = InnerScope(v)
    BY <1>4 DEF At
  <2>2. CASE v = 0
    <3>1. InnerScope(v) = <<>>
      BY <2>2 DEF InnerScope
    <3>. QED BY <2>1, <3>1 DEF Stands
  <2>3. CASE v # 0
    <3>1. v \in Nodes /\ program[v].kind # "body" /\ UpTo(v, Len(i.envs[i.environment].slots), p)
      BY <1>4, <2>3 DEF At
    <3>2. Begun(program, p) = {}
      BY <1>1, <1>5, <1>6, NothingBegun
    <3>3. v < p /\ v \in Nat
      BY <1>1, <1>2, <1>4, AtIn
    <3>4. \A k \in DeclaredIn(v) \cup {v} : k <= p => Done(k, p)
      <4>1. \A k \in DeclaredIn(v) : k \in Nat /\ k # p
        BY <1>1, <1>6 DEF DeclaredIn, Nodes
      <4>. QED BY <1>5, <3>2, <3>3, <4>1 DEF Done
    <3>. QED BY <1>1, <2>1, <3>1, <3>4, StandsUpTo
  <2>. QED BY <2>2, <2>3
<1>15. EnvFits(i, env)
  <2>1. p < Known
    BY <1>1, <1>5 DEF Known, Nodes
  <2>2. PICK d : d = Declarations(s)
    OBVIOUS
  <2>3. Len(d) \in Nat
    BY <1>1, <1>5, <1>9, <2>2, DeclaringNodes
  <2>4. Len(none) <= Len(d) /\ \A m \in 1 .. Len(none) : FALSE
    BY <1>13, <2>3
  <2>5. s[2] # "super"
    BY <1>12
  <2>. QED BY <1>12, <1>13, <1>14, <2>1, <2>2, <2>4, <2>5 DEF EnvFits
<1>16. PICK frame : frame = [opener |-> p, previous |-> i.environment, values |-> i.values, function |-> Nil, instance |-> Nil]
  OBVIOUS
<1>17. /\ frame \in FrameSet /\ frame.opener = p /\ frame.previous = i.environment /\ frame.function = Nil
  <2>1. i.environment \in Nat /\ i.values \in Seq(ValueSet)
    BY <1>1, InterpreterIs
  <2>. QED BY <1>5, <1>16, <2>1 DEF FrameSet, ValueSet
<1>18. ~IsCall(frame)
  BY <1>17 DEF IsCall
<1>19. FrameHas(i, frame) /\ InnerOfFrame(frame) = p
  BY <1>6, <1>17, <1>18 DEF FrameHas, InnerOfFrame
<1>20. Runs(p)
  BY <1>1, <1>2, <1>6, RunsInside
<1>21. q = Entering(i, env, frame, p)
  <2>1. PICK l : l = Len(i.envs)
    OBVIOUS
  <2>2. PICK envs : envs = Append(i.envs, env)
    OBVIOUS
  <2>3. PICK m : m = [i EXCEPT !.envs = envs]
    OBVIOUS
  <2>4. NewEnvironment(i, i.environment, <<i.pc, "block">>, <<>>) = m
    BY <1>2, <1>9, <1>10, <1>11, <2>2, <2>3 DEF NewEnvironment
  <2>5. m.stack = i.stack /\ m.pc = i.pc /\ m.environment = i.environment /\ m.values = i.values
    BY <1>1, <2>3 DEF IsInterpreter
  <2>6. PICK stack : stack = Append(i.stack, frame)
    OBVIOUS
  <2>7. executeBlock(m, l + 1, Nil, Nil) = [m EXCEPT !.environment = l + 1, !.pc = @ + 1, !.stack = stack]
    BY <1>2, <1>16, <2>5, <2>6 DEF executeBlock
  <2>8. q = [m EXCEPT !.environment = l + 1, !.pc = p + 1, !.stack = stack]
    BY <1>2, <2>1, <2>4, <2>5, <2>7
  <2>9. q = [i EXCEPT !.envs = envs, !.stack = stack, !.environment = l + 1, !.pc = p + 1]
    BY <1>1, <2>3, <2>8 DEF IsInterpreter
  <2>10. q = [i EXCEPT !.envs = envs, !.stack = stack, !.environment = l + 1, !.pc = p + 1, !.values = none]
    BY <1>1, <1>7, <1>10, <2>9 DEF IsInterpreter
  <2>. QED BY <1>10, <2>1, <2>2, <2>6, <2>10 DEF Entering
<1>22. env = BlockEnv(i.environment, p, none)
  BY <1>9, <1>11 DEF BlockEnv
<1>23. Len(none) = Params(p)
  BY <1>8, <1>13
<1>. QED BY <1>1, <1>2, <1>5, <1>6, <1>13, <1>15, <1>17, <1>19, <1>20, <1>21, <1>22, <1>23, ScopeEntered

\* A block is as if it had not been there.
LEMMA AtAfter ==
  ASSUME GoodLine, NEW i, NEW x, NEW p \in Nodes, NEW v, At(i, x, p, v), program[p].kind \in {"block", "if", "while"},
         NEW e, IsEndOf(e, p)
  PROVE  At(i, x, e + 1, v) /\ (e + 1) - 1 = e
<1>1. TextIsPlaced /\ Placed(program) /\ Len(program) \in Nat /\ line \in Nat
  BY DEF GoodLine, TextIsPlaced, Placed
<1>2. program[p].in = v /\ p \in Nat
  BY <1>1, AtIn
<1>3. e \in Nodes /\ p < e /\ InnermostIn(program, e) = v
  BY <1>2 DEF IsEndOf
<1>4. e \in Nat /\ e + 1 \in 1 .. Len(program) + 1 /\ (e + 1) - 1 = e
  BY <1>1, <1>3 DEF Nodes
<1>5. v = 0 => e + 1 >= line
  <2>1. v = 0 => p >= line
    BY DEF At
  <2>. QED BY <1>1, <1>2, <1>3, <1>4, <2>1
<1>6. v # 0 => UpTo(v, Len(i.envs[x].slots), e + 1)
  <2> SUFFICES ASSUME v # 0
               PROVE  UpTo(v, Len(i.envs[x].slots), e + 1)
    OBVIOUS
  <2>1. v \in Nodes /\ UpTo(v, Len(i.envs[x].slots), p)
    BY DEF At
  <2>2. SameDone(v, p, e + 1)
    BY <1>1, <1>2, BlockDone
  <2>. QED BY <1>1, <2>1, <2>2, UpToSame
<1>. QED BY <1>3, <1>4, <1>5, <1>6 DEF At

LEMMA SkipIs ==
  ASSUME GoodLine, NEW i, Running(i), i.pc \in Nodes, program[i.pc].kind \in {"if", "while"},
         NEW q, q = [i EXCEPT !.pc = EndOf(i.pc) + 1]
  PROVE  Running(q) /\ q.status = i.status
<1>1. HeapOK(i) /\ IsInterpreter(i) /\ TextIsPlaced /\ Standing(i) /\ InnermostIn(program, Len(program)) = 0
  BY DEF Running, Standing, HeapOK, GoodLine
<1>2. PICK p : p = i.pc
  OBVIOUS
<1>3. PICK v : v = InnerOf(i.stack, Len(i.stack))
  OBVIOUS
<1>4. At(i, i.environment, p, v) /\ p \in Nodes
  BY <1>1, <1>2, <1>3 DEF Standing
<1>5. PICK e : e = EndOf(p)
  OBVIOUS
<1>6. IsEndOf(e, p)
  BY <1>1, <1>2, <1>4, <1>5, EndOfIs DEF IsOpener, Openers
<1>7. At(i, i.environment, e + 1, v) /\ (e + 1) - 1 = e
  BY <1>2, <1>4, <1>6, AtAfter
<1>8. q = [i EXCEPT !.pc = e + 1]
  BY <1>2, <1>5
<1>9. /\ q.environment = i.environment /\ q.stack = i.stack /\ q.pc = e + 1 /\ q.status = i.status /\ q.values = i.values
      /\ q.envs = i.envs /\ q.objects = i.objects /\ q.globals = i.globals
  BY <1>1, <1>8 DEF IsInterpreter
<1>10. e \in Nat /\ e + 1 \in Nat
  BY <1>6 DEF IsEndOf, Nodes
<1>11. IsInterpreter(q)
  BY <1>1, <1>8, <1>9, <1>10 DEF IsInterpreter
<1>12. HeapOK(q) /\ Grows(i, q)
  BY <1>1, <1>9, <1>11, HeapSame DEF SameHeap
<1>13. \A n : SameSizes(i, q, n)
  BY <1>9 DEF SameSizes
<1>14. At(q, i.environment, e + 1, v)
  <2>1. i.environment < i.environment + 1
    BY <1>1, InterpreterIs
  <2>2. PICK n : n = i.environment + 1
    OBVIOUS
  <2>3. PICK x : x = e + 1
    OBVIOUS
  <2>4. SameSizes(i, q, n) /\ i.environment < n /\ At(i, i.environment, x, v)
    BY <1>7, <1>13, <2>1, <2>2, <2>3
  <2>5. At(q, i.environment, x, v)
    BY <1>1, <1>11, <1>12, <2>4, AtKept
  <2>. QED BY <2>3, <2>5
<1>15. FramesOK(q)
  BY <1>1, <1>9, <1>11, <1>12, <1>13, FramesKept DEF Standing
<1>16. i.values = <<>>
  BY <1>2, NothingWaits DEF Expressions, Pops
<1>17. Operands(program, e) = <<>>
  <2>1. e \in Nodes /\ program[e].kind = "end"
    BY <1>6 DEF IsEndOf
  <2>. QED BY <1>1, <2>1, WaitingAt DEF Expressions
<1>18. PICK none : none = <<>>
  OBVIOUS
<1>19. Match(q, none, none)
  BY <1>18 DEF Match
<1>20. Match(q, q.values, Operands(program, q.pc - 1))
  BY <1>7, <1>9, <1>16, <1>17, <1>18, <1>19
<1>. QED BY <1>3, <1>9, <1>12, <1>14, <1>15, <1>20 DEF Running, Standing

LEMMA AncestorZero ==
  ASSUME GoodLine, NEW i, HeapOK(i), NEW e \in 1 .. Len(i.envs), NEW c \in Nodes, IsOpener(program[c]), i.envs[e].scope = InnerScope(c)
  PROVE  ancestor(i, e, 0) = e
<1>1. c # 0 /\ c \in Nat /\ Placed(program)
  BY NoNodeZero, InIsBefore DEF GoodLine, TextIsPlaced
<1>2. PICK a : a = ScopesInside(c)
  OBVIOUS
<1>3. IsChain(a, c)
  BY <1>1, <1>2, ChainInside
<1>4. 0 \in Nat /\ 0 < Len(a)
  <2>1. InnerScope(c) # <<>>
    BY <1>1, InnerScopeIs
  <2>2. Len(a) # 0 /\ Len(a) \in Nat
    BY <1>3, <2>1 DEF IsChain, After
  <2>. QED BY <2>2
<1>5. Hopped(i, e, ancestor(i, e, 0), a, 0)
  BY <1>3, <1>4, AncestorIs
<1>. QED BY <1>5 DEF Hopped

\* What init gives is its receiver.
LEMMA ReceiverIs ==
  ASSUME GoodLine, NEW i, HeapOK(i), NEW f, FunctionOK(i, f), f.isInitializer
  PROVE  ValueOK(i, GetAt(i, f.closure, <<0, 0>>))
<1>1. PICK m : m = f.declaration
  OBVIOUS
<1>2. PICK c : c = program[m].in
  OBVIOUS
<1>3. PICK e : e = f.closure
  OBVIOUS
<1>4. m \in Nodes /\ program[m].kind = "method" /\ Stands(i, e, InnerScope(c), m)
  BY <1>1, <1>2, <1>3 DEF FunctionOK
<1>5. c \in Nodes /\ program[c].kind = "body" /\ InnerScope(c) = <<c, "this">>
  BY <1>2, <1>4, MethodIn DEF GoodLine
<1>6. e \in 1 .. Len(i.envs) /\ i.envs[e].scope = InnerScope(c)
  BY <1>4 DEF Stands
<1>7. ancestor(i, e, 0) = e
  BY <1>5, <1>6, AncestorZero DEF IsOpener, Openers
<1>8. PICK s : s = i.envs[e].scope
  OBVIOUS
<1>9. s[2] = "this" /\ s # <<>>
  <2>1. s = <<c, "this">>
    BY <1>5, <1>6, <1>8
  <2>. QED BY <2>1
<1>10. EnvFits(i, i.envs[e])
  BY <1>6, <1>8, <1>9, OnlyGlobals DEF EnvOK
<1>11. Len(i.envs[e].slots) = 1 /\ \A k \in 1 .. Len(i.envs[e].slots) : ValueOK(i, i.envs[e].slots[k].value)
  BY <1>8, <1>9, <1>10 DEF EnvFits
<1>12. ValueOK(i, i.envs[e].slots[0 + 1].value)
  BY <1>11
<1>13. PICK at : at = <<0, 0>>
  OBVIOUS
<1>14. at[1] = 0 /\ at[2] = 0
  BY <1>13
<1>15. GetAt(i, e, at) = i.envs[e].slots[0 + 1].value
  BY <1>7, <1>14 DEF GetAt
<1>. QED BY <1>3, <1>12, <1>13, <1>15

\* A call is an expression whose value is what it returns.
LEMMA ReturnedIs ==
  ASSUME GoodLine, NEW i, Standing(i), NEW n \in 1 .. Len(i.stack), IsCall(i.stack[n]), NEW value, ValueOK(i, value),
         NEW q, q = Returned(i, n, value)
  PROVE  Running(q) /\ q.status = i.status
<1>1. HeapOK(i) /\ IsInterpreter(i) /\ TextIsPlaced /\ line \in Nat /\ i.stack \in Seq(FrameSet) /\ Len(i.stack) \in Nat
  BY InterpreterIs DEF Standing, HeapOK, GoodLine
<1>2. PICK f : f = i.stack[n]
  OBVIOUS
<1>3. PICK v : v = InnerOf(i.stack, n - 1)
  OBVIOUS
<1>4. At(i, f.previous, f.opener, v) /\ f.opener \in Nodes /\ FrameHas(i, f)
  BY <1>2, <1>3 DEF Standing, FramesOK, FrameOK
<1>5. PICK p : p = f.opener
  OBVIOUS
<1>6. PICK left : left = Leaves(program[p], Operands(program, p - 1))
  OBVIOUS
<1>7. program[p].kind \in {"call", "get", "super"} /\ FunctionOK(i, f.function) /\ ValueOK(i, f.instance) /\ Match(i, f.values, left)
  BY <1>2, <1>4, <1>5, <1>6 DEF FrameHas
<1>8. p \in Nodes /\ p \in Nat /\ (p + 1) - 1 = p /\ program[p].kind \in Expressions /\ IsPlain(p)
  <2>1. p \in Nodes /\ p \in Nat
    BY <1>1, <1>4, <1>5, AtIn
  <2>2. (p + 1) - 1 = p
    BY <2>1
  <2>3. program[p].kind \in Expressions /\ IsPlain(p)
    BY <1>7 DEF Expressions, IsPlain, IsOpener, IsEnd, Openers
  <2>. QED BY <2>1, <2>2, <2>3
<1>9. At(i, f.previous, p + 1, v)
  BY <1>1, <1>4, <1>5, <1>8, Onwards
<1>10. PICK result : result = IF f.instance # Nil THEN f.instance
                              ELSE IF f.function.isInitializer THEN GetAt(i, f.function.closure, <<0, 0>>) ELSE value
  OBVIOUS
<1>11. ValueOK(i, result)
  <2>1. f.function.isInitializer => ValueOK(i, GetAt(i, f.function.closure, <<0, 0>>))
    BY <1>1, <1>7, ReceiverIs
  <2>. QED BY <1>7, <1>10, <2>1, Zenon
<1>12. PICK values : values = Append(f.values, result)
  OBVIOUS
<1>13. f.values \in Seq(ValueSet) /\ f.previous \in Nat
  BY <1>1, <1>2, FramesTyped
<1>14. left \in Seq(Nat) /\ Operands(program, p) = Append(left, p)
  BY <1>1, <1>6, <1>8, WaitingAt
<1>15. Match(i, values, Append(left, p)) /\ values \in Seq(ValueSet)
  <2>1. program[p].kind # "target"
    BY <1>7
  <2>. QED BY <1>7, <1>8, <1>11, <1>12, <1>13, <1>14, <2>1, OneMoreValue
<1>16. PICK stack : stack = SubSeq(i.stack, 1, n - 1)
  OBVIOUS
<1>17. PICK previous : previous = f.previous
  OBVIOUS
<1>18. q = [i EXCEPT !.environment = previous, !.stack = stack, !.values = values, !.pc = p + 1]
  BY <1>2, <1>5, <1>10, <1>12, <1>16, <1>17 DEF Returned
<1>19. /\ q.environment = previous /\ q.stack = stack /\ q.pc = p + 1 /\ q.status = i.status /\ q.values = values
       /\ q.envs = i.envs /\ q.objects = i.objects /\ q.globals = i.globals
  BY <1>1, <1>18 DEF IsInterpreter
<1>20. IsInterpreter(q)
  <2>1. p + 1 \in Nat /\ previous \in Nat
    BY <1>8, <1>13, <1>17
  <2>2. stack \in Seq(FrameSet)
    <3>1. n - 1 \in 0 .. Len(i.stack) /\ 1 \in Nat
      BY <1>1
    <3>. QED BY <1>1, <1>16, <3>1
  <2>. QED BY <1>1, <1>15, <1>18, <1>19, <2>1, <2>2 DEF IsInterpreter
<1>21. HeapOK(q) /\ Grows(i, q) /\ SameHeap(i, q)
  BY <1>1, <1>19, <1>20, HeapSame DEF SameHeap
<1>22. Standing(q)
  BY <1>2, <1>3, <1>9, <1>16, <1>17, <1>19, <1>20, <1>21, Unwound
<1>23. Match(q, values, Append(left, p))
  BY <1>1, <1>15, <1>20, <1>21, MatchKept
<1>24. Match(q, q.values, Operands(program, q.pc - 1))
  BY <1>8, <1>14, <1>19, <1>23
<1>. QED BY <1>19, <1>22, <1>24 DEF Running

\* Where a block ends.
Ended(i, f) ==
  [i EXCEPT !.environment = f.previous, !.stack = Front(@), !.pc = IF program[f.opener].kind = "while" THEN f.opener ELSE @ + 1]
LEMMA BlockEnds ==
  ASSUME GoodLine, NEW i, Running(i), i.pc \in Nodes, program[i.pc].kind = "end", NEW n, n = Len(i.stack), ~IsCall(i.stack[n]),
         NEW f, f = i.stack[n],
         NEW q, q = Ended(i, f)
  PROVE  n \in 1 .. Len(i.stack) /\ Running(q) /\ q.status = i.status
<1>1. /\ HeapOK(i) /\ IsInterpreter(i) /\ TextIsPlaced /\ Placed(program) /\ line \in Nat /\ i.stack \in Seq(FrameSet)
      /\ n \in Nat /\ Standing(i)
  BY InterpreterIs DEF Running, Standing, HeapOK, GoodLine, TextIsPlaced
<1>2. PICK p : p = i.pc
  OBVIOUS
<1>3. PICK o : o = InnerOf(i.stack, n)
  OBVIOUS
<1>4. At(i, i.environment, p, o) /\ p \in Nodes /\ program[p].kind = "end"
  BY <1>1, <1>2, <1>3 DEF Standing
<1>5. program[p].in = o /\ o # 0 /\ p \in Nat
  <2>1. program[p].in # 0
    BY <1>1, <1>4 DEF TextIsPlaced, Grammatical
  <2>. QED BY <1>1, <1>4, <2>1, AtIn
<1>6. n # 0 /\ n \in 1 .. Len(i.stack) /\ n \in 1 .. n
  BY <1>1, <1>3, <1>5 DEF InnerOf
<1>7. f.opener = o
  BY <1>3, <1>6 DEF InnerOf
<1>8. PICK v : v = InnerOf(i.stack, n - 1)
  OBVIOUS
<1>9. At(i, f.previous, o, v) /\ o \in Nodes /\ program[o].kind \in {"block", "if", "while"}
  <2>1. FrameOK(i, i.stack, n)
    BY <1>1, <1>6 DEF Standing, FramesOK
  <2>. QED BY <1>7, <1>8, <2>1 DEF FrameOK, FrameHas
<1>10. IsEndOf(p, o)
  BY <1>1, <1>4, <1>5, EndHere
<1>11. PICK x : x = IF program[o].kind = "while" THEN o ELSE p + 1
  OBVIOUS
<1>12. At(i, f.previous, x, v) /\ x \in Nat
  <2>1. At(i, f.previous, p + 1, v)
    BY <1>9, <1>10, AtAfter
  <2>2. o \in Nat
    BY <1>1, <1>9, InIsBefore
  <2>3. p + 1 \in Nat
    BY <1>5
  <2>. QED BY <1>9, <1>11, <2>1, <2>2, <2>3
<1>13. PICK stack : stack = SubSeq(i.stack, 1, n - 1)
  OBVIOUS
<1>14. PICK previous : previous = f.previous
  OBVIOUS
<1>15. Front(i.stack) = stack
  BY <1>13 DEF Front
<1>16. q = [i EXCEPT !.environment = previous, !.stack = stack, !.pc = x]
  BY <1>2, <1>7, <1>11, <1>14, <1>15 DEF Ended
<1>17. /\ q.environment = previous /\ q.stack = stack /\ q.pc = x /\ q.status = i.status /\ q.values = i.values
       /\ q.envs = i.envs /\ q.objects = i.objects /\ q.globals = i.globals
  BY <1>1, <1>16 DEF IsInterpreter
<1>18. IsInterpreter(q)
  <2>1. previous \in Nat
    BY <1>1, <1>6, <1>14, FramesTyped
  <2>2. stack \in Seq(FrameSet)
    <3>1. n - 1 \in 0 .. Len(i.stack) /\ 1 \in Nat
      BY <1>6
    <3>. QED BY <1>1, <1>13, <3>1
  <2>. QED BY <1>1, <1>12, <1>16, <1>17, <2>1, <2>2 DEF IsInterpreter
<1>19. HeapOK(q) /\ Grows(i, q) /\ SameHeap(i, q)
  BY <1>1, <1>17, <1>18, HeapSame DEF SameHeap
<1>20. Standing(q)
  <2>1. q.environment = i.stack[n].previous /\ q.stack = SubSeq(i.stack, 1, n - 1)
    BY <1>13, <1>14, <1>17
  <2>2. At(i, q.environment, q.pc, InnerOf(i.stack, n - 1))
    BY <1>8, <1>12, <1>14, <1>17
  <2>. QED BY <1>1, <1>6, <1>18, <1>19, <2>1, <2>2, Unwound
<1>21. i.values = <<>>
  BY <1>2, <1>4, NothingWaits DEF Expressions, Pops
<1>22. Operands(program, x - 1) = <<>>
  <2>1. CASE program[o].kind = "while"
    <3>1. PICK w : w = Operands(program, o - 1)
      OBVIOUS
    <3>2. w \in Seq(Nat) /\ Len(w) = 0
      BY <1>1, <1>9, <2>1, <3>1, WaitingAt DEF Expressions, Pops
    <3>3. w = <<>>
      BY <3>2
    <3>. QED BY <1>11, <2>1, <3>1, <3>3
  <2>2. CASE program[o].kind # "while"
    <3>1. (p + 1) - 1 = p
      BY <1>5
    <3>2. Operands(program, p) = <<>>
      BY <1>1, <1>4, WaitingAt DEF Expressions
    <3>. QED BY <1>11, <2>2, <3>1, <3>2
  <2>. QED BY <2>1, <2>2
<1>23. PICK none : none = <<>>
  OBVIOUS
<1>24. Match(q, none, none)
  BY <1>23 DEF Match
<1>. QED BY <1>6, <1>17, <1>20, <1>21, <1>22, <1>23, <1>24 DEF Running

\* A return is inside a call.
LEMMA CallsThere ==
  ASSUME GoodLine, NEW i, Standing(i), i.pc \in Nodes, program[i.pc].kind = "return"
  PROVE  \E n \in 1 .. Len(i.stack) : IsCall(i.stack[n])
<1> SUFFICES ASSUME \A n \in 1 .. Len(i.stack) : ~IsCall(i.stack[n])
             PROVE  FALSE
  OBVIOUS
<1>1. TextIsPlaced /\ Placed(program) /\ Len(i.stack) \in Nat
  BY InterpreterIs DEF Standing, HeapOK, GoodLine, TextIsPlaced
<1>2. PICK s : s = i.stack
  OBVIOUS
<1>3. PICK l \in Nat : l = Len(s)
  BY <1>1, <1>2
<1> DEFINE S == {n \in Nat : n <= l => InsideOf(InnerOf(s, n), Functions) = 0}
<1>4. 0 \in S
  BY DEF InnerOf, InsideOf
<1>5. ASSUME NEW n \in S
      PROVE  n + 1 \in S
  <2> SUFFICES ASSUME n + 1 <= l
               PROVE  InsideOf(InnerOf(s, n + 1), Functions) = 0
    OBVIOUS
  <2>1. n + 1 \in 1 .. l /\ n + 1 # 0 /\ (n + 1) - 1 = n /\ n <= l
    BY <1>3
  <2>2. FrameOK(i, s, n + 1) /\ ~IsCall(s[n + 1])
    BY <1>2, <1>3, <2>1 DEF Standing, FramesOK
  <2>3. PICK f : f = s[n + 1]
    OBVIOUS
  <2>4. At(i, f.previous, f.opener, InnerOf(s, n)) /\ f.opener \in Nodes /\ program[f.opener].kind \in {"block", "if", "while"}
    BY <2>1, <2>2, <2>3 DEF FrameOK, FrameHas
  <2>5. program[f.opener].in = InnerOf(s, n)
    BY <1>1, <2>4, AtIn
  <2>6. InnermostOf(f.opener, Functions) = 0
    BY <1>1, <2>1, <2>4, <2>5, InnermostOfIs
  <2>7. InnerOf(s, n + 1) = f.opener
    BY <2>1, <2>2, <2>3 DEF InnerOf
  <2>8. program[f.opener].kind \notin Functions
    BY <2>4 DEF Functions
  <2>. QED BY <2>6, <2>7, <2>8 DEF InsideOf
<1>6. l \in S
  <2> HIDE DEF S
  <2>1. \A n \in S : n + 1 \in S
    BY <1>5
  <2>. QED BY <1>3, <1>4, <2>1, SetInduction
<1>7. At(i, i.environment, i.pc, InnerOf(s, l))
  BY <1>2, <1>3 DEF Standing
<1>8. program[i.pc].in = InnerOf(s, l)
  BY <1>1, <1>7, AtIn
<1>9. InnermostOf(i.pc, Functions) = 0
  BY <1>1, <1>3, <1>6, <1>8, InnermostOfIs
<1>. QED BY <1>9, GoodHere DEF Good

-----------------------------------------------------------------------------
(* One visit keeps the interpreter fine *)

LEMMA RunsFine ==
  ASSUME NEW q, Running(q), q.status = "running"
  PROVE  Fine(q)
BY DEF Fine, Running, Standing

LEMMA ExecutingIs ==
  ASSUME Fine(interp), NEW kinds, Executing(kinds)
  PROVE  Running(interp) /\ interp.status = "running" /\ interp.pc \in Nodes /\ program[interp.pc].kind \in kinds
BY DEF Fine, Executing, Current

LEMMA FailsFine ==
  ASSUME NEW i, Running(i)
  PROVE  Fine(failWith(i))
<1>1. PICK q : q = failWith(i)
  OBVIOUS
<1>2. Fine(q)
  BY <1>1, FailsWell DEF Running
<1>. QED BY <1>1, <1>2

\* A statement uses up what waits.
LEMMA PlainStatement ==
  ASSUME GoodLine, NEW i, Running(i), i.pc \in Nodes, IsPlain(i.pc), program[i.pc].kind \notin Expressions,
         NEW q, q = [i EXCEPT !.values = <<>>, !.pc = i.pc + 1]
  PROVE  Running(q) /\ q.status = i.status
<1>1. HeapOK(i) /\ IsInterpreter(i) /\ TextIsPlaced /\ Standing(i) /\ i.pc \in Nat
  BY InterpreterIs DEF Running, Standing, HeapOK, GoodLine
<1>2. PICK p : p = i.pc
  OBVIOUS
<1>3. PICK none : none = <<>>
  OBVIOUS
<1>4. q = [i EXCEPT !.values = none, !.pc = p + 1]
  BY <1>2, <1>3
<1>5. /\ q.environment = i.environment /\ q.stack = i.stack /\ q.pc = p + 1 /\ q.status = i.status /\ q.values = none
      /\ q.envs = i.envs /\ q.objects = i.objects /\ q.globals = i.globals
  BY <1>1, <1>4 DEF IsInterpreter
<1>6. IsInterpreter(q)
  <2>1. p + 1 \in Nat
    BY <1>1, <1>2
  <2>2. none \in Seq(ValueSet)
    BY <1>3
  <2>. QED BY <1>1, <1>4, <1>5, <2>1, <2>2 DEF IsInterpreter
<1>7. HeapOK(q) /\ Grows(i, q)
  BY <1>1, <1>5, <1>6, HeapSame DEF SameHeap
<1>8. SameSizes(i, q, i.environment + 1)
  BY <1>5 DEF SameSizes
<1>9. Operands(program, p) = none
  BY <1>1, <1>2, <1>3, WaitingAt
<1>10. Match(q, none, none)
  BY <1>3 DEF Match
<1>11. Match(q, q.values, Operands(program, i.pc))
  BY <1>2, <1>5, <1>9, <1>10
<1>. QED BY <1>1, <1>2, <1>5, <1>7, <1>8, <1>11, Passed

\* What is below the operands of a statement is nothing.
LEMMA StatementPops ==
  ASSUME GoodLine, NEW i, Running(i), i.pc \in Nodes, program[i.pc].kind \notin Expressions, NEW n, n = Pops(program[i.pc])
  PROVE  /\ [i EXCEPT !.values = SubSeq(@, 1, Len(@) - n)] = [i EXCEPT !.values = <<>>]
         /\ OperandsOK(i, i.pc, i.values)
<1>1. i.values \in Seq(ValueSet)
  BY InterpreterIs DEF Running, Standing, HeapOK
<1>2. PICK w : w = Operands(program, i.pc - 1)
  OBVIOUS
<1>3. Match(i, i.values, w) /\ TextIsPlaced
  BY <1>2 DEF Running, GoodLine
<1>4. Below_(i.values, n) = <<>> /\ OperandsOK(i, i.pc, i.values)
  BY <1>1, <1>2, <1>3, OperandsThere
<1>. QED BY <1>4 DEF Below_

LEMMA LiteralFine ==
  ASSUME GoodLine, Fine(interp), Executing({"literal"}), NEW q, q = Result(interp, Nil)
  PROVE  Fine(q)
<1>1. Running(interp) /\ interp.status = "running" /\ interp.pc \in Nodes /\ program[interp.pc].kind = "literal"
  BY ExecutingIs
<1>2. Ready(interp)
  BY <1>1, NothingPopped DEF Pops
<1>3. ValueOK(interp, Nil)
  BY DEF ValueOK
<1>. QED BY <1>1, <1>2, <1>3, ResultIs, RunsFine DEF Expressions

LEMMA ExpressionFine ==
  ASSUME GoodLine, Fine(interp), Executing({"expression", "bare"}), NEW q, q = Past(Without(1))
  PROVE  Fine(q)
<1>1. Running(interp) /\ interp.status = "running" /\ interp.pc \in Nodes /\ program[interp.pc].kind \in {"expression", "bare"}
  BY ExecutingIs
<1>2. Pops(program[interp.pc]) = 1 /\ IsPlain(interp.pc) /\ program[interp.pc].kind \notin Expressions
  BY <1>1 DEF Pops, IsPlain, IsOpener, IsEnd, Openers, Expressions
<1>3. Without(1) = [interp EXCEPT !.values = <<>>]
  BY <1>1, <1>2, StatementPops DEF Without
<1>4. IsInterpreter(interp)
  BY <1>1 DEF Running, Standing, HeapOK
<1>5. q = [interp EXCEPT !.values = <<>>, !.pc = interp.pc + 1]
  BY <1>3, <1>4 DEF Past, IsInterpreter
<1>. QED BY <1>1, <1>2, <1>5, PlainStatement, RunsFine

LEMMA BeginFine ==
  ASSUME GoodLine, Fine(interp), Executing({"var", "class"}), NEW q, q = Past(interp)
  PROVE  Fine(q)
<1>1. Running(interp) /\ interp.status = "running" /\ interp.pc \in Nodes /\ program[interp.pc].kind \in {"var", "class"}
  BY ExecutingIs
<1>2. Pops(program[interp.pc]) = 0 /\ IsPlain(interp.pc) /\ program[interp.pc].kind \notin Expressions
  BY <1>1 DEF Pops, IsPlain, IsOpener, IsEnd, Openers, Expressions
<1>3. interp.values = <<>>
  BY <1>1, <1>2, NothingWaits
<1>4. IsInterpreter(interp)
  BY <1>1 DEF Running, Standing, HeapOK
<1>5. q = [interp EXCEPT !.values = <<>>, !.pc = interp.pc + 1]
  BY <1>3, <1>4 DEF Past, IsInterpreter
<1>. QED BY <1>1, <1>2, <1>5, PlainStatement, RunsFine

LEMMA BlockFine ==
  ASSUME GoodLine, Fine(interp), Executing({"block", "if", "while"}), NEW q,
         q = executeBlock(NewEnvironment(interp, interp.environment, <<interp.pc, "block">>, <<>>), Len(interp.envs) + 1, Nil, Nil)
  PROVE  Fine(q)
BY ExecutingIs, BlockIs, RunsFine

LEMMA SkipFine ==
  ASSUME GoodLine, Fine(interp), Executing({"if", "while"}), NEW q, q = [interp EXCEPT !.pc = EndOf(interp.pc) + 1]
  PROVE  Fine(q)
BY ExecutingIs, SkipIs, RunsFine

LEMMA EndFine ==
  ASSUME GoodLine, Fine(interp), Executing({"end"}), NEW n, n = Len(interp.stack), NEW frame, frame = interp.stack[n],
         NEW q, q = IF IsCall(frame) THEN Returned(interp, n, Nil)
                    ELSE [interp EXCEPT !.environment = frame.previous, !.stack = Front(@),
                                        !.pc = IF program[frame.opener].kind = "while" THEN frame.opener ELSE @ + 1]
  PROVE  Fine(q)
<1>1. Running(interp) /\ interp.status = "running" /\ interp.pc \in Nodes /\ program[interp.pc].kind = "end"
  BY ExecutingIs
<1>2. CASE IsCall(frame)
  <2>1. ValueOK(interp, Nil)
    BY DEF ValueOK
  <2>2. n \in 1 .. Len(interp.stack)
    <3>1. n \in Nat
      BY <1>1, InterpreterIs DEF Running, Standing, HeapOK
    <3>2. At(interp, interp.environment, interp.pc, InnerOf(interp.stack, n)) /\ TextIsPlaced
      BY <1>1 DEF Running, Standing, GoodLine
    <3>3. program[interp.pc].in = InnerOf(interp.stack, n)
      BY <1>1, <3>2, AtIn
    <3>4. program[interp.pc].in # 0
      BY <1>1, <3>2 DEF TextIsPlaced, Grammatical
    <3>5. n # 0
      BY <3>3, <3>4 DEF InnerOf
    <3>. QED BY <3>1, <3>5
  <2>3. q = Returned(interp, n, Nil)
    BY <1>2
  <2>. QED BY <1>1, <1>2, <2>1, <2>2, <2>3, ReturnedIs, RunsFine DEF Running
<1>3. CASE ~IsCall(frame)
  <2>1. q = Ended(interp, frame)
    BY <1>3 DEF Ended
  <2>2. ~IsCall(interp.stack[n])
    BY <1>3
  <2>3. Running(q) /\ q.status = interp.status
    BY <1>1, <2>1, <2>2, BlockEnds
  <2>. QED BY <1>1, <2>3, RunsFine
<1>. QED BY <1>2, <1>3

LEMMA ReturnFine ==
  ASSUME GoodLine, Fine(interp), Executing({"return"}),
         NEW calls, calls = {n \in DOMAIN interp.stack : IsCall(interp.stack[n])},
         NEW value, value = IF Current.n = 1 THEN Operand(0) ELSE Nil,
         NEW q, q = IF calls = {} THEN Crash(interp) ELSE Returned(interp, Max(calls), value)
  PROVE  Fine(q)
<1>1. Running(interp) /\ interp.status = "running" /\ interp.pc \in Nodes /\ program[interp.pc].kind = "return" /\ Standing(interp)
  BY ExecutingIs DEF Running
<1>2. interp.stack \in Seq(FrameSet) /\ Len(interp.stack) \in Nat
  BY <1>1, InterpreterIs DEF Standing, HeapOK
<1>3. calls # {} /\ calls \subseteq 0 .. Len(interp.stack)
  <2>1. DOMAIN interp.stack = 1 .. Len(interp.stack)
    BY <1>2
  <2>. QED BY <1>1, <2>1, CallsThere
<1>4. PICK n : n = Max(calls)
  OBVIOUS
<1>5. n \in calls
  BY <1>2, <1>3, <1>4, MaxIs
<1>6. n \in 1 .. Len(interp.stack) /\ IsCall(interp.stack[n])
  BY <1>2, <1>5
<1>7. ValueOK(interp, value)
  <2>1. CASE Current.n = 1
    <3>1. program[interp.pc].kind \notin Expressions /\ Pops(program[interp.pc]) = 1
      BY <1>1, <2>1 DEF Expressions, Pops, Current
    <3>2. OperandsOK(interp, interp.pc, interp.values)
      BY <1>1, <3>1, StatementPops
    <3>3. 0 \in 0 .. 1 - 1
      OBVIOUS
    <3>4. ValueOK(interp, Operand(0))
      BY <3>1, <3>2, <3>3 DEF OperandsOK, Operand
    <3>. QED BY <2>1, <3>4
  <2>2. CASE Current.n # 1
    BY <2>2 DEF ValueOK
  <2>. QED BY <2>1, <2>2
<1>8. q = Returned(interp, n, value)
  BY <1>3, <1>4
<1>. QED BY <1>1, <1>6, <1>7, <1>8, ReturnedIs, RunsFine

\* What the address of a use leads to.
Leads(i, p, name, at, x) ==
  /\ Reaches(i, x, p, name, ScopesAround(p), at) /\ x = ancestor(i, i.environment, at[1])
  /\ HasSlot(i, i.environment, at) \/ AwaitsIn(p, name)
  /\ HasSlot(i, i.environment, at) => at[2] + 1 \in 1 .. Len(i.envs[x].slots) /\ ValueOK(i, GetAt(i, i.environment, at))
LEMMA UseLeads ==
  ASSUME GoodLine, NEW i, Standing(i), NEW p, p = i.pc, p \in Nodes, program[p].kind \in Uses, p \in DOMAIN locals,
         NEW at, at = locals[p]
  PROVE  \E x : Leads(i, p, NameUsed(p), at, x)
<1>1. PICK name : name = NameUsed(p)
  OBVIOUS
<1>2. TextIsPlaced /\ HeapOK(i) /\ Good(p) /\ locals[p] # <<>>
  BY GoodHere DEF Standing, GoodLine
<1>3. at = LexicalAddress(p, name) /\ at # <<>>
  BY <1>1, <1>2 DEF Good, AddressGiven
<1>4. PICK u : u = InnerOf(i.stack, Len(i.stack))
  OBVIOUS
<1>5. At(i, i.environment, p, u)
  BY <1>4 DEF Standing
<1>6. program[p].in = u
  BY <1>2, <1>5, AtIn
<1>7. PICK x : x = ancestor(i, i.environment, at[1])
  OBVIOUS
<1>8. PICK a : a = ScopesAround(p)
  OBVIOUS
<1>9. Reaches(i, x, p, name, a, at) /\ (at[2] < Len(i.envs[x].slots) \/ AwaitsIn(p, name))
  BY <1>2, <1>3, <1>5, <1>6, <1>7, <1>8, Resolves
<1>10. x # 0
  BY <1>9 DEF Reaches
<1>11. HasSlot(i, i.environment, at) <=> at[2] < Len(i.envs[x].slots)
  BY <1>7, <1>10 DEF HasSlot
<1>12. at[2] < Len(i.envs[x].slots) => at[2] + 1 \in 1 .. Len(i.envs[x].slots) /\ ValueOK(i, i.envs[x].slots[at[2] + 1].value)
  BY <1>9 DEF Reaches
<1>13. GetAt(i, i.environment, at) = i.envs[x].slots[at[2] + 1].value
  BY <1>7 DEF GetAt
<1>. QED BY <1>1, <1>7, <1>8, <1>9, <1>11, <1>12, <1>13 DEF Leads

\* What is read is not awaited.
LEMMA ReadIsThere ==
  ASSUME GoodLine, NEW p \in Nodes, Good(p), program[p].kind \in {"variable", "this"}
  PROVE  ~AwaitsIn(p, NameUsed(p))
<1> SUFFICES ASSUME AwaitsIn(p, NameUsed(p))
             PROVE  FALSE
  OBVIOUS
<1>1. PICK m \in Begun(program, p) : program[m].name = NameUsed(p) /\ InScopeOf(p, m)
  BY DEF AwaitsIn
<1>2. CASE program[p].kind = "variable"
  <2>1. NameUsed(p) = program[p].name
    BY <1>2 DEF NameUsed
  <2>. QED BY <1>1, <1>2, <2>1 DEF Good, ReadsItself
<1>3. CASE program[p].kind = "this"
  <2>1. m \in Nodes
    BY <1>1, BegunHere DEF GoodLine
  <2>2. program[m].name = "this"
    BY <1>1, <1>3 DEF NameUsed
  <2>. QED BY <2>1, <2>2 DEF GoodLine, TextIsPlaced, Grammatical
<1>. QED BY <1>2, <1>3

LookedUp(i, name) ==
  IF i.pc \in DOMAIN locals THEN IF HasSlot(i, i.environment, locals[i.pc])
                                 THEN Result(i, GetAt(i, i.environment, locals[i.pc])) ELSE Crash(i)
  ELSE IF name \in DOMAIN i.globals THEN Result(i, i.globals[name]) ELSE failWith(i)
LEMMA ReadFine ==
  ASSUME GoodLine, NEW i, Running(i), i.status = "running", i.pc \in Nodes, program[i.pc].kind \in {"variable", "this"},
         NEW q, q = LookedUp(i, NameUsed(i.pc))
  PROVE  Fine(q)
<1>1. PICK p : p = i.pc
  OBVIOUS
<1>2. PICK name : name = NameUsed(p)
  OBVIOUS
<1>3. p \in Nodes /\ program[p].kind \in {"variable", "this"} /\ program[p].kind \in Uses /\ Pops(program[p]) = 0
      /\ program[p].kind \in Expressions \ {"target"}
  BY <1>1 DEF Uses, Pops, Expressions
<1>4. Ready(i) /\ Standing(i) /\ HeapOK(i)
  BY <1>1, <1>3, NothingPopped DEF Running, Standing
<1>5. CASE p \in DOMAIN locals
  <2>1. PICK at : at = locals[p]
    OBVIOUS
  <2>2. PICK x : Leads(i, p, name, at, x)
    BY <1>1, <1>2, <1>3, <1>4, <1>5, <2>1, UseLeads
  <2>3. ~AwaitsIn(p, name)
    BY <1>1, <1>2, <1>3, <1>4, GoodHere, ReadIsThere
  <2>4. HasSlot(i, i.environment, at) /\ ValueOK(i, GetAt(i, i.environment, at))
    BY <2>2, <2>3 DEF Leads
  <2>5. q = Result(i, GetAt(i, i.environment, at))
    BY <1>1, <1>5, <2>1, <2>4 DEF LookedUp
  <2>6. Running(q) /\ q.status = i.status
    BY <1>1, <1>3, <1>4, <2>4, <2>5, ResultIs
  <2>. QED BY <2>6, RunsFine
<1>6. CASE p \notin DOMAIN locals /\ name \in DOMAIN i.globals
  <2>1. ValueOK(i, i.globals[name])
    BY <1>4, <1>6 DEF HeapOK, AllOK
  <2>2. q = Result(i, i.globals[name])
    BY <1>1, <1>2, <1>6 DEF LookedUp
  <2>3. Running(q) /\ q.status = i.status
    BY <1>1, <1>3, <1>4, <2>1, <2>2, ResultIs
  <2>. QED BY <2>3, RunsFine
<1>7. CASE p \notin DOMAIN locals /\ name \notin DOMAIN i.globals
  <2>1. q = failWith(i)
    BY <1>1, <1>2, <1>7 DEF LookedUp
  <2>. QED BY <2>1, FailsFine
<1>. QED BY <1>5, <1>6, <1>7

LEMMA VariableFine ==
  ASSUME GoodLine, Fine(interp), Executing({"variable"}), NEW q, q = lookUpVariable(Current.name)
  PROVE  Fine(q)
<1>1. Running(interp) /\ interp.status = "running" /\ interp.pc \in Nodes /\ program[interp.pc].kind = "variable"
  BY ExecutingIs
<1>2. Current.name = NameUsed(interp.pc)
  BY <1>1 DEF Current, NameUsed
<1>3. q = LookedUp(interp, NameUsed(interp.pc))
  BY <1>2 DEF lookUpVariable, LookedUp, Resolved, Slot
<1>. QED BY <1>1, <1>3, ReadFine

LEMMA ThisFine ==
  ASSUME GoodLine, Fine(interp), Executing({"this"}), NEW q, q = lookUpVariable("this")
  PROVE  Fine(q)
<1>1. Running(interp) /\ interp.status = "running" /\ interp.pc \in Nodes /\ program[interp.pc].kind = "this"
  BY ExecutingIs
<1>2. "this" = NameUsed(interp.pc)
  BY <1>1 DEF NameUsed
<1>3. q = LookedUp(interp, NameUsed(interp.pc))
  BY <1>2 DEF lookUpVariable, LookedUp, Resolved, Slot
<1>. QED BY <1>1, <1>3, ReadFine

\* The value of an assignment is there, and stays.
LEMMA AssignStays ==
  ASSUME GoodLine, NEW i, Running(i), i.pc \in Nodes, program[i.pc].kind = "assign",
         NEW q, HeapOK(q), Grows(i, q), SameSizes(i, q, i.environment + 1), q.environment = i.environment, q.stack = i.stack,
         q.pc = i.pc + 1, q.values = i.values
  PROVE  Running(q)
<1>1. PICK p : p = i.pc
  OBVIOUS
<1>2. PICK w : w = Operands(program, p - 1)
  OBVIOUS
<1>3. IsInterpreter(i) /\ IsInterpreter(q) /\ i.values \in Seq(ValueSet) /\ TextIsPlaced /\ Standing(i)
  BY InterpreterIs DEF Running, Standing, HeapOK, GoodLine
<1>4. Match(i, i.values, w)
  BY <1>1, <1>2 DEF Running
<1>5. Match(i, i.values, Operands(program, p))
  BY <1>1, <1>2, <1>3, <1>4, ValueStays
<1>6. Match(q, q.values, Operands(program, i.pc))
  BY <1>1, <1>3, <1>5, MatchKept
<1>7. IsPlain(i.pc)
  BY DEF IsPlain, IsOpener, IsEnd, Openers
<1>. QED BY <1>3, <1>6, <1>7, Passed

\* An operand is there.
LEMMA TopIsThere ==
  ASSUME GoodLine, NEW i, Running(i), i.pc \in Nodes, Pops(program[i.pc]) = 1
  PROVE  ValueOK(i, i.values[Len(i.values) - 0])
<1>1. i.values \in Seq(ValueSet)
  BY InterpreterIs DEF Running, Standing, HeapOK
<1>2. PICK w : w = Operands(program, i.pc - 1)
  OBVIOUS
<1>3. Match(i, i.values, w) /\ TextIsPlaced
  BY <1>2 DEF Running, GoodLine
<1>4. OperandsOK(i, i.pc, i.values)
  BY <1>1, <1>2, <1>3, OperandsThere
<1>5. 0 \in 0 .. 1 - 1
  OBVIOUS
<1>. QED BY <1>4, <1>5 DEF OperandsOK

AssignedTo(i, name, v) ==
  IF i.pc \in DOMAIN locals
  THEN IF HasSlot(i, i.environment, locals[i.pc]) THEN Past(AssignAt(i, i.environment, locals[i.pc], v)) ELSE Crash(i)
  ELSE IF name \in DOMAIN i.globals THEN Past([i EXCEPT !.globals[name] = v]) ELSE failWith(i)

\* The assignment to a slot.
SlotTakes(i, at, v) == Past(AssignAt(i, i.environment, at, v))
LEMMA AssignAtIs ==
  ASSUME GoodLine, NEW i, Running(i), i.pc \in Nodes, program[i.pc].kind = "assign", NEW at, NEW x,
         Leads(i, i.pc, program[i.pc].name, at, x), HasSlot(i, i.environment, at), NEW v, ValueOK(i, v),
         NEW q, q = SlotTakes(i, at, v)
  PROVE  Running(q) /\ q.status = i.status
<1>1. PICK p : p = i.pc
  OBVIOUS
<1>2. PICK name : name = program[p].name
  OBVIOUS
<1>3. IsInterpreter(i) /\ HeapOK(i) /\ TextIsPlaced /\ i.pc \in Nat
  BY InterpreterIs DEF Running, Standing, HeapOK, GoodLine
<1>4. PICK a : a = ScopesAround(p)
  OBVIOUS
<1>5. PICK k : k = at[2] + 1
  OBVIOUS
<1>6. PICK s : s = a[at[1] + 1]
  OBVIOUS
<1>7. x \in 1 .. Len(i.envs) /\ i.envs[x].scope = s /\ IsScope(s) /\ Finds(p, name, a, at) /\ k \in 1 .. Len(i.envs[x].slots)
      /\ x = ancestor(i, i.environment, at[1])
  BY <1>1, <1>2, <1>4, <1>5, <1>6 DEF Leads, Reaches
<1>8. k \in 1 .. Len(Declarations(s)) /\ Declarations(s)[k].name = name
  BY <1>5, <1>6, <1>7 DEF Finds
<1>9. name \notin {"this", "super"}
  BY <1>1, <1>2, <1>3 DEF TextIsPlaced, Grammatical
<1>10. s[2] = "block" /\ s # <<>>
  <2>1. s \in ScopeSet
    BY <1>7 DEF IsScope
  <2>2. s # <<>>
    BY <2>1, InnerScopeIs
  <2>. QED BY <1>3, <1>7, <1>8, <1>9, <2>2, WordsApart
<1>11. PICK m : m = [i EXCEPT !.envs[x].slots[k].value = v]
  OBVIOUS
<1>12. PICK slots \in Seq(SlotSet) : Replaces(i, x, slots, m) /\ Len(slots) = Len(i.envs[x].slots) /\ HeapOK(m)
  BY <1>3, <1>7, <1>10, <1>11, SlotAssigned
<1>13. q = Past(m)
  BY <1>5, <1>7, <1>11 DEF AssignAt, SlotTakes
<1>14. /\ IsInterpreter(m) /\ Grows(i, m) /\ SameControl(i, m) /\ Len(m.envs) = Len(i.envs)
       /\ m.envs[x] = [i.envs[x] EXCEPT !.slots = slots]
       /\ \A e \in 1 .. Len(i.envs) : e # x => m.envs[e] = i.envs[e]
  BY <1>12 DEF Replaces
<1>15. q = [m EXCEPT !.pc = p + 1]
  BY <1>1, <1>13, <1>14 DEF Past, SameControl
<1>16. /\ q.environment = i.environment /\ q.stack = i.stack /\ q.pc = p + 1 /\ q.status = i.status /\ q.values = i.values
       /\ q.envs = m.envs /\ q.objects = m.objects /\ q.globals = m.globals
  BY <1>14, <1>15 DEF IsInterpreter, SameControl
<1>17. IsInterpreter(q)
  <2>1. p + 1 \in Nat
    BY <1>1, <1>3
  <2>. QED BY <1>14, <1>15, <1>16, <2>1 DEF IsInterpreter
<1>18. HeapOK(q) /\ Grows(m, q)
  BY <1>12, <1>16, <1>17, HeapSame DEF SameHeap
<1>19. Grows(i, q)
  <2>1. Len(q.objects) = Len(m.objects)
    BY <1>16
  <2>. QED BY <1>14, <1>16 DEF Grows
<1>20. SameSizes(i, q, i.environment + 1)
  <2>1. Len(m.envs[x].slots) = Len(i.envs[x].slots)
    <3>1. i.envs[x] \in EnvSet
      BY <1>3, <1>7, InterpreterIs
    <3>2. m.envs[x].slots = slots
      BY <1>14, <3>1 DEF EnvSet
    <3>. QED BY <1>12, <3>2
  <2>. QED BY <1>14, <1>16, <2>1 DEF SameSizes
<1>21. Running(q)
  BY <1>1, <1>16, <1>18, <1>19, <1>20, AssignStays
<1>. QED BY <1>16, <1>21

LEMMA AssignFine ==
  ASSUME GoodLine, NEW i, Running(i), i.status = "running", i.pc \in Nodes, program[i.pc].kind = "assign",
         NEW q, q = AssignedTo(i, program[i.pc].name, i.values[Len(i.values) - 0])
  PROVE  Fine(q)
<1>1. PICK p : p = i.pc
  OBVIOUS
<1>2. PICK name : name = program[p].name
  OBVIOUS
<1>3. IsInterpreter(i) /\ HeapOK(i) /\ Standing(i) /\ i.pc \in Nat
  BY InterpreterIs DEF Running, Standing, HeapOK
<1>4. PICK v : v = i.values[Len(i.values) - 0]
  OBVIOUS
<1>5. ValueOK(i, v)
  BY <1>4, TopIsThere DEF Pops
<1>6. q = AssignedTo(i, name, v)
  BY <1>1, <1>2, <1>4
<1>7. CASE p \in DOMAIN locals
  <2>1. PICK at : at = locals[p]
    OBVIOUS
  <2>2. NameUsed(p) = name /\ program[p].kind \in Uses
    BY <1>1, <1>2 DEF NameUsed, Uses
  <2>3. PICK x : Leads(i, p, name, at, x)
    BY <1>1, <1>3, <1>7, <2>1, <2>2, UseLeads
  <2>4. CASE HasSlot(i, i.environment, at)
    <3>1. q = SlotTakes(i, at, v)
      BY <1>1, <1>6, <1>7, <2>1, <2>4 DEF AssignedTo, SlotTakes
    <3>2. Leads(i, i.pc, program[i.pc].name, at, x)
      BY <1>1, <1>2, <2>3
    <3>3. Running(q) /\ q.status = i.status
      BY <1>5, <2>4, <3>1, <3>2, AssignAtIs
    <3>. QED BY <3>3, RunsFine
  <2>5. CASE ~HasSlot(i, i.environment, at)
    <3>1. q = Crash(i)
      BY <1>1, <1>6, <1>7, <2>1, <2>5 DEF AssignedTo
    <3>2. AwaitsIn(p, name)
      BY <2>3, <2>5 DEF Leads
    <3>3. AssignsItself(p)
      BY <1>1, <1>2, <3>2 DEF AwaitsIn, AssignsItself
    <3>4. /\ q.environment = i.environment /\ q.stack = i.stack /\ q.pc = p /\ q.status = "crashed" /\ q.values = i.values
          /\ q.envs = i.envs /\ q.objects = i.objects /\ q.globals = i.globals
      BY <1>1, <1>3, <3>1 DEF IsInterpreter, Crash
    <3>5. IsInterpreter(q)
      BY <1>3, <3>1, <3>4 DEF IsInterpreter, Crash
    <3>6. HeapOK(q)
      BY <1>3, <3>4, <3>5, HeapSame DEF SameHeap
    <3>. QED BY <1>1, <3>3, <3>4, <3>6 DEF Fine
  <2>. QED BY <2>4, <2>5
<1>8. CASE p \notin DOMAIN locals /\ name \in DOMAIN i.globals
  <2>1. PICK map : map = [i.globals EXCEPT ![name] = v]
    OBVIOUS
  <2>2. q = [i EXCEPT !.globals = map, !.pc = p + 1]
    <3>1. PICK m : m = [i EXCEPT !.globals = map]
      OBVIOUS
    <3>2. m.pc = p
      BY <1>1, <1>3, <3>1 DEF IsInterpreter
    <3>3. q = [m EXCEPT !.pc = p + 1]
      BY <1>1, <1>6, <1>8, <2>1, <3>1, <3>2 DEF AssignedTo, Past
    <3>. QED BY <1>3, <3>1, <3>3 DEF IsInterpreter
  <2>3. /\ q.environment = i.environment /\ q.stack = i.stack /\ q.pc = p + 1 /\ q.status = i.status /\ q.values = i.values
        /\ q.envs = i.envs /\ q.objects = i.objects /\ q.globals = map
    BY <1>3, <2>2 DEF IsInterpreter
  <2>4. IsInterpreter(q)
    <3>1. p + 1 \in Nat
      BY <1>1, <1>3
    <3>. QED BY <1>3, <2>2, <2>3, <3>1 DEF IsInterpreter
  <2>5. Grows(i, q)
    <3>1. Len(i.envs) \in Nat /\ Len(i.objects) \in Nat /\ \A e \in 1 .. Len(i.envs) : Len(i.envs[e].slots) \in Nat
      BY <1>3, InterpreterIs
    <3>. QED BY <2>3, <3>1 DEF Grows
  <2>6. AllOK(q, map)
    <3>1. \A n \in DOMAIN map : n \in DOMAIN i.globals /\ (map[n] = v \/ map[n] = i.globals[n])
      BY <2>1
    <3>2. \A w : ValueOK(i, w) => ValueOK(q, w)
      BY <1>3, <2>4, <2>5, ValuesGrow
    <3>3. \A n \in DOMAIN i.globals : ValueOK(i, i.globals[n])
      BY <1>3 DEF HeapOK, AllOK
    <3>. QED BY <1>5, <3>1, <3>2, <3>3 DEF AllOK
  <2>7. HeapOK(q)
    <3>1. \A e \in 2 .. Len(q.envs) : e <= Len(i.envs) /\ q.envs[e] = i.envs[e]
      BY <1>3, <2>3, InterpreterIs
    <3>2. \A id \in 1 .. Len(q.objects) : id <= Len(i.objects) /\ q.objects[id] = i.objects[id]
      BY <1>3, <2>3, InterpreterIs
    <3>3. q.envs[1] = i.envs[1] /\ AllOK(q, q.globals)
      BY <2>3, <2>6
    <3>. QED BY <1>3, <2>4, <2>5, <3>1, <3>2, <3>3, HeapKept
  <2>8. SameSizes(i, q, i.environment + 1)
    BY <2>3 DEF SameSizes
  <2>9. Running(q)
    BY <1>1, <2>3, <2>5, <2>7, <2>8, AssignStays
  <2>. QED BY <2>3, <2>9, RunsFine
<1>9. CASE p \notin DOMAIN locals /\ name \notin DOMAIN i.globals
  <2>1. q = failWith(i)
    BY <1>1, <1>6, <1>9 DEF AssignedTo
  <2>. QED BY <2>1, FailsFine
<1>. QED BY <1>7, <1>8, <1>9

LEMMA InnerBlock ==
  ASSUME Placed(program), NEW u \in Nodes, program[u].kind # "body"
  PROVE  InnerScope(u) = <<u, "block">> /\ u # 0 /\ u \in Nat
<1>1. u # 0 /\ u \in Nat
  BY NoNodeZero, InIsBefore
<1>2. PICK w : w = ScopesOf(u)
  OBVIOUS
<1>3. w = <<<<u, "block">>>>
  BY <1>1, <1>2, ScopesOfAre
<1>4. w[1] = <<u, "block">>
  BY <1>3
<1>. QED BY <1>1, <1>2, <1>4 DEF InnerScope

\* What is next to be declared gets the next slot.
NextIs(p, u, x, name) == u # 0 => \E v \in Nodes : OneDone(u, v, p, x) /\ program[v].name = name
SlotFits(i, e, name) ==
  LET s == i.envs[e].scope
      n == Len(i.envs[e].slots)
  IN e # globals => s[2] = "block" /\ n + 1 <= Len(Declarations(s)) /\ Declarations(s)[n + 1].name = name
                    /\ Len(Declarations(s)) \in Nat
LEMMA SlotGoes ==
  ASSUME GoodLine, NEW i, IsInterpreter(i), NEW e, NEW p \in Nodes, NEW u, u = program[p].in, At(i, e, p, u), OnlyGlobal(i, e),
         u # 0 => e # globals, NEW name \in NameSet, NEW value \in ValueSet, NEW x, NextIs(p, u, x, name),
         NEW q, q = Define(i, e, name, value)
  PROVE  /\ Adds(i, e, name, value, q) /\ SameSizes(i, q, e) /\ SlotFits(i, e, name)
         /\ u # 0 => UpTo(u, Len(q.envs[e].slots), x)
<1>1. e \in 1 .. Len(i.envs) /\ Placed(program)
  BY DEF At, GoodLine, TextIsPlaced
<1>2. Adds(i, e, name, value, q)
  BY <1>1, Defined
<1>3. PICK n \in Nat : n = Len(i.envs[e].slots)
  BY <1>1, InterpreterIs
<1>4. i.envs[e] \in EnvSet /\ i.envs[e].slots \in Seq(SlotSet)
  BY <1>1, InterpreterIs
<1>5. SameSizes(i, q, e)
  <2>1. \A k \in 1 .. Len(i.envs) : k < e => k # e
    BY <1>1
  <2>. QED BY <1>2, <2>1 DEF Adds, SameSizes
<1>6. e # globals => u # 0
  BY DEF At
<1>7. ASSUME u # 0
      PROVE  SlotFits(i, e, name) /\ UpTo(u, Len(q.envs[e].slots), x)
  <2>1. u \in Nodes /\ program[u].kind # "body" /\ UpTo(u, n, p) /\ i.envs[e].scope = InnerScope(u)
    BY <1>3, <1>7 DEF At
  <2>2. PICK s : s = <<u, "block">>
    OBVIOUS
  <2>3. i.envs[e].scope = s /\ s[2] = "block"
    BY <1>1, <2>1, <2>2, InnerBlock
  <2>4. PICK v \in Nodes : OneDone(u, v, p, x) /\ program[v].name = name
    BY <1>7 DEF NextIs
  <2>5. Gains(u, n, v, x)
    BY <1>1, <2>1, <2>4, UpToMore
  <2>6. PICK d : d = Declarations(s)
    OBVIOUS
  <2>7. Len(d) \in Nat
    BY <1>1, <2>1, <2>2, <2>6, DeclaringNodes
  <2>8. n + 1 \in 1 .. Len(d) /\ d[n + 1].name = name /\ UpTo(u, n + 1, x)
    BY <2>2, <2>4, <2>5, <2>6 DEF Gains
  <2>9. Len(q.envs[e].slots) = n + 1
    <3>1. q.envs[e] = [i.envs[e] EXCEPT !.slots = Append(@, SlotFor(name, value))]
      BY <1>2, <1>7 DEF Adds
    <3>2. q.envs[e].slots = Append(i.envs[e].slots, SlotFor(name, value))
      BY <1>4, <3>1 DEF EnvSet
    <3>. QED BY <1>3, <1>4, <3>2
  <2>10. n + 1 <= Len(d)
    BY <2>7, <2>8
  <2>11. SlotFits(i, e, name)
    BY <1>3, <2>3, <2>6, <2>7, <2>8, <2>10 DEF SlotFits
  <2>. QED BY <2>8, <2>9, <2>11
<1>8. SlotFits(i, e, name)
  <2>1. CASE u # 0
    BY <1>7, <2>1
  <2>2. CASE u = 0
    BY <1>6, <2>2 DEF SlotFits
  <2>. QED BY <2>1, <2>2
<1>. QED BY <1>2, <1>5, <1>7, <1>8

LEMMA SlotKept ==
  ASSUME NEW i, HeapOK(i), NEW e \in 1 .. Len(i.envs), NEW name \in NameSet, NEW value \in ValueSet, SlotFits(i, e, name),
         NEW q, q = Define(i, e, name, value), ValueOK(q, value)
  PROVE  HeapOK(q)
<1>1. PICK d : d = Declarations(i.envs[e].scope)
  OBVIOUS
<1>2. CASE e # globals
  <2>1. Len(d) \in Nat /\ i.envs[e].scope[2] = "block" /\ Len(i.envs[e].slots) + 1 <= Len(d)
        /\ d[Len(i.envs[e].slots) + 1].name = name
    BY <1>1, <1>2 DEF SlotFits
  <2>. QED BY <1>1, <2>1, DefinedOK
<1>3. CASE e = globals
  <2>1. OnlyGlobal(i, e) /\ IsInterpreter(i)
    BY OnlyGlobals DEF OnlyGlobal, HeapOK
  <2>2. Adds(i, e, name, value, q)
    BY <2>1, Defined
  <2>3. IsInterpreter(q) /\ Grows(i, q) /\ q.objects = i.objects /\ q.envs = i.envs /\ q.globals = Assigned(i.globals, name, value)
    BY <1>3, <2>2 DEF Adds
  <2>4. AllOK(q, q.globals)
    <3>1. AllOK(i, i.globals)
      BY DEF HeapOK
    <3>. QED BY <2>1, <2>3, <3>1, AssignedIs
  <2>5. Len(i.envs) \in Nat /\ Len(i.objects) \in Nat
    BY <2>1, InterpreterIs
  <2>6. \A k \in 2 .. Len(q.envs) : k <= Len(i.envs) /\ q.envs[k] = i.envs[k]
    BY <2>3, <2>5
  <2>7. \A id \in 1 .. Len(q.objects) : id <= Len(i.objects) /\ q.objects[id] = i.objects[id]
    BY <2>3, <2>5
  <2>8. q.envs[1] = i.envs[1]
    BY <2>3
  <2>. QED BY <2>3, <2>4, <2>6, <2>7, <2>8, HeapKept
<1>. QED BY <1>2, <1>3

\* On to the next statement of the same block.
IsNext(p, x) ==
  /\ x \in 1 .. Len(program) + 1 /\ x \in Nat /\ p < x /\ InnermostIn(program, x - 1) = program[p].in
  /\ Operands(program, x - 1) = <<>>
LEMMA DeclaredRuns ==
  ASSUME GoodLine, NEW i, Standing(i), NEW p, p = i.pc, p \in Nodes, NEW x, IsNext(p, x), NEW e, e = i.environment,
         NEW q, HeapOK(q), Grows(i, q), SameSizes(i, q, e), q.environment = e, q.stack = i.stack, q.pc = x, q.values = <<>>,
         program[p].in # 0 => UpTo(program[p].in, Len(q.envs[e].slots), x)
  PROVE  Running(q)
<1>1. IsInterpreter(i) /\ IsInterpreter(q) /\ TextIsPlaced /\ line \in Nat
  BY DEF Standing, HeapOK, GoodLine
<1>2. PICK u : u = InnerOf(i.stack, Len(i.stack))
  OBVIOUS
<1>3. At(i, e, p, u)
  BY <1>2 DEF Standing
<1>4. program[p].in = u /\ p \in Nat
  BY <1>1, <1>3, AtIn
<1>5. e \in 1 .. Len(q.envs) /\ q.envs[e].scope = InnerScope(u)
  <2>1. e \in 1 .. Len(i.envs) /\ i.envs[e].scope = InnerScope(u)
    BY <1>3 DEF At
  <2>2. Len(i.envs) \in Nat /\ Len(q.envs) \in Nat /\ Len(i.envs) <= Len(q.envs)
    BY <1>1, InterpreterIs DEF Grows
  <2>. QED BY <2>1, <2>2 DEF Grows
<1>6. u = 0 => x >= line
  <2>1. u = 0 => p >= line
    BY <1>3 DEF At
  <2>2. p < x /\ x \in Nat
    BY DEF IsNext
  <2>. QED BY <1>1, <1>4, <2>1, <2>2
<1>7. At(q, e, x, u)
  BY <1>3, <1>4, <1>5, <1>6 DEF At, IsNext
<1>8. FramesOK(q)
  BY <1>1, FramesKept DEF Standing
<1>9. PICK none : none = <<>>
  OBVIOUS
<1>10. Match(q, none, none)
  BY <1>9 DEF Match
<1>11. Match(q, q.values, Operands(program, q.pc - 1))
  BY <1>9, <1>10 DEF IsNext
<1>. QED BY <1>2, <1>7, <1>8, <1>11 DEF Running, Standing

LEMMA NextAfter ==
  ASSUME GoodLine, NEW p \in Nodes, IsPlain(p) \/ program[p].kind = "define", program[p].kind \notin Expressions
  PROVE  IsNext(p, p + 1)
<1>1. TextIsPlaced /\ Placed(program) /\ Len(program) \in Nat /\ p \in Nat
  BY DEF GoodLine, TextIsPlaced, Placed, Nodes
<1>2. p + 1 \in 1 .. Len(program) + 1 /\ (p + 1) - 1 = p /\ p + 1 \in Nat /\ p < p + 1
  BY <1>1 DEF Nodes
<1>3. InnermostIn(program, p) = program[p].in
  BY <1>1, InnermostAt DEF IsPlain, IsOpener, IsEnd, Openers
<1>4. Operands(program, p) = <<>>
  BY <1>1, WaitingAt
<1>. QED BY <1>2, <1>3, <1>4 DEF IsNext

LEMMA NextAfterEnd ==
  ASSUME GoodLine, NEW p \in Nodes, IsOpener(program[p])
  PROVE  IsEndOf(EndOf(p), p) /\ IsNext(p, EndOf(p) + 1)
<1>1. TextIsPlaced /\ Placed(program) /\ Len(program) \in Nat /\ p \in Nat /\ InnermostIn(program, Len(program)) = 0
  BY DEF GoodLine, TextIsPlaced, Placed, Nodes
<1>2. PICK e : e = EndOf(p)
  OBVIOUS
<1>3. IsEndOf(e, p)
  BY <1>1, <1>2, EndOfIs
<1>4. e \in Nodes /\ p < e /\ program[e].kind = "end" /\ InnermostIn(program, e) = program[p].in
  BY <1>3 DEF IsEndOf
<1>5. e + 1 \in 1 .. Len(program) + 1 /\ (e + 1) - 1 = e /\ e + 1 \in Nat /\ p < e + 1
  BY <1>1, <1>4 DEF Nodes
<1>6. Operands(program, e) = <<>>
  BY <1>1, <1>4, WaitingAt DEF Expressions
<1>. QED BY <1>2, <1>3, <1>4, <1>5, <1>6 DEF IsNext

\* What is in a block is not among the globals.
LEMMA OutOfGlobals ==
  ASSUME GoodLine, NEW i, HeapOK(i), NEW e, NEW p, NEW u, At(i, e, p, u)
  PROVE  OnlyGlobal(i, e) /\ e \in 1 .. Len(i.envs) /\ (u # 0 => e # globals)
<1>1. e \in 1 .. Len(i.envs) /\ Placed(program)
  BY DEF At, GoodLine, TextIsPlaced
<1>2. OnlyGlobal(i, e) /\ (e = globals <=> i.envs[e].scope = <<>>)
  BY <1>1, OnlyGlobals DEF OnlyGlobal
<1>3. u # 0 => e # globals
  <2> SUFFICES ASSUME u # 0
               PROVE  e # globals
    OBVIOUS
  <2>1. u \in Nodes /\ i.envs[e].scope = InnerScope(u)
    BY DEF At
  <2>2. u \in Nat
    BY <1>1, <2>1, InIsBefore
  <2>3. InnerScope(u) # <<>>
    BY <2>2, InnerScopeIs
  <2>. QED BY <1>2, <2>1, <2>3
<1>. QED BY <1>1, <1>2, <1>3

LEMMA NamesTyped ==
  ASSUME GoodLine, NEW p \in Nodes
  PROVE  program[p].name \in NameSet
<1>1. program[p] \in NodeSet
  BY DEF GoodLine, TextIsPlaced, Placed, Nodes
<1>. QED BY <1>1 DEF NodeSet, NameSet

\* A declaration is made and the next statement is at hand.
Emptied(i) == [i EXCEPT !.values = <<>>]
OnTo(i, x) == [i EXCEPT !.pc = x]
LEMMA OnToStays ==
  ASSUME NEW i, IsInterpreter(i), NEW x, x \in Nat, NEW q, q = OnTo(i, x)
  PROVE  /\ IsInterpreter(q) /\ SameHeap(i, q) /\ q.pc = x
         /\ q.environment = i.environment /\ q.stack = i.stack /\ q.values = i.values /\ q.status = i.status
<1>1. /\ q.environment = i.environment /\ q.stack = i.stack /\ q.values = i.values /\ q.status = i.status /\ q.pc = x
      /\ q.envs = i.envs /\ q.objects = i.objects /\ q.globals = i.globals
  BY DEF IsInterpreter, OnTo
<1>2. IsInterpreter(q)
  BY <1>1 DEF IsInterpreter, OnTo
<1>. QED BY <1>1, <1>2 DEF SameHeap

LEMMA OnToIs ==
  ASSUME NEW i, HeapOK(i), NEW x, x \in Nat, NEW q, q = OnTo(i, x)
  PROVE  /\ HeapOK(q) /\ Grows(i, q) /\ SameHeap(i, q) /\ q.pc = x
         /\ q.environment = i.environment /\ q.stack = i.stack /\ q.values = i.values /\ q.status = i.status
<1>1. IsInterpreter(i)
  BY DEF HeapOK
<1>2. /\ IsInterpreter(q) /\ SameHeap(i, q) /\ q.pc = x
      /\ q.environment = i.environment /\ q.stack = i.stack /\ q.values = i.values /\ q.status = i.status
  BY <1>1, OnToStays
<1>. QED BY <1>2, HeapSame

LEMMA GrowsOn ==
  ASSUME NEW i, NEW m, NEW q, SameHeap(m, q)
  PROVE  Grows(i, m) => Grows(i, q)
BY DEF Grows, SameHeap

LEMMA EmptiedIs ==
  ASSUME NEW i, HeapOK(i), NEW q, q = Emptied(i)
  PROVE  /\ HeapOK(q) /\ Grows(i, q) /\ SameHeap(i, q) /\ q.values = <<>>
         /\ q.environment = i.environment /\ q.stack = i.stack /\ q.pc = i.pc /\ q.status = i.status
<1>1. IsInterpreter(i)
  BY DEF HeapOK
<1>2. PICK none : none = <<>>
  OBVIOUS
<1>3. q = [i EXCEPT !.values = none] /\ none \in Seq(ValueSet)
  BY <1>2 DEF Emptied
<1>4. /\ q.environment = i.environment /\ q.stack = i.stack /\ q.values = none /\ q.status = i.status /\ q.pc = i.pc
      /\ q.envs = i.envs /\ q.objects = i.objects /\ q.globals = i.globals
  BY <1>1, <1>3 DEF IsInterpreter
<1>5. IsInterpreter(q)
  BY <1>1, <1>3, <1>4 DEF IsInterpreter
<1>. QED BY <1>2, <1>4, <1>5, HeapSame DEF SameHeap

DeclaredAt(i, e, name, v, d, u, x) == Adds(i, e, name, v, d) /\ (u # 0 => UpTo(u, Len(d.envs[e].slots), x))
LEMMA DeclaredIs ==
  ASSUME GoodLine, NEW i, Running(i), NEW p, p = i.pc, p \in Nodes, NEW e, e = i.environment, NEW u, u = program[p].in,
         NEW x, IsNext(p, x), NextIs(p, u, x, program[p].name), NEW v \in ValueSet,
         NEW m, m = Emptied(i), NEW d, d = Define(m, e, program[p].name, v),
         DeclaredAt(m, e, program[p].name, v, d, u, x) => ValueOK(d, v),
         NEW q, q = OnTo(d, x)
  PROVE  Running(q) /\ q.status = i.status
<1>1. HeapOK(i) /\ IsInterpreter(i) /\ Standing(i) /\ program[p].name \in NameSet
  BY NamesTyped DEF Running, Standing, HeapOK
<1>2. /\ HeapOK(m) /\ Grows(i, m) /\ SameHeap(i, m) /\ m.values = <<>>
      /\ m.environment = i.environment /\ m.stack = i.stack /\ m.pc = i.pc /\ m.status = i.status
  BY <1>1, EmptiedIs
<1>3. Standing(m)
  <2>1. SameSizes(i, m, i.environment + 1)
    BY <1>2 DEF SameHeap, SameSizes
  <2>. QED BY <1>1, <1>2, <2>1, StandingKept
<1>4. At(m, e, p, u) /\ IsInterpreter(m)
  <2>1. PICK w : w = InnerOf(m.stack, Len(m.stack))
    OBVIOUS
  <2>2. At(m, e, p, w)
    BY <1>2, <1>3, <2>1 DEF Standing
  <2>3. u = w
    BY <2>2, AtIn DEF GoodLine
  <2>. QED BY <1>2, <2>2, <2>3 DEF HeapOK
<1>5. OnlyGlobal(m, e) /\ e \in 1 .. Len(m.envs) /\ (u # 0 => e # globals)
  BY <1>2, <1>4, OutOfGlobals
<1>6. /\ Adds(m, e, program[p].name, v, d) /\ SameSizes(m, d, e) /\ SlotFits(m, e, program[p].name)
      /\ u # 0 => UpTo(u, Len(d.envs[e].slots), x)
  BY <1>1, <1>4, <1>5, SlotGoes
<1>7. HeapOK(d)
  <2>1. ValueOK(d, v)
    BY <1>6 DEF DeclaredAt
  <2>. QED BY <1>1, <1>2, <1>5, <1>6, <2>1, SlotKept
<1>8. x \in Nat
  BY DEF IsNext
<1>9. /\ HeapOK(q) /\ Grows(d, q) /\ SameHeap(d, q) /\ q.pc = x
      /\ q.environment = d.environment /\ q.stack = d.stack /\ q.values = d.values /\ q.status = d.status
  BY <1>7, <1>8, OnToIs
<1>10. Grows(m, d) /\ SameControl(m, d)
  BY <1>6 DEF Adds
<1>11. Grows(m, q)
  BY <1>9, <1>10, GrowsOn
<1>12. SameSizes(m, q, e)
  BY <1>6, <1>9 DEF SameSizes, SameHeap
<1>13. q.environment = e /\ q.stack = m.stack /\ q.values = <<>> /\ q.status = i.status
  BY <1>2, <1>9, <1>10 DEF SameControl
<1>14. u # 0 => UpTo(u, Len(q.envs[e].slots), x)
  BY <1>6, <1>9 DEF SameHeap
<1>15. Running(q)
  BY <1>2, <1>3, <1>9, <1>11, <1>12, <1>13, <1>14, DeclaredRuns
<1>. QED BY <1>13, <1>15

LEMMA DefineFine ==
  ASSUME GoodLine, Fine(interp), Executing({"define"}), NEW q,
         q = Past(Define(Without(1), interp.environment, Current.name, Operand(0)))
  PROVE  Fine(q)
<1>1. Running(interp) /\ interp.status = "running" /\ interp.pc \in Nodes /\ program[interp.pc].kind = "define"
  BY ExecutingIs
<1>2. Pops(program[interp.pc]) = 1 /\ program[interp.pc].kind \notin Expressions
  BY <1>1 DEF Pops, Expressions
<1>3. Without(1) = Emptied(interp)
  BY <1>1, <1>2, StatementPops DEF Without, Emptied
<1>4. PICK p : p = interp.pc
  OBVIOUS
<1>5. PICK v : v = Operand(0)
  OBVIOUS
<1>6. ValueOK(interp, v) /\ v \in ValueSet
  <2>1. ValueOK(interp, v)
    BY <1>1, <1>2, <1>5, TopIsThere DEF Operand
  <2>. QED BY <2>1, ValueTypes
<1>7. PICK m : m = Emptied(interp)
  OBVIOUS
<1>8. PICK d : d = Define(m, interp.environment, program[p].name, v)
  OBVIOUS
<1>9. HeapOK(interp) /\ HeapOK(m) /\ Grows(interp, m) /\ m.pc = p
  BY <1>1, <1>4, <1>7, EmptiedIs DEF Running, Standing
<1>10. ASSUME DeclaredAt(m, interp.environment, program[p].name, v, d, program[p].in, p + 1)
       PROVE  ValueOK(d, v)
  <2>1. IsInterpreter(d) /\ Grows(m, d)
    BY <1>10 DEF Adds, DeclaredAt
  <2>2. ValueOK(m, v)
    BY <1>6, <1>9, ValuesGrow DEF HeapOK
  <2>. QED BY <1>9, <2>1, <2>2, ValuesGrow DEF HeapOK
<1>11. IsNext(p, p + 1)
  BY <1>1, <1>2, <1>4, NextAfter
<1>12. NextIs(p, program[p].in, p + 1, program[p].name)
  <2> SUFFICES ASSUME program[p].in # 0
               PROVE  \E w \in Nodes : OneDone(program[p].in, w, p, p + 1) /\ program[w].name = program[p].name
    BY DEF NextIs
  <2>. QED BY <1>1, <1>4, DefineDone DEF GoodLine
<1>13. q = [d EXCEPT !.pc = @ + 1]
  BY <1>3, <1>4, <1>5, <1>7, <1>8 DEF Past, Current
<1>14. d.pc = p
  BY <1>7, <1>8, <1>9 DEF Define
<1>15. q = OnTo(d, p + 1)
  BY <1>13, <1>14 DEF OnTo
<1>16. Running(q) /\ q.status = interp.status
  BY <1>1, <1>4, <1>6, <1>7, <1>8, <1>10, <1>11, <1>12, <1>15, DeclaredIs
<1>. QED BY <1>1, <1>16, RunsFine

\* What p declares stands in the block p is in as soon as p is done.
LEMMA DeclaredStands ==
  ASSUME GoodLine, NEW i, NEW q, IsInterpreter(i), IsInterpreter(q), Grows(i, q), NEW p \in Nodes, IsOpener(program[p]),
         NEW e, NEW u, u = program[p].in, At(i, e, p, u), NEW x, x = EndOf(p) + 1,
         u # 0 => UpTo(u, Len(q.envs[e].slots), x)
  PROVE  Stands(q, e, InnerScope(u), p)
<1>1. TextIsPlaced /\ Placed(program) /\ IsEndOf(EndOf(p), p)
  BY NextAfterEnd DEF GoodLine, TextIsPlaced
<1>2. e \in 1 .. Len(q.envs) /\ q.envs[e].scope = InnerScope(u)
  <2>1. e \in 1 .. Len(i.envs) /\ i.envs[e].scope = InnerScope(u)
    BY DEF At
  <2>2. Len(i.envs) \in Nat /\ Len(q.envs) \in Nat /\ Len(i.envs) <= Len(q.envs)
    BY InterpreterIs DEF Grows
  <2>. QED BY <2>1, <2>2 DEF Grows
<1>3. CASE u = 0
  BY <1>2, <1>3 DEF Stands, InnerScope
<1>4. CASE u # 0
  <2>1. u \in Nodes /\ program[u].kind # "body"
    BY <1>4 DEF At
  <2>2. \A k \in DeclaredIn(u) \cup {u} : k <= p => Done(k, x)
    <3>1. Begun(program, x) = {} /\ \A k \in DeclaredIn(u) \cup {u} : k < x <=> k <= p
      BY <1>1, <1>4, Skips
    <3>. QED BY <3>1 DEF Done
  <2>. QED BY <1>1, <1>2, <1>4, <2>1, <2>2, StandsUpTo
<1>. QED BY <1>3, <1>4

LEMMA FunctionIs ==
  ASSUME GoodLine, NEW i, Running(i), i.pc \in Nodes, program[i.pc].kind = "fun", NEW q,
         q = OnTo(Define(i, i.environment, program[i.pc].name, newLoxFunction(i.pc, i.environment, FALSE)), EndOf(i.pc) + 1)
  PROVE  Running(q) /\ q.status = i.status
<1>1. Running(i) /\ i.pc \in Nodes /\ program[i.pc].kind = "fun" /\ Standing(i)
  BY DEF Running
<1>2. HeapOK(i) /\ IsInterpreter(i) /\ i.environment \in Nat /\ TextIsPlaced /\ Placed(program)
  BY <1>1, InterpreterIs DEF Standing, HeapOK, GoodLine, TextIsPlaced
<1>3. i = Emptied(i)
  <2>1. i.values = <<>>
    BY <1>1, NothingWaits DEF Expressions, Pops
  <2>. QED BY <1>2, <2>1 DEF Emptied, IsInterpreter
<1>4. PICK p : p = i.pc
  OBVIOUS
<1>5. PICK e : e = i.environment
  OBVIOUS
<1>6. PICK u : u = program[p].in
  OBVIOUS
<1>7. PICK v : v = newLoxFunction(p, e, FALSE)
  OBVIOUS
<1>8. PICK d : d = Define(i, e, program[p].name, v)
  OBVIOUS
<1>9. PICK x : x = EndOf(p) + 1
  OBVIOUS
<1>10. p \in Nodes /\ p \in Nat /\ IsOpener(program[p]) /\ program[p].kind # "body" /\ p <= Len(program) /\ Len(program) \in Nat
  BY <1>1, <1>2, <1>4 DEF IsOpener, Openers, Nodes, Placed
<1>11. IsEndOf(EndOf(p), p) /\ IsNext(p, x)
  BY <1>9, <1>10, NextAfterEnd
<1>12. NextIs(p, u, x, program[p].name)
  <2> SUFFICES ASSUME u # 0
               PROVE  OneDone(u, p, p, x)
    BY <1>10 DEF NextIs
  <2>. QED BY <1>1, <1>2, <1>4, <1>6, <1>9, <1>10, <1>11, FunDone
<1>13. v \in FunctionValues /\ v \in ValueSet /\ v.declaration = p /\ v.closure = e /\ v.isInitializer = FALSE
  BY <1>2, <1>5, <1>7, <1>10 DEF newLoxFunction, FunctionValues, ValueSet
<1>14. At(i, e, p, u)
  <2>1. PICK w : w = InnerOf(i.stack, Len(i.stack))
    OBVIOUS
  <2>2. At(i, e, p, w)
    BY <1>1, <1>4, <1>5, <2>1 DEF Standing
  <2>3. u = w
    BY <1>2, <1>6, <1>10, <2>2, AtIn
  <2>. QED BY <2>2, <2>3
<1>15. ASSUME DeclaredAt(i, e, program[p].name, v, d, u, x)
       PROVE  ValueOK(d, v)
  <2>1. IsInterpreter(d) /\ Grows(i, d) /\ (u # 0 => UpTo(u, Len(d.envs[e].slots), x))
    BY <1>15 DEF DeclaredAt, Adds
  <2>2. Stands(d, e, InnerScope(u), p)
    BY <1>2, <1>6, <1>9, <1>10, <1>14, <2>1, DeclaredStands
  <2>3. Runs(p)
    BY <1>1, <1>4, <1>10, RunsInside
  <2>4. p < Known
    BY <1>10 DEF Known, GoodLine
  <2>5. FunctionOK(d, v)
    BY <1>1, <1>4, <1>6, <1>10, <1>13, <2>2, <2>3, <2>4 DEF FunctionOK, Functions
  <2>. QED BY <2>5, ValueTypes
<1>16. q = OnTo(d, x)
  BY <1>4, <1>5, <1>7, <1>8, <1>9
<1>17. Running(q) /\ q.status = i.status
  <2>1. PICK m : m = Emptied(i)
    OBVIOUS
  <2>2. d = Define(m, e, program[p].name, v)
    BY <1>3, <1>8, <2>1
  <2>3. DeclaredAt(m, e, program[p].name, v, d, u, x) => ValueOK(d, v)
    BY <1>3, <1>15, <2>1
  <2>4. PICK r : r = OnTo(d, x)
    OBVIOUS
  <2>5. p \in Nodes /\ v \in ValueSet /\ Running(i) /\ IsNext(p, x)
    BY <1>1, <1>10, <1>11, <1>13
  <2>6. Running(r) /\ r.status = i.status
    BY <1>4, <1>5, <1>6, <1>12, <2>1, <2>2, <2>3, <2>4, <2>5, DeclaredIs
  <2>. QED BY <1>16, <2>4, <2>6
<1>. QED BY <1>17

LEMMA FunctionFine ==
  ASSUME GoodLine, Fine(interp), Executing({"fun"}), NEW q,
         q = [Define(interp, interp.environment, Current.name, newLoxFunction(interp.pc, interp.environment, FALSE))
                EXCEPT !.pc = EndOf(interp.pc) + 1]
  PROVE  Fine(q)
<1>1. Running(interp) /\ interp.status = "running" /\ interp.pc \in Nodes /\ program[interp.pc].kind = "fun"
  BY ExecutingIs
<1>2. q = OnTo(Define(interp, interp.environment, program[interp.pc].name, newLoxFunction(interp.pc, interp.environment, FALSE)),
               EndOf(interp.pc) + 1)
  BY DEF OnTo, Current
<1>. QED BY <1>1, <1>2, FunctionIs, RunsFine

-----------------------------------------------------------------------------
(* Properties are set *)

LEMMA TargetFine ==
  ASSUME GoodLine, Fine(interp), Executing({"target"}), NEW q,
         q = IF IsObject(Operand(0)) THEN Past(interp) ELSE failWith(interp)
  PROVE  Fine(q)
<1>1. Running(interp) /\ interp.status = "running" /\ interp.pc \in Nodes /\ program[interp.pc].kind = "target" /\ Standing(interp)
  BY ExecutingIs DEF Running
<1>2. HeapOK(interp) /\ IsInterpreter(interp) /\ interp.pc \in Nat /\ TextIsPlaced /\ interp.values \in Seq(ValueSet)
  BY <1>1, InterpreterIs DEF Standing, HeapOK, GoodLine
<1>3. CASE ~IsObject(Operand(0))
  BY <1>1, <1>3, FailsFine
<1>4. CASE IsObject(Operand(0))
  <2>1. ValueOK(interp, interp.values[Len(interp.values) - 0])
    BY <1>1, TopIsThere DEF Pops
  <2>2. ValueOK(interp, Operand(0))
    BY <2>1 DEF Operand
  <2>3. Operand(0) \in ObjectValues
    BY <1>4, <2>2, ValueTypes
  <2>4. Len(interp.values) - 0 = Len(interp.values)
    BY <1>2
  <2>5. interp.values[Len(interp.values)] \in ObjectValues
    BY <2>3, <2>4 DEF Operand
  <2>6. PICK x : x = interp.pc + 1
    OBVIOUS
  <2>7. x \in Nat /\ q = OnTo(interp, x)
    BY <1>2, <1>4, <2>6 DEF Past, OnTo
  <2>8. /\ HeapOK(q) /\ Grows(interp, q) /\ SameHeap(interp, q) /\ q.pc = x
        /\ q.environment = interp.environment /\ q.stack = interp.stack /\ q.values = interp.values /\ q.status = interp.status
    BY <1>2, <2>7, OnToIs
  <2>9. PICK w : w = Operands(program, interp.pc - 1)
    OBVIOUS
  <2>10. Match(interp, interp.values, w)
    BY <1>1, <2>9 DEF Running
  <2>11. Match(interp, interp.values, Operands(program, interp.pc))
    BY <1>1, <1>2, <2>5, <2>9, <2>10, ValueStays
  <2>12. Match(q, q.values, Operands(program, interp.pc))
    BY <1>2, <2>8, <2>11, MatchKept DEF HeapOK
  <2>13. SameSizes(interp, q, interp.environment + 1)
    BY <2>8 DEF SameHeap, SameSizes
  <2>14. IsPlain(interp.pc)
    BY <1>1 DEF IsPlain, IsOpener, IsEnd, Openers
  <2>15. Running(q)
    BY <1>1, <2>6, <2>8, <2>12, <2>13, <2>14, Passed
  <2>. QED BY <1>1, <2>8, <2>15, RunsFine
<1>. QED BY <1>3, <1>4

LEMMA SetFine ==
  ASSUME GoodLine, Fine(interp), Executing({"set"}), NEW q,
         q = Result([Without(2) EXCEPT !.objects[Operand(1).id].fields = Assigned(@, Current.name, Operand(0))], Operand(0))
  PROVE  Fine(q)
<1>1. Running(interp) /\ interp.status = "running" /\ interp.pc \in Nodes /\ program[interp.pc].kind = "set"
  BY ExecutingIs
<1>2. Pops(program[interp.pc]) = 2
  BY <1>1 DEF Pops
<1>3. PICK m : m = Without(2)
  OBVIOUS
<1>4. m = [interp EXCEPT !.values = SubSeq(@, 1, Len(@) - Pops(program[interp.pc]))]
  BY <1>2, <1>3 DEF Without
<1>5. /\ Ready(m) /\ Grows(interp, m) /\ SameHeap(interp, m) /\ m.pc = interp.pc /\ m.status = interp.status
      /\ OperandsOK(interp, interp.pc, interp.values)
  BY <1>1, <1>4, Popped
<1>6. PICK v : v = Operand(0)
  OBVIOUS
<1>7. PICK o : o = Operand(1)
  OBVIOUS
<1>8. ValueOK(interp, v) /\ ValueOK(interp, o) /\ o \in ObjectValues
  <2>1. 0 \in 0 .. 2 - 1 /\ 1 \in 0 .. 2 - 1
    OBVIOUS
  <2>. QED BY <1>1, <1>2, <1>5, <1>6, <1>7, <2>1 DEF OperandsOK, Operand
<1>9. HeapOK(m) /\ IsInterpreter(m) /\ IsInterpreter(interp)
  BY <1>1, <1>5 DEF Ready, Running, Standing, HeapOK
<1>10. ValueOK(m, v) /\ ValueOK(m, o)
  BY <1>5, <1>8, <1>9, ValuesGrow
<1>11. o.id \in 1 .. Len(m.objects)
  <2>1. IsObject(o)
    BY <1>8, ValueTypes
  <2>. QED BY <1>10, <2>1, ValueTypes
<1>12. PICK map : map = Assigned(m.objects[o.id].fields, program[interp.pc].name, v)
  OBVIOUS
<1>13. Grows(m, m)
  <2>1. Len(m.envs) \in Nat /\ Len(m.objects) \in Nat /\ \A e \in 1 .. Len(m.envs) : Len(m.envs[e].slots) \in Nat
    BY <1>9, InterpreterIs
  <2>. QED BY <2>1 DEF Grows
<1>14. AllOK(m, map)
  <2>1. AllOK(m, m.objects[o.id].fields)
    BY <1>9, <1>11 DEF HeapOK, ObjectOK
  <2>. QED BY <1>9, <1>10, <1>12, <1>13, <2>1, AssignedIs
<1>15. PICK r : r = [m EXCEPT !.objects[o.id].fields = map]
  OBVIOUS
<1>16. HeapOK(r) /\ Grows(m, r) /\ SameControl(m, r) /\ r.envs = m.envs
  BY <1>9, <1>11, <1>14, <1>15, FieldsReplaced
<1>17. SameSizes(m, r, m.environment + 1)
  BY <1>16 DEF SameSizes
<1>18. Ready(r) /\ r.pc = interp.pc /\ r.status = interp.status
  BY <1>5, <1>16, <1>17, ReadyKept DEF SameControl
<1>19. ValueOK(r, v)
  BY <1>9, <1>10, <1>16, ValuesGrow DEF HeapOK
<1>20. q = Result(r, v)
  <2>1. r = [m EXCEPT !.objects[o.id].fields = Assigned(@, program[interp.pc].name, v)]
    BY <1>12, <1>15
  <2>. QED BY <1>3, <1>6, <1>7, <2>1 DEF Current
<1>21. Running(q) /\ q.status = interp.status
  <2>1. program[r.pc].kind \in Expressions \ {"target"}
    BY <1>1, <1>18 DEF Expressions
  <2>. QED BY <1>1, <1>18, <1>19, <1>20, <2>1, ResultIs
<1>. QED BY <1>1, <1>21, RunsFine

-----------------------------------------------------------------------------
(* Methods, instances and calls *)

LEMMA ReachedIs ==
  ASSUME GoodLine, NEW i, Ready(i), i.pc \in Nodes, program[i.pc].kind \in {"get", "super"}, NEW method, MethodOK(i, method),
         NEW receiver, ValueOK(i, receiver), NEW q, q = Reached(i, method, receiver)
  PROVE  Running(q) /\ q.status = i.status
<1>1. HeapOK(i)
  BY DEF Ready, Standing
<1>2. PICK ready : ready = bind(i, receiver, method)
  OBVIOUS
<1>3. PICK f : f = Bound(ready, method)
  OBVIOUS
<1>4. Adds_(i, ready) /\ FunctionOK(ready, f) /\ f.declaration = method.declaration
  BY <1>1, <1>2, <1>3, BindIs
<1>5. Ready(ready) /\ ready.pc = i.pc /\ ready.status = i.status
  BY <1>4, AddsReady DEF Adds_, SameControl
<1>6. ready.pc \in Nodes /\ program[ready.pc].kind \in {"call", "get", "super"} /\ program[ready.pc].kind \in Expressions \ {"target"}
  BY <1>5 DEF Expressions
<1>7. method.declaration \in Nodes
  BY DEF MethodOK
<1>8. CASE program[method.declaration].getter
  <2>1. PICK none : none = <<>>
    OBVIOUS
  <2>2. q = Call(ready, f, none, Nil)
    BY <1>2, <1>3, <1>8, <2>1 DEF Reached
  <2>3. Params(f.declaration) = 0
    <3>1. program[method.declaration].params = <<>>
      BY <1>7, <1>8 DEF GoodLine, TextIsPlaced, Grammatical
    <3>. QED BY <1>4, <3>1 DEF Params
  <2>4. \A n \in 1 .. Params(f.declaration) : ValueOK(ready, none[n])
    BY <2>3
  <2>5. ValueOK(ready, Nil)
    BY DEF ValueOK
  <2>6. Running(q) /\ q.status = ready.status
    BY <1>4, <1>5, <1>6, <2>2, <2>4, <2>5, CallIs
  <2>. QED BY <1>5, <2>6
<1>9. CASE ~program[method.declaration].getter
  <2>1. q = Result(ready, f)
    BY <1>2, <1>3, <1>9 DEF Reached
  <2>2. ValueOK(ready, f)
    BY <1>4, ValueTypes
  <2>3. Running(q) /\ q.status = ready.status
    BY <1>5, <1>6, <2>1, <2>2, ResultIs
  <2>. QED BY <1>5, <2>3
<1>. QED BY <1>8, <1>9

LEMMA PropertyIs ==
  ASSUME GoodLine, NEW i, Ready(i), i.status = "running", i.pc \in Nodes, program[i.pc].kind = "get", NEW receiver,
         receiver \in ObjectValues, ValueOK(i, receiver), NEW name, NEW q, q = lookUpProperty(i, receiver, name)
  PROVE  Fine(q)
<1>1. HeapOK(i) /\ Standing(i)
  BY DEF Ready, Standing
<1>2. PICK id : id = receiver.id
  OBVIOUS
<1>3. PICK owner : owner = i.objects[id]
  OBVIOUS
<1>4. id \in 1 .. Len(i.objects) /\ Len(i.objects) \in Nat
  <2>1. IsObject(receiver)
    BY ValueTypes
  <2>. QED BY <1>1, <1>2, <2>1, ValueTypes, InterpreterIs DEF HeapOK
<1>5. AllOK(i, owner.fields) /\ (IsClassObject(i, owner, id) \/ IsInstance(i, owner, id))
  BY <1>1, <1>3, <1>4 DEF HeapOK, ObjectOK
<1>6. PICK method : method = IF owner.isClass THEN findClassMethod(i, id, name) ELSE findMethod(i, owner.class, name)
  OBVIOUS
<1>7. method = Nil \/ MethodOK(i, method)
  <2>1. CASE owner.isClass
    <3>1. method = findClassMethod(i, id, name)
      BY <1>6, <2>1
    <3>2. id \in 0 .. Len(i.objects)
      BY <1>4
    <3>. QED BY <1>1, <3>1, <3>2, FoundMethod DEF FoundWell
  <2>2. CASE ~owner.isClass
    <3>1. method = findMethod(i, owner.class, name)
      BY <1>6, <2>2
    <3>2. owner.class \in 1 .. id - 1
      BY <1>5, <2>2 DEF IsInstance, IsClassObject
    <3>3. owner.class \in 0 .. Len(i.objects)
      BY <1>4, <3>2
    <3>. QED BY <1>1, <3>1, <3>3, FoundMethod DEF FoundWell
  <2>. QED BY <2>1, <2>2
<1>8. q = IF name \in DOMAIN owner.fields THEN Result(i, owner.fields[name])
          ELSE IF method = Nil THEN failWith(i) ELSE Reached(i, method, receiver)
  BY <1>2, <1>3, <1>6 DEF lookUpProperty
<1>9. CASE name \in DOMAIN owner.fields
  <2>1. q = Result(i, owner.fields[name])
    BY <1>8, <1>9
  <2>2. ValueOK(i, owner.fields[name])
    BY <1>5, <1>9 DEF AllOK
  <2>3. program[i.pc].kind \in Expressions \ {"target"}
    BY DEF Expressions
  <2>4. Running(q) /\ q.status = i.status
    BY <2>1, <2>2, <2>3, ResultIs
  <2>. QED BY <2>4, RunsFine
<1>10. CASE name \notin DOMAIN owner.fields /\ method = Nil
  <2>1. q = failWith(i)
    BY <1>8, <1>10
  <2>. QED BY <1>1, <2>1, FailsWell
<1>11. CASE name \notin DOMAIN owner.fields /\ method # Nil
  <2>1. q = Reached(i, method, receiver)
    BY <1>8, <1>11
  <2>2. MethodOK(i, method) /\ program[i.pc].kind \in {"get", "super"}
    BY <1>7, <1>11
  <2>3. Running(q) /\ q.status = i.status
    BY <2>1, <2>2, ReachedIs
  <2>. QED BY <2>3, RunsFine
<1>. QED BY <1>9, <1>10, <1>11

LEMMA GetFine ==
  ASSUME GoodLine, Fine(interp), Executing({"get"}), NEW q,
         q = IF IsObject(Operand(0)) THEN lookUpProperty(Without(1), Operand(0), Current.name) ELSE failWith(interp)
  PROVE  Fine(q)
<1>1. Running(interp) /\ interp.status = "running" /\ interp.pc \in Nodes /\ program[interp.pc].kind = "get"
  BY ExecutingIs
<1>2. Pops(program[interp.pc]) = 1
  BY <1>1 DEF Pops
<1>3. CASE ~IsObject(Operand(0))
  BY <1>1, <1>3, FailsFine
<1>4. CASE IsObject(Operand(0))
  <2>1. PICK m : m = Without(1)
    OBVIOUS
  <2>2. m = [interp EXCEPT !.values = SubSeq(@, 1, Len(@) - Pops(program[interp.pc]))]
    BY <1>2, <2>1 DEF Without
  <2>3. Ready(m) /\ Grows(interp, m) /\ m.pc = interp.pc /\ m.status = interp.status
    BY <1>1, <2>2, Popped
  <2>4. PICK v : v = Operand(0)
    OBVIOUS
  <2>5. ValueOK(interp, v)
    BY <1>1, <1>2, <2>4, TopIsThere DEF Operand
  <2>6. v \in ObjectValues
    BY <1>4, <2>4, <2>5, ValueTypes
  <2>7. ValueOK(m, v)
    <3>1. IsInterpreter(interp) /\ IsInterpreter(m)
      BY <1>1, <2>3 DEF Running, Ready, Standing, HeapOK
    <3>. QED BY <2>3, <2>5, <3>1, ValuesGrow
  <2>8. q = lookUpProperty(m, v, Current.name)
    BY <1>4, <2>1, <2>4
  <2>9. m.status = "running" /\ m.pc \in Nodes /\ program[m.pc].kind = "get"
    BY <1>1, <2>3
  <2>. QED BY <2>3, <2>6, <2>7, <2>8, <2>9, PropertyIs
<1>. QED BY <1>3, <1>4

\* A new instance.
LEMMA InstanceMade ==
  ASSUME NEW i, HeapOK(i), NEW class \in Classes(i), NEW q, q = WithObject(i, newLoxInstance(class))
  PROVE  Adds_(i, q) /\ ValueOK(q, Object(Len(i.objects) + 1))
<1>1. IsInterpreter(i)
  BY DEF HeapOK
<1>2. PICK o : o = newLoxInstance(class)
  OBVIOUS
<1>3. PICK l \in Nat : l = Len(i.objects)
  BY <1>1, InterpreterIs
<1>4. /\ IsInterpreter(q) /\ Grows(i, q) /\ SameControl(i, q) /\ q.envs = i.envs /\ q.globals = i.globals
      /\ Len(q.objects) = l + 1 /\ q.objects[l + 1] = o /\ \A id \in 1 .. l : q.objects[id] = i.objects[id]
  BY <1>1, <1>2, <1>3, ObjectMade
<1>5. class \in 1 .. l /\ i.objects[class].isClass
  BY <1>3 DEF Classes
<1>6. ObjectOK(q, l + 1)
  <2>1. o.isClass = FALSE /\ o.class = class /\ o.fields = <<>> /\ o \in [isClass : {FALSE}, class : Nat, fields : {o.fields}]
    BY <1>2, <1>5 DEF newLoxInstance
  <2>2. class \in 1 .. (l + 1) - 1 /\ q.objects[class].isClass
    BY <1>4, <1>5
  <2>3. IsInstance(q, o, l + 1)
    BY <2>1, <2>2 DEF IsInstance
  <2>4. AllOK(q, o.fields)
    BY <2>1 DEF AllOK
  <2>. QED BY <1>4, <2>3, <2>4 DEF ObjectOK
<1>7. HeapOK(q)
  <2>1. \A id \in 1 .. Len(q.objects) : (id <= l /\ q.objects[id] = i.objects[id]) \/ ObjectOK(q, id)
    <3>1. \A id \in 1 .. l + 1 : id \in 1 .. l \/ id = l + 1
      OBVIOUS
    <3>2. \A id \in 1 .. l : id <= l
      OBVIOUS
    <3>. QED BY <1>4, <1>6, <3>1, <3>2
  <2>2. \A e \in 2 .. Len(q.envs) : e <= Len(i.envs) /\ q.envs[e] = i.envs[e]
    <3>1. Len(i.envs) \in Nat
      BY <1>1, InterpreterIs
    <3>. QED BY <1>4, <3>1
  <2>. QED BY <1>3, <1>4, <2>1, <2>2, HeapKept
<1>8. \A n : SameSizes(i, q, n)
  BY <1>4 DEF SameSizes
<1>9. ValueOK(q, Object(l + 1))
  <2>1. Object(l + 1) \in ObjectValues /\ Object(l + 1).id = l + 1
    BY ValueTypes
  <2>2. l + 1 \in 1 .. Len(q.objects)
    BY <1>4
  <2>. QED BY <2>1, <2>2 DEF ValueOK
<1>. QED BY <1>3, <1>4, <1>7, <1>8, <1>9 DEF Adds_

LEMMA CallClassIs ==
  ASSUME GoodLine, NEW i, Ready(i), i.status = "running", i.pc \in Nodes, program[i.pc].kind = "call", NEW class \in Classes(i),
         NEW n \in Nat, NEW arguments, Len(arguments) = n, \A k \in 1 .. n : ValueOK(i, arguments[k]),
         NEW q, q = CallClass(i, class, arguments)
  PROVE  Fine(q)
<1>1. HeapOK(i) /\ Standing(i) /\ IsInterpreter(i) /\ Len(i.objects) \in Nat
  BY InterpreterIs DEF Ready, Standing, HeapOK
<1>2. PICK init : init = findMethod(i, class, "init")
  OBVIOUS
<1>3. init = Nil \/ MethodOK(i, init)
  <2>1. class \in 0 .. Len(i.objects)
    BY <1>1 DEF Classes
  <2>. QED BY <1>1, <1>2, <2>1, FoundMethod DEF FoundWell
<1>4. PICK instance : instance = Object(Len(i.objects) + 1)
  OBVIOUS
<1>5. PICK made : made = WithObject(i, newLoxInstance(class))
  OBVIOUS
<1>6. Adds_(i, made) /\ ValueOK(made, instance)
  BY <1>1, <1>4, <1>5, InstanceMade
<1>7. HeapOK(made) /\ IsInterpreter(made) /\ Ready(made) /\ made.pc = i.pc /\ made.status = "running" /\ Grows(i, made)
  BY <1>6, AddsReady DEF Adds_, SameControl, HeapOK
<1>8. PICK ready : ready = bind(made, instance, init)
  OBVIOUS
<1>9. q = IF init = Nil THEN IF arguments = <<>> THEN Result(made, instance) ELSE failWith(i)
          ELSE IF Arity(init) # n THEN failWith(i) ELSE Call(ready, Bound(ready, init), arguments, instance)
  BY <1>2, <1>4, <1>5, <1>8 DEF CallClass, WithObject
<1>10. Fine(failWith(i))
  <2>1. PICK r : r = failWith(i)
    OBVIOUS
  <2>. QED BY <1>1, <2>1, FailsWell
<1>11. CASE init = Nil /\ arguments = <<>>
  <2>1. q = Result(made, instance)
    BY <1>9, <1>11
  <2>2. program[made.pc].kind \in Expressions \ {"target"} /\ made.pc \in Nodes
    BY <1>7 DEF Expressions
  <2>3. Running(q) /\ q.status = "running"
    BY <1>6, <1>7, <2>1, <2>2, ResultIs
  <2>. QED BY <2>3, RunsFine
<1>12. CASE init # Nil /\ Arity(init) = n
  <2>1. q = Call(ready, Bound(ready, init), arguments, instance)
    BY <1>9, <1>12
  <2>2. MethodOK(i, init)
    BY <1>3, <1>12
  <2>3. MethodOK(made, init)
    BY <1>1, <1>7, <2>2, ValuesGrow
  <2>4. PICK f : f = Bound(ready, init)
    OBVIOUS
  <2>5. Adds_(made, ready) /\ FunctionOK(ready, f) /\ f.declaration = init.declaration
    BY <1>6, <1>7, <1>8, <2>3, <2>4, BindIs
  <2>6. Ready(ready) /\ ready.pc = i.pc /\ ready.status = "running" /\ IsInterpreter(ready) /\ Grows(made, ready)
    BY <1>7, <2>5, AddsReady DEF Adds_, SameControl, HeapOK
  <2>7. \A k \in 1 .. Params(f.declaration) : ValueOK(ready, arguments[k])
    <3>1. Params(f.declaration) = n
      BY <1>12, <2>5 DEF Params, Arity
    <3>2. \A v : ValueOK(i, v) => ValueOK(made, v)
      BY <1>1, <1>7, ValuesGrow
    <3>3. \A v : ValueOK(made, v) => ValueOK(ready, v)
      BY <1>7, <2>6, ValuesGrow
    <3>. QED BY <3>1, <3>2, <3>3
  <2>8. ValueOK(ready, instance)
    BY <1>6, <1>7, <2>6, ValuesGrow
  <2>9. ready.pc \in Nodes /\ program[ready.pc].kind \in {"call", "get", "super"}
    BY <2>6
  <2>10. q = Call(ready, f, arguments, instance)
    BY <2>1, <2>4
  <2>11. Running(q) /\ q.status = "running"
    BY <2>5, <2>6, <2>7, <2>8, <2>9, <2>10, CallIs
  <2>. QED BY <2>11, RunsFine
<1>13. CASE (init = Nil /\ arguments # <<>>) \/ (init # Nil /\ Arity(init) # n)
  BY <1>9, <1>10, <1>13
<1>. QED BY <1>11, <1>12, <1>13

\* The operands of a call.
AreTaken(i, n, callee, arguments, m) ==
  /\ n = program[i.pc].n /\ callee = i.values[Len(i.values) - n]
  /\ arguments = [k \in 1 .. n |-> i.values[Len(i.values) - (n - k)]]
  /\ m = [i EXCEPT !.values = SubSeq(@, 1, Len(@) - (n + 1))]
LEMMA CallOperands ==
  ASSUME GoodLine, NEW i, Running(i), i.pc \in Nodes, program[i.pc].kind = "call", NEW n, NEW callee, NEW arguments, NEW m,
         AreTaken(i, n, callee, arguments, m)
  PROVE  /\ Ready(m) /\ m.pc = i.pc /\ m.status = i.status /\ m.objects = i.objects /\ n \in Nat
         /\ ValueOK(m, callee) /\ ValueOK(i, callee) /\ \A k \in 1 .. n : ValueOK(m, arguments[k])
         /\ Len(arguments) = n
<1>1. Pops(program[i.pc]) = n + 1
  BY DEF Pops, AreTaken
<1>2. n \in Nat
  <2>1. program[i.pc] \in NodeSet
    BY DEF GoodLine, TextIsPlaced, Placed, Nodes
  <2>. QED BY <2>1 DEF NodeSet, AreTaken
<1>3. Ready(m) /\ Grows(i, m) /\ SameHeap(i, m) /\ m.pc = i.pc /\ m.status = i.status /\ OperandsOK(i, i.pc, i.values)
  <2>1. m = [i EXCEPT !.values = SubSeq(@, 1, Len(@) - Pops(program[i.pc]))]
    BY <1>1 DEF AreTaken
  <2>. QED BY <2>1, Popped
<1>4. \A k \in 0 .. n : ValueOK(i, i.values[Len(i.values) - k])
  <2>1. \A k \in 0 .. (n + 1) - 1 : ValueOK(i, i.values[Len(i.values) - k])
    BY <1>1, <1>3 DEF OperandsOK
  <2>2. (n + 1) - 1 = n
    BY <1>2
  <2>. QED BY <2>1, <2>2
<1>5. \A v : ValueOK(i, v) => ValueOK(m, v)
  <2>1. IsInterpreter(i) /\ IsInterpreter(m)
    BY <1>3 DEF Running, Ready, Standing, HeapOK
  <2>. QED BY <1>3, <2>1, ValuesGrow
<1>6. ValueOK(i, callee)
  <2>1. n \in 0 .. n
    BY <1>2
  <2>. QED BY <1>4, <2>1 DEF AreTaken
<1>7. ASSUME NEW k \in 1 .. n
      PROVE  ValueOK(m, arguments[k])
  <2>1. n - k \in 0 .. n
    BY <1>2
  <2>2. ValueOK(m, i.values[Len(i.values) - (n - k)])
    BY <1>4, <1>5, <2>1
  <2>. QED BY <2>2 DEF AreTaken
<1>8. Len(arguments) = n
  <2>1. arguments = [k \in 1 .. n |-> i.values[Len(i.values) - (n - k)]]
    BY DEF AreTaken
  <2>. QED BY <1>2, <2>1
<1>. QED BY <1>2, <1>3, <1>5, <1>6, <1>7, <1>8 DEF SameHeap

CalledWith(i, n, callee, arguments, m) ==
  CASE callee.kind = "function" -> IF Arity(callee) = n THEN Call(m, callee, arguments, Nil) ELSE failWith(i)
    [] IsClass(i, callee) -> CallClass(m, callee.id, arguments)
    [] OTHER -> failWith(i)
LEMMA CallWell ==
  ASSUME GoodLine, NEW i, Running(i), i.status = "running", i.pc \in Nodes, program[i.pc].kind = "call", NEW n, NEW callee, NEW arguments, NEW m,
         AreTaken(i, n, callee, arguments, m),
         NEW q, q = CalledWith(i, n, callee, arguments, m)
  PROVE  Fine(q)
<1>1. /\ Ready(m) /\ m.pc = i.pc /\ m.status = i.status /\ m.objects = i.objects /\ n \in Nat
      /\ ValueOK(m, callee) /\ ValueOK(i, callee) /\ \A k \in 1 .. n : ValueOK(m, arguments[k])
      /\ Len(arguments) = n
  BY CallOperands
<1>2. m.pc \in Nodes /\ program[m.pc].kind = "call" /\ m.status = "running"
  BY <1>1
<1>3. Fine(failWith(i))
  BY FailsFine
<1>4. CASE callee.kind = "function"
  <2>1. q = IF Arity(callee) = n THEN Call(m, callee, arguments, Nil) ELSE failWith(i)
    BY <1>4 DEF CalledWith, IsClass, IsObject
  <2>2. CASE Arity(callee) = n
    <3>1. q = Call(m, callee, arguments, Nil)
      BY <2>1, <2>2
    <3>2. FunctionOK(m, callee)
      BY <1>1, <1>4, ValueTypes
    <3>3. \A k \in 1 .. Params(callee.declaration) : ValueOK(m, arguments[k])
      BY <1>1, <2>2 DEF Arity, Params
    <3>4. ValueOK(m, Nil)
      BY DEF ValueOK
    <3>5. Running(q) /\ q.status = m.status
      BY <1>1, <1>2, <3>1, <3>2, <3>3, <3>4, CallIs
    <3>. QED BY <1>2, <3>5, RunsFine
  <2>3. CASE Arity(callee) # n
    BY <1>3, <2>1, <2>3
  <2>. QED BY <2>2, <2>3
<1>5. CASE callee.kind # "function" /\ IsClass(i, callee)
  <2>1. q = CallClass(m, callee.id, arguments)
    BY <1>5 DEF CalledWith
  <2>2. callee.id \in 1 .. Len(m.objects)
    BY <1>1, <1>5, ValueTypes DEF IsClass
  <2>3. callee.id \in Classes(m)
    BY <1>1, <1>5, <2>2 DEF Classes, IsClass
  <2>. QED BY <1>1, <1>2, <2>1, <2>3, CallClassIs
<1>6. CASE callee.kind # "function" /\ ~IsClass(i, callee)
  <2>1. q = failWith(i)
    BY <1>6 DEF CalledWith
  <2>. QED BY <1>3, <2>1
<1>. QED BY <1>4, <1>5, <1>6

LEMMA CallFine ==
  ASSUME GoodLine, Fine(interp), Executing({"call"}), NEW callee, callee = Operand(Current.n),
         NEW arguments, arguments = [n \in 1 .. Current.n |-> Operand(Current.n - n)], NEW popped, popped = Without(Current.n + 1),
         NEW q, q = CASE callee.kind = "function" ->
                           IF Arity(callee) = Current.n THEN Call(popped, callee, arguments, Nil) ELSE failWith(interp)
                      [] IsClass(interp, callee) -> CallClass(popped, callee.id, arguments)
                      [] OTHER -> failWith(interp)
  PROVE  Fine(q)
<1>1. Running(interp) /\ interp.status = "running" /\ interp.pc \in Nodes /\ program[interp.pc].kind = "call"
  BY ExecutingIs
<1>2. PICK n : n = program[interp.pc].n
  OBVIOUS
<1>3. callee = interp.values[Len(interp.values) - n]
  BY <1>2 DEF Operand, Current
<1>4. arguments = [k \in 1 .. n |-> interp.values[Len(interp.values) - (n - k)]]
  BY <1>2 DEF Operand, Current
<1>5. popped = [interp EXCEPT !.values = SubSeq(@, 1, Len(@) - (n + 1))]
  BY <1>2 DEF Without, Current
<1>6. q = CalledWith(interp, n, callee, arguments, popped)
  BY <1>2 DEF CalledWith, Current
<1>7. AreTaken(interp, n, callee, arguments, popped)
  BY <1>2, <1>3, <1>4, <1>5 DEF AreTaken
<1>. QED BY <1>1, <1>6, <1>7, CallWell

LEMMA SuperIs ==
  ASSUME GoodLine, NEW i, Ready(i), i.status = "running", i.pc \in Nodes, program[i.pc].kind = "super", NEW at,
         SuperFound(i, i.environment, at), NEW superclass, superclass = GetAt(i, i.environment, at),
         NEW receiver, receiver = GetAt(i, i.environment, <<at[1] - 1, 0>>),
         NEW method, method = IF IsClass(i, receiver) THEN findClassMethod(i, superclass.id, program[i.pc].name)
                              ELSE findMethod(i, superclass.id, program[i.pc].name),
         NEW q, q = IF method = Nil THEN failWith(i) ELSE Reached(i, method, receiver)
  PROVE  Fine(q)
<1>1. HeapOK(i) /\ Standing(i) /\ Len(i.objects) \in Nat
  BY InterpreterIs DEF Ready, Standing, HeapOK
<1>2. IsClassValue(i, superclass) /\ ValueOK(i, receiver)
  BY DEF SuperFound
<1>3. superclass.id \in 0 .. Len(i.objects)
  BY <1>1, <1>2 DEF IsClassValue
<1>4. method = Nil \/ MethodOK(i, method)
  BY <1>1, <1>3, FoundMethod DEF FoundWell
<1>5. CASE method = Nil
  <2>1. q = failWith(i)
    BY <1>5
  <2>. QED BY <1>1, <2>1, FailsWell
<1>6. CASE method # Nil
  <2>1. q = Reached(i, method, receiver)
    BY <1>6
  <2>2. MethodOK(i, method) /\ program[i.pc].kind \in {"get", "super"}
    BY <1>4, <1>6
  <2>3. Running(q) /\ q.status = i.status
    BY <1>2, <2>1, <2>2, ReachedIs
  <2>. QED BY <2>3, RunsFine
<1>. QED BY <1>5, <1>6

\* A super that is resolved finds a class, and next to it a receiver.
SuperLeads(at) ==
  /\ at # <<>> /\ at = LexicalAddress(interp.pc, "super") /\ SuperFound(interp, interp.environment, at)
  /\ At(interp, interp.environment, interp.pc, program[interp.pc].in) /\ Good(interp.pc)
  /\ HasSlot(interp, interp.environment, at) /\ HasSlot(interp, interp.environment, <<at[1] - 1, 0>>)
  /\ at[1] # 0 /\ IsClass(interp, GetAt(interp, interp.environment, at))
LEMMA SuperIsThere ==
  ASSUME GoodLine, Fine(interp), Executing({"super"}), Resolved, NEW at, at = Slot
  PROVE  SuperLeads(at)
<1>1. Running(interp) /\ interp.pc \in Nodes /\ program[interp.pc].kind = "super" /\ Standing(interp) /\ HeapOK(interp)
  BY ExecutingIs DEF Running, Standing
<1>2. PICK p, env : p = interp.pc /\ env = interp.environment
  OBVIOUS
<1>3. Good(p)
  BY <1>1, <1>2, GoodHere
<1>4. at # <<>> /\ at = LexicalAddress(p, "super")
  <2>1. AddressGiven(locals, p) = LexicalAddress(p, NameUsed(p))
    BY <1>1, <1>2, <1>3 DEF Good, Uses
  <2>2. p \in DOMAIN locals /\ at = locals[p]
    BY <1>2 DEF Resolved, Slot
  <2>3. NameUsed(p) = "super"
    BY <1>1, <1>2 DEF NameUsed
  <2>. QED BY <2>1, <2>2, <2>3 DEF AddressGiven, GoodLine
<1>5. PICK u : u = InnerOf(interp.stack, Len(interp.stack))
  OBVIOUS
<1>6. At(interp, env, p, u) /\ TextIsPlaced
  BY <1>1, <1>2, <1>5 DEF Standing, GoodLine
<1>7. u = program[p].in /\ p \in Nodes
  BY <1>1, <1>2, <1>6, AtIn
<1>8. SuperFound(interp, env, at)
  BY <1>1, <1>4, <1>6, <1>7, SuperResolves
<1>9. IsClass(interp, GetAt(interp, env, at))
  BY <1>8, ValueTypes DEF SuperFound, IsClass
<1>10. HasSlot(interp, env, at) /\ HasSlot(interp, env, <<at[1] - 1, 0>>) /\ at[1] # 0
  BY <1>8 DEF SuperFound
<1>. QED BY <1>2, <1>3, <1>4, <1>6, <1>7, <1>8, <1>9, <1>10 DEF SuperLeads

LEMMA SuperFine ==
  ASSUME GoodLine, Fine(interp), Executing({"super"}), NEW env, env = interp.environment,
         NEW nearer, nearer = <<IF Slot[1] = 0 THEN 0 ELSE Slot[1] - 1, 0>>,
         NEW there, there = (HasSlot(interp, env, Slot) /\ HasSlot(interp, env, nearer)),
         NEW superclass, superclass = GetAt(interp, env, Slot), NEW receiver, receiver = GetAt(interp, env, nearer),
         NEW method, method = IF IsClass(interp, receiver) THEN findClassMethod(interp, superclass.id, Current.name)
                              ELSE findMethod(interp, superclass.id, Current.name),
         NEW q, q = IF ~Resolved THEN failWith(interp)
                    ELSE IF ~there THEN Crash(interp) ELSE IF ~IsClass(interp, superclass) THEN Crash(interp)
                    ELSE IF method = Nil THEN failWith(interp) ELSE Reached(interp, method, receiver)
  PROVE  Fine(q)
<1>1. Running(interp) /\ interp.status = "running" /\ interp.pc \in Nodes /\ program[interp.pc].kind = "super" /\ Standing(interp)
      /\ HeapOK(interp)
  BY ExecutingIs DEF Running, Standing
<1>2. Ready(interp)
  BY <1>1, NothingPopped DEF Pops
<1>3. CASE ~Resolved
  <2>1. q = failWith(interp)
    BY <1>3
  <2>. QED BY <1>1, <2>1, FailsFine
<1>4. CASE Resolved
  <2>1. PICK at : at = Slot
    OBVIOUS
  <2>2. SuperLeads(at)
    BY <1>4, <2>1, SuperIsThere
  <2>3. /\ HasSlot(interp, env, at) /\ HasSlot(interp, env, <<at[1] - 1, 0>>) /\ at[1] # 0
        /\ IsClass(interp, GetAt(interp, env, at)) /\ SuperFound(interp, env, at)
    BY <2>2 DEF SuperLeads
  <2>8. nearer = <<at[1] - 1, 0>>
    BY <2>1, <2>3
  <2>9. there /\ superclass = GetAt(interp, env, at)
    BY <2>1, <2>3, <2>8
  <2>10. IsClass(interp, superclass)
    BY <2>3, <2>9
  <2>11. q = IF method = Nil THEN failWith(interp) ELSE Reached(interp, method, receiver)
    BY <1>4, <2>9, <2>10
  <2>12. receiver = GetAt(interp, env, <<at[1] - 1, 0>>)
    BY <2>8
  <2>13. method = IF IsClass(interp, receiver) THEN findClassMethod(interp, superclass.id, program[interp.pc].name)
                  ELSE findMethod(interp, superclass.id, program[interp.pc].name)
    BY DEF Current
  <2>. QED BY <1>1, <1>2, <2>3, <2>9, <2>11, <2>12, <2>13, SuperIs
<1>. QED BY <1>3, <1>4

-----------------------------------------------------------------------------
(* A class statement *)

LEMMA GrowsMore ==
  ASSUME NEW i, NEW m, NEW q, IsInterpreter(i), IsInterpreter(m), IsInterpreter(q), Grows(i, m), Grows(m, q)
  PROVE  Grows(i, q)
<1>1. /\ Len(i.envs) \in Nat /\ Len(m.envs) \in Nat /\ Len(q.envs) \in Nat
      /\ Len(i.objects) \in Nat /\ Len(m.objects) \in Nat /\ Len(q.objects) \in Nat
  BY InterpreterIs
<1>2. /\ Len(i.envs) <= Len(m.envs) /\ Len(m.envs) <= Len(q.envs)
      /\ Len(i.objects) <= Len(m.objects) /\ Len(m.objects) <= Len(q.objects)
  BY DEF Grows
<1>3. ASSUME NEW e \in 1 .. Len(i.envs)
      PROVE  q.envs[e].scope = i.envs[e].scope /\ Len(i.envs[e].slots) <= Len(q.envs[e].slots)
  <2>1. e \in 1 .. Len(m.envs) /\ e \in 1 .. Len(q.envs)
    BY <1>1, <1>2
  <2>2. PICK a, b, c \in Nat : a = Len(i.envs[e].slots) /\ b = Len(m.envs[e].slots) /\ c = Len(q.envs[e].slots)
    BY <2>1, InterpreterIs
  <2>3. m.envs[e].scope = i.envs[e].scope /\ q.envs[e].scope = m.envs[e].scope /\ a <= b /\ b <= c
    BY <2>1, <2>2 DEF Grows
  <2>4. a <= c
    BY <2>3
  <2>. QED BY <2>2, <2>3, <2>4
<1>4. ASSUME NEW id \in 1 .. Len(i.objects)
      PROVE  q.objects[id].isClass = i.objects[id].isClass
  <2>1. id \in 1 .. Len(m.objects)
    BY <1>1, <1>2
  <2>. QED BY <2>1 DEF Grows
<1>5. Len(i.envs) <= Len(q.envs) /\ Len(i.objects) <= Len(q.objects)
  BY <1>1, <1>2
<1>. QED BY <1>3, <1>4, <1>5 DEF Grows

\* The methods of a class are the methods in its body.
MethodsNamed(p, onTheClass, word) ==
  {m \in Nodes : /\ program[m].kind = "method" /\ program[m].in = p
                 /\ program[m].onTheClass = onTheClass /\ (word = "" \/ program[m].name = word)}
MethodsOn(p, onTheClass) == MethodsNamed(p, onTheClass, "")
LEMMA MethodsAre ==
  ASSUME GoodLine, NEW p \in Nodes, p = interp.pc, NEW onTheClass, NEW closure \in Nat,
         NEW map, map = Methods(onTheClass, closure), NEW name \in DOMAIN map
  PROVE  /\ map[name] \in FunctionValues /\ map[name].closure = closure
         /\ map[name].declaration \in Nodes /\ program[map[name].declaration].kind = "method"
         /\ program[map[name].declaration].in = p
<1>1. map = [word \in {program[m].name : m \in MethodsOn(p, onTheClass)} |->
               newLoxFunction(Max(MethodsNamed(p, onTheClass, word)), closure, word = "init" /\ ~onTheClass)]
  BY Zenon DEF Methods, MethodsNamed, MethodsOn
<1>2. PICK m \in MethodsOn(p, onTheClass) : name = program[m].name
  <2>1. DOMAIN map = {program[m].name : m \in MethodsOn(p, onTheClass)}
    BY <1>1
  <2>. QED BY <2>1
<1>3. PICK S : S = MethodsNamed(p, onTheClass, name)
  OBVIOUS
<1>4. Len(program) \in Nat
  BY DEF GoodLine, TextIsPlaced, Placed
<1>a. \A word : \A d \in MethodsNamed(p, onTheClass, word) : d \in Nodes /\ program[d].kind = "method" /\ program[d].in = p
                                                            /\ d \in MethodsNamed(p, onTheClass, program[d].name)
  BY Zenon DEF MethodsNamed
<1>b. m \in S
  BY <1>2, <1>3, <1>a, Zenon DEF MethodsOn
<1>5. S \subseteq 0 .. Len(program)
  <2>1. S \subseteq Nodes
    BY <1>3, <1>a
  <2>. QED BY <1>4, <2>1 DEF Nodes
<1>6. PICK k : k = Max(S)
  OBVIOUS
<1>7. k \in S
  BY <1>4, <1>b, <1>5, <1>6, MaxIs
<1>8. k \in Nodes /\ program[k].kind = "method" /\ program[k].in = p /\ k \in Nat
  <2>1. k \in 0 .. Len(program)
    BY <1>5, <1>7
  <2>. QED BY <1>3, <1>4, <1>7, <1>a, <2>1
<1>9. map[name] = newLoxFunction(k, closure, name = "init" /\ ~onTheClass)
  BY <1>1, <1>3, <1>6
<1>10. PICK b \in BOOLEAN : b = (name = "init" /\ ~onTheClass)
  OBVIOUS
<1>11. map[name] = [kind |-> "function", declaration |-> k, closure |-> closure, isInitializer |-> b]
  BY <1>9, <1>10 DEF newLoxFunction
<1>12. map[name] \in FunctionValues /\ map[name].closure = closure /\ map[name].declaration = k
  <2>1. PICK f : f = map[name]
    OBVIOUS
  <2>2. f = [kind |-> "function", declaration |-> k, closure |-> closure, isInitializer |-> b]
    BY <1>11, <2>1
  <2>3. f \in FunctionValues /\ f.closure = closure /\ f.declaration = k
    BY <1>8, <2>2 DEF FunctionValues
  <2>. QED BY <2>1, <2>3
<1>. QED BY <1>8, <1>12

SuperEnv(p, e, top) == [enclosing |-> e, scope |-> <<p, "super">>, slots |-> <<SlotFor("super", top)>>]
Above(m, p, e, top) ==
  IF IsSubclass(p) THEN NewEnvironment(m, e, <<p, "super">>, <<SlotFor("super", top)>>) ELSE m
SuperAdded(m, p, e, top, a) ==
  /\ \A k \in 1 .. Len(m.envs) : a.envs[k] = m.envs[k]
  /\ IsSubclass(p) => Len(a.envs) = Len(m.envs) + 1 /\ a.envs[Len(m.envs) + 1] = SuperEnv(p, e, top)
  /\ ~IsSubclass(p) => Len(a.envs) = Len(m.envs)
LEMMA AboveIs ==
  ASSUME NEW m, IsInterpreter(m), Grows(m, m), NEW p \in Nat, NEW e \in Nat, NEW top \in ValueSet, NEW a, a = Above(m, p, e, top)
  PROVE  /\ IsInterpreter(a) /\ Grows(m, a) /\ SameControl(m, a) /\ a.objects = m.objects /\ a.globals = m.globals
         /\ SuperAdded(m, p, e, top, a)
<1>1. CASE IsSubclass(p)
  <2>1. PICK env : env = SuperEnv(p, e, top)
    OBVIOUS
  <2>2. env \in EnvSet
    <3>1. PICK slot : slot = SlotFor("super", top)
      OBVIOUS
    <3>2. slot \in SlotSet
      BY <3>1 DEF SlotFor, SlotSet, NameSet
    <3>3. <<slot>> \in Seq(SlotSet)
      BY <3>2
    <3>4. <<p, "super">> \in ScopeSet
      BY DEF ScopeSet
    <3>. QED BY <2>1, <3>1, <3>3, <3>4 DEF SuperEnv, EnvSet
  <2>3. PICK scope, slots : scope = <<p, "super">> /\ slots = <<SlotFor("super", top)>>
    OBVIOUS
  <2>4. a = NewEnvironment(m, e, scope, slots) /\ env = [enclosing |-> e, scope |-> scope, slots |-> slots]
    BY <1>1, <2>1, <2>3 DEF Above, SuperEnv
  <2>5. /\ IsInterpreter(a) /\ Grows(m, a) /\ SameControl(m, a) /\ a.objects = m.objects /\ a.globals = m.globals
        /\ Len(a.envs) = Len(m.envs) + 1 /\ a.envs[Len(m.envs) + 1] = env
        /\ \A k \in 1 .. Len(m.envs) : a.envs[k] = m.envs[k]
    BY <2>2, <2>4, EnvironmentAdded
  <2>. QED BY <1>1, <2>1, <2>5 DEF SuperAdded
<1>2. CASE ~IsSubclass(p)
  BY <1>2 DEF Above, SuperAdded, SameControl
<1>. QED BY <1>1, <1>2

MadeOf(m, p, e, top, class, x) == OnTo(WithObject(Above(m, p, e, top), class), x)
ClassMadeIn(m, p, e, top, class, x, r) ==
  /\ IsInterpreter(r) /\ Grows(m, r) /\ r.globals = m.globals /\ SuperAdded(m, p, e, top, r) /\ r.pc = x
  /\ r.environment = m.environment /\ r.stack = m.stack /\ r.values = m.values /\ r.status = m.status
  /\ Len(r.objects) = Len(m.objects) + 1 /\ r.objects[Len(m.objects) + 1] = class
  /\ \A id \in 1 .. Len(m.objects) : r.objects[id] = m.objects[id]
LEMMA ClassMade ==
  ASSUME NEW m, IsInterpreter(m), Grows(m, m), NEW p \in Nat, NEW e \in Nat, NEW top \in ValueSet, NEW class, NEW x, x \in Nat,
         NEW r, r = MadeOf(m, p, e, top, class, x)
  PROVE  ClassMadeIn(m, p, e, top, class, x, r)
<1>1. PICK a : a = Above(m, p, e, top)
  OBVIOUS
<1>2. PICK c : c = WithObject(a, class)
  OBVIOUS
<1>3. /\ IsInterpreter(a) /\ Grows(m, a) /\ SameControl(m, a) /\ a.objects = m.objects /\ a.globals = m.globals
      /\ SuperAdded(m, p, e, top, a)
  BY <1>1, AboveIs
<1>4. /\ IsInterpreter(c) /\ Grows(a, c) /\ SameControl(a, c) /\ c.envs = a.envs /\ c.globals = a.globals
      /\ Len(c.objects) = Len(a.objects) + 1 /\ c.objects[Len(a.objects) + 1] = class
      /\ \A id \in 1 .. Len(a.objects) : c.objects[id] = a.objects[id]
  BY <1>2, <1>3, ObjectMade
<1>5. r = OnTo(c, x)
  BY <1>1, <1>2 DEF MadeOf
<1>6. /\ IsInterpreter(r) /\ SameHeap(c, r) /\ r.pc = x
      /\ r.environment = c.environment /\ r.stack = c.stack /\ r.values = c.values /\ r.status = c.status
  BY <1>4, <1>5, OnToStays
<1>7. Grows(m, r)
  <2>1. Grows(m, c)
    BY <1>3, <1>4, GrowsMore
  <2>. QED BY <1>6, <2>1, GrowsOn
<1>8. SuperAdded(m, p, e, top, r)
  BY <1>3, <1>4, <1>6 DEF SuperAdded, SameHeap
<1>. QED BY <1>3, <1>4, <1>6, <1>7, <1>8 DEF ClassMadeIn, SameHeap, SameControl

\* The heap after a class statement.
ClassDefined(m, p, e, top, class, x, q) ==
  LET r == MadeOf(m, p, e, top, class, x) IN q = Define(r, e, program[p].name, Object(Len(r.objects)))
MethodsFrom(map, p, closure) ==
  \A name \in DOMAIN map : /\ map[name] \in FunctionValues /\ map[name].closure = closure
                           /\ map[name].declaration \in Nodes /\ program[map[name].declaration].kind = "method"
                           /\ program[map[name].declaration].in = p
IsNewClass(m, p, e, top, class) ==
  LET closure == IF IsSubclass(p) THEN Len(m.envs) + 1 ELSE e
  IN /\ class.isClass /\ class.fields = <<>>
     /\ class \in [isClass : {TRUE}, superclass : Nat, methods : {class.methods}, classMethods : {class.classMethods}, fields : {<<>>}]
     /\ class.superclass = IF IsSubclass(p) THEN top.id ELSE 0
     /\ MethodsFrom(class.methods, p, closure) /\ MethodsFrom(class.classMethods, p, closure)
ClassGiven(i, p, e, u, x, top, class) ==
  /\ HeapOK(i) /\ Grows(i, i) /\ At(i, e, p, u) /\ i.pc = p /\ p \in Nodes /\ program[p].kind = "body" /\ u = program[p].in
  /\ x = EndOf(p) + 1 /\ Runs(p) /\ (\A k \in Nodes : program[k].in = p /\ IsOpener(program[k]) => Runs(k))
  /\ top \in ValueSet /\ (IsSubclass(p) => IsClassValue(i, top)) /\ IsNewClass(i, p, e, top, class)

\* What the steps below use of the new state.
ClassAdded(i, p, e, u, x, top, class, q) ==
  /\ IsInterpreter(q) /\ Grows(i, q) /\ SameSizes(i, q, e) /\ SlotFits(i, e, program[p].name)
  /\ q.environment = i.environment /\ q.stack = i.stack /\ q.values = i.values /\ q.status = i.status /\ q.pc = x
  /\ \A k \in 1 .. Len(i.envs) : k # e => q.envs[k] = i.envs[k]
  /\ e # globals => q.envs[e] = [i.envs[e] EXCEPT !.slots = Append(@, SlotFor(program[p].name, Object(Len(i.objects) + 1)))]
                    /\ q.globals = i.globals
  /\ e = globals => q.globals = Assigned(i.globals, program[p].name, Object(Len(i.objects) + 1)) /\ q.envs[e] = i.envs[e]
  /\ IsSubclass(p) => Len(q.envs) = Len(i.envs) + 1 /\ q.envs[Len(i.envs) + 1] = SuperEnv(p, e, top)
  /\ ~IsSubclass(p) => Len(q.envs) = Len(i.envs)
  /\ Len(q.objects) = Len(i.objects) + 1 /\ q.objects[Len(i.objects) + 1] = class
  /\ \A id \in 1 .. Len(i.objects) : q.objects[id] = i.objects[id]
  /\ u # 0 => UpTo(u, Len(q.envs[e].slots), x)
LEMMA ClassAdds ==
  ASSUME GoodLine, NEW i, NEW p, NEW e, NEW u, NEW x, NEW top, NEW class, ClassGiven(i, p, e, u, x, top, class),
         NEW q, ClassDefined(i, p, e, top, class, x, q)
  PROVE  ClassAdded(i, p, e, u, x, top, class, q)
<1>1. /\ HeapOK(i) /\ IsInterpreter(i) /\ Grows(i, i) /\ At(i, e, p, u) /\ p \in Nodes /\ u = program[p].in /\ IsOpener(program[p])
      /\ program[p].kind = "body" /\ top \in ValueSet /\ TextIsPlaced
  BY DEF ClassGiven, HeapOK, IsOpener, Openers, GoodLine
<1>2. e \in 1 .. Len(i.envs) /\ e \in Nat /\ p \in Nat /\ Len(i.envs) \in Nat /\ Len(i.objects) \in Nat
  <2>1. e \in 1 .. Len(i.envs) /\ Len(i.envs) \in Nat /\ Len(i.objects) \in Nat
    BY <1>1, InterpreterIs DEF At
  <2>. QED BY <1>1, <2>1, AtIn
<1>3. IsEndOf(EndOf(p), p) /\ IsNext(p, x) /\ x \in Nat
  BY <1>1, NextAfterEnd DEF IsNext, ClassGiven
<1>4. PICK name : name = program[p].name
  OBVIOUS
<1>5. name \in NameSet
  BY <1>1, <1>4, NamesTyped
<1>6. PICK r : r = MadeOf(i, p, e, top, class, x)
  OBVIOUS
<1>7. ClassMadeIn(i, p, e, top, class, x, r)
  BY <1>1, <1>2, <1>3, <1>6, ClassMade
<1>8. OnlyGlobal(i, e) /\ (u # 0 => e # globals)
  BY <1>1, OutOfGlobals
<1>9. IsInterpreter(r) /\ Grows(i, r) /\ r.envs[e] = i.envs[e] /\ r.globals = i.globals
      /\ (\A k \in 1 .. Len(i.envs) : r.envs[k] = i.envs[k]) /\ Len(r.envs) \in Nat
  BY <1>2, <1>7, InterpreterIs DEF ClassMadeIn, SuperAdded
<1>10. OnlyGlobal(r, e)
  BY <1>8, <1>9 DEF OnlyGlobal
<1>11. At(r, e, p, u)
  <2>1. SameSizes(i, r, e + 1)
    BY <1>9 DEF SameSizes
  <2>2. e < e + 1
    BY <1>2
  <2>. QED BY <1>1, <1>9, <2>1, <2>2, AtKept
<1>12. NextIs(p, u, x, name)
  <2> SUFFICES ASSUME u # 0
               PROVE  \E v \in Nodes : OneDone(u, v, p, x) /\ program[v].name = name
    BY DEF NextIs
  <2>1. x = EndOf(p) + 1
    BY DEF ClassGiven
  <2>. QED BY <1>1, <1>3, <1>4, <2>1, BodyDone
<1>13. PICK v : v = Object(Len(i.objects) + 1)
  OBVIOUS
<1>14. v \in ValueSet
  <2>1. Object(Len(i.objects) + 1) \in ObjectValues
    BY <1>2, ValueTypes
  <2>. QED BY <1>13, <2>1 DEF ValueSet
<1>15. Len(r.objects) = Len(i.objects) + 1
  BY <1>7 DEF ClassMadeIn
<1>16. q = Define(r, e, name, v)
  BY <1>4, <1>6, <1>13, <1>15 DEF ClassDefined
<1>17. /\ Adds(r, e, name, v, q) /\ SameSizes(r, q, e) /\ SlotFits(r, e, name)
       /\ u # 0 => UpTo(u, Len(q.envs[e].slots), x)
  BY <1>1, <1>5, <1>8, <1>9, <1>10, <1>11, <1>12, <1>14, <1>16, SlotGoes
<1>18. /\ IsInterpreter(q) /\ Grows(r, q) /\ SameControl(r, q) /\ q.objects = r.objects /\ Len(q.envs) = Len(r.envs)
       /\ (\A k \in 1 .. Len(r.envs) : k # e => q.envs[k] = r.envs[k])
       /\ (e = globals => q.envs = r.envs /\ q.globals = Assigned(r.globals, name, v))
       /\ (e # globals => q.globals = r.globals /\ q.envs[e] = [r.envs[e] EXCEPT !.slots = Append(@, SlotFor(name, v))])
  BY <1>17 DEF Adds
<1>19. Grows(i, q)
  BY <1>1, <1>9, <1>18, GrowsMore
<1>20. SlotFits(i, e, name)
  BY <1>9, <1>17 DEF SlotFits
<1>21. Len(i.envs) <= Len(r.envs) /\ \A k \in 1 .. Len(i.envs) : k \in 1 .. Len(r.envs)
  <2>1. Len(i.envs) <= Len(r.envs)
    BY <1>9 DEF Grows
  <2>. QED BY <1>2, <1>9, <2>1
<1>22. SameSizes(i, q, e)
  BY <1>9, <1>17, <1>21 DEF SameSizes
<1>23. \A k \in 1 .. Len(i.envs) : k # e => q.envs[k] = i.envs[k]
  BY <1>9, <1>18, <1>21
<1>24. IsSubclass(p) => Len(q.envs) = Len(i.envs) + 1 /\ q.envs[Len(i.envs) + 1] = SuperEnv(p, e, top)
  <2> SUFFICES ASSUME IsSubclass(p)
               PROVE  Len(q.envs) = Len(i.envs) + 1 /\ q.envs[Len(i.envs) + 1] = SuperEnv(p, e, top)
    OBVIOUS
  <2>1. Len(r.envs) = Len(i.envs) + 1 /\ r.envs[Len(i.envs) + 1] = SuperEnv(p, e, top)
    BY <1>7 DEF ClassMadeIn, SuperAdded
  <2>2. Len(i.envs) + 1 \in 1 .. Len(r.envs) /\ Len(i.envs) + 1 # e
    BY <1>2, <2>1
  <2>. QED BY <1>18, <2>1, <2>2
<1>25. ~IsSubclass(p) => Len(q.envs) = Len(i.envs)
  BY <1>7, <1>18 DEF ClassMadeIn, SuperAdded
<1>26. /\ q.environment = i.environment /\ q.stack = i.stack /\ q.values = i.values /\ q.status = i.status /\ q.pc = x
       /\ Len(q.objects) = Len(i.objects) + 1 /\ q.objects[Len(i.objects) + 1] = class
       /\ \A id \in 1 .. Len(i.objects) : q.objects[id] = i.objects[id]
  BY <1>7, <1>18 DEF ClassMadeIn, SameControl
<1>27. /\ e # globals => q.envs[e] = [i.envs[e] EXCEPT !.slots = Append(@, SlotFor(name, v))] /\ q.globals = i.globals
       /\ e = globals => q.globals = Assigned(i.globals, name, v) /\ q.envs[e] = i.envs[e]
  BY <1>9, <1>18
<1>. QED BY <1>4, <1>13, <1>17, <1>18, <1>19, <1>20, <1>22, <1>23, <1>24, <1>25, <1>26, <1>27 DEF ClassAdded

\* The scope around the methods of a class.
Closure(i, p, e) == IF IsSubclass(p) THEN Len(i.envs) + 1 ELSE e
LEMMA ClosureStands ==
  ASSUME GoodLine, NEW i, NEW p, NEW e, NEW u, NEW x, NEW top, NEW class, ClassGiven(i, p, e, u, x, top, class),
         NEW q, ClassAdded(i, p, e, u, x, top, class, q)
  PROVE  /\ Stands(q, e, InnerScope(u), p)
         /\ Stands(q, Closure(i, p, e), Beyond(<<p, "this">>), p)
<1>1. /\ IsInterpreter(i) /\ IsInterpreter(q) /\ Grows(i, q) /\ At(i, e, p, u) /\ p \in Nodes /\ u = program[p].in /\ IsOpener(program[p])
      /\ x = EndOf(p) + 1 /\ (u # 0 => UpTo(u, Len(q.envs[e].slots), x)) /\ Len(i.envs) \in Nat
  BY InterpreterIs DEF ClassGiven, ClassAdded, HeapOK, IsOpener, Openers
<1>2. Stands(q, e, InnerScope(u), p)
  BY <1>1, DeclaredStands
<1>3. PICK s : s = <<p, "this">>
  OBVIOUS
<1>4. s[1] = p /\ s[2] = "this"
  BY <1>3
<1>5. CASE ~IsSubclass(p)
  BY <1>1, <1>2, <1>3, <1>4, <1>5 DEF Closure, Beyond
<1>6. CASE IsSubclass(p)
  <2>1. PICK k : k = Len(i.envs) + 1
    OBVIOUS
  <2>2. PICK w : w = <<p, "super">>
    OBVIOUS
  <2>3. k \in 1 .. Len(q.envs) /\ q.envs[k].scope = w /\ Len(q.envs[k].slots) = 1
    BY <1>1, <1>6, <2>1, <2>2 DEF ClassAdded, SuperEnv
  <2>4. Len(Declarations(w)) = 1
    BY <2>2 DEF Declarations
  <2>5. Beyond(s) = w
    BY <1>4, <1>6, <2>2 DEF Beyond
  <2>6. Stands(q, k, w, p)
    BY <2>3, <2>4 DEF Stands
  <2>. QED BY <1>2, <1>3, <1>6, <2>1, <2>5, <2>6 DEF Closure
<1>. QED BY <1>5, <1>6

LEMMA NewClassOK ==
  ASSUME GoodLine, NEW i, NEW p, NEW e, NEW u, NEW x, NEW top, NEW class, ClassGiven(i, p, e, u, x, top, class),
         NEW q, ClassAdded(i, p, e, u, x, top, class, q)
  PROVE  ObjectOK(q, Len(i.objects) + 1)
<1>1. IsInterpreter(i) /\ IsInterpreter(q) /\ Len(i.objects) \in Nat
  BY InterpreterIs DEF ClassGiven, ClassAdded, HeapOK
<1>2. PICK closure : closure = Closure(i, p, e)
  OBVIOUS
<1>3. Stands(q, closure, Beyond(<<p, "this">>), p)
  BY <1>2, ClosureStands
<1>4. /\ class.isClass /\ class.fields = <<>>
      /\ class \in [isClass : {TRUE}, superclass : Nat, methods : {class.methods}, classMethods : {class.classMethods}, fields : {<<>>}]
      /\ class.superclass = IF IsSubclass(p) THEN top.id ELSE 0
      /\ MethodsFrom(class.methods, p, closure) /\ MethodsFrom(class.classMethods, p, closure)
  BY <1>2 DEF ClassGiven, IsNewClass, Closure
<1>5. ASSUME NEW map, MethodsFrom(map, p, closure)
      PROVE  MethodsOK(q, map)
  <2> SUFFICES ASSUME NEW name \in DOMAIN map
               PROVE  MethodOK(q, map[name])
    BY DEF MethodsOK
  <2>1. PICK f : f = map[name]
    OBVIOUS
  <2>2. f \in FunctionValues /\ f.closure = closure /\ f.declaration \in Nodes /\ program[f.declaration].kind = "method"
        /\ program[f.declaration].in = p
    BY <1>5, <2>1 DEF MethodsFrom
  <2>3. Runs(f.declaration)
    BY <2>2 DEF ClassGiven, IsOpener, Openers
  <2>4. f.declaration < Known
    <3>1. Len(program) \in Nat
      BY DEF GoodLine, TextIsPlaced, Placed
    <3>2. f.declaration < Len(program) + 1
      BY <2>2, <3>1 DEF Nodes
    <3>. QED BY <3>2 DEF Known, GoodLine
  <2>. QED BY <1>3, <2>1, <2>2, <2>3, <2>4 DEF MethodOK
<1>6. class.superclass \in 0 .. Len(i.objects) /\ (class.superclass # 0 => i.objects[class.superclass].isClass)
  <2>1. CASE IsSubclass(p)
    <3>1. IsClassValue(i, top)
      BY <2>1 DEF ClassGiven
    <3>. QED BY <1>1, <1>4, <2>1, <3>1 DEF IsClassValue
  <2>2. CASE ~IsSubclass(p)
    BY <1>1, <1>4, <2>2
  <2>. QED BY <2>1, <2>2
<1>7. class.superclass < Len(i.objects) + 1
  BY <1>1, <1>6
<1>8. class.superclass # 0 => q.objects[class.superclass].isClass
  <2>1. class.superclass # 0 => class.superclass \in 1 .. Len(i.objects)
    BY <1>1, <1>6
  <2>. QED BY <1>6, <2>1 DEF ClassAdded
<1>9. q.objects[Len(i.objects) + 1] = class
  BY DEF ClassAdded
<1>10. IsClassObject(q, class, Len(i.objects) + 1)
  BY <1>4, <1>5, <1>7, <1>8 DEF IsClassObject
<1>11. AllOK(q, class.fields)
  BY <1>4 DEF AllOK
<1>. QED BY <1>9, <1>10, <1>11 DEF ObjectOK

LEMMA SuperEnvOK ==
  ASSUME GoodLine, NEW i, NEW p, NEW e, NEW u, NEW x, NEW top, NEW class, ClassGiven(i, p, e, u, x, top, class), IsSubclass(p),
         NEW q, ClassAdded(i, p, e, u, x, top, class, q)
  PROVE  EnvOK(q, Len(i.envs) + 1)
<1>1. IsInterpreter(i) /\ IsInterpreter(q) /\ Grows(i, q) /\ Len(i.envs) \in Nat /\ p \in Nodes /\ program[p].kind = "body"
      /\ Placed(program) /\ u = program[p].in /\ IsClassValue(i, top) /\ IsOpener(program[p])
  BY InterpreterIs DEF ClassGiven, ClassAdded, HeapOK, GoodLine, TextIsPlaced, IsOpener, Openers
<1>2. p \in Nat /\ p < Known
  <2>1. Len(program) \in Nat
    BY <1>1 DEF Placed
  <2>. QED BY <1>1, <2>1 DEF Nodes, Known, GoodLine
<1>3. PICK env : env = SuperEnv(p, e, top)
  OBVIOUS
<1>4. q.envs[Len(i.envs) + 1] = env
  BY <1>3 DEF ClassAdded
<1>5. PICK w : w = <<p, "super">>
  OBVIOUS
<1>6. env.scope = w /\ env.enclosing = e /\ Len(env.slots) = 1 /\ env.slots[1].name = "super" /\ env.slots[1].value = top
  BY <1>3, <1>5 DEF SuperEnv, SlotFor
<1>7. w[1] = p /\ w[2] = "super" /\ w \in ScopeSet
  BY <1>2, <1>5 DEF ScopeSet
<1>8. IsScope(w)
  BY <1>1, <1>7 DEF IsScope
<1>9. Beyond(w) = InnerScope(u)
  BY <1>1, <1>7 DEF Beyond
<1>10. Stands(q, e, InnerScope(u), p)
  BY ClosureStands
<1>11. Len(Declarations(w)) = 1 /\ Declarations(w)[1].name = "super"
  BY <1>5 DEF Declarations
<1>12. IsClassValue(q, top) /\ ValueOK(q, top)
  <2>1. IsClassValue(q, top)
    BY <1>1, ValuesGrow
  <2>. QED BY <2>1, ValueTypes
<1>13. EnvFits(q, env)
  BY <1>2, <1>6, <1>7, <1>8, <1>9, <1>10, <1>11, <1>12 DEF EnvFits
<1>14. e < Len(i.envs) + 1
  <2>1. e \in 1 .. Len(i.envs)
    BY DEF ClassGiven, At
  <2>. QED BY <1>1, <2>1
<1>. QED BY <1>4, <1>6, <1>13, <1>14 DEF EnvOK

LEMMA ClassHeap ==
  ASSUME GoodLine, NEW i, NEW p, NEW e, NEW u, NEW x, NEW top, NEW class, ClassGiven(i, p, e, u, x, top, class),
         NEW q, ClassAdded(i, p, e, u, x, top, class, q)
  PROVE  HeapOK(q)
<1>1. HeapOK(i) /\ IsInterpreter(i) /\ IsInterpreter(q) /\ Grows(i, q) /\ Len(i.envs) \in Nat /\ Len(i.objects) \in Nat /\ Len(i.envs) >= 1
      /\ e \in 1 .. Len(i.envs)
  BY InterpreterIs DEF ClassGiven, ClassAdded, HeapOK, At
<1>2. PICK v : v = Object(Len(i.objects) + 1)
  OBVIOUS
<1>3. Len(q.objects) = Len(i.objects) + 1 /\ \A id \in 1 .. Len(i.objects) : q.objects[id] = i.objects[id]
  BY DEF ClassAdded
<1>4. ValueOK(q, v)
  <2>1. v \in ObjectValues /\ v.id = Len(i.objects) + 1
    BY <1>1, <1>2, ValueTypes
  <2>2. Len(i.objects) + 1 \in 1 .. Len(q.objects)
    BY <1>1, <1>3
  <2>. QED BY <2>1, <2>2 DEF ValueOK
<1>5. e # globals => EnvOK(q, e)
  <2> SUFFICES ASSUME e # globals
               PROVE  EnvOK(q, e)
    OBVIOUS
  <2>1. PICK d : d = Declarations(i.envs[e].scope)
    OBVIOUS
  <2>2. PICK n : n = Len(i.envs[e].slots)
    OBVIOUS
  <2>3. PICK name : name = program[p].name
    OBVIOUS
  <2>4. i.envs[e].scope[2] = "block" /\ n + 1 <= Len(d) /\ d[n + 1].name = name /\ Len(d) \in Nat
    BY <2>1, <2>2, <2>3 DEF ClassAdded, SlotFits
  <2>5. q.envs[e] = [i.envs[e] EXCEPT !.slots = Append(@, SlotFor(name, v))]
    BY <1>2, <2>3 DEF ClassAdded
  <2>. QED BY <1>1, <1>4, <2>1, <2>2, <2>4, <2>5, SlotGained
<1>6. \A k \in 2 .. Len(q.envs) : (k <= Len(i.envs) /\ q.envs[k] = i.envs[k]) \/ EnvOK(q, k)
  <2> SUFFICES ASSUME NEW k \in 2 .. Len(q.envs)
               PROVE  (k <= Len(i.envs) /\ q.envs[k] = i.envs[k]) \/ EnvOK(q, k)
    OBVIOUS
  <2>1. CASE k <= Len(i.envs) /\ k # e
    <3>1. k \in 1 .. Len(i.envs)
      BY <1>1, <2>1
    <3>. QED BY <2>1, <3>1 DEF ClassAdded
  <2>2. CASE k = e
    <3>1. e # globals
      BY <2>2 DEF globals
    <3>. QED BY <1>5, <2>2, <3>1
  <2>3. CASE k > Len(i.envs)
    <3>1. IsSubclass(p)
      <4>1. ~IsSubclass(p) => Len(q.envs) = Len(i.envs)
        BY DEF ClassAdded
      <4>. QED BY <1>1, <2>3, <4>1
    <3>2. Len(q.envs) = Len(i.envs) + 1
      BY <3>1 DEF ClassAdded
    <3>3. k = Len(i.envs) + 1
      BY <1>1, <2>3, <3>2
    <3>. QED BY <3>1, <3>3, SuperEnvOK
  <2>. QED BY <1>1, <2>1, <2>2, <2>3
<1>7. \A id \in 1 .. Len(q.objects) : (id <= Len(i.objects) /\ q.objects[id] = i.objects[id]) \/ ObjectOK(q, id)
  <2>1. ObjectOK(q, Len(i.objects) + 1)
    BY NewClassOK
  <2>2. \A id \in 1 .. Len(i.objects) + 1 : id \in 1 .. Len(i.objects) \/ id = Len(i.objects) + 1
    BY <1>1
  <2>3. \A id \in 1 .. Len(i.objects) : id <= Len(i.objects)
    BY <1>1
  <2>. QED BY <1>3, <2>1, <2>2, <2>3
<1>8. q.envs[1] = i.envs[1]
  <2>1. 1 \in 1 .. Len(i.envs)
    BY <1>1
  <2>. QED BY <2>1 DEF ClassAdded, globals
<1>9. q.globals = i.globals \/ AllOK(q, q.globals)
  <2>1. CASE e # globals
    BY <2>1 DEF ClassAdded
  <2>2. CASE e = globals
    <3>1. q.globals = Assigned(i.globals, program[p].name, v)
      BY <1>2, <2>2 DEF ClassAdded
    <3>2. AllOK(i, i.globals)
      BY <1>1 DEF HeapOK
    <3>. QED BY <1>1, <1>4, <3>1, <3>2, AssignedIs
  <2>. QED BY <2>1, <2>2
<1>. QED BY <1>1, <1>6, <1>7, <1>8, <1>9, HeapKept

StandsAt(i, e) == Standing(i) /\ i.values = <<>> /\ e = i.environment
LEMMA ClassRuns ==
  ASSUME GoodLine, NEW i, NEW p, NEW e, NEW u, NEW x, NEW top, NEW class, StandsAt(i, e),
         ClassGiven(i, p, e, u, x, top, class), NEW q, ClassDefined(i, p, e, top, class, x, q)
  PROVE  Running(q) /\ q.status = i.status
<1>a. Standing(i) /\ i.values = <<>> /\ e = i.environment
  BY DEF StandsAt
<1>1. ClassAdded(i, p, e, u, x, top, class, q)
  BY ClassAdds
<1>2. HeapOK(q)
  BY <1>1, ClassHeap
<1>3. p \in Nodes /\ p = i.pc /\ IsOpener(program[p]) /\ u = program[p].in /\ x = EndOf(p) + 1
  BY DEF ClassGiven, IsOpener, Openers
<1>4. IsNext(p, x)
  BY <1>3, NextAfterEnd
<1>5. /\ Grows(i, q) /\ SameSizes(i, q, e) /\ q.environment = e /\ q.stack = i.stack /\ q.pc = x /\ q.values = <<>>
      /\ q.status = i.status /\ (program[p].in # 0 => UpTo(program[p].in, Len(q.envs[e].slots), x))
  BY <1>a, <1>1, <1>3 DEF ClassAdded
<1>6. Running(q)
  BY <1>a, <1>2, <1>3, <1>4, <1>5, DeclaredRuns
<1>. QED BY <1>5, <1>6

LEMMA MethodsComeFrom ==
  ASSUME GoodLine, NEW p \in Nodes, p = interp.pc, NEW onTheClass, NEW closure \in Nat, NEW map, map = Methods(onTheClass, closure)
  PROVE  MethodsFrom(map, p, closure)
<1>1. ASSUME NEW name \in DOMAIN map
      PROVE  /\ map[name] \in FunctionValues /\ map[name].closure = closure
             /\ map[name].declaration \in Nodes /\ program[map[name].declaration].kind = "method"
             /\ program[map[name].declaration].in = p
  BY <1>1, MethodsAre
<1>. QED BY <1>1 DEF MethodsFrom

NewClass(p, top, closure) == newLoxClass(IF IsSubclass(p) THEN top.id ELSE 0, Methods(FALSE, closure), Methods(TRUE, closure))
LEMMA NewClassIs ==
  ASSUME GoodLine, NEW m, IsInterpreter(m), NEW p \in Nodes, p = interp.pc, NEW e \in Nat, NEW top, IsSubclass(p) => IsClassValue(m, top),
         NEW closure, closure = Closure(m, p, e), NEW class, class = NewClass(p, top, closure)
  PROVE  IsNewClass(m, p, e, top, class)
<1>1. closure \in Nat
  BY InterpreterIs DEF Closure
<1>2. PICK instances, statics : instances = Methods(FALSE, closure) /\ statics = Methods(TRUE, closure)
  OBVIOUS
<1>3. MethodsFrom(instances, p, closure) /\ MethodsFrom(statics, p, closure)
  <2>1. PICK no, yes : no = FALSE /\ yes = TRUE
    OBVIOUS
  <2>2. instances = Methods(no, closure) /\ statics = Methods(yes, closure)
    BY <1>2, <2>1
  <2>3. MethodsFrom(instances, p, closure)
    BY <1>1, <2>2, MethodsComeFrom
  <2>4. MethodsFrom(statics, p, closure)
    BY <1>1, <2>2, MethodsComeFrom
  <2>. QED BY <2>3, <2>4
<1>4. PICK above : above = IF IsSubclass(p) THEN top.id ELSE 0
  OBVIOUS
<1>5. above \in Nat
  BY <1>4, ValueTypes
<1>6. class = [isClass |-> TRUE, superclass |-> above, methods |-> instances, classMethods |-> statics, fields |-> <<>>]
  BY <1>2, <1>4 DEF NewClass, newLoxClass
<1>7. /\ class.isClass /\ class.fields = <<>> /\ class.superclass = above /\ class.methods = instances /\ class.classMethods = statics
      /\ class \in [isClass : {TRUE}, superclass : Nat, methods : {class.methods}, classMethods : {class.classMethods}, fields : {<<>>}]
  BY <1>5, <1>6
<1>. QED BY <1>3, <1>4, <1>7 DEF IsNewClass, Closure

LEMMA BodyFine ==
  ASSUME GoodLine, Fine(interp), Executing({"body"}), Class
  PROVE  Fine(interp')
<1>1. Running(interp) /\ interp.status = "running" /\ interp.pc \in Nodes /\ program[interp.pc].kind = "body" /\ Standing(interp)
      /\ HeapOK(interp) /\ IsInterpreter(interp) /\ TextIsPlaced
  BY ExecutingIs DEF Running, Standing, HeapOK, GoodLine
<1>2. PICK p : p = interp.pc
  OBVIOUS
<1>3. PICK e : e = interp.environment
  OBVIOUS
<1>4. PICK m : m = Emptied(interp)
  OBVIOUS
<1>5. PICK top : top = IF IsSubclass(p) THEN Operand(0) ELSE Nil
  OBVIOUS
<1>6. PICK x : x = EndOf(p) + 1
  OBVIOUS
<1>7. PICK a : a = Above(m, p, e, top)
  OBVIOUS
<1>8. PICK closure : closure = IF IsSubclass(p) THEN Len(a.envs) ELSE e
  OBVIOUS
<1>9. PICK class : class = NewClass(p, top, closure)
  OBVIOUS
<1>10. PICK r : r = OnTo(WithObject(a, class), x)
  OBVIOUS
<1>11. ~IsSubclass(p) => interp = m
  <2> SUFFICES ASSUME ~IsSubclass(p)
               PROVE  interp = m
    OBVIOUS
  <2>1. Pops(program[interp.pc]) = 0 /\ program[interp.pc].kind \notin Expressions
    BY <1>1, <1>2 DEF Pops, IsSubclass, Expressions
  <2>2. interp.values = <<>>
    BY <1>1, <2>1, NothingWaits
  <2>. QED BY <1>1, <1>4, <2>2 DEF Emptied, IsInterpreter
<1>12. IsSubclass(p) => Without(1) = m /\ ValueOK(interp, Operand(0))
  <2> SUFFICES ASSUME IsSubclass(p)
               PROVE  Without(1) = m /\ ValueOK(interp, Operand(0))
    OBVIOUS
  <2>1. Pops(program[interp.pc]) = 1 /\ program[interp.pc].kind \notin Expressions
    BY <1>1, <1>2 DEF Pops, IsSubclass, Expressions
  <2>2. Without(1) = m
    BY <1>1, <1>4, <2>1, StatementPops DEF Without, Emptied
  <2>3. ValueOK(interp, Operand(0))
    BY <1>1, <2>1, TopIsThere DEF Operand
  <2>. QED BY <2>2, <2>3
<1>13. interp' = IF IsSubclass(p) /\ ~IsClass(interp, Operand(0)) THEN failWith(interp)
                 ELSE Define(r, e, program[p].name, Object(Len(r.objects)))
  <2>1. a = IF IsSubclass(p) THEN NewEnvironment(Without(1), e, <<p, "super">>, <<SlotFor("super", Operand(0))>>) ELSE interp
    BY <1>5, <1>7, <1>11, <1>12 DEF Above
  <2>2. class = newLoxClass(IF IsSubclass(p) THEN Operand(0).id ELSE 0, Methods(FALSE, closure), Methods(TRUE, closure))
    BY <1>5, <1>9 DEF NewClass
  <2>3. r = [a EXCEPT !.objects = Append(@, class), !.pc = x]
    BY <1>10 DEF OnTo, WithObject
  <2>4. ~Executing({"class"})
    BY <1>1 DEF Executing, Current
  <2>. QED BY <1>2, <1>3, <1>6, <1>8, <2>1, <2>2, <2>3, <2>4 DEF Class, Executed, Current
<1>14. CASE IsSubclass(p) /\ ~IsClass(interp, Operand(0))
  <2>1. interp' = failWith(interp)
    BY <1>13, <1>14
  <2>. QED BY <1>1, <2>1, FailsFine
<1>15. CASE ~(IsSubclass(p) /\ ~IsClass(interp, Operand(0)))
  <2>1. /\ HeapOK(m) /\ Grows(interp, m) /\ SameHeap(interp, m) /\ m.values = <<>>
        /\ m.environment = e /\ m.stack = interp.stack /\ m.pc = p /\ m.status = interp.status
    BY <1>1, <1>2, <1>3, <1>4, EmptiedIs
  <2>2. Standing(m) /\ IsInterpreter(m) /\ Grows(m, m)
    <3>1. SameSizes(interp, m, interp.environment + 1)
      BY <2>1 DEF SameHeap, SameSizes
    <3>2. Standing(m)
      BY <1>1, <1>2, <1>3, <2>1, <3>1, StandingKept
    <3>3. Grows(m, m)
      BY <2>1 DEF Grows, SameHeap
    <3>. QED BY <2>1, <3>2, <3>3 DEF HeapOK
  <2>3. PICK u : u = InnerOf(m.stack, Len(m.stack))
    OBVIOUS
  <2>4. At(m, e, p, u)
    BY <2>1, <2>2, <2>3 DEF Standing
  <2>5. u = program[p].in /\ p \in Nodes /\ p \in Nat
    BY <1>1, <1>2, <2>4, AtIn
  <2>6. e \in Nat
    BY <1>1, <1>3, InterpreterIs
  <2>7. top \in ValueSet /\ (IsSubclass(p) => IsClassValue(m, top))
    <3>1. CASE IsSubclass(p)
      <4>1. ValueOK(interp, top) /\ IsClass(interp, top) /\ top = Operand(0)
        BY <1>5, <1>12, <1>15, <3>1
      <4>2. IsClassValue(interp, top)
        BY <4>1, ValueTypes DEF IsClassValue, IsClass
      <4>. QED BY <1>1, <2>1, <2>2, <4>1, <4>2, ValueTypes, ValuesGrow
    <3>2. CASE ~IsSubclass(p)
      BY <1>5, <3>2 DEF ValueSet
    <3>. QED BY <3>1, <3>2
  <2>8. closure = Closure(m, p, e)
    <3>1. SuperAdded(m, p, e, top, a)
      BY <1>7, <2>2, <2>5, <2>6, <2>7, AboveIs
    <3>. QED BY <1>8, <3>1 DEF Closure, SuperAdded
  <2>9. IsNewClass(m, p, e, top, class)
    BY <1>2, <1>9, <2>2, <2>5, <2>6, <2>7, <2>8, NewClassIs
  <2>10. Runs(p) /\ \A k \in Nodes : program[k].in = p /\ IsOpener(program[k]) => Runs(k)
    BY <1>1, <1>2, RunsInside DEF IsOpener, Openers
  <2>11. ClassGiven(m, p, e, u, x, top, class)
    BY <1>1, <1>2, <1>6, <2>1, <2>2, <2>4, <2>5, <2>7, <2>9, <2>10 DEF ClassGiven
  <2>12. PICK q : q = Define(r, e, program[p].name, Object(Len(r.objects)))
    OBVIOUS
  <2>13. ClassDefined(m, p, e, top, class, x, q)
    BY <1>7, <1>10, <2>12 DEF ClassDefined, MadeOf
  <2>14. Running(q) /\ q.status = m.status
    <3>1. StandsAt(m, e)
      BY <2>1, <2>2 DEF StandsAt
    <3>. QED BY <3>1, <2>11, <2>13, ClassRuns
  <2>15. interp' = q
    BY <1>13, <1>15, <2>12
  <2>16. Fine(q)
    BY <1>1, <2>1, <2>14, RunsFine
  <2>. QED BY <2>15, <2>16
<1>. QED BY <1>14, <1>15

LEMMA SimpleStepFine ==
  ASSUME GoodLine, Fine(interp), Literal \/ Expression \/ Bare \/ Variable \/ This \/ Var \/ Function \/ Block \/ Skip \/ Get \/ Set
  PROVE  Fine(interp')
<1>1. PICK q : q = interp'
  OBVIOUS
<1>2. CASE Literal
  BY <1>1, <1>2, LiteralFine DEF Literal, Executed
<1>3. CASE Expression
  <2>1. Executing({"expression", "bare"}) /\ q = Past(Without(1))
    BY <1>1, <1>3 DEF Expression, Executed, Executing
  <2>. QED BY <1>1, <2>1, ExpressionFine
<1>4. CASE Bare
  <2>1. Executing({"expression", "bare"}) /\ q = Past(Without(1))
    BY <1>1, <1>4 DEF Bare, Executed, Executing
  <2>. QED BY <1>1, <2>1, ExpressionFine
<1>5. CASE Variable
  BY <1>1, <1>5, VariableFine DEF Variable, Executed
<1>6. CASE This
  BY <1>1, <1>6, ThisFine DEF This, Executed
<1>7. CASE Var
  <2>1. CASE Executing({"var"}) /\ q = Past(interp)
    <3>1. Executing({"var", "class"})
      BY <2>1 DEF Executing
    <3>. QED BY <1>1, <2>1, <3>1, BeginFine
  <2>2. CASE Executing({"define"}) /\ q = Past(Define(Without(1), interp.environment, Current.name, Operand(0)))
    BY <1>1, <2>2, DefineFine
  <2>. QED BY <1>1, <1>7, <2>1, <2>2 DEF Var, Executed
<1>8. CASE Function
  BY <1>1, <1>8, FunctionFine DEF Function, Executed
<1>9. CASE Block
  BY <1>1, <1>9, BlockFine DEF Block, Executed
<1>10. CASE Skip
  BY <1>1, <1>10, SkipFine DEF Skip, Executed
<1>11. CASE Get
  BY <1>1, <1>11, GetFine DEF Get, Executed
<1>12. CASE Set
  <2>1. \/ Executing({"target"}) /\ q = IF IsObject(Operand(0)) THEN Past(interp) ELSE failWith(interp)
        \/ /\ Executing({"set"})
           /\ q = Result([Without(2) EXCEPT !.objects[Operand(1).id].fields = Assigned(@, Current.name, Operand(0))], Operand(0))
    BY <1>1, <1>12 DEF Set, Executed
  <2>. QED BY <1>1, <2>1, TargetFine, SetFine
<1>. QED BY <1>2, <1>3, <1>4, <1>5, <1>6, <1>7, <1>8, <1>9, <1>10, <1>11, <1>12

LEMMA ClassFine ==
  ASSUME GoodLine, Fine(interp), Class
  PROVE  Fine(interp')
<1>1. CASE Executing({"body"})
  BY <1>1, BodyFine
<1>2. CASE ~Executing({"body"})
  <2>1. PICK q : q = interp'
    OBVIOUS
  <2>2. Executing({"class"}) /\ q = Past(interp)
    BY <1>2, <2>1 DEF Class, Executed
  <2>3. Executing({"var", "class"})
    BY <2>2 DEF Executing
  <2>. QED BY <2>1, <2>2, <2>3, BeginFine
<1>. QED BY <1>1, <1>2

LEMMA LeavingFine ==
  ASSUME GoodLine, Fine(interp), End \/ Return \/ Assign
  PROVE  Fine(interp')
<1>1. PICK q : q = interp'
  OBVIOUS
<1>2. CASE End
  <2>1. PICK n : n = Len(interp.stack)
    OBVIOUS
  <2>2. PICK frame : frame = interp.stack[n]
    OBVIOUS
  <2>3. Executing({"end"})
    BY <1>2 DEF End
  <2>4. q = IF IsCall(frame) THEN Returned(interp, n, Nil)
            ELSE [interp EXCEPT !.environment = frame.previous, !.stack = Front(@),
                                !.pc = IF program[frame.opener].kind = "while" THEN frame.opener ELSE @ + 1]
    BY <1>1, <1>2, <2>1, <2>2 DEF End, Executed
  <2>. QED BY <1>1, <2>1, <2>2, <2>3, <2>4, EndFine
<1>3. CASE Return
  <2>1. PICK calls : calls = {n \in DOMAIN interp.stack : IsCall(interp.stack[n])}
    OBVIOUS
  <2>2. PICK value : value = IF Current.n = 1 THEN Operand(0) ELSE Nil
    OBVIOUS
  <2>3. Executing({"return"})
    BY <1>3 DEF Return
  <2>4. q = IF calls = {} THEN Crash(interp) ELSE Returned(interp, Max(calls), value)
    BY <1>1, <1>3, <2>1, <2>2 DEF Return, Executed
  <2>. QED BY <1>1, <2>1, <2>2, <2>3, <2>4, ReturnFine
<1>4. CASE Assign
  <2>1. Executing({"assign"}) /\ q = AssignedTo(interp, program[interp.pc].name, interp.values[Len(interp.values) - 0])
    BY <1>1, <1>4 DEF Assign, Executed, AssignedTo, Resolved, Slot, Operand, Current
  <2>2. Running(interp) /\ interp.status = "running" /\ interp.pc \in Nodes /\ program[interp.pc].kind = "assign"
    BY <2>1, ExecutingIs
  <2>. QED BY <1>1, <2>1, <2>2, AssignFine
<1>. QED BY <1>2, <1>3, <1>4

LEMMA CallingFine ==
  ASSUME GoodLine, Fine(interp), CallExpr \/ Super
  PROVE  Fine(interp')
<1>1. PICK q : q = interp'
  OBVIOUS
<1>2. CASE CallExpr
  <2>1. PICK callee : callee = Operand(Current.n)
    OBVIOUS
  <2>2. PICK arguments : arguments = [n \in 1 .. Current.n |-> Operand(Current.n - n)]
    OBVIOUS
  <2>3. PICK popped : popped = Without(Current.n + 1)
    OBVIOUS
  <2>4. Executing({"call"})
    BY <1>2 DEF CallExpr
  <2>5. q = CASE callee.kind = "function" ->
                   IF Arity(callee) = Current.n THEN Call(popped, callee, arguments, Nil) ELSE failWith(interp)
              [] IsClass(interp, callee) -> CallClass(popped, callee.id, arguments)
              [] OTHER -> failWith(interp)
    BY <1>1, <1>2, <2>1, <2>2, <2>3 DEF CallExpr, Executed
  <2>. QED BY <1>1, <2>1, <2>2, <2>3, <2>4, <2>5, CallFine
<1>3. CASE Super
  <2>1. PICK env : env = interp.environment
    OBVIOUS
  <2>2. PICK nearer : nearer = <<IF Slot[1] = 0 THEN 0 ELSE Slot[1] - 1, 0>>
    OBVIOUS
  <2>3. PICK there : there = (HasSlot(interp, env, Slot) /\ HasSlot(interp, env, nearer))
    OBVIOUS
  <2>4. PICK superclass : superclass = GetAt(interp, env, Slot)
    OBVIOUS
  <2>5. PICK receiver : receiver = GetAt(interp, env, nearer)
    OBVIOUS
  <2>6. PICK method : method = IF IsClass(interp, receiver) THEN findClassMethod(interp, superclass.id, Current.name)
                               ELSE findMethod(interp, superclass.id, Current.name)
    OBVIOUS
  <2>7. Executing({"super"})
    BY <1>3 DEF Super
  <2>8. q = IF ~Resolved THEN failWith(interp)
            ELSE IF ~there THEN Crash(interp) ELSE IF ~IsClass(interp, superclass) THEN Crash(interp)
            ELSE IF method = Nil THEN failWith(interp) ELSE Reached(interp, method, receiver)
    BY <1>1, <1>3, <2>1, <2>2, <2>3, <2>4, <2>5, <2>6 DEF Super, Executed
  <2>. QED BY <1>1, <2>1, <2>2, <2>3, <2>4, <2>5, <2>6, <2>7, <2>8, SuperFine
<1>. QED BY <1>2, <1>3

\* One visit.
LEMMA StepFine ==
  ASSUME GoodLine, Fine(interp), InterpreterStep \/ Bare
  PROVE  Fine(interp') /\ UNCHANGED locals
<1>1. Fine(interp')
  BY SimpleStepFine, ClassFine, LeavingFine, CallingFine DEF InterpreterStep
<1>2. UNCHANGED locals
  BY DEF InterpreterStep, Bare, Executed, Literal, Expression, Variable, This, Assign, Var, Function, Class, Block, Skip, End,
         Return, CallExpr, Get, Set, Super
<1>. QED BY <1>1, <1>2

-----------------------------------------------------------------------------
(* What was written and closed stays what it was *)

\* What of a longer sequence of indices is selected, if nothing of the rest is.
LEMMA SelectedMore ==
  ASSUME NEW l \in Nat, NEW m \in Nat, l <= m, NEW at, \A j \in 1 .. m : j \in at => j <= l
  PROVE  Selected([j \in 1 .. m |-> j], at)[m] = Selected([j \in 1 .. l |-> j], at)[l]
<1> DEFINE short == [j \in 1 .. l |-> j]
           long  == [j \in 1 .. m |-> j]
           f == Selected(short, at)
           g == Selected(long, at)
           S == {n \in Nat : n <= m => g[n] = IF n <= l THEN f[n] ELSE f[l]}
<1>1. short \in Seq(Nat) /\ Len(short) = l /\ \A j \in 1 .. l : short[j] = j
  OBVIOUS
<1>2. long \in Seq(Nat) /\ Len(long) = m /\ \A j \in 1 .. m : long[j] = j
  OBVIOUS
<1> HIDE DEF short, long
<1>3. f[0] = <<>> /\ \A n \in 1 .. l : f[n] = IF n \in at THEN Append(f[n - 1], short[n]) ELSE f[n - 1]
  BY <1>1, SelectedIs
<1>4. g[0] = <<>> /\ \A n \in 1 .. m : g[n] = IF n \in at THEN Append(g[n - 1], long[n]) ELSE g[n - 1]
  BY <1>2, SelectedIs
<1> HIDE DEF f, g
<1>5. 0 \in S
  BY <1>3, <1>4
<1>6. ASSUME NEW n \in Nat, n \in S
      PROVE  n + 1 \in S
  <2> SUFFICES ASSUME n + 1 <= m
               PROVE  g[n + 1] = IF n + 1 <= l THEN f[n + 1] ELSE f[l]
    OBVIOUS
  <2>1. n + 1 \in 1 .. m /\ (n + 1) - 1 = n /\ n <= m
    OBVIOUS
  <2>2. g[n] = IF n <= l THEN f[n] ELSE f[l]
    BY <1>6, <2>1
  <2>3. g[n + 1] = IF n + 1 \in at THEN Append(g[n], n + 1) ELSE g[n]
    BY <1>2, <1>4, <2>1
  <2>4. CASE n + 1 <= l
    <3>1. n + 1 \in 1 .. l /\ n <= l
      BY <2>4
    <3>2. f[n + 1] = IF n + 1 \in at THEN Append(f[n], n + 1) ELSE f[n]
      BY <1>1, <1>3, <2>1, <3>1
    <3>. QED BY <2>2, <2>3, <2>4, <3>1, <3>2
  <2>5. CASE ~(n + 1 <= l)
    <3>1. n + 1 \notin at
      BY <2>1, <2>5
    <3>2. n <= l => n = l
      BY <2>5
    <3>. QED BY <2>2, <2>3, <2>5, <3>1, <3>2
  <2>. QED BY <2>4, <2>5
<1> HIDE DEF S
<1>7. m \in S
  BY <1>5, <1>6, SetInduction
<1>8. g[m] = f[l]
  <2>1. m <= l => m = l
    OBVIOUS
  <2>. QED BY <1>7, <2>1 DEF S
<1>. QED BY <1>8 DEF f, g, short, long

\* What is around a later node is later too.
LEMMA AroundFar ==
  ASSUME Placed(program), NEW n \in Nat, n <= Len(program), InnermostIn(program, n) = 0, NEW kinds
  PROVE  \A j \in Nodes : j > n => \A u \in Around(j, kinds) : u > n
<1> DEFINE R(j) == j > n => \A u \in Around(j, kinds) : u > n
           S == {m \in Nat : \A j \in Nodes : j <= m => R(j)}
<1>1. \A j \in Nodes : j \in Nat /\ j >= 1
  BY DEF Nodes
<1>2. 0 \in S
  <2>1. \A j \in Nodes : ~(j <= 0)
    BY <1>1
  <2>. QED BY <2>1
<1>3. ASSUME NEW m \in Nat, m \in S
      PROVE  m + 1 \in S
  <2>1. ASSUME NEW j \in Nodes, j = m + 1, j > n
        PROVE  \A u \in Around(j, kinds) : u > n
    <3>1. CASE program[j].in = 0
      BY <3>1, AroundOf
    <3>2. CASE program[j].in # 0
      <4>1. PICK v : v = program[j].in
        OBVIOUS
      <4>2. v \in Nodes /\ v <= m
        BY <1>1, <2>1, <3>2, <4>1, InIsBefore
      <4>3. v > n
        BY <2>1, <3>2, <4>1, AroundLater
      <4>4. Around(j, kinds) \subseteq Around(v, kinds) \cup {v}
        BY <3>2, <4>1, AroundOf
      <4>5. R(v)
        BY <1>3, <4>2
      <4>. QED BY <4>3, <4>4, <4>5
    <3>. QED BY <3>1, <3>2
  <2>2. \A j \in Nodes : j <= m + 1 => j <= m \/ j = m + 1
    BY <1>1
  <2>. QED BY <1>3, <2>1, <2>2
<1> HIDE DEF S, R
<1>4. Nat \subseteq S
  BY <1>2, <1>3, SetInduction
<1>5. \A j \in Nodes : R(j)
  <2> TAKE j \in Nodes
  <2>1. j \in S /\ j <= j
    BY <1>1, <1>4
  <2>. QED BY <2>1 DEF S
<1>. QED BY <1>5 DEF R

\* The same of the next state.
FarAround(n) == n <= Len(program) /\ InnermostIn(program, n) = 0 => \A kinds : \A j \in Nodes : j > n =>
                  (program[j].in = 0 \/ program[j].in > n) /\ \A u \in Around(j, kinds) : u > n
AroundUp(j, kinds) ==
  /\ program[j].in = 0 => Around(j, kinds) = {}
  /\ program[j].in # 0 =>
       Around(j, kinds) = Around(program[j].in, kinds)
                            \cup (IF program[program[j].in].kind \in kinds THEN {program[j].in} ELSE {})
ScopesUp(j) == ScopesAround(j) = Outer(j)
TextLaws ==
  Placed(program) =>
    /\ \A n \in Nat : FarAround(n)
    /\ \A kinds : \A j \in Nodes : AroundUp(j, kinds)
    /\ \A j \in Nodes : ScopesUp(j)
LEMMA TextHasLaws == TextLaws
<1> SUFFICES ASSUME Placed(program)
             PROVE  /\ \A n \in Nat : FarAround(n)
                    /\ \A kinds : \A j \in Nodes : AroundUp(j, kinds)
                    /\ \A j \in Nodes : ScopesUp(j)
  BY DEF TextLaws
<1>1. ASSUME NEW n \in Nat
      PROVE  FarAround(n)
  <2> SUFFICES ASSUME n <= Len(program), InnermostIn(program, n) = 0, NEW kinds, NEW j \in Nodes, j > n
               PROVE  (program[j].in = 0 \/ program[j].in > n) /\ \A u \in Around(j, kinds) : u > n
    BY DEF FarAround
  <2>. QED BY AroundLater, AroundFar
<1>2. \A kinds : \A j \in Nodes : AroundUp(j, kinds)
  BY AroundOf DEF AroundUp
<1>3. \A j \in Nodes : ScopesUp(j)
  BY AroundIs DEF ScopesUp
<1>. QED BY <1>1, <1>2, <1>3
LEMMA NextTextHasLaws == TextLaws'
BY TextHasLaws, PTL

\* The text goes on after k nodes that leave nothing open.
TextGrows(k) ==
  /\ Placed(program) /\ Placed(program)' /\ Extends(program, program')
  /\ k \in Nat /\ k <= Len(program) /\ InnermostIn(program, k) = 0
Far(j, k) == j > k => (program[j].in = 0 \/ program[j].in > k) /\ \A u \in Around(j, Openers) : u > k

LEMMA NodesKept ==
  ASSUME NEW k, TextGrows(k)
  PROVE  /\ Len(program) \in Nat /\ Len(program') \in Nat /\ Len(program) <= Len(program')
         /\ Nodes = 1 .. Len(program) /\ Nodes' = 1 .. Len(program')
         /\ \A j \in 1 .. k : /\ j \in Nodes /\ j \in Nodes' /\ program'[j] = program[j] /\ program[j].in \in 0 .. j - 1
                              /\ program[j].in # 0 => program[j].in \in 1 .. k
         /\ \A j \in Nodes : Far(j, k)
         /\ \A j \in Nodes' : Far(j, k)'
<1>1. Len(program) \in Nat /\ Len(program') \in Nat /\ Len(program) <= Len(program') /\ Nodes = 1 .. Len(program)
      /\ Nodes' = 1 .. Len(program')
  BY DEF TextGrows, Placed, Extends, Nodes
<1>2. k \in Nat /\ k <= Len(program) /\ InnermostIn(program, k) = 0 /\ Placed(program) /\ Placed(program)'
  BY DEF TextGrows
<1>3. ASSUME NEW j \in 1 .. k
      PROVE  /\ j \in Nodes /\ j \in Nodes' /\ program'[j] = program[j] /\ program[j].in \in 0 .. j - 1
             /\ program[j].in # 0 => program[j].in \in 1 .. k
  <2>1. j \in Nodes /\ j \in Nodes'
    BY <1>1, <1>2
  <2>2. program'[j] = program[j]
    BY <1>1, <2>1 DEF TextGrows, Extends
  <2>3. program[j].in \in 0 .. j - 1
    BY <1>2, <2>1, InIsBefore
  <2>4. program[j].in # 0 => program[j].in \in 1 .. k
    BY <1>2, <2>3
  <2>. QED BY <2>1, <2>2, <2>3, <2>4
<1>4. \A j \in Nodes : Far(j, k)
  <2>1. FarAround(k)
    BY <1>2, TextHasLaws DEF TextLaws
  <2>. QED BY <1>2, <2>1 DEF FarAround, Far
<1>5. \A j \in Nodes' : Far(j, k)'
  <2>1. FarAround(k)'
    BY <1>2, NextTextHasLaws DEF TextLaws
  <2>2. InnermostIn(program', k) = 0
    <3>1. k \in 0 .. Len(program)
      BY <1>1, <1>2
    <3>. QED BY <1>1, <1>2, <3>1, SameOpen DEF TextGrows
  <2>3. InnermostIn(program, k)' = 0
    BY <2>2 DEF InnermostIn, OpenIn
  <2>4. k <= Len(program')
    BY <1>1, <1>2
  <2>5. Openers' = Openers
    BY DEF Openers
  <2>. QED BY <2>1, <2>3, <2>4, <2>5 DEF FarAround, Far
<1>. QED BY <1>1, <1>3, <1>4, <1>5

LEMMA AroundKept ==
  ASSUME NEW k, TextGrows(k), NEW kinds
  PROVE  \A j \in 1 .. k : Around(j, kinds)' = Around(j, kinds)
<1>1. /\ Placed(program) /\ Placed(program)' /\ k \in Nat
      /\ \A j \in 1 .. k : j \in Nodes /\ j \in Nodes' /\ program'[j] = program[j] /\ program[j].in \in 0 .. j - 1
  BY NodesKept DEF TextGrows
<1> DEFINE R(j) == Around(j, kinds)' = Around(j, kinds)
           S == {m \in Nat : \A j \in 1 .. k : j <= m => R(j)}
<1>2. 0 \in S
  OBVIOUS
<1>3. ASSUME NEW m \in Nat, m \in S
      PROVE  m + 1 \in S
  <2>1. ASSUME NEW j \in 1 .. k, j = m + 1
        PROVE  R(j)
    <3>1. PICK v : v = program[j].in
      OBVIOUS
    <3>2. v \in 0 .. m /\ program'[j].in = v /\ j \in Nodes /\ j \in Nodes'
      BY <1>1, <2>1, <3>1
    <3>3. AroundUp(j, kinds)
      BY <1>1, <3>2, TextHasLaws DEF TextLaws
    <3>4. AroundUp(j, kinds)'
      BY <1>1, <3>2, NextTextHasLaws DEF TextLaws
    <3>5. CASE v = 0
      BY <3>1, <3>2, <3>3, <3>4, <3>5 DEF AroundUp
    <3>6. CASE v # 0
      <4>1. v \in 1 .. k /\ v <= m
        BY <1>1, <2>1, <3>2, <3>6
      <4>2. R(v)
        BY <1>3, <4>1
      <4>3. program'[v].kind = program[v].kind
        BY <1>1, <4>1
      <4>4. Around(j, kinds) = Around(v, kinds) \cup (IF program[v].kind \in kinds THEN {v} ELSE {})
        BY <3>1, <3>3, <3>6 DEF AroundUp
      <4>5. Around(j, kinds)' = Around(v, kinds)' \cup (IF program'[v].kind \in kinds THEN {v} ELSE {})
        BY <3>2, <3>4, <3>6 DEF AroundUp
      <4>. QED BY <4>2, <4>3, <4>4, <4>5
    <3>. QED BY <3>5, <3>6
  <2>2. \A j \in 1 .. k : j <= m + 1 => j <= m \/ j = m + 1
    BY <1>1
  <2> HIDE DEF R
  <2>. QED BY <1>3, <2>1, <2>2
<1> HIDE DEF S, R
<1>4. Nat \subseteq S
  BY <1>2, <1>3, SetInduction
<1>5. \A j \in 1 .. k : R(j)
  <2> TAKE j \in 1 .. k
  <2>1. j \in S /\ j <= j
    BY <1>1, <1>4
  <2>. QED BY <2>1 DEF S
<1>. QED BY <1>5 DEF R

LEMMA ScopesKept ==
  ASSUME NEW k, TextGrows(k)
  PROVE  \A j \in 1 .. k : ScopesOf(j)' = ScopesOf(j) /\ ScopesAround(j)' = ScopesAround(j)
<1>1. /\ Placed(program) /\ Placed(program)' /\ k \in Nat
      /\ \A j \in 1 .. k : j \in Nodes /\ j \in Nodes' /\ program'[j] = program[j] /\ program[j].in \in 0 .. j - 1
  BY NodesKept DEF TextGrows
<1>2. \A j \in 1 .. k : ScopesOf(j)' = ScopesOf(j)
  BY <1>1 DEF ScopesOf, IsSubclass
<1> DEFINE R(j) == ScopesAround(j)' = ScopesAround(j)
           S == {m \in Nat : \A j \in 1 .. k : j <= m => R(j)}
<1>3. 0 \in S
  OBVIOUS
<1>4. ASSUME NEW m \in Nat, m \in S
      PROVE  m + 1 \in S
  <2>1. ASSUME NEW j \in 1 .. k, j = m + 1
        PROVE  R(j)
    <3>1. PICK v : v = program[j].in
      OBVIOUS
    <3>2. v \in 0 .. m /\ program'[j].in = v /\ j \in Nodes /\ j \in Nodes'
      BY <1>1, <2>1, <3>1
    <3>3. ScopesUp(j)
      BY <1>1, <3>2, TextHasLaws DEF TextLaws
    <3>4. ScopesUp(j)'
      BY <1>1, <3>2, NextTextHasLaws DEF TextLaws
    <3>5. CASE v = 0
      BY <3>1, <3>2, <3>3, <3>4, <3>5 DEF ScopesUp, Outer
    <3>6. CASE v # 0
      <4>1. v \in 1 .. k /\ v <= m
        BY <1>1, <2>1, <3>2, <3>6
      <4>2. R(v) /\ ScopesOf(v)' = ScopesOf(v)
        BY <1>2, <1>4, <4>1
      <4>3. ScopesAround(j) = ScopesOf(v) \o ScopesAround(v)
        BY <3>1, <3>3, <3>6 DEF ScopesUp, Outer
      <4>4. ScopesAround(j)' = ScopesOf(v)' \o ScopesAround(v)'
        <5>1. ScopesAround(j)' = Outer(j)'
          BY <3>4 DEF ScopesUp
        <5>2. Outer(j)' = ScopesOf(program[j].in)' \o ScopesAround(program[j].in)'
          BY <3>2, <3>6 DEF Outer
        <5>3. ScopesOf(program[j].in)' = ScopesOf(v)' /\ ScopesAround(program[j].in)' = ScopesAround(v)'
          BY <3>2 DEF ScopesOf, ScopesAround, IsSubclass
        <5>. QED BY <5>1, <5>2, <5>3
      <4>. QED BY <4>2, <4>3, <4>4
    <3>. QED BY <3>5, <3>6
  <2>2. \A j \in 1 .. k : j <= m + 1 => j <= m \/ j = m + 1
    BY <1>1
  <2> HIDE DEF R
  <2>. QED BY <1>4, <2>1, <2>2
<1> HIDE DEF S, R
<1>5. Nat \subseteq S
  BY <1>3, <1>4, SetInduction
<1>6. \A j \in 1 .. k : R(j)
  <2> TAKE j \in 1 .. k
  <2>1. j \in S /\ j <= j
    BY <1>1, <1>5
  <2>. QED BY <2>1 DEF S
<1>. QED BY <1>2, <1>6 DEF R

LEMMA DeclarationsKept ==
  ASSUME NEW k, TextGrows(k), NEW s, s \in ScopeSet, s[1] \in 1 .. k
  PROVE  Declarations(s)' = Declarations(s)
<1>1. PICK u : u = s[1]
  OBVIOUS
<1>2. CASE s[2] # "block"
  BY <1>2 DEF Declarations
<1>3. CASE s[2] = "block"
  <2>1. PICK l : l = Len(program)
    OBVIOUS
  <2>2. PICK m : m = Len(program')
    OBVIOUS
  <2>3. PICK at : at = DeclaredIn(u)
    OBVIOUS
  <2>4. /\ l \in Nat /\ m \in Nat /\ l <= m /\ k \in Nat /\ k <= l /\ Nodes = 1 .. l /\ Nodes' = 1 .. m
        /\ \A j \in 1 .. k : program'[j] = program[j] /\ j \in Nodes /\ j \in Nodes'
        /\ \A j \in Nodes : Far(j, k)
        /\ \A j \in Nodes' : Far(j, k)'
    BY <2>1, <2>2, NodesKept DEF TextGrows
  <2>5. \A j \in Nodes : j > k => program[j].in # u
    BY <1>1, <2>4 DEF Far
  <2>6. \A j \in Nodes' : j > k => program'[j].in # u
    BY <1>1, <2>4 DEF Far
  <2>7. at \subseteq 1 .. k /\ DeclaredIn(u)' = at
    <3>1. \A j \in Nodes : j \in 1 .. k \/ j > k
      BY <2>4
    <3>2. \A j \in Nodes' : j \in 1 .. k \/ j > k
      BY <2>4
    <3>3. at \subseteq 1 .. k
      BY <2>3, <2>5, <3>1 DEF DeclaredIn
    <3>4. \A j : j \in DeclaredIn(u)' => j \in 1 .. k
      BY <2>6, <3>2 DEF DeclaredIn
    <3>5. \A j \in 1 .. k : j \in DeclaredIn(u)' <=> j \in at
      BY <2>3, <2>4 DEF DeclaredIn
    <3>. QED BY <3>3, <3>4, <3>5
  <2>8. Selected([j \in 1 .. m |-> j], at)[m] = Selected([j \in 1 .. l |-> j], at)[l]
    <3>1. \A j \in 1 .. m : j \in at => j <= l
      BY <2>4, <2>7
    <3>. QED BY <2>4, <3>1, SelectedMore
  <2>9. PICK inside : inside = Selected([j \in 1 .. l |-> j], at)[l]
    OBVIOUS
  <2>10. inside \in Seq(Nat) /\ OnlyFrom(inside, at, l)
    BY <2>4, <2>9, SelectedIndices
  <2>11. \A n \in DOMAIN inside : inside[n] \in 1 .. k
    BY <2>7, <2>10 DEF OnlyFrom
  <2>12. \A n \in DOMAIN inside : program'[inside[n]].name = program[inside[n]].name
    BY <2>4, <2>11
  <2>13. PICK params : params = program[u].params
    OBVIOUS
  <2>14. program'[u].params = params
    BY <1>1, <2>4, <2>13
  <2>15. PICK given : given = [n \in DOMAIN params |-> [name |-> params[n], node |-> u]]
    OBVIOUS
  <2>16. Declarations(s) = given \o [n \in DOMAIN inside |-> [name |-> program[inside[n]].name, node |-> inside[n]]]
    <3>1. Selected([j \in Nodes |-> j], DeclaredIn(u))[Len(program)] = inside
      BY <2>1, <2>3, <2>4, <2>9
    <3>. QED BY <1>1, <1>3, <2>13, <2>15, <3>1 DEF Declarations, DeclaredIn
  <2>17. Declarations(s)' = given \o [n \in DOMAIN inside |-> [name |-> program'[inside[n]].name, node |-> inside[n]]]
    <3>1. Selected([j \in Nodes' |-> j], DeclaredIn(u)')[Len(program')] = inside
      BY <2>2, <2>4, <2>7, <2>8, <2>9
    <3>. QED BY <1>1, <1>3, <2>14, <2>15, <3>1 DEF Declarations, DeclaredIn
  <2>18. [n \in DOMAIN inside |-> [name |-> program'[inside[n]].name, node |-> inside[n]]]
           = [n \in DOMAIN inside |-> [name |-> program[inside[n]].name, node |-> inside[n]]]
    BY <2>12
  <2>. QED BY <2>16, <2>17, <2>18
<1>. QED BY <1>2, <1>3

LEMMA AddressKept ==
  ASSUME NEW k, TextGrows(k), NEW j \in 1 .. k, NEW name
  PROVE  LexicalAddress(j, name)' = LexicalAddress(j, name)
<1>1. Placed(program) /\ k \in Nat /\ j \in Nodes /\ j \in Nat /\ Nodes = 1 .. Len(program)
  BY NodesKept DEF TextGrows
<1>2. PICK a : a = ScopesAround(j)
  OBVIOUS
<1>3. ScopesAround(j)' = a
  BY <1>2, ScopesKept
<1>4. a \in Seq(ScopeSet) /\ \A n \in 1 .. Len(a) : a[n][1] \in 1 .. k
  <2>1. a = AroundAfter(j - 1) /\ a \in Seq(ScopeSet)
    BY <1>1, <1>2, AroundAfterIs, AroundIs
  <2>2. j - 1 \in Nat /\ j - 1 <= Len(program)
    BY <1>1, NodesKept
  <2>3. \A n \in 1 .. Len(a) : a[n][1] \in Nodes /\ a[n][1] <= j - 1
    BY <1>1, <2>1, <2>2, ScopesAreOpen
  <2>4. \A n \in 1 .. Len(a) : a[n][1] \in 1 .. k
    BY <1>1, <2>3
  <2>. QED BY <2>1, <2>4
<1>5. DOMAIN a = 1 .. Len(a) /\ \A n \in 1 .. Len(a) : a[n] \in ScopeSet
  BY <1>4
<1>6. \A n \in DOMAIN a : NamedBefore(j, a[n], name)' = NamedBefore(j, a[n], name)
  <2> TAKE n \in DOMAIN a
  <2>1. PICK s : s = a[n]
    OBVIOUS
  <2>2. Declarations(s)' = Declarations(s)
    BY <1>4, <1>5, <2>1, DeclarationsKept
  <2>3. NamedBefore(j, s, name)' = NamedBefore(j, s, name)
    BY <2>2 DEF NamedBefore
  <2>4. NamedBefore(j, a[n], name)' = NamedBefore(j, s, name)'
    BY <2>1 DEF NamedBefore
  <2>. QED BY <2>1, <2>3, <2>4
<1>7. LexicalAddress(j, name) = AddressAmong(a, j, name)
  BY <1>2 DEF LexicalAddress, AddressAmong, NamedBefore
<1>8. LexicalAddress(j, name)' = AddressAmong(a, j, name)'
  <2>1. LexicalAddress(j, name)' = AddressAmong(ScopesAround(j), j, name)'
    BY DEF LexicalAddress, AddressAmong, NamedBefore
  <2>2. AddressAmong(ScopesAround(j), j, name)' = AddressAmong(a, j, name)'
    BY <1>3 DEF AddressAmong
  <2>. QED BY <2>1, <2>2
<1>9. AddressAmong(a, j, name)' = AddressAmong(a, j, name)
  <2> DEFINE Here_(n) == NamedBefore(j, a[n], name)
             Next_(n) == NamedBefore(j, a[n], name)'
  <2>1. {n \in DOMAIN a : Next_(n) # {}} = {n \in DOMAIN a : Here_(n) # {}}
    BY <1>6
  <2>2. PICK m : m = Min({n \in DOMAIN a : Here_(n) # {}})
    OBVIOUS
  <2>3. {n \in DOMAIN a : Here_(n) # {}} # {} => m \in DOMAIN a
    <3>1. {n \in DOMAIN a : Here_(n) # {}} \subseteq Nat
      BY <1>5
    <3>. QED BY <2>2, <3>1, MinIs
  <2>4. AddressAmong(a, j, name) = IF {n \in DOMAIN a : Here_(n) # {}} = {} THEN <<>> ELSE <<m - 1, Min(Here_(m)) - 1>>
    BY <2>2 DEF AddressAmong
  <2>5. AddressAmong(a, j, name)' = IF {n \in DOMAIN a : Next_(n) # {}} = {} THEN <<>> ELSE <<m - 1, Min(Next_(m)) - 1>>
    BY <2>1, <2>2 DEF AddressAmong
  <2>6. m \in DOMAIN a => Next_(m) = Here_(m)
    BY <1>6
  <2> HIDE DEF Here_, Next_
  <2>. QED BY <2>1, <2>3, <2>4, <2>5, <2>6
<1>. QED BY <1>7, <1>8, <1>9

\* The same of a scope and the one it is in.
LEMMA ScopeKept ==
  ASSUME NEW k, TextGrows(k)
  PROVE  /\ \A j \in 1 .. k : IsSubclass(j)' = IsSubclass(j)
         /\ \A u \in 0 .. k : InnerScope(u)' = InnerScope(u)
         /\ \A s \in ScopeSet : s[1] \in 1 .. k => Beyond(s)' = Beyond(s) /\ (IsScope(s) => IsScope(s)')
<1>1. /\ k \in Nat
      /\ \A j \in 1 .. k : j \in Nodes' /\ program'[j] = program[j] /\ program[j].in \in 0 .. j - 1
  BY NodesKept DEF TextGrows
<1>2. \A j \in 1 .. k : IsSubclass(j)' = IsSubclass(j)
  BY <1>1 DEF IsSubclass
<1>3. \A u \in 0 .. k : InnerScope(u)' = InnerScope(u)
  <2> TAKE u \in 0 .. k
  <2>1. u # 0 => u \in 1 .. k
    BY <1>1
  <2>2. u # 0 => ScopesOf(u)' = ScopesOf(u)
    BY <2>1, ScopesKept
  <2>. QED BY <2>2 DEF InnerScope
<1>4. ASSUME NEW s \in ScopeSet, s[1] \in 1 .. k
      PROVE  Beyond(s)' = Beyond(s) /\ (IsScope(s) => IsScope(s)')
  <2>1. PICK u : u = s[1]
    OBVIOUS
  <2>2. PICK v : v = program[u].in
    OBVIOUS
  <2>3. v \in 0 .. k /\ program'[u] = program[u] /\ u \in Nodes' /\ u \in 1 .. k
    BY <1>1, <1>4, <2>1, <2>2
  <2>4. IsSubclass(u)' = IsSubclass(u) /\ InnerScope(v)' = InnerScope(v)
    BY <1>2, <1>3, <2>3
  <2>5. Beyond(s) = IF s[2] = "this" /\ IsSubclass(u) THEN <<u, "super">> ELSE InnerScope(v)
    BY <2>1, <2>2 DEF Beyond
  <2>6. Beyond(s)' = IF s[2] = "this" /\ IsSubclass(u)' THEN <<u, "super">> ELSE InnerScope(v)'
    <3>1. program'[u].in = v
      BY <2>2, <2>3
    <3>2. InnerScope(program[u].in)' = InnerScope(v)'
      BY <3>1 DEF InnerScope, ScopesOf, IsSubclass
    <3>3. Beyond(s)' = IF s[2] = "this" /\ IsSubclass(u)' THEN <<u, "super">> ELSE InnerScope(program[u].in)'
      BY <2>1 DEF Beyond, IsSubclass, InnerScope, ScopesOf
    <3>. QED BY <3>2, <3>3
  <2>7. IsScope(s) => IsScope(s)'
    BY <2>1, <2>3, <2>4 DEF IsScope, IsOpener, Openers
  <2>. QED BY <2>4, <2>5, <2>6, <2>7
<1>. QED BY <1>2, <1>3, <1>4

\* What is settled about a node of the text stays so.
LEMMA GoodKept ==
  ASSUME NEW k, TextGrows(k), NEW j \in 1 .. k, AddressGiven(locals, j)' = AddressGiven(locals, j), Good(j)
  PROVE  Good(j)'
<1>1. /\ k \in Nat /\ Placed(program) /\ k <= Len(program) /\ Len(program) \in Nat /\ j \in Nodes
      /\ \A m \in 1 .. k : program'[m] = program[m] /\ program[m].in \in 0 .. m - 1
  BY NodesKept DEF TextGrows
<1>2. program'[j] = program[j] /\ NameUsed(j)' = NameUsed(j)
  BY <1>1 DEF NameUsed
<1>3. LexicalAddress(j, NameUsed(j))' = LexicalAddress(j, NameUsed(j)) /\ LexicalAddress(j, "super")' = LexicalAddress(j, "super")
  <2>1. PICK name : name = NameUsed(j)
    OBVIOUS
  <2>2. LexicalAddress(j, name)' = LexicalAddress(j, name)
    BY AddressKept
  <2>3. LexicalAddress(j, NameUsed(j))' = LexicalAddress(j, name)'
    BY <1>2, <2>1 DEF LexicalAddress
  <2>. QED BY <2>1, <2>2, <2>3, AddressKept
<1>4. \A kinds : InnermostOf(j, kinds)' = InnermostOf(j, kinds)
  BY AroundKept DEF InnermostOf
<1>5. Functions' = Functions
  BY DEF Functions
<1>6. InnermostOf(j, Functions)' = InnermostOf(j, Functions)
  BY <1>4, <1>5 DEF InnermostOf
<1>7. PICK m : m = InnermostOf(j, {"body"})
  OBVIOUS
<1>8. InnermostOf(j, {"body"})' = m /\ m \in 0 .. j - 1
  BY <1>1, <1>4, <1>7, InnermostOfIs
<1>9. m # 0 => IsSubclass(m)' = IsSubclass(m)
  <2>1. m # 0 => m \in 1 .. k
    BY <1>1, <1>8
  <2>. QED BY <2>1, ScopeKept
<1>10. ~ReadsItself(j)'
  <2>1. Begun(program, j)' = Begun(program, j)
    <3>1. Begun(program', j) = Begun(program, j)
      <4>1. j \in Nat /\ j <= Len(program) + 1
        BY <1>1
      <4>. QED BY <1>1, <4>1, BegunBefore DEF TextGrows
    <3>. QED BY <3>1 DEF Begun
  <2>2. \A m_1 \in Begun(program, j) : program'[m_1] = program[m_1]
    <3>1. \A m_1 \in Begun(program, j) : m_1 \in 1 .. k
      BY <1>1 DEF Begun
    <3>. QED BY <1>1, <3>1
  <2>3. \A m_1 \in Begun(program, j) : InScopeOf(j, m_1)' = InScopeOf(j, m_1)
    BY <1>2, <2>2 DEF InScopeOf
  <2>4. ~ReadsItself(j)
    BY DEF Good
  <2>. QED BY <1>2, <2>1, <2>2, <2>3, <2>4 DEF ReadsItself
<1>11. program[j].kind \in Uses => AddressGiven(locals, j)' = LexicalAddress(j, NameUsed(j))'
  BY <1>3 DEF Good
<1>12. program[j].kind = "return" => InnermostOf(j, Functions)' # 0
  BY <1>6 DEF Good
<1>13. program[j].kind = "super" /\ LexicalAddress(j, "super")' # <<>> => InnermostOf(j, {"body"})' # 0 /\ IsSubclass(m)'
  BY <1>3, <1>7, <1>8, <1>9 DEF Good
<1>14. IsSubclass(InnermostOf(j, {"body"}))' = IsSubclass(m)'
  BY <1>8 DEF IsSubclass
<1>. QED BY <1>2, <1>10, <1>11, <1>12, <1>13, <1>14 DEF Good, Uses

LEMMA RunsKept ==
  ASSUME NEW k, TextGrows(k), \A j \in 1 .. k : AddressGiven(locals, j)' = AddressGiven(locals, j), NEW u \in 1 .. k, Runs(u)
  PROVE  Runs(u)'
<1>1. /\ k \in Nat /\ Nodes' = 1 .. Len(program') /\ Len(program') \in Nat
      /\ \A j \in Nodes' : Far(j, k)'
      /\ \A j \in 1 .. k : j \in Nodes
  BY NodesKept DEF TextGrows
<1>2. ASSUME NEW j \in Nodes', u \in Around(j, Openers)'
      PROVE  Good(j)'
  <2>1. j \in 1 .. k
    <3>1. CASE j > k
      <4>1. \A x \in Around(j, Openers)' : x > k
        <5>1. Far(j, k)'
          BY <1>1
        <5>. QED BY <3>1, <5>1 DEF Far
      <4>2. u > k
        BY <1>2, <4>1
      <4>. QED BY <1>1, <4>2
    <3>. QED BY <1>1, <3>1
  <2>2. u \in Around(j, Openers)
    <3>1. \A kinds : Around(j, kinds)' = Around(j, kinds)
      BY <2>1, AroundKept
    <3>2. Openers' = Openers
      BY DEF Openers
    <3>3. Around(j, Openers)' = Around(j, Openers)
      BY <3>1, <3>2 DEF Around
    <3>. QED BY <1>2, <3>3
  <2>3. Good(j)
    BY <1>1, <2>1, <2>2 DEF Runs
  <2>. QED BY <2>1, <2>3, GoodKept
<1>. QED BY <1>2 DEF Runs

-----------------------------------------------------------------------------
(* The heap while the session goes on *)

\* The text goes on after what the heap knows of it, and what is known grows.
GoesOn ==
  /\ TextIsPlaced /\ TextGrows(Known - 1) /\ Known \in Nat /\ Known' \in Nat /\ Known <= Known'
  /\ \A j \in 1 .. Known - 1 : AddressGiven(locals, j)' = AddressGiven(locals, j)

LEMMA KnownKept ==
  ASSUME GoesOn, NEW j \in Nodes, j < Known
  PROVE  /\ j \in 1 .. Known - 1 /\ j \in Nodes' /\ j < Known' /\ program'[j] = program[j]
         /\ program[j].in \in 0 .. Known - 1 /\ program[j].in < j
         /\ program[j].kind = "method" => program[j].in \in 1 .. Known - 1
         /\ Runs(j) => Runs(j)'
<1>1. PICK k : k = Known - 1
  OBVIOUS
<1>2. /\ TextGrows(k) /\ TextIsPlaced /\ Known \in Nat /\ Known' \in Nat /\ Known <= Known'
      /\ \A m \in 1 .. k : AddressGiven(locals, m)' = AddressGiven(locals, m)
  BY <1>1 DEF GoesOn
<1>3. k \in Nat /\ j \in Nat /\ j >= 1
  BY <1>2 DEF TextGrows, Nodes
<1>4. j \in 1 .. k
  BY <1>1, <1>2, <1>3
<1>5. j \in Nodes' /\ program'[j] = program[j] /\ program[j].in \in 0 .. j - 1 /\ (program[j].in # 0 => program[j].in \in 1 .. k)
  BY <1>2, <1>4, NodesKept
<1>6. program[j].in \in 0 .. k /\ program[j].in < j
  BY <1>3, <1>4, <1>5
<1>7. program[j].kind = "method" => program[j].in # 0
  <2>1. Grammatical(program, j)
    BY <1>2 DEF TextIsPlaced
  <2>. QED BY <2>1 DEF Grammatical
<1>8. Runs(j) => Runs(j)'
  BY <1>2, <1>4, RunsKept
<1>9. j < Known'
  BY <1>2, <1>3
<1>. QED BY <1>1, <1>4, <1>5, <1>6, <1>7, <1>8, <1>9

LEMMA StandsKept ==
  ASSUME GoesOn, NEW i, NEW e, NEW s, NEW u, Stands(i, e, s, u), s # <<>> => s \in ScopeSet /\ s[1] \in 1 .. Known - 1
  PROVE  Stands(i, e, s, u)'
<1>1. PICK k : k = Known - 1
  OBVIOUS
<1>2. TextGrows(k)
  BY <1>1 DEF GoesOn
<1>3. s # <<>> => Declarations(s)' = Declarations(s)
  BY <1>1, <1>2, DeclarationsKept
<1>. QED BY <1>3 DEF Stands

\* The scope directly inside a node, and that a scope is in, are of known nodes.
LEMMA InnerKnown ==
  ASSUME GoesOn, NEW u \in 0 .. Known - 1
  PROVE  /\ InnerScope(u)' = InnerScope(u)
         /\ InnerScope(u) # <<>> => InnerScope(u) \in ScopeSet /\ InnerScope(u)[1] \in 1 .. Known - 1
<1>1. PICK k : k = Known - 1
  OBVIOUS
<1>2. TextGrows(k)
  BY <1>1 DEF GoesOn
<1>3. k \in Nat
  BY <1>2 DEF TextGrows
<1>4. InnerScope(u)' = InnerScope(u)
  BY <1>1, <1>2, ScopeKept
<1>5. u \in Nat /\ (u # 0 => u \in 1 .. k)
  BY <1>1, <1>3
<1>6. /\ u # 0 => InnerScope(u) \in ScopeSet /\ InnerScope(u)[1] = u
      /\ u = 0 <=> InnerScope(u) = <<>>
  BY <1>5, InnerScopeIs
<1>. QED BY <1>1, <1>4, <1>5, <1>6
LEMMA BeyondKnown ==
  ASSUME GoesOn, NEW s \in ScopeSet, s[1] \in Nodes, s[1] < Known
  PROVE  /\ Beyond(s)' = Beyond(s) /\ (IsScope(s) => IsScope(s)') /\ Declarations(s)' = Declarations(s)
         /\ Beyond(s) # <<>> => Beyond(s) \in ScopeSet /\ Beyond(s)[1] \in 1 .. Known - 1
<1>1. PICK k : k = Known - 1
  OBVIOUS
<1>2. TextGrows(k)
  BY <1>1 DEF GoesOn
<1>3. PICK v : v = s[1]
  OBVIOUS
<1>4. v \in 1 .. k /\ program[v].in \in 0 .. Known - 1
  BY <1>1, <1>3, KnownKept
<1>5. Beyond(s)' = Beyond(s) /\ (IsScope(s) => IsScope(s)') /\ Declarations(s)' = Declarations(s)
  BY <1>1, <1>2, <1>3, <1>4, ScopeKept, DeclarationsKept
<1>6. Beyond(s) # <<>> => Beyond(s) \in ScopeSet /\ Beyond(s)[1] \in 1 .. Known - 1
  <2>1. CASE s[2] = "this" /\ IsSubclass(v)
    <3>1. PICK t : t = <<v, "super">>
      OBVIOUS
    <3>2. Beyond(s) = t
      BY <1>3, <2>1, <3>1 DEF Beyond
    <3>3. v \in Nat
      BY <1>2, <1>4 DEF TextGrows
    <3>4. t \in ScopeSet /\ t[1] = v
      BY <3>1, <3>3 DEF ScopeSet
    <3>. QED BY <1>1, <1>4, <3>2, <3>4
  <2>2. CASE ~(s[2] = "this" /\ IsSubclass(v))
    <3>1. Beyond(s) = InnerScope(program[v].in)
      BY <1>3, <2>2 DEF Beyond
    <3>. QED BY <1>4, <3>1, InnerKnown
  <2>. QED BY <2>1, <2>2
<1>. QED BY <1>5, <1>6

LEMMA FunctionKept ==
  ASSUME GoesOn, NEW i, NEW f, FunctionOK(i, f)
  PROVE  FunctionOK(i, f)'
<1>1. PICK j : j = f.declaration
  OBVIOUS
<1>2. PICK u : u = program[j].in
  OBVIOUS
<1>3. f \in FunctionValues /\ j \in Nodes /\ j < Known /\ program[j].kind \in Functions /\ Runs(j)
      /\ (f.isInitializer => program[j].kind = "method") /\ Stands(i, f.closure, InnerScope(u), j)
  BY <1>1, <1>2 DEF FunctionOK
<1>4. j \in Nodes' /\ j < Known' /\ program'[j] = program[j] /\ u \in 0 .. Known - 1 /\ Runs(j)'
  BY <1>2, <1>3, KnownKept
<1>5. PICK s : s = InnerScope(u)
  OBVIOUS
<1>6. InnerScope(u)' = s /\ (s # <<>> => s \in ScopeSet /\ s[1] \in 1 .. Known - 1)
  BY <1>4, <1>5, InnerKnown
<1>7. Stands(i, f.closure, s, j)'
  BY <1>3, <1>5, <1>6, StandsKept
<1>8. InnerScope(program[f.declaration].in)' = s
  <2>1. program'[f.declaration].in = u
    BY <1>1, <1>2, <1>4
  <2>2. InnerScope(program[f.declaration].in)' = InnerScope(u)'
    BY <2>1 DEF InnerScope, ScopesOf, IsSubclass
  <2>. QED BY <1>6, <2>2
<1>9. Stands(i, f.closure, InnerScope(program[f.declaration].in), f.declaration)'
  BY <1>1, <1>7, <1>8 DEF Stands
<1>10. Runs(f.declaration)'
  BY <1>1, <1>4
<1>. QED BY <1>1, <1>3, <1>4, <1>9, <1>10 DEF FunctionOK, Functions, FunctionValues

LEMMA MethodKept ==
  ASSUME GoesOn, NEW i, NEW f, MethodOK(i, f)
  PROVE  MethodOK(i, f)'
<1>1. PICK j : j = f.declaration
  OBVIOUS
<1>2. PICK v : v = program[j].in
  OBVIOUS
<1>3. PICK t : t = <<v, "this">>
  OBVIOUS
<1>4. f \in FunctionValues /\ j \in Nodes /\ j < Known /\ program[j].kind = "method" /\ Runs(j)
      /\ Stands(i, f.closure, Beyond(t), v)
  BY <1>1, <1>2, <1>3 DEF MethodOK
<1>5. j \in Nodes' /\ j < Known' /\ program'[j] = program[j] /\ v \in 1 .. Known - 1 /\ v < j /\ Runs(j)'
  BY <1>2, <1>4, KnownKept
<1>6. t \in ScopeSet /\ t[1] = v /\ v \in Nodes /\ v < Known
  <2>1. Known \in Nat /\ Known - 1 <= Len(program) /\ Len(program) \in Nat
    BY DEF GoesOn, TextGrows, Placed
  <2>2. v \in Nat
    BY <1>5, <2>1
  <2>3. t \in ScopeSet /\ t[1] = v
    BY <1>3, <2>2 DEF ScopeSet
  <2>. QED BY <1>5, <2>1, <2>3 DEF Nodes
<1>7. PICK s : s = Beyond(t)
  OBVIOUS
<1>8. Beyond(t)' = s /\ (s # <<>> => s \in ScopeSet /\ s[1] \in 1 .. Known - 1)
  BY <1>6, <1>7, BeyondKnown
<1>9. Stands(i, f.closure, s, v)'
  BY <1>4, <1>7, <1>8, StandsKept
<1>10. Beyond(<<program[f.declaration].in, "this">>)' = s
  <2>1. <<program'[f.declaration].in, "this">> = t
    BY <1>1, <1>2, <1>3, <1>5
  <2>2. Beyond(<<program[f.declaration].in, "this">>)' = Beyond(t)'
    BY <2>1 DEF Beyond, InnerScope, ScopesOf, IsSubclass
  <2>. QED BY <1>8, <2>2
<1>11. program'[f.declaration].in = v
  BY <1>1, <1>2, <1>5
<1>12. Stands(i, f.closure, Beyond(<<program[f.declaration].in, "this">>), program[f.declaration].in)'
  BY <1>9, <1>10, <1>11 DEF Stands
<1>13. Runs(f.declaration)'
  BY <1>1, <1>5
<1>. QED BY <1>1, <1>4, <1>5, <1>12, <1>13 DEF MethodOK, FunctionValues

LEMMA ValueKept ==
  ASSUME GoesOn, NEW i, NEW v, ValueOK(i, v)
  PROVE  ValueOK(i, v)'
BY FunctionKept DEF ValueOK, Nil, ObjectValues
LEMMA MapsKept ==
  ASSUME GoesOn, NEW i, NEW map
  PROVE  (AllOK(i, map) => AllOK(i, map)') /\ (MethodsOK(i, map) => MethodsOK(i, map)')
<1>1. AllOK(i, map) => AllOK(i, map)'
  BY ValueKept DEF AllOK
<1>2. MethodsOK(i, map) => MethodsOK(i, map)'
  BY MethodKept DEF MethodsOK
<1>. QED BY <1>1, <1>2
LEMMA EnvKept ==
  ASSUME GoesOn, NEW i, NEW env, EnvFits(i, env)
  PROVE  EnvFits(i, env)'
<1>1. PICK s : s = env.scope
  OBVIOUS
<1>2. PICK d : d = Declarations(s)
  OBVIOUS
<1>3. /\ IsScope(s) /\ s[1] < Known
      /\ Stands(i, env.enclosing, Beyond(s), s[1])
      /\ Len(env.slots) <= Len(d)
      /\ \A m \in 1 .. Len(env.slots) : env.slots[m].name = d[m].name /\ ValueOK(i, env.slots[m].value)
      /\ s[2] # "block" => Len(env.slots) = 1
      /\ s[2] = "super" => IsClassValue(i, env.slots[1].value)
  BY <1>1, <1>2 DEF EnvFits
<1>4. s \in ScopeSet /\ s[1] \in Nodes
  BY <1>3 DEF IsScope
<1>5. PICK b : b = Beyond(s)
  OBVIOUS
<1>6. Beyond(s)' = b /\ IsScope(s)' /\ Declarations(s)' = d /\ (b # <<>> => b \in ScopeSet /\ b[1] \in 1 .. Known - 1)
  BY <1>2, <1>3, <1>4, <1>5, BeyondKnown
<1>7. s[1] < Known'
  BY <1>3, <1>4, KnownKept
<1>8. Stands(i, env.enclosing, b, s[1])'
  BY <1>3, <1>5, <1>6, StandsKept
<1>9. \A m \in 1 .. Len(env.slots) : ValueOK(i, env.slots[m].value)'
  BY <1>3, ValueKept
<1>10. s[2] = "super" => IsClassValue(i, env.slots[1].value)'
  BY <1>3 DEF IsClassValue, ObjectValues
<1>11. Stands(i, env.enclosing, Beyond(env.scope), env.scope[1])'
  <2>1. Beyond(env.scope)' = b
    BY <1>1, <1>6 DEF Beyond, InnerScope, ScopesOf, IsSubclass
  <2>. QED BY <1>1, <1>8, <2>1 DEF Stands
<1>12. Declarations(env.scope)' = d
  BY <1>1, <1>6
<1>13. IsScope(env.scope)'
  BY <1>1, <1>6
<1>. QED BY <1>1, <1>3, <1>7, <1>9, <1>10, <1>11, <1>12, <1>13 DEF EnvFits
LEMMA ObjectKept ==
  ASSUME GoesOn, NEW i, NEW id, ObjectOK(i, id)
  PROVE  ObjectOK(i, id)'
<1>1. PICK o : o = i.objects[id]
  OBVIOUS
<1>2. AllOK(i, o.fields)'
  BY <1>1, MapsKept DEF ObjectOK
<1>3. IsClassObject(i, o, id) => IsClassObject(i, o, id)'
  BY MapsKept DEF IsClassObject
<1>4. IsInstance(i, o, id) => IsInstance(i, o, id)'
  BY DEF IsInstance
<1>. QED BY <1>1, <1>2, <1>3, <1>4 DEF ObjectOK
LEMMA HeapStays ==
  ASSUME GoesOn, NEW i, HeapOK(i)
  PROVE  HeapOK(i)'
<1>1. \A e \in 2 .. Len(i.envs) : EnvOK(i, e)'
  BY EnvKept DEF HeapOK, EnvOK
<1>2. \A id \in 1 .. Len(i.objects) : ObjectOK(i, id)'
  BY ObjectKept DEF HeapOK
<1>3. AllOK(i, i.globals)'
  BY MapsKept DEF HeapOK
<1>4. IsInterpreter(i)'
  BY DEF HeapOK, IsInterpreter, EnvSet, FrameSet, SlotSet, ValueSet, ObjectValues, FunctionValues, NameSet, ScopeSet, IsSequence
<1>. QED BY <1>1, <1>2, <1>3, <1>4 DEF HeapOK

-----------------------------------------------------------------------------
(* Between two steps of a run *)

Paused == GoodLine /\ UNCHANGED <<program, line, phase, locals>>
LEMMA PausedGoesOn ==
  ASSUME Paused
  PROVE  /\ GoesOn /\ Known = Len(program) + 1 /\ UNCHANGED program /\ UNCHANGED line /\ Nodes' = Nodes
         /\ Len(program) \in Nat
<1>1. TextIsPlaced /\ Placed(program) /\ Len(program) \in Nat /\ phase = "executing" /\ InnermostIn(program, Len(program)) = 0
  BY DEF Paused, GoodLine, TextIsPlaced, Placed
<1>2. Known = Len(program) + 1 /\ Known' = Known /\ Known - 1 = Len(program)
  BY <1>1 DEF Paused, Known
<1>3. Placed(program)' /\ Extends(program, program')
  <2>1. program' = program
    BY DEF Paused
  <2>2. Placed(program')
    BY <1>1, <2>1
  <2>3. Placed(program)'
    BY <1>1, <2>1 DEF Placed, InnermostIn, OpenIn
  <2>. QED BY <1>1, <2>1, <2>3 DEF Extends
<1>4. TextGrows(Len(program))
  BY <1>1, <1>3 DEF TextGrows
<1>5. \A j : AddressGiven(locals, j)' = AddressGiven(locals, j)
  BY DEF Paused, AddressGiven
<1>6. UNCHANGED program /\ UNCHANGED line /\ Nodes' = Nodes
  BY DEF Paused, Nodes
<1>7. TextGrows(Known - 1)
  BY <1>2, <1>4
<1>. QED BY <1>1, <1>2, <1>5, <1>6, <1>7 DEF GoesOn

LEMMA OperandsUnchanged ==
  ASSUME UNCHANGED program, NEW n
  PROVE  Operands(program, n)' = Operands(program, n)
BY DEF Operands

LEMMA AtStays ==
  ASSUME Paused, NEW i, NEW e, NEW p, NEW u, At(i, e, p, u)
  PROVE  At(i, e, p, u)'
<1>1. GoesOn /\ Known = Len(program) + 1 /\ UNCHANGED program /\ UNCHANGED line /\ Nodes' = Nodes /\ Len(program) \in Nat
  BY PausedGoesOn
<1>2. \A n : InnermostIn(program, n)' = InnermostIn(program, n)
  BY <1>1, ScopesStay
<1>3. InnerScope(u)' = InnerScope(u)
  <2>1. ScopesOf(u)' = ScopesOf(u)
    BY <1>1, ScopesStay
  <2>. QED BY <2>1 DEF InnerScope
<1>4. u # 0 => Runs(u)'
  <2>1. u # 0 => u \in Nodes /\ Runs(u)
    BY DEF At
  <2>2. \A j \in Nodes : j < Known
    BY <1>1 DEF Nodes
  <2>. QED BY <1>1, <2>1, <2>2, KnownKept
<1>5. UpTo(u, Len(i.envs[e].slots), p)' = UpTo(u, Len(i.envs[e].slots), p)
  <2>1. Declarations(<<u, "block">>)' = Declarations(<<u, "block">>)
    BY <1>1, DeclarationsStay
  <2>2. Begun(program, p)' = Begun(program, p)
    BY <1>1, BegunStays
  <2>. QED BY <2>1, <2>2 DEF UpTo, Done
<1>6. (program[u].kind)' = program[u].kind /\ Len(program)' = Len(program)
  BY <1>1
<1>. QED BY <1>1, <1>2, <1>3, <1>4, <1>5, <1>6 DEF At, globals, Openers

LEMMA MatchStays ==
  ASSUME Paused, NEW i, NEW values, NEW waiting, Match(i, values, waiting)
  PROVE  Match(i, values, waiting)'
<1>1. GoesOn /\ UNCHANGED program
  BY PausedGoesOn
<1>2. \A v : ValueOK(i, v) => ValueOK(i, v)'
  BY <1>1, ValueKept
<1>. QED BY <1>1, <1>2 DEF Match, ObjectValues

LEMMA FrameStays ==
  ASSUME Paused, NEW i, NEW f, FrameHas(i, f)
  PROVE  FrameHas(i, f)'
<1>1. GoesOn /\ UNCHANGED program
  BY PausedGoesOn
<1>2. CASE IsCall(f)
  <2>1. PICK w : w = Leaves(program[f.opener], Operands(program, f.opener - 1))
    OBVIOUS
  <2>2. FunctionOK(i, f.function) /\ ValueOK(i, f.instance) /\ Match(i, f.values, w) /\ program[f.opener].kind \in {"call", "get", "super"}
    BY <1>2, <2>1 DEF FrameHas
  <2>3. FunctionOK(i, f.function)' /\ ValueOK(i, f.instance)' /\ Match(i, f.values, w)'
    BY <1>1, <2>2, FunctionKept, ValueKept, MatchStays
  <2>4. Leaves(program[f.opener], Operands(program, f.opener - 1))' = w
    <3>1. Operands(program, f.opener - 1)' = Operands(program, f.opener - 1)
      BY <1>1, OperandsUnchanged
    <3>. QED BY <1>1, <2>1, <3>1 DEF Leaves, Pops
  <2>5. Match(i, f.values, Leaves(program[f.opener], Operands(program, f.opener - 1)))'
    BY <2>3, <2>4 DEF Match
  <2>. QED BY <1>1, <1>2, <2>2, <2>3, <2>5 DEF FrameHas, IsCall
<1>3. CASE ~IsCall(f)
  BY <1>1, <1>3 DEF FrameHas, IsCall
<1>. QED BY <1>2, <1>3

LEMMA RunningStays ==
  ASSUME Paused, NEW i, Running(i)
  PROVE  Running(i)'
<1>1. GoesOn /\ UNCHANGED program /\ Nodes' = Nodes
  BY PausedGoesOn
<1>2. HeapOK(i)'
  BY <1>1, HeapStays DEF Running, Standing
<1>3. \A s, k : InnerOf(s, k)' = InnerOf(s, k)
  BY DEF InnerOf, IsCall
<1>4. At(i, i.environment, i.pc, InnerOf(i.stack, Len(i.stack)))'
  <2>1. PICK u : u = InnerOf(i.stack, Len(i.stack))
    OBVIOUS
  <2>2. At(i, i.environment, i.pc, u)'
    BY <2>1, AtStays DEF Running, Standing
  <2>. QED BY <1>3, <2>1, <2>2
<1>5. FramesOK(i)'
  <2>1. ASSUME NEW k \in 1 .. Len(i.stack)
        PROVE  FrameOK(i, i.stack, k)' /\ i.stack[k].previous < i.environment
    <3>1. FrameOK(i, i.stack, k) /\ i.stack[k].previous < i.environment
      BY DEF Running, Standing, FramesOK
    <3>2. PICK u : u = InnerOf(i.stack, k - 1)
      OBVIOUS
    <3>3. At(i, i.stack[k].previous, i.stack[k].opener, u)' /\ FrameHas(i, i.stack[k])'
      BY <3>1, <3>2, AtStays, FrameStays DEF FrameOK
    <3>4. At(i, i.stack[k].previous, i.stack[k].opener, InnerOf(i.stack, k - 1))'
      BY <1>3, <3>2, <3>3
    <3>. QED BY <1>1, <3>1, <3>3, <3>4 DEF FrameOK
  <2>. QED BY <2>1 DEF FramesOK
<1>6. Match(i, i.values, Operands(program, i.pc - 1))'
  <2>1. PICK w : w = Operands(program, i.pc - 1)
    OBVIOUS
  <2>2. Match(i, i.values, w)'
    BY <2>1, MatchStays DEF Running
  <2>3. Operands(program, i.pc - 1)' = w
    BY <1>1, <2>1, OperandsUnchanged
  <2>. QED BY <2>2, <2>3 DEF Match
<1>. QED BY <1>2, <1>4, <1>5, <1>6 DEF Running, Standing

LEMMA FineStays ==
  ASSUME Paused, NEW i, Fine(i)
  PROVE  Fine(i)'
<1>1. GoesOn /\ UNCHANGED program /\ Nodes' = Nodes
  BY PausedGoesOn
<1>2. HeapOK(i)'
  BY <1>1, HeapStays DEF Fine
<1>3. i.status = "running" => Running(i)'
  BY RunningStays DEF Fine
<1>4. AssignsItself(i.pc)' = AssignsItself(i.pc)
  <2>1. Begun(program, i.pc)' = Begun(program, i.pc)
    BY <1>1, BegunStays
  <2>. QED BY <1>1, <2>1 DEF AssignsItself, InScopeOf
<1>5. Idle(i)' = Idle(i)
  BY DEF Idle, globals
<1>. QED BY <1>1, <1>2, <1>3, <1>4, <1>5 DEF Fine

\* The state of the interpreter, by whatever name.
SameByName == \A i : i = interp => (Fine(i) => Fine(interp)) /\ (HeapOK(i) => HeapOK(interp)) /\ (Idle(i) => Idle(interp))
LEMMA ByName == SameByName
BY DEF SameByName
LEMMA NextByName == SameByName'
BY ByName, PTL

LEMMA RunStays ==
  ASSUME Paused, Fine(interp')
  PROVE  Fine(interp)'
<1>1. PICK i : i = interp'
  OBVIOUS
<1>2. Fine(i)'
  BY <1>1, FineStays
<1>. QED BY <1>1, <1>2, NextByName DEF SameByName

-----------------------------------------------------------------------------
(* The scopes of the environments *)

\* What is computed up the environments, from each to the one that encloses it.
Ascends(g, i, U, none, step) ==
  /\ g \in [0 .. Len(i.envs) -> U] /\ g[0] = none
  /\ \A e \in 1 .. Len(i.envs) : g[e] = step[<<e, g[IF e = globals THEN 0 ELSE i.envs[e].enclosing]>>]
LEMMA UpTheEnvironments ==
  ASSUME NEW i, HeapOK(i), NEW U, NEW none \in U, NEW step, Steps(step, Len(i.envs), U)
  PROVE  \E g : Ascends(g, i, U, none, step)
<1> DEFINE l == Len(i.envs)
           up == [e \in 1 .. l |-> IF e = globals THEN 0 ELSE i.envs[e].enclosing]
<1>1. IsInterpreter(i) /\ l \in Nat
  BY InterpreterIs DEF HeapOK
<1>2. \A e \in 1 .. l : up[e] = IF e = globals THEN 0 ELSE i.envs[e].enclosing
  <2> HIDE DEF l
  <2>. QED OBVIOUS
<1>3. \A e \in 1 .. l : up[e] \in 0 .. e - 1
  <2> TAKE e \in 1 .. l
  <2>1. CASE e = globals
    BY <1>1, <1>2, <2>1 DEF globals
  <2>2. CASE e # globals
    <3>1. e \in 2 .. l
      BY <1>1, <2>2 DEF globals
    <3>2. i.envs[e].enclosing < e /\ i.envs[e].enclosing \in Nat
      BY <1>1, <3>1, InterpreterIs DEF HeapOK, EnvOK
    <3>. QED BY <1>1, <1>2, <2>2, <3>2
  <2>. QED BY <2>1, <2>2
<1> HIDE DEF up
<1>4. PICK g : g \in [0 .. l -> U] /\ Climbs(g, l, none, up, step)
  BY <1>1, <1>3, TreeRecursion
<1> DEFINE Mine(e) == IF e = 0 THEN none ELSE step[<<e, g[up[e]]>>]
<1>5. \A e \in 0 .. l : g[e] = Mine(e)
  <2>1. g = [e \in 0 .. l |-> Mine(e)]
    BY <1>4, Zenon DEF Climbs
  <2> DEFINE h == [e \in 0 .. l |-> Mine(e)]
  <2> HIDE DEF Mine, l
  <2>2. \A e \in 0 .. l : h[e] = Mine(e)
    OBVIOUS
  <2>3. g = h
    BY <2>1 DEF h
  <2> HIDE DEF h
  <2>. QED BY <2>2, <2>3
<1>6. g[0] = none
  <2>1. 0 \in 0 .. l
    BY <1>1
  <2>. QED BY <1>5, <2>1
<1>7. ASSUME NEW e \in 1 .. l
      PROVE  g[e] = step[<<e, g[IF e = globals THEN 0 ELSE i.envs[e].enclosing]>>]
  <2>1. e \in 0 .. l /\ e # 0
    BY <1>1
  <2>2. g[e] = step[<<e, g[up[e]]>>]
    BY <1>5, <2>1
  <2>. QED BY <1>2, <2>2
<1>8. Ascends(g, i, U, none, step)
  BY <1>4, <1>6, <1>7 DEF Ascends
<1>. QED BY <1>8

\* The chain of scopes that begins with s.
Follows(a, s) ==
  a \in Seq(ScopeSet) /\ After(a, 0) = s /\ \A n \in 1 .. Len(a) : Beyond(a[n]) = After(a, n)
LEMMA FollowsLonger ==
  ASSUME NEW s \in ScopeSet, NEW x, Follows(x, Beyond(s))
  PROVE  Follows(<<s>> \o x, s)
<1> DEFINE one == <<s>>
           b == one \o x
<1>1. one \in Seq(ScopeSet) /\ Len(one) = 1 /\ one[1] = s
  OBVIOUS
<1>2. x \in Seq(ScopeSet) /\ Len(x) \in Nat /\ After(x, 0) = Beyond(s) /\ \A n \in 1 .. Len(x) : Beyond(x[n]) = After(x, n)
  BY DEF Follows
<1> HIDE DEF one
<1>3. b \in Seq(ScopeSet) /\ Len(b) = 1 + Len(x) /\ b[1] = s /\ \A n \in 1 .. Len(x) : b[1 + n] = x[n]
  <2>0. one \in Seq(ScopeSet) /\ x \in Seq(ScopeSet)
    BY <1>1, <1>2
  <2>1. b \in Seq(ScopeSet) /\ Len(b) = Len(one) + Len(x) /\ \A n \in 1 .. Len(one) : b[n] = one[n]
    BY <2>0, Concatenated
  <2>2. \A n \in 1 .. Len(x) : b[Len(one) + n] = x[n]
    BY <2>0, Concatenated
  <2> HIDE DEF b
  <2>3. 1 \in 1 .. Len(one)
    BY <1>1
  <2>. QED BY <1>1, <2>1, <2>2, <2>3
<1> HIDE DEF b
<1>4. Beyond(s) = After(b, 1)
  <2>1. Len(x) # 0 => b[1 + 1] = x[1]
    BY <1>2, <1>3
  <2>. QED BY <1>2, <1>3, <2>1 DEF After
<1>5. ASSUME NEW n \in 1 .. Len(x)
      PROVE  Beyond(b[1 + n]) = After(b, 1 + n)
  <2>1. n # Len(x) => n + 1 \in 1 .. Len(x)
    BY <1>2
  <2>2. n # Len(x) => b[1 + (n + 1)] = x[n + 1]
    BY <1>3, <2>1
  <2>3. After(b, 1 + n) = After(x, n)
    BY <1>2, <1>3, <2>2 DEF After
  <2>. QED BY <1>2, <1>3, <2>3
<1>6. ASSUME NEW n \in 1 .. Len(b)
      PROVE  Beyond(b[n]) = After(b, n)
  <2>1. CASE n = 1
    BY <1>3, <1>4, <2>1
  <2>2. CASE n # 1
    <3>1. n - 1 \in 1 .. Len(x) /\ n = 1 + (n - 1)
      BY <1>2, <1>3, <2>2
    <3>2. PICK m \in 1 .. Len(x) : n = 1 + m
      BY <3>1
    <3>. QED BY <1>5, <3>2
  <2>. QED BY <2>1, <2>2
<1>7. After(b, 0) = s
  BY <1>2, <1>3 DEF After
<1>8. Follows(b, s)
  BY <1>3, <1>6, <1>7 DEF Follows
<1>. QED BY <1>8 DEF b, one

\* There is one.
LEMMA FollowsAlike ==
  ASSUME NEW a, NEW b, NEW s, Follows(a, s), Follows(b, s)
  PROVE  Len(a) <= Len(b) /\ \A n \in 1 .. Len(a) : a[n] = b[n]
<1>1. a \in Seq(ScopeSet) /\ b \in Seq(ScopeSet) /\ Len(a) \in Nat /\ Len(b) \in Nat
  BY DEF Follows
<1>2. \A n \in 1 .. Len(a) : a[n] # <<>>
  BY <1>1, InnerScopeIs
<1> DEFINE S == {n \in Nat : n <= Len(a) => n <= Len(b) /\ (n # 0 => a[n] = b[n])}
<1>3. 0 \in S
  BY <1>1
<1>4. ASSUME NEW n \in Nat, n \in S
      PROVE  n + 1 \in S
  <2> SUFFICES ASSUME n + 1 <= Len(a)
               PROVE  n + 1 <= Len(b) /\ a[n + 1] = b[n + 1]
    OBVIOUS
  <2>1. After(a, n) = After(b, n) /\ n <= Len(b)
    <3>1. CASE n = 0
      BY <1>1, <3>1 DEF Follows
    <3>2. CASE n # 0
      <4>1. n \in 1 .. Len(a) /\ n \in 1 .. Len(b) /\ a[n] = b[n]
        BY <1>1, <1>4, <3>2
      <4>2. Beyond(a[n]) = After(a, n) /\ Beyond(b[n]) = After(b, n)
        BY <4>1 DEF Follows
      <4>. QED BY <1>1, <4>1, <4>2
    <3>. QED BY <3>1, <3>2
  <2>2. n + 1 \in 1 .. Len(a) /\ n # Len(a)
    BY <1>1
  <2>3. After(a, n) = a[n + 1] /\ a[n + 1] # <<>>
    BY <1>2, <2>2 DEF After
  <2>4. n # Len(b) /\ After(b, n) = b[n + 1]
    BY <2>1, <2>3 DEF After
  <2>5. n + 1 <= Len(b)
    BY <1>1, <2>1, <2>4
  <2>6. a[n + 1] = b[n + 1]
    BY <2>1, <2>3, <2>4
  <2>. QED BY <2>5, <2>6
<1> HIDE DEF S
<1>5. Nat \subseteq S
  BY <1>3, <1>4, SetInduction
<1>6. Len(a) \in S /\ \A n \in 1 .. Len(a) : n \in S
  BY <1>1, <1>5
<1>7. Len(a) <= Len(b)
  BY <1>1, <1>6 DEF S
<1>8. \A n \in 1 .. Len(a) : a[n] = b[n]
  BY <1>1, <1>6 DEF S
<1>. QED BY <1>7, <1>8

LEMMA FollowsOnce ==
  ASSUME NEW a, NEW b, NEW s, Follows(a, s), Follows(b, s)
  PROVE  a = b
<1>1. a \in Seq(ScopeSet) /\ b \in Seq(ScopeSet) /\ Len(a) \in Nat /\ Len(b) \in Nat
  BY DEF Follows
<1>2. Len(a) <= Len(b) /\ Len(b) <= Len(a) /\ \A n \in 1 .. Len(a) : a[n] = b[n]
  BY FollowsAlike
<1>3. Len(a) = Len(b)
  BY <1>1, <1>2
<1>. QED BY <1>1, <1>2, <1>3

LEMMA ChainFollows ==
  ASSUME NEW a, NEW u, IsChain(a, u)
  PROVE  Follows(a, InnerScope(u))
BY DEF IsChain, Follows

\* Every environment is in the scopes that follow its own.
LEMMA ScopesOfEnvironmentIs ==
  ASSUME HeapOK(interp), NEW env \in 1 .. Len(interp.envs)
  PROVE  Follows(ScopesOfEnvironment(env), interp.envs[env].scope)
<1> DEFINE l == Len(interp.envs)
           U == Seq(ScopeSet)
           none == <<>>
           More(e, x) == IF e = globals THEN <<>> ELSE <<interp.envs[e].scope>> \o x
           step == [p \in (1 .. l) \X U |-> More(p[1], p[2])]
           Is(g) == g = [e \in 0 .. Len(interp.envs) |->
                           IF e \in {0, globals} THEN <<>> ELSE <<interp.envs[e].scope>> \o g[interp.envs[e].enclosing]]
           f == CHOOSE g : Is(g)
<1>1. IsInterpreter(interp) /\ l \in Nat /\ interp.envs[1].scope = <<>>
  BY InterpreterIs DEF HeapOK
<1>2. none \in U
  OBVIOUS
<1>3. \A e \in 2 .. l : /\ interp.envs[e].scope \in ScopeSet /\ interp.envs[e].enclosing \in 1 .. e - 1
                        /\ interp.envs[interp.envs[e].enclosing].scope = Beyond(interp.envs[e].scope)
  <2> TAKE e \in 2 .. l
  <2>1. EnvOK(interp, e) /\ e \in 1 .. l
    BY <1>1 DEF HeapOK
  <2>2. IsScope(interp.envs[e].scope) /\ Stands(interp, interp.envs[e].enclosing, Beyond(interp.envs[e].scope), interp.envs[e].scope[1])
    BY <2>1 DEF EnvOK, EnvFits
  <2>3. interp.envs[e].enclosing < e /\ interp.envs[e].enclosing \in 1 .. l
    BY <2>1, <2>2 DEF EnvOK, Stands
  <2>. QED BY <1>1, <2>2, <2>3 DEF IsScope, Stands
<1>4. \A e \in 1 .. l, x \in U : More(e, x) \in U
  <2> SUFFICES ASSUME NEW e \in 1 .. l, NEW x \in U, e # globals
               PROVE  <<interp.envs[e].scope>> \o x \in U
    BY <1>2
  <2>1. e \in 2 .. l
    BY <1>1 DEF globals
  <2>2. interp.envs[e].scope \in ScopeSet
    BY <1>3, <2>1
  <2>3. <<interp.envs[e].scope>> \in U
    BY <2>2
  <2>. QED BY <2>3, Concatenated
<1>5. \A e \in 1 .. l, x \in U : step[<<e, x>>] = More(e, x)
  <2> HIDE DEF U, More, l
  <2>. QED OBVIOUS
<1>6. ScopesOfEnvironment(env) = f[env]
  BY DEF ScopesOfEnvironment
<1> HIDE DEF U, step, none
<1>7. PICK g : /\ g \in [0 .. l -> U] /\ g[0] = none
              /\ \A e \in 1 .. l : g[e] = step[<<e, g[IF e = globals THEN 0 ELSE interp.envs[e].enclosing]>>]
  <2>1. Steps(step, l, U)
    BY <1>4, <1>5 DEF Steps
  <2>2. PICK g : Ascends(g, interp, U, none, step)
    BY <1>2, <2>1, UpTheEnvironments
  <2>. QED BY <2>2 DEF Ascends
<1> DEFINE Theirs(e, g_) == IF e \in {0, globals} THEN <<>> ELSE <<interp.envs[e].scope>> \o g_[interp.envs[e].enclosing]
<1>8. Is(g)
  <2>1. \A e \in 0 .. l : g[e] = Theirs(e, g)
    <3> TAKE e \in 0 .. l
    <3>1. CASE e = 0
      BY <1>7, <3>1 DEF none
    <3>2. CASE e # 0
      <4>1. e \in 1 .. l
        BY <1>1, <3>2
      <4>2. PICK v : v = IF e = globals THEN 0 ELSE interp.envs[e].enclosing
        OBVIOUS
      <4>3. v \in 0 .. l
        <5>1. e # globals => e \in 2 .. l
          BY <1>1, <4>1 DEF globals
        <5>. QED BY <1>1, <1>3, <4>2, <5>1
      <4>4. g[v] \in U /\ g[e] = step[<<e, g[v]>>]
        BY <1>7, <4>1, <4>2, <4>3
      <4>5. g[e] = More(e, g[v])
        BY <1>5, <4>1, <4>4
      <4>. QED BY <3>2, <4>2, <4>5
    <3>. QED BY <3>1, <3>2
  <2> HIDE DEF Theirs
  <2>2. g = [e \in 0 .. l |-> Theirs(e, g)]
    BY <1>7, <2>1
  <2>. QED BY <2>2, Zenon DEF Theirs
<1>9. Is(f)
  <2> HIDE DEF Is
  <2>. QED BY <1>8 DEF f
<1> HIDE DEF f
<1>10. \A e \in 0 .. l : f[e] = Theirs(e, f)
  <2>1. f = [e \in 0 .. l |-> Theirs(e, f)]
    BY <1>9, Zenon
  <2> DEFINE h == [e \in 0 .. l |-> Theirs(e, f)]
  <2>2. f = h
    BY <2>1
  <2> HIDE DEF Theirs, l
  <2>3. \A e \in 0 .. l : h[e] = Theirs(e, f)
    OBVIOUS
  <2> HIDE DEF h
  <2>. QED BY <2>2, <2>3
<1> HIDE DEF Is
<1> DEFINE S == {n \in Nat : \A e \in 1 .. l : e <= n => Follows(f[e], interp.envs[e].scope)}
<1>11. 0 \in S
  BY <1>1
<1>12. ASSUME NEW n \in Nat, n \in S
       PROVE  n + 1 \in S
  <2> SUFFICES ASSUME NEW e \in 1 .. l, e <= n + 1
               PROVE  Follows(f[e], interp.envs[e].scope)
    OBVIOUS
  <2>0. e \in 0 .. l /\ e # 0
    BY <1>1
  <2>1. CASE e = globals
    <3>1. PICK r : r = f[e]
      OBVIOUS
    <3>2. r = <<>>
      BY <1>10, <2>0, <2>1, <3>1
    <3>3. Follows(r, <<>>)
      <4>1. r \in Seq(ScopeSet) /\ Len(r) = 0
        BY <3>2
      <4>. QED BY <4>1 DEF Follows, After
    <3>4. interp.envs[e].scope = <<>>
      BY <1>1, <2>1 DEF globals
    <3>. QED BY <3>1, <3>3, <3>4
  <2>2. CASE e # globals
    <3>1. e \in 2 .. l
      BY <1>1, <2>2 DEF globals
    <3>2. PICK s, v : s = interp.envs[e].scope /\ v = interp.envs[e].enclosing
      OBVIOUS
    <3>3. s \in ScopeSet /\ v \in 1 .. e - 1 /\ interp.envs[v].scope = Beyond(s)
      BY <1>3, <3>1, <3>2
    <3>4. v \in 1 .. l /\ v <= n
      BY <1>1, <3>1, <3>3
    <3>5. Follows(f[v], Beyond(s))
      BY <1>12, <3>3, <3>4
    <3>6. Follows(<<s>> \o f[v], s)
      BY <3>3, <3>5, FollowsLonger
    <3>7. f[e] = <<s>> \o f[v]
      BY <1>10, <2>0, <2>2, <3>2
    <3>. QED BY <3>2, <3>6, <3>7
  <2>. QED BY <2>1, <2>2
<1> HIDE DEF S
<1>13. Nat \subseteq S
  BY <1>11, <1>12, SetInduction
<1>14. env \in Nat /\ env \in S /\ env <= env
  BY <1>1, <1>13
<1>15. Follows(f[env], interp.envs[env].scope)
  BY <1>14 DEF S
<1>. QED BY <1>6, <1>15

-----------------------------------------------------------------------------
(* What super is *)

\* The k-th scope of a chain is the one for this in body w, and the first such.
ThisIsAt(a, k, w) == k \in 1 .. Len(a) /\ a[k] = <<w, "this">> /\ \A n \in 1 .. k - 1 : a[n][2] = "block"
LEMMA ThisFirst ==
  ASSUME Placed(program)
  PROVE  \A u \in Nat : u \in Nodes /\ IsOpener(program[u]) /\ InsideOf(u, {"body"}) # 0
                        => \E k : ThisIsAt(ScopesInside(u), k, InsideOf(u, {"body"}))
<1> DEFINE Right(u) == u \in Nodes /\ IsOpener(program[u]) /\ InsideOf(u, {"body"}) # 0
                       => \E k : ThisIsAt(ScopesInside(u), k, InsideOf(u, {"body"}))
           S == {n \in Nat : \A u \in 0 .. n : Right(u)}
<1>1. 0 \in S
  <2>1. \A u \in 0 .. 0 : u \notin Nodes
    BY DEF Nodes
  <2>. QED BY <2>1
<1>2. ASSUME NEW n \in Nat, n \in S
      PROVE  n + 1 \in S
  <2>1. PICK u : u = n + 1
    OBVIOUS
  <2>2. ASSUME u \in Nodes, IsOpener(program[u]), InsideOf(u, {"body"}) # 0
        PROVE  \E k : ThisIsAt(ScopesInside(u), k, InsideOf(u, {"body"}))
    <3>1. PICK v : v = program[u].in
      OBVIOUS
    <3>2. v \in 0 .. n /\ u \in Nat /\ v < u /\ u # 0 /\ v \in Nat /\ (v # 0 => v \in Nodes /\ IsOpener(program[v]))
      BY <2>1, <2>2, <3>1, InIsBefore
    <3>3. PICK a : a = ScopesInside(v)
      OBVIOUS
    <3>4. IsChain(a, v) /\ a \in Seq(ScopeSet)
      BY <3>2, <3>3, ChainInside DEF IsChain
    <3>5. ScopesInside(u) = ScopesOf(u) \o a
      <4>1. ScopesAround(u) = Outer(u)
        BY <2>2, AroundIs
      <4>2. Outer(u) = a
        BY <3>1, <3>3 DEF Outer, ScopesInside
      <4>. QED BY <3>2, <4>1, <4>2 DEF ScopesInside
    <3>6. PICK b : b = ScopesOf(u)
      OBVIOUS
    <3>7. b \in Seq(ScopeSet) /\ Len(b) \in {1, 2}
      BY <3>2, <3>6, ScopesOfAre
    <3>8. PICK c : c = b \o a
      OBVIOUS
    <3>9. c \in Seq(ScopeSet) /\ Len(c) = Len(b) + Len(a) /\ \A m \in 1 .. Len(b) : c[m] = b[m]
      BY <3>4, <3>7, <3>8, Concatenated
    <3>10. \A m \in 1 .. Len(a) : c[Len(b) + m] = a[m]
      BY <3>4, <3>7, <3>8, Concatenated
    <3>11. CASE program[u].kind = "body"
      <4>1. InsideOf(u, {"body"}) = u
        BY <3>2, <3>11 DEF InsideOf
      <4>2. b = <<<<u, "this">>>> \/ b = <<<<u, "this">>, <<u, "super">>>>
        BY <3>2, <3>6, <3>11, ScopesOfAre
      <4>3. b[1] = <<u, "this">>
        BY <4>2
      <4>4. 1 \in 1 .. Len(b) /\ 1 \in 1 .. Len(c)
        BY <3>4, <3>7, <3>9
      <4>5. ThisIsAt(c, 1, u)
        BY <3>9, <4>3, <4>4 DEF ThisIsAt
      <4>. QED BY <3>5, <3>6, <3>8, <4>1, <4>5
    <3>12. CASE program[u].kind # "body"
      <4>1. InsideOf(u, {"body"}) = InsideOf(v, {"body"})
        <5>1. InsideOf(u, {"body"}) = InnermostOf(u, {"body"})
          BY <3>2, <3>12 DEF InsideOf
        <5>. QED BY <2>2, <3>1, <5>1, InnermostOfIs
      <4>2. PICK w : w = InsideOf(v, {"body"})
        OBVIOUS
      <4>3. w # 0 /\ v # 0
        BY <2>2, <4>1, <4>2 DEF InsideOf
      <4>4. Right(v)
        BY <1>2, <3>2
      <4>5. PICK k : ThisIsAt(a, k, w)
        BY <3>2, <3>3, <4>2, <4>3, <4>4
      <4>6. b = <<<<u, "block">>>>
        BY <3>2, <3>6, <3>12, ScopesOfAre
      <4>7. Len(b) = 1 /\ b[1] = <<u, "block">>
        BY <4>6
      <4>8. k \in 1 .. Len(a) /\ a[k] = <<w, "this">> /\ \A m \in 1 .. k - 1 : a[m][2] = "block"
        BY <4>5 DEF ThisIsAt
      <4>9. Len(a) \in Nat /\ k + 1 \in 1 .. Len(c)
        BY <3>4, <3>9, <4>7, <4>8
      <4>10. c[k + 1] = <<w, "this">>
        <5>1. c[1 + k] = a[k]
          BY <3>10, <4>7, <4>8
        <5>2. 1 + k = k + 1
          BY <4>8, <4>9
        <5>. QED BY <4>8, <5>1, <5>2
      <4>11. ASSUME NEW m \in 1 .. (k + 1) - 1
             PROVE  c[m][2] = "block"
        <5>1. CASE m = 1
          <6>1. c[1] = b[1]
            BY <3>9, <4>7
          <6>. QED BY <4>7, <5>1, <6>1
        <5>2. CASE m # 1
          <6>1. m - 1 \in 1 .. k - 1 /\ m = 1 + (m - 1) /\ m - 1 \in 1 .. Len(a)
            BY <4>8, <4>9, <5>2
          <6>2. PICK j : j = m - 1
            OBVIOUS
          <6>3. c[1 + j] = a[j] /\ a[j][2] = "block" /\ m = 1 + j
            BY <3>10, <4>7, <4>8, <6>1, <6>2
          <6>. QED BY <6>3
        <5>. QED BY <5>1, <5>2
      <4>12. ThisIsAt(c, k + 1, w)
        BY <4>9, <4>10, <4>11 DEF ThisIsAt
      <4>. QED BY <3>5, <3>6, <3>8, <4>1, <4>2, <4>12
    <3>. QED BY <3>11, <3>12
  <2>3. \A w \in 0 .. n + 1 : w \in 0 .. n \/ w = u
    BY <2>1
  <2>4. Right(u)
    BY <2>2
  <2> HIDE DEF Right
  <2>. QED BY <1>2, <2>3, <2>4
<1> HIDE DEF S
<1>3. Nat \subseteq S
  BY <1>1, <1>2, SetInduction
<1>4. \A u \in Nat : u \in 0 .. u
  OBVIOUS
<1>. QED BY <1>3, <1>4 DEF S

\* In a subclass super is right around this, whatever blocks, functions and
\* methods are between.
LEMMA SuperAroundThis ==
  ASSUME TextIsPlaced, NEW p \in Nodes, NEW w, w = InnermostOf(p, {"body"}), w # 0, IsSubclass(w), NEW a, a = ScopesAround(p)
  PROVE  \E k : ThisIsAt(a, k, w) /\ LexicalAddress(p, "super") = <<k, 0>>
<1>1. Placed(program) /\ p \in Nat
  BY DEF TextIsPlaced, Nodes
<1>2. PICK u : u = program[p].in
  OBVIOUS
<1>3. u \in Nat /\ (u # 0 => u \in Nodes /\ IsOpener(program[u])) /\ w = InsideOf(u, {"body"}) /\ w \in 0 .. p - 1
      /\ program[w].kind = "body"
  BY <1>1, <1>2, InIsBefore, InnermostOfIs
<1>4. u # 0
  BY <1>3 DEF InsideOf
<1>5. IsChain(a, u) /\ a = ScopesInside(u)
  BY <1>1, <1>2, ChainAround
<1>6. PICK k : ThisIsAt(a, k, w)
  BY <1>1, <1>3, <1>4, <1>5, ThisFirst
<1>7. /\ a \in Seq(ScopeSet) /\ Len(a) \in Nat /\ DOMAIN a = 1 .. Len(a)
      /\ \A n \in 1 .. Len(a) : IsScope(a[n]) /\ Beyond(a[n]) = After(a, n)
  BY <1>5 DEF IsChain
<1>8. k \in 1 .. Len(a) /\ a[k] = <<w, "this">> /\ \A n \in 1 .. k - 1 : a[n][2] = "block"
  BY <1>6 DEF ThisIsAt
<1>9. Beyond(a[k]) = <<w, "super">>
  BY <1>8 DEF Beyond
<1>10. <<w, "super">> # <<>>
  OBVIOUS
<1>11. k # Len(a) /\ a[k + 1] = <<w, "super">>
  BY <1>7, <1>8, <1>9, <1>10 DEF After
<1>12. k + 1 \in 1 .. Len(a) /\ k \in Nat
  <2>1. PICK l : l = Len(a)
    OBVIOUS
  <2>2. l \in Nat /\ k \in 1 .. l /\ k # l
    BY <1>7, <1>8, <1>11, <2>1
  <2>3. k + 1 \in 1 .. l /\ k \in Nat
    BY <2>2
  <2>. QED BY <2>1, <2>3
<1> DEFINE At_(n) == NamedBefore(p, a[n], "super")
           holding == {n \in DOMAIN a : At_(n) # {}}
<1>13. \A n \in DOMAIN a : At_(n) # {} => a[n][2] = "super"
  <2> SUFFICES ASSUME NEW n \in 1 .. Len(a), At_(n) # {}
               PROVE  a[n][2] = "super"
    BY <1>7
  <2>1. PICK s : s = a[n]
    OBVIOUS
  <2>2. IsScope(s) /\ s \in ScopeSet /\ s[1] \in Nodes
    BY <1>7, <2>1 DEF IsScope
  <2>3. Typed(s)
    BY <1>1, <2>2, DeclarationsTyped
  <2>4. PICK m \in 1 .. Len(Declarations(s)) : Declarations(s)[m].name = "super"
    BY <2>1, <2>3 DEF NamedBefore, Typed
  <2>. QED BY <2>1, <2>2, <2>4, WordsApart
<1>14. At_(k + 1) = {1}
  <2>1. PICK d : d = Declarations(<<w, "super">>)
    OBVIOUS
  <2>2. d = <<[name |-> "super", node |-> w]>>
    BY <2>1, DeclarationsOfWord
  <2>3. DOMAIN d = {1} /\ d[1].name = "super" /\ d[1].node = w
    BY <2>2
  <2>4. w < p
    BY <1>1, <1>3
  <2>. QED BY <1>11, <2>1, <2>3, <2>4 DEF NamedBefore
<1>15. holding \subseteq Nat /\ k + 1 \in holding
  <2>1. holding \subseteq DOMAIN a /\ DOMAIN a \subseteq Nat
    BY <1>7
  <2>2. k + 1 \in DOMAIN a /\ At_(k + 1) # {}
    BY <1>7, <1>12, <1>14
  <2> HIDE DEF At_
  <2>. QED BY <2>1, <2>2
<1>16. \A n \in holding : n > k
  <2> SUFFICES ASSUME NEW n \in 1 .. Len(a), a[n][2] = "super"
               PROVE  n > k
    BY <1>7, <1>13
  <2>1. a[k][2] = "this"
    BY <1>8
  <2>2. n # k
    BY <2>1
  <2>3. n \notin 1 .. k - 1
    BY <1>8
  <2>. QED BY <1>7, <1>12, <2>2, <2>3
<1>17. PICK nearest : nearest = Min(holding)
  OBVIOUS
<1>18. nearest = k + 1
  <2>1. nearest \in holding /\ nearest <= k + 1
    <3> HIDE DEF holding
    <3>. QED BY <1>15, <1>17, MinIs
  <2>2. nearest > k /\ nearest \in Nat
    BY <1>15, <1>16, <2>1
  <2>. QED BY <1>12, <2>1, <2>2
<1>19. Min({1}) = 1
  BY MinIs
<1>20. LexicalAddress(p, "super") = <<k, 0>>
  <2>1. LexicalAddress(p, "super") = AddressAmong(a, p, "super")
    BY DEF LexicalAddress, AddressAmong, NamedBefore
  <2>2. holding # {}
    BY <1>15
  <2>3. AddressAmong(a, p, "super") = <<nearest - 1, Min(At_(nearest)) - 1>>
    BY <1>17, <2>2 DEF AddressAmong
  <2>4. At_(nearest) = {1} /\ nearest - 1 = k /\ 1 - 1 = 0
    BY <1>12, <1>14, <1>18
  <2> HIDE DEF At_, holding
  <2>. QED BY <1>19, <2>1, <2>3, <2>4
<1>. QED BY <1>6, <1>20

\* What this means is the receiver in the environment super finds next to its own.
LEMMA ThisAroundIs ==
  ASSUME HeapOK(interp), interp.environment \in 1 .. Len(interp.envs), NEW a, NEW u, IsChain(a, u),
         interp.envs[interp.environment].scope = InnerScope(u), NEW k, NEW w, ThisIsAt(a, k, w)
  PROVE  ThisAround = GetAt(interp, interp.environment, <<k - 1, 0>>)
<1> DEFINE l == Len(interp.envs)
           U == {Nil} \cup {interp.envs[e].slots[1].value : e \in 1 .. l}
           More(e, x) == IF e = globals THEN Nil
                         ELSE IF interp.envs[e].scope[2] = "this" THEN interp.envs[e].slots[1].value ELSE x
           step == [p \in (1 .. l) \X U |-> More(p[1], p[2])]
           Is(g) == g = [e \in 0 .. Len(interp.envs) |->
                           IF e \in {0, globals} THEN Nil
                           ELSE IF interp.envs[e].scope[2] = "this" THEN interp.envs[e].slots[1].value
                           ELSE g[interp.envs[e].enclosing]]
           f == CHOOSE g : Is(g)
<1>1. IsInterpreter(interp) /\ l \in Nat
  BY InterpreterIs DEF HeapOK
<1>2. \A e \in 1 .. l, x \in U : More(e, x) \in U
  OBVIOUS
<1>3. \A e \in 1 .. l, x \in U : step[<<e, x>>] = More(e, x)
  <2> HIDE DEF U, More, l
  <2>. QED OBVIOUS
<1>4. ThisAround = f[interp.environment]
  BY DEF ThisAround
<1>5. Nil \in U
  OBVIOUS
<1> HIDE DEF U, step
<1>6. PICK g : /\ g \in [0 .. l -> U] /\ g[0] = Nil
              /\ \A e \in 1 .. l : g[e] = step[<<e, g[IF e = globals THEN 0 ELSE interp.envs[e].enclosing]>>]
  <2>1. Steps(step, l, U)
    BY <1>2, <1>3 DEF Steps
  <2>2. PICK g : Ascends(g, interp, U, Nil, step)
    BY <1>5, <2>1, UpTheEnvironments
  <2>. QED BY <2>2 DEF Ascends
<1> DEFINE Theirs(e, g_) == IF e \in {0, globals} THEN Nil
                            ELSE IF interp.envs[e].scope[2] = "this" THEN interp.envs[e].slots[1].value
                            ELSE g_[interp.envs[e].enclosing]
<1>7. Is(g)
  <2>1. \A e \in 0 .. l : g[e] = Theirs(e, g)
    <3> TAKE e \in 0 .. l
    <3>1. CASE e = 0
      BY <1>6, <3>1
    <3>2. CASE e # 0
      <4>1. e \in 1 .. l
        BY <1>1, <3>2
      <4>2. PICK v : v = IF e = globals THEN 0 ELSE interp.envs[e].enclosing
        OBVIOUS
      <4>3. v \in 0 .. l
        BY <1>1, <4>1, <4>2, OnlyGlobals
      <4>4. g[v] \in U /\ g[e] = step[<<e, g[v]>>]
        BY <1>6, <4>1, <4>2, <4>3
      <4>5. g[e] = More(e, g[v])
        BY <1>3, <4>1, <4>4
      <4>. QED BY <3>2, <4>2, <4>5
    <3>. QED BY <3>1, <3>2
  <2> HIDE DEF Theirs
  <2>2. g = [e \in 0 .. l |-> Theirs(e, g)]
    BY <1>6, <2>1
  <2>. QED BY <2>2, Zenon DEF Theirs
<1>8. Is(f)
  <2> HIDE DEF Is
  <2>. QED BY <1>7 DEF f
<1> HIDE DEF f
<1>9. \A e \in 0 .. l : f[e] = Theirs(e, f)
  <2>1. f = [e \in 0 .. l |-> Theirs(e, f)]
    BY <1>8, Zenon
  <2> DEFINE h == [e \in 0 .. l |-> Theirs(e, f)]
  <2>2. f = h
    BY <2>1
  <2> HIDE DEF Theirs, l
  <2>3. \A e \in 0 .. l : h[e] = Theirs(e, f)
    OBVIOUS
  <2> HIDE DEF h
  <2>. QED BY <2>2, <2>3
<1> HIDE DEF Is
<1>10. k \in 1 .. Len(a) /\ a[k] = <<w, "this">> /\ \A n \in 1 .. k - 1 : a[n][2] = "block"
  BY DEF ThisIsAt
<1>11. a \in Seq(ScopeSet) /\ Len(a) \in Nat
  BY DEF IsChain
<1>12. PICK n : n = k - 1
  OBVIOUS
<1>13. n \in Nat /\ n < Len(a) /\ k = n + 1
  BY <1>10, <1>11, <1>12
<1>14. PICK x : x = ancestor(interp, interp.environment, n)
  OBVIOUS
<1>15. PICK p : Path(interp, interp.environment, p, n) /\ x = p[n]
  BY <1>13, <1>14, AncestorPath
<1>16. \A d \in 0 .. n : Hopped(interp, interp.environment, p[d], a, d)
  BY <1>13, <1>15, PathHops
<1>17. \A d \in 0 .. n : /\ p[d] \in 1 .. l /\ p[d] \in 0 .. l /\ interp.envs[p[d]].scope = a[d + 1]
                         /\ d + 1 \in 1 .. Len(a) /\ p[d] \notin {0, globals}
  <2> TAKE d \in 0 .. n
  <2>1. p[d] \in 1 .. l /\ interp.envs[p[d]].scope = a[d + 1]
    BY <1>16 DEF Hopped
  <2>2. d + 1 \in 1 .. Len(a)
    BY <1>11, <1>13
  <2>3. a[d + 1] \in ScopeSet
    BY <1>11, <2>2
  <2>4. a[d + 1] # <<>>
    BY <2>3, InnerScopeIs
  <2>5. p[d] # globals
    BY <2>1, <2>4, OnlyGlobals
  <2>6. p[d] \in 0 .. l /\ p[d] # 0
    BY <1>1, <2>1
  <2>. QED BY <2>1, <2>2, <2>5, <2>6
<1> DEFINE S == {d \in Nat : d <= n => f[p[d]] = f[interp.environment]}
<1>18. 0 \in S
  BY <1>15 DEF Path
<1>19. ASSUME NEW d \in Nat, d \in S
       PROVE  d + 1 \in S
  <2> SUFFICES ASSUME d + 1 <= n
               PROVE  f[p[d + 1]] = f[interp.environment]
    OBVIOUS
  <2>1. d \in 0 .. n /\ d + 1 \in 1 .. n /\ (d + 1) - 1 = d /\ d + 1 \in 1 .. k - 1
    BY <1>13
  <2>2. PICK y : y = p[d]
    OBVIOUS
  <2>3. y \in 0 .. l /\ interp.envs[y].scope = a[d + 1] /\ y \notin {0, globals}
    BY <1>17, <2>1, <2>2
  <2>4. interp.envs[y].scope[2] # "this"
    BY <1>10, <2>1, <2>3
  <2>5. f[y] = f[interp.envs[y].enclosing]
    BY <1>9, <2>3, <2>4
  <2>6. p[d + 1] = interp.envs[y].enclosing
    BY <1>15, <2>1, <2>2, <2>3 DEF Path
  <2>7. f[y] = f[interp.environment]
    BY <1>19, <2>1, <2>2
  <2>. QED BY <2>5, <2>6, <2>7
<1> HIDE DEF S
<1>20. Nat \subseteq S
  BY <1>18, <1>19, SetInduction
<1>21. f[x] = f[interp.environment]
  <2>1. n \in S /\ n <= n
    BY <1>13, <1>20
  <2>. QED BY <1>15, <2>1 DEF S
<1>22. x \in 0 .. l /\ x \notin {0, globals} /\ interp.envs[x].scope = a[n + 1] /\ n \in 0 .. n
  BY <1>13, <1>15, <1>17
<1>23. interp.envs[x].scope[2] = "this"
  BY <1>10, <1>13, <1>22
<1>24. f[x] = interp.envs[x].slots[1].value
  BY <1>9, <1>22, <1>23
<1>25. GetAt(interp, interp.environment, <<k - 1, 0>>) = interp.envs[x].slots[1].value
  <2>1. PICK at : at = <<n, 0>>
    OBVIOUS
  <2>2. at[1] = n /\ at[2] + 1 = 1 /\ <<k - 1, 0>> = at
    BY <1>12, <2>1
  <2>. QED BY <1>14, <2>2 DEF GetAt
<1>. QED BY <1>4, <1>21, <1>24, <1>25
=============================================================================
