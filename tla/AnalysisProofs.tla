--------------------------- MODULE AnalysisProofs ---------------------------
(***************************************************************************)
(* Proofs about parser/llk's analysis, for every grammar and every k: the  *)
(* fixpoint loops stop at the least solution of their equations, and the   *)
(* table refuses exactly the grammars it could not decide.                 *)
(***************************************************************************)
EXTENDS Analysis, Integers, WellFoundedInduction, TLAPS

-----------------------------------------------------------------------------
(* Induction *)

\* A set that holds 0 and the successor of each of its naturals holds them all.
LEMMA SetInduction ==
  ASSUME NEW S, 0 \in S, \A m \in Nat : m \in S => m + 1 \in S
  PROVE  Nat \subseteq S
<1> DEFINE R == OpToRel(<, Nat)
           T == {m \in Nat : m \notin S}
<1>1. \A x \in Nat : x + 1 \in Nat /\ <<x, x + 1>> \in R
  BY DEF OpToRel
<1>2. ASSUME T # {}
      PROVE  FALSE
  <2>1. IsWellFoundedOn(R, Nat) /\ T \subseteq Nat
    BY NatLessThanWellFounded
  <2> HIDE DEF R, T
  <2>2. PICK x \in T : \A y \in T : ~(<<y, x>> \in R)
    BY <1>2, <2>1, WFMin
  <2>3. x \in Nat /\ x # 0 /\ x \notin S
    BY DEF T
  <2>4. x - 1 \in Nat /\ (x - 1) + 1 = x
    BY <2>3
  <2>5. x - 1 \in T
    BY <2>3, <2>4 DEF T
  <2>. QED BY <1>1, <2>2, <2>4, <2>5
<1>. QED BY <1>2

-----------------------------------------------------------------------------
(* FIRST of a body grows with FIRST of its nonterminals.                   *)

\* f maps a length to FIRST of the prefix of that length.
Prefixes(f, F, body, size, m) ==
  f = [j \in 0 .. m |-> IF j = 0 THEN {<<>>} ELSE After(F, f[j - 1], body[j], size)]

\* The recursion over a body's items defines a function.
LEMMA PrefixesExist ==
  ASSUME NEW F, NEW body, NEW size
  PROVE  \A m \in Nat : \E f : Prefixes(f, F, body, size, m)
<1> DEFINE Step(f, j) == IF j = 0 THEN {<<>>} ELSE After(F, f[j - 1], body[j], size)
           Is(f, m) == f = [j \in 0 .. m |-> Step(f, j)]
           S == {m \in Nat : \E f : Is(f, m)}
<1>1. 0 \in S
  <2> DEFINE f == [j \in 0 .. 0 |-> {<<>>}]
  <2>1. \A j \in 0 .. 0 : j = 0
    OBVIOUS
  <2>2. Is(f, 0)
    BY <2>1
  <2>. QED
    BY <2>2
<1>2. ASSUME NEW m \in Nat, m \in S
      PROVE  m + 1 \in S
  <2>1. PICK f : Is(f, m)
    BY <1>2
  <2> DEFINE g == [j \in 0 .. m + 1 |-> IF j = m + 1 THEN After(F, f[m], body[m + 1], size) ELSE f[j]]
  <2>2. ASSUME NEW j \in 0 .. m + 1
        PROVE  g[j] = Step(g, j)
    <3>1. CASE j = m + 1
      <4>1. g[j] = After(F, f[m], body[m + 1], size) /\ j # 0 /\ j - 1 = m
        BY <3>1
      <4>2. g[m] = f[m]
        OBVIOUS
      <4>. QED
        BY <4>1, <4>2, <3>1
    <3>2. CASE j # m + 1
      <4>1. j \in 0 .. m /\ g[j] = f[j] /\ f[j] = Step(f, j)
        <5>1. j \in 0 .. m
          BY <3>2
        <5>2. g[j] = f[j]
          BY <3>2
        <5> HIDE DEF g, Step
        <5>3. f[j] = Step(f, j)
          BY <2>1, <5>1
        <5>. QED
          BY <5>1, <5>2, <5>3
      <4>2. j # 0 => g[j - 1] = f[j - 1]
        BY <4>1
      <4> HIDE DEF g
      <4>. QED
        BY <4>1, <4>2
    <3>. QED
      BY <3>1, <3>2
  <2>3. Is(g, m + 1)
    <3> HIDE DEF Step
    <3>1. g = [j \in 0 .. m + 1 |-> g[j]]
      OBVIOUS
    <3> HIDE DEF g
    <3>. QED
      BY <2>2, <3>1
  <2>4. \E h : Is(h, m + 1)
    <3> HIDE DEF Is, g
    <3>. QED
      BY <2>3
  <2> HIDE DEF Is
  <2>. QED
    BY <2>4
<1>3. Nat \subseteq S
  <2> HIDE DEF S
  <2>. QED
    BY <1>1, <1>2, SetInduction
<1>. QED
  BY <1>3 DEF Prefixes

\* What firstOf computes: the prefixes' sets one after the other.
Computes(f, F, body, size) ==
  /\ f[0] = {<<>>}
  /\ \A j \in 1 .. Len(body) : f[j] = After(F, f[j - 1], body[j], size)
  /\ firstOf(F, body, size) = f[Len(body)]

LEMMA FirstOfPrefixes ==
  ASSUME NEW F, NEW body, Len(body) \in Nat, NEW size
  PROVE  \E f : Computes(f, F, body, size)
<1> DEFINE f == CHOOSE h : Prefixes(h, F, body, size, Len(body))
<1>1. Prefixes(f, F, body, size, Len(body))
  <2>1. \E h : Prefixes(h, F, body, size, Len(body))
    BY PrefixesExist
  <2>. QED
    BY <2>1
<1>2. firstOf(F, body, size) = f[Len(body)]
  BY DEF firstOf, Prefixes
<1> HIDE DEF f
<1>3. f[0] = {<<>>}
  BY <1>1 DEF Prefixes
<1>4. ASSUME NEW j \in 1 .. Len(body)
      PROVE  f[j] = After(F, f[j - 1], body[j], size)
  <2>1. j \in 0 .. Len(body) /\ j # 0
    OBVIOUS
  <2>2. f[j] = IF j = 0 THEN {<<>>} ELSE After(F, f[j - 1], body[j], size)
    BY <1>1, <2>1 DEF Prefixes
  <2>. QED
    BY <2>1, <2>2
<1>5. Computes(f, F, body, size)
  BY <1>2, <1>3, <1>4 DEF Computes
<1>. QED
  BY <1>5

LEMMA ConcatGrows ==
  ASSUME NEW a, NEW b, NEW c, NEW d, NEW size, a \subseteq c, b \subseteq d
  PROVE  concat(a, b, size) \subseteq concat(c, d, size)
BY DEF concat

LEMMA AfterGrows ==
  ASSUME NEW F, NEW G, NEW a, NEW c, NEW item, NEW size, a \subseteq c,
         item.kind \notin {"action", "terminal"} => F[item.sym] \subseteq G[item.sym]
  PROVE  After(F, a, item, size) \subseteq After(G, c, item, size)
<1>1. CASE item.kind = "action"
  BY <1>1 DEF After
<1>2. CASE item.kind # "action" /\ allFull(c, size)
  <2>1. allFull(a, size)
    BY <1>2 DEF allFull
  <2>. QED
    BY <1>2, <2>1 DEF After
<1>3. CASE item.kind # "action" /\ ~allFull(c, size) /\ allFull(a, size)
  <2>1. \A d : a \subseteq concat(c, d, size)
    BY <1>3 DEF allFull, concat
  <2>. QED
    BY <1>3, <2>1 DEF After
<1>4. CASE item.kind # "action" /\ ~allFull(a, size)
  <2>1. ~allFull(c, size)
    BY <1>4 DEF allFull
  <2>2. After(F, a, item, size) = concat(a, IF item.kind = "terminal" THEN {<<item.sym>>} ELSE F[item.sym], size)
    BY <1>4 DEF After
  <2>3. After(G, c, item, size) = concat(c, IF item.kind = "terminal" THEN {<<item.sym>>} ELSE G[item.sym], size)
    BY <1>4, <2>1 DEF After
  <2>4. CASE item.kind = "terminal"
    BY <2>2, <2>3, <2>4, ConcatGrows
  <2>5. CASE item.kind # "terminal"
    BY <1>4, <2>2, <2>3, <2>5, ConcatGrows
  <2>. QED
    BY <2>4, <2>5
<1>. QED
  BY <1>1, <1>2, <1>3, <1>4

\* FIRST of a body grows with what is known of its nonterminals: why starting
\* from nothing and adding pass after pass never goes past the least solution.
LEMMA FirstOfGrows ==
  ASSUME NEW F, NEW G, NEW body, Len(body) \in Nat, NEW size,
         \A j \in 1 .. Len(body) :
           body[j].kind \notin {"action", "terminal"} => F[body[j].sym] \subseteq G[body[j].sym]
  PROVE  firstOf(F, body, size) \subseteq firstOf(G, body, size)
<1>1. PICK f : Computes(f, F, body, size)
  BY FirstOfPrefixes
<1>2. PICK g : Computes(g, G, body, size)
  BY FirstOfPrefixes
<1> DEFINE S == {m \in Nat : m <= Len(body) => f[m] \subseteq g[m]}
<1>3. 0 \in S
  BY <1>1, <1>2 DEF Computes
<1>4. ASSUME NEW m \in Nat, m \in S
      PROVE  m + 1 \in S
  <2>1. CASE m + 1 <= Len(body)
    <3>1. m + 1 \in 1 .. Len(body) /\ (m + 1) - 1 = m /\ f[m] \subseteq g[m]
      BY <1>4, <2>1
    <3>2. f[m + 1] = After(F, f[m], body[m + 1], size)
      BY <1>1, <3>1 DEF Computes
    <3>3. g[m + 1] = After(G, g[m], body[m + 1], size)
      BY <1>2, <3>1 DEF Computes
    <3>4. After(F, f[m], body[m + 1], size) \subseteq After(G, g[m], body[m + 1], size)
      BY <3>1, AfterGrows
    <3>. QED
      BY <3>2, <3>3, <3>4
  <2>. QED
    BY <2>1
<1>5. Nat \subseteq S
  <2> HIDE DEF S
  <2>. QED
    BY <1>3, <1>4, SetInduction
<1>. QED
  BY <1>1, <1>2, <1>5 DEF Computes

-----------------------------------------------------------------------------
(* Types                                                                   *)

Analyzed == phase \notin {"new", "refused"}

TypeInv ==
  /\ grammar \in Grammars
  /\ phase \in {"new", "refused", "first", "follow", "table", "done", "conflict"}
  /\ i \in Nat \ {0} /\ n \in Nat \ {0} /\ changed \in BOOLEAN
  /\ phase # "follow" \/ i \notin DOMAIN prods => n = 1
  /\ phase = "new" => i = 1 /\ ~changed
  /\ phase \in {"table", "done"} => ~changed
  /\ Analyzed => /\ validate(prods, grammar.entries)
                 /\ DOMAIN first = Heads(prods) /\ DOMAIN follow = Heads(prods)
                 /\ DOMAIN rows = Heads(prods)

LEMMA Shape ==
  ASSUME grammar \in Grammars
  PROVE  /\ Len(prods) \in Nat /\ DOMAIN prods = 1 .. Len(prods)
         /\ \A p \in DOMAIN prods :
              /\ prods[p].head \in Heads(prods)
              /\ p \in byHead(prods, prods[p].head)
              /\ prods[p].body \in Seq(Item) /\ Len(prods[p].body) \in Nat
              /\ DOMAIN prods[p].body = 1 .. Len(prods[p].body)
<1>1. prods \in Seq(Production)
  BY GrammarsAssumption DEF prods
<1>2. ASSUME NEW p \in DOMAIN prods
      PROVE  prods[p].body \in Seq(Item)
  <2>1. prods[p] \in Production
    BY <1>1, <1>2
  <2>. QED
    BY <2>1 DEF Production
<1>. QED
  BY <1>1, <1>2 DEF Heads, byHead

\* What validate makes sure of
LEMMA Valid ==
  ASSUME validate(prods, grammar.entries)
  PROVE  /\ grammar.entries \subseteq Heads(prods)
         /\ \A p \in DOMAIN prods : \A m \in DOMAIN prods[p].body :
              prods[p].body[m].kind = "nonterminal" => prods[p].body[m].sym \in Heads(prods)
<1>1. grammar.entries \subseteq Heads(prods)
  BY DEF validate
<1>2. ASSUME NEW p \in DOMAIN prods, NEW m \in DOMAIN prods[p].body, prods[p].body[m].kind = "nonterminal"
      PROVE  prods[p].body[m].sym \in Heads(prods)
  <2> DEFINE Items == UNION {{prods[q].body[l] : l \in DOMAIN prods[q].body} : q \in DOMAIN prods}
  <2>1. prods[p].body[m] \in Items
    OBVIOUS
  <2>2. {item.sym : item \in {item \in Items : item.kind = "nonterminal"}} \subseteq Heads(prods)
    BY DEF validate
  <2> HIDE DEF Items
  <2>. QED
    BY <1>2, <2>1, <2>2
<1>. QED
  BY <1>1, <1>2

LEMMA TypeInvStep == TypeInv /\ [Next]_vars => TypeInv'
<1> SUFFICES ASSUME TypeInv, [Next]_vars PROVE TypeInv'
  OBVIOUS
<1>1. grammar' = grammar /\ prods' = prods /\ k' = k
  BY DEF Next, vars, Refuse, Analyze, GrowFirst, FirstAgain, FirstDone, GrowFollow, NextBody, FollowAgain,
         FollowDone, AddToRow, Conflict, TableDone, prods, k
<1>2. CASE UNCHANGED vars
  BY <1>1, <1>2 DEF TypeInv, Analyzed, vars
<1>3. CASE Refuse
  BY <1>1, <1>3 DEF TypeInv, Analyzed, Refuse
<1>4. CASE Analyze
  BY <1>1, <1>4 DEF TypeInv, Analyzed, Analyze
<1>5. CASE GrowFirst
  BY <1>1, <1>5 DEF TypeInv, Analyzed, GrowFirst
<1>6. CASE FirstAgain
  BY <1>1, <1>6 DEF TypeInv, Analyzed, FirstAgain
<1>7. CASE FirstDone
  BY <1>1, <1>7 DEF TypeInv, Analyzed, FirstDone
<1>8. CASE GrowFollow
  <2>1. DOMAIN follow' = DOMAIN follow
    BY <1>8 DEF GrowFollow
  <2>. QED
    BY <1>1, <1>8, <2>1 DEF TypeInv, Analyzed, GrowFollow
<1>9. CASE NextBody
  BY <1>1, <1>9 DEF TypeInv, Analyzed, NextBody
<1>10. CASE FollowAgain
  BY <1>1, <1>10 DEF TypeInv, Analyzed, FollowAgain
<1>11. CASE FollowDone
  BY <1>1, <1>11 DEF TypeInv, Analyzed, FollowDone
<1>12. CASE AddToRow
  <2>1. DOMAIN rows' = DOMAIN rows
    BY <1>12 DEF AddToRow
  <2>. QED
    BY <1>1, <1>12, <2>1 DEF TypeInv, Analyzed, AddToRow
<1>13. CASE Conflict
  BY <1>1, <1>13 DEF TypeInv, Analyzed, Conflict
<1>14. CASE TableDone
  BY <1>1, <1>14 DEF TypeInv, Analyzed, TableDone
<1>. QED
  BY <1>2, <1>3, <1>4, <1>5, <1>6, <1>7, <1>8, <1>9, <1>10, <1>11, <1>12, <1>13, <1>14 DEF Next

LEMMA TypeCorrect == Spec => []TypeInv
<1>1. Init => TypeInv
  <2> SUFFICES ASSUME Init PROVE TypeInv
    OBVIOUS
  <2>1. ~Analyzed /\ phase = "new" /\ i = 1 /\ n = 1 /\ changed = FALSE /\ grammar \in Grammars
    BY DEF Init, Analyzed
  <2>2. changed \in BOOLEAN /\ ~changed
    BY <2>1
  <2>3. i \in Nat \ {0} /\ n \in Nat \ {0}
    BY <2>1
  <2>. QED
    BY <2>1, <2>2, <2>3, Zenon DEF TypeInv
<1>. QED
  BY <1>1, TypeInvStep, PTL DEF Spec

-----------------------------------------------------------------------------
(* FIRST                                                                   *)

FirstHolds(F, p) == firstOf(F, prods[p].body, k) \subseteq F[prods[p].head]

\* F solves the equations of FIRST.
FirstSolves(F) == \A p \in DOMAIN prods : FirstHolds(F, p)

Within(X, Y) == \A A \in Heads(prods) : X[A] \subseteq Y[A]

\* A pass that has changed nothing has found the equations of the productions
\* behind it to hold; and no string is in FIRST before it has to be.
FirstInv ==
  /\ phase = "first" /\ ~changed => \A p \in DOMAIN prods : p < i => FirstHolds(first, p)
  /\ Analyzed /\ phase # "first" => FirstSolves(first)
  /\ Analyzed => \A F : FirstSolves(F) => Within(first, F)

LEMMA FirstInvStep == TypeInv /\ TypeInv' /\ FirstInv /\ [Next]_vars => FirstInv'
<1> SUFFICES ASSUME TypeInv, TypeInv', FirstInv, [Next]_vars PROVE FirstInv'
  OBVIOUS
<1>1. grammar' = grammar /\ prods' = prods /\ k' = k
  BY DEF Next, vars, Refuse, Analyze, GrowFirst, FirstAgain, FirstDone, GrowFollow, NextBody, FollowAgain,
         FollowDone, AddToRow, Conflict, TableDone, prods, k
<1> USE DEF FirstSolves, FirstHolds, Within
<1>3. CASE UNCHANGED first /\ phase # "first" /\ phase' # "first" /\ (Analyzed' <=> Analyzed)
  BY <1>1, <1>3 DEF FirstInv
<1>4. CASE Refuse
  BY <1>4 DEF FirstInv, Analyzed, Refuse
<1>5. CASE Analyze
  <2>1. phase' = "first" /\ i' = 1 /\ first' = [head \in Heads(prods) |-> {}]
    BY <1>5 DEF Analyze, TypeInv
  <2>2. \A p \in DOMAIN prods : ~(p < i')
    BY <2>1, Shape DEF TypeInv
  <2>3. \A F : \A A \in Heads(prods) : first'[A] \subseteq F[A]
    BY <2>1
  <2>. QED
    BY <1>1, <2>1, <2>2, <2>3 DEF FirstInv
<1>6. CASE GrowFirst
  <2> DEFINE p == prods[i]
             gained == firstOf(first, p.body, k)
  <2>1. i \in DOMAIN prods /\ p.head \in Heads(prods) /\ Analyzed /\ Analyzed' /\ DOMAIN first = Heads(prods)
    BY <1>6, Shape DEF GrowFirst, TypeInv, Analyzed
  <2>2. /\ first' = [first EXCEPT ![p.head] = @ \cup gained]
        /\ phase = "first" /\ phase' = "first" /\ i' = i + 1
    BY <1>6 DEF GrowFirst
  <2>3. ASSUME ~changed'
        PROVE  \A q \in DOMAIN prods : q < i' => firstOf(first', prods[q].body, k) \subseteq first'[prods[q].head]
    <3>1. ~changed /\ first' = first
      BY <1>6, <2>3 DEF GrowFirst
    <3>2. gained \subseteq first[p.head]
      BY <2>1, <2>2, <3>1
    <3>3. ASSUME NEW q \in DOMAIN prods, q < i'
          PROVE  firstOf(first, prods[q].body, k) \subseteq first[prods[q].head]
      <4>1. q < i \/ q = i
        BY <2>1, <2>2, <3>3, Shape DEF TypeInv
      <4>. QED
        BY <2>2, <3>1, <3>2, <4>1 DEF FirstInv
    <3>. QED
      BY <3>1, <3>3
  <2>4. ASSUME NEW F, FirstSolves(F), NEW A \in Heads(prods)
        PROVE  first'[A] \subseteq F[A]
    <3>1. \A B \in Heads(prods) : first[B] \subseteq F[B]
      BY <2>1, <2>4 DEF FirstInv
    <3>2. gained \subseteq firstOf(F, p.body, k)
      <4>1. Len(p.body) \in Nat /\ DOMAIN p.body = 1 .. Len(p.body) /\ p.body \in Seq(Item)
        BY <2>1, Shape DEF TypeInv
      <4>2. ASSUME NEW j \in 1 .. Len(p.body), p.body[j].kind \notin {"action", "terminal"}
            PROVE  first[p.body[j].sym] \subseteq F[p.body[j].sym]
        <5>1. p.body[j] \in Item
          BY <4>1
        <5>2. p.body[j].kind = "nonterminal"
          BY <4>2, <5>1 DEF Item
        <5>3. p.body[j].sym \in Heads(prods)
          BY <2>1, <4>1, <5>2, Valid DEF TypeInv
        <5>. QED
          BY <3>1, <5>3
      <4> HIDE DEF p
      <4>. QED
        BY <4>1, <4>2, FirstOfGrows
    <3>3. gained \subseteq F[p.head]
      BY <2>1, <2>4, <3>2
    <3>. QED
      BY <2>1, <2>2, <3>1, <3>3
  <2> HIDE DEF p, gained
  <2>. QED
    BY <1>1, <2>1, <2>2, <2>3, <2>4 DEF FirstInv
<1>7. CASE FirstAgain
  <2>1. \A p \in DOMAIN prods : ~(p < i')
    BY <1>7, Shape DEF FirstAgain, TypeInv
  <2>. QED
    BY <1>1, <1>7, <2>1 DEF FirstInv, FirstAgain, Analyzed
<1>8. CASE FirstDone
  <2>1. \A p \in DOMAIN prods : p < i
    BY <1>8, Shape DEF FirstDone, TypeInv
  <2>2. FirstSolves(first)
    BY <1>8, <2>1 DEF FirstInv, FirstDone
  <2>. QED
    BY <1>1, <1>8, <2>2 DEF FirstInv, FirstDone, Analyzed
<1>9. CASE GrowFollow \/ NextBody \/ FollowAgain \/ FollowDone
  BY <1>3, <1>9 DEF GrowFollow, NextBody, FollowAgain, FollowDone, Analyzed
<1>10. CASE AddToRow \/ Conflict \/ TableDone
  BY <1>3, <1>10 DEF AddToRow, Conflict, TableDone, Analyzed
<1>11. CASE UNCHANGED vars
  BY <1>1, <1>11 DEF vars, FirstInv, Analyzed
<1>. QED
  BY <1>4, <1>5, <1>6, <1>7, <1>8, <1>9, <1>10, <1>11 DEF Next

\* Whatever the grammar and k, the FIRST loop stops at sets that satisfy the
\* equations of FIRST and lie within any others that do.
FirstIsLeast ==
  Analyzed /\ phase # "first" => FirstSolves(first) /\ \A F : FirstSolves(F) => Within(first, F)

THEOREM FirstIsTheLeastSolution == Spec => []FirstIsLeast
<1>1. Init => FirstInv
  <2>1. Init => ~Analyzed /\ phase # "first"
    BY DEF Init, Analyzed
  <2>. QED
    BY <2>1 DEF FirstInv
<1>2. FirstInv => FirstIsLeast
  BY DEF FirstInv, FirstIsLeast
<1>. QED
  BY <1>1, <1>2, FirstInvStep, TypeCorrect, PTL DEF Spec

-----------------------------------------------------------------------------
(* FOLLOW                                                                  *)

FollowHolds(G, p, m) ==
  prods[p].body[m].kind = "nonterminal" =>
    concat(RestAfter(prods[p], m), G[prods[p].head], k) \subseteq G[prods[p].body[m].sym]

Seeded(G) == \A A \in grammar.entries : <<"EOF">> \in G[A]

\* G solves the equations of FOLLOW.
FollowSolves(G) ==
  Seeded(G) /\ \A p \in DOMAIN prods : \A m \in DOMAIN prods[p].body : FollowHolds(G, p, m)

Behind(p, m) == p < i \/ (p = i /\ m < n)

FollowKnown == phase \in {"follow", "table", "done", "conflict"}

FollowInv ==
  /\ phase = "follow" => Seeded(follow)
  /\ phase = "follow" /\ ~changed =>
       \A p \in DOMAIN prods : \A m \in DOMAIN prods[p].body : Behind(p, m) => FollowHolds(follow, p, m)
  /\ FollowKnown /\ phase # "follow" => FollowSolves(follow)
  /\ FollowKnown => \A G : FollowSolves(G) => Within(follow, G)

LEMMA FollowInvStep == TypeInv /\ TypeInv' /\ FollowInv /\ [Next]_vars => FollowInv'
<1> SUFFICES ASSUME TypeInv, TypeInv', FollowInv, [Next]_vars PROVE FollowInv'
  OBVIOUS
<1>1. grammar' = grammar /\ prods' = prods /\ k' = k
  BY DEF Next, vars, Refuse, Analyze, GrowFirst, FirstAgain, FirstDone, GrowFollow, NextBody, FollowAgain,
         FollowDone, AddToRow, Conflict, TableDone, prods, k
<1> USE DEF FollowSolves, FollowHolds, Seeded, Within, RestAfter
<1>2. CASE UNCHANGED <<first, follow>> /\ phase # "follow" /\ phase' # "follow" /\ (FollowKnown' <=> FollowKnown)
  BY <1>1, <1>2 DEF FollowInv
<1>3. CASE Refuse \/ Analyze \/ GrowFirst \/ FirstAgain
  <2>1. ~FollowKnown /\ ~FollowKnown' /\ phase' # "follow"
    BY <1>3 DEF Refuse, Analyze, GrowFirst, FirstAgain, FollowKnown
  <2>. QED
    BY <2>1 DEF FollowInv
<1>4. CASE FirstDone
  <2>1. /\ phase' = "follow" /\ i' = 1 /\ n' = 1
        /\ follow' = [head \in Heads(prods) |-> IF head \in grammar.entries THEN {<<"EOF">>} ELSE {}]
    BY <1>4 DEF FirstDone, TypeInv
  <2>2. grammar.entries \subseteq Heads(prods)
    BY <1>4, Valid DEF FirstDone, TypeInv, Analyzed
  <2>3. \A A \in grammar.entries : <<"EOF">> \in follow'[A]
    BY <2>1, <2>2
  <2>4. \A p \in DOMAIN prods : \A m \in DOMAIN prods[p].body : ~Behind(p, m)'
    BY <2>1, Shape DEF Behind, TypeInv
  <2>5. \A G : Seeded(G) => \A A \in Heads(prods) : follow'[A] \subseteq G[A]
    BY <2>1
  <2>. QED
    BY <1>1, <2>1, <2>3, <2>4, <2>5 DEF FollowInv, FollowKnown
<1>5. CASE GrowFollow
  <2> DEFINE p == prods[i]
             item == p.body[n]
             gained == concat(RestAfter(p, n), follow[p.head], k)
  <2>1. /\ i \in DOMAIN prods /\ n \in DOMAIN p.body /\ p.head \in Heads(prods) /\ DOMAIN follow = Heads(prods)
        /\ item.kind = "nonterminal" => item.sym \in Heads(prods)
        /\ FollowKnown /\ FollowKnown'
    BY <1>5, Shape, Valid DEF GrowFollow, TypeInv, Analyzed, FollowKnown
  <2>2. /\ item.kind # "nonterminal" => follow' = follow
        /\ item.kind = "nonterminal" => follow' = [follow EXCEPT ![item.sym] = @ \cup gained]
        /\ phase = "follow" /\ phase' = "follow" /\ i' = i /\ n' = n + 1 /\ first' = first
    BY <1>5 DEF GrowFollow
  <2>3. \A A \in Heads(prods) : follow[A] \subseteq follow'[A]
    BY <2>1, <2>2
  <2>4. Seeded(follow')
    <3>1. grammar.entries \subseteq Heads(prods)
      BY <1>5, Valid DEF GrowFollow, TypeInv, Analyzed
    <3>. QED
      BY <2>2, <2>3, <3>1 DEF FollowInv
  <2>5. ASSUME ~changed'
        PROVE  \A q \in DOMAIN prods : \A m \in DOMAIN prods[q].body : Behind(q, m)' => FollowHolds(follow', q, m)
    <3>1. ~changed /\ follow' = follow
      BY <1>5, <2>5 DEF GrowFollow
    <3>2. FollowHolds(follow, i, n)
      BY <2>1, <2>2, <3>1
    <3>3. ASSUME NEW q \in DOMAIN prods, NEW m \in DOMAIN prods[q].body, Behind(q, m)'
          PROVE  FollowHolds(follow, q, m)
      <4>1. Behind(q, m) \/ (q = i /\ m = n)
        BY <2>1, <2>2, <3>3, Shape DEF Behind, TypeInv
      <4>. QED
        BY <2>2, <3>1, <3>2, <4>1 DEF FollowInv
    <3>. QED
      BY <3>1, <3>3
  <2>6. ASSUME NEW G, FollowSolves(G), NEW A \in Heads(prods)
        PROVE  follow'[A] \subseteq G[A]
    <3>1. \A B \in Heads(prods) : follow[B] \subseteq G[B]
      BY <2>1, <2>6 DEF FollowInv
    <3>2. ASSUME item.kind = "nonterminal"
          PROVE  gained \subseteq G[item.sym]
      <4>1. gained \subseteq concat(RestAfter(p, n), G[p.head], k)
        BY <2>1, <3>1, ConcatGrows
      <4>. QED
        BY <2>1, <2>6, <3>2, <4>1
    <3>. QED
      BY <2>1, <2>2, <3>1, <3>2
  <2> HIDE DEF p, item, gained
  <2>. QED
    BY <1>1, <2>1, <2>2, <2>4, <2>5, <2>6 DEF FollowInv
<1>6. CASE NextBody
  <2>1. ASSUME NEW p \in DOMAIN prods, NEW m \in DOMAIN prods[p].body, Behind(p, m)'
        PROVE  Behind(p, m)
    BY <1>6, <2>1, Shape DEF Behind, NextBody, TypeInv
  <2>. QED
    BY <1>1, <1>6, <2>1 DEF FollowInv, NextBody, FollowKnown
<1>7. CASE FollowAgain
  <2>1. \A p \in DOMAIN prods : \A m \in DOMAIN prods[p].body : ~Behind(p, m)'
    BY <1>7, Shape DEF FollowAgain, Behind, TypeInv
  <2>. QED
    BY <1>1, <1>7, <2>1 DEF FollowInv, FollowAgain, FollowKnown
<1>8. CASE FollowDone
  <2>1. \A p \in DOMAIN prods : \A m \in DOMAIN prods[p].body : Behind(p, m)
    BY <1>8, Shape DEF FollowDone, Behind, TypeInv
  <2>2. FollowSolves(follow)
    BY <1>8, <2>1 DEF FollowInv, FollowDone
  <2>. QED
    BY <1>1, <1>8, <2>2 DEF FollowInv, FollowDone, FollowKnown
<1>9. CASE AddToRow \/ Conflict \/ TableDone
  BY <1>2, <1>9 DEF AddToRow, Conflict, TableDone, FollowKnown
<1>10. CASE UNCHANGED vars
  BY <1>1, <1>10 DEF vars, FollowInv, FollowKnown, Behind
<1>. QED
  BY <1>3, <1>4, <1>5, <1>6, <1>7, <1>8, <1>9, <1>10 DEF Next

\* The same of the FOLLOW loop: every entry may be followed by the end, and no
\* string follows a nonterminal that the equations do not ask for.
FollowIsLeast ==
  FollowKnown /\ phase # "follow" => FollowSolves(follow) /\ \A G : FollowSolves(G) => Within(follow, G)

THEOREM FollowIsTheLeastSolution == Spec => []FollowIsLeast
<1>1. Init => FollowInv
  <2>1. Init => ~FollowKnown /\ phase # "follow"
    BY DEF Init, FollowKnown
  <2>. QED
    BY <2>1 DEF FollowInv
<1>2. FollowInv => FollowIsLeast
  BY DEF FollowInv, FollowIsLeast
<1>. QED
  BY <1>1, <1>2, FollowInvStep, TypeCorrect, PTL DEF Spec

-----------------------------------------------------------------------------
(* The table                                                               *)

\* Rows are empty until the sets are known.  A row then holds the windows of
\* its head's productions so far, each for the one production it predicts.
RowsInv ==
  /\ phase \in {"first", "follow"} => rows = [head \in Heads(prods) |-> <<>>]
  /\ phase \in {"table", "done", "conflict"} =>
       \A head \in Heads(prods) :
         /\ \A la : la \in DOMAIN rows[head] <=> \E p \in byHead(prods, head) : p < i /\ la \in Windows(p)
         /\ \A p \in byHead(prods, head) : \A la \in Windows(p) : p < i => rows[head][la] = p
  /\ phase = "done" => i \notin DOMAIN prods
  /\ phase = "conflict" =>
       /\ {conflict.first, conflict.second} \subseteq DOMAIN prods
       /\ Rivals(conflict.first, conflict.second)
       /\ conflict.lookahead \in Windows(conflict.first) \cap Windows(conflict.second)

LEMMA RowsInvStep == TypeInv /\ TypeInv' /\ RowsInv /\ [Next]_vars => RowsInv'
<1> SUFFICES ASSUME TypeInv, TypeInv', RowsInv, [Next]_vars PROVE RowsInv'
  OBVIOUS
<1>1. grammar' = grammar /\ prods' = prods /\ k' = k
  BY DEF Next, vars, Refuse, Analyze, GrowFirst, FirstAgain, FirstDone, GrowFollow, NextBody, FollowAgain,
         FollowDone, AddToRow, Conflict, TableDone, prods, k
<1> USE DEF Windows, Rivals
<1>2. CASE Refuse \/ Analyze
  BY <1>1, <1>2 DEF Refuse, Analyze, RowsInv
<1>3. CASE GrowFirst \/ FirstAgain \/ FirstDone
  BY <1>1, <1>3 DEF GrowFirst, FirstAgain, FirstDone, RowsInv
<1>4. CASE GrowFollow \/ NextBody \/ FollowAgain
  BY <1>1, <1>4 DEF GrowFollow, NextBody, FollowAgain, RowsInv
<1>5. CASE FollowDone
  <2>1. phase' = "table" /\ i' = 1 /\ rows' = [head \in Heads(prods) |-> <<>>]
    BY <1>5 DEF FollowDone, RowsInv
  <2>2. \A head \in Heads(prods) : DOMAIN rows'[head] = {}
    BY <2>1
  <2>3. \A head : \A p \in byHead(prods, head) : ~(p < i')
    BY <2>1, Shape DEF byHead, TypeInv
  <2>. QED
    BY <1>1, <2>1, <2>2, <2>3 DEF RowsInv
<1>6. CASE AddToRow
  <2> DEFINE A == prods[i].head
             row == rows[A]
             W == Windows(i)
             added == [la \in DOMAIN row \cup W |-> IF la \in DOMAIN row THEN row[la] ELSE i]
  <2>1. /\ phase = "table" /\ phase' = "table" /\ i \in DOMAIN prods /\ DOMAIN row \cap W = {}
        /\ rows' = [rows EXCEPT ![A] = added] /\ i' = i + 1 /\ UNCHANGED <<first, follow>>
    BY <1>6 DEF AddToRow, Taken
  <2>2. A \in Heads(prods) /\ DOMAIN rows = Heads(prods) /\ i \in byHead(prods, A)
    BY <2>1, Shape DEF TypeInv, Analyzed
  <2>3. \A head : \A p \in byHead(prods, head) : p < i' <=> p < i \/ p = i
    BY <2>1, Shape DEF byHead, TypeInv
  <2>4. ASSUME NEW head \in Heads(prods)
        PROVE  /\ \A la : la \in DOMAIN rows'[head] <=> \E p \in byHead(prods, head) : p < i' /\ la \in Windows(p)
               /\ \A p \in byHead(prods, head) : \A la \in Windows(p) : p < i' => rows'[head][la] = p
    <3>1. /\ \A la : la \in DOMAIN rows[head] <=> \E p \in byHead(prods, head) : p < i /\ la \in Windows(p)
          /\ \A p \in byHead(prods, head) : \A la \in Windows(p) : p < i => rows[head][la] = p
      BY <2>1 DEF RowsInv
    <3>2. CASE head = A
      <4>1. rows'[head] = added
        BY <2>1, <2>2, <3>2
      <4>2. ~(i < i)
        BY Shape, <2>1 DEF TypeInv
      <4> HIDE DEF A, W
      <4>. QED
        BY <2>1, <2>2, <2>3, <3>1, <3>2, <4>1, <4>2 DEF W
    <3>3. CASE head # A
      <4>1. rows'[head] = rows[head]
        BY <2>1, <2>2, <3>3
      <4>2. i \notin byHead(prods, head)
        BY <3>3 DEF byHead
      <4>. QED
        BY <2>3, <3>1, <4>1, <4>2
    <3>. QED
      BY <3>2, <3>3
  <2> HIDE DEF added, W, A, row
  <2>. QED
    BY <1>1, <2>1, <2>4 DEF RowsInv
<1>7. CASE Conflict
  <2>1. PICK la \in Taken : conflict' = [first |-> rows[prods[i].head][la], second |-> i, lookahead |-> la]
    BY <1>7 DEF Conflict
  <2>2. /\ phase = "table" /\ phase' = "conflict" /\ i \in DOMAIN prods /\ UNCHANGED <<i, rows, first, follow>>
        /\ prods[i].head \in Heads(prods)
    BY <1>7, Shape DEF Conflict, TypeInv
  <2>3. PICK p \in byHead(prods, prods[i].head) : p < i /\ la \in Windows(p) /\ rows[prods[i].head][la] = p
    BY <2>1, <2>2 DEF Taken, RowsInv
  <2>4. p \in DOMAIN prods /\ p # i /\ prods[p].head = prods[i].head
    BY <2>2, <2>3, Shape DEF byHead, TypeInv
  <2>5. conflict'.first = p /\ conflict'.second = i /\ conflict'.lookahead = la /\ la \in Windows(i)
    BY <2>1, <2>3 DEF Taken
  <2>. QED
    BY <1>1, <2>2, <2>3, <2>4, <2>5 DEF RowsInv
<1>8. CASE TableDone
  BY <1>1, <1>8 DEF TableDone, RowsInv
<1>9. CASE UNCHANGED vars
  BY <1>1, <1>9 DEF vars, RowsInv
<1>. QED
  BY <1>2, <1>3, <1>4, <1>5, <1>6, <1>7, <1>8, <1>9 DEF Next

\* newTable builds a table for the grammars whose windows decide and no other,
\* and the ConflictError is about a window that does not.
THEOREM TheTableDecides == Spec => []ConflictsExactly
<1>1. Init => RowsInv
  BY DEF Init, RowsInv
<1>2. TypeInv /\ RowsInv => ConflictsExactly
  <2> SUFFICES ASSUME TypeInv, RowsInv PROVE ConflictsExactly
    OBVIOUS
  <2>1. ASSUME phase = "done", NEW head \in Heads(prods)
        PROVE  /\ DOMAIN rows[head] = UNION {Windows(p) : p \in byHead(prods, head)}
               /\ \A p \in byHead(prods, head), la \in DOMAIN rows[head] : la \in Windows(p) <=> rows[head][la] = p
    <3>1. \A p \in byHead(prods, head) : p < i
      BY <2>1, Shape DEF TypeInv, RowsInv, byHead
    <3>2. \A la : la \in DOMAIN rows[head] <=> \E p \in byHead(prods, head) : la \in Windows(p)
      BY <2>1, <3>1 DEF RowsInv
    <3>3. \A p \in byHead(prods, head) : \A la \in Windows(p) : rows[head][la] = p
      BY <2>1, <3>1 DEF RowsInv
    <3>4. \A p \in byHead(prods, head), la \in DOMAIN rows[head] : rows[head][la] = p => la \in Windows(p)
      BY <3>2, <3>3
    <3>. QED
      BY <3>2, <3>3, <3>4
  <2>. QED
    BY <2>1 DEF ConflictsExactly, RowsInv
<1>. QED
  BY <1>1, <1>2, RowsInvStep, TypeCorrect, PTL DEF Spec
=============================================================================
