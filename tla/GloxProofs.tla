----------------------------- MODULE GloxProofs -----------------------------
(***************************************************************************)
(* The resolver of Go gives every use the address that the text gives it   *)
(* and reports exactly the errors of the text; so the interpreter is       *)
(* always where the text says, and crashes nowhere but at one kind of      *)
(* initializer: proofs about Glox, for every session of lines of any       *)
(* length.                                                                 *)
(***************************************************************************)
EXTENDS InterpreterProofs

-----------------------------------------------------------------------------
(* What is open in a text *)

LEMMA UnclosedIs ==
  ASSUME NEW t \in Seq(NodeSet)
  PROVE  Unclosed(t) = InnermostIn(t, Len(t))
<1>1. DOMAIN t = 1 .. Len(t)
  OBVIOUS
<1>. QED BY <1>1 DEF Unclosed, InnermostIn, OpenIn

LEMMA AppendPlaced ==
  ASSUME NEW t, Placed(t), NEW node \in NodeSet, node.in = Unclosed(t)
  PROVE  Placed(Append(t, node)) /\ Extends(t, Append(t, node))
<1> DEFINE u == Append(t, node)
<1>1. t \in Seq(NodeSet) /\ Len(t) \in Nat
  BY DEF Placed
<1>2. u \in Seq(NodeSet) /\ Len(u) = Len(t) + 1 /\ u[Len(t) + 1] = node /\ \A i \in 1 .. Len(t) : u[i] = t[i]
  BY <1>1
<1> HIDE DEF u
<1>3. Extends(t, u)
  BY <1>1, <1>2 DEF Extends
<1>4. ASSUME NEW i \in 1 .. Len(u)
      PROVE  u[i].in = InnermostIn(u, i - 1)
  <2>1. i - 1 \in 0 .. Len(t)
    BY <1>1, <1>2
  <2>2. InnermostIn(u, i - 1) = InnermostIn(t, i - 1)
    BY <1>1, <1>3, <2>1, SameOpen
  <2>3. CASE i \in 1 .. Len(t)
    BY <1>2, <2>2, <2>3 DEF Placed
  <2>4. CASE i = Len(t) + 1
    <3>1. i - 1 = Len(t)
      BY <1>1, <2>4
    <3>. QED BY <1>1, <1>2, <2>2, <2>4, <3>1, UnclosedIs
  <2>. QED BY <1>1, <1>2, <2>3, <2>4
<1>. QED BY <1>2, <1>3, <1>4 DEF Placed, u

LEMMA ExtendedIs ==
  ASSUME NEW t, Placed(t), NEW phrase \in Seq(NodeSet)
  PROVE  Placed(Extended(t, phrase)) /\ Extends(t, Extended(t, phrase))
<1> DEFINE l == Len(phrase)
           T == Seq(NodeSet)
           More(n, u) == Append(u, [phrase[n] EXCEPT !.in = Unclosed(u)])
           step == [p \in (1 .. l) \X T |-> More(p[1], p[2])]
           Is(g) == g = [n \in 0 .. l |-> IF n = 0 THEN t ELSE More(n, g[n - 1])]
           f == CHOOSE g : Is(g)
<1>1. l \in Nat /\ t \in T /\ \A n \in 1 .. l : phrase[n] \in NodeSet
  BY DEF Placed
<1>2. \A n \in 1 .. l, u \in T : step[<<n, u>>] = More(n, u)
  <2> HIDE DEF l, T, More
  <2>. QED OBVIOUS
<1>3. \A n \in 1 .. l, u \in T : /\ [phrase[n] EXCEPT !.in = Unclosed(u)] \in NodeSet
                                 /\ [phrase[n] EXCEPT !.in = Unclosed(u)].in = Unclosed(u)
  <2> TAKE n \in 1 .. l, u \in T
  <2>1. phrase[n] \in NodeSet
    BY <1>1
  <2>2. Len(u) \in Nat
    OBVIOUS
  <2>3. Unclosed(u) \in Nat
    BY <2>2, UnclosedIs, InnermostIsIn
  <2>. QED BY <2>1, <2>3 DEF NodeSet
<1>4. \A n \in 1 .. l, u \in T : More(n, u) \in T
  <2> TAKE n \in 1 .. l, u \in T
  <2>1. PICK node : node = [phrase[n] EXCEPT !.in = Unclosed(u)] /\ node \in NodeSet
    BY <1>3
  <2>2. More(n, u) = Append(u, node)
    BY <2>1
  <2> HIDE DEF More
  <2>. QED BY <2>1, <2>2
<1>5. Extended(t, phrase) = f[l]
  BY DEF Extended
<1>17. \A n \in 1 .. l, u \in T : Placed(u) => Placed(More(n, u)) /\ Extends(u, More(n, u))
  <2> TAKE n \in 1 .. l, u \in T
  <2> DEFINE node == [phrase[n] EXCEPT !.in = Unclosed(u)]
  <2>1. node \in NodeSet /\ node.in = Unclosed(u)
    BY <1>3
  <2> HIDE DEF node
  <2>2. Placed(u) => Placed(Append(u, node)) /\ Extends(u, Append(u, node))
    BY <2>1, AppendPlaced
  <2>. QED BY <2>2 DEF node
<1> HIDE DEF step, l, T, More, f
<1>6. PICK g : g \in [0 .. l -> T] /\ Unfolds(g, l, t, step)
  <2>1. Steps(step, l, T)
    BY <1>2, <1>4 DEF Steps
  <2>. QED BY <1>1, <2>1, Recursion
<1>7. \A n \in 0 .. l : (IF n = 0 THEN t ELSE step[<<n, g[n - 1]>>]) = (IF n = 0 THEN t ELSE More(n, g[n - 1]))
  <2> TAKE n \in 0 .. l
  <2>1. n # 0 => n \in 1 .. l /\ n - 1 \in 0 .. l
    BY <1>1
  <2>2. n # 0 => g[n - 1] \in T
    BY <1>6, <2>1
  <2>. QED BY <1>2, <2>1, <2>2
<1>8. Is(g)
  BY <1>6, <1>7, Zenon DEF Unfolds
<1>9. Is(f)
  <2> HIDE DEF Is
  <2>. QED BY <1>8 DEF f
<1>10. f[0] = t /\ \A n \in 1 .. l : f[n] = More(n, f[n - 1])
  <2> DEFINE h == [n \in 0 .. l |-> IF n = 0 THEN t ELSE More(n, f[n - 1])]
  <2>1. f = h
    BY <1>9
  <2>2. 0 \in 0 .. l /\ \A n \in 1 .. l : n \in 0 .. l /\ n # 0
    BY <1>1
  <2>3. h[0] = t /\ \A n \in 1 .. l : h[n] = More(n, f[n - 1])
    BY <2>2
  <2> HIDE DEF h
  <2>. QED BY <2>1, <2>3
<1> HIDE DEF Is
<1> DEFINE Fit(n) == f[n] \in T /\ Placed(f[n]) /\ Extends(t, f[n])
           S == {n \in Nat : n <= l => Fit(n)}
<1>11. Extends(t, t)
  BY <1>1 DEF Extends, T
<1>12. 0 \in S
  BY <1>1, <1>10, <1>11
<1>13. ASSUME NEW n \in Nat, n \in S
       PROVE  n + 1 \in S
  <2> SUFFICES ASSUME n + 1 <= l
               PROVE  Fit(n + 1)
    OBVIOUS
  <2> DEFINE u == f[n]
             v == f[n + 1]
  <2>1. n + 1 \in 1 .. l /\ (n + 1) - 1 = n /\ n <= l
    BY <1>1
  <2>2. u \in T /\ Placed(u) /\ Extends(t, u) /\ v = More(n + 1, u)
    BY <1>10, <1>13, <2>1
  <2> HIDE DEF u, v
  <2>3. Placed(v) /\ Extends(u, v) /\ v \in T
    BY <1>4, <1>17, <2>1, <2>2
  <2>4. Extends(t, v)
    <3>1. Len(t) \in Nat /\ Len(u) \in Nat /\ Len(v) \in Nat
      BY <1>1, <2>2, <2>3 DEF T
    <3>2. \A i \in 1 .. Len(t) : i \in 1 .. Len(u)
      BY <2>2, <3>1 DEF Extends
    <3>. QED BY <2>2, <2>3, <3>1, <3>2 DEF Extends
  <2>. QED BY <2>3, <2>4 DEF v
<1> HIDE DEF S, Fit
<1>14. l \in S
  BY <1>1, <1>12, <1>13, SetInduction
<1>15. Fit(l)
  BY <1>1, <1>14 DEF S
<1>. QED BY <1>5, <1>15 DEF Fit

-----------------------------------------------------------------------------
(* The scopes around a node *)

LEMMA ScopesNext ==
  ASSUME Placed(program), NEW i \in Nodes
  PROVE  /\ IsOpener(program[i]) => AroundAfter(i) = ScopesOf(i) \o AroundAfter(i - 1)
         /\ IsEnd(program[i]) /\ program[i].in # 0 => AroundAfter(i - 1) = ScopesOf(program[i].in) \o AroundAfter(i)
         /\ ~IsOpener(program[i]) /\ ~IsEnd(program[i]) => AroundAfter(i) = AroundAfter(i - 1)
<1>1. Len(program) \in Nat /\ Nodes = 1 .. Len(program)
  BY DEF Placed, Nodes
<1> DEFINE n == i - 1
<1>2. n \in Nat /\ n < Len(program) /\ n + 1 = i
  BY <1>1
<1>3. program[i].in = InnermostIn(program, n)
  BY <1>1 DEF Placed
<1>4. /\ IsOpener(program[n + 1]) => InnermostIn(program, n + 1) = n + 1
      /\ IsEnd(program[n + 1]) /\ program[n + 1].in # 0 => InnermostIn(program, n + 1) = program[program[n + 1].in].in
      /\ ~IsOpener(program[n + 1]) /\ ~IsEnd(program[n + 1]) => InnermostIn(program, n + 1) = InnermostIn(program, n)
  <2> HIDE DEF n
  <2>. QED BY <1>2, InnermostNext
<1> DEFINE v == InnermostIn(program, i)
<1>5. /\ IsOpener(program[i]) => v = i
      /\ IsEnd(program[i]) /\ program[i].in # 0 => v = program[program[i].in].in
      /\ ~IsOpener(program[i]) /\ ~IsEnd(program[i]) => v = InnermostIn(program, n)
  <2> HIDE DEF n
  <2>. QED BY <1>2, <1>4
<1>6. IsOpener(program[i]) => AroundAfter(i) = ScopesOf(i) \o AroundAfter(i - 1)
  <2>1. ScopesAround(i) = AroundAfter(i - 1) /\ i # 0
    BY <1>1, AroundAfterIs
  <2>. QED BY <1>5, <2>1 DEF AroundAfter
<1>7. ASSUME IsEnd(program[i]), program[i].in # 0
      PROVE  AroundAfter(i - 1) = ScopesOf(program[i].in) \o AroundAfter(i)
  <2> DEFINE u == program[i].in
  <2>1. u \in Nodes
    BY <1>7, InIsBefore
  <2>2. AroundAfter(i - 1) = ScopesOf(u) \o ScopesAround(u)
    BY <1>3, <1>7 DEF AroundAfter
  <2> HIDE DEF u
  <2>3. ScopesAround(u) = Outer(u)
    BY <2>1, AroundIs
  <2>4. Outer(u) = AroundAfter(i)
    BY <1>5, <1>7 DEF Outer, AroundAfter, u
  <2>. QED BY <2>2, <2>3, <2>4 DEF u
<1>8. ASSUME ~IsOpener(program[i]), ~IsEnd(program[i])
      PROVE  AroundAfter(i) = AroundAfter(i - 1)
  BY <1>5, <1>8 DEF AroundAfter
<1>. QED BY <1>6, <1>7, <1>8

-----------------------------------------------------------------------------
(* The declarations of a scope *)

\* The bindings of a scope are its declarations by node n.
Agree(b, d, m) == b[m].name = d[m].name /\ b[m].node = d[m].node
Lists(b, s, n) ==
  LET d == Declarations(s)
  IN /\ Len(b) \in Nat /\ Len(d) \in Nat /\ Len(b) <= Len(d)
     /\ \A m \in 1 .. Len(b) : Agree(b, d, m)
     /\ \A m \in 1 .. Len(d) : m <= Len(b) <=> d[m].node <= n

\* The same bindings, and one more.
Alike(b, c) == Len(c) = Len(b) /\ \A m \in 1 .. Len(b) : Agree(c, b, m)
OneMore(b, c, name, node) ==
  Len(c) = Len(b) + 1 /\ (\A m \in 1 .. Len(b) : Agree(c, b, m)) /\ Declares(c[Len(b) + 1], name, node)

LEMMA ListsLike ==
  ASSUME NEW b, NEW c, NEW s, NEW n, Lists(b, s, n), Alike(b, c)
  PROVE  Lists(c, s, n)
BY DEF Lists, Alike, Agree

LEMMA ListsWord ==
  ASSUME NEW i \in Nat, NEW word \in {"this", "super"}, NEW b, Len(b) = 1, Declares(b[1], word, i)
  PROVE  Lists(b, <<i, word>>, i)
<1> DEFINE d == Declarations(<<i, word>>)
<1>1. Len(d) = 1 /\ d[1].name = word /\ d[1].node = i
  <2>1. d = <<[name |-> word, node |-> i]>>
    BY DeclarationsOfWord
  <2> HIDE DEF d
  <2>. QED BY <2>1
<1> HIDE DEF d
<1>2. \A m \in 1 .. 1 : m = 1
  OBVIOUS
<1>. QED BY <1>1, <1>2 DEF Lists, Agree, Declares, d

\* The parameters come first.
LEMMA ListsParams ==
  ASSUME Placed(program), NEW i \in Nodes, NEW b, Len(b) = Params(i),
         \A m \in 1 .. Params(i) : Declares(b[m], Param(i, m), i)
  PROVE  Lists(b, <<i, "block">>, i)
<1> DEFINE d == Declarations(<<i, "block">>)
           p == Params(i)
<1> HIDE DEF d, p
<1>1. /\ d \in Seq(DeclarationSet) /\ p \in Nat /\ p <= Len(d)
      /\ \A m \in 1 .. p : Declares(d[m], Param(i, m), i)
      /\ \A m \in p + 1 .. Len(d) : d[m].node \in DeclaredIn(i) /\ Declares(d[m], program[d[m].node].name, d[m].node)
  BY DeclarationsAre DEF d, p
<1>2. i \in Nat /\ Len(d) \in Nat
  BY <1>1 DEF Nodes
<1>3. \A m \in 1 .. p : Agree(b, d, m)
  BY <1>1 DEF Agree, Declares, p
<1>4. ASSUME NEW m \in 1 .. Len(d)
      PROVE  m <= p <=> d[m].node <= i
  <2>1. CASE m <= p
    <3>1. d[m].node = i
      BY <1>1, <2>1 DEF Declares
    <3>. QED BY <1>2, <2>1, <3>1
  <2>2. CASE ~(m <= p)
    <3>1. m \in p + 1 .. Len(d)
      BY <1>1, <1>2, <2>2
    <3>2. d[m].node \in Nodes /\ program[d[m].node].in = i
      BY <1>1, <3>1 DEF DeclaredIn
    <3>3. i \in 0 .. d[m].node - 1 /\ d[m].node \in Nat
      BY <3>2, InIsBefore
    <3>. QED BY <1>2, <2>2, <3>3
  <2>. QED BY <2>1, <2>2
<1>5. Len(b) = p
  BY DEF p
<1>. QED BY <1>1, <1>2, <1>3, <1>4, <1>5 DEF Lists, d

LEMMA ListsSame ==
  ASSUME Placed(program), NEW i \in Nodes, NEW s \in ScopeSet, s[1] \in Nodes, s[1] < i,
         NEW b, Lists(b, s, i - 1), s[2] = "block" => i \notin DeclaredIn(s[1])
  PROVE  Lists(b, s, i)
<1> DEFINE d == Declarations(s)
           u == s[1]
<1>1. i \in Nat /\ u \in Nat /\ u < i /\ u \in Nodes
  BY DEF Nodes
<1>2. Len(d) \in Nat /\ \A m \in 1 .. Len(d) : m <= Len(b) <=> d[m].node <= i - 1
  BY DEF Lists
<1>3. ASSUME NEW m \in 1 .. Len(d)
      PROVE  d[m].node # i /\ d[m].node \in Nat
  <2>1. CASE s[2] = "block"
    <3> DEFINE p == Params(u)
    <3>1. s = <<u, "block">>
      BY <2>1 DEF ScopeSet
    <3>2. i \notin DeclaredIn(u)
      BY <2>1
    <3>7. d = Declarations(<<u, "block">>)
      BY <3>1
    <3> HIDE DEF u, p, d
    <3>3. /\ d \in Seq(DeclarationSet) /\ p \in Nat
          /\ \A k \in 1 .. p : Declares(d[k], Param(u, k), u)
          /\ \A k \in p + 1 .. Len(d) : d[k].node \in DeclaredIn(u) /\ Declares(d[k], program[d[k].node].name, d[k].node)
      BY <1>1, <3>7, DeclarationsAre DEF p
    <3>4. d[m].node = u \/ d[m].node \in DeclaredIn(u)
      <4>1. m \in 1 .. p \/ m \in p + 1 .. Len(d)
        BY <1>2, <3>3
      <4>. QED BY <3>3, <4>1 DEF Declares
    <3>5. \A j \in DeclaredIn(u) : j \in Nat
      BY DEF DeclaredIn, Nodes
    <3>. QED BY <1>1, <3>2, <3>4, <3>5
  <2>2. CASE s[2] # "block"
    <3>1. s[2] \in {"this", "super"} /\ s = <<u, s[2]>>
      BY <2>2 DEF ScopeSet
    <3>2. d = <<[name |-> s[2], node |-> u]>>
      BY <3>1, DeclarationsOfWord
    <3>3. d[m].node = u
      BY <3>2
    <3>. QED BY <1>1, <3>3
  <2>. QED BY <2>1, <2>2
<1> HIDE DEF d, u
<1>4. \A m \in 1 .. Len(d) : d[m].node <= i - 1 <=> d[m].node <= i
  BY <1>1, <1>3
<1>5. \A m \in 1 .. Len(d) : m <= Len(b) <=> d[m].node <= i
  BY <1>2, <1>4
<1>. QED BY <1>5 DEF Lists, d

LEMMA ListsMore ==
  ASSUME Placed(program), NEW i \in Nodes, IsDeclaration(i), program[i].in # 0, NEW u, u = program[i].in,
         NEW b, NEW c, Lists(b, <<u, "block">>, i - 1), OneMore(b, c, program[i].name, i)
  PROVE  Lists(c, <<u, "block">>, i)
<1> DEFINE d == Declarations(<<u, "block">>)
           p == Params(u)
           l == Len(b)
<1>1. i \in Nat /\ u \in Nat /\ u < i /\ u \in Nodes
  BY InIsBefore DEF Nodes
<1>2. /\ l \in Nat /\ Len(d) \in Nat /\ l <= Len(d)
      /\ \A m \in 1 .. l : Agree(b, d, m)
      /\ \A m \in 1 .. Len(d) : m <= l <=> d[m].node <= i - 1
  BY DEF Lists
<1> HIDE DEF d, p, l
<1>3. /\ d \in Seq(DeclarationSet) /\ p \in Nat /\ p <= Len(d)
      /\ \A k \in 1 .. p : Declares(d[k], Param(u, k), u)
      /\ \A k \in p + 1 .. Len(d) : d[k].node \in DeclaredIn(u) /\ Declares(d[k], program[d[k].node].name, d[k].node)
  BY <1>1, DeclarationsAre DEF p, d
<1>4. \A m, k \in p + 1 .. Len(d) : m < k => d[m].node < d[k].node
  BY <1>1, DeclarationsAre DEF p, d
<1>5. \A j \in DeclaredIn(u) : \E m \in p + 1 .. Len(d) : d[m].node = j
  BY <1>1, DeclarationsAre DEF p, d
<1>6. PICK at \in p + 1 .. Len(d) : d[at].node = i
  BY <1>5 DEF DeclaredIn, IsDeclaration
<1>7. \A m \in 1 .. Len(d) : d[m].node \in Nat
  <2>1. \A m \in 1 .. Len(d) : d[m] \in DeclarationSet
    BY <1>3
  <2>. QED BY <2>1 DEF DeclarationSet
<1>8. at \in 1 .. Len(d) /\ ~(at <= l) /\ p <= l
  <2>1. at \in 1 .. Len(d)
    BY <1>2, <1>3
  <2>2. ~(at <= l)
    BY <1>1, <1>2, <1>6, <2>1
  <2>3. ASSUME ~(p <= l)
        PROVE  FALSE
    <3>1. p \in 1 .. Len(d) /\ p \in 1 .. p /\ ~(p <= l)
      BY <1>2, <1>3, <2>3
    <3>2. d[p].node = u
      BY <1>3, <3>1 DEF Declares
    <3>. QED BY <1>1, <1>2, <3>1, <3>2
  <2>. QED BY <2>1, <2>2, <2>3
<1>9. at = l + 1
  <2>1. ASSUME at # l + 1
        PROVE  FALSE
    <3>1. l + 1 \in p + 1 .. Len(d) /\ l + 1 < at /\ l + 1 \in 1 .. Len(d)
      BY <1>2, <1>3, <1>8, <2>1
    <3>2. d[l + 1].node < i
      BY <1>4, <1>6, <3>1
    <3>3. ~(d[l + 1].node <= i - 1)
      BY <1>2, <3>1
    <3>. QED BY <1>1, <1>7, <3>1, <3>2, <3>3
  <2>. QED BY <2>1
<1>10. ASSUME NEW m \in 1 .. Len(d)
       PROVE  m <= l + 1 <=> d[m].node <= i
  <2>1. CASE m <= l
    <3>1. d[m].node <= i - 1
      BY <1>2, <2>1
    <3>. QED BY <1>1, <1>2, <1>7, <2>1, <3>1
  <2>2. CASE m = l + 1
    BY <1>1, <1>2, <1>6, <1>9, <2>2
  <2>3. CASE ~(m <= l + 1)
    <3>1. m \in p + 1 .. Len(d) /\ at < m
      BY <1>2, <1>3, <1>8, <1>9, <2>3
    <3>2. i < d[m].node
      BY <1>4, <1>6, <3>1
    <3>. QED BY <1>1, <1>7, <2>3, <3>2
  <2>. QED BY <1>2, <2>1, <2>2, <2>3
<1>11. Len(c) = l + 1 /\ (\A m \in 1 .. l : Agree(c, b, m)) /\ Declares(c[l + 1], program[i].name, i)
  BY DEF OneMore, l
<1>12. ASSUME NEW m \in 1 .. l + 1
       PROVE  Agree(c, d, m)
  <2>1. CASE m \in 1 .. l
    BY <1>2, <1>11, <2>1 DEF Agree
  <2>2. CASE m = l + 1
    <3>1. Declares(d[m], program[i].name, i)
      BY <1>3, <1>6, <1>9, <2>2
    <3>. QED BY <1>11, <2>2, <3>1 DEF Agree, Declares
  <2>. QED BY <1>2, <2>1, <2>2
<1>13. l + 1 \in Nat /\ l + 1 <= Len(d)
  BY <1>2, <1>8, <1>9
<1>. QED BY <1>2, <1>10, <1>11, <1>12, <1>13 DEF Lists, d

-----------------------------------------------------------------------------
(* What the operations on the scopes do *)

BindingSet == [name : NameSet, kind : {"variable", "parameter", "this", "super"}, node : Nat,
               defined : BOOLEAN, read : BOOLEAN]
ScopesSet == Seq(Seq(BindingSet))
Reasons == {"declared twice", "own initializer", "inherits itself", "init is a getter", "top-level return",
            "value from init", "this outside", "super outside", "no superclass"}
ErrorSet == Nat \X Reasons

\* A resolver that differs from r in its scopes and errors only.
Like(r) == [at : {r.at}, scopes : ScopesSet, currentFunction : {r.currentFunction}, currentClass : {r.currentClass},
            enclosing : {r.enclosing}, errs : SUBSET ErrorSet, warnings : {r.warnings}]
IsResolver(r) == r \in Like(r)

LEMMA LikeIs ==
  ASSUME NEW r, IsResolver(r), NEW q \in Like(r)
  PROVE  /\ IsResolver(q) /\ Like(q) = Like(r)
         /\ q.at = r.at /\ q.currentFunction = r.currentFunction /\ q.currentClass = r.currentClass
         /\ q.enclosing = r.enclosing /\ q.warnings = r.warnings
         /\ q.scopes \in ScopesSet /\ q.errs \subseteq ErrorSet
BY DEF IsResolver, Like

LEMMA ScopesAre ==
  ASSUME NEW scopes \in ScopesSet
  PROVE  /\ Len(scopes) \in Nat /\ DOMAIN scopes = 1 .. Len(scopes)
         /\ scopes = <<>> <=> Len(scopes) = 0
         /\ \A d \in 1 .. Len(scopes) : scopes[d] \in Seq(BindingSet)
         /\ scopes # <<>> => Last(scopes) = scopes[Len(scopes)]
BY DEF ScopesSet, Last

\* The innermost scope may have changed, and no other.
OnlyInnermost(a, b) == Len(b) = Len(a) /\ \A d \in 1 .. Len(a) : d # Len(a) => b[d] = a[d]

LEMMA ChangeInnermost ==
  ASSUME NEW scopes \in ScopesSet, scopes # <<>>, NEW new \in Seq(BindingSet),
         NEW after, after = [scopes EXCEPT ![Len(scopes)] = new]
  PROVE  /\ after \in ScopesSet /\ OnlyInnermost(scopes, after) /\ after[Len(scopes)] = new
         /\ Len(scopes) \in 1 .. Len(scopes) /\ scopes[Len(scopes)] \in Seq(BindingSet)
<1>1. /\ Len(scopes) \in Nat /\ DOMAIN scopes = 1 .. Len(scopes) /\ Len(scopes) # 0
      /\ \A d \in 1 .. Len(scopes) : scopes[d] \in Seq(BindingSet)
  BY ScopesAre
<1>2. Len(scopes) \in 1 .. Len(scopes)
  BY <1>1
<1> DEFINE S == Seq(BindingSet)
<1> HIDE DEF S
<1>3. scopes \in Seq(S) /\ new \in S
  BY DEF ScopesSet, S
<1>4. after \in Seq(S) /\ Len(after) = Len(scopes) /\ after[Len(scopes)] = new
  BY <1>2, <1>3
<1>5. \A d \in 1 .. Len(scopes) : d # Len(scopes) => after[d] = scopes[d]
  BY <1>2, <1>3
<1>. QED BY <1>1, <1>2, <1>4, <1>5 DEF OnlyInnermost, ScopesSet, S

\* q is r with one more binding in its innermost scope, or with an error.
Binds(r, q, name, node) ==
  /\ OnlyInnermost(r.scopes, q.scopes)
  /\ q.errs = {} => r.errs = {}
  /\ q.errs = {} /\ r.scopes # <<>> =>
       OneMore(r.scopes[Len(r.scopes)], q.scopes[Len(r.scopes)], name, node)

LEMMA FailIs ==
  ASSUME NEW r, IsResolver(r), NEW node \in Nat, NEW why, <<node, why>> \in ErrorSet
  PROVE  fail(r, node, why) \in Like(r) /\ fail(r, node, why).scopes = r.scopes /\ fail(r, node, why).errs # {}
BY DEF IsResolver, Like, fail

LEMMA AppendIs ==
  ASSUME NEW b \in Seq(BindingSet), NEW new \in BindingSet
  PROVE  Append(b, new) \in Seq(BindingSet) /\ OneMore(b, Append(b, new), new.name, new.node)
<1> DEFINE c == Append(b, new)
<1>1. c \in Seq(BindingSet) /\ Len(c) = Len(b) + 1 /\ c[Len(b) + 1] = new /\ \A m \in 1 .. Len(b) : c[m] = b[m]
  OBVIOUS
<1> HIDE DEF c
<1>2. OneMore(b, c, new.name, new.node)
  BY <1>1 DEF OneMore, Agree, Declares
<1>. QED BY <1>1, <1>2 DEF c

LEMMA DeclareIs ==
  ASSUME NEW r, IsResolver(r), NEW name \in NameSet, NEW kind \in {"variable", "parameter", "this", "super"},
         NEW node \in Nat
  PROVE  declare(r, name, kind, node) \in Like(r) /\ Binds(r, declare(r, name, kind, node), name, node)
<1> DEFINE q == declare(r, name, kind, node)
           new == [name |-> name, kind |-> kind, node |-> node, defined |-> FALSE, read |-> FALSE]
           l == Len(r.scopes)
<1>1. r \in Like(r) /\ r.scopes \in ScopesSet
  BY LikeIs DEF IsResolver
<1>2. CASE r.scopes = <<>>
  <2>1. q = r /\ OnlyInnermost(r.scopes, r.scopes)
    BY <1>2 DEF declare, OnlyInnermost
  <2> HIDE DEF q
  <2>. QED BY <1>1, <1>2, <2>1 DEF Binds, q
<1>3. CASE r.scopes # <<>> /\ BindingsOf(Last(r.scopes), name) # {}
  <2>1. q = fail(r, node, "declared twice")
    BY <1>3 DEF declare
  <2>2. <<node, "declared twice">> \in ErrorSet
    BY DEF ErrorSet, Reasons
  <2> HIDE DEF q
  <2>3. q \in Like(r) /\ q.scopes = r.scopes /\ q.errs # {}
    BY <2>1, <2>2, FailIs
  <2>. QED BY <2>3 DEF Binds, OnlyInnermost, q
<1>4. CASE r.scopes # <<>> /\ ~(BindingsOf(Last(r.scopes), name) # {})
  <2> DEFINE b == r.scopes[l]
             c == Append(b, new)
             after == [r.scopes EXCEPT ![l] = c]
  <2>1. q = [r EXCEPT !.scopes[l] = Append(@, new)]
    BY <1>4 DEF declare, Innermost
  <2>2. new \in BindingSet /\ new.name = name /\ new.node = node
    BY DEF BindingSet
  <2>3. b \in Seq(BindingSet) /\ l \in 1 .. l
    <3>1. l \in Nat /\ l # 0 /\ \A d \in 1 .. l : r.scopes[d] \in Seq(BindingSet)
      BY <1>1, <1>4, ScopesAre
    <3>. QED BY <3>1
  <2>4. q = [r EXCEPT !.scopes = after]
    BY <1>1, <2>1 DEF Like
  <2> HIDE DEF new, b, q
  <2>5. c \in Seq(BindingSet) /\ OneMore(b, c, name, node)
    BY <2>2, <2>3, AppendIs
  <2> HIDE DEF c
  <2>6. after \in ScopesSet /\ OnlyInnermost(r.scopes, after) /\ after[l] = c
    BY <1>1, <1>4, <2>5, ChangeInnermost
  <2> HIDE DEF after
  <2>7. q \in Like(r) /\ q.scopes = after /\ q.errs = r.errs
    BY <1>1, <2>4, <2>6 DEF Like
  <2>. QED BY <2>5, <2>6, <2>7 DEF Binds, b, q
<1>. QED BY <1>2, <1>3, <1>4

\* q is r with some of its bindings defined or read.
Marks(r, q) ==
  /\ Len(q.scopes) = Len(r.scopes) /\ q.errs = r.errs
  /\ \A d \in 1 .. Len(r.scopes) : Alike(r.scopes[d], q.scopes[d])

LEMMA DefineIs ==
  ASSUME NEW r, IsResolver(r), NEW name
  PROVE  /\ define(r, name) \in Like(r) /\ Marks(r, define(r, name))
         /\ OnlyInnermost(r.scopes, define(r, name).scopes)
<1> DEFINE q == define(r, name)
           l == Len(r.scopes)
<1>1. r \in Like(r) /\ r.scopes \in ScopesSet
  BY LikeIs DEF IsResolver
<1>2. CASE r.scopes = <<>>
  <2>1. q = r /\ OnlyInnermost(r.scopes, r.scopes) /\ Marks(r, r)
    BY <1>2 DEF define, OnlyInnermost, Marks, Alike, Agree
  <2> HIDE DEF q
  <2>. QED BY <1>1, <2>1 DEF q
<1>3. CASE r.scopes # <<>>
  <2> DEFINE b == r.scopes[l]
             c == [n \in DOMAIN b |-> IF b[n].name = name THEN [b[n] EXCEPT !.defined = TRUE] ELSE b[n]]
             after == [r.scopes EXCEPT ![l] = c]
  <2>1. q = [r EXCEPT !.scopes[l] = [n \in DOMAIN @ |-> IF @[n].name = name THEN [@[n] EXCEPT !.defined = TRUE]
                                                      ELSE @[n]]]
    BY <1>3 DEF define, Innermost
  <2>2. b \in Seq(BindingSet) /\ l \in 1 .. l
    <3>1. l \in Nat /\ l # 0 /\ \A d \in 1 .. l : r.scopes[d] \in Seq(BindingSet)
      BY <1>1, <1>3, ScopesAre
    <3>. QED BY <3>1
  <2>3. q = [r EXCEPT !.scopes = after]
    BY <1>1, <2>1 DEF Like
  <2> HIDE DEF b, q
  <2>4. c \in Seq(BindingSet) /\ Alike(b, c)
    <3>1. Len(b) \in Nat /\ DOMAIN b = 1 .. Len(b) /\ \A n \in 1 .. Len(b) : b[n] \in BindingSet
      BY <2>2
    <3> DEFINE new(n) == IF b[n].name = name THEN [b[n] EXCEPT !.defined = TRUE] ELSE b[n]
    <3>2. \A n \in 1 .. Len(b) : new(n) \in BindingSet /\ new(n).name = b[n].name /\ new(n).node = b[n].node
      BY <3>1 DEF BindingSet
    <3>3. c = [n \in 1 .. Len(b) |-> new(n)]
      BY <3>1
    <3> HIDE DEF new, c
    <3>4. c \in Seq(BindingSet) /\ Len(c) = Len(b) /\ \A n \in 1 .. Len(b) : c[n] = new(n)
      BY <3>1, <3>2, <3>3
    <3>. QED BY <3>2, <3>4 DEF Alike, Agree
  <2> HIDE DEF c
  <2>5. after \in ScopesSet /\ OnlyInnermost(r.scopes, after) /\ after[l] = c
    BY <1>1, <1>3, <2>4, ChangeInnermost
  <2> HIDE DEF after
  <2>6. q \in Like(r) /\ q.scopes = after /\ q.errs = r.errs
    BY <1>1, <2>3, <2>5 DEF Like
  <2>7. Marks(r, q)
    <3>1. \A d \in 1 .. l : d # l => Alike(r.scopes[d], after[d])
      BY <2>5 DEF OnlyInnermost, Alike, Agree
    <3>. QED BY <2>4, <2>5, <2>6, <3>1 DEF Marks, OnlyInnermost, b
  <2>. QED BY <2>5, <2>6, <2>7 DEF q
<1>. QED BY <1>2, <1>3

LEMMA IntroduceIs ==
  ASSUME NEW r, IsResolver(r), NEW name \in NameSet, NEW kind \in {"variable", "parameter", "this", "super"},
         NEW node \in Nat
  PROVE  introduce(r, name, kind, node) \in Like(r) /\ Binds(r, introduce(r, name, kind, node), name, node)
<1> DEFINE p == declare(r, name, kind, node)
           q == define(p, name)
           l == Len(r.scopes)
<1>1. introduce(r, name, kind, node) = q
  BY DEF introduce
<1>2. p \in Like(r) /\ Binds(r, p, name, node)
  BY DeclareIs
<1> HIDE DEF p
<1>3. IsResolver(p) /\ Like(p) = Like(r) /\ p.scopes \in ScopesSet
  BY <1>2, LikeIs
<1>4. q \in Like(p) /\ Marks(p, q) /\ OnlyInnermost(p.scopes, q.scopes)
  BY <1>3, DefineIs
<1> HIDE DEF q
<1>5. OnlyInnermost(r.scopes, q.scopes)
  BY <1>2, <1>4 DEF Binds, OnlyInnermost
<1>6. Binds(r, q, name, node)
  <2>1. q.errs = {} => p.errs = {} /\ r.errs = {}
    BY <1>2, <1>4 DEF Binds, Marks
  <2>2. ASSUME q.errs = {}, r.scopes # <<>>
        PROVE  OneMore(r.scopes[l], q.scopes[l], name, node)
    <3>1. OneMore(r.scopes[l], p.scopes[l], name, node)
      BY <1>2, <2>1, <2>2 DEF Binds
    <3>2. r.scopes \in ScopesSet
      BY LikeIs DEF IsResolver
    <3>3. l \in 1 .. l /\ Len(r.scopes[l]) \in Nat
      <4>1. l \in Nat /\ l # 0 /\ \A d \in 1 .. l : r.scopes[d] \in Seq(BindingSet)
        BY <2>2, <3>2, ScopesAre
      <4>2. l \in 1 .. l
        BY <4>1
      <4>. QED BY <4>1, <4>2
    <3>4. Alike(p.scopes[l], q.scopes[l])
      BY <1>2, <1>4, <3>3 DEF Marks, Binds, OnlyInnermost
    <3> DEFINE a == r.scopes[l]
               b == p.scopes[l]
               c == q.scopes[l]
    <3>5. OneMore(a, b, name, node) /\ Alike(b, c) /\ Len(a) \in Nat
      BY <3>1, <3>3, <3>4
    <3> HIDE DEF a, b, c
    <3>6. Len(b) = Len(a) + 1 /\ Len(a) + 1 \in 1 .. Len(b) /\ \A m \in 1 .. Len(a) : m \in 1 .. Len(b)
      BY <3>5 DEF OneMore
    <3>7. OneMore(a, c, name, node)
      BY <3>5, <3>6 DEF OneMore, Alike, Agree, Declares
    <3>. QED BY <3>7 DEF a, c
  <2>. QED BY <1>5, <2>1, <2>2 DEF Binds
<1>. QED BY <1>1, <1>3, <1>4, <1>6

-----------------------------------------------------------------------------
(* What an operation reports, and the names of a scope it changes *)

\* The names bound in a scope, and those of them that are not defined.
NamesOf(b) == {b[m].name : m \in 1 .. Len(b)}
Undefined(b) == {b[m].name : m \in {m \in 1 .. Len(b) : ~b[m].defined}}

\* q has the errors of r and these of one node.
Reports(r, q, node, whys) == q.errs = r.errs \cup ({node} \X whys)
Only(condition, why) == IF condition THEN {why} ELSE {}

LEMMA ReportsNothing ==
  ASSUME NEW r, NEW q, NEW node, q.errs = r.errs
  PROVE  Reports(r, q, node, {})
BY DEF Reports

LEMMA ReportsBoth ==
  ASSUME NEW p, NEW q, NEW r, NEW node, NEW A, NEW B, Reports(p, q, node, A), Reports(q, r, node, B)
  PROVE  Reports(p, r, node, A \cup B)
<1>1. {node} \X (A \cup B) = ({node} \X A) \cup ({node} \X B)
  OBVIOUS
<1>. QED BY <1>1 DEF Reports

LEMMA FailReports ==
  ASSUME NEW r, IsResolver(r), NEW node, NEW why
  PROVE  Reports(r, fail(r, node, why), node, {why}) /\ fail(r, node, why).scopes = r.scopes
<1>1. fail(r, node, why).errs = r.errs \cup {<<node, why>>} /\ fail(r, node, why).scopes = r.scopes
  BY DEF fail, IsResolver, Like
<1>2. {node} \X {why} = {<<node, why>>}
  OBVIOUS
<1>. QED BY <1>1, <1>2 DEF Reports

LEMMA NamesAppended ==
  ASSUME NEW b \in Seq(BindingSet), NEW new
  PROVE  /\ NamesOf(Append(b, new)) = NamesOf(b) \cup {new.name}
         /\ Undefined(Append(b, new)) = Undefined(b) \cup (IF new.defined THEN {} ELSE {new.name})
<1> DEFINE c == Append(b, new)
           l == Len(b)
<1>1. l \in Nat /\ Len(c) = l + 1 /\ c[l + 1] = new /\ \A m \in 1 .. l : c[m] = b[m]
  OBVIOUS
<1> HIDE DEF c, l
<1>2. l + 1 \in 1 .. l + 1 /\ \A m : m \in 1 .. l + 1 <=> m \in 1 .. l \/ m = l + 1
  BY <1>1
<1>3. NamesOf(c) = NamesOf(b) \cup {new.name}
  <2>1. \A x : x \in NamesOf(c) <=> x \in NamesOf(b) \cup {new.name}
    BY <1>1, <1>2 DEF NamesOf, l
  <2>. QED BY <2>1
<1>4. Undefined(c) = Undefined(b) \cup (IF new.defined THEN {} ELSE {new.name})
  <2>1. \A x : x \in Undefined(c) <=> \E m \in 1 .. l + 1 : ~c[m].defined /\ x = c[m].name
    BY <1>1 DEF Undefined
  <2>2. \A x : x \in Undefined(b) <=> \E m \in 1 .. l : ~b[m].defined /\ x = b[m].name
    BY DEF Undefined, l
  <2>3. \A x : x \in Undefined(c) <=> x \in Undefined(b) \/ (~new.defined /\ x = new.name)
    BY <1>1, <1>2, <2>1, <2>2
  <2>. QED BY <2>3
<1>. QED BY <1>3, <1>4 DEF c

\* The innermost scope of r, if there is one.
InnermostScope(r) == r.scopes[Len(r.scopes)]

\* q is r with name bound, and this one of its names undefined or not.
Tells(r, q, name, node, undefined) ==
  /\ r.scopes = <<>> => Reports(r, q, node, {})
  /\ r.scopes # <<>> =>
       LET b == InnermostScope(r)
           c == InnermostScope(q)
       IN /\ NamesOf(c) = NamesOf(b) \cup {name}
          /\ Undefined(c) = undefined
          /\ Reports(r, q, node, Only(name \in NamesOf(b), "declared twice"))

LEMMA BindingsAre ==
  ASSUME NEW b \in Seq(BindingSet), NEW name
  PROVE  BindingsOf(b, name) # {} <=> name \in NamesOf(b)
<1>1. DOMAIN b = 1 .. Len(b)
  OBVIOUS
<1>. QED BY <1>1 DEF BindingsOf, NamesOf

LEMMA DeclareTells ==
  ASSUME NEW r, IsResolver(r), NEW name \in NameSet, NEW kind \in {"variable", "parameter", "this", "super"},
         NEW node \in Nat, NEW q, q = declare(r, name, kind, node), NEW b, b = InnermostScope(r)
  PROVE  Tells(r, q, name, node, IF name \in NamesOf(b) THEN Undefined(b) ELSE Undefined(b) \cup {name})
<1> DEFINE new == [name |-> name, kind |-> kind, node |-> node, defined |-> FALSE, read |-> FALSE]
           l == Len(r.scopes)
<1>1. r \in Like(r) /\ r.scopes \in ScopesSet
  BY LikeIs DEF IsResolver
<1>2. CASE r.scopes = <<>>
  <2>1. q = r
    BY <1>2 DEF declare
  <2>2. Reports(r, q, node, {})
    BY <2>1, ReportsNothing
  <2>. QED BY <1>2, <2>2 DEF Tells
<1>3. CASE r.scopes # <<>>
  <2>1. l \in Nat /\ l # 0 /\ l \in 1 .. l /\ b \in Seq(BindingSet) /\ b = Last(r.scopes) /\ b = r.scopes[l]
    <3>1. /\ l \in Nat /\ l # 0 /\ Last(r.scopes) = r.scopes[l]
          /\ \A d \in 1 .. l : r.scopes[d] \in Seq(BindingSet)
      BY <1>1, <1>3, ScopesAre
    <3>2. l \in 1 .. l
      BY <3>1
    <3>. QED BY <3>1, <3>2 DEF InnermostScope
  <2>2. BindingsOf(Last(r.scopes), name) # {} <=> name \in NamesOf(b)
    BY <2>1, BindingsAre
  <2>3. CASE name \in NamesOf(b)
    <3>1. q = fail(r, node, "declared twice")
      BY <1>3, <2>2, <2>3 DEF declare
    <3>2. Reports(r, q, node, {"declared twice"}) /\ q.scopes = r.scopes
      <4>1. \A why : Reports(r, fail(r, node, why), node, {why}) /\ fail(r, node, why).scopes = r.scopes
        BY FailReports
      <4>. QED BY <3>1, <4>1
    <3>3. NamesOf(b) = NamesOf(b) \cup {name} /\ InnermostScope(q) = b
      BY <2>3, <3>2 DEF InnermostScope
    <3>. QED BY <1>3, <2>3, <3>2, <3>3 DEF Tells, Only
  <2>4. CASE name \notin NamesOf(b)
    <3> DEFINE c == Append(b, new)
               after == [r.scopes EXCEPT ![l] = c]
    <3>1. q = [r EXCEPT !.scopes[l] = Append(@, new)]
      BY <1>3, <2>2, <2>4 DEF declare, Innermost
    <3>2. new \in BindingSet /\ new.name = name /\ ~new.defined
      BY DEF BindingSet
    <3>3. q = [r EXCEPT !.scopes = after]
      BY <1>1, <2>1, <3>1 DEF Like
    <3> HIDE DEF new
    <3>4. /\ NamesOf(c) = NamesOf(b) \cup {name} /\ Undefined(c) = Undefined(b) \cup {name}
          /\ c \in Seq(BindingSet)
      BY <2>1, <3>2, NamesAppended, AppendIs
    <3> HIDE DEF c
    <3>5. after \in ScopesSet /\ OnlyInnermost(r.scopes, after) /\ after[l] = c
      BY <1>1, <1>3, <3>4, ChangeInnermost
    <3> HIDE DEF after
    <3>6. q.scopes = after /\ q.errs = r.errs
      BY <1>1, <3>3 DEF Like
    <3>7. InnermostScope(q) = c
      BY <3>5, <3>6 DEF InnermostScope, OnlyInnermost
    <3>8. Reports(r, q, node, {})
      BY <3>6, ReportsNothing
    <3>. QED BY <1>3, <2>4, <3>4, <3>7, <3>8 DEF Tells, Only
  <2>. QED BY <2>3, <2>4
<1>. QED BY <1>2, <1>3

LEMMA DefineTells ==
  ASSUME NEW r, IsResolver(r), NEW name, NEW q, q = define(r, name)
  PROVE  /\ q.errs = r.errs
         /\ r.scopes # <<>> => /\ NamesOf(InnermostScope(q)) = NamesOf(InnermostScope(r))
                               /\ Undefined(InnermostScope(q)) = Undefined(InnermostScope(r)) \ {name}
<1> DEFINE l == Len(r.scopes)
<1>1. r \in Like(r) /\ r.scopes \in ScopesSet
  BY LikeIs DEF IsResolver
<1>2. CASE r.scopes = <<>>
  <2>1. q = r
    BY <1>2 DEF define
  <2>. QED BY <1>2, <2>1
<1>3. CASE r.scopes # <<>>
  <2> DEFINE b == r.scopes[l]
             c == [n \in DOMAIN b |-> IF b[n].name = name THEN [b[n] EXCEPT !.defined = TRUE] ELSE b[n]]
             after == [r.scopes EXCEPT ![l] = c]
  <2>1. q = [r EXCEPT !.scopes[l] = [n \in DOMAIN @ |-> IF @[n].name = name THEN [@[n] EXCEPT !.defined = TRUE]
                                                      ELSE @[n]]]
    BY <1>3 DEF define, Innermost
  <2>2. b \in Seq(BindingSet) /\ l \in 1 .. l
    <3>1. l \in Nat /\ l # 0 /\ \A d \in 1 .. l : r.scopes[d] \in Seq(BindingSet)
      BY <1>1, <1>3, ScopesAre
    <3>. QED BY <3>1
  <2>3. q = [r EXCEPT !.scopes = after]
    BY <1>1, <2>1 DEF Like
  <2> HIDE DEF b
  <2>4. Len(b) \in Nat /\ DOMAIN b = 1 .. Len(b) /\ \A n \in 1 .. Len(b) : b[n] \in BindingSet
    BY <2>2
  <2> DEFINE new(n) == IF b[n].name = name THEN [b[n] EXCEPT !.defined = TRUE] ELSE b[n]
  <2>5. \A n \in 1 .. Len(b) : /\ new(n) \in BindingSet /\ new(n).name = b[n].name
                               /\ new(n).defined <=> b[n].defined \/ b[n].name = name
    BY <2>4 DEF BindingSet
  <2>6. c = [n \in 1 .. Len(b) |-> new(n)]
    BY <2>4
  <2> HIDE DEF new, c
  <2>7. c \in Seq(BindingSet) /\ Len(c) = Len(b) /\ \A n \in 1 .. Len(b) : c[n] = new(n)
    BY <2>4, <2>5, <2>6
  <2>8. NamesOf(c) = NamesOf(b) /\ Undefined(c) = Undefined(b) \ {name}
    <3>1. \A x : x \in NamesOf(c) <=> x \in NamesOf(b)
      BY <2>5, <2>7 DEF NamesOf
    <3>2. \A x : x \in Undefined(c) <=> \E n \in 1 .. Len(b) : ~new(n).defined /\ x = new(n).name
      BY <2>7 DEF Undefined
    <3>3. \A x : x \in Undefined(b) <=> \E n \in 1 .. Len(b) : ~b[n].defined /\ x = b[n].name
      BY DEF Undefined
    <3>4. \A x : x \in Undefined(c) <=> x \in Undefined(b) /\ x # name
      BY <2>5, <3>2, <3>3
    <3>. QED BY <3>1, <3>4
  <2>9. after \in ScopesSet /\ OnlyInnermost(r.scopes, after) /\ after[l] = c
    BY <1>1, <1>3, <2>7, ChangeInnermost
  <2> HIDE DEF after
  <2>10. q.scopes = after /\ q.errs = r.errs
    BY <1>1, <2>3 DEF Like
  <2>11. InnermostScope(q) = c /\ InnermostScope(r) = b
    BY <2>9, <2>10 DEF InnermostScope, OnlyInnermost, b
  <2>. QED BY <2>8, <2>10, <2>11
<1>. QED BY <1>2, <1>3

LEMMA IntroduceTells ==
  ASSUME NEW r, IsResolver(r), NEW name \in NameSet, NEW kind \in {"variable", "parameter", "this", "super"},
         NEW node \in Nat, NEW q, q = introduce(r, name, kind, node)
  PROVE  Tells(r, q, name, node, Undefined(InnermostScope(r)) \ {name})
<1> DEFINE p == declare(r, name, kind, node)
           b == InnermostScope(r)
           w == IF name \in NamesOf(b) THEN Undefined(b) ELSE Undefined(b) \cup {name}
<1>1. q = define(p, name)
  BY DEF introduce
<1>2. p \in Like(r) /\ Binds(r, p, name, node)
  BY DeclareIs
<1>3. Tells(r, p, name, node, w)
  BY DeclareTells
<1> HIDE DEF p, b
<1>4. IsResolver(p)
  BY <1>2, LikeIs
<1>5. /\ q.errs = p.errs
      /\ p.scopes # <<>> => /\ NamesOf(InnermostScope(q)) = NamesOf(InnermostScope(p))
                            /\ Undefined(InnermostScope(q)) = Undefined(InnermostScope(p)) \ {name}
  BY <1>1, <1>4, DefineTells
<1>6. r.scopes # <<>> => p.scopes # <<>>
  <2>1. Len(p.scopes) = Len(r.scopes)
    BY <1>2 DEF Binds, OnlyInnermost
  <2>2. r.scopes \in ScopesSet /\ p.scopes \in ScopesSet
    BY <1>4, LikeIs DEF IsResolver
  <2>. QED BY <2>1, <2>2, ScopesAre
<1>7. w \ {name} = Undefined(b) \ {name}
  OBVIOUS
<1> HIDE DEF w
<1>8. \A A : Reports(r, p, node, A) => Reports(r, q, node, A)
  BY <1>5 DEF Reports
<1>. QED BY <1>3, <1>5, <1>6, <1>7, <1>8 DEF Tells, b

\* Nothing bound in a new scope, and nothing undefined.
LEMMA NoNames ==
  NamesOf(<<>>) = {} /\ Undefined(<<>>) = {}
BY DEF NamesOf, Undefined

\* q is r with one more scope, the innermost.
Opens(r, q) ==
  /\ Len(q.scopes) = Len(r.scopes) + 1
  /\ \A d \in 1 .. Len(r.scopes) : q.scopes[d] = r.scopes[d]

LEMMA BeginScopeIs ==
  ASSUME NEW r, IsResolver(r), NEW q, q = beginScope(r)
  PROVE  /\ q \in Like(r) /\ Opens(r, q) /\ q.scopes[Len(r.scopes) + 1] = <<>> /\ q.errs = r.errs
         /\ q.scopes # <<>>
<1> DEFINE after == Append(r.scopes, <<>>)
           S == Seq(BindingSet)
<1>1. r.scopes \in Seq(S) /\ r \in Like(r) /\ <<>> \in S
  BY LikeIs DEF IsResolver, ScopesSet
<1> HIDE DEF S
<1>2. /\ after \in Seq(S) /\ Len(after) = Len(r.scopes) + 1 /\ after[Len(r.scopes) + 1] = <<>>
      /\ \A d \in 1 .. Len(r.scopes) : after[d] = r.scopes[d]
  BY <1>1
<1>3. after # <<>>
  BY <1>1
<1>4. q = [r EXCEPT !.scopes = after]
  BY DEF beginScope
<1> HIDE DEF after
<1>5. after \in ScopesSet
  BY <1>2 DEF S, ScopesSet
<1>6. q \in Like(r) /\ q.scopes = after /\ q.errs = r.errs
  BY <1>1, <1>4, <1>5 DEF Like
<1>. QED BY <1>2, <1>3, <1>6 DEF Opens

LEMMA EndScopeIs ==
  ASSUME NEW r, IsResolver(r), r.scopes # <<>>, NEW q, q = endScope(r)
  PROVE  /\ IsResolver(q) /\ Opens(q, r) /\ q.errs = r.errs /\ q.at = r.at
         /\ q.currentFunction = r.currentFunction /\ q.currentClass = r.currentClass /\ q.enclosing = r.enclosing
<1> DEFINE after == Front(r.scopes)
           l == Len(r.scopes)
           S == Seq(BindingSet)
<1>1. r.scopes \in Seq(S) /\ r \in Like(r)
  BY LikeIs DEF IsResolver, ScopesSet
<1>2. l \in Nat /\ l # 0
  BY <1>1
<1> HIDE DEF S
<1>3. after \in Seq(S) /\ Len(after) = l - 1 /\ \A d \in 1 .. l - 1 : after[d] = r.scopes[d]
  BY <1>1, <1>2 DEF Front
<1> DEFINE more == r.warnings \cup {b.node : b \in {b \in ToSet(Last(r.scopes)) : b.kind = "variable" /\ ~b.read}}
<1>4. q = [r EXCEPT !.scopes = after, !.warnings = more]
  BY <1>1 DEF endScope, Like
<1> HIDE DEF after, more
<1>5. after \in ScopesSet
  BY <1>3 DEF S, ScopesSet
<1>6. IsResolver(q) /\ q.scopes = after /\ q.errs = r.errs /\ q.at = r.at
  BY <1>1, <1>4, <1>5 DEF Like, IsResolver
<1>7. q.currentFunction = r.currentFunction /\ q.currentClass = r.currentClass /\ q.enclosing = r.enclosing
  BY <1>1, <1>4 DEF Like
<1>8. Opens(q, r)
  BY <1>2, <1>3, <1>6 DEF Opens
<1>. QED BY <1>6, <1>7, <1>8

\* The first k parameters of node n, and whether one of them repeats another.
FirstParams(n, k) == {Param(n, m) : m \in 1 .. k}
Repeats(n, k) == \E m \in 1 .. k : Param(n, m) \in FirstParams(n, m - 1)

\* q is r with a scope that binds the first k parameters of node n, or with an error.
Takes(r, q, n, k) ==
  /\ Opens(r, q)
  /\ q.errs = {} => /\ r.errs = {} /\ Len(q.scopes[Len(r.scopes) + 1]) = k
                    /\ \A m \in 1 .. k : Declares(q.scopes[Len(r.scopes) + 1][m], Param(n, m), n)
  /\ NamesOf(q.scopes[Len(r.scopes) + 1]) = FirstParams(n, k) /\ Undefined(q.scopes[Len(r.scopes) + 1]) = {}
  /\ Reports(r, q, n, Only(Repeats(n, k), "declared twice"))

LEMMA NextParam ==
  ASSUME NEW n, NEW k \in Nat
  PROVE  /\ FirstParams(n, 0) = {} /\ ~Repeats(n, 0)
         /\ FirstParams(n, k + 1) = FirstParams(n, k) \cup {Param(n, k + 1)}
         /\ Repeats(n, k + 1) <=> Repeats(n, k) \/ Param(n, k + 1) \in FirstParams(n, k)
<1>1. 1 .. 0 = {} /\ k + 1 \in 1 .. k + 1 /\ (k + 1) - 1 = k /\ \A m : m \in 1 .. k + 1 <=> m \in 1 .. k \/ m = k + 1
  OBVIOUS
<1>2. FirstParams(n, 0) = {} /\ ~Repeats(n, 0)
  BY <1>1 DEF FirstParams, Repeats
<1>3. FirstParams(n, k + 1) = FirstParams(n, k) \cup {Param(n, k + 1)}
  BY <1>1 DEF FirstParams
<1>4. Repeats(n, k + 1) <=> Repeats(n, k) \/ Param(n, k + 1) \in FirstParams(n, k)
  BY <1>1 DEF Repeats
<1>. QED BY <1>2, <1>3, <1>4

LEMMA TakesNext ==
  ASSUME NEW r, IsResolver(r), NEW q, IsResolver(q), NEW n \in Nat, NEW k \in Nat, Takes(r, q, n, k),
         Param(n, k + 1) \in NameSet
  PROVE  /\ introduce(q, Param(n, k + 1), "parameter", n) \in Like(q)
         /\ Takes(r, introduce(q, Param(n, k + 1), "parameter", n), n, k + 1)
<1> DEFINE p == introduce(q, Param(n, k + 1), "parameter", n)
           l == Len(r.scopes)
           h == l + 1
<1>1. p \in Like(q) /\ Binds(q, p, Param(n, k + 1), n)
  BY IntroduceIs
<1> HIDE DEF p
<1>2. l \in Nat /\ Len(q.scopes) = h /\ \A d \in 1 .. l : q.scopes[d] = r.scopes[d]
  <2>1. r.scopes \in ScopesSet
    BY LikeIs DEF IsResolver
  <2>. QED BY <2>1, ScopesAre DEF Takes, Opens
<1>3. q.scopes # <<>>
  BY <1>2
<1>4. Opens(r, p)
  <2>1. \A d \in 1 .. l : d \in 1 .. h /\ d # h
    BY <1>2
  <2>. QED BY <1>1, <1>2, <2>1 DEF Binds, OnlyInnermost, Opens
<1>5. ASSUME p.errs = {}
      PROVE  /\ r.errs = {} /\ Len(p.scopes[h]) = k + 1
             /\ \A m \in 1 .. k + 1 : Declares(p.scopes[h][m], Param(n, m), n)
  <2> DEFINE b == q.scopes[h]
             c == p.scopes[h]
  <2>1. q.errs = {} /\ OneMore(b, c, Param(n, k + 1), n)
    BY <1>1, <1>2, <1>3, <1>5 DEF Binds
  <2>2. r.errs = {} /\ Len(b) = k /\ \A m \in 1 .. k : Declares(b[m], Param(n, m), n)
    BY <2>1 DEF Takes
  <2> HIDE DEF b, c, h
  <2>3. Len(c) = k + 1 /\ Declares(c[k + 1], Param(n, k + 1), n) /\ \A m \in 1 .. k : Agree(c, b, m)
    BY <2>1, <2>2 DEF OneMore
  <2>4. \A m \in 1 .. k + 1 : m \in 1 .. k \/ m = k + 1
    OBVIOUS
  <2>5. \A m \in 1 .. k : Declares(c[m], Param(n, m), n)
    BY <2>2, <2>3 DEF Agree, Declares
  <2>6. \A m \in 1 .. k + 1 : Declares(c[m], Param(n, m), n)
    BY <2>3, <2>4, <2>5
  <2>. QED BY <2>2, <2>3, <2>6 DEF c
<1>6. /\ NamesOf(p.scopes[h]) = FirstParams(n, k + 1) /\ Undefined(p.scopes[h]) = {}
      /\ Reports(r, p, n, Only(Repeats(n, k + 1), "declared twice"))
  <2> DEFINE name == Param(n, k + 1)
             b == q.scopes[h]
             c == p.scopes[h]
             A == Only(Repeats(n, k), "declared twice")
             B == Only(name \in NamesOf(b), "declared twice")
  <2>1. Tells(q, p, name, n, Undefined(InnermostScope(q)) \ {name})
    BY IntroduceTells DEF p
  <2>2. InnermostScope(q) = b /\ InnermostScope(p) = c
    BY <1>1, <1>2 DEF InnermostScope, Binds, OnlyInnermost
  <2>3. NamesOf(b) = FirstParams(n, k) /\ Undefined(b) = {} /\ Reports(r, q, n, A)
    BY DEF Takes
  <2> HIDE DEF b, c
  <2>4. NamesOf(c) = NamesOf(b) \cup {name} /\ Undefined(c) = {} /\ Reports(q, p, n, B)
    BY <1>3, <2>1, <2>2, <2>3 DEF Tells
  <2>5. /\ FirstParams(n, k + 1) = FirstParams(n, k) \cup {name}
        /\ Repeats(n, k + 1) <=> Repeats(n, k) \/ name \in FirstParams(n, k)
    BY NextParam
  <2>6. Only(Repeats(n, k + 1), "declared twice") = A \cup B
    BY <2>3, <2>5 DEF Only
  <2> HIDE DEF A, B
  <2>7. Reports(r, p, n, A \cup B)
    BY <2>3, <2>4, ReportsBoth
  <2>. QED BY <2>3, <2>4, <2>5, <2>6, <2>7 DEF c
<1>7. Takes(r, p, n, k + 1)
  BY <1>4, <1>5, <1>6 DEF Takes
<1>. QED BY <1>1, <1>7 DEF p

LEMMA ResolveFunctionIs ==
  ASSUME Placed(program), NEW r, IsResolver(r), resolver.at \in Nodes, NEW kind,
         NEW q, q = resolveFunction(r, kind)
  PROVE  /\ IsResolver(q) /\ Takes(r, q, resolver.at, Params(resolver.at)) /\ q.at = r.at
         /\ q.currentFunction = kind /\ q.currentClass = r.currentClass
         /\ q.enclosing = Append(r.enclosing, r.currentFunction)
<1> DEFINE i == resolver.at
           l == Params(i)
           opened == beginScope(r)
           inside == [opened EXCEPT !.enclosing = Append(@, r.currentFunction), !.currentFunction = kind]
           U == Like(inside)
           More(k, u) == introduce(u, Param(i, k), "parameter", i)
           step == [p \in (1 .. l) \X U |-> More(p[1], p[2])]
           Is(g) == g = [k \in 0 .. l |-> IF k = 0 THEN inside ELSE More(k, g[k - 1])]
           f == CHOOSE g : Is(g)
<1>1. i \in Nat /\ l \in Nat /\ \A k \in 1 .. l : Param(i, k) \in NameSet
  <2>1. program[i] \in NodeSet /\ i \in Nat
    BY DEF Placed, Nodes
  <2>2. program[i].params \in Seq(STRING)
    BY <2>1 DEF NodeSet
  <2>. QED BY <2>1, <2>2 DEF Params, Param, NameSet
<1>4. q = f[l]
  BY DEF resolveFunction, Param, Params
<1>2. /\ opened \in Like(r) /\ Opens(r, opened) /\ opened.scopes[Len(r.scopes) + 1] = <<>> /\ opened.errs = r.errs
  BY BeginScopeIs
<1> HIDE DEF opened
<1>3. /\ inside \in U /\ inside.at = r.at /\ inside.currentFunction = kind /\ inside.currentClass = r.currentClass
      /\ inside.enclosing = Append(r.enclosing, r.currentFunction)
      /\ inside.scopes = opened.scopes /\ inside.errs = opened.errs
  BY <1>2 DEF Like
<1> HIDE DEF inside
<1>5. IsResolver(inside) /\ Takes(r, inside, i, 0)
  <2>1. NamesOf(<<>>) = {} /\ Undefined(<<>>) = {} /\ FirstParams(i, 0) = {} /\ ~Repeats(i, 0)
    BY NoNames, NextParam
  <2>2. Reports(r, inside, i, Only(Repeats(i, 0), "declared twice"))
    BY <1>2, <1>3, <2>1, ReportsNothing DEF Only
  <2>3. IsResolver(inside)
    BY <1>3, LikeIs DEF U, IsResolver
  <2>4. Opens(r, inside) /\ inside.scopes[Len(r.scopes) + 1] = <<>> /\ inside.errs = r.errs
    BY <1>2, <1>3 DEF Opens
  <2>5. Len(inside.scopes[Len(r.scopes) + 1]) = 0 /\ 1 .. 0 = {}
    BY <2>4
  <2>. QED BY <2>1, <2>2, <2>3, <2>4, <2>5 DEF Takes
<1>6. \A u \in U : IsResolver(u) /\ Like(u) = U
  BY <1>5, LikeIs
<1> HIDE DEF l, U, i
<1>7. \A k \in 1 .. l, u \in U : step[<<k, u>>] = More(k, u)
  <2> HIDE DEF More
  <2>. QED OBVIOUS
<1>8. \A k \in 1 .. l, u \in U : More(k, u) \in U
  <2> TAKE k \in 1 .. l, u \in U
  <2>1. IsResolver(u) /\ Like(u) = U /\ Param(i, k) \in NameSet
    BY <1>1, <1>6
  <2>2. introduce(u, Param(i, k), "parameter", i) \in Like(u)
    BY <1>1, <2>1, IntroduceIs
  <2>. QED BY <2>1, <2>2
<1>9. \A k \in Nat, u \in U : k + 1 \in 1 .. l /\ Takes(r, u, i, k) => Takes(r, More(k + 1, u), i, k + 1)
  <2> SUFFICES ASSUME NEW k \in Nat, NEW u \in U, k + 1 \in 1 .. l, Takes(r, u, i, k)
               PROVE  Takes(r, More(k + 1, u), i, k + 1)
    OBVIOUS
  <2>1. IsResolver(u) /\ Param(i, k + 1) \in NameSet
    BY <1>1, <1>6
  <2>. QED BY <1>1, <2>1, TakesNext
<1> HIDE DEF step, More, f
<1>10. PICK g : g \in [0 .. l -> U] /\ Unfolds(g, l, inside, step)
  <2>1. Steps(step, l, U)
    BY <1>7, <1>8 DEF Steps
  <2>. QED BY <1>1, <1>3, <2>1, Recursion
<1>11. \A k \in 0 .. l : (IF k = 0 THEN inside ELSE step[<<k, g[k - 1]>>]) = (IF k = 0 THEN inside ELSE More(k, g[k - 1]))
  <2> TAKE k \in 0 .. l
  <2>1. k # 0 => k \in 1 .. l /\ k - 1 \in 0 .. l
    BY <1>1
  <2>2. k # 0 => g[k - 1] \in U
    BY <1>10, <2>1
  <2>. QED BY <1>7, <2>1, <2>2
<1>12. Is(g)
  BY <1>10, <1>11, Zenon DEF Unfolds
<1>13. Is(f)
  <2> HIDE DEF Is
  <2>. QED BY <1>12 DEF f
<1>14. f[0] = inside /\ \A k \in 1 .. l : f[k] = More(k, f[k - 1])
  <2> DEFINE h == [k \in 0 .. l |-> IF k = 0 THEN inside ELSE More(k, f[k - 1])]
  <2>1. f = h
    BY <1>13
  <2>2. 0 \in 0 .. l /\ \A k \in 1 .. l : k \in 0 .. l /\ k # 0
    BY <1>1
  <2>3. h[0] = inside /\ \A k \in 1 .. l : h[k] = More(k, f[k - 1])
    BY <2>2
  <2> HIDE DEF h
  <2>. QED BY <2>1, <2>3
<1> HIDE DEF Is
<1> DEFINE Fit(k) == f[k] \in U /\ Takes(r, f[k], i, k)
           S == {k \in Nat : k <= l => Fit(k)}
<1>15. 0 \in S
  BY <1>3, <1>5, <1>14
<1>16. ASSUME NEW k \in Nat, k \in S
       PROVE  k + 1 \in S
  <2> SUFFICES ASSUME k + 1 <= l
               PROVE  Fit(k + 1)
    OBVIOUS
  <2>1. k + 1 \in 1 .. l /\ (k + 1) - 1 = k /\ k <= l
    BY <1>1
  <2>2. f[k] \in U /\ Takes(r, f[k], i, k) /\ f[k + 1] = More(k + 1, f[k])
    BY <1>14, <1>16, <2>1
  <2>. QED BY <1>8, <1>9, <2>1, <2>2
<1> HIDE DEF S, Fit
<1>17. Fit(l)
  <2>1. l \in S
    BY <1>1, <1>15, <1>16, SetInduction
  <2>. QED BY <1>1, <2>1 DEF S
<1>18. f[l] \in U /\ Takes(r, f[l], i, l)
  BY <1>17 DEF Fit
<1>19. IsResolver(q) /\ Takes(r, q, i, l)
  BY <1>4, <1>6, <1>18
<1>20. /\ q.at = inside.at /\ q.currentFunction = inside.currentFunction /\ q.currentClass = inside.currentClass
       /\ q.enclosing = inside.enclosing
  BY <1>4, <1>5, <1>18, LikeIs DEF U
<1>. QED BY <1>3, <1>19, <1>20 DEF i, l

-----------------------------------------------------------------------------
(* The resolver's scopes are those of the text *)

\* While there is no error: the scopes r has are the ones in around, innermost
\* last, and each binds what the text has declared in it by node n.
Mirrors(r, around, n) ==
  /\ Len(r.scopes) = Len(around)
  /\ r.errs = {} => \A k \in 1 .. Len(around) : Lists(r.scopes[Len(around) + 1 - k], around[k], n)

\* q is r with some of its bindings defined or read, or with an error.
Shows(r, q) ==
  /\ Len(q.scopes) = Len(r.scopes)
  /\ q.errs = {} => r.errs = {}
  /\ \A d \in 1 .. Len(r.scopes) : Alike(r.scopes[d], q.scopes[d])

Pushed(a, s, b) ==
  /\ Len(a) \in Nat /\ Len(b) = Len(a) + 1 /\ b[1] = s
  /\ \A k \in 1 .. Len(a) : b[k + 1] = a[k]

LEMMA PushedOne ==
  ASSUME NEW S, NEW a \in Seq(S), NEW s \in S
  PROVE  Pushed(a, s, <<s>> \o a)
<1> DEFINE u == <<s>>
           b == u \o a
<1>1. u \in Seq(S) /\ Len(u) = 1 /\ u[1] = s
  OBVIOUS
<1> HIDE DEF u
<1>2. Len(b) = Len(u) + Len(a) /\ \A k \in 1 .. Len(u) : b[k] = u[k]
  BY <1>1, Concatenated
<1>3. \A k \in 1 .. Len(a) : b[Len(u) + k] = a[k]
  <2>1. u \in Seq(S)
    BY <1>1
  <2>. QED BY <2>1, Concatenated
<1> HIDE DEF b
<1>4. Len(a) \in Nat /\ \A k \in 1 .. Len(a) : 1 + k = k + 1
  OBVIOUS
<1>. QED BY <1>1, <1>2, <1>3, <1>4 DEF Pushed, b, u

LEMMA PushedTwo ==
  ASSUME NEW S, NEW a \in Seq(S), NEW s \in S, NEW t \in S
  PROVE  Pushed(a, t, <<t>> \o a) /\ Pushed(<<t>> \o a, s, <<s, t>> \o a)
<1> DEFINE v == <<t>> \o a
           u == <<s, t>>
           b == u \o a
<1>1. Pushed(a, t, v)
  BY PushedOne
<1>2. u \in Seq(S) /\ Len(u) = 2 /\ u[1] = s /\ u[2] = t
  OBVIOUS
<1> HIDE DEF u, v
<1>3. Len(b) = Len(u) + Len(a) /\ \A k \in 1 .. Len(u) : b[k] = u[k]
  BY <1>2, Concatenated
<1>4. \A k \in 1 .. Len(a) : b[Len(u) + k] = a[k]
  <2>1. u \in Seq(S)
    BY <1>2
  <2>. QED BY <2>1, Concatenated
<1> HIDE DEF b
<1>5. Len(b) = Len(v) + 1 /\ Len(v) = Len(a) + 1 /\ Len(a) \in Nat /\ b[1] = s /\ b[2] = t /\ v[1] = t
  BY <1>1, <1>2, <1>3 DEF Pushed
<1>6. ASSUME NEW k \in 1 .. Len(v)
      PROVE  b[k + 1] = v[k]
  <2>1. CASE k = 1
    BY <1>5, <2>1
  <2>2. CASE k # 1
    <3> DEFINE m == k - 1
    <3>1. m \in 1 .. Len(a) /\ m + 1 = k /\ 2 + m = k + 1
      BY <1>5, <2>2
    <3> HIDE DEF m
    <3>2. v[m + 1] = a[m]
      BY <1>1, <3>1 DEF Pushed
    <3>. QED BY <1>2, <1>4, <3>1, <3>2
  <2>. QED BY <2>1, <2>2
<1>7. Pushed(v, s, b)
  BY <1>5, <1>6 DEF Pushed
<1>. QED BY <1>1, <1>7 DEF u, v, b

LEMMA MirrorsOpened ==
  ASSUME NEW q, NEW p, NEW a, NEW b, NEW s, NEW n, Mirrors(q, a, n), Pushed(a, s, b), Opens(q, p),
         p.errs = {} => q.errs = {} /\ Lists(p.scopes[Len(q.scopes) + 1], s, n)
  PROVE  Mirrors(p, b, n)
<1> DEFINE l == Len(a)
<1>1. l \in Nat /\ Len(q.scopes) = l /\ Len(p.scopes) = l + 1 /\ Len(b) = l + 1
  BY DEF Mirrors, Pushed, Opens
<1> HIDE DEF l
<1>2. ASSUME p.errs = {}, NEW k \in 1 .. l + 1
      PROVE  Lists(p.scopes[l + 1 + 1 - k], b[k], n)
  <2>1. CASE k = 1
    <3>1. b[k] = s /\ l + 1 + 1 - k = l + 1
      BY <1>1, <2>1 DEF Pushed
    <3>. QED BY <1>1, <1>2, <3>1
  <2>2. CASE k # 1
    <3> DEFINE m == k - 1
    <3>1. m \in 1 .. l /\ m + 1 = k /\ l + 1 + 1 - k = l + 1 - m /\ l + 1 - m \in 1 .. l
      BY <1>1, <2>2
    <3> HIDE DEF m
    <3>2. b[k] = a[m]
      BY <3>1 DEF Pushed, l
    <3>3. p.scopes[l + 1 - m] = q.scopes[l + 1 - m]
      BY <1>1, <3>1 DEF Opens
    <3>4. Lists(q.scopes[l + 1 - m], a[m], n)
      BY <1>2, <3>1 DEF Mirrors, l
    <3>. QED BY <3>1, <3>2, <3>3, <3>4
  <2>. QED BY <2>1, <2>2
<1>. QED BY <1>1, <1>2 DEF Mirrors

LEMMA MirrorsClosed ==
  ASSUME NEW q, NEW p, NEW a, NEW b, NEW s, NEW n, Mirrors(p, b, n), Pushed(a, s, b), Opens(q, p), p.errs = q.errs,
         Len(q.scopes) \in Nat
  PROVE  Mirrors(q, a, n)
<1> DEFINE l == Len(a)
<1>1. l \in Nat /\ Len(q.scopes) = l /\ Len(p.scopes) = l + 1 /\ Len(b) = l + 1
  <2>1. l \in Nat /\ Len(p.scopes) = Len(q.scopes) + 1 /\ Len(p.scopes) = Len(b) /\ Len(b) = l + 1
    BY DEF Mirrors, Pushed, Opens
  <2> HIDE DEF l
  <2>. QED BY <2>1
<1> HIDE DEF l
<1>2. ASSUME q.errs = {}, NEW k \in 1 .. l
      PROVE  Lists(q.scopes[l + 1 - k], a[k], n)
  <2>1. k + 1 \in 1 .. l + 1 /\ l + 1 + 1 - (k + 1) = l + 1 - k /\ l + 1 - k \in 1 .. l
    BY <1>1
  <2>2. b[k + 1] = a[k]
    BY DEF Pushed, l
  <2>3. p.scopes[l + 1 - k] = q.scopes[l + 1 - k]
    BY <1>1, <2>1 DEF Opens
  <2>4. Lists(p.scopes[l + 1 + 1 - (k + 1)], b[k + 1], n)
    BY <1>1, <1>2, <2>1 DEF Mirrors
  <2>. QED BY <2>1, <2>2, <2>3, <2>4
<1>. QED BY <1>1, <1>2 DEF Mirrors, l

\* A node that declares nothing changes none of the scopes around it.
LEMMA MirrorsSame ==
  ASSUME Placed(program), NEW i \in Nodes, ~IsDeclaration(i), NEW r, NEW q, Mirrors(r, AroundAfter(i - 1), i - 1), Shows(r, q)
  PROVE  Mirrors(q, AroundAfter(i - 1), i)
<1> DEFINE a == AroundAfter(i - 1)
           l == Len(a)
<1>1. i - 1 \in Nat /\ i - 1 <= Len(program) /\ i \in Nat
  BY DEF Placed, Nodes
<1>2. a \in Seq(ScopeSet) /\ \A k \in 1 .. l : a[k][1] \in Nodes /\ a[k][1] <= i - 1
  BY <1>1, AroundAfterIs, ScopesAreOpen
<1>3. Mirrors(r, a, i - 1)
  OBVIOUS
<1> HIDE DEF a
<1>4. l \in Nat /\ \A k \in 1 .. l : a[k] \in ScopeSet
  BY <1>2
<1> HIDE DEF l
<1>5. Len(r.scopes) = l /\ Len(q.scopes) = l
  BY <1>3 DEF Mirrors, Shows, l
<1>6. ASSUME q.errs = {}, NEW k \in 1 .. l
      PROVE  Lists(q.scopes[l + 1 - k], a[k], i)
  <2> DEFINE d == l + 1 - k
  <2>1. d \in 1 .. l
    BY <1>4
  <2> HIDE DEF d
  <2>2. Alike(r.scopes[d], q.scopes[d]) /\ r.errs = {}
    BY <1>5, <1>6, <2>1 DEF Shows
  <2>3. Lists(r.scopes[d], a[k], i - 1)
    BY <1>3, <2>2 DEF Mirrors, l, d
  <2>4. i \notin DeclaredIn(a[k][1])
    BY DEF DeclaredIn, IsDeclaration
  <2>5. a[k][1] \in Nodes /\ a[k][1] < i
    <3>1. a[k][1] \in Nodes /\ a[k][1] <= i - 1
      BY <1>2 DEF l
    <3>. QED BY <1>1, <3>1 DEF Nodes
  <2>6. Lists(r.scopes[d], a[k], i)
    BY <1>4, <2>3, <2>4, <2>5, ListsSame
  <2>. QED BY <2>2, <2>6, ListsLike DEF d
<1>. QED BY <1>5, <1>6 DEF Mirrors, a, l

\* A declaration is the next of the innermost scope's.
LEMMA MirrorsDeclared ==
  ASSUME Placed(program), NEW i \in Nodes, IsDeclaration(i), Grammatical(program, i),
         NEW r, NEW q, Mirrors(r, AroundAfter(i - 1), i - 1), Binds(r, q, program[i].name, i)
  PROVE  Mirrors(q, AroundAfter(i - 1), i)
<1> DEFINE a == AroundAfter(i - 1)
           l == Len(a)
           u == program[i].in
<1>1. i - 1 \in Nat /\ i - 1 <= Len(program) /\ i \in Nat
  BY DEF Placed, Nodes
<1>2. a \in Seq(ScopeSet) /\ \A k \in 1 .. l : a[k][1] \in Nodes /\ a[k][1] <= i - 1
  BY <1>1, AroundAfterIs, ScopesAreOpen
<1>3. Mirrors(r, a, i - 1) /\ a = Outer(i)
  BY AroundAfterIs
<1>4. u \in 0 .. i - 1 /\ (u # 0 => u \in Nodes)
  BY InIsBefore
<1> HIDE DEF a
<1>5. l \in Nat /\ \A k \in 1 .. l : a[k] \in ScopeSet
  BY <1>2
<1> HIDE DEF l
<1>6. Len(r.scopes) = l /\ Len(q.scopes) = l /\ \A d \in 1 .. l : d # l => q.scopes[d] = r.scopes[d]
  BY <1>3 DEF Mirrors, Binds, OnlyInnermost, l
<1>7. CASE u = 0
  <2>1. l = 0
    BY <1>3, <1>7 DEF Outer, l
  <2>. QED BY <1>6, <2>1 DEF Mirrors, a, l
<1>8. CASE u # 0
  <2> DEFINE w == ScopesAround(u)
             s == <<u, "block">>
  <2>1. a = <<s>> \o w
    <3>1. IsDeclaration(i) => program[i].kind # "end" /\ program[i].kind # "method"
      BY DEF IsDeclaration
    <3>2. program[u].kind # "body"
      BY <1>8, <3>1 DEF Grammatical
    <3>3. ScopesOf(u) = <<s>>
      BY <1>4, <3>2, ScopesOfAre
    <3>. QED BY <1>3, <1>8, <3>3 DEF Outer
  <2>2. w \in Seq(ScopeSet) /\ s \in ScopeSet
    <3>1. u \in Nodes /\ u \in Nat
      BY <1>4, <1>8
    <3>. QED BY <3>1, AroundIs DEF ScopeSet
  <2>3. \A k \in 1 .. Len(w) : w[k][1] <= u - 1
    <3>1. u \in Nodes /\ u - 1 \in Nat /\ u - 1 <= Len(program)
      BY <1>1, <1>4, <1>8
    <3>2. w = AroundAfter(u - 1)
      BY <3>1, AroundAfterIs
    <3> HIDE DEF w, u
    <3>. QED BY <3>1, <3>2, ScopesAreOpen
  <2> HIDE DEF w, s
  <2>4. Pushed(w, s, a)
    BY <2>1, <2>2, PushedOne
  <2>5. l = Len(w) + 1 /\ a[1] = s /\ \A k \in 1 .. Len(w) : a[k + 1] = w[k]
    BY <2>4 DEF Pushed, l
  <2>6. r.scopes # <<>>
    <3>1. l # 0
      BY <2>4, <2>5 DEF Pushed
    <3>. QED BY <1>6, <3>1
  <2>7. ASSUME q.errs = {}, NEW k \in 1 .. l
        PROVE  Lists(q.scopes[l + 1 - k], a[k], i)
    <3>1. r.errs = {} /\ OneMore(r.scopes[l], q.scopes[l], program[i].name, i)
      BY <1>6, <2>6, <2>7 DEF Binds
    <3>2. Lists(r.scopes[l + 1 - k], a[k], i - 1)
      BY <1>3, <3>1 DEF Mirrors, l
    <3>3. CASE k = 1
      <4>1. l + 1 - k = l /\ a[k] = s
        BY <1>5, <2>5, <3>3
      <4>2. Lists(r.scopes[l], <<u, "block">>, i - 1)
        BY <3>2, <4>1 DEF s
      <4> HIDE DEF u
      <4>3. Lists(q.scopes[l], <<u, "block">>, i)
        BY <1>8, <3>1, <4>2, ListsMore DEF u
      <4>. QED BY <4>1, <4>3 DEF s
    <3>4. CASE k # 1
      <4> DEFINE m == k - 1
                 d == l + 1 - k
      <4>1. m \in 1 .. Len(w) /\ m + 1 = k /\ d \in 1 .. l /\ d # l
        BY <1>5, <2>5, <3>4
      <4> HIDE DEF m, d
      <4>2. a[k] = w[m] /\ w[m][1] <= u - 1
        BY <2>3, <2>5, <4>1
      <4>3. a[k][1] \in Nodes /\ a[k][1] \in Nat
        BY <1>2 DEF l, Nodes
      <4>4. a[k][1] < i /\ a[k][1] # u
        BY <1>1, <1>4, <1>8, <4>2, <4>3
      <4>5. i \notin DeclaredIn(a[k][1])
        BY <4>4 DEF DeclaredIn
      <4>6. Lists(r.scopes[d], a[k], i)
        BY <1>5, <3>2, <4>3, <4>4, <4>5, ListsSame DEF d
      <4>7. q.scopes[d] = r.scopes[d]
        BY <1>6, <4>1
      <4>. QED BY <4>6, <4>7 DEF d
    <3>. QED BY <3>3, <3>4
  <2>. QED BY <1>6, <2>7 DEF Mirrors, a, l
<1>. QED BY <1>7, <1>8

-----------------------------------------------------------------------------
(* What resolveLocal finds *)

Found(r, name) == {d \in 1 .. Innermost(r) : BindingsOf(r.scopes[d], name) # {}}
Depth(r, name) == Max(Found(r, name))
SlotAt(r, name) == Min(BindingsOf(r.scopes[Depth(r, name)], name))
AddressIn(r, name) ==
  IF Found(r, name) = {} THEN <<>> ELSE <<Innermost(r) - Depth(r, name), SlotAt(r, name) - 1>>

LEMMA SlotsAre ==
  ASSUME NEW b, NEW s, NEW i \in Nat, Lists(b, s, i - 1), DOMAIN b = 1 .. Len(b), Typed(s), NEW name
  PROVE  BindingsOf(b, name) = NamedBefore(i, s, name)
<1> DEFINE d == Declarations(s)
<1>1. /\ Len(b) \in Nat /\ Len(d) \in Nat /\ Len(b) <= Len(d)
      /\ \A m \in 1 .. Len(b) : Agree(b, d, m)
      /\ \A m \in 1 .. Len(d) : m <= Len(b) <=> d[m].node <= i - 1
  BY DEF Lists
<1>2. DOMAIN d = 1 .. Len(d) /\ \A m \in 1 .. Len(d) : d[m].node \in Nat
  BY DEF Typed
<1> HIDE DEF d
<1>3. \A m \in 1 .. Len(b) : m \in 1 .. Len(d)
  BY <1>1
<1>4. \A m \in 1 .. Len(d) : m \in 1 .. Len(b) <=> d[m].node < i
  BY <1>1, <1>2
<1>5. \A m \in 1 .. Len(b) : b[m].name = d[m].name
  BY <1>1 DEF Agree
<1>6. BindingsOf(b, name) = {m \in DOMAIN d : d[m].name = name /\ d[m].node < i}
  BY <1>2, <1>3, <1>4, <1>5 DEF BindingsOf
<1>. QED BY <1>6 DEF NamedBefore, d

LEMMA AddressIs ==
  ASSUME Placed(program), NEW i \in Nodes, NEW r, IsResolver(r), r.errs = {}, Mirrors(r, AroundAfter(i - 1), i - 1),
         NEW name
  PROVE  LexicalAddress(i, name) = AddressIn(r, name)
<1> DEFINE a == ScopesAround(i)
           l == Len(a)
           Held(n) == NamedBefore(i, a[n], name)
           holding == {n \in DOMAIN a : Held(n) # {}}
           nearest == Min(holding)
<1>1. i - 1 \in Nat /\ i - 1 <= Len(program) /\ i \in Nat
  BY DEF Placed, Nodes
<1>2. a = AroundAfter(i - 1) /\ a \in Seq(ScopeSet)
  BY AroundAfterIs, AroundIs
<1>3. \A k \in 1 .. l : a[k][1] \in Nodes
  BY <1>1, <1>2, ScopesAreOpen
<1>4. Mirrors(r, a, i - 1)
  BY <1>2
<1>5. LexicalAddress(i, name) = IF holding = {} THEN <<>> ELSE <<nearest - 1, Min(Held(nearest)) - 1>>
  BY DEF LexicalAddress, NamedBefore
<1> HIDE DEF a
<1>6. l \in Nat /\ DOMAIN a = 1 .. l /\ \A k \in 1 .. l : a[k] \in ScopeSet
  BY <1>2
<1> HIDE DEF l
<1>7. Len(r.scopes) = l /\ r.scopes \in ScopesSet /\ \A k \in 1 .. l : Lists(r.scopes[l + 1 - k], a[k], i - 1)
  BY <1>4, LikeIs DEF Mirrors, IsResolver, l
<1>8. \A d \in 1 .. l : r.scopes[d] \in Seq(BindingSet)
  BY <1>7, ScopesAre
<1>9. ASSUME NEW k \in 1 .. l
      PROVE  BindingsOf(r.scopes[l + 1 - k], name) = Held(k)
  <2> DEFINE d == l + 1 - k
             b == r.scopes[d]
             s == a[k]
  <2>1. d \in 1 .. l
    BY <1>6
  <2> HIDE DEF d
  <2>2. b \in Seq(BindingSet)
    BY <1>8, <2>1
  <2>3. Lists(b, s, i - 1) /\ s \in ScopeSet /\ s[1] \in Nodes
    BY <1>3, <1>6, <1>7 DEF d, l
  <2> HIDE DEF b, s
  <2>4. DOMAIN b = 1 .. Len(b)
    BY <2>2
  <2>5. Typed(s)
    BY <2>3, DeclarationsTyped
  <2>6. BindingsOf(b, name) = NamedBefore(i, s, name)
    BY <1>1, <2>3, <2>4, <2>5, SlotsAre
  <2>. QED BY <2>6 DEF b, s, d
<1> HIDE DEF Held, holding, nearest
<1> DEFINE found == Found(r, name)
<1>10. \A d \in 1 .. l : d \in found <=> l + 1 - d \in holding
  <2> TAKE d \in 1 .. l
  <2> DEFINE k == l + 1 - d
  <2>1. k \in 1 .. l /\ l + 1 - k = d
    BY <1>6
  <2> HIDE DEF k
  <2>2. BindingsOf(r.scopes[d], name) = Held(k)
    BY <1>9, <2>1
  <2>3. k \in holding <=> Held(k) # {}
    BY <1>6, <2>1 DEF holding
  <2>4. d \in found <=> BindingsOf(r.scopes[d], name) # {}
    BY <1>7 DEF Found, Innermost
  <2>. QED BY <2>2, <2>3, <2>4 DEF k
<1>11. found \subseteq 1 .. l /\ holding \subseteq 1 .. l
  BY <1>6, <1>7 DEF Found, Innermost, holding
<1> HIDE DEF found
<1>12. CASE holding = {}
  <2>1. found = {}
    BY <1>10, <1>11, <1>12
  <2>. QED BY <1>5, <1>12, <2>1 DEF AddressIn, found
<1>13. CASE holding # {}
  <2>1. nearest \in holding /\ \A k \in holding : nearest <= k
    <3>1. holding \subseteq Nat
      BY <1>11
    <3>. QED BY <1>13, <3>1, MinIs DEF nearest
  <2> DEFINE depth == l + 1 - nearest
  <2>2. nearest \in 1 .. l /\ depth \in 1 .. l /\ l + 1 - depth = nearest
    BY <1>6, <1>11, <2>1
  <2> HIDE DEF depth
  <2>3. depth \in found
    BY <1>10, <2>1, <2>2
  <2>4. \A d \in found : d <= depth
    <3> TAKE d \in found
    <3>1. d \in 1 .. l /\ l + 1 - d \in holding
      BY <1>10, <1>11
    <3>2. nearest <= l + 1 - d
      BY <2>1, <3>1
    <3>. QED BY <1>6, <2>2, <3>1, <3>2 DEF depth
  <2>5. Max(found) = depth
    <3>1. found \subseteq 0 .. l
      BY <1>11
    <3>. QED BY <1>6, <2>3, <2>4, <3>1, MaxIsThe
  <2>6. Depth(r, name) = depth
    BY <2>5 DEF Depth, found
  <2>7. BindingsOf(r.scopes[depth], name) = Held(nearest)
    BY <1>9, <2>2 DEF depth
  <2>8. SlotAt(r, name) = Min(Held(nearest))
    BY <2>6, <2>7 DEF SlotAt
  <2>9. Innermost(r) - Depth(r, name) = nearest - 1
    BY <1>6, <1>7, <2>2, <2>6 DEF Innermost, depth
  <2>10. found # {}
    BY <2>3
  <2>. QED BY <1>5, <1>13, <2>8, <2>9, <2>10 DEF AddressIn, found
<1>. QED BY <1>12, <1>13

OnlyGives(l, m, at) == \A i : i # at => (i \in DOMAIN m <=> i \in DOMAIN l) /\ (i \in DOMAIN l => m[i] = l[i])

LEMMA FoundIs ==
  ASSUME NEW r, IsResolver(r), NEW name, Found(r, name) # {}
  PROVE  /\ Depth(r, name) \in 1 .. Len(r.scopes) /\ r.scopes[Depth(r, name)] \in Seq(BindingSet)
         /\ SlotAt(r, name) \in 1 .. Len(r.scopes[Depth(r, name)])
<1> DEFINE found == Found(r, name)
           depth == Depth(r, name)
           slot == SlotAt(r, name)
           b == r.scopes[depth]
<1>1. r.scopes \in ScopesSet
  BY LikeIs DEF IsResolver
<1>2. Len(r.scopes) \in Nat /\ \A d \in 1 .. Len(r.scopes) : r.scopes[d] \in Seq(BindingSet)
  BY <1>1, ScopesAre
<1>3. found \subseteq 0 .. Len(r.scopes) /\ found \subseteq 1 .. Len(r.scopes)
  BY <1>2 DEF Found, Innermost
<1>4. \A d \in found : BindingsOf(r.scopes[d], name) # {}
  BY DEF Found
<1>5. depth = Max(found) /\ found # {}
  BY DEF Depth
<1> HIDE DEF found, depth
<1>6. depth \in found
  BY <1>2, <1>3, <1>5, MaxIs
<1>7. depth \in 1 .. Len(r.scopes) /\ b \in Seq(BindingSet)
  BY <1>2, <1>3, <1>6
<1> DEFINE at == BindingsOf(b, name)
<1>8. at \subseteq 1 .. Len(b) /\ at # {}
  <2>1. at # {}
    BY <1>4, <1>6
  <2>2. DOMAIN b = 1 .. Len(b)
    BY <1>7
  <2>. QED BY <2>1, <2>2 DEF BindingsOf
<1>9. slot = Min(at)
  BY DEF SlotAt, depth
<1> HIDE DEF at, b, slot
<1>10. slot \in at
  <2>1. at \subseteq Nat
    <3>1. \A k \in 1 .. Len(b) : k \in Nat
      BY <1>7
    <3>. QED BY <1>8, <3>1
  <2>. QED BY <1>8, <1>9, <2>1, MinIs
<1>. QED BY <1>7, <1>8, <1>10 DEF depth, slot, b

\* A visit whose scopes keep their names.
SameNames(r, q) ==
  /\ Len(q.scopes) = Len(r.scopes)
  /\ \A d \in 1 .. Len(r.scopes) : NamesOf(q.scopes[d]) = NamesOf(r.scopes[d]) /\ Undefined(q.scopes[d]) = Undefined(r.scopes[d])

LEMMA ResolveLocalIs ==
  ASSUME NEW r, IsResolver(r), NEW name, NEW read \in BOOLEAN, resolveLocal(r, name, read),
         resolver.at \notin DOMAIN locals
  PROVE  /\ resolver' \in Like(r) /\ Shows(r, resolver') /\ SameNames(r, resolver') /\ resolver'.errs = r.errs
         /\ OnlyGives(locals, locals', resolver.at)
         /\ AddressIn(r, name) = AddressGiven(locals', resolver.at)
<1> DEFINE found == Found(r, name)
           depth == Depth(r, name)
           slot == SlotAt(r, name)
           address == <<Innermost(r) - depth, slot - 1>>
<1>1. r \in Like(r) /\ r.scopes \in ScopesSet
  BY LikeIs DEF IsResolver
<1>2. IF found = {} THEN resolver' = r /\ UNCHANGED locals
      ELSE /\ resolver' = [r EXCEPT !.scopes[depth][slot].read = @ \/ read]
           /\ locals' = Given(address)
  BY DEF resolveLocal, Found, Depth, SlotAt
<1>3. AddressIn(r, name) = IF found = {} THEN <<>> ELSE address
  BY DEF AddressIn
<1>4. found # {} => /\ depth \in 1 .. Len(r.scopes) /\ r.scopes[depth] \in Seq(BindingSet)
                    /\ slot \in 1 .. Len(r.scopes[depth])
  BY FoundIs
<1> HIDE DEF found, depth, slot
<1>5. CASE found = {}
  <2>1. resolver' = r /\ locals' = locals
    BY <1>2, <1>5
  <2>2. Shows(r, r)
    BY DEF Shows, Alike, Agree
  <2>3. AddressGiven(locals, resolver.at) = <<>>
    BY DEF AddressGiven
  <2>4. OnlyGives(locals, locals, resolver.at)
    BY DEF OnlyGives
  <2>5. SameNames(r, r)
    BY DEF SameNames
  <2>. QED BY <1>1, <1>3, <1>5, <2>1, <2>2, <2>3, <2>4, <2>5
<1>6. CASE found # {}
  <2> DEFINE b == r.scopes[depth]
             new == [b[slot] EXCEPT !.read = @ \/ read]
             c == [b EXCEPT ![slot] = new]
             after == [r.scopes EXCEPT ![depth] = c]
             S == Seq(BindingSet)
  <2>1. depth \in 1 .. Len(r.scopes) /\ b \in S /\ slot \in 1 .. Len(b)
    BY <1>4, <1>6
  <2>2. resolver' = [r EXCEPT !.scopes = after]
    <3>1. resolver' = [r EXCEPT !.scopes[depth][slot].read = @ \/ read]
      BY <1>2, <1>6
    <3>. QED BY <1>1, <3>1 DEF Like
  <2> HIDE DEF b, after
  <2>3. new \in BindingSet /\ new.name = b[slot].name /\ new.node = b[slot].node /\ new.defined = b[slot].defined
    <3>1. b[slot] \in BindingSet
      BY <2>1
    <3>. QED BY <3>1 DEF BindingSet
  <2> HIDE DEF new
  <2>4. c \in S /\ Len(c) = Len(b) /\ \A m \in 1 .. Len(b) : c[m] = IF m = slot THEN new ELSE b[m]
    BY <2>1, <2>3
  <2> HIDE DEF c
  <2>5. Alike(b, c)
    BY <2>3, <2>4 DEF Alike, Agree
  <2>13. NamesOf(c) = NamesOf(b) /\ Undefined(c) = Undefined(b)
    BY <2>3, <2>4 DEF NamesOf, Undefined
  <2>6. r.scopes \in Seq(S) /\ c \in S
    BY <1>1, <2>4 DEF ScopesSet
  <2> HIDE DEF S
  <2>7. /\ after \in Seq(S) /\ Len(after) = Len(r.scopes)
        /\ \A d \in 1 .. Len(r.scopes) : after[d] = IF d = depth THEN c ELSE r.scopes[d]
    BY <2>1, <2>6 DEF after
  <2>8. resolver' \in Like(r) /\ resolver'.scopes = after /\ resolver'.errs = r.errs
    <3>1. after \in ScopesSet
      BY <2>7 DEF S, ScopesSet
    <3>. QED BY <1>1, <2>2, <3>1 DEF Like
  <2>9. Shows(r, resolver')
    <3>1. \A d \in 1 .. Len(r.scopes) : Alike(r.scopes[d], after[d])
      <4>1. \A d \in 1 .. Len(r.scopes) : d # depth => Alike(r.scopes[d], after[d])
        BY <2>7 DEF Alike, Agree
      <4>. QED BY <2>5, <2>7, <4>1 DEF b
    <3>. QED BY <2>7, <2>8, <3>1 DEF Shows
  <2>14. SameNames(r, resolver')
    BY <2>7, <2>8, <2>13 DEF SameNames, b
  <2> HIDE DEF address
  <2> DEFINE at == resolver.at
             given == [i \in DOMAIN locals \cup {at} |-> IF i = at THEN address ELSE locals[i]]
  <2>10. locals' = given
    BY <1>2, <1>6 DEF Given
  <2> HIDE DEF at
  <2>11. DOMAIN given = {at} \cup DOMAIN locals /\ given[at] = address /\ \A i \in DOMAIN locals : i # at => given[i] = locals[i]
    OBVIOUS
  <2> HIDE DEF given
  <2>12. OnlyGives(locals, given, at) /\ AddressGiven(given, at) = address
    BY <2>11 DEF OnlyGives, AddressGiven
  <2>. QED BY <1>3, <1>6, <2>8, <2>9, <2>10, <2>12, <2>14 DEF at
<1>. QED BY <1>5, <1>6

-----------------------------------------------------------------------------
(* One visit *)

\* While a line is being resolved.
ResolverInv ==
  /\ IsResolver(resolver) /\ resolver.at \in line .. Len(program) + 1
  /\ Mirrors(resolver, AroundAfter(resolver.at - 1), resolver.at - 1)
  /\ DOMAIN locals \subseteq 1 .. resolver.at - 1
  /\ resolver.errs = {} =>
       \A i \in line .. resolver.at - 1 :
         program[i].kind \in Uses => LexicalAddress(i, NameUsed(i)) = AddressGiven(locals, i)

\* What every visit does.
Advances ==
  LET i == resolver.at
  IN /\ IsResolver(resolver') /\ resolver'.at = i + 1
     /\ Mirrors(resolver', AroundAfter(i), i)
     /\ resolver'.errs = {} => resolver.errs = {}
     /\ OnlyGives(locals, locals', i)
     /\ resolver'.errs = {} /\ program[i].kind \in Uses =>
          LexicalAddress(i, NameUsed(i)) = AddressGiven(locals', i)

LEMMA MovedIs ==
  ASSUME IsResolver(resolver), resolver.at \in Nat
  PROVE  /\ IsResolver(Moved) /\ Moved.at = resolver.at + 1 /\ Moved.scopes = resolver.scopes /\ Moved.errs = resolver.errs
         /\ Moved.currentFunction = resolver.currentFunction /\ Moved.currentClass = resolver.currentClass
         /\ Moved.enclosing = resolver.enclosing /\ Moved.warnings = resolver.warnings
BY DEF IsResolver, Like, Moved

LEMMA MirrorsLike ==
  ASSUME NEW p, NEW q, NEW a, NEW n, Mirrors(p, a, n), q.scopes = p.scopes, q.errs = {} => p.errs = {}
  PROVE  Mirrors(q, a, n)
BY DEF Mirrors

LEMMA ShowsSame ==
  ASSUME NEW r, NEW q, q.scopes = r.scopes, q.errs = {} => r.errs = {}
  PROVE  Shows(r, q)
BY DEF Shows, Alike, Agree

\* What a visit of node i starts from.
LEMMA VisitStarts ==
  ASSUME TextIsPlaced, ResolverInv, resolver.at \in Nodes, NEW i, i = resolver.at
  PROVE  /\ i \in Nat /\ i \in Nodes /\ Placed(program) /\ Grammatical(program, i) /\ program[i] \in NodeSet
         /\ IsResolver(resolver) /\ IsResolver(Moved) /\ Moved.at = i + 1 /\ Moved.scopes = resolver.scopes
         /\ Moved.errs = resolver.errs
         /\ Mirrors(Moved, AroundAfter(i - 1), i - 1)
         /\ ~IsDeclaration(i) => Mirrors(Moved, AroundAfter(i - 1), i)
         /\ i \notin DOMAIN locals
         /\ AroundAfter(i - 1) \in Seq(ScopeSet)
<1>1. i \in Nodes /\ i \in Nat /\ Placed(program) /\ Grammatical(program, i)
  BY DEF TextIsPlaced, Nodes
<1>2. program[i] \in NodeSet
  BY <1>1 DEF Placed, Nodes
<1>3. IsResolver(resolver) /\ Mirrors(resolver, AroundAfter(i - 1), i - 1) /\ DOMAIN locals \subseteq 1 .. i - 1
  BY DEF ResolverInv
<1>4. IsResolver(Moved) /\ Moved.at = i + 1 /\ Moved.scopes = resolver.scopes /\ Moved.errs = resolver.errs
  BY <1>1, <1>3, MovedIs
<1>5. Mirrors(Moved, AroundAfter(i - 1), i - 1)
  BY <1>3, <1>4, MirrorsLike
<1>6. ~IsDeclaration(i) => Mirrors(Moved, AroundAfter(i - 1), i)
  <2>1. Shows(resolver, Moved)
    BY <1>4, ShowsSame
  <2>. QED BY <1>1, <1>3, <2>1, MirrorsSame
<1>7. i \notin DOMAIN locals
  BY <1>1, <1>3
<1>8. AroundAfter(i - 1) \in Seq(ScopeSet)
  <2>1. i - 1 \in Nat /\ i - 1 <= Len(program)
    BY <1>1 DEF Nodes, Placed
  <2>. QED BY <1>1, <2>1, AroundAfterIs
<1>. QED BY <1>1, <1>2, <1>3, <1>4, <1>5, <1>6, <1>7, <1>8

LEMMA FailsIs ==
  ASSUME NEW r, IsResolver(r), NEW node \in Nat,
         NEW why \in Reasons
  PROVE  /\ IsResolver(fail(r, node, why)) /\ fail(r, node, why).at = r.at
         /\ fail(r, node, why).scopes = r.scopes /\ fail(r, node, why).errs # {}
         /\ fail(r, node, why) \in Like(r) /\ Shows(r, fail(r, node, why))
<1>1. <<node, why>> \in ErrorSet
  BY DEF ErrorSet
<1> DEFINE q == fail(r, node, why)
<1>2. q \in Like(r) /\ q.scopes = r.scopes /\ q.errs # {}
  BY <1>1, FailIs
<1> HIDE DEF q
<1>3. IsResolver(q) /\ q.at = r.at
  BY <1>2, LikeIs
<1>4. Shows(r, q)
  BY <1>2, ShowsSame
<1>. QED BY <1>2, <1>3, <1>4 DEF q

\* A visit that finds no address.
LEMMA PlainAdvances ==
  ASSUME NEW i, i = resolver.at, NEW q, IsResolver(q), q.at = i + 1, Mirrors(q, AroundAfter(i), i),
         q.errs = {} => resolver.errs = {}, Visited(q), program[i].kind \in Uses => q.errs # {}
  PROVE  Advances
<1>1. resolver' = q /\ locals' = locals
  BY DEF Visited
<1>2. OnlyGives(locals, locals', i)
  BY <1>1 DEF OnlyGives
<1>. QED BY <1>1, <1>2 DEF Advances

\* A visit that opens no scope and closes none.
LEMMA LevelAdvances ==
  ASSUME TextIsPlaced, ResolverInv, NEW i, i = resolver.at, i \in Nodes, ~IsOpener(program[i]), ~IsEnd(program[i]),
         NEW q, Mirrors(q, AroundAfter(i - 1), i)
  PROVE  Mirrors(q, AroundAfter(i), i)
BY ScopesNext DEF TextIsPlaced

LEMMA OtherAdvances ==
  ASSUME TextIsPlaced, ResolverInv, VisitOther \/ VisitReturnStmt
  PROVE  Advances
<1> DEFINE i == resolver.at
<1>1. i \in Nodes /\ program[i].kind \in Unbound \cup {"return"}
  BY DEF VisitOther, VisitReturnStmt, Visiting, Here
<1>2. ~IsDeclaration(i) /\ ~IsOpener(program[i]) /\ ~IsEnd(program[i]) /\ program[i].kind \notin Uses
  BY <1>1 DEF IsDeclaration, IsOpener, IsEnd, Unbound, Openers, Uses
<1>3. PICK q : Visited(q) /\ (q = Moved \/ q = fail(Moved, i, "top-level return") \/ q = fail(Moved, i, "value from init"))
  BY DEF VisitOther, VisitReturnStmt
<1>4. /\ i \in Nat /\ IsResolver(Moved) /\ Moved.at = i + 1 /\ Moved.errs = resolver.errs
      /\ Mirrors(Moved, AroundAfter(i - 1), i)
  BY <1>1, <1>2, VisitStarts
<1> HIDE DEF i
<1>5. IsResolver(q) /\ q.at = Moved.at /\ q.scopes = Moved.scopes /\ (q.errs = {} => Moved.errs = {})
  <2>1. "top-level return" \in Reasons /\ "value from init" \in Reasons
    BY DEF Reasons
  <2>2. CASE q = fail(Moved, i, "top-level return")
    BY <1>4, <2>1, <2>2, FailsIs
  <2>3. CASE q = fail(Moved, i, "value from init")
    BY <1>4, <2>1, <2>3, FailsIs
  <2>. QED BY <1>3, <1>4, <2>2, <2>3
<1>6. Mirrors(q, AroundAfter(i - 1), i)
  BY <1>4, <1>5, MirrorsLike
<1>7. Mirrors(q, AroundAfter(i), i)
  BY <1>1, <1>2, <1>6, LevelAdvances DEF i
<1>. QED BY <1>2, <1>3, <1>4, <1>5, <1>7, PlainAdvances DEF i

LEMMA VarAdvances ==
  ASSUME TextIsPlaced, ResolverInv, VisitVarStmt
  PROVE  Advances
<1> DEFINE i == resolver.at
<1>1. i \in Nodes /\ program[i].kind \in {"var", "define"}
  BY DEF VisitVarStmt, Visiting, Here
<1>2. ~IsOpener(program[i]) /\ ~IsEnd(program[i]) /\ program[i].kind \notin Uses
  BY <1>1 DEF IsOpener, IsEnd, Openers, Uses
<1>3. /\ i \in Nat /\ Placed(program) /\ Grammatical(program, i) /\ program[i] \in NodeSet
      /\ IsResolver(Moved) /\ Moved.at = i + 1 /\ Moved.errs = resolver.errs
      /\ Mirrors(Moved, AroundAfter(i - 1), i - 1)
      /\ ~IsDeclaration(i) => Mirrors(Moved, AroundAfter(i - 1), i)
  BY <1>1, VisitStarts
<1>4. CASE program[i].kind = "var"
  <2> DEFINE name == program[i].name
             q == declare(Moved, name, "variable", i)
  <2>1. Visited(q)
    BY <1>4 DEF VisitVarStmt, Visiting, Here
  <2>2. name \in NameSet /\ IsDeclaration(i)
    BY <1>3, <1>4 DEF NodeSet, NameSet, IsDeclaration
  <2> HIDE DEF name
  <2>3. q \in Like(Moved) /\ Binds(Moved, q, name, i)
    BY <1>3, <2>2, DeclareIs
  <2> HIDE DEF q, i
  <2>4. IsResolver(q) /\ q.at = i + 1 /\ (q.errs = {} => resolver.errs = {})
    BY <1>3, <2>3, LikeIs DEF Binds
  <2>5. Mirrors(q, AroundAfter(i - 1), i)
    BY <1>1, <1>3, <2>2, <2>3, MirrorsDeclared DEF name
  <2>6. Mirrors(q, AroundAfter(i), i)
    BY <1>1, <1>2, <2>5, LevelAdvances DEF i
  <2>. QED BY <1>2, <2>1, <2>4, <2>6, PlainAdvances DEF i
<1>5. CASE program[i].kind = "define"
  <2> DEFINE q == define(Moved, program[i].name)
  <2>1. Visited(q)
    BY <1>5 DEF VisitVarStmt, Visiting, Here
  <2>2. ~IsDeclaration(i)
    BY <1>5 DEF IsDeclaration
  <2>3. q \in Like(Moved) /\ Marks(Moved, q)
    BY <1>3, DefineIs
  <2> HIDE DEF q, i
  <2>4. IsResolver(q) /\ q.at = i + 1 /\ (q.errs = {} => resolver.errs = {})
    BY <1>3, <2>3, LikeIs DEF Marks
  <2>5. Shows(resolver, q)
    <3>1. Moved.scopes = resolver.scopes
      BY <1>1, VisitStarts DEF i
    <3>. QED BY <1>3, <2>3, <3>1 DEF Shows, Marks
  <2>6. Mirrors(q, AroundAfter(i - 1), i)
    <3>1. Mirrors(resolver, AroundAfter(i - 1), i - 1)
      BY DEF ResolverInv, i
    <3>. QED BY <1>1, <1>3, <2>2, <2>5, <3>1, MirrorsSame
  <2>7. Mirrors(q, AroundAfter(i), i)
    BY <1>1, <1>2, <2>6, LevelAdvances DEF i
  <2>. QED BY <1>2, <2>1, <2>4, <2>7, PlainAdvances DEF i
<1>. QED BY <1>1, <1>4, <1>5

\* A block, a function or a method is one scope.
LEMMA BlockOpens ==
  ASSUME Placed(program), NEW i \in Nodes, IsOpener(program[i]), program[i].kind # "body",
         NEW p, NEW q, Mirrors(p, AroundAfter(i - 1), i), Opens(p, q),
         q.errs = {} => p.errs = {} /\ Lists(q.scopes[Len(p.scopes) + 1], <<i, "block">>, i)
  PROVE  Mirrors(q, AroundAfter(i), i)
<1> DEFINE a == AroundAfter(i - 1)
           s == <<i, "block">>
<1>1. i \in Nat /\ i - 1 \in Nat /\ i - 1 <= Len(program)
  BY DEF Placed, Nodes
<1>2. AroundAfter(i) = <<s>> \o a
  BY <1>1, ScopesNext, ScopesOfAre
<1>3. a \in Seq(ScopeSet) /\ s \in ScopeSet
  BY <1>1, AroundAfterIs DEF ScopeSet
<1>4. Lists(q.scopes[Len(p.scopes) + 1], <<i, "block">>, i) => Lists(q.scopes[Len(p.scopes) + 1], s, i)
  OBVIOUS
<1> HIDE DEF s
<1>5. Mirrors(p, a, i)
  OBVIOUS
<1> HIDE DEF a
<1>6. Pushed(a, s, <<s>> \o a)
  BY <1>3, PushedOne
<1>. QED BY <1>2, <1>4, <1>5, <1>6, MirrorsOpened

LEMMA BlockAdvances ==
  ASSUME TextIsPlaced, ResolverInv, VisitBlockStmt
  PROVE  Advances
<1> DEFINE i == resolver.at
           q == beginScope(Moved)
<1>1. i \in Nodes /\ program[i].kind \in {"block", "if", "while"} /\ Visited(q)
  BY DEF VisitBlockStmt, Visiting, Here
<1>2. /\ IsOpener(program[i]) /\ program[i].kind # "body" /\ program[i].kind \notin Uses
      /\ program[i].kind \notin Functions /\ ~IsDeclaration(i)
  BY <1>1 DEF IsOpener, Openers, Uses, Functions, IsDeclaration
<1>3. /\ i \in Nat /\ Placed(program) /\ Grammatical(program, i)
      /\ IsResolver(Moved) /\ Moved.at = i + 1 /\ Moved.errs = resolver.errs
      /\ Mirrors(Moved, AroundAfter(i - 1), i)
  BY <1>1, <1>2, VisitStarts
<1>4. q \in Like(Moved) /\ Opens(Moved, q) /\ q.scopes[Len(Moved.scopes) + 1] = <<>> /\ q.errs = Moved.errs
  BY <1>3, BeginScopeIs
<1>5. Lists(<<>>, <<i, "block">>, i)
  <2>1. Params(i) = 0
    BY <1>2, <1>3 DEF Grammatical, Params
  <2>. QED BY <1>1, <1>3, <2>1, ListsParams
<1> HIDE DEF q, i
<1>6. IsResolver(q) /\ q.at = i + 1
  BY <1>3, <1>4, LikeIs
<1>7. Mirrors(q, AroundAfter(i), i)
  BY <1>1, <1>2, <1>3, <1>4, <1>5, BlockOpens
<1>. QED BY <1>1, <1>2, <1>3, <1>4, <1>6, <1>7, PlainAdvances DEF i

\* What resolveFunction opens.
LEMMA FunctionOpens ==
  ASSUME TextIsPlaced, NEW i, i = resolver.at, i \in Nodes, program[i].kind \in Functions, NEW p, IsResolver(p),
         Mirrors(p, AroundAfter(i - 1), i), NEW kind, NEW q, q = resolveFunction(p, kind)
  PROVE  IsResolver(q) /\ q.at = p.at /\ Mirrors(q, AroundAfter(i), i) /\ (q.errs = {} => p.errs = {})
<1>1. Placed(program)
  BY DEF TextIsPlaced
<1>2. IsResolver(q) /\ Takes(p, q, i, Params(i)) /\ q.at = p.at
  BY <1>1, ResolveFunctionIs
<1>3. IsOpener(program[i]) /\ program[i].kind # "body"
  BY DEF IsOpener, Openers, Functions
<1>4. Opens(p, q)
  BY <1>2 DEF Takes
<1>5. ASSUME q.errs = {}
      PROVE  p.errs = {} /\ Lists(q.scopes[Len(p.scopes) + 1], <<i, "block">>, i)
  <2> DEFINE b == q.scopes[Len(p.scopes) + 1]
  <2>1. p.errs = {} /\ Len(b) = Params(i) /\ \A m \in 1 .. Params(i) : Declares(b[m], Param(i, m), i)
    BY <1>2, <1>5 DEF Takes
  <2> HIDE DEF b
  <2>2. Lists(b, <<i, "block">>, i)
    BY <1>1, <2>1, ListsParams
  <2>. QED BY <2>1, <2>2 DEF b
<1>6. Mirrors(q, AroundAfter(i), i)
  BY <1>1, <1>3, <1>4, <1>5, BlockOpens
<1>. QED BY <1>2, <1>5, <1>6

LEMMA FunctionAdvances ==
  ASSUME TextIsPlaced, ResolverInv, VisitFunctionStmt
  PROVE  Advances
<1> DEFINE i == resolver.at
           name == program[i].name
           p == introduce(Moved, name, "variable", i)
           q == resolveFunction(p, "function")
<1>1. i \in Nodes /\ program[i].kind = "fun" /\ Visited(q)
  BY DEF VisitFunctionStmt, Visiting, Here
<1>2. program[i].kind \in Functions /\ program[i].kind \notin Uses /\ IsDeclaration(i)
  BY <1>1 DEF Uses, Functions, IsDeclaration
<1>3. /\ i \in Nat /\ Placed(program) /\ Grammatical(program, i) /\ program[i] \in NodeSet
      /\ IsResolver(Moved) /\ Moved.at = i + 1 /\ Moved.errs = resolver.errs
      /\ Mirrors(Moved, AroundAfter(i - 1), i - 1)
  BY <1>1, VisitStarts
<1>4. p \in Like(Moved) /\ Binds(Moved, p, name, i)
  <2>1. name \in NameSet
    BY <1>3 DEF NodeSet, NameSet
  <2> HIDE DEF name
  <2>. QED BY <1>3, <2>1, IntroduceIs
<1>5. Mirrors(p, AroundAfter(i - 1), i)
  <2> HIDE DEF p, i
  <2>. QED BY <1>1, <1>2, <1>3, <1>4, MirrorsDeclared
<1>6. IsResolver(p) /\ p.at = i + 1 /\ (p.errs = {} => resolver.errs = {})
  <2> HIDE DEF p, i
  <2>. QED BY <1>3, <1>4, LikeIs DEF Binds
<1>7. IsResolver(q) /\ q.at = p.at /\ Mirrors(q, AroundAfter(i), i) /\ (q.errs = {} => p.errs = {})
  <2> HIDE DEF p
  <2>. QED BY <1>1, <1>2, <1>5, <1>6, FunctionOpens
<1> HIDE DEF p, q
<1>. QED BY <1>1, <1>2, <1>6, <1>7, PlainAdvances

LEMMA MethodAdvances ==
  ASSUME TextIsPlaced, ResolverInv, ClassMethod
  PROVE  Advances
<1> DEFINE i == resolver.at
<1>1. i \in Nodes /\ program[i].kind = "method"
  BY DEF ClassMethod, Visiting, Here
<1>2. program[i].kind \in Functions /\ program[i].kind \notin Uses /\ ~IsDeclaration(i)
  BY <1>1 DEF Uses, Functions, IsDeclaration
<1>3. PICK p, kind : /\ Visited(resolveFunction(p, kind))
                     /\ p = Moved \/ p = fail(Moved, i, "init is a getter")
  BY DEF ClassMethod
<1>4. /\ i \in Nat /\ IsResolver(Moved) /\ Moved.at = i + 1 /\ Moved.errs = resolver.errs
      /\ Mirrors(Moved, AroundAfter(i - 1), i)
  BY <1>1, <1>2, VisitStarts
<1>5. IsResolver(p) /\ p.at = i + 1 /\ p.scopes = Moved.scopes /\ (p.errs = {} => resolver.errs = {})
  <2>1. "init is a getter" \in Reasons
    BY DEF Reasons
  <2> HIDE DEF i
  <2>2. CASE p = fail(Moved, i, "init is a getter")
    BY <1>4, <2>1, <2>2, FailsIs
  <2>. QED BY <1>3, <1>4, <2>2
<1>6. Mirrors(p, AroundAfter(i - 1), i)
  BY <1>4, <1>5, MirrorsLike
<1> DEFINE q == resolveFunction(p, kind)
<1>7. IsResolver(q) /\ q.at = p.at /\ Mirrors(q, AroundAfter(i), i) /\ (q.errs = {} => p.errs = {})
  BY <1>1, <1>2, <1>5, <1>6, FunctionOpens
<1>8. Visited(q)
  BY <1>3
<1> HIDE DEF q
<1>. QED BY <1>2, <1>5, <1>7, <1>8, PlainAdvances

LEMMA ClassNameAdvances ==
  ASSUME TextIsPlaced, ResolverInv, ClassName
  PROVE  Advances
<1> DEFINE i == resolver.at
           name == program[i].name
           bound == introduce(Moved, name, "variable", i)
           checked == IF program[i].super = name THEN fail(bound, i, "inherits itself") ELSE bound
           q == [checked EXCEPT !.enclosing = Append(@, resolver.currentClass),
                                !.currentClass = IF program[i].super = "" THEN "class" ELSE "subclass"]
<1>1. i \in Nodes /\ program[i].kind = "class" /\ Visited(q)
  BY DEF ClassName, Visiting, Here
<1>2. ~IsOpener(program[i]) /\ ~IsEnd(program[i]) /\ program[i].kind \notin Uses /\ IsDeclaration(i)
  BY <1>1 DEF IsOpener, IsEnd, Openers, Uses, IsDeclaration
<1>3. /\ i \in Nat /\ Placed(program) /\ Grammatical(program, i) /\ program[i] \in NodeSet
      /\ IsResolver(Moved) /\ Moved.at = i + 1 /\ Moved.errs = resolver.errs
      /\ Mirrors(Moved, AroundAfter(i - 1), i - 1)
  BY <1>1, VisitStarts
<1>4. bound \in Like(Moved) /\ Binds(Moved, bound, name, i)
  <2>1. name \in NameSet
    BY <1>3 DEF NodeSet, NameSet
  <2> HIDE DEF name
  <2>. QED BY <1>3, <2>1, IntroduceIs
<1> HIDE DEF bound
<1>5. Mirrors(bound, AroundAfter(i - 1), i)
  <2> HIDE DEF i
  <2>. QED BY <1>1, <1>2, <1>3, <1>4, MirrorsDeclared
<1>6. IsResolver(bound) /\ bound.at = i + 1 /\ (bound.errs = {} => resolver.errs = {})
  <2> HIDE DEF i
  <2>. QED BY <1>3, <1>4, LikeIs DEF Binds
<1>7. IsResolver(checked) /\ checked.at = i + 1 /\ checked.scopes = bound.scopes /\ (checked.errs = {} => bound.errs = {})
  <2>1. "inherits itself" \in Reasons
    BY DEF Reasons
  <2>2. CASE checked = fail(bound, i, "inherits itself")
    <3> HIDE DEF checked, i
    <3>. QED BY <1>3, <1>6, <2>1, <2>2, FailsIs
  <2>3. CASE checked = bound
    BY <1>6, <2>3
  <2>. QED BY <2>2, <2>3
<1> HIDE DEF checked
<1>8. IsResolver(q) /\ q.at = checked.at /\ q.scopes = checked.scopes /\ q.errs = checked.errs
  BY <1>7 DEF IsResolver, Like
<1> HIDE DEF q
<1>9. Mirrors(q, AroundAfter(i - 1), i)
  BY <1>5, <1>7, <1>8, MirrorsLike
<1>10. Mirrors(q, AroundAfter(i), i)
  BY <1>1, <1>2, <1>9, LevelAdvances
<1>. QED BY <1>1, <1>2, <1>6, <1>7, <1>8, <1>10, PlainAdvances

\* The scope of "this" or "super".
LEMMA WordOpens ==
  ASSUME NEW i \in Nat, NEW word \in {"this", "super"}, NEW r, IsResolver(r), NEW a, Mirrors(r, a, i),
         NEW b, Pushed(a, <<i, word>>, b), NEW q, q = introduce(beginScope(r), word, word, i)
  PROVE  IsResolver(q) /\ q.at = r.at /\ Mirrors(q, b, i) /\ (q.errs = {} => r.errs = {})
<1> DEFINE p == beginScope(r)
           s == <<i, word>>
           h == Len(r.scopes) + 1
<1>1. p \in Like(r) /\ Opens(r, p) /\ p.scopes[h] = <<>> /\ p.errs = r.errs /\ p.scopes # <<>>
  BY BeginScopeIs
<1>2. q = introduce(p, word, word, i)
  OBVIOUS
<1> HIDE DEF p
<1>3. IsResolver(p) /\ p.at = r.at
  BY <1>1, LikeIs
<1>4. q \in Like(p) /\ Binds(p, q, word, i)
  <2>1. word \in NameSet /\ word \in {"variable", "parameter", "this", "super"}
    BY DEF NameSet
  <2>. QED BY <1>2, <1>3, <2>1, IntroduceIs
<1>5. IsResolver(q) /\ q.at = r.at
  BY <1>3, <1>4, LikeIs
<1>6. Len(r.scopes) \in Nat /\ Len(p.scopes) = h
  <2>1. r.scopes \in ScopesSet
    BY LikeIs DEF IsResolver
  <2>. QED BY <1>1, <2>1, ScopesAre DEF Opens
<1>7. Opens(r, q)
  <2>1. \A d \in 1 .. Len(r.scopes) : d \in 1 .. h /\ d # h
    BY <1>6
  <2>. QED BY <1>1, <1>4, <1>6, <2>1 DEF Binds, OnlyInnermost, Opens
<1>8. ASSUME q.errs = {}
      PROVE  r.errs = {} /\ Lists(q.scopes[h], s, i)
  <2>1. r.errs = {} /\ OneMore(<<>>, q.scopes[h], word, i)
    BY <1>1, <1>4, <1>6, <1>8 DEF Binds
  <2>2. Len(q.scopes[h]) = 1 /\ Declares(q.scopes[h][1], word, i)
    BY <2>1 DEF OneMore
  <2>3. Lists(q.scopes[h], <<i, word>>, i)
    BY <2>2, ListsWord
  <2>. QED BY <2>1, <2>3
<1>9. Pushed(a, s, b)
  OBVIOUS
<1> HIDE DEF s
<1>10. Mirrors(q, b, i)
  BY <1>7, <1>8, <1>9, MirrorsOpened
<1>11. q.errs = {} => r.errs = {}
  BY <1>8
<1>. QED BY <1>5, <1>10, <1>11

LEMMA BodyAdvances ==
  ASSUME TextIsPlaced, ResolverInv, ClassBody
  PROVE  Advances
<1> DEFINE i == resolver.at
           a == AroundAfter(i - 1)
           outer == IF program[i].super = "" THEN Moved ELSE introduce(beginScope(Moved), "super", "super", i)
           q == introduce(beginScope(outer), "this", "this", i)
           s == <<i, "this">>
           t == <<i, "super">>
<1>1. i \in Nodes /\ program[i].kind = "body" /\ Visited(q)
  BY DEF ClassBody, Visiting, Here
<1>2. IsOpener(program[i]) /\ program[i].kind \notin Uses /\ ~IsDeclaration(i)
  BY <1>1 DEF IsOpener, Openers, Uses, IsDeclaration
<1>3. /\ i \in Nat /\ Placed(program) /\ IsResolver(Moved) /\ Moved.at = i + 1 /\ Moved.errs = resolver.errs
      /\ Mirrors(Moved, a, i) /\ a \in Seq(ScopeSet)
  BY <1>1, <1>2, VisitStarts
<1>4. AroundAfter(i) = ScopesOf(i) \o a
  BY <1>1, <1>2, <1>3, ScopesNext
<1>5. s \in ScopeSet /\ t \in ScopeSet
  BY <1>3 DEF ScopeSet
<1> HIDE DEF a
<1>6. IsResolver(q) /\ q.at = i + 1 /\ Mirrors(q, AroundAfter(i), i) /\ (q.errs = {} => resolver.errs = {})
  <2>1. CASE program[i].super = ""
    <3>1. q = introduce(beginScope(Moved), "this", "this", i)
      BY <2>1
    <3>2. AroundAfter(i) = <<s>> \o a
      BY <1>1, <1>3, <1>4, <2>1, ScopesOfAre DEF IsSubclass
    <3> HIDE DEF i, q, s, t, outer
    <3>3. Pushed(a, s, AroundAfter(i))
      BY <1>3, <1>5, <3>2, PushedOne
    <3>4. Pushed(a, <<i, "this">>, AroundAfter(i))
      BY <3>3 DEF s
    <3>5. IsResolver(q) /\ q.at = Moved.at /\ Mirrors(q, AroundAfter(i), i) /\ (q.errs = {} => Moved.errs = {})
      BY <1>3, <3>1, <3>4, WordOpens
    <3>. QED BY <1>3, <3>5
  <2>2. CASE program[i].super # ""
    <3> DEFINE b == <<t>> \o a
    <3>1. outer = introduce(beginScope(Moved), "super", "super", i) /\ q = introduce(beginScope(outer), "this", "this", i)
      BY <2>2
    <3>2. AroundAfter(i) = <<s, t>> \o a
      BY <1>1, <1>3, <1>4, <2>2, ScopesOfAre DEF IsSubclass
    <3> HIDE DEF i, q, s, t, outer
    <3>3. Pushed(a, t, b) /\ Pushed(b, s, AroundAfter(i))
      BY <1>3, <1>5, <3>2, PushedTwo
    <3> HIDE DEF b
    <3>4. Pushed(a, <<i, "super">>, b) /\ Pushed(b, <<i, "this">>, AroundAfter(i))
      BY <3>3 DEF s, t
    <3>5. IsResolver(outer) /\ outer.at = Moved.at /\ Mirrors(outer, b, i) /\ (outer.errs = {} => Moved.errs = {})
      BY <1>3, <3>1, <3>4, WordOpens
    <3>6. IsResolver(q) /\ q.at = outer.at /\ Mirrors(q, AroundAfter(i), i) /\ (q.errs = {} => outer.errs = {})
      BY <1>3, <3>1, <3>4, <3>5, WordOpens
    <3>. QED BY <1>3, <3>5, <3>6
  <2>. QED BY <2>1, <2>2
<1> HIDE DEF q
<1>. QED BY <1>1, <1>2, <1>6, PlainAdvances

LEMMA ScopeCloses ==
  ASSUME NEW r, IsResolver(r), NEW a, NEW b, NEW s, NEW n, Mirrors(r, b, n), Pushed(a, s, b), NEW q, q = endScope(r)
  PROVE  IsResolver(q) /\ q.at = r.at /\ q.errs = r.errs /\ Mirrors(q, a, n)
<1>1. r.scopes # <<>>
  BY DEF Mirrors, Pushed
<1>2. IsResolver(q) /\ Opens(q, r) /\ q.errs = r.errs /\ q.at = r.at
  BY <1>1, EndScopeIs
<1>3. Len(q.scopes) \in Nat
  <2>1. q.scopes \in ScopesSet
    BY <1>2, LikeIs DEF IsResolver
  <2>. QED BY <2>1, ScopesAre
<1>4. Mirrors(q, a, n)
  BY <1>2, <1>3, MirrorsClosed
<1>. QED BY <1>2, <1>4

LEMMA EndAdvances ==
  ASSUME TextIsPlaced, ResolverInv, EndVisit
  PROVE  Advances
<1> DEFINE i == resolver.at
           u == program[i].in
           a == AroundAfter(i)
           b == AroundAfter(i - 1)
           s == <<u, "this">>
           t == <<u, "super">>
           w == <<u, "block">>
           ended == endScope(Moved)
           outer == IF program[u].super = "" THEN ended ELSE endScope(ended)
           saved == Last(resolver.enclosing)
           q == CASE program[u].kind \in Functions -> [ended EXCEPT !.currentFunction = saved, !.enclosing = Front(@)]
                  [] program[u].kind = "body" -> [outer EXCEPT !.currentClass = saved, !.enclosing = Front(@)]
                  [] OTHER -> ended
<1>1. i \in Nodes /\ program[i].kind = "end" /\ Visited(q)
  BY DEF EndVisit, Visiting, Here
<1>2. IsEnd(program[i]) /\ ~IsOpener(program[i]) /\ program[i].kind \notin Uses /\ ~IsDeclaration(i)
  BY <1>1 DEF IsEnd, IsOpener, Openers, Uses, IsDeclaration
<1>3. /\ i \in Nat /\ Placed(program) /\ Grammatical(program, i) /\ IsResolver(Moved) /\ Moved.at = i + 1
      /\ Moved.errs = resolver.errs /\ Mirrors(Moved, b, i)
  BY <1>1, <1>2, VisitStarts
<1>4. u \in Nodes /\ u \in Nat /\ u # 0
  <2>1. u # 0
    BY <1>1, <1>3 DEF Grammatical
  <2>. QED BY <1>1, <1>3, <2>1, InIsBefore DEF Nodes
<1>5. b = ScopesOf(u) \o a /\ a \in Seq(ScopeSet)
  <2>1. i <= Len(program)
    BY <1>1, <1>3 DEF Nodes, Placed
  <2>. QED BY <1>1, <1>2, <1>3, <1>4, <2>1, ScopesNext, AroundAfterIs
<1>6. s \in ScopeSet /\ t \in ScopeSet /\ w \in ScopeSet
  BY <1>4 DEF ScopeSet
<1>7. program[u].kind \in Functions => program[u].kind # "body"
  BY DEF Functions
<1> HIDE DEF a, b
<1>8. ASSUME program[u].kind # "body"
      PROVE  IsResolver(ended) /\ ended.at = i + 1 /\ ended.errs = resolver.errs /\ Mirrors(ended, a, i)
  <2>1. b = <<w>> \o a
    BY <1>4, <1>5, <1>8, ScopesOfAre
  <2> HIDE DEF w, ended
  <2>2. Pushed(a, w, b)
    BY <1>5, <1>6, <2>1, PushedOne
  <2>3. IsResolver(ended) /\ ended.at = Moved.at /\ ended.errs = Moved.errs /\ Mirrors(ended, a, i)
    BY <1>3, <2>2, ScopeCloses DEF ended
  <2>. QED BY <1>3, <2>3
<1>9. ASSUME program[u].kind = "body"
      PROVE  IsResolver(outer) /\ outer.at = i + 1 /\ outer.errs = resolver.errs /\ Mirrors(outer, a, i)
  <2>1. CASE program[u].super = ""
    <3>1. b = <<s>> \o a
      BY <1>4, <1>5, <1>9, <2>1, ScopesOfAre DEF IsSubclass
    <3>2. outer = ended
      BY <2>1
    <3> HIDE DEF s, ended, outer
    <3>3. Pushed(a, s, b)
      BY <1>5, <1>6, <3>1, PushedOne
    <3>4. IsResolver(ended) /\ ended.at = Moved.at /\ ended.errs = Moved.errs /\ Mirrors(ended, a, i)
      BY <1>3, <3>3, ScopeCloses DEF ended
    <3>. QED BY <1>3, <3>2, <3>4
  <2>2. CASE program[u].super # ""
    <3> DEFINE c == <<t>> \o a
    <3>1. b = <<s, t>> \o a
      BY <1>4, <1>5, <1>9, <2>2, ScopesOfAre DEF IsSubclass
    <3>2. outer = endScope(ended)
      BY <2>2
    <3> HIDE DEF s, t, ended, outer
    <3>3. Pushed(a, t, c) /\ Pushed(c, s, b)
      BY <1>5, <1>6, <3>1, PushedTwo
    <3> HIDE DEF c
    <3>4. IsResolver(ended) /\ ended.at = Moved.at /\ ended.errs = Moved.errs /\ Mirrors(ended, c, i)
      BY <1>3, <3>3, ScopeCloses DEF ended
    <3>5. IsResolver(outer) /\ outer.at = ended.at /\ outer.errs = ended.errs /\ Mirrors(outer, a, i)
      BY <3>2, <3>3, <3>4, ScopeCloses
    <3>. QED BY <1>3, <3>4, <3>5
  <2>. QED BY <2>1, <2>2
<1> HIDE DEF ended, outer
<1>10. IsResolver(q) /\ q.at = i + 1 /\ q.errs = resolver.errs /\ Mirrors(q, a, i)
  <2>1. CASE program[u].kind \in Functions
    <3>1. q = [ended EXCEPT !.currentFunction = saved, !.enclosing = Front(@)]
      BY <1>7, <2>1
    <3>2. IsResolver(ended) /\ ended.at = i + 1 /\ ended.errs = resolver.errs /\ Mirrors(ended, a, i)
      BY <1>7, <1>8, <2>1
    <3> HIDE DEF q, i
    <3>3. IsResolver(q) /\ q.at = ended.at /\ q.errs = ended.errs /\ q.scopes = ended.scopes
      BY <3>1, <3>2 DEF IsResolver, Like
    <3>. QED BY <3>2, <3>3, MirrorsLike
  <2>2. CASE program[u].kind = "body"
    <3>1. q = [outer EXCEPT !.currentClass = saved, !.enclosing = Front(@)]
      BY <1>7, <2>2
    <3>2. IsResolver(outer) /\ outer.at = i + 1 /\ outer.errs = resolver.errs /\ Mirrors(outer, a, i)
      BY <1>9, <2>2
    <3> HIDE DEF q, i
    <3>3. IsResolver(q) /\ q.at = outer.at /\ q.errs = outer.errs /\ q.scopes = outer.scopes
      BY <3>1, <3>2 DEF IsResolver, Like
    <3>. QED BY <3>2, <3>3, MirrorsLike
  <2>3. CASE program[u].kind \notin Functions /\ program[u].kind # "body"
    <3>1. q = ended
      BY <2>3
    <3>. QED BY <1>8, <2>3, <3>1
  <2>. QED BY <2>1, <2>2, <2>3
<1> HIDE DEF q
<1>. QED BY <1>1, <1>2, <1>10, PlainAdvances DEF a

\* A use of a name is given the address it has by the text.
LEMMA UseAdvances ==
  ASSUME TextIsPlaced, ResolverInv, NEW i, i = resolver.at, i \in Nodes, program[i].kind \in Uses,
         NEW r, IsResolver(r), r.at = i + 1, r.scopes = resolver.scopes, r.errs = {} => resolver.errs = {},
         NEW read \in BOOLEAN, resolveLocal(r, NameUsed(i), read)
  PROVE  Advances
<1>1. ~IsOpener(program[i]) /\ ~IsEnd(program[i]) /\ ~IsDeclaration(i)
  BY DEF IsOpener, IsEnd, IsDeclaration, Openers, Uses
<1>2. Placed(program) /\ i \notin DOMAIN locals
  BY VisitStarts
<1>3. Mirrors(resolver, AroundAfter(i - 1), i - 1)
  BY DEF ResolverInv
<1> DEFINE name == NameUsed(i)
<1> HIDE DEF name
<1>4. resolveLocal(r, name, read)
  BY DEF name
<1>5. /\ resolver' \in Like(r) /\ Shows(r, resolver') /\ OnlyGives(locals, locals', i)
      /\ AddressIn(r, name) = AddressGiven(locals', i)
  BY <1>2, <1>4, ResolveLocalIs
<1>6. IsResolver(resolver') /\ resolver'.at = i + 1
  BY <1>5, LikeIs
<1>7. Mirrors(r, AroundAfter(i - 1), i - 1)
  BY <1>3, MirrorsLike
<1>8. Mirrors(resolver', AroundAfter(i - 1), i)
  BY <1>1, <1>2, <1>5, <1>7, MirrorsSame
<1>9. Mirrors(resolver', AroundAfter(i), i)
  BY <1>1, <1>8, LevelAdvances
<1>10. resolver'.errs = {} => r.errs = {}
  BY <1>5 DEF Shows
<1>11. r.errs = {} => LexicalAddress(i, name) = AddressIn(r, name)
  BY <1>2, <1>7, AddressIs
<1>. QED BY <1>5, <1>6, <1>9, <1>10, <1>11 DEF Advances, name

\* A use that is an error is given none.
LEMMA MisuseAdvances ==
  ASSUME TextIsPlaced, ResolverInv, NEW i, i = resolver.at, i \in Nodes, program[i].kind \in Uses,
         NEW why \in Reasons, Visited(fail(Moved, i, why))
  PROVE  Advances
<1> DEFINE q == fail(Moved, i, why)
<1>1. ~IsOpener(program[i]) /\ ~IsEnd(program[i]) /\ ~IsDeclaration(i)
  BY DEF IsOpener, IsEnd, IsDeclaration, Openers, Uses
<1>2. i \in Nat /\ IsResolver(Moved) /\ Moved.at = i + 1 /\ Mirrors(Moved, AroundAfter(i - 1), i)
  BY <1>1, VisitStarts
<1>3. IsResolver(q) /\ q.at = i + 1 /\ q.scopes = Moved.scopes /\ q.errs # {}
  BY <1>2, FailsIs
<1>4. Visited(q)
  OBVIOUS
<1> HIDE DEF q
<1>5. Mirrors(q, AroundAfter(i - 1), i)
  BY <1>2, <1>3, MirrorsLike
<1>6. Mirrors(q, AroundAfter(i), i)
  BY <1>1, <1>5, LevelAdvances
<1>. QED BY <1>3, <1>4, <1>6, PlainAdvances

LEMMA VariableAdvances ==
  ASSUME TextIsPlaced, ResolverInv, VisitVariableExpr
  PROVE  Advances
<1> DEFINE i == resolver.at
<1>1. i \in Nodes /\ program[i].kind = "variable"
  BY DEF VisitVariableExpr, Visiting, Here
<1>2. program[i].kind \in Uses /\ program[i].name = NameUsed(i)
  BY <1>1 DEF Uses, NameUsed
<1>3. PICK r : (r = Moved \/ r = fail(Moved, i, "own initializer")) /\ resolveLocal(r, NameUsed(i), TRUE)
  <2>1. PICK r : (r = Moved \/ r = fail(Moved, i, "own initializer")) /\ resolveLocal(r, program[i].name, TRUE)
    BY DEF VisitVariableExpr, Here
  <2>. QED BY <1>2, <2>1
<1>4. i \in Nat /\ IsResolver(Moved) /\ Moved.at = i + 1 /\ Moved.scopes = resolver.scopes /\ Moved.errs = resolver.errs
  BY <1>1, VisitStarts
<1>5. IsResolver(r) /\ r.at = i + 1 /\ r.scopes = resolver.scopes /\ (r.errs = {} => resolver.errs = {})
  <2>1. "own initializer" \in Reasons
    BY DEF Reasons
  <2> HIDE DEF i
  <2>2. CASE r = fail(Moved, i, "own initializer")
    BY <1>4, <2>1, <2>2, FailsIs
  <2>. QED BY <1>3, <1>4, <2>2
<1>. QED BY <1>1, <1>2, <1>3, <1>5, UseAdvances

LEMMA AssignAdvances ==
  ASSUME TextIsPlaced, ResolverInv, VisitAssignExpr
  PROVE  Advances
<1> DEFINE i == resolver.at
<1>1. i \in Nodes /\ program[i].kind = "assign" /\ resolveLocal(Moved, program[i].name, FALSE)
  BY DEF VisitAssignExpr, Visiting, Here
<1>2. program[i].kind \in Uses /\ program[i].name = NameUsed(i)
  BY <1>1 DEF Uses, NameUsed
<1>3. IsResolver(Moved) /\ Moved.at = i + 1 /\ Moved.scopes = resolver.scopes /\ Moved.errs = resolver.errs
  BY <1>1, VisitStarts
<1>4. resolveLocal(Moved, NameUsed(i), FALSE)
  BY <1>1, <1>2
<1>. QED BY <1>1, <1>2, <1>3, <1>4, UseAdvances

LEMMA WordAdvances ==
  ASSUME TextIsPlaced, ResolverInv, VisitThisExpr \/ VisitSuperExpr
  PROVE  Advances
<1> DEFINE i == resolver.at
<1>1. i \in Nodes /\ program[i].kind \in {"this", "super"}
  BY DEF VisitThisExpr, VisitSuperExpr, Visiting, Here
<1>2. program[i].kind \in Uses /\ NameUsed(i) = program[i].kind
  BY <1>1 DEF Uses, NameUsed
<1>3. \/ \E why \in Reasons : Visited(fail(Moved, i, why))
      \/ resolveLocal(Moved, NameUsed(i), TRUE)
  <2>1. "this outside" \in Reasons /\ "super outside" \in Reasons /\ "no superclass" \in Reasons
    BY DEF Reasons
  <2>2. CASE VisitThisExpr
    <3>1. program[i].kind = "this"
      BY <2>2 DEF VisitThisExpr, Visiting, Here
    <3>2. Visited(fail(Moved, i, "this outside")) \/ resolveLocal(Moved, "this", TRUE)
      BY <2>2 DEF VisitThisExpr
    <3>. QED BY <1>2, <2>1, <3>1, <3>2
  <2>3. CASE VisitSuperExpr
    <3>1. program[i].kind = "super"
      BY <2>3 DEF VisitSuperExpr, Visiting, Here
    <3>2. \/ Visited(fail(Moved, i, "super outside")) \/ Visited(fail(Moved, i, "no superclass"))
          \/ resolveLocal(Moved, "super", TRUE)
      BY <2>3 DEF VisitSuperExpr
    <3>. QED BY <1>2, <2>1, <3>1, <3>2
  <2>. QED BY <2>2, <2>3
<1>4. IsResolver(Moved) /\ Moved.at = i + 1 /\ Moved.scopes = resolver.scopes /\ Moved.errs = resolver.errs
  BY <1>1, VisitStarts
<1>5. CASE \E why \in Reasons : Visited(fail(Moved, i, why))
  BY <1>1, <1>2, <1>5, MisuseAdvances
<1>6. CASE resolveLocal(Moved, NameUsed(i), TRUE)
  BY <1>1, <1>2, <1>4, <1>6, UseAdvances
<1>. QED BY <1>3, <1>5, <1>6

LEMMA StepAdvances ==
  ASSUME TextIsPlaced, ResolverInv, ResolverStep
  PROVE  Advances /\ resolver.at \in Nodes
<1>1. Advances
  <2>1. CASE VisitBlockStmt
    BY <2>1, BlockAdvances
  <2>2. CASE VisitVarStmt
    BY <2>2, VarAdvances
  <2>3. CASE VisitFunctionStmt
    BY <2>3, FunctionAdvances
  <2>4. CASE VisitClassStmt
    BY <2>4, ClassNameAdvances, BodyAdvances, MethodAdvances DEF VisitClassStmt
  <2>5. CASE EndVisit
    BY <2>5, EndAdvances
  <2>6. CASE VisitReturnStmt \/ VisitOther
    BY <2>6, OtherAdvances
  <2>7. CASE VisitVariableExpr
    BY <2>7, VariableAdvances
  <2>8. CASE VisitAssignExpr
    BY <2>8, AssignAdvances
  <2>9. CASE VisitThisExpr \/ VisitSuperExpr
    BY <2>9, WordAdvances
  <2>. QED BY <2>1, <2>2, <2>3, <2>4, <2>5, <2>6, <2>7, <2>8, <2>9 DEF ResolverStep
<1>2. resolver.at \in Nodes
  <2>1. \E kinds : Visiting(kinds)
    BY DEF ResolverStep, VisitBlockStmt, VisitVarStmt, VisitFunctionStmt, VisitClassStmt, ClassName, ClassBody,
           ClassMethod, EndVisit, VisitReturnStmt, VisitVariableExpr, VisitAssignExpr, VisitThisExpr, VisitSuperExpr,
           VisitOther
  <2>. QED BY <2>1 DEF Visiting
<1>. QED BY <1>1, <1>2

-----------------------------------------------------------------------------
(* What only the text decides stays while the text does *)

LEMMA AroundStays ==
  ASSUME UNCHANGED program, NEW n
  PROVE  AroundAfter(n)' = AroundAfter(n)
BY DEF AroundAfter, InnermostIn, OpenIn, ScopesOf, ScopesAround, IsSubclass

LEMMA NamedStays ==
  ASSUME UNCHANGED program, NEW i, NEW s, NEW name
  PROVE  NamedBefore(i, s, name)' = NamedBefore(i, s, name)
BY DeclarationsStay DEF NamedBefore

LEMMA AmongStays ==
  ASSUME UNCHANGED program, NEW a, NEW i, NEW name
  PROVE  AddressAmong(a, i, name)' = AddressAmong(a, i, name)
<1>1. \A n : NamedBefore(i, a[n], name)' = NamedBefore(i, a[n], name)
  BY NamedStays
<1>. QED BY <1>1 DEF AddressAmong

LEMMA AddressStays ==
  ASSUME UNCHANGED program, NEW i, NEW name
  PROVE  LexicalAddress(i, name)' = LexicalAddress(i, name)
<1>1. LexicalAddress(i, name) = AddressAmong(ScopesAround(i), i, name)
  BY DEF LexicalAddress, AddressAmong, NamedBefore
<1>2. LexicalAddress(i, name)' = AddressAmong(ScopesAround(i), i, name)'
  BY DEF LexicalAddress, AddressAmong, NamedBefore
<1>3. PICK a : a = ScopesAround(i)
  OBVIOUS
<1>4. a = ScopesAround(i)'
  BY <1>3, ScopesStay
<1>5. AddressAmong(ScopesAround(i), i, name)' = AddressAmong(a, i, name)'
  BY <1>4 DEF AddressAmong
<1>6. AddressAmong(a, i, name)' = AddressAmong(a, i, name)
  BY AmongStays
<1>. QED BY <1>1, <1>2, <1>3, <1>5, <1>6

LEMMA ListsStay ==
  ASSUME UNCHANGED program, NEW b, NEW s, NEW n, Lists(b, s, n)
  PROVE  Lists(b, s, n)'
BY DeclarationsStay DEF Lists, Agree

LEMMA MirrorsStay ==
  ASSUME UNCHANGED program, NEW r, NEW a, NEW n, Mirrors(r, a, n)
  PROVE  Mirrors(r, a, n)'
<1> SUFFICES ASSUME r.errs = {}, NEW k \in 1 .. Len(a)
             PROVE  Lists(r.scopes[Len(a) + 1 - k], a[k], n)'
  BY DEF Mirrors
<1>1. Lists(r.scopes[Len(a) + 1 - k], a[k], n)
  BY DEF Mirrors
<1>. QED BY <1>1, ListsStay

-----------------------------------------------------------------------------
(* The session *)

\* A line begins with nothing open, and ends so before it is run.
LineInv ==
  /\ TextIsPlaced
  /\ line \in Nat \ {0} /\ line <= Len(program) + 1 /\ InnermostIn(program, line - 1) = 0
  /\ DOMAIN locals \subseteq Nodes
  /\ phase = "writing" => DOMAIN locals \subseteq 1 .. line - 1
  /\ phase # "writing" => InnermostIn(program, Len(program)) = 0
ResolvingInv == phase = "resolving" => ResolverInv

LEMMA LineInvStarts ==
  ASSUME Init
  PROVE  LineInv /\ ResolvingInv
<1>1. program = <<>> /\ line = 1 /\ phase = "writing" /\ locals = <<>>
  BY DEF Init
<1>2. Len(program) = 0 /\ Nodes = {} /\ DOMAIN locals = {} /\ program \in Seq(NodeSet)
  BY <1>1 DEF Nodes
<1>3. TextIsPlaced
  BY <1>2 DEF TextIsPlaced, Placed
<1>4. InnermostIn(program, line - 1) = 0
  <2>1. line - 1 = 0
    BY <1>1
  <2>2. InnermostIn(program, 0) \in 0 .. 0
    BY InnermostIsIn
  <2>. QED BY <2>1, <2>2
<1>5. phase = "writing" /\ phase # "resolving"
  BY <1>1
<1>6. line \in Nat \ {0} /\ line <= Len(program) + 1
  BY <1>1, <1>2
<1>. QED BY <1>2, <1>3, <1>4, <1>5, <1>6 DEF LineInv, ResolvingInv

-----------------------------------------------------------------------------
(* What waits to be used *)

\* What waits depends on the text up to there.
LEMMA OperandsStay ==
  ASSUME NEW t, Placed(t), NEW u, Placed(u), Extends(t, u)
  PROVE  \A n \in 0 .. Len(t) : Operands(u, n) = Operands(t, n)
<1>1. t \in Seq(NodeSet) /\ u \in Seq(NodeSet) /\ Len(t) \in Nat /\ Len(u) \in Nat /\ Len(t) <= Len(u)
  BY DEF Placed, Extends
<1> DEFINE S == {n \in Nat : n <= Len(t) => Operands(u, n) = Operands(t, n)}
<1>2. 0 \in S
  <2>1. Operands(u, 0) = <<>> /\ Operands(t, 0) = <<>>
    BY <1>1, OperandsNext
  <2>. QED BY <2>1
<1>3. ASSUME NEW n \in Nat, n \in S
      PROVE  n + 1 \in S
  <2> SUFFICES ASSUME n + 1 <= Len(t)
               PROVE  Operands(u, n + 1) = Operands(t, n + 1)
    OBVIOUS
  <2>1. n + 1 \in 1 .. Len(t) /\ n + 1 \in 1 .. Len(u) /\ (n + 1) - 1 = n /\ n <= Len(t)
    BY <1>1
  <2>2. Operands(u, n) = Operands(t, n) /\ u[n + 1] = t[n + 1]
    BY <1>3, <2>1 DEF Extends
  <2>3. Operands(u, n + 1) = Waits(u, n + 1, Operands(u, n))
    BY <1>1, <2>1, OperandsNext
  <2>4. Operands(t, n + 1) = Waits(t, n + 1, Operands(t, n))
    BY <1>1, <2>1, OperandsNext
  <2>. QED BY <2>2, <2>3, <2>4 DEF Waits
<1> HIDE DEF S
<1>4. Nat \subseteq S
  BY <1>2, <1>3, SetInduction
<1>. QED BY <1>1, <1>4 DEF S

\* They are expressions among the nodes so far.
LEMMA OperandsAreThere ==
  ASSUME NEW t \in Seq(NodeSet)
  PROVE  \A n \in 0 .. Len(t) : \A k \in 1 .. Len(Operands(t, n)) :
           Operands(t, n)[k] \in 1 .. n /\ IsExpression(t[Operands(t, n)[k]])
<1> DEFINE Waiting(w, n) == \A k \in 1 .. Len(w) : w[k] \in 1 .. n /\ IsExpression(t[w[k]])
           S == {n \in Nat : n <= Len(t) => Waiting(Operands(t, n), n)}
<1>1. Len(t) \in Nat
  OBVIOUS
<1>2. 0 \in S
  <2>1. Operands(t, 0) = <<>>
    BY OperandsNext
  <2>. QED BY <2>1
<1>3. ASSUME NEW n \in Nat, n \in S
      PROVE  n + 1 \in S
  <2> SUFFICES ASSUME n + 1 <= Len(t)
               PROVE  Waiting(Operands(t, n + 1), n + 1)
    OBVIOUS
  <2>1. n + 1 \in 1 .. Len(t) /\ (n + 1) - 1 = n /\ n <= Len(t) /\ n \in 0 .. Len(t) /\ n + 1 \in 0 .. Len(t)
    BY <1>1
  <2>2. PICK w : w = Operands(t, n)
    OBVIOUS
  <2>3. w \in Seq(Nat) /\ Waiting(w, n)
    BY <1>3, <2>1, <2>2, OperandsNext
  <2>4. Operands(t, n + 1) = Waits(t, n + 1, w)
    BY <2>1, <2>2, OperandsNext
  <2>5. PICK node, v : node = t[n + 1] /\ v = Leaves(node, w)
    OBVIOUS
  <2>6. node \in NodeSet
    BY <2>1, <2>5
  <2>7. v \in Seq(Nat) /\ \A k \in 1 .. Len(v) : k \in 1 .. Len(w) /\ v[k] = w[k]
    BY <2>3, <2>5, <2>6, WaitsIs
  <2>8. Waiting(v, n + 1)
    <3> TAKE k \in 1 .. Len(v)
    <3>1. v[k] \in 1 .. n /\ IsExpression(t[v[k]])
      BY <2>3, <2>7
    <3>. QED BY <3>1
  <2>9. IsExpression(node) => Waiting(Append(v, n + 1), n + 1)
    <3> SUFFICES ASSUME IsExpression(node), NEW k \in 1 .. Len(v) + 1
                 PROVE  Append(v, n + 1)[k] \in 1 .. n + 1 /\ IsExpression(t[Append(v, n + 1)[k]])
      BY <2>7
    <3>1. CASE k \in 1 .. Len(v)
      <4>1. Append(v, n + 1)[k] = v[k]
        BY <2>7, <3>1
      <4>. QED BY <2>8, <3>1, <4>1
    <3>2. CASE k \notin 1 .. Len(v)
      <4>1. k = Len(v) + 1
        BY <2>7, <3>2
      <4>2. Append(v, n + 1)[k] = n + 1
        BY <2>7, <4>1
      <4>. QED BY <2>5, <4>2
    <3>. QED BY <3>1, <3>2
  <2>10. Waits(t, n + 1, w) = IF IsExpression(node) THEN Append(v, n + 1) ELSE v
    BY <2>5 DEF Waits
  <2>. QED BY <2>4, <2>8, <2>9, <2>10
<1> HIDE DEF S
<1>4. Nat \subseteq S
  BY <1>2, <1>3, SetInduction
<1> HIDE DEF Waiting
<1>5. \A n \in 0 .. Len(t) : Waiting(Operands(t, n), n)
  BY <1>1, <1>4 DEF S
<1>. QED BY <1>5 DEF Waiting

\* So are the operands a node has.
LEMMA HasOperandsStays ==
  ASSUME NEW t, Placed(t), NEW u, Placed(u), Extends(t, u), NEW i \in 1 .. Len(t), HasOperands(t, i)
  PROVE  HasOperands(u, i)
<1>1. t \in Seq(NodeSet) /\ Len(t) \in Nat /\ u[i] = t[i] /\ i - 1 \in 0 .. Len(t) /\ t[i] \in NodeSet
  BY DEF Placed, Extends
<1>2. PICK w : w = Operands(t, i - 1)
  OBVIOUS
<1>3. Operands(u, i - 1) = w
  BY <1>1, <1>2, OperandsStay
<1>4. w \in Seq(Nat)
  BY <1>1, <1>2, OperandsNext
<1>5. \A k \in 1 .. Len(w) : u[w[k]] = t[w[k]]
  <2> TAKE k \in 1 .. Len(w)
  <2>1. w[k] \in 1 .. i - 1
    BY <1>1, <1>2, OperandsAreThere
  <2>2. w[k] \in 1 .. Len(t)
    BY <1>1, <2>1
  <2>. QED BY <2>2 DEF Extends
<1>6. t[i].kind = "set" => Len(w) - 1 \in 1 .. Len(w)
  <2> SUFFICES ASSUME t[i].kind = "set"
               PROVE  Len(w) - 1 \in 1 .. Len(w)
    OBVIOUS
  <2>1. Pops(t[i]) = 2
    BY DEF Pops
  <2>2. Pops(t[i]) <= Len(w) \/ Pops(t[i]) = Len(w)
    BY <1>2 DEF HasOperands
  <2>3. PICK l \in Nat : l = Len(w)
    BY <1>4
  <2>4. l >= 2
    BY <2>1, <2>2, <2>3
  <2>5. l - 1 \in 1 .. l
    BY <2>4
  <2>. QED BY <2>3, <2>5
<1>. QED BY <1>1, <1>2, <1>3, <1>5, <1>6 DEF HasOperands

\* What the grammar allows at a node depends on the text up to it.
LEMMA GrammaticalStays ==
  ASSUME NEW t, Placed(t), NEW u, Placed(u), Extends(t, u), NEW i \in 1 .. Len(t), Grammatical(t, i)
  PROVE  Grammatical(u, i)
<1>1. Len(t) \in Nat
  BY DEF Placed
<1>2. u[i] = t[i]
  BY DEF Extends
<1>3. t[i].in \in 0 .. i - 1
  <2>1. i - 1 \in Nat
    BY <1>1
  <2>2. t[i].in = InnermostIn(t, i - 1)
    BY DEF Placed
  <2>. QED BY <2>1, <2>2, InnermostIsIn
<1>4. t[i].in # 0 => u[t[i].in] = t[t[i].in]
  <2>1. t[i].in # 0 => t[i].in \in 1 .. Len(t)
    BY <1>1, <1>3
  <2>. QED BY <2>1 DEF Extends
<1>5. \A j \in 1 .. i - 1 : u[j] = t[j]
  <2>1. \A j \in 1 .. i - 1 : j \in 1 .. Len(t)
    BY <1>1
  <2>. QED BY <2>1 DEF Extends
<1>6. Begun(u, i) = Begun(t, i)
  BY <1>5 DEF Begun
<1>7. \A j \in Begun(t, i) : Continues(u, j, i) <=> Continues(t, j, i)
  <2> TAKE j \in Begun(t, i)
  <2>1. u[j] = t[j]
    BY <1>5 DEF Begun
  <2>. QED BY <1>2, <2>1 DEF Continues
<1>8. HasOperands(t, i) => HasOperands(u, i)
  BY HasOperandsStays
<1>. QED BY <1>2, <1>4, <1>6, <1>7, <1>8 DEF Grammatical

LEMMA WriteKeeps ==
  ASSUME LineInv, NEW phrase \in Phrases, Write(phrase), PhrasesAssumption
  PROVE  LineInv' /\ ResolvingInv'
<1> DEFINE t == program
           u == Extended(t, phrase)
<1>1. /\ phase = "writing" /\ phase' = phase /\ line' = line /\ locals' = locals /\ program' = u
      /\ \A i \in Len(t) + 1 .. Len(program') : Grammatical(program', i)
  BY DEF Write
<1>2. Placed(t) /\ \A i \in Nodes : Grammatical(t, i)
  BY DEF LineInv, TextIsPlaced
<1>3. phrase \in Seq(NodeSet)
  BY DEF PhrasesAssumption
<1>4. Placed(u) /\ Extends(t, u)
  BY <1>2, <1>3, ExtendedIs
<1>5. Len(t) \in Nat /\ Len(u) \in Nat /\ Len(t) <= Len(u) /\ Nodes = 1 .. Len(t)
  BY <1>2, <1>4 DEF Placed, Extends, Nodes
<1> HIDE DEF u
<1>6. Nodes' = 1 .. Len(u)
  BY <1>1 DEF Nodes
<1>7. \A i \in 1 .. Len(u) : Grammatical(u, i)
  <2> TAKE i \in 1 .. Len(u)
  <2>1. CASE i \in 1 .. Len(t)
    BY <1>2, <1>4, <1>5, <2>1, GrammaticalStays
  <2>2. CASE i \in Len(t) + 1 .. Len(u)
    BY <1>1, <2>2
  <2>. QED BY <1>5, <2>1, <2>2
<1>8. TextIsPlaced'
  <2>1. Placed(program)'
    BY <1>1, <1>4 DEF Placed, InnermostIn, OpenIn
  <2>2. \A i : Grammatical(program, i)' <=> Grammatical(u, i)
    <3>1. \A i : Begun(program, i)' = Begun(u, i)
      BY <1>1 DEF Begun
    <3>2. \A i, j : Continues(program, j, i)' <=> Continues(u, j, i)
      BY <1>1 DEF Continues, Expressions
    <3>3. \A i : HasOperands(program, i)' <=> HasOperands(u, i)
      <4>1. \A i : Operands(program, i)' = Operands(u, i)
        BY <1>1
      <4>. QED BY <1>1, <4>1 DEF HasOperands, Pops, Expressions
    <3>. QED BY <1>1, <3>1, <3>2, <3>3 DEF Grammatical, Functions
  <2>. QED BY <1>6, <1>7, <2>1, <2>2 DEF TextIsPlaced
<1>9. line \in Nat \ {0} /\ line <= Len(t) + 1 /\ InnermostIn(t, line - 1) = 0 /\ DOMAIN locals \subseteq Nodes
      /\ DOMAIN locals \subseteq 1 .. line - 1
  BY <1>1 DEF LineInv
<1>10. InnermostIn(u, line - 1) = 0
  <2>1. line - 1 \in 0 .. Len(t)
    BY <1>5, <1>9
  <2>. QED BY <1>4, <1>5, <1>9, <2>1, SameOpen
<1>11. InnermostIn(program, line - 1)' = 0
  BY <1>1, <1>10 DEF InnermostIn, OpenIn
<1>12. (DOMAIN locals)' \subseteq Nodes' /\ (DOMAIN locals)' \subseteq 1 .. line' - 1
  BY <1>1, <1>5, <1>6, <1>9
<1>13. line' \in Nat \ {0} /\ line' <= Len(program') + 1
  BY <1>1, <1>5, <1>9
<1>14. phase' = "writing" /\ phase' # "resolving"
  BY <1>1
<1>. QED BY <1>8, <1>11, <1>12, <1>13, <1>14 DEF LineInv, ResolvingInv

LEMMA TextStays ==
  ASSUME UNCHANGED program, TextIsPlaced
  PROVE  TextIsPlaced'
<1>1. Placed(program)' /\ Nodes' = Nodes
  BY DEF TextIsPlaced, Placed, InnermostIn, OpenIn, Nodes
<1>2. \A i : Grammatical(program, i)' <=> Grammatical(program, i)
  OBVIOUS
<1>. QED BY <1>1, <1>2 DEF TextIsPlaced

\* A line is not run until everything it opened is closed.
LEMMA EnterKeeps ==
  ASSUME LineInv, EnterExpression \/ EnterProgram
  PROVE  LineInv' /\ ResolvingInv'
<1> DEFINE l == Len(program)
<1>1. /\ phase = "writing" /\ UNCHANGED <<program, locals, line>> /\ l >= line /\ phase' \in {"resolving", "executing"}
  BY DEF EnterExpression, EnterProgram
<1>2. /\ TextIsPlaced /\ line \in Nat \ {0} /\ InnermostIn(program, line - 1) = 0
      /\ DOMAIN locals \subseteq 1 .. line - 1 /\ DOMAIN locals \subseteq Nodes
  BY <1>1 DEF LineInv
<1>3. l \in Nat /\ Placed(program) /\ l \in Nodes /\ l - 1 \in Nat /\ l - 1 < l /\ (l - 1) + 1 = l
  <2>1. Placed(program) /\ l \in Nat
    BY <1>2 DEF TextIsPlaced, Placed
  <2>. QED BY <1>1, <1>2, <2>1 DEF Nodes
<1>4. InnermostIn(program, l) = 0
  <2>1. CASE EnterProgram
    <3>1. Unclosed(program) = 0
      BY <2>1 DEF EnterProgram
    <3>2. program \in Seq(NodeSet)
      BY <1>3 DEF Placed
    <3>. QED BY <3>1, <3>2, UnclosedIs
  <2>2. CASE EnterExpression
    <3>1. program[l].kind = "bare"
      <4>1. Last(program) = program[l]
        BY <1>3 DEF Last
      <4>. QED BY <2>2, <4>1 DEF EnterExpression
    <3>2. program[l].in = 0
      <4>1. Grammatical(program, l)
        BY <1>2, <1>3 DEF TextIsPlaced
      <4>. QED BY <3>1, <4>1 DEF Grammatical
    <3>3. ~IsOpener(program[l]) /\ ~IsEnd(program[l])
      BY <3>1 DEF IsOpener, IsEnd, Openers
    <3>4. program[l].in = InnermostIn(program, l - 1)
      BY <1>3 DEF Placed, Nodes
    <3> DEFINE n == l - 1
    <3>5. n \in Nat /\ n < Len(program) /\ n + 1 = l
      BY <1>3
    <3> HIDE DEF n
    <3>6. ~IsOpener(program[n + 1]) /\ ~IsEnd(program[n + 1]) => InnermostIn(program, n + 1) = InnermostIn(program, n)
      BY <1>3, <3>5, InnermostNext
    <3>7. InnermostIn(program, l) = InnermostIn(program, n)
      BY <3>3, <3>5, <3>6
    <3>. QED BY <3>2, <3>4, <3>7 DEF n
  <2>. QED BY <2>1, <2>2
<1>5. TextIsPlaced'
  BY <1>1, <1>2, TextStays
<1>6. InnermostIn(program, line - 1)' = 0 /\ InnermostIn(program, Len(program))' = 0 /\ Nodes' = Nodes
  BY <1>1, <1>2, <1>4 DEF InnermostIn, OpenIn, Nodes
<1>7. LineInv'
  <2>1. line' \in Nat \ {0} /\ line' <= Len(program') + 1 /\ (DOMAIN locals)' \subseteq Nodes'
    BY <1>1, <1>2, <1>3, <1>6
  <2>2. phase' # "writing"
    BY <1>1
  <2>. QED BY <1>5, <1>6, <2>1, <2>2 DEF LineInv
<1>8. ASSUME phase' = "resolving"
      PROVE  ResolverInv'
  <2>1. resolver' = Resolve(line)
    BY <1>8 DEF EnterExpression, EnterProgram
  <2> DEFINE r == Resolve(line)
  <2>2. r.scopes = <<>> /\ r.errs = {} /\ r.at = line
    BY DEF Resolve
  <2>3. IsResolver(r)
    <3>1. <<>> \in ScopesSet
      BY DEF ScopesSet
    <3>. QED BY <3>1 DEF Resolve, IsResolver, Like
  <2> HIDE DEF r
  <2>4. IsResolver(resolver)'
    BY <2>1, <2>3 DEF r, IsResolver, Like, ScopesSet, BindingSet, NameSet, ErrorSet
  <2>5. resolver'.at = line' /\ (resolver.at \in line .. Len(program) + 1)'
    BY <1>1, <1>2, <1>3, <2>1, <2>2 DEF r
  <2>6. AroundAfter(resolver.at - 1)' = <<>>
    BY <1>6, <2>5 DEF AroundAfter
  <2>7. Mirrors(resolver, AroundAfter(resolver.at - 1), resolver.at - 1)'
    <3>1. resolver'.scopes = <<>>
      BY <2>1, <2>2 DEF r
    <3>. QED BY <2>6, <3>1 DEF Mirrors
  <2>8. (DOMAIN locals)' \subseteq 1 .. resolver'.at - 1
    BY <1>1, <1>2, <2>5
  <2>9. (line .. resolver.at - 1)' = {}
    BY <1>1, <1>2, <2>5
  <2>. QED BY <2>4, <2>5, <2>7, <2>8, <2>9 DEF ResolverInv
<1>. QED BY <1>7, <1>8 DEF ResolvingInv

\* A visit keeps what is known of the nodes before it, and adds its own.
LEMMA ResolvingKeeps ==
  ASSUME LineInv, ResolvingInv, Resolving
  PROVE  LineInv' /\ ResolvingInv'
<1> DEFINE i == resolver.at
<1>1. phase = "resolving" /\ ResolverStep /\ UNCHANGED <<program, phase, line>>
  BY DEF Resolving
<1>2. ResolverInv /\ TextIsPlaced
  BY <1>1 DEF ResolvingInv, LineInv
<1>3. Advances /\ i \in Nodes
  BY <1>1, <1>2, StepAdvances
<1>4. /\ line \in Nat \ {0} /\ line <= Len(program) + 1 /\ InnermostIn(program, line - 1) = 0
      /\ DOMAIN locals \subseteq Nodes /\ InnermostIn(program, Len(program)) = 0
  BY <1>1 DEF LineInv
<1>5. /\ IsResolver(resolver') /\ resolver'.at = i + 1 /\ Mirrors(resolver', AroundAfter(i), i)
      /\ resolver'.errs = {} => resolver.errs = {}
      /\ OnlyGives(locals, locals', i)
      /\ resolver'.errs = {} /\ program[i].kind \in Uses => LexicalAddress(i, NameUsed(i)) = AddressGiven(locals', i)
  BY <1>3 DEF Advances
<1>6. /\ i \in line .. Len(program) + 1 /\ DOMAIN locals \subseteq 1 .. i - 1
      /\ resolver.errs = {} =>
           \A j \in line .. i - 1 : program[j].kind \in Uses => LexicalAddress(j, NameUsed(j)) = AddressGiven(locals, j)
  BY <1>2 DEF ResolverInv
<1>7. Len(program) \in Nat /\ Nodes = 1 .. Len(program) /\ Nodes' = Nodes
  BY <1>1, <1>2 DEF TextIsPlaced, Placed, Nodes
<1>8. PICK n, r, m, from : n = i /\ r = resolver' /\ m = locals' /\ from = line
  OBVIOUS
<1>9. n \in Nat /\ n \in Nodes /\ n + 1 - 1 = n /\ n + 1 \in from .. Len(program) + 1 /\ from = line /\ from = line'
  BY <1>1, <1>3, <1>4, <1>6, <1>7, <1>8
<1>10. DOMAIN m \subseteq 1 .. n /\ DOMAIN m \subseteq Nodes
  <2>1. \A j : j # n => (j \in DOMAIN m => j \in DOMAIN locals)
    BY <1>5, <1>8 DEF OnlyGives
  <2>2. \A j \in DOMAIN locals : j \in 1 .. n - 1
    BY <1>6, <1>8
  <2>3. \A j \in DOMAIN m : j \in 1 .. n
    BY <1>9, <2>1, <2>2
  <2>. QED BY <1>7, <1>9, <2>3
<1>11. LineInv'
  <2>1. TextIsPlaced'
    BY <1>1, <1>2, TextStays
  <2>2. InnermostIn(program, line - 1)' = 0 /\ InnermostIn(program, Len(program))' = 0
    BY <1>1, <1>4 DEF InnermostIn, OpenIn
  <2>3. line' \in Nat \ {0} /\ line' <= Len(program') + 1 /\ (DOMAIN locals)' \subseteq Nodes' /\ phase' # "writing"
    BY <1>1, <1>4, <1>7, <1>8, <1>10
  <2>. QED BY <2>1, <2>2, <2>3 DEF LineInv
<1>12. ResolverInv'
  <2>1. IsResolver(resolver)'
    BY <1>5 DEF IsResolver, Like, ScopesSet, BindingSet, NameSet, ErrorSet, Reasons
  <2>2. resolver'.at = n + 1 /\ (resolver.at \in line .. Len(program) + 1)'
    BY <1>1, <1>5, <1>8, <1>9
  <2>3. Mirrors(resolver, AroundAfter(resolver.at - 1), resolver.at - 1)'
    <3>1. PICK a : a = AroundAfter(n)
      OBVIOUS
    <3>2. AroundAfter(n)' = a
      BY <1>1, <3>1, AroundStays
    <3>3. AroundAfter(resolver.at - 1)' = a /\ resolver'.at - 1 = n
      BY <1>9, <2>2, <3>2
    <3>4. Mirrors(r, a, n)
      BY <1>5, <1>8, <3>1
    <3>5. Mirrors(r, a, n)'
      BY <1>1, <3>4, MirrorsStay
    <3>. QED BY <1>8, <3>3, <3>5
  <2>4. (DOMAIN locals)' \subseteq 1 .. resolver'.at - 1
    BY <1>8, <1>9, <1>10, <2>2
  <2>5. ASSUME resolver'.errs = {}, NEW j \in from .. n, program[j].kind \in Uses
        PROVE  LexicalAddress(j, NameUsed(j))' = AddressGiven(m, j)
    <3>1. LexicalAddress(j, NameUsed(j)) = AddressGiven(m, j)
      <4>1. CASE j = n
        BY <1>5, <1>8, <2>5, <4>1
      <4>2. CASE j # n
        <5>1. j \in line .. i - 1
          BY <1>8, <1>9, <4>2
        <5>2. LexicalAddress(j, NameUsed(j)) = AddressGiven(locals, j)
          BY <1>5, <1>6, <2>5, <5>1
        <5>3. AddressGiven(m, j) = AddressGiven(locals, j)
          BY <1>5, <1>8, <4>2 DEF OnlyGives, AddressGiven
        <5>. QED BY <5>2, <5>3
      <4>. QED BY <4>1, <4>2
    <3>2. PICK name : name = NameUsed(j)
      OBVIOUS
    <3>3. NameUsed(j)' = name
      BY <1>1, <3>2 DEF NameUsed
    <3>4. LexicalAddress(j, name)' = LexicalAddress(j, name)
      BY <1>1, AddressStays
    <3>5. LexicalAddress(j, NameUsed(j))' = LexicalAddress(j, name)'
      BY <3>3 DEF LexicalAddress
    <3>. QED BY <3>1, <3>2, <3>4, <3>5
  <2>6. (resolver.errs = {} =>
          \A j \in line .. resolver.at - 1 :
            program[j].kind \in Uses => LexicalAddress(j, NameUsed(j)) = AddressGiven(locals, j))'
    <3>1. (line .. resolver.at - 1)' = from .. n
      BY <1>9, <2>2
    <3>2. \A j : AddressGiven(locals, j)' = AddressGiven(m, j)
      BY <1>8 DEF AddressGiven
    <3>. QED BY <1>1, <2>5, <3>1, <3>2
  <2>. QED BY <2>1, <2>2, <2>3, <2>4, <2>6 DEF ResolverInv
<1>. QED BY <1>11, <1>12 DEF ResolvingInv

LEMMA RunKeeps ==
  ASSUME LineInv, ResolvingInv, Accept \/ Execution \/ Printing
  PROVE  LineInv' /\ ResolvingInv'
<1>1. phase # "writing" /\ phase' = "executing" /\ UNCHANGED <<program, line>>
  BY DEF Accept, Execution, Printing, ResolvingDone
<1>2. locals' = locals
  <2>1. InterpreterStep => \E i : Executed(i)
    <3>1. Literal \/ Expression \/ Variable \/ This \/ Assign \/ Var \/ Function => \E i : Executed(i)
      BY DEF Literal, Expression, Variable, This, Assign, Var, Function
    <3>2. Class \/ Block \/ Skip \/ End \/ Return => \E i : Executed(i)
      BY DEF Class, Block, Skip, End, Return
    <3>3. CallExpr \/ Get \/ Set \/ Super => \E i : Executed(i)
      BY DEF CallExpr, Get, Set, Super
    <3>. QED BY <3>1, <3>2, <3>3 DEF InterpreterStep
  <2>2. Bare => \E i : Executed(i)
    BY DEF Bare
  <2>3. (\E i : Executed(i)) => locals' = locals
    BY DEF Executed
  <2>. QED BY <2>1, <2>2, <2>3 DEF Accept, Execution, Printing
<1>3. TextIsPlaced'
  BY <1>1, TextStays DEF LineInv
<1>. QED BY <1>1, <1>2, <1>3 DEF LineInv, ResolvingInv, InnermostIn, OpenIn, Nodes

LEMMA NextLineKeeps ==
  ASSUME LineInv, Refuse \/ ExecutionDone
  PROVE  LineInv' /\ ResolvingInv'
<1> DEFINE l == Len(program)
<1>1. phase # "writing" /\ phase' = "writing" /\ line' = l + 1 /\ UNCHANGED <<program, locals>>
  BY DEF Refuse, ExecutionDone, NextLine, ResolvingDone
<1>2. TextIsPlaced /\ InnermostIn(program, l) = 0 /\ DOMAIN locals \subseteq Nodes
  BY <1>1 DEF LineInv
<1>3. l \in Nat /\ Nodes = 1 .. l /\ l + 1 - 1 = l
  BY <1>2 DEF TextIsPlaced, Placed, Nodes
<1>4. TextIsPlaced'
  BY <1>1, <1>2, TextStays
<1>5. InnermostIn(program, line - 1)' = 0
  BY <1>1, <1>2, <1>3 DEF InnermostIn, OpenIn
<1>6. line' \in Nat \ {0} /\ line' <= Len(program') + 1 /\ (DOMAIN locals)' \subseteq 1 .. line' - 1 /\ (DOMAIN locals)' \subseteq Nodes'
  BY <1>1, <1>2, <1>3 DEF Nodes
<1>. QED BY <1>1, <1>4, <1>5, <1>6 DEF LineInv, ResolvingInv

LEMMA LineInvHolds == Spec => [](LineInv /\ ResolvingInv)
<1>1. Init => LineInv /\ ResolvingInv
  BY LineInvStarts
<1>2. LineInv /\ ResolvingInv /\ [Next]_vars => LineInv' /\ ResolvingInv'
  <2> SUFFICES ASSUME LineInv, ResolvingInv, [Next]_vars
               PROVE  LineInv' /\ ResolvingInv'
    OBVIOUS
  <2>1. CASE \E phrase \in Phrases : Write(phrase)
    BY <2>1, WriteKeeps, PhrasesAssumption
  <2>2. CASE EnterExpression \/ EnterProgram
    BY <2>2, EnterKeeps
  <2>3. CASE Resolving
    BY <2>3, ResolvingKeeps
  <2>4. CASE Accept \/ Execution \/ Printing
    BY <2>4, RunKeeps
  <2>5. CASE Refuse \/ ExecutionDone
    BY <2>5, NextLineKeeps
  <2>6. CASE Over \/ UNCHANGED vars
    <3>1. UNCHANGED vars
      BY <2>6 DEF Over
    <3>2. TextIsPlaced'
      BY <3>1, TextStays DEF LineInv, vars
    <3>3. LineInv'
      BY <3>1, <3>2 DEF LineInv, vars, InnermostIn, OpenIn, Nodes
    <3>4. ASSUME ResolverInv
          PROVE  ResolverInv'
      <4>1. UNCHANGED <<program, resolver, locals, line>>
        BY <3>1 DEF vars
      <4>2. PICK r, n, a : r = resolver /\ n = resolver.at - 1 /\ a = AroundAfter(n)
        OBVIOUS
      <4>3. AroundAfter(n)' = a /\ resolver'.at - 1 = n
        BY <4>1, <4>2, AroundStays
      <4>4. Mirrors(r, a, n)'
        <5>1. Mirrors(r, a, n)
          BY <3>4, <4>2 DEF ResolverInv
        <5>. QED BY <4>1, <5>1, MirrorsStay
      <4>5. Mirrors(resolver, AroundAfter(resolver.at - 1), resolver.at - 1)'
        <5>1. AroundAfter(resolver.at - 1)' = a
          BY <4>3
        <5>. QED BY <4>1, <4>2, <4>3, <4>4, <5>1
      <4>6. \A j : LexicalAddress(j, NameUsed(j))' = LexicalAddress(j, NameUsed(j))
        <5> TAKE j
        <5>1. PICK name : name = NameUsed(j)
          OBVIOUS
        <5>2. NameUsed(j)' = name
          BY <4>1, <5>1 DEF NameUsed
        <5>3. LexicalAddress(j, name)' = LexicalAddress(j, name)
          BY <4>1, AddressStays
        <5>4. LexicalAddress(j, NameUsed(j))' = LexicalAddress(j, name)'
          BY <5>2 DEF LexicalAddress
        <5>. QED BY <5>1, <5>3, <5>4
      <4>7. IsResolver(resolver)'
        BY <3>4, <4>1 DEF ResolverInv, IsResolver, Like, ScopesSet, BindingSet, NameSet, ErrorSet, Reasons
      <4>. QED BY <3>4, <4>1, <4>5, <4>6, <4>7 DEF ResolverInv, AddressGiven
    <3>. QED BY <3>1, <3>3, <3>4 DEF ResolvingInv, vars
  <2>. QED BY <2>1, <2>2, <2>3, <2>4, <2>5, <2>6 DEF Next
<1>. QED BY <1>1, <1>2, PTL DEF Spec

\* In a line without errors every use of a local is given the scope and slot
\* its declaration has by the text, and no other use is given any, whatever the
\* session (resolver.go:219-231, 346-351).
THEOREM ResolvesLexicallyAlways == Spec => []ResolvesLexically
<1>1. LineInv /\ ResolvingInv => ResolvesLexically
  <2> SUFFICES ASSUME LineInv, ResolvingInv, ResolvingDone, resolver.errs = {},
                      NEW i \in line .. Len(program), program[i].kind \in Uses
               PROVE  LexicalAddress(i, NameUsed(i)) = AddressGiven(locals, i)
    BY DEF ResolvesLexically, AddressGiven
  <2>1. ResolverInv /\ resolver.at > Len(program)
    BY DEF ResolvingInv, ResolvingDone
  <2>2. /\ resolver.at \in line .. Len(program) + 1 /\ line \in Nat /\ Len(program) \in Nat
        /\ \A j \in line .. resolver.at - 1 :
             program[j].kind \in Uses => LexicalAddress(j, NameUsed(j)) = AddressGiven(locals, j)
    BY <2>1 DEF ResolverInv, LineInv, TextIsPlaced, Placed
  <2>3. i \in line .. resolver.at - 1
    BY <2>1, <2>2
  <2>. QED BY <2>2, <2>3
<1>. QED BY <1>1, LineInvHolds, PTL

-----------------------------------------------------------------------------
(* The errors of a node *)

\* A set is smaller than a sequence of its elements if one of them repeats another.
LEMMA RepeatsIs ==
  ASSUME Placed(program), NEW i \in Nodes
  PROVE  /\ FirstParams(i, Params(i)) = ToSet(program[i].params)
         /\ Repeats(i, Params(i)) <=> Cardinality(ToSet(program[i].params)) # Len(program[i].params)
<1> DEFINE p == Params(i)
           F(k) == FirstParams(i, k)
           Counted(k) == /\ IsFiniteSet(F(k)) /\ Cardinality(F(k)) \in Nat /\ Cardinality(F(k)) <= k
                         /\ Repeats(i, k) <=> Cardinality(F(k)) # k
           S == {k \in Nat : Counted(k)}
<1>1. p \in Nat /\ p = Len(program[i].params) /\ DOMAIN program[i].params = 1 .. p
  <2>1. program[i] \in NodeSet
    BY DEF Placed, Nodes
  <2>2. program[i].params \in Seq(STRING)
    BY <2>1 DEF NodeSet
  <2>. QED BY <2>2 DEF Params
<1>2. F(p) = ToSet(program[i].params)
  BY <1>1 DEF FirstParams, Param, ToSet
<1> HIDE DEF F, p
<1>3. 0 \in S
  <2>1. F(0) = {} /\ ~Repeats(i, 0)
    BY NextParam DEF F
  <2>2. IsFiniteSet({}) /\ Cardinality({}) = 0
    BY FS_EmptySet
  <2>. QED BY <2>1, <2>2
<1>4. ASSUME NEW k \in Nat, k \in S
      PROVE  k + 1 \in S
  <2>1. F(k + 1) = F(k) \cup {Param(i, k + 1)} /\ (Repeats(i, k + 1) <=> Repeats(i, k) \/ Param(i, k + 1) \in F(k))
    BY NextParam DEF F
  <2>2. /\ IsFiniteSet(F(k + 1))
        /\ Cardinality(F(k + 1)) = IF Param(i, k + 1) \in F(k) THEN Cardinality(F(k)) ELSE Cardinality(F(k)) + 1
    BY <1>4, <2>1, FS_AddElement
  <2>3. Cardinality(F(k)) \in Nat /\ Cardinality(F(k)) <= k /\ (Repeats(i, k) <=> Cardinality(F(k)) # k)
    BY <1>4
  <2>. QED BY <2>1, <2>2, <2>3
<1> HIDE DEF S
<1>5. p \in S
  BY <1>1, <1>3, <1>4, SetInduction
<1>6. Repeats(i, p) <=> Cardinality(F(p)) # p
  BY <1>5 DEF S
<1>. QED BY <1>1, <1>2, <1>6 DEF F, p

\* The errors, one set for each reason.
ContextErrors(i) ==
  Only(program[i].kind = "return" /\ InnermostOf(i, Functions) = 0, "top-level return")
    \cup Only(program[i].kind = "return" /\ program[i].n = 1 /\ IsInitializer(InnermostOf(i, Functions)), "value from init")
    \cup Only(program[i].kind = "this" /\ InnermostOf(i, {"body"}) = 0, "this outside")
    \cup Only(program[i].kind = "super" /\ InnermostOf(i, {"body"}) = 0, "super outside")
    \cup Only(program[i].kind = "super" /\ InnermostOf(i, {"body"}) # 0 /\ ~IsSubclass(InnermostOf(i, {"body"})),
              "no superclass")
DeclarationErrors(i) ==
  Only(DeclaredTwice(i), "declared twice") \cup Only(OwnInitializer(i), "own initializer")
    \cup Only(program[i].kind = "class" /\ program[i].super = program[i].name, "inherits itself")
    \cup Only(IsInitializer(i) /\ program[i].getter, "init is a getter")

LEMMA ErrorsAre ==
  ASSUME NEW i
  PROVE  Errors(i) = DeclarationErrors(i) \cup ContextErrors(i)
<1>1. \A why : why \in Errors(i) <=> why \in DeclarationErrors(i) \cup ContextErrors(i)
  <2> TAKE why
  <2> DEFINE c1 == DeclaredTwice(i)
             c2 == OwnInitializer(i)
             c3 == program[i].kind = "class" /\ program[i].super = program[i].name
             c4 == IsInitializer(i) /\ program[i].getter
             c5 == program[i].kind = "return" /\ InnermostOf(i, Functions) = 0
             c6 == program[i].kind = "return" /\ program[i].n = 1 /\ IsInitializer(InnermostOf(i, Functions))
             c7 == program[i].kind = "this" /\ InnermostOf(i, {"body"}) = 0
             c8 == program[i].kind = "super" /\ InnermostOf(i, {"body"}) = 0
             c9 == program[i].kind = "super" /\ InnermostOf(i, {"body"}) # 0 /\ ~IsSubclass(InnermostOf(i, {"body"}))
  <2>1. Errors(i) = {w \in {"declared twice", "own initializer", "inherits itself", "init is a getter", "top-level return",
                            "value from init", "this outside", "super outside", "no superclass"} :
        CASE w = "declared twice"   -> c1
          [] w = "own initializer"  -> c2
          [] w = "inherits itself"  -> c3
          [] w = "init is a getter" -> c4
          [] w = "top-level return" -> c5
          [] w = "value from init"  -> c6
          [] w = "this outside"     -> c7
          [] w = "super outside"    -> c8
          [] w = "no superclass"    -> c9}
    BY DEF Errors
  <2>2. DeclarationErrors(i) = Only(c1, "declared twice") \cup Only(c2, "own initializer")
                                 \cup Only(c3, "inherits itself") \cup Only(c4, "init is a getter")
    BY DEF DeclarationErrors
  <2>3. ContextErrors(i) = Only(c5, "top-level return") \cup Only(c6, "value from init") \cup Only(c7, "this outside")
                             \cup Only(c8, "super outside") \cup Only(c9, "no superclass")
    BY DEF ContextErrors
  <2> HIDE DEF c1, c2, c3, c4, c5, c6, c7, c8, c9
  <2>. QED BY <2>1, <2>2, <2>3 DEF Only
<1>. QED BY <1>1

\* The name of a declaration is that of an earlier one in its scope.
NameTaken(i) ==
  /\ IsDeclaration(i) /\ program[i].in # 0
  /\ DeclaredBefore(i, program[i].name) \/ program[i].name \in ToSet(program[program[i].in].params)

LEMMA DeclaredTwiceIs ==
  ASSUME Placed(program), NEW i \in Nodes, Grammatical(program, i)
  PROVE  /\ DeclaredTwice(i) <=> NameTaken(i) \/ Repeats(i, Params(i))
         /\ program[i].kind \notin Functions => ~Repeats(i, Params(i))
<1>1. Repeats(i, Params(i)) <=> Cardinality(ToSet(program[i].params)) # Len(program[i].params)
  BY RepeatsIs
<1>2. program[i].kind \notin Functions => Params(i) = 0
  BY DEF Grammatical, Params
<1>3. program[i].kind \notin Functions => ~Repeats(i, Params(i))
  BY <1>2, NextParam
<1>. QED BY <1>1, <1>3 DEF DeclaredTwice, NameTaken, IsDeclaration

LEMMA ErrorsOfKind ==
  ASSUME Placed(program), NEW i \in Nodes, Grammatical(program, i)
  PROVE  /\ program[i].kind \in {"var", "fun", "class", "method"} \/ ~DeclaredTwice(i)
         /\ program[i].kind \in {"var", "fun"} => Errors(i) = Only(DeclaredTwice(i), "declared twice")
         /\ program[i].kind = "class" =>
              Errors(i) = Only(DeclaredTwice(i), "declared twice")
                            \cup Only(program[i].super = program[i].name, "inherits itself")
         /\ program[i].kind = "method" =>
              Errors(i) = Only(DeclaredTwice(i), "declared twice")
                            \cup Only(IsInitializer(i) /\ program[i].getter, "init is a getter")
         /\ program[i].kind = "variable" => Errors(i) = Only(OwnInitializer(i), "own initializer")
         /\ program[i].kind \in {"return", "this", "super"} => Errors(i) = ContextErrors(i)
         /\ program[i].kind \notin {"var", "fun", "class", "method", "variable", "return", "this", "super"} =>
              Errors(i) = {}
<1> DEFINE kind == program[i].kind
           d == Only(DeclaredTwice(i), "declared twice")
           own == Only(OwnInitializer(i), "own initializer")
           self == Only(program[i].kind = "class" /\ program[i].super = program[i].name, "inherits itself")
           getter == Only(IsInitializer(i) /\ program[i].getter, "init is a getter")
<1>1. Errors(i) = d \cup own \cup self \cup getter \cup ContextErrors(i)
  BY ErrorsAre DEF DeclarationErrors
<1>2. kind \in {"var", "fun", "class", "method"} \/ ~DeclaredTwice(i)
  BY DeclaredTwiceIs DEF NameTaken, IsDeclaration, Functions
<1>3. kind \in {"var", "fun", "class", "method"} \/ d = {}
  BY <1>2 DEF Only
<1>4. kind = "variable" \/ own = {}
  BY DEF OwnInitializer, Only
<1>5. self = IF kind = "class" THEN Only(program[i].super = program[i].name, "inherits itself") ELSE {}
  BY DEF Only
<1>6. kind = "method" \/ getter = {}
  BY DEF IsInitializer, Only
<1>7. kind \in {"return", "this", "super"} \/ ContextErrors(i) = {}
  BY DEF ContextErrors, Only
<1> HIDE DEF kind, d, own, self, getter
<1>. QED BY <1>1, <1>2, <1>3, <1>4, <1>5, <1>6, <1>7 DEF kind, d, own, getter

-----------------------------------------------------------------------------
(* What a node does to the declarations begun *)

LEMMA BegunBy ==
  ASSUME TextIsPlaced, NEW i \in Nodes
  PROVE  /\ program[i].kind = "var" => BegunOf(i - 1, "class") = {} /\ BegunOf(i - 1, "var") = {} /\ BegunOf(i, "class") = {}
                                       /\ BegunOf(i, "var") = {i}
         /\ program[i].kind = "class" => BegunOf(i - 1, "class") = {} /\ BegunOf(i - 1, "var") = {} /\ BegunOf(i, "var") = {}
                                         /\ BegunOf(i, "class") = {i}
         /\ program[i].kind = "define" =>
              /\ BegunOf(i - 1, "class") = {} /\ BegunOf(i, "class") = {} /\ BegunOf(i, "var") = {}
              /\ \E v \in Nodes : /\ BegunOf(i - 1, "var") = {v} /\ program[v].in = program[i].in
                                  /\ program[v].name = program[i].name
         /\ program[i].kind = "body" =>
              /\ BegunOf(i - 1, "var") = {} /\ BegunOf(i, "class") = {} /\ BegunOf(i, "var") = {}
              /\ \E c \in Nodes : /\ BegunOf(i - 1, "class") = {c} /\ program[c].in = program[i].in
                                  /\ program[c].super = program[i].super /\ program[c].name = program[i].name
         /\ program[i].kind # "body" /\ (IsOpener(program[i]) \/ IsEnd(program[i])) =>
              /\ BegunOf(i - 1, "class") = {} /\ BegunOf(i - 1, "var") = {} /\ BegunOf(i, "class") = {}
              /\ BegunOf(i, "var") = {}
         /\ program[i].kind \notin {"var", "class", "define", "body"} =>
              BegunOf(i, "var") = BegunOf(i - 1, "var") /\ BegunOf(i, "class") = BegunOf(i - 1, "class")
         /\ program[i].kind \notin Expressions \cup {"define", "body"} => Begun(program, i) = {}
<1> DEFINE t == program
           kind == program[i].kind
           B == Begun(t, i)
           C == Begun(t, i + 1)
<1>1. i \in Nat /\ i >= 1 /\ (i - 1) + 1 = i /\ Placed(t) /\ Grammatical(t, i) /\ i - 1 \in Nat /\ i - 1 <= Len(t)
      /\ Nodes = 1 .. Len(t)
  BY DEF TextIsPlaced, Placed, Nodes
<1>2. /\ kind \in {"define", "body"} => C = {}
      /\ kind \in {"var", "class"} => C = B \cup {i}
      /\ kind \notin {"define", "body", "var", "class"} => C = B
  BY <1>1, BegunNext
<1>3. \A j \in B : Continues(t, j, i) /\ B = {j} /\ t[j].in = t[i].in /\ t[j].kind \in {"var", "class"} /\ j \in Nodes
  <2>1. BegunIn(t, i - 1)
    BY <1>1, BegunIs
  <2>2. t[i].in = InnermostIn(t, i - 1)
    BY <1>1 DEF Placed
  <2>3. \A j \in B : Continues(t, j, i)
    BY <1>1 DEF Grammatical
  <2>4. \A j \in B : t[j].kind \in {"var", "class"} /\ j \in Nodes
    BY <1>1 DEF Begun
  <2>. QED BY <1>1, <2>1, <2>2, <2>3, <2>4 DEF BegunIn
<1>4. kind \in {"define", "body"} => B # {}
  BY <1>1 DEF Grammatical
<1>5. /\ BegunOf(i, "var") = {j \in C : t[j].kind = "var"} /\ BegunOf(i, "class") = {j \in C : t[j].kind = "class"}
      /\ BegunOf(i - 1, "var") = {j \in B : t[j].kind = "var"} /\ BegunOf(i - 1, "class") = {j \in B : t[j].kind = "class"}
  BY <1>1 DEF BegunOf
<1>6. \A j \in B : /\ t[j].kind = "var" => kind \in Expressions \/ (kind = "define" /\ t[i].name = t[j].name)
                   /\ t[j].kind = "class" => kind = "variable" \/ (kind = "body" /\ t[i].super = t[j].super /\ t[i].name = t[j].name)
  BY <1>3 DEF Continues
<1>7. kind \in Expressions \cup {"variable"} => /\ kind \notin {"var", "class", "define", "body"} /\ ~IsOpener(t[i]) /\ ~IsEnd(t[i])
                                                /\ kind \in Expressions
  BY DEF Expressions, IsOpener, IsEnd, Openers
<1>8. "define" \notin Openers /\ IsOpener(t[i]) = (kind \in Openers) /\ IsEnd(t[i]) = (kind = "end")
  BY DEF IsOpener, IsEnd, Openers
<1> HIDE DEF B, C, kind, t
<1>9. kind \notin Expressions \cup {"define", "body"} => B = {}
  BY <1>3, <1>6, <1>7
<1>10. ASSUME kind = "define"
       PROVE  \E v \in Nodes : B = {v} /\ t[v].kind = "var" /\ t[v].in = t[i].in /\ t[v].name = t[i].name
  <2>1. PICK v \in B : TRUE
    BY <1>4, <1>10
  <2>2. B = {v} /\ v \in Nodes /\ t[v].in = t[i].in /\ t[v].kind \in {"var", "class"}
    BY <1>3, <2>1
  <2>3. t[v].kind = "var" /\ t[i].name = t[v].name
    BY <1>6, <1>7, <1>10, <2>2
  <2>. QED BY <2>2, <2>3
<1>11. ASSUME kind = "body"
       PROVE  \E c \in Nodes : B = {c} /\ t[c].kind = "class" /\ t[c].in = t[i].in /\ t[c].super = t[i].super /\ t[c].name = t[i].name
  <2>1. PICK c \in B : TRUE
    BY <1>4, <1>11
  <2>2. B = {c} /\ c \in Nodes /\ t[c].in = t[i].in /\ t[c].kind \in {"var", "class"}
    BY <1>3, <2>1
  <2>3. t[c].kind = "class" /\ t[i].super = t[c].super /\ t[i].name = t[c].name
    BY <1>6, <1>7, <1>11, <2>2
  <2>. QED BY <2>2, <2>3
<1>12. kind = "var" => B = {} /\ C = {i}
  BY <1>2, <1>7, <1>9
<1>13. kind = "class" => B = {} /\ C = {i}
  BY <1>2, <1>7, <1>9
<1>14. kind \in {"define", "body"} => C = {}
  BY <1>2
<1>15. kind # "body" /\ (kind \in Openers \/ kind = "end") => B = {} /\ C = {}
  <2>1. kind \in Openers \/ kind = "end" => kind \notin {"define", "var", "class"} /\ kind \notin Expressions
    BY DEF Openers, Expressions
  <2>. QED BY <1>2, <1>9, <2>1
<1>16. kind \notin {"var", "class", "define", "body"} => C = B
  BY <1>2
<1>17. ASSUME kind = "var"
       PROVE  BegunOf(i - 1, "class") = {} /\ BegunOf(i - 1, "var") = {} /\ BegunOf(i, "class") = {} /\ BegunOf(i, "var") = {i}
  BY <1>5, <1>12, <1>17 DEF kind, t
<1>18. ASSUME kind = "class"
       PROVE  BegunOf(i - 1, "class") = {} /\ BegunOf(i - 1, "var") = {} /\ BegunOf(i, "var") = {} /\ BegunOf(i, "class") = {i}
  BY <1>5, <1>13, <1>18 DEF kind, t
<1>19. ASSUME kind = "define"
       PROVE  /\ BegunOf(i - 1, "class") = {} /\ BegunOf(i, "class") = {} /\ BegunOf(i, "var") = {}
              /\ \E v \in Nodes : BegunOf(i - 1, "var") = {v} /\ t[v].in = t[i].in /\ t[v].name = t[i].name
  <2>1. PICK v \in Nodes : B = {v} /\ t[v].kind = "var" /\ t[v].in = t[i].in /\ t[v].name = t[i].name
    BY <1>10, <1>19
  <2>2. BegunOf(i - 1, "var") = {v} /\ BegunOf(i - 1, "class") = {}
    BY <1>5, <2>1
  <2>. QED BY <1>5, <1>14, <1>19, <2>1, <2>2
<1>20. ASSUME kind = "body"
       PROVE  /\ BegunOf(i - 1, "var") = {} /\ BegunOf(i, "class") = {} /\ BegunOf(i, "var") = {}
              /\ \E c \in Nodes : BegunOf(i - 1, "class") = {c} /\ t[c].in = t[i].in /\ t[c].super = t[i].super /\ t[c].name = t[i].name
  <2>1. PICK c \in Nodes : B = {c} /\ t[c].kind = "class" /\ t[c].in = t[i].in /\ t[c].super = t[i].super /\ t[c].name = t[i].name
    BY <1>11, <1>20
  <2>2. BegunOf(i - 1, "class") = {c} /\ BegunOf(i - 1, "var") = {}
    BY <1>5, <2>1
  <2>. QED BY <1>5, <1>14, <1>20, <2>1, <2>2
<1>21. kind # "body" /\ (IsOpener(t[i]) \/ IsEnd(t[i])) =>
         BegunOf(i - 1, "class") = {} /\ BegunOf(i - 1, "var") = {} /\ BegunOf(i, "class") = {} /\ BegunOf(i, "var") = {}
  BY <1>5, <1>8, <1>15
<1>22. kind \notin {"var", "class", "define", "body"} =>
         BegunOf(i, "var") = BegunOf(i - 1, "var") /\ BegunOf(i, "class") = BegunOf(i - 1, "class")
  BY <1>5, <1>16
<1>. QED BY <1>9, <1>17, <1>18, <1>19, <1>20, <1>21, <1>22 DEF kind, t, B

-----------------------------------------------------------------------------
(* The enclosing function and class, by the text *)

FunctionKind(m) ==
  IF m = 0 THEN "none" ELSE IF program[m].kind = "fun" THEN "function" ELSE IF IsInitializer(m) THEN "initializer"
  ELSE IF program[m].onTheClass THEN "classMethod" ELSE "method"
ClassKind(m) == IF m = 0 THEN "none" ELSE IF program[m].super = "" THEN "class" ELSE "subclass"

\* What the inside of node m is in; m is 0 at the top level.
FunctionIn(m) == FunctionKind(InsideOf(m, Functions))
ClassIn(m) == ClassKind(InsideOf(m, {"body"}))
ContextSet == {"none", "function", "initializer", "classMethod", "method", "class", "subclass"}

LEMMA ContextsIn ==
  /\ FunctionIn(0) = "none" /\ ClassIn(0) = "none"
  /\ \A m : FunctionIn(m) \in ContextSet /\ ClassIn(m) \in ContextSet
<1>1. \A m : FunctionKind(m) \in ContextSet /\ ClassKind(m) \in ContextSet
  BY DEF FunctionKind, ClassKind, ContextSet
<1>2. FunctionIn(0) = "none" /\ ClassIn(0) = "none"
  BY DEF FunctionIn, ClassIn, FunctionKind, ClassKind, InsideOf
<1>. QED BY <1>1, <1>2 DEF FunctionIn, ClassIn

LEMMA ContextsOf ==
  ASSUME Placed(program), NEW u \in Nodes, NEW m, m = program[u].in
  PROVE  /\ program[u].kind \in Functions => FunctionIn(u) = FunctionKind(u) /\ ClassIn(u) = ClassIn(m)
         /\ program[u].kind = "body" => FunctionIn(u) = FunctionIn(m) /\ ClassIn(u) = ClassKind(u)
         /\ program[u].kind \notin Functions \cup {"body"} => FunctionIn(u) = FunctionIn(m) /\ ClassIn(u) = ClassIn(m)
<1>1. u # 0 /\ "body" \notin Functions
  BY DEF Placed, Nodes, Functions
<1>2. InsideOf(u, Functions) = IF program[u].kind \in Functions THEN u ELSE InsideOf(m, Functions)
  <2>1. InnermostOf(u, Functions) = InsideOf(m, Functions)
    BY InnermostOfIs
  <2>. QED BY <1>1, <2>1 DEF InsideOf
<1>3. InsideOf(u, {"body"}) = IF program[u].kind \in {"body"} THEN u ELSE InsideOf(m, {"body"})
  <2>1. InnermostOf(u, {"body"}) = InsideOf(m, {"body"})
    BY InnermostOfIs
  <2>. QED BY <1>1, <2>1 DEF InsideOf
<1>. QED BY <1>1, <1>2, <1>3 DEF FunctionIn, ClassIn

\* The errors of a node that depend on what it is in.
LEMMA ContextErrorsAre ==
  ASSUME Placed(program), NEW i \in Nodes, NEW f, f = FunctionIn(program[i].in), NEW c, c = ClassIn(program[i].in)
  PROVE  /\ program[i].kind = "return" =>
              ContextErrors(i) = IF f = "none" THEN {"top-level return"}
                                 ELSE Only(f = "initializer" /\ program[i].n = 1, "value from init")
         /\ program[i].kind = "this" => ContextErrors(i) = Only(c = "none", "this outside")
         /\ program[i].kind = "super" =>
              ContextErrors(i) = IF c = "none" THEN {"super outside"} ELSE Only(c = "class", "no superclass")
<1> DEFINE function == InnermostOf(i, Functions)
           class == InnermostOf(i, {"body"})
<1>1. /\ f = FunctionKind(function) /\ c = ClassKind(class)
      /\ function # 0 => program[function].kind \in Functions
  BY InnermostOfIs DEF FunctionIn, ClassIn
<1> HIDE DEF function, class
<1>2. function = 0 <=> f = "none"
  BY <1>1 DEF FunctionKind
<1>3. IsInitializer(function) <=> f = "initializer"
  BY <1>1 DEF FunctionKind, IsInitializer
<1>4. (class = 0 <=> c = "none") /\ (class # 0 /\ ~IsSubclass(class) <=> c = "class")
  BY <1>1 DEF ClassKind, IsSubclass
<1>5. ContextErrors(i) =
        Only(program[i].kind = "return" /\ f = "none", "top-level return")
          \cup Only(program[i].kind = "return" /\ program[i].n = 1 /\ f = "initializer", "value from init")
          \cup Only(program[i].kind = "this" /\ c = "none", "this outside")
          \cup Only(program[i].kind = "super" /\ c = "none", "super outside")
          \cup Only(program[i].kind = "super" /\ c = "class", "no superclass")
  BY <1>2, <1>3, <1>4 DEF ContextErrors, function, class, Only
<1>. QED BY <1>5 DEF Only

\* The contexts saved inside node m, the innermost last.
SavedIn(m, saved) ==
  IF program[m].kind \in Functions THEN Append(saved, FunctionIn(program[m].in))
  ELSE IF program[m].kind = "body" THEN Append(saved, ClassIn(program[m].in))
  ELSE saved
IsSaved(f) ==
  /\ f \in [0 .. Len(program) -> Seq(ContextSet)] /\ f[0] = <<>>
  /\ \A m \in Nodes : f[m] = SavedIn(m, f[program[m].in])
Saved == CHOOSE f : IsSaved(f)

LEMMA SavedIs ==
  ASSUME Placed(program)
  PROVE  IsSaved(Saved)
<1> DEFINE l == Len(program)
           T == Seq(ContextSet)
           in == [j \in 1 .. l |-> program[j].in]
           step == [p \in (1 .. l) \X T |-> SavedIn(p[1], p[2])]
           none == <<>>
<1>1. l \in Nat /\ none \in T /\ Nodes = 1 .. l
  BY DEF Placed, Nodes
<1>2. \A j \in 1 .. l : in[j] = program[j].in /\ in[j] \in 0 .. j - 1 /\ in[j] \in 0 .. l
  BY <1>1, InIsBefore
<1>3. \A j \in 1 .. l, u \in T : step[<<j, u>>] = SavedIn(j, u)
  <2> HIDE DEF l, T
  <2>. QED OBVIOUS
<1>4. \A j \in 1 .. l, u \in T : SavedIn(j, u) \in T
  <2> TAKE j \in 1 .. l, u \in T
  <2>1. \A c \in ContextSet : Append(u, c) \in T
    OBVIOUS
  <2>. QED BY <2>1, ContextsIn DEF SavedIn
<1> HIDE DEF step, l, T, in, none
<1>5. PICK g : g \in [0 .. l -> T] /\ Climbs(g, l, none, in, step)
  <2>1. Steps(step, l, T)
    BY <1>3, <1>4 DEF Steps
  <2>. QED BY <1>1, <1>2, <2>1, TreeRecursion
<1>6. g[0] = none
  <2>1. 0 \in 0 .. l
    BY <1>1
  <2>. QED BY <1>5, <2>1 DEF Climbs
<1>7. \A m \in 1 .. l : g[m] = SavedIn(m, g[in[m]])
  <2> TAKE m \in 1 .. l
  <2>1. m \in 0 .. l /\ m # 0 /\ in[m] \in 0 .. l
    BY <1>1, <1>2
  <2>2. g[m] = step[<<m, g[in[m]]>>] /\ g[in[m]] \in T
    BY <1>5, <2>1 DEF Climbs
  <2>. QED BY <1>3, <2>2
<1>8. IsSaved(g)
  BY <1>1, <1>2, <1>5, <1>6, <1>7 DEF IsSaved, l, T, none
<1>. QED BY <1>8 DEF Saved

\* The enclosing function and class of r after n nodes, and what it will restore.
Contexts(r, n) ==
  LET m == InnermostIn(program, n)
  IN /\ r.currentFunction = FunctionIn(m)
     /\ \A c \in BegunOf(n, "class") : r.currentClass = ClassKind(c) /\ r.enclosing = Append(Saved[m], ClassIn(m))
     /\ BegunOf(n, "class") = {} => r.currentClass = ClassIn(m) /\ r.enclosing = Saved[m]

SameContexts(r, q) ==
  q.currentFunction = r.currentFunction /\ q.currentClass = r.currentClass /\ q.enclosing = r.enclosing

LEMMA ContextsLevel ==
  ASSUME TextIsPlaced, NEW i \in Nodes, program[i].kind # "class", ~IsOpener(program[i]), ~IsEnd(program[i]),
         NEW r, Contexts(r, i - 1), NEW q, SameContexts(r, q)
  PROVE  Contexts(q, i)
<1>1. InnermostIn(program, i) = InnermostIn(program, i - 1)
  BY InnermostAt DEF TextIsPlaced
<1>2. program[i].kind # "body"
  BY DEF IsOpener, Openers
<1>3. BegunOf(i, "class") = BegunOf(i - 1, "class")
  BY <1>2, BegunBy
<1>. QED BY <1>1, <1>3 DEF Contexts, SameContexts

LEMMA ContextsClass ==
  ASSUME TextIsPlaced, NEW i \in Nodes, program[i].kind = "class", NEW r, Contexts(r, i - 1), NEW q,
         q.currentFunction = r.currentFunction, q.enclosing = Append(r.enclosing, r.currentClass),
         q.currentClass = IF program[i].super = "" THEN "class" ELSE "subclass"
  PROVE  Contexts(q, i)
<1>1. ~IsOpener(program[i]) /\ ~IsEnd(program[i])
  BY DEF IsOpener, IsEnd, Openers
<1>2. InnermostIn(program, i) = InnermostIn(program, i - 1) /\ i # 0
  BY <1>1, InnermostAt, NoNodeZero DEF TextIsPlaced
<1>3. BegunOf(i - 1, "class") = {} /\ BegunOf(i, "class") = {i}
  BY BegunBy
<1>. QED BY <1>2, <1>3 DEF Contexts, ClassKind

LEMMA SavedAt ==
  ASSUME Placed(program)
  PROVE  /\ Saved[0] = <<>>
         /\ \A m \in Nodes : Saved[m] = SavedIn(m, Saved[program[m].in]) /\ Saved[program[m].in] \in Seq(ContextSet)
<1>1. IsSaved(Saved)
  BY SavedIs
<1>2. \A m \in Nodes : program[m].in \in 0 .. Len(program)
  <2> TAKE m \in Nodes
  <2>1. program[m].in \in 0 .. m - 1 /\ m \in 1 .. Len(program) /\ Len(program) \in Nat
    BY InIsBefore DEF Nodes
  <2>. QED BY <2>1
<1>. QED BY <1>1, <1>2 DEF IsSaved

LEMMA ContextsOpened ==
  ASSUME TextIsPlaced, NEW i \in Nodes, IsOpener(program[i]), NEW r, Contexts(r, i - 1), NEW q,
         program[i].kind \in Functions => /\ q.currentFunction = FunctionKind(i) /\ q.currentClass = r.currentClass
                                          /\ q.enclosing = Append(r.enclosing, r.currentFunction),
         program[i].kind \notin Functions => SameContexts(r, q)
  PROVE  Contexts(q, i)
<1> DEFINE m == program[i].in
<1>1. Placed(program)
  BY DEF TextIsPlaced
<1>2. InnermostIn(program, i) = i /\ InnermostIn(program, i - 1) = m
  BY <1>1, InnermostAt
<1>3. Saved[i] = SavedIn(i, Saved[m])
  BY <1>1, SavedAt
<1>4. /\ program[i].kind \in Functions => FunctionIn(i) = FunctionKind(i) /\ ClassIn(i) = ClassIn(m)
      /\ program[i].kind = "body" => FunctionIn(i) = FunctionIn(m) /\ ClassIn(i) = ClassKind(i)
      /\ program[i].kind \notin Functions \cup {"body"} => FunctionIn(i) = FunctionIn(m) /\ ClassIn(i) = ClassIn(m)
  BY <1>1, ContextsOf
<1>5. CASE program[i].kind = "body"
  <2>1. BegunOf(i, "class") = {}
    BY <1>5, BegunBy
  <2>2. PICK c \in Nodes : BegunOf(i - 1, "class") = {c} /\ program[c].super = program[i].super
    BY <1>5, BegunBy
  <2>3. r.currentFunction = FunctionIn(m) /\ r.currentClass = ClassKind(c) /\ r.enclosing = Append(Saved[m], ClassIn(m))
    BY <1>2, <2>2 DEF Contexts
  <2>4. ClassKind(c) = ClassKind(i)
    BY <1>1, <2>2, NoNodeZero DEF ClassKind
  <2>5. "body" \notin Functions
    BY DEF Functions
  <2>. QED BY <1>2, <1>3, <1>4, <1>5, <2>1, <2>3, <2>4, <2>5 DEF Contexts, SameContexts, SavedIn
<1>6. CASE program[i].kind # "body"
  <2>1. BegunOf(i, "class") = {} /\ BegunOf(i - 1, "class") = {}
    BY <1>6, BegunBy
  <2>2. r.currentFunction = FunctionIn(m) /\ r.currentClass = ClassIn(m) /\ r.enclosing = Saved[m]
    BY <1>2, <2>1 DEF Contexts
  <2>. QED BY <1>2, <1>3, <1>4, <1>6, <2>1, <2>2 DEF Contexts, SameContexts, SavedIn
<1>. QED BY <1>5, <1>6

LEMMA ContextsClosed ==
  ASSUME TextIsPlaced, NEW i \in Nodes, IsEnd(program[i]), NEW u, u = program[i].in, NEW r, Contexts(r, i - 1), NEW q,
         program[u].kind \in Functions => /\ q.currentFunction = Last(r.enclosing) /\ q.currentClass = r.currentClass
                                          /\ q.enclosing = Front(r.enclosing),
         program[u].kind = "body" => /\ q.currentClass = Last(r.enclosing) /\ q.currentFunction = r.currentFunction
                                     /\ q.enclosing = Front(r.enclosing),
         program[u].kind \notin Functions \cup {"body"} => SameContexts(r, q)
  PROVE  Contexts(q, i)
<1> DEFINE m == program[u].in
<1>1. Placed(program) /\ Grammatical(program, i)
  BY DEF TextIsPlaced
<1>2. u \in Nodes
  <2>1. u # 0
    BY <1>1 DEF Grammatical, IsEnd
  <2>. QED BY <1>1, <2>1, InIsBefore
<1>3. InnermostIn(program, i - 1) = u /\ InnermostIn(program, i) = m
  <2>1. u # 0
    BY <1>2 DEF Nodes
  <2>. QED BY <1>1, <2>1, InnermostAt
<1>4. Saved[u] = SavedIn(u, Saved[m]) /\ Saved[m] \in Seq(ContextSet)
  BY <1>1, <1>2, SavedAt
<1>5. /\ program[u].kind \in Functions => FunctionIn(u) = FunctionKind(u) /\ ClassIn(u) = ClassIn(m)
      /\ program[u].kind = "body" => FunctionIn(u) = FunctionIn(m) /\ ClassIn(u) = ClassKind(u)
      /\ program[u].kind \notin Functions \cup {"body"} => FunctionIn(u) = FunctionIn(m) /\ ClassIn(u) = ClassIn(m)
  BY <1>1, <1>2, ContextsOf
<1>6. BegunOf(i, "class") = {} /\ BegunOf(i - 1, "class") = {}
  <2>1. program[i].kind # "body"
    BY DEF IsEnd
  <2>. QED BY <2>1, BegunBy
<1>7. r.currentFunction = FunctionIn(u) /\ r.currentClass = ClassIn(u) /\ r.enclosing = Saved[u]
  BY <1>3, <1>6 DEF Contexts
<1>8. \A c \in ContextSet : Last(Append(Saved[m], c)) = c /\ Front(Append(Saved[m], c)) = Saved[m]
  <2> DEFINE e == Saved[m]
  <2>1. e \in Seq(ContextSet)
    BY <1>4
  <2> HIDE DEF e
  <2> TAKE c \in ContextSet
  <2> DEFINE a == Append(e, c)
  <2>2. a \in Seq(ContextSet) /\ Len(e) \in Nat /\ Len(a) = Len(e) + 1 /\ a[Len(e) + 1] = c /\ \A k \in 1 .. Len(e) : a[k] = e[k]
    BY <2>1
  <2> HIDE DEF a
  <2>3. Last(a) = c
    BY <2>2 DEF Last
  <2>4. Front(a) = [k \in 1 .. Len(e) |-> e[k]]
    <3>1. Front(a) = SubSeq(a, 1, Len(e))
      BY <2>2 DEF Front
    <3>. QED BY <2>1, <2>2, <3>1
  <2>5. [k \in 1 .. Len(e) |-> e[k]] = e
    BY <2>1
  <2>. QED BY <2>3, <2>4, <2>5 DEF a, e
<1>9. FunctionIn(m) \in ContextSet /\ ClassIn(m) \in ContextSet /\ "body" \notin Functions
  BY ContextsIn DEF Functions
<1>10. /\ program[u].kind \in Functions => r.enclosing = Append(Saved[m], FunctionIn(m))
       /\ program[u].kind = "body" => r.enclosing = Append(Saved[m], ClassIn(m))
       /\ program[u].kind \notin Functions \cup {"body"} => r.enclosing = Saved[m]
  BY <1>4, <1>7, <1>9 DEF SavedIn
<1> HIDE DEF m
<1>. QED BY <1>3, <1>5, <1>6, <1>7, <1>8, <1>9, <1>10 DEF Contexts, SameContexts

-----------------------------------------------------------------------------
(* The names the resolver's scopes have, error or not *)

\* The names declared in the block u by node n.
NamesIn(u, n) ==
  FirstParams(u, Params(u)) \cup {program[j].name : j \in {j \in DeclaredIn(u) : j <= n}}

\* The locals whose initializer is being visited after n nodes.
Awaited(n) == {program[j].name : j \in {j \in BegunOf(n, "var") : program[j].in # 0 /\ ~DeclaredTwice(j)}}

\* The scopes of r have the names of the scopes around, which are innermost first;
\* all are defined but w, which are of the innermost.
Shown(r, around, n, w) ==
  \A k \in 1 .. Len(around) :
    /\ around[k][2] = "block" => NamesOf(r.scopes[Len(around) + 1 - k]) = NamesIn(around[k][1], n)
    /\ Undefined(r.scopes[Len(around) + 1 - k]) = IF k = 1 THEN w ELSE {}

LEMMA ShownOpened ==
  ASSUME NEW q, NEW p, NEW a, NEW b, NEW s, NEW n, Shown(q, a, n, {}), Pushed(a, s, b), Opens(q, p), Len(q.scopes) = Len(a),
         s[2] = "block" => NamesOf(p.scopes[Len(q.scopes) + 1]) = NamesIn(s[1], n),
         Undefined(p.scopes[Len(q.scopes) + 1]) = {}
  PROVE  Shown(p, b, n, {})
<1> DEFINE l == Len(a)
<1>1. l \in Nat /\ Len(q.scopes) = l /\ Len(b) = l + 1 /\ b[1] = s /\ \A k \in 1 .. l : b[k + 1] = a[k]
  BY DEF Pushed
<1>2. \A d \in 1 .. l : p.scopes[d] = q.scopes[d]
  BY <1>1 DEF Opens
<1>3. \A k \in 1 .. l : /\ a[k][2] = "block" => NamesOf(q.scopes[l + 1 - k]) = NamesIn(a[k][1], n)
                        /\ Undefined(q.scopes[l + 1 - k]) = {}
  BY DEF Shown
<1>4. s[2] = "block" => NamesOf(p.scopes[l + 1]) = NamesIn(s[1], n)
  BY <1>1
<1>5. Undefined(p.scopes[l + 1]) = {}
  BY <1>1
<1> HIDE DEF l
<1>6. ASSUME NEW k \in 1 .. l + 1
      PROVE  /\ b[k][2] = "block" => NamesOf(p.scopes[l + 1 + 1 - k]) = NamesIn(b[k][1], n)
             /\ Undefined(p.scopes[l + 1 + 1 - k]) = {}
  <2>1. CASE k = 1
    <3>1. l + 1 + 1 - k = l + 1 /\ b[k] = s
      BY <1>1, <2>1
    <3>. QED BY <1>4, <1>5, <3>1
  <2>2. CASE k # 1
    <3> DEFINE m == k - 1
    <3>1. m \in 1 .. l /\ m + 1 = k /\ l + 1 + 1 - k = l + 1 - m /\ l + 1 - m \in 1 .. l
      BY <1>1, <2>2
    <3> HIDE DEF m
    <3>2. b[k] = a[m] /\ p.scopes[l + 1 - m] = q.scopes[l + 1 - m]
      BY <1>1, <1>2, <3>1
    <3>. QED BY <1>3, <3>1, <3>2
  <2>. QED BY <2>1, <2>2
<1>. QED BY <1>1, <1>6 DEF Shown

LEMMA ShownClosed ==
  ASSUME NEW q, NEW p, NEW a, NEW b, NEW s, NEW n, Shown(p, b, n, {}), Pushed(a, s, b), Opens(q, p), Len(q.scopes) = Len(a)
  PROVE  Shown(q, a, n, {})
<1> DEFINE l == Len(a)
<1>1. l \in Nat /\ Len(q.scopes) = l /\ Len(b) = l + 1 /\ \A k \in 1 .. l : b[k + 1] = a[k]
  BY DEF Pushed
<1>2. \A d \in 1 .. l : p.scopes[d] = q.scopes[d]
  BY <1>1 DEF Opens
<1> HIDE DEF l
<1>3. \A k \in 1 .. l + 1 : /\ b[k][2] = "block" => NamesOf(p.scopes[l + 1 + 1 - k]) = NamesIn(b[k][1], n)
                            /\ Undefined(p.scopes[l + 1 + 1 - k]) = {}
  BY <1>1 DEF Shown
<1>4. ASSUME NEW k \in 1 .. l
      PROVE  /\ a[k][2] = "block" => NamesOf(q.scopes[l + 1 - k]) = NamesIn(a[k][1], n)
             /\ Undefined(q.scopes[l + 1 - k]) = {}
  <2>1. k + 1 \in 1 .. l + 1 /\ l + 1 + 1 - (k + 1) = l + 1 - k /\ l + 1 - k \in 1 .. l
    BY <1>1
  <2>2. b[k + 1] = a[k] /\ p.scopes[l + 1 - k] = q.scopes[l + 1 - k]
    BY <1>1, <1>2, <2>1
  <2>. QED BY <1>3, <2>1, <2>2
<1>. QED BY <1>4 DEF Shown, l

\* The innermost scope is that of the innermost node, and blocks further out are of nodes before it.
LEMMA OuterBlocks ==
  ASSUME Placed(program), NEW i \in Nodes, NEW a, a = AroundAfter(i - 1), NEW u, u = program[i].in
  PROVE  /\ a \in Seq(ScopeSet)
         /\ Len(a) = 0 <=> u = 0
         /\ u # 0 => a[1][1] = u /\ (a[1][2] = "block" <=> program[u].kind # "body")
         /\ u # 0 => \A k \in 2 .. Len(a) : a[k][2] = "block" => a[k][1] \in Nat /\ a[k][1] < u
<1>1. i - 1 \in Nat /\ i - 1 <= Len(program) /\ i \in Nat
  BY DEF Placed, Nodes
<1>2. a \in Seq(ScopeSet) /\ a = Outer(i)
  BY <1>1, AroundAfterIs
<1>3. u \in 0 .. i - 1 /\ (u # 0 => u \in Nodes)
  BY InIsBefore
<1>4. CASE u = 0
  <2>1. a = <<>>
    BY <1>2, <1>4 DEF Outer
  <2>. QED BY <1>2, <1>4, <2>1
<1>5. CASE u # 0
  <2> DEFINE s == ScopesOf(u)
             w == ScopesAround(u)
  <2>1. u \in Nodes /\ u \in Nat /\ u - 1 \in Nat /\ u - 1 <= Len(program)
    BY <1>1, <1>3, <1>5
  <2>2. a = s \o w
    BY <1>2, <1>5 DEF Outer
  <2>3. w \in Seq(ScopeSet) /\ \A k \in 1 .. Len(w) : w[k][1] \in Nodes /\ w[k][1] <= u - 1
    <3>1. w = AroundAfter(u - 1) /\ w \in Seq(ScopeSet)
      BY <2>1, AroundAfterIs, AroundIs
    <3> HIDE DEF w
    <3> DEFINE v == u - 1
    <3>2. \A k \in 1 .. Len(AroundAfter(v)) : AroundAfter(v)[k][1] \in Nodes /\ AroundAfter(v)[k][1] <= v
      <4>1. v \in Nat /\ v <= Len(program)
        BY <2>1
      <4> HIDE DEF v
      <4>. QED BY <4>1, ScopesAreOpen
    <3>. QED BY <3>1, <3>2
  <2>4. /\ s \in Seq(ScopeSet) /\ Len(s) \in {1, 2} /\ \A k \in 1 .. Len(s) : s[k][1] = u
        /\ s[1][2] = "block" <=> program[u].kind # "body"
        /\ Len(s) = 2 => s[2][2] # "block"
    <3>1. /\ s \in Seq(ScopeSet) /\ Len(s) \in {1, 2} /\ \A k \in 1 .. Len(s) : s[k][1] = u
          /\ program[u].kind # "body" => s = <<<<u, "block">>>>
          /\ program[u].kind = "body" /\ ~IsSubclass(u) => s = <<<<u, "this">>>>
          /\ program[u].kind = "body" /\ IsSubclass(u) => s = <<<<u, "this">>, <<u, "super">>>>
      BY <2>1, ScopesOfAre
    <3> HIDE DEF s
    <3>. QED BY <3>1
  <2> HIDE DEF s, w
  <2>5. Len(a) = Len(s) + Len(w) /\ \A k \in 1 .. Len(s) : a[k] = s[k]
    BY <2>2, <2>3, <2>4, Concatenated
  <2>6. \A k \in 1 .. Len(w) : a[Len(s) + k] = w[k]
    BY <2>2, <2>3, <2>4, Concatenated
  <2>7. a[1] = s[1] /\ s[1][1] = u /\ Len(a) # 0 /\ Len(w) \in Nat
    <3>1. 1 \in 1 .. Len(s) /\ Len(w) \in Nat
      BY <2>3, <2>4
    <3>. QED BY <2>4, <2>5, <3>1
  <2>8. ASSUME NEW k \in 2 .. Len(a), a[k][2] = "block"
        PROVE  a[k][1] \in Nat /\ a[k][1] < u
    <3>1. CASE k <= Len(s)
      <4>1. k = 2 /\ Len(s) = 2 /\ k \in 1 .. Len(s)
        BY <2>4, <2>7, <3>1
      <4>. QED BY <2>4, <2>5, <2>8, <4>1
    <3>2. CASE ~(k <= Len(s))
      <4> DEFINE h == k - Len(s)
      <4>1. h \in 1 .. Len(w) /\ Len(s) + h = k
        BY <2>4, <2>5, <2>7, <3>2
      <4> HIDE DEF h
      <4>2. a[k] = w[h]
        BY <2>6, <4>1
      <4>3. w[h][1] \in Nodes /\ w[h][1] <= u - 1
        BY <2>3, <4>1
      <4>4. PICK e : e = w[h][1]
        OBVIOUS
      <4>5. e \in Nat
        BY <4>3, <4>4 DEF Nodes
      <4>6. e < u
        BY <2>1, <4>3, <4>4, <4>5
      <4>. QED BY <4>2, <4>4, <4>5, <4>6
    <3>. QED BY <3>1, <3>2
  <2>. QED BY <1>2, <1>5, <2>4, <2>7, <2>8
<1>. QED BY <1>4, <1>5

\* Only a declaration in a block adds to its names.
LEMMA NamesInNext ==
  ASSUME Placed(program), NEW i \in Nodes, NEW u
  PROVE  NamesIn(u, i) = NamesIn(u, i - 1) \cup (IF IsDeclaration(i) /\ program[i].in = u THEN {program[i].name} ELSE {})
<1>1. i \in Nat /\ \A j \in Nodes : j \in Nat
  BY DEF Nodes
<1>2. \A j \in DeclaredIn(u) : j \in Nodes
  BY DEF DeclaredIn
<1>3. i \in DeclaredIn(u) <=> IsDeclaration(i) /\ program[i].in = u
  BY DEF DeclaredIn, IsDeclaration
<1>4. \A j \in DeclaredIn(u) : j <= i <=> (j <= i - 1 \/ j = i)
  <2>1. \A j \in Nat : j <= i <=> (j <= i - 1 \/ j = i)
    BY <1>1
  <2>. QED BY <1>1, <1>2, <2>1
<1>5. \A x : x \in NamesIn(u, i) <=> x \in NamesIn(u, i - 1) \/ (i \in DeclaredIn(u) /\ x = program[i].name)
  BY <1>4 DEF NamesIn
<1>. QED BY <1>3, <1>5

\* q has the scopes of r, the innermost with more names and these undefined.
Retold(r, q, more, w) ==
  /\ Len(q.scopes) = Len(r.scopes)
  /\ \A d \in 1 .. Len(r.scopes) :
       /\ NamesOf(q.scopes[d]) = NamesOf(r.scopes[d]) \cup (IF d = Len(r.scopes) THEN more ELSE {})
       /\ Undefined(q.scopes[d]) = IF d = Len(r.scopes) THEN w ELSE Undefined(r.scopes[d])

LEMMA ShownLevel ==
  ASSUME TextIsPlaced, NEW i \in Nodes, NEW r, NEW v, Shown(r, AroundAfter(i - 1), i - 1, v),
         Len(r.scopes) = Len(AroundAfter(i - 1)),
         NEW q, NEW w, Retold(r, q, IF IsDeclaration(i) THEN {program[i].name} ELSE {}, w)
  PROVE  Shown(q, AroundAfter(i - 1), i, w)
<1> DEFINE a == AroundAfter(i - 1)
           l == Len(a)
           u == program[i].in
           more == IF IsDeclaration(i) THEN {program[i].name} ELSE {}
<1>1. Placed(program) /\ Grammatical(program, i)
  BY DEF TextIsPlaced
<1>2. /\ a \in Seq(ScopeSet) /\ (l = 0 <=> u = 0)
      /\ u # 0 => a[1][1] = u /\ (a[1][2] = "block" <=> program[u].kind # "body")
      /\ u # 0 => \A k \in 2 .. l : a[k][2] = "block" => a[k][1] \in Nat /\ a[k][1] < u
  BY <1>1, OuterBlocks
<1>3. Shown(r, a, i - 1, v) /\ Len(r.scopes) = l /\ Retold(r, q, more, w)
  OBVIOUS
<1>4. IsDeclaration(i) /\ u # 0 => program[u].kind # "body"
  BY <1>1 DEF IsDeclaration, Grammatical
<1>5. u \in Nat
  BY <1>1, InIsBefore
<1> HIDE DEF a
<1>6. l \in Nat
  BY <1>2
<1>7. \A s : NamesIn(s, i) = NamesIn(s, i - 1) \cup (IF IsDeclaration(i) /\ u = s THEN {program[i].name} ELSE {})
  BY <1>1, NamesInNext
<1> HIDE DEF u, more
<1>8. ASSUME NEW k \in 1 .. l
      PROVE  /\ a[k][2] = "block" => NamesOf(q.scopes[l + 1 - k]) = NamesIn(a[k][1], i)
             /\ Undefined(q.scopes[l + 1 - k]) = IF k = 1 THEN w ELSE {}
  <2> DEFINE d == l + 1 - k
  <2>1. d \in 1 .. l /\ (d = l <=> k = 1) /\ u # 0
    BY <1>2, <1>6
  <2>2. /\ a[k][2] = "block" => NamesOf(r.scopes[d]) = NamesIn(a[k][1], i - 1)
        /\ Undefined(r.scopes[d]) = IF k = 1 THEN v ELSE {}
    BY <1>3 DEF Shown, l
  <2> HIDE DEF d
  <2>3. /\ NamesOf(q.scopes[d]) = NamesOf(r.scopes[d]) \cup (IF k = 1 THEN more ELSE {})
        /\ Undefined(q.scopes[d]) = IF k = 1 THEN w ELSE Undefined(r.scopes[d])
    BY <1>3, <2>1 DEF Retold
  <2>4. ASSUME a[k][2] = "block"
        PROVE  NamesOf(q.scopes[d]) = NamesIn(a[k][1], i)
    <3>1. CASE k = 1
      <4>1. a[k][1] = u
        BY <1>2, <2>1, <3>1
      <4>. QED BY <1>7, <2>2, <2>3, <2>4, <3>1, <4>1 DEF more
    <3>2. CASE k # 1
      <4>1. k \in 2 .. l
        BY <1>6, <3>2
      <4>2. a[k][1] # u
        BY <1>2, <1>5, <2>1, <2>4, <4>1
      <4>. QED BY <1>7, <2>2, <2>3, <2>4, <3>2, <4>2
    <3>. QED BY <3>1, <3>2
  <2>. QED BY <2>2, <2>3, <2>4 DEF d
<1>. QED BY <1>8 DEF Shown, a, l

\* Whatever is open in a line was opened in it.
LEMMA OpenInLine ==
  ASSUME Placed(program), NEW i \in Nodes, line \in Nat \ {0}, InnermostIn(program, line - 1) = 0, line <= i,
         program[i].in # 0
  PROVE  line <= program[i].in
<1> DEFINE u == program[i].in
<1>1. i \in Nat /\ i - 1 \in Nat /\ line - 1 \in Nat /\ line - 1 <= i - 1
  BY DEF Nodes
<1>2. u = InnermostIn(program, i - 1)
  BY InnermostAt
<1>3. u \in OpenIn(program, i - 1) /\ u \in 1 .. i - 1
  <2>1. u \in OpenIn(program, i - 1)
    BY <1>1, <1>2, InnermostIsIn
  <2>. QED BY <2>1 DEF OpenIn
<1> HIDE DEF u
<1>4. ASSUME u <= line - 1
      PROVE  FALSE
  <2>1. u \in 1 .. line - 1 /\ \A j \in 1 .. line - 1 : j \in 1 .. i - 1
    BY <1>1, <1>3, <1>4
  <2>2. u \in OpenIn(program, line - 1)
    BY <1>3, <2>1 DEF OpenIn
  <2>3. u <= InnermostIn(program, line - 1)
    BY <1>1, <2>2, InnermostIsIn
  <2>. QED BY <1>3, <2>3
<1>. QED BY <1>1, <1>3, <1>4 DEF u

LEMMA NameTakenIs ==
  ASSUME Placed(program), NEW i \in Nodes, line \in Nat \ {0}, InnermostIn(program, line - 1) = 0, line <= i,
         program[i].in # 0, IsDeclaration(i)
  PROVE  program[i].name \in NamesIn(program[i].in, i - 1) <=> NameTaken(i)
<1> DEFINE u == program[i].in
           name == program[i].name
<1>1. u \in Nodes /\ i \in Nat /\ u \in Nat /\ line <= u
  BY InIsBefore, OpenInLine DEF Nodes
<1>2. FirstParams(u, Params(u)) = ToSet(program[u].params)
  BY <1>1, RepeatsIs
<1>3. ASSUME NEW j \in DeclaredIn(u), j <= i - 1
      PROVE  j \in line .. i - 1
  <2>1. j \in Nodes /\ program[j].in = u
    BY <1>3 DEF DeclaredIn
  <2>2. u \in 0 .. j - 1 /\ j \in Nat
    BY <2>1, InIsBefore
  <2>. QED BY <1>1, <1>3, <2>2
<1>4. \A j \in line .. i - 1 : j \in Nodes /\ j <= i - 1
  <2>1. Len(program) \in Nat /\ i \in 1 .. Len(program)
    BY DEF Placed, Nodes
  <2>. QED BY <2>1 DEF Nodes
<1>5. \A j : j \in DeclaredIn(u) <=> j \in Nodes /\ program[j].in = u /\ IsDeclaration(j)
  BY DEF DeclaredIn, IsDeclaration
<1>6. DeclaredBefore(i, name) <=> \E j \in line .. i - 1 : program[j].in = u /\ IsDeclaration(j) /\ program[j].name = name
  BY DEF DeclaredBefore, InScopeOf, IsDeclaration
<1>7. name \in NamesIn(u, i - 1) <=>
        name \in FirstParams(u, Params(u)) \/ \E j \in DeclaredIn(u) : j <= i - 1 /\ program[j].name = name
  BY DEF NamesIn
<1>8. NameTaken(i) <=> DeclaredBefore(i, name) \/ name \in ToSet(program[u].params)
  BY DEF NameTaken
<1> HIDE DEF u, name
<1>. QED BY <1>2, <1>3, <1>4, <1>5, <1>6, <1>7, <1>8 DEF u, name

-----------------------------------------------------------------------------
(* What one visit keeps *)

\* What is known of the resolver after n nodes, apart from its errors.
Tracks(r, n) == Contexts(r, n) /\ Shown(r, AroundAfter(n), n, Awaited(n))

\* The line begins with nothing open and nothing begun.
LineStarts == line \in Nat \ {0} /\ InnermostIn(program, line - 1) = 0 /\ Begun(program, line) = {}

\* The resolver has the static errors of the nodes before the one it is about to visit.
RefusesInv ==
  /\ Tracks(resolver, resolver.at - 1)
  /\ resolver.errs = UNION {{i} \X Errors(i) : i \in line .. resolver.at - 1}

Visits(q, i) == Tracks(q, i) /\ Reports(Moved, q, i, Errors(i))

\* A visit starts from r, the resolver moved to the next node.
Starts(r, i) ==
  /\ i \in Nodes /\ i \in Nat /\ Placed(program) /\ Grammatical(program, i) /\ program[i] \in NodeSet
  /\ IsResolver(r) /\ Contexts(r, i - 1)
  /\ Shown(r, AroundAfter(i - 1), i - 1, Awaited(i - 1)) /\ Len(r.scopes) = Len(AroundAfter(i - 1))

LEMMA StartsAre ==
  ASSUME TextIsPlaced, ResolverInv, RefusesInv, NEW i, i = resolver.at, i \in Nodes
  PROVE  Starts(Moved, i)
<1>1. /\ i \in Nat /\ Placed(program) /\ Grammatical(program, i) /\ program[i] \in NodeSet
      /\ IsResolver(Moved) /\ IsResolver(resolver) /\ Moved.scopes = resolver.scopes
      /\ Mirrors(Moved, AroundAfter(i - 1), i - 1)
  BY VisitStarts
<1>2. SameContexts(resolver, Moved)
  BY <1>1, MovedIs DEF SameContexts
<1>3. Contexts(Moved, i - 1)
  BY <1>2 DEF RefusesInv, Tracks, Contexts, SameContexts
<1>4. Shown(Moved, AroundAfter(i - 1), i - 1, Awaited(i - 1))
  BY <1>1 DEF RefusesInv, Tracks, Shown
<1>5. Len(Moved.scopes) = Len(AroundAfter(i - 1))
  BY <1>1 DEF Mirrors
<1>. QED BY <1>1, <1>3, <1>4, <1>5 DEF Starts

LEMMA AwaitedBy ==
  ASSUME TextIsPlaced, NEW i \in Nodes
  PROVE  /\ program[i].kind = "var" =>
              Awaited(i - 1) = {} /\ Awaited(i) = IF program[i].in # 0 /\ ~DeclaredTwice(i) THEN {program[i].name} ELSE {}
         /\ program[i].kind = "define" => Awaited(i - 1) \subseteq {program[i].name} /\ Awaited(i) = {}
         /\ program[i].kind = "class" \/ IsOpener(program[i]) \/ IsEnd(program[i]) => Awaited(i - 1) = {} /\ Awaited(i) = {}
         /\ program[i].kind \notin {"var", "define"} => Awaited(i) = Awaited(i - 1)
<1>1. \A n : BegunOf(n, "var") = {} => Awaited(n) = {}
  BY DEF Awaited
<1>2. ASSUME program[i].kind = "var"
      PROVE  Awaited(i - 1) = {} /\ Awaited(i) = IF program[i].in # 0 /\ ~DeclaredTwice(i) THEN {program[i].name} ELSE {}
  <2>1. BegunOf(i - 1, "var") = {} /\ BegunOf(i, "var") = {i}
    BY <1>2, BegunBy
  <2>. QED BY <1>1, <2>1 DEF Awaited
<1>3. ASSUME program[i].kind = "define"
      PROVE  Awaited(i - 1) \subseteq {program[i].name} /\ Awaited(i) = {}
  <2>1. BegunOf(i, "var") = {}
    BY <1>3, BegunBy
  <2>2. PICK v \in Nodes : BegunOf(i - 1, "var") = {v} /\ program[v].name = program[i].name
    BY <1>3, BegunBy
  <2>. QED BY <1>1, <2>1, <2>2 DEF Awaited
<1>4. ASSUME program[i].kind = "class" \/ IsOpener(program[i]) \/ IsEnd(program[i])
      PROVE  Awaited(i - 1) = {} /\ Awaited(i) = {}
  <2>1. BegunOf(i - 1, "var") = {} /\ BegunOf(i, "var") = {}
    BY <1>4, BegunBy
  <2>. QED BY <1>1, <2>1
<1>5. ASSUME program[i].kind \notin {"var", "define"}
      PROVE  Awaited(i) = Awaited(i - 1)
  <2>1. CASE program[i].kind \in {"class", "body"}
    <3>1. program[i].kind = "body" => IsOpener(program[i])
      BY DEF IsOpener, Openers
    <3>. QED BY <1>4, <2>1, <3>1
  <2>2. CASE program[i].kind \notin {"class", "body"}
    <3>1. BegunOf(i - 1, "var") = BegunOf(i, "var")
      BY <1>5, <2>2, BegunBy
    <3>. QED BY <3>1 DEF Awaited
  <2>. QED BY <2>1, <2>2
<1>. QED BY <1>2, <1>3, <1>4, <1>5

\* The innermost scope at node i.
LEMMA TopIs ==
  ASSUME NEW r, NEW i, Starts(r, i)
  PROVE  /\ r.scopes = <<>> <=> program[i].in = 0
         /\ program[i].in # 0 => /\ Undefined(InnermostScope(r)) = Awaited(i - 1)
                                 /\ IsDeclaration(i) => NamesOf(InnermostScope(r)) = NamesIn(program[i].in, i - 1)
<1> DEFINE a == AroundAfter(i - 1)
           u == program[i].in
<1>1. /\ a \in Seq(ScopeSet) /\ (Len(a) = 0 <=> u = 0)
      /\ u # 0 => a[1][1] = u /\ (a[1][2] = "block" <=> program[u].kind # "body")
  BY OuterBlocks DEF Starts
<1>2. r.scopes \in ScopesSet
  BY LikeIs DEF Starts, IsResolver
<1>3. r.scopes = <<>> <=> Len(r.scopes) = 0
  BY <1>2, ScopesAre
<1>4. Len(r.scopes) = Len(a) /\ Shown(r, a, i - 1, Awaited(i - 1))
  BY DEF Starts
<1>5. IsDeclaration(i) /\ u # 0 => program[u].kind # "body"
  BY DEF IsDeclaration, Grammatical, Starts
<1> HIDE DEF a, u
<1>6. ASSUME u # 0
      PROVE  /\ Undefined(InnermostScope(r)) = Awaited(i - 1)
             /\ IsDeclaration(i) => NamesOf(InnermostScope(r)) = NamesIn(u, i - 1)
  <2>1. 1 \in 1 .. Len(a) /\ Len(a) + 1 - 1 = Len(a)
    BY <1>1, <1>6
  <2>2. /\ a[1][2] = "block" => NamesOf(r.scopes[Len(a)]) = NamesIn(a[1][1], i - 1)
        /\ Undefined(r.scopes[Len(a)]) = Awaited(i - 1)
    BY <1>4, <2>1 DEF Shown
  <2>. QED BY <1>1, <1>4, <1>5, <1>6, <2>2 DEF InnermostScope
<1>. QED BY <1>1, <1>3, <1>4, <1>6 DEF u

\* After a visit that neither opens nor closes.
LEMMA ShownAfter ==
  ASSUME TextIsPlaced, NEW r, NEW i, Starts(r, i), ~IsOpener(program[i]), ~IsEnd(program[i]), NEW q, NEW w,
         Retold(r, q, IF IsDeclaration(i) THEN {program[i].name} ELSE {}, w),
         program[i].in # 0 => w = Awaited(i)
  PROVE  Shown(q, AroundAfter(i), i, Awaited(i))
<1>1. AroundAfter(i) = AroundAfter(i - 1)
  BY ScopesNext DEF Starts
<1>2. CASE program[i].in # 0
  <2>1. Shown(q, AroundAfter(i - 1), i, w)
    BY ShownLevel DEF Starts
  <2>. QED BY <1>1, <1>2, <2>1
<1>3. CASE program[i].in = 0
  <2>1. Len(AroundAfter(i - 1)) = 0
    BY <1>3, OuterBlocks DEF Starts
  <2>. QED BY <1>1, <2>1 DEF Shown
<1>. QED BY <1>2, <1>3

LEMMA RetoldByTelling ==
  ASSUME NEW r, IsResolver(r), NEW q, NEW name, NEW node, NEW w, Binds(r, q, name, node), Tells(r, q, name, node, w)
  PROVE  Retold(r, q, {name}, w)
<1> DEFINE l == Len(r.scopes)
<1>1. r.scopes \in ScopesSet
  BY LikeIs DEF IsResolver
<1>2. l \in Nat /\ (r.scopes = <<>> <=> l = 0)
  BY <1>1, ScopesAre
<1>3. Len(q.scopes) = l /\ \A d \in 1 .. l : d # l => q.scopes[d] = r.scopes[d]
  BY DEF Binds, OnlyInnermost
<1>4. l # 0 => NamesOf(q.scopes[l]) = NamesOf(r.scopes[l]) \cup {name} /\ Undefined(q.scopes[l]) = w
  BY <1>2, <1>3 DEF Tells, InnermostScope
<1>5. \A d \in 1 .. l : l # 0
  OBVIOUS
<1>. QED BY <1>3, <1>4, <1>5 DEF Retold

LEMMA ShownUnchanged ==
  ASSUME TextIsPlaced, NEW r, NEW i, Starts(r, i), ~IsOpener(program[i]), ~IsEnd(program[i]), ~IsDeclaration(i),
         program[i].kind # "define", NEW q, SameNames(r, q)
  PROVE  Shown(q, AroundAfter(i), i, Awaited(i))
<1>1. Awaited(i) = Awaited(i - 1)
  <2>1. program[i].kind \notin {"var", "define"}
    BY DEF IsDeclaration
  <2>. QED BY <2>1, AwaitedBy DEF Starts
<1>2. Retold(r, q, {}, Undefined(InnermostScope(r)))
  BY DEF Retold, SameNames, InnermostScope
<1>3. program[i].in # 0 => Undefined(InnermostScope(r)) = Awaited(i)
  BY <1>1, TopIs
<1>4. Retold(r, q, IF IsDeclaration(i) THEN {program[i].name} ELSE {}, Undefined(InnermostScope(r)))
  BY <1>2
<1>. QED BY <1>3, <1>4, ShownAfter

\* A declaration is reported if its name is taken.
LEMMA DeclarationReports ==
  ASSUME LineStarts, NEW r, NEW i, Starts(r, i), line <= i, IsDeclaration(i), NEW q, NEW w, Tells(r, q, program[i].name, i, w)
  PROVE  Reports(r, q, i, Only(NameTaken(i), "declared twice"))
<1>1. CASE program[i].in = 0
  <2>1. r.scopes = <<>>
    BY <1>1, TopIs
  <2>2. ~NameTaken(i)
    BY <1>1 DEF NameTaken
  <2>. QED BY <2>1, <2>2 DEF Tells, Only
<1>2. CASE program[i].in # 0
  <2>1. r.scopes # <<>> /\ NamesOf(InnermostScope(r)) = NamesIn(program[i].in, i - 1)
    BY <1>2, TopIs
  <2>2. program[i].name \in NamesIn(program[i].in, i - 1) <=> NameTaken(i)
    BY <1>2, NameTakenIs DEF Starts, LineStarts
  <2>. QED BY <2>1, <2>2 DEF Tells, Only
<1>. QED BY <1>1, <1>2

-----------------------------------------------------------------------------
(* What one visit reports *)

\* A variable is being initialized until its own define.
LEMMA BegunUntil ==
  ASSUME TextIsPlaced, NEW i \in Nodes, NEW j \in 1 .. i - 1, program[j].kind = "var",
         \A d \in j .. i : ~(program[d].kind = "define" /\ program[d].in = program[j].in)
  PROVE  j \in Begun(program, i)
<1> DEFINE D == {d \in j + 1 .. i - 1 : program[d].kind \in {"define", "body"}}
<1>1. Len(program) \in Nat /\ Placed(program) /\ Nodes = 1 .. Len(program) /\ i \in Nat
  BY DEF TextIsPlaced, Placed, Nodes
<1>2. SUFFICES ASSUME D # {}
               PROVE  FALSE
  BY DEF Begun
<1>3. D \subseteq Nat
  BY <1>1
<1> HIDE DEF D
<1>4. PICK d \in D : \A e \in D : d <= e
  BY <1>2, <1>3, LeastElement
<1>5. d \in j + 1 .. i - 1 /\ program[d].kind \in {"define", "body"}
  BY <1>4 DEF D
<1>6. d \in Nodes /\ d - 1 \in Nat /\ d - 1 <= Len(program) /\ (d - 1) + 1 = d /\ j \in 1 .. d - 1 /\ d \in j .. i
  BY <1>1, <1>5
<1>7. j \in Begun(program, d)
  <2>1. ASSUME NEW e \in j + 1 .. d - 1, program[e].kind \in {"define", "body"}
        PROVE  FALSE
    <3>1. e \in j + 1 .. i - 1 /\ e < d
      BY <1>1, <1>5
    <3>2. e \in D
      BY <2>1, <3>1 DEF D
    <3>. QED BY <1>1, <1>4, <1>5, <3>1, <3>2
  <2>. QED BY <1>6, <2>1 DEF Begun
<1>8. program[d].kind = "define"
  <2>1. Grammatical(program, d)
    BY <1>6 DEF TextIsPlaced
  <2>2. Continues(program, j, d)
    BY <1>7, <2>1 DEF Grammatical
  <2>. QED BY <1>5, <2>2 DEF Continues, Expressions
<1>9. program[d].in = program[j].in
  <2>1. BegunIn(program, d - 1)
    BY <1>6, BegunIs
  <2>2. program[j].in = InnermostIn(program, d - 1)
    BY <1>6, <1>7, <2>1 DEF BegunIn
  <2>. QED BY <1>1, <1>6, <2>2, InnermostAt
<1>. QED BY <1>6, <1>8, <1>9

\* A local's initializer reads the local.
LEMMA OwnInitializerIs ==
  ASSUME TextIsPlaced, LineStarts, NEW i \in Nodes, line <= i, program[i].kind = "variable", program[i].in # 0
  PROVE  OwnInitializer(i) <=> program[i].name \in Awaited(i - 1)
<1>1. Len(program) \in Nat /\ Placed(program) /\ Nodes = 1 .. Len(program) /\ i \in Nat /\ (i - 1) + 1 = i /\ i - 1 \in Nat
      /\ line \in Nat \ {0} /\ i - 1 <= Len(program)
  BY DEF TextIsPlaced, Placed, Nodes, LineStarts
<1>2. ASSUME NEW j \in BegunOf(i - 1, "var"), program[j].name = program[i].name, program[j].in # 0, ~DeclaredTwice(j)
      PROVE  OwnInitializer(i)
  <2>1. j \in Begun(program, i) /\ program[j].kind = "var"
    BY <1>1 DEF BegunOf
  <2>2. j \in 1 .. i - 1 /\ \A d \in j + 1 .. i - 1 : program[d].kind \notin {"define", "body"}
    BY <2>1 DEF Begun
  <2>3. program[j].in = program[i].in
    <3>1. BegunIn(program, i - 1)
      BY <1>1, BegunIs
    <3>2. program[j].in = InnermostIn(program, i - 1)
      BY <1>1, <2>1, <3>1 DEF BegunIn
    <3>. QED BY <1>1, <3>2, InnermostAt
  <2>4. line <= j
    <3> SUFFICES ASSUME ~(line <= j)
                 PROVE  FALSE
      OBVIOUS
    <3>1. j \in 1 .. line - 1 /\ \A d \in j + 1 .. line - 1 : d \in j + 1 .. i - 1
      BY <1>1, <2>2
    <3>2. j \in Begun(program, line)
      BY <2>1, <2>2, <3>1 DEF Begun
    <3>. QED BY <3>2 DEF LineStarts
  <2>5. j \in line .. i - 1
    BY <1>1, <2>2, <2>4
  <2>6. ASSUME NEW d \in j .. i
        PROVE  ~(program[d].kind = "define" /\ program[d].in = program[j].in)
    <3>1. d = j \/ d = i \/ d \in j + 1 .. i - 1
      BY <1>1, <2>2
    <3>. QED BY <2>1, <2>2, <3>1
  <2>. QED BY <1>2, <2>1, <2>3, <2>5, <2>6 DEF OwnInitializer, InScopeOf
<1>3. ASSUME OwnInitializer(i)
      PROVE  program[i].name \in Awaited(i - 1)
  <2>1. PICK j \in line .. i - 1 :
          /\ program[j].kind = "var" /\ program[j].name = program[i].name /\ InScopeOf(i, j) /\ ~DeclaredTwice(j)
          /\ \A d \in j .. i : ~(program[d].kind = "define" /\ program[d].in = program[j].in)
    BY <1>3 DEF OwnInitializer
  <2>2. j \in 1 .. i - 1
    BY <1>1
  <2>3. j \in Begun(program, i)
    BY <2>1, <2>2, BegunUntil
  <2>4. j \in BegunOf(i - 1, "var") /\ program[j].in # 0
    BY <1>1, <2>1, <2>3 DEF BegunOf, InScopeOf
  <2>. QED BY <2>1, <2>4 DEF Awaited
<1>4. program[i].name \in Awaited(i - 1) =>
        \E j \in BegunOf(i - 1, "var") : program[j].name = program[i].name /\ program[j].in # 0 /\ ~DeclaredTwice(j)
  BY DEF Awaited
<1>. QED BY <1>2, <1>3, <1>4

LEMMA OwnIs ==
  ASSUME TextIsPlaced, LineStarts, NEW r, NEW i, Starts(r, i), line <= i, program[i].kind = "variable"
  PROVE  (r.scopes # <<>> /\ \E b \in ToSet(Last(r.scopes)) : b.name = program[i].name /\ ~b.defined) <=> OwnInitializer(i)
<1> DEFINE top == InnermostScope(r)
           name == program[i].name
<1>1. r.scopes \in ScopesSet
  BY LikeIs DEF Starts, IsResolver
<1>2. r.scopes # <<>> => Last(r.scopes) = top /\ top \in Seq(BindingSet)
  <2>1. r.scopes # <<>> => Len(r.scopes) \in 1 .. Len(r.scopes)
    BY <1>1, ScopesAre
  <2>. QED BY <1>1, <2>1, ScopesAre DEF InnermostScope
<1>3. /\ r.scopes = <<>> <=> program[i].in = 0
      /\ program[i].in # 0 => Undefined(top) = Awaited(i - 1)
  BY TopIs
<1>4. program[i].in # 0 => (OwnInitializer(i) <=> name \in Awaited(i - 1))
  BY OwnInitializerIs DEF Starts
<1>5. program[i].in = 0 => ~OwnInitializer(i)
  BY DEF OwnInitializer, InScopeOf
<1> HIDE DEF top
<1>6. ASSUME r.scopes # <<>>
      PROVE  (\E b \in ToSet(Last(r.scopes)) : b.name = name /\ ~b.defined) <=> name \in Undefined(top)
  <2>1. Last(r.scopes) = top /\ DOMAIN top = 1 .. Len(top)
    BY <1>2, <1>6
  <2>2. ToSet(top) = {top[m] : m \in 1 .. Len(top)}
    BY <2>1 DEF ToSet
  <2>. QED BY <2>1, <2>2 DEF Undefined
<1>. QED BY <1>3, <1>4, <1>5, <1>6

\* A block has at first only its parameters.
LEMMA NamesInNew ==
  ASSUME Placed(program), NEW i \in Nodes
  PROVE  NamesIn(i, i) = FirstParams(i, Params(i))
<1>1. ASSUME NEW j \in DeclaredIn(i), j <= i
      PROVE  FALSE
  <2>1. j \in Nodes /\ program[j].in = i
    BY <1>1 DEF DeclaredIn
  <2>2. i \in 0 .. j - 1 /\ j \in Nat /\ i \in Nat
    BY <2>1, InIsBefore DEF Nodes
  <2>. QED BY <1>1, <2>2
<1>. QED BY <1>1 DEF NamesIn

\* What holds of every visit at its start.
Visit(i) ==
  TextIsPlaced /\ LineStarts /\ i = resolver.at /\ line <= i /\ Starts(Moved, i) /\ i \notin DOMAIN locals

LEMMA VisitIs ==
  ASSUME NEW i, Visit(i)
  PROVE  /\ i \in Nodes /\ i \in Nat /\ Placed(program) /\ Grammatical(program, i) /\ program[i] \in NodeSet
         /\ TextIsPlaced /\ LineStarts /\ i = resolver.at /\ line <= i /\ Starts(Moved, i) /\ i \notin DOMAIN locals
         /\ IsResolver(Moved) /\ Contexts(Moved, i - 1)
         /\ Shown(Moved, AroundAfter(i - 1), i - 1, Awaited(i - 1)) /\ Len(Moved.scopes) = Len(AroundAfter(i - 1))
BY DEF Visit, Starts

LEMMA SameNamesIs ==
  ASSUME NEW r, NEW q, q.scopes = r.scopes
  PROVE  SameNames(r, q)
BY DEF SameNames

LEMMA LevelVisits ==
  ASSUME NEW i, Visit(i), ~IsOpener(program[i]), ~IsEnd(program[i]), ~IsDeclaration(i), program[i].kind # "define",
         NEW q, SameNames(Moved, q), SameContexts(Moved, q), Reports(Moved, q, i, Errors(i))
  PROVE  Visits(q, i)
<1>1. Shown(q, AroundAfter(i), i, Awaited(i))
  BY VisitIs, ShownUnchanged
<1>2. Contexts(q, i)
  <2>1. program[i].kind # "class"
    BY DEF IsDeclaration
  <2>. QED BY <2>1, VisitIs, ContextsLevel
<1>. QED BY <1>1, <1>2 DEF Visits, Tracks

\* q has the scopes and the contexts of r, and maybe errors.
Plain(r, q) == IsResolver(q) /\ q.scopes = r.scopes /\ SameContexts(r, q)

LEMMA FailPlain ==
  ASSUME NEW r, IsResolver(r), NEW node \in Nat, NEW why \in Reasons
  PROVE  Plain(r, fail(r, node, why)) /\ Reports(r, fail(r, node, why), node, {why})
<1> DEFINE q == fail(r, node, why)
<1>1. q \in Like(r) /\ q.scopes = r.scopes /\ IsResolver(q)
  BY FailsIs
<1>2. Reports(r, q, node, {why})
  BY FailReports
<1> HIDE DEF q
<1>3. SameContexts(r, q)
  BY <1>1, LikeIs DEF SameContexts
<1>. QED BY <1>1, <1>2, <1>3 DEF Plain, q

LEMMA NotPlain ==
  ASSUME NEW r, IsResolver(r), NEW node
  PROVE  Plain(r, r) /\ Reports(r, r, node, {})
BY ReportsNothing DEF Plain, SameContexts

\* The enclosing function and class, unless a class is begun.
LEMMA ContextsHere ==
  ASSUME NEW i, Visit(i)
  PROVE  /\ Moved.currentFunction = FunctionIn(program[i].in) /\ Moved.currentFunction = resolver.currentFunction
         /\ Moved.currentClass = resolver.currentClass
         /\ program[i].kind \in {"return", "this", "super"} => Moved.currentClass = ClassIn(program[i].in)
<1> DEFINE m == InnermostIn(program, i - 1)
<1>1. m = program[i].in
  BY VisitIs, InnermostAt
<1>2. Contexts(Moved, i - 1)
  BY VisitIs
<1>3. program[i].kind \in {"return", "this", "super"} => BegunOf(i - 1, "class") = {}
  <2>1. Grammatical(program, i) /\ (i - 1) + 1 = i
    BY VisitIs
  <2>2. \A j \in Begun(program, i) : Continues(program, j, i)
    BY <2>1 DEF Grammatical
  <2>3. ASSUME program[i].kind \in {"return", "this", "super"}, NEW j \in Begun(program, i), program[j].kind = "class"
        PROVE  FALSE
    BY <2>2, <2>3 DEF Continues
  <2>. QED BY <2>1, <2>3 DEF BegunOf
<1>4. Moved.currentFunction = resolver.currentFunction /\ Moved.currentClass = resolver.currentClass
  BY DEF Moved
<1>. QED BY <1>1, <1>2, <1>3, <1>4 DEF Contexts

LEMMA OtherVisits ==
  ASSUME Visit(resolver.at), VisitOther
  PROVE  Visits(resolver', resolver.at)
<1> DEFINE i == resolver.at
<1>1. program[i].kind \in Unbound /\ resolver' = Moved
  BY DEF VisitOther, Visiting, Here, Visited
<1>2. /\ ~IsOpener(program[i]) /\ ~IsEnd(program[i]) /\ ~IsDeclaration(i) /\ program[i].kind # "define"
      /\ program[i].kind \notin {"var", "fun", "class", "method", "variable", "return", "this", "super"}
  BY <1>1 DEF IsDeclaration, IsOpener, IsEnd, Unbound, Openers
<1>3. Errors(i) = {}
  BY <1>2, VisitIs, ErrorsOfKind
<1>4. Plain(Moved, resolver') /\ Reports(Moved, resolver', i, Errors(i))
  BY <1>1, <1>3, VisitIs, NotPlain
<1>5. SameNames(Moved, resolver') /\ SameContexts(Moved, resolver')
  BY <1>4, SameNamesIs DEF Plain
<1> HIDE DEF i
<1>. QED BY <1>2, <1>4, <1>5, LevelVisits DEF i

LEMMA ReturnVisits ==
  ASSUME Visit(resolver.at), VisitReturnStmt
  PROVE  Visits(resolver', resolver.at)
<1> DEFINE i == resolver.at
           f == FunctionIn(program[i].in)
<1>1. /\ program[i].kind = "return"
      /\ resolver' = IF resolver.currentFunction = "none" THEN fail(Moved, i, "top-level return")
                     ELSE IF resolver.currentFunction = "initializer" /\ program[i].n = 1 THEN fail(Moved, i, "value from init")
                     ELSE Moved
  BY DEF VisitReturnStmt, Visiting, Here, Visited
<1>2. ~IsOpener(program[i]) /\ ~IsEnd(program[i]) /\ ~IsDeclaration(i) /\ program[i].kind # "define"
  BY <1>1 DEF IsDeclaration, IsOpener, IsEnd, Openers
<1>3. resolver.currentFunction = f
  BY ContextsHere
<1>4. Errors(i) = IF f = "none" THEN {"top-level return"} ELSE Only(f = "initializer" /\ program[i].n = 1, "value from init")
  <2>1. Errors(i) = ContextErrors(i)
    BY <1>1, VisitIs, ErrorsOfKind
  <2>. QED BY <1>1, <2>1, VisitIs, ContextErrorsAre
<1> HIDE DEF f
<1>5. Plain(Moved, resolver') /\ Reports(Moved, resolver', i, Errors(i))
  <2>1. "top-level return" \in Reasons /\ "value from init" \in Reasons
    BY DEF Reasons
  <2>2. IsResolver(Moved) /\ i \in Nat
    BY VisitIs
  <2> HIDE DEF i
  <2>3. CASE f = "none"
    BY <1>1, <1>3, <1>4, <2>1, <2>2, <2>3, FailPlain
  <2>4. CASE f # "none" /\ f = "initializer" /\ program[i].n = 1
    BY <1>1, <1>3, <1>4, <2>1, <2>2, <2>4, FailPlain DEF Only
  <2>5. CASE f # "none" /\ ~(f = "initializer" /\ program[i].n = 1)
    BY <1>1, <1>3, <1>4, <2>2, <2>5, NotPlain DEF Only
  <2>. QED BY <2>3, <2>4, <2>5
<1>6. SameNames(Moved, resolver') /\ SameContexts(Moved, resolver')
  BY <1>5, SameNamesIs DEF Plain
<1> HIDE DEF i
<1>. QED BY <1>2, <1>5, <1>6, LevelVisits DEF i

\* A use that is looked up.
LEMMA UseVisits ==
  ASSUME NEW i, Visit(i), program[i].kind \in Uses, NEW r, Plain(Moved, r), Reports(Moved, r, i, Errors(i)), NEW name,
         NEW read \in BOOLEAN, resolveLocal(r, name, read)
  PROVE  Visits(resolver', i)
<1>1. ~IsOpener(program[i]) /\ ~IsEnd(program[i]) /\ ~IsDeclaration(i) /\ program[i].kind # "define"
  BY DEF IsDeclaration, IsOpener, IsEnd, Uses, Openers
<1>2. IsResolver(r) /\ resolver.at \notin DOMAIN locals
  BY VisitIs DEF Plain
<1>3. resolver' \in Like(r) /\ SameNames(r, resolver') /\ resolver'.errs = r.errs
  BY <1>2, ResolveLocalIs
<1>4. SameContexts(Moved, resolver')
  BY <1>2, <1>3, LikeIs DEF Plain, SameContexts
<1>5. SameNames(Moved, resolver')
  BY <1>3 DEF Plain, SameNames
<1>6. Reports(Moved, resolver', i, Errors(i))
  BY <1>3 DEF Reports
<1>. QED BY <1>1, <1>4, <1>5, <1>6, LevelVisits

\* One that is not.
LEMMA MisuseVisits ==
  ASSUME NEW i, Visit(i), program[i].kind \in Uses, NEW why \in Reasons, Errors(i) = {why}, Visited(fail(Moved, i, why))
  PROVE  Visits(resolver', i)
<1>1. ~IsOpener(program[i]) /\ ~IsEnd(program[i]) /\ ~IsDeclaration(i) /\ program[i].kind # "define"
  BY DEF IsDeclaration, IsOpener, IsEnd, Uses, Openers
<1>2. resolver' = fail(Moved, i, why)
  BY DEF Visited
<1>3. Plain(Moved, resolver') /\ Reports(Moved, resolver', i, Errors(i))
  BY <1>2, VisitIs, FailPlain
<1>4. SameNames(Moved, resolver') /\ SameContexts(Moved, resolver')
  BY <1>3, SameNamesIs DEF Plain
<1>. QED BY <1>1, <1>3, <1>4, LevelVisits

LEMMA VariableVisits ==
  ASSUME Visit(resolver.at), VisitVariableExpr
  PROVE  Visits(resolver', resolver.at)
<1> DEFINE i == resolver.at
           own == resolver.scopes # <<>> /\ \E b \in ToSet(Last(resolver.scopes)) : b.name = program[i].name /\ ~b.defined
           r == IF own THEN fail(Moved, i, "own initializer") ELSE Moved
<1>1. program[i].kind = "variable" /\ program[i].kind \in Uses /\ resolveLocal(r, program[i].name, TRUE)
  BY DEF VisitVariableExpr, Visiting, Here, Uses
<1>2. own <=> OwnInitializer(i)
  <2>1. Moved.scopes = resolver.scopes
    BY DEF Moved
  <2> HIDE DEF i
  <2>. QED BY <1>1, <2>1, VisitIs, OwnIs DEF i
<1> HIDE DEF own
<1>3. Errors(i) = Only(OwnInitializer(i), "own initializer")
  BY <1>1, VisitIs, ErrorsOfKind
<1>4. Plain(Moved, r) /\ Reports(Moved, r, i, Errors(i))
  <2>1. "own initializer" \in Reasons
    BY DEF Reasons
  <2>2. IsResolver(Moved) /\ i \in Nat
    BY VisitIs
  <2> HIDE DEF i
  <2>3. CASE own
    BY <1>2, <1>3, <2>1, <2>2, <2>3, FailPlain DEF Only
  <2>4. CASE ~own
    BY <1>2, <1>3, <2>2, <2>4, NotPlain DEF Only
  <2>. QED BY <2>3, <2>4
<1> HIDE DEF r
<1>. QED BY <1>1, <1>4, UseVisits

LEMMA AssignVisits ==
  ASSUME Visit(resolver.at), VisitAssignExpr
  PROVE  Visits(resolver', resolver.at)
<1> DEFINE i == resolver.at
<1>1. program[i].kind = "assign" /\ program[i].kind \in Uses /\ resolveLocal(Moved, program[i].name, FALSE)
  BY DEF VisitAssignExpr, Visiting, Here, Uses
<1>2. Errors(i) = {}
  BY <1>1, VisitIs, ErrorsOfKind
<1>3. Plain(Moved, Moved) /\ Reports(Moved, Moved, i, Errors(i))
  BY <1>2, VisitIs, NotPlain
<1>. QED BY <1>1, <1>3, UseVisits

LEMMA ThisVisits ==
  ASSUME Visit(resolver.at), VisitThisExpr
  PROVE  Visits(resolver', resolver.at)
<1> DEFINE i == resolver.at
           c == ClassIn(program[i].in)
<1>1. /\ program[i].kind = "this" /\ program[i].kind \in Uses
      /\ (IF resolver.currentClass = "none" THEN Visited(fail(Moved, i, "this outside")) ELSE resolveLocal(Moved, "this", TRUE))
  BY DEF VisitThisExpr, Visiting, Here, Uses
<1>2. resolver.currentClass = c
  BY <1>1, ContextsHere
<1>3. Errors(i) = Only(c = "none", "this outside")
  <2>1. Errors(i) = ContextErrors(i)
    BY <1>1, VisitIs, ErrorsOfKind
  <2>. QED BY <1>1, <2>1, VisitIs, ContextErrorsAre
<1> HIDE DEF c
<1>4. CASE c = "none"
  <2>1. "this outside" \in Reasons /\ Errors(i) = {"this outside"}
    BY <1>3, <1>4 DEF Reasons, Only
  <2>. QED BY <1>1, <1>2, <1>4, <2>1, MisuseVisits
<1>5. CASE c # "none"
  <2>1. Errors(i) = {}
    BY <1>3, <1>5 DEF Only
  <2>2. Plain(Moved, Moved) /\ Reports(Moved, Moved, i, Errors(i))
    BY <2>1, VisitIs, NotPlain
  <2>. QED BY <1>1, <1>2, <1>5, <2>2, UseVisits
<1>. QED BY <1>4, <1>5

LEMMA SuperVisits ==
  ASSUME Visit(resolver.at), VisitSuperExpr
  PROVE  Visits(resolver', resolver.at)
<1> DEFINE i == resolver.at
           c == ClassIn(program[i].in)
<1>1. /\ program[i].kind = "super" /\ program[i].kind \in Uses
      /\ resolver.currentClass = "none" => Visited(fail(Moved, i, "super outside"))
      /\ resolver.currentClass = "class" => Visited(fail(Moved, i, "no superclass"))
      /\ resolver.currentClass \notin {"none", "class"} => resolveLocal(Moved, "super", TRUE)
  BY DEF VisitSuperExpr, Visiting, Here, Uses
<1>2. resolver.currentClass = c
  BY <1>1, ContextsHere
<1>3. Errors(i) = IF c = "none" THEN {"super outside"} ELSE Only(c = "class", "no superclass")
  <2>1. Errors(i) = ContextErrors(i)
    BY <1>1, VisitIs, ErrorsOfKind
  <2>2. Placed(program) /\ i \in Nodes /\ program[i].kind = "super"
    BY <1>1, VisitIs
  <2> HIDE DEF i
  <2>3. ContextErrors(i) = IF c = "none" THEN {"super outside"} ELSE Only(c = "class", "no superclass")
    BY <2>2, ContextErrorsAre
  <2>. QED BY <2>1, <2>3
<1> HIDE DEF c
<1>4. CASE c = "none"
  <2>1. "super outside" \in Reasons /\ Errors(i) = {"super outside"}
    BY <1>3, <1>4 DEF Reasons, Only
  <2>. QED BY <1>1, <1>2, <1>4, <2>1, MisuseVisits
<1>5. CASE c = "class"
  <2>1. "no superclass" \in Reasons /\ Errors(i) = {"no superclass"}
    BY <1>3, <1>5 DEF Reasons, Only
  <2>. QED BY <1>1, <1>2, <1>5, <2>1, MisuseVisits
<1>6. CASE c \notin {"none", "class"}
  <2>1. Errors(i) = {}
    BY <1>3, <1>6 DEF Only
  <2>2. Plain(Moved, Moved) /\ Reports(Moved, Moved, i, Errors(i))
    BY <2>1, VisitIs, NotPlain
  <2>. QED BY <1>1, <1>2, <1>6, <2>2, UseVisits
<1>. QED BY <1>4, <1>5, <1>6

LEMMA VarVisits ==
  ASSUME Visit(resolver.at), Visiting({"var"}), Visited(declare(Moved, Here.name, "variable", resolver.at))
  PROVE  Visits(resolver', resolver.at)
<1> DEFINE i == resolver.at
           name == program[i].name
           q == declare(Moved, name, "variable", i)
           b == InnermostScope(Moved)
           w == IF name \in NamesOf(b) THEN Undefined(b) ELSE Undefined(b) \cup {name}
<1>1. program[i].kind = "var" /\ resolver' = q
  BY DEF Visiting, Here, Visited
<1>2. ~IsOpener(program[i]) /\ ~IsEnd(program[i]) /\ IsDeclaration(i) /\ program[i].kind \notin Functions
  BY <1>1 DEF IsDeclaration, IsOpener, IsEnd, Openers, Functions
<1>3. i \in Nodes /\ i \in Nat /\ name \in NameSet /\ IsResolver(Moved) /\ Placed(program) /\ Grammatical(program, i)
      /\ TextIsPlaced /\ LineStarts /\ Starts(Moved, i) /\ line <= i
  <2>1. program[i] \in NodeSet
    BY VisitIs
  <2>. QED BY <2>1, VisitIs DEF NodeSet, NameSet
<1> HIDE DEF i, name
<1>4. q \in Like(Moved) /\ Binds(Moved, q, name, i)
  BY <1>3, DeclareIs
<1>5. Tells(Moved, q, name, i, w)
  BY <1>3, DeclareTells
<1> HIDE DEF q, w
<1>6. Retold(Moved, q, {name}, w)
  BY <1>3, <1>4, <1>5, RetoldByTelling
<1>7. DeclaredTwice(i) <=> NameTaken(i)
  BY <1>2, <1>3, DeclaredTwiceIs
<1>8. program[i].in # 0 => w = Awaited(i)
  <2> SUFFICES ASSUME program[i].in # 0
               PROVE  w = Awaited(i)
    OBVIOUS
  <2>1. Undefined(b) = Awaited(i - 1) /\ NamesOf(b) = NamesIn(program[i].in, i - 1)
    BY <1>2, <1>3, TopIs
  <2>2. Awaited(i - 1) = {} /\ Awaited(i) = IF ~DeclaredTwice(i) THEN {name} ELSE {}
    BY <1>1, <1>3, AwaitedBy DEF name, i
  <2>3. name \in NamesIn(program[i].in, i - 1) <=> NameTaken(i)
    BY <1>2, <1>3, NameTakenIs DEF LineStarts, name
  <2> HIDE DEF b
  <2>. QED BY <1>7, <2>1, <2>2, <2>3 DEF w
<1>9. Retold(Moved, q, IF IsDeclaration(i) THEN {program[i].name} ELSE {}, w)
  BY <1>2, <1>6 DEF name
<1>10. Shown(q, AroundAfter(i), i, Awaited(i))
  BY <1>2, <1>3, <1>8, <1>9, ShownAfter
<1>11. Reports(Moved, q, i, Errors(i))
  <2>1. Reports(Moved, q, i, Only(NameTaken(i), "declared twice"))
    BY <1>2, <1>3, <1>5, DeclarationReports DEF name
  <2>2. Errors(i) = Only(DeclaredTwice(i), "declared twice")
    BY <1>1, <1>3, ErrorsOfKind DEF i
  <2>3. Errors(i) = Only(NameTaken(i), "declared twice")
    BY <1>7, <2>2 DEF Only
  <2>. QED BY <2>1, <2>3
<1>12. Contexts(q, i)
  <2>1. SameContexts(Moved, q)
    BY <1>3, <1>4, LikeIs DEF SameContexts
  <2>2. Contexts(Moved, i - 1) /\ program[i].kind # "class"
    BY <1>1, <1>3 DEF Starts, i
  <2>. QED BY <1>2, <1>3, <2>1, <2>2, ContextsLevel
<1>. QED BY <1>1, <1>10, <1>11, <1>12 DEF Visits, Tracks, i, q, name

LEMMA DefineVisits ==
  ASSUME Visit(resolver.at), Visiting({"define"}), Visited(define(Moved, Here.name))
  PROVE  Visits(resolver', resolver.at)
<1> DEFINE i == resolver.at
           name == program[i].name
           q == define(Moved, name)
           w == Undefined(InnermostScope(Moved)) \ {name}
<1>1. program[i].kind = "define" /\ resolver' = q
  BY DEF Visiting, Here, Visited
<1>2. ~IsOpener(program[i]) /\ ~IsEnd(program[i]) /\ ~IsDeclaration(i) /\ program[i].kind # "class"
  BY <1>1 DEF IsDeclaration, IsOpener, IsEnd, Openers
<1>3. i \in Nodes /\ i \in Nat /\ IsResolver(Moved) /\ Placed(program) /\ Grammatical(program, i)
      /\ TextIsPlaced /\ Starts(Moved, i) /\ Contexts(Moved, i - 1)
  BY VisitIs
<1>4. Errors(i) = {}
  BY <1>1, <1>3, ErrorsOfKind
<1>5. program[i].in # 0 => w = Awaited(i)
  <2> SUFFICES ASSUME program[i].in # 0
               PROVE  w = Awaited(i)
    OBVIOUS
  <2>1. Undefined(InnermostScope(Moved)) = Awaited(i - 1)
    BY <1>3, TopIs
  <2>2. Awaited(i - 1) \subseteq {name} /\ Awaited(i) = {}
    BY <1>1, <1>3, AwaitedBy
  <2>. QED BY <2>1, <2>2
<1> HIDE DEF i, name
<1>6. q \in Like(Moved) /\ OnlyInnermost(Moved.scopes, q.scopes)
  BY <1>3, DefineIs
<1>7. /\ q.errs = Moved.errs
      /\ Moved.scopes # <<>> => /\ NamesOf(InnermostScope(q)) = NamesOf(InnermostScope(Moved))
                                /\ Undefined(InnermostScope(q)) = w
  BY <1>3, DefineTells
<1> HIDE DEF q, w
<1>8. Retold(Moved, q, {}, w)
  <2> DEFINE l == Len(Moved.scopes)
  <2>1. Moved.scopes \in ScopesSet
    BY <1>3, LikeIs DEF IsResolver
  <2>2. l \in Nat /\ (Moved.scopes = <<>> <=> l = 0)
    BY <2>1, ScopesAre
  <2>3. Len(q.scopes) = l /\ \A d \in 1 .. l : d # l => q.scopes[d] = Moved.scopes[d]
    BY <1>6 DEF OnlyInnermost
  <2>4. l # 0 => NamesOf(q.scopes[l]) = NamesOf(Moved.scopes[l]) /\ Undefined(q.scopes[l]) = w
    BY <1>7, <2>2, <2>3 DEF InnermostScope
  <2> HIDE DEF l
  <2>5. \A d \in 1 .. l : l # 0
    BY <2>2
  <2>. QED BY <2>3, <2>4, <2>5 DEF Retold, l
<1>9. Retold(Moved, q, IF IsDeclaration(i) THEN {program[i].name} ELSE {}, w)
  BY <1>2, <1>8
<1>10. Shown(q, AroundAfter(i), i, Awaited(i))
  BY <1>2, <1>3, <1>5, <1>9, ShownAfter
<1>11. Reports(Moved, q, i, Errors(i))
  BY <1>4, <1>7, ReportsNothing
<1>12. Contexts(q, i)
  <2>1. SameContexts(Moved, q)
    BY <1>3, <1>6, LikeIs DEF SameContexts
  <2>. QED BY <1>2, <1>3, <2>1, ContextsLevel
<1>. QED BY <1>1, <1>10, <1>11, <1>12 DEF Visits, Tracks, i, q, name

\* The name of a function or a class is bound and defined at once.
LEMMA IntroducedIs ==
  ASSUME NEW i, Visit(i), program[i].kind \in {"fun", "class"}, NEW q, q = introduce(Moved, program[i].name, "variable", i)
  PROVE  /\ IsResolver(q) /\ q \in Like(Moved) /\ SameContexts(Moved, q) /\ Len(q.scopes) = Len(AroundAfter(i - 1))
         /\ Reports(Moved, q, i, Only(NameTaken(i), "declared twice"))
         /\ Shown(q, AroundAfter(i - 1), i, {})
<1> DEFINE name == program[i].name
           w == Undefined(InnermostScope(Moved)) \ {name}
<1>1. i \in Nodes /\ i \in Nat /\ name \in NameSet /\ IsResolver(Moved) /\ Placed(program)
      /\ TextIsPlaced /\ LineStarts /\ Starts(Moved, i) /\ line <= i
  <2>1. program[i] \in NodeSet
    BY VisitIs
  <2>. QED BY <2>1, VisitIs DEF NodeSet, NameSet
<1>2. IsDeclaration(i) /\ (program[i].kind = "class" \/ IsOpener(program[i]))
  BY DEF IsDeclaration, IsOpener, Openers
<1>3. q = introduce(Moved, name, "variable", i)
  OBVIOUS
<1>4. program[i].in # 0 => w = {}
  <2> SUFFICES ASSUME program[i].in # 0
               PROVE  w = {}
    OBVIOUS
  <2>1. Undefined(InnermostScope(Moved)) = Awaited(i - 1)
    BY <1>1, TopIs
  <2>2. Awaited(i - 1) = {}
    BY <1>1, <1>2, AwaitedBy
  <2>. QED BY <2>1, <2>2
<1> HIDE DEF name
<1>5. q \in Like(Moved) /\ Binds(Moved, q, name, i)
  BY <1>1, <1>3, IntroduceIs
<1>6. Tells(Moved, q, name, i, w)
  BY <1>1, <1>3, IntroduceTells
<1> HIDE DEF w
<1>7. Retold(Moved, q, {name}, w)
  BY <1>1, <1>5, <1>6, RetoldByTelling
<1>8. IsResolver(q) /\ SameContexts(Moved, q)
  BY <1>1, <1>5, LikeIs DEF SameContexts
<1>9. Len(q.scopes) = Len(AroundAfter(i - 1))
  BY <1>1, <1>7 DEF Retold, Starts
<1>10. Reports(Moved, q, i, Only(NameTaken(i), "declared twice"))
  BY <1>1, <1>2, <1>6, DeclarationReports DEF name
<1>11. Shown(q, AroundAfter(i - 1), i, {})
  <2>1. Retold(Moved, q, IF IsDeclaration(i) THEN {program[i].name} ELSE {}, w)
    BY <1>2, <1>7 DEF name
  <2>2. Shown(q, AroundAfter(i - 1), i, w)
    BY <1>1, <2>1, ShownLevel DEF Starts
  <2>3. CASE program[i].in # 0
    BY <1>4, <2>2, <2>3
  <2>4. CASE program[i].in = 0
    <3>1. Len(AroundAfter(i - 1)) = 0
      BY <1>1, <2>4, OuterBlocks
    <3>. QED BY <3>1 DEF Shown
  <2>. QED BY <2>3, <2>4
<1>. QED BY <1>5, <1>8, <1>9, <1>10, <1>11

LEMMA ClassNameVisits ==
  ASSUME Visit(resolver.at), ClassName
  PROVE  Visits(resolver', resolver.at)
<1> DEFINE i == resolver.at
           name == program[i].name
           bound == introduce(Moved, name, "variable", i)
           checked == IF program[i].super = name THEN fail(bound, i, "inherits itself") ELSE bound
           q == [checked EXCEPT !.enclosing = Append(@, resolver.currentClass),
                                !.currentClass = IF program[i].super = "" THEN "class" ELSE "subclass"]
<1>1. program[i].kind = "class" /\ resolver' = q
  BY DEF ClassName, Visiting, Here, Visited
<1>2. ~IsOpener(program[i]) /\ ~IsEnd(program[i]) /\ IsDeclaration(i) /\ program[i].kind \notin Functions
  BY <1>1 DEF IsDeclaration, IsOpener, IsEnd, Openers, Functions
<1>3. i \in Nodes /\ i \in Nat /\ IsResolver(Moved) /\ Placed(program) /\ Grammatical(program, i)
      /\ TextIsPlaced /\ Contexts(Moved, i - 1)
  BY VisitIs
<1>4. /\ IsResolver(bound) /\ SameContexts(Moved, bound)
      /\ Reports(Moved, bound, i, Only(NameTaken(i), "declared twice"))
      /\ Shown(bound, AroundAfter(i - 1), i, {})
  BY <1>1, IntroducedIs
<1> HIDE DEF bound, i
<1>5. Plain(bound, checked) /\ Reports(bound, checked, i, Only(program[i].super = name, "inherits itself"))
  <2>1. "inherits itself" \in Reasons
    BY DEF Reasons
  <2>2. CASE program[i].super = name
    BY <1>3, <1>4, <2>1, <2>2, FailPlain DEF Only
  <2>3. CASE program[i].super # name
    BY <1>3, <1>4, <2>3, NotPlain DEF Only
  <2>. QED BY <2>2, <2>3
<1> HIDE DEF checked
<1>6. Moved.currentClass = resolver.currentClass
  BY DEF Moved
<1>7. /\ q.scopes = checked.scopes /\ q.errs = checked.errs /\ q.currentFunction = checked.currentFunction
      /\ q.enclosing = Append(checked.enclosing, resolver.currentClass)
      /\ q.currentClass = IF program[i].super = "" THEN "class" ELSE "subclass"
  <2>1. checked \in Like(checked)
    BY <1>5 DEF Plain, IsResolver
  <2>. QED BY <2>1 DEF Like
<1> HIDE DEF q
<1>8. Contexts(q, i)
  <2>1. q.currentFunction = Moved.currentFunction /\ q.enclosing = Append(Moved.enclosing, Moved.currentClass)
    BY <1>4, <1>5, <1>6, <1>7 DEF Plain, SameContexts
  <2>. QED BY <1>1, <1>3, <1>7, <2>1, ContextsClass DEF i
<1>9. Shown(q, AroundAfter(i), i, Awaited(i))
  <2>1. AroundAfter(i) = AroundAfter(i - 1)
    BY <1>2, <1>3, ScopesNext
  <2>2. Awaited(i) = {}
    BY <1>1, <1>3, AwaitedBy DEF i
  <2>3. q.scopes = bound.scopes
    BY <1>5, <1>7 DEF Plain
  <2>4. Shown(q, AroundAfter(i - 1), i, {})
    BY <1>4, <2>3 DEF Shown
  <2>. QED BY <2>1, <2>2, <2>4
<1>10. Reports(Moved, q, i, Errors(i))
  <2> DEFINE A == Only(NameTaken(i), "declared twice")
             B == Only(program[i].super = name, "inherits itself")
  <2>1. DeclaredTwice(i) <=> NameTaken(i)
    BY <1>2, <1>3, DeclaredTwiceIs
  <2>2. Errors(i) = Only(DeclaredTwice(i), "declared twice") \cup B
    BY <1>1, <1>3, ErrorsOfKind DEF i
  <2>3. Errors(i) = A \cup B
    BY <2>1, <2>2 DEF Only
  <2> HIDE DEF A, B
  <2>4. Reports(Moved, checked, i, A \cup B)
    BY <1>4, <1>5, ReportsBoth DEF A, B
  <2>. QED BY <1>7, <2>3, <2>4 DEF Reports
<1>. QED BY <1>1, <1>8, <1>9, <1>10 DEF Visits, Tracks, i, q, checked, bound

\* What opening one scope shows.
LEMMA BlockShown ==
  ASSUME TextIsPlaced, NEW i \in Nodes, IsOpener(program[i]), program[i].kind # "body", NEW p,
         Shown(p, AroundAfter(i - 1), i, {}), Len(p.scopes) = Len(AroundAfter(i - 1)), NEW q, Opens(p, q),
         NamesOf(q.scopes[Len(p.scopes) + 1]) = FirstParams(i, Params(i)), Undefined(q.scopes[Len(p.scopes) + 1]) = {}
  PROVE  Shown(q, AroundAfter(i), i, Awaited(i))
<1> DEFINE a == AroundAfter(i - 1)
           s == <<i, "block">>
<1>1. i \in Nat /\ i - 1 \in Nat /\ i - 1 <= Len(program) /\ Placed(program)
  BY DEF TextIsPlaced, Placed, Nodes
<1>2. AroundAfter(i) = <<s>> \o a
  BY <1>1, ScopesNext, ScopesOfAre
<1>3. a \in Seq(ScopeSet) /\ s \in ScopeSet
  BY <1>1, AroundAfterIs DEF ScopeSet
<1>4. NamesIn(i, i) = FirstParams(i, Params(i))
  BY <1>1, NamesInNew
<1>5. Awaited(i) = {}
  BY AwaitedBy
<1>6. s[1] = i
  OBVIOUS
<1>7. Shown(p, a, i, {}) /\ Len(p.scopes) = Len(a)
  OBVIOUS
<1> HIDE DEF s, a
<1>8. Pushed(a, s, <<s>> \o a)
  BY <1>3, PushedOne
<1> DEFINE b == <<s>> \o a
<1>9. AroundAfter(i) = b /\ Pushed(a, s, b)
  BY <1>2, <1>8
<1> HIDE DEF b
<1>10. Shown(q, b, i, {})
  BY <1>4, <1>6, <1>7, <1>9, ShownOpened
<1>. QED BY <1>5, <1>9, <1>10

\* At a scope that opens nothing is being initialized.
LEMMA ShownBefore ==
  ASSUME NEW i, Visit(i), IsOpener(program[i]) \/ IsEnd(program[i]), ~IsDeclaration(i), NEW q, q.scopes = Moved.scopes
  PROVE  Shown(q, AroundAfter(i - 1), i, {}) /\ Awaited(i) = {}
<1>1. Awaited(i - 1) = {} /\ Awaited(i) = {}
  BY VisitIs, AwaitedBy
<1>2. Retold(Moved, q, IF IsDeclaration(i) THEN {program[i].name} ELSE {}, Undefined(InnermostScope(Moved)))
  BY DEF Retold, InnermostScope
<1>3. Shown(q, AroundAfter(i - 1), i, Undefined(InnermostScope(Moved)))
  BY <1>2, VisitIs, ShownLevel
<1>4. CASE program[i].in # 0
  BY <1>1, <1>3, <1>4, VisitIs, TopIs
<1>5. CASE program[i].in = 0
  <2>1. Len(AroundAfter(i - 1)) = 0
    BY <1>5, VisitIs, OuterBlocks
  <2>. QED BY <1>1, <2>1 DEF Shown
<1>. QED BY <1>1, <1>4, <1>5

LEMMA BlockVisits ==
  ASSUME Visit(resolver.at), VisitBlockStmt
  PROVE  Visits(resolver', resolver.at)
<1> DEFINE i == resolver.at
           q == beginScope(Moved)
<1>1. program[i].kind \in {"block", "if", "while"} /\ resolver' = q
  BY DEF VisitBlockStmt, Visiting, Here, Visited
<1>2. /\ IsOpener(program[i]) /\ program[i].kind # "body" /\ ~IsDeclaration(i) /\ program[i].kind \notin Functions
      /\ program[i].kind \notin {"var", "fun", "class", "method", "variable", "return", "this", "super"}
  BY <1>1 DEF IsOpener, Openers, Functions, IsDeclaration
<1>3. i \in Nodes /\ i \in Nat /\ IsResolver(Moved) /\ Placed(program) /\ Grammatical(program, i) /\ TextIsPlaced
      /\ Len(Moved.scopes) = Len(AroundAfter(i - 1)) /\ Contexts(Moved, i - 1)
  BY VisitIs
<1>4. q \in Like(Moved) /\ Opens(Moved, q) /\ q.scopes[Len(Moved.scopes) + 1] = <<>> /\ q.errs = Moved.errs
  BY <1>3, BeginScopeIs
<1>5. Params(i) = 0
  BY <1>2, <1>3 DEF Grammatical, Params
<1>6. Errors(i) = {}
  BY <1>2, <1>3, ErrorsOfKind
<1>7. Shown(Moved, AroundAfter(i - 1), i, {})
  BY <1>2, ShownBefore
<1> HIDE DEF q, i
<1>8. Shown(q, AroundAfter(i), i, Awaited(i))
  <2>1. NamesOf(q.scopes[Len(Moved.scopes) + 1]) = FirstParams(i, Params(i)) /\ Undefined(q.scopes[Len(Moved.scopes) + 1]) = {}
    BY <1>4, <1>5, NoNames, NextParam
  <2>. QED BY <1>2, <1>3, <1>4, <1>7, <2>1, BlockShown
<1>9. Contexts(q, i)
  <2>1. SameContexts(Moved, q)
    BY <1>3, <1>4, LikeIs DEF SameContexts
  <2>. QED BY <1>2, <1>3, <2>1, ContextsOpened
<1>10. Reports(Moved, q, i, Errors(i))
  BY <1>4, <1>6, ReportsNothing
<1>. QED BY <1>1, <1>8, <1>9, <1>10 DEF Visits, Tracks, i, q

LEMMA FunctionTracks ==
  ASSUME TextIsPlaced, NEW i, i = resolver.at, i \in Nodes, program[i].kind \in Functions, NEW p, IsResolver(p),
         Contexts(p, i - 1), Shown(p, AroundAfter(i - 1), i, {}), Len(p.scopes) = Len(AroundAfter(i - 1)),
         NEW kind, kind = FunctionKind(i), NEW q, q = resolveFunction(p, kind)
  PROVE  Tracks(q, i) /\ Reports(p, q, i, Only(Repeats(i, Params(i)), "declared twice"))
<1>1. Placed(program)
  BY DEF TextIsPlaced
<1>2. /\ IsResolver(q) /\ Takes(p, q, i, Params(i))
      /\ q.currentFunction = kind /\ q.currentClass = p.currentClass /\ q.enclosing = Append(p.enclosing, p.currentFunction)
  BY <1>1, ResolveFunctionIs
<1>3. IsOpener(program[i]) /\ program[i].kind # "body"
  BY DEF IsOpener, Openers, Functions
<1>4. Shown(q, AroundAfter(i), i, Awaited(i))
  BY <1>2, <1>3, BlockShown DEF Takes
<1>5. Contexts(q, i)
  BY <1>2, <1>3, ContextsOpened
<1>. QED BY <1>2, <1>4, <1>5 DEF Tracks, Takes

LEMMA FunctionVisits ==
  ASSUME Visit(resolver.at), VisitFunctionStmt
  PROVE  Visits(resolver', resolver.at)
<1> DEFINE i == resolver.at
           name == program[i].name
           p == introduce(Moved, name, "variable", i)
           q == resolveFunction(p, "function")
           A == Only(NameTaken(i), "declared twice")
           B == Only(Repeats(i, Params(i)), "declared twice")
<1>1. program[i].kind = "fun" /\ program[i].kind \in Functions /\ resolver' = q
  BY DEF VisitFunctionStmt, Visiting, Here, Visited, Functions
<1>2. i \in Nodes /\ i \in Nat /\ IsResolver(Moved) /\ Placed(program) /\ Grammatical(program, i)
      /\ TextIsPlaced /\ Contexts(Moved, i - 1)
  BY VisitIs
<1>3. /\ IsResolver(p) /\ SameContexts(Moved, p) /\ Len(p.scopes) = Len(AroundAfter(i - 1))
      /\ Reports(Moved, p, i, A) /\ Shown(p, AroundAfter(i - 1), i, {})
  BY <1>1, IntroducedIs
<1>4. Contexts(p, i - 1)
  BY <1>2, <1>3 DEF Contexts, SameContexts
<1>5. FunctionKind(i) = "function"
  BY <1>1, <1>2, NoNodeZero DEF FunctionKind
<1>6. Tracks(q, i) /\ Reports(p, q, i, B)
  <2> HIDE DEF p, i, B
  <2>. QED BY <1>1, <1>2, <1>3, <1>4, <1>5, FunctionTracks DEF i, B
<1>7. Errors(i) = A \cup B
  <2>1. Errors(i) = Only(DeclaredTwice(i), "declared twice")
    BY <1>1, <1>2, ErrorsOfKind
  <2>2. DeclaredTwice(i) <=> NameTaken(i) \/ Repeats(i, Params(i))
    BY <1>2, DeclaredTwiceIs
  <2>. QED BY <2>1, <2>2 DEF Only
<1> HIDE DEF A, B, p, q
<1>8. Reports(Moved, q, i, Errors(i))
  BY <1>3, <1>6, <1>7, ReportsBoth
<1>. QED BY <1>1, <1>6, <1>8 DEF Visits

LEMMA MethodVisits ==
  ASSUME Visit(resolver.at), ClassMethod
  PROVE  Visits(resolver', resolver.at)
<1> DEFINE i == resolver.at
           initializer == program[i].name = "init" /\ ~program[i].onTheClass
           p == IF initializer /\ program[i].getter THEN fail(Moved, i, "init is a getter") ELSE Moved
           kind == IF initializer THEN "initializer" ELSE IF program[i].onTheClass THEN "classMethod" ELSE "method"
           q == resolveFunction(p, kind)
           A == Only(IsInitializer(i) /\ program[i].getter, "init is a getter")
           B == Only(Repeats(i, Params(i)), "declared twice")
<1>1. program[i].kind = "method" /\ program[i].kind \in Functions /\ resolver' = q
  BY DEF ClassMethod, Visiting, Here, Visited, Functions
<1>2. i \in Nodes /\ i \in Nat /\ i # 0 /\ IsResolver(Moved) /\ Placed(program) /\ Grammatical(program, i)
      /\ TextIsPlaced /\ Contexts(Moved, i - 1) /\ Len(Moved.scopes) = Len(AroundAfter(i - 1))
  BY VisitIs, NoNodeZero
<1>3. IsOpener(program[i]) /\ ~IsDeclaration(i)
  BY <1>1 DEF IsOpener, Openers, IsDeclaration
<1>4. IsInitializer(i) <=> initializer
  BY <1>1, <1>2 DEF IsInitializer
<1>5. kind = FunctionKind(i)
  BY <1>1, <1>2, <1>4 DEF FunctionKind
<1> HIDE DEF initializer, kind
<1>6. Plain(Moved, p) /\ Reports(Moved, p, i, A)
  <2>1. "init is a getter" \in Reasons
    BY DEF Reasons
  <2> HIDE DEF i
  <2>2. CASE initializer /\ program[i].getter
    BY <1>2, <1>4, <2>1, <2>2, FailPlain DEF Only
  <2>3. CASE ~(initializer /\ program[i].getter)
    BY <1>2, <1>4, <2>3, NotPlain DEF Only
  <2>. QED BY <2>2, <2>3
<1> HIDE DEF p
<1>7. Shown(p, AroundAfter(i - 1), i, {})
  BY <1>3, <1>6, ShownBefore DEF Plain
<1>8. Contexts(p, i - 1) /\ IsResolver(p) /\ Len(p.scopes) = Len(AroundAfter(i - 1))
  BY <1>2, <1>6 DEF Contexts, SameContexts, Plain
<1>9. Tracks(q, i) /\ Reports(p, q, i, B)
  <2> HIDE DEF i, B
  <2>. QED BY <1>1, <1>2, <1>5, <1>7, <1>8, FunctionTracks DEF i, B
<1>10. Errors(i) = A \cup B
  <2>1. Errors(i) = Only(DeclaredTwice(i), "declared twice") \cup A
    BY <1>1, <1>2, ErrorsOfKind
  <2>2. DeclaredTwice(i) <=> Repeats(i, Params(i))
    BY <1>2, <1>3, DeclaredTwiceIs DEF NameTaken
  <2>3. Only(DeclaredTwice(i), "declared twice") = B
    BY <2>2 DEF Only
  <2> HIDE DEF A, B
  <2>. QED BY <2>1, <2>3
<1> HIDE DEF A, B, q
<1>11. Reports(Moved, q, i, Errors(i))
  BY <1>6, <1>9, <1>10, ReportsBoth
<1>. QED BY <1>1, <1>9, <1>11 DEF Visits

\* The scope of "this" or "super" has that name, and never reports it.
LEMMA WordShown ==
  ASSUME NEW i \in Nat, NEW word \in {"this", "super"}, NEW r, IsResolver(r), NEW a, Shown(r, a, i, {}),
         Len(r.scopes) = Len(a), NEW s, s = <<i, word>>, NEW b, Pushed(a, s, b), NEW q,
         q = introduce(beginScope(r), word, word, i)
  PROVE  IsResolver(q) /\ q \in Like(r) /\ Shown(q, b, i, {}) /\ Len(q.scopes) = Len(b) /\ q.errs = r.errs
<1> DEFINE p == beginScope(r)
           h == Len(r.scopes) + 1
<1>1. p \in Like(r) /\ Opens(r, p) /\ p.scopes[h] = <<>> /\ p.errs = r.errs /\ p.scopes # <<>>
  BY BeginScopeIs
<1>2. q = introduce(p, word, word, i)
  OBVIOUS
<1> HIDE DEF p
<1>3. IsResolver(p) /\ Like(p) = Like(r)
  BY <1>1, LikeIs
<1>4. word \in NameSet /\ word \in {"variable", "parameter", "this", "super"}
  BY DEF NameSet
<1>5. q \in Like(p) /\ Binds(p, q, word, i)
  BY <1>2, <1>3, <1>4, IntroduceIs
<1>6. Tells(p, q, word, i, Undefined(InnermostScope(p)) \ {word})
  BY <1>2, <1>3, <1>4, IntroduceTells
<1>7. IsResolver(q) /\ q \in Like(r)
  BY <1>3, <1>5, LikeIs
<1>8. Len(r.scopes) \in Nat /\ Len(p.scopes) = h /\ Len(q.scopes) = h
  <2>1. r.scopes \in ScopesSet
    BY LikeIs DEF IsResolver
  <2>. QED BY <1>1, <1>5, <2>1, ScopesAre DEF Opens, Binds, OnlyInnermost
<1>9. Opens(r, q)
  <2>1. \A d \in 1 .. Len(r.scopes) : d \in 1 .. h /\ d # h
    BY <1>8
  <2>. QED BY <1>1, <1>5, <1>8, <2>1 DEF Binds, OnlyInnermost, Opens
<1>10. NamesOf(InnermostScope(p)) = {} /\ Undefined(InnermostScope(p)) = {} /\ InnermostScope(q) = q.scopes[h]
  BY <1>1, <1>8, NoNames DEF InnermostScope
<1>11. Undefined(q.scopes[h]) = {} /\ q.errs = r.errs
  <2>1. Undefined(InnermostScope(q)) = Undefined(InnermostScope(p)) \ {word}
        /\ Reports(p, q, i, Only(word \in NamesOf(InnermostScope(p)), "declared twice"))
    BY <1>1, <1>6 DEF Tells
  <2>2. Reports(p, q, i, {})
    BY <1>10, <2>1 DEF Only
  <2>3. {i} \X {} = {}
    OBVIOUS
  <2>. QED BY <1>1, <1>10, <2>1, <2>2, <2>3 DEF Reports
<1>12. Pushed(a, s, b) /\ s[2] # "block"
  OBVIOUS
<1>13. Shown(q, b, i, {})
  BY <1>9, <1>11, <1>12, ShownOpened
<1>14. Len(q.scopes) = Len(b)
  BY <1>8, <1>12 DEF Pushed
<1>. QED BY <1>7, <1>11, <1>13, <1>14

LEMMA BodyVisits ==
  ASSUME Visit(resolver.at), ClassBody
  PROVE  Visits(resolver', resolver.at)
<1> DEFINE i == resolver.at
           a == AroundAfter(i - 1)
           outer == IF program[i].super = "" THEN Moved ELSE introduce(beginScope(Moved), "super", "super", i)
           q == introduce(beginScope(outer), "this", "this", i)
           s == <<i, "this">>
           t == <<i, "super">>
<1>1. program[i].kind = "body" /\ resolver' = q
  BY DEF ClassBody, Visiting, Here, Visited
<1>2. /\ IsOpener(program[i]) /\ ~IsDeclaration(i) /\ program[i].kind \notin Functions
      /\ program[i].kind \notin {"var", "fun", "class", "method", "variable", "return", "this", "super"}
  BY <1>1 DEF IsOpener, Openers, IsDeclaration, Functions
<1>3. i \in Nodes /\ i \in Nat /\ IsResolver(Moved) /\ Placed(program) /\ Grammatical(program, i)
      /\ TextIsPlaced /\ Contexts(Moved, i - 1) /\ Len(Moved.scopes) = Len(a)
  BY VisitIs
<1>4. a \in Seq(ScopeSet) /\ AroundAfter(i) = ScopesOf(i) \o a
  <2>1. i - 1 \in Nat /\ i - 1 <= Len(program)
    BY <1>3 DEF Nodes, Placed
  <2>. QED BY <1>2, <1>3, <2>1, AroundAfterIs, ScopesNext
<1>5. s \in ScopeSet /\ t \in ScopeSet
  BY <1>3 DEF ScopeSet
<1>6. Shown(Moved, a, i, {}) /\ Awaited(i) = {}
  BY <1>2, ShownBefore
<1>7. Errors(i) = {}
  BY <1>2, <1>3, ErrorsOfKind
<1> HIDE DEF a
<1>8. q \in Like(Moved) /\ Shown(q, AroundAfter(i), i, {}) /\ q.errs = Moved.errs
  <2>1. CASE program[i].super = ""
    <3>1. q = introduce(beginScope(Moved), "this", "this", i)
      BY <2>1
    <3>2. AroundAfter(i) = <<s>> \o a
      BY <1>1, <1>3, <1>4, <2>1, ScopesOfAre DEF IsSubclass
    <3> HIDE DEF i, q, s, t, outer
    <3>3. Pushed(a, s, AroundAfter(i))
      BY <1>4, <1>5, <3>2, PushedOne
    <3>4. s = <<i, "this">>
      BY DEF s
    <3>. QED BY <1>3, <1>6, <3>1, <3>3, <3>4, WordShown
  <2>2. CASE program[i].super # ""
    <3> DEFINE b == <<t>> \o a
    <3>1. outer = introduce(beginScope(Moved), "super", "super", i) /\ q = introduce(beginScope(outer), "this", "this", i)
      BY <2>2
    <3>2. AroundAfter(i) = <<s, t>> \o a
      BY <1>1, <1>3, <1>4, <2>2, ScopesOfAre DEF IsSubclass
    <3> HIDE DEF i, q, s, t, outer
    <3>3. Pushed(a, t, b) /\ Pushed(b, s, AroundAfter(i))
      BY <1>4, <1>5, <3>2, PushedTwo
    <3> HIDE DEF b
    <3>4. s = <<i, "this">> /\ t = <<i, "super">>
      BY DEF s, t
    <3>5. IsResolver(outer) /\ outer \in Like(Moved) /\ Shown(outer, b, i, {}) /\ Len(outer.scopes) = Len(b)
          /\ outer.errs = Moved.errs
      BY <1>3, <1>6, <3>1, <3>3, <3>4, WordShown
    <3>6. q \in Like(outer) /\ Shown(q, AroundAfter(i), i, {}) /\ q.errs = outer.errs
      BY <1>3, <3>1, <3>3, <3>4, <3>5, WordShown
    <3>7. Like(outer) = Like(Moved)
      BY <1>3, <3>5, LikeIs
    <3>. QED BY <3>5, <3>6, <3>7
  <2>. QED BY <2>1, <2>2
<1> HIDE DEF q, i
<1>9. Contexts(q, i)
  <2>1. SameContexts(Moved, q)
    BY <1>3, <1>8, LikeIs DEF SameContexts
  <2>. QED BY <1>2, <1>3, <2>1, ContextsOpened
<1>10. Reports(Moved, q, i, Errors(i))
  BY <1>7, <1>8, ReportsNothing
<1>. QED BY <1>1, <1>6, <1>8, <1>9, <1>10 DEF Visits, Tracks, i, q

LEMMA ClosesShown ==
  ASSUME NEW r, IsResolver(r), NEW a, NEW b, NEW s, NEW n, Shown(r, b, n, {}), Len(r.scopes) = Len(b), Pushed(a, s, b),
         NEW q, q = endScope(r)
  PROVE  IsResolver(q) /\ q.errs = r.errs /\ Shown(q, a, n, {}) /\ Len(q.scopes) = Len(a) /\ SameContexts(r, q)
<1>1. r.scopes # <<>>
  BY DEF Pushed
<1>2. IsResolver(q) /\ Opens(q, r) /\ q.errs = r.errs /\ SameContexts(r, q)
  BY <1>1, EndScopeIs DEF SameContexts
<1>3. Len(q.scopes) = Len(a)
  <2>1. q.scopes \in ScopesSet
    BY <1>2, LikeIs DEF IsResolver
  <2>2. Len(q.scopes) \in Nat
    BY <2>1, ScopesAre
  <2>. QED BY <1>2, <2>2 DEF Opens, Pushed
<1>4. Shown(q, a, n, {})
  BY <1>2, <1>3, ShownClosed
<1>. QED BY <1>2, <1>3, <1>4

LEMMA EndVisits ==
  ASSUME Visit(resolver.at), EndVisit
  PROVE  Visits(resolver', resolver.at)
<1> DEFINE i == resolver.at
           u == program[i].in
           a == AroundAfter(i)
           b == AroundAfter(i - 1)
           s == <<u, "this">>
           t == <<u, "super">>
           w == <<u, "block">>
           ended == endScope(Moved)
           outer == IF program[u].super = "" THEN ended ELSE endScope(ended)
           saved == Last(resolver.enclosing)
           q == CASE program[u].kind \in Functions -> [ended EXCEPT !.currentFunction = saved, !.enclosing = Front(@)]
                  [] program[u].kind = "body" -> [outer EXCEPT !.currentClass = saved, !.enclosing = Front(@)]
                  [] OTHER -> ended
           Closed(r) == IsResolver(r) /\ r.errs = Moved.errs /\ Shown(r, a, i, {}) /\ SameContexts(Moved, r)
<1>1. program[i].kind = "end" /\ resolver' = q
  BY DEF EndVisit, Visiting, Here, Visited
<1>2. /\ IsEnd(program[i]) /\ ~IsOpener(program[i]) /\ ~IsDeclaration(i)
      /\ program[i].kind \notin {"var", "fun", "class", "method", "variable", "return", "this", "super"}
  BY <1>1 DEF IsEnd, IsOpener, Openers, IsDeclaration
<1>3. i \in Nodes /\ i \in Nat /\ IsResolver(Moved) /\ Placed(program) /\ Grammatical(program, i)
      /\ TextIsPlaced /\ Contexts(Moved, i - 1) /\ Len(Moved.scopes) = Len(b)
  BY VisitIs
<1>4. u \in Nodes /\ u \in Nat /\ u # 0
  <2>1. u # 0
    BY <1>1, <1>3 DEF Grammatical
  <2>. QED BY <1>3, <2>1, InIsBefore DEF Nodes
<1>5. b = ScopesOf(u) \o a /\ a \in Seq(ScopeSet)
  <2>1. i <= Len(program)
    BY <1>3 DEF Nodes, Placed
  <2>. QED BY <1>2, <1>3, <1>4, <2>1, ScopesNext, AroundAfterIs
<1>6. s \in ScopeSet /\ t \in ScopeSet /\ w \in ScopeSet
  BY <1>4 DEF ScopeSet
<1>7. program[u].kind \in Functions => program[u].kind # "body"
  BY DEF Functions
<1>8. Shown(Moved, b, i, {}) /\ Awaited(i) = {}
  BY <1>2, ShownBefore
<1>9. Errors(i) = {}
  BY <1>2, <1>3, ErrorsOfKind
<1>10. Moved.enclosing = resolver.enclosing
  BY DEF Moved
<1> HIDE DEF a, b
<1>11. ASSUME program[u].kind # "body"
       PROVE  Closed(ended)
  <2>1. b = <<w>> \o a
    BY <1>4, <1>5, <1>11, ScopesOfAre
  <2> HIDE DEF w, ended, i
  <2>2. Pushed(a, w, b)
    BY <1>5, <1>6, <2>1, PushedOne
  <2>. QED BY <1>3, <1>8, <2>2, ClosesShown DEF ended
<1>12. ASSUME program[u].kind = "body"
       PROVE  Closed(outer)
  <2>1. CASE program[u].super = ""
    <3>1. b = <<s>> \o a
      BY <1>4, <1>5, <1>12, <2>1, ScopesOfAre DEF IsSubclass
    <3>2. outer = ended
      BY <2>1
    <3> HIDE DEF s, ended, outer, i
    <3>3. Pushed(a, s, b)
      BY <1>5, <1>6, <3>1, PushedOne
    <3>4. Closed(ended)
      BY <1>3, <1>8, <3>3, ClosesShown DEF ended
    <3>. QED BY <3>2, <3>4
  <2>2. CASE program[u].super # ""
    <3> DEFINE c == <<t>> \o a
    <3>1. b = <<s, t>> \o a
      BY <1>4, <1>5, <1>12, <2>2, ScopesOfAre DEF IsSubclass
    <3>2. outer = endScope(ended)
      BY <2>2
    <3> HIDE DEF s, t, ended, outer, i
    <3>3. Pushed(a, t, c) /\ Pushed(c, s, b)
      BY <1>5, <1>6, <3>1, PushedTwo
    <3> HIDE DEF c
    <3>4. IsResolver(ended) /\ ended.errs = Moved.errs /\ Shown(ended, c, i, {}) /\ Len(ended.scopes) = Len(c)
          /\ SameContexts(Moved, ended)
      BY <1>3, <1>8, <3>3, ClosesShown DEF ended
    <3>5. IsResolver(outer) /\ outer.errs = ended.errs /\ Shown(outer, a, i, {}) /\ SameContexts(ended, outer)
      BY <3>2, <3>3, <3>4, ClosesShown
    <3>. QED BY <3>4, <3>5 DEF SameContexts
  <2>. QED BY <2>1, <2>2
<1> HIDE DEF ended, outer
<1>13. q.errs = Moved.errs /\ Shown(q, a, i, {}) /\ Contexts(q, i)
  <2>1. CASE program[u].kind \in Functions
    <3>1. q = [ended EXCEPT !.currentFunction = saved, !.enclosing = Front(@)]
      BY <1>7, <2>1
    <3>2. Closed(ended)
      BY <1>7, <1>11, <2>1
    <3> HIDE DEF q, i
    <3>3. /\ q.errs = ended.errs /\ q.scopes = ended.scopes /\ q.currentFunction = saved
          /\ q.currentClass = ended.currentClass /\ q.enclosing = Front(ended.enclosing)
      BY <3>1, <3>2 DEF IsResolver, Like
    <3>4. Shown(q, a, i, {})
      BY <3>2, <3>3 DEF Shown
    <3>5. /\ q.currentFunction = Last(Moved.enclosing) /\ q.currentClass = Moved.currentClass
          /\ q.enclosing = Front(Moved.enclosing)
      BY <1>10, <3>2, <3>3 DEF SameContexts
    <3>6. Contexts(q, i)
      BY <1>2, <1>3, <1>7, <2>1, <3>5, ContextsClosed
    <3>. QED BY <3>2, <3>3, <3>4, <3>6
  <2>2. CASE program[u].kind = "body"
    <3>1. q = [outer EXCEPT !.currentClass = saved, !.enclosing = Front(@)]
      BY <1>7, <2>2
    <3>2. Closed(outer)
      BY <1>12, <2>2
    <3> HIDE DEF q, i
    <3>3. /\ q.errs = outer.errs /\ q.scopes = outer.scopes /\ q.currentClass = saved
          /\ q.currentFunction = outer.currentFunction /\ q.enclosing = Front(outer.enclosing)
      BY <3>1, <3>2 DEF IsResolver, Like
    <3>4. Shown(q, a, i, {})
      BY <3>2, <3>3 DEF Shown
    <3>5. /\ q.currentClass = Last(Moved.enclosing) /\ q.currentFunction = Moved.currentFunction
          /\ q.enclosing = Front(Moved.enclosing)
      BY <1>10, <3>2, <3>3 DEF SameContexts
    <3>6. program[u].kind \notin Functions
      BY <1>7, <2>2
    <3>7. Contexts(q, i)
      BY <1>2, <1>3, <2>2, <3>5, <3>6, ContextsClosed
    <3>. QED BY <3>2, <3>3, <3>4, <3>7
  <2>3. CASE program[u].kind \notin Functions /\ program[u].kind # "body"
    <3>1. q = ended
      BY <2>3
    <3>2. Closed(ended)
      BY <1>11, <2>3
    <3> HIDE DEF i
    <3>3. Contexts(ended, i)
      BY <1>2, <1>3, <2>3, <3>2, ContextsClosed
    <3>. QED BY <3>1, <3>2, <3>3
  <2>. QED BY <2>1, <2>2, <2>3
<1> HIDE DEF q
<1>14. Reports(Moved, q, i, Errors(i))
  BY <1>9, <1>13, ReportsNothing
<1>. QED BY <1>1, <1>8, <1>13, <1>14 DEF Visits, Tracks, a

LEMMA StepVisits ==
  ASSUME TextIsPlaced, ResolverInv, RefusesInv, LineStarts, ResolverStep
  PROVE  Visits(resolver', resolver.at)
<1>1. Visit(resolver.at)
  <2>1. resolver.at \in Nodes
    BY StepAdvances
  <2>2. resolver.at \notin DOMAIN locals /\ Starts(Moved, resolver.at)
    BY <2>1, VisitStarts, StartsAre
  <2>3. line <= resolver.at
    BY DEF ResolverInv, LineStarts
  <2>. QED BY <2>2, <2>3 DEF Visit
<1>2. CASE VisitBlockStmt
  BY <1>1, <1>2, BlockVisits
<1>3. CASE VisitVarStmt
  BY <1>1, <1>3, VarVisits, DefineVisits DEF VisitVarStmt
<1>4. CASE VisitFunctionStmt
  BY <1>1, <1>4, FunctionVisits
<1>5. CASE VisitClassStmt
  BY <1>1, <1>5, ClassNameVisits, BodyVisits, MethodVisits DEF VisitClassStmt
<1>6. CASE EndVisit
  BY <1>1, <1>6, EndVisits
<1>7. CASE VisitReturnStmt \/ VisitOther
  BY <1>1, <1>7, ReturnVisits, OtherVisits
<1>8. CASE VisitVariableExpr \/ VisitAssignExpr
  BY <1>1, <1>8, VariableVisits, AssignVisits
<1>9. CASE VisitThisExpr \/ VisitSuperExpr
  BY <1>1, <1>9, ThisVisits, SuperVisits
<1>. QED BY <1>2, <1>3, <1>4, <1>5, <1>6, <1>7, <1>8, <1>9 DEF ResolverStep

-----------------------------------------------------------------------------
(* What is known of the resolver stays while the text does *)

LEMMA InsideStays ==
  ASSUME UNCHANGED program, NEW i, NEW kinds
  PROVE  InnermostOf(i, kinds)' = InnermostOf(i, kinds) /\ InsideOf(i, kinds)' = InsideOf(i, kinds)
<1>1. Around(i, kinds)' = Around(i, kinds)
  BY DEF Around
<1>. QED BY <1>1 DEF InnermostOf, InsideOf

LEMMA ContextStays ==
  ASSUME UNCHANGED program, NEW m
  PROVE  FunctionIn(m)' = FunctionIn(m) /\ ClassIn(m)' = ClassIn(m) /\ ClassKind(m)' = ClassKind(m)
<1>1. \A f : FunctionKind(f)' = FunctionKind(f) /\ ClassKind(f)' = ClassKind(f)
  BY DEF FunctionKind, ClassKind, IsInitializer
<1>2. PICK f, c : f = InsideOf(m, Functions) /\ c = InsideOf(m, {"body"})
  OBVIOUS
<1>3. InsideOf(m, Functions)' = f /\ InsideOf(m, {"body"})' = c
  <2>1. InsideOf(m, Functions)' = InsideOf(m, Functions)' /\ Functions' = Functions
    BY DEF Functions
  <2>2. \A kinds : InsideOf(m, kinds)' = InsideOf(m, kinds)
    BY InsideStays
  <2>. QED BY <1>2, <2>2 DEF Functions
<1>. QED BY <1>1, <1>2, <1>3 DEF FunctionIn, ClassIn

LEMMA SavedStays ==
  ASSUME UNCHANGED program
  PROVE  Saved' = Saved
<1>1. \A m, s : SavedIn(m, s)' = SavedIn(m, s)
  <2> TAKE m, s
  <2>1. PICK u, k : u = program[m].in /\ k = program[m].kind
    OBVIOUS
  <2>2. FunctionIn(program[m].in)' = FunctionIn(u) /\ ClassIn(program[m].in)' = ClassIn(u)
    BY <2>1, ContextStays
  <2>. QED BY <2>1, <2>2 DEF SavedIn, Functions
<1>2. \A f : IsSaved(f)' <=> IsSaved(f)
  BY <1>1 DEF IsSaved, Nodes, ContextSet
<1>. QED BY <1>2 DEF Saved

-----------------------------------------------------------------------------
(* So do the static errors *)

\* The static errors of a node, given the class and the function it is in.
ErrorsWithin(i, class, function) ==
  {why \in {"declared twice", "own initializer", "inherits itself", "init is a getter", "top-level return",
            "value from init", "this outside", "super outside", "no superclass"} :
     CASE why = "declared twice"   -> DeclaredTwice(i)
       [] why = "own initializer"  -> OwnInitializer(i)
       [] why = "inherits itself"  -> program[i].kind = "class" /\ program[i].super = program[i].name
       [] why = "init is a getter" -> IsInitializer(i) /\ program[i].getter
       [] why = "top-level return" -> program[i].kind = "return" /\ function = 0
       [] why = "value from init"  -> program[i].kind = "return" /\ program[i].n = 1 /\ IsInitializer(function)
       [] why = "this outside"     -> program[i].kind = "this" /\ class = 0
       [] why = "super outside"    -> program[i].kind = "super" /\ class = 0
       [] why = "no superclass"    -> program[i].kind = "super" /\ class # 0 /\ ~IsSubclass(class)}

LEMMA DeclaredStays ==
  ASSUME UNCHANGED <<program, line>>, NEW i
  PROVE  DeclaredTwice(i)' = DeclaredTwice(i) /\ OwnInitializer(i)' = OwnInitializer(i)
BY DEF DeclaredTwice, DeclaredBefore, OwnInitializer, InScopeOf

LEMMA ErrorsStay ==
  ASSUME UNCHANGED <<program, line>>, NEW i
  PROVE  Errors(i)' = Errors(i)
<1>1. PICK c, f : c = InnermostOf(i, {"body"}) /\ f = InnermostOf(i, Functions)
  OBVIOUS
<1>2. InnermostOf(i, {"body"})' = c /\ InnermostOf(i, Functions)' = f
  <2>1. \A kinds : InnermostOf(i, kinds)' = InnermostOf(i, kinds)
    BY InsideStays
  <2>. QED BY <1>1, <2>1 DEF Functions
<1>3. Errors(i) = ErrorsWithin(i, c, f)
  BY <1>1 DEF Errors, ErrorsWithin
<1>4. Errors(i)' = ErrorsWithin(i, c, f)'
  BY <1>2 DEF Errors, ErrorsWithin
<1>5. ErrorsWithin(i, c, f)' = ErrorsWithin(i, c, f)
  <2>1. DeclaredTwice(i)' = DeclaredTwice(i) /\ OwnInitializer(i)' = OwnInitializer(i)
    BY DeclaredStays
  <2>2. \A j : IsInitializer(j)' = IsInitializer(j) /\ IsSubclass(j)' = IsSubclass(j)
    BY DEF IsInitializer, IsSubclass
  <2>. QED BY <2>1, <2>2 DEF ErrorsWithin
<1>. QED BY <1>3, <1>4, <1>5

LEMMA NamesStay ==
  ASSUME UNCHANGED <<program, line>>, NEW u, NEW n
  PROVE  NamesIn(u, n)' = NamesIn(u, n) /\ Awaited(n)' = Awaited(n)
<1>1. NamesIn(u, n)' = NamesIn(u, n)
  BY DEF NamesIn, FirstParams, Param, Params, DeclaredIn, Nodes
<1>2. BegunOf(n, "var")' = BegunOf(n, "var")
  BY BegunStays
<1>3. \A j : DeclaredTwice(j)' = DeclaredTwice(j)
  BY DeclaredStays
<1>4. Awaited(n)' = Awaited(n)
  BY <1>2, <1>3 DEF Awaited
<1>. QED BY <1>1, <1>4

LEMMA ContextsStay ==
  ASSUME UNCHANGED program, NEW r, NEW n, Contexts(r, n)
  PROVE  Contexts(r, n)'
<1>1. PICK m, open, saved : m = InnermostIn(program, n) /\ open = BegunOf(n, "class") /\ saved = Saved
  OBVIOUS
<1>2. InnermostIn(program, n)' = m /\ BegunOf(n, "class")' = open /\ Saved' = saved
  BY <1>1, ScopesStay, BegunStays, SavedStays
<1>3. FunctionIn(m)' = FunctionIn(m) /\ ClassIn(m)' = ClassIn(m) /\ \A c : ClassKind(c)' = ClassKind(c)
  BY ContextStays
<1>4. /\ r.currentFunction = FunctionIn(m)
      /\ \A c \in open : r.currentClass = ClassKind(c) /\ r.enclosing = Append(saved[m], ClassIn(m))
      /\ open = {} => r.currentClass = ClassIn(m) /\ r.enclosing = saved[m]
  BY <1>1 DEF Contexts
<1>5. FunctionIn(InnermostIn(program, n))' = FunctionIn(m)' /\ ClassIn(InnermostIn(program, n))' = ClassIn(m)'
  BY <1>2 DEF FunctionIn, ClassIn
<1>6. (Saved[InnermostIn(program, n)])' = saved[m]
  BY <1>2
<1>. QED BY <1>2, <1>3, <1>4, <1>5, <1>6 DEF Contexts

LEMMA TracksStays ==
  ASSUME UNCHANGED <<program, line>>, NEW r, NEW n, Tracks(r, n)
  PROVE  Tracks(r, n)'
<1>1. Contexts(r, n)'
  BY ContextsStay DEF Tracks
<1>2. PICK a, w : a = AroundAfter(n) /\ w = Awaited(n)
  OBVIOUS
<1>3. AroundAfter(n)' = a /\ Awaited(n)' = w
  BY <1>2, AroundStays, NamesStay
<1>4. Shown(r, a, n, w)
  BY <1>2 DEF Tracks
<1>5. Shown(r, a, n, w)'
  <2>1. \A u : NamesIn(u, n)' = NamesIn(u, n)
    BY NamesStay
  <2>. QED BY <1>4, <2>1 DEF Shown, NamesOf, Undefined
<1>6. Shown(r, AroundAfter(n), n, Awaited(n))' = Shown(r, a, n, w)'
  BY <1>3 DEF Shown
<1>. QED BY <1>1, <1>5, <1>6 DEF Tracks


-----------------------------------------------------------------------------
(* The line, while it is being written *)

\* A line begins with nothing begun, and is run with nothing begun.
BegunInv ==
  /\ Begun(program, line) = {}
  /\ phase # "writing" => Begun(program, Len(program) + 1) = {}
RefusingInv == phase = "resolving" => RefusesInv

\* Nothing is open and nothing begun where a line starts.
LEMMA LineStartsIs ==
  ASSUME LineInv, BegunInv
  PROVE  LineStarts
BY DEF LineInv, BegunInv, LineStarts

LEMMA WriteKeepsBegun ==
  ASSUME LineInv, BegunInv, NEW phrase \in Phrases, Write(phrase), PhrasesAssumption
  PROVE  BegunInv' /\ RefusingInv'
<1> DEFINE u == Extended(program, phrase)
<1>1. phase = "writing" /\ phase' = phase /\ line' = line /\ program' = u
  BY DEF Write
<1>2. Extends(program, u) /\ Len(program) \in Nat
  <2>1. Placed(program) /\ phrase \in Seq(NodeSet)
    BY DEF LineInv, TextIsPlaced, PhrasesAssumption
  <2>. QED BY <2>1, ExtendedIs DEF Placed
<1> HIDE DEF u
<1>3. Begun(u, line) = {}
  <2>1. line \in Nat /\ line <= Len(program) + 1 /\ Begun(program, line) = {}
    BY DEF LineInv, BegunInv
  <2>. QED BY <1>2, <2>1, BegunBefore
<1>4. Begun(program, line)' = {}
  BY <1>1, <1>3 DEF Begun
<1>. QED BY <1>1, <1>4 DEF BegunInv, RefusingInv

LEMMA EnterKeepsBegun ==
  ASSUME LineInv, BegunInv, EnterExpression \/ EnterProgram
  PROVE  BegunInv' /\ RefusingInv'
<1> DEFINE l == Len(program)
<1>1. /\ phase = "writing" /\ UNCHANGED <<program, line>> /\ l >= line /\ phase' \in {"resolving", "executing"}
  BY DEF EnterExpression, EnterProgram
<1>2. TextIsPlaced /\ line \in Nat \ {0} /\ InnermostIn(program, line - 1) = 0 /\ Begun(program, line) = {}
  BY DEF LineInv, BegunInv
<1>3. l \in Nat /\ Placed(program) /\ l \in Nodes /\ l >= 1 /\ l - 1 \in Nat
  <2>1. Placed(program) /\ l \in Nat
    BY <1>2 DEF TextIsPlaced, Placed
  <2>. QED BY <1>1, <1>2, <2>1 DEF Nodes
<1>4. Begun(program, l + 1) = {}
  <2>1. CASE EnterProgram
    BY <2>1 DEF EnterProgram
  <2>2. CASE EnterExpression
    <3>1. program[l].kind = "bare"
      <4>1. Last(program) = program[l]
        BY <1>3 DEF Last
      <4>. QED BY <2>2, <4>1 DEF EnterExpression
    <3>2. \A j \in Begun(program, l) : Continues(program, j, l)
      <4>1. Grammatical(program, l)
        BY <1>2, <1>3 DEF TextIsPlaced
      <4>. QED BY <4>1 DEF Grammatical
    <3>3. Begun(program, l) = {}
      BY <3>1, <3>2, ContinuesIs DEF Expressions
    <3>4. program[l].kind \notin {"define", "body", "var", "class"} => Begun(program, l + 1) = Begun(program, l)
      BY <1>3, BegunNext
    <3>. QED BY <3>1, <3>3, <3>4
  <2>. QED BY <2>1, <2>2
<1>5. BegunInv'
  BY <1>1, <1>2, <1>4 DEF BegunInv, Begun
<1>6. ASSUME phase' = "resolving"
      PROVE  RefusesInv'
  <2>1. resolver' = Resolve(line)
    BY <1>6 DEF EnterExpression, EnterProgram
  <2> DEFINE r == Resolve(line)
             n == line - 1
  <2>2. /\ r.at = line /\ r.errs = {} /\ r.scopes = <<>>
        /\ r.currentFunction = "none" /\ r.currentClass = "none" /\ r.enclosing = <<>>
    BY DEF Resolve
  <2>3. n \in Nat /\ n + 1 = line /\ line .. n = {}
    BY <1>2
  <2> HIDE DEF r, n
  <2>4. InnermostIn(program, n) = 0 /\ \A kind : BegunOf(n, kind) = {}
    BY <1>2, <2>3 DEF n, BegunOf
  <2>5. AroundAfter(n) = <<>>
    BY <2>4 DEF AroundAfter
  <2>6. Contexts(r, n)
    <3>1. Saved[0] = <<>>
      BY <1>3, SavedAt
    <3>2. FunctionIn(0) = "none" /\ ClassIn(0) = "none"
      BY ContextsIn
    <3>. QED BY <2>2, <2>4, <3>1, <3>2 DEF Contexts
  <2>7. Tracks(r, n)
    BY <2>5, <2>6 DEF Tracks, Shown
  <2>8. PICK q, k, from : q = r /\ k = n /\ from = line
    OBVIOUS
  <2>9. Tracks(q, k)'
    BY <1>1, <2>7, <2>8, TracksStays
  <2>10. resolver' = q /\ resolver'.at - 1 = k /\ line' = from /\ from .. k = {}
    BY <1>1, <2>1, <2>2, <2>3, <2>8 DEF r, n
  <2>11. Tracks(resolver, resolver.at - 1)'
    BY <2>9, <2>10
  <2>12. (line .. resolver.at - 1)' = {}
    BY <2>10
  <2>. QED BY <2>2, <2>8, <2>10, <2>11, <2>12 DEF RefusesInv
<1>. QED BY <1>5, <1>6 DEF RefusingInv


LEMMA ResolvingKeepsBegun ==
  ASSUME LineInv, ResolvingInv, BegunInv, RefusingInv, Resolving
  PROVE  BegunInv' /\ RefusingInv'
<1> DEFINE i == resolver.at
<1>1. phase = "resolving" /\ ResolverStep /\ UNCHANGED <<program, phase, line>>
  BY DEF Resolving
<1>2. ResolverInv /\ RefusesInv /\ TextIsPlaced /\ LineStarts
  BY <1>1, LineStartsIs DEF ResolvingInv, RefusingInv, LineInv
<1>3. resolver'.at = i + 1 /\ i \in Nodes /\ IsResolver(resolver) /\ line \in Nat /\ line <= i
  BY <1>1, <1>2, StepAdvances DEF Advances, ResolverInv, LineStarts
<1>4. i \in Nat
  BY <1>3 DEF Nodes
<1>5. Tracks(resolver', i) /\ resolver'.errs = resolver.errs \cup ({i} \X Errors(i))
  <2>1. Visits(resolver', i)
    BY <1>1, <1>2, StepVisits
  <2>2. Moved.errs = resolver.errs
    BY <1>3, <1>4, MovedIs
  <2>. QED BY <2>1, <2>2 DEF Visits, Reports
<1>6. resolver.errs = UNION {{j} \X Errors(j) : j \in line .. i - 1}
  BY <1>2 DEF RefusesInv
<1>7. PICK q, n, from : q = resolver' /\ n = i /\ from = line
  OBVIOUS
<1>8. Tracks(q, n)'
  BY <1>1, <1>5, <1>7, TracksStays
<1>9. resolver' = q /\ q.at - 1 = n /\ line' = from /\ n \in Nat /\ from \in Nat /\ from <= n
  BY <1>1, <1>3, <1>4, <1>7
<1>10. q.errs = UNION {{j} \X Errors(j) : j \in from .. n}
  <2>1. \A j : j \in from .. n <=> j \in from .. n - 1 \/ j = n
    BY <1>9
  <2>2. q.errs = (UNION {{j} \X Errors(j) : j \in from .. n - 1}) \cup ({n} \X Errors(n))
    BY <1>5, <1>6, <1>7
  <2> DEFINE Held(j) == {j} \X Errors(j)
  <2> HIDE DEF Held
  <2>3. UNION {Held(j) : j \in from .. n} = (UNION {Held(j) : j \in from .. n - 1}) \cup Held(n)
    BY <2>1
  <2>. QED BY <2>2, <2>3 DEF Held
<1>11. (resolver.errs = UNION {{j} \X Errors(j) : j \in line .. resolver.at - 1})'
  <2>1. \A j : Errors(j)' = Errors(j)
    BY <1>1, ErrorsStay
  <2>2. (line .. resolver.at - 1)' = from .. n
    BY <1>9
  <2>. QED BY <1>9, <1>10, <2>1, <2>2
<1>12. Tracks(resolver, resolver.at - 1)'
  BY <1>8, <1>9
<1>13. BegunInv'
  BY <1>1 DEF BegunInv, Begun
<1>. QED BY <1>11, <1>12, <1>13 DEF RefusingInv, RefusesInv

LEMMA RunKeepsBegun ==
  ASSUME LineInv, BegunInv, Accept \/ Execution \/ Printing \/ Refuse \/ ExecutionDone
  PROVE  BegunInv' /\ RefusingInv'
<1>1. phase # "writing" /\ program' = program
  BY DEF Accept, Execution, Printing, Refuse, ExecutionDone, ResolvingDone, NextLine
<1>2. Begun(program, line) = {} /\ Begun(program, Len(program) + 1) = {}
  BY <1>1 DEF BegunInv
<1>3. \/ line' = line /\ phase' = "executing"
      \/ line' = Len(program) + 1 /\ phase' = "writing"
  BY DEF Accept, Execution, Printing, Refuse, ExecutionDone, ResolvingDone, NextLine
<1>4. Begun(program, line)' = {} /\ Begun(program, Len(program) + 1)' = {}
  BY <1>1, <1>2, <1>3 DEF Begun
<1>5. phase' # "resolving"
  BY <1>3
<1>. QED BY <1>4, <1>5 DEF BegunInv, RefusingInv

LEMMA NothingKeepsBegun ==
  ASSUME BegunInv, RefusingInv, UNCHANGED vars
  PROVE  BegunInv' /\ RefusingInv'
<1>1. UNCHANGED <<program, line, phase, resolver>>
  BY DEF vars
<1>2. BegunInv'
  BY <1>1 DEF BegunInv, Begun
<1>3. ASSUME RefusesInv
      PROVE  RefusesInv'
  <2>1. PICK q, n, from : q = resolver /\ n = resolver.at - 1 /\ from = line
    OBVIOUS
  <2>2. Tracks(q, n)'
    BY <1>1, <1>3, <2>1, TracksStays DEF RefusesInv
  <2>3. resolver' = q /\ q.at - 1 = n /\ line' = from
    BY <1>1, <2>1
  <2>4. \A j : Errors(j)' = Errors(j)
    BY <1>1, ErrorsStay
  <2>5. Tracks(resolver, resolver.at - 1)'
    BY <2>2, <2>3
  <2>6. q.errs = UNION {{j} \X Errors(j) : j \in from .. n}
    BY <1>3, <2>1 DEF RefusesInv
  <2>7. (line .. resolver.at - 1)' = from .. n
    BY <2>3
  <2>. QED BY <2>3, <2>4, <2>5, <2>6, <2>7 DEF RefusesInv
<1>. QED BY <1>1, <1>2, <1>3 DEF RefusingInv

\* What it has reported so far is that too.
LEMMA RefusingHolds == Spec => [](BegunInv /\ RefusingInv)
<1>1. Init => BegunInv /\ RefusingInv
  <2> SUFFICES ASSUME Init
               PROVE  BegunInv /\ RefusingInv
    OBVIOUS
  <2>1. line = 1 /\ phase = "writing"
    BY DEF Init
  <2>2. Begun(program, line) = {}
    BY <2>1 DEF Begun
  <2>. QED BY <2>1, <2>2 DEF BegunInv, RefusingInv
<1>2. LineInv /\ ResolvingInv /\ BegunInv /\ RefusingInv /\ [Next]_vars => BegunInv' /\ RefusingInv'
  <2> SUFFICES ASSUME LineInv, ResolvingInv, BegunInv, RefusingInv, [Next]_vars
               PROVE  BegunInv' /\ RefusingInv'
    OBVIOUS
  <2>1. CASE \E phrase \in Phrases : Write(phrase)
    BY <2>1, WriteKeepsBegun, PhrasesAssumption
  <2>2. CASE EnterExpression \/ EnterProgram
    BY <2>2, EnterKeepsBegun
  <2>3. CASE Resolving
    BY <2>3, ResolvingKeepsBegun
  <2>4. CASE Accept \/ Execution \/ Printing \/ Refuse \/ ExecutionDone
    BY <2>4, RunKeepsBegun
  <2>5. CASE Over \/ UNCHANGED vars
    <3>1. UNCHANGED vars
      BY <2>5 DEF Over
    <3>. QED BY <3>1, NothingKeepsBegun
  <2>. QED BY <2>1, <2>2, <2>3, <2>4, <2>5 DEF Next
<1>. QED BY <1>1, <1>2, LineInvHolds, PTL DEF Spec

\* The resolver reports exactly the static errors of the text, so a line runs
\* exactly if it has none, whatever the session (resolver.go:140-148,
\* main.go:100-104).
THEOREM RefusesExactlyAlways == Spec => []RefusesExactly
<1>1. LineInv /\ ResolvingInv /\ RefusingInv => RefusesExactly
  <2> SUFFICES ASSUME LineInv, ResolvingInv, RefusingInv, ResolvingDone
               PROVE  resolver.errs = UNION {{i} \X Errors(i) : i \in line .. Len(program)}
    BY DEF RefusesExactly
  <2>1. ResolverInv /\ RefusesInv /\ resolver.at > Len(program)
    BY DEF ResolvingInv, RefusingInv, ResolvingDone
  <2>2. resolver.at \in line .. Len(program) + 1 /\ line \in Nat /\ Len(program) \in Nat
    BY <2>1 DEF ResolverInv, LineInv, TextIsPlaced, Placed
  <2>3. resolver.at - 1 = Len(program)
    BY <2>1, <2>2
  <2>. QED BY <2>1, <2>3 DEF RefusesInv
<1>. QED BY <1>1, LineInvHolds, RefusingHolds, PTL

-----------------------------------------------------------------------------
(* A line is accepted *)

\* A class's superclass is what follows its beginning.
LEMMA SuperclassNamed ==
  ASSUME NEW t, NEW m, NEW j, Continues(t, m, j), t[m].kind = "class", t[j].kind = "variable"
  PROVE  t[j].name = t[m].super
<1>1. ~(t[j].kind = "body") /\ ~(t[m].kind = "var")
  OBVIOUS
<1>. QED BY <1>1, Zenon DEF Continues

\* What has begun at a node of a line has begun in the line.
LEMMA BegunInLine ==
  ASSUME LineStarts, NEW j \in Nat, line <= j, NEW m \in Begun(program, j)
  PROVE  line <= m /\ m < j /\ m \in Nat
<1>1. m \in 1 .. j - 1 /\ line \in Nat /\ Begun(program, line) = {}
  BY DEF Begun, LineStarts
<1>2. m \in 1 .. line - 1 => m \in Begun(program, line)
  <2>1. \A d \in m + 1 .. line - 1 : d \in m + 1 .. j - 1
    BY <1>1
  <2>. QED BY <2>1 DEF Begun
<1>. QED BY <1>1, <1>2

LEMMA NoErrors ==
  ASSUME NEW j, Errors(j) = {}
  PROVE  /\ ~DeclaredTwice(j) /\ ~OwnInitializer(j) /\ ~(program[j].kind = "class" /\ program[j].super = program[j].name)
         /\ program[j].kind = "return" => InnermostOf(j, Functions) # 0
         /\ program[j].kind = "super" => InnermostOf(j, {"body"}) # 0 /\ IsSubclass(InnermostOf(j, {"body"}))
<1>1. DeclarationErrors(j) = {} /\ ContextErrors(j) = {}
  BY ErrorsAre
<1>2. /\ Only(DeclaredTwice(j), "declared twice") = {} /\ Only(OwnInitializer(j), "own initializer") = {}
      /\ Only(program[j].kind = "class" /\ program[j].super = program[j].name, "inherits itself") = {}
  BY <1>1 DEF DeclarationErrors
<1>3. /\ Only(program[j].kind = "return" /\ InnermostOf(j, Functions) = 0, "top-level return") = {}
      /\ Only(program[j].kind = "super" /\ InnermostOf(j, {"body"}) = 0, "super outside") = {}
      /\ Only(program[j].kind = "super" /\ InnermostOf(j, {"body"}) # 0 /\ ~IsSubclass(InnermostOf(j, {"body"})),
              "no superclass") = {}
  BY <1>1 DEF ContextErrors
<1>4. \A c \in BOOLEAN : \A why : Only(c, why) = {} => ~c
  BY DEF Only
<1>5. ~DeclaredTwice(j) /\ ~OwnInitializer(j) /\ ~(program[j].kind = "class" /\ program[j].super = program[j].name)
  BY <1>2 DEF Only
<1>. QED BY <1>3, <1>5 DEF Only

LEMMA NothingReadsItself ==
  ASSUME TextIsPlaced, LineStarts, NEW j \in line .. Len(program), \A m \in line .. Len(program) : Errors(m) = {}
  PROVE  ~ReadsItself(j)
<1> SUFFICES ASSUME program[j].kind = "variable", NEW m \in Begun(program, j), program[m].name = program[j].name, InScopeOf(j, m)
             PROVE  FALSE
  BY DEF ReadsItself
<1>1. line \in Nat \ {0} /\ Len(program) \in Nat /\ j \in Nat /\ j \in Nodes /\ line <= j
  BY DEF LineStarts, TextIsPlaced, Placed, Nodes
<1>2. /\ Begun(program, j) = {m} /\ m \in Nodes /\ m < j /\ program[m].in = program[j].in
      /\ program[m].kind \in {"var", "class"} /\ Continues(program, m, j)
  BY <1>1, BegunHere
<1>3. m \in line .. Len(program)
  <2>1. line <= m /\ m < j /\ m \in Nat
    BY <1>1, BegunInLine
  <2>. QED BY <1>1, <2>1
<1>4. Errors(m) = {} /\ Errors(j) = {}
  BY <1>3
<1>5. program[j].in # 0
  BY <1>2 DEF InScopeOf
<1>6. CASE program[m].kind = "var"
  <2>1. m \in BegunOf(j - 1, "var")
    <3>1. (j - 1) + 1 = j
      BY <1>1
    <3>. QED BY <1>6, <3>1 DEF BegunOf
  <2>2. program[m].in # 0 /\ ~DeclaredTwice(m)
    BY <1>2, <1>4, <1>5, NoErrors
  <2>3. program[j].name \in Awaited(j - 1)
    BY <2>1, <2>2 DEF Awaited
  <2>4. OwnInitializer(j)
    BY <1>1, <1>5, <2>3, OwnInitializerIs
  <2>. QED BY <1>4, <2>4, NoErrors
<1>7. CASE program[m].kind = "class"
  <2>1. program[j].name = program[m].super
    BY <1>2, <1>7, SuperclassNamed
  <2>. QED BY <1>4, <1>7, <2>1, NoErrors
<1>. QED BY <1>2, <1>6, <1>7

LEMMA AcceptedGood ==
  ASSUME LineInv, BegunInv, ResolverInv, RefusesInv, resolver.at > Len(program), resolver.errs = {}
  PROVE  \A j \in line .. Len(program) : Good(j)
<1>1. TextIsPlaced /\ LineStarts /\ line \in Nat /\ Len(program) \in Nat
  BY LineStartsIs DEF LineInv, TextIsPlaced, Placed
<1>2. resolver.at - 1 = Len(program)
  BY <1>1 DEF ResolverInv
<1>3. \A j \in line .. Len(program) : Errors(j) = {}
  <2>1. UNION {{i} \X Errors(i) : i \in line .. Len(program)} = {}
    BY <1>2 DEF RefusesInv
  <2> TAKE j \in line .. Len(program)
  <2>2. {j} \X Errors(j) \subseteq {}
    BY <2>1
  <2>3. \A why : why \in Errors(j) => <<j, why>> \in {j} \X Errors(j)
    OBVIOUS
  <2>. QED BY <2>2, <2>3
<1>4. ASSUME NEW j \in line .. Len(program)
      PROVE  Good(j)
  <2>1. program[j].kind \in Uses => AddressGiven(locals, j) = LexicalAddress(j, NameUsed(j))
    BY <1>2 DEF ResolverInv
  <2>2. ~ReadsItself(j)
    BY <1>1, <1>3, NothingReadsItself
  <2>. QED BY <1>3, <2>1, <2>2, NoErrors DEF Good
<1>. QED BY <1>4

-----------------------------------------------------------------------------
(* A line that is only an expression *)

AllExpressions == \A j \in line .. Len(program) - 1 : program[j].kind \in Expressions
LEMMA BareInside ==
  ASSUME LineInv, AllExpressions, NEW j \in line .. Len(program)
  PROVE  program[j].in = 0
<1>1. Placed(program) /\ line \in Nat \ {0} /\ Len(program) \in Nat /\ InnermostIn(program, line - 1) = 0
  BY DEF LineInv, TextIsPlaced, Placed
<1> DEFINE S == {n \in Nat : line - 1 + n <= Len(program) - 1 => InnermostIn(program, line - 1 + n) = 0}
<1>2. 0 \in S
  BY <1>1
<1>3. ASSUME NEW n \in Nat, n \in S
      PROVE  n + 1 \in S
  <2> SUFFICES ASSUME line - 1 + (n + 1) <= Len(program) - 1
               PROVE  InnermostIn(program, line - 1 + (n + 1)) = 0
    OBVIOUS
  <2>1. PICK m : m = line - 1 + n
    OBVIOUS
  <2>2. m \in Nat /\ m + 1 = line - 1 + (n + 1) /\ m < Len(program) /\ m + 1 \in line .. Len(program) - 1 /\ InnermostIn(program, m) = 0
    BY <1>1, <1>3, <2>1
  <2>3. program[m + 1].kind \in Expressions
    BY <2>2 DEF AllExpressions
  <2>4. ~IsOpener(program[m + 1]) /\ ~IsEnd(program[m + 1])
    BY <2>3 DEF IsOpener, IsEnd, Openers, Expressions
  <2>5. InnermostIn(program, m + 1) = 0
    BY <1>1, <2>2, <2>4, InnermostNext
  <2>. QED BY <2>2, <2>5
<1> HIDE DEF S
<1>4. j - line \in S
  <2>1. j - line \in Nat
    BY <1>1
  <2>. QED BY <1>2, <1>3, <2>1, SetInduction
<1>5. InnermostIn(program, j - 1) = 0
  <2>1. line - 1 + (j - line) = j - 1 /\ j - 1 <= Len(program) - 1
    BY <1>1
  <2>. QED BY <1>4, <2>1 DEF S
<1>6. j \in 1 .. Len(program)
  BY <1>1
<1>. QED BY <1>1, <1>5, <1>6 DEF Placed

LEMMA BareGood ==
  ASSUME LineInv, phase = "writing", AllExpressions, Len(program) >= line, program[Len(program)].kind = "bare"
  PROVE  \A j \in line .. Len(program) : Good(j)
<1>1. Placed(program) /\ line \in Nat \ {0} /\ Len(program) \in Nat /\ DOMAIN locals \subseteq 1 .. line - 1
  BY DEF LineInv, TextIsPlaced, Placed
<1>2. ASSUME NEW j \in line .. Len(program)
      PROVE  Good(j)
  <2>1. j \in Nodes /\ program[j].in = 0 /\ j \notin 1 .. line - 1
    BY <1>1, BareInside DEF Nodes
  <2>2. ScopesAround(j) = <<>>
    BY <1>1, <2>1, AroundIs DEF Outer
  <2>3. \A name : LexicalAddress(j, name) = <<>>
    BY <2>2 DEF LexicalAddress
  <2>4. AddressGiven(locals, j) = <<>>
    BY <1>1, <2>1 DEF AddressGiven
  <2>5. ~ReadsItself(j)
    BY <2>1 DEF ReadsItself, InScopeOf
  <2>6. program[j].kind # "return"
    <3>1. program[j].kind \in Expressions \/ program[j].kind = "bare"
      <4>1. j = Len(program) \/ j \in line .. Len(program) - 1
        BY <1>1
      <4>. QED BY <4>1 DEF AllExpressions
    <3>. QED BY <3>1 DEF Expressions
  <2>. QED BY <2>3, <2>4, <2>5, <2>6 DEF Good
<1>. QED BY <1>2

-----------------------------------------------------------------------------
(* What holds of the interpreter throughout a session *)

LineRuns ==
  /\ Operands(program, line - 1) = <<>>
  /\ phase # "writing" => Operands(program, Len(program)) = <<>>
  /\ \A j \in DOMAIN locals : locals[j] # <<>>
  /\ phase = "writing" /\ Len(program) >= line /\ program[Len(program)].kind = "bare" => AllExpressions
  /\ phase = "executing" => \A j \in line .. Len(program) : Good(j)
Sound ==
  /\ HeapOK(interp)
  /\ phase = "executing" => Fine(interp)
  /\ phase # "executing" => Idle(interp) /\ interp.status # "crashed"
InterpreterInv == LineRuns /\ Sound

LEMMA GoodLineIs ==
  ASSUME LineInv, LineRuns, phase = "executing"
  PROVE  GoodLine
BY DEF LineInv, LineRuns, GoodLine

\* The interpreter begins where the line does.
Restarted(i, from) == [i EXCEPT !.pc = from, !.status = "running"]
Begins(i) ==
  /\ HeapOK(i) /\ Idle(i) /\ line \in Nat \ {0} /\ line <= Len(program) + 1 /\ Len(program) \in Nat
  /\ InnermostIn(program, line - 1) = 0 /\ Operands(program, line - 1) = <<>>
BeginsLaw == \A i : Begins(i) => \A q : q = Restarted(i, line) => Fine(q)
LEMMA BeginsHolds == BeginsLaw
<1> SUFFICES ASSUME NEW i, Begins(i), NEW q, q = Restarted(i, line)
             PROVE  Fine(q)
  BY DEF BeginsLaw
<1>1. HeapOK(i) /\ IsInterpreter(i) /\ i.stack = <<>> /\ i.values = <<>> /\ i.environment = globals /\ line \in Nat \ {0}
      /\ line <= Len(program) + 1 /\ Len(program) \in Nat
  BY DEF Begins, HeapOK, Idle
<1>2. q = [i EXCEPT !.pc = line, !.status = "running"]
  BY DEF Restarted
<1>3. /\ IsInterpreter(q) /\ SameHeap(i, q) /\ q.environment = globals /\ q.stack = <<>> /\ q.values = <<>> /\ q.pc = line
      /\ q.status = "running"
  BY <1>1, <1>2 DEF IsInterpreter, SameHeap
<1>4. HeapOK(q)
  BY <1>1, <1>3, HeapSame
<1>5. Len(q.envs) >= 1 /\ q.envs[1].scope = <<>> /\ Len(q.envs) \in Nat
  BY <1>3, <1>4, InterpreterIs DEF HeapOK
<1>6. At(q, globals, line, 0)
  <2>1. line \in 1 .. Len(program) + 1 /\ globals \in 1 .. Len(q.envs) /\ globals = 1 /\ line >= line
    BY <1>1, <1>5 DEF globals
  <2>2. InnermostIn(program, line - 1) = 0 /\ InnerScope(0) = <<>>
    BY DEF Begins, InnerScope
  <2>. QED BY <1>5, <2>1, <2>2 DEF At
<1>7. PICK s : s = q.stack
  OBVIOUS
<1>8. Len(s) = 0 /\ InnerOf(s, 0) = 0
  BY <1>3, <1>7 DEF InnerOf
<1>9. FramesOK(q)
  BY <1>7, <1>8 DEF FramesOK
<1>10. Standing(q)
  BY <1>3, <1>4, <1>6, <1>7, <1>8, <1>9 DEF Standing
<1>11. Match(q, q.values, Operands(program, q.pc - 1))
  <2>1. Operands(program, q.pc - 1) = <<>>
    BY <1>3 DEF Begins
  <2>. QED BY <1>3, <2>1 DEF Match
<1>. QED BY <1>3, <1>10, <1>11, RunsFine DEF Running
LEMMA NextBeginsHolds == BeginsLaw'
BY BeginsHolds, PTL

\* When a line is done, the interpreter is at the globals.
LEMMA DoneIdle ==
  ASSUME GoodLine, Operands(program, Len(program)) = <<>>, NEW i, Fine(i), i.status # "crashed", i.pc > Len(program) \/ i.status = "error"
  PROVE  Idle(i)
<1>1. HeapOK(i) /\ IsInterpreter(i) /\ i.status \in {"running", "error", "crashed"} /\ i.stack \in Seq(FrameSet) /\ Len(i.stack) \in Nat
      /\ i.values \in Seq(ValueSet)
  BY InterpreterIs DEF Fine, HeapOK
<1>2. CASE i.status = "error"
  BY <1>2 DEF Fine
<1>3. CASE i.status # "error"
  <2>1. Running(i) /\ i.pc > Len(program) /\ Standing(i)
    BY <1>1, <1>3 DEF Fine, Running
  <2>2. PICK u : u = InnerOf(i.stack, Len(i.stack))
    OBVIOUS
  <2>3. At(i, i.environment, i.pc, u)
    BY <2>1, <2>2 DEF Standing
  <2>4. i.pc \in 1 .. Len(program) + 1 /\ Len(program) \in Nat /\ InnermostIn(program, i.pc - 1) = u
    BY <2>3 DEF At, GoodLine, TextIsPlaced, Placed
  <2>5. i.pc - 1 = Len(program)
    BY <2>1, <2>4
  <2>6. u = 0
    BY <2>4, <2>5 DEF GoodLine
  <2>7. i.environment = globals
    BY <2>3, <2>6 DEF At
  <2>8. i.stack = <<>>
    <3>1. PICK n \in Nat : n = Len(i.stack)
      BY <1>1
    <3>2. ASSUME n # 0
          PROVE  FALSE
      <4>1. n \in 1 .. Len(i.stack)
        BY <3>1, <3>2
      <4>2. FrameOK(i, i.stack, n)
        BY <2>1, <4>1 DEF Standing, FramesOK
      <4>3. i.stack[n].opener \in Nodes /\ (IsCall(i.stack[n]) => i.stack[n].function.declaration \in Nodes)
        BY <4>2 DEF FrameOK, FrameHas, FunctionOK
      <4>4. u \in Nodes
        BY <2>2, <3>1, <3>2, <4>3 DEF InnerOf
      <4>. QED BY <2>6, <4>4 DEF Nodes
    <3>. QED BY <1>1, <3>1, <3>2
  <2>9. i.values = <<>>
    <3>1. Match(i, i.values, Operands(program, i.pc - 1))
      BY <2>1 DEF Running
    <3>2. Len(i.values) = 0
      BY <2>5, <3>1 DEF Match
    <3>. QED BY <1>1, <3>2
  <2>. QED BY <2>7, <2>8, <2>9 DEF Idle
<1>. QED BY <1>2, <1>3

\* The session goes on: the text only grows, and what is known too.
LEMMA SessionGoesOn ==
  ASSUME LineInv, LineInv', Extends(program, program'), Known <= Known',
         \A j \in 1 .. Known - 1 : AddressGiven(locals, j)' = AddressGiven(locals, j)
  PROVE  GoesOn
<1>1. /\ TextIsPlaced /\ Placed(program) /\ Placed(program)' /\ Len(program) \in Nat /\ line \in Nat \ {0} /\ line <= Len(program) + 1
      /\ InnermostIn(program, line - 1) = 0 /\ (phase # "writing" => InnermostIn(program, Len(program)) = 0)
      /\ line' \in Nat /\ Len(program') \in Nat
  BY DEF LineInv, TextIsPlaced, Placed
<1>2. Known \in Nat /\ Known' \in Nat /\ Known - 1 \in Nat /\ Known - 1 <= Len(program) /\ InnermostIn(program, Known - 1) = 0
  <2>1. CASE phase = "executing"
    <3>1. Known = Len(program) + 1 /\ Known - 1 = Len(program)
      BY <1>1, <2>1 DEF Known
    <3>2. Known' \in Nat
      BY <1>1 DEF Known
    <3>. QED BY <1>1, <2>1, <3>1, <3>2
  <2>2. CASE phase # "executing"
    <3>1. Known = line
      BY <2>2 DEF Known
    <3>2. Known' \in Nat
      BY <1>1 DEF Known
    <3>. QED BY <1>1, <3>1, <3>2
  <2>. QED BY <2>1, <2>2
<1>3. TextGrows(Known - 1)
  BY <1>1, <1>2 DEF TextGrows
<1>. QED BY <1>1, <1>2, <1>3 DEF GoesOn

LEMMA SoundUnmoved ==
  ASSUME GoesOn, Sound, UNCHANGED interp, phase' # "executing", phase = "executing" => Idle(interp) /\ interp.status # "crashed"
  PROVE  Sound'
<1>1. PICK i : i = interp
  OBVIOUS
<1>2. HeapOK(i) /\ Idle(i) /\ i.status # "crashed"
  BY <1>1 DEF Sound
<1>3. HeapOK(i)'
  BY <1>2, HeapStays
<1>4. HeapOK(interp)'
  BY <1>1, <1>3, NextByName DEF SameByName
<1>5. Idle(interp)'
  BY <1>1, <1>2 DEF Idle, globals
<1>. QED BY <1>1, <1>2, <1>4, <1>5 DEF Sound
LEMMA SoundBegins ==
  ASSUME GoesOn, Sound, phase # "executing", phase' = "executing", LineInv', LineRuns', interp' = Restarted(interp, line), line' = line
  PROVE  Sound'
<1>1. PICK i : i = interp
  OBVIOUS
<1>2. HeapOK(i) /\ Idle(i)
  BY <1>1 DEF Sound
<1>3. HeapOK(i)' /\ Idle(i)'
  BY <1>2, HeapStays DEF Idle, globals
<1>4. Begins(i)'
  <2>1. (line \in Nat \ {0} /\ line <= Len(program) + 1 /\ Len(program) \in Nat /\ InnermostIn(program, line - 1) = 0)'
    BY DEF LineInv, TextIsPlaced, Placed
  <2>2. (Operands(program, line - 1) = <<>>)'
    BY DEF LineRuns
  <2>. QED BY <1>3, <2>1, <2>2 DEF Begins
<1>5. PICK q : q = interp'
  OBVIOUS
<1>6. q = Restarted(i, line')
  BY <1>1, <1>5
<1>7. Fine(q)'
  BY <1>4, <1>6, NextBeginsHolds DEF BeginsLaw, Restarted
<1>8. Fine(interp)'
  BY <1>5, <1>7, NextByName DEF SameByName
<1>9. HeapOK(interp)'
  BY <1>8 DEF Fine
<1>. QED BY <1>8, <1>9 DEF Sound

-----------------------------------------------------------------------------
(* Writing leaves the interpreter alone *)

\* A node as it is put in a text.
PutIn(t, node) == [node EXCEPT !.in = Unclosed(t)]
\* f has the texts on the way, one node after the other.
Extending(f, t, phrase) ==
  /\ f[0] = t /\ Extended(t, phrase) = f[Len(phrase)]
  /\ \A n \in 1 .. Len(phrase) : f[n] = Append(f[n - 1], PutIn(f[n - 1], phrase[n]))
  /\ \A n \in 0 .. Len(phrase) : f[n] \in Seq(NodeSet)
LEMMA PutInIs ==
  ASSUME NEW t \in Seq(NodeSet), NEW node \in NodeSet
  PROVE  PutIn(t, node) \in NodeSet /\ PutIn(t, node).in = Unclosed(t) /\ PutIn(t, node).kind = node.kind
<1>1. Len(t) \in Nat
  OBVIOUS
<1>2. Unclosed(t) \in Nat
  BY <1>1, UnclosedIs, InnermostIsIn
<1>. QED BY <1>2 DEF PutIn, NodeSet
LEMMA ExtendedUnfolds ==
  ASSUME NEW t \in Seq(NodeSet), NEW phrase \in Seq(NodeSet)
  PROVE  \E f : Extending(f, t, phrase)
<1> DEFINE l == Len(phrase)
           T == Seq(NodeSet)
           More(n, u) == Append(u, PutIn(u, phrase[n]))
           step == [p \in (1 .. l) \X T |-> More(p[1], p[2])]
           Is(g) == g = [n \in 0 .. l |-> IF n = 0 THEN t ELSE More(n, g[n - 1])]
           f == CHOOSE g : Is(g)
<1>1. l \in Nat /\ t \in T /\ \A n \in 1 .. l : phrase[n] \in NodeSet
  OBVIOUS
<1>2. \A n \in 1 .. l, u \in T : step[<<n, u>>] = More(n, u)
  <2> HIDE DEF l, T, More
  <2>. QED OBVIOUS
<1>3. \A n \in 1 .. l, u \in T : More(n, u) \in T
  <2> TAKE n \in 1 .. l, u \in T
  <2>1. PICK node : node = PutIn(u, phrase[n]) /\ node \in NodeSet
    BY <1>1, PutInIs
  <2>2. More(n, u) = Append(u, node)
    BY <2>1
  <2> HIDE DEF More
  <2>. QED BY <2>1, <2>2
<1>4. Extended(t, phrase) = f[l]
  BY DEF Extended, PutIn
<1> HIDE DEF step, l, T, More, f
<1>5. PICK g : g \in [0 .. l -> T] /\ Unfolds(g, l, t, step)
  <2>1. Steps(step, l, T)
    BY <1>2, <1>3 DEF Steps
  <2>. QED BY <1>1, <2>1, Recursion
<1>6. \A n \in 0 .. l : (IF n = 0 THEN t ELSE step[<<n, g[n - 1]>>]) = (IF n = 0 THEN t ELSE More(n, g[n - 1]))
  <2> TAKE n \in 0 .. l
  <2>1. n # 0 => n \in 1 .. l /\ n - 1 \in 0 .. l
    BY <1>1
  <2>2. n # 0 => g[n - 1] \in T
    BY <1>5, <2>1
  <2>. QED BY <1>2, <2>1, <2>2
<1>7. Is(g)
  BY <1>5, <1>6, Zenon DEF Unfolds
<1>8. Is(f)
  <2> HIDE DEF Is
  <2>. QED BY <1>7 DEF f
<1>9. f[0] = t /\ \A n \in 1 .. l : f[n] = More(n, f[n - 1])
  <2> DEFINE h == [n \in 0 .. l |-> IF n = 0 THEN t ELSE More(n, f[n - 1])]
  <2>1. f = h
    BY <1>8
  <2>2. 0 \in 0 .. l /\ \A n \in 1 .. l : n \in 0 .. l /\ n # 0
    BY <1>1
  <2>3. h[0] = t /\ \A n \in 1 .. l : h[n] = More(n, f[n - 1])
    BY <2>2
  <2> HIDE DEF h
  <2>. QED BY <2>1, <2>3
<1> HIDE DEF Is
<1> DEFINE S == {n \in Nat : n <= l => f[n] \in T}
<1>10. 0 \in S
  BY <1>1, <1>9
<1>11. ASSUME NEW n \in Nat, n \in S
       PROVE  n + 1 \in S
  <2> SUFFICES ASSUME n + 1 <= l
               PROVE  f[n + 1] \in T
    OBVIOUS
  <2>1. n + 1 \in 1 .. l /\ (n + 1) - 1 = n /\ n <= l
    BY <1>1
  <2>2. f[n] \in T /\ f[n + 1] = More(n + 1, f[n])
    BY <1>9, <1>11, <2>1
  <2>. QED BY <1>3, <2>1, <2>2
<1> HIDE DEF S
<1>12. Nat \subseteq S
  BY <1>10, <1>11, SetInduction
<1>13. \A n \in 0 .. l : f[n] \in T
  BY <1>1, <1>12 DEF S
<1>14. Extending(f, t, phrase)
  BY <1>4, <1>9, <1>13 DEF Extending, l, T, More
<1>. QED BY <1>14

Adjoins(t, phrase, u) ==
  /\ Len(u) = Len(t) + Len(phrase) /\ Len(t) \in Nat /\ Len(phrase) \in Nat
  /\ \A n \in 1 .. Len(phrase) : u[Len(t) + n].kind = phrase[n].kind
LEMMA PhraseAdjoins ==
  ASSUME NEW t \in Seq(NodeSet), NEW phrase \in Seq(NodeSet), NEW u, u = Extended(t, phrase)
  PROVE  Adjoins(t, phrase, u)
<1>1. PICK f : Extending(f, t, phrase)
  BY ExtendedUnfolds
<1>2. PICK l \in Nat : l = Len(phrase)
  OBVIOUS
<1>3. PICK k \in Nat : k = Len(t)
  OBVIOUS
<1>4. /\ f[0] = t /\ u = f[l] /\ \A n \in 1 .. l : f[n] = Append(f[n - 1], PutIn(f[n - 1], phrase[n])) /\ phrase[n] \in NodeSet
      /\ \A n \in 0 .. l : f[n] \in Seq(NodeSet)
  BY <1>1, <1>2 DEF Extending
<1> DEFINE S == {n \in Nat : n <= l => Len(f[n]) = k + n /\ \A m \in 1 .. n : f[n][k + m].kind = phrase[m].kind}
<1>5. 0 \in S
  BY <1>3, <1>4
<1>6. ASSUME NEW n \in Nat, n \in S
      PROVE  n + 1 \in S
  <2> SUFFICES ASSUME n + 1 <= l
               PROVE  Len(f[n + 1]) = k + (n + 1) /\ \A m \in 1 .. n + 1 : f[n + 1][k + m].kind = phrase[m].kind
    OBVIOUS
  <2>1. n + 1 \in 1 .. l /\ (n + 1) - 1 = n /\ n <= l /\ n \in 0 .. l
    OBVIOUS
  <2>2. PICK v : v = f[n]
    OBVIOUS
  <2>3. v \in Seq(NodeSet) /\ Len(v) = k + n /\ \A m \in 1 .. n : v[k + m].kind = phrase[m].kind
    BY <1>4, <1>6, <2>1, <2>2
  <2>4. PICK node : node = PutIn(v, phrase[n + 1])
    OBVIOUS
  <2>5. node \in NodeSet /\ node.kind = phrase[n + 1].kind
    BY <1>4, <2>1, <2>3, <2>4, PutInIs
  <2>6. f[n + 1] = Append(v, node)
    BY <1>4, <2>1, <2>2, <2>4
  <2>7. Len(Append(v, node)) = k + n + 1 /\ Append(v, node)[k + n + 1] = node /\ \A m \in 1 .. k + n : Append(v, node)[m] = v[m]
    BY <2>3, <2>5
  <2>8. ASSUME NEW m \in 1 .. n + 1
        PROVE  Append(v, node)[k + m].kind = phrase[m].kind
    <3>1. CASE m = n + 1
      <4>1. k + m = k + n + 1
        BY <3>1
      <4>. QED BY <2>5, <2>7, <3>1, <4>1
    <3>2. CASE m # n + 1
      <4>1. m \in 1 .. n /\ k + m \in 1 .. k + n
        BY <3>2
      <4>. QED BY <2>3, <2>7, <4>1
    <3>. QED BY <3>1, <3>2
  <2>9. k + (n + 1) = k + n + 1
    OBVIOUS
  <2>. QED BY <2>6, <2>7, <2>8, <2>9
<1> HIDE DEF S
<1>7. l \in S
  BY <1>5, <1>6, SetInduction
<1>. QED BY <1>2, <1>3, <1>4, <1>7 DEF S, Adjoins

LEMMA NothingLeftBefore ==
  ASSUME UNCHANGED <<program, line>>, Operands(program, line - 1) = <<>>
  PROVE  Operands(program, line - 1)' = <<>>
<1>1. PICK m : m = line - 1
  OBVIOUS
<1>2. Operands(program, m)' = Operands(program, m)
  BY OperandsUnchanged
<1>3. Operands(program, line - 1) = Operands(program, m)
  BY <1>1
<1>4. Operands(program, line - 1)' = Operands(program, m)'
  BY <1>1
<1>. QED BY <1>2, <1>3, <1>4

LEMMA NothingLeftAfter ==
  ASSUME UNCHANGED program, Operands(program, Len(program)) = <<>>
  PROVE  Operands(program, Len(program))' = <<>>
<1>1. PICK m : m = Len(program)
  OBVIOUS
<1>2. Operands(program, m)' = Operands(program, m)
  BY OperandsUnchanged
<1>3. Operands(program, Len(program)) = Operands(program, m)
  BY <1>1
<1>4. Operands(program, Len(program))' = Operands(program, m)'
  BY <1>1
<1>. QED BY <1>2, <1>3, <1>4

LEMMA NothingLeftThen ==
  ASSUME UNCHANGED program, line' - 1 = Len(program), Operands(program, Len(program)) = <<>>
  PROVE  Operands(program, line - 1)' = <<>>
<1>1. Operands(program, line - 1)' = Operands(program, Len(program))'
  OBVIOUS
<1>. QED BY <1>1, NothingLeftAfter

LEMMA WriteKeepsRun ==
  ASSUME LineInv, LineInv', InterpreterInv, NEW phrase \in Phrases, Write(phrase), PhrasesAssumption
  PROVE  InterpreterInv'
<1> DEFINE u == Extended(program, phrase)
<1>1. /\ phase = "writing" /\ UNCHANGED <<locals, interp, phase, line>> /\ program' = u
      /\ IsBare(phrase) => Len(program) < line /\ \A n \in 1 .. Len(phrase) - 1 : phrase[n].kind \in Expressions
      /\ phrase \in Seq(NodeSet) /\ phrase # <<>>
  BY DEF Write, PhrasesAssumption
<1>2. /\ Placed(program) /\ program \in Seq(NodeSet) /\ Len(program) \in Nat /\ line \in Nat \ {0} /\ line <= Len(program) + 1
  BY DEF LineInv, TextIsPlaced, Placed
<1>3. Placed(u) /\ Extends(program, u)
  BY <1>1, <1>2, ExtendedIs
<1>4. Adjoins(program, phrase, u)
  BY <1>1, <1>2, PhraseAdjoins
<1> HIDE DEF u
<1>5. Known = line /\ Known' = line
  BY <1>1 DEF Known
<1>6. \A j : AddressGiven(locals, j)' = AddressGiven(locals, j)
  BY <1>1 DEF AddressGiven
<1>7. GoesOn
  <2>1. Extends(program, program')
    BY <1>1, <1>3
  <2>2. Known <= Known'
    BY <1>2, <1>5
  <2>. QED BY <1>6, <2>1, <2>2, SessionGoesOn
<1>8. Sound'
  BY <1>1, <1>7, SoundUnmoved DEF InterpreterInv
<1>9. Operands(program', line - 1) = <<>>
  <2>1. line - 1 \in 0 .. Len(program)
    BY <1>2
  <2>. QED BY <1>1, <1>2, <1>3, <2>1, OperandsStay DEF InterpreterInv, LineRuns
<1>10. ASSUME Len(u) >= line, u[Len(u)].kind = "bare", NEW j \in line .. Len(u) - 1
       PROVE  u[j].kind \in Expressions
  <2>1. PICK k, l \in Nat : k = Len(program) /\ l = Len(phrase)
    BY <1>1, <1>2
  <2>2. l \in 1 .. l /\ Len(u) = k + l /\ \A n \in 1 .. l : u[k + n].kind = phrase[n].kind
    <3>1. l # 0
      BY <1>1, <2>1
    <3>. QED BY <1>4, <2>1, <3>1 DEF Adjoins
  <2>3. IsBare(phrase)
    BY <1>10, <2>1, <2>2 DEF IsBare, Last
  <2>4. k < line /\ \A n \in 1 .. l - 1 : phrase[n].kind \in Expressions
    BY <1>1, <2>1, <2>3
  <2>5. k = line - 1
    BY <1>2, <2>1, <2>4
  <2>6. j - k \in 1 .. l - 1 /\ j - k \in 1 .. l /\ k + (j - k) = j
    BY <1>2, <2>1, <2>2, <2>5
  <2>. QED BY <2>2, <2>4, <2>6
<1>11. (Operands(program, line - 1))' = <<>>
  BY <1>1, <1>9 DEF Operands
<1>12. (Len(program) >= line /\ program[Len(program)].kind = "bare" => AllExpressions)'
  BY <1>1, <1>10 DEF AllExpressions, Expressions
<1>13. \A j \in DOMAIN locals : locals[j] # <<>>
  BY DEF InterpreterInv, LineRuns
<1>14. phase' = "writing" /\ UNCHANGED locals
  BY <1>1
<1>15. LineRuns'
  BY <1>11, <1>12, <1>13, <1>14 DEF LineRuns
<1>. QED BY <1>8, <1>15 DEF InterpreterInv

\* With the text as it is.
LEMMA SameTextGoesOn ==
  ASSUME LineInv, LineInv', UNCHANGED program, Known <= Known',
         \A j \in 1 .. Known - 1 : AddressGiven(locals, j)' = AddressGiven(locals, j)
  PROVE  GoesOn
<1>1. Extends(program, program')
  BY DEF LineInv, TextIsPlaced, Placed, Extends
<1>. QED BY <1>1, SessionGoesOn

\* What is settled about all nodes stays so if nothing is written.
LEMMA AllGoodStay ==
  ASSUME LineInv, LineInv', UNCHANGED <<program, line, locals>>, phase # "writing" \/ InnermostIn(program, Len(program)) = 0,
         \A j \in line .. Len(program) : Good(j)
  PROVE  \A j \in line' .. Len(program') : Good(j)'
<1>1. /\ Placed(program) /\ Placed(program)' /\ Len(program) \in Nat /\ line \in Nat \ {0} /\ InnermostIn(program, Len(program)) = 0
      /\ program' = program /\ line' = line
  BY DEF LineInv, TextIsPlaced, Placed
<1>2. TextGrows(Len(program))
  BY <1>1 DEF TextGrows, Extends
<1>3. ASSUME NEW j \in line .. Len(program)
      PROVE  Good(j)'
  <2>1. j \in 1 .. Len(program) /\ Good(j)
    BY <1>1
  <2>2. AddressGiven(locals, j)' = AddressGiven(locals, j)
    BY DEF AddressGiven
  <2>. QED BY <1>2, <2>1, <2>2, GoodKept
<1>. QED BY <1>1, <1>3

LEMMA EnterExpressionKeepsRun ==
  ASSUME LineInv, LineInv', InterpreterInv, EnterExpression
  PROVE  InterpreterInv'
<1>1. /\ phase = "writing" /\ Len(program) >= line /\ Last(program).kind = "bare" /\ phase' = "executing"
      /\ interp' = Restarted(interp, line) /\ UNCHANGED <<program, locals, line>>
  BY DEF EnterExpression, Restarted
<1>2. /\ TextIsPlaced /\ Placed(program) /\ Len(program) \in Nat /\ line \in Nat \ {0} /\ line <= Len(program) + 1
      /\ InnermostIn(program, Len(program))' = 0
  BY <1>1 DEF LineInv, TextIsPlaced, Placed
<1>3. Len(program) \in Nodes /\ program[Len(program)].kind = "bare" /\ InnermostIn(program, Len(program)) = 0
  <2>1. program[Len(program)].kind = "bare" /\ Len(program) \in Nodes
    BY <1>1, <1>2 DEF Last, Nodes
  <2>2. InnermostIn(program, Len(program)) = 0
    BY <1>1, <1>2, ScopesStay
  <2>. QED BY <2>1, <2>2
<1>4. Operands(program, Len(program)) = <<>>
  <2>1. "bare" \notin Expressions
    BY DEF Expressions
  <2>. QED BY <1>2, <1>3, <2>1, WaitingAt
<1>5. \A j \in line' .. Len(program') : Good(j)'
  <2>1. AllExpressions
    BY <1>1, <1>3 DEF InterpreterInv, LineRuns
  <2>2. \A j \in line .. Len(program) : Good(j)
    BY <1>1, <1>3, <2>1, BareGood
  <2>. QED BY <1>1, <1>3, <2>2, AllGoodStay
<1>6. Operands(program, line - 1)' = <<>> /\ Operands(program, Len(program))' = <<>>
  <2>1. Operands(program, line - 1) = <<>>
    BY DEF InterpreterInv, LineRuns
  <2>. QED BY <1>1, <1>4, <2>1, NothingLeftBefore, NothingLeftAfter
<1>7. \A j \in DOMAIN locals : locals[j] # <<>>
  BY DEF InterpreterInv, LineRuns
<1>8. LineRuns'
  BY <1>1, <1>5, <1>6, <1>7 DEF LineRuns
<1>9. GoesOn
  <2>1. Known = line /\ Known' = Len(program) + 1 /\ Known <= Known'
    BY <1>1, <1>2 DEF Known
  <2>2. \A j : AddressGiven(locals, j)' = AddressGiven(locals, j)
    BY <1>1 DEF AddressGiven
  <2>. QED BY <1>1, <2>1, <2>2, SameTextGoesOn
<1>10. Sound'
  BY <1>1, <1>8, <1>9, SoundBegins DEF InterpreterInv
<1>. QED BY <1>8, <1>10 DEF InterpreterInv

LEMMA EnterProgramKeepsRun ==
  ASSUME LineInv, LineInv', InterpreterInv, EnterProgram
  PROVE  InterpreterInv'
<1>1. /\ phase = "writing" /\ phase' = "resolving" /\ UNCHANGED <<program, locals, interp, line>> /\ Operands(program, Len(program)) = <<>>
  BY DEF EnterProgram
<1>2. line \in Nat
  BY DEF LineInv
<1>3. Operands(program, line - 1)' = <<>> /\ Operands(program, Len(program))' = <<>>
  <2>1. Operands(program, line - 1) = <<>>
    BY DEF InterpreterInv, LineRuns
  <2>. QED BY <1>1, <2>1, NothingLeftBefore, NothingLeftAfter
<1>4. \A j \in DOMAIN locals : locals[j] # <<>>
  BY DEF InterpreterInv, LineRuns
<1>5. LineRuns'
  BY <1>1, <1>3, <1>4 DEF LineRuns
<1>6. GoesOn
  <2>1. Known = line /\ Known' = line /\ Known <= Known'
    BY <1>1, <1>2 DEF Known
  <2>2. \A j : AddressGiven(locals, j)' = AddressGiven(locals, j)
    BY <1>1 DEF AddressGiven
  <2>. QED BY <1>1, <2>1, <2>2, SameTextGoesOn
<1>7. Sound'
  BY <1>1, <1>6, SoundUnmoved DEF InterpreterInv
<1>. QED BY <1>5, <1>7 DEF InterpreterInv

\* A resolved use has an address.
LEMMA ResolvingGives ==
  ASSUME ResolverStep, \A j \in DOMAIN locals : locals[j] # <<>>
  PROVE  \A j \in DOMAIN locals' : locals'[j] # <<>>
<1>1. ASSUME NEW r, NEW name, NEW read, resolveLocal(r, name, read)
      PROVE  \A j \in DOMAIN locals' : locals'[j] # <<>>
  <2>1. UNCHANGED locals \/ \E a, b : locals' = Given(<<a, b>>)
    BY <1>1 DEF resolveLocal
  <2>2. ASSUME NEW a, NEW b, locals' = Given(<<a, b>>)
        PROVE  \A j \in DOMAIN locals' : locals'[j] # <<>>
    <3>1. PICK at : at = <<a, b>>
      OBVIOUS
    <3>2. at # <<>>
      BY <3>1
    <3>. QED BY <2>2, <3>1, <3>2 DEF Given
  <2>. QED BY <2>1, <2>2
<1>2. ASSUME NEW r, Visited(r)
      PROVE  \A j \in DOMAIN locals' : locals'[j] # <<>>
  BY <1>2 DEF Visited
<1>3. CASE VisitBlockStmt \/ VisitVarStmt \/ VisitFunctionStmt \/ VisitClassStmt \/ EndVisit \/ VisitReturnStmt \/ VisitOther
  <2>1. \E r : Visited(r)
    BY <1>3 DEF VisitBlockStmt, VisitVarStmt, VisitFunctionStmt, VisitClassStmt, ClassName, ClassBody, ClassMethod, EndVisit,
       VisitReturnStmt, VisitOther
  <2>. QED BY <1>2, <2>1
<1>4. CASE VisitVariableExpr \/ VisitAssignExpr \/ VisitThisExpr \/ VisitSuperExpr
  <2>1. (\E r : Visited(r)) \/ \E r, name, read : resolveLocal(r, name, read)
    <3>1. VisitVariableExpr \/ VisitAssignExpr => \E r, name, read : resolveLocal(r, name, read)
      BY DEF VisitVariableExpr, VisitAssignExpr
    <3>2. VisitThisExpr => (\E r : Visited(r)) \/ \E r, name, read : resolveLocal(r, name, read)
      BY DEF VisitThisExpr
    <3>3. VisitSuperExpr => (\E r : Visited(r)) \/ \E r, name, read : resolveLocal(r, name, read)
      BY DEF VisitSuperExpr
    <3>. QED BY <1>4, <3>1, <3>2, <3>3
  <2>. QED BY <1>1, <1>2, <2>1
<1>. QED BY <1>3, <1>4 DEF ResolverStep

LEMMA ResolvingKeepsRun ==
  ASSUME LineInv, LineInv', ResolvingInv, InterpreterInv, Resolving
  PROVE  InterpreterInv'
<1>1. phase = "resolving" /\ phase' = phase /\ UNCHANGED <<program, interp, line>> /\ ResolverStep
  BY DEF Resolving
<1>2. line \in Nat /\ TextIsPlaced /\ ResolverInv
  BY <1>1 DEF LineInv, ResolvingInv
<1>3. OnlyGives(locals, locals', resolver.at)
  BY <1>1, <1>2, StepAdvances DEF Advances
<1>4. resolver.at \in Nat /\ resolver.at >= line
  BY <1>2 DEF ResolverInv
<1>5. \A j \in 1 .. line - 1 : AddressGiven(locals, j)' = AddressGiven(locals, j)
  <2> TAKE j \in 1 .. line - 1
  <2>1. j # resolver.at
    BY <1>2, <1>4
  <2>. QED BY <1>3, <2>1 DEF OnlyGives, AddressGiven
<1>6. GoesOn
  <2>1. Known = line /\ Known' = line /\ Known <= Known'
    BY <1>1, <1>2 DEF Known
  <2>. QED BY <1>1, <1>5, <2>1, SameTextGoesOn
<1>7. Sound'
  BY <1>1, <1>6, SoundUnmoved DEF InterpreterInv
<1>8. Operands(program, line - 1)' = <<>> /\ Operands(program, Len(program))' = <<>>
  <2>1. Operands(program, line - 1) = <<>> /\ Operands(program, Len(program)) = <<>>
    BY <1>1 DEF InterpreterInv, LineRuns
  <2>. QED BY <1>1, <2>1, NothingLeftBefore, NothingLeftAfter
<1>9. \A j \in DOMAIN locals' : locals'[j] # <<>>
  BY <1>1, ResolvingGives DEF InterpreterInv, LineRuns
<1>10. LineRuns'
  BY <1>1, <1>8, <1>9 DEF LineRuns
<1>. QED BY <1>7, <1>10 DEF InterpreterInv

LEMMA NextLineKeepsRun ==
  ASSUME LineInv, LineInv', InterpreterInv, Refuse \/ ExecutionDone
  PROVE  InterpreterInv'
<1>1. /\ phase' = "writing" /\ line' = Len(program) + 1 /\ UNCHANGED <<program, locals, interp>>
      /\ phase # "writing"
  BY DEF Refuse, ExecutionDone, NextLine, ResolvingDone
<1>2. Len(program) \in Nat /\ line \in Nat /\ line <= Len(program) + 1
  BY DEF LineInv, TextIsPlaced, Placed
<1>3. GoesOn
  <2>1. Known \in {line, Len(program) + 1} /\ Known' = Len(program) + 1 /\ Known <= Known'
    BY <1>1, <1>2 DEF Known
  <2>2. \A j : AddressGiven(locals, j)' = AddressGiven(locals, j)
    BY <1>1 DEF AddressGiven
  <2>. QED BY <1>1, <2>1, <2>2, SameTextGoesOn
<1>4. phase = "executing" => Idle(interp) /\ interp.status # "crashed"
  <2> SUFFICES ASSUME phase = "executing"
               PROVE  Idle(interp) /\ interp.status # "crashed"
    OBVIOUS
  <2>1. interp.status # "crashed" /\ (interp.pc > Len(program) \/ interp.status = "error")
    BY DEF Refuse, ResolvingDone, ExecutionDone
  <2>2. GoodLine /\ Operands(program, Len(program)) = <<>> /\ Fine(interp)
    BY GoodLineIs DEF InterpreterInv, LineRuns, Sound
  <2>. QED BY <2>1, <2>2, DoneIdle
<1>5. Sound'
  BY <1>1, <1>3, <1>4, SoundUnmoved DEF InterpreterInv
<1>6. Operands(program, line - 1)' = <<>>
  <2>1. Operands(program, Len(program)) = <<>>
    BY <1>1 DEF InterpreterInv, LineRuns
  <2>2. line' - 1 = Len(program)
    BY <1>1, <1>2
  <2>. QED BY <1>1, <2>1, <2>2, NothingLeftThen
<1>7. \A j \in DOMAIN locals : locals[j] # <<>>
  BY DEF InterpreterInv, LineRuns
<1>8. ~(Len(program') >= line')
  BY <1>1, <1>2
<1>9. LineRuns'
  BY <1>1, <1>6, <1>7, <1>8 DEF LineRuns
<1>. QED BY <1>5, <1>9 DEF InterpreterInv

LEMMA AcceptKeepsRun ==
  ASSUME LineInv, LineInv', ResolvingInv, BegunInv, RefusingInv, InterpreterInv, Accept
  PROVE  InterpreterInv'
<1>1. /\ phase = "resolving" /\ phase' = "executing" /\ interp' = Restarted(interp, line) /\ UNCHANGED <<program, locals, line>>
      /\ resolver.at > Len(program) /\ resolver.errs = {}
  BY DEF Accept, ResolvingDone, Restarted
<1>2. Len(program) \in Nat /\ line \in Nat /\ line <= Len(program) + 1
  BY DEF LineInv, TextIsPlaced, Placed
<1>3. \A j \in line' .. Len(program') : Good(j)'
  <2>1. ResolverInv /\ RefusesInv
    BY <1>1 DEF ResolvingInv, RefusingInv
  <2>2. \A j \in line .. Len(program) : Good(j)
    BY <1>1, <2>1, AcceptedGood
  <2>. QED BY <1>1, <2>2, AllGoodStay
<1>4. Operands(program, line - 1)' = <<>> /\ Operands(program, Len(program))' = <<>>
  <2>1. Operands(program, line - 1) = <<>> /\ Operands(program, Len(program)) = <<>>
    BY <1>1 DEF InterpreterInv, LineRuns
  <2>. QED BY <1>1, <2>1, NothingLeftBefore, NothingLeftAfter
<1>5. \A j \in DOMAIN locals : locals[j] # <<>>
  BY DEF InterpreterInv, LineRuns
<1>6. LineRuns'
  BY <1>1, <1>3, <1>4, <1>5 DEF LineRuns
<1>7. GoesOn
  <2>1. Known = line /\ Known' = Len(program) + 1 /\ Known <= Known'
    BY <1>1, <1>2 DEF Known
  <2>2. \A j : AddressGiven(locals, j)' = AddressGiven(locals, j)
    BY <1>1 DEF AddressGiven
  <2>. QED BY <1>1, <2>1, <2>2, SameTextGoesOn
<1>8. Sound'
  BY <1>1, <1>6, <1>7, SoundBegins DEF InterpreterInv
<1>. QED BY <1>6, <1>8 DEF InterpreterInv

LEMMA ExecutionKeepsRun ==
  ASSUME LineInv, LineInv', InterpreterInv, Execution \/ Printing
  PROVE  InterpreterInv'
<1>1. phase = "executing" /\ phase' = "executing" /\ UNCHANGED <<program, line, phase>> /\ (InterpreterStep \/ Bare)
  BY DEF Execution, Printing
<1>2. GoodLine /\ Fine(interp)
  BY <1>1, GoodLineIs DEF InterpreterInv, Sound
<1>3. Fine(interp') /\ UNCHANGED locals
  BY <1>1, <1>2, StepFine
<1>4. Fine(interp)'
  BY <1>1, <1>2, <1>3, RunStays DEF Paused
<1>5. Sound'
  BY <1>1, <1>4 DEF Sound, Fine
<1>6. \A j \in line' .. Len(program') : Good(j)'
  <2>1. \A j \in line .. Len(program) : Good(j)
    BY <1>1 DEF InterpreterInv, LineRuns
  <2>. QED BY <1>1, <1>3, <2>1, AllGoodStay
<1>7. Operands(program, line - 1)' = <<>> /\ Operands(program, Len(program))' = <<>>
  <2>1. Operands(program, line - 1) = <<>> /\ Operands(program, Len(program)) = <<>>
    BY <1>1 DEF InterpreterInv, LineRuns
  <2>. QED BY <1>1, <2>1, NothingLeftBefore, NothingLeftAfter
<1>8. \A j \in DOMAIN locals : locals[j] # <<>>
  BY DEF InterpreterInv, LineRuns
<1>9. LineRuns'
  BY <1>1, <1>3, <1>6, <1>7, <1>8 DEF LineRuns
<1>. QED BY <1>5, <1>9 DEF InterpreterInv

-----------------------------------------------------------------------------
(* Every step of a session *)

LEMMA RunStarts ==
  ASSUME Init
  PROVE  InterpreterInv
<1>1. program = <<>> /\ line = 1 /\ phase = "writing" /\ locals = <<>> /\ interp = NewWithWriter /\ Len(program) = 0
  BY DEF Init
<1>2. PICK i : i = NewWithWriter
  OBVIOUS
<1>3. PICK none : none = <<>>
  OBVIOUS
<1>4. PICK top : top = [enclosing |-> 0, scope |-> none, slots |-> none]
  OBVIOUS
<1>5. /\ i = [environment |-> 1, envs |-> <<top>>, globals |-> none, objects |-> none, stack |-> none, values |-> none,
              pc |-> 1, status |-> "running"]
  BY <1>2, <1>3, <1>4 DEF NewWithWriter, globals
<1>6. /\ i.environment = 1 /\ i.envs = <<top>> /\ i.globals = none /\ i.objects = none /\ i.stack = none /\ i.values = none
      /\ i.pc = 1 /\ i.status = "running"
  BY <1>5
<1>7. none \in Seq(SlotSet) /\ none \in Seq(FrameSet) /\ none \in Seq(ValueSet) /\ Len(none) = 0 /\ DOMAIN none = {}
  BY <1>3
<1>8. top \in EnvSet
  BY <1>3, <1>4, <1>7 DEF EnvSet
<1>9. <<top>> \in Seq(EnvSet) /\ Len(<<top>>) = 1 /\ <<top>>[1] = top
  BY <1>8
<1>10. IsInterpreter(i)
  <2>1. i \in [environment : Nat, envs : Seq(EnvSet), globals : {none}, objects : {none}, stack : Seq(FrameSet),
               values : Seq(ValueSet), pc : Nat, status : {"running", "error", "crashed"}]
    BY <1>5, <1>7, <1>9
  <2>2. IsSequence(i.objects)
    BY <1>6, <1>7 DEF IsSequence
  <2>. QED BY <1>6, <2>1, <2>2 DEF IsInterpreter
<1>11. HeapOK(i)
  <2>1. Len(i.envs) = 1 /\ i.envs[1] = [enclosing |-> 0, scope |-> <<>>, slots |-> <<>>]
    BY <1>3, <1>4, <1>6, <1>9
  <2>2. Len(i.objects) = 0 /\ DOMAIN i.globals = {}
    BY <1>6, <1>7
  <2>. QED BY <1>10, <2>1, <2>2 DEF HeapOK, AllOK
<1>12. Idle(i)
  BY <1>3, <1>6 DEF Idle, globals
<1>13. Sound
  BY <1>1, <1>2, <1>6, <1>11, <1>12 DEF Sound
<1>14. Operands(program, line - 1) = <<>>
  <2>1. program \in Seq(NodeSet)
    BY <1>1
  <2>2. Operands(program, 0) = <<>>
    BY <2>1, OperandsNext
  <2>3. line - 1 = 0
    BY <1>1
  <2>. QED BY <2>2, <2>3
<1>15. \A j \in DOMAIN locals : locals[j] # <<>>
  BY <1>1
<1>16. LineRuns
  BY <1>1, <1>14, <1>15 DEF LineRuns
<1>. QED BY <1>13, <1>16 DEF InterpreterInv

LEMMA NothingKeepsRun ==
  ASSUME LineInv, LineInv', InterpreterInv, UNCHANGED vars
  PROVE  InterpreterInv'
<1>1. UNCHANGED <<program, locals, interp, line, phase>>
  BY DEF vars
<1>2. GoesOn
  <2>1. Known' = Known /\ Known \in Nat
    BY <1>1 DEF Known, LineInv, TextIsPlaced, Placed
  <2>2. \A j : AddressGiven(locals, j)' = AddressGiven(locals, j)
    BY <1>1 DEF AddressGiven
  <2>. QED BY <1>1, <2>1, <2>2, SameTextGoesOn
<1>3. HeapOK(interp)'
  <2>1. PICK i : i = interp
    OBVIOUS
  <2>2. HeapOK(i)'
    BY <1>2, <2>1, HeapStays DEF InterpreterInv, Sound
  <2>. QED BY <1>1, <2>1, <2>2
<1>4. phase = "executing" => Fine(interp)'
  <2> SUFFICES ASSUME phase = "executing"
               PROVE  Fine(interp)'
    OBVIOUS
  <2>1. Paused
    BY <1>1, GoodLineIs DEF Paused, InterpreterInv
  <2>2. PICK i : i = interp
    OBVIOUS
  <2>3. Fine(i)
    BY <2>2 DEF InterpreterInv, Sound
  <2>4. Fine(i)'
    BY <2>1, <2>3, FineStays
  <2>. QED BY <1>1, <2>2, <2>4
<1>5. phase # "executing" => Idle(interp') /\ interp'.status # "crashed"
  BY <1>1 DEF InterpreterInv, Sound
<1>6. Sound'
  BY <1>1, <1>3, <1>4, <1>5 DEF Sound, Idle
<1>7. Operands(program, line - 1)' = <<>>
  BY <1>1, NothingLeftBefore DEF InterpreterInv, LineRuns
<1>8. phase # "writing" => Operands(program, Len(program))' = <<>>
  BY <1>1, NothingLeftAfter DEF InterpreterInv, LineRuns
<1>9. \A j \in DOMAIN locals : locals[j] # <<>>
  BY DEF InterpreterInv, LineRuns
<1>10. phase' = "writing" /\ Len(program') >= line' /\ program'[Len(program')].kind = "bare" => AllExpressions'
  <2>1. phase = "writing" /\ Len(program) >= line /\ program[Len(program)].kind = "bare" => AllExpressions
    BY DEF InterpreterInv, LineRuns
  <2>2. AllExpressions' <=> AllExpressions
    BY <1>1 DEF AllExpressions
  <2>. QED BY <1>1, <2>1, <2>2
<1>11. phase' = "executing" => \A j \in line' .. Len(program') : Good(j)'
  <2> SUFFICES ASSUME phase' = "executing"
               PROVE  \A j \in line' .. Len(program') : Good(j)'
    OBVIOUS
  <2>1. \A j \in line .. Len(program) : Good(j)
    BY <1>1 DEF InterpreterInv, LineRuns
  <2>. QED BY <1>1, <2>1, AllGoodStay
<1>12. LineRuns'
  BY <1>1, <1>7, <1>8, <1>9, <1>10, <1>11 DEF LineRuns
<1>. QED BY <1>6, <1>12 DEF InterpreterInv

LEMMA InterpreterHolds == Spec => [](LineInv /\ InterpreterInv)
<1>1. Init => InterpreterInv
  BY RunStarts
<1>2. /\ LineInv /\ ResolvingInv /\ BegunInv /\ RefusingInv /\ InterpreterInv /\ [Next]_vars /\ LineInv'
      => InterpreterInv'
  <2> SUFFICES ASSUME LineInv, ResolvingInv, BegunInv, RefusingInv, InterpreterInv, [Next]_vars, LineInv'
               PROVE  InterpreterInv'
    OBVIOUS
  <2>1. CASE \E phrase \in Phrases : Write(phrase)
    BY <2>1, WriteKeepsRun, PhrasesAssumption
  <2>2. CASE EnterExpression
    BY <2>2, EnterExpressionKeepsRun
  <2>3. CASE EnterProgram
    BY <2>3, EnterProgramKeepsRun
  <2>4. CASE Resolving
    BY <2>4, ResolvingKeepsRun
  <2>5. CASE Refuse \/ ExecutionDone
    BY <2>5, NextLineKeepsRun
  <2>6. CASE Accept
    BY <2>6, AcceptKeepsRun
  <2>7. CASE Execution \/ Printing
    BY <2>7, ExecutionKeepsRun
  <2>8. CASE Over \/ UNCHANGED vars
    <3>1. UNCHANGED vars
      BY <2>8 DEF Over
    <3>. QED BY <3>1, NothingKeepsRun
  <2>. QED BY <2>1, <2>2, <2>3, <2>4, <2>5, <2>6, <2>7, <2>8 DEF Next
<1>. QED BY <1>1, <1>2, LineInvHolds, RefusingHolds, PTL DEF Spec

\* The scopes of the environment the interpreter is in are those around the node
\* that is next, however it got there: a call entered or left, a return, a
\* runtime error, a line refused; between lines it is back at the globals
\* (resolver.go:342-346, 257-276, interpreter.go:495-503).
THEOREM InScopeAlways == Spec => []InScope
<1>1. LineInv /\ InterpreterInv => InScope
  <2> SUFFICES ASSUME LineInv, InterpreterInv
               PROVE  InScope
    OBVIOUS
  <2>1. phase # "executing" => interp.environment = globals /\ interp.stack = <<>>
    BY DEF InterpreterInv, Sound, Idle
  <2>2. ASSUME phase = "executing", interp.status = "running"
        PROVE  ScopesOfEnvironment(interp.environment) = IF interp.pc \in Nodes THEN ScopesAround(interp.pc) ELSE <<>>
    <3>1. Standing(interp) /\ HeapOK(interp)
      BY <2>2 DEF InterpreterInv, Sound, Fine, Running, Standing
    <3>2. PICK u : u = InnerOf(interp.stack, Len(interp.stack))
      OBVIOUS
    <3>3. PICK e, p : e = interp.environment /\ p = interp.pc
      OBVIOUS
    <3>4. At(interp, e, p, u)
      BY <3>1, <3>2, <3>3 DEF Standing
    <3>5. /\ p \in 1 .. Len(program) + 1 /\ InnermostIn(program, p - 1) = u
          /\ e \in 1 .. Len(interp.envs) /\ interp.envs[e].scope = InnerScope(u)
      BY <3>4 DEF At
    <3>6. Placed(program) /\ Len(program) \in Nat /\ TextIsPlaced
      BY DEF LineInv, TextIsPlaced, Placed
    <3>7. Follows(ScopesOfEnvironment(e), InnerScope(u))
      BY <3>1, <3>5, ScopesOfEnvironmentIs
    <3>8. CASE p \in Nodes
      <4>1. program[p].in = u
        BY <3>5, <3>6, <3>8 DEF Placed, Nodes
      <4>2. Follows(ScopesAround(p), InnerScope(u))
        BY <3>6, <3>8, <4>1, ChainAround, ChainFollows
      <4>3. ScopesOfEnvironment(e) = ScopesAround(p)
        BY <3>7, <4>2, FollowsOnce
      <4>. QED BY <3>3, <3>8, <4>3
    <3>9. CASE p \notin Nodes
      <4>1. p - 1 = Len(program)
        BY <3>5, <3>6, <3>9 DEF Nodes
      <4>2. u = 0
        BY <2>2, <3>5, <4>1 DEF LineInv
      <4>3. PICK none : none = <<>>
        OBVIOUS
      <4>4. Follows(none, InnerScope(u))
        <5>1. none \in Seq(ScopeSet) /\ Len(none) = 0 /\ InnerScope(u) = <<>>
          BY <4>2, <4>3 DEF InnerScope
        <5>. QED BY <5>1 DEF Follows, After
      <4>5. ScopesOfEnvironment(e) = none
        BY <3>7, <4>4, FollowsOnce
      <4>. QED BY <3>3, <3>9, <4>3, <4>5
    <3>. QED BY <3>8, <3>9
  <2>. QED BY <2>1, <2>2 DEF InScope
<1>. QED BY <1>1, InterpreterHolds, PTL

\* The n-th slot of an environment is the n-th declaration of its scope, so the
\* pair of numbers the resolver gave a use finds the variable its name means
\* (environment.go:34-39, 81-95).
THEOREM SlotsLineUpAlways == Spec => []SlotsLineUp
<1>1. InterpreterInv => SlotsLineUp
  <2> SUFFICES ASSUME InterpreterInv, NEW e \in DOMAIN interp.envs \ {globals}
               PROVE  /\ Len(interp.envs[e].slots) <= Len(Declarations(interp.envs[e].scope))
                      /\ \A n \in DOMAIN interp.envs[e].slots :
                           interp.envs[e].slots[n].name = Declarations(interp.envs[e].scope)[n].name
    BY DEF SlotsLineUp
  <2>1. HeapOK(interp) /\ IsInterpreter(interp)
    BY DEF InterpreterInv, Sound, HeapOK
  <2>2. interp.envs \in Seq(EnvSet) /\ Len(interp.envs) \in Nat
    BY <2>1, InterpreterIs
  <2>3. e \in 2 .. Len(interp.envs) /\ e \in 1 .. Len(interp.envs)
    BY <2>2 DEF globals
  <2>4. EnvFits(interp, interp.envs[e])
    BY <2>1, <2>3 DEF HeapOK, EnvOK
  <2>5. interp.envs[e].slots \in Seq(SlotSet)
    BY <2>1, <2>3, InterpreterIs
  <2>6. DOMAIN interp.envs[e].slots = 1 .. Len(interp.envs[e].slots)
    BY <2>5
  <2>. QED BY <2>4, <2>6 DEF EnvFits
<1>. QED BY <1>1, InterpreterHolds, PTL

\* No slot is out of range, no return is outside a call, and super is a class,
\* whatever the session does: the process dies only at an assignment to a local
\* within its own initializer (environment.go:81-95, interpreter.go:194-219).
THEOREM CrashesOnlyInInitializersAlways == Spec => []CrashesOnlyInInitializers
<1>1. InterpreterInv => CrashesOnlyInInitializers
  BY DEF InterpreterInv, Sound, Fine, CrashesOnlyInInitializers
<1>. QED BY <1>1, InterpreterHolds, PTL

-----------------------------------------------------------------------------
(* What a step leaves of the classes and of what super finds *)

ShapedEnv(env) == env \in [enclosing : {env.enclosing}, scope : {env.scope}, slots : {env.slots}]
Shaped(i) ==
  /\ i \in [environment : {i.environment}, envs : {i.envs}, globals : {i.globals}, objects : {i.objects}, stack : {i.stack},
            values : {i.values}, pc : {i.pc}, status : {i.status}]
  /\ IsSequence(i.envs) /\ IsSequence(i.objects) /\ Len(i.envs) \in Nat /\ Len(i.objects) \in Nat
  /\ \A e \in 1 .. Len(i.envs) : ShapedEnv(i.envs[e])
IsSuper(i, x) == x \in 2 .. Len(i.envs) /\ i.envs[x].scope[2] = "super"
SameClass(o, r) == r.isClass = o.isClass /\ (o.isClass => r.methods = o.methods /\ r.classMethods = o.classMethods)
Keeps(i, q) ==
  /\ Len(i.envs) <= Len(q.envs) /\ Len(i.objects) <= Len(q.objects)
  /\ \A x \in 1 .. Len(i.envs) : /\ q.envs[x].scope = i.envs[x].scope
                                 /\ IsSuper(i, x) => q.envs[x].slots = i.envs[x].slots
  /\ \A id \in 1 .. Len(i.objects) : SameClass(i.objects[id], q.objects[id])
\* No environment for super is new, or one that is has a class there was.
Lasts(i, q) == Shaped(i) /\ Shaped(q) /\ Keeps(i, q) /\ \A x \in Len(i.envs) + 1 .. Len(q.envs) : ~IsSuper(q, x)
Ages(i, q) ==
  /\ Shaped(i) /\ Shaped(q) /\ Keeps(i, q)
  /\ \A x \in Len(i.envs) + 1 .. Len(q.envs) : IsSuper(q, x) => q.envs[x].slots[1].value.id <= Len(i.objects)

LEMMA ShapedIs ==
  ASSUME NEW i, IsInterpreter(i)
  PROVE  Shaped(i)
<1>1. i.envs \in Seq(EnvSet) /\ Len(i.envs) \in Nat /\ Len(i.objects) \in Nat /\ \A e \in 1 .. Len(i.envs) : i.envs[e] \in EnvSet
  BY InterpreterIs
<1>2. \A env \in EnvSet : ShapedEnv(env)
  BY DEF EnvSet, ShapedEnv
<1>3. IsSequence(i.envs) /\ IsSequence(i.objects)
  BY <1>1 DEF IsInterpreter, IsSequence
<1>4. i \in [environment : {i.environment}, envs : {i.envs}, globals : {i.globals}, objects : {i.objects}, stack : {i.stack},
             values : {i.values}, pc : {i.pc}, status : {i.status}]
  BY DEF IsInterpreter
<1>. QED BY <1>1, <1>2, <1>3, <1>4 DEF Shaped

LEMMA LastsMore ==
  ASSUME NEW i, NEW m, NEW q, Lasts(m, q)
  PROVE  /\ Lasts(i, m) => Lasts(i, q)
         /\ Ages(i, m) => Ages(i, q)
<1> DEFINE a == Len(i.envs)
           b == Len(m.envs)
           c == Len(q.envs)
<1>1. SUFFICES ASSUME Ages(i, m)
               PROVE  Ages(i, q) /\ (Lasts(i, m) => Lasts(i, q))
  BY DEF Lasts, Ages
<1>2. a \in Nat /\ b \in Nat /\ c \in Nat /\ a <= b /\ b <= c /\ Len(i.objects) \in Nat /\ Len(m.objects) \in Nat /\ Len(q.objects) \in Nat
      /\ Len(i.objects) <= Len(m.objects) /\ Len(m.objects) <= Len(q.objects)
  BY <1>1 DEF Lasts, Ages, Shaped, Keeps
<1>3. \A x \in 1 .. b : IsSuper(q, x) <=> IsSuper(m, x)
  <2> TAKE x \in 1 .. b
  <2>1. q.envs[x].scope = m.envs[x].scope
    BY DEF Lasts, Keeps
  <2>. QED BY <1>2, <2>1 DEF IsSuper
<1>4. \A x \in 1 .. a : IsSuper(m, x) <=> IsSuper(i, x)
  <2> TAKE x \in 1 .. a
  <2>1. m.envs[x].scope = i.envs[x].scope
    BY <1>1 DEF Ages, Keeps
  <2>. QED BY <1>2, <2>1 DEF IsSuper
<1>5. Keeps(i, q)
  <2>1. \A x \in 1 .. a : x \in 1 .. b
    BY <1>2
  <2>2. \A id \in 1 .. Len(i.objects) : id \in 1 .. Len(m.objects)
    BY <1>2
  <2>3. ASSUME NEW x \in 1 .. a
        PROVE  q.envs[x].scope = i.envs[x].scope /\ (IsSuper(i, x) => q.envs[x].slots = i.envs[x].slots)
    BY <1>1, <1>4, <2>1 DEF Lasts, Ages, Keeps
  <2>4. ASSUME NEW id \in 1 .. Len(i.objects)
        PROVE  SameClass(i.objects[id], q.objects[id])
    BY <1>1, <2>2 DEF Lasts, Ages, Keeps, SameClass
  <2>. QED BY <1>2, <2>3, <2>4 DEF Keeps
<1>6. ASSUME NEW x \in a + 1 .. c, IsSuper(q, x)
      PROVE  IsSuper(m, x) /\ x \in a + 1 .. b /\ q.envs[x].slots = m.envs[x].slots
  <2>1. x \notin b + 1 .. c
    BY <1>6 DEF Lasts
  <2>2. x \in a + 1 .. b /\ x \in 1 .. b
    BY <1>2, <2>1
  <2>3. IsSuper(m, x)
    BY <1>3, <1>6, <2>2
  <2>. QED BY <2>2, <2>3 DEF Lasts, Keeps
<1>7. Ages(i, q)
  BY <1>1, <1>5, <1>6 DEF Ages, Lasts
<1>8. Lasts(i, m) => Lasts(i, q)
  BY <1>5, <1>6 DEF Lasts
<1>. QED BY <1>7, <1>8

LEMMA LastsSame ==
  ASSUME NEW i, Shaped(i), NEW q, q.envs = i.envs, q.objects = i.objects,
         q \in [environment : {q.environment}, envs : {q.envs}, globals : {q.globals}, objects : {q.objects}, stack : {q.stack},
                values : {q.values}, pc : {q.pc}, status : {q.status}]
  PROVE  Lasts(i, q)
<1>1. Shaped(q)
  BY DEF Shaped
<1>2. Keeps(i, q)
  BY DEF Shaped, Keeps, SameClass
<1>3. \A x \in Len(i.envs) + 1 .. Len(q.envs) : FALSE
  BY DEF Shaped
<1>. QED BY <1>1, <1>2, <1>3 DEF Lasts

\* The parts of a step that make and change nothing but where it is.
LEMMA ControlLasts ==
  ASSUME NEW i, Shaped(i)
  PROVE  /\ Lasts(i, i) /\ Lasts(i, Past(i)) /\ Lasts(i, failWith(i)) /\ Lasts(i, Crash(i))
         /\ \A v : Lasts(i, Result(i, v))
         /\ \A n : Lasts(i, [i EXCEPT !.values = SubSeq(@, 1, Len(@) - n)])
         /\ \A x : Lasts(i, OnTo(i, x))
         /\ \A env, f, instance : Lasts(i, executeBlock(i, env, f, instance))
         /\ \A n, v : Lasts(i, Returned(i, n, v))
         /\ \A g : Lasts(i, [i EXCEPT !.globals = g])
<1>0. i \in [environment : {i.environment}, envs : {i.envs}, globals : {i.globals}, objects : {i.objects}, stack : {i.stack},
             values : {i.values}, pc : {i.pc}, status : {i.status}]
  BY DEF Shaped
<1>1. Lasts(i, i)
  BY <1>0, LastsSame
<1>2. Lasts(i, Past(i))
  <2>1. PICK q : q = Past(i)
    OBVIOUS
  <2>9. /\ q.envs = i.envs /\ q.objects = i.objects
        /\ q \in [environment : {q.environment}, envs : {q.envs}, globals : {q.globals}, objects : {q.objects}, stack : {q.stack},
                  values : {q.values}, pc : {q.pc}, status : {q.status}]
    BY <1>0, <2>1 DEF Past
  <2>. QED BY <2>1, <2>9, LastsSame
<1>3. Lasts(i, failWith(i))
  <2>1. PICK q : q = failWith(i)
    OBVIOUS
  <2>2. PICK e : e = IF i.stack = <<>> THEN i.environment ELSE i.stack[1].previous
    OBVIOUS
  <2>3. q = [i EXCEPT !.environment = e, !.stack = <<>>, !.values = <<>>, !.status = "error"]
    BY <2>1, <2>2 DEF failWith
  <2>9. /\ q.envs = i.envs /\ q.objects = i.objects
        /\ q \in [environment : {q.environment}, envs : {q.envs}, globals : {q.globals}, objects : {q.objects}, stack : {q.stack},
                  values : {q.values}, pc : {q.pc}, status : {q.status}]
    BY <1>0, <2>1, <2>3
  <2>. QED BY <2>1, <2>9, LastsSame
<1>4. Lasts(i, Crash(i))
  <2>1. PICK q : q = Crash(i)
    OBVIOUS
  <2>9. /\ q.envs = i.envs /\ q.objects = i.objects
        /\ q \in [environment : {q.environment}, envs : {q.envs}, globals : {q.globals}, objects : {q.objects}, stack : {q.stack},
                  values : {q.values}, pc : {q.pc}, status : {q.status}]
    BY <1>0, <2>1 DEF Crash
  <2>. QED BY <2>1, <2>9, LastsSame
<1>5. ASSUME NEW v
      PROVE  Lasts(i, Result(i, v))
  <2>1. PICK q : q = Result(i, v)
    OBVIOUS
  <2>9. /\ q.envs = i.envs /\ q.objects = i.objects
        /\ q \in [environment : {q.environment}, envs : {q.envs}, globals : {q.globals}, objects : {q.objects}, stack : {q.stack},
                  values : {q.values}, pc : {q.pc}, status : {q.status}]
    BY <1>0, <2>1 DEF Result
  <2>. QED BY <2>1, <2>9, LastsSame
<1>6. ASSUME NEW n
      PROVE  Lasts(i, [i EXCEPT !.values = SubSeq(@, 1, Len(@) - n)])
  <2>1. PICK q : q = [i EXCEPT !.values = SubSeq(@, 1, Len(@) - n)]
    OBVIOUS
  <2>9. /\ q.envs = i.envs /\ q.objects = i.objects
        /\ q \in [environment : {q.environment}, envs : {q.envs}, globals : {q.globals}, objects : {q.objects}, stack : {q.stack},
                  values : {q.values}, pc : {q.pc}, status : {q.status}]
    BY <1>0, <2>1
  <2>. QED BY <2>1, <2>9, LastsSame
<1>7. ASSUME NEW x
      PROVE  Lasts(i, OnTo(i, x))
  <2>1. PICK q : q = OnTo(i, x)
    OBVIOUS
  <2>9. /\ q.envs = i.envs /\ q.objects = i.objects
        /\ q \in [environment : {q.environment}, envs : {q.envs}, globals : {q.globals}, objects : {q.objects}, stack : {q.stack},
                  values : {q.values}, pc : {q.pc}, status : {q.status}]
    BY <1>0, <2>1 DEF OnTo
  <2>. QED BY <2>1, <2>9, LastsSame
<1>8. ASSUME NEW env, NEW f, NEW instance
      PROVE  Lasts(i, executeBlock(i, env, f, instance))
  <2>1. PICK q : q = executeBlock(i, env, f, instance)
    OBVIOUS
  <2>9. /\ q.envs = i.envs /\ q.objects = i.objects
        /\ q \in [environment : {q.environment}, envs : {q.envs}, globals : {q.globals}, objects : {q.objects}, stack : {q.stack},
                  values : {q.values}, pc : {q.pc}, status : {q.status}]
    BY <1>0, <2>1 DEF executeBlock
  <2>. QED BY <2>1, <2>9, LastsSame
<1>9. ASSUME NEW n, NEW v
      PROVE  Lasts(i, Returned(i, n, v))
  <2>1. PICK q : q = Returned(i, n, v)
    OBVIOUS
  <2>2. \E e, s, values, pc : q = [i EXCEPT !.environment = e, !.stack = s, !.values = values, !.pc = pc]
    BY <2>1 DEF Returned
  <2>3. PICK e, s, values, pc : q = [i EXCEPT !.environment = e, !.stack = s, !.values = values, !.pc = pc]
    BY <2>2
  <2>9. /\ q.envs = i.envs /\ q.objects = i.objects
        /\ q \in [environment : {q.environment}, envs : {q.envs}, globals : {q.globals}, objects : {q.objects}, stack : {q.stack},
                  values : {q.values}, pc : {q.pc}, status : {q.status}]
    BY <1>0, <2>1, <2>3
  <2>. QED BY <2>1, <2>9, LastsSame
<1>10. ASSUME NEW g
       PROVE  Lasts(i, [i EXCEPT !.globals = g])
  <2>1. PICK q : q = [i EXCEPT !.globals = g]
    OBVIOUS
  <2>9. /\ q.envs = i.envs /\ q.objects = i.objects
        /\ q \in [environment : {q.environment}, envs : {q.envs}, globals : {q.globals}, objects : {q.objects}, stack : {q.stack},
                  values : {q.values}, pc : {q.pc}, status : {q.status}]
    BY <1>0, <2>1
  <2>. QED BY <2>1, <2>9, LastsSame
<1>. QED BY <1>1, <1>2, <1>3, <1>4, <1>5, <1>6, <1>7, <1>8, <1>9, <1>10

\* A new environment that is not for super.
LEMMA NewLasts ==
  ASSUME NEW i, Shaped(i), NEW enclosing, NEW scope, NEW slots, NEW q, q = NewEnvironment(i, enclosing, scope, slots)
  PROVE  /\ Shaped(q) /\ Keeps(i, q) /\ Len(q.envs) = Len(i.envs) + 1
         /\ q.envs[Len(i.envs) + 1] = [enclosing |-> enclosing, scope |-> scope, slots |-> slots]
<1> DEFINE l == Len(i.envs)
<1>1. PICK env : env = [enclosing |-> enclosing, scope |-> scope, slots |-> slots]
  OBVIOUS
<1>2. PICK S : i.envs \in Seq(S)
  BY DEF Shaped, IsSequence
<1>3. PICK T : T = S \cup {env}
  OBVIOUS
<1>4. i.envs \in Seq(T) /\ env \in T /\ l \in Nat
  BY <1>2, <1>3 DEF Shaped
<1>5. q.envs = Append(i.envs, env) /\ q.objects = i.objects
      /\ q \in [environment : {q.environment}, envs : {q.envs}, globals : {q.globals}, objects : {q.objects}, stack : {q.stack},
                values : {q.values}, pc : {q.pc}, status : {q.status}]
  BY <1>1 DEF NewEnvironment, Shaped
<1>6. q.envs \in Seq(T) /\ Len(q.envs) = l + 1 /\ q.envs[l + 1] = env /\ \A e \in 1 .. l : q.envs[e] = i.envs[e]
  <2>1. PICK s, w : s = i.envs /\ w = q.envs
    OBVIOUS
  <2>2. s \in Seq(T) /\ env \in T /\ w = Append(s, env)
    BY <1>4, <1>5, <2>1
  <2>3. w \in Seq(T) /\ Len(w) = Len(s) + 1 /\ w[Len(s) + 1] = env /\ \A e \in 1 .. Len(s) : w[e] = s[e]
    BY <2>2
  <2>. QED BY <2>1, <2>3
<1>7. ShapedEnv(env) /\ env.scope = scope
  BY <1>1 DEF ShapedEnv
<1>8. Shaped(q)
  <2>1. \A e \in 1 .. Len(q.envs) : e \in 1 .. l \/ e = l + 1
    BY <1>4, <1>6
  <2>2. \A e \in 1 .. Len(q.envs) : ShapedEnv(q.envs[e])
    BY <1>6, <1>7, <2>1 DEF Shaped
  <2>3. IsSequence(q.envs) /\ IsSequence(q.objects) /\ Len(q.envs) \in Nat /\ Len(q.objects) \in Nat
    BY <1>4, <1>5, <1>6 DEF Shaped, IsSequence
  <2>. QED BY <1>5, <2>2, <2>3 DEF Shaped
<1>9. Keeps(i, q)
  BY <1>4, <1>5, <1>6 DEF Shaped, Keeps, SameClass
<1>. QED BY <1>1, <1>6, <1>8, <1>9

LEMMA PlainLasts ==
  ASSUME NEW i, Shaped(i), NEW enclosing, NEW scope, scope[2] # "super", NEW slots, NEW q, q = NewEnvironment(i, enclosing, scope, slots)
  PROVE  Lasts(i, q) /\ Shaped(q)
<1> DEFINE l == Len(i.envs)
<1>1. PICK env : env = [enclosing |-> enclosing, scope |-> scope, slots |-> slots]
  OBVIOUS
<1>2. Shaped(q) /\ Keeps(i, q) /\ Len(q.envs) = l + 1 /\ q.envs[l + 1] = env
  BY <1>1, NewLasts
<1>3. \A x \in l + 1 .. Len(q.envs) : x = l + 1
  BY <1>2 DEF Shaped
<1>4. env.scope[2] # "super"
  BY <1>1
<1>. QED BY <1>2, <1>3, <1>4 DEF Lasts, IsSuper

LEMMA BindLasts ==
  ASSUME NEW i, Shaped(i), NEW receiver, NEW f, NEW q, q = bind(i, receiver, f)
  PROVE  Lasts(i, q) /\ Shaped(q)
<1>1. PICK scope : scope = <<program[f.declaration].in, "this">>
  OBVIOUS
<1>2. scope[2] # "super"
  BY <1>1
<1>3. PICK slots : slots = <<SlotFor("this", receiver)>>
  OBVIOUS
<1>4. q = NewEnvironment(i, f.closure, scope, slots)
  BY <1>1, <1>3 DEF bind
<1>. QED BY <1>2, <1>4, PlainLasts

LEMMA CallLasts ==
  ASSUME NEW i, Shaped(i), NEW f, NEW arguments, NEW instance, NEW q, q = Call(i, f, arguments, instance)
  PROVE  Lasts(i, q)
<1>1. PICK scope : scope = <<f.declaration, "block">>
  OBVIOUS
<1>2. scope[2] # "super"
  BY <1>1
<1>3. PICK given : given = [n \in DOMAIN program[f.declaration].params |-> SlotFor(program[f.declaration].params[n], arguments[n])]
  OBVIOUS
<1>4. PICK m : m = NewEnvironment(i, f.closure, scope, given)
  OBVIOUS
<1>5. Lasts(i, m) /\ Shaped(m)
  BY <1>2, <1>4, PlainLasts
<1>6. PICK r : r = executeBlock(m, Len(m.envs), f, instance)
  OBVIOUS
<1>7. Lasts(m, r) /\ Shaped(r)
  BY <1>5, <1>6, ControlLasts DEF Lasts
<1>8. q = [r EXCEPT !.pc = f.declaration + 1, !.values = <<>>]
  BY <1>1, <1>3, <1>4, <1>6 DEF Call
<1>9. /\ q.envs = r.envs /\ q.objects = r.objects
      /\ q \in [environment : {q.environment}, envs : {q.envs}, globals : {q.globals}, objects : {q.objects}, stack : {q.stack},
                values : {q.values}, pc : {q.pc}, status : {q.status}]
  BY <1>7, <1>8 DEF Shaped
<1>10. Lasts(r, q)
  BY <1>7, <1>9, LastsSame
<1>. QED BY <1>5, <1>7, <1>10, LastsMore

LEMMA ReachedLasts ==
  ASSUME NEW i, Shaped(i), NEW method, NEW receiver, NEW q, q = Reached(i, method, receiver)
  PROVE  Lasts(i, q)
<1>1. PICK m : m = bind(i, receiver, method)
  OBVIOUS
<1>2. Lasts(i, m) /\ Shaped(m)
  BY <1>1, BindLasts
<1>3. q = Call(m, Bound(m, method), <<>>, Nil) \/ q = Result(m, Bound(m, method))
  BY <1>1 DEF Reached
<1>4. Lasts(m, q)
  BY <1>2, <1>3, CallLasts, ControlLasts
<1>. QED BY <1>2, <1>4, LastsMore

LEMMA ObjectLasts ==
  ASSUME NEW i, Shaped(i), NEW o, NEW q, q = WithObject(i, o)
  PROVE  Lasts(i, q) /\ Shaped(q)
<1>1. PICK S : i.objects \in Seq(S)
  BY DEF Shaped, IsSequence
<1>2. PICK T : T = S \cup {o}
  OBVIOUS
<1>3. i.objects \in Seq(T) /\ o \in T
  BY <1>1, <1>2
<1>4. q.objects = Append(i.objects, o) /\ q.envs = i.envs
      /\ q \in [environment : {q.environment}, envs : {q.envs}, globals : {q.globals}, objects : {q.objects}, stack : {q.stack},
                values : {q.values}, pc : {q.pc}, status : {q.status}]
  BY DEF Shaped, WithObject
<1>5. q.objects \in Seq(T) /\ Len(q.objects) = Len(i.objects) + 1 /\ \A id \in 1 .. Len(i.objects) : q.objects[id] = i.objects[id]
  <2>1. PICK s, w : s = i.objects /\ w = q.objects
    OBVIOUS
  <2>2. s \in Seq(T) /\ o \in T /\ w = Append(s, o)
    BY <1>3, <1>4, <2>1
  <2>3. w \in Seq(T) /\ Len(w) = Len(s) + 1 /\ \A e \in 1 .. Len(s) : w[e] = s[e]
    BY <2>2
  <2>. QED BY <2>1, <2>3
<1>6. Len(q.objects) \in Nat /\ Len(i.objects) <= Len(q.objects)
  BY <1>5 DEF Shaped
<1>7. Shaped(q)
  BY <1>4, <1>5, <1>6 DEF Shaped, IsSequence
<1>8. Keeps(i, q)
  BY <1>4, <1>5, <1>6 DEF Shaped, Keeps, SameClass
<1>9. \A x \in Len(i.envs) + 1 .. Len(q.envs) : FALSE
  BY <1>4 DEF Shaped
<1>. QED BY <1>7, <1>8, <1>9 DEF Lasts

LEMMA CallClassLasts ==
  ASSUME NEW i, Shaped(i), NEW class, NEW arguments, NEW q, q = CallClass(i, class, arguments)
  PROVE  Lasts(i, q)
<1>1. PICK made : made = WithObject(i, newLoxInstance(class))
  OBVIOUS
<1>2. Lasts(i, made) /\ Shaped(made)
  BY <1>1, ObjectLasts
<1>3. PICK init, instance : init = findMethod(i, class, "init") /\ instance = Object(Len(i.objects) + 1)
  OBVIOUS
<1>4. PICK ready : ready = bind(made, instance, init)
  OBVIOUS
<1>5. Lasts(i, ready) /\ Shaped(ready)
  BY <1>2, <1>4, BindLasts, LastsMore
<1>6. q = Result(made, instance) \/ q = failWith(i) \/ q = Call(ready, Bound(ready, init), arguments, instance)
  BY <1>1, <1>3, <1>4 DEF CallClass, WithObject
<1>7. CASE q = Result(made, instance)
  BY <1>2, <1>7, ControlLasts, LastsMore
<1>8. CASE q = failWith(i)
  BY <1>8, ControlLasts
<1>9. CASE q = Call(ready, Bound(ready, init), arguments, instance)
  BY <1>5, <1>9, CallLasts, LastsMore
<1>. QED BY <1>6, <1>7, <1>8, <1>9

\* Other slots in an environment that is not for super.
LEMMA SlotsLast ==
  ASSUME NEW i, Shaped(i), NEW e \in 1 .. Len(i.envs), ~IsSuper(i, e), NEW slots, NEW q, q = [i EXCEPT !.envs[e].slots = slots]
  PROVE  Lasts(i, q)
<1> DEFINE l == Len(i.envs)
<1>1. PICK env : env = [i.envs[e] EXCEPT !.slots = slots]
  OBVIOUS
<1>2. ShapedEnv(env) /\ env.scope = i.envs[e].scope /\ l \in Nat
  BY <1>1 DEF Shaped, ShapedEnv
<1>3. PICK S : i.envs \in Seq(S)
  BY DEF Shaped, IsSequence
<1>4. PICK T : T = S \cup {env}
  OBVIOUS
<1>5. q.objects = i.objects /\ q.envs = [i.envs EXCEPT ![e] = env]
      /\ q \in [environment : {q.environment}, envs : {q.envs}, globals : {q.globals}, objects : {q.objects}, stack : {q.stack},
                values : {q.values}, pc : {q.pc}, status : {q.status}]
  BY <1>1 DEF Shaped
<1>6. q.envs \in Seq(T) /\ Len(q.envs) = l /\ q.envs[e] = env /\ \A x \in 1 .. l : x # e => q.envs[x] = i.envs[x]
  <2>1. PICK s, w : s = i.envs /\ w = q.envs
    OBVIOUS
  <2>2. s \in Seq(T) /\ env \in T /\ w = [s EXCEPT ![e] = env] /\ e \in 1 .. Len(s)
    BY <1>3, <1>4, <1>5, <2>1
  <2>3. w \in Seq(T) /\ Len(w) = Len(s) /\ w[e] = env /\ \A x \in 1 .. Len(s) : x # e => w[x] = s[x]
    BY <2>2, OneReplaced
  <2>. QED BY <2>1, <2>3
<1>7. \A x \in 1 .. l : ShapedEnv(q.envs[x])
  BY <1>2, <1>6 DEF Shaped
<1>8. Shaped(q)
  BY <1>2, <1>5, <1>6, <1>7 DEF Shaped, IsSequence
<1>9. \A x \in 1 .. l : q.envs[x].scope = i.envs[x].scope /\ (IsSuper(i, x) => q.envs[x].slots = i.envs[x].slots)
  BY <1>2, <1>6
<1>10. Keeps(i, q)
  BY <1>2, <1>5, <1>6, <1>9 DEF Shaped, Keeps, SameClass
<1>11. \A x \in l + 1 .. Len(q.envs) : FALSE
  BY <1>2, <1>6
<1>. QED BY <1>8, <1>10, <1>11 DEF Lasts

LEMMA DefineLasts ==
  ASSUME NEW i, Shaped(i), NEW e \in 1 .. Len(i.envs), ~IsSuper(i, e), NEW name, NEW v, NEW q, q = Define(i, e, name, v)
  PROVE  Lasts(i, q)
<1>1. PICK g, slots : g = Assigned(i.globals, name, v) /\ slots = Append(i.envs[e].slots, SlotFor(name, v))
  OBVIOUS
<1>2. CASE i.envs[e].enclosing = 0
  <2>1. q = [i EXCEPT !.globals = g]
    BY <1>1, <1>2 DEF Define
  <2>2. \A x : Lasts(i, [i EXCEPT !.globals = x])
    BY ControlLasts
  <2>. QED BY <2>1, <2>2
<1>3. CASE i.envs[e].enclosing # 0
  <2>1. q = [i EXCEPT !.envs[e].slots = slots]
    BY <1>1, <1>3 DEF Define
  <2>. QED BY <2>1, SlotsLast
<1>. QED BY <1>2, <1>3

-----------------------------------------------------------------------------
(* What each visit leaves *)

\* What is around the node at hand is no environment for super.
LEMMA HereIsNoSuper ==
  ASSUME GoodLine, Fine(interp), NEW kinds, Executing(kinds)
  PROVE  /\ Shaped(interp) /\ HeapOK(interp) /\ interp.environment \in 1 .. Len(interp.envs)
         /\ ~IsSuper(interp, interp.environment)
<1>1. Running(interp) /\ Standing(interp) /\ HeapOK(interp) /\ IsInterpreter(interp)
  BY ExecutingIs DEF Running, Standing, HeapOK
<1>2. Shaped(interp)
  BY <1>1, ShapedIs
<1>3. PICK e, p, u : e = interp.environment /\ p = interp.pc /\ u = InnerOf(interp.stack, Len(interp.stack))
  OBVIOUS
<1>4. At(interp, e, p, u)
  BY <1>1, <1>3 DEF Standing
<1>5. e \in 1 .. Len(interp.envs) /\ interp.envs[e].scope = InnerScope(u) /\ (u = 0 => e = globals) /\ (u # 0 => u \in Nodes)
  BY <1>4 DEF At
<1>6. CASE u = 0
  <2>1. e \notin 2 .. Len(interp.envs)
    BY <1>5, <1>6 DEF globals
  <2>. QED BY <1>1, <1>2, <1>3, <1>5, <2>1 DEF IsSuper
<1>7. CASE u # 0
  <2>1. u \in Nat
    BY <1>5, <1>7 DEF Nodes
  <2>2. InnerScope(u)[2] # "super"
    BY <1>7, <2>1, InnerScopeIsNoSuper
  <2>. QED BY <1>1, <1>2, <1>3, <1>5, <2>2 DEF IsSuper
<1>. QED BY <1>6, <1>7

LEMMA WithoutLasts ==
  ASSUME Shaped(interp), NEW n, NEW q, q = Without(n)
  PROVE  Lasts(interp, q) /\ Shaped(q)
<1>1. \A k : Lasts(interp, [interp EXCEPT !.values = SubSeq(@, 1, Len(@) - k)])
  BY ControlLasts
<1>. QED BY <1>1 DEF Without, Lasts

LEMMA ReadLasts ==
  ASSUME Shaped(interp), NEW name, NEW q, q = lookUpVariable(name)
  PROVE  Lasts(interp, q)
<1>1. (\E v : q = Result(interp, v)) \/ q = Crash(interp) \/ q = failWith(interp)
  BY DEF lookUpVariable
<1>2. \A v : Lasts(interp, Result(interp, v))
  BY ControlLasts
<1>3. Lasts(interp, Crash(interp)) /\ Lasts(interp, failWith(interp))
  BY ControlLasts
<1>. QED BY <1>1, <1>2, <1>3

\* A step on from where something was done.
LEMMA ThenLasts ==
  ASSUME NEW i, NEW m, Lasts(i, m)
  PROVE  /\ Lasts(i, Past(m))
         /\ \A v : Lasts(i, Result(m, v))
         /\ \A x : Lasts(i, OnTo(m, x))
<1>1. Shaped(m)
  BY DEF Lasts
<1>2. Lasts(m, Past(m))
  BY <1>1, ControlLasts
<1>3. \A v : Lasts(m, Result(m, v))
  BY <1>1, ControlLasts
<1>4. \A x : Lasts(m, OnTo(m, x))
  BY <1>1, ControlLasts
<1>. QED BY <1>2, <1>3, <1>4, LastsMore

LEMMA DeclaringLasts ==
  ASSUME GoodLine, Fine(interp), Var \/ Function
  PROVE  Lasts(interp, interp')
<1>1. PICK q : q = interp'
  OBVIOUS
<1>2. CASE Executing({"var"}) /\ q = Past(interp)
  BY <1>1, <1>2, HereIsNoSuper, ControlLasts
<1>3. CASE Executing({"define"}) /\ q = Past(Define(Without(1), interp.environment, Current.name, Operand(0)))
  <2>1. PICK m, d : m = Without(1) /\ d = Define(m, interp.environment, Current.name, Operand(0))
    OBVIOUS
  <2>2. Shaped(interp) /\ interp.environment \in 1 .. Len(interp.envs) /\ ~IsSuper(interp, interp.environment)
    BY <1>3, HereIsNoSuper
  <2>3. Lasts(interp, m) /\ Shaped(m) /\ m.envs = interp.envs
    <3>1. Lasts(interp, m) /\ Shaped(m)
      BY <2>1, <2>2, WithoutLasts
    <3>2. m.envs = interp.envs
      BY <2>1, <2>2 DEF Without, Shaped
    <3>. QED BY <3>1, <3>2
  <2>4. interp.environment \in 1 .. Len(m.envs) /\ ~IsSuper(m, interp.environment)
    BY <2>2, <2>3 DEF IsSuper
  <2>5. Lasts(m, d)
    BY <2>1, <2>3, <2>4, DefineLasts
  <2>6. Lasts(interp, d)
    BY <2>3, <2>5, LastsMore
  <2>. QED BY <1>1, <1>3, <2>1, <2>6, ThenLasts
<1>4. CASE Function
  <2>1. Executing({"fun"}) /\ Shaped(interp) /\ interp.environment \in 1 .. Len(interp.envs) /\ ~IsSuper(interp, interp.environment)
    BY <1>4, HereIsNoSuper DEF Function
  <2>2. PICK f : f = newLoxFunction(interp.pc, interp.environment, FALSE)
    OBVIOUS
  <2>3. PICK d : d = Define(interp, interp.environment, Current.name, f)
    OBVIOUS
  <2>4. Lasts(interp, d)
    BY <2>1, <2>3, DefineLasts
  <2>5. PICK x : x = EndOf(interp.pc) + 1
    OBVIOUS
  <2>6. q = OnTo(d, x)
    BY <1>1, <1>4, <2>2, <2>3, <2>5 DEF Function, Executed, OnTo
  <2>. QED BY <1>1, <2>4, <2>6, ThenLasts
<1>. QED BY <1>1, <1>2, <1>3, <1>4 DEF Var, Executed

LEMMA AssignLasts ==
  ASSUME GoodLine, Fine(interp), Assign
  PROVE  Lasts(interp, interp')
<1>1. PICK i, q, p : i = interp /\ q = interp' /\ p = interp.pc
  OBVIOUS
<1>2. Running(i) /\ Standing(i) /\ HeapOK(i) /\ p \in Nodes /\ program[p].kind = "assign" /\ TextIsPlaced /\ Executing({"assign"})
  BY <1>1, ExecutingIs DEF Assign, Running, Standing, GoodLine
<1>3. Shaped(i)
  BY <1>1, <1>2, HereIsNoSuper
<1>4. PICK v, name : v = Operand(0) /\ name = program[p].name
  OBVIOUS
<1>5. q = IF p \in DOMAIN locals
          THEN IF HasSlot(i, i.environment, locals[p]) THEN Past(AssignAt(i, i.environment, locals[p], v)) ELSE Crash(i)
          ELSE IF name \in DOMAIN i.globals THEN Past([i EXCEPT !.globals[name] = v]) ELSE failWith(i)
  BY <1>1, <1>4 DEF Assign, Executed, Resolved, Slot, Current
<1>6. CASE q = Crash(i) \/ q = failWith(i)
  BY <1>1, <1>3, <1>6, ControlLasts
<1>7. CASE q = Past([i EXCEPT !.globals[name] = v])
  <2>1. PICK g : g = [i.globals EXCEPT ![name] = v]
    OBVIOUS
  <2>2. \A x : Lasts(i, [i EXCEPT !.globals = x])
    BY <1>3, ControlLasts
  <2>3. PICK m : m = [i EXCEPT !.globals = g]
    OBVIOUS
  <2>4. Lasts(i, m) /\ q = Past(m)
    BY <1>7, <2>1, <2>2, <2>3
  <2>. QED BY <1>1, <2>4, ThenLasts
<1>8. CASE p \in DOMAIN locals /\ HasSlot(i, i.environment, locals[p]) /\ q = Past(AssignAt(i, i.environment, locals[p], v))
  <2>1. PICK at : at = locals[p]
    OBVIOUS
  <2>2. NameUsed(p) = name /\ program[p].kind \in Uses /\ name \notin {"this", "super"}
    BY <1>2, <1>4 DEF NameUsed, Uses, TextIsPlaced, Grammatical
  <2>3. PICK x : Leads(i, p, name, at, x)
    BY <1>1, <1>2, <1>8, <2>1, <2>2, UseLeads
  <2>4. PICK a, s, k : a = ScopesAround(p) /\ s = a[at[1] + 1] /\ k = at[2] + 1
    OBVIOUS
  <2>5. x \in 1 .. Len(i.envs) /\ i.envs[x].scope = s /\ IsScope(s) /\ Finds(p, name, a, at) /\ x = ancestor(i, i.environment, at[1])
    BY <2>3, <2>4 DEF Leads, Reaches
  <2>6. k \in 1 .. Len(Declarations(s)) /\ Declarations(s)[k].name = name
    BY <2>4, <2>5 DEF Finds
  <2>7. s[2] = "block"
    BY <1>2, <2>2, <2>5, <2>6, WordsApart
  <2>8. ~IsSuper(i, x)
    BY <2>5, <2>7 DEF IsSuper
  <2>9. PICK slots : slots = [i.envs[x].slots EXCEPT ![k].value = v]
    OBVIOUS
  <2>10. PICK m : m = [i EXCEPT !.envs[x].slots = slots]
    OBVIOUS
  <2>11. Lasts(i, m)
    BY <1>3, <2>5, <2>8, <2>10, SlotsLast
  <2>12. q = Past(m)
    BY <1>8, <2>1, <2>4, <2>5, <2>9, <2>10 DEF AssignAt
  <2>. QED BY <1>1, <2>11, <2>12, ThenLasts
<1>. QED BY <1>5, <1>6, <1>7, <1>8

LEMMA BlockLasts ==
  ASSUME Shaped(interp), Block \/ Skip
  PROVE  Lasts(interp, interp')
<1>1. PICK q : q = interp'
  OBVIOUS
<1>2. CASE Block
  <2>1. PICK scope, none : scope = <<interp.pc, "block">> /\ none = <<>>
    OBVIOUS
  <2>2. PICK m : m = NewEnvironment(interp, interp.environment, scope, none)
    OBVIOUS
  <2>3. scope[2] # "super"
    BY <2>1
  <2>4. Lasts(interp, m) /\ Shaped(m)
    BY <2>2, <2>3, PlainLasts
  <2>5. PICK n : n = Len(interp.envs) + 1
    OBVIOUS
  <2>6. q = executeBlock(m, n, Nil, Nil)
    BY <1>1, <1>2, <2>1, <2>2, <2>5 DEF Block, Executed
  <2>7. \A env, f, instance : Lasts(m, executeBlock(m, env, f, instance))
    BY <2>4, ControlLasts
  <2>8. Lasts(m, q)
    BY <2>6, <2>7
  <2>. QED BY <1>1, <2>4, <2>8, LastsMore
<1>3. CASE Skip
  <2>1. q = OnTo(interp, EndOf(interp.pc) + 1)
    BY <1>1, <1>3 DEF Skip, Executed, OnTo
  <2>2. \A x : Lasts(interp, OnTo(interp, x))
    BY ControlLasts
  <2>. QED BY <1>1, <2>1, <2>2
<1>. QED BY <1>2, <1>3

LEMMA LeavingLasts ==
  ASSUME Shaped(interp), End \/ Return
  PROVE  Lasts(interp, interp')
<1>1. PICK q : q = interp'
  OBVIOUS
<1>2. \A n, v : Lasts(interp, Returned(interp, n, v))
  BY ControlLasts
<1>3. Lasts(interp, Crash(interp))
  BY ControlLasts
<1>4. CASE Return
  <2>1. (\E n, v : q = Returned(interp, n, v)) \/ q = Crash(interp)
    BY <1>1, <1>4 DEF Return, Executed
  <2>. QED BY <1>1, <1>2, <1>3, <2>1
<1>5. CASE End
  <2>1. PICK f : f = interp.stack[Len(interp.stack)]
    OBVIOUS
  <2>2. CASE IsCall(f)
    <3>1. q = Returned(interp, Len(interp.stack), Nil)
      BY <1>1, <1>5, <2>1, <2>2 DEF End, Executed
    <3>. QED BY <1>1, <1>2, <3>1
  <2>3. CASE ~IsCall(f)
    <3>1. \E s, x : q = [interp EXCEPT !.environment = f.previous, !.stack = s, !.pc = x]
      BY <1>1, <1>5, <2>1, <2>3 DEF End, Executed
    <3>2. PICK s, x : q = [interp EXCEPT !.environment = f.previous, !.stack = s, !.pc = x]
      BY <3>1
    <3>3. /\ q.envs = interp.envs /\ q.objects = interp.objects
          /\ q \in [environment : {q.environment}, envs : {q.envs}, globals : {q.globals}, objects : {q.objects}, stack : {q.stack},
                    values : {q.values}, pc : {q.pc}, status : {q.status}]
      BY <3>2 DEF Shaped
    <3>. QED BY <1>1, <3>3, LastsSame
  <2>. QED BY <2>2, <2>3
<1>. QED BY <1>4, <1>5

LEMMA SetLasts ==
  ASSUME Shaped(interp), HeapOK(interp), Set
  PROVE  Lasts(interp, interp')
<1>1. PICK q : q = interp'
  OBVIOUS
<1>2. CASE q = Past(interp) \/ q = failWith(interp)
  BY <1>1, <1>2, ControlLasts
<1>3. CASE ~(q = Past(interp) \/ q = failWith(interp))
  <2>1. PICK m, o, v : m = Without(2) /\ o = Operand(1).id /\ v = Operand(0)
    OBVIOUS
  <2>2. Lasts(interp, m) /\ Shaped(m)
    BY <2>1, WithoutLasts
  <2>3. m.objects = interp.objects /\ m.envs = interp.envs
    BY <2>1 DEF Without, Shaped
  <2>4. PICK map : map = Assigned(m.objects[o].fields, Current.name, v)
    OBVIOUS
  <2>5. PICK r : r = [m EXCEPT !.objects[o].fields = map]
    OBVIOUS
  <2>6. q = Result(r, v)
    <3>1. r = [m EXCEPT !.objects[o].fields = Assigned(@, Current.name, v)]
      BY <2>4, <2>5
    <3>. QED BY <1>1, <1>3, <2>1, <3>1 DEF Set, Executed
  <2>7. PICK new : new = [m.objects[o] EXCEPT !.fields = map]
    OBVIOUS
  <2>8. r.envs = m.envs /\ r.objects = [m.objects EXCEPT ![o] = new]
        /\ r \in [environment : {r.environment}, envs : {r.envs}, globals : {r.globals}, objects : {r.objects}, stack : {r.stack},
                  values : {r.values}, pc : {r.pc}, status : {r.status}]
    BY <2>2, <2>5, <2>7 DEF Shaped
  <2>9. PICK S : m.objects \in Seq(S)
    BY <2>2 DEF Shaped, IsSequence
  <2>10. PICK s, w : s = m.objects /\ w = r.objects
    OBVIOUS
  <2>11. s \in Seq(S) /\ w = [s EXCEPT ![o] = new] /\ Len(s) \in Nat /\ DOMAIN s = 1 .. Len(s)
    BY <2>2, <2>8, <2>9, <2>10 DEF Shaped
  <2>12. IsSequence(w) /\ Len(w) = Len(s) /\ \A id \in 1 .. Len(s) : w[id] = IF id = o THEN new ELSE s[id]
    <3>1. PICK T : T = S \cup {new}
      OBVIOUS
    <3>2. \A id \in 1 .. Len(s) : s[id] \in S
      BY <2>11
    <3>3. w \in [1 .. Len(s) -> T]
      BY <2>11, <3>1, <3>2
    <3>4. w \in Seq(T) /\ Len(w) = Len(s)
      <4>1. PICK n \in Nat : n = Len(s)
        BY <2>11
      <4>2. w \in [1 .. n -> T]
        BY <3>3, <4>1
      <4>3. w \in Seq(T) /\ Len(w) = n
        BY <4>2
      <4>. QED BY <4>1, <4>3
    <3>. QED BY <2>11, <3>4 DEF IsSequence
  <2>13. \A id \in 1 .. Len(s) : SameClass(s[id], w[id])
    <3> SUFFICES ASSUME o \in 1 .. Len(s)
                 PROVE  SameClass(s[o], new)
      BY <2>12 DEF SameClass
    <3>1. o \in 1 .. Len(interp.objects) /\ s[o] = interp.objects[o]
      BY <2>3, <2>10
    <3>2. ObjectOK(interp, o)
      BY <3>1 DEF HeapOK
    <3>. QED BY <2>7, <2>10, <3>1, <3>2 DEF ObjectOK, IsClassObject, IsInstance, SameClass
  <2>14. Shaped(r)
    BY <2>2, <2>8, <2>10, <2>11, <2>12 DEF Shaped
  <2>15. Keeps(m, r)
    BY <2>2, <2>8, <2>10, <2>11, <2>12, <2>13 DEF Keeps, Shaped
  <2>16. \A x \in Len(m.envs) + 1 .. Len(r.envs) : FALSE
    BY <2>2, <2>8 DEF Shaped
  <2>17. Lasts(m, r)
    BY <2>2, <2>14, <2>15, <2>16 DEF Lasts
  <2>18. Lasts(interp, r)
    BY <2>2, <2>17, LastsMore
  <2>. QED BY <1>1, <2>6, <2>18, ThenLasts
<1>. QED BY <1>2, <1>3

LEMMA CallingLasts ==
  ASSUME Shaped(interp), CallExpr \/ Get \/ Super
  PROVE  Lasts(interp, interp')
<1>1. PICK q : q = interp'
  OBVIOUS
<1>2. Lasts(interp, failWith(interp)) /\ Lasts(interp, Crash(interp))
  BY ControlLasts
<1>3. \A n : Lasts(interp, Without(n)) /\ Shaped(Without(n))
  BY WithoutLasts
<1>4. CASE CallExpr
  <2>1. PICK callee, arguments, m : callee = Operand(Current.n) /\ m = Without(Current.n + 1)
                                    /\ arguments = [n \in 1 .. Current.n |-> Operand(Current.n - n)]
    OBVIOUS
  <2>2. q = failWith(interp) \/ q = Call(m, callee, arguments, Nil) \/ q = CallClass(m, callee.id, arguments)
    BY <1>1, <1>4, <2>1 DEF CallExpr, Executed
  <2>3. Lasts(interp, m) /\ Shaped(m)
    BY <1>3, <2>1
  <2>4. CASE q = Call(m, callee, arguments, Nil)
    <3>1. Lasts(m, q)
      BY <2>3, <2>4, CallLasts
    <3>. QED BY <1>1, <2>3, <3>1, LastsMore
  <2>5. CASE q = CallClass(m, callee.id, arguments)
    <3>1. Lasts(m, q)
      BY <2>3, <2>5, CallClassLasts
    <3>. QED BY <1>1, <2>3, <3>1, LastsMore
  <2>. QED BY <1>1, <1>2, <2>2, <2>4, <2>5
<1>5. CASE Get
  <2>1. PICK o, m : o = Operand(0) /\ m = Without(1)
    OBVIOUS
  <2>2. Lasts(interp, m) /\ Shaped(m)
    BY <1>3, <2>1
  <2>3. q = failWith(interp) \/ q = lookUpProperty(m, o, Current.name)
    BY <1>1, <1>5, <2>1 DEF Get, Executed
  <2>4. CASE q = lookUpProperty(m, o, Current.name)
    <3>1. (\E v : q = Result(m, v)) \/ q = failWith(m) \/ \E method : q = Reached(m, method, o)
      BY <2>4 DEF lookUpProperty
    <3>2. Lasts(m, failWith(m)) /\ \A v : Lasts(m, Result(m, v))
      BY <2>2, ControlLasts
    <3>3. \A method : Lasts(m, Reached(m, method, o))
      BY <2>2, ReachedLasts
    <3>4. Lasts(m, q)
      BY <3>1, <3>2, <3>3
    <3>. QED BY <1>1, <2>2, <3>4, LastsMore
  <2>. QED BY <1>1, <1>2, <2>3, <2>4
<1>6. CASE Super
  <2>1. q = failWith(interp) \/ q = Crash(interp) \/ \E method, receiver : q = Reached(interp, method, receiver)
    BY <1>1, <1>6 DEF Super, Executed
  <2>2. \A method, receiver : Lasts(interp, Reached(interp, method, receiver))
    BY ReachedLasts
  <2>. QED BY <1>1, <1>2, <2>1, <2>2
<1>. QED BY <1>4, <1>5, <1>6

\* The one environment for super that is made has a class there was.
LEMMA ClassAges ==
  ASSUME GoodLine, Fine(interp), Class
  PROVE  Ages(interp, interp')
<1>1. PICK q, i : q = interp' /\ i = interp
  OBVIOUS
<1>2. \A r : Lasts(i, r) => Ages(i, r)
  BY DEF Lasts, Ages
<1>3. Executing({"class"}) \/ Executing({"body"})
  BY DEF Class
<1>4. Shaped(i) /\ HeapOK(i) /\ i.environment \in 1 .. Len(i.envs) /\ ~IsSuper(i, i.environment)
  BY <1>1, <1>3, HereIsNoSuper
<1>5. Lasts(i, i) /\ Lasts(i, failWith(i)) /\ Lasts(i, Past(i))
  BY <1>4, ControlLasts
<1>6. CASE q = Past(i) \/ q = failWith(i)
  BY <1>1, <1>2, <1>5, <1>6
<1>7. CASE ~(q = Past(i) \/ q = failWith(i))
  <2>1. PICK p, e, top : p = interp.pc /\ e = interp.environment /\ top = Operand(0)
    OBVIOUS
  <2>2. PICK scope, slots : scope = <<p, "super">> /\ slots = <<SlotFor("super", top)>>
    OBVIOUS
  <2>3. PICK m : m = Without(1)
    OBVIOUS
  <2>4. PICK a : a = IF IsSubclass(p) THEN NewEnvironment(m, e, scope, slots) ELSE i
    OBVIOUS
  <2>5. /\ Executing({"body"}) /\ ~(IsSubclass(p) /\ ~IsClass(i, top))
        /\ \E class : \E r : r = [a EXCEPT !.objects = Append(@, class), !.pc = EndOf(p) + 1]
                             /\ q = Define(r, e, Current.name, Object(Len(r.objects)))
    BY <1>1, <1>7, <2>1, <2>2, <2>3, <2>4 DEF Class, Executed
  <2>6. PICK class, r : /\ r = [a EXCEPT !.objects = Append(@, class), !.pc = EndOf(p) + 1]
                        /\ q = Define(r, e, Current.name, Object(Len(r.objects)))
    BY <2>5
  <2>7. Ages(i, a) /\ Shaped(a)
    <3>1. CASE IsSubclass(p)
      <4>1. top.id \in 1 .. Len(i.objects)
        <5>1. Running(interp) /\ program[interp.pc].kind = "body" /\ interp.pc \in Nodes
          BY <2>5, ExecutingIs
        <5>2. Pops(program[interp.pc]) = 1
          BY <2>1, <3>1, <5>1 DEF Pops, IsSubclass
        <5>3. ValueOK(i, top)
          BY <1>1, <2>1, <5>1, <5>2, TopIsThere DEF Operand
        <5>. QED BY <2>5, <3>1, <5>3, ValueTypes DEF IsClass
      <4>2. Lasts(i, m) /\ Shaped(m) /\ m.envs = i.envs
        <5>1. m.envs = i.envs
          BY <1>1, <1>4, <2>3 DEF Without, Shaped
        <5>. QED BY <1>1, <1>4, <2>3, <5>1, WithoutLasts
      <4>3. PICK env : env = [enclosing |-> e, scope |-> scope, slots |-> slots]
        OBVIOUS
      <4>4. a = NewEnvironment(m, e, scope, slots)
        BY <2>4, <3>1
      <4>5. Shaped(a) /\ Keeps(m, a) /\ Len(a.envs) = Len(m.envs) + 1 /\ a.envs[Len(m.envs) + 1] = env
        BY <4>2, <4>3, <4>4, NewLasts
      <4>6. env.slots[1].value.id <= Len(i.objects)
        <5>1. env.slots = slots /\ slots[1].value = top
          BY <2>2, <4>3 DEF SlotFor
        <5>. QED BY <1>4, <4>1, <5>1 DEF Shaped
      <4>7. m.objects = i.objects
        BY <1>1, <1>4, <2>3 DEF Without, Shaped
      <4>8. Keeps(i, a)
        BY <4>2, <4>5, <4>7 DEF Keeps, IsSuper
      <4>9. \A x \in Len(i.envs) + 1 .. Len(a.envs) : x = Len(i.envs) + 1
        BY <1>4, <4>2, <4>5 DEF Shaped
      <4>. QED BY <1>4, <4>2, <4>5, <4>6, <4>8, <4>9 DEF Ages
    <3>2. CASE ~IsSubclass(p)
      BY <1>2, <1>4, <1>5, <2>4, <3>2
    <3>. QED BY <3>1, <3>2
  <2>8. PICK b : b = WithObject(a, class)
    OBVIOUS
  <2>9. Lasts(a, b) /\ Shaped(b)
    BY <2>7, <2>8, ObjectLasts
  <2>10. PICK x : x = EndOf(p) + 1
    OBVIOUS
  <2>11. r = OnTo(b, x)
    BY <2>6, <2>8, <2>10 DEF WithObject, OnTo
  <2>12. Lasts(a, r) /\ Shaped(r)
    <3>1. Lasts(a, r)
      BY <2>9, <2>11, ThenLasts
    <3>. QED BY <3>1 DEF Lasts
  <2>13. Ages(i, r)
    BY <2>7, <2>12, LastsMore
  <2>14. e \in 1 .. Len(r.envs) /\ ~IsSuper(r, e)
    <3>1. r.envs[e].scope = i.envs[e].scope /\ Len(i.envs) <= Len(r.envs) /\ Len(i.envs) \in Nat /\ Len(r.envs) \in Nat
      BY <1>1, <1>4, <2>1, <2>13 DEF Ages, Keeps, Shaped
    <3>. QED BY <1>1, <1>4, <2>1, <3>1 DEF IsSuper
  <2>15. Lasts(r, q)
    BY <2>6, <2>12, <2>14, DefineLasts
  <2>16. Ages(i, q)
    BY <2>13, <2>15, LastsMore
  <2>. QED BY <1>1, <2>16
<1>. QED BY <1>6, <1>7

LEMMA StepAges ==
  ASSUME GoodLine, Fine(interp), InterpreterStep \/ Bare
  PROVE  Ages(interp, interp')
<1>1. PICK i, q : i = interp /\ q = interp'
  OBVIOUS
<1>2. HeapOK(i) /\ Shaped(i)
  BY <1>1, ShapedIs DEF Fine, HeapOK
<1>3. CASE Class
  BY <1>3, ClassAges
<1>4. CASE Literal \/ Expression \/ Bare
  <2>1. CASE Literal
    <3>1. q = Result(i, Nil)
      BY <1>1, <2>1 DEF Literal, Executed
    <3>2. \A v : Lasts(i, Result(i, v))
      BY <1>2, ControlLasts
    <3>. QED BY <1>1, <3>1, <3>2 DEF Lasts, Ages
  <2>2. CASE Expression \/ Bare
    <3>1. q = Past(Without(1))
      BY <1>1, <2>2 DEF Expression, Bare, Executed
    <3>2. Lasts(i, Without(1))
      BY <1>1, <1>2, WithoutLasts
    <3>3. Lasts(i, q)
      BY <3>1, <3>2, ThenLasts
    <3>. QED BY <1>1, <3>3 DEF Lasts, Ages
  <2>. QED BY <1>4, <2>1, <2>2
<1>5. CASE Variable \/ This
  <2>1. \E name : q = lookUpVariable(name)
    BY <1>1, <1>5 DEF Variable, This, Executed
  <2>2. Lasts(i, q)
    BY <1>1, <1>2, <2>1, ReadLasts
  <2>. QED BY <1>1, <2>2 DEF Lasts, Ages
<1>6. CASE Assign \/ Var \/ Function
  <2>1. Lasts(i, q)
    BY <1>1, <1>6, AssignLasts, DeclaringLasts
  <2>. QED BY <1>1, <2>1 DEF Lasts, Ages
<1>7. CASE Block \/ Skip \/ End \/ Return \/ CallExpr \/ Get \/ Set \/ Super
  <2>1. Lasts(i, q)
    BY <1>1, <1>2, <1>7, BlockLasts, LeavingLasts, CallingLasts, SetLasts
  <2>. QED BY <1>1, <2>1 DEF Lasts, Ages
<1>. QED BY <1>3, <1>4, <1>5, <1>6, <1>7 DEF InterpreterStep

-----------------------------------------------------------------------------
(* The classes up from a super *)

\* What a super finds is a class that was there before super's environment, and
\* so were the closures of the methods it can be asked for.
ClosedBefore(map, x) == \A name \in DOMAIN map : map[name].closure < x
OlderOf(i, x) ==
  \A id \in 1 .. i.envs[x].slots[1].value.id :
    i.objects[id].isClass => ClosedBefore(i.objects[id].methods, x) /\ ClosedBefore(i.objects[id].classMethods, x)
Older(i) == \A x \in 2 .. Len(i.envs) : IsSuper(i, x) => OlderOf(i, x)

\* A class's methods are closed over environments there are.
LEMMA MethodsAreBelow ==
  ASSUME NEW i, HeapOK(i), NEW id \in 1 .. Len(i.objects), i.objects[id].isClass, NEW x \in Nat, Len(i.envs) < x
  PROVE  ClosedBefore(i.objects[id].methods, x) /\ ClosedBefore(i.objects[id].classMethods, x)
<1>1. PICK o : o = i.objects[id]
  OBVIOUS
<1>2. ObjectOK(i, id)
  BY DEF HeapOK
<1>3. IsClassObject(i, o, id)
  BY <1>1, <1>2 DEF ObjectOK, IsInstance
<1>4. MethodsOK(i, o.methods) /\ MethodsOK(i, o.classMethods)
  BY <1>3 DEF IsClassObject
<1>5. Len(i.envs) \in Nat
  BY InterpreterIs DEF HeapOK
<1>6. ASSUME NEW map, MethodsOK(i, map), NEW name \in DOMAIN map
      PROVE  map[name].closure < x
  <2>1. MethodOK(i, map[name])
    BY <1>6 DEF MethodsOK
  <2>2. map[name].closure \in 1 .. Len(i.envs)
    BY <2>1 DEF MethodOK, Stands
  <2>. QED BY <1>5, <2>2
<1>. QED BY <1>1, <1>4, <1>6 DEF ClosedBefore

LEMMA OlderKept ==
  ASSUME NEW i, NEW q, HeapOK(i), HeapOK(q), Older(i), Ages(i, q)
  PROVE  Older(q)
<1>. SUFFICES ASSUME NEW x \in 2 .. Len(q.envs), IsSuper(q, x), NEW id \in 1 .. q.envs[x].slots[1].value.id,
                     q.objects[id].isClass
              PROVE  ClosedBefore(q.objects[id].methods, x) /\ ClosedBefore(q.objects[id].classMethods, x)
  BY DEF Older, OlderOf
<1>1. Len(i.envs) \in Nat /\ Len(q.envs) \in Nat /\ Len(i.objects) \in Nat /\ Len(q.objects) \in Nat /\ x \in Nat
  BY DEF Ages, Shaped
<1>2. Keeps(i, q)
  BY DEF Ages
<1>3. ASSUME id \in 1 .. Len(i.objects), i.objects[id].isClass => ClosedBefore(i.objects[id].methods, x) /\ ClosedBefore(i.objects[id].classMethods, x)
      PROVE  ClosedBefore(q.objects[id].methods, x) /\ ClosedBefore(q.objects[id].classMethods, x)
  <2>1. SameClass(i.objects[id], q.objects[id])
    BY <1>2, <1>3 DEF Keeps
  <2>. QED BY <1>3, <2>1 DEF SameClass
<1>4. CASE x <= Len(i.envs)
  <2>1. x \in 1 .. Len(i.envs) /\ x \in 2 .. Len(i.envs)
    BY <1>1, <1>4
  <2>2. q.envs[x].scope = i.envs[x].scope
    BY <1>2, <2>1 DEF Keeps
  <2>3. IsSuper(i, x)
    BY <2>1, <2>2 DEF IsSuper
  <2>4. q.envs[x].slots = i.envs[x].slots
    BY <1>2, <2>1, <2>3 DEF Keeps
  <2>5. EnvFits(i, i.envs[x])
    BY <2>1 DEF HeapOK, EnvOK
  <2>6. IsClassValue(i, i.envs[x].slots[1].value)
    BY <2>3, <2>5 DEF EnvFits, IsSuper
  <2>7. i.envs[x].slots[1].value.id \in 1 .. Len(i.objects)
    BY <2>6 DEF IsClassValue
  <2>8. id \in 1 .. i.envs[x].slots[1].value.id
    BY <2>4
  <2>9. id \in 1 .. Len(i.objects)
    BY <1>1, <2>7, <2>8
  <2>10. OlderOf(i, x)
    BY <2>1, <2>3 DEF Older
  <2>11. i.objects[id].isClass => ClosedBefore(i.objects[id].methods, x) /\ ClosedBefore(i.objects[id].classMethods, x)
    BY <2>8, <2>10 DEF OlderOf
  <2>. QED BY <1>3, <2>9, <2>11
<1>5. CASE ~(x <= Len(i.envs))
  <2>1. x \in Len(i.envs) + 1 .. Len(q.envs) /\ Len(i.envs) < x
    BY <1>1, <1>5
  <2>2. q.envs[x].slots[1].value.id <= Len(i.objects)
    BY <2>1 DEF Ages
  <2>3. id \in 1 .. Len(i.objects)
    <3>1. PICK n, l : n = q.envs[x].slots[1].value.id /\ l = Len(i.objects)
      OBVIOUS
    <3>2. EnvFits(q, q.envs[x])
      BY DEF HeapOK, EnvOK
    <3>3. IsClassValue(q, q.envs[x].slots[1].value)
      BY <3>2 DEF EnvFits, IsSuper
    <3>4. n \in Nat
      <4>1. q.envs[x].slots[1].value.id \in 1 .. Len(q.objects)
        BY <3>3 DEF IsClassValue
      <4>2. q.envs[x].slots[1].value.id \in Nat
        BY <1>1, <4>1
      <4>. QED BY <3>1, <4>2
    <3>5. id \in 1 .. n /\ n <= l /\ l \in Nat
      BY <1>1, <2>2, <3>1
    <3>6. id \in 1 .. l
      BY <3>4, <3>5
    <3>. QED BY <3>1, <3>6
  <2>4. i.objects[id].isClass => ClosedBefore(i.objects[id].methods, x) /\ ClosedBefore(i.objects[id].classMethods, x)
    BY <1>1, <2>1, <2>3, MethodsAreBelow
  <2>. QED BY <1>3, <2>3, <2>4
<1>. QED BY <1>4, <1>5

LEMMA OlderHolds == Spec => []Older(interp)
<1>1. Init => Older(interp)
  <2>1. Init => interp = NewWithWriter
    BY DEF Init
  <2>2. Len(NewWithWriter.envs) = 1
    BY DEF NewWithWriter
  <2>. QED BY <2>1, <2>2 DEF Older
<1>2. LineInv /\ InterpreterInv /\ Older(interp) /\ [Next]_vars => Older(interp)'
  <2> SUFFICES ASSUME LineInv, InterpreterInv, Older(interp), [Next]_vars
               PROVE  Older(interp')
    OBVIOUS
  <2>1. PICK i, q : i = interp /\ q = interp'
    OBVIOUS
  <2>2. HeapOK(i) /\ Older(i) /\ Shaped(i)
    BY <2>1, ShapedIs DEF InterpreterInv, Sound, HeapOK
  <2>3. CASE q = i
    BY <2>1, <2>2, <2>3
  <2>4. CASE EnterExpression \/ Accept
    <3>1. q = [i EXCEPT !.pc = line, !.status = "running"]
      BY <2>1, <2>4 DEF EnterExpression, Accept
    <3>2. q.envs = i.envs /\ q.objects = i.objects
      BY <2>2, <3>1 DEF Shaped
    <3>. QED BY <2>1, <2>2, <3>2 DEF Older, OlderOf, IsSuper
  <2>5. CASE Execution \/ Printing
    <3>1. phase = "executing" /\ (InterpreterStep \/ Bare)
      BY <2>5 DEF Execution, Printing
    <3>2. GoodLine /\ Fine(interp)
      BY <3>1, GoodLineIs DEF InterpreterInv, Sound
    <3>3. Ages(i, q)
      BY <2>1, <3>1, <3>2, StepAges
    <3>4. HeapOK(q)
      BY <2>1, <3>1, <3>2, StepFine DEF Fine
    <3>. QED BY <2>1, <2>2, <3>3, <3>4, OlderKept
  <2>6. CASE \/ \E phrase \in Phrases : Write(phrase)
             \/ EnterProgram \/ Resolving \/ Refuse \/ ExecutionDone \/ Over \/ UNCHANGED vars
    <3>1. q = i
      BY <2>1, <2>6 DEF Write, EnterProgram, Resolving, Refuse, ExecutionDone, Over, vars
    <3>. QED BY <2>3, <3>1
  <2>. QED BY <2>4, <2>5, <2>6 DEF Next
<1>. QED BY <1>1, <1>2, InterpreterHolds, PTL DEF Spec

\* What is made stays where it is when another environment is.
LEMMA NewStays ==
  ASSUME NEW i, Shaped(i), NEW enclosing, NEW scope, NEW slots, NEW q, q = NewEnvironment(i, enclosing, scope, slots),
         NEW x \in 1 .. Len(i.envs)
  PROVE  q.envs[x] = i.envs[x]
<1>1. PICK env : env = [enclosing |-> enclosing, scope |-> scope, slots |-> slots]
  OBVIOUS
<1>2. PICK S : i.envs \in Seq(S)
  BY DEF Shaped, IsSequence
<1>3. q.envs = Append(i.envs, env)
  BY <1>1 DEF NewEnvironment, Shaped
<1>4. PICK s, w : s = i.envs /\ w = q.envs
  OBVIOUS
<1>5. s \in Seq(S) /\ w = Append(s, env) /\ x \in 1 .. Len(s)
  BY <1>2, <1>3, <1>4
<1>6. w[x] = s[x]
  BY <1>5
<1>. QED BY <1>4, <1>6

LEMMA ReachedMakes ==
  ASSUME NEW i, Shaped(i), NEW method, NEW receiver, NEW q, q = Reached(i, method, receiver), NEW made, made = q.envs[Len(i.envs) + 1]
  PROVE  made.enclosing = method.closure /\ made.slots[1].value = receiver
<1>1. PICK m : m = bind(i, receiver, method)
  OBVIOUS
<1>2. PICK bound : bound = Bound(m, method)
  OBVIOUS
<1>3. PICK scope, slots : scope = <<program[method.declaration].in, "this">> /\ slots = <<SlotFor("this", receiver)>>
  OBVIOUS
<1>4. m = NewEnvironment(i, method.closure, scope, slots)
  BY <1>1, <1>3 DEF bind
<1>5. /\ Shaped(m) /\ Len(m.envs) = Len(i.envs) + 1
      /\ m.envs[Len(i.envs) + 1] = [enclosing |-> method.closure, scope |-> scope, slots |-> slots]
  BY <1>4, NewLasts
<1>6. slots[1].value = receiver
  BY <1>3 DEF SlotFor
<1>7. PICK x : x = Len(i.envs) + 1
  OBVIOUS
<1>8. x \in 1 .. Len(m.envs)
  BY <1>5, <1>7 DEF Shaped
<1>9. q.envs[x] = m.envs[x]
  <2>1. CASE q = Result(m, bound)
    BY <1>5, <2>1 DEF Result, Shaped
  <2>2. CASE q = Call(m, bound, <<>>, Nil)
    <3>1. PICK area : area = <<bound.declaration, "block">>
      OBVIOUS
    <3>2. PICK given : given = [n \in DOMAIN program[bound.declaration].params |-> SlotFor(program[bound.declaration].params[n], <<>>[n])]
      OBVIOUS
    <3>3. PICK inside : inside = NewEnvironment(m, bound.closure, area, given)
      OBVIOUS
    <3>4. inside.envs[x] = m.envs[x] /\ Shaped(inside)
      <4>1. Shaped(m) /\ x \in 1 .. Len(m.envs)
        BY <1>5, <1>8
      <4>2. inside.envs[x] = m.envs[x]
        BY <3>3, <4>1, NewStays
      <4>3. Shaped(inside)
        BY <3>3, <4>1, NewLasts
      <4>. QED BY <4>2, <4>3
    <3>5. PICK r : r = executeBlock(inside, Len(inside.envs), bound, Nil)
      OBVIOUS
    <3>6. q = [r EXCEPT !.pc = bound.declaration + 1, !.values = <<>>]
      BY <2>2, <3>1, <3>2, <3>3, <3>5 DEF Call
    <3>7. r.envs = inside.envs
      BY <3>4, <3>5 DEF executeBlock, Shaped
    <3>8. Shaped(r)
      BY <3>4, <3>5, ControlLasts DEF Lasts
    <3>9. q.envs = r.envs
      BY <3>6, <3>8 DEF Shaped
    <3>. QED BY <3>4, <3>7, <3>9
  <2>3. q = Call(m, bound, <<>>, Nil) \/ q = Result(m, bound)
    BY <1>1, <1>2 DEF Reached
  <2>. QED BY <2>1, <2>2, <2>3
<1>. QED BY <1>5, <1>6, <1>7, <1>9

\* The class super finds is in an environment for super, next to this.
SuperIn(at, x) ==
  /\ IsSuper(interp, x) /\ x = ancestor(interp, interp.environment, at[1]) /\ x \in Nat
  /\ GetAt(interp, interp.environment, at) = interp.envs[x].slots[1].value
  /\ IsClassValue(interp, interp.envs[x].slots[1].value)
  /\ GetAt(interp, interp.environment, <<at[1] - 1, 0>>) = ThisAround
LEMMA SuperIsIn ==
  ASSUME GoodLine, Fine(interp), NEW at, SuperLeads(at), interp.pc \in Nodes, program[interp.pc].kind = "super"
  PROVE  \E x : SuperIn(at, x)
<1>1. PICK i, e, p : i = interp /\ e = interp.environment /\ p = interp.pc
  OBVIOUS
<1>2. PICK u, w : u = program[p].in /\ w = InnermostOf(p, {"body"})
  OBVIOUS
<1>3. PICK a : a = ScopesAround(p)
  OBVIOUS
<1>4. /\ HeapOK(i) /\ TextIsPlaced /\ Placed(program) /\ p \in Nodes /\ At(i, e, p, u) /\ e \in 1 .. Len(i.envs)
      /\ i.envs[e].scope = InnerScope(u)
  BY <1>1, <1>2 DEF SuperLeads, At, Fine, GoodLine, TextIsPlaced
<1>5. at = LexicalAddress(p, "super") /\ at # <<>>
  BY <1>1 DEF SuperLeads
<1>6. w # 0 /\ IsSubclass(w)
  BY <1>1, <1>2, <1>5 DEF SuperLeads, Good
<1>7. PICK k : ThisIsAt(a, k, w) /\ at = <<k, 0>>
  BY <1>2, <1>3, <1>4, <1>5, <1>6, SuperAroundThis
<1>8. IsChain(a, u)
  BY <1>2, <1>3, <1>4, ChainAround
<1>9. ThisAround = GetAt(i, e, <<k - 1, 0>>)
  BY <1>1, <1>4, <1>7, <1>8, ThisAroundIs
<1>10. at[1] = k /\ at[2] = 0
  BY <1>7
<1>11. PICK x : x = ancestor(i, e, at[1])
  OBVIOUS
<1>12. Reaches(i, x, p, "super", a, at)
  BY <1>2, <1>3, <1>4, <1>5, <1>11, Resolves
<1>13. PICK s : s = a[at[1] + 1]
  OBVIOUS
<1>14. x \in 1 .. Len(i.envs) /\ i.envs[x].scope = s /\ IsScope(s) /\ Finds(p, "super", a, at) /\ x # globals /\ EnvOK(i, x)
  BY <1>12, <1>13 DEF Reaches
<1>15. s[2] = "super"
  <2>1. at[2] + 1 = 1
    BY <1>10
  <2>2. 1 \in 1 .. Len(Declarations(s)) /\ Declarations(s)[1].name = "super"
    BY <1>13, <1>14, <2>1 DEF Finds
  <2>. QED BY <1>4, <1>14, <2>2, WordsApart
<1>16. Len(i.envs) \in Nat
  BY <1>4, InterpreterIs DEF HeapOK
<1>17. IsSuper(i, x) /\ x \in Nat
  BY <1>14, <1>15, <1>16 DEF IsSuper, globals
<1>18. GetAt(i, e, at) = i.envs[x].slots[1].value
  BY <1>10, <1>11 DEF GetAt
<1>19. IsClassValue(i, i.envs[x].slots[1].value)
  BY <1>14, <1>15 DEF EnvOK, EnvFits
<1>20. GetAt(i, e, <<at[1] - 1, 0>>) = ThisAround
  BY <1>9, <1>10
<1>. QED BY <1>1, <1>11, <1>17, <1>18, <1>19, <1>20 DEF SuperIn

Upwards(q) ==
  LET made == q.envs[Len(interp.envs) + 1]
  IN q.status # "running" \/ (/\ made.enclosing < ancestor(interp, interp.environment, Slot[1])
                              /\ made.slots[1].value = ThisAround)
LEMMA SuperIsUpwards ==
  ASSUME GoodLine, Fine(interp), Older(interp), Super
  PROVE  Upwards(interp')
<1>1. PICK i, q, env, p : i = interp /\ q = interp' /\ env = interp.environment /\ p = interp.pc
  OBVIOUS
<1>2. Executing({"super"}) /\ Shaped(i) /\ HeapOK(i)
  BY <1>1, ShapedIs DEF Super, Fine, HeapOK
<1>3. p \in Nodes /\ program[p].kind = "super"
  BY <1>1, <1>2 DEF Executing, Current
<1>4. PICK nearer : nearer = <<IF Slot[1] = 0 THEN 0 ELSE Slot[1] - 1, 0>>
  OBVIOUS
<1>5. PICK superclass, receiver : superclass = GetAt(i, env, Slot) /\ receiver = GetAt(i, env, nearer)
  OBVIOUS
<1>6. PICK method : method = IF IsClass(i, receiver) THEN findClassMethod(i, superclass.id, Current.name)
                             ELSE findMethod(i, superclass.id, Current.name)
  OBVIOUS
<1>7. q = IF ~Resolved THEN failWith(i)
          ELSE IF ~(HasSlot(i, env, Slot) /\ HasSlot(i, env, nearer)) THEN Crash(i) ELSE IF ~IsClass(i, superclass) THEN Crash(i)
          ELSE IF method = Nil THEN failWith(i) ELSE Reached(i, method, receiver)
  BY <1>1, <1>4, <1>5, <1>6 DEF Super, Executed
<1>8. failWith(i).status = "error" /\ Crash(i).status = "crashed"
  BY <1>2 DEF failWith, Crash, Shaped
<1>9. CASE q = failWith(i) \/ q = Crash(i)
  BY <1>1, <1>8, <1>9 DEF Upwards
<1>10. CASE Resolved /\ method # Nil /\ q = Reached(i, method, receiver)
  <2>1. PICK at : at = Slot
    OBVIOUS
  <2>2. SuperLeads(at)
    BY <1>2, <1>10, <2>1, SuperIsThere
  <2>3. PICK x : SuperIn(at, x)
    BY <1>1, <1>3, <2>2, SuperIsIn
  <2>4. nearer = <<at[1] - 1, 0>>
    BY <1>4, <2>1, <2>2 DEF SuperLeads
  <2>5. receiver = ThisAround
    BY <1>1, <1>5, <2>3, <2>4 DEF SuperIn
  <2>6. superclass = i.envs[x].slots[1].value /\ IsClassValue(i, superclass)
    BY <1>1, <1>5, <2>1, <2>3 DEF SuperIn
  <2>7. superclass.id \in 1 .. Len(i.objects) /\ Len(i.objects) \in Nat
    BY <1>2, <2>6 DEF IsClassValue, Shaped
  <2>8. superclass.id \in 0 .. Len(i.objects) /\ superclass.id \in Nat
    BY <2>7
  <2>9. FoundWell(i, superclass.id, method)
    BY <1>2, <1>6, <2>8, FoundMethod
  <2>10. FoundOf(i, superclass.id, method)
    BY <1>10, <2>9 DEF FoundWell
  <2>11. PICK id \in ClassesTo(i, superclass.id) : \E name : HasMethod(i.objects[id], name, method)
    BY <2>10 DEF FoundOf
  <2>12. id \in 1 .. superclass.id /\ i.objects[id].isClass
    BY <2>7, <2>8 DEF ClassesTo, Classes
  <2>13. IsSuper(i, x) /\ x \in 2 .. Len(i.envs)
    BY <1>1, <2>3 DEF SuperIn, IsSuper
  <2>14. OlderOf(i, x)
    BY <1>1, <2>13 DEF Older
  <2>15. ClosedBefore(i.objects[id].methods, x) /\ ClosedBefore(i.objects[id].classMethods, x)
    BY <2>6, <2>12, <2>14 DEF OlderOf
  <2>16. method.closure < x
    BY <2>11, <2>15 DEF HasMethod, ClosedBefore
  <2>17. PICK made : made = q.envs[Len(i.envs) + 1]
    OBVIOUS
  <2>18. made.enclosing = method.closure /\ made.slots[1].value = receiver
    BY <1>2, <1>10, <2>17, ReachedMakes
  <2>19. x = ancestor(i, env, at[1])
    BY <1>1, <2>3 DEF SuperIn
  <2>20. made.enclosing < ancestor(i, env, Slot[1])
    BY <2>1, <2>16, <2>18, <2>19
  <2>. QED BY <1>1, <2>5, <2>17, <2>18, <2>20 DEF Upwards
<1>. QED BY <1>7, <1>9, <1>10

\* Whatever class the receiver is of, super hands out a method of a class that
\* was made before the one its text is in, bound to what this means there: no
\* chain of super calls comes back to the method it started in
\* (interpreter.go:194-219).
THEOREM SuperGoesUpAlways == Spec => SuperGoesUp
<1> DEFINE Rises ==
      phase = "executing" /\ interp.pc \in Nodes /\ program[interp.pc].kind = "super" => interp' = interp \/ Upwards(interp')
<1>1. LineInv /\ InterpreterInv /\ Older(interp) /\ [Next]_vars => Rises
  <2> SUFFICES ASSUME LineInv, InterpreterInv, Older(interp), [Next]_vars,
                      phase = "executing", interp.pc \in Nodes, program[interp.pc].kind = "super", interp' # interp
               PROVE  Upwards(interp')
    OBVIOUS
  <2>1. GoodLine /\ Fine(interp)
    BY GoodLineIs DEF InterpreterInv, Sound
  <2>2. InterpreterStep \/ Bare
    BY DEF Next, Write, EnterExpression, EnterProgram, Resolving, Refuse, Accept, ResolvingDone, Execution, Printing,
           ExecutionDone, Over, vars
  <2>3. ~Bare /\ ~Literal /\ ~Expression /\ ~Variable /\ ~This /\ ~Assign /\ ~Var /\ ~Function
    BY DEF Bare, Literal, Expression, Variable, This, Assign, Var, Function, Executing, Current
  <2>4. ~Class /\ ~Block /\ ~Skip /\ ~End /\ ~Return /\ ~CallExpr /\ ~Get /\ ~Set
    BY DEF Class, Block, Skip, End, Return, CallExpr, Get, Set, Executing, Current
  <2>5. Super
    BY <2>2, <2>3, <2>4 DEF InterpreterStep
  <2>. QED BY <2>1, <2>5, SuperIsUpwards
<1>2. Rises => LET made == interp'.envs[Len(interp.envs) + 1]
               IN phase = "executing" /\ interp.pc \in Nodes /\ program[interp.pc].kind = "super" =>
                    \/ interp' = interp \/ interp'.status # "running"
                    \/ /\ made.enclosing < ancestor(interp, interp.environment, Slot[1])
                       /\ made.slots[1].value = ThisAround
  BY DEF Upwards
<1>. HIDE DEF Rises
<1>. QED BY <1>1, <1>2, InterpreterHolds, OlderHolds, PTL DEF Spec, SuperGoesUp
=============================================================================
