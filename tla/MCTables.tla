------------------------------ MODULE MCTables ------------------------------
(* Grammars of one or two nonterminals. *)
EXTENDS Tables

a == term("a", "")
b == term("b", "")
S == nt("S")
T == nt("T")

SBodies == <<<<T>>, <<T, a>>, <<a, T, b>>, <<T, T>>, <<S, a>>, <<b, S>>, <<>>>>
TBodies == <<<<>>, <<act("mk")>>, <<a>>, <<a, b>>, <<a, act("mk"), T>>, <<T, b>>, <<S, b>>>>

One(head, bodies) == {<<add(head, bodies[x])>> : x \in DOMAIN bodies}
Two(head, bodies) ==
  {<<add(head, bodies[xy[1]]), add(head, bodies[xy[2]])>> :
     xy \in {xy \in (DOMAIN bodies) \X (DOMAIN bodies) : xy[1] < xy[2]}}

Both(ss, ts) == {s \o t : s \in ss, t \in ts}
Asked(productions, ks) == [prods : productions, entries : {{"S"}}, k : ks]

\* Some are refused: T has no production, or k is out of range.
Family ==
  Asked(Both(Two("S", SBodies), One("T", TBodies) \cup Two("T", TBodies)), {1, 2})
  \cup Asked(Both(One("S", SBodies), Two("T", SubSeq(TBodies, 1, 6))), {1, 3})
  \cup Asked(One("S", SBodies), {0, 1})
=============================================================================
