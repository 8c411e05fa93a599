-------------------------------- MODULE Sets --------------------------------
(***************************************************************************)
(* parser/llk/sets.go: sets of k-strings, sequences of at most k           *)
(* terminals in which nothing follows EOF.                                 *)
(***************************************************************************)
EXTENDS Productions, FiniteSets

\* A string is cut at k symbols, and after EOF.
norm(s, k) ==
  LET ends == {i \in DOMAIN s : i = k \/ s[i] = "EOF"}
  IN IF ends = {} THEN s ELSE SubSeq(s, 1, CHOOSE i \in ends : \A j \in ends : i <= j)

full(s, k) == Len(s) >= k \/ (s # <<>> /\ s[Len(s)] = "EOF")
allFull(set, k) == \A s \in set : full(s, k)

\* Mutant: a string that has room stays as it is.
concatEager(a, b, k) == a \cup {norm(x \o y, k) : x \in {s \in a : ~full(s, k)}, y \in b}

\* Every string of a followed by one of b; a full string needs none to follow.
concat(a, b, k) ==
  {s \in a : full(s, k)} \cup {norm(x \o y, k) : x \in {s \in a : ~full(s, k)}, y \in b}

\* FIRST of a body up to and with an item, from FIRST up to it.  An empty set
\* is one not known yet, and stays empty.
After(first, out, item, k) ==
  IF item.kind = "action" \/ allFull(out, k) THEN out
  ELSE concat(out, IF item.kind = "terminal" THEN {<<item.sym>>} ELSE first[item.sym], k)

firstOf(first, body, k) ==
  LET upTo[n \in 0 .. Len(body)] ==
        IF n = 0 THEN {<<>>} ELSE After(first, upTo[n - 1], body[n], k)
  IN upTo[Len(body)]

lookahead(first, follow, prod, k) == concat(firstOf(first, prod.body, k), follow[prod.head], k)

commonPrefix(a, b) == Cardinality({n \in DOMAIN a \cap DOMAIN b : \A i \in 1 .. n : a[i] = b[i]})

\* The longest prefix of la that a string of the set shares
nearest(set, la) ==
  LET lengths == {0} \cup {commonPrefix(s, la) : s \in set}
  IN CHOOSE n \in lengths : \A m \in lengths : n >= m
=============================================================================
