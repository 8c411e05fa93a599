-------------------------------- MODULE Table -------------------------------
(***************************************************************************)
(* parser/llk/table.go, and analyze of sets.go in one go: the table of a   *)
(* grammar, and the four things the driver asks of it.                     *)
(***************************************************************************)
EXTENDS Sets, TLC

RECURSIVE LeastFrom(_, _)
\* Pass after pass over the productions until one changes nothing
LeastFrom(Pass(_), family) ==
  LET next == Pass(family) IN IF next = family THEN family ELSE LeastFrom(Pass, next)

\* FIRST of a head is what its bodies can begin with.
analyzeFirst(prods, k) ==
  LET Pass(first) == [head \in Heads(prods) |->
                        UNION {firstOf(first, prods[i].body, k) : i \in byHead(prods, head)}]
  IN LeastFrom(Pass, [head \in Heads(prods) |-> {}])

\* FOLLOW of a nonterminal is what can begin the rest of a body after it, and
\* then follow that body's head; the input may end after an entry.
analyzeFollow(prods, started, first, k) ==
  LET Places == UNION {{<<i, n>> : n \in {n \in DOMAIN prods[i].body : prods[i].body[n].kind = "nonterminal"}} :
                       i \in DOMAIN prods}
      rest == [place \in Places |->
                 LET body == prods[place[1]].body
                 IN firstOf(first, SubSeq(body, place[2] + 1, Len(body)), k)]
      of == [head \in Heads(prods) |-> {place \in Places : prods[place[1]].body[place[2]].sym = head}]
      Pass(follow) == [head \in Heads(prods) |->
                         (IF head \in started THEN {<<"EOF">>} ELSE {})
                         \cup UNION {concat(rest[place], follow[prods[place[1]].head], k) : place \in of[head]}]
  IN LeastFrom(Pass, [head \in Heads(prods) |-> {}])

\* The windows that predict each production
lookaheads(prods, started, k) ==
  LET first == analyzeFirst(prods, k)
      follow == analyzeFollow(prods, started, first, k)
  IN [i \in DOMAIN prods |-> lookahead(first, follow, prods[i], k)]

\* rows maps a head and a window to the production to expand; the driver only
\* runs on a grammar without conflicts.
newTable(prods, windows, k) ==
  LET Row(head) == [la \in UNION {windows[i] : i \in byHead(prods, head)} |->
                      CHOOSE i \in byHead(prods, head) : la \in windows[i]]
  IN [k |-> k, prods |-> prods, lookahead |-> windows, rows |-> [head \in Heads(prods) |-> Row(head)]]

-----------------------------------------------------------------------------
(* A choice of production is the set of its index, empty for none *)

predict(t, head, la) == IF la \in DOMAIN t.rows[head] THEN {t.rows[head][la]} ELSE {}

\* A rule that recursive descent writes as a loop ends on any other token: all
\* its productions but the empty one open with a terminal.
vanish(t, head) ==
  LET empty == {i \in byHead(t.prods, head) : derivesEmpty(t.prods[i])}
  IN IF \A i \in byHead(t.prods, head) \ empty : startsWithTerminal(t.prods[i])
     THEN {i \in empty : \A j \in empty : i >= j} ELSE {}

\* Mutant: no rule may vanish.
recoverNoVanish(t, head, la) ==
  LET near == [i \in byHead(t.prods, head) |-> nearest(t.lookahead[i], la)]
      best == {i \in DOMAIN near : near[i] > 0 /\ \A j \in DOMAIN near : near[i] >= near[j]}
  IN IF Cardinality(best) = 1 THEN best ELSE {}

\* The one production whose lookahead shares the longest prefix with the window
recover(t, head, la) ==
  LET near == [i \in byHead(t.prods, head) |-> nearest(t.lookahead[i], la)]
      best == {i \in DOMAIN near : near[i] > 0 /\ \A j \in DOMAIN near : near[i] >= near[j]}
  IN CASE best = {} -> vanish(t, head)
       [] Cardinality(best) = 1 -> best
       [] OTHER -> {}

\* The message of a miss; the rules without one list the tokens they accept.
failMessage(messages, head) ==
  IF head \in DOMAIN messages THEN messages[head] ELSE "Expect one of the tokens of " \o head \o "."
=============================================================================
