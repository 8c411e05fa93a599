------------------------------ MODULE Analysis ------------------------------
(***************************************************************************)
(* parser/llk: newTable of table.go and analyze of sets.go, step by step,  *)
(* for any grammar.  Each loop is an index, and each of its turns a step:  *)
(* a turn reads the sets as the turns before it left them.                 *)
(***************************************************************************)
EXTENDS Sets

CONSTANTS
  Grammars,   \* the grammars asked about: records of prods, entries and k
  MinK, MaxK

Item == [kind : {"terminal", "nonterminal", "action"}, sym : STRING, msg : STRING]
Production == [head : STRING, body : Seq(Item)]

ASSUME GrammarsAssumption ==
  Grammars \subseteq [prods : Seq(Production), entries : SUBSET STRING, k : Nat]

VARIABLES
  grammar,
  phase,     \* "new", "first", "follow", "table"; then "done", "refused" or "conflict"
  i,         \* the production this turn is about
  n,         \* the item of its body, in the FOLLOW loop
  changed,   \* whether this pass has made a set grow
  first,     \* nonterminal -> what is known of FIRST_k
  follow,    \* nonterminal -> what is known of FOLLOW_k
  rows,      \* nonterminal -> window -> the production it predicts
  conflict   \* the productions and the window of a ConflictError
vars == <<grammar, phase, i, n, changed, first, follow, rows, conflict>>

prods == grammar.prods
k == grammar.k
NoConflict == [first |-> 0, second |-> 0, lookahead |-> <<>>]

Init ==
  /\ grammar \in Grammars
  /\ phase = "new"
  /\ i = 1 /\ n = 1 /\ changed = FALSE
  /\ first = [head \in {} |-> {}] /\ follow = first /\ rows = first
  /\ conflict = NoConflict

-----------------------------------------------------------------------------
Refuse ==
  /\ phase = "new" /\ ~(k \in MinK .. MaxK /\ validate(prods, grammar.entries))
  /\ phase' = "refused"
  /\ UNCHANGED <<grammar, i, n, changed, first, follow, rows, conflict>>

Analyze ==
  /\ phase = "new" /\ k \in MinK .. MaxK /\ validate(prods, grammar.entries)
  /\ phase' = "first"
  /\ first' = [head \in Heads(prods) |-> {}]
  /\ follow' = first'
  /\ rows' = [head \in Heads(prods) |-> <<>>]
  /\ UNCHANGED <<grammar, i, n, changed, conflict>>

\* Mutant: a union reports growth whenever it is given a string.
GrowFirstAlways ==
  /\ phase = "first" /\ i \in DOMAIN prods
  /\ first' = [first EXCEPT ![prods[i].head] = @ \cup firstOf(first, prods[i].body, k)]
  /\ changed' = (changed \/ firstOf(first, prods[i].body, k) # {})
  /\ i' = i + 1
  /\ UNCHANGED <<grammar, phase, n, follow, rows, conflict>>

\* FIRST of a head gains what one of its bodies can begin with.
GrowFirst ==
  /\ phase = "first" /\ i \in DOMAIN prods
  /\ first' = [first EXCEPT ![prods[i].head] = @ \cup firstOf(first, prods[i].body, k)]
  /\ changed' = (changed \/ first' # first)
  /\ i' = i + 1
  /\ UNCHANGED <<grammar, phase, n, follow, rows, conflict>>

FirstAgain ==
  /\ phase = "first" /\ i \notin DOMAIN prods /\ changed
  /\ i' = 1 /\ changed' = FALSE
  /\ UNCHANGED <<grammar, phase, n, first, follow, rows, conflict>>

\* Mutant: the input never ends after an entry.
FirstDoneUnseeded ==
  /\ phase = "first" /\ i \notin DOMAIN prods /\ ~changed
  /\ phase' = "follow"
  /\ i' = 1
  /\ follow' = [head \in Heads(prods) |-> {}]
  /\ UNCHANGED <<grammar, n, changed, first, rows, conflict>>

\* The input may end after an entry.
FirstDone ==
  /\ phase = "first" /\ i \notin DOMAIN prods /\ ~changed
  /\ phase' = "follow"
  /\ i' = 1
  /\ follow' = [head \in Heads(prods) |-> IF head \in grammar.entries THEN {<<"EOF">>} ELSE {}]
  /\ UNCHANGED <<grammar, n, changed, first, rows, conflict>>

\* What can come after the item n of the production i
RestAfter(p, m) == firstOf(first, SubSeq(p.body, m + 1, Len(p.body)), k)

\* FOLLOW of a nonterminal in a body gains what can begin the rest of it, and
\* then follow the head.
GrowFollow ==
  /\ phase = "follow" /\ i \in DOMAIN prods /\ n \in DOMAIN prods[i].body
  /\ LET p == prods[i]
         item == p.body[n]
     IN follow' = IF item.kind # "nonterminal" THEN follow
                  ELSE [follow EXCEPT ![item.sym] = @ \cup concat(RestAfter(p, n), follow[p.head], k)]
  /\ changed' = (changed \/ follow' # follow)
  /\ n' = n + 1
  /\ UNCHANGED <<grammar, phase, i, first, rows, conflict>>

NextBody ==
  /\ phase = "follow" /\ i \in DOMAIN prods /\ n \notin DOMAIN prods[i].body
  /\ i' = i + 1 /\ n' = 1
  /\ UNCHANGED <<grammar, phase, changed, first, follow, rows, conflict>>

FollowAgain ==
  /\ phase = "follow" /\ i \notin DOMAIN prods /\ changed
  /\ i' = 1 /\ changed' = FALSE
  /\ UNCHANGED <<grammar, phase, n, first, follow, rows, conflict>>

FollowDone ==
  /\ phase = "follow" /\ i \notin DOMAIN prods /\ ~changed
  /\ phase' = "table"
  /\ i' = 1
  /\ UNCHANGED <<grammar, n, changed, first, follow, rows, conflict>>

Windows(j) == lookahead(first, follow, prods[j], k)
Taken == DOMAIN rows[prods[i].head] \cap Windows(i)

\* Mutant: the first production to want a window keeps it.
AddToRowFirstWins ==
  /\ phase = "table" /\ i \in DOMAIN prods
  /\ LET row == rows[prods[i].head]
     IN rows' = [rows EXCEPT ![prods[i].head] =
                   [la \in DOMAIN row \cup Windows(i) |-> IF la \in DOMAIN row THEN row[la] ELSE i]]
  /\ i' = i + 1
  /\ UNCHANGED <<grammar, phase, n, changed, first, follow, conflict>>

\* Every window of the production is a column of its head's row.
AddToRow ==
  /\ phase = "table" /\ i \in DOMAIN prods /\ Taken = {}
  /\ LET row == rows[prods[i].head]
     IN rows' = [rows EXCEPT ![prods[i].head] =
                   [la \in DOMAIN row \cup Windows(i) |-> IF la \in DOMAIN row THEN row[la] ELSE i]]
  /\ i' = i + 1
  /\ UNCHANGED <<grammar, phase, n, changed, first, follow, conflict>>

\* The code takes the least of the windows in the order of their keys.
Conflict ==
  /\ phase = "table" /\ i \in DOMAIN prods
  /\ \E la \in Taken : conflict' = [first |-> rows[prods[i].head][la], second |-> i, lookahead |-> la]
  /\ phase' = "conflict"
  /\ UNCHANGED <<grammar, i, n, changed, first, follow, rows>>

TableDone ==
  /\ phase = "table" /\ i \notin DOMAIN prods
  /\ phase' = "done"
  /\ UNCHANGED <<grammar, i, n, changed, first, follow, rows, conflict>>

Next ==
  \/ Refuse \/ Analyze
  \/ GrowFirst \/ FirstAgain \/ FirstDone
  \/ GrowFollow \/ NextBody \/ FollowAgain \/ FollowDone
  \/ AddToRow \/ Conflict \/ TableDone

\* newTable runs on by itself.
Spec == Init /\ [][Next]_vars /\ WF_vars(Next)

-----------------------------------------------------------------------------
(* Properties *)

Rivals(p, q) == p # q /\ prods[p].head = prods[q].head

\* A table is built when no window predicts two productions of a nonterminal,
\* and then each row holds each window of its productions and no other; the
\* pair a ConflictError names does share the window it names (newTable).
ConflictsExactly ==
  /\ phase = "done" =>
       \A head \in Heads(prods) :
         /\ DOMAIN rows[head] = UNION {Windows(p) : p \in byHead(prods, head)}
         /\ \A p \in byHead(prods, head), la \in DOMAIN rows[head] : la \in Windows(p) <=> rows[head][la] = p
  /\ phase = "conflict" =>
       /\ {conflict.first, conflict.second} \subseteq DOMAIN prods
       /\ Rivals(conflict.first, conflict.second)
       /\ conflict.lookahead \in Windows(conflict.first) \cap Windows(conflict.second)

\* The fixpoints are reached: each loop grows sets of strings of at most k
\* terminals, and stops when a pass grew none (analyze).
Ends == <>(phase \in {"done", "refused", "conflict"})
=============================================================================
