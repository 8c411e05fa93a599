---------------------------- MODULE Productions -----------------------------
(***************************************************************************)
(* parser/llk/grammar.go: what a grammar is made of.  A production has a   *)
(* head and a body of terminals, nonterminals and actions; a grammar is    *)
(* the sequence of its productions.                                        *)
(***************************************************************************)
EXTENDS Naturals, Sequences

term(t, msg) == [kind |-> "terminal", sym |-> t, msg |-> msg]
nt(name) == [kind |-> "nonterminal", sym |-> name, msg |-> ""]
act(a) == [kind |-> "action", sym |-> a, msg |-> ""]
add(head, body) == [head |-> head, body |-> body]

\* The body without its actions, which match no input
Symbols(body) == SelectSeq(body, LAMBDA item : item.kind # "action")
derivesEmpty(prod) == Symbols(prod.body) = <<>>
startsWithTerminal(prod) == ~derivesEmpty(prod) /\ Head(Symbols(prod.body)).kind = "terminal"

\* Indices of the productions of a head
byHead(prods, head) == {i \in DOMAIN prods : prods[i].head = head}
Heads(prods) == {prods[i].head : i \in DOMAIN prods}

\* Every nonterminal a body or an entry names has a production.
validate(prods, entries) ==
  entries \cup {item.sym : item \in {item \in UNION {{prods[i].body[n] : n \in DOMAIN prods[i].body} : i \in DOMAIN prods} :
                                       item.kind = "nonterminal"}} \subseteq Heads(prods)
=============================================================================
