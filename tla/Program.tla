------------------------------ MODULE Program ------------------------------
(***************************************************************************)
(* The Lox programs glox has been given, as both passes over the tree see  *)
(* them: the nodes of package ast in the order they are visited, operands  *)
(* before what uses them.  A node's index is its identity.                 *)
(*                                                                         *)
(* A node that opens a scope is followed by what is inside and an "end".   *)
(* Every node has a kind, a name ("" if it has none) and the node it is    *)
(* directly in (0 at the top level); some have parameters, a superclass or *)
(* a count of operands.  A declaration is split where the code acts twice: *)
(* var ... define, and class [superclass] body ... end.                    *)
(***************************************************************************)
EXTENDS Naturals, Sequences, SequencesExt, FiniteSetsExt, TLC, Selection

VARIABLES
  program,  \* the nodes
  locals    \* the interpreter's: the scope and slot the resolver found, by node

Openers == {"block", "if", "while", "fun", "method", "body"}
Functions == {"fun", "method"}
Nodes == 1 .. Len(program)

NodeSet == [kind : STRING, name : STRING, in : Nat, params : Seq(STRING), super : STRING, n : Nat,
            getter : BOOLEAN, onTheClass : BOOLEAN]
Node(kind, name) ==
  [kind |-> kind, name |-> name, in |-> 0, params |-> <<>>, super |-> "", n |-> 0,
   getter |-> FALSE, onTheClass |-> FALSE]

\* The innermost node of a text that has been opened and not closed, or 0.
Unclosed(text) ==
  Max({0} \cup {i \in DOMAIN text : /\ text[i].kind \in Openers
                                    /\ \A j \in DOMAIN text : text[j].kind = "end" => text[j].in # i})

\* A text with one more phrase, each of its nodes put in the node open there.
Extended(text, phrase) ==
  LET with[n \in 0 .. Len(phrase)] ==
        IF n = 0 THEN text
        ELSE Append(with[n - 1], [phrase[n] EXCEPT !.in = Unclosed(with[n - 1])])
  IN with[Len(phrase)]

Expressions == {"literal", "variable", "assign", "this", "super", "call", "get", "target", "set"}

\* The declarations a text is in the middle of before node i: of a variable until
\* its define, of a class until its body.
Begun(text, i) ==
  {j \in 1 .. i - 1 : /\ text[j].kind \in {"var", "class"}
                      /\ \A d \in j + 1 .. i - 1 : text[d].kind \notin {"define", "body"}}

\* Whether node i can go on with the declaration begun at j: a variable's is an
\* initializer and its define, a class's the superclass, if any, and the body.
Continues(text, j, i) ==
  LET begun == text[j]
      node  == text[i]
  IN IF begun.kind = "var" THEN \/ node.kind \in Expressions
                                \/ node.kind = "define" /\ node.name = begun.name
     ELSE IF begun.super # "" /\ i = j + 1 THEN node.kind = "variable" /\ node.name = begun.super
     ELSE node.kind = "body" /\ node.name = begun.name /\ node.super = begun.super

\* How many values a node uses.
Pops(node) ==
  CASE node.kind = "call"   -> node.n + 1
    [] node.kind = "return" -> node.n
    [] node.kind = "set"    -> 2
    [] node.kind = "body"   -> IF node.super = "" THEN 0 ELSE 1
    [] node.kind \in {"assign", "get", "target", "expression", "define", "bare"} -> 1
    [] OTHER -> 0

\* The expressions among the first n nodes whose values wait to be used.
Operands(text, n) ==
  LET waiting[i \in 0 .. n] ==
        IF i = 0 THEN <<>>
        ELSE LET before == waiting[i - 1]
                 left   == SubSeq(before, 1, Len(before) - Pops(text[i]))
             IN IF text[i].kind \in Expressions THEN Append(left, i) ELSE left
  IN waiting[n]

\* Whether the operands of node i are there: an expression may leave others
\* waiting, nothing else does, and a set is of the target before its value.
HasOperands(text, i) ==
  LET node == text[i]
      waiting == Operands(text, i - 1)
  IN /\ IF node.kind \in Expressions THEN Pops(node) <= Len(waiting) ELSE Pops(node) = Len(waiting)
     /\ node.kind = "set" => text[waiting[Len(waiting) - 1]].kind = "target"

\* Whether the grammar has node i where it is: methods are directly in a class
\* body and nothing else is, an end closes something, only functions have
\* parameters and a getter has none, no name is a keyword, a bare expression is
\* a line of its own, a declaration that has begun goes on, and the operands of
\* a node come before it.
Grammatical(text, i) ==
  LET node == text[i]
      inBody == node.in # 0 /\ text[node.in].kind = "body"
  IN /\ node.kind = "end" => node.in # 0
     /\ node.kind # "end" => (inBody <=> node.kind = "method")
     /\ node.kind \notin Functions \/ node.getter => node.params = <<>>
     /\ node.kind = "bare" => node.in = 0
     /\ \A j \in Begun(text, i) : Continues(text, j, i)
     /\ node.kind \in {"define", "body"} => Begun(text, i) # {}
     /\ HasOperands(text, i)
     /\ {"this", "super"} \cap ({node.name} \cup ToSet(node.params)) = {}

\* The node that closes what node i opened.
EndOf(i) == CHOOSE j \in Nodes : program[j].kind = "end" /\ program[j].in = i

\* The nodes of some kinds around node i.
Around(i, kinds) ==
  LET around[j \in 0 .. Len(program)] ==
        IF j = 0 THEN {}
        ELSE around[program[j].in] \cup (IF program[j].in = 0 THEN {} ELSE {program[j].in})
  IN {j \in around[i] : program[j].kind \in kinds}

-----------------------------------------------------------------------------
(* The scopes, read off the text *)

IsSubclass(body) == program[body].super # ""

\* A scope is the node that opens it and a word: a class body opens one for
\* "this" and, in a subclass, one for "super" around it.
ScopesOf(i) ==
  IF program[i].kind # "body" THEN <<<<i, "block">>>>
  ELSE <<<<i, "this">>>> \o (IF IsSubclass(i) THEN <<<<i, "super">>>> ELSE <<>>)

\* The scopes around node i, innermost first.
ScopesAround(i) ==
  LET around[j \in 0 .. Len(program)] ==
        IF j = 0 \/ program[j].in = 0 THEN <<>>
        ELSE ScopesOf(program[j].in) \o around[program[j].in]
  IN around[i]

\* The declarations of a scope in order, each with the node that makes it.
Declarations(scope) ==
  LET i == scope[1]
      at == {j \in Nodes : program[j].in = i /\ program[j].kind \in {"var", "fun", "class"}}
      inside == Selected([j \in Nodes |-> j], at)[Len(program)]
  IN IF scope[2] # "block" THEN <<[name |-> scope[2], node |-> i]>>
     ELSE [n \in DOMAIN program[i].params |-> [name |-> program[i].params[n], node |-> i]]
            \o [n \in DOMAIN inside |-> [name |-> program[inside[n]].name, node |-> inside[n]]]

\* The address of name at node i by the text alone: how many scopes out is the
\* nearest that has declared it by then, and which of its declarations that is.
\* Empty if there is none, and the name is global.
LexicalAddress(i, name) ==
  LET around == ScopesAround(i)
      At(n) == {m \in DOMAIN Declarations(around[n]) :
                  LET d == Declarations(around[n])[m] IN d.name = name /\ d.node < i}
      holding == {n \in DOMAIN around : At(n) # {}}
      nearest == Min(holding)
  IN IF holding = {} THEN <<>> ELSE <<nearest - 1, Min(At(nearest)) - 1>>

\* The nodes that use a name, and the name they look up.
Uses == {"variable", "assign", "this", "super"}
NameUsed(i) == IF program[i].kind \in {"this", "super"} THEN program[i].kind ELSE program[i].name
=============================================================================
