----------------------------- MODULE LoxGrammar -----------------------------
(***************************************************************************)
(* parser/llk/grammar.go: the Lox grammar as data, and the semantic        *)
(* actions its bodies name.                                                *)
(***************************************************************************)
EXTENDS Tokens, Productions, TLC

CONSTANT MaxArguments  \* 255 in the code

-----------------------------------------------------------------------------
(* The productions, in the order the code adds them *)

Statements ==
  <<add("program", <<nt("declarations")>>),
    add("declarations", <<nt("declaration"), nt("declarations"), act("prependStatement")>>),
    add("declarations", <<act("emptyStatements")>>),
    add("declaration", <<nt("varDeclaration")>>),
    add("declaration", <<nt("statement")>>),
    add("statement", <<nt("exprStatement")>>),
    add("statement", <<nt("printStatement")>>),
    add("statement", <<nt("returnStatement")>>),
    add("statement", <<nt("block")>>),
    add("varDeclaration", <<term("var", ""), term("id", "Expect variable name."), nt("varInitializer"),
                            term(";", "Expect ';' after variable declaration."), act("mkVarStatement")>>),
    add("varInitializer", <<term("=", ""), nt("expression"), act("mkInitializer")>>),
    add("varInitializer", <<act("noInitializer")>>),
    add("printStatement", <<term("print", ""), nt("expression"),
                            term(";", "Expect ';' after value."), act("mkPrintStatement")>>),
    add("returnStatement", <<term("return", ""), nt("returnValue"),
                             term(";", "Expect ';' after return value."), act("mkReturnStatement")>>),
    add("returnValue", <<nt("expression"), act("mkReturnValue")>>),
    add("returnValue", <<act("noReturnValue")>>),
    add("exprStatement", <<nt("expression"), term(";", "Expect ';' after expression."),
                           act("mkExpressionStatement")>>),
    add("block", <<term("{", ""), nt("declarations"), term("}", "Expect '}' after block."),
                   act("mkBlockStatement")>>),
    add("expression", <<nt("assignment")>>),
    add("assignment", <<nt("or"), nt("assignmentTail")>>),
    add("assignmentTail", <<term("=", ""), nt("assignment"), act("mkAssign")>>),
    add("assignmentTail", <<>>)>>

\* Mutant: folding after the tail makes a rung right-associative.
levelRight(name, next, fold, ops) ==
  LET tail == name \o "Tail"
  IN <<add(name, <<nt(next), nt(tail)>>)>>
     \o [i \in DOMAIN ops |-> add(tail, <<term(ops[i], ""), nt(next), nt(tail), act(fold)>>)]
     \o <<add(tail, <<>>)>>

\* One rung of the ladder and its tail, which folds before it recurs
levelWith(name, next, fold, ops) ==
  LET tail == name \o "Tail"
  IN <<add(name, <<nt(next), nt(tail)>>)>>
     \o [i \in DOMAIN ops |-> add(tail, <<term(ops[i], ""), nt(next), act(fold), nt(tail)>>)]
     \o <<add(tail, <<>>)>>

Levels ==
  levelWith("or", "and", "mkLogical", <<"or">>)
  \o levelWith("and", "equality", "mkLogical", <<"and">>)
  \o levelWith("equality", "comparison", "mkBinary", <<"!=", "==">>)
  \o levelWith("comparison", "term", "mkBinary", <<">", ">=", "<", "<=">>)
  \o levelWith("term", "factor", "mkBinary", <<"-", "+">>)
  \o levelWith("factor", "unary", "mkBinary", <<"/", "*">>)

Operands ==
  <<add("unary", <<term("!", ""), nt("unary"), act("mkUnary")>>),
    add("unary", <<term("-", ""), nt("unary"), act("mkUnary")>>),
    add("unary", <<nt("call")>>),
    add("call", <<nt("primary"), nt("callTail")>>),
    add("callTail", <<term("(", ""), nt("arguments"), term(")", "Expect ')' after arguments."),
                      act("mkCall"), nt("callTail")>>),
    add("callTail", <<term(".", ""), term("id", "Expect property name after '.'."),
                      act("mkGet"), nt("callTail")>>),
    add("callTail", <<>>),
    add("arguments", <<nt("expression"), act("startArguments"), nt("argumentsTail")>>),
    add("arguments", <<act("emptyArguments")>>),
    add("argumentsTail", <<term(",", ""), act("checkArgumentLimit"), nt("expression"),
                           act("appendArgument"), nt("argumentsTail")>>),
    add("argumentsTail", <<>>)>>

\* The literal's action, mkConst or mkLiteral, keeps the token's value.
Primaries ==
  [i \in 1 .. 5 |-> add("primary", <<term(<<"false", "true", "nil", "number", "string">>[i], ""),
                                     act("mkLiteral")>>)]
  \o <<add("primary", <<term("this", ""), act("mkThis")>>),
       add("primary", <<term("super", ""), term(".", "Expect '.' after 'super'."),
                        term("id", "Expect superclass method name."), act("mkSuper")>>),
       add("primary", <<term("id", ""), act("mkVariable")>>),
       add("primary", <<term("(", ""), nt("expression"), term(")", "Expect ')' after expression."),
                        act("mkGrouping")>>)>>

loxGrammar == Statements \o Levels \o Operands \o Primaries

entries == {"program", "varDeclaration", "printStatement", "returnStatement", "exprStatement", "expression"}

\* What a rule says when no production of it can be predicted; arguments says
\* nothing of its own, and neither do assignmentTail and argumentsTail.
fail ==
  LET says(message, names) == [name \in names |-> message]
      ladder == {"or", "and", "equality", "comparison", "term", "factor"}
  IN says("Expect expression.", ladder \cup {"expression", "assignment", "unary", "call", "primary",
                                             "returnValue", "exprStatement"})
     @@ says("Expect end of expression.", {name \o "Tail" : name \in ladder \cup {"call"}})
     @@ says("Expect ';' after variable declaration.", {"varInitializer"})
     @@ says("Expect a statement.", {"program", "declarations", "declaration", "statement",
                                     "varDeclaration", "printStatement", "returnStatement"})

-----------------------------------------------------------------------------
(* The actions: each folds the values the symbols on its left have left on *)
(* the stack, the top of which is the last                                 *)

top(vals, n) == vals[Len(vals) - n]
Optional(list) == IF list.kids = <<>> THEN <<NoNode>> ELSE list.kids
fold(p, n, node) == [p EXCEPT !.vals = Append(SubSeq(@, 1, Len(@) - n), node)]
push(p, node) == fold(p, 0, node)

\* It runs with the ',' on top and the argument it introduces as the lookahead.
checkArgumentLimit(p) ==
  IF Len(top(p.vals, 1).kids) >= MaxArguments
  THEN ErrorToken(p, p.current, "Can't have more than 255 arguments.") ELSE p

\* Mutant: the target is blamed, not the '=' after it.
mkAssignAtTarget(p) ==
  LET target == top(p.vals, 2)
  IN IF target.kind = "Variable" THEN fold(p, 3, Node("Assign", target.at, <<top(p.vals, 0)>>))
     ELSE ParseErrorAt(p, target.at, "Invalid assignment target.")

mkAssign(p) ==
  LET target == top(p.vals, 2)
      value == top(p.vals, 0)
  IN CASE target.kind = "Variable" -> fold(p, 3, Node("Assign", target.at, <<value>>))
       [] target.kind = "Get" -> fold(p, 3, Node("Set", target.at, Append(target.kids, value)))
       [] OTHER -> ParseErrorAt(p, top(p.vals, 1).at, "Invalid assignment target.")

\* The actions that make statements
statementAction(p, name) ==
  LET V(n) == top(p.vals, n)
  IN CASE name = "mkInitializer" -> fold(p, 2, List(<<V(0)>>))
       [] name = "noInitializer" -> push(p, List(<<>>))
       [] name = "mkVarStatement" -> fold(p, 4, Node("Var", V(2).at, Optional(V(1))))
       [] name = "mkPrintStatement" -> fold(p, 3, Node("Print", 0, <<V(1)>>))
       [] name = "mkReturnValue" -> fold(p, 1, List(<<V(0)>>))
       [] name = "noReturnValue" -> push(p, List(<<>>))
       [] name = "mkReturnStatement" -> fold(p, 3, Node("Return", V(2).at, Optional(V(1))))
       [] name = "mkExpressionStatement" -> fold(p, 2, Node("Expression", 0, <<V(1)>>))
       [] name = "emptyStatements" -> push(p, List(<<>>))
       [] name = "prependStatement" -> fold(p, 2, List(<<V(1)>> \o V(0).kids))
       [] name = "mkBlockStatement" -> fold(p, 3, Node("Block", 0, V(1).kids))

\* Those that make expressions
semantic(p, name) ==
  LET V(n) == top(p.vals, n)
  IN CASE name = "mkBinary" -> fold(p, 3, Node("Binary", V(1).at, <<V(2), V(0)>>))
       [] name = "mkLogical" -> fold(p, 3, Node("Logical", V(1).at, <<V(2), V(0)>>))
       [] name = "mkUnary" -> fold(p, 2, Node("Unary", V(1).at, <<V(0)>>))
       [] name = "emptyArguments" -> push(p, List(<<>>))
       [] name = "startArguments" -> fold(p, 1, List(<<V(0)>>))
       [] name = "checkArgumentLimit" -> checkArgumentLimit(p)
       [] name = "appendArgument" -> fold(p, 3, List(Append(V(2).kids, V(0))))
       [] name = "mkCall" -> fold(p, 4, Node("Call", V(0).at, <<V(3), V(1)>>))
       [] name = "mkGet" -> fold(p, 3, Node("Get", V(0).at, <<V(2)>>))
       [] name = "mkThis" -> fold(p, 1, Node("This", V(0).at, <<>>))
       [] name = "mkSuper" -> fold(p, 3, Node("Super", V(2).at, <<V(0)>>))
       [] name = "mkGrouping" -> fold(p, 3, Node("Grouping", 0, <<V(1)>>))
       [] name = "mkLiteral" -> fold(p, 1, Node("Literal", V(0).at, <<>>))
       [] name = "mkVariable" -> fold(p, 1, Node("Variable", V(0).at, <<>>))
       [] name = "mkAssign" -> mkAssign(p)
       [] OTHER -> statementAction(p, name)
=============================================================================
