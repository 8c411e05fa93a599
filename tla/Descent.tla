------------------------------ MODULE Descent -------------------------------
(***************************************************************************)
(* parser/parser.go: one function per grammar rule.  Each is an operator   *)
(* from the parser before the call to the parser after it, whose node or   *)
(* err is what the function returns.                                       *)
(***************************************************************************)
EXTENDS Tokens

CONSTANT MaxParameters  \* 255 in the code: the parameters and the arguments allowed

-----------------------------------------------------------------------------
(* The cursor *)

peek(p) == IF p.current \in DOMAIN p.tokens THEN p.tokens[p.current] ELSE "EOF"
isAtEnd(p) == peek(p) = "EOF"
check(p, type) == ~isAtEnd(p) /\ peek(p) = type
match(p, types) == ~Failed(p) /\ ~isAtEnd(p) /\ peek(p) \in types
advance(p) == IF isAtEnd(p) THEN p ELSE [p EXCEPT !.current = @ + 1, !.node = Leaf(p.current)]

consume(p, type, message) ==
  IF match(p, {type}) THEN advance(p) ELSE ParseErrorAt(p, p.current, message)

\* Mutant: the token in error is not discarded.
synchronizeInPlace(p) ==
  LET Stops(i) == p.tokens[i] \in Starters \cup {"EOF"} \/ (i > 1 /\ p.tokens[i - 1] = ";")
  IN [p EXCEPT !.current = CHOOSE i \in @ .. Len(p.tokens) : Stops(i) /\ \A j \in @ .. i - 1 : ~Stops(j)]

\* Past the token in error, to just after a ';', just before a token that
\* starts a statement, or the end.
synchronize(p) ==
  LET from == advance(p).current
      Stops(i) == p.tokens[i] \in Starters \cup {"EOF"} \/ p.tokens[i - 1] = ";"
  IN [p EXCEPT !.current = CHOOSE i \in from .. Len(p.tokens) :
                             Stops(i) /\ \A j \in from .. i - 1 : ~Stops(j)]

-----------------------------------------------------------------------------
(* Expressions *)

RECURSIVE expression(_), rung(_, _), rungRest(_, _), unary(_), callRest(_), arguments(_, _)

\* The rungs of the precedence ladder, loosest first: or, and, equality,
\* comparison, term, factor
Rungs ==
  <<[node |-> "Logical", operators |-> {"or"}], [node |-> "Logical", operators |-> {"and"}],
    [node |-> "Binary", operators |-> {"!=", "=="}],
    [node |-> "Binary", operators |-> {">", ">=", "<", "<="}],
    [node |-> "Binary", operators |-> {"-", "+"}], [node |-> "Binary", operators |-> {"/", "*"}]>>

\* Each operator of the rung folds what is left of it.
rungRest(p, n) ==
  IF ~match(p, Rungs[n].operators) THEN p
  ELSE LET right == rung(advance(p), n + 1)
       IN rungRest(Returns(right, Node(Rungs[n].node, p.current, <<p.node, right.node>>)), n)

rung(p, n) == IF n > Len(Rungs) THEN unary(p) ELSE rungRest(rung(p, n + 1), n)

\* What the left side of '=' turned out to be decides the assignment's node.
assign(value, target, equals) ==
  CASE target.kind = "Variable" -> Returns(value, Node("Assign", target.at, <<value.node>>))
    [] target.kind = "Get" -> Returns(value, Node("Set", target.at, Append(target.kids, value.node)))
    [] OTHER -> ParseErrorAt(value, equals, "Invalid assignment target.")

assignmentTo(left) ==
  IF ~match(left, {"="}) THEN left
  ELSE assign(expression(advance(left)), left.node, left.current)

assignment(p) == assignmentTo(rung(p, 1))

expression(p) == IF Failed(p) THEN p ELSE assignment(p)

\* Mutant: `super` is an expression of its own.
superAlone(p) == Returns(advance(p), Node("Super", p.current, <<Leaf(p.current)>>))

super(p) ==
  LET dot == consume(advance(p), ".", "Expect '.' after 'super'.")
      method == consume(dot, "id", "Expect superclass method name.")
  IN Returns(method, Node("Super", p.current, <<method.node>>))

\* The one operand, the token after it, and the node around it
Enclosed(operand, end, message, kind, at) ==
  Returns(consume(operand, end, message), Node(kind, at, <<operand.node>>))

grouping(p) == Enclosed(expression(advance(p)), ")", "Expect ')' after expression.", "Grouping", 0)

primary(p) ==
  CASE match(p, {"false", "true", "nil", "number", "string"}) -> Returns(advance(p), Node("Literal", p.current, <<>>))
    [] match(p, {"super"}) -> super(p)
    [] match(p, {"this"}) -> Returns(advance(p), Node("This", p.current, <<>>))
    [] match(p, {"id"}) -> Returns(advance(p), Node("Variable", p.current, <<>>))
    [] match(p, {"("}) -> grouping(p)
    [] OTHER -> ParseErrorAt(p, p.current, "Expect expression.")

\* One too many is reported, and the list goes on.
arguments(p, done) ==
  LET counted == IF Len(done) >= MaxParameters
                 THEN ErrorToken(p, p.current, "Can't have more than 255 arguments.") ELSE p
      argument == expression(counted)
      all == Append(done, argument.node)
  IN IF match(argument, {","}) THEN arguments(advance(argument), all) ELSE Returns(argument, List(all))

finishCall(p, callee) ==
  LET list == IF check(p, ")") THEN Returns(p, List(<<>>)) ELSE arguments(p, <<>>)
      paren == consume(list, ")", "Expect ')' after arguments.")
  IN Returns(paren, Node("Call", list.current, <<callee, list.node>>))

callRest(p) ==
  CASE match(p, {"("}) -> callRest(finishCall(advance(p), p.node))
    [] match(p, {"."}) ->
         LET name == consume(advance(p), "id", "Expect property name after '.'.")
         IN callRest(Returns(name, Node("Get", p.current + 1, <<p.node>>)))
    [] OTHER -> p

unary(p) ==
  IF match(p, {"!", "-"})
  THEN LET right == unary(advance(p)) IN Returns(right, Node("Unary", p.current, <<right.node>>))
  ELSE callRest(primary(p))

-----------------------------------------------------------------------------
(* Statements *)

RECURSIVE statement(_), blockRest(_, _), parameters(_, _), methods(_, _, _)

block(p) == blockRest(p, <<>>)
blockBody(p, message) == LET open == consume(p, "{", message) IN IF Failed(open) THEN open ELSE block(open)

expressionStmt(p) ==
  Enclosed(expression(p), ";", "Expect ';' after expression.", "Expression", 0)

printStatement(p) == Enclosed(expression(p), ";", "Expect ';' after value.", "Print", 0)

\* p is just past the keyword.
returnStatement(p) ==
  Enclosed(IF check(p, ";") THEN Returns(p, NoNode) ELSE expression(p),
           ";", "Expect ';' after return value.", "Return", p.current - 1)

varDeclaration(p) ==
  LET name == consume(p, "id", "Expect variable name.")
  IN Enclosed(IF match(name, {"="}) THEN expression(advance(name)) ELSE Returns(name, NoNode),
              ";", "Expect ';' after variable declaration.", "Var", p.current)

whileStatement(p) ==
  With(expression(consume(p, "(", "Expect '(' after 'while'.")), LAMBDA condition :
  With(statement(consume(condition, ")", "Expect ')' after condition.")), LAMBDA body :
    Returns(body, Node("While", 0, <<condition.node, body.node>>))))

ifStatement(p) ==
  With(expression(consume(p, "(", "Expect '(' after 'if'.")), LAMBDA condition :
  With(statement(consume(condition, ")", "Expect ')' after if condition.")), LAMBDA then :
  With(IF match(then, {"else"}) THEN statement(advance(then)) ELSE Returns(then, NoNode), LAMBDA else :
    Returns(else, Node("If", 0, <<condition.node, then.node, else.node>>)))))

\* A for is a while, with a block around its body for the increment and one
\* around itself for the initializer.
Desugared(initializer, condition, increment, body) ==
  LET Block(nodes) == Node("Block", 0, nodes)
      inner == IF increment = NoNode THEN body ELSE Block(<<body, Node("Expression", 0, <<increment>>)>>)
      test == IF condition = NoNode THEN Node("Literal", 0, <<>>) ELSE condition
      loop == Node("While", 0, <<test, inner>>)
  IN IF initializer = NoNode THEN loop ELSE Block(<<initializer, loop>>)

forInitializer(p) ==
  CASE match(p, {";"}) -> Returns(advance(p), NoNode)
    [] match(p, {"var"}) -> varDeclaration(advance(p))
    [] OTHER -> expressionStmt(p)

\* Either clause may be left out.
forClause(p, end) == IF check(p, end) THEN Returns(p, NoNode) ELSE expression(p)

forStatement(p) ==
  With(forInitializer(consume(p, "(", "Expect '(' after 'for'.")), LAMBDA initializer :
  With(forClause(initializer, ";"), LAMBDA condition :
  With(forClause(consume(condition, ";", "Expect ';' after loop condition."), ")"), LAMBDA increment :
  With(statement(consume(increment, ")", "Expect ')' after for clauses.")), LAMBDA body :
    Returns(body, Desugared(initializer.node, condition.node, increment.node, body.node))))))

statement(p) ==
  LET next == advance(p)
  IN CASE Failed(p) -> p
       [] match(p, {"for"}) -> forStatement(next)
       [] match(p, {"if"}) -> ifStatement(next)
       [] match(p, {"print"}) -> printStatement(next)
       [] match(p, {"return"}) -> returnStatement(next)
       [] match(p, {"while"}) -> whileStatement(next)
       [] match(p, {"{"}) -> LET list == block(next) IN Returns(list, Node("Block", 0, list.node.kids))
       [] OTHER -> expressionStmt(p)

-----------------------------------------------------------------------------
(* Declarations *)

parameters(p, done) ==
  LET counted == IF Len(done) >= MaxParameters
                 THEN ErrorToken(p, p.current, "Can't have more than 255 parameters.") ELSE p
      param == consume(counted, "id", "Expect parameter name.")
      all == Append(done, param.node)
  IN IF match(param, {","}) THEN parameters(advance(param), all) ELSE Returns(param, List(all))

\* A member of a class with a body straight after its name is a getter.
functionBody(p, kind, allowGetter) ==
  LET name == consume(p, "id", "Expect " \o kind \o " name.")
      getter == allowGetter /\ check(name, "{")
      open == consume(name, "(", "Expect '(' after " \o kind \o " name.")
      params == IF check(open, ")") THEN Returns(open, List(<<>>)) ELSE parameters(open, <<>>)
      closed == IF getter THEN name ELSE consume(params, ")", "Expect ')' after parameters.")
  IN With(blockBody(closed, "Expect '{' before " \o kind \o " body."), LAMBDA body :
       Returns(body, IF getter THEN Node("Getter", p.current, <<body.node>>)
                     ELSE Node("Function", p.current, <<params.node, body.node>>)))

\* The members of a class: own the instance's, shared the class's.
methods(p, own, shared) ==
  IF Failed(p) \/ check(p, "}") \/ isAtEnd(p)
  THEN Returns(p, List(<<List(own), List(shared)>>))
  ELSE LET onTheClass == match(p, {"class"})
       IN With(functionBody(IF onTheClass THEN advance(p) ELSE p, "method", TRUE), LAMBDA method :
            IF onTheClass THEN methods(method, own, Append(shared, method.node))
            ELSE methods(method, Append(own, method.node), shared))

classDeclaration(p) ==
  LET name == consume(p, "id", "Expect class name.")
      superclass == IF match(name, {"<"})
                    THEN consume(advance(name), "id", "Expect superclass name.") ELSE Returns(name, NoNode)
  IN With(methods(consume(superclass, "{", "Expect '{' before class body."), <<>>, <<>>), LAMBDA members :
       Returns(consume(members, "}", "Expect '}' after class body."),
               Node("Class", p.current, <<superclass.node>> \o members.node.kids)))

declaration(p) ==
  CASE match(p, {"class"}) -> classDeclaration(advance(p))
    [] match(p, {"fun"}) -> functionBody(advance(p), "function", FALSE)
    [] match(p, {"var"}) -> varDeclaration(advance(p))
    [] OTHER -> statement(p)

\* An error returned is remembered, and parsing goes on after it.
Recovered(p, node) ==
  IF p.err = <<>> THEN p
  ELSE synchronize([p EXCEPT !.programErrors = @ \o p.err, !.err = <<>>, !.node = node])

declarationRecovering(p) == Recovered(declaration(p), NoNode)

\* A round of the loop of ParseProgram and of block, statements so far in done
Round(p, done) ==
  With(declarationRecovering(p), LAMBDA q :
    IF q.current = p.current THEN Hangs(q)
    ELSE Returns(q, List(IF q.node = NoNode THEN done ELSE Append(done, q.node))))

blockRest(p, done) ==
  IF Failed(p) THEN p
  ELSE IF check(p, "}") \/ isAtEnd(p)
  THEN Returns(consume(p, "}", "Expect '}' after block."), List(done))
  ELSE With(Round(p, done), LAMBDA q : blockRest(q, q.node.kids))

-----------------------------------------------------------------------------
(* The entry points: Parse in one go, the loops a round at a time *)

New(tokens, k) == Returns(NewParser(tokens), List(<<>>))

Parse(p) ==
  With(expression(p), LAMBDA expr :
    IF isAtEnd(expr) THEN expr ELSE ParseErrorAt(expr, expr.current, "Expect end of expression."))

ParseProgram(p) == Round(p, p.node.kids)

\* A round of ParseAll: one expression up to its ';'
ParseAll(p) ==
  With(expression(p), LAMBDA expr :
  With(Returns(consume(expr, ";", "Expect ';' after expression."), List(Append(p.node.kids, expr.node))), LAMBDA q :
  With(Recovered(q, p.node), LAMBDA r :
    IF r.current = p.current THEN Hangs(r) ELSE r)))
=============================================================================
