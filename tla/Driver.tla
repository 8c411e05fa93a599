------------------------------- MODULE Driver -------------------------------
(***************************************************************************)
(* parser/llk/parser.go: a loop over an explicit stack that expands what   *)
(* the table predicts, for expressions and the statements that hold no     *)
(* others, and below it functions for those that do.                       *)
(*                                                                         *)
(* A parser is that of Tokens with the two stacks of the loop, work (top   *)
(* first) and vals (top last), k, and the lookahead limit.                 *)
(***************************************************************************)
EXTENDS LoxGrammar, Table

CONSTANTS
  MaxParameters,  \* 255 in the code
  Lookaheads,     \* the values of k in use
  MaxSteps        \* 2^MaxSteps: the steps after which the loop counts as endless

windowsFor == [k \in Lookaheads |-> lookaheads(loxGrammar, entries, k)]
tableFor == [k \in Lookaheads |-> newTable(loxGrammar, windowsFor[k], k)]
ASSUME GrammarIsValid == validate(loxGrammar, entries)

peek(p) == IF p.current \in DOMAIN p.tokens THEN p.tokens[p.current] ELSE "EOF"
isAtEnd(p) == peek(p) = "EOF"
check(p, type) == ~Failed(p) /\ peek(p) = type
advance(p) == IF isAtEnd(p) \/ Failed(p) THEN p ELSE [p EXCEPT !.current = @ + 1, !.node = Leaf(p.current)]
consume(p, type, message) == IF check(p, type) THEN advance(p) ELSE ParseErrorAt(p, p.current, message)

\* The rule of the other parser, and both stacks dropped
synchronize(p) ==
  LET from == advance(p).current
      Stops(i) == p.tokens[i] \in Starters \cup {"EOF"} \/ p.tokens[i - 1] = ";"
  IN [p EXCEPT !.work = <<>>, !.vals = <<>>,
               !.current = CHOOSE i \in from .. Len(p.tokens) :
                             Stops(i) /\ \A j \in from .. i - 1 : ~Stops(j)]

-----------------------------------------------------------------------------
(* The loop *)

\* The next k tokens, cut at EOF, which is also what lies past the limit
window(p) ==
  LET seen(i) == IF p.lookaheadLimit = 0 \/ i < p.lookaheadLimit THEN peek([p EXCEPT !.current = i]) ELSE "EOF"
  IN norm([i \in 1 .. p.k |-> seen(p.current + i - 1)], p.k)

terminalMessage(item) == IF item.msg # "" THEN item.msg ELSE "Expect " \o item.sym \o "."

\* The production the table names for the window, or else the one recover does
choice(t, name, la) ==
  LET exact == predict(t, name, la) IN IF exact # {} THEN exact ELSE recover(t, name, la)

expand(p, name) ==
  With(choice(tableFor[p.k], name, window(p)), LAMBDA chosen :
    IF chosen = {} THEN ParseErrorAt(p, p.current, failMessage(fail, name))
    ELSE [p EXCEPT !.work = loxGrammar[CHOOSE i \in chosen : TRUE].body \o @])

\* The one thing the kind of the topmost item calls for
step(p) ==
  LET item == Head(p.work)
      q == [p EXCEPT !.work = Tail(@)]
  IN CASE item.kind = "action" -> semantic(q, item.sym)
       [] item.kind = "nonterminal" -> expand(q, item.sym)
       [] item.kind = "terminal" /\ check(q, item.sym) -> push(advance(q), Leaf(q.current))
       [] OTHER -> ParseErrorAt(q, q.current, terminalMessage(item))

RECURSIVE Steps(_, _)
\* At most 2^n steps
Steps(p, n) ==
  CASE Failed(p) \/ p.work = <<>> -> p
    [] n = 0 -> step(p)
    [] OTHER -> Steps(Steps(p, n - 1), n - 1)

\* What the loop leaves is one value, unless a step failed.
result(p) ==
  CASE Failed(p) -> p
    [] ~Failed(p) /\ p.work # <<>> -> Hangs(p)
    [] ~Failed(p) /\ p.work = <<>> /\ Len(p.vals) = 1 -> Returns(p, p.vals[1])
    [] OTHER -> [p EXCEPT !.err = <<[at |-> 0, message |-> "internal error"]>>]

run(p, start) ==
  IF Failed(p) THEN p
  ELSE [result(Steps([p EXCEPT !.work = <<nt(start)>>, !.vals = <<>>], MaxSteps))
          EXCEPT !.work = <<>>, !.vals = <<>>]

\* Just past the first such delimiter outside parentheses, 0 for none
delimiterLimit(p, delimiter) ==
  LET from == p.current
      \* nesting before token i; a ')' too many leaves it at 0
      depth[i \in from .. Len(p.tokens)] ==
        IF i = from THEN 0
        ELSE CASE p.tokens[i - 1] = "(" -> depth[i - 1] + 1
               [] p.tokens[i - 1] = ")" /\ depth[i - 1] > 0 -> depth[i - 1] - 1
               [] OTHER -> depth[i - 1]
      found == {i \in DOMAIN depth : depth[i] = 0 /\ p.tokens[i] = delimiter}
  IN IF found = {} THEN 0 ELSE (CHOOSE i \in found : \A j \in found : i <= j) + 1

runStatement(p, start) ==
  LET limit == delimiterLimit(p, ";")
      limited == IF limit # 0 THEN [p EXCEPT !.lookaheadLimit = limit] ELSE p
  IN [run(limited, start) EXCEPT !.lookaheadLimit = p.lookaheadLimit]

expression(p) == run(p, "expression")
expressionBefore(p, delimiter) ==
  [expression([p EXCEPT !.lookaheadLimit = delimiterLimit(p, delimiter)])
     EXCEPT !.lookaheadLimit = p.lookaheadLimit]

-----------------------------------------------------------------------------
(* The statements that hold others, and the declarations *)

RECURSIVE statement(_), blockRest(_, _), parameters(_, _), methods(_, _, _)

\* p is at the '{'.
block(p) == blockRest(advance(p), <<>>)
blockStatements(p) == block(p)

whileStatement(p) ==
  With(expressionBefore(consume(p, "(", "Expect '(' after 'while'."), ")"), LAMBDA condition :
  With(statement(consume(condition, ")", "Expect ')' after condition.")), LAMBDA body :
    Returns(body, Node("While", 0, <<condition.node, body.node>>))))

ifStatement(p) ==
  With(expressionBefore(consume(p, "(", "Expect '(' after 'if'."), ")"), LAMBDA condition :
  With(statement(consume(condition, ")", "Expect ')' after if condition.")), LAMBDA then :
  With(IF check(then, "else") THEN statement(advance(then)) ELSE Returns(then, NoNode), LAMBDA else :
    Returns(else, Node("If", 0, <<condition.node, then.node, else.node>>)))))

Desugared(initializer, condition, increment, body) ==
  LET Block(nodes) == Node("Block", 0, nodes)
      inner == IF increment = NoNode THEN body ELSE Block(<<body, Node("Expression", 0, <<increment>>)>>)
      test == IF condition = NoNode THEN Node("Literal", 0, <<>>) ELSE condition
      loop == Node("While", 0, <<test, inner>>)
  IN IF initializer = NoNode THEN loop ELSE Block(<<initializer, loop>>)

forInitializer(p) ==
  CASE check(p, ";") -> Returns(advance(p), NoNode)
    [] check(p, "var") -> runStatement(p, "varDeclaration")
    [] OTHER -> runStatement(p, "exprStatement")

\* Either clause may be left out.
forClause(p, end) == IF check(p, end) THEN Returns(p, NoNode) ELSE expressionBefore(p, end)

forStatement(p) ==
  With(forInitializer(consume(p, "(", "Expect '(' after 'for'.")), LAMBDA initializer :
  With(forClause(initializer, ";"), LAMBDA condition :
  With(forClause(consume(condition, ";", "Expect ';' after loop condition."), ")"), LAMBDA increment :
  With(statement(consume(increment, ")", "Expect ')' after for clauses.")), LAMBDA body :
    Returns(body, Desugared(initializer.node, condition.node, increment.node, body.node))))))

statement(p) ==
  CASE Failed(p) -> p
    [] check(p, "for") -> forStatement(advance(p))
    [] check(p, "if") -> ifStatement(advance(p))
    [] check(p, "print") -> runStatement(p, "printStatement")
    [] check(p, "return") -> runStatement(p, "returnStatement")
    [] check(p, "while") -> whileStatement(advance(p))
    [] check(p, "{") -> LET list == block(p) IN Returns(list, Node("Block", 0, list.node.kids))
    [] OTHER -> runStatement(p, "exprStatement")

parameters(p, done) ==
  LET counted == IF Len(done) >= MaxParameters
                 THEN ErrorToken(p, p.current, "Can't have more than 255 parameters.") ELSE p
      param == consume(counted, "id", "Expect parameter name.")
      all == Append(done, param.node)
  IN IF check(param, ",") THEN parameters(advance(param), all) ELSE Returns(param, List(all))

functionBlock(p, message) == IF check(p, "{") THEN blockStatements(p) ELSE ParseErrorAt(p, p.current, message)

functionBody(p, kind, allowGetter) ==
  LET name == consume(p, "id", "Expect " \o kind \o " name.")
      getter == allowGetter /\ check(name, "{")
      open == consume(name, "(", "Expect '(' after " \o kind \o " name.")
      params == IF check(open, ")") THEN Returns(open, List(<<>>)) ELSE parameters(open, <<>>)
      closed == IF getter THEN name ELSE consume(params, ")", "Expect ')' after parameters.")
  IN With(functionBlock(closed, "Expect '{' before " \o kind \o " body."), LAMBDA body :
       Returns(body, IF getter THEN Node("Getter", p.current, <<body.node>>)
                     ELSE Node("Function", p.current, <<params.node, body.node>>)))

methods(p, own, shared) ==
  IF Failed(p) \/ check(p, "}") \/ isAtEnd(p)
  THEN Returns(p, List(<<List(own), List(shared)>>))
  ELSE LET onTheClass == check(p, "class")
       IN With(functionBody(IF onTheClass THEN advance(p) ELSE p, "method", TRUE), LAMBDA method :
            IF onTheClass THEN methods(method, own, Append(shared, method.node))
            ELSE methods(method, Append(own, method.node), shared))

classDeclaration(p) ==
  LET name == consume(p, "id", "Expect class name.")
      superclass == IF check(name, "<")
                    THEN consume(advance(name), "id", "Expect superclass name.") ELSE Returns(name, NoNode)
  IN With(methods(consume(superclass, "{", "Expect '{' before class body."), <<>>, <<>>), LAMBDA members :
       Returns(consume(members, "}", "Expect '}' after class body."),
               Node("Class", p.current, <<superclass.node>> \o members.node.kids)))

declaration(p) ==
  CASE check(p, "class") -> classDeclaration(advance(p))
    [] check(p, "fun") -> functionBody(advance(p), "function", FALSE)
    [] check(p, "var") -> runStatement(p, "varDeclaration")
    [] OTHER -> statement(p)

Recovered(p, node) ==
  IF p.err = <<>> THEN p
  ELSE synchronize([p EXCEPT !.programErrors = @ \o p.err, !.err = <<>>, !.node = node])

declarationRecovering(p) == Recovered(declaration(p), NoNode)

\* A round of the loop of ParseProgram and of block, statements so far in done
Round(p, done) ==
  With(declarationRecovering(p), LAMBDA q :
    IF q.current = p.current THEN Hangs(q)
    ELSE Returns(q, List(IF q.node = NoNode THEN done ELSE Append(done, q.node))))

blockRest(p, done) ==
  IF Failed(p) THEN p
  ELSE IF check(p, "}") \/ isAtEnd(p)
  THEN Returns(consume(p, "}", "Expect '}' after block."), List(done))
  ELSE With(Round(p, done), LAMBDA q : blockRest(q, q.node.kids))

-----------------------------------------------------------------------------
(* The entry points: Parse in one go, the loops a round at a time *)

NewK(tokens, k) ==
  Returns(NewParser(tokens), List(<<>>)) @@ [k |-> k, lookaheadLimit |-> 0, work |-> <<>>, vals |-> <<>>]

Parse(p) ==
  With(expression(p), LAMBDA expr :
    IF isAtEnd(expr) THEN expr ELSE ParseErrorAt(expr, expr.current, "Expect end of expression."))

ParseProgram(p) == Round(p, p.node.kids)

\* A round of ParseAll: one expression up to its ';'
ParseAll(p) ==
  With(run(p, "exprStatement"), LAMBDA q :
  With(Recovered(Returns(q, List(p.node.kids \o q.node.kids)), p.node), LAMBDA r :
    IF r.current = p.current THEN Hangs(r) ELSE r))
=============================================================================
