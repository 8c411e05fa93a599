------------------------------- MODULE Ladder -------------------------------
(***************************************************************************)
(* The recursive-descent expression parser of parser/parser.go and the     *)
(* postfix printer of ast/rpn.go, on the tokens that both front ends know: *)
(* numbers, + - * /, unary minus and parentheses.  The rules between       *)
(* assignment and comparison have no token here and pass through.          *)
(*                                                                         *)
(* A parse function takes the tokens s and the index i of the next one and *)
(* returns the index after what it consumed, the tree, and the message of  *)
(* the error that stopped it, blamed on the token at that index.           *)
(***************************************************************************)
EXTENDS Naturals, Sequences

TypeAt(s, i) == IF i <= Len(s) THEN s[i].type ELSE "eof"

Parsed(i, tree)      == [at |-> i, tree |-> tree, error |-> ""]
Failed(i, message)   == [at |-> i, tree |-> <<>>, error |-> message]
Node(op, kids, end)  == [op |-> op, kids |-> kids, end |-> end]   \* end: the last token

RECURSIVE expression(_, _), unary(_, _), termRest(_, _), factorRest(_, _)

primary(s, i) ==
  CASE TypeAt(s, i) = "num" -> Parsed(i + 1, Node("num", <<>>, i))
    [] TypeAt(s, i) = "(" ->
         LET inner == expression(s, i + 1)
         IN IF inner.error # "" THEN inner
            ELSE IF TypeAt(s, inner.at) = ")"
            THEN Parsed(inner.at + 1, Node("group", <<inner.tree>>, inner.at))
            ELSE Failed(inner.at, "Expect ')' after expression.")
    [] OTHER -> Failed(i, "Expect expression.")

unary(s, i) ==
  IF TypeAt(s, i) # "-" THEN primary(s, i)
  ELSE LET right == unary(s, i + 1)
       IN IF right.error # "" THEN right
          ELSE Parsed(right.at, Node("negate", <<right.tree>>, right.tree.end))

\* left is an operand; swallow operators while they last.
factorRest(s, left) ==
  IF left.error # "" \/ TypeAt(s, left.at) \notin {"/", "*"} THEN left
  ELSE LET right == unary(s, left.at + 1)
       IN IF right.error # "" THEN right
          ELSE factorRest(s, Parsed(right.at, Node(TypeAt(s, left.at), <<left.tree, right.tree>>, right.tree.end)))

factor(s, i) == factorRest(s, unary(s, i))

termRest(s, left) ==
  IF left.error # "" \/ TypeAt(s, left.at) \notin {"-", "+"} THEN left
  ELSE LET right == factor(s, left.at + 1)
       IN IF right.error # "" THEN right
          ELSE termRest(s, Parsed(right.at, Node(TypeAt(s, left.at), <<left.tree, right.tree>>, right.tree.end)))

term(s, i) == termRest(s, factor(s, i))

expression(s, i) == term(s, i)

\* One expression, and the stream ends there.
Parse(s) ==
  LET parsed == expression(s, 1)
  IN IF parsed.error = "" /\ TypeAt(s, parsed.at) # "eof"
     THEN Failed(parsed.at, "Expect end of expression.") ELSE parsed

-----------------------------------------------------------------------------
(* What a tree means *)

\* RPNPrinter: the operations in postfix order, each a number token or an
\* operator, with the last token of what it computes; groups leave no trace.
RECURSIVE Postfix(_)
Postfix(tree) ==
  LET operands == IF Len(tree.kids) = 0 THEN <<>>
                  ELSE IF Len(tree.kids) = 1 THEN Postfix(tree.kids[1])
                  ELSE Postfix(tree.kids[1]) \o Postfix(tree.kids[2])
  IN IF tree.op = "group" THEN operands ELSE Append(operands, [op |-> tree.op, end |-> tree.end])

\* The value, as the expression it is: a number is the token it came from.
RECURSIVE Value(_)
Value(tree) ==
  CASE tree.op = "num"    -> <<"num", tree.end>>
    [] tree.op = "group"  -> Value(tree.kids[1])
    [] tree.op = "negate" -> <<"negate", Value(tree.kids[1])>>
    [] OTHER              -> <<tree.op, Value(tree.kids[1]), Value(tree.kids[2])>>
=============================================================================
