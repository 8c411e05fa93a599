----------------------------- MODULE MCSession -----------------------------
(* A few long texts and chunks, one after another in one process. *)
EXTENDS CloxProperties

\* Texts written as their tokens, the first half on line 1, the rest on line 2.
Text(types) == [i \in DOMAIN types |-> [type |-> types[i], line |-> IF 2 * i <= Len(types) THEN 1 ELSE 2]]

\* n numbers with an operator between them
Sum(n) == [i \in 1 .. 2 * n - 1 |-> IF i % 2 = 1 THEN "num" ELSE "+"]
\* n numbers, all on the stack at once
Deep(n) == FlattenSeq([i \in 1 .. n - 1 |-> <<"num", "/", "(">>]) \o <<"num">> \o [i \in 1 .. n - 1 |-> ")"]

Texts ==
  {Text(t) : t \in {Sum(8), Sum(9), Deep(4),
                    <<"(", "num", "+", "-", "-", "num", ")", "*", "num", "-", "num">>,
                    <<"num", "?", "num", ":", "num", "?", "num", ":", "num", ")">>,
                    <<"(", "error", "num", "error", "error">>,
                    <<>>}}

Load1 == [opcode |-> OP_CONSTANT, value |-> <<"by hand", 1>>]
Op(opcode) == [opcode |-> opcode, value |-> NULL]
LeavesTwo == <<Load1, Load1, Load1, Op(OP_RETURN)>>
Corrupt == <<Load1, Op(OP_NEGATE), Op(OP_RETURN + 1)>>
Chunks == {LeavesTwo, Corrupt}
=============================================================================
