------------------------------ MODULE Language ------------------------------
(***************************************************************************)
(* The language both parsers are to accept, as a grammar to derive texts   *)
(* from: docs/grammar.md through chapter 13, with the class methods and    *)
(* getters of classDeclaration's comment.  The precedence ladder is left   *)
(* out: it groups operators and changes no text.                           *)
(*                                                                         *)
(* A derivation is the sequence of symbols still to match.  The text is    *)
(* read token by token with the set of all derivations that agree with it  *)
(* so far; a token is bad when it leaves none.  What may stand on the left *)
(* of '=' is asked one '=' at a time: the others take any operands.        *)
(***************************************************************************)
EXTENDS Naturals, Sequences

\* The symbols that stand for one of several tokens
OneOf ==
  [literal |-> {"false", "true", "nil", "number", "string", "this", "id"},
   operator |-> {"or", "and", "!=", "==", ">", ">=", "<", "<=", "-", "+", "/", "*"},
   sign |-> {"!", "-"}]

Rules ==
  [program |-> {<<"declarations", "EOF">>},
   line |-> {<<"expression", "EOF">>},
   batch |-> {<<"EOF">>, <<"exprStmt", "batch">>},
   declarations |-> {<<>>, <<"declaration", "declarations">>},
   declaration |-> {<<"class", "id", "{", "members", "}">>, <<"class", "id", "<", "id", "{", "members", "}">>,
                    <<"fun", "id", "function">>, <<"varDecl">>, <<"statement">>},
   members |-> {<<>>, <<"member", "members">>, <<"class", "member", "members">>},
   member |-> {<<"id", "function">>, <<"id", "block">>},
   function |-> {<<"(", ")", "block">>, <<"(", "parameters", ")", "block">>},
   parameters |-> {<<"id">>, <<"id", ",", "parameters">>},
   varDecl |-> {<<"var", "id", ";">>, <<"var", "id", "=", "expression", ";">>},
   exprStmt |-> {<<"expression", ";">>},
   block |-> {<<"{", "declarations", "}">>},
   statement |-> {<<"exprStmt">>, <<"print", "expression", ";">>, <<"block">>,
                  <<"return", ";">>, <<"return", "expression", ";">>,
                  <<"while", "(", "expression", ")", "statement">>,
                  <<"if", "(", "expression", ")", "statement">>,
                  <<"if", "(", "expression", ")", "statement", "else", "statement">>,
                  <<"for", "(", "first", "clause", ";", "clause", ")", "statement">>},
   first |-> {<<";">>, <<"varDecl">>, <<"exprStmt">>},
   clause |-> {<<>>, <<"expression">>},
   expression |-> {<<"operands">>, <<"operands", "any=", "expression">>, <<"target", "=", "expression">>},
   target |-> {<<"id">>, <<"primary", "suffixes", ".", "id">>},
   operands |-> {<<"operand">>, <<"operand", "operator", "operands">>},
   operand |-> {<<"sign", "operand">>, <<"primary", "suffixes">>},
   suffixes |-> {<<>>, <<"(", ")", "suffixes">>, <<"(", "arguments", ")", "suffixes">>, <<".", "id", "suffixes">>},
   arguments |-> {<<"expression">>, <<"expression", ",", "arguments">>},
   primary |-> {<<"literal">>, <<"super", ".", "id">>, <<"(", "expression", ")">>}]

RECURSIVE Derivations(_)
\* The derivations with their leftmost symbol expanded to one that is matched
Derivations(symbols) ==
  IF symbols = <<>> \/ symbols[1] \notin DOMAIN Rules THEN {symbols}
  ELSE UNION {Derivations(body \o Tail(symbols)) : body \in Rules[symbols[1]]}

\* strict: the indices where '=' needs a target on its left
Matches(symbol, token, i, strict) ==
  \/ symbol = token
  \/ symbol \in DOMAIN OneOf /\ token \in OneOf[symbol]
  \/ symbol = "any=" /\ token = "=" /\ i \notin strict

RECURSIVE FirstBadFrom(_, _, _, _)
FirstBadFrom(i, text, derivations, strict) ==
  LET agree == {d \in UNION {Derivations(d) : d \in derivations} :
                  d # <<>> /\ Matches(d[1], text[i], i, strict)}
  IN CASE i > Len(text) -> 0
       [] agree = {} -> i
       [] OTHER -> FirstBadFrom(i + 1, text, {Tail(d) : d \in agree}, strict)

\* The first token no text of the language has after those before it, 0 for none
FirstBad(text, start) == FirstBadFrom(1, text, {<<start>>}, {})

\* The '=' signs before it with something else than a target on their left
BadTargets(text, start) ==
  {i \in DOMAIN text : text[i] = "=" /\ FirstBadFrom(1, text, {<<start>>}, {i}) = i}
    \ {FirstBad(text, start)}
=============================================================================
