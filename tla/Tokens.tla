------------------------------- MODULE Tokens -------------------------------
(***************************************************************************)
(* What the two parsers of glox share: the token stream, the tree nodes,   *)
(* and the error values of pkg/errors.                                     *)
(*                                                                         *)
(* A token is its type, written as its lexeme, and its index stands for    *)
(* its lexeme, literal and line: two tokens of a text never stand for each *)
(* other.  A parser is a record: the stream, the index of the next token,  *)
(* the errors returned and reported so far, and the result under way,      *)
(* which is an error (err), a node, or a loop that makes no progress       *)
(* (hangs).  Every operator on a parser that has failed leaves it alone,   *)
(* which is Go's "if err != nil { return nil, err }".                      *)
(***************************************************************************)
EXTENDS Naturals, Sequences

Node(kind, at, kids) == [kind |-> kind, at |-> at, kids |-> kids]
NoNode == Node("none", 0, <<>>)
List(nodes) == Node("list", 0, nodes)
Leaf(at) == Node("token", at, <<>>)

\* The stream always ends in EOF: the parsers add it to one that does not.
NewParser(tokens) ==
  [tokens |-> IF tokens # <<>> /\ tokens[Len(tokens)] = "EOF" THEN tokens ELSE Append(tokens, "EOF"),
   current |-> 1, programErrors |-> <<>>, reports |-> <<>>, err |-> <<>>, node |-> NoNode,
   hangs |-> FALSE]

\* A value used more than once in what follows
With(value, Body(_)) == Body(value)

Failed(p) == p.err # <<>> \/ p.hangs

Returns(p, node) == IF Failed(p) THEN p ELSE [p EXCEPT !.node = node]

\* A loop whose round consumed nothing will do the same for ever.
Hangs(p) == [p EXCEPT !.hangs = TRUE]

\* Reporting sets HadError whether or not the parser goes on to unwind: an error
\* over the limit of 255 is reported and not returned.
ErrorToken(p, at, message) ==
  IF Failed(p) THEN p
  ELSE [p EXCEPT !.reports = Append(@, [at |-> at, message |-> message])]

\* A plausible bug: an error that is reported and not returned sets no flag.
HadErrorIfReturned(p) == p.programErrors \o p.err # <<>>

HadError(p) == p.reports # <<>>

ParseErrorAt(p, at, message) ==
  IF Failed(p) THEN p
  ELSE [ErrorToken(p, at, message) EXCEPT !.err = <<[at |-> at, message |-> message]>>]

\* A token that can only start a statement
Starters == {"class", "fun", "var", "for", "if", "while", "print", "return"}
=============================================================================
