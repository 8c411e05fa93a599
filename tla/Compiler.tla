------------------------------ MODULE Compiler ------------------------------
(***************************************************************************)
(* clox/compiler.c: a Pratt parser with one token of lookahead that emits  *)
(* bytecode as it goes.                                                    *)
(*                                                                         *)
(* The C call stack is the variable frames, innermost call first: what is  *)
(* left to do in parsePrecedence, in each rule that is waiting for an      *)
(* operand, and in compile.  A step runs from one of these points to the   *)
(* next call of parsePrecedence.                                           *)
(***************************************************************************)
EXTENDS Chunk, SequencesExt

VARIABLES
  source,   \* the tokens of the text, as scanToken will return them
  parser,   \* the Parser, with the scanner's cursor and the messages printed
  frames,   \* the calls still running
  mem,      \* memory
  chunk     \* compilingChunk
vars == <<source, parser, frames, mem, chunk>>

PREC_NONE        == 0
PREC_ASSIGNMENT  == 1
PREC_CONDITIONAL == 2
PREC_TERM        == 7
PREC_FACTOR      == 8
PREC_UNARY       == 9

\* The column of rules that says how tightly a token binds after an operand.
Precedence(type) ==
  CASE type = "?"          -> PREC_CONDITIONAL
    [] type \in {"-", "+"} -> PREC_TERM
    [] type \in {"/", "*"} -> PREC_FACTOR
    [] OTHER               -> PREC_NONE

\* The opcode of binary for each operator.
Opcode ==
  [type \in {"+", "-", "*", "/"} |->
     CASE type = "+" -> OP_ADD [] type = "-" -> OP_SUBTRACT [] type = "*" -> OP_MULTIPLY [] type = "/" -> OP_DIVIDE]

-----------------------------------------------------------------------------
(* Errors and the token stream: p is the parser *)

\* scanToken: the token at index i of the text, or EOF on its last line.
Token(i) ==
  IF i <= Len(source) THEN [type |-> source[i].type, line |-> source[i].line, at |-> i]
  ELSE [type |-> "eof", line |-> IF source = <<>> THEN 1 ELSE Last(source).line, at |-> i]

NoToken == [type |-> "eof", line |-> 0, at |-> 0]

\* A plausible bug: every error is reported, also those an earlier one caused.
errorAtEvery(p, token, message) ==
  [p EXCEPT !.panicMode = TRUE, !.hadError = TRUE,
            !.messages = Append(@, [at |-> token.at, text |-> message])]

\* Nothing is reported while panicMode is set.
errorAt(p, token, message) ==
  IF p.panicMode THEN p
  ELSE [p EXCEPT !.panicMode = TRUE, !.hadError = TRUE,
                 !.messages = Append(@, [at |-> token.at, text |-> message])]

\* The next token that is no complaint of the scanner's becomes current; the
\* first complaint before it is reported, and with it panicMode set.
advance(p) ==
  LET good == CHOOSE i \in p.next .. Len(source) + 1 :
                /\ Token(i).type # "error"
                /\ \A j \in p.next .. i - 1 : Token(j).type = "error"
      moved == [p EXCEPT !.previous = p.current, !.current = Token(good),
                         !.next = IF good > Len(source) THEN good ELSE good + 1]
  IN IF good > p.next THEN errorAt(moved, Token(p.next), "scanner") ELSE moved

consume(p, type, message) ==
  IF p.current.type = type THEN advance(p) ELSE errorAt(p, p.current, message)

-----------------------------------------------------------------------------
(* Emitting *)

Now == [mem |-> mem, chunk |-> chunk]
Emitted(s) == mem' = s.mem /\ chunk' = s.chunk

\* A plausible bug: a byte is attributed to the token about to be parsed.
emitByteAtCurrent(p, s, byte) == writeChunk(s, byte, p.current.line)

\* Every byte is attributed to the token just consumed.
emitByte(p, s, byte) == writeChunk(s, byte, p.previous.line)

\* number and emitConstant: the value is the token's.
emitConstant(p) ==
  /\ Emitted(writeConstant(Now, <<"num", p.previous.at>>, p.previous.line))
  /\ parser' = IF PoolFull(Now) THEN errorAt(p, p.previous, "Too many constants in one chunk.") ELSE p

-----------------------------------------------------------------------------
(* The calls *)

Call(name, argument) == [name |-> name, argument |-> argument]
parsePrecedence(precedence) == Call("parsePrecedence", precedence)

\* A plausible bug: the loosest precedence there is lets any token pass for an
\* operator.
expressionLoosest == parsePrecedence(PREC_NONE)

expression == parsePrecedence(PREC_ASSIGNMENT)

Top == frames[1]
Running(name) == frames # <<>> /\ Top.name = name
Return == frames' = Tail(frames)
Continue(calls) == frames' = calls \o Tail(frames)

Fresh == [current |-> NoToken, previous |-> NoToken, next |-> 1,
          hadError |-> FALSE, panicMode |-> FALSE, messages |-> <<>>]

\* compile up to its call of expression; the caller has set text and a chunk.
Begin(text) ==
  /\ source' = text
  /\ parser' = Fresh
  /\ frames' = <<Call("compile", 0)>>

\* The first advance of compile.
Compile ==
  /\ Running("compile")
  /\ parser' = advance(parser)
  /\ frames' = <<expression, Call("endCompiler", 0)>>
  /\ UNCHANGED <<source, mem, chunk>>

\* parsePrecedence up to the prefix rule: number emits, grouping and unary call
\* for their operand, and every other token cannot start an expression.
ParsePrecedence ==
  /\ Running("parsePrecedence")
  /\ LET p == advance(parser)
         type == p.previous.type
         infix == Call("infix", Top.argument)
     IN \/ /\ type = "num"
           /\ emitConstant(p)
           /\ Continue(<<infix>>)
        \/ /\ type = "("
           /\ parser' = p
           /\ Continue(<<expression, Call("grouping", 0), infix>>)
           /\ UNCHANGED <<mem, chunk>>
        \/ /\ type = "-"
           /\ parser' = p
           /\ Continue(<<parsePrecedence(PREC_UNARY), Call("unary", 0), infix>>)
           /\ UNCHANGED <<mem, chunk>>
        \/ /\ type \notin {"num", "(", "-"}
           /\ parser' = errorAt(p, p.previous, "Expect expression.")
           /\ Return
           /\ UNCHANGED <<mem, chunk>>
  /\ UNCHANGED source

\* A plausible bug: the right operand takes operators as tight as this one.
rightOperandLoose(type) == parsePrecedence(Precedence(type))

\* The right operand of a binary operator takes tighter operators only.
rightOperand(type) == parsePrecedence(Precedence(type) + 1)

\* The loop of parsePrecedence: an operator that binds as tightly as the caller
\* asked for is consumed and its rule called, until there is none.
Infix ==
  /\ Running("infix")
  /\ IF Top.argument <= Precedence(parser.current.type)
     THEN LET p == advance(parser)
              type == p.previous.type
          IN /\ parser' = p
             /\ frames' = (IF type = "?" THEN <<expression, Call("then", p.previous)>>
                           ELSE <<rightOperand(type), Call("binary", type)>>) \o frames
     ELSE Return /\ UNCHANGED parser
  /\ UNCHANGED <<source, mem, chunk>>

\* grouping after its expression
Grouping ==
  /\ Running("grouping")
  /\ parser' = consume(parser, ")", "Expect ')' after expression.")
  /\ Return
  /\ UNCHANGED <<source, mem, chunk>>

\* unary after its operand
Unary ==
  /\ Running("unary")
  /\ Emitted(emitByte(parser, Now, OP_NEGATE))
  /\ Return
  /\ UNCHANGED <<source, parser>>

\* binary after its right operand; a token without an opcode would emit nothing.
Binary ==
  /\ Running("binary")
  /\ IF Top.argument \in DOMAIN Opcode THEN Emitted(emitByte(parser, Now, Opcode[Top.argument]))
     ELSE UNCHANGED <<mem, chunk>>
  /\ Return
  /\ UNCHANGED <<source, parser>>

\* ternary after its middle operand
Then ==
  /\ Running("then")
  /\ parser' = consume(parser, ":", "Expect ':' after then branch of conditional.")
  /\ Continue(<<parsePrecedence(PREC_CONDITIONAL), Call("else", Top.argument)>>)
  /\ UNCHANGED <<source, mem, chunk>>

\* ternary after its else branch: it parses, and cannot be compiled.
Else ==
  /\ Running("else")
  /\ parser' = errorAt(parser, Top.argument, "The '?:' operator parses but cannot be compiled yet.")
  /\ Return
  /\ UNCHANGED <<source, mem, chunk>>

\* compile after its expression, with endCompiler
EndCompiler ==
  /\ Running("endCompiler")
  /\ LET p == consume(parser, "eof", "Expect end of expression.")
     IN /\ parser' = p
        /\ Emitted(emitByte(p, Now, OP_RETURN))
  /\ Return
  /\ UNCHANGED source

Next == Compile \/ ParsePrecedence \/ Infix \/ Grouping \/ Unary \/ Binary \/ Then \/ Else \/ EndCompiler
=============================================================================
