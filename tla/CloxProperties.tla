--------------------------- MODULE CloxProperties ---------------------------
(***************************************************************************)
(* What a correct clox computes, judged by the other front end's ladder.   *)
(***************************************************************************)
EXTENDS Clox, Ladder

Reference == Parse(source)

PoolSize == ByteSize * ByteSize * ByteSize
Numbers == {i \in 1 .. Len(source) : source[i].type = "num"}
Overflows == Cardinality(Numbers) > PoolSize

\* compile accepts what the recursive-descent parser accepts, with one message
\* when it does not, blamed on the same token for the same reason; but the
\* scanner's complaint about the very next token may come first, and ?: is
\* parsed here and refused.
OneMessage ==
  Compiled =>
    /\ parser.hadError <=> Len(parser.messages) = 1
    /\ Len(parser.messages) <= 1
    /\ ~Overflows => (parser.hadError <=> Reference.error # "")
    /\ parser.hadError /\ ~Overflows /\ (\A i \in 1 .. Len(source) : source[i].type # "?") =>
         LET said == parser.messages[1]
         IN \/ said.text = Reference.error /\ said.at = Reference.at
            \/ said.text = "scanner" /\ said.at \in {Reference.at, Reference.at + 1}

\* The bytecode is the postfix form of the tree, as tool/rpndiff.sh compares
\* them, every byte on the line of the last token of what it computes.
EmitsPostfix ==
  Compiled /\ ~parser.hadError =>
    LET postfix == Postfix(Reference.tree)
        Instruction(item) ==
          [op    |-> CASE item.op = "num" -> <<OP_CONSTANT, <<"num", item.end>>>>
                       [] item.op = "negate" -> <<OP_NEGATE>>
                       [] OTHER -> <<C!Opcode[item.op]>>,
           lines |-> {source[item.end].line}]
    IN disassembleChunk([mem |-> mem, chunk |-> chunk])
         = Append([i \in 1 .. Len(postfix) |-> Instruction(postfix[i])],
                  [op |-> <<OP_RETURN>>, lines |-> {source[Len(source)].line}])

\* A text that compiles runs to the value of its expression, with one push for
\* every pop; what an earlier chunk left on the stack does not matter.
ComputesTheValue ==
  doing = "run" /\ status # NULL =>
    /\ status = "INTERPRET_OK"
    /\ printed = Value(Reference.tree)
    /\ vm.stackTop = M!Pointer(vm.stack, 0)

\* Whatever the text, compile and run come back for the next one.
ComesBack == Busy ~> Idle
=============================================================================
