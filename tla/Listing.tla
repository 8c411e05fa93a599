------------------------------- MODULE Listing -------------------------------
(***************************************************************************)
(* What clox/chunk.h promises of a chunk: a list of instructions, each with *)
(* the line it was compiled from, and the constants in the order they were  *)
(* added.  Nothing of bytes, operand widths, runs or capacities.            *)
(***************************************************************************)
EXTENDS Naturals, Sequences

CONSTANTS Opcodes, ConstantOp, Lines, Values, PoolLimit
VARIABLES program, pool
vars == <<program, pool>>

Instruction(op, line) == [op |-> op, lines |-> {line}]

Init == program = <<>> /\ pool = <<>>

Emit ==
  /\ UNCHANGED pool
  /\ \E op \in Opcodes, line \in Lines : program' = Append(program, Instruction(<<op>>, line))

\* A constant and its instruction arrive together or not at all.
Constant ==
  /\ Len(pool) < PoolLimit
  /\ \E value \in Values :
       /\ pool' = Append(pool, value)
       /\ \E line \in Lines : program' = Append(program, Instruction(<<ConstantOp, value>>, line))

Intern ==
  /\ \E value \in Values : pool' = Append(pool, value)
  /\ UNCHANGED program

Clear == pool' = <<>> /\ program' = <<>>

Next == Emit \/ Constant \/ Intern \/ Clear

Spec == Init /\ [][Next]_vars
=============================================================================
