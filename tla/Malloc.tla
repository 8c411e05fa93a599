------------------------------- MODULE Malloc -------------------------------
(***************************************************************************)
(* What clox/heap.h promises a caller, with no word about how.             *)
(*                                                                         *)
(* A caller holds pointers.  Each owns as many bytes as were last asked    *)
(* for, starts at an aligned address, overlaps no other, and keeps in its  *)
(* words exactly what its owner put there, whatever happens to the others. *)
(* The content of words never written is anything.                         *)
(***************************************************************************)
EXTENDS Integers, Sequences

CONSTANTS
  Pointers,   \* the addresses that may be handed out
  Align,      \* every pointer is a multiple of this
  WordBytes,  \* the bytes of a word
  Requests,   \* the sizes callers ask for
  Values      \* the words they store

VARIABLES
  size,       \* the pointers held, each with the bytes asked for
  cells       \* and the words it holds
vars == <<size, cells>>

Words(n) == n \div WordBytes

Apart(p, m, q, n) == p + m <= q \/ q + n <= p

\* A block of n bytes at p would be aligned and clear of every block but
\* those in except.
Clear(p, n, except) ==
  /\ p % Align = 0
  /\ \A q \in DOMAIN size \ except : Apart(p, n, q, size[q])

\* The blocks in kept stay as they are, and p is the only other one.
Keep(kept, p, n) ==
  /\ size' = [q \in kept \cup {p} |-> IF q = p THEN n ELSE size[q]]
  /\ DOMAIN cells' = kept \cup {p}
  /\ Len(cells'[p]) = Words(n)
  /\ \A q \in kept : cells'[q] = cells[q]

Nothing == [p \in {} |-> 0]

Init == size = Nothing /\ cells = Nothing

Alloc(n) ==
  \E p \in Pointers \ DOMAIN size :
    /\ Clear(p, n, {})
    /\ Keep(DOMAIN size, p, n)

\* The block may move unless it shrinks; the words both sizes have survive.
Realloc(p, n) ==
  \E q \in (Pointers \ DOMAIN size) \cup {p} :
    /\ n <= size[p] => q = p
    /\ Clear(q, n, {p})
    /\ Keep(DOMAIN size \ {p}, q, n)
    /\ \A i \in 1 .. Words(IF n < size[p] THEN n ELSE size[p]) : cells'[q][i] = cells[p][i]

Free(p) ==
  /\ size' = [q \in DOMAIN size \ {p} |-> size[q]]
  /\ cells' = [q \in DOMAIN size \ {p} |-> cells[q]]

\* The owner of p fills what it asked for; nobody else's words change.
Fill(p, v) ==
  /\ UNCHANGED size
  /\ cells' = [cells EXCEPT ![p] = [i \in 1 .. Words(size[p]) |-> v]]

Reset == size' = Nothing /\ cells' = Nothing

\* A request that fails is a stuttering step: it changes nothing.
Next ==
  \/ \E n \in Requests : Alloc(n)
  \/ \E p \in DOMAIN size, n \in Requests : Realloc(p, n)
  \/ \E p \in DOMAIN size : Free(p)
  \/ \E p \in DOMAIN size, v \in Values : Fill(p, v)
  \/ Reset

Spec == Init /\ [][Next]_vars
=============================================================================
