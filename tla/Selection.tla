----------------------------- MODULE Selection ------------------------------
(* The elements of a sequence at some of its indices. *)
EXTENDS Naturals, Sequences

\* Of the first n elements of s, for every n, those with an index in at.
Selected(s, at) ==
  LET upTo[n \in 0 .. Len(s)] ==
        IF n = 0 THEN <<>> ELSE IF n \in at THEN Append(upTo[n - 1], s[n]) ELSE upTo[n - 1]
  IN upTo
=============================================================================
