--------------------------- MODULE MCExpressions ---------------------------
(* Every text of at most MaxTokens tokens, each token on a line of its own. *)
EXTENDS CloxProperties

CONSTANTS Types, MaxTokens

EveryText ==
  {[i \in DOMAIN types |-> [type |-> types[i], line |-> i]] : types \in SeqOf(Types, MaxTokens)}
=============================================================================
