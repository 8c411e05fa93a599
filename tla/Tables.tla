------------------------------- MODULE Tables -------------------------------
(***************************************************************************)
(* What the tables of Analysis mean: against the words the grammar         *)
(* derives, and as the decisions of a parser.                              *)
(***************************************************************************)
EXTENDS Analysis, Table, SequencesExt

CONSTANTS
  Terminals,
  MaxWord,  \* the longest words kept of a nonterminal's language
  MaxText,  \* the longest texts parsed
  MaxFuel   \* the longest parses

Join(a, b) == {w \in {x \o y : x \in a, y \in b} : Len(w) <= MaxWord}

WordsOf(words, body) ==
  FoldLeft(LAMBDA out, item : Join(out, IF item.kind = "terminal" THEN {<<item.sym>>} ELSE words[item.sym]),
           {<<>>}, Symbols(body))

\* The words each nonterminal derives, cut nowhere
Words ==
  LET Pass(words) == [A \in Heads(prods) |-> UNION {WordsOf(words, prods[p].body) : p \in byHead(prods, A)}]
  IN LeastFrom(Pass, [A \in Heads(prods) |-> {}])

\* What follows each nonterminal in a text derived from an entry
Contexts(words) ==
  LET Places(A, p) == {m \in DOMAIN prods[p].body : prods[p].body[m].kind = "nonterminal" /\ prods[p].body[m].sym = A}
      Rest(p, m) == WordsOf(words, SubSeq(prods[p].body, m + 1, Len(prods[p].body)))
      Pass(contexts) ==
        [A \in Heads(prods) |->
           (IF A \in grammar.entries THEN {<<>>} ELSE {})
           \cup UNION {UNION {Join(Rest(p, m), contexts[prods[p].head]) : m \in Places(A, p)} : p \in DOMAIN prods}]
  IN LeastFrom(Pass, [A \in Heads(prods) |-> {}])

\* FIRST_k is the words cut at k, FOLLOW_k what comes after in a whole text cut
\* at k: cutting at every step of the fixpoint loses and adds nothing (norm,
\* full, concat, analyze).  It is so when every nonterminal derives a word and
\* occurs in a text, as those of Lox do: a full string is kept even when what
\* must follow it is impossible.  Table, which analyses in one go, finds the same.
SetsAreThoseOfTheGrammar ==
  phase \in {"done", "conflict"} =>
    LET words == Words
        contexts == Contexts(words)
        Useful == {A \in Heads(prods) : words[A] # {} /\ contexts[A] # {}}
    IN /\ Useful = Heads(prods) =>
            \A A \in Heads(prods) :
              /\ first[A] = {norm(w, k) : w \in words[A]}
              /\ follow[A] = {norm(w \o <<"EOF">>, k) : w \in contexts[A]}
       /\ first = analyzeFirst(prods, k)
       /\ follow = analyzeFollow(prods, grammar.entries, first, k)

RECURSIVE Verdict(_, _, _, _)
\* The loop of the driver, on work with a text that ends in EOF
Verdict(t, work, text, fuel) ==
  LET item == Head(work)
      la == norm(text, k)
      exact == predict(t, item.sym, la)
      chosen == IF exact # {} THEN exact ELSE recover(t, item.sym, la)
  IN CASE work = <<>> -> IF text = <<"EOF">> THEN "accepted" ELSE "rejected"
       [] work # <<>> /\ fuel = 0 -> "endless"
       [] OTHER ->
            CASE item.kind = "action" -> Verdict(t, Tail(work), text, fuel - 1)
              [] item.kind = "terminal" /\ item.sym = text[1] -> Verdict(t, Tail(work), Tail(text), fuel - 1)
              [] item.kind = "nonterminal" /\ chosen # {} ->
                   Verdict(t, prods[CHOOSE p \in chosen : TRUE].body \o Tail(work), text, fuel - 1)
              [] OTHER -> "rejected"

Texts == UNION {[1 .. m -> Terminals] : m \in 0 .. MaxText}

\* With any table that could be built, predicting decides every text: those in
\* the language are parsed, and the repairs of recover and vanish let no other
\* through and never expand for ever (table.go's "cannot make a bad program
\* parse. ... Nor can it loop").
ParsesTheLanguage ==
  phase = "done" =>
    LET words == Words
        t == [prods |-> prods, rows |-> rows, lookahead |-> [p \in DOMAIN prods |-> Windows(p)]]
    IN \A A \in grammar.entries, text \in Texts :
         Verdict(t, <<nt(A)>>, Append(text, "EOF"), MaxFuel) = IF text \in words[A] THEN "accepted" ELSE "rejected"
=============================================================================
