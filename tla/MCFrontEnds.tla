---------------------------- MODULE MCFrontEnds -----------------------------
(* Texts one token away from a program that uses every rule. *)
EXTENDS FrontEnds

Good ==
  {<<"var", "id", "=", "id", "=", "number", ";">>,
   <<"class", "id", "<", "id", "{", "id", "{", "}", "class", "id", "(", "id", ",", "id", ")", "{", "}", "}">>,
   <<"fun", "id", "(", "id", ",", "id", ")", "{", "return", ";", "}">>,
   <<"for", "(", "var", "id", ";", "id", ";", "id", "=", "id", ")", "{", "}">>,
   <<"for", "(", ";", ";", ")", "if", "(", "id", ")", "print", "id", ";", "else", "return", "id", ";">>,
   <<"while", "(", "id", ")", "{", "id", ";", "}">>}

Expressions ==
  {<<"id", ".", "id", "=", "id", "(", "id", ",", "id", ")">>,
   <<"-", "id", "-", "id", "-", "id", "*", "(", "id", ")">>,
   <<"id", "==", "id", "or", "id", "<", "id", "and", "!", "id">>,
   <<"super", ".", "id", "(", ")", ".", "id">>}

\* Programs of the language that are over the limit of two, some of them twice
LongLists ==
  {<<"id", "(", "id", ",", "id", ",", "id", ")", ";">>,
   <<"fun", "id", "(", "id", ",", "id", ",", "id", ")", "{", "}">>}
LongerLists ==
  {<<"id", "(", "id", ",", "id", ",", "id", ",", "id", ")", ";">>,
   <<"class", "id", "{", "id", "(", "id", ",", "id", ",", "id", ")", "{", "id", "(", "id", ",", "id", ",", "id", ")", ";", "}", "}">>}
LongCall == <<"id", "(", "id", ",", "id", ",", "id", ")">>

Terminated == {e \o <<";">> : e \in Expressions}

NewTokens == {"id", ";", "(", ")", "{", "}", "=", ",", ".", "-", "class", "print", "else", "super"}

Cut(text) == {SubSeq(text, 1, n) : n \in 0 .. Len(text)}
Without(text) == {SubSeq(text, 1, i - 1) \o SubSeq(text, i + 1, Len(text)) : i \in DOMAIN text}
Replaced(text) == {[text EXCEPT ![i] = t] : i \in DOMAIN text, t \in NewTokens}
Inserted(text) == {SubSeq(text, 1, i) \o <<t>> \o SubSeq(text, i + 1, Len(text)) : i \in 0 .. Len(text), t \in NewTokens}

Near(texts) == UNION {Cut(t) \cup Without(t) \cup Replaced(t) \cup Inserted(t) : t \in texts}
Read(texts) == [tokens : texts, scanError : {FALSE}]

Unread == [tokens |-> <<"id", ";">>, scanError |-> TRUE]

Edited ==
  [script |-> Read(Near(Good \cup Terminated \cup LongLists) \cup LongerLists) \cup {Unread},
   repl |-> Read(Near(Expressions) \cup Terminated \cup Good \cup LongLists \cup LongerLists \cup {LongCall}) \cup {Unread},
   batch |-> Read(Near(Terminated) \cup {LongCall \o <<";">>})]

\* Scripts of one call
Calls == [script |-> Read(Near({<<"id", "(", "id", ",", "id", ")", ";">>})), repl |-> {}, batch |-> {}]

Afterwards == Read({<<"id">>, <<"print", "id", ";">>, <<"id", ";", "number", "=">>})
=============================================================================
