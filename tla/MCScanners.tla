----------------------------- MODULE MCScanners -----------------------------
(* Texts put together from at most MaxNested or MaxLexemes pieces. *)
EXTENDS Scanners, SequencesExt

CONSTANTS MaxNested, MaxLexemes

Nesting == {<<"\"">>, <<"$", "{">>, <<"{">>, <<"}">>, <<"\n">>}
Lexemes == {<<"\"">>, <<"/">>, <<"\n">>, <<"1">>, <<".">>, <<"o">>, <<"r">>, <<"=">>, <<"?">>, <<":">>,
            <<"@">>, <<" ">>}
Made(pieces, most) == {FlattenSeq(made) : made \in SeqOf(pieces, most)}
EveryText == Made(Nesting, MaxNested) \cup Made(Lexemes, MaxLexemes)
=============================================================================
