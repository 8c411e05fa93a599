----------------------------- MODULE FrontEnds ------------------------------
(***************************************************************************)
(* main.go and parser/algorithm.go: scripts and sessions of the prompt,    *)
(* run side by side with every parser the -parser and -k flags select.     *)
(* A front end is 0 for recursive descent, k for LL(k).                    *)
(*                                                                         *)
(* What the scanner and the interpreter do here is only what main.go sees  *)
(* of them: an error of the scanner sets HadError, and running a program   *)
(* ends well, in a static error, or in a runtime error.                    *)
(***************************************************************************)
EXTENDS Driver, Language

CONSTANTS
  Sources,   \* mode -> the sources it may begin with: records of tokens and scanError
  Probes,    \* the lines a session may go on with
  MaxLines   \* the lines of a session

RD == INSTANCE Descent

Fronts == {0} \cup Lookaheads
Modes == {"script", "repl", "batch"}

VARIABLES
  mode,     \* RunFile, RunPrompt, or a caller of ParseAll
  source,   \* the text under way
  lines,    \* how many there have been
  stage,    \* "lex", "parse", "end" and, for a script, "exited"
  rounds,   \* the turns of the parsers' loop on it
  outcome,  \* what running the text came to, "none" when it was not run
  front     \* front end -> what its process holds
vars == <<mode, source, lines, stage, rounds, outcome, front>>
control == <<stage, rounds>>

\* A line without a ';' that begins no statement is an expression to print.
isBareExpression(tokens) ==
  /\ \A i \in DOMAIN tokens : tokens[i] # ";"
  /\ tokens = <<>> \/ tokens[1] \notin Starters \cup {"{"}

Bare == mode = "repl" /\ isBareExpression(source.tokens)

NewOf(f, tokens) == IF f = 0 THEN RD!New(tokens, 0) ELSE NewK(tokens, f)

\* A round of the entry point the source calls for
Parsed(f, p) ==
  CASE f = 0 /\ Bare -> RD!Parse(p)
    [] f = 0 /\ mode = "batch" -> RD!ParseAll(p)
    [] f = 0 -> RD!ParseProgram(p)
    [] f # 0 /\ Bare -> Parse(p)
    [] f # 0 /\ mode = "batch" -> ParseAll(p)
    [] OTHER -> ParseProgram(p)

Started == [p |-> NewParser(<<>>), parsed |-> FALSE, ran |-> FALSE, code |-> 0,
            HadError |-> FALSE, HadRuntimeError |-> FALSE]

Init ==
  /\ mode \in Modes
  /\ source \in Sources[mode]
  /\ lines = 1
  /\ stage = "lex"
  /\ rounds = 0
  /\ outcome = "none"
  /\ front = [f \in Fronts |-> Started]

-----------------------------------------------------------------------------
(* runSource *)

\* Each step of the process is a turn of its control and what the turn does.
Lexes == stage = "lex" /\ stage' = "parse" /\ rounds' = 0

Lex ==
  /\ Lexes
  /\ front' = [f \in Fronts |->
                 LET p == NewOf(f, source.tokens)
                 IN [front[f] EXCEPT !.p = p, !.parsed = ~Bare /\ isAtEnd(p), !.ran = FALSE,
                                     !.HadError = @ \/ source.scanError]]
  /\ UNCHANGED <<mode, source, lines, outcome>>

Busy(f) == ~front[f].parsed /\ ~front[f].p.hangs

Parses == stage = "parse" /\ (\E f \in Fronts : Busy(f)) /\ rounds' = rounds + 1 /\ UNCHANGED stage

ParseRound ==
  /\ Parses
  /\ front' = [f \in Fronts |->
                 IF ~Busy(f) THEN front[f]
                 ELSE With(Parsed(f, front[f].p), LAMBDA p :
                        [front[f] EXCEPT !.p = p, !.parsed = ~p.hangs /\ (Bare \/ isAtEnd(p)),
                                         !.HadError = @ \/ HadError(p)])]
  /\ UNCHANGED <<mode, source, lines, outcome>>

Errors(f) == front[f].p.programErrors \o front[f].p.err

MayRun(f) == Errors(f) = <<>> /\ ~front[f].HadError

Runs == stage = "parse" /\ (\A f \in Fronts : front[f].parsed) /\ stage' = "end" /\ UNCHANGED rounds

\* A bare expression declares nothing, and is not resolved.
Run ==
  /\ Runs
  /\ outcome' \in CASE mode = "batch" \/ \A f \in Fronts : ~MayRun(f) -> {"none"}
                    [] Bare -> {"well", "runtime error"}
                    [] OTHER -> {"well", "static error", "runtime error"}
  /\ front' = [f \in Fronts |->
                 IF mode = "batch" \/ ~MayRun(f) THEN front[f]
                 ELSE [front[f] EXCEPT !.ran = TRUE,
                                       !.HadError = @ \/ outcome' = "static error",
                                       !.HadRuntimeError = @ \/ outcome' = "runtime error"]]
  /\ UNCHANGED <<mode, source, lines>>

-----------------------------------------------------------------------------
(* RunFile and RunPrompt *)

Reset(process) == [process EXCEPT !.HadError = FALSE, !.HadRuntimeError = FALSE]

NextLine ==
  /\ mode = "repl" /\ stage = "end" /\ lines < MaxLines
  /\ source' \in Probes
  /\ lines' = lines + 1
  /\ stage' = "lex"
  /\ outcome' = "none"
  /\ front' = [f \in Fronts |-> Reset(front[f])]
  /\ UNCHANGED <<mode, rounds>>

exitCode(process) ==
  IF process.HadError THEN 65 ELSE IF process.HadRuntimeError THEN 70 ELSE 0

Exit ==
  /\ mode = "script" /\ stage = "end"
  /\ stage' = "exited"
  /\ front' = [f \in Fronts |-> [front[f] EXCEPT !.code = exitCode(front[f])]]
  /\ UNCHANGED <<mode, source, lines, rounds, outcome>>

Next == Lex \/ ParseRound \/ Run \/ NextLine \/ Exit

\* The process runs on by itself until it waits for a line.  What a turn does
\* can always be done, so that fairness need only speak of the turns.
Spec == Init /\ [][Next]_vars /\ WF_control(Lexes \/ Parses \/ Runs)

-----------------------------------------------------------------------------
(* Properties *)

Text == source.tokens \o <<"EOF">>
Start == IF Bare THEN "line" ELSE IF mode = "batch" THEN "batch" ELSE "program"
InLanguage == FirstBad(Text, Start) = 0 /\ BadTargets(Text, Start) = {}

\* Both parsers, at every k, accept a text when the grammar derives it, and
\* otherwise return an error: recover and vanish repair a prediction that
\* missed without letting a bad program through (table.go, parser.go).
AcceptsTheGrammar ==
  stage \notin {"lex", "parse"} => \A f \in Fronts : (Errors(f) = <<>>) <=> InLanguage

\* The first error names the first token that cannot go on what precedes it,
\* or an '=' whose left side is no target: no parser, at any k, consumes a bad
\* token before it complains (errorAt, terminalMessage, mkAssign).
BlamesTheFirstBadToken ==
  stage \notin {"lex", "parse"} =>
    LET bad == FirstBad(Text, Start)
        targets == BadTargets(Text, Start)
    IN \A f \in Fronts :
         Errors(f) # <<>> =>
           LET error == Errors(f)[1]
           IN error.at \in (IF error.message = "Invalid assignment target." THEN targets ELSE {bad})

\* All front ends build the same trees, and of the same declarations when some
\* were in error: the actions of the LL(k) grammar fold what the functions of
\* recursive descent build (algorithm.go, Algorithm).
SameTrees ==
  stage \notin {"lex", "parse"} =>
    LET Tree(f) == IF Failed(front[f].p) THEN NoNode ELSE front[f].p.node
    IN \A f \in Fronts : Tree(f) = Tree(0)

Reports(f) == front[f].p.reports
Ats(f) == [i \in DOMAIN Reports(f) |-> Reports(f)[i].at]

\* After any error all front ends resume at the same token, so that they report
\* the same errors at the same tokens, over the limit of 255 included; only a
\* call whose arguments cannot begin is described in other words.
SameErrors ==
  stage \notin {"lex", "parse"} =>
    \A f \in Fronts :
      /\ Ats(f) = Ats(0)
      /\ \A i \in DOMAIN Reports(f) :
           Reports(f)[i].message \in {Reports(0)[i].message, failMessage(fail, "arguments")}

\* "for a malformed construct inside a rule, both front ends should say the
\* same thing at every k" (algorithm_test.go, TestErrorMessagesMatchRecursiveDescent)
SameMessages ==
  stage \notin {"lex", "parse"} => \A f \in Fronts : Reports(f) = Reports(0)

RECURSIVE OverLimit(_)
\* A tree with a call or a function longer than the limit
OverLimit(node) ==
  \/ node.kind = "Call" /\ Len(node.kids[2].kids) > MaxArguments
  \/ node.kind = "Function" /\ Len(node.kids[1].kids) > MaxParameters
  \/ \E i \in DOMAIN node.kids : OverLimit(node.kids[i])

\* A text is run when it is in the language, keeps to the limits (which a text
\* in the language need not do, and is not refused for by an error returned) and
\* held no bad character, whatever the lines before it did; and a script's exit code
\* tells which of these or what in its run went wrong (errors.go, main.go).
RunsOnlyCleanLines ==
  stage \notin {"lex", "parse"} /\ mode # "batch" =>
    \A f \in Fronts :
      LET clean == InLanguage /\ ~source.scanError /\ ~OverLimit(front[f].p.node)
      IN /\ front[f].ran <=> clean
         /\ stage = "exited" =>
              front[f].code = CASE ~clean \/ outcome = "static error" -> 65
                                [] clean /\ outcome = "runtime error" -> 70
                                [] OTHER -> 0

\* The parsers end on every text, after any number of errors: recovery discards
\* a token each time, and the loop of the LL(k) parser expands no rule for ever
\* (synchronize, recover, vanish).
EveryLineEnds == stage = "lex" ~> stage = "end"
=============================================================================
