------------------------------ MODULE Scanners ------------------------------
(***************************************************************************)
(* Both scanners over one text, as tool/scandiff.sh runs them over the     *)
(* corpus, and what each must get right by itself.                         *)
(***************************************************************************)
EXTENDS Naturals, Sequences, FiniteSets, Selection

CONSTANTS
  MAX_INTERPOLATION,
  MaxWhole,           \* the digits a number may have before its dot
  Texts               \* the texts scanned

VARIABLES
  text,
  current, line, braces, tokens,         \* clox
  goCurrent, goLine, goTokens, goErrors  \* glox
vars == <<text, current, line, braces, tokens, goCurrent, goLine, goTokens, goErrors>>

C == INSTANCE CloxScanner
G == INSTANCE GoScanner WITH current <- goCurrent, line <- goLine, tokens <- goTokens, errors <- goErrors

ASSUME InterpolationAssumption == MAX_INTERPOLATION \in Nat \ {0}
ASSUME WholeAssumption == MaxWhole \in Nat
ASSUME TextsAssumption == Texts \subseteq Seq(C!Characters)

Init ==
  /\ text \in Texts
  /\ current = 0 /\ line = 1 /\ braces = <<>> /\ tokens = <<>>
  /\ goCurrent = 0 /\ goLine = 1 /\ goTokens = <<>> /\ goErrors = <<>>

CloxStep == C!scanToken /\ UNCHANGED <<goCurrent, goLine, goTokens, goErrors>>
GoStep   == C!Done /\ G!ScanToken /\ UNCHANGED <<current, line, braces, tokens>>
Finished == C!Done /\ G!Done /\ UNCHANGED vars

Next == CloxStep \/ GoStep \/ Finished

Spec == Init /\ [][Next]_vars

-----------------------------------------------------------------------------
(* The text, character by character: where each one is *)

\* What is open after i characters, innermost last: a string, an interpolation
\* inside a string, a block inside code, or a comment.
Popped(open) == SubSeq(open, 1, Len(open) - 1)
Innermost(open) == IF open = <<>> THEN "code" ELSE open[Len(open)]

\* What a character makes of what is open, after the one before it.
Opens(open, before, c) ==
  LET in == Innermost(open)
  IN CASE in = "comment" -> IF c = "\n" THEN Popped(open) ELSE open
       [] in = "string" /\ c = "\"" -> Popped(open)
       [] in = "string" /\ c = "{" /\ before = "$" -> Append(open, "interpolation")
       [] in \notin {"string", "comment"} /\ c = "\"" -> Append(open, "string")
       [] in \notin {"string", "comment"} /\ c = "{" -> Append(open, "block")
       [] in \in {"block", "interpolation"} /\ c = "}" -> Popped(open)
       [] in \notin {"string", "comment"} /\ c = "/" /\ before = "/" -> Append(open, "comment")
       [] OTHER -> open

Opened ==
  LET after[i \in 0 .. Len(text)] ==
        IF i = 0 THEN <<>>
        ELSE Opens(after[i - 1], IF i > 1 THEN text[i - 1] ELSE "none", text[i])
  IN after

\* The blocks open in the innermost code of every interpolation, outermost first.
OpenBraces(open) ==
  LET at == {i \in 1 .. Len(open) : open[i] = "interpolation"}
      Nth(n) == CHOOSE i \in at : Cardinality({j \in at : j <= i}) = n
      Blocks(i) == CHOOSE n \in 0 .. Len(open) - i :
                     /\ \A j \in i + 1 .. i + n : open[j] = "block"
                     /\ i + n = Len(open) \/ open[i + n + 1] # "block"
  IN [n \in 1 .. Cardinality(at) |-> Blocks(Nth(n))]

-----------------------------------------------------------------------------
(* Correctness *)

TooDeep == \E i \in 0 .. Len(text) : Len(OpenBraces(Opened[i])) > MAX_INTERPOLATION
LastToken == tokens[Len(tokens)]

\* At every token boundary the counters hold, for each open interpolation, the
\* blocks open in it: so a '}' is read as what it closes, however strings,
\* interpolations and blocks are nested.
BracesMatch == ~TooDeep => braces = OpenBraces(Opened[current])

\* No character is lost or read twice: between two tokens there are only blanks
\* and comments, every token but EOF has a character, and its line is that of
\* its last one.
TokensCoverTheText ==
  tokens # <<>> =>
    LET from == IF Len(tokens) = 1 THEN 0 ELSE tokens[Len(tokens) - 1].end
    IN /\ LastToken.type # "EOF" => from < LastToken.start /\ LastToken.start <= LastToken.end
       /\ LastToken.type = "EOF" => LastToken.end = Len(text)
       /\ ~TooDeep =>
            \A i \in from + 1 .. (IF LastToken.type = "EOF" THEN Len(text) ELSE LastToken.start - 1) :
              \/ text[i] \in {" ", "\n"}
              \/ "comment" \in {Opened[i][j] : j \in 1 .. Len(Opened[i])}
              \/ text[i] = "/" /\ i < Len(text) /\ text[i + 1] = "/"
       /\ LastToken.line = 1 + Cardinality({i \in 1 .. LastToken.end : text[i] = "\n"})

\* Where clox returns one of these, glox has no token to return: an error token,
\* and the two halves of a ternary, which only clox has (scanner.h:11-15).
Refused == {"ERROR", "?", ":"}

\* clox leaves the value of a number to its compiler (scanner.c:200-202).
TooLarge(token) ==
  /\ token.type = "NUMBER"
  /\ token.start + MaxWhole <= token.end
  /\ \A k \in token.start .. token.start + MaxWhole : text[k] \in C!Digits

Complains(token) == token.type \in Refused \/ TooLarge(token)

\* The tokens of clox that glox has too, and the lines of those it reports.
Good     == Selected(tokens, {n \in 1 .. Len(tokens) : tokens[n].type \notin Refused})
BadLines == Selected([n \in 1 .. Len(tokens) |-> tokens[n].line],
                     {n \in 1 .. Len(tokens) : Complains(tokens[n])})

NoInterpolation == \A i \in 1 .. Len(tokens) : tokens[i].type # "INTERPOLATION"

\* Without interpolation in the text the two scanners return the same tokens on the
\* same lines, but for the '?' and ':' that only clox has; and glox reports an error
\* for each of these, for each error token of clox and for each number that is too
\* large, in their order and for nothing else (scanner.c:275, scanner.go:189 and
\* 230, tool/scandiff.sh:20).
ScannersAgree ==
  C!Done /\ G!Done /\ NoInterpolation =>
    Good[Len(tokens)] = goTokens /\ BadLines[Len(tokens)] = goErrors
=============================================================================
