----------------------------- MODULE GoScanner -----------------------------
(***************************************************************************)
(* lexer/scanner/scanner.go: all tokens at once, errors reported beside    *)
(* them, and no interpolation.  The characters are those of CloxScanner;   *)
(* the two halves of a ternary, which Lox has not, are no token here.      *)
(***************************************************************************)
EXTENDS Naturals, Sequences, FiniteSets

CONSTANT MaxWhole   \* the most digits before the dot of a float64 ("1" stands for them all): 309

VARIABLES
  text,      \* Source
  current,   \* the characters consumed
  line,      \* the line they end on
  tokens,    \* ListToken, each with the characters of its lexeme
  errors     \* the lines of the errors reported
vars == <<text, current, line, tokens, errors>>

Letters == {"a", "o", "r"}
Digits  == {"1"}
Single  == {"(", "{", "}", "+", "."}

peek(i) == IF i <= Len(text) THEN text[i] ELSE "NUL"

\* The last index of the longest run of characters in class from index i on.
RunEnd(i, class) ==
  CHOOSE j \in i - 1 .. Len(text) : (\A k \in i .. j : peek(k) \in class) /\ peek(j + 1) \notin class

\* The first index from i on that holds one of the characters in class, or the
\* one after the end.
Next(i, class) ==
  CHOOSE j \in i .. Len(text) + 1 :
    (\A k \in i .. j - 1 : peek(k) \notin class) /\ (j > Len(text) \/ peek(j) \in class)

\* What begins no token
Unexpected == {"$", "@", "?", ":"}

Consume(n) == current' = n /\ UNCHANGED text
Adds(type, end, at) ==
  /\ tokens' = Append(tokens, [type |-> type, start |-> current + 1, end |-> end, line |-> at])
  /\ Consume(end)
  /\ line' = at
AddToken(type, end, at) == Adds(type, end, at) /\ UNCHANGED errors
Skip(end) == Consume(end) /\ UNCHANGED <<tokens, errors>>
Reports(at) == errors' = Append(errors, at)
Error(end, at) ==
  /\ Reports(at)
  /\ Consume(end)
  /\ line' = at
  /\ UNCHANGED tokens

\* The line is counted up to the closing quote or the end of the text.
stringLiteral(start) ==
  LET close == Next(start + 1, {"\""})
      at == line + Cardinality({k \in start .. close - 1 : peek(k) = "\n"})
  IN IF close > Len(text) THEN Error(Len(text), at) ELSE AddToken("STRING", close, at)

\* A plausible bug: the dot joins the number whatever follows it.
numberEndEager(i) ==
  LET whole == RunEnd(i, Digits)
  IN IF peek(whole + 1) = "." THEN RunEnd(whole + 2, Digits) ELSE whole

numberEnd(i) ==
  LET whole == RunEnd(i, Digits)
  IN IF peek(whole + 1) = "." /\ peek(whole + 2) \in Digits THEN RunEnd(whole + 2, Digits) ELSE whole

\* What strconv.ParseFloat has no finite value for
TooLarge(i) == RunEnd(i, Digits) >= i + MaxWhole

\* The token of a number that is too large is added all the same.
number(i) ==
  \/ ~TooLarge(i) /\ AddToken("NUMBER", numberEnd(i), line)
  \/ TooLarge(i) /\ Adds("NUMBER", numberEnd(i), line) /\ Reports(line)

keyword(i, j) == IF SubSeq(text, i, j) = <<"o", "r">> THEN "OR" ELSE "IDENTIFIER"

Done == tokens # <<>> /\ tokens[Len(tokens)].type = "EOF"

\* One turn of ScanToken's loop, or the EOF after it.
ScanToken ==
  /\ ~Done
  /\ LET i == current + 1
         c == peek(i)
     IN \/ i > Len(text) /\ AddToken("EOF", Len(text), line)
        \/ c \in Single /\ AddToken(c, i, line)
        \/ c = "=" /\ (IF peek(i + 1) = "=" THEN AddToken("==", i + 1, line) ELSE AddToken("=", i, line))
        \/ c = "/" /\ peek(i + 1) = "/" /\ Skip(Next(i, {"\n"}) - 1) /\ UNCHANGED line
        \/ c = "/" /\ peek(i + 1) # "/" /\ AddToken("/", i, line)
        \/ c = "\"" /\ stringLiteral(i)
        \/ c = " " /\ Skip(i) /\ UNCHANGED line
        \/ c = "\n" /\ Skip(i) /\ line' = line + 1
        \/ c \in Digits /\ number(i)
        \/ c \in Letters /\ (LET j == RunEnd(i, Letters \cup Digits) IN AddToken(keyword(i, j), j, line))
        \/ c \in Unexpected /\ Error(i, line)
=============================================================================
