---------------------------- MODULE CloxScanner ----------------------------
(***************************************************************************)
(* clox/scanner.c: one token per call, errors as tokens, and strings with  *)
(* "${" expressions "}" inside.                                            *)
(*                                                                         *)
(* A text is a sequence of characters, of which only those that some rule  *)
(* tells apart need to occur: "a" stands for the letters but o and r, "or" *)
(* for the keywords, "(" and "+" for the other single characters, "=" for  *)
(* the four operators that a "=" may follow, "@" for what begins no token  *)
(* of either scanner; "?" and ":" begin one of clox only.                  *)
(***************************************************************************)
EXTENDS Naturals, Sequences, FiniteSets

CONSTANT MAX_INTERPOLATION   \* 8

VARIABLES
  text,      \* the source, the end of which is '\0'
  current,   \* the characters consumed
  line,      \* the line they end on
  braces,    \* for every open interpolation, the '{' still open inside it
  tokens     \* what scanToken has returned, each with the characters it covers
vars == <<text, current, line, braces, tokens>>

Letters == {"a", "o", "r"}
Digits  == {"1"}
Single  == {"(", "+", ".", "/", "?", ":"}
Blanks  == {" "}
Others  == {"=", "{", "}", "\"", "$", "@", "\n"}
Characters == Letters \cup Digits \cup Single \cup Blanks \cup Others

End == "end"
At(i) == IF i <= Len(text) THEN text[i] ELSE End

\* The last index of the longest run of characters in class from index i on.
RunEnd(i, class) ==
  CHOOSE j \in i - 1 .. Len(text) : (\A k \in i .. j : At(k) \in class) /\ At(j + 1) \notin class

Newlines(i, j) == Cardinality({k \in i .. j : At(k) = "\n"})

\* The end of the line index i is on.
LineEnd(i) ==
  CHOOSE k \in i .. Len(text) + 1 : At(k) \in {"\n", End} /\ \A l \in i .. k - 1 : At(l) \notin {"\n", End}

\* The first character no comment, blank or newline covers, from index i on.
skipWhitespace(i) ==
  LET skip[j \in 1 .. Len(text) + 1] ==
        CASE At(j) \in Blanks \cup {"\n"}   -> skip[j + 1]
          [] At(j) = "/" /\ At(j + 1) = "/" -> skip[LineEnd(j)]
          [] OTHER                          -> j
  IN skip[i]

\* The line a token that starts at index i is on.
LineOf(i) == line + Newlines(current + 1, i - 1)

\* scanToken's result: the token, and how far it leaves the scanner.
Returns(type, start, end, at) ==
  /\ tokens' = Append(tokens, [type |-> type, start |-> start, end |-> end, line |-> at])
  /\ current' = end
  /\ line' = at
  /\ UNCHANGED text

Top == Len(braces)

\* The end of a string's segment that has no delimiter up to index i.
SegmentEnd(i) ==
  CHOOSE j \in i .. Len(text) + 1 :
    /\ \/ At(j) \in {"\"", End}
       \/ At(j) = "$" /\ At(j + 1) = "{"
    /\ \A k \in i .. j - 1 : At(k) # "\"" /\ ~(At(k) = "$" /\ At(k + 1) = "{")

\* A plausible bug: a string over several lines leaves the line as it was.
segmentLineKept(start, end) == LineOf(start)

\* The segment's own newlines count, whatever it ends with.
segmentLine(start, end) == LineOf(start) + Newlines(start + 1, end)

\* string, from just past the delimiter at start; depth is what is open then.
string(start, depth) ==
  LET j == SegmentEnd(start + 1)
      Segment(type, end) == Returns(type, start, end, segmentLine(start, end))
  IN \/ /\ At(j) = End
        /\ Segment("ERROR", Len(text))
        /\ braces' = depth
     \/ /\ At(j) = "\""
        /\ Segment("STRING", j)
        /\ braces' = depth
     \/ /\ At(j) = "$" /\ Len(depth) = MAX_INTERPOLATION
        /\ Segment("ERROR", j - 1)
        /\ braces' = depth
     \/ /\ At(j) = "$" /\ Len(depth) < MAX_INTERPOLATION
        /\ Segment("INTERPOLATION", j + 1)
        /\ braces' = Append(depth, 0)

\* A fractional part needs a digit after the dot.
numberEnd(i) ==
  LET whole == RunEnd(i, Digits)
  IN IF At(whole + 1) = "." /\ At(whole + 2) \in Digits THEN RunEnd(whole + 2, Digits) ELSE whole

identifierType(i, j) == IF SubSeq(text, i, j) = <<"o", "r">> THEN "OR" ELSE "IDENTIFIER"

\* A plausible bug: every '}' inside an interpolation ends it.
closesAny == Top > 0

\* This '}' ends an interpolation rather than a block.
closesInterpolation == Top > 0 /\ braces[Top] = 0

\* A brace inside an interpolation changes the count of its block braces.
count(change) ==
  IF Top > 0 THEN [braces EXCEPT ![Top] = @ + change] ELSE braces

Done == tokens # <<>> /\ tokens[Len(tokens)].type = "EOF"

scanToken ==
  /\ ~Done
  /\ LET i == skipWhitespace(current + 1)
         c == At(i)
         Plain(type, end) == Returns(type, i, end, LineOf(i)) /\ UNCHANGED braces
         Run == RunEnd(i, Letters \cup Digits)
     IN \/ c = End /\ Plain("EOF", Len(text))
        \/ c \in Letters /\ Plain(identifierType(i, Run), Run)
        \/ c \in Digits /\ Plain("NUMBER", numberEnd(i))
        \/ c \in Single /\ Plain(c, i)
        \/ c = "=" /\ At(i + 1) # "=" /\ Plain("=", i)
        \/ c = "=" /\ At(i + 1) = "=" /\ Plain("==", i + 1)
        \/ c = "{" /\ Returns("{", i, i, LineOf(i)) /\ braces' = count(1)
        \/ c = "}" /\ closesInterpolation /\ string(i, SubSeq(braces, 1, Top - 1))
        \/ c = "}" /\ ~closesInterpolation /\ Returns("}", i, i, LineOf(i)) /\ braces' = count(0 - 1)
        \/ c = "\"" /\ string(i, braces)
        \/ c \in {"$", "@"} /\ Plain("ERROR", i)
=============================================================================
