SPECIFICATION Spec
CONSTANTS
  MaxParameters = 2
  MaxArguments = 2
  Lookaheads = {1, 2}
  MaxSteps = 9
  Sources <- Edited
  Probes <- Afterwards
  MaxLines = 2
INVARIANTS
  AcceptsTheGrammar
  BlamesTheFirstBadToken
  SameTrees
  SameErrors
  RunsOnlyCleanLines
PROPERTY
  EveryLineEnds
CHECK_DEADLOCK FALSE
