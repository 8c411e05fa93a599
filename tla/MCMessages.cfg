SPECIFICATION Spec
CONSTANTS
  MaxParameters = 2
  MaxArguments = 2
  Lookaheads = {1, 2}
  MaxSteps = 9
  Sources <- Calls
  Probes <- Afterwards
  MaxLines = 2
INVARIANT
  SameMessages
CHECK_DEADLOCK FALSE
