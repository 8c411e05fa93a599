SPECIFICATION Spec
CONSTANTS
  NULL = NULL
  Garbage = Garbage
  ByteSize = 2
  STACK_INITIAL = 2
  Types = {"num", "-", "*", "(", ")", "?", ":", "error"}
  MaxTokens = 5
  Sources <- EveryText
  HandBuilt = {}
  MaxInputs = 1
INVARIANTS
  TypeOK
  OneMessage
  EmitsPostfix
  ComputesTheValue
