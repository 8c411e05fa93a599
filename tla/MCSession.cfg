SPECIFICATION Spec
CONSTANTS
  NULL = NULL
  Garbage = Garbage
  ByteSize = 2
  STACK_INITIAL = 2
  Sources <- Texts
  HandBuilt <- Chunks
  MaxInputs = 3
INVARIANTS
  MemorySafe
  NothingLeaks
  ComputesTheValue
PROPERTY
  ComesBack
