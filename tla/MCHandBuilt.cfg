SPECIFICATION Spec
CONSTANTS
  NULL = NULL
  Garbage = Garbage
  ByteSize = 2
  Lines = {1, 2}
  Opcodes = {7}
  Values = {a, b}
  MaxBytes = 9
  MaxPool = 2
INVARIANTS
  MemorySafe
  NothingLeaks
PROPERTY
  KeepsListing
