SPECIFICATION Spec
CONSTANTS
  HeapSize = 120
  SizeMax = 255
  Bases = {16, 25}
  Requests = {0, 1, 17, 48, 250}
  Values = {}
INVARIANTS
  TypeOK
  HeapCheck
  OwnedApart
  WholeAgain
  RefusedOnlyWhenFull
