SPECIFICATION Spec
CONSTANTS
  HeapSize = 112
  SizeMax = 255
  Bases = {16}
  Requests = {16, 17, 48}
  Values = {7}
PROPERTY
  KeepsPromise
