SPECIFICATION Spec
CONSTANTS
  MAX_INTERPOLATION = 2
  MaxWhole = 2
  MaxNested = 6
  MaxLexemes = 4
  Texts <- EveryText
INVARIANTS
  BracesMatch
  TokensCoverTheText
  ScannersAgree
