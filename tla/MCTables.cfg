SPECIFICATION Spec
CONSTANTS
  Grammars <- Family
  MinK = 1
  MaxK = 3
  Terminals = {"a", "b"}
  MaxWord = 8
  MaxText = 3
  MaxFuel = 40
INVARIANTS
  SetsAreThoseOfTheGrammar
  ConflictsExactly
  ParsesTheLanguage
PROPERTY
  Ends
CHECK_DEADLOCK FALSE
