CONSTANTS
  MaxFrames = 4
  MaxEnvironments = 7
  MaxObjects = 3
  Phrases <- Scopes
  MaxPhrases = 6
  MaxLines = 1
SPECIFICATION Spec
INVARIANTS ResolvesLexically RefusesExactly WarnsExactly InScope SlotsLineUp CrashesOnlyInInitializers
