CONSTANTS
  MaxFrames = 4
  MaxEnvironments = 7
  MaxObjects = 3
  Phrases <- Scopes
  MaxPhrases = 4
  MaxLines = 1
SPECIFICATION Spec
INVARIANT NeverCrashes
