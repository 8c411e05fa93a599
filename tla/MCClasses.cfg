CONSTANTS
  MaxFrames = 4
  MaxEnvironments = 12
  MaxObjects = 5
  Phrases <- Classes
  MaxPhrases = 5
  MaxLines = 2
SPECIFICATION Spec
INVARIANTS TypeOK RefusesExactly CrashesOnlyInInitializers
PROPERTY SuperGoesUp
