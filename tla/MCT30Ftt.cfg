CONSTANTS
  Caller = Caller
  Answerer = Answerer
  Tries = 3
  Pages = 2
  Blocks = 2
  BlockFrames = 2
  ExtraRcp = 0
  Mishaps = 1
  Scenarios <- MCScenarios
SPECIFICATION Spec
INVARIANT TriesAgain
CHECK_DEADLOCK FALSE
