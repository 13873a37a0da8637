CONSTANTS
  Caller = Caller
  Answerer = Answerer
  Tries = 3
  Pages = 2
  Blocks = 2
  BlockFrames = 2
  ExtraRcp = 0
  Mishaps = 2
  Scenarios <- MCScenarios
SPECIFICATION Spec
INVARIANTS TypeOK NothingSkipped NothingLost WaitsAreTimed
PROPERTIES FileGrows GoodCall CallsRest
CHECK_DEADLOCK FALSE
