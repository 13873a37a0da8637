CONSTANTS
  calling = calling
  answering = answering
  Caller = calling
  Answerer = answering
  Mod = 128
  Window = 15
  N_400 = 2
  Adps = 2
  Slots = 4
  MaxMerge = 2
  MaxLine = 1
  MaxWaiting = 1
  Foreign <- OtherMakes
  Scenarios <- SmallScenarios
SPECIFICATION FairSpec
INVARIANTS TypeOK TimersOwned OutstandingNumbered OutstandingSupervised
PROPERTIES ImplementsStream SetUpEnds
CHECK_DEADLOCK FALSE
