CONSTANTS
  N = 2
  Channels = {1, 2}
  Prompt = TRUE
  MaxStamp = 8
SPECIFICATION FairSpec
INVARIANTS WritesInPlace Faithful
PROPERTY ReadReturns
