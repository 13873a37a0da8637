CONSTANTS
  Node = {n1, n2, n3, n4}
  NULL = NULL
  Frames = 4
  Speech <- MCSpeech
  FrameLen = 160
  Lengths <- MCLengths
  Copies = 2
  Deliveries = 4
  Horizon = 800
SPECIFICATION Spec
INVARIANT Sorted
CHECK_DEADLOCK FALSE
