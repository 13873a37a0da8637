CONSTANTS
  Taps = 3
  Hangover = 3
  Wins = 2
  Versions = {0, 1}
  SMP = TRUE
SPECIFICATION Spec
INVARIANT Aligned
