CONSTANTS
  Taps = 3
  Hangover = 4
  Wins = 2
  Versions = {0, 1, 2}
  SMP = FALSE
SPECIFICATION FairSpec
INVARIANT Aligned
PROPERTIES TransferEarned HeldAfterSpeech EventuallyAdopted
