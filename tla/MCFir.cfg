CONSTANTS
  Taps = 3
  Samples <- SmallSamples
  Factors <- SmallFactors
  One = 2
  Half = 1
  Top16 = 4
  Layouts = {"circular", "doubled", "straight"}
SPECIFICATION FirSpec
PROPERTY ImplementsDelayLine
