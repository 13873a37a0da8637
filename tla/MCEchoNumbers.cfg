CONSTANTS
  Part = 1
  Largest = 4
  Limit = 3
  Top = 128
  Half = 2
  LeakHalf = 2
  Peak = 2
  MaxPower = 8
SPECIFICATION NumbersFairSpec
INVARIANTS Exact NoDcLeft LevelBounded
PROPERTIES TracksToZero PowerErrorStep SilenceIsSeen
