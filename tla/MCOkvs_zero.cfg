CONSTANTS
  Key = {1, 2, 3}
  Bins = 2
  Gamma = 1
  Bit <- OneBit
  Filler <- MCFiller
  Input <- PairInput
  MaxRuns = 2
SPECIFICATION MCSpec
INVARIANT CheckOutput
