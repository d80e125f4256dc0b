CONSTANTS
  Key = {1, 2, 3, 4, 5}
  Bins = 3
  Bit <- TwoBits
  Filler <- MCFiller
  Input <- MCInput
  Foreign <- MCForeign
  MaxRuns = 2
SPECIFICATION MCSpec
INVARIANT PeelOrder
INVARIANT TwoCore
INVARIANT FirstTable
