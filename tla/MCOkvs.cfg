CONSTANTS
  Key = {1, 2, 3}
  Bins = 2
  Gamma = 1
  Bit <- TwoBits
  Filler <- MCFiller
  Input <- MCInput
  MaxRuns = 2
SPECIFICATION MCSpec
INVARIANT OkvsTypeOK
INVARIANT TableDecodes
INVARIANT NoSlotUnset
INVARIANT SolvedStaySolved
INVARIANT CoreStaysSolved
