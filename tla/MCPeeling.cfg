CONSTANTS
  Key = {1, 2, 3, 4, 5, 6}
  Bins = 2
SPECIFICATION MCSpec
INVARIANT TypeOK
INVARIANT PeelOrder
INVARIANT NoneForgotten
INVARIANT TwoCore
PROPERTY Terminates
