CONSTANTS
  Rows = 3
  Cols = 4
  Bit <- OneBit
SPECIFICATION Spec
INVARIANT RowsHold
INVARIANT Confined
