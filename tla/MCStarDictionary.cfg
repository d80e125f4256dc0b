CONSTANTS
  k1 = k1
  k2 = k2
  k3 = k3
  k4 = k4
  k5 = k5
  Dummy = zero
  Key = {k1, k2, k3, k4, k5}
  Q = 3
  NumThreads = 2
  Size = 2
  V = 0
  Bit <- OneBit
  Hash <- MCHash
  Input <- MCInput
  Filling <- MCFilling
  Tight <- MCTight
  MaxEncodings = 2
SPECIFICATION Spec
 
INVARIANT FailureFound
INVARIANT NoRace
