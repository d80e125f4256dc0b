CONSTANTS
  N = 6
  T = 2
  Topology = "ring"
  MaskPeers <- MCMaskPeers
  Element <- MCElement
  PartySet <- MCPartySet
SPECIFICATION Spec
INVARIANT TypeOK
INVARIANT Accounting
INVARIANT Correctness
PROPERTY AbstractSpec
