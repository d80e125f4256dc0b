CONSTANTS
  N = 5
  T = 1
  Topology = "star"
  Capacity = 2
  MaskPeers <- MCMaskPeers
  Element <- MCElement
  PartySet <- MCPartySet
SPECIFICATION Spec
PROPERTY RefinesRounds
PROPERTY Termination
