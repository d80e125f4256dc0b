CONSTANTS
  N = 5
  T = 1
  Topology = "ring"
  Capacity = 1
  MaskPeers = {1}
  Element <- MCElement
  PartySet <- MCPartySet
SPECIFICATION OringSpec
INVARIANT Drained
PROPERTY RefinesRounds
PROPERTY Termination
