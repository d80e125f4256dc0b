CONSTANTS
  N = 3
  T = 2
  Topology = "star"
  Capacity = 2
  PortBase = 12121
  PortStep = 100
  MaskPeers <- MCMaskPeers
  Element <- MCElement
  PartySet <- MCPartySet
SPECIFICATION WireSpec
INVARIANT Paired
INVARIANT Rendezvous
INVARIANT NoMixup
PROPERTY RefinesMpsi
PROPERTY Termination
