CONSTANTS
  N = 4
  T = 2
  Topology = "ring"
  Capacity = 1
  MaskPeers <- MCMaskPeers
  Element <- MCElement
  PartySet <- MCPartySet
SPECIFICATION Spec
INVARIANT TypeOK
INVARIANT ExpectedMessage
INVARIANT CleanChannel
INVARIANT SessionAgreement
INVARIANT Drained
PROPERTY RefinesRounds
PROPERTY Termination
