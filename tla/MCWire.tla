------------------------------- MODULE MCWire -------------------------------
(***************************************************************************)
(* Wire for TLC, with elements held by all and by all but one party.       *)
(***************************************************************************)
EXTENDS Wire

All == 0..(N-1)
MCElement == {All, All \ {N-1}}
MCPartySet == [p \in All |-> {x \in MCElement : p \in x}]
MCMaskPeers == 1..(N-T-1)
=============================================================================
