------------------------------- MODULE MCMpsi -------------------------------
(***************************************************************************)
(* Mpsi for TLC.  An element is the set of the parties that hold it; the   *)
(* four here are held by all, by all but a receiver, by all but a sender,  *)
(* and by all but party 0.                                                 *)
(***************************************************************************)
EXTENDS Mpsi

All == 0..(N-1)
MCElement == {All, All \ {1}, All \ {N-1}, All \ {0}}
MCPartySet == [p \in All |-> {x \in MCElement : p \in x}]
MCMaskPeers == 1..(N-T-1)
=============================================================================
